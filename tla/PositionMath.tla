---------------------------- MODULE PositionMath ----------------------------
(***************************************************************************)
(* The pure arithmetic of services/reconciliation/position_math.py: what   *)
(* one fill does to a position and to a cash balance.                      *)
(*                                                                         *)
(* Units.  Sizes are whole lots and prices whole ticks, so cash is         *)
(* lots x ticks.  An average cost is the only quotient in the code (a      *)
(* Decimal division, rounded half-even by the default context); it is kept *)
(* as a whole number of 1/AvgScale ticks and rounded the same way.         *)
(* Realized PnL is in lots x 1/AvgScale ticks and is exact.                *)
(***************************************************************************)
EXTENDS Integers

CONSTANT AvgScale        \* units of average cost per price tick

ASSUME AvgScaleAssumption == AvgScale \in Nat \ {0}

Magnitude(x) == IF x < 0 THEN -x ELSE x
Lesser(a, b) == IF a < b THEN a ELSE b

(* n / d to the nearest integer, ties to the even neighbour (d > 0). *)
RoundHalfEven(n, d) ==
  LET q == n \div d
      r == n % d
  IN  IF 2 * r > d \/ (2 * r = d /\ q % 2 = 1) THEN q + 1 ELSE q

(* No row in the store reads as three zeros. *)
NoPosition == [size |-> 0, avg |-> 0, realized |-> 0]

SignedFill(fill) == IF fill.side = "buy" THEN fill.size ELSE -fill.size

Grows(size, signed) ==
  size = 0 \/ (size > 0 /\ signed > 0) \/ (size < 0 /\ signed < 0)

-----------------------------------------------------------------------------
(* Faulty: weights the prior cost by the signed size. *)
CostAverageSigned(pos, fill) ==
  LET size == pos.size + SignedFill(fill)
      notional == pos.size * pos.avg + fill.size * fill.price * AvgScale
  IN  [size |-> size,
       avg  |-> IF size = 0 THEN 0 ELSE RoundHalfEven(notional, Magnitude(size)),
       pnl  |-> 0]

(* A fill on the side the position is on, or one that opens it. *)
CostAverage(pos, fill) ==
  LET size == pos.size + SignedFill(fill)
      notional == Magnitude(pos.size) * pos.avg + fill.size * fill.price * AvgScale
  IN  [size |-> size,
       avg  |-> IF size = 0 THEN 0 ELSE RoundHalfEven(notional, Magnitude(size)),
       pnl  |-> 0]

(* Faulty: the sign of the closed position is forgotten. *)
ClosingPnLUnsigned(pos, fill) ==
  (fill.price * AvgScale - pos.avg) * Lesser(fill.size, Magnitude(pos.size))

(* What closing part of the position against a fill earns. *)
ClosingPnL(pos, fill) ==
  LET closed == Lesser(fill.size, Magnitude(pos.size))
      direction == IF pos.size > 0 THEN 1 ELSE -1
  IN  (fill.price * AvgScale - pos.avg) * direction * closed

(* Faulty: re-averages the remainder of a cut position. *)
ReduceReaveraging(pos, fill) ==
  LET size == pos.size + SignedFill(fill)
  IN  [size |-> size,
       avg  |-> IF size = 0 THEN 0
                ELSE RoundHalfEven(pos.avg + fill.price * AvgScale, 2),
       pnl  |-> ClosingPnL(pos, fill)]

(* Faulty: a fill larger than the position only closes it. *)
ReduceToZero(pos, fill) ==
  [size |-> IF fill.size >= Magnitude(pos.size) THEN 0 ELSE pos.size + SignedFill(fill),
   avg  |-> IF fill.size >= Magnitude(pos.size) THEN 0 ELSE pos.avg,
   pnl  |-> ClosingPnL(pos, fill)]

(* A fill on the other side: reduce, close, or close and reopen. *)
Reduce(pos, fill) ==
  LET size == pos.size + SignedFill(fill)
      flipped == (pos.size > 0) # (size > 0)
  IN  [size |-> size,
       avg  |-> IF size = 0 THEN 0
                ELSE IF flipped THEN fill.price * AvgScale ELSE pos.avg,
       pnl  |-> ClosingPnL(pos, fill)]

(* The code raises ValueError first; no caller gets here with such a fill. *)
FillIsValid(fill) == fill.size > 0

ApplyFillToPosition(pos, fill) ==
  IF Grows(pos.size, SignedFill(fill)) THEN CostAverage(pos, fill)
                                       ELSE Reduce(pos, fill)

(* Faulty: a sale pays no fee. *)
ApplyFillToBalanceFeeOnBuys(balance, fill) ==
  LET notional == fill.size * fill.price
  IN  IF fill.side = "buy" THEN balance - notional - fill.fee
                           ELSE balance + notional

ApplyFillToBalance(balance, fill) ==
  LET notional == fill.size * fill.price
  IN  IF fill.side = "buy" THEN balance - notional - fill.fee
                           ELSE balance + notional - fill.fee
=============================================================================
