--------------------------- MODULE Reconciliation ---------------------------
(***************************************************************************)
(* ReconciliationEngine.apply (services/reconciliation/engine.py) as the   *)
(* coroutine it is: four awaited store calls with the arithmetic of        *)
(* PositionMath between them.                                              *)
(*                                                                         *)
(*   StartApply      await positions.get        (an absent row is zeros)   *)
(*   RejectFill      apply_fill_to_position raises ValueError              *)
(*   WritePosition   await positions.upsert                                *)
(*   ReadBalance     await balances.get                                    *)
(*   WriteBalance    await balances.upsert                                 *)
(*   Finish          the upsert has come back: apply returns               *)
(*                                                                         *)
(* Who calls apply is not in the repository and is modelled as the         *)
(* environment: several workers (asyncio tasks that handle fill.received)  *)
(* may each have a call in flight, and the engine holds no lock.           *)
(*                                                                         *)
(*   Receive         a worker takes a waiting event and calls apply        *)
(*   AbortApply      a store call raises, before or after its effect, or   *)
(*                   the process dies, at any of the awaits, the last one  *)
(*                   included; the event is lost or delivered again        *)
(*                                                                         *)
(* OnePerUser says whether the deployment keeps two fills of one user from *)
(* being applied at the same time, as one consumer loop does.              *)
(***************************************************************************)
EXTENDS PositionMath, FiniteSets, Functions

CONSTANTS Workers,          \* concurrent calls of apply
          Fills,            \* the deliveries of the fill.received events
          Users, Tokens,    \* a token stands for a (market_id, token_id) pair
          OpeningBalance,   \* every user's USDC before the first fill
          OnePerUser,       \* applies of one user never overlap
          MaxAborts         \* bound: applies that fail half way

(* delivery counts the times the event was delivered.  apply does not look at *)
(* it, nor at the id: the fill is booked as often as it is handed over.       *)
FillType == [id : Nat, delivery : Nat, user : Users, token : Tokens,
             side : {"buy", "sell"}, size : Int, price : Nat, fee : Nat]

ASSUME FillsAssumption == Fills \subseteq FillType
ASSUME OpeningAssumption == OpeningBalance \in Int
ASSUME OnePerUserAssumption == OnePerUser \in BOOLEAN
ASSUME MaxAbortsAssumption == MaxAborts \in Nat

NoFill == [id |-> 0, delivery |-> 0, user |-> "none", token |-> "none",
           side |-> "buy", size |-> 0, price |-> 0, fee |-> 0]

Again(f) == [f EXCEPT !.delivery = @ + 1]

VARIABLES
  positions,     \* <<user, token>> -> [size, avg, realized]: the position store
  balances,      \* user -> cash: the balance store
  pc,            \* worker -> the await its apply is suspended at
  fill,          \* worker -> the argument of its apply
  prior,         \* worker -> the position it read
  priorBalance,  \* worker -> the balance it read
  pending,       \* deliveries not handed to apply yet
  overlapped,    \* history: deliveries in flight with another of their user
  posted,        \* history: deliveries whose position write happened
  paid,          \* history: deliveries whose balance write happened
  raised,        \* history: deliveries apply refused
  aborts         \* applies that failed half way

stores == <<positions, balances>>
locals == <<pc, fill, prior, priorBalance>>
queue == <<pending, overlapped>>
history == <<posted, paid, raised>>
vars == <<stores, locals, queue, history, aborts>>

Keys == Users \X Tokens
KeyOf(f) == <<f.user, f.token>>
PositionType == [size : Int, avg : Int, realized : Int]
Busy(w) == pc[w] # "idle"

Init ==
  /\ positions = [k \in Keys |-> NoPosition]
  /\ balances = [u \in Users |-> OpeningBalance]
  /\ pc = [w \in Workers |-> "idle"]
  /\ fill = [w \in Workers |-> NoFill]
  /\ prior = [w \in Workers |-> NoPosition]
  /\ priorBalance = [w \in Workers |-> 0]
  /\ pending = {f \in Fills : f.delivery = 1}
  /\ overlapped = {}
  /\ posted = {} /\ paid = {} /\ raised = {}
  /\ aborts = 0

-----------------------------------------------------------------------------
StartApply(w, f) ==
  /\ pc[w] = "idle"
  /\ fill' = [fill EXCEPT ![w] = f]
  /\ prior' = [prior EXCEPT ![w] = positions[KeyOf(f)]]
  /\ pc' = [pc EXCEPT ![w] = "position_read"]
  /\ UNCHANGED <<stores, priorBalance, history, aborts>>

Rivals(f) == {v \in Workers : Busy(v) /\ fill[v].user = f.user}

Receive(w, f) ==
  /\ f \in pending
  /\ OnePerUser => Rivals(f) = {}
  /\ pending' = pending \ {f}
  /\ overlapped' = overlapped \cup UNION {{f, fill[v]} : v \in Rivals(f)}
  /\ StartApply(w, f)

(* Faulty: the call does not end where it should. *)
ReturnWithoutEnd(w) ==
  /\ UNCHANGED pc
  /\ fill' = [fill EXCEPT ![w] = NoFill]
  /\ prior' = [prior EXCEPT ![w] = NoPosition]
  /\ priorBalance' = [priorBalance EXCEPT ![w] = 0]

(* The call is over; what the worker held is garbage. *)
Return(w) ==
  /\ pc' = [pc EXCEPT ![w] = "idle"]
  /\ fill' = [fill EXCEPT ![w] = NoFill]
  /\ prior' = [prior EXCEPT ![w] = NoPosition]
  /\ priorBalance' = [priorBalance EXCEPT ![w] = 0]

(* Faulty: returns on an invalid fill instead of raising. *)
DropFill(w) ==
  /\ pc[w] = "position_read"
  /\ ~FillIsValid(fill[w])
  /\ Return(w)
  /\ UNCHANGED <<stores, queue, history, aborts>>

RejectFill(w) ==
  /\ pc[w] = "position_read"
  /\ ~FillIsValid(fill[w])
  /\ raised' = raised \cup {fill[w]}
  /\ Return(w)
  /\ UNCHANGED <<stores, queue, posted, paid, aborts>>

WritePosition(w) ==
  LET f == fill[w]
      update == ApplyFillToPosition(prior[w], f)
  IN  /\ pc[w] = "position_read"
      /\ FillIsValid(f)
      /\ positions' = [positions EXCEPT ![KeyOf(f)] =
                         [size     |-> update.size,
                          avg      |-> update.avg,
                          realized |-> prior[w].realized + update.pnl]]
      /\ posted' = posted \cup {f}
      /\ pc' = [pc EXCEPT ![w] = "position_written"]
      /\ UNCHANGED <<balances, fill, prior, priorBalance, queue, paid, raised,
                     aborts>>

ReadBalance(w) ==
  /\ pc[w] = "position_written"
  /\ priorBalance' = [priorBalance EXCEPT ![w] = balances[fill[w].user]]
  /\ pc' = [pc EXCEPT ![w] = "balance_read"]
  /\ UNCHANGED <<stores, fill, prior, queue, history, aborts>>

(* Faulty: repeats the balance half when the answer to its write is late. *)
WriteBalanceAgain(w) ==
  /\ pc[w] = "balance_read"
  /\ balances' = [balances EXCEPT ![fill[w].user] =
                    ApplyFillToBalance(priorBalance[w], fill[w])]
  /\ paid' = paid \cup {fill[w]}
  /\ \/ pc' = [pc EXCEPT ![w] = "balance_written"] /\ UNCHANGED aborts
     \/ /\ aborts < MaxAborts
        /\ aborts' = aborts + 1
        /\ pc' = [pc EXCEPT ![w] = "position_written"]
  /\ UNCHANGED <<positions, fill, prior, priorBalance, queue, posted, raised>>

WriteBalance(w) ==
  /\ pc[w] = "balance_read"
  /\ balances' = [balances EXCEPT ![fill[w].user] =
                    ApplyFillToBalance(priorBalance[w], fill[w])]
  /\ paid' = paid \cup {fill[w]}
  /\ pc' = [pc EXCEPT ![w] = "balance_written"]
  /\ UNCHANGED <<positions, fill, prior, priorBalance, queue, posted, raised,
                 aborts>>

Finish(w) ==
  /\ pc[w] = "balance_written"
  /\ Return(w)
  /\ UNCHANGED <<stores, queue, history, aborts>>

AbortApply(w) ==
  /\ Busy(w)
  /\ aborts < MaxAborts
  /\ aborts' = aborts + 1
  /\ pending' \in {pending, pending \cup ({Again(fill[w])} \cap Fills)}
  /\ Return(w)
  /\ UNCHANGED <<stores, overlapped, history>>

Step(w) == \/ RejectFill(w) \/ WritePosition(w) \/ ReadBalance(w)
           \/ WriteBalance(w) \/ Finish(w)

Next == \E w \in Workers : \/ \E f \in Fills : Receive(w, f)
                           \/ Step(w)
                           \/ AbortApply(w)

Spec == Init /\ [][Next]_vars

(* The stores answer, and a fill that waits is eventually handed to apply. *)
Fairness == /\ \A w \in Workers : WF_vars(Step(w))
            /\ \A f \in Fills : WF_vars(\E w \in Workers : Receive(w, f))
FairSpec == Spec /\ Fairness

-----------------------------------------------------------------------------
Awaits == {"idle", "position_read", "position_written", "balance_read", "balance_written"}

(* Type invariant of the stores, the suspended calls and the histories. *)
TypeOK ==
  /\ positions \in [Keys -> PositionType]
  /\ balances \in [Users -> Int]
  /\ pc \in [Workers -> Awaits]
  /\ fill \in [Workers -> FillType \cup {NoFill}]
  /\ \A w \in Workers : Busy(w) => fill[w] \in Fills
  /\ prior \in [Workers -> PositionType]
  /\ priorBalance \in [Workers -> Int]
  /\ pending \subseteq Fills /\ overlapped \subseteq Fills
  /\ posted \subseteq Fills /\ paid \subseteq Fills /\ raised \subseteq Fills
  /\ aborts \in 0..MaxAborts

FillsAt(S, k) == {f \in S : KeyOf(f) = k}
FillsOf(S, u) == {f \in S : f.user = u}
Gain == [f \in Fills |-> ApplyFillToBalance(0, f)]
Shares == [f \in Fills |-> SignedFill(f)]

(* total is start and the parts of a set of the booked deliveries that misses *)
(* none whose apply had its user to itself.                                   *)
HoldsWhole(total, start, part, booked) ==
  \E kept \in SUBSET booked :
    /\ booked \ overlapped \subseteq kept
    /\ total = start + SumFunctionOnSet(part, kept)

(* The balance and the position are read and written in separate awaits with  *)
(* no lock (engine.py:59-85), so two applies of one user can lose an update.  *)
(* Then a whole delivery is lost, one whose apply did overlap another: never  *)
(* half of one, never one twice, and never one that was booked while its user *)
(* was left alone, whatever overlaps, breaks off at any await or is delivered *)
(* again later.  Without an overlap the books are exact.                      *)
CashHoldsWholeFills ==
  \A u \in Users : HoldsWhole(balances[u], OpeningBalance, Gain, FillsOf(paid, u))

(* The same for the shares of each position and its own write, which may      *)
(* stand without the balance write of the same delivery.                      *)
SharesHoldWholeFills ==
  \A k \in Keys : HoldsWhole(positions[k].size, 0, Shares, FillsAt(posted, k))

(* Whenever no apply of a user is in flight, cash, cost of the open positions *)
(* and realized PnL account for every unit the user started with, less fees.  *)
(* The only slack is the rounding of average costs: half a unit per share of  *)
(* the position, for each fill.                                               *)
Volume(S) == SumFunctionOnSet([f \in Fills |-> f.size], S)
Fees(S) == SumFunctionOnSet([f \in Fills |-> f.fee], S)
CostLessPnL(u) ==
  LET worth == [t \in Tokens |-> positions[<<u, t>>].size * positions[<<u, t>>].avg
                                    - positions[<<u, t>>].realized]
  IN  SumFunctionOnSet(worth, Tokens)
MoneyConserved ==
  \A u \in Users :
    LET mine == FillsOf(posted, u)
        equity == AvgScale * balances[u] + CostLessPnL(u)
        due == AvgScale * (OpeningBalance - Fees(mine))
    IN  (\A w \in Workers : Busy(w) => fill[w].user # u)
          => 2 * Magnitude(equity - due) <= Cardinality(mine) * Volume(mine)

(* The average cost of an open position lies between the cheapest and the     *)
(* dearest fill of its token, however often it was grown, cut or flipped, and *)
(* a closed position carries no cost into the next one.                       *)
AverageWithinFillPrices ==
  \A k \in Keys :
    IF positions[k].size = 0 THEN positions[k].avg = 0
    ELSE /\ \E f \in FillsAt(posted, k) : f.price * AvgScale <= positions[k].avg
         /\ \E f \in FillsAt(posted, k) : positions[k].avg <= f.price * AvgScale

(* A step realizes PnL only by bringing a position closer to zero or through  *)
(* it, and a position that was only cut keeps its average cost.               *)
PnLOnlyWhenReducing ==
  [][\A k \in Keys :
       LET moved == positions'[k].size - positions[k].size
           cut == positions[k].size * moved < 0
       IN  /\ (positions'[k].realized # positions[k].realized) => cut
           /\ cut /\ positions[k].size * positions'[k].size > 0
                => positions'[k].avg = positions[k].avg]_vars

(* Cash of a user whose position moved and whose balance write is to come. *)
Unpaid(u) == {w \in Workers : pc[w] \in {"position_written", "balance_read"}
                              /\ fill[w].user = u}
AnyOf(S) == CHOOSE x \in S : TRUE
LedgerCash ==
  [u \in Users |->
     IF Unpaid(u) = {} THEN balances[u]
     ELSE ApplyFillToBalance(balances[u], fill[AnyOf(Unpaid(u))])]

Books == INSTANCE Ledger WITH settled <- posted,
                              holdings <- [k \in Keys |-> positions[k].size],
                              cash <- LedgerCash

(* The four awaited store calls amount to one atomic settlement per fill,     *)
(* exactly once, at the position write: no other apply can tell the halves    *)
(* apart.                                                                     *)
LedgerSpec == Books!Spec

(* Every fill event ends up in the balance or is refused as invalid. *)
EveryFillSettles == \A f \in Fills : (f \in pending) ~> (f \in paid \cup raised)
=============================================================================
