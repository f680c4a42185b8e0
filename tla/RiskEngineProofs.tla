-------------------------- MODULE RiskEngineProofs --------------------------
(***************************************************************************)
(* Theorems about RiskEngine for every list of gates, every configuration, *)
(* every set of signals and any world that changes any number of times:    *)
(* a decision is backed by a moment of the evaluation.                     *)
(***************************************************************************)
EXTENDS RiskEngine, TLAPS

AllNames == {AllGates[i] : i \in 1..18}

(* The gates that compare a snapshot with a clock read after it. *)
TwoReadGates == FreshnessGates \cup {"volatility_cooldown"}

(* While the gates run, the histories know every gate as it is now. *)
HistoryIsCurrent ==
  Running => /\ HoldingIn(ctx, signal) \subseteq held
             /\ GateNames \ HoldingIn(ctx, signal) \subseteq failed
             /\ ctx.market \in offered

(* What the gate under way will decide, should the clock stand still, was so  *)
(* when it read its snapshot: fresh data can only grow stale and a cooldown   *)
(* can only run out.                                                          *)
SnapshotIsBacked ==
  pc = "clock" =>
    /\ Gate \in TwoReadGates /\ snapshot \in offered
    /\ Gate \in FreshnessGates /\ Decide(Gate, signal, snapshot, ctx) => Gate \in held
    /\ Gate \notin FreshnessGates /\ ~Decide(Gate, signal, snapshot, ctx)
         => Gate \in failed

(* Every decision taken so far is backed. *)
DecisionsAreBacked ==
  \A i \in DOMAIN decisions :
    LET d == decisions[i]
    IN  /\ d.passed /\ d.gate_name # "volatility_cooldown" => d.gate_name \in held
        /\ ~d.passed => d.gate_name \in failed \/ OutOfDate(d.gate_name)

(* The evaluation stands where its decisions say. *)
Progress ==
  /\ pc = "idle" => decisions = <<>>
  /\ pc = "done" /\ (\A i \in DOMAIN decisions : decisions[i].passed)
       => Len(decisions) = Len(Gates)

IInv == TypeOK /\ Progress /\ HistoryIsCurrent /\ SnapshotIsBacked /\ DecisionsAreBacked

-----------------------------------------------------------------------------
(* The list holds known gates, and the next one while the gates run. *)
LEMMA GatesAreKnown ==
  /\ Len(Gates) \in Nat /\ DOMAIN Gates = 1..Len(Gates)
  /\ \A i \in 1..Len(Gates) : Gates[i] \in AllNames /\ Gates[i] \in GateNames
  /\ GateNames \subseteq AllNames
BY GatesAssumption DEF GateNames, AllNames

(* The eighteen names. *)
LEMMA NamesAreGates ==
  ASSUME NEW g \in AllNames
  PROVE  g \in {"user_active", "strategy_active", "kill_switch_off", "idempotency",
    "market_resolution", "orderbook_freshness", "tick_freshness",
    "volatility_cooldown", "price_bounds", "price_vs_mid", "spread_cap",
    "slippage_cap", "min_size", "per_order_size_cap", "per_market_position_cap",
    "per_strategy_exposure_cap", "per_user_aggregate_exposure_cap",
    "usdc_sufficient"}
<1>1. PICK i \in 1..18 : g = AllGates[i]
  BY DEF AllNames
<1> QED BY <1>1, SMTT(60) DEF AllGates

(* A gate says yes or no. *)
LEMMA DecideBoolean ==
  ASSUME NEW g \in AllNames, NEW s, NEW m, NEW c
  PROVE  Decide(g, s, m, c) \in BOOLEAN
<1>1. CASE g = "user_active"
  BY <1>1 DEF Decide, user_active
<1>2. CASE g = "strategy_active"
  BY <1>2 DEF Decide, strategy_active
<1>3. CASE g = "kill_switch_off"
  BY <1>3 DEF Decide, kill_switch_off
<1>4. CASE g = "idempotency"
  BY <1>4 DEF Decide, idempotency
<1>5. CASE g = "market_resolution"
  BY <1>5 DEF Decide, market_resolution
<1>6. CASE g = "orderbook_freshness"
  BY <1>6 DEF Decide, orderbook_freshness
<1>7. CASE g = "tick_freshness"
  BY <1>7 DEF Decide, tick_freshness
<1>8. CASE g = "volatility_cooldown"
  BY <1>8 DEF Decide, volatility_cooldown
<1>9. CASE g = "price_bounds"
  BY <1>9 DEF Decide, price_bounds
<1>10. CASE g = "price_vs_mid"
  BY <1>10 DEF Decide, price_vs_mid
<1>11. CASE g = "spread_cap"
  BY <1>11 DEF Decide, spread_cap
<1>12. CASE g = "slippage_cap"
  BY <1>12 DEF Decide, slippage_cap
<1>13. CASE g = "min_size"
  BY <1>13 DEF Decide, min_size
<1>14. CASE g = "per_order_size_cap"
  BY <1>14 DEF Decide, per_order_size_cap
<1>15. CASE g = "per_market_position_cap"
  BY <1>15 DEF Decide, per_market_position_cap
<1>16. CASE g = "per_strategy_exposure_cap"
  BY <1>16 DEF Decide, per_strategy_exposure_cap
<1>17. CASE g = "per_user_aggregate_exposure_cap"
  BY <1>17 DEF Decide, per_user_aggregate_exposure_cap
<1>18. CASE g = "usdc_sufficient"
  BY <1>18 DEF Decide, usdc_sufficient
<1> QED BY NamesAreGates, <1>1, <1>2, <1>3, <1>4, <1>5, <1>6, <1>7, <1>8, <1>9, <1>10, <1>11, <1>12, <1>13, <1>14, <1>15, <1>16, <1>17, <1>18

(* The three gates with two reads, spelled out. *)
LEMMA DecideTwoRead ==
  ASSUME NEW s, NEW m, NEW c
  PROVE  /\ Decide("orderbook_freshness", s, m, c) = orderbook_freshness(m, c.now)
         /\ Decide("tick_freshness", s, m, c) = tick_freshness(m, c.now)
         /\ Decide("volatility_cooldown", s, m, c) = volatility_cooldown(m, c.now)
BY DEF Decide

(* As time goes by a snapshot can only lose its freshness. *)
LEMMA FreshnessFades ==
  ASSUME NEW s, NEW m \in SnapshotType \cup {None}, NEW c \in ContextType,
         NEW d \in ContextType, c.now <= d.now, NEW g \in FreshnessGates, Decide(g, s, m, d)
  PROVE  Decide(g, s, m, c)
BY DecideTwoRead, ConfigAssumption
   DEF FreshnessGates, orderbook_freshness, tick_freshness, SnapshotType, ContextType,
       ConfigType

(* And a cooldown can only run out. *)
LEMMA CooldownRunsOut ==
  ASSUME NEW s, NEW m \in SnapshotType, NEW c \in ContextType, NEW d \in ContextType,
         c.now <= d.now, ~Decide("volatility_cooldown", s, m, d), m # None
  PROVE  ~Decide("volatility_cooldown", s, m, c)
<1>1. ~volatility_cooldown(m, d.now)
  BY DecideTwoRead
<1>2. m.volatility_cooldown_until \in Nat /\ d.now < m.volatility_cooldown_until
  BY <1>1, NoneAssumption DEF volatility_cooldown, SnapshotType, ContextType
<1>3. c.now \in Nat /\ d.now \in Nat
  BY DEF ContextType
<1>4. m.volatility_cooldown_until # None
  BY <1>2, NoneAssumption
<1>5. ~volatility_cooldown(m, c.now)
  BY <1>2, <1>3, <1>4 DEF volatility_cooldown
<1> QED BY <1>5, DecideTwoRead

-----------------------------------------------------------------------------
(* Before the first gate nothing is decided. *)
LEMMA IInvInit == Init => IInv
<1> SUFFICES ASSUME Init PROVE IInv
  OBVIOUS
<1>1. TypeOK
  BY GatesAreKnown, MaxMovesAssumption DEF Init, TypeOK
<1>2. Progress /\ HistoryIsCurrent /\ SnapshotIsBacked /\ DecisionsAreBacked
  BY DEF Init, Progress, HistoryIsCurrent, SnapshotIsBacked, DecisionsAreBacked, Running
<1> QED BY <1>1, <1>2 DEF IInv

(* The gate under way is one of the list. *)
LEMMA GateInList ==
  ASSUME TypeOK, Running
  PROVE  /\ Gate \in GateNames /\ Gate \in AllNames
         /\ Len(decisions) \in Nat /\ Len(decisions) + 1 \in 1..Len(Gates)
BY GatesAreKnown DEF TypeOK, Running, Gate

(* A decision that is backed keeps the invariant. *)
LEMMA ConcludeKeeps ==
  ASSUME IInv, Running, NEW passed \in BOOLEAN, Conclude(passed),
         passed /\ Gate # "volatility_cooldown" => Gate \in held,
         ~passed => Gate \in failed \/ OutOfDate(Gate)
  PROVE  IInv'
<1> DEFINE d == [gate_name |-> Gate, passed |-> passed]
           n == Len(decisions)
<1>1. /\ decisions \in Seq([gate_name : GateNames, passed : BOOLEAN])
      /\ n \in Nat /\ n + 1 \in 1..Len(Gates) /\ Gate = Gates[n + 1]
      /\ d \in [gate_name : GateNames, passed : BOOLEAN]
  BY GateInList DEF IInv, TypeOK, Gate
<1>2. /\ decisions' = Append(decisions, d)
      /\ pc' = IF passed /\ n + 1 < Len(Gates) THEN "gate" ELSE "done"
      /\ snapshot' = None
      /\ UNCHANGED <<ctx, signal, held, failed, offered, moves>>
  BY DEF Conclude
<1>3. /\ decisions' \in Seq([gate_name : GateNames, passed : BOOLEAN])
      /\ Len(decisions') = n + 1
      /\ decisions'[n + 1] = d
      /\ \A i \in 1..n : decisions'[i] = decisions[i]
  BY <1>1, <1>2
<1>4. \A i \in 1..n : decisions[i].gate_name = Gates[i] /\ decisions[i].passed
  BY <1>1 DEF IInv, TypeOK, Running
<1> HIDE DEF n
<1>5. TypeOK'
  <2>1. \A i \in DOMAIN decisions' : decisions'[i].gate_name = Gates[i]
    BY <1>1, <1>3, <1>4
  <2>2. \A i \in DOMAIN decisions' :
          ~decisions'[i].passed => i = Len(decisions') /\ pc' = "done"
    BY <1>1, <1>2, <1>3, <1>4
  <2>3. Len(decisions') <= Len(Gates) /\ (pc' \in {"gate", "clock"} => Len(decisions') < Len(Gates))
    BY <1>1, <1>2, <1>3, GatesAreKnown
  <2>4. pc' \in {"idle", "gate", "clock", "done"} /\ (pc' = "clock" <=> snapshot' # None)
    BY <1>2
  <2> QED BY <1>2, <1>3, <2>1, <2>2, <2>3, <2>4 DEF IInv, TypeOK
<1>6. Progress'
  <2>1. pc' # "idle"
    BY <1>2
  <2>2. ASSUME pc' = "done", \A i \in DOMAIN decisions' : decisions'[i].passed
        PROVE  Len(decisions') = Len(Gates)
    <3>1. n + 1 \in DOMAIN decisions'
      BY <1>1, <1>3
    <3>2. d.passed
      BY <1>3, <2>2, <3>1
    <3>3. passed
      BY <3>2
    <3>4. ~(n + 1 < Len(Gates))
      BY <1>2, <2>2, <3>3
    <3>5. n \in Nat /\ n + 1 <= Len(Gates) /\ Len(Gates) \in Nat
      BY <1>1, GatesAreKnown
    <3>6. n + 1 = Len(Gates)
      BY <3>4, <3>5
    <3> QED BY <1>3, <3>6
  <2> QED BY <2>1, <2>2 DEF Progress
<1>7. HistoryIsCurrent'
  BY <1>2 DEF IInv, HistoryIsCurrent, Running, HoldingIn
<1>8. SnapshotIsBacked'
  BY <1>2 DEF SnapshotIsBacked
<1>9. DecisionsAreBacked'
  <2>1. \A i \in 1..n :
          /\ decisions[i].passed /\ decisions[i].gate_name # "volatility_cooldown"
               => decisions[i].gate_name \in held
          /\ ~decisions[i].passed => \/ decisions[i].gate_name \in failed
                                     \/ OutOfDate(decisions[i].gate_name)
    BY <1>1 DEF IInv, DecisionsAreBacked, n
  <2>2. DOMAIN decisions' = 1..(n + 1)
    BY <1>3
  <2>3. \A i \in 1..(n + 1) : i \in 1..n \/ i = n + 1
    BY <1>1
  <2>4. \A g : OutOfDate(g) => OutOfDate(g)'
    BY <1>2 DEF OutOfDate
  <2> QED BY <1>2, <1>3, <2>1, <2>2, <2>3, <2>4 DEF DecisionsAreBacked
<1> QED BY <1>5, <1>6, <1>7, <1>8, <1>9 DEF IInv

(* A gate decides at once, on the world as it is. *)
LEMMA RunGateKeeps ==
  ASSUME IInv, RunGate
  PROVE  IInv'
<1> DEFINE passed == Decide(Gate, signal, ctx.market, ctx)
<1>1. Running /\ Conclude(passed)
  BY DEF RunGate, Running
<1>2. Gate \in GateNames /\ Gate \in AllNames
  BY <1>1, GateInList DEF IInv
<1>3. passed \in BOOLEAN
  BY <1>2, DecideBoolean
<1>4. passed => Gate \in held
  BY <1>1, <1>2 DEF IInv, HistoryIsCurrent, HoldingIn, Holds
<1>5. ~passed => Gate \in failed
  BY <1>1, <1>2 DEF IInv, HistoryIsCurrent, HoldingIn, Holds
<1> HIDE DEF passed
<1> QED BY <1>1, <1>3, <1>4, <1>5, ConcludeKeeps

(* A gate decides on the snapshot it holds and the clock as it is now. *)
LEMMA ReadClockKeeps ==
  ASSUME IInv, ReadClock
  PROVE  IInv'
<1> DEFINE passed == Decide(Gate, signal, snapshot, ctx)
<1>1. Running /\ pc = "clock" /\ Conclude(passed)
  BY DEF ReadClock, Running
<1>2. Gate \in GateNames /\ Gate \in AllNames
  BY <1>1, GateInList DEF IInv
<1>3. passed \in BOOLEAN
  BY <1>2, DecideBoolean
<1>4. /\ Gate \in FreshnessGates \/ Gate = "volatility_cooldown"
      /\ Gate \in FreshnessGates /\ passed => Gate \in held
      /\ Gate \notin FreshnessGates /\ ~passed => Gate \in failed
      /\ Gate \in FreshnessGates /\ ~passed => OutOfDate(Gate)
  BY <1>1 DEF IInv, SnapshotIsBacked, TwoReadGates, OutOfDate
<1> HIDE DEF passed
<1> QED BY <1>1, <1>3, <1>4, ConcludeKeeps

(* The world moves on: what is true now joins the histories, and the snapshot *)
(* held can only have been fresher, its cooldown only more in force, before.  *)
LEMMA WorldMovesKeeps ==
  ASSUME IInv, WorldMoves
  PROVE  IInv'
<1>1. PICK c \in Worlds :
        /\ c.now >= ctx.now
        /\ ctx' = c
        /\ IF Running
           THEN /\ held' = held \cup HoldingIn(c, signal)
                /\ failed' = failed \cup (GateNames \ HoldingIn(c, signal))
                /\ offered' = offered \cup {c.market}
           ELSE UNCHANGED <<held, failed, offered>>
  BY DEF WorldMoves
<1>2. /\ UNCHANGED <<pc, signal, snapshot, decisions>>
      /\ moves < MaxMoves /\ moves' = moves + 1
  BY DEF WorldMoves
<1>3. held \subseteq held' /\ failed \subseteq failed' /\ offered \subseteq offered'
  BY <1>1
<1>4. c \in ContextType /\ ctx \in ContextType /\ ctx.now <= c.now
  BY <1>1, WorldsAssumption DEF IInv, TypeOK, ContextType
<1>5. TypeOK'
  <2>1. moves' \in 0..MaxMoves
    BY <1>2, MaxMovesAssumption DEF IInv, TypeOK
  <2>2. held' \subseteq GateNames /\ failed' \subseteq GateNames
    BY <1>1 DEF IInv, TypeOK, HoldingIn
  <2>3. offered' \subseteq SnapshotType \cup {None}
    BY <1>1, <1>4 DEF IInv, TypeOK, ContextType
  <2> QED BY <1>1, <1>2, <2>1, <2>2, <2>3 DEF IInv, TypeOK
<1>6. Progress'
  BY <1>2 DEF IInv, Progress
<1>7. HistoryIsCurrent'
  BY <1>1, <1>2 DEF HistoryIsCurrent, Running, HoldingIn
<1>8. SnapshotIsBacked'
  <2> SUFFICES ASSUME pc = "clock" PROVE SnapshotIsBacked'
    BY <1>2 DEF SnapshotIsBacked
  <2>1. snapshot \in SnapshotType /\ snapshot # None /\ Gate' = Gate
    BY <1>2 DEF IInv, TypeOK, Gate
  <2>2. Gate \in TwoReadGates
    BY DEF IInv, SnapshotIsBacked
  <2>3. ASSUME Gate \in FreshnessGates, Decide(Gate, signal, snapshot, c)
        PROVE  Gate \in held
    <3>1. Decide(Gate, signal, snapshot, ctx)
      BY <1>4, <2>1, <2>3, FreshnessFades
    <3> QED BY <2>3, <3>1 DEF IInv, SnapshotIsBacked
  <2>4. ASSUME Gate \notin FreshnessGates, ~Decide(Gate, signal, snapshot, c)
        PROVE  Gate \in failed
    <3>1. Gate = "volatility_cooldown"
      BY <2>2, <2>4 DEF TwoReadGates
    <3>2. ~Decide(Gate, signal, snapshot, ctx)
      BY <1>4, <2>1, <2>4, <3>1, CooldownRunsOut
    <3> QED BY <2>4, <3>2 DEF IInv, SnapshotIsBacked
  <2>5. snapshot \in offered'
    BY <1>3 DEF IInv, SnapshotIsBacked
  <2> QED BY <1>1, <1>2, <1>3, <2>1, <2>2, <2>3, <2>4, <2>5 DEF SnapshotIsBacked
<1>9. DecisionsAreBacked'
  <2>1. ASSUME NEW g, OutOfDate(g) PROVE OutOfDate(g)'
    <3>1. PICK m \in offered : g \in FreshnessGates /\ ~Decide(g, signal, m, ctx)
      BY <2>1 DEF OutOfDate
    <3>2. m \in SnapshotType \cup {None} /\ m \in offered'
      BY <1>3 DEF IInv, TypeOK
    <3>3. ~Decide(g, signal, m, c)
      BY <1>4, <3>1, <3>2, FreshnessFades
    <3> QED BY <1>1, <1>2, <3>1, <3>2, <3>3 DEF OutOfDate
  <2> QED BY <1>2, <1>3, <2>1 DEF IInv, DecisionsAreBacked
<1> QED BY <1>5, <1>6, <1>7, <1>8, <1>9 DEF IInv

(* Reaching the first gate, or reading a snapshot, decides nothing. *)
LEMMA BeginKeeps ==
  ASSUME IInv, Begin
  PROVE  IInv'
<1>1. /\ pc = "idle" /\ decisions = <<>>
      /\ pc' = IF Gates = <<>> THEN "done" ELSE "gate"
      /\ held' = HoldingIn(ctx, signal)
      /\ failed' = GateNames \ HoldingIn(ctx, signal)
      /\ offered' = {ctx.market}
      /\ UNCHANGED <<ctx, signal, snapshot, decisions, moves>>
  BY DEF IInv, Progress, Begin
<1>2. Gates # <<>> => 0 < Len(Gates)
  BY GatesAssumption
<1>3. TypeOK'
  <2>1. ctx.market \in SnapshotType \cup {None}
    BY WorldsAssumption DEF IInv, TypeOK, ContextType
  <2> QED BY <1>1, <1>2, <2>1, GatesAreKnown DEF IInv, TypeOK, HoldingIn
<1>4. Progress'
  BY <1>1, <1>2, GatesAreKnown DEF Progress
<1>5. HistoryIsCurrent'
  BY <1>1 DEF HistoryIsCurrent, HoldingIn
<1>6. SnapshotIsBacked' /\ DecisionsAreBacked'
  BY <1>1 DEF SnapshotIsBacked, DecisionsAreBacked
<1> QED BY <1>3, <1>4, <1>5, <1>6 DEF IInv

(* A snapshot is read: it agrees with the world at this moment. *)
LEMMA ReadSnapshotKeeps ==
  ASSUME IInv, ReadSnapshot
  PROVE  IInv'
<1>1. /\ pc = "gate" /\ Running /\ ReadsClockToo(Gate, ctx.market)
      /\ snapshot' = ctx.market /\ pc' = "clock"
      /\ UNCHANGED <<ctx, signal, decisions, held, failed, offered, moves>>
  BY DEF ReadSnapshot, Running
<1>2. ctx.market # None /\ ctx.market \in SnapshotType \cup {None}
  BY <1>1, WorldsAssumption DEF IInv, TypeOK, ContextType, ReadsClockToo
<1>3. Gate \in GateNames /\ Gate' = Gate
  BY <1>1, GateInList DEF IInv, Gate
<1>4. TypeOK'
  BY <1>1, <1>2 DEF IInv, TypeOK
<1>5. Progress' /\ HistoryIsCurrent' /\ DecisionsAreBacked'
  BY <1>1 DEF IInv, Progress, HistoryIsCurrent, DecisionsAreBacked, Running, HoldingIn,
              OutOfDate
<1>6. Gate \in TwoReadGates
  BY <1>1 DEF ReadsClockToo, TwoReadGates
<1>7. /\ Decide(Gate, signal, ctx.market, ctx) => Gate \in held
      /\ ~Decide(Gate, signal, ctx.market, ctx) => Gate \in failed
      /\ ctx.market \in offered
  BY <1>1, <1>3 DEF IInv, HistoryIsCurrent, HoldingIn, Holds
<1>8. SnapshotIsBacked'
  BY <1>1, <1>3, <1>6, <1>7 DEF SnapshotIsBacked
<1> QED BY <1>4, <1>5, <1>8 DEF IInv

(* The strengthened invariant holds of every reachable state. *)
LEMMA Invariance == Spec => []IInv
<1>1. Init => IInv
  BY IInvInit
<1>2. ASSUME IInv, UNCHANGED vars PROVE IInv'
  BY <1>2 DEF vars, IInv, TypeOK, Progress, HistoryIsCurrent, SnapshotIsBacked,
              DecisionsAreBacked, Running, HoldingIn, Gate, OutOfDate
<1>3. IInv /\ [Next]_vars => IInv'
  BY <1>2, BeginKeeps, RunGateKeeps, ReadSnapshotKeeps, ReadClockKeeps, WorldMovesKeeps
     DEF Next
<1> QED BY <1>1, <1>3, PTL DEF Spec

-----------------------------------------------------------------------------
(* The decisions are those of the first gates, in order, and evaluate is over *)
(* when one failed or all passed.                                             *)
THEOREM TypeCorrect == Spec => []TypeOK
<1>1. IInv => TypeOK
  BY DEF IInv
<1> QED BY <1>1, Invariance, PTL

(* For any gates and any changes of the world while they run: what evaluate   *)
(* approves met every gate at some moment of the evaluation, but perhaps the  *)
(* cooldown.                                                                  *)
THEOREM ApprovalsAreJustified == Spec => []ApprovalWasJustified
<1>1. IInv => ApprovalWasJustified
  <2> SUFFICES ASSUME IInv, approved, NEW g \in GateNames, g # "volatility_cooldown"
               PROVE  g \in held
    BY DEF ApprovalWasJustified
  <2>1. PICK i \in 1..Len(Gates) : g = Gates[i]
    BY GatesAreKnown DEF GateNames
  <2>2. i \in DOMAIN decisions
    BY GatesAreKnown DEF IInv, TypeOK, Progress, approved
  <2>3. decisions[i].gate_name = g /\ decisions[i].passed
    BY <2>1, <2>2 DEF IInv, TypeOK, approved
  <2> QED BY <2>2, <2>3 DEF IInv, DecisionsAreBacked
<1> QED BY <1>1, Invariance, PTL

(* And what it rejects failed the rejecting gate at some moment, or data on   *)
(* offer at the time has gone out of date.                                    *)
THEOREM RejectionsAreJustified == Spec => []RejectionWasJustified
<1>1. IInv => RejectionWasJustified
  <2> SUFFICES ASSUME IInv, rejected, decisions # <<>>
               PROVE  LET gate == decisions[Len(decisions)].gate_name
                      IN  gate \in failed \/ OutOfDate(gate)
    BY DEF RejectionWasJustified
  <2>1. Len(decisions) \in DOMAIN decisions
    BY DEF IInv, TypeOK
  <2>2. PICK i \in DOMAIN decisions : ~decisions[i].passed
    BY DEF rejected, approved
  <2>3. i = Len(decisions)
    BY <2>2 DEF IInv, TypeOK
  <2> QED BY <2>1, <2>2, <2>3 DEF IInv, DecisionsAreBacked
<1> QED BY <1>1, Invariance, PTL
=============================================================================
