-------------------------- MODULE HeartbeatProofs ---------------------------
(***************************************************************************)
(* Theorems about Heartbeat for every interval, threshold, lag of the      *)
(* event loop and duration of a beat or of on_miss.                        *)
(***************************************************************************)
EXTENDS Heartbeat, TLAPS

(* How old the last beat can be at every await, and why: asleep, or before    *)
(* the first beat, the clock has run exactly as long as the coroutine was     *)
(* suspended; during a beat the sleep before it counts too.                   *)
AgeByStage ==
  /\ pc = "scheduled" => age = timer /\ timer <= MaxLag
  /\ pc = "sleeping"  => age = timer /\ timer <= Interval + MaxLag
  /\ pc = "beating"   => age <= Interval + MaxLag + timer /\ timer <= MaxBeat
  /\ pc = "fencing"   => age <= Interval + MaxLag + timer /\ timer <= MaxMiss
  /\ pc \in Ended     => age <= Interval + MaxLag + MaxBeat + MaxMiss /\ timer = 0

(* It fences itself only after its window has closed. *)
FencedLate == fenced => age > Threshold

IInv == TypeOK /\ AgeByStage /\ FencedLate

(* The loop head is only reached from the two stages where age is timer. *)
HeadReached == pc \in {"scheduled", "sleeping"}

(* All is zero at the start. *)
LEMMA IInvInit == Init => IInv
<1> SUFFICES ASSUME Init PROVE IInv
  OBVIOUS
<1>1. ~fenced /\ stop \in BOOLEAN /\ fenced \in BOOLEAN
  BY DEF Init
<1>2. pc = "scheduled" /\ age = 0 /\ timer = 0
  BY DEF Init
<1>3. /\ 0 \in 0..(2 * MaxLag + Interval + MaxBeat + MaxMiss)
      /\ 0 \in 0..(Interval + MaxLag + MaxBeat + MaxMiss)
  BY TimesAssumption
<1>4. TypeOK
  BY <1>1, <1>2, <1>3 DEF TypeOK, Suspended
<1>5. AgeByStage /\ FencedLate
  BY <1>1, <1>2, TimesAssumption DEF AgeByStage, FencedLate, Ended
<1> QED BY <1>4, <1>5 DEF IInv

(* The loop head returns, fences or beats. *)
LEMMA LoopHeadKeeps ==
  ASSUME IInv, HeadReached, LoopHead, UNCHANGED <<age, stop>>
  PROVE  IInv'
<1> USE TimesAssumption DEF IInv, TypeOK, AgeByStage, FencedLate, Suspended, Ended, HeadReached
<1>1. timer' = 0 /\ age' = age /\ stop' = stop /\ age = timer /\ ~fenced
      /\ age <= Interval + MaxLag
  BY DEF LoopHead
<1>2. CASE stop
  BY <1>1, <1>2 DEF LoopHead
<1>3. CASE ~stop /\ age > Threshold
  BY <1>1, <1>3 DEF LoopHead
<1>4. CASE ~stop /\ ~(age > Threshold)
  BY <1>1, <1>4 DEF LoopHead
<1> QED BY <1>2, <1>3, <1>4

(* A second passes only where the stage has patience left. *)
LEMMA TickKeeps ==
  ASSUME IInv, Tick
  PROVE  IInv'
<1> USE TimesAssumption DEF IInv, TypeOK, AgeByStage, FencedLate, Suspended, Ended
<1>1. timer < Patience /\ timer' = timer + 1 /\ age' = age + 1
      /\ UNCHANGED <<pc, stop, fenced>>
  BY DEF Tick
<1>2. CASE pc = "scheduled"
  BY <1>1, <1>2 DEF Patience
<1>3. CASE pc = "beating"
  BY <1>1, <1>3 DEF Patience
<1>4. CASE pc = "sleeping"
  BY <1>1, <1>4 DEF Patience
<1>5. CASE pc = "fencing"
  BY <1>1, <1>5 DEF Patience
<1>6. CASE pc \in Ended
  <2>1. Patience = 0
    BY <1>6 DEF Patience
  <2> QED BY <1>1, <1>6, <2>1
<1> QED BY <1>2, <1>3, <1>4, <1>5, <1>6

(* Every step keeps the strengthened invariant. *)
LEMMA IInvNext ==
  ASSUME IInv, [Next]_vars
  PROVE  IInv'
<1> USE TimesAssumption DEF IInv, TypeOK, AgeByStage, FencedLate, Suspended, Ended
<1>1. CASE Start \/ WakeByTimeout \/ WakeByStop
  BY <1>1, LoopHeadKeeps DEF Start, WakeByTimeout, WakeByStop, HeadReached
<1>2. CASE BeatReturns
  BY <1>2 DEF BeatReturns
<1>3. CASE BeatRaises
  BY <1>3 DEF BeatRaises
<1>4. CASE MissReturns \/ MissRaises
  BY <1>4 DEF MissReturns, MissRaises
<1>5. CASE Stop
  BY <1>5 DEF Stop
<1>6. CASE Tick
  BY <1>6, TickKeeps
<1>7. CASE UNCHANGED vars
  BY <1>7 DEF vars
<1> QED BY <1>1, <1>2, <1>3, <1>4, <1>5, <1>6, <1>7 DEF Next

(* The strengthened invariant holds of every reachable state. *)
LEMMA Invariance == Spec => []IInv
BY IInvInit, IInvNext, PTL DEF Spec

-----------------------------------------------------------------------------
(* Time stays within the patience of the stages, and a fenced coroutine is    *)
(* fencing or has ended.                                                      *)
THEOREM TypeCorrect == Spec => []TypeOK
<1>1. IInv => TypeOK
  BY DEF IInv
<1> QED BY <1>1, Invariance, PTL

(* For every configuration: run fences itself only when it was kept waiting   *)
(* past the threshold in one go.                                              *)
THEOREM FencesOnlyWhenLate == Spec => NoNeedlessFence
<1>1. IInv /\ [Next]_vars => [~fenced /\ fenced' => timer > Threshold]_vars
  <2> SUFFICES ASSUME IInv, Next, ~fenced, fenced'
               PROVE  timer > Threshold
    BY DEF vars
  <2>1. LoopHead /\ HeadReached
    BY DEF Next, Start, BeatReturns, BeatRaises, WakeByTimeout, WakeByStop, MissReturns,
           MissRaises, Stop, Tick, HeadReached
  <2>2. age > Threshold
    BY <2>1 DEF LoopHead
  <2> QED BY <2>1, <2>2 DEF IInv, AgeByStage, HeadReached
<1> QED BY <1>1, Invariance, PTL DEF Spec, NoNeedlessFence

(* And so never, if the event loop is no later than the margin between        *)
(* interval and threshold: the default margin is three seconds.               *)
THEOREM NeverFencesOnTime ==
  Interval + MaxLag <= Threshold => (Spec => []~fenced)
<1> SUFFICES ASSUME Interval + MaxLag <= Threshold PROVE Spec => []~fenced
  OBVIOUS
<1>1. Init => ~fenced
  BY DEF Init
<1>2. IInv /\ ~fenced /\ [Next]_vars => ~fenced'
  <2> SUFFICES ASSUME IInv, ~fenced, Next, fenced' PROVE FALSE
    BY DEF vars
  <2>1. LoopHead /\ HeadReached
    BY DEF Next, Start, BeatReturns, BeatRaises, WakeByTimeout, WakeByStop, MissReturns,
           MissRaises, Stop, Tick, HeadReached
  <2>2. age > Threshold
    BY <2>1 DEF LoopHead
  <2>3. age <= Interval + MaxLag /\ age \in Int
    BY <2>1, TimesAssumption DEF IInv, TypeOK, AgeByStage, HeadReached
  <2> QED BY <2>2, <2>3, TimesAssumption
<1> QED BY <1>1, <1>2, Invariance, PTL DEF Spec

(* For every configuration: no beat after stop(), for a window that has       *)
(* closed, or after self-fencing.                                             *)
THEOREM BeatsInTurn == Spec => NoBeatOutOfTurn
<1>1. IInv /\ [Next]_vars
        => [pc # "beating" /\ pc' = "beating" => ~stop /\ ~fenced /\ age <= Threshold]_vars
  <2> SUFFICES ASSUME IInv, Next, pc # "beating", pc' = "beating"
               PROVE  ~stop /\ ~fenced /\ age <= Threshold
    BY DEF vars
  <2>1. LoopHead /\ HeadReached
    BY DEF Next, Start, BeatReturns, BeatRaises, WakeByTimeout, WakeByStop, MissReturns,
           MissRaises, Stop, Tick, HeadReached
  <2>2. ~stop /\ ~(age > Threshold)
    BY <2>1 DEF LoopHead
  <2>3. ~fenced
    BY <2>1 DEF IInv, TypeOK, Ended, HeadReached
  <2>4. age \in Int /\ Threshold \in Int
    BY TimesAssumption DEF IInv, TypeOK
  <2> QED BY <2>2, <2>3, <2>4
<1> QED BY <1>1, Invariance, PTL DEF Spec, NoBeatOutOfTurn
=============================================================================
