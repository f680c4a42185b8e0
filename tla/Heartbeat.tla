------------------------------ MODULE Heartbeat -----------------------------
(***************************************************************************)
(* HeartbeatCoroutine.run (services/execution/heartbeat.py).  Time is a    *)
(* whole number of seconds and is kept relative: age is clock() less       *)
(* last_beat_at, timer how long run has been suspended where it is.        *)
(*                                                                         *)
(*   Start          the task is scheduled and reaches the loop head        *)
(*   BeatReturns    await beat(open_orders()) returns; last_beat_at is     *)
(*                  taken after it, and the wait for stop begins           *)
(*   BeatRaises     beat raises and the exception ends run                 *)
(*   WakeByTimeout  wait_for times out, and the loop head runs             *)
(*   WakeByStop     the stop event ends the wait, and the loop head runs   *)
(*   MissReturns    await on_miss() returns and so does run                *)
(*   MissRaises     on_miss raises and the exception ends run              *)
(*   Stop           stop(), called from outside at any time                *)
(*   Tick           a second passes                                        *)
(*                                                                         *)
(* The event loop resumes the coroutine at most MaxLag seconds after it    *)
(* became ready, a beat takes at most MaxBeat seconds and on_miss at most  *)
(* MaxMiss: assumptions about the environment, which is why they are       *)
(* constants.                                                              *)
(***************************************************************************)
EXTENDS Integers

CONSTANTS Interval,     \* interval_seconds
          Threshold,    \* miss_threshold_seconds
          MaxLag,       \* bound on the lateness of the event loop
          MaxBeat,      \* bound on the duration of a beat
          MaxMiss       \* bound on the duration of on_miss

ASSUME TimesAssumption == /\ Interval \in Nat \ {0} /\ Threshold \in Nat
                          /\ MaxLag \in Nat /\ MaxBeat \in Nat /\ MaxMiss \in Nat

VARIABLES pc,           \* where run is suspended, or how it ended
          age,          \* clock() - last_beat_at
          timer,        \* time spent at pc
          stop,         \* the stop event is set
          fenced        \* on_miss was called

vars == <<pc, age, timer, stop, fenced>>

Suspended == {"scheduled", "beating", "sleeping", "fencing"}
Ended == {"returned", "raised"}

Init == /\ pc = "scheduled"
        /\ age = 0
        /\ timer = 0
        /\ stop = FALSE
        /\ fenced = FALSE

-----------------------------------------------------------------------------
(* Faulty: the window is checked before the stop event. *)
LoopHeadMissFirst ==
  /\ timer' = 0
  /\ IF age > Threshold THEN pc' = "fencing" /\ fenced' = TRUE
     ELSE pc' = "beating" /\ UNCHANGED fenced

(* Faulty: the window is allowed to be missed once. *)
LoopHeadLenient ==
  /\ timer' = 0
  /\ IF stop THEN pc' = "returned" /\ UNCHANGED fenced
     ELSE IF age > Threshold + Interval THEN pc' = "fencing" /\ fenced' = TRUE
     ELSE pc' = "beating" /\ UNCHANGED fenced

(* The head of the while loop, up to its next await or return. *)
LoopHead ==
  /\ timer' = 0
  /\ IF stop THEN pc' = "returned" /\ UNCHANGED fenced
     ELSE IF age > Threshold THEN pc' = "fencing" /\ fenced' = TRUE
     ELSE pc' = "beating" /\ UNCHANGED fenced

Start == pc = "scheduled" /\ LoopHead /\ UNCHANGED <<age, stop>>

(* Faulty: last_beat_at is taken when the beat is sent. *)
BeatReturnsStampedAtSend ==
  /\ pc = "beating"
  /\ pc' = "sleeping"
  /\ age' = timer
  /\ timer' = 0
  /\ UNCHANGED <<stop, fenced>>

BeatReturns ==
  /\ pc = "beating"
  /\ pc' = "sleeping"
  /\ age' = 0
  /\ timer' = 0
  /\ UNCHANGED <<stop, fenced>>

BeatRaises ==
  /\ pc = "beating"
  /\ pc' = "raised"
  /\ timer' = 0
  /\ UNCHANGED <<age, stop, fenced>>

(* Faulty: the TimeoutError of the wait is not caught. *)
WakeByTimeoutEnds ==
  /\ pc = "sleeping"
  /\ timer >= Interval
  /\ pc' = "returned"
  /\ timer' = 0
  /\ UNCHANGED <<age, stop, fenced>>

WakeByTimeout ==
  /\ pc = "sleeping"
  /\ timer >= Interval
  /\ LoopHead
  /\ UNCHANGED <<age, stop>>

WakeByStop ==
  /\ pc = "sleeping"
  /\ stop
  /\ LoopHead
  /\ UNCHANGED <<age, stop>>

(* Faulty: the loop goes on after self-fencing. *)
MissReturnsToLoop ==
  /\ pc = "fencing"
  /\ pc' = "beating"
  /\ timer' = 0
  /\ UNCHANGED <<age, stop, fenced>>

MissReturns ==
  /\ pc = "fencing"
  /\ pc' = "returned"
  /\ timer' = 0
  /\ UNCHANGED <<age, stop, fenced>>

MissRaises ==
  /\ pc = "fencing"
  /\ pc' = "raised"
  /\ timer' = 0
  /\ UNCHANGED <<age, stop, fenced>>

Stop == /\ ~stop
        /\ stop' = TRUE
        /\ UNCHANGED <<pc, age, timer, fenced>>

(* How long run may stay suspended; a stopped sleeper is only woken late. *)
Patience == CASE pc = "scheduled" -> MaxLag
              [] pc = "beating"   -> MaxBeat
              [] pc = "sleeping"  -> Interval + MaxLag
              [] pc = "fencing"   -> MaxMiss
              [] OTHER            -> 0

Tick == /\ timer < Patience
        /\ timer' = timer + 1
        /\ age' = age + 1
        /\ UNCHANGED <<pc, stop, fenced>>

Wake == WakeByTimeout \/ WakeByStop
BeatEnds == BeatReturns \/ BeatRaises
MissEnds == MissReturns \/ MissRaises

Next == Start \/ BeatReturns \/ BeatRaises \/ WakeByTimeout \/ WakeByStop
          \/ MissReturns \/ MissRaises \/ Stop \/ Tick

Spec == Init /\ [][Next]_vars

(* Time passes, the loop gets to a ready coroutine, callbacks end. *)
Fairness == /\ WF_vars(Start) /\ WF_vars(BeatEnds) /\ WF_vars(Wake)
            /\ WF_vars(MissEnds) /\ WF_vars(Tick)
FairSpec == Spec /\ Fairness

-----------------------------------------------------------------------------
(* Type invariant; time is bounded by the patience of every stage. *)
TypeOK ==
  /\ pc \in Suspended \cup Ended
  /\ age \in 0..(2 * MaxLag + Interval + MaxBeat + MaxMiss)
  /\ timer \in 0..(Interval + MaxLag + MaxBeat + MaxMiss)
  /\ stop \in BOOLEAN
  /\ fenced \in BOOLEAN
  /\ fenced => pc \in {"fencing"} \cup Ended

(* run fences itself only when it was kept waiting past the threshold in one  *)
(* go: with an event loop no later than the margin between interval and       *)
(* threshold (8 - 5 = 3 seconds by default) never, whatever the beats take.   *)
(* on_miss cancels every order, so calling it needlessly is costly.           *)
NoNeedlessFence == [][~fenced /\ fenced' => timer > Threshold]_vars

(* run never sends a beat after stop() or for a window that has already       *)
(* closed, and none at all once it has fenced itself.                         *)
NoBeatOutOfTurn ==
  [][pc # "beating" /\ pc' = "beating" => ~stop /\ ~fenced /\ age <= Threshold]_vars

(* A coroutine that overslept its window self-fences, unless it is told to    *)
(* stop first ("Missing a window triggers on_miss", heartbeat.py:6).          *)
OversleepingFences == (pc = "sleeping" /\ age > Threshold) ~> (fenced \/ stop)

(* stop() ends run, wherever it is suspended. *)
StopEnds == stop ~> (pc \in Ended)

(* As long as nobody stops it and no beat fails, run keeps beating, or fences *)
(* itself: it never sleeps through everything.                                *)
KeepsBeating == [](<>(pc = "beating" \/ fenced \/ stop \/ pc = "raised"))

(* A window is missed when the time since the last completed beat passes the  *)
(* threshold; on_miss must be called before beats count again                 *)
(* ("Missing a window triggers on_miss", heartbeat.py:6-7).                   *)
NoMissGoesUnnoticed == [][age > Threshold /\ age' = 0 => fenced]_vars
=============================================================================
