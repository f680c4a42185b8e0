----------------------- MODULE TradingPipelineProofs ------------------------
(***************************************************************************)
(* Theorems about TradingPipeline for every set of scenarios, any number   *)
(* of signals in flight, deliveries and crashes.  The executor's theorems  *)
(* carry over, because every step of the pipeline is a step of the         *)
(* executor or leaves it alone; reconciliation's lemmas are used step by   *)
(* step, because here its fills arrive one at a time and a crash is no     *)
(* step of its own.  How far position and balance can go is bounded by     *)
(* adding up, over the orders in flight, what each can still take.         *)
(***************************************************************************)
EXTENDS TradingPipeline, SumTheorems, FiniteSetTheorems, TLAPS

ExecP == INSTANCE PaperExecutionProofs WITH
           Calls <- Evaluations, Intents <- AllIntents, Books <- AllBooks
ReconP == INSTANCE ReconciliationProofs WITH
            fill <- applying, overlapped <- {},
            Workers <- Consumers, Users <- {User}, Tokens <- {Token},
            Fills <- FillEvents, OpeningBalance <- 0, OnePerUser <- TRUE, MaxAborts <- 0

-----------------------------------------------------------------------------
(* What the scenarios provide is what the executor's module asks for. *)
LEMMA ExecAssumptions ==
  /\ AllIntents \subseteq ExecP!IntentType
  /\ AllBooks \subseteq ExecP!BookType
<1>1. AllSignals \subseteq SignalType
  BY ScenariosAssumption DEF AllSignals, ScenarioType
<1>2. Evaluations \subseteq Nat
  BY BoundsAssumption DEF Evaluations
<1> QED BY <1>1, <1>2, ScenariosAssumption
        DEF AllIntents, IntentOf, ExecP!IntentType, SignalType, AllBooks, ScenarioType,
            ExecP!BookType, BookType

(* The risk engine's part is well typed at the start. *)
LEMMA RiskInit == Init => RiskTypeOK
BY DEF Init, RiskTypeOK, Stages

(* Every step keeps the risk engine's part well typed. *)
LEMMA RiskNext == RiskTypeOK /\ [Next]_vars => RiskTypeOK'
<1> SUFFICES ASSUME RiskTypeOK, [Next]_vars PROVE RiskTypeOK'
  OBVIOUS
<1> USE DEF RiskTypeOK, Stages
<1>0. setup.signals \subseteq AllSignals /\ AllSignals \subseteq SignalType
  BY ScenariosAssumption DEF AllSignals, ScenarioType
<1>1. ASSUME NEW e \in Evaluations, NEW s \in setup.signals, Deliver(e, s)
      PROVE  RiskTypeOK'
  BY <1>0, <1>1 DEF Deliver
<1>2. ASSUME NEW e \in Evaluations, NEW d \in {"approved", "rejected"}, Decided(e, d),
             stage[e] # "new"
      PROVE  RiskTypeOK'
  BY <1>2 DEF Decided
<1>3. ASSUME NEW e \in Evaluations, NEW from \in {"screening", "sizing"},
             NEW gates, NEW next \in {"sizing", "funding"}, GateRun(e, from, gates, next)
      PROVE  RiskTypeOK'
  BY <1>3 DEF GateRun
<1>4. ASSUME NEW e \in Evaluations, Screen(e) \/ CheckCap(e) \/ CheckFunds(e)
      PROVE  RiskTypeOK'
  BY <1>2, <1>3, <1>4 DEF Screen, CheckCap, CheckFunds, Reject, Evaluating
<1>5. ASSUME UNCHANGED riskVars PROVE RiskTypeOK'
  BY <1>5 DEF riskVars
<1>6. ASSUME Crash PROVE RiskTypeOK'
  BY <1>6 DEF Crash, Evaluating
<1>7. ASSUME NEW e \in Evaluations, Submit(e) \/ Answer(e) \/ HandOver(e)
      PROVE  RiskTypeOK'
  BY <1>5, <1>7 DEF Submit, Answer, HandOver
<1>8. ASSUME NEW e \in Evaluations, Record(e)
      PROVE  RiskTypeOK'
  BY <1>8 DEF Record
<1> QED BY <1>1, <1>4, <1>5, <1>6, <1>7, <1>8 DEF Next, Advance, Book, vars

-----------------------------------------------------------------------------
(* An approved signal's intent is one the executor may be called with. *)
LEMMA ApprovedIntent ==
  ASSUME RiskTypeOK, NEW e \in Evaluations, stage[e] # "new"
  PROVE  /\ signal[e] \in AllSignals /\ signal[e] \in SignalType
         /\ IntentOf(e, signal[e]) \in AllIntents
BY ScenariosAssumption DEF RiskTypeOK, AllSignals, AllIntents, ScenarioType

(* A step of the pipeline is a step of the executor or leaves it alone.       *)
LEMMA ExecutorStep == RiskTypeOK /\ [Next]_vars => [Exec!Next]_(Exec!vars)
<1> SUFFICES ASSUME RiskTypeOK, [Next]_vars PROVE [Exec!Next]_(Exec!vars)
  OBVIOUS
<1>1. ASSUME NEW e \in Evaluations, Submit(e)
      PROVE  Exec!Next
  <2>1. IntentOf(e, signal[e]) \in AllIntents
    BY <1>1, ApprovedIntent DEF Submit
  <2> QED BY <1>1, <2>1 DEF Submit, Exec!Next
<1>2. ASSUME NEW e \in Evaluations, Answer(e)
      PROVE  Exec!Next
  <2>1. CASE Exec!BookFails(e)
    BY <2>1 DEF Exec!Next
  <2>2. CASE \E book \in setup.books \cup {None} : Exec!BookAnswers(e, book)
    <3>1. PICK book \in AllBooks \cup {None} : Exec!BookAnswers(e, book)
      BY <2>2 DEF RiskTypeOK, AllBooks
    <3> QED BY <3>1 DEF Exec!Next
  <2> QED BY <1>2, <2>1, <2>2 DEF Answer
<1>3. ASSUME Crash PROVE Exec!Next
  BY <1>3 DEF Crash, Exec!Next
<1>4. ASSUME NEW e \in Evaluations,
             (\E s \in setup.signals : Deliver(e, s)) \/ HandOver(e) \/ Record(e)
               \/ Screen(e) \/ CheckCap(e) \/ CheckFunds(e)
      PROVE  UNCHANGED execVars
  BY <1>4 DEF Deliver, HandOver, Record, Screen, CheckCap, CheckFunds, GateRun, Reject,
              Decided
<1> QED BY <1>1, <1>2, <1>3, <1>4 DEF Next, Advance, Book, vars, execVars, Exec!vars

(* The pipeline implements the executor's specification, so what is proved of *)
(* the executor under any calls holds of it between the risk engine and       *)
(* reconciliation.                                                            *)
THEOREM ExecutorInside == Spec => Exec!Spec
<1>1. Init => Exec!Init
  BY DEF Init
<1>2. Spec => []RiskTypeOK
  BY RiskInit, RiskNext, PTL DEF Spec
<1> QED BY <1>1, <1>2, ExecutorStep, PTL DEF Spec, Exec!Spec

(* The executor of the composition and the one of the theorems are the same.  *)
LEMMA SameFill ==
  ASSUME NEW i, NEW book
  PROVE  ExecP!PaperFill(i, book) = Exec!PaperFill(i, book)
BY DEF ExecP!PaperFill, ExecP!simulate_fill, ExecP!Opposite, ExecP!Marketable,
       ExecP!FilledSize, ExecP!Smaller, ExecP!Fee, ExecP!quantize_size,
       ExecP!quantize_price, ExecP!quantize_cash, ExecP!RoundDown,
       Exec!PaperFill, Exec!simulate_fill, Exec!Opposite, Exec!Marketable,
       Exec!FilledSize, Exec!Smaller, Exec!Fee, Exec!quantize_size,
       Exec!quantize_price, Exec!quantize_cash, Exec!RoundDown

LEMMA SameStep == [Exec!Next]_(Exec!vars) => [ExecP!Next]_(ExecP!vars)
BY SameFill DEF Exec!Next, Exec!vars, Exec!SubmitFresh, Exec!SubmitDuplicate, Exec!Called,
       Exec!BookAnswers, Exec!BookFails, Exec!Restart,
       ExecP!Next, ExecP!vars, ExecP!SubmitFresh, ExecP!SubmitDuplicate, ExecP!Called,
       ExecP!BookAnswers, ExecP!BookFails, ExecP!Restart

LEMMA ExecutorInvariant == Spec => []ExecP!IInv
<1>1. Exec!Init => ExecP!Init
  BY DEF Exec!Init, ExecP!Init
<1>2. Exec!Spec => ExecP!Spec
  BY <1>1, SameStep, PTL DEF Exec!Spec, ExecP!Spec
<1>3. ExecP!Spec => []ExecP!IInv
  BY ExecP!Invariance, ExecAssumptions, BoundsAssumption, TicksAssumption, FeeAssumption,
     NoneAssumption
<1> QED BY <1>2, <1>3, ExecutorInside, PTL

-----------------------------------------------------------------------------
(* Reconciliation of the composition and the one of the theorems are the same.*)
LEMMA SameApply ==
  ASSUME NEW pos, NEW f
  PROVE  ReconP!ApplyFillToPosition(pos, f) = Recon!ApplyFillToPosition(pos, f)
BY DEF ReconP!ApplyFillToPosition, ReconP!Grows, ReconP!SignedFill, ReconP!CostAverage,
       ReconP!Reduce, ReconP!ClosingPnL, ReconP!RoundHalfEven, ReconP!Magnitude,
       ReconP!Lesser,
       Recon!ApplyFillToPosition, Recon!Grows, Recon!SignedFill, Recon!CostAverage,
       Recon!Reduce, Recon!ClosingPnL, Recon!RoundHalfEven, Recon!Magnitude,
       Recon!Lesser

LEMMA SamePay ==
  ASSUME NEW b, NEW f
  PROVE  ReconP!ApplyFillToBalance(b, f) = Recon!ApplyFillToBalance(b, f)
BY DEF ReconP!ApplyFillToBalance, Recon!ApplyFillToBalance

LEMMA SameReturn ==
  ASSUME NEW w, Recon!Return(w)
  PROVE  ReconP!Return(w)
BY DEF ReconP!Return, Recon!Return, ReconP!NoFill, Recon!NoFill, ReconP!NoPosition,
       Recon!NoPosition

LEMMA SameReconStep ==
  ASSUME NEW w \in Consumers,
         Recon!Step(w) \/ \E f \in FillEvents : Recon!Receive(w, f)
  PROVE  ReconP!Next
<1> USE DEF Recon!stores, Recon!queue, Recon!history,
            ReconP!stores, ReconP!queue, ReconP!history
<1>1. CASE \E f \in FillEvents : Recon!Receive(w, f)
  BY <1>1 DEF Recon!Receive, Recon!StartApply, Recon!Rivals, Recon!Busy, Recon!KeyOf,
              ReconP!Receive, ReconP!StartApply, ReconP!Rivals, ReconP!Busy, ReconP!KeyOf,
              ReconP!Next
<1>2. CASE Recon!RejectFill(w)
  BY <1>2, SameReturn
  DEF Recon!RejectFill, Recon!FillIsValid,
      ReconP!RejectFill, ReconP!FillIsValid, ReconP!Step, ReconP!Next
<1>3. CASE Recon!WritePosition(w)
  BY <1>3, SameApply
  DEF Recon!WritePosition, Recon!FillIsValid, Recon!KeyOf,
      ReconP!WritePosition, ReconP!FillIsValid, ReconP!KeyOf, ReconP!Step, ReconP!Next
<1>4. CASE Recon!ReadBalance(w)
  BY <1>4 DEF Recon!ReadBalance, ReconP!ReadBalance, ReconP!Step, ReconP!Next
<1>5. CASE Recon!WriteBalance(w)
  BY <1>5, SamePay
  DEF Recon!WriteBalance, ReconP!WriteBalance, ReconP!Step, ReconP!Next
<1>6. CASE Recon!Finish(w)
  BY <1>6, SameReturn DEF Recon!Finish, ReconP!Finish, ReconP!Step, ReconP!Next
<1> QED BY <1>1, <1>2, <1>3, <1>4, <1>5, <1>6 DEF Recon!Step

LEMMA SameTypes == ReconP!TypeOK <=> Recon!TypeOK
BY DEF ReconP!TypeOK, ReconP!Keys, ReconP!PositionType, ReconP!FillType, ReconP!NoFill,
       ReconP!Busy, ReconP!Awaits, Recon!TypeOK, Recon!Keys, Recon!PositionType,
       Recon!FillType, Recon!NoFill, Recon!Busy, Recon!Awaits

(* The events of the pipeline are fills reconciliation can take. *)
LEMMA ReconAssumptions ==
  /\ FillEvents \subseteq ReconP!FillType
  /\ 0 \in Int /\ TRUE \in BOOLEAN /\ 0 \in Nat
  /\ AvgScale \in Nat \ {0}
BY BoundsAssumption DEF FillEvents, ReconP!FillType

(* Handing a fill over and booking it keep reconciliation's reads current.    *)
LEMMA ReconStep ==
  ASSUME ReconP!IInv, NEW w \in Consumers,
         Recon!Step(w) \/ \E f \in FillEvents : Recon!Receive(w, f)
  PROVE  ReconP!IInv'
<1>1. ReconP!Next
  BY SameReconStep
<1>2. ReconP!TypeOK'
  BY <1>1, ReconP!TypeNext, ReconAssumptions DEF ReconP!IInv
<1>3. ReconP!AppliesApart' /\ ReconP!NoStaleRead'
  BY <1>1, ReconP!FreshNext, ReconAssumptions
<1> QED BY <1>2, <1>3 DEF ReconP!IInv

-----------------------------------------------------------------------------
(* A fill's event is one reconciliation can take. *)
LEMMA EventType ==
  ASSUME ExecP!IInv, NEW e \in Evaluations, fill[e] # None
  PROVE  /\ Event(e) \in FillEvents /\ Event(e).id = e
         /\ intent[e] \in AllIntents /\ state[e] = "ordered"
<1>1. ExecP!TypeOK
  BY DEF ExecP!IInv
<1>2. state[e] = "ordered" /\ intent[e] \in AllIntents /\ fill[e] \in ExecP!FillType
  BY <1>1 DEF ExecP!TypeOK, ExecP!Started
<1>3. intent[e].side \in {"buy", "sell"}
  BY <1>2, ExecAssumptions DEF ExecP!IntentType
<1> QED BY <1>2, <1>3, BoundsAssumption DEF Event, FillEvents, Evaluations, ExecP!FillType

Publishable == \A e \in Evaluations : fill[e] # None => Event(e) \in FillEvents

LEMMA EventTypeNext == ExecP!IInv' => Publishable'
<1>1. ExecP!IInv => Publishable
  BY EventType DEF Publishable
<1> QED BY <1>1, PTL

(* What the executor's step does to the submitted calls: it only submits      *)
(* approved signals, and a submitted call keeps its intent.                   *)
LEMMA SubmittedNext ==
  ASSUME RiskTypeOK, ExecP!IInv, OnlyApprovedSubmitted, [Next]_vars
  PROVE  OnlyApprovedSubmitted'
<1> USE DEF OnlyApprovedSubmitted, Submitted
<1>0. /\ stage \in [Evaluations -> Stages] /\ signal \in [Evaluations -> AllSignals \cup {None}]
      /\ state \in [Evaluations -> ExecP!States]
      /\ intent \in [Evaluations -> AllIntents \cup {None}]
  BY DEF RiskTypeOK, ExecP!IInv, ExecP!TypeOK
<1>1. ASSUME NEW e \in Evaluations, NEW s \in setup.signals, Deliver(e, s)
      PROVE  OnlyApprovedSubmitted'
  BY <1>0, <1>1 DEF Deliver, execVars, IntentOf
<1>2. ASSUME NEW e \in Evaluations, Screen(e) \/ CheckCap(e) \/ CheckFunds(e)
      PROVE  OnlyApprovedSubmitted'
  BY <1>0, <1>2 DEF Screen, CheckCap, CheckFunds, GateRun, Reject, Decided, execVars, IntentOf
<1>3. ASSUME NEW e \in Evaluations, Submit(e)
      PROVE  OnlyApprovedSubmitted'
  BY <1>0, <1>3 DEF Submit, Exec!SubmitFresh, Exec!SubmitDuplicate, Exec!Called, riskVars, IntentOf
<1>4. ASSUME NEW e \in Evaluations, Answer(e)
      PROVE  OnlyApprovedSubmitted'
  BY <1>0, <1>4 DEF Answer, Exec!BookAnswers, Exec!BookFails, riskVars, IntentOf
<1>5. ASSUME Crash PROVE OnlyApprovedSubmitted'
  BY <1>0, <1>5 DEF Crash, Exec!Restart, Evaluating, IntentOf
<1>6. ASSUME UNCHANGED <<riskVars, execVars>> PROVE OnlyApprovedSubmitted'
  BY <1>6 DEF riskVars, execVars, IntentOf
<1>7. ASSUME NEW e \in Evaluations, HandOver(e)
      PROVE  OnlyApprovedSubmitted'
  BY <1>6, <1>7 DEF HandOver
<1>8. ASSUME NEW e \in Evaluations, Record(e)
      PROVE  OnlyApprovedSubmitted'
  BY <1>8 DEF Record, execVars, IntentOf
<1> QED BY <1>1, <1>2, <1>3, <1>4, <1>5, <1>6, <1>7, <1>8 DEF Next, Advance, Book, vars

(* The stores are well typed and nobody has read anything at the start.       *)
LEMMA ReconInit == Init => ReconP!IInv
<1> SUFFICES ASSUME Init PROVE ReconP!IInv
  OBVIOUS
<1>1. setup.ctx.position \in Int /\ setup.ctx.balance \in Int
  BY ScenariosAssumption DEF Init, ScenarioType, ContextType
<1>2. InitialPosition(setup.ctx.position) \in ReconP!PositionType
  BY <1>1, BoundsAssumption DEF InitialPosition, ReconP!PositionType
<1>3. Recon!NoPosition \in ReconP!PositionType
  BY DEF Recon!NoPosition, ReconP!PositionType
<1>4. ReconP!TypeOK
  BY <1>1, <1>2, <1>3
  DEF Init, ReconP!TypeOK, ReconP!Keys, Recon!Keys, ReconP!NoFill, Recon!NoFill, ReconP!Busy,
      ReconP!Awaits
<1> QED BY <1>4 DEF Init, ReconP!IInv, ReconP!AppliesApart, ReconP!NoStaleRead, ReconP!Busy

(* Publishing a fill adds a well-typed event, a crash forgets the calls.      *)
LEMMA ReconNext ==
  ASSUME ReconP!IInv, ExecP!IInv, ExecP!IInv', [Next]_vars
  PROVE  ReconP!IInv'
<1>1. ASSUME NEW e \in Evaluations, Answer(e)
      PROVE  ReconP!IInv'
  <2>1. fill'[e] # None => Event(e)' \in FillEvents
    BY <1>1, EventTypeNext DEF Publishable
  <2>2. /\ pending' \subseteq FillEvents
        /\ UNCHANGED <<positions, balances, pc, applying, prior, priorBalance,
                       posted, paid, raised, aborts>>
    BY <1>1, <2>1 DEF Answer, Publish, ReconP!IInv, ReconP!TypeOK
  <2> QED BY <2>2
          DEF ReconP!IInv, ReconP!TypeOK, ReconP!AppliesApart, ReconP!NoStaleRead, ReconP!Busy
<1>2. ASSUME NEW e \in Evaluations, HandOver(e)
      PROVE  ReconP!IInv'
  <2>1. Event(e) \in FillEvents
    BY <1>2, EventType DEF HandOver
  <2> QED BY <1>2, <2>1, ReconStep DEF HandOver
<1>3. ASSUME Book PROVE ReconP!IInv'
  BY <1>3, ReconStep DEF Book
<1>4. ASSUME Crash PROVE ReconP!IInv'
  <2>1. Recon!NoPosition \in ReconP!PositionType
    BY DEF Recon!NoPosition, ReconP!PositionType
  <2>2. \A w \in Consumers : ~ReconP!Busy(w)' /\ pc'[w] = "idle"
    BY <1>4 DEF Crash, ReconP!Busy
  <2>3. ReconP!TypeOK'
    BY <1>4, <2>1, <2>2
    DEF Crash, ReconP!IInv, ReconP!TypeOK, ReconP!NoFill, Recon!NoFill, ReconP!Awaits
  <2> QED BY <2>2, <2>3 DEF ReconP!IInv, ReconP!AppliesApart, ReconP!NoStaleRead
<1>5. ASSUME UNCHANGED reconVars PROVE ReconP!IInv'
  BY <1>5 DEF reconVars, ReconP!IInv, ReconP!TypeOK, ReconP!AppliesApart,
              ReconP!NoStaleRead, ReconP!Busy
<1>6. ASSUME NEW e \in Evaluations,
             (\E s \in setup.signals : Deliver(e, s)) \/ Record(e)
               \/ Screen(e) \/ CheckCap(e) \/ CheckFunds(e) \/ Submit(e)
      PROVE  UNCHANGED reconVars
  BY <1>6 DEF Deliver, Record, Submit, Screen, CheckCap, CheckFunds, GateRun, Reject, Decided
<1> QED BY <1>1, <1>2, <1>3, <1>4, <1>5, <1>6 DEF Next, Advance, vars

LEMMA SameExecTypes == ExecP!IInv => Exec!TypeOK
BY DEF ExecP!IInv, ExecP!TypeOK, ExecP!Signals, ExecP!States, ExecP!Started, ExecP!FillType,
       Exec!TypeOK, Exec!Signals, Exec!States, Exec!Started, Exec!FillType

(* The parts' invariants together. *)
Parts == RiskTypeOK /\ OnlyApprovedSubmitted /\ ExecP!IInv /\ ReconP!IInv

LEMMA PartsInvariance == Spec => []Parts
<1>1. Init => RiskTypeOK /\ OnlyApprovedSubmitted /\ ReconP!IInv
  BY RiskInit, ReconInit DEF Init, Exec!Init, OnlyApprovedSubmitted, Submitted
<1>2. Spec => []ExecP!IInv
  BY ExecutorInvariant
<1>3. /\ RiskTypeOK /\ OnlyApprovedSubmitted /\ ReconP!IInv
      /\ ExecP!IInv /\ ExecP!IInv' /\ [Next]_vars
      => (RiskTypeOK /\ OnlyApprovedSubmitted /\ ReconP!IInv)'
  BY RiskNext, SubmittedNext, ReconNext
<1> QED BY <1>1, <1>2, <1>3, PTL DEF Spec, Parts

(* Only approved signals reach the executor, as the intents built from them,  *)
(* only decisions are recorded, and the parts keep their types.               *)
THEOREM TypeCorrect == Spec => []TypeOK
<1>1. Parts => TypeOK
  BY SameExecTypes, SameTypes DEF Parts, TypeOK, ReconP!IInv
<1> QED BY <1>1, PartsInvariance, PTL

-----------------------------------------------------------------------------
(* What the gates read of the stores. *)
LEMMA LiveFields ==
  ASSUME RiskTypeOK
  PROVE  /\ Live.position = positions[Key].size
         /\ Live.balance = balances[User]
         /\ Live.processed = setup.ctx.processed \cup Processed
BY ScenariosAssumption DEF RiskTypeOK, ScenarioType, ContextType, Live

(* A signal that passes the first gates has no recorded decision.             *)
LEMMA ScreenedIsNew ==
  ASSUME RiskTypeOK, NEW s, \A g \in ScreenGates : Holds(g, s, Live)
  PROVE  s.signal_id \notin Processed
<1>1. "idempotency" \in ScreenGates
  <2>1. AllGates[4] = "idempotency" /\ 4 \in 1..14
    BY DEF AllGates
  <2> QED BY <2>1 DEF ScreenGates
<1>2. Holds("idempotency", s, Live)
  BY <1>1
<1>3. Decide("idempotency", s, Live.market, Live) = idempotency(s, Live)
  BY DEF Decide
<1> QED BY <1>2, <1>3, LiveFields DEF Holds, idempotency

Id(e) == signal[e].signal_id
Cleared(e) == \/ stage[e] \in {"sizing", "funding"}
              \/ stage[e] = "approved" /\ ~Submitted(e)

(* A crash settles which of the decisions before it are recorded; a signal    *)
(* past gate 4 was not claimed in an earlier run of the process that recorded *)
(* the decision; and hence no run claims what such a run has claimed.         *)
RecordsSettled ==
  \A c \in Evaluations :
    ExecP!Claimed(c) /\ epoch[c] < restarts => record[c] \in {"written", "lost"}
ClearedIsNew ==
  \A e, c \in Evaluations :
    Cleared(e) /\ ExecP!Claimed(c) /\ epoch[c] < restarts /\ record[c] = "written"
      => Id(c) # Id(e)
RunsClaimApart ==
  \A c, d \in Evaluations :
    ExecP!Claimed(c) /\ ExecP!Claimed(d) /\ epoch[c] < epoch[d] /\ record[c] = "written"
      => Id(c) # Id(d)
ClaimsApart == RecordsSettled /\ ClearedIsNew /\ RunsClaimApart

(* Each step keeps the claims of different runs apart: gate 4 turns away what *)
(* is recorded, what an earlier run did not record it never will, and what a  *)
(* crash lets pass through the executor again has to pass gate 4 first.       *)
LEMMA ClaimsApartNext ==
  ASSUME Parts, ClaimsApart, [Next]_vars
  PROVE  ClaimsApart'
<1> USE DEF ClaimsApart, RecordsSettled, ClearedIsNew, RunsClaimApart, Cleared, Submitted, Id,
            ExecP!Claimed, ExecP!Started
<1>0. /\ stage \in [Evaluations -> Stages] /\ signal \in [Evaluations -> AllSignals \cup {None}]
      /\ record \in [Evaluations -> {"none", "written", "lost"}]
      /\ state \in [Evaluations -> ExecP!States]
      /\ epoch \in [Evaluations -> 0..restarts] /\ restarts \in Nat
      /\ \A e \in Evaluations : Submitted(e) => stage[e] = "approved"
  BY DEF Parts, RiskTypeOK, ExecP!IInv, ExecP!TypeOK, OnlyApprovedSubmitted
<1>1. ASSUME NEW e \in Evaluations, NEW s \in setup.signals, Deliver(e, s)
      PROVE  ClaimsApart'
  BY <1>0, <1>1 DEF Deliver, execVars
<1>2. ASSUME NEW e \in Evaluations, Screen(e)
      PROVE  ClaimsApart'
  <2>1. CASE GateRun(e, "screening", ScreenGates, "sizing")
    <3>1. Id(e) \notin Processed
      BY <2>1, ScreenedIsNew DEF GateRun, Parts
    <3>2. \A c \in Evaluations : record[c] = "written" => Id(c) # Id(e)
      BY <3>1 DEF Processed
    <3>3. stage' = [stage EXCEPT ![e] = "sizing"] /\ UNCHANGED <<signal, record, execVars>>
      BY <2>1 DEF GateRun
    <3> QED BY <1>0, <3>2, <3>3 DEF execVars
  <2>2. CASE Reject(e, "screening", ScreenGates)
    BY <1>0, <2>2 DEF Reject, Decided, execVars
  <2> QED BY <1>2, <2>1, <2>2 DEF Screen
<1>3. ASSUME NEW e \in Evaluations, CheckCap(e) \/ CheckFunds(e)
      PROVE  ClaimsApart'
  <2>1. stage[e] \in {"sizing", "funding"}
    BY <1>3 DEF CheckCap, CheckFunds, GateRun, Reject
  <2>2. /\ UNCHANGED <<signal, record, execVars>>
        /\ \E next \in Stages : stage' = [stage EXCEPT ![e] = next]
    BY <1>3 DEF CheckCap, CheckFunds, GateRun, Reject, Decided, Stages
  <2> QED BY <1>0, <2>1, <2>2 DEF execVars
<1>4. ASSUME NEW e \in Evaluations, Submit(e)
      PROVE  ClaimsApart'
  <2>1. /\ stage[e] = "approved" /\ state[e] = "new"
        /\ UNCHANGED <<stage, signal, record, restarts>>
        /\ epoch' = [epoch EXCEPT ![e] = restarts]
        /\ \E next \in {"duplicate", "awaiting_book"} : state' = [state EXCEPT ![e] = next]
    BY <1>4 DEF Submit, riskVars, Exec!SubmitFresh, Exec!SubmitDuplicate, Exec!Called
  <2>2. RecordsSettled' /\ ClearedIsNew'
    BY <1>0, <2>1
  <2>3. RunsClaimApart'
    BY <1>0, <2>1
  <2> QED BY <2>2, <2>3
<1>5. ASSUME NEW e \in Evaluations, Answer(e)
      PROVE  ClaimsApart'
  BY <1>0, <1>5 DEF Answer, riskVars, Exec!BookAnswers, Exec!BookFails
<1>6. ASSUME Crash PROVE ClaimsApart'
  <2>1. \A e \in Evaluations : ~Cleared(e)'
    BY <1>0, <1>6 DEF Crash, Evaluating, Exec!Restart
  <2>2. RecordsSettled' /\ RunsClaimApart'
    BY <1>0, <1>6 DEF Crash, Exec!Restart
  <2> QED BY <2>1, <2>2
<1>7. ASSUME UNCHANGED <<riskVars, execVars>> PROVE ClaimsApart'
  BY <1>7 DEF riskVars, execVars
<1>8. ASSUME NEW e \in Evaluations, HandOver(e)
      PROVE  ClaimsApart'
  BY <1>7, <1>8 DEF HandOver
<1>9. ASSUME NEW e \in Evaluations, Record(e)
      PROVE  ClaimsApart'
  <2>1. /\ record[e] = "none" /\ record' = [record EXCEPT ![e] = "written"]
        /\ UNCHANGED <<stage, signal, state, epoch, restarts>>
    BY <1>9 DEF Record, execVars
  <2>2. ExecP!Claimed(e) => epoch[e] = restarts
    BY <1>0, <2>1
  <2>3. RunsClaimApart'
    BY <1>0, <2>1, <2>2
  <2> QED BY <1>0, <2>1, <2>2, <2>3
<1> QED BY <1>1, <1>2, <1>3, <1>4, <1>5, <1>6, <1>7, <1>8, <1>9 DEF Next, Advance, Book, vars

(* However often a signal is delivered, and whatever crashes in between, a    *)
(* second order of it means that a crash lost the record of the first: the    *)
(* claim keeps two calls of a run apart, gate 4 those of different runs.      *)
THEOREM SignalsAreOrderedOnce == Spec => []OrderedAgainOnlyUnrecorded
<1>1. Init => ClaimsApart
  BY DEF Init, Exec!Init, ClaimsApart, RecordsSettled, ClearedIsNew, RunsClaimApart,
         ExecP!Claimed, ExecP!Started
<1>2. Parts /\ ClaimsApart => OrderedAgainOnlyUnrecorded
  <2> SUFFICES ASSUME Parts, ClaimsApart, NEW c \in Evaluations, NEW d \in Evaluations,
                      c # d, state[c] = "ordered", state[d] = "ordered",
                      signal[c].signal_id = signal[d].signal_id
               PROVE  epoch[c] # epoch[d] /\ (epoch[c] < epoch[d] => record[c] = "lost")
    BY DEF OrderedAgainOnlyUnrecorded
  <2>1. ExecP!Claimed(c) /\ ExecP!Claimed(d) /\ Submitted(c) /\ Submitted(d)
    BY DEF ExecP!Claimed, ExecP!Started, Submitted
  <2>2. intent[c].signal_id = Id(c) /\ intent[d].signal_id = Id(d)
    <3>1. intent[c] = IntentOf(c, signal[c]) /\ intent[d] = IntentOf(d, signal[d])
      BY <2>1 DEF Parts, OnlyApprovedSubmitted
    <3> QED BY <3>1 DEF IntentOf, Id
  <2>3. epoch[c] # epoch[d]
    BY <2>1, <2>2 DEF Parts, ExecP!IInv, ExecP!OneClaimPerRun, ExecP!SameSignal, Id
  <2>4. ASSUME epoch[c] < epoch[d] PROVE record[c] = "lost"
    <3>1. epoch[c] \in Nat /\ epoch[d] \in 0..restarts /\ restarts \in Nat
      BY DEF Parts, ExecP!IInv, ExecP!TypeOK
    <3>2. epoch[c] < restarts
      BY <2>4, <3>1
    <3>3. record[c] # "written"
      BY <2>1, <2>4 DEF ClaimsApart, RunsClaimApart, Id
    <3> QED BY <2>1, <3>2, <3>3 DEF ClaimsApart, RecordsSettled
  <2> QED BY <2>3, <2>4
<1> QED BY <1>1, <1>2, ClaimsApartNext, PartsInvariance, PTL DEF Spec

-----------------------------------------------------------------------------
(* Every event reconciliation has, had or has settled is a fill's. *)
Known(f) == \E e \in Evaluations : fill[e] # None /\ f = Event(e)
EventsAreKnown ==
  /\ \A f \in pending \cup posted \cup paid : Known(f)
  /\ \A w \in Consumers : Recon!Busy(w) => Known(applying[w])

(* An event waits, is handled and is settled, in this order and once.         *)
EventsMoveOn ==
  /\ pending \cap (posted \cup paid) = {}
  /\ \A w \in Consumers :
       /\ Recon!Busy(w) => applying[w] \notin pending
       /\ pc[w] = "position_read" => applying[w] \notin posted
       /\ Recon!Busy(w) /\ pc[w] # "balance_written" => applying[w] \notin paid

TInv == Parts /\ EventsAreKnown /\ EventsMoveOn

(* One user, so one apply at a time. *)
LEMMA OneHandler ==
  ASSUME ReconP!IInv, NEW v \in Consumers, NEW w \in Consumers,
         Recon!Busy(v), Recon!Busy(w)
  PROVE  v = w /\ applying[w] \in FillEvents
<1>1. \A x \in Consumers : Recon!Busy(x) => applying[x] \in FillEvents
  BY DEF ReconP!IInv, ReconP!TypeOK, ReconP!Busy, Recon!Busy
<1>2. \A x \in Consumers : Recon!Busy(x) => applying[x].user = User
  BY <1>1 DEF FillEvents
<1> QED BY <1>1, <1>2 DEF ReconP!IInv, ReconP!AppliesApart, ReconP!Busy, Recon!Busy

(* Different evaluations have different events. *)
LEMMA EventsDiffer ==
  ASSUME NEW d, NEW e, Event(d) = Event(e)
  PROVE  d = e
BY DEF Event

(* A fill never changes, and neither does its event. *)
LEMMA EventsStay ==
  ASSUME Parts, [Next]_vars, NEW e \in Evaluations, fill[e] # None
  PROVE  fill'[e] = fill[e] /\ Event(e)' = Event(e)
<1>0. ExecP!TypeOK /\ state[e] = "ordered"
  BY EventType DEF Parts, ExecP!IInv
<1>1. [ExecP!Next]_execVars
  BY ExecutorStep, SameStep DEF Parts, ExecP!vars, execVars
<1>2. fill'[e] = fill[e] /\ intent'[e] = intent[e]
  BY <1>0, <1>1
  DEF ExecP!Next, ExecP!SubmitFresh, ExecP!SubmitDuplicate, ExecP!Called, ExecP!BookAnswers,
      ExecP!BookFails, ExecP!Restart, execVars, ExecP!TypeOK
<1> QED BY <1>2 DEF Event

(* What a step that only publishes does to the events. *)
LEMMA AnswerEvents ==
  ASSUME Parts, NEW e \in Evaluations, Answer(e)
  PROVE  /\ fill[e] = None /\ \A d \in Evaluations : d # e => fill'[d] = fill[d]
         /\ pending' \subseteq pending \cup {Event(e)'}
         /\ pending' # pending => fill'[e] # None
         /\ UNCHANGED <<stage, signal, positions, balances, pc, applying, posted, paid>>
<1>1. ExecP!TypeOK
  BY DEF Parts, ExecP!IInv
<1>2. state[e] = "awaiting_book" /\ (fill' = fill \/ \E x : fill' = [fill EXCEPT ![e] = x])
  BY DEF Answer, Exec!BookAnswers, Exec!BookFails
<1>3. fill[e] = None
  BY <1>1, <1>2 DEF ExecP!TypeOK
<1> QED BY <1>1, <1>2, <1>3 DEF Answer, Publish, ExecP!TypeOK, riskVars, Event

(* Each step of apply moves its event on. *)
LEMMA EventsNext ==
  ASSUME TInv, [Next]_vars
  PROVE  EventsAreKnown' /\ EventsMoveOn'
<1> USE DEF TInv, EventsMoveOn
<1>0. \A f : Known(f) => Known(f)'
  BY EventsStay DEF Known
<1>r. Recon!TypeOK
  BY SameTypes DEF Parts, ReconP!IInv
<1>t. /\ pc \in [Consumers -> Recon!Awaits]
      /\ applying \in [Consumers -> Recon!FillType \cup {Recon!NoFill}]
  BY <1>r DEF Recon!TypeOK
<1>1. ASSUME NEW e \in Evaluations, Answer(e)
      PROVE  EventsAreKnown' /\ EventsMoveOn'
  <2>1. Known(Event(e))' \/ pending' = pending
    BY <1>1, AnswerEvents DEF Known, Event
  <2>2. EventsAreKnown'
    BY <1>0, <1>1, <2>1, AnswerEvents DEF EventsAreKnown, Recon!Busy, Event
  <2>3. fill'[e] # None => ~Known(Event(e)')
    <3>1. ASSUME NEW d \in Evaluations, fill[d] # None, Event(e)' = Event(d)
          PROVE  FALSE
      <4>1. Event(d).id = d /\ (Event(e)').id = e
        BY DEF Event
      <4> QED BY <1>1, <3>1, <4>1, AnswerEvents
    <3> QED BY <3>1 DEF Known, Event
  <2>4. EventsMoveOn'
    BY <1>1, <2>3, AnswerEvents DEF EventsAreKnown, Recon!Busy, Event
  <2> QED BY <2>2, <2>4
<1>2. ASSUME NEW e \in Evaluations, HandOver(e)
      PROVE  EventsAreKnown' /\ EventsMoveOn'
  <2>1. PICK w \in Consumers : Recon!Receive(w, Event(e))
    BY <1>2 DEF HandOver
  <2>2. /\ Event(e) \in pending /\ pending' = pending \ {Event(e)}
        /\ applying' = [applying EXCEPT ![w] = Event(e)]
        /\ pc' = [pc EXCEPT ![w] = "position_read"]
        /\ UNCHANGED <<posted, paid>> /\ fill[e] # None
    BY <1>2, <2>1 DEF Recon!Receive, Recon!StartApply, Recon!history, HandOver
  <2>3. EventsAreKnown'
    BY <1>0, <1>t, <2>2 DEF EventsAreKnown, Recon!Busy
  <2>4. EventsMoveOn'
    BY <1>t, <2>2 DEF Recon!Busy
  <2> QED BY <2>3, <2>4
<1>3. ASSUME NEW w \in Consumers, Recon!Step(w)
      PROVE  EventsAreKnown' /\ EventsMoveOn'
  <2>1. Recon!Busy(w) /\ pending' = pending
    BY <1>3 DEF Recon!Step, Recon!RejectFill, Recon!WritePosition, Recon!ReadBalance,
                Recon!WriteBalance, Recon!Finish, Recon!Busy, Recon!queue, Recon!history
  <2>2. \A v \in Consumers : v # w => ~Recon!Busy(v)
    BY <2>1, OneHandler DEF Parts
  <2>3. CASE Recon!WritePosition(w)
    BY <1>0, <1>t, <2>1, <2>2, <2>3 DEF Recon!WritePosition, EventsAreKnown, Recon!Busy
  <2>4. CASE Recon!ReadBalance(w)
    BY <1>0, <1>t, <2>1, <2>2, <2>4
    DEF Recon!ReadBalance, EventsAreKnown, Recon!Busy, Recon!history
  <2>5. CASE Recon!RejectFill(w)
    BY <1>0, <1>t, <2>1, <2>2, <2>5
    DEF Recon!RejectFill, Recon!Return, EventsAreKnown, Recon!Busy
  <2>6. CASE Recon!WriteBalance(w)
    BY <1>0, <1>t, <2>1, <2>2, <2>6
    DEF Recon!WriteBalance, EventsAreKnown, Recon!Busy
  <2>7. CASE Recon!Finish(w)
    BY <1>0, <1>t, <2>1, <2>2, <2>7
    DEF Recon!Finish, Recon!Return, EventsAreKnown, Recon!Busy, Recon!history
  <2> QED BY <1>3, <2>3, <2>4, <2>5, <2>6, <2>7 DEF Recon!Step
<1>4. ASSUME Crash PROVE EventsAreKnown' /\ EventsMoveOn'
  BY <1>0, <1>4 DEF Crash, EventsAreKnown, Recon!Busy
<1>5. ASSUME UNCHANGED <<pending, posted, paid, pc, applying>>
      PROVE  EventsAreKnown' /\ EventsMoveOn'
  BY <1>0, <1>5 DEF EventsAreKnown, Recon!Busy
<1>6. ASSUME NEW e \in Evaluations,
             (\E s \in setup.signals : Deliver(e, s)) \/ Record(e)
               \/ Screen(e) \/ CheckCap(e) \/ CheckFunds(e) \/ Submit(e)
      PROVE  UNCHANGED <<pending, posted, paid, pc, applying>>
  BY <1>6 DEF Deliver, Record, Submit, Screen, CheckCap, CheckFunds, GateRun, Reject, Decided,
              reconVars
<1> QED BY <1>1, <1>2, <1>3, <1>4, <1>5, <1>6 DEF Next, Advance, Book, vars, reconVars

-----------------------------------------------------------------------------
(* What an evaluation still needs once gate 15, and once gate 18, let it pass.*)
NeedsRoom(e) == stage[e] = "funding" \/ Waiting(e) \/ (Booking(e) /\ Event(e) \notin posted)
NeedsCash(e) == Waiting(e) \/ (Booking(e) /\ Event(e) \notin paid)

HasRoom(e) ==
  Distance(positions[Key].size + SignedSize(signal[e]), 0) <= Config.max_abs_position
HasCash(e) ==
  signal[e].side = "buy" =>
    signal[e].size * signal[e].limit_price * (FeeDen + FeeNum) <= balances[User] * FeeDen

(* These are the gates' conditions on the stores. *)
LEMMA GateRoom ==
  ASSUME RiskTypeOK, NEW e \in Evaluations
  PROVE  /\ per_market_position_cap(signal[e], Live) <=> HasRoom(e)
         /\ usdc_sufficient(signal[e], Live) <=> HasCash(e)
BY LiveFields DEF per_market_position_cap, usdc_sufficient, HasRoom, HasCash

LEMMA CapPassed ==
  ASSUME RiskTypeOK, NEW e \in Evaluations, \A g \in CapGates : Holds(g, signal[e], Live)
  PROVE  HasRoom(e)
<1>1. "per_market_position_cap" \in CapGates
  BY DEF CapGates, AllGates
<1>2. Holds("per_market_position_cap", signal[e], Live)
  BY <1>1
<1>3. Decide("per_market_position_cap", signal[e], Live.market, Live)
        = per_market_position_cap(signal[e], Live)
  BY DEF Decide
<1> QED BY <1>2, <1>3, GateRoom DEF Holds

LEMMA FundsPassed ==
  ASSUME RiskTypeOK, NEW e \in Evaluations, \A g \in FundsGates : Holds(g, signal[e], Live)
  PROVE  HasCash(e)
<1>1. "usdc_sufficient" \in FundsGates
  <2>1. AllGates[18] = "usdc_sufficient" /\ 18 \in 16..18
    BY DEF AllGates
  <2> QED BY <2>1 DEF FundsGates
<1>2. Holds("usdc_sufficient", signal[e], Live)
  BY <1>1
<1>3. Decide("usdc_sufficient", signal[e], Live.market, Live)
        = usdc_sufficient(signal[e], Live)
  BY DEF Decide
<1> QED BY <1>2, <1>3, GateRoom DEF Holds

(* A step after which nobody needs what he did not need before.               *)
NothingNew ==
  /\ UNCHANGED <<setup, signal, positions, balances>>
  /\ \A e \in Evaluations : /\ InFlight(e)' => InFlight(e)
                            /\ NeedsRoom(e)' => NeedsRoom(e)
                            /\ NeedsCash(e)' => NeedsCash(e)

(* Moving an event along, or leaving it where it is, brings nothing new.      *)
LEMMA MovingEvents ==
  ASSUME Parts, [Next]_vars,
         UNCHANGED <<setup, stage, signal, state, fill, positions, balances, posted, paid>>,
         pending' \subseteq pending,
         \A w \in Consumers, e \in Evaluations :
           Recon!Busy(w)' /\ applying'[w] = Event(e) /\ fill[e] # None => Booking(e)
  PROVE  NothingNew
<1> SUFFICES ASSUME NEW e \in Evaluations
             PROVE  /\ InFlight(e)' => InFlight(e)
                    /\ NeedsRoom(e)' => NeedsRoom(e)
                    /\ NeedsCash(e)' => NeedsCash(e)
  BY DEF NothingNew
<1>1. (Waiting(e)' <=> Waiting(e)) /\ (Evaluating(e)' <=> Evaluating(e))
  BY DEF Waiting, Evaluating
<1>2. fill[e] # None => Event(e)' = Event(e)
  BY EventsStay
<1>3. Booking(e)' => Booking(e) /\ Event(e)' = Event(e)
  BY <1>2 DEF Booking, Handled
<1> QED BY <1>1, <1>3 DEF InFlight, NeedsRoom, NeedsCash

(* What the risk engine decides about one evaluation touches no event and no  *)
(* other evaluation.                                                          *)
LEMMA RiskStepEvents ==
  ASSUME Parts, NEW e \in Evaluations, UNCHANGED <<execVars, reconVars>>,
         NEW to \in Stages, stage' = [stage EXCEPT ![e] = to],
         NEW d \in Evaluations
  PROVE  /\ Booking(d)' <=> Booking(d)
         /\ Event(d)' = Event(d)
         /\ d # e => (Waiting(d)' <=> Waiting(d)) /\ (Evaluating(d)' <=> Evaluating(d))
         /\ d # e => stage'[d] = stage[d]
         /\ stage'[e] = to
         /\ UNCHANGED <<positions, balances, posted, paid>>
BY DEF Parts, RiskTypeOK, Booking, Handled, Event, Recon!Busy, Waiting, Evaluating,
       execVars, reconVars

LEMMA OthersUntouched ==
  ASSUME Parts, NEW e \in Evaluations, UNCHANGED <<execVars, reconVars>>,
         NEW to \in Stages, stage' = [stage EXCEPT ![e] = to],
         NEW d \in Evaluations, d # e
  PROVE  /\ InFlight(d)' <=> InFlight(d)
         /\ NeedsRoom(d)' <=> NeedsRoom(d)
         /\ NeedsCash(d)' <=> NeedsCash(d)
<1>1. /\ (Booking(d)' <=> Booking(d)) /\ Event(d)' = Event(d)
      /\ (Waiting(d)' <=> Waiting(d)) /\ (Evaluating(d)' <=> Evaluating(d))
      /\ stage'[d] = stage[d] /\ posted' = posted /\ paid' = paid
  BY RiskStepEvents
<1>2. InFlight(d)' <=> InFlight(d)
  BY <1>1 DEF InFlight
<1>3. NeedsRoom(d)' <=> NeedsRoom(d)
  BY <1>1 DEF NeedsRoom
<1>4. NeedsCash(d)' <=> NeedsCash(d)
  BY <1>1 DEF NeedsCash
<1> QED BY <1>2, <1>3, <1>4

(* A rejection, and passing gates 1 to 14, bring nothing new. *)
LEMMA RiskStepNothingNew ==
  ASSUME Parts, NEW e \in Evaluations,
         \/ Reject(e, "screening", ScreenGates) \/ Reject(e, "sizing", CapGates)
         \/ Reject(e, "funding", FundsGates)
         \/ GateRun(e, "screening", ScreenGates, "sizing")
  PROVE  NothingNew
<1>1. PICK to \in {"sizing", "rejected"} : stage' = [stage EXCEPT ![e] = to]
  BY DEF Reject, Decided, GateRun
<1>2. Evaluating(e) /\ UNCHANGED <<setup, signal, execVars, reconVars>>
  BY DEF Reject, Decided, GateRun, Evaluating
<1>3. to \in Stages
  BY <1>1 DEF Stages
<1>4. stage'[e] = to /\ ~Waiting(e)'
  BY <1>1, <1>2, <1>3, RiskStepEvents DEF Waiting
<1>5. /\ InFlight(e)' => InFlight(e)
      /\ NeedsRoom(e)' => NeedsRoom(e)
      /\ NeedsCash(e)' => NeedsCash(e)
  <2>1. /\ (Booking(e)' <=> Booking(e)) /\ Event(e)' = Event(e)
        /\ UNCHANGED <<posted, paid>>
    BY <1>1, <1>2, <1>3, RiskStepEvents
  <2>2. InFlight(e)
    BY <1>2 DEF InFlight
  <2>3. stage'[e] # "funding"
    BY <1>1, <1>4
  <2>4. NeedsRoom(e)' => NeedsRoom(e)
    BY <1>4, <2>1, <2>3 DEF NeedsRoom
  <2>5. NeedsCash(e)' => NeedsCash(e)
    BY <1>4, <2>1 DEF NeedsCash
  <2> QED BY <2>2, <2>4, <2>5
<1>6. UNCHANGED <<positions, balances>>
  BY <1>2 DEF reconVars
<1> QED BY <1>1, <1>2, <1>3, <1>5, <1>6, OthersUntouched DEF NothingNew

(* Submitting, answering and handing over bring nothing new: a published fill *)
(* is one whose order was waited for.                                         *)
LEMMA SubmitNothingNew ==
  ASSUME Parts, [Next]_vars, NEW e \in Evaluations, Submit(e)
  PROVE  NothingNew
<1>1. /\ stage[e] = "approved" /\ state[e] = "new"
      /\ \E to \in {"duplicate", "awaiting_book"} : state' = [state EXCEPT ![e] = to]
      /\ UNCHANGED <<setup, stage, signal, fill, reconVars>>
  BY DEF Submit, Exec!SubmitFresh, Exec!SubmitDuplicate, Exec!Called, riskVars
<1>2. state \in [Evaluations -> ExecP!States]
  BY DEF Parts, ExecP!IInv, ExecP!TypeOK
<1>3. UNCHANGED <<positions, balances, pc, applying, pending, posted, paid>>
  BY <1>1 DEF reconVars
<1> SUFFICES ASSUME NEW d \in Evaluations
             PROVE  /\ InFlight(d)' => InFlight(d)
                    /\ NeedsRoom(d)' => NeedsRoom(d)
                    /\ NeedsCash(d)' => NeedsCash(d)
  BY <1>1, <1>3 DEF NothingNew
<1>4. (Waiting(d)' => Waiting(d)) /\ (Evaluating(d)' <=> Evaluating(d))
  BY <1>1, <1>2 DEF Waiting, Evaluating
<1>5. fill[d] # None => Event(d)' = Event(d)
  BY EventsStay
<1>6. Booking(d)' => Booking(d) /\ Event(d)' = Event(d)
  BY <1>1, <1>3, <1>5 DEF Booking, Handled, Recon!Busy
<1>7. InFlight(d)' => InFlight(d)
  BY <1>4, <1>6 DEF InFlight
<1>8. NeedsRoom(d)' => NeedsRoom(d)
  BY <1>1, <1>3, <1>4, <1>6 DEF NeedsRoom
<1>9. NeedsCash(d)' => NeedsCash(d)
  BY <1>3, <1>4, <1>6 DEF NeedsCash
<1> QED BY <1>7, <1>8, <1>9

LEMMA AnswerNothingNew ==
  ASSUME Parts, [Next]_vars, NEW e \in Evaluations, Answer(e)
  PROVE  NothingNew
<1>1. state[e] = "awaiting_book" /\ UNCHANGED setup
  BY DEF Answer, Exec!BookAnswers, Exec!BookFails, riskVars
<1>2. \A d \in Evaluations : d # e => state'[d] = state[d]
  BY DEF Answer, Exec!BookAnswers, Exec!BookFails, Parts, ExecP!IInv, ExecP!TypeOK
<1>3. stage[e] = "approved"
  BY <1>1 DEF Parts, OnlyApprovedSubmitted, Submitted
<1>4. Waiting(e)
  BY <1>1, <1>3 DEF Waiting
<1>5. InFlight(e) /\ NeedsRoom(e) /\ NeedsCash(e)
  BY <1>4 DEF InFlight, NeedsRoom, NeedsCash
<1>6. UNCHANGED <<stage, signal, positions, balances, pc, applying, posted, paid>>
  BY AnswerEvents
<1>7. ASSUME NEW d \in Evaluations, d # e
      PROVE  /\ InFlight(d)' => InFlight(d)
             /\ NeedsRoom(d)' => NeedsRoom(d)
             /\ NeedsCash(d)' => NeedsCash(d)
  <2>1. (Waiting(d)' <=> Waiting(d)) /\ (Evaluating(d)' <=> Evaluating(d))
    BY <1>2, <1>6, <1>7 DEF Waiting, Evaluating
  <2>2. fill'[d] = fill[d] /\ pending' \subseteq pending \cup {Event(e)'}
    BY <1>7, AnswerEvents
  <2>3. fill[d] # None => Event(d)' = Event(d)
    BY EventsStay
  <2>4. Event(d) # Event(e)'
    BY <1>7 DEF Event
  <2>5. Booking(d)' => Booking(d) /\ Event(d)' = Event(d)
    BY <1>6, <2>2, <2>3, <2>4 DEF Booking, Handled, Recon!Busy
  <2>6. InFlight(d)' => InFlight(d)
    BY <2>1, <2>5 DEF InFlight
  <2>7. NeedsRoom(d)' => NeedsRoom(d)
    BY <1>6, <2>1, <2>5 DEF NeedsRoom
  <2>8. NeedsCash(d)' => NeedsCash(d)
    BY <1>6, <2>1, <2>5 DEF NeedsCash
  <2> QED BY <2>6, <2>7, <2>8
<1> QED BY <1>1, <1>5, <1>6, <1>7 DEF NothingNew

LEMMA HandOverNothingNew ==
  ASSUME Parts, [Next]_vars, NEW e \in Evaluations, HandOver(e)
  PROVE  NothingNew
<1>1. PICK w \in Consumers : Recon!Receive(w, Event(e))
  BY DEF HandOver
<1>2. /\ Event(e) \in pending /\ pending' \subseteq pending /\ fill[e] # None
      /\ applying' = [applying EXCEPT ![w] = Event(e)]
      /\ pc' = [pc EXCEPT ![w] = "position_read"]
      /\ UNCHANGED <<setup, stage, signal, state, fill, positions, balances, posted, paid>>
  BY <1>1 DEF HandOver, Recon!Receive, Recon!StartApply, Recon!history, Recon!stores,
              riskVars, execVars
<1>3. ASSUME NEW v \in Consumers, NEW d \in Evaluations,
             Recon!Busy(v)', applying'[v] = Event(d), fill[d] # None
      PROVE  Booking(d)
  <2>1. CASE Event(d) = Event(e)
    BY <1>2, <1>3, <2>1 DEF Booking
  <2>2. CASE Event(d) # Event(e)
    <3>1. v # w /\ Recon!Busy(v) /\ applying[v] = Event(d)
      BY <1>2, <1>3, <2>2 DEF Recon!Busy, Parts, ReconP!IInv, ReconP!TypeOK
    <3> QED BY <1>3, <3>1 DEF Booking, Handled
  <2> QED BY <2>1, <2>2
<1> QED BY <1>2, <1>3, MovingEvents

(* A fill is the answer of the book to its signal, so it has the signal's     *)
(* side and no more than its size, and costs no more than was reserved.       *)
LEMMA FillFacts ==
  ASSUME Parts, NEW e \in Evaluations, fill[e] # None
  PROVE  LET s == signal[e]
             f == fill[e]
         IN  /\ s \in SignalType /\ intent[e].side = s.side
             /\ f.size \in Nat /\ f.price \in Nat /\ f.fee \in Nat
             /\ f.size <= s.size
             /\ s.side = "buy" => f.price <= s.limit_price
             /\ FeeDen * f.fee <= f.size * f.price * FeeNum
<1>1. state[e] = "ordered" /\ intent[e] \in AllIntents
  BY EventType DEF Parts
<1>2. stage[e] = "approved" /\ intent[e] = IntentOf(e, signal[e])
  BY <1>1 DEF Parts, OnlyApprovedSubmitted, Submitted
<1>3. signal[e] \in SignalType
  BY <1>2, ApprovedIntent DEF Parts
<1>4. answer[e] \in AllBooks /\ fill[e] = ExecP!PaperFill(intent[e], answer[e])
  BY DEF Parts, ExecP!IInv, ExecP!FillsFromBooks
<1>5. fill[e] = ExecP!simulate_fill(intent[e].side, intent[e].size, intent[e].limit_price,
                                    answer[e])
  BY <1>4 DEF ExecP!PaperFill
<1>6. /\ intent[e].side \in {"buy", "sell"} /\ intent[e].size \in Nat
      /\ intent[e].limit_price \in Nat
  BY <1>1, ExecAssumptions DEF ExecP!IntentType
<1>7. answer[e] \in ExecP!BookType
  BY <1>4, ExecAssumptions
<1>8. /\ fill[e] \in ExecP!FillType
      /\ fill[e].size <= intent[e].size
      /\ intent[e].side = "buy" => fill[e].price <= intent[e].limit_price
      /\ FeeDen * fill[e].fee <= fill[e].size * fill[e].price * FeeNum
  BY <1>5, <1>6, <1>7, ExecP!FillBounds, ExecAssumptions, BoundsAssumption,
     TicksAssumption, FeeAssumption, NoneAssumption
<1> QED BY <1>2, <1>3, <1>8 DEF ExecP!FillType, IntentOf

(* The fill an apply works on is an evaluation's; before its write to a store *)
(* the approval of that evaluation still needs the store.                     *)
LEMMA HandledFill ==
  ASSUME TInv, NEW w \in Consumers, Recon!Busy(w)
  PROVE  \E e \in Evaluations :
           /\ fill[e] # None /\ applying[w] = Event(e) /\ Booking(e)
           /\ stage[e] = "approved" /\ state[e] = "ordered"
           /\ pc[w] = "position_read" => NeedsRoom(e)
           /\ pc[w] = "balance_read" => NeedsCash(e)
<1>1. PICK e \in Evaluations : fill[e] # None /\ applying[w] = Event(e)
  BY DEF TInv, EventsAreKnown, Known
<1>2. state[e] = "ordered"
  BY <1>1, EventType DEF TInv, Parts
<1>3. stage[e] = "approved"
  BY <1>2 DEF TInv, Parts, OnlyApprovedSubmitted, Submitted
<1>4. Booking(e)
  BY <1>1 DEF Booking, Handled
<1>5. /\ pc[w] = "position_read" => Event(e) \notin posted
      /\ pc[w] = "balance_read" => Event(e) \notin paid
  BY <1>1 DEF TInv, EventsMoveOn
<1> QED BY <1>1, <1>2, <1>3, <1>4, <1>5 DEF NeedsRoom, NeedsCash

(* A step of apply that writes no store brings nothing new. *)
LEMMA ReadNothingNew ==
  ASSUME Parts, [Next]_vars, NEW w \in Consumers, UNCHANGED <<riskVars, execVars>>,
         Recon!RejectFill(w) \/ Recon!ReadBalance(w) \/ Recon!Finish(w)
  PROVE  NothingNew
<1>1. /\ UNCHANGED <<positions, balances, posted, paid, pending>>
      /\ UNCHANGED <<setup, stage, signal, state, fill>>
  BY DEF Recon!RejectFill, Recon!ReadBalance, Recon!Finish, Recon!stores, Recon!queue,
         Recon!history, riskVars, execVars
<1>2. \A v \in Consumers : Recon!Busy(v)' => Recon!Busy(v) /\ applying'[v] = applying[v]
  BY DEF Recon!RejectFill, Recon!ReadBalance, Recon!Finish, Recon!Return, Recon!Busy, Parts,
         ReconP!IInv, ReconP!TypeOK
<1> QED BY <1>1, <1>2, MovingEvents DEF Booking, Handled

(* Writing the position: the fill that is booked takes no more room, and      *)
(* nobody needs what he did not need before.                                  *)
LEMMA BookedTakesNoRoom ==
  ASSUME TInv, NEW w \in Consumers, NEW e \in Evaluations, [Next]_vars,
         Recon!WritePosition(w), UNCHANGED <<riskVars, execVars>>,
         fill[e] # None, applying[w] = Event(e), stage[e] = "approved", state[e] = "ordered"
  PROVE  /\ ~NeedsRoom(e)'
         /\ \A d \in Evaluations : /\ InFlight(d)' => InFlight(d)
                                   /\ NeedsRoom(d)' => NeedsRoom(d)
                                   /\ NeedsCash(d)' => NeedsCash(d)
<1>1. /\ posted' = posted \cup {Event(e)} /\ UNCHANGED <<pending, paid, applying>>
      /\ \A v \in Consumers : Recon!Busy(v)' => Recon!Busy(v)
      /\ UNCHANGED <<setup, stage, signal, state, fill>>
  BY DEF Recon!WritePosition, Recon!queue, Recon!Busy, riskVars, execVars, TInv, Parts,
         ReconP!IInv, ReconP!TypeOK
<1>2. ASSUME NEW d \in Evaluations
      PROVE  /\ InFlight(d)' => InFlight(d)
             /\ NeedsRoom(d)' => NeedsRoom(d)
             /\ NeedsCash(d)' => NeedsCash(d)
  <2>1. (Waiting(d)' <=> Waiting(d)) /\ (Evaluating(d)' <=> Evaluating(d)) /\ stage'[d] = stage[d]
    BY <1>1 DEF Waiting, Evaluating
  <2>2. fill[d] # None => Event(d)' = Event(d)
    BY EventsStay DEF TInv
  <2>3. Booking(d)' => Booking(d) /\ Event(d)' = Event(d)
    BY <1>1, <2>2 DEF Booking, Handled
  <2>4. InFlight(d)' => InFlight(d)
    BY <2>1, <2>3 DEF InFlight
  <2>5. NeedsRoom(d)' => NeedsRoom(d)
    BY <1>1, <2>1, <2>3 DEF NeedsRoom
  <2>6. NeedsCash(d)' => NeedsCash(d)
    BY <1>1, <2>1, <2>3 DEF NeedsCash
  <2> QED BY <2>4, <2>5, <2>6
<1>3. Event(e)' \in posted'
  BY <1>1, EventsStay DEF TInv
<1>4. ~NeedsRoom(e)'
  BY <1>1, <1>3 DEF NeedsRoom, Waiting
<1> QED BY <1>2, <1>4

(* Writing the balance: the fill that is paid takes no more cash.             *)
LEMMA PaidTakesNoCash ==
  ASSUME TInv, NEW w \in Consumers, NEW e \in Evaluations, [Next]_vars,
         Recon!WriteBalance(w), UNCHANGED <<riskVars, execVars>>,
         fill[e] # None, applying[w] = Event(e), stage[e] = "approved", state[e] = "ordered"
  PROVE  /\ ~NeedsCash(e)'
         /\ \A d \in Evaluations : /\ InFlight(d)' => InFlight(d)
                                   /\ NeedsRoom(d)' => NeedsRoom(d)
                                   /\ NeedsCash(d)' => NeedsCash(d)
<1>1. /\ paid' = paid \cup {Event(e)} /\ UNCHANGED <<pending, posted>>
      /\ \A v \in Consumers : Recon!Busy(v)' => Recon!Busy(v) /\ applying'[v] = applying[v]
      /\ UNCHANGED <<setup, stage, signal, state, fill>>
  BY DEF Recon!WriteBalance, Recon!queue, Recon!Busy, riskVars, execVars, TInv, Parts, ReconP!IInv,
         ReconP!TypeOK
<1>2. ASSUME NEW d \in Evaluations
      PROVE  /\ InFlight(d)' => InFlight(d)
             /\ NeedsRoom(d)' => NeedsRoom(d)
             /\ NeedsCash(d)' => NeedsCash(d)
  <2>1. (Waiting(d)' <=> Waiting(d)) /\ (Evaluating(d)' <=> Evaluating(d)) /\ stage'[d] = stage[d]
    BY <1>1 DEF Waiting, Evaluating
  <2>2. fill[d] # None => Event(d)' = Event(d)
    BY EventsStay DEF TInv
  <2>3. Booking(d)' => Booking(d) /\ Event(d)' = Event(d)
    BY <1>1, <2>2 DEF Booking, Handled
  <2>4. InFlight(d)' => InFlight(d)
    BY <2>1, <2>3 DEF InFlight
  <2>5. NeedsRoom(d)' => NeedsRoom(d)
    BY <1>1, <2>1, <2>3 DEF NeedsRoom
  <2>6. NeedsCash(d)' => NeedsCash(d)
    BY <1>1, <2>1, <2>3 DEF NeedsCash
  <2> QED BY <2>4, <2>5, <2>6
<1>3. Event(e)' \in paid'
  BY <1>1, EventsStay DEF TInv
<1>4. ~NeedsCash(e)'
  BY <1>1, <1>3 DEF NeedsCash, Waiting
<1> QED BY <1>2, <1>4

-----------------------------------------------------------------------------
(* What gates 9, 12 and 14 say of a signal, whatever the stores hold. *)
Sound(s) == /\ price_bounds(s) /\ per_order_size_cap(s)
            /\ slippage_cap(s, setup.ctx.market)

(* An evaluation past gate 14 is of a sound signal, to the end. *)
ScreenedAreSound ==
  \A e \in Evaluations :
    stage[e] \in {"sizing", "funding", "approved"} => Sound(signal[e])

LEMMA ScreenPassed ==
  ASSUME RiskTypeOK, NEW s, \A g \in ScreenGates : Holds(g, s, Live)
  PROVE  Sound(s)
<1>1. Live.market = setup.ctx.market
  BY ScenariosAssumption DEF RiskTypeOK, ScenarioType, ContextType, Live
<1>2. /\ AllGates[9] = "price_bounds" /\ AllGates[12] = "slippage_cap"
      /\ AllGates[14] = "per_order_size_cap"
  BY DEF AllGates
<1>3. {"price_bounds", "slippage_cap", "per_order_size_cap"} \subseteq ScreenGates
  <2>1. 9 \in 1..14 /\ 12 \in 1..14 /\ 14 \in 1..14
    OBVIOUS
  <2> QED BY <1>2, <2>1 DEF ScreenGates
<1>4. /\ Decide("price_bounds", s, Live.market, Live)
      /\ Decide("slippage_cap", s, Live.market, Live)
      /\ Decide("per_order_size_cap", s, Live.market, Live)
  BY <1>3 DEF Holds
<1>5. price_bounds(s)
  BY <1>4 DEF Decide
<1>6. slippage_cap(s, Live.market)
  BY <1>4 DEF Decide
<1>7. per_order_size_cap(s)
  BY <1>4 DEF Decide
<1> QED BY <1>1, <1>5, <1>6, <1>7 DEF Sound

(* Only gates 1 to 14 let a signal reach the later ones. *)
LEMMA SoundNext == RiskTypeOK /\ ScreenedAreSound /\ [Next]_vars => ScreenedAreSound'
<1> SUFFICES ASSUME RiskTypeOK, ScreenedAreSound, [Next]_vars PROVE ScreenedAreSound'
  OBVIOUS
<1> USE DEF ScreenedAreSound
<1>0. stage \in [Evaluations -> Stages] /\ signal \in [Evaluations -> AllSignals \cup {None}]
  BY DEF RiskTypeOK
<1>s. ASSUME UNCHANGED setup, NEW s PROVE Sound(s)' <=> Sound(s)
  BY <1>s DEF Sound
<1>1. ASSUME NEW e \in Evaluations, NEW s \in setup.signals, Deliver(e, s)
      PROVE  ScreenedAreSound'
  BY <1>0, <1>1 DEF Deliver, Sound
<1>2. ASSUME NEW e \in Evaluations, GateRun(e, "screening", ScreenGates, "sizing")
      PROVE  ScreenedAreSound'
  <2>1. Sound(signal[e])
    BY <1>2, ScreenPassed DEF GateRun
  <2> QED BY <1>0, <1>2, <2>1 DEF GateRun, Sound
<1>3. ASSUME NEW e \in Evaluations, NEW to \in {"funding", "approved", "rejected"},
             stage[e] \in {"sizing", "funding"} \/ to = "rejected",
             stage' = [stage EXCEPT ![e] = to], UNCHANGED <<setup, signal>>
      PROVE  ScreenedAreSound'
  BY <1>0, <1>3 DEF Sound
<1>4. ASSUME NEW e \in Evaluations, Screen(e) \/ CheckCap(e) \/ CheckFunds(e)
      PROVE  ScreenedAreSound'
  BY <1>2, <1>3, <1>4 DEF Screen, CheckCap, CheckFunds, GateRun, Reject, Decided
<1>5. ASSUME Crash PROVE ScreenedAreSound'
  BY <1>0, <1>5 DEF Crash, Evaluating, Sound
<1>6. ASSUME UNCHANGED riskVars PROVE ScreenedAreSound'
  BY <1>6 DEF riskVars, Sound
<1>7. ASSUME NEW e \in Evaluations, Submit(e) \/ Answer(e) \/ HandOver(e)
      PROVE  UNCHANGED riskVars
  BY <1>7 DEF Submit, Answer, HandOver
<1>8. ASSUME NEW e \in Evaluations, Record(e)
      PROVE  ScreenedAreSound'
  BY <1>8 DEF Record, Sound
<1> QED BY <1>1, <1>4, <1>5, <1>6, <1>7, <1>8 DEF Next, Advance, Book, vars

LEMMA SoundInvariance == Spec => []ScreenedAreSound
<1>1. Init => ScreenedAreSound
  BY DEF Init, ScreenedAreSound
<1>2. Spec => []RiskTypeOK
  BY RiskInit, RiskNext, PTL DEF Spec
<1> QED BY <1>1, <1>2, SoundNext, PTL DEF Spec

(* The fill of an order is what the book made of its signal. *)
LEMMA FillOfSignal ==
  ASSUME Parts, NEW e \in Evaluations, fill[e] # None
  PROVE  /\ stage[e] = "approved" /\ signal[e] \in SignalType
         /\ fill[e].size = ExecP!FilledSize(signal[e].size,
                                            ExecP!Opposite(signal[e].side, answer[e]).depth)
<1>1. state[e] = "ordered"
  BY EventType DEF Parts
<1>2. stage[e] = "approved" /\ intent[e] = IntentOf(e, signal[e])
  BY <1>1 DEF Parts, OnlyApprovedSubmitted, Submitted
<1>3. signal[e] \in SignalType
  BY <1>2, ApprovedIntent DEF Parts
<1>4. fill[e] = ExecP!PaperFill(intent[e], answer[e])
  BY DEF Parts, ExecP!IInv, ExecP!FillsFromBooks
<1>5. fill[e] = ExecP!simulate_fill(signal[e].side, signal[e].size, signal[e].limit_price,
                                    answer[e])
  BY <1>2, <1>4 DEF ExecP!PaperFill, IntentOf
<1>6. fill[e].size = ExecP!FilledSize(signal[e].size,
                                      ExecP!Opposite(signal[e].side, answer[e]).depth)
  BY <1>5 DEF ExecP!simulate_fill
<1> QED BY <1>2, <1>3, <1>6

(* Gate 12 looked at the depth the order meets, so an order that meets the    *)
(* book the gates saw fills completely.                                       *)
THEOREM OrdersFillInFull == Spec => []FilledInFull
<1>1. Parts /\ ScreenedAreSound => FilledInFull
  <2> SUFFICES ASSUME Parts, ScreenedAreSound, NEW e \in Evaluations, fill[e] # None,
                      answer[e] = TopOf(setup.ctx.market)
               PROVE  fill[e].size = quantize_size(signal[e].size)
    BY DEF FilledInFull
  <2> DEFINE m == setup.ctx.market
             d == Opposite(signal[e].side, m).depth
  <2>1. stage[e] = "approved" /\ signal[e] \in SignalType
        /\ fill[e].size = ExecP!FilledSize(signal[e].size,
                                           ExecP!Opposite(signal[e].side, answer[e]).depth)
    BY FillOfSignal
  <2>2. slippage_cap(signal[e], m)
    BY <2>1 DEF ScreenedAreSound, Sound
  <2>3. m # None /\ signal[e].size <= d
    BY <2>2 DEF slippage_cap, HasMid
  <2>4. m \in SnapshotType
    BY <2>3, ScenariosAssumption DEF Parts, RiskTypeOK, ScenarioType, ContextType
  <2>5. d \in Nat /\ signal[e].size \in Nat
    BY <2>1, <2>4 DEF Opposite, SnapshotType, SignalType
  <2>6. ExecP!Opposite(signal[e].side, answer[e]).depth = d
    BY DEF ExecP!Opposite, Opposite, TopOf
  <2> HIDE DEF d
  <2>7. ExecP!Smaller(signal[e].size, d) = signal[e].size
    BY <2>3, <2>5 DEF ExecP!Smaller
  <2> QED BY <2>1, <2>6, <2>7 DEF ExecP!FilledSize, ExecP!quantize_size, ExecP!RoundDown,
                               quantize_size, RoundDown
<1> QED BY <1>1, PartsInvariance, SoundInvariance, PTL

-----------------------------------------------------------------------------
(* Any number of signals in flight.                                           *)
(* No more signals are in flight than the deployment has lanes for.           *)
LanesKept == Cardinality({d \in Evaluations : InFlight(d)}) <= setup.lanes

LEMMA EvaluationsFinite ==
  /\ IsFiniteSet(Evaluations)
  /\ \A S \in SUBSET Evaluations : IsFiniteSet(S) /\ Cardinality(S) \in Nat
<1>1. IsFiniteSet(Evaluations)
  BY BoundsAssumption, FS_Interval DEF Evaluations
<1> QED BY <1>1, FS_Subset, FS_CardinalityType

(* What the orders that gate 15, or gate 18, let pass can still take.         *)
RoomTaken(side) ==
  [d \in Evaluations |-> IF NeedsRoom(d) /\ signal[d].side = side THEN signal[d].size ELSE 0]
Cost(s) == s.size * s.limit_price * (FeeDen + FeeNum)
CashTaken ==
  [d \in Evaluations |-> IF NeedsCash(d) /\ signal[d].side = "buy" THEN Cost(signal[d]) ELSE 0]
Total(f) == SumFunctionOnSet(f, Evaluations)

DearestOrder == Config.max_size * Config.price_max * (FeeDen + FeeNum)
PositionLimit ==
  Larger(Config.max_abs_position, Distance(setup.ctx.position, 0))
    + (setup.lanes - 1) * Config.max_size

(* The stores stay within their limits even when all that can still be taken  *)
(* is taken.                                                                  *)
Ahead(side) == IF side = "buy" THEN positions[Key].size ELSE -positions[Key].size
RoomFor(side) == Ahead(side) + Total(RoomTaken(side)) <= PositionLimit
RoomReserved == \A side \in {"buy", "sell"} : RoomFor(side)
CashReserved ==
  FeeNum <= FeeDen =>
    Total(CashTaken) <= FeeDen * balances[User] + (setup.lanes - 1) * DearestOrder

LInv == TInv /\ ScreenedAreSound /\ LanesKept /\ RoomReserved /\ CashReserved

(* Whoever needs room or cash is an approved or nearly approved evaluation of *)
(* a sound signal, and in flight.                                             *)
LEMMA NeedyAreSound ==
  ASSUME Parts, ScreenedAreSound, NEW d \in Evaluations, NeedsRoom(d) \/ NeedsCash(d)
  PROVE  /\ InFlight(d) /\ stage[d] \in {"funding", "approved"}
         /\ signal[d] \in SignalType /\ Sound(signal[d])
<1>1. Booking(d) => stage[d] = "approved"
  BY EventType DEF Parts, Booking, OnlyApprovedSubmitted, Submitted
<1>2. InFlight(d) /\ stage[d] \in {"funding", "approved"}
  BY <1>1 DEF NeedsRoom, NeedsCash, InFlight, Waiting, Evaluating
<1>3. signal[d] \in SignalType
  BY <1>2, ApprovedIntent DEF Parts
<1> QED BY <1>2, <1>3 DEF ScreenedAreSound

(* A sound signal takes at most a maximal order's size, and at most the cost  *)
(* of the dearest order.                                                      *)
LEMMA SoundTakes ==
  ASSUME NEW s \in SignalType, Sound(s)
  PROVE  /\ s.size \in Nat /\ s.size <= Config.max_size
         /\ Cost(s) \in Nat /\ Cost(s) <= DearestOrder
<1> DEFINE q == s.size
           p == s.limit_price
           M == Config.max_size
           P == Config.price_max
           F == FeeDen + FeeNum
<1>1. q \in Nat /\ p \in Nat /\ M \in Nat /\ P \in Nat /\ F \in Nat
  BY ConfigAssumption, FeeAssumption DEF SignalType, ConfigType
<1>2. q <= M /\ p <= P
  BY DEF Sound, per_order_size_cap, price_bounds
<1>3. Cost(s) = q * p * F /\ DearestOrder = M * P * F
  BY DEF Cost, DearestOrder
<1> HIDE DEF q, p, M, P, F
<1>4. q * p \in Nat /\ M * P \in Nat /\ q * p <= M * P
  <2>1. q * p <= M * p
    <3>1. M - q \in Nat
      BY <1>1, <1>2
    <3>2. (M - q) * p \in Nat /\ M * p = q * p + (M - q) * p /\ q * p \in Nat
      BY <1>1, <3>1
    <3> QED BY <3>2
  <2>2. M * p <= M * P
    <3>1. P - p \in Nat
      BY <1>1, <1>2
    <3>2. M * (P - p) \in Nat /\ M * P = M * p + M * (P - p) /\ M * p \in Nat
      BY <1>1, <3>1
    <3> QED BY <3>2
  <2>3. q * p \in Nat /\ M * p \in Nat /\ M * P \in Nat
    BY <1>1
  <2> QED BY <2>1, <2>2, <2>3
<1> DEFINE a == q * p
           b == M * P
<1>5. a * F <= b * F /\ a * F \in Nat
  <2>1. a \in Nat /\ b \in Nat /\ a <= b
    BY <1>4
  <2> HIDE DEF a, b
  <2>2. b - a \in Nat
    BY <2>1
  <2>3. (b - a) * F \in Nat /\ b * F = a * F + (b - a) * F /\ a * F \in Nat
    BY <1>1, <2>1, <2>2
  <2> QED BY <2>3
<1> QED BY <1>1, <1>2, <1>3, <1>5 DEF q, M

(* The terms of the three totals. *)
LEMMA Terms ==
  ASSUME Parts, ScreenedAreSound, NEW d \in Evaluations
  PROVE  /\ \A side : RoomTaken(side)[d] \in Nat /\ RoomTaken(side)[d] <= Config.max_size
         /\ \A side : RoomTaken(side)[d] # 0 => InFlight(d)
         /\ CashTaken[d] \in Nat /\ CashTaken[d] <= DearestOrder
         /\ CashTaken[d] # 0 => InFlight(d)
<1>0. Config.max_size \in Nat /\ DearestOrder \in Nat
  <2>1. Config.max_size \in Nat /\ Config.price_max \in Nat /\ FeeDen + FeeNum \in Nat
    BY ConfigAssumption, FeeAssumption DEF ConfigType
  <2> HIDE DEF ConfigType
  <2>2. \A i, j, k \in Nat : i * j * k \in Nat
    OBVIOUS
  <2> QED BY <2>1, <2>2 DEF DearestOrder
<1>1. ASSUME NEW side
      PROVE  /\ RoomTaken(side)[d] \in Nat /\ RoomTaken(side)[d] <= Config.max_size
             /\ RoomTaken(side)[d] # 0 => InFlight(d)
  <2>1. CASE NeedsRoom(d) /\ signal[d].side = side
    BY <2>1, NeedyAreSound, SoundTakes DEF RoomTaken
  <2>2. CASE ~(NeedsRoom(d) /\ signal[d].side = side)
    BY <1>0, <2>2 DEF RoomTaken
  <2> QED BY <2>1, <2>2
<1>2. /\ CashTaken[d] \in Nat /\ CashTaken[d] <= DearestOrder
      /\ CashTaken[d] # 0 => InFlight(d)
  <2>1. CASE NeedsCash(d) /\ signal[d].side = "buy"
    BY <2>1, NeedyAreSound, SoundTakes DEF CashTaken
  <2>2. CASE ~(NeedsCash(d) /\ signal[d].side = "buy")
    BY <1>0, <2>2 DEF CashTaken
  <2> QED BY <2>1, <2>2
<1> QED BY <1>1, <1>2

(* When terms only fall away, the total falls by as much. *)
LEMMA TotalShrinks ==
  ASSUME NEW f, NEW g,
         \A d \in Evaluations : f[d] \in Nat /\ g[d] \in {0, f[d]}
  PROVE  /\ Total(f) \in Nat /\ Total(g) \in Nat /\ Total(g) <= Total(f)
         /\ \A e \in Evaluations : g[e] = 0 => Total(g) + f[e] <= Total(f)
<1>1. \A d \in Evaluations : /\ f[d] \in Nat /\ g[d] \in Nat /\ f[d] \in Int /\ g[d] \in Int
                             /\ g[d] <= f[d]
  OBVIOUS
<1>2. Total(f) \in Nat /\ Total(g) \in Nat
  BY <1>1, EvaluationsFinite, SumNat DEF Total
<1>3. Total(g) <= Total(f)
  BY <1>1, EvaluationsFinite, SumGrows DEF Total
<1>4. ASSUME NEW e \in Evaluations, g[e] = 0 PROVE Total(g) + f[e] <= Total(f)
  <2> DEFINE R == Evaluations \ {e}
             F == SumFunctionOnSet(f, R)
             G == SumFunctionOnSet(g, R)
  <2>1. IsFiniteSet(R)
    BY EvaluationsFinite
  <2>2. \A d \in R : f[d] \in Int /\ g[d] \in Int /\ g[d] <= f[d]
    BY <1>1
  <2>3. F \in Int /\ G \in Int /\ G <= F
    <3> HIDE DEF R
    <3> QED BY <2>1, <2>2, SumInt, SumGrows
  <2>4. Total(f) = f[e] + F /\ Total(g) = g[e] + G
    BY <1>1, EvaluationsFinite, SumRemove DEF Total
  <2>5. f[e] \in Int
    BY <1>1
  <2> HIDE DEF F, G
  <2> QED BY <1>4, <2>3, <2>4, <2>5
<1> QED BY <1>2, <1>3, <1>4

(* If an evaluation in flight takes its share, the others that are in flight  *)
(* take at most the largest share each.                                       *)
LEMMA TotalOfOthers ==
  ASSUME RiskTypeOK, LanesKept, NEW e \in Evaluations, InFlight(e), NEW m \in Nat, NEW f,
         \A d \in Evaluations : f[d] \in Nat,
         \A d \in Evaluations : d # e => f[d] <= m /\ (f[d] # 0 => InFlight(d))
  PROVE  Total(f) \in Nat /\ Total(f) <= f[e] + (setup.lanes - 1) * m
<1> DEFINE R == Evaluations \ {e}
           Flying == {d \in Evaluations : InFlight(d)}
           k == setup.lanes - 1
           Some == {x \in R : f[x] # 0}
<1>1. setup.lanes \in Nat \ {0}
  BY ScenariosAssumption DEF RiskTypeOK, ScenarioType
<1>2. k \in Nat
  BY <1>1
<1>3. IsFiniteSet(R) /\ IsFiniteSet(Flying)
  BY EvaluationsFinite
<1>4. Cardinality(Flying \ {e}) = Cardinality(Flying) - 1 /\ IsFiniteSet(Flying \ {e})
  <2>1. e \in Flying
    OBVIOUS
  <2> HIDE DEF Flying
  <2> QED BY <1>3, <2>1, FS_RemoveElement
<1>5. Some \subseteq Flying \ {e}
  OBVIOUS
<1>6. Cardinality(Some) <= Cardinality(Flying \ {e})
  <2> HIDE DEF Some, Flying
  <2> QED BY <1>4, <1>5, FS_Subset
<1>7. Cardinality(Some) \in Nat /\ Cardinality(Flying) \in Nat
  BY EvaluationsFinite
<1>8. Cardinality(Some) <= k
  <2>1. Cardinality(Flying) <= setup.lanes
    BY DEF LanesKept
  <2> HIDE DEF Some, Flying
  <2> QED BY <1>1, <1>4, <1>6, <1>7, <2>1
<1>9. \A x \in R : f[x] \in Nat /\ f[x] <= m
  OBVIOUS
<1>10. SumFunctionOnSet(f, R) <= k * m /\ SumFunctionOnSet(f, R) \in Nat
  <2> HIDE DEF R, k
  <2> QED BY <1>2, <1>3, <1>8, <1>9, SumOfFew, SumNat
<1>11. Total(f) = f[e] + SumFunctionOnSet(f, R)
  BY EvaluationsFinite, SumRemove DEF Total
<1>12. k * m \in Nat /\ f[e] \in Nat
  BY <1>2
<1> HIDE DEF R
<1> QED BY <1>10, <1>11, <1>12

(* The limits are numbers. *)
LEMMA LimitTypes ==
  ASSUME Parts
  PROVE  /\ PositionLimit \in Int /\ positions[Key].size \in Int
         /\ balances[User] \in Int /\ FeeDen * balances[User] \in Int
         /\ Config.max_size \in Nat /\ DearestOrder \in Nat
         /\ (setup.lanes - 1) * Config.max_size \in Nat
         /\ (setup.lanes - 1) * DearestOrder \in Nat
         /\ Larger(Config.max_abs_position, Distance(setup.ctx.position, 0)) \in Int
         /\ Config.max_abs_position
              <= Larger(Config.max_abs_position, Distance(setup.ctx.position, 0))
<1>1. setup.lanes - 1 \in Nat
  BY ScenariosAssumption DEF Parts, RiskTypeOK, ScenarioType
<1>2. positions[Key].size \in Int /\ balances[User] \in Int
  BY DEF Parts, ReconP!IInv, ReconP!TypeOK, ReconP!Keys, ReconP!PositionType, Key
<1>3. FeeDen * balances[User] \in Int
  BY <1>2, FeeAssumption
<1>4. Config.max_size \in Nat /\ Config.price_max \in Nat /\ FeeDen + FeeNum \in Nat
      /\ Config.max_abs_position \in Nat
  BY ConfigAssumption, FeeAssumption DEF ConfigType
<1>5. DearestOrder \in Nat
  <2>1. \A i, j, k \in Nat : i * j * k \in Nat
    OBVIOUS
  <2> QED BY <1>4, <2>1 DEF DearestOrder
<1>6. setup.ctx.position \in Int
  BY ScenariosAssumption DEF Parts, RiskTypeOK, ScenarioType, ContextType
<1>7. /\ Larger(Config.max_abs_position, Distance(setup.ctx.position, 0)) \in Int
      /\ Config.max_abs_position
           <= Larger(Config.max_abs_position, Distance(setup.ctx.position, 0))
  BY <1>4, <1>6 DEF Larger, Distance
<1>8. \A i, j \in Nat : i * j \in Nat
  OBVIOUS
<1>9. (setup.lanes - 1) * Config.max_size \in Nat /\ (setup.lanes - 1) * DearestOrder \in Nat
  BY <1>1, <1>4, <1>5, <1>8
<1> QED BY <1>2, <1>3, <1>4, <1>5, <1>7, <1>9 DEF PositionLimit

(* A step that leaves the position alone and lets nobody take more keeps the  *)
(* room, and likewise the cash.                                               *)
LEMMA RoomShrinks ==
  ASSUME LInv, UNCHANGED <<setup, positions>>, NEW side \in {"buy", "sell"},
         \A d \in Evaluations : RoomTaken(side)'[d] \in {0, RoomTaken(side)[d]}
  PROVE  RoomFor(side)'
<1>1. Parts /\ ScreenedAreSound /\ RoomFor(side)
  BY DEF LInv, TInv, RoomReserved
<1> DEFINE f == RoomTaken(side)
           g == RoomTaken(side)'
<1>2. \A d \in Evaluations : f[d] \in Nat /\ g[d] \in {0, f[d]}
  BY <1>1, Terms
<1> HIDE DEF f, g
<1>3. Total(f) \in Nat /\ Total(g) \in Nat /\ Total(g) <= Total(f)
  BY <1>2, TotalShrinks
<1>4. Total(RoomTaken(side))' = Total(g) /\ Total(RoomTaken(side)) = Total(f)
  BY DEF f, g, Total
<1>5. PositionLimit \in Int /\ Ahead(side) \in Int
  BY <1>1, LimitTypes DEF Ahead
<1>6. PositionLimit' = PositionLimit /\ Ahead(side)' = Ahead(side)
  BY DEF PositionLimit, Ahead
<1>7. Ahead(side) + Total(g) <= PositionLimit
  BY <1>1, <1>3, <1>4, <1>5 DEF RoomFor
<1> QED BY <1>4, <1>6, <1>7 DEF RoomFor

LEMMA CashShrinks ==
  ASSUME LInv, UNCHANGED <<setup, balances>>,
         \A d \in Evaluations : CashTaken'[d] \in {0, CashTaken[d]}
  PROVE  CashReserved'
<1>1. Parts /\ ScreenedAreSound /\ CashReserved
  BY DEF LInv, TInv
<1> DEFINE f == CashTaken
           g == CashTaken'
<1>2. \A d \in Evaluations : f[d] \in Nat /\ g[d] \in {0, f[d]}
  BY <1>1, Terms
<1> HIDE DEF f, g
<1>3. Total(f) \in Nat /\ Total(g) \in Nat /\ Total(g) <= Total(f)
  BY <1>2, TotalShrinks
<1>4. Total(CashTaken)' = Total(g) /\ Total(CashTaken) = Total(f)
  BY DEF f, g, Total
<1>5. FeeDen * balances[User] \in Int /\ (setup.lanes - 1) * DearestOrder \in Int
  BY <1>1, LimitTypes
<1>6. DearestOrder' = DearestOrder
  BY DEF DearestOrder
<1> QED BY <1>1, <1>3, <1>4, <1>5, <1>6 DEF CashReserved

LEMMA LanesShrink ==
  ASSUME RiskTypeOK, LanesKept, UNCHANGED setup, \A d \in Evaluations : InFlight(d)' => InFlight(d)
  PROVE  LanesKept'
<1> DEFINE F == {d \in Evaluations : InFlight(d)}
           G == {d \in Evaluations : InFlight(d)'}
<1>1. G \subseteq F /\ IsFiniteSet(F) /\ Cardinality(F) \in Nat /\ Cardinality(G) \in Nat
  BY EvaluationsFinite
<1>2. Cardinality(G) <= Cardinality(F)
  <2> HIDE DEF F, G
  <2> QED BY <1>1, FS_Subset
<1>3. Cardinality(F) <= setup.lanes
  BY DEF LanesKept
<1>4. setup.lanes \in Nat
  BY ScenariosAssumption DEF RiskTypeOK, ScenarioType
<1>5. Cardinality(G) <= setup.lanes
  <2> HIDE DEF F, G
  <2> QED BY <1>1, <1>2, <1>3, <1>4
<1> QED BY <1>5 DEF LanesKept

Reserved == LanesKept /\ RoomReserved /\ CashReserved

(* A step that brings nothing new keeps what is reserved.                     *)
LEMMA ReservedWithoutNews == LInv /\ NothingNew => Reserved'
<1> SUFFICES ASSUME LInv, NothingNew PROVE Reserved'
  OBVIOUS
<1>1. LanesKept'
  BY LanesShrink DEF NothingNew, LInv, TInv, Parts
<1>2. ASSUME NEW side \in {"buy", "sell"}, NEW d \in Evaluations
      PROVE  RoomTaken(side)'[d] \in {0, RoomTaken(side)[d]}
  BY DEF NothingNew, RoomTaken
<1>3. ASSUME NEW d \in Evaluations
      PROVE  CashTaken'[d] \in {0, CashTaken[d]}
  BY DEF NothingNew, CashTaken, Cost
<1>4. RoomReserved' /\ CashReserved'
  BY <1>2, <1>3, RoomShrinks, CashShrinks DEF NothingNew, RoomReserved
<1> QED BY <1>1, <1>4 DEF Reserved

(* A new evaluation is one more in flight, of at most as many as there are    *)
(* lanes, and takes nothing yet.                                              *)
LEMMA ReservedOnDelivery ==
  ASSUME LInv, NEW e \in Evaluations, NEW s \in setup.signals, Deliver(e, s)
  PROVE  Reserved'
<1>1. Parts /\ signal \in [Evaluations -> AllSignals \cup {None}]
  BY DEF LInv, TInv, Parts, RiskTypeOK
<1>2. /\ stage' = [stage EXCEPT ![e] = "screening"] /\ UNCHANGED <<setup, execVars, reconVars>>
      /\ stage[e] = "new" /\ signal' = [signal EXCEPT ![e] = s] /\ "screening" \in Stages
  BY DEF Deliver, Stages
<1>3. ~Booking(e) /\ ~Waiting(e)
  BY <1>1, <1>2, EventType DEF Parts, OnlyApprovedSubmitted, Submitted, Booking, Waiting
<1>4. ~NeedsRoom(e)' /\ ~NeedsCash(e)'
  <2>1. stage'[e] = "screening" /\ (Booking(e)' <=> Booking(e))
    BY <1>1, <1>2, RiskStepEvents
  <2> QED BY <1>3, <2>1 DEF NeedsRoom, NeedsCash, Waiting
<1>5. \A d \in Evaluations : d # e => /\ (InFlight(d)' <=> InFlight(d))
                                      /\ (NeedsRoom(d)' <=> NeedsRoom(d))
                                      /\ (NeedsCash(d)' <=> NeedsCash(d))
  BY <1>1, <1>2, OthersUntouched
<1>6. \A d \in Evaluations : d # e => signal'[d] = signal[d]
  BY <1>1, <1>2
<1>7. \A side \in {"buy", "sell"}, d \in Evaluations :
        RoomTaken(side)'[d] \in {0, RoomTaken(side)[d]}
  BY <1>4, <1>5, <1>6 DEF RoomTaken
<1>8. \A d \in Evaluations : CashTaken'[d] \in {0, CashTaken[d]}
  BY <1>4, <1>5, <1>6 DEF CashTaken, Cost
<1>9. UNCHANGED <<setup, positions, balances>>
  BY <1>2 DEF reconVars
<1>10. RoomReserved' /\ CashReserved'
  BY <1>7, <1>8, <1>9, RoomShrinks, CashShrinks DEF RoomReserved
<1>11. LanesKept'
  <2> DEFINE F == {d \in Evaluations : InFlight(d)}
             G == {d \in Evaluations : InFlight(d)'}
  <2>1. G \subseteq F \cup {e} /\ IsFiniteSet(F) /\ IsFiniteSet(F \cup {e})
    BY <1>5, EvaluationsFinite
  <2>2. Cardinality(F) \in Nat /\ Cardinality(G) \in Nat /\ Cardinality(F) < setup.lanes
        /\ setup.lanes \in Nat
    BY <1>1, EvaluationsFinite, ScenariosAssumption
    DEF Deliver, Parts, RiskTypeOK, ScenarioType
  <2>3. e \notin F
    BY <1>2, <1>3 DEF InFlight, Evaluating
  <2>4. Cardinality(F \cup {e}) = Cardinality(F) + 1 /\ Cardinality(G) <= Cardinality(F \cup {e})
    <3> HIDE DEF F, G
    <3> QED BY <2>1, <2>3, FS_AddElement, FS_Subset
  <2>5. Cardinality(G) <= setup.lanes
    <3> HIDE DEF F, G
    <3> QED BY <2>2, <2>4
  <2> QED BY <1>2, <2>5 DEF LanesKept
<1> QED BY <1>10, <1>11 DEF Reserved

(* What a passed gate says of the signal next to what is reserved already.    *)
LEMMA ReservedAtGates ==
  ASSUME LInv, NEW e \in Evaluations,
         \/ GateRun(e, "sizing", CapGates, "funding")
         \/ /\ stage[e] = "funding"
            /\ \A g \in FundsGates : Holds(g, signal[e], Live)
            /\ Decided(e, "approved")
  PROVE  Reserved'
<1>0. Parts /\ ScreenedAreSound /\ LanesKept /\ RoomReserved /\ CashReserved /\ RiskTypeOK
  BY DEF LInv, TInv, Parts
<1>1. PICK to \in {"funding", "approved"} :
        /\ stage' = [stage EXCEPT ![e] = to]
        /\ to = "funding" => stage[e] = "sizing" /\ \A g \in CapGates : Holds(g, signal[e], Live)
        /\ to = "approved" => stage[e] = "funding"
                              /\ \A g \in FundsGates : Holds(g, signal[e], Live)
  BY DEF GateRun, Decided
<1>2. UNCHANGED <<setup, signal, execVars, reconVars>>
  BY DEF GateRun, Decided
<1>3. to \in Stages
  BY <1>1 DEF Stages
<1>4. \A d \in Evaluations : d # e => /\ (InFlight(d)' <=> InFlight(d))
                                      /\ (NeedsRoom(d)' <=> NeedsRoom(d))
                                      /\ (NeedsCash(d)' <=> NeedsCash(d))
  BY <1>0, <1>1, <1>2, <1>3, OthersUntouched
<1>5. Evaluating(e) /\ InFlight(e)
  BY <1>1 DEF Evaluating, InFlight
<1>6. UNCHANGED <<positions, balances>>
  BY <1>2 DEF reconVars
<1>7. LanesKept'
  BY <1>0, <1>2, <1>4, <1>5, LanesShrink
<1>8. ~Booking(e) /\ ~Waiting(e)
  BY <1>0, <1>1, EventType DEF Parts, OnlyApprovedSubmitted, Submitted, Booking, Waiting
<1>9. Sound(signal[e]) /\ signal[e] \in SignalType
  BY <1>0, <1>1, ApprovedIntent DEF ScreenedAreSound
<1>10. stage'[e] = to /\ (Booking(e)' <=> Booking(e))
  BY <1>0, <1>1, <1>2, <1>3, RiskStepEvents
<1>11. ASSUME to = "funding" PROVE RoomReserved' /\ CashReserved'
  <2>1. ~NeedsCash(e)'
    BY <1>8, <1>10, <1>11 DEF NeedsCash, Waiting
  <2>2. \A d \in Evaluations : CashTaken'[d] \in {0, CashTaken[d]}
    BY <1>2, <1>4, <2>1 DEF CashTaken, Cost
  <2>3. CashReserved'
    BY <1>2, <1>6, <2>2, CashShrinks
  <2>4. HasRoom(e)
    BY <1>0, <1>1, <1>11, CapPassed
  <2>5. ASSUME NEW side \in {"buy", "sell"}, signal[e].side # side
        PROVE  RoomFor(side)'
    <3>1. \A d \in Evaluations : RoomTaken(side)'[d] \in {0, RoomTaken(side)[d]}
      BY <1>2, <1>4, <2>5 DEF RoomTaken
    <3> QED BY <1>2, <1>6, <3>1, RoomShrinks
  <2>6. ASSUME NEW side \in {"buy", "sell"}, signal[e].side = side
        PROVE  RoomFor(side)'
    <3> DEFINE f == RoomTaken(side)'
               m == Config.max_size
               s == signal[e].size
    <3>1. NeedsRoom(e)'
      BY <1>10, <1>11 DEF NeedsRoom
    <3>2. f[e] = s
      BY <1>2, <2>6, <3>1 DEF RoomTaken
    <3>3. ASSUME NEW d \in Evaluations, d # e PROVE f[d] = RoomTaken(side)[d]
      BY <1>2, <1>4, <3>3 DEF RoomTaken
    <3>4. \A d \in Evaluations : d # e => /\ f[d] \in Nat /\ f[d] <= m
                                          /\ f[d] # 0 => InFlight(d)
      BY <1>0, <3>3, Terms
    <3>5. s \in Nat /\ m \in Nat
      BY <1>0, <1>9, SoundTakes, LimitTypes
    <3>6. Ahead(side) + s <= Config.max_abs_position /\ Ahead(side) \in Int
      BY <1>0, <2>4, <2>6, <3>5, LimitTypes, ConfigAssumption
      DEF HasRoom, SignedSize, Distance, Ahead, ConfigType
    <3>7. PositionLimit' = PositionLimit /\ Ahead(side)' = Ahead(side)
      BY <1>2, <1>6 DEF PositionLimit, Ahead
    <3>8. Total(RoomTaken(side))' = Total(f)
      BY DEF Total
    <3>9. Config.max_abs_position + (setup.lanes - 1) * m <= PositionLimit
      BY <1>0, LimitTypes, ConfigAssumption DEF PositionLimit, ConfigType
    <3> DEFINE k == (setup.lanes - 1) * m
    <3>10. k \in Nat /\ PositionLimit \in Int /\ Config.max_abs_position \in Int
      BY <1>0, LimitTypes, ConfigAssumption DEF ConfigType
    <3> HIDE DEF f, s
    <3>11. Total(f) \in Nat /\ Total(f) <= s + k
      BY <1>0, <1>5, <3>2, <3>4, <3>5, TotalOfOthers
    <3> HIDE DEF k
    <3>12. Ahead(side) + Total(f) <= PositionLimit
      BY <3>5, <3>6, <3>9, <3>10, <3>11 DEF k
    <3> QED BY <3>7, <3>8, <3>12 DEF RoomFor
  <2> QED BY <2>3, <2>5, <2>6 DEF RoomReserved
<1>12. ASSUME to = "approved" PROVE RoomReserved' /\ CashReserved'
  <2>1. NeedsRoom(e)
    BY <1>1, <1>12 DEF NeedsRoom
  <2>2. \A side \in {"buy", "sell"}, d \in Evaluations :
          RoomTaken(side)'[d] \in {0, RoomTaken(side)[d]}
    BY <1>2, <1>4, <2>1 DEF RoomTaken
  <2>3. RoomReserved'
    BY <1>2, <1>6, <2>2, RoomShrinks DEF RoomReserved
  <2>4. HasCash(e)
    BY <1>0, <1>1, <1>12, FundsPassed
  <2>5. CASE signal[e].side # "buy"
    <3>1. \A d \in Evaluations : CashTaken'[d] \in {0, CashTaken[d]}
      BY <1>2, <1>4, <2>5 DEF CashTaken, Cost
    <3> QED BY <1>2, <1>6, <2>3, <3>1, CashShrinks
  <2>6. CASE signal[e].side = "buy"
    <3> DEFINE f == CashTaken'
               m == DearestOrder
               c == Cost(signal[e])
               k == (setup.lanes - 1) * m
    <3>1. f[e] \in {0, c}
      BY <1>2 DEF CashTaken, Cost
    <3>2. ASSUME NEW d \in Evaluations, d # e PROVE f[d] = CashTaken[d]
      BY <1>2, <1>4, <3>2 DEF CashTaken, Cost
    <3>3. \A d \in Evaluations : d # e => /\ f[d] \in Nat /\ f[d] <= m
                                          /\ f[d] # 0 => InFlight(d)
      BY <1>0, <3>2, Terms
    <3>4. c \in Nat /\ m \in Nat /\ k \in Nat /\ FeeDen * balances[User] \in Int
      BY <1>0, <1>9, SoundTakes, LimitTypes
    <3>5. c <= FeeDen * balances[User]
      <4>1. balances[User] * FeeDen = FeeDen * balances[User]
        BY <1>0, LimitTypes, FeeAssumption
      <4> QED BY <2>4, <2>6, <4>1 DEF HasCash, Cost
    <3>6. Total(CashTaken)' = Total(f)
      BY DEF Total
    <3>7. DearestOrder' = DearestOrder
      BY DEF DearestOrder
    <3> HIDE DEF f, c, m
    <3>8. Total(f) \in Nat /\ Total(f) <= f[e] + k
      BY <1>0, <1>5, <3>1, <3>3, <3>4, TotalOfOthers
    <3> HIDE DEF k
    <3>9. Total(f) <= FeeDen * balances[User] + k
      BY <3>1, <3>4, <3>5, <3>8
    <3>10. CashReserved'
      BY <1>2, <1>6, <3>6, <3>7, <3>9 DEF CashReserved, k, m
    <3> QED BY <2>3, <3>10
  <2> QED BY <2>5, <2>6
<1> QED BY <1>7, <1>11, <1>12 DEF Reserved

(* What the position write does: the fill is added to the position as it is.  *)
LEMMA PositionWritten ==
  ASSUME TInv, NEW w \in Consumers, Recon!WritePosition(w),
         NEW e \in Evaluations, fill[e] # None, applying[w] = Event(e)
  PROVE  positions'[Key].size
           = positions[Key].size + (IF signal[e].side = "buy" THEN fill[e].size
                                                              ELSE -fill[e].size)
<1>1. /\ positions \in [ReconP!Keys -> ReconP!PositionType] /\ Key \in ReconP!Keys
      /\ pc[w] = "position_read" => prior[w] = positions[ReconP!KeyOf(applying[w])]
  BY DEF TInv, Parts, ReconP!IInv, ReconP!TypeOK, ReconP!NoStaleRead, ReconP!Keys, Key
<1>2. Recon!KeyOf(applying[w]) = Key /\ ReconP!KeyOf(applying[w]) = Key
  BY DEF Event, Recon!KeyOf, ReconP!KeyOf, Key
<1>3. positions'[Key].size = Recon!ApplyFillToPosition(prior[w], applying[w]).size
  BY <1>1, <1>2 DEF Recon!WritePosition
<1>4. Recon!ApplyFillToPosition(prior[w], applying[w]).size
        = prior[w].size + Recon!SignedFill(applying[w])
  BY DEF Recon!ApplyFillToPosition, Recon!CostAverage, Recon!Reduce
<1>5. Recon!SignedFill(applying[w]) = (IF signal[e].side = "buy" THEN fill[e].size
                                                                 ELSE -fill[e].size)
  BY FillFacts DEF Recon!SignedFill, Event, TInv
<1> QED BY <1>1, <1>2, <1>3, <1>4, <1>5 DEF Recon!WritePosition

(* What the balance write does. *)
LEMMA BalanceWritten ==
  ASSUME TInv, NEW w \in Consumers, Recon!WriteBalance(w),
         NEW e \in Evaluations, fill[e] # None, applying[w] = Event(e)
  PROVE  LET cost == fill[e].size * fill[e].price
         IN  balances'[User]
               = IF signal[e].side = "buy" THEN balances[User] - cost - fill[e].fee
                                           ELSE balances[User] + cost - fill[e].fee
<1>1. balances \in [{User} -> Int] /\ priorBalance[w] = balances[User]
  BY DEF TInv, Parts, ReconP!IInv, ReconP!TypeOK, ReconP!NoStaleRead, Recon!WriteBalance, Event
<1>2. balances'[User] = Recon!ApplyFillToBalance(balances[User], Event(e))
  BY <1>1 DEF Recon!WriteBalance, Event
<1>3. intent[e].side = signal[e].side
  BY FillFacts DEF TInv
<1> QED BY <1>2, <1>3 DEF Recon!ApplyFillToBalance, Event

(* The position moves by no more than the room its fill held.                 *)
LEMMA ReservedOnPosition ==
  ASSUME LInv, NEW w \in Consumers, [Next]_vars, Recon!WritePosition(w),
         UNCHANGED <<riskVars, execVars>>
  PROVE  Reserved'
<1>0. TInv /\ Parts /\ RiskTypeOK /\ ScreenedAreSound /\ LanesKept /\ RoomReserved
  BY DEF LInv, TInv, Parts
<1>1. /\ Recon!Busy(w) /\ pc[w] = "position_read" /\ UNCHANGED <<setup, signal, balances>>
  BY DEF Recon!WritePosition, Recon!Busy, riskVars
<1>2. PICK e \in Evaluations :
        /\ fill[e] # None /\ applying[w] = Event(e) /\ NeedsRoom(e)
        /\ stage[e] = "approved" /\ state[e] = "ordered"
  BY <1>0, <1>1, HandledFill
<1>3. /\ ~NeedsRoom(e)'
      /\ \A d \in Evaluations : /\ InFlight(d)' => InFlight(d)
                                /\ NeedsRoom(d)' => NeedsRoom(d)
                                /\ NeedsCash(d)' => NeedsCash(d)
  BY <1>0, <1>2, BookedTakesNoRoom
<1>4. LanesKept'
  BY <1>0, <1>1, <1>3, LanesShrink
<1>5. CashReserved'
  <2>1. \A d \in Evaluations : CashTaken'[d] \in {0, CashTaken[d]}
    BY <1>1, <1>3 DEF CashTaken, Cost
  <2> QED BY <1>1, <2>1, CashShrinks
<1>6. /\ signal[e].size \in Nat /\ signal[e].side \in {"buy", "sell"}
      /\ fill[e].size \in Nat /\ fill[e].size <= signal[e].size
  BY <1>0, <1>2, FillFacts DEF SignalType
<1>7. positions'[Key].size
        = positions[Key].size + (IF signal[e].side = "buy" THEN fill[e].size
                                                           ELSE -fill[e].size)
  BY <1>0, <1>2, PositionWritten
<1>8. ASSUME NEW side \in {"buy", "sell"} PROVE RoomFor(side)'
  <2> DEFINE f == RoomTaken(side)
             g == RoomTaken(side)'
             move == IF signal[e].side = side THEN fill[e].size ELSE -fill[e].size
             p == positions[Key].size
             s == signal[e].size
  <2>1. /\ \A d \in Evaluations : f[d] \in Nat /\ g[d] \in {0, f[d]}
        /\ g[e] = 0 /\ f[e] = IF signal[e].side = side THEN s ELSE 0
    <3>1. \A d \in Evaluations : f[d] \in Nat
      BY <1>0, Terms
    <3>2. \A d \in Evaluations : g[d] \in {0, f[d]}
      BY <1>1, <1>3 DEF RoomTaken
    <3>3. g[e] = 0 /\ f[e] = IF signal[e].side = side THEN s ELSE 0
      BY <1>2, <1>3 DEF RoomTaken
    <3> QED BY <3>1, <3>2, <3>3
  <2>2. p \in Int /\ PositionLimit \in Int
    BY <1>0, LimitTypes
  <2>3. Ahead(side)' = Ahead(side) + move /\ Ahead(side) \in Int
    BY <1>6, <1>7, <2>2 DEF Ahead
  <2>4. PositionLimit' = PositionLimit
    BY <1>1 DEF PositionLimit
  <2>5. Total(RoomTaken(side))' = Total(g) /\ Total(RoomTaken(side)) = Total(f)
    BY DEF Total
  <2>6. Ahead(side) + Total(f) <= PositionLimit
    BY <1>0, <2>5 DEF RoomReserved, RoomFor
  <2>7. move <= f[e] /\ move \in Int /\ f[e] \in Nat
    BY <1>6, <2>1
  <2> HIDE DEF f, g, move
  <2>8. Total(f) \in Nat /\ Total(g) \in Nat /\ Total(g) + f[e] <= Total(f)
    BY <2>1, TotalShrinks
  <2>9. Ahead(side) + move + Total(g) <= PositionLimit
    BY <2>2, <2>3, <2>6, <2>7, <2>8
  <2> QED BY <2>3, <2>4, <2>5, <2>9 DEF RoomFor
<1> QED BY <1>4, <1>5, <1>8 DEF Reserved, RoomReserved

(* A buy costs no more than the cash its fill held, fee included.             *)
LEMMA BuyIsCovered ==
  ASSUME NEW b \in Int, NEW size \in Nat, NEW limit \in Nat, NEW f \in Nat, NEW p \in Nat,
         NEW fee \in Nat, f <= size, p <= limit, FeeDen * fee <= f * p * FeeNum
  PROVE  FeeDen * b - size * limit * (FeeDen + FeeNum) <= FeeDen * (b - f * p - fee)
<1> DEFINE cost == f * p
           due == size * limit * (FeeDen + FeeNum)
<1>0. FeeNum \in Nat /\ FeeDen \in Nat /\ cost \in Nat /\ size * limit \in Nat
  BY FeeAssumption
<1>1. due \in Nat
  BY <1>0
<1>2. FeeDen * (cost + fee) <= due
  BY ExecP!CostBound, ExecAssumptions, BoundsAssumption, TicksAssumption, FeeAssumption,
     NoneAssumption
<1> HIDE DEF cost, due
<1>3. FeeDen * (b - cost - fee) = FeeDen * b - FeeDen * (cost + fee)
      /\ FeeDen * b \in Int /\ FeeDen * (cost + fee) \in Int
  BY <1>0
<1>4. FeeDen * b - due <= FeeDen * (b - cost - fee)
  BY <1>1, <1>2, <1>3
<1> QED BY <1>4 DEF cost, due

(* A sale earns no less than its fee, unless fees exceed prices.              *)
LEMMA SaleCoversFee ==
  ASSUME FeeNum <= FeeDen, NEW b \in Int, NEW f \in Nat, NEW p \in Nat,
         NEW fee \in Nat, FeeDen * fee <= f * p * FeeNum
  PROVE  FeeDen * b <= FeeDen * (b + f * p - fee)
<1> DEFINE cost == f * p
<1>0. FeeNum \in Nat /\ FeeDen \in Nat /\ cost \in Nat
  BY FeeAssumption
<1>1. FeeDen * fee <= cost * FeeNum
  OBVIOUS
<1> HIDE DEF cost
<1>2. cost * FeeNum <= FeeDen * cost
  BY <1>0
<1>3. /\ FeeDen * (b + cost - fee) = FeeDen * b + FeeDen * cost - FeeDen * fee
      /\ FeeDen * b \in Int /\ FeeDen * cost \in Int /\ FeeDen * fee \in Int
      /\ cost * FeeNum \in Int
  BY <1>0
<1>4. FeeDen * b <= FeeDen * (b + cost - fee)
  BY <1>1, <1>2, <1>3
<1> QED BY <1>4 DEF cost

LEMMA ReservedOnPayment ==
  ASSUME LInv, NEW w \in Consumers, [Next]_vars, Recon!WriteBalance(w),
         UNCHANGED <<riskVars, execVars>>
  PROVE  Reserved'
<1>0. TInv /\ Parts /\ RiskTypeOK /\ ScreenedAreSound /\ LanesKept /\ CashReserved
  BY DEF LInv, TInv, Parts
<1>1. /\ Recon!Busy(w) /\ pc[w] = "balance_read" /\ UNCHANGED <<setup, signal, positions>>
  BY DEF Recon!WriteBalance, Recon!Busy, riskVars
<1>2. PICK e \in Evaluations :
        /\ fill[e] # None /\ applying[w] = Event(e) /\ NeedsCash(e)
        /\ stage[e] = "approved" /\ state[e] = "ordered"
  BY <1>0, <1>1, HandledFill
<1>3. /\ ~NeedsCash(e)'
      /\ \A d \in Evaluations : /\ InFlight(d)' => InFlight(d)
                                /\ NeedsRoom(d)' => NeedsRoom(d)
                                /\ NeedsCash(d)' => NeedsCash(d)
  BY <1>0, <1>2, PaidTakesNoCash
<1>4. LanesKept'
  BY <1>0, <1>1, <1>3, LanesShrink
<1>5. RoomReserved'
  <2>1. \A side \in {"buy", "sell"}, d \in Evaluations :
          RoomTaken(side)'[d] \in {0, RoomTaken(side)[d]}
    BY <1>1, <1>3 DEF RoomTaken
  <2> QED BY <1>1, <2>1, RoomShrinks DEF RoomReserved
<1>6. /\ signal[e].size \in Nat /\ signal[e].limit_price \in Nat
      /\ signal[e].side \in {"buy", "sell"}
      /\ fill[e].size \in Nat /\ fill[e].price \in Nat /\ fill[e].fee \in Nat
      /\ fill[e].size <= signal[e].size
      /\ signal[e].side = "buy" => fill[e].price <= signal[e].limit_price
      /\ FeeDen * fill[e].fee <= fill[e].size * fill[e].price * FeeNum
  BY <1>0, <1>2, FillFacts DEF SignalType
<1>7. LET cost == fill[e].size * fill[e].price
      IN  balances'[User]
            = IF signal[e].side = "buy" THEN balances[User] - cost - fill[e].fee
                                        ELSE balances[User] + cost - fill[e].fee
  BY <1>0, <1>2, BalanceWritten
<1>8. ASSUME FeeNum <= FeeDen
      PROVE  Total(CashTaken)' <= FeeDen * balances'[User] + (setup.lanes - 1) * DearestOrder
  <2> DEFINE f == CashTaken
             g == CashTaken'
             k == (setup.lanes - 1) * DearestOrder
             b == balances[User]
             c == IF signal[e].side = "buy" THEN Cost(signal[e]) ELSE 0
  <2>1. /\ \A d \in Evaluations : f[d] \in Nat /\ g[d] \in {0, f[d]}
        /\ g[e] = 0 /\ f[e] = c
    <3>1. \A d \in Evaluations : f[d] \in Nat
      BY <1>0, Terms
    <3>2. \A d \in Evaluations : g[d] \in {0, f[d]}
      BY <1>1, <1>3 DEF CashTaken, Cost
    <3>3. g[e] = 0 /\ f[e] = c
      BY <1>2, <1>3 DEF CashTaken
    <3> QED BY <3>1, <3>2, <3>3
  <2>2. b \in Int /\ FeeDen * b \in Int /\ k \in Nat
    BY <1>0, LimitTypes
  <2>3. FeeDen * b - c <= FeeDen * balances'[User]
    <3>1. CASE signal[e].side = "buy"
      <4>1. FeeDen * b - signal[e].size * signal[e].limit_price * (FeeDen + FeeNum)
              <= FeeDen * (b - fill[e].size * fill[e].price - fill[e].fee)
        BY <1>6, <2>2, <3>1, BuyIsCovered
      <4> QED BY <1>7, <3>1, <4>1 DEF Cost
    <3>2. CASE signal[e].side # "buy"
      <4>1. FeeDen * b <= FeeDen * (b + fill[e].size * fill[e].price - fill[e].fee)
        BY <1>6, <1>8, <2>2, SaleCoversFee
      <4> QED BY <1>7, <2>2, <3>2, <4>1
    <3> QED BY <3>1, <3>2
  <2>4. FeeDen * balances'[User] \in Int
    <3>1. balances'[User] \in Int
      <4>1. fill[e].size * fill[e].price \in Int
        BY <1>6
      <4> HIDE DEF b
      <4> QED BY <1>6, <1>7, <2>2, <4>1 DEF b
    <3> QED BY <3>1, FeeAssumption
  <2>5. Total(CashTaken)' = Total(g) /\ Total(CashTaken) = Total(f)
    BY DEF Total
  <2>6. Total(f) <= FeeDen * b + k
    BY <1>0, <1>8, <2>5 DEF CashReserved
  <2>7. c \in Nat
    BY <2>1
  <2> HIDE DEF f, g, c, k, b
  <2>8. Total(f) \in Nat /\ Total(g) \in Nat /\ Total(g) + f[e] <= Total(f)
    BY <2>1, TotalShrinks
  <2>9. Total(g) <= FeeDen * balances'[User] + k
    BY <2>1, <2>2, <2>3, <2>4, <2>6, <2>7, <2>8
  <2> QED BY <2>5, <2>9 DEF k
<1>9. DearestOrder' = DearestOrder
  BY DEF DearestOrder
<1> QED BY <1>1, <1>4, <1>5, <1>8, <1>9 DEF Reserved, CashReserved

(* Every step keeps what is reserved. *)
LEMMA ReservedNext == LInv /\ [Next]_vars => Reserved'
<1> SUFFICES ASSUME LInv, [Next]_vars PROVE Reserved'
  OBVIOUS
<1>0. Parts /\ TInv
  BY DEF LInv, TInv
<1>1. ASSUME NEW e \in Evaluations, Screen(e) \/ CheckCap(e) \/ CheckFunds(e)
      PROVE  Reserved'
  BY <1>0, <1>1, RiskStepNothingNew, ReservedWithoutNews, ReservedAtGates
  DEF Screen, CheckCap, CheckFunds
<1>2. ASSUME NEW e \in Evaluations, NEW s \in setup.signals, Deliver(e, s)
      PROVE  Reserved'
  BY <1>2, ReservedOnDelivery
<1>3. ASSUME NEW e \in Evaluations, Submit(e) \/ Answer(e) \/ HandOver(e)
      PROVE  Reserved'
  BY <1>0, <1>3, SubmitNothingNew, AnswerNothingNew, HandOverNothingNew, ReservedWithoutNews
<1>4. ASSUME NEW w \in Consumers, Recon!Step(w), UNCHANGED <<riskVars, execVars>>
      PROVE  Reserved'
  BY <1>0, <1>4, ReadNothingNew, ReservedWithoutNews, ReservedOnPosition, ReservedOnPayment
  DEF Recon!Step
<1>5. ASSUME Crash PROVE Reserved'
  <2>1. ASSUME NEW d \in Evaluations
        PROVE  ~Evaluating(d)' /\ ~Waiting(d)' /\ ~Booking(d)' /\ stage'[d] # "funding"
    BY <1>0, <1>5 DEF Crash, Exec!Restart, Evaluating, Waiting, Submitted, Booking, Handled,
                Recon!Busy, Parts, ExecP!IInv, ExecP!TypeOK
  <2>2. NothingNew
    BY <1>5, <2>1 DEF NothingNew, InFlight, NeedsRoom, NeedsCash, Crash
  <2> QED BY <2>2, ReservedWithoutNews
<1>6. ASSUME UNCHANGED vars PROVE Reserved'
  <2>1. UNCHANGED <<setup, stage, signal, state, fill, positions, balances, posted, paid,
                   pending, pc, applying>>
    BY <1>6 DEF vars, riskVars, execVars, reconVars
  <2>2. NothingNew
    BY <1>0, <2>1, MovingEvents DEF Booking, Handled, Recon!Busy
  <2> QED BY <2>2, ReservedWithoutNews
<1>7. ASSUME NEW e \in Evaluations, Record(e) PROVE Reserved'
  <2>1. UNCHANGED <<setup, stage, signal, state, fill, positions, balances, posted, paid,
                   pending, pc, applying>>
    BY <1>7 DEF Record, execVars, reconVars
  <2>2. NothingNew
    BY <1>0, <2>1, MovingEvents DEF Booking, Handled, Recon!Busy
  <2> QED BY <2>2, ReservedWithoutNews
<1> QED BY <1>1, <1>2, <1>3, <1>4, <1>5, <1>6, <1>7 DEF Next, Advance, Book

LEMMA ReservedInit == Init /\ Parts => EventsAreKnown /\ EventsMoveOn /\ Reserved
<1> SUFFICES ASSUME Init, Parts PROVE EventsAreKnown /\ EventsMoveOn /\ Reserved
  OBVIOUS
<1>1. EventsAreKnown /\ EventsMoveOn
  BY DEF Init, EventsAreKnown, EventsMoveOn, Recon!Busy
<1>2. ASSUME NEW e \in Evaluations PROVE ~InFlight(e) /\ ~NeedsRoom(e) /\ ~NeedsCash(e)
  BY DEF Init, Exec!Init, Booking, InFlight, NeedsRoom, NeedsCash, Waiting, Evaluating
<1>3. setup.lanes \in Nat
  BY ScenariosAssumption DEF Parts, RiskTypeOK, ScenarioType
<1>4. LanesKept
  <2>1. {d \in Evaluations : InFlight(d)} = {}
    BY <1>2
  <2>2. Cardinality({}) = 0
    BY FS_EmptySet
  <2> QED BY <1>3, <2>1, <2>2 DEF LanesKept
<1>5. /\ setup.ctx.position \in Int /\ setup.ctx.balance \in Int /\ setup.ctx.balance >= 0
      /\ Config.max_abs_position \in Int
  BY ScenariosAssumption, ConfigAssumption DEF Init, ScenarioType, ContextType, ConfigType
<1>6. positions[Key].size = setup.ctx.position /\ balances[User] = setup.ctx.balance
  BY DEF Init, Recon!Keys, Key, InitialPosition
<1>7. ASSUME NEW f, \A d \in Evaluations : f[d] = 0 PROVE Total(f) = 0
  BY <1>7, EvaluationsFinite, SumZero DEF Total
<1>8. ASSUME NEW side \in {"buy", "sell"} PROVE RoomFor(side)
  <2> DEFINE f == RoomTaken(side)
  <2>1. \A d \in Evaluations : f[d] = 0
    BY <1>2 DEF RoomTaken
  <2> HIDE DEF f
  <2>2. Total(f) = 0
    BY <1>7, <2>1
  <2>3. Ahead(side) <= Larger(Config.max_abs_position, Distance(setup.ctx.position, 0))
        /\ Ahead(side) \in Int
    BY <1>5, <1>6 DEF Ahead, Larger, Distance
  <2>4. Ahead(side) <= PositionLimit
    BY <2>3, LimitTypes DEF PositionLimit
  <2>5. Ahead(side) + Total(f) <= PositionLimit
    BY <2>2, <2>3, <2>4
  <2> QED BY <2>5 DEF RoomFor, f
<1>9. CashReserved
  <2> DEFINE f == CashTaken
             k == (setup.lanes - 1) * DearestOrder
  <2>1. \A d \in Evaluations : f[d] = 0
    BY <1>2 DEF CashTaken
  <2>2. k \in Nat
    BY LimitTypes
  <2>3. FeeDen * balances[User] \in Int /\ FeeDen * balances[User] >= 0
    BY <1>5, <1>6, FeeAssumption
  <2> HIDE DEF f, k
  <2>4. Total(f) = 0
    BY <1>7, <2>1
  <2>5. Total(f) <= FeeDen * balances[User] + k
    BY <2>2, <2>3, <2>4
  <2> QED BY <2>5 DEF CashReserved, f, k
<1> QED BY <1>1, <1>4, <1>8, <1>9 DEF Reserved, RoomReserved

LEMMA ReservedInvariance == Spec => []LInv
<1>1. /\ Parts /\ Parts' /\ EventsAreKnown /\ EventsMoveOn /\ ScreenedAreSound /\ Reserved
      /\ [Next]_vars
      => (EventsAreKnown /\ EventsMoveOn /\ Reserved)'
  BY EventsNext, ReservedNext DEF LInv, TInv, Reserved
<1> QED BY <1>1, ReservedInit, PartsInvariance, SoundInvariance, PTL
        DEF Spec, LInv, TInv, Reserved

LEMMA TotalsAreNat ==
  ASSUME Parts, ScreenedAreSound
  PROVE  /\ \A side : Total(RoomTaken(side)) \in Nat
         /\ Total(CashTaken) \in Nat
<1>1. ASSUME NEW f, \A d \in Evaluations : f[d] \in Nat PROVE Total(f) \in Nat
  BY <1>1, EvaluationsFinite, SumNat DEF Total
<1>2. ASSUME NEW side PROVE Total(RoomTaken(side)) \in Nat
  <2> DEFINE f == RoomTaken(side)
  <2>1. \A d \in Evaluations : f[d] \in Nat
    BY Terms
  <2> HIDE DEF f
  <2>2. Total(f) \in Nat
    BY <1>1, <2>1
  <2> QED BY <2>2 DEF f
<1>3. Total(CashTaken) \in Nat
  <2> DEFINE f == CashTaken
  <2>1. \A d \in Evaluations : f[d] \in Nat
    BY Terms
  <2> HIDE DEF f
  <2>2. Total(f) \in Nat
    BY <1>1, <2>1
  <2> QED BY <2>2 DEF f
<1> QED BY <1>2, <1>3

(* However many signals a deployment has in flight, however they are          *)
(* interleaved, crash or are delivered again, the position is beyond its cap  *)
(* by at most one maximal order for each further signal in flight.            *)
THEOREM CapIsKept == Spec => []PositionWithinCap
<1>1. LInv => PositionWithinCap
  <2> SUFFICES ASSUME LInv PROVE PositionWithinCap
    OBVIOUS
  <2>1. Parts /\ ScreenedAreSound /\ RoomFor("buy") /\ RoomFor("sell")
    BY DEF LInv, TInv, RoomReserved
  <2>2. Total(RoomTaken("buy")) \in Nat /\ Total(RoomTaken("sell")) \in Nat
    BY <2>1, TotalsAreNat
  <2>3. PositionLimit \in Int /\ positions[Key].size \in Int
    BY <2>1, LimitTypes
  <2>4. positions[Key].size <= PositionLimit /\ -positions[Key].size <= PositionLimit
    BY <2>1, <2>2, <2>3 DEF RoomFor, Ahead
  <2>5. Distance(positions[Key].size, 0) <= PositionLimit
    BY <2>3, <2>4 DEF Distance
  <2> QED BY <2>5 DEF PositionWithinCap, PositionLimit
<1> QED BY <1>1, ReservedInvariance, PTL

(* Unless fees exceed prices, the balance is overdrawn by at most the dearest *)
(* order for each further signal in flight.                                   *)
THEOREM NothingIsOverdrawn == FeeNum <= FeeDen => (Spec => []NeverOverdrawn)
<1> SUFFICES ASSUME FeeNum <= FeeDen PROVE Spec => []NeverOverdrawn
  OBVIOUS
<1>1. LInv => NeverOverdrawn
  <2> SUFFICES ASSUME LInv PROVE NeverOverdrawn
    OBVIOUS
  <2> DEFINE k == (setup.lanes - 1) * DearestOrder
             l == (setup.lanes - 1) * Config.max_size * Config.price_max * (FeeDen + FeeNum)
  <2>1. Parts /\ ScreenedAreSound /\ CashReserved
    BY DEF LInv, TInv
  <2>2. Total(CashTaken) \in Nat /\ FeeDen * balances[User] \in Int /\ k \in Nat
    BY <2>1, TotalsAreNat, LimitTypes
  <2>3. k = l
    <3>1. /\ setup.lanes - 1 \in Nat /\ Config.max_size \in Nat /\ Config.price_max \in Nat
          /\ FeeDen + FeeNum \in Nat
      BY <2>1, ScenariosAssumption, ConfigAssumption, FeeAssumption
      DEF Parts, RiskTypeOK, ScenarioType, ConfigType
    <3>2. \A h, i, j, m \in Nat : h * (i * j * m) = h * i * j * m
      OBVIOUS
    <3> QED BY <3>1, <3>2 DEF DearestOrder
  <2> HIDE DEF k, l
  <2>4. Total(CashTaken) <= FeeDen * balances[User] + k
    BY <2>1 DEF CashReserved, k
  <2>5. FeeDen * balances[User] + l >= 0
    BY <2>2, <2>3, <2>4
  <2> QED BY <2>5 DEF NeverOverdrawn, l
<1> QED BY <1>1, ReservedInvariance, PTL
=============================================================================
