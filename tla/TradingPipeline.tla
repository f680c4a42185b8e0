-------------------------- MODULE TradingPipeline ---------------------------
(***************************************************************************)
(* One user's signals on their way through the services: RiskEngine's      *)
(* gates, PaperExecutionEngine.submit and ReconciliationEngine.apply,      *)
(* composed over the in-memory event bus.  The gates read the stores that  *)
(* reconciliation writes, so what was true when a gate decided need not be *)
(* true when the fill is booked.                                           *)
(*                                                                         *)
(*   Deliver     a signal, perhaps one delivered before, is evaluated      *)
(*   Screen      gates 1 to 14, among them idempotency                     *)
(*   CheckCap    gate 15 reads the position                                *)
(*   CheckFunds  gates 16 to 18 read the exposures and the balance         *)
(*   Submit      the approved intent reaches the executor: Exec            *)
(*   Answer      the book arrives or fails; submit returns what it made    *)
(*   Book        ReconciliationEngine.apply, step by step: Recon           *)
(*                                                                         *)
(* The loops that connect the engines are not in the repository.  What     *)
(* they do is modelled as the environment, as freely as can be:            *)
(*                                                                         *)
(*   Record      a decision reaches the store that gate 4 reads, at any    *)
(*               time after it was taken: before or after the order        *)
(*   Publish     a fill that submit returned becomes a fill.received event *)
(*   HandOver    the consumer takes the event and calls apply              *)
(*   Crash       the one process dies, with all that is in flight and all  *)
(*               that is not recorded                                      *)
(*                                                                         *)
(* Nothing the pipeline does changes what gates 1 to 3 and 5 to 14 read,   *)
(* so their awaits are taken together (RiskEngine takes them apart); gate  *)
(* 4 has one read, and so have 15 and, of what the pipeline writes, 18.    *)
(***************************************************************************)
EXTENDS RiskGates, FiniteSets

CONSTANTS MaxDeliveries,    \* bound: signals delivered, repetitions included
          Scenarios,        \* worlds, signals and books to start from
          Consumers,        \* the consumer of fill.received
          User, Token,      \* the user and the (market_id, token_id) traded
          AvgScale,         \* as in PositionMath
          MaxRestarts       \* bound: crashes

Evaluations == 1..MaxDeliveries

(* ctx is the world outside the pipeline, with the opening position and       *)
(* balance; books are what the provider may answer; lanes is how many signals *)
(* the deployment has in flight at most, and deliveries bounds how many come. *)
ScenarioType ==
  [ctx : ContextType, signals : SUBSET SignalType, books : SUBSET BookType,
   lanes : Nat \ {0}, deliveries : 0..MaxDeliveries]

ASSUME BoundsAssumption == /\ MaxDeliveries \in Nat
                           /\ MaxRestarts \in Nat
                           /\ AvgScale \in Nat \ {0}
ASSUME ScenariosAssumption ==
  /\ Scenarios \subseteq ScenarioType
  /\ \A sc \in Scenarios : sc.ctx.balance >= 0

VARIABLES
  setup,        \* the scenario; never changes
  stage,        \* evaluation -> where the risk engine is with it
  signal,       \* evaluation -> its signal
  record,       \* evaluation -> whether its decision is where gate 4 reads
  seen, state, intent, answer, fill, epoch, restarts,       \* the executor
  positions, balances, pc, applying, prior, priorBalance,   \* reconciliation
  pending, posted, paid, raised, aborts

riskVars == <<setup, stage, signal, record>>
execVars == <<seen, state, intent, answer, fill, epoch, restarts>>
reconVars == <<positions, balances, pc, applying, prior, priorBalance,
               pending, posted, paid, raised, aborts>>
vars == <<riskVars, execVars, reconVars>>

Key == <<User, Token>>

IntentOf(e, s) ==
  [id |-> e, signal_id |-> s.signal_id, side |-> s.side, size |-> s.size,
   limit_price |-> s.limit_price]

AllSignals == UNION {sc.signals : sc \in Scenarios}
AllBooks == UNION {sc.books : sc \in Scenarios}
AllIntents == {IntentOf(e, s) : e \in Evaluations, s \in AllSignals}
FillEvents == [id : Nat, delivery : {1}, user : {User}, token : {Token},
               side : {"buy", "sell"}, size : Int, price : Nat, fee : Nat]

Exec == INSTANCE PaperExecution WITH
          Calls <- Evaluations, Intents <- AllIntents, Books <- AllBooks

Recon == INSTANCE Reconciliation WITH
          fill <- applying, overlapped <- {},
          Workers <- Consumers, Users <- {User}, Tokens <- {Token},
          Fills <- FillEvents, OpeningBalance <- 0, OnePerUser <- TRUE, MaxAborts <- 0

(* The fill.received event of an order that was filled. *)
Event(e) ==
  [id |-> e, delivery |-> 1, user |-> User, token |-> Token, side |-> intent[e].side,
   size |-> fill[e].size, price |-> fill[e].price, fee |-> fill[e].fee]

Processed == {signal[e].signal_id : e \in {d \in Evaluations : record[d] = "written"}}

Live == [setup.ctx EXCEPT !.position = positions[Key].size,
                          !.balance = balances[User],
                          !.processed = @ \cup Processed]

InitialPosition(size) ==
  [size |-> size, avg |-> IF size = 0 THEN 0 ELSE AvgScale, realized |-> 0]

Init ==
  /\ setup \in Scenarios
  /\ stage = [e \in Evaluations |-> "new"]
  /\ signal = [e \in Evaluations |-> None]
  /\ record = [e \in Evaluations |-> "none"]
  /\ Exec!Init
  /\ positions = [k \in Recon!Keys |-> InitialPosition(setup.ctx.position)]
  /\ balances = [u \in {User} |-> setup.ctx.balance]
  /\ pc = [w \in Consumers |-> "idle"]
  /\ applying = [w \in Consumers |-> Recon!NoFill]
  /\ prior = [w \in Consumers |-> Recon!NoPosition]
  /\ priorBalance = [w \in Consumers |-> 0]
  /\ pending = {} /\ posted = {} /\ paid = {} /\ raised = {}
  /\ aborts = 0

-----------------------------------------------------------------------------
Evaluating(e) == stage[e] \in {"screening", "sizing", "funding"}
Submitted(e) == state[e] # "new"
Waiting(e) == stage[e] = "approved" /\ state[e] \in {"new", "awaiting_book"}

(* A fill that is published or in apply's hands. *)
Handled(e) == \E w \in Consumers : Recon!Busy(w) /\ applying[w] = Event(e)
Booking(e) == fill[e] # None /\ (Event(e) \in pending \/ Handled(e))

InFlight(e) == Evaluating(e) \/ Waiting(e) \/ Booking(e)

Deliver(e, s) ==
  /\ stage[e] = "new"
  /\ e <= setup.deliveries
  /\ \A d \in Evaluations : d < e => stage[d] # "new"
  /\ s \in setup.signals
  /\ Cardinality({d \in Evaluations : InFlight(d)}) < setup.lanes
  /\ stage' = [stage EXCEPT ![e] = "screening"]
  /\ signal' = [signal EXCEPT ![e] = s]
  /\ UNCHANGED <<setup, record, execVars, reconVars>>

Decided(e, decision) ==
  /\ stage' = [stage EXCEPT ![e] = decision]
  /\ UNCHANGED <<setup, signal, record, execVars, reconVars>>

GateRun(e, from, gates, next) ==
  /\ stage[e] = from
  /\ \A g \in gates : Holds(g, signal[e], Live)
  /\ stage' = [stage EXCEPT ![e] = next]
  /\ UNCHANGED <<setup, signal, record, execVars, reconVars>>

Reject(e, from, gates) ==
  /\ stage[e] = from
  /\ \E g \in gates : ~Holds(g, signal[e], Live)
  /\ Decided(e, "rejected")

ScreenGates == {AllGates[i] : i \in 1..14}
CapGates == {AllGates[15]}
FundsGates == {AllGates[i] : i \in 16..18}

Screen(e) == GateRun(e, "screening", ScreenGates, "sizing")
             \/ Reject(e, "screening", ScreenGates)

CheckCap(e) == GateRun(e, "sizing", CapGates, "funding")
               \/ Reject(e, "sizing", CapGates)

CheckFunds(e) ==
  \/ /\ stage[e] = "funding"
     /\ \A g \in FundsGates : Holds(g, signal[e], Live)
     /\ Decided(e, "approved")
  \/ Reject(e, "funding", FundsGates)

Record(e) ==
  /\ stage[e] \in {"approved", "rejected"}
  /\ record[e] = "none"
  /\ record' = [record EXCEPT ![e] = "written"]
  /\ UNCHANGED <<setup, stage, signal, execVars, reconVars>>

-----------------------------------------------------------------------------
Submit(e) ==
  /\ stage[e] = "approved"
  /\ LET i == IntentOf(e, signal[e])
     IN  Exec!SubmitFresh(e, i) \/ Exec!SubmitDuplicate(e, i)
  /\ UNCHANGED <<riskVars, reconVars>>

Publish(e) ==
  /\ pending' = IF fill'[e] = None THEN pending ELSE pending \cup {Event(e)'}
  /\ UNCHANGED <<positions, balances, pc, applying, prior, priorBalance, posted,
                 paid, raised, aborts>>

Answer(e) ==
  /\ \/ \E book \in setup.books \cup {None} : Exec!BookAnswers(e, book)
     \/ Exec!BookFails(e)
  /\ Publish(e)
  /\ UNCHANGED riskVars

HandOver(e) ==
  /\ fill[e] # None
  /\ \E w \in Consumers : Recon!Receive(w, Event(e))
  /\ UNCHANGED <<riskVars, execVars>>

Book == (\E w \in Consumers : Recon!Step(w)) /\ UNCHANGED <<riskVars, execVars>>

(* The stores and the recorded decisions survive; calls, waiting events, the  *)
(* executor's claims and what was not recorded yet do not.                    *)
Crash ==
  /\ Exec!Restart
  /\ stage' = [e \in Evaluations |->
                 IF Evaluating(e) \/ (stage[e] = "approved" /\ ~Submitted(e))
                 THEN "lost" ELSE stage[e]]
  /\ record' = [e \in Evaluations |->
                  IF stage[e] # "new" /\ record[e] = "none" THEN "lost" ELSE record[e]]
  /\ pending' = {}
  /\ pc' = [w \in Consumers |-> "idle"]
  /\ applying' = [w \in Consumers |-> Recon!NoFill]
  /\ prior' = [w \in Consumers |-> Recon!NoPosition]
  /\ priorBalance' = [w \in Consumers |-> 0]
  /\ UNCHANGED <<setup, signal, positions, balances, posted, paid, raised, aborts>>

Advance(e) == Screen(e) \/ CheckCap(e) \/ CheckFunds(e) \/ Submit(e) \/ Answer(e)

Next ==
  \/ \E e \in Evaluations : \/ \E s \in setup.signals : Deliver(e, s)
                            \/ Advance(e)
                            \/ Record(e)
                            \/ HandOver(e)
  \/ Book
  \/ Crash

Spec == Init /\ [][Next]_vars

(* Reads, lookups and stores answer, and the consumer takes what waits.  No   *)
(* signal need be delivered and no decision recorded.                         *)
Fairness == /\ \A e \in Evaluations : WF_vars(Advance(e)) /\ WF_vars(HandOver(e))
            /\ WF_vars(Book)
FairSpec == Spec /\ Fairness

-----------------------------------------------------------------------------
Stages == {"new", "screening", "sizing", "funding", "rejected", "approved", "lost"}

(* The risk engine's part: an evaluation has one of the delivered signals,    *)
(* and only a decision that was taken is recorded.                            *)
RiskTypeOK ==
  /\ setup \in Scenarios
  /\ stage \in [Evaluations -> Stages]
  /\ signal \in [Evaluations -> AllSignals \cup {None}]
  /\ record \in [Evaluations -> {"none", "written", "lost"}]
  /\ \A e \in Evaluations :
       /\ stage[e] # "new" => signal[e] \in setup.signals
       /\ record[e] = "written" => stage[e] \in {"approved", "rejected", "lost"}

(* Type invariant: the parts' own, and what holds them together: only an      *)
(* approved signal reaches the executor, as the intent built from it.         *)
OnlyApprovedSubmitted ==
  \A e \in Evaluations : Submitted(e) => /\ stage[e] = "approved"
                                         /\ intent[e] = IntentOf(e, signal[e])
TypeOK == RiskTypeOK /\ OnlyApprovedSubmitted /\ Exec!TypeOK /\ Recon!TypeOK

Larger(a, b) == IF a < b THEN b ELSE a

(* However the services interleave, crash or deliver again, the booked        *)
(* position is within the cap, or no further out than it was at the start, by *)
(* at most one maximal order for each further signal the deployment has in    *)
(* flight: gate 15 reads a position that the fills under way have not reached *)
(* (per_market_cap.py:29).  With one signal at a time the cap is kept.        *)
PositionWithinCap ==
  Distance(positions[Key].size, 0)
    <= Larger(Config.max_abs_position, Distance(setup.ctx.position, 0))
         + (setup.lanes - 1) * Config.max_size

(* Nor is the balance overdrawn by more than the dearest order for each       *)
(* further signal in flight (usdc_sufficient.py:31); with one at a time it is *)
(* not overdrawn at all, fees included.                                       *)
NeverOverdrawn ==
  FeeDen * balances[User] + (setup.lanes - 1) * Config.max_size * Config.price_max
                                              * (FeeDen + FeeNum) >= 0

(* A signal is ordered a second time only in a later run of the process than  *)
(* the first, and only if that run ended before the first decision was        *)
(* recorded: however often the signal is delivered and evaluated side by side *)
(* with itself, within a run the executor's claim sees to it                  *)
(* (execution/engine.py:58-60), across runs gate 4 does (idempotency.py:17).  *)
OrderedAgainOnlyUnrecorded ==
  \A c, d \in Evaluations :
    /\ c # d /\ state[c] = "ordered" /\ state[d] = "ordered"
    /\ signal[c].signal_id = signal[d].signal_id
    => /\ epoch[c] # epoch[d]
       /\ epoch[c] < epoch[d] => record[c] = "lost"

(* An approved order that meets the book the gates saw, and fills at all,     *)
(* fills completely, but for what quantizing its size takes off               *)
(* (slippage_cap.py:44).                                                      *)
TopOf(market) ==
  [best_bid |-> market.best_bid, best_ask |-> market.best_ask,
   bid_depth |-> market.bid_depth, ask_depth |-> market.ask_depth]
FilledInFull ==
  \A e \in Evaluations :
    fill[e] # None /\ answer[e] = TopOf(setup.ctx.market)
      => fill[e].size = quantize_size(signal[e].size)

(* Every signal that is delivered comes to an end: it is rejected, or its     *)
(* order fails, is a duplicate or finds no fill, or its fill is booked and    *)
(* paid; unless the process dies first.                                       *)
Settled(e) ==
  \/ stage[e] \in {"rejected", "lost"}
  \/ state[e] \in {"duplicate", "raised", "lost"}
  \/ state[e] = "ordered" /\ fill[e] = None
  \/ fill[e] # None /\ Event(e) \in paid
EverySignalSettles ==
  \A e \in Evaluations : (stage[e] = "screening") ~> (Settled(e) \/ restarts > 0)
=============================================================================
