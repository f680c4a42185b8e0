--------------------------- MODULE PaperExecution ---------------------------
(***************************************************************************)
(* PaperExecutionEngine (services/execution/engine.py): concurrent calls   *)
(* of submit, each of which claims its signal in the in-memory set of seen *)
(* signals, awaits a book, and then builds its order and fill without      *)
(* giving up control.                                                      *)
(*                                                                         *)
(*   SubmitDuplicate   the signal was seen: return None                    *)
(*   SubmitFresh       claim the signal, await the book provider           *)
(*   BookAnswers       a snapshot or None arrives: order, maybe a fill     *)
(*   BookFails         the provider raises and the exception leaves submit *)
(*   Restart           the process dies: calls in flight and the set of    *)
(*                     seen signals are gone, orders and fills are not     *)
(***************************************************************************)
EXTENDS PaperFiller

CONSTANTS Calls,            \* calls of submit over the life of the system
          Intents,          \* the intents risk approved
          Books,            \* snapshots the provider may return
          MaxRestarts       \* bound: process restarts

IntentType == [id : Nat, signal_id : Nat, side : {"buy", "sell"},
               size : Nat, limit_price : Nat]

ASSUME IntentsAssumption == Intents \subseteq IntentType
ASSUME BooksAssumption == Books \subseteq BookType
ASSUME MaxRestartsAssumption == MaxRestarts \in Nat

VARIABLES
  seen,       \* _seen_signal_ids of the running process
  state,      \* call -> where it is
  intent,     \* call -> its argument, None before the call
  answer,     \* call -> the book its order was priced with
  fill,       \* call -> the fill it returned, or None
  epoch,      \* call -> the run of the process that served it
  restarts    \* restarts so far, also the number of the current run

vars == <<seen, state, intent, answer, fill, epoch, restarts>>

States == {"new", "awaiting_book", "ordered", "duplicate", "raised", "lost"}
Signals == {i.signal_id : i \in Intents}

Init ==
  /\ seen = {}
  /\ state = [c \in Calls |-> "new"]
  /\ intent = [c \in Calls |-> None]
  /\ answer = [c \in Calls |-> None]
  /\ fill = [c \in Calls |-> None]
  /\ epoch = [c \in Calls |-> 0]
  /\ restarts = 0

-----------------------------------------------------------------------------
Called(c, i) ==
  /\ state[c] = "new"
  /\ intent' = [intent EXCEPT ![c] = i]
  /\ epoch' = [epoch EXCEPT ![c] = restarts]

(* Faulty: looks for the intent's own id among the seen signals. *)
SubmitDuplicateByIntent(c, i) ==
  /\ Called(c, i)
  /\ i.id \in seen
  /\ state' = [state EXCEPT ![c] = "duplicate"]
  /\ UNCHANGED <<seen, answer, fill, restarts>>

SubmitDuplicate(c, i) ==
  /\ Called(c, i)
  /\ i.signal_id \in seen
  /\ state' = [state EXCEPT ![c] = "duplicate"]
  /\ UNCHANGED <<seen, answer, fill, restarts>>

(* Faulty: the signal is claimed only once its order exists. *)
SubmitFreshUnclaimed(c, i) ==
  /\ Called(c, i)
  /\ i.signal_id \notin seen
  /\ state' = [state EXCEPT ![c] = "awaiting_book"]
  /\ UNCHANGED <<seen, answer, fill, restarts>>

SubmitFresh(c, i) ==
  /\ Called(c, i)
  /\ i.signal_id \notin seen
  /\ seen' = seen \cup {i.signal_id}
  /\ state' = [state EXCEPT ![c] = "awaiting_book"]
  /\ UNCHANGED <<answer, fill, restarts>>

PaperFill(i, book) ==
  IF book = None THEN None ELSE simulate_fill(i.side, i.size, i.limit_price, book)

BookAnswers(c, book) ==
  /\ state[c] = "awaiting_book"
  /\ state' = [state EXCEPT ![c] = "ordered"]
  /\ answer' = [answer EXCEPT ![c] = book]
  /\ fill' = [fill EXCEPT ![c] = PaperFill(intent[c], book)]
  /\ UNCHANGED <<seen, intent, epoch, restarts>>

BookFails(c) ==
  /\ state[c] = "awaiting_book"
  /\ state' = [state EXCEPT ![c] = "raised"]
  /\ UNCHANGED <<seen, intent, answer, fill, epoch, restarts>>

(* Faulty: every call of the old run is written off, the answered ones too. *)
RestartLosingOrders ==
  /\ restarts < MaxRestarts
  /\ restarts' = restarts + 1
  /\ seen' = {}
  /\ state' = [c \in Calls |-> IF state[c] = "new" THEN "new" ELSE "lost"]
  /\ UNCHANGED <<intent, answer, fill, epoch>>

Restart ==
  /\ restarts < MaxRestarts
  /\ restarts' = restarts + 1
  /\ seen' = {}
  /\ state' = [c \in Calls |-> IF state[c] = "awaiting_book" THEN "lost" ELSE state[c]]
  /\ UNCHANGED <<intent, answer, fill, epoch>>

Next ==
  \/ \E c \in Calls, i \in Intents : SubmitDuplicate(c, i) \/ SubmitFresh(c, i)
  \/ \E c \in Calls : \/ \E book \in Books \cup {None} : BookAnswers(c, book)
                      \/ BookFails(c)
  \/ Restart

Spec == Init /\ [][Next]_vars

-----------------------------------------------------------------------------
Started(c) == state[c] # "new"
Claimed(c) == Started(c) /\ state[c] # "duplicate"

(* Type invariant: only a call that was made has an argument, only an order *)
(* has a fill, and no call belongs to a run of the process yet to come.     *)
TypeOK ==
  /\ seen \subseteq Signals
  /\ state \in [Calls -> States]
  /\ intent \in [Calls -> Intents \cup {None}]
  /\ \A c \in Calls : Started(c) => intent[c] \in Intents
  /\ answer \in [Calls -> Books \cup {None}]
  /\ fill \in [Calls -> FillType \cup {None}]
  /\ \A c \in Calls : fill[c] # None => state[c] = "ordered"
  /\ epoch \in [Calls -> 0..restarts]
  /\ restarts \in 0..MaxRestarts

SameSignal(c, d) == intent[c].signal_id = intent[d].signal_id

(* Within one run of the process a signal is claimed by at most one call, and *)
(* the claim is final: after the call that holds it has ordered, failed or is *)
(* still waiting for its book, no other call gets as far as the book, so two  *)
(* intents with one signal_id never produce two orders (engine.py:4-6).       *)
OneClaimPerRun ==
  \A c, d \in Calls :
    c # d /\ Claimed(c) /\ Claimed(d) /\ SameSignal(c, d) => epoch[c] # epoch[d]

(* The same without the restriction to one run: what the module's docstring   *)
(* says of two intents with one signal_id.                                    *)
OneOrderPerSignal ==
  \A c, d \in Calls :
    c # d /\ state[c] = "ordered" /\ state[d] = "ordered" => ~SameSignal(c, d)

(* A call is turned away as a duplicate only because another call, of this or *)
(* an earlier run of the process, took its very signal as far as the book: a  *)
(* signal is not swallowed without one attempt to order it, however its       *)
(* intents are interleaved, fail or are cut off (engine.py:58-60).            *)
DuplicateHasOwner ==
  \A d \in Calls : state[d] = "duplicate" =>
    \E c \in Calls : Claimed(c) /\ SameSignal(c, d) /\ epoch[c] <= epoch[d]

(* A fill takes no more than the order asked for and the level offered, a buy *)
(* never pays more than its limit, and a sell gives away less than one tick.  *)
FillWithinIntent ==
  \A c \in Calls : fill[c] # None =>
    LET i == intent[c]
        level == Opposite(i.side, answer[c])
    IN  /\ 0 < fill[c].size /\ fill[c].size <= i.size /\ fill[c].size <= level.depth
        /\ IF i.side = "buy" THEN fill[c].price <= i.limit_price
                             ELSE fill[c].price > i.limit_price - PriceTick

(* A buy and its fee never cost more than usdc_sufficient reserved for it:    *)
(* size x limit x (1 + fee).                                                  *)
CostWithinReserve ==
  \A c \in Calls : fill[c] # None /\ intent[c].side = "buy" =>
    FeeDen * (fill[c].size * fill[c].price + fill[c].fee)
      <= intent[c].size * intent[c].limit_price * (FeeDen + FeeNum)
=============================================================================
