------------------------------ MODULE EventBus ------------------------------
(***************************************************************************)
(* InMemoryEventBus (shared/events/bus.py) on top of asyncio.Queue.        *)
(*                                                                         *)
(* The bus's lock is never held across an await, so reading or extending   *)
(* the subscriber list is atomic.  A put into a queue with room does not   *)
(* yield either, so a publish runs without interruption up to the first    *)
(* full queue of its snapshot; there it joins the queue's putters and      *)
(* waits.  A get wakes the first putter, which resumes later and may find  *)
(* that another publish has taken the slot: it then waits again, last.     *)
(*                                                                         *)
(*   Subscribe        _new_subscriber_queue                                *)
(*   Publish          publish, up to its first full queue or its return    *)
(*   Resume           a woken put carries on with its publish              *)
(*   Consume          the subscriber's iterator gets a message             *)
(*   CancelPublish    the publishing task is cancelled in a waiting put    *)
(*   Abandon          a subscriber stops iterating; its queue stays        *)
(***************************************************************************)
EXTENDS Integers, Sequences, FiniteSets

CONSTANTS Publishers, Subscribers, Streams,
          MaxSize,          \* maxsize of a subscriber's queue
          PerPublisher,     \* bound: messages per publisher
          MaxCancels,       \* bound: cancelled publishes
          MayAbandon        \* subscribers that may stop iterating

ASSUME SizesAssumption == /\ MaxSize \in Nat \ {0}
                          /\ PerPublisher \in Nat
                          /\ MaxCancels \in Nat
ASSUME PublishersAssumption == IsFiniteSet(Publishers)
ASSUME AbandonAssumption == MayAbandon \subseteq Subscribers

Messages == Publishers \X (1..PerPublisher)
NoStream == "none"

VARIABLES
  subscribers,  \* stream -> its queues (named by their subscribers), in order
  queue,        \* subscriber -> messages in its private queue
  putters,      \* subscriber -> publishers waiting for room, in order
  woken,        \* subscriber -> publishers woken by a get, not resumed yet
  sent,         \* publisher -> publishes begun
  rest,         \* publisher -> queues its publish has still to put into
  outcome,      \* message -> how far its publish got
  audience,     \* history: message -> subscribers in its snapshot
  received,     \* history: subscriber -> messages its iterator yielded
  abandoned,    \* subscribers that stopped iterating
  cancels

bus == <<subscribers, queue, putters, woken>>
vars == <<bus, sent, rest, outcome, audience, received, abandoned, cancels>>

Outcomes == {"unsent", "sending", "sent", "cancelled"}
Subscribed(s) == \E st \in Streams : \E i \in DOMAIN subscribers[st] : subscribers[st][i] = s
Full(s) == Len(queue[s]) >= MaxSize
Current(p) == <<p, sent[p]>>
Members(list) == {list[i] : i \in DOMAIN list}

Init ==
  /\ subscribers = [st \in Streams |-> <<>>]
  /\ queue = [s \in Subscribers |-> <<>>]
  /\ putters = [s \in Subscribers |-> <<>>]
  /\ woken = [s \in Subscribers |-> {}]
  /\ sent = [p \in Publishers |-> 0]
  /\ rest = [p \in Publishers |-> <<>>]
  /\ outcome = [m \in Messages |-> "unsent"]
  /\ audience = [m \in Messages |-> {}]
  /\ received = [s \in Subscribers |-> <<>>]
  /\ abandoned = {}
  /\ cancels = 0

-----------------------------------------------------------------------------
Subscribe(s, st) ==
  /\ ~Subscribed(s)
  /\ subscribers' = [subscribers EXCEPT ![st] = Append(@, s)]
  /\ UNCHANGED <<queue, putters, woken, sent, rest, outcome, audience, received,
                 abandoned, cancels>>

(* Position of the first full queue in list, or one past its end. *)
FirstFull(list) ==
  CHOOSE k \in 1..Len(list) + 1 :
    /\ \A i \in 1..k - 1 : ~Full(list[i])
    /\ k <= Len(list) => Full(list[k])

(* Faulty: a full queue is skipped and its subscriber misses the message. *)
PutIntoSkippingFull(p, m, list) ==
  /\ queue' = [s \in Subscribers |->
                 IF s \in Members(list) /\ ~Full(s) THEN Append(queue[s], m) ELSE queue[s]]
  /\ rest' = [rest EXCEPT ![p] = <<>>]
  /\ UNCHANGED putters
  /\ outcome' = [outcome EXCEPT ![m] = "sent"]

(* Faulty: forgets which queues of the list are done. *)
PutIntoForgettingPlace(p, m, list) ==
  LET k == FirstFull(list)
  IN  /\ queue' = [s \in Subscribers |->
                     IF s \in Members(SubSeq(list, 1, k - 1))
                     THEN Append(queue[s], m) ELSE queue[s]]
      /\ rest' = [rest EXCEPT ![p] = IF k > Len(list) THEN <<>> ELSE list]
      /\ IF k > Len(list)
         THEN /\ UNCHANGED putters
              /\ outcome' = [outcome EXCEPT ![m] = "sent"]
         ELSE /\ putters' = [putters EXCEPT ![list[k]] = Append(@, p)]
              /\ outcome' = [outcome EXCEPT ![m] = "sending"]

(* The puts of p's message m into the queues of list, to the first full one. *)
PutInto(p, m, list) ==
  LET k == FirstFull(list)
  IN  /\ queue' = [s \in Subscribers |->
                     IF s \in Members(SubSeq(list, 1, k - 1))
                     THEN Append(queue[s], m) ELSE queue[s]]
      /\ rest' = [rest EXCEPT ![p] = SubSeq(list, k, Len(list))]
      /\ IF k > Len(list)
         THEN /\ UNCHANGED putters
              /\ outcome' = [outcome EXCEPT ![m] = "sent"]
         ELSE /\ putters' = [putters EXCEPT ![list[k]] = Append(@, p)]
              /\ outcome' = [outcome EXCEPT ![m] = "sending"]

Publish(p, st) ==
  LET m == <<p, sent[p] + 1>>
  IN  /\ rest[p] = <<>>
      /\ sent[p] < PerPublisher
      /\ sent' = [sent EXCEPT ![p] = @ + 1]
      /\ audience' = [audience EXCEPT ![m] = Members(subscribers[st])]
      /\ PutInto(p, m, subscribers[st])
      /\ UNCHANGED <<subscribers, woken, received, abandoned, cancels>>

Waiting(p) == rest[p] # <<>>
At(p) == Head(rest[p])

(* Faulty: a woken put starts its publish over. *)
ResumeFromStart(p) ==
  /\ Waiting(p)
  /\ p \in woken[At(p)]
  /\ woken' = [woken EXCEPT ![At(p)] = @ \ {p}]
  /\ \E st \in Streams : /\ At(p) \in Members(subscribers[st])
                         /\ PutInto(p, Current(p), subscribers[st])
  /\ UNCHANGED <<subscribers, sent, audience, received, abandoned, cancels>>

(* A put checks for room again when it resumes. *)
Resume(p) ==
  /\ Waiting(p)
  /\ p \in woken[At(p)]
  /\ woken' = [woken EXCEPT ![At(p)] = @ \ {p}]
  /\ PutInto(p, Current(p), rest[p])
  /\ UNCHANGED <<subscribers, sent, audience, received, abandoned, cancels>>

(* Wake the first of the putters waiting at s, if any. *)
WakeNext(s, waiting, others) ==
  IF waiting = <<>>
  THEN /\ putters' = [putters EXCEPT ![s] = waiting]
       /\ woken' = [woken EXCEPT ![s] = others]
  ELSE /\ putters' = [putters EXCEPT ![s] = Tail(waiting)]
       /\ woken' = [woken EXCEPT ![s] = others \cup {Head(waiting)}]

(* Faulty: the get is cut short by a timeout and the message it took is lost. *)
ConsumeLosingMessage(s) ==
  /\ s \notin abandoned
  /\ queue[s] # <<>>
  /\ \/ received' = [received EXCEPT ![s] = Append(@, Head(queue[s]))]
     \/ UNCHANGED received
  /\ queue' = [queue EXCEPT ![s] = Tail(@)]
  /\ WakeNext(s, putters[s], woken[s])
  /\ UNCHANGED <<subscribers, sent, rest, outcome, audience, abandoned, cancels>>

Consume(s) ==
  /\ s \notin abandoned
  /\ queue[s] # <<>>
  /\ received' = [received EXCEPT ![s] = Append(@, Head(queue[s]))]
  /\ queue' = [queue EXCEPT ![s] = Tail(@)]
  /\ WakeNext(s, putters[s], woken[s])
  /\ UNCHANGED <<subscribers, sent, rest, outcome, audience, abandoned, cancels>>

(* list without x, if x is in it. *)
Without(list, x) ==
  IF x \notin Members(list) THEN list
  ELSE LET i == CHOOSE i \in DOMAIN list : list[i] = x
       IN  [j \in 1..Len(list) - 1 |-> list[IF j < i THEN j ELSE j + 1]]

(* Faulty: a cancelled put takes its wake-up along. *)
CancelDroppingWakeup(p) ==
  LET s == At(p)
  IN  /\ Waiting(p)
      /\ cancels < MaxCancels
      /\ cancels' = cancels + 1
      /\ rest' = [rest EXCEPT ![p] = <<>>]
      /\ outcome' = [outcome EXCEPT ![Current(p)] = "cancelled"]
      /\ putters' = [putters EXCEPT ![s] = Without(@, p)]
      /\ woken' = [woken EXCEPT ![s] = @ \ {p}]
      /\ UNCHANGED <<subscribers, queue, sent, audience, received, abandoned>>

(* A cancelled put that was already woken hands its wake-up on if there is    *)
(* room; one still waiting only leaves.                                       *)
CancelPublish(p) ==
  LET s == At(p)
  IN  /\ Waiting(p)
      /\ cancels < MaxCancels
      /\ cancels' = cancels + 1
      /\ rest' = [rest EXCEPT ![p] = <<>>]
      /\ outcome' = [outcome EXCEPT ![Current(p)] = "cancelled"]
      /\ IF p \in woken[s] /\ ~Full(s)
         THEN WakeNext(s, putters[s], woken[s] \ {p})
         ELSE /\ putters' = [putters EXCEPT ![s] = Without(@, p)]
              /\ woken' = [woken EXCEPT ![s] = @ \ {p}]
      /\ UNCHANGED <<subscribers, queue, sent, audience, received, abandoned>>

Abandon(s) ==
  /\ s \in MayAbandon \ abandoned
  /\ Subscribed(s)
  /\ abandoned' = abandoned \cup {s}
  /\ UNCHANGED <<bus, sent, rest, outcome, audience, received, cancels>>

Next ==
  \/ \E s \in Subscribers : \/ \E st \in Streams : Subscribe(s, st)
                            \/ Consume(s)
                            \/ Abandon(s)
  \/ \E p \in Publishers : \/ \E st \in Streams : Publish(p, st)
                           \/ Resume(p)
                           \/ CancelPublish(p)

Spec == Init /\ [][Next]_vars

(* Woken tasks run, and a subscriber that has not given up keeps iterating. *)
Fairness == /\ \A p \in Publishers : WF_vars(Resume(p))
            /\ \A s \in Subscribers : WF_vars(Consume(s))
FairSpec == Spec /\ Fairness

-----------------------------------------------------------------------------
(* Type invariant; a queue never outgrows its maxsize, and a publish waits at *)
(* exactly the queue it got to.                                               *)
TypeOK ==
  /\ subscribers \in [Streams -> Seq(Subscribers)]
  /\ queue \in [Subscribers -> Seq(Messages)]
  /\ \A s \in Subscribers : Len(queue[s]) <= MaxSize
  /\ putters \in [Subscribers -> Seq(Publishers)]
  /\ woken \in [Subscribers -> SUBSET Publishers]
  /\ \A p \in Publishers, s \in Subscribers :
       (p \in Members(putters[s]) \cup woken[s]) <=> (Waiting(p) /\ At(p) = s)
  /\ sent \in [Publishers -> 0..PerPublisher]
  /\ rest \in [Publishers -> Seq(Subscribers)]
  /\ outcome \in [Messages -> Outcomes]
  /\ audience \in [Messages -> SUBSET Subscribers]
  /\ received \in [Subscribers -> Seq(Messages)]
  /\ abandoned \subseteq MayAbandon
  /\ cancels \in 0..MaxCancels

(* A slot that becomes free is always on offer to somebody: while publishers  *)
(* wait for a queue, every free slot of it has a woken publisher coming.      *)
NoLostWakeup ==
  \A s \in Subscribers :
    putters[s] # <<>> => MaxSize - Len(queue[s]) <= Cardinality(woken[s])

Delivered(s) == received[s] \o queue[s]
Copies(s, m) == Cardinality({i \in DOMAIN Delivered(s) : Delivered(s)[i] = m})

(* A publish that returned has put its message exactly once into the queue of *)
(* every subscriber of its snapshot and into no other: not of another stream, *)
(* and not of one that came later.  One that is still going, or was broken    *)
(* off, has reached some of them, at most once.                               *)
ExactlyOnce ==
  \A s \in Subscribers, m \in Messages :
    /\ Copies(s, m) <= (IF s \in audience[m] THEN 1 ELSE 0)
    /\ outcome[m] = "sent" /\ s \in audience[m] => Copies(s, m) = 1

(* Every subscriber gets the messages of one publisher in the order they were *)
(* published, however often its puts were overtaken while they waited.        *)
PublisherOrder ==
  \A s \in Subscribers : \A i, j \in DOMAIN Delivered(s) :
    i < j /\ Delivered(s)[i][1] = Delivered(s)[j][1]
      => Delivered(s)[i][2] < Delivered(s)[j][2]

(* Every publish comes to an end unless a subscriber of its own snapshot has  *)
(* stopped iterating: a full queue elsewhere, an overtaken put or a cancelled *)
(* neighbour never holds it up for ever.                                      *)
EveryPublishEnds ==
  \A m \in Messages :
    (outcome[m] = "sending") ~> (outcome[m] # "sending" \/ audience[m] \cap abandoned # {})

(* A subscriber that keeps iterating gets every message published to it, even *)
(* when the publish was broken off or still waits for somebody else.          *)
EveryMessageYielded ==
  \A m \in Messages, s \in Subscribers :
    (m \in Members(queue[s])) ~> (m \in Members(received[s]) \/ s \in abandoned)

(* publish never waits: "backpressure surfaces as QueueFull from publish,     *)
(* which the publisher must handle" (bus.py:60-62).                           *)
PublishNeverWaits == \A p \in Publishers : ~Waiting(p)
=============================================================================
