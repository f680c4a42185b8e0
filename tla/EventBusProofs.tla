--------------------------- MODULE EventBusProofs ---------------------------
(***************************************************************************)
(* Theorems about EventBus for every set of subscribers and streams, every *)
(* finite set of publishers and every queue size: type correctness, with   *)
(* the bound on the queues; that no free slot of a queue is left to        *)
(* publishers that sleep; and that every subscriber of a publish's         *)
(* snapshot is given the message once, in its publisher's order.           *)
(***************************************************************************)
EXTENDS EventBus, FiniteSetTheorems, WellFoundedInduction, TLAPS

-----------------------------------------------------------------------------
(* Lists. *)
Once(list) == \A i, j \in DOMAIN list : list[i] = list[j] => i = j

LEMMA MembersIn ==
  ASSUME NEW S, NEW list \in Seq(S)
  PROVE  Members(list) \subseteq S
BY DEF Members

LEMMA EmptyList ==
  ASSUME NEW S, NEW list \in Seq(S)
  PROVE  (list = <<>> <=> Len(list) = 0) /\ (list # <<>> => Head(list) = list[1])
OBVIOUS

LEMMA AppendList ==
  ASSUME NEW S, NEW list \in Seq(S), NEW x \in S
  PROVE  /\ Append(list, x) \in Seq(S) /\ Append(list, x) # <<>>
         /\ Len(Append(list, x)) = Len(list) + 1
         /\ Members(Append(list, x)) = Members(list) \cup {x}
         /\ Once(list) /\ x \notin Members(list) => Once(Append(list, x))
<1>1. /\ Append(list, x) \in Seq(S) /\ Len(Append(list, x)) = Len(list) + 1
      /\ \A i \in 1..Len(list) : Append(list, x)[i] = list[i]
      /\ Append(list, x)[Len(list) + 1] = x
  OBVIOUS
<1>2. DOMAIN list = 1..Len(list) /\ DOMAIN Append(list, x) = 1..Len(list) + 1 /\ Len(list) \in Nat
  BY <1>1
<1>3. Members(Append(list, x)) = Members(list) \cup {x}
  BY <1>1, <1>2 DEF Members
<1>4. Once(list) /\ x \notin Members(list) => Once(Append(list, x))
  BY <1>1, <1>2 DEF Members, Once
<1>5. Append(list, x) # <<>>
  <2>1. Len(Append(list, x)) # 0 /\ Len(<<>>) = 0
    BY <1>1, <1>2
  <2> QED BY <2>1
<1> QED BY <1>1, <1>3, <1>4, <1>5

LEMMA TailList ==
  ASSUME NEW S, NEW list \in Seq(S), list # <<>>
  PROVE  /\ Head(list) \in S /\ Tail(list) \in Seq(S) /\ Len(Tail(list)) = Len(list) - 1
         /\ Members(list) = Members(Tail(list)) \cup {Head(list)}
         /\ Once(list) => Once(Tail(list)) /\ Head(list) \notin Members(Tail(list))
<1>1. /\ Len(list) \in Nat \ {0} /\ DOMAIN list = 1..Len(list)
      /\ Head(list) = list[1] /\ Tail(list) \in Seq(S) /\ Len(Tail(list)) = Len(list) - 1
      /\ DOMAIN Tail(list) = 1..Len(list) - 1
      /\ \A i \in 1..Len(list) - 1 : Tail(list)[i] = list[i + 1]
  OBVIOUS
<1>2. ASSUME NEW i \in 1..Len(list)
      PROVE  i = 1 \/ (i - 1 \in 1..Len(list) - 1 /\ list[i] = Tail(list)[i - 1])
  BY <1>1
<1>3. Members(list) = Members(Tail(list)) \cup {Head(list)}
  <2>1. ASSUME NEW i \in 1..Len(list)
        PROVE  list[i] \in Members(Tail(list)) \cup {Head(list)}
    BY <1>1, <1>2 DEF Members
  <2>2. ASSUME NEW i \in 1..Len(list) - 1
        PROVE  Tail(list)[i] \in Members(list)
    BY <1>1 DEF Members
  <2>3. Head(list) \in Members(list)
    BY <1>1 DEF Members
  <2> QED BY <1>1, <2>1, <2>2, <2>3 DEF Members
<1>4. Once(list) => Once(Tail(list)) /\ Head(list) \notin Members(Tail(list))
  BY <1>1 DEF Members, Once
<1> QED BY <1>1, <1>3, <1>4

LEMMA WithoutList ==
  ASSUME NEW S, NEW list \in Seq(S), Once(list), NEW x
  PROVE  /\ Without(list, x) \in Seq(S) /\ Once(Without(list, x))
         /\ Members(Without(list, x)) = Members(list) \ {x}
<1>1. CASE x \notin Members(list)
  BY <1>1 DEF Without
<1>2. CASE x \in Members(list)
  <2> DEFINE n == Len(list)
             i == CHOOSE k \in DOMAIN list : list[k] = x
             rest1 == [j \in 1..n - 1 |-> list[IF j < i THEN j ELSE j + 1]]
  <2>1. n \in Nat /\ DOMAIN list = 1..n /\ i \in 1..n /\ list[i] = x
    BY <1>2 DEF Members
  <2> HIDE DEF i
  <2>2. Without(list, x) = rest1
    BY <1>2 DEF Without, i
  <2>3. n - 1 \in Nat /\ \A j \in 1..n - 1 : (IF j < i THEN j ELSE j + 1) \in 1..n
    BY <2>1
  <2>4. rest1 \in Seq(S) /\ DOMAIN rest1 = 1..n - 1
    BY <2>1, <2>3
  <2>5. Once(rest1)
    <3>1. ASSUME NEW a \in 1..n - 1, NEW b \in 1..n - 1, rest1[a] = rest1[b]
          PROVE  a = b
      <4>1. (IF a < i THEN a ELSE a + 1) = (IF b < i THEN b ELSE b + 1)
        BY <2>1, <2>3, <3>1 DEF Once
      <4> QED BY <2>1, <4>1
    <3> QED BY <2>4, <3>1 DEF Once
  <2>6. ASSUME NEW y \in Members(list), y # x
        PROVE  y \in Members(rest1)
    <3>1. PICK k \in 1..n : list[k] = y
      BY <2>1 DEF Members
    <3>2. CASE k < i
      <4>1. k \in 1..n - 1 /\ rest1[k] = y
        BY <2>1, <3>1, <3>2
      <4> QED BY <4>1 DEF Members
    <3>3. CASE k > i
      <4>1. k - 1 \in 1..n - 1 /\ rest1[k - 1] = y
        BY <2>1, <3>1, <3>3
      <4> QED BY <4>1 DEF Members
    <3> QED BY <2>1, <2>6, <3>1, <3>2, <3>3
  <2>7. ASSUME NEW y \in Members(rest1)
        PROVE  y \in Members(list) /\ y # x
    BY <2>1, <2>3 DEF Members, Once
  <2> QED BY <2>2, <2>4, <2>5, <2>6, <2>7
<1> QED BY <1>1, <1>2

(* The first full queue of a list, or the end of the list, exists. *)
LEMMA FirstFullIsFirst ==
  ASSUME NEW S, NEW list \in Seq(S)
  PROVE  LET k == FirstFull(list)
         IN  /\ k \in 1..Len(list) + 1
             /\ \A i \in 1..k - 1 : ~Full(list[i])
             /\ k <= Len(list) => Full(list[k])
<1> DEFINE n == Len(list)
           T == {k \in 1..n + 1 : k <= n => Full(list[k])}
<1>1. n \in Nat
  OBVIOUS
<1>2. T \subseteq Nat /\ n + 1 \in T
  BY <1>1
<1>3. PICK k \in T : \A y \in T : ~(<<y, k>> \in OpToRel(<, Nat))
  BY <1>2, WFMin, NatLessThanWellFounded
<1>4. \A y \in T : ~(y < k)
  BY <1>2, <1>3 DEF OpToRel
<1>5. ASSUME NEW i \in 1..k - 1
      PROVE  ~Full(list[i])
  <2>1. i \in 1..n + 1 /\ i < k
    BY <1>1
  <2>2. i \notin T
    BY <1>4, <2>1
  <2> QED BY <2>1, <2>2
<1>6. \E j \in 1..n + 1 : /\ \A i \in 1..j - 1 : ~Full(list[i])
                          /\ j <= n => Full(list[j])
  BY <1>5
<1> QED BY <1>6 DEF FirstFull

(* The part of a list before a place, and the part from there on. *)
LEMMA SplitList ==
  ASSUME NEW S, NEW list \in Seq(S), NEW k \in 1..Len(list) + 1
  PROVE  /\ Members(SubSeq(list, 1, k - 1)) = {list[i] : i \in 1..k - 1}
         /\ SubSeq(list, k, Len(list)) \in Seq(S)
         /\ k > Len(list) => SubSeq(list, k, Len(list)) = <<>>
         /\ k <= Len(list) => /\ SubSeq(list, k, Len(list)) # <<>>
                              /\ Head(SubSeq(list, k, Len(list))) = list[k]
<1> DEFINE before == SubSeq(list, 1, k - 1)
           from == SubSeq(list, k, Len(list))
<1>1. Len(list) \in Nat /\ k \in Nat /\ k - 1 \in 0..Len(list) /\ k >= 1
  OBVIOUS
<1>2. /\ before \in Seq(S) /\ DOMAIN before = 1..k - 1
      /\ \A i \in 1..k - 1 : before[i] = list[i]
  BY <1>1
<1>3. from \in Seq(S) /\ Len(from) = Len(list) - k + 1
  BY <1>1
<1>4. k > Len(list) => Len(from) = 0
  BY <1>1, <1>3
<1>5. k <= Len(list) => Len(from) # 0 /\ from[1] = list[k]
  BY <1>1, <1>3
<1>6. Members(before) = {list[i] : i \in 1..k - 1}
  BY <1>2 DEF Members
<1>7. (from = <<>> <=> Len(from) = 0) /\ (from # <<>> => Head(from) = from[1])
  BY <1>3, EmptyList
<1> QED BY <1>3, <1>4, <1>5, <1>6, <1>7

-----------------------------------------------------------------------------
(* A publisher waits in a queue's list once, and not while it is woken: this  *)
(* makes the type invariant inductive.                                        *)
OnceWaiting ==
  \A s \in Subscribers : Once(putters[s]) /\ Members(putters[s]) \cap woken[s] = {}

(* A publish that waits was begun. *)
WaitingWasSent == \A p \in Publishers : Waiting(p) => sent[p] > 0

IInv == TypeOK /\ OnceWaiting /\ WaitingWasSent

(* What the puts of a publish do to the queues and to those who wait. *)
PutsDone(p, list) ==
  /\ queue' \in [Subscribers -> Seq(Messages)]
  /\ putters' \in [Subscribers -> Seq(Publishers)]
  /\ rest' \in [Publishers -> Seq(Subscribers)]
  /\ outcome' \in [Messages -> Outcomes]
  /\ \A s \in Subscribers :
       /\ Len(queue'[s]) <= MaxSize /\ Len(queue[s]) <= Len(queue'[s])
       /\ Once(putters'[s])
       /\ Members(putters'[s]) =
            Members(putters[s]) \cup (IF rest'[p] # <<>> /\ Head(rest'[p]) = s THEN {p} ELSE {})
       /\ putters'[s] = putters[s] \/ Full(s)
       /\ list # <<>> /\ Head(list) = s => Full(s) \/ Len(queue'[s]) = Len(queue[s]) + 1
  /\ \A q \in Publishers : q # p => rest'[q] = rest[q]

LEMMA PutsAreDone ==
  ASSUME IInv, NEW p \in Publishers, NEW m \in Messages, NEW list \in Seq(Subscribers),
         \A s \in Subscribers : p \notin Members(putters[s]),
         PutInto(p, m, list)
  PROVE  PutsDone(p, list)
<1> DEFINE k == FirstFull(list)
           reached == {list[i] : i \in 1..k - 1}
<1>t. /\ queue \in [Subscribers -> Seq(Messages)] /\ putters \in [Subscribers -> Seq(Publishers)]
      /\ rest \in [Publishers -> Seq(Subscribers)] /\ outcome \in [Messages -> Outcomes]
      /\ \A s \in Subscribers : Len(queue[s]) <= MaxSize /\ Len(queue[s]) \in Nat
      /\ \A s \in Subscribers : Once(putters[s])
      /\ MaxSize \in Nat \ {0}
  BY SizesAssumption DEF IInv, TypeOK, OnceWaiting
<1>1. /\ k \in 1..Len(list) + 1 /\ \A i \in 1..k - 1 : ~Full(list[i])
      /\ k <= Len(list) => Full(list[k])
  BY FirstFullIsFirst
<1>2. /\ queue' = [s \in Subscribers |-> IF s \in reached THEN Append(queue[s], m) ELSE queue[s]]
      /\ rest' = [rest EXCEPT ![p] = SubSeq(list, k, Len(list))]
  BY <1>1, SplitList DEF PutInto
<1>n. Len(list) \in Nat /\ k \in Nat
  BY <1>1
<1>3. /\ k > Len(list) => putters' = putters /\ outcome' = [outcome EXCEPT ![m] = "sent"]
      /\ k <= Len(list) => /\ putters' = [putters EXCEPT ![list[k]] = Append(putters[list[k]], p)]
                           /\ outcome' = [outcome EXCEPT ![m] = "sending"]
  BY <1>n DEF PutInto
<1>l. k <= Len(list) => list[k] \in Subscribers
  BY <1>1, <1>n
<1> HIDE DEF k
<1>4. /\ SubSeq(list, k, Len(list)) \in Seq(Subscribers)
      /\ k > Len(list) => rest'[p] = <<>>
      /\ k <= Len(list) => rest'[p] # <<>> /\ Head(rest'[p]) = list[k]
      /\ rest' \in [Publishers -> Seq(Subscribers)]
      /\ \A q \in Publishers : q # p => rest'[q] = rest[q]
  BY <1>t, <1>1, <1>2, SplitList
<1>5. outcome' \in [Messages -> Outcomes]
  <2>1. k > Len(list) \/ k <= Len(list)
    BY <1>n
  <2>2. outcome' = [outcome EXCEPT ![m] = "sent"] \/ outcome' = [outcome EXCEPT ![m] = "sending"]
    BY <1>3, <2>1
  <2> QED BY <1>t, <2>2 DEF Outcomes
<1>6. \A s \in Subscribers : s \in reached => ~Full(s)
  BY <1>1
<1> HIDE DEF reached
<1>7. ASSUME NEW s \in Subscribers
      PROVE  /\ queue'[s] \in Seq(Messages)
             /\ Len(queue'[s]) <= MaxSize /\ Len(queue[s]) <= Len(queue'[s])
             /\ s \in reached => Len(queue'[s]) = Len(queue[s]) + 1
  <2>1. CASE s \in reached
    <3>1. queue'[s] = Append(queue[s], m) /\ queue[s] \in Seq(Messages)
      BY <1>t, <1>2, <2>1
    <3>2. queue'[s] \in Seq(Messages) /\ Len(queue'[s]) = Len(queue[s]) + 1
      BY <3>1, AppendList
    <3>3. Len(queue[s]) < MaxSize
      BY <1>t, <1>6, <2>1 DEF Full
    <3> QED BY <1>t, <3>2, <3>3
  <2>2. CASE s \notin reached
    BY <1>t, <1>2, <2>2
  <2> QED BY <2>1, <2>2
<1>8. queue' \in [Subscribers -> Seq(Messages)]
  BY <1>2, <1>7
<1>9. ASSUME NEW s \in Subscribers
      PROVE  /\ putters'[s] \in Seq(Publishers) /\ Once(putters'[s])
             /\ Members(putters'[s]) =
                  Members(putters[s])
                    \cup (IF rest'[p] # <<>> /\ Head(rest'[p]) = s THEN {p} ELSE {})
             /\ putters'[s] = putters[s] \/ Full(s)
  <2>1. CASE k <= Len(list) /\ list[k] = s
    <3>1. putters'[s] = Append(putters[s], p) /\ putters[s] \in Seq(Publishers)
      BY <1>t, <1>3, <2>1
    <3>2. p \notin Members(putters[s]) /\ Once(putters[s])
      BY <1>t
    <3>3. /\ putters'[s] \in Seq(Publishers) /\ Once(putters'[s])
          /\ Members(putters'[s]) = Members(putters[s]) \cup {p}
      BY <3>1, <3>2, AppendList
    <3> QED BY <1>1, <1>4, <2>1, <3>3
  <2>2. CASE ~(k <= Len(list) /\ list[k] = s)
    <3>1. putters'[s] = putters[s]
      BY <1>t, <1>n, <1>l, <1>3, <2>2
    <3>2. ~(rest'[p] # <<>> /\ Head(rest'[p]) = s)
      BY <1>n, <1>4, <2>2
    <3> QED BY <1>t, <3>1, <3>2
  <2> QED BY <2>1, <2>2
<1>10. putters' \in [Subscribers -> Seq(Publishers)]
  <2>1. putters' = [s \in Subscribers |-> putters'[s]]
    BY <1>t, <1>n, <1>3
  <2> QED BY <1>9, <2>1
<1>11. ASSUME NEW s \in Subscribers, list # <<>>, Head(list) = s
       PROVE  Full(s) \/ Len(queue'[s]) = Len(queue[s]) + 1
  <2>1. Len(list) >= 1 /\ list[1] = s
    BY <1>11
  <2>2. CASE k = 1
    BY <1>1, <1>n, <2>1, <2>2
  <2>3. CASE k # 1
    <3>1. 1 \in 1..k - 1
      BY <1>1, <1>n, <2>3
    <3>2. s \in reached
      BY <2>1, <3>1 DEF reached
    <3> QED BY <1>7, <3>2
  <2> QED BY <2>2, <2>3
<1> QED BY <1>4, <1>5, <1>7, <1>8, <1>9, <1>10, <1>11 DEF PutsDone

-----------------------------------------------------------------------------
(* Waking the first who waits moves him from the one list to the other. *)
LEMMA Woken ==
  ASSUME IInv, NEW s \in Subscribers, NEW others \in SUBSET woken[s],
         WakeNext(s, putters[s], others)
  PROVE  /\ putters' \in [Subscribers -> Seq(Publishers)]
         /\ woken' \in [Subscribers -> SUBSET Publishers]
         /\ Once(putters'[s]) /\ Members(putters'[s]) \cap woken'[s] = {}
         /\ Members(putters'[s]) \cup woken'[s] = Members(putters[s]) \cup others
         /\ \A t \in Subscribers : t # s => putters'[t] = putters[t] /\ woken'[t] = woken[t]
         /\ putters'[s] # <<>> => /\ putters[s] # <<>>
                                  /\ Cardinality(woken'[s]) = Cardinality(others) + 1
<1>t. /\ putters \in [Subscribers -> Seq(Publishers)] /\ woken \in [Subscribers -> SUBSET Publishers]
      /\ putters[s] \in Seq(Publishers) /\ Once(putters[s])
      /\ Members(putters[s]) \cap others = {} /\ others \subseteq Publishers
  BY DEF IInv, TypeOK, OnceWaiting
<1>f. IsFiniteSet(others)
  BY <1>t, PublishersAssumption, FS_Subset
<1>1. CASE putters[s] = <<>>
  BY <1>t, <1>1 DEF WakeNext
<1>2. CASE putters[s] # <<>>
  <2>1. /\ putters' = [putters EXCEPT ![s] = Tail(putters[s])]
        /\ woken' = [woken EXCEPT ![s] = others \cup {Head(putters[s])}]
    BY <1>2 DEF WakeNext
  <2>2. /\ Head(putters[s]) \in Publishers /\ Tail(putters[s]) \in Seq(Publishers)
        /\ Members(putters[s]) = Members(Tail(putters[s])) \cup {Head(putters[s])}
        /\ Once(Tail(putters[s])) /\ Head(putters[s]) \notin Members(Tail(putters[s]))
    BY <1>t, <1>2, TailList
  <2>3. Head(putters[s]) \notin others
    BY <1>t, <2>2
  <2>4. Cardinality(others \cup {Head(putters[s])}) = Cardinality(others) + 1
    BY <1>f, <2>3, FS_AddElement
  <2>5. /\ putters'[s] = Tail(putters[s]) /\ woken'[s] = others \cup {Head(putters[s])}
        /\ \A t \in Subscribers : t # s => putters'[t] = putters[t] /\ woken'[t] = woken[t]
        /\ putters' \in [Subscribers -> Seq(Publishers)]
        /\ woken' \in [Subscribers -> SUBSET Publishers]
    BY <1>t, <2>1, <2>2
  <2> QED BY <1>t, <2>2, <2>3, <2>4, <2>5
<1> QED BY <1>1, <1>2

(* Who waits where, after the puts of one publisher who waited nowhere.       *)
LEMMA PutsKeepPlaces ==
  ASSUME IInv, NEW p \in Publishers, NEW list, PutsDone(p, list),
         woken' \in [Subscribers -> SUBSET Publishers],
         \A s \in Subscribers : woken'[s] = woken[s] \ {p},
         \A s \in Subscribers : p \notin Members(putters[s])
  PROVE  /\ \A q \in Publishers, s \in Subscribers :
              (q \in Members(putters'[s]) \cup woken'[s]) <=> (Waiting(q)' /\ At(q)' = s)
         /\ OnceWaiting'
<1>1. ASSUME NEW q \in Publishers, NEW s \in Subscribers
      PROVE  (q \in Members(putters'[s]) \cup woken'[s]) <=> (Waiting(q)' /\ At(q)' = s)
  <2>1. CASE q = p
    BY <2>1 DEF PutsDone, Waiting, At
  <2>2. CASE q # p
    <3>1. rest'[q] = rest[q] /\ (q \in Members(putters'[s]) <=> q \in Members(putters[s]))
      BY <2>2 DEF PutsDone
    <3>2. (q \in Members(putters[s]) \cup woken[s]) <=> (Waiting(q) /\ At(q) = s)
      BY DEF IInv, TypeOK
    <3> QED BY <2>2, <3>1, <3>2 DEF Waiting, At
  <2> QED BY <2>1, <2>2
<1>2. OnceWaiting'
  <2> SUFFICES ASSUME NEW s \in Subscribers
               PROVE  Once(putters'[s]) /\ Members(putters'[s]) \cap woken'[s] = {}
    BY DEF OnceWaiting
  <2>1. Once(putters'[s]) /\ Members(putters'[s]) \subseteq Members(putters[s]) \cup {p}
    BY DEF PutsDone
  <2> QED BY <2>1 DEF IInv, OnceWaiting
<1> QED BY <1>1, <1>2

LEMMA PublishInv ==
  ASSUME IInv, NEW p \in Publishers, NEW st \in Streams, Publish(p, st)
  PROVE  IInv' /\ PutsDone(p, subscribers[st]) /\ woken' = woken
<1> DEFINE m == <<p, sent[p] + 1>>
<1>1. m \in Messages /\ sent[p] + 1 \in 0..PerPublisher /\ sent[p] \in Nat
  BY SizesAssumption DEF IInv, TypeOK, Publish, Messages
<1>2. subscribers[st] \in Seq(Subscribers)
  BY DEF IInv, TypeOK
<1>3. \A s \in Subscribers : p \notin Members(putters[s]) \cup woken[s]
  BY DEF IInv, TypeOK, Publish, Waiting
<1>4. PutsDone(p, subscribers[st])
  BY <1>1, <1>2, <1>3, PutsAreDone DEF Publish
<1>5. UNCHANGED <<subscribers, woken, received, abandoned, cancels>>
  BY DEF Publish
<1>6. /\ \A q \in Publishers, s \in Subscribers :
           (q \in Members(putters'[s]) \cup woken'[s]) <=> (Waiting(q)' /\ At(q)' = s)
      /\ OnceWaiting'
  <2>1. woken' \in [Subscribers -> SUBSET Publishers]
        /\ \A s \in Subscribers : woken'[s] = woken[s] \ {p}
    BY <1>3, <1>5 DEF IInv, TypeOK
  <2> QED BY <1>3, <1>4, <2>1, PutsKeepPlaces
<1>7. sent' \in [Publishers -> 0..PerPublisher] /\ audience' \in [Messages -> SUBSET Subscribers]
  <2>1. Members(subscribers[st]) \subseteq Subscribers
    BY <1>2, MembersIn
  <2> QED BY <1>1, <2>1 DEF IInv, TypeOK, Publish
<1>8. WaitingWasSent'
  <2> SUFFICES ASSUME NEW q \in Publishers, Waiting(q)' PROVE sent'[q] > 0
    BY DEF WaitingWasSent
  <2>1. CASE q = p
    BY <1>1, <2>1 DEF Publish, IInv, TypeOK
  <2>2. CASE q # p
    <3>1. rest'[q] = rest[q] /\ sent'[q] = sent[q]
      BY <1>4, <2>2 DEF PutsDone, Publish
    <3> QED BY <3>1 DEF IInv, WaitingWasSent, Waiting
  <2> QED BY <2>1, <2>2
<1>9. TypeOK'
  BY <1>4, <1>5, <1>6, <1>7 DEF IInv, TypeOK, PutsDone
<1> QED BY <1>4, <1>5, <1>6, <1>8, <1>9 DEF IInv

LEMMA ResumeInv ==
  ASSUME IInv, NEW p \in Publishers, Resume(p)
  PROVE  /\ IInv' /\ PutsDone(p, rest[p])
         /\ At(p) \in Subscribers /\ p \in woken[At(p)]
         /\ \A s \in Subscribers : woken'[s] = IF s = At(p) THEN woken[s] \ {p} ELSE woken[s]
<1>t. /\ woken \in [Subscribers -> SUBSET Publishers] /\ rest[p] \in Seq(Subscribers)
      /\ rest[p] # <<>> /\ p \in woken[At(p)]
      /\ woken' = [woken EXCEPT ![At(p)] = @ \ {p}]
  BY DEF IInv, TypeOK, Resume, Waiting
<1>0. At(p) \in Subscribers
  BY <1>t, TailList DEF At
<1>1. Current(p) \in Messages
  BY <1>t, SizesAssumption DEF IInv, TypeOK, WaitingWasSent, Waiting, Current, Messages
<1>3. \A s \in Subscribers : p \notin Members(putters[s]) /\ (p \in woken[s] => s = At(p))
  <2>1. \A s \in Subscribers : (p \in Members(putters[s]) \cup woken[s]) => At(p) = s
    BY DEF IInv, TypeOK
  <2>2. p \notin Members(putters[At(p)])
    BY <1>0, <1>t DEF IInv, OnceWaiting
  <2> QED BY <2>1, <2>2
<1>4. PutsDone(p, rest[p])
  BY <1>t, <1>1, <1>3, PutsAreDone DEF Resume
<1>5. UNCHANGED <<subscribers, sent, audience, received, abandoned, cancels>>
  BY DEF Resume
<1>6. /\ \A q \in Publishers, s \in Subscribers :
           (q \in Members(putters'[s]) \cup woken'[s]) <=> (Waiting(q)' /\ At(q)' = s)
      /\ OnceWaiting' /\ woken' \in [Subscribers -> SUBSET Publishers]
  <2>1. woken' \in [Subscribers -> SUBSET Publishers]
        /\ \A s \in Subscribers : woken'[s] = woken[s] \ {p}
    BY <1>t, <1>0, <1>3
  <2> QED BY <1>3, <1>4, <2>1, PutsKeepPlaces
<1>8. WaitingWasSent'
  <2> SUFFICES ASSUME NEW q \in Publishers, Waiting(q)' PROVE sent'[q] > 0
    BY DEF WaitingWasSent
  <2>1. CASE q = p
    BY <1>t, <1>5, <2>1 DEF IInv, WaitingWasSent, Waiting
  <2>2. CASE q # p
    <3>1. rest'[q] = rest[q] /\ sent'[q] = sent[q]
      BY <1>4, <1>5, <2>2 DEF PutsDone
    <3> QED BY <3>1 DEF IInv, WaitingWasSent, Waiting
  <2> QED BY <2>1, <2>2
<1>9. TypeOK'
  BY <1>4, <1>5, <1>6 DEF IInv, TypeOK, PutsDone
<1> QED BY <1>0, <1>t, <1>4, <1>6, <1>8, <1>9 DEF IInv

(* A get takes one message and wakes the first who waits. *)
LEMMA ConsumeInv ==
  ASSUME IInv, NEW s \in Subscribers, Consume(s)
  PROVE  /\ IInv' /\ queue'[s] \in Seq(Messages) /\ Len(queue'[s]) = Len(queue[s]) - 1
         /\ \A t \in Subscribers : t # s => /\ queue'[t] = queue[t]
                                            /\ putters'[t] = putters[t] /\ woken'[t] = woken[t]
         /\ putters'[s] # <<>> => /\ putters[s] # <<>>
                                  /\ Cardinality(woken'[s]) = Cardinality(woken[s]) + 1
<1>t. /\ queue \in [Subscribers -> Seq(Messages)] /\ received \in [Subscribers -> Seq(Messages)]
      /\ \A t \in Subscribers : Len(queue[t]) <= MaxSize /\ Len(queue[t]) \in Nat
      /\ queue[s] # <<>> /\ queue' = [queue EXCEPT ![s] = Tail(@)]
      /\ received' = [received EXCEPT ![s] = Append(@, Head(queue[s]))]
      /\ WakeNext(s, putters[s], woken[s])
      /\ UNCHANGED <<subscribers, sent, rest, outcome, audience, abandoned, cancels>>
  BY DEF IInv, TypeOK, Consume
<1>1. /\ putters' \in [Subscribers -> Seq(Publishers)]
      /\ woken' \in [Subscribers -> SUBSET Publishers]
      /\ Once(putters'[s]) /\ Members(putters'[s]) \cap woken'[s] = {}
      /\ Members(putters'[s]) \cup woken'[s] = Members(putters[s]) \cup woken[s]
      /\ \A t \in Subscribers : t # s => putters'[t] = putters[t] /\ woken'[t] = woken[t]
      /\ putters'[s] # <<>> => /\ putters[s] # <<>>
                               /\ Cardinality(woken'[s]) = Cardinality(woken[s]) + 1
  BY <1>t, Woken
<1>2. /\ Head(queue[s]) \in Messages /\ Tail(queue[s]) \in Seq(Messages)
      /\ Len(Tail(queue[s])) = Len(queue[s]) - 1
  BY <1>t, TailList
<1>3. /\ queue' \in [Subscribers -> Seq(Messages)] /\ queue'[s] = Tail(queue[s])
      /\ \A t \in Subscribers : t # s => queue'[t] = queue[t]
      /\ received' \in [Subscribers -> Seq(Messages)]
  BY <1>t, <1>2
<1>4. \A t \in Subscribers : Len(queue'[t]) <= MaxSize
  <2> SUFFICES ASSUME NEW t \in Subscribers PROVE Len(queue'[t]) <= MaxSize
    OBVIOUS
  <2> QED BY <1>t, <1>2, <1>3, SizesAssumption
<1>5. ASSUME NEW q \in Publishers, NEW t \in Subscribers
      PROVE  (q \in Members(putters'[t]) \cup woken'[t]) <=> (Waiting(q)' /\ At(q)' = t)
  <2>1. (q \in Members(putters[t]) \cup woken[t]) <=> (Waiting(q) /\ At(q) = t)
    BY DEF IInv, TypeOK
  <2>2. Members(putters'[t]) \cup woken'[t] = Members(putters[t]) \cup woken[t]
    BY <1>1
  <2>3. (Waiting(q)' <=> Waiting(q)) /\ At(q)' = At(q)
    BY <1>t DEF Waiting, At
  <2> QED BY <2>1, <2>2, <2>3
<1>6. TypeOK'
  BY <1>t, <1>1, <1>3, <1>4, <1>5 DEF IInv, TypeOK
<1>7. OnceWaiting'
  BY <1>1 DEF IInv, OnceWaiting
<1>8. WaitingWasSent'
  BY <1>t DEF IInv, WaitingWasSent, Waiting
<1> QED BY <1>1, <1>2, <1>3, <1>6, <1>7, <1>8 DEF IInv

(* What a cancelled put leaves behind: room is still on offer. *)
LEMMA CancelInv ==
  ASSUME IInv, NEW p \in Publishers, CancelPublish(p)
  PROVE  /\ IInv' /\ At(p) \in Subscribers /\ UNCHANGED queue
         /\ \A t \in Subscribers : t # At(p) => putters'[t] = putters[t] /\ woken'[t] = woken[t]
         /\ \/ putters'[At(p)] # <<>> =>
                 putters[At(p)] # <<>> /\ Cardinality(woken'[At(p)]) = Cardinality(woken[At(p)])
            \/ Full(At(p))
            \/ /\ putters'[At(p)] # <<>> => putters[At(p)] # <<>>
               /\ woken'[At(p)] = woken[At(p)]
<1> DEFINE s == At(p)
           others == woken[s] \ {p}
<1>t. /\ rest[p] # <<>> /\ rest[p] \in Seq(Subscribers) /\ rest' = [rest EXCEPT ![p] = <<>>]
      /\ cancels' \in 0..MaxCancels
      /\ putters \in [Subscribers -> Seq(Publishers)] /\ woken \in [Subscribers -> SUBSET Publishers]
      /\ outcome' = [outcome EXCEPT ![Current(p)] = "cancelled"]
      /\ UNCHANGED <<subscribers, queue, sent, audience, received, abandoned>>
  BY SizesAssumption DEF IInv, TypeOK, CancelPublish, Waiting
<1>0. s \in Subscribers
  BY <1>t, TailList DEF At
<1>1. outcome' \in [Messages -> Outcomes] /\ rest' \in [Publishers -> Seq(Subscribers)]
      /\ rest'[p] = <<>> /\ \A q \in Publishers : q # p => rest'[q] = rest[q]
  <2>1. outcome \in [Messages -> Outcomes] /\ rest \in [Publishers -> Seq(Subscribers)]
    BY DEF IInv, TypeOK
  <2>2. "cancelled" \in Outcomes /\ <<>> \in Seq(Subscribers)
    BY DEF Outcomes
  <2>3. outcome' \in [Messages -> Outcomes]
    BY <1>t, <2>1, <2>2
  <2>4. /\ rest' \in [Publishers -> Seq(Subscribers)]
        /\ rest'[p] = <<>> /\ \A q \in Publishers : q # p => rest'[q] = rest[q]
    BY <1>t, <2>1, <2>2
  <2> QED BY <2>3, <2>4
<1>2. /\ putters[s] \in Seq(Publishers) /\ Once(putters[s]) /\ Members(putters[s]) \cap woken[s] = {}
  BY <1>0, <1>t DEF IInv, OnceWaiting
<1>3. /\ putters' \in [Subscribers -> Seq(Publishers)]
      /\ woken' \in [Subscribers -> SUBSET Publishers]
      /\ Once(putters'[s]) /\ Members(putters'[s]) \cap woken'[s] = {}
      /\ Members(putters'[s]) \cup woken'[s] = (Members(putters[s]) \cup woken[s]) \ {p}
      /\ \A t \in Subscribers : t # s => putters'[t] = putters[t] /\ woken'[t] = woken[t]
      /\ \/ putters'[s] # <<>> =>
              putters[s] # <<>> /\ Cardinality(woken'[s]) = Cardinality(woken[s])
         \/ Full(s)
         \/ (putters'[s] # <<>> => putters[s] # <<>>) /\ woken'[s] = woken[s]
  <2>1. CASE p \in woken[s] /\ ~Full(s)
    <3>1. WakeNext(s, putters[s], others) /\ others \in SUBSET woken[s]
      BY <2>1 DEF CancelPublish
    <3>2. /\ putters' \in [Subscribers -> Seq(Publishers)]
          /\ woken' \in [Subscribers -> SUBSET Publishers]
          /\ Once(putters'[s]) /\ Members(putters'[s]) \cap woken'[s] = {}
          /\ Members(putters'[s]) \cup woken'[s] = Members(putters[s]) \cup others
          /\ \A t \in Subscribers : t # s => putters'[t] = putters[t] /\ woken'[t] = woken[t]
          /\ putters'[s] # <<>> => /\ putters[s] # <<>>
                                   /\ Cardinality(woken'[s]) = Cardinality(others) + 1
      BY <1>0, <3>1, Woken
    <3>3. IsFiniteSet(woken[s])
      BY <1>0, <1>t, PublishersAssumption, FS_Subset
    <3>4. Cardinality(others) = Cardinality(woken[s]) - 1 /\ Cardinality(woken[s]) \in Nat
      BY <2>1, <3>3, FS_RemoveElement, FS_CardinalityType
    <3>5. Members(putters[s]) \cup others = (Members(putters[s]) \cup woken[s]) \ {p}
      BY <1>2, <2>1
    <3>6. putters'[s] # <<>> => Cardinality(woken'[s]) = Cardinality(woken[s])
      BY <3>2, <3>4
    <3> QED BY <3>2, <3>5, <3>6
  <2>2. CASE ~(p \in woken[s] /\ ~Full(s))
    <3>1. /\ putters' = [putters EXCEPT ![s] = Without(putters[s], p)]
          /\ woken' = [woken EXCEPT ![s] = others]
      BY <2>2 DEF CancelPublish
    <3>2. /\ Without(putters[s], p) \in Seq(Publishers) /\ Once(Without(putters[s], p))
          /\ Members(Without(putters[s], p)) = Members(putters[s]) \ {p}
      BY <1>2, WithoutList
    <3>3. /\ putters'[s] = Without(putters[s], p) /\ woken'[s] = others
          /\ \A t \in Subscribers : t # s => putters'[t] = putters[t] /\ woken'[t] = woken[t]
          /\ putters' \in [Subscribers -> Seq(Publishers)]
          /\ woken' \in [Subscribers -> SUBSET Publishers]
      BY <1>0, <1>t, <3>1, <3>2
    <3>4. p \notin woken[s] => woken'[s] = woken[s]
      BY <3>3
    <3>5. putters[s] = <<>> => putters'[s] = <<>>
      <4>1. Members(<<>>) = {}
        BY DEF Members
      <4> QED BY <3>3, <4>1 DEF Without
    <3> QED BY <1>2, <2>2, <3>2, <3>3, <3>4, <3>5
  <2> QED BY <2>1, <2>2
<1>4. ASSUME NEW q \in Publishers, NEW t \in Subscribers
      PROVE  (q \in Members(putters'[t]) \cup woken'[t]) <=> (Waiting(q)' /\ At(q)' = t)
  <2>1. (q \in Members(putters[t]) \cup woken[t]) <=> (Waiting(q) /\ At(q) = t)
    BY DEF IInv, TypeOK
  <2>2. CASE q = p
    <3>1. ~Waiting(q)'
      BY <1>1, <2>2 DEF Waiting
    <3>2. q \notin Members(putters'[t]) \cup woken'[t]
      BY <1>3, <2>1, <2>2
    <3> QED BY <3>1, <3>2
  <2>3. CASE q # p
    <3>1. (Waiting(q)' <=> Waiting(q)) /\ At(q)' = At(q)
      BY <1>1, <2>3 DEF Waiting, At
    <3>2. (q \in Members(putters'[t]) \cup woken'[t]) <=> (q \in Members(putters[t]) \cup woken[t])
      BY <1>3, <2>3
    <3> QED BY <2>1, <3>1, <3>2
  <2> QED BY <2>2, <2>3
<1>5. TypeOK'
  BY <1>t, <1>1, <1>3, <1>4 DEF IInv, TypeOK
<1>6. OnceWaiting'
  BY <1>3 DEF IInv, OnceWaiting
<1>7. WaitingWasSent'
  <2> SUFFICES ASSUME NEW q \in Publishers, Waiting(q)' PROVE sent'[q] > 0
    BY DEF WaitingWasSent
  <2>1. q # p /\ rest'[q] = rest[q]
    BY <1>1 DEF Waiting
  <2> QED BY <1>t, <2>1 DEF IInv, WaitingWasSent, Waiting
<1> QED BY <1>0, <1>t, <1>3, <1>5, <1>6, <1>7 DEF IInv

(* Subscribing, giving up and stuttering leave the queues alone. *)
LEMMA QuietInv ==
  ASSUME IInv,
         \/ \E s \in Subscribers, st \in Streams : Subscribe(s, st)
         \/ \E s \in Subscribers : Abandon(s)
         \/ UNCHANGED vars
  PROVE  IInv' /\ UNCHANGED <<queue, putters, woken>>
<1>1. UNCHANGED <<queue, putters, woken, sent, rest, outcome, audience, received, cancels>>
  BY DEF Subscribe, Abandon, vars, bus
<1>2. subscribers' \in [Streams -> Seq(Subscribers)]
  <2>1. CASE UNCHANGED subscribers
    BY <2>1 DEF IInv, TypeOK
  <2>2. ASSUME NEW s \in Subscribers, NEW st \in Streams, Subscribe(s, st)
        PROVE  subscribers' \in [Streams -> Seq(Subscribers)]
    <3>1. Append(subscribers[st], s) \in Seq(Subscribers)
      BY AppendList DEF IInv, TypeOK
    <3> QED BY <2>2, <3>1 DEF Subscribe, IInv, TypeOK
  <2> QED BY <2>1, <2>2 DEF Abandon, vars, bus
<1>3. abandoned' \subseteq MayAbandon
  BY DEF IInv, TypeOK, Subscribe, Abandon, vars
<1>4. ASSUME NEW q \in Publishers, NEW t \in Subscribers
      PROVE  (q \in Members(putters'[t]) \cup woken'[t]) <=> (Waiting(q)' /\ At(q)' = t)
  <2>1. (q \in Members(putters[t]) \cup woken[t]) <=> (Waiting(q) /\ At(q) = t)
    BY DEF IInv, TypeOK
  <2> QED BY <1>1, <2>1 DEF Waiting, At
<1>5. TypeOK'
  BY <1>1, <1>2, <1>3, <1>4 DEF IInv, TypeOK
<1>6. OnceWaiting' /\ WaitingWasSent'
  BY <1>1 DEF IInv, OnceWaiting, WaitingWasSent, Waiting
<1> QED BY <1>1, <1>5, <1>6 DEF IInv

-----------------------------------------------------------------------------
LEMMA IInvInit == Init => IInv
<1> SUFFICES ASSUME Init PROVE IInv
  OBVIOUS
<1>1. \A S : <<>> \in Seq(S)
  OBVIOUS
<1>2. Members(<<>>) = {} /\ Len(<<>>) = 0 /\ Once(<<>>)
  BY DEF Members, Once
<1>3. Messages = Publishers \X (1..PerPublisher) /\ "unsent" \in Outcomes
  BY DEF Messages, Outcomes
<1>4. \A p \in Publishers : ~Waiting(p)
  BY DEF Init, Waiting
<1>5. \A p \in Publishers, s \in Subscribers : p \notin Members(putters[s]) \cup woken[s]
  BY <1>2 DEF Init
<1>6. TypeOK
  BY <1>1, <1>2, <1>3, <1>4, <1>5, SizesAssumption DEF Init, TypeOK
<1>7. OnceWaiting
  BY <1>2 DEF Init, OnceWaiting
<1> QED BY <1>4, <1>6, <1>7 DEF IInv, WaitingWasSent

LEMMA IInvNext == IInv /\ [Next]_vars => IInv'
<1> SUFFICES ASSUME IInv, [Next]_vars PROVE IInv'
  OBVIOUS
<1>1. ASSUME NEW p \in Publishers, NEW st \in Streams, Publish(p, st) PROVE IInv'
  BY <1>1, PublishInv
<1>2. ASSUME NEW p \in Publishers, Resume(p) PROVE IInv'
  BY <1>2, ResumeInv
<1>3. ASSUME NEW p \in Publishers, CancelPublish(p) PROVE IInv'
  BY <1>3, CancelInv
<1>4. ASSUME NEW s \in Subscribers, Consume(s) PROVE IInv'
  BY <1>4, ConsumeInv
<1>5. ASSUME \/ \E s \in Subscribers, st \in Streams : Subscribe(s, st)
             \/ \E s \in Subscribers : Abandon(s)
             \/ UNCHANGED vars
      PROVE  IInv'
  BY <1>5, QuietInv
<1> QED BY <1>1, <1>2, <1>3, <1>4, <1>5 DEF Next

(* Type correctness, with the bound on every queue (bus.py:82) and every      *)
(* publish waiting at exactly the queue it got to.                            *)
THEOREM TypeCorrect == Spec => []TypeOK
<1>1. IInv => TypeOK
  BY DEF IInv
<1> QED BY <1>1, IInvInit, IInvNext, PTL DEF Spec

-----------------------------------------------------------------------------
LEMMA KeptInit == Init => NoLostWakeup
BY DEF Init, NoLostWakeup

LEMMA KeptNext == IInv /\ NoLostWakeup /\ [Next]_vars => NoLostWakeup'
<1> SUFFICES ASSUME IInv, NoLostWakeup, [Next]_vars,
                    NEW s \in Subscribers, putters'[s] # <<>>
             PROVE  MaxSize - Len(queue'[s]) <= Cardinality(woken'[s])
  BY DEF NoLostWakeup
<1>t. /\ MaxSize \in Nat /\ Len(queue[s]) \in Nat /\ IsFiniteSet(woken[s])
      /\ Cardinality(woken[s]) \in Nat
  <2>1. queue[s] \in Seq(Messages) /\ woken[s] \subseteq Publishers
    BY DEF IInv, TypeOK
  <2>2. IsFiniteSet(woken[s])
    BY <2>1, PublishersAssumption, FS_Subset
  <2> QED BY <2>1, <2>2, SizesAssumption, FS_CardinalityType
<1>k. putters[s] # <<>> => MaxSize - Len(queue[s]) <= Cardinality(woken[s])
  BY DEF NoLostWakeup
<1>f. Full(s) => MaxSize - Len(queue[s]) <= 0
  BY <1>t DEF Full
<1>1. ASSUME NEW p \in Publishers, NEW st \in Streams, Publish(p, st)
      PROVE  MaxSize - Len(queue'[s]) <= Cardinality(woken'[s])
  <2>1. PutsDone(p, subscribers[st]) /\ woken' = woken
    BY <1>1, PublishInv
  <2>2. /\ Len(queue[s]) <= Len(queue'[s]) /\ queue'[s] \in Seq(Messages)
        /\ putters'[s] = putters[s] \/ Full(s)
    BY <2>1 DEF PutsDone
  <2> QED BY <1>t, <1>k, <1>f, <2>1, <2>2
<1>2. ASSUME NEW p \in Publishers, Resume(p)
      PROVE  MaxSize - Len(queue'[s]) <= Cardinality(woken'[s])
  <2>1. /\ PutsDone(p, rest[p]) /\ p \in woken[At(p)] /\ rest[p] # <<>> /\ Head(rest[p]) = At(p)
        /\ woken'[s] = IF s = At(p) THEN woken[s] \ {p} ELSE woken[s]
    BY <1>2, ResumeInv DEF Resume, Waiting, At
  <2>2. /\ Len(queue[s]) <= Len(queue'[s]) /\ queue'[s] \in Seq(Messages)
        /\ putters'[s] = putters[s] \/ Full(s)
        /\ s = At(p) => Full(s) \/ Len(queue'[s]) = Len(queue[s]) + 1
    BY <2>1 DEF PutsDone
  <2>3. CASE s = At(p)
    <3>1. Cardinality(woken'[s]) = Cardinality(woken[s]) - 1 /\ Cardinality(woken'[s]) \in Nat
      BY <1>t, <2>1, <2>3, FS_RemoveElement, FS_CardinalityType
    <3> QED BY <1>t, <1>k, <1>f, <2>2, <2>3, <3>1
  <2>4. CASE s # At(p)
    BY <1>t, <1>k, <1>f, <2>1, <2>2, <2>4
  <2> QED BY <2>3, <2>4
<1>3. ASSUME NEW p \in Publishers, CancelPublish(p)
      PROVE  MaxSize - Len(queue'[s]) <= Cardinality(woken'[s])
  <2>1. /\ queue' = queue /\ At(p) \in Subscribers
        /\ s # At(p) => putters'[s] = putters[s] /\ woken'[s] = woken[s]
        /\ s = At(p) => \/ putters[s] # <<>> /\ Cardinality(woken'[s]) = Cardinality(woken[s])
                        \/ Full(s)
                        \/ putters[s] # <<>> /\ woken'[s] = woken[s]
    BY <1>3, CancelInv
  <2>2. Cardinality(woken'[s]) \in Nat
    <3>1. woken'[s] \subseteq Publishers
      BY <1>3, CancelInv DEF IInv, TypeOK
    <3> QED BY <3>1, PublishersAssumption, FS_Subset, FS_CardinalityType
  <2> QED BY <1>t, <1>k, <1>f, <2>1, <2>2
<1>4. ASSUME NEW c \in Subscribers, Consume(c)
      PROVE  MaxSize - Len(queue'[s]) <= Cardinality(woken'[s])
  <2>1. CASE c = s
    <3>1. /\ Len(queue'[s]) = Len(queue[s]) - 1 /\ putters[s] # <<>>
          /\ Cardinality(woken'[s]) = Cardinality(woken[s]) + 1
      BY <1>4, <2>1, ConsumeInv
    <3>2. MaxSize - Len(queue[s]) <= Cardinality(woken[s])
      BY <1>k, <3>1
    <3>3. \A n, c1 \in Nat : MaxSize - n <= c1 => MaxSize - (n - 1) <= c1 + 1
      BY <1>t
    <3>4. MaxSize - (Len(queue[s]) - 1) <= Cardinality(woken[s]) + 1
      BY <1>t, <3>2, <3>3
    <3> QED BY <3>1, <3>4
  <2>2. CASE c # s
    <3>1. queue'[s] = queue[s] /\ putters'[s] = putters[s] /\ woken'[s] = woken[s]
      BY <1>4, <2>2, ConsumeInv
    <3> QED BY <1>k, <3>1
  <2> QED BY <2>1, <2>2
<1>5. ASSUME \/ \E c \in Subscribers, st \in Streams : Subscribe(c, st)
             \/ \E c \in Subscribers : Abandon(c)
             \/ UNCHANGED vars
      PROVE  MaxSize - Len(queue'[s]) <= Cardinality(woken'[s])
  BY <1>5, <1>k, QuietInv
<1> QED BY <1>1, <1>2, <1>3, <1>4, <1>5 DEF Next

(* However gets, overtaking publishes and cancelled puts interleave, a free   *)
(* slot is on offer to a woken publisher as long as publishers wait for the   *)
(* queue (bus.py:74): nobody sleeps in front of room.                         *)
THEOREM WakeupsAreKept == Spec => []NoLostWakeup
<1> QED BY KeptInit, KeptNext, IInvInit, IInvNext, PTL DEF Spec
-----------------------------------------------------------------------------
(* What a subscriber has been given: the messages it took, then those still   *)
(* in its queue.  A get moves the border between the two and nothing else.    *)
LEMMA SameList ==
  ASSUME NEW S, NEW a \in Seq(S), NEW b \in Seq(S), Len(a) = Len(b),
         \A i \in 1..Len(a) : a[i] = b[i]
  PROVE  a = b
OBVIOUS

LEMMA Concatenated ==
  ASSUME NEW S, NEW a \in Seq(S), NEW b \in Seq(S)
  PROVE  /\ a \o b \in Seq(S) /\ Len(a \o b) = Len(a) + Len(b)
         /\ \A i \in 1..Len(a) + Len(b) : (a \o b)[i] = IF i <= Len(a) THEN a[i] ELSE b[i - Len(a)]
OBVIOUS

LEMMA MovedBorder ==
  ASSUME NEW S, NEW taken \in Seq(S), NEW waiting \in Seq(S), waiting # <<>>
  PROVE  Append(taken, Head(waiting)) \o Tail(waiting) = taken \o waiting
<1> DEFINE a == Append(taken, Head(waiting))
           b == Tail(waiting)
<1>1. /\ Len(taken) \in Nat /\ Len(waiting) \in Nat \ {0}
      /\ a \in Seq(S) /\ Len(a) = Len(taken) + 1 /\ b \in Seq(S) /\ Len(b) = Len(waiting) - 1
      /\ \A i \in 1..Len(taken) : a[i] = taken[i]
      /\ a[Len(taken) + 1] = waiting[1]
      /\ \A i \in 1..Len(waiting) - 1 : b[i] = waiting[i + 1]
  OBVIOUS
<1> HIDE DEF a, b
<1>2. /\ a \o b \in Seq(S) /\ Len(a \o b) = Len(taken) + Len(waiting)
      /\ taken \o waiting \in Seq(S) /\ Len(taken \o waiting) = Len(taken) + Len(waiting)
  <2>1. a \o b \in Seq(S) /\ Len(a \o b) = Len(a) + Len(b)
    BY <1>1, Concatenated
  <2>2. taken \o waiting \in Seq(S) /\ Len(taken \o waiting) = Len(taken) + Len(waiting)
    BY Concatenated
  <2>3. Len(a) + Len(b) = Len(taken) + Len(waiting)
    BY <1>1
  <2> QED BY <2>1, <2>2, <2>3
<1>3. ASSUME NEW i \in 1..Len(taken) + Len(waiting)
      PROVE  (a \o b)[i] = (taken \o waiting)[i]
  <2>1. /\ (a \o b)[i] = IF i <= Len(a) THEN a[i] ELSE b[i - Len(a)]
        /\ (taken \o waiting)[i] = IF i <= Len(taken) THEN taken[i] ELSE waiting[i - Len(taken)]
    BY <1>1, Concatenated
  <2>2. CASE i <= Len(taken)
    BY <1>1, <2>1, <2>2
  <2>3. CASE i = Len(taken) + 1
    BY <1>1, <2>1, <2>3
  <2>4. CASE i > Len(taken) + 1
    <3>1. /\ i - Len(a) \in 1..Len(waiting) - 1 /\ (i - Len(a)) + 1 = i - Len(taken)
          /\ ~(i <= Len(a)) /\ ~(i <= Len(taken))
      BY <1>1, <2>4
    <3> QED BY <1>1, <2>1, <3>1
  <2> QED BY <1>1, <2>2, <2>3, <2>4
<1>4. a \o b = taken \o waiting
  BY <1>2, <1>3, SameList
<1> QED BY <1>4 DEF a, b

LEMMA GivenOneMore ==
  ASSUME NEW S, NEW taken \in Seq(S), NEW waiting \in Seq(S), NEW x \in S
  PROVE  taken \o Append(waiting, x) = Append(taken \o waiting, x)
<1> DEFINE b == Append(waiting, x)
           c == taken \o waiting
           n == Len(taken) + Len(waiting)
<1>1. /\ Len(taken) \in Nat /\ Len(waiting) \in Nat
      /\ b \in Seq(S) /\ Len(b) = Len(waiting) + 1 /\ b[Len(waiting) + 1] = x
      /\ \A i \in 1..Len(waiting) : b[i] = waiting[i]
  OBVIOUS
<1>2. /\ c \in Seq(S) /\ Len(c) = n
      /\ \A i \in 1..n : c[i] = IF i <= Len(taken) THEN taken[i] ELSE waiting[i - Len(taken)]
  BY Concatenated
<1> HIDE DEF b, c
<1>3. /\ taken \o b \in Seq(S) /\ Len(taken \o b) = n + 1
      /\ \A i \in 1..n + 1 : (taken \o b)[i] = IF i <= Len(taken) THEN taken[i] ELSE b[i - Len(taken)]
  BY <1>1, Concatenated
<1> HIDE DEF n
<1>4. /\ Append(c, x) \in Seq(S) /\ Len(Append(c, x)) = n + 1 /\ Append(c, x)[n + 1] = x
      /\ \A i \in 1..n : Append(c, x)[i] = c[i]
  BY <1>2
<1>n. n = Len(taken) + Len(waiting) /\ n \in Nat
  BY <1>1 DEF n
<1>5. ASSUME NEW i \in 1..n + 1
      PROVE  (taken \o b)[i] = Append(c, x)[i]
  <2>1. CASE i = n + 1
    <3>1. ~(i <= Len(taken)) /\ i - Len(taken) = Len(waiting) + 1
      BY <1>1, <1>n, <2>1
    <3> QED BY <1>1, <1>3, <1>4, <2>1, <3>1
  <2>2. CASE i \in 1..n /\ i <= Len(taken)
    BY <1>2, <1>3, <1>4, <2>2
  <2>3. CASE i \in 1..n /\ ~(i <= Len(taken))
    <3>1. i - Len(taken) \in 1..Len(waiting)
      BY <1>1, <1>n, <2>3
    <3> QED BY <1>1, <1>2, <1>3, <1>4, <2>3, <3>1
  <2>4. i = n + 1 \/ i \in 1..n
    BY <1>n
  <2> QED BY <2>1, <2>2, <2>3, <2>4
<1>6. taken \o b = Append(c, x)
  BY <1>3, <1>4, <1>5, SameList
<1> QED BY <1>6 DEF b, c

(* The part of a list of different things after a place holds what the part   *)
(* before it does not.                                                        *)
LEMMA SplitOnce ==
  ASSUME NEW S, NEW list \in Seq(S), Once(list), NEW k \in 1..Len(list) + 1
  PROVE  /\ Once(SubSeq(list, k, Len(list)))
         /\ Members(SubSeq(list, k, Len(list)))
              = Members(list) \ Members(SubSeq(list, 1, k - 1))
<1> DEFINE n == Len(list)
           from == SubSeq(list, k, n)
<1>1. n \in Nat /\ k \in Nat /\ 1 <= k /\ k <= n + 1 /\ DOMAIN list = 1..n
  OBVIOUS
<1>2. /\ DOMAIN from = 1..(n - k + 1)
      /\ \A i \in 1..(n - k + 1) : from[i] = list[i + k - 1]
  BY <1>1
<1>3. Members(SubSeq(list, 1, k - 1)) = {list[i] : i \in 1..k - 1}
  BY SplitList
<1>4. \A i \in 1..(n - k + 1) : i + k - 1 \in k..n
  BY <1>1
<1> HIDE DEF from
<1>5. Once(from)
  <2> SUFFICES ASSUME NEW i \in 1..(n - k + 1), NEW j \in 1..(n - k + 1), from[i] = from[j]
               PROVE  i = j
    BY <1>2 DEF Once
  <2>1. i + k - 1 \in 1..n /\ j + k - 1 \in 1..n /\ list[i + k - 1] = list[j + k - 1]
    BY <1>1, <1>2
  <2>2. i + k - 1 = j + k - 1
    BY <1>1, <2>1 DEF Once
  <2> QED BY <1>1, <2>2
<1>6. ASSUME NEW x \in Members(from)
      PROVE  x \in Members(list) \ {list[i] : i \in 1..k - 1}
  <2>1. PICK j \in k..n : list[j] = x
    BY <1>2, <1>4 DEF Members
  <2>2. \A i \in 1..k - 1 : i \in 1..n /\ j \in 1..n /\ i # j
    BY <1>1
  <2>3. \A i \in 1..k - 1 : list[i] # x
    BY <1>1, <2>1, <2>2 DEF Once
  <2> QED BY <1>1, <2>1, <2>3 DEF Members
<1>7. ASSUME NEW x \in Members(list), x \notin {list[i] : i \in 1..k - 1}
      PROVE  x \in Members(from)
  <2>1. PICK j \in 1..n : list[j] = x
    BY <1>1 DEF Members
  <2>2. j \notin 1..k - 1
    BY <1>7, <2>1
  <2>3. j - k + 1 \in 1..(n - k + 1) /\ (j - k + 1) + k - 1 = j
    BY <1>1, <2>2
  <2>4. from[j - k + 1] = x
    BY <1>2, <2>1, <2>3
  <2> QED BY <1>2, <2>3, <2>4 DEF Members
<1> QED BY <1>3, <1>5, <1>6, <1>7 DEF from

-----------------------------------------------------------------------------
(* Numbers of one publisher's messages rise along the list. *)
InOrder(list) ==
  \A i, j \in DOMAIN list : i < j /\ list[i][1] = list[j][1] => list[i][2] < list[j][2]

(* Streams and snapshots name a queue once: a second subscription makes a     *)
(* queue of its own (bus.py:97).                                              *)
QueuesOnce ==
  /\ \A st \in Streams : Once(subscribers[st])
  /\ \A p \in Publishers : Once(rest[p])

(* What a subscriber was given was published to it and is not due to it any   *)
(* more.                                                                      *)
GivenWasDue ==
  \A s \in Subscribers : \A m \in Members(Delivered(s)) :
    /\ m[2] <= sent[m[1]] /\ s \in audience[m]
    /\ m[2] = sent[m[1]] => s \notin Members(rest[m[1]])

(* Of a publish that waits, each subscriber of the snapshot has the message   *)
(* or is still to come; a publish that returned left nobody out.              *)
DueIsGiven ==
  \A s \in Subscribers :
    /\ \A p \in Publishers : Waiting(p) =>
         /\ s \in Members(rest[p]) => s \in audience[Current(p)]
         /\ s \in audience[Current(p)] =>
              s \in Members(rest[p]) \/ Current(p) \in Members(Delivered(s))
    /\ \A m \in Messages :
         outcome[m] = "sent" /\ s \in audience[m] => m \in Members(Delivered(s))

GivenInv == QueuesOnce /\ GivenWasDue /\ DueIsGiven /\ PublisherOrder

(* What the puts of a publish give to whom. *)
LEMMA PutsGive ==
  ASSUME IInv, NEW p \in Publishers, NEW m \in Messages, NEW list \in Seq(Subscribers),
         Once(list), PutInto(p, m, list), received' = received
  PROVE  \E reached \in SUBSET Subscribers :
           /\ Once(rest'[p]) /\ Members(rest'[p]) = Members(list) \ reached
           /\ reached \subseteq Members(list)
           /\ \A q \in Publishers : q # p => rest'[q] = rest[q]
           /\ \A s \in Subscribers : /\ Delivered(s) \in Seq(Messages)
                                     /\ Delivered(s)' = IF s \in reached THEN Append(Delivered(s), m)
                                                                         ELSE Delivered(s)
           /\ \A n \in Messages : n # m => outcome'[n] = outcome[n]
           /\ outcome'[m] = "sent" => rest'[p] = <<>>
<1> DEFINE k == FirstFull(list)
           reached == Members(SubSeq(list, 1, k - 1))
<1>t. /\ queue \in [Subscribers -> Seq(Messages)] /\ received \in [Subscribers -> Seq(Messages)]
      /\ rest \in [Publishers -> Seq(Subscribers)] /\ outcome \in [Messages -> Outcomes]
  BY DEF IInv, TypeOK
<1>1. k \in 1..Len(list) + 1
  BY FirstFullIsFirst
<1>n. Len(list) \in Nat /\ k \in Nat
  BY <1>1
<1>2. /\ queue' = [s \in Subscribers |-> IF s \in reached THEN Append(queue[s], m) ELSE queue[s]]
      /\ rest' = [rest EXCEPT ![p] = SubSeq(list, k, Len(list))]
      /\ k > Len(list) => outcome' = [outcome EXCEPT ![m] = "sent"]
      /\ k <= Len(list) => outcome' = [outcome EXCEPT ![m] = "sending"]
  BY <1>n DEF PutInto
<1>3. reached \subseteq Members(list) /\ Members(list) \subseteq Subscribers
  <2>1. reached = {list[i] : i \in 1..k - 1}
    BY <1>1, SplitList
  <2> HIDE DEF reached, k
  <2> QED BY <1>1, <1>n, <2>1, MembersIn DEF Members
<1>4. /\ Once(SubSeq(list, k, Len(list)))
      /\ Members(SubSeq(list, k, Len(list))) = Members(list) \ reached
      /\ k > Len(list) => SubSeq(list, k, Len(list)) = <<>>
  BY <1>1, SplitOnce, SplitList
<1> HIDE DEF reached, k
<1>5. /\ Once(rest'[p]) /\ Members(rest'[p]) = Members(list) \ reached
      /\ \A q \in Publishers : q # p => rest'[q] = rest[q]
  BY <1>t, <1>2, <1>4
<1>6. ASSUME NEW s \in Subscribers
      PROVE  /\ Delivered(s) \in Seq(Messages)
             /\ Delivered(s)' = IF s \in reached THEN Append(Delivered(s), m) ELSE Delivered(s)
  <2>1. queue[s] \in Seq(Messages) /\ received[s] \in Seq(Messages)
    BY <1>t
  <2>2. received[s] \o queue[s] \in Seq(Messages)
    BY <2>1, Concatenated
  <2>3. received[s] \o Append(queue[s], m) = Append(received[s] \o queue[s], m)
    <3> DEFINE taken == received[s]
               waiting == queue[s]
    <3>1. taken \in Seq(Messages) /\ waiting \in Seq(Messages)
      BY <2>1
    <3> HIDE DEF taken, waiting
    <3>2. taken \o Append(waiting, m) = Append(taken \o waiting, m)
      BY <3>1, GivenOneMore
    <3> QED BY <3>2 DEF taken, waiting
  <2>4. queue'[s] = IF s \in reached THEN Append(queue[s], m) ELSE queue[s]
    BY <1>2
  <2> QED BY <2>2, <2>3, <2>4 DEF Delivered
<1>7. \A n \in Messages : n # m => outcome'[n] = outcome[n]
  BY <1>t, <1>n, <1>2
<1>8. outcome'[m] = "sent" => rest'[p] = <<>>
  <2>1. CASE k > Len(list)
    BY <1>t, <1>2, <1>4, <2>1
  <2>2. CASE k <= Len(list)
    BY <1>t, <1>2, <2>2
  <2> QED BY <1>n, <2>1, <2>2
<1> QED BY <1>3, <1>5, <1>6, <1>7, <1>8

LEMMA OrderedAppend ==
  ASSUME NEW list \in Seq(Messages), InOrder(list), NEW m \in Messages,
         \A x \in Members(list) : x[1] = m[1] => x[2] < m[2]
  PROVE  InOrder(Append(list, m))
<1> DEFINE longer == Append(list, m)
           n == Len(list)
<1>1. /\ n \in Nat /\ DOMAIN longer = 1..n + 1 /\ longer[n + 1] = m
      /\ \A i \in 1..n : longer[i] = list[i] /\ list[i] \in Members(list)
      /\ DOMAIN list = 1..n
  BY DEF Members
<1> HIDE DEF longer, n
<1>2. ASSUME NEW i \in 1..n + 1, NEW j \in 1..n + 1, i < j, longer[i][1] = longer[j][1]
      PROVE  longer[i][2] < longer[j][2]
  <2>1. i \in 1..n
    BY <1>1, <1>2
  <2>2. CASE j = n + 1
    BY <1>1, <1>2, <2>1, <2>2
  <2>3. CASE j \in 1..n
    BY <1>1, <1>2, <2>1, <2>3 DEF InOrder
  <2> QED BY <1>1, <2>2, <2>3
<1>3. InOrder(longer)
  BY <1>1, <1>2 DEF InOrder
<1> QED BY <1>3 DEF longer

(* One publish puts its message into the queues it reaches: m is new to them, *)
(* and the publisher's latest.                                                *)
LEMMA PutsKeepGiven ==
  ASSUME IInv, GivenInv, NEW p \in Publishers, NEW list \in Seq(Subscribers), Once(list),
         sent'[p] \in Nat, <<p, sent'[p]>> \in Messages, PutInto(p, <<p, sent'[p]>>, list),
         UNCHANGED <<subscribers, received>>,
         \A q \in Publishers : q # p => sent'[q] = sent[q],
         \A m \in Messages : m # <<p, sent'[p]>> => audience'[m] = audience[m],
         Members(list) \subseteq audience'[<<p, sent'[p]>>],
         \A s \in Subscribers : \A m \in Members(Delivered(s)) :
           m[1] = p => m[2] <= sent'[p] /\ (s \in Members(list) => m[2] < sent'[p]),
         \A s \in Subscribers : <<p, sent'[p]>> \in Members(Delivered(s)) =>
           s \in audience'[<<p, sent'[p]>>],
         \A s \in audience'[<<p, sent'[p]>>] :
           s \in Members(list) \/ <<p, sent'[p]>> \in Members(Delivered(s))
  PROVE  GivenInv'
<1> DEFINE mine == <<p, sent'[p]>>
<1>0. PICK reached \in SUBSET Subscribers :
        /\ Once(rest'[p]) /\ Members(rest'[p]) = Members(list) \ reached
        /\ reached \subseteq Members(list)
        /\ \A q \in Publishers : q # p => rest'[q] = rest[q]
        /\ \A s \in Subscribers : /\ Delivered(s) \in Seq(Messages)
                                  /\ Delivered(s)' = IF s \in reached THEN Append(Delivered(s), mine)
                                                                      ELSE Delivered(s)
        /\ \A n \in Messages : n # mine => outcome'[n] = outcome[n]
        /\ outcome'[mine] = "sent" => rest'[p] = <<>>
  BY PutsGive
<1>1. QueuesOnce'
  BY <1>0 DEF GivenInv, QueuesOnce
<1>m. mine \in Messages /\ mine[1] = p /\ mine[2] = sent'[p]
  OBVIOUS
<1>2. ASSUME NEW s \in Subscribers
      PROVE  Members(Delivered(s)') = Members(Delivered(s)) \cup (IF s \in reached THEN {mine} ELSE {})
  <2>1. Members(Append(Delivered(s), mine)) = Members(Delivered(s)) \cup {mine}
    <3> DEFINE list1 == Delivered(s)
    <3>1. list1 \in Seq(Messages)
      BY <1>0
    <3> HIDE DEF mine, list1
    <3>2. Members(Append(list1, mine)) = Members(list1) \cup {mine}
      BY <1>m, <3>1, AppendList
    <3> QED BY <3>2 DEF list1
  <2> QED BY <1>0, <2>1
<1> HIDE DEF mine
<1>3. GivenWasDue'
  <2> SUFFICES ASSUME NEW s \in Subscribers, NEW m \in Members(Delivered(s)')
               PROVE  /\ m[2] <= sent'[m[1]] /\ s \in audience'[m]
                      /\ m[2] = sent'[m[1]] => s \notin Members(rest'[m[1]])
    BY DEF GivenWasDue
  <2>1. m \in Members(Delivered(s)) \/ (m = mine /\ s \in reached)
    BY <1>2
  <2>2. CASE m = mine /\ s \in reached
    <3>1. m[1] = p /\ m[2] = sent'[p] /\ s \in audience'[m]
      BY <1>0, <1>m, <2>2 DEF mine
    <3>2. s \notin Members(rest'[p])
      BY <1>0, <2>2
    <3> QED BY <3>1, <3>2
  <2>3. CASE m \in Members(Delivered(s))
    <3>1. m \in Messages /\ m[1] \in Publishers /\ m = <<m[1], m[2]>>
      BY <1>0, <2>3, MembersIn DEF Messages
    <3>2. /\ m[2] <= sent[m[1]] /\ s \in audience[m]
          /\ m[2] = sent[m[1]] => s \notin Members(rest[m[1]])
      BY <2>3 DEF GivenInv, GivenWasDue
    <3>3. CASE m[1] = p
      <4>1. m[2] <= sent'[p] /\ (s \in Members(list) => m[2] < sent'[p])
        BY <2>3, <3>3
      <4>2. s \in audience'[m]
        <5>1. CASE m = mine
          BY <2>3, <5>1 DEF mine
        <5>2. CASE m # mine
          BY <3>1, <3>2, <5>2 DEF mine
        <5> QED BY <5>1, <5>2
      <4>3. s \in Members(rest'[p]) => m[2] # sent'[p]
        <5>1. m[2] \in Nat
          BY <3>1, SizesAssumption DEF Messages
        <5> QED BY <1>0, <4>1, <5>1
      <4> QED BY <3>3, <4>1, <4>2, <4>3
    <3>4. CASE m[1] # p
      BY <1>0, <1>m, <3>1, <3>2, <3>4 DEF mine
    <3> QED BY <3>3, <3>4
  <2> QED BY <2>1, <2>2, <2>3
<1>4. DueIsGiven'
  <2>1. ASSUME NEW s \in Subscribers, NEW q \in Publishers, Waiting(q)'
        PROVE  /\ s \in Members(rest'[q]) => s \in audience'[Current(q)']
               /\ s \in audience'[Current(q)'] =>
                    s \in Members(rest'[q]) \/ Current(q)' \in Members(Delivered(s)')
    <3>1. CASE q = p
      <4>1. Current(q)' = mine
        BY <3>1 DEF Current, mine
      <4> QED BY <1>0, <1>2, <3>1, <4>1 DEF mine
    <3>2. CASE q # p
      <4>1. Current(q)' = Current(q) /\ rest'[q] = rest[q] /\ Waiting(q)
        BY <1>0, <2>1, <3>2 DEF Current, Waiting
      <4>2. Current(q) \in Messages /\ Current(q) # mine
        BY <3>2, <4>1, SizesAssumption
          DEF IInv, TypeOK, WaitingWasSent, Current, Messages, mine
      <4>3. /\ s \in Members(rest[q]) => s \in audience[Current(q)]
            /\ s \in audience[Current(q)] =>
                 s \in Members(rest[q]) \/ Current(q) \in Members(Delivered(s))
        BY <4>1 DEF GivenInv, DueIsGiven
      <4>4. audience'[Current(q)] = audience[Current(q)]
        BY <4>2 DEF mine
      <4> QED BY <1>2, <4>1, <4>3, <4>4
    <3> QED BY <3>1, <3>2
  <2>2. ASSUME NEW s \in Subscribers, NEW m \in Messages, outcome'[m] = "sent", s \in audience'[m]
        PROVE  m \in Members(Delivered(s)')
    <3>1. CASE m = mine
      <4>1. rest'[p] = <<>> /\ Members(<<>>) = {}
        BY <1>0, <2>2, <3>1 DEF Members
      <4>2. s \in Members(list) => s \in reached
        BY <1>0, <4>1
      <4> QED BY <1>2, <2>2, <3>1, <4>2 DEF mine
    <3>2. CASE m # mine
      <4>1. outcome[m] = "sent" /\ s \in audience[m]
        BY <1>0, <2>2, <3>2 DEF mine
      <4> QED BY <1>2, <4>1 DEF GivenInv, DueIsGiven
    <3> QED BY <3>1, <3>2
  <2> QED BY <2>1, <2>2 DEF DueIsGiven
<1>5. PublisherOrder'
  <2>1. ASSUME NEW s \in Subscribers
        PROVE  InOrder(Delivered(s)')
    <3>1. InOrder(Delivered(s)) /\ Delivered(s) \in Seq(Messages)
      BY <1>0 DEF GivenInv, PublisherOrder, InOrder
    <3>2. CASE s \in reached
      <4>1. \A x \in Members(Delivered(s)) : x[1] = mine[1] => x[2] < mine[2]
        BY <1>0, <1>m, <3>2
      <4>2. InOrder(Append(Delivered(s), mine))
        BY <1>m, <3>1, <4>1, OrderedAppend
      <4> QED BY <1>0, <3>2, <4>2 DEF mine
    <3>3. CASE s \notin reached
      BY <1>0, <3>1, <3>3
    <3> QED BY <3>2, <3>3
  <2> QED BY <2>1 DEF PublisherOrder, InOrder
<1> QED BY <1>1, <1>3, <1>4, <1>5 DEF GivenInv

LEMMA PublishGiven ==
  ASSUME IInv, GivenInv, NEW p \in Publishers, NEW st \in Streams, Publish(p, st)
  PROVE  GivenInv'
<1> DEFINE m == <<p, sent[p] + 1>>
           list == subscribers[st]
<1>1. /\ sent \in [Publishers -> 0..PerPublisher] /\ sent[p] \in Nat /\ sent[p] < PerPublisher
      /\ sent' = [sent EXCEPT ![p] = @ + 1]
      /\ audience \in [Messages -> SUBSET Subscribers]
      /\ audience' = [audience EXCEPT ![m] = Members(list)]
      /\ PutInto(p, m, list) /\ UNCHANGED <<subscribers, received>>
  BY SizesAssumption DEF IInv, TypeOK, Publish
<1>2. sent'[p] = sent[p] + 1 /\ \A q \in Publishers : q # p => sent'[q] = sent[q]
  BY <1>1
<1>3. m = <<p, sent'[p]>> /\ m \in Messages /\ sent'[p] \in Nat
  BY <1>1, <1>2, SizesAssumption DEF Messages
<1>4. list \in Seq(Subscribers) /\ Once(list)
  BY DEF IInv, TypeOK, GivenInv, QueuesOnce
<1>5. audience'[m] = Members(list) /\ \A n \in Messages : n # m => audience'[n] = audience[n]
  BY <1>1, <1>3
<1>6. ASSUME NEW s \in Subscribers, NEW n \in Members(Delivered(s)), n[1] = p
      PROVE  n[2] <= sent[p] /\ n # m /\ n[2] <= sent'[p] /\ n[2] < sent'[p]
  <2>1. n[2] <= sent[p] /\ n \in Messages
    <3>1. Delivered(s) \in Seq(Messages)
      BY Concatenated DEF Delivered, IInv, TypeOK
    <3> QED BY <1>6, <3>1, MembersIn DEF GivenInv, GivenWasDue
  <2>2. n[2] \in Nat
    BY <2>1, SizesAssumption DEF Messages
  <2> QED BY <1>1, <1>2, <2>1, <2>2
<1>7. \A s \in Subscribers : m \notin Members(Delivered(s))
  BY <1>6
<1> HIDE DEF m, list
<1>8. PutInto(p, <<p, sent'[p]>>, list) /\ <<p, sent'[p]>> \in Messages
  BY <1>1, <1>3
<1>9. /\ \A n \in Messages : n # <<p, sent'[p]>> => audience'[n] = audience[n]
      /\ Members(list) \subseteq audience'[<<p, sent'[p]>>]
      /\ \A s \in Subscribers : <<p, sent'[p]>> \in Members(Delivered(s)) =>
           s \in audience'[<<p, sent'[p]>>]
      /\ \A s \in audience'[<<p, sent'[p]>>] :
           s \in Members(list) \/ <<p, sent'[p]>> \in Members(Delivered(s))
  BY <1>3, <1>5, <1>7
<1>10. \A s \in Subscribers : \A n \in Members(Delivered(s)) :
         n[1] = p => n[2] <= sent'[p] /\ (s \in Members(list) => n[2] < sent'[p])
  BY <1>6
<1> QED BY <1>1, <1>2, <1>3, <1>4, <1>8, <1>9, <1>10, PutsKeepGiven

LEMMA ResumeGiven ==
  ASSUME IInv, GivenInv, NEW p \in Publishers, Resume(p)
  PROVE  GivenInv'
<1> DEFINE m == Current(p)
           list == rest[p]
<1>1. /\ list # <<>> /\ list \in Seq(Subscribers) /\ Once(list) /\ PutInto(p, m, list)
      /\ UNCHANGED <<subscribers, sent, audience, received>>
  BY DEF IInv, TypeOK, GivenInv, QueuesOnce, Resume, Waiting
<1>2. sent[p] \in Nat /\ m \in Messages /\ m = <<p, sent'[p]>> /\ audience[m] \subseteq Subscribers
  BY <1>1, SizesAssumption DEF IInv, TypeOK, WaitingWasSent, Waiting, Current, Messages
<1>3. ASSUME NEW s \in Subscribers
      PROVE  /\ s \in Members(list) => s \in audience[m]
             /\ s \in audience[m] => s \in Members(list) \/ m \in Members(Delivered(s))
  BY <1>1 DEF GivenInv, DueIsGiven, Waiting
<1>4. Members(list) \subseteq audience[m]
  <2>1. Members(list) \subseteq Subscribers
    BY <1>1, MembersIn
  <2> QED BY <1>3, <2>1
<1>5. ASSUME NEW s \in Subscribers, NEW n \in Members(Delivered(s)), n[1] = p
      PROVE  n[2] <= sent'[p] /\ (s \in Members(list) => n[2] < sent'[p])
  <2>1. n \in Messages
    <3>1. Delivered(s) \in Seq(Messages)
      BY Concatenated DEF Delivered, IInv, TypeOK
    <3> QED BY <3>1, MembersIn
  <2>2. /\ n[2] <= sent[n[1]]
        /\ n[2] = sent[n[1]] => s \notin Members(rest[n[1]])
    BY DEF GivenInv, GivenWasDue
  <2>3. n[2] \in Nat
    BY <2>1, SizesAssumption DEF Messages
  <2> QED BY <1>1, <1>2, <1>5, <2>2, <2>3
<1>6. \A s \in Subscribers : m \in Members(Delivered(s)) => s \in audience[m]
  BY DEF GivenInv, GivenWasDue
<1> HIDE DEF m, list
<1>7. PutInto(p, <<p, sent'[p]>>, list) /\ <<p, sent'[p]>> \in Messages /\ sent'[p] \in Nat
  BY <1>1, <1>2
<1>8. /\ \A n \in Messages : n # <<p, sent'[p]>> => audience'[n] = audience[n]
      /\ Members(list) \subseteq audience'[<<p, sent'[p]>>]
      /\ \A s \in Subscribers : <<p, sent'[p]>> \in Members(Delivered(s)) =>
           s \in audience'[<<p, sent'[p]>>]
      /\ \A s \in audience'[<<p, sent'[p]>>] :
           s \in Members(list) \/ <<p, sent'[p]>> \in Members(Delivered(s))
      /\ \A q \in Publishers : q # p => sent'[q] = sent[q]
  BY <1>1, <1>2, <1>3, <1>4, <1>6
<1>9. \A s \in Subscribers : \A n \in Members(Delivered(s)) :
        n[1] = p => n[2] <= sent'[p] /\ (s \in Members(list) => n[2] < sent'[p])
  BY <1>5
<1> QED BY <1>1, <1>7, <1>8, <1>9, PutsKeepGiven

(* The other steps give nobody a message. *)
LEMMA NothingGiven ==
  ASSUME IInv, GivenInv, QueuesOnce', UNCHANGED <<sent, audience>>,
         \A s \in Subscribers : Delivered(s)' = Delivered(s),
         \A p \in Publishers : rest'[p] = rest[p] \/ rest'[p] = <<>>,
         \A m \in Messages : outcome'[m] = "sent" => outcome[m] = "sent"
  PROVE  GivenInv'
<1>0. Members(<<>>) = {}
  BY DEF Members
<1>1. GivenWasDue'
  <2>1. ASSUME NEW s \in Subscribers, NEW m \in Members(Delivered(s))
        PROVE  /\ m[2] <= sent[m[1]] /\ s \in audience[m]
               /\ m[2] = sent[m[1]] => s \notin Members(rest'[m[1]])
    <3>1. m[1] \in Publishers
      <4>1. Delivered(s) \in Seq(Messages)
        BY Concatenated DEF Delivered, IInv, TypeOK
      <4> QED BY <4>1, MembersIn DEF Messages
    <3> QED BY <1>0, <3>1 DEF GivenInv, GivenWasDue
  <2> QED BY <2>1 DEF GivenWasDue
<1>2. DueIsGiven'
  <2>1. ASSUME NEW s \in Subscribers, NEW q \in Publishers, Waiting(q)'
        PROVE  /\ s \in Members(rest'[q]) => s \in audience'[Current(q)']
               /\ s \in audience'[Current(q)'] =>
                    s \in Members(rest'[q]) \/ Current(q)' \in Members(Delivered(s)')
    <3>1. rest'[q] = rest[q] /\ Waiting(q) /\ Current(q)' = Current(q)
      BY <2>1 DEF Waiting, Current
    <3> QED BY <3>1 DEF GivenInv, DueIsGiven
  <2>2. ASSUME NEW s \in Subscribers, NEW m \in Messages, outcome'[m] = "sent", s \in audience'[m]
        PROVE  m \in Members(Delivered(s)')
    BY <2>2 DEF GivenInv, DueIsGiven
  <2> QED BY <2>1, <2>2 DEF DueIsGiven
<1>3. PublisherOrder'
  BY DEF GivenInv, PublisherOrder
<1> QED BY <1>1, <1>2, <1>3 DEF GivenInv

LEMMA ConsumeGiven ==
  ASSUME IInv, GivenInv, NEW c \in Subscribers, Consume(c)
  PROVE  GivenInv'
<1>t. /\ queue \in [Subscribers -> Seq(Messages)] /\ received \in [Subscribers -> Seq(Messages)]
      /\ queue[c] # <<>> /\ queue' = [queue EXCEPT ![c] = Tail(@)]
      /\ received' = [received EXCEPT ![c] = Append(@, Head(queue[c]))]
      /\ UNCHANGED <<subscribers, sent, rest, outcome, audience>>
  BY DEF IInv, TypeOK, Consume
<1>1. QueuesOnce'
  BY <1>t DEF GivenInv, QueuesOnce
<1>2. ASSUME NEW s \in Subscribers
      PROVE  Delivered(s)' = Delivered(s)
  <2>1. CASE s = c
    <3> DEFINE taken == received[c]
               waiting == queue[c]
    <3>1. /\ taken \in Seq(Messages) /\ waiting \in Seq(Messages) /\ waiting # <<>>
          /\ received'[c] = Append(taken, Head(waiting)) /\ queue'[c] = Tail(waiting)
      BY <1>t
    <3> HIDE DEF taken, waiting
    <3>2. Append(taken, Head(waiting)) \o Tail(waiting) = taken \o waiting
      BY <3>1, MovedBorder
    <3> QED BY <2>1, <3>1, <3>2 DEF taken, waiting, Delivered
  <2>2. CASE s # c
    BY <1>t, <2>2 DEF Delivered
  <2> QED BY <2>1, <2>2
<1> QED BY <1>t, <1>1, <1>2, NothingGiven

LEMMA CancelGiven ==
  ASSUME IInv, GivenInv, NEW p \in Publishers, CancelPublish(p)
  PROVE  GivenInv'
<1>t. /\ rest \in [Publishers -> Seq(Subscribers)] /\ rest' = [rest EXCEPT ![p] = <<>>]
      /\ outcome \in [Messages -> Outcomes]
      /\ outcome' = [outcome EXCEPT ![Current(p)] = "cancelled"]
      /\ UNCHANGED <<subscribers, queue, sent, audience, received>>
  BY DEF IInv, TypeOK, CancelPublish
<1>1. \A q \in Publishers : rest'[q] = rest[q] \/ rest'[q] = <<>>
  BY <1>t
<1>2. QueuesOnce'
  <2>1. Once(<<>>)
    BY DEF Once
  <2> QED BY <1>t, <1>1, <2>1 DEF GivenInv, QueuesOnce
<1>3. \A m \in Messages : outcome'[m] = "sent" => outcome[m] = "sent"
  BY <1>t
<1>4. \A s \in Subscribers : Delivered(s)' = Delivered(s)
  BY <1>t DEF Delivered
<1> QED BY <1>t, <1>1, <1>2, <1>3, <1>4, NothingGiven

LEMMA SubscribeGiven ==
  ASSUME IInv, GivenInv, NEW s \in Subscribers, NEW st \in Streams, Subscribe(s, st)
  PROVE  GivenInv'
<1>1. /\ subscribers \in [Streams -> Seq(Subscribers)]
      /\ subscribers' = [subscribers EXCEPT ![st] = Append(@, s)]
      /\ s \notin Members(subscribers[st])
      /\ UNCHANGED <<queue, sent, rest, outcome, audience, received>>
  BY DEF IInv, TypeOK, Subscribe, Subscribed, Members
<1>2. Once(Append(subscribers[st], s))
  <2>1. subscribers[st] \in Seq(Subscribers) /\ Once(subscribers[st])
    BY <1>1 DEF GivenInv, QueuesOnce
  <2> QED BY <1>1, <2>1, AppendList
<1>3. QueuesOnce'
  BY <1>1, <1>2 DEF GivenInv, QueuesOnce
<1>4. \A t \in Subscribers : Delivered(t)' = Delivered(t)
  BY <1>1 DEF Delivered
<1> QED BY <1>1, <1>3, <1>4, NothingGiven

LEMMA GivenInit == Init => GivenInv
<1> SUFFICES ASSUME Init PROVE GivenInv
  OBVIOUS
<1>1. Once(<<>>) /\ Members(<<>>) = {} /\ DOMAIN <<>> = {}
  BY DEF Once, Members
<1>2. \A s \in Subscribers : Delivered(s) = <<>>
  BY DEF Init, Delivered
<1> QED BY <1>1, <1>2
        DEF Init, GivenInv, QueuesOnce, GivenWasDue, DueIsGiven, PublisherOrder, Waiting

LEMMA GivenNext == IInv /\ GivenInv /\ [Next]_vars => GivenInv'
<1> SUFFICES ASSUME IInv, GivenInv, [Next]_vars PROVE GivenInv'
  OBVIOUS
<1>1. ASSUME NEW p \in Publishers, NEW st \in Streams, Publish(p, st) PROVE GivenInv'
  BY <1>1, PublishGiven
<1>2. ASSUME NEW p \in Publishers, Resume(p) PROVE GivenInv'
  BY <1>2, ResumeGiven
<1>3. ASSUME NEW p \in Publishers, CancelPublish(p) PROVE GivenInv'
  BY <1>3, CancelGiven
<1>4. ASSUME NEW s \in Subscribers, Consume(s) PROVE GivenInv'
  BY <1>4, ConsumeGiven
<1>5. ASSUME NEW s \in Subscribers, NEW st \in Streams, Subscribe(s, st) PROVE GivenInv'
  BY <1>5, SubscribeGiven
<1>6. ASSUME (\E s \in Subscribers : Abandon(s)) \/ UNCHANGED vars PROVE GivenInv'
  <2>1. UNCHANGED <<subscribers, queue, sent, rest, outcome, audience, received>>
    BY <1>6 DEF Abandon, vars, bus
  <2>2. QueuesOnce' /\ \A t \in Subscribers : Delivered(t)' = Delivered(t)
    BY <2>1 DEF GivenInv, QueuesOnce, Delivered
  <2> QED BY <2>1, <2>2, NothingGiven
<1> QED BY <1>1, <1>2, <1>3, <1>4, <1>5, <1>6 DEF Next

(* However publishes of several tasks interleave, overtake each other at a    *)
(* full queue or are cancelled, each subscriber gets one publisher's messages *)
(* in the order they were published (bus.py:82).                              *)
THEOREM PublishersStayInOrder == Spec => []PublisherOrder
<1>1. GivenInv => PublisherOrder
  BY DEF GivenInv
<1> QED BY <1>1, IInvInit, IInvNext, GivenInit, GivenNext, PTL DEF Spec

(* In an ordered list a message stands at one place or none. *)
LEMMA CopiesCounted ==
  ASSUME NEW s \in Subscribers, NEW m \in Messages, Delivered(s) \in Seq(Messages),
         InOrder(Delivered(s))
  PROVE  Copies(s, m) = IF m \in Members(Delivered(s)) THEN 1 ELSE 0
<1> DEFINE list == Delivered(s)
           places == {i \in DOMAIN list : list[i] = m}
<1>1. DOMAIN list = 1..Len(list) /\ Len(list) \in Nat
  OBVIOUS
<1>2. m[2] \in Int
  BY SizesAssumption DEF Messages
<1> HIDE DEF list
<1>3. ASSUME NEW i \in places, NEW j \in places
      PROVE  i = j
  <2>1. i \in Nat /\ j \in Nat /\ ~(i < j) /\ ~(j < i)
    BY <1>1, <1>2 DEF InOrder, list
  <2> QED BY <2>1
<1>4. CASE m \in Members(list)
  <2>1. PICK i \in DOMAIN list : list[i] = m
    BY <1>4 DEF Members
  <2>2. places = {i}
    BY <1>3, <2>1
  <2> QED BY <1>4, <2>2, FS_Singleton DEF Copies, list
<1>5. CASE m \notin Members(list)
  <2>1. places = {}
    BY <1>5 DEF Members
  <2> QED BY <1>5, <2>1, FS_EmptySet DEF Copies, list
<1> QED BY <1>4, <1>5 DEF list

(* No interleaving of puts, gets, subscriptions and cancelled publishes makes *)
(* a subscriber of the snapshot miss a message of a publish that returned,    *)
(* get it twice, or get one that was not published to it (bus.py:77-82).      *)
THEOREM DeliveredExactlyOnce == Spec => []ExactlyOnce
<1>1. IInv /\ GivenInv => ExactlyOnce
  <2> SUFFICES ASSUME IInv, GivenInv, NEW s \in Subscribers, NEW m \in Messages
               PROVE  /\ Copies(s, m) <= (IF s \in audience[m] THEN 1 ELSE 0)
                      /\ outcome[m] = "sent" /\ s \in audience[m] => Copies(s, m) = 1
    BY DEF ExactlyOnce
  <2>1. Delivered(s) \in Seq(Messages)
    BY Concatenated DEF Delivered, IInv, TypeOK
  <2>2. InOrder(Delivered(s))
    BY DEF GivenInv, PublisherOrder, InOrder
  <2>3. Copies(s, m) = IF m \in Members(Delivered(s)) THEN 1 ELSE 0
    BY <2>1, <2>2, CopiesCounted
  <2>4. m \in Members(Delivered(s)) => s \in audience[m]
    BY DEF GivenInv, GivenWasDue
  <2>5. outcome[m] = "sent" /\ s \in audience[m] => m \in Members(Delivered(s))
    BY DEF GivenInv, DueIsGiven
  <2> QED BY <2>3, <2>4, <2>5
<1> QED BY <1>1, IInvInit, IInvNext, GivenInit, GivenNext, PTL DEF Spec
=============================================================================
