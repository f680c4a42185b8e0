------------------------ MODULE ReconciliationProofs ------------------------
(***************************************************************************)
(* Theorems about Reconciliation for every set of workers, fills, users    *)
(* and tokens: type correctness; that, however applies overlap, break off  *)
(* and are repeated, the books lose whole deliveries at worst, and only    *)
(* such as overlapped another of their user; that average costs stay       *)
(* within the prices paid; and that, where the deployment applies the      *)
(* fills of a user one at a time, the coroutine implements the Ledger,     *)
(* realizes PnL only by reducing and conserves money, by sums over sets of *)
(* fills and tokens (SumTheorems).                                         *)
(***************************************************************************)
EXTENDS Reconciliation, SumTheorems, TLAPS

UpdateType == [size : Int, avg : Int, pnl : Int]

(* Rounding an integer quotient gives an integer. *)
LEMMA RoundHalfEvenInt ==
  ASSUME NEW n \in Int, NEW d \in Int, d > 0
  PROVE  RoundHalfEven(n, d) \in Int
BY SMT DEF RoundHalfEven

(* A magnitude is positive unless its number is zero. *)
LEMMA MagnitudePositive ==
  ASSUME NEW n \in Int
  PROVE  /\ Magnitude(n) \in Int
         /\ Magnitude(n) >= 0
         /\ n # 0 => Magnitude(n) > 0
BY DEF Magnitude

(* A fill that grows or opens a position yields a well-typed update.  *)
LEMMA CostAverageType ==
  ASSUME NEW pos \in PositionType, NEW f \in FillType
  PROVE  CostAverage(pos, f) \in UpdateType
<1> DEFINE size == pos.size + SignedFill(f)
           notional == Magnitude(pos.size) * pos.avg + f.size * f.price * AvgScale
<1>1. pos.size \in Int /\ pos.avg \in Int /\ f.size \in Int /\ f.price \in Int
  BY DEF PositionType, FillType
<1>2. size \in Int
  BY <1>1 DEF SignedFill
<1>3. notional \in Int
  <2>1. Magnitude(pos.size) * pos.avg \in Int
    BY <1>1, MagnitudePositive
  <2>2. AvgScale \in Int
    BY AvgScaleAssumption
  <2>3. f.size * f.price \in Int
    BY <1>1
  <2>4. f.size * f.price * AvgScale \in Int
    BY <2>2, <2>3
  <2> QED BY <2>1, <2>4
<1>4. size # 0 => RoundHalfEven(notional, Magnitude(size)) \in Int
  BY <1>2, <1>3, MagnitudePositive, RoundHalfEvenInt
<1> HIDE DEF size, notional
<1>5. CostAverage(pos, f) =
        [size |-> size,
         avg |-> IF size = 0 THEN 0 ELSE RoundHalfEven(notional, Magnitude(size)),
         pnl |-> 0]
  BY DEF CostAverage, size, notional
<1> QED BY <1>2, <1>4, <1>5 DEF UpdateType

(* So does one that cuts, closes or flips it. *)
LEMMA ReduceType ==
  ASSUME NEW pos \in PositionType, NEW f \in FillType
  PROVE  Reduce(pos, f) \in UpdateType
<1>1. pos.size \in Int /\ pos.avg \in Int /\ f.size \in Int /\ f.price \in Int
  BY DEF PositionType, FillType
<1>2. AvgScale \in Int
  BY AvgScaleAssumption
<1>3. pos.size + SignedFill(f) \in Int
  BY <1>1 DEF SignedFill
<1>4. f.price * AvgScale \in Int
  BY <1>1, <1>2
<1>5. ClosingPnL(pos, f) \in Int
  <2> DEFINE gain == f.price * AvgScale - pos.avg
             direction == IF pos.size > 0 THEN 1 ELSE -1
             closed == Lesser(f.size, Magnitude(pos.size))
  <2>1. gain \in Int /\ direction \in Int
    BY <1>1, <1>4
  <2>2. closed \in Int
    BY <1>1, MagnitudePositive DEF Lesser
  <2> HIDE DEF gain, direction, closed
  <2>3. gain * direction * closed \in Int
    BY <2>1, <2>2
  <2> QED BY <2>3 DEF ClosingPnL, gain, direction, closed
<1> QED BY <1>1, <1>3, <1>4, <1>5 DEF Reduce, UpdateType

(* Whatever branch a fill takes, the position it leaves is well typed.          *)
LEMMA ApplyFillToPositionType ==
  ASSUME NEW pos \in PositionType, NEW f \in FillType
  PROVE  ApplyFillToPosition(pos, f) \in UpdateType
BY CostAverageType, ReduceType DEF ApplyFillToPosition

(* A balance stays a whole amount. *)
LEMMA ApplyFillToBalanceType ==
  ASSUME NEW b \in Int, NEW f \in FillType
  PROVE  ApplyFillToBalance(b, f) \in Int
<1>1. f.size \in Int /\ f.price \in Int /\ f.fee \in Int
  BY DEF FillType
<1>2. f.size * f.price \in Int
  BY <1>1
<1> QED BY <1>1, <1>2 DEF ApplyFillToBalance

(* An absent row reads as a position. *)
LEMMA NoPositionType == NoPosition \in PositionType
BY DEF NoPosition, PositionType

(* What a busy worker works on is a fill of a user and a token. *)
LEMMA BusyFill ==
  ASSUME TypeOK, NEW w \in Workers, Busy(w)
  PROVE  /\ fill[w] \in Fills /\ fill[w] \in FillType
         /\ fill[w].user \in Users /\ KeyOf(fill[w]) \in Keys
BY FillsAssumption DEF TypeOK, FillType, KeyOf, Keys

-----------------------------------------------------------------------------
(* The empty stores and idle workers are well typed. *)
LEMMA TypeInit == Init => TypeOK
<1> SUFFICES ASSUME Init PROVE TypeOK
  OBVIOUS
<1>1. NoPosition \in PositionType
  BY NoPositionType
<1>2. 0 \in 0..MaxAborts
  BY MaxAbortsAssumption
<1> QED BY <1>1, <1>2, OpeningAssumption DEF Init, TypeOK, Busy, Awaits

(* The end of a call leaves its locals well typed. *)
LEMMA TypeReturn ==
  ASSUME TypeOK, NEW w \in Workers, Return(w)
  PROVE  /\ pc' \in [Workers -> Awaits]
         /\ fill' \in [Workers -> FillType \cup {NoFill}]
         /\ \A v \in Workers : Busy(v)' => fill'[v] \in Fills
         /\ prior' \in [Workers -> PositionType]
         /\ priorBalance' \in [Workers -> Int]
BY NoPositionType DEF TypeOK, Return, Busy, Awaits

(* No await of apply, and no abort, leaves the types. *)
LEMMA TypeNext == TypeOK /\ [Next]_vars => TypeOK'
<1> SUFFICES ASSUME TypeOK, [Next]_vars PROVE TypeOK'
  OBVIOUS
<1>1. ASSUME NEW w \in Workers, NEW f \in Fills, Receive(w, f)
      PROVE  TypeOK'
  <2>1. f \in FillType /\ KeyOf(f) \in Keys
    BY FillsAssumption DEF FillType, KeyOf, Keys
  <2>2. positions[KeyOf(f)] \in PositionType
    BY <2>1 DEF TypeOK
  <2>3. overlapped' \subseteq Fills
    BY <1>1 DEF Receive, Rivals, TypeOK
  <2> QED BY <1>1, <2>1, <2>2, <2>3 DEF Receive, StartApply, TypeOK, Busy, Awaits, stores, history
<1>2. ASSUME NEW w \in Workers, RejectFill(w)
      PROVE  TypeOK'
  <2>1. fill[w] \in Fills
    BY <1>2 DEF RejectFill, TypeOK, Busy
  <2> QED BY <1>2, <2>1, TypeReturn DEF RejectFill, TypeOK, stores, queue
<1>3. ASSUME NEW w \in Workers, WritePosition(w)
      PROVE  TypeOK'
  <2> DEFINE update == ApplyFillToPosition(prior[w], fill[w])
  <2>1. Busy(w)
    BY <1>3 DEF WritePosition, Busy
  <2>2. fill[w] \in Fills /\ fill[w] \in FillType /\ KeyOf(fill[w]) \in Keys
    BY <2>1, BusyFill
  <2>3. prior[w] \in PositionType
    BY DEF TypeOK
  <2>4. update \in UpdateType
    BY <2>2, <2>3, ApplyFillToPositionType
  <2> HIDE DEF update
  <2>5. [size |-> update.size, avg |-> update.avg,
         realized |-> prior[w].realized + update.pnl] \in PositionType
    BY <2>3, <2>4 DEF PositionType, UpdateType
  <2>6. positions' \in [Keys -> PositionType]
    BY <1>3, <2>2, <2>5 DEF WritePosition, TypeOK, update
  <2> QED BY <1>3, <2>2, <2>6 DEF WritePosition, TypeOK, Busy, Awaits, queue
<1>4. ASSUME NEW w \in Workers, ReadBalance(w)
      PROVE  TypeOK'
  <2>1. fill[w].user \in Users
    BY <1>4, BusyFill DEF ReadBalance, Busy
  <2>2. balances[fill[w].user] \in Int
    BY <2>1 DEF TypeOK
  <2> QED BY <1>4, <2>2 DEF ReadBalance, TypeOK, Busy, Awaits, stores, queue, history
<1>5. ASSUME NEW w \in Workers, WriteBalance(w)
      PROVE  TypeOK'
  <2>1. fill[w] \in Fills /\ fill[w] \in FillType
    BY <1>5, BusyFill DEF WriteBalance, Busy
  <2>2. priorBalance[w] \in Int
    BY DEF TypeOK
  <2>3. ApplyFillToBalance(priorBalance[w], fill[w]) \in Int
    BY <2>1, <2>2, ApplyFillToBalanceType
  <2> QED BY <1>5, <2>1, <2>3 DEF WriteBalance, TypeOK, Busy, Awaits, queue
<1>6. ASSUME NEW w \in Workers, Finish(w)
      PROVE  TypeOK'
  BY <1>6, TypeReturn DEF Finish, TypeOK, stores, queue, history
<1>7. ASSUME NEW w \in Workers, AbortApply(w)
      PROVE  TypeOK'
  <2>1. pending' \subseteq Fills
    BY <1>7 DEF AbortApply, TypeOK
  <2>2. aborts' \in 0..MaxAborts
    BY <1>7, MaxAbortsAssumption DEF AbortApply, TypeOK
  <2> QED BY <1>7, <2>1, <2>2, TypeReturn DEF AbortApply, TypeOK, stores, history
<1>8. CASE UNCHANGED vars
  BY <1>8 DEF vars, stores, locals, queue, history, TypeOK, Busy
<1> QED BY <1>1, <1>2, <1>3, <1>4, <1>5, <1>6, <1>7, <1>8 DEF Next, Step

(* Type correctness: in every reachable state the stores, the suspended calls *)
(* and the histories are what their declarations say.                         *)
THEOREM TypeCorrect == Spec => []TypeOK
BY TypeInit, TypeNext, PTL DEF Spec

-----------------------------------------------------------------------------
(* With one apply per user nobody else can write what an apply has read: two  *)
(* suspended applies are never of one user, and what each read is what its    *)
(* store still holds when it writes.                                          *)
AppliesApart ==
  \A v, w \in Workers : v # w /\ Busy(v) /\ Busy(w) => fill[v].user # fill[w].user

NoStaleRead ==
  \A w \in Workers :
    /\ pc[w] = "position_read" => prior[w] = positions[KeyOf(fill[w])]
    /\ pc[w] = "balance_read" => priorBalance[w] = balances[fill[w].user]

IInv == TypeOK /\ AppliesApart /\ NoStaleRead

(* Nobody has read anything yet. *)
LEMMA FreshInit == Init => AppliesApart /\ NoStaleRead
BY DEF Init, AppliesApart, NoStaleRead, Busy

(* A call that ends disturbs nobody else's. *)
LEMMA ApartReturn ==
  ASSUME TypeOK, AppliesApart, NEW w \in Workers, Return(w)
  PROVE  AppliesApart'
BY DEF TypeOK, AppliesApart, Return, Busy

(* A call that ends without a write leaves every other read current. *)
LEMMA FreshReturn ==
  ASSUME TypeOK, NoStaleRead, NEW w \in Workers, Return(w), UNCHANGED stores
  PROVE  NoStaleRead'
BY DEF TypeOK, NoStaleRead, Return, stores

(* A write hits only what its own user has read, and its reader moves on. *)
LEMMA FreshNext ==
  ASSUME OnePerUser
  PROVE  IInv /\ [Next]_vars => AppliesApart' /\ NoStaleRead'
<1> SUFFICES ASSUME IInv, [Next]_vars PROVE AppliesApart' /\ NoStaleRead'
  OBVIOUS
<1> USE DEF IInv
<1>1. ASSUME NEW w \in Workers, NEW f \in Fills, Receive(w, f)
      PROVE  AppliesApart' /\ NoStaleRead'
  <2>1. \A v \in Workers : Busy(v) => fill[v].user # f.user
    BY <1>1, OnePerUser DEF Receive, Rivals
  <2>2. /\ pc' = [pc EXCEPT ![w] = "position_read"]
        /\ fill' = [fill EXCEPT ![w] = f]
        /\ prior' = [prior EXCEPT ![w] = positions[KeyOf(f)]]
        /\ UNCHANGED <<positions, balances, priorBalance>>
    BY <1>1 DEF Receive, StartApply, stores
  <2>3. AppliesApart'
    BY <2>1, <2>2 DEF TypeOK, AppliesApart, Busy
  <2>4. NoStaleRead'
    BY <2>2 DEF TypeOK, NoStaleRead
  <2> QED BY <2>3, <2>4
<1>2. ASSUME NEW w \in Workers, RejectFill(w)
      PROVE  AppliesApart' /\ NoStaleRead'
  BY <1>2, ApartReturn, FreshReturn DEF RejectFill
<1>3. ASSUME NEW w \in Workers, WritePosition(w)
      PROVE  AppliesApart' /\ NoStaleRead'
  <2> DEFINE k == KeyOf(fill[w])
  <2>1. Busy(w) /\ pc[w] = "position_read"
    BY <1>3 DEF WritePosition, Busy
  <2>2. /\ pc' = [pc EXCEPT ![w] = "position_written"]
        /\ UNCHANGED <<balances, fill, prior, priorBalance>>
        /\ \A j \in Keys : j # k => positions'[j] = positions[j]
    BY <1>3 DEF WritePosition, TypeOK
  <2>3. AppliesApart'
    BY <2>1, <2>2 DEF TypeOK, AppliesApart, Busy
  <2>4. ASSUME NEW v \in Workers, pc'[v] = "position_read"
        PROVE  prior'[v] = positions'[KeyOf(fill'[v])]
    <3>1. v # w /\ pc[v] = "position_read" /\ Busy(v)
      BY <2>2, <2>4 DEF TypeOK, Busy
    <3>2. fill[v].user # fill[w].user
      BY <2>1, <3>1 DEF AppliesApart
    <3>3. KeyOf(fill[v]) # k /\ KeyOf(fill[v]) \in Keys
      BY <3>1, <3>2, BusyFill DEF KeyOf
    <3> QED BY <2>2, <3>1, <3>3 DEF NoStaleRead
  <2>5. ASSUME NEW v \in Workers, pc'[v] = "balance_read"
        PROVE  priorBalance'[v] = balances'[fill'[v].user]
    BY <2>2, <2>5 DEF TypeOK, NoStaleRead
  <2> QED BY <2>3, <2>4, <2>5 DEF NoStaleRead
<1>4. ASSUME NEW w \in Workers, ReadBalance(w)
      PROVE  AppliesApart' /\ NoStaleRead'
  <2>1. /\ pc[w] = "position_written"
        /\ pc' = [pc EXCEPT ![w] = "balance_read"]
        /\ priorBalance' = [priorBalance EXCEPT ![w] = balances[fill[w].user]]
        /\ UNCHANGED <<positions, balances, fill, prior>>
    BY <1>4 DEF ReadBalance, stores
  <2>2. AppliesApart'
    BY <2>1 DEF TypeOK, AppliesApart, Busy
  <2>3. NoStaleRead'
    BY <2>1 DEF TypeOK, NoStaleRead
  <2> QED BY <2>2, <2>3
<1>5. ASSUME NEW w \in Workers, WriteBalance(w)
      PROVE  AppliesApart' /\ NoStaleRead'
  <2>1. /\ Busy(w) /\ pc' = [pc EXCEPT ![w] = "balance_written"]
        /\ UNCHANGED <<positions, fill, prior, priorBalance>>
    BY <1>5 DEF WriteBalance, Busy
  <2>2. \A u \in Users : u # fill[w].user => balances'[u] = balances[u]
    BY <1>5 DEF WriteBalance, TypeOK
  <2>3. AppliesApart'
    BY <2>1 DEF TypeOK, AppliesApart, Busy
  <2>4. ASSUME NEW v \in Workers, pc'[v] = "position_read"
        PROVE  prior'[v] = positions'[KeyOf(fill'[v])]
    BY <2>1, <2>4 DEF NoStaleRead, TypeOK
  <2>5. ASSUME NEW v \in Workers, pc'[v] = "balance_read"
        PROVE  priorBalance'[v] = balances'[fill'[v].user]
    <3>1. v # w /\ pc[v] = "balance_read" /\ Busy(v)
      BY <2>1, <2>5 DEF TypeOK, Busy
    <3>2. fill[v].user # fill[w].user /\ fill[v].user \in Users
      BY <2>1, <3>1, BusyFill DEF AppliesApart
    <3> QED BY <2>1, <2>2, <3>1, <3>2 DEF NoStaleRead
  <2> QED BY <2>3, <2>4, <2>5 DEF NoStaleRead
<1>6. ASSUME NEW w \in Workers, Finish(w) \/ AbortApply(w)
      PROVE  AppliesApart' /\ NoStaleRead'
  BY <1>6, ApartReturn, FreshReturn DEF Finish, AbortApply
<1>7. CASE UNCHANGED vars
  BY <1>7 DEF vars, stores, locals, AppliesApart, NoStaleRead, Busy
<1> QED BY <1>1, <1>2, <1>3, <1>4, <1>5, <1>6, <1>7 DEF Next, Step

-----------------------------------------------------------------------------
(* What the deliveries of one event have in common. *)
Payload(f) == [f EXCEPT !.delivery = 0]

(* A delivery is its event and its number; the next one is another delivery   *)
(* of the same event.                                                         *)
LEMMA Deliveries ==
  ASSUME NEW f \in FillType
  PROVE  /\ \A g \in FillType : Payload(f) = Payload(g) /\ f.delivery = g.delivery => f = g
         /\ Payload(Again(f)) = Payload(f)
         /\ Again(f).delivery = f.delivery + 1 /\ f.delivery \in Nat
<1>1. ASSUME NEW g \in FillType, Payload(f) = Payload(g), f.delivery = g.delivery
      PROVE  f = g
  <2>1. f = [Payload(f) EXCEPT !.delivery = f.delivery]
    BY DEF FillType, Payload
  <2>2. g = [Payload(g) EXCEPT !.delivery = g.delivery]
    BY DEF FillType, Payload
  <2> QED BY <1>1, <2>1, <2>2
<1>2. Payload(Again(f)) = Payload(f)
  BY DEF FillType, Payload, Again
<1>3. Again(f).delivery = f.delivery + 1 /\ f.delivery \in Nat
  BY DEF FillType, Again
<1> QED BY <1>1, <1>2, <1>3

(* An event is waiting or with one worker, as its latest delivery, and a      *)
(* delivery reaches each store once: the event comes again only when the      *)
(* worker that had it let go of it.                                           *)
InOnePlace ==
  /\ \A f, g \in pending : Payload(f) = Payload(g) => f = g
  /\ \A w \in Workers : Busy(w) => \A g \in pending : Payload(g) # Payload(fill[w])
  /\ \A v, w \in Workers : v # w /\ Busy(v) /\ Busy(w) => Payload(fill[v]) # Payload(fill[w])
  /\ \A g \in posted \cup paid :
       /\ \A f \in pending : Payload(f) = Payload(g) => g.delivery < f.delivery
       /\ \A w \in Workers :
            Busy(w) /\ Payload(fill[w]) = Payload(g) => g.delivery <= fill[w].delivery
  /\ \A w \in Workers :
       /\ pc[w] = "position_read" => fill[w] \notin posted
       /\ pc[w] \in {"position_read", "position_written", "balance_read"}
            => fill[w] \notin paid

JInv == IInv /\ InOnePlace

(* A call that ends without a write leaves its event to the next delivery. *)
LEMMA PlaceReturn ==
  ASSUME TypeOK, InOnePlace, NEW w \in Workers, Busy(w), Return(w), UNCHANGED <<posted, paid>>,
         pending' \in {pending, pending \cup ({Again(fill[w])} \cap Fills)}
  PROVE  InOnePlace'
<1>1. ASSUME NEW v \in Workers
      PROVE  /\ v = w => pc'[v] = "idle"
             /\ v # w => pc'[v] = pc[v] /\ fill'[v] = fill[v]
  BY DEF Return, TypeOK
<1>2. \A v \in Workers : Busy(v)' => v # w /\ Busy(v)
  BY <1>1 DEF Busy
<1>3. /\ fill[w] \in FillType /\ pending \cup posted \cup paid \subseteq FillType
  BY BusyFill, FillsAssumption DEF TypeOK
<1>4. ASSUME NEW f \in pending'
      PROVE  \/ f \in pending
             \/ /\ f \notin pending /\ f = Again(fill[w])
                /\ Payload(f) = Payload(fill[w]) /\ f.delivery = fill[w].delivery + 1
  BY <1>3, Deliveries
<1>5. \A f, g \in pending' : Payload(f) = Payload(g) => f = g
  BY <1>4 DEF InOnePlace
<1>6. \A v \in Workers : Busy(v)' => \A g \in pending' : Payload(g) # Payload(fill'[v])
  BY <1>1, <1>2, <1>4 DEF InOnePlace
<1>7. \A u, v \in Workers : u # v /\ Busy(u)' /\ Busy(v)' => Payload(fill'[u]) # Payload(fill'[v])
  BY <1>1, <1>2 DEF InOnePlace
<1>8. ASSUME NEW g \in posted' \cup paid'
      PROVE  /\ \A f \in pending' : Payload(f) = Payload(g) => g.delivery < f.delivery
             /\ \A v \in Workers :
                  Busy(v)' /\ Payload(fill'[v]) = Payload(g) => g.delivery <= fill'[v].delivery
  <2>1. g \in posted \cup paid /\ g.delivery \in Nat /\ fill[w].delivery \in Nat
    BY <1>3, <1>8 DEF FillType
  <2>2. ASSUME NEW f \in pending', Payload(f) = Payload(g) PROVE g.delivery < f.delivery
    <3>1. CASE f \in pending
      BY <2>1, <2>2, <3>1 DEF InOnePlace
    <3>2. CASE f \notin pending
      <4>1. Payload(fill[w]) = Payload(g) /\ f.delivery = fill[w].delivery + 1
        BY <1>4, <2>2, <3>2
      <4>2. g.delivery <= fill[w].delivery
        BY <2>1, <4>1 DEF InOnePlace
      <4> QED BY <2>1, <4>1, <4>2
    <3> QED BY <3>1, <3>2
  <2>3. \A v \in Workers :
          Busy(v)' /\ Payload(fill'[v]) = Payload(g) => g.delivery <= fill'[v].delivery
    BY <1>1, <1>2, <2>1 DEF InOnePlace
  <2> QED BY <2>2, <2>3
<1>9. ASSUME NEW v \in Workers
      PROVE  /\ pc'[v] = "position_read" => fill'[v] \notin posted'
             /\ pc'[v] \in {"position_read", "position_written", "balance_read"}
                  => fill'[v] \notin paid'
  BY <1>1 DEF InOnePlace
<1> HIDE DEF Busy
<1> QED BY <1>5, <1>6, <1>7, <1>8, <1>9 DEF InOnePlace

(* A write adds the delivery its worker has in hand, which no other has.      *)
LEMMA PlaceWrite ==
  ASSUME TypeOK, InOnePlace, NEW w \in Workers, NEW at, pc' = [pc EXCEPT ![w] = at],
         UNCHANGED <<fill, pending>>,
         \/ /\ pc[w] = "position_read" /\ at = "position_written"
            /\ posted' = posted \cup {fill[w]} /\ paid' = paid
         \/ /\ pc[w] = "balance_read" /\ at = "balance_written"
            /\ paid' = paid \cup {fill[w]} /\ posted' = posted
  PROVE  InOnePlace'
<1>1. Busy(w) /\ pc'[w] = at /\ \A v \in Workers : v # w => pc'[v] = pc[v]
  BY DEF Busy, TypeOK
<1>2. \A v \in Workers : Busy(v)' <=> Busy(v)
  BY <1>1 DEF Busy
<1>3. fill[w] \in FillType /\ fill[w].delivery \in Nat
  BY <1>1, BusyFill DEF FillType
<1>4. ASSUME NEW g \in posted' \cup paid'
      PROVE  /\ \A f \in pending' : Payload(f) = Payload(g) => g.delivery < f.delivery
             /\ \A v \in Workers :
                  Busy(v)' /\ Payload(fill'[v]) = Payload(g) => g.delivery <= fill'[v].delivery
  <2>1. CASE g \in posted \cup paid
    BY <1>2, <2>1 DEF InOnePlace
  <2>2. CASE g = fill[w]
    <3>1. \A f \in pending : Payload(f) # Payload(g)
      BY <1>1, <2>2 DEF InOnePlace
    <3>2. \A v \in Workers : v # w /\ Busy(v) => Payload(fill[v]) # Payload(g)
      BY <1>1, <2>2 DEF InOnePlace
    <3>3. g.delivery <= fill[w].delivery
      BY <1>3, <2>2
    <3> QED BY <1>2, <3>1, <3>2, <3>3
  <2> QED BY <2>1, <2>2
<1>5. ASSUME NEW v \in Workers
      PROVE  /\ pc'[v] = "position_read" => fill'[v] \notin posted'
             /\ pc'[v] \in {"position_read", "position_written", "balance_read"}
                  => fill'[v] \notin paid'
  <2>1. CASE v = w
    BY <1>1, <2>1 DEF InOnePlace
  <2>2. CASE v # w
    <3>1. Busy(v) => fill[v] # fill[w]
      BY <1>1, <2>2 DEF InOnePlace
    <3> QED BY <1>1, <2>2, <3>1 DEF InOnePlace, Busy
  <2> QED BY <2>1, <2>2
<1>6. /\ \A f, g \in pending' : Payload(f) = Payload(g) => f = g
      /\ \A v \in Workers : Busy(v)' => \A g \in pending' : Payload(g) # Payload(fill'[v])
      /\ \A u, v \in Workers :
           u # v /\ Busy(u)' /\ Busy(v)' => Payload(fill'[u]) # Payload(fill'[v])
  BY <1>2 DEF InOnePlace
<1> QED BY <1>4, <1>5, <1>6 DEF InOnePlace

(* A waiting delivery that a worker takes is in that worker's hands only. *)
LEMMA PlaceReceive ==
  ASSUME TypeOK, InOnePlace, NEW w \in Workers, NEW f \in Fills, Receive(w, f)
  PROVE  InOnePlace'
<1>1. /\ f \in pending /\ pending' = pending \ {f} /\ UNCHANGED <<posted, paid>>
      /\ pc'[w] = "position_read" /\ fill'[w] = f /\ ~Busy(w)
      /\ \A v \in Workers : v # w => pc'[v] = pc[v] /\ fill'[v] = fill[v]
  BY DEF Receive, StartApply, TypeOK, Busy, history
<1>2. \A v \in Workers : v # w => (Busy(v)' <=> Busy(v))
  BY <1>1 DEF Busy
<1>3. f \in FillType /\ posted \cup paid \subseteq FillType
  BY FillsAssumption DEF TypeOK
<1>4. \A g \in posted \cup paid : Payload(f) = Payload(g) => g.delivery < f.delivery
  BY <1>1 DEF InOnePlace
<1>5. ASSUME NEW g \in posted' \cup paid', NEW v \in Workers, Busy(v)',
             Payload(fill'[v]) = Payload(g)
      PROVE  g.delivery <= fill'[v].delivery
  <2>1. g.delivery \in Nat /\ f.delivery \in Nat /\ g \in posted \cup paid
    BY <1>1, <1>3 DEF FillType
  <2>2. CASE v = w
    <3>1. g.delivery < f.delivery
      BY <1>1, <1>4, <1>5, <2>1, <2>2
    <3> QED BY <1>1, <2>1, <2>2, <3>1
  <2>3. CASE v # w
    BY <1>1, <1>2, <1>5, <2>1, <2>3 DEF InOnePlace
  <2> QED BY <2>2, <2>3
<1>6. f \notin posted \cup paid
  <2>1. f.delivery \in Nat
    BY <1>3 DEF FillType
  <2> QED BY <1>4, <2>1
<1>7. ASSUME NEW v \in Workers
      PROVE  /\ pc'[v] = "position_read" => fill'[v] \notin posted'
             /\ pc'[v] \in {"position_read", "position_written", "balance_read"}
                  => fill'[v] \notin paid'
  BY <1>1, <1>6 DEF InOnePlace
<1>8. \A g, h \in pending' : Payload(g) = Payload(h) => g = h
  BY <1>1 DEF InOnePlace
<1>9. \A v \in Workers : Busy(v)' => \A g \in pending' : Payload(g) # Payload(fill'[v])
  BY <1>1, <1>2 DEF InOnePlace
<1>10. \A u, v \in Workers : u # v /\ Busy(u)' /\ Busy(v)' => Payload(fill'[u]) # Payload(fill'[v])
  BY <1>1, <1>2 DEF InOnePlace
<1>11. ASSUME NEW g \in posted' \cup paid', NEW h \in pending', Payload(h) = Payload(g)
       PROVE  g.delivery < h.delivery
  BY <1>1, <1>11 DEF InOnePlace
<1> QED BY <1>5, <1>7, <1>8, <1>9, <1>10, <1>11 DEF InOnePlace

LEMMA PlaceNext == TypeOK /\ InOnePlace /\ [Next]_vars => InOnePlace'
<1> SUFFICES ASSUME TypeOK, InOnePlace, [Next]_vars PROVE InOnePlace'
  OBVIOUS
<1>1. ASSUME NEW w \in Workers, NEW f \in Fills, Receive(w, f)
      PROVE  InOnePlace'
  BY <1>1, PlaceReceive
<1>2. ASSUME NEW w \in Workers, WritePosition(w)
      PROVE  InOnePlace'
  BY <1>2, PlaceWrite DEF WritePosition, queue
<1>3. ASSUME NEW w \in Workers, WriteBalance(w)
      PROVE  InOnePlace'
  BY <1>3, PlaceWrite DEF WriteBalance, queue
<1>4. ASSUME NEW w \in Workers, ReadBalance(w)
      PROVE  InOnePlace'
  <2>1. /\ pc[w] = "position_written" /\ pc' = [pc EXCEPT ![w] = "balance_read"]
        /\ UNCHANGED <<fill, pending, posted, paid>>
    BY <1>4 DEF ReadBalance, queue, history
  <2>2. \A v \in Workers : Busy(v)' <=> Busy(v)
    BY <2>1 DEF TypeOK, Busy
  <2>3. \A v \in Workers :
          /\ pc'[v] = "position_read" => pc[v] = "position_read"
          /\ pc'[v] \in {"position_read", "position_written", "balance_read"}
               => pc[v] \in {"position_read", "position_written", "balance_read"}
    BY <2>1 DEF TypeOK
  <2> QED BY <2>1, <2>2, <2>3 DEF InOnePlace
<1>5. ASSUME NEW w \in Workers, RejectFill(w) \/ Finish(w)
      PROVE  InOnePlace'
  BY <1>5, PlaceReturn DEF RejectFill, Finish, Busy, queue, history
<1>6. ASSUME NEW w \in Workers, AbortApply(w)
      PROVE  InOnePlace'
  BY <1>6, PlaceReturn DEF AbortApply, history
<1>7. CASE UNCHANGED vars
  BY <1>7 DEF vars, locals, queue, history, InOnePlace, Busy
<1> QED BY <1>1, <1>2, <1>3, <1>4, <1>5, <1>6, <1>7 DEF Next, Step

(* Everything waits for the first time. *)
LEMMA PlaceInit == Init => InOnePlace
<1> SUFFICES ASSUME Init PROVE InOnePlace
  OBVIOUS
<1>1. \A f \in pending : f \in FillType /\ f.delivery = 1
  BY FillsAssumption DEF Init
<1>2. \A f, g \in pending : Payload(f) = Payload(g) => f = g
  BY <1>1, Deliveries
<1>3. \A w \in Workers : pc[w] = "idle"
  BY DEF Init
<1>4. posted = {} /\ paid = {}
  BY DEF Init
<1> QED BY <1>2, <1>3, <1>4 DEF InOnePlace, Busy

(* The cash the ledger sees, where nobody or exactly one apply is in between. *)
LEMMA AnyOfOne == ASSUME NEW x PROVE AnyOf({x}) = x
BY DEF AnyOf

(* With no balance write to come, the ledger's cash is the stored balance. *)
LEMMA CashAtRest ==
  ASSUME NEW u \in Users, \A v \in Workers : v \notin Unpaid(u)
  PROVE  LedgerCash[u] = balances[u]
<1>1. Unpaid(u) = {}
  BY DEF Unpaid
<1> QED BY <1>1 DEF LedgerCash

(* Between the two writes of an apply the ledger's cash is already paid. *)
LEMMA CashInBetween ==
  ASSUME AppliesApart, NEW u \in Users, NEW w \in Workers, w \in Unpaid(u)
  PROVE  LedgerCash[u] = ApplyFillToBalance(balances[u], fill[w])
<1>1. Unpaid(u) = {w}
  BY DEF Unpaid, AppliesApart, Busy
<1> QED BY <1>1, AnyOfOne DEF LedgerCash

(* Two functions that differ at one point are one EXCEPT apart. *)
LEMMA UpdateAt ==
  ASSUME NEW S, NEW F, NEW G, NEW a \in S,
         F = [x \in S |-> F[x]], G = [x \in S |-> G[x]],
         \A x \in S : x # a => G[x] = F[x]
  PROVE  G = [F EXCEPT ![a] = G[a]]
OBVIOUS

(* Every branch of the arithmetic adds the signed size of the fill. *)
LEMMA SizeAfter ==
  ASSUME NEW pos, NEW f
  PROVE  ApplyFillToPosition(pos, f).size = pos.size + SignedFill(f)
BY DEF ApplyFillToPosition, CostAverage, Reduce

(* The balance arithmetic is the ledger's: shares times price, less the fee. *)
LEMMA BalanceAfter ==
  ASSUME NEW b \in Int, NEW f \in FillType
  PROVE  ApplyFillToBalance(b, f) = b - Books!Shares(f) * f.price - f.fee
<1>1. f.size \in Int /\ f.price \in Int /\ f.fee \in Int
  BY DEF FillType
<1>2. CASE f.side = "buy"
  BY <1>1, <1>2 DEF ApplyFillToBalance, Books!Shares
<1>3. CASE f.side # "buy"
  <2>1. (-f.size) * f.price = -(f.size * f.price) /\ f.size * f.price \in Int
    BY <1>1
  <2> QED BY <1>1, <1>3, <2>1 DEF ApplyFillToBalance, Books!Shares
<1> QED BY <1>2, <1>3

(* Writing the position is the moment a fill is settled in both books. *)
LEMMA WritePositionSettles ==
  ASSUME JInv, NEW w \in Workers, WritePosition(w), NEW f \in Fills, f = fill[w]
  PROVE  Books!Settle(f)
<1> DEFINE k == KeyOf(f)
<1> USE DEF JInv, IInv
<1>1. /\ pc[w] = "position_read" /\ Busy(w) /\ FillIsValid(f)
      /\ pc' = [pc EXCEPT ![w] = "position_written"]
      /\ posted' = posted \cup {f}
      /\ UNCHANGED <<balances, fill>>
  BY DEF WritePosition, Busy
<1>2. f \in FillType /\ f.user \in Users /\ k \in Keys
  BY <1>1, BusyFill
<1>3. f \notin posted /\ f.size > 0
  BY <1>1 DEF InOnePlace, FillIsValid
<1>4. positions'[k].size = positions[k].size + SignedFill(f)
  <2>1. positions'[k].size = ApplyFillToPosition(prior[w], f).size
    BY <1>2 DEF WritePosition, TypeOK
  <2>2. prior[w] = positions[k]
    BY <1>1 DEF NoStaleRead
  <2> QED BY <2>1, <2>2, SizeAfter
<1>5. \A j \in Keys : j # k => positions'[j] = positions[j]
  BY DEF WritePosition, TypeOK
<1>6. [j \in Keys |-> positions'[j].size]
        = [[j \in Keys |-> positions[j].size] EXCEPT ![k] = @ + Books!Shares(f)]
  BY <1>2, <1>4, <1>5 DEF Books!Shares, SignedFill
<1>7. ASSUME NEW u \in Users, u = f.user
      PROVE  LedgerCash'[u] = LedgerCash[u] - Books!Shares(f) * f.price - f.fee
  <2>1. \A v \in Workers : v # w => (Busy(v) => fill[v].user # u)
    BY <1>1, <1>7 DEF AppliesApart
  <2>2. LedgerCash[u] = balances[u]
    <3>1. \A v \in Workers : v \notin Unpaid(u)
      BY <1>1, <2>1 DEF Unpaid, Busy
    <3> QED BY <3>1, CashAtRest
  <2>3. \A v \in Workers : v # w => pc'[v] = pc[v]
    BY <1>1 DEF TypeOK
  <2>4. (Unpaid(u))' = {w}
    <3>1. pc'[w] = "position_written"
      BY <1>1 DEF TypeOK
    <3> QED BY <1>1, <1>7, <2>1, <2>3, <3>1 DEF Unpaid, Busy
  <2>5. LedgerCash'[u] = ApplyFillToBalance(balances'[u], fill'[w])
    <3>1. LedgerCash'[u] = ApplyFillToBalance(balances'[u], fill'[AnyOf({w})])
      BY <2>4 DEF LedgerCash
    <3> QED BY <3>1, AnyOfOne
  <2>6. balances[u] \in Int
    BY DEF TypeOK
  <2> QED BY <1>1, <1>2, <2>2, <2>5, <2>6, BalanceAfter
<1>8. ASSUME NEW u \in Users, u # f.user
      PROVE  LedgerCash'[u] = LedgerCash[u]
  <2>1. (Unpaid(u))' = Unpaid(u)
    BY <1>1, <1>8 DEF Unpaid, TypeOK
  <2> QED BY <1>1, <2>1 DEF LedgerCash
<1>9. LedgerCash' = [LedgerCash EXCEPT ![f.user] = @ - Books!Shares(f) * f.price - f.fee]
  <2>1. LedgerCash = [u \in Users |-> LedgerCash[u]]
    BY DEF LedgerCash
  <2>2. LedgerCash' = [u \in Users |-> LedgerCash'[u]]
    BY DEF LedgerCash
  <2>3. LedgerCash' = [LedgerCash EXCEPT ![f.user] = LedgerCash'[f.user]]
    BY <1>2, <1>8, <2>1, <2>2, UpdateAt
  <2>4. LedgerCash'[f.user] = LedgerCash[f.user] - Books!Shares(f) * f.price - f.fee
    BY <1>2, <1>7
  <2> QED BY <2>3, <2>4
<1> QED BY <1>1, <1>3, <1>6, <1>9 DEF Books!Settle, KeyOf

(* Writing the balance is invisible: the ledger had it since the position.    *)
LEMMA WriteBalanceStutters ==
  ASSUME JInv, NEW w \in Workers, WriteBalance(w)
  PROVE  UNCHANGED <<posted, [k \in Keys |-> positions[k].size], LedgerCash>>
<1> DEFINE f == fill[w]
<1> USE DEF JInv, IInv
<1>1. /\ pc[w] = "balance_read" /\ Busy(w)
      /\ pc' = [pc EXCEPT ![w] = "balance_written"]
      /\ UNCHANGED <<posted, positions, fill>>
  BY DEF WriteBalance, Busy
<1>2. f.user \in Users
  BY <1>1, BusyFill
<1>3. balances' = [balances EXCEPT ![f.user] = ApplyFillToBalance(balances[f.user], f)]
  BY <1>1 DEF WriteBalance, NoStaleRead
<1>4. ASSUME NEW u \in Users, u = f.user
      PROVE  LedgerCash'[u] = LedgerCash[u]
  <2>1. \A v \in Workers : v # w => (Busy(v) => fill[v].user # u)
    BY <1>1, <1>4 DEF AppliesApart
  <2>2. LedgerCash[u] = ApplyFillToBalance(balances[u], f)
    <3>1. w \in Unpaid(u)
      BY <1>1, <1>4 DEF Unpaid
    <3> QED BY <3>1, CashInBetween
  <2>3. \A v \in Workers : v # w => pc'[v] = pc[v] /\ fill'[v] = fill[v]
    BY <1>1 DEF TypeOK
  <2>4. (Unpaid(u))' = {}
    <3>1. pc'[w] = "balance_written"
      BY <1>1 DEF TypeOK
    <3> QED BY <2>1, <2>3, <3>1 DEF Unpaid, Busy
  <2>5. LedgerCash'[u] = balances'[u]
    BY <2>4 DEF LedgerCash
  <2> QED BY <1>3, <1>4, <2>2, <2>5 DEF TypeOK
<1>5. ASSUME NEW u \in Users, u # f.user
      PROVE  LedgerCash'[u] = LedgerCash[u]
  <2>1. (Unpaid(u))' = Unpaid(u) /\ w \notin Unpaid(u)
    BY <1>1, <1>5 DEF Unpaid, TypeOK
  <2>2. CASE Unpaid(u) = {}
    BY <1>3, <1>5, <2>1, <2>2 DEF LedgerCash, TypeOK
  <2>3. CASE Unpaid(u) # {}
    <3>1. AnyOf(Unpaid(u)) \in Unpaid(u)
      BY <2>3 DEF AnyOf
    <3>2. AnyOf(Unpaid(u)) \in Workers /\ AnyOf(Unpaid(u)) # w
      BY <2>1, <3>1 DEF Unpaid
    <3>3. fill'[AnyOf(Unpaid(u))] = fill[AnyOf(Unpaid(u))]
      BY <1>1, <3>2 DEF TypeOK
    <3>4. balances'[u] = balances[u]
      BY <1>3, <1>5 DEF TypeOK
    <3> QED BY <2>1, <2>3, <3>3, <3>4 DEF LedgerCash
  <2> QED BY <2>2, <2>3
<1>6. LedgerCash' = LedgerCash
  BY <1>4, <1>5 DEF LedgerCash
<1> QED BY <1>1, <1>6

(* Nothing else touches a book or an apply that is between its two writes. *)
LEMMA OthersStutter ==
  ASSUME JInv, UNCHANGED <<stores, posted>>,
         \A v \in Workers : pc[v] \in {"position_written", "balance_read"} \/
                            pc'[v] \in {"position_written", "balance_read"}
           => /\ pc[v] \in {"position_written", "balance_read"}
              /\ pc'[v] \in {"position_written", "balance_read"}
              /\ fill'[v] = fill[v]
  PROVE  UNCHANGED <<posted, [k \in Keys |-> positions[k].size], LedgerCash>>
<1>1. ASSUME NEW u \in Users
      PROVE  LedgerCash'[u] = LedgerCash[u]
  <2>1. (Unpaid(u))' = Unpaid(u)
    BY DEF Unpaid
  <2>2. CASE Unpaid(u) = {}
    BY <2>1, <2>2 DEF LedgerCash, stores
  <2>3. CASE Unpaid(u) # {}
    <3>1. AnyOf(Unpaid(u)) \in Unpaid(u)
      BY <2>3 DEF AnyOf
    <3>2. fill'[AnyOf(Unpaid(u))] = fill[AnyOf(Unpaid(u))]
      BY <3>1 DEF Unpaid
    <3> QED BY <2>1, <2>3, <3>2 DEF LedgerCash, stores
  <2> QED BY <2>2, <2>3
<1>2. LedgerCash' = LedgerCash
  BY <1>1 DEF LedgerCash
<1> QED BY <1>2 DEF stores

(* Every step of the coroutine settles one fill in the ledger or leaves it.  *)
LEMMA StepSettlesOrStutters ==
  ASSUME MaxAborts = 0
  PROVE  JInv /\ [Next]_vars
           => Books!Next \/ UNCHANGED Books!ledgerVars
<1> SUFFICES ASSUME JInv, [Next]_vars
             PROVE  Books!Next \/ UNCHANGED Books!ledgerVars
  OBVIOUS
<1> DEFINE Stutter == UNCHANGED <<posted, [k \in Keys |-> positions[k].size], LedgerCash>>
<1>0. Stutter => UNCHANGED Books!ledgerVars
  BY DEF Books!ledgerVars
<1>1. ASSUME NEW w \in Workers, NEW f \in Fills, Receive(w, f)
      PROVE  Stutter
  BY <1>1, OthersStutter DEF Receive, StartApply, JInv, IInv, TypeOK, history
<1>2. ASSUME NEW w \in Workers, RejectFill(w)
      PROVE  Stutter
  BY <1>2, OthersStutter DEF RejectFill, Return, JInv, IInv, TypeOK
<1>3. ASSUME NEW w \in Workers, WritePosition(w)
      PROVE  Books!Next
  <2>1. fill[w] \in Fills
    BY <1>3, BusyFill DEF WritePosition, Busy, JInv, IInv
  <2>2. PICK f \in Fills : f = fill[w]
    BY <2>1
  <2>3. Books!Settle(f)
    BY <1>3, <2>2, WritePositionSettles
  <2> QED BY <2>3 DEF Books!Next
<1>4. ASSUME NEW w \in Workers, ReadBalance(w)
      PROVE  Stutter
  BY <1>4, OthersStutter DEF ReadBalance, JInv, IInv, TypeOK, history
<1>5. ASSUME NEW w \in Workers, WriteBalance(w)
      PROVE  Stutter
  BY <1>5, WriteBalanceStutters
<1>6. ASSUME NEW w \in Workers, Finish(w)
      PROVE  Stutter
  BY <1>6, OthersStutter DEF Finish, Return, JInv, IInv, TypeOK, history
<1>7. ASSUME NEW w \in Workers, AbortApply(w)
      PROVE  Stutter
  BY <1>7 DEF AbortApply, JInv, IInv, TypeOK
<1>8. ASSUME UNCHANGED vars
      PROVE  Stutter
  BY <1>8, OthersStutter DEF vars, stores, locals, history
<1> HIDE DEF Stutter
<1>9. Stutter \/ Books!Next
  BY <1>1, <1>2, <1>3, <1>4, <1>5, <1>6, <1>7, <1>8 DEF Next, Step
<1> QED BY <1>0, <1>9

(* Empty stores are an empty ledger. *)
LEMMA InitialBooks == Init => Books!Init
<1> SUFFICES ASSUME Init PROVE Books!Init
  OBVIOUS
<1>1. [k \in Keys |-> positions[k].size] = [k \in Keys |-> 0]
  BY DEF Init, NoPosition
<1>2. \A u \in Users : Unpaid(u) = {}
  BY DEF Init, Unpaid
<1>3. LedgerCash = [u \in Users |-> OpeningBalance]
  BY <1>2 DEF Init, LedgerCash
<1> QED BY <1>1, <1>3 DEF Init, Books!Init, Keys

(* One apply per user and no aborts: the coroutine with its four awaited      *)
(* store calls implements the Ledger, which settles every fill at most once   *)
(* and moves holding and cash together.                                       *)
THEOREM ImplementsLedger == OnePerUser /\ MaxAborts = 0 => (Spec => LedgerSpec)
<1> SUFFICES ASSUME OnePerUser, MaxAborts = 0 PROVE Spec => LedgerSpec
  OBVIOUS
<1>1. Init => JInv
  BY TypeInit, FreshInit, PlaceInit DEF JInv, IInv
<1>2. JInv /\ [Next]_vars => JInv'
  BY TypeNext, FreshNext, PlaceNext DEF JInv, IInv
<1>3. Init => Books!Init
  BY InitialBooks
<1>4. JInv /\ [Next]_vars => [Books!Next]_(Books!ledgerVars)
  BY StepSettlesOrStutters
<1> QED BY <1>1, <1>2, <1>3, <1>4, PTL DEF Spec, LedgerSpec, Books!Spec

-----------------------------------------------------------------------------
(* Rounding a quotient does not cross a whole number on either side of it. *)
LEMMA RoundHalfEvenBounds ==
  ASSUME NEW n \in Int, NEW d \in Nat \ {0}, NEW b \in Int
  PROVE  /\ d * b <= n => b <= RoundHalfEven(n, d)
         /\ n <= d * b => RoundHalfEven(n, d) <= b
<1> DEFINE q == n \div d
           r == n % d
<1>1. q \in Int /\ r \in Nat /\ r < d /\ n = d * q + r
  BY SMT
<1>2. /\ RoundHalfEven(n, d) \in {q, q + 1}
      /\ r = 0 => RoundHalfEven(n, d) = q
  BY SMT DEF RoundHalfEven
<1> HIDE DEF q, r
<1>3. d * (q + 1) = d * q + d /\ d * q \in Int /\ d * b \in Int
  BY <1>1, SMT
<1>4. ASSUME NEW x \in Int, NEW y \in Int, x > y PROVE d * x > d * y
  <2>1. d * (x - y) > 0 /\ d * x = d * y + d * (x - y)
    BY <1>4, SMT
  <2>2. d * x \in Int /\ d * y \in Int /\ d * (x - y) \in Int
    BY SMT
  <2> QED BY <2>1, <2>2, SMT
<1>5. ASSUME d * b <= n PROVE b <= q
  <2> SUFFICES ASSUME b > q PROVE FALSE
    BY <1>1, SMT
  <2>1. b = q + 1 \/ b > q + 1
    BY <1>1, SMT
  <2>2. d * b >= d * (q + 1)
    BY <1>1, <1>3, <1>4, <2>1, SMT
  <2> QED BY <1>1, <1>3, <1>5, <2>2, SMT
<1>6. ASSUME n <= d * b PROVE q <= b /\ (r # 0 => q + 1 <= b)
  <2>1. q <= b
    <3> SUFFICES ASSUME q > b PROVE FALSE
      BY <1>1, SMT
    <3>1. d * q > d * b
      BY <1>1, <1>4
    <3> QED BY <1>1, <1>3, <1>6, <3>1, SMT
  <2>2. r # 0 => q # b
    BY <1>1, <1>3, <1>6, SMT
  <2> QED BY <1>1, <2>1, <2>2, SMT
<1> QED BY <1>1, <1>2, <1>5, <1>6, SMT

(* What a fill costs per share, in the units of an average cost. *)
Cost(f) == f.price * AvgScale

(* A weighted average lies on the side of a bound on which both its parts lie. *)
LEMMA CostAverageBounds ==
  ASSUME NEW pos \in PositionType, NEW f \in FillType, FillIsValid(f),
         Grows(pos.size, SignedFill(f)), NEW b \in Int
  PROVE  /\ CostAverage(pos, f).size # 0
         /\ b <= Cost(f) /\ (pos.size # 0 => b <= pos.avg) => b <= CostAverage(pos, f).avg
         /\ Cost(f) <= b /\ (pos.size # 0 => pos.avg <= b) => CostAverage(pos, f).avg <= b
<1> DEFINE m == Magnitude(pos.size)
           q == f.size
           size == pos.size + SignedFill(f)
           notional == m * pos.avg + f.size * f.price * AvgScale
<1>1. /\ pos.size \in Int /\ pos.avg \in Int /\ q \in Nat \ {0} /\ f.price \in Int
      /\ AvgScale \in Int /\ m \in Nat /\ (pos.size = 0 => m = 0)
  BY AvgScaleAssumption, SMT DEF PositionType, FillType, FillIsValid, Magnitude
<1>2. size # 0 /\ size \in Int /\ Magnitude(size) = m + q
  BY <1>1, SMT DEF Grows, SignedFill, Magnitude
<1>3. Cost(f) \in Int /\ f.size * f.price * AvgScale = q * Cost(f)
  BY <1>1, SMT DEF Cost
<1>4. CostAverage(pos, f).size = size
      /\ CostAverage(pos, f).avg = RoundHalfEven(notional, m + q)
  BY <1>2 DEF CostAverage
<1> HIDE DEF m, q, size
<1>5. /\ m * pos.avg \in Int /\ q * Cost(f) \in Int /\ m * b \in Int /\ q * b \in Int
      /\ (m + q) * b = m * b + q * b /\ m + q \in Nat \ {0}
      /\ m = 0 => m * pos.avg = 0 /\ m * b = 0
  BY <1>1, <1>3, SMT
<1>6. notional = m * pos.avg + q * Cost(f) /\ notional \in Int
  BY <1>3, <1>5, SMT
<1> HIDE DEF notional
<1>7. ASSUME NEW x \in Int, NEW y \in Int, NEW k \in Nat, x <= y PROVE k * x <= k * y
  <2>1. k * (y - x) \in Nat /\ k * y = k * x + k * (y - x) /\ k * x \in Int
    BY <1>7, SMT
  <2> QED BY <2>1, SMT
<1>8. ASSUME b <= Cost(f), pos.size # 0 => b <= pos.avg
      PROVE  b <= RoundHalfEven(notional, m + q)
  <2>1. q * b <= q * Cost(f)
    BY <1>1, <1>3, <1>7, <1>8
  <2>2. m * b <= m * pos.avg
    BY <1>1, <1>5, <1>7, <1>8
  <2>3. (m + q) * b <= notional
    BY <1>5, <1>6, <2>1, <2>2, SMT
  <2> QED BY <1>5, <1>6, <2>3, RoundHalfEvenBounds
<1>9. ASSUME Cost(f) <= b, pos.size # 0 => pos.avg <= b
      PROVE  RoundHalfEven(notional, m + q) <= b
  <2>1. q * Cost(f) <= q * b
    BY <1>1, <1>3, <1>7, <1>9
  <2>2. m * pos.avg <= m * b
    BY <1>1, <1>5, <1>7, <1>9
  <2>3. notional <= (m + q) * b
    BY <1>5, <1>6, <2>1, <2>2, SMT
  <2> QED BY <1>5, <1>6, <2>3, RoundHalfEvenBounds
<1> QED BY <1>2, <1>4, <1>8, <1>9

(* The average of a position is backed by fills S at or below and above it. *)
Priced(pos, S) ==
  IF pos.size = 0 THEN pos.avg = 0
  ELSE /\ \E f \in S : Cost(f) <= pos.avg
       /\ \E f \in S : pos.avg <= Cost(f)

LEMMA UpdatePriced ==
  ASSUME NEW pos \in PositionType, NEW f \in FillType, FillIsValid(f),
         NEW S \in SUBSET FillType, Priced(pos, S)
  PROVE  Priced(ApplyFillToPosition(pos, f), S \cup {f})
<1> DEFINE new == ApplyFillToPosition(pos, f)
<1>1. \A g \in FillType : Cost(g) \in Int
  BY AvgScaleAssumption, SMT DEF FillType, Cost
<1>2. pos.size \in Int /\ pos.avg \in Int /\ f \in S \cup {f}
  BY DEF PositionType
<1>3. CASE Grows(pos.size, SignedFill(f))
  <2>1. new = CostAverage(pos, f) /\ new \in UpdateType
    BY <1>3, ApplyFillToPositionType DEF ApplyFillToPosition
  <2>2. new.size # 0
    BY <1>3, <2>1, CostAverageBounds
  <2>3. \A b \in Int : /\ b <= Cost(f) /\ (pos.size # 0 => b <= pos.avg) => b <= new.avg
                       /\ Cost(f) <= b /\ (pos.size # 0 => pos.avg <= b) => new.avg <= b
    BY <1>3, <2>1, CostAverageBounds
  <2> HIDE DEF new
  <2>4. \E g \in S \cup {f} : Cost(g) <= new.avg
    <3>1. CASE pos.size = 0
      BY <1>1, <1>2, <2>3, <3>1
    <3>2. CASE pos.size # 0
      <4>1. PICK g \in S : Cost(g) <= pos.avg
        BY <3>2 DEF Priced
      <4>2. CASE Cost(g) <= Cost(f)
        BY <1>1, <2>3, <4>1, <4>2
      <4>3. CASE ~(Cost(g) <= Cost(f))
        <5>1. Cost(f) <= pos.avg
          BY <1>1, <1>2, <4>1, <4>3
        <5> QED BY <1>1, <1>2, <2>3, <5>1
      <4> QED BY <4>2, <4>3
    <3> QED BY <3>1, <3>2
  <2>5. \E g \in S \cup {f} : new.avg <= Cost(g)
    <3>1. CASE pos.size = 0
      BY <1>1, <1>2, <2>3, <3>1
    <3>2. CASE pos.size # 0
      <4>1. PICK g \in S : pos.avg <= Cost(g)
        BY <3>2 DEF Priced
      <4>2. CASE Cost(f) <= Cost(g)
        BY <1>1, <2>3, <4>1, <4>2
      <4>3. CASE ~(Cost(f) <= Cost(g))
        <5>1. pos.avg <= Cost(f)
          BY <1>1, <1>2, <4>1, <4>3
        <5> QED BY <1>1, <1>2, <2>3, <5>1
      <4> QED BY <4>2, <4>3
    <3> QED BY <3>1, <3>2
  <2> QED BY <2>2, <2>4, <2>5 DEF Priced, new
<1>4. CASE ~Grows(pos.size, SignedFill(f))
  <2>1. pos.size # 0 /\ new = Reduce(pos, f)
    BY <1>4 DEF Grows, ApplyFillToPosition
  <2>2. new.size = 0 => new.avg = 0
    BY <2>1 DEF Reduce
  <2>3. new.size # 0 => new.avg = Cost(f) \/ new.avg = pos.avg
    BY <2>1 DEF Reduce, Cost
  <2> HIDE DEF new
  <2>4. /\ \E g \in S : Cost(g) <= pos.avg
        /\ \E g \in S : pos.avg <= Cost(g)
    BY <2>1 DEF Priced
  <2>5. Cost(f) <= Cost(f)
    BY <1>1
  <2>6. Priced(new, S \cup {f})
    BY <2>2, <2>3, <2>4, <2>5 DEF Priced
  <2> QED BY <2>6 DEF new
<1> QED BY <1>3, <1>4

(* What a suspended apply read is as well backed as what the store holds:     *)
(* fills are posted, never taken back.                                        *)
PInv ==
  /\ TypeOK
  /\ \A k \in Keys : Priced(positions[k], FillsAt(posted, k))
  /\ \A w \in Workers :
       pc[w] = "position_read" => Priced(prior[w], FillsAt(posted, KeyOf(fill[w])))

LEMMA PricedStays ==
  ASSUME NEW pos, NEW k, NEW more, Priced(pos, FillsAt(posted, k)), posted \subseteq more
  PROVE  Priced(pos, FillsAt(more, k))
BY DEF Priced, FillsAt

LEMMA PricesNext == PInv /\ [Next]_vars => PInv'
<1> SUFFICES ASSUME PInv, [Next]_vars PROVE PInv'
  OBVIOUS
<1>0. TypeOK /\ TypeOK' /\ posted \subseteq posted'
  <2>1. TypeOK /\ TypeOK'
    BY TypeNext DEF PInv
  <2>2. posted \subseteq posted'
    BY DEF Next, Step, Receive, StartApply, RejectFill, WritePosition, ReadBalance,
           WriteBalance, Finish, AbortApply, vars, history
  <2> QED BY <2>1, <2>2
<1> DEFINE Kept(w) ==
             pc[w] = "position_read" /\ fill'[w] = fill[w] /\ prior'[w] = prior[w]
           Read(w) ==
             KeyOf(fill'[w]) \in Keys /\ prior'[w] = positions[KeyOf(fill'[w])]
<1>1. ASSUME positions' = positions,
             \A w \in Workers : pc'[w] = "position_read" => Kept(w) \/ Read(w)
      PROVE  PInv'
  <2>1. ASSUME NEW k \in Keys PROVE Priced(positions'[k], FillsAt(posted', k))
    BY <1>0, <1>1, PricedStays DEF PInv
  <2>2. ASSUME NEW w \in Workers, pc'[w] = "position_read"
        PROVE  Priced(prior'[w], FillsAt(posted', KeyOf(fill'[w])))
    <3>1. CASE Kept(w)
      BY <1>0, <3>1, PricedStays DEF PInv
    <3>2. CASE Read(w)
      BY <1>0, <3>2, PricedStays DEF PInv
    <3> QED BY <1>1, <2>2, <3>1, <3>2
  <2> QED BY <1>0, <2>1, <2>2 DEF PInv
<1>2. ASSUME NEW w \in Workers, NEW f \in Fills, Receive(w, f) PROVE PInv'
  <2>1. KeyOf(f) \in Keys
    BY FillsAssumption DEF FillType, KeyOf, Keys
  <2>2. /\ UNCHANGED positions
        /\ pc' = [pc EXCEPT ![w] = "position_read"] /\ fill' = [fill EXCEPT ![w] = f]
        /\ prior' = [prior EXCEPT ![w] = positions[KeyOf(f)]]
    BY <1>2 DEF Receive, StartApply, stores
  <2>3. ASSUME NEW v \in Workers
        PROVE  /\ v = w => fill'[v] = f /\ prior'[v] = positions[KeyOf(f)]
               /\ v # w => fill'[v] = fill[v] /\ prior'[v] = prior[v] /\ pc'[v] = pc[v]
    BY <1>0, <2>2 DEF TypeOK
  <2>4. \A v \in Workers : pc'[v] = "position_read" => Kept(v) \/ Read(v)
    BY <2>1, <2>3
  <2> HIDE DEF Kept, Read
  <2> QED BY <1>1, <2>2, <2>4
<1>3. ASSUME NEW w \in Workers, Return(w), UNCHANGED positions PROVE PInv'
  <2>1. ASSUME NEW v \in Workers, pc'[v] = "position_read"
        PROVE  fill'[v] = fill[v] /\ prior'[v] = prior[v] /\ pc[v] = "position_read"
    BY <1>0, <1>3, <2>1 DEF Return, TypeOK
  <2>2. \A v \in Workers : pc'[v] = "position_read" => Kept(v) \/ Read(v)
    BY <2>1
  <2> HIDE DEF Kept, Read
  <2> QED BY <1>1, <1>3, <2>2
<1>4. ASSUME NEW w \in Workers, ReadBalance(w) \/ WriteBalance(w) PROVE PInv'
  <2>1. ASSUME NEW v \in Workers, pc'[v] = "position_read"
        PROVE  fill'[v] = fill[v] /\ prior'[v] = prior[v] /\ pc[v] = "position_read"
    BY <1>0, <1>4, <2>1 DEF ReadBalance, WriteBalance, TypeOK
  <2>2. positions' = positions
    BY <1>4 DEF ReadBalance, WriteBalance, stores
  <2>3. \A v \in Workers : pc'[v] = "position_read" => Kept(v) \/ Read(v)
    BY <2>1
  <2> HIDE DEF Kept, Read
  <2> QED BY <1>1, <2>2, <2>3
<1>5. ASSUME NEW w \in Workers, WritePosition(w) PROVE PInv'
  <2> DEFINE f == fill[w]
             k == KeyOf(f)
             update == ApplyFillToPosition(prior[w], f)
             new == [size |-> update.size, avg |-> update.avg,
                     realized |-> prior[w].realized + update.pnl]
  <2>1. /\ pc[w] = "position_read" /\ FillIsValid(f)
        /\ positions' = [positions EXCEPT ![k] = new]
        /\ posted' = posted \cup {f} /\ pc' = [pc EXCEPT ![w] = "position_written"]
        /\ UNCHANGED <<fill, prior>>
    BY <1>5 DEF WritePosition
  <2>2. f \in Fills /\ f \in FillType /\ k \in Keys /\ prior[w] \in PositionType
    BY <1>0, <2>1, BusyFill DEF Busy, TypeOK
  <2>3. Priced(prior[w], FillsAt(posted, k)) /\ FillsAt(posted, k) \in SUBSET FillType
    BY <1>0, <2>1, FillsAssumption DEF PInv, TypeOK, FillsAt
  <2>4. Priced(update, FillsAt(posted, k) \cup {f})
    BY <2>1, <2>2, <2>3, UpdatePriced
  <2>5. FillsAt(posted', k) = FillsAt(posted, k) \cup {f}
    BY <2>1 DEF FillsAt
  <2> HIDE DEF update
  <2>6. Priced(new, FillsAt(posted', k))
    BY <2>4, <2>5 DEF Priced
  <2>7. ASSUME NEW j \in Keys PROVE Priced(positions'[j], FillsAt(posted', j))
    <3>1. CASE j = k
      <4>1. positions'[j] = new
        BY <1>0, <2>1, <2>2, <3>1 DEF TypeOK
      <4> QED BY <2>6, <3>1, <4>1
    <3>2. CASE j # k
      <4>1. positions'[j] = positions[j]
        BY <1>0, <2>1, <3>2 DEF TypeOK
      <4>2. Priced(positions[j], FillsAt(posted, j))
        BY DEF PInv
      <4> QED BY <1>0, <4>1, <4>2, PricedStays
    <3> QED BY <3>1, <3>2
  <2>8. ASSUME NEW v \in Workers, pc'[v] = "position_read"
        PROVE  Priced(prior'[v], FillsAt(posted', KeyOf(fill'[v])))
    <3>1. prior'[v] = prior[v] /\ fill'[v] = fill[v] /\ pc[v] = "position_read"
      BY <1>0, <2>1, <2>8 DEF TypeOK
    <3>2. Priced(prior[v], FillsAt(posted, KeyOf(fill[v])))
      BY <3>1 DEF PInv
    <3> QED BY <1>0, <3>1, <3>2, PricedStays
  <2> QED BY <1>0, <2>7, <2>8 DEF PInv
<1>6. CASE UNCHANGED vars
  <2>1. positions' = positions /\ pc' = pc /\ fill' = fill /\ prior' = prior
    BY <1>6 DEF vars, stores, locals
  <2>2. \A v \in Workers : pc'[v] = "position_read" => Kept(v) \/ Read(v)
    BY <2>1
  <2> HIDE DEF Kept, Read
  <2> QED BY <1>1, <2>1, <2>2
<1>7. ASSUME NEW w \in Workers, RejectFill(w) \/ Finish(w) \/ AbortApply(w)
      PROVE  PInv'
  BY <1>3, <1>7 DEF RejectFill, Finish, AbortApply, stores
<1> QED BY <1>2, <1>4, <1>5, <1>6, <1>7 DEF Next, Step

(* Whatever the order of the fills, however applies overlap, break off and    *)
(* are repeated: the average cost of an open position lies between the prices *)
(* of fills that were booked into it, and a closed one carries no cost        *)
(* (position_math.py:44-69).                                                  *)
THEOREM AveragesAreBacked == Spec => []AverageWithinFillPrices
<1>1. Init => PInv
  BY TypeInit DEF Init, PInv, Priced, NoPosition
<1>2. PInv => AverageWithinFillPrices
  BY DEF PInv, AverageWithinFillPrices, Priced, Cost
<1> QED BY <1>1, <1>2, PricesNext, PTL DEF Spec

-----------------------------------------------------------------------------
(* The code's test for the side a fill is on is the one PnLOnlyWhenReducing   *)
(* makes: the product of the position and its change is negative.             *)
LEMMA OppositeSigns ==
  ASSUME NEW a \in Int, NEW b \in Int, b # 0
  PROVE  /\ ~Grows(a, b) => a * b < 0
         /\ a * b < 0 => ~Grows(a, b)
         /\ a * (a + b) > 0 => ((a > 0) = (a + b > 0)) /\ a + b # 0
BY SMT DEF Grows

LEMMA UpdateRealizes ==
  ASSUME NEW pos \in PositionType, NEW f \in FillType, FillIsValid(f)
  PROVE  LET new == ApplyFillToPosition(pos, f)
             cut == pos.size * (new.size - pos.size) < 0
         IN  /\ new.pnl # 0 => cut
             /\ cut /\ pos.size * new.size > 0 => new.avg = pos.avg
<1> DEFINE b == SignedFill(f)
           new == ApplyFillToPosition(pos, f)
<1>1. pos.size \in Int /\ pos.avg \in Int /\ b \in Int /\ b # 0
  BY DEF PositionType, FillType, FillIsValid, SignedFill
<1>2. new.size = pos.size + b
  BY SizeAfter
<1>3. new.size - pos.size = b
  BY <1>1, <1>2
<1>4. CASE Grows(pos.size, b)
  <2>1. new.pnl = 0 /\ ~(pos.size * b < 0)
    BY <1>1, <1>4, OppositeSigns DEF ApplyFillToPosition, CostAverage
  <2> QED BY <1>3, <2>1
<1>5. CASE ~Grows(pos.size, b)
  <2>1. pos.size * b < 0 /\ new = Reduce(pos, f)
    BY <1>1, <1>5, OppositeSigns DEF ApplyFillToPosition
  <2>2. ASSUME pos.size * new.size > 0 PROVE new.avg = pos.avg
    <3>1. (pos.size > 0) = (pos.size + b > 0) /\ pos.size + b # 0
      BY <1>1, <1>2, <2>2, OppositeSigns
    <3> QED BY <2>1, <3>1 DEF Reduce
  <2> QED BY <1>3, <2>1, <2>2
<1> QED BY <1>4, <1>5

(* With one apply per user a step of any apply realizes PnL only by taking    *)
(* from a position, and leaves the average cost of what remains alone         *)
(* (position_math.py:62-69).                                                  *)
THEOREM OnlyReducingRealizes == OnePerUser => (Spec => PnLOnlyWhenReducing)
<1> SUFFICES ASSUME OnePerUser PROVE Spec => PnLOnlyWhenReducing
  OBVIOUS
<1> DEFINE Realizes(k) ==
             LET moved == positions'[k].size - positions[k].size
                 cut == positions[k].size * moved < 0
             IN  /\ (positions'[k].realized # positions[k].realized) => cut
                 /\ cut /\ positions[k].size * positions'[k].size > 0
                      => positions'[k].avg = positions[k].avg
<1>1. Init => IInv
  BY TypeInit, FreshInit DEF IInv
<1>2. IInv /\ [Next]_vars => IInv'
  BY TypeNext, FreshNext DEF IInv
<1>3. IInv /\ [Next]_vars => [\A k \in Keys : Realizes(k)]_vars
  <2> SUFFICES ASSUME IInv, Next, NEW k \in Keys PROVE Realizes(k)
    OBVIOUS
  <2>1. positions[k] \in PositionType
    BY DEF IInv, TypeOK
  <2>2. CASE positions'[k] = positions[k]
    BY <2>1, <2>2 DEF PositionType
  <2>3. CASE positions'[k] # positions[k]
    <3>1. PICK w \in Workers : WritePosition(w)
      BY <2>3 DEF Next, Step, Receive, StartApply, RejectFill, ReadBalance,
                  WriteBalance, Finish, AbortApply, stores
    <3> DEFINE f == fill[w]
               new == ApplyFillToPosition(prior[w], f)
    <3>2. /\ f \in FillType /\ FillIsValid(f) /\ prior[w] = positions[KeyOf(f)]
          /\ KeyOf(f) \in Keys
      BY <3>1, BusyFill DEF WritePosition, Busy, IInv, NoStaleRead
    <3>3. k = KeyOf(f)
      BY <2>3, <3>1 DEF WritePosition, IInv, TypeOK
    <3>4. positions'[k] = [size |-> new.size, avg |-> new.avg,
                           realized |-> positions[k].realized + new.pnl]
      BY <3>1, <3>2, <3>3 DEF WritePosition, IInv, TypeOK
    <3>5. new \in UpdateType
      BY <2>1, <3>2, <3>3, ApplyFillToPositionType
    <3>6. /\ new.pnl # 0 => positions[k].size * (new.size - positions[k].size) < 0
          /\ /\ positions[k].size * (new.size - positions[k].size) < 0
             /\ positions[k].size * new.size > 0
             => new.avg = positions[k].avg
      BY <2>1, <3>2, <3>3, UpdateRealizes
    <3> HIDE DEF new
    <3>7. positions'[k].realized # positions[k].realized => new.pnl # 0
      BY <2>1, <3>4, <3>5 DEF PositionType, UpdateType
    <3> QED BY <3>4, <3>6, <3>7
  <2> QED BY <2>2, <2>3
<1> QED BY <1>1, <1>2, <1>3, PTL DEF Spec, PnLOnlyWhenReducing

-----------------------------------------------------------------------------
(* A rounded quotient is at most half a unit off. *)
LEMMA RoundHalfEvenNear ==
  ASSUME NEW n \in Int, NEW d \in Nat \ {0}
  PROVE  2 * Magnitude(d * RoundHalfEven(n, d) - n) <= d
<1> DEFINE q == n \div d
           r == n % d
<1>1. q \in Int /\ r \in Nat /\ r < d /\ n = d * q + r
  BY SMT
<1>2. \/ RoundHalfEven(n, d) = q /\ 2 * r <= d
      \/ RoundHalfEven(n, d) = q + 1 /\ 2 * r >= d
  BY <1>1, SMT DEF RoundHalfEven
<1> HIDE DEF q, r
<1>3. d * (q + 1) = d * q + d /\ d * q \in Int
  BY <1>1, SMT
<1>4. CASE RoundHalfEven(n, d) = q /\ 2 * r <= d
  <2>1. d * RoundHalfEven(n, d) - n = -r
    BY <1>1, <1>3, <1>4
  <2> QED BY <1>1, <1>4, <2>1 DEF Magnitude
<1>5. CASE RoundHalfEven(n, d) = q + 1 /\ 2 * r >= d
  <2>1. d * RoundHalfEven(n, d) - n = d - r
    BY <1>1, <1>3, <1>5
  <2> QED BY <1>1, <1>5, <2>1 DEF Magnitude
<1> QED BY <1>2, <1>4, <1>5

(* What the value of a position at cost, less the PnL realized from it, moves *)
(* by when it takes a fill: the value of the fill, but for the rounding.      *)
Drift(pos, new, f) ==
  new.size * new.avg - pos.size * pos.avg - new.pnl - SignedFill(f) * Cost(f)

(* Growing a position loses only the rounding of its new average. *)
LEMMA CostAverageDrift ==
  ASSUME NEW pos \in PositionType, NEW f \in FillType, FillIsValid(f),
         Grows(pos.size, SignedFill(f))
  PROVE  2 * Magnitude(Drift(pos, CostAverage(pos, f), f))
           <= Magnitude(CostAverage(pos, f).size)
<1> DEFINE s == pos.size
           a == pos.avg
           q == f.size
           c == Cost(f)
           b == SignedFill(f)
           m == Magnitude(s)
           d == m + q
           n == m * a + q * c
           e == RoundHalfEven(n, d)
           new == CostAverage(pos, f)
<1>1. /\ s \in Int /\ a \in Int /\ q \in Nat \ {0} /\ f.price \in Int /\ AvgScale \in Int
      /\ m \in Nat /\ (s = 0 => m = 0)
  BY AvgScaleAssumption, SMT DEF PositionType, FillType, FillIsValid, Magnitude
<1>2. c \in Int /\ f.size * f.price * AvgScale = q * c
  BY <1>1, SMT DEF Cost
<1>3. b \in Int /\ s + b # 0 /\ Magnitude(s + b) = d /\ d \in Nat \ {0}
  BY <1>1, SMT DEF Grows, SignedFill, Magnitude
<1>4. new.size = s + b /\ new.avg = e /\ new.pnl = 0
  BY <1>2, <1>3 DEF CostAverage
<1>5. \/ s + b = d /\ s = m /\ b = q
      \/ s + b = -d /\ s = -m /\ b = -q
  BY <1>1, SMT DEF Grows, SignedFill, Magnitude
<1>6. m * a \in Int /\ q * c \in Int /\ n \in Int
  BY <1>1, <1>2, SMT
<1>7. e \in Int
  BY <1>3, <1>6, RoundHalfEvenInt
<1>8. 2 * Magnitude(d * e - n) <= d
  BY <1>3, <1>6, RoundHalfEvenNear
<1> HIDE DEF s, a, q, c, b, m, d, e
<1>9. Drift(pos, new, f) = (s + b) * e - s * a - 0 - b * c
  BY <1>4 DEF Drift, s, a, b, c
<1>10. d * e \in Int
  BY <1>3, <1>7, SMT
<1>11. CASE s + b = d /\ s = m /\ b = q
  <2>1. Drift(pos, new, f) = d * e - n
    BY <1>6, <1>9, <1>10, <1>11
  <2> QED BY <1>3, <1>4, <1>8, <2>1
<1>12. CASE s + b = -d /\ s = -m /\ b = -q
  <2>1. (-d) * e = -(d * e) /\ (-m) * a = -(m * a) /\ (-q) * c = -(q * c)
    BY <1>1, <1>2, <1>3, <1>7, SMT
  <2>2. Drift(pos, new, f) = -(d * e - n)
    BY <1>6, <1>9, <1>10, <1>12, <2>1
  <2>3. Magnitude(-(d * e - n)) = Magnitude(d * e - n)
    BY <1>6, <1>10 DEF Magnitude
  <2> QED BY <1>3, <1>4, <1>8, <2>2, <2>3
<1> QED BY <1>5, <1>11, <1>12

(* Cutting, closing and flipping one loses nothing. *)
LEMMA ReduceDrift ==
  ASSUME NEW pos \in PositionType, NEW f \in FillType, FillIsValid(f),
         ~Grows(pos.size, SignedFill(f))
  PROVE  Drift(pos, Reduce(pos, f), f) = 0
<1> DEFINE s == pos.size
           a == pos.avg
           q == f.size
           c == Cost(f)
           b == SignedFill(f)
           m == Magnitude(s)
           new == Reduce(pos, f)
           sign == IF s > 0 THEN 1 ELSE -1
<1>1. /\ s \in Int /\ a \in Int /\ q \in Nat \ {0} /\ f.price \in Int /\ AvgScale \in Int
      /\ s # 0
  BY AvgScaleAssumption, SMT DEF PositionType, FillType, FillIsValid, Grows
<1>2. c \in Int /\ c = f.price * AvgScale
  BY <1>1, SMT DEF Cost
<1>3. b \in Int /\ b = -sign * q /\ s = sign * m /\ m \in Nat \ {0} /\ sign \in {1, -1}
  BY <1>1, SMT DEF Grows, SignedFill, Magnitude
<1>4. new.size = s + b /\ new.pnl = (c - a) * sign * Lesser(q, m)
  BY <1>2 DEF Reduce, ClosingPnL
<1>5. /\ new.size = 0 => q = m /\ new.avg = 0
      /\ new.size # 0 /\ (s > 0) = (new.size > 0) => q < m /\ new.avg = a
      /\ new.size # 0 /\ (s > 0) # (new.size > 0) => m < q /\ new.avg = c
  <2>1. new.avg = IF s + b = 0 THEN 0 ELSE IF (s > 0) # (s + b > 0) THEN c ELSE a
    BY <1>2 DEF Reduce
  <2>2. /\ s + b = 0 => q = m
        /\ s + b # 0 /\ (s > 0) = (s + b > 0) => q < m
        /\ s + b # 0 /\ (s > 0) # (s + b > 0) => m < q
    BY <1>1, SMT DEF Grows, SignedFill, Magnitude
  <2> HIDE DEF s, b, m, q, a, c
  <2> QED BY <1>4, <2>1, <2>2
<1>6. Drift(pos, new, f) = (s + b) * new.avg - s * a - (c - a) * sign * Lesser(q, m) - b * c
  BY <1>4 DEF Drift
<1> HIDE DEF s, a, q, c, b, m, new, sign
<1>7. ASSUME new.size = 0 PROVE Drift(pos, new, f) = 0
  <2>1. q = m /\ new.avg = 0 /\ Lesser(q, m) = m
    BY <1>5, <1>7 DEF Lesser
  <2>2. Drift(pos, new, f) = (s + b) * 0 - (sign * m) * a - (c - a) * sign * m - (-sign * m) * c
    BY <1>3, <1>6, <2>1
  <2> QED BY <1>1, <1>2, <1>3, <2>2, SMT
<1>8. ASSUME new.size # 0, (s > 0) = (new.size > 0) PROVE Drift(pos, new, f) = 0
  <2>1. new.avg = a /\ Lesser(q, m) = q
    BY <1>1, <1>3, <1>5, <1>8 DEF Lesser
  <2>2. Drift(pos, new, f) = (s + (-sign * q)) * a - s * a - (c - a) * sign * q - (-sign * q) * c
    BY <1>3, <1>6, <2>1
  <2> QED BY <1>1, <1>2, <1>3, <2>2, SMT
<1>9. ASSUME new.size # 0, (s > 0) # (new.size > 0) PROVE Drift(pos, new, f) = 0
  <2>1. new.avg = c /\ Lesser(q, m) = m
    BY <1>1, <1>3, <1>5, <1>9 DEF Lesser
  <2>2. Drift(pos, new, f) = ((sign * m) + b) * c - (sign * m) * a - (c - a) * sign * m - b * c
    BY <1>3, <1>6, <2>1
  <2> QED BY <1>1, <1>2, <1>3, <2>2, SMT
<1> QED BY <1>7, <1>8, <1>9 DEF new

(* Whatever branch a fill takes: half a unit per share of what it leaves.     *)
LEMMA UpdateDrift ==
  ASSUME NEW pos \in PositionType, NEW f \in FillType, FillIsValid(f)
  PROVE  /\ Drift(pos, ApplyFillToPosition(pos, f), f) \in Int
         /\ 2 * Magnitude(Drift(pos, ApplyFillToPosition(pos, f), f))
              <= Magnitude(ApplyFillToPosition(pos, f).size)
         /\ Magnitude(ApplyFillToPosition(pos, f).size) <= Magnitude(pos.size) + f.size
<1> DEFINE new == ApplyFillToPosition(pos, f)
<1>1. new \in UpdateType
  BY ApplyFillToPositionType
<1>2. /\ pos.size \in Int /\ pos.avg \in Int /\ f.size \in Int /\ f.size > 0 /\ f.price \in Int
      /\ AvgScale \in Int /\ SignedFill(f) \in Int /\ Cost(f) \in Int
  BY AvgScaleAssumption, SMT DEF PositionType, FillType, FillIsValid, SignedFill, Cost
<1>3. new.size = pos.size + SignedFill(f)
  BY SizeAfter
<1>4. Magnitude(new.size) <= Magnitude(pos.size) + f.size
  BY <1>2, <1>3, SMT DEF Magnitude, SignedFill
<1>5. Drift(pos, new, f) \in Int
  <2> HIDE DEF new
  <2>1. new.size \in Int /\ new.avg \in Int /\ new.pnl \in Int
    BY <1>1 DEF UpdateType
  <2> QED BY <1>2, <2>1, SMT DEF Drift
<1>6. CASE Grows(pos.size, SignedFill(f))
  <2>1. new = CostAverage(pos, f)
    BY <1>6 DEF ApplyFillToPosition
  <2> QED BY <1>4, <1>5, <1>6, <2>1, CostAverageDrift
<1>7. CASE ~Grows(pos.size, SignedFill(f))
  <2>1. Drift(pos, new, f) = 0
    BY <1>7, ReduceDrift DEF ApplyFillToPosition
  <2>2. new.size \in Int
    BY <1>1 DEF UpdateType
  <2> HIDE DEF new
  <2>3. Magnitude(new.size) >= 0 /\ Magnitude(0) = 0
    BY <2>2 DEF Magnitude
  <2>4. 2 * Magnitude(Drift(pos, new, f)) <= Magnitude(new.size)
    BY <2>1, <2>2, <2>3 DEF Magnitude
  <2> QED BY <1>4, <1>5, <2>4 DEF new
<1> QED BY <1>6, <1>7

-----------------------------------------------------------------------------
(* A user's part of a finite set of fills is finite and has a whole sum.      *)
LEMMA FillsOfSum ==
  ASSUME NEW S, IsFiniteSet(S), S \subseteq Fills, NEW u,
         NEW g, \A x \in Fills : g[x] \in Int
  PROVE  /\ IsFiniteSet(FillsOf(S, u)) /\ Cardinality(FillsOf(S, u)) \in Nat
         /\ SumFunctionOnSet(g, FillsOf(S, u)) \in Int
<1>1. FillsOf(S, u) \in SUBSET S
  BY DEF FillsOf
<1>2. IsFiniteSet(FillsOf(S, u)) /\ Cardinality(FillsOf(S, u)) \in Nat
  BY <1>1, FS_Subset, FS_CardinalityType
<1>3. \A x \in FillsOf(S, u) : g[x] \in Int
  BY <1>1
<1> QED BY <1>2, <1>3, SumInt

(* What a user's fills add up to when one more of them is booked.             *)
LEMMA OneMoreFill ==
  ASSUME NEW S, IsFiniteSet(S), S \subseteq Fills, NEW f \in Fills, f \notin S,
         NEW g, \A x \in Fills : g[x] \in Int
  PROVE  /\ SumFunctionOnSet(g, FillsOf(S \cup {f}, f.user))
              = SumFunctionOnSet(g, FillsOf(S, f.user)) + g[f]
         /\ Cardinality(FillsOf(S \cup {f}, f.user)) = Cardinality(FillsOf(S, f.user)) + 1
<1> DEFINE mine == FillsOf(S, f.user)
<1>1. mine \subseteq Fills /\ f \notin mine
  BY DEF FillsOf
<1>2. IsFiniteSet(mine)
  BY FillsOfSum
<1>3. \A x \in mine \cup {f} : g[x] \in Int
  BY <1>1
<1>4. FillsOf(S \cup {f}, f.user) = mine \cup {f}
  BY DEF FillsOf
<1> HIDE DEF mine
<1>5. SumFunctionOnSet(g, mine \cup {f}) = SumFunctionOnSet(g, mine) + g[f]
  BY <1>1, <1>2, <1>3, SumAdd
<1>6. Cardinality(mine \cup {f}) = Cardinality(mine) + 1
  BY <1>1, <1>2, FS_AddElement
<1> QED BY <1>4, <1>5, <1>6 DEF mine

(* Another user's fill is none of them. *)
LEMMA FillOfAnother ==
  ASSUME NEW S, NEW f, NEW u, f.user # u
  PROVE  FillsOf(S \cup {f}, u) = FillsOf(S, u)
BY DEF FillsOf

(* A fill moves a balance by the same amount wherever it stands. *)
LEMMA BalanceGain ==
  ASSUME NEW b \in Int, NEW f \in FillType
  PROVE  /\ ApplyFillToBalance(0, f) \in Int
         /\ ApplyFillToBalance(b, f) = b + ApplyFillToBalance(0, f)
<1>1. f.size * f.price \in Int /\ f.fee \in Int
  BY DEF FillType
<1> QED BY <1>1 DEF ApplyFillToBalance

(* HoldsWhole with what must be held spelled out. *)
Whole(total, start, part, booked, must) ==
  \E kept \in SUBSET booked :
    must \subseteq kept /\ total = start + SumFunctionOnSet(part, kept)

(* What holds a set of deliveries holds it among more of them. *)
LEMMA WholeWeaker ==
  ASSUME NEW total, NEW start, NEW part, NEW booked, NEW must,
         Whole(total, start, part, booked, must),
         NEW more, NEW less, booked \subseteq more, less \subseteq must
  PROVE  Whole(total, start, part, more, less)
BY DEF Whole

(* One more delivery adds its part, and is held. *)
LEMMA WholeMore ==
  ASSUME NEW total, NEW start \in Int, NEW part, \A x \in Fills : part[x] \in Int,
         NEW booked \in SUBSET Fills, IsFiniteSet(booked), NEW must,
         Whole(total, start, part, booked, must), NEW f \in Fills, f \notin booked
  PROVE  Whole(total + part[f], start, part, booked \cup {f}, must \cup {f})
<1>1. PICK kept \in SUBSET booked :
        must \subseteq kept /\ total = start + SumFunctionOnSet(part, kept)
  BY DEF Whole
<1>2. IsFiniteSet(kept) /\ f \notin kept /\ \A x \in kept \cup {f} : part[x] \in Int
  BY FS_Subset
<1>3. SumFunctionOnSet(part, kept \cup {f}) = SumFunctionOnSet(part, kept) + part[f]
  BY <1>2, SumAdd
<1>4. SumFunctionOnSet(part, kept) \in Int /\ part[f] \in Int
  BY <1>2, SumInt
<1>5. total + part[f] = start + SumFunctionOnSet(part, kept \cup {f})
  BY <1>1, <1>3, <1>4
<1>6. kept \cup {f} \in SUBSET (booked \cup {f}) /\ must \cup {f} \subseteq kept \cup {f}
  BY <1>1
<1> QED BY <1>5, <1>6 DEF Whole

(* Nothing of nothing. *)
LEMMA WholeEmpty ==
  ASSUME NEW start \in Int, NEW part, NEW booked, booked = {}
  PROVE  Whole(start, start, part, booked, booked)
<1>1. start = start + SumFunctionOnSet(part, {})
  BY SumEmpty
<1> QED BY <1>1 DEF Whole

CashHolds(total, u) ==
  Whole(total, OpeningBalance, Gain, FillsOf(paid, u), FillsOf(paid, u) \ overlapped)
SharesHold(total, k) ==
  Whole(total, 0, Shares, FillsAt(posted, k), FillsAt(posted, k) \ overlapped)

(* Two applies of one user know of each other. *)
OverlapsAreSeen ==
  \A v, w \in Workers :
    v # w /\ Busy(v) /\ Busy(w) /\ fill[v].user = fill[w].user => fill[v] \in overlapped

(* What an apply has read holds the deliveries as the store does: every one   *)
(* booked since then overlaps that apply, so it may be missing.               *)
WholeInv ==
  /\ TypeOK /\ InOnePlace /\ OverlapsAreSeen
  /\ IsFiniteSet(paid) /\ IsFiniteSet(posted)
  /\ \A u \in Users : CashHolds(balances[u], u)
  /\ \A k \in Keys : SharesHold(positions[k].size, k)
  /\ \A w \in Workers :
       /\ pc[w] = "position_read" => SharesHold(prior[w].size, KeyOf(fill[w]))
       /\ pc[w] = "balance_read" => CashHolds(priorBalance[w], fill[w].user)

(* A delivery's parts are whole numbers. *)
LEMMA Parts ==
  /\ \A f \in Fills : Gain[f] = ApplyFillToBalance(0, f) /\ Gain[f] \in Int
  /\ \A f \in Fills : Shares[f] = SignedFill(f) /\ Shares[f] \in Int
<1>1. \A f \in Fills : f \in FillType
  BY FillsAssumption
<1>2. \A f \in Fills : Gain[f] = ApplyFillToBalance(0, f) /\ Gain[f] \in Int
  BY <1>1, BalanceGain DEF Gain
<1>3. \A f \in Fills : Shares[f] = SignedFill(f) /\ Shares[f] \in Int
  BY <1>1 DEF Shares, SignedFill, FillType
<1> QED BY <1>2, <1>3

(* Who is busy with what after a step of one worker. *)
LEMMA OverlapsNext == TypeOK /\ OverlapsAreSeen /\ [Next]_vars => OverlapsAreSeen'
<1> SUFFICES ASSUME TypeOK, OverlapsAreSeen, [Next]_vars PROVE OverlapsAreSeen'
  OBVIOUS
<1>1. ASSUME NEW w \in Workers, NEW f \in Fills, Receive(w, f) PROVE OverlapsAreSeen'
  <2>1. /\ pc'[w] = "position_read" /\ fill'[w] = f /\ ~Busy(w)
        /\ \A v \in Workers : v # w => pc'[v] = pc[v] /\ fill'[v] = fill[v]
        /\ overlapped' = overlapped \cup UNION {{f, fill[v]} : v \in Rivals(f)}
    BY <1>1 DEF Receive, StartApply, TypeOK, Busy
  <2>2. ASSUME NEW u \in Workers, NEW v \in Workers, u # v, Busy(u)', Busy(v)',
               fill'[u].user = fill'[v].user
        PROVE  fill'[u] \in overlapped'
    <3>1. CASE u # w /\ v # w
      BY <2>1, <2>2, <3>1 DEF OverlapsAreSeen, Busy
    <3>2. CASE u = w
      <4>1. v \in Rivals(f) /\ fill'[u] = f
        BY <2>1, <2>2, <3>2 DEF Rivals, Busy
      <4> QED BY <2>1, <4>1
    <3>3. CASE v = w
      <4>1. u \in Rivals(f) /\ fill'[u] = fill[u]
        BY <2>1, <2>2, <3>3 DEF Rivals, Busy
      <4> QED BY <2>1, <4>1
    <3> QED BY <3>1, <3>2, <3>3
  <2> QED BY <2>2 DEF OverlapsAreSeen
<1>2. ASSUME NEW w \in Workers, WritePosition(w) \/ ReadBalance(w) \/ WriteBalance(w)
      PROVE  OverlapsAreSeen'
  <2>1. UNCHANGED <<fill, overlapped>> /\ \A v \in Workers : Busy(v)' <=> Busy(v)
    BY <1>2 DEF WritePosition, ReadBalance, WriteBalance, queue, Busy, TypeOK
  <2> QED BY <2>1 DEF OverlapsAreSeen
<1>3. ASSUME NEW w \in Workers, Return(w), UNCHANGED overlapped
      PROVE  OverlapsAreSeen'
  <2>1. \A v \in Workers : Busy(v)' => Busy(v) /\ fill'[v] = fill[v]
    BY <1>3 DEF Return, Busy, TypeOK
  <2> QED BY <1>3, <2>1 DEF OverlapsAreSeen
<1>4. CASE UNCHANGED vars
  BY <1>4 DEF vars, locals, queue, OverlapsAreSeen, Busy
<1>5. ASSUME NEW w \in Workers, RejectFill(w) \/ Finish(w) \/ AbortApply(w)
      PROVE  OverlapsAreSeen'
  BY <1>3, <1>5 DEF RejectFill, Finish, AbortApply, queue
<1> QED BY <1>1, <1>2, <1>4, <1>5 DEF Next, Step

(* Where nothing is booked, what was held stays held; an apply that reads now *)
(* reads what the store holds.                                                *)
LEMMA NothingBooked ==
  ASSUME WholeInv, WholeInv => TypeOK' /\ InOnePlace' /\ OverlapsAreSeen',
         UNCHANGED <<stores, posted, paid>>, overlapped \subseteq overlapped',
         \A w \in Workers :
           /\ pc'[w] = "position_read" =>
                \/ pc[w] = "position_read" /\ fill'[w] = fill[w] /\ prior'[w] = prior[w]
                \/ prior'[w] = positions[KeyOf(fill'[w])] /\ KeyOf(fill'[w]) \in Keys
           /\ pc'[w] = "balance_read" =>
                \/ /\ pc[w] = "balance_read" /\ fill'[w] = fill[w]
                   /\ priorBalance'[w] = priorBalance[w]
                \/ priorBalance'[w] = balances[fill'[w].user] /\ fill'[w].user \in Users
  PROVE  WholeInv'
<1>1. ASSUME NEW total, NEW u, CashHolds(total, u) PROVE CashHolds(total, u)'
  <2>1. FillsOf(paid', u) = FillsOf(paid, u)
    OBVIOUS
  <2> QED BY <1>1, <2>1, WholeWeaker DEF CashHolds
<1>2. ASSUME NEW total, NEW k, SharesHold(total, k) PROVE SharesHold(total, k)'
  <2>1. FillsAt(posted', k) = FillsAt(posted, k)
    OBVIOUS
  <2> QED BY <1>2, <2>1, WholeWeaker DEF SharesHold
<1>3. \A u \in Users : CashHolds(balances[u], u)'
  BY <1>1 DEF WholeInv, stores, CashHolds
<1>4. \A k \in Keys : SharesHold(positions[k].size, k)'
  BY <1>2 DEF WholeInv, stores, SharesHold
<1>5. ASSUME NEW w \in Workers, pc'[w] = "position_read"
      PROVE  SharesHold(prior[w].size, KeyOf(fill[w]))'
  BY <1>2, <1>5 DEF WholeInv, SharesHold
<1>6. ASSUME NEW w \in Workers, pc'[w] = "balance_read"
      PROVE  CashHolds(priorBalance[w], fill[w].user)'
  BY <1>1, <1>6 DEF WholeInv, CashHolds
<1> QED BY <1>3, <1>4, <1>5, <1>6 DEF WholeInv

(* The balance write adds its delivery to what its apply had read.  Another   *)
(* apply of that user may hold an older balance: the delivery overlaps it.    *)
LEMMA CashBooked ==
  ASSUME WholeInv, NEW w \in Workers, WriteBalance(w)
  PROVE  /\ IsFiniteSet(paid)'
         /\ \A u \in Users : CashHolds(balances[u], u)'
         /\ \A v \in Workers : pc'[v] = "balance_read" => CashHolds(priorBalance[v], fill[v].user)'
<1> DEFINE f == fill[w]
<1> USE DEF WholeInv
<1>1. /\ pc[w] = "balance_read" /\ Busy(w) /\ f \in Fills /\ f \in FillType /\ f.user \in Users
      /\ pc' = [pc EXCEPT ![w] = "balance_written"]
      /\ balances' = [balances EXCEPT ![f.user] = ApplyFillToBalance(priorBalance[w], f)]
      /\ paid' = paid \cup {f} /\ UNCHANGED <<fill, priorBalance, overlapped>>
  BY BusyFill DEF WriteBalance, Busy, queue
<1>2. f \notin paid /\ IsFiniteSet(paid) /\ paid \in SUBSET Fills
  BY <1>1 DEF InOnePlace, TypeOK
<1>3. IsFiniteSet(paid')
  BY <1>1, <1>2, FS_AddElement
<1>4. ApplyFillToBalance(priorBalance[w], f) = priorBalance[w] + Gain[f]
  BY <1>1, Parts, BalanceGain DEF TypeOK
<1> HIDE DEF f
<1>5. ASSUME NEW u \in Users PROVE CashHolds(balances[u], u)'
  <2>1. CASE u # f.user
    <3>1. balances'[u] = balances[u] /\ FillsOf(paid', u) = FillsOf(paid, u)
      BY <1>1, <2>1, FillOfAnother DEF TypeOK
    <3> QED BY <1>1, <3>1 DEF CashHolds
  <2>2. CASE u = f.user
    <3>1. balances'[u] = priorBalance[w] + Gain[f]
      BY <1>1, <1>4, <2>2 DEF TypeOK
    <3>2. CashHolds(priorBalance[w], u)
      BY <1>1, <2>2 DEF f
    <3>3. FillsOf(paid, u) \in SUBSET Fills /\ IsFiniteSet(FillsOf(paid, u)) /\ f \notin FillsOf(paid, u)
      BY <1>2, FS_Subset DEF FillsOf
    <3>4. FillsOf(paid', u) = FillsOf(paid, u) \cup {f}
      BY <1>1, <2>2 DEF FillsOf
    <3>5. Whole(priorBalance[w] + Gain[f], OpeningBalance, Gain, FillsOf(paid, u) \cup {f},
                (FillsOf(paid, u) \ overlapped) \cup {f})
      BY <1>1, <3>2, <3>3, Parts, OpeningAssumption, WholeMore DEF CashHolds
    <3>6. Whole(balances'[u], OpeningBalance, Gain, FillsOf(paid', u), FillsOf(paid', u) \ overlapped')
      <4>1. FillsOf(paid', u) \ overlapped' \subseteq (FillsOf(paid, u) \ overlapped) \cup {f}
        BY <1>1, <3>4
      <4> QED BY <3>1, <3>4, <3>5, <4>1, WholeWeaker
    <3> QED BY <3>6 DEF CashHolds
  <2> QED BY <2>1, <2>2
<1>6. ASSUME NEW v \in Workers, pc'[v] = "balance_read"
      PROVE  CashHolds(priorBalance[v], fill[v].user)'
  <2>1. v # w /\ pc[v] = "balance_read" /\ Busy(v)
    BY <1>1, <1>6 DEF TypeOK, Busy
  <2> DEFINE u == fill[v].user
  <2>2. CashHolds(priorBalance[v], u)
    BY <2>1
  <2>3. FillsOf(paid, u) \subseteq FillsOf(paid', u)
    BY <1>1 DEF FillsOf
  <2>4. FillsOf(paid', u) \ overlapped' \subseteq FillsOf(paid, u) \ overlapped
    <3>1. f.user = u => f \in overlapped
      BY <1>1, <2>1 DEF OverlapsAreSeen, f
    <3> QED BY <1>1, <3>1 DEF FillsOf
  <2> HIDE DEF u
  <2>5. Whole(priorBalance[v], OpeningBalance, Gain, FillsOf(paid', u), FillsOf(paid', u) \ overlapped')
    BY <2>2, <2>3, <2>4, WholeWeaker DEF CashHolds
  <2> QED BY <1>1, <2>5 DEF CashHolds, u
<1> QED BY <1>3, <1>5, <1>6

(* The same of the position write. *)
LEMMA SharesBooked ==
  ASSUME WholeInv, NEW w \in Workers, WritePosition(w)
  PROVE  /\ IsFiniteSet(posted)'
         /\ \A k \in Keys : SharesHold(positions[k].size, k)'
         /\ \A v \in Workers : pc'[v] = "position_read" => SharesHold(prior[v].size, KeyOf(fill[v]))'
<1> DEFINE f == fill[w]
           at == KeyOf(f)
<1> USE DEF WholeInv
<1>1. /\ pc[w] = "position_read" /\ Busy(w) /\ f \in Fills /\ f \in FillType /\ at \in Keys
      /\ pc' = [pc EXCEPT ![w] = "position_written"]
      /\ posted' = posted \cup {f} /\ UNCHANGED <<fill, prior, overlapped>>
  BY BusyFill DEF WritePosition, Busy, queue
<1>2. /\ positions'[at].size = prior[w].size + Shares[f]
      /\ \A k \in Keys : k # at => positions'[k] = positions[k]
  <2>1. positions'[at].size = ApplyFillToPosition(prior[w], f).size
    BY <1>1 DEF WritePosition, TypeOK
  <2>2. \A k \in Keys : k # at => positions'[k] = positions[k]
    BY <1>1 DEF WritePosition, TypeOK
  <2> QED BY <1>1, <2>1, <2>2, SizeAfter, Parts
<1>3. f \notin posted /\ IsFiniteSet(posted) /\ posted \in SUBSET Fills
  BY <1>1 DEF InOnePlace, TypeOK
<1>4. IsFiniteSet(posted')
  BY <1>1, <1>3, FS_AddElement
<1> HIDE DEF f
<1>5. ASSUME NEW k \in Keys PROVE SharesHold(positions[k].size, k)'
  <2>1. CASE k # at
    <3>1. positions'[k] = positions[k] /\ FillsAt(posted', k) = FillsAt(posted, k)
      BY <1>1, <1>2, <2>1 DEF FillsAt
    <3> QED BY <1>1, <3>1 DEF SharesHold
  <2>2. CASE k = at
    <3>1. positions'[k].size = prior[w].size + Shares[f]
      BY <1>2, <2>2
    <3>2. SharesHold(prior[w].size, k)
      BY <1>1, <2>2 DEF f
    <3>3. FillsAt(posted, k) \in SUBSET Fills /\ IsFiniteSet(FillsAt(posted, k)) /\ f \notin FillsAt(posted, k)
      BY <1>3, FS_Subset DEF FillsAt
    <3>4. FillsAt(posted', k) = FillsAt(posted, k) \cup {f}
      BY <1>1, <2>2 DEF FillsAt
    <3>5. Whole(prior[w].size + Shares[f], 0, Shares, FillsAt(posted, k) \cup {f},
                (FillsAt(posted, k) \ overlapped) \cup {f})
      <4>1. 0 \in Int /\ \A x \in Fills : Shares[x] \in Int
        BY Parts
      <4>2. Whole(prior[w].size, 0, Shares, FillsAt(posted, k), FillsAt(posted, k) \ overlapped)
        BY <3>2 DEF SharesHold
      <4> QED BY <1>1, <3>3, <4>1, <4>2, WholeMore
    <3>6. Whole(positions'[k].size, 0, Shares, FillsAt(posted', k), FillsAt(posted', k) \ overlapped')
      <4>1. FillsAt(posted', k) \ overlapped' \subseteq (FillsAt(posted, k) \ overlapped) \cup {f}
        BY <1>1, <3>4
      <4> QED BY <3>1, <3>4, <3>5, <4>1, WholeWeaker
    <3> QED BY <3>6 DEF SharesHold
  <2> QED BY <2>1, <2>2
<1>6. ASSUME NEW v \in Workers, pc'[v] = "position_read"
      PROVE  SharesHold(prior[v].size, KeyOf(fill[v]))'
  <2>1. v # w /\ pc[v] = "position_read" /\ Busy(v)
    BY <1>1, <1>6 DEF TypeOK, Busy
  <2> DEFINE k == KeyOf(fill[v])
  <2>2. SharesHold(prior[v].size, k)
    BY <2>1
  <2>3. FillsAt(posted, k) \subseteq FillsAt(posted', k)
    BY <1>1 DEF FillsAt
  <2>4. FillsAt(posted', k) \ overlapped' \subseteq FillsAt(posted, k) \ overlapped
    <3>1. KeyOf(f) = k => f.user = fill[v].user
      BY DEF KeyOf
    <3>2. KeyOf(f) = k => f \in overlapped
      BY <1>1, <2>1, <3>1 DEF OverlapsAreSeen, f
    <3> QED BY <1>1, <3>2 DEF FillsAt
  <2> HIDE DEF k
  <2>5. Whole(prior[v].size, 0, Shares, FillsAt(posted', k), FillsAt(posted', k) \ overlapped')
    BY <2>2, <2>3, <2>4, WholeWeaker DEF SharesHold
  <2> QED BY <1>1, <2>5 DEF SharesHold, k
<1> QED BY <1>4, <1>5, <1>6

LEMMA WholeNext == WholeInv /\ [Next]_vars => WholeInv'
<1> SUFFICES ASSUME WholeInv, [Next]_vars PROVE WholeInv'
  OBVIOUS
<1>0. TypeOK /\ TypeOK' /\ InOnePlace' /\ OverlapsAreSeen'
  BY TypeNext, PlaceNext, OverlapsNext DEF WholeInv
<1>1. ASSUME NEW w \in Workers, NEW f \in Fills, Receive(w, f) PROVE WholeInv'
  <2>1. /\ UNCHANGED <<stores, posted, paid, priorBalance>> /\ overlapped \subseteq overlapped'
        /\ pc' = [pc EXCEPT ![w] = "position_read"] /\ fill' = [fill EXCEPT ![w] = f]
        /\ prior' = [prior EXCEPT ![w] = positions[KeyOf(f)]]
    BY <1>1 DEF Receive, StartApply, history
  <2>2. KeyOf(f) \in Keys
    BY FillsAssumption DEF FillType, KeyOf, Keys
  <2>3. ASSUME NEW v \in Workers
        PROVE  /\ v = w => /\ pc'[v] = "position_read" /\ fill'[v] = f
                           /\ prior'[v] = positions[KeyOf(f)]
               /\ v # w => pc'[v] = pc[v] /\ fill'[v] = fill[v] /\ prior'[v] = prior[v]
               /\ priorBalance'[v] = priorBalance[v]
    BY <1>0, <2>1 DEF TypeOK
  <2> QED BY <1>0, <2>1, <2>2, <2>3, NothingBooked
<1>2. ASSUME NEW w \in Workers, ReadBalance(w) PROVE WholeInv'
  <2>1. /\ UNCHANGED <<stores, posted, paid, overlapped, fill, prior>>
        /\ pc[w] = "position_written" /\ pc' = [pc EXCEPT ![w] = "balance_read"]
        /\ priorBalance' = [priorBalance EXCEPT ![w] = balances[fill[w].user]]
    BY <1>2 DEF ReadBalance, queue, history
  <2>2. fill[w].user \in Users
    BY <1>0, <2>1, BusyFill DEF Busy
  <2>3. ASSUME NEW v \in Workers
        PROVE  /\ v = w => /\ pc'[v] = "balance_read"
                           /\ priorBalance'[v] = balances[fill[v].user]
               /\ v # w => pc'[v] = pc[v] /\ priorBalance'[v] = priorBalance[v]
               /\ fill'[v] = fill[v] /\ prior'[v] = prior[v]
    BY <1>0, <2>1 DEF TypeOK
  <2> QED BY <1>0, <2>1, <2>2, <2>3, NothingBooked
<1>3. ASSUME NEW w \in Workers, Return(w), UNCHANGED <<stores, posted, paid, overlapped>>
      PROVE  WholeInv'
  <2>1. ASSUME NEW v \in Workers, pc'[v] # "idle"
        PROVE  /\ pc'[v] = pc[v] /\ fill'[v] = fill[v] /\ prior'[v] = prior[v]
               /\ priorBalance'[v] = priorBalance[v]
    BY <1>0, <1>3, <2>1 DEF Return, TypeOK
  <2> QED BY <1>0, <1>3, <2>1, NothingBooked
<1>4. ASSUME NEW w \in Workers, WritePosition(w) PROVE WholeInv'
  <2>1. /\ UNCHANGED <<balances, paid, overlapped, fill, priorBalance>>
        /\ pc' = [pc EXCEPT ![w] = "position_written"]
    BY <1>4 DEF WritePosition, queue
  <2>2. \A u \in Users : CashHolds(balances[u], u)'
    BY <2>1 DEF WholeInv, CashHolds
  <2>3. \A v \in Workers : pc'[v] = "balance_read" => CashHolds(priorBalance[v], fill[v].user)'
    BY <1>0, <2>1 DEF WholeInv, CashHolds, TypeOK
  <2>4. IsFiniteSet(paid)'
    BY <2>1 DEF WholeInv
  <2> QED BY <1>0, <1>4, <2>2, <2>3, <2>4, SharesBooked DEF WholeInv
<1>5. ASSUME NEW w \in Workers, WriteBalance(w) PROVE WholeInv'
  <2>1. /\ UNCHANGED <<positions, posted, overlapped, fill, prior>>
        /\ pc' = [pc EXCEPT ![w] = "balance_written"]
    BY <1>5 DEF WriteBalance, queue
  <2>2. \A k \in Keys : SharesHold(positions[k].size, k)'
    BY <2>1 DEF WholeInv, SharesHold
  <2>3. \A v \in Workers : pc'[v] = "position_read" => SharesHold(prior[v].size, KeyOf(fill[v]))'
    BY <1>0, <2>1 DEF WholeInv, SharesHold, TypeOK
  <2>4. IsFiniteSet(posted)'
    BY <2>1 DEF WholeInv
  <2> QED BY <1>0, <1>5, <2>2, <2>3, <2>4, CashBooked DEF WholeInv
<1>6. CASE UNCHANGED vars
  <2>1. UNCHANGED <<stores, posted, paid, overlapped, pc, fill, prior, priorBalance>>
    BY <1>6 DEF vars, locals, queue, history
  <2> QED BY <1>0, <2>1, NothingBooked
<1>7. ASSUME NEW w \in Workers, RejectFill(w) \/ Finish(w) \/ AbortApply(w)
      PROVE  WholeInv'
  BY <1>3, <1>7 DEF RejectFill, Finish, AbortApply, queue, history
<1> QED BY <1>1, <1>2, <1>4, <1>5, <1>6, <1>7 DEF Next, Step

(* Nothing is booked at first. *)
LEMMA WholeInit == Init => WholeInv
<1> SUFFICES ASSUME Init PROVE WholeInv
  OBVIOUS
<1>1. \A w \in Workers : pc[w] = "idle" /\ ~Busy(w)
  BY DEF Init, Busy
<1>2. paid = {} /\ posted = {} /\ IsFiniteSet(paid) /\ IsFiniteSet(posted)
  BY FS_EmptySet DEF Init
<1>3. ASSUME NEW u \in Users PROVE CashHolds(balances[u], u)
  <2>1. balances[u] = OpeningBalance /\ FillsOf(paid, u) = {} /\ FillsOf(paid, u) \ overlapped = {}
    BY <1>2 DEF Init, FillsOf
  <2> QED BY <2>1, OpeningAssumption, WholeEmpty DEF CashHolds
<1>4. ASSUME NEW k \in Keys PROVE SharesHold(positions[k].size, k)
  <2>1. positions[k].size = 0 /\ FillsAt(posted, k) = {} /\ FillsAt(posted, k) \ overlapped = {}
    BY <1>2 DEF Init, FillsAt, NoPosition
  <2> QED BY <2>1, WholeEmpty DEF SharesHold
<1> QED BY <1>1, <1>2, <1>3, <1>4, TypeInit, PlaceInit DEF WholeInv, OverlapsAreSeen

(* However many applies overlap, break off at any await, the last one         *)
(* included, and are repeated: a balance is the opening cash and whole        *)
(* deliveries out of those paid, each once, and only a delivery whose apply   *)
(* overlapped another of its user can be missing (engine.py:77-85).           *)
THEOREM CashIsWhole == Spec => []CashHoldsWholeFills
<1>1. WholeInv => CashHoldsWholeFills
  BY DEF WholeInv, CashHolds, Whole, CashHoldsWholeFills, HoldsWhole
<1> QED BY <1>1, WholeInit, WholeNext, PTL DEF Spec

(* And the shares of a position are whole deliveries out of those posted to   *)
(* it (engine.py:59-75).                                                      *)
THEOREM SharesAreWhole == Spec => []SharesHoldWholeFills
<1>1. WholeInv => SharesHoldWholeFills
  BY DEF WholeInv, SharesHold, Whole, SharesHoldWholeFills, HoldsWhole
<1> QED BY <1>1, WholeInit, WholeNext, PTL DEF Spec

(* So where the deployment applies the fills of a user one at a time, every   *)
(* balance is exactly the opening cash and the deliveries paid so far,        *)
(* whatever breaks off, before or after the balance is written                *)
(* (engine.py:77-85).                                                         *)
CashIsExact ==
  \A u \in Users : balances[u] = OpeningBalance + SumFunctionOnSet(Gain, FillsOf(paid, u))

THEOREM CashIsAccountedFor == OnePerUser => (Spec => []CashIsExact)
<1> SUFFICES ASSUME OnePerUser PROVE Spec => []CashIsExact
  OBVIOUS
<1>1. Init => overlapped = {}
  BY DEF Init
<1>2. overlapped = {} /\ [Next]_vars => (overlapped = {})'
  BY DEF Next, Step, Receive, RejectFill, WritePosition, ReadBalance, WriteBalance,
         Finish, AbortApply, vars, queue
<1>3. WholeInv /\ overlapped = {} => CashIsExact
  <2> SUFFICES ASSUME WholeInv, overlapped = {}, NEW u \in Users
               PROVE  balances[u] = OpeningBalance + SumFunctionOnSet(Gain, FillsOf(paid, u))
    BY DEF CashIsExact
  <2>1. CashHolds(balances[u], u)
    BY DEF WholeInv
  <2>2. PICK kept \in SUBSET FillsOf(paid, u) :
          /\ FillsOf(paid, u) \ {} \subseteq kept
          /\ balances[u] = OpeningBalance + SumFunctionOnSet(Gain, kept)
    BY <2>1 DEF CashHolds, Whole
  <2>3. kept = FillsOf(paid, u)
    BY <2>2
  <2> QED BY <2>2, <2>3
<1>4. Init => WholeInv
  BY WholeInit
<1>5. WholeInv /\ [Next]_vars => WholeInv'
  BY WholeNext
<1> QED BY <1>1, <1>2, <1>3, <1>4, <1>5, PTL DEF Spec
-----------------------------------------------------------------------------
(* The accounts of a user at every step, with the cash the ledger sees, which *)
(* is ahead of the stored balance between the two writes of an apply.  The    *)
(* shares held are bounded too: that is what bounds the next rounding.        *)
Mine(u) == FillsOf(posted, u)
Gap(u) == (AvgScale * LedgerCash[u] + CostLessPnL(u))
            - AvgScale * (OpeningBalance - Fees(Mine(u)))
Balanced(u) ==
  /\ 2 * Magnitude(Gap(u)) <= Cardinality(Mine(u)) * Volume(Mine(u))
  /\ \A t \in Tokens : Magnitude(positions[<<u, t>>].size) <= Volume(Mine(u))

PostedAreValid == IsFiniteSet(posted) /\ \A f \in posted : FillIsValid(f)

MoneyInv == JInv /\ PostedAreValid /\ \A u \in Users : Balanced(u)

(* What the accounts are made of are whole numbers, volumes not negative. *)
LEMMA AccountTypes ==
  ASSUME IsFiniteSet(Tokens), JInv, PostedAreValid, NEW u \in Users
  PROVE  /\ AvgScale \in Int /\ OpeningBalance \in Int
         /\ IsFiniteSet(Mine(u)) /\ Cardinality(Mine(u)) \in Nat
         /\ Volume(Mine(u)) \in Nat /\ Fees(Mine(u)) \in Int
         /\ LedgerCash[u] \in Int
         /\ CostLessPnL(u) \in Int
         /\ Gap(u) \in Int
<1> USE DEF JInv, IInv
<1>1. AvgScale \in Int /\ OpeningBalance \in Int
  BY AvgScaleAssumption, OpeningAssumption
<1>2. posted \subseteq Fills /\ IsFiniteSet(posted)
  BY DEF PostedAreValid, TypeOK
<1>3. \A x \in Fills : [f \in Fills |-> f.fee][x] \in Int
  BY FillsAssumption DEF FillType
<1>4. IsFiniteSet(Mine(u)) /\ Cardinality(Mine(u)) \in Nat /\ Fees(Mine(u)) \in Int
  BY <1>2, <1>3, FillsOfSum DEF Mine, Fees
<1>5. \A x \in Mine(u) : [f \in Fills |-> f.size][x] \in Nat
  BY <1>2, FillsAssumption DEF FillType, PostedAreValid, FillIsValid, Mine, FillsOf
<1>6. Volume(Mine(u)) \in Nat
  BY <1>4, <1>5, SumNat DEF Volume
<1>7. LedgerCash[u] \in Int
  <2>1. CASE \A v \in Workers : v \notin Unpaid(u)
    BY <2>1, CashAtRest DEF TypeOK
  <2>2. CASE \E v \in Workers : v \in Unpaid(u)
    <3>1. PICK v \in Workers : v \in Unpaid(u)
      BY <2>2
    <3>2. LedgerCash[u] = ApplyFillToBalance(balances[u], fill[v])
      BY <3>1, CashInBetween
    <3>3. fill[v] \in FillType
      BY <3>1, BusyFill DEF Unpaid, Busy
    <3> QED BY <3>2, <3>3, ApplyFillToBalanceType DEF TypeOK
  <2> QED BY <2>1, <2>2
<1>8. CostLessPnL(u) \in Int
  <2> DEFINE worth == [t \in Tokens |-> positions[<<u, t>>].size * positions[<<u, t>>].avg
                                           - positions[<<u, t>>].realized]
  <2>1. ASSUME NEW t \in Tokens PROVE worth[t] \in Int
    <3>1. positions[<<u, t>>] \in PositionType
      BY DEF TypeOK, Keys
    <3>2. /\ positions[<<u, t>>].size \in Int /\ positions[<<u, t>>].avg \in Int
          /\ positions[<<u, t>>].realized \in Int
      BY <3>1 DEF PositionType
    <3> QED BY <3>2
  <2> HIDE DEF worth
  <2>2. SumFunctionOnSet(worth, Tokens) \in Int
    BY <2>1, SumInt
  <2> QED BY <2>2 DEF CostLessPnL, worth
<1>9. AvgScale * LedgerCash[u] \in Int /\ AvgScale * (OpeningBalance - Fees(Mine(u))) \in Int
  BY <1>1, <1>4, <1>7
<1>10. Gap(u) \in Int
  BY <1>8, <1>9 DEF Gap
<1> QED BY <1>1, <1>4, <1>6, <1>7, <1>8, <1>10

(* One more rounding fits one more fill of a larger volume. *)
LEMMA SlackGrows ==
  ASSUME NEW gap \in Int, NEW drift \in Int, NEW n \in Nat, NEW v \in Nat, NEW q \in Nat,
         2 * Magnitude(gap) <= n * v, 2 * Magnitude(drift) <= v + q
  PROVE  2 * Magnitude(gap + drift) <= (n + 1) * (v + q)
<1>1. Magnitude(gap + drift) <= Magnitude(gap) + Magnitude(drift)
      /\ Magnitude(gap) \in Int /\ Magnitude(drift) \in Int /\ Magnitude(gap + drift) \in Int
  BY DEF Magnitude
<1>2. (n + 1) * (v + q) = n * v + n * q + (v + q) /\ n * q \in Nat /\ n * v \in Nat
  BY SMT
<1> QED BY <1>1, <1>2
(* What the position write does to the books of the fill's owner. *)
LEMMA WriteBooks ==
  ASSUME IsFiniteSet(Tokens), MoneyInv, NEW w \in Workers, WritePosition(w),
         NEW f \in Fills, f = fill[w], NEW u \in Users, u = f.user, NEW pos, NEW new,
         pos = positions[<<u, f.token>>], new = ApplyFillToPosition(pos, f)
  PROVE  /\ f \in FillType /\ FillIsValid(f) /\ f.token \in Tokens
         /\ pos \in PositionType /\ new \in UpdateType
         /\ PostedAreValid'
         /\ LedgerCash'[u] = LedgerCash[u] - SignedFill(f) * f.price - f.fee
         /\ Volume(Mine(u))' = Volume(Mine(u)) + f.size
         /\ Fees(Mine(u))' = Fees(Mine(u)) + f.fee
         /\ Cardinality(Mine(u))' = Cardinality(Mine(u)) + 1
         /\ CostLessPnL(u)' = CostLessPnL(u) + (new.size * new.avg - pos.size * pos.avg - new.pnl)
         /\ positions'[<<u, f.token>>].size = new.size
         /\ \A t \in Tokens : t # f.token => positions'[<<u, t>>] = positions[<<u, t>>]
<1> USE DEF MoneyInv, JInv, IInv
<1>1. /\ pc[w] = "position_read" /\ Busy(w) /\ FillIsValid(f)
      /\ posted' = posted \cup {f}
  BY DEF WritePosition, Busy
<1>2. f \in FillType /\ KeyOf(f) \in Keys /\ f.token \in Tokens /\ f.user \in Users
  BY FillsAssumption DEF FillType, KeyOf, Keys
<1> DEFINE k == <<u, f.token>>
<1>3. k = KeyOf(f) /\ k \in Keys
  BY <1>2 DEF KeyOf
<1>4. pos \in PositionType /\ prior[w] = pos
  BY <1>1, <1>3 DEF TypeOK, NoStaleRead
<1>5. new \in UpdateType
  BY <1>2, <1>4, ApplyFillToPositionType
<1> DEFINE row == [size |-> new.size, avg |-> new.avg, realized |-> pos.realized + new.pnl]
<1>6. positions' = [positions EXCEPT ![k] = row]
  BY <1>3, <1>4 DEF WritePosition
<1>7. f \notin posted /\ IsFiniteSet(posted) /\ posted \subseteq Fills
  BY <1>1 DEF InOnePlace, PostedAreValid, TypeOK
<1>8. PostedAreValid'
  BY <1>1, <1>7, FS_AddElement DEF PostedAreValid
<1>9. LedgerCash'[u] = LedgerCash[u] - SignedFill(f) * f.price - f.fee
  <2>1. LedgerCash' = [LedgerCash EXCEPT ![f.user] = @ - Books!Shares(f) * f.price - f.fee]
    BY WritePositionSettles DEF Books!Settle
  <2>2. LedgerCash = [v \in Users |-> LedgerCash[v]]
    BY DEF LedgerCash
  <2> QED BY <1>2, <2>1, <2>2 DEF Books!Shares, SignedFill
<1>10. \A x \in Fills : x.size \in Int /\ x.fee \in Int
  BY FillsAssumption DEF FillType
<1>11. Volume(Mine(u))' = Volume(Mine(u)) + f.size
       /\ Cardinality(Mine(u))' = Cardinality(Mine(u)) + 1
  <2> DEFINE g == [x \in Fills |-> x.size]
  <2>1. (\A x \in Fills : g[x] \in Int) /\ g[f] = f.size
    BY <1>10
  <2> HIDE DEF g
  <2>2. /\ SumFunctionOnSet(g, FillsOf(posted \cup {f}, f.user))
             = SumFunctionOnSet(g, FillsOf(posted, f.user)) + g[f]
        /\ Cardinality(FillsOf(posted \cup {f}, f.user))
             = Cardinality(FillsOf(posted, f.user)) + 1
    BY <1>7, <2>1, OneMoreFill
  <2> QED BY <1>1, <2>1, <2>2 DEF Volume, Mine, g
<1>12. Fees(Mine(u))' = Fees(Mine(u)) + f.fee
  <2> DEFINE g == [x \in Fills |-> x.fee]
  <2>1. (\A x \in Fills : g[x] \in Int) /\ g[f] = f.fee
    BY <1>10
  <2> HIDE DEF g
  <2>2. SumFunctionOnSet(g, FillsOf(posted \cup {f}, f.user))
          = SumFunctionOnSet(g, FillsOf(posted, f.user)) + g[f]
    BY <1>7, <2>1, OneMoreFill
  <2> QED BY <1>1, <2>1, <2>2 DEF Fees, Mine, g
<1> HIDE DEF row
<1>13. positions'[k] = row /\ \A t \in Tokens : t # f.token => positions'[<<u, t>>] = positions[<<u, t>>]
  <2>1. \A t \in Tokens : <<u, t>> \in Keys
    BY DEF Keys
  <2> QED BY <1>3, <1>6, <2>1 DEF TypeOK
<1>14. CostLessPnL(u)' = CostLessPnL(u) + (new.size * new.avg - pos.size * pos.avg - new.pnl)
  <2> DEFINE Worth(p) == p.size * p.avg - p.realized
             before == [t \in Tokens |-> Worth(positions[<<u, t>>])]
             after == [t \in Tokens |-> Worth(positions'[<<u, t>>])]
  <2>1. \A p \in PositionType : Worth(p) \in Int
    BY DEF PositionType
  <2>2. row \in PositionType
    BY <1>4, <1>5 DEF row, PositionType, UpdateType
  <2>3. \A t \in Tokens : positions[<<u, t>>] \in PositionType
    BY DEF TypeOK, Keys
  <2>4. \A t \in Tokens : positions'[<<u, t>>] \in PositionType
    BY <1>13, <2>2, <2>3
  <2>5. Worth(row) - Worth(pos) = new.size * new.avg - pos.size * pos.avg - new.pnl
    <3>1. /\ pos.size * pos.avg \in Int /\ new.size * new.avg \in Int
          /\ new.pnl \in Int /\ pos.realized \in Int
      BY <1>4, <1>5 DEF PositionType, UpdateType
    <3>2. Worth(row) = new.size * new.avg - (pos.realized + new.pnl)
      BY DEF row
    <3> QED BY <3>1, <3>2
  <2>6. CostLessPnL(u) = SumFunctionOnSet(before, Tokens)
        /\ CostLessPnL(u)' = SumFunctionOnSet(after, Tokens)
    BY DEF CostLessPnL
  <2>7. /\ \A t \in Tokens : before[t] \in Int /\ after[t] \in Int
        /\ \A t \in Tokens : t # f.token => before[t] = after[t]
        /\ before[f.token] = Worth(pos) /\ after[f.token] = Worth(row)
    <3> HIDE DEF Worth
    <3> QED BY <1>2, <1>13, <2>1, <2>3, <2>4
  <2> HIDE DEF before, after, Worth
  <2>8. SumFunctionOnSet(after, Tokens)
          = SumFunctionOnSet(before, Tokens) + (after[f.token] - before[f.token])
    BY <1>2, <2>7, SumChange
  <2> QED BY <2>5, <2>6, <2>7, <2>8
<1> QED BY <1>1, <1>2, <1>4, <1>5, <1>8, <1>9, <1>11, <1>12, <1>13, <1>14 DEF row

(* The gap moves by the rounding of one average, which the added volume       *)
(* covers.                                                                    *)
LEMMA WriteKeepsBalance ==
  ASSUME IsFiniteSet(Tokens), MoneyInv, NEW w \in Workers, WritePosition(w),
         NEW f \in Fills, f = fill[w], NEW u \in Users, u = f.user
  PROVE  Balanced(u)'
<1>1. PICK pos : pos = positions[<<u, f.token>>]
  OBVIOUS
<1>2. PICK new : new = ApplyFillToPosition(pos, f)
  OBVIOUS
<1>3. /\ f \in FillType /\ FillIsValid(f) /\ f.token \in Tokens
      /\ pos \in PositionType /\ new \in UpdateType
      /\ LedgerCash'[u] = LedgerCash[u] - SignedFill(f) * f.price - f.fee
      /\ Volume(Mine(u))' = Volume(Mine(u)) + f.size
      /\ Fees(Mine(u))' = Fees(Mine(u)) + f.fee
      /\ Cardinality(Mine(u))' = Cardinality(Mine(u)) + 1
      /\ CostLessPnL(u)' = CostLessPnL(u) + (new.size * new.avg - pos.size * pos.avg - new.pnl)
      /\ positions'[<<u, f.token>>].size = new.size
      /\ \A t \in Tokens : t # f.token => positions'[<<u, t>>] = positions[<<u, t>>]
  BY <1>1, <1>2, WriteBooks
<1>4. /\ AvgScale \in Int /\ OpeningBalance \in Int /\ Cardinality(Mine(u)) \in Nat
      /\ Volume(Mine(u)) \in Nat /\ Fees(Mine(u)) \in Int /\ LedgerCash[u] \in Int
      /\ CostLessPnL(u) \in Int /\ Gap(u) \in Int
  BY AccountTypes DEF MoneyInv
<1>5. /\ Drift(pos, new, f) \in Int
      /\ 2 * Magnitude(Drift(pos, new, f)) <= Magnitude(new.size)
      /\ Magnitude(new.size) <= Magnitude(pos.size) + f.size
  BY <1>2, <1>3, UpdateDrift
<1>6. /\ f.size \in Nat /\ f.price \in Int /\ f.fee \in Int /\ SignedFill(f) \in Int
      /\ Cost(f) = f.price * AvgScale
      /\ new.size \in Int /\ new.avg \in Int /\ new.pnl \in Int
      /\ pos.size \in Int /\ pos.avg \in Int
  BY <1>3 DEF FillType, FillIsValid, SignedFill, Cost, PositionType, UpdateType
<1>7. Gap(u)' = Gap(u) + Drift(pos, new, f)
  <2> DEFINE L == LedgerCash[u]
             b == SignedFill(f)
             F == Fees(Mine(u))
             moved == new.size * new.avg - pos.size * pos.avg - new.pnl
             cash == (b * f.price) * AvgScale
  <2>1. Gap(u) = (AvgScale * L + CostLessPnL(u)) - AvgScale * (OpeningBalance - F)
    BY DEF Gap
  <2>2. Gap(u)' = (AvgScale * (L - b * f.price - f.fee) + (CostLessPnL(u) + moved))
                    - AvgScale * (OpeningBalance - (F + f.fee))
    BY <1>3 DEF Gap
  <2>3. moved \in Int /\ b * f.price \in Int /\ b * Cost(f) \in Int /\ cash \in Int
    BY <1>4, <1>6
  <2>4. b * Cost(f) = cash
    BY <1>4, <1>6, SMT
  <2>5. Drift(pos, new, f) = moved - cash
    BY <2>4 DEF Drift
  <2>6. L \in Int /\ F \in Int /\ b \in Int
    BY <1>4, <1>6
  <2>7. ASSUME NEW x \in Int, NEW y \in Int, NEW z \in Int
        PROVE  /\ AvgScale * (x - y - z) = AvgScale * x - y * AvgScale - AvgScale * z
               /\ AvgScale * (x - (y + z)) = AvgScale * (x - y) - AvgScale * z
               /\ AvgScale * x \in Int /\ AvgScale * z \in Int /\ AvgScale * (x - y) \in Int
    BY <1>4, SMT
  <2> HIDE DEF L, b, F, moved
  <2>8. /\ AvgScale * (L - b * f.price - f.fee) = AvgScale * L - cash - AvgScale * f.fee
        /\ AvgScale * (OpeningBalance - (F + f.fee))
             = AvgScale * (OpeningBalance - F) - AvgScale * f.fee
        /\ AvgScale * L \in Int /\ AvgScale * f.fee \in Int
        /\ AvgScale * (OpeningBalance - F) \in Int
    BY <1>4, <1>6, <2>3, <2>6, <2>7
  <2> HIDE DEF cash
  <2> QED BY <1>4, <2>1, <2>2, <2>3, <2>5, <2>8
<1>8. /\ 2 * Magnitude(Gap(u)) <= Cardinality(Mine(u)) * Volume(Mine(u))
      /\ \A t \in Tokens : Magnitude(positions[<<u, t>>].size) <= Volume(Mine(u))
  BY DEF MoneyInv, Balanced
<1>9. Magnitude(new.size) <= Volume(Mine(u)) + f.size
  <2>1. Magnitude(pos.size) <= Volume(Mine(u)) /\ Magnitude(pos.size) \in Int
        /\ Magnitude(new.size) \in Int
    BY <1>1, <1>3, <1>6, <1>8, MagnitudePositive
  <2> QED BY <1>4, <1>5, <1>6, <2>1
<1>10. 2 * Magnitude(Gap(u)') <= Cardinality(Mine(u))' * Volume(Mine(u))'
  <2> DEFINE gap == Gap(u)
             drift == Drift(pos, new, f)
             v == Volume(Mine(u))
             n == Cardinality(Mine(u))
  <2>1. 2 * Magnitude(drift) <= v + f.size
    <3>1. Magnitude(drift) \in Int /\ Magnitude(new.size) \in Int
      BY <1>5, <1>6, MagnitudePositive
    <3> QED BY <1>4, <1>5, <1>6, <1>9, <3>1
  <2>2. gap \in Int /\ drift \in Int /\ v \in Nat /\ n \in Nat /\ 2 * Magnitude(gap) <= n * v
    BY <1>4, <1>5, <1>8
  <2> HIDE DEF gap, drift, v, n
  <2>3. 2 * Magnitude(gap + drift) <= (n + 1) * (v + f.size)
    BY <1>6, <2>1, <2>2, SlackGrows
  <2> QED BY <1>3, <1>7, <2>3 DEF gap, drift, v, n
<1>11. ASSUME NEW t \in Tokens PROVE Magnitude(positions'[<<u, t>>].size) <= Volume(Mine(u))'
  <2>1. CASE t = f.token
    BY <1>3, <1>9, <2>1
  <2>2. CASE t # f.token
    <3>1. positions'[<<u, t>>].size = positions[<<u, t>>].size
      BY <1>3, <2>2
    <3>2. positions[<<u, t>>].size \in Int
      BY DEF MoneyInv, JInv, IInv, TypeOK, Keys, PositionType
    <3>3. Magnitude(positions[<<u, t>>].size) \in Int
      BY <3>2, MagnitudePositive
    <3> QED BY <1>3, <1>4, <1>6, <1>8, <3>1, <3>3
  <2> QED BY <2>1, <2>2
<1> QED BY <1>10, <1>11 DEF Balanced

(* Nobody else's accounts move. *)
LEMMA OthersStayBalanced ==
  ASSUME MoneyInv, NEW u \in Users, LedgerCash'[u] = LedgerCash[u],
         FillsOf(posted, u)' = FillsOf(posted, u),
         \A t \in Tokens : positions'[<<u, t>>] = positions[<<u, t>>]
  PROVE  Balanced(u)'
<1>1. Mine(u)' = Mine(u)
  BY DEF Mine
<1>2. CostLessPnL(u)' = CostLessPnL(u)
  BY DEF CostLessPnL
<1>3. Gap(u)' = Gap(u)
  BY <1>1, <1>2 DEF Gap, Fees
<1>4. Balanced(u)
  BY DEF MoneyInv
<1> QED BY <1>1, <1>3, <1>4 DEF Balanced, Volume
(* A position write keeps its owner's accounts, every other step all of them. *)
LEMMA MoneyNext ==
  ASSUME OnePerUser, MaxAborts = 0, IsFiniteSet(Tokens)
  PROVE  MoneyInv /\ [Next]_vars => MoneyInv'
<1> SUFFICES ASSUME MoneyInv, [Next]_vars PROVE MoneyInv'
  OBVIOUS
<1>1. JInv /\ JInv'
  BY TypeNext, FreshNext, PlaceNext DEF MoneyInv, JInv, IInv
<1>2. ASSUME NEW w \in Workers, WritePosition(w) PROVE MoneyInv'
  <2>1. fill[w] \in Fills /\ fill[w].user \in Users
    BY <1>1, <1>2, BusyFill DEF WritePosition, Busy, JInv, IInv
  <2>2. PICK f \in Fills : f = fill[w]
    BY <2>1
  <2>3. PICK owner \in Users : owner = f.user
    BY <2>1, <2>2
  <2>4. PostedAreValid'
    BY <1>2, <2>2, <2>3, WriteBooks
  <2>5. Balanced(owner)'
    BY <1>2, <2>2, <2>3, WriteKeepsBalance
  <2>6. ASSUME NEW u \in Users, u # owner PROVE Balanced(u)'
    <3>1. LedgerCash'[u] = LedgerCash[u]
      <4>1. LedgerCash' = [LedgerCash EXCEPT ![f.user] = @ - Books!Shares(f) * f.price - f.fee]
        BY <1>1, <1>2, <2>2, WritePositionSettles DEF Books!Settle
      <4>2. LedgerCash = [v \in Users |-> LedgerCash[v]]
        BY DEF LedgerCash
      <4> QED BY <2>3, <2>6, <4>1, <4>2
    <3>2. FillsOf(posted, u)' = FillsOf(posted, u)
      <4>1. posted' = posted \cup {f}
        BY <1>2, <2>2 DEF WritePosition
      <4> QED BY <2>3, <2>6, <4>1 DEF FillsOf
    <3>3. ASSUME NEW t \in Tokens PROVE positions'[<<u, t>>] = positions[<<u, t>>]
      <4>1. <<u, t>> # KeyOf(fill[w]) /\ <<u, t>> \in Keys
        BY <2>2, <2>3, <2>6 DEF KeyOf, Keys
      <4> QED BY <1>1, <1>2, <4>1 DEF WritePosition, JInv, IInv, TypeOK
    <3> QED BY <3>1, <3>2, <3>3, OthersStayBalanced
  <2> QED BY <1>1, <2>4, <2>5, <2>6 DEF MoneyInv
<1>3. ASSUME positions' = positions, posted' = posted PROVE MoneyInv'
  <2>1. Books!Next \/ UNCHANGED Books!ledgerVars
    BY <1>1, StepSettlesOrStutters
  <2>2. ~Books!Next
    BY <1>3 DEF Books!Next, Books!Settle
  <2>3. LedgerCash' = LedgerCash
    BY <2>1, <2>2 DEF Books!ledgerVars
  <2>4. ASSUME NEW u \in Users PROVE Balanced(u)'
    <3>1. FillsOf(posted, u)' = FillsOf(posted, u)
      BY <1>3 DEF FillsOf
    <3> QED BY <1>3, <2>3, <3>1, OthersStayBalanced
  <2>5. PostedAreValid'
    BY <1>3 DEF MoneyInv, PostedAreValid
  <2> QED BY <1>1, <2>4, <2>5 DEF MoneyInv
<1>4. (\E w \in Workers : WritePosition(w)) \/ (positions' = positions /\ posted' = posted)
  BY DEF Next, Step, Receive, StartApply, RejectFill, ReadBalance, WriteBalance,
         Finish, AbortApply, vars, stores, history
<1> QED BY <1>2, <1>3, <1>4

(* Before the first fill the accounts are even. *)
LEMMA MoneyInit ==
  ASSUME IsFiniteSet(Tokens)
  PROVE  Init => MoneyInv
<1> SUFFICES ASSUME Init PROVE MoneyInv
  OBVIOUS
<1>1. JInv
  BY TypeInit, FreshInit, PlaceInit DEF JInv, IInv
<1>2. PostedAreValid
  BY FS_EmptySet DEF Init, PostedAreValid
<1>3. ASSUME NEW u \in Users PROVE Balanced(u)
  <2>1. Mine(u) = {}
    BY DEF Init, Mine, FillsOf
  <2>2. Volume(Mine(u)) = 0 /\ Fees(Mine(u)) = 0 /\ Cardinality(Mine(u)) = 0
    BY <2>1, SumEmpty, FS_EmptySet DEF Volume, Fees
  <2>3. LedgerCash[u] = OpeningBalance
    <3>1. \A v \in Workers : v \notin Unpaid(u)
      BY DEF Init, Unpaid
    <3> QED BY <3>1, CashAtRest DEF Init
  <2>4. ASSUME NEW t \in Tokens PROVE positions[<<u, t>>] = NoPosition
    BY DEF Init, Keys
  <2>5. CostLessPnL(u) = 0
    <3> DEFINE worth == [t \in Tokens |-> positions[<<u, t>>].size * positions[<<u, t>>].avg
                                             - positions[<<u, t>>].realized]
    <3>1. \A t \in Tokens : worth[t] = 0
      BY <2>4 DEF NoPosition
    <3> HIDE DEF worth
    <3>2. SumFunctionOnSet(worth, Tokens) = 0
      BY <3>1, SumZero
    <3> QED BY <3>2 DEF CostLessPnL, worth
  <2>6. AvgScale * OpeningBalance \in Int /\ OpeningBalance \in Int
    BY AvgScaleAssumption, OpeningAssumption
  <2>7. Gap(u) = (AvgScale * OpeningBalance + 0) - AvgScale * (OpeningBalance - 0)
    BY <2>2, <2>3, <2>5 DEF Gap
  <2>8. Gap(u) = 0
    BY <2>6, <2>7
  <2>9. Magnitude(0) = 0
    BY DEF Magnitude
  <2>10. \A t \in Tokens : positions[<<u, t>>].size = 0
    BY <2>4 DEF NoPosition
  <2> QED BY <2>2, <2>8, <2>9, <2>10 DEF Balanced
<1> QED BY <1>1, <1>2, <1>3 DEF MoneyInv

(* For any fills, users and workers and any finite set of tokens: with one    *)
(* apply per user and no aborts, a user nobody is applying a fill for has in  *)
(* cash, open positions at cost and realized PnL exactly what the user        *)
(* started with less the fees, but for half a unit of average cost per share  *)
(* and fill.  No fill is lost, doubled or valued twice (engine.py:59-85,      *)
(* position_math.py:44-95).                                                   *)
THEOREM MoneyIsConserved ==
  OnePerUser /\ MaxAborts = 0 /\ IsFiniteSet(Tokens) => (Spec => []MoneyConserved)
<1> SUFFICES ASSUME OnePerUser, MaxAborts = 0, IsFiniteSet(Tokens)
             PROVE  Spec => []MoneyConserved
  OBVIOUS
<1>1. Init => MoneyInv
  BY MoneyInit
<1>2. MoneyInv /\ [Next]_vars => MoneyInv'
  BY MoneyNext
<1>3. MoneyInv => MoneyConserved
  <2> SUFFICES ASSUME MoneyInv, NEW u \in Users,
                      \A w \in Workers : Busy(w) => fill[w].user # u
               PROVE  LET mine == FillsOf(posted, u)
                          equity == AvgScale * balances[u] + CostLessPnL(u)
                          due == AvgScale * (OpeningBalance - Fees(mine))
                      IN  2 * Magnitude(equity - due) <= Cardinality(mine) * Volume(mine)
    BY DEF MoneyConserved
  <2>1. \A w \in Workers : w \notin Unpaid(u)
    BY DEF Unpaid, Busy
  <2>2. LedgerCash[u] = balances[u]
    BY <2>1, CashAtRest
  <2>3. Balanced(u)
    BY DEF MoneyInv
  <2> QED BY <2>2, <2>3 DEF Balanced, Gap, Mine
<1> QED BY <1>1, <1>2, <1>3, PTL DEF Spec
=============================================================================
