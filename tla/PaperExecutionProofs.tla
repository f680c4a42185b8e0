------------------------ MODULE PaperExecutionProofs ------------------------
(***************************************************************************)
(* Theorems about PaperExecution for every set of calls, intents and books *)
(* and any number of restarts: one claim of a signal per run of the        *)
(* process, no refusal without an owner of the signal, and fills that stay *)
(* within the intent and within the cash that was reserved for it.  The    *)
(* first part is the arithmetic they rest on: what simulate_fill returns,  *)
(* for every tick, fee rate and book.                                      *)
(***************************************************************************)
EXTENDS PaperExecution, TLAPS

-----------------------------------------------------------------------------
(* Quantizing never adds and takes off less than one tick. *)
LEMMA RoundDownBounds ==
  ASSUME NEW value \in Nat, NEW tick \in Nat \ {0}
  PROVE  /\ RoundDown(value, tick) \in Nat
         /\ RoundDown(value, tick) <= value
         /\ RoundDown(value, tick) > value - tick
<1> DEFINE q == value \div tick
           r == value % tick
<1>1. q \in Nat /\ r \in Nat /\ r < tick
  BY SMT
<1>2. value = tick * q + r
  BY SMT
<1> HIDE DEF q, r
<1>3. q * tick = tick * q /\ q * tick \in Nat
  BY <1>1, SMT
<1> QED BY <1>1, <1>2, <1>3, SMT DEF RoundDown, q

(* A product grows with its factors. *)
LEMMA ProductMonotone ==
  ASSUME NEW a \in Nat, NEW b \in Nat, NEW c \in Nat, NEW d \in Nat, a <= c, b <= d
  PROVE  a * b <= c * d
<1>1. a * b <= a * d
  BY SMT
<1>2. a * d <= c * d
  BY SMT
<1>3. a * b \in Nat /\ a * d \in Nat /\ c * d \in Nat
  BY SMT
<1> QED BY <1>1, <1>2, <1>3, SMT

(* The fee is a whole amount and no more than the fee rate asks for. *)
LEMMA FeeBounds ==
  ASSUME NEW size \in Nat, NEW price \in Nat
  PROVE  /\ Fee(size, price) \in Nat
         /\ FeeDen * Fee(size, price) <= size * price * FeeNum
<1> DEFINE due == size * price * FeeNum
           exact == due \div FeeDen
<1>1. due \in Nat
  <2>1. size * price \in Nat
    BY SMT
  <2> QED BY <2>1, FeeAssumption, SMT
<1> HIDE DEF due
<1>2. exact \in Nat /\ FeeDen * exact <= due
  BY <1>1, FeeAssumption, SMT
<1> HIDE DEF exact
<1>3. quantize_cash(exact) \in Nat /\ quantize_cash(exact) <= exact
  BY <1>2, RoundDownBounds, TicksAssumption DEF quantize_cash
<1>4. FeeDen * quantize_cash(exact) <= FeeDen * exact
  BY <1>2, <1>3, FeeAssumption, ProductMonotone
<1>5. Fee(size, price) = quantize_cash(exact)
  BY DEF Fee, exact, due
<1>6. FeeDen * quantize_cash(exact) \in Nat /\ FeeDen * exact \in Nat
  BY <1>2, <1>3, FeeAssumption, SMT
<1> QED BY <1>1, <1>2, <1>3, <1>4, <1>5, <1>6, SMT DEF due

(* What a fill takes: a whole size of what was asked and offered, at the      *)
(* level's price but for less than one tick, and the fee on just that.        *)
LEMMA FillBounds ==
  ASSUME NEW side \in {"buy", "sell"}, NEW size \in Nat, NEW limit \in Nat,
         NEW book \in BookType,
         simulate_fill(side, size, limit, book) # None
  PROVE  LET f == simulate_fill(side, size, limit, book)
             level == Opposite(side, book)
         IN  /\ f \in FillType
             /\ 0 < f.size /\ f.size <= size /\ f.size <= level.depth
             /\ side = "buy" => f.price <= limit
             /\ side = "sell" => f.price > limit - PriceTick
             /\ FeeDen * f.fee <= f.size * f.price * FeeNum
<1> DEFINE level == Opposite(side, book)
           filled == FilledSize(size, level.depth)
           price == quantize_price(level.price)
           f == simulate_fill(side, size, limit, book)
<1>1. level.depth \in Nat /\ level.price \in Nat \cup {None}
  BY DEF Opposite, BookType
<1>2. Marketable(side, limit, level.price) /\ ~(filled <= 0)
  BY DEF simulate_fill
<1>3. f = [size |-> filled, price |-> price, fee |-> Fee(filled, price)]
  BY <1>2 DEF simulate_fill
<1>4. level.price \in Nat
  BY <1>1, <1>2 DEF Marketable
<1> HIDE DEF level
<1>5. Smaller(size, level.depth) \in Nat
      /\ Smaller(size, level.depth) <= size /\ Smaller(size, level.depth) <= level.depth
  BY <1>1 DEF Smaller
<1>6. filled \in Nat /\ filled <= Smaller(size, level.depth)
  BY <1>5, RoundDownBounds, TicksAssumption DEF FilledSize, quantize_size
<1>7. price \in Nat /\ price <= level.price /\ price > level.price - PriceTick
  BY <1>4, RoundDownBounds, TicksAssumption DEF quantize_price
<1> HIDE DEF filled, price
<1>8. Fee(filled, price) \in Nat
      /\ FeeDen * Fee(filled, price) <= filled * price * FeeNum
  BY <1>6, <1>7, FeeBounds
<1>9. f \in FillType
  BY <1>3, <1>6, <1>7, <1>8 DEF FillType
<1>10. 0 < filled /\ filled <= size /\ filled <= level.depth
  BY <1>1, <1>2, <1>5, <1>6
<1>11. side = "buy" => price <= limit
  BY <1>2, <1>4, <1>7 DEF Marketable
<1>12. side = "sell" => price > limit - PriceTick
  BY <1>2, <1>4, <1>7, TicksAssumption DEF Marketable
<1> HIDE DEF f
<1> QED BY <1>3, <1>8, <1>9, <1>10, <1>11, <1>12 DEF f, level

(* A buy and its fee never cost more than size x limit x (1 + fee rate).      *)
LEMMA CostBound ==
  ASSUME NEW size \in Nat, NEW limit \in Nat,
         NEW s \in Nat, NEW p \in Nat, NEW fee \in Nat,
         s <= size, p <= limit, FeeDen * fee <= s * p * FeeNum
  PROVE  FeeDen * (s * p + fee) <= size * limit * (FeeDen + FeeNum)
<1> DEFINE cost == s * p
           most == size * limit
<1>1. cost \in Nat /\ most \in Nat /\ cost <= most
  BY ProductMonotone, SMT
<1> HIDE DEF cost, most
<1>2. FeeDen \in Nat /\ FeeNum \in Nat
  BY FeeAssumption
<1>3. FeeDen * (cost + fee) = FeeDen * cost + FeeDen * fee
  BY <1>1, <1>2, SMT
<1>4. cost * (FeeDen + FeeNum) = FeeDen * cost + cost * FeeNum
  BY <1>1, <1>2, SMT
<1>5. cost * (FeeDen + FeeNum) <= most * (FeeDen + FeeNum)
  BY <1>1, <1>2, ProductMonotone
<1>6. FeeDen * fee <= cost * FeeNum
  BY DEF cost
<1>7. /\ FeeDen * cost \in Nat /\ FeeDen * fee \in Nat /\ cost * FeeNum \in Nat
      /\ cost * (FeeDen + FeeNum) \in Nat /\ most * (FeeDen + FeeNum) \in Nat
  BY <1>1, <1>2, SMT
<1>8. FeeDen * (cost + fee) <= most * (FeeDen + FeeNum)
  BY <1>3, <1>4, <1>5, <1>6, <1>7, SMT
<1> QED BY <1>8 DEF cost, most

-----------------------------------------------------------------------------

(* A fill is what simulate_fill gives the intent from the answered book. *)
FillsFromBooks ==
  \A c \in Calls : fill[c] # None => /\ answer[c] \in Books
                                     /\ fill[c] = PaperFill(intent[c], answer[c])

(* A claim of the running process is remembered, and a remembered signal was  *)
(* claimed by a call of the running process.                                  *)
ClaimsAreSeen ==
  \A c \in Calls :
    Claimed(c) /\ epoch[c] = restarts => intent[c].signal_id \in seen
SeenAreClaims ==
  \A s \in seen : \E c \in Calls :
    Claimed(c) /\ epoch[c] = restarts /\ intent[c].signal_id = s

IInv == /\ TypeOK /\ FillsFromBooks /\ ClaimsAreSeen /\ SeenAreClaims
        /\ OneClaimPerRun /\ DuplicateHasOwner

-----------------------------------------------------------------------------
(* What an intent carries. *)
LEMMA IntentFields ==
  ASSUME NEW i \in Intents
  PROVE  /\ i.side \in {"buy", "sell"} /\ i.size \in Nat /\ i.limit_price \in Nat
         /\ i.signal_id \in Signals
BY IntentsAssumption DEF IntentType, Signals

(* A fill has whole amounts, whatever book it is priced with. *)
LEMMA PaperFillType ==
  ASSUME NEW i \in Intents, NEW book \in Books \cup {None}
  PROVE  PaperFill(i, book) \in FillType \cup {None}
<1>1. CASE book = None
  BY <1>1 DEF PaperFill
<1>2. CASE book # None /\ PaperFill(i, book) # None
  <2>1. book \in BookType
    BY <1>2, BooksAssumption
  <2> QED BY <1>2, <2>1, IntentFields, FillBounds DEF PaperFill
<1> QED BY <1>1, <1>2

(* Nothing is seen, claimed or filled at the start. *)
LEMMA IInvInit == Init => IInv
<1> SUFFICES ASSUME Init PROVE IInv
  OBVIOUS
<1>1. TypeOK
  BY MaxRestartsAssumption DEF Init, TypeOK, States, Started
<1>2. FillsFromBooks /\ ClaimsAreSeen /\ SeenAreClaims
  BY DEF Init, FillsFromBooks, ClaimsAreSeen, SeenAreClaims, Claimed, Started
<1>3. OneClaimPerRun /\ DuplicateHasOwner
  BY DEF Init, OneClaimPerRun, DuplicateHasOwner, Claimed, Started
<1> QED BY <1>1, <1>2, <1>3 DEF IInv

(* Every step keeps the types. *)
LEMMA TypeNext ==
  ASSUME TypeOK, [Next]_vars
  PROVE  TypeOK'
<1> USE DEF TypeOK, States, Started
<1>1. ASSUME NEW c \in Calls, NEW i \in Intents, SubmitDuplicate(c, i)
      PROVE  TypeOK'
  BY <1>1 DEF SubmitDuplicate, Called
<1>2. ASSUME NEW c \in Calls, NEW i \in Intents, SubmitFresh(c, i)
      PROVE  TypeOK'
  BY <1>2, IntentFields DEF SubmitFresh, Called
<1>3. ASSUME NEW c \in Calls, NEW book \in Books \cup {None}, BookAnswers(c, book)
      PROVE  TypeOK'
  <2>1. PaperFill(intent[c], book) \in FillType \cup {None}
    BY <1>3, PaperFillType DEF BookAnswers
  <2> QED BY <1>3, <2>1 DEF BookAnswers
<1>4. ASSUME NEW c \in Calls, BookFails(c)
      PROVE  TypeOK'
  BY <1>4 DEF BookFails
<1>5. ASSUME Restart PROVE TypeOK'
  BY <1>5, MaxRestartsAssumption DEF Restart
<1>6. ASSUME UNCHANGED vars PROVE TypeOK'
  BY <1>6 DEF vars
<1> QED BY <1>1, <1>2, <1>3, <1>4, <1>5, <1>6 DEF Next

(* Every step keeps the fills those of the answered books. *)
LEMMA FillsNext ==
  ASSUME TypeOK, FillsFromBooks, [Next]_vars
  PROVE  FillsFromBooks'
<1> USE DEF FillsFromBooks
<1>1. ASSUME NEW c \in Calls, NEW i \in Intents,
             SubmitDuplicate(c, i) \/ SubmitFresh(c, i)
      PROVE  FillsFromBooks'
  <2>1. fill[c] = None /\ fill' = fill /\ answer' = answer
    BY <1>1 DEF SubmitDuplicate, SubmitFresh, Called, TypeOK
  <2>2. \A d \in Calls : d # c => intent'[d] = intent[d]
    BY <1>1 DEF SubmitDuplicate, SubmitFresh, Called, TypeOK
  <2> QED BY <2>1, <2>2
<1>2. ASSUME NEW c \in Calls, NEW book \in Books \cup {None}, BookAnswers(c, book)
      PROVE  FillsFromBooks'
  <2>1. /\ intent' = intent
        /\ answer' = [answer EXCEPT ![c] = book]
        /\ fill' = [fill EXCEPT ![c] = PaperFill(intent[c], book)]
    BY <1>2 DEF BookAnswers
  <2>2. PaperFill(intent[c], book) # None => book \in Books
    BY DEF PaperFill
  <2> QED BY <2>1, <2>2 DEF TypeOK
<1>3. ASSUME NEW c \in Calls, BookFails(c)
      PROVE  FillsFromBooks'
  BY <1>3 DEF BookFails
<1>4. ASSUME Restart PROVE FillsFromBooks'
  BY <1>4 DEF Restart
<1>5. ASSUME UNCHANGED vars PROVE FillsFromBooks'
  BY <1>5 DEF vars
<1> QED BY <1>1, <1>2, <1>3, <1>4, <1>5 DEF Next

(* Every step keeps the set of seen signals that of the claims of this run.   *)
LEMMA SeenNext ==
  ASSUME TypeOK, ClaimsAreSeen, SeenAreClaims, [Next]_vars
  PROVE  ClaimsAreSeen' /\ SeenAreClaims'
<1> USE DEF ClaimsAreSeen, SeenAreClaims, Claimed, Started
<1>1. ASSUME NEW c \in Calls, NEW i \in Intents, SubmitDuplicate(c, i)
      PROVE  ClaimsAreSeen' /\ SeenAreClaims'
  BY <1>1 DEF SubmitDuplicate, Called, TypeOK
<1>2. ASSUME NEW c \in Calls, NEW i \in Intents, SubmitFresh(c, i)
      PROVE  ClaimsAreSeen' /\ SeenAreClaims'
  BY <1>2 DEF SubmitFresh, Called, TypeOK
<1>3. ASSUME NEW c \in Calls, NEW book \in Books \cup {None}, BookAnswers(c, book)
      PROVE  ClaimsAreSeen' /\ SeenAreClaims'
  BY <1>3 DEF BookAnswers, TypeOK
<1>4. ASSUME NEW c \in Calls, BookFails(c)
      PROVE  ClaimsAreSeen' /\ SeenAreClaims'
  BY <1>4 DEF BookFails, TypeOK
<1>5. ASSUME Restart PROVE ClaimsAreSeen' /\ SeenAreClaims'
  <2>1. seen' = {} /\ epoch' = epoch /\ restarts' = restarts + 1
    BY <1>5 DEF Restart
  <2>2. \A c \in Calls : epoch'[c] # restarts'
    BY <2>1 DEF TypeOK
  <2> QED BY <2>1, <2>2
<1>6. ASSUME UNCHANGED vars PROVE ClaimsAreSeen' /\ SeenAreClaims'
  BY <1>6 DEF vars
<1> QED BY <1>1, <1>2, <1>3, <1>4, <1>5, <1>6 DEF Next

(* No step lets a second call of a run claim a signal, or turns a call away   *)
(* without an owner: a claim is made only for a signal not seen, a refusal    *)
(* only for one that is, and seen signals are those claimed in this run.      *)
LEMMA ClaimsNext ==
  ASSUME IInv, [Next]_vars
  PROVE  OneClaimPerRun' /\ DuplicateHasOwner'
<1> USE DEF IInv, OneClaimPerRun, DuplicateHasOwner, Claimed, Started, SameSignal
<1>1. ASSUME NEW c \in Calls, NEW i \in Intents, SubmitDuplicate(c, i)
      PROVE  OneClaimPerRun' /\ DuplicateHasOwner'
  <2>1. /\ state' = [state EXCEPT ![c] = "duplicate"]
        /\ intent' = [intent EXCEPT ![c] = i]
        /\ epoch' = [epoch EXCEPT ![c] = restarts]
        /\ state[c] = "new"
    BY <1>1 DEF SubmitDuplicate, Called
  <2>2. PICK d \in Calls : /\ Claimed(d) /\ epoch[d] = restarts
                           /\ intent[d].signal_id = i.signal_id
    BY <1>1 DEF SubmitDuplicate, SeenAreClaims
  <2>3. OneClaimPerRun'
    BY <2>1 DEF TypeOK
  <2>4. DuplicateHasOwner'
    BY <2>1, <2>2 DEF TypeOK
  <2> QED BY <2>3, <2>4
<1>2. ASSUME NEW c \in Calls, NEW i \in Intents, SubmitFresh(c, i)
      PROVE  OneClaimPerRun' /\ DuplicateHasOwner'
  <2>1. /\ state' = [state EXCEPT ![c] = "awaiting_book"]
        /\ intent' = [intent EXCEPT ![c] = i]
        /\ epoch' = [epoch EXCEPT ![c] = restarts]
        /\ state[c] = "new" /\ i.signal_id \notin seen
    BY <1>2 DEF SubmitFresh, Called
  <2>2. \A d \in Calls : Claimed(d) /\ epoch[d] = restarts
                            => intent[d].signal_id # i.signal_id
    BY <2>1 DEF ClaimsAreSeen
  <2>3. OneClaimPerRun'
    BY <2>1, <2>2 DEF TypeOK
  <2>4. DuplicateHasOwner'
    BY <2>1 DEF TypeOK
  <2> QED BY <2>3, <2>4
<1>3. ASSUME NEW c \in Calls, NEW book \in Books \cup {None}, BookAnswers(c, book)
      PROVE  OneClaimPerRun' /\ DuplicateHasOwner'
  BY <1>3 DEF BookAnswers, TypeOK
<1>4. ASSUME NEW c \in Calls, BookFails(c)
      PROVE  OneClaimPerRun' /\ DuplicateHasOwner'
  BY <1>4 DEF BookFails, TypeOK
<1>5. ASSUME Restart PROVE OneClaimPerRun' /\ DuplicateHasOwner'
  BY <1>5 DEF Restart, TypeOK
<1>6. ASSUME UNCHANGED vars PROVE OneClaimPerRun' /\ DuplicateHasOwner'
  BY <1>6 DEF vars
<1> QED BY <1>1, <1>2, <1>3, <1>4, <1>5, <1>6 DEF Next

(* The strengthened invariant holds of every reachable state. *)
LEMMA Invariance == Spec => []IInv
<1>1. Init => IInv
  BY IInvInit
<1>2. IInv /\ [Next]_vars => IInv'
  BY TypeNext, FillsNext, SeenNext, ClaimsNext DEF IInv
<1> QED BY <1>1, <1>2, PTL DEF Spec

-----------------------------------------------------------------------------
(* Only a call that was made has an argument, only an order has a fill, and   *)
(* no call belongs to a run of the process that is yet to come.               *)
THEOREM TypeCorrect == Spec => []TypeOK
<1>1. IInv => TypeOK
  BY DEF IInv
<1> QED BY <1>1, Invariance, PTL

(* submit claims a signal at most once in a run of the process, for any       *)
(* number of concurrent calls, failing lookups and restarts.                  *)
THEOREM ClaimsAreUnique == Spec => []OneClaimPerRun
<1>1. IInv => OneClaimPerRun
  BY DEF IInv
<1> QED BY <1>1, Invariance, PTL

(* A call is turned away only on behalf of another that took its signal, in   *)
(* its own run or before: the claim outlives the attempt, never precedes it.  *)
THEOREM RefusalsAreOwned == Spec => []DuplicateHasOwner
<1>1. IInv => DuplicateHasOwner
  BY DEF IInv
<1> QED BY <1>1, Invariance, PTL

(* Without restarts the docstring's promise holds: two intents with one       *)
(* signal_id never produce two orders.                                        *)
THEOREM OrdersAreUnique == MaxRestarts = 0 => (Spec => []OneOrderPerSignal)
<1> SUFFICES ASSUME MaxRestarts = 0 PROVE Spec => []OneOrderPerSignal
  OBVIOUS
<1>1. IInv => OneOrderPerSignal
  <2> SUFFICES ASSUME IInv PROVE OneOrderPerSignal
    OBVIOUS
  <2>1. \A c \in Calls : epoch[c] = 0
    BY DEF IInv, TypeOK
  <2> QED BY <2>1 DEF IInv, OneClaimPerRun, OneOrderPerSignal, Claimed, Started
<1> QED BY <1>1, Invariance, PTL

(* Whatever book answers, and however prices and sizes fall between ticks, a  *)
(* fill stays within its intent and within the level it trades against.       *)
THEOREM FillsStayWithin == Spec => []FillWithinIntent
<1>1. IInv => FillWithinIntent
  <2> SUFFICES ASSUME IInv, NEW c \in Calls, fill[c] # None
               PROVE  LET i == intent[c]
                          level == Opposite(i.side, answer[c])
                      IN  /\ 0 < fill[c].size /\ fill[c].size <= i.size
                          /\ fill[c].size <= level.depth
                          /\ IF i.side = "buy" THEN fill[c].price <= i.limit_price
                             ELSE fill[c].price > i.limit_price - PriceTick
    BY DEF FillWithinIntent
  <2>1. intent[c] \in Intents /\ answer[c] \in BookType /\ answer[c] # None
    BY BooksAssumption DEF IInv, TypeOK, FillsFromBooks, Started, PaperFill
  <2>2. fill[c] = simulate_fill(intent[c].side, intent[c].size,
                                intent[c].limit_price, answer[c])
    BY <2>1 DEF IInv, FillsFromBooks, PaperFill
  <2> QED BY <2>1, <2>2, IntentFields, FillBounds
<1> QED BY <1>1, Invariance, PTL

(* usdc_sufficient reserves enough for every buy that is filled, rounding and *)
(* fee included.                                                              *)
THEOREM CostsAreReserved == Spec => []CostWithinReserve
<1>1. IInv => CostWithinReserve
  <2> SUFFICES ASSUME IInv, NEW c \in Calls, fill[c] # None, intent[c].side = "buy"
               PROVE  FeeDen * (fill[c].size * fill[c].price + fill[c].fee)
                        <= intent[c].size * intent[c].limit_price * (FeeDen + FeeNum)
    BY DEF CostWithinReserve
  <2>1. intent[c] \in Intents /\ answer[c] \in BookType /\ answer[c] # None
    BY BooksAssumption DEF IInv, TypeOK, FillsFromBooks, Started, PaperFill
  <2>2. fill[c] = simulate_fill(intent[c].side, intent[c].size,
                                intent[c].limit_price, answer[c])
    BY <2>1 DEF IInv, FillsFromBooks, PaperFill
  <2>3. /\ fill[c].size \in Nat /\ fill[c].price \in Nat /\ fill[c].fee \in Nat
        /\ fill[c].size <= intent[c].size /\ fill[c].price <= intent[c].limit_price
        /\ FeeDen * fill[c].fee <= fill[c].size * fill[c].price * FeeNum
    BY <2>1, <2>2, IntentFields, FillBounds DEF FillType
  <2> QED BY <2>1, <2>3, IntentFields, CostBound
<1> QED BY <1>1, Invariance, PTL
=============================================================================
