------------------------ MODULE TradingSchemaProofs -------------------------
(***************************************************************************)
(* Theorems about TradingSchema for whatever rows anybody tries to insert. *)
(*                                                                         *)
(*  1. What the scripts leave behind: every revision has the tables,       *)
(*     indexes and triggers it should have (TypeCorrect).                  *)
(*  2. At revision 0002 the append-only tables only grow and no account    *)
(*     disappears (LedgerOnlyGrows, AccountsStay).                         *)
(*  3. So every fill leads to its order, its intent, its signal and its    *)
(*     user (FillsAreTraced).                                              *)
(***************************************************************************)
EXTENDS TradingSchema, TLAPS

-----------------------------------------------------------------------------
(* The tables of 0002 and the objects the script creates on them.             *)
Names == {"user_wallets", "user_secrets", "subscriptions", "strategy_instances",
          "signals", "intents", "orders", "fills",
          "positions", "position_snapshots", "balances", "risk_state",
          "audit_log", "notifications", "redemptions"}

IndexNames ==
  {"user_id", "user_address", "user_scope", "user_status", "user_strategy",
   "user_emitted_at", "instance_emitted_at", "user_decided_at", "signal_id",
   "intent_id", "clob_order_id", "user_filled_at", "order_id", "clob_fill_id",
   "user_snapshot_at", "user_market_token_snapshot_at", "user_created_at",
   "action_created_at", "status_created_at", "user_redeemed_at", "tx_hash"}

ObjectsOn(N) ==
  {Table(t) : t \in N} \cup {Object("index", name, t) : name \in IndexNames, t \in N}

Covers(s, N) == s \in Seq(ObjectsOn(N)) /\ \A t \in N : Table(t) \in Range(s)

LEMMA RangeOfConcat ==
  ASSUME NEW S, NEW s \in Seq(S), NEW t \in Seq(S)
  PROVE  s \o t \in Seq(S) /\ Range(s \o t) = Range(s) \cup Range(t)
<1>1. /\ s \o t \in Seq(S) /\ DOMAIN (s \o t) = 1..(Len(s) + Len(t))
      /\ \A i \in 1..Len(s) : (s \o t)[i] = s[i]
      /\ \A i \in 1..Len(t) : (s \o t)[Len(s) + i] = t[i]
  OBVIOUS
<1>2. DOMAIN s = 1..Len(s) /\ DOMAIN t = 1..Len(t) /\ Len(s) \in Nat /\ Len(t) \in Nat
  OBVIOUS
<1>3. ASSUME NEW i \in 1..(Len(s) + Len(t)) PROVE (s \o t)[i] \in Range(s) \cup Range(t)
  <2>1. CASE i \in 1..Len(s)
    BY <1>1, <1>2, <2>1 DEF Range
  <2>2. CASE i \notin 1..Len(s)
    <3>1. i - Len(s) \in 1..Len(t) /\ i = Len(s) + (i - Len(s))
      BY <1>2, <1>3, <2>2
    <3> QED BY <1>1, <1>2, <3>1 DEF Range
  <2> QED BY <2>1, <2>2
<1>4. ASSUME NEW i \in 1..Len(s) PROVE s[i] \in Range(s \o t)
  <2>1. i \in 1..(Len(s) + Len(t))
    BY <1>2, <1>4
  <2> QED BY <1>1, <2>1 DEF Range
<1>5. ASSUME NEW i \in 1..Len(t) PROVE t[i] \in Range(s \o t)
  <2>1. Len(s) + i \in 1..(Len(s) + Len(t))
    BY <1>2, <1>5
  <2> QED BY <1>1, <2>1 DEF Range
<1>6. Range(s \o t) \subseteq Range(s) \cup Range(t)
  BY <1>1, <1>3 DEF Range
<1>7. Range(s) \subseteq Range(s \o t) /\ Range(t) \subseteq Range(s \o t)
  BY <1>2, <1>4, <1>5 DEF Range
<1> QED BY <1>1, <1>6, <1>7

LEMMA RangeOfThree ==
  ASSUME NEW S, NEW s \in Seq(S), NEW t \in Seq(S), NEW u \in Seq(S)
  PROVE  Range(s \o t \o u) = Range(s) \cup Range(t) \cup Range(u)
<1> DEFINE r == s \o t
<1>1. r \in Seq(S) /\ Range(r) = Range(s) \cup Range(t)
  BY RangeOfConcat
<1> HIDE DEF r
<1>2. Range(r \o u) = Range(r) \cup Range(u)
  BY <1>1, RangeOfConcat
<1> QED BY <1>1, <1>2 DEF r

LEMMA RangeOfReverse ==
  ASSUME NEW S, NEW s \in Seq(S)
  PROVE  Reverse(s) \in Seq(S) /\ Range(Reverse(s)) = Range(s)
<1>1. /\ Reverse(s) \in Seq(S) /\ DOMAIN Reverse(s) = 1..Len(s)
      /\ \A i \in 1..Len(s) : Reverse(s)[i] = s[(Len(s) - i) + 1]
  BY DEF Reverse
<1>2. DOMAIN s = 1..Len(s) /\ Len(s) \in Nat
  OBVIOUS
<1>3. \A i \in 1..Len(s) : (Len(s) - i) + 1 \in 1..Len(s)
  BY <1>2
<1>4. \A i \in 1..Len(s) : (Len(s) - ((Len(s) - i) + 1)) + 1 = i
  BY <1>2
<1>5. Range(Reverse(s)) \subseteq Range(s)
  BY <1>1, <1>2, <1>3 DEF Range
<1>6. ASSUME NEW i \in 1..Len(s) PROVE s[i] \in Range(Reverse(s))
  <2>1. Reverse(s)[(Len(s) - i) + 1] = s[i]
    BY <1>1, <1>3, <1>4
  <2> QED BY <1>1, <1>3, <2>1 DEF Range
<1>7. Range(s) \subseteq Range(Reverse(s))
  BY <1>2, <1>6 DEF Range
<1> QED BY <1>1, <1>5, <1>7

LEMMA RangeOfOne ==
  ASSUME NEW S, NEW x \in S
  PROVE  <<x>> \in Seq(S) /\ Range(<<x>>) = {x}
BY DEF Range

LEMMA ShortSequences ==
  ASSUME NEW S
  PROVE  /\ <<>> \in Seq(S)
         /\ \A a \in S : <<a>> \in Seq(S)
         /\ \A a, b \in S : <<a, b>> \in Seq(S)
         /\ \A a, b, c \in S : <<a, b, c>> \in Seq(S)
OBVIOUS

LEMMA MappedSequence ==
  ASSUME NEW S, NEW n \in Nat, NEW f \in [1..n -> S]
  PROVE  f \in Seq(S)
OBVIOUS

LEMMA SequenceInto ==
  ASSUME NEW S, NEW T, S \subseteq T, NEW s \in Seq(S)
  PROVE  s \in Seq(T)
<1>1. Len(s) \in Nat /\ s \in [1..Len(s) -> S]
  OBVIOUS
<1>2. s \in [1..Len(s) -> T]
  BY <1>1
<1> QED BY <1>1, <1>2, MappedSequence

LEMMA IndexedCovers ==
  ASSUME NEW t, NEW indexes \in Seq(IndexNames)
  PROVE  Covers(Indexed(t, indexes), {t})
<1> DEFINE own == [i \in DOMAIN indexes |-> Object("index", indexes[i], t)]
           S == ObjectsOn({t})
<1>1. Table(t) \in S /\ \A name \in IndexNames : Object("index", name, t) \in S
  BY DEF ObjectsOn
<1>2. own \in Seq(S)
  <2>1. \A i \in 1..Len(indexes) : indexes[i] \in IndexNames
    OBVIOUS
  <2>2. DOMAIN indexes = 1..Len(indexes) /\ Len(indexes) \in Nat
    OBVIOUS
  <2> HIDE DEF S
  <2>3. own \in [1..Len(indexes) -> S]
    BY <1>1, <2>1, <2>2
  <2> QED BY <2>2, <2>3, MappedSequence
<1>3. <<Table(t)>> \in Seq(S) /\ Range(<<Table(t)>>) = {Table(t)}
  BY <1>1, RangeOfOne
<1> HIDE DEF own, S
<1>4. <<Table(t)>> \o own \in Seq(S) /\ Table(t) \in Range(<<Table(t)>> \o own)
  <2> DEFINE one == <<Table(t)>>
  <2>1. one \in Seq(S) /\ Table(t) \in Range(one)
    BY <1>3
  <2> HIDE DEF one
  <2>2. one \o own \in Seq(S) /\ Range(one \o own) = Range(one) \cup Range(own)
    BY <1>2, <2>1, RangeOfConcat
  <2>3. one \o own \in Seq(S) /\ Table(t) \in Range(one \o own)
    BY <2>1, <2>2
  <2> QED BY <2>3 DEF one
<1>5. Indexed(t, indexes) = <<Table(t)>> \o own
  BY DEF Indexed, own
<1> QED BY <1>4, <1>5 DEF Covers, S

LEMMA ConcatCovers ==
  ASSUME NEW M, NEW N, NEW s, NEW r, Covers(s, M), Covers(r, N)
  PROVE  Covers(s \o r, M \cup N)
<1>1. ObjectsOn(M) \subseteq ObjectsOn(M \cup N) /\ ObjectsOn(N) \subseteq ObjectsOn(M \cup N)
  BY DEF ObjectsOn
<1>2. s \in Seq(ObjectsOn(M)) /\ r \in Seq(ObjectsOn(N))
  BY DEF Covers
<1> DEFINE S == ObjectsOn(M \cup N)
<1>3. s \in Seq(S) /\ r \in Seq(S)
  BY <1>1, <1>2, SequenceInto
<1>4. s \o r \in Seq(S) /\ Range(s \o r) = Range(s) \cup Range(r)
  BY <1>3, RangeOfConcat
<1> QED BY <1>4 DEF Covers

LEMMA FourCover ==
  ASSUME NEW s, NEW t, NEW u, NEW v, NEW A, NEW B, NEW C, NEW D,
         Covers(s, A), Covers(t, B), Covers(u, C), Covers(v, D)
  PROVE  Covers(s \o t \o u \o v, A \cup B \cup C \cup D)
<1>1. Covers(s \o t, A \cup B)
  BY ConcatCovers
<1>2. Covers(s \o t \o u, A \cup B \cup C)
  BY <1>1, ConcatCovers
<1> QED BY <1>2, ConcatCovers

LEMMA AccountObjectCover ==
  Covers(AccountObjects, {"user_wallets", "user_secrets", "subscriptions", "strategy_instances"})
<1> DEFINE i1 == <<"user_id", "user_address">>
           i2 == <<"user_scope">>
           i3 == <<>>
           i4 == <<"user_status", "user_strategy">>
<1>1. i1 \in Seq(IndexNames) /\ i2 \in Seq(IndexNames) /\ i3 \in Seq(IndexNames) /\ i4 \in Seq(IndexNames)
  BY ShortSequences DEF IndexNames
<1> HIDE DEF i1, i2, i3, i4
<1>2. /\ Covers(Indexed("user_wallets", i1), {"user_wallets"})
      /\ Covers(Indexed("user_secrets", i2), {"user_secrets"})
      /\ Covers(Indexed("subscriptions", i3), {"subscriptions"})
      /\ Covers(Indexed("strategy_instances", i4), {"strategy_instances"})
  BY <1>1, IndexedCovers
<1>3. Covers(Indexed("user_wallets", i1)
               \o Indexed("user_secrets", i2)
               \o Indexed("subscriptions", i3)
               \o Indexed("strategy_instances", i4),
             {"user_wallets"} \cup {"user_secrets"} \cup {"subscriptions"} \cup {"strategy_instances"})
  BY <1>2, FourCover
<1>5. {"user_wallets"} \cup {"user_secrets"} \cup {"subscriptions"} \cup {"strategy_instances"} =
        {"user_wallets", "user_secrets", "subscriptions", "strategy_instances"}
  OBVIOUS
<1>6. AccountObjects =
        Indexed("user_wallets", i1)
          \o Indexed("user_secrets", i2)
          \o Indexed("subscriptions", i3)
          \o Indexed("strategy_instances", i4)
  BY DEF AccountObjects, i1, i2, i3, i4
<1> QED BY <1>3, <1>5, <1>6

LEMMA LedgerObjectCover ==
  Covers(LedgerObjects, {"signals", "intents", "orders", "fills"})
<1> DEFINE i1 == <<"user_emitted_at", "instance_emitted_at">>
           i2 == <<"user_decided_at", "signal_id">>
           i3 == <<"user_status", "intent_id", "clob_order_id">>
           i4 == <<"user_filled_at", "order_id", "clob_fill_id">>
<1>1. i1 \in Seq(IndexNames) /\ i2 \in Seq(IndexNames) /\ i3 \in Seq(IndexNames) /\ i4 \in Seq(IndexNames)
  BY ShortSequences DEF IndexNames
<1> HIDE DEF i1, i2, i3, i4
<1>2. /\ Covers(Indexed("signals", i1), {"signals"})
      /\ Covers(Indexed("intents", i2), {"intents"})
      /\ Covers(Indexed("orders", i3), {"orders"})
      /\ Covers(Indexed("fills", i4), {"fills"})
  BY <1>1, IndexedCovers
<1>3. Covers(Indexed("signals", i1)
               \o Indexed("intents", i2)
               \o Indexed("orders", i3)
               \o Indexed("fills", i4),
             {"signals"} \cup {"intents"} \cup {"orders"} \cup {"fills"})
  BY <1>2, FourCover
<1>5. {"signals"} \cup {"intents"} \cup {"orders"} \cup {"fills"} =
        {"signals", "intents", "orders", "fills"}
  OBVIOUS
<1>6. LedgerObjects =
        Indexed("signals", i1)
          \o Indexed("intents", i2)
          \o Indexed("orders", i3)
          \o Indexed("fills", i4)
  BY DEF LedgerObjects, i1, i2, i3, i4
<1> QED BY <1>3, <1>5, <1>6

LEMMA BookObjectCover ==
  Covers(BookObjects, {"positions", "position_snapshots", "balances", "risk_state"})
<1> DEFINE i1 == <<>>
           i2 == <<"user_snapshot_at", "user_market_token_snapshot_at">>
           i3 == <<>>
           i4 == <<>>
<1>1. i1 \in Seq(IndexNames) /\ i2 \in Seq(IndexNames) /\ i3 \in Seq(IndexNames) /\ i4 \in Seq(IndexNames)
  BY ShortSequences DEF IndexNames
<1> HIDE DEF i1, i2, i3, i4
<1>2. /\ Covers(Indexed("positions", i1), {"positions"})
      /\ Covers(Indexed("position_snapshots", i2), {"position_snapshots"})
      /\ Covers(Indexed("balances", i3), {"balances"})
      /\ Covers(Indexed("risk_state", i4), {"risk_state"})
  BY <1>1, IndexedCovers
<1>3. Covers(Indexed("positions", i1)
               \o Indexed("position_snapshots", i2)
               \o Indexed("balances", i3)
               \o Indexed("risk_state", i4),
             {"positions"} \cup {"position_snapshots"} \cup {"balances"} \cup {"risk_state"})
  BY <1>2, FourCover
<1>5. {"positions"} \cup {"position_snapshots"} \cup {"balances"} \cup {"risk_state"} =
        {"positions", "position_snapshots", "balances", "risk_state"}
  OBVIOUS
<1>6. BookObjects =
        Indexed("positions", i1)
          \o Indexed("position_snapshots", i2)
          \o Indexed("balances", i3)
          \o Indexed("risk_state", i4)
  BY DEF BookObjects, i1, i2, i3, i4
<1> QED BY <1>3, <1>5, <1>6

LEMMA RecordObjectCover ==
  Covers(RecordObjects, {"audit_log", "notifications", "redemptions"})
<1> DEFINE i1 == <<"user_created_at", "action_created_at">>
           i2 == <<"user_created_at", "status_created_at">>
           i3 == <<"user_redeemed_at", "tx_hash">>
<1>1. i1 \in Seq(IndexNames) /\ i2 \in Seq(IndexNames) /\ i3 \in Seq(IndexNames)
  BY ShortSequences DEF IndexNames
<1> HIDE DEF i1, i2, i3
<1>2. /\ Covers(Indexed("audit_log", i1), {"audit_log"})
      /\ Covers(Indexed("notifications", i2), {"notifications"})
      /\ Covers(Indexed("redemptions", i3), {"redemptions"})
  BY <1>1, IndexedCovers
<1>3. Covers(Indexed("audit_log", i1) \o Indexed("notifications", i2),
             {"audit_log"} \cup {"notifications"})
  BY <1>2, ConcatCovers
<1>4. Covers(Indexed("audit_log", i1)
               \o Indexed("notifications", i2)
               \o Indexed("redemptions", i3),
             {"audit_log"} \cup {"notifications"} \cup {"redemptions"})
  BY <1>2, <1>3, ConcatCovers
<1>5. {"audit_log"} \cup {"notifications"} \cup {"redemptions"} =
        {"audit_log", "notifications", "redemptions"}
  OBVIOUS
<1>6. RecordObjects =
        Indexed("audit_log", i1)
          \o Indexed("notifications", i2)
          \o Indexed("redemptions", i3)
  BY DEF RecordObjects, i1, i2, i3
<1> QED BY <1>4, <1>5, <1>6

LEMMA SchemaCover == Covers(SchemaObjects, Names)
<1> DEFINE A == {"user_wallets", "user_secrets", "subscriptions", "strategy_instances"}
           B == {"signals", "intents", "orders", "fills"}
           C == {"positions", "position_snapshots", "balances", "risk_state"}
           D == {"audit_log", "notifications", "redemptions"}
<1>1. Covers(SchemaObjects, A \cup B \cup C \cup D)
  BY AccountObjectCover, LedgerObjectCover, BookObjectCover, RecordObjectCover, FourCover
     DEF SchemaObjects
<1>2. A \cup B \cup C \cup D = Names
  BY DEF Names
<1> QED BY <1>1, <1>2

LEMMA AppendOnlyNames ==
  /\ APPEND_ONLY_TABLES \in Seq(Names)
  /\ Range(APPEND_ONLY_TABLES) = {"signals", "intents", "fills", "audit_log"}
<1>1. /\ APPEND_ONLY_TABLES \in Seq(Names) /\ DOMAIN APPEND_ONLY_TABLES = 1..4
      /\ APPEND_ONLY_TABLES[1] = "signals" /\ APPEND_ONLY_TABLES[2] = "intents"
      /\ APPEND_ONLY_TABLES[3] = "fills" /\ APPEND_ONLY_TABLES[4] = "audit_log"
  BY DEF APPEND_ONLY_TABLES, Names
<1>2. \A i : i \in 1..4 <=> i \in {1, 2, 3, 4}
  OBVIOUS
<1>3. Range(APPEND_ONLY_TABLES) = {APPEND_ONLY_TABLES[i] : i \in {1, 2, 3, 4}}
  BY <1>1, <1>2 DEF Range
<1> QED BY <1>1, <1>3

LEMMA TriggersCover ==
  /\ AppendOnlyTriggers \in Seq({Trigger(t) : t \in Names})
  /\ Range(AppendOnlyTriggers) = {Trigger(t) : t \in Range(APPEND_ONLY_TABLES)}
<1> DEFINE S == {Trigger(t) : t \in Names}
<1>1. /\ Len(APPEND_ONLY_TABLES) \in Nat /\ DOMAIN APPEND_ONLY_TABLES = 1..Len(APPEND_ONLY_TABLES)
      /\ \A i \in DOMAIN APPEND_ONLY_TABLES : APPEND_ONLY_TABLES[i] \in Names
  BY AppendOnlyNames
<1>2. AppendOnlyTriggers \in [1..Len(APPEND_ONLY_TABLES) -> S]
  BY <1>1 DEF AppendOnlyTriggers
<1>3. AppendOnlyTriggers \in Seq(S)
  BY <1>1, <1>2, MappedSequence
<1>4. Range(AppendOnlyTriggers) = {Trigger(t) : t \in Range(APPEND_ONLY_TABLES)}
  BY DEF Range, AppendOnlyTriggers
<1> QED BY <1>3, <1>4

(* What a script that only creates, or only drops, leaves behind.             *)
LEMMA EachRange ==
  ASSUME NEW op, NEW objects
  PROVE  Range(Each(op, objects)) = {Statement(op, o) : o \in Range(objects)}
BY DEF Range, Each

LEMMA EachObjects ==
  ASSUME NEW op, NEW objects
  PROVE  /\ Objects(op, Range(Each(op, objects))) = Range(objects)
         /\ \A other : other # op => Objects(other, Range(Each(op, objects))) = {}
<1>1. \A o : Statement(op, o).op = op /\ Statement(op, o).object = o
  BY DEF Statement
<1> QED BY <1>1, EachRange DEF Objects

LEMMA Creating ==
  ASSUME NEW objects
  PROVE  Present(Range(Each("create", objects))) = catalogue \cup Range(objects)
<1>1. "create" # "drop"
  OBVIOUS
<1> QED BY <1>1, EachObjects DEF Present

LEMMA Dropping ==
  ASSUME NEW objects
  PROVE  Present(Range(Each("drop", objects))) =
           {o \in catalogue : o \notin Range(objects) /\ Table(o.on) \notin Range(objects)}
<1>1. "create" # "drop"
  OBVIOUS
<1> QED BY <1>1, EachObjects DEF Present

(* Everything that script 0002 creates.                                       *)
Whole == Range(SchemaObjects) \cup {ViolationFunction} \cup Range(AppendOnlyTriggers)

LEMMA Script0002Is ==
  /\ Present(Range(Script0002("up"))) = catalogue \cup Whole
  /\ Present(Range(Script0002("down"))) =
       {o \in catalogue : o \notin Whole /\ Table(o.on) \notin Whole}
<1> DEFINE objects == SchemaObjects
           function == <<ViolationFunction>>
           triggers == AppendOnlyTriggers
           back == Reverse(SchemaObjects)
           S == ObjectsOn(Names) \cup {ViolationFunction} \cup {Trigger(t) : t \in Names}
<1>1. objects \in Seq(S) /\ triggers \in Seq(S)
  <2>1. objects \in Seq(ObjectsOn(Names)) /\ triggers \in Seq({Trigger(t) : t \in Names})
    BY SchemaCover, TriggersCover DEF Covers
  <2>2. ObjectsOn(Names) \subseteq S /\ {Trigger(t) : t \in Names} \subseteq S
    OBVIOUS
  <2> HIDE DEF S, objects, triggers
  <2> QED BY <2>1, <2>2, SequenceInto
<1>2. function \in Seq(S) /\ Range(function) = {ViolationFunction}
  <2>1. ViolationFunction \in S
    OBVIOUS
  <2> HIDE DEF S
  <2> QED BY <2>1, RangeOfOne
<1>3. back \in Seq(S) /\ Range(back) = Range(objects)
  <2> HIDE DEF S, objects
  <2>1. Reverse(objects) \in Seq(S) /\ Range(Reverse(objects)) = Range(objects)
    BY <1>1, RangeOfReverse
  <2> QED BY <2>1 DEF objects
<1>4. /\ Script0002("up") = Each("create", objects \o function \o triggers)
      /\ Script0002("down") = Each("drop", triggers \o function \o back)
  BY DEF Script0002
<1>5. Whole = Range(objects) \cup {ViolationFunction} \cup Range(triggers)
  BY DEF Whole
<1> HIDE DEF S, objects, function, triggers, back
<1>6. Range(objects \o function \o triggers) = Whole
  BY <1>1, <1>2, <1>5, RangeOfThree
<1>7. Range(triggers \o function \o back) = Whole
  <2>1. Range(triggers \o function \o back) = Range(triggers) \cup Range(function) \cup Range(back)
    BY <1>1, <1>2, <1>3, RangeOfThree
  <2> QED BY <1>2, <1>3, <1>5, <2>1
<1> DEFINE up == objects \o function \o triggers
           down == triggers \o function \o back
<1>8. /\ Present(Range(Script0002("up"))) = catalogue \cup Range(up)
      /\ Present(Range(Script0002("down"))) =
           {o \in catalogue : o \notin Range(down) /\ Table(o.on) \notin Range(down)}
  BY <1>4, Creating, Dropping
<1> QED BY <1>6, <1>7, <1>8

LEMMA Script0001Is ==
  /\ Present(Range(Script0001("up"))) = catalogue \cup {Table("users")}
  /\ Present(Range(Script0001("down"))) =
       {o \in catalogue : o # Table("users") /\ Table(o.on) # Table("users")}
<1> DEFINE one == <<Table("users")>>
<1>1. Range(one) = {Table("users")}
  BY RangeOfOne
<1>2. Script0001("up") = Each("create", one) /\ Script0001("down") = Each("drop", one)
  BY DEF Script0001
<1> HIDE DEF one
<1> QED BY <1>1, <1>2, Creating, Dropping

-----------------------------------------------------------------------------
(* What each revision's catalogue holds.                                      *)
CatalogueIs ==
  /\ revision \in {"base", "0001", "0002"}
  /\ revision = "base" => catalogue = {}
  /\ revision = "0001" => catalogue = {Table("users")}
  /\ revision = "0002" => catalogue = {Table("users")} \cup Whole

LEMMA ObjectFields ==
  /\ \A kind, name, on : /\ Object(kind, name, on).kind = kind
                         /\ Object(kind, name, on).name = name
                         /\ Object(kind, name, on).on = on
  /\ \A t : Table(t).kind = "table" /\ Table(t).name = t /\ Table(t).on = t
  /\ \A t : Trigger(t).kind = "trigger" /\ Trigger(t).on = t
  /\ ViolationFunction.kind = "function"
BY DEF Object, Table, Trigger, ViolationFunction

LEMMA UsersApart == Table("users") \notin Whole
<1>1. Range(SchemaObjects) \subseteq ObjectsOn(Names)
  BY SchemaCover DEF Covers, Range
<1>2. Table("users") \notin ObjectsOn(Names)
  <2>1. "users" \notin Names
    BY DEF Names
  <2>2. \A o \in ObjectsOn(Names) : o.on \in Names
    BY ObjectFields DEF ObjectsOn
  <2> QED BY <2>1, <2>2, ObjectFields
<1>3. Table("users") \notin Range(AppendOnlyTriggers)
  BY TriggersCover, ObjectFields
<1>4. Table("users") # ViolationFunction
  BY ObjectFields
<1> QED BY <1>1, <1>2, <1>3, <1>4 DEF Whole

(* A database at revision 0002 has every table and the four triggers.         *)
AtRevision ==
  revision = "0002" =>
    /\ \A t \in Names \cup {"users"} : Table(t) \in catalogue
    /\ \A t \in Range(APPEND_ONLY_TABLES) : Trigger(t) \in catalogue

LEMMA CatalogueGivesAtRevision == CatalogueIs => AtRevision
<1>1. \A t \in Names : Table(t) \in Range(SchemaObjects)
  BY SchemaCover DEF Covers
<1> QED BY <1>1, TriggersCover DEF CatalogueIs, AtRevision, Whole

LEMMA CatalogueInit == Init => CatalogueIs
BY DEF Init, CatalogueIs

LEMMA CatalogueNext == CatalogueIs /\ [Next]_vars => CatalogueIs'
<1> SUFFICES ASSUME CatalogueIs, [Next]_vars PROVE CatalogueIs'
  OBVIOUS
<1> DEFINE u == Table("users")
<1>0. u.on = "users" /\ u \notin Whole
  BY ObjectFields, UsersApart
<1>1. CASE Upgrade
  <2>1. CASE Migrate("base", "0001", Script0001("up"))
    BY <2>1, Script0001Is DEF Migrate, CatalogueIs
  <2>2. CASE Migrate("0001", "0002", Script0002("up"))
    BY <2>2, Script0002Is DEF Migrate, CatalogueIs
  <2> QED BY <1>1, <2>1, <2>2 DEF Upgrade
<1>2. CASE Downgrade
  <2>1. CASE Migrate("0001", "base", Script0001("down"))
    BY <2>1, Script0001Is DEF Migrate, CatalogueIs
  <2>2. CASE Migrate("0002", "0001", Script0002("down"))
    <3>1. /\ revision' = "0001" /\ catalogue = {u} \cup Whole
          /\ catalogue' = {o \in catalogue : o \notin Whole /\ Table(o.on) \notin Whole}
      BY <2>2, Script0002Is DEF Migrate, CatalogueIs
    <3>2. Table(u.on) = u
      BY <1>0
    <3>3. catalogue' = {u}
      <4> HIDE DEF u
      <4> QED BY <1>0, <3>1, <3>2
    <3> QED BY <3>1, <3>3 DEF CatalogueIs
  <2> QED BY <1>2, <2>1, <2>2 DEF Downgrade
<1>3. CASE UNCHANGED <<revision, catalogue>>
  BY <1>3 DEF CatalogueIs
<1>4. ASSUME NEW r, NEW c, Insert(r) \/ Update(r, c) \/ Delete(r) \/ Truncate(r)
      PROVE  UNCHANGED <<revision, catalogue>>
  BY <1>4 DEF Insert, Update, Delete, Truncate
<1> QED BY <1>1, <1>2, <1>3, <1>4 DEF Next, vars

LEMMA TriggersOnLedger ==
  ASSUME AtRevision, revision = "0002", NEW t \in Range(APPEND_ONLY_TABLES),
         NEW event \in TriggerEvents, NEW hit
  PROVE  Raises(event, t, hit)
BY DEF AtRevision, Raises

LEMMA KeyFields ==
  ASSUME NEW t, NEW c, NEW g, NEW d
  PROVE  /\ Key(t, c, g, d).table = t /\ Key(t, c, g, d).column = c
         /\ Key(t, c, g, d).target = g /\ Key(t, c, g, d).on_delete = d
BY DEF Key

(* The keys that are not onto users.                                          *)
OntoUsers(k) == /\ k.target = "users" /\ k.table \in Names
                /\ k.on_delete = IF k.table = "audit_log" THEN "SET NULL" ELSE "CASCADE"
OntoInstances(k) == /\ k.target = "strategy_instances" /\ k.table \in {"signals", "intents"}
                    /\ k.on_delete = "CASCADE"
WithinLedger(k) == /\ k.table \in {"intents", "orders", "fills"} /\ k.on_delete = "RESTRICT"
                   /\ k.table = "orders" => k.target = "intents"

LEMMA UserKeysAre ==
  ASSUME NEW tables, NEW d, NEW k \in UserKeys(tables, d)
  PROVE  k.target = "users" /\ k.table \in tables /\ k.on_delete = d
BY KeyFields DEF UserKeys

LEMMA KeyCases ==
  ASSUME NEW k \in ForeignKeys
  PROVE  OntoUsers(k) \/ OntoInstances(k) \/ WithinLedger(k)
<1>1. ASSUME NEW tables, tables \subseteq Names, "audit_log" \notin tables,
             k \in UserKeys(tables, "CASCADE")
      PROVE  OntoUsers(k)
  <2>1. k.target = "users" /\ k.table \in tables /\ k.on_delete = "CASCADE"
    BY <1>1, UserKeysAre
  <2> QED BY <1>1, <2>1 DEF OntoUsers
<1> DEFINE A == {"user_wallets", "user_secrets", "subscriptions", "strategy_instances"}
           B == {"signals", "intents", "orders", "fills"}
           C == {"positions", "position_snapshots", "balances", "risk_state"}
           D == {"notifications", "redemptions"}
<1>2. /\ A \subseteq Names /\ B \subseteq Names /\ C \subseteq Names /\ D \subseteq Names
      /\ "audit_log" \notin A /\ "audit_log" \notin B
      /\ "audit_log" \notin C /\ "audit_log" \notin D
  BY DEF Names
<1>3. CASE k \in UserKeys(A, "CASCADE") \/ k \in UserKeys(B, "CASCADE")
           \/ k \in UserKeys(C, "CASCADE") \/ k \in UserKeys(D, "CASCADE")
  <2> HIDE DEF A, B, C, D
  <2> QED BY <1>1, <1>2, <1>3
<1>4. CASE k \in UserKeys({"audit_log"}, "SET NULL")
  <2>1. k.target = "users" /\ k.table \in {"audit_log"} /\ k.on_delete = "SET NULL"
    BY <1>4, UserKeysAre
  <2> QED BY <2>1 DEF OntoUsers, Names
<1>5. CASE \E t \in {"signals", "intents"} :
             k = Key(t, "strategy_instance_id", "strategy_instances", "CASCADE")
  <2>1. PICK t \in {"signals", "intents"} :
          k = Key(t, "strategy_instance_id", "strategy_instances", "CASCADE")
    BY <1>5
  <2>2. k.table = t /\ k.target = "strategy_instances" /\ k.on_delete = "CASCADE"
    BY <2>1, KeyFields
  <2> QED BY <2>2 DEF OntoInstances
<1>6. CASE k \in LedgerKeys
  <2>1. PICK t, c, g : /\ k = Key(t, c, g, "RESTRICT") /\ t \in {"intents", "orders", "fills"}
                       /\ t = "orders" => g = "intents"
    BY <1>6 DEF LedgerKeys
  <2>2. k.table = t /\ k.target = g /\ k.on_delete = "RESTRICT"
    BY <2>1, KeyFields
  <2> QED BY <2>1, <2>2 DEF WithinLedger
<1>7. \/ k \in UserKeys(A, "CASCADE") \/ k \in UserKeys(B, "CASCADE")
      \/ k \in UserKeys(C, "CASCADE") \/ k \in UserKeys(D, "CASCADE")
      \/ k \in UserKeys({"audit_log"}, "SET NULL")
      \/ \E t \in {"signals", "intents"} :
           k = Key(t, "strategy_instance_id", "strategy_instances", "CASCADE")
      \/ k \in LedgerKeys
  BY DEF ForeignKeys, AccountKeys, TradeKeys, BookKeys, RecordKeys
<1> QED BY <1>3, <1>4, <1>5, <1>6, <1>7

LEMMA KeyTables ==
  ASSUME NEW k \in ForeignKeys
  PROVE  /\ k.table # "users"
         /\ k.table = "strategy_instances" => k.target = "users"
         /\ k.on_delete = "SET NULL" => k.table = "audit_log"
         /\ k.on_delete \in {"CASCADE", "SET NULL", "RESTRICT"}
BY KeyCases DEF OntoUsers, OntoInstances, WithinLedger, Names

(* The keys that keep accounts where they are.                                *)
LEMMA SignalKeys ==
  ASSUME AtRevision, revision = "0002", NEW t \in {"users", "strategy_instances"}
  PROVE  \E k \in KeysOnto(t) : k.table = "signals" /\ k.on_delete = "CASCADE"
<1>1. Table("signals") \in catalogue
  BY DEF AtRevision, Names
<1>2. CASE t = "users"
  <2>1. Key("signals", "user_id", "users", "CASCADE") \in ForeignKeys
    BY DEF ForeignKeys, TradeKeys, UserKeys
  <2> QED BY <1>1, <1>2, <2>1, KeyFields DEF KeysOnto
<1>3. CASE t = "strategy_instances"
  <2>1. Key("signals", "strategy_instance_id", "strategy_instances", "CASCADE") \in ForeignKeys
    BY DEF ForeignKeys, TradeKeys
  <2> QED BY <1>1, <1>3, <2>1, KeyFields DEF KeysOnto
<1> QED BY <1>2, <1>3

-----------------------------------------------------------------------------
(* What a deletion takes along.                                               *)
LEMMA DoomedRows ==
  ASSUME NEW r \in rows, NEW x \in Doomed(r), x # r
  PROVE  x \in rows /\ \E y \in Doomed(r) : x \in Cascading(y)
<1> DEFINE next(S) == S \cup UNION {Cascading(y) : y \in S}
<1>1. Doomed(r) = next(next({r}))
  BY DEF Doomed
<1>2. \E y \in Doomed(r) : x \in Cascading(y)
  BY <1>1
<1>3. \A y : Cascading(y) \subseteq rows
  BY DEF Cascading, Referring
<1> QED BY <1>2, <1>3

(* A row that a deletion takes along, and one that it orphans, is in a table  *)
(* whose trigger would not raise.                                             *)
LEMMA DeletionSparesTheLedger ==
  ASSUME AtRevision, revision = "0002", NEW r \in rows, Delete(r)
  PROVE  /\ \A x \in Doomed(r) : x.table \notin Range(APPEND_ONLY_TABLES)
         /\ \A q \in rows : ~Orphaned(q, Doomed(r))
<1>0. /\ ~Raises("DELETE", r.table, {r})
      /\ \A x \in Doomed(r) : \A k \in KeysOnto(x.table) : Permits(k, x)
  BY DEF Delete
<1>1. ASSUME NEW x \in Doomed(r), x.table \in Range(APPEND_ONLY_TABLES) PROVE FALSE
  <2>1. CASE x = r
    BY <1>0, <1>1, <2>1, TriggersOnLedger DEF TriggerEvents
  <2>2. CASE x # r
    <3>1. PICK y \in Doomed(r) : x \in Cascading(y)
      BY <2>2, DoomedRows
    <3>2. PICK k \in KeysOnto(y.table) : k.on_delete = "CASCADE" /\ x \in Referring(k, y)
      BY <3>1 DEF Cascading
    <3>3. ~Raises("DELETE", k.table, Referring(k, y)) /\ x.table = k.table
      BY <1>0, <3>2 DEF Permits, Referring
    <3> QED BY <1>1, <3>3, TriggersOnLedger DEF TriggerEvents
  <2> QED BY <2>1, <2>2
<1>2. ASSUME NEW q \in rows, Orphaned(q, Doomed(r)) PROVE FALSE
  <2>0. PICK x \in Doomed(r) : \E k \in KeysOnto(x.table) :
          k.on_delete = "SET NULL" /\ q \in Referring(k, x)
    BY <1>2 DEF Orphaned
  <2>1. PICK k \in KeysOnto(x.table) : k.on_delete = "SET NULL" /\ q \in Referring(k, x)
    BY <2>0
  <2>2. ~Raises("UPDATE", k.table, Referring(k, x))
    BY <1>0, <2>1 DEF Permits
  <2>3. k.table = "audit_log"
    BY <2>1, KeyTables DEF KeysOnto
  <2> QED BY <2>2, <2>3, TriggersOnLedger, AppendOnlyNames DEF TriggerEvents
<1> QED BY <1>1, <1>2

LEMMA DeletionSparesAccounts ==
  ASSUME AtRevision, revision = "0002", NEW r \in rows, Delete(r), NEW x \in Doomed(r)
  PROVE  x.table \notin {"users", "strategy_instances"}
<1> SUFFICES ASSUME x.table \in {"users", "strategy_instances"} PROVE FALSE
  OBVIOUS
<1>1. PICK k \in KeysOnto(x.table) : k.table = "signals" /\ k.on_delete = "CASCADE"
  BY SignalKeys
<1>2. ~Raises("DELETE", "signals", Referring(k, x))
  BY <1>1 DEF Delete, Permits
<1> QED BY <1>2, TriggersOnLedger, AppendOnlyNames DEF TriggerEvents

LEMMA TruncationReaches ==
  ASSUME AtRevision, revision = "0002", NEW t,
         Dependents(t) \cap {"users", "strategy_instances"} # {}
  PROVE  "signals" \in Dependents(t)
<1> DEFINE next(S) == S \cup {k.table : k \in UNION {KeysOnto(u) : u \in S}}
           A == {"users", "strategy_instances"}
<1>1. Dependents(t) = next(next(next(next(next({t})))))
  BY DEF Dependents
<1>2. ASSUME NEW S, next(S) \cap A # {} PROVE S \cap A # {}
  <2>1. ASSUME NEW u \in S, NEW k \in KeysOnto(u), k.table \in A PROVE u \in A
    BY <2>1, KeyTables DEF KeysOnto
  <2> QED BY <1>2, <2>1
<1>3. ASSUME NEW S, S \cap A # {} PROVE "signals" \in next(S)
  <2>1. PICK u \in S : u \in A
    BY <1>3
  <2>2. PICK k \in KeysOnto(u) : k.table = "signals"
    BY <2>1, SignalKeys
  <2> QED BY <2>1, <2>2
<1> HIDE DEF next, A
<1> QED BY <1>1, <1>2, <1>3 DEF A

-----------------------------------------------------------------------------
LEMMA LedgerStep ==
  ASSUME AtRevision, [Next]_vars, revision = "0002", revision' = "0002",
         NEW r \in rows, r.table \in Range(APPEND_ONLY_TABLES)
  PROVE  r \in rows'
<1>1. CASE Upgrade \/ Downgrade
  BY <1>1 DEF Upgrade, Downgrade, Migrate
<1>2. ASSUME NEW q \in Rows, Insert(q) PROVE r \in rows'
  BY <1>2 DEF Insert
<1>3. ASSUME NEW q \in rows, NEW c, Update(q, c) PROVE r \in rows'
  <2>1. q # r
    BY <1>3, TriggersOnLedger DEF Update, TriggerEvents
  <2> QED BY <1>3, <2>1 DEF Update
<1>4. ASSUME NEW q \in rows, Delete(q) PROVE r \in rows'
  <2>1. r \in rows \ Doomed(q) /\ ~Orphaned(r, Doomed(q))
    BY <1>4, DeletionSparesTheLedger
  <2> QED BY <1>4, <2>1 DEF Delete
<1>5. ASSUME NEW t, Truncate(t) PROVE r \in rows'
  <2>1. r.table \notin Dependents(t)
    BY <1>5, TriggersOnLedger DEF Truncate, TriggerEvents
  <2> QED BY <1>5, <2>1 DEF Truncate
<1>6. CASE UNCHANGED vars
  BY <1>6 DEF vars
<1> QED BY <1>1, <1>2, <1>3, <1>4, <1>5, <1>6 DEF Next

LEMMA AccountStep ==
  ASSUME AtRevision, [Next]_vars, revision = "0002", revision' = "0002",
         NEW r \in rows, r.table \in {"users", "strategy_instances"},
         {"table", "id", "changed"} \subseteq DOMAIN r
  PROVE  \E q \in rows' : Identity(q) = Identity(r)
<1> SUFFICES ASSUME r \notin rows' PROVE \E q \in rows' : Identity(q) = Identity(r)
  OBVIOUS
<1>1. CASE Upgrade \/ Downgrade
  BY <1>1 DEF Upgrade, Downgrade, Migrate
<1>2. ASSUME NEW q \in Rows, Insert(q) PROVE FALSE
  BY <1>2 DEF Insert
<1>3. ASSUME NEW q \in rows, NEW c, Update(q, c) PROVE \E p \in rows' : Identity(p) = Identity(r)
  <2>1. q = r
    BY <1>3 DEF Update
  <2>2. [r EXCEPT !.cols = c, !.changed = TRUE] \in rows'
    BY <1>3, <2>1 DEF Update
  <2>3. Identity([r EXCEPT !.cols = c, !.changed = TRUE]) = Identity(r)
    BY DEF Identity
  <2> QED BY <2>2, <2>3
<1>4. ASSUME NEW q \in rows, Delete(q) PROVE FALSE
  <2>1. r \in rows \ Doomed(q) /\ ~Orphaned(r, Doomed(q))
    BY <1>4, DeletionSparesAccounts, DeletionSparesTheLedger
  <2> QED BY <1>4, <2>1 DEF Delete
<1>5. ASSUME NEW t, Truncate(t) PROVE FALSE
  <2>1. r.table \notin Dependents(t)
    <3> SUFFICES ASSUME r.table \in Dependents(t) PROVE FALSE
      OBVIOUS
    <3>1. "signals" \in Dependents(t)
      BY TruncationReaches
    <3> QED BY <1>5, <3>1, TriggersOnLedger, AppendOnlyNames DEF Truncate, TriggerEvents
  <2> QED BY <1>5, <2>1 DEF Truncate
<1>6. CASE UNCHANGED vars
  BY <1>6 DEF vars
<1> QED BY <1>1, <1>2, <1>3, <1>4, <1>5, <1>6 DEF Next

-----------------------------------------------------------------------------
(* Rows keep the columns they were inserted with.                             *)
Shaped == \A r \in rows : DOMAIN r = {"table", "id", "cols", "changed"}

LEMMA ShapedInit == Init => Shaped
BY DEF Init, Shaped

LEMMA ShapedNext == Shaped /\ [Next]_vars => Shaped'
<1> SUFFICES ASSUME Shaped, [Next]_vars, NEW r \in rows'
             PROVE  DOMAIN r = {"table", "id", "cols", "changed"}
  BY DEF Shaped
<1>1. CASE Upgrade \/ Downgrade
  BY <1>1 DEF Upgrade, Downgrade, Migrate, Shaped
<1>2. ASSUME NEW q \in Rows, Insert(q)
      PROVE  DOMAIN r = {"table", "id", "cols", "changed"}
  BY <1>2, RowsAssumption DEF Insert, Shaped
<1>3. ASSUME NEW q \in rows, NEW c, Update(q, c)
      PROVE  DOMAIN r = {"table", "id", "cols", "changed"}
  BY <1>3 DEF Update, Shaped
<1>4. ASSUME NEW q \in rows, Delete(q)
      PROVE  DOMAIN r = {"table", "id", "cols", "changed"}
  <2>1. PICK p \in rows : r = p \/ r = [p EXCEPT !.cols.user_id = Null]
    BY <1>4 DEF Delete
  <2> QED BY <2>1 DEF Shaped
<1>5. ASSUME NEW t, Truncate(t)
      PROVE  DOMAIN r = {"table", "id", "cols", "changed"}
  BY <1>5 DEF Truncate, Shaped
<1>6. CASE UNCHANGED vars
  BY <1>6 DEF vars, Shaped
<1> QED BY <1>1, <1>2, <1>3, <1>4, <1>5, <1>6 DEF Next

-----------------------------------------------------------------------------
(* Every row sits in a table that exists and is one that somebody inserted.   *)
KnownRows ==
  \A r \in rows : /\ Table(r.table) \in catalogue
                  /\ \E q \in Rows : Identity(q) = Identity(r)

LEMMA CatalogueGivesType == CatalogueIs /\ KnownRows => TypeOK
BY DEF CatalogueIs, KnownRows, TypeOK, Whole

LEMMA KnownRowsInit == Init => KnownRows
BY DEF Init, KnownRows

LEMMA KnownRowsNext == KnownRows /\ Shaped /\ [Next]_vars => KnownRows'
<1> SUFFICES ASSUME KnownRows, Shaped, [Next]_vars, NEW r \in rows'
             PROVE  /\ Table(r.table) \in catalogue'
                    /\ \E q \in Rows : Identity(q) = Identity(r)
  BY DEF KnownRows, Identity
<1> DEFINE Known == Table(r.table) \in catalogue' /\ \E q \in Rows : Identity(q) = Identity(r)
<1>1. CASE Upgrade \/ Downgrade
  BY <1>1 DEF Upgrade, Downgrade, Migrate, KnownRows
<1>2. ASSUME NEW q \in Rows, Insert(q) PROVE Known
  BY <1>2 DEF Insert, KnownRows
<1>3. ASSUME NEW p \in rows, NEW c,
             \/ r = p \/ r = [p EXCEPT !.cols = c, !.changed = TRUE]
             \/ r = [p EXCEPT !.cols.user_id = Null],
             UNCHANGED catalogue
      PROVE  Known
  <2>1. r.table = p.table /\ r.id = p.id
    BY <1>3 DEF Shaped
  <2> QED BY <1>3, <2>1 DEF KnownRows, Identity
<1>4. ASSUME NEW q \in rows, NEW c, Update(q, c) PROVE Known
  <2>1. r \in rows \/ r = [q EXCEPT !.cols = c, !.changed = TRUE]
    BY <1>4 DEF Update
  <2> QED BY <1>3, <1>4, <2>1 DEF Update
<1>5. ASSUME NEW q \in rows, Delete(q) PROVE Known
  <2>1. PICK p \in rows : r = p \/ r = [p EXCEPT !.cols.user_id = Null]
    BY <1>5 DEF Delete
  <2> QED BY <1>3, <1>5, <2>1 DEF Delete
<1>6. ASSUME NEW o, Truncate(o) PROVE Known
  BY <1>6 DEF Truncate, KnownRows
<1>7. CASE UNCHANGED vars
  BY <1>7 DEF vars, KnownRows
<1> QED BY <1>1, <1>2, <1>4, <1>5, <1>6, <1>7 DEF Next

(* What every reachable database keeps to: the catalogue of its revision, and *)
(* rows of the known shape and identity in tables that exist.                 *)
SchemaInv == CatalogueIs /\ Shaped /\ KnownRows

LEMMA SchemaInvHolds == Spec => []SchemaInv
<1>1. Init => SchemaInv
  BY CatalogueInit, ShapedInit, KnownRowsInit DEF SchemaInv
<1>2. SchemaInv /\ [Next]_vars => SchemaInv'
  BY CatalogueNext, ShapedNext, KnownRowsNext DEF SchemaInv
<1> QED BY <1>1, <1>2, PTL DEF Spec

(* After any sequence of upgrades, downgrades and statements a database has   *)
(* exactly the tables, indexes and triggers of the revision alembic has       *)
(* recorded (0001_create_users.py, 0002_full_schema.py), and every row sits   *)
(* in a table that exists and is one somebody inserted.                       *)
THEOREM TypeCorrect == Spec => []TypeOK
<1>1. SchemaInv => TypeOK
  BY CatalogueGivesType DEF SchemaInv
<1> QED BY <1>1, SchemaInvHolds, PTL

(* While the schema is at revision 0002, whatever is inserted, updated,       *)
(* deleted or truncated, on the append-only tables or on any table they hang  *)
(* from (0002_full_schema.py:556-564): signals, intents, fills and the audit  *)
(* trail lose no row and change none.                                         *)
THEOREM LedgerOnlyGrows == Spec => LedgerKept
<1>1. SchemaInv /\ [Next]_vars =>
        [revision = "0002" /\ revision' = "0002" =>
           {r \in rows : r.table \in Range(APPEND_ONLY_TABLES)} \subseteq rows']_vars
  BY LedgerStep, CatalogueGivesAtRevision DEF SchemaInv
<1> QED BY <1>1, SchemaInvHolds, PTL DEF Spec, LedgerKept

(* No user and no strategy instance ever disappears, because the cascade onto *)
(* signals is refused before it looks for rows (0002_full_schema.py:561).     *)
THEOREM AccountsStay == Spec => AccountsArePermanent
<1>1. SchemaInv /\ [Next]_vars =>
        [revision = "0002" /\ revision' = "0002" =>
           \A r \in rows : r.table \in {"users", "strategy_instances"} =>
             \E q \in rows' : Identity(q) = Identity(r)]_vars
  BY AccountStep, CatalogueGivesAtRevision DEF SchemaInv, Shaped
<1> QED BY <1>1, SchemaInvHolds, PTL DEF Spec, AccountsArePermanent

-----------------------------------------------------------------------------
(* The ledger: signals, the intents decided on them, the orders and fills.    *)
Traced ==
  /\ \A f \in In("fills") : /\ \E o \in In("orders") : f.cols.order_id = o.id
                            /\ \E n \in In("intents") : f.cols.intent_id = n.id
  /\ \A n \in In("intents") : \E s \in In("signals") : n.cols.signal_id = s.id
  /\ \A s \in In("signals") : \E u \in In("users") : s.cols.user_id = u.id

Once ==
  /\ \A n, m \in In("intents") : n.cols.signal_id = m.cols.signal_id => n = m
  /\ \A f, g \in In("fills") : f.cols.clob_fill_id = g.cols.clob_fill_id => f = g

LEMMA TracedKeys ==
  /\ Key("fills", "order_id", "orders", "RESTRICT") \in ForeignKeys
  /\ Key("fills", "intent_id", "intents", "RESTRICT") \in ForeignKeys
  /\ Key("intents", "signal_id", "signals", "RESTRICT") \in ForeignKeys
  /\ Key("signals", "user_id", "users", "CASCADE") \in ForeignKeys
<1>1. Key("signals", "user_id", "users", "CASCADE") \in ForeignKeys
  BY DEF ForeignKeys, TradeKeys, UserKeys
<1> QED BY <1>1 DEF ForeignKeys, LedgerKeys

LEMMA TracedColumns ==
  /\ <<"fills", "order_id">> \notin Nullable /\ <<"fills", "intent_id">> \notin Nullable
  /\ <<"intents", "signal_id">> \notin Nullable /\ <<"signals", "user_id">> \notin Nullable
  /\ <<"fills", "clob_fill_id">> \notin Nullable
BY DEF Nullable, NullableUser, NullableOrder, NullableAudit

(* A row that is inserted names a row that is there, if it may not name none. *)
LEMMA InsertNames ==
  ASSUME NEW r, Insert(r), NEW k \in ForeignKeys, k.table = r.table,
         <<r.table, k.column>> \notin Nullable
  PROVE  \E t \in In(k.target) : r.cols[k.column] = t.id
<1>1. k \in KeysOf(r.table) /\ k.column \in Columns(r.table)
  BY DEF KeysOf, Columns
<1>2. r.cols[k.column] # Null
  BY <1>1 DEF Insert, Admissible
<1> QED BY <1>1, <1>2 DEF Insert, Admissible, In

LEMMA InsertIsTraced ==
  ASSUME NEW r, Insert(r)
  PROVE  /\ r.table = "fills" => /\ \E o \in In("orders") : r.cols.order_id = o.id
                                 /\ \E n \in In("intents") : r.cols.intent_id = n.id
         /\ r.table = "intents" => \E s \in In("signals") : r.cols.signal_id = s.id
         /\ r.table = "signals" => \E u \in In("users") : r.cols.user_id = u.id
<1> DEFINE a == Key("fills", "order_id", "orders", "RESTRICT")
           b == Key("fills", "intent_id", "intents", "RESTRICT")
           c == Key("intents", "signal_id", "signals", "RESTRICT")
           d == Key("signals", "user_id", "users", "CASCADE")
<1>1. /\ a \in ForeignKeys /\ a.table = "fills" /\ a.column = "order_id" /\ a.target = "orders"
      /\ b \in ForeignKeys /\ b.table = "fills" /\ b.column = "intent_id"
      /\ b.target = "intents"
      /\ c \in ForeignKeys /\ c.table = "intents" /\ c.column = "signal_id"
      /\ c.target = "signals"
      /\ d \in ForeignKeys /\ d.table = "signals" /\ d.column = "user_id" /\ d.target = "users"
  BY TracedKeys, KeyFields
<1> HIDE DEF a, b, c, d
<1>2. ASSUME r.table = "fills"
      PROVE  /\ \E o \in In("orders") : r.cols.order_id = o.id
             /\ \E n \in In("intents") : r.cols.intent_id = n.id
  <2>1. <<r.table, a.column>> \notin Nullable /\ <<r.table, b.column>> \notin Nullable
    BY <1>1, <1>2, TracedColumns
  <2>2. /\ \E t \in In(a.target) : r.cols[a.column] = t.id
        /\ \E t \in In(b.target) : r.cols[b.column] = t.id
    BY <1>1, <1>2, <2>1, InsertNames
  <2> QED BY <1>1, <2>2
<1>3. ASSUME r.table = "intents" PROVE \E s \in In("signals") : r.cols.signal_id = s.id
  <2>1. <<r.table, c.column>> \notin Nullable
    BY <1>1, <1>3, TracedColumns
  <2>2. \E t \in In(c.target) : r.cols[c.column] = t.id
    BY <1>1, <1>3, <2>1, InsertNames
  <2> QED BY <1>1, <2>2
<1>4. ASSUME r.table = "signals" PROVE \E u \in In("users") : r.cols.user_id = u.id
  <2>1. <<r.table, d.column>> \notin Nullable
    BY <1>1, <1>4, TracedColumns
  <2>2. \E t \in In(d.target) : r.cols[d.column] = t.id
    BY <1>1, <1>4, <2>1, InsertNames
  <2> QED BY <1>1, <2>2
<1> QED BY <1>2, <1>3, <1>4

(* No two rows agree on a column that is unique and may not be null.          *)
LEMMA InsertIsNew ==
  ASSUME NEW r, Insert(r), NEW q \in rows, q.table = r.table
  PROVE  /\ r.table = "intents" => q.cols.signal_id # r.cols.signal_id
         /\ r.table = "fills" => q.cols.clob_fill_id # r.cols.clob_fill_id
<1>1. ASSUME NEW col, Unique(r.table, {col}) \in UniqueKeys, <<r.table, col>> \notin Nullable
      PROVE  q.cols[col] # r.cols[col]
  <2> DEFINE u == Unique(r.table, {col})
  <2>1. u.table = r.table /\ u.columns = {col}
    BY DEF Unique
  <2> HIDE DEF u
  <2>2. col \in Columns(r.table)
    BY <1>1, <2>1 DEF Columns, u
  <2>3. r.cols[col] # Null
    BY <1>1, <2>2 DEF Insert, Admissible
  <2>4. ~AgreeOn(q, r, u.columns)
    BY <1>1, <2>1 DEF Insert, Admissible, u
  <2> QED BY <2>1, <2>3, <2>4 DEF AgreeOn
<1>2. /\ Unique("intents", {"signal_id"}) \in UniqueKeys
      /\ Unique("fills", {"clob_fill_id"}) \in UniqueKeys
  BY DEF UniqueKeys, LedgerUniques
<1>3. <<"intents", "signal_id">> \notin Nullable /\ <<"fills", "clob_fill_id">> \notin Nullable
  BY TracedColumns
<1> QED BY <1>1, <1>2, <1>3

(* An order with a fill cannot go: RESTRICT refuses to delete it, and the     *)
(* trigger on fills refuses to truncate it.                                   *)
LEMMA OrderKeys ==
  ASSUME NEW k \in ForeignKeys, k.table = "orders"
  PROVE  k.target \in {"users", "intents"}
BY KeyCases DEF OntoUsers, OntoInstances, WithinLedger

LEMMA FillsHoldOrders ==
  ASSUME AtRevision, revision = "0002"
  PROVE  \E k \in KeysOnto("orders") : /\ k.table = "fills" /\ k.on_delete = "RESTRICT"
                                       /\ k.column = "order_id"
<1> DEFINE k == Key("fills", "order_id", "orders", "RESTRICT")
<1>1. /\ k \in ForeignKeys /\ k.table = "fills" /\ k.target = "orders"
      /\ k.on_delete = "RESTRICT" /\ k.column = "order_id"
  BY TracedKeys, KeyFields
<1>2. Table("fills") \in catalogue
  BY DEF AtRevision, Names
<1> HIDE DEF k
<1> QED BY <1>1, <1>2 DEF KeysOnto

LEMMA TruncationSparesOrders ==
  ASSUME AtRevision, revision = "0002", NEW t, Truncate(t)
  PROVE  "orders" \notin Dependents(t)
<1> DEFINE next(S) == S \cup {k.table : k \in UNION {KeysOnto(u) : u \in S}}
           B == {"users", "intents"}
<1>1. Dependents(t) = next(next(next(next(next({t})))))
  BY DEF Dependents
<1>2. \A x \in Dependents(t) : x \notin Range(APPEND_ONLY_TABLES)
  BY TriggersOnLedger DEF Truncate, TriggerEvents
<1>3. "users" \notin Dependents(t)
  <2>1. SUFFICES ASSUME "users" \in Dependents(t) PROVE FALSE
    OBVIOUS
  <2>2. "signals" \in Dependents(t)
    BY <2>1, TruncationReaches
  <2> QED BY <1>2, <2>2, AppendOnlyNames
<1>4. Dependents(t) \cap B = {} /\ "fills" \notin Dependents(t)
  BY <1>2, <1>3, AppendOnlyNames
<1>5. ASSUME NEW S, "orders" \in next(S) PROVE "orders" \in S \/ S \cap B # {}
  <2>1. ASSUME NEW u \in S, NEW k \in KeysOnto(u), k.table = "orders" PROVE u \in B
    BY <2>1, OrderKeys DEF KeysOnto
  <2> QED BY <1>5, <2>1
<1>6. ASSUME NEW S, "orders" \in S PROVE "fills" \in next(S)
  <2>1. PICK k \in KeysOnto("orders") : k.table = "fills"
    BY FillsHoldOrders
  <2> QED BY <1>6, <2>1
<1>7. \A S : S \subseteq next(S)
  OBVIOUS
<1> DEFINE s0 == {t}  s1 == next(s0)  s2 == next(s1)  s3 == next(s2)  s4 == next(s3)
           s5 == next(s4)
<1>8. Dependents(t) = s5
  BY <1>1
<1> HIDE DEF next, B, s0
<1>9. s4 \subseteq s5 /\ s3 \subseteq s4 /\ s2 \subseteq s3 /\ s1 \subseteq s2 /\ s0 \subseteq s1
  BY <1>7
<1>10. ASSUME "orders" \in s5 PROVE FALSE
  <2>1. "fills" \notin s5 /\ s5 \cap B = {}
    BY <1>4, <1>8
  <2>2. "orders" \in s4
    BY <1>5, <1>9, <1>10, <2>1
  <2> QED BY <1>6, <2>1, <2>2
<1> QED BY <1>8, <1>10

LEMMA OrderStep ==
  ASSUME AtRevision, [Next]_vars, revision = "0002", revision' = "0002",
         NEW o \in rows, o.table = "orders", {"table", "id", "changed"} \subseteq DOMAIN o,
         NEW f \in rows, f.table = "fills", f.cols.order_id = o.id
  PROVE  \E q \in rows' : Identity(q) = Identity(o)
<1> SUFFICES ASSUME o \notin rows' PROVE \E q \in rows' : Identity(q) = Identity(o)
  OBVIOUS
<1>1. CASE Upgrade \/ Downgrade
  BY <1>1 DEF Upgrade, Downgrade, Migrate
<1>2. ASSUME NEW q \in Rows, Insert(q) PROVE FALSE
  BY <1>2 DEF Insert
<1>3. ASSUME NEW q \in rows, NEW c, Update(q, c) PROVE \E p \in rows' : Identity(p) = Identity(o)
  <2>1. q = o
    BY <1>3 DEF Update
  <2>2. [o EXCEPT !.cols = c, !.changed = TRUE] \in rows'
    BY <1>3, <2>1 DEF Update
  <2>3. Identity([o EXCEPT !.cols = c, !.changed = TRUE]) = Identity(o)
    BY DEF Identity
  <2> QED BY <2>2, <2>3
<1>4. ASSUME NEW q \in rows, Delete(q) PROVE FALSE
  <2>1. o \in Doomed(q)
    <3>1. SUFFICES ASSUME o \notin Doomed(q) PROVE FALSE
      OBVIOUS
    <3>2. o \in rows \ Doomed(q) /\ ~Orphaned(o, Doomed(q))
      BY <1>4, <3>1, DeletionSparesTheLedger
    <3> QED BY <1>4, <3>2 DEF Delete
  <2>2. PICK k \in KeysOnto("orders") : /\ k.table = "fills" /\ k.on_delete = "RESTRICT"
                                        /\ k.column = "order_id"
    BY FillsHoldOrders
  <2>3. Permits(k, o)
    BY <1>4, <2>1, <2>2 DEF Delete
  <2>4. Referring(k, o) = {}
    BY <2>2, <2>3 DEF Permits
  <2>5. f \in Referring(k, o)
    BY <2>2 DEF Referring
  <2> QED BY <2>4, <2>5
<1>5. ASSUME NEW t, Truncate(t) PROVE FALSE
  <2>1. o.table \notin Dependents(t)
    BY <1>5, TruncationSparesOrders
  <2> QED BY <1>5, <2>1 DEF Truncate
<1>6. CASE UNCHANGED vars
  BY <1>6 DEF vars
<1> QED BY <1>1, <1>2, <1>3, <1>4, <1>5, <1>6 DEF Next

(* A row of the ledger was there before, unless it has just been inserted.    *)
LEMMA LedgerGains ==
  ASSUME AtRevision, Shaped, [Next]_vars, revision = "0002", revision' = "0002",
         NEW r \in rows', r.table \in Range(APPEND_ONLY_TABLES)
  PROVE  r \in rows \/ (Insert(r) /\ rows' = rows \cup {r})
<1>1. CASE Upgrade \/ Downgrade
  BY <1>1 DEF Upgrade, Downgrade, Migrate
<1>2. ASSUME NEW q \in Rows, Insert(q) PROVE r \in rows \/ (Insert(r) /\ rows' = rows \cup {r})
  <2>1. rows' = rows \cup {q}
    BY <1>2 DEF Insert
  <2>2. r \in rows \/ r = q
    BY <2>1
  <2> QED BY <1>2, <2>1, <2>2
<1>3. ASSUME NEW q \in rows, NEW c, Update(q, c) PROVE r \in rows
  <2>1. r \in rows \/ r = [q EXCEPT !.cols = c, !.changed = TRUE]
    BY <1>3 DEF Update
  <2>2. [q EXCEPT !.cols = c, !.changed = TRUE].table = q.table
    BY DEF Shaped
  <2>3. q.table \notin Range(APPEND_ONLY_TABLES)
    BY <1>3, TriggersOnLedger DEF Update, TriggerEvents
  <2> QED BY <2>1, <2>2, <2>3
<1>4. ASSUME NEW q \in rows, Delete(q) PROVE r \in rows
  BY <1>4, DeletionSparesTheLedger DEF Delete
<1>5. ASSUME NEW t, Truncate(t) PROVE r \in rows
  BY <1>5 DEF Truncate
<1>6. CASE UNCHANGED vars
  BY <1>6 DEF vars
<1> QED BY <1>1, <1>2, <1>3, <1>4, <1>5, <1>6 DEF Next

(* Below revision 0002 there is no ledger, and none is carried over.          *)
LEMMA NoLedgerBelow ==
  ASSUME SchemaInv, [Next]_vars, ~(revision = "0002" /\ revision' = "0002"),
         NEW r \in rows', r.table \in Range(APPEND_ONLY_TABLES)
  PROVE  FALSE
<1>1. "users" \notin Range(APPEND_ONLY_TABLES)
  BY AppendOnlyNames
<1>2. \A t : Table(t) = Table("users") => t = "users"
  <2>1. SUFFICES ASSUME NEW t, Table(t) = Table("users") PROVE t = "users"
    OBVIOUS
  <2>2. Table(t).name = t /\ Table("users").name = "users"
    BY ObjectFields
  <2> QED BY <2>1, <2>2
<1>3. ASSUME CatalogueIs, KnownRows, revision # "0002", NEW q \in rows
      PROVE  q.table = "users"
  <2>1. catalogue \subseteq {Table("users")}
    BY <1>3 DEF CatalogueIs
  <2> QED BY <1>2, <1>3, <2>1 DEF KnownRows
<1>4. CatalogueIs' /\ KnownRows'
  BY CatalogueNext, KnownRowsNext DEF SchemaInv
<1>5. CASE revision' # "0002"
  <2>1. catalogue' \subseteq {Table("users")}
    BY <1>4, <1>5 DEF CatalogueIs
  <2> QED BY <1>1, <1>2, <1>4, <2>1 DEF KnownRows
<1>6. CASE revision # "0002" /\ revision' = "0002"
  <2>1. Upgrade \/ Downgrade
    <3>1. ASSUME NEW q, NEW c, Insert(q) \/ Update(q, c) \/ Delete(q) \/ Truncate(q)
          PROVE  UNCHANGED revision
      BY <3>1 DEF Insert, Update, Delete, Truncate
    <3> QED BY <1>6, <3>1 DEF Next, vars
  <2>2. r \in rows
    BY <2>1 DEF Upgrade, Downgrade, Migrate
  <2>3. r.table = "users"
    BY <1>3, <1>6, <2>2 DEF SchemaInv
  <2> QED BY <1>1, <2>3
<1> QED BY <1>5, <1>6

LEMMA TracedInit == Init => Traced /\ Once
BY DEF Init, Traced, Once, In

LEMMA TracedNext == SchemaInv /\ Traced /\ [Next]_vars => Traced'
<1> SUFFICES ASSUME SchemaInv, Traced, [Next]_vars PROVE Traced'
  OBVIOUS
<1>1. CASE ~(revision = "0002" /\ revision' = "0002")
  <2>1. \A r \in rows' : r.table \notin Range(APPEND_ONLY_TABLES)
    BY <1>1, NoLedgerBelow
  <2>2. \A r \in rows' : r.table \notin {"signals", "intents", "fills"}
    BY <2>1, AppendOnlyNames
  <2> QED BY <2>2 DEF Traced, In
<1>2. CASE revision = "0002" /\ revision' = "0002"
  <2>1. AtRevision /\ Shaped
    BY CatalogueGivesAtRevision DEF SchemaInv
  <2>2. ASSUME NEW r \in rows', r.table \in {"signals", "intents", "fills"}
        PROVE  r \in rows \/ (Insert(r) /\ rows' = rows \cup {r})
    <3>1. r.table \in Range(APPEND_ONLY_TABLES)
      BY <2>2, AppendOnlyNames
    <3> QED BY <1>2, <2>1, <3>1, LedgerGains
  <2>3. ASSUME NEW r \in rows, r.table \in {"signals", "intents"}
        PROVE  r \in rows'
    <3>1. r.table \in Range(APPEND_ONLY_TABLES)
      BY <2>3, AppendOnlyNames
    <3> QED BY <1>2, <2>1, <3>1, LedgerStep
  <2>4. ASSUME NEW u \in rows, u.table = "users"
        PROVE  \E v \in rows' : v.table = "users" /\ v.id = u.id
    <3>1. \E v \in rows' : Identity(v) = Identity(u)
      BY <1>2, <2>1, <2>4, AccountStep DEF Shaped
    <3> QED BY <2>4, <3>1 DEF Identity
  <2>5. ASSUME NEW f \in rows, f.table = "fills", NEW o \in rows, o.table = "orders",
               f.cols.order_id = o.id
        PROVE  \E q \in rows' : q.table = "orders" /\ q.id = o.id
    <3>1. \E q \in rows' : Identity(q) = Identity(o)
      BY <1>2, <2>1, <2>5, OrderStep DEF Shaped
    <3> QED BY <2>5, <3>1 DEF Identity
  <2>6. ASSUME NEW f \in rows', f.table = "fills"
        PROVE  /\ \E o \in rows' : o.table = "orders" /\ f.cols.order_id = o.id
               /\ \E n \in rows' : n.table = "intents" /\ f.cols.intent_id = n.id
    <3>1. CASE f \in rows
      <4>1. PICK o \in rows : o.table = "orders" /\ f.cols.order_id = o.id
        BY <2>6, <3>1 DEF Traced, In
      <4>2. PICK n \in rows : n.table = "intents" /\ f.cols.intent_id = n.id
        BY <2>6, <3>1 DEF Traced, In
      <4>3. \E q \in rows' : q.table = "orders" /\ q.id = o.id
        BY <2>5, <2>6, <3>1, <4>1
      <4>4. n \in rows'
        BY <2>3, <4>2
      <4> QED BY <4>1, <4>2, <4>3, <4>4
    <3>2. CASE Insert(f) /\ rows' = rows \cup {f}
      BY <2>6, <3>2, InsertIsTraced DEF In
    <3> QED BY <2>2, <2>6, <3>1, <3>2
  <2>7. ASSUME NEW n \in rows', n.table = "intents"
        PROVE  \E s \in rows' : s.table = "signals" /\ n.cols.signal_id = s.id
    <3>1. CASE n \in rows
      <4>1. PICK s \in rows : s.table = "signals" /\ n.cols.signal_id = s.id
        BY <2>7, <3>1 DEF Traced, In
      <4> QED BY <2>3, <4>1
    <3>2. CASE Insert(n) /\ rows' = rows \cup {n}
      BY <2>7, <3>2, InsertIsTraced DEF In
    <3> QED BY <2>2, <2>7, <3>1, <3>2
  <2>8. ASSUME NEW s \in rows', s.table = "signals"
        PROVE  \E u \in rows' : u.table = "users" /\ s.cols.user_id = u.id
    <3>1. CASE s \in rows
      <4>1. PICK u \in rows : u.table = "users" /\ s.cols.user_id = u.id
        BY <2>8, <3>1 DEF Traced, In
      <4>2. \E v \in rows' : v.table = "users" /\ v.id = u.id
        BY <2>4, <4>1
      <4> QED BY <4>1, <4>2
    <3>2. CASE Insert(s) /\ rows' = rows \cup {s}
      BY <2>8, <3>2, InsertIsTraced DEF In
    <3> QED BY <2>2, <2>8, <3>1, <3>2
  <2> QED BY <2>6, <2>7, <2>8 DEF Traced, In
<1> QED BY <1>1, <1>2

LEMMA OnceNext == SchemaInv /\ Once /\ [Next]_vars => Once'
<1> SUFFICES ASSUME SchemaInv, Once, [Next]_vars,
                    NEW a \in rows', NEW b \in rows', a.table = b.table
             PROVE  /\ a.table = "intents" /\ a.cols.signal_id = b.cols.signal_id => a = b
                    /\ a.table = "fills" /\ a.cols.clob_fill_id = b.cols.clob_fill_id => a = b
  BY DEF Once, In
<1>1. CASE a.table \notin {"intents", "fills"}
  BY <1>1
<1>2. CASE a.table \in {"intents", "fills"}
  <2>0. a.table \in Range(APPEND_ONLY_TABLES) /\ b.table \in Range(APPEND_ONLY_TABLES)
    BY <1>2, AppendOnlyNames
  <2>1. revision = "0002" /\ revision' = "0002"
    BY <2>0, NoLedgerBelow
  <2>2. AtRevision /\ Shaped
    BY CatalogueGivesAtRevision DEF SchemaInv
  <2>3. a \in rows \/ (Insert(a) /\ rows' = rows \cup {a})
    BY <2>0, <2>1, <2>2, LedgerGains
  <2>4. b \in rows \/ (Insert(b) /\ rows' = rows \cup {b})
    BY <2>0, <2>1, <2>2, LedgerGains
  <2>5. CASE a \in rows /\ b \in rows
    BY <2>5 DEF Once, In
  <2>6. CASE a \notin rows
    <3>1. Insert(a) /\ (b = a \/ b \in rows)
      BY <2>3, <2>6
    <3>2. CASE b \in rows
      BY <3>1, <3>2, InsertIsNew
    <3> QED BY <3>1, <3>2
  <2>7. CASE b \notin rows
    <3>1. Insert(b) /\ (b = a \/ a \in rows)
      BY <2>4, <2>7
    <3>2. CASE a \in rows
      BY <3>1, <3>2, InsertIsNew
    <3> QED BY <3>1, <3>2
  <2> QED BY <2>5, <2>6, <2>7
<1> QED BY <1>1, <1>2

LEMMA TracedGives == Traced /\ Once => LedgerTraced
<1> SUFFICES ASSUME Traced, Once PROVE LedgerTraced
  OBVIOUS
<1>1. ASSUME NEW f \in In("fills")
      PROVE  \E o \in In("orders"), n \in In("intents"), s \in In("signals"), u \in In("users") :
               /\ f.cols.order_id = o.id /\ f.cols.intent_id = n.id
               /\ n.cols.signal_id = s.id /\ s.cols.user_id = u.id
  <2>1. PICK o \in In("orders") : f.cols.order_id = o.id
    BY DEF Traced
  <2>2. PICK n \in In("intents") : f.cols.intent_id = n.id
    BY DEF Traced
  <2>3. PICK s \in In("signals") : n.cols.signal_id = s.id
    BY DEF Traced
  <2>4. PICK u \in In("users") : s.cols.user_id = u.id
    BY DEF Traced
  <2> QED BY <2>1, <2>2, <2>3, <2>4
<1> QED BY <1>1 DEF Once, LedgerTraced

(* Whatever users, instances or orders anybody deletes or truncates, every    *)
(* fill leads to its order, its intent, the intent's signal and its user; a   *)
(* signal is decided at most once and a fill of the venue booked at most once *)
(* (0002_full_schema.py:253-340).                                             *)
THEOREM FillsAreTraced == Spec => []LedgerTraced
<1>1. SchemaInv /\ Traced /\ Once /\ [Next]_vars => Traced' /\ Once'
  BY TracedNext, OnceNext
<1>2. Traced /\ Once => LedgerTraced
  BY TracedGives
<1> QED BY <1>1, <1>2, TracedInit, SchemaInvHolds, PTL DEF Spec
=============================================================================
