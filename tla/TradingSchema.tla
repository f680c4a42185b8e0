---------------------------- MODULE TradingSchema ---------------------------
(***************************************************************************)
(* The database of shared/db: the tables, indexes and triggers that        *)
(* migrations 0001 and 0002 create, the foreign and unique keys, and what a *)
(* row can and cannot go through under them.  A row has an id and the      *)
(* columns a key mentions; its other data is the flag "changed".           *)
(*                                                                         *)
(*   Upgrade, Downgrade   alembic runs the next script, in a transaction   *)
(*   Insert               repository.add, or any other INSERT that the     *)
(*                        constraints admit                                *)
(*   Update               an UPDATE of any column but the id               *)
(*   Delete               DELETE of one row, with its referential actions  *)
(*   Truncate             TRUNCATE ... CASCADE of a table                  *)
(*                                                                         *)
(* A statement that raises is rolled back, so it is no action.             *)
(***************************************************************************)
EXTENDS Integers, Sequences, SequencesExt

CONSTANTS Rows,             \* the rows anybody may try to insert
          Null

ASSUME RowsAssumption ==
  \A r \in Rows : DOMAIN r = {"table", "id", "cols", "changed"} /\ ~r.changed

VARIABLES revision,         \* the revision alembic has recorded
          catalogue,        \* the tables, indexes, triggers and the function there are
          rows

vars == <<revision, catalogue, rows>>

-----------------------------------------------------------------------------
(* What the scripts create.  An index, like a trigger, is on one table.       *)
Object(kind, name, on) == [kind |-> kind, name |-> name, on |-> on]

Table(t) == Object("table", t, t)
Trigger(t) == Object("trigger", "append_only", t)
ViolationFunction == Object("function", "raise_append_only_violation", Null)

(* A table and then its indexes, each named by what follows the table's name. *)
Indexed(t, indexes) ==
  <<Table(t)>> \o [i \in DOMAIN indexes |-> Object("index", indexes[i], t)]

AccountObjects ==
  Indexed("user_wallets", <<"user_id", "user_address">>)
    \o Indexed("user_secrets", <<"user_scope">>)
    \o Indexed("subscriptions", <<>>)
    \o Indexed("strategy_instances", <<"user_status", "user_strategy">>)

LedgerObjects ==
  Indexed("signals", <<"user_emitted_at", "instance_emitted_at">>)
    \o Indexed("intents", <<"user_decided_at", "signal_id">>)
    \o Indexed("orders", <<"user_status", "intent_id", "clob_order_id">>)
    \o Indexed("fills", <<"user_filled_at", "order_id", "clob_fill_id">>)

BookObjects ==
  Indexed("positions", <<>>)
    \o Indexed("position_snapshots", <<"user_snapshot_at", "user_market_token_snapshot_at">>)
    \o Indexed("balances", <<>>)
    \o Indexed("risk_state", <<>>)

RecordObjects ==
  Indexed("audit_log", <<"user_created_at", "action_created_at">>)
    \o Indexed("notifications", <<"user_created_at", "status_created_at">>)
    \o Indexed("redemptions", <<"user_redeemed_at", "tx_hash">>)

SchemaObjects == AccountObjects \o LedgerObjects \o BookObjects \o RecordObjects

APPEND_ONLY_TABLES == <<"signals", "intents", "fills", "audit_log">>

-----------------------------------------------------------------------------
Key(table, column, target, on_delete) ==
  [table |-> table, column |-> column, target |-> target, on_delete |-> on_delete]

(* Every table of 0002 belongs to a user; only the audit trail may outlive it. *)
UserKeys(tables, on_delete) == {Key(t, "user_id", "users", on_delete) : t \in tables}

AccountKeys ==
  UserKeys({"user_wallets", "user_secrets", "subscriptions", "strategy_instances"}, "CASCADE")

TradeKeys ==
  UserKeys({"signals", "intents", "orders", "fills"}, "CASCADE")
    \cup {Key(t, "strategy_instance_id", "strategy_instances", "CASCADE") :
            t \in {"signals", "intents"}}

(* Faulty: a fill's order is just a number. *)
LedgerKeysWithoutOrder ==
  {Key("intents", "signal_id", "signals", "RESTRICT"),
   Key("orders", "intent_id", "intents", "RESTRICT"),
   Key("fills", "intent_id", "intents", "RESTRICT")}

LedgerKeys ==
  {Key("intents", "signal_id", "signals", "RESTRICT"),
   Key("orders", "intent_id", "intents", "RESTRICT"),
   Key("fills", "order_id", "orders", "RESTRICT"),
   Key("fills", "intent_id", "intents", "RESTRICT")}

BookKeys ==
  UserKeys({"positions", "position_snapshots", "balances", "risk_state"}, "CASCADE")

RecordKeys ==
  UserKeys({"audit_log"}, "SET NULL") \cup UserKeys({"notifications", "redemptions"}, "CASCADE")

ForeignKeys == AccountKeys \cup TradeKeys \cup LedgerKeys \cup BookKeys \cup RecordKeys

KeysOf(table) == {k \in ForeignKeys : k.table = table}
KeysOnto(table) ==
  {k \in ForeignKeys : k.target = table /\ Table(k.table) \in catalogue}

(* Unique indexes, columns and composite primary keys; "id" is unique anyway. *)
Unique(table, columns) == [table |-> table, columns |-> columns]

UserUniques == {Unique("users", {"email"}), Unique("users", {"auth_provider_sub"})}
AccountUniques ==
  {Unique("user_wallets", {"user_id", "address"}), Unique("user_secrets", {"user_id", "scope"}),
   Unique("subscriptions", {"user_id"}), Unique("subscriptions", {"stripe_customer_id"})}
LedgerUniques ==
  {Unique("intents", {"signal_id"}), Unique("orders", {"clob_order_id"}),
   Unique("fills", {"clob_fill_id"})}
BookUniques ==
  {Unique("positions", {"user_id", "market_id", "token_id"}),
   Unique("balances", {"user_id", "asset"}), Unique("risk_state", {"user_id"})}
RecordUniques == {Unique("redemptions", {"tx_hash"})}

UniqueKeys ==
  UserUniques \cup AccountUniques \cup LedgerUniques \cup BookUniques \cup RecordUniques

(* The columns a key mentions, and which of them may be null. *)
Columns(table) == {k.column : k \in KeysOf(table)}
                    \cup UNION {u.columns : u \in {v \in UniqueKeys : v.table = table}}
NullableUser == <<"users", "auth_provider_sub">>
NullableOrder == <<"orders", "clob_order_id">>
NullableAudit == <<"audit_log", "user_id">>
Nullable == {NullableUser, NullableOrder, NullableAudit}

-----------------------------------------------------------------------------
Statement(op, object) == [op |-> op, object |-> object]
Each(op, objects) == [i \in DOMAIN objects |-> Statement(op, objects[i])]
AppendOnlyTriggers == [i \in DOMAIN APPEND_ONLY_TABLES |-> Trigger(APPEND_ONLY_TABLES[i])]

(* Faulty: the tables are dropped before their indexes. *)
Script0002TablesFirst(direction) ==
  LET back(kind) == SelectSeq(Reverse(SchemaObjects), LAMBDA o : o.kind = kind)
  IN  IF direction = "up"
      THEN Each("create", SchemaObjects \o <<ViolationFunction>> \o AppendOnlyTriggers)
      ELSE Each("drop", AppendOnlyTriggers \o <<ViolationFunction>>
                          \o back("table") \o back("index"))

(* Faulty: one table is forgotten in the downgrade. *)
Script0002KeepingBalances(direction) ==
  IF direction = "up"
  THEN Each("create", SchemaObjects \o <<ViolationFunction>> \o AppendOnlyTriggers)
  ELSE Each("drop", AppendOnlyTriggers \o <<ViolationFunction>>
                      \o Remove(Reverse(SchemaObjects), Table("balances")))

Script0002(direction) ==
  IF direction = "up"
  THEN Each("create", SchemaObjects \o <<ViolationFunction>> \o AppendOnlyTriggers)
  ELSE Each("drop", AppendOnlyTriggers \o <<ViolationFunction>> \o Reverse(SchemaObjects))

Script0001(direction) ==
  Each(IF direction = "up" THEN "create" ELSE "drop", <<Table("users")>>)

(* What an object is built on. *)
Needs(o) ==
  CASE o.kind = "table"    -> {Table(k.target) : k \in KeysOf(o.name)}
    [] o.kind = "index"    -> {Table(o.on)}
    [] o.kind = "trigger"  -> {Table(o.on), ViolationFunction}
    [] o.kind = "function" -> {}

(* What is there once the statements of "done" have run, which create or drop *)
(* but never both.  With a table goes what is on the table.                   *)
Objects(op, done) == {s.object : s \in {t \in done : t.op = op}}
Present(done) ==
  LET gone == Objects("drop", done)
  IN  {o \in catalogue \cup Objects("create", done) : o \notin gone /\ Table(o.on) \notin gone}

(* CREATE OR REPLACE and DROP ... IF EXISTS ask for nothing to be there.      *)
Admits(present, s) ==
  \/ /\ s.op = "create"
     /\ s.object \in present => s.object.kind = "function"
     /\ Needs(s.object) \subseteq present
  \/ /\ s.op = "drop"
     /\ s.object \notin present => s.object.kind \in {"trigger", "function"}
     /\ \A o \in present : s.object \in Needs(o) => s.object = Table(o.on)

(* The statements of a script that the database would refuse. *)
Refused(script) ==
  {i \in DOMAIN script : ~Admits(Present({script[j] : j \in 1..(i - 1)}), script[i])}

Init == /\ revision = "base"
        /\ catalogue = {}
        /\ rows = {}

Migrate(from, to, script) ==
  /\ revision = from
  /\ Refused(script) = {}
  /\ revision' = to
  /\ catalogue' = Present(Range(script))
  /\ rows' = {r \in rows : Table(r.table) \in catalogue'}

Upgrade == \/ Migrate("base", "0001", Script0001("up"))
           \/ Migrate("0001", "0002", Script0002("up"))
Downgrade == \/ Migrate("0001", "base", Script0001("down"))
             \/ Migrate("0002", "0001", Script0002("down"))

-----------------------------------------------------------------------------
(* Faulty: a whole table may still be emptied. *)
TriggerEventsWithoutTruncate == {"UPDATE", "DELETE"}

TriggerEvents == {"UPDATE", "DELETE", "TRUNCATE"}

(* Faulty: on UPDATE and DELETE the triggers are FOR EACH ROW, so that they   *)
(* see only the rows that are hit.                                            *)
RaisesPerRow(event, table, hit) ==
  Trigger(table) \in catalogue /\ event \in TriggerEvents
    /\ (event = "TRUNCATE" \/ hit # {})

(* The triggers are FOR EACH STATEMENT: a statement on the table raises       *)
(* whichever rows it would hit, even none.                                    *)
Raises(event, table, hit) == Trigger(table) \in catalogue /\ event \in TriggerEvents

Referring(k, r) == {c \in rows : c.table = k.table /\ c.cols[k.column] = r.id}

(* A null agrees with nothing. *)
AgreeOn(r, q, columns) ==
  \A col \in columns : r.cols[col] = q.cols[col] /\ r.cols[col] # Null

(* What not-null columns, foreign keys and unique keys ask of a row that joins *)
(* the others.                                                                *)
Admissible(r, others) ==
  /\ \A col \in Columns(r.table) : r.cols[col] = Null => <<r.table, col>> \in Nullable
  /\ \A k \in KeysOf(r.table) :
       \/ r.cols[k.column] = Null
       \/ \E t \in others : t.table = k.target /\ t.id = r.cols[k.column]
  /\ \A u \in UniqueKeys : u.table = r.table =>
       \A q \in others : q.table = r.table => ~AgreeOn(q, r, u.columns)

Insert(r) ==
  /\ Table(r.table) \in catalogue
  /\ \A q \in rows : q.table = r.table => q.id # r.id
  /\ Admissible(r, rows)
  /\ rows' = rows \cup {r}
  /\ UNCHANGED <<revision, catalogue>>

Update(r, cols) ==
  LET new == [r EXCEPT !.cols = cols, !.changed = TRUE]
  IN  /\ ~Raises("UPDATE", r.table, {r})
      /\ Admissible(new, rows \ {r})
      /\ rows' = (rows \ {r}) \cup {new}
      /\ UNCHANGED <<revision, catalogue>>

Cascading(r) ==
  UNION {Referring(k, r) : k \in {j \in KeysOnto(r.table) : j.on_delete = "CASCADE"}}

(* The rows that go with r: cascades run from a user over its strategy        *)
(* instances to their signals and intents, two levels at most.                *)
Doomed(r) ==
  LET next(S) == S \cup UNION {Cascading(x) : x \in S}
  IN  next(next({r}))

(* A referential action is a statement on the referring table. *)
Permits(k, r) ==
  CASE k.on_delete = "RESTRICT" -> Referring(k, r) = {}
    [] k.on_delete = "CASCADE"  -> ~Raises("DELETE", k.table, Referring(k, r))
    [] k.on_delete = "SET NULL" -> ~Raises("UPDATE", k.table, Referring(k, r))

Orphaned(r, S) ==
  \E x \in S : \E k \in KeysOnto(x.table) :
    k.on_delete = "SET NULL" /\ r \in Referring(k, x)

Delete(r) ==
  LET gone == Doomed(r)
  IN  /\ ~Raises("DELETE", r.table, {r})
      /\ \A x \in gone : \A k \in KeysOnto(x.table) : Permits(k, x)
      /\ rows' = {IF Orphaned(q, gone) THEN [q EXCEPT !.cols.user_id = Null] ELSE q :
                    q \in rows \ gone}
      /\ UNCHANGED <<revision, catalogue>>

(* The tables that refer to a table, directly or through others: from users   *)
(* over instances, signals, intents and orders to fills, five levels at most. *)
Dependents(table) ==
  LET next(S) == S \cup {k.table : k \in UNION {KeysOnto(t) : t \in S}}
  IN  next(next(next(next(next({table})))))

In(table) == {r \in rows : r.table = table}

Truncate(table) ==
  /\ Table(table) \in catalogue
  /\ \A t \in Dependents(table) : ~Raises("TRUNCATE", t, In(t))
  /\ rows' = {r \in rows : r.table \notin Dependents(table)}
  /\ UNCHANGED <<revision, catalogue>>

Next ==
  \/ Upgrade
  \/ Downgrade
  \/ \E r \in Rows : Insert(r)
  \/ \E r \in rows : \E q \in Rows : q.table = r.table /\ Update(r, q.cols)
  \/ \E r \in rows : Delete(r)
  \/ \E o \in catalogue : o.kind = "table" /\ Truncate(o.name)

Spec == Init /\ [][Next]_vars

-----------------------------------------------------------------------------
Identity(r) == <<r.table, r.id>>

(* Type invariant: every revision has exactly its tables, indexes and         *)
(* triggers, and a row is one of the known rows in a table that exists.       *)
TypeOK ==
  /\ revision \in {"base", "0001", "0002"}
  /\ revision = "base" => catalogue = {}
  /\ revision = "0001" => catalogue = {Table("users")}
  /\ revision = "0002" =>
       catalogue = {Table("users"), ViolationFunction} \cup Range(SchemaObjects)
                     \cup Range(AppendOnlyTriggers)
  /\ \A r \in rows : /\ Table(r.table) \in catalogue
                     /\ \E q \in Rows : Identity(q) = Identity(r)

(* The ledger can be traced: every fill leads to one order, one intent and    *)
(* one signal of an existing user; a signal was decided once and a fill of    *)
(* the venue was booked once, whatever else was deleted meanwhile.            *)
LedgerTraced ==
  /\ \A f \in In("fills") :
       \E o \in In("orders"), n \in In("intents"), s \in In("signals"), u \in In("users") :
         /\ f.cols.order_id = o.id /\ f.cols.intent_id = n.id
         /\ n.cols.signal_id = s.id /\ s.cols.user_id = u.id
  /\ \A n, m \in In("intents") : n.cols.signal_id = m.cols.signal_id => n = m
  /\ \A f, g \in In("fills") : f.cols.clob_fill_id = g.cols.clob_fill_id => f = g

(* What signals, intents, fills and the audit trail have recorded stays as it *)
(* is until the schema is downgraded: no UPDATE, DELETE or TRUNCATE, on those *)
(* tables or on any table they hang from, changes or removes a row.           *)
LedgerKept ==
  [][revision = "0002" /\ revision' = "0002" =>
       {r \in rows : r.table \in Range(APPEND_ONLY_TABLES)} \subseteq rows']_vars

(* Because the triggers fire per statement, the cascades declared on users    *)
(* and strategy_instances can never run: neither a user nor an instance is    *)
(* ever removed, not even one that never traded.                              *)
AccountsArePermanent ==
  [][revision = "0002" /\ revision' = "0002" =>
       \A r \in rows : r.table \in {"users", "strategy_instances"} =>
         \E q \in rows' : Identity(q) = Identity(r)]_vars

(* From every revision the scripts run through to the neighbouring ones: no   *)
(* table or index is created before, or dropped after, what it is built on,   *)
(* none is dropped twice, and the function outlives its triggers.             *)
MigrationsSucceed ==
  /\ revision = "base" => Refused(Script0001("up")) = {}
  /\ revision = "0001" => Refused(Script0001("down")) = {} /\ Refused(Script0002("up")) = {}
  /\ revision = "0002" => Refused(Script0002("down")) = {}
=============================================================================
