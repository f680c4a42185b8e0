# Saas-Poly: a TLA+ development

Saas-Poly is the Python core of a multi-tenant trading service for Polymarket
binary markets. A strategy emits a **signal**; the risk engine runs it through
eighteen gates and builds an **intent**; the execution engine turns the intent
into an **order** and, on paper, a **fill**; reconciliation books the fill into
a **position** and a USDC **balance**. The services are asyncio coroutines that
talk through an in-memory event bus and injected store and provider protocols;
a PostgreSQL schema with append-only triggers keeps the record.

This directory holds TLA+ modules of that core, TLC configurations that check
them on small instances, and proofs checked by TLAPS. All line numbers refer to
the repository's `src/`.

    Signal --> RiskEngine.evaluate --> Intent --> PaperExecutionEngine.submit
                 | reads RiskContext                 | awaits a book snapshot
                 |                                   v
    positions, balances <-- ReconciliationEngine.apply <-- Fill (fill.received)

    InMemoryEventBus   carries envelopes between the services
    HeartbeatCoroutine keeps the venue's session alive, self-fences when late
    shared/db          tables, keys and append-only triggers under all of it

## 1. Inventory

One paragraph per component: state, operations, interactions, what is hard, and
what makes it correct. `PROJECT.json` lists the same components with their
status, and every hazard at its line.

**Reconciliation** (`services/reconciliation/engine.py`, `position_math.py`).
State: the position store and the balance store behind two protocols with `get`
and `upsert`. One operation, `apply(fill)`: read the position, compute the
update, write it, read the balance, write it. Four awaits, no lock, no
transaction, and no memory of the fills already applied. Hard: two applies in
flight at once, an apply that breaks off between or after its writes, an
event that is delivered again, and the rounding of a weighted average carried
into realized PnL. Correct when a delivery moves holding and cash together and
once, never in part, and no money appears.

**Paper execution** (`services/execution/engine.py`, `paper_filler.py`). State:
the in-memory set of seen signal ids. One operation, `submit(intent)`: answer
None for a seen signal; otherwise claim it, await the book provider, and build
an order and perhaps a fill. Hard: two submits of one signal while the first
waits for its book, a provider that raises after the claim, a restart that
empties the set, prices and sizes finer than a tick. Correct when a signal
yields one order and the fill stays within the intent and the cash reserved.

**Heartbeat** (`services/execution/heartbeat.py`). State: the time of the last
beat and a stop event. `run` beats, waits for the interval or for `stop`, and
calls `on_miss` when the window has closed. Hard: the event loop resumes it
late, a beat takes long or raises, `stop` arrives anywhere. Correct when it
self-fences exactly if the window was missed, and ends when stopped.

**Event bus** (`shared/events/bus.py`). State: a list of bounded asyncio queues
per stream. `subscribe` adds a queue; `publish` takes a snapshot of the list and
puts into one queue after the other. Hard: waiting on a full queue while others
race for the slot, a publish cancelled half way, subscribers that come late or
stop reading. Correct when each subscriber of the snapshot gets each message
once, in its publisher's order, and nobody sleeps on a free slot.

**Risk gates and risk engine** (`services/risk_engine/`). No state of their own;
a `RiskContext` answers what user, switches, market, exposures, position,
balance and clock are at the moment it is asked. `evaluate` runs the gates in
order up to the first rejection. Hard: every answer is from another moment;
three gates combine two reads; caps are evaluated for a full fill at the limit
while the real fill is partial and rounded. Correct when an approval is backed
by the world and the approved order cannot breach what was checked.

**Domain records and money math** (`shared/domain`,
`shared/polymarket/decimal_helpers.py`). Frozen records and quantizers that
round towards zero. They appear as the records and helpers of the modules above.

**Schema and migrations** (`shared/db`). State: sixteen tables, their foreign
and unique keys, twenty-three indexes, four statement-level append-only triggers. Operations: two
migrations up and down and whatever statements the services send. Hard: a row
reached by a cascade or a truncation of another table; scripts that drop what
others depend on. Correct when the ledger is traceable and stays as recorded.

**Repositories** (`shared/db/repositories`): one query each, scoped by a
`WHERE user_id`; `add` is an insert. **Strategy contract**
(`strategies/_base/strategy.py`): a protocol with no implementation here.
**Risk primitives** (`shared/risk_primitives`): signatures that raise
`NotImplementedError`. **Gamma client** (`shared/polymarket/gamma.py`): HTTP and
parsing of an external API. **Telemetry**: counters nothing reads. **API and
configuration**: a health endpoint and settings. The packages
`services/{billing,marketdata,notifier,redeemer,scanner,strategies}` are empty.

## 2. Modules

| Module | Models | Used by |
|---|---|---|
| `PositionMath` | `position_math.py`: cost average, reduce, close, flip, balance | `Reconciliation` |
| `Ledger` | nothing in the code: the abstract promise of reconciliation | `Reconciliation` (refinement) |
| `Reconciliation` | `ReconciliationEngine.apply` await by await | `TradingPipeline` |
| `DecimalHelpers` | the quantizers | `PaperFiller` |
| `PaperFiller` | `simulate_fill` | `PaperExecution`, `RiskGates` |
| `PaperExecution` | `PaperExecutionEngine.submit` | `TradingPipeline` |
| `Heartbeat` | `HeartbeatCoroutine` in discrete time | |
| `EventBus` | `InMemoryEventBus` over `asyncio.Queue` | |
| `RiskGates` | the eighteen gates as predicates | `RiskEngine`, `TradingPipeline` |
| `RiskEngine` | `RiskEngine.evaluate` in a moving world | |
| `TradingPipeline` | one user's signals through gates, executor and reconciliation | |
| `TradingSchema` | tables, keys, triggers, migrations | |

Eight modules hold theorems (section 5). `ReconciliationProofs`,
`PaperExecutionProofs`, `HeartbeatProofs`, `EventBusProofs`,
`RiskEngineProofs`, `TradingPipelineProofs` and `TradingSchemaProofs` each
extend the module in their name; the pipeline's takes the executor's and
reconciliation's theorems over as instances. `SumTheorems` is about no
component: it holds the lemmas on sums over finite sets that the accounts of
reconciliation and of the pipeline need.

An `MC...` module only supplies values for the constants of the module it
extends. Definitions whose comment begins with "Faulty:" are the mutated forms
of the definition after them; no specification uses them, and `PROJECT.json`
says which property each of them breaks.

**How state and actions correspond to the code.** The unit of atomicity is the
asyncio one: what happens between two awaits is one action, and every await is a
place where others may run.

- `Reconciliation`. `positions` and `balances` are the two stores. A worker is
  an asyncio task inside `apply`; `pc` names the await it is suspended at,
  `prior` and `priorBalance` are its local variables. `StartApply`,
  `WritePosition`, `ReadBalance` are the segments that end in lines 59, 68 and 77
  of `engine.py`; `WriteBalance` is the effect of the last `upsert` (85) and
  `Finish` its return, so that there is a moment at which the balance is written
  and the call is not over. `RejectFill` is the `ValueError` of
  `position_math.py`. Who calls `apply` is not in the repository: `Receive` (a
  worker takes an event), `AbortApply` (a store call raises, before or after its
  effect, or the process dies, at any of the awaits, and the event is lost or
  comes again as another delivery of the same fill) and the condition `OnePerUser`
  are the environment's. `apply` knows neither fills nor deliveries from one
  another, so a fill is booked as often as it is delivered; the histories
  `posted`, `paid` and `raised` hold deliveries, and `overlapped` those that were
  in flight together with another of their user. Money is in integers: lots,
  ticks, and averages in `1/AvgScale` ticks rounded half-even. The Decimal
  context of the code rounds half-even too, at 28 digits, and rounds sums and
  products as well as quotients; integers stand for amounts that fit in them.
- `PaperExecution`. A call is `new`, `awaiting_book`, and then `ordered`,
  `raised`, `duplicate` or `lost`. The claim (`engine.py:58-60`) and the
  suspension at the provider (`:62`) are one action, the rest of `submit` is
  another. Raw units are finer than ticks, so `quantize_*` really lose something.
- `Heartbeat`. Time is relative: `age` is `clock() - last_beat_at`, `timer` the
  time spent at the current await. `MaxLag` is how late the event loop may
  resume a ready coroutine, `MaxBeat` and `MaxMiss` how long a beat and a call of
  `on_miss` may take; either may return or raise (`BeatRaises`, `MissRaises`).
- `EventBus`. The bus takes its lock but never awaits while it holds it, so it
  is not a state. `putters` and `woken` are the waiters of `asyncio.Queue`: the
  queue is a library and is modelled from how `bus.py` uses it. A woken put
  resumes later and may find the slot taken.
- `RiskEngine`. `ctx` is the world the `RiskContext` reads; `WorldMoves` changes
  all of it at once between two reads. Gates 6 to 8 read a snapshot and then the
  clock, in two steps; every other gate decides in one. `held` and `failed`
  record which gates' conditions were true or false at some moment, `offered`
  which snapshots a gate could have been given.
- `TradingPipeline` composes `RiskGates` with `Exec`, an instance of
  `PaperExecution` whose calls are the evaluations and whose intents are built
  from their signals, and `Recon`, an instance of `Reconciliation` for one user
  and one token whose fills are the executor's. `Deliver` hands a signal, new or
  seen before, to `evaluate`; `Screen`, `CheckCap` and `CheckFunds` are gates 1
  to 14, gate 15 and gates 16 to 18: of everything a gate reads, only the record
  of decisions (gate 4), the position (15) and the balance (18) are written by
  the pipeline itself, so each stage holds one read that can be overtaken.
  `Submit` and `Answer` are `Exec`'s actions, `Book` is `Recon`'s. The loops that
  connect the services are not in the repository. They are modelled as external,
  as freely as possible: `Record` brings a decision to the store that gate 4
  reads at any time after it was taken, before the order, after it or never
  (`evaluate` itself only writes telemetry); `Publish` turns a fill that
  `submit` returned into an event; `HandOver` is the consumer that calls `apply`.
  `Crash` ends the one process: stores and recorded decisions survive; claims,
  suspended calls, published events and decisions not yet recorded do not. The
  environment is restricted in three ways: the deployment has at most `lanes`
  signals in flight; it applies the user's fills one at a time (`OnePerUser`), and
  an apply breaks off, without its event coming again, only in the crash;
  exposures per strategy and user, which no service of the repository writes,
  stay as they are.
- `TradingSchema`. A script is the sequence of its statements, in the scripts'
  order: every `create_table`, `create_index`, function and trigger of `upgrade`
  and each of the 43 statements of `downgrade`. The catalogue is the set of
  objects there are; a statement is refused if what it needs is missing, if it
  creates what exists, or drops what is gone (dropping a table takes its indexes
  and triggers along, so an index dropped after its table is refused). The
  scripts only create or only drop, which is what `Present` uses. A row is a
  table, an id, the columns a key mentions, and one flag for everything else;
  tables whose primary key is made of other columns are given an id too. `Insert`
  asks what the keys ask and that no key column is null but the three that may
  be (`Nullable`). `Update` may change every column, those of keys included, but
  the id. `Delete` carries out the referential actions of the keys; each is a
  statement on the referring table and so fires that table's statement trigger.
  What PostgreSQL does is modelled as external. CHECK constraints are left out,
  and the predicates of the two partial indexes: one only says that nulls are not
  compared, as they never are, the other is not unique.

## 3. Runs

All runs use small model values; bounds are constants with "bound" in their
declaration. Twelve runs, four of which show a disagreement between the code and
its own documentation.

**`recon_books`**. Eight fills of two users and two tokens, two workers, applies
of one user never overlapping (`OnePerUser`), no aborts. The fills open, grow,
cut, close and flip a position from both sides at prices whose averages do not
divide evenly, share cash across tokens, and include a zero-size fill that is
refused; TLC takes them in every order. Applies of different users touch
different keys, so this run says what the arithmetic and the four store calls
do when left alone; overlaps are the next run's. Shows: the four store calls are
one atomic settlement of the `Ledger` (`LedgerSpec`); cash, cost and PnL account
for every unit up to half a unit of rounding per share and fill
(`MoneyConserved`); an average lies between the prices paid
(`AverageWithinFillPrices`); PnL comes only from reducing
(`PnLOnlyWhenReducing`); every fill is booked or refused (`EveryFillSettles`; that
a worker goes on after a refusal is the environment's part).

**`recon_redelivery`**. Four fills, two workers whose applies may overlap for one
user, and up to two aborts at any await, the one after the balance write
included, the fill lost or delivered once more. Two aborts let two fills break
off once each, in every combination of awaits. Two overlapping applies do lose an
update here. `CashHoldsWholeFills` and `SharesHoldWholeFills` say how much: a
total is the opening one and whole deliveries, each once, out of those booked,
and one that is missing overlapped another of its user. Nothing is booked in
part, twice, or lost without an overlap; section 6 says what is not promised.

**`exec_submit`**. Three concurrent submits of two signals, one approved twice;
books with off-tick prices, sub-micro depth, empty sides; failing lookups; one
restart. Three calls allow a claim, a duplicate and a claim in the next run of
the process. `DuplicateHasOwner` asks for another call that claimed the signal,
in this run or an earlier one: an engine that remembered its claims across a
restart would satisfy it. Shows `OneClaimPerRun`, `DuplicateHasOwner`, `FillWithinIntent`,
`CostWithinReserve`.

**`exec_restart`** (violated: `OneOrderPerSignal`). `engine.py:5-6` promises
that two intents with one signal id never produce two orders. The set of seen
ids is in memory, so across a restart they do.

**`heartbeat`**. Interval 5 s, threshold 8 s (the defaults), lag up to 6 s (so
that the margin of 3 s can be respected or overstepped), beats up to 4 s and
`on_miss` up to 3 s, each of which may raise. Shows
that it fences only when it was suspended past the threshold
(`NoNeedlessFence`), always when it overslept (`OversleepingFences`), never
beats out of turn (`NoBeatOutOfTurn`), ends when stopped (`StopEnds`), and keeps
going otherwise (`KeepsBeating`).

**`beat_slow`** (violated: `NoMissGoesUnnoticed`). Beats up to 12 s. The
docstring (`heartbeat.py:6-7`) says a missed window triggers `on_miss`; a beat
that outlasts the threshold and then returns resets the clock unnoticed.

**`bus`**. Two publishers with two messages each, two subscribers, two streams,
queues of size one, one cancelled publish, one subscriber that may stop reading.
Queues of one make every second put wait; two publishers make overtaking
possible; two streams and late subscriptions make the snapshot matter. Shows
`NoLostWakeup`, `ExactlyOnce`, `PublisherOrder`, `EveryPublishEnds`,
`EveryMessageYielded`.

**`bus_backpressure`** (violated: `PublishNeverWaits`). `bus.py:60-61` says a
full queue surfaces as `QueueFull`; `put` waits instead.

**`pipeline`**. Two families of scenarios. *Boundary worlds*: one signal of any
size and price around every cap, over portfolios on both sides of every limit,
books of every width and depth, and everything that forbids trading; all
eighteen gates decide. *Crowds*: two signals that compete for the position's cap and for the cash, over
a deep book, a paper-thin one and a failing lookup, with one crash anywhere and
decisions recorded early, late or never: two deliveries with two in flight,
three with one in flight, and for two purchases three with two. Three deliveries
let a signal come back after another one has been booked, and two lanes make
every check stale once; a third lane only repeats the overshoot of the second.
Shows how far position and balance can leave what the gates allow: by one
maximal order for each further lane (`PositionWithinCap`, `NeverOverdrawn`); that
a signal is ordered twice only by two runs of the process and only if the first
decision was never recorded (`OrderedAgainOnlyUnrecorded`): within a run the
executor's claim keeps it out, across runs gate 4 does, if it has been told; that
an approved order meeting the book the gates saw fills in full
(`FilledInFull`); and that every delivered signal settles unless the process
dies (`EverySignalSettles`; a lookup that raises ends the signal's way with an
exception, which counts). After a crash a fill may be lost between the
executor and the books, or booked in the position and not in the balance; no
property claims otherwise.

**`risk_moving`**. Five gates, one of each kind of read, while clock, book,
cooldown, kill switch and balance change up to three times between any two
reads. Shows that an approval met every gate at some moment of the evaluation,
gate 8 excepted (`ApprovalWasJustified`), and that a rejection has a cause
(`RejectionWasJustified`): the rejecting gate failed at some moment, or, for a
freshness gate, a snapshot on offer during the evaluation has gone out of date.
The second case is real: data that was fresh when read, and was refreshed before
the clock was read, is rejected. The other gates read like one of the five, so
adding them adds states, not behaviours.

**`risk_cooldown`** (violated: `CooldownRespected`). Gate 8 compares a cooldown
read before the await of the clock with the clock read after it. A cooldown that
is extended in between is missed: the market was in cooldown at every moment and
the signal is approved. Two moves of the world suffice.

**`schema`**. Both migrations up and down over every state that fifteen rows
can be in: a user with an instance, a signal decided twice, an intent submitted
twice, a fill reported twice, a position, audit rows with and without a user,
a user who only signed up, and an instance that might change hands.
Each foreign-key rule, each unique key of the
ledger and each trigger is exercised by some row; updates may give a row the
columns of any other of its table. Shows that no statement of a script is refused
(`MigrationsSucceed`; the scripts meet three catalogues, of the three revisions,
and `TypeOK` says there is no other), `LedgerTraced`, `LedgerKept`, and that no account can ever be deleted
(`AccountsArePermanent`; section 6).

**Type invariants** (`TypeOK`) carry, beside the types, the consistency the
other properties lean on: who may have a fill, who waits where, which decisions
belong to which gate.

**Deadlock** is not checked: each system stops when its work is done (all fills
booked, all calls made, `run` returned, the decision taken, all messages sent).
That work really ends is what the liveness properties say.

## 4. Fairness

Safety needs none. Liveness assumes weak fairness only, of steps that the
asyncio loop or the environment takes without anyone's choice:

- `Reconciliation`: the stores answer (`Step`), and a waiting event is
  eventually handed to a free worker.
- `Heartbeat`: a ready coroutine is resumed, callbacks end, time passes. Not
  that anybody calls `stop`, nor that a beat succeeds.
- `EventBus`: a woken put resumes, and a subscriber that has not given up takes
  its next message. Nothing is assumed of publishing, subscribing or giving up.
- `TradingPipeline`: reads, lookups and stores answer (`Advance`, `Book`), and
  the consumer takes a published fill (`HandOver`). No signal need be delivered
  and no crash need happen or not happen.

No strong fairness is used. A put can be overtaken again and again only by
publishes, and there are finitely many.

## 5. Proofs

Every theorem is proved for all values of the constants that satisfy the named
`ASSUME`s; further hypotheses are written in the theorem. All follow one
pattern: an inductive invariant `IInv` is established by `Init` and preserved by
every action (one step per action), and implies the property.

**`SumTheorems`** — a sum (`SumFunctionOnSet`) is defined by a recursion that
takes off an arbitrary element at a time, over subsets. The lemmas show that the
recursion has a solution, that the order does not matter, and how a sum changes
when an element is added (`SumAdd`) or its term changes (`SumChange`), and that
`k` terms that are not zero, none above `m`, sum up to at most `k * m`
(`SumOfFew`). Induction on the size of the set is replaced by a smallest
subset that breaks the claim (`LeastBreach`).

**`ReconciliationProofs`** — any workers, fills, users, tokens and `AvgScale`.
- `TypeCorrect`: `TypeOK`. One lemma per arithmetic operator.
- `ImplementsLedger`: `OnePerUser` and no aborts imply `LedgerSpec`. The
  refinement maps `settled` to the fills whose position was written and `cash`
  to the balance with the one unpaid fill of its user applied; `WritePosition`
  is the ledger's `Settle`, `WriteBalance` a stutter. Needs that two suspended
  applies never work for one user (`AppliesApart`), that what an apply has read
  is still what its store holds (`NoStaleRead`), and that a delivery is waiting,
  in one worker's hands or done, never two of these (`InOnePlace`).
- `CashIsWhole` and `SharesAreWhole`: `CashHoldsWholeFills` and
  `SharesHoldWholeFills`, with no hypothesis at all. The invariant (`WholeInv`)
  says of the value a suspended apply has read what it says of the store's: it
  holds whole deliveries, and misses none but overlapped ones and those that
  were booked beside it, which makes them overlapped.
- `CashIsAccountedFor`: with `OnePerUser` nothing overlaps, so the balance is
  exactly the opening cash and every delivery paid (`CashIsExact`), for any
  number of aborts, after the balance write as well as before it.
- `AveragesAreBacked`: `AverageWithinFillPrices`, with no hypothesis at all:
  overlapping and aborted applies included. The invariant says of the position a
  suspended apply has read what it says of the store's (`Priced`), since booked
  fills are never unbooked. Rests on `RoundHalfEvenBounds` (rounding a quotient
  never crosses a whole number) and `CostAverageBounds`.
- `OnlyReducingRealizes`: `OnePerUser` implies `PnLOnlyWhenReducing`.
- `MoneyIsConserved`: `OnePerUser`, no aborts and finitely many tokens imply
  `MoneyConserved`. A user's equity moves, with each posted fill, by the fee and
  at most half a unit of average cost per share of the position; the position is
  never larger than the volume of the fills behind it; and while a fill is
  posted and not yet paid, the balance is short of just that fill.

**`PaperExecutionProofs`** — any calls, intents, books and restarts. It begins
with lemmas on rounding, size, price and fee of a fill, for any ticks, fee rate
and book (`FillBounds`), and on its cost (`CostBound`).
- `ClaimsAreUnique`, `RefusalsAreOwned`: the invariant ties `seen` to the calls
  of the present run that claimed it.
- `OrdersAreUnique`: `OneOrderPerSignal` if `MaxRestarts = 0`; with restarts it
  is false (`exec_restart`).
- `FillsStayWithin`, `CostsAreReserved`: a fill is what `simulate_fill` gives the
  intent from an answered book; then the lemmas above. `TypeCorrect`.

**`HeartbeatProofs`** — any interval, threshold, lag and duration.
`TypeCorrect`; `FencesOnlyWhenLate` and `BeatsInTurn`; `NeverFencesOnTime`: with
`Interval + MaxLag <= Threshold` it never fences. The invariant (`AgeByStage`)
bounds the age of the last beat at each await by the time spent there.

**`EventBusProofs`** — any finite set of publishers, any subscribers, streams
and queue size.
- `TypeCorrect` (the bound of every queue, and everybody waiting where their
  publish got to) needs that a publisher is in a queue's waiting list once and
  not while woken (`OnceWaiting`).
- `WakeupsAreKept`: `NoLostWakeup`, by counting free slots against woken
  publishers over each action.
- `PublishersStayInOrder` and `DeliveredExactlyOnce`: `PublisherOrder` and
  `ExactlyOnce`. One invariant serves both (`GivenInv`): a snapshot names a queue
  once; a queue that was given a message is not among those its publish has
  still to come to (`GivenWasDue`), so the next message given to it is later; and
  a subscriber of the snapshot has the message or is still to come
  (`DueIsGiven`). In a list in its publishers' order a message stands once.

**`RiskEngineProofs`** — any list of gates, signals and changes of the world.
`TypeCorrect`; `ApprovalsAreJustified` and `RejectionsAreJustified`: every
decision so far is backed by the history of the world (`DecisionsAreBacked`),
a snapshot under evaluation was the world's at some moment, and a snapshot that
is out of date stays so (`FreshnessFades`).

**`TradingPipelineProofs`** — any scenarios, deliveries, lanes and crashes.
- `ExecutorInside`: `Spec => Exec!Spec`. Every step of the pipeline is a step of
  the executor or a stutter of it, so its theorems carry over; `TypeCorrect`.
- `SignalsAreOrderedOnce`: `OrderedAgainOnlyUnrecorded` over any number of
  crashes and for any time of recording. A crash settles which earlier decisions
  are recorded (`RecordsSettled`); a signal past gate 4 was not claimed by an
  earlier run that recorded it (`ClearedIsNew`), so a later run does not claim
  what such a run has claimed (`RunsClaimApart`).
- `CapIsKept`: `PositionWithinCap`, and `NothingIsOverdrawn`: `NeverOverdrawn` if
  `FeeNum <= FeeDen` (a sale whose fee exceeded its proceeds would overdraw by
  itself), both for any number of lanes. Not inductive as they stand: what is in
  the stores says nothing of the orders on their way to them. The invariant adds
  those up: the position and all that the orders past gate 15 on one side can
  still take of it stay within the bound (`RoomReserved`), likewise the balance
  and the orders past gate 18 (`CashReserved`). When a gate lets an order pass
  it has compared it with the store alone; at most `lanes - 1` others are in
  flight (`LanesKept`), and none is larger than the largest order the gates
  admit (`ScreenedAreSound`), so `SumOfFew` bounds what they add.
- `OrdersFillInFull`: `FilledInFull`, from `ScreenedAreSound`: an evaluation past
  gate 14 has a signal that met gates 9, 12 and 14. Gate 12 asks for depth
  at least the signal's size on the side the order trades against.

**`TradingSchemaProofs`** — any rows.
- `TypeCorrect`: `TypeOK`. The catalogue after a script is the set of what its
  statements create, or what they leave (`Script0002Is`, `Script0001Is`), which
  needs that the tables and indexes of `SchemaObjects` are all of the schema's
  (`SchemaCover`). `MigrationsSucceed` has no parameter: the scripts are fixed and
  TLC's evaluation over the three catalogues is complete, so it is not proved
  again.
- `LedgerOnlyGrows`: `LedgerKept`, and `AccountsStay`: `AccountsArePermanent`. A
  deletion that goes through takes along no row of a table with a trigger
  (`DeletionSparesTheLedger`), and cannot take a user or an instance, since both
  are referred to by `signals` (`DeletionSparesAccounts`, `TruncationReaches`).
- `FillsAreTraced`: `LedgerTraced`. An inserted row finds the targets of its keys
  (none of the ledger's may be null), and from then on no target goes: users and
  instances because of the triggers, signals and intents likewise, an order with
  a fill because of `RESTRICT`. Rows of the ledger are never changed, so what
  the unique keys kept apart stays apart.

The hypotheses are conditions on the deployment that the code does not enforce,
and they are needed: without `OnePerUser` two applies of one user lose an
update; with aborts the position and the balance part; across
restarts the executor alone orders a signal twice; with a fee rate above one a
sale overdraws.

Every invariant and every safety property of a passing run but
`MigrationsSucceed` is stated by a
theorem. Model-checked only: liveness, which is out of the prover's reach
(`EveryFillSettles`, `EverySignalSettles`, `EveryPublishEnds`,
`EveryMessageYielded`, `OversleepingFences`, `StopEnds`, `KeepsBeating`), and
with it ENABLED. The provers cannot use an induction theorem either; where a
result is about data of any size (sums) the proofs argue by a least
counterexample instead.

## 6. Disagreements and what the runs do not show

Besides the four violated runs:

- Two applies of one user that overlap (`OnePerUser = FALSE`) can lose the whole of
  one delivery, in the position, the balance or both. Nothing in
  `reconciliation/engine.py` keeps them apart; that a deployment does is a
  hypothesis where it is written, and no doc promises it.
- A crash between the position write and the balance write leaves them apart;
  a redelivery then moves the position again. A crash after the balance write
  and before the event is acknowledged makes the redelivery book both again. The
  properties count deliveries, so they hold; that a *fill* is booked once is true
  of no deployment that redelivers, and the module docs are silent.
- A signal whose decision is recorded after it was ordered can be ordered again
  if the process dies in between (`OrderedAgainOnlyUnrecorded` allows it, and
  `exec_restart` shows what the executor alone does). Which service records
  decisions, and when, is not in the repository.
- A retry of a signal whose book lookup raised is refused for the rest of the
  run (`execution/engine.py:60`). Nothing says whether it should be.
- `AccountsArePermanent`: the schema declares `ON DELETE CASCADE` on users and
  strategy instances and `SET NULL` for the audit trail, but the append-only
  triggers are `FOR EACH STATEMENT`, and a referential action is a statement
  even when it hits no row. Deleting any user or instance therefore raises.
- `ExecutionResult`'s docstring (`execution/engine.py:43-44`) speaks of a result
  with `fill = None` for duplicates; `submit` returns `None` itself.
- `strategy_active`'s docstring asks that the signal's mode matches; the gate
  looks only at the instance's status.
- `shared/domain/intents.py:20` says an intent "has passed" risk; `evaluate`
  builds one for a rejected signal too.
- A sell at an off-tick bid is filled at the bid rounded down, a fraction of a
  tick below the price its limit was compared with; `FillWithinIntent` states
  the exact bound.
- A subscriber's queue is never removed. Once an abandoned one is full, every
  publish to its stream waits for ever; `EveryPublishEnds` excludes just that.

Not modelled, and why: CHECK constraints, column types and the ORM models'
non-key columns (no behaviour between rows); `RESTRICT` is the refusal of a
deletion with any referring row; rejection reasons, gate durations, identifiers
and timestamps (nothing decides on them); the list of open orders the heartbeat
passes on; envelope payloads; repositories' read queries (one `WHERE user_id`
each, with no state between them); the strategy contract, risk primitives, Gamma client, telemetry, API and configuration (no
implementation, or no state of their own).

## 7. Plan

Done: reconciliation with its ledger, paper execution, heartbeat, event bus,
risk gates and engine, schema; the composed pipeline; the theorems of section 5.

Left:

1. Refinements beyond the ledger: the bus as an abstract multicast in which a
   message is in a subscriber's list or due to it, from `GivenInv`.
2. Lemmas that say more of a component than its runs ask, for every value of the
   constants: how far two subscribers can disagree on the order of two
   publishers, how late a heartbeat fences.
3. Two users in the pipeline, once the repository has the loop that connects
   the services and says how it partitions them.

## 8. Running

    tlc -workers 2 -config recon_books.cfg MCReconciliation
    tlc -workers 2 -config pipeline.cfg MCTradingPipeline
    tlapm ReconciliationProofs.tla

`PROJECT.json` maps every definition to the lines it models and lists the runs,
the mutants, the hazards, the findings and the theorems.
