----------------------------- MODULE RiskEngine -----------------------------
(***************************************************************************)
(* RiskEngine.evaluate (services/risk_engine/engine.py): the gates of a    *)
(* list run one after the other, each awaiting what it needs, while the    *)
(* world the RiskContext reads from changes under them.  Evaluations only  *)
(* read, so one of them with a changing world is the general case.         *)
(*                                                                         *)
(*   Begin         the context is made and the first gate is reached       *)
(*   RunGate       a gate with one read decides                            *)
(*   ReadSnapshot  gates 6 to 8: await ctx.get_market_snapshot             *)
(*   ReadClock     gates 6 to 8: await ctx.now, and the gate decides       *)
(*   WorldMoves    anything the context reads changes; time does not run   *)
(*                 backwards                                               *)
(***************************************************************************)
EXTENDS RiskGates, Sequences

CONSTANTS Gates,            \* the engine's list of gates
          Signals,
          Worlds,           \* what the context may answer at a moment
          MaxMoves          \* bound: changes of the world

ASSUME GatesAssumption == Gates \in Seq({AllGates[i] : i \in 1..18})
ASSUME SignalsAssumption == Signals \subseteq SignalType
ASSUME WorldsAssumption == Worlds \subseteq ContextType
ASSUME MaxMovesAssumption == MaxMoves \in Nat

VARIABLES
  ctx,          \* what the world looks like now
  pc,           \* where evaluate is
  signal,       \* its argument
  snapshot,     \* the market snapshot the running gate holds
  decisions,    \* [gate_name, passed] of the gates that ran
  held,         \* history: gates whose condition held at some moment of evaluate
  failed,       \* history: gates whose condition failed at some moment of it
  offered,      \* history: market snapshots the context would give in evaluate
  moves

vars == <<ctx, pc, signal, snapshot, decisions, held, failed, offered, moves>>

GateNames == {Gates[i] : i \in DOMAIN Gates}
Running == pc \in {"gate", "clock"}
Gate == Gates[Len(decisions) + 1]

HoldingIn(c, s) == {g \in GateNames : Holds(g, s, c)}

Init ==
  /\ ctx \in Worlds
  /\ pc = "idle"
  /\ signal \in Signals
  /\ snapshot = None
  /\ decisions = <<>>
  /\ held = {} /\ failed = {} /\ offered = {}
  /\ moves = 0

-----------------------------------------------------------------------------
(* An engine with no gates goes straight to its result. *)
Begin ==
  /\ pc = "idle"
  /\ pc' = IF Gates = <<>> THEN "done" ELSE "gate"
  /\ held' = HoldingIn(ctx, signal)
  /\ failed' = GateNames \ HoldingIn(ctx, signal)
  /\ offered' = {ctx.market}
  /\ UNCHANGED <<ctx, signal, snapshot, decisions, moves>>

(* Faulty: the gates after a rejection run too, and the last one wins. *)
ConcludeWithoutBreak(passed) ==
  /\ decisions' = Append(decisions, [gate_name |-> Gate, passed |-> passed])
  /\ pc' = IF Len(decisions) + 1 = Len(Gates) THEN "done" ELSE "gate"
  /\ snapshot' = None
  /\ UNCHANGED <<ctx, signal, held, failed, offered, moves>>

(* Record the decision; break on the first rejection. *)
Conclude(passed) ==
  /\ decisions' = Append(decisions, [gate_name |-> Gate, passed |-> passed])
  /\ pc' = IF passed /\ Len(decisions) + 1 < Len(Gates) THEN "gate" ELSE "done"
  /\ snapshot' = None
  /\ UNCHANGED <<ctx, signal, held, failed, offered, moves>>

RunGate ==
  /\ pc = "gate"
  /\ ~ReadsClockToo(Gate, ctx.market)
  /\ Conclude(Decide(Gate, signal, ctx.market, ctx))

ReadSnapshot ==
  /\ pc = "gate"
  /\ ReadsClockToo(Gate, ctx.market)
  /\ snapshot' = ctx.market
  /\ pc' = "clock"
  /\ UNCHANGED <<ctx, signal, decisions, held, failed, offered, moves>>

(* Faulty: the clock that is compared is the snapshot's own. *)
ReadClockOfSnapshot ==
  /\ pc = "clock"
  /\ Conclude(Decide(Gate, signal, snapshot,
                     [ctx EXCEPT !.now = snapshot.last_book_update_at]))

(* Faulty: a clock that cannot be read counts as a rejection. *)
ReadClockFailingClosed ==
  /\ pc = "clock"
  /\ \E passed \in {FALSE, Decide(Gate, signal, snapshot, ctx)} : Conclude(passed)

ReadClock ==
  /\ pc = "clock"
  /\ Conclude(Decide(Gate, signal, snapshot, ctx))

WorldMoves ==
  /\ moves < MaxMoves
  /\ moves' = moves + 1
  /\ \E c \in Worlds :
       /\ c # ctx /\ c.now >= ctx.now
       /\ ctx' = c
       /\ IF Running
          THEN /\ held' = held \cup HoldingIn(c, signal)
               /\ failed' = failed \cup (GateNames \ HoldingIn(c, signal))
               /\ offered' = offered \cup {c.market}
          ELSE UNCHANGED <<held, failed, offered>>
  /\ UNCHANGED <<pc, signal, snapshot, decisions>>

Next == Begin \/ RunGate \/ ReadSnapshot \/ ReadClock \/ WorldMoves

Spec == Init /\ [][Next]_vars

-----------------------------------------------------------------------------
(* RiskEngineResult.approved *)
approved == /\ pc = "done"
            /\ decisions # <<>>
            /\ \A i \in DOMAIN decisions : decisions[i].passed
rejected == pc = "done" /\ ~approved

(* Type invariant: the decisions are those of the first gates of the list, in *)
(* order, and evaluate is over exactly when one failed or all passed.         *)
TypeOK ==
  /\ ctx \in Worlds
  /\ pc \in {"idle", "gate", "clock", "done"}
  /\ signal \in Signals
  /\ snapshot \in SnapshotType \cup {None}
  /\ pc = "clock" <=> snapshot # None
  /\ decisions \in Seq([gate_name : GateNames, passed : BOOLEAN])
  /\ Len(decisions) <= Len(Gates)
  /\ \A i \in DOMAIN decisions : decisions[i].gate_name = Gates[i]
  /\ \A i \in DOMAIN decisions : ~decisions[i].passed => i = Len(decisions) /\ pc = "done"
  /\ pc \in {"gate", "clock"} => Len(decisions) < Len(Gates)
  /\ held \subseteq GateNames /\ failed \subseteq GateNames
  /\ offered \subseteq SnapshotType \cup {None}
  /\ moves \in 0..MaxMoves

(* Whatever changed while the gates ran, an approved signal met every gate's  *)
(* condition at some moment of its evaluation: a switch that was on, data     *)
(* that was stale or cash that was missing all along cannot be overlooked.    *)
(* (Gate 8 is the exception; see CooldownRespected.)                          *)
ApprovalWasJustified ==
  approved => GateNames \ {"volatility_cooldown"} \subseteq held

(* A freshness gate compares a snapshot with a later clock, so it may reject  *)
(* data that was fresh whenever the two are taken together; the data must     *)
(* still have been on offer during evaluate and be too old by now.            *)
OutOfDate(gate) ==
  /\ gate \in FreshnessGates
  /\ \E market \in offered : ~Decide(gate, signal, market, ctx)

(* A rejected signal failed the gate that rejected it at some moment, or data *)
(* on offer while the gates ran has gone out of date: however the world moves *)
(* between the reads, nothing is turned away without a cause of its own.      *)
RejectionWasJustified ==
  rejected /\ decisions # <<>> =>
    LET gate == decisions[Len(decisions)].gate_name
    IN  gate \in failed \/ OutOfDate(gate)

(* No signal is approved for a market that was in cooldown at every moment of *)
(* the evaluation: "market not in cooldown after a volatility spike"          *)
(* (volatility_cooldown.py:1).                                                *)
CooldownRespected ==
  approved /\ "volatility_cooldown" \in GateNames => "volatility_cooldown" \in held
=============================================================================
