------------------------------ MODULE RiskGates -----------------------------
(***************************************************************************)
(* The eighteen gates of services/risk_engine/gates as predicates of a     *)
(* signal and of what the gate reads from the RiskContext: TRUE where the  *)
(* gate returns passed_decision.  Prices, sizes and cash are integers in   *)
(* the units of DecimalHelpers; times are seconds.                         *)
(***************************************************************************)
EXTENDS PaperFiller

CONSTANT Config             \* the gates' configuration objects, as one record

ConfigType ==
  [max_book_age : Nat, max_tick_age : Nat, price_min : Nat, price_max : Nat,
   max_ticks_from_mid : Nat, max_spread : Int, max_slippage : Nat,
   min_size : Nat, max_size : Nat, max_abs_position : Nat,
   max_strategy_exposure : Int, max_user_exposure : Int]

ASSUME ConfigAssumption == Config \in ConfigType

SignalType == [signal_id : Nat, side : {"buy", "sell"}, size : Nat, limit_price : Nat]

(* MarketSnapshot; the top of the book has the fields simulate_fill reads. *)
SnapshotType ==
  [resolved : BOOLEAN, last_tick_at : Nat, last_book_update_at : Nat,
   best_bid : Nat \cup {None}, best_ask : Nat \cup {None},
   bid_depth : Nat, ask_depth : Nat, volatility_cooldown_until : Nat \cup {None}]

(* What a RiskContext answers for the user, market and strategy of a signal. *)
ContextType ==
  [active : BOOLEAN, suspended : BOOLEAN,
   instance : {"none", "active", "paused", "archived"},
   kill_switch_on : BOOLEAN, global_kill_switch_on : BOOLEAN,
   processed : SUBSET Nat, market : SnapshotType \cup {None},
   position : Int, strategy_exposure : Int, user_exposure : Int,
   balance : Int, now : Nat]

Distance(a, b) == IF a < b THEN b - a ELSE a - b

HasMid(market) == /\ market # None
                  /\ market.best_bid # None /\ market.best_ask # None
Spread(market) == market.best_ask - market.best_bid

-----------------------------------------------------------------------------
(* A. May this user and strategy trade at all? *)
user_active(ctx) == ctx.active /\ ~ctx.suspended

strategy_active(ctx) == ctx.instance = "active"

kill_switch_off(ctx) == ~ctx.global_kill_switch_on /\ ~ctx.kill_switch_on

idempotency(signal, ctx) == signal.signal_id \notin ctx.processed

(* B. Is the market open, its data fresh? *)
market_resolution(market) == market # None /\ ~market.resolved

orderbook_freshness(market, now) ==
  market # None /\ now - market.last_book_update_at <= Config.max_book_age

tick_freshness(market, now) ==
  market # None /\ now - market.last_tick_at <= Config.max_tick_age

volatility_cooldown(market, now) ==
  /\ market # None
  /\ market.volatility_cooldown_until # None
       => now >= market.volatility_cooldown_until

(* C. Is the price sensible? *)
price_bounds(signal) ==
  Config.price_min <= signal.limit_price /\ signal.limit_price <= Config.price_max

(* The mid is half a sum, so both sides are doubled. *)
price_vs_mid(signal, market) ==
  /\ HasMid(market)
  /\ Distance(2 * signal.limit_price, market.best_bid + market.best_ask)
       <= 2 * PriceTick * Config.max_ticks_from_mid

spread_cap(market) == HasMid(market) /\ Spread(market) <= Config.max_spread

(* Faulty: the depth of the side the order rests on. *)
slippage_cap_own_side(signal, market) ==
  LET level == Opposite(IF signal.side = "buy" THEN "sell" ELSE "buy", market)
  IN  /\ HasMid(market)
      /\ signal.size <= level.depth
      /\ Distance(signal.limit_price, level.price) <= Config.max_slippage

slippage_cap(signal, market) ==
  LET level == Opposite(signal.side, market)
  IN  /\ HasMid(market)
      /\ signal.size <= level.depth
      /\ Distance(signal.limit_price, level.price) <= Config.max_slippage

(* D. Is the size affordable and within limits? *)
min_size(signal) == signal.size >= Config.min_size

per_order_size_cap(signal) == signal.size <= Config.max_size

SignedSize(signal) == IF signal.side = "buy" THEN signal.size ELSE -signal.size

(* Faulty: checks the position as it is, not as the fill leaves it. *)
per_market_position_cap_prefill(signal, ctx) ==
  Distance(ctx.position, 0) <= Config.max_abs_position

per_market_position_cap(signal, ctx) ==
  Distance(ctx.position + SignedSize(signal), 0) <= Config.max_abs_position

(* The notional a buy commits; a sell commits nothing. *)
Committed(signal) == IF signal.side = "buy" THEN signal.size * signal.limit_price ELSE 0

per_strategy_exposure_cap(signal, ctx) ==
  ctx.strategy_exposure + Committed(signal) <= Config.max_strategy_exposure

per_user_aggregate_exposure_cap(signal, ctx) ==
  ctx.user_exposure + Committed(signal) <= Config.max_user_exposure

(* Faulty: the fee is left out of the cost. *)
usdc_sufficient_without_fee(signal, ctx) ==
  signal.side = "buy" => signal.size * signal.limit_price <= ctx.balance

usdc_sufficient(signal, ctx) ==
  signal.side = "buy" =>
    signal.size * signal.limit_price * (FeeDen + FeeNum) <= ctx.balance * FeeDen

-----------------------------------------------------------------------------
(* The order of spec 10.1 in which the gates are numbered. *)
AllGates ==
  <<"user_active", "strategy_active", "kill_switch_off", "idempotency",
    "market_resolution", "orderbook_freshness", "tick_freshness",
    "volatility_cooldown", "price_bounds", "price_vs_mid", "spread_cap",
    "slippage_cap", "min_size", "per_order_size_cap", "per_market_position_cap",
    "per_strategy_exposure_cap", "per_user_aggregate_exposure_cap",
    "usdc_sufficient">>

(* The decision of a gate from the snapshot it holds and the context as it is *)
(* when the gate decides.                                                     *)
Decide(gate, signal, market, ctx) ==
  CASE gate = "user_active"         -> user_active(ctx)
    [] gate = "strategy_active"     -> strategy_active(ctx)
    [] gate = "kill_switch_off"     -> kill_switch_off(ctx)
    [] gate = "idempotency"         -> idempotency(signal, ctx)
    [] gate = "market_resolution"   -> market_resolution(market)
    [] gate = "orderbook_freshness" -> orderbook_freshness(market, ctx.now)
    [] gate = "tick_freshness"      -> tick_freshness(market, ctx.now)
    [] gate = "volatility_cooldown" -> volatility_cooldown(market, ctx.now)
    [] gate = "price_bounds"        -> price_bounds(signal)
    [] gate = "price_vs_mid"        -> price_vs_mid(signal, market)
    [] gate = "spread_cap"          -> spread_cap(market)
    [] gate = "slippage_cap"        -> slippage_cap(signal, market)
    [] gate = "min_size"            -> min_size(signal)
    [] gate = "per_order_size_cap"  -> per_order_size_cap(signal)
    [] gate = "per_market_position_cap" -> per_market_position_cap(signal, ctx)
    [] gate = "per_strategy_exposure_cap" -> per_strategy_exposure_cap(signal, ctx)
    [] gate = "per_user_aggregate_exposure_cap"
                                    -> per_user_aggregate_exposure_cap(signal, ctx)
    [] gate = "usdc_sufficient"     -> usdc_sufficient(signal, ctx)

(* Gates 6 to 8 await the snapshot first and the clock after it; gate 8 asks  *)
(* for the time only if the market has a cooldown.                            *)
FreshnessGates == {"orderbook_freshness", "tick_freshness"}
ReadsClockToo(gate, market) ==
  /\ market # None
  /\ \/ gate \in FreshnessGates
     \/ gate = "volatility_cooldown" /\ market.volatility_cooldown_until # None

(* The gate's condition at one moment. *)
Holds(gate, signal, ctx) == Decide(gate, signal, ctx.market, ctx)
=============================================================================
