------------------------- MODULE MCTradingPipeline --------------------------
EXTENDS TradingPipeline

Limits ==
  [max_book_age |-> 1, max_tick_age |-> 2, price_min |-> 5, price_max |-> 95,
   max_ticks_from_mid |-> 2, max_spread |-> 10, max_slippage |-> 7,
   min_size |-> 2, max_size |-> 9, max_abs_position |-> 8,
   max_strategy_exposure |-> 600, max_user_exposure |-> 700]

S(id, side, size, limit) ==
  [signal_id |-> id, side |-> side, size |-> size, limit_price |-> limit]

Snapshot(bid, ask, bidDepth, askDepth) ==
  [resolved |-> FALSE, last_tick_at |-> 3, last_book_update_at |-> 3,
   best_bid |-> bid, best_ask |-> ask, bid_depth |-> bidDepth,
   ask_depth |-> askDepth, volatility_cooldown_until |-> None]

Book4(bid, ask, bidDepth, askDepth) ==
  [best_bid |-> bid, best_ask |-> ask, bid_depth |-> bidDepth, ask_depth |-> askDepth]

Calm == [active |-> TRUE, suspended |-> FALSE, instance |-> "active",
         kill_switch_on |-> FALSE, global_kill_switch_on |-> FALSE,
         processed |-> {}, market |-> Snapshot(41, 46, 9, 7), position |-> 0,
         strategy_exposure |-> 0, user_exposure |-> 0, balance |-> 300, now |-> 4]

-----------------------------------------------------------------------------
(* Books of every width and depth on the bid side, and one without a bid.     *)
QuotedWorlds == {[Calm EXCEPT !.market = Snapshot(bid, 46, bidDepth, 7)] :
                   bid \in {35, 41, 43, None}, bidDepth \in {4, 9}}

(* Positions, balances and exposures at, around and beyond every cap.        *)
Portfolios ==
  {[Calm EXCEPT !.market = Snapshot(43, 46, bidDepth, 7), !.position = pos,
                !.balance = bal, !.strategy_exposure = exposure,
                !.user_exposure = 300] :
     bidDepth \in {4, 9}, pos \in {-12, -3, 0, 4, 8},
     bal \in {0, 95, 240, 260, 500}, exposure \in {0, 400}}

(* Everything that forbids trading regardless of size and price.             *)
Forbidden ==
  {[Calm EXCEPT !.active = FALSE], [Calm EXCEPT !.suspended = TRUE],
   [Calm EXCEPT !.instance = "none"], [Calm EXCEPT !.instance = "paused"],
   [Calm EXCEPT !.kill_switch_on = TRUE], [Calm EXCEPT !.global_kill_switch_on = TRUE],
   [Calm EXCEPT !.processed = {1}], [Calm EXCEPT !.market = None],
   [Calm EXCEPT !.market.resolved = TRUE],
   [Calm EXCEPT !.market.last_tick_at = 0],
   [Calm EXCEPT !.market.last_book_update_at = 1],
   [Calm EXCEPT !.market.volatility_cooldown_until = 5]}

Lone(world, s) ==
  [ctx |-> world, signals |-> {s}, lanes |-> 1, deliveries |-> 1,
   books |-> IF world.market = None THEN {} ELSE {TopOf(world.market)}]

(* A lone signal of any size and price, or one near the caps' corners.       *)
SignalsOf(sizes, limits) ==
  {S(1, side, size, limit) : side \in {"buy", "sell"}, size \in sizes, limit \in limits}

Alone ==
  (QuotedWorlds \X SignalsOf({1, 2, 5, 7, 9, 10}, {4, 36, 43, 47, 50, 98}))
  \cup (Portfolios \X SignalsOf({2, 5, 7}, {43, 47}))
  \cup (Forbidden \X {S(1, "buy", 5, 47)})

BoundaryScenarios == {Lone(a[1], a[2]) : a \in Alone}

(* Two or three deliveries of two signals that compete for the cap and the    *)
(* cash, with a deep and a paper-thin book, one in flight or more.            *)
Crowd(signals, lanes, deliveries, pos, bal) ==
  [ctx |-> [Calm EXCEPT !.position = pos, !.balance = bal],
   signals |-> signals, lanes |-> lanes, deliveries |-> deliveries,
   books |-> {Book4(41, 46, 9, 7), Book4(41, 46, 1, 1)}]

BuyBuy == {S(1, "buy", 5, 47), S(2, "buy", 7, 47)}
BuySell == {S(1, "buy", 7, 47), S(2, "sell", 5, 40)}
CrowdScenarios ==
  {Crowd(ss, 4 - deliveries, deliveries, pos, bal) :
     ss \in {BuyBuy, BuySell}, deliveries \in {2, 3}, pos \in {0, 3}, bal \in {300, 420}}
  \cup {Crowd(BuyBuy, 2, 3, 0, 420)}

Beginnings == BoundaryScenarios \cup CrowdScenarios
=============================================================================
