---------------------------- MODULE MCRiskEngine ----------------------------
EXTENDS RiskEngine

Limits ==
  [max_book_age |-> 1, max_tick_age |-> 2, price_min |-> 5, price_max |-> 95,
   max_ticks_from_mid |-> 2, max_spread |-> 10, max_slippage |-> 7,
   min_size |-> 2, max_size |-> 9, max_abs_position |-> 8,
   max_strategy_exposure |-> 600, max_user_exposure |-> 700]

S(id, side, size, limit) ==
  [signal_id |-> id, side |-> side, size |-> size, limit_price |-> limit]

Snapshot(bid, ask, bidDepth, askDepth) ==
  [resolved |-> FALSE, last_tick_at |-> 3, last_book_update_at |-> 3,
   best_bid |-> bid, best_ask |-> ask, bid_depth |-> bidDepth,
   ask_depth |-> askDepth, volatility_cooldown_until |-> None]

Calm == [active |-> TRUE, suspended |-> FALSE, instance |-> "active",
         kill_switch_on |-> FALSE, global_kill_switch_on |-> FALSE,
         processed |-> {}, market |-> Snapshot(41, 46, 9, 7), position |-> 0,
         strategy_exposure |-> 0, user_exposure |-> 0, balance |-> 300, now |-> 4]

(* A world in motion: the clock runs, the book is refreshed or not, cooldowns *)
(* are set and extended, the kill switch flips, another order spends cash.   *)
MovingGates == <<"kill_switch_off", "idempotency", "orderbook_freshness",
                 "volatility_cooldown", "usdc_sufficient">>
MovingSignals == {S(1, "buy", 2, 47)}
MovingWorlds ==
  {w \in {[Calm EXCEPT !.now = now, !.market.last_book_update_at = book,
                       !.market.last_tick_at = book,
                       !.market.volatility_cooldown_until = until,
                       !.global_kill_switch_on = kill, !.balance = bal] :
            now \in 2..4, book \in {1, 3}, until \in {None, 3, 5}, kill \in BOOLEAN,
            bal \in {50, 300}} : w.market.last_book_update_at <= w.now}
=============================================================================
