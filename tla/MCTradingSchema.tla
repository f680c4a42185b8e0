--------------------------- MODULE MCTradingSchema --------------------------
EXTENDS TradingSchema

Row(table, id, cols) == [table |-> table, id |-> id, cols |-> cols, changed |-> FALSE]

User(id) == Row("users", id, [email |-> id, auth_provider_sub |-> Null])
Instance(id, user) == Row("strategy_instances", id, [user_id |-> user])
Signal(id, user, instance) ==
  Row("signals", id, [user_id |-> user, strategy_instance_id |-> instance])
Intent(id, user, instance, signal) ==
  Row("intents", id, [user_id |-> user, strategy_instance_id |-> instance,
                      signal_id |-> signal])
Order(id, user, intent) ==
  Row("orders", id, [user_id |-> user, intent_id |-> intent, clob_order_id |-> Null])
Fill(id, user, order, intent, venue) ==
  Row("fills", id, [user_id |-> user, order_id |-> order, intent_id |-> intent,
                    clob_fill_id |-> venue])

(* One user who trades, one who only signed up.  The signal is decided twice, *)
(* the intent is submitted twice, the venue reports one fill twice;           *)
(* one fill names no order.                                                   *)
OneTrader ==
  {User(1), User(2), Instance(1, 1), Instance(1, 2), Signal(1, 1, 1),
   Intent(1, 1, 1, 1), Intent(2, 1, 1, 1), Order(1, 1, 1), Order(2, 1, 1),
   Fill(1, 1, 1, 1, 7), Fill(2, 1, 2, 1, 7), Fill(3, 1, Null, 1, 8),
   Row("positions", 1, [user_id |-> 1, market_id |-> 1, token_id |-> 1]),
   Row("audit_log", 1, [user_id |-> 1]), Row("audit_log", 2, [user_id |-> Null])}
=============================================================================
