-------------------------- MODULE MCPaperExecution --------------------------
EXTENDS PaperExecution, TLC

I(id, signal, side, size, limit) ==
  [id |-> id, signal_id |-> signal, side |-> side, size |-> size,
   limit_price |-> limit]

(* Signal 1 was evaluated twice; both its intents reach the engine. *)
TwoForOneSignal == {I(1, 1, "buy", 5, 23), I(2, 1, "buy", 5, 23), I(3, 2, "sell", 7, 16)}

Book(bid, ask, bidDepth, askDepth) ==
  [best_bid |-> bid, best_ask |-> ask, bid_depth |-> bidDepth, ask_depth |-> askDepth]

(* Ticks are 5 raw price and 2 raw size units, so 17, 18 and 22 are off the  *)
(* price tick and odd sizes are not whole micro-shares: levels deeper and    *)
(* thinner than the order, too thin to fill, beyond the limit, and empty.    *)
FineBooks == {Book(17, 22, 9, 9), Book(18, 20, 3, 4), Book(17, None, 1, 0),
              Book(15, 25, 9, 9)}

Symmetric == Permutations(Calls)
=============================================================================
