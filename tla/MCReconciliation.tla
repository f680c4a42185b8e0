-------------------------- MODULE MCReconciliation --------------------------
EXTENDS Reconciliation

CONSTANTS u1, u2, t1, t2

F(id, u, t, side, size, price, fee) ==
  [id |-> id, delivery |-> 1, user |-> u, token |-> t, side |-> side,
   size |-> size, price |-> price, fee |-> fee]

(* One token is opened, grown, cut, closed exactly and flipped from either    *)
(* side, at prices whose averages do not divide evenly; another token shares  *)
(* the cash, another user shares nothing, and apply refuses a zero-size fill. *)
BookFills ==
  {F(1, u1, t1, "buy", 1, 1, 0), F(2, u1, t1, "buy", 2, 4, 1),
   F(3, u1, t1, "sell", 1, 9, 2), F(4, u1, t1, "sell", 3, 2, 1),
   F(5, u1, t1, "sell", 4, 6, 3), F(6, u1, t2, "sell", 2, 5, 1),
   F(7, u2, t1, "buy", 0, 3, 0), F(8, u2, t1, "sell", 2, 2, 0)}

(* Two fills of one position, each of which may come once more after its      *)
(* apply broke off, one that shares only their cash, and another user's.      *)
RetriedFills ==
  LET retried == {F(1, u1, t1, "buy", 2, 3, 1), F(2, u1, t1, "sell", 3, 5, 2)}
  IN  retried \cup {Again(f) : f \in retried}
        \cup {F(3, u1, t2, "buy", 1, 4, 1), F(4, u2, t1, "sell", 2, 2, 0)}
=============================================================================
