------------------------------- MODULE Ledger -------------------------------
(***************************************************************************)
(* What reconciliation promises, with none of how: the books are the sum   *)
(* of the fills settled so far.  Settling a fill moves the holding and the *)
(* cash of its owner together, in one step, exactly once.                  *)
(***************************************************************************)
EXTENDS Integers

CONSTANTS Fills,            \* the fills the venue reports
          Users, Tokens,    \* who trades what
          OpeningBalance    \* cash of every user before the first fill

VARIABLES settled,          \* fills that are in the books
          holdings,         \* <<user, token>> -> signed size
          cash              \* user -> USDC

ledgerVars == <<settled, holdings, cash>>

Shares(f) == IF f.side = "buy" THEN f.size ELSE -f.size

Init == /\ settled = {}
        /\ holdings = [k \in Users \X Tokens |-> 0]
        /\ cash = [u \in Users |-> OpeningBalance]

Settle(f) ==
  /\ f \notin settled
  /\ f.size > 0
  /\ settled' = settled \cup {f}
  /\ holdings' = [holdings EXCEPT ![<<f.user, f.token>>] = @ + Shares(f)]
  /\ cash' = [cash EXCEPT ![f.user] = @ - Shares(f) * f.price - f.fee]

Next == \E f \in Fills : Settle(f)

Spec == Init /\ [][Next]_ledgerVars
=============================================================================
