---------------------------- MODULE TokenLedger ----------------------------
(***************************************************************************)
(* Who holds what, as the routing contracts see it: `balanceOf` on a token, *)
(* `self.balance` for ether.  A transfer is an external call, and tokens    *)
(* differ in what one moves.                                                *)
(***************************************************************************)
EXTENDS Integers

CONSTANTS
    Token,          \* the ERC20s, and the sentinel for ether
    User,
    Router,         \* the routing contract's own account
    FeeOnTransfer,  \* tokens that credit less than was sent
    RoundsDown      \* tokens whose transferFrom may move one unit less

World == "outside"     \* where pools keep what they hold, which is not tracked
Account == User \cup {Router}
Ledger == [Account -> [Token -> Nat]]

\* `out` of t leaves one account and `in` reaches the other.  Accounts outside
\* Account -- the pools -- are not tracked.
Move(ledger, from, to, t, out, in) ==
    [a \in Account |-> [u \in Token |->
        ledger[a][u] - (IF a = from /\ u = t THEN out ELSE 0)
                     + (IF a = to /\ u = t THEN in ELSE 0)]]

\* What a transfer of x takes from the payer, and what of that arrives.
Debited(t, x) == IF t \in RoundsDown /\ x > 0 THEN {x, x - 1} ELSE {x}
Credited(t, out) == IF t \in FeeOnTransfer THEN 0..out ELSE {out}

=============================================================================
