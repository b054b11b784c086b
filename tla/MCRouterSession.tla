-------------------------- MODULE MCRouterSession ---------------------------
(* A session of two pools: one with a model, behind an oracle that begins      *)
(* rounds, and one quoted from the EVM, which holds ether.                     *)
EXTENDS RouterSession

CONSTANTS modelled, live, refresh, set_pair, plan_call

MCKind == [t \in Tasks |-> IF t = refresh THEN "refresh"
                           ELSE IF t = set_pair THEN "set_pair" ELSE "plan_call"]

=============================================================================
