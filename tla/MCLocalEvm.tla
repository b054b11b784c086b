----------------------------- MODULE MCLocalEvm -----------------------------
(* LocalEvm on a quote through a pool that asks an oracle behind its second  *)
(* slot, beside one of a pool alone, and one that reads a block hash.        *)
EXTENDS LocalEvm

CONSTANTS pool, oracle, other, rate, fee, round_id, answer, hash

MCHome == [i \in {rate, fee, round_id, answer} |-> IF i \in {rate, fee} THEN pool ELSE oracle]

MCStages ==
    {{<<pool, rate, fee, oracle, round_id, answer>>},
     {<<pool, fee>>, <<other>>},
     {<<pool, rate>>, <<oracle, answer>>}}

HashedStages == {{<<pool, hash, rate>>}}

=============================================================================
