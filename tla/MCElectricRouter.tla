------------------------- MODULE MCElectricRouter --------------------------
(* A small market for ElectricRouter: one stable pool and two crypto pools  *)
(* over A and B, one of them holding raw ether, and a wrapper W of ether.   *)
EXTENDS ElectricRouter, TLC

CONSTANTS A, B, W, E, p, q, r, alice, bob

MCToken == {A, B, W, E}
MCPool == {p, q, r, W}
MCCoins == [x \in MCPool |-> CASE x = p -> <<A, B>> [] x = q -> <<A, B>>
                               [] x = r -> <<E, B>> [] OTHER -> <<>>]
MCShareToken == [x \in MCPool |-> NoToken]
MCUnderlying == [x \in MCPool |-> NoToken]
MCEndowment == [u \in {alice, bob} |-> [t \in MCToken |->
    IF u = alice THEN (IF t = B THEN 0 ELSE 2) ELSE (IF t = W THEN 0 ELSE 1)]]

Swap(pool, kind, i, j, frac, rate) ==
    [pool |-> pool, kind |-> kind, i |-> i, j |-> j, frac |-> frac,
     min_rate |-> rate, in_ref |-> 0, out_ref |-> 0]

CallOf(words, to, floor, value) ==
    [sender |-> alice, amount_in |-> 2, words |-> words, set_approvals |-> TRUE,
     tokens |-> <<>>, receiver |-> to, min_out |-> floor, value |-> value]

Split == <<Swap(p, "SWAP_STABLE", 0, 1, 2, 2), Swap(q, "SWAP_CRYPTO", 0, 1, 4, 0)>>
\* the first leg's fraction of so little is nothing
Skipping == <<Swap(p, "SWAP_STABLE", 0, 1, 1, 0), Swap(q, "SWAP_CRYPTO", 0, 1, 4, 0)>>
RoundTrip == <<Swap(p, "SWAP_STABLE", 0, 1, 2, 0), Swap(q, "SWAP_CRYPTO", 1, 0, 4, 2)>>
FromEther == <<Swap(r, "SWAP_CRYPTO", 0, 1, 2, 0), Swap(W, "WRAP_NATIVE", 0, 0, 4, 4)>>
ToEther == <<Swap(W, "UNWRAP_NATIVE", 0, 0, 4, 4)>>

MCCalls ==
    {CallOf(Split, bob, 2, 0), CallOf(RoundTrip, alice, 0, 0),
     CallOf(FromEther, bob, 1, 2), CallOf(ToEther, alice, 0, 0),
     [CallOf(Skipping, alice, 0, 0) EXCEPT !.set_approvals = FALSE],
     \* refused by the opening asserts
     CallOf(Split, bob, 0, 1), CallOf(ToEther, Router, 0, 0),
     CallOf(ToEther, NoToken, 0, 0), CallOf(<<>>, alice, 0, 0),
     CallOf(<<Swap(p, "SWAP_STABLE", 0, 0, 4, 0)>>, alice, 0, 0),
     CallOf(<<Swap(p, "SWAP_STABLE", 0, 1, 0, 0)>>, alice, 0, 0),
     CallOf(<<Swap(p, "SWAP_STABLE", 0, 2, 4, 0)>>, alice, 0, 0)}

=============================================================================
