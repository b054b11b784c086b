-------------------------- MODULE MCRouteExecutor --------------------------
(* RouteExecutor on a split that is joined again, a route that starts in    *)
(* ether and one that ends in it, and a route with a leg off its slot map.  *)
EXTENDS RouteExecutor

CONSTANTS A, B, C, E, ab, ac, cb, weth, alice, bob

MCToken == {A, B, C, E}
MCPool == {ab, ac, cb, weth}

MCEndowment ==
    [u \in {alice, bob} |-> [t \in MCToken |-> IF t = A THEN 5 ELSE IF t = E THEN 3 ELSE 1]]

Leg(pool, kind, from, to, bps) ==
    [target |-> pool, kind |-> kind, src |-> from, dst |-> to, bps |-> bps]

\* A to B: half through C, the rest straight; C is drained last.
Split == <<Leg(ac, "SWAP", 0, 1, 5), Leg(ab, "SWAP", 0, 2, 0), Leg(cb, "SWAP", 1, 2, 0)>>
\* Three ways out of one slot, the smallest of which can round to nothing, and
\* two of the three with no sweeper behind them.
Thirds == <<Leg(ab, "SWAP", 0, 1, 1), Leg(ac, "SWAP", 0, 2, 4), Leg(ab, "SWAP", 0, 1, 4)>>
Wrapped == <<Leg(weth, "WRAP_NATIVE", 0, 1, 0), Leg(cb, "SWAP", 1, 2, 0)>>
Unwrapped == <<Leg(ac, "SWAP", 0, 1, 0), Leg(weth, "UNWRAP_NATIVE", 1, 2, 0)>>
OffTheMap == <<Leg(ab, "SWAP", 0, 1, 5), Leg(ac, "SWAP", 0, 2, 0)>>

Call(who, value, legs, tokens, amount, dst, min_out) ==
    [sender |-> who, value |-> value, legs |-> legs, tokens |-> tokens,
     amount_in |-> amount, dst_slot |-> dst, min_out |-> min_out]

MCCalls ==
    {Call(alice, 0, Split, <<A, C, B>>, 5, 2, 2),
     Call(bob, 0, Split, <<A, C, B>>, 1, 2, 0),
     Call(bob, 0, Thirds, <<A, B, C>>, 5, 1, 1),
     Call(alice, 2, Wrapped, <<E, C, B>>, 2, 2, 1),
     Call(bob, 0, Unwrapped, <<A, C, E>>, 4, 2, 1),
     Call(bob, 0, OffTheMap, <<A, B>>, 4, 1, 0)}

\* Ether sent along with a route that has no use for it.
StrayCalls == {Call(alice, 1, Split, <<A, C, B>>, 5, 2, 2)}

=============================================================================
