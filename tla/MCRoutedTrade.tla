--------------------------- MODULE MCRoutedTrade ---------------------------
(* Five routes over A, B, C, D and ether, encoded by RouteCall and executed *)
(* against pools that pay anything up to MaxPay.                            *)
EXTENDS RoutedTrade, RouteCall, TLC

CONSTANTS A, B, C, D, E, ab, ac, bc, bd, cd, alice, bob

MCToken == {A, B, C, D, E}
MCPool == {ab, ac, bc, bd, cd}
MCCoins == [x \in MCPool |->
    CASE x = ab -> <<A, B>> [] x = ac -> <<A, C>> [] x = bc -> <<B, C>>
      [] x = bd -> <<B, D>> [] x = cd -> <<C, D>>]
None == [x \in MCPool |-> NoToken]
MCEndowment == [u \in {alice, bob} |-> [t \in MCToken |->
    IF u = alice THEN (IF t = A THEN 6 ELSE 0) ELSE (IF t \in {B, D} THEN 1 ELSE 0)]]

Slot(t) == CASE t = A -> 0 [] t = B -> 1 [] t = C -> 2 [] t = D -> 3

\* A leg of a realised route that spends x and makes y.
Leg(pool, kind, x, y) ==
    LET from == MCCoins[pool][1]
        to   == MCCoins[pool][2]
    IN  [target |-> pool, kind |-> kind, i |-> 0, j |-> 1, src |-> Slot(from),
         dst |-> Slot(to), token_in |-> from, token_out |-> to,
         amount_in |-> x, amount_out |-> y, verified_in |-> 0, verified_out |-> 0,
         fee_frac |-> NaN, fee_floor |-> NaN, gamma |-> 700]

Route(amount, legs, to) == [amount_in |-> amount, legs |-> legs, dst_slot |-> Slot(to)]

Volatile == {bc, cd}

Routes == {
    \* a diamond
    Route(5, <<Leg(ab, "SWAP_STABLE", 3, 3), Leg(ac, "SWAP_STABLE", 2, 4),
               Leg(bd, "SWAP_CRYPTO", 3, 3), Leg(cd, "SWAP_STABLE", 4, 2)>>, D),
    \* a diamond with a bridge
    Route(6, <<Leg(ab, "SWAP_STABLE", 4, 4), Leg(ac, "SWAP_STABLE", 2, 2),
               Leg(bc, "SWAP_STABLE", 2, 2), Leg(bd, "SWAP_STABLE", 2, 3),
               Leg(cd, "SWAP_STABLE", 4, 4)>>, D),
    \* two visits to one pair, then on
    Route(4, <<Leg(ab, "SWAP_STABLE", 2, 2), Leg(ab, "SWAP_CRYPTO", 2, 2),
               Leg(bd, "SWAP_STABLE", 3, 3)>>, D),
    \* a chain
    Route(5, <<Leg(ab, "SWAP_STABLE", 5, 5), Leg(bd, "SWAP_STABLE", 5, 5)>>, D),
    \* a leg so small that a unit less before it leaves it nothing to spend
    Route(5, <<Leg(ab, "SWAP_STABLE", 5, 5), Leg(bd, "SWAP_STABLE", 1, 2),
               Leg(bd, "SWAP_STABLE", 4, 4)>>, D)}

Encoded(route, floor, volatile) ==
    EncodeRoute(route, NOBODY, TRUE, floor, volatile, "needed")

SlotWalk(route, volatile) ==
    WalkBounds(route, Fractions(route), MinRates(route, volatile))

TokenWalk(route, volatile) ==
    LET walk == SlotWalk(route, volatile)
    IN  [n \in 1..Len(route.legs) + 1 |-> [t \in MCToken |->
            IF t \in {A, B, C, D} /\ Slot(t) \in Slots(route)
            THEN walk[n - 1][Slot(t)] ELSE 0]]

CallFor(route, volatile) ==
    LET c == Received(Encoded(route, 0, volatile), alice)
    IN  [sender |-> c.sender, amount_in |-> c.amount_in, words |-> c.words,
         set_approvals |-> c.set_approvals, tokens |-> c.tokens, receiver |-> c.receiver,
         min_out |-> c.min_out, value |-> c.value, walk |-> TokenWalk(route, volatile)]

MCCalls == {CallFor(route, Volatile) : route \in Routes}

\* They are routes such as realize makes.
Named(route) == [slot \in Slots(route) |-> CHOOSE t \in {A, B, C, D} : Slot(t) = slot]

ASSUME \A route \in Routes :
          /\ Executable(route, Named(route)) /\ InTopologicalOrder(route)
          /\ ~Refused(route, "needed", MinRates(route, Volatile), FALSE)
ASSUME \A c \in MCCalls : Accepts(c) /\ EndsOnItsOutput(c)
=============================================================================
