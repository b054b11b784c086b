--------------------------- MODULE MCExactQuoter ---------------------------
(* Lists of a few routes, quoted with models and without: sound ones of one *)
(* to three legs, one that dies on its way, one too long for any call, and  *)
(* one that is read from a slot there is none of; every shape in which one  *)
(* pool is entered twice; and splits in two orders.                          *)
EXTENDS ExactQuoter

CONSTANTS x, y, z, nil, vault

MCPool == {x, y, z, nil, vault}
MCPays == [p \in MCPool |-> CASE p \in {x, vault} -> 1 [] p = y -> 2 [] p = z -> 3 [] p = nil -> 0]

Kinded(kind, pool, from, to, bps) ==
    [target |-> pool, kind |-> kind, src |-> from, dst |-> to, bps |-> bps]
Leg(pool, from, to, bps) == Kinded("SWAP", pool, from, to, bps)
Route(legs, dst) == [legs |-> legs, amount_in |-> 7, dst_slot |-> dst, slots |-> MAX_SLOTS]

Straight == Route(<<Leg(x, 0, 1, 0)>>, 1)
Through  == Route(<<Leg(y, 0, 1, 0), Leg(x, 1, 2, 0)>>, 2)
Forked   == Route(<<Leg(x, 0, 1, 4), Leg(z, 0, 1, 0), Leg(y, 1, 2, 0)>>, 2)
Dying    == Route(<<Leg(y, 0, 1, 0), Leg(nil, 1, 2, 0)>>, 2)
TooLong  == Route(<<Leg(y, 0, 1, 0), Leg(x, 1, 2, 0), Kinded("RATE", vault, 2, 0, 0),
                    Leg(z, 0, 1, 0), Kinded("RATE", vault, 1, 2, 0)>>, 2)
OffSlot  == Route(<<Leg(x, 0, 1, 0)>>, MAX_SLOTS)

SomeLists == BoundedSeq({Straight, Through, Forked, Dying, TooLong, OffSlot}, 3)
               \cup [1..5 -> {Straight, Through, OffSlot}]

----------------------------------------------------------------------------
(* One pool entered twice: out to two coins, to a coin and the share token   *)
(* in either order, in from two coins, in from a coin and the share token;   *)
(* and a vault, which is a rate.                                             *)

Elements ==
    LET enters(first, second) ==
            Route(<<Kinded(first, x, 0, 1, 6), Kinded(second, x, 0, 2, 0), Leg(y, 1, 2, 0)>>, 2)
        leaves(first, second) ==
            Route(<<Leg(y, 0, 1, 4), Leg(z, 0, 2, 0), Kinded(first, x, 1, 3, 0),
                    Kinded(second, x, 2, 3, 0)>>, 3)
    IN  {enters("SWAP", "SWAP"), enters("SWAP", "DEPOSIT"), enters("DEPOSIT", "SWAP"),
         leaves("SWAP", "SWAP"), leaves("DEPOSIT", "DEPOSIT"),
         leaves("SWAP", "WITHDRAW"), leaves("WITHDRAW", "SWAP")}
RateTwice == Route(<<Kinded("RATE", vault, 0, 1, 4), Kinded("RATE", vault, 0, 1, 0)>>, 1)

ElementLists == {<<r>> : r \in Elements} \cup
    [1..2 -> Elements \cup {RateTwice, Straight, Dying}]

\* Everything modelled, or all but one thing.
MCModelSets ==
    LET all == [swap |-> MCPool, rate |-> {vault}, charged |-> {x}, withdraw |-> {x},
                deposit |-> {x}]
    IN  {all, [all EXCEPT !.rate = {}], [all EXCEPT !.charged = {}],
         [all EXCEPT !.withdraw = {}], [all EXCEPT !.deposit = {}],
         [all EXCEPT !.swap = {x, nil}]}

----------------------------------------------------------------------------
(* One split quoted twice: three legs out of slot 0, none of them a sweeper, *)
(* in two of their orders.                                                   *)

SplitInThree == {<<Leg(x, 0, 1, a), Leg(y, 0, 1, b), Leg(z, 0, 1, c)>> :
                   a \in {1, 2, 5}, b \in {2, 3}, c \in {1, 4}}

Reordered(legs) == {<<legs[3], legs[2], legs[1]>>, <<legs[2], legs[3], legs[1]>>}

Splits == UNION {{<<Route(legs, 1), Route(other, 1)>> : other \in Reordered(legs)}
                    : legs \in SplitInThree}

MCRequests == SomeLists \cup ElementLists \cup Splits

=============================================================================
