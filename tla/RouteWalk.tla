----------------------------- MODULE RouteWalk -----------------------------
(***************************************************************************)
(* The walk every quote is: core/walk.py and `_walk` of RouteQuoter.vy run *)
(* a route's legs over an accumulator of slots.  The pools may answer      *)
(* anything, so the module is also the abstract specification of a walk    *)
(* that is executed: RouteExecutor implements it.                          *)
(*                                                                         *)
(* A route is [legs, amount_in, dst_slot, slots]; a leg spends slot `src`, *)
(* pays slot `dst`, and `bps` is its share of what its group opened on, 0  *)
(* for the one that takes what is left.                                    *)
(***************************************************************************)
EXTENDS Integers, Sequences

CONSTANTS
    MAX_SLOTS,
    BPS,        \* the scale of a share, 10_000
    NoSlot,     \* the group open before the first leg
    Routes,     \* what may be walked
    NoRoute,    \* between walks
    MaxQuote    \* the most a pool answers, a bound of the model

Slot == 0..MAX_SLOTS - 1

----------------------------------------------------------------------------
(* One leg.                                                                *)

\* The accumulator, the group that is open, and what it opened on.
Opened(amount) ==
    [bal |-> [slot \in Slot |-> IF slot = 0 THEN amount ELSE 0],
     cur |-> NoSlot, base |-> 0]

InRange(r, l) == l.src < r.slots /\ l.dst < r.slots

\* Slip: a share is of what is left, not of what the group opened on.
BaseOfTheRest(b, l) == b.bal[l.src]

\* A group opens on a change of source, and keeps the balance it opened on.
Base(b, l) == IF l.src # b.cur THEN b.bal[l.src] ELSE b.base

Spend(b, l) ==
    LET have  == b.bal[l.src]
        share == (Base(b, l) * l.bps) \div BPS
    IN  IF l.bps = 0 \/ share > have THEN have ELSE share

\* The books after a leg whose pool answered `value`; a leg with nothing to
\* spend opens its group and does no more.
After(b, l, value) ==
    LET spent == [b.bal EXCEPT ![l.src] = @ - Spend(b, l)]
    IN  [bal  |-> IF Spend(b, l) = 0 THEN b.bal
                  ELSE [spent EXCEPT ![l.dst] = @ + value],
         cur  |-> l.src,
         base |-> Base(b, l)]

----------------------------------------------------------------------------
(* A walk, leg by leg.                                                     *)

VARIABLES
    route,      \* the route being walked, NoRoute between walks
    n,          \* the leg at hand
    books,
    answer      \* of the last walk, 0 when it died

vars == <<route, n, books, answer>>

leg == route.legs[n]
Walking == route # NoRoute /\ n <= Len(route.legs)
CanTrade == Walking /\ InRange(route, leg) /\ Spend(books, leg) > 0

Init == route = NoRoute /\ n = 1 /\ books = Opened(0) /\ answer = 0

Start(r) ==
    /\ route = NoRoute
    /\ route' = r /\ n' = 1 /\ books' = Opened(r.amount_in) /\ answer' = 0

\* A split can round its smallest branch down to nothing.
Skip ==
    /\ Walking /\ InRange(route, leg)
    /\ Spend(books, leg) = 0
    /\ books' = After(books, leg, 0)
    /\ n' = n + 1
    /\ UNCHANGED <<route, answer>>

Trade(value) ==
    /\ CanTrade
    /\ books' = After(books, leg, value)
    /\ n' = n + 1
    /\ UNCHANGED <<route, answer>>

Stop(value) ==
    /\ route # NoRoute
    /\ route' = NoRoute /\ n' = 1 /\ books' = Opened(0) /\ answer' = value

Answer == ~Walking /\ Stop(books.bal[route.dst_slot])

\* A slot out of range, a pool that reverts or answers nothing; or an answer
\* its caller will not have.  A leg with nothing to spend kills no route.
Die == (Walking => CanTrade \/ ~InRange(route, leg)) /\ Stop(0)

Next ==
    \/ \E r \in Routes : Start(r)
    \/ Skip
    \/ \E value \in 1..MaxQuote : Trade(value)
    \/ Answer
    \/ Die

Spec == Init /\ [][Next]_vars

=============================================================================
