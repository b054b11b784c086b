----------------------------- MODULE ExactQuoter -----------------------------
(***************************************************************************)
(* chain/exact_probe.py's ExactQuoterClient, over the QuoterClient it      *)
(* wraps.  A route every leg of which is a pool with a model is walked     *)
(* here; the others go to the chain whole, and come back to their places.  *)
(*                                                                         *)
(* A pool a route enters twice has to be carried forward from leg to leg,  *)
(* which only a model can do: the chain quotes with static calls.  Rates   *)
(* are not touched by what goes through them.                              *)
(***************************************************************************)
EXTENDS QuoterClient

CONSTANTS
    Pool,
    ModelSets,      \* what may have been admitted: see `models`
    MaxRefusals     \* sizes an invariant refuses, a bound of the model

ASSUME ModelAssumption ==
    /\ DOMAIN Pays \subseteq Pool
    /\ \A set \in ModelSets :
           /\ set.swap \cup set.rate \subseteq Pool
           /\ set.charged \cup set.withdraw \cup set.deposit \subseteq set.swap

VARIABLES
    enabled,
    models,     \* the pools with a model of their swaps, of their rate, of a
                \* withdrawal and of a deposit, and those that say their admin fee
    wanted,     \* the routes to be quoted
    figures,    \* what has been answered of them
    at,         \* the route being walked, by its place
    walk,       \* its walk: the leg at hand, the books, the pools as they stand
                \* and the legs each has yet to see
    holes,      \* the places of those that go to the chain
    pc,
    refusals,
    refused     \* history: the places of those whose walk an invariant refused

exact == <<enabled, models, wanted, figures, at, walk, holes, pc, refusals, refused>>

Pending == -1
route == wanted[at]
leg == route.legs[walk.n]
Dx == Walk!Spend(walk.books, leg)
Uses(r, p) == Cardinality({i \in DOMAIN r.legs : r.legs[i].target = p})

Fresh(m) ==
    IF m > Len(wanted) THEN [n |-> 0]
    ELSE [n |-> 1, books |-> Walk!Opened(wanted[m].amount_in),
          pools |-> [p \in Pool |-> Untouched],
          left |-> [p \in Pool |-> Uses(wanted[m], p)]]

----------------------------------------------------------------------------
(* What can be priced, and on what.                                        *)

\* A wrap or a vault crossed twice is priced by its rate, and is not re-entered.
Reused(r) ==
    {p \in Pool : Cardinality({i \in DOMAIN r.legs :
                                  r.legs[i].target = p /\ r.legs[i].kind # "RATE"}) > 1}

Carried(l) == l.target \in Reused(route)
Moved(p) == walk.pools[p] # Untouched

\* _model, and _reseat once the pool has moved: a share token needs the supply,
\* which the model of a withdrawal holds.
HasModel(l) ==
    IF Carried(l) /\ Moved(l.target)
    THEN l.kind = "SWAP" \/ (l.kind \in {"DEPOSIT", "WITHDRAW"} /\ l.target \in models.withdraw)
    ELSE l.target \in CASE l.kind = "SWAP" -> models.swap
                        [] l.kind = "RATE" -> models.rate
                        [] l.kind = "WITHDRAW" -> models.withdraw
                        [] l.kind = "DEPOSIT" -> models.deposit

\* A pool is carried past a swap, or past a deposit if its supply is known; what a
\* withdrawal does to the supply is not.
Advances(l) == l.kind = "SWAP" \/ (l.kind = "DEPOSIT" /\ l.target \in models.withdraw)

Quotable(l) ==
    /\ HasModel(l)
    /\ Carried(l) => /\ l.target \in models.charged
                     /\ walk.left[l.target] > 1 => Advances(l)

\* Slip: the supply is the one that was read, whatever has been minted since.
SupplyAsRead(l) == [walk.pools[l.target] EXCEPT !.minted = 0]

\* `carried`: one place decides what the pool is now.
Now(l) == IF Carried(l) THEN walk.pools[l.target] ELSE Untouched
Value == PoolQuote(leg, Dx, Now(leg))

\* StableSwap.exchange and add_liquidity; of a withdrawal, what a pool does.
AfterLeg(pool, l, dx, value) ==
    CASE l.kind = "SWAP" -> [pool EXCEPT !.in = @ + dx]
      [] l.kind = "DEPOSIT" -> [in |-> pool.in + dx, minted |-> pool.minted + value]
      [] l.kind = "WITHDRAW" -> [in |-> pool.in + value, minted |-> pool.minted - dx]
      [] l.kind = "RATE" -> pool

----------------------------------------------------------------------------
(* quote_routes, a leg at a time.                                          *)

ExactInit ==
    /\ enabled \in BOOLEAN /\ models \in ModelSets /\ wanted \in Requests
    /\ figures = [m \in DOMAIN wanted |-> Pending]
    /\ at = 1 /\ walk = Fresh(1) /\ holes = <<>>
    /\ pc = "walk" /\ refusals = 0 /\ refused = {}
    /\ asked = <<>> /\ chunks = <<>> /\ out = <<>> /\ lost = {} /\ faults = 0

Walking == pc = "walk" /\ enabled /\ at <= Len(wanted)
OnALeg == Walking /\ walk.n <= Len(route.legs) /\ Walk!InRange(route, leg)
Trading == OnALeg /\ Dx > 0

Concludes(figure) ==
    /\ figures' = [figures EXCEPT ![at] = figure]
    /\ at' = at + 1 /\ walk' = Fresh(at + 1)
    /\ UNCHANGED <<enabled, models, wanted, pc>>

\* A leg with nothing to spend is not quoted, and is still to be seen by its pool.
SkipLeg ==
    /\ OnALeg /\ Dx = 0
    /\ walk' = [walk EXCEPT !.n = @ + 1, !.books = Walk!After(@, leg, 0)]
    /\ UNCHANGED <<vars, enabled, models, wanted, figures, at, holes, pc, refusals, refused>>

PriceLeg ==
    /\ Trading /\ Quotable(leg) /\ Value > 0
    /\ walk' = [n |-> walk.n + 1,
                books |-> Walk!After(walk.books, leg, Value),
                pools |-> IF Carried(leg) /\ walk.left[leg.target] > 1
                          THEN [walk.pools EXCEPT
                                   ![leg.target] = AfterLeg(@, leg, Dx, Value)]
                          ELSE walk.pools,
                left |-> IF Carried(leg) THEN [walk.left EXCEPT ![leg.target] = @ - 1]
                         ELSE walk.left]
    /\ UNCHANGED <<vars, enabled, models, wanted, figures, at, holes, pc, refusals, refused>>

\* The walk is over, or dead: a leg off the slots, or one that pays nothing.
WalkEnds ==
    /\ Walking
    /\ IF walk.n > Len(route.legs)
       THEN Concludes(IF route.dst_slot < MAX_SLOTS THEN walk.books.bal[route.dst_slot] ELSE 0)
       ELSE /\ ~OnALeg \/ (Trading /\ Quotable(leg) /\ Value = 0)
            /\ Concludes(0)
    /\ UNCHANGED <<vars, holes, refusals, refused>>

ToTheChain ==
    /\ holes' = Append(holes, at)
    /\ Concludes(Pending)

\* Slip: a route that cannot be walked goes to the chain, whatever it enters twice.
NeverDropped == ToTheChain

\* LegUnquotable: a route that enters a pool twice is dropped.
Unwalkable == IF Reused(route) # {} THEN Concludes(0) /\ UNCHANGED holes ELSE ToTheChain

CannotQuote ==
    /\ Trading /\ ~Quotable(leg)
    /\ Unwalkable
    /\ UNCHANGED <<vars, refusals, refused>>

\* The invariant refuses the size, or does not converge.
Refuses ==
    /\ Trading /\ Quotable(leg) /\ refusals < MaxRefusals
    /\ ToTheChain
    /\ refusals' = refusals + 1 /\ refused' = refused \cup {at}
    /\ UNCHANGED vars

\* What could not be walked is asked of the chain in one go; without models, all.
SendHoles ==
    /\ pc = "walk"
    /\ enabled => at > Len(wanted)
    /\ pc' = "chain"
    /\ holes' = IF enabled THEN holes ELSE [m \in DOMAIN wanted |-> m]
    /\ asked' = [i \in DOMAIN holes' |-> wanted[holes'[i]]]
    /\ chunks' = Batches(asked')
    /\ UNCHANGED <<out, lost, faults>>
    /\ UNCHANGED <<enabled, models, wanted, figures, at, walk, refusals, refused>>

Client == pc = "chain" /\ Next /\ UNCHANGED exact

\* Slip: the chain's answers take the first places that are free.
InOrder(m) == IF m \in DOMAIN out THEN out[m] ELSE figures[m]

Place(m) ==
    IF \E i \in DOMAIN holes : holes[i] = m
    THEN out[CHOOSE i \in DOMAIN holes : holes[i] = m] ELSE figures[m]

\* As many answers as were asked for, or the quote is not answered at all.
FillHoles ==
    /\ pc = "chain" /\ chunks = <<>> /\ Len(out) = Len(holes)
    /\ figures' = [m \in DOMAIN wanted |-> Place(m)]
    /\ pc' = "done"
    /\ UNCHANGED <<vars, enabled, models, wanted, at, walk, holes, refusals, refused>>

ExactNext ==
    \/ SkipLeg \/ PriceLeg \/ WalkEnds \/ CannotQuote \/ Refuses
    \/ SendHoles \/ Client \/ FillHoles

ExactSpec == ExactInit /\ [][ExactNext]_<<vars, exact>> /\ WF_<<vars, exact>>(ExactNext)

----------------------------------------------------------------------------
(* What has to hold.                                                       *)

\* What a route is worth when it is run: every leg finds its pool as the legs
\* before it have left it.
RunLeg(r, was, l) ==
    LET dx == Walk!Spend(was.books, l)
        value == PoolQuote(l, dx, was.pools[l.target])
    IN  IF was.dead \/ ~Walk!InRange(r, l) \/ (dx > 0 /\ value = 0)
        THEN [was EXCEPT !.dead = TRUE]
        ELSE [dead |-> FALSE, books |-> Walk!After(was.books, l, value),
              pools |-> IF dx = 0 THEN was.pools
                        ELSE [was.pools EXCEPT ![l.target] = AfterLeg(@, l, dx, value)]]

Run(r) ==
    LET after[n \in 0..Len(r.legs)] ==
          IF n = 0 THEN [dead |-> FALSE, books |-> Walk!Opened(r.amount_in),
                         pools |-> [p \in Pool |-> Untouched]]
          ELSE LET was == after[n - 1] IN RunLeg(r, was, r.legs[n])
    IN  after[Len(r.legs)]
Worth(r) ==
    LET end == Run(r)
    IN  IF end.dead \/ r.dst_slot >= MAX_SLOTS THEN 0 ELSE end.books.bal[r.dst_slot]

\* "So the two agree by construction rather than by luck" (exact_probe.py:714): a
\* route is quoted for what it would pay if it were run, pools it enters twice and
\* all, or for nothing; for nothing only if it would pay nothing, or if it has to be
\* dropped, or was lost on the way to the chain, or fails whatever call it is in.  A
\* static quote of a re-entered pool is let through only where the models are off or
\* refused the size.
QuotedAsItPays ==
    pc = "done" => \A m \in DOMAIN wanted :
        \/ figures[m] = Worth(wanted[m])
        \/ figures[m] = 0 /\ \/ Reused(wanted[m]) # {}
                             \/ \E i \in lost : holes[i] = m
                             \/ CallFails(<<wanted[m]>>)
        \/ Reused(wanted[m]) # {} /\ (~enabled \/ m \in refused)

\* Stated at chain/exact_probe.py:722: "a route that enters a pool twice must be
\* walked here or dropped.  The chain cannot price it".
ReusedNeverStatic ==
    enabled => \A i \in DOMAIN holes : Reused(wanted[holes[i]]) = {}

\* Every route is answered in the end.
EveryFigureStands == <>(pc = "done" /\ \A m \in DOMAIN wanted : figures[m] # Pending)

=============================================================================
