---------------------------- MODULE QuoterClient ----------------------------
(***************************************************************************)
(* core/quoter.py's QuoterClient: many routes quoted in few calls to       *)
(* RouteQuoter.  The routes go out in batches bounded by the contract's    *)
(* limits; a batch whose call fails is halved, down to the single route,   *)
(* which is then given up on.  Probes and raw reads are chunked and halved *)
(* by the same loop, one probe for one route.                              *)
(*                                                                         *)
(* A call may fail for what is in it or for no reason the client can see.  *)
(***************************************************************************)
EXTENDS Integers, Sequences, FiniteSets, FiniteSetsExt, SequencesExt

CONSTANTS
    MAX_SLOTS, BPS, NoSlot,     \* see RouteWalk
    MAX_ROUTES, MAX_ALL_LEGS,   \* the limits of one quote_routes call
    GasLegs,                    \* the legs a node's gas cap leaves room for
    Pays,                       \* [target -> what it pays per unit]
    Requests,                   \* the lists of routes to be quoted
    MaxFaults                   \* calls lost to the transport, a bound of the model

Legs == [target: DOMAIN Pays, kind: {"SWAP", "DEPOSIT", "WITHDRAW", "RATE"},
         src: Nat, dst: Nat, bps: Nat]
Routes == [legs: Seq(Legs), amount_in: Nat, dst_slot: Nat, slots: 0..MAX_SLOTS]

ASSUME RequestAssumption ==
    /\ {MAX_SLOTS, MAX_ROUTES, MAX_ALL_LEGS, GasLegs} \subseteq Nat
    /\ BPS \in Nat \ {0} /\ NoSlot \notin Nat
    /\ \A pool \in DOMAIN Pays : Pays[pool] \in Nat
    /\ Requests \subseteq Seq(Routes)

VARIABLES
    asked,      \* the routes
    chunks,     \* ranges <<lo, hi>> still to be sent, in order: routes lo + 1..hi
    out,        \* the answers so far
    lost,       \* history: routes whose own call was lost on the way
    faults

vars == <<asked, chunks, out, lost, faults>>

\* Of the walk only what one leg does to the books is used.
Walk == INSTANCE RouteWalk WITH Routes <- {}, NoRoute <- 0, MaxQuote <- 0,
            route <- 0, n <- 0, books <- 0, answer <- 0

\* What a pool has been paid, and what it has minted, since it was read.
Untouched == [in |-> 0, minted |-> 0]

\* A pool pays less the more it has been paid; what its own share token is worth
\* moves with what it has minted as well, and a rate with neither.
Worn(kind, pool) ==
    CASE kind = "SWAP" -> pool.in
      [] kind \in {"DEPOSIT", "WITHDRAW"} -> pool.in + pool.minted
      [] kind = "RATE" -> 0

PoolQuote(l, dx, pool) == Max({0, dx * Pays[l.target] - Worn(l.kind, pool)})

----------------------------------------------------------------------------
(* The walk in one go: a leg off the route's slots, or one that its pool     *)
(* answers nothing for, is the end of it.  The contract's calls are static:  *)
(* every leg reads its pool as no leg has touched it.                        *)

Dies(r, l, books) ==
    \/ ~Walk!InRange(r, l)
    \/ Walk!Spend(books, l) > 0 /\ PoolQuote(l, Walk!Spend(books, l), Untouched) = 0

WalkLeg(r, was, l) ==
    IF was.dead \/ Dies(r, l, was.books) THEN [was EXCEPT !.dead = TRUE]
    ELSE LET dx == Walk!Spend(was.books, l)
         IN  [was EXCEPT !.books = Walk!After(@, l, PoolQuote(l, dx, Untouched))]

Walked(r) ==
    LET after[n \in 0..Len(r.legs)] ==
          IF n = 0 THEN [dead |-> FALSE, books |-> Walk!Opened(r.amount_in)]
          ELSE LET was == after[n - 1] IN WalkLeg(r, was, r.legs[n])
    IN  after[Len(r.legs)]

\* The end of every route's walk.
WalkOf == [r \in UNION {ToSet(list) : list \in Requests} |-> Walked(r)]

WalkRoute(r) == IF WalkOf[r].dead THEN 0 ELSE WalkOf[r].books.bal[r.dst_slot]

----------------------------------------------------------------------------
(* RouteQuoter.quote_routes: legs end to end, and where each route ends.   *)

Ends(routes) ==
    LET end[m \in 0..Len(routes)] ==
          IF m = 0 THEN 0 ELSE end[m - 1] + Len(routes[m].legs)
    IN  end

\* The contract has no room for the call, its last slot is off the accumulator,
\* or the node runs out of gas.
CallFails(routes) ==
    LET legs == Ends(routes)[Len(routes)]
    IN  \/ legs > MAX_ALL_LEGS \/ Len(routes) > MAX_ROUTES \/ legs > GasLegs
        \/ \E m \in DOMAIN routes :
              /\ routes[m].dst_slot >= MAX_SLOTS
              /\ ~WalkOf[routes[m]].dead

Start(ends, m) == ends[m - 1] + 1

QuoteRoutes(routes) ==
    LET flat == FlattenSeq([m \in DOMAIN routes |-> routes[m].legs])
        ends == Ends(routes)
    IN  [m \in DOMAIN routes |->
            WalkRoute([routes[m] EXCEPT !.legs = SubSeq(flat, Start(ends, m), ends[m])])]

----------------------------------------------------------------------------
(* The client.                                                             *)

\* The most routes from lo + 1 on that fit one call, and one at least.
Fits(routes, lo, hi) ==
    \/ hi = lo + 1
    \/ /\ hi - lo <= MAX_ROUTES
       /\ Ends(SubSeq(routes, lo + 1, hi))[hi - lo] <= MAX_ALL_LEGS

BatchEnd(routes, lo) ==
    CHOOSE hi \in lo + 1..Len(routes) :
        /\ Fits(routes, lo, hi)
        /\ hi = Len(routes) \/ ~Fits(routes, lo, hi + 1)

Batches(routes) ==
    LET from[lo \in 0..Len(routes)] ==
          IF lo = Len(routes) THEN <<>>
          ELSE LET hi == BatchEnd(routes, lo) IN <<<<lo, hi>>>> \o from[hi]
    IN  from[0]

Init ==
    /\ asked \in Requests
    /\ chunks = Batches(asked)
    /\ out = <<>> /\ lost = {} /\ faults = 0

Chunk == Head(chunks)
Sent == SubSeq(asked, Chunk[1] + 1, Chunk[2])
Alone == Chunk[2] = Chunk[1] + 1
Members == Chunk[1] + 1..Chunk[2]

Answered ==
    /\ chunks # <<>> /\ ~CallFails(Sent)
    /\ out' = out \o QuoteRoutes(Sent)
    /\ chunks' = Tail(chunks)
    /\ UNCHANGED <<asked, lost, faults>>

\* Slip: the second half goes first.
HalvesSwapped(lo, hi) == LET mid == lo + (hi - lo) \div 2 IN <<<<mid, hi>>, <<lo, mid>>>>

Halves(lo, hi) == LET mid == lo + (hi - lo) \div 2 IN <<<<lo, mid>>, <<mid, hi>>>>

Halve ==
    /\ ~Alone
    /\ chunks' = Halves(Chunk[1], Chunk[2]) \o Tail(chunks)
    /\ UNCHANGED <<out, lost>>

\* Slip: a route that fails is left out of the answer.
LeaveOut == Alone /\ chunks' = Tail(chunks) /\ UNCHANGED <<out, lost>>

\* A single route that fails is worth nothing.
GiveUp ==
    /\ Alone
    /\ out' = Append(out, 0)
    /\ chunks' = Tail(chunks)
    /\ lost' = IF CallFails(Sent) THEN lost ELSE lost \cup Members

Failed ==
    /\ chunks # <<>>
    /\ \/ CallFails(Sent) /\ UNCHANGED faults
       \/ ~CallFails(Sent) /\ faults < MaxFaults /\ faults' = faults + 1
    /\ Halve \/ GiveUp
    /\ UNCHANGED asked

\* An answer of the wrong length says nothing of anyone.
Garbled ==
    /\ chunks # <<>> /\ ~CallFails(Sent) /\ faults < MaxFaults
    /\ out' = out \o [m \in 1..Len(Sent) |-> 0]
    /\ chunks' = Tail(chunks)
    /\ lost' = lost \cup Members
    /\ faults' = faults + 1
    /\ UNCHANGED asked

Next == Answered \/ Failed \/ Garbled

\* The loop runs on: nothing in it waits.
Spec == Init /\ [][Next]_vars /\ WF_vars(Next)

----------------------------------------------------------------------------

\* A route is worth what it is worth quoted alone, in its own place, whatever
\* is quoted with it and however the batch was cut and halved; it is given up
\* on only for its own call (QuoterClient.probe: an oversized batch "must not
\* lose the other 599").
QuotedAlone ==
    \A m \in DOMAIN out : m \notin lost =>
        out[m] = IF CallFails(<<asked[m]>>) THEN 0 ELSE QuoteRoutes(<<asked[m]>>)[1]

\* Routes that split one slot in the same legs, in whatever order, are worth the
\* same, as long as no leg of them takes the rest and the shares are not more
\* than all of it: a share is of what the group opened on (core/walk.py, "a split
\* does not depend on the order its branches drain").
Shares(r) ==
    LET sum[n \in 0..Len(r.legs)] ==
          IF n = 0 THEN 0 ELSE sum[n - 1] + r.legs[n].bps
    IN  sum[Len(r.legs)]

OneGroup(r) ==
    /\ \A l \in ToSet(r.legs) : l.src = 0 /\ l.dst # 0 /\ l.bps > 0
    /\ Shares(r) <= BPS

SameSplit(r, q) ==
    /\ r = [q EXCEPT !.legs = r.legs]
    /\ Len(r.legs) = Len(q.legs) /\ IsInjective(r.legs)
    /\ ToSet(r.legs) = ToSet(q.legs)
    /\ OneGroup(r)

SplitIsOrderFree ==
    \A m, i \in DOMAIN out \ lost :
        m < i /\ SameSplit(asked[m], asked[i]) => out[m] = out[i]

=============================================================================
