------------------------------ MODULE Realize ------------------------------
(* Realization of a solved flow as an ordered list of legs                  *)
(* (core/realize.py): circulations are cancelled, dust is pruned, the nodes *)
(* of what is left are taken in topological order, and each emits the legs  *)
(* that convert what arrives to the token its arcs draw, split it among     *)
(* them, and hand what is left over to one leg that can take it.  The legs  *)
(* are then replayed the way the quoter walks them (_forward_simulate).     *)
(*                                                                          *)
(* A slot is named by the token it holds; aliases, two addresses over one   *)
(* balance, share a slot.  Amounts are whole units; a solved unit of value  *)
(* is Unit of them, and Rate says what one unit of a token is worth.        *)
EXTENDS Integers, Sequences, FiniteSets, SequencesExt, FiniteSetsExt

CONSTANTS
    Node,       \* where tokens that are one thing meet
    Token,
    NodeOf,     \* [Token -> Node]
    Canonical,  \* [Node -> Token]
    Alias,      \* the tokens that are a second address of their node's canonical
    Rate,       \* [Token -> Nat \ {0}], canonical units of one unit of a token
    Arcs,       \* arcs are 1..Arcs, in the order the solver lists them
    TokenIn,
    TokenOut,
    PoolOf,     \* the pool of an arc
    Advanceable, \* arcs of kinds whose effect on their pool the models reproduce
    Flows,      \* the flows the solver may answer, [1..Arcs -> Nat]
    Caps,       \* the sets of arcs that may hold a cap
    Queries,    \* [from: Token, to: Token], of different nodes
    BPS,
    DUST_SHARE, \* a branch under 1/DUST_SHARE of what leaves its node is dust
    Unit        \* units of amount to one of value

Arc == 1..Arcs
Tau(k) == NodeOf[TokenIn[k]]
Sig(k) == NodeOf[TokenOut[k]]

\* What arcs K come to, added up in the order they are listed.
Total(f, K) ==
    LET upto[k \in 0..Arcs] ==
          IF k = 0 THEN 0 ELSE upto[k - 1] + (IF k \in K THEN f[k] ELSE 0)
    IN  upto[Arcs]

\* What comes in at a node and does not go out again.
Delivery(f, n) == Total(f, {k \in Arc : Sig(k) = n}) - Total(f, {k \in Arc : Tau(k) = n})

\* Kirchhoff's law, which a solved flow is refused without: all that leaves the source
\* arrives at the destination.
Conserves(f, from, to) ==
    /\ Delivery(f, to) > 0 /\ Delivery(f, from) = -Delivery(f, to)
    /\ \A n \in Node \ {from, to} : Delivery(f, n) = 0

ASSUME RealizeAssumption ==
    /\ Arcs \in Nat /\ TokenIn \in [Arc -> Token] /\ TokenOut \in [Arc -> Token]
    /\ NodeOf \in [Token -> Node] /\ Canonical \in [Node -> Token]
    /\ Rate \in [Token -> Nat \ {0}] /\ Alias \subseteq Token
    /\ \A n \in Node : NodeOf[Canonical[n]] = n /\ Rate[Canonical[n]] = 1
    /\ \A t \in Alias : t # Canonical[NodeOf[t]] /\ Rate[t] = 1
    /\ \A k \in Arc : Tau(k) # Sig(k)
    /\ Caps \subseteq SUBSET Arc
    /\ BPS \in Nat /\ BPS > 1 /\ DUST_SHARE \in Nat /\ Unit \in Nat
    /\ Flows \subseteq [Arc -> Nat]
    /\ Queries \subseteq [from: Token, to: Token]
    /\ \A q \in Queries : NodeOf[q.from] # NodeOf[q.to]

ASSUME FlowAssumption ==
    \A f \in Flows, q \in Queries : Conserves(f, NodeOf[q.from], NodeOf[q.to])

\* A unit of value is at least one unit of any token, so a flow draws something.
ASSUME UnitAssumption == \A t \in Token : Rate[t] <= Unit

VARIABLES
    query,   \* the tokens asked for
    capped,  \* arcs whose cap is finite
    phase,   \* "cancel", "prune", "emit", "walk" or "done"
    before,  \* the flow the current pass was handed
    flow,
    left,    \* nodes not yet emitted
    legs,
    next,    \* the leg the replay is at
    base,    \* what its group's slot held when the group opened
    balance  \* what each slot holds

realizeVars == <<query, capped, phase, before, flow, left, legs, next, base, balance>>
replay == <<next, base, balance>>

Src == query.from
Dst == query.to
DstNode == NodeOf[Dst]

Live == {k \in Arc : flow[k] > 0}
Leaving(n) == {k \in Live : Tau(k) = n}
Entering(n) == {k \in Live : Sig(k) = n}
Nodes == {Tau(k) : k \in Live} \cup {Sig(k) : k \in Live}

----------------------------------------------------------------------------
(* cancel_cycles: any cycle may be the one the peel comes upon.            *)

Closed(C) == \A k \in C :
                /\ \E j \in C : Tau(j) = Sig(k)
                /\ \E j \in C : Sig(j) = Tau(k)
Simple(C) == /\ C # {} /\ Closed(C)
             /\ \A j, k \in C : Tau(j) = Tau(k) => j = k
             /\ \A D \in SUBSET C : D # {} /\ Closed(D) => D = C
Cycles == {C \in SUBSET Live : Simple(C)}

\* Slip: the whole cycle is dropped, not the circulation on it.
DropCycle(C) == [k \in Arc |-> IF k \in C THEN 0 ELSE flow[k]]

Cancelled(C) ==
    LET least == Min({flow[k] : k \in C})
    IN  [k \in Arc |-> IF k \in C THEN flow[k] - least ELSE flow[k]]

Cancel ==
    /\ phase = "cancel"
    /\ \E C \in Cycles : flow' = Cancelled(C)
    /\ UNCHANGED <<query, capped, phase, before, left, legs, replay>>

\* Slip: one cycle is removed and the rest are taken for none.
AnyLeft == Cycles # {} /\ flow = before

CyclesLeft == Cycles # {}

Acyclic ==
    /\ phase = "cancel" /\ ~CyclesLeft
    /\ phase' = "prune" /\ before' = flow
    /\ UNCHANGED <<query, capped, flow, left, legs, replay>>

----------------------------------------------------------------------------
(* prune_dust, a round at a time                                           *)

\* The nodes a sweep along live arcs comes to are those no closed set leaves out.
Sweep(seed, from(_), to(_)) ==
    LET closed == {S \in SUBSET Node : /\ seed \in S
                                       /\ \A k \in Live : from(k) \in S => to(k) \in S}
    IN  {n \in Node : \A S \in closed : n \in S}

OnAPath ==
    LET forward == Sweep(NodeOf[Src], Tau, Sig)
        backward == Sweep(DstNode, Sig, Tau)
    IN  {k \in Live : Tau(k) \in forward /\ Sig(k) \in backward}
Dust == {k \in Live : flow[k] * DUST_SHARE < Total(flow, Leaving(Tau(k)))}

Doomed == Dust \cup (Live \ OnAPath)
Reaches(f) == \E k \in Arc : f[k] > 0 /\ Sig(k) = DstNode

Prune ==
    /\ phase = "prune"
    /\ LET doomed == Doomed
       IN  doomed # {} /\ flow' = [k \in Arc |-> IF k \in doomed THEN 0 ELSE flow[k]]
    /\ UNCHANGED <<query, capped, phase, before, left, legs, replay>>

\* Pruning may not decide there is no route: the flow it was handed stands.
Pruned ==
    /\ phase = "prune" /\ Doomed = {}
    /\ flow' = IF Reaches(flow) THEN flow ELSE before
    /\ left' = {NodeOf[TokenIn[k]] : k \in {j \in Arc : flow'[j] > 0}}
                 \cup {NodeOf[TokenOut[k]] : k \in {j \in Arc : flow'[j] > 0}}
    /\ phase' = "emit" /\ before' = flow'
    /\ UNCHANGED <<query, capped, legs, replay>>

----------------------------------------------------------------------------
(* realize: what one node emits                                            *)

Slot(t) == IF t \in Alias THEN Canonical[NodeOf[t]] ELSE t
Delta == [k \in Arc |-> (flow[k] * Unit) \div Rate[TokenIn[k]]]
Deltas(K) == Total(Delta, K)

\* The members of S in order: the i-th has i - 1 others come before it.
Sorted(S, comesBefore(_, _)) ==
    [i \in 1..Cardinality(S) |->
        CHOOSE x \in S : Cardinality({y \in S : comesBefore(y, x)}) = i - 1]

\* The kinds of leg: what is drawn and paid, from and into which slot, and the
\* share of the group's slot, zero for the leg that sweeps it.
Arrow(k, from, bps) == [arc |-> k, in |-> TokenIn[k], out |-> TokenOut[k],
                        src |-> from, dst |-> Slot(TokenOut[k]), bps |-> bps]
Convert(s, t, bps) == [arc |-> 0, in |-> s, out |-> t,
                       src |-> Slot(s), dst |-> Slot(t), bps |-> bps]

Arriving(n) == {TokenOut[k] : k \in Entering(n)}
                 \cup (IF n = NodeOf[Src] THEN {Src} ELSE {})
Wanted(n) == {TokenIn[k] : k \in Leaving(n)}

\* A node's balance is held by the one token all its arcs draw, when all that
\* arrives is one conversion away from it.
Hub(n) ==
    IF /\ n # DstNode /\ Cardinality(Wanted(n)) = 1
       /\ Arriving(n) \subseteq Wanted(n) \cup {Canonical[n]}
    THEN CHOOSE t \in Wanted(n) : TRUE
    ELSE Canonical[n]

\* Slip: what arrives in another token than the hub's is folded in only at
\* nodes that pass it on, so the destination is left with both.
FoldedOnTheWay(n) ==
    {t \in Arriving(n) \ {Hub(n)} :
        /\ Leaving(n) # {}
        /\ (IF t = Canonical[n] THEN Hub(n) ELSE t) \notin Alias}

\* A token of the destination that is the one asked for is there already, and
\* an alias of the hub is the hub's balance.
Folded(n) ==
    {t \in Arriving(n) \ {Hub(n)} :
        /\ Leaving(n) # {} \/ (n = DstNode /\ t # Dst)
        /\ (IF t = Canonical[n] THEN Hub(n) ELSE t) \notin Alias}
Fold(n) ==
    LET tokens == SetToSeq(Folded(n))
    IN  [i \in 1..Len(tokens) |-> Convert(tokens[i], Hub(n), 0)]

\* What draws on the hub: an arc of its own, or one fill for all the arcs that
\* draw a token the hub has to be converted to.
Items(n) ==
    LET drawsHub(k) == Slot(TokenIn[k]) = Slot(Hub(n))
    IN  {[fill |-> FALSE, arcs |-> {k}] : k \in {j \in Leaving(n) : drawsHub(j)}}
        \cup {[fill |-> TRUE, arcs |-> {k \in Leaving(n) : TokenIn[k] = t}] :
                 t \in {TokenIn[k] : k \in {j \in Leaving(n) : ~drawsHub(j)}}}

\* Slip: a capped arc comes last, and takes the remainder.
CappedLast(item) == item.arcs \cap capped # {}

AbsorbsRemainder(item) == item.arcs \cap capped = {}

\* A pool entered twice, by a leg it cannot be advanced past.
Reenters(item) ==
    \E k \in item.arcs \ Advanceable : \E j \in Live \ {k} : PoolOf[j] = PoolOf[k]

\* Capped items first, then those that do not re-enter a pool, and otherwise as they
\* were listed: hub arcs, then fills.
Precedes(x, y) ==
    IF AbsorbsRemainder(x) # AbsorbsRemainder(y) THEN AbsorbsRemainder(y)
    ELSE IF Reenters(x) # Reenters(y) THEN Reenters(y)
    ELSE IF x.fill # y.fill THEN y.fill
    ELSE Min(x.arcs) < Min(y.arcs)
Group(n) == Sorted(Items(n), Precedes)

Sweeper(n) == IF \E x \in Items(n) : AbsorbsRemainder(x) THEN Cardinality(Items(n)) ELSE 0

\* round(): to the nearest, and half way to the even one.
Rounded(over, under) ==
    LET up == (2 * over + under) \div (2 * under)
    IN  IF 2 * over + under = 2 * under * up /\ up % 2 = 1 THEN up - 1 ELSE up

Share(part, whole) == Max({1, Min({BPS - 1, Rounded(BPS * part, whole)})})

GroupLegs(n) ==
    LET total == Deltas(Leaving(n))
        group == Group(n)
        legOf == [item \in Items(n) |->
                     LET k == Min(item.arcs)
                         bps == Share(Deltas(item.arcs), total)
                     IN  IF item.fill THEN Convert(Hub(n), TokenIn[k], bps)
                                      ELSE Arrow(k, Slot(Hub(n)), bps)]
    IN  [i \in 1..Len(group) |->
            IF i = Sweeper(n) THEN [legOf[group[i]] EXCEPT !.bps = 0] ELSE legOf[group[i]]]

\* Slip: every arc of a filled slot sweeps it.
AllSweep(n, s) ==
    LET ks == Sorted({k \in Leaving(n) : Slot(TokenIn[k]) = s}, LAMBDA j, k : j < k)
    IN  [i \in 1..Len(ks) |-> Arrow(ks[i], s, 0)]

\* The arcs that draw one filled slot, the capped ones first; the last sweeps.
SpokeGroup(n, s) ==
    LET drawing == {k \in Leaving(n) : Slot(TokenIn[k]) = s}
        ks == Sorted(drawing, LAMBDA j, k :
                  IF (j \in capped) # (k \in capped) THEN j \in capped ELSE j < k)
        legOf == [k \in drawing |->
                     Arrow(k, s, IF Deltas(drawing) = 0 THEN 0
                                 ELSE Share(Delta[k], Deltas(drawing)))]
    IN  [i \in 1..Len(ks) |->
            IF i = Len(ks) THEN [legOf[ks[i]] EXCEPT !.bps = 0] ELSE legOf[ks[i]]]

SpokeLegs(n) ==
    LET spokes == {Slot(TokenIn[k]) : k \in Leaving(n)} \ {Slot(Hub(n))}
        First(s) == Min({k \in Leaving(n) : Slot(TokenIn[k]) = s})
        order == Sorted(spokes, LAMBDA s, t : First(s) < First(t))
        groupOf == [s \in spokes |-> SpokeGroup(n, s)]
    IN  FlattenSeq([i \in 1..Len(order) |-> groupOf[order[i]]])

\* Slip: nodes are taken as they are listed.
DueAtOnce(n) == TRUE

\* Nodes come in a topological order, whichever: after all that pay into them.
Due(n) == \A k \in Entering(n) : Tau(k) \notin left

\* One whose arcs draw nothing emits no group.
Emit(n) ==
    /\ phase = "emit" /\ n \in left /\ Due(n)
    /\ left' = left \ {n}
    /\ legs' = legs \o Fold(n) \o
               (IF Leaving(n) = {} \/ Deltas(Leaving(n)) = 0 THEN <<>>
                ELSE GroupLegs(n) \o SpokeLegs(n))
    /\ UNCHANGED <<query, capped, phase, before, flow, replay>>

\* The destination's tail: what its canonical token holds becomes the token
\* asked for, unless nothing landed there or the two are one balance.
DestinationLeg ==
    IF /\ Dst # Canonical[DstNode] /\ Dst \notin Alias
       /\ {TokenOut[k] : k \in Entering(DstNode)} \ {Dst} # {}
    THEN <<Convert(Canonical[DstNode], Dst, 0)>> ELSE <<>>

EmitTail ==
    /\ phase = "emit" /\ left = {}
    /\ legs' = legs \o DestinationLeg
    /\ phase' = "walk"
    /\ balance' = [balance EXCEPT ![Slot(Src)] = Deltas(Leaving(NodeOf[Src]))]
    /\ UNCHANGED <<query, capped, before, flow, left, next, base>>

----------------------------------------------------------------------------
(* _forward_simulate: the replay, a leg a step                             *)

Leg == legs[next]
Opens == next = 1 \/ legs[next - 1].src # Leg.src
Opening == IF Opens THEN balance[Leg.src] ELSE base
Take == IF Leg.bps = 0 THEN balance[Leg.src]
        ELSE Min({(Opening * Leg.bps) \div BPS, balance[Leg.src]})

Walk ==
    /\ phase = "walk" /\ next <= Len(legs)
    /\ base' = Opening
    /\ balance' = [balance EXCEPT ![Leg.src] = @ - Take,
                                  ![Leg.dst] = @ + (Take * Rate[Leg.in]) \div Rate[Leg.out]]
    /\ next' = next + 1
    /\ UNCHANGED <<query, capped, phase, before, flow, left, legs>>

Walked ==
    /\ phase = "walk" /\ next > Len(legs)
    /\ phase' = "done"
    /\ UNCHANGED <<query, capped, before, flow, left, legs, replay>>

----------------------------------------------------------------------------
RealizeInit ==
    /\ query \in Queries /\ capped \in Caps
    /\ flow \in Flows /\ before = flow
    /\ phase = "cancel"
    /\ left = {} /\ legs = <<>>
    /\ next = 1 /\ base = 0 /\ balance = [t \in Token |-> 0]

RealizeNext ==
    \/ Cancel \/ Acyclic \/ Prune \/ Pruned
    \/ \E n \in Node : Emit(n)
    \/ EmitTail \/ Walk \/ Walked

RealizeSpec == RealizeInit /\ [][RealizeNext]_realizeVars /\ WF_realizeVars(RealizeNext)

----------------------------------------------------------------------------
\* Cancelling leaves "the same net delivery" (realize.py:193): at every node what
\* comes in less what goes out is what the solver answered, and no arc gains.  What
\* is then pruned is still a route: it reaches the destination, every arc of it lies
\* on a path from the source, so no leg quotes on nothing (realize.py:263), and there
\* is always a node to emit next, so it is not refused for a cycle (realize.py:184).
FlowStaysARoute ==
    /\ phase = "cancel" =>
        /\ \A k \in Arc : flow[k] \in 0..before[k]
        /\ \A n \in Node : Delivery(flow, n) = Delivery(before, n)
    /\ phase = "emit" =>
        /\ Reaches(flow) /\ Live \subseteq OnAPath
        /\ left # {} => \E n \in left : Due(n)

\* What is drawn from a slot before its sweeper was rounded up to all there is.
Squeezed(i) ==
    /\ legs[i].bps = 0
    /\ MapThenSumSet(LAMBDA j : legs[j].bps, {j \in 1..i - 1 : legs[j].src = legs[i].src}) >= BPS

\* No leg is there for nothing, unless rounding left a sweeper nothing.  Each finds
\* something to take when its turn comes: what it draws was filled by an earlier leg
\* and not swept by another ("a leg that can never do anything", realize.py:617),
\* though its slot may be filled and spent twice; and what they pay is something where
\* the route is read.  And a node whose flow arrives and leaves as one token is not
\* converted and back: no slot pays into the one it was filled from (realize.py:450,
\* 477).
NoLegIsWasted ==
    /\ phase = "walk" /\ next <= Len(legs) =>
          Take > 0 \/ \E i \in 1..next : Squeezed(i)
    /\ phase = "done" => balance[Slot(Dst)] > 0
    /\ \A i, j \in DOMAIN legs :
        ~ /\ legs[i].arc = 0 /\ legs[j].arc = 0
          /\ legs[i].src = legs[j].dst /\ legs[i].dst = legs[j].src
          /\ Cardinality(Wanted(NodeOf[legs[i].in]) \cup Arriving(NodeOf[legs[i].in])) = 1

\* The legs can be run one after another: nothing is paid into a slot behind the last
\* leg that spends it, the last leg pays into the slot the route is read from, and no
\* leg spends that one (Kahn's order, realize.py:169; encode_route refuses a route
\* that ends elsewhere).
LegsAreInOrder ==
    phase = "walk" =>
        /\ \A n \in DOMAIN legs : \A m \in 1..n - 1 :
              legs[n].dst = legs[m].src =>
                  \E l \in n + 1..Len(legs) : legs[l].src = legs[m].src
        /\ Len(legs) > 0 /\ legs[Len(legs)].dst = Slot(Dst)
        /\ \A n \in DOMAIN legs : legs[n].src # Slot(Dst)

\* Nobody's remainder is left behind: once the legs have run, everything is in
\* the slot the route is read from, except where no arc of a hub could take a
\* remainder and it was left on purpose (realize.py:594).
EverythingArrives ==
    phase = "done" =>
        \A t \in Token \ {Slot(Dst)} :
            balance[t] > 0 =>
                /\ t = Slot(Hub(NodeOf[t])) /\ Leaving(NodeOf[t]) # {}
                /\ \A x \in Items(NodeOf[t]) : x.arcs \cap capped # {}

\* "A capped arc must never be last" (realize.py:552): a leg with a cap takes the
\* remainder of its slot only when it is the slot's only kind of taker, and never
\* the remainder of a node.
CapsTakeNoRemainder ==
    \A i \in DOMAIN legs :
        LET k == legs[i].arc
        IN  k \in capped /\ legs[i].bps = 0 =>
              /\ legs[i].src # Slot(Hub(Tau(k)))
              /\ \A j \in Leaving(Tau(k)) : Slot(TokenIn[j]) = legs[i].src => j \in capped

\* Every flow the solver answers comes out as a route: no cycle is left to stop
\* the ordering (RealizationError, realize.py:185), and the passes end.
EveryFlowRealizes == <>(phase = "done")
=============================================================================
