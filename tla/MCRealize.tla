----------------------------- MODULE MCRealize -----------------------------
(* Three nodes.  The middle one is held as b, as its second address e or as *)
(* the vault share v; the last is held as c or as the native token g.       *)
EXTENDS Realize

CONSTANTS a, b, e, v, c, g, A, B, C, Weights

MCNode == {A, B, C}
MCToken == {a, b, e, v, c, g}
MCNodeOf == [t \in MCToken |-> CASE t = a -> A [] t \in {b, e, v} -> B [] OTHER -> C]
MCCanonical == [n \in MCNode |-> CASE n = A -> a [] n = B -> b [] OTHER -> c]
MCRate == [t \in MCToken |-> IF t = v THEN 2 ELSE 1]

\* a -> b, v, e and straight to c; b, v and e on; a way back from c to b
Pairs == << <<a, b>>, <<a, v>>, <<a, e>>, <<a, c>>, <<b, c>>, <<v, g>>, <<v, c>>, <<e, g>>,
            <<c, b>> >>
MCTokenIn == [k \in 1..9 |-> Pairs[k][1]]
MCTokenOut == [k \in 1..9 |-> Pairs[k][2]]
\* One pool is entered by the first arc and again by the fifth.
MCPoolOf == [k \in 1..9 |-> IF k = 5 THEN 1 ELSE k]
MCAdvanceable == 1..9 \ {5}

\* A solved flow is a sum of weighted paths and circulations.  The last one's shares
\* round up to the whole.
Ways == {{4}} \cup {{i, o} : i \in {1, 2, 3}, o \in {5, 6, 7, 8}}
Others == {{4}, {3, 8}} \cup {{i, o} : i \in {1, 2}, o \in {5, 6, 7, 8}}
Loops == {{5, 9}, {7, 9}}
FlowOf(W) == [k \in 1..9 |-> MapThenSumSet(LAMBDA p : IF k \in p[1] THEN p[2] ELSE 0, W)]
Weighted(S, Q) == {<<w, q>> : w \in S, q \in Q}
AtMostOne(S) == {{}} \cup {{x} : x \in S}
Mixed(weights, loops) ==
    {FlowOf({x} \cup y \cup z) :
        x \in Weighted(Ways, weights), y \in AtMostOne(Weighted(Others, {1})), z \in loops}
MCFlows == Mixed(Weights, {{}, Weighted(Loops, {1})}) \cup Mixed({BPS - 1}, {{}})
           \cup {FlowOf({<<{1, 5}, 7>>, <<{3, 8}, 11>>, <<{4}, 2>>})}

MCCaps == {{}, {5, 7}}
MCQueries == {[from |-> a, to |-> t] : t \in {c, g}}
=============================================================================
