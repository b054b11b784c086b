-------------------------- MODULE MCRoutePipeline --------------------------
(* The relaxation's own candidate, a wide one and a one-hop swap, a chain of *)
(* two hops and a refit, in the shapes that put each limit and each tie at   *)
(* stake, with doubles of three significant bits.                           *)
EXTENDS RoutePipeline
CONSTANTS c0, wide, swap, chain2, refit

\* From 8 to 16 the even numbers are all there is; half way the rounder is taken.
MCFloat == [v \in 0..MaxOut |-> CASE v = 9 -> 8 [] v = 11 -> 12 [] OTHER -> v]

\* A leg costs one, or a sixth of the value where that is more.
Shape(legs, width, risk, splits) ==
    [legs |-> legs, slots |-> legs + 1, width |-> width, risk |-> risk, splits |-> splits,
     conflict |-> FALSE, cost |-> [v \in 0..MaxOut |-> Max({legs, (legs * v) \div 6})]]

\* Everything within its limits; the wide route is the widest.
Usual ==
    [c \in Names |-> CASE c = c0 -> Shape(2, 2, 0, TRUE)
                       [] c = wide -> Shape(4, 3, 3, TRUE)
                       [] c = swap -> Shape(1, 1, 0, FALSE)
                       [] c = chain2 -> Shape(2, 1, 1, FALSE)
                       [] c = refit -> Shape(2, 2, 0, TRUE)]

MCShapes ==
    {Usual,
     [Usual EXCEPT ![c0].conflict = TRUE, ![swap] = Shape(3, 1, 0, FALSE)],
     [Usual EXCEPT ![c0] = Shape(5, 2, 0, TRUE), ![refit] = Shape(5, 2, 0, TRUE),
                   ![chain2].slots = 9]}
=============================================================================
