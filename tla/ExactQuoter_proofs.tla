------------------------ MODULE ExactQuoter_proofs ------------------------
(***************************************************************************)
(* What a quote is worth, whatever the routes, the limits and the models:  *)
(* each route of a list is quoted what it would be quoted alone, for what  *)
(* it would pay if it were run, and a split in whatever order it is listed.*)
(*                                                                         *)
(* The walks are recursive functions of the leg.  Nothing is inducted on:  *)
(* of the legs where a statement failed one would be the least, which is   *)
(* what OneIsLeast, UpTo and Iteration are for.                            *)
(***************************************************************************)
EXTENDS ExactQuoter, TLAPS, NaturalsInduction, WellFoundedInduction, FiniteSetTheorems

\* Of some numbers one is the least.
LEMMA OneIsLeast ==
    ASSUME NEW S \in SUBSET Nat, S # {}
    PROVE  \E n \in S : \A m \in S : n <= m
<1> DEFINE Below == OpToRel(<, Nat)
<1>1. IsWellFoundedOn(Below, Nat)
  BY NatLessThanWellFounded
<1>2. \A m, n \in Nat : m < n => <<m, n>> \in Below
  BY SMT DEF OpToRel
<1> HIDE DEF Below
<1>3. PICK n \in S : \A m \in S : ~(<<m, n>> \in Below)
  BY <1>1, WFMin
<1>4. \A m \in S : n <= m
  <2> SUFFICES ASSUME NEW m \in S PROVE ~(m < n)
    OBVIOUS
  <2>1. n \in Nat /\ m \in Nat
    OBVIOUS
  <2> QED BY <1>2, <1>3, <2>1
<1> QED BY <1>4

\* What holds of 0 and passes from each number to the next holds up to N.
LEMMA UpTo ==
    ASSUME NEW N \in Nat, NEW Good, 0 \in Good,
           \A n \in 1..N : n - 1 \in Good => n \in Good
    PROVE  \A n \in 0..N : n \in Good
<1> DEFINE Bad == {n \in 0..N : n \notin Good}
<1> SUFFICES ASSUME Bad # {} PROVE FALSE
  OBVIOUS
<1>1. Bad \in SUBSET Nat
  OBVIOUS
<1>2. PICK n \in Bad : \A m \in Bad : n <= m
  <2> HIDE DEF Bad
  <2> QED BY <1>1, OneIsLeast
<1>3. n \in 1..N /\ n - 1 \in 0..N /\ n - 1 \notin Bad
  BY <1>2
<1> QED BY <1>3

\* f is `step` taken N times from s0.
Iterates(f, N, s0, step) == f[0] = s0 /\ \A n \in 1..N : f[n] = step[n][f[n - 1]]

\* A step that stays in a set can be taken N times.
LEMMA Iteration ==
    ASSUME NEW N \in Nat, NEW S, NEW s0 \in S, NEW step \in [1..N -> [S -> S]]
    PROVE  \E f \in [0..N -> S] : Iterates(f, N, s0, step)
<1> DEFINE Takes(k, f) == f[0] = s0 /\ \A n \in 1..k : f[n] = step[n][f[n - 1]]
           Good == {k \in 0..N : \E f \in [0..N -> S] : Takes(k, f)}
<1>1. 0 \in Good
  <2> DEFINE f == [k \in 0..N |-> s0]
  <2>1. f \in [0..N -> S] /\ f[0] = s0
    OBVIOUS
  <2> HIDE DEF f
  <2> QED BY <2>1
<1>2. ASSUME NEW k \in 1..N, k - 1 \in Good PROVE k \in Good
  <2>1. PICK f \in [0..N -> S] : Takes(k - 1, f)
    BY <1>2
  <2>2. f[k - 1] \in S
    OBVIOUS
  <2>3. step[k][f[k - 1]] \in S
    BY <2>2
  <2> DEFINE g == [f EXCEPT ![k] = step[k][f[k - 1]]]
  <2>4. g \in [0..N -> S]
    BY <2>3
  <2>5. g[k] = step[k][f[k - 1]] /\ \A n \in 0..k - 1 : g[n] = f[n]
    OBVIOUS
  <2> HIDE DEF g
  <2>6. g[0] = s0
    BY <2>1, <2>5
  <2>7. ASSUME NEW n \in 1..k PROVE g[n] = step[n][g[n - 1]]
    <3>1. g[n - 1] = f[n - 1]
      BY <2>5
    <3>2. CASE n = k
      BY <2>5, <3>1, <3>2
    <3>3. CASE n # k
      <4>1. n \in 1..k - 1 /\ n \in 0..k - 1
        BY <3>3
      <4>2. f[n] = step[n][f[n - 1]]
        BY <2>1, <4>1
      <4> QED BY <2>5, <3>1, <4>1, <4>2
    <3> QED BY <3>2, <3>3
  <2> QED BY <2>4, <2>6, <2>7
<1>3. \A k \in 0..N : k \in Good
  <2> HIDE DEF Good
  <2> QED BY <1>1, <1>2, UpTo
<1>4. N \in Good
  BY <1>3
<1> QED BY <1>4 DEF Iterates

----------------------------------------------------------------------------
(* What the contract is sent, and what it makes of it.                     *)

LEMMA RoutesAre ==
    ASSUME NEW routes \in Seq(Routes)
    PROVE  /\ Len(routes) \in Nat /\ DOMAIN routes = 1..Len(routes)
           /\ \A m \in 1..Len(routes) :
                 /\ routes[m] \in Routes /\ routes[m].legs \in Seq(Legs)
                 /\ Len(routes[m].legs) \in Nat
<1>1. Len(routes) \in Nat /\ DOMAIN routes = 1..Len(routes)
  OBVIOUS
<1>2. ASSUME NEW m \in 1..Len(routes)
      PROVE  /\ routes[m] \in Routes /\ routes[m].legs \in Seq(Legs)
             /\ Len(routes[m].legs) \in Nat
  <2>1. routes[m] \in Routes
    OBVIOUS
  <2>2. routes[m].legs \in Seq(Legs)
    BY <2>1 DEF Routes
  <2>3. Len(routes[m].legs) \in Nat
    BY <2>2
  <2> QED BY <2>1, <2>2, <2>3
<1> QED BY <1>1, <1>2

\* One sequence after another.
LEMMA Appended ==
    ASSUME NEW S, NEW s \in Seq(S), NEW t \in Seq(S)
    PROVE  /\ s \o t \in Seq(S) /\ Len(s \o t) = Len(s) + Len(t)
           /\ \A i \in 1..Len(s) : (s \o t)[i] = s[i]
           /\ \A i \in 1..Len(t) : (s \o t)[Len(s) + i] = t[i]
OBVIOUS

\* `bounds`: each route ends where the one before it ended and its legs on.
LEMMA EndsAre ==
    ASSUME NEW routes \in Seq(Routes)
    PROVE  /\ \A m \in 0..Len(routes) : Ends(routes)[m] \in Nat
           /\ Ends(routes)[0] = 0
           /\ \A m \in 1..Len(routes) :
                Ends(routes)[m] = Ends(routes)[m - 1] + Len(routes[m].legs)
<1> DEFINE N == Len(routes)
           size(m) == Len(routes[m].legs)
           step == [m \in 1..N |-> [sum \in Nat |-> sum + size(m)]]
           Is(f) == f = [m \in 0..N |-> IF m = 0 THEN 0 ELSE f[m - 1] + size(m)]
<1>1. N \in Nat /\ \A m \in 1..N : size(m) \in Nat
  BY RoutesAre
<1>2. step \in [1..N -> [Nat -> Nat]]
  BY <1>1
<1>3. 0 \in Nat
  OBVIOUS
<1>4. PICK f \in [0..N -> Nat] : Iterates(f, N, 0, step)
  <2> HIDE DEF step, N
  <2> QED BY <1>1, <1>2, <1>3, Iteration, Zenon
<1> HIDE DEF N
<1>5. ASSUME NEW m \in 1..N PROVE f[m] = f[m - 1] + size(m)
  <2>1. m - 1 \in 0..N
    BY <1>1
  <2>2. f[m - 1] \in Nat
    BY <2>1
  <2> QED BY <1>4, <2>2 DEF Iterates
<1>6. Is(f)
  <2>1. f[0] = 0
    BY <1>4 DEF Iterates
  <2> QED BY <1>5, <2>1
<1>7. Is(Ends(routes))
  <2>1. Ends(routes) = CHOOSE g : Is(g)
    BY DEF Ends, N
  <2> HIDE DEF Is
  <2> QED BY <1>6, <2>1
<1> HIDE DEF step
<1> DEFINE e == Ends(routes)
<1>8. e = [m \in 0..N |-> IF m = 0 THEN 0 ELSE e[m - 1] + size(m)]
  BY <1>7
<1> HIDE DEF e, size
<1>9. e[0] = 0 /\ \A m \in 1..N : e[m] = e[m - 1] + size(m)
  BY <1>1, <1>8
<1>10. \A m \in 0..N : e[m] \in Nat
  <2> DEFINE Good == {m \in 0..N : e[m] \in Nat}
  <2>1. 0 \in Good
    BY <1>1, <1>9
  <2>2. ASSUME NEW m \in 1..N, m - 1 \in Good PROVE m \in Good
    <3>1. m - 1 \in 0..N /\ e[m - 1] \in Nat /\ size(m) \in Nat
      BY <1>1, <2>2
    <3> QED BY <1>9, <3>1
  <2>3. \A m \in 0..N : m \in Good
    <3> HIDE DEF Good
    <3> QED BY <1>1, <2>1, <2>2, UpTo
  <2> QED BY <2>3
<1> QED BY <1>9, <1>10 DEF e, N, size

LEMMA EndsInOrder ==
    ASSUME NEW routes \in Seq(Routes), NEW m \in 0..Len(routes), NEW n \in m..Len(routes)
    PROVE  Ends(routes)[m] <= Ends(routes)[n]
<1> DEFINE N == Len(routes)
           e == Ends(routes)
           Good == {k \in 0..N : k >= m => e[m] <= e[k]}
<1>1. /\ N \in Nat /\ m \in 0..N /\ n \in 0..N /\ n >= m
      /\ \A k \in 0..N : e[k] \in Nat
      /\ \A k \in 1..N : e[k] >= e[k - 1]
  <2>1. ASSUME NEW k \in 1..N PROVE e[k] >= e[k - 1]
    <3>1. k - 1 \in 0..N /\ Len(routes[k].legs) \in Nat
      BY RoutesAre
    <3>2. e[k - 1] \in Nat /\ e[k] = e[k - 1] + Len(routes[k].legs)
      BY <3>1, EndsAre
    <3> QED BY <3>1, <3>2
  <2> QED BY <2>1, EndsAre, RoutesAre
<1> HIDE DEF e, N
<1>2. 0 \in Good
  BY <1>1
<1>3. ASSUME NEW k \in 1..N, k - 1 \in Good PROVE k \in Good
  <2>1. k - 1 \in 0..N /\ k \in 0..N /\ e[k - 1] \in Nat /\ e[k] \in Nat /\ e[m] \in Nat
    BY <1>1
  <2>2. CASE k = m
    BY <2>1, <2>2
  <2>3. CASE k # m
    BY <1>1, <1>3, <2>1, <2>3
  <2> QED BY <2>2, <2>3
<1>4. \A k \in 0..N : k \in Good
  <2> HIDE DEF Good
  <2> QED BY <1>1, <1>2, <1>3, UpTo
<1> QED BY <1>1, <1>4 DEF e

\* A call holds every route's legs.
LEMMA EndsGrow ==
    ASSUME NEW routes \in Seq(Routes), NEW m \in 1..Len(routes)
    PROVE  /\ Ends(routes)[m - 1] + Len(routes[m].legs) <= Ends(routes)[Len(routes)]
           /\ Len(routes[m].legs) <= Ends(routes)[Len(routes)]
<1>1. Len(routes) \in Nat /\ m \in 0..Len(routes) /\ Len(routes) \in m..Len(routes)
      /\ Len(routes) \in 0..Len(routes) /\ m - 1 \in 0..Len(routes)
  BY RoutesAre
<1>2. Ends(routes)[m] <= Ends(routes)[Len(routes)]
  BY <1>1, EndsInOrder
<1>3. /\ Ends(routes)[m] = Ends(routes)[m - 1] + Len(routes[m].legs)
      /\ Ends(routes)[m - 1] \in Nat /\ Ends(routes)[Len(routes)] \in Nat
  BY <1>1, EndsAre
<1>4. Len(routes[m].legs) \in Nat
  BY RoutesAre
<1> QED BY <1>2, <1>3, <1>4

\* What is found from place a + 1 on is t.
LEMMA Excerpt ==
    ASSUME NEW S, NEW s \in Seq(S), NEW t \in Seq(S), NEW a \in Nat,
           a + Len(t) <= Len(s), \A j \in 1..Len(t) : s[a + j] = t[j]
    PROVE  SubSeq(s, a + 1, a + Len(t)) = t
<1> DEFINE u == SubSeq(s, a + 1, a + Len(t))
<1>1. u \in Seq(S) /\ Len(u) = Len(t)
  OBVIOUS
<1>2. \A j \in 1..Len(t) : u[j] = t[j]
  OBVIOUS
<1> HIDE DEF u
<1>3. u = t
  BY <1>1, <1>2
<1> QED BY <1>3 DEF u

\* Laid end to end, each route's legs are found where it says they are.
LEMMA LaidEndToEnd ==
    ASSUME NEW routes \in Seq(Routes), routes # <<>>
    PROVE  LET flat == FlattenSeq([m \in DOMAIN routes |-> routes[m].legs])
           IN  /\ flat \in Seq(Legs)
               /\ \A m \in 1..Len(routes) :
                     SubSeq(flat, Ends(routes)[m - 1] + 1, Ends(routes)[m]) = routes[m].legs
<1> DEFINE N == Len(routes)
           e == Ends(routes)
           legs == [m \in DOMAIN routes |-> routes[m].legs]
           step == [m \in 1..N |-> [sum \in Seq(Legs) |-> sum \o routes[m].legs]]
           Is(f) == f = [m \in 1..N |-> IF m = 1 THEN legs[m] ELSE f[m - 1] \o legs[m]]
<1>1. /\ N \in Nat /\ N >= 1 /\ DOMAIN routes = 1..N
      /\ \A m \in 1..N : routes[m].legs \in Seq(Legs)
  <2>1. Len(routes) >= 1
    BY RoutesAre
  <2> QED BY <2>1, RoutesAre
<1>2. Len(legs) = N /\ \A m \in 1..N : legs[m] = routes[m].legs
  BY <1>1
<1>3. step \in [1..N -> [Seq(Legs) -> Seq(Legs)]]
  BY <1>1
<1>4. <<>> \in Seq(Legs)
  OBVIOUS
<1>5. PICK f \in [0..N -> Seq(Legs)] : Iterates(f, N, <<>>, step)
  <2> HIDE DEF step, N
  <2> QED BY <1>1, <1>3, <1>4, Iteration, Zenon
<1> HIDE DEF N
<1>6. ASSUME NEW m \in 1..N PROVE f[m] = f[m - 1] \o routes[m].legs
  <2>1. m - 1 \in 0..N
    BY <1>1
  <2>2. f[m - 1] \in Seq(Legs)
    BY <2>1
  <2> QED BY <1>5, <2>2 DEF Iterates
<1>7. f[0] = <<>> /\ \A m \in 0..N : f[m] \in Seq(Legs)
  BY <1>5 DEF Iterates
<1> HIDE DEF legs, step
<1> DEFINE tail == [m \in 1..N |-> f[m]]
<1>8. Is(tail)
  <2>1. ASSUME NEW m \in 1..N
        PROVE  f[m] = IF m = 1 THEN legs[m] ELSE tail[m - 1] \o legs[m]
    <3>1. CASE m = 1
      <4>1. f[1] = f[0] \o routes[1].legs
        <5>1. 1 \in 1..N /\ 1 - 1 = 0
          BY <1>1
        <5> QED BY <1>6, <5>1
      <4>2. routes[1].legs \in Seq(Legs)
        BY <1>1
      <4>3. <<>> \o routes[1].legs = routes[1].legs
        BY <4>2
      <4> QED BY <1>1, <1>2, <1>7, <3>1, <4>1, <4>3
    <3>2. CASE m # 1
      <4>1. m - 1 \in 1..N
        BY <1>1, <3>2
      <4> QED BY <1>2, <1>6, <3>2, <4>1
    <3> QED BY <3>1, <3>2
  <2> QED BY <2>1
<1> DEFINE g == CHOOSE h : Is(h)
<1>9. g = [m \in 1..N |-> IF m = 1 THEN legs[m] ELSE g[m - 1] \o legs[m]]
  <2>1. Is(g)
    <3> HIDE DEF Is
    <3> QED BY <1>8
  <2> HIDE DEF g
  <2> QED BY <2>1
<1>10. FlattenSeq(legs) = g[N]
  BY <1>1, <1>2 DEF FlattenSeq, g
<1> HIDE DEF g, tail
<1> DEFINE Holds(s, k) ==
               /\ s \in Seq(Legs) /\ Len(s) = e[k]
               /\ \A m \in 1..k : \A j \in 1..Len(routes[m].legs) :
                     s[e[m - 1] + j] = routes[m].legs[j]
           Good == {k \in 0..N : k >= 1 => Holds(g[k], k)}
<1>11. /\ \A m \in 0..N : e[m] \in Nat
       /\ e[0] = 0
       /\ \A m \in 1..N : e[m] = e[m - 1] + Len(routes[m].legs)
  BY EndsAre DEF N
<1> HIDE DEF e
<1>12. 0 \in Good
  BY <1>1
<1>13. ASSUME NEW k \in 1..N, k - 1 \in Good PROVE k \in Good
  <2> DEFINE own == routes[k].legs
  <2>1. own \in Seq(Legs) /\ e[k] = e[k - 1] + Len(own) /\ e[k - 1] \in Nat /\ legs[k] = own
        /\ Len(own) \in Nat
    BY <1>1, <1>2, <1>11
  <2>2. CASE k = 1
    <3>1. g[1] = legs[1]
      BY <1>1, <1>9
    <3>2. e[0] = 0 /\ Len(own) = e[1]
      BY <1>11, <2>1, <2>2
    <3> QED BY <2>1, <2>2, <3>1, <3>2
  <2>3. CASE k # 1
    <3>1. k - 1 \in 1..N /\ Holds(g[k - 1], k - 1)
      BY <1>1, <1>13, <2>3
    <3>2. g[k] = g[k - 1] \o legs[k]
      BY <1>9, <2>3
    <3> DEFINE was == g[k - 1]
    <3>3. was \in Seq(Legs) /\ Len(was) = e[k - 1]
      BY <3>1
    <3>4. g[k] = was \o own
      BY <2>1, <3>2
    <3>5. g[k] \in Seq(Legs) /\ Len(g[k]) = e[k]
      <4>1. g[k] \in Seq(Legs) /\ Len(g[k]) = Len(was) + Len(own)
        <5>1. was \o own \in Seq(Legs) /\ Len(was \o own) = Len(was) + Len(own)
          <6> HIDE DEF was, own
          <6> QED BY <2>1, <3>3, Appended
        <5> QED BY <3>4, <5>1
      <4> QED BY <2>1, <3>3, <4>1
    <3>6. ASSUME NEW m \in 1..k, NEW j \in 1..Len(routes[m].legs)
          PROVE  g[k][e[m - 1] + j] = routes[m].legs[j]
      <4>1. CASE m = k
        <5>1. j \in 1..Len(own)
          BY <4>1
        <5>2. (was \o own)[Len(was) + j] = own[j]
          <6> HIDE DEF was, own
          <6> QED BY <2>1, <3>3, <5>1, Appended, SMTT(30)
        <5> QED BY <3>3, <3>4, <4>1, <5>2
      <4>2. CASE m # k
        <5>1. m \in 1..k - 1 /\ m - 1 \in 0..N /\ m \in 0..N /\ m \in 1..N
          BY <1>1, <4>2
        <5>2. was[e[m - 1] + j] = routes[m].legs[j]
          BY <3>1, <5>1
        <5>3. e[m - 1] + j \in 1..Len(was)
          <6>1. /\ e[m - 1] + Len(routes[m].legs) <= e[k - 1]
                /\ e[m - 1] \in Nat /\ Len(routes[m].legs) \in Nat /\ e[k - 1] \in Nat
            <7>1. m \in 0..Len(routes) /\ k - 1 \in m..Len(routes) /\ k - 1 \in 0..N
              BY <1>1, <4>2, <5>1 DEF N
            <7>2. e[m] <= e[k - 1]
              BY <7>1, EndsInOrder DEF e
            <7>3. Len(routes[m].legs) \in Nat
              BY <5>1, RoutesAre DEF N
            <7> QED BY <1>11, <5>1, <7>1, <7>2, <7>3
          <6> DEFINE a == e[m - 1]
                     b == e[k - 1]
                     c == Len(routes[m].legs)
          <6>2. j \in 1..c /\ a \in Nat /\ b \in Nat /\ c \in Nat /\ a + c <= b
            BY <6>1
          <6> HIDE DEF a, b, c
          <6>3. a + j \in 1..b
            BY <6>2
          <6> QED BY <3>3, <6>3 DEF a, b
        <5>4. (was \o own)[e[m - 1] + j] = was[e[m - 1] + j]
          <6> HIDE DEF was, own
          <6> QED BY <2>1, <3>3, <5>3, Appended
        <5> QED BY <3>4, <5>2, <5>4
      <4> QED BY <4>1, <4>2
    <3> QED BY <3>5, <3>6
  <2> QED BY <2>2, <2>3
<1>14. \A k \in 0..N : k \in Good
  <2> HIDE DEF Good
  <2> QED BY <1>1, <1>12, <1>13, UpTo
<1>15. Holds(g[N], N)
  BY <1>1, <1>14
<1>16. ASSUME NEW m \in 1..N
       PROVE  SubSeq(g[N], e[m - 1] + 1, e[m]) = routes[m].legs
  <2>1. /\ routes[m].legs \in Seq(Legs) /\ e[m - 1] \in Nat
        /\ e[m] = e[m - 1] + Len(routes[m].legs)
    <3>1. m - 1 \in 0..N
      BY <1>1
    <3> QED BY <1>1, <1>11, <3>1
  <2>2. e[m - 1] + Len(routes[m].legs) <= Len(g[N])
    BY <1>15, EndsGrow DEF e, N
  <2>3. g[N] \in Seq(Legs) /\ \A j \in 1..Len(routes[m].legs) : g[N][e[m - 1] + j] = routes[m].legs[j]
    BY <1>15
  <2>4. SubSeq(g[N], e[m - 1] + 1, e[m - 1] + Len(routes[m].legs)) = routes[m].legs
    <3> HIDE DEF Holds
    <3> QED BY <2>1, <2>2, <2>3, Excerpt
  <2> QED BY <2>1, <2>4
<1> QED BY <1>10, <1>15, <1>16 DEF legs, e, N
\* So every route of a call is walked as it would be on its own.
LEMMA QuotedEach ==
    ASSUME NEW routes \in Seq(Routes)
    PROVE  QuoteRoutes(routes) = [m \in 1..Len(routes) |-> WalkRoute(routes[m])]
<1> DEFINE flat == FlattenSeq([m \in DOMAIN routes |-> routes[m].legs])
           its(m) == SubSeq(flat, Ends(routes)[m - 1] + 1, Ends(routes)[m])
<1>1. DOMAIN routes = 1..Len(routes)
  BY RoutesAre
<1>2. QuoteRoutes(routes) =
        [m \in 1..Len(routes) |-> WalkRoute([routes[m] EXCEPT !.legs = its(m)])]
  BY <1>1 DEF QuoteRoutes, Start
<1>3. ASSUME NEW m \in 1..Len(routes)
      PROVE  [routes[m] EXCEPT !.legs = its(m)] = routes[m]
  <2>1. routes # <<>>
    BY <1>1
  <2>2. its(m) = routes[m].legs
    BY <2>1, LaidEndToEnd
  <2>3. routes[m] \in Routes
    BY RoutesAre
  <2>4. [routes[m] EXCEPT !.legs = routes[m].legs] = routes[m]
    BY <2>3 DEF Routes
  <2> HIDE DEF its
  <2> QED BY <2>2, <2>4
<1> HIDE DEF its
<1> QED BY <1>2, <1>3

\* A call of one route fails for that route alone.
LEMMA FailsAlone ==
    ASSUME NEW r \in Routes
    PROVE  /\ <<r>> \in Seq(Routes)
           /\ CallFails(<<r>>) <=>
                \/ Len(r.legs) > MAX_ALL_LEGS \/ 1 > MAX_ROUTES \/ Len(r.legs) > GasLegs
                \/ r.dst_slot >= MAX_SLOTS /\ ~WalkOf[r].dead
<1>1. <<r>> \in Seq(Routes) /\ Len(<<r>>) = 1 /\ <<r>>[1] = r /\ DOMAIN <<r>> = {1}
  OBVIOUS
<1>2. Len(r.legs) \in Nat
  BY DEF Routes
<1>3. Ends(<<r>>)[1] = Len(r.legs)
  <2> DEFINE one == <<r>>
  <2>1. one \in Seq(Routes) /\ Len(one) = 1 /\ one[1] = r
    BY <1>1
  <2> HIDE DEF one
  <2>2. Ends(one)[0] = 0 /\ \A m \in 1..Len(one) : Ends(one)[m] = Ends(one)[m - 1] + Len(one[m].legs)
    BY <2>1, EndsAre
  <2>3. 1 \in 1..Len(one) /\ 1 - 1 = 0
    BY <2>1
  <2>4. Ends(one)[1] = Ends(one)[0] + Len(one[1].legs)
    BY <2>2, <2>3
  <2> QED BY <1>2, <2>1, <2>2, <2>4 DEF one
<1> QED BY <1>1, <1>3 DEF CallFails

\* A call that is answered would have been for any of its routes alone.
LEMMA AnsweredTogether ==
    ASSUME NEW routes \in Seq(Routes), ~CallFails(routes), NEW m \in 1..Len(routes)
    PROVE  ~CallFails(<<routes[m]>>)
<1>1. routes[m] \in Routes /\ Len(routes[m].legs) \in Nat /\ Len(routes) \in Nat
      /\ DOMAIN routes = 1..Len(routes) /\ Len(routes) \in 0..Len(routes)
  BY RoutesAre
<1>2. Len(routes[m].legs) <= Ends(routes)[Len(routes)] /\ Ends(routes)[Len(routes)] \in Nat
  BY <1>1, EndsGrow, EndsAre
<1>3. MAX_ALL_LEGS \in Nat /\ MAX_ROUTES \in Nat /\ GasLegs \in Nat
  BY RequestAssumption
<1>4. /\ ~(Ends(routes)[Len(routes)] > MAX_ALL_LEGS) /\ ~(Len(routes) > MAX_ROUTES)
      /\ ~(Ends(routes)[Len(routes)] > GasLegs)
      /\ ~(routes[m].dst_slot >= MAX_SLOTS /\ ~WalkOf[routes[m]].dead)
  BY <1>1 DEF CallFails
<1>5. /\ ~(Len(routes[m].legs) > MAX_ALL_LEGS) /\ ~(1 > MAX_ROUTES)
      /\ ~(Len(routes[m].legs) > GasLegs)
  BY <1>1, <1>2, <1>3, <1>4
<1> QED BY <1>1, <1>4, <1>5, FailsAlone

----------------------------------------------------------------------------
(* The ranges.                                                             *)

\* The parts are ranges that follow one another from lo to hi.
Tiles(parts, lo, hi) ==
    /\ parts \in Seq(Nat \X Nat)
    /\ \A i \in 1..Len(parts) : parts[i][1] < parts[i][2] /\ parts[i][2] <= hi
    /\ \A i \in 1..Len(parts) - 1 : parts[i][2] = parts[i + 1][1]
    /\ IF parts = <<>> THEN lo = hi ELSE parts[1][1] = lo /\ parts[Len(parts)][2] = hi

LEMMA TilesFirst ==
    ASSUME NEW lo \in Nat, NEW mid \in Nat, NEW hi \in Nat, NEW parts,
           lo < mid, mid <= hi, Tiles(parts, mid, hi)
    PROVE  Tiles(<<<<lo, mid>>>> \o parts, lo, hi)
<1> DEFINE all == <<<<lo, mid>>>> \o parts
<1>1. parts \in Seq(Nat \X Nat) /\ <<<<lo, mid>>>> \in Seq(Nat \X Nat)
      /\ Len(<<<<lo, mid>>>>) = 1 /\ <<<<lo, mid>>>>[1] = <<lo, mid>>
  BY DEF Tiles
<1>2. /\ all \in Seq(Nat \X Nat) /\ Len(all) = Len(parts) + 1 /\ Len(parts) \in Nat
      /\ all[1] = <<lo, mid>> /\ \A i \in 1..Len(parts) : all[1 + i] = parts[i]
  BY <1>1
<1> HIDE DEF all
<1>3. \A i \in 2..Len(all) : i - 1 \in 1..Len(parts) /\ all[i] = parts[i - 1]
  <2> SUFFICES ASSUME NEW i \in 2..Len(all)
               PROVE  i - 1 \in 1..Len(parts) /\ all[i] = parts[i - 1]
    OBVIOUS
  <2>1. i - 1 \in 1..Len(parts) /\ i = 1 + (i - 1)
    BY <1>2
  <2> QED BY <1>2, <2>1
<1>4. \A i \in 1..Len(all) : all[i][1] < all[i][2] /\ all[i][2] <= hi
  <2> SUFFICES ASSUME NEW i \in 1..Len(all) PROVE all[i][1] < all[i][2] /\ all[i][2] <= hi
    OBVIOUS
  <2>1. CASE i = 1
    BY <1>2, <2>1
  <2>2. CASE i # 1
    <3>1. i \in 2..Len(all)
      BY <1>2, <2>2
    <3> QED BY <1>3, <3>1 DEF Tiles
  <2> QED BY <2>1, <2>2
<1>5. \A i \in 1..Len(all) - 1 : all[i][2] = all[i + 1][1]
  <2> SUFFICES ASSUME NEW i \in 1..Len(all) - 1 PROVE all[i][2] = all[i + 1][1]
    OBVIOUS
  <2>1. i + 1 \in 2..Len(all) /\ all[i + 1] = parts[i] /\ parts # <<>>
    BY <1>2
  <2>2. CASE i = 1
    BY <1>2, <2>1, <2>2, SMTT(30) DEF Tiles
  <2>3. CASE i # 1
    <3>1. i \in 2..Len(all) /\ i - 1 \in 1..Len(parts) - 1 /\ (i - 1) + 1 = i
      BY <1>2, <2>3
    <3>2. all[i] = parts[i - 1]
      BY <1>3, <3>1
    <3> QED BY <2>1, <3>1, <3>2 DEF Tiles
  <2> QED BY <2>2, <2>3
<1>6. all # <<>> /\ all[1][1] = lo /\ all[Len(all)][2] = hi
  <2>1. CASE parts = <<>>
    BY <1>2, <2>1 DEF Tiles
  <2>2. CASE parts # <<>>
    <3>1. Len(all) \in 2..Len(all) /\ Len(all) - 1 = Len(parts)
      BY <1>1, <1>2, <2>2
    <3>2. all[Len(all)] = parts[Len(parts)]
      BY <1>3, <3>1
    <3> QED BY <1>2, <2>2, <3>2 DEF Tiles
  <2> QED BY <2>1, <2>2
<1>7. Tiles(all, lo, hi)
  BY <1>2, <1>4, <1>5, <1>6 DEF Tiles
<1> QED BY <1>7 DEF all

LEMMA TilesRest ==
    ASSUME NEW lo \in Nat, NEW hi \in Nat, NEW parts, parts # <<>>, Tiles(parts, lo, hi)
    PROVE  /\ Head(parts)[1] = lo /\ Head(parts)[2] \in lo + 1..hi
           /\ Head(parts) = <<lo, Head(parts)[2]>>
           /\ Tiles(Tail(parts), Head(parts)[2], hi)
<1> DEFINE rest == Tail(parts)
<1>1. /\ parts \in Seq(Nat \X Nat) /\ Len(parts) \in Nat /\ Len(parts) >= 1
      /\ Head(parts) = parts[1] /\ parts[1] \in Nat \X Nat
  BY DEF Tiles
<1>2. /\ rest \in Seq(Nat \X Nat) /\ Len(rest) = Len(parts) - 1
      /\ \A i \in 1..Len(rest) : rest[i] = parts[i + 1]
  BY <1>1
<1>3. parts[1][1] = lo /\ parts[1][2] \in lo + 1..hi /\ parts[1] = <<lo, parts[1][2]>>
  BY <1>1 DEF Tiles
<1> HIDE DEF rest
<1>4. ASSUME NEW i \in 1..Len(rest) PROVE rest[i][1] < rest[i][2] /\ rest[i][2] <= hi
  <2>1. i + 1 \in 1..Len(parts)
    BY <1>1, <1>2
  <2> QED BY <1>2, <2>1 DEF Tiles
<1>5. ASSUME NEW i \in 1..Len(rest) - 1 PROVE rest[i][2] = rest[i + 1][1]
  <2>1. i \in 1..Len(rest) /\ i + 1 \in 1..Len(rest) /\ i + 1 \in 1..Len(parts) - 1
    BY <1>1, <1>2
  <2>2. parts[i + 1][2] = parts[(i + 1) + 1][1]
    BY <2>1 DEF Tiles
  <2> QED BY <1>2, <2>1, <2>2
<1>6. IF rest = <<>> THEN parts[1][2] = hi ELSE rest[1][1] = parts[1][2] /\ rest[Len(rest)][2] = hi
  <2>1. CASE rest = <<>>
    <3>1. Len(parts) = 1
      BY <1>1, <1>2, <2>1
    <3> QED BY <2>1, <3>1 DEF Tiles
  <2>2. CASE rest # <<>>
    <3>1. Len(rest) >= 1 /\ Len(rest) \in 1..Len(rest) /\ 1 \in 1..Len(rest)
          /\ 1 \in 1..Len(parts) - 1 /\ Len(rest) + 1 = Len(parts)
      BY <1>1, <1>2, <2>2
    <3>2. rest[1] = parts[1 + 1] /\ rest[Len(rest)] = parts[Len(parts)]
      BY <1>2, <3>1
    <3> QED BY <2>2, <3>1, <3>2 DEF Tiles
  <2> QED BY <2>1, <2>2
<1>7. Tiles(rest, parts[1][2], hi)
  BY <1>2, <1>4, <1>5, <1>6 DEF Tiles
<1> QED BY <1>1, <1>3, <1>7 DEF rest
\* `_batches` cuts a list into ranges that cover it.
LEMMA BatchEnds ==
    ASSUME NEW routes \in Seq(Routes), NEW lo \in 0..Len(routes) - 1
    PROVE  BatchEnd(routes, lo) \in lo + 1..Len(routes)
<1> DEFINE N == Len(routes)
           ends == {hi \in lo + 1..N : hi = N \/ ~Fits(routes, lo, hi + 1)}
<1>1. N \in Nat /\ lo \in Nat /\ lo + 1 <= N
  BY RoutesAre
<1>2. N \in ends /\ ends \in SUBSET Nat
  BY <1>1
<1>3. PICK hi \in ends : \A other \in ends : hi <= other
  <2> HIDE DEF ends
  <2> QED BY <1>2, OneIsLeast
<1>4. Fits(routes, lo, hi)
  <2>1. CASE hi = lo + 1
    BY <2>1 DEF Fits
  <2>2. CASE hi # lo + 1
    <3>1. hi - 1 \in lo + 1..N /\ hi - 1 < hi /\ (hi - 1) + 1 = hi
      BY <1>1, <1>3, <2>2
    <3>2. hi - 1 \notin ends
      <4> HIDE DEF ends
      <4> QED BY <1>2, <1>3, <3>1
    <3> QED BY <3>1, <3>2
  <2> QED BY <2>1, <2>2
<1>5. hi \in lo + 1..N /\ (hi = N \/ ~Fits(routes, lo, hi + 1))
  BY <1>3
<1> QED BY <1>4, <1>5 DEF BatchEnd

LEMMA BatchesTile ==
    ASSUME NEW routes \in Seq(Routes)
    PROVE  Tiles(Batches(routes), 0, Len(routes))
<1> DEFINE N == Len(routes)
           Parts == Seq(Nat \X Nat)
           end(lo) == BatchEnd(routes, lo)
           Body(f, lo) == IF lo = N THEN <<>> ELSE <<<<lo, end(lo)>>>> \o f[end(lo)]
           Is(f) == f = [lo \in 0..N |-> Body(f, lo)]
           Good == {k \in 0..N : \E f \in [0..N -> Parts] :
                                     \A lo \in N - k..N : f[lo] = Body(f, lo)}
<1>1. N \in Nat
  BY RoutesAre
<1>2. \A lo \in 0..N - 1 : end(lo) \in lo + 1..N
  BY BatchEnds
<1> HIDE DEF N, end
<1>3. 0 \in Good
  <2> DEFINE f == [lo \in 0..N |-> <<>>]
  <2>1. f \in [0..N -> Parts] /\ f[N] = <<>>
    BY <1>1
  <2> HIDE DEF f, Parts
  <2>2. \A lo \in N - 0..N : lo = N
    BY <1>1
  <2> QED BY <1>1, <2>1, <2>2
<1>4. ASSUME NEW k \in 1..N, k - 1 \in Good PROVE k \in Good
  <2>1. PICK f \in [0..N -> Parts] : \A lo \in N - (k - 1)..N : f[lo] = Body(f, lo)
    BY <1>4
  <2> DEFINE at0 == N - k
             part == <<<<at0, end(at0)>>>> \o f[end(at0)]
             g == [f EXCEPT ![at0] = part]
  <2>2. at0 \in 0..N - 1 /\ at0 \in Nat /\ end(at0) \in at0 + 1..N /\ end(at0) \in 0..N
    BY <1>1, <1>2
  <2>3. part \in Parts
    <3>1. f[end(at0)] \in Parts
      BY <2>2
    <3> QED BY <2>2, <3>1
  <2>4. g \in [0..N -> Parts] /\ g[at0] = part /\ \A lo \in 0..N \ {at0} : g[lo] = f[lo]
    BY <1>1, <2>2, <2>3
  <2> HIDE DEF g
  <2>5. ASSUME NEW lo \in N - k..N PROVE g[lo] = Body(g, lo)
    <3>1. CASE lo = at0
      <4>1. g[end(at0)] = f[end(at0)]
        BY <2>2, <2>4
      <4>2. at0 # N
        BY <1>1, <2>2
      <4>3. Body(g, at0) = <<<<at0, end(at0)>>>> \o g[end(at0)]
        BY <4>2
      <4>4. g[at0] = <<<<at0, end(at0)>>>> \o f[end(at0)]
        BY <2>4
      <4> HIDE DEF at0, Body
      <4> QED BY <3>1, <4>1, <4>3, <4>4
    <3>2. CASE lo # at0
      <4>1. lo \in N - (k - 1)..N /\ lo \in 0..N
        BY <1>1, <3>2
      <4>2. g[lo] = f[lo] /\ f[lo] = Body(f, lo)
        BY <2>1, <2>4, <3>2, <4>1
      <4>3. lo # N => g[end(lo)] = f[end(lo)]
        <5>1. lo # N => lo \in 0..N - 1
          BY <1>1, <4>1
        <5>2. lo # N => end(lo) \in 0..N \ {at0}
          BY <1>1, <1>2, <4>1, <5>1
        <5> QED BY <2>4, <5>2
      <4> QED BY <4>2, <4>3
    <3> QED BY <3>1, <3>2
  <2> HIDE DEF Body, Parts
  <2>6. g \in [0..N -> Parts] /\ \A lo \in N - k..N : g[lo] = Body(g, lo)
    BY <2>4, <2>5
  <2>7. \E h \in [0..N -> Parts] : \A lo \in N - k..N : h[lo] = Body(h, lo)
    BY <2>6
  <2>8. k \in 0..N
    BY <1>1
  <2> QED BY <2>7, <2>8, Zenon
<1>5. \A k \in 0..N : k \in Good
  <2> HIDE DEF Good
  <2> QED BY <1>1, <1>3, <1>4, UpTo
<1>6. PICK f \in [0..N -> Parts] : \A lo \in N - N..N : f[lo] = Body(f, lo)
  <2>1. N \in Good
    <3> HIDE DEF Good
    <3> QED BY <1>1, <1>5
  <2> HIDE DEF Body, Parts
  <2> QED BY <2>1
<1>7. \A lo \in 0..N : f[lo] = Body(f, lo)
  BY <1>1, <1>6
<1>8. Is(f)
  BY <1>7
<1> DEFINE g == CHOOSE h : Is(h)
<1>9. g = [lo \in 0..N |-> Body(g, lo)]
  <2>1. Is(g)
    <3> HIDE DEF Is
    <3> QED BY <1>8
  <2> HIDE DEF g
  <2> QED BY <2>1
<1>10. Batches(routes) = g[0]
  BY DEF Batches, g, N, end
<1> HIDE DEF g
<1> DEFINE Fine == {k \in 0..N : \A lo \in N - k..N : Tiles(g[lo], lo, N)}
<1>11. 0 \in Fine
  <2>1. g[N] = <<>>
    BY <1>1, <1>9
  <2>2. Tiles(g[N], N, N)
    BY <2>1 DEF Tiles
  <2>3. \A lo \in N - 0..N : lo = N
    BY <1>1
  <2> QED BY <1>1, <2>2, <2>3
<1>12. ASSUME NEW k \in 1..N, k - 1 \in Fine PROVE k \in Fine
  <2> DEFINE lo0 == N - k
             hi0 == end(lo0)
  <2>1. lo0 \in 0..N - 1 /\ lo0 \in Nat /\ hi0 \in Nat /\ lo0 < hi0 /\ hi0 <= N
        /\ hi0 \in N - (k - 1)..N
    BY <1>1, <1>2
  <2>2. g[lo0] = <<<<lo0, hi0>>>> \o g[hi0]
    <3>1. lo0 \in 0..N /\ lo0 # N
      BY <1>1, <2>1
    <3>2. g[lo0] = Body(g, lo0)
      <4> HIDE DEF lo0, Body
      <4> QED BY <1>9, <3>1
    <3> QED BY <3>1, <3>2
  <2> HIDE DEF hi0
  <2>3. Tiles(g[hi0], hi0, N)
    BY <1>12, <2>1
  <2>4. Tiles(g[lo0], lo0, N)
    BY <1>1, <2>1, <2>2, <2>3, TilesFirst
  <2>5. \A lo \in N - k..N : lo = lo0 \/ lo \in N - (k - 1)..N
    BY <1>1
  <2> QED BY <1>12, <2>4, <2>5
<1>13. \A k \in 0..N : k \in Fine
  <2> HIDE DEF Fine
  <2> QED BY <1>1, <1>11, <1>12, UpTo
<1>14. N \in Fine
  <2> HIDE DEF Fine
  <2> QED BY <1>1, <1>13
<1>15. Tiles(g[0], 0, N)
  BY <1>1, <1>14
<1> QED BY <1>10, <1>15 DEF N
----------------------------------------------------------------------------
(* The client: each answer in its own place.                               *)

Answers == {0} \cup {WalkRoute(r) : r \in Routes}

\* What a route is worth asked of the contract alone.
OnItsOwn(r) == IF CallFails(<<r>>) THEN 0 ELSE WalkRoute(r)

\* The routes, and those that go to the chain, in the order they came in.
Listed ==
    /\ wanted \in Seq(Routes) /\ at \in 1..Len(wanted) + 1
    /\ holes \in Seq(1..Len(wanted))
    /\ \A i, j \in 1..Len(holes) : i < j => holes[i] < holes[j]
    /\ pc \in {"walk", "chain", "done"}
    /\ pc = "walk" =>
          /\ \A i \in 1..Len(holes) : holes[i] < at
          /\ asked = <<>> /\ chunks = <<>> /\ out = <<>> /\ lost = {}
    /\ pc # "walk" => asked = [i \in 1..Len(holes) |-> wanted[holes[i]]]

\* What has not been lost has been answered for itself.
Own == \A m \in 1..Len(out) : m \notin lost => out[m] = OnItsOwn(asked[m])

\* What has been answered, what is still to be sent, and no gap between.
Answering ==
    /\ asked \in Seq(Routes) /\ out \in Seq(Answers)
    /\ Tiles(chunks, Len(out), Len(asked))
    /\ lost \subseteq 1..Len(out) /\ \A m \in lost : out[m] = 0
    /\ Own

LEMMA OwnNext ==
    ASSUME \A m \in 1..Len(out') : m \notin lost' => out'[m] = OnItsOwn(asked'[m])
    PROVE  Own'
BY DEF Own, OnItsOwn, CallFails, WalkRoute, WalkOf

LEMMA InitAnswering == ExactInit => Listed /\ Answering
<1> SUFFICES ASSUME ExactInit PROVE Listed /\ Answering
  OBVIOUS
<1>1. wanted \in Seq(Routes)
  BY RequestAssumption DEF ExactInit
<1>2. Listed
  BY <1>1 DEF ExactInit, Listed
<1>3. Answering
  BY DEF ExactInit, Answering, Own, Tiles
<1> QED BY <1>2, <1>3

\* The routes a call is made of.
LEMMA SentIs ==
    ASSUME Answering, chunks # <<>>
    PROVE  /\ Chunk = <<Len(out), Chunk[2]>> /\ Chunk[2] \in Len(out) + 1..Len(asked)
           /\ Tiles(Tail(chunks), Chunk[2], Len(asked))
           /\ Sent \in Seq(Routes) /\ Len(Sent) = Chunk[2] - Len(out)
           /\ \A m \in 1..Len(Sent) :
                 Len(out) + m \in 1..Len(asked) /\ Sent[m] = asked[Len(out) + m]
<1>1. Len(out) \in Nat /\ Len(asked) \in Nat /\ Tiles(chunks, Len(out), Len(asked))
      /\ asked \in Seq(Routes)
  BY DEF Answering
<1>2. /\ Chunk = <<Len(out), Chunk[2]>> /\ Chunk[1] = Len(out)
      /\ Chunk[2] \in Len(out) + 1..Len(asked)
      /\ Tiles(Tail(chunks), Chunk[2], Len(asked))
  BY <1>1, TilesRest DEF Chunk
<1> DEFINE hi == Chunk[2]
           lo == Len(out)
<1>3. Sent = SubSeq(asked, lo + 1, hi)
  BY <1>2 DEF Sent
<1>4. hi \in lo + 1..Len(asked) /\ lo \in Nat
  BY <1>1, <1>2
<1> HIDE DEF hi, lo
<1>5. /\ Sent \in Seq(Routes) /\ Len(Sent) = hi - lo
      /\ \A m \in 1..Len(Sent) : lo + m \in 1..Len(asked) /\ Sent[m] = asked[lo + m]
  BY <1>1, <1>3, <1>4
<1> QED BY <1>2, <1>5 DEF hi, lo

LEMMA AnswersOn ==
    ASSUME NEW more \in Seq(Answers), out \in Seq(Answers), out' = out \o more
    PROVE  /\ out' \in Seq(Answers) /\ Len(out') = Len(out) + Len(more)
           /\ \A m \in 1..Len(out) : out'[m] = out[m]
           /\ \A m \in 1..Len(more) : out'[Len(out) + m] = more[m]
           /\ Len(more) \in Nat
<1> DEFINE S == Answers
           s == out
           t == out'
<1>1. s \in Seq(S) /\ more \in Seq(S) /\ t = s \o more
  OBVIOUS
<1> HIDE DEF S, s, t
<1>2. /\ t \in Seq(S) /\ Len(t) = Len(s) + Len(more)
      /\ \A m \in 1..Len(s) : t[m] = s[m]
      /\ \A m \in 1..Len(more) : t[Len(s) + m] = more[m]
      /\ Len(more) \in Nat
  BY <1>1
<1> QED BY <1>2 DEF S, s, t

\* The next answers, once they are in.
LEMMA AnswersJoin ==
    ASSUME Answering, chunks # <<>>, NEW more \in Seq(Answers), Len(more) = Len(Sent),
           out' = out \o more, chunks' = Tail(chunks), asked' = asked,
           lost \subseteq lost', lost' \subseteq lost \cup Members,
           \A m \in 1..Len(Sent) :
              IF Len(out) + m \in lost' THEN more[m] = 0 ELSE more[m] = OnItsOwn(Sent[m])
    PROVE  Answering'
<1> DEFINE n == Len(out)
<1>1. /\ n \in Nat /\ Chunk[1] = n /\ Chunk[2] \in n + 1..Len(asked)
      /\ Tiles(Tail(chunks), Chunk[2], Len(asked))
      /\ Len(more) = Chunk[2] - n /\ Len(asked) \in Nat
      /\ \A m \in 1..Len(Sent) : Sent[m] = asked[n + m]
      /\ out \in Seq(Answers) /\ asked \in Seq(Routes)
  BY SentIs DEF Answering
<1>2. /\ out' \in Seq(Answers) /\ Len(out') = n + Len(more)
      /\ \A m \in 1..n : out'[m] = out[m]
      /\ \A m \in 1..Len(more) : out'[n + m] = more[m]
      /\ Len(more) \in Nat
  BY <1>1, AnswersOn
<1> HIDE DEF n
<1>3. Len(out') = Chunk[2]
  BY <1>1, <1>2
<1>4. lost' \subseteq 1..Len(out')
  BY <1>1, <1>3 DEF Members, Answering, n
<1>5. ASSUME NEW m \in 1..Len(out'), m \notin lost' PROVE out'[m] = OnItsOwn(asked[m])
  <2>1. CASE m <= n
    <3>1. m \in 1..n
      BY <1>1, <2>1
    <3> QED BY <1>2, <1>5, <3>1 DEF Answering, Own, n
  <2>2. CASE m > n
    <3>1. m - n \in 1..Len(more) /\ n + (m - n) = m
      <4> DEFINE all == Len(out')
                 q == Len(more)
      <4>1. m \in 1..all /\ all = n + q /\ n \in Nat /\ q \in Nat
        BY <1>1, <1>2
      <4> HIDE DEF all, q
      <4>2. m - n \in 1..q /\ n + (m - n) = m
        BY <2>2, <4>1
      <4> QED BY <4>2 DEF q
    <3>2. more[m - n] = OnItsOwn(Sent[m - n])
      BY <1>5, <3>1 DEF n
    <3> DEFINE i == m - n
    <3>3. i \in 1..Len(more) /\ i \in 1..Len(Sent) /\ n + i = m /\ more[i] = OnItsOwn(Sent[i])
      BY <3>1, <3>2
    <3> HIDE DEF i
    <3>4. out'[m] = more[i]
      BY <1>2, <3>3
    <3>5. Sent[i] = asked[m]
      BY <1>1, <3>3
    <3> QED BY <3>3, <3>4, <3>5, Zenon
  <2> QED BY <1>1, <2>1, <2>2
<1>9. ASSUME NEW m \in lost' PROVE out'[m] = 0
  <2>1. CASE m \in lost
    <3>1. out[m] = 0 /\ m \in 1..n
      BY <2>1 DEF Answering, n
    <3> QED BY <1>2, <3>1
  <2>2. CASE m \notin lost
    <3>1. m \in n + 1..Chunk[2]
      BY <1>1, <2>2 DEF Members
    <3> DEFINE i == m - n
    <3>2. i \in 1..Len(more) /\ n + i = m
      BY <1>1, <3>1
    <3> HIDE DEF i
    <3>3. more[i] = 0
      BY <3>2 DEF n
    <3> QED BY <1>2, <3>2, <3>3
  <2> QED BY <2>1, <2>2
<1>6. Tiles(chunks', Len(out'), Len(asked'))
  BY <1>1, <1>3
<1>7. \A m \in 1..Len(out') : m \notin lost' => out'[m] = OnItsOwn(asked'[m])
  BY <1>5
<1>8. Own'
  BY <1>7, OwnNext
<1> QED BY <1>1, <1>2, <1>4, <1>6, <1>8, <1>9 DEF Answering

LEMMA OneByOne ==
    ASSUME NEW S, NEW a \in S, NEW b \in S, NEW rest \in Seq(S)
    PROVE  <<a, b>> \o rest = <<a>> \o (<<b>> \o rest)
<1> DEFINE u == <<a, b>> \o rest
           v == <<b>> \o rest
           w == <<a>> \o v
<1>1. u \in Seq(S) /\ Len(u) = 2 + Len(rest) /\ Len(rest) \in Nat /\ u[1] = a /\ u[2] = b
      /\ \A i \in 1..Len(rest) : u[2 + i] = rest[i]
  OBVIOUS
<1>2. v \in Seq(S) /\ Len(v) = 1 + Len(rest) /\ v[1] = b
      /\ \A i \in 1..Len(rest) : v[1 + i] = rest[i]
  OBVIOUS
<1> HIDE DEF u, v
<1>3. w \in Seq(S) /\ Len(w) = 1 + Len(v) /\ w[1] = a
      /\ \A i \in 1..Len(v) : w[1 + i] = v[i]
  BY <1>2
<1> HIDE DEF w
<1>4. ASSUME NEW i \in 1..Len(u) PROVE u[i] = w[i]
  <2>1. CASE i = 1
    BY <1>1, <1>3, <2>1
  <2>2. CASE i = 2
    <3>1. 1 \in 1..Len(v) /\ 1 + 1 = 2
      BY <1>1, <1>2
    <3> QED BY <1>1, <1>2, <1>3, <2>2, <3>1
  <2>3. CASE i > 2
    <3>1. i - 2 \in 1..Len(rest) /\ i - 1 \in 1..Len(v) /\ 2 + (i - 2) = i
          /\ 1 + (i - 2) = i - 1 /\ 1 + (i - 1) = i
      BY <1>1, <1>2, <2>3
    <3>2. u[i] = rest[i - 2] /\ v[i - 1] = rest[i - 2] /\ w[i] = v[i - 1]
      BY <1>1, <1>2, <1>3, <3>1
    <3> QED BY <3>2
  <2> QED BY <1>1, <2>1, <2>2, <2>3
<1>5. u = w
  BY <1>1, <1>2, <1>3, <1>4
<1> QED BY <1>5 DEF u, v, w

LEMMA TwoParts ==
    ASSUME NEW lo \in Nat, NEW mid \in Nat, NEW hi \in Nat, NEW rest \in Seq(Nat \X Nat)
    PROVE  <<<<lo, mid>>, <<mid, hi>>>> \o rest = <<<<lo, mid>>>> \o (<<<<mid, hi>>>> \o rest)
<1> DEFINE P == Nat \X Nat
           a == <<lo, mid>>
           b == <<mid, hi>>
<1>1. a \in P /\ b \in P /\ rest \in Seq(P)
  OBVIOUS
<1> HIDE DEF P, a, b
<1>2. <<a, b>> \o rest = <<a>> \o (<<b>> \o rest)
  BY <1>1, OneByOne
<1> QED BY <1>2 DEF a, b

LEMMA NextAnswering == Answering /\ Next => Answering'
<1> SUFFICES ASSUME Answering, Next PROVE Answering'
  OBVIOUS
<1>1. chunks # <<>> /\ asked' = asked
  BY DEF Next, Answered, Failed, Garbled
<1>2. /\ Sent \in Seq(Routes) /\ Len(Sent) \in Nat /\ Chunk[1] = Len(out) /\ Len(out) \in Nat
      /\ Len(Sent) = Chunk[2] - Len(out) /\ Len(asked) \in Nat
      /\ Chunk[2] \in Len(out) + 1..Len(asked)
      /\ Tiles(Tail(chunks), Chunk[2], Len(asked))
  BY <1>1, SentIs DEF Answering
<1>3. ASSUME NEW m \in 1..Len(Sent) PROVE Len(out) + m \in Members
  BY <1>2 DEF Members
<1>4. CASE Answered
  <2> DEFINE more == QuoteRoutes(Sent)
  <2>1. more = [m \in 1..Len(Sent) |-> WalkRoute(Sent[m])]
    BY <1>2, QuotedEach
  <2>2. more \in Seq(Answers) /\ Len(more) = Len(Sent)
    <3>1. \A m \in 1..Len(Sent) : WalkRoute(Sent[m]) \in Answers
      <4>1. \A m \in 1..Len(Sent) : Sent[m] \in Routes
        BY <1>2
      <4> QED BY <4>1 DEF Answers
    <3> QED BY <1>2, <2>1, <3>1, SMTT(30)
  <2>3. \A m \in 1..Len(Sent) : more[m] = OnItsOwn(Sent[m])
    <3>1. \A m \in 1..Len(Sent) : ~CallFails(<<Sent[m]>>)
      BY <1>2, <1>4, AnsweredTogether DEF Answered
    <3> QED BY <2>1, <3>1 DEF OnItsOwn
  <2> HIDE DEF more
  <2>4. out' = out \o more /\ chunks' = Tail(chunks) /\ lost' = lost
    BY <1>4 DEF Answered, more
  <2>5. \A m \in 1..Len(Sent) : Len(out) + m \notin lost
    BY <1>2 DEF Answering
  <2> QED BY <1>1, <2>2, <2>3, <2>4, <2>5, AnswersJoin
<1>5. CASE Failed /\ Halve
  <2> DEFINE lo == Chunk[1]
             hi == Chunk[2]
             mid == lo + (hi - lo) \div 2
             rest == Tail(chunks)
  <2>1. out' = out /\ lost' = lost /\ chunks' = <<<<lo, mid>>, <<mid, hi>>>> \o rest
        /\ hi # lo + 1
    BY <1>5 DEF Halve, Halves, Alone
  <2>2. lo \in Nat /\ hi \in Nat /\ mid \in Nat /\ lo < mid /\ mid < hi /\ hi <= Len(asked)
    BY <1>2, <2>1, SMTT(30)
  <2>3. rest \in Seq(Nat \X Nat) /\ Tiles(rest, hi, Len(asked))
    BY <1>2 DEF Tiles
  <2> HIDE DEF mid, lo, hi, rest
  <2>4. <<<<lo, mid>>, <<mid, hi>>>> \o rest = <<<<lo, mid>>>> \o (<<<<mid, hi>>>> \o rest)
    BY <2>2, <2>3, TwoParts, ZenonT(60)
  <2>5. Tiles(<<<<mid, hi>>>> \o rest, mid, Len(asked))
    BY <1>2, <2>2, <2>3, TilesFirst
  <2>6. Tiles(<<<<lo, mid>>>> \o (<<<<mid, hi>>>> \o rest), lo, Len(asked))
    BY <1>2, <2>2, <2>5, TilesFirst
  <2>7. Tiles(chunks', Len(out'), Len(asked'))
    BY <1>1, <1>2, <2>1, <2>4, <2>6 DEF lo
  <2>8. Own'
    BY <1>1, <2>1, OwnNext DEF Answering, Own
  <2> QED BY <1>1, <2>1, <2>7, <2>8 DEF Answering
<1>6. CASE Failed /\ GiveUp
  <2>1. /\ out' = out \o <<0>> /\ chunks' = Tail(chunks)
        /\ lost' = IF CallFails(Sent) THEN lost ELSE lost \cup Members
        /\ Chunk[2] = Chunk[1] + 1
    BY <1>6 DEF GiveUp, Alone, Answering
  <2>2. Len(Sent) = 1 /\ Sent = <<Sent[1]>> /\ Sent[1] \in Routes
    <3>1. Len(Sent) = 1
      BY <1>2, <2>1
    <3> DEFINE s == Sent
    <3>2. s \in Seq(Routes) /\ Len(s) = 1
      BY <1>2, <3>1
    <3> HIDE DEF s
    <3>3. s = <<s[1]>> /\ s[1] \in Routes
      BY <3>2
    <3> QED BY <3>1, <3>3 DEF s
  <2>3. <<0>> \in Seq(Answers) /\ Len(<<0>>) = Len(Sent)
    BY <2>2 DEF Answers
  <2>4. ASSUME NEW m \in 1..Len(Sent), Len(out) + m \notin lost'
        PROVE  <<0>>[m] = OnItsOwn(Sent[m])
    <3>1. m = 1 /\ Len(out) + m \in Members
      BY <1>3, <2>2
    <3>2. CallFails(Sent)
      BY <2>1, <2>4, <3>1
    <3>3. CallFails(<<Sent[1]>>)
      BY <2>2, <3>2
    <3> QED BY <3>1, <3>3 DEF OnItsOwn
  <2>5. \A m \in 1..Len(Sent) : <<0>>[m] = 0
    BY <2>2
  <2> QED BY <1>1, <2>1, <2>3, <2>4, <2>5, AnswersJoin
<1>7. CASE Garbled
  <2> DEFINE more == [m \in 1..Len(Sent) |-> 0]
  <2>1. more \in Seq(Answers) /\ Len(more) = Len(Sent)
    BY <1>2 DEF Answers
  <2>2. out' = out \o more /\ chunks' = Tail(chunks) /\ lost' = lost \cup Members
    BY <1>7 DEF Garbled
  <2>3. \A m \in 1..Len(Sent) : Len(out) + m \in lost' /\ more[m] = 0
    BY <1>3, <2>2
  <2> HIDE DEF more
  <2> QED BY <1>1, <2>1, <2>2, <2>3, AnswersJoin
<1> QED BY <1>4, <1>5, <1>6, <1>7 DEF Next, Failed

\* A route goes to the chain after those that went before it.
LEMMA HoleNext ==
    ASSUME NEW N \in Nat, NEW hs \in Seq(1..N), NEW k \in 1..N,
           \A i, j \in 1..Len(hs) : i < j => hs[i] < hs[j],
           \A i \in 1..Len(hs) : hs[i] < k
    PROVE  LET more == Append(hs, k)
           IN  /\ more \in Seq(1..N)
               /\ \A i, j \in 1..Len(more) : i < j => more[i] < more[j]
               /\ \A i \in 1..Len(more) : more[i] < k + 1
<1> DEFINE more == Append(hs, k)
<1>1. /\ more \in Seq(1..N) /\ Len(more) = Len(hs) + 1 /\ Len(hs) \in Nat
      /\ more[Len(hs) + 1] = k /\ \A i \in 1..Len(hs) : more[i] = hs[i] /\ hs[i] \in 1..N
  OBVIOUS
<1> HIDE DEF more
<1>2. \A i \in 1..Len(more) : i \in 1..Len(hs) \/ i = Len(hs) + 1
  BY <1>1
<1>3. ASSUME NEW i \in 1..Len(more), NEW j \in 1..Len(more), i < j
      PROVE  more[i] < more[j]
  <2>1. i \in 1..Len(hs) /\ more[i] = hs[i]
    BY <1>1, <1>2, <1>3, SMTT(30)
  <2>2. CASE j \in 1..Len(hs)
    BY <1>1, <1>3, <2>1, <2>2
  <2>3. CASE j = Len(hs) + 1
    BY <1>1, <2>1, <2>3
  <2> QED BY <1>2, <2>2, <2>3
<1>4. ASSUME NEW i \in 1..Len(more) PROVE more[i] < k + 1
  <2>1. CASE i \in 1..Len(hs)
    <3>1. more[i] = hs[i] /\ hs[i] < k /\ hs[i] \in Nat
      BY <1>1, <2>1
    <3> QED BY <3>1
  <2>2. CASE i = Len(hs) + 1
    BY <1>1, <2>2
  <2> QED BY <1>2, <2>1, <2>2
<1> QED BY <1>1, <1>3, <1>4 DEF more

\* What is common to the steps of the walk.
LEMMA WalkStepIs ==
    ASSUME Listed, SkipLeg \/ PriceLeg \/ WalkEnds \/ CannotQuote \/ Refuses
    PROVE  /\ pc = "walk" /\ pc' = "walk" /\ wanted' = wanted /\ UNCHANGED vars
           /\ at \in 1..Len(wanted) /\ at' \in {at, at + 1}
           /\ holes' \in {holes, Append(holes, at)}
           /\ holes' # holes => at' = at + 1
<1> USE DEF Walking, OnALeg, Trading, Concludes, ToTheChain
<1>1. pc = "walk" /\ at <= Len(wanted) /\ UNCHANGED vars
  BY DEF SkipLeg, PriceLeg, WalkEnds, CannotQuote, Refuses
<1>2. at \in 1..Len(wanted)
  BY <1>1 DEF Listed
<1>3. pc' = "walk" /\ wanted' = wanted /\ at' \in {at, at + 1}
      /\ holes' \in {holes, Append(holes, at)} /\ (holes' # holes => at' = at + 1)
  BY <1>1 DEF SkipLeg, PriceLeg, WalkEnds, CannotQuote, Refuses, Unwalkable
<1> QED BY <1>1, <1>2, <1>3

LEMMA NextListed == Listed /\ Answering /\ [ExactNext]_<<vars, exact>> => Listed' /\ Answering'
<1> SUFFICES ASSUME Listed, Answering, [ExactNext]_<<vars, exact>> PROVE Listed' /\ Answering'
  OBVIOUS
<1>1. CASE SkipLeg \/ PriceLeg \/ WalkEnds \/ CannotQuote \/ Refuses
  <2>1. /\ pc = "walk" /\ pc' = "walk" /\ wanted' = wanted /\ UNCHANGED vars
        /\ at \in 1..Len(wanted) /\ at' \in {at, at + 1}
        /\ holes' \in {holes, Append(holes, at)} /\ (holes' # holes => at' = at + 1)
    BY <1>1, WalkStepIs
  <2>2. Answering'
    <3>1. asked' = asked /\ chunks' = chunks /\ out' = out /\ lost' = lost
      BY <2>1 DEF vars
    <3>2. Own'
      BY <3>1, OwnNext DEF Answering, Own
    <3> QED BY <3>1, <3>2 DEF Answering
  <2>3. asked' = asked /\ chunks' = chunks /\ out' = out /\ lost' = lost
    BY <2>1 DEF vars
  <2>4. wanted \in Seq(Routes) /\ Len(wanted) \in Nat /\ at' \in 1..Len(wanted) + 1
    BY <2>1 DEF Listed
  <2>5. /\ holes' \in Seq(1..Len(wanted))
        /\ \A i, j \in 1..Len(holes') : i < j => holes'[i] < holes'[j]
        /\ \A i \in 1..Len(holes') : holes'[i] < at'
    <3>1. /\ holes \in Seq(1..Len(wanted)) /\ \A i \in 1..Len(holes) : holes[i] < at
          /\ \A i, j \in 1..Len(holes) : i < j => holes[i] < holes[j]
      BY <2>1 DEF Listed
    <3>2. CASE holes' = holes
      <4>1. \A i \in 1..Len(holes) : holes[i] \in 1..Len(wanted)
        BY <3>1
      <4> QED BY <2>1, <2>4, <3>1, <3>2, <4>1
    <3>3. CASE holes' # holes
      BY <2>1, <2>4, <3>1, <3>3, HoleNext
    <3> QED BY <3>2, <3>3
  <2>6. Listed'
    BY <2>1, <2>3, <2>4, <2>5 DEF Listed
  <2> QED BY <2>2, <2>6
<1>2. CASE SendHoles
  <2>1. /\ pc = "walk" /\ pc' = "chain" /\ wanted' = wanted /\ at' = at
        /\ holes' = (IF enabled THEN holes ELSE [m \in DOMAIN wanted |-> m])
        /\ asked' = [i \in DOMAIN holes' |-> wanted[holes'[i]]]
        /\ chunks' = Batches(asked') /\ out' = out /\ lost' = lost
    BY <1>2 DEF SendHoles
  <2>2. /\ wanted \in Seq(Routes) /\ Len(wanted) \in Nat /\ DOMAIN wanted = 1..Len(wanted)
        /\ out = <<>> /\ lost = {} /\ at \in 1..Len(wanted) + 1
    BY <2>1 DEF Listed
  <2>3. /\ holes' \in Seq(1..Len(wanted))
        /\ \A i, j \in 1..Len(holes') : i < j => holes'[i] < holes'[j]
    <3>1. CASE enabled
      BY <2>1, <3>1 DEF Listed
    <3>2. CASE ~enabled
      BY <2>1, <2>2, <3>2
    <3> QED BY <3>1, <3>2
  <2>4. asked' = [i \in 1..Len(holes') |-> wanted[holes'[i]]]
    BY <2>1, <2>3
  <2>5. asked' \in Seq(Routes)
    <3>1. \A i \in 1..Len(holes') : wanted[holes'[i]] \in Routes
      <4>1. \A i \in 1..Len(holes') : holes'[i] \in 1..Len(wanted)
        BY <2>3
      <4> QED BY <2>2, <4>1
    <3>2. Len(holes') \in Nat
      BY <2>3
    <3> QED BY <2>4, <3>1, <3>2
  <2>6. Listed'
    BY <2>1, <2>2, <2>3, <2>4 DEF Listed
  <2>7. Tiles(chunks', Len(out'), Len(asked'))
    BY <2>1, <2>2, <2>5, BatchesTile
  <2>8. Own'
    BY <2>1, <2>2, OwnNext
  <2>9. out' \in Seq(Answers) /\ lost' \subseteq 1..Len(out') /\ \A m \in lost' : out'[m] = 0
    BY <2>1, <2>2
  <2> QED BY <2>5, <2>6, <2>7, <2>8, <2>9 DEF Answering
<1>3. CASE Client
  <2>1. pc = "chain" /\ Next /\ UNCHANGED exact
    BY <1>3 DEF Client
  <2>2. Answering'
    BY <2>1, NextAnswering
  <2>3. asked' = asked
    BY <2>1 DEF Next, Answered, Failed, Garbled
  <2> QED BY <2>1, <2>2, <2>3 DEF Listed, exact
<1>4. CASE FillHoles
  <2>1. /\ wanted' = wanted /\ at' = at /\ holes' = holes /\ pc = "chain" /\ pc' = "done"
        /\ asked' = asked /\ chunks' = chunks /\ out' = out /\ lost' = lost
    BY <1>4 DEF FillHoles, vars
  <2>2. Own'
    BY <2>1, OwnNext DEF Answering, Own
  <2> QED BY <2>1, <2>2 DEF Listed, Answering
<1>5. CASE UNCHANGED <<vars, exact>>
  <2>1. /\ wanted' = wanted /\ at' = at /\ holes' = holes /\ pc' = pc
        /\ asked' = asked /\ chunks' = chunks /\ out' = out /\ lost' = lost
    BY <1>5 DEF vars, exact
  <2>2. Own'
    BY <2>1, OwnNext DEF Answering, Own
  <2> QED BY <2>1, <2>2 DEF Listed, Answering
<1> QED BY <1>1, <1>2, <1>3, <1>4, <1>5 DEF ExactNext

\* What a route is quoted alone, in the words of the property.
LEMMA AloneIs ==
    ASSUME NEW r \in Routes
    PROVE  OnItsOwn(r) = IF CallFails(<<r>>) THEN 0 ELSE QuoteRoutes(<<r>>)[1]
<1>1. <<r>> \in Seq(Routes) /\ Len(<<r>>) = 1 /\ <<r>>[1] = r
  OBVIOUS
<1>2. QuoteRoutes(<<r>>) = [m \in 1..1 |-> WalkRoute(<<r>>[m])]
  BY <1>1, QuotedEach
<1>3. QuoteRoutes(<<r>>)[1] = WalkRoute(r)
  BY <1>1, <1>2
<1> QED BY <1>3 DEF OnItsOwn

\* No more has been answered than was asked.
LEMMA AnsweredFew ==
    ASSUME Answering
    PROVE  Len(out) \in Nat /\ Len(asked) \in Nat /\ Len(out) <= Len(asked)
<1>1. out \in Seq(Answers) /\ Len(out) \in Nat /\ Len(asked) \in Nat
      /\ asked \in Seq(Routes) /\ Tiles(chunks, Len(out), Len(asked))
  BY DEF Answering
<1>2. CASE chunks = <<>>
  BY <1>1, <1>2 DEF Tiles
<1>3. CASE chunks # <<>>
  <2>1. Head(chunks)[2] \in Len(out) + 1..Len(asked)
    BY <1>1, <1>3, TilesRest
  <2> QED BY <1>1, <2>1
<1> QED BY <1>2, <1>3

LEMMA AnsweredAlone == Answering => QuotedAlone
<1> SUFFICES ASSUME Answering, NEW m \in DOMAIN out, m \notin lost
             PROVE  out[m] = IF CallFails(<<asked[m]>>) THEN 0 ELSE QuoteRoutes(<<asked[m]>>)[1]
  BY DEF QuotedAlone
<1>1. out \in Seq(Answers) /\ asked \in Seq(Routes)
  BY DEF Answering
<1>2. m \in 1..Len(out) /\ asked[m] \in Routes
  BY <1>1, AnsweredFew
<1>3. out[m] = OnItsOwn(asked[m])
  BY <1>2 DEF Answering, Own
<1> QED BY <1>2, <1>3, AloneIs

LEMMA ExactInvariant == ExactSpec => [](Listed /\ Answering)
<1>1. ExactInit => Listed /\ Answering
  BY InitAnswering
<1>2. Listed /\ Answering /\ [ExactNext]_<<vars, exact>> => (Listed /\ Answering)'
  BY NextListed
<1> QED BY <1>1, <1>2, PTL DEF ExactSpec

\* Whatever the limits, the list and the calls that fail, a route is quoted what
\* it would be quoted alone: RouteQuoter.quote_routes lays the legs of a batch end to
\* end and core/quoter.py cuts and halves the batch, and neither can be told from
\* the answer.
THEOREM EachAlone ==
    ExactSpec => []QuotedAlone
BY ExactInvariant, AnsweredAlone, PTL

----------------------------------------------------------------------------
(* A route's books as they are kept.                                       *)

Books == [bal: [Walk!Slot -> Nat], cur: Nat \cup {NoSlot}, base: Nat]

\* A share of a natural is a natural.
LEMMA ShareIs ==
    ASSUME NEW a \in Nat, NEW bps \in Nat
    PROVE  (a * bps) \div BPS \in Nat
<1> DEFINE p == a * bps
<1>1. p \in Nat /\ BPS \in Nat \ {0}
  BY RequestAssumption
<1> HIDE DEF p
<1>2. p \div BPS \in Nat
  BY <1>1
<1> QED BY <1>2 DEF p

LEMMA SpendIs ==
    ASSUME NEW b \in Books, NEW l \in Legs, l.src \in Walk!Slot
    PROVE  /\ Walk!Base(b, l) \in Nat
           /\ Walk!Spend(b, l) \in Nat /\ Walk!Spend(b, l) <= b.bal[l.src]
<1>1. b.bal[l.src] \in Nat /\ l.bps \in Nat /\ b.base \in Nat
  BY DEF Books, Legs
<1>2. Walk!Base(b, l) \in Nat
  BY <1>1 DEF Walk!Base
<1> DEFINE share == (Walk!Base(b, l) * l.bps) \div BPS
<1>3. share \in Nat
  BY <1>1, <1>2, ShareIs
<1>4. Walk!Spend(b, l) =
        IF l.bps = 0 \/ share > b.bal[l.src] THEN b.bal[l.src] ELSE share
  BY DEF Walk!Spend
<1> HIDE DEF share
<1> QED BY <1>1, <1>2, <1>3, <1>4

LEMMA AfterIs ==
    ASSUME NEW b \in Books, NEW l \in Legs, l.src \in Walk!Slot, l.dst \in Walk!Slot,
           NEW value \in Nat
    PROVE  Walk!After(b, l, value) \in Books
<1> DEFINE dx == Walk!Spend(b, l)
           spent == [b.bal EXCEPT ![l.src] = @ - dx]
           paid == [spent EXCEPT ![l.dst] = @ + value]
<1>1. /\ dx \in Nat /\ dx <= b.bal[l.src] /\ Walk!Base(b, l) \in Nat
      /\ b.bal \in [Walk!Slot -> Nat] /\ l.src \in Nat
  BY SpendIs DEF Books, Legs
<1>2. Walk!After(b, l, value) =
        [bal |-> IF dx = 0 THEN b.bal ELSE paid, cur |-> l.src, base |-> Walk!Base(b, l)]
  BY DEF Walk!After
<1> HIDE DEF dx
<1>3. b.bal[l.src] - dx \in Nat
  BY <1>1
<1>4. spent \in [Walk!Slot -> Nat]
  BY <1>1, <1>3
<1> HIDE DEF spent
<1>5. paid \in [Walk!Slot -> Nat]
  BY <1>4
<1> HIDE DEF paid
<1> QED BY <1>1, <1>2, <1>5 DEF Books

LEMMA OpenedIs ==
    ASSUME NEW a \in Nat PROVE Walk!Opened(a) \in Books
BY DEF Walk!Opened, Books

\* A leg on the route's slots is a leg on the accumulator.
LEMMA OnTheSlots ==
    ASSUME NEW r \in Routes, NEW l \in Legs, Walk!InRange(r, l)
    PROVE  l.src \in Walk!Slot /\ l.dst \in Walk!Slot
<1>1. MAX_SLOTS \in Nat
  BY RequestAssumption
<1> QED BY <1>1 DEF Walk!InRange, Walk!Slot, Routes, Legs

----------------------------------------------------------------------------
(* What a pool answers, and how it stands.                                 *)

Stands == {pool \in [in: Nat, minted: Int] : pool.in + pool.minted >= 0}

LEMMA UntouchedStands == Untouched \in Stands
BY DEF Untouched, Stands

LEMMA MaxWithNothing ==
    ASSUME NEW x \in Int PROVE Max({0, x}) = IF x > 0 THEN x ELSE 0
<1>1. \A y \in {0, x} : (IF x > 0 THEN x ELSE 0) >= y
  OBVIOUS
<1> QED BY <1>1 DEF Max

LEMMA WornIs ==
    ASSUME NEW l \in Legs, NEW pool \in Stands
    PROVE  Worn(l.kind, pool) \in Nat
BY DEF Worn, Legs, Stands

LEMMA QuoteIs ==
    ASSUME NEW l \in Legs, NEW dx \in Nat, NEW pool \in Stands
    PROVE  /\ PoolQuote(l, dx, pool) \in Nat
           /\ dx = 0 => PoolQuote(l, dx, pool) = 0
           /\ PoolQuote(l, dx, pool) > 0 =>
                 PoolQuote(l, dx, pool) + Worn(l.kind, pool) = dx * Pays[l.target]
<1> DEFINE paid == dx * Pays[l.target]
           worn == Worn(l.kind, pool)
<1>1. Pays[l.target] \in Nat
  BY RequestAssumption DEF Legs
<1>2. paid \in Nat /\ (dx = 0 => paid = 0)
  BY <1>1
<1>3. worn \in Nat
  BY WornIs
<1>4. PoolQuote(l, dx, pool) = IF paid - worn > 0 THEN paid - worn ELSE 0
  <2>1. PoolQuote(l, dx, pool) = Max({0, paid - worn})
    BY DEF PoolQuote
  <2> HIDE DEF paid, worn
  <2> QED BY <1>2, <1>3, <2>1, MaxWithNothing
<1> HIDE DEF paid, worn
<1>5. /\ PoolQuote(l, dx, pool) \in Nat /\ (dx = 0 => PoolQuote(l, dx, pool) = 0)
      /\ PoolQuote(l, dx, pool) > 0 => PoolQuote(l, dx, pool) + worn = paid
  BY <1>2, <1>3, <1>4
<1> QED BY <1>5 DEF paid, worn

\* A pool that has answered something stands as a pool may.
LEMMA PoolAfter ==
    ASSUME NEW l \in Legs, NEW dx \in Nat, NEW pool \in Stands,
           PoolQuote(l, dx, pool) > 0
    PROVE  AfterLeg(pool, l, dx, PoolQuote(l, dx, pool)) \in Stands
<1> DEFINE value == PoolQuote(l, dx, pool)
           rate == Pays[l.target]
           worn == Worn(l.kind, pool)
<1>1. value \in Nat /\ value > 0 /\ value + worn = dx * rate /\ worn \in Nat /\ rate \in Nat
  BY QuoteIs, WornIs, RequestAssumption DEF Legs
<1>2. /\ pool \in [in: Nat, minted: Int] /\ pool.in \in Nat /\ pool.minted \in Int
      /\ pool.in + pool.minted >= 0
  BY DEF Stands
<1>3. l.kind = "WITHDRAW" => worn = pool.in + pool.minted
  BY DEF Worn
<1>4. l.kind \in {"SWAP", "DEPOSIT", "WITHDRAW", "RATE"}
  BY DEF Legs
<1>5. AfterLeg(pool, l, dx, value) =
        CASE l.kind = "SWAP" -> [pool EXCEPT !.in = @ + dx]
          [] l.kind = "DEPOSIT" -> [in |-> pool.in + dx, minted |-> pool.minted + value]
          [] l.kind = "WITHDRAW" -> [in |-> pool.in + value, minted |-> pool.minted - dx]
          [] l.kind = "RATE" -> pool
  BY DEF AfterLeg
<1> HIDE DEF value, worn, rate
<1>6. dx <= dx * rate
  <2>1. CASE rate = 0
    BY <1>1, <2>1
  <2>2. CASE rate >= 1
    BY <1>1, <2>2
  <2> QED BY <1>1, <2>1, <2>2
<1>7. CASE l.kind = "SWAP"
  BY <1>2, <1>5, <1>7 DEF Stands, value
<1>8. CASE l.kind = "DEPOSIT"
  <2>1. AfterLeg(pool, l, dx, value) = [in |-> pool.in + dx, minted |-> pool.minted + value]
    BY <1>5, <1>8
  <2> QED BY <1>1, <1>2, <2>1 DEF Stands, value
<1>9. CASE l.kind = "WITHDRAW"
  <2>1. AfterLeg(pool, l, dx, value) = [in |-> pool.in + value, minted |-> pool.minted - dx]
    BY <1>5, <1>9
  <2>2. (pool.in + value) + (pool.minted - dx) >= 0
    <3> DEFINE paid == dx * rate
    <3>1. value + worn = paid /\ dx <= paid /\ paid \in Int /\ worn = pool.in + pool.minted
      BY <1>1, <1>3, <1>6, <1>9
    <3> HIDE DEF paid
    <3> QED BY <1>1, <1>2, <3>1
  <2> QED BY <1>1, <1>2, <2>1, <2>2 DEF Stands, value
<1>10. CASE l.kind = "RATE"
  BY <1>5, <1>10 DEF value
<1> QED BY <1>4, <1>7, <1>8, <1>9, <1>10

----------------------------------------------------------------------------
(* A route run, and a route quoted of pools that stand as they were read.  *)

Ran == [dead: BOOLEAN, books: Books, pools: [Pool -> Stands]]
Quoted == [dead: BOOLEAN, books: Books]

RunTo(r) ==
    LET after[n \in 0..Len(r.legs)] ==
          IF n = 0 THEN [dead |-> FALSE, books |-> Walk!Opened(r.amount_in),
                         pools |-> [p \in Pool |-> Untouched]]
          ELSE LET was == after[n - 1] IN RunLeg(r, was, r.legs[n])
    IN  after

WalkedTo(r) ==
    LET after[n \in 0..Len(r.legs)] ==
          IF n = 0 THEN [dead |-> FALSE, books |-> Walk!Opened(r.amount_in)]
          ELSE LET was == after[n - 1] IN WalkLeg(r, was, r.legs[n])
    IN  after

LEMMA RouteIs ==
    ASSUME NEW r \in Routes
    PROVE  /\ Len(r.legs) \in Nat /\ r.legs \in Seq(Legs) /\ DOMAIN r.legs = 1..Len(r.legs)
           /\ r.amount_in \in Nat /\ r.dst_slot \in Nat
           /\ \A n \in 1..Len(r.legs) : r.legs[n] \in Legs /\ r.legs[n].target \in Pool
<1>1. r.legs \in Seq(Legs) /\ r.amount_in \in Nat /\ r.dst_slot \in Nat
  BY DEF Routes
<1>2. \A n \in 1..Len(r.legs) : r.legs[n] \in Legs
  BY <1>1
<1>3. \A l \in Legs : l.target \in Pool
  BY ModelAssumption DEF Legs
<1> QED BY <1>1, <1>2, <1>3

\* What a leg leaves is a state a run can be in.
LEMMA RunLegIs ==
    ASSUME NEW r \in Routes, NEW l \in Legs, l.target \in Pool, NEW was \in Ran
    PROVE  /\ RunLeg(r, was, l) \in Ran
           /\ was.dead => RunLeg(r, was, l).dead
<1> DEFINE dx == Walk!Spend(was.books, l)
           pool == was.pools[l.target]
           value == PoolQuote(l, dx, pool)
           Dead == was.dead \/ ~Walk!InRange(r, l) \/ (dx > 0 /\ value = 0)
           next == [dead |-> FALSE, books |-> Walk!After(was.books, l, value),
                    pools |-> IF dx = 0 THEN was.pools
                              ELSE [was.pools EXCEPT ![l.target] = AfterLeg(@, l, dx, value)]]
<1>1. RunLeg(r, was, l) = IF Dead THEN [was EXCEPT !.dead = TRUE] ELSE next
  BY DEF RunLeg
<1>2. was.books \in Books /\ was.pools \in [Pool -> Stands] /\ was.dead \in BOOLEAN
      /\ pool \in Stands
  BY DEF Ran
<1>3. ASSUME Dead PROVE RunLeg(r, was, l) \in Ran /\ RunLeg(r, was, l).dead
  BY <1>1, <1>3 DEF Ran
<1>4. ASSUME ~Dead PROVE RunLeg(r, was, l) \in Ran /\ ~was.dead
  <2>1. l.src \in Walk!Slot /\ l.dst \in Walk!Slot
    BY <1>4, OnTheSlots
  <2>2. dx \in Nat
    BY <1>2, <2>1, SpendIs
  <2> HIDE DEF pool
  <2>3. value \in Nat /\ (dx # 0 => value > 0)
    <3>1. value \in Nat
      <4> HIDE DEF dx
      <4> QED BY <1>2, <2>2, QuoteIs
    <3> HIDE DEF value
    <3> QED BY <1>4, <2>2, <3>1
  <2>4. Walk!After(was.books, l, value) \in Books
    <3> HIDE DEF value
    <3> QED BY <1>2, <2>1, <2>3, AfterIs
  <2>5. next.pools \in [Pool -> Stands]
    <3>1. CASE dx = 0
      BY <1>2, <3>1
    <3>2. CASE dx # 0
      <4>1. AfterLeg(pool, l, dx, value) \in Stands
        <5> HIDE DEF dx
        <5>1. PoolQuote(l, dx, pool) > 0
          BY <2>3, <3>2
        <5> QED BY <1>2, <2>2, <5>1, PoolAfter
      <4>2. next.pools = [was.pools EXCEPT ![l.target] = AfterLeg(pool, l, dx, value)]
        BY <3>2 DEF pool
      <4> HIDE DEF dx, value, next
      <4> QED BY <1>2, <4>1, <4>2
    <3> QED BY <3>1, <3>2
  <2>6. next \in Ran
    <3> DEFINE books == Walk!After(was.books, l, value)
               pools == next.pools
    <3>1. next = [dead |-> FALSE, books |-> books, pools |-> pools]
      OBVIOUS
    <3>2. books \in Books /\ pools \in [Pool -> Stands]
      BY <2>4, <2>5
    <3> HIDE DEF next, books, pools
    <3> QED BY <3>1, <3>2 DEF Ran
  <2> HIDE DEF next
  <2> QED BY <1>1, <1>2, <1>4, <2>6
<1> QED BY <1>3, <1>4

LEMMA RunStart ==
    ASSUME NEW r \in Routes
    PROVE  [dead |-> FALSE, books |-> Walk!Opened(r.amount_in),
            pools |-> [p \in Pool |-> Untouched]] \in Ran
<1>1. Walk!Opened(r.amount_in) \in Books
  BY RouteIs, OpenedIs
<1> QED BY <1>1, UntouchedStands DEF Ran

LEMMA RunToIs ==
    ASSUME NEW r \in Routes
    PROVE  /\ \A n \in 0..Len(r.legs) : RunTo(r)[n] \in Ran
           /\ RunTo(r)[0] = [dead |-> FALSE, books |-> Walk!Opened(r.amount_in),
                             pools |-> [p \in Pool |-> Untouched]]
           /\ \A n \in 1..Len(r.legs) : RunTo(r)[n] = RunLeg(r, RunTo(r)[n - 1], r.legs[n])
<1> DEFINE N == Len(r.legs)
           start == [dead |-> FALSE, books |-> Walk!Opened(r.amount_in),
                     pools |-> [p \in Pool |-> Untouched]]
           legOf(n) == r.legs[n]
           step == [n \in 1..N |-> [was \in Ran |-> RunLeg(r, was, legOf(n))]]
           Is(f) == f = [n \in 0..N |-> IF n = 0 THEN start ELSE RunLeg(r, f[n - 1], legOf(n))]
<1>1. N \in Nat /\ \A n \in 1..N : legOf(n) \in Legs /\ legOf(n).target \in Pool
  BY RouteIs
<1>2. start \in Ran
  BY RunStart
<1> HIDE DEF N, start, legOf
<1>3. step \in [1..N -> [Ran -> Ran]]
  <2>1. ASSUME NEW n \in 1..N, NEW was \in Ran PROVE RunLeg(r, was, legOf(n)) \in Ran
    BY <1>1, RunLegIs
  <2> QED BY <2>1
<1>4. PICK f \in [0..N -> Ran] : Iterates(f, N, start, step)
  <2> HIDE DEF step
  <2> QED BY <1>1, <1>2, <1>3, Iteration, Zenon
<1>5. ASSUME NEW n \in 1..N PROVE f[n] = RunLeg(r, f[n - 1], legOf(n)) /\ f[n - 1] \in Ran
  <2>1. n - 1 \in 0..N
    BY <1>1
  <2>2. f[n - 1] \in Ran
    BY <2>1
  <2>3. f[n] = step[n][f[n - 1]]
    BY <1>4 DEF Iterates
  <2> QED BY <2>2, <2>3
<1>6. Is(f)
  <2>1. f[0] = start
    BY <1>4 DEF Iterates
  <2> QED BY <1>5, <2>1
<1> DEFINE g == CHOOSE h : Is(h)
<1>7. RunTo(r) = g
  BY DEF RunTo, g, N, start, legOf
<1>8. Is(g)
  <2> HIDE DEF Is
  <2> QED BY <1>6
<1> HIDE DEF g, step
<1>9. g[0] = start /\ \A n \in 1..N : g[n] = RunLeg(r, g[n - 1], legOf(n))
  <2>1. g = [n \in 0..N |-> IF n = 0 THEN start ELSE RunLeg(r, g[n - 1], legOf(n))]
    BY <1>8
  <2> QED BY <1>1, <2>1
<1>10. \A n \in 0..N : g[n] \in Ran
  <2> DEFINE Good == {n \in 0..N : g[n] \in Ran}
  <2>1. 0 \in Good
    BY <1>1, <1>2, <1>9
  <2>2. ASSUME NEW n \in 1..N, n - 1 \in Good PROVE n \in Good
    <3>1. g[n - 1] \in Ran /\ legOf(n) \in Legs /\ legOf(n).target \in Pool
      BY <1>1, <2>2
    <3>2. g[n] = RunLeg(r, g[n - 1], legOf(n))
      BY <1>9
    <3>3. RunLeg(r, g[n - 1], legOf(n)) \in Ran
      BY <3>1, RunLegIs
    <3> QED BY <1>1, <3>2, <3>3
  <2>3. \A n \in 0..N : n \in Good
    <3> HIDE DEF Good
    <3> QED BY <1>1, <2>1, <2>2, UpTo
  <2> QED BY <2>3
<1> QED BY <1>7, <1>9, <1>10 DEF N, start, legOf

LEMMA WalkLegIs ==
    ASSUME NEW r \in Routes, NEW l \in Legs, NEW was \in Quoted
    PROVE  WalkLeg(r, was, l) \in Quoted
<1> DEFINE dx == Walk!Spend(was.books, l)
           value == PoolQuote(l, dx, Untouched)
           next == [was EXCEPT !.books = Walk!After(@, l, value)]
<1>1. WalkLeg(r, was, l) = IF was.dead \/ Dies(r, l, was.books) THEN [was EXCEPT !.dead = TRUE]
                           ELSE next
  BY DEF WalkLeg
<1>2. was.books \in Books /\ was.dead \in BOOLEAN
  BY DEF Quoted
<1>3. CASE was.dead \/ Dies(r, l, was.books)
  BY <1>1, <1>3 DEF Quoted
<1>4. CASE ~(was.dead \/ Dies(r, l, was.books))
  <2>1. l.src \in Walk!Slot /\ l.dst \in Walk!Slot
    BY <1>4, OnTheSlots DEF Dies
  <2>2. dx \in Nat
    BY <1>2, <2>1, SpendIs
  <2>3. value \in Nat
    <3> HIDE DEF dx
    <3> QED BY <2>2, QuoteIs, UntouchedStands
  <2>4. Walk!After(was.books, l, value) \in Books
    <3> HIDE DEF value
    <3> QED BY <1>2, <2>1, <2>3, AfterIs
  <2>5. next \in Quoted
    <3> HIDE DEF value
    <3> QED BY <2>4 DEF Quoted
  <2> HIDE DEF next
  <2> QED BY <1>1, <1>4, <2>5
<1> QED BY <1>3, <1>4

LEMMA WalkedToIs ==
    ASSUME NEW r \in Routes
    PROVE  /\ \A n \in 0..Len(r.legs) : WalkedTo(r)[n] \in Quoted
           /\ WalkedTo(r)[0] = [dead |-> FALSE, books |-> Walk!Opened(r.amount_in)]
           /\ \A n \in 1..Len(r.legs) : WalkedTo(r)[n] = WalkLeg(r, WalkedTo(r)[n - 1], r.legs[n])
<1> DEFINE N == Len(r.legs)
           start == [dead |-> FALSE, books |-> Walk!Opened(r.amount_in)]
           legOf(n) == r.legs[n]
           step == [n \in 1..N |-> [was \in Quoted |-> WalkLeg(r, was, legOf(n))]]
           Is(f) == f = [n \in 0..N |-> IF n = 0 THEN start ELSE WalkLeg(r, f[n - 1], legOf(n))]
<1>1. N \in Nat /\ \A n \in 1..N : legOf(n) \in Legs
  BY RouteIs
<1>2. start \in Quoted
  BY RouteIs, OpenedIs DEF Quoted
<1> HIDE DEF N, start, legOf
<1>3. step \in [1..N -> [Quoted -> Quoted]]
  <2>1. ASSUME NEW n \in 1..N, NEW was \in Quoted PROVE WalkLeg(r, was, legOf(n)) \in Quoted
    BY <1>1, WalkLegIs
  <2> QED BY <2>1
<1>4. PICK f \in [0..N -> Quoted] : Iterates(f, N, start, step)
  <2> HIDE DEF step
  <2> QED BY <1>1, <1>2, <1>3, Iteration, Zenon
<1>5. ASSUME NEW n \in 1..N PROVE f[n] = WalkLeg(r, f[n - 1], legOf(n)) /\ f[n - 1] \in Quoted
  <2>1. n - 1 \in 0..N
    BY <1>1
  <2>2. f[n - 1] \in Quoted
    BY <2>1
  <2>3. f[n] = step[n][f[n - 1]]
    BY <1>4 DEF Iterates
  <2> QED BY <2>2, <2>3
<1>6. Is(f)
  <2>1. f[0] = start
    BY <1>4 DEF Iterates
  <2> QED BY <1>5, <2>1
<1> DEFINE g == CHOOSE h : Is(h)
<1>7. WalkedTo(r) = g
  BY DEF WalkedTo, g, N, start, legOf
<1>8. Is(g)
  <2> HIDE DEF Is
  <2> QED BY <1>6
<1> HIDE DEF g, step
<1>9. g[0] = start /\ \A n \in 1..N : g[n] = WalkLeg(r, g[n - 1], legOf(n))
  <2>1. g = [n \in 0..N |-> IF n = 0 THEN start ELSE WalkLeg(r, g[n - 1], legOf(n))]
    BY <1>8
  <2> QED BY <1>1, <2>1
<1>10. \A n \in 0..N : g[n] \in Quoted
  <2> DEFINE Good == {n \in 0..N : g[n] \in Quoted}
  <2>1. 0 \in Good
    BY <1>1, <1>2, <1>9
  <2>2. ASSUME NEW n \in 1..N, n - 1 \in Good PROVE n \in Good
    <3>1. g[n - 1] \in Quoted /\ legOf(n) \in Legs
      BY <1>1, <2>2
    <3>2. g[n] = WalkLeg(r, g[n - 1], legOf(n))
      BY <1>9
    <3>3. WalkLeg(r, g[n - 1], legOf(n)) \in Quoted
      BY <3>1, WalkLegIs
    <3> QED BY <1>1, <3>2, <3>3
  <2>3. \A n \in 0..N : n \in Good
    <3> HIDE DEF Good
    <3> QED BY <1>1, <2>1, <2>2, UpTo
  <2> QED BY <2>3
<1> QED BY <1>7, <1>9, <1>10 DEF N, start, legOf

LEMMA StartsOpened ==
    ASSUME NEW r \in Routes
    PROVE  /\ RunTo(r)[0].dead = FALSE /\ RunTo(r)[0].books = Walk!Opened(r.amount_in)
           /\ \A p \in Pool : RunTo(r)[0].pools[p] = Untouched
           /\ WalkedTo(r)[0].dead = FALSE /\ WalkedTo(r)[0].books = Walk!Opened(r.amount_in)
<1> DEFINE f == RunTo(r)[0]
           g == WalkedTo(r)[0]
           opened == Walk!Opened(r.amount_in)
           pools == [p \in Pool |-> Untouched]
<1>1. f = [dead |-> FALSE, books |-> opened, pools |-> pools]
  BY RunToIs
<1>2. g = [dead |-> FALSE, books |-> opened]
  BY WalkedToIs
<1>3. \A p \in Pool : pools[p] = Untouched
  OBVIOUS
<1> HIDE DEF f, g, opened, pools
<1>4. f.dead = FALSE /\ f.books = opened /\ f.pools = pools
  BY <1>1
<1>5. g.dead = FALSE /\ g.books = opened
  BY <1>2
<1> QED BY <1>3, <1>4, <1>5 DEF f, g, opened

\* Once dead, a run stays dead.
LEMMA DeadStays ==
    ASSUME NEW r \in Routes, NEW n \in 0..Len(r.legs), RunTo(r)[n].dead
    PROVE  RunTo(r)[Len(r.legs)].dead
<1> DEFINE N == Len(r.legs)
           f == RunTo(r)
           Good == {k \in 0..N : k >= n => f[k].dead}
<1>1. /\ N \in Nat /\ n \in 0..N /\ f[n].dead
      /\ \A k \in 1..N : f[k - 1].dead => f[k].dead
  <2>1. ASSUME NEW k \in 1..N PROVE f[k - 1].dead => f[k].dead
    <3>1. k - 1 \in 0..N
      BY RouteIs
    <3>2. f[k - 1] \in Ran /\ f[k] = RunLeg(r, f[k - 1], r.legs[k])
      BY <3>1, RunToIs
    <3>3. r.legs[k] \in Legs /\ r.legs[k].target \in Pool
      BY RouteIs
    <3> HIDE DEF f
    <3> QED BY <3>2, <3>3, RunLegIs
  <2> QED BY <2>1, RouteIs
<1> HIDE DEF f, N
<1>2. 0 \in Good
  BY <1>1
<1>3. ASSUME NEW k \in 1..N, k - 1 \in Good PROVE k \in Good
  <2>1. CASE k = n
    BY <1>1, <2>1
  <2>2. CASE k # n
    BY <1>1, <1>3, <2>2
  <2> QED BY <2>1, <2>2
<1>4. \A k \in 0..N : k \in Good
  <2> HIDE DEF Good
  <2> QED BY <1>1, <1>2, <1>3, UpTo
<1> QED BY <1>1, <1>4 DEF f, N

\* Two legs through a pool are two.
LEMMA TwoAreTwo ==
    ASSUME NEW S, IsFiniteSet(S), NEW a \in S, NEW b \in S, a # b
    PROVE  Cardinality(S) > 1
<1>1. IsFiniteSet({a}) /\ Cardinality({a}) = 1
  BY FS_Singleton
<1>2. Cardinality(S) \in Nat
  BY FS_CardinalityType
<1>3. {a} \in SUBSET S
  OBVIOUS
<1>4. Cardinality({a}) <= Cardinality(S) /\ (Cardinality(S) = Cardinality({a}) => S = {a})
  BY <1>3, FS_Subset
<1> QED BY <1>1, <1>2, <1>4

LEMMA LegsAreFew ==
    ASSUME NEW r \in Routes, NEW S, S \subseteq 1..Len(r.legs)
    PROVE  IsFiniteSet(S) /\ Cardinality(S) \in Nat
<1>1. IsFiniteSet(1..Len(r.legs))
  BY RouteIs, FS_Interval
<1>2. IsFiniteSet(S)
  BY <1>1, FS_Subset
<1> QED BY <1>2, FS_CardinalityType

LEMMA ReusedIf ==
    ASSUME NEW r \in Routes, NEW i \in 1..Len(r.legs), NEW j \in 1..Len(r.legs), i # j,
           r.legs[i].target = r.legs[j].target,
           r.legs[i].kind # "RATE", r.legs[j].kind # "RATE"
    PROVE  r.legs[i].target \in Reused(r)
<1> DEFINE p == r.legs[i].target
           S == {k \in DOMAIN r.legs : r.legs[k].target = p /\ r.legs[k].kind # "RATE"}
<1>1. p \in Pool /\ DOMAIN r.legs = 1..Len(r.legs)
  BY RouteIs
<1>2. S \subseteq 1..Len(r.legs)
  BY <1>1
<1>3. i \in S /\ j \in S
  BY <1>1
<1>4. IsFiniteSet(S)
  <2> HIDE DEF S
  <2> QED BY <1>2, LegsAreFew
<1>5. Cardinality(S) > 1
  <2> HIDE DEF S
  <2> QED BY <1>3, <1>4, TwoAreTwo
<1> QED BY <1>1, <1>5 DEF Reused

\* What a leg does to the pools: nothing to those it does not go through, and nothing
\* to any if it is a rate.
LEMMA OtherPools ==
    ASSUME NEW r \in Routes, NEW l \in Legs, NEW was \in Ran, NEW p \in Pool,
           l.target # p \/ l.kind = "RATE"
    PROVE  RunLeg(r, was, l).pools[p] = was.pools[p]
<1> DEFINE dx == Walk!Spend(was.books, l)
           value == PoolQuote(l, dx, was.pools[l.target])
           Dead == was.dead \/ ~Walk!InRange(r, l) \/ (dx > 0 /\ value = 0)
           pools == IF dx = 0 THEN was.pools
                    ELSE [was.pools EXCEPT ![l.target] = AfterLeg(@, l, dx, value)]
           books == Walk!After(was.books, l, value)
<1>1. RunLeg(r, was, l) = IF Dead THEN [was EXCEPT !.dead = TRUE]
                          ELSE [dead |-> FALSE, books |-> books, pools |-> pools]
  BY DEF RunLeg
<1>2. was.pools \in [Pool -> Stands] /\ was \in [dead: BOOLEAN, books: Books, pools: [Pool -> Stands]]
  BY DEF Ran
<1>3. pools[p] = was.pools[p]
  <2>1. AfterLeg(was.pools[l.target], l, dx, value) = was.pools[l.target] \/ l.target # p
    BY DEF AfterLeg
  <2> HIDE DEF dx, value
  <2> QED BY <1>2, <2>1
<1> HIDE DEF Dead, pools, books
<1> QED BY <1>1, <1>2, <1>3

\* A pool that no route enters twice stands as it was read when it is entered.
LEMMA EnteredOnce ==
    ASSUME NEW r \in Routes, NEW n \in 1..Len(r.legs), r.legs[n].kind # "RATE",
           r.legs[n].target \notin Reused(r)
    PROVE  RunTo(r)[n - 1].pools[r.legs[n].target] = Untouched
<1> DEFINE N == Len(r.legs)
           f == RunTo(r)
           p == r.legs[n].target
           Good == {k \in 0..N : k < n => f[k].pools[p] = Untouched}
<1>1. N \in Nat /\ n \in 1..N /\ p \in Pool
  BY RouteIs
<1>2. f[0].pools[p] = Untouched
  BY <1>1, StartsOpened
<1>3. ASSUME NEW k \in 1..N, k < n PROVE f[k].pools[p] = f[k - 1].pools[p]
  <2>1. k - 1 \in 0..N
    BY <1>1
  <2>2. f[k - 1] \in Ran /\ f[k] = RunLeg(r, f[k - 1], r.legs[k]) /\ r.legs[k] \in Legs
    BY <2>1, RunToIs, RouteIs
  <2>3. r.legs[k].target # p \/ r.legs[k].kind = "RATE"
    BY <1>1, <1>3, ReusedIf
  <2> HIDE DEF f, p
  <2> QED BY <1>1, <2>2, <2>3, OtherPools
<1> HIDE DEF f, p, N
<1>4. 0 \in Good
  BY <1>1, <1>2
<1>5. ASSUME NEW k \in 1..N, k - 1 \in Good PROVE k \in Good
  <2>1. k \in 0..N /\ (k < n => k - 1 < n)
    BY <1>1
  <2> QED BY <1>3, <1>5, <2>1
<1>6. \A k \in 0..N : k \in Good
  <2> HIDE DEF Good
  <2> QED BY <1>1, <1>4, <1>5, UpTo
<1>7. n - 1 \in Good
  <2> HIDE DEF Good
  <2> QED BY <1>1, <1>6
<1> QED BY <1>1, <1>7 DEF f, p

\* A route that enters no pool twice is worth the same statically quoted and run.
LEMMA StaticIsRun ==
    ASSUME NEW r \in Routes, Reused(r) = {}, NEW n \in 0..Len(r.legs)
    PROVE  WalkedTo(r)[n].dead = RunTo(r)[n].dead
           /\ (~RunTo(r)[n].dead => WalkedTo(r)[n].books = RunTo(r)[n].books)
<1> DEFINE N == Len(r.legs)
           f == RunTo(r)
           g == WalkedTo(r)
           Same(k) == g[k].dead = f[k].dead /\ (~f[k].dead => g[k].books = f[k].books)
           Good == {k \in 0..N : Same(k)}
<1>1. N \in Nat /\ n \in 0..N
  BY RouteIs
<1>2. 0 \in Good
  <2>1. Same(0)
    BY StartsOpened
  <2> HIDE DEF Same
  <2> QED BY <1>1, <2>1
<1>3. ASSUME NEW k \in 1..N, k - 1 \in Good PROVE k \in Good
  <2> DEFINE was == f[k - 1]
             had == g[k - 1]
             l == r.legs[k]
             dx == Walk!Spend(was.books, l)
             value == PoolQuote(l, dx, was.pools[l.target])
             Dead == was.dead \/ ~Walk!InRange(r, l) \/ (dx > 0 /\ value = 0)
  <2>1. k - 1 \in 0..N /\ k \in 0..N /\ Same(k - 1) /\ l \in Legs
    BY <1>1, <1>3, RouteIs
  <2>2. was \in Ran /\ had \in Quoted /\ f[k] = RunLeg(r, was, l) /\ g[k] = WalkLeg(r, had, l)
    BY <2>1, RunToIs, WalkedToIs
  <2>3. \A d : PoolQuote(l, d, was.pools[l.target]) = PoolQuote(l, d, Untouched)
    <3>1. CASE l.kind = "RATE"
      BY <3>1 DEF PoolQuote, Worn
    <3>2. CASE l.kind # "RATE"
      <4>1. was.pools[l.target] = Untouched
        BY <3>2, EnteredOnce
      <4> QED BY <4>1
    <3> QED BY <3>1, <3>2
  <2> DEFINE after == Walk!After(was.books, l, value)
             gone == [was EXCEPT !.dead = TRUE]
             out0 == [had EXCEPT !.dead = TRUE]
             next == [dead |-> FALSE, books |-> after,
                      pools |-> IF dx = 0 THEN was.pools
                                ELSE [was.pools EXCEPT ![l.target] = AfterLeg(@, l, dx, value)]]
             step == [had EXCEPT !.books = Walk!After(@, l, PoolQuote(l, Walk!Spend(@, l), Untouched))]
  <2>4. f[k] = IF Dead THEN gone ELSE next
    BY <2>2 DEF RunLeg
  <2>5. CASE was.dead
    <3>1. Dead /\ had.dead
      BY <2>1, <2>5
    <3>2. g[k] = out0
      BY <2>2, <3>1 DEF WalkLeg
    <3>3. f[k].dead = TRUE /\ g[k].dead = TRUE
      <4> HIDE DEF f, g, Dead, next
      <4> QED BY <2>2, <2>4, <3>1, <3>2 DEF Ran, Quoted
    <3> QED BY <2>1, <3>3
  <2>6. CASE ~was.dead
    <3>1. ~had.dead /\ had.books = was.books
      BY <2>1, <2>2, <2>6 DEF Ran, Quoted
    <3>2. value = PoolQuote(l, dx, Untouched)
      BY <2>3
    <3>3. Dead <=> Dies(r, l, had.books)
      BY <2>6, <3>1, <3>2 DEF Dies
    <3>4. g[k] = IF Dead THEN out0 ELSE [had EXCEPT !.books = after]
      <4>1. g[k] = IF had.dead \/ Dies(r, l, had.books) THEN out0
                   ELSE [had EXCEPT !.books =
                            Walk!After(had.books, l, PoolQuote(l, Walk!Spend(had.books, l), Untouched))]
        BY <2>2 DEF WalkLeg
      <4> HIDE DEF Dead
      <4> QED BY <3>1, <3>2, <3>3, <4>1
    <3>5. f[k].dead = g[k].dead /\ (~f[k].dead => g[k].books = f[k].books)
      <4>1. CASE Dead
        <5>1. f[k] = gone /\ g[k] = out0
          BY <2>4, <3>4, <4>1
        <5>2. gone.dead = TRUE /\ out0.dead = TRUE
          <6> HIDE DEF was, had
          <6> QED BY <2>2 DEF Ran, Quoted
        <5> QED BY <5>1, <5>2
      <4>2. CASE ~Dead
        <5>1. f[k] = next /\ g[k] = [had EXCEPT !.books = after]
          BY <2>4, <3>4, <4>2
        <5> DEFINE kept == [had EXCEPT !.books = after]
        <5>2. kept.dead = had.dead /\ kept.books = after
          <6> HIDE DEF had, after
          <6> QED BY <2>2 DEF Quoted
        <5>3. next.dead = FALSE /\ next.books = after
          <6> HIDE DEF dx, after
          <6> QED OBVIOUS
        <5>4. had.dead = FALSE
          <6> HIDE DEF had
          <6> QED BY <2>2, <3>1 DEF Quoted
        <5> HIDE DEF f, g, next, kept, had, after
        <5> QED BY <5>1, <5>2, <5>3, <5>4 DEF kept
      <4> QED BY <4>1, <4>2
    <3> QED BY <2>1, <3>5
  <2> QED BY <2>5, <2>6
<1>4. \A k \in 0..N : k \in Good
  <2> HIDE DEF Good
  <2> QED BY <1>1, <1>2, <1>3, UpTo
<1> QED BY <1>1, <1>4

----------------------------------------------------------------------------
(* The walk of a route with its models.                                    *)

\* The legs through p that are still ahead.
Ahead(r, p, n) == {i \in 1..Len(r.legs) : i >= n /\ r.legs[i].target = p}

\* A walk w of r is where the run is: on a pool that is entered again its books hold
\* what the legs before have left, for as long as there is a leg ahead that asks.
AsRun(r, w) ==
    /\ w \in [n: 1..Len(r.legs) + 1, books: Books, pools: [Pool -> Stands], left: [Pool -> Int]]
    /\ ~RunTo(r)[w.n - 1].dead
    /\ w.books = RunTo(r)[w.n - 1].books
    /\ \A p \in Reused(r) :
          /\ Ahead(r, p, w.n) # {} => w.pools[p] = RunTo(r)[w.n - 1].pools[p]
          /\ Cardinality(Ahead(r, p, w.n)) <= w.left[p]

Walks == pc = "walk" /\ enabled /\ at <= Len(wanted) => AsRun(wanted[at], walk)

LEMMA WalksNext ==
    ASSUME pc' = "walk" /\ enabled' /\ at' <= Len(wanted') => AsRun(wanted'[at'], walk')
    PROVE  Walks'
BY DEF Walks, AsRun, Ahead, Books, Stands, Reused, RunTo, RunLeg, Walk!Slot, AfterLeg, PoolQuote, Worn, Walk!Opened, Walk!After, Walk!Spend, Walk!Base, Walk!InRange, Untouched

LEMMA AheadIs ==
    ASSUME NEW r \in Routes, NEW p, NEW n \in Nat
    PROVE  /\ Ahead(r, p, n) \subseteq 1..Len(r.legs) /\ Ahead(r, p, n + 1) \subseteq Ahead(r, p, n)
           /\ Cardinality(Ahead(r, p, n)) \in Nat /\ Cardinality(Ahead(r, p, n + 1)) \in Nat
           /\ Cardinality(Ahead(r, p, n + 1)) <= Cardinality(Ahead(r, p, n))
           /\ n \in Ahead(r, p, n) =>
                 Cardinality(Ahead(r, p, n + 1)) = Cardinality(Ahead(r, p, n)) - 1
<1> DEFINE now == Ahead(r, p, n)
           next == Ahead(r, p, n + 1)
<1>1. now \subseteq 1..Len(r.legs) /\ next \subseteq 1..Len(r.legs) /\ next \subseteq now
      /\ next = now \ {n}
  BY RouteIs DEF Ahead
<1> HIDE DEF now, next
<1>2. IsFiniteSet(now) /\ Cardinality(now) \in Nat /\ IsFiniteSet(next) /\ Cardinality(next) \in Nat
  BY <1>1, LegsAreFew
<1>3. Cardinality(next) <= Cardinality(now)
  BY <1>1, <1>2, FS_Subset
<1>4. n \in now => Cardinality(next) = Cardinality(now) - 1
  BY <1>1, <1>2, FS_RemoveElement
<1> QED BY <1>1, <1>2, <1>3, <1>4 DEF now, next

Opening(r) ==
    [n |-> 1, books |-> Walk!Opened(r.amount_in), pools |-> [p \in Pool |-> Untouched],
     left |-> [p \in Pool |-> Uses(r, p)]]

LEMMA FreshAsRun ==
    ASSUME NEW r \in Routes
    PROVE  AsRun(r, Opening(r))
<1> DEFINE w == Opening(r)
           opened == Walk!Opened(r.amount_in)
           pools == [p \in Pool |-> Untouched]
           left == [p \in Pool |-> Uses(r, p)]
<1>1. \A p \in Pool : Uses(r, p) \in Int /\ Cardinality(Ahead(r, p, 1)) = Uses(r, p)
  <2> SUFFICES ASSUME NEW p \in Pool
               PROVE  Uses(r, p) \in Int /\ Cardinality(Ahead(r, p, 1)) = Uses(r, p)
    OBVIOUS
  <2>1. Ahead(r, p, 1) = {i \in DOMAIN r.legs : r.legs[i].target = p}
    BY RouteIs DEF Ahead
  <2>2. Cardinality(Ahead(r, p, 1)) \in Nat
    BY AheadIs
  <2> QED BY <2>1, <2>2 DEF Uses
<1>2. opened \in Books /\ pools \in [Pool -> Stands] /\ left \in [Pool -> Int]
      /\ 1 \in 1..Len(r.legs) + 1
  BY <1>1, RouteIs, OpenedIs, UntouchedStands
<1>3. w = [n |-> 1, books |-> opened, pools |-> pools, left |-> left]
  BY DEF Opening
<1>4. \A p \in Pool : pools[p] = Untouched /\ left[p] = Uses(r, p)
  OBVIOUS
<1> HIDE DEF w, opened, pools, left
<1>5. /\ w \in [n: 1..Len(r.legs) + 1, books: Books, pools: [Pool -> Stands], left: [Pool -> Int]]
      /\ w.n = 1 /\ w.books = opened /\ w.pools = pools /\ w.left = left
  BY <1>2, <1>3
<1>6. 1 - 1 = 0
  OBVIOUS
<1>7. /\ ~RunTo(r)[1 - 1].dead /\ RunTo(r)[1 - 1].books = opened
      /\ \A p \in Pool : RunTo(r)[1 - 1].pools[p] = Untouched
  BY <1>6, StartsOpened DEF opened
<1>8. ASSUME NEW p \in Reused(r)
      PROVE  pools[p] = RunTo(r)[1 - 1].pools[p] /\ Cardinality(Ahead(r, p, 1)) <= left[p]
  <2>1. p \in Pool
    BY DEF Reused
  <2> QED BY <1>1, <1>4, <1>7, <2>1
<1>9. AsRun(r, w)
  BY <1>5, <1>7, <1>8 DEF AsRun
<1> QED BY <1>9 DEF w

\* Where the run is when the walk w is at leg l.
LEMMA RunAt ==
    ASSUME NEW r \in Routes, NEW w, AsRun(r, w), w.n <= Len(r.legs)
    PROVE  /\ w.n \in 1..Len(r.legs) /\ w.n \in Nat /\ w.n + 1 \in 1..Len(r.legs) + 1
           /\ (w.n + 1) - 1 = w.n
           /\ r.legs[w.n] \in Legs /\ r.legs[w.n].target \in Pool
           /\ RunTo(r)[w.n - 1] \in Ran /\ RunTo(r)[w.n - 1].pools \in [Pool -> Stands]
           /\ RunTo(r)[w.n] = RunLeg(r, RunTo(r)[w.n - 1], r.legs[w.n])
           /\ w.books \in Books /\ w.pools \in [Pool -> Stands] /\ w.left \in [Pool -> Int]
           /\ w \in [n: 1..Len(r.legs) + 1, books: Books, pools: [Pool -> Stands],
                     left: [Pool -> Int]]
<1>1. w.n \in 1..Len(r.legs) /\ w.n - 1 \in 0..Len(r.legs) /\ w.n \in Nat
      /\ w.n + 1 \in 1..Len(r.legs) + 1 /\ (w.n + 1) - 1 = w.n
  BY RouteIs DEF AsRun
<1>2. RunTo(r)[w.n - 1] \in Ran /\ RunTo(r)[w.n] = RunLeg(r, RunTo(r)[w.n - 1], r.legs[w.n])
  BY <1>1, RunToIs
<1> DEFINE run == RunTo(r)[w.n - 1]
<1> HIDE DEF run
<1>3. run.pools \in [Pool -> Stands]
  BY <1>2 DEF Ran, run
<1> QED BY <1>1, <1>2, <1>3, RouteIs DEF AsRun, run

\* What the models are asked of: the pool as it stands, if it is carried.
Seen(r, w, l) == IF l.target \in Reused(r) THEN w.pools[l.target] ELSE Untouched

LEMMA SameQuote ==
    ASSUME NEW r \in Routes, NEW w, AsRun(r, w), w.n <= Len(r.legs), NEW dx
    PROVE  LET l == r.legs[w.n]
           IN  PoolQuote(l, dx, Seen(r, w, l)) = PoolQuote(l, dx, RunTo(r)[w.n - 1].pools[l.target])
<1> DEFINE l == r.legs[w.n]
<1>1. w.n \in 1..Len(r.legs) /\ w.n \in Nat
  BY RunAt
<1>2. CASE l.kind = "RATE"
  BY <1>2 DEF PoolQuote, Worn
<1>3. CASE l.kind # "RATE" /\ l.target \in Reused(r)
  <2>1. w.n \in Ahead(r, l.target, w.n)
    BY <1>1 DEF Ahead
  <2>2. w.pools[l.target] = RunTo(r)[w.n - 1].pools[l.target]
    BY <1>3, <2>1 DEF AsRun
  <2> QED BY <1>3, <2>2 DEF Seen
<1>4. CASE l.kind # "RATE" /\ l.target \notin Reused(r)
  BY <1>1, <1>4, EnteredOnce DEF Seen
<1> QED BY <1>2, <1>3, <1>4

\* A leg that is taken.
LEMMA RunTakes ==
    ASSUME NEW r \in Routes, NEW l \in Legs, NEW was \in Ran, l.target \in Pool,
           ~was.dead, Walk!InRange(r, l),
           Walk!Spend(was.books, l) > 0 =>
              PoolQuote(l, Walk!Spend(was.books, l), was.pools[l.target]) # 0
    PROVE  LET dx == Walk!Spend(was.books, l)
               value == PoolQuote(l, dx, was.pools[l.target])
               then == RunLeg(r, was, l)
           IN  /\ ~then.dead
               /\ then.books = Walk!After(was.books, l, value)
               /\ then.pools = IF dx = 0 THEN was.pools
                               ELSE [was.pools EXCEPT ![l.target] = AfterLeg(@, l, dx, value)]
<1> DEFINE dx == Walk!Spend(was.books, l)
           value == PoolQuote(l, dx, was.pools[l.target])
           books == Walk!After(was.books, l, value)
           pools == IF dx = 0 THEN was.pools
                    ELSE [was.pools EXCEPT ![l.target] = AfterLeg(@, l, dx, value)]
<1>1. RunLeg(r, was, l) = [dead |-> FALSE, books |-> books, pools |-> pools]
  BY DEF RunLeg
<1> HIDE DEF books, pools
<1>2. RunLeg(r, was, l).dead = FALSE /\ RunLeg(r, was, l).books = books
      /\ RunLeg(r, was, l).pools = pools
  BY <1>1
<1> QED BY <1>2 DEF books, pools

LEMMA SkipAsRun ==
    ASSUME NEW r \in Routes, NEW w, AsRun(r, w), w.n <= Len(r.legs),
           Walk!InRange(r, r.legs[w.n]), Walk!Spend(w.books, r.legs[w.n]) = 0
    PROVE  AsRun(r, [w EXCEPT !.n = @ + 1, !.books = Walk!After(@, r.legs[w.n], 0)])
<1> DEFINE l == r.legs[w.n]
           run == RunTo(r)[w.n - 1]
           then == RunTo(r)[w.n]
           after == Walk!After(w.books, l, 0)
           next == [w EXCEPT !.n = @ + 1, !.books = Walk!After(@, l, 0)]
<1>1. /\ w.n \in 1..Len(r.legs) /\ w.n \in Nat /\ w.n + 1 \in 1..Len(r.legs) + 1
      /\ (w.n + 1) - 1 = w.n /\ l \in Legs /\ l.target \in Pool
      /\ run \in Ran /\ run.pools \in [Pool -> Stands] /\ then = RunLeg(r, run, l)
      /\ w.books \in Books
      /\ w \in [n: 1..Len(r.legs) + 1, books: Books, pools: [Pool -> Stands], left: [Pool -> Int]]
  BY RunAt
<1>2. ~run.dead /\ w.books = run.books
  BY DEF AsRun
<1>3. PoolQuote(l, 0, run.pools[l.target]) = 0
  <2> DEFINE pool == run.pools[l.target]
  <2>1. pool \in Stands /\ l \in Legs /\ 0 \in Nat
    BY <1>1
  <2> HIDE DEF pool, l
  <2>2. PoolQuote(l, 0, pool) = 0
    BY <2>1, QuoteIs
  <2> QED BY <2>2 DEF pool
<1>4. ~then.dead /\ then.books = after /\ then.pools = run.pools
  <2>1. Walk!Spend(run.books, l) = 0
    BY <1>2
  <2>2. Walk!InRange(r, l) /\ ~(Walk!Spend(run.books, l) > 0)
    BY <2>1
  <2>3. /\ ~RunLeg(r, run, l).dead
        /\ RunLeg(r, run, l).books =
             Walk!After(run.books, l, PoolQuote(l, Walk!Spend(run.books, l), run.pools[l.target]))
        /\ RunLeg(r, run, l).pools = run.pools
    <3> HIDE DEF run, l
    <3> QED BY <1>1, <1>2, <2>1, <2>2, RunTakes, ZenonT(60)
  <2> HIDE DEF run, l, then
  <2> QED BY <1>1, <1>2, <1>3, <2>1, <2>3
<1>5. after \in Books
  BY <1>1, OnTheSlots, AfterIs
<1>6. /\ next \in [n: 1..Len(r.legs) + 1, books: Books, pools: [Pool -> Stands], left: [Pool -> Int]]
      /\ next.n = w.n + 1 /\ next.books = after /\ next.pools = w.pools /\ next.left = w.left
  <2>1. next = [w EXCEPT !.n = w.n + 1, !.books = after]
    OBVIOUS
  <2> HIDE DEF next, after
  <2> QED BY <1>1, <1>5, <2>1
<1> HIDE DEF next, after, run, then
<1>7. ASSUME NEW p \in Reused(r)
      PROVE  /\ Ahead(r, p, w.n + 1) # {} => w.pools[p] = then.pools[p]
             /\ Cardinality(Ahead(r, p, w.n + 1)) <= w.left[p]
  <2>1. /\ Ahead(r, p, w.n) # {} => w.pools[p] = run.pools[p]
        /\ Cardinality(Ahead(r, p, w.n)) <= w.left[p]
    BY DEF AsRun, run
  <2>2. p \in Pool /\ w.left[p] \in Int
    <3>1. p \in Pool
      BY DEF Reused
    <3> QED BY <1>1, <3>1
  <2>3. /\ Ahead(r, p, w.n + 1) \subseteq Ahead(r, p, w.n)
        /\ Cardinality(Ahead(r, p, w.n)) \in Nat /\ Cardinality(Ahead(r, p, w.n + 1)) \in Nat
        /\ Cardinality(Ahead(r, p, w.n + 1)) <= Cardinality(Ahead(r, p, w.n))
    BY <1>1, AheadIs
  <2> QED BY <1>4, <2>1, <2>2, <2>3
<1>8. ~RunTo(r)[next.n - 1].dead /\ next.books = RunTo(r)[next.n - 1].books
  BY <1>1, <1>4, <1>6 DEF then
<1>9. \A p \in Reused(r) :
        /\ Ahead(r, p, next.n) # {} => next.pools[p] = RunTo(r)[next.n - 1].pools[p]
        /\ Cardinality(Ahead(r, p, next.n)) <= next.left[p]
  BY <1>1, <1>6, <1>7 DEF then
<1>10. AsRun(r, next)
  BY <1>6, <1>8, <1>9 DEF AsRun
<1> QED BY <1>10 DEF next

LEMMA PriceAsRun ==
    ASSUME NEW r \in Routes, NEW w, AsRun(r, w), w.n <= Len(r.legs),
           Walk!InRange(r, r.legs[w.n]), NEW dx, NEW value,
           dx = Walk!Spend(w.books, r.legs[w.n]), dx > 0,
           value = PoolQuote(r.legs[w.n], dx, Seen(r, w, r.legs[w.n])), value > 0
    PROVE  LET l == r.legs[w.n]
           IN  AsRun(r, [n |-> w.n + 1, books |-> Walk!After(w.books, l, value),
                         pools |-> IF l.target \in Reused(r) /\ w.left[l.target] > 1
                                   THEN [w.pools EXCEPT ![l.target] = AfterLeg(@, l, dx, value)]
                                   ELSE w.pools,
                         left |-> IF l.target \in Reused(r)
                                  THEN [w.left EXCEPT ![l.target] = @ - 1] ELSE w.left])
<1> DEFINE l == r.legs[w.n]
           t == l.target
           run == RunTo(r)[w.n - 1]
           then == RunTo(r)[w.n]
           after == Walk!After(w.books, l, value)
           pools == IF t \in Reused(r) /\ w.left[t] > 1
                    THEN [w.pools EXCEPT ![t] = AfterLeg(@, l, dx, value)] ELSE w.pools
           left == IF t \in Reused(r) THEN [w.left EXCEPT ![t] = @ - 1] ELSE w.left
           next == [n |-> w.n + 1, books |-> after, pools |-> pools, left |-> left]
<1>1. /\ w.n \in 1..Len(r.legs) /\ w.n \in Nat /\ w.n + 1 \in 1..Len(r.legs) + 1
      /\ (w.n + 1) - 1 = w.n /\ l \in Legs /\ t \in Pool
      /\ run \in Ran /\ run.pools \in [Pool -> Stands] /\ then = RunLeg(r, run, l)
      /\ w.books \in Books /\ w.pools \in [Pool -> Stands] /\ w.left \in [Pool -> Int]
  BY RunAt
<1>2. ~run.dead /\ w.books = run.books
  BY DEF AsRun
<1>3. value = PoolQuote(l, dx, run.pools[t])
  BY SameQuote
<1>4. l.src \in Walk!Slot /\ l.dst \in Walk!Slot
  BY <1>1, OnTheSlots
<1>5. dx \in Nat /\ dx # 0
  <2>1. Walk!Spend(w.books, l) \in Nat
    <3> HIDE DEF l
    <3> QED BY <1>1, <1>4, SpendIs
  <2> QED BY <2>1
<1>6. value \in Nat
  <2>1. run.pools[t] \in Stands
    BY <1>1
  <2> HIDE DEF l, run, t
  <2> QED BY <1>1, <1>3, <1>5, <2>1, QuoteIs
<1>7. /\ ~then.dead /\ then.books = after
      /\ then.pools = [run.pools EXCEPT ![t] = AfterLeg(@, l, dx, value)]
  <2>1. dx = Walk!Spend(run.books, l)
    BY <1>2
  <2>2. ~RunLeg(r, run, l).dead
        /\ RunLeg(r, run, l).books = Walk!After(run.books, l, PoolQuote(l, dx, run.pools[t]))
        /\ RunLeg(r, run, l).pools =
             IF dx = 0 THEN run.pools
             ELSE [run.pools EXCEPT ![t] = AfterLeg(@, l, dx, PoolQuote(l, dx, run.pools[t]))]
    <3>1. PoolQuote(l, Walk!Spend(run.books, l), run.pools[t]) # 0
      <4>1. value # 0
        BY <1>6
      <4> HIDE DEF l, t, run
      <4> QED BY <1>3, <2>1, <4>1
    <3>2. l \in Legs /\ run \in Ran /\ Walk!InRange(r, l)
      BY <1>1
    <3> HIDE DEF run, l
    <3> QED BY <1>1, <1>2, <2>1, <3>1, <3>2, RunTakes
  <2> HIDE DEF run, l, then, t
  <2> QED BY <1>1, <1>2, <1>3, <1>5, <2>2
<1>8. after \in Books
  <2> HIDE DEF l
  <2> QED BY <1>1, <1>4, <1>6, AfterIs
<1>9. w.pools[t] \in Stands /\ (t \in Reused(r) => AfterLeg(w.pools[t], l, dx, value) \in Stands)
  <2>1. w.pools[t] \in Stands
    BY <1>1
  <2>2. ASSUME t \in Reused(r) PROVE AfterLeg(w.pools[t], l, dx, value) \in Stands
    <3>1. value = PoolQuote(l, dx, w.pools[t])
      BY <2>2 DEF Seen
    <3> HIDE DEF l, t
    <3> QED BY <1>1, <1>5, <2>1, <3>1, PoolAfter
  <2> QED BY <2>1, <2>2
<1> HIDE DEF l, t, run, then, after
<1>10. pools \in [Pool -> Stands]
  <2>1. CASE t \in Reused(r) /\ w.left[t] > 1
    <3>1. pools = [w.pools EXCEPT ![t] = AfterLeg(w.pools[t], l, dx, value)]
      BY <2>1
    <3> HIDE DEF pools
    <3> QED BY <1>1, <1>9, <2>1, <3>1
  <2>2. CASE ~(t \in Reused(r) /\ w.left[t] > 1)
    BY <1>1, <2>2
  <2> QED BY <2>1, <2>2
<1>11. left \in [Pool -> Int]
  BY <1>1
<1>12. ASSUME NEW p \in Reused(r)
       PROVE  /\ Ahead(r, p, w.n + 1) # {} => pools[p] = then.pools[p]
              /\ Cardinality(Ahead(r, p, w.n + 1)) <= left[p]
  <2>1. /\ Ahead(r, p, w.n) # {} => w.pools[p] = run.pools[p]
        /\ Cardinality(Ahead(r, p, w.n)) <= w.left[p]
    BY DEF AsRun, run
  <2>2. p \in Pool /\ w.left[p] \in Int
    <3>1. p \in Pool
      BY DEF Reused
    <3> QED BY <1>1, <3>1
  <2>3. CASE p # t
    <3>1. pools[p] = w.pools[p] /\ left[p] = w.left[p] /\ then.pools[p] = run.pools[p]
      BY <1>1, <1>7, <2>2, <2>3
    <3>2. /\ Ahead(r, p, w.n + 1) \subseteq Ahead(r, p, w.n)
          /\ Cardinality(Ahead(r, p, w.n)) \in Nat /\ Cardinality(Ahead(r, p, w.n + 1)) \in Nat
          /\ Cardinality(Ahead(r, p, w.n + 1)) <= Cardinality(Ahead(r, p, w.n))
      BY <1>1, AheadIs
    <3> HIDE DEF pools, left
    <3> QED BY <2>1, <2>2, <3>1, <3>2
  <2>4. CASE p = t
    <3>1. w.n \in Ahead(r, p, w.n)
      BY <1>1, <2>4 DEF Ahead, t, l
    <3>2. /\ Cardinality(Ahead(r, p, w.n)) \in Nat /\ Cardinality(Ahead(r, p, w.n + 1)) \in Nat
          /\ Cardinality(Ahead(r, p, w.n + 1)) = Cardinality(Ahead(r, p, w.n)) - 1
      BY <1>1, <3>1, AheadIs
    <3>3. left[p] = w.left[p] - 1
      BY <1>1, <2>2, <2>4
    <3>4. Cardinality(Ahead(r, p, w.n + 1)) <= left[p]
      <4> HIDE DEF left
      <4> QED BY <2>1, <2>2, <3>2, <3>3
    <3>5. CASE w.left[t] > 1
      <4>1. pools[p] = AfterLeg(w.pools[p], l, dx, value)
        BY <1>1, <2>2, <2>4, <3>5
      <4>2. w.pools[p] = run.pools[p]
        BY <2>1, <3>1
      <4>3. then.pools[p] = AfterLeg(run.pools[p], l, dx, value)
        BY <1>1, <1>7, <2>2, <2>4
      <4> QED BY <3>4, <4>1, <4>2, <4>3
    <3>6. CASE ~(w.left[t] > 1)
      <4>1. Cardinality(Ahead(r, p, w.n + 1)) = 0
        BY <2>1, <2>2, <2>4, <3>2, <3>6
      <4>2. IsFiniteSet(Ahead(r, p, w.n + 1))
        BY <1>1, LegsAreFew DEF Ahead
      <4>3. Ahead(r, p, w.n + 1) = {}
        BY <4>1, <4>2, FS_EmptySet
      <4> QED BY <3>4, <4>3
    <3> QED BY <3>5, <3>6
  <2> QED BY <2>3, <2>4
<1> HIDE DEF pools, left
<1>13. /\ next \in [n: 1..Len(r.legs) + 1, books: Books, pools: [Pool -> Stands], left: [Pool -> Int]]
       /\ next.n = w.n + 1 /\ next.books = after /\ next.pools = pools /\ next.left = left
  BY <1>1, <1>8, <1>10, <1>11
<1> HIDE DEF next
<1>14. ~RunTo(r)[next.n - 1].dead /\ next.books = RunTo(r)[next.n - 1].books
  BY <1>1, <1>7, <1>13 DEF then
<1>15. \A p \in Reused(r) :
        /\ Ahead(r, p, next.n) # {} => next.pools[p] = RunTo(r)[next.n - 1].pools[p]
        /\ Cardinality(Ahead(r, p, next.n)) <= next.left[p]
  BY <1>1, <1>12, <1>13 DEF then
<1>16. AsRun(r, next)
  BY <1>13, <1>14, <1>15 DEF AsRun
<1> QED BY <1>16 DEF next, pools, left, after, l, t

\* A leg that cannot be taken is the end of the run.
LEMMA DiesAsRun ==
    ASSUME NEW r \in Routes, NEW w, AsRun(r, w), w.n <= Len(r.legs),
           \/ ~Walk!InRange(r, r.legs[w.n])
           \/ /\ Walk!Spend(w.books, r.legs[w.n]) > 0
              /\ PoolQuote(r.legs[w.n], Walk!Spend(w.books, r.legs[w.n]),
                           Seen(r, w, r.legs[w.n])) = 0
    PROVE  Worth(r) = 0
<1> DEFINE l == r.legs[w.n]
           run == RunTo(r)[w.n - 1]
           dx == Walk!Spend(run.books, l)
<1>1. /\ w.n \in 1..Len(r.legs) /\ l \in Legs /\ run \in Ran
      /\ RunTo(r)[w.n] = RunLeg(r, run, l)
  BY RunAt
<1>2. ~Walk!InRange(r, l) \/ (dx > 0 /\ PoolQuote(l, dx, run.pools[l.target]) = 0)
  <2>1. w.books = run.books
    BY DEF AsRun
  <2>2. PoolQuote(l, dx, Seen(r, w, l)) = PoolQuote(l, dx, run.pools[l.target])
    BY SameQuote
  <2> HIDE DEF run, l
  <2> QED BY <2>1, <2>2 DEF l
<1>3. RunTo(r)[w.n].dead
  <2>1. RunLeg(r, run, l) = [run EXCEPT !.dead = TRUE]
    BY <1>2 DEF RunLeg
  <2> HIDE DEF run, l, dx
  <2> QED BY <1>1, <2>1 DEF Ran
<1>4. RunTo(r)[Len(r.legs)].dead
  BY <1>1, <1>3, RouteIs, DeadStays
<1>5. Run(r).dead
  BY <1>4 DEF Run, RunTo
<1> QED BY <1>5 DEF Worth

LEMMA EndsAsRun ==
    ASSUME NEW r \in Routes, NEW w, AsRun(r, w), w.n > Len(r.legs)
    PROVE  Worth(r) = IF r.dst_slot < MAX_SLOTS THEN w.books.bal[r.dst_slot] ELSE 0
<1>1. w.n - 1 = Len(r.legs)
  <2>1. w.n \in 1..Len(r.legs) + 1
    BY DEF AsRun
  <2> QED BY <2>1, RouteIs
<1>2. ~RunTo(r)[Len(r.legs)].dead /\ w.books = RunTo(r)[Len(r.legs)].books
  BY <1>1 DEF AsRun
<1>3. Run(r) = RunTo(r)[Len(r.legs)]
  BY DEF Run, RunTo
<1>4. r.dst_slot \in Nat /\ MAX_SLOTS \in Nat
  BY RouteIs, RequestAssumption
<1> QED BY <1>2, <1>3, <1>4 DEF Worth

\* What the chain answers of a route that enters no pool twice.
LEMMA ChainIsRun ==
    ASSUME NEW list \in Requests, NEW m \in 1..Len(list), Reused(list[m]) = {},
           ~CallFails(<<list[m]>>)
    PROVE  WalkRoute(list[m]) = Worth(list[m])
<1> DEFINE r == list[m]
<1>1. list \in Seq(Routes)
  BY RequestAssumption
<1>2. r \in Routes
  BY <1>1, RoutesAre
<1>3. WalkOf[r] = Walked(r)
  <2>1. r \in ToSet(list)
    BY <1>1 DEF ToSet
  <2> HIDE DEF r
  <2> QED BY <2>1 DEF WalkOf
<1>4. Walked(r) = WalkedTo(r)[Len(r.legs)] /\ Run(r) = RunTo(r)[Len(r.legs)]
  <2> HIDE DEF r
  <2> QED BY DEF Walked, WalkedTo, Run, RunTo
<1> DEFINE N == Len(r.legs)
<1>5. N \in 0..N
  BY <1>2, RouteIs
<1>6. /\ WalkedTo(r)[N].dead = RunTo(r)[N].dead
      /\ ~RunTo(r)[N].dead => WalkedTo(r)[N].books = RunTo(r)[N].books
  <2> HIDE DEF r
  <2> QED BY <1>2, <1>5, StaticIsRun DEF r
<1>7. ~(r.dst_slot >= MAX_SLOTS /\ ~WalkOf[r].dead)
  BY <1>2, FailsAlone
<1>8. r.dst_slot \in Nat /\ MAX_SLOTS \in Nat
  BY <1>2, RouteIs, RequestAssumption
<1> HIDE DEF r
<1>9. WalkRoute(r) = Worth(r)
  BY <1>3, <1>4, <1>6, <1>7, <1>8 DEF WalkRoute, Worth
<1> QED BY <1>9 DEF r

----------------------------------------------------------------------------
(* The figures.                                                            *)

InHoles(m) == \E i \in 1..Len(holes) : holes[i] = m
Priced(m) ==
    figures[m] = Worth(wanted[m]) \/ (figures[m] = 0 /\ Reused(wanted[m]) # {})

\* A route that has been seen is priced as it pays, or is on its way to the chain; with
\* the models on it goes there only if the chain can price it or a model has refused it.
Figuring ==
    /\ wanted \in Requests /\ DOMAIN figures = 1..Len(wanted)
    /\ enabled => \A i \in 1..Len(holes) :
          holes[i] \in refused \/ Reused(wanted[holes[i]]) = {}
    /\ pc = "walk" /\ enabled => \A m \in 1..at - 1 : InHoles(m) \/ Priced(m)
    /\ pc = "chain" => \A m \in 1..Len(wanted) : InHoles(m) \/ Priced(m)
    /\ QuotedAsItPays

LEMMA PaysNext ==
    ASSUME pc' = "done" => \A m \in DOMAIN wanted' :
              \/ figures'[m] = Worth(wanted'[m])
              \/ figures'[m] = 0 /\ \/ Reused(wanted'[m]) # {}
                                    \/ \E i \in lost' : holes'[i] = m
                                    \/ CallFails(<<wanted'[m]>>)
              \/ Reused(wanted'[m]) # {} /\ (~enabled' \/ m \in refused')
    PROVE  QuotedAsItPays'
BY DEF QuotedAsItPays, Worth, Run, RunLeg, Reused, CallFails, WalkOf

LEMMA FiguringNext ==
    ASSUME wanted' \in Requests, DOMAIN figures' = 1..Len(wanted'),
           enabled' => \A i \in 1..Len(holes') :
              holes'[i] \in refused' \/ Reused(wanted'[holes'[i]]) = {},
           pc' = "walk" /\ enabled' => \A m \in 1..at' - 1 :
              \/ \E i \in 1..Len(holes') : holes'[i] = m
              \/ figures'[m] = Worth(wanted'[m])
              \/ figures'[m] = 0 /\ Reused(wanted'[m]) # {},
           pc' = "chain" => \A m \in 1..Len(wanted') :
              \/ \E i \in 1..Len(holes') : holes'[i] = m
              \/ figures'[m] = Worth(wanted'[m])
              \/ figures'[m] = 0 /\ Reused(wanted'[m]) # {},
           QuotedAsItPays'
    PROVE  Figuring'
BY DEF Figuring, InHoles, Priced, Worth, Run, RunLeg, Reused

LEMMA InitFiguring == ExactInit => Figuring /\ Walks
<1> SUFFICES ASSUME ExactInit PROVE Figuring /\ Walks
  OBVIOUS
<1>1. /\ wanted \in Requests /\ wanted \in Seq(Routes) /\ pc = "walk" /\ at = 1 /\ holes = <<>>
      /\ figures = [m \in DOMAIN wanted |-> Pending] /\ walk = Fresh(1)
      /\ Len(wanted) \in Nat
  BY RequestAssumption DEF ExactInit
<1>2. Figuring
  <2>1. DOMAIN figures = 1..Len(wanted)
    BY <1>1
  <2>2. 1..Len(holes) = {} /\ 1..at - 1 = {}
    BY <1>1
  <2> QED BY <1>1, <2>1, <2>2 DEF Figuring, QuotedAsItPays
<1>3. Walks
  <2> SUFFICES ASSUME at <= Len(wanted) PROVE AsRun(wanted[at], walk)
    BY DEF Walks
  <2>1. walk = Opening(wanted[at])
    BY <1>1 DEF Fresh, Opening
  <2>2. wanted[at] \in Routes
    BY <1>1
  <2> QED BY <2>1, <2>2, FreshAsRun
<1> QED BY <1>2, <1>3

\* The route at hand.
LEMMA RouteAtHand ==
    ASSUME Listed, Walks, Walking
    PROVE  /\ route \in Routes /\ AsRun(route, walk) /\ at \in 1..Len(wanted) /\ at \in Nat
           /\ wanted \in Seq(Routes) /\ Len(wanted) \in Nat /\ route = wanted[at]
<1>1. at \in 1..Len(wanted) /\ at \in Nat /\ wanted \in Seq(Routes) /\ Len(wanted) \in Nat
  BY DEF Listed, Walking
<1>2. route \in Routes
  BY <1>1 DEF route
<1>3. AsRun(route, walk)
  BY DEF Walks, Walking, route
<1> QED BY <1>1, <1>2, <1>3 DEF route

LEMMA LegAtHand ==
    ASSUME Listed, Walks, OnALeg
    PROVE  /\ walk.n <= Len(route.legs) /\ Walk!InRange(route, leg) /\ leg = route.legs[walk.n]
           /\ Dx = Walk!Spend(walk.books, route.legs[walk.n])
           /\ Value = PoolQuote(leg, Dx, Seen(route, walk, leg))
BY DEF OnALeg, leg, Dx, Value, Now, Carried, Seen

LEMMA SkipWalks == Listed /\ Walks /\ SkipLeg => Walks'
<1> SUFFICES ASSUME Listed, Walks, SkipLeg PROVE Walks'
  OBVIOUS
<1>1. Walking /\ OnALeg /\ Dx = 0 /\ at' = at /\ wanted' = wanted
      /\ walk' = [walk EXCEPT !.n = @ + 1, !.books = Walk!After(@, leg, 0)]
  BY DEF SkipLeg, OnALeg
<1>2. AsRun(route, [walk EXCEPT !.n = @ + 1, !.books = Walk!After(@, route.legs[walk.n], 0)])
  BY <1>1, RouteAtHand, LegAtHand, SkipAsRun
<1>3. AsRun(wanted'[at'], walk')
  BY <1>1, <1>2 DEF route, leg
<1> QED BY <1>3, WalksNext

LEMMA PriceWalks == Listed /\ Walks /\ PriceLeg => Walks'
<1> SUFFICES ASSUME Listed, Walks, PriceLeg PROVE Walks'
  OBVIOUS
<1> DEFINE next == [n |-> walk.n + 1,
                books |-> Walk!After(walk.books, leg, Value),
                pools |-> IF Carried(leg) /\ walk.left[leg.target] > 1
                          THEN [walk.pools EXCEPT
                                   ![leg.target] = AfterLeg(@, leg, Dx, Value)]
                          ELSE walk.pools,
                left |-> IF Carried(leg) THEN [walk.left EXCEPT ![leg.target] = @ - 1]
                         ELSE walk.left]
<1>1. Walking /\ OnALeg /\ Dx > 0 /\ Value > 0 /\ at' = at /\ wanted' = wanted /\ walk' = next
  BY DEF PriceLeg, Trading, OnALeg
<1>2. AsRun(route, [n |-> walk.n + 1, books |-> Walk!After(walk.books, leg, Value),
                    pools |-> IF leg.target \in Reused(route) /\ walk.left[leg.target] > 1
                              THEN [walk.pools EXCEPT ![leg.target] = AfterLeg(@, leg, Dx, Value)]
                              ELSE walk.pools,
                    left |-> IF leg.target \in Reused(route)
                             THEN [walk.left EXCEPT ![leg.target] = @ - 1] ELSE walk.left])
  <2> DEFINE dx == Dx
             value == Value
  <2>1. /\ walk.n <= Len(route.legs) /\ Walk!InRange(route, leg) /\ leg = route.legs[walk.n]
        /\ dx = Walk!Spend(walk.books, leg) /\ dx > 0
        /\ value = PoolQuote(leg, dx, Seen(route, walk, leg)) /\ value > 0
        /\ route \in Routes /\ AsRun(route, walk)
    BY <1>1, RouteAtHand, LegAtHand
  <2> HIDE DEF dx, value
  <2> QED BY <2>1, PriceAsRun DEF dx, value
<1>3. AsRun(route, next)
  BY <1>2 DEF Carried
<1>4. AsRun(wanted'[at'], walk')
  BY <1>1, <1>3 DEF route
<1> QED BY <1>4, WalksNext

\* A route is concluded, and the next one is opened.
LEMMA NextRoute ==
    ASSUME Listed, Walks, Walking, NEW figure, Concludes(figure)
    PROVE  Walks'
<1>1. at' = at + 1 /\ walk' = Fresh(at + 1) /\ wanted' = wanted
  BY DEF Concludes
<1>2. at \in Nat /\ wanted \in Seq(Routes) /\ Len(wanted) \in Nat /\ at \in 1..Len(wanted)
  BY RouteAtHand
<1>3. at' <= Len(wanted') => AsRun(wanted'[at'], walk')
  <2> SUFFICES ASSUME at + 1 <= Len(wanted) PROVE AsRun(wanted[at + 1], Fresh(at + 1))
    BY <1>1
  <2>1. wanted[at + 1] \in Routes
    BY <1>2
  <2>2. Fresh(at + 1) = Opening(wanted[at + 1])
    BY <1>2 DEF Fresh, Opening
  <2> QED BY <2>1, <2>2, FreshAsRun
<1> QED BY <1>3, WalksNext

\* The figure of a route that is concluded.
LEMMA ConcludedFiguring ==
    ASSUME Listed, Walks, Walking, Figuring, NEW figure, Concludes(figure), refused \subseteq refused',
           \/ /\ holes' = holes
              /\ figure = Worth(route) \/ (figure = 0 /\ Reused(route) # {})
           \/ holes' = Append(holes, at) /\ (Reused(route) = {} \/ at \in refused')
    PROVE  Figuring'
<1>1. /\ figures' = [figures EXCEPT ![at] = figure] /\ at' = at + 1 /\ wanted' = wanted
      /\ pc' = pc /\ enabled' = enabled /\ refused \subseteq refused' /\ pc = "walk" /\ enabled
  BY DEF Concludes, Walking
<1>2. at \in Nat /\ Len(wanted) \in Nat /\ at \in 1..Len(wanted) /\ route = wanted[at]
  BY RouteAtHand
<1>3. /\ wanted \in Requests /\ DOMAIN figures = 1..Len(wanted)
      /\ \A i \in 1..Len(holes) : holes[i] \in refused \/ Reused(wanted[holes[i]]) = {}
      /\ \A m \in 1..at - 1 : InHoles(m) \/ Priced(m)
  BY <1>1 DEF Figuring
<1>4. holes \in Seq(1..Len(wanted)) /\ Len(holes) \in Nat
  BY DEF Listed
<1>5. /\ Len(holes') \in Nat /\ Len(holes') >= Len(holes)
      /\ \A i \in 1..Len(holes) : holes'[i] = holes[i]
      /\ holes' = holes \/ (Len(holes') = Len(holes) + 1 /\ holes'[Len(holes) + 1] = at)
  <2>1. CASE holes' = holes
    BY <1>4, <2>1
  <2>2. CASE holes' = Append(holes, at)
    BY <1>2, <1>4, <2>2
  <2> QED BY <2>1, <2>2
<1>6. DOMAIN figures' = 1..Len(wanted) /\ figures'[at] = figure
      /\ \A m \in 1..Len(wanted) \ {at} : figures'[m] = figures[m]
  BY <1>1, <1>2, <1>3
<1>7. ASSUME NEW i \in 1..Len(holes')
      PROVE  holes'[i] \in refused' \/ Reused(wanted'[holes'[i]]) = {}
  <2>1. CASE i \in 1..Len(holes)
    BY <1>1, <1>3, <1>5, <2>1
  <2>2. CASE i \notin 1..Len(holes)
    <3>1. holes' # holes /\ i = Len(holes) + 1
      BY <1>4, <1>5, <2>2
    <3>2. (Reused(route) = {} \/ at \in refused') /\ holes'[i] = at
      BY <1>5, <3>1
    <3> QED BY <1>1, <1>2, <3>2
  <2> QED BY <2>1, <2>2
<1>8. ASSUME NEW m \in 1..at' - 1
      PROVE  \/ \E i \in 1..Len(holes') : holes'[i] = m
             \/ figures'[m] = Worth(wanted'[m])
             \/ figures'[m] = 0 /\ Reused(wanted'[m]) # {}
  <2>1. CASE m = at
    <3>1. CASE holes' = holes /\ (figure = Worth(route) \/ (figure = 0 /\ Reused(route) # {}))
      BY <1>1, <1>2, <1>6, <2>1, <3>1
    <3>2. CASE holes' = Append(holes, at)
      <4>1. Len(holes) + 1 \in 1..Len(holes') /\ holes'[Len(holes) + 1] = at
        BY <1>2, <1>4, <3>2
      <4> QED BY <2>1, <4>1
    <3> QED BY <3>1, <3>2
  <2>2. CASE m # at
    <3>1. m \in 1..at - 1 /\ m \in 1..Len(wanted) \ {at}
      BY <1>1, <1>2, <2>2
    <3>2. InHoles(m) \/ Priced(m)
      BY <1>3, <3>1
    <3>3. CASE InHoles(m)
      <4>1. PICK i \in 1..Len(holes) : holes[i] = m
        BY <3>3 DEF InHoles
      <4>2. i \in 1..Len(holes') /\ holes'[i] = m
        BY <1>4, <1>5, <4>1
      <4> QED BY <4>2
    <3>4. CASE Priced(m)
      BY <1>1, <1>6, <3>1, <3>4 DEF Priced
    <3> QED BY <3>2, <3>3, <3>4
  <2> QED BY <2>1, <2>2
<1>9. pc' = "walk" /\ QuotedAsItPays'
  BY <1>1, PaysNext
<1> QED BY <1>1, <1>3, <1>6, <1>7, <1>8, <1>9, FiguringNext

\* The legs go on, or the route is concluded.
LEMMA WalkFiguring ==
    ASSUME Listed, Walks, Figuring,
           SkipLeg \/ PriceLeg \/ WalkEnds \/ CannotQuote \/ Refuses
    PROVE  Walks' /\ Figuring'
<1>1. CASE SkipLeg \/ PriceLeg
  <2>1. Walks'
    BY <1>1, SkipWalks, PriceWalks
  <2>2. /\ wanted' = wanted /\ figures' = figures /\ at' = at /\ holes' = holes /\ pc' = pc
        /\ enabled' = enabled /\ refused' = refused /\ pc = "walk" /\ enabled
    BY <1>1 DEF SkipLeg, PriceLeg, OnALeg, Trading, Walking
  <2>3. QuotedAsItPays'
    BY <2>2, PaysNext
  <2>4. Figuring'
    BY <2>2, <2>3, FiguringNext DEF Figuring, InHoles, Priced
  <2> QED BY <2>1, <2>4
<1>2. CASE WalkEnds
  <2>1. Walking /\ holes' = holes /\ refused' = refused
    BY <1>2 DEF WalkEnds
  <2>2. route \in Routes /\ AsRun(route, walk) /\ walk.n \in Nat /\ Len(route.legs) \in Nat
    <3>1. route \in Routes /\ AsRun(route, walk)
      BY <2>1, RouteAtHand
    <3>2. walk.n \in 1..Len(route.legs) + 1
      BY <3>1 DEF AsRun
    <3> QED BY <3>1, <3>2, RouteIs
  <2>3. Concludes(Worth(route))
    <3>1. CASE walk.n > Len(route.legs)
      <4>1. Worth(route) = IF route.dst_slot < MAX_SLOTS THEN walk.books.bal[route.dst_slot] ELSE 0
        BY <2>2, <3>1, EndsAsRun
      <4> QED BY <1>2, <3>1, <4>1 DEF WalkEnds
    <3>2. CASE ~(walk.n > Len(route.legs))
      <4>1. walk.n <= Len(route.legs)
        BY <2>2, <3>2
      <4>2. ~OnALeg \/ (Trading /\ Value = 0)
        BY <1>2, <3>2 DEF WalkEnds
      <4>3. Concludes(0)
        BY <1>2, <3>2 DEF WalkEnds
      <4>4. Worth(route) = 0
        <5>1. CASE ~OnALeg
          <6>1. ~Walk!InRange(route, route.legs[walk.n])
            BY <2>1, <4>1, <5>1 DEF OnALeg, leg
          <6> QED BY <2>2, <4>1, <6>1, DiesAsRun
        <5>2. CASE Trading /\ Value = 0
          <6> DEFINE dx == Dx
          <6>1. OnALeg /\ dx > 0
            BY <5>2 DEF Trading
          <6>2. /\ dx = Walk!Spend(walk.books, route.legs[walk.n])
                /\ PoolQuote(route.legs[walk.n], dx, Seen(route, walk, route.legs[walk.n])) = 0
            BY <5>2, <6>1, LegAtHand
          <6> HIDE DEF dx
          <6> QED BY <2>2, <4>1, <6>1, <6>2, DiesAsRun
        <5> QED BY <4>2, <5>1, <5>2
      <4> QED BY <4>3, <4>4
    <3> QED BY <3>1, <3>2
  <2> QED BY <2>1, <2>3, NextRoute, ConcludedFiguring
<1>3. CASE CannotQuote
  <2>1. Walking /\ refused' = refused
    BY <1>3 DEF CannotQuote, Trading, OnALeg
  <2>2. CASE Reused(route) # {}
    <3>1. Concludes(0) /\ holes' = holes
      BY <1>3, <2>2 DEF CannotQuote, Unwalkable
    <3> QED BY <2>1, <2>2, <3>1, NextRoute, ConcludedFiguring
  <2>3. CASE Reused(route) = {}
    <3>1. Concludes(Pending) /\ holes' = Append(holes, at)
      BY <1>3, <2>3 DEF CannotQuote, Unwalkable, ToTheChain
    <3> QED BY <2>1, <2>3, <3>1, NextRoute, ConcludedFiguring
  <2> QED BY <2>2, <2>3
<1>4. CASE Refuses
  <2>1. Walking /\ refused \subseteq refused' /\ at \in refused'
        /\ Concludes(Pending) /\ holes' = Append(holes, at)
    BY <1>4 DEF Refuses, Trading, OnALeg, ToTheChain
  <2> QED BY <2>1, NextRoute, ConcludedFiguring
<1> QED BY <1>1, <1>2, <1>3, <1>4

LEMMA NoWalk ==
    ASSUME pc' # "walk"
    PROVE  Walks'
<1>1. pc' = "walk" /\ enabled' /\ at' <= Len(wanted') => AsRun(wanted'[at'], walk')
  OBVIOUS
<1> QED BY <1>1, WalksNext

LEMMA SendFiguring ==
    ASSUME Listed, Figuring, SendHoles
    PROVE  Walks' /\ Figuring'
<1>1. /\ pc = "walk" /\ pc' = "chain" /\ wanted' = wanted /\ figures' = figures
      /\ enabled' = enabled /\ refused' = refused /\ (enabled => at > Len(wanted))
      /\ holes' = (IF enabled THEN holes ELSE [m \in DOMAIN wanted |-> m])
  BY DEF SendHoles
<1>2. /\ wanted \in Requests /\ DOMAIN figures = 1..Len(wanted)
      /\ enabled => \A i \in 1..Len(holes) :
            holes[i] \in refused \/ Reused(wanted[holes[i]]) = {}
      /\ enabled => \A m \in 1..at - 1 : InHoles(m) \/ Priced(m)
  BY <1>1 DEF Figuring
<1>3. Len(wanted) \in Nat /\ at \in 1..Len(wanted) + 1 /\ DOMAIN wanted = 1..Len(wanted)
  BY DEF Listed
<1>4. ASSUME NEW m \in 1..Len(wanted')
      PROVE  \/ \E i \in 1..Len(holes') : holes'[i] = m
             \/ figures'[m] = Worth(wanted'[m])
             \/ figures'[m] = 0 /\ Reused(wanted'[m]) # {}
  <2>1. CASE enabled
    <3>1. m \in 1..at - 1 /\ holes' = holes
      BY <1>1, <1>3, <2>1
    <3>2. InHoles(m) \/ Priced(m)
      BY <1>2, <2>1, <3>1
    <3> QED BY <1>1, <3>1, <3>2 DEF InHoles, Priced
  <2>2. CASE ~enabled
    <3>1. holes' = [k \in 1..Len(wanted) |-> k]
      BY <1>1, <1>3, <2>2
    <3>2. Len(holes') = Len(wanted) /\ m \in 1..Len(holes') /\ holes'[m] = m
      BY <1>1, <1>3, <3>1
    <3> QED BY <3>2
  <2> QED BY <2>1, <2>2
<1>5. enabled' => \A i \in 1..Len(holes') :
         holes'[i] \in refused' \/ Reused(wanted'[holes'[i]]) = {}
  BY <1>1, <1>2
<1>6. QuotedAsItPays'
  BY <1>1, PaysNext
<1>7. Figuring'
  BY <1>1, <1>2, <1>4, <1>5, <1>6, FiguringNext
<1> QED BY <1>1, <1>7, NoWalk

\* The place of an answer is its own: no two go to one place.
LEMMA PlaceIs ==
    ASSUME Listed, NEW i \in 1..Len(holes)
    PROVE  Place(holes[i]) = out[i]
<1>1. /\ Len(holes) \in Nat /\ DOMAIN holes = 1..Len(holes)
      /\ \A j \in 1..Len(holes) : holes[j] \in Nat
      /\ \A j, k \in 1..Len(holes) : j < k => holes[j] < holes[k]
  BY DEF Listed
<1>2. \A j \in 1..Len(holes) : holes[j] = holes[i] => j = i
  <2> SUFFICES ASSUME NEW j \in 1..Len(holes), holes[j] = holes[i], j # i PROVE FALSE
    OBVIOUS
  <2>1. j < i \/ i < j
    OBVIOUS
  <2> QED BY <1>1, <2>1
<1> DEFINE m == holes[i]
           j == CHOOSE k \in DOMAIN holes : holes[k] = m
<1>3. j \in 1..Len(holes) /\ holes[j] = m
  BY <1>1
<1>4. j = i
  <2> HIDE DEF j
  <2> QED BY <1>2, <1>3
<1>5. \E k \in DOMAIN holes : holes[k] = m
  BY <1>1
<1>6. Place(m) = out[j]
  BY <1>5 DEF Place
<1> QED BY <1>4, <1>6

\* What is answered for the route in a hole.
LEMMA HoleIsPaid ==
    ASSUME Listed, Answering, Figuring, pc = "chain", Len(out) = Len(holes),
           NEW i \in 1..Len(holes)
    PROVE  LET m == holes[i]
           IN  \/ out[i] = Worth(wanted[m])
               \/ out[i] = 0 /\ (i \in lost \/ CallFails(<<wanted[m]>>))
               \/ Reused(wanted[m]) # {} /\ (~enabled \/ m \in refused)
<1> DEFINE m == holes[i]
<1>1. m \in 1..Len(wanted) /\ asked[i] = wanted[m] /\ wanted \in Requests
  BY DEF Listed, Figuring
<1>2. i \in 1..Len(out)
  OBVIOUS
<1>3. CASE i \in lost
  BY <1>3 DEF Answering
<1>4. CASE i \notin lost
  <2>1. out[i] = OnItsOwn(wanted[m])
    BY <1>1, <1>2, <1>4 DEF Answering, Own
  <2>2. CASE CallFails(<<wanted[m]>>)
    BY <2>1, <2>2 DEF OnItsOwn
  <2>3. CASE ~CallFails(<<wanted[m]>>)
    <3>1. out[i] = WalkRoute(wanted[m])
      BY <2>1, <2>3 DEF OnItsOwn
    <3>2. CASE Reused(wanted[m]) = {}
      <4>1. WalkRoute(wanted[m]) = Worth(wanted[m])
        <5> HIDE DEF m
        <5> QED BY <1>1, <2>3, <3>2, ChainIsRun
      <4> QED BY <3>1, <4>1
    <3>3. CASE Reused(wanted[m]) # {}
      <4>1. enabled => m \in refused
        BY <3>3 DEF Figuring
      <4> QED BY <3>3, <4>1
    <3> QED BY <3>2, <3>3
  <2> QED BY <2>2, <2>3
<1> QED BY <1>3, <1>4

LEMMA FillFiguring ==
    ASSUME Listed, Answering, Figuring, FillHoles
    PROVE  Walks' /\ Figuring'
<1>1. /\ pc = "chain" /\ pc' = "done" /\ wanted' = wanted /\ enabled' = enabled
      /\ refused' = refused /\ holes' = holes /\ lost' = lost /\ Len(out) = Len(holes)
      /\ figures' = [m \in DOMAIN wanted |-> Place(m)]
  BY DEF FillHoles, vars
<1>2. /\ wanted \in Requests
      /\ enabled => \A i \in 1..Len(holes) :
            holes[i] \in refused \/ Reused(wanted[holes[i]]) = {}
      /\ \A m \in 1..Len(wanted) : InHoles(m) \/ Priced(m)
  BY <1>1 DEF Figuring
<1>3. DOMAIN wanted = 1..Len(wanted) /\ DOMAIN holes = 1..Len(holes)
  BY DEF Listed
<1>4. ASSUME NEW m \in DOMAIN wanted
      PROVE  \/ figures'[m] = Worth(wanted[m])
             \/ figures'[m] = 0 /\ \/ Reused(wanted[m]) # {}
                                   \/ \E i \in lost : holes[i] = m
                                   \/ CallFails(<<wanted[m]>>)
             \/ Reused(wanted[m]) # {} /\ (~enabled \/ m \in refused)
  <2>1. figures'[m] = Place(m)
    BY <1>1
  <2>2. CASE InHoles(m)
    <3>1. PICK i \in 1..Len(holes) : holes[i] = m
      BY <2>2 DEF InHoles
    <3>2. Place(m) = out[i]
      BY <3>1, PlaceIs
    <3>3. \/ out[i] = Worth(wanted[m])
          \/ out[i] = 0 /\ (i \in lost \/ CallFails(<<wanted[m]>>))
          \/ Reused(wanted[m]) # {} /\ (~enabled \/ m \in refused)
      BY <1>1, <3>1, HoleIsPaid
    <3> QED BY <2>1, <3>1, <3>2, <3>3
  <2>3. CASE ~InHoles(m)
    <3>1. Place(m) = figures[m]
      BY <1>3, <2>3 DEF Place, InHoles
    <3>2. Priced(m)
      BY <1>2, <1>3, <2>3
    <3> QED BY <2>1, <3>1, <3>2 DEF Priced
  <2> QED BY <2>2, <2>3
<1>5. DOMAIN figures' = 1..Len(wanted)
  BY <1>1, <1>3
<1>6. QuotedAsItPays'
  BY <1>1, <1>4, PaysNext
<1>7. Figuring'
  BY <1>1, <1>2, <1>5, <1>6, FiguringNext
<1> QED BY <1>1, <1>7, NoWalk

LEMMA FiguringSame ==
    ASSUME Figuring, Walks, UNCHANGED <<exact, lost>>
    PROVE  Walks' /\ Figuring'
<1>1. /\ wanted' = wanted /\ figures' = figures /\ at' = at /\ holes' = holes /\ pc' = pc
      /\ enabled' = enabled /\ refused' = refused /\ walk' = walk /\ lost' = lost
  BY DEF exact
<1>2. pc' = "walk" /\ enabled' /\ at' <= Len(wanted') => AsRun(wanted'[at'], walk')
  BY <1>1 DEF Walks
<1>3. Walks'
  BY <1>2, WalksNext
<1>4. /\ wanted \in Requests /\ DOMAIN figures = 1..Len(wanted)
      /\ enabled => \A i \in 1..Len(holes) :
            holes[i] \in refused \/ Reused(wanted[holes[i]]) = {}
      /\ pc = "walk" /\ enabled => \A m \in 1..at - 1 : InHoles(m) \/ Priced(m)
      /\ pc = "chain" => \A m \in 1..Len(wanted) : InHoles(m) \/ Priced(m)
  BY DEF Figuring
<1>5. QuotedAsItPays'
  <2>1. QuotedAsItPays
    BY DEF Figuring
  <2> QED BY <1>1, <2>1, PaysNext DEF QuotedAsItPays
<1>6. Figuring'
  BY <1>1, <1>4, <1>5, FiguringNext DEF InHoles, Priced
<1> QED BY <1>3, <1>6

LEMMA ClientFiguring ==
    ASSUME Figuring, Walks, pc = "chain", UNCHANGED exact
    PROVE  Walks' /\ Figuring'
<1>1. /\ wanted' = wanted /\ figures' = figures /\ at' = at /\ holes' = holes /\ pc' = pc
      /\ enabled' = enabled /\ refused' = refused /\ walk' = walk /\ pc' = "chain"
  BY DEF exact
<1>2. QuotedAsItPays'
  BY <1>1, PaysNext
<1>3. Figuring'
  BY <1>1, <1>2, FiguringNext DEF Figuring, InHoles, Priced
<1> QED BY <1>1, <1>3, NoWalk

LEMMA NextFiguring ==
    Listed /\ Answering /\ Figuring /\ Walks /\ [ExactNext]_<<vars, exact>> => Figuring' /\ Walks'
<1> SUFFICES ASSUME Listed, Answering, Figuring, Walks, [ExactNext]_<<vars, exact>>
             PROVE  Figuring' /\ Walks'
  OBVIOUS
<1>1. CASE SkipLeg \/ PriceLeg \/ WalkEnds \/ CannotQuote \/ Refuses
  BY <1>1, WalkFiguring
<1>2. CASE SendHoles
  BY <1>2, SendFiguring
<1>3. CASE Client
  BY <1>3, ClientFiguring DEF Client
<1>4. CASE FillHoles
  BY <1>4, FillFiguring
<1>5. CASE UNCHANGED <<vars, exact>>
  BY <1>5, FiguringSame DEF vars
<1> QED BY <1>1, <1>2, <1>3, <1>4, <1>5 DEF ExactNext

\* Whatever may be modelled, refused, lost or fail: what is answered of a route is what
\* it would pay if it were run, pools it enters twice and all, or nothing for a stated
\* reason; a static quote of a pool that is entered twice is let through only where the
\* models are off or have refused the size (ExactQuoterClient, chain/exact_probe.py:714).
THEOREM PaysAsQuoted ==
    ExactSpec => []QuotedAsItPays
<1>1. ExactInit => Figuring /\ Walks
  BY InitFiguring
<1>2. /\ Listed /\ Answering /\ Figuring /\ Walks /\ [ExactNext]_<<vars, exact>>
      => (Figuring /\ Walks)'
  BY NextFiguring
<1>3. Figuring => QuotedAsItPays
  BY DEF Figuring
<1>4. ExactSpec => [](Figuring /\ Walks)
  BY <1>1, <1>2, ExactInvariant, PTL DEF ExactSpec
<1> QED BY <1>3, <1>4, PTL

----------------------------------------------------------------------------
(* Sums.                                                                   *)

\* f[n] is the sum of the first n of N numbers a.
AddsUp(f, N, a) ==
    /\ N \in Nat /\ a \in [1..N -> Nat] /\ f \in [0..N -> Nat]
    /\ f[0] = 0 /\ \A n \in 1..N : f[n] = f[n - 1] + a[n]

LEMMA Sums ==
    ASSUME NEW N \in Nat, NEW a \in [1..N -> Nat]
    PROVE  \E f : AddsUp(f, N, a)
<1> DEFINE step == [n \in 1..N |-> [sum \in Nat |-> sum + a[n]]]
<1>1. step \in [1..N -> [Nat -> Nat]] /\ 0 \in Nat
  OBVIOUS
<1>2. PICK f \in [0..N -> Nat] : Iterates(f, N, 0, step)
  <2> HIDE DEF step
  <2> QED BY <1>1, Iteration, Zenon
<1>3. ASSUME NEW n \in 1..N PROVE f[n] = f[n - 1] + a[n]
  <2>1. n - 1 \in 0..N
    OBVIOUS
  <2>2. f[n - 1] \in Nat
    BY <2>1
  <2> QED BY <1>2, <2>2 DEF Iterates
<1>4. AddsUp(f, N, a)
  BY <1>2, <1>3 DEF AddsUp, Iterates
<1> QED BY <1>4

\* b is a, but for so much more in one place.
MoreAt(a, b, N, j, more) ==
    /\ j \in 1..N /\ more \in Nat /\ b[j] = a[j] + more
    /\ \A i \in 1..N : i # j => b[i] = a[i]

LEMMA SumsDiffer ==
    ASSUME NEW N, NEW f, NEW g, NEW a, NEW b, NEW j, NEW more,
           AddsUp(f, N, a), AddsUp(g, N, b), MoreAt(a, b, N, j, more)
    PROVE  g[N] = f[N] + more
<1> DEFINE Good == {n \in 0..N : g[n] = IF n < j THEN f[n] ELSE f[n] + more}
<1>0. N \in Nat /\ j \in 1..N
  BY DEF AddsUp, MoreAt
<1>1. 0 \in Good
  BY DEF AddsUp, MoreAt
<1>2. ASSUME NEW n \in 1..N, n - 1 \in Good PROVE n \in Good
  <2>1. n - 1 \in 0..N /\ n \in 0..N
    <3> HIDE DEF Good
    <3> QED BY <1>0
  <2> DEFINE had == f[n - 1]
             has == g[n - 1]
             got == a[n]
             gets == b[n]
  <2>2. /\ has = IF n - 1 < j THEN had ELSE had + more
        /\ f[n] = had + got /\ g[n] = has + gets
        /\ had \in Nat /\ got \in Nat /\ more \in Nat
        /\ gets = IF n = j THEN got + more ELSE got
    BY <1>2, <2>1 DEF AddsUp, MoreAt
  <2> HIDE DEF Good, had, has, got, gets
  <2>3. g[n] = IF n < j THEN f[n] ELSE f[n] + more
    <3>1. CASE n < j
      BY <1>0, <2>2, <3>1
    <3>2. CASE n = j
      BY <1>0, <2>2, <3>2
    <3>3. CASE n > j
      BY <1>0, <2>2, <3>3
    <3> QED BY <1>0, <3>1, <3>2, <3>3
  <2> QED BY <2>1, <2>3 DEF Good
<1>3. \A n \in 0..N : n \in Good
  <2> HIDE DEF Good
  <2> QED BY <1>0, <1>1, <1>2, UpTo
<1>4. N \in Good /\ ~(N < j)
  BY <1>0, <1>3
<1> QED BY <1>4

\* The same numbers have the same sums.
LEMMA SumsAgree ==
    ASSUME NEW N, NEW f, NEW g, NEW a, NEW b, AddsUp(f, N, a), AddsUp(g, N, b),
           \A i \in 1..N : b[i] = a[i]
    PROVE  \A n \in 0..N : g[n] = f[n]
<1> DEFINE Good == {n \in 0..N : g[n] = f[n]}
<1>0. N \in Nat
  BY DEF AddsUp
<1>1. 0 \in Good
  BY DEF AddsUp
<1>2. ASSUME NEW n \in 1..N, n - 1 \in Good PROVE n \in Good
  BY <1>2 DEF AddsUp
<1>3. \A n \in 0..N : n \in Good
  <2> HIDE DEF Good
  <2> QED BY <1>0, <1>1, <1>2, UpTo
<1> QED BY <1>3

LEMMA NothingAddsUp ==
    ASSUME NEW N, NEW f, NEW a, AddsUp(f, N, a), \A i \in 1..N : a[i] = 0
    PROVE  f[N] = 0
<1> DEFINE g == [n \in 0..N |-> 0]
<1>1. AddsUp(g, N, a) /\ N \in 0..N /\ g[N] = 0
  BY DEF AddsUp
<1> HIDE DEF g
<1>2. \A n \in 0..N : f[n] = g[n]
  BY <1>1, SumsAgree
<1> QED BY <1>1, <1>2

\* What w gives the members of P, in the places they have in u.
Part(N, u, w, P) == [i \in 1..N |-> IF u[i] \in P THEN w[u[i]] ELSE 0]

\* N numbers w of distinct things u.
Distinct(N, u) == \A i, j \in 1..N : u[i] = u[j] => i = j
Weighs(N, u, w) == N \in Nat /\ Distinct(N, u) /\ \A i \in 1..N : w[u[i]] \in Nat

\* What w gives them, each in its place.
Gives(N, u, w, a) == \A i \in 1..N : a[i] = w[u[i]]

\* The same things in another order.
Reordered(N, t, u) == {t[i] : i \in 1..N} = {u[i] : i \in 1..N}

LEMMA PartIs ==
    ASSUME NEW N, NEW u, NEW w, NEW P, Weighs(N, u, w)
    PROVE  N \in Nat /\ Part(N, u, w, P) \in [1..N -> Nat]
BY DEF Part, Weighs

\* One more of them adds what it weighs.
LEMMA OneJoins ==
    ASSUME NEW N, NEW u, NEW w, Weighs(N, u, w), NEW P, NEW j \in 1..N, u[j] \notin P,
           NEW f, AddsUp(f, N, Part(N, u, w, P)),
           NEW h, AddsUp(h, N, Part(N, u, w, P \cup {u[j]}))
    PROVE  h[N] = f[N] + w[u[j]]
<1> DEFINE a == Part(N, u, w, P)
           b == Part(N, u, w, P \cup {u[j]})
           more == w[u[j]]
<1>1. MoreAt(a, b, N, j, more)
  <2>1. more \in Nat /\ a[j] = 0 /\ b[j] = more
    BY DEF Part, Weighs
  <2>2. \A i \in 1..N : i # j => b[i] = a[i]
    <3> SUFFICES ASSUME NEW i \in 1..N, i # j PROVE b[i] = a[i]
      OBVIOUS
    <3>1. u[i] # u[j]
      BY DEF Weighs, Distinct
    <3> QED BY <3>1 DEF Part
  <2> HIDE DEF a, b, more
  <2> QED BY <2>1, <2>2 DEF MoreAt
<1>2. AddsUp(f, N, a) /\ AddsUp(h, N, b)
  OBVIOUS
<1> HIDE DEF a, b, more
<1>3. h[N] = f[N] + more
  BY <1>1, <1>2, SumsDiffer
<1> QED BY <1>3 DEF more

LEMMA FirstOnes ==
    ASSUME NEW N \in Nat, NEW t, \A i, j \in 1..N : t[i] = t[j] => i = j,
           NEW k \in 1..N
    PROVE  /\ {t[i] : i \in 1..k} = {t[i] : i \in 1..k - 1} \cup {t[k]}
           /\ t[k] \notin {t[i] : i \in 1..k - 1}
<1>1. 1..k = 1..k - 1 \cup {k} /\ k \notin 1..k - 1
  OBVIOUS
<1>2. \A i \in 1..k - 1 : i \in 1..N
  OBVIOUS
<1>3. {t[i] : i \in 1..k} = {t[i] : i \in 1..k - 1} \cup {t[k]}
  BY <1>1, Zenon
<1>4. t[k] \notin {t[i] : i \in 1..k - 1}
  <2> SUFFICES ASSUME NEW i \in 1..k - 1, t[k] = t[i] PROVE FALSE
    OBVIOUS
  <2>1. i \in 1..N
    BY <1>2
  <2>2. k = i
    BY <2>1, Zenon
  <2> QED BY <1>1, <2>2
<1> QED BY <1>3, <1>4

\* A sum does not depend on the order.
LEMMA Rearranged ==
    ASSUME NEW N, NEW t, NEW u, NEW w, Weighs(N, t, w), Weighs(N, u, w), Reordered(N, t, u),
           NEW a, Gives(N, t, w, a), NEW f, AddsUp(f, N, a),
           NEW b, Gives(N, u, w, b), NEW g, AddsUp(g, N, b)
    PROVE  g[N] = f[N]
<1> DEFINE First(k) == {t[i] : i \in 1..k}
           Sound(k) == \A h : AddsUp(h, N, Part(N, u, w, First(k))) => h[N] = f[k]
           Good == {k \in 0..N : Sound(k)}
<1>0. N \in Nat
  BY DEF Weighs
<1>1. 0 \in Good
  <2>1. ASSUME NEW h, AddsUp(h, N, Part(N, u, w, First(0)))
        PROVE  h[N] = f[0]
    <3> DEFINE none == Part(N, u, w, First(0))
    <3>1. First(0) = {}
      OBVIOUS
    <3>2. \A i \in 1..N : none[i] = 0
      <4> HIDE DEF First
      <4> QED BY <3>1 DEF Part
    <3>3. AddsUp(h, N, none)
      BY <2>1
    <3> HIDE DEF none
    <3>4. h[N] = 0
      BY <3>2, <3>3, NothingAddsUp
    <3> QED BY <3>4 DEF AddsUp
  <2>2. Sound(0)
    BY <2>1
  <2> HIDE DEF Sound
  <2> QED BY <1>0, <2>2
<1>2. ASSUME NEW k \in 1..N, k - 1 \in Good PROVE k \in Good
  <2> DEFINE P == First(k - 1)
  <2>1. Sound(k - 1)
    <3> HIDE DEF Sound
    <3> QED BY <1>2
  <2>2. First(k) = P \cup {t[k]} /\ t[k] \notin P
    BY <1>0, FirstOnes DEF Weighs, Distinct
  <2>3. PICK j \in 1..N : u[j] = t[k]
    <3>1. t[k] \in {u[i] : i \in 1..N}
      BY DEF Reordered
    <3> QED BY <3>1
  <2>4. f[k] = f[k - 1] + w[t[k]]
    <3>1. a[k] = w[t[k]]
      <4> HIDE DEF Good
      <4> QED BY DEF Gives
    <3>2. f[k] = f[k - 1] + a[k]
      <4> HIDE DEF Good
      <4> QED BY DEF AddsUp
    <3> QED BY <3>1, <3>2
  <2>5. ASSUME NEW h, AddsUp(h, N, Part(N, u, w, First(k)))
        PROVE  h[N] = f[k]
    <3>1. AddsUp(h, N, Part(N, u, w, P \cup {u[j]})) /\ u[j] \notin P
      <4> HIDE DEF First, P
      <4> QED BY <2>2, <2>3, <2>5
    <3>2. PICK fewer : AddsUp(fewer, N, Part(N, u, w, P))
      <4> DEFINE those == Part(N, u, w, P)
      <4>1. N \in Nat /\ those \in [1..N -> Nat]
        <5> HIDE DEF P
        <5> QED BY PartIs
      <4> HIDE DEF those
      <4>2. \E few : AddsUp(few, N, those)
        BY <4>1, Sums
      <4> QED BY <4>2 DEF those
    <3>3. fewer[N] = f[k - 1]
      BY <2>1, <3>2
    <3>4. h[N] = fewer[N] + w[u[j]]
      <4> HIDE DEF P
      <4> QED BY <3>1, <3>2, OneJoins
    <3> QED BY <2>3, <2>4, <3>3, <3>4
  <2>6. Sound(k)
    BY <2>5
  <2> HIDE DEF Sound
  <2> QED BY <1>0, <2>6
<1>3. Sound(N)
  <2>1. \A k \in 0..N : k \in Good
    <3> HIDE DEF Good
    <3> QED BY <1>0, <1>1, <1>2, UpTo
  <2>2. N \in Good
    <3> HIDE DEF Good
    <3> QED BY <1>0, <2>1
  <2> HIDE DEF Sound
  <2> QED BY <2>2
<1>4. AddsUp(g, N, Part(N, u, w, First(N)))
  <2>1. Part(N, u, w, First(N)) = b
    <3>1. \A i \in 1..N : u[i] \in First(N)
      BY DEF First, Reordered
    <3> HIDE DEF First
    <3>2. b \in [1..N -> Nat]
      BY DEF AddsUp
    <3> QED BY <3>1, <3>2 DEF Part, Gives
  <2> HIDE DEF First
  <2> QED BY <2>1
<1> QED BY <1>3, <1>4

\* Shares of a route is the sum of its legs' shares.
LEMMA SharesAre ==
    ASSUME NEW r \in Routes
    PROVE  \E f : AddsUp(f, Len(r.legs), [n \in 1..Len(r.legs) |-> r.legs[n].bps])
                  /\ Shares(r) = f[Len(r.legs)]
<1> DEFINE N == Len(r.legs)
           share(n) == r.legs[n].bps
           a == [n \in 1..N |-> share(n)]
           Is(f) == f = [n \in 0..N |-> IF n = 0 THEN 0 ELSE f[n - 1] + share(n)]
           g == CHOOSE f : Is(f)
<1>1. N \in Nat /\ \A n \in 1..N : share(n) \in Nat
  BY RouteIs DEF Legs
<1>2. Shares(r) = g[N]
  BY DEF Shares
<1> HIDE DEF N, share
<1>3. a \in [1..N -> Nat] /\ \A n \in 1..N : a[n] = share(n)
  BY <1>1
<1> HIDE DEF a
<1>4. PICK f : AddsUp(f, N, a)
  BY <1>1, <1>3, Sums
<1>5. Is(f)
  BY <1>3, <1>4 DEF AddsUp
<1>6. Is(g)
  <2> HIDE DEF Is
  <2> QED BY <1>5
<1> HIDE DEF g
<1> DEFINE Good == {n \in 0..N : g[n] = f[n]}
<1>7. 0 \in Good
  BY <1>1, <1>5, <1>6
<1>8. ASSUME NEW n \in 1..N, n - 1 \in Good PROVE n \in Good
  BY <1>1, <1>5, <1>6, <1>8
<1>9. N \in Good
  <2>1. \A n \in 0..N : n \in Good
    <3> HIDE DEF Good
    <3> QED BY <1>1, <1>7, <1>8, UpTo
  <2> HIDE DEF Good
  <2> QED BY <1>1, <2>1
<1>10. Shares(r) = f[N]
  BY <1>2, <1>9
<1>11. a = [n \in 1..Len(r.legs) |-> r.legs[n].bps]
  BY DEF a, N, share
<1> QED BY <1>4, <1>10, <1>11 DEF N

\* A running total never falls.
LEMMA SumsGrow ==
    ASSUME NEW N, NEW f, NEW a, AddsUp(f, N, a), NEW n \in 0..N
    PROVE  f[n] <= f[N]
<1> DEFINE Good == {k \in 0..N : k >= n => f[n] <= f[k]}
<1>0. N \in Nat /\ n \in 0..N
  BY DEF AddsUp
<1>1. 0 \in Good
  BY <1>0 DEF AddsUp
<1>2. ASSUME NEW k \in 1..N, k - 1 \in Good PROVE k \in Good
  <2> DEFINE was == f[k - 1]
             more == a[k]
             low == f[n]
  <2>1. k \in 0..N /\ was \in Nat /\ more \in Nat /\ low \in Nat /\ f[k] = was + more
    BY <1>0 DEF AddsUp
  <2>2. k - 1 >= n => low <= was
    BY <1>2
  <2>3. k = n => low = f[k]
    OBVIOUS
  <2> HIDE DEF was, more, low
  <2>4. k >= n => low <= f[k]
    BY <1>0, <2>1, <2>2, <2>3
  <2> QED BY <2>1, <2>4 DEF low
<1>3. \A k \in 0..N : k \in Good
  <2> HIDE DEF Good
  <2> QED BY <1>0, <1>1, <1>2, UpTo
<1>4. N \in Good
  <2> HIDE DEF Good
  <2> QED BY <1>0, <1>3
<1> QED BY <1>0, <1>4

----------------------------------------------------------------------------
(* A split: every leg spends slot 0, and none takes the rest.              *)

\* The share a leg of the split spends, what it pays, and whether it is the end.
Takes(r, l) == (r.amount_in * l.bps) \div BPS
Gain(r, l) == IF Takes(r, l) = 0 THEN 0 ELSE PoolQuote(l, Takes(r, l), Untouched)
Fatal(r, l) ==
    \/ ~Walk!InRange(r, l)
    \/ Takes(r, l) > 0 /\ PoolQuote(l, Takes(r, l), Untouched) = 0

\* Shares of no more than all of it are no more than all of it.
LEMMA ShareOf ==
    ASSUME NEW a \in Nat, NEW bps \in Nat
    PROVE  BPS * ((a * bps) \div BPS) <= a * bps
<1> DEFINE p == a * bps
<1>1. p \in Nat /\ BPS \in Nat \ {0}
  BY RequestAssumption
<1> HIDE DEF p
<1>2. BPS * (p \div BPS) <= p
  BY <1>1
<1> QED BY <1>2 DEF p

LEMMA NoMoreThan ==
    ASSUME NEW a \in Nat, NEW b \in Nat, NEW c \in Nat, c <= BPS, BPS * b <= a * c
    PROVE  b <= a
<1>1. BPS \in Nat \ {0}
  BY RequestAssumption
<1>2. a * c <= a * BPS
  BY <1>1
<1>3. BPS * b <= BPS * a
  BY <1>1, <1>2
<1> QED BY <1>1, <1>3

\* The legs of a split never take more than there is.
LEMMA TakenFits ==
    ASSUME NEW r \in Routes, OneGroup(r), NEW taken, NEW a,
           \A i \in 1..Len(r.legs) : a[i] = Takes(r, r.legs[i]),
           AddsUp(taken, Len(r.legs), a)
    PROVE  \A n \in 0..Len(r.legs) : taken[n] <= r.amount_in
<1> DEFINE N == Len(r.legs)
           A == r.amount_in
           shares == [n \in 1..Len(r.legs) |-> r.legs[n].bps]
<1>1. N \in Nat /\ A \in Nat /\ \A n \in 1..N : r.legs[n].bps \in Nat
  BY RouteIs DEF Legs
<1>2. PICK granted : AddsUp(granted, N, shares) /\ Shares(r) = granted[N]
  BY SharesAre
<1>3. granted[N] <= BPS
  BY <1>2 DEF OneGroup
<1> DEFINE Good == {n \in 0..N : BPS * taken[n] <= A * granted[n]}
<1>4. 0 \in Good
  BY <1>1, <1>2, RequestAssumption DEF AddsUp
<1>5. ASSUME NEW n \in 1..N, n - 1 \in Good PROVE n \in Good
  <2> DEFINE had == taken[n - 1]
             gave == granted[n - 1]
             bps == r.legs[n].bps
             takes == Takes(r, r.legs[n])
  <2>1. /\ n \in 0..N /\ had \in Nat /\ gave \in Nat /\ bps \in Nat /\ takes \in Nat
        /\ taken[n] = had + takes /\ granted[n] = gave + bps
    <3>1. n - 1 \in 0..N /\ n \in 0..N
      BY <1>1
    <3>2. /\ had \in Nat /\ a[n] \in Nat /\ taken[n] = had + a[n] /\ a[n] = takes
      BY <3>1 DEF AddsUp
    <3>3. gave \in Nat /\ granted[n] = gave + shares[n] /\ shares[n] = bps
      BY <1>2, <3>1 DEF AddsUp
    <3> QED BY <1>1, <3>1, <3>2, <3>3
  <2>2. BPS * had <= A * gave
    BY <1>5
  <2>3. BPS * takes <= A * bps
    BY <1>1, <2>1, ShareOf DEF Takes
  <2>4. BPS \in Nat
    BY RequestAssumption
  <2> HIDE DEF Good, had, gave, bps, takes, A
  <2>5. BPS * (had + takes) <= A * (gave + bps)
    <3>1. BPS * (had + takes) = BPS * had + BPS * takes
      BY <2>1, <2>4
    <3>2. A * (gave + bps) = A * gave + A * bps
      BY <1>1, <2>1
    <3> DEFINE p == BPS * had
               q == BPS * takes
               x == A * gave
               y == A * bps
    <3>3. p \in Nat /\ q \in Nat /\ x \in Nat /\ y \in Nat
      BY <1>1, <2>1, <2>4
    <3>4. p <= x /\ q <= y
      BY <2>2, <2>3
    <3> HIDE DEF p, q, x, y
    <3>5. p + q <= x + y
      BY <3>3, <3>4
    <3> QED BY <3>1, <3>2, <3>5 DEF p, q, x, y
  <2> QED BY <2>1, <2>5 DEF Good
<1>6. ASSUME NEW n \in 0..N PROVE taken[n] <= A
  <2>1. \A k \in 0..N : k \in Good
    <3> HIDE DEF Good
    <3> QED BY <1>1, <1>4, <1>5, UpTo
  <2>2. BPS * taken[n] <= A * granted[n]
    BY <2>1
  <2>3. taken[n] \in Nat /\ granted[n] \in Nat /\ granted[N] \in Nat
    BY <1>1, <1>2 DEF AddsUp
  <2>4. granted[n] <= granted[N]
    <3> HIDE DEF N, shares
    <3> QED BY <1>2, SumsGrow
  <2>5. granted[n] <= BPS
    BY <1>3, <2>3, <2>4, RequestAssumption
  <2> HIDE DEF A
  <2> QED BY <1>1, <2>2, <2>3, <2>5, NoMoreThan
<1> QED BY <1>6

\* Books on which a leg of the split opens, or has opened, its group: on all of it.
OnTheWhole(r, b) ==
    \/ b.cur = NoSlot /\ b.bal[0] = r.amount_in
    \/ b.cur = 0 /\ b.base = r.amount_in

\* A leg of it spends its share of all of it.
LEMMA SplitLeg ==
    ASSUME NEW r \in Routes, NEW l \in Legs, l.src = 0, l.dst # 0, l.bps > 0,
           0 \in Walk!Slot, NEW b \in Books, OnTheWhole(r, b), Takes(r, l) <= b.bal[0]
    PROVE  Walk!Base(b, l) = r.amount_in /\ Walk!Spend(b, l) = Takes(r, l)
           /\ Takes(r, l) \in Nat
<1>1. 0 # NoSlot
  BY RequestAssumption
<1>2. Walk!Base(b, l) = r.amount_in
  BY <1>1 DEF OnTheWhole, Walk!Base
<1>3. Takes(r, l) = (Walk!Base(b, l) * l.bps) \div BPS
  BY <1>2 DEF Takes
<1>4. r.amount_in \in Nat /\ l.bps \in Nat /\ b.bal[0] \in Nat
  BY RouteIs DEF Legs, Books
<1>5. Takes(r, l) \in Nat
  BY <1>4, ShareIs DEF Takes
<1>6. Walk!Spend(b, l) = IF l.bps = 0 \/ Takes(r, l) > b.bal[0] THEN b.bal[0] ELSE Takes(r, l)
  BY <1>3 DEF Walk!Spend
<1>7. ~(l.bps = 0) /\ ~(Takes(r, l) > b.bal[0])
  BY <1>4, <1>5
<1> QED BY <1>2, <1>5, <1>6, <1>7

\* Its share leaves slot 0, and what it gains comes into its own.
LEMMA SplitAfter ==
    ASSUME NEW r \in Routes, NEW l \in Legs, l.src = 0, l.dst # 0, l.bps > 0,
           0 \in Walk!Slot, l.dst \in Walk!Slot, NEW b \in Books, OnTheWhole(r, b),
           Takes(r, l) <= b.bal[0], NEW s \in Walk!Slot,
           NEW next, next = Walk!After(b, l, PoolQuote(l, Walk!Spend(b, l), Untouched))
    PROVE  /\ OnTheWhole(r, next) /\ next.bal[0] = b.bal[0] - Takes(r, l)
           /\ s # 0 => next.bal[s] = b.bal[s] + IF l.dst = s THEN Gain(r, l) ELSE 0
<1> DEFINE dx == Walk!Spend(b, l)
           value == PoolQuote(l, dx, Untouched)
           spent == [b.bal EXCEPT ![0] = @ - dx]
           paid == [spent EXCEPT ![l.dst] = @ + value]
<1>1. Walk!Base(b, l) = r.amount_in /\ dx = Takes(r, l) /\ dx \in Nat
  BY SplitLeg
<1>2. next = [bal |-> IF dx = 0 THEN b.bal ELSE paid, cur |-> 0, base |-> r.amount_in]
  BY <1>1 DEF Walk!After
<1>3. Gain(r, l) = IF dx = 0 THEN 0 ELSE value
  BY <1>1 DEF Gain
<1>4. value \in Nat /\ b.bal \in [Walk!Slot -> Nat] /\ b.bal[0] \in Nat /\ b.bal[s] \in Nat
  <2>1. value \in Nat
    <3> HIDE DEF dx
    <3> QED BY <1>1, QuoteIs, UntouchedStands
  <2> QED BY <2>1 DEF Books
<1> HIDE DEF dx, value
<1>5. OnTheWhole(r, next)
  BY <1>2 DEF OnTheWhole
<1>6. CASE dx = 0
  BY <1>1, <1>2, <1>3, <1>4, <1>5, <1>6
<1>7. CASE dx # 0
  <2>1. next.bal = paid /\ Gain(r, l) = value
    BY <1>2, <1>3, <1>7
  <2>2. /\ spent \in [Walk!Slot -> Int] /\ spent[0] = b.bal[0] - dx
        /\ s # 0 => spent[s] = b.bal[s]
    BY <1>1, <1>4
  <2> HIDE DEF spent
  <2> DEFINE to == l.dst
  <2>3. to \in Walk!Slot /\ to # 0 /\ paid = [spent EXCEPT ![to] = @ + value]
    OBVIOUS
  <2> HIDE DEF to, paid
  <2>4. paid[0] = spent[0]
    BY <2>2, <2>3
  <2>5. next.bal[0] = b.bal[0] - Takes(r, l)
    BY <1>1, <2>1, <2>2, <2>4
  <2>6. CASE to = s
    <3>1. paid[s] = spent[s] + value
      BY <2>2, <2>3, <2>6
    <3> QED BY <1>1, <1>5, <2>1, <2>2, <2>3, <2>5, <2>6, <3>1 DEF to
  <2>7. CASE to # s
    <3>1. paid[s] = spent[s]
      BY <2>2, <2>3, <2>7
    <3>2. s # 0 => (next.bal[s] = b.bal[s] /\ b.bal[s] + 0 = b.bal[s])
      BY <1>4, <2>1, <2>2, <3>1
    <3> QED BY <1>5, <2>5, <2>7, <3>2 DEF to
  <2> QED BY <2>6, <2>7
<1> QED BY <1>6, <1>7

\* Where a split stands after n of its legs: dead of the first that is fatal, or with
\* what they took gone from slot 0 and what they gained in place.
Stood(r, taken, s, gained, n) ==
    LET was == WalkedTo(r)[n]
    IN  /\ was.dead <=> \E i \in 1..n : Fatal(r, r.legs[i])
        /\ ~was.dead => /\ OnTheWhole(r, was.books)
                        /\ was.books.bal[0] = r.amount_in - taken[n]
                        /\ s # 0 => was.books.bal[s] = gained[n]

LEMMA SplitStands ==
    ASSUME NEW r \in Routes, OneGroup(r), 0 \in Walk!Slot, NEW s \in Walk!Slot,
           NEW taken, NEW a, AddsUp(taken, Len(r.legs), a),
           \A i \in 1..Len(r.legs) : a[i] = Takes(r, r.legs[i]),
           NEW gained, NEW b, AddsUp(gained, Len(r.legs), b),
           \A i \in 1..Len(r.legs) :
              b[i] = IF r.legs[i].dst = s THEN Gain(r, r.legs[i]) ELSE 0
    PROVE  \A n \in 0..Len(r.legs) : Stood(r, taken, s, gained, n)
<1> DEFINE N == Len(r.legs)
           f == WalkedTo(r)
           Good == {n \in 0..N : Stood(r, taken, s, gained, n)}
<1>1. N \in Nat /\ r.amount_in \in Nat
      /\ \A n \in 1..N : /\ r.legs[n] \in Legs /\ r.legs[n].src = 0
                         /\ r.legs[n].dst # 0 /\ r.legs[n].bps > 0
  <2>1. \A n \in 1..N : r.legs[n] \in ToSet(r.legs)
    BY RouteIs DEF ToSet
  <2> QED BY <2>1, RouteIs DEF OneGroup
<1>2. 0 \in Good
  <2>1. f[0].dead = FALSE /\ f[0].books = Walk!Opened(r.amount_in)
    BY StartsOpened
  <2> DEFINE opened == Walk!Opened(r.amount_in)
  <2>2. /\ opened.cur = NoSlot /\ opened.bal[0] = r.amount_in
        /\ s # 0 => opened.bal[s] = 0
    BY DEF Walk!Opened
  <2>3. taken[0] = 0 /\ gained[0] = 0
    BY DEF AddsUp
  <2> HIDE DEF opened
  <2>4. Stood(r, taken, s, gained, 0)
    BY <1>1, <2>1, <2>2, <2>3 DEF Stood, OnTheWhole, opened
  <2> QED BY <1>1, <2>4
<1>3. ASSUME NEW n \in 1..N, n - 1 \in Good PROVE n \in Good
  <2> DEFINE l == r.legs[n]
             was == f[n - 1]
             books == was.books
  <2>1. n - 1 \in 0..N /\ n \in 0..N /\ 1..n = 1..n - 1 \cup {n} /\ n \in 1..n
    BY <1>1
  <2>2. Stood(r, taken, s, gained, n - 1)
    BY <1>3
  <2>3. f[n] = WalkLeg(r, was, l) /\ was \in Quoted /\ books \in Books
    BY <2>1, WalkedToIs DEF Quoted
  <2>4. CASE was.dead
    <3>1. f[n].dead
      BY <2>3, <2>4 DEF WalkLeg, Quoted
    <3>2. \E i \in 1..n : Fatal(r, r.legs[i])
      BY <2>1, <2>2, <2>4 DEF Stood
    <3> QED BY <2>1, <3>1, <3>2 DEF Stood
  <2>5. CASE ~was.dead
    <3>1. /\ OnTheWhole(r, books) /\ books.bal[0] = r.amount_in - taken[n - 1]
          /\ s # 0 => books.bal[s] = gained[n - 1]
          /\ ~\E i \in 1..n - 1 : Fatal(r, r.legs[i])
      BY <2>2, <2>5 DEF Stood
    <3>2. taken[n] = taken[n - 1] + Takes(r, l) /\ taken[n] <= r.amount_in
          /\ taken[n - 1] \in Nat /\ taken[n] \in Nat
          /\ Takes(r, l) \in Nat
      <4>1. \A k \in 0..N : taken[k] <= r.amount_in
        BY TakenFits
      <4>2. taken[n] = taken[n - 1] + a[n] /\ a[n] \in Nat
            /\ taken[n - 1] \in Nat /\ taken[n] \in Nat
        BY <2>1 DEF AddsUp
      <4> QED BY <2>1, <4>1, <4>2
    <3>3. Takes(r, l) <= books.bal[0]
      <4> DEFINE had == taken[n - 1]
                 takes == Takes(r, l)
                 have == books.bal[0]
      <4>1. have = r.amount_in - had /\ had + takes <= r.amount_in /\ had \in Nat
            /\ takes \in Nat
        BY <3>1, <3>2
      <4> HIDE DEF had, takes, have
      <4>2. takes <= have
        BY <1>1, <4>1
      <4> QED BY <4>2 DEF takes, have
    <3>4. Walk!Spend(books, l) = Takes(r, l)
      <4> HIDE DEF l, books
      <4>1. l \in Legs /\ l.src = 0 /\ l.dst # 0 /\ l.bps > 0
        BY <1>1 DEF l
      <4> QED BY <2>3, <3>1, <3>3, <4>1, SplitLeg
    <3>5. Dies(r, l, books) <=> Fatal(r, l)
      BY <3>4 DEF Dies, Fatal
    <3>6. CASE Fatal(r, l)
      <4>1. f[n].dead
        BY <2>3, <3>5, <3>6 DEF WalkLeg, Quoted
      <4> QED BY <2>1, <3>6, <4>1 DEF Stood
    <3>7. CASE ~Fatal(r, l)
      <4> DEFINE next == Walk!After(books, l, PoolQuote(l, Walk!Spend(books, l), Untouched))
      <4>1. f[n] = [was EXCEPT !.books = next]
        BY <2>3, <2>5, <3>5, <3>7 DEF WalkLeg
      <4>2. ~f[n].dead /\ f[n].books = next
        <5> HIDE DEF next
        <5> QED BY <2>3, <2>5, <4>1 DEF Quoted
      <4>3. /\ OnTheWhole(r, next) /\ next.bal[0] = books.bal[0] - Takes(r, l)
            /\ s # 0 => next.bal[s] = books.bal[s] + IF l.dst = s THEN Gain(r, l) ELSE 0
        <5>1. l.dst \in Walk!Slot
          BY <1>1, <3>7, OnTheSlots DEF Fatal
        <5>2. l \in Legs /\ l.src = 0 /\ l.dst # 0 /\ l.bps > 0
          BY <1>1
        <5> HIDE DEF l, books
        <5> QED BY <2>3, <3>1, <3>3, <5>1, <5>2, SplitAfter
      <4>4. gained[n] = gained[n - 1] + IF l.dst = s THEN Gain(r, l) ELSE 0
        BY DEF AddsUp
      <4>5. r.amount_in - taken[n - 1] - Takes(r, l) = r.amount_in - taken[n]
        <5> DEFINE had == taken[n - 1]
                   takes == Takes(r, l)
        <5> HIDE DEF had, takes
        <5>1. had \in Nat /\ takes \in Nat /\ taken[n] = had + takes
          BY <3>2 DEF had, takes
        <5>2. r.amount_in - had - takes = r.amount_in - (had + takes)
          BY <1>1, <5>1
        <5> QED BY <5>1, <5>2 DEF had, takes
      <4>6. ~\E i \in 1..n : Fatal(r, r.legs[i])
        BY <2>1, <3>1, <3>7
      <4> HIDE DEF next, l, books
      <4>7. /\ next.bal[0] = r.amount_in - taken[n]
            /\ s # 0 => next.bal[s] = gained[n]
        BY <3>1, <4>3, <4>4, <4>5
      <4> QED BY <2>1, <4>2, <4>3, <4>6, <4>7 DEF Stood
    <3> QED BY <3>6, <3>7
  <2> QED BY <2>4, <2>5
<1>4. \A n \in 0..N : n \in Good
  <2> HIDE DEF Good
  <2> QED BY <1>1, <1>2, <1>3, UpTo
<1> QED BY <1>4

\* As many things as there are distinct ones are distinct.
LEMMA DistinctToo ==
    ASSUME NEW t \in Seq(Legs), NEW u \in Seq(Legs), Len(t) = Len(u),
           IsInjective(t), ToSet(t) = ToSet(u)
    PROVE  Distinct(Len(t), t) /\ Distinct(Len(t), u) /\ Reordered(Len(t), t, u)
<1> DEFINE N == Len(t)
           T == {t[i] : i \in 1..N}
           S == 1..N
<1>0. N \in Nat
  OBVIOUS
<1>1. DOMAIN t = S /\ DOMAIN u = S
  OBVIOUS
<1>2. T = ToSet(t) /\ T = ToSet(u) /\ T = {u[i] : i \in S}
  BY <1>1 DEF ToSet
<1>3. \A i, j \in S : t[i] = t[j] => i = j
  BY <1>1 DEF IsInjective
<1>4. IsFiniteSet(S) /\ Cardinality(S) = N
  <2> HIDE DEF N
  <2> QED BY <1>0, FS_Interval, SMTT(30)
<1> DEFINE f == [i \in S |-> t[i]]
           g == [i \in S |-> u[i]]
<1>5. f \in Bijection(S, T)
  BY <1>3 DEF Bijection, Injection, Surjection, IsInjective
<1>6. g \in Surjection(S, T)
  <2>1. g \in [S -> T] /\ \A x \in T : \E i \in S : g[i] = x
    <3> HIDE DEF T, S
    <3>1. \A i \in S : u[i] \in T
      BY <1>2
    <3>2. \A x \in T : \E i \in S : u[i] = x
      BY <1>2
    <3> QED BY <3>1, <3>2
  <2> HIDE DEF g
  <2> QED BY <2>1 DEF Surjection
<1> HIDE DEF f, g, T, S
<1>7. Cardinality(T) = Cardinality(S)
  BY <1>4, <1>5, FS_Bijection DEF ExistsBijection
<1>8. g \in Injection(S, T)
  BY <1>4, <1>6, <1>7, FS_SurjSameCardinalityImpliesInj
<1>9. \A i, j \in S : u[i] = u[j] => i = j
  <2>1. \A i, j \in S : g[i] = g[j] => i = j
    BY <1>8 DEF Injection, IsInjective
  <2>2. \A i \in S : g[i] = u[i]
    BY DEF g
  <2> QED BY <2>1, <2>2
<1> QED BY <1>2, <1>3, <1>9 DEF S, T, Distinct, Reordered

\* What two routes of one split have in common.
LEMMA SplitsAre ==
    ASSUME NEW r \in Routes, NEW q \in Routes, SameSplit(r, q)
    PROVE  /\ r.amount_in = q.amount_in /\ r.dst_slot = q.dst_slot /\ r.slots = q.slots
           /\ Len(r.legs) = Len(q.legs) /\ OneGroup(r)
           /\ Distinct(Len(r.legs), r.legs) /\ Distinct(Len(r.legs), q.legs)
           /\ Reordered(Len(r.legs), r.legs, q.legs)
<1>1. r = [q EXCEPT !.legs = r.legs] /\ Len(r.legs) = Len(q.legs) /\ IsInjective(r.legs)
      /\ ToSet(r.legs) = ToSet(q.legs) /\ OneGroup(r)
  BY DEF SameSplit
<1>2. r.amount_in = q.amount_in /\ r.dst_slot = q.dst_slot /\ r.slots = q.slots
  <2> DEFINE legs == r.legs
  <2>1. r = [q EXCEPT !.legs = legs]
    BY <1>1
  <2> HIDE DEF legs
  <2> QED BY <2>1 DEF Routes
<1>3. r.legs \in Seq(Legs) /\ q.legs \in Seq(Legs)
  BY RouteIs
<1> QED BY <1>1, <1>2, <1>3, DistinctToo

\* f is the running total of what w gives the legs of r.
Totals(f, r, w) ==
    /\ \A l \in Legs : w[l] \in Nat
    /\ \E a : AddsUp(f, Len(r.legs), a) /\ Gives(Len(r.legs), r.legs, w, a)

\* What w gives the legs of a split adds up to the same in either order.
LEMMA SameSum ==
    ASSUME NEW r \in Routes, NEW q \in Routes, SameSplit(r, q),
           NEW w, NEW f, Totals(f, r, w), NEW g, Totals(g, q, w)
    PROVE  g[Len(q.legs)] = f[Len(r.legs)]
<1> DEFINE t == r.legs
           u == q.legs
           N == Len(t)
<1>1. Distinct(N, t) /\ Distinct(N, u) /\ Reordered(N, t, u) /\ N = Len(u)
  BY SplitsAre
<1>2. /\ N \in Nat /\ \A i \in 1..N : t[i] \in Legs
      /\ \A i \in 1..Len(u) : u[i] \in Legs
  BY RouteIs
<1>3. \E a : AddsUp(f, N, a) /\ Gives(N, t, w, a)
  BY DEF Totals
<1>4. \E b : AddsUp(g, N, b) /\ Gives(N, u, w, b)
  BY <1>1 DEF Totals
<1>5. \A l \in Legs : w[l] \in Nat
  BY DEF Totals
<1> HIDE DEF t, u, N
<1>6. Weighs(N, t, w) /\ Weighs(N, u, w)
  BY <1>1, <1>2, <1>5 DEF Weighs
<1>7. g[N] = f[N]
  <2>1. PICK a : AddsUp(f, N, a) /\ Gives(N, t, w, a)
    BY <1>3
  <2>2. PICK b : AddsUp(g, N, b) /\ Gives(N, u, w, b)
    BY <1>4
  <2> QED BY <1>1, <1>6, <2>1, <2>2, Rearranged
<1> QED BY <1>1, <1>7 DEF t, u, N

\* A leg takes, gains and kills alike in both.
LEMMA SplitSame ==
    ASSUME NEW r \in Routes, NEW q \in Routes, SameSplit(r, q)
    PROVE  /\ OneGroup(q)
           /\ \A l : /\ Takes(q, l) = Takes(r, l) /\ Gain(q, l) = Gain(r, l)
                     /\ Fatal(q, l) <=> Fatal(r, l)
<1>1. /\ r.amount_in = q.amount_in /\ r.dst_slot = q.dst_slot /\ r.slots = q.slots
      /\ Len(r.legs) = Len(q.legs) /\ OneGroup(r) /\ ToSet(r.legs) = ToSet(q.legs)
  BY SplitsAre DEF SameSplit
<1>2. Shares(q) = Shares(r)
  <2> DEFINE bps == [l \in Legs |-> l.bps]
             a == [n \in 1..Len(r.legs) |-> r.legs[n].bps]
             b == [n \in 1..Len(q.legs) |-> q.legs[n].bps]
  <2>1. /\ \A l \in Legs : bps[l] \in Nat
        /\ Gives(Len(r.legs), r.legs, bps, a) /\ Gives(Len(q.legs), q.legs, bps, b)
    <3>1. \A i \in 1..Len(r.legs) : r.legs[i] \in Legs
      BY RouteIs
    <3>2. \A i \in 1..Len(q.legs) : q.legs[i] \in Legs
      BY RouteIs
    <3>3. \A l \in Legs : bps[l] = l.bps /\ l.bps \in Nat
      BY DEF Legs
    <3> HIDE DEF bps
    <3> QED BY <3>1, <3>2, <3>3 DEF Gives
  <2>2. PICK f : AddsUp(f, Len(r.legs), a) /\ Shares(r) = f[Len(r.legs)]
    BY SharesAre
  <2>3. PICK g : AddsUp(g, Len(q.legs), b) /\ Shares(q) = g[Len(q.legs)]
    BY SharesAre
  <2> HIDE DEF bps, a, b
  <2>4. Totals(f, r, bps) /\ Totals(g, q, bps)
    BY <2>1, <2>2, <2>3 DEF Totals
  <2>5. g[Len(q.legs)] = f[Len(r.legs)]
    BY <2>4, SameSum
  <2> QED BY <2>2, <2>3, <2>5
<1>3. OneGroup(q)
  BY <1>1, <1>2 DEF OneGroup
<1>4. \A l : Takes(q, l) = Takes(r, l)
  BY <1>1 DEF Takes
<1>5. \A l : Gain(q, l) = Gain(r, l)
  BY <1>4 DEF Gain
<1>6. \A l : Fatal(q, l) <=> Fatal(r, l)
  BY <1>1, <1>4 DEF Fatal, Walk!InRange
<1> QED BY <1>3, <1>4, <1>5, <1>6

\* What a split leaves in a slot, by what its legs take and gain.
LEMMA SplitWorth ==
    ASSUME NEW r \in Routes, OneGroup(r), 0 \in Walk!Slot, NEW s \in Walk!Slot
    PROVE  LET N == Len(r.legs)
               end == WalkedTo(r)[N]
               a == [i \in 1..N |-> Takes(r, r.legs[i])]
               b == [i \in 1..N |-> IF r.legs[i].dst = s THEN Gain(r, r.legs[i]) ELSE 0]
           IN  \E taken, gained :
                  /\ AddsUp(taken, N, a) /\ AddsUp(gained, N, b)
                  /\ end.dead <=> \E i \in 1..N : Fatal(r, r.legs[i])
                  /\ ~end.dead => end.books.bal[s] = IF s = 0 THEN r.amount_in - taken[N]
                                                     ELSE gained[N]
<1> DEFINE N == Len(r.legs)
           end == WalkedTo(r)[N]
           takes(i) == Takes(r, r.legs[i])
           gains(i) == IF r.legs[i].dst = s THEN Gain(r, r.legs[i]) ELSE 0
           a == [i \in 1..N |-> takes(i)]
           b == [i \in 1..N |-> gains(i)]
<1>1. N \in Nat /\ N \in 0..N
  BY RouteIs
<1>2. ASSUME NEW i \in 1..N PROVE takes(i) \in Nat /\ gains(i) \in Nat
  <2> DEFINE l == r.legs[i]
  <2>1. l \in Legs /\ l.bps \in Nat /\ r.amount_in \in Nat
    BY RouteIs DEF Legs
  <2> HIDE DEF l
  <2>2. Takes(r, l) \in Nat
    BY <2>1, ShareIs DEF Takes
  <2>3. Gain(r, l) \in Nat
    BY <2>1, <2>2, QuoteIs, UntouchedStands DEF Gain
  <2> QED BY <2>2, <2>3 DEF l
<1>3. a \in [1..N -> Nat] /\ b \in [1..N -> Nat]
  <2> HIDE DEF takes, gains, N
  <2> QED BY <1>2
<1>4. \A i \in 1..N : a[i] = takes(i) /\ b[i] = gains(i)
  <2> HIDE DEF takes, gains, N
  <2> QED OBVIOUS
<1> HIDE DEF a, b
<1>5. PICK taken : AddsUp(taken, N, a)
  BY <1>1, <1>3, Sums
<1>6. PICK gained : AddsUp(gained, N, b)
  BY <1>1, <1>3, Sums
<1>7. Stood(r, taken, s, gained, N)
  BY <1>1, <1>4, <1>5, <1>6, SplitStands
<1>8. /\ end.dead <=> \E i \in 1..N : Fatal(r, r.legs[i])
      /\ ~end.dead => end.books.bal[s] = IF s = 0 THEN r.amount_in - taken[N]
                                         ELSE gained[N]
  BY <1>7 DEF Stood
<1> QED BY <1>5, <1>6, <1>8 DEF a, b

\* Of routes that are one split, neither dies unless both do, and what they pay is one.
LEMMA SplitPays ==
    ASSUME NEW r \in Routes, NEW q \in Routes, SameSplit(r, q), r.dst_slot < MAX_SLOTS
    PROVE  LET x == WalkedTo(r)[Len(r.legs)]
               y == WalkedTo(q)[Len(q.legs)]
           IN  /\ x.dead <=> y.dead
               /\ ~x.dead => x.books.bal[r.dst_slot] = y.books.bal[q.dst_slot]
<1> DEFINE s == r.dst_slot
           x == WalkedTo(r)[Len(r.legs)]
           y == WalkedTo(q)[Len(q.legs)]
           takes(p) == [i \in 1..Len(p.legs) |-> Takes(p, p.legs[i])]
           gains(p) == [i \in 1..Len(p.legs) |->
                           IF p.legs[i].dst = s THEN Gain(p, p.legs[i]) ELSE 0]
<1>1. /\ OneGroup(r) /\ OneGroup(q) /\ q.dst_slot = s /\ q.amount_in = r.amount_in
      /\ Len(q.legs) = Len(r.legs) /\ Reordered(Len(r.legs), r.legs, q.legs)
      /\ \A l : /\ Takes(q, l) = Takes(r, l) /\ Gain(q, l) = Gain(r, l)
                /\ Fatal(q, l) <=> Fatal(r, l)
  BY SplitsAre, SplitSame
<1>2. s \in Walk!Slot /\ 0 \in Walk!Slot
  <2>1. s \in Nat /\ MAX_SLOTS \in Nat
    BY RouteIs, RequestAssumption
  <2> HIDE DEF s
  <2>2. s < MAX_SLOTS
    BY DEF s
  <2> QED BY <2>1, <2>2 DEF Walk!Slot
<1>3. PICK taken, gained :
         /\ AddsUp(taken, Len(r.legs), takes(r)) /\ AddsUp(gained, Len(r.legs), gains(r))
         /\ x.dead <=> \E i \in 1..Len(r.legs) : Fatal(r, r.legs[i])
         /\ ~x.dead => x.books.bal[s] = IF s = 0 THEN r.amount_in - taken[Len(r.legs)]
                                        ELSE gained[Len(r.legs)]
  <2> HIDE DEF s
  <2> QED BY <1>1, <1>2, SplitWorth
<1>4. PICK spent, paid :
         /\ AddsUp(spent, Len(q.legs), takes(q)) /\ AddsUp(paid, Len(q.legs), gains(q))
         /\ y.dead <=> \E i \in 1..Len(q.legs) : Fatal(q, q.legs[i])
         /\ ~y.dead => y.books.bal[s] = IF s = 0 THEN q.amount_in - spent[Len(q.legs)]
                                        ELSE paid[Len(q.legs)]
  <2> HIDE DEF s
  <2> QED BY <1>1, <1>2, SplitWorth
<1> DEFINE take == [l \in Legs |-> Takes(r, l)]
           gain == [l \in Legs |-> IF l.dst = s THEN Gain(r, l) ELSE 0]
<1>5. /\ \A i \in 1..Len(r.legs) : r.legs[i] \in Legs
      /\ \A i \in 1..Len(q.legs) : q.legs[i] \in Legs
  BY RouteIs
<1>6. \A l \in Legs : take[l] \in Nat /\ gain[l] \in Nat
  <2> SUFFICES ASSUME NEW l \in Legs PROVE take[l] \in Nat /\ gain[l] \in Nat
    OBVIOUS
  <2>1. r.amount_in \in Nat /\ l.bps \in Nat
    BY RouteIs DEF Legs
  <2>2. Takes(r, l) \in Nat
    BY <2>1, ShareIs DEF Takes
  <2>3. Gain(r, l) \in Nat
    BY <2>2, QuoteIs, UntouchedStands DEF Gain
  <2> QED BY <2>2, <2>3
<1>7. /\ \A i \in 1..Len(r.legs) : takes(r)[i] = take[r.legs[i]]
      /\ \A i \in 1..Len(r.legs) : gains(r)[i] = gain[r.legs[i]]
      /\ \A i \in 1..Len(q.legs) : takes(q)[i] = take[q.legs[i]]
      /\ \A i \in 1..Len(q.legs) : gains(q)[i] = gain[q.legs[i]]
  <2> HIDE DEF s
  <2> QED BY <1>1, <1>5
<1>8. spent[Len(q.legs)] = taken[Len(r.legs)]
  <2> DEFINE a == takes(r)
             b == takes(q)
  <2>1. /\ AddsUp(taken, Len(r.legs), a) /\ AddsUp(spent, Len(q.legs), b)
        /\ Gives(Len(r.legs), r.legs, take, a) /\ Gives(Len(q.legs), q.legs, take, b)
        /\ \A l \in Legs : take[l] \in Nat
    <3> HIDE DEF takes, take
    <3> QED BY <1>3, <1>4, <1>6, <1>7 DEF Gives
  <2> HIDE DEF a, b, take
  <2>2. Totals(taken, r, take) /\ Totals(spent, q, take)
    BY <2>1 DEF Totals
  <2> QED BY <2>2, SameSum
<1>9. paid[Len(q.legs)] = gained[Len(r.legs)]
  <2> DEFINE a == gains(r)
             b == gains(q)
  <2>1. /\ AddsUp(gained, Len(r.legs), a) /\ AddsUp(paid, Len(q.legs), b)
        /\ Gives(Len(r.legs), r.legs, gain, a) /\ Gives(Len(q.legs), q.legs, gain, b)
        /\ \A l \in Legs : gain[l] \in Nat
    <3> HIDE DEF gains, gain
    <3> QED BY <1>3, <1>4, <1>6, <1>7 DEF Gives
  <2> HIDE DEF a, b, gain
  <2>2. Totals(gained, r, gain) /\ Totals(paid, q, gain)
    BY <2>1 DEF Totals
  <2> QED BY <2>2, SameSum
<1>10. (\E i \in 1..Len(r.legs) : Fatal(r, r.legs[i]))
         <=> (\E i \in 1..Len(q.legs) : Fatal(q, q.legs[i]))
  <2> DEFINE N == Len(r.legs)
  <2>1. {r.legs[i] : i \in 1..N} = {q.legs[i] : i \in 1..N} /\ Len(q.legs) = N
    BY <1>1 DEF Reordered
  <2> HIDE DEF N
  <2>2. ASSUME NEW i \in 1..N, Fatal(r, r.legs[i])
        PROVE  \E j \in 1..N : Fatal(q, q.legs[j])
    <3>1. PICK j \in 1..N : q.legs[j] = r.legs[i]
      <4>1. r.legs[i] \in {q.legs[j] : j \in 1..N}
        BY <2>1
      <4> QED BY <4>1
    <3> QED BY <1>1, <2>2, <3>1
  <2>3. ASSUME NEW i \in 1..N, Fatal(q, q.legs[i])
        PROVE  \E j \in 1..N : Fatal(r, r.legs[j])
    <3>1. PICK j \in 1..N : r.legs[j] = q.legs[i]
      <4>1. q.legs[i] \in {r.legs[j] : j \in 1..N}
        BY <2>1
      <4> QED BY <4>1
    <3> QED BY <1>1, <2>3, <3>1
  <2> QED BY <2>1, <2>2, <2>3 DEF N
<1>11. x.dead <=> y.dead
  BY <1>3, <1>4, <1>10
<1>12. ~x.dead => x.books.bal[s] = y.books.bal[s]
  <2> HIDE DEF s
  <2> QED BY <1>1, <1>3, <1>4, <1>8, <1>9, <1>11
<1> QED BY <1>1, <1>11, <1>12

\* So alone they are worth the same.
LEMMA SplitAnswers ==
    ASSUME NEW r \in Routes, NEW q \in Routes, SameSplit(r, q),
           WalkOf[r] = Walked(r), WalkOf[q] = Walked(q)
    PROVE  OnItsOwn(r) = OnItsOwn(q)
<1>1. /\ r.dst_slot = q.dst_slot /\ Len(r.legs) = Len(q.legs)
      /\ r.dst_slot \in Nat /\ MAX_SLOTS \in Nat
  BY SplitsAre, RouteIs, RequestAssumption
<1>2. /\ WalkOf[r] = WalkedTo(r)[Len(r.legs)]
      /\ WalkOf[q] = WalkedTo(q)[Len(q.legs)]
  BY DEF Walked, WalkedTo
<1>3. /\ CallFails(<<r>>) <=>
           \/ Len(r.legs) > MAX_ALL_LEGS \/ 1 > MAX_ROUTES \/ Len(r.legs) > GasLegs
           \/ r.dst_slot >= MAX_SLOTS /\ ~WalkOf[r].dead
      /\ CallFails(<<q>>) <=>
           \/ Len(q.legs) > MAX_ALL_LEGS \/ 1 > MAX_ROUTES \/ Len(q.legs) > GasLegs
           \/ q.dst_slot >= MAX_SLOTS /\ ~WalkOf[q].dead
  BY FailsAlone
<1>4. CASE r.dst_slot < MAX_SLOTS
  <2>1. /\ WalkOf[r].dead <=> WalkOf[q].dead
        /\ ~WalkOf[r].dead => WalkOf[r].books.bal[r.dst_slot] = WalkOf[q].books.bal[q.dst_slot]
    BY <1>2, <1>4, SplitPays
  <2>2. CallFails(<<r>>) <=> CallFails(<<q>>)
    BY <1>1, <1>3, <2>1
  <2>3. WalkRoute(r) = WalkRoute(q)
    BY <2>1 DEF WalkRoute
  <2> QED BY <2>2, <2>3 DEF OnItsOwn
<1>5. CASE ~(r.dst_slot < MAX_SLOTS)
  <2>1. r.dst_slot >= MAX_SLOTS /\ q.dst_slot >= MAX_SLOTS
    BY <1>1, <1>5
  <2>2. OnItsOwn(r) = 0
    BY <1>3, <2>1 DEF OnItsOwn, WalkRoute
  <2>3. OnItsOwn(q) = 0
    BY <1>3, <2>1 DEF OnItsOwn, WalkRoute
  <2> QED BY <2>2, <2>3
<1> QED BY <1>4, <1>5

\* What is asked of the chain is a route whose walk is tabled.
LEMMA AskedWalks ==
    ASSUME Listed, Figuring, Answering, NEW m \in 1..Len(out)
    PROVE  asked[m] \in Routes /\ WalkOf[asked[m]] = Walked(asked[m])
<1>1. m \in 1..Len(asked)
  BY AnsweredFew
<1>2. pc # "walk"
  <2> SUFFICES ASSUME pc = "walk" PROVE FALSE
    OBVIOUS
  <2>1. out = <<>>
    BY DEF Listed
  <2> QED BY <2>1
<1>3. /\ wanted \in Requests /\ wanted \in Seq(Routes) /\ holes \in Seq(1..Len(wanted))
      /\ asked = [i \in 1..Len(holes) |-> wanted[holes[i]]]
  BY <1>2 DEF Listed, Figuring
<1>4. m \in 1..Len(holes)
  <2>1. Len(holes) \in Nat
    BY <1>3
  <2>2. Len(asked) = Len(holes)
    BY <1>3, <2>1
  <2> QED BY <1>1, <2>2
<1> DEFINE k == holes[m]
<1>5. k \in 1..Len(wanted) /\ asked[m] = wanted[k]
  BY <1>3, <1>4
<1> HIDE DEF k
<1>6. wanted[k] \in Routes /\ wanted[k] \in ToSet(wanted)
  BY <1>3, <1>5 DEF ToSet
<1>7. wanted[k] \in UNION {ToSet(list) : list \in Requests}
  BY <1>3, <1>6
<1> QED BY <1>5, <1>6, <1>7 DEF WalkOf

\* A split is worth the same whatever order its legs drain their slot in: a share is of
\* what the group opened on, and no leg takes more than is there (`cur`/`base` of
\* RouteQuoter._walk; core/walk.py, "a split does not depend on the order its branches
\* drain").
THEOREM OrderFree ==
    ExactSpec => []SplitIsOrderFree
<1>1. Listed /\ Answering /\ Figuring => SplitIsOrderFree
  <2> SUFFICES ASSUME Listed, Answering, Figuring,
                      NEW m \in DOMAIN out \ lost, NEW i \in DOMAIN out \ lost,
                      SameSplit(asked[m], asked[i])
               PROVE  out[m] = out[i]
    BY DEF SplitIsOrderFree
  <2>1. m \in 1..Len(out) /\ i \in 1..Len(out)
    BY DEF Answering
  <2>2. /\ asked[m] \in Routes /\ WalkOf[asked[m]] = Walked(asked[m])
        /\ asked[i] \in Routes /\ WalkOf[asked[i]] = Walked(asked[i])
    BY <2>1, AskedWalks
  <2>3. out[m] = OnItsOwn(asked[m]) /\ out[i] = OnItsOwn(asked[i])
    BY <2>1 DEF Answering, Own
  <2>4. OnItsOwn(asked[m]) = OnItsOwn(asked[i])
    BY <2>2, SplitAnswers
  <2> QED BY <2>3, <2>4
<1>2. ExactSpec => [](Figuring /\ Walks)
  BY InitFiguring, NextFiguring, ExactInvariant, PTL DEF ExactSpec
<1> QED BY <1>1, <1>2, ExactInvariant, PTL

=============================================================================
