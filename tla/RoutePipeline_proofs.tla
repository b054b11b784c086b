------------------------ MODULE RoutePipeline_proofs -------------------------
(***************************************************************************)
(* The pipeline and what it hands to the chain: the ranking and its passes *)
(* (RoutePipeline), and below them a solved flow made into legs (Realize). *)
(*                                                                         *)
(* The passes that follow the ranking write weights, answers and routes in *)
(* place.  That none of them leaves the published figure describing other  *)
(* weights rests on what every candidate still in the running keeps: its   *)
(* own answer, for the weights it carries, on a route its pools would take *)
(* (Kept).  That a plain route never beats the answer rests on the ranking *)
(* putting the best of them in front (RanksFloor).                         *)
(*                                                                         *)
(* That realization comes to a route rests on Kirchhoff's law and on there *)
(* being no cycle left: what is live lies on paths from the source to the  *)
(* destination (FlowIsRoute), so nodes can be taken in order (FlowInv).    *)
(* That its legs move everything on rests on what the nodes emitted so far *)
(* leave for those to come (EmitInv), a node's legs at a time (Block).     *)
(***************************************************************************)
EXTENDS RoutePipeline, Realize, TLAPS, FiniteSetTheorems, FunctionTheorems, WellFoundedInduction,
        NaturalsInduction

LEMMA ConstantsTyped ==
    /\ LEG_GAS \in Nat /\ TIE_PARTS \in Nat \ {0} /\ MARGIN \in Nat /\ SCOUT_CANDIDATES \in Nat
    /\ MAX_SLOTS \in Nat /\ MaxLegs \in Nat
    /\ MaxOut \in Nat /\ Outs \subseteq 0..MaxOut
    /\ Base \in Names /\ Refit \in Names /\ IsFiniteSet(Names) /\ None \notin Names
    /\ \A s \in Shapes : s \in [Names -> ShapeType]
    /\ \A s \in Shapes, c \in Plain : ~s[c].splits
  BY PipelineAssumption DEF PipelineAssumption, Names

\* The nearest double keeps the order, and is its own.
LEMMA FloatRounds ==
    /\ Float[0] = 0
    /\ \A v \in 0..MaxOut : Float[v] \in 0..MaxOut /\ Float[Float[v]] = Float[v]
    /\ \A v, w \in 0..MaxOut : v <= w => Float[v] <= Float[w]
  BY PipelineAssumption DEF PipelineAssumption

\* What the ranking is computed from.
RankType ==
    /\ shape \in [Names -> ShapeType]
    /\ risky \in BOOLEAN

LEMMA ShapeTyped ==
    ASSUME RankType, NEW c \in Names
    PROVE  /\ shape[c].legs \in Nat \ {0} /\ shape[c].slots \in Nat /\ shape[c].width \in Nat
           /\ shape[c].conflict \in BOOLEAN
  BY DEF RankType, ShapeType

LEMMA ScoreTyped ==
    ASSUME RankType, NEW c \in Names, NEW v \in 0..MaxOut
    PROVE  /\ Net(c, v) \in Int /\ Net(c, v) <= MaxOut
           /\ Score(c, v) \in Int /\ Score(c, v) <= MaxOut
  <1>1. shape[c].risk \in Nat /\ shape[c].cost \in [0..MaxOut -> Nat]
    BY DEF RankType, ShapeType
  <1>2. Float[v] \in 0..MaxOut /\ MaxOut \in Nat
    BY FloatRounds, ConstantsTyped
  <1>3. shape[c].cost[Float[v]] \in Nat
    BY <1>1, <1>2
  <1>4. Net(c, v) = Float[v] - shape[c].cost[Float[v]]
    BY DEF Net
  <1> DEFINE penalty == IF risky THEN shape[c].risk ELSE 0
  <1>5. penalty \in Nat
    BY <1>1
  <1>6. Score(c, v) = Net(c, v) - penalty
    BY DEF Score
  <1>7. Net(c, v) \in Int /\ Net(c, v) <= MaxOut
    BY <1>2, <1>3, <1>4
  <1> HIDE DEF penalty
  <1> QED
    BY <1>2, <1>5, <1>6, <1>7

\* More value never nets less.
LEMMA NetGrows ==
    ASSUME shape \in Shapes, NEW c \in Names, NEW v \in 0..MaxOut, NEW w \in 0..MaxOut, v <= w
    PROVE  Net(c, v) <= Net(c, w)
  <1>1. Float[v] \in 0..MaxOut /\ Float[w] \in 0..MaxOut /\ Float[v] <= Float[w]
    BY FloatRounds
  <1>2. \A x, y \in 0..MaxOut : x <= y => x - shape[c].cost[x] <= y - shape[c].cost[y]
    BY PipelineAssumption DEF PipelineAssumption
  <1> QED
    BY <1>1, <1>2 DEF Net

\* There is room for ties, whatever the best score is.
LEMMA ToleranceTyped ==
    ASSUME NEW best \in Int
    PROVE  Tolerance(best) \in Nat
  <1> DEFINE p == best \div TIE_PARTS
             q == (-best) \div TIE_PARTS
  <1>1. LEG_GAS \in Nat /\ p \in Int /\ q \in Int
    BY ConstantsTyped
  <1>2. Tolerance(best) = Max({LEG_GAS, p, q})
    BY DEF Tolerance
  <1> HIDE DEF p, q
  <1>3. \E x \in {LEG_GAS, p, q} : \A y \in {LEG_GAS, p, q} : x >= y
    <2>1. CASE LEG_GAS >= p /\ LEG_GAS >= q
      BY <1>1, <2>1
    <2>2. CASE p >= LEG_GAS /\ p >= q
      BY <1>1, <2>2
    <2>3. CASE q >= LEG_GAS /\ q >= p
      BY <1>1, <2>3
    <2> QED
      BY <1>1, <2>1, <2>2, <2>3
  <1>4. Max({LEG_GAS, p, q}) \in {LEG_GAS, p, q}
        /\ \A y \in {LEG_GAS, p, q} : Max({LEG_GAS, p, q}) >= y
    BY <1>3 DEF Max
  <1>5. Max({LEG_GAS, p, q}) \in Int /\ Max({LEG_GAS, p, q}) >= LEG_GAS
    BY <1>1, <1>4
  <1> QED
    BY <1>1, <1>2, <1>5

\* Of what quoted there is a best: amounts are bounded.
LEMMA BestDirect ==
    ASSUME RankType, NEW D \in SUBSET Names, D # {},
           NEW value \in [Names -> 0..MaxOut]
    PROVE  \E d \in D : \A e \in D : Score(e, value[e]) <= Score(d, value[d])
  <1> DEFINE gap(d) == MaxOut - Score(d, value[d])
             gaps == {gap(d) : d \in D}
  <1>1. \A d \in D : gap(d) \in Nat /\ Score(d, value[d]) \in Int
    <2>1. ASSUME NEW d \in D
          PROVE  gap(d) \in Nat /\ Score(d, value[d]) \in Int
      <3>1. value[d] \in 0..MaxOut
        OBVIOUS
      <3> QED
        BY <3>1, ScoreTyped, ConstantsTyped
    <2> QED
      BY <2>1
  <1>2. gaps \subseteq Nat /\ gaps # {}
    BY <1>1
  <1> HIDE DEF gaps
  <1>3. PICK x \in gaps : \A y \in gaps : ~(<<y, x>> \in OpToRel(<, Nat))
    BY <1>2, WFMin, NatLessThanWellFounded
  <1>4. \A y \in gaps : ~(y < x)
    BY <1>2, <1>3 DEF OpToRel
  <1>5. PICK d \in D : x = gap(d)
    BY DEF gaps
  <1>6. \A e \in D : ~(gap(e) < gap(d))
    BY <1>4, <1>5 DEF gaps
  <1>7. \A e \in D : Score(e, value[e]) <= Score(d, value[d])
    BY <1>1, <1>6, ConstantsTyped
  <1> QED
    BY <1>7

\* However the sort falls, the first in rank is one that quoted, and no plain
\* route scores above it; where the sort is overruled, it is the best of those.
LEMMA RanksFloor ==
    ASSUME RankType, NEW st, Usable(st) # {},
           NEW value \in [Names -> 0..MaxOut], NEW ranks \in Ranks(st, value)
    PROVE  /\ ranks \in [Names -> Nat]
           /\ Best(st, ranks) \in Usable(st)
           /\ \A d \in Usable(st) \cap Plain :
                 Score(d, value[d]) <= Score(Best(st, ranks), value[Best(st, ranks)])
           /\ \A c \in Usable(st) : ranks[c] \in 1..Cardinality(Usable(st))
           /\ \E o \in Orders(Usable(st), value), f \in Usable(st) :
                 /\ o \in [Usable(st) -> Nat \ {0}] /\ o[f] = 1
                 /\ \/ Best(st, ranks) = f
                    \/ /\ Best(st, ranks) \in Plain
                       /\ Score(f, value[f]) < Score(Best(st, ranks), value[Best(st, ranks)])
  <1> DEFINE U == Usable(st)
             n == Cardinality(U)
  <1>1. U \subseteq Names /\ IsFiniteSet(U) /\ n \in Nat \ {0}
    BY ConstantsTyped, FS_Subset, FS_CardinalityType, FS_EmptySet DEF Usable
  <1>2. PICK o \in Orders(U, value) :
           ranks = [c \in Names |-> IF c \in U THEN Floored(o, U, value)[c] ELSE 0]
    BY DEF Ranks
  <1>3. o \in [U -> 1..n] /\ (\A a, b \in U : o[a] = o[b] => a = b)
        /\ \A t \in 1..n : \E s \in U : o[s] = t
    BY <1>2 DEF Orders, Bijection, Injection, Surjection, IsInjective
  <1> HIDE DEF U, n
  <1> DEFINE directs == U \cap Plain
             first == CHOOSE c \in U : o[c] = 1
             tops == {d \in directs : \A e \in directs :
                         Score(e, value[e]) <= Score(d, value[d])}
             floor == CHOOSE d \in tops : TRUE
  <1>4. first \in U /\ o[first] = 1
    <2>1. \E c \in U : o[c] = 1
      BY <1>1, <1>3
    <2> QED
      BY <2>1
  <1>5. directs # {} => floor \in directs /\ \A e \in directs :
           Score(e, value[e]) <= Score(floor, value[floor])
    <2>1. ASSUME directs # {} PROVE tops # {}
      BY <2>1, <1>1, BestDirect
    <2> QED
      BY <2>1
  <1>6. \A c \in U : Score(c, value[c]) \in Int
    BY <1>1, ScoreTyped
  <1> DEFINE g == Floored(o, U, value)
  <1>7. Floored(o, U, value) =
            IF directs # {} /\ Score(first, value[first]) < Score(floor, value[floor])
            THEN [c \in U |-> IF c = floor THEN 1
                              ELSE IF o[c] < o[floor] THEN o[c] + 1 ELSE o[c]]
            ELSE o
    BY DEF Floored
  <1>8. directs \subseteq U /\ U \cap Plain = directs
    OBVIOUS
  <1>9. o \in Orders(U, value) /\ o \in [U -> Nat \ {0}]
    BY <1>1, <1>2, <1>3
  <1> HIDE DEF directs, first, tops, floor, g
  <1>10. CASE directs # {} /\ Score(first, value[first]) < Score(floor, value[floor])
    <2>1. g = [c \in U |-> IF c = floor THEN 1
                           ELSE IF o[c] < o[floor] THEN o[c] + 1 ELSE o[c]]
      BY <1>10, <1>7 DEF g
    <2>2. floor \in U
      BY <1>5, <1>10, <1>8
    <2>3. g[floor] = 1 /\ \A c \in U : g[c] \in Nat /\ g[c] \in 1..n
      BY <2>1, <2>2, <1>1, <1>3
    <2>4. ASSUME NEW c \in U, g[c] = 1 PROVE c = floor
      <3>1. SUFFICES ASSUME c # floor PROVE FALSE
        OBVIOUS
      <3>2. o[c] \in Nat /\ o[floor] \in Nat /\ o[c] >= 1 /\ o[floor] >= 1 /\ o[c] # o[floor]
        BY <1>3, <1>1, <2>2, <3>1
      <3> QED
        BY <2>1, <2>4, <3>1, <3>2
    <2>5. ranks \in [Names -> Nat] /\ \A c \in U : ranks[c] = g[c]
      BY <1>2, <2>3, <1>1 DEF g
    <2>6. Best(st, ranks) = floor
      BY <2>2, <2>3, <2>4, <2>5 DEF Best, U
    <2>7. floor \in Plain /\ floor \in directs
      BY <1>5, <1>10 DEF directs
    <2>8. /\ \A d \in U \cap Plain : Score(d, value[d]) <= Score(floor, value[floor])
          /\ \A c \in U : ranks[c] \in 1..n
      BY <2>3, <2>5, <1>5, <1>8, <1>10
    <2> QED
      BY <2>2, <2>5, <2>6, <2>7, <2>8, <1>2, <1>3, <1>4, <1>10, <1>9 DEF U, n
  <1>11. CASE ~(directs # {} /\ Score(first, value[first]) < Score(floor, value[floor]))
    <2>1. g = o
      BY <1>11, <1>7 DEF g
    <2>2. ranks \in [Names -> Nat] /\ \A c \in U : ranks[c] = o[c]
      BY <1>2, <1>3, <2>1, <1>1 DEF g
    <2>3. Best(st, ranks) = first
      BY <2>2, <1>3, <1>4 DEF Best, U, first
    <2>4. \A d \in directs : Score(d, value[d]) <= Score(first, value[first])
      BY <1>4, <1>5, <1>6, <1>11, <1>8
    <2>5. \A c \in U : ranks[c] \in 1..n
      BY <2>2, <1>3
    <2> QED
      BY <2>2, <2>3, <2>4, <2>5, <1>2, <1>4, <1>8, <1>9 DEF U, n
  <1> QED
    BY <1>10, <1>11

\* The first in rank is the sort's first, or the best of the plain routes when that
\* scores above it.
LEMMA RanksRule ==
    ASSUME RankType, NEW st, Usable(st) # {},
           NEW value \in [Names -> 0..MaxOut], NEW ranks \in Ranks(st, value)
    PROVE  Best(st, ranks) \in FirstOf(Usable(st), value)
  <1> DEFINE U == Usable(st)
             score(c) == Score(c, value[c])
             scores == {score(c) : c \in U}
             best == Max(scores)
             near == {c \in U : best - score(c) <= Tolerance(best)}
             shortest == {c \in near : \A d \in near : shape[c].legs <= shape[d].legs}
             topOf(S) == {c \in S : \A d \in S : score(d) <= score(c)}
             b == Best(st, ranks)
  <1>1. U \subseteq Names /\ U # {}
    BY DEF Usable
  <1>2. \A c \in U : score(c) \in Int /\ shape[c].legs \in Nat \ {0}
    BY <1>1, ScoreTyped DEF RankType, ShapeType
  <1>3. PICK top \in U : best = score(top) /\ \A e \in U : score(e) <= best
    <2>1. PICK t \in U : \A e \in U : score(e) <= score(t)
      BY <1>1, BestDirect
    <2>2. score(t) \in scores /\ \A x \in scores : x <= score(t)
      BY <2>1
    <2>3. scores \subseteq Int
      BY <1>2
    <2> DEFINE m == score(t)
    <2> HIDE DEF scores, m
    <2>4. m \in scores /\ \A x \in scores : x <= m
      BY <2>2 DEF m
    <2>5. Max(scores) = m
      <3>1. m \in Int /\ \A x \in scores : m >= x /\ x \in Int
        BY <2>3, <2>4
      <3>2. Max(scores) \in scores /\ \A x \in scores : Max(scores) >= x
        <4>1. \E x \in scores : \A y \in scores : x >= y
          BY <2>4, <3>1
        <4> QED
          BY <4>1, Zenon DEF Max
      <3>3. Max(scores) \in Int /\ m >= Max(scores) /\ Max(scores) >= m
        BY <2>4, <3>1, <3>2, Zenon
      <3> QED
        BY <3>1, <3>3
    <2>6. best = score(t)
      BY <2>5 DEF m
    <2>7. \A e \in U : score(e) <= best
      BY <2>1, <2>6
    <2> HIDE DEF best
    <2> QED
      BY <2>6, <2>7
  <1> DEFINE tol == Tolerance(best)
  <1>4. best \in Int /\ tol \in Nat
    BY <1>2, <1>3, ToleranceTyped
  <1>5. PICK o \in Orders(U, value), f \in U :
           /\ o \in [U -> Nat \ {0}] /\ o[f] = 1
           /\ b = f \/ (b \in Plain /\ score(f) < score(b))
    BY RanksFloor
  <1>6. b \in U /\ \A d \in U \cap Plain : score(d) <= score(b)
    BY RanksFloor
  <1>7. \A a \in U : ~Before(a, f, best, value)
    <2>1. \A a, c \in U : Before(a, c, best, value) => o[a] < o[c]
      BY <1>5 DEF Orders
    <2> QED
      BY <1>5, <2>1
  <1>8. FirstOf(U, value) =
           topOf(shortest) \cup
           {c \in near \cap topOf(U \cap Plain) : \A d \in shortest : score(d) < score(c)}
    BY DEF FirstOf
  <1> HIDE DEF U, best, scores, b
  <1>9. f \in near
    <2>1. best - score(top) <= tol
      BY <1>3, <1>4
    <2>2. ~Before(top, f, best, value)
      BY <1>7
    <2> QED
      BY <2>1, <2>2 DEF Before
  <1>10. ASSUME NEW d \in near
         PROVE  shape[f].legs <= shape[d].legs
                /\ (shape[d].legs = shape[f].legs => score(d) <= score(f))
    <2>1. ~Before(d, f, best, value) /\ d \in U
      BY <1>7
    <2>2. ~(shape[d].legs < shape[f].legs)
          /\ ~(shape[d].legs = shape[f].legs /\ score(d) > score(f))
      BY <1>9, <2>1 DEF Before
    <2> QED
      BY <1>2, <2>1, <2>2
  <1>11. near \subseteq U /\ shortest \subseteq near
    OBVIOUS
  <1>12. f \in shortest /\ \A d \in shortest : score(d) <= score(f)
    <2>1. f \in shortest
      BY <1>9, <1>10
    <2>2. ASSUME NEW d \in shortest PROVE score(d) <= score(f)
      <3>1. d \in near /\ shape[d].legs <= shape[f].legs /\ shape[f].legs <= shape[d].legs
        BY <1>9, <1>10, <2>2
      <3>2. shape[d].legs = shape[f].legs
        BY <1>2, <1>11, <3>1
      <3> QED
        BY <1>10, <3>1, <3>2
    <2> QED
      BY <2>1, <2>2
  <1>13. CASE b = f
    BY <1>8, <1>12, <1>13 DEF U, b
  <1>14. CASE b \in Plain /\ score(f) < score(b)
    <2>1. b \in near
      BY <1>2, <1>4, <1>6, <1>9, <1>14
    <2>2. b \in topOf(U \cap Plain)
      BY <1>6, <1>14
    <2>3. \A d \in shortest : score(d) < score(b)
      BY <1>2, <1>6, <1>11, <1>12, <1>14
    <2> QED
      BY <1>8, <2>1, <2>2, <2>3 DEF U, b
  <1> QED
    BY <1>5, <1>13, <1>14

----------------------------------------------------------------------------
(* The invariant.                                                          *)

Stages == {"solve", "candidates", "direct", "choose", "refit", "scout", "split", "price",
           "done", "failed"}
Statuses == {"new", "conflict", "too_wide", "too_long", "ready", "reverted", "ok"}
AnswerType == [out : 0..MaxOut, over : BOOLEAN]

Typed ==
    /\ RankType /\ shape \in Shapes
    /\ stage \in Stages
    /\ status \in [Names -> Statuses] /\ Ready(status) = {}
    /\ out \in [Names -> 0..MaxOut] /\ rank \in [Names -> Nat]
    /\ split \in [Names -> Splits]
    /\ chain \in [Names \X Splits -> AnswerType]
    /\ verified_out \in 0..MaxOut /\ adopted \in BOOLEAN

Fits(c) == ~shape[c].conflict /\ shape[c].slots <= MAX_SLOTS /\ shape[c].legs <= MaxLegs

\* What is in the running carries its own answer, for the weights it has, as the pass
\* that set them read it.
Kept ==
    \A c \in Usable(status) :
        /\ out[c] \in Carried(split[c], chain[<<c, split[c]>>].out)
        /\ chain[<<c, split[c]>>].out > 0 /\ ~chain[<<c, split[c]>>].over
        /\ out[c] > 0 /\ Fits(c)

\* Nobody has the weights a pass is about to quote.
Weights ==
    /\ stage \in {"solve", "candidates", "direct", "choose", "refit", "scout"} =>
          ~adopted /\ \A c \in Names : split[c] = Solved
    /\ stage = "split" => \A c \in Names : split[c] # Searched

\* The answer is the winner's, and without a winner the modelled route's.
Ruled ==
    /\ winner # None => winner = route /\ winner \in Usable(status) /\ verified_out = out[winner]
    /\ stage \in {"refit", "scout", "split"} => winner # None
    /\ stage \in {"candidates", "direct", "choose"} => winner = None /\ route = Base
    /\ stage = "solve" => winner = None
    /\ stage \in {"price", "done"} /\ winner = None => route = Base /\ shape[Base].legs <= MaxLegs
    /\ stage = "done" => priced = <<route, split[route]>>

\* The one to be chosen is not below a plain route, nor is the one chosen.
FloorFirst ==
    /\ stage = "choose" /\ Usable(status) # {} =>
          /\ Best(status, rank) \in Usable(status)
          /\ \A d \in Usable(status) \cap Plain :
                Score(d, out[d]) <= Score(Best(status, rank), out[Best(status, rank)])
    /\ NeverBelowDirect

IInv == Typed /\ Kept /\ Weights /\ Ruled /\ FloorFirst

LEMMA AnswersTyped == Answers \subseteq AnswerType /\ NotAsked \in AnswerType
  <1>1. 0 \in 0..MaxOut
    BY ConstantsTyped
  <1>2. ASSUME NEW a \in Answers PROVE a \in AnswerType
    <2>1. CASE a = [out |-> 0, over |-> FALSE]
      BY <1>1, <2>1 DEF AnswerType
    <2>2. CASE a \in [out : Outs \ {0}, over : BOOLEAN]
      BY <2>2, ConstantsTyped DEF AnswerType
    <2> QED
      BY <2>1, <2>2 DEF Answers
  <1> QED
    BY <1>1, <1>2 DEF AnswerType, NotAsked

LEMMA InitInv == Init => IInv
  <1> SUFFICES ASSUME Init PROVE IInv
    OBVIOUS
  <1>1. Typed
    <2>1. RankType /\ shape \in Shapes /\ stage \in Stages /\ adopted \in BOOLEAN
      BY ConstantsTyped DEF Init, RankType, Stages
    <2>2. status \in [Names -> Statuses] /\ Ready(status) = {}
      BY DEF Init, Statuses, Ready
    <2>3. out \in [Names -> 0..MaxOut] /\ rank \in [Names -> Nat] /\ verified_out \in 0..MaxOut
      BY ConstantsTyped DEF Init
    <2>4. split \in [Names -> Splits]
      BY DEF Init, Splits
    <2>5. chain \in [Names \X Splits -> AnswerType]
      BY AnswersTyped DEF Init
    <2> QED
      BY <2>1, <2>2, <2>3, <2>4, <2>5 DEF Typed
  <1>2. Usable(status) = {}
    BY DEF Init, Usable
  <1> QED
    BY <1>1, <1>2 DEF Init, IInv, Kept, Weights, Ruled, FloorFirst, NeverBelowDirect

\* What is realised fits, and only that is quoted.
LEMMA RealizedFits ==
    ASSUME NEW c \in Names, Realized(c) = "ready", RankType
    PROVE  Fits(c)
  BY ConstantsTyped, ShapeTyped DEF Realized, Fits

\* verify leaves every candidate it passes with its own answer and a ranking with
\* the floor in front.
LEMMA VerifyKeeps ==
    ASSUME Typed, Kept, UNCHANGED <<shape, risky>>,
           NEW st \in [Names -> Statuses],
           \A c \in Names : split[c] = Solved,
           \A c \in Ready(st) : Fits(c),
           \A c \in Usable(st) : c \in Usable(status),
           Verify(st)
    PROVE  /\ status' \in [Names -> Statuses] /\ Ready(status)' = {}
           /\ out' \in [Names -> 0..MaxOut] /\ rank' \in [Names -> Nat]
           /\ chain' \in [Names \X Splits -> AnswerType]
           /\ Kept'
           /\ Usable(status)' # {} =>
                 /\ Best(status, rank)' \in Usable(status)'
                 /\ (\A d \in Usable(status) \cap Plain :
                        Score(d, out[d]) <= Score(Best(status, rank), out[Best(status, rank)]))'
  <1> DEFINE R == Ready(st)
  <1> DEFINE St2(a) == [c \in Names |-> IF c \in R THEN Quoted(a[c]) ELSE st[c]]
             Value(a) == [c \in Names |-> IF c \in R /\ St2(a)[c] = "ok"
                                         THEN a[c].out ELSE out[c]]
  <1>0. PICK answer \in [R -> Answers] :
           /\ status' = St2(answer) /\ out' = Value(answer)
           /\ rank' \in Ranks(St2(answer), Value(answer))
           /\ chain' = [k \in Names \X Splits |->
                           IF k[1] \in R /\ k[2] = Solved THEN answer[k[1]] ELSE chain[k]]
           /\ split' = split
    BY Zenon DEF Verify
  <1>1. /\ status' = [c \in Names |-> IF c \in R THEN Quoted(answer[c]) ELSE st[c]]
        /\ out' = [c \in Names |-> IF c \in R /\ status'[c] = "ok"
                                   THEN answer[c].out ELSE out[c]]
        /\ rank' \in Ranks(status', out')
        /\ chain' = [k \in Names \X Splits |->
                        IF k[1] \in R /\ k[2] = Solved THEN answer[k[1]] ELSE chain[k]]
        /\ split' = split
    BY <1>0
  <1> HIDE DEF St2, Value
  <1>2. R \subseteq Names /\ \A c \in R : answer[c] \in AnswerType /\ answer[c].out \in 0..MaxOut
    BY AnswersTyped DEF Ready, AnswerType
  <1>3. \A c \in R : Quoted(answer[c]) \in {"reverted", "ok"}
    BY DEF Quoted
  <1>4. status' \in [Names -> Statuses] /\ Ready(status)' = {}
    BY <1>1, <1>3 DEF Ready, Statuses
  <1>5. out' \in [Names -> 0..MaxOut]
    BY <1>1, <1>2 DEF Typed
  <1>6. chain' \in [Names \X Splits -> AnswerType]
    BY <1>1, <1>2 DEF Typed
  <1>7. Kept'
    <2> SUFFICES ASSUME NEW c \in Usable(status')
                 PROVE  /\ out'[c] \in Carried(split'[c], chain'[<<c, split'[c]>>].out)
                        /\ chain'[<<c, split'[c]>>].out > 0 /\ ~chain'[<<c, split'[c]>>].over
                        /\ out'[c] > 0 /\ Fits(c)'
      BY DEF Kept, Usable
    <2>1. c \in Names /\ status'[c] = "ok" /\ split'[c] = Solved
      BY <1>1 DEF Usable
    <2>2. Fits(c)' = Fits(c)
      BY DEF Fits
    <2>3. <<c, Solved>> \in Names \X Splits
      BY <2>1 DEF Splits
    <2>4. CASE c \in R
      <3>1. answer[c].out # 0 /\ ~answer[c].over
        BY <1>1, <2>1, <2>4 DEF Quoted
      <3>2. out'[c] = answer[c].out /\ chain'[<<c, Solved>>] = answer[c]
        BY <1>1, <2>1, <2>3, <2>4
      <3> QED
        BY <1>2, <2>1, <2>2, <2>4, <3>1, <3>2, ConstantsTyped
        DEF Carried, Solved, Scouted, Searched
    <2>5. CASE c \notin R
      <3>1. c \in Usable(st)
        BY <1>1, <2>1, <2>5 DEF Usable
      <3>2. out'[c] = out[c] /\ chain'[<<c, Solved>>] = chain[<<c, Solved>>]
        BY <1>1, <2>1, <2>3, <2>5
      <3>3. split[c] = Solved
        BY <2>1
      <3> QED
        BY <2>1, <2>2, <3>1, <3>2, <3>3 DEF Kept
    <2> QED
      BY <2>4, <2>5
  <1>8. RankType'
    BY DEF Typed, RankType
  <1>9. Usable(status)' = Usable(status') /\ Best(status, rank)' = Best(status', rank')
    BY DEF Usable, Best
  <1>10. rank' \in [Names -> Nat]
    <2>1. CASE Usable(status') = {}
      BY <1>1, <2>1 DEF Ranks
    <2>2. CASE Usable(status') # {}
      BY <1>1, <1>5, <2>2, RanksFloor DEF Typed
    <2> QED
      BY <2>1, <2>2
  <1>11. ASSUME Usable(status') # {}
         PROVE  /\ Best(status', rank') \in Usable(status')
                /\ \A d \in Usable(status') \cap Plain :
                     Score(d, out'[d]) <= Score(Best(status', rank'), out'[Best(status', rank')])
    BY <1>1, <1>5, <1>11, RanksFloor DEF Typed
  <1>12. \A c, v : Score(c, v)' = Score(c, v)
    BY DEF Score, Net
  <1> QED
    BY <1>4, <1>5, <1>6, <1>7, <1>9, <1>10, <1>11, <1>12

----------------------------------------------------------------------------
(* The actions.                                                            *)

LEMMA SameScores ==
    ASSUME UNCHANGED <<shape, risky>>
    PROVE  \A c, v : Score(c, v)' = Score(c, v)
  BY DEF Score, Net

\* A step that leaves the ballot alone leaves what is said of it alone.
LEMMA SameBallot ==
    ASSUME Typed, Kept, UNCHANGED <<shape, risky, status, out, rank, split, chain, verified_out>>,
           stage' \in Stages, adopted' = adopted
    PROVE  /\ Typed' /\ Kept'
           /\ Usable(status)' = Usable(status) /\ Best(status, rank)' = Best(status, rank)
  <1>1. Usable(status)' = Usable(status) /\ Best(status, rank)' = Best(status, rank)
        /\ Ready(status)' = Ready(status)
    BY DEF Usable, Best, Ready
  <1>2. RankType' /\ \A c \in Names : Fits(c)' = Fits(c)
    BY DEF Typed, RankType, Fits
  <1>3. Typed'
    BY <1>1, <1>2 DEF Typed
  <1>4. Kept'
    BY <1>1, <1>2 DEF Kept, Usable
  <1> QED
    BY <1>1, <1>3, <1>4

\* New weights in place: the candidate has the answer to them, or all is as it was.
LEMMA ReweighKeeps ==
    ASSUME Typed, Kept, UNCHANGED <<shape, risky, status, rank>>,
           stage' \in Stages, adopted' \in BOOLEAN,
           chain' \in [Names \X Splits -> AnswerType],
           winner \in Usable(status), winner = route, verified_out = out[winner],
           NEW c \in Usable(status), NEW to \in Splits, NEW a \in AnswerType, a.out > 0,
           NEW figure \in 0..MaxOut, figure > 0, figure \in Carried(to, a.out),
           chain'[<<c, to>>] = a,
           \A d \in Usable(status) : chain'[<<d, split[d]>>] = chain[<<d, split[d]>>],
           Reweigh(c, to, figure, a.over)
    PROVE  /\ Typed' /\ Kept'
           /\ winner' = route' /\ winner' \in Usable(status)' /\ verified_out' = out'[winner']
           /\ \A d \in Names \ {c} : out'[d] = out[d]
           /\ IF a.over THEN UNCHANGED <<split, out, result>>
              ELSE winner' = c /\ verified_out' = figure /\ out'[c] = figure
  <1>1. Usable(status)' = Usable(status) /\ Ready(status)' = Ready(status)
        /\ Usable(status) \subseteq Names
    BY DEF Usable, Ready
  <1>2. RankType' /\ \A d \in Names : Fits(d)' = Fits(d)
    BY DEF Typed, RankType, Fits
  <1>3. CASE a.over
    <2>1. UNCHANGED <<split, out, result>>
      BY <1>3 DEF Reweigh
    <2>2. Typed'
      BY <1>1, <1>2, <2>1 DEF Typed, result
    <2>3. Kept'
      BY <1>1, <1>2, <2>1 DEF Kept, Usable
    <2> QED
      BY <1>1, <1>3, <2>1, <2>2, <2>3 DEF result
  <1>4. CASE ~a.over
    <2>1. /\ split' = [split EXCEPT ![c] = to] /\ out' = [out EXCEPT ![c] = figure]
          /\ route' = c /\ winner' = c /\ verified_out' = figure
      BY <1>4 DEF Reweigh
    <2>3. Typed'
      BY <1>1, <1>2, <2>1 DEF Typed
    <2>4. ASSUME NEW d \in Usable(status)
          PROVE  /\ out'[d] \in Carried(split'[d], chain'[<<d, split'[d]>>].out)
                 /\ chain'[<<d, split'[d]>>].out > 0 /\ ~chain'[<<d, split'[d]>>].over
                 /\ out'[d] > 0 /\ Fits(d)'
      <3>1. d \in Names /\ Fits(d)'
        BY <1>1, <1>2 DEF Kept
      <3>2. CASE d = c
        BY <1>4, <2>1, <3>1, <3>2 DEF Typed
      <3>3. CASE d # c
        BY <2>1, <3>1, <3>3 DEF Typed, Kept
      <3> QED
        BY <3>2, <3>3
    <2>5. Kept'
      BY <1>1, <2>4 DEF Kept, Usable
    <2>6. out'[c] = figure
      BY <1>1, <2>1 DEF Typed
    <2> QED
      BY <1>1, <1>4, <2>1, <2>3, <2>5, <2>6 DEF Typed
  <1> QED
    BY <1>3, <1>4

LEMMA UnsoundInv == ASSUME IInv, Unsound PROVE IInv'
  <1>1. Typed' /\ Kept' /\ Usable(status)' = Usable(status)
    BY SameBallot DEF IInv, Unsound, given, ballot, result, Stages
  <1> QED
    BY <1>1, SameScores DEF IInv, Unsound, given, ballot, result, Weights, Ruled, FloorFirst,
       NeverBelowDirect

LEMMA RealizeBaseInv == ASSUME IInv, RealizeBase PROVE IInv'
  <1>1. Typed' /\ Kept' /\ Usable(status)' = Usable(status)
    BY SameBallot DEF IInv, RealizeBase, given, ballot, Stages
  <1> QED
    BY <1>1 DEF IInv, RealizeBase, given, ballot, Weights, Ruled, FloorFirst, NeverBelowDirect

\* Both rankings before the choice.
LEMMA VerifyInv ==
    ASSUME IInv, UNCHANGED <<given, result, certificate, priced, adopted>>,
           NEW here, NEW there, here \in {"candidates", "direct"}, there \in {"direct", "choose"},
           stage = here, stage' = there,
           NEW C \in SUBSET Names,
           Verify([c \in Names |-> IF c \in C THEN Realized(c) ELSE status[c]])
    PROVE  IInv'
  <1> DEFINE st == [c \in Names |-> IF c \in C THEN Realized(c) ELSE status[c]]
  <1>1. st \in [Names -> Statuses]
    BY DEF IInv, Typed, Realized, Statuses
  <1>2. \A c \in Ready(st) : Fits(c)
    <2>1. ASSUME NEW c \in Ready(st) PROVE Realized(c) = "ready" /\ c \in Names
      BY DEF Ready, IInv, Typed
    <2> QED
      BY <2>1, RealizedFits DEF IInv, Typed
  <1>3. \A c \in Usable(st) : c \in Usable(status)
    BY DEF Usable, Realized
  <1>4. \A c \in Names : split[c] = Solved
    BY DEF IInv, Weights
  <1>5. UNCHANGED <<shape, risky, split, winner, route, verified_out, adopted>>
    BY DEF given, result, Verify
  <1> HIDE DEF st
  <1>6. /\ status' \in [Names -> Statuses] /\ Ready(status)' = {}
        /\ out' \in [Names -> 0..MaxOut] /\ rank' \in [Names -> Nat]
        /\ chain' \in [Names \X Splits -> AnswerType]
        /\ Kept'
        /\ Usable(status)' # {} =>
              /\ Best(status, rank)' \in Usable(status)'
              /\ (\A d \in Usable(status) \cap Plain :
                     Score(d, out[d]) <= Score(Best(status, rank), out[Best(status, rank)]))'
    <2>1. Verify(st)
      BY DEF st
    <2> QED
      BY <1>1, <1>2, <1>3, <1>4, <1>5, <2>1, VerifyKeeps DEF IInv
  <1>7. RankType'
    BY <1>5 DEF IInv, Typed, RankType
  <1>8. Typed'
    BY <1>5, <1>6, <1>7 DEF IInv, Typed, Stages
  <1>9. Weights' /\ Ruled'
    BY <1>5 DEF IInv, Weights, Ruled
  <1>10. FloorFirst'
    BY <1>5, <1>6, <1>9 DEF IInv, Ruled, FloorFirst, NeverBelowDirect
  <1> QED
    BY <1>6, <1>8, <1>9, <1>10 DEF IInv

LEMMA VerifyBallotInv == ASSUME IInv, VerifyBallot PROVE IInv'
  <1>1. Ballot \in SUBSET Names
    BY DEF Names
  <1> QED
    BY <1>1, VerifyInv DEF VerifyBallot

LEMMA VerifyDirectInv == ASSUME IInv, VerifyDirect PROVE IInv'
  <1> DEFINE C == {c \in Plain : Realized(c) = "ready"}
  <1>1. C \in SUBSET Names
    BY DEF Names, Plain
  <1>2. [c \in Names |-> IF c \in Plain /\ Realized(c) = "ready"
                         THEN "ready" ELSE status[c]]
          = [c \in Names |-> IF c \in C THEN Realized(c) ELSE status[c]]
    OBVIOUS
  <1>3. Verify([c \in Names |-> IF c \in C THEN Realized(c) ELSE status[c]])
    BY <1>2, Zenon DEF VerifyDirect
  <1> HIDE DEF C
  <1> QED
    BY <1>1, <1>3, VerifyInv DEF VerifyDirect

LEMMA ChooseWinnerInv == ASSUME IInv, ChooseWinner PROVE IInv'
  <1> DEFINE best == Best(status, rank)
  <1>1. best \in Usable(status) /\ best \in Names /\ best # None
    BY ConstantsTyped DEF IInv, FloorFirst, ChooseWinner, Usable
  <1>2. route' = best /\ winner' = best /\ verified_out' = out[best] /\ stage' = "refit"
        /\ UNCHANGED <<shape, risky, status, out, rank, split, chain, adopted>>
    BY DEF ChooseWinner, given, ballot
  <1>3. \A d \in Usable(status) \cap Plain : Score(d, out[d]) <= Score(best, out[best])
    BY DEF IInv, FloorFirst, ChooseWinner
  <1> HIDE DEF best
  <1>4. Usable(status)' = Usable(status) /\ Ready(status)' = Ready(status)
    BY <1>2 DEF Usable, Ready
  <1>5. RankType' /\ \A c \in Names : Fits(c)' = Fits(c)
    BY <1>2 DEF IInv, Typed, RankType, Fits
  <1>6. Typed'
    BY <1>1, <1>2, <1>4, <1>5 DEF IInv, Typed, Stages
  <1>7. Kept'
    BY <1>2, <1>4, <1>5 DEF IInv, Kept, Usable
  <1>8. Weights' /\ Ruled'
    BY <1>1, <1>2, <1>4 DEF IInv, Weights, Ruled, ChooseWinner
  <1>9. FloorFirst'
    BY <1>2, <1>3, <1>4, SameScores DEF FloorFirst, NeverBelowDirect
  <1> QED
    BY <1>6, <1>7, <1>8, <1>9 DEF IInv

LEMMA NoWinnerInv == ASSUME IInv, NoWinner PROVE IInv'
  <1>1. UNCHANGED <<shape, risky, status, out, rank, split, chain, route, winner, verified_out,
                    priced, adopted>>
        /\ stage' \in {"failed", "price"} /\ (stage' = "price" => shape[Base].legs <= MaxLegs)
    <2>1. shape[Base].legs \in Nat /\ MaxLegs \in Nat
      BY ConstantsTyped DEF IInv, Typed, RankType, ShapeType
    <2> QED
      BY <2>1 DEF NoWinner, FallBack, given, ballot, result
  <1>2. Typed' /\ Kept' /\ Usable(status)' = Usable(status)
    BY <1>1, SameBallot DEF IInv, Stages
  <1> QED
    BY <1>1, <1>2, SameScores DEF IInv, NoWinner, Weights, Ruled, FloorFirst, NeverBelowDirect

\* The stages a route passes through untouched.
LEMMA PassInv ==
    ASSUME IInv, UNCHANGED <<given, ballot, chain, result, certificate, adopted>>,
           \/ stage = "refit" /\ stage' = "scout"
           \/ stage = "scout" /\ stage' = "split"
           \/ stage = "split" /\ stage' = "price"
           \/ stage = "price" /\ stage' = "done" /\ priced' = <<route, split[route]>>
    PROVE  IInv'
  <1>1. UNCHANGED <<shape, risky, status, out, rank, split, chain, route, winner, verified_out,
                    adopted>>
    BY DEF given, ballot, result
  <1>2. Typed' /\ Kept' /\ Usable(status)' = Usable(status)
    BY <1>1, SameBallot DEF IInv, Stages
  <1>3. Weights'
    BY <1>1 DEF IInv, Weights, Solved, Searched
  <1>4. Ruled'
    BY <1>1, <1>2 DEF IInv, Ruled
  <1>5. FloorFirst'
    BY <1>1, <1>2, SameScores DEF IInv, FloorFirst, NeverBelowDirect
  <1> QED
    BY <1>2, <1>3, <1>4, <1>5 DEF IInv

LEMMA RefitChangesInv == ASSUME IInv, RefitChanges PROVE IInv'
  <1>1. PICK answer \in Answers :
           /\ Quoted(answer) = "ok"
           /\ chain' = [chain EXCEPT ![<<Refit, Solved>>] = answer]
           /\ status' = [status EXCEPT ![Refit] = "ok"]
           /\ out' = [out EXCEPT ![Refit] = answer.out]
           /\ rank' \in Ranks(status', out')
    BY DEF RefitChanges
  <1>2. UNCHANGED <<shape, risky, split, adopted>> /\ stage = "refit" /\ stage' = "scout"
    BY DEF RefitChanges, given
  <1>3. answer \in AnswerType /\ answer.out \in 0..MaxOut /\ answer.out # 0 /\ ~answer.over
    BY <1>1, AnswersTyped DEF Quoted, AnswerType
  <1>4. Refit \in Names /\ <<Refit, Solved>> \in Names \X Splits /\ Fits(Refit)
        /\ Refit \in Usable(status')
    BY <1>1, ConstantsTyped, RealizedFits DEF RefitChanges, IInv, Typed, Splits, Usable
  <1>5. status' \in [Names -> Statuses] /\ Ready(status') = {}
    BY <1>1 DEF IInv, Typed, Statuses, Ready
  <1>6. out' \in [Names -> 0..MaxOut] /\ chain' \in [Names \X Splits -> AnswerType]
    BY <1>1, <1>3 DEF IInv, Typed
  <1> DEFINE best == Best(status', rank')
  <1>7. /\ rank' \in [Names -> Nat]
        /\ best \in Usable(status')
        /\ \A d \in Usable(status') \cap Plain : Score(d, out'[d]) <= Score(best, out'[best])
    BY <1>1, <1>4, <1>6, RanksFloor DEF IInv, Typed
  <1>8. route' = best /\ winner' = best /\ verified_out' = out'[best] /\ best \in Names
        /\ best # None
    BY <1>7, ConstantsTyped DEF RefitChanges, Usable
  <1> HIDE DEF best
  <1>9. RankType' /\ \A c \in Names : Fits(c)' = Fits(c)
    BY <1>2 DEF IInv, Typed, RankType, Fits
  <1>10. Usable(status)' = Usable(status') /\ Ready(status)' = Ready(status')
    BY DEF Usable, Ready
  <1>11. verified_out' \in 0..MaxOut
    BY <1>6, <1>8
  <1>12. Typed'
    BY <1>2, <1>5, <1>6, <1>7, <1>9, <1>10, <1>11 DEF IInv, Typed, Stages
  <1>13. Kept'
    <2> SUFFICES ASSUME NEW c \in Usable(status')
                 PROVE  /\ out'[c] \in Carried(split'[c], chain'[<<c, split'[c]>>].out)
                        /\ chain'[<<c, split'[c]>>].out > 0 /\ ~chain'[<<c, split'[c]>>].over
                        /\ out'[c] > 0 /\ Fits(c)'
      BY DEF Kept, Usable
    <2>1. c \in Names /\ split'[c] = Solved /\ split[c] = Solved
      BY <1>2 DEF Usable, IInv, Weights
    <2>2. CASE c = Refit
      <3>1. out'[Refit] = answer.out /\ chain'[<<Refit, Solved>>] = answer
        BY <1>1, <1>4 DEF IInv, Typed
      <3> QED
        BY <1>3, <1>4, <1>9, <2>1, <2>2, <3>1, ConstantsTyped
        DEF Carried, Solved, Scouted, Searched
    <2>3. CASE c # Refit
      <3>1. c \in Usable(status)
        BY <1>1, <2>1, <2>3 DEF Usable, IInv, Typed
      <3>2. out'[c] = out[c] /\ chain'[<<c, Solved>>] = chain[<<c, Solved>>]
        BY <1>1, <2>1, <2>3 DEF IInv, Typed, Splits
      <3> QED
        BY <1>9, <2>1, <3>1, <3>2 DEF IInv, Kept
    <2> QED
      BY <2>2, <2>3
  <1>14. Weights' /\ Ruled'
    BY <1>2, <1>7, <1>8, <1>10 DEF IInv, Weights, Ruled
  <1>15. FloorFirst'
    BY <1>2, <1>7, <1>8, <1>10, SameScores DEF FloorFirst, NeverBelowDirect
  <1> QED
    BY <1>12, <1>13, <1>14, <1>15 DEF IInv

\* Better weights for the winner, or for the route that takes its place, keep the
\* invariant and never pay less.
LEMMA TunedInv ==
    ASSUME IInv, UNCHANGED <<given, status, rank>>,
           \/ stage = "scout" /\ stage' = "split"
           \/ stage = "split" /\ stage' = "price" /\ adopted' = adopted,
           NEW to \in Splits \ {Solved}, stage = "scout" => to = Scouted,
           NEW c \in Usable(status), c \notin Plain, NEW a \in AnswerType, a.out > 0,
           NEW figure \in 0..MaxOut, figure \in Carried(to, a.out),
           figure > verified_out, Net(c, figure) >= Net(winner, verified_out),
           c # winner => stage = "scout" /\ adopted' = ~a.over,
           c = winner /\ stage = "scout" => ~adopted',
           adopted' \in BOOLEAN,
           chain' \in [Names \X Splits -> AnswerType], chain'[<<c, to>>] = a,
           \A d \in Usable(status) : chain'[<<d, split[d]>>] = chain[<<d, split[d]>>],
           Reweigh(c, to, figure, a.over)
    PROVE  /\ IInv'
           /\ verified_out' >= verified_out
           /\ Net(winner', verified_out') >= Net(winner, verified_out)
  <1>1. winner = route /\ winner \in Usable(status) /\ verified_out = out[winner] /\ winner # None
    BY DEF IInv, Ruled
  <1>2. verified_out \in 0..MaxOut /\ verified_out \in Nat /\ figure \in Nat /\ figure > 0 /\ c \in Names /\ winner \in Names
        /\ Names \cap {None} = {} /\ stage' \in Stages /\ UNCHANGED <<shape, risky>>
    BY <1>1, ConstantsTyped DEF IInv, Typed, AnswerType, Usable, Stages, given
  <1>3. /\ Typed' /\ Kept'
        /\ winner' = route' /\ winner' \in Usable(status)' /\ verified_out' = out'[winner']
        /\ \A d \in Names \ {c} : out'[d] = out[d]
        /\ IF a.over THEN UNCHANGED <<split, out, result>>
           ELSE winner' = c /\ verified_out' = figure /\ out'[c] = figure
    BY <1>1, <1>2, ReweighKeeps DEF IInv
  <1>4. Weights'
    <2>1. split' = split \/ split' = [split EXCEPT ![c] = to]
      BY DEF Reweigh
    <2>2. CASE stage = "scout"
      BY <2>1, <2>2, <1>2 DEF IInv, Weights, Typed, Solved, Scouted, Searched
    <2>3. CASE stage = "split"
      BY <2>3 DEF Weights
    <2> QED
      BY <2>2, <2>3
  <1>5. Ruled'
    BY <1>2, <1>3, ConstantsTyped DEF Ruled, Usable
  <1>6. \A d, v : Net(d, v)' = Net(d, v) /\ Score(d, v)' = Score(d, v)
    BY <1>2 DEF Net, Score
  <1>7. /\ Net(winner, verified_out) \in Int /\ Net(c, figure) \in Int
        /\ Score(winner, verified_out) \in Int /\ Score(c, figure) \in Int
        /\ \A d \in Names : Score(d, out[d]) \in Int
    <2>1. \A d \in Names : out[d] \in 0..MaxOut
      BY DEF IInv, Typed
    <2> QED
      BY <1>2, <2>1, ScoreTyped DEF IInv, Typed
  <1>8. verified_out' >= verified_out /\ Net(winner', verified_out') >= Net(winner, verified_out)
    <2>1. CASE a.over
      BY <1>2, <1>3, <1>7, <2>1 DEF result
    <2>2. CASE ~a.over
      BY <1>2, <1>3, <1>7, <2>2
    <2> QED
      BY <2>1, <2>2
  <1>9. NeverBelowDirect'
    <2> SUFFICES ASSUME ~(risky /\ adopted'), NEW d \in Usable(status) \cap Plain
                 PROVE  Score(d, out'[d]) <= Score(winner', verified_out')
      BY <1>2, <1>6 DEF NeverBelowDirect, Usable
    <2>1. d \in Names /\ d # c /\ out'[d] = out[d]
      BY <1>3 DEF Usable
    <2>2. CASE a.over
      <3>1. winner' = winner /\ verified_out' = verified_out
        BY <1>3, <2>2 DEF result
      <3>2. ~(risky /\ adopted)
        BY <1>2 DEF IInv, Weights
      <3> QED
        BY <1>1, <2>1, <3>1, <3>2 DEF IInv, FloorFirst, NeverBelowDirect
    <2>3. CASE ~a.over
      <3>1. winner' = c /\ verified_out' = figure
        BY <1>3, <2>3
      <3>2. ~(risky /\ adopted)
        BY <1>2 DEF IInv, Weights
      <3>3. Score(d, out[d]) <= Score(winner, verified_out)
        BY <1>1, <3>2 DEF IInv, FloorFirst, NeverBelowDirect
      <3>4. Score(winner, verified_out) <= Score(c, figure)
        <4>1. CASE c = winner
          <5> DEFINE r == IF risky THEN shape[c].risk ELSE 0
          <5>1. r \in Int
            BY <1>2 DEF IInv, Typed, RankType, ShapeType
          <5>2. Score(winner, verified_out) = Net(winner, verified_out) - r
                /\ Score(c, figure) = Net(c, figure) - r
            BY <4>1 DEF Score
          <5> HIDE DEF r
          <5> QED
            BY <1>7, <5>1, <5>2
        <4>2. CASE c # winner
          <5>1. ~risky
            BY <2>3, <4>2
          <5>2. Score(winner, verified_out) = Net(winner, verified_out) - 0
                /\ Score(c, figure) = Net(c, figure) - 0
            BY <5>1 DEF Score
          <5> QED
            BY <1>7, <5>2
        <4> QED
          BY <4>1, <4>2
      <3> QED
        BY <1>7, <2>1, <3>1, <3>3, <3>4
    <2> QED
      BY <2>2, <2>3
  <1>10. FloorFirst'
    BY <1>9 DEF FloorFirst
  <1> QED
    BY <1>3, <1>4, <1>5, <1>8, <1>10 DEF IInv

\* Nothing is re-weighted: only answers that nobody carries are added.
LEMMA LookedInv ==
    ASSUME IInv, UNCHANGED <<given, ballot, result, adopted>>,
           \/ stage = "scout" /\ stage' = "split"
           \/ stage = "split" /\ stage' = "price",
           chain' \in [Names \X Splits -> AnswerType],
           \A d \in Usable(status) : chain'[<<d, split[d]>>] = chain[<<d, split[d]>>]
    PROVE  IInv' /\ UNCHANGED <<winner, verified_out>>
  <1>1. UNCHANGED <<shape, risky, status, out, rank, split, route, winner, verified_out, adopted>>
        /\ stage' \in Stages
    BY DEF given, ballot, result, Stages
  <1>2. Usable(status)' = Usable(status) /\ Ready(status)' = Ready(status)
        /\ Usable(status) \subseteq Names
    BY <1>1 DEF Usable, Ready
  <1>3. RankType' /\ \A c \in Names : Fits(c)' = Fits(c)
    BY <1>1 DEF IInv, Typed, RankType, Fits
  <1>4. Typed'
    BY <1>1, <1>2, <1>3 DEF IInv, Typed
  <1>5. Kept'
    BY <1>1, <1>2, <1>3 DEF IInv, Kept
  <1>6. Weights' /\ Ruled'
    BY <1>1, <1>2 DEF IInv, Weights, Ruled, Solved, Searched
  <1>7. FloorFirst'
    BY <1>1, <1>2, SameScores DEF IInv, FloorFirst, NeverBelowDirect
  <1> QED
    BY <1>1, <1>4, <1>5, <1>6, <1>7 DEF IInv

Kinder == /\ verified_out' >= verified_out
          /\ Net(winner', verified_out') >= Net(winner, verified_out)

LEMMA StillKind ==
    ASSUME IInv, winner # None, UNCHANGED <<winner, verified_out>>
    PROVE  Kinder
  <1>1. winner \in Names /\ verified_out \in 0..MaxOut /\ verified_out \in Nat /\ RankType
    BY ConstantsTyped DEF IInv, Typed, Ruled, Usable
  <1>2. Net(winner, verified_out) \in Int
    BY <1>1, ScoreTyped
  <1> QED
    BY <1>1, <1>2 DEF Kinder

LEMMA ScoutInv == ASSUME IInv, Scout PROVE IInv' /\ Kinder
  <1>1. stage = "scout" /\ stage' = "split" /\ UNCHANGED <<given, status, rank>> /\ ~adopted
        /\ \A c \in Names : split[c] = Solved
    BY DEF Scout, IInv, Weights
  <1>2. winner = route /\ winner \in Usable(status) /\ verified_out = out[winner] /\ winner # None
        /\ Usable(status) \subseteq Names /\ winner \in Names /\ verified_out \in 0..MaxOut
    BY <1>1, ConstantsTyped DEF IInv, Typed, Ruled, Usable
  <1>3. PICK challenger \in Entrants :
        \E proposed \in SUBSET ({challenger} \cup IF shape[winner].splits THEN {winner} ELSE {}) :
        \E answer \in [proposed -> Answers] :
          LET figure == [c \in proposed |-> Float[answer[c].out]]
              better == {c \in proposed : Better(c, figure[c])}
              top == Max({Net(c, figure[c]) : c \in better})
              tops == {c \in better : Net(c, figure[c]) = top}
              found == IF winner \in tops THEN winner ELSE challenger
          IN  /\ proposed # {}
              /\ chain' = [k \in Names \X Splits |->
                              IF k[1] \in proposed /\ k[2] = Scouted THEN answer[k[1]] ELSE chain[k]]
              /\ IF better = {} THEN UNCHANGED <<split, out, result, adopted>>
                 ELSE /\ Reweigh(found, Scouted, figure[found], answer[found].over)
                      /\ adopted' = (found # winner /\ ~answer[found].over)
    BY Zenon DEF Scout
  <1>4a. PICK proposed \in SUBSET ({challenger} \cup IF shape[winner].splits THEN {winner} ELSE {}) :
        \E answer \in [proposed -> Answers] :
          LET figure == [c \in proposed |-> Float[answer[c].out]]
              better == {c \in proposed : Better(c, figure[c])}
              top == Max({Net(c, figure[c]) : c \in better})
              tops == {c \in better : Net(c, figure[c]) = top}
              found == IF winner \in tops THEN winner ELSE challenger
          IN  /\ proposed # {}
              /\ chain' = [k \in Names \X Splits |->
                              IF k[1] \in proposed /\ k[2] = Scouted THEN answer[k[1]] ELSE chain[k]]
              /\ IF better = {} THEN UNCHANGED <<split, out, result, adopted>>
                 ELSE /\ Reweigh(found, Scouted, figure[found], answer[found].over)
                      /\ adopted' = (found # winner /\ ~answer[found].over)
    BY <1>3, Zenon
  <1>4. PICK answer \in [proposed -> Answers] :
          LET figure == [c \in proposed |-> Float[answer[c].out]]
              better == {c \in proposed : Better(c, figure[c])}
              top == Max({Net(c, figure[c]) : c \in better})
              tops == {c \in better : Net(c, figure[c]) = top}
              found == IF winner \in tops THEN winner ELSE challenger
          IN  /\ proposed # {}
              /\ chain' = [k \in Names \X Splits |->
                              IF k[1] \in proposed /\ k[2] = Scouted THEN answer[k[1]] ELSE chain[k]]
              /\ IF better = {} THEN UNCHANGED <<split, out, result, adopted>>
                 ELSE /\ Reweigh(found, Scouted, figure[found], answer[found].over)
                      /\ adopted' = (found # winner /\ ~answer[found].over)
    BY <1>4a, Zenon
  <1> DEFINE figure == [c \in proposed |-> Float[answer[c].out]]
             better == {c \in proposed : Better(c, figure[c])}
             top == Max({Net(c, figure[c]) : c \in better})
             tops == {c \in better : Net(c, figure[c]) = top}
             found == IF winner \in tops THEN winner ELSE challenger
  <1>5. chain' = [k \in Names \X Splits |->
                    IF k[1] \in proposed /\ k[2] = Scouted THEN answer[k[1]] ELSE chain[k]]
    BY <1>4
  <1>6. /\ better = {} => UNCHANGED <<split, out, result, adopted>>
        /\ better # {} => /\ Reweigh(found, Scouted, figure[found], answer[found].over)
                          /\ adopted' = (found # winner /\ ~answer[found].over)
    BY <1>4
  <1>7. challenger \in Usable(status) \ {winner} /\ shape[challenger].splits
    <2>1. shape[winner].width \in Nat
      BY <1>2 DEF IInv, Typed, RankType, ShapeType
    <2> QED
      BY <2>1 DEF Entrants, Wider, Priority
  <1>8. ASSUME NEW c \in proposed
        PROVE  c \in Usable(status) /\ c \notin Plain /\ answer[c] \in AnswerType
               /\ (c = winner \/ c = challenger)
               /\ answer[c].out \in 0..MaxOut /\ figure[c] = Float[answer[c].out]
               /\ figure[c] \in 0..MaxOut
    <2>1. (c = winner \/ c = challenger) /\ shape[c].splits
      BY <1>7, <1>8
    <2>2. answer[c] \in AnswerType /\ answer[c].out \in 0..MaxOut
      BY <1>8, AnswersTyped DEF AnswerType
    <2> QED
      BY <1>2, <1>7, <1>8, <2>1, <2>2, FloatRounds, ConstantsTyped DEF IInv, Typed
  <1>9. chain' \in [Names \X Splits -> AnswerType]
    BY <1>5, <1>8 DEF IInv, Typed
  <1>10. \A d \in Usable(status) : chain'[<<d, split[d]>>] = chain[<<d, split[d]>>]
    <2>1. ASSUME NEW d \in Usable(status) PROVE chain'[<<d, split[d]>>] = chain[<<d, split[d]>>]
      <3>1. d \in Names /\ split[d] = Solved /\ <<d, Solved>> \in Names \X Splits
        BY <1>1, <1>2 DEF Splits
      <3> QED
        BY <1>5, <3>1 DEF Solved, Scouted
    <2> QED
      BY <2>1
  <1>11. CASE better = {}
    <2>1. UNCHANGED <<given, ballot, result, adopted>>
      BY <1>1, <1>6, <1>11 DEF ballot, result
    <2> QED
      BY <1>1, <1>2, <1>9, <1>10, <2>1, LookedInv, StillKind
  <1>12. CASE better # {}
    <2>1. found \in better
      <3>1. CASE challenger \in better
        BY <3>1
      <3>2. CASE challenger \notin better
        <4>1. better = {winner}
          BY <1>8, <1>12, <3>2
        <4> DEFINE n == Net(winner, figure[winner])
        <4>2. winner \in proposed /\ figure[winner] \in 0..MaxOut
          BY <1>8, <4>1
        <4>3. n \in Int
          BY <1>2, <4>2, ScoreTyped DEF IInv, Typed
        <4>4. {Net(c, figure[c]) : c \in better} = {n}
          BY <4>1
        <4> HIDE DEF n
        <4>5. Max({n}) = n
          BY <4>3 DEF Max
        <4>6. top = n
          BY <4>4, <4>5
        <4> QED
          BY <4>1, <4>6 DEF n
      <3> QED
        BY <3>1, <3>2
    <2> HIDE DEF found
    <2>2. found \in proposed /\ Better(found, figure[found])
      BY <2>1
    <2> DEFINE a == answer[found]
               g == figure[found]
    <2>3. /\ a \in AnswerType /\ a.out \in 0..MaxOut /\ found \in Usable(status)
          /\ found \notin Plain /\ g = Float[a.out] /\ g \in 0..MaxOut
      BY <1>8, <2>2
    <2>4. Reweigh(found, Scouted, g, a.over) /\ adopted' = (found # winner /\ ~a.over)
      BY <1>6, <1>12
    <2>5. chain'[<<found, Scouted>>] = a
      <3>1. <<found, Scouted>> \in Names \X Splits
        BY <1>2, <2>3 DEF Splits
      <3> QED
        BY <1>5, <2>2, <3>1
    <2>6. Better(found, g)
      BY <2>2
    <2> HIDE DEF a, g, figure
    <2>7. g > Float[verified_out] /\ Net(found, g) > Net(winner, verified_out)
      <3>1. Float[verified_out] \in 0..MaxOut /\ g \in Int /\ MARGIN \in Nat
        BY <1>2, <2>3, FloatRounds, ConstantsTyped
      <3> QED
        BY <2>6, <3>1 DEF Better, Bar
    <2>8. g > verified_out
      <3>1. SUFFICES ASSUME g <= verified_out PROVE FALSE
        BY <1>2, <2>3, ConstantsTyped
      <3>2. Float[g] <= Float[verified_out] /\ Float[g] = g
        BY <1>2, <2>3, <3>1, FloatRounds
      <3>3. Float[verified_out] \in 0..MaxOut
        BY <1>2, FloatRounds
      <3> QED
        BY <2>3, <2>7, <3>2, <3>3, ConstantsTyped
    <2>9. a.out > 0
      BY <1>2, <2>3, <2>8, FloatRounds, ConstantsTyped
    <2>10. Scouted \in Splits \ {Solved} /\ g \in Carried(Scouted, a.out)
      BY <2>3 DEF Splits, Solved, Scouted, Searched, Carried
    <2>11. adopted' \in BOOLEAN /\ (found # winner => adopted' = ~a.over)
          /\ (found = winner => ~adopted')
      BY <2>3, <2>4 DEF AnswerType
    <2>12. Net(found, g) >= Net(winner, verified_out)
      <3>1. Net(found, g) \in Int /\ Net(winner, verified_out) \in Int
        BY <1>2, <2>3, ScoreTyped DEF IInv, Typed
      <3> QED
        BY <2>7, <3>1
    <2> QED
      BY <1>1, <1>9, <1>10, <2>3, <2>4, <2>5, <2>8, <2>9, <2>10, <2>11, <2>12, TunedInv DEF Kinder
  <1> QED
    BY <1>11, <1>12

LEMMA OptimiseSplitInv == ASSUME IInv, OptimiseSplit PROVE IInv' /\ Kinder
  <1>1. stage = "split" /\ stage' = "price" /\ UNCHANGED <<given, status, rank, adopted>>
        /\ \A c \in Names : split[c] # Searched
    BY DEF OptimiseSplit, IInv, Weights
  <1>2. winner = route /\ winner \in Usable(status) /\ verified_out = out[winner] /\ winner # None
        /\ Usable(status) \subseteq Names /\ winner \in Names /\ verified_out \in 0..MaxOut
        /\ shape[winner].splits
    BY <1>1, ConstantsTyped DEF IInv, Typed, Ruled, Usable, OptimiseSplit
  <1>3. PICK answer \in Answers, polished \in BOOLEAN :
          LET figure == IF polished THEN Float[answer.out] ELSE answer.out
          IN  /\ chain' = [chain EXCEPT ![<<route, Searched>>] = answer]
              /\ IF Improves(figure) THEN Reweigh(route, Searched, figure, answer.over)
                 ELSE UNCHANGED <<split, out, result>>
    BY DEF OptimiseSplit
  <1> DEFINE figure == IF polished THEN Float[answer.out] ELSE answer.out
  <1>4. /\ chain' = [chain EXCEPT ![<<winner, Searched>>] = answer]
        /\ IF Improves(figure) THEN Reweigh(winner, Searched, figure, answer.over)
           ELSE UNCHANGED <<split, out, result>>
    BY <1>2, <1>3
  <1>5. /\ answer \in AnswerType /\ answer.out \in 0..MaxOut /\ figure \in 0..MaxOut
        /\ figure \in Carried(Searched, answer.out)
        /\ figure > 0 => answer.out > 0
    <2>1. answer \in AnswerType /\ answer.out \in 0..MaxOut
      BY AnswersTyped DEF AnswerType
    <2>2. Float[answer.out] \in 0..MaxOut /\ (answer.out = 0 => Float[answer.out] = 0)
      BY <2>1, FloatRounds
    <2>3. Carried(Searched, answer.out) = {answer.out, Float[answer.out]}
      BY DEF Carried, Solved, Scouted, Searched
    <2> QED
      BY <2>1, <2>2, <2>3, ConstantsTyped
  <1> HIDE DEF figure
  <1>6. <<winner, Searched>> \in Names \X Splits /\ Searched \in Splits \ {Solved}
    BY <1>2 DEF Splits, Solved, Searched
  <1>7. chain' \in [Names \X Splits -> AnswerType] /\ chain'[<<winner, Searched>>] = answer
    BY <1>4, <1>5, <1>6 DEF IInv, Typed
  <1>8. \A d \in Usable(status) : chain'[<<d, split[d]>>] = chain[<<d, split[d]>>]
    <2>1. ASSUME NEW d \in Usable(status) PROVE chain'[<<d, split[d]>>] = chain[<<d, split[d]>>]
      <3>1. d \in Names /\ split[d] # Searched /\ <<d, split[d]>> \in Names \X Splits
        BY <1>1, <1>2 DEF IInv, Typed
      <3> QED
        BY <1>4, <3>1 DEF IInv, Typed
    <2> QED
      BY <2>1
  <1>9. CASE Improves(figure)
    <2>1. winner \notin Plain
      BY <1>2, ConstantsTyped DEF IInv, Typed
    <2>2. figure > verified_out /\ figure > 0
      BY <1>2, <1>5, <1>9, ConstantsTyped DEF Improves
    <2>3. Net(winner, figure) >= Net(winner, verified_out)
      <3>1. Net(winner, verified_out) \in Int /\ Net(winner, figure) \in Int
        BY <1>2, <1>5, ScoreTyped DEF IInv, Typed
      <3>2. verified_out <= figure /\ shape \in Shapes
        BY <1>2, <1>5, <2>2, ConstantsTyped DEF IInv, Typed
      <3>3. Net(winner, verified_out) <= Net(winner, figure)
        BY <1>2, <1>5, <3>2, NetGrows
      <3> QED
        BY <3>1, <3>3
    <2>4. Reweigh(winner, Searched, figure, answer.over)
      BY <1>4, <1>9
    <2>5. adopted' \in BOOLEAN
      BY <1>1 DEF IInv, Typed
    <2> QED
      BY <1>1, <1>2, <1>5, <1>6, <1>7, <1>8, <2>1, <2>2, <2>3, <2>4, <2>5, TunedInv DEF Kinder
  <1>10. CASE ~Improves(figure)
    <2>1. UNCHANGED <<given, ballot, result, adopted>>
      BY <1>1, <1>4, <1>10 DEF ballot, result
    <2> QED
      BY <1>1, <1>2, <1>7, <1>8, <2>1, LookedInv, StillKind
  <1> QED
    BY <1>9, <1>10

LEMMA StutterInv == ASSUME IInv, UNCHANGED vars PROVE IInv'
  <1>1. UNCHANGED <<shape, risky, status, out, rank, split, chain, route, winner, verified_out,
                    stage, priced, adopted>>
    BY DEF vars, given, ballot, result
  <1>2. Typed' /\ Kept' /\ Usable(status)' = Usable(status) /\ Best(status, rank)' = Best(status, rank)
    BY <1>1, SameBallot DEF IInv, Typed
  <1> QED
    BY <1>1, <1>2, SameScores DEF IInv, Weights, Ruled, FloorFirst, NeverBelowDirect

LEMMA StepInv == IInv /\ [Next]_vars => IInv'
  <1> SUFFICES ASSUME IInv, [Next]_vars PROVE IInv'
    OBVIOUS
  <1>1. CASE Unsound
    BY <1>1, UnsoundInv
  <1>2. CASE RealizeBase
    BY <1>2, RealizeBaseInv
  <1>3. CASE VerifyBallot
    BY <1>3, VerifyBallotInv
  <1>4. CASE VerifyDirect
    BY <1>4, VerifyDirectInv
  <1>5. CASE ChooseWinner
    BY <1>5, ChooseWinnerInv
  <1>6. CASE NoWinner
    BY <1>6, NoWinnerInv
  <1>7. CASE RefitChanges
    BY <1>7, RefitChangesInv
  <1>8. CASE RefitStays
    BY <1>8, PassInv DEF RefitStays
  <1>9. CASE Scout
    BY <1>9, ScoutInv
  <1>10. CASE NoScout
    BY <1>10, PassInv DEF NoScout
  <1>11. CASE OptimiseSplit
    BY <1>11, OptimiseSplitInv
  <1>12. CASE NoSplit
    BY <1>12, PassInv DEF NoSplit
  <1>13. CASE PriceLegs
    BY <1>13, PassInv DEF PriceLegs
  <1>14. CASE UNCHANGED vars
    BY <1>14, StutterInv
  <1> QED
    BY <1>1, <1>2, <1>3, <1>4, <1>5, <1>6, <1>7, <1>8, <1>9, <1>10, <1>11, <1>12, <1>13, <1>14
    DEF Next

LEMMA InvAlways == Spec => []IInv
  <1>1. Init => IInv
    BY InitInv
  <1>2. IInv /\ [Next]_vars => IInv'
    BY StepInv
  <1> QED
    BY <1>1, <1>2, PTL DEF Spec

----------------------------------------------------------------------------
(* What is promised.                                                       *)

\* Whatever the chain answers, however ties fall and however coarse doubles are, a quote
\* is published with what the chain answered for the very weights the route carries:
\* as it came from the ranking, as a double from the scout, either way from the search.
\* And the legs were priced on those weights.
THEOREM Published == Spec => []PublishedIsWhatWasQuoted
  <1>1. IInv => PublishedIsWhatWasQuoted
    BY ConstantsTyped DEF IInv, Typed, Kept, Ruled, PublishedIsWhatWasQuoted, Usable
  <1> QED
    BY <1>1, InvAlways, PTL

\* A route published with a quote meets no pool twice, fits the quoter and asks no pool
\* past its room; with a quote or without, it is within the caller's limit.
THEOREM Fitting == Spec => []PublishedFits
  <1>1. IInv => PublishedFits
    BY DEF IInv, Kept, Ruled, Fits, PublishedFits
  <1> QED
    BY <1>1, InvAlways, PTL

\* However many swaps and chains of two there are, and whatever the sort made of ties,
\* none that quoted ranks above the answer, the scout's exception apart.
THEOREM NotBelowDirect == Spec => []NeverBelowDirect
  <1>1. IInv => NeverBelowDirect
    BY DEF IInv, FloorFirst
  <1> QED
    BY <1>1, InvAlways, PTL

\* Neither pass over the winner ever pays less, gross or with the legs paid for.
THEOREM TuningIsFree == Spec => TuningNeverCosts
  <1> DEFINE Kind == stage \in {"scout", "split"} => Kinder
  <1>1. IInv /\ [Next]_vars => [Kind]_vars
    <2> SUFFICES ASSUME IInv, Next, stage \in {"scout", "split"} PROVE Kinder
      OBVIOUS
    <2>1. winner # None
      BY DEF IInv, Ruled
    <2>2. CASE Scout
      BY <2>2, ScoutInv
    <2>3. CASE OptimiseSplit
      BY <2>3, OptimiseSplitInv
    <2>4. CASE NoScout \/ NoSplit
      BY <2>1, <2>4, StillKind DEF NoScout, NoSplit, result
    <2> QED
      BY <2>2, <2>3, <2>4 DEF Next, Unsound, RealizeBase, VerifyBallot, VerifyDirect, ChooseWinner,
         NoWinner, RefitChanges, RefitStays, PriceLegs
  <1> QED
    BY <1>1, InvAlways, PTL DEF Spec, TuningNeverCosts, Kinder
----------------------------------------------------------------------------
(* That the answer stays the ranking's until the scout, and the type invariant: *)
(* every verify ranks anew what is usable, and nothing moves the winner or the  *)
(* answers between a ranking and the scout.                                     *)

Ranked ==
    /\ {rank[c] : c \in Usable(status)} \subseteq 1..Cardinality(Names)
    /\ stage = "choose" /\ Usable(status) # {} =>
          Best(status, rank) \in FirstOf(Usable(status), out)
    /\ stage \in {"refit", "scout"} => winner \in FirstOf(Usable(status), out)

\* What may be first depends on the figures and on what is usable alone.
LEMMA SameFirsts ==
    ASSUME UNCHANGED <<shape, risky>>
    PROVE  FirstOf(Usable(status), out)' = FirstOf(Usable(status'), out')
  <1> DEFINE U == Usable(status')
             score(c) == Score(c, out'[c])
             scores == {score(c) : c \in U}
             best == Max(scores)
             near == {c \in U : best - score(c) <= Tolerance(best)}
             shortest == {c \in near : \A d \in near : shape[c].legs <= shape[d].legs}
             topOf(S) == {c \in S : \A d \in S : score(d) <= score(c)}
             plains == {c \in near \cap topOf(U \cap Plain) : \A d \in shortest : score(d) < score(c)}
             U1 == Usable(status)'
             score1(c) == Score(c, out[c])'
             scores1 == {score1(c) : c \in U1}
             best1 == Max(scores1)
             near1 == {c \in U1 : best1 - score1(c) <= Tolerance(best1)}
             shortest1 == {c \in near1 : \A d \in near1 : shape'[c].legs <= shape'[d].legs}
             topOf1(S) == {c \in S : \A d \in S : score1(d) <= score1(c)}
             plains1 == {c \in near1 \cap topOf1(U1 \cap Plain) :
                            \A d \in shortest1 : score1(d) < score1(c)}
  <1>1. FirstOf(Usable(status'), out') = topOf(shortest) \cup plains
    BY DEF FirstOf
  <1>2. FirstOf(Usable(status), out)' = topOf1(shortest1) \cup plains1
    BY DEF FirstOf, Tolerance
  <1>3. U1 = U /\ shape' = shape
    BY DEF Usable
  <1>4. \A c : score1(c) = score(c)
    BY SameScores
  <1> HIDE DEF U, U1, score, score1
  <1>5. scores1 = scores
    BY <1>3, <1>4
  <1> HIDE DEF scores, scores1
  <1>6. best1 = best
    BY <1>5
  <1> HIDE DEF best, best1
  <1>7. near1 = near
    BY <1>3, <1>4, <1>6
  <1> HIDE DEF near, near1
  <1>8. shortest1 = shortest
    BY <1>3, <1>7
  <1> HIDE DEF shortest, shortest1
  <1>9. topOf1(shortest1) = topOf(shortest) /\ topOf1(U1 \cap Plain) = topOf(U \cap Plain)
    BY <1>3, <1>4, <1>8
  <1> HIDE DEF topOf, topOf1
  <1>10. plains1 = plains
    BY <1>4, <1>7, <1>8, <1>9
  <1> QED
    BY <1>1, <1>2, <1>9, <1>10

\* Ranks as any verify leaves them.
LEMMA RanksBounded ==
    ASSUME RankType, NEW st, NEW value \in [Names -> 0..MaxOut], NEW ranks \in Ranks(st, value)
    PROVE  /\ {ranks[c] : c \in Usable(st)} \subseteq 1..Cardinality(Names)
           /\ Usable(st) # {} => Best(st, ranks) \in FirstOf(Usable(st), value)
  <1>1. CASE Usable(st) = {}
    BY <1>1
  <1>2. CASE Usable(st) # {}
    <2>1. Usable(st) \subseteq Names
      BY DEF Usable
    <2>2. Cardinality(Usable(st)) \in Nat /\ Cardinality(Names) \in Nat
          /\ Cardinality(Usable(st)) <= Cardinality(Names)
      BY <2>1, ConstantsTyped, FS_Subset, FS_CardinalityType
    <2>3. \A c \in Usable(st) : ranks[c] \in 1..Cardinality(Usable(st))
      BY <1>2, RanksFloor
    <2>4. {ranks[c] : c \in Usable(st)} \subseteq 1..Cardinality(Names)
      BY <2>2, <2>3
    <2> QED
      BY <1>2, <2>4, RanksRule
  <1> QED
    BY <1>1, <1>2

LEMMA RankedStep ==
    ASSUME IInv, IInv', Ranked, [Next]_vars
    PROVE  Ranked'
  <1>1. RankType /\ UNCHANGED <<shape, risky>>
    BY DEF IInv, Typed, Next, Unsound, RealizeBase, VerifyBallot, VerifyDirect, ChooseWinner,
       NoWinner, RefitChanges, RefitStays, Scout, NoScout, OptimiseSplit, NoSplit, PriceLegs,
       vars, given
  <1>2. \A st, value : Usable(st)' = Usable(st)
    BY DEF Usable
  <1>3. out' \in [Names -> 0..MaxOut]
    BY DEF IInv, Typed
  <1>4. CASE rank' \in Ranks(status', out') /\ (stage' = "scout" => winner' = Best(status', rank'))
             /\ stage' # "refit" /\ (stage' = "scout" => Usable(status') # {})
    <2>1. {rank'[c] : c \in Usable(status')} \subseteq 1..Cardinality(Names)
      BY <1>1, <1>3, <1>4, RanksBounded
    <2>2. Usable(status') # {} => Best(status', rank') \in FirstOf(Usable(status'), out')
      BY <1>1, <1>3, <1>4, RanksBounded
    <2>3. Usable(status)' = Usable(status') /\ Best(status, rank)' = Best(status', rank')
      BY DEF Usable, Best
    <2>4. FirstOf(Usable(status), out)' = FirstOf(Usable(status'), out')
      BY <1>1, SameFirsts
    <2> QED
      BY <1>4, <2>1, <2>2, <2>3, <2>4 DEF Ranked
  <1>5. CASE UNCHANGED <<status, rank>> /\ stage' \notin {"choose", "refit", "scout"}
    BY <1>5 DEF Ranked, Usable
  <1>6. CASE /\ UNCHANGED <<status, rank, out>>
             /\ \/ stage' = stage /\ winner' = winner
                \/ stage = "choose" /\ stage' = "refit" /\ Usable(status) # {}
                   /\ winner' = Best(status, rank)
                \/ stage = "refit" /\ stage' = "scout" /\ winner' = winner
    <2>1. Usable(status)' = Usable(status) /\ Best(status, rank)' = Best(status, rank)
          /\ Usable(status') = Usable(status)
      BY <1>6 DEF Usable, Best
    <2>2. FirstOf(Usable(status), out)' = FirstOf(Usable(status), out)
      BY <1>1, <1>6, <2>1, SameFirsts
    <2> QED
      BY <1>6, <2>1, <2>2 DEF Ranked
  <1>7. CASE Unsound
    BY <1>5, <1>7 DEF Unsound, ballot
  <1>8. CASE RealizeBase
    BY <1>5, <1>8 DEF RealizeBase, ballot
  <1>9. CASE VerifyBallot
    BY <1>4, <1>9, Zenon DEF VerifyBallot, Verify
  <1>10. CASE VerifyDirect
    BY <1>4, <1>10, Zenon DEF VerifyDirect, Verify
  <1>11. CASE ChooseWinner
    BY <1>6, <1>11 DEF ChooseWinner, ballot
  <1>12. CASE NoWinner
    BY <1>5, <1>12 DEF NoWinner, FallBack, ballot
  <1>13. CASE RefitChanges
    <2>1. Refit \in Usable(status')
      BY <1>13, ConstantsTyped DEF RefitChanges, IInv, Typed, Usable
    <2> QED
      BY <1>4, <1>13, <2>1 DEF RefitChanges
  <1>14. CASE RefitStays
    BY <1>6, <1>14 DEF RefitStays, ballot, result
  <1>15. CASE Scout \/ NoScout \/ OptimiseSplit \/ NoSplit \/ PriceLegs
    BY <1>5, <1>15 DEF Scout, NoScout, OptimiseSplit, NoSplit, PriceLegs, ballot
  <1>16. CASE UNCHANGED vars
    BY <1>6, <1>16 DEF vars, ballot, result
  <1> QED
    BY <1>7, <1>8, <1>9, <1>10, <1>11, <1>12, <1>13, <1>14, <1>15, <1>16 DEF Next

LEMMA RankedAlways == Spec => [](IInv /\ Ranked)
  <1>1. Init => Ranked
    BY DEF Init, Ranked, Usable
  <1>2. IInv /\ Ranked /\ [Next]_vars => (IInv /\ Ranked)'
    BY StepInv, RankedStep
  <1> QED
    BY <1>1, <1>2, InitInv, PTL DEF Spec

\* Whatever order the sort leaves ties in, with the refit in the ranking or without, the
\* answer is the best of the shortest of what is near the best that quoted, or the best
\* plain route, itself near the best, where all of those score below it.
THEOREM RankingRules == Spec => []WinnerIsTheRankings
  <1>1. IInv /\ Ranked => WinnerIsTheRankings
    BY DEF Ranked, WinnerIsTheRankings
  <1> QED
    BY <1>1, RankedAlways, PTL

\* No candidate is left waiting for a quote, what is usable has a rank, and the answer is
\* a candidate that quoted.
THEOREM TypeCorrect == Spec => []TypeOK
  <1>1. IInv /\ Ranked => TypeOK
    BY DEF IInv, Typed, Stages, Statuses, Ranked, Ruled, TypeOK, Usable
  <1> QED
    BY <1>1, RankedAlways, PTL

----------------------------------------------------------------------------
(* Numbers, and functions defined a step at a time.                        *)

\* Of some numbers one is the least.
LEMMA OneIsLeast ==
    ASSUME NEW Values \in SUBSET Nat, Values # {}
    PROVE  \E n \in Values : \A m \in Values : n <= m
  <1> DEFINE Below == OpToRel(<, Nat)
  <1>1. IsWellFoundedOn(Below, Nat)
    BY NatLessThanWellFounded
  <1>2. \A m, n \in Nat : m < n => <<m, n>> \in Below
    BY SMT DEF OpToRel
  <1> HIDE DEF Below
  <1>3. PICK n \in Values : \A m \in Values : ~(<<m, n>> \in Below)
    BY <1>1, WFMin
  <1>4. \A m \in Values : n <= m
    <2> SUFFICES ASSUME NEW m \in Values PROVE ~(m < n)
      OBVIOUS
    <2>1. n \in Nat /\ m \in Nat
      OBVIOUS
    <2> QED BY <1>2, <1>3, <2>1
  <1> QED BY <1>4

\* What holds of 0 and passes from each number to the next holds up to top.
LEMMA UpTo ==
    ASSUME NEW top \in Nat, NEW Good, 0 \in Good,
           \A n \in 1..top : n - 1 \in Good => n \in Good
    PROVE  \A n \in 0..top : n \in Good
  <1> DEFINE Bad == {n \in 0..top : n \notin Good}
  <1> SUFFICES ASSUME Bad # {} PROVE FALSE
    OBVIOUS
  <1>1. Bad \in SUBSET Nat
    OBVIOUS
  <1>2. PICK n \in Bad : \A m \in Bad : n <= m
    <2> HIDE DEF Bad
    <2> QED BY <1>1, OneIsLeast
  <1>3. n \in 1..top /\ n - 1 \in 0..top /\ n - 1 \notin Bad
    BY <1>2
  <1> QED BY <1>3

\* f is `step` taken top times from s0.
Iterates(f, top, s0, step) == f[0] = s0 /\ \A n \in 1..top : f[n] = step[n][f[n - 1]]

\* A step that stays in a set can be taken top times.
LEMMA Iteration ==
    ASSUME NEW top \in Nat, NEW Values, NEW s0 \in Values,
           NEW step \in [1..top -> [Values -> Values]]
    PROVE  \E f \in [0..top -> Values] : Iterates(f, top, s0, step)
  <1> DEFINE Takes(m, f) == f[0] = s0 /\ \A n \in 1..m : f[n] = step[n][f[n - 1]]
             Good == {m \in 0..top : \E f \in [0..top -> Values] : Takes(m, f)}
  <1>1. 0 \in Good
    <2> DEFINE f == [m \in 0..top |-> s0]
    <2>1. f \in [0..top -> Values] /\ f[0] = s0
      OBVIOUS
    <2> HIDE DEF f
    <2> QED BY <2>1
  <1>2. ASSUME NEW m \in 1..top, m - 1 \in Good PROVE m \in Good
    <2>1. PICK f \in [0..top -> Values] : Takes(m - 1, f)
      BY <1>2
    <2>2. f[m - 1] \in Values
      OBVIOUS
    <2>3. step[m][f[m - 1]] \in Values
      BY <2>2
    <2> DEFINE g == [f EXCEPT ![m] = step[m][f[m - 1]]]
    <2>4. g \in [0..top -> Values]
      BY <2>3
    <2>5. g[m] = step[m][f[m - 1]] /\ \A n \in 0..m - 1 : g[n] = f[n]
      OBVIOUS
    <2> HIDE DEF g
    <2>6. g[0] = s0
      BY <2>1, <2>5
    <2>7. ASSUME NEW n \in 1..m PROVE g[n] = step[n][g[n - 1]]
      <3>1. g[n - 1] = f[n - 1]
        BY <2>5
      <3>2. CASE n = m
        BY <2>5, <3>1, <3>2
      <3>3. CASE n # m
        <4>1. n \in 1..m - 1 /\ n \in 0..m - 1
          BY <3>3
        <4>2. f[n] = step[n][f[n - 1]]
          BY <2>1, <4>1
        <4> QED BY <2>5, <3>1, <4>1, <4>2
      <3> QED BY <3>2, <3>3
    <2> QED BY <2>4, <2>6, <2>7
  <1>3. \A m \in 0..top : m \in Good
    <2> HIDE DEF Good
    <2> QED BY <1>1, <1>2, UpTo
  <1>4. top \in Good
    BY <1>3
  <1> QED BY <1>4 DEF Iterates

----------------------------------------------------------------------------
----------------------------------------------------------------------------
(* What arcs come to, added up.                                            *)

Term(f, K, k) == IF k \in K THEN f[k] ELSE 0

\* u adds up what arcs K of f come to, an arc after another.
Adds(u, f, K) ==
    /\ u \in [0..Arcs -> Int] /\ u[0] = 0
    /\ \A k \in Arc : u[k] = u[k - 1] + Term(f, K, k)

LEMMA ArcsTyped ==
    /\ Arcs \in Nat /\ Arc = 1..Arcs /\ Arc \in SUBSET Nat /\ IsFiniteSet(Arc)
    /\ TokenIn \in [Arc -> Token] /\ TokenOut \in [Arc -> Token]
    /\ \A k \in Arc : Tau(k) \in Node /\ Sig(k) \in Node /\ Tau(k) # Sig(k)
  <1>1. Arcs \in Nat /\ Arc = 1..Arcs
    BY RealizeAssumption DEF RealizeAssumption, Arc
  <1>2. IsFiniteSet(1..Arcs)
    BY <1>1, FS_Interval
  <1> QED
    BY <1>1, <1>2, RealizeAssumption DEF RealizeAssumption, Tau, Sig

LEMMA TotalAdds ==
    ASSUME NEW f \in [Arc -> Int], NEW K
    PROVE  \E u : Adds(u, f, K) /\ Total(f, K) = u[Arcs]
  <1> DEFINE step == [k \in 1..Arcs |-> [s \in Int |-> s + Term(f, K, k)]]
             Body(u) == [k \in 0..Arcs |->
                          IF k = 0 THEN 0 ELSE u[k - 1] + (IF k \in K THEN f[k] ELSE 0)]
             upto == CHOOSE u : u = Body(u)
  <1>1. \A k \in 1..Arcs : Term(f, K, k) \in Int
    BY ArcsTyped DEF Term
  <1>2. step \in [1..Arcs -> [Int -> Int]]
    BY <1>1
  <1>3. PICK g \in [0..Arcs -> Int] : Iterates(g, Arcs, 0, step)
    <2> HIDE DEF step
    <2>1. 0 \in Int /\ Arcs \in Nat
      BY ArcsTyped
    <2> QED BY <1>2, <2>1, Iteration
  <1>4. \A k \in 1..Arcs : k \in 0..Arcs /\ k - 1 \in 0..Arcs /\ k # 0
    BY ArcsTyped
  <1>5. ASSUME NEW k \in 1..Arcs PROVE g[k] = g[k - 1] + Term(f, K, k)
    <2>1. g[k] = step[k][g[k - 1]] /\ g[k - 1] \in Int
      BY <1>3, <1>4 DEF Iterates
    <2> QED BY <2>1
  <1>6. g = Body(g)
    <2>1. \A k \in 0..Arcs : g[k] = Body(g)[k]
      <3> SUFFICES ASSUME NEW k \in 0..Arcs PROVE g[k] = Body(g)[k]
        OBVIOUS
      <3>1. CASE k = 0
        BY <3>1, <1>3 DEF Iterates
      <3>2. CASE k # 0
        <4>1. k \in 1..Arcs
          BY <3>2, ArcsTyped
        <4> QED BY <4>1, <1>4, <1>5 DEF Term
      <3> QED BY <3>1, <3>2
    <2>2. g \in [0..Arcs -> Int] /\ Body(g) = [k \in 0..Arcs |-> Body(g)[k]]
      BY <1>3
    <2> HIDE DEF Body
    <2> QED BY <2>1, <2>2
  <1>7. upto = Body(upto)
    <2> HIDE DEF Body
    <2> QED BY <1>6
  <1>8. Total(f, K) = upto[Arcs]
    BY DEF Total
  <1> HIDE DEF upto
  <1>9. upto[0] = 0
    BY <1>7, ArcsTyped
  <1>10. ASSUME NEW k \in 1..Arcs PROVE upto[k] = upto[k - 1] + Term(f, K, k)
    <2>1. upto[k] = Body(upto)[k]
      BY <1>7
    <2> QED BY <2>1, <1>4 DEF Term
  <1>11. \A k \in 0..Arcs : upto[k] \in Int
    <2> DEFINE Good == {k \in 0..Arcs : upto[k] \in Int}
    <2>1. 0 \in Good
      BY <1>9, ArcsTyped
    <2>2. \A k \in 1..Arcs : k - 1 \in Good => k \in Good
      <3> SUFFICES ASSUME NEW k \in 1..Arcs, k - 1 \in Good PROVE k \in Good
        OBVIOUS
      <3>1. upto[k - 1] \in Int /\ k \in 0..Arcs
        BY <1>4
      <3>2. upto[k - 1] + Term(f, K, k) \in Int
        BY <3>1, <1>1
      <3> QED BY <3>1, <3>2, <1>10
    <2>3. \A k \in 0..Arcs : k \in Good
      <3> HIDE DEF Good
      <3> QED BY <2>1, <2>2, ArcsTyped, UpTo
    <2> QED BY <2>3
  <1>12. upto \in [0..Arcs -> Int]
    <2>1. upto = [k \in 0..Arcs |-> upto[k]]
      BY <1>7
    <2> QED BY <2>1, <1>11
  <1> QED
    <2>1. Adds(upto, f, K)
      BY <1>9, <1>10, <1>12, ArcsTyped DEF Adds
    <2> QED BY <2>1, <1>8

\* Two totals whose terms agree but for d more at arc j differ by d.
LEMMA TotalOne ==
    ASSUME NEW f \in [Arc -> Int], NEW g \in [Arc -> Int], NEW K, NEW L,
           NEW d \in Int, NEW j \in Arc,
           \A k \in Arc : Term(f, K, k) = Term(g, L, k) + (IF k = j THEN d ELSE 0)
    PROVE  Total(f, K) = Total(g, L) + d
  <1>1. PICK u : Adds(u, f, K) /\ Total(f, K) = u[Arcs]
    BY TotalAdds
  <1>2. PICK w : Adds(w, g, L) /\ Total(g, L) = w[Arcs]
    BY TotalAdds
  <1> DEFINE Good == {k \in 0..Arcs : u[k] = w[k] + (IF j <= k THEN d ELSE 0)}
  <1>0. \A k \in Arc : Term(g, L, k) \in Int
    BY ArcsTyped DEF Term
  <1>3. 0 \in Good
    BY <1>1, <1>2, ArcsTyped DEF Adds
  <1>4. \A k \in 1..Arcs : k - 1 \in Good => k \in Good
    <2> SUFFICES ASSUME NEW k \in 1..Arcs, k - 1 \in Good PROVE k \in Good
      OBVIOUS
    <2>1. k \in Arc /\ k \in 0..Arcs /\ k - 1 \in 0..Arcs /\ k \in Int /\ j \in Int
      BY ArcsTyped
    <2>2. u[k] = u[k - 1] + Term(f, K, k) /\ w[k] = w[k - 1] + Term(g, L, k)
      BY <2>1, <1>1, <1>2 DEF Adds
    <2>3. u[k - 1] = w[k - 1] + (IF j <= k - 1 THEN d ELSE 0)
      OBVIOUS
    <2>4. w[k - 1] \in Int /\ w[k] \in Int /\ u[k] \in Int
      BY <1>1, <1>2, <2>1 DEF Adds
    <2>5. Term(f, K, k) = Term(g, L, k) + (IF k = j THEN d ELSE 0)
      BY <2>1
    <2>6. Term(g, L, k) \in Int
      BY <1>0, <2>1
    <2> HIDE DEF Good
    <2>7. u[k] = w[k] + (IF j <= k THEN d ELSE 0)
      BY <2>1, <2>2, <2>3, <2>4, <2>5, <2>6
    <2> QED BY <2>1, <2>7 DEF Good
  <1>5. \A k \in 0..Arcs : k \in Good
    <2> HIDE DEF Good
    <2> QED BY <1>3, <1>4, ArcsTyped, UpTo
  <1> QED BY <1>1, <1>2, <1>5, ArcsTyped

LEMMA TotalSame ==
    ASSUME NEW f \in [Arc -> Int], NEW g \in [Arc -> Int], NEW K, NEW L,
           \A k \in Arc : Term(f, K, k) = Term(g, L, k)
    PROVE  Total(f, K) = Total(g, L)
  <1>1. CASE Arc = {}
    <2>1. Arcs = 0
      BY <1>1, ArcsTyped
    <2>2. \E u : Adds(u, f, K) /\ Total(f, K) = u[0]
      BY <2>1, TotalAdds
    <2>3. \E u : Adds(u, g, L) /\ Total(g, L) = u[0]
      BY <2>1, TotalAdds
    <2> QED BY <2>2, <2>3 DEF Adds
  <1>2. CASE Arc # {}
    <2>1. PICK j \in Arc : TRUE
      BY <1>2
    <2>2. \A k \in Arc : Term(g, L, k) \in Int
      BY ArcsTyped DEF Term
    <2>3. \A k \in Arc : Term(f, K, k) = Term(g, L, k) + (IF k = j THEN 0 ELSE 0)
      BY <2>2
    <2>4. \E u : Adds(u, g, L) /\ Total(g, L) = u[Arcs]
      BY TotalAdds
    <2>5. Total(g, L) \in Int
      BY <2>4, ArcsTyped DEF Adds
    <2>6. Total(f, K) = Total(g, L) + 0
      BY <2>3, TotalOne
    <2> QED BY <2>5, <2>6
  <1> QED BY <1>1, <1>2

\* A total of amounts is one, no less than any of them, and above zero only if one is.
LEMMA TotalNat ==
    ASSUME NEW f \in [Arc -> Nat], NEW K
    PROVE  /\ Total(f, K) \in Nat
           /\ \A k \in Arc \cap K : f[k] <= Total(f, K)
           /\ Total(f, K) > 0 => \E k \in Arc \cap K : f[k] > 0
  <1>1. f \in [Arc -> Int]
    OBVIOUS
  <1>2. PICK u : Adds(u, f, K) /\ Total(f, K) = u[Arcs]
    BY <1>1, TotalAdds
  <1>0. \A k \in Arc : Term(f, K, k) \in Nat
    BY ArcsTyped DEF Term
  <1>3. u \in [0..Arcs -> Nat]
    <2> DEFINE Good == {k \in 0..Arcs : u[k] \in Nat}
    <2>1. 0 \in Good
      BY <1>2, ArcsTyped DEF Adds
    <2>2. \A k \in 1..Arcs : k - 1 \in Good => k \in Good
      <3> SUFFICES ASSUME NEW k \in 1..Arcs, k - 1 \in Good PROVE k \in Good
        OBVIOUS
      <3>1. k \in Arc /\ k \in 0..Arcs /\ u[k - 1] \in Nat
        BY ArcsTyped
      <3>2. u[k] = u[k - 1] + Term(f, K, k)
        BY <3>1, <1>2 DEF Adds
      <3>3. Term(f, K, k) \in Nat
        BY <1>0, <3>1
      <3> QED BY <3>1, <3>2, <3>3
    <2>3. \A k \in 0..Arcs : k \in Good
      <3> HIDE DEF Good
      <3> QED BY <2>1, <2>2, ArcsTyped, UpTo
    <2> QED BY <2>3, <1>2 DEF Adds
  <1>4. ASSUME NEW j \in Arc \cap K PROVE f[j] <= Total(f, K)
    <2> DEFINE Good == {k \in 0..Arcs : j <= k => f[j] <= u[k]}
    <2>1. 0 \in Good
      BY ArcsTyped
    <2>2. \A k \in 1..Arcs : k - 1 \in Good => k \in Good
      <3> SUFFICES ASSUME NEW k \in 1..Arcs, k - 1 \in Good PROVE k \in Good
        OBVIOUS
      <3>1. k \in Arc /\ k \in 0..Arcs /\ k - 1 \in 0..Arcs /\ k \in Int /\ j \in Int
        BY ArcsTyped
      <3>2. u[k] = u[k - 1] + Term(f, K, k)
        BY <3>1, <1>2 DEF Adds
      <3>3. Term(f, K, k) \in Nat /\ u[k - 1] \in Nat /\ f[j] \in Nat
        BY <1>0, <1>3, <3>1
      <3>4. k = j => Term(f, K, k) = f[j]
        BY DEF Term
      <3>5. j <= k - 1 => f[j] <= u[k - 1]
        OBVIOUS
      <3> HIDE DEF Good
      <3>6. j <= k => f[j] <= u[k]
        BY <3>1, <3>2, <3>3, <3>4, <3>5
      <3> QED BY <3>1, <3>6 DEF Good
    <2>3. \A k \in 0..Arcs : k \in Good
      <3> HIDE DEF Good
      <3> QED BY <2>1, <2>2, ArcsTyped, UpTo
    <2> QED BY <2>3, <1>2, ArcsTyped
  <1>5. ASSUME \A k \in Arc \cap K : ~(f[k] > 0) PROVE Total(f, K) = 0
    <2>1. \A k \in Arc : Term(f, K, k) = 0
      BY <1>5 DEF Term
    <2> DEFINE Good == {k \in 0..Arcs : u[k] = 0}
    <2>2. 0 \in Good
      BY <1>2, ArcsTyped DEF Adds
    <2>3. \A k \in 1..Arcs : k - 1 \in Good => k \in Good
      BY <1>2, <2>1, ArcsTyped DEF Adds
    <2>4. \A k \in 0..Arcs : k \in Good
      <3> HIDE DEF Good
      <3> QED BY <2>2, <2>3, ArcsTyped, UpTo
    <2> QED BY <2>4, <1>2, ArcsTyped
  <1> QED
    <2>1. Total(f, K) \in Nat
      BY <1>2, <1>3, ArcsTyped
    <2> QED BY <2>1, <1>4, <1>5

----------------------------------------------------------------------------
(* Cycles.  Following arcs forwards, or backwards, inside a set that can    *)
(* always be followed comes round: a least such set is a simple cycle.      *)

Behind(D) == \A k \in D : \E j \in D : Sig(j) = Tau(k)
Ahead(D) == \A k \in D : \E j \in D : Tau(j) = Sig(k)

\* Of some sets of arcs one has no other inside it.
LEMMA OneIsInmost ==
    ASSUME NEW Sets \in SUBSET (SUBSET Arc), Sets # {}
    PROVE  \E M \in Sets : \A E \in Sets : E \subseteq M => E = M
  <1>1. FiniteSubsetsOf(Arc) = SUBSET Arc
    BY ArcsTyped, FS_FiniteSubsetsOfFinite
  <1>2. IsWellFoundedOn(StrictSubsetOrdering(Arc), SUBSET Arc)
    BY <1>1, FS_StrictSubsetOrderingWellFounded
  <1>3. PICK M \in Sets : \A E \in Sets : ~(<<E, M>> \in StrictSubsetOrdering(Arc))
    BY <1>2, WFMin
  <1> QED
    BY <1>3 DEF StrictSubsetOrdering

\* A map of a set of arcs onto itself takes no two to one.
LEMMA OntoIsOneToOne ==
    ASSUME NEW M \in SUBSET Arc, NEW p \in [M -> M], \A k \in M : \E j \in M : p[j] = k
    PROVE  \A i, j \in M : p[i] = p[j] => i = j
  <1>1. IsFiniteSet(M)
    BY ArcsTyped, FS_Subset
  <1>2. p \in Surjection(M, M)
    BY DEF Surjection
  <1>3. p \in Injection(M, M)
    BY <1>1, <1>2, FS_SurjSameCardinalityImpliesInj
  <1> QED
    BY <1>3 DEF Injection, IsInjective

LEMMA CycleBehind ==
    ASSUME NEW D \in SUBSET Arc, D # {}, Behind(D)
    PROVE  \E C \in SUBSET D : Simple(C)
  <1> DEFINE Sets == {E \in SUBSET D : E # {} /\ Behind(E)}
  <1>1. PICK M \in Sets : \A E \in Sets : E \subseteq M => E = M
    <2>1. Sets \in SUBSET (SUBSET Arc) /\ Sets # {}
      OBVIOUS
    <2> HIDE DEF Sets
    <2> QED BY <2>1, OneIsInmost
  <1> DEFINE p == [k \in M |-> CHOOSE j \in M : Sig(j) = Tau(k)]
             I == {p[k] : k \in M}
  <1>2. M \in SUBSET Arc /\ M # {} /\ Behind(M) /\ M \in SUBSET D
    OBVIOUS
  <1>3. \A k \in M : p[k] \in M /\ Sig(p[k]) = Tau(k)
    BY <1>2 DEF Behind
  <1>4. p \in [M -> M]
    BY <1>3
  <1>5. \A j, k \in M : Tau(j) = Tau(k) => p[j] = p[k]
    OBVIOUS
  <1> HIDE DEF p
  <1>6. I \subseteq M /\ I # {}
    BY <1>2, <1>3
  <1>7. Behind(I)
    <2> SUFFICES ASSUME NEW k \in I PROVE \E j \in I : Sig(j) = Tau(k)
      BY DEF Behind
    <2>1. k \in M /\ p[k] \in I
      BY <1>6
    <2> QED BY <2>1, <1>3
  <1>8. I = M
    BY <1>1, <1>6, <1>7
  <1>9. \A k \in M : \E j \in M : p[j] = k
    BY <1>8
  <1>10. \A j, k \in M : p[j] = p[k] => j = k
    BY <1>2, <1>4, <1>9, OntoIsOneToOne
  <1>11. \A j, k \in M : Tau(j) = Tau(k) => j = k
    BY <1>5, <1>10
  <1>12. Closed(M)
    <2>1. \A k \in M : \E j \in M : Tau(j) = Sig(k)
      BY <1>3, <1>9
    <2> QED BY <2>1, <1>2 DEF Closed, Behind
  <1>13. ASSUME NEW E \in SUBSET M, E # {}, Closed(E) PROVE E = M
    <2>1. Behind(E) /\ E \in SUBSET D
      BY <1>2, <1>13 DEF Closed, Behind
    <2> QED BY <2>1, <1>1, <1>13
  <1>14. Simple(M)
    BY <1>2, <1>11, <1>12, <1>13 DEF Simple
  <1> QED BY <1>14, <1>2

LEMMA CycleAhead ==
    ASSUME NEW D \in SUBSET Arc, D # {}, Ahead(D)
    PROVE  \E C \in SUBSET D : Simple(C)
  <1> DEFINE Sets == {E \in SUBSET D : E # {} /\ Ahead(E)}
  <1>1. PICK M \in Sets : \A E \in Sets : E \subseteq M => E = M
    <2>1. Sets \in SUBSET (SUBSET Arc) /\ Sets # {}
      OBVIOUS
    <2> HIDE DEF Sets
    <2> QED BY <2>1, OneIsInmost
  <1> DEFINE p == [k \in M |-> CHOOSE j \in M : Tau(j) = Sig(k)]
             I == {p[k] : k \in M}
  <1>2. M \in SUBSET Arc /\ M # {} /\ Ahead(M) /\ M \in SUBSET D
    OBVIOUS
  <1>3. \A k \in M : p[k] \in M /\ Tau(p[k]) = Sig(k)
    BY <1>2 DEF Ahead
  <1> HIDE DEF p
  <1>6. I \subseteq M /\ I # {}
    BY <1>2, <1>3
  <1>7. Ahead(I)
    <2> SUFFICES ASSUME NEW k \in I PROVE \E j \in I : Tau(j) = Sig(k)
      BY DEF Ahead
    <2>1. k \in M /\ p[k] \in I
      BY <1>6
    <2> QED BY <2>1, <1>3
  <1>8. I = M
    BY <1>1, <1>6, <1>7
  <1>9. Behind(M)
    BY <1>3, <1>8 DEF Behind
  <1>10. \E C \in SUBSET M : Simple(C)
    BY <1>2, <1>9, CycleBehind
  <1> QED BY <1>2, <1>10

\* No two arcs of a simple cycle come to one node either.
LEMMA CycleEntersOnce ==
    ASSUME NEW C \in SUBSET Arc, Simple(C)
    PROVE  \A j, k \in C : Sig(j) = Sig(k) => j = k
  <1> DEFINE p == [k \in C |-> CHOOSE j \in C : Tau(j) = Sig(k)]
  <1>1. Closed(C) /\ \A j, k \in C : Tau(j) = Tau(k) => j = k
    BY DEF Simple
  <1>2. \A k \in C : p[k] \in C /\ Tau(p[k]) = Sig(k)
    BY <1>1 DEF Closed
  <1>3. p \in [C -> C]
    BY <1>2
  <1>4. \A j, k \in C : Sig(j) = Sig(k) => p[j] = p[k]
    OBVIOUS
  <1> HIDE DEF p
  <1>5. ASSUME NEW k \in C PROVE \E j \in C : p[j] = k
    <2>1. PICK j \in C : Sig(j) = Tau(k)
      BY <1>1 DEF Closed
    <2>2. Tau(p[j]) = Tau(k) /\ p[j] \in C
      BY <1>2, <2>1
    <2> QED BY <1>1, <2>2
  <1>6. \A j, k \in C : p[j] = p[k] => j = k
    BY <1>3, <1>5, OntoIsOneToOne
  <1> QED BY <1>4, <1>6

\* The circulation on a cycle is as much as any of its arcs can lose.
LEMMA LeastOf ==
    ASSUME NEW f \in [Arc -> Nat], NEW C \in SUBSET Arc, C # {}
    PROVE  /\ Min({f[k] : k \in C}) \in Nat
           /\ \A j \in C : Min({f[k] : k \in C}) <= f[j]
           /\ \E j \in C : Min({f[k] : k \in C}) = f[j]
  <1> DEFINE Values == {f[k] : k \in C}
  <1>1. Values \in SUBSET Nat /\ Values # {}
    OBVIOUS
  <1>2. \E n \in Values : \A m \in Values : n <= m
    <2> HIDE DEF Values
    <2> QED BY <1>1, OneIsLeast
  <1>3. Min(Values) \in Values /\ \A m \in Values : Min(Values) <= m
    <2> HIDE DEF Values
    <2> QED BY <1>2 DEF Min
  <1> QED BY <1>1, <1>3

\* Without the circulation on a cycle every node is left as much as before.
LEMMA CycleCarriesNothing ==
    ASSUME NEW f \in [Arc -> Nat], NEW C \in SUBSET Arc, Simple(C), NEW d \in Nat,
           \A k \in C : d <= f[k],
           NEW g, g = [k \in Arc |-> IF k \in C THEN f[k] - d ELSE f[k]]
    PROVE  /\ g \in [Arc -> Nat]
           /\ \A k \in Arc : g[k] <= f[k]
           /\ \A n \in Node : Delivery(g, n) = Delivery(f, n)
  <1>1. ASSUME NEW k \in Arc
        PROVE  g[k] \in Nat /\ g[k] <= f[k] /\ g[k] = f[k] + (IF k \in C THEN -d ELSE 0)
    BY <1>1
  <1>2. g \in [Arc -> Nat]
    BY <1>1
  <1>3. ASSUME NEW n \in Node PROVE Delivery(g, n) = Delivery(f, n)
    <2> DEFINE In == {k \in Arc : Sig(k) = n}
               Out == {k \in Arc : Tau(k) = n}
    <2>0. Total(f, In) \in Int /\ Total(f, Out) \in Int
      BY TotalNat
    <2>1. f \in [Arc -> Int] /\ g \in [Arc -> Int] /\ -d \in Int
      BY <1>2
    <2>2. CASE \E j \in C : Tau(j) = n
      <3>1. PICK o \in C : Tau(o) = n
        BY <2>2
      <3>2. PICK i \in C : Sig(i) = n
        BY <3>1 DEF Simple, Closed
      <3>3. \A k \in Arc : k \in In /\ k \in C <=> k = i
        BY <3>2, CycleEntersOnce
      <3>4. \A k \in Arc : k \in Out /\ k \in C <=> k = o
        BY <3>1 DEF Simple
      <3>5. \A k \in Arc : Term(g, In, k) = Term(f, In, k) + (IF k = i THEN -d ELSE 0)
        <4> SUFFICES ASSUME NEW k \in Arc
                     PROVE  Term(g, In, k) = Term(f, In, k) + (IF k = i THEN -d ELSE 0)
          OBVIOUS
        <4>1. k \in In /\ k \in C <=> k = i
          BY <3>3
        <4>2. f[k] \in Int /\ g[k] = f[k] + (IF k \in C THEN -d ELSE 0)
          BY <1>1
        <4> HIDE DEF In
        <4> QED BY <4>1, <4>2 DEF Term
      <3>6. \A k \in Arc : Term(g, Out, k) = Term(f, Out, k) + (IF k = o THEN -d ELSE 0)
        <4> SUFFICES ASSUME NEW k \in Arc
                     PROVE  Term(g, Out, k) = Term(f, Out, k) + (IF k = o THEN -d ELSE 0)
          OBVIOUS
        <4>1. k \in Out /\ k \in C <=> k = o
          BY <3>4
        <4>2. f[k] \in Int /\ g[k] = f[k] + (IF k \in C THEN -d ELSE 0)
          BY <1>1
        <4> HIDE DEF Out
        <4> QED BY <4>1, <4>2 DEF Term
      <3> HIDE DEF In, Out
      <3>7. Total(g, In) = Total(f, In) + (-d)
        BY <2>1, <3>5, TotalOne
      <3>8. Total(g, Out) = Total(f, Out) + (-d)
        BY <2>1, <3>6, TotalOne
      <3>9. Total(g, In) - Total(g, Out) = Total(f, In) - Total(f, Out)
        BY <2>0, <3>7, <3>8
      <3> QED BY <3>9 DEF Delivery, In, Out
    <2>3. CASE ~ \E j \in C : Tau(j) = n
      <3>1. \A k \in C : k \notin In /\ k \notin Out
        BY <2>3 DEF Simple, Closed
      <3>2. \A k \in Arc : Term(g, In, k) = Term(f, In, k)
                        /\ Term(g, Out, k) = Term(f, Out, k)
        BY <3>1, <1>1 DEF Term
      <3> HIDE DEF In, Out
      <3>3. Total(g, In) = Total(f, In) /\ Total(g, Out) = Total(f, Out)
        BY <2>1, <3>2, TotalSame
      <3> QED BY <3>3 DEF Delivery, In, Out
    <2> QED BY <2>2, <2>3
  <1> QED BY <1>1, <1>2, <1>3

----------------------------------------------------------------------------
(* Paths.  What a flow without cycles carries leaves the source, and comes   *)
(* to the destination.                                                      *)

LiveOf(f) == {k \in Arc : f[k] > 0}
NoCycle(L) == \A C \in SUBSET L : ~Simple(C)

\* The nodes arcs L lead to from a seed, and those they lead from to one.
Forward(L, seed) ==
    {n \in Node : \A S \in SUBSET Node :
        (seed \in S /\ \A k \in L : Tau(k) \in S => Sig(k) \in S) => n \in S}
Backward(L, seed) ==
    {n \in Node : \A S \in SUBSET Node :
        (seed \in S /\ \A k \in L : Sig(k) \in S => Tau(k) \in S) => n \in S}

LEMMA ForwardGoesOn ==
    ASSUME NEW L \in SUBSET Arc, NEW seed \in Node
    PROVE  /\ seed \in Forward(L, seed)
           /\ \A k \in L : Tau(k) \in Forward(L, seed) => Sig(k) \in Forward(L, seed)
  BY ArcsTyped DEF Forward

LEMMA BackwardGoesOn ==
    ASSUME NEW L \in SUBSET Arc, NEW seed \in Node
    PROVE  /\ seed \in Backward(L, seed)
           /\ \A k \in L : Sig(k) \in Backward(L, seed) => Tau(k) \in Backward(L, seed)
  BY ArcsTyped DEF Backward

\* At a node that keeps nothing back, something comes in for what goes out; at one
\* that adds nothing, something goes out for what comes in.
LEMMA InForOut ==
    ASSUME NEW f \in [Arc -> Nat], NEW n \in Node, Delivery(f, n) >= 0,
           NEW k \in LiveOf(f), Tau(k) = n
    PROVE  \E j \in LiveOf(f) : Sig(j) = n
  <1> DEFINE In == {j \in Arc : Sig(j) = n}
             Out == {j \in Arc : Tau(j) = n}
  <1>1. k \in Arc \cap Out /\ f[k] > 0 /\ f[k] \in Nat
    BY DEF LiveOf
  <1>2. Total(f, In) - Total(f, Out) >= 0
    BY DEF Delivery
  <1> HIDE DEF In, Out
  <1>3. Total(f, In) \in Nat /\ Total(f, Out) \in Nat
    BY TotalNat
  <1>4. f[k] <= Total(f, Out)
    BY <1>1, TotalNat
  <1>5. Total(f, In) > 0
    BY <1>1, <1>2, <1>3, <1>4
  <1>6. \E j \in Arc \cap In : f[j] > 0
    BY <1>5, TotalNat
  <1> QED BY <1>6 DEF In, LiveOf

LEMMA OutForIn ==
    ASSUME NEW f \in [Arc -> Nat], NEW n \in Node, Delivery(f, n) <= 0,
           NEW k \in LiveOf(f), Sig(k) = n
    PROVE  \E j \in LiveOf(f) : Tau(j) = n
  <1> DEFINE In == {j \in Arc : Sig(j) = n}
             Out == {j \in Arc : Tau(j) = n}
  <1>1. k \in Arc \cap In /\ f[k] > 0 /\ f[k] \in Nat
    BY DEF LiveOf
  <1>2. Total(f, In) - Total(f, Out) <= 0
    BY DEF Delivery
  <1> HIDE DEF In, Out
  <1>3. Total(f, In) \in Nat /\ Total(f, Out) \in Nat
    BY TotalNat
  <1>4. f[k] <= Total(f, In)
    BY <1>1, TotalNat
  <1>5. Total(f, Out) > 0
    BY <1>1, <1>2, <1>3, <1>4
  <1>6. \E j \in Arc \cap Out : f[j] > 0
    BY <1>5, TotalNat
  <1> QED BY <1>6 DEF Out, LiveOf

\* Arcs of a route from one node to another: nothing comes back to the first or leaves
\* the last, something comes to the last, and every arc is on the way.
IsRoute(L, from, to) ==
    /\ NoCycle(L)
    /\ \A k \in L : Tau(k) # to /\ Sig(k) # from
    /\ \E k \in L : Sig(k) = to
    /\ \A k \in L : Tau(k) \in Forward(L, from) /\ Sig(k) \in Backward(L, to)

LEMMA FlowIsRoute ==
    ASSUME NEW f \in [Arc -> Nat], NEW from \in Node, NEW to \in Node,
           Conserves(f, from, to), NoCycle(LiveOf(f))
    PROVE  IsRoute(LiveOf(f), from, to)
  <1> DEFINE L == LiveOf(f)
             In == {j \in Arc : Sig(j) = to}
             Out == {j \in Arc : Tau(j) = to}
  <1>1. L \in SUBSET Arc
    BY DEF LiveOf
  <1>2. /\ Delivery(f, to) > 0
        /\ \A n \in Node : n # from => Delivery(f, n) >= 0
        /\ \A n \in Node : n # to => Delivery(f, n) <= 0
    <2>1. Total(f, In) \in Nat /\ Total(f, Out) \in Nat
      BY TotalNat
    <2>2. Delivery(f, to) \in Int
      BY <2>1 DEF Delivery
    <2> QED BY <2>2 DEF Conserves
  <1>3. ASSUME NEW D \in SUBSET L, Behind(D) PROVE D = {}
    <2>1. D \in SUBSET Arc
      BY <1>1
    <2>2. D # {} => \E C \in SUBSET D : Simple(C)
      BY <2>1, <1>3, CycleBehind
    <2> QED BY <2>2 DEF NoCycle
  <1>4. ASSUME NEW D \in SUBSET L, Ahead(D) PROVE D = {}
    <2>1. D \in SUBSET Arc
      BY <1>1
    <2>2. D # {} => \E C \in SUBSET D : Simple(C)
      BY <2>1, <1>4, CycleAhead
    <2> QED BY <2>2 DEF NoCycle
  <1>5. \A k \in L : Tau(k) \in Node /\ Sig(k) \in Node
    BY <1>1, ArcsTyped
  <1>6. \A k \in L : Tau(k) \in Forward(L, from)
    <2> DEFINE D == {k \in L : Tau(k) \notin Forward(L, from)}
    <2>1. Behind(D)
      <3> SUFFICES ASSUME NEW k \in D PROVE \E j \in D : Sig(j) = Tau(k)
        BY DEF Behind
      <3>1. k \in L /\ Tau(k) # from /\ Tau(k) \notin Forward(L, from)
        BY <1>1, ForwardGoesOn
      <3>2. PICK j \in L : Sig(j) = Tau(k)
        BY <3>1, <1>2, <1>5, InForOut
      <3>3. Tau(j) \notin Forward(L, from)
        BY <3>1, <3>2, <1>1, ForwardGoesOn
      <3> QED BY <3>2, <3>3
    <2> QED BY <2>1, <1>3
  <1>7. \A k \in L : Sig(k) \in Backward(L, to)
    <2> DEFINE D == {k \in L : Sig(k) \notin Backward(L, to)}
    <2>1. Ahead(D)
      <3> SUFFICES ASSUME NEW k \in D PROVE \E j \in D : Tau(j) = Sig(k)
        BY DEF Ahead
      <3>1. k \in L /\ Sig(k) # to /\ Sig(k) \notin Backward(L, to)
        BY <1>1, BackwardGoesOn
      <3>2. PICK j \in L : Tau(j) = Sig(k)
        BY <3>1, <1>2, <1>5, OutForIn
      <3>3. Sig(j) \notin Backward(L, to)
        BY <3>1, <3>2, <1>1, BackwardGoesOn
      <3> QED BY <3>2, <3>3
    <2> QED BY <2>1, <1>4
  <1>8. ASSUME NEW o \in L, Tau(o) = to PROVE FALSE
    <2> DEFINE D == {k \in L : Tau(k) \in Forward(L, to)}
    <2>1. Ahead(D)
      <3> SUFFICES ASSUME NEW k \in D PROVE \E j \in D : Tau(j) = Sig(k)
        BY DEF Ahead
      <3>1. k \in L /\ Sig(k) \in Forward(L, to)
        BY <1>1, ForwardGoesOn
      <3>2. CASE Sig(k) = to
        BY <3>1, <3>2, <1>8
      <3>3. CASE Sig(k) # to
        <4>1. \E j \in L : Tau(j) = Sig(k)
          BY <3>1, <3>3, <1>2, <1>5, OutForIn
        <4> QED BY <4>1, <3>1
      <3> QED BY <3>2, <3>3
    <2>2. o \in D
      BY <1>8, <1>1, ForwardGoesOn
    <2> QED BY <2>1, <2>2, <1>4
  <1>9. ASSUME NEW o \in L, Sig(o) = from PROVE FALSE
    <2> DEFINE D == {k \in L : Sig(k) \in Backward(L, from)}
    <2>1. Behind(D)
      <3> SUFFICES ASSUME NEW k \in D PROVE \E j \in D : Sig(j) = Tau(k)
        BY DEF Behind
      <3>1. k \in L /\ Tau(k) \in Backward(L, from)
        BY <1>1, BackwardGoesOn
      <3>2. CASE Tau(k) = from
        BY <3>1, <3>2, <1>9
      <3>3. CASE Tau(k) # from
        <4>1. \E j \in L : Sig(j) = Tau(k)
          BY <3>1, <3>3, <1>2, <1>5, InForOut
        <4> QED BY <4>1, <3>1
      <3> QED BY <3>2, <3>3
    <2>2. o \in D
      BY <1>9, <1>1, BackwardGoesOn
    <2> QED BY <2>1, <2>2, <1>3
  <1>10. \E k \in L : Sig(k) = to
    <2>1. Total(f, In) - Total(f, Out) > 0
      BY <1>2 DEF Delivery
    <2> HIDE DEF In, Out
    <2>2. Total(f, In) \in Nat /\ Total(f, Out) \in Nat
      BY TotalNat
    <2>3. Total(f, In) > 0
      BY <2>1, <2>2
    <2>4. \E k \in Arc \cap In : f[k] > 0
      BY <2>3, TotalNat
    <2> QED BY <2>4 DEF In, LiveOf
  <1> QED
    BY <1>6, <1>7, <1>8, <1>9, <1>10 DEF IsRoute

\* What is left of a route after pruning is one, when it still arrives.
LEMMA RoutePruned ==
    ASSUME NEW L \in SUBSET Arc, NEW K \in SUBSET L, NEW from, NEW to,
           IsRoute(L, from, to), \E k \in K : Sig(k) = to,
           \A k \in K : Tau(k) \in Forward(K, from) /\ Sig(k) \in Backward(K, to)
    PROVE  IsRoute(K, from, to)
  BY DEF IsRoute, NoCycle

\* The nodes of a route: all but the last pass something on, and the first is one.
LEMMA RouteNodes ==
    ASSUME NEW L \in SUBSET Arc, NEW from \in Node, NEW to \in Node, from # to,
           IsRoute(L, from, to)
    PROVE  /\ \A k \in L : Sig(k) # to => \E j \in L : Tau(j) = Sig(k)
           /\ \E k \in L : Tau(k) = from
           /\ \A k \in L : Tau(k) # from => \E j \in L : Sig(j) = Tau(k)
  <1>1. ASSUME NEW k \in L, Sig(k) # to PROVE \E j \in L : Tau(j) = Sig(k)
    <2> SUFFICES ASSUME \A j \in L : Tau(j) # Sig(k) PROVE FALSE
      OBVIOUS
    <2> DEFINE S == Node \ {Sig(k)}
    <2>1. S \in SUBSET Node /\ to \in S
      BY <1>1
    <2>2. \A j \in L : Tau(j) \in S
      BY ArcsTyped
    <2>3. Sig(k) \in S
      BY <2>1, <2>2 DEF IsRoute, Backward
    <2> QED BY <2>3
  <1>2. \E k \in L : Tau(k) = from
    <2> SUFFICES ASSUME \A j \in L : Tau(j) # from PROVE FALSE
      OBVIOUS
    <2>1. PICK k \in L : Tau(k) \in Forward(L, from)
      BY DEF IsRoute
    <2>2. {from} \in SUBSET Node /\ \A j \in L : Tau(j) \notin {from}
      OBVIOUS
    <2>3. Tau(k) \in {from}
      BY <2>1, <2>2 DEF Forward
    <2> QED BY <2>3
  <1>3. ASSUME NEW k \in L, Tau(k) # from PROVE \E j \in L : Sig(j) = Tau(k)
    <2> SUFFICES ASSUME \A j \in L : Sig(j) # Tau(k) PROVE FALSE
      OBVIOUS
    <2> DEFINE S == Node \ {Tau(k)}
    <2>1. S \in SUBSET Node /\ from \in S
      BY <1>3
    <2>2. \A j \in L : Sig(j) \in S
      BY ArcsTyped
    <2>3. Tau(k) \in S
      BY <2>1, <2>2 DEF IsRoute, Forward
    <2> QED BY <2>3
  <1> QED BY <1>1, <1>2, <1>3

----------------------------------------------------------------------------
(* The flow, from the solver's answer to the nodes still to emit.          *)

SrcNode == NodeOf[Src]

FlowTyped ==
    /\ query \in Queries /\ capped \in Caps
    /\ flow \in [Arc -> Nat] /\ before \in [Arc -> Nat]
    /\ phase \in {"cancel", "prune", "emit", "walk", "done"}

\* Cancelling moves nothing, pruning starts from a route and comes to one, and a node
\* that is still to come has all that it pays into still to come.
FlowInv ==
    /\ FlowTyped
    /\ phase = "cancel" =>
        /\ before \in Flows
        /\ \A k \in Arc : flow[k] <= before[k]
        /\ \A n \in Node : Delivery(flow, n) = Delivery(before, n)
    /\ phase = "prune" =>
        /\ IsRoute(LiveOf(before), SrcNode, DstNode)
        /\ \A k \in Arc : flow[k] > 0 => before[k] > 0
    /\ phase \in {"emit", "walk", "done"} => IsRoute(Live, SrcNode, DstNode)
    /\ phase = "emit" =>
        /\ left \subseteq Nodes
        /\ \A k \in Live : Tau(k) \in left => Sig(k) \in left

LEMMA QueryTyped ==
    ASSUME FlowTyped
    PROVE  /\ Src \in Token /\ Dst \in Token /\ SrcNode \in Node /\ DstNode \in Node
           /\ SrcNode # DstNode
           /\ capped \in SUBSET Arc
  <1>1. query \in [from : Token, to : Token] /\ NodeOf[query.from] # NodeOf[query.to]
    BY RealizeAssumption DEF RealizeAssumption, FlowTyped
  <1>2. capped \in SUBSET Arc
    BY RealizeAssumption DEF RealizeAssumption, FlowTyped
  <1>3. NodeOf \in [Token -> Node]
    BY RealizeAssumption DEF RealizeAssumption
  <1> QED BY <1>1, <1>2, <1>3 DEF Src, Dst, SrcNode, DstNode

LEMMA LiveIs == Live = LiveOf(flow) /\ Live \in SUBSET Arc
  BY DEF Live, LiveOf

LEMMA FlowInvInit == RealizeInit => FlowInv
  <1> SUFFICES ASSUME RealizeInit PROVE FlowInv
    OBVIOUS
  <1>1. flow \in [Arc -> Nat] /\ before = flow
    BY RealizeAssumption DEF RealizeAssumption, RealizeInit
  <1> QED BY <1>1 DEF RealizeInit, FlowInv, FlowTyped

LEMMA CancelKeepsFlow == FlowInv /\ Cancel => FlowInv'
  <1> SUFFICES ASSUME FlowInv, Cancel PROVE FlowInv'
    OBVIOUS
  <1>1. PICK C \in Cycles : flow' = Cancelled(C)
    BY DEF Cancel
  <1>2. C \in SUBSET Arc /\ C # {} /\ Simple(C)
    BY <1>1, LiveIs DEF Cycles, Simple
  <1> DEFINE d == Min({flow[k] : k \in C})
  <1>3. flow \in [Arc -> Nat] /\ before \in [Arc -> Nat]
    BY DEF FlowInv, FlowTyped
  <1>4. d \in Nat /\ \A k \in C : d <= flow[k]
    BY <1>2, <1>3, LeastOf
  <1>5. flow' = [k \in Arc |-> IF k \in C THEN flow[k] - d ELSE flow[k]]
    BY <1>1 DEF Cancelled
  <1> HIDE DEF d
  <1>6. /\ flow' \in [Arc -> Nat]
        /\ \A k \in Arc : flow'[k] <= flow[k]
        /\ \A n \in Node : Delivery(flow', n) = Delivery(flow, n)
    BY <1>2, <1>3, <1>4, <1>5, CycleCarriesNothing
  <1>7. phase = "cancel" /\ phase' = "cancel" /\ before' = before
        /\ query' = query /\ capped' = capped
    BY DEF Cancel
  <1>8. \A k \in Arc : flow'[k] <= before[k]
    <2> SUFFICES ASSUME NEW k \in Arc PROVE flow'[k] <= before[k]
      OBVIOUS
    <2>1. flow'[k] \in Nat /\ flow[k] \in Nat /\ before[k] \in Nat
      BY <1>3, <1>6
    <2>2. flow'[k] <= flow[k] /\ flow[k] <= before[k]
      BY <1>6, <1>7 DEF FlowInv
    <2> QED BY <2>1, <2>2
  <1> QED BY <1>6, <1>7, <1>8 DEF FlowInv, FlowTyped

LEMMA AcyclicKeepsFlow == FlowInv /\ Acyclic => FlowInv'
  <1> SUFFICES ASSUME FlowInv, Acyclic PROVE FlowInv'
    OBVIOUS
  <1>1. /\ phase = "cancel" /\ ~CyclesLeft /\ phase' = "prune" /\ before' = flow
        /\ query' = query /\ capped' = capped /\ flow' = flow
    BY DEF Acyclic
  <1>2. FlowTyped /\ FlowTyped'
    BY <1>1 DEF FlowInv, FlowTyped
  <1>3. NoCycle(LiveOf(flow))
    BY <1>1, LiveIs DEF CyclesLeft, Cycles, NoCycle
  <1>4. Conserves(before, SrcNode, DstNode)
    BY <1>1, <1>2, FlowAssumption DEF FlowInv, FlowTyped, SrcNode, DstNode, Src, Dst
  <1>5. \A n \in Node : Delivery(flow, n) = Delivery(before, n)
    BY <1>1 DEF FlowInv
  <1>6. Conserves(flow, SrcNode, DstNode)
    BY <1>2, <1>4, <1>5, QueryTyped DEF Conserves
  <1>7. IsRoute(LiveOf(flow), SrcNode, DstNode)
    BY <1>2, <1>3, <1>6, FlowIsRoute, QueryTyped DEF FlowTyped
  <1>8. SrcNode' = SrcNode /\ DstNode' = DstNode
    BY <1>1 DEF SrcNode, DstNode, Src, Dst
  <1>9. IsRoute(LiveOf(before'), SrcNode', DstNode')
    BY <1>1, <1>7, <1>8
  <1>10. \A k \in Arc : flow'[k] > 0 => before'[k] > 0
    BY <1>1
  <1> QED BY <1>1, <1>2, <1>9, <1>10 DEF FlowInv

LEMMA PruneKeepsFlow == FlowInv /\ Prune => FlowInv'
  <1> SUFFICES ASSUME FlowInv, Prune PROVE FlowInv'
    OBVIOUS
  <1>1. /\ phase = "prune" /\ phase' = phase /\ before' = before
        /\ query' = query /\ capped' = capped
        /\ flow' = [k \in Arc |-> IF k \in Doomed THEN 0 ELSE flow[k]]
    BY DEF Prune
  <1>2. flow \in [Arc -> Nat] /\ \A k \in Arc : flow[k] > 0 => before[k] > 0
    BY <1>1 DEF FlowInv, FlowTyped
  <1>3. flow' \in [Arc -> Nat] /\ \A k \in Arc : flow'[k] > 0 => before'[k] > 0
    BY <1>1, <1>2
  <1>4. FlowTyped'
    BY <1>1, <1>3 DEF FlowInv, FlowTyped
  <1>5. SrcNode' = SrcNode /\ DstNode' = DstNode
    BY <1>1 DEF SrcNode, DstNode, Src, Dst
  <1>6. IsRoute(LiveOf(before'), SrcNode', DstNode')
    BY <1>1, <1>5 DEF FlowInv
  <1> QED BY <1>1, <1>3, <1>4, <1>6 DEF FlowInv

\* The nodes of a flow all have still to come, and so have those they pay into.
LEMMA NodesAre == Nodes = {NodeOf[TokenIn[k]] : k \in {j \in Arc : flow[j] > 0}}
                    \cup {NodeOf[TokenOut[k]] : k \in {j \in Arc : flow[j] > 0}}
  BY DEF Nodes, Live, Tau, Sig

LEMMA PrunedKeepsFlow == FlowInv /\ Pruned => FlowInv'
  <1> SUFFICES ASSUME FlowInv, Pruned PROVE FlowInv'
    OBVIOUS
  <1>1. /\ phase = "prune" /\ Doomed = {} /\ phase' = "emit" /\ before' = flow'
        /\ flow' = (IF Reaches(flow) THEN flow ELSE before)
        /\ query' = query /\ capped' = capped
    BY DEF Pruned
  <1>2. FlowTyped /\ FlowTyped'
    BY <1>1 DEF FlowInv, FlowTyped
  <1>3. IsRoute(LiveOf(before), SrcNode, DstNode) /\ LiveOf(flow) \in SUBSET LiveOf(before)
    BY <1>1 DEF FlowInv, LiveOf
  <1>4. SrcNode' = SrcNode /\ DstNode' = DstNode /\ SrcNode \in Node /\ DstNode \in Node
    BY <1>1, <1>2, QueryTyped DEF SrcNode, DstNode, Src, Dst
  <1>5. IsRoute(LiveOf(flow'), SrcNode, DstNode)
    <2>1. CASE Reaches(flow)
      <3>1. flow' = flow
        BY <1>1, <2>1
      <3>2. \E k \in LiveOf(flow) : Sig(k) = DstNode
        BY <2>1 DEF Reaches, LiveOf
      <3>3. \A k \in Live : Tau(k) \in Forward(Live, SrcNode)
                         /\ Sig(k) \in Backward(Live, DstNode)
        BY <1>1 DEF Doomed, OnAPath, Sweep, Forward, Backward, SrcNode
      <3>4. LiveOf(before) \in SUBSET Arc
        BY DEF LiveOf
      <3>5. IsRoute(LiveOf(flow), SrcNode, DstNode)
        BY <1>3, <3>2, <3>3, <3>4, LiveIs, RoutePruned
      <3> QED BY <3>1, <3>5
    <2>2. CASE ~Reaches(flow)
      BY <1>1, <1>3, <2>2
    <2> QED BY <2>1, <2>2
  <1>6. IsRoute(Live', SrcNode', DstNode')
    <2>1. Live' = LiveOf(flow')
      BY DEF Live, LiveOf
    <2> QED BY <1>4, <1>5, <2>1
  <1>7. left' = Nodes'
    <2>1. left' = {NodeOf[TokenIn[k]] : k \in {j \in Arc : flow'[j] > 0}}
                    \cup {NodeOf[TokenOut[k]] : k \in {j \in Arc : flow'[j] > 0}}
      BY DEF Pruned
    <2> QED BY <2>1 DEF Nodes, Live, Tau, Sig
  <1>8. \A k \in Live' : Sig(k) \in left'
    BY <1>7 DEF Nodes
  <1> QED BY <1>1, <1>2, <1>6, <1>7, <1>8 DEF FlowInv

\* What a step that leaves the flow alone leaves alone with it.
SameFlow == query' = query /\ capped' = capped /\ flow' = flow /\ before' = before

LEMMA SameFlowSame ==
    ASSUME SameFlow
    PROVE  /\ Live' = Live /\ Nodes' = Nodes /\ SrcNode' = SrcNode /\ DstNode' = DstNode
           /\ Src' = Src /\ Dst' = Dst
           /\ FlowTyped /\ phase' \in {"cancel", "prune", "emit", "walk", "done"} => FlowTyped'
  BY DEF SameFlow, Live, Nodes, SrcNode, DstNode, Src, Dst, FlowTyped

LEMMA EmitKeepsFlow == ASSUME FlowInv, NEW n \in Node, Emit(n) PROVE FlowInv'
  <1>1. SameFlow /\ phase = "emit" /\ phase' = "emit" /\ left' = left \ {n} /\ Due(n)
    BY DEF Emit, SameFlow
  <1>2. FlowTyped'
    BY <1>1, SameFlowSame DEF FlowInv
  <1>3. IsRoute(Live', SrcNode', DstNode')
    BY <1>1, SameFlowSame DEF FlowInv
  <1>4. ASSUME NEW k \in Live, Tau(k) \in left' PROVE Sig(k) \in left'
    <2>1. Sig(k) \in left
      BY <1>1, <1>4 DEF FlowInv
    <2>2. Sig(k) # n
      BY <1>1, <1>4 DEF Due, Entering
    <2> QED BY <1>1, <2>1, <2>2
  <1>5. left' \subseteq Nodes'
    BY <1>1, SameFlowSame DEF FlowInv
  <1> QED BY <1>1, <1>2, <1>3, <1>4, <1>5, SameFlowSame DEF FlowInv

LEMMA FlowInvNext == FlowInv /\ [RealizeNext]_realizeVars => FlowInv'
  <1> SUFFICES ASSUME FlowInv, [RealizeNext]_realizeVars PROVE FlowInv'
    OBVIOUS
  <1>1. ASSUME SameFlow, phase \in {"emit", "walk", "done"}, phase' \in {"walk", "done"}
        PROVE  FlowInv'
    BY <1>1, SameFlowSame DEF FlowInv
  <1>2. CASE EmitTail
    BY <1>2, <1>1 DEF EmitTail, SameFlow
  <1>3. CASE Walk
    BY <1>3, <1>1 DEF Walk, SameFlow
  <1>4. CASE Walked
    BY <1>4, <1>1 DEF Walked, SameFlow
  <1>5. CASE UNCHANGED realizeVars
    <2>1. SameFlow /\ phase' = phase /\ left' = left
      BY <1>5 DEF realizeVars, SameFlow
    <2> QED BY <2>1, SameFlowSame DEF FlowInv, SameFlow, FlowTyped
  <1> QED
    BY <1>2, <1>3, <1>4, <1>5, CancelKeepsFlow, AcyclicKeepsFlow, PruneKeepsFlow,
       PrunedKeepsFlow, EmitKeepsFlow DEF RealizeNext

\* There is always a node to emit next.
LEMMA OneIsDue ==
    ASSUME FlowInv, phase = "emit", left # {}
    PROVE  \E n \in left : Due(n)
  <1> SUFFICES ASSUME \A n \in left : ~Due(n) PROVE FALSE
    OBVIOUS
  <1> DEFINE D == {k \in Live : Tau(k) \in left}
  <1>1. \A n \in left : \E k \in D : Sig(k) = n
    BY DEF Due, Entering
  <1>2. D # {}
    BY <1>1
  <1>3. Behind(D)
    BY <1>1 DEF Behind
  <1>4. \E C \in SUBSET D : Simple(C)
    BY <1>2, <1>3, LiveIs, CycleBehind
  <1>5. NoCycle(Live)
    BY DEF FlowInv, IsRoute
  <1> QED BY <1>4, <1>5 DEF NoCycle

LEMMA FlowInvImpliesRoute == FlowInv => FlowStaysARoute
  <1> SUFFICES ASSUME FlowInv PROVE FlowStaysARoute
    OBVIOUS
  <1>1. ASSUME phase = "cancel"
        PROVE  /\ \A k \in Arc : flow[k] \in 0..before[k]
               /\ \A n \in Node : Delivery(flow, n) = Delivery(before, n)
    BY <1>1 DEF FlowInv, FlowTyped
  <1>2. ASSUME phase = "emit" PROVE Reaches(flow) /\ Live \subseteq OnAPath
    <2>1. IsRoute(Live, SrcNode, DstNode)
      BY <1>2 DEF FlowInv
    <2>2. Reaches(flow)
      BY <2>1 DEF IsRoute, Reaches, Live
    <2>3. Live \subseteq OnAPath
      BY <2>1 DEF IsRoute, OnAPath, Sweep, Forward, Backward, SrcNode
    <2> QED BY <2>2, <2>3
  <1>3. phase = "emit" /\ left # {} => \E n \in left : Due(n)
    BY OneIsDue
  <1> QED BY <1>1, <1>2, <1>3 DEF FlowStaysARoute

THEOREM RouteStays == RealizeSpec => []FlowStaysARoute
  <1>1. RealizeSpec => []FlowInv
    BY FlowInvInit, FlowInvNext, PTL DEF RealizeSpec
  <1> QED
    BY <1>1, FlowInvImpliesRoute, PTL

----------------------------------------------------------------------------
(* Sets put in sequence.                                                   *)

\* A finite set as a sequence holds each member, and nothing else.
LEMMA SetToSeqHolds ==
    ASSUME NEW S, IsFiniteSet(S)
    PROVE  /\ SetToSeq(S) \in [1..Cardinality(S) -> S] /\ Cardinality(S) \in Nat
           /\ \A x \in S : \E i \in 1..Cardinality(S) : SetToSeq(S)[i] = x
  <1>1. Cardinality(S) \in Nat /\ ExistsBijection(1..Cardinality(S), S)
    BY FS_CardinalityType
  <1>2. \E q \in [1..Cardinality(S) -> S] : IsInjective(q)
    BY <1>1 DEF ExistsBijection, Bijection, Injection
  <1>3. SetToSeq(S) \in [1..Cardinality(S) -> S] /\ IsInjective(SetToSeq(S))
    BY <1>2 DEF SetToSeq
  <1>4. SetToSeq(S) \in Injection(1..Cardinality(S), S)
    BY <1>3 DEF Injection
  <1>5. Cardinality(1..Cardinality(S)) = Cardinality(S)
    BY <1>1, FS_Interval
  <1>6. SetToSeq(S) \in Surjection(1..Cardinality(S), S)
    BY <1>4, <1>5, FS_Injection
  <1> QED BY <1>1, <1>3, <1>6 DEF Surjection

\* An order of all the members of S.
OrdersAll(before_, S) ==
    /\ \A x, y, z \in S : <<x, y>> \in before_ /\ <<y, z>> \in before_ => <<x, z>> \in before_
    /\ \A x \in S : <<x, x>> \notin before_
    /\ \A x, y \in S : x # y => <<x, y>> \in before_ \/ <<y, x>> \in before_

InOrder(S, order) ==
    [i \in 1..Cardinality(S) |->
        CHOOSE x \in S : Cardinality({y \in S : <<y, x>> \in order}) = i - 1]

\* A finite set put in order holds each member and nothing else, and all the others come
\* before the last.
LEMMA InOrderHolds ==
    ASSUME NEW S, IsFiniteSet(S), NEW order, OrdersAll(order, S)
    PROVE  /\ InOrder(S, order) \in [1..Cardinality(S) -> S] /\ Cardinality(S) \in Nat
           /\ \A x \in S : \E i \in 1..Cardinality(S) : InOrder(S, order)[i] = x
           /\ \A y \in S : S # {} =>
                 \/ y = InOrder(S, order)[Cardinality(S)]
                 \/ <<y, InOrder(S, order)[Cardinality(S)]>> \in order
  <1> DEFINE N == Cardinality(S)
             Earlier(x) == {y \in S : <<y, x>> \in order}
             place == [x \in S |-> Cardinality(Earlier(x))]
             q == InOrder(S, order)
  <1>1. N \in Nat
    BY FS_CardinalityType
  <1>2. \A x \in S : place[x] = Cardinality(Earlier(x))
    OBVIOUS
  <1>3. \A x \in S : IsFiniteSet(Earlier(x)) /\ Cardinality(Earlier(x)) \in Nat
    <2> SUFFICES ASSUME NEW x \in S
                 PROVE  IsFiniteSet(Earlier(x)) /\ Cardinality(Earlier(x)) \in Nat
      OBVIOUS
    <2>1. Earlier(x) \in SUBSET S
      OBVIOUS
    <2> HIDE DEF Earlier
    <2> QED BY <2>1, FS_Subset, FS_CardinalityType
  <1>4. \A x \in S : place[x] \in 0..N - 1
    <2> SUFFICES ASSUME NEW x \in S PROVE place[x] \in 0..N - 1
      OBVIOUS
    <2>1. Earlier(x) \in SUBSET S /\ Earlier(x) # S
      BY DEF OrdersAll
    <2> HIDE DEF Earlier
    <2>2. Cardinality(Earlier(x)) <= N /\ Cardinality(Earlier(x)) # N
      BY <2>1, FS_Subset
    <2> QED BY <2>2, <1>1, <1>2, <1>3
  <1>5. ASSUME NEW x \in S, NEW z \in S, <<x, z>> \in order PROVE place[x] < place[z]
    <2>1. Earlier(x) \in SUBSET Earlier(z) /\ x \in Earlier(z) /\ x \notin Earlier(x)
      BY <1>5 DEF OrdersAll
    <2> HIDE DEF Earlier
    <2>2. /\ Cardinality(Earlier(x)) <= Cardinality(Earlier(z))
          /\ Cardinality(Earlier(x)) # Cardinality(Earlier(z))
      BY <2>1, <1>3, FS_Subset
    <2> QED BY <2>2, <1>2, <1>3
  <1>6. \A x, y \in S : place[x] = place[y] => x = y
    <2> SUFFICES ASSUME NEW x \in S, NEW y \in S, place[x] = place[y], x # y PROVE FALSE
      OBVIOUS
    <2>1. <<x, y>> \in order \/ <<y, x>> \in order
      BY DEF OrdersAll
    <2>2. place[x] \in Nat /\ place[y] \in Nat
      BY <1>2, <1>3
    <2> HIDE DEF place
    <2> QED BY <2>1, <2>2, <1>5
  <1> HIDE DEF place
  <1>7. place \in Injection(S, 0..N - 1)
    <2>1. place \in [S -> 0..N - 1]
      BY <1>4 DEF place
    <2> QED BY <1>6, <2>1 DEF Injection, IsInjective
  <1>8. IsFiniteSet(0..N - 1) /\ Cardinality(0..N - 1) = N
    BY <1>1, FS_Interval
  <1>9. place \in Surjection(S, 0..N - 1)
    BY <1>7, <1>8, FS_Injection
  <1>10. \A i \in 1..N : i - 1 \in 0..N - 1
    BY <1>1
  <1>11. \A i \in 1..N : \E x \in S : place[x] = i - 1
    BY <1>9, <1>10 DEF Surjection
  <1>12. q = [i \in 1..N |-> CHOOSE x \in S : Cardinality(Earlier(x)) = i - 1]
    BY DEF InOrder
  <1> HIDE DEF Earlier, q, N
  <1>13. \A i \in 1..N : q[i] \in S /\ place[q[i]] = i - 1
    <2> SUFFICES ASSUME NEW i \in 1..N PROVE q[i] \in S /\ place[q[i]] = i - 1
      OBVIOUS
    <2>1. \E x \in S : Cardinality(Earlier(x)) = i - 1
      BY <1>2, <1>11
    <2>2. q[i] = CHOOSE x \in S : Cardinality(Earlier(x)) = i - 1
      BY <1>12
    <2>3. q[i] \in S /\ Cardinality(Earlier(q[i])) = i - 1
      BY <2>1, <2>2
    <2> QED BY <2>3, <1>2
  <1>14. q \in [1..N -> S]
    BY <1>12, <1>13
  <1>15. ASSUME NEW x \in S PROVE \E i \in 1..N : q[i] = x
    <2>1. place[x] + 1 \in 1..N /\ (place[x] + 1) - 1 = place[x]
      BY <1>1, <1>4
    <2>2. place[q[place[x] + 1]] = place[x] /\ q[place[x] + 1] \in S
      BY <2>1, <1>13
    <2>3. q[place[x] + 1] = x
      BY <2>2, <1>6
    <2> QED BY <2>1, <2>3
  <1>16. ASSUME NEW y \in S, S # {} PROVE y = q[N] \/ <<y, q[N]>> \in order
    <2>1. N # 0
      BY <1>16, FS_EmptySet DEF N
    <2>2. N \in 1..N
      BY <1>1, <2>1
    <2>3. q[N] \in S /\ place[q[N]] = N - 1
      BY <2>2, <1>13
    <2>4. ASSUME <<q[N], y>> \in order PROVE FALSE
      <3>1. N - 1 < place[y] /\ place[y] \in 0..N - 1
        BY <1>4, <1>5, <2>3, <2>4
      <3> QED BY <1>1, <3>1
    <2> QED BY <2>3, <2>4, <1>16 DEF OrdersAll
  <1> QED BY <1>1, <1>14, <1>15, <1>16 DEF q, N

\* Sequences of sequences, one after another: what is in the whole is in one of them.
Gathers(whole, seqs, N) ==
    /\ \A j \in 1..Len(whole) :
          \E i \in 1..N : \E h \in 1..Len(seqs[i]) : whole[j] = seqs[i][h]
    /\ \A i \in 1..N : \A h \in 1..Len(seqs[i]) :
          \E j \in 1..Len(whole) : whole[j] = seqs[i][h]

LEMMA FlattenHolds ==
    ASSUME NEW T, NEW N \in Nat, NEW seqs \in [1..N -> Seq(T)]
    PROVE  FlattenSeq(seqs) \in Seq(T) /\ Gathers(FlattenSeq(seqs), seqs, N)
  <1>1. Len(seqs) = N /\ seqs \in Seq(Seq(T))
    OBVIOUS
  <1>2. CASE N = 0
    <2>1. FlattenSeq(seqs) = seqs /\ seqs = <<>>
      BY <1>1, <1>2 DEF FlattenSeq
    <2> QED BY <1>2, <2>1 DEF Gathers
  <1>3. CASE N # 0
    <2> DEFINE Body(u) == [i \in 1..N |-> IF i = 1 THEN seqs[i] ELSE u[i - 1] \o seqs[i]]
               whole == CHOOSE u : u = Body(u)
               step == [i \in 1..N |-> [s \in Seq(T) |-> s \o seqs[i]]]
    <2>1. FlattenSeq(seqs) = whole[N]
      BY <1>1, <1>3 DEF FlattenSeq
    <2>2. \A i \in 1..N : seqs[i] \in Seq(T)
      OBVIOUS
    <2>3. step \in [1..N -> [Seq(T) -> Seq(T)]]
      BY <2>2
    <2>4. PICK g \in [0..N -> Seq(T)] : Iterates(g, N, <<>>, step)
      <3> HIDE DEF step
      <3>1. <<>> \in Seq(T)
        OBVIOUS
      <3> QED BY <2>3, <3>1, Iteration
    <2>5. \A i \in 1..N : i - 1 \in 0..N /\ i \in 0..N /\ (i # 1 => i - 1 \in 1..N)
      OBVIOUS
    <2>6. ASSUME NEW i \in 1..N PROVE g[i] = g[i - 1] \o seqs[i]
      <3>1. g[i] = step[i][g[i - 1]] /\ g[i - 1] \in Seq(T)
        BY <2>4, <2>5 DEF Iterates
      <3> QED BY <3>1
    <2> HIDE DEF step
    <2> DEFINE u0 == [i \in 1..N |-> g[i]]
    <2>7. u0 = Body(u0)
      <3> SUFFICES ASSUME NEW i \in 1..N
                   PROVE  g[i] = IF i = 1 THEN seqs[i] ELSE u0[i - 1] \o seqs[i]
        OBVIOUS
      <3>1. CASE i = 1
        <4>0. g[0] = <<>> /\ 1 \in 1..N /\ 1 - 1 = 0
          BY <3>1, <2>4 DEF Iterates
        <4>1. g[1] = <<>> \o seqs[1]
          BY <4>0, <2>6
        <4>2. <<>> \o seqs[1] = seqs[1]
          BY <2>2, <3>1
        <4> QED BY <3>1, <4>1, <4>2
      <3>2. CASE i # 1
        BY <3>2, <2>5, <2>6
      <3> QED BY <3>1, <3>2
    <2>8. whole = Body(whole)
      <3> HIDE DEF u0, Body
      <3> QED BY <2>7
    <2> HIDE DEF whole
    <2>9. \A i \in 1..N : whole[i] = IF i = 1 THEN seqs[i] ELSE whole[i - 1] \o seqs[i]
      BY <2>8
    <2> DEFINE Holds(s, i) ==
                  /\ s \in Seq(T)
                  /\ \A j \in 1..Len(s) :
                        \E o \in 1..i : \E h \in 1..Len(seqs[o]) : s[j] = seqs[o][h]
                  /\ \A o \in 1..i : \A h \in 1..Len(seqs[o]) :
                        \E j \in 1..Len(s) : s[j] = seqs[o][h]
               Good == {i \in 0..N : i # 0 => Holds(whole[i], i)}
    <2> HIDE DEF Body
    <2>10. 0 \in Good
      OBVIOUS
    <2>11. ASSUME NEW i \in 1..N, i - 1 \in Good PROVE i \in Good
      <3>1. CASE i = 1
        <4>1. whole[1] = seqs[1] /\ seqs[1] \in Seq(T)
          BY <2>2, <2>9, <3>1
        <4>2. 1..1 = {1}
          OBVIOUS
        <4>3. Holds(whole[1], 1)
          BY <4>1, <4>2
        <4> HIDE DEF Holds
        <4> QED BY <3>1, <4>3
      <3>2. CASE i # 1
        <4>1. i - 1 \in 1..N /\ whole[i] = whole[i - 1] \o seqs[i] /\ seqs[i] \in Seq(T)
          BY <2>2, <2>5, <2>9, <3>2
        <4>2. Holds(whole[i - 1], i - 1)
          <5> HIDE DEF Holds
          <5> QED BY <2>11, <4>1
        <4> DEFINE s == whole[i - 1]
                   r == seqs[i]
        <4>3. s \in Seq(T) /\ r \in Seq(T) /\ whole[i] = s \o r
          BY <4>1, <4>2
        <4> HIDE DEF s, r
        <4>4. /\ s \o r \in Seq(T) /\ Len(s \o r) = Len(s) + Len(r)
              /\ Len(s) \in Nat /\ Len(r) \in Nat
              /\ \A j \in 1..Len(s) : (s \o r)[j] = s[j]
              /\ \A j \in 1..Len(r) : (s \o r)[Len(s) + j] = r[j]
          BY <4>3
        <4>5. \A j \in 1..Len(s) + Len(r) :
                 j \in 1..Len(s) \/ (j - Len(s) \in 1..Len(r) /\ Len(s) + (j - Len(s)) = j)
          BY <4>4
        <4>6. \A o \in 1..i : o \in 1..i - 1 \/ o = i
          OBVIOUS
        <4>7. \A o \in 1..i - 1 : o \in 1..i
          OBVIOUS
        <4>8. ASSUME NEW j \in 1..Len(s \o r)
              PROVE  \E o \in 1..i : \E h \in 1..Len(seqs[o]) : (s \o r)[j] = seqs[o][h]
          <5>1. CASE j \in 1..Len(s)
            <6>1. \E o \in 1..i - 1 : \E h \in 1..Len(seqs[o]) : s[j] = seqs[o][h]
              BY <4>2, <5>1 DEF s
            <6> QED BY <6>1, <4>4, <4>7, <5>1
          <5>2. CASE j - Len(s) \in 1..Len(r) /\ Len(s) + (j - Len(s)) = j
            <6>1. (s \o r)[j] = r[j - Len(s)] /\ i \in 1..i
              BY <4>4, <5>2
            <6> QED BY <6>1, <5>2 DEF r
          <5> QED BY <4>4, <4>5, <5>1, <5>2
        <4>9. ASSUME NEW o \in 1..i, NEW h \in 1..Len(seqs[o])
              PROVE  \E j \in 1..Len(s \o r) : (s \o r)[j] = seqs[o][h]
          <5>1. CASE o \in 1..i - 1
            <6>1. \E j \in 1..Len(s) : s[j] = seqs[o][h]
              BY <4>2, <5>1 DEF s
            <6>2. \A j \in 1..Len(s) : j \in 1..Len(s \o r)
              BY <4>4
            <6> QED BY <6>1, <6>2, <4>4
          <5>2. CASE o = i
            <6>1. h \in 1..Len(r) /\ (s \o r)[Len(s) + h] = r[h]
              BY <4>4, <5>2 DEF r
            <6>2. Len(s) + h \in 1..Len(s \o r)
              BY <4>4, <6>1
            <6> QED BY <6>1, <6>2, <5>2 DEF r
          <5> QED BY <4>6, <5>1, <5>2
        <4>10. Holds(s \o r, i)
          BY <4>4, <4>8, <4>9
        <4> HIDE DEF Holds
        <4>11. Holds(whole[i], i)
          BY <4>3, <4>10
        <4> QED BY <4>11, <2>5
      <3> QED BY <3>1, <3>2
    <2>12. \A i \in 0..N : i \in Good
      <3> HIDE DEF Good
      <3> QED BY <2>10, <2>11, UpTo
    <2>13. Holds(whole[N], N)
      <3> HIDE DEF Holds
      <3> QED BY <1>3, <2>12
    <2>14. whole[N] \in Seq(T) /\ Gathers(whole[N], seqs, N)
      BY <2>13 DEF Gathers
    <2> QED BY <2>1, <2>14
  <1> QED BY <1>2, <1>3

----------------------------------------------------------------------------
(* What a node holds, and what it does with it.                            *)

LegType == [arc : 0..Arcs, in : Token, out : Token, src : Token, dst : Token, bps : 0..BPS]

LEMMA TokensTyped ==
    /\ NodeOf \in [Token -> Node] /\ Canonical \in [Node -> Token]
    /\ Rate \in [Token -> Nat \ {0}] /\ Alias \subseteq Token
    /\ BPS \in Nat /\ BPS > 1 /\ Unit \in Nat
    /\ \A n \in Node : NodeOf[Canonical[n]] = n /\ Canonical[n] \notin Alias
    /\ \A t \in Token : Rate[t] <= Unit
  BY RealizeAssumption, UnitAssumption DEF RealizeAssumption

LEMMA SlotIs ==
    ASSUME NEW t \in Token
    PROVE  /\ Slot(t) \in Token /\ NodeOf[Slot(t)] = NodeOf[t]
           /\ Slot(t) = t \/ Slot(t) = Canonical[NodeOf[t]]
           /\ \A n \in Node : Slot(Canonical[n]) = Canonical[n]
  <1>1. NodeOf[t] \in Node
    BY TokensTyped
  <1> QED BY <1>1, TokensTyped DEF Slot

\* The values of a function on a finite set.
LEMMA ImageFinite ==
    ASSUME NEW S, IsFiniteSet(S), NEW f, DOMAIN f = S, f = [x \in S |-> f[x]]
    PROVE  IsFiniteSet({f[x] : x \in S})
  <1> DEFINE T == {f[x] : x \in S}
  <1>1. f \in Surjection(S, T)
    BY DEF Surjection
  <1> HIDE DEF T
  <1>2. IsFiniteSet(T)
    BY <1>1, FS_Surjection
  <1> QED BY <1>2 DEF T

LEMMA LeavingIs ==
    ASSUME NEW n
    PROVE  /\ Leaving(n) \in SUBSET Live /\ Leaving(n) \in SUBSET Arc /\ IsFiniteSet(Leaving(n))
           /\ Entering(n) \in SUBSET Live /\ Entering(n) \in SUBSET Arc
           /\ IsFiniteSet(Entering(n))
           /\ \A k \in Leaving(n) : TokenIn[k] \in Token /\ TokenOut[k] \in Token
                 /\ NodeOf[TokenIn[k]] = n /\ NodeOf[TokenOut[k]] = Sig(k)
           /\ \A k \in Entering(n) : TokenOut[k] \in Token /\ NodeOf[TokenOut[k]] = n
  <1>1. Leaving(n) \in SUBSET Arc /\ Entering(n) \in SUBSET Arc
    BY LiveIs DEF Leaving, Entering
  <1>2. IsFiniteSet(Leaving(n)) /\ IsFiniteSet(Entering(n))
    BY <1>1, ArcsTyped, FS_Subset
  <1>3. \A k \in Leaving(n) : TokenIn[k] \in Token /\ TokenOut[k] \in Token
                 /\ NodeOf[TokenIn[k]] = n /\ NodeOf[TokenOut[k]] = Sig(k)
    BY <1>1, ArcsTyped DEF Leaving, Tau, Sig
  <1>4. \A k \in Entering(n) : TokenOut[k] \in Token /\ NodeOf[TokenOut[k]] = n
    BY <1>1, ArcsTyped DEF Entering, Sig
  <1> QED BY <1>1, <1>2, <1>3, <1>4 DEF Leaving, Entering

LEMMA TokensAtNode ==
    ASSUME FlowTyped, NEW n \in Node
    PROVE  /\ IsFiniteSet(Arriving(n)) /\ IsFiniteSet(Wanted(n))
           /\ \A t \in Arriving(n) \cup Wanted(n) : t \in Token /\ NodeOf[t] = n
  <1>1. IsFiniteSet(Wanted(n))
    <2> DEFINE f == [k \in Leaving(n) |-> TokenIn[k]]
    <2>1. {f[k] : k \in Leaving(n)} = Wanted(n)
      BY DEF Wanted
    <2>2. DOMAIN f = Leaving(n) /\ f = [k \in Leaving(n) |-> f[k]]
      OBVIOUS
    <2> HIDE DEF f
    <2> QED BY <2>1, <2>2, LeavingIs, ImageFinite
  <1>2. IsFiniteSet(Arriving(n))
    <2> DEFINE f == [k \in Entering(n) |-> TokenOut[k]]
               own == IF n = NodeOf[Src] THEN {Src} ELSE {}
    <2>1. {f[k] : k \in Entering(n)} \cup own = Arriving(n)
      BY DEF Arriving
    <2>2. DOMAIN f = Entering(n) /\ f = [k \in Entering(n) |-> f[k]]
      OBVIOUS
    <2>3. IsFiniteSet(own)
      BY FS_Singleton, FS_EmptySet
    <2> HIDE DEF f, own
    <2>4. IsFiniteSet({f[k] : k \in Entering(n)})
      BY <2>2, LeavingIs, ImageFinite
    <2> QED BY <2>1, <2>3, <2>4, FS_Union
  <1>3. \A t \in Arriving(n) : t \in Token /\ NodeOf[t] = n
    BY LeavingIs, QueryTyped DEF Arriving
  <1>4. \A t \in Wanted(n) : t \in Token /\ NodeOf[t] = n
    BY LeavingIs DEF Wanted
  <1> QED BY <1>1, <1>2, <1>3, <1>4

LEMMA HubIs ==
    ASSUME FlowTyped, NEW n \in Node
    PROVE  /\ Hub(n) \in Token /\ NodeOf[Hub(n)] = n
           /\ \/ Hub(n) = Canonical[n]
              \/ n # DstNode /\ Wanted(n) = {Hub(n)}
                 /\ Arriving(n) \subseteq {Hub(n), Canonical[n]}
  <1>1. CASE /\ n # DstNode /\ Cardinality(Wanted(n)) = 1
             /\ Arriving(n) \subseteq Wanted(n) \cup {Canonical[n]}
    <2>1. PICK t : Wanted(n) = {t}
      BY <1>1, TokensAtNode, FS_Singleton
    <2>2. Hub(n) = t
      BY <1>1, <2>1 DEF Hub
    <2> QED BY <1>1, <2>1, <2>2, TokensAtNode
  <1>2. CASE ~ (/\ n # DstNode /\ Cardinality(Wanted(n)) = 1
                /\ Arriving(n) \subseteq Wanted(n) \cup {Canonical[n]})
    <2>1. Hub(n) = Canonical[n]
      BY <1>2 DEF Hub
    <2> QED BY <2>1, TokensTyped
  <1> QED BY <1>1, <1>2

LEMMA DstHub == Hub(DstNode) = Canonical[DstNode]
  BY DEF Hub

\* What is folded in was in another slot than the hub's.
LEMMA FoldedIs ==
    ASSUME FlowTyped, NEW n \in Node, NEW t \in Folded(n)
    PROVE  /\ t \in Arriving(n) /\ t \in Token /\ NodeOf[t] = n
           /\ Slot(t) = t /\ t # Slot(Hub(n))
           /\ Leaving(n) # {} \/ (n = DstNode /\ t # Dst)
  <1>1. /\ t \in Arriving(n) /\ t # Hub(n)
        /\ Leaving(n) # {} \/ (n = DstNode /\ t # Dst)
        /\ (IF t = Canonical[n] THEN Hub(n) ELSE t) \notin Alias
    BY DEF Folded
  <1>2. t \in Token /\ NodeOf[t] = n
    BY <1>1, TokensAtNode
  <1>3. Slot(t) = t /\ t # Slot(Hub(n))
    <2>1. CASE t = Canonical[n]
      BY <1>1, <2>1, TokensTyped DEF Slot
    <2>2. CASE t # Canonical[n]
      BY <1>1, <2>2, HubIs DEF Slot
    <2> QED BY <2>1, <2>2
  <1> QED BY <1>1, <1>2, <1>3

\* Of what arrives, all is in the hub's slot, or folded into it, but for the token asked
\* for at the destination.
LEMMA ArrivesAtHub ==
    ASSUME FlowTyped, NEW n \in Node, NEW t \in Arriving(n), Leaving(n) # {} \/ n = DstNode
    PROVE  Slot(t) = Slot(Hub(n)) \/ t \in Folded(n) \/ (n = DstNode /\ t = Dst)
  <1> SUFFICES ASSUME t # Hub(n), t \notin Folded(n), ~(n = DstNode /\ t = Dst)
               PROVE  Slot(t) = Slot(Hub(n))
    OBVIOUS
  <1>1. (IF t = Canonical[n] THEN Hub(n) ELSE t) \in Alias
    BY DEF Folded
  <1>2. t \in Token /\ NodeOf[t] = n /\ Hub(n) \in Token /\ NodeOf[Hub(n)] = n
    BY TokensAtNode, HubIs
  <1>3. CASE t = Canonical[n]
    BY <1>1, <1>2, <1>3, TokensTyped DEF Slot
  <1>4. CASE t # Canonical[n]
    <2>1. Hub(n) = Canonical[n]
      BY <1>4, HubIs
    <2> QED BY <1>1, <1>2, <1>4, <2>1, TokensTyped DEF Slot
  <1> QED BY <1>3, <1>4

LEMMA FoldHolds ==
    ASSUME FlowTyped, NEW n \in Node
    PROVE  /\ Fold(n) \in Seq(LegType)
           /\ \A i \in 1..Len(Fold(n)) :
                 \E t \in Folded(n) : Fold(n)[i] = Convert(t, Hub(n), 0)
           /\ \A t \in Folded(n) :
                 \E i \in 1..Len(Fold(n)) : Fold(n)[i] = Convert(t, Hub(n), 0)
  <1> DEFINE tokens == SetToSeq(Folded(n))
             N == Cardinality(Folded(n))
  <1>1. IsFiniteSet(Folded(n))
    <2>1. Folded(n) \in SUBSET Arriving(n)
      BY DEF Folded
    <2> QED BY <2>1, TokensAtNode, FS_Subset
  <1>2. /\ tokens \in [1..N -> Folded(n)] /\ N \in Nat
        /\ \A t \in Folded(n) : \E i \in 1..N : tokens[i] = t
    BY <1>1, SetToSeqHolds
  <1>3. Fold(n) = [i \in 1..Len(tokens) |-> Convert(tokens[i], Hub(n), 0)]
    BY DEF Fold
  <1> HIDE DEF tokens, N
  <1>4. Len(tokens) = N
    BY <1>2
  <1>5. \A t \in Folded(n) : Convert(t, Hub(n), 0) \in LegType
    BY FoldedIs, HubIs, SlotIs, TokensTyped, ArcsTyped DEF Convert, LegType
  <1>6. \A i \in 1..N : tokens[i] \in Folded(n)
    BY <1>2
  <1>7. Fold(n) \in [1..N -> LegType]
    BY <1>3, <1>4, <1>5, <1>6
  <1>8. Fold(n) \in Seq(LegType) /\ Len(Fold(n)) = N
    BY <1>2, <1>7
  <1>9. \A i \in 1..N : Fold(n)[i] = Convert(tokens[i], Hub(n), 0)
    BY <1>3, <1>4
  <1> QED BY <1>2, <1>6, <1>8, <1>9

----------------------------------------------------------------------------
(* Amounts drawn, and shares of them.                                      *)

LEMMA DeltasAre ==
    ASSUME FlowTyped
    PROVE  /\ Delta \in [Arc -> Nat]
           /\ \A K : Deltas(K) \in Nat
           /\ \A K : \A k \in Live \cap K : Deltas(K) > 0
  <1>1. \A m \in Nat, d \in Nat \ {0} : m \div d \in Nat
    BY SMT
  <1>2. ASSUME NEW k \in Arc PROVE (flow[k] * Unit) \div Rate[TokenIn[k]] \in Nat
    <2>1. flow[k] * Unit \in Nat
      BY TokensTyped DEF FlowTyped
    <2>2. Rate[TokenIn[k]] \in Nat \ {0}
      BY TokensTyped, ArcsTyped
    <2> QED BY <1>1, <2>1, <2>2
  <1>3. Delta \in [Arc -> Nat]
    BY <1>2 DEF Delta
  <1>4. \A K : Deltas(K) \in Nat
    BY <1>3, TotalNat DEF Deltas
  <1>5. ASSUME NEW K, NEW k \in Live \cap K PROVE Deltas(K) > 0
    <2>1. k \in Arc /\ flow[k] \in Nat /\ flow[k] > 0
      BY DEF Live, FlowTyped
    <2>2. Rate[TokenIn[k]] \in Nat \ {0} /\ Rate[TokenIn[k]] <= Unit /\ Unit \in Nat
      BY <2>1, TokensTyped, ArcsTyped
    <2>3. \A f, u, r \in Nat : f > 0 /\ r > 0 /\ r <= u => (f * u) \div r > 0
      <3> SUFFICES ASSUME NEW f \in Nat, NEW u \in Nat, NEW r \in Nat, f > 0, r > 0, r <= u
                   PROVE  (f * u) \div r > 0
        OBVIOUS
      <3>1. f * u >= u
        BY SMT
      <3>2. f * u \in Nat
        OBVIOUS
      <3>3. \A m \in Nat : m >= r => m \div r > 0
        BY SMT
      <3> QED BY <3>1, <3>2, <3>3
    <2>4. Delta[k] > 0
      BY <2>1, <2>2, <2>3 DEF Delta
    <2>5. Delta[k] <= Deltas(K) /\ Delta[k] \in Nat
      BY <1>3, <2>1, TotalNat DEF Deltas
    <2> QED BY <1>4, <2>4, <2>5
  <1> QED BY <1>3, <1>4, <1>5

LEMMA ShareIs ==
    ASSUME NEW part \in Nat, NEW whole \in Nat, whole > 0
    PROVE  Share(part, whole) \in 1..BPS - 1
  <1> DEFINE v == Rounded(BPS * part, whole)
             low == Min({BPS - 1, v})
  <1>1. v \in Nat
    <2> DEFINE over == BPS * part
               up == (2 * over + whole) \div (2 * whole)
    <2>1. over \in Nat
      BY TokensTyped
    <2>2. v = IF 2 * over + whole = 2 * whole * up /\ up % 2 = 1 THEN up - 1 ELSE up
      BY DEF Rounded
    <2> HIDE DEF over, v
    <2>3. 2 * over + whole \in Nat /\ 2 * whole \in Nat \ {0}
      BY <2>1
    <2>4. \A m \in Nat, d \in Nat \ {0} : m \div d \in Nat
      BY SMT
    <2>5. up \in Nat
      BY <2>3, <2>4
    <2> HIDE DEF up
    <2>6. CASE 2 * over + whole = 2 * whole * up /\ up % 2 = 1
      <3>1. v = up - 1
        BY <2>2, <2>6
      <3>2. up # 0
        BY <2>6
      <3> QED BY <2>5, <3>1, <3>2
    <2>7. CASE ~(2 * over + whole = 2 * whole * up /\ up % 2 = 1)
      BY <2>2, <2>5, <2>7
    <2> QED BY <2>6, <2>7
  <1>2. Share(part, whole) = Max({1, low})
    BY DEF Share
  <1> HIDE DEF v
  <1>3. BPS - 1 \in Nat \ {0}
    BY TokensTyped
  <1>4. low \in {BPS - 1, v} /\ low <= BPS - 1 /\ low \in Nat
    <2>1. \E x \in {BPS - 1, v} : \A y \in {BPS - 1, v} : x <= y
      BY <1>1, <1>3
    <2> QED BY <1>1, <1>3, <2>1 DEF Min
  <1> HIDE DEF low
  <1>5. Max({1, low}) \in {1, low} /\ Max({1, low}) >= 1
    <2>1. \E x \in {1, low} : \A y \in {1, low} : x >= y
      BY <1>4
    <2> QED BY <1>4, <2>1 DEF Max
  <1> DEFINE m == Max({1, low})
  <1>6. m \in 1..BPS - 1
    <2>1. m \in {1, low} /\ m >= 1
      BY <1>5
    <2> HIDE DEF m
    <2> QED BY <2>1, <1>3, <1>4, TokensTyped
  <1> QED BY <1>2, <1>6

----------------------------------------------------------------------------
(* The takers of a node's hub, and the arcs of a filled slot, in order.    *)

LEMMA LexOrders ==
    ASSUME NEW S, NEW a \in [S -> Int], NEW b \in [S -> Int], NEW c \in [S -> Int],
           \A x, y \in S : c[x] = c[y] => x = y, NEW order,
           \A x, y \in S : <<x, y>> \in order <=>
              \/ a[x] < a[y]
              \/ a[x] = a[y] /\ b[x] < b[y]
              \/ a[x] = a[y] /\ b[x] = b[y] /\ c[x] < c[y]
    PROVE  OrdersAll(order, S)
  <1>1. \A x \in S : a[x] \in Int /\ b[x] \in Int /\ c[x] \in Int
    OBVIOUS
  <1>2. ASSUME NEW x \in S, NEW y \in S, NEW z \in S,
               <<x, y>> \in order, <<y, z>> \in order
        PROVE  <<x, z>> \in order
    <2>1. /\ \/ a[x] < a[y]
             \/ a[x] = a[y] /\ b[x] < b[y]
             \/ a[x] = a[y] /\ b[x] = b[y] /\ c[x] < c[y]
          /\ \/ a[y] < a[z]
             \/ a[y] = a[z] /\ b[y] < b[z]
             \/ a[y] = a[z] /\ b[y] = b[z] /\ c[y] < c[z]
      BY <1>2
    <2>2. \/ a[x] < a[z]
          \/ a[x] = a[z] /\ b[x] < b[z]
          \/ a[x] = a[z] /\ b[x] = b[z] /\ c[x] < c[z]
      BY <1>1, <2>1
    <2> QED BY <2>2
  <1>3. \A x \in S : <<x, x>> \notin order
    BY <1>1
  <1>4. ASSUME NEW x \in S, NEW y \in S, x # y
        PROVE  <<x, y>> \in order \/ <<y, x>> \in order
    <2>1. c[x] # c[y]
      BY <1>4
    <2>2. \/ a[x] < a[y] \/ a[y] < a[x]
          \/ a[x] = a[y] /\ (b[x] < b[y] \/ b[y] < b[x])
          \/ a[x] = a[y] /\ b[x] = b[y] /\ (c[x] < c[y] \/ c[y] < c[x])
      BY <1>1, <2>1
    <2> QED BY <2>2
  <1> QED BY <1>2, <1>3, <1>4 DEF OrdersAll

LEMMA LeastArc ==
    ASSUME NEW K \in SUBSET Arc, K # {}
    PROVE  Min(K) \in K /\ Min(K) \in Nat
  <1>1. K \in SUBSET Nat
    BY ArcsTyped
  <1>2. \E n \in K : \A m \in K : n <= m
    BY <1>1, OneIsLeast
  <1> QED BY <1>1, <1>2 DEF Min

OnHub(n, k) == Slot(TokenIn[k]) = Slot(Hub(n))

LEMMA ItemsAre ==
    ASSUME NEW n
    PROVE  /\ IsFiniteSet(Items(n))
           /\ \A x \in Items(n) :
                 /\ x.arcs \in SUBSET Leaving(n) /\ x.arcs # {} /\ x.fill \in BOOLEAN
                 /\ \A k \in x.arcs : x.fill <=> ~OnHub(n, k)
           /\ \A x, y \in Items(n) : \A k \in x.arcs \cap y.arcs : x = y
           /\ \A k \in Leaving(n) : \E x \in Items(n) : k \in x.arcs
  <1> DEFINE Drawing == {k \in Leaving(n) : OnHub(n, k)}
             Filled == {TokenIn[k] : k \in {j \in Leaving(n) : ~OnHub(n, j)}}
             one == [k \in Drawing |-> [fill |-> FALSE, arcs |-> {k}]]
             many == [t \in Filled |->
                        [fill |-> TRUE, arcs |-> {k \in Leaving(n) : TokenIn[k] = t}]]
             input == [k \in {j \in Leaving(n) : ~OnHub(n, j)} |-> TokenIn[k]]
  <1>1. Items(n) = {one[k] : k \in Drawing} \cup {many[t] : t \in Filled}
    BY DEF Items, OnHub
  <1>2. IsFiniteSet(Drawing) /\ IsFiniteSet({j \in Leaving(n) : ~OnHub(n, j)})
    BY LeavingIs, FS_Subset
  <1>3. IsFiniteSet(Filled)
    <2>1. DOMAIN input = {j \in Leaving(n) : ~OnHub(n, j)}
          /\ input = [k \in {j \in Leaving(n) : ~OnHub(n, j)} |-> input[k]]
          /\ Filled = {input[k] : k \in {j \in Leaving(n) : ~OnHub(n, j)}}
      OBVIOUS
    <2> HIDE DEF input, Filled
    <2> QED BY <1>2, <2>1, ImageFinite
  <1>4. IsFiniteSet({one[k] : k \in Drawing})
    <2>1. DOMAIN one = Drawing /\ one = [k \in Drawing |-> one[k]]
      OBVIOUS
    <2> HIDE DEF one, Drawing
    <2> QED BY <1>2, <2>1, ImageFinite
  <1>5. IsFiniteSet({many[t] : t \in Filled})
    <2>1. DOMAIN many = Filled /\ many = [t \in Filled |-> many[t]]
      OBVIOUS
    <2> HIDE DEF many, Filled
    <2> QED BY <1>3, <2>1, ImageFinite
  <1>6. IsFiniteSet(Items(n))
    <2> HIDE DEF one, many, Drawing, Filled
    <2> QED BY <1>1, <1>4, <1>5, FS_Union
  <1>7. \A x \in Items(n) :
           \/ x.fill = FALSE /\ \E k \in Drawing : x.arcs = {k} /\ x = one[k]
           \/ x.fill = TRUE /\ \E t \in Filled :
                 x.arcs = {k \in Leaving(n) : TokenIn[k] = t} /\ x = many[t]
    <2> SUFFICES ASSUME NEW x \in Items(n)
                 PROVE  \/ x.fill = FALSE /\ \E k \in Drawing : x.arcs = {k} /\ x = one[k]
                        \/ x.fill = TRUE /\ \E t \in Filled :
                              x.arcs = {k \in Leaving(n) : TokenIn[k] = t} /\ x = many[t]
      OBVIOUS
    <2>1. ASSUME NEW k \in Drawing, x = one[k] PROVE x.fill = FALSE /\ x.arcs = {k}
      BY <2>1
    <2>2. ASSUME NEW t \in Filled, x = many[t]
          PROVE  x.fill = TRUE /\ x.arcs = {k \in Leaving(n) : TokenIn[k] = t}
      BY <2>2
    <2> HIDE DEF one, many, Drawing, Filled
    <2> QED BY <1>1, <2>1, <2>2
  <1>8. ASSUME NEW x \in Items(n)
        PROVE  /\ x.arcs \in SUBSET Leaving(n) /\ x.arcs # {} /\ x.fill \in BOOLEAN
               /\ \A k \in x.arcs : x.fill <=> ~OnHub(n, k)
    <2>1. CASE x.fill = FALSE /\ \E k \in Drawing : x.arcs = {k} /\ x = one[k]
      <3>1. PICK k \in Drawing : x.arcs = {k}
        BY <2>1
      <3> QED BY <2>1, <3>1
    <2>2. CASE x.fill = TRUE /\ \E t \in Filled :
                 x.arcs = {k \in Leaving(n) : TokenIn[k] = t} /\ x = many[t]
      <3>1. PICK t \in Filled : x.arcs = {k \in Leaving(n) : TokenIn[k] = t}
        BY <2>2
      <3>2. \A k \in x.arcs : ~OnHub(n, k)
        BY <3>1 DEF OnHub
      <3> QED BY <2>2, <3>1, <3>2
    <2> QED BY <1>7, <2>1, <2>2
  <1>9. ASSUME NEW x \in Items(n), NEW y \in Items(n), NEW k \in x.arcs \cap y.arcs
        PROVE  x = y
    <2>1. x.fill = y.fill
      BY <1>8
    <2>2. CASE x.fill = FALSE
      <3>1. x = one[k]
        BY <1>7, <2>2
      <3>2. y = one[k]
        BY <1>7, <2>1, <2>2
      <3> QED BY <3>1, <3>2
    <2>3. CASE x.fill = TRUE
      <3>1. x = many[TokenIn[k]]
        BY <1>7, <2>3
      <3>2. y = many[TokenIn[k]]
        BY <1>7, <2>1, <2>3
      <3> QED BY <3>1, <3>2
    <2> QED BY <1>8, <2>2, <2>3
  <1>10. ASSUME NEW k \in Leaving(n) PROVE \E x \in Items(n) : k \in x.arcs
    <2>1. CASE OnHub(n, k)
      <3>1. k \in Drawing /\ one[k].arcs = {k}
        BY <2>1
      <3> HIDE DEF one, Drawing
      <3>2. one[k] \in Items(n)
        BY <1>1, <3>1
      <3> QED BY <3>1, <3>2
    <2>2. CASE ~OnHub(n, k)
      <3>1. TokenIn[k] \in Filled /\ many[TokenIn[k]] \in Items(n)
        BY <1>1, <2>2
      <3>2. k \in many[TokenIn[k]].arcs
        BY <3>1
      <3> QED BY <3>1, <3>2
    <2> QED BY <2>1, <2>2
  <1> QED BY <1>6, <1>8, <1>9, <1>10

\* The takers come in an order, and the last has no cap if any has none.
LEMMA GroupIs ==
    ASSUME NEW n, Leaving(n) # {}
    PROVE  /\ Group(n) \in [1..Cardinality(Items(n)) -> Items(n)]
           /\ Cardinality(Items(n)) \in Nat \ {0}
           /\ (\E x \in Items(n) : AbsorbsRemainder(x)) =>
                 AbsorbsRemainder(Group(n)[Cardinality(Items(n))])
  <1> DEFINE S == Items(n)
             order == {p \in S \X S : Precedes(p[1], p[2])}
             a == [x \in S |-> IF AbsorbsRemainder(x) THEN IF Reenters(x) THEN 3 ELSE 2
                               ELSE IF Reenters(x) THEN 1 ELSE 0]
             b == [x \in S |-> IF x.fill THEN 1 ELSE 0]
             c == [x \in S |-> Min(x.arcs)]
             N == Cardinality(S)
  <1>1. \A x \in S : x.arcs \in SUBSET Arc /\ x.arcs # {} /\ x.fill \in BOOLEAN
                     /\ Min(x.arcs) \in x.arcs /\ Min(x.arcs) \in Nat
    BY ItemsAre, LeavingIs, LeastArc
  <1>2. a \in [S -> Int] /\ b \in [S -> Int] /\ c \in [S -> Int]
    BY <1>1
  <1>3. ASSUME NEW x \in S, NEW y \in S, c[x] = c[y] PROVE x = y
    <2>1. Min(x.arcs) \in x.arcs \cap y.arcs
      BY <1>1, <1>3
    <2> QED BY <2>1, ItemsAre
  <1>4. ASSUME NEW x \in S, NEW y \in S
        PROVE  <<x, y>> \in order <=>
                  \/ a[x] < a[y]
                  \/ a[x] = a[y] /\ b[x] < b[y]
                  \/ a[x] = a[y] /\ b[x] = b[y] /\ c[x] < c[y]
    <2>1. <<x, y>> \in order <=> Precedes(x, y)
      OBVIOUS
    <2>2. c[x] = Min(x.arcs) /\ c[y] = Min(y.arcs)
      OBVIOUS
    <2>3. AbsorbsRemainder(x) \in BOOLEAN /\ AbsorbsRemainder(y) \in BOOLEAN
          /\ Reenters(x) \in BOOLEAN /\ Reenters(y) \in BOOLEAN
          /\ x.fill \in BOOLEAN /\ y.fill \in BOOLEAN
      BY <1>1 DEF AbsorbsRemainder, Reenters
    <2>4. CASE AbsorbsRemainder(x) # AbsorbsRemainder(y)
      <3>1. Precedes(x, y) <=> AbsorbsRemainder(y)
        BY <2>4 DEF Precedes
      <3>2. a[x] # a[y] /\ (AbsorbsRemainder(y) <=> a[x] < a[y])
        BY <2>3, <2>4
      <3> HIDE DEF a, b, c, order
      <3> QED BY <2>1, <3>1, <3>2
    <2>5. CASE AbsorbsRemainder(x) = AbsorbsRemainder(y) /\ Reenters(x) # Reenters(y)
      <3>1. Precedes(x, y) <=> Reenters(y)
        BY <2>5 DEF Precedes
      <3>2. a[x] # a[y] /\ (Reenters(y) <=> a[x] < a[y])
        BY <2>3, <2>5
      <3> HIDE DEF a, b, c, order
      <3> QED BY <2>1, <3>1, <3>2
    <2>6. CASE /\ AbsorbsRemainder(x) = AbsorbsRemainder(y) /\ Reenters(x) = Reenters(y)
               /\ x.fill # y.fill
      <3>1. Precedes(x, y) <=> y.fill
        BY <2>6 DEF Precedes
      <3>2. a[x] = a[y] /\ a[x] \in Int
        BY <2>6
      <3>3. b[x] # b[y] /\ (y.fill <=> b[x] < b[y])
        BY <2>3, <2>6
      <3> HIDE DEF a, b, c, order
      <3> QED BY <2>1, <3>1, <3>2, <3>3
    <2>7. CASE /\ AbsorbsRemainder(x) = AbsorbsRemainder(y) /\ Reenters(x) = Reenters(y)
               /\ x.fill = y.fill
      <3>1. Precedes(x, y) <=> Min(x.arcs) < Min(y.arcs)
        BY <2>7 DEF Precedes
      <3>2. a[x] = a[y] /\ a[x] \in Int /\ b[x] = b[y] /\ b[x] \in Int
        BY <2>7
      <3> HIDE DEF a, b, c, order
      <3> QED BY <2>1, <2>2, <3>1, <3>2
    <2> QED BY <2>4, <2>5, <2>6, <2>7
  <1>5. OrdersAll(order, S)
    <2> HIDE DEF a, b, c, order, S
    <2> QED BY <1>2, <1>3, <1>4, LexOrders, SMTT(60)
  <1>6. \A x, y \in S : <<x, y>> \in order <=> Precedes(x, y)
    OBVIOUS
  <1>7. Group(n) = InOrder(S, order)
    <2>1. \A x \in S : {y \in S : Precedes(y, x)} = {y \in S : <<y, x>> \in order}
      OBVIOUS
    <2>2. Group(n) = [i \in 1..N |->
                CHOOSE x \in S : Cardinality({y \in S : Precedes(y, x)}) = i - 1]
      BY DEF Group, Sorted
    <2> HIDE DEF order, S
    <2>3. \A i \in 1..N :
             (CHOOSE x \in S : Cardinality({y \in S : Precedes(y, x)}) = i - 1)
               = (CHOOSE x \in S : Cardinality({y \in S : <<y, x>> \in order}) = i - 1)
      BY <2>1
    <2> QED BY <2>2, <2>3 DEF InOrder
  <1>8. IsFiniteSet(S)
    BY ItemsAre
  <1>9. S # {}
    BY ItemsAre
  <1> HIDE DEF order, a, b, c
  <1>10. /\ Group(n) \in [1..N -> S] /\ N \in Nat
         /\ \A y \in S : y = Group(n)[N] \/ <<y, Group(n)[N]>> \in order
    <2> HIDE DEF S
    <2> QED BY <1>5, <1>7, <1>8, <1>9, InOrderHolds
  <1>11. N # 0
    BY <1>8, <1>9, FS_EmptySet
  <1>12. ASSUME NEW y \in S, AbsorbsRemainder(y) PROVE AbsorbsRemainder(Group(n)[N])
    <2>1. Group(n)[N] \in S
      BY <1>10, <1>11
    <2>2. CASE <<y, Group(n)[N]>> \in order
      <3>1. Precedes(y, Group(n)[N])
        BY <1>6, <2>1, <2>2
      <3> QED BY <3>1, <1>12 DEF Precedes
    <2> QED BY <1>10, <1>12, <2>2
  <1> QED BY <1>10, <1>11, <1>12

----------------------------------------------------------------------------
(* The legs of a node.                                                     *)

\* A taker of the hub takes what is left of it only when it has no cap.
HubLeg(n, l) ==
    \E k \in Leaving(n), b \in 0..BPS - 1 :
        \/ OnHub(n, k) /\ l = Arrow(k, Slot(Hub(n)), b) /\ (b = 0 => k \notin capped)
        \/ ~OnHub(n, k) /\ l = Convert(Hub(n), TokenIn[k], b)

\* An arc of a filled slot that has a cap takes what is left of it only among others.
SpokeLeg(n, l) ==
    \E k \in Leaving(n), b \in 0..BPS - 1 :
        /\ ~OnHub(n, k) /\ l = Arrow(k, Slot(TokenIn[k]), b)
        /\ b = 0 /\ k \in capped =>
              \A j \in Leaving(n) : Slot(TokenIn[j]) = Slot(TokenIn[k]) => j \in capped

LEMMA LegsTyped ==
    ASSUME FlowTyped, NEW n \in Node, NEW k \in Leaving(n), NEW b \in 0..BPS - 1
    PROVE  /\ Arrow(k, Slot(Hub(n)), b) \in LegType
           /\ Arrow(k, Slot(TokenIn[k]), b) \in LegType
           /\ Convert(Hub(n), TokenIn[k], b) \in LegType
  <1>1. k \in 1..Arcs /\ k \in 0..Arcs /\ b \in 0..BPS
    BY LeavingIs, ArcsTyped, TokensTyped
  <1>2. TokenIn[k] \in Token /\ TokenOut[k] \in Token /\ Hub(n) \in Token
    BY LeavingIs, HubIs
  <1>3. Slot(TokenIn[k]) \in Token /\ Slot(TokenOut[k]) \in Token /\ Slot(Hub(n)) \in Token
    BY <1>2, SlotIs
  <1>4. Arrow(k, Slot(Hub(n)), b) \in LegType
    BY <1>1, <1>2, <1>3 DEF Arrow, LegType
  <1>5. Arrow(k, Slot(TokenIn[k]), b) \in LegType
    BY <1>1, <1>2, <1>3 DEF Arrow, LegType
  <1>6. Convert(Hub(n), TokenIn[k], b) \in LegType
    <2>1. 0 \in 0..Arcs
      BY ArcsTyped
    <2> QED BY <1>1, <1>2, <1>3, <2>1 DEF Convert, LegType
  <1> QED BY <1>4, <1>5, <1>6

LEMMA GroupHolds ==
    ASSUME FlowTyped, NEW n \in Node, Leaving(n) # {}
    PROVE  /\ GroupLegs(n) \in Seq(LegType) /\ Len(GroupLegs(n)) > 0
           /\ \A i \in 1..Len(GroupLegs(n)) : HubLeg(n, GroupLegs(n)[i])
           /\ (\E x \in Items(n) : AbsorbsRemainder(x)) =>
                 \E i \in 1..Len(GroupLegs(n)) : GroupLegs(n)[i].bps = 0
  <1> DEFINE N == Cardinality(Items(n))
             total == Deltas(Leaving(n))
             Bps(i) == IF i = Sweeper(n) THEN 0 ELSE Share(Deltas(Group(n)[i].arcs), total)
             K(i) == Min(Group(n)[i].arcs)
             LegAt(i) == IF Group(n)[i].fill THEN Convert(Hub(n), TokenIn[K(i)], Bps(i))
                                             ELSE Arrow(K(i), Slot(Hub(n)), Bps(i))
  <1>1. /\ Group(n) \in [1..N -> Items(n)] /\ N \in Nat \ {0}
        /\ (\E x \in Items(n) : AbsorbsRemainder(x)) => AbsorbsRemainder(Group(n)[N])
    BY GroupIs
  <1>2. Len(Group(n)) = N
    BY <1>1
  <1> DEFINE LegOf(item) ==
                 IF item.fill
                 THEN Convert(Hub(n), TokenIn[Min(item.arcs)], Share(Deltas(item.arcs), total))
                 ELSE Arrow(Min(item.arcs), Slot(Hub(n)), Share(Deltas(item.arcs), total))
             legOf == [item \in Items(n) |-> LegOf(item)]
             LegTold(i) == IF i = Sweeper(n) THEN [legOf[Group(n)[i]] EXCEPT !.bps = 0]
                                             ELSE legOf[Group(n)[i]]
  <1>3. GroupLegs(n) = [i \in 1..N |-> LegAt(i)]
    <2>1. GroupLegs(n) = [i \in 1..N |-> LegTold(i)]
      BY <1>2 DEF GroupLegs
    <2>2. \A i \in 1..N : legOf[Group(n)[i]] = LegOf(Group(n)[i])
      BY <1>1
    <2> HIDE DEF legOf
    <2>3. ASSUME NEW i \in 1..N PROVE LegTold(i) = LegAt(i)
      <3>1. LegTold(i) = IF i = Sweeper(n) THEN [LegOf(Group(n)[i]) EXCEPT !.bps = 0]
                                           ELSE LegOf(Group(n)[i])
        BY <2>2
      <3> HIDE DEF LegTold
      <3>2. CASE i = Sweeper(n)
        <4>1. LegTold(i) = [LegOf(Group(n)[i]) EXCEPT !.bps = 0] /\ Bps(i) = 0
          BY <3>1, <3>2
        <4> HIDE DEF Bps
        <4> QED BY <4>1 DEF Arrow, Convert
      <3>3. CASE i # Sweeper(n)
        <4>1. LegTold(i) = LegOf(Group(n)[i])
          BY <3>1, <3>3
        <4>2. Bps(i) = Share(Deltas(Group(n)[i].arcs), total)
          BY <3>3
        <4> HIDE DEF Bps
        <4> QED BY <4>1, <4>2
      <3> QED BY <3>2, <3>3
    <2> HIDE DEF LegTold, LegAt
    <2> QED BY <2>1, <2>3
  <1> HIDE DEF LegOf, legOf, LegTold
  <1>4. total \in Nat /\ total > 0
    <2>1. PICK k \in Leaving(n) : k \in Live
      BY LeavingIs
    <2> QED BY <2>1, DeltasAre
  <1>5. ASSUME NEW i \in 1..N PROVE HubLeg(n, LegAt(i)) /\ LegAt(i) \in LegType
    <2> DEFINE x == Group(n)[i]
    <2>1. x \in Items(n)
      BY <1>1
    <2>2. x.arcs \in SUBSET Leaving(n) /\ x.arcs # {} /\ x.fill \in BOOLEAN
      BY <2>1, ItemsAre
    <2>3. K(i) \in x.arcs
      BY <2>2, LeavingIs, LeastArc
    <2>4. K(i) \in Leaving(n) /\ (x.fill <=> ~OnHub(n, K(i)))
      BY <2>1, <2>2, <2>3, ItemsAre
    <2>5. Bps(i) \in 0..BPS - 1 /\ (Bps(i) = 0 => i = Sweeper(n))
      <3>1. CASE i = Sweeper(n)
        BY <3>1, TokensTyped
      <3>2. CASE i # Sweeper(n)
        <4>1. Deltas(x.arcs) \in Nat
          BY DeltasAre
        <4>2. Bps(i) \in 1..BPS - 1
          <5> HIDE DEF total
          <5> QED BY <1>4, <3>2, <4>1, ShareIs
        <4> HIDE DEF Bps
        <4> QED BY <4>2, TokensTyped
      <3> QED BY <3>1, <3>2
    <2>6. Bps(i) = 0 => K(i) \notin capped
      <3> SUFFICES ASSUME Bps(i) = 0 PROVE K(i) \notin capped
        OBVIOUS
      <3>1. i = N /\ \E y \in Items(n) : AbsorbsRemainder(y)
        BY <1>1, <2>5 DEF Sweeper
      <3>2. AbsorbsRemainder(x)
        BY <1>1, <3>1
      <3> HIDE DEF K, x
      <3> QED BY <2>3, <3>2 DEF AbsorbsRemainder
    <2> HIDE DEF Bps, K
    <2>7. CASE x.fill
      <3>1. LegAt(i) = Convert(Hub(n), TokenIn[K(i)], Bps(i))
        BY <2>7
      <3> HIDE DEF LegAt
      <3> QED BY <2>4, <2>5, <2>7, <3>1, LegsTyped DEF HubLeg
    <2>8. CASE ~x.fill
      <3>1. LegAt(i) = Arrow(K(i), Slot(Hub(n)), Bps(i))
        BY <2>8
      <3> HIDE DEF LegAt
      <3> QED BY <2>4, <2>5, <2>6, <2>8, <3>1, LegsTyped DEF HubLeg
    <2> QED BY <2>7, <2>8
  <1>6. ASSUME \E x \in Items(n) : AbsorbsRemainder(x) PROVE LegAt(N).bps = 0
    <2>1. Sweeper(n) = N
      BY <1>6 DEF Sweeper
    <2>2. Bps(N) = 0
      BY <2>1
    <2> HIDE DEF Bps
    <2> QED BY <2>2 DEF Convert, Arrow
  <1> HIDE DEF LegAt, N
  <1>7. GroupLegs(n) \in [1..N -> LegType]
    BY <1>3, <1>5
  <1>8. GroupLegs(n) \in Seq(LegType) /\ Len(GroupLegs(n)) = N
    BY <1>1, <1>7
  <1>9. \A i \in 1..N : HubLeg(n, GroupLegs(n)[i])
    BY <1>3, <1>5
  <1>10. (\E x \in Items(n) : AbsorbsRemainder(x)) => GroupLegs(n)[N].bps = 0 /\ N \in 1..N
    BY <1>1, <1>3, <1>6
  <1> QED BY <1>1, <1>8, <1>9, <1>10

\* The arcs that draw one filled slot: the last takes what is left.
LEMMA SpokeGroupHolds ==
    ASSUME FlowTyped, NEW n \in Node, NEW k0 \in Leaving(n), ~OnHub(n, k0),
           NEW s, s = Slot(TokenIn[k0])
    PROVE  /\ SpokeGroup(n, s) \in Seq(LegType)
           /\ \A i \in 1..Len(SpokeGroup(n, s)) :
                 SpokeLeg(n, SpokeGroup(n, s)[i]) /\ SpokeGroup(n, s)[i].src = s
           /\ \E i \in 1..Len(SpokeGroup(n, s)) : SpokeGroup(n, s)[i].bps = 0
  <1> DEFINE S == {k \in Leaving(n) : Slot(TokenIn[k]) = s}
             First(j, k) == IF (j \in capped) # (k \in capped) THEN j \in capped ELSE j < k
             order == {p \in S \X S : First(p[1], p[2])}
             a == [k \in S |-> IF k \in capped THEN 0 ELSE 1]
             b == [k \in S |-> 0]
             c == [k \in S |-> k]
             N == Cardinality(S)
             ks == InOrder(S, order)
  <1>1. S \in SUBSET Arc /\ IsFiniteSet(S) /\ k0 \in S /\ S \in SUBSET Leaving(n)
    BY LeavingIs, FS_Subset
  <1>2. \A k \in S : k \in Int
    BY <1>1, ArcsTyped
  <1>3. a \in [S -> Int] /\ b \in [S -> Int] /\ c \in [S -> Int]
    BY <1>2
  <1>4. \A x, y \in S : c[x] = c[y] => x = y
    OBVIOUS
  <1>5. ASSUME NEW x \in S, NEW y \in S
        PROVE  <<x, y>> \in order <=>
                  \/ a[x] < a[y]
                  \/ a[x] = a[y] /\ b[x] < b[y]
                  \/ a[x] = a[y] /\ b[x] = b[y] /\ c[x] < c[y]
    <2>1. <<x, y>> \in order <=> First(x, y)
      OBVIOUS
    <2>2. b[x] = 0 /\ b[y] = 0 /\ c[x] = x /\ c[y] = y
      OBVIOUS
    <2>3. CASE x \in capped /\ y \notin capped
      <3>1. First(x, y) /\ a[x] = 0 /\ a[y] = 1
        BY <2>3
      <3> HIDE DEF a, b, c, order, First
      <3> QED BY <2>1, <3>1
    <2>4. CASE x \notin capped /\ y \in capped
      <3>1. ~First(x, y) /\ a[x] = 1 /\ a[y] = 0
        BY <2>4
      <3> HIDE DEF a, b, c, order, First
      <3> QED BY <2>1, <3>1
    <2>5. CASE (x \in capped) = (y \in capped)
      <3>1. (First(x, y) <=> x < y) /\ a[x] = a[y] /\ a[x] \in Int
        BY <2>5
      <3> HIDE DEF a, b, c, order, First
      <3> QED BY <2>1, <2>2, <3>1
    <2> QED BY <2>3, <2>4, <2>5
  <1>6. OrdersAll(order, S)
    <2> HIDE DEF a, b, c, order, S
    <2> QED BY <1>3, <1>4, <1>5, LexOrders
  <1>7. \A x, y \in S : <<x, y>> \in order => First(x, y)
    OBVIOUS
  <1> DEFINE Part(k) == IF Deltas(S) = 0 THEN 0 ELSE Share(Delta[k], Deltas(S))
             legOf == [k \in S |-> Arrow(k, s, Part(k))]
  <1>8. SpokeGroup(n, s) =
           [i \in 1..Len(ks) |-> IF i = Len(ks) THEN [legOf[ks[i]] EXCEPT !.bps = 0]
                                                ELSE legOf[ks[i]]]
    <2>1. \A x \in S : {y \in S : First(y, x)} = {y \in S : <<y, x>> \in order}
      OBVIOUS
    <2>2. ks = [i \in 1..N |->
                CHOOSE x \in S : Cardinality({y \in S : First(y, x)}) = i - 1]
      <3> HIDE DEF order, S, First
      <3>1. \A i \in 1..N :
               (CHOOSE x \in S : Cardinality({y \in S : First(y, x)}) = i - 1)
                 = (CHOOSE x \in S : Cardinality({y \in S : <<y, x>> \in order}) = i - 1)
        BY <2>1
      <3> QED BY <3>1 DEF InOrder
    <2> HIDE DEF ks
    <2> QED BY <2>2 DEF SpokeGroup, Sorted
  <1> HIDE DEF order, a, b, c
  <1>9. /\ ks \in [1..N -> S] /\ N \in Nat
        /\ \A y \in S : y = ks[N] \/ <<y, ks[N]>> \in order
    <2> HIDE DEF S
    <2> QED BY <1>1, <1>6, InOrderHolds
  <1> HIDE DEF ks
  <1>10. N # 0
    BY <1>1, FS_EmptySet
  <1>11. Len(ks) = N /\ N \in 1..N
    BY <1>9, <1>10
  <1>12. Deltas(S) \in Nat /\ Deltas(S) > 0
    <2>1. k0 \in Live \cap S
      BY <1>1, LeavingIs
    <2> HIDE DEF S
    <2> QED BY <2>1, DeltasAre
  <1> DEFINE Bps(i) == IF i = N THEN 0 ELSE Share(Delta[ks[i]], Deltas(S))
             q == SpokeGroup(n, s)
  <1>13. q = [i \in 1..N |-> Arrow(ks[i], s, Bps(i))]
    <2> DEFINE LegTold(i) == IF i = N THEN [legOf[ks[i]] EXCEPT !.bps = 0] ELSE legOf[ks[i]]
    <2> HIDE DEF S, N
    <2>1. q = [i \in 1..N |-> LegTold(i)]
      BY <1>8, <1>11
    <2>2. \A i \in 1..N : legOf[ks[i]] = Arrow(ks[i], s, Part(ks[i]))
      BY <1>9
    <2> HIDE DEF legOf
    <2>3. \A i \in 1..N : LegTold(i) = Arrow(ks[i], s, Bps(i))
      <3>1. \A i \in 1..N : Part(ks[i]) = Share(Delta[ks[i]], Deltas(S))
        BY <1>12
      <3> SUFFICES ASSUME NEW i \in 1..N PROVE LegTold(i) = Arrow(ks[i], s, Bps(i))
        OBVIOUS
      <3>2. legOf[ks[i]] = Arrow(ks[i], s, Part(ks[i]))
        BY <2>2
      <3>3. CASE i = N
        <4>1. LegTold(i) = [Arrow(ks[i], s, Part(ks[i])) EXCEPT !.bps = 0] /\ Bps(i) = 0
          BY <3>2, <3>3
        <4> HIDE DEF LegTold, Bps, Part
        <4> QED BY <4>1 DEF Arrow
      <3>4. CASE i # N
        <4>1. LegTold(i) = Arrow(ks[i], s, Part(ks[i])) /\ Bps(i) = Share(Delta[ks[i]], Deltas(S))
          BY <3>2, <3>4
        <4> HIDE DEF LegTold, Bps, Part
        <4> QED BY <3>1, <4>1
      <3> QED BY <3>3, <3>4
    <2> HIDE DEF LegTold
    <2> QED BY <2>1, <2>3
  <1> HIDE DEF Part, legOf
  <1> HIDE DEF q
  <1>14. ASSUME NEW i \in 1..N PROVE Bps(i) \in 0..BPS - 1 /\ (Bps(i) = 0 => i = N)
    <2>1. CASE i = N
      BY <2>1, TokensTyped
    <2>2. CASE i # N
      <3>1. Delta[ks[i]] \in Nat
        BY <1>1, <1>9, DeltasAre
      <3>2. Bps(i) \in 1..BPS - 1
        <4> HIDE DEF S, N
        <4> QED BY <1>12, <2>2, <3>1, ShareIs
      <3> HIDE DEF Bps
      <3> QED BY <3>2, TokensTyped
    <2> QED BY <2>1, <2>2
  <1>15. ASSUME ks[N] \in capped, NEW j \in S PROVE j \in capped
    <2>1. CASE <<j, ks[N]>> \in order
      <3>1. First(j, ks[N])
        BY <1>7, <1>9, <1>11, <2>1
      <3> QED BY <3>1, <1>15
    <2> QED BY <1>9, <1>15, <2>1
  <1>16. ASSUME NEW i \in 1..N PROVE SpokeLeg(n, q[i]) /\ q[i] \in LegType /\ q[i].src = s
    <2>1. ks[i] \in S
      BY <1>9
    <2>2. ks[i] \in Leaving(n) /\ Slot(TokenIn[ks[i]]) = s /\ ~OnHub(n, ks[i])
      BY <2>1 DEF OnHub
    <2>3. q[i] = Arrow(ks[i], Slot(TokenIn[ks[i]]), Bps(i))
      BY <1>13, <2>2
    <2>4. Bps(i) = 0 /\ ks[i] \in capped =>
            \A j \in Leaving(n) : Slot(TokenIn[j]) = Slot(TokenIn[ks[i]]) => j \in capped
      BY <1>14, <1>15, <2>2
    <2>5. Bps(i) \in 0..BPS - 1
      BY <1>14
    <2> HIDE DEF Bps, S, N
    <2>6. SpokeLeg(n, q[i])
      BY <2>2, <2>3, <2>4, <2>5 DEF SpokeLeg
    <2>7. q[i] \in LegType
      BY <2>2, <2>3, <2>5, LegsTyped
    <2>8. q[i].src = s
      BY <2>2, <2>3 DEF Arrow
    <2> QED BY <2>6, <2>7, <2>8
  <1>17. q[N].bps = 0
    <2>1. q[N] = Arrow(ks[N], s, 0)
      BY <1>11, <1>13
    <2> QED BY <2>1 DEF Arrow
  <1> HIDE DEF N, S
  <1>18. q \in [1..N -> LegType]
    BY <1>13, <1>16
  <1>19. q \in Seq(LegType) /\ Len(q) = N
    BY <1>9, <1>18
  <1> QED BY <1>11, <1>16, <1>17, <1>19 DEF q

LEMMA SpokesHold ==
    ASSUME FlowTyped, NEW n \in Node
    PROVE  /\ SpokeLegs(n) \in Seq(LegType)
           /\ \A i \in 1..Len(SpokeLegs(n)) : SpokeLeg(n, SpokeLegs(n)[i])
           /\ \A k \in Leaving(n) : ~OnHub(n, k) =>
                 \E i \in 1..Len(SpokeLegs(n)) :
                    SpokeLegs(n)[i].src = Slot(TokenIn[k]) /\ SpokeLegs(n)[i].bps = 0
  <1> DEFINE all == {Slot(TokenIn[k]) : k \in Leaving(n)}
             S == all \ {Slot(Hub(n))}
             First(s) == Min({k \in Leaving(n) : Slot(TokenIn[k]) = s})
             order == {p \in S \X S : First(p[1]) < First(p[2])}
             c == [s \in S |-> First(s)]
             zero == [s \in S |-> 0]
             N == Cardinality(S)
             q == InOrder(S, order)
             seqs == [i \in 1..N |-> SpokeGroup(n, q[i])]
  <1>1. \A s \in S : \E k \in Leaving(n) : ~OnHub(n, k) /\ s = Slot(TokenIn[k])
    BY DEF OnHub
  <1>2. \A k \in Leaving(n) : ~OnHub(n, k) => Slot(TokenIn[k]) \in S
    BY DEF OnHub
  <1>3. IsFiniteSet(S)
    <2> DEFINE f == [k \in Leaving(n) |-> Slot(TokenIn[k])]
    <2>1. DOMAIN f = Leaving(n) /\ f = [k \in Leaving(n) |-> f[k]]
          /\ all = {f[k] : k \in Leaving(n)}
      OBVIOUS
    <2> HIDE DEF f, all
    <2>2. IsFiniteSet(all)
      BY <2>1, LeavingIs, ImageFinite
    <2> QED BY <2>2, FS_Difference
  <1>4. \A s \in S : First(s) \in Nat /\ First(s) \in Leaving(n) /\ Slot(TokenIn[First(s)]) = s
    <2> SUFFICES ASSUME NEW s \in S
                 PROVE  First(s) \in Nat /\ First(s) \in Leaving(n)
                        /\ Slot(TokenIn[First(s)]) = s
      OBVIOUS
    <2> DEFINE drawing == {k \in Leaving(n) : Slot(TokenIn[k]) = s}
    <2>1. drawing \in SUBSET Arc /\ drawing # {}
      BY <1>1, LeavingIs
    <2>2. Min(drawing) \in drawing /\ Min(drawing) \in Nat
      <3> HIDE DEF drawing
      <3> QED BY <2>1, LeastArc
    <2> QED BY <2>2
  <1> HIDE DEF First
  <1>5. c \in [S -> Int] /\ zero \in [S -> Int]
    BY <1>4
  <1>6. \A x, y \in S : c[x] = c[y] => x = y
    BY <1>4
  <1>7. ASSUME NEW x \in S, NEW y \in S
        PROVE  <<x, y>> \in order <=>
                  \/ zero[x] < zero[y]
                  \/ zero[x] = zero[y] /\ zero[x] < zero[y]
                  \/ zero[x] = zero[y] /\ zero[x] = zero[y] /\ c[x] < c[y]
    <2>1. <<x, y>> \in order <=> First(x) < First(y)
      OBVIOUS
    <2> HIDE DEF order, S
    <2> QED BY <2>1
  <1>8. OrdersAll(order, S)
    <2> HIDE DEF c, order, S, zero
    <2> QED BY <1>5, <1>6, <1>7, LexOrders
  <1> HIDE DEF c, zero
  <1>9. /\ q \in [1..N -> S] /\ N \in Nat
        /\ \A s \in S : \E i \in 1..N : q[i] = s
    <2> HIDE DEF S, order
    <2> QED BY <1>3, <1>8, InOrderHolds
  <1>10. SpokeLegs(n) = FlattenSeq(seqs)
    <2>1. \A x \in S : {y \in S : First(y) < First(x)} = {y \in S : <<y, x>> \in order}
      OBVIOUS
    <2>2. q = [i \in 1..N |->
                CHOOSE x \in S : Cardinality({y \in S : First(y) < First(x)}) = i - 1]
      <3> HIDE DEF order, S
      <3>1. \A i \in 1..N :
               (CHOOSE x \in S : Cardinality({y \in S : First(y) < First(x)}) = i - 1)
                 = (CHOOSE x \in S : Cardinality({y \in S : <<y, x>> \in order}) = i - 1)
        BY <2>1
      <3> QED BY <3>1 DEF InOrder
    <2>3. Len(q) = N
      BY <1>9
    <2> DEFINE sorted == [i \in 1..N |->
                CHOOSE x \in S : Cardinality({y \in S : First(y) < First(x)}) = i - 1]
           groupOf == [s \in S |-> SpokeGroup(n, s)]
    <2>4. SpokeLegs(n) = FlattenSeq([i \in 1..Len(sorted) |-> groupOf[sorted[i]]])
      BY DEF SpokeLegs, Sorted, First
    <2> HIDE DEF sorted, q
    <2>5. sorted = q
      BY <2>2 DEF sorted
    <2>6. \A i \in 1..N : groupOf[q[i]] = SpokeGroup(n, q[i])
      BY <1>9
    <2> HIDE DEF N, groupOf
    <2>7. SpokeLegs(n) = FlattenSeq([i \in 1..N |-> groupOf[q[i]]])
      BY <2>3, <2>4, <2>5
    <2>8. [i \in 1..N |-> groupOf[q[i]]] = [i \in 1..N |-> SpokeGroup(n, q[i])]
      BY <2>6
    <2> QED BY <2>7, <2>8
  <1> HIDE DEF q, order
  <1>11. ASSUME NEW i \in 1..N
         PROVE  /\ seqs[i] \in Seq(LegType)
                /\ \A h \in 1..Len(seqs[i]) : SpokeLeg(n, seqs[i][h]) /\ seqs[i][h].src = q[i]
                /\ \E h \in 1..Len(seqs[i]) : seqs[i][h].bps = 0
    <2>1. PICK k \in Leaving(n) : ~OnHub(n, k) /\ q[i] = Slot(TokenIn[k])
      BY <1>1, <1>9
    <2>2. seqs[i] = SpokeGroup(n, q[i])
      OBVIOUS
    <2> HIDE DEF seqs
    <2> QED BY <2>1, <2>2, SpokeGroupHolds
  <1>12. seqs \in [1..N -> Seq(LegType)]
    BY <1>11
  <1> HIDE DEF seqs, N
  <1>13. SpokeLegs(n) \in Seq(LegType) /\ Gathers(SpokeLegs(n), seqs, N)
    <2>1. N \in Nat
      BY <1>9
    <2> QED BY <1>10, <1>12, <2>1, FlattenHolds
  <1>14. ASSUME NEW j \in 1..Len(SpokeLegs(n)) PROVE SpokeLeg(n, SpokeLegs(n)[j])
    <2>1. PICK i \in 1..N : \E h \in 1..Len(seqs[i]) : SpokeLegs(n)[j] = seqs[i][h]
      BY <1>13 DEF Gathers
    <2> QED BY <2>1, <1>11
  <1>15. ASSUME NEW k \in Leaving(n), ~OnHub(n, k)
         PROVE  \E j \in 1..Len(SpokeLegs(n)) :
                    SpokeLegs(n)[j].src = Slot(TokenIn[k]) /\ SpokeLegs(n)[j].bps = 0
    <2>1. PICK i \in 1..N : q[i] = Slot(TokenIn[k])
      BY <1>2, <1>9, <1>15
    <2>2. PICK h \in 1..Len(seqs[i]) : seqs[i][h].bps = 0 /\ seqs[i][h].src = q[i]
      BY <1>11
    <2>3. PICK j \in 1..Len(SpokeLegs(n)) : SpokeLegs(n)[j] = seqs[i][h]
      BY <1>13 DEF Gathers
    <2>4. SpokeLegs(n)[j].src = Slot(TokenIn[k]) /\ SpokeLegs(n)[j].bps = 0
      BY <2>1, <2>2, <2>3
    <2> QED BY <2>4
  <1> QED BY <1>13, <1>14, <1>15

----------------------------------------------------------------------------
(* Legs one after another.                                                 *)

\* Nothing is paid into a slot behind the last leg that spends it.
InTurn(q) ==
    \A n \in 1..Len(q) : \A m \in 1..n - 1 :
        q[n].dst = q[m].src => \E l \in n + 1..Len(q) : q[l].src = q[m].src

Sweeps(q, s) == \E j \in 1..Len(q) : q[j].src = s /\ q[j].bps = 0

\* What each leg pays is swept by a later one, or may rest where it is.
Swept(q, R) ==
    \A i \in 1..Len(q) :
        q[i].dst \in R \/ \E j \in i + 1..Len(q) : q[j].src = q[i].dst /\ q[j].bps = 0

LEMMA Joined ==
    ASSUME NEW T, NEW p \in Seq(T), NEW q \in Seq(T)
    PROVE  /\ p \o q \in Seq(T) /\ Len(p \o q) = Len(p) + Len(q)
           /\ Len(p) \in Nat /\ Len(q) \in Nat
           /\ \A i \in 1..Len(p) : i \in 1..Len(p \o q) /\ (p \o q)[i] = p[i]
           /\ \A i \in 1..Len(q) : Len(p) + i \in 1..Len(p \o q) /\ (p \o q)[Len(p) + i] = q[i]
           /\ \A i \in 1..Len(p \o q) :
                 i \in 1..Len(p) \/ (i - Len(p) \in 1..Len(q) /\ i = Len(p) + (i - Len(p)))
  <1>1. /\ p \o q \in Seq(T) /\ Len(p \o q) = Len(p) + Len(q)
        /\ Len(p) \in Nat /\ Len(q) \in Nat
    OBVIOUS
  <1>2. \A i \in 1..Len(p) : i \in 1..Len(p \o q) /\ (p \o q)[i] = p[i]
    BY <1>1
  <1>3. \A i \in 1..Len(q) : Len(p) + i \in 1..Len(p \o q) /\ (p \o q)[Len(p) + i] = q[i]
    BY <1>1
  <1>4. \A i \in 1..Len(p \o q) :
           i \in 1..Len(p) \/ (i - Len(p) \in 1..Len(q) /\ i = Len(p) + (i - Len(p)))
    BY <1>1
  <1> QED BY <1>1, <1>2, <1>3, <1>4

LEMMA JoinedHold ==
    ASSUME NEW T, NEW p \in Seq(T), NEW q \in Seq(T), NEW Good,
           \A i \in 1..Len(p) : p[i] \in Good, \A i \in 1..Len(q) : q[i] \in Good
    PROVE  \A i \in 1..Len(p \o q) : (p \o q)[i] \in Good
  <1> SUFFICES ASSUME NEW i \in 1..Len(p \o q) PROVE (p \o q)[i] \in Good
    OBVIOUS
  <1>1. CASE i \in 1..Len(p)
    BY <1>1, Joined
  <1>2. CASE i - Len(p) \in 1..Len(q) /\ i = Len(p) + (i - Len(p))
    BY <1>2, Joined
  <1> QED BY <1>1, <1>2, Joined

LEMMA SweepsJoined ==
    ASSUME NEW T, NEW p \in Seq(T), NEW q \in Seq(T), NEW s, Sweeps(p, s) \/ Sweeps(q, s)
    PROVE  Sweeps(p \o q, s)
  <1>1. CASE Sweeps(p, s)
    BY <1>1, Joined DEF Sweeps
  <1>2. CASE Sweeps(q, s)
    <2>1. PICK j \in 1..Len(q) : q[j].src = s /\ q[j].bps = 0
      BY <1>2 DEF Sweeps
    <2>2. Len(p) + j \in 1..Len(p \o q) /\ (p \o q)[Len(p) + j] = q[j]
      BY Joined
    <2> QED BY <2>1, <2>2 DEF Sweeps
  <1> QED BY <1>1, <1>2

LEMMA TurnJoined ==
    ASSUME NEW T, NEW p \in Seq(T), NEW q \in Seq(T), InTurn(p), InTurn(q),
           \A m \in 1..Len(p), n \in 1..Len(q) :
              q[n].dst = p[m].src => \E l \in n + 1..Len(q) : q[l].src = p[m].src
    PROVE  InTurn(p \o q)
  <1> DEFINE w == p \o q
             P == Len(p)
             Q == Len(q)
  <1>1. P \in Nat /\ Q \in Nat /\ Len(w) = P + Q
    BY Joined
  <1>2. \A i \in 1..P : w[i] = p[i]
    BY Joined
  <1>3. \A i \in 1..Q : w[P + i] = q[i]
    BY Joined
  <1> SUFFICES ASSUME NEW n \in 1..Len(w), NEW m \in 1..n - 1, w[n].dst = w[m].src
               PROVE  \E l \in n + 1..Len(w) : w[l].src = w[m].src
    BY DEF InTurn
  <1> HIDE DEF w, P, Q
  <1>4. CASE n \in 1..P
    <2>1. m \in 1..P /\ m \in 1..n - 1
      BY <1>1, <1>4
    <2>2. PICK l \in n + 1..P : p[l].src = p[m].src
      BY <1>2, <1>4, <2>1 DEF InTurn, P
    <2>3. l \in 1..P /\ l \in n + 1..Len(w)
      BY <1>1, <1>4, <2>2
    <2> QED BY <1>2, <2>1, <2>2, <2>3
  <1>5. CASE n \notin 1..P
    <2>1. n - P \in 1..Q /\ n = P + (n - P)
      BY <1>1, <1>5
    <2>2. w[n] = q[n - P]
      BY <1>3, <2>1
    <2>3. \E l \in (n - P) + 1..Q : q[l].src = w[m].src
      <3>1. CASE m \in 1..P
        <4>1. w[m] = p[m]
          BY <1>2, <3>1
        <4> QED BY <2>1, <2>2, <3>1, <4>1 DEF P, Q
      <3>2. CASE m \notin 1..P
        <4>1. m - P \in 1..Q /\ m = P + (m - P) /\ m - P \in 1..(n - P) - 1
          BY <1>1, <2>1, <3>2
        <4>2. w[m] = q[m - P]
          BY <1>3, <4>1
        <4> QED BY <2>1, <2>2, <4>1, <4>2 DEF InTurn, Q
      <3> QED BY <3>1, <3>2
    <2>4. PICK l \in (n - P) + 1..Q : q[l].src = w[m].src
      BY <2>3
    <2>5. l \in 1..Q /\ P + l \in n + 1..Len(w)
      BY <1>1, <2>1, <2>4
    <2>6. w[P + l] = q[l]
      BY <1>3, <2>5
    <2> QED BY <2>4, <2>5, <2>6
  <1> QED BY <1>4, <1>5

LEMMA SweptJoined ==
    ASSUME NEW T, NEW p \in Seq(T), NEW q \in Seq(T), NEW R, NEW R1,
           Swept(p, R1), Swept(q, R), \A s \in R1 : s \in R \/ Sweeps(q, s)
    PROVE  Swept(p \o q, R)
  <1> DEFINE w == p \o q
             P == Len(p)
             Q == Len(q)
  <1>1. P \in Nat /\ Q \in Nat /\ Len(w) = P + Q
    BY Joined
  <1>2. \A i \in 1..P : w[i] = p[i]
    BY Joined
  <1>3. \A i \in 1..Q : w[P + i] = q[i]
    BY Joined
  <1> SUFFICES ASSUME NEW i \in 1..Len(w), w[i].dst \notin R
               PROVE  \E j \in i + 1..Len(w) : w[j].src = w[i].dst /\ w[j].bps = 0
    BY DEF Swept
  <1> HIDE DEF w, P, Q
  <1>4. CASE i \in 1..P
    <2>1. w[i] = p[i]
      BY <1>2, <1>4
    <2>2. CASE p[i].dst \in R1
      <3>1. PICK j \in 1..Q : q[j].src = p[i].dst /\ q[j].bps = 0
        BY <2>1, <2>2 DEF Sweeps, Q
      <3>2. P + j \in i + 1..Len(w) /\ w[P + j] = q[j]
        BY <1>1, <1>3, <1>4
      <3> QED BY <2>1, <3>1, <3>2
    <2>3. CASE p[i].dst \notin R1
      <3>1. PICK j \in i + 1..P : p[j].src = p[i].dst /\ p[j].bps = 0
        BY <1>4, <2>3 DEF Swept, P
      <3>2. j \in i + 1..Len(w) /\ w[j] = p[j]
        BY <1>1, <1>2, <1>4
      <3> QED BY <2>1, <3>1, <3>2
    <2> QED BY <2>2, <2>3
  <1>5. CASE i \notin 1..P
    <2>1. i - P \in 1..Q /\ i = P + (i - P)
      BY <1>1, <1>5
    <2>2. w[i] = q[i - P]
      BY <1>3, <2>1
    <2>3. PICK j \in (i - P) + 1..Q : q[j].src = q[i - P].dst /\ q[j].bps = 0
      BY <2>1, <2>2 DEF Swept, Q
    <2>4. j \in 1..Q /\ P + j \in i + 1..Len(w)
      BY <1>1, <2>1, <2>3
    <2>5. w[P + j] = q[j]
      BY <1>3, <2>4
    <2> QED BY <2>2, <2>3, <2>4, <2>5
  <1> QED BY <1>4, <1>5

----------------------------------------------------------------------------
(* What a leg keeps to, and where amounts may rest.                        *)

\* A leg does not spend the slot the route is read from, and one with a cap takes what is
\* left of a slot only among others with one, and never what is left at a hub.
LegFine(l) ==
    /\ l.src # l.dst /\ l.src # Slot(Dst)
    /\ l.arc \in capped /\ l.bps = 0 =>
        /\ l.src # Slot(Hub(Tau(l.arc)))
        /\ \A j \in Leaving(Tau(l.arc)) : Slot(TokenIn[j]) = l.src => j \in capped

Excused(s) ==
    /\ s = Slot(Hub(NodeOf[s])) /\ Leaving(NodeOf[s]) # {}
    /\ \A x \in Items(NodeOf[s]) : ~AbsorbsRemainder(x)

Final == {s \in Token : s = Slot(Dst) \/ Excused(s)}

\* With nodes L to come, what they take in is still to be moved on, and so is what the
\* tail converts.
Rests(L) ==
    {s \in Token :
        \/ s = Slot(Dst) \/ Excused(s)
        \/ \E m \in L : \E t \in Arriving(m) : s = Slot(t)
        \/ s = Canonical[DstNode] /\ DestinationLeg # <<>>}

LEMMA SameFlowSameLegs ==
    ASSUME SameFlow
    PROVE  /\ \A l : LegFine(l)' <=> LegFine(l)
           /\ Rests(left)' = Rests(left')
           /\ Final' = Final /\ DestinationLeg' = DestinationLeg
           /\ Entering(DstNode)' = Entering(DstNode)
  <1>1. Live' = Live /\ Src' = Src /\ Dst' = Dst /\ DstNode' = DstNode /\ capped' = capped
    BY SameFlowSame DEF SameFlow
  <1>2. ASSUME NEW n PROVE Leaving(n)' = Leaving(n) /\ Entering(n)' = Entering(n)
    BY <1>1 DEF Leaving, Entering
  <1>3. ASSUME NEW n PROVE Arriving(n)' = Arriving(n) /\ Wanted(n)' = Wanted(n)
    BY <1>1, <1>2 DEF Arriving, Wanted
  <1>4. ASSUME NEW n PROVE Hub(n)' = Hub(n)
    <2>1. Wanted(n)' = Wanted(n) /\ Arriving(n)' = Arriving(n) /\ DstNode' = DstNode
      BY <1>1, <1>3
    <2>2. CASE /\ n # DstNode /\ Cardinality(Wanted(n)) = 1
               /\ Arriving(n) \subseteq Wanted(n) \cup {Canonical[n]}
      <3>1. Hub(n) = CHOOSE t \in Wanted(n) : TRUE
        BY <2>2 DEF Hub
      <3>2. Hub(n)' = CHOOSE t \in Wanted(n)' : TRUE
        BY <2>1, <2>2 DEF Hub
      <3> QED BY <2>1, <3>1, <3>2, Zenon
    <2>3. CASE ~ (/\ n # DstNode /\ Cardinality(Wanted(n)) = 1
                  /\ Arriving(n) \subseteq Wanted(n) \cup {Canonical[n]})
      <3>1. Hub(n) = Canonical[n]
        BY <2>3 DEF Hub
      <3>2. Hub(n)' = Canonical[n]
        BY <2>1, <2>3 DEF Hub
      <3> QED BY <3>1, <3>2
    <2> QED BY <2>2, <2>3
  <1>5. ASSUME NEW n PROVE Items(n)' = Items(n)
    BY <1>2, <1>4 DEF Items
  <1>6. ASSUME NEW x PROVE AbsorbsRemainder(x)' <=> AbsorbsRemainder(x)
    BY <1>1 DEF AbsorbsRemainder
  <1>7. ASSUME NEW s PROVE Excused(s)' <=> Excused(s)
    BY <1>2, <1>4, <1>5, <1>6 DEF Excused
  <1>8. DestinationLeg' = DestinationLeg
    <2>1. Entering(DstNode)' = Entering(DstNode)
      BY <1>1 DEF Entering
    <2> QED BY <1>1, <2>1 DEF DestinationLeg
  <1>9. ASSUME NEW l PROVE LegFine(l)' <=> LegFine(l)
    BY <1>1, <1>2, <1>4 DEF LegFine
  <1>10. Rests(left)' = Rests(left')
    BY <1>1, <1>3, <1>7, <1>8 DEF Rests
  <1>11. Final' = Final
    BY <1>1, <1>7 DEF Final
  <1>12. Entering(DstNode)' = Entering(DstNode)
    BY <1>1 DEF Entering
  <1> QED BY <1>8, <1>9, <1>10, <1>11, <1>12

----------------------------------------------------------------------------
(* The nodes of a route, and what is at its end.                           *)

LEMMA NodesAhead ==
    ASSUME FlowInv, phase \in {"emit", "walk", "done"}
    PROVE  /\ FlowTyped /\ SrcNode \in Nodes /\ SrcNode # DstNode
           /\ Leaving(DstNode) = {} /\ DstNode \in Node
           /\ \A n \in Nodes : n \in Node /\ (n # DstNode => Leaving(n) # {})
  <1>1. FlowTyped /\ IsRoute(Live, SrcNode, DstNode) /\ Live \in SUBSET Arc
    BY LiveIs DEF FlowInv
  <1>2. SrcNode \in Node /\ DstNode \in Node /\ SrcNode # DstNode
    BY <1>1, QueryTyped
  <1>3. /\ \A k \in Live : Sig(k) # DstNode => \E j \in Live : Tau(j) = Sig(k)
        /\ \E k \in Live : Tau(k) = SrcNode
    BY <1>1, <1>2, RouteNodes
  <1>4. \A k \in Live : Tau(k) # DstNode
    BY <1>1 DEF IsRoute
  <1>5. \A k \in Live : Tau(k) \in Node /\ Sig(k) \in Node
    BY <1>1, ArcsTyped
  <1>6. ASSUME NEW n \in Nodes PROVE n \in Node /\ (n # DstNode => Leaving(n) # {})
    <2>1. CASE \E k \in Live : n = Tau(k)
      BY <1>5, <2>1 DEF Leaving
    <2>2. CASE \E k \in Live : n = Sig(k)
      BY <1>3, <1>5, <2>2 DEF Leaving
    <2> QED BY <2>1, <2>2 DEF Nodes
  <1>7. SrcNode \in Nodes
    BY <1>3 DEF Nodes
  <1>8. Leaving(DstNode) = {}
    BY <1>4 DEF Leaving
  <1> QED BY <1>1, <1>2, <1>6, <1>7, <1>8

\* The destination is the last to be emitted.
LEMMA DstLast ==
    ASSUME FlowInv, phase = "emit", left # {}
    PROVE  DstNode \in left
  <1> SUFFICES ASSUME DstNode \notin left PROVE FALSE
    OBVIOUS
  <1> DEFINE S == Node \ left
  <1>1. FlowTyped /\ IsRoute(Live, SrcNode, DstNode) /\ Live \in SUBSET Arc
    BY LiveIs DEF FlowInv
  <1>2. S \in SUBSET Node /\ DstNode \in S
    BY <1>1, QueryTyped
  <1>3. \A k \in Live : Sig(k) \in S => Tau(k) \in S
    BY <1>1, ArcsTyped DEF FlowInv
  <1> HIDE DEF S
  <1>4. \A k \in Live : Sig(k) \in S
    BY <1>1, <1>2, <1>3 DEF IsRoute, Backward
  <1>5. \A k \in Live : Sig(k) \notin left /\ Tau(k) \notin left
    BY <1>3, <1>4 DEF S
  <1> QED BY <1>5 DEF FlowInv, Nodes

\* An arc of a node still to come pays into another one still to come.
LEMMA PaysAhead ==
    ASSUME FlowInv, phase = "emit", NEW n \in left, NEW k \in Leaving(n)
    PROVE  /\ Sig(k) \in left \ {n} /\ TokenOut[k] \in Arriving(Sig(k))
           /\ Slot(TokenOut[k]) \in Token /\ NodeOf[Slot(TokenOut[k])] = Sig(k)
           /\ k \in Entering(Sig(k))
  <1>1. k \in Live /\ Tau(k) = n /\ k \in Arc
    BY LiveIs DEF Leaving
  <1>2. Sig(k) \in left /\ Sig(k) # n
    BY <1>1, RealizeAssumption DEF FlowInv, RealizeAssumption
  <1>3. k \in Entering(Sig(k)) /\ TokenOut[k] \in Arriving(Sig(k))
    BY <1>1 DEF Entering, Arriving
  <1>4. TokenOut[k] \in Token /\ NodeOf[TokenOut[k]] = Sig(k)
    BY LeavingIs
  <1> QED BY <1>2, <1>3, <1>4, SlotIs

\* What comes to the destination in another token than the one asked for ends in the same
\* slot, or is converted by the tail.
LEMMA TailIs ==
    ASSUME FlowTyped
    PROVE  /\ DestinationLeg # <<>> =>
                /\ DestinationLeg = <<Convert(Canonical[DstNode], Dst, 0)>>
                /\ Slot(Dst) = Dst /\ Dst # Canonical[DstNode]
           /\ \A t \in Arriving(DstNode) : t # Dst =>
                Canonical[DstNode] = Slot(Dst) \/ DestinationLeg # <<>>
  <1>1. DestinationLeg # <<>> =>
            /\ DestinationLeg = <<Convert(Canonical[DstNode], Dst, 0)>>
            /\ Slot(Dst) = Dst /\ Dst # Canonical[DstNode]
    BY DEF DestinationLeg, Slot
  <1>2. ASSUME NEW t \in Arriving(DstNode), t # Dst
        PROVE  Canonical[DstNode] = Slot(Dst) \/ DestinationLeg # <<>>
    <2>1. t \in {TokenOut[k] : k \in Entering(DstNode)}
      BY QueryTyped DEF Arriving, SrcNode
    <2>2. CASE Dst \in Alias
      BY <2>2 DEF Slot, DstNode
    <2>3. CASE Dst \notin Alias /\ Dst = Canonical[DstNode]
      BY <2>3 DEF Slot
    <2>4. CASE Dst \notin Alias /\ Dst # Canonical[DstNode]
      <3>1. DestinationLeg = <<Convert(Canonical[DstNode], Dst, 0)>>
        BY <1>2, <2>1, <2>4 DEF DestinationLeg
      <3> QED BY <3>1
    <2> QED BY <2>2, <2>3, <2>4
  <1> QED BY <1>1, <1>2

----------------------------------------------------------------------------
(* The legs one node emits.                                                *)

PaysInto(n) == {Slot(TokenOut[k]) : k \in Leaving(n)}
Drawn(n) == GroupLegs(n) \o SpokeLegs(n)

\* A leg that spends from a node pays into another, or fills a slot the legs of q still
\* sweep.
Drawing(n, q, i) ==
    /\ NodeOf[q[i].src] = n /\ q[i].src # q[i].dst
    /\ \/ q[i].dst \in PaysInto(n)
       \/ /\ q[i].src = Slot(Hub(n)) /\ NodeOf[q[i].dst] = n
          /\ \E j \in i + 1..Len(q) : q[j].src = q[i].dst /\ q[j].bps = 0

\* Where a leg that takes from a node draws, and where it pays.
LEMMA HubLegIs ==
    ASSUME FlowTyped, NEW n \in Node, NEW l, HubLeg(n, l)
    PROVE  /\ l.src = Slot(Hub(n)) /\ NodeOf[l.src] = n /\ l.src # l.dst
           /\ \/ l.dst \in PaysInto(n)
              \/ \E k \in Leaving(n) : ~OnHub(n, k) /\ l.dst = Slot(TokenIn[k])
           /\ ~(l.arc \in capped /\ l.bps = 0)
  <1>1. PICK k \in Leaving(n), b \in 0..BPS - 1 :
            \/ OnHub(n, k) /\ l = Arrow(k, Slot(Hub(n)), b) /\ (b = 0 => k \notin capped)
            \/ ~OnHub(n, k) /\ l = Convert(Hub(n), TokenIn[k], b)
    BY DEF HubLeg
  <1>2. Hub(n) \in Token /\ NodeOf[Slot(Hub(n))] = n
    BY HubIs, SlotIs
  <1>3. k \in Arc /\ Tau(k) = n /\ TokenOut[k] \in Token /\ NodeOf[TokenOut[k]] = Sig(k)
    BY LeavingIs DEF Leaving
  <1>4. NodeOf[Slot(TokenOut[k])] # n
    BY <1>3, SlotIs, RealizeAssumption DEF RealizeAssumption
  <1>5. 0 \notin capped
    BY QueryTyped DEF Arc
  <1>6. CASE OnHub(n, k) /\ l = Arrow(k, Slot(Hub(n)), b) /\ (b = 0 => k \notin capped)
    <2>1. l.src = Slot(Hub(n)) /\ l.dst = Slot(TokenOut[k]) /\ l.arc = k /\ l.bps = b
      BY <1>6 DEF Arrow
    <2> QED BY <1>2, <1>4, <1>6, <2>1 DEF PaysInto
  <1>7. CASE ~OnHub(n, k) /\ l = Convert(Hub(n), TokenIn[k], b)
    <2>1. l.src = Slot(Hub(n)) /\ l.dst = Slot(TokenIn[k]) /\ l.arc = 0
      BY <1>7 DEF Convert
    <2> QED BY <1>2, <1>5, <1>7, <2>1 DEF OnHub
  <1> QED BY <1>1, <1>6, <1>7

LEMMA SpokeLegIs ==
    ASSUME FlowTyped, NEW n \in Node, NEW l, SpokeLeg(n, l)
    PROVE  /\ NodeOf[l.src] = n /\ l.src # Slot(Hub(n)) /\ l.src # l.dst /\ l.dst \in PaysInto(n)
           /\ l.arc \in capped /\ l.bps = 0 =>
                /\ Tau(l.arc) = n
                /\ \A j \in Leaving(n) : Slot(TokenIn[j]) = l.src => j \in capped
  <1>1. PICK k \in Leaving(n), b \in 0..BPS - 1 :
            /\ ~OnHub(n, k) /\ l = Arrow(k, Slot(TokenIn[k]), b)
            /\ b = 0 /\ k \in capped =>
                  \A j \in Leaving(n) : Slot(TokenIn[j]) = Slot(TokenIn[k]) => j \in capped
    BY DEF SpokeLeg
  <1>2. l.src = Slot(TokenIn[k]) /\ l.dst = Slot(TokenOut[k]) /\ l.arc = k /\ l.bps = b
    BY <1>1 DEF Arrow
  <1>3. /\ k \in Arc /\ Tau(k) = n /\ TokenOut[k] \in Token /\ NodeOf[TokenOut[k]] = Sig(k)
        /\ TokenIn[k] \in Token /\ NodeOf[TokenIn[k]] = n
    BY LeavingIs DEF Leaving
  <1>4. NodeOf[l.dst] # n /\ NodeOf[l.src] = n
    BY <1>2, <1>3, SlotIs, RealizeAssumption DEF RealizeAssumption
  <1>5. l.src # Slot(Hub(n)) /\ l.dst \in PaysInto(n)
    BY <1>1, <1>2 DEF OnHub, PaysInto
  <1> QED BY <1>1, <1>2, <1>3, <1>4, <1>5

LEMMA DrawnHolds ==
    ASSUME FlowTyped, NEW n \in Node, Leaving(n) # {}
    PROVE  /\ Drawn(n) \in Seq(LegType) /\ Len(Drawn(n)) > 0
           /\ \A i \in 1..Len(Drawn(n)) : Drawing(n, Drawn(n), i)
           /\ \A i \in 1..Len(Drawn(n)) : n # DstNode => LegFine(Drawn(n)[i])
           /\ Sweeps(Drawn(n), Slot(Hub(n))) \/ Excused(Slot(Hub(n)))
  <1> DEFINE G == GroupLegs(n)
             S == SpokeLegs(n)
             D == Drawn(n)
  <1>1. G \in Seq(LegType) /\ Len(G) > 0 /\ \A i \in 1..Len(G) : HubLeg(n, G[i])
    BY GroupHolds
  <1>2. S \in Seq(LegType) /\ \A i \in 1..Len(S) : SpokeLeg(n, S[i])
    BY SpokesHold
  <1>3. \A k \in Leaving(n) : ~OnHub(n, k) =>
            \E i \in 1..Len(S) : S[i].src = Slot(TokenIn[k]) /\ S[i].bps = 0
    BY SpokesHold
  <1>4. (\E x \in Items(n) : AbsorbsRemainder(x)) => \E i \in 1..Len(G) : G[i].bps = 0
    BY GroupHolds
  <1> HIDE DEF G, S
  <1>5. D = G \o S
    BY DEF Drawn, G, S
  <1> HIDE DEF D
  <1>6. /\ D \in Seq(LegType) /\ Len(D) = Len(G) + Len(S) /\ Len(G) \in Nat /\ Len(S) \in Nat
        /\ \A i \in 1..Len(G) : i \in 1..Len(D) /\ D[i] = G[i]
        /\ \A i \in 1..Len(S) : Len(G) + i \in 1..Len(D) /\ D[Len(G) + i] = S[i]
        /\ \A i \in 1..Len(D) :
              i \in 1..Len(G) \/ (i - Len(G) \in 1..Len(S) /\ i = Len(G) + (i - Len(G)))
    BY <1>1, <1>2, <1>5, Joined
  <1>7. Hub(n) \in Token /\ Slot(Hub(n)) \in Token /\ NodeOf[Slot(Hub(n))] = n
    BY HubIs, SlotIs
  <1>8. n # DstNode => \A s : NodeOf[s] = n => s # Slot(Dst)
    BY QueryTyped, SlotIs DEF DstNode
  <1>9. ASSUME NEW i \in 1..Len(G)
        PROVE  Drawing(n, D, i) /\ (n # DstNode => LegFine(D[i]))
    <2>1. HubLeg(n, D[i]) /\ i \in 1..Len(D)
      BY <1>1, <1>6
    <2>2. /\ D[i].src = Slot(Hub(n)) /\ NodeOf[D[i].src] = n /\ D[i].src # D[i].dst
          /\ \/ D[i].dst \in PaysInto(n)
             \/ \E k \in Leaving(n) : ~OnHub(n, k) /\ D[i].dst = Slot(TokenIn[k])
          /\ ~(D[i].arc \in capped /\ D[i].bps = 0)
      BY <2>1, HubLegIs
    <2>3. n # DstNode => LegFine(D[i])
      BY <1>8, <2>2 DEF LegFine
    <2>4. ASSUME NEW k \in Leaving(n), ~OnHub(n, k), D[i].dst = Slot(TokenIn[k])
          PROVE  /\ NodeOf[D[i].dst] = n
                 /\ \E j \in i + 1..Len(D) : D[j].src = D[i].dst /\ D[j].bps = 0
      <3>1. PICK h \in 1..Len(S) : S[h].src = Slot(TokenIn[k]) /\ S[h].bps = 0
        BY <1>3, <2>4
      <3>2. Len(G) + h \in i + 1..Len(D) /\ D[Len(G) + h] = S[h]
        BY <1>6
      <3>3. NodeOf[D[i].dst] = n
        BY <2>4, LeavingIs, SlotIs
      <3> QED BY <2>4, <3>1, <3>2, <3>3
    <2> QED BY <2>2, <2>3, <2>4 DEF Drawing
  <1>10. ASSUME NEW h \in 1..Len(S)
         PROVE  Drawing(n, D, Len(G) + h) /\ (n # DstNode => LegFine(D[Len(G) + h]))
    <2>1. SpokeLeg(n, D[Len(G) + h])
      BY <1>2, <1>6
    <2> DEFINE l == D[Len(G) + h]
    <2>2. /\ NodeOf[l.src] = n /\ l.src # Slot(Hub(n)) /\ l.src # l.dst /\ l.dst \in PaysInto(n)
          /\ l.arc \in capped /\ l.bps = 0 =>
               /\ Tau(l.arc) = n
               /\ \A j \in Leaving(n) : Slot(TokenIn[j]) = l.src => j \in capped
      BY <2>1, SpokeLegIs
    <2>3. Drawing(n, D, Len(G) + h)
      BY <2>2 DEF Drawing
    <2> HIDE DEF l
    <2>4. n # DstNode => LegFine(l)
      BY <1>8, <2>2 DEF LegFine
    <2> QED BY <2>3, <2>4 DEF l
  <1>11. ASSUME NEW i \in 1..Len(D)
         PROVE  Drawing(n, D, i) /\ (n # DstNode => LegFine(D[i]))
    <2>1. CASE i \in 1..Len(G)
      BY <1>9, <2>1
    <2>2. CASE i - Len(G) \in 1..Len(S) /\ i = Len(G) + (i - Len(G))
      BY <1>10, <2>2
    <2> QED BY <1>6, <2>1, <2>2
  <1>12. Sweeps(D, Slot(Hub(n))) \/ Excused(Slot(Hub(n)))
    <2>1. CASE \E x \in Items(n) : AbsorbsRemainder(x)
      <3>1. PICK i \in 1..Len(G) : G[i].bps = 0
        BY <1>4, <2>1
      <3>2. G[i].src = Slot(Hub(n)) /\ i \in 1..Len(D) /\ D[i] = G[i]
        BY <1>1, <1>6, HubLegIs
      <3> QED BY <3>1, <3>2 DEF Sweeps
    <2>2. CASE \A x \in Items(n) : ~AbsorbsRemainder(x)
      BY <1>7, <2>2 DEF Excused
    <2> QED BY <2>1, <2>2
  <1>13. Len(D) > 0
    BY <1>1, <1>6
  <1> QED BY <1>6, <1>11, <1>12, <1>13 DEF D

\* All a node emits.
Block(n) == Fold(n) \o (IF Leaving(n) = {} THEN <<>> ELSE Drawn(n))

\* What a node takes from, and what it pays, when nodes L are still to come.
BlockFits(n, L, q) ==
    /\ q \in Seq(LegType)
    /\ \A i \in 1..Len(q) : NodeOf[q[i].src] = n /\ LegFine(q[i])
    /\ \A i \in 1..Len(q) : NodeOf[q[i].dst] \in L
    /\ InTurn(q) /\ Swept(q, Rests(L \ {n}))
    /\ \A s \in Rests(L) : s \in Rests(L \ {n}) \/ Sweeps(q, s)

LEMMA RestsAre ==
    ASSUME NEW L, NEW s \in Token, s = Slot(Dst) \/ Excused(s)
    PROVE  s \in Rests(L)
  BY DEF Rests

LEMMA FoldFits ==
    ASSUME FlowTyped, NEW n \in Node, Leaving(DstNode) = {}
    PROVE  \A i \in 1..Len(Fold(n)) :
              /\ Fold(n)[i].src \in Folded(n) /\ NodeOf[Fold(n)[i].src] = n
              /\ Fold(n)[i].dst = Slot(Hub(n)) /\ NodeOf[Fold(n)[i].dst] = n
              /\ Fold(n)[i].bps = 0 /\ LegFine(Fold(n)[i])
  <1> SUFFICES ASSUME NEW i \in 1..Len(Fold(n))
               PROVE  /\ Fold(n)[i].src \in Folded(n) /\ NodeOf[Fold(n)[i].src] = n
                      /\ Fold(n)[i].dst = Slot(Hub(n)) /\ NodeOf[Fold(n)[i].dst] = n
                      /\ Fold(n)[i].bps = 0 /\ LegFine(Fold(n)[i])
    OBVIOUS
  <1>1. PICK t \in Folded(n) : Fold(n)[i] = Convert(t, Hub(n), 0)
    BY FoldHolds
  <1> DEFINE l == Fold(n)[i]
  <1>2. /\ t \in Token /\ NodeOf[t] = n /\ Slot(t) = t /\ t # Slot(Hub(n))
        /\ Leaving(n) # {} \/ (n = DstNode /\ t # Dst)
    BY FoldedIs
  <1>3. l.src = t /\ l.dst = Slot(Hub(n)) /\ l.bps = 0 /\ l.arc = 0
    BY <1>1, <1>2 DEF Convert
  <1>4. NodeOf[Slot(Hub(n))] = n
    BY HubIs, SlotIs
  <1>5. 0 \notin capped
    BY QueryTyped DEF Arc
  <1>6. CASE n = DstNode
    <2>1. Slot(Hub(n)) = Canonical[n]
      <3>1. Hub(n) = Canonical[n] /\ Canonical[n] \notin Alias
        BY <1>6, DstHub, TokensTyped
      <3> QED BY <3>1 DEF Slot
    <2>2. Slot(Dst) = Dst \/ Slot(Dst) = Slot(Hub(n))
      BY <1>6, <2>1 DEF Slot, DstNode
    <2>3. t # Slot(Dst)
      BY <1>2, <1>6, <2>2
    <2> QED BY <1>2, <1>3, <1>4, <1>5, <2>3 DEF LegFine
  <1>7. CASE n # DstNode
    <2>1. NodeOf[Slot(Dst)] = DstNode
      BY QueryTyped, SlotIs DEF DstNode
    <2> QED BY <1>2, <1>3, <1>4, <1>5, <1>7, <2>1 DEF LegFine
  <1> QED BY <1>6, <1>7

\* Legs that convert to one slot from others.
LEMMA FoldTurns ==
    ASSUME FlowTyped, NEW n \in Node, Leaving(DstNode) = {}
    PROVE  /\ InTurn(Fold(n)) /\ Swept(Fold(n), {Slot(Hub(n))})
           /\ \A t \in Folded(n) : Sweeps(Fold(n), t)
  <1>1. Fold(n) \in Seq(LegType) /\ Len(Fold(n)) \in Nat
    BY FoldHolds
  <1>2. \A i \in 1..Len(Fold(n)) :
          /\ Fold(n)[i].src # Slot(Hub(n))
          /\ Fold(n)[i].dst = Slot(Hub(n)) /\ Fold(n)[i].bps = 0
    BY FoldFits, FoldedIs
  <1>3. InTurn(Fold(n))
    BY <1>1, <1>2 DEF InTurn
  <1>4. Swept(Fold(n), {Slot(Hub(n))})
    BY <1>2 DEF Swept
  <1>5. ASSUME NEW t \in Folded(n) PROVE Sweeps(Fold(n), t)
    <2>1. PICK i \in 1..Len(Fold(n)) : Fold(n)[i] = Convert(t, Hub(n), 0)
      BY FoldHolds
    <2>2. Fold(n)[i].src = t /\ Fold(n)[i].bps = 0
      BY <2>1, FoldedIs DEF Convert
    <2> QED BY <2>2 DEF Sweeps
  <1> QED BY <1>3, <1>4, <1>5

\* The destination converts what arrives, and keeps it.
LEMMA DstBlockFits ==
    ASSUME FlowInv, phase = "emit", DstNode \in left
    PROVE  BlockFits(DstNode, left, Block(DstNode)) /\ Block(DstNode) = Fold(DstNode)
  <1> DEFINE n == DstNode
             F == Fold(DstNode)
  <1>1. FlowTyped /\ Leaving(n) = {} /\ n \in Node
    BY NodesAhead
  <1>2. F \in Seq(LegType)
    BY <1>1, FoldHolds
  <1>3. Block(n) = F
    BY <1>1, <1>2 DEF Block
  <1>4. Slot(Hub(n)) = Canonical[n] /\ Canonical[n] \in Token
    BY <1>1, DstHub, SlotIs, TokensTyped
  <1>5. \A t \in Arriving(n) : t # Dst => Canonical[n] \in Rests(left \ {n})
    BY <1>1, <1>4, TailIs DEF Rests
  <1>6. \A i \in 1..Len(F) : F[i].dst \in Rests(left \ {n})
    <2> SUFFICES ASSUME NEW i \in 1..Len(F) PROVE F[i].dst \in Rests(left \ {n})
      OBVIOUS
    <2>1. F[i].src \in Folded(n) /\ F[i].dst = Slot(Hub(n))
      BY <1>1, FoldFits
    <2>2. F[i].src \in Arriving(n) /\ F[i].src # Dst
      BY <1>1, <2>1, FoldedIs
    <2> QED BY <1>4, <1>5, <2>1, <2>2
  <1>7. ASSUME NEW s \in Rests(left) PROVE s \in Rests(left \ {n}) \/ Sweeps(F, s)
    <2>1. CASE \E t \in Arriving(n) : s = Slot(t)
      <3>1. PICK t \in Arriving(n) : s = Slot(t)
        BY <2>1
      <3>2. s \in Token
        BY DEF Rests
      <3>3. CASE t = Dst
        BY <3>1, <3>2, <3>3 DEF Rests
      <3>4. CASE t # Dst /\ t \in Folded(n)
        BY <1>1, <3>1, <3>4, FoldTurns, FoldedIs
      <3>5. CASE t # Dst /\ t \notin Folded(n)
        BY <1>1, <1>4, <1>5, <3>1, <3>5, ArrivesAtHub
      <3> QED BY <3>3, <3>4, <3>5
    <2>2. CASE ~ \E t \in Arriving(n) : s = Slot(t)
      BY <2>2 DEF Rests
    <2> QED BY <2>1, <2>2
  <1>8. \A i \in 1..Len(F) : /\ NodeOf[F[i].src] = n /\ LegFine(F[i]) /\ NodeOf[F[i].dst] = n
    BY <1>1, FoldFits
  <1>9. InTurn(F)
    BY <1>1, FoldTurns
  <1>10. Swept(F, Rests(left \ {n}))
    BY <1>6 DEF Swept
  <1> HIDE DEF n, F
  <1>11. n \in left
    BY DEF n
  <1>12. BlockFits(n, left, F)
    BY <1>2, <1>7, <1>8, <1>9, <1>10, <1>11 DEF BlockFits
  <1> QED BY <1>3, <1>12 DEF n, F

\* A node on the way passes on all that arrives, or all but what no taker of its hub can.
LEMMA WayBlockFits ==
    ASSUME FlowInv, phase = "emit", NEW n \in left, n # DstNode
    PROVE  /\ BlockFits(n, left, Block(n)) /\ Len(Block(n)) > 0
           /\ Block(n)[Len(Block(n))].dst \in PaysInto(n)
  <1> DEFINE F == Fold(n)
             D == Drawn(n)
             hub == Slot(Hub(n))
  <1>1. /\ FlowTyped /\ Leaving(n) # {} /\ n \in Node /\ Leaving(DstNode) = {}
    BY NodesAhead DEF FlowInv
  <1>2. F \in Seq(LegType) /\ InTurn(F) /\ Swept(F, {hub}) /\ \A t \in Folded(n) : Sweeps(F, t)
    BY <1>1, FoldHolds, FoldTurns
  <1>3. /\ D \in Seq(LegType) /\ Len(D) > 0
        /\ \A i \in 1..Len(D) : Drawing(n, D, i) /\ LegFine(D[i])
        /\ Sweeps(D, hub) \/ Excused(hub)
    BY <1>1, DrawnHolds
  <1>4. \A i \in 1..Len(F) :
           /\ F[i].src \in Folded(n) /\ NodeOf[F[i].src] = n
           /\ F[i].dst = hub /\ NodeOf[F[i].dst] = n /\ LegFine(F[i])
    BY <1>1, FoldFits
  <1>5. Block(n) = F \o D
    BY <1>1 DEF Block
  <1>6. hub \in Token /\ NodeOf[hub] = n
    BY <1>1, HubIs, SlotIs
  <1>7. \A s \in PaysInto(n) : /\ s \in Rests(left \ {n}) /\ NodeOf[s] \in left \ {n}
    BY PaysAhead DEF Rests, PaysInto
  <1>8. \A t \in Folded(n) : t # hub
    BY <1>1, FoldedIs
  <1> HIDE DEF F, D, hub
  <1>9. InTurn(D)
    <2> SUFFICES ASSUME NEW i \in 1..Len(D), NEW m \in 1..i - 1, D[i].dst = D[m].src
                 PROVE  \E l \in i + 1..Len(D) : D[l].src = D[m].src
      BY DEF InTurn
    <2>1. Drawing(n, D, i) /\ m \in 1..Len(D)
      BY <1>3
    <2>2. NodeOf[D[m].src] = n
      BY <1>3, <2>1 DEF Drawing
    <2>3. D[i].dst \notin PaysInto(n)
      BY <1>7, <2>2
    <2> QED BY <2>1, <2>3 DEF Drawing
  <1>10. InTurn(F \o D)
    <2>1. ASSUME NEW m \in 1..Len(F), NEW i \in 1..Len(D), D[i].dst = F[m].src
          PROVE  \E l \in i + 1..Len(D) : D[l].src = F[m].src
      <3>1. D[i].dst \notin PaysInto(n) /\ Drawing(n, D, i)
        BY <1>3, <1>4, <1>7, <2>1
      <3> QED BY <2>1, <3>1 DEF Drawing
    <2> QED BY <1>2, <1>3, <1>9, <2>1, TurnJoined
  <1>11. Swept(D, Rests(left \ {n}))
    BY <1>3, <1>7 DEF Swept, Drawing
  <1>12. Swept(F \o D, Rests(left \ {n}))
    <2>1. \A s \in {hub} : s \in Rests(left \ {n}) \/ Sweeps(D, s)
      BY <1>3, <1>6, RestsAre
    <2> QED BY <1>2, <1>3, <1>11, <2>1, SweptJoined
  <1>13. ASSUME NEW s \in Rests(left)
         PROVE  s \in Rests(left \ {n}) \/ Sweeps(F \o D, s)
    <2>1. CASE \E t \in Arriving(n) : s = Slot(t)
      <3>1. PICK t \in Arriving(n) : s = Slot(t)
        BY <2>1
      <3>2. CASE t \in Folded(n)
        <4>1. s = t
          BY <1>1, <3>1, <3>2, FoldedIs
        <4> QED BY <1>2, <1>3, <3>2, <4>1, SweepsJoined
      <3>3. CASE t \notin Folded(n)
        <4>1. s = hub
          BY <1>1, <3>1, <3>3, ArrivesAtHub DEF hub
        <4> QED BY <1>2, <1>3, <1>6, <4>1, RestsAre, SweepsJoined
      <3> QED BY <3>2, <3>3
    <2>2. CASE ~ \E t \in Arriving(n) : s = Slot(t)
      BY <2>2 DEF Rests
    <2> QED BY <2>1, <2>2
  <1>14. \A i \in 1..Len(D) : NodeOf[D[i].src] = n /\ NodeOf[D[i].dst] \in left
    BY <1>3, <1>7 DEF Drawing
  <1> DEFINE w == F \o D
             Good == {l \in LegType : /\ NodeOf[l.src] = n /\ LegFine(l) /\ NodeOf[l.dst] \in left}
  <1>15. w \in Seq(LegType) /\ \A i \in 1..Len(w) : w[i] \in Good
    <2>1. \A i \in 1..Len(F) : F[i] \in Good
      BY <1>2, <1>4
    <2>2. \A i \in 1..Len(D) : D[i] \in Good
      BY <1>3, <1>14
    <2> HIDE DEF Good
    <2> QED BY <1>2, <1>3, <2>1, <2>2, Joined, JoinedHold
  <1>16. Len(w) > 0 /\ w[Len(w)] = D[Len(D)]
    BY <1>2, <1>3
  <1>17. D[Len(D)].dst \in PaysInto(n)
    <2>1. Len(D) \in 1..Len(D) /\ Len(D) + 1..Len(D) = {}
      BY <1>3
    <2>2. Drawing(n, D, Len(D))
      BY <1>3, <2>1
    <2> QED BY <2>1, <2>2 DEF Drawing
  <1> HIDE DEF w
  <1>18. BlockFits(n, left, w)
    BY <1>10, <1>12, <1>13, <1>15 DEF BlockFits, w
  <1> QED BY <1>5, <1>16, <1>17, <1>18 DEF w

----------------------------------------------------------------------------
(* The legs, from the first node emitted to the end of the replay.         *)

\* With nodes still to come, the legs spend from none of those, all they pay in is moved
\* on or waits for a node to come, and so is what the route starts from.
EmitInv ==
    /\ legs \in Seq(LegType)
    /\ \A i \in 1..Len(legs) : NodeOf[legs[i].src] \notin left /\ LegFine(legs[i])
    /\ InTurn(legs) /\ Swept(legs, Rests(left))
    /\ Slot(Src) \in Rests(left) \/ Sweeps(legs, Slot(Src))
    /\ left = {DstNode} =>
         Len(legs) > 0 /\ \E k \in Entering(DstNode) : legs[Len(legs)].dst = Slot(TokenOut[k])
    /\ left = {} =>
         Len(legs) > 0 /\ (legs[Len(legs)].dst = Slot(Dst) \/ DestinationLeg # <<>>)

LEMMA SeqParts ==
    ASSUME NEW T, NEW p \in Seq(T), NEW q \in Seq(T)
    PROVE  /\ Len(q) > 0 => Len(p \o q) > 0 /\ (p \o q)[Len(p \o q)] = q[Len(q)]
           /\ Len(p) > 0 /\ Len(q) = 0 => Len(p \o q) > 0 /\ (p \o q)[Len(p \o q)] = p[Len(p)]
  <1>1. /\ p \o q \in Seq(T) /\ Len(p \o q) = Len(p) + Len(q) /\ Len(p) \in Nat /\ Len(q) \in Nat
    OBVIOUS
  <1>2. Len(q) > 0 => (p \o q)[Len(p) + Len(q)] = q[Len(q)]
    BY <1>1
  <1>3. Len(q) = 0 => p \o q = p
    BY <1>1
  <1> QED BY <1>1, <1>2, <1>3

LEMMA EmitStarts ==
    ASSUME FlowInv, phase = "emit", left = Nodes, legs = <<>>
    PROVE  EmitInv
  <1>1. FlowTyped /\ SrcNode \in left /\ SrcNode # DstNode
    BY NodesAhead
  <1>2. Src \in Arriving(SrcNode) /\ Slot(Src) \in Token
    BY <1>1, QueryTyped, SlotIs DEF Arriving, SrcNode
  <1>3. Slot(Src) \in Rests(left)
    BY <1>1, <1>2 DEF Rests
  <1>4. legs \in Seq(LegType) /\ Len(legs) = 0
    OBVIOUS
  <1>5. InTurn(legs) /\ Swept(legs, Rests(left))
    BY <1>4 DEF InTurn, Swept
  <1> QED BY <1>1, <1>3, <1>4, <1>5 DEF EmitInv

\* What one more node's legs do.
LEMMA EmitGoesOn ==
    ASSUME FlowInv, phase = "emit", EmitInv, NEW n \in left,
           NEW q, BlockFits(n, left, q), NEW w, w = legs \o q
    PROVE  /\ w \in Seq(LegType)
           /\ \A i \in 1..Len(w) : NodeOf[w[i].src] \notin left \ {n} /\ LegFine(w[i])
           /\ InTurn(w) /\ Swept(w, Rests(left \ {n}))
           /\ Slot(Src) \in Rests(left \ {n}) \/ Sweeps(w, Slot(Src))
  <1>1. legs \in Seq(LegType) /\ q \in Seq(LegType)
    BY DEF EmitInv, BlockFits
  <1> DEFINE Good == {l \in LegType : NodeOf[l.src] \notin left \ {n} /\ LegFine(l)}
  <1>2. w \in Seq(LegType) /\ \A i \in 1..Len(w) : w[i] \in Good
    <2>1. \A i \in 1..Len(legs) : legs[i] \in Good
      BY <1>1 DEF EmitInv
    <2>2. \A i \in 1..Len(q) : q[i] \in Good
      BY <1>1 DEF BlockFits
    <2> HIDE DEF Good
    <2> QED BY <1>1, <2>1, <2>2, Joined, JoinedHold
  <1>3. InTurn(w)
    <2>1. \A m \in 1..Len(legs), i \in 1..Len(q) : q[i].dst # legs[m].src
      BY DEF EmitInv, BlockFits
    <2> QED BY <1>1, <2>1, TurnJoined DEF EmitInv, BlockFits
  <1>4. Swept(w, Rests(left \ {n}))
    BY <1>1, SweptJoined DEF EmitInv, BlockFits
  <1>5. Slot(Src) \in Rests(left \ {n}) \/ Sweeps(w, Slot(Src))
    BY <1>1, SweepsJoined DEF EmitInv, BlockFits
  <1> QED BY <1>2, <1>3, <1>4, <1>5

LEMMA EmitLegs ==
    ASSUME FlowInv, EmitInv, NEW n \in Node, Emit(n)
    PROVE  legs' = legs \o Block(n)
  <1>1. phase = "emit" /\ n \in left /\ n \in Nodes
    BY DEF Emit, FlowInv
  <1>2. FlowTyped /\ legs \in Seq(LegType)
    BY DEF FlowInv, EmitInv
  <1>3. Fold(n) \in Seq(LegType)
    BY <1>2, FoldHolds
  <1>4. CASE Leaving(n) = {}
    BY <1>2, <1>3, <1>4 DEF Emit, Block
  <1>5. CASE Leaving(n) # {}
    <2>1. Deltas(Leaving(n)) # 0
      <3>1. \E k \in Leaving(n) : k \in Live \cap Leaving(n)
        BY <1>5, LeavingIs
      <3> QED BY <1>2, <3>1, DeltasAre
    <2>2. Drawn(n) \in Seq(LegType)
      BY <1>2, <1>5, DrawnHolds
    <2>3. legs' = (legs \o Fold(n)) \o Drawn(n)
      BY <1>5, <2>1 DEF Emit, Drawn
    <2>4. Block(n) = Fold(n) \o Drawn(n)
      BY <1>5 DEF Block
    <2> QED BY <1>2, <1>3, <2>2, <2>3, <2>4
  <1> QED BY <1>4, <1>5

LEMMA EmitKeepsLegs ==
    ASSUME FlowInv, EmitInv, NEW n \in Node, Emit(n)
    PROVE  EmitInv'
  <1>1. /\ SameFlow /\ phase = "emit" /\ n \in left /\ left' = left \ {n}
        /\ FlowTyped
    BY DEF Emit, SameFlow, FlowInv
  <1>2. legs' = legs \o Block(n)
    BY EmitLegs
  <1>3. n # DstNode => /\ BlockFits(n, left, Block(n)) /\ Len(Block(n)) > 0
                       /\ Block(n)[Len(Block(n))].dst \in PaysInto(n)
    BY <1>1, WayBlockFits
  <1>4. n = DstNode => BlockFits(n, left, Block(n)) /\ Block(n) = Fold(n)
    BY <1>1, DstBlockFits
  <1>5. legs \in Seq(LegType) /\ Block(n) \in Seq(LegType)
    BY <1>3, <1>4 DEF EmitInv, BlockFits
  <1>6. /\ legs' \in Seq(LegType)
        /\ \A i \in 1..Len(legs') : NodeOf[legs'[i].src] \notin left \ {n} /\ LegFine(legs'[i])
        /\ InTurn(legs') /\ Swept(legs', Rests(left \ {n}))
        /\ Slot(Src) \in Rests(left \ {n}) \/ Sweeps(legs', Slot(Src))
    BY <1>1, <1>2, <1>3, <1>4, EmitGoesOn
  <1>7. DstNode \in left
    BY <1>1, DstLast
  <1>8. ASSUME left \ {n} = {DstNode}
        PROVE  /\ Len(legs') > 0
               /\ \E k \in Entering(DstNode) : legs'[Len(legs')].dst = Slot(TokenOut[k])
    <2>1. n # DstNode
      BY <1>8
    <2>2. Len(legs') > 0 /\ legs'[Len(legs')].dst \in PaysInto(n)
      BY <1>2, <1>3, <1>5, <2>1, SeqParts
    <2>3. PICK k \in Leaving(n) : legs'[Len(legs')].dst = Slot(TokenOut[k])
      BY <2>2 DEF PaysInto
    <2>4. Sig(k) = DstNode /\ k \in Entering(Sig(k))
      BY <1>1, <1>8, PaysAhead
    <2> QED BY <2>2, <2>3, <2>4
  <1>9. ASSUME left \ {n} = {}
        PROVE  /\ Len(legs') > 0
               /\ legs'[Len(legs')].dst = Slot(Dst) \/ DestinationLeg # <<>>
    <2>1. n = DstNode /\ left = {DstNode} /\ Block(n) = Fold(n)
      BY <1>4, <1>7, <1>9
    <2>2. /\ Len(legs) > 0
          /\ \E k \in Entering(DstNode) : legs[Len(legs)].dst = Slot(TokenOut[k])
      BY <2>1 DEF EmitInv
    <2>3. Slot(Hub(n)) = Canonical[n] /\ Leaving(n) = {}
      BY <1>1, <2>1, DstHub, NodesAhead, TokensTyped, SlotIs DEF Slot
    <2>4. CASE Len(Fold(n)) > 0
      <3>1. Len(legs') > 0 /\ legs'[Len(legs')] = Fold(n)[Len(Fold(n))]
        BY <1>2, <1>5, <2>1, <2>4, SeqParts
      <3>2. Len(Fold(n)) \in 1..Len(Fold(n))
        BY <1>5, <2>1, <2>4
      <3>3. /\ Fold(n)[Len(Fold(n))].dst = Slot(Hub(n))
            /\ Fold(n)[Len(Fold(n))].src \in Folded(n)
        BY <1>1, <2>1, <2>3, <3>2, FoldFits
      <3>4. \E t \in Arriving(DstNode) : t # Dst
        BY <1>1, <2>1, <2>3, <3>3, FoldedIs
      <3> QED BY <1>1, <2>1, <2>3, <3>1, <3>3, <3>4, TailIs
    <2>5. CASE Len(Fold(n)) = 0
      <3>1. Len(legs') > 0 /\ legs'[Len(legs')] = legs[Len(legs)]
        BY <1>2, <1>5, <2>1, <2>2, <2>5, SeqParts
      <3>2. PICK k \in Entering(DstNode) : legs[Len(legs)].dst = Slot(TokenOut[k])
        BY <2>2
      <3>3. TokenOut[k] \in Arriving(DstNode)
        BY DEF Arriving
      <3>4. CASE TokenOut[k] = Dst
        BY <3>1, <3>2, <3>4
      <3>5. CASE TokenOut[k] # Dst
        <4>1. Folded(n) = {}
          BY <1>1, <2>5, FoldHolds
        <4>2. Slot(TokenOut[k]) = Canonical[n]
          BY <1>1, <2>1, <2>3, <3>3, <3>5, <4>1, ArrivesAtHub
        <4> QED BY <1>1, <2>1, <3>1, <3>2, <3>3, <3>5, <4>2, TailIs
      <3> QED BY <3>4, <3>5
    <2>6. Len(Fold(n)) \in Nat
      BY <1>5, <2>1
    <2> QED BY <2>4, <2>5, <2>6
  <1>10. /\ \A l : LegFine(l)' <=> LegFine(l)
         /\ Rests(left)' = Rests(left \ {n})
         /\ DestinationLeg' = DestinationLeg /\ Entering(DstNode)' = Entering(DstNode)
         /\ Src' = Src /\ Dst' = Dst /\ DstNode' = DstNode
    BY <1>1, SameFlowSameLegs, SameFlowSame
  <1> QED BY <1>1, <1>6, <1>8, <1>9, <1>10 DEF EmitInv

----------------------------------------------------------------------------
(* The replay.                                                             *)

\* The legs of a route can be run in turn, and every amount ends where it may rest.
Ordered ==
    /\ legs \in Seq(LegType) /\ Len(legs) > 0 /\ legs[Len(legs)].dst = Slot(Dst)
    /\ \A i \in 1..Len(legs) : LegFine(legs[i])
    /\ InTurn(legs) /\ Swept(legs, Final)

\* What a slot holds may rest there, or a leg still to come sweeps it.
Moving ==
    /\ balance \in [Token -> Nat] /\ base \in Nat /\ next \in 1..Len(legs) + 1
    /\ \A t \in Token : balance[t] > 0 =>
          t \in Final \/ \E j \in next..Len(legs) : legs[j].src = t /\ legs[j].bps = 0

LegsInv ==
    /\ phase \in {"cancel", "prune"} => legs = <<>>
    /\ phase \in {"cancel", "prune", "emit"} =>
         balance = [t \in Token |-> 0] /\ base = 0 /\ next = 1
    /\ phase = "emit" => EmitInv
    /\ phase \in {"walk", "done"} => Ordered /\ Moving
    /\ phase = "done" => next = Len(legs) + 1

RealizeInv == FlowInv /\ LegsInv

LEMMA LegsInvInit == RealizeInit => LegsInv
  BY DEF RealizeInit, LegsInv

LEMMA EmitStartsNext ==
    (FlowInv /\ phase = "emit" /\ left = Nodes /\ legs = <<>> => EmitInv)'
  <1>1. FlowInv /\ phase = "emit" /\ left = Nodes /\ legs = <<>> => EmitInv
    BY EmitStarts
  <1> QED BY <1>1, PTL

LEMMA PrunedKeepsLegs == ASSUME RealizeInv, FlowInv', Pruned PROVE LegsInv'
  <1>1. /\ phase = "prune" /\ phase' = "emit" /\ legs' = <<>>
        /\ balance' = [t \in Token |-> 0] /\ base' = 0 /\ next' = 1
    BY DEF Pruned, RealizeInv, LegsInv, replay
  <1>2. left' = Nodes'
    BY DEF Pruned, Nodes, Live, Tau, Sig
  <1> QED BY <1>1, <1>2, EmitStartsNext DEF LegsInv

LEMMA TailKeepsLegs == ASSUME RealizeInv, EmitTail PROVE LegsInv'
  <1>1. /\ SameFlow /\ phase = "emit" /\ phase' = "walk" /\ left = {} /\ next' = 1 /\ base' = 0
        /\ legs' = legs \o DestinationLeg /\ EmitInv
        /\ balance' = [[t \in Token |-> 0] EXCEPT ![Slot(Src)] = Deltas(Leaving(NodeOf[Src]))]
    BY DEF EmitTail, RealizeInv, LegsInv, SameFlow
  <1>2. FlowTyped /\ Src \in Token /\ Slot(Src) \in Token /\ Dst \in Token /\ DstNode \in Node
    BY QueryTyped, SlotIs DEF RealizeInv, FlowInv
  <1>3. /\ Final' = Final /\ DestinationLeg' = DestinationLeg
        /\ \A l : LegFine(l)' <=> LegFine(l)
        /\ Src' = Src /\ Dst' = Dst
    BY <1>1, SameFlowSameLegs, SameFlowSame
  <1> DEFINE tail == DestinationLeg
             leg == Convert(Canonical[DstNode], Dst, 0)
  <1>4. tail # <<>> => tail = <<leg>> /\ Slot(Dst) = Dst /\ Dst # Canonical[DstNode]
    BY <1>2, TailIs
  <1>5. ASSUME tail # <<>>
        PROVE  /\ leg \in LegType /\ leg.src = Canonical[DstNode] /\ leg.dst = Slot(Dst)
               /\ leg.bps = 0 /\ LegFine(leg)
    <2>1. Canonical[DstNode] \in Token /\ Slot(Canonical[DstNode]) = Canonical[DstNode]
      BY <1>2, TokensTyped, SlotIs
    <2>2. leg = [arc |-> 0, in |-> Canonical[DstNode], out |-> Dst,
                 src |-> Canonical[DstNode], dst |-> Slot(Dst), bps |-> 0]
      BY <2>1 DEF Convert
    <2> HIDE DEF leg
    <2>3. leg \in LegType
      <3>1. 0 \in 0..Arcs /\ 0 \in 0..BPS /\ Slot(Dst) \in Token
        BY <1>2, ArcsTyped, TokensTyped, SlotIs
      <3> QED BY <1>2, <2>1, <2>2, <3>1 DEF LegType
    <2>4. 0 \notin capped
      BY <1>2, QueryTyped DEF Arc
    <2>5. LegFine(leg)
      BY <1>4, <1>5, <2>2, <2>4 DEF LegFine
    <2> QED BY <2>2, <2>3, <2>5
  <1> HIDE DEF leg
  <1>6. tail \in Seq(LegType) /\ (tail # <<>> => tail = <<leg>> /\ Len(tail) = 1 /\ tail[1] = leg)
    <2>1. CASE tail = <<>>
      BY <2>1
    <2>2. CASE tail # <<>>
      <3>1. tail = <<leg>> /\ leg \in LegType
        BY <1>4, <1>5, <2>2
      <3> HIDE DEF tail
      <3> QED BY <3>1
    <2> QED BY <2>1, <2>2
  <1> HIDE DEF tail
  <1>7. legs \in Seq(LegType) /\ legs' = legs \o tail
    BY <1>1 DEF EmitInv, tail
  <1> DEFINE w == legs \o tail
  <1>8. \A i \in 1..Len(tail) : tail[i] = leg /\ tail # <<>>
    BY <1>6
  <1>9. InTurn(w)
    <2>1. InTurn(tail)
      BY <1>6 DEF InTurn
    <2>2. \A m \in 1..Len(legs), i \in 1..Len(tail) : tail[i].dst # legs[m].src
      BY <1>1, <1>5, <1>8 DEF EmitInv, LegFine, tail
    <2> QED BY <1>1, <1>6, <1>7, <2>1, <2>2, TurnJoined DEF EmitInv
  <1>10. \A s \in Rests(left) : s \in Final \/ Sweeps(tail, s)
    <2> SUFFICES ASSUME NEW s \in Rests(left), s \notin Final PROVE Sweeps(tail, s)
      OBVIOUS
    <2>1. s = Canonical[DstNode] /\ tail # <<>>
      BY <1>1 DEF Rests, Final, tail
    <2> QED BY <1>5, <1>6, <2>1 DEF Sweeps, tail
  <1>11. Swept(w, Final)
    <2>1. Swept(tail, Final)
      BY <1>2, <1>5, <1>8, SlotIs DEF Swept, Final, tail
    <2> QED BY <1>1, <1>6, <1>7, <1>10, <2>1, SweptJoined DEF EmitInv
  <1>12. w \in Seq(LegType) /\ \A i \in 1..Len(w) : LegFine(w[i])
    <2> DEFINE Good == {l \in LegType : LegFine(l)}
    <2>1. \A i \in 1..Len(legs) : legs[i] \in Good
      BY <1>1, <1>7 DEF EmitInv
    <2>2. \A i \in 1..Len(tail) : tail[i] \in Good
      BY <1>5, <1>8 DEF tail
    <2> HIDE DEF Good
    <2>3. w \in Seq(LegType) /\ \A i \in 1..Len(w) : w[i] \in Good
      BY <1>6, <1>7, <2>1, <2>2, Joined, JoinedHold
    <2> QED BY <2>3 DEF Good
  <1>13. Len(w) > 0 /\ w[Len(w)].dst = Slot(Dst)
    <2>1. CASE tail = <<>>
      <3>1. Len(tail) = 0 /\ Len(legs) > 0 /\ legs[Len(legs)].dst = Slot(Dst)
        BY <1>1, <2>1 DEF EmitInv, tail
      <3> QED BY <1>6, <1>7, <3>1, SeqParts
    <2>2. CASE tail # <<>>
      <3>1. Len(tail) > 0 /\ tail[Len(tail)].dst = Slot(Dst)
        BY <1>5, <1>6, <2>2 DEF tail
      <3> QED BY <1>6, <1>7, <3>1, SeqParts
    <2> QED BY <2>1, <2>2
  <1>14. Slot(Src) \in Final \/ Sweeps(w, Slot(Src))
    BY <1>1, <1>6, <1>7, <1>10, SweepsJoined DEF EmitInv
  <1> HIDE DEF w
  <1>15. w = legs'
    BY <1>7 DEF w
  <1>16. Ordered'
    BY <1>3, <1>9, <1>11, <1>12, <1>13, <1>15 DEF Ordered
  <1>17. Moving'
    <2>1. Deltas(Leaving(NodeOf[Src])) \in Nat
      BY <1>2, DeltasAre
    <2>2. balance' \in [Token -> Nat] /\ base' \in Nat
      BY <1>1, <1>2, <2>1
    <2>3. \A t \in Token : balance'[t] > 0 => t = Slot(Src)
      BY <1>1, <1>2
    <2>4. next' \in 1..Len(w) + 1
      BY <1>1, <1>12
    <2>5. \A t \in Token : balance'[t] > 0 =>
            t \in Final \/ \E j \in next'..Len(w) : w[j].src = t /\ w[j].bps = 0
      BY <1>1, <1>14, <2>3 DEF Sweeps
    <2> QED BY <1>3, <1>15, <2>2, <2>4, <2>5 DEF Moving
  <1> QED BY <1>1, <1>16, <1>17 DEF LegsInv

LEMMA SharesFit ==
    \A b, m \in Nat : (b * m) \div BPS \in Nat
  <1>1. \A x \in Nat, d \in Nat \ {0} : x \div d \in Nat
    BY SMT
  <1>2. \A b, m \in Nat : b * m \in Nat
    BY SMT
  <1> QED BY <1>1, <1>2, TokensTyped

\* What a leg takes is there to take, and all of it when the leg sweeps its slot.
LEMMA TakeIs ==
    ASSUME Ordered, Moving, next <= Len(legs)
    PROVE  /\ next \in 1..Len(legs) /\ Leg \in LegType /\ LegFine(Leg)
           /\ Opening \in Nat /\ Take \in Nat /\ Take <= balance[Leg.src]
           /\ Leg.bps = 0 => Take = balance[Leg.src]
           /\ (Take * Rate[Leg.in]) \div Rate[Leg.out] \in Nat
  <1>1. next \in 1..Len(legs) /\ legs \in Seq(LegType)
    BY DEF Ordered, Moving
  <1>2. Leg \in LegType /\ LegFine(Leg)
    BY <1>1 DEF Leg, Ordered
  <1>3. Leg.src \in Token /\ Leg.in \in Token /\ Leg.out \in Token /\ Leg.bps \in Nat
    BY <1>2, TokensTyped DEF LegType
  <1>4. balance[Leg.src] \in Nat /\ base \in Nat
    BY <1>3 DEF Moving
  <1>5. Opening \in Nat
    BY <1>4 DEF Opening
  <1>6. Take \in Nat /\ Take <= balance[Leg.src] /\ (Leg.bps = 0 => Take = balance[Leg.src])
    <2>1. CASE Leg.bps = 0
      BY <1>4, <2>1 DEF Take
    <2>2. CASE Leg.bps # 0
      <3> DEFINE x == (Opening * Leg.bps) \div BPS
                 y == balance[Leg.src]
      <3>1. x \in Nat /\ y \in Nat
        BY <1>3, <1>4, <1>5, SharesFit
      <3>2. Take = Min({x, y})
        BY <2>2 DEF Take
      <3> HIDE DEF x, y
      <3>3. Min({x, y}) \in {x, y} /\ Min({x, y}) <= y
        <4>1. \E m \in {x, y} : \A z \in {x, y} : m <= z
          BY <3>1
        <4> QED BY <3>1, <4>1 DEF Min
      <3>4. Take \in Nat /\ Take <= y
        BY <3>1, <3>2, <3>3
      <3> QED BY <2>2, <3>4 DEF y
    <2> QED BY <2>1, <2>2
  <1>7. (Take * Rate[Leg.in]) \div Rate[Leg.out] \in Nat
    <2>1. \A x \in Nat, d \in Nat \ {0} : x \div d \in Nat
      BY SMT
    <2>2. Rate[Leg.in] \in Nat /\ Rate[Leg.out] \in Nat \ {0}
      BY <1>3, TokensTyped
    <2>3. Take * Rate[Leg.in] \in Nat
      BY <1>6, <2>2
    <2> QED BY <2>1, <2>2, <2>3
  <1> QED BY <1>1, <1>2, <1>5, <1>6, <1>7

LEMMA WalkKeepsLegs == ASSUME RealizeInv, Walk PROVE LegsInv'
  <1>1. /\ SameFlow /\ phase = "walk" /\ phase' = "walk" /\ legs' = legs /\ next' = next + 1
        /\ next <= Len(legs) /\ Ordered /\ Moving /\ base' = Opening
    BY DEF Walk, RealizeInv, LegsInv, SameFlow
  <1> DEFINE paid == (Take * Rate[Leg.in]) \div Rate[Leg.out]
             s == Leg.src
             d == Leg.dst
             rest == balance[s] - Take
             full == balance[d] + paid
  <1>2. /\ next \in 1..Len(legs) /\ Leg \in LegType /\ LegFine(Leg) /\ Opening \in Nat
        /\ Take \in Nat /\ Take <= balance[s] /\ (Leg.bps = 0 => Take = balance[s])
        /\ paid \in Nat
    BY <1>1, TakeIs
  <1>3. s \in Token /\ d \in Token /\ s # d
    BY <1>2 DEF LegType, LegFine
  <1>4. balance \in [Token -> Nat] /\ balance[s] \in Nat /\ balance[d] \in Nat
    BY <1>1, <1>3 DEF Moving
  <1> HIDE DEF paid
  <1>5. balance' = [balance EXCEPT ![s] = rest, ![d] = full]
    BY <1>3, <1>4, SMTT(30) DEF Walk, paid
  <1>6. rest \in Nat /\ full \in Nat /\ (Leg.bps = 0 => rest = 0)
    BY <1>2, <1>4
  <1> HIDE DEF rest, full
  <1>7. /\ balance' \in [Token -> Nat]
        /\ balance'[s] = rest /\ balance'[d] = full
        /\ \A t \in Token : t # s /\ t # d => balance'[t] = balance[t]
    BY <1>3, <1>4, <1>5, <1>6
  <1>8. Leg = legs[next] /\ Len(legs) \in Nat
    BY <1>1 DEF Leg, Ordered
  <1>9. ASSUME NEW t \in Token, balance'[t] > 0, t \notin Final
        PROVE  \E j \in next + 1..Len(legs) : legs[j].src = t /\ legs[j].bps = 0
    <2>1. CASE t = d
      BY <1>1, <1>2, <1>8, <1>9, <2>1 DEF Ordered, Swept
    <2>2. CASE t = s
      <3>1. Leg.bps # 0 /\ balance[t] > 0
        <4>1. rest > 0
          BY <1>7, <1>9, <2>2
        <4>2. balance[s] >= rest
          BY <1>2, <1>4 DEF rest
        <4> QED BY <1>4, <1>6, <2>2, <4>1, <4>2
      <3>2. PICK j \in next..Len(legs) : legs[j].src = t /\ legs[j].bps = 0
        BY <1>1, <1>9, <3>1 DEF Moving
      <3>3. j # next
        BY <1>8, <3>1, <3>2
      <3> QED BY <1>2, <3>2, <3>3
    <2>3. CASE t # s /\ t # d
      <3>1. PICK j \in next..Len(legs) : legs[j].src = t /\ legs[j].bps = 0
        BY <1>1, <1>7, <1>9, <2>3 DEF Moving
      <3>2. j # next
        BY <1>8, <2>3, <3>1
      <3> QED BY <1>2, <3>1, <3>2
    <2> QED BY <2>1, <2>2, <2>3
  <1>10. Final' = Final /\ (\A l : LegFine(l)' <=> LegFine(l)) /\ Dst' = Dst
    BY <1>1, SameFlowSameLegs, SameFlowSame
  <1>11. Ordered'
    BY <1>1, <1>10 DEF Ordered
  <1>12. next' \in 1..Len(legs) + 1
    BY <1>1, <1>2
  <1>13. Moving'
    BY <1>1, <1>2, <1>7, <1>9, <1>10, <1>12 DEF Moving
  <1> QED BY <1>1, <1>11, <1>13 DEF LegsInv

\* A step that leaves the flow, the legs and the replay as they are.
LEMMA StillKeepsLegs ==
    ASSUME RealizeInv, SameFlow, legs' = legs, left' = left, replay' = replay
    PROVE  /\ EmitInv => EmitInv'
           /\ Ordered /\ Moving => Ordered' /\ Moving'
  <1>1. /\ Final' = Final /\ (\A l : LegFine(l)' <=> LegFine(l)) /\ Dst' = Dst /\ Src' = Src
        /\ DestinationLeg' = DestinationLeg /\ Entering(DstNode)' = Entering(DstNode)
        /\ DstNode' = DstNode /\ Rests(left)' = Rests(left)
    BY SameFlowSameLegs, SameFlowSame
  <1>2. balance' = balance /\ base' = base /\ next' = next
    BY DEF replay
  <1>3. EmitInv => EmitInv'
    BY <1>1 DEF EmitInv
  <1>4. Ordered => Ordered'
    BY <1>1 DEF Ordered
  <1>5. Moving => Moving'
    BY <1>1, <1>2 DEF Moving
  <1> QED BY <1>3, <1>4, <1>5

LEMMA RealizeInvNext == RealizeInv /\ [RealizeNext]_realizeVars => RealizeInv'
  <1> SUFFICES ASSUME RealizeInv, [RealizeNext]_realizeVars PROVE LegsInv'
    BY FlowInvNext DEF RealizeInv
  <1>1. FlowInv'
    BY FlowInvNext DEF RealizeInv
  <1>2. CASE Cancel
    BY <1>2 DEF Cancel, RealizeInv, LegsInv, replay
  <1>3. CASE Acyclic
    BY <1>3 DEF Acyclic, RealizeInv, LegsInv, replay
  <1>4. CASE Prune
    BY <1>4 DEF Prune, RealizeInv, LegsInv, replay
  <1>5. CASE Pruned
    BY <1>1, <1>5, PrunedKeepsLegs
  <1>6. ASSUME NEW n \in Node, Emit(n) PROVE LegsInv'
    <2>1. phase = "emit" /\ phase' = "emit" /\ replay' = replay
      BY <1>6 DEF Emit
    <2>2. EmitInv'
      BY <1>6, <2>1, EmitKeepsLegs DEF RealizeInv, LegsInv
    <2> QED BY <2>1, <2>2 DEF RealizeInv, LegsInv, replay
  <1>7. CASE EmitTail
    BY <1>7, TailKeepsLegs
  <1>8. CASE Walk
    BY <1>8, WalkKeepsLegs
  <1>9. CASE Walked
    <2>1. /\ SameFlow /\ legs' = legs /\ left' = left /\ replay' = replay
          /\ phase = "walk" /\ phase' = "done" /\ next > Len(legs)
      BY <1>9 DEF Walked, SameFlow
    <2>2. Ordered /\ Moving
      BY <2>1 DEF RealizeInv, LegsInv
    <2>3. next = Len(legs) + 1
      <3>1. next \in 1..Len(legs) + 1 /\ Len(legs) \in Nat
        BY <2>2 DEF Ordered, Moving
      <3> QED BY <2>1, <3>1
    <2>4. Ordered' /\ Moving'
      BY <2>1, <2>2, StillKeepsLegs
    <2>5. next' = Len(legs') + 1
      BY <2>1, <2>3 DEF replay
    <2> QED BY <2>1, <2>4, <2>5 DEF LegsInv
  <1>10. CASE UNCHANGED realizeVars
    <2>1. SameFlow /\ legs' = legs /\ left' = left /\ replay' = replay /\ phase' = phase
      BY <1>10 DEF realizeVars, replay, SameFlow
    <2>2. /\ EmitInv => EmitInv'
          /\ Ordered /\ Moving => Ordered' /\ Moving'
      BY <2>1, StillKeepsLegs
    <2> QED BY <2>1, <2>2 DEF RealizeInv, LegsInv, replay
  <1> QED
    BY <1>2, <1>3, <1>4, <1>5, <1>6, <1>7, <1>8, <1>9, <1>10 DEF RealizeNext

LEMMA RealizeInvHolds == RealizeSpec => []RealizeInv
  <1>1. RealizeInit => RealizeInv
    BY FlowInvInit, LegsInvInit DEF RealizeInv
  <1> QED BY <1>1, RealizeInvNext, PTL DEF RealizeSpec

LEMMA RealizeInvImpliesOrder == RealizeInv => LegsAreInOrder
  <1> SUFFICES ASSUME RealizeInv, phase = "walk" PROVE LegsAreInOrder
    BY DEF LegsAreInOrder
  <1>1. Ordered
    BY DEF RealizeInv, LegsInv
  <1>2. DOMAIN legs = 1..Len(legs)
    BY <1>1 DEF Ordered
  <1> QED BY <1>1, <1>2 DEF Ordered, InTurn, LegFine, LegsAreInOrder

LEMMA RealizeInvImpliesArrival == RealizeInv => EverythingArrives
  <1> SUFFICES ASSUME RealizeInv, phase = "done", NEW t \in Token \ {Slot(Dst)}, balance[t] > 0
               PROVE  /\ t = Slot(Hub(NodeOf[t])) /\ Leaving(NodeOf[t]) # {}
                      /\ \A x \in Items(NodeOf[t]) : x.arcs \cap capped # {}
    BY DEF EverythingArrives
  <1>1. Moving /\ next = Len(legs) + 1 /\ Len(legs) \in Nat
    BY DEF RealizeInv, LegsInv, Ordered
  <1>2. next..Len(legs) = {}
    BY <1>1
  <1>3. t \in Final
    BY <1>1, <1>2 DEF Moving
  <1> QED BY <1>3 DEF Final, Excused, AbsorbsRemainder

LEMMA RealizeInvImpliesCaps == RealizeInv => CapsTakeNoRemainder
  <1> SUFFICES ASSUME RealizeInv PROVE CapsTakeNoRemainder
    OBVIOUS
  <1>1. legs \in Seq(LegType) /\ \A i \in 1..Len(legs) : LegFine(legs[i])
    <2>1. CASE phase \in {"cancel", "prune"}
      <3>1. legs = <<>>
        BY <2>1 DEF RealizeInv, LegsInv
      <3> QED BY <3>1
    <2>2. CASE phase = "emit"
      BY <2>2 DEF RealizeInv, LegsInv, EmitInv
    <2>3. CASE phase \in {"walk", "done"}
      BY <2>3 DEF RealizeInv, LegsInv, Ordered
    <2> QED BY <2>1, <2>2, <2>3 DEF RealizeInv, FlowInv, FlowTyped
  <1> QED BY <1>1 DEF CapsTakeNoRemainder, LegFine

\* The legs of a route can be run one after another, from Kahn's order and the last leg's
\* slot on (realize.py:169, 479): for every route, every order of its nodes and every cap.
THEOREM LegsInOrder == RealizeSpec => []LegsAreInOrder
  BY RealizeInvHolds, RealizeInvImpliesOrder, PTL

\* Once they have run, nothing is left anywhere but where it was left on purpose.
THEOREM AllArrives == RealizeSpec => []EverythingArrives
  BY RealizeInvHolds, RealizeInvImpliesArrival, PTL

\* No arc with a cap takes what is left of a node (realize.py:552).
THEOREM CapsLeaveRemainders == RealizeSpec => []CapsTakeNoRemainder
  BY RealizeInvHolds, RealizeInvImpliesCaps, PTL
=============================================================================
