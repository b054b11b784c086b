--------------------------- MODULE RoutePipeline ---------------------------
(* One quote, from a solved flow to a published route (core/pipeline.py with *)
(* core/verify.py): candidates are realised, quoted on chain and ranked, the *)
(* plain swaps are added and all is ranked again; the winner is refitted,    *)
(* the scout may adopt a wider route in its place, and its split is tuned.   *)
(* Every step after the ranking writes to routes the ranking still holds.    *)
(*                                                                           *)
(* A candidate is a name.  Its shape is what the solve and realisation made  *)
(* of it; what the chain answers for it is chosen when it is asked, once per *)
(* split.  Amounts are small integers; what is computed from one as a double *)
(* is computed from Float of it.                                            *)
EXTENDS Integers, FiniteSets, FiniteSetsExt, Functions

CONSTANTS
    Ballot,     \* the candidates of generate, Base among them
    Base,       \* "C0 full", the relaxation's own answer
    Direct,     \* direct_candidates: one-hop swaps
    TwoStep,    \* two_step_candidates: chains of two hops
    Refit,      \* "refit at realised size"
    Shapes,     \* the [Names -> shape] a quote may meet
    MaxOut,     \* the largest amount there is
    Outs,       \* what the chain may answer; 0 is a revert
    Float,      \* int(float(amount)): the double nearest to it
    LEG_GAS,    \* the gas of one stable swap, in the output token
    TIE_PARTS,  \* TIE_FLOOR is one of so many parts of the best score
    MARGIN,     \* SCOUT_MARGIN_BP of the trade
    SCOUT_CANDIDATES, MAX_SLOTS,
    MaxLegs,    \* the caller's max_legs
    None

Names == Ballot \cup Direct \cup TwoStep \cup {Refit}
\* kind == "direct", which the chains carry too.
Plain == Direct \cup TwoStep
\* The splits a route has been through: the solve's, the scout's, the search's.
Solved == 0
Scouted == 1
Searched == 2
Splits == {Solved, Scouted, Searched}

\* gas.shape_cost at each value: gas, or a premium on the value where that is more.
ShapeType ==
    [legs : Nat \ {0}, slots : Nat, width : Nat, risk : Nat, splits : BOOLEAN, conflict : BOOLEAN,
     cost : [0..MaxOut -> Nat]]

ASSUME PipelineAssumption ==
    /\ Base \in Ballot /\ IsFiniteSet(Names) /\ None \notin Names
    /\ MaxOut \in Nat /\ Outs \subseteq 0..MaxOut
    /\ Float \in [0..MaxOut -> 0..MaxOut] /\ Float[0] = 0
    /\ \A v, w \in 0..MaxOut : v <= w => Float[v] <= Float[w]
    /\ \A v \in 0..MaxOut : Float[Float[v]] = Float[v]
    /\ {LEG_GAS, MARGIN, SCOUT_CANDIDATES, MAX_SLOTS, MaxLegs} \subseteq Nat
    /\ TIE_PARTS \in Nat \ {0}
    /\ Shapes \subseteq [Names -> ShapeType]
    /\ \A s \in Shapes, c \in Names, v, w \in 0..MaxOut :
          v <= w => v - s[c].cost[v] <= w - s[c].cost[w]
    /\ \A s \in Shapes, c \in Plain : ~s[c].splits

VARIABLES
    stage,
    shape,        \* [Names -> what realisation makes of it]
    risky,        \* a risk_table was given
    base_proved,  \* the solve's own certificate
    status, out, rank, split,  \* [Names -> a candidate's fields, and its route's weights]
    chain,        \* [Names \X Splits -> what was answered, or what nobody asked]
    route,        \* result.route, the candidate it is of; Base for the modelled one
    winner, verified_out, certificate,
    priced,       \* the route and split price_legs asked the pools about
    adopted       \* history: the scout put a challenger in the winner's place

ballot == <<status, out, rank, split>>
result == <<route, winner, verified_out>>
given == <<shape, risky, base_proved>>
vars == <<stage, given, ballot, chain, result, certificate, priced, adopted>>

NotAsked == [out |-> 0, over |-> TRUE]
\* over: the modelled amounts at this split put more into a pool than it takes.
Answers == {[out |-> 0, over |-> FALSE]} \cup [out : Outs \ {0}, over : BOOLEAN]

----------------------------------------------------------------------------
(* realize_candidates.                                                     *)

\* Slip: the limit is the quoter's, not the caller's.
RealizedUncapped(c) ==
    IF shape[c].conflict THEN "conflict"
    ELSE IF shape[c].slots > MAX_SLOTS THEN "too_wide" ELSE "ready"

Realized(c) ==
    IF shape[c].conflict THEN "conflict"
    ELSE IF shape[c].slots > MAX_SLOTS THEN "too_wide"
    ELSE IF shape[c].legs > MaxLegs THEN "too_long" ELSE "ready"

----------------------------------------------------------------------------
(* verify: quote what is ready, rank what is ok.                           *)

Ready(st) == {c \in Names : st[c] = "ready"}
Usable(st) == {c \in Names : st[c] = "ok"}

\* A pool past its room quotes happily and then reverts.
Quoted(answer) == IF answer.out = 0 \/ answer.over THEN "reverted" ELSE "ok"

Net(c, value) == LET f == Float[value] IN f - shape[c].cost[f]

Score(c, value) == Net(c, value) - IF risky THEN shape[c].risk ELSE 0

\* What another leg has to earn: its gas, or a floor on the best score.
Tolerance(best) == Max({LEG_GAS, best \div TIE_PARTS, (-best) \div TIE_PARTS})

\* Slip: whatever quotes best is first.
BySizeOnly(a, b, best, value) == value[a] > value[b]

\* rank_key: near the best the fewest legs win, elsewhere the best score.
Before(a, b, best, value) ==
    LET near(c) == best - Score(c, value[c]) <= Tolerance(best)
        legs(c) == IF near(c) THEN shape[c].legs ELSE 0
    IN  \/ near(a) /\ ~near(b)
        \/ near(a) = near(b) /\ legs(a) < legs(b)
        \/ near(a) = near(b) /\ legs(a) = legs(b) /\ Score(a, value[a]) > Score(b, value[b])

\* The orders sorted() may leave: those that respect Before.  Ties fall either way.
Orders(usable, value) ==
    LET best == Max({Score(c, value[c]) : c \in usable})
    IN  {o \in Bijection(usable, 1..Cardinality(usable)) :
            \A a, b \in usable : Before(a, b, best, value) => o[a] < o[b]}

\* Slip: no floor.
Unfloored(o, usable, value) == o

\* Never below a plain route: the best of them is moved to the front.
Floored(o, usable, value) ==
    LET directs == usable \cap Plain
        first == CHOOSE c \in usable : o[c] = 1
        tops == {d \in directs : \A e \in directs : Score(e, value[e]) <= Score(d, value[d])}
        floor == CHOOSE d \in tops : TRUE
    IN  IF directs # {} /\ Score(first, value[first]) < Score(floor, value[floor])
        THEN [c \in usable |-> IF c = floor THEN 1 ELSE IF o[c] < o[floor] THEN o[c] + 1 ELSE o[c]]
        ELSE o

\* Ranks as verify leaves them; one no longer ok keeps none (0).
Ranks(st, value) ==
    IF Usable(st) = {} THEN {[c \in Names |-> 0]}
    ELSE {[c \in Names |-> IF c \in Usable(st) THEN Floored(o, Usable(st), value)[c] ELSE 0] :
             o \in Orders(Usable(st), value)}

\* verify over the pool set with `st` for its statuses.
Verify(st) ==
    \E answer \in [Ready(st) -> Answers] :
        LET st2 == [c \in Names |-> IF c \in Ready(st) THEN Quoted(answer[c]) ELSE st[c]]
            value == [c \in Names |-> IF c \in Ready(st) /\ st2[c] = "ok"
                                      THEN answer[c].out ELSE out[c]]
        IN  /\ status' = st2
            /\ out' = value
            /\ rank' \in Ranks(st2, value)
            /\ chain' = [k \in Names \X Splits |->
                            IF k[1] \in Ready(st) /\ k[2] = Solved THEN answer[k[1]] ELSE chain[k]]
            /\ UNCHANGED split

\* CandidateSet.best
Best(st, ranks) == IF Usable(st) = {} THEN None ELSE CHOOSE c \in Usable(st) : ranks[c] = 1

----------------------------------------------------------------------------
\* The flow is not conserved, or nothing is left of it: RoutingError.
Unsound ==
    /\ stage = "solve"
    /\ stage' = "failed"
    /\ UNCHANGED <<given, ballot, chain, result, certificate, priced, adopted>>

\* The relaxation's own answer is realised, within no limit.
RealizeBase ==
    /\ stage = "solve"
    /\ stage' = "candidates"
    /\ route' = Base
    /\ UNCHANGED <<given, ballot, chain, winner, verified_out, certificate, priced, adopted>>

VerifyBallot ==
    /\ stage = "candidates"
    /\ stage' = "direct"
    /\ Verify([c \in Names |-> IF c \in Ballot THEN Realized(c) ELSE status[c]])
    /\ UNCHANGED <<given, result, certificate, priced, adopted>>

\* The safety floor: what realises is added, and all of it is ranked again.
VerifyDirect ==
    /\ stage = "direct"
    /\ stage' = "choose"
    /\ Verify([c \in Names |-> IF c \in Plain /\ Realized(c) = "ready"
                               THEN "ready" ELSE status[c]])
    /\ UNCHANGED <<given, result, certificate, priced, adopted>>

ChooseWinner ==
    /\ stage = "choose" /\ Usable(status) # {}
    /\ LET best == Best(status, rank)
       IN  /\ route' = best /\ winner' = best /\ verified_out' = out[best]
           /\ certificate' = (certificate /\ best = Base)
    /\ stage' = "refit"
    /\ UNCHANGED <<given, ballot, chain, priced, adopted>>

\* Nothing could be quoted: the modelled route, unverified, if it is short enough.
FallBack == UNCHANGED result /\ stage' = IF shape[Base].legs > MaxLegs THEN "failed" ELSE "price"

NoWinner ==
    /\ stage = "choose" /\ Usable(status) = {}
    /\ FallBack
    /\ UNCHANGED <<given, ballot, chain, certificate, priced, adopted>>

----------------------------------------------------------------------------
(* _refit_winner: the refitted flow is quoted alone, then ranked with the    *)
(* rest; whatever is best then is the answer.                               *)

RefitChanges ==
    /\ stage = "refit" /\ status[Refit] = "new"
    /\ Realized(Refit) = "ready"
    /\ \E answer \in Answers :
          /\ Quoted(answer) = "ok"
          /\ chain' = [chain EXCEPT ![<<Refit, Solved>>] = answer]
          /\ status' = [status EXCEPT ![Refit] = "ok"]
          /\ out' = [out EXCEPT ![Refit] = answer.out]
          /\ rank' \in Ranks(status', out')
    /\ LET best == Best(status', rank')
       IN  route' = best /\ winner' = best /\ verified_out' = out'[best]
    /\ stage' = "scout"
    /\ UNCHANGED <<given, split, certificate, priced, adopted>>

\* Unchanged, unrealised, or not quoted: the winner stays.
RefitStays ==
    /\ stage = "refit"
    /\ stage' = "scout"
    /\ UNCHANGED <<given, ballot, chain, result, certificate, priced, adopted>>

----------------------------------------------------------------------------
(* _scout_wider: the incumbent and one wider route, both with new weights.   *)

\* scout_priority: nothing to re-split is no entrant.
Priority(c) == IF shape[c].splits THEN shape[c].width ELSE 0

Wider == {c \in Usable(status) \ {winner} : Priority(c) > shape[winner].width}
Entrants == {c \in Wider : Cardinality({d \in Wider : Priority(d) > Priority(c)})
                               < SCOUT_CANDIDATES}

Bar(c) == Float[verified_out] + IF c = winner THEN 0 ELSE MARGIN

\* Slip: proposals are compared on what they quote.
GrossBetter(c, value) == value > Bar(c)

Better(c, value) == value > Bar(c) /\ Net(c, value) > Net(winner, verified_out)

\* Slip: the weights are put back but the figure of the new ones is kept.
HalfBack(c, to, figure, over) ==
    /\ split' = [split EXCEPT ![c] = IF over THEN @ ELSE to]
    /\ out' = [out EXCEPT ![c] = figure]
    /\ route' = c /\ winner' = c /\ verified_out' = figure

\* New weights in place, published at that figure; past a pool's room the old ones
\* are put back.
Reweigh(c, to, figure, over) ==
    IF over THEN UNCHANGED <<split, out, result>>
    ELSE /\ split' = [split EXCEPT ![c] = to]
         /\ out' = [out EXCEPT ![c] = figure]
         /\ route' = c /\ winner' = c /\ verified_out' = figure

\* The quotes are compared, and the best of them published, as doubles.
Scout ==
    /\ stage = "scout" /\ Entrants # {}
    /\ \E challenger \in Entrants :
       \E proposed \in SUBSET ({challenger} \cup IF shape[winner].splits THEN {winner} ELSE {}) :
       \E answer \in [proposed -> Answers] :
          LET figure == [c \in proposed |-> Float[answer[c].out]]
              better == {c \in proposed : Better(c, figure[c])}
              top == Max({Net(c, figure[c]) : c \in better})
              tops == {c \in better : Net(c, figure[c]) = top}
              found == IF winner \in tops THEN winner ELSE challenger
          IN  /\ proposed # {}
              /\ chain' = [k \in Names \X Splits |->
                              IF k[1] \in proposed /\ k[2] = Scouted THEN answer[k[1]] ELSE chain[k]]
              /\ IF better = {} THEN UNCHANGED <<split, out, result, adopted>>
                 ELSE /\ Reweigh(found, Scouted, figure[found], answer[found].over)
                      /\ adopted' = (found # winner /\ ~answer[found].over)
    /\ stage' = "split"
    /\ UNCHANGED <<given, status, rank, certificate, priced>>

\* No wider route, or nothing predicted to clear its bar.
NoScout ==
    /\ stage = "scout"
    /\ stage' = "split"
    /\ UNCHANGED <<given, ballot, chain, result, certificate, priced, adopted>>

(* _optimise_split: on what the scout left, and only a strict improvement.   *)

Improves(value) == value > verified_out

\* What polish found, where the quoter is local, is a double; what a batch answered
\* is as it came.
OptimiseSplit ==
    /\ stage = "split" /\ shape[route].splits
    /\ \E answer \in Answers, polished \in BOOLEAN :
          LET figure == IF polished THEN Float[answer.out] ELSE answer.out
          IN  /\ chain' = [chain EXCEPT ![<<route, Searched>>] = answer]
              /\ IF Improves(figure) THEN Reweigh(route, Searched, figure, answer.over)
                 ELSE UNCHANGED <<split, out, result>>
    /\ stage' = "price"
    /\ UNCHANGED <<given, status, rank, certificate, priced, adopted>>

\* No group, or should_optimise says the model is near enough.
NoSplit ==
    /\ stage = "split"
    /\ stage' = "price"
    /\ UNCHANGED <<given, ballot, chain, result, certificate, priced, adopted>>

\* price_legs, on the route as finally split.
PriceLegs ==
    /\ stage = "price"
    /\ stage' = "done"
    /\ priced' = <<route, split[route]>>
    /\ UNCHANGED <<given, ballot, chain, result, certificate, adopted>>

Init ==
    /\ stage = "solve"
    /\ shape \in Shapes /\ risky \in BOOLEAN /\ base_proved \in BOOLEAN
    /\ status = [c \in Names |-> "new"] /\ out = [c \in Names |-> 0]
    /\ rank = [c \in Names |-> 0] /\ split = [c \in Names |-> Solved]
    /\ chain = [k \in Names \X Splits |-> NotAsked]
    /\ route = None /\ winner = None /\ verified_out = 0
    /\ certificate = base_proved
    /\ priced = <<None, Solved>> /\ adopted = FALSE

Next ==
    \/ Unsound \/ RealizeBase \/ VerifyBallot \/ VerifyDirect \/ ChooseWinner \/ NoWinner
    \/ RefitChanges \/ RefitStays \/ Scout \/ NoScout \/ OptimiseSplit \/ NoSplit \/ PriceLegs

Spec == Init /\ [][Next]_vars

----------------------------------------------------------------------------
TypeOK ==
    /\ stage \in {"solve", "candidates", "direct", "choose", "refit", "scout", "split", "price",
                  "done", "failed"}
    /\ status \in [Names -> {"new", "conflict", "too_wide", "too_long", "ready", "reverted", "ok"}]
    /\ Ready(status) = {}
    /\ {rank[c] : c \in Usable(status)} \subseteq 1..Cardinality(Names)
    /\ split \in [Names -> Splits]
    /\ winner # None => winner = route /\ status[winner] = "ok"

\* What a candidate carries when the chain's answer for these weights was `answer`:
\* that answer from the ranking, its double from the scout, either from the search.
Carried(weights, answer) ==
    CASE weights = Solved -> {answer}
      [] weights = Scouted -> {Float[answer]}
      [] weights = Searched -> {answer, Float[answer]}

\* The figure a quote is published with is what the chain answered for the very
\* weights the route carries, as the pass that set them read it, and the legs were
\* priced on those, though three passes write weights and figures in place on routes
\* the ranking holds.
PublishedIsWhatWasQuoted ==
    /\ winner # None =>
          LET answer == chain[<<route, split[route]>>].out
          IN  /\ answer > 0 /\ verified_out > 0
              /\ verified_out \in Carried(split[route], answer)
              /\ verified_out = out[winner]
    /\ stage = "done" => priced = <<route, split[route]>>

\* What is published with a quote is a route its pools would take: no pool twice but
\* as one element, no more than they have room for at the weights it carries
\* ("quotes ... do not refuse what the pool will", pipeline.py:1479).  The caller's limit holds for
\* what is published without one as well.
PublishedFits ==
    /\ winner # None => /\ ~shape[route].conflict /\ shape[route].slots <= MAX_SLOTS
                        /\ ~chain[<<route, split[route]>>].over
    /\ stage = "done" => shape[route].legs <= MaxLegs

\* "Never worse than a pool you could find by inspection is a promise"
\* (verify.py): on what ranks them, no quoted one-hop swap or chain of two beats the
\* answer.  Where risk is priced the scout may break it, for it compares without.
NeverBelowDirect ==
    winner # None /\ ~(risky /\ adopted) =>
        \A d \in Usable(status) \cap Plain : Score(d, out[d]) <= Score(winner, verified_out)

\* What the ranking, given these figures, may put first.  Of what is near the best,
\* the best of the shortest; or a plain route, near the best too and the best of the
\* plain ones, if all of those score below it.
FirstOf(usable, value) ==
    LET score(c) == Score(c, value[c])
        best == Max({score(c) : c \in usable})
        near == {c \in usable : best - score(c) <= Tolerance(best)}
        shortest == {c \in near : \A d \in near : shape[c].legs <= shape[d].legs}
        topOf(S) == {c \in S : \A d \in S : score(d) <= score(c)}
    IN  topOf(shortest) \cup
        {c \in near \cap topOf(usable \cap Plain) : \A d \in shortest : score(d) < score(c)}

\* Until the scout the answer is the ranking's over everything quoted so far, the
\* refit included ("a stale rank silently picks the wrong route", verify.py).
WinnerIsTheRankings ==
    stage \in {"refit", "scout"} => winner \in FirstOf(Usable(status), out)

\* What is done to the winner after the ranking, be it other weights or another
\* route, never pays less, nor less once its legs are paid for.
TuningNeverCosts ==
    [][(stage \in {"scout", "split"}) =>
          /\ verified_out' >= verified_out
          /\ Net(winner', verified_out') >= Net(winner, verified_out)]_vars

\* Stated at verify.py:253, of the tie-break: "a direct candidate has one leg, so it
\* wins any tie".  So nothing near the best is shorter than the answer.
TieGoesToTheShortest ==
    stage = "refit" =>
        LET best == Max({Score(c, out[c]) : c \in Usable(status)})
        IN  \A c \in Usable(status) :
               best - Score(c, out[c]) <= Tolerance(best) => shape[winner].legs <= shape[c].legs

\* Stated at pipeline.py:1088, of the split search: "it only accepts a strict
\* improvement".  So new weights are those of an answer above the last.
OnlyStrictImprovements ==
    [][stage = "split" /\ split' # split =>
          chain'[<<route, Searched>>].out > chain[<<route, split[route]>>].out]_vars

\* Stated at session.py:489 of verified_out: "what the chain says the route pays".
PublishedIsTheChains ==
    stage = "done" /\ winner # None => verified_out = chain[<<route, split[route]>>].out

\* Stated at docs/theory.md:214: a certificate that is not there is said not to be,
\* and a restriction of the program has none.  So one that is claimed is the
\* published route's.
CertificateIsThePublished == stage = "done" /\ certificate => route = Base
=============================================================================
