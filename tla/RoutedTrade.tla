---------------------------- MODULE RoutedTrade ----------------------------
(***************************************************************************)
(* ElectricRouter executing the calls that routecall.py encodes.  Each     *)
(* call has one more field here, `walk`, the walk that `walk_bounds` took  *)
(* when it was encoded: the balance of every token before the first leg    *)
(* and after each, were every leg to pay its minimum.  The question is     *)
(* what of that walk the contract makes good, whatever the pools pay.      *)
(***************************************************************************)
EXTENDS ElectricRouter

LegsOf(c) == Steps(c)

\* walk_bounds' loop body: a leg spends its fraction and gains its minimum.
LeastIn(balance, step) == (balance[step.token_in] * step.frac) \div ONE
LeastOut(balance, step) == (LeastIn(balance, step) * step.min_rate) \div ONE

WalkLeg(balance, step) ==
    [t \in Token |->
        balance[t] - (IF t = step.token_in THEN LeastIn(balance, step) ELSE 0)
                   + (IF t = step.token_out THEN LeastOut(balance, step) ELSE 0)]

WalkStart(c) ==
    [t \in Token |-> IF t = LegsOf(c)[1].token_in THEN c.amount_in ELSE 0]

IsWalk(c, walk) ==
    /\ Len(walk) = Len(c.words) + 1
    /\ walk[1] = WalkStart(c)
    /\ \A n \in 1..Len(c.words) : walk[n + 1] = WalkLeg(walk[n], LegsOf(c)[n])

\* The walk that comes with a call is the one its own words take.
ASSUME WalkAssumption ==
    \A c \in Calls : Accepts(c) => c.walk \in Seq([Token -> Nat]) /\ IsWalk(c, c.walk)

\* A route that ends on its last output and never spends it, as realize builds it.
EndsOnItsOutput(c) ==
    \A n \in 1..Len(c.words) : LegsOf(c)[n].token_in # LegsOf(c)[Len(c.words)].token_out

\* The last leg to spend a token spends all of it (fractions).
TakesTheRest(c) ==
    \A n \in 1..Len(c.words) :
        (\A m \in n + 1..Len(c.words) : LegsOf(c)[m].token_in # LegsOf(c)[n].token_in)
            => LegsOf(c)[n].frac = ONE

\* Nothing is paid of a token behind the last leg that spends it: realize takes the
\* nodes in topological order.
SpendsInOrder(c) ==
    \A n \in 1..Len(c.words) : \A m \in 1..n - 1 :
        LegsOf(c)[n].token_out = LegsOf(c)[m].token_in
            => \E l \in n + 1..Len(c.words) : LegsOf(c)[l].token_in = LegsOf(c)[m].token_in

LastTakesAll(c) == TakesTheRest(c) /\ SpendsInOrder(c)

\* guaranteed_out, before it is raised to min_out.
Promised(c) == c.walk[Len(c.words) + 1][LegsOf(c)[Len(c.words)].token_out]

\* The input arrives whole: the walk starts from amount_in itself.
ArrivesWhole(c) == LegsOf(c)[1].token_in \notin FeeOnTransfer \cup RoundsDown

----------------------------------------------------------------------------

\* The guarantee a caller signs for: however the pools move, a route that does
\* not revert answers with at least what its per-leg bounds promised together
\* (RouteCall.guaranteed_out), whatever the router held before it.
GuaranteeKept == pc = "sweep" => answer >= Promised(call)

\* The same of every leg: what a leg has been paid when its asserts let it
\* through is at least the floor walk_bounds gave it, though its dx is whatever
\* the legs before it really produced; and a leg is only skipped, for having
\* nothing to spend, where that floor is nothing.
FloorsEnforced ==
    /\ pc = "settle" /\ Clears(leg, Held(leg.token_out) - before)
         => Held(leg.token_out) - before >= LeastOut(call.walk[k], leg)
    /\ pc = "leg" /\ k <= N /\ Share(leg) = 0 => LeastOut(call.walk[k], leg) = 0

\* At the end nothing is left between the ends of a route but what a rounding
\* token kept back: the last leg out of a slot takes all of it (fractions).
NothingStranded ==
    pc = "sweep" /\ s = 1 =>
        \A n \in 1..N :
            steps[n].token_in \notin RoundsDown =>
                Held(steps[n].token_in) = 0

=============================================================================
