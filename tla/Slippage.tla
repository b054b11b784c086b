------------------------------ MODULE Slippage ------------------------------
(***************************************************************************)
(* erouter/core/slippage.py, as min_rates uses it: a total the caller      *)
(* names, divided between the legs of a route.                             *)
(*                                                                         *)
(* `raw` is what the network solve makes each leg drop, in parts of        *)
(* SHARE_ONE and of either sign, or NaN where it will not solve.  The      *)
(* module takes the solve's answer as given, whatever it is: what the      *)
(* division promises is meant to hold regardless.                          *)
(***************************************************************************)
EXTENDS RouteCall

CONSTANT BISECTIONS   \* the scale is settled to one part in 2^BISECTIONS, 60

ASSUME BisectionAssumption == 2 ^ BISECTIONS \in Nat \ {0}

\* The legs arrive in topological order.  Unreached is not zero: a slot only a
\* leg of no reached slot pays into is on no path.
Unreached == -1

\* Slip: the last branch into a slot is taken, not the dearest.
LongestOfTheLast(route, spend) ==
    LET best[n \in 0..Len(route.legs)] ==
          IF n = 0 THEN [slot \in Slots(route) |-> IF slot = 0 THEN 0 ELSE Unreached]
          ELSE LET l == route.legs[n]
                   before == best[n - 1]
               IN  IF before[l.src] = Unreached THEN before
                   ELSE [before EXCEPT ![l.dst] = before[l.src] + spend[n]]
    IN  AtLeast(0, best[Len(route.legs)][route.dst_slot])

Longest(route, spend) ==
    LET best[n \in 0..Len(route.legs)] ==
          IF n = 0 THEN [slot \in Slots(route) |-> IF slot = 0 THEN 0 ELSE Unreached]
          ELSE LET l == route.legs[n]
                   before == best[n - 1]
               IN  IF before[l.src] = Unreached THEN before
                   ELSE [before EXCEPT ![l.dst] = AtLeast(@, before[l.src] + spend[n])]
    IN  AtLeast(0, best[Len(route.legs)][route.dst_slot])

\* What a leg is owed however the rest is scaled: nothing, unless the network
\* runs it backwards.
Backstops(raw, floor) ==
    [n \in DOMAIN raw |-> IF raw[n] < 0 THEN AtLeast(-raw[n], floor[n]) ELSE 0]

\* Slip: the rescale erodes the floors.
BlendThrough(held, share, steps) ==
    [n \in DOMAIN share |-> (share[n] * steps) \div 2 ^ BISECTIONS]

\* `share` scaled by steps / 2^BISECTIONS around the floors.
Blend(held, share, steps) ==
    [n \in DOMAIN share |-> AtLeast(held[n], (share[n] * steps) \div 2 ^ BISECTIONS)]

\* The bisection: the greatest scale no path overspends at.
Settled(route, held, share, total) ==
    LET fits == {steps \in 0..2 ^ BISECTIONS - 1 :
                   Longest(route, Blend(held, share, steps)) <= total}
    IN  Blend(held, share, CHOOSE s \in fits : \A t \in fits : t <= s)

\* Slip: floors that fit the budget one by one are taken to fit it together.
DivideWithoutBisection(route, raw, resistance, total) ==
    LET drop  == IF raw = NaN THEN resistance ELSE raw
        held  == Backstops(drop, resistance)
        ahead == [n \in DOMAIN drop |-> AtLeast(0, drop[n])]
        even  == [n \in DOMAIN drop |-> 1]
        share == IF Longest(route, ahead) > 0 THEN ahead ELSE even
        spent == Longest(route, share)
        full  == [n \in DOMAIN drop |-> (share[n] * total) \div spent]
    IN  IF spent = 0 THEN held ELSE Blend(held, full, 2 ^ BISECTIONS)

\* divide, with the resistances for backstop as min_rates calls it.
Divide(route, raw, resistance, total) ==
    LET drop  == IF raw = NaN THEN resistance ELSE raw
        held  == Backstops(drop, resistance)
        ahead == [n \in DOMAIN drop |-> AtLeast(0, drop[n])]
        even  == [n \in DOMAIN drop |-> 1]
        share == IF Longest(route, ahead) > 0 THEN ahead ELSE even
        spent == Longest(route, share)
        full  == [n \in DOMAIN drop |-> (share[n] * total) \div spent]
    IN  IF spent = 0 THEN held
        ELSE IF \A n \in DOMAIN held : held[n] = 0 THEN full
        ELSE IF Longest(route, held) >= total THEN held
        ELSE Settled(route, held, full, total)

Backwards(raw) == IF raw = NaN THEN {} ELSE {n \in DOMAIN raw : raw[n] < 0}

\* Slip: the whole budget goes to every leg, not to the backwards ones alone.
WidenAll(raw, spend, floor) == [n \in DOMAIN spend |-> AtLeast(spend[n], floor)]

\* Only the legs the network runs backwards are raised, and only upwards.
Widen(raw, spend, floor) ==
    [n \in DOMAIN spend |-> IF n \in Backwards(raw) THEN AtLeast(spend[n], floor)
                            ELSE spend[n]]

\* What min_rates grants the legs under a named budget: the automatic
\* tolerances are the resistances, and movement keeps its floor.
NamedGrants(route, volatile, raw, total) ==
    LET legs  == route.legs
        grant == [n \in DOMAIN legs |-> Tolerance(legs[n], volatile)]
        spend == Widen(raw, Divide(route, raw, grant, total), total)
    IN  [n \in DOMAIN legs |->
           AtMost(SHARE_ONE, AtLeast(spend[n], MovementFloor(legs[n], volatile)))]

=============================================================================
