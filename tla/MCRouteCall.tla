---------------------------- MODULE MCRouteCall ----------------------------
(* RouteCall has no state: each initial state here is one input of it, a    *)
(* leg's quote, a split or a whole call, and the properties are about what  *)
(* it makes of that input.                                                  *)
EXTENDS Slippage, TLC

CONSTANTS A, B, S, W, E, x, w, d, alice, bob, Amounts, Pieces, Shares, Drops, Totals

VARIABLES
    about,  \* what the input is: "quote", "split", "call", "budget" or "unfilled"
    given

MCToken == {A, B, S, W, E}
MCPool == {x, w, d, W}
MCCoins == [p \in MCPool |-> IF p = x THEN <<A, B>> ELSE <<>>]
\* x keeps its share token elsewhere and has no getter for it
NoGetters == [p \in MCPool |-> NoToken]
Getters == [p \in MCPool |-> IF p = x THEN S ELSE IF p = w THEN A ELSE NoToken]

SmallAmounts == 1..40
SomeDrops == {-40, -2, 0, 7, 30}
Keep == UNCHANGED <<about, given>>

----------------------------------------------------------------------------
(* One leg's quote: `want` for `have`, and the share it is granted.        *)

Quotes == [want: Amounts, have: Amounts, share: Shares]
QuoteInit == about = "quote" /\ given \in Quotes
QuoteSpec == QuoteInit /\ [][Keep]_<<about, given>>

Least(quote) == FloorAt(quote.have, Bound(quote.want, quote.have, quote.share))

\* A leg that lands on the very quote it was bound by clears its bound; one too
\* coarse for its tolerance is left a whole unit, and no rate leaving one is
\* tighter (min_rates, "the tightest rate that still leaves a whole unit").
QuoteClearsItsBound ==
    about = "quote" =>
        /\ Least(given) <= given.want
        /\ given.want * given.share < SHARE_ONE =>
             /\ Least(given) < given.want
             /\ FloorAt(given.have, Bound(given.want, given.have, given.share) + 1)
                   >= given.want

\* What the rounding of a rate takes beyond the grant is bounded by one step of
\* it, have / ONE units, and the unit the floor itself rounds off: the bound is
\* never looser than that (min_rates, on what a rate's figures can carry).
NoLooserThanGranted ==
    about = "quote" =>
        LET slack == given.have \div ONE + 2
            granted == (given.want * given.share) \div SHARE_ONE
        IN  Least(given) >= given.want - granted - slack

\* Stated at tests/test_routecall.py:401: no leg is ever bound at its own quote.
NeverBoundAtItsQuote == given.share > 0 => Least(given) < given.want

----------------------------------------------------------------------------
(* A route: a split of slot 0 in up to three, then on from slot 1.         *)

Leg(from, to, in, out) ==
    [target |-> x, kind |-> "SWAP_STABLE", i |-> 0, j |-> 1, src |-> from, dst |-> to,
     token_in |-> A, token_out |-> B, amount_in |-> in, amount_out |-> out,
     verified_in |-> 0, verified_out |-> 0, fee_frac |-> NaN, fee_floor |-> NaN,
     gamma |-> SHARE_ONE]

SplitRoute(total, a, b) ==
    [amount_in |-> total, dst_slot |-> 2,
     legs |-> <<Leg(0, 1, a, a), Leg(0, 1, b, b), Leg(0, 1, total - a - b, total - a - b),
                Leg(1, 2, total, total)>>]

Splits == {SplitRoute(s[1], s[2], s[3]) :
             s \in {q \in Pieces \X Pieces \X Pieces : q[2] + q[3] <= q[1]}}
SplitInit == about = "split" /\ given \in Splits

\* The balances as the contract moves them, every leg paying what was modelled.
Executed(route) ==
    LET fracs == Fractions(route)
        after[n \in 0..Len(route.legs)] ==
          IF n = 0 THEN Filled(route)
          ELSE LET l == route.legs[n]
               IN  Shift(after[n - 1], l, (after[n - 1][l.src] * fracs[n]) \div ONE, LegOut(l))
    IN  after

Spends(route, n) ==
    (Executed(route)[n - 1][route.legs[n].src] * Fractions(route)[n]) \div ONE

\* Executed at its own quote a route spends on every leg what the model gave
\* it, but for what a share cannot say, a unit and one more for each ONE units
\* of the input, times the legs that shared its slot; and drains every slot that
\* is spent: the fractions are the split and no dust stays behind.
FractionsAreTheSplit ==
    about = "split" =>
        LET slack == given.amount_in \div ONE + 1
        IN  /\ \A n \in DOMAIN given.legs :
                 Spends(given, n) - given.legs[n].amount_in \in -slack..n * slack
            /\ \A n \in DOMAIN given.legs :
                 Executed(given)[Len(given.legs)][given.legs[n].src] = 0

----------------------------------------------------------------------------
(* A call: legs of every kind, under every naming and for every payee.     *)

Kinded(kind, pool, in, out) ==
    [Leg(0, 1, 1, 1) EXCEPT !.kind = kind, !.target = pool, !.token_in = in, !.token_out = out]

KindedLegs ==
    {Kinded(kind, x, A, B) : kind \in SwapKinds}
      \cup {Kinded(kind, x, A, S) : kind \in DepositKinds}
      \cup {Kinded(kind, x, S, B) : kind \in WithdrawKinds}
      \cup {Kinded(kind, W, A, W) : kind \in WrapKinds}
      \cup {Kinded(kind, W, W, A) : kind \in UnwrapKinds}
      \cup {Kinded("WRAP_NATIVE", W, E, W), Kinded("STAKE_NATIVE", W, E, W),
            Kinded("UNWRAP_NATIVE", W, W, E),
            \* an adapter wearing a wrapper's kind
            Kinded("WRAP_NATIVE", d, A, B), Kinded("UNWRAP_NATIVE", d, B, A)}

CallInputs == [legs: {<<a, b>> : a \in KindedLegs, b \in KindedLegs},
               naming: {"needed", "none", "all"}, receiver: {NOBODY, alice, bob},
               min_out: 0..1]
CallInit == about = "call" /\ given \in CallInputs

Call == EncodeRoute([amount_in |-> 1, dst_slot |-> 1, legs |-> given.legs],
                    given.receiver, TRUE, given.min_out, {}, given.naming)
Arrived == Received(Call, alice)

\* What is sent means the route and nothing else.  Every leg the contract would
\* run moves between the tokens the route meant, and it only finds none to run
\* where naming was left to getters that answer nothing (encode_route: never "a
\* call that quietly means something else"); and the contract's defaults put back
\* exactly what calldata leaves out.
CallMeansTheRoute ==
    about = "call" =>
        /\ \A n \in DOMAIN given.legs :
              LET step == Unpack(Call.words[n], Call.tokens)
                  meant == <<given.legs[n].token_in, given.legs[n].token_out>>
              IN  /\ <<step.token_in, step.token_out>> = meant \/ ~Unpacks(step)
                  /\ given.naming # "none" => Unpacks(step)
        /\ Sendable(Call) =>
              /\ Arrived.tokens = Call.tokens /\ Arrived.min_out = Call.min_out
              /\ Arrived.receiver = IF Call.receiver = NOBODY THEN alice ELSE Call.receiver

----------------------------------------------------------------------------
(* A budget: what a caller names for a route that branches and merges.     *)

Dear(from, to) == [Leg(from, to, 1, 1) EXCEPT !.fee_floor = 60]
Cheap(from, to) == Leg(from, to, 1, 1)

\* Two branches; a leg they share; a bridge between them; and a leg out of a slot
\* that nothing fills, ahead of the one way through.
Networks ==
    {<<Cheap(0, 1), Dear(1, 3), Dear(0, 3)>>,
     <<Cheap(0, 1), Dear(0, 1), Dear(1, 3)>>,
     <<Cheap(0, 1), Dear(0, 2), Cheap(1, 2), Dear(1, 3), Cheap(2, 3)>>,
     <<Dear(2, 1), Cheap(0, 1), Dear(1, 3)>>}

Budgets ==
    UNION {{[route |-> [amount_in |-> 1, dst_slot |-> 3, legs |-> legs],
             raw |-> raw, total |-> total] :
               raw \in [DOMAIN legs -> Drops] \cup {NaN}, total \in Totals} : legs \in Networks}
BudgetInit == about = "budget" /\ given \in Budgets

\* The ways through, each as the legs it takes: they chain from slot 0 to the end.
Paths(route) ==
    {path \in SUBSET DOMAIN route.legs :
        /\ path # {}
        /\ route.legs[Min(path)].src = 0 /\ route.legs[Max(path)].dst = route.dst_slot
        /\ \A m, n \in path : m < n /\ (\A k \in path : k <= m \/ n <= k) =>
              route.legs[m].dst = route.legs[n].src}

SpentOn(path, grants) ==
    LET upto[n \in 0..Len(grants)] ==
          IF n = 0 THEN 0 ELSE upto[n - 1] + (IF n \in path THEN grants[n] ELSE 0)
    IN  upto[Len(grants)]

\* What a budget of `total` comes to on a route whose legs drop `raw`.
SpentOnce(route, raw, total) ==
    LET legs == route.legs
        back == Backwards(raw)
        grant == [n \in DOMAIN legs |-> Tolerance(legs[n], {})]
        owed == [n \in DOMAIN legs |-> IF n \in back THEN AtLeast(-raw[n], grant[n]) ELSE 0]
        divided == Divide(route, raw, grant, total)
        granted == NamedGrants(route, {}, raw, total)
        past == [n \in DOMAIN legs |-> IF granted[n] > FLOOR THEN granted[n] ELSE 0]
    IN  /\ \/ \A path \in Paths(route) : SpentOn(path, divided) <= total
           \/ divided = owed
        /\ \A path \in Paths(route) : path \cap back = {} => SpentOn(path, past) <= total
        /\ \A n \in back : granted[n] >= AtMost(SHARE_ONE, AtLeast(total, owed[n]))
        /\ back = {} /\ Paths(route) # {} =>
              \E path \in Paths(route) :
                 SpentOn(path, granted) >= AtMost(SHARE_ONE, total) - Cardinality(path)

\* A budget is spent once, not once per branch, whatever the network solve made
\* of the route (slippage.py: "no path can spend more, whatever the solve
\* returned").  The division gives no path more than the total, unless what the
\* backwards legs are owed is more than that on its own, and then it gives them
\* that and nothing else.  What is granted from it leaves a path that keeps clear
\* of those legs within the total, past the floors movement is owed; lets such a
\* leg have what the automatic rule or the imbalance would give it and no less
\* than the whole budget; and where there is none, the dearest path is granted
\* all of it but for the units its legs round away.
BudgetIsSpentOnce ==
    about = "budget" => SpentOnce(given.route, given.raw, given.total)

EncodingInit == QuoteInit \/ SplitInit \/ CallInit \/ BudgetInit
EncodingSpec == EncodingInit /\ [][Keep]_<<about, given>>

----------------------------------------------------------------------------
(* A route with a leg whose slot nothing fills.                            *)

Unfilled == {[amount_in |-> t, dst_slot |-> 2, legs |-> <<Leg(0, 2, t, t), Leg(1, 2, t, t)>>]
               : t \in Pieces \ {0}}
UnfilledInit == about = "unfilled" /\ given \in Unfilled
UnfilledSpec == UnfilledInit /\ [][Keep]_<<about, given>>

\* Stated at core/routecall.py:234: a leg that spends a slot nothing has filled
\* is refused.
UnfilledSlotRefused ==
    (\E n \in DOMAIN given.legs : Modelled(given)[n - 1][given.legs[n].src] = 0)
        => Refused(given, "needed", MinRates(given, {}), FALSE)

=============================================================================
