----------------------------- MODULE RouteCall -----------------------------
(***************************************************************************)
(* erouter/core/routecall.py: turning a realised route into the call that  *)
(* contracts/ElectricRouter.vy executes -- each leg's fraction of what is  *)
(* left at its source, each leg's minimum rate, the promise those bounds   *)
(* make together, which tokens the call has to name, and which entry point *)
(* it is sent to.                                                          *)
(*                                                                         *)
(* A route is [legs, amount_in, dst_slot].  A leg is a record with the     *)
(* slots it runs between (src, dst), its pool (target, kind, i, j), its    *)
(* tokens, what the model expects of it (amount_in, amount_out), what the  *)
(* pool itself answered (verified_in, verified_out; 0 for no answer), and  *)
(* its fee figures in parts of SHARE_ONE, NaN where there is none.         *)
(***************************************************************************)
EXTENDS RouterWords, SequencesExt

CONSTANTS
    SHARE_ONE,   \* the scale of tolerances, 10^9
    MAX_RATE,    \* the largest rate a word can carry, 2^128 - 1
    MAX_LEGS,    \* the longest route the router takes
    MAX_TOKENS,  \* the most tokens a call can name
    FEE_SHARE,   \* one part in FEE_SHARE of the fee is granted, 5
    FLOOR,       \* FLOOR_BP and VOLATILE_FLOOR_BP, in parts of SHARE_ONE
    VOLATILE_FLOOR,
    NaN,         \* a fee that was never measured
    NOBODY       \* the empty receiver: whoever sends the call

ASSUME ScaleAssumption ==
    {SHARE_ONE, FEE_SHARE} \subseteq Nat \ {0} /\ {FLOOR, VOLATILE_FLOOR} \subseteq Nat

Slots(route) == {0, route.dst_slot}
                  \cup {route.legs[n].src : n \in DOMAIN route.legs}
                  \cup {route.legs[n].dst : n \in DOMAIN route.legs}

\* Where both walks start: the input in slot 0 and nothing anywhere else.
Filled(route) == [slot \in Slots(route) |-> IF slot = 0 THEN route.amount_in ELSE 0]

LegOut(l) == IF l.verified_out # 0 THEN l.verified_out ELSE l.amount_out
LegIn(l)  == IF l.verified_in # 0 THEN l.verified_in ELSE l.amount_in

Shift(balances, l, out, in) ==
    LET spent == [balances EXCEPT ![l.src] = @ - out]
    IN  [spent EXCEPT ![l.dst] = @ + in]

\* A leg as realize hands it over.
RouteLeg ==
    [src: Nat, dst: Nat, target: Pool, kind: Kind, i: Nat, j: Nat,
     token_in: Token, token_out: Token, amount_in: Nat, amount_out: Nat,
     verified_in: Nat, verified_out: Nat,
     fee_frac: Int \cup {NaN}, fee_floor: Int \cup {NaN}, gamma: Int \cup {NaN}]

Realized == [legs: Seq(RouteLeg), amount_in: Nat, dst_slot: Nat]

----------------------------------------------------------------------------
(* fractions: each leg's share of the balance standing at its source.      *)

\* Slip: the last leg out of a slot is not singled out.
NeverLast(legs, n) == FALSE

LastOut(legs, n) == \A m \in n + 1..Len(legs) : legs[m].src # legs[n].src

\* Slip: what a leg takes is not taken off the balance.
SliceOfTheWhole(legs, n, have) ==
    IF LastOut(legs, n) \/ legs[n].amount_in >= have THEN [frac |-> ONE, take |-> have]
    ELSE [frac |-> (legs[n].amount_in * ONE) \div have, take |-> 0]

\* Nothing is refused here: with amounts that are never negative, a slot that
\* nothing has filled is caught by the first branch.
Slice(legs, n, have) ==
    IF LastOut(legs, n) \/ legs[n].amount_in >= have
    THEN [frac |-> ONE, take |-> have]
    ELSE [frac |-> (legs[n].amount_in * ONE) \div have, take |-> legs[n].amount_in]

\* The balances after n legs.
Modelled(route) ==
    LET after[n \in 0..Len(route.legs)] ==
          IF n = 0 THEN Filled(route)
          ELSE LET l == route.legs[n]
                   have == after[n - 1][l.src]
               IN  Shift(after[n - 1], l, Slice(route.legs, n, have).take, LegOut(l))
    IN  after

Fractions(route) ==
    LET before == Modelled(route)
    IN  [n \in DOMAIN route.legs |->
           Slice(route.legs, n, before[n - 1][route.legs[n].src]).frac]

----------------------------------------------------------------------------
(* tolerances and min_rates: the least each leg may pay.                   *)

Usable(figure) == figure # NaN /\ figure >= 0 /\ figure < SHARE_ONE

\* gamma is one minus the marginal fee, out of two probes.
LegFee(l) ==
    IF Usable(l.fee_frac) THEN l.fee_frac
    ELSE IF l.gamma # NaN /\ l.gamma > 0 /\ l.gamma <= SHARE_ONE
         THEN SHARE_ONE - l.gamma ELSE 0

BoundingFee(l) == IF Usable(l.fee_floor) THEN l.fee_floor ELSE LegFee(l)

MovementFloor(l, volatile) == IF l.target \in volatile THEN VOLATILE_FLOOR ELSE FLOOR

AtMost(a, b) == IF a <= b THEN a ELSE b
AtLeast(a, b) == IF a >= b THEN a ELSE b

Tolerance(l, volatile) ==
    AtMost(SHARE_ONE, AtLeast(BoundingFee(l) \div FEE_SHARE, MovementFloor(l, volatile)))

\* Slip: the unit left to a leg too coarse for its tolerance is forgotten.
BoundAtTheRate(want, have, share) ==
    LET rate == (want * ONE) \div have IN rate - (rate * share) \div SHARE_ONE

\* Slip: the rate is divided before it is scaled.
BoundTruncated(want, have, share) ==
    LET rate == (want \div have) * ONE IN rate - (rate * share) \div SHARE_ONE

\* The rate a leg producing `want` for `have` is bound by, `share` under it.
Bound(want, have, share) ==
    LET rate == (want * ONE) \div have
    IN  IF want * share < SHARE_ONE THEN (want * ONE - 1) \div have
        ELSE rate - (rate * share) \div SHARE_ONE

Measured(l) == LegIn(l) > 0 /\ LegOut(l) > 0

MinRate(l, volatile) ==
    IF Measured(l) THEN Bound(LegOut(l), LegIn(l), Tolerance(l, volatile)) ELSE 0

MinRates(route, volatile) ==
    [n \in DOMAIN route.legs |-> MinRate(route.legs[n], volatile)]

\* The least the contract accepts for dx at this rate.
FloorAt(dx, rate) == (dx * rate) \div ONE

Unbounded(route, rates) ==
    {n \in DOMAIN route.legs :
        ~Measured(route.legs[n]) \/ FloorAt(LegIn(route.legs[n]), rates[n]) <= 0}

----------------------------------------------------------------------------
(* walk_bounds: the router's arithmetic with every leg paying its minimum. *)

WalkBounds(route, fracs, rates) ==
    LET after[n \in 0..Len(route.legs)] ==
          IF n = 0 THEN Filled(route)
          ELSE LET l == route.legs[n]
                   dx == (after[n - 1][l.src] * fracs[n]) \div ONE
               IN  Shift(after[n - 1], l, dx, FloorAt(dx, rates[n]))
    IN  after

GuaranteedOut(route, fracs, rates) ==
    WalkBounds(route, fracs, rates)[Len(route.legs)][route.dst_slot]

----------------------------------------------------------------------------
(* Naming: which tokens the call lists, because the router could not read  *)
(* them off the pool.                                                      *)

Rule(kind) ==
    CASE kind \in {"SWAP_STABLE", "SWAP_CRYPTO"} -> <<"coin", "coin">>
      [] kind \in {"DEPOSIT_FIXED", "DEPOSIT_DYN", "DEPOSIT_FIXED_NOFLAG"} ->
            <<"coin", "getter">>
      [] kind \in {"WITHDRAW_STABLE", "WITHDRAW_CRYPTO"} -> <<"getter", "coin">>
      [] kind \in {"ERC4626_DEPOSIT", "WSTETH_WRAP", "LEND_MINT"} -> <<"getter", "target">>
      [] kind \in {"ERC4626_REDEEM", "WSTETH_UNWRAP", "LEND_REDEEM"} -> <<"target", "getter">>
      [] kind \in {"WRAP_NATIVE", "STAKE_NATIVE"} -> <<"native", "target">>
      [] kind = "UNWRAP_NATIVE" -> <<"target", "native">>

\* Slip: a share token is left for the router to find whatever is asked.
NamesNoGetter(rule, token, target, naming) ==
    \/ naming = "all"
    \/ rule = "target" /\ token # target
    \/ rule = "native" /\ token # NATIVE

MustName(rule, token, target, naming) ==
    \/ naming = "all"
    \/ rule = "target" /\ token # target
    \/ rule = "native" /\ token # NATIVE
    \/ rule = "getter" /\ naming # "none"

NamesIn(l, naming)  == MustName(Rule(l.kind)[1], l.token_in, l.target, naming)
NamesOut(l, naming) == MustName(Rule(l.kind)[2], l.token_out, l.target, naming)

\* A token already listed is not listed again.
Listed(tokens, token, named) ==
    IF named /\ ~Contains(tokens, token) THEN Append(tokens, token) ELSE tokens

\* What the legs name, each its input first.
Tokens(route, naming) ==
    LET after[n \in 0..Len(route.legs)] ==
          IF n = 0 THEN <<>>
          ELSE LET l == route.legs[n]
                   so_far == Listed(after[n - 1], l.token_in, NamesIn(l, naming))
               IN  Listed(so_far, l.token_out, NamesOut(l, naming))
    IN  after[Len(route.legs)]

Ref(tokens, token, named) ==
    IF named THEN CHOOSE ref \in DOMAIN tokens : tokens[ref] = token ELSE 0

----------------------------------------------------------------------------
(* What a route is for a contract to be able to follow it.                 *)

\* The tokens of a leg as the contract reads them off its pool.
ReadIn(l)  == Derive(l.target, l.kind, l.i, TRUE)
ReadOut(l) == Derive(l.target, l.kind, l.j, FALSE)

\* The pool lists the coins the leg trades, and a getter that answers answers right.
OfItsPool(l) ==
    /\ Rule(l.kind)[1] = "coin" => ReadIn(l) = l.token_in
    /\ Rule(l.kind)[2] = "coin" => ReadOut(l) = l.token_out
    /\ Rule(l.kind)[1] = "getter" => ReadIn(l) \in {l.token_in, NoToken}
    /\ Rule(l.kind)[2] = "getter" => ReadOut(l) \in {l.token_out, NoToken}

\* `token` is the token of each slot, and every token has a slot of its own; legs run
\* between the tokens of their slots, through pools that hold them, from slot 0 to the
\* slot the output is read from.
Executable(route, token) ==
    /\ route \in Realized /\ Len(route.legs) > 0
    /\ token \in [Slots(route) -> Token]
    /\ \A a \in Slots(route) : \A b \in Slots(route) : token[a] = token[b] => a = b
    /\ \A n \in 1..Len(route.legs) :
         /\ route.legs[n].token_in = token[route.legs[n].src]
         /\ route.legs[n].token_out = token[route.legs[n].dst]
         /\ OfItsPool(route.legs[n])
    /\ route.legs[1].src = 0
    /\ route.legs[Len(route.legs)].dst = route.dst_slot

\* Nothing is paid into a slot behind the last leg that spends it.
InTopologicalOrder(route) ==
    \A n \in 1..Len(route.legs) : \A m \in 1..n - 1 :
        route.legs[n].dst = route.legs[m].src =>
            \E l \in n + 1..Len(route.legs) : route.legs[l].src = route.legs[m].src

----------------------------------------------------------------------------
(* encode_route: the call, where the route can be expressed as one.        *)

Refused(route, naming, rates, allow_unbounded) ==
    \/ route.legs = <<>>
    \/ Len(route.legs) > MAX_LEGS
    \/ route.legs[Len(route.legs)].dst # route.dst_slot
    \/ \E n \in DOMAIN rates : rates[n] > MAX_RATE
    \/ Unbounded(route, rates) # {} /\ ~allow_unbounded
    \/ Len(Tokens(route, naming)) > MAX_TOKENS

EncodeWord(l, frac, rate, tokens, naming) ==
    [pool |-> l.target, kind |-> l.kind, i |-> l.i, j |-> l.j,
     frac |-> frac, min_rate |-> rate,
     in_ref  |-> Ref(tokens, l.token_in, NamesIn(l, naming)),
     out_ref |-> Ref(tokens, l.token_out, NamesOut(l, naming))]

EncodeRoute(route, receiver, set_approvals, min_out, volatile, naming) ==
    LET fracs  == Fractions(route)
        rates  == MinRates(route, volatile)
        tokens == Tokens(route, naming)
    IN  [amount_in      |-> route.amount_in,
         words          |-> [n \in DOMAIN route.legs |->
                               EncodeWord(route.legs[n], fracs[n], rates[n], tokens, naming)],
         tokens         |-> tokens,
         set_approvals  |-> set_approvals,
         receiver       |-> receiver,
         min_out        |-> min_out,
         token_in       |-> route.legs[1].token_in,
         token_out      |-> route.legs[Len(route.legs)].token_out,
         guaranteed_out |-> AtLeast(GuaranteedOut(route, fracs, rates), min_out)]

----------------------------------------------------------------------------
(* RouteCall.calldata: the shortest entry point that still says it all.    *)

PaysTheSender(call, sender) == call.receiver = NOBODY \/ call.receiver = sender

\* A bound cannot be sent past a receiver that is not.
Sendable(call) == ~(call.receiver = NOBODY /\ call.min_out # 0)

\* How many of the seven arguments are sent.
Arguments(call, sender) ==
    IF call.min_out # 0 THEN 7
    ELSE IF ~PaysTheSender(call, sender) THEN 6
    ELSE IF call.tokens # <<>> THEN 5 ELSE 4

\* What the contract runs with: its defaults where an argument was left out.
Received(call, sender) ==
    LET keep == Arguments(call, sender)
    IN  [amount_in     |-> call.amount_in,
         words         |-> call.words,
         set_approvals |-> call.set_approvals,
         tokens        |-> IF keep >= 5 THEN call.tokens ELSE <<>>,
         receiver      |-> IF keep >= 6 THEN call.receiver ELSE sender,
         min_out       |-> IF keep >= 7 THEN call.min_out ELSE 0,
         sender        |-> sender,
         value         |-> IF call.token_in = NATIVE THEN call.amount_in ELSE 0]

=============================================================================
