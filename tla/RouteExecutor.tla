--------------------------- MODULE RouteExecutor ---------------------------
(***************************************************************************)
(* contracts/RouteExecutor.vy: `execute_route` runs, for real, the legs    *)
(* RouteQuoter quotes.  It keeps the quoter's accumulator, credits each    *)
(* slot with what really arrived, and pays every slot out at the end.      *)
(*                                                                         *)
(* A transaction is one run of the machine from pc = "idle" back to it; a  *)
(* call refused by its opening asserts is a stuttering step.  What a pool  *)
(* pays is its own choice; pools that call back are left out.              *)
(***************************************************************************)
EXTENDS Integers, Sequences

CONSTANTS
    Token, User, Router, FeeOnTransfer, RoundsDown, \* see TokenLedger
    NATIVE,
    Pool,
    MAX_SLOTS,
    BPS,
    NoSlot,
    Calls,      \* the calls users may send
    NoCall,     \* between transactions
    Endowment,  \* [User -> [Token -> Nat]], wallets at the start
    MaxPay,     \* the most a pool pays for one leg
    MaxTxs,     \* transactions in a behaviour
    MaxGift     \* the most one donation leaves on the contract

INSTANCE TokenLedger

Slot == 0..MAX_SLOTS - 1

ASSUME ConstantAssumption ==
    /\ NATIVE \in Token /\ Router \notin User /\ World \notin Account
    /\ BPS \in Nat \ {0} /\ {MAX_SLOTS, MaxPay} \subseteq Nat
    /\ Endowment \in [User -> [Token -> Nat]]

ASSUME CallAssumption ==
    \A c \in Calls :
        /\ c.sender \in User /\ {c.value, c.amount_in, c.min_out} \subseteq Nat
        /\ c.tokens \in Seq(Token) /\ Len(c.tokens) <= MAX_SLOTS
        /\ c.dst_slot \in Slot
        /\ c.legs \in Seq([target : Pool, kind : STRING,
                           src : Slot, dst : Slot, bps : 0..BPS])

VARIABLES
    ledger,     \* who holds what: the users and the contract
    allowance,  \* what the contract has approved each pool to pull
    pc,         \* where the transaction in flight stands
    call,       \* its arguments, NoCall between transactions
    k,          \* the leg at hand, from 1
    bal,        \* the accumulator
    cur,        \* the slot whose group is open
    base,       \* what that group opened on
    opening,    \* the destination's balance when the legs start
    produced,   \* what the last call returned
    s,          \* the sweep's slot
    snapshot,   \* the chain before the transaction, for a revert
    donated,    \* history: what was pushed to the contract and not yet paid out
    txs         \* transactions begun, a bound of the model

chain == <<ledger, allowance>>
walk == <<k, bal, cur, base>>
vars == <<chain, pc, call, walk, opening, produced, s, snapshot, donated, txs>>

Held(t) == ledger[Router][t]
leg == call.legs[k]
Coin(slot) == call.tokens[slot + 1]
DstToken == Coin(call.dst_slot)
Nothing == [slot \in Slot |-> 0]

Idle == /\ pc = "idle" /\ call = NoCall /\ k = 1 /\ bal = Nothing /\ cur = NoSlot
        /\ base = 0 /\ opening = 0 /\ s = 0 /\ snapshot = <<ledger, allowance>>

Init ==
    /\ ledger = [a \in Account |->
                   IF a = Router THEN [t \in Token |-> 0] ELSE Endowment[a]]
    /\ allowance = [t \in Token |-> [p \in Pool |-> 0]]
    /\ donated = [t \in Token |-> 0]
    /\ produced = 0 /\ txs = 0
    /\ Idle

----------------------------------------------------------------------------
(* A call arrives.                                                         *)

Accepts(c) ==
    /\ c.dst_slot < Len(c.tokens)
    /\ c.tokens[1] = NATIVE => c.value = c.amount_in

CanPay(c) ==
    /\ c.value <= ledger[c.sender][NATIVE]
    /\ c.tokens[1] # NATIVE => c.amount_in <= ledger[c.sender][c.tokens[1]]

Pull(c, debit, credit) ==
    LET paid == Move(ledger, c.sender, Router, NATIVE, c.value, c.value)
    IN  IF c.tokens[1] = NATIVE THEN paid
        ELSE Move(paid, c.sender, Router, c.tokens[1], debit, credit)

\* The accumulator opens on the amount that was asked for.
Execute(c) ==
    /\ pc = "idle" /\ txs < MaxTxs
    /\ Accepts(c) /\ CanPay(c)
    /\ \E debit \in Debited(c.tokens[1], c.amount_in) :
         \E credit \in Credited(c.tokens[1], debit) : ledger' = Pull(c, debit, credit)
    /\ opening' = ledger'[Router][c.tokens[c.dst_slot + 1]]
    /\ bal' = [Nothing EXCEPT ![0] = c.amount_in]
    /\ snapshot' = <<ledger, allowance>>
    /\ call' = c /\ pc' = "leg" /\ produced' = 0 /\ txs' = txs + 1
    /\ UNCHANGED <<allowance, k, cur, base, s, donated>>

----------------------------------------------------------------------------
(* The legs.                                                               *)

InRange == leg.src < Len(call.tokens) /\ leg.dst < Len(call.tokens)

\* Slip: every leg takes its share of what the legs before it have left.
BaseOfTheRest == bal[leg.src]

Base == IF leg.src # cur THEN bal[leg.src] ELSE base

Dx == LET share == (Base * leg.bps) \div BPS
      IN  IF leg.bps = 0 \/ share > bal[leg.src] THEN bal[leg.src] ELSE share

OpenGroup == cur' = leg.src /\ base' = Base

SkipLeg ==
    /\ pc = "leg" /\ k <= Len(call.legs)
    /\ InRange /\ Dx = 0
    /\ OpenGroup
    /\ k' = k + 1
    /\ UNCHANGED <<chain, pc, call, bal, opening, produced, s, snapshot, donated, txs>>

\* Ether goes along as value with two kinds; the other kinds carry none of it,
\* and approve exactly what the leg spends.
AsValue(l) ==
    l.kind = "STAKE_NATIVE" \/ (l.kind = "WRAP_NATIVE" /\ Coin(l.src) = NATIVE)
Charged(l) == IF AsValue(l) THEN NATIVE ELSE Coin(l.src)
Approves(l) == ~AsValue(l) /\ Coin(l.src) # NATIVE

\* A pool that pulls uses up what it takes of its approval; one that burns its
\* input leaves it standing.
Left(l, taken) ==
    IF ~Approves(l) THEN {allowance[Coin(l.src)][l.target]}
    ELSE IF l.kind = "SWAP" THEN {Dx - taken} ELSE {Dx - taken, Dx}

\* What the leg gained, by the balance.
Gained(before) == ledger'[Router][Coin(leg.dst)] - before

RunLeg ==
    /\ pc = "leg" /\ k <= Len(call.legs)
    /\ InRange /\ Dx > 0
    /\ AsValue(leg) \/ Approves(leg)     \* a pool that is owed ether reverts
    /\ \E taken \in Debited(Charged(leg), Dx), paid \in 0..MaxPay :
         /\ taken <= Held(Charged(leg))
         /\ ledger' = Move(Move(ledger, Router, World, Charged(leg), taken, taken),
                           World, Router, Coin(leg.dst), paid, paid)
         /\ \E left \in Left(leg, taken) :
              allowance' = [allowance EXCEPT ![Coin(leg.src)][leg.target] = left]
    /\ Gained(Held(Coin(leg.dst))) > 0
    /\ bal' = [[bal EXCEPT ![leg.src] = @ - Dx]
                   EXCEPT ![leg.dst] = @ + Gained(Held(Coin(leg.dst)))]
    /\ OpenGroup
    /\ k' = k + 1
    /\ UNCHANGED <<pc, call, opening, produced, s, snapshot, donated, txs>>

----------------------------------------------------------------------------
(* The end: the answer, then the sweep.                                    *)

Produced == Held(DstToken) - opening

Finish ==
    /\ pc = "leg" /\ k > Len(call.legs)
    /\ Produced >= 0 /\ Produced >= call.min_out
    /\ produced' = Produced
    /\ pc' = "sweep"
    /\ UNCHANGED <<chain, call, walk, opening, s, snapshot, donated, txs>>

\* The sweep pays every other slot, in order, and then the destination.
Swept(slot) == IF slot < call.dst_slot THEN slot ELSE slot + 1
LastOne == s = Len(call.tokens) - 1
SweptSlot == IF LastOne THEN call.dst_slot ELSE Swept(s)

\* Slip: the destination is emptied like the others.
AllOfIt(slot) == Held(Coin(slot))

\* All that is held of a token, but of the destination what was produced.
Due(slot) == IF slot = call.dst_slot THEN produced ELSE Held(Coin(slot))

SweepOne ==
    /\ pc = "sweep" /\ s < Len(call.tokens)
    /\ LET t == Coin(SweptSlot) IN
         \E debit \in Debited(t, Due(SweptSlot)) :
           \E credit \in Credited(t, debit) :
             /\ debit <= Held(t)
             /\ ledger' = Move(ledger, Router, call.sender, t, debit, credit)
    /\ s' = s + 1
    /\ UNCHANGED <<allowance, pc, call, walk, opening, produced, snapshot, donated, txs>>

Reset ==
    /\ pc' = "idle" /\ call' = NoCall /\ k' = 1 /\ bal' = Nothing /\ cur' = NoSlot
    /\ base' = 0 /\ opening' = 0 /\ s' = 0 /\ snapshot' = <<ledger', allowance'>>

Return ==
    /\ pc = "sweep" /\ s = Len(call.tokens)
    /\ donated' = [t \in Token |->
          IF \E slot \in 0..Len(call.tokens) - 1 : Coin(slot) = t /\ t # DstToken
          THEN 0 ELSE donated[t]]
    /\ UNCHANGED <<chain, produced, txs>>
    /\ Reset

\* A pool or a token may fail, and an assert does.
Fails ==
    \/ pc = "leg" /\ k <= Len(call.legs) /\ (InRange => Dx > 0)
    \/ pc = "leg" /\ k > Len(call.legs) /\ (Produced < 0 \/ Produced < call.min_out)
    \/ pc = "sweep" /\ s < Len(call.tokens) /\ Due(SweptSlot) > 0

Revert ==
    /\ Fails
    /\ ledger' = snapshot[1] /\ allowance' = snapshot[2] /\ produced' = 0
    /\ Reset
    /\ UNCHANGED <<donated, txs>>

\* Anyone may push a token, or ether through `__default__`, to the contract.
Donate(u, t, x) ==
    /\ pc = "idle" /\ donated[t] = 0 /\ x <= ledger[u][t]
    /\ ledger' = Move(ledger, u, Router, t, x, x)
    /\ donated' = [donated EXCEPT ![t] = x]
    /\ snapshot' = <<ledger', allowance>>
    /\ UNCHANGED <<allowance, pc, call, walk, opening, produced, s, txs>>

Next ==
    \/ \E c \in Calls : Execute(c)
    \/ SkipLeg \/ RunLeg \/ Finish \/ SweepOne \/ Return \/ Revert
    \/ \E u \in User, t \in Token, x \in 1..MaxGift : Donate(u, t, x)

Spec == Init /\ [][Next]_vars

----------------------------------------------------------------------------
(* What has to hold.                                                       *)

\* What the contract holds of a slot's token beyond what it held before.
Net(slot) ==
    IF slot < Len(call.tokens) THEN Held(Coin(slot)) - snapshot[1][Router][Coin(slot)] ELSE 0

\* The walk the quoter promises, read off the chain: while the legs run its
\* accumulator is what the contract's holdings have grown by, token by token.
\* Every leg of an execution is then a leg of RouteWalk, and what a call returns
\* is the answer of a walk over what the pools really paid.
RouteOf(c) == [legs |-> c.legs, amount_in |-> c.amount_in, dst_slot |-> c.dst_slot,
               slots |-> Len(c.tokens)]

Walk == INSTANCE RouteWalk WITH
    Routes   <- {RouteOf(c) : c \in Calls},
    NoRoute  <- NoCall,
    MaxQuote <- MaxPay,
    route    <- IF pc = "idle" THEN NoCall ELSE RouteOf(call),
    n        <- k,
    books    <- [bal |-> IF pc = "leg" THEN [slot \in Slot |-> Net(slot)] ELSE bal,
                 cur |-> cur, base |-> base],
    answer   <- IF pc = "idle" THEN produced ELSE 0

ExecutesTheWalk == Walk!Spec

\* The header's "measured, never believed" (RouteExecutor.vy:31): no slot's
\* books run ahead of what the contract took in for it.
BooksAreMeasured == pc = "leg" => \A slot \in Slot : bal[slot] <= Net(slot)

\* When the sweep is over the caller has been paid slot for slot what the books
\* say, and with it all that lay about of every token but the destination's; and
\* nothing of one call is left there for the next (RouteExecutor.vy:385).
CallerIsPaidInFull ==
    /\ pc = "sweep" /\ s = Len(call.tokens) =>
        \A slot \in 0..Len(call.tokens) - 1 :
            LET t == Coin(slot) IN
            ledger[call.sender][t] - snapshot[1][call.sender][t] =
                bal[slot] + (IF slot = call.dst_slot THEN 0 ELSE snapshot[1][Router][t])
                          - (IF slot = 0 THEN call.amount_in ELSE 0)
    /\ pc = "idle" => \A t \in Token : Held(t) = donated[t]

=============================================================================
