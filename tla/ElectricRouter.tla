--------------------------- MODULE ElectricRouter ---------------------------
(***************************************************************************)
(* contracts/ElectricRouter.vy: `execute` routes `amount_in` through a     *)
(* list of pools, one packed word per pool, bounding every leg by its own  *)
(* minimum rate and sweeping every token the route touched at the end.     *)
(*                                                                         *)
(* A transaction is one run of the machine below from pc = "idle" back to  *)
(* "idle"; @nonreentrant makes a nested `execute` revert, so at most one   *)
(* is in flight.  What the pools pay is the environment's choice.  A call  *)
(* whose opening checks fail leaves the chain as it was, so it is a        *)
(* stuttering step and has no action.                                      *)
(***************************************************************************)
EXTENDS RouterWords

CONSTANTS
    User,
    Router,         \* the contract's own account
    Calls,          \* the calls users may send
    NoCall,         \* between transactions
    Endowment,      \* [User -> [Token -> Nat]], wallets at the start
    FeeOnTransfer,  \* tokens that credit less than was sent
    RoundsDown,     \* tokens whose transferFrom may move one unit less
    TakesForNothing,\* pools whose 4-argument exchange can charge and pay nothing
    MaxPay,         \* the most a pool pays for one leg
    MaxTxs,         \* transactions in a behaviour
    MaxGift         \* the most one donation leaves on the router

INSTANCE TokenLedger

Allowance == {"none", "some", "max"}

----------------------------------------------------------------------------
(* The calls.                                                              *)

\* The arguments of `execute`, its sender and its value.
IsCall(c) ==
    /\ c.sender \in User /\ c.receiver \in Account \cup {NoToken}
    /\ c.words \in Seq(Word) /\ c.tokens \in Seq(Token)
    /\ c.amount_in \in Nat /\ c.min_out \in Nat /\ c.value \in Nat
    /\ c.set_approvals \in BOOLEAN

ASSUME ConstantAssumption ==
    /\ Router \notin User /\ World \notin Account /\ NoToken \notin Account
    /\ MaxPay \in Nat /\ MaxTxs \in Nat /\ MaxGift \in Nat
    /\ Endowment \in [User -> [Token -> Nat]]
    /\ NoCall \notin Calls
    /\ \A c \in Calls : IsCall(c)

Steps(c) == [n \in 1..Len(c.words) |-> Unpack(c.words[n], c.tokens)]

Touched(legs) == {legs[n].token_in : n \in DOMAIN legs}
                   \cup {legs[n].token_out : n \in DOMAIN legs}

----------------------------------------------------------------------------

VARIABLES
    bal,        \* who holds what: the users and the router
    allowance,  \* what the router has approved each pool to pull
    pc,         \* where the transaction in flight stands; "idle" between them
    call,       \* its arguments, NoCall between transactions
    steps,      \* its unpacked legs
    k,          \* the leg at hand
    dx,         \* what that leg spends
    before,     \* the output balance it starts from
    opening,    \* the balance of the last output when the loop starts
    answer,     \* `produced`
    s,          \* the sweep's index into `seen`
    snapshot,   \* the chain before the transaction, for a revert
    donated,    \* history: what was pushed to the router and not yet swept
    earned,     \* history: what the legs earned, net, of the last output
    txs         \* transactions begun, a bound of the model

chain == <<bal, allowance>>
locals == <<call, steps, k, dx, before, opening, answer, s, snapshot, earned>>
vars == <<chain, pc, locals, donated, txs>>

Held(t) == bal[Router][t]
N == Len(steps)
leg == steps[k]
last == steps[N].token_out

Idle ==
    /\ pc = "idle" /\ call = NoCall /\ steps = <<>> /\ k = 1 /\ dx = 0
    /\ before = 0 /\ opening = 0 /\ answer = 0 /\ s = 1 /\ earned = 0
    /\ snapshot = <<bal, allowance>>

Init ==
    /\ bal = [a \in Account |->
                IF a = Router THEN [t \in Token |-> 0] ELSE Endowment[a]]
    /\ allowance = [t \in Token |-> [p \in Pool |-> "none"]]
    /\ donated = [t \in Token |-> 0]
    /\ txs = 0
    /\ Idle

----------------------------------------------------------------------------
(* A call arrives: the opening asserts, the unpacking, the pull.           *)

Accepts(c) ==
    /\ Len(c.words) > 0
    /\ c.amount_in > 0
    /\ c.receiver # NoToken /\ c.receiver # Router
    /\ \A n \in 1..Len(c.words) : Unpacks(Unpack(c.words[n], c.tokens))

\* Slip: value is only looked at where ether is the input.
ValueMatchesEther(c, token) == token = NATIVE => c.value = c.amount_in

\* msg.value has to be exactly the input, or nothing.
ValueMatches(c, token) ==
    c.value = IF token = NATIVE THEN c.amount_in ELSE 0

CanPay(c, token) ==
    /\ c.value <= bal[c.sender][NATIVE]
    /\ token # NATIVE => c.amount_in <= bal[c.sender][token]

\* The call's value arrives with it; anything else is pulled from the sender.
Pull(c, token, debit, credit) ==
    LET paid == Move(bal, c.sender, Router, NATIVE, c.value, c.value)
    IN  IF token = NATIVE THEN paid
        ELSE Move(paid, c.sender, Router, token, debit, credit)

\* Slip: the opening balance is read before the pull.
OpeningBeforePull(ledger, token) == bal[Router][token]

Opening(ledger, token) == ledger[Router][token]

Execute(c) ==
    /\ pc = "idle" /\ txs < MaxTxs
    /\ Accepts(c)
    /\ LET legs  == Steps(c)
           first == legs[1].token_in
       IN  /\ ValueMatches(c, first)
           /\ CanPay(c, first)
           /\ \E debit \in Debited(first, c.amount_in) :
                \E credit \in Credited(first, debit) :
                  bal' = Pull(c, first, debit, credit)
           /\ steps' = legs
           /\ opening' = Opening(bal', legs[Len(legs)].token_out)
    /\ snapshot' = <<bal, allowance>>
    /\ call' = c
    /\ pc' = "leg" /\ k' = 1
    /\ txs' = txs + 1
    /\ UNCHANGED <<allowance, dx, before, answer, s, donated, earned>>

----------------------------------------------------------------------------
(* The legs.                                                               *)

\* A fraction of what is left, not of what there was.
Share(step) == (Held(step.token_in) * step.frac) \div ONE

SkipLeg ==
    /\ pc = "leg" /\ k <= N
    /\ Share(leg) = 0
    /\ k' = k + 1
    /\ UNCHANGED <<chain, pc, call, steps, dx, before, opening, answer, s,
                   snapshot, donated, earned, txs>>

MustAllow(step) ==
    /\ call.set_approvals
    /\ step.token_in # NATIVE
    /\ allowance[step.token_in][step.pool] # "max"

StartLeg ==
    /\ pc = "leg" /\ k <= N
    /\ Share(leg) > 0
    /\ dx' = Share(leg)
    /\ before' = Held(leg.token_out)
    /\ pc' = IF MustAllow(leg) THEN "allow" ELSE "run"
    /\ UNCHANGED <<chain, call, steps, k, opening, answer, s, snapshot,
                   donated, earned, txs>>

\* Slip: the maximum is approved over whatever stands.
StraightToMax(standing) == "max"

\* What `_allow` approves next: a standing allowance goes through zero first.
NextAllowance(standing) == IF standing = "none" THEN "max" ELSE "none"

Allow ==
    /\ pc = "allow"
    /\ LET t == leg.token_in
           new == NextAllowance(allowance[t][leg.pool])
       IN  /\ allowance' = [allowance EXCEPT ![t][leg.pool] = new]
           /\ pc' = IF new = "max" THEN "run" ELSE "allow"
    /\ UNCHANGED <<bal, locals, donated, txs>>

RawEther(step) == NATIVE \in {step.token_in, step.token_out}

\* Whether the pool pulls its input: a withdrawal, a redemption and an unwrap
\* burn it instead, and ether goes along as value.
Pulls(step) ==
    /\ step.token_in # NATIVE
    /\ step.kind \notin WithdrawKinds \cup UnwrapKinds \cup {"UNWRAP_NATIVE"}

\* The allowance a pull of some of it leaves: tokens differ on whether the
\* infinite one is ever written down.
Spent(standing) == IF standing = "max" THEN {"max", "some"} ELSE {"some", "none"}

\* A pool takes `taken` of the input and pays `paid` of the output.
Trade(taken, paid) ==
    /\ bal' = Move(Move(bal, Router, World, leg.token_in, taken, taken),
                   World, Router, leg.token_out, paid, paid)
    /\ earned' = earned + (IF leg.token_out = last THEN paid ELSE 0)
                        - (IF leg.token_in = last THEN taken ELSE 0)
    /\ IF Pulls(leg) /\ taken > 0
       THEN /\ allowance[leg.token_in][leg.pool] # "none"
            /\ \E rest \in Spent(allowance[leg.token_in][leg.pool]) :
                 allowance' = [allowance EXCEPT ![leg.token_in][leg.pool] = rest]
       ELSE UNCHANGED allowance

\* The 4-argument spelling: a pool without it fails or swallows the selector,
\* and either way nothing moves.
TriesFourArgs(step) == step.kind = "SWAP_CRYPTO" /\ ~RawEther(step)

FourArgExchange ==
    /\ pc = "run" /\ TriesFourArgs(leg)
    /\ \E taken \in {0} \cup Debited(leg.token_in, dx), paid \in 0..MaxPay :
         /\ taken <= Held(leg.token_in)
         /\ taken = 0 => paid = 0
         /\ paid = 0 => taken = 0 \/ leg.pool \in TakesForNothing
         /\ Trade(taken, paid)
         /\ pc' = IF bal'[Router][leg.token_out] = before THEN "retry" ELSE "settle"
    /\ UNCHANGED <<call, steps, k, dx, before, opening, answer, s, snapshot,
                   donated, txs>>

RunLeg ==
    /\ \/ pc = "run" /\ ~TriesFourArgs(leg)
       \/ pc = "retry"
    /\ \E taken \in Debited(leg.token_in, dx), paid \in 0..MaxPay :
         /\ taken <= Held(leg.token_in)
         /\ Trade(taken, paid)
    /\ pc' = "settle"
    /\ UNCHANGED <<call, steps, k, dx, before, opening, answer, s, snapshot,
                   donated, txs>>

\* Slip: only that something arrived.
ClearsAtAll(step, dy) == dy > 0

\* The asserts on a leg, made on what really arrived.
Clears(step, dy) == dy > 0 /\ dy >= (dx * step.min_rate) \div ONE

SettleLeg ==
    /\ pc = "settle"
    /\ Clears(leg, Held(leg.token_out) - before)
    /\ pc' = "leg" /\ k' = k + 1
    /\ UNCHANGED <<chain, call, steps, dx, before, opening, answer, s, snapshot,
                   donated, earned, txs>>

----------------------------------------------------------------------------
(* The end of a route: the answer, then the sweep.                         *)

Produced == Held(last) - opening

\* An answer below zero reverts: the subtraction is of uint256.
Finish ==
    /\ pc = "leg" /\ k > N
    /\ Produced >= 0 /\ Produced >= call.min_out
    /\ answer' = Produced
    /\ pc' = "sweep" /\ s' = 1
    /\ UNCHANGED <<chain, call, steps, k, dx, before, opening, snapshot, donated,
                   earned, txs>>

\* `seen` holds both tokens of every leg, in order, repeats and all.
Seen(n) == IF n % 2 = 1 THEN steps[(n + 1) \div 2].token_in
                        ELSE steps[n \div 2].token_out

\* Slip: the sweep pays whoever called.
PayTheSender == call.sender

Payee == call.receiver

SweepOne ==
    /\ pc = "sweep" /\ s <= 2 * N
    /\ LET t == Seen(s) IN
         \E debit \in Debited(t, Held(t)) :
           \E credit \in Credited(t, debit) :
             bal' = Move(bal, Router, Payee, t, debit, credit)
    /\ s' = s + 1
    /\ UNCHANGED <<allowance, pc, call, steps, k, dx, before, opening, answer,
                   snapshot, donated, earned, txs>>

Reset ==
    /\ pc' = "idle" /\ call' = NoCall /\ steps' = <<>> /\ k' = 1 /\ dx' = 0
    /\ before' = 0 /\ opening' = 0 /\ answer' = 0 /\ s' = 1 /\ earned' = 0
    /\ snapshot' = <<bal', allowance'>>

Return ==
    /\ pc = "sweep" /\ s > 2 * N
    /\ donated' = [t \in Token |-> IF t \in Touched(steps) THEN 0 ELSE donated[t]]
    /\ UNCHANGED <<chain, txs>>
    /\ Reset

\* A call to a token or a pool may fail, and an assert does.
Fails ==
    \/ pc \in {"allow", "run", "retry"}
    \/ pc = "settle" /\ ~Clears(leg, Held(leg.token_out) - before)
    \/ pc = "leg" /\ k > N /\ (Produced < 0 \/ Produced < call.min_out)
    \/ pc = "sweep" /\ s <= 2 * N /\ Held(Seen(s)) > 0

Revert ==
    /\ Fails
    /\ bal' = snapshot[1] /\ allowance' = snapshot[2]
    /\ UNCHANGED <<donated, txs>>
    /\ Reset

\* Anyone may push a token, or ether through `__default__`, to the router.
Donate(u, t, x) ==
    /\ pc = "idle"
    /\ donated[t] = 0
    /\ x <= bal[u][t]
    /\ bal' = Move(bal, u, Router, t, x, x)
    /\ donated' = [donated EXCEPT ![t] = x]
    /\ snapshot' = <<bal', allowance>>
    /\ UNCHANGED <<allowance, pc, call, steps, k, dx, before, opening, answer, s,
                   earned, txs>>

Next ==
    \/ \E c \in Calls : Execute(c)
    \/ SkipLeg \/ StartLeg \/ Allow \/ FourArgExchange \/ RunLeg \/ SettleLeg
    \/ Finish \/ SweepOne \/ Return \/ Revert
    \/ \E u \in User, t \in Token, x \in 1..MaxGift : Donate(u, t, x)

Spec == Init /\ [][Next]_vars

----------------------------------------------------------------------------
(* What has to hold.                                                       *)

TypeOK ==
    /\ bal \in Ledger
    /\ allowance \in [Token -> [Pool -> Allowance]]
    /\ pc \in {"idle", "leg", "allow", "run", "retry", "settle", "sweep"}
    /\ call \in Calls \cup {NoCall}
    /\ steps \in Seq(Step)
    /\ k \in Nat \ {0} /\ dx \in Nat /\ before \in Nat /\ opening \in Nat
    /\ answer \in Nat /\ s \in Nat \ {0}
    /\ snapshot \in Ledger \X [Token -> [Pool -> Allowance]]
    /\ donated \in [Token -> Nat] /\ earned \in Int /\ txs \in Nat

\* Between transactions the router holds what was pushed to it unasked and no
\* route has touched since, and nothing else: no dust, no stray value, nothing
\* left of a route that reverted (the sweep and the msg.value asserts).  A token
\* whose transfers round down may leave its last unit behind.
RouterKeepsNothing ==
    pc = "idle" => \A t \in Token :
        Held(t) - donated[t] \in 0..(IF t \in RoundsDown THEN 1 ELSE 0)

\* `produced` is what the legs earned of the last output, net of what they
\* spent of it: neither the pull nor what was lying there counts towards it.
AnswerIsWhatTheLegsEarned == pc = "sweep" => answer = earned

\* When the sweep is over the receiver, whoever it is, is richer by at least
\* the answer in the last output, which is what `execute` returns.
Swept == pc = "sweep" /\ s > 2 * N
ReceiverIsPaid ==
    Swept /\ last \notin FeeOnTransfer \cup RoundsDown =>
        bal[call.receiver][last] + (IF call.receiver = call.sender
                                       /\ steps[1].token_in = last
                                    THEN call.amount_in ELSE 0)
            >= snapshot[1][call.receiver][last] + answer

\* An approval is never written over a standing one: USDT refuses a non-zero to
\* non-zero change, so `_allow` resets it through zero first.
NoAllowanceOverwritten ==
    [][\A t \in Token, p \in Pool :
          allowance'[t][p] = "max" /\ allowance[t][p] # "max" /\ pc' # "idle"
              => allowance[t][p] = "none"]_vars

\* Documented at ElectricRouter.vy:503: what the router was already holding is
\* handed over and not counted, so the legs leave all of it for the sweep.
PriorHoldingsLeftForTheSweep ==
    pc = "sweep" /\ s = 1 => \A t \in Touched(steps) : Held(t) >= snapshot[1][Router][t]

=============================================================================
