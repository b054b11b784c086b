---------------------------- MODULE RouterSession ----------------------------
(***************************************************************************)
(* chain/session.py: one chain, warmed once and quoted many times.  Calls  *)
(* of refresh, set_pair and plan_call are coroutines on one event loop,    *)
(* with no lock between them: whatever is not waiting for the endpoint     *)
(* runs to its next await, and quote, which awaits nothing, runs whole.    *)
(*                                                                         *)
(* State is told apart by the block it was read at.  A cell stands for the *)
(* slots of a pool, or for the sender's allowance in the token spent.      *)
(***************************************************************************)
EXTENDS Integers, FiniteSets

CONSTANTS
    Pools,
    Token,      \* the cell of the allowance a route spends
    Exact,      \* pools quoted from a model frozen at a rebuild
    Roving,     \* pools that read another slot when an oracle begins a round
    Funded,     \* pools that hold ether
    Routes,     \* sets of pools a quote may have chosen
    Tasks, Kind,    \* the coroutines, and what each of them calls
    MaxBlock, Lag,  \* heights, and how far a node may be behind
    CATCH_UP_TRIES,
    MaxFaults,  \* requests that fail, and calls begun, in a behaviour: bounds
    MaxCalls    \* of the model

ASSUME SessionAssumption ==
    /\ IsFiniteSet(Pools) /\ Token \notin Pools
    /\ Exact \cup Roving \cup Funded \subseteq Pools
    /\ Routes \subseteq SUBSET Pools
    /\ Kind \in [Tasks -> {"refresh", "set_pair", "plan_call"}]
    /\ MaxBlock \in Nat \ {0} /\ Lag \in Nat
    /\ {CATCH_UP_TRIES, MaxFaults, MaxCalls} \subseteq Nat

Missing == 0    \* a slot the EVM does not hold, which it reads as zero
Granted == -1   \* an allowance the gas estimate wrote

Cells == Pools \cup {Token}
Blocks == 1..MaxBlock
None == [block |-> 0, of |-> {}]

VARIABLES
    head, approved,     \* the chain: its newest block, the one of the approval
    block,              \* the pin, self.block and the EVM's
    header,             \* the block whose header calls run under
    slots, ether,       \* the block each was read at
    model, models_block,
    prepared,           \* the pin it was made at, and the blocks it was fitted on
    unread,             \* evm.stats.unreadable
    unreadable,         \* what the last refresh could not read
    task,
    faults, calls,
    settled,    \* history: a refresh nothing disturbed was the last to write
    asked       \* history: there is a quote to plan

chain == <<head, approved>>
state == <<block, header, slots, ether>>
models == <<model, models_block>>
counts == <<unread, unreadable>>
history == <<settled, asked>>
vars == <<chain, state, models, prepared, counts, task, faults, calls, history>>

----------------------------------------------------------------------------
(* The event loop and the endpoint.                                        *)

\* A task at rest, and what one in flight keeps: the block it reads at, and what
\* its method holds in variables of its own.
Idle == [pc |-> "idle", alone |-> FALSE, at |-> 0, reads |-> {}, asked |-> {},
         block |-> 0, short |-> 0, kept |-> FALSE,
         route |-> {}, floor |-> 0, tries |-> 0, refused |-> FALSE,
         bound |-> FALSE, priced |-> [p \in {} |-> Missing]]

\* Only a task that waits lets another in.
Waiting == \A t \in Tasks : task[t].pc # "run"

\* The nodes behind one endpoint are not at one height.
Heights == {h \in Blocks : head - Lag <= h /\ h <= head}

Call(t, kind, start) ==
    /\ Kind[t] = kind /\ task[t].pc = "idle" /\ Waiting
    /\ calls < MaxCalls /\ calls' = calls + 1
    /\ task' = [u \in Tasks |->
                  IF u = t
                  THEN [start EXCEPT !.alone = \A v \in Tasks : task[v].pc = "idle"]
                  ELSE [task[u] EXCEPT !.alone = FALSE]]

At(t, pc) == task[t].pc = pc /\ (pc = "run" \/ Waiting)
Goes(t, next) == task' = [task EXCEPT ![t] = next] /\ UNCHANGED calls
Ends(t) == task' = [task EXCEPT ![t] = Idle] /\ UNCHANGED calls

Fault(n) == faults + n <= MaxFaults /\ faults' = faults + n
FaultIf(bad) == Fault(IF bad THEN 1 ELSE 0)

\* A request that raises takes the whole call with it, and leaves what the call
\* had already written.
Raise(t) ==
    /\ task[t].pc \notin {"idle", "run", "gas_price"} /\ Waiting
    /\ Fault(1) /\ Ends(t)
    /\ settled' = (settled /\ task[t].pc = "header")
    /\ UNCHANGED <<chain, state, models, prepared, counts, asked>>

\* Slip: what did not come back the second time is passed over.
NotCounted(refused) == unread

Counted(refused) == unread + Cardinality(refused)

\* _read_slots over the slots held of `some`: those refused twice are counted and
\* keep what they had, and after a round has moved the pool reads a slot that is
\* not there.
Reread(some, h, refused, moved) ==
    /\ refused \subseteq {c \in some : slots[c] # Missing}
    /\ moved \subseteq (some \cap Roving) \ refused
    /\ slots' = [c \in Cells |->
                   IF c \notin some \ refused \/ slots[c] = Missing THEN slots[c]
                   ELSE IF c \in moved THEN Missing ELSE h]
    /\ unread' = Counted(refused)
    /\ FaultIf(refused # {})

----------------------------------------------------------------------------
(* fill: a stage is run until it misses nothing, or what it missed before. *)

Lacks(t) == {c \in task[t].reads : slots[c] = Missing}
Complete(t) == At(t, "run") /\ Lacks(t) \in {{}, task[t].asked}
Stage(of, reads) == [of EXCEPT !.pc = "run", !.reads = reads, !.asked = {}]

FillMisses(t) ==
    /\ At(t, "run") /\ ~Complete(t)
    /\ Goes(t, [task[t] EXCEPT !.pc = "fetch", !.asked = Lacks(t)])
    /\ UNCHANGED <<chain, state, models, prepared, counts, faults, history>>

FillLands(t, refused) ==
    /\ At(t, "fetch") /\ refused \subseteq task[t].asked
    /\ FaultIf(refused # {})
    /\ slots' = [c \in Cells |-> IF c \in task[t].asked \ refused THEN task[t].at
                                 ELSE slots[c]]
    /\ Goes(t, [task[t] EXCEPT !.pc = "run"])
    /\ UNCHANGED <<chain, block, header, ether, models, prepared, counts, history>>

----------------------------------------------------------------------------
(* refresh.                                                                *)

Refresh(t) ==
    /\ Call(t, "refresh", [Idle EXCEPT !.pc = "header"])
    /\ UNCHANGED <<chain, state, models, prepared, counts, faults, history>>

\* The pin and the header move before anything has been read.
RefreshHeader(t, h) ==
    /\ Kind[t] = "refresh" /\ At(t, "header")
    /\ IF h = block
       THEN Ends(t) /\ UNCHANGED <<state, settled>>
       ELSE /\ block' = h /\ header' = h
            /\ Goes(t, [task[t] EXCEPT !.pc = "sweep", !.block = h, !.at = h,
                                       !.short = unread])
            /\ settled' = FALSE
            /\ UNCHANGED <<slots, ether>>
    /\ UNCHANGED <<chain, models, prepared, counts, faults, asked>>

RefreshSweep(t, refused, moved) ==
    /\ At(t, "sweep")
    /\ Reread(Cells, task[t].at, refused, moved)
    /\ Goes(t, [task[t] EXCEPT !.pc = "balances", !.at = block])
    /\ UNCHANGED <<chain, block, header, ether, models, prepared, unreadable, history>>

\* Slip: the models are rebuilt bare, on what the EVM happens to hold.
BareRebuild == {}

\* The rebuild runs under the miss loop, which fetches what the models read.
RebuildReads == Exact

\* What follows is read at whatever the pin is by then.  A balance that does not
\* come back is not counted.
RefreshBalances(t, answered) ==
    /\ At(t, "balances")
    /\ ether' = [p \in Funded |-> IF p \in answered THEN task[t].at ELSE ether[p]]
    /\ FaultIf(answered # Funded)
    /\ Goes(t, Stage([task[t] EXCEPT !.at = block], RebuildReads))
    /\ UNCHANGED <<chain, block, header, slots, models, prepared, counts, history>>

\* refresh_at: every model is frozen on what the EVM holds of its pool.
Frozen == [p \in Exact |-> slots[p]]

\* What is said to be of the block already is kept, whatever it was frozen on.
RebuiltAt(b) ==
    IF b = models_block THEN UNCHANGED models
    ELSE model' = Frozen /\ models_block' = b

OfTheirBlock == \A p \in Exact : model[p] = models_block

RefreshModels(t) ==
    /\ Kind[t] = "refresh" /\ Complete(t)
    /\ unread' = Counted(Lacks(t))
    /\ RebuiltAt(task[t].block)
    /\ Goes(t, [task[t] EXCEPT !.pc = "gas_price",
                !.kept = task[t].block = models_block /\ ~OfTheirBlock])
    /\ UNCHANGED <<chain, state, prepared, unreadable, faults, settled, asked>>

\* A gas price that does not come is no fault: the old one is kept.
RefreshDone(t) ==
    /\ At(t, "gas_price")
    /\ prepared' = None
    /\ unreadable' = unread - task[t].short
    /\ settled' = (task[t].alone /\ ~task[t].kept /\ unreadable' = 0)
    /\ Ends(t)
    /\ UNCHANGED <<chain, state, models, unread, faults, asked>>

----------------------------------------------------------------------------
(* set_pair and quote.                                                     *)

\* What a client answers from: a model where there is one, else the EVM.
Seen(p, m) == IF p \in Exact THEN m[p] ELSE slots[p]
Fitted(m) == [block |-> block, of |-> {Seen(p, m) : p \in Pools} \cup {header}]

\* Only what is quoted from the EVM can be missed.
SetPair(t) ==
    /\ Call(t, "set_pair", Stage([Idle EXCEPT !.at = block], Pools \ Exact))
    /\ UNCHANGED <<chain, state, models, prepared, counts, faults, history>>

SetPairDone(t) ==
    /\ Kind[t] = "set_pair" /\ Complete(t)
    /\ unread' = Counted(Lacks(t))
    /\ settled' = (settled /\ Lacks(t) = {})
    /\ prepared' = Fitted(model)
    /\ Ends(t)
    /\ UNCHANGED <<chain, state, models, unreadable, faults, asked>>

\* pipeline.route fits again when the pin has moved, and keeps that to itself.
Preparation(m) == IF prepared.block = block THEN prepared ELSE Fitted(m)

\* The models catch up with the pin first, on whatever storage there is.
ModelsNow == IF block = models_block THEN model ELSE Frozen
QuotedOf == Preparation(ModelsNow).of \cup Fitted(ModelsNow).of

Quote ==
    /\ Waiting /\ prepared # None
    /\ model' = ModelsNow /\ models_block' = block
    /\ asked' = TRUE
    /\ UNCHANGED <<chain, state, prepared, counts, task, faults, calls, settled>>

----------------------------------------------------------------------------
(* plan_call.                                                              *)

Touched(route) == route \cup {Token}

\* The caller has seen the approval confirmed, or has nothing to wait for.
PlanCall(t, route, floor) ==
    /\ asked
    /\ Call(t, "plan_call", [Idle EXCEPT !.pc = "header", !.route = route, !.floor = floor])
    /\ UNCHANGED <<chain, state, models, prepared, counts, faults, history>>

\* _header_at_least: short of the floor it asks again, and then takes what it has.
PlanHeader(t, h) ==
    /\ Kind[t] = "plan_call" /\ At(t, "header")
    /\ IF h < task[t].floor /\ task[t].tries < CATCH_UP_TRIES
       THEN /\ Goes(t, [task[t] EXCEPT !.tries = @ + 1])
            /\ UNCHANGED <<header, settled>>
       ELSE /\ header' = h
            /\ Goes(t, [task[t] EXCEPT !.pc = "reread", !.at = h])
            /\ settled' = FALSE
    /\ UNCHANGED <<chain, block, slots, ether, models, prepared, counts, faults, asked>>

PlanReread(t, refused, moved) ==
    /\ At(t, "reread")
    /\ Reread(Touched(task[t].route), task[t].at, refused, moved)
    /\ Goes(t, Stage([task[t] EXCEPT !.refused = refused # {}], task[t].route))
    /\ UNCHANGED <<chain, block, header, ether, models, prepared, unreadable, history>>

\* Slip: the legs are priced from the models of the warm.
FromTheModels(route) == [p \in route |-> Seen(p, model)]

\* _LiveQuotes: the bounds come off storage, not off the models.
Live(route) == [p \in route |-> slots[p]]

PlanPrice(t) ==
    /\ Kind[t] = "plan_call" /\ Complete(t) /\ ~task[t].bound
    /\ unread' = Counted(Lacks(t))
    /\ Goes(t, [task[t] EXCEPT !.pc = "seed", !.bound = TRUE,
                               !.priced = Live(task[t].route),
                               !.refused = @ \/ Lacks(t) # {}])
    /\ UNCHANGED <<chain, state, models, prepared, unreadable, faults, history>>

\* eth_createAccessList stops where the call did, and may not answer at all; what
\* it lists is then read, and that read may raise.
PlanSeed(t, listed) ==
    /\ At(t, "seed")
    /\ slots' = [c \in Cells |-> IF c \in listed THEN task[t].at ELSE slots[c]]
    /\ Goes(t, Stage(task[t], Touched(task[t].route)))
    /\ UNCHANGED <<chain, block, header, ether, models, prepared, counts, faults, history>>

Allowed == slots[Token] = Granted \/ (approved # 0 /\ slots[Token] >= approved)

\* The call goes through if it may spend, and if its legs keep their bounds: on
\* the state they were priced on they do.
PlanRuns(t) == Kind[t] = "plan_call" /\ Complete(t) /\ task[t].bound

PlanAgreed(t) ==
    /\ PlanRuns(t) /\ Allowed
    /\ Ends(t)
    /\ unread' = Counted(Lacks(t))
    /\ UNCHANGED <<chain, state, models, prepared, unreadable, faults, history>>

Marked == [slots EXCEPT ![Token] = Granted]

\* _estimate_gas: the allowance is granted here, if its slot is found, and the
\* call is run again before anything is awaited.
PlanRefused(t, found) ==
    /\ PlanRuns(t) /\ (~Allowed \/ task[t].priced # Live(task[t].route))
    /\ IF found
       THEN /\ slots' = Marked
            /\ Goes(t, [task[t] EXCEPT !.pc = "restore"])
       ELSE Ends(t) /\ UNCHANGED slots
    /\ unread' = Counted(Lacks(t))
    /\ UNCHANGED <<chain, block, header, ether, models, prepared, unreadable, faults,
                   history>>

\* Slip: the estimate leaves the allowance it granted.
LeftGranted(t, refused) ==
    /\ At(t, "restore") /\ refused = {}
    /\ Ends(t)
    /\ UNCHANGED <<chain, state, models, prepared, counts, faults, history>>

PlanRestore(t, refused) ==
    /\ At(t, "restore")
    /\ Reread({Token}, task[t].at, refused, {})
    /\ Ends(t)
    /\ UNCHANGED <<chain, block, header, ether, models, prepared, unreadable, history>>

----------------------------------------------------------------------------
(* The chain, and the session a warm leaves.                               *)

\* A block comes, which may have the caller's approval in it.
Advance(approving) ==
    /\ head < MaxBlock /\ Waiting
    /\ head' = head + 1
    /\ approving => approved = 0
    /\ approved' = IF approving THEN head' ELSE approved
    /\ UNCHANGED <<state, models, prepared, counts, task, faults, calls, history>>

\* What the sweep was refused is not there, and is frozen in the models so.
Init ==
    /\ head = 1 /\ approved = 0 /\ block = 1 /\ header = 1
    /\ \E refused \in SUBSET Pools :
         /\ slots = [c \in Cells |-> IF c \in refused \cup {Token} THEN Missing ELSE 1]
         /\ unread = Cardinality(refused)
         /\ faults = (IF refused = {} THEN 0 ELSE 1) /\ faults <= MaxFaults
         /\ settled = (refused = {})
    /\ ether = [p \in Funded |-> 1]
    /\ model = [p \in Exact |-> slots[p]] /\ models_block = 1
    /\ prepared = None /\ unreadable = 0 /\ calls = 0
    /\ task = [t \in Tasks |-> Idle]
    /\ asked = FALSE

Step(t) ==
    \/ Refresh(t) \/ RefreshModels(t) \/ RefreshDone(t)
    \/ SetPair(t) \/ SetPairDone(t)
    \/ PlanPrice(t) \/ PlanAgreed(t) \/ FillMisses(t) \/ Raise(t)
    \/ \E h \in Heights : RefreshHeader(t, h) \/ PlanHeader(t, h)
    \/ \E refused \in SUBSET Cells :
         \/ FillLands(t, refused) \/ PlanRestore(t, refused)
         \/ \E moved \in SUBSET Roving :
              RefreshSweep(t, refused, moved) \/ PlanReread(t, refused, moved)
    \/ \E answered \in SUBSET Funded : RefreshBalances(t, answered)
    \/ \E route \in Routes, floor \in {0, approved} : PlanCall(t, route, floor)
    \/ \E listed \in {{}, {Token}} \cup {Touched(route) : route \in Routes} :
         PlanSeed(t, listed)
    \/ \E found \in BOOLEAN : PlanRefused(t, found)

Next == (\E approving \in BOOLEAN : Advance(approving)) \/ Quote \/ \E t \in Tasks : Step(t)

Spec == Init /\ [][Next]_vars

----------------------------------------------------------------------------
(* What has to hold.                                                       *)

\* Stated at core/pipeline.py:553 and chain/session.py:375: what a quote is made
\* of -- preparation, models, storage and header -- is of the block the session is
\* pinned to, once a refresh has read everything with nothing going on beside it,
\* and until a plan reads another block.
QuotedAtThePin ==
    Waiting /\ prepared # None /\ settled => QuotedOf = {block}

\* Stated at chain/session.py:220: a refresh that had the session to itself says how
\* much of it still holds another block.  The one thing it does not see is a model
\* it found said to be of its block and not rebuilt for it: `kept`.
RefreshTells ==
    \A t \in Tasks : At(t, "gas_price") /\ task[t].alone /\ ~task[t].kept =>
        Cardinality({c \in Cells : slots[c] \notin {block, Missing}}
                    \cup {p \in Exact : model[p] # block}) <= unread - task[t].short

\* A plan about to run its call, which nothing went on beside.
RunsAlone(t) == PlanRuns(t) /\ task[t].alone
NoneRefused(t) == ~task[t].refused /\ Lacks(t) = {}

\* Stated at chain/session.py:461-463: a plan none of whose reads was refused sets
\* its bounds on the very storage its dry run executes on, of the block it names,
\* with an approval the caller has seen confirmed in it.
PlanIsWhatRan ==
    \A t \in Tasks : RunsAlone(t) /\ NoneRefused(t) =>
        /\ task[t].priced = Live(task[t].route)
        /\ {slots[p] : p \in task[t].route} \cup {header} = {task[t].at}
        /\ task[t].floor \in 1..task[t].at => Allowed

\* Stated at chain/session.py:686: the approval an estimate grants itself never makes
\* a later dry run agree to a call the chain would refuse.  One lost read does not
\* change that: it takes two, the estimate's own of what it had written over and
\* the next plan's of the same slot.
AgreedMeansApproved ==
    faults <= 1 => \A t \in Tasks : RunsAlone(t) /\ Allowed => approved # 0

\* Stated at chain/exact_probe.py:333: the models are of the block they are said to
\* have been read at, in a session at rest that was refused nothing.
ModelsAreOfTheirBlock ==
    faults = 0 /\ (\A t \in Tasks : task[t].pc = "idle") => OfTheirBlock

\* Stated at chain/session.py:461: a plan has re-read the accounts its route touches,
\* the ether they hold included, at the block it names.
RouteIsReread ==
    \A t \in Tasks : RunsAlone(t) /\ NoneRefused(t) =>
        \A p \in task[t].route \cap Funded : ether[p] = task[t].at

=============================================================================
