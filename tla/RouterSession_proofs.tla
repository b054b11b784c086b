------------------------ MODULE RouterSession_proofs ------------------------
(***************************************************************************)
(* What a quote, a refresh and a plan are made of, for any pools, blocks   *)
(* and tasks, any number of calls and any interleaving of their awaits.    *)
(***************************************************************************)
EXTENDS RouterSession, FiniteSetTheorems, TLAPS

Pcs == {"idle", "header", "sweep", "balances", "run", "fetch", "gas_price",
        "reread", "seed", "restore"}
Values == Blocks \cup {Missing, Granted}
Filling == {"run", "fetch"}

\* A price for each pool of a route.
Bounds == UNION {[route -> Values] : route \in SUBSET Pools}

Frame ==
    [pc: Pcs, alone: BOOLEAN, at: Blocks \cup {0}, reads: SUBSET Cells, asked: SUBSET Cells,
     block: Blocks \cup {0}, short: Nat, kept: BOOLEAN,
     route: SUBSET Pools, floor: Nat, tries: Nat, refused: BOOLEAN,
     bound: BOOLEAN, priced: Bounds]

Typed ==
    /\ {block, header, models_block} \subseteq Blocks
    /\ slots \in [Cells -> Values] /\ model \in [Exact -> Values]
    /\ {head, approved, unread, faults} \subseteq Nat
    /\ settled \in BOOLEAN
    /\ task \in [Tasks -> Frame]

\* Where a task of each kind can be, and what its fill reads.
PlacedAt(t) ==
    /\ task[t].pc = "idle" => ~task[t].alone
    /\ task[t].pc \notin {"idle", "header"} => task[t].at \in Blocks
    /\ Kind[t] = "refresh" =>
         /\ task[t].pc \in {"idle", "header", "sweep", "balances", "gas_price"} \cup Filling
         /\ task[t].pc \in Filling => task[t].reads = Exact
         /\ task[t].pc \notin {"idle", "header"} => task[t].block \in Blocks
    /\ Kind[t] = "set_pair" =>
         /\ task[t].pc \in {"idle"} \cup Filling
         /\ task[t].pc \in Filling => task[t].reads = Pools \ Exact
    /\ Kind[t] = "plan_call" =>
         /\ task[t].pc \in {"idle", "header", "reread", "seed", "restore"} \cup Filling
         /\ task[t].pc \in Filling => task[t].reads =
              IF task[t].bound THEN Touched(task[t].route) ELSE task[t].route
         /\ task[t].pc \in {"header", "reread"} => ~task[t].bound
         /\ task[t].pc = "seed" => task[t].bound
         /\ task[t].floor # 0 => task[t].floor = approved
    /\ task[t].pc \in Filling => task[t].asked \subseteq task[t].reads

Placed == \A t \in Tasks : PlacedAt(t)

\* Whoever has the session to itself finds nobody else at work.
ByItself ==
    \A t \in Tasks : task[t].alone => \A v \in Tasks \ {t} : task[v].pc = "idle"

\* The approval an estimate wrote stands while the estimate is under way, or has
\* cost a request that was lost; and a plan by itself has written over it, unless
\* that was lost as well.
Pricing == {"seed"} \cup Filling
Borrowed ==
    slots[Token] = Granted =>
      /\ faults >= 1 \/ \E v \in Tasks : task[v].pc = "restore"
      /\ \A t \in Tasks : Kind[t] = "plan_call" /\ task[t].alone /\ task[t].pc \in Pricing
             => faults >= 2

\* A plan by itself: the header and what it re-read are of its block, and so are
\* its bounds, once it has them.
Planning ==
    \A t \in Tasks : Kind[t] = "plan_call" /\ task[t].alone =>
      /\ task[t].pc \in {"reread"} \cup Pricing => header = task[t].at
      /\ task[t].pc \in Pricing /\ ~task[t].refused =>
           /\ \A c \in Touched(task[t].route) : slots[c] \in {task[t].at, Missing}
           /\ task[t].bound =>
                /\ task[t].priced = [p \in task[t].route |-> task[t].at]
                /\ \A p \in task[t].route : slots[p] = task[t].at

Off == {c \in Cells : slots[c] \notin {block, Missing}}
Stale == {p \in Exact : model[p] # block}

\* A refresh by itself: it has counted every slot of another block, and every model.
Refreshing ==
    \A t \in Tasks : Kind[t] = "refresh" /\ task[t].alone
                     /\ task[t].pc \notin {"idle", "header"} =>
      /\ task[t].at = block /\ task[t].block = block /\ header = block
      /\ task[t].pc = "sweep" => unread = task[t].short
      /\ task[t].pc \in {"balances"} \cup Filling =>
            Cardinality(Off) <= unread - task[t].short
      /\ task[t].pc = "gas_price" =>
            /\ models_block = block
            /\ ~task[t].kept => Cardinality(Off \cup Stale) <= unread - task[t].short

\* A settled session is of its pin throughout, and nobody is about to change that.
AtRest ==
    settled =>
      /\ header = block /\ models_block = block /\ OfTheirBlock
      /\ \A p \in Pools : slots[p] \in {block, Missing}
      /\ \A t \in Tasks :
           \/ task[t].pc \in {"idle", "header"}
           \/ Kind[t] = "set_pair" /\ task[t].at = block
      /\ prepared # None =>
           /\ prepared = [block |-> block, of |-> {block}]
           /\ \A p \in Pools \ Exact : slots[p] = block

IInv == Typed /\ Placed /\ ByItself /\ Borrowed /\ Planning /\ Refreshing /\ AtRest

----------------------------------------------------------------------------
(* What every proof below needs of the constants, and of a step.           *)

LEMMA Given ==
    /\ Token \notin Pools /\ Exact \subseteq Pools /\ Funded \subseteq Pools
    /\ Routes \subseteq SUBSET Pools /\ Pools \subseteq Cells /\ Token \in Cells
    /\ Blocks \subseteq Nat \ {0} /\ Blocks \subseteq Values
    /\ Missing = 0 /\ Granted = -1 /\ Missing \notin Blocks /\ Granted \notin Blocks
    /\ Missing \in Values /\ Granted \in Values
    /\ IsFiniteSet(Cells)
<1>1. IsFiniteSet(Cells)
  BY SessionAssumption, FS_AddElement DEF Cells
<1> QED
  BY <1>1, SessionAssumption DEF Cells, Blocks, Values, Missing, Granted

LEMMA IdleFrame == Idle \in Frame
<1>1. [p \in {} |-> Missing] \in [{} -> Values]
  BY Given
<1>2. [p \in {} |-> Missing] \in Bounds
  BY <1>1 DEF Bounds
<1> QED
  BY <1>2 DEF Idle, Frame, Pcs

LEMMA Moves ==
    ASSUME task \in [Tasks -> Frame], NEW t \in Tasks, NEW next \in Frame, Goes(t, next)
    PROVE  /\ task' \in [Tasks -> Frame]
           /\ task'[t] = next /\ \A v \in Tasks \ {t} : task'[v] = task[v]
BY DEF Goes

LEMMA Finishes ==
    ASSUME task \in [Tasks -> Frame], NEW t \in Tasks, Ends(t)
    PROVE  /\ task' \in [Tasks -> Frame]
           /\ task'[t] = Idle /\ \A v \in Tasks \ {t} : task'[v] = task[v]
BY IdleFrame DEF Ends

LEMMA Begins ==
    ASSUME task \in [Tasks -> Frame], NEW t \in Tasks, NEW kind, NEW start \in Frame,
           Call(t, kind, start)
    PROVE  /\ task' \in [Tasks -> Frame]
           /\ Kind[t] = kind /\ task[t].pc = "idle" /\ Waiting
           /\ task'[t] = [start EXCEPT !.alone = \A v \in Tasks : task[v].pc = "idle"]
           /\ \A v \in Tasks \ {t} : task'[v] = [task[v] EXCEPT !.alone = FALSE]
<1> DEFINE free == \A v \in Tasks : task[v].pc = "idle"
<1>0. free \in BOOLEAN
  OBVIOUS
<1>1. task' = [u \in Tasks |-> IF u = t THEN [start EXCEPT !.alone = free]
                               ELSE [task[u] EXCEPT !.alone = FALSE]]
  BY DEF Call
<1> HIDE DEF free
<1>2. [start EXCEPT !.alone = free] \in Frame
  BY <1>0 DEF Frame
<1>3. \A u \in Tasks : [task[u] EXCEPT !.alone = FALSE] \in Frame
  BY DEF Frame
<1> QED
  BY <1>1, <1>2, <1>3, ZenonT(60) DEF Call, free

----------------------------------------------------------------------------
(* Types, and where each step leaves the task that takes it.               *)

Others(t) == \A v \in Tasks \ {t} : task'[v] = task[v]
After(t, next) == task'[t] = next /\ Others(t)

\* What a step leaves of the task that takes it.
Fields == {"alone", "at", "reads", "asked", "block", "short", "kept", "route", "floor",
           "refused", "bound", "priced"}
Same(t, fields) == \A f \in fields : task'[t][f] = task[t][f]

\* A fill can only be asked for what it reads, and counts what it lacks.
LEMMA Lacking ==
    ASSUME Typed, NEW t \in Tasks
    PROVE  /\ Lacks(t) \in SUBSET Cells /\ Lacks(t) \subseteq task[t].reads
           /\ Cardinality(Lacks(t)) \in Nat
           /\ Counted(Lacks(t)) \in Nat /\ Counted(Lacks(t)) >= unread
           /\ Counted(Lacks(t)) = unread => Lacks(t) = {}
<1>1. Lacks(t) \in SUBSET Cells /\ Lacks(t) \subseteq task[t].reads
  BY DEF Typed, Frame, Lacks
<1>2. IsFiniteSet(Lacks(t))
  BY <1>1, Given, FS_Subset
<1>3. Cardinality(Lacks(t)) \in Nat /\ (Cardinality(Lacks(t)) = 0 => Lacks(t) = {})
  BY <1>2, FS_CardinalityType, FS_EmptySet
<1> QED
  BY <1>1, <1>3 DEF Counted, Typed

LEMMA Rereading ==
    ASSUME Typed, NEW some \in SUBSET Cells, NEW h \in Blocks, NEW refused \in SUBSET Cells,
           NEW moved \in SUBSET Roving, Reread(some, h, refused, moved)
    PROVE  /\ slots' \in [Cells -> Values] /\ unread' \in Nat /\ faults' \in Nat
           /\ unread' = unread + Cardinality(refused) /\ Cardinality(refused) \in Nat
           /\ faults' >= faults /\ (refused # {} => faults' = faults + 1)
<1>1. IsFiniteSet(refused)
  BY Given, FS_Subset
<1>2. Cardinality(refused) \in Nat
  BY <1>1, FS_CardinalityType
<1>3. slots' \in [Cells -> Values]
  BY Given DEF Reread, Typed
<1> QED
  BY <1>2, <1>3 DEF Reread, Counted, FaultIf, Fault, Typed

LEMMA RaiseMoves ==
    ASSUME Typed, NEW t \in Tasks, Raise(t)
    PROVE  Typed' /\ After(t, Idle) /\ faults' = faults + 1
<1>1. settled' \in BOOLEAN /\ faults' = faults + 1
  BY DEF Raise, Typed, Fault
<1> QED
  BY <1>1, Finishes DEF Raise, Typed, After, Others, chain, state, models, counts

LEMMA FillMissesMoves ==
    ASSUME Typed, NEW t \in Tasks, FillMisses(t)
    PROVE  /\ Typed' /\ Others(t)
           /\ task'[t].pc = "fetch" /\ task'[t].asked = Lacks(t)
           /\ Same(t, Fields \ {"asked"})
<1> DEFINE next == [task[t] EXCEPT !.pc = "fetch", !.asked = Lacks(t)]
<1>1. Lacks(t) \in SUBSET Cells /\ task[t] \in Frame
  BY Lacking DEF Typed
<1>2. /\ next \in Frame /\ next.pc = "fetch" /\ next.asked = Lacks(t)
      /\ \A f \in Fields \ {"asked"} : next[f] = task[t][f]
  BY <1>1 DEF Frame, Pcs, Fields
<1>3. Goes(t, next)
  BY DEF FillMisses
<1> HIDE DEF next
<1>4. task' \in [Tasks -> Frame] /\ task'[t] = next /\ Others(t)
  BY <1>2, <1>3, Moves DEF Typed, Others
<1> QED
  BY <1>2, <1>4 DEF FillMisses, Same, Typed, chain, state, models, counts, history

LEMMA FillLandsMoves ==
    ASSUME Typed, Placed, NEW t \in Tasks, NEW refused \in SUBSET Cells, FillLands(t, refused)
    PROVE  /\ Typed' /\ Others(t) /\ task'[t].pc = "run" /\ Same(t, Fields)
           /\ task[t].pc = "fetch" /\ task[t].at \in Blocks
           /\ faults' >= faults /\ (refused # {} => faults' = faults + 1)
<1> DEFINE next == [task[t] EXCEPT !.pc = "run"]
<1>1. task[t] \in Frame
  BY DEF Typed
<1>2. /\ next \in Frame /\ next.pc = "run"
      /\ \A f \in Fields : next[f] = task[t][f]
  BY <1>1 DEF Frame, Pcs, Fields
<1>3. Goes(t, next)
  BY DEF FillLands
<1> HIDE DEF next
<1>4. task' \in [Tasks -> Frame] /\ task'[t] = next /\ Others(t)
  BY <1>2, <1>3, Moves DEF Typed, Others
<1>5. task[t].pc = "fetch" /\ task[t].at \in Blocks
  BY DEF FillLands, Placed, PlacedAt, At
<1>6. slots' \in [Cells -> Values]
  BY <1>5, Given DEF FillLands, Typed
<1>7. faults' \in Nat /\ faults' >= faults /\ (refused # {} => faults' = faults + 1)
  BY DEF FillLands, FaultIf, Fault, Typed
<1> QED
  BY <1>2, <1>4, <1>5, <1>6, <1>7 DEF FillLands, Same, Typed, chain, models, counts, history

LEMMA RefreshMoves ==
    ASSUME Typed, NEW t \in Tasks, Refresh(t)
    PROVE  /\ Typed' /\ Kind[t] = "refresh" /\ task[t].pc = "idle"
           /\ task'[t].pc = "header"
           /\ task'[t].alone => \A v \in Tasks : task[v].pc = "idle"
           /\ \A v \in Tasks \ {t} : task'[v] = [task[v] EXCEPT !.alone = FALSE]
<1> DEFINE start == [Idle EXCEPT !.pc = "header"]
           free == \A v \in Tasks : task[v].pc = "idle"
           next == [start EXCEPT !.alone = free]
<1>1. start \in Frame
  BY IdleFrame DEF Frame, Pcs
<1>2. Call(t, "refresh", start)
  BY DEF Refresh, Stage
<1>3. /\ task' \in [Tasks -> Frame] /\ Kind[t] = "refresh" /\ task[t].pc = "idle"
      /\ task'[t] = next
      /\ \A v \in Tasks \ {t} : task'[v] = [task[v] EXCEPT !.alone = FALSE]
  <2> HIDE DEF start
  <2> QED BY <1>1, <1>2, Begins DEF Typed
<1>4. /\ next.pc = "header"
      /\ next.alone = free
  <2> HIDE DEF free
  <2> QED BY DEF Idle
<1> HIDE DEF next
<1> QED
  BY <1>3, <1>4 DEF Refresh, Typed, chain, state, models, counts, history

LEMMA SetPairMoves ==
    ASSUME Typed, NEW t \in Tasks, SetPair(t)
    PROVE  /\ Typed' /\ Kind[t] = "set_pair" /\ task[t].pc = "idle"
           /\ task'[t].pc = "run" /\ task'[t].at = block
           /\ task'[t].reads = Pools \ Exact /\ task'[t].asked = {}
           /\ task'[t].alone => \A v \in Tasks : task[v].pc = "idle"
           /\ \A v \in Tasks \ {t} : task'[v] = [task[v] EXCEPT !.alone = FALSE]
<1> DEFINE start == [Idle EXCEPT !.at = block, !.pc = "run", !.reads = Pools \ Exact, !.asked = {}]
           free == \A v \in Tasks : task[v].pc = "idle"
           next == [start EXCEPT !.alone = free]
<1>1. start \in Frame
  <2>1. Pools \ Exact \in SUBSET Cells /\ block \in Blocks
    BY Given DEF Typed
  <2> QED BY <2>1, IdleFrame DEF Frame, Pcs
<1>2. Call(t, "set_pair", start)
  BY DEF SetPair, Stage
<1>3. /\ task' \in [Tasks -> Frame] /\ Kind[t] = "set_pair" /\ task[t].pc = "idle"
      /\ task'[t] = next
      /\ \A v \in Tasks \ {t} : task'[v] = [task[v] EXCEPT !.alone = FALSE]
  <2> HIDE DEF start
  <2> QED BY <1>1, <1>2, Begins DEF Typed
<1>4. /\ next.pc = "run" /\ next.at = block
           /\ next.reads = Pools \ Exact /\ next.asked = {}
      /\ next.alone = free
  <2> HIDE DEF free
  <2> QED BY DEF Idle
<1> HIDE DEF next
<1> QED
  BY <1>3, <1>4 DEF SetPair, Typed, chain, state, models, counts, history

LEMMA PlanCallMoves ==
    ASSUME Typed, NEW t \in Tasks, NEW route \in Routes, NEW floor \in {0, approved},
           PlanCall(t, route, floor)
    PROVE  /\ Typed' /\ Kind[t] = "plan_call" /\ task[t].pc = "idle"
           /\ task'[t].pc = "header" /\ task'[t].floor = floor /\ ~task'[t].bound
           /\ task'[t].route = route
           /\ task'[t].alone => \A v \in Tasks : task[v].pc = "idle"
           /\ \A v \in Tasks \ {t} : task'[v] = [task[v] EXCEPT !.alone = FALSE]
<1> DEFINE start == [Idle EXCEPT !.pc = "header", !.route = route, !.floor = floor]
           free == \A v \in Tasks : task[v].pc = "idle"
           next == [start EXCEPT !.alone = free]
<1>1. start \in Frame
  <2>1. route \in SUBSET Pools /\ floor \in Nat
    BY Given DEF Typed
  <2> QED BY <2>1, IdleFrame DEF Frame, Pcs
<1>2. Call(t, "plan_call", start)
  BY DEF PlanCall, Stage
<1>3. /\ task' \in [Tasks -> Frame] /\ Kind[t] = "plan_call" /\ task[t].pc = "idle"
      /\ task'[t] = next
      /\ \A v \in Tasks \ {t} : task'[v] = [task[v] EXCEPT !.alone = FALSE]
  <2> HIDE DEF start
  <2> QED BY <1>1, <1>2, Begins DEF Typed
<1>4. /\ next.pc = "header" /\ next.floor = floor /\ ~next.bound
           /\ next.route = route
      /\ next.alone = free
  <2> HIDE DEF free
  <2> QED BY DEF Idle
<1> HIDE DEF next
<1> QED
  BY <1>3, <1>4 DEF PlanCall, Typed, chain, state, models, counts, history

LEMMA RefreshHeaderMoves ==
    ASSUME Typed, NEW t \in Tasks, NEW h \in Heights, RefreshHeader(t, h)
    PROVE  /\ Typed' /\ h \in Blocks
           /\ h = block => After(t, Idle)
           /\ h # block => /\ Others(t) /\ task'[t].pc = "sweep"
                           /\ task'[t].block = h /\ task'[t].at = h
                           /\ task'[t].short = unread
                           /\ Same(t, Fields \ {"block", "at", "short"})
<1> DEFINE next == [task[t] EXCEPT !.pc = "sweep", !.block = h, !.at = h, !.short = unread]
<1>1. h \in Blocks /\ task[t] \in Frame /\ unread \in Nat
  BY DEF Heights, Typed
<1>2. /\ next \in Frame
      /\ next.pc = "sweep" /\ next.block = h /\ next.at = h /\ next.short = unread
      /\ \A f \in Fields \ {"block", "at", "short"} : next[f] = task[t][f]
  BY <1>1 DEF Frame, Pcs, Fields
<1>3. CASE h = block
  BY <1>1, <1>3, Finishes DEF RefreshHeader, Typed, After, Others, chain, state, models, counts
<1>4. CASE h # block
  <2>1. Goes(t, next)
    BY <1>4 DEF RefreshHeader
  <2> HIDE DEF next
  <2>2. task' \in [Tasks -> Frame] /\ task'[t] = next /\ Others(t)
    BY <1>2, <2>1, Moves DEF Typed, Others
  <2> QED
    BY <1>1, <1>2, <1>4, <2>2 DEF RefreshHeader, Same, Typed, chain, models, counts
<1> QED
  BY <1>3, <1>4

LEMMA RefreshSweepMoves ==
    ASSUME Typed, Placed, NEW t \in Tasks, NEW refused \in SUBSET Cells,
           NEW moved \in SUBSET Roving, RefreshSweep(t, refused, moved)
    PROVE  /\ Typed' /\ Others(t) /\ task'[t].pc = "balances" /\ task'[t].at = block
           /\ Same(t, Fields \ {"at"})
           /\ Kind[t] = "refresh" /\ task[t].pc = "sweep" /\ task[t].at \in Blocks
           /\ Reread(Cells, task[t].at, refused, moved)
<1>1. /\ task[t].pc = "sweep" /\ task[t].at \in Blocks /\ Kind[t] = "refresh"
      /\ Reread(Cells, task[t].at, refused, moved)
  BY SessionAssumption DEF RefreshSweep, At, Placed, PlacedAt, Filling
<1>2. slots' \in [Cells -> Values] /\ unread' \in Nat /\ faults' \in Nat
  BY <1>1, Rereading
<1> DEFINE next == [task[t] EXCEPT !.pc = "balances", !.at = block]
<1>3. task[t] \in Frame /\ block \in Blocks
  BY DEF Typed
<1>4. /\ next \in Frame /\ next.pc = "balances" /\ next.at = block
      /\ \A f \in Fields \ {"at"} : next[f] = task[t][f]
  BY <1>3 DEF Frame, Pcs, Fields
<1>5. Goes(t, next)
  BY DEF RefreshSweep
<1> HIDE DEF next
<1>6. task' \in [Tasks -> Frame] /\ task'[t] = next /\ Others(t)
  BY <1>4, <1>5, Moves DEF Typed, Others
<1> QED
  BY <1>1, <1>2, <1>4, <1>6 DEF RefreshSweep, Same, Typed, chain, models, history

LEMMA RefreshBalancesMoves ==
    ASSUME Typed, Placed, NEW t \in Tasks, NEW answered \in SUBSET Funded,
           RefreshBalances(t, answered)
    PROVE  /\ Typed' /\ Others(t) /\ task'[t].pc = "run" /\ task'[t].at = block
           /\ task'[t].reads = Exact /\ task'[t].asked = {}
           /\ Same(t, Fields \ {"at", "reads", "asked"})
           /\ Kind[t] = "refresh" /\ task[t].pc = "balances" /\ faults' >= faults
<1>1. task[t].pc = "balances" /\ Kind[t] = "refresh"
  BY SessionAssumption DEF RefreshBalances, At, Placed, PlacedAt, Filling
<1>2. faults' \in Nat /\ faults' >= faults
  BY DEF RefreshBalances, FaultIf, Fault, Typed
<1> DEFINE next == [task[t] EXCEPT !.at = block, !.pc = "run", !.reads = Exact, !.asked = {}]
<1>3. Exact \in SUBSET Cells /\ task[t] \in Frame /\ block \in Blocks
  BY Given DEF Typed
<1>4. /\ next \in Frame /\ next.pc = "run" /\ next.at = block
      /\ next.reads = Exact /\ next.asked = {}
      /\ \A f \in Fields \ {"at", "reads", "asked"} : next[f] = task[t][f]
  BY <1>3 DEF Frame, Pcs, Fields
<1>5. Goes(t, next)
  BY DEF RefreshBalances, Stage, RebuildReads
<1> HIDE DEF next
<1>6. task' \in [Tasks -> Frame] /\ task'[t] = next /\ Others(t)
  BY <1>4, <1>5, Moves DEF Typed, Others
<1> QED
  BY <1>1, <1>2, <1>4, <1>6
     DEF RefreshBalances, Same, Typed, chain, models, counts, history

LEMMA RefreshModelsMoves ==
    ASSUME Typed, Placed, NEW t \in Tasks, RefreshModels(t)
    PROVE  /\ Typed' /\ Others(t) /\ task'[t].pc = "gas_price"
           /\ task'[t].kept <=> task[t].block = models_block /\ ~OfTheirBlock
           /\ Same(t, Fields \ {"kept"})
<1> DEFINE kept == task[t].block = models_block /\ ~OfTheirBlock
           next == [task[t] EXCEPT !.pc = "gas_price", !.kept = kept]
<1>1. /\ next \in Frame /\ next.pc = "gas_price" /\ next.kept = kept
      /\ \A f \in Fields \ {"kept"} : next[f] = task[t][f]
  <2>1. kept \in BOOLEAN /\ task[t] \in Frame
    BY DEF Typed
  <2> HIDE DEF kept
  <2> QED BY <2>1 DEF Frame, Pcs, Fields
<1>2. Goes(t, next)
  BY DEF RefreshModels
<1> HIDE DEF next
<1>3. task' \in [Tasks -> Frame] /\ task'[t] = next /\ Others(t)
  BY <1>1, <1>2, Moves DEF Typed, Others
<1>4. unread' \in Nat
  BY Lacking DEF RefreshModels
<1>5. model' \in [Exact -> Values] /\ models_block' \in Blocks
  <2>1. CASE task[t].block = models_block
    BY <2>1 DEF RefreshModels, RebuiltAt, models, Typed
  <2>2. CASE task[t].block # models_block
    <3>1. task[t].block \in Blocks
      BY DEF Placed, PlacedAt, RefreshModels, Complete, At, Filling
    <3>2. Frozen \in [Exact -> Values]
      BY Given DEF Frozen, Typed
    <3> QED BY <2>2, <3>1, <3>2 DEF RefreshModels, RebuiltAt
  <2> QED BY <2>1, <2>2
<1> QED
  BY <1>1, <1>3, <1>4, <1>5 DEF RefreshModels, Same, Typed, chain, state

LEMMA RefreshDoneMoves ==
    ASSUME Typed, NEW t \in Tasks, RefreshDone(t)
    PROVE  Typed' /\ After(t, Idle)
<1>1. settled' \in BOOLEAN
  BY DEF RefreshDone, Typed
<1> QED
  BY <1>1, Finishes DEF RefreshDone, Typed, After, Others, chain, state, models

LEMMA SetPairDoneMoves ==
    ASSUME Typed, NEW t \in Tasks, SetPairDone(t)
    PROVE  Typed' /\ After(t, Idle)
<1>1. settled' \in BOOLEAN /\ unread' \in Nat
  BY Lacking DEF SetPairDone, Typed
<1> QED
  BY <1>1, Finishes DEF SetPairDone, Typed, After, Others, chain, state, models

LEMMA PlanHeaderMoves ==
    ASSUME Typed, NEW t \in Tasks, NEW h \in Heights, PlanHeader(t, h)
    PROVE  /\ Typed' /\ Others(t) /\ h \in Blocks /\ Same(t, Fields \ {"at"})
           /\ \/ /\ task'[t].pc = task[t].pc /\ task'[t].at = task[t].at
                 /\ UNCHANGED <<header, settled>>
              \/ /\ task'[t].pc = "reread" /\ task'[t].at = h
                 /\ header' = h /\ settled' = FALSE
<1> DEFINE again == [task[t] EXCEPT !.tries = @ + 1]
           next == [task[t] EXCEPT !.pc = "reread", !.at = h]
<1>1. h \in Blocks /\ task[t] \in Frame
  BY DEF Heights, Typed
<1>2. /\ again \in Frame /\ again.pc = task[t].pc /\ again.at = task[t].at
      /\ \A f \in Fields : again[f] = task[t][f]
  BY <1>1 DEF Frame, Pcs, Fields
<1>3. /\ next \in Frame /\ next.pc = "reread" /\ next.at = h
      /\ \A f \in Fields \ {"at"} : next[f] = task[t][f]
  BY <1>1 DEF Frame, Pcs, Fields
<1>4. CASE h < task[t].floor /\ task[t].tries < CATCH_UP_TRIES
  <2>1. Goes(t, again)
    BY <1>4 DEF PlanHeader
  <2> HIDE DEF again
  <2>2. task' \in [Tasks -> Frame] /\ task'[t] = again /\ Others(t)
    BY <1>2, <2>1, Moves DEF Typed, Others
  <2> QED
    BY <1>1, <1>2, <1>4, <2>2 DEF PlanHeader, Same, Typed, chain, models, counts
<1>5. CASE ~(h < task[t].floor /\ task[t].tries < CATCH_UP_TRIES)
  <2>1. Goes(t, next)
    BY <1>5 DEF PlanHeader
  <2> HIDE DEF next
  <2>2. task' \in [Tasks -> Frame] /\ task'[t] = next /\ Others(t)
    BY <1>3, <2>1, Moves DEF Typed, Others
  <2> QED
    BY <1>1, <1>3, <1>5, <2>2 DEF PlanHeader, Same, Typed, chain, models, counts
<1> QED
  BY <1>4, <1>5

LEMMA PlanRereadMoves ==
    ASSUME Typed, Placed, NEW t \in Tasks, NEW refused \in SUBSET Cells,
           NEW moved \in SUBSET Roving, PlanReread(t, refused, moved)
    PROVE  /\ Typed' /\ Others(t) /\ task'[t].pc = "run"
           /\ task'[t].refused <=> refused # {}
           /\ task'[t].reads = task[t].route /\ task'[t].asked = {}
           /\ Same(t, Fields \ {"refused", "reads", "asked"})
           /\ Kind[t] = "plan_call" /\ task[t].pc = "reread" /\ task[t].at \in Blocks
           /\ Touched(task[t].route) \in SUBSET Cells /\ Token \in Touched(task[t].route)
           /\ Reread(Touched(task[t].route), task[t].at, refused, moved)
<1>1. /\ task[t].pc = "reread" /\ task[t].at \in Blocks /\ Kind[t] = "plan_call"
      /\ Reread(Touched(task[t].route), task[t].at, refused, moved)
  BY SessionAssumption DEF PlanReread, At, Placed, PlacedAt, Filling
<1>2. task[t].route \in SUBSET Pools /\ task[t] \in Frame
  BY DEF Typed, Frame
<1>3. /\ Touched(task[t].route) \in SUBSET Cells /\ Token \in Touched(task[t].route)
      /\ task[t].route \in SUBSET Cells
  BY <1>2, Given DEF Touched
<1>4. slots' \in [Cells -> Values] /\ unread' \in Nat /\ faults' \in Nat
  BY <1>1, <1>3, Rereading
<1> DEFINE lost == refused # {}
           next == [task[t] EXCEPT !.refused = lost, !.pc = "run", !.reads = task[t].route,
                                   !.asked = {}]
<1>5. /\ next \in Frame /\ next.pc = "run" /\ next.refused = lost
      /\ next.reads = task[t].route /\ next.asked = {}
      /\ \A f \in Fields \ {"refused", "reads", "asked"} : next[f] = task[t][f]
  <2>1. lost \in BOOLEAN
    OBVIOUS
  <2> HIDE DEF lost
  <2> QED BY <1>2, <1>3, <2>1 DEF Frame, Pcs, Fields
<1>6. Goes(t, next)
  <2>1. Stage([task[t] EXCEPT !.refused = lost], task[t].route) = next
    <3>1. lost \in BOOLEAN
      OBVIOUS
    <3> HIDE DEF lost
    <3> QED BY <1>2, <3>1 DEF Frame, Stage
  <2> QED BY <2>1 DEF PlanReread
<1> HIDE DEF next
<1>7. task' \in [Tasks -> Frame] /\ task'[t] = next /\ Others(t)
  BY <1>5, <1>6, Moves DEF Typed, Others
<1> QED
  BY <1>1, <1>3, <1>4, <1>5, <1>7 DEF PlanReread, Same, Typed, chain, models, history

LEMMA PlanPriceMoves ==
    ASSUME Typed, NEW t \in Tasks, PlanPrice(t)
    PROVE  /\ Typed' /\ Others(t) /\ task'[t].pc = "seed" /\ task'[t].bound
           /\ task'[t].priced = Live(task[t].route)
           /\ task'[t].refused <=> task[t].refused \/ Lacks(t) # {}
           /\ Same(t, Fields \ {"bound", "priced", "refused"})
<1>1. task[t].route \in SUBSET Pools /\ task[t] \in Frame
  BY DEF Typed, Frame
<1>2. Live(task[t].route) \in [task[t].route -> Values]
  BY <1>1, Given DEF Live, Typed
<1> DEFINE prices == Live(task[t].route)
           lost == task[t].refused \/ Lacks(t) # {}
           next == [task[t] EXCEPT !.pc = "seed", !.bound = TRUE, !.priced = prices,
                                   !.refused = lost]
<1>3. prices \in Bounds /\ lost \in BOOLEAN
  BY <1>1, <1>2 DEF Bounds
<1>4. /\ next \in Frame /\ next.pc = "seed" /\ next.bound = TRUE /\ next.priced = prices
      /\ next.refused = lost
      /\ \A f \in Fields \ {"bound", "priced", "refused"} : next[f] = task[t][f]
  <2> HIDE DEF prices, lost
  <2> QED BY <1>1, <1>3 DEF Frame, Pcs, Fields
<1>5. Goes(t, next)
  BY DEF PlanPrice
<1> HIDE DEF next
<1>6. task' \in [Tasks -> Frame] /\ task'[t] = next /\ Others(t)
  BY <1>4, <1>5, Moves DEF Typed, Others
<1>7. unread' \in Nat
  BY Lacking DEF PlanPrice
<1> QED
  BY <1>4, <1>6, <1>7 DEF PlanPrice, Same, Typed, chain, state, models, history

LEMMA PlanSeedMoves ==
    ASSUME Typed, Placed, NEW t \in Tasks, NEW listed, PlanSeed(t, listed)
    PROVE  /\ Typed' /\ Others(t) /\ task'[t].pc = "run"
           /\ task'[t].reads = Touched(task[t].route) /\ task'[t].asked = {}
           /\ Same(t, Fields \ {"reads", "asked"})
           /\ Kind[t] = "plan_call" /\ task[t].pc = "seed" /\ task[t].at \in Blocks
<1>1. task[t].pc = "seed" /\ task[t].at \in Blocks /\ Kind[t] = "plan_call"
  BY SessionAssumption DEF PlanSeed, At, Placed, PlacedAt, Filling
<1>2. task[t].route \in SUBSET Pools /\ task[t] \in Frame
  BY DEF Typed, Frame
<1> DEFINE touched == Touched(task[t].route)
           next == [task[t] EXCEPT !.pc = "run", !.reads = touched, !.asked = {}]
<1>3. touched \in SUBSET Cells
  BY <1>2, Given DEF Touched
<1>4. slots' \in [Cells -> Values]
  BY <1>1, Given DEF PlanSeed, Typed
<1>5. /\ next \in Frame /\ next.pc = "run" /\ next.reads = touched /\ next.asked = {}
      /\ \A f \in Fields \ {"reads", "asked"} : next[f] = task[t][f]
  <2> HIDE DEF touched
  <2> QED BY <1>2, <1>3 DEF Frame, Pcs, Fields
<1>6. Goes(t, next)
  BY DEF PlanSeed, Stage
<1> HIDE DEF next
<1>7. task' \in [Tasks -> Frame] /\ task'[t] = next /\ Others(t)
  BY <1>5, <1>6, Moves DEF Typed, Others
<1> QED
  BY <1>1, <1>4, <1>5, <1>7 DEF PlanSeed, Same, Typed, chain, models, counts, history

LEMMA PlanAgreedMoves ==
    ASSUME Typed, NEW t \in Tasks, PlanAgreed(t)
    PROVE  Typed' /\ After(t, Idle)
<1>1. unread' \in Nat
  BY Lacking DEF PlanAgreed
<1> QED
  BY <1>1, Finishes DEF PlanAgreed, Typed, After, Others, chain, state, models, history

LEMMA PlanRefusedMoves ==
    ASSUME Typed, NEW t \in Tasks, NEW found \in BOOLEAN, PlanRefused(t, found)
    PROVE  /\ Typed' /\ Others(t)
           /\ \/ task'[t].pc = "restore" /\ Same(t, Fields) /\ slots' = Marked
              \/ task'[t] = Idle /\ slots' = slots
<1>1. unread' \in Nat
  BY Lacking DEF PlanRefused
<1>2. Marked \in [Cells -> Values]
  BY Given DEF Marked, Typed
<1> DEFINE next == [task[t] EXCEPT !.pc = "restore"]
<1>3. task[t] \in Frame
  BY DEF Typed
<1>4. next \in Frame /\ next.pc = "restore" /\ \A f \in Fields : next[f] = task[t][f]
  BY <1>3 DEF Frame, Pcs, Fields
<1>5. CASE found
  <2>1. Goes(t, next)
    BY <1>5 DEF PlanRefused
  <2> HIDE DEF next
  <2>2. task' \in [Tasks -> Frame] /\ task'[t] = next /\ Others(t)
    BY <1>4, <2>1, Moves DEF Typed, Others
  <2> QED
    BY <1>1, <1>2, <1>4, <1>5, <2>2 DEF PlanRefused, Same, Typed, chain, models, history
<1>6. CASE ~found
  BY <1>1, <1>6, Finishes DEF PlanRefused, Typed, Others, chain, models, history
<1> QED
  BY <1>5, <1>6

LEMMA PlanRestoreMoves ==
    ASSUME Typed, Placed, NEW t \in Tasks, NEW refused \in SUBSET Cells,
           PlanRestore(t, refused)
    PROVE  /\ Typed' /\ After(t, Idle)
           /\ Kind[t] = "plan_call" /\ task[t].pc = "restore" /\ task[t].at \in Blocks
           /\ Reread({Token}, task[t].at, refused, {})
<1>1. /\ task[t].pc = "restore" /\ task[t].at \in Blocks /\ Kind[t] = "plan_call"
      /\ Reread({Token}, task[t].at, refused, {})
  BY SessionAssumption DEF PlanRestore, At, Placed, PlacedAt, Filling
<1>2. slots' \in [Cells -> Values] /\ unread' \in Nat /\ faults' \in Nat
  <2>1. {Token} \in SUBSET Cells /\ {} \in SUBSET Roving
    BY Given
  <2> QED BY <1>1, <2>1, Rereading
<1> QED
  BY <1>1, <1>2, Finishes DEF PlanRestore, Typed, After, Others, chain, models, history

LEMMA QuoteMoves ==
    ASSUME Typed, Quote
    PROVE  Typed' /\ task' = task
<1>1. model' \in [Exact -> Values]
  BY Given DEF Quote, ModelsNow, Frozen, Typed
<1> QED
  BY <1>1 DEF Quote, Typed, chain, state, counts

LEMMA AdvanceMoves ==
    ASSUME Typed, NEW approving \in BOOLEAN, Advance(approving)
    PROVE  /\ Typed' /\ task' = task
           /\ approved # 0 => approved' = approved
BY DEF Advance, Typed, state, models, counts, history

LEMMA PlacedStays ==
    ASSUME NEW v \in Tasks, Typed, PlacedAt(v), UNCHANGED approved,
           task'[v] = task[v] \/ task'[v] = [task[v] EXCEPT !.alone = FALSE]
    PROVE  PlacedAt(v)'
<1>1. CASE task'[v] = task[v]
  BY <1>1 DEF PlacedAt
<1>2. CASE task'[v] = [task[v] EXCEPT !.alone = FALSE]
  <2>1. task[v] \in Frame
    BY DEF Typed
  <2> QED BY <1>2, <2>1 DEF PlacedAt, Frame
<1> QED
  BY <1>1, <1>2

LEMMA AtHome ==
    ASSUME NEW t \in Tasks, task'[t] = Idle
    PROVE  PlacedAt(t)'
<1>1. Kind[t] \in {"refresh", "set_pair", "plan_call"}
  BY SessionAssumption
<1> QED
  BY <1>1 DEF PlacedAt, Idle, Filling

LEMMA PlacedNext ==
    ASSUME Typed, Placed, [Next]_vars
    PROVE  Typed' /\ Placed'
<1>k. \A t \in Tasks : Kind[t] \in {"refresh", "set_pair", "plan_call"} /\ task[t] \in Frame
  BY SessionAssumption DEF Typed
<1>s. ASSUME NEW t \in Tasks, UNCHANGED approved, PlacedAt(t)',
             \A v \in Tasks \ {t} : \/ task'[v] = task[v]
                                    \/ task'[v] = [task[v] EXCEPT !.alone = FALSE]
      PROVE  Placed'
  <2>1. \A v \in Tasks \ {t} : PlacedAt(v)'
    BY <1>s, PlacedStays DEF Placed
  <2> QED
    BY <1>s, <2>1 DEF Placed
<1>1. ASSUME UNCHANGED vars PROVE Typed' /\ Placed'
  BY <1>1 DEF Typed, Placed, PlacedAt, vars, chain, state, models, counts, history
<1>2. ASSUME NEW approving \in BOOLEAN, Advance(approving) PROVE Typed' /\ Placed'
  <2>1. Typed' /\ task' = task /\ (approved # 0 => approved' = approved)
    BY <1>2, AdvanceMoves
  <2> QED
    BY <2>1 DEF Placed, PlacedAt
<1>3. ASSUME Quote PROVE Typed' /\ Placed'
  BY <1>3, QuoteMoves DEF Placed, PlacedAt, Quote, chain
<1>4. ASSUME NEW t \in Tasks, Step(t) PROVE Typed' /\ Placed'
  <2>0. PlacedAt(t) /\ task[t] \in Frame
    BY <1>k DEF Placed
  <2>1. CASE Refresh(t)
    <3>f. /\ task'[t].pc = "header" /\ Kind[t] = "refresh"
      BY <2>1, RefreshMoves
    <3>1. PlacedAt(t)'
      BY <3>f DEF PlacedAt, Filling
    <3> QED BY <1>s, <2>1, <3>1, RefreshMoves DEF Refresh, chain
  <2>2. CASE RefreshModels(t)
    <3>1. PlacedAt(t)'
      <4>1. /\ task'[t].pc = "gas_price" /\ task'[t].at = task[t].at
            /\ task'[t].block = task[t].block
        BY <2>2, RefreshModelsMoves DEF Same, Fields
      <4> QED
        BY <2>0, <2>2, <4>1 DEF PlacedAt, Filling, RefreshModels, Complete, At
    <3> QED BY <1>s, <2>2, <3>1, RefreshModelsMoves DEF RefreshModels, chain, After, Others
  <2>3. CASE RefreshDone(t)
    BY <1>s, <2>3, AtHome, RefreshDoneMoves DEF RefreshDone, chain, After, Others
  <2>4. CASE SetPair(t)
    <3>1. block \in Blocks
      BY DEF Typed
    <3>2. PlacedAt(t)'
      <4>1. /\ task'[t].pc = "run" /\ task'[t].at = block /\ Kind[t] = "set_pair"
            /\ task'[t].reads = Pools \ Exact /\ task'[t].asked = {}
        BY <2>4, SetPairMoves
      <4>2. UNCHANGED block
        BY <2>4 DEF SetPair, state
      <4> QED
        BY <3>1, <4>1, <4>2 DEF PlacedAt, Filling
    <3> QED BY <1>s, <2>4, <3>2, SetPairMoves DEF SetPair, chain
  <2>5. CASE SetPairDone(t)
    BY <1>s, <2>5, AtHome, SetPairDoneMoves DEF SetPairDone, chain, After, Others
  <2>6. CASE PlanPrice(t)
    <3>1. PlacedAt(t)'
      <4>1. /\ task'[t].pc = "seed" /\ task'[t].at = task[t].at /\ task'[t].bound
            /\ task'[t].floor = task[t].floor
        BY <2>6, PlanPriceMoves DEF Same, Fields
      <4> QED
        BY <2>0, <2>6, <4>1 DEF PlacedAt, Filling, PlanPrice, Complete, At, chain
    <3> QED BY <1>s, <2>6, <3>1, PlanPriceMoves DEF PlanPrice, chain, After, Others
  <2>7. CASE PlanAgreed(t)
    BY <1>s, <2>7, AtHome, PlanAgreedMoves DEF PlanAgreed, chain, After, Others
  <2>8. CASE FillMisses(t)
    <3>1. Lacks(t) \subseteq task[t].reads
      BY Lacking
    <3>2. PlacedAt(t)'
      <4>1. /\ task'[t].pc = "fetch" /\ task'[t].at = task[t].at
            /\ task'[t].asked = Lacks(t) /\ task'[t].reads = task[t].reads
            /\ task'[t].bound = task[t].bound /\ task'[t].route = task[t].route
            /\ task'[t].block = task[t].block /\ task'[t].floor = task[t].floor
        BY <2>8, FillMissesMoves DEF Same, Fields
      <4> QED
        BY <1>k, <2>0, <2>8, <3>1, <4>1 DEF PlacedAt, Filling, FillMisses, At, chain, Touched
    <3> QED BY <1>s, <2>8, <3>2, FillMissesMoves DEF FillMisses, chain, After, Others
  <2>9. CASE Raise(t)
    BY <1>s, <2>9, AtHome, RaiseMoves DEF Raise, chain, After, Others
  <2>10. ASSUME NEW h \in Heights, RefreshHeader(t, h) PROVE Typed' /\ Placed'
    <3>0. h \in Blocks
      BY DEF Heights
    <3>1. PlacedAt(t)'
      <4>1. CASE h = block
        BY <2>10, <4>1, AtHome, RefreshHeaderMoves DEF After
      <4>2. CASE h # block
        <5>1. /\ task'[t].pc = "sweep" /\ task'[t].at = h /\ task'[t].block = h
          BY <2>10, <4>2, RefreshHeaderMoves DEF Same, Fields
        <5> QED
          BY <2>10, <3>0, <5>1 DEF PlacedAt, Filling, RefreshHeader
      <4> QED BY <4>1, <4>2
    <3> QED BY <1>s, <2>10, <3>1, RefreshHeaderMoves DEF RefreshHeader, chain, After, Others
  <2>11. ASSUME NEW h \in Heights, PlanHeader(t, h) PROVE Typed' /\ Placed'
    <3>0. h \in Blocks
      BY DEF Heights
    <3>1. PlacedAt(t)'
      <4>1. /\ task'[t].bound = task[t].bound /\ task'[t].floor = task[t].floor
            /\ task'[t].alone = task[t].alone
        BY <2>11, PlanHeaderMoves DEF Same, Fields
      <4>2. /\ task[t].pc = "header" /\ Kind[t] = "plan_call" /\ UNCHANGED approved
            /\ \/ task'[t].pc = "header"
               \/ task'[t].pc = "reread" /\ task'[t].at = h
        BY <2>11, PlanHeaderMoves DEF PlanHeader, At, chain
      <4> QED
        BY <2>0, <3>0, <4>1, <4>2 DEF PlacedAt, Filling
    <3> QED BY <1>s, <2>11, <3>1, PlanHeaderMoves DEF PlanHeader, chain, After, Others
  <2>12. ASSUME NEW refused \in SUBSET Cells, FillLands(t, refused) PROVE Typed' /\ Placed'
    <3>1. PlacedAt(t)'
      <4>1. /\ task'[t].pc = "run" /\ task'[t].at = task[t].at
            /\ task'[t].asked = task[t].asked /\ task'[t].reads = task[t].reads
            /\ task'[t].bound = task[t].bound /\ task'[t].route = task[t].route
            /\ task'[t].block = task[t].block /\ task'[t].floor = task[t].floor
        BY <2>12, FillLandsMoves DEF Same, Fields
      <4>2. task[t].pc = "fetch" /\ UNCHANGED approved
        BY <2>12, FillLandsMoves DEF FillLands, chain
      <4> QED
        BY <1>k, <2>0, <4>1, <4>2 DEF PlacedAt, Filling, Touched
    <3> QED BY <1>s, <2>12, <3>1, FillLandsMoves DEF FillLands, chain, After, Others
  <2>13. ASSUME NEW refused \in SUBSET Cells, PlanRestore(t, refused) PROVE Typed' /\ Placed'
    BY <1>s, <2>13, AtHome, PlanRestoreMoves DEF PlanRestore, chain, After, Others
  <2>14. ASSUME NEW refused \in SUBSET Cells, NEW moved \in SUBSET Roving,
                RefreshSweep(t, refused, moved)
         PROVE  Typed' /\ Placed'
    <3>0. block \in Blocks
      BY DEF Typed
    <3>1. PlacedAt(t)'
      <4>1. /\ task'[t].pc = "balances" /\ task'[t].at = block
            /\ task'[t].block = task[t].block
        BY <2>14, RefreshSweepMoves DEF Same, Fields
      <4> QED
        BY <2>0, <2>14, <3>0, <4>1, RefreshSweepMoves DEF PlacedAt, Filling
    <3> QED BY <1>s, <2>14, <3>1, RefreshSweepMoves DEF RefreshSweep, chain, After, Others
  <2>15. ASSUME NEW refused \in SUBSET Cells, NEW moved \in SUBSET Roving,
                PlanReread(t, refused, moved)
         PROVE  Typed' /\ Placed'
    <3>1. PlacedAt(t)'
      <4>1. /\ task'[t].pc = "run" /\ task'[t].at = task[t].at
            /\ task'[t].reads = task[t].route /\ task'[t].asked = {}
            /\ task'[t].bound = task[t].bound /\ task'[t].route = task[t].route
            /\ task'[t].floor = task[t].floor
        <5>1. /\ task'[t].pc = "run" /\ task'[t].reads = task[t].route
              /\ task'[t].asked = {} /\ Same(t, Fields \ {"refused", "reads", "asked"})
          BY <2>15, PlanRereadMoves
        <5> QED BY <5>1 DEF Same, Fields
      <4>2. /\ task[t].pc = "reread" /\ Kind[t] = "plan_call" /\ UNCHANGED approved
        BY <2>15, PlanRereadMoves DEF PlanReread, chain
      <4> QED
        BY <2>0, <4>1, <4>2 DEF PlacedAt, Filling
    <3> QED BY <1>s, <2>15, <3>1, PlanRereadMoves DEF PlanReread, chain, After, Others
  <2>16. ASSUME NEW answered \in SUBSET Funded, RefreshBalances(t, answered)
         PROVE  Typed' /\ Placed'
    <3>0. block \in Blocks
      BY DEF Typed
    <3>1. PlacedAt(t)'
      <4>1. /\ task'[t].pc = "run" /\ task'[t].at = block
            /\ task'[t].reads = Exact /\ task'[t].asked = {}
            /\ task'[t].block = task[t].block
        BY <2>16, RefreshBalancesMoves DEF Same, Fields
      <4>2. task[t].pc = "balances" /\ Kind[t] = "refresh" /\ UNCHANGED block
        BY <2>16, RefreshBalancesMoves DEF RefreshBalances
      <4> QED
        BY <2>0, <3>0, <4>1, <4>2 DEF PlacedAt, Filling
    <3> QED BY <1>s, <2>16, <3>1, RefreshBalancesMoves DEF RefreshBalances, chain, After, Others
  <2>17. ASSUME NEW route \in Routes, NEW floor \in {0, approved}, PlanCall(t, route, floor)
         PROVE  Typed' /\ Placed'
    <3>1. PlacedAt(t)'
      <4>1. /\ task'[t].pc = "header" /\ ~task'[t].bound /\ task'[t].floor = floor
            /\ Kind[t] = "plan_call"
        BY <2>17, PlanCallMoves
      <4> QED
        BY <2>17, <4>1 DEF PlacedAt, Filling, PlanCall, chain
    <3> QED BY <1>s, <2>17, <3>1, PlanCallMoves, ZenonT(60) DEF PlanCall, chain
  <2>18. ASSUME NEW listed, PlanSeed(t, listed) PROVE Typed' /\ Placed'
    <3>1. PlacedAt(t)'
      <4>1. /\ task'[t].pc = "run" /\ task'[t].at = task[t].at
            /\ task'[t].reads = Touched(task[t].route) /\ task'[t].asked = {}
            /\ task'[t].bound = task[t].bound /\ task'[t].route = task[t].route
            /\ task'[t].floor = task[t].floor
        BY <2>18, PlanSeedMoves DEF Same, Fields
      <4>2. /\ task[t].pc = "seed" /\ Kind[t] = "plan_call" /\ UNCHANGED approved
        BY <2>18, PlanSeedMoves DEF PlanSeed, chain
      <4> QED
        BY <2>0, <4>1, <4>2 DEF PlacedAt, Filling, Touched
    <3> QED BY <1>s, <2>18, <3>1, PlanSeedMoves DEF PlanSeed, chain, After, Others
  <2>19. ASSUME NEW found \in BOOLEAN, PlanRefused(t, found) PROVE Typed' /\ Placed'
    <3>1. PlacedAt(t)'
      <4>1. CASE task'[t] = Idle
        BY <4>1, AtHome
      <4>2. CASE task'[t].pc = "restore" /\ Same(t, Fields)
        <5>1. task'[t].at = task[t].at /\ task'[t].floor = task[t].floor
          BY <4>2 DEF Same, Fields
        <5>2. task[t].pc = "run" /\ Kind[t] = "plan_call" /\ UNCHANGED approved
          BY <2>19 DEF PlanRefused, PlanRuns, Complete, At, chain
        <5> QED
          BY <2>0, <4>2, <5>1, <5>2 DEF PlacedAt, Filling
      <4> QED
        BY <2>19, <4>1, <4>2, PlanRefusedMoves
    <3> QED BY <1>s, <2>19, <3>1, PlanRefusedMoves DEF PlanRefused, chain, After, Others
  <2> QED
    BY <1>4, <2>1, <2>2, <2>3, <2>4, <2>5, <2>6, <2>7, <2>8, <2>9, <2>10, <2>11, <2>12,
       <2>13, <2>14, <2>15, <2>16, <2>17, <2>18, <2>19 DEF Step
<1> QED
  BY <1>1, <1>2, <1>3, <1>4 DEF Next

----------------------------------------------------------------------------
(* A step is a task's own; whoever is alone takes every step there is.     *)

Starts(t) ==
    /\ task[t].pc = "idle"
    /\ task'[t].alone => \A v \in Tasks : task[v].pc = "idle"
    /\ \A v \in Tasks \ {t} : task'[v] = [task[v] EXCEPT !.alone = FALSE]

GoesOn(t) ==
    /\ task[t].pc # "idle" /\ Others(t)
    /\ task'[t].alone => task[t].alone

LEMMA EitherWay ==
    ASSUME Typed, Placed, NEW t \in Tasks, Step(t)
    PROVE  Starts(t) \/ GoesOn(t)
<1>i. ~Idle.alone
  BY DEF Idle
<1>1. CASE Refresh(t)
  BY <1>1, RefreshMoves DEF Starts
<1>2. CASE RefreshModels(t)
  BY <1>2, RefreshModelsMoves DEF GoesOn, Same, Fields, RefreshModels, Complete, At
<1>3. CASE RefreshDone(t)
  BY <1>i, <1>3, RefreshDoneMoves DEF GoesOn, After, RefreshDone, At
<1>4. CASE SetPair(t)
  BY <1>4, SetPairMoves DEF Starts
<1>5. CASE SetPairDone(t)
  BY <1>i, <1>5, SetPairDoneMoves DEF GoesOn, After, SetPairDone, Complete, At
<1>6. CASE PlanPrice(t)
  BY <1>6, PlanPriceMoves DEF GoesOn, Same, Fields, PlanPrice, Complete, At
<1>7. CASE PlanAgreed(t)
  BY <1>i, <1>7, PlanAgreedMoves DEF GoesOn, After, PlanAgreed, PlanRuns, Complete, At
<1>8. CASE FillMisses(t)
  BY <1>8, FillMissesMoves DEF GoesOn, Same, Fields, FillMisses, At
<1>9. CASE Raise(t)
  BY <1>i, <1>9, RaiseMoves DEF GoesOn, After, Raise
<1>10. ASSUME NEW h \in Heights, RefreshHeader(t, h) PROVE GoesOn(t)
  <2>1. task[t].pc = "header"
    BY <1>10 DEF RefreshHeader, At
  <2>2. CASE h = block
    BY <1>i, <1>10, <2>1, <2>2, RefreshHeaderMoves DEF GoesOn, After
  <2>3. CASE h # block
    BY <1>10, <2>1, <2>3, RefreshHeaderMoves DEF GoesOn, Same, Fields
  <2> QED BY <2>2, <2>3
<1>11. ASSUME NEW h \in Heights, PlanHeader(t, h) PROVE GoesOn(t)
  <2>1. Same(t, Fields \ {"at"}) /\ Others(t)
    BY <1>11, PlanHeaderMoves
  <2> QED BY <1>11, <2>1 DEF GoesOn, Same, Fields, PlanHeader, At
<1>12. ASSUME NEW refused \in SUBSET Cells, FillLands(t, refused) PROVE GoesOn(t)
  BY <1>12, FillLandsMoves DEF GoesOn, Same, Fields
<1>13. ASSUME NEW refused \in SUBSET Cells, PlanRestore(t, refused) PROVE GoesOn(t)
  BY <1>i, <1>13, PlanRestoreMoves DEF GoesOn, After
<1>14. ASSUME NEW refused \in SUBSET Cells, NEW moved \in SUBSET Roving,
              RefreshSweep(t, refused, moved)
       PROVE  GoesOn(t)
  BY <1>14, RefreshSweepMoves DEF GoesOn, Same, Fields
<1>15. ASSUME NEW refused \in SUBSET Cells, NEW moved \in SUBSET Roving,
              PlanReread(t, refused, moved)
       PROVE  GoesOn(t)
  <2>1. /\ Same(t, Fields \ {"refused", "reads", "asked"}) /\ Others(t)
        /\ task[t].pc = "reread"
    BY <1>15, PlanRereadMoves
  <2> QED BY <2>1 DEF GoesOn, Same, Fields
<1>16. ASSUME NEW answered \in SUBSET Funded, RefreshBalances(t, answered) PROVE GoesOn(t)
  BY <1>16, RefreshBalancesMoves DEF GoesOn, Same, Fields
<1>17. ASSUME NEW route \in Routes, NEW floor \in {0, approved}, PlanCall(t, route, floor)
       PROVE  Starts(t)
  BY <1>17, PlanCallMoves DEF Starts
<1>18. ASSUME NEW listed, PlanSeed(t, listed) PROVE GoesOn(t)
  BY <1>18, PlanSeedMoves DEF GoesOn, Same, Fields
<1>19. ASSUME NEW found \in BOOLEAN, PlanRefused(t, found) PROVE GoesOn(t)
  <2>1. task[t].pc = "run"
    BY <1>19 DEF PlanRefused, PlanRuns, Complete, At
  <2>2. Others(t) /\ (task'[t].alone => task[t].alone)
    BY <1>i, <1>19, PlanRefusedMoves DEF Same, Fields
  <2> QED BY <2>1, <2>2 DEF GoesOn
<1> QED
  BY <1>1, <1>2, <1>3, <1>4, <1>5, <1>6, <1>7, <1>8, <1>9, <1>10, <1>11, <1>12, <1>13,
     <1>14, <1>15, <1>16, <1>17, <1>18, <1>19 DEF Step

LEMMA OnlyItself ==
    ASSUME Typed, Placed, ByItself, NEW t \in Tasks, NEW u \in Tasks \ {t}, Step(u)
    PROVE  ~task'[t].alone
<1>1. task[t] \in Frame
  BY DEF Typed
<1>2. CASE Starts(u)
  BY <1>1, <1>2 DEF Starts, Frame
<1>3. CASE GoesOn(u)
  BY <1>3 DEF GoesOn, Others, ByItself
<1> QED
  BY <1>2, <1>3, EitherWay

LEMMA ByItselfNext ==
    ASSUME Typed, Placed, ByItself, [Next]_vars
    PROVE  ByItself'
<1>1. CASE task' = task
  BY <1>1 DEF ByItself
<1>2. ASSUME NEW t \in Tasks, Step(t) PROVE ByItself'
  <2>1. ASSUME NEW u \in Tasks, task'[u].alone, NEW v \in Tasks \ {u}
        PROVE  task'[v].pc = "idle"
    <3>1. u = t
      BY <1>2, <2>1, OnlyItself
    <3>2. task[v] \in Frame
      BY DEF Typed
    <3>3. CASE Starts(t)
      BY <2>1, <3>1, <3>2, <3>3, ZenonT(60) DEF Starts, Frame
    <3>4. CASE GoesOn(t)
      BY <2>1, <3>1, <3>4 DEF GoesOn, Others, ByItself
    <3> QED
      BY <1>2, <3>3, <3>4, EitherWay
  <2> QED
    BY <2>1 DEF ByItself
<1> QED
  BY <1>1, <1>2, QuoteMoves, AdvanceMoves DEF Next, vars

----------------------------------------------------------------------------
(* What each kind of task can do.                                          *)

LEMMA RefreshSteps ==
    ASSUME Typed, Placed, NEW t \in Tasks, Step(t), Kind[t] = "refresh"
    PROVE  \/ Refresh(t) \/ RefreshModels(t) \/ RefreshDone(t)
           \/ FillMisses(t) \/ Raise(t)
           \/ \E h \in Heights : RefreshHeader(t, h)
           \/ \E refused \in SUBSET Cells :
                \/ FillLands(t, refused)
                \/ \E moved \in SUBSET Roving : RefreshSweep(t, refused, moved)
           \/ \E answered \in SUBSET Funded : RefreshBalances(t, answered)
<1>1. task[t].pc \notin {"reread", "seed", "restore"}
  BY DEF Placed, PlacedAt, Filling
<1>2. /\ ~SetPair(t) /\ ~SetPairDone(t) /\ ~PlanPrice(t) /\ ~PlanAgreed(t)
      /\ \A h \in Heights : ~PlanHeader(t, h)
      /\ \A route \in Routes, floor \in {0, approved} : ~PlanCall(t, route, floor)
      /\ \A found \in BOOLEAN : ~PlanRefused(t, found)
  BY DEF SetPair, SetPairDone, PlanPrice, PlanAgreed, PlanHeader, PlanCall, PlanRefused,
         PlanRuns, Call
<1>3. /\ \A refused \in SUBSET Cells : ~PlanRestore(t, refused)
      /\ \A refused \in SUBSET Cells, moved \in SUBSET Roving : ~PlanReread(t, refused, moved)
      /\ \A listed : ~PlanSeed(t, listed)
  BY <1>1 DEF PlanRestore, PlanReread, PlanSeed, At
<1> QED
  BY <1>2, <1>3 DEF Step

LEMMA SetPairSteps ==
    ASSUME Typed, Placed, NEW t \in Tasks, Step(t), Kind[t] = "set_pair"
    PROVE  \/ SetPair(t) \/ SetPairDone(t) \/ FillMisses(t) \/ Raise(t)
           \/ \E refused \in SUBSET Cells : FillLands(t, refused)
<1>1. task[t].pc \notin {"sweep", "balances", "gas_price", "reread", "seed", "restore"}
  BY DEF Placed, PlacedAt, Filling
<1>2. /\ ~Refresh(t) /\ ~RefreshModels(t) /\ ~PlanPrice(t) /\ ~PlanAgreed(t)
      /\ \A h \in Heights : ~RefreshHeader(t, h) /\ ~PlanHeader(t, h)
      /\ \A route \in Routes, floor \in {0, approved} : ~PlanCall(t, route, floor)
      /\ \A found \in BOOLEAN : ~PlanRefused(t, found)
  BY DEF Refresh, RefreshModels, RefreshHeader, PlanPrice, PlanAgreed, PlanHeader,
         PlanCall, PlanRefused, PlanRuns, Call
<1>3. /\ ~RefreshDone(t)
      /\ \A refused \in SUBSET Cells : ~PlanRestore(t, refused)
      /\ \A refused \in SUBSET Cells, moved \in SUBSET Roving :
           ~PlanReread(t, refused, moved) /\ ~RefreshSweep(t, refused, moved)
      /\ \A answered \in SUBSET Funded : ~RefreshBalances(t, answered)
      /\ \A listed : ~PlanSeed(t, listed)
  BY <1>1 DEF PlanRestore, PlanReread, PlanSeed, RefreshDone, RefreshSweep,
              RefreshBalances, At
<1> QED
  BY <1>2, <1>3 DEF Step

LEMMA PlanSteps ==
    ASSUME Typed, Placed, NEW t \in Tasks, Step(t), Kind[t] = "plan_call"
    PROVE  \/ PlanPrice(t) \/ PlanAgreed(t) \/ FillMisses(t) \/ Raise(t)
           \/ \E h \in Heights : PlanHeader(t, h)
           \/ \E refused \in SUBSET Cells :
                \/ FillLands(t, refused) \/ PlanRestore(t, refused)
                \/ \E moved \in SUBSET Roving : PlanReread(t, refused, moved)
           \/ \E route \in Routes, floor \in {0, approved} : PlanCall(t, route, floor)
           \/ \E listed : PlanSeed(t, listed)
           \/ \E found \in BOOLEAN : PlanRefused(t, found)
<1>1. task[t].pc \notin {"sweep", "balances", "gas_price"}
  BY DEF Placed, PlacedAt, Filling
<1>2. /\ ~Refresh(t) /\ ~RefreshModels(t) /\ ~SetPair(t) /\ ~SetPairDone(t)
      /\ \A h \in Heights : ~RefreshHeader(t, h)
  BY DEF Refresh, RefreshModels, RefreshHeader, SetPair, SetPairDone, Call
<1>3. /\ ~RefreshDone(t)
      /\ \A refused \in SUBSET Cells, moved \in SUBSET Roving : ~RefreshSweep(t, refused, moved)
      /\ \A answered \in SUBSET Funded : ~RefreshBalances(t, answered)
  BY <1>1 DEF RefreshDone, RefreshSweep, RefreshBalances, At
<1> QED
  BY <1>2, <1>3 DEF Step

----------------------------------------------------------------------------
(* A plan by itself.                                                       *)

PlanningAt(t) ==
    Kind[t] = "plan_call" /\ task[t].alone =>
      /\ task[t].pc \in {"reread"} \cup Pricing => header = task[t].at
      /\ task[t].pc \in Pricing /\ ~task[t].refused =>
           /\ \A c \in Touched(task[t].route) : slots[c] \in {task[t].at, Missing}
           /\ task[t].bound =>
                /\ task[t].priced = [p \in task[t].route |-> task[t].at]
                /\ \A p \in task[t].route : slots[p] = task[t].at

LEMMA PlanningStays ==
    ASSUME Typed, Placed, Planning, NEW t \in Tasks, Step(t), Kind[t] = "plan_call"
    PROVE  PlanningAt(t)'
<1>0. /\ task[t] \in Frame /\ PlanningAt(t) /\ PlacedAt(t)
      /\ task[t].route \in SUBSET Pools /\ task[t].route \in SUBSET Cells
      /\ Touched(task[t].route) \in SUBSET Cells
  BY Given DEF Typed, Planning, PlanningAt, Placed, Frame, Touched
<1>i. Idle.pc = "idle"
  BY DEF Idle
<1>1. CASE task'[t].pc \in {"idle", "header", "restore"}
  BY <1>1 DEF PlanningAt, Pricing, Filling
<1>2. CASE PlanPrice(t)
  <2>1. /\ task'[t].bound /\ task'[t].priced = Live(task[t].route)
        /\ task'[t].refused <=> task[t].refused \/ Lacks(t) # {}
        /\ task'[t].alone = task[t].alone /\ task'[t].at = task[t].at
        /\ task'[t].route = task[t].route
    BY <1>2, PlanPriceMoves DEF Same, Fields
  <2>2. /\ task[t].pc = "run" /\ ~task[t].bound /\ UNCHANGED <<slots, header>>
    BY <1>2 DEF PlanPrice, Complete, At, state
  <2>3. task[t].reads = task[t].route
    BY <1>0, <1>2, <2>2 DEF PlacedAt, Filling, PlanPrice
  <2> SUFFICES ASSUME task[t].alone
               PROVE  PlanningAt(t)'
    BY <2>1 DEF PlanningAt
  <2>4. header = task[t].at
    BY <1>0, <1>2, <2>2 DEF PlanningAt, Pricing, Filling
  <2>5. ASSUME ~task[t].refused, Lacks(t) = {}
        PROVE  /\ \A c \in Touched(task[t].route) : slots[c] \in {task[t].at, Missing}
               /\ \A p \in task[t].route : slots[p] = task[t].at
    <3>1. \A c \in Touched(task[t].route) : slots[c] \in {task[t].at, Missing}
      BY <1>0, <2>2, <2>5 DEF PlanningAt, Pricing, Filling
    <3>2. \A p \in task[t].route : slots[p] # Missing
      BY <2>3, <2>5 DEF Lacks
    <3> QED
      BY <3>1, <3>2 DEF Touched
  <2>6. ASSUME ~task[t].refused, Lacks(t) = {}
        PROVE  Live(task[t].route) = [p \in task[t].route |-> task[t].at]
    BY <2>5, <2>6 DEF Live
  <2> QED
    BY <2>1, <2>2, <2>4, <2>5, <2>6 DEF PlanningAt
<1>3. CASE FillMisses(t)
  <2>1. /\ task'[t].bound = task[t].bound /\ task'[t].priced = task[t].priced
        /\ task'[t].refused = task[t].refused /\ task'[t].alone = task[t].alone
        /\ task'[t].at = task[t].at /\ task'[t].route = task[t].route
    BY <1>3, FillMissesMoves DEF Same, Fields
  <2>2. task[t].pc = "run" /\ UNCHANGED <<slots, header>>
    BY <1>3 DEF FillMisses, At, state
  <2> QED
    BY <1>0, <2>1, <2>2 DEF PlanningAt, Pricing, Filling
<1>4. ASSUME NEW h \in Heights, PlanHeader(t, h) PROVE PlanningAt(t)'
  <2>1. task[t].pc = "header"
    BY <1>4 DEF PlanHeader, At
  <2> QED
    BY <1>1, <1>4, <2>1, PlanHeaderMoves DEF PlanningAt, Pricing, Filling
<1>5. ASSUME NEW refused \in SUBSET Cells, FillLands(t, refused) PROVE PlanningAt(t)'
  <2>1. /\ task'[t].bound = task[t].bound /\ task'[t].priced = task[t].priced
        /\ task'[t].refused = task[t].refused /\ task'[t].alone = task[t].alone
        /\ task'[t].at = task[t].at /\ task'[t].route = task[t].route
    BY <1>5, FillLandsMoves DEF Same, Fields
  <2>2. task[t].pc = "fetch" /\ UNCHANGED header
    BY <1>5 DEF FillLands, At
  <2>3. \A c \in Cells : slots'[c] \in {slots[c], task[t].at}
    BY <1>5 DEF FillLands
  <2> SUFFICES ASSUME task[t].alone
               PROVE  PlanningAt(t)'
    BY <2>1 DEF PlanningAt
  <2>4. header' = task'[t].at
    BY <1>0, <2>1, <2>2 DEF PlanningAt, Pricing, Filling
  <2>5. ASSUME ~task[t].refused
        PROVE  \A c \in Touched(task[t].route) : slots'[c] \in {task[t].at, Missing}
    BY <1>0, <2>2, <2>3, <2>5 DEF PlanningAt, Pricing, Filling
  <2>6. ASSUME ~task[t].refused, task[t].bound
        PROVE  /\ task[t].priced = [p \in task[t].route |-> task[t].at]
               /\ \A p \in task[t].route : slots'[p] = task[t].at
    BY <1>0, <2>2, <2>3, <2>6 DEF PlanningAt, Pricing, Filling
  <2> QED
    BY <2>1, <2>4, <2>5, <2>6 DEF PlanningAt
<1>6. ASSUME NEW refused \in SUBSET Cells, NEW moved \in SUBSET Roving,
             PlanReread(t, refused, moved)
      PROVE  PlanningAt(t)'
  <2>0. /\ Same(t, Fields \ {"refused", "reads", "asked"})
        /\ task'[t].refused <=> refused # {}
        /\ task[t].pc = "reread" /\ UNCHANGED header
        /\ Reread(Touched(task[t].route), task[t].at, refused, moved)
    BY <1>6, PlanRereadMoves DEF PlanReread
  <2>1. /\ task'[t].bound = task[t].bound /\ task'[t].alone = task[t].alone
        /\ task'[t].at = task[t].at /\ task'[t].route = task[t].route
    BY <2>0 DEF Same, Fields
  <2>2. ~task[t].bound
    BY <1>0, <1>6, <2>0 DEF PlacedAt
  <2>3. ASSUME refused = {}
        PROVE  \A c \in Touched(task[t].route) : slots'[c] \in {task[t].at, Missing}
    BY <1>0, <2>0, <2>3 DEF Reread
  <2>4. task[t].alone => header = task[t].at
    BY <1>0, <2>0 DEF PlanningAt
  <2> QED
    BY <2>0, <2>1, <2>2, <2>3, <2>4 DEF PlanningAt
<1>7. ASSUME NEW listed, PlanSeed(t, listed) PROVE PlanningAt(t)'
  <2>1. /\ task'[t].bound = task[t].bound /\ task'[t].priced = task[t].priced
        /\ task'[t].refused = task[t].refused /\ task'[t].alone = task[t].alone
        /\ task'[t].at = task[t].at /\ task'[t].route = task[t].route
    BY <1>7, PlanSeedMoves DEF Same, Fields
  <2>2. task[t].pc = "seed" /\ UNCHANGED header
    BY <1>7 DEF PlanSeed, At
  <2>3. \A c \in Cells : slots'[c] \in {slots[c], task[t].at}
    BY <1>7 DEF PlanSeed
  <2> SUFFICES ASSUME task[t].alone
               PROVE  PlanningAt(t)'
    BY <2>1 DEF PlanningAt
  <2>4. header' = task'[t].at
    BY <1>0, <2>1, <2>2 DEF PlanningAt, Pricing, Filling
  <2>5. ASSUME ~task[t].refused
        PROVE  \A c \in Touched(task[t].route) : slots'[c] \in {task[t].at, Missing}
    BY <1>0, <2>2, <2>3, <2>5 DEF PlanningAt, Pricing, Filling
  <2>6. ASSUME ~task[t].refused, task[t].bound
        PROVE  /\ task[t].priced = [p \in task[t].route |-> task[t].at]
               /\ \A p \in task[t].route : slots'[p] = task[t].at
    BY <1>0, <2>2, <2>3, <2>6 DEF PlanningAt, Pricing, Filling
  <2> QED
    BY <2>1, <2>4, <2>5, <2>6 DEF PlanningAt
<1>8. ASSUME PlanAgreed(t) \/ Raise(t) \/ \E refused \in SUBSET Cells : PlanRestore(t, refused)
      PROVE  task'[t].pc = "idle"
  BY <1>8, <1>i, PlanAgreedMoves, RaiseMoves, PlanRestoreMoves DEF After
<1>9. ASSUME NEW found \in BOOLEAN, PlanRefused(t, found)
      PROVE  task'[t].pc \in {"idle", "restore"}
  BY <1>9, <1>i, PlanRefusedMoves
<1>10. ASSUME NEW route \in Routes, NEW floor \in {0, approved}, PlanCall(t, route, floor)
       PROVE  task'[t].pc = "header"
  BY <1>10, PlanCallMoves
<1> QED
  BY <1>1, <1>2, <1>3, <1>4, <1>5, <1>6, <1>7, <1>8, <1>9, <1>10, PlanSteps

LEMMA PlanningNext ==
    ASSUME Typed, Placed, ByItself, Planning, [Next]_vars
    PROVE  Planning'
<1>1. CASE UNCHANGED <<slots, header, task>>
  BY <1>1 DEF Planning
<1>2. ASSUME NEW u \in Tasks, Step(u) PROVE Planning'
  <2>1. ASSUME NEW t \in Tasks, Kind[t] = "plan_call", task'[t].alone PROVE PlanningAt(t)'
    BY <1>2, <2>1, OnlyItself, PlanningStays
  <2> QED
    BY <2>1 DEF Planning, PlanningAt
<1>3. CASE Quote
  BY <1>1, <1>3 DEF Quote, state
<1>4. ASSUME NEW approving \in BOOLEAN, Advance(approving) PROVE Planning'
  BY <1>1, <1>4 DEF Advance, state
<1> QED
  BY <1>1, <1>2, <1>3, <1>4 DEF Next, vars, state

----------------------------------------------------------------------------
(* The approval an estimate borrows.                                       *)

\* A step writes the approval only on its way to restore it, and takes it away, or
\* leaves it, only at the price of a lost request.
LEMMA Borrowing ==
    ASSUME Typed, Placed, NEW t \in Tasks, Step(t)
    PROVE  /\ faults' >= faults
           /\ slots'[Token] = Granted => slots[Token] = Granted \/ task'[t].pc = "restore"
           /\ task[t].pc = "restore" /\ slots'[Token] = Granted => faults' >= faults + 1
           /\ Kind[t] = "plan_call" /\ task'[t].pc \in Pricing /\ slots'[Token] = Granted =>
                \/ task[t].pc \in Pricing /\ slots[Token] = Granted
                \/ task[t].pc = "reread" /\ slots[Token] = Granted /\ faults' >= faults + 1
<1> DEFINE Claim ==
        /\ faults' >= faults
        /\ slots'[Token] = Granted => slots[Token] = Granted \/ task'[t].pc = "restore"
        /\ task[t].pc = "restore" /\ slots'[Token] = Granted => faults' >= faults + 1
        /\ Kind[t] = "plan_call" /\ task'[t].pc \in Pricing /\ slots'[Token] = Granted =>
             \/ task[t].pc \in Pricing /\ slots[Token] = Granted
             \/ task[t].pc = "reread" /\ slots[Token] = Granted /\ faults' >= faults + 1
<1>0. /\ faults \in Nat /\ Token \in Cells /\ Granted \notin Blocks
      /\ Kind[t] \in {"refresh", "set_pair", "plan_call"} /\ PlacedAt(t)
      /\ Granted # Missing /\ Idle.pc = "idle"
  BY Given, SessionAssumption DEF Typed, Placed, Idle, Missing, Granted
<1>1. CASE UNCHANGED <<slots, faults>> /\ task[t].pc # "restore"
           /\ (Kind[t] = "plan_call" /\ task'[t].pc \in Pricing => task[t].pc \in Pricing)
  BY <1>0, <1>1
<1>2. CASE Raise(t)
  BY <1>0, <1>2, RaiseMoves DEF After, Pricing, Filling, Raise, state
<1>3. CASE FillMisses(t)
  <2>1. task[t].pc = "run" /\ UNCHANGED <<slots, faults>>
    BY <1>3 DEF FillMisses, At, state
  <2> QED BY <1>1, <2>1 DEF Pricing, Filling
<1>4. ASSUME NEW refused \in SUBSET Cells, FillLands(t, refused) PROVE Claim
  <2>1. /\ task[t].pc = "fetch" /\ task[t].at \in Blocks /\ faults' >= faults
        /\ \A c \in Cells : slots'[c] \in {slots[c], task[t].at}
    BY <1>4, FillLandsMoves DEF FillLands
  <2>2. slots'[Token] = Granted => slots[Token] = Granted
    BY <1>0, <2>1
  <2> QED BY <2>1, <2>2 DEF Pricing, Filling
<1>5. CASE Kind[t] = "refresh"
  <2>0. task[t].pc # "restore"
    BY <1>0, <1>5 DEF PlacedAt, Filling
  <2>1. ASSUME NEW refused \in SUBSET Cells, NEW moved \in SUBSET Roving,
               RefreshSweep(t, refused, moved)
        PROVE  Claim
    <3>1. Reread(Cells, task[t].at, refused, moved) /\ task[t].at \in Blocks
      BY <2>1, RefreshSweepMoves
    <3>2. faults' >= faults
      BY <3>1, Rereading
    <3>3. slots'[Token] = Granted => slots[Token] = Granted
      BY <1>0, <3>1 DEF Reread
    <3> QED BY <1>5, <2>0, <3>2, <3>3
  <2>2. ASSUME NEW answered \in SUBSET Funded, RefreshBalances(t, answered) PROVE Claim
    <3>1. faults' >= faults /\ UNCHANGED slots
      BY <2>2, RefreshBalancesMoves DEF RefreshBalances
    <3> QED BY <1>5, <2>0, <3>1
  <2>3. ASSUME \/ Refresh(t) \/ RefreshModels(t) \/ RefreshDone(t)
               \/ \E h \in Heights : RefreshHeader(t, h)
        PROVE  Claim
    <3>1. UNCHANGED <<slots, faults>>
      BY <2>3 DEF Refresh, RefreshModels, RefreshDone, RefreshHeader, state
    <3> QED BY <1>1, <1>5, <2>0, <3>1
  <2> QED
    BY <1>2, <1>3, <1>4, <1>5, <2>1, <2>2, <2>3, RefreshSteps
<1>6. CASE Kind[t] = "set_pair"
  <2>0. task[t].pc # "restore"
    BY <1>0, <1>6 DEF PlacedAt, Filling
  <2>1. ASSUME SetPair(t) \/ SetPairDone(t) PROVE Claim
    <3>1. UNCHANGED <<slots, faults>>
      BY <2>1 DEF SetPair, SetPairDone, state
    <3> QED BY <1>1, <1>6, <2>0, <3>1
  <2> QED
    BY <1>2, <1>3, <1>4, <1>6, <2>1, SetPairSteps
<1>7. CASE Kind[t] = "plan_call"
  <2>1. CASE PlanPrice(t)
    <3>1. task[t].pc = "run" /\ UNCHANGED <<slots, faults>>
      BY <2>1 DEF PlanPrice, Complete, At, state
    <3> QED BY <1>1, <3>1 DEF Pricing, Filling
  <2>2. CASE PlanAgreed(t)
    <3>1. task[t].pc = "run" /\ UNCHANGED <<slots, faults>>
      BY <2>2 DEF PlanAgreed, PlanRuns, Complete, At, state
    <3> QED BY <1>1, <3>1 DEF Pricing, Filling
  <2>3. ASSUME NEW h \in Heights, PlanHeader(t, h) PROVE Claim
    <3>1. task[t].pc = "header" /\ UNCHANGED <<slots, faults>>
      BY <2>3 DEF PlanHeader, At
    <3>2. task'[t].pc \in {"header", "reread"}
      BY <2>3, <3>1, PlanHeaderMoves
    <3> QED BY <1>1, <3>1, <3>2 DEF Pricing, Filling
  <2>4. ASSUME NEW route \in Routes, NEW floor \in {0, approved}, PlanCall(t, route, floor)
        PROVE  Claim
    <3>1. /\ task[t].pc = "idle" /\ task'[t].pc = "header" /\ UNCHANGED <<slots, faults>>
      BY <2>4, PlanCallMoves DEF PlanCall, state
    <3> QED BY <1>1, <3>1 DEF Pricing, Filling
  <2>5. ASSUME NEW listed, PlanSeed(t, listed) PROVE Claim
    <3>1. /\ task[t].pc = "seed" /\ task[t].at \in Blocks /\ UNCHANGED faults
          /\ \A c \in Cells : slots'[c] \in {slots[c], task[t].at}
      BY <2>5, PlanSeedMoves DEF PlanSeed, counts
    <3>2. slots'[Token] = Granted => slots[Token] = Granted
      BY <1>0, <3>1
    <3> QED BY <1>0, <3>1, <3>2 DEF Pricing
  <2>6. ASSUME NEW found \in BOOLEAN, PlanRefused(t, found) PROVE Claim
    <3>1. task[t].pc = "run" /\ UNCHANGED faults
      BY <2>6 DEF PlanRefused, PlanRuns, Complete, At
    <3>2. \/ task'[t].pc = "restore"
          \/ task'[t].pc = "idle" /\ slots' = slots
      BY <1>0, <2>6, PlanRefusedMoves
    <3> QED BY <1>0, <3>1, <3>2 DEF Pricing, Filling
  <2>7. ASSUME NEW refused \in SUBSET Cells, NEW moved \in SUBSET Roving,
               PlanReread(t, refused, moved)
        PROVE  Claim
    <3>1. /\ task[t].pc = "reread" /\ task[t].at \in Blocks
          /\ Touched(task[t].route) \in SUBSET Cells /\ Token \in Touched(task[t].route)
          /\ Reread(Touched(task[t].route), task[t].at, refused, moved)
      BY <2>7, PlanRereadMoves
    <3>2. faults' >= faults /\ (refused # {} => faults' = faults + 1)
      BY <3>1, Rereading
    <3>3. slots'[Token] = Granted => slots[Token] = Granted /\ Token \in refused
      BY <1>0, <3>1 DEF Reread
    <3> QED BY <1>0, <3>1, <3>2, <3>3
  <2>8. ASSUME NEW refused \in SUBSET Cells, PlanRestore(t, refused) PROVE Claim
    <3>1. /\ task[t].pc = "restore" /\ task'[t].pc = "idle" /\ task[t].at \in Blocks
          /\ Reread({Token}, task[t].at, refused, {})
      BY <1>0, <2>8, PlanRestoreMoves DEF After
    <3>2. faults' >= faults /\ (refused # {} => faults' = faults + 1)
      <4>1. {Token} \in SUBSET Cells /\ {} \in SUBSET Roving
        BY Given
      <4> QED BY <3>1, <4>1, Rereading
    <3>3. slots'[Token] = Granted => slots[Token] = Granted /\ Token \in refused
      BY <1>0, <3>1 DEF Reread
    <3> QED BY <1>0, <3>1, <3>2, <3>3 DEF Pricing, Filling
  <2> QED
    BY <1>2, <1>3, <1>4, <1>7, <2>1, <2>2, <2>3, <2>4, <2>5, <2>6, <2>7, <2>8, PlanSteps
<1> QED
  BY <1>0, <1>5, <1>6, <1>7

LEMMA BorrowedNext ==
    ASSUME Typed, Placed, ByItself, Borrowed, [Next]_vars
    PROVE  Borrowed'
<1>1. CASE UNCHANGED <<slots, faults, task>>
  BY <1>1 DEF Borrowed
<1>2. ASSUME NEW u \in Tasks, Step(u) PROVE Borrowed'
  <2> SUFFICES ASSUME slots'[Token] = Granted
               PROVE  /\ faults' >= 1 \/ \E v \in Tasks : task'[v].pc = "restore"
                      /\ \A t \in Tasks : Kind[t] = "plan_call" /\ task'[t].alone
                                          /\ task'[t].pc \in Pricing => faults' >= 2
    BY DEF Borrowed
  <2>0. faults \in Nat /\ faults' \in Nat
    BY PlacedNext DEF Typed
  <2>1. faults' >= 1 \/ \E v \in Tasks : task'[v].pc = "restore"
    <3> SUFFICES ASSUME task'[u].pc # "restore"
                 PROVE  faults' >= 1 \/ \E v \in Tasks : task'[v].pc = "restore"
      OBVIOUS
    <3>1. CASE faults >= 1
      BY <1>2, <2>0, <3>1, Borrowing
    <3>2. ASSUME NEW v \in Tasks, task[v].pc = "restore"
          PROVE  faults' >= 1 \/ task'[v].pc = "restore"
      <4>1. CASE v = u
        BY <1>2, <2>0, <3>2, <4>1, Borrowing
      <4>2. CASE v # u
        <5>1. task'[v] = task[v] \/ task'[v] = [task[v] EXCEPT !.alone = FALSE]
          BY <1>2, <4>2, EitherWay DEF Starts, GoesOn, Others
        <5>2. task[v] \in Frame
          BY DEF Typed
        <5>3. task'[v].pc = task[v].pc
          BY <5>1, <5>2 DEF Frame
        <5> QED
          BY <3>2, <5>3
      <4> QED BY <4>1, <4>2
    <3>3. slots[Token] = Granted
      BY <1>2, Borrowing
    <3> QED
      BY <3>1, <3>2, <3>3 DEF Borrowed
  <2>2. ASSUME NEW t \in Tasks, Kind[t] = "plan_call", task'[t].alone, task'[t].pc \in Pricing
        PROVE  faults' >= 2
    <3>1. t = u
      BY <1>2, <2>2, OnlyItself
    <3>2. \/ task[t].pc \in Pricing /\ slots[Token] = Granted
          \/ task[t].pc = "reread" /\ slots[Token] = Granted /\ faults' >= faults + 1
      BY <1>2, <2>2, <3>1, Borrowing
    <3>3. task[t].pc # "idle" /\ faults' >= faults
      BY <1>2, <3>1, <3>2, Borrowing DEF Pricing, Filling
    <3>4. task[t].alone
      BY <1>2, <2>2, <3>1, <3>3, EitherWay DEF Starts, GoesOn
    <3>5. CASE task[t].pc \in Pricing
      BY <2>0, <2>2, <3>2, <3>3, <3>4, <3>5 DEF Borrowed, Pricing, Filling
    <3>6. CASE task[t].pc = "reread"
      <4>1. \A v \in Tasks : task[v].pc # "restore"
        BY <3>4, <3>6 DEF ByItself
      <4>2. faults >= 1
        BY <3>2, <4>1 DEF Borrowed
      <4> QED
        BY <2>0, <3>2, <3>6, <4>2 DEF Pricing, Filling
    <3> QED
      BY <3>2, <3>5, <3>6
  <2> QED
    BY <2>1, <2>2
<1>3. CASE Quote
  BY <1>1, <1>3, QuoteMoves DEF Quote, state
<1>4. ASSUME NEW approving \in BOOLEAN, Advance(approving) PROVE Borrowed'
  BY <1>1, <1>4 DEF Advance, state
<1> QED
  BY <1>1, <1>2, <1>3, <1>4 DEF Next, vars, state

----------------------------------------------------------------------------
(* A refresh by itself.                                                    *)

RefreshingAt(t) ==
    Kind[t] = "refresh" /\ task[t].alone /\ task[t].pc \notin {"idle", "header"} =>
      /\ task[t].at = block /\ task[t].block = block /\ header = block
      /\ task[t].pc = "sweep" => unread = task[t].short
      /\ task[t].pc \in {"balances"} \cup Filling =>
            Cardinality(Off) <= unread - task[t].short
      /\ task[t].pc = "gas_price" =>
            /\ models_block = block
            /\ ~task[t].kept => Cardinality(Off \cup Stale) <= unread - task[t].short

\* Slots and models are counted by sets that are finite, and a smaller one counts less.
LEMMA Fewer ==
    ASSUME NEW S \in SUBSET Cells, NEW T, T \subseteq S
    PROVE  /\ Cardinality(T) \in Nat /\ Cardinality(S) \in Nat
           /\ Cardinality(T) <= Cardinality(S)
<1>1. IsFiniteSet(S)
  BY Given, FS_Subset
<1> QED
  BY <1>1, FS_Subset, FS_CardinalityType

LEMMA Together ==
    ASSUME NEW S \in SUBSET Cells, NEW T \in SUBSET Cells
    PROVE  /\ Cardinality(S) \in Nat /\ Cardinality(T) \in Nat
           /\ Cardinality(S \cup T) <= Cardinality(S) + Cardinality(T)
<1>1. IsFiniteSet(S) /\ IsFiniteSet(T) /\ IsFiniteSet(S \cap T)
  BY Given, FS_Subset
<1>2. /\ Cardinality(S \cup T) = Cardinality(S) + Cardinality(T) - Cardinality(S \cap T)
      /\ Cardinality(S) \in Nat /\ Cardinality(T) \in Nat /\ Cardinality(S \cap T) \in Nat
  BY <1>1, FS_Union, FS_CardinalityType
<1> QED
  BY <1>2

LEMMA RefreshingStays ==
    ASSUME Typed, Placed, Refreshing, NEW t \in Tasks, Step(t), Kind[t] = "refresh"
    PROVE  RefreshingAt(t)'
<1>0. /\ task[t] \in Frame /\ RefreshingAt(t) /\ PlacedAt(t)
      /\ unread \in Nat /\ task[t].short \in Nat
      /\ Off \in SUBSET Cells /\ Stale \in SUBSET Cells
  BY Given DEF Typed, Refreshing, RefreshingAt, Placed, Frame, Off, Stale
<1>i. Idle.pc = "idle"
  BY DEF Idle
<1>1. CASE task'[t].pc \in {"idle", "header"}
  BY <1>1 DEF RefreshingAt
<1>2. ASSUME NEW h \in Heights, RefreshHeader(t, h), h # block PROVE RefreshingAt(t)'
  <2>1. /\ task'[t].pc = "sweep" /\ task'[t].block = h /\ task'[t].at = h
        /\ task'[t].short = unread
    BY <1>2, RefreshHeaderMoves
  <2>2. block' = h /\ header' = h /\ unread' = unread
    BY <1>2 DEF RefreshHeader, counts
  <2> QED
    BY <2>1, <2>2 DEF RefreshingAt, Filling
<1>3. ASSUME NEW refused \in SUBSET Cells, NEW moved \in SUBSET Roving,
             RefreshSweep(t, refused, moved)
      PROVE  RefreshingAt(t)'
  <2>1. /\ task[t].pc = "sweep" /\ task'[t].pc = "balances" /\ task'[t].at = block
        /\ Reread(Cells, task[t].at, refused, moved) /\ task[t].at \in Blocks
        /\ UNCHANGED <<block, header>>
        /\ task'[t].alone = task[t].alone /\ task'[t].block = task[t].block
        /\ task'[t].short = task[t].short
    BY <1>3, RefreshSweepMoves, ZenonT(60) DEF RefreshSweep, Same, Fields
  <2> SUFFICES ASSUME task[t].alone
               PROVE  RefreshingAt(t)'
    BY <2>1 DEF RefreshingAt
  <2>2. /\ task[t].at = block /\ task[t].block = block /\ header = block
        /\ unread = task[t].short
    BY <1>0, <2>1 DEF RefreshingAt
  <2>3. Off' \subseteq refused
    BY <2>1, <2>2 DEF Off, Reread
  <2>4. unread' = unread + Cardinality(refused) /\ Cardinality(refused) \in Nat
    BY <2>1, Rereading
  <2>5. Cardinality(Off') <= Cardinality(refused) /\ Cardinality(Off') \in Nat
    BY <2>3, Fewer
  <2>6. Cardinality(Off') <= unread' - task'[t].short
    BY <1>0, <2>1, <2>2, <2>4, <2>5
  <2> QED
    BY <2>1, <2>2, <2>6 DEF RefreshingAt, Filling
<1>4. ASSUME NEW answered \in SUBSET Funded, RefreshBalances(t, answered)
      PROVE  RefreshingAt(t)'
  <2>1. /\ task[t].pc = "balances" /\ task'[t].pc = "run" /\ task'[t].at = block
        /\ task'[t].alone = task[t].alone /\ task'[t].block = task[t].block
        /\ task'[t].short = task[t].short
        /\ UNCHANGED <<block, header, slots, unread>>
    BY <1>4, RefreshBalancesMoves DEF RefreshBalances, counts, Same, Fields
  <2>2. Off' = Off
    BY <2>1 DEF Off
  <2> QED
    BY <1>0, <2>1, <2>2 DEF RefreshingAt, Filling
<1>5. CASE FillMisses(t)
  <2>1. /\ task[t].pc = "run" /\ task'[t].pc = "fetch" /\ task'[t].at = task[t].at
        /\ task'[t].alone = task[t].alone /\ task'[t].block = task[t].block
        /\ task'[t].short = task[t].short
        /\ UNCHANGED <<block, header, slots, unread>>
    BY <1>5, FillMissesMoves DEF FillMisses, At, state, counts, Same, Fields
  <2>2. Off' = Off
    BY <2>1 DEF Off
  <2> QED
    BY <1>0, <2>1, <2>2 DEF RefreshingAt, Filling
<1>6. ASSUME NEW refused \in SUBSET Cells, FillLands(t, refused) PROVE RefreshingAt(t)'
  <2>1. /\ task[t].pc = "fetch" /\ task'[t].pc = "run" /\ task'[t].at = task[t].at
        /\ task'[t].alone = task[t].alone /\ task'[t].block = task[t].block
        /\ task'[t].short = task[t].short
        /\ UNCHANGED <<block, header, unread>>
        /\ \A c \in Cells : slots'[c] \in {slots[c], task[t].at}
    BY <1>6, FillLandsMoves DEF FillLands, counts, Same, Fields
  <2> SUFFICES ASSUME task[t].alone
               PROVE  RefreshingAt(t)'
    BY <2>1 DEF RefreshingAt
  <2>2. /\ task[t].at = block /\ task[t].block = block /\ header = block
        /\ Cardinality(Off) <= unread - task[t].short
    BY <1>0, <2>1 DEF RefreshingAt, Filling
  <2>3. Off' \subseteq Off
    BY <2>1, <2>2 DEF Off
  <2>4. Cardinality(Off') <= Cardinality(Off) /\ {Cardinality(Off'), Cardinality(Off)} \subseteq Nat
    BY <1>0, <2>3, Fewer
  <2>5. Cardinality(Off') <= unread' - task'[t].short
    BY <1>0, <2>1, <2>2, <2>4
  <2> QED
    BY <2>1, <2>2, <2>5 DEF RefreshingAt, Filling
<1>7. CASE RefreshModels(t)
  <2>1. /\ task[t].pc = "run" /\ task'[t].pc = "gas_price" /\ task'[t].at = task[t].at
        /\ task'[t].alone = task[t].alone /\ task'[t].block = task[t].block
        /\ task'[t].short = task[t].short
        /\ UNCHANGED <<block, header, slots>>
    BY <1>7, RefreshModelsMoves DEF RefreshModels, Complete, At, state, Same, Fields
  <2>2. task'[t].kept <=> task[t].block = models_block /\ ~OfTheirBlock
    BY <1>7, RefreshModelsMoves
  <2>3. unread' = unread + Cardinality(Lacks(t)) /\ RebuiltAt(task[t].block)
    BY <1>7 DEF RefreshModels, Counted
  <2> SUFFICES ASSUME task[t].alone
               PROVE  RefreshingAt(t)'
    BY <2>1 DEF RefreshingAt
  <2>4. /\ task[t].at = block /\ task[t].block = block /\ header = block
        /\ Cardinality(Off) <= unread - task[t].short
    BY <1>0, <2>1 DEF RefreshingAt, Filling
  <2>5. models_block' = block
    BY <2>3, <2>4 DEF RebuiltAt, models
  <2>6. ASSUME ~task'[t].kept
        PROVE  Off' \cup Stale' \subseteq Off \cup Lacks(t)
    <3>1. Off' = Off
      BY <2>1 DEF Off
    <3>2. CASE models_block = block
      <4>1. model' = model /\ OfTheirBlock
        BY <2>2, <2>3, <2>4, <2>6, <3>2 DEF RebuiltAt, models
      <4>2. Stale' = {}
        BY <2>1, <3>2, <4>1 DEF Stale, OfTheirBlock
      <4> QED BY <3>1, <4>2
    <3>3. CASE models_block # block
      <4>1. model' = [p \in Exact |-> slots[p]]
        BY <2>3, <2>4, <3>3 DEF RebuiltAt, Frozen
      <4>2. task[t].reads = Exact
        BY <1>0, <2>1 DEF PlacedAt, Filling
      <4>3. Stale' \subseteq Off \cup Lacks(t)
        BY <2>1, <4>1, <4>2, Given DEF Stale, Off, Lacks
      <4> QED BY <3>1, <4>3
    <3> QED BY <3>2, <3>3
  <2>7. Lacks(t) \in SUBSET Cells
    BY Lacking
  <2>8. /\ Cardinality(Off \cup Lacks(t)) <= Cardinality(Off) + Cardinality(Lacks(t))
        /\ Cardinality(Off) \in Nat /\ Cardinality(Lacks(t)) \in Nat
    BY <1>0, <2>7, Together
  <2>9. ASSUME ~task'[t].kept
        PROVE  Cardinality((Off \cup Stale)') <= unread' - task'[t].short
    <3>1. Off \cup Lacks(t) \in SUBSET Cells
      BY <1>0, <2>7
    <3>2. /\ Cardinality((Off \cup Stale)') <= Cardinality(Off \cup Lacks(t))
          /\ Cardinality((Off \cup Stale)') \in Nat /\ Cardinality(Off \cup Lacks(t)) \in Nat
      BY <2>6, <2>9, <3>1, Fewer
    <3> QED
      BY <1>0, <2>1, <2>3, <2>4, <2>8, <3>2
  <2> QED
    BY <2>1, <2>4, <2>5, <2>9 DEF RefreshingAt, Filling
<1>8. CASE Refresh(t)
  BY <1>1, <1>8, RefreshMoves
<1>9. CASE RefreshDone(t)
  BY <1>i, <1>1, <1>9, RefreshDoneMoves DEF After
<1>10. CASE Raise(t)
  BY <1>i, <1>1, <1>10, RaiseMoves DEF After
<1>11. ASSUME NEW h \in Heights, RefreshHeader(t, h) PROVE RefreshingAt(t)'
  BY <1>i, <1>1, <1>2, <1>11, RefreshHeaderMoves DEF After
<1> QED
  BY <1>3, <1>4, <1>5, <1>6, <1>7, <1>8, <1>9, <1>10, <1>11, RefreshSteps

LEMMA RefreshingNext ==
    ASSUME Typed, Placed, ByItself, Refreshing, [Next]_vars
    PROVE  Refreshing'
<1>1. CASE UNCHANGED <<block, header, slots, models, unread, task>>
  BY <1>1 DEF Refreshing, Off, Stale, models
<1>2. ASSUME NEW u \in Tasks, Step(u) PROVE Refreshing'
  <2>1. ASSUME NEW t \in Tasks, Kind[t] = "refresh", task'[t].alone PROVE RefreshingAt(t)'
    BY <1>2, <2>1, OnlyItself, RefreshingStays
  <2> QED
    BY <2>1 DEF Refreshing, RefreshingAt
<1>3. CASE Quote
  <2>1. UNCHANGED <<block, header, slots, unread, task>>
    BY <1>3 DEF Quote, state, counts
  <2>2. Off' = Off
    BY <2>1 DEF Off
  <2>3. models_block = block => UNCHANGED models
    BY <1>3 DEF Quote, ModelsNow, models
  <2>4. models_block = block => Stale' = Stale
    BY <2>1, <2>3 DEF Stale, models
  <2> QED
    BY <2>1, <2>2, <2>3, <2>4 DEF Refreshing, models
<1>4. ASSUME NEW approving \in BOOLEAN, Advance(approving) PROVE Refreshing'
  BY <1>1, <1>4 DEF Advance, state, counts
<1> QED
  BY <1>1, <1>2, <1>3, <1>4 DEF Next, vars, state, counts

----------------------------------------------------------------------------
(* A settled session.                                                      *)

\* Nothing in flight reads, or will read, at another block than the pin.
HarmlessAt(t) ==
    \/ task[t].pc \in {"idle", "header"}
    \/ Kind[t] = "set_pair" /\ task[t].at = block

OfThePin ==
    /\ header = block /\ models_block = block /\ OfTheirBlock
    /\ \A p \in Pools : slots[p] \in {block, Missing}

PreparedAtThePin ==
    prepared # None =>
      /\ prepared = [block |-> block, of |-> {block}]
      /\ \A p \in Pools \ Exact : slots[p] = block

LEMMA RestStays ==
    ASSUME Typed, Placed, AtRest, settled, NEW t \in Tasks, Step(t), settled',
           ~RefreshDone(t)
    PROVE  OfThePin' /\ PreparedAtThePin' /\ HarmlessAt(t)' /\ UNCHANGED block
<1>0. /\ task[t] \in Frame /\ PlacedAt(t) /\ block \in Blocks
      /\ OfThePin /\ PreparedAtThePin /\ HarmlessAt(t)
  BY DEF Typed, Placed, AtRest, OfThePin, PreparedAtThePin, HarmlessAt
<1>i. Idle.pc = "idle" /\ Kind[t] \in {"refresh", "set_pair", "plan_call"}
  BY SessionAssumption DEF Idle
<1>1. ASSUME UNCHANGED <<header, block, models, slots, prepared>>
      PROVE  OfThePin' /\ PreparedAtThePin'
  BY <1>0, <1>1 DEF OfThePin, OfTheirBlock, PreparedAtThePin, models
<1>2. CASE Raise(t)
  BY <1>i, <1>1, <1>2, RaiseMoves DEF Raise, state, After, HarmlessAt
<1>3. CASE task[t].pc \in {"idle", "header"}
  <2>1. CASE Refresh(t)
    BY <1>1, <2>1, RefreshMoves DEF Refresh, state, HarmlessAt
  <2>2. CASE SetPair(t)
    BY <1>1, <2>2, SetPairMoves DEF SetPair, state, HarmlessAt
  <2>3. ASSUME NEW route \in Routes, NEW floor \in {0, approved}, PlanCall(t, route, floor)
        PROVE  OfThePin' /\ PreparedAtThePin' /\ HarmlessAt(t)' /\ UNCHANGED block
    BY <1>1, <2>3, PlanCallMoves DEF PlanCall, state, HarmlessAt
  <2>4. ASSUME NEW h \in Heights, RefreshHeader(t, h)
        PROVE  OfThePin' /\ PreparedAtThePin' /\ HarmlessAt(t)' /\ UNCHANGED block
    <3>1. h = block
      BY <2>4 DEF RefreshHeader
    <3> QED
      BY <1>i, <1>1, <2>4, <3>1, RefreshHeaderMoves DEF RefreshHeader, state, After, HarmlessAt
  <2>5. ASSUME NEW h \in Heights, PlanHeader(t, h)
        PROVE  OfThePin' /\ PreparedAtThePin' /\ HarmlessAt(t)' /\ UNCHANGED block
    <3>1. task'[t].pc = task[t].pc /\ UNCHANGED header
      BY <2>5, PlanHeaderMoves
    <3> QED
      BY <1>1, <1>3, <2>5, <3>1 DEF PlanHeader, HarmlessAt
  <2>6. /\ ~FillMisses(t) /\ ~RefreshModels(t) /\ ~SetPairDone(t)
        /\ ~PlanPrice(t) /\ ~PlanAgreed(t)
        /\ \A found \in BOOLEAN : ~PlanRefused(t, found)
        /\ \A listed : ~PlanSeed(t, listed)
        /\ \A answered \in SUBSET Funded : ~RefreshBalances(t, answered)
        /\ \A refused \in SUBSET Cells :
             /\ ~FillLands(t, refused) /\ ~PlanRestore(t, refused)
             /\ \A moved \in SUBSET Roving :
                  ~RefreshSweep(t, refused, moved) /\ ~PlanReread(t, refused, moved)
    BY <1>3 DEF FillMisses, RefreshModels, SetPairDone, PlanPrice, PlanAgreed, PlanRefused,
         PlanRuns, PlanSeed, RefreshBalances, FillLands, PlanRestore, RefreshSweep,
         PlanReread, Complete, At
  <2> QED
    BY <1>2, <2>1, <2>2, <2>3, <2>4, <2>5, <2>6 DEF Step
<1>4. CASE Kind[t] = "set_pair" /\ task[t].at = block /\ task[t].pc \notin {"idle", "header"}
  <2>1. CASE SetPair(t)
    BY <1>1, <2>1, SetPairMoves DEF SetPair, state, HarmlessAt
  <2>2. CASE SetPairDone(t)
    <3>1. /\ Lacks(t) = {} /\ task[t].pc = "run" /\ task'[t].pc = "idle"
          /\ UNCHANGED <<header, block, models, slots>> /\ prepared' = Fitted(model)
      BY <1>i, <2>2, SetPairDoneMoves DEF SetPairDone, Complete, At, state, After
    <3>2. task[t].reads = Pools \ Exact
      BY <1>0, <1>4, <3>1 DEF PlacedAt, Filling
    <3>3. \A p \in Pools \ Exact : slots[p] = block
      BY <1>0, <3>1, <3>2 DEF Lacks, OfThePin
    <3>4. \A p \in Pools : Seen(p, model) = block
      BY <1>0, <3>3 DEF Seen, OfThePin, OfTheirBlock
    <3>5. Fitted(model) = [block |-> block, of |-> {block}]
      BY <1>0, <3>4 DEF Fitted, OfThePin
    <3> QED
      BY <1>0, <3>1, <3>3, <3>5
         DEF OfThePin, OfTheirBlock, PreparedAtThePin, HarmlessAt, models
  <2>3. CASE FillMisses(t)
    BY <1>1, <1>4, <2>3, FillMissesMoves DEF FillMisses, state, Same, Fields, HarmlessAt
  <2>4. ASSUME NEW refused \in SUBSET Cells, FillLands(t, refused)
        PROVE  OfThePin' /\ PreparedAtThePin' /\ HarmlessAt(t)' /\ UNCHANGED block
    <3>1. /\ task'[t].at = task[t].at
          /\ UNCHANGED <<header, block, models, prepared>>
          /\ \A c \in Cells : slots'[c] \in {slots[c], block}
      BY <1>4, <2>4, FillLandsMoves DEF FillLands, Same, Fields
    <3> QED
      BY <1>0, <1>4, <3>1, Given
         DEF OfThePin, OfTheirBlock, PreparedAtThePin, HarmlessAt, models
  <2> QED
    BY <1>2, <1>4, <2>1, <2>2, <2>3, <2>4, SetPairSteps
<1> QED
  BY <1>0, <1>3, <1>4 DEF HarmlessAt

\* A refresh that counted nothing amiss leaves nothing amiss.
LEMMA RestBegins ==
    ASSUME Typed, Placed, ByItself, Refreshing, NEW t \in Tasks, RefreshDone(t), settled'
    PROVE  AtRest'
<1>1. /\ task[t].alone /\ ~task[t].kept /\ unread - task[t].short = 0
      /\ task[t].pc = "gas_price"
      /\ UNCHANGED <<block, header, slots, models>> /\ prepared' = None
  BY DEF RefreshDone, At, state
<1>2. Kind[t] = "refresh"
  BY <1>1, SessionAssumption DEF Placed, PlacedAt, Filling
<1>3. /\ header = block /\ models_block = block
      /\ Cardinality(Off \cup Stale) <= 0
  BY <1>1, <1>2 DEF Refreshing
<1>4. IsFiniteSet(Off \cup Stale)
  <2>1. Off \cup Stale \subseteq Cells
    BY Given DEF Off, Stale
  <2> QED BY <2>1, Given, FS_Subset
<1>5. Off \cup Stale = {}
  BY <1>3, <1>4, FS_CardinalityType, FS_EmptySet
<1>6. \A p \in Pools : slots[p] \in {block, Missing}
  BY <1>5, Given DEF Off
<1>7. OfTheirBlock
  BY <1>3, <1>5 DEF Stale, OfTheirBlock
<1>8. \A v \in Tasks : task'[v].pc = "idle"
  <2>1. task'[t] = Idle /\ Others(t)
    BY RefreshDoneMoves DEF After
  <2> QED
    BY <1>1, <2>1 DEF Others, ByItself, Idle
<1> QED
  BY <1>1, <1>3, <1>6, <1>7, <1>8 DEF AtRest, OfTheirBlock, models

LEMMA AtRestNext ==
    ASSUME Typed, Placed, ByItself, Refreshing, AtRest, [Next]_vars
    PROVE  AtRest'
<1>1. CASE UNCHANGED <<block, header, slots, models, prepared, settled, task>>
  BY <1>1 DEF AtRest, OfTheirBlock, models
<1>2. ASSUME NEW t \in Tasks, Step(t) PROVE AtRest'
  <2>1. CASE RefreshDone(t) /\ settled'
    BY <2>1, RestBegins
  <2>2. CASE ~RefreshDone(t) /\ settled'
    <3>1. settled
      <4>1. settled' => settled
        BY <1>2, <2>2 DEF Step, Refresh, RefreshModels, SetPair, SetPairDone, PlanPrice,
             PlanAgreed, FillMisses, Raise, RefreshHeader, PlanHeader, FillLands,
             PlanRestore, RefreshSweep, PlanReread, RefreshBalances, PlanCall, PlanSeed,
             PlanRefused, history, Typed
      <4> QED BY <2>2, <4>1
    <3>2. OfThePin' /\ PreparedAtThePin' /\ HarmlessAt(t)' /\ UNCHANGED block
      BY <1>2, <2>2, <3>1, RestStays
    <3>3. ASSUME NEW v \in Tasks \ {t} PROVE HarmlessAt(v)'
      <4>1. task[v] \in Frame
        BY DEF Typed
      <4>2. HarmlessAt(v)
        BY <3>1 DEF AtRest, HarmlessAt
      <4>3. task'[v].pc = task[v].pc /\ task'[v].at = task[v].at
        <5>1. CASE Starts(t)
          BY <4>1, <5>1 DEF Starts, Frame
        <5>2. CASE GoesOn(t)
          BY <5>2 DEF GoesOn, Others
        <5> QED BY <1>2, <5>1, <5>2, EitherWay
      <4>4. block' = block
        BY <3>2
      <4> QED
        BY <4>2, <4>3, <4>4 DEF HarmlessAt
    <3> QED
      BY <3>2, <3>3 DEF AtRest, OfThePin, PreparedAtThePin, HarmlessAt
  <2> QED
    BY <2>1, <2>2 DEF AtRest
<1>3. CASE Quote
  <2>1. UNCHANGED <<block, header, slots, prepared, settled, task>>
    BY <1>3 DEF Quote, state
  <2>2. models_block = block => UNCHANGED models
    BY <1>3 DEF Quote, ModelsNow, models
  <2> QED
    BY <2>1, <2>2 DEF AtRest, OfTheirBlock, models
<1>4. ASSUME NEW approving \in BOOLEAN, Advance(approving) PROVE AtRest'
  BY <1>1, <1>4 DEF Advance, state, history
<1> QED
  BY <1>1, <1>2, <1>3, <1>4 DEF Next, vars, state, history

----------------------------------------------------------------------------
(* The session.                                                            *)

LEMMA InvInit == Init => IInv
<1> SUFFICES ASSUME Init PROVE IInv
  OBVIOUS
<1>1. PICK refused \in SUBSET Pools :
        /\ slots = [c \in Cells |-> IF c \in refused \cup {Token} THEN Missing ELSE 1]
        /\ unread = Cardinality(refused)
        /\ faults = (IF refused = {} THEN 0 ELSE 1)
        /\ settled = (refused = {})
  BY DEF Init
<1>2. 1 \in Blocks
  BY SessionAssumption DEF Blocks
<1>3. \A t \in Tasks : task[t] = Idle
  BY DEF Init
<1>4. Idle.pc = "idle" /\ ~Idle.alone
  BY DEF Idle
<1>5. Typed
  <2>1. slots \in [Cells -> Values]
    BY <1>1, <1>2, Given
  <2>2. model \in [Exact -> Values]
    BY <2>1, Given DEF Init
  <2>3. Cardinality(refused) \in Nat
    <3>1. refused \in SUBSET Cells
      BY Given
    <3> QED BY <3>1, Fewer
  <2>4. task \in [Tasks -> Frame]
    BY IdleFrame DEF Init
  <2> QED
    BY <1>1, <1>2, <2>1, <2>2, <2>3, <2>4 DEF Init, Typed
<1>6. Placed
  <2>1. ASSUME NEW t \in Tasks PROVE PlacedAt(t)
    <3>1. Kind[t] \in {"refresh", "set_pair", "plan_call"} /\ task[t] = Idle
      BY <1>3, SessionAssumption
    <3> QED
      BY <3>1 DEF PlacedAt, Idle, Filling
  <2> QED BY <2>1 DEF Placed
<1>7. ByItself /\ Planning /\ Refreshing
  BY <1>3, <1>4 DEF ByItself, Planning, Refreshing
<1>8. Borrowed
  <2>1. slots[Token] = Missing
    BY <1>1, Given
  <2> QED BY <2>1, Given DEF Borrowed, Missing, Granted
<1>9. AtRest
  <2> SUFFICES ASSUME refused = {} PROVE AtRest
    BY <1>1 DEF AtRest
  <2>1. \A p \in Pools : slots[p] = 1
    BY <1>1, Given
  <2>2. \A p \in Exact : model[p] = 1
    BY <2>1, Given DEF Init
  <2> QED
    BY <1>3, <1>4, <2>1, <2>2 DEF Init, AtRest, OfTheirBlock
<1> QED
  BY <1>5, <1>6, <1>7, <1>8, <1>9 DEF IInv

THEOREM SessionInvariant == Spec => []IInv
<1>1. IInv /\ [Next]_vars => IInv'
  BY PlacedNext, ByItselfNext, BorrowedNext, PlanningNext, RefreshingNext, AtRestNext
     DEF IInv
<1> QED
  BY <1>1, InvInit, PTL DEF Spec

\* chain/session.py:375 and core/pipeline.py:553.  Whatever refreshes, pairs, plans and
\* quotes are interleaved and whatever reads are lost, a quote made after a refresh that
\* was by itself, read everything and rebuilt what it kept, with no plan since, is of
\* the pinned block throughout: preparation, models, storage and header.
THEOREM Quoted == Spec => []QuotedAtThePin
<1>1. IInv => QuotedAtThePin
  <2> SUFFICES ASSUME Typed, AtRest, settled, prepared # None PROVE QuotedOf = {block}
    BY DEF IInv, QuotedAtThePin
  <2>1. /\ prepared = [block |-> block, of |-> {block}]
        /\ header = block /\ models_block = block /\ OfTheirBlock
        /\ \A p \in Pools \ Exact : slots[p] = block
    BY DEF AtRest
  <2>2. \A p \in Pools : Seen(p, model) = block
    BY <2>1 DEF Seen, OfTheirBlock
  <2>3. Fitted(model) = [block |-> block, of |-> {block}]
    BY <2>1, <2>2 DEF Fitted
  <2>4. ModelsNow = model /\ Preparation(model) = prepared
    BY <2>1 DEF ModelsNow, Preparation
  <2> QED
    BY <2>1, <2>3, <2>4 DEF QuotedOf
<1> QED
  BY <1>1, SessionInvariant, PTL

\* chain/session.py:220.  A refresh by itself has counted, when it reports, every slot
\* and every model that is not of the block it moved the pin to, however many reads it
\* was refused, unless it kept models that were already amiss.
THEOREM Told == Spec => []RefreshTells
<1>1. IInv => RefreshTells
  <2> SUFFICES ASSUME Placed, Refreshing, NEW t \in Tasks, At(t, "gas_price"),
                      task[t].alone, ~task[t].kept
               PROVE  Cardinality({c \in Cells : slots[c] \notin {block, Missing}}
                                  \cup {p \in Exact : model[p] # block})
                        <= unread - task[t].short
    BY DEF IInv, RefreshTells
  <2>1. Kind[t] = "refresh" /\ task[t].pc = "gas_price"
    BY SessionAssumption DEF Placed, PlacedAt, Filling, At
  <2> QED
    BY <2>1 DEF Refreshing, Off, Stale
<1> QED
  BY <1>1, SessionInvariant, PTL

\* chain/session.py:461-463.  A plan by itself, none of whose reads was refused, runs its
\* call on the storage it set its bounds on, all of it and the header of the block it
\* names, where an approval its caller saw confirmed is in force.
THEOREM Planned == Spec => []PlanIsWhatRan
<1>1. IInv => PlanIsWhatRan
  <2> SUFFICES ASSUME Typed, Placed, Planning, NEW t \in Tasks, RunsAlone(t), NoneRefused(t)
               PROVE  /\ task[t].priced = Live(task[t].route)
                      /\ {slots[p] : p \in task[t].route} \cup {header} = {task[t].at}
                      /\ task[t].floor \in 1..task[t].at => Allowed
    BY DEF IInv, PlanIsWhatRan
  <2>1. /\ Kind[t] = "plan_call" /\ task[t].alone /\ task[t].pc = "run" /\ task[t].bound
        /\ ~task[t].refused /\ Lacks(t) = {}
    BY DEF RunsAlone, PlanRuns, Complete, At, NoneRefused
  <2>2. /\ header = task[t].at
        /\ \A c \in Touched(task[t].route) : slots[c] \in {task[t].at, Missing}
        /\ task[t].priced = [p \in task[t].route |-> task[t].at]
        /\ \A p \in task[t].route : slots[p] = task[t].at
    BY <2>1 DEF Planning, Pricing, Filling
  <2>3. task[t].priced = Live(task[t].route)
    BY <2>2 DEF Live
  <2>4. slots[Token] = task[t].at
    <3>1. task[t].reads = Touched(task[t].route)
      BY <2>1 DEF Placed, PlacedAt, Filling
    <3> QED BY <2>1, <2>2, <3>1 DEF Lacks, Touched
  <2>5. task[t].floor # 0 => task[t].floor = approved
    BY <2>1 DEF Placed, PlacedAt
  <2>6. task[t].at \in Nat /\ approved \in Nat
    <3>1. task[t].at \in Blocks \cup {0} /\ approved \in Nat
      BY DEF Typed, Frame
    <3> QED BY <3>1, SessionAssumption DEF Blocks
  <2>7. task[t].floor \in 1..task[t].at => Allowed
    BY <2>4, <2>5, <2>6 DEF Allowed
  <2> QED
    BY <2>2, <2>3, <2>7
<1> QED
  BY <1>1, SessionInvariant, PTL

\* chain/session.py:686.  With one lost request at most, a dry run that had the session
\* to itself goes through only under an approval of the chain's: the one an estimate
\* grants itself is either restored, or read over by the plan that comes next.
THEOREM Approved == Spec => []AgreedMeansApproved
<1>1. IInv => AgreedMeansApproved
  <2> SUFFICES ASSUME Typed, Borrowed, faults <= 1, NEW t \in Tasks, RunsAlone(t), Allowed
               PROVE  approved # 0
    BY DEF IInv, AgreedMeansApproved
  <2>1. Kind[t] = "plan_call" /\ task[t].alone /\ task[t].pc \in Pricing
    BY DEF RunsAlone, PlanRuns, Complete, At, Pricing, Filling
  <2>2. slots[Token] # Granted
    BY <2>1 DEF Borrowed, Typed
  <2> QED
    BY <2>2 DEF Allowed
<1> QED
  BY <1>1, SessionInvariant, PTL

=============================================================================
