------------------------------ MODULE ExactGate ------------------------------
(***************************************************************************)
(* Which pools are computed rather than asked (chain/stable_params.py's    *)
(* build_exact_pools over chain/exact_cache.py, as the command line runs   *)
(* them).  A pool is modelled only if one of the variants its parameters   *)
(* allow agrees with what the pool itself quotes; that verdict is kept in a *)
(* file, and so is a refusal, together with the balances it was met at.    *)
(*                                                                         *)
(* A run loads the file, builds, saves once, and then rebuilds in memory   *)
(* as blocks go by.  It may be killed at any time, also while it writes;   *)
(* between runs the maths may be edited.  The endpoint may leave reads and *)
(* quotes unanswered.                                                      *)
(***************************************************************************)
EXTENDS Integers, Sequences, FiniteSets, FiniteSetsExt, SequencesExt

CONSTANTS
    Pools,          \* pools are 1..Pools, in the order of the list
    Offered,        \* [Pool -> Seq(variants)], those a complete reading builds: the
                    \* plain rates' at least (stable_params.py:275)
    Unread,         \* [Pool -> Seq(variants)], those built without the rates read
    Rated,          \* what the rate reader builds for a pool that was rejected
    Size,           \* where a model is checked
    MathsVersions,
    Agrees,         \* [Pool \X variants \X MathsVersions -> SUBSET Size]
    Balances,       \* the balances a pool may have
    Quotes,         \* [Pool \X Balances -> SUBSET Size], what it can quote
    MASS_REFUSAL_FLOOR,
    MASS_REFUSAL_SHARE,     \* per cent
    MaxFaults,      \* bounds of the model: reads and quotes lost and writes cut
    MaxChanges      \* short; balances moved and maths edited

Pool == 1..Pools

ASSUME GateAssumption ==
    /\ \A p \in Pool : DOMAIN Offered[p] \cup DOMAIN Unread[p] \subseteq Nat
    /\ \A p \in Pool : Offered[p] # <<>> /\ ToSet(Unread[p]) \subseteq ToSet(Offered[p])
    /\ \A p \in Pool, b \in Balances : Quotes[<<p, b>>] \subseteq Size

VARIABLES
    maths,          \* the version of the code
    balances,       \* of the pools, at the block being quoted
    disk,           \* the file, or what is left of it
    stage,          \* "down", "gate", "rescue", "built" or "serving"
    verdicts,       \* of the run: [pools -> variant]
    unquotable,     \* of the run: refusals read from the file or written to it
    pending,        \* refusals learned by this run: [pools -> balances]
    models,         \* what is computed: [pools -> variant or Rated]
    todo,           \* pools the build has not come to
    rejected,
    saved,          \* the run's one save is behind it
    faults, changes,
    thin,           \* history: models admitted on less than every size
    calm,           \* history: the build has missed nothing
    unheard,        \* history: refusals of this run that were the endpoint's doing
    misfiled        \* history: those the file may hold

world == <<maths, balances, disk>>
cache == <<verdicts, unquotable, pending>>
build == <<models, todo, rejected>>
vars == <<world, stage, cache, build, saved, faults, changes, thin, calm, unheard, misfiled>>

None == <<>>        \* a function of nothing, and the file when there is none to read
Without(f, p) == [q \in DOMAIN f \ {p} |-> f[q]]
With(f, p, x) == [q \in DOMAIN f \cup {p} |-> IF q = p THEN x ELSE f[q]]

----------------------------------------------------------------------------
(* ExactCache.                                                             *)

\* Slip: a verdict is believed whatever maths earned it.
AnyMaths == disk # None

Believed == disk # None /\ disk.maths = maths

load ==
    /\ verdicts' = IF Believed THEN disk.verdicts ELSE None
    /\ unquotable' = IF Believed THEN disk.unquotable ELSE None
    /\ pending' = None

record(p, v) ==
    /\ verdicts' = With(verdicts, p, v)
    /\ unquotable' = Without(unquotable, p) /\ pending' = Without(pending, p)

refuse(p) ==
    /\ verdicts' = Without(verdicts, p)
    /\ pending' = With(pending, p, balances[p])
    /\ UNCHANGED unquotable

\* Slip: the refusal of a pool that was rescued is left standing.
StandingRefusals(rated, refusals) == refusals

Readmitted(rated, refusals) == [p \in DOMAIN refusals \ rated |-> refusals[p]]

\* Slip: what was refused once is refused for good.
SkipForGood(p) == p \in DOMAIN unquotable \cup DOMAIN pending

\* The balances it was refused at, those of the file before those of the run.
skip(p) ==
    \/ p \in DOMAIN unquotable /\ unquotable[p] = balances[p]
    \/ p \notin DOMAIN unquotable /\ p \in DOMAIN pending /\ pending[p] = balances[p]

\* A run that refuses too many at once is describing the endpoint.
MassRefusal ==
    LET refusals == Cardinality(DOMAIN pending)
        total == Cardinality(DOMAIN verdicts) + refusals
    IN  refusals >= MASS_REFUSAL_FLOOR /\ refusals * 100 > MASS_REFUSAL_SHARE * total

\* Slip: an outage is written down like a survey.
KeepAll == pending

Keep == IF MassRefusal THEN None ELSE pending

Kept == [p \in DOMAIN unquotable \cup DOMAIN Keep |->
            IF p \in DOMAIN Keep THEN Keep[p] ELSE unquotable[p]]

----------------------------------------------------------------------------
(* build_exact_pools: every pool in turn, then the rejected ones again.    *)

Opens ==
    /\ stage' = "gate" /\ todo' = Pool
    /\ models' = None /\ rejected' = {}
    /\ calm' = TRUE

Start ==
    /\ stage = "down"
    /\ load /\ Opens
    /\ UNCHANGED <<world, saved, faults, changes, thin, unheard, misfiled>>

\* The block has moved.
Rebuild ==
    /\ stage = "serving"
    /\ Opens
    /\ UNCHANGED <<world, cache, saved, faults, changes, thin, unheard, misfiled>>

Quoted(p) == Quotes[<<p, balances[p]>>]
Fits(p, v, heard) == heard \subseteq Agrees[<<p, v, maths>>]
AsItStands(p) == <<p, balances[p]>>

Misses(lost) ==
    /\ lost => faults < MaxFaults
    /\ faults' = IF lost THEN faults + 1 ELSE faults
    /\ calm' = (calm /\ ~lost)

\* The pool whose turn it is, and the variants built of it: a reading may miss
\* its rates, or all of it.
Turn(p, built) ==
    /\ stage = "gate" /\ todo # {} /\ p = Min(todo)
    /\ todo' = todo \ {p}
    /\ stage' = IF todo' = {} THEN "rescue" ELSE stage
    /\ UNCHANGED <<world, saved, changes, misfiled>>

\* A verdict is matched against what was built, never used to build.
trust(p, built) == p \in DOMAIN verdicts /\ verdicts[p] \in ToSet(built)

Trusted(p, built) ==
    /\ Turn(p, built) /\ Misses(built # Offered[p])
    /\ trust(p, built)
    /\ models' = With(models, p, verdicts[p])
    /\ UNCHANGED <<cache, rejected, thin, unheard>>

Passed(p, built) ==
    /\ Turn(p, built) /\ Misses(built # Offered[p])
    /\ built = None \/ (~trust(p, built) /\ skip(p))
    /\ UNCHANGED <<cache, models, rejected, thin, unheard>>

\* The first variant that agrees at every size the pool answered.
Gated(p, built, heard) ==
    LET lost == built # Offered[p] \/ heard # Quoted(p)
        fitting == {n \in DOMAIN built : heard # {} /\ Fits(p, built[n], heard)}
        v == built[Min(fitting)]
    IN  /\ Turn(p, built) /\ Misses(lost)
        /\ built # None /\ ~trust(p, built) /\ ~skip(p)
        /\ \/ /\ fitting # {}
              /\ models' = With(models, p, v)
              /\ record(p, v)
              /\ thin' = IF heard # Size THEN thin \cup {<<p, v, maths>>} ELSE thin
              /\ unheard' = unheard \ {AsItStands(p)}
              /\ UNCHANGED rejected
           \/ /\ fitting = {}
              /\ rejected' = rejected \cup {p}
              /\ refuse(p)
              /\ unheard' = IF lost THEN unheard \cup {AsItStands(p)}
                            ELSE unheard \ {AsItStands(p)}
              /\ UNCHANGED <<models, thin>>

\* The endpoint answers no quote of the pools left: none of them can be checked.
Outage ==
    LET trusted == {p \in todo : trust(p, Offered[p])}
        asked == {p \in todo \ trusted : ~skip(p)}
    IN  /\ stage = "gate" /\ todo # {} /\ Misses(TRUE)
        /\ models' = [p \in DOMAIN models \cup trusted |->
                         IF p \in trusted THEN verdicts[p] ELSE models[p]]
        /\ verdicts' = [p \in DOMAIN verdicts \ asked |-> verdicts[p]]
        /\ pending' = [p \in DOMAIN pending \cup asked |->
                          IF p \in asked THEN balances[p] ELSE pending[p]]
        /\ rejected' = rejected \cup asked
        /\ unheard' = unheard \cup {AsItStands(p) : p \in asked}
        /\ todo' = {} /\ stage' = "rescue"
        /\ UNCHANGED <<world, unquotable, saved, changes, thin, misfiled>>

\* The rate reader, over the rejected pools only, hears them or does not; when it
\* raises it has heard none.
Rescue ==
    /\ stage = "rescue"
    /\ \E heard \in SUBSET rejected :
          LET rated == {p \in heard : Quoted(p) # {} /\ Fits(p, Rated, Quoted(p))}
          IN  /\ Misses(heard # rejected)
              /\ models' = [p \in DOMAIN models \cup rated |->
                               IF p \in rated THEN Rated ELSE models[p]]
              /\ unquotable' = Readmitted(rated, unquotable)
              /\ pending' = Readmitted(rated, pending)
              /\ rejected' = rejected \ rated
              /\ thin' = thin \cup {<<p, Rated, maths>> : p \in {q \in rated : Quoted(q) # Size}}
              /\ unheard' = (unheard \ {AsItStands(p) : p \in rated})
                               \cup {AsItStands(p) : p \in rejected \ heard}
    /\ stage' = "built"
    /\ UNCHANGED <<world, verdicts, todo, saved, changes, misfiled>>

----------------------------------------------------------------------------
(* The run: one save, then models for every block until it ends.           *)

\* What the file may say, once it is written, of pools that were not heard.
MisfiledNow == {<<p, Kept[p]>> : p \in DOMAIN Kept}
                 \cap (misfiled \cup (IF MassRefusal THEN {} ELSE unheard))

Serves == stage' = "serving" /\ saved' = TRUE

save ==
    /\ stage = "built" /\ ~saved
    /\ unquotable' = Kept
    /\ Serves
    /\ \/ /\ disk' = [maths |-> maths, verdicts |-> verdicts, unquotable |-> Kept]
          /\ misfiled' = MisfiledNow
          /\ UNCHANGED <<faults>>
       \/ /\ faults < MaxFaults /\ faults' = faults + 1     \* a read-only checkout
          /\ misfiled' = misfiled
          /\ UNCHANGED disk
    /\ UNCHANGED <<maths, balances, verdicts, pending, build, changes, thin, calm, unheard>>

Serve ==
    /\ stage = "built" /\ saved
    /\ Serves
    /\ UNCHANGED <<world, cache, build, faults, changes, thin, calm, unheard, misfiled>>

\* Done, or killed; what the run had learned and not saved is gone.
Ends ==
    /\ stage' = "down" /\ saved' = FALSE
    /\ verdicts' = None /\ unquotable' = None /\ pending' = None
    /\ models' = None /\ todo' = {} /\ rejected' = {}
    /\ unheard' = {} /\ calm' = TRUE
    /\ UNCHANGED <<maths, balances, changes, thin>>

Exit == stage # "down" /\ Ends /\ UNCHANGED <<disk, faults, misfiled>>

\* Killed while it writes: half a file, which is read as none.
TornSave ==
    /\ stage = "built" /\ ~saved /\ faults < MaxFaults
    /\ disk' = None /\ misfiled' = {} /\ faults' = faults + 1
    /\ Ends

Changes ==
    /\ changes < MaxChanges /\ changes' = changes + 1
    /\ UNCHANGED <<disk, stage, cache, build, saved, faults, thin, calm, unheard, misfiled>>

Edit ==
    /\ stage = "down"
    /\ \E m \in MathsVersions \ {maths} : maths' = m
    /\ UNCHANGED balances
    /\ Changes

Move ==
    /\ stage \in {"down", "serving"}
    /\ \E p \in Pool, b \in Balances :
          b # balances[p] /\ balances' = [balances EXCEPT ![p] = b]
    /\ UNCHANGED maths
    /\ Changes

----------------------------------------------------------------------------
Init ==
    /\ maths \in MathsVersions /\ balances \in [Pool -> Balances]
    /\ disk = None /\ stage = "down" /\ saved = FALSE
    /\ verdicts = None /\ unquotable = None /\ pending = None
    /\ models = None /\ todo = {} /\ rejected = {}
    /\ faults = 0 /\ changes = 0
    /\ thin = {} /\ calm = TRUE /\ unheard = {} /\ misfiled = {}

Next ==
    \/ Start \/ Rebuild
    \/ \E p \in todo : \E built \in {Offered[p], Unread[p], None} :
          \/ Trusted(p, built) \/ Passed(p, built)
          \/ \E heard \in SUBSET Quoted(p) : Gated(p, built, heard)
    \/ Outage \/ Rescue
    \/ save \/ Serve \/ Exit \/ TornSave
    \/ Edit \/ Move

Spec == Init /\ [][Next]_vars

----------------------------------------------------------------------------
\* "A model that matches where it was checked and diverges elsewhere is worse than
\* no model" (stable_params.py:34): whatever was remembered from earlier runs, and
\* whatever maths earned it, a pool is computed only by a model that agrees with it
\* at every size under the maths of today; or was admitted by them on the sizes that
\* answered.
ModelsReproduce ==
    stage \in {"built", "serving"} =>
        \A p \in DOMAIN models :
            \/ Size \subseteq Agrees[<<p, models[p], maths>>]
            \/ <<p, models[p], maths>> \in thin

\* And every pool that agrees is computed.  A build that misses nothing models each
\* pool that has a variant to reproduce it or that the rate reader rescues, whatever
\* was refused before: at other balances, by the gate it was then rescued from, or in
\* an outage.  Left out are the pools this run has itself failed to hear at these
\* balances, and those of a run that failed to hear too few to be an outage.
WhatReproducesIsModelled ==
    stage = "built" /\ calm =>
        \A p \in Pool :
            /\ Quoted(p) # {}
            /\ \E v \in ToSet(Offered[p]) \cup {Rated} : Fits(p, v, Quoted(p))
            => \/ p \in DOMAIN models
               \/ AsItStands(p) \in unheard
               \/ AsItStands(p) \in misfiled /\ p \in DOMAIN unquotable

=============================================================================
