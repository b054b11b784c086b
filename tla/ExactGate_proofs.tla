-------------------------- MODULE ExactGate_proofs --------------------------
(* What the gate promises of the models it admits, and of those it ought to  *)
(* admit, for every set of pools, variants and sizes, and however often the  *)
(* code is edited between runs.                                             *)
EXTENDS ExactGate, WellFoundedInduction, TLAPS

\* A variant has earned a pool under some maths: it agreed at every size, or at
\* those that answered.
Earned(p, v, m) == Size \subseteq Agrees[<<p, v, m>>] \/ <<p, v, m>> \in thin

\* What is remembered was earned under the maths it is remembered with.
Remembered ==
    disk # None =>
        \A p \in DOMAIN disk.verdicts : Earned(p, disk.verdicts[p], disk.maths)

\* What a run goes by was earned under its own, and a program that is not running
\* goes by nothing: that is when its maths may change.
Running ==
    /\ todo \subseteq Pool
    /\ \A p \in DOMAIN verdicts : Earned(p, verdicts[p], maths)
    /\ \A p \in DOMAIN models : Earned(p, models[p], maths)
    /\ stage = "down" => verdicts = None /\ models = None

Honest == Remembered /\ Running

----------------------------------------------------------------------------
\* The program at rest.
LEMMA NothingOfNothing == DOMAIN None = {}
BY DEF None

LEMMA InitHonest == Init => Honest
BY NothingOfNothing DEF Init, Honest, Remembered, Running

\* What was earned stays so while nothing is edited and no record is struck.
LEMMA EarnedStays ==
    ASSUME thin \subseteq thin', NEW p, NEW v, NEW m, Earned(p, v, m)
    PROVE  Earned(p, v, m)'
BY DEF Earned

\* A first of several is one of them.
LEMMA FirstIsOneOf ==
    ASSUME NEW S \in SUBSET Nat, S # {}
    PROVE  Min(S) \in S
<1> DEFINE Below == OpToRel(<, Nat)
<1>1. IsWellFoundedOn(Below, Nat)
  BY NatLessThanWellFounded
<1>2. \A m, n \in Nat : m < n => <<m, n>> \in Below
  BY SMT DEF OpToRel
<1> HIDE DEF Below
<1>3. PICK n \in S : \A m \in S : ~(<<m, n>> \in Below)
  BY <1>1, WFMin
<1>4. \A m \in S : n <= m
  <2> SUFFICES ASSUME NEW m \in S PROVE ~(m < n)
    OBVIOUS
  <2>1. n \in Nat /\ m \in Nat
    OBVIOUS
  <2> QED BY <1>2, <1>3, <2>1
<1> QED BY <1>4 DEF Min

\* What the gate admits it has heard agree, at every size or at those that answered.
LEMMA AdmittedEarned ==
    ASSUME NEW p, NEW v, NEW heard, Fits(p, v, heard),
           thin' = IF heard # Size THEN thin \cup {<<p, v, maths>>} ELSE thin
    PROVE  /\ Size \subseteq Agrees[<<p, v, maths>>] \/ <<p, v, maths>> \in thin'
           /\ thin \subseteq thin'
BY DEF Fits

----------------------------------------------------------------------------
LEMMA StartHonest == Honest /\ Start => Honest'
<1> SUFFICES ASSUME Honest, Start PROVE Honest'
  OBVIOUS
<1>1. /\ disk' = disk /\ maths' = maths /\ thin' = thin
      /\ todo' = Pool /\ models' = None /\ stage' = "gate"
      /\ verdicts' = IF Believed THEN disk.verdicts ELSE None
  BY DEF Start, load, Opens, world
<1>2. Remembered'
  BY <1>1 DEF Honest, Remembered, Earned
<1>3. \A p \in DOMAIN verdicts' : Earned(p, verdicts'[p], maths)
  BY <1>1, NothingOfNothing DEF Believed, Honest, Remembered
<1> QED BY <1>1, <1>2, <1>3, NothingOfNothing DEF Honest, Running, Earned

LEMMA RebuildHonest == Honest /\ Rebuild => Honest'
BY NothingOfNothing
   DEF Rebuild, Opens, world, cache, Honest, Remembered, Running, Earned

\* A verdict found in the file stands for a model.
LEMMA TrustedHonest ==
    ASSUME NEW p \in todo, NEW built, Honest, Trusted(p, built)
    PROVE  Honest'
<1>1. /\ disk' = disk /\ maths' = maths /\ thin' = thin /\ verdicts' = verdicts
      /\ todo' = todo \ {p} /\ models' = With(models, p, verdicts[p])
      /\ p \in DOMAIN verdicts /\ stage = "gate" /\ stage' # "down"
  BY DEF Trusted, Turn, trust, world, cache
<1>2. \A q \in DOMAIN models' : Earned(q, models'[q], maths)
  BY <1>1 DEF With, Honest, Running
<1> QED BY <1>1, <1>2 DEF Honest, Remembered, Running, Earned

LEMMA PassedHonest ==
    ASSUME NEW p \in todo, NEW built, Honest, Passed(p, built)
    PROVE  Honest'
BY DEF Passed, Turn, world, cache, Honest, Remembered, Running, Earned

\* A variant put to the pool is admitted, or the pool is refused.
LEMMA GatedHonest ==
    ASSUME NEW p \in todo, NEW built \in {Offered[p], Unread[p], None}, NEW heard,
           Honest, Gated(p, built, heard)
    PROVE  Honest'
<1> DEFINE fitting == {n \in DOMAIN built : heard # {} /\ Fits(p, built[n], heard)}
           v == built[Min(fitting)]
<1>1. /\ disk' = disk /\ maths' = maths
      /\ todo' \subseteq Pool /\ stage = "gate" /\ stage' # "down"
  BY DEF Gated, Turn, world, Honest, Running
<1>2. CASE /\ fitting # {}
           /\ models' = With(models, p, v) /\ record(p, v)
           /\ thin' = IF heard # Size THEN thin \cup {<<p, v, maths>>} ELSE thin
  <2>1. fitting \in SUBSET Nat
    BY GateAssumption, NothingOfNothing DEF Honest, Running
  <2>2. Fits(p, v, heard)
    BY <1>2, <2>1, FirstIsOneOf
  <2>3. /\ Size \subseteq Agrees[<<p, v, maths>>] \/ <<p, v, maths>> \in thin'
        /\ thin \subseteq thin'
    BY <1>2, <2>2, AdmittedEarned
  <2>4. verdicts' = With(verdicts, p, v)
    BY <1>2 DEF record
  <2> HIDE DEF v, fitting
  <2>5. (\A q \in DOMAIN verdicts : Earned(q, verdicts[q], maths))'
    BY <1>1, <2>3, <2>4 DEF With, Honest, Running, Earned
  <2>6. (\A q \in DOMAIN models : Earned(q, models[q], maths))'
    BY <1>1, <1>2, <2>3 DEF With, Honest, Running, Earned
  <2> QED BY <1>1, <2>3, <2>5, <2>6 DEF Honest, Remembered, Running, Earned
<1>3. CASE refuse(p) /\ UNCHANGED <<models, thin>>
  BY <1>1, <1>3 DEF refuse, Without, Honest, Remembered, Running, Earned
<1> QED BY <1>2, <1>3 DEF Gated

\* In an outage the trusted are modelled and the others refused.
LEMMA OutageHonest == Honest /\ Outage => Honest'
<1> SUFFICES ASSUME Honest, Outage PROVE Honest'
  OBVIOUS
<1> DEFINE trusted == {p \in todo : trust(p, Offered[p])}
           asked == {p \in todo \ trusted : ~skip(p)}
<1>1. /\ disk' = disk /\ maths' = maths /\ thin' = thin
      /\ todo' = {} /\ stage' = "rescue"
      /\ models' = [p \in DOMAIN models \cup trusted |->
                       IF p \in trusted THEN verdicts[p] ELSE models[p]]
      /\ verdicts' = [p \in DOMAIN verdicts \ asked |-> verdicts[p]]
  BY DEF Outage, world
<1>2. trusted \subseteq DOMAIN verdicts
  BY DEF trust
<1> HIDE DEF trusted, asked
<1> QED BY <1>1, <1>2 DEF Honest, Remembered, Running, Earned

\* What the rate reader builds it has put to the pool as well.
LEMMA RescueHonest == Honest /\ Rescue => Honest'
<1> SUFFICES ASSUME Honest, Rescue PROVE Honest'
  OBVIOUS
<1>1. /\ disk' = disk /\ maths' = maths /\ verdicts' = verdicts
      /\ todo' = todo /\ stage' = "built"
  BY DEF Rescue, world
<1>2. PICK rated :
         /\ \A p \in rated : Fits(p, Rated, Quoted(p))
         /\ models' = [p \in DOMAIN models \cup rated |->
                          IF p \in rated THEN Rated ELSE models[p]]
         /\ thin' = thin \cup {<<p, Rated, maths>> :
                                  p \in {q \in rated : Quoted(q) # Size}}
  <2>1. PICK heard \in SUBSET rejected :
          LET rated == {p \in heard : Quoted(p) # {} /\ Fits(p, Rated, Quoted(p))}
          IN  /\ models' = [p \in DOMAIN models \cup rated |->
                               IF p \in rated THEN Rated ELSE models[p]]
              /\ thin' = thin \cup {<<p, Rated, maths>> :
                                       p \in {q \in rated : Quoted(q) # Size}}
    BY DEF Rescue
  <2> QED BY <2>1
<1>3. /\ thin \subseteq thin'
      /\ \A p \in rated : \/ Size \subseteq Agrees[<<p, Rated, maths>>]
                         \/ <<p, Rated, maths>> \in thin'
  BY <1>2 DEF Fits
<1>4. (\A q \in DOMAIN models : Earned(q, models[q], maths))'
  BY <1>1, <1>2, <1>3 DEF Honest, Running, Earned
<1> QED BY <1>1, <1>3, <1>4 DEF Honest, Remembered, Running, Earned

\* The file is written of the verdicts and the maths of the run.
LEMMA SaveHonest == Honest /\ save => Honest'
<1> SUFFICES ASSUME Honest, save PROVE Honest'
  OBVIOUS
<1>1. /\ maths' = maths /\ verdicts' = verdicts /\ thin' = thin
      /\ models' = models /\ todo' = todo /\ stage' = "serving"
  BY DEF save, Serves, build
<1>2. Running'
  BY <1>1 DEF Honest, Running, Earned
<1>3. CASE disk' = [maths |-> maths, verdicts |-> verdicts, unquotable |-> Kept]
  BY <1>1, <1>2, <1>3 DEF Honest, Remembered, Running, Earned
<1>4. CASE disk' = disk
  BY <1>1, <1>2, <1>4 DEF Honest, Remembered, Earned
<1> QED BY <1>3, <1>4 DEF save

LEMMA EndsHonest ==
    ASSUME Honest, Ends, disk' = disk \/ disk' = None
    PROVE  Honest'
BY NothingOfNothing DEF Ends, Honest, Remembered, Running, Earned

LEMMA ServingHonest == Honest /\ (Serve \/ Move) => Honest'
BY DEF Serve, Serves, Move, Changes, world, cache, build, Honest, Remembered, Running,
       Earned

\* The code is edited between runs, when nothing is gone by.
LEMMA EditHonest == Honest /\ Edit => Honest'
BY NothingOfNothing
   DEF Edit, Changes, cache, build, Honest, Remembered, Running, Earned

LEMMA NextHonest == Honest /\ [Next]_vars => Honest'
<1> SUFFICES ASSUME Honest, [Next]_vars PROVE Honest'
  OBVIOUS
<1>1. CASE UNCHANGED vars
  BY <1>1 DEF vars, world, cache, build, Honest, Remembered, Running, Earned
<1>2. ASSUME NEW p \in todo, NEW built \in {Offered[p], Unread[p], None},
             \/ Trusted(p, built) \/ Passed(p, built)
             \/ \E heard \in SUBSET Quoted(p) : Gated(p, built, heard)
      PROVE  Honest'
  BY <1>2, TrustedHonest, PassedHonest, GatedHonest
<1>3. CASE Exit \/ TornSave
  BY <1>3, EndsHonest DEF Exit, TornSave
<1> QED BY <1>1, <1>2, <1>3, StartHonest, RebuildHonest, OutageHonest, RescueHonest,
           SaveHonest, ServingHonest, EditHonest DEF Next

\* Whatever was remembered from earlier runs and whatever maths earned it, a pool is
\* computed only by a model that agrees with it under the maths of today, at every
\* size or at those that answered (stable_params.build_exact_pools, ExactCache.load).
THEOREM ModelsAgree == Spec => []ModelsReproduce
<1>1. Honest => ModelsReproduce
  BY DEF Honest, Running, Earned, ModelsReproduce
<1> QED BY InitHonest, NextHonest, <1>1, PTL DEF Spec

----------------------------------------------------------------------------
(* That what agrees is computed.                                           *)

\* No variant that a complete reading builds agrees with what the pool quotes, and
\* nor does the rate reader's.
NoneOffered(p, b, m) ==
    Quotes[<<p, b>>] = {} \/ \A v \in ToSet(Offered[p]) : ~(Quotes[<<p, b>>] \subseteq Agrees[<<p, v, m>>])
Hopeless(p, b, m) ==
    /\ NoneOffered(p, b, m)
    /\ Quotes[<<p, b>>] = {} \/ ~(Quotes[<<p, b>>] \subseteq Agrees[<<p, Rated, m>>])

\* A refusal on file was deserved under the maths of the file, or may have been the
\* endpoint's doing.
FiledJustly ==
    disk # None =>
        \A p \in DOMAIN disk.unquotable :
            \/ Hopeless(p, disk.unquotable[p], disk.maths)
            \/ <<p, disk.unquotable[p]>> \in misfiled

\* So was one a run goes by; once it has saved, also one of its own.
RecalledJustly ==
    \A p \in DOMAIN unquotable :
        \/ Hopeless(p, unquotable[p], maths)
        \/ <<p, unquotable[p]>> \in misfiled
        \/ saved /\ <<p, unquotable[p]>> \in unheard

Building == stage \in {"gate", "rescue"}

\* One it has learned was deserved, or not heard, or waits for the rate reader.
RefusedJustly ==
    \A p \in DOMAIN pending :
        \/ Hopeless(p, pending[p], maths)
        \/ <<p, pending[p]>> \in unheard
        \/ Building /\ p \in rejected /\ NoneOffered(p, balances[p], maths)

Waiting ==
    Building => \A p \in rejected :
        p \notin todo /\ p \in DOMAIN pending /\ pending[p] = balances[p]

\* A pool the build is past is modelled, or refused, or was when it came to it.
PastIsTreated ==
    Building /\ calm => \A p \in Pool \ todo : p \in DOMAIN models \/ p \in rejected \/ skip(p)

AtRest ==
    /\ stage \in {"down", "gate", "rescue", "built", "serving"}
    /\ stage = "down" => unquotable = None /\ pending = None /\ ~saved
    /\ stage = "rescue" => todo = {}

Complete ==
    /\ FiledJustly /\ RecalledJustly /\ RefusedJustly /\ Waiting /\ PastIsTreated /\ AtRest
    /\ WhatReproducesIsModelled

LEMMA InitComplete == Init => Complete
BY NothingOfNothing
   DEF Init, Complete, FiledJustly, RecalledJustly, RefusedJustly, Waiting, PastIsTreated,
       AtRest, Building, WhatReproducesIsModelled

LEMMA OpensComplete ==
    ASSUME Complete, Opens, UNCHANGED <<maths, balances, disk, saved, unheard, misfiled>>,
           \/ UNCHANGED <<unquotable, pending>> /\ stage = "serving"
           \/ stage = "down" /\ load
    PROVE  Complete'
<1>1. /\ stage' = "gate" /\ todo' = Pool /\ rejected' = {}
      /\ stage' \in {"gate", "rescue"} /\ stage' # "built"
  BY DEF Opens
<1>2. FiledJustly' /\ Waiting' /\ PastIsTreated' /\ AtRest' /\ WhatReproducesIsModelled'
  BY <1>1 DEF Complete, FiledJustly, Waiting, PastIsTreated, AtRest, Hopeless, NoneOffered,
              WhatReproducesIsModelled
<1>3. CASE UNCHANGED <<unquotable, pending>> /\ stage = "serving"
  BY <1>2, <1>3 DEF Complete, RecalledJustly, RefusedJustly, Building, Hopeless, NoneOffered
<1>4. CASE stage = "down" /\ load
  <2>1. pending' = None /\ unquotable' = IF Believed THEN disk.unquotable ELSE None
    BY <1>4 DEF load
  <2>2. RefusedJustly'
    BY <2>1, NothingOfNothing DEF RefusedJustly
  <2>3. RecalledJustly'
    BY <2>1, NothingOfNothing
       DEF RecalledJustly, Complete, FiledJustly, Believed, Hopeless, NoneOffered
  <2> QED
    BY <1>2, <2>2, <2>3 DEF Complete
<1> QED
  BY <1>3, <1>4

\* A pool that is trusted, or passed for what it was refused at, is refused no more and
\* no less than before.
LEMMA TurnComplete ==
    ASSUME Complete, NEW p \in todo, NEW built, Turn(p, built),
           UNCHANGED <<cache, rejected, unheard>>, DOMAIN models \subseteq DOMAIN models',
           calm' => calm /\ (p \in DOMAIN models' \/ skip(p))
    PROVE  Complete'
<1>1. /\ UNCHANGED <<maths, balances, disk, saved, misfiled, unquotable, pending>>
      /\ stage = "gate" /\ todo' = todo \ {p} /\ stage' = IF todo' = {} THEN "rescue" ELSE "gate"
  BY DEF Turn, world, cache
<1>2. Building /\ Building' /\ stage' # "built"
  BY <1>1 DEF Building
<1>3. FiledJustly' /\ RecalledJustly' /\ RefusedJustly'
  BY <1>1, <1>2 DEF Complete, FiledJustly, RecalledJustly, RefusedJustly, Hopeless, NoneOffered
<1>4. Waiting' /\ AtRest'
  BY <1>1, <1>2 DEF Complete, Waiting, AtRest
<1>5. PastIsTreated'
  <2> SUFFICES ASSUME calm', NEW q \in Pool \ todo'
               PROVE  q \in DOMAIN models' \/ q \in rejected' \/ skip(q)'
    BY DEF PastIsTreated
  <2>1. skip(q) => skip(q)'
    BY <1>1 DEF skip
  <2>2. CASE q = p
    BY <2>1, <2>2
  <2>3. CASE q # p
    BY <1>1, <1>2, <2>1, <2>3 DEF Complete, PastIsTreated
  <2> QED
    BY <2>2, <2>3
<1> QED
  BY <1>2, <1>3, <1>4, <1>5 DEF Complete, WhatReproducesIsModelled

LEMMA TrustedComplete ==
    ASSUME Complete, NEW p \in todo, NEW built, Trusted(p, built)
    PROVE  Complete'
<1>1. /\ Turn(p, built) /\ UNCHANGED <<cache, rejected, unheard>>
      /\ calm' => calm
      /\ p \in DOMAIN models' /\ DOMAIN models \subseteq DOMAIN models'
  BY DEF Trusted, Misses, With
<1>2. calm' => calm /\ (p \in DOMAIN models' \/ skip(p))
  BY <1>1
<1> QED
  BY <1>1, <1>2, TurnComplete

LEMMA PassedComplete ==
    ASSUME Complete, Honest, NEW p \in todo, NEW built, Passed(p, built)
    PROVE  Complete'
<1>1. /\ Turn(p, built) /\ UNCHANGED <<cache, models, rejected, unheard>>
      /\ calm' => calm /\ built = Offered[p]
      /\ built = None \/ skip(p)
  BY DEF Passed, Misses
<1>2. Offered[p] # None
  BY GateAssumption DEF None, Honest, Running
<1>3. DOMAIN models \subseteq DOMAIN models' /\ (calm' => calm /\ skip(p))
  BY <1>1, <1>2
<1> QED
  BY <1>1, <1>3, TurnComplete

LEMMA GatedComplete ==
    ASSUME Complete, Honest, NEW p \in todo, NEW built \in {Offered[p], Unread[p], None},
           NEW heard \in SUBSET Quoted(p), Gated(p, built, heard)
    PROVE  Complete'
<1> DEFINE fitting == {n \in DOMAIN built : heard # {} /\ Fits(p, built[n], heard)}
           v == built[Min(fitting)]
           lost == built # Offered[p] \/ heard # Quoted(p)
<1>1. /\ UNCHANGED <<maths, balances, disk, saved, misfiled>>
      /\ stage = "gate" /\ todo' = todo \ {p} /\ stage' = IF todo' = {} THEN "rescue" ELSE "gate"
      /\ calm' = (calm /\ ~lost) /\ ~skip(p)
  BY DEF Gated, Turn, world, Misses
<1>2. Building /\ Building' /\ stage' # "built" /\ stage # "built"
  BY <1>1 DEF Building
<1>3. FiledJustly'
  BY <1>1 DEF Complete, FiledJustly, Hopeless, NoneOffered
<1>4. AtRest'
  BY <1>1 DEF Complete, AtRest
<1>5. p \notin rejected
  BY <1>2 DEF Complete, Waiting
<1>6. p \in DOMAIN unquotable => unquotable[p] # balances[p]
  BY <1>1 DEF skip
<1>7. WhatReproducesIsModelled'
  BY <1>2 DEF WhatReproducesIsModelled
<1>8. CASE /\ models' = With(models, p, v) /\ record(p, v)
           /\ unheard' = unheard \ {AsItStands(p)} /\ rejected' = rejected
  <2>1. /\ unquotable' = Without(unquotable, p) /\ pending' = Without(pending, p)
        /\ DOMAIN models' = DOMAIN models \cup {p}
    BY <1>8 DEF record, With
  <2>2. ASSUME NEW q, q # p, NEW b
        PROVE  <<q, b>> \in unheard' <=> <<q, b>> \in unheard
    BY <1>8, <2>2 DEF AsItStands
  <2>3. ASSUME NEW q \in DOMAIN unquotable'
        PROVE  q \in DOMAIN unquotable /\ q # p /\ unquotable'[q] = unquotable[q]
    BY <2>1 DEF Without
  <2>4. ASSUME NEW q \in DOMAIN pending'
        PROVE  q \in DOMAIN pending /\ q # p /\ pending'[q] = pending[q]
    BY <2>1 DEF Without
  <2>5. RecalledJustly'
    BY <1>1, <2>2, <2>3 DEF Complete, RecalledJustly, Hopeless, NoneOffered
  <2>6. RefusedJustly'
    BY <1>1, <1>2, <1>8, <2>2, <2>4 DEF Complete, RefusedJustly, Hopeless, NoneOffered
  <2>7. Waiting'
    <3>1. ASSUME NEW q \in rejected
          PROVE  q \notin todo' /\ q \in DOMAIN pending' /\ pending'[q] = balances'[q]
      BY <1>1, <1>2, <1>5, <2>1 DEF Complete, Waiting, Without
    <3> QED
      BY <1>8, <3>1 DEF Waiting
  <2>8. PastIsTreated'
    <3> SUFFICES ASSUME calm', NEW q \in Pool \ todo', q # p
                 PROVE  q \in DOMAIN models' \/ q \in rejected' \/ skip(q)'
      BY <2>1 DEF PastIsTreated
    <3>1. skip(q) => skip(q)'
      BY <1>1, <2>1 DEF skip, Without
    <3> QED
      BY <1>1, <1>2, <1>8, <2>1, <3>1 DEF Complete, PastIsTreated
  <2> QED
    BY <1>3, <1>4, <1>7, <2>5, <2>6, <2>7, <2>8 DEF Complete
<1>9. CASE /\ fitting = {} /\ rejected' = rejected \cup {p} /\ refuse(p) /\ models' = models
           /\ unheard' = IF lost THEN unheard \cup {AsItStands(p)}
                         ELSE unheard \ {AsItStands(p)}
  <2>1. /\ unquotable' = unquotable /\ pending' = With(pending, p, balances[p])
    BY <1>9 DEF refuse
  <2>2. /\ p \in DOMAIN pending' /\ pending'[p] = balances[p]
        /\ \A q : q # p => /\ q \in DOMAIN pending' <=> q \in DOMAIN pending
                           /\ q \in DOMAIN pending => pending'[q] = pending[q]
    BY <2>1 DEF With
  <2>3. ASSUME NEW q, NEW b, <<q, b>> # AsItStands(p)
        PROVE  <<q, b>> \in unheard' <=> <<q, b>> \in unheard
    <3> HIDE DEF lost
    <3> QED BY <1>9, <2>3
  <2>4. AsItStands(p) \in unheard' \/ NoneOffered(p, balances[p], maths)
    <3>1. CASE lost
      <4> HIDE DEF lost
      <4> QED BY <1>9, <3>1
    <3>2. CASE ~lost
      <4>1. built = Offered[p] /\ heard = Quoted(p)
        BY <3>2
      <4>2. ASSUME NEW x \in ToSet(Offered[p]), Quoted(p) # {}
            PROVE  ~(Quoted(p) \subseteq Agrees[<<p, x, maths>>])
        BY <1>9, <4>1, <4>2 DEF ToSet, Fits
      <4> QED
        BY <4>2 DEF NoneOffered, Quoted
    <3> QED BY <3>1, <3>2
  <2>5. RecalledJustly'
    <3> SUFFICES ASSUME NEW q \in DOMAIN unquotable
                 PROVE  \/ Hopeless(q, unquotable[q], maths)
                        \/ <<q, unquotable[q]>> \in misfiled
                        \/ saved /\ <<q, unquotable[q]>> \in unheard'
      BY <1>1, <2>1 DEF RecalledJustly, Hopeless, NoneOffered
    <3>1. <<q, unquotable[q]>> # AsItStands(p)
      BY <1>6 DEF AsItStands
    <3> QED
      BY <2>3, <3>1 DEF Complete, RecalledJustly
  <2>6. RefusedJustly'
    <3> SUFFICES ASSUME NEW q \in DOMAIN pending'
                 PROVE  \/ Hopeless(q, pending'[q], maths)
                        \/ <<q, pending'[q]>> \in unheard'
                        \/ q \in rejected' /\ NoneOffered(q, balances[q], maths)
      BY <1>1, <1>2 DEF RefusedJustly, Hopeless, NoneOffered
    <3>1. CASE q = p
      BY <1>9, <2>2, <2>4, <3>1 DEF AsItStands
    <3>2. CASE q # p
      <4>1. <<q, pending[q]>> # AsItStands(p)
        BY <3>2 DEF AsItStands
      <4> QED
        BY <1>9, <2>2, <2>3, <3>2, <4>1 DEF Complete, RefusedJustly
    <3> QED BY <3>1, <3>2
  <2>7. Waiting'
    BY <1>1, <1>2, <1>9, <2>2 DEF Complete, Waiting
  <2>8. PastIsTreated'
    <3> SUFFICES ASSUME calm', NEW q \in Pool \ todo', q # p
                 PROVE  q \in DOMAIN models' \/ q \in rejected' \/ skip(q)'
      BY <1>9 DEF PastIsTreated
    <3>1. skip(q) => skip(q)'
      BY <1>1, <2>1, <2>2 DEF skip
    <3> QED
      BY <1>1, <1>2, <1>9, <3>1 DEF Complete, PastIsTreated
  <2> QED
    BY <1>3, <1>4, <1>7, <2>5, <2>6, <2>7, <2>8 DEF Complete
<1> QED
  BY <1>8, <1>9 DEF Gated

\* In an outage nothing is heard, and what is refused is known not to have been.
LEMMA OutageComplete == Complete /\ Outage => Complete'
<1> SUFFICES ASSUME Complete, Outage PROVE Complete'
  OBVIOUS
<1> DEFINE trusted == {p \in todo : trust(p, Offered[p])}
           asked == {p \in todo \ trusted : ~skip(p)}
<1>1. /\ UNCHANGED <<maths, balances, disk, saved, misfiled, unquotable>>
      /\ stage = "gate" /\ stage' = "rescue" /\ todo' = {} /\ ~calm'
      /\ pending' = [p \in DOMAIN pending \cup asked |->
                        IF p \in asked THEN balances[p] ELSE pending[p]]
      /\ rejected' = rejected \cup asked
      /\ unheard' = unheard \cup {AsItStands(p) : p \in asked}
      /\ asked \subseteq todo
  BY DEF Outage, world, Misses
<1> HIDE DEF trusted, asked
<1>2. /\ Building /\ Building' /\ unheard \subseteq unheard'
      /\ \A p \in asked : <<p, balances[p]>> \in unheard'
  BY <1>1 DEF Building, AsItStands
<1>3. FiledJustly' /\ AtRest' /\ PastIsTreated' /\ WhatReproducesIsModelled'
  BY <1>1 DEF Complete, FiledJustly, AtRest, PastIsTreated, WhatReproducesIsModelled,
              Hopeless, NoneOffered
<1>4. RecalledJustly'
  BY <1>1, <1>2 DEF Complete, RecalledJustly, Hopeless, NoneOffered
<1>5. RefusedJustly'
  <2> SUFFICES ASSUME NEW p \in DOMAIN pending'
               PROVE  \/ Hopeless(p, pending'[p], maths)
                      \/ <<p, pending'[p]>> \in unheard'
                      \/ p \in rejected' /\ NoneOffered(p, balances[p], maths)
    BY <1>1, <1>2 DEF RefusedJustly, Hopeless, NoneOffered
  <2>1. CASE p \in asked
    BY <1>1, <1>2, <2>1
  <2>2. CASE p \notin asked
    BY <1>1, <1>2, <2>2 DEF Complete, RefusedJustly
  <2> QED BY <2>1, <2>2
<1>6. Waiting'
  BY <1>1, <1>2 DEF Complete, Waiting
<1> QED
  BY <1>3, <1>4, <1>5, <1>6 DEF Complete

\* What the rate reader admits is refused no more, and what it puts to the pool and
\* does not admit is refused justly.
LEMMA RescueComplete == Complete /\ Rescue => Complete'
<1> SUFFICES ASSUME Complete, Rescue PROVE Complete'
  OBVIOUS
<1>1. /\ UNCHANGED <<maths, balances, disk, saved, misfiled, todo>>
      /\ stage = "rescue" /\ stage' = "built"
  BY DEF Rescue, world
<1>2. PICK heard \in SUBSET rejected :
         LET rated == {p \in heard : Quoted(p) # {} /\ Fits(p, Rated, Quoted(p))}
         IN  /\ Misses(heard # rejected)
             /\ models' = [p \in DOMAIN models \cup rated |->
                              IF p \in rated THEN Rated ELSE models[p]]
             /\ unquotable' = Readmitted(rated, unquotable)
             /\ pending' = Readmitted(rated, pending)
             /\ unheard' = (unheard \ {AsItStands(p) : p \in rated})
                              \cup {AsItStands(p) : p \in rejected \ heard}
  BY DEF Rescue
<1> DEFINE rated == {p \in heard : Quoted(p) # {} /\ Fits(p, Rated, Quoted(p))}
<1>3. /\ calm' => calm /\ heard = rejected
      /\ DOMAIN models' = DOMAIN models \cup rated
      /\ unquotable' = [p \in DOMAIN unquotable \ rated |-> unquotable[p]]
      /\ pending' = [p \in DOMAIN pending \ rated |-> pending[p]]
      /\ unheard' = (unheard \ {AsItStands(p) : p \in rated})
                       \cup {AsItStands(p) : p \in rejected \ heard}
  BY <1>2 DEF Misses, Readmitted
<1>4. ASSUME NEW p \in heard \ rated, NoneOffered(p, balances[p], maths)
      PROVE  Hopeless(p, balances[p], maths)
  BY <1>4 DEF Hopeless, Quoted, Fits
<1> HIDE DEF rated
<1>5. Building /\ ~Building' /\ todo = {}
  BY <1>1 DEF Building, Complete, AtRest
<1>6. /\ \A p, b : p \notin rated /\ <<p, b>> \in unheard => <<p, b>> \in unheard'
      /\ \A p \in rejected \ heard : <<p, balances[p]>> \in unheard'
  BY <1>3 DEF AsItStands
<1>7. FiledJustly' /\ AtRest' /\ PastIsTreated' /\ Waiting'
  BY <1>1, <1>5 DEF Complete, FiledJustly, AtRest, PastIsTreated, Waiting, Hopeless,
                    NoneOffered
<1>8. RecalledJustly'
  BY <1>1, <1>3, <1>6 DEF Complete, RecalledJustly, Hopeless, NoneOffered
<1>9. ASSUME NEW p \in DOMAIN pending'
      PROVE  /\ p \in DOMAIN pending /\ pending'[p] = pending[p]
             /\ Hopeless(p, pending[p], maths) \/ <<p, pending[p]>> \in unheard'
  <2>1. p \in DOMAIN pending /\ pending'[p] = pending[p] /\ p \notin rated
    BY <1>3
  <2>2. CASE p \in rejected /\ NoneOffered(p, balances[p], maths)
    <3>1. pending[p] = balances[p]
      BY <1>5, <2>2 DEF Complete, Waiting
    <3> QED
      BY <1>4, <1>6, <2>1, <2>2, <3>1
  <2>3. CASE Hopeless(p, pending[p], maths) \/ <<p, pending[p]>> \in unheard
    BY <1>6, <2>1, <2>3
  <2> QED
    BY <2>1, <2>2, <2>3 DEF Complete, RefusedJustly
<1>10. RefusedJustly'
  BY <1>1, <1>9 DEF RefusedJustly, Hopeless, NoneOffered
<1>11. ASSUME calm', NEW p \in Pool, p \notin DOMAIN models'
       PROVE  \/ Hopeless(p, balances[p], maths)
              \/ <<p, balances[p]>> \in unheard'
              \/ <<p, balances[p]>> \in misfiled /\ p \in DOMAIN unquotable'
  <2>1. p \notin rated /\ (p \in rejected \/ skip(p))
    BY <1>3, <1>5, <1>11 DEF Complete, PastIsTreated
  <2>2. CASE p \in rejected
    <3>1. p \in DOMAIN pending' /\ pending[p] = balances[p]
      BY <1>3, <1>5, <2>1, <2>2 DEF Complete, Waiting
    <3> QED
      BY <1>9, <3>1
  <2>3. CASE p \in DOMAIN unquotable /\ unquotable[p] = balances[p]
    <3>1. p \in DOMAIN unquotable' /\ unquotable'[p] = balances[p]
      BY <1>3, <2>1, <2>3
    <3> QED
      BY <1>1, <1>8, <3>1 DEF RecalledJustly, Hopeless, NoneOffered
  <2>4. CASE p \in DOMAIN pending /\ pending[p] = balances[p]
    <3>1. p \in DOMAIN pending'
      BY <1>3, <2>1, <2>4
    <3> QED
      BY <1>9, <2>4, <3>1
  <2> QED
    BY <2>1, <2>2, <2>3, <2>4 DEF skip
<1>12. WhatReproducesIsModelled'
  <2> SUFFICES ASSUME calm', NEW p \in Pool, p \notin DOMAIN models',
                      Quoted(p)' # {},
                      NEW v \in ToSet(Offered[p]) \cup {Rated}, Fits(p, v, Quoted(p))'
               PROVE  \/ AsItStands(p)' \in unheard'
                      \/ AsItStands(p)' \in misfiled' /\ p \in DOMAIN unquotable'
    BY DEF WhatReproducesIsModelled
  <2>1. Quotes[<<p, balances[p]>>] # {} /\ Quotes[<<p, balances[p]>>] \subseteq Agrees[<<p, v, maths>>]
    BY <1>1 DEF Quoted, Fits
  <2>2. ~Hopeless(p, balances[p], maths)
    BY <2>1 DEF Hopeless, NoneOffered
  <2> QED
    BY <1>1, <1>11, <2>2 DEF AsItStands
<1> QED
  BY <1>7, <1>8, <1>10, <1>12 DEF Complete

\* A run saves once; what it writes of pools it did not hear is known to be so.
LEMMA SaveComplete == Complete /\ save => Complete'
<1> SUFFICES ASSUME Complete, save PROVE Complete'
  OBVIOUS
<1>1. /\ UNCHANGED <<maths, balances, pending, rejected, todo, calm, unheard>>
      /\ stage = "built" /\ ~saved /\ stage' = "serving" /\ saved' = TRUE
      /\ unquotable' = Kept
  BY DEF save, Serves, build
<1>2. ~Building /\ ~Building'
  BY <1>1 DEF Building
<1>3. AtRest' /\ Waiting' /\ PastIsTreated' /\ WhatReproducesIsModelled'
  BY <1>1, <1>2 DEF AtRest, Waiting, PastIsTreated, WhatReproducesIsModelled
<1>4. RefusedJustly'
  BY <1>1, <1>2 DEF Complete, RefusedJustly, Hopeless, NoneOffered
<1>5. ASSUME NEW p \in DOMAIN Kept
      PROVE  \/ Hopeless(p, Kept[p], maths)
             \/ <<p, Kept[p]>> \in misfiled
             \/ ~MassRefusal /\ <<p, Kept[p]>> \in unheard
  <2>1. CASE p \in DOMAIN Keep
    <3>1. ~MassRefusal /\ p \in DOMAIN pending /\ Kept[p] = pending[p]
      BY <2>1, NothingOfNothing DEF Kept, Keep
    <3> QED
      BY <1>2, <3>1 DEF Complete, RefusedJustly
  <2>2. CASE p \notin DOMAIN Keep
    <3>1. p \in DOMAIN unquotable /\ Kept[p] = unquotable[p]
      BY <2>2 DEF Kept
    <3> QED
      BY <1>1, <3>1 DEF Complete, RecalledJustly
  <2> QED BY <2>1, <2>2
<1>6. CASE /\ disk' = [maths |-> maths, verdicts |-> verdicts, unquotable |-> Kept]
           /\ misfiled' = MisfiledNow
  <2>1. \A p \in DOMAIN Kept : Hopeless(p, Kept[p], maths) \/ <<p, Kept[p]>> \in misfiled'
    BY <1>5, <1>6 DEF MisfiledNow
  <2>2. FiledJustly' /\ RecalledJustly'
    BY <1>1, <1>6, <2>1 DEF FiledJustly, RecalledJustly, Hopeless, NoneOffered
  <2> QED
    BY <1>3, <1>4, <2>2 DEF Complete
<1>7. CASE misfiled' = misfiled /\ disk' = disk
  <2>1. FiledJustly' /\ RecalledJustly'
    BY <1>1, <1>5, <1>7 DEF Complete, FiledJustly, RecalledJustly, Hopeless, NoneOffered
  <2> QED
    BY <1>3, <1>4, <2>1 DEF Complete
<1> QED
  BY <1>6, <1>7 DEF save

LEMMA EndsComplete ==
    ASSUME Complete, Ends, (disk' = disk /\ misfiled' = misfiled) \/ disk' = None
    PROVE  Complete'
<1>1. /\ stage' = "down" /\ ~saved' /\ unquotable' = None /\ pending' = None
      /\ maths' = maths
  BY DEF Ends
<1>2. FiledJustly'
  BY DEF Complete, FiledJustly, Hopeless, NoneOffered
<1> QED
  BY <1>1, <1>2, NothingOfNothing
     DEF Complete, RecalledJustly, RefusedJustly, Waiting, PastIsTreated, AtRest, Building,
         WhatReproducesIsModelled

\* Serving, the block moves on and the gate is not at work; between runs the code is
\* edited, and the file says which maths refused what.
LEMMA BetweenComplete == Complete /\ (Serve \/ Move \/ Edit) => Complete'
<1> SUFFICES ASSUME Complete, Serve \/ Move \/ Edit PROVE Complete'
  OBVIOUS
<1>1. /\ UNCHANGED <<disk, unquotable, pending, saved, unheard, misfiled>>
      /\ stage \in {"down", "serving", "built"} /\ stage' \in {"down", "serving"}
      /\ stage' = "down" => stage = "down"
  BY DEF Serve, Serves, Move, Edit, Changes, world, cache
<1>2. ~Building /\ ~Building'
  BY <1>1 DEF Building
<1>3. stage = "down" \/ maths' = maths
  BY <1>1 DEF Serve, Serves, Move, Edit, world
<1>4. FiledJustly' /\ AtRest' /\ Waiting' /\ PastIsTreated' /\ WhatReproducesIsModelled'
  BY <1>1, <1>2 DEF Complete, FiledJustly, AtRest, Waiting, PastIsTreated,
                    WhatReproducesIsModelled, Hopeless, NoneOffered
<1>5. RecalledJustly' /\ RefusedJustly'
  BY <1>1, <1>2, <1>3, NothingOfNothing
     DEF Complete, AtRest, RecalledJustly, RefusedJustly, Hopeless, NoneOffered
<1> QED
  BY <1>4, <1>5 DEF Complete

LEMMA NextComplete == Honest /\ Complete /\ [Next]_vars => Complete'
<1> SUFFICES ASSUME Honest, Complete, [Next]_vars PROVE Complete'
  OBVIOUS
<1>1. CASE UNCHANGED vars
  BY <1>1 DEF vars, world, cache, build, Complete, FiledJustly, RecalledJustly, RefusedJustly,
              Waiting, PastIsTreated, AtRest, Building, Hopeless, NoneOffered, skip,
              WhatReproducesIsModelled, Quoted, Fits, AsItStands
<1>2. ASSUME NEW p \in todo, NEW built \in {Offered[p], Unread[p], None},
             \/ Trusted(p, built) \/ Passed(p, built)
             \/ \E heard \in SUBSET Quoted(p) : Gated(p, built, heard)
      PROVE  Complete'
  BY <1>2, TrustedComplete, PassedComplete, GatedComplete
<1>3. CASE Start
  BY <1>3, OpensComplete DEF Start, world
<1>4. CASE Rebuild
  BY <1>4, OpensComplete DEF Rebuild, world, cache
<1>5. CASE Exit \/ TornSave
  BY <1>5, EndsComplete DEF Exit, TornSave
<1> QED
  BY <1>1, <1>2, <1>3, <1>4, <1>5, OutageComplete, RescueComplete, SaveComplete,
     BetweenComplete DEF Next

\* A build that misses nothing models every pool that a variant or the rate reader
\* reproduces, whatever was refused before, in this run or another, at these balances
\* or others and under any maths, unless the refusal was of a pool that was not heard
\* (stable_params.build_exact_pools and its rescue, ExactCache.skip, refuse and save).
THEOREM AgreeingModelled == Spec => []WhatReproducesIsModelled
<1>1. Complete => WhatReproducesIsModelled
  BY DEF Complete
<1> QED
  BY InitHonest, NextHonest, InitComplete, NextComplete, <1>1, PTL DEF Spec

=============================================================================
