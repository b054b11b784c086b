--------------------------- MODULE LocalEvm_proofs ---------------------------
(* What LocalEvm promises, for every set of accounts, slots and stages.     *)
EXTENDS LocalEvm, FiniteSetTheorems, TLAPS

\* Block hashes are not counted, and code out of the cache is put in with no
\* ether: both are left out by assumption, for with either the count says nothing.
Countable == IsFiniteSet(Item) /\ Blocks = {} /\ Cached \cap Funded = {}

\* A call comes to a slot through the account it is of.
ThroughItsHome ==
    \A calls \in Stages : \A c \in calls : \A m \in DOMAIN c :
        c[m] \in Slots => \E j \in 1..m - 1 : c[j] = Home[c[m]]

\* What is held is nothing or the truth, what was missed lasts until the fetch,
\* and a result that misled left a count behind.
Recorded ==
    /\ held \in [Item -> {"nothing", "truth"}]
    /\ unreadable \in Nat
    /\ pc \in {"rest", "run", "fetch"}
    /\ pc # "rest" => stage \in Stages
    /\ missed \subseteq Item
    /\ pc = "fetch" => missed # {}
    /\ misled => unreadable > 0

\* While a stage is run again, whatever it was fetched for and is still not held
\* was refused.
Answered ==
    /\ held \in [Item -> {"nothing", "zero", "truth"}]
    /\ missed \subseteq Item
    /\ asked_before \subseteq Item
    /\ pc = "run" => \A i \in asked_before : held[i] = "nothing" => i \in refused
    /\ pc = "fetch" => asked_before = missed
    /\ counted \subseteq refused

----------------------------------------------------------------------------
(* A run.                                                                  *)

\* A stage of known calls reads known items, and misses some of them.
LEMMA MissesAreItems ==
    ASSUME stage \in Stages
    PROVE  Touched \subseteq Item /\ Misses \subseteq Item
<1>1. \A c \in stage : \A m \in DOMAIN c : c[m] \in Item
  <2>1. stage \subseteq Seq(Item)
    BY ItemAssumption
  <2> QED BY <2>1
<1>2. \A c \in stage : Reads(c) \subseteq Item
  BY <1>1 DEF Reads
<1> QED BY <1>2 DEF Touched, Misses

\* A run that misses nothing was on the truth, if nothing is held that is not.
LEMMA NothingMissed ==
    ASSUME ThroughItsHome, stage \in Stages,
           held \in [Item -> {"nothing", "truth"}], Misses = {}
    PROVE  OnTheTruth
<1> SUFFICES ASSUME NEW i \in Touched, held[i] # "truth"
             PROVE  FALSE
  BY DEF OnTheTruth
<1>1. i \in Item /\ held[i] = "nothing"
  BY MissesAreItems
<1>2. i \in Slots /\ held[Home[i]] = "nothing"
  BY <1>1 DEF Misses
<1>3. PICK c \in stage : i \in Reads(c)
  BY DEF Touched
<1>4. PICK m \in DOMAIN c : i = c[m] /\ \A j \in 1..m - 1 : ~Ends(c[j])
  BY <1>3 DEF Reads
<1>5. PICK j \in 1..m - 1 : c[j] = Home[i]
  BY <1>2, <1>4 DEF ThroughItsHome
<1>6. Home[i] \in Accounts
  BY <1>2, ItemAssumption
<1>7. Ends(c[j])
  BY <1>2, <1>5, <1>6 DEF Ends
<1> QED BY <1>4, <1>7

\* What is missed is counted, and is more than nothing.
LEMMA SomethingCounted ==
    ASSUME Countable, NEW S \in SUBSET Item, S # {}
    PROVE  Cardinality(S \ Blocks) \in Nat \ {0}
<1>1. S \ Blocks = S
  BY DEF Countable
<1>2. IsFiniteSet(S)
  BY FS_Subset DEF Countable
<1> QED BY <1>1, <1>2, FS_EmptySet, FS_CardinalityType

----------------------------------------------------------------------------
(* CompleteMeansRead.                                                      *)

LEMMA RecordedInit == Init => Recorded
BY DEF Init, Recorded

\* A fetch puts in the truth or leaves nothing.
LEMMA InsertKeepsTruth ==
    ASSUME Countable, Recorded, NEW answered, Insert(answered)
    PROVE  held' \in [Item -> {"nothing", "truth"}]
<1>1. \A i \in Item : i \in Cached => Repaired(i) = "truth"
  BY DEF Countable, Repaired
<1>2. \A i \in Item : Landed(i, answered) \in {"nothing", "truth"}
  BY DEF Landed
<1> QED BY <1>1, <1>2 DEF Insert, Recorded

LEMMA RecordedStep ==
    ASSUME Countable, ThroughItsHome, Recorded, [Next]_vars
    PROVE  Recorded'
<1> USE DEF Recorded
<1>1. CASE \E calls \in Stages : Fill(calls)
  BY <1>1 DEF Fill
<1>2. CASE Run
  <2>1. missed' = Misses /\ Misses \subseteq Item /\ stage' = stage /\ held' = held
    BY <1>2, MissesAreItems DEF Run
  <2>2. CASE missed' = {} \/ NoProgress
    <3>1. HandBack(OnTheTruth)
      BY <1>2, <2>2 DEF Run
    <3>2. CASE missed' = {}
      <4>1. OnTheTruth
        BY <1>2, <2>1, <3>2, NothingMissed DEF Run
      <4>2. Short = {}
        BY <3>2 DEF Short
      <4>3. unreadable' = unreadable
        BY <3>1, <4>2, FS_EmptySet DEF HandBack
      <4> QED BY <2>1, <3>1, <3>2, <4>1, <4>3 DEF HandBack
    <3>3. CASE missed' # {}
      <4>1. Cardinality(Short) \in Nat \ {0}
        BY <2>1, <3>3, SomethingCounted DEF Short
      <4>2. unreadable' \in Nat /\ unreadable' > 0
        BY <3>1, <4>1 DEF HandBack
      <4> QED BY <2>1, <3>1, <4>2 DEF HandBack
    <3> QED BY <3>2, <3>3
  <2>3. CASE ~(missed' = {} \/ NoProgress)
    BY <1>2, <2>1, <2>3 DEF Run
  <2> QED BY <2>2, <2>3
<1>3. ASSUME NEW answered \in SUBSET (missed \ Cached), Fetch(answered)
      PROVE  Recorded'
  <2>1. held' \in [Item -> {"nothing", "truth"}] /\ missed' = missed /\ stage' = stage
    BY <1>3, InsertKeepsTruth DEF Fetch
  <2>2. CASE round' = FILL_ROUNDS
    <3>1. Cardinality(Short) \in Nat \ {0}
      BY <1>3, <2>1, SomethingCounted DEF Short, Fetch
    <3>2. HandBack(FALSE)
      BY <1>3, <2>2 DEF Fetch
    <3> QED BY <2>1, <3>1, <3>2 DEF HandBack
  <2>3. CASE round' # FILL_ROUNDS
    BY <1>3, <2>1, <2>3 DEF Fetch
  <2> QED BY <2>2, <2>3
<1>4. ASSUME NEW answered \in SUBSET (missed \ Cached), Raise(answered)
      PROVE  Recorded'
  <2>1. held' \in [Item -> {"nothing", "truth"}]
    BY <1>4, InsertKeepsTruth DEF Raise
  <2> QED BY <1>4, <2>1 DEF Raise, locals
<1>5. CASE UNCHANGED vars
  BY <1>5 DEF vars, locals
<1> QED BY <1>1, <1>2, <1>3, <1>4, <1>5 DEF Next

\* While stats.complete says so, no result was handed back that was run on
\* anything but what was really read (LocalEVM.fill): whatever was missed in the
\* end left a count, because a run that misses nothing meets only the truth.
THEOREM CompleteIsRead ==
    ASSUME Countable, ThroughItsHome
    PROVE  Spec => []CompleteMeansRead
<1>1. Recorded /\ [Next]_vars => Recorded'
  BY RecordedStep
<1>2. Recorded => CompleteMeansRead
  BY DEF Recorded, CompleteMeansRead
<1> QED BY RecordedInit, <1>1, <1>2, PTL DEF Spec

----------------------------------------------------------------------------
(* OnlyTheRefusedAreUnreadable.                                            *)

LEMMA AnsweredInit == Init => Answered
BY DEF Init, Answered

\* What was fetched for and is still not held was refused.
LEMMA InsertOrRefused ==
    ASSUME Answered, NEW answered \in SUBSET (missed \ Cached), Insert(answered)
    PROVE  /\ held' \in [Item -> {"nothing", "zero", "truth"}]
           /\ \A i \in missed : held'[i] = "nothing" => i \in refused'
           /\ refused \subseteq refused'
<1>1. \A i \in Item : Repaired(i) \in {"zero", "truth"}
  BY DEF Repaired
<1>2. \A i \in Item : /\ Landed(i, answered) \in {"nothing", "truth"}
                      /\ Landed(i, answered) = "nothing" => i \notin answered
  BY DEF Landed
<1> QED BY <1>1, <1>2 DEF Insert, Answered

LEMMA AnsweredStep ==
    ASSUME pc # "rest" => stage \in Stages, Answered, [Next]_vars, round' # FILL_ROUNDS
    PROVE  Answered'
<1> USE DEF Answered
<1>1. CASE \E calls \in Stages : Fill(calls)
  BY <1>1 DEF Fill
<1>2. CASE Run
  <2>1. /\ missed' = Misses /\ Misses \subseteq Item
        /\ held' = held /\ refused' = refused
        /\ \A i \in missed' : held[i] = "nothing"
    BY <1>2, MissesAreItems DEF Run, Misses
  <2>2. CASE missed' = {} \/ NoProgress
    <3>1. HandBack(OnTheTruth) /\ asked_before' = asked_before
      BY <1>2, <2>2 DEF Run
    <3>2. Short \subseteq refused
      BY <1>2, <2>1, <2>2 DEF Short, NoProgress, Run
    <3> QED BY <2>1, <3>1, <3>2 DEF HandBack
  <2>3. CASE ~(missed' = {} \/ NoProgress)
    BY <1>2, <2>1, <2>3 DEF Run
  <2> QED BY <2>2, <2>3
<1>3. ASSUME NEW answered \in SUBSET (missed \ Cached), Fetch(answered)
      PROVE  Answered'
  <2>1. Insert(answered)
    BY <1>3 DEF Fetch
  <2> QED BY <1>3, <2>1, InsertOrRefused DEF Fetch
<1>4. ASSUME NEW answered \in SUBSET (missed \ Cached), Raise(answered)
      PROVE  Answered'
  <2>1. Insert(answered)
    BY <1>4 DEF Raise
  <2> QED BY <1>4, <2>1, InsertOrRefused DEF Raise, locals
<1>5. CASE UNCHANGED vars
  BY <1>5 DEF vars, locals
<1> QED BY <1>1, <1>2, <1>3, <1>4, <1>5 DEF Next

\* Whatever is counted as unreadable was asked of the node and refused at least
\* once (LocalEVM.fill stops for want of progress), as long as no stage runs out
\* of rounds: the last round's fetch is not looked at.
THEOREM OnlyRefusedCounted ==
    Spec /\ [](round # FILL_ROUNDS) => []OnlyTheRefusedAreUnreadable
<1> DEFINE Staged == pc # "rest" => stage \in Stages
<1>1. Init => Staged
  BY DEF Init
<1>2. Staged /\ [Next]_vars => Staged'
  BY DEF Next, Fill, Run, Fetch, Raise, HandBack, vars, locals
<1>3. Staged /\ Answered /\ [Next]_vars /\ (round # FILL_ROUNDS)' => Answered'
  BY AnsweredStep
<1>4. Answered => OnlyTheRefusedAreUnreadable
  BY DEF Answered, OnlyTheRefusedAreUnreadable
<1> HIDE DEF Staged
<1> QED BY AnsweredInit, <1>1, <1>2, <1>3, <1>4, PTL DEF Spec

=============================================================================
