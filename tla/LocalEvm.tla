------------------------------ MODULE LocalEvm ------------------------------
(***************************************************************************)
(* chain/localevm.py over rust/evm/src/db.rs: calls run in a local EVM     *)
(* whose state is fetched as they turn out to need it.  What the EVM does  *)
(* not hold reads as zero and is recorded as a miss; `fill` runs a stage,  *)
(* fetches what it missed and runs it again, and what it cannot repair is  *)
(* counted in stats.unreadable, which has to stop a quote.                 *)
(*                                                                         *)
(* A stage is a set of calls, a call the sequence of items it reads.  An   *)
(* item is an account -- its code and its ether --, a storage slot or a    *)
(* block hash.                                                             *)
(***************************************************************************)
EXTENDS Integers, FiniteSets, Sequences

CONSTANTS
    Accounts, Slots, Blocks,    \* the items
    Home,       \* [Slots -> Accounts]
    Funded,     \* accounts that hold ether
    Cached,     \* accounts whose code is in the committed cache
    Fatal,      \* slots a call does not survive reading as zero
    Stages,     \* sets of calls that may be run
    FILL_ROUNDS,
    MaxFills    \* stages run in a behaviour, a bound of the model

Item == Accounts \cup Slots \cup Blocks

ASSUME ItemAssumption ==
    /\ Home \in [Slots -> Accounts]
    /\ Funded \cup Cached \subseteq Accounts /\ Fatal \subseteq Slots
    /\ \A stage \in Stages : stage \subseteq Seq(Item)
    /\ FILL_ROUNDS \in Nat \ {0}

VARIABLES
    held,       \* what the EVM has of an item: "nothing", the "truth" or a "zero"
    unreadable, \* stats.unreadable
    pc,         \* "rest", or within a fill "run" or "fetch"
    stage,      \* what is being run
    round,
    missed,     \* the items the last run missed
    asked_before,
    fills,      \* fills begun
    misled,     \* history: a result was handed back that was not run on the truth
    refused,    \* history: the items the node once did not answer for
    counted     \* history: the items counted in stats.unreadable

locals == <<stage, round, missed, asked_before, fills>>
vars == <<held, unreadable, pc, locals, misled, refused, counted>>

----------------------------------------------------------------------------
(* A run.                                                                  *)

\* A call ends at code that is not there, and at a zero it cannot stand.
Ends(i) == held[i] = "nothing" /\ i \in Accounts \cup Fatal

Reads(c) == {c[m] : m \in {m \in DOMAIN c : \A j \in 1..m - 1 : ~Ends(c[j])}}
Touched == UNION {Reads(c) : c \in stage}

\* A slot of an account that is not there is not one the EVM reports.
Misses ==
    {i \in Touched : held[i] = "nothing" /\ (i \in Slots => held[Home[i]] # "nothing")}

OnTheTruth == \A i \in Touched : held[i] = "truth"

----------------------------------------------------------------------------
(* fill.                                                                   *)

Init ==
    /\ held = [i \in Item |-> "nothing"]
    /\ unreadable = 0 /\ pc = "rest" /\ stage = {} /\ round = 0
    /\ missed = {} /\ asked_before = {} /\ fills = 0
    /\ misled = FALSE /\ refused = {} /\ counted = {}

Fill(calls) ==
    /\ pc = "rest" /\ fills < MaxFills
    /\ pc' = "run" /\ stage' = calls /\ round' = 0
    /\ missed' = {} /\ asked_before' = {} /\ fills' = fills + 1
    /\ UNCHANGED <<held, unreadable, misled, refused, counted>>

\* Slip: only the slots are counted.
ShortOfSlots == missed' \cap Slots

\* The result of the last run is handed back; what it missed is counted, block
\* hashes left out.
Short == missed' \ Blocks

HandBack(truth) ==
    /\ pc' = "rest"
    /\ misled' = (misled \/ ~truth)
    /\ unreadable' = unreadable + Cardinality(Short)
    /\ counted' = counted \cup Short

\* Slip: a second round of misses is one too many.
NoBetter == asked_before # {}

\* What was asked for last time is missed again, all of it and no more.
NoProgress == missed' = asked_before

Run ==
    /\ pc = "run"
    /\ missed' = Misses
    /\ IF missed' = {} \/ NoProgress
       THEN HandBack(OnTheTruth) /\ UNCHANGED asked_before
       ELSE /\ asked_before' = missed'
            /\ pc' = "fetch"
            /\ UNCHANGED <<misled, unreadable, counted>>
    /\ UNCHANGED <<held, stage, round, fills, refused>>

----------------------------------------------------------------------------
(* _fetch.                                                                 *)

\* Cached code is put in as it is, with no ether behind it.
Repaired(i) == IF i \in Funded THEN "zero" ELSE "truth"

\* An item of which any part did not come back is left as it was.
Landed(i, answered) == IF i \in answered THEN "truth" ELSE "nothing"

Insert(answered) ==
    /\ held' = [i \in Item |-> IF i \notin missed THEN held[i]
                               ELSE IF i \in Cached THEN Repaired(i)
                               ELSE Landed(i, answered)]
    /\ refused' = refused \cup ((missed \ Cached) \ answered)

\* Out of rounds, `fill` ends on the run it made before this fetch.
Fetch(answered) ==
    /\ pc = "fetch"
    /\ Insert(answered)
    /\ round' = round + 1
    /\ UNCHANGED <<stage, missed, asked_before, fills>>
    /\ IF round' = FILL_ROUNDS
       THEN HandBack(FALSE)
       ELSE pc' = "run" /\ UNCHANGED <<misled, unreadable, counted>>

\* A request that raises ends the fill, with what had already come in.
Raise(answered) ==
    /\ pc = "fetch"
    /\ Insert(answered)
    /\ pc' = "rest"
    /\ UNCHANGED <<locals, misled, unreadable, counted>>

Next ==
    \/ \E calls \in Stages : Fill(calls)
    \/ Run
    \/ \E answered \in SUBSET (missed \ Cached) : Fetch(answered) \/ Raise(answered)

Spec == Init /\ [][Next]_vars

----------------------------------------------------------------------------
(* What has to hold.                                                       *)

\* Stated at chain/localevm.py:73: while stats.complete says so, every result
\* handed back was run on state that was really read, and none on a zero.
CompleteMeansRead == unreadable = 0 => ~misled

\* Stated at chain/localevm.py:235: only a miss that survives having been
\* fetched is unreadable -- the loop stops for want of progress, so nothing is
\* counted that the node answered for when it was asked.
OnlyTheRefusedAreUnreadable == counted \subseteq refused

=============================================================================
