----------------------------- MODULE Transport -----------------------------
(* The JSON-RPC transport (dev/rpc.py): a list of calls is cut into chunks,  *)
(* threads post them side by side, a chunk the endpoint refuses is halved    *)
(* and posted again, and one it leaves unanswered is retried and then given  *)
(* up whole.  What the endpoint takes in one batch is measured once, kept on *)
(* disk between runs, and lowered when a refusal names a limit.              *)
(*                                                                           *)
(* An endpoint caps a batch (and may name the cap in the refusal), refuses a *)
(* batch for one call in it, answers in any order, leaves entries out, and   *)
(* goes quiet.  Sizes in bytes (MAX_BATCH_BYTES) are left out.               *)
EXTENDS Integers, Sequences, FiniteSets, FiniteSetsExt, SequencesExt

CONSTANTS
    Calls,         \* the calls are 1..Calls
    Poisons,       \* the sets of calls whose batch the endpoint may refuse
    Reverts,       \* calls whose own answer is an error
    DEFAULT_BATCH, \* what a transport cuts by until it knows better
    BATCH_FLOOR,   \* what a measured ceiling is raised to
    BATCH_LADDER,  \* the sizes tried against an endpoint, largest first
    Caps,          \* the caps an endpoint may have
    Workers,       \* the threads, max_streams of them
    ATTEMPTS,
    MaxFaults,     \* answers lost, a bound of the model
    Runs, Sweeps   \* runs of the program and sweeps in each, bounds of the model

None == 0  \* no ceiling remembered, no limit named
Pending == [of |-> None, is |-> "pending"]

ASSUME TransportAssumption ==
    /\ Reverts \subseteq 1..Calls /\ \A P \in Poisons : P \subseteq (1..Calls) \ Reverts
    /\ BATCH_LADDER \in Seq(Nat \ {0}) \ {<<>>}
    /\ \A j, k \in DOMAIN BATCH_LADDER : j < k => BATCH_LADDER[k] < BATCH_LADDER[j]
    /\ Calls \in Nat /\ {DEFAULT_BATCH, BATCH_FLOOR, ATTEMPTS} \subseteq Nat \ {0}
    /\ Caps \subseteq Nat \ {0}

VARIABLES
    cap, says,  \* the endpoint's cap, and whether its refusal names it
    poison,     \* the calls it refuses
    run, sweep,
    phase,      \* "probe" while the ceiling is measured, "sweep", "done"
    rung,       \* the size the ladder is at
    stalled,    \* the ladder met silence
    disk,       \* the remembered ceiling
    batch_size,
    queue,      \* chunks no thread has taken
    todo,       \* [Workers -> the chunks a thread has yet to post, halves first]
    attempt,    \* [Workers -> posts made of its first chunk]
    out,        \* [1..Calls -> what it was answered]
    faults,
    posts,      \* history: posts of this sweep
    refused,    \* history: the sweeps of this run refused for their size, the cap named
    measured    \* history: the cap the remembered ceiling was measured under

endpoint == <<cap, says, poison>>
ladder == <<rung, stalled, measured>>
vars == <<endpoint, run, sweep, phase, ladder, disk, batch_size, queue, todo, attempt, out,
          faults, posts, refused>>

----------------------------------------------------------------------------
(* probe_batch_limit: down the ladder until a size is answered in full.     *)

Settle(size) ==
    /\ batch_size' = Max({size, BATCH_FLOOR})
    /\ phase' = "sweep"

\* A remembered ceiling is taken as it is.
Remembered ==
    /\ phase = "probe" /\ disk # None
    /\ Settle(disk)
    /\ UNCHANGED <<endpoint, run, sweep, ladder, disk, queue, todo, attempt, out, faults, posts,
                   refused>>

\* Slip: a ceiling found past a silence is written down too.
KeepAnyway(size) == size

\* Silence is not a refusal: a ceiling found past it is not written down.
Kept(size) == IF stalled THEN disk ELSE size

Served ==
    /\ phase = "probe" /\ disk = None /\ rung <= Len(BATCH_LADDER)
    /\ BATCH_LADDER[rung] <= cap
    /\ Settle(BATCH_LADDER[rung])
    /\ disk' = Kept(BATCH_LADDER[rung])
    /\ measured' = IF disk' = None THEN measured ELSE cap
    /\ UNCHANGED <<endpoint, run, sweep, rung, stalled, queue, todo, attempt, out, faults, posts,
                   refused>>

StepDown ==
    /\ phase = "probe" /\ disk = None /\ rung <= Len(BATCH_LADDER)
    /\ \/ BATCH_LADDER[rung] > cap /\ UNCHANGED <<stalled, faults>>
       \/ faults < MaxFaults /\ faults' = faults + 1 /\ stalled' = TRUE
    /\ rung' = rung + 1
    /\ UNCHANGED <<endpoint, run, sweep, phase, disk, batch_size, queue, todo, attempt, out, posts,
                   refused, measured>>

\* Nothing on the ladder was answered: its last size is taken and not kept.
OffTheLadder ==
    /\ phase = "probe" /\ disk = None /\ rung > Len(BATCH_LADDER)
    /\ Settle(Last(BATCH_LADDER))
    /\ UNCHANGED <<endpoint, run, sweep, ladder, disk, queue, todo, attempt, out, faults, posts,
                   refused>>

----------------------------------------------------------------------------
(* fetch_multi and _fetch_chunk: a chunk is a range <<lo, hi>>, the calls    *)
(* lo + 1 .. hi.                                                            *)

Chunks(size) == [m \in 1..(Calls + size - 1) \div size |->
                    <<(m - 1) * size, Min({m * size, Calls})>>]

Quiet == queue = <<>> /\ \A w \in Workers : todo[w] = <<>>

\* Slip: a sweep is waited for until every call has an answer of its own.
AllAnswered ==
    Quiet /\ \A i \in 1..Calls : out[i].is \notin {"failed", "refused", "stalled", "absent"}

Idle == Quiet

\* The chunks are cut at the size known now, whatever is learned meanwhile.
Begin ==
    /\ phase = "sweep" /\ sweep < Sweeps /\ Idle
    /\ sweep' = sweep + 1
    /\ queue' = Chunks(batch_size)
    /\ out' = [i \in 1..Calls |-> Pending]
    /\ posts' = 0
    /\ UNCHANGED <<endpoint, run, phase, ladder, disk, batch_size, todo, attempt, faults, refused>>

Take(w) ==
    /\ queue # <<>> /\ todo[w] = <<>>
    /\ todo' = [todo EXCEPT ![w] = <<Head(queue)>>]
    /\ queue' = Tail(queue)
    /\ UNCHANGED <<endpoint, run, sweep, phase, ladder, disk, batch_size, attempt, out, faults,
                   posts, refused>>

Chunk(w) == Head(todo[w])
Members(w) == Chunk(w)[1] + 1..Chunk(w)[2]
Size(w) == Chunk(w)[2] - Chunk(w)[1]
Refused(w) == Size(w) > cap \/ Members(w) \cap poison # {}
Posting(w) == todo[w] # <<>> /\ posts' = posts + 1

\* What a call is answered is its own, tagged with the call it answers.
Entry(i) == [of |-> i, is |-> IF i \in Reverts THEN "error" ELSE "value"]
Absent == [of |-> None, is |-> "absent"]

\* Slip: answers are paired with calls in the order they come.
PairedInOrder(response, i, lo) ==
    IF i - lo \in DOMAIN response THEN response[i - lo] ELSE Absent

\* Answers are paired by id; one that is not there is "missing from batch".
Paired(response, i, lo) ==
    IF \E k \in DOMAIN response : response[k].of = i
    THEN response[CHOOSE k \in DOMAIN response : response[k].of = i] ELSE Absent

Finish(w) == /\ todo' = [todo EXCEPT ![w] = Tail(@)]
             /\ attempt' = [attempt EXCEPT ![w] = 0]

Answered(w) ==
    /\ Posting(w) /\ ~Refused(w)
    /\ \E there \in {Members(w)} \cup
                    IF faults < MaxFaults THEN {Members(w) \ {i} : i \in Members(w)} ELSE {} :
       \E response \in SetToSeqs({Entry(i) : i \in there}) :
          /\ out' = [i \in 1..Calls |->
                        IF i \in Members(w) THEN Paired(response, i, Chunk(w)[1]) ELSE out[i]]
          /\ faults' = faults + (IF there = Members(w) THEN 0 ELSE 1)
    /\ Finish(w)
    /\ UNCHANGED <<endpoint, run, sweep, phase, ladder, disk, batch_size, queue, refused>>

Told(w, is) == [i \in 1..Calls |->
                   IF i \in Members(w) THEN [of |-> i, is |-> is] ELSE out[i]]

Halves(w) == LET mid == (Chunk(w)[1] + Chunk(w)[2]) \div 2
             IN  <<<<Chunk(w)[1], mid>>, <<mid, Chunk(w)[2]>>>>

\* _post_inner: the attempts are spent, and the chunk is given up as one.
GivesUp(w) ==
    /\ out' = Told(w, "stalled")
    /\ Finish(w)

\* Slip: an unanswered chunk is halved like a refused one.
HalvedStall(w) ==
    IF Size(w) = 1 THEN GivesUp(w)
    ELSE /\ UNCHANGED out
         /\ todo' = [todo EXCEPT ![w] = Halves(w) \o Tail(@)]
         /\ attempt' = [attempt EXCEPT ![w] = 0]

StallEnds(w) == GivesUp(w)

Stalls(w) ==
    /\ Posting(w) /\ faults < MaxFaults /\ faults' = faults + 1
    /\ IF attempt[w] + 1 < ATTEMPTS
       THEN attempt' = [attempt EXCEPT ![w] = @ + 1] /\ UNCHANGED <<todo, out>>
       ELSE StallEnds(w)
    /\ UNCHANGED <<endpoint, run, sweep, phase, ladder, disk, batch_size, queue, refused>>

\* _learn_batch_limit: what was remembered is wrong once a lower limit is named.
Learn(limit) ==
    IF limit # None /\ limit < batch_size
    THEN batch_size' = limit /\ disk' = None
    ELSE UNCHANGED <<batch_size, disk>>

Alone(w) == Size(w) = 1

\* The refusal of a call alone is a status code ("transport failure") or an error
\* the endpoint words.
Refuses(w) ==
    /\ Posting(w) /\ Refused(w)
    /\ IF Alone(w)
       THEN /\ \E how \in {"failed", "refused"} : out' = Told(w, how)
            /\ Finish(w)
            /\ UNCHANGED <<batch_size, disk, refused>>
       ELSE LET limit == IF Size(w) > cap /\ says THEN cap ELSE None
            IN  /\ Learn(limit)
                /\ todo' = [todo EXCEPT ![w] = Halves(w) \o Tail(@)]
                /\ attempt' = [attempt EXCEPT ![w] = 0]
                /\ refused' = IF limit = None THEN refused ELSE refused \cup {sweep}
                /\ UNCHANGED out
    /\ UNCHANGED <<endpoint, run, sweep, phase, ladder, queue, faults>>

----------------------------------------------------------------------------
(* _answer: what a caller is told of an entry.                             *)

AnswerOf(entry) ==
    CASE entry.is = "value" -> "VALUE"
      [] entry.is \in {"absent", "failed"} -> "MISSING"
      [] OTHER -> "REVERTED"

\* Another run of the program, against an endpoint that may have another cap.
Restart ==
    /\ phase = "sweep" /\ sweep = Sweeps /\ Idle
    /\ IF run < Runs
       THEN /\ run' = run + 1 /\ phase' = "probe"
            /\ cap' \in Caps
            /\ sweep' = 0 /\ rung' = 1 /\ stalled' = FALSE
            /\ batch_size' = DEFAULT_BATCH
            /\ refused' = {} /\ posts' = 0
            /\ out' = [i \in 1..Calls |-> Pending]
       ELSE /\ phase' = "done"
            /\ UNCHANGED <<run, cap, sweep, rung, stalled, batch_size, refused, posts, out>>
    /\ UNCHANGED <<says, poison, disk, queue, todo, attempt, faults, measured>>

Init ==
    /\ cap \in Caps /\ says \in BOOLEAN /\ poison \in Poisons
    /\ run = 1 /\ sweep = 0 /\ phase = "probe"
    /\ rung = 1 /\ stalled = FALSE
    /\ disk = None /\ measured = None
    /\ batch_size = DEFAULT_BATCH
    /\ queue = <<>> /\ todo = [w \in Workers |-> <<>>] /\ attempt = [w \in Workers |-> 0]
    /\ out = [i \in 1..Calls |-> Pending]
    /\ faults = 0 /\ posts = 0 /\ refused = {}

Step(w) == Take(w) \/ Answered(w) \/ Stalls(w) \/ Refuses(w)
Main == Remembered \/ Served \/ StepDown \/ OffTheLadder \/ Begin \/ Restart
Next == Main \/ \E w \in Workers : Step(w)

\* A post returns or times out, and a thread that is there to run runs.
Spec == Init /\ [][Next]_vars /\ WF_vars(Main) /\ \A w \in Workers : WF_vars(Step(w))

----------------------------------------------------------------------------
\* Whatever the order of the answers, the halving and the threads, a call is
\* given its own answer ("silently mis-pair results", rpc.py:394), refused for
\* itself alone and never for the batch it was in ("one bad call must not drop its
\* 499 neighbours", rpc.py:435); and a sweep that is over has one for every call.
AnsweredForItself ==
    /\ \A i \in 1..Calls : out[i] # Pending =>
          /\ out[i].is \in {"value", "error"} => out[i] = Entry(i)
          /\ out[i].is \in {"failed", "refused"} => i \in poison
    /\ Quiet /\ sweep > 0 => \A i \in 1..Calls : out[i] # Pending

\* An endpoint is not asked for more than it takes.  Silence is not spread over
\* twice as many requests (rpc.py:420): of a sweep that fits the endpoint and is
\* refused nothing, no chunk is posted more than ATTEMPTS times.  And a limit it
\* names is met once, not rediscovered by halving on every sweep (rpc.py:429),
\* though chunks in flight may meet it together.
EndpointIsSpared ==
    /\ batch_size <= cap /\ poison = {} /\ refused = {} =>
          posts <= ATTEMPTS * Len(Chunks(batch_size))
    /\ Cardinality(refused) <= 1

\* What is remembered between runs is what the ladder finds of the endpoint it was
\* measured on, never what was left of it by "one bad minute" (rpc.py:474), and it
\* is forgotten as soon as the endpoint names less.
RememberedWasMeasured ==
    disk # None =>
        /\ disk <= measured
        /\ \A k \in DOMAIN BATCH_LADDER : BATCH_LADDER[k] <= measured => BATCH_LADDER[k] <= disk
        /\ \A s \in refused : disk <= cap

\* Stated at core/transport.py:25: an answer reads REVERTED when the call reverted,
\* and one the transport dropped, a timeout included, reads MISSING.
DroppedReadsMissing ==
    \A i \in 1..Calls : out[i] # Pending /\ out[i].is \in {"stalled", "absent"} =>
        AnswerOf(out[i]) = "MISSING"

\* Every sweep of every run ends, whatever the endpoint does.
EverySweepEnds == <>(phase = "done")
=============================================================================
