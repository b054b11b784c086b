-------------------------- MODULE Transport_proofs --------------------------
(* That a call is given its own answer, that the endpoint is not asked for   *)
(* more than it takes and that what is remembered of it was measured, for    *)
(* any number of calls, threads and runs, any endpoint and any order of its  *)
(* answers.                                                                 *)
EXTENDS Transport, FiniteSetTheorems, TLAPS

AllCalls == 1..Calls

\* A chunk is a stretch of the calls, and not an empty one.
Stretch == {c \in (0..Calls) \X (0..Calls) : c[1] < c[2]}
Span(c) == c[1] + 1..c[2]

\* The chunks of a list that call i is in.
In(list, i) == \E k \in DOMAIN list : i \in Span(list[k])

\* What there is to be told of a call: the answer to it, or why there is none, and
\* only the endpoint's own refusal of it is a refusal.
Words(i) ==
    {Pending, Absent, Entry(i), [of |-> i, is |-> "stalled"]}
      \cup {r \in {[of |-> i, is |-> how] : how \in {"failed", "refused"}} : i \in poison}

Typed ==
    /\ cap \in Nat \ {0} /\ batch_size \in Nat \ {0} /\ disk \in Nat
    /\ rung \in Nat \ {0}
    /\ queue \in Seq(Stretch) /\ todo \in [Workers -> Seq(Stretch)]
    /\ DOMAIN out = AllCalls

OwnWords == \A i \in AllCalls : out[i] \in Words(i)

\* A call of the sweep at hand that has been told nothing is in a chunk to come.
Covered ==
    sweep > 0 => \A i \in AllCalls :
        out[i] = Pending => In(queue, i) \/ \E w \in Workers : In(todo[w], i)

IInv == Typed /\ OwnWords /\ Covered /\ sweep \in Nat

----------------------------------------------------------------------------
(* Lists of chunks.                                                        *)

LEMMA FirstOrLater ==
    ASSUME NEW list \in Seq(Stretch), list # <<>>
    PROVE  /\ Head(list) \in Stretch /\ Tail(list) \in Seq(Stretch)
           /\ \A i : In(list, i) => i \in Span(Head(list)) \/ In(Tail(list), i)
<1>1. Head(list) = list[1] /\ Head(list) \in Stretch /\ Tail(list) \in Seq(Stretch)
  OBVIOUS
<1>2. \A k \in DOMAIN list : k # 1 => k - 1 \in DOMAIN Tail(list) /\ Tail(list)[k - 1] = list[k]
  OBVIOUS
<1> QED BY <1>1, <1>2 DEF In

LEMMA TwoAhead ==
    ASSUME NEW a \in Stretch, NEW b \in Stretch, NEW list \in Seq(Stretch)
    PROVE  /\ <<a, b>> \o list \in Seq(Stretch)
           /\ \A i : i \in Span(a) \/ i \in Span(b) \/ In(list, i) => In(<<a, b>> \o list, i)
<1> DEFINE both == <<a, b>> \o list
<1>1. both \in Seq(Stretch) /\ Len(both) = 2 + Len(list)
  OBVIOUS
<1>2. both[1] = a /\ both[2] = b
  OBVIOUS
<1>3. \A k \in DOMAIN list : k + 2 \in DOMAIN both /\ both[k + 2] = list[k]
  OBVIOUS
<1>4. 1 \in DOMAIN both /\ 2 \in DOMAIN both
  BY <1>1
<1> HIDE DEF both
<1> QED BY <1>1, <1>2, <1>3, <1>4 DEF In, both

LEMMA OneChunk ==
    ASSUME NEW c \in Stretch
    PROVE  <<c>> \in Seq(Stretch) /\ \A i : i \in Span(c) => In(<<c>>, i)
BY DEF In

LEMMA Midpoint ==
    ASSUME NEW a \in Nat, NEW b \in Nat, a + 2 <= b
    PROVE  (a + b) \div 2 \in Nat /\ a < (a + b) \div 2 /\ (a + b) \div 2 < b
OBVIOUS

\* The halves of a chunk of two calls or more are chunks, and it is in them whole.
LEMMA HalvesCover ==
    ASSUME NEW c \in Stretch, c[2] - c[1] # 1
    PROVE  LET mid == (c[1] + c[2]) \div 2
           IN  /\ <<c[1], mid>> \in Stretch /\ <<mid, c[2]>> \in Stretch
               /\ \A i \in Int : i \in Span(c) =>
                     i \in Span(<<c[1], mid>>) \/ i \in Span(<<mid, c[2]>>)
<1>1. /\ c[1] \in 0..Calls /\ c[2] \in 0..Calls /\ c[1] + 2 <= c[2]
      /\ c[1] \in Nat /\ c[2] \in Nat
  BY TransportAssumption DEF Stretch
<1> DEFINE mid == (c[1] + c[2]) \div 2
<1>2. mid \in Nat /\ c[1] < mid /\ mid < c[2]
  BY <1>1, Midpoint
<1> HIDE DEF mid
<1>3. <<c[1], mid>> \in Stretch /\ <<mid, c[2]>> \in Stretch
  BY <1>1, <1>2, TransportAssumption DEF Stretch
<1>4. \A i \in Int : i \in Span(c) => i \in Span(<<c[1], mid>>) \/ i \in Span(<<mid, c[2]>>)
  BY <1>1, <1>2 DEF Span
<1> QED BY <1>3, <1>4 DEF mid

\* The smaller of two numbers, the larger, and that it is one of them.
LEMMA OneOfTwo ==
    ASSUME NEW a \in Int, NEW b \in Int
    PROVE  /\ Max({a, b}) \in {a, b}
           /\ Min({a, b}) \in {a, b} /\ Min({a, b}) <= a /\ Min({a, b}) <= b
<1>1. \E n \in {a, b} : \A m \in {a, b} : n >= m
  OBVIOUS
<1>2. \E n \in {a, b} : \A m \in {a, b} : n <= m
  OBVIOUS
<1> QED BY <1>1, <1>2 DEF Max, Min

\* However they are cut, the chunks cover the calls.
LEMMA ChunksCover ==
    ASSUME NEW size \in Nat \ {0}
    PROVE  /\ Chunks(size) \in Seq(Stretch)
           /\ \A i \in AllCalls : In(Chunks(size), i)
<1> DEFINE count == (Calls + size - 1) \div size
           chunk(m) == <<(m - 1) * size, Min({m * size, Calls})>>
<1>1. Calls \in Nat /\ size \in Nat /\ size > 0
  BY TransportAssumption
<1>2. count \in Nat /\ size * count <= Calls + size - 1 /\ Calls + size - 1 < size * count + size
  BY <1>1
<1> HIDE DEF count
<1>3. ASSUME NEW m \in 1..count
      PROVE  chunk(m) \in Stretch
  <2>1. m * size <= count * size /\ m * size \in Nat /\ m * size > 0
    BY <1>1, <1>2
  <2>2. (m - 1) * size = m * size - size
    BY <1>1, <1>2
  <2>3. (m - 1) * size \in Nat
    BY <1>1, <1>2
  <2>4. (m - 1) * size < Calls
    BY <1>1, <1>2, <2>1, <2>2
  <2>5. (m - 1) * size < m * size
    BY <1>1, <2>1, <2>2
  <2> DEFINE a == (m - 1) * size
             b == m * size
  <2>6. a \in Nat /\ b \in Nat /\ a < Calls /\ a < b
    BY <2>1, <2>3, <2>4, <2>5
  <2> HIDE DEF a, b
  <2>7. Min({b, Calls}) \in {b, Calls} /\ Min({b, Calls}) <= Calls
    <3>1. b \in Int /\ Calls \in Int
      BY <1>1, <2>6
    <3> QED BY <3>1, OneOfTwo
  <2>8. <<a, Min({b, Calls})>> \in Stretch
    BY <1>1, <2>6, <2>7 DEF Stretch
  <2> QED BY <2>8 DEF a, b
<1>4. Chunks(size) = [m \in 1..count |-> chunk(m)]
  BY DEF Chunks, count
<1> HIDE DEF chunk
<1>5. Chunks(size) \in Seq(Stretch)
  BY <1>2, <1>3, <1>4
<1>6. ASSUME NEW i \in AllCalls
      PROVE  In(Chunks(size), i)
  <2> DEFINE q == (i - 1) \div size
  <2>1. i \in Nat /\ 1 <= i /\ i <= Calls
    BY <1>1 DEF AllCalls
  <2>2. q \in Nat /\ size * q <= i - 1 /\ i - 1 < size * q + size
    BY <1>1, <2>1
  <2> HIDE DEF q
  <2>3. size * q < size * count
    BY <1>1, <1>2, <2>1, <2>2
  <2>4. q < count
    BY <1>1, <1>2, <2>2, <2>3
  <2>5. q + 1 \in 1..count
    BY <1>2, <2>2, <2>4
  <2>6. q * size = size * q /\ (q + 1) * size = size * q + size
    BY <1>1, <2>2
  <2> DEFINE b == (q + 1) * size
             a == q * size
  <2>7. a \in Nat /\ b \in Nat /\ a < i /\ i <= b
    BY <1>1, <2>1, <2>2, <2>6
  <2> HIDE DEF a, b
  <2>8. Min({b, Calls}) \in {b, Calls}
    <3>1. b \in Int /\ Calls \in Int
      BY <1>1, <2>7
    <3> QED BY <3>1, OneOfTwo
  <2>9. i \in Span(<<a, Min({b, Calls})>>)
    BY <1>1, <2>1, <2>7, <2>8 DEF Span
  <2>10. (q + 1) - 1 = q
    BY <2>2
  <2>11. Chunks(size)[q + 1] = <<a, Min({b, Calls})>>
    BY <1>4, <2>5, <2>10 DEF a, b, chunk
  <2> QED BY <1>4, <2>5, <2>9, <2>11 DEF In
<1> QED BY <1>5, <1>6

----------------------------------------------------------------------------
(* Every step.                                                             *)

LEMMA InitIInv == Init => IInv
BY TransportAssumption DEF Init, IInv, Typed, OwnWords, Covered, AllCalls, Words, None

LEMMA SettleTyped ==
    ASSUME NEW size \in Nat \ {0}, Settle(size)
    PROVE  batch_size' \in Nat \ {0}
<1>1. BATCH_FLOOR \in Nat \ {0}
  BY TransportAssumption
<1>2. Max({size, BATCH_FLOOR}) \in {size, BATCH_FLOOR}
  BY <1>1, OneOfTwo
<1> QED BY <1>1, <1>2 DEF Settle

\* Before there is a sweep nothing of one changes.
LEMMA ProbeIInv ==
    ASSUME IInv, Remembered \/ Served \/ StepDown \/ OffTheLadder
    PROVE  IInv'
<1>1. UNCHANGED <<endpoint, sweep, queue, todo, out>>
  BY DEF Remembered, Served, StepDown, OffTheLadder
<1>2. rung' \in Nat \ {0}
  BY DEF Remembered, Served, StepDown, OffTheLadder, ladder, IInv, Typed
<1>3. \A k \in 1..Len(BATCH_LADDER) : BATCH_LADDER[k] \in Nat \ {0}
  BY TransportAssumption
<1>4. Last(BATCH_LADDER) \in Nat \ {0}
  <2>1. Len(BATCH_LADDER) \in 1..Len(BATCH_LADDER)
    BY TransportAssumption
  <2> QED BY <1>3, <2>1 DEF Last
<1>5. batch_size' \in Nat \ {0} /\ disk' \in Nat
  <2>1. CASE Remembered
    BY <2>1, SettleTyped DEF Remembered, IInv, Typed, None
  <2>2. CASE Served
    <3>1. BATCH_LADDER[rung] \in Nat \ {0}
      BY <1>3, <2>2 DEF Served, IInv, Typed
    <3> QED BY <2>2, <3>1, SettleTyped DEF Served, Kept, IInv, Typed
  <2>3. CASE StepDown
    BY <2>3 DEF StepDown, IInv, Typed
  <2>4. CASE OffTheLadder
    BY <1>4, <2>4, SettleTyped DEF OffTheLadder, IInv, Typed
  <2> QED BY <2>1, <2>2, <2>3, <2>4
<1> QED BY <1>1, <1>2, <1>5 DEF endpoint, IInv, Typed, OwnWords, Covered, In, Words

\* A sweep begins with every call in a chunk.
LEMMA BeginIInv ==
    ASSUME IInv, Begin
    PROVE  IInv'
<1>1. /\ UNCHANGED <<endpoint, ladder, disk, batch_size, todo>>
      /\ queue' = Chunks(batch_size)
      /\ out' = [i \in 1..Calls |-> Pending]
      /\ sweep' = sweep + 1
  BY DEF Begin
<1>2. queue' \in Seq(Stretch) /\ \A i \in AllCalls : In(queue', i)
  BY <1>1, ChunksCover DEF IInv, Typed
<1> QED BY <1>1, <1>2
        DEF endpoint, ladder, IInv, Typed, OwnWords, Covered, AllCalls, Words

LEMMA RestartIInv ==
    ASSUME IInv, Restart
    PROVE  IInv'
<1>1. UNCHANGED <<poison, disk, queue, todo>>
  BY DEF Restart
<1>2. CASE run < Runs
  <2>1. /\ cap' \in Nat \ {0} /\ rung' \in Nat \ {0} /\ batch_size' \in Nat \ {0}
        /\ sweep' = 0 /\ out' = [i \in 1..Calls |-> Pending]
    <3>1. DEFAULT_BATCH \in Nat \ {0} /\ \A c \in Caps : c \in Nat \ {0}
      BY TransportAssumption
    <3> QED BY <1>2, <3>1 DEF Restart
  <2> QED BY <1>1, <2>1 DEF IInv, Typed, OwnWords, Covered, AllCalls, Words
<1>3. CASE ~(run < Runs)
  <2>1. UNCHANGED <<cap, sweep, rung, batch_size, out>>
    BY <1>3 DEF Restart
  <2> QED BY <1>1, <2>1 DEF IInv, Typed, OwnWords, Covered, In, Words
<1> QED BY <1>2, <1>3

\* A chunk goes from the queue to a thread with nothing left.
LEMMA TakeIInv ==
    ASSUME IInv, NEW w \in Workers, Take(w)
    PROVE  IInv'
<1>1. /\ UNCHANGED <<endpoint, sweep, ladder, disk, batch_size, out>>
      /\ queue # <<>> /\ queue \in Seq(Stretch) /\ todo[w] = <<>>
      /\ queue' = Tail(queue)
      /\ todo' = [todo EXCEPT ![w] = <<Head(queue)>>]
      /\ todo \in [Workers -> Seq(Stretch)]
  BY DEF Take, IInv, Typed
<1>2. /\ queue' \in Seq(Stretch)
      /\ todo' \in [Workers -> Seq(Stretch)]
  BY <1>1, FirstOrLater, OneChunk
<1>3. \A i \in AllCalls : In(queue, i) => In(queue', i) \/ In(todo'[w], i)
  BY <1>1, FirstOrLater, OneChunk
<1>4. \A i \in AllCalls, v \in Workers : In(todo[v], i) => In(todo'[v], i)
  BY <1>1 DEF In
<1>5. Covered'
  BY <1>1, <1>3, <1>4 DEF IInv, Covered
<1> QED BY <1>1, <1>2, <1>5 DEF endpoint, ladder, IInv, Typed, OwnWords, Words

\* A thread that has posted its first chunk and told every call of it something
\* goes on to the next.
LEMMA ToldIInv ==
    ASSUME IInv, NEW w \in Workers, todo[w] # <<>>, Finish(w),
           UNCHANGED <<endpoint, sweep, rung, disk, batch_size, queue>>,
           DOMAIN out' = AllCalls,
           \A i \in AllCalls : IF i \in Members(w) THEN out'[i] \in Words(i) \ {Pending}
                              ELSE out'[i] = out[i]
    PROVE  IInv'
<1>1. /\ todo \in [Workers -> Seq(Stretch)] /\ todo[w] \in Seq(Stretch)
      /\ todo' = [todo EXCEPT ![w] = Tail(todo[w])]
  BY DEF Finish, IInv, Typed
<1>2. Tail(todo[w]) \in Seq(Stretch)
  BY <1>1, FirstOrLater
<1>3. \A i \in AllCalls : In(todo[w], i) => i \in Members(w) \/ In(todo'[w], i)
  BY <1>1, FirstOrLater DEF Members, Chunk, Span
<1>4. \A i \in AllCalls, v \in Workers : In(todo[v], i) => i \in Members(w) \/ In(todo'[v], i)
  BY <1>1, <1>3 DEF In
<1>5. Covered'
  BY <1>4 DEF IInv, Covered, In
<1>6. Typed'
  BY <1>1, <1>2 DEF endpoint, IInv, Typed
<1>7. OwnWords'
  BY DEF endpoint, IInv, OwnWords, Words
<1> QED BY <1>5, <1>6, <1>7 DEF IInv

\* What is paired with a call by its id is its own answer.
LEMMA PairedIsOwn ==
    ASSUME NEW there \in SUBSET AllCalls, NEW lo,
           NEW response \in SetToSeqs({Entry(i) : i \in there}), NEW i \in AllCalls
    PROVE  Paired(response, i, lo) \in {Entry(i), Absent}
<1>1. \A k \in DOMAIN response : \E j \in there : response[k] = Entry(j)
  BY DEF SetToSeqs
<1>2. \A k \in DOMAIN response : response[k].of = i => response[k] = Entry(i)
  BY <1>1 DEF Entry
<1> QED BY <1>2 DEF Paired

LEMMA AnsweredIInv ==
    ASSUME IInv, NEW w \in Workers, Answered(w)
    PROVE  IInv'
<1>1. /\ todo[w] # <<>> /\ Finish(w)
      /\ UNCHANGED <<endpoint, sweep, rung, disk, batch_size, queue>>
  BY DEF Answered, Posting, ladder
<1>2. Members(w) \subseteq AllCalls
  <2>1. Chunk(w) \in Stretch
    BY <1>1, FirstOrLater DEF Chunk, IInv, Typed
  <2>2. Chunk(w)[1] \in 0..Calls /\ Chunk(w)[2] \in 0..Calls
    BY <2>1 DEF Stretch
  <2> QED BY <2>2, TransportAssumption DEF Members, AllCalls
<1>3. PICK there \in SUBSET AllCalls :
         \E response \in SetToSeqs({Entry(i) : i \in there}) :
            out' = [i \in 1..Calls |->
                       IF i \in Members(w) THEN Paired(response, i, Chunk(w)[1]) ELSE out[i]]
  BY <1>2 DEF Answered
<1>4. \A i \in AllCalls : i \in Members(w) => out'[i] \in {Entry(i), Absent}
  BY <1>3, PairedIsOwn DEF AllCalls
<1>5. \A i \in AllCalls : {Entry(i), Absent} \subseteq Words(i) \ {Pending}
  BY DEF Words, Entry, Absent, Pending
<1> QED BY <1>1, <1>3, <1>4, <1>5, ToldIInv DEF AllCalls

\* What is said of a whole chunk, and is not an answer.
LEMMA ToldAll ==
    ASSUME IInv, NEW w \in Workers, NEW is \in {"stalled", "failed", "refused"},
           out' = Told(w, is),
           is \in {"failed", "refused"} => Members(w) \subseteq poison
    PROVE  /\ DOMAIN out' = AllCalls
           /\ \A i \in AllCalls : IF i \in Members(w) THEN out'[i] \in Words(i) \ {Pending}
                                ELSE out'[i] = out[i]
BY DEF Told, AllCalls, Words, Pending

LEMMA StallsIInv ==
    ASSUME IInv, NEW w \in Workers, Stalls(w)
    PROVE  IInv'
<1>1. /\ todo[w] # <<>>
      /\ UNCHANGED <<endpoint, sweep, rung, disk, batch_size, queue>>
  BY DEF Stalls, Posting, ladder
<1>2. CASE UNCHANGED <<todo, out>>
  BY <1>1, <1>2 DEF endpoint, IInv, Typed, OwnWords, Covered, In, Words
<1>3. CASE StallEnds(w)
  BY <1>1, <1>3, ToldAll, ToldIInv DEF StallEnds, GivesUp
<1> QED BY <1>2, <1>3 DEF Stalls

LEMMA RefusesIInv ==
    ASSUME IInv, NEW w \in Workers, Refuses(w)
    PROVE  IInv'
<1>1. /\ todo[w] # <<>> /\ todo[w] \in Seq(Stretch) /\ Refused(w)
      /\ UNCHANGED <<endpoint, sweep, rung, queue>>
  BY DEF Refuses, Posting, ladder, IInv, Typed
<1>2. Chunk(w) \in Stretch /\ Tail(todo[w]) \in Seq(Stretch)
  BY <1>1, FirstOrLater DEF Chunk
<1>3. Chunk(w)[1] \in Nat /\ Chunk(w)[2] \in Nat
  BY <1>2, TransportAssumption DEF Stretch
<1>4. CASE Alone(w)
  <2>1. Chunk(w)[2] = Chunk(w)[1] + 1
    BY <1>3, <1>4 DEF Alone, Size
  <2>2. Members(w) \cap poison # {}
    BY <1>1, <1>4 DEF Refused, Alone, IInv, Typed
  <2>3. Members(w) \subseteq poison
    BY <1>3, <2>1, <2>2 DEF Members
  <2> QED BY <1>1, <1>4, <2>3, ToldAll, ToldIInv DEF Refuses
<1>5. CASE ~Alone(w)
  <2>1. /\ \E limit \in {cap, None} : Learn(limit)
        /\ todo' = [todo EXCEPT ![w] = Halves(w) \o Tail(todo[w])]
        /\ out' = out
    BY <1>5 DEF Refuses
  <2>2. batch_size' \in Nat \ {0} /\ disk' \in Nat
    BY <2>1 DEF Learn, IInv, Typed, None
  <2>3. /\ Halves(w) \o Tail(todo[w]) \in Seq(Stretch)
        /\ \A i \in Int : i \in Span(Chunk(w)) \/ In(Tail(todo[w]), i)
                            => In(Halves(w) \o Tail(todo[w]), i)
    <3> DEFINE mid == (Chunk(w)[1] + Chunk(w)[2]) \div 2
               a == <<Chunk(w)[1], mid>>
               b == <<mid, Chunk(w)[2]>>
    <3>1. /\ a \in Stretch /\ b \in Stretch
          /\ \A i \in Int : i \in Span(Chunk(w)) => i \in Span(a) \/ i \in Span(b)
      BY <1>2, <1>5, HalvesCover DEF Alone, Size
    <3>2. Halves(w) = <<a, b>>
      BY DEF Halves
    <3> HIDE DEF a, b
    <3> QED BY <1>2, <3>1, <3>2, TwoAhead
  <2>4. \A i \in AllCalls, v \in Workers : In(todo[v], i) => In(todo'[v], i)
    <3>1. \A i \in AllCalls : In(todo[w], i) => In(todo'[w], i)
      BY <1>1, <2>1, <2>3, FirstOrLater DEF AllCalls, Chunk, IInv, Typed
    <3> QED BY <2>1, <3>1 DEF In, IInv, Typed
  <2>5. Typed'
    BY <1>1, <2>1, <2>2, <2>3 DEF endpoint, IInv, Typed
  <2>6. Covered'
    BY <1>1, <2>1, <2>4 DEF IInv, Covered, In
  <2>7. OwnWords'
    BY <1>1, <2>1 DEF endpoint, IInv, OwnWords, Words
  <2> QED BY <1>1, <2>5, <2>6, <2>7 DEF IInv
<1> QED BY <1>4, <1>5

LEMMA NextIInv == IInv /\ [Next]_vars => IInv'
<1> SUFFICES ASSUME IInv, [Next]_vars PROVE IInv'
  OBVIOUS
<1>1. CASE UNCHANGED vars
  BY <1>1 DEF vars, endpoint, ladder, IInv, Typed, OwnWords, Covered, In, Words
<1>2. CASE Main
  BY <1>2, ProbeIInv, BeginIInv, RestartIInv DEF Main
<1>3. ASSUME NEW w \in Workers, Step(w)
      PROVE  IInv'
  BY <1>3, TakeIInv, AnsweredIInv, StallsIInv, RefusesIInv DEF Step
<1> QED BY <1>1, <1>2, <1>3 DEF Next

\* A call is given its own answer or told why it has none, refused only for itself,
\* and a sweep that is over has told every call something, whatever the endpoint does
\* and however the threads run (_fetch_chunk, _post and their callers, rpc.py).
THEOREM EachItsOwn == Spec => []AnsweredForItself
<1>1. IInv => AnsweredForItself
  <2> SUFFICES ASSUME IInv PROVE AnsweredForItself
    OBVIOUS
  <2>1. ASSUME NEW i \in AllCalls, out[i] # Pending
        PROVE  /\ out[i].is \in {"value", "error"} => out[i] = Entry(i)
               /\ out[i].is \in {"failed", "refused"} => i \in poison
    <3>1. out[i] \in Words(i)
      BY DEF IInv, OwnWords
    <3> QED BY <2>1, <3>1 DEF Words, Pending, Absent, Entry
  <2>2. ASSUME Quiet, sweep > 0, NEW i \in AllCalls
        PROVE  out[i] # Pending
    <3>1. ~In(queue, i) /\ \A w \in Workers : ~In(todo[w], i)
      BY <2>2 DEF Quiet, In
    <3> QED BY <2>2, <3>1 DEF IInv, Covered
  <2> QED BY <2>1, <2>2 DEF AnsweredForItself, AllCalls
<1> QED BY InitIInv, NextIInv, <1>1, PTL DEF Spec

----------------------------------------------------------------------------
(* What the endpoint is asked for, and what is remembered of it.           *)

\* The ladder is climbed down while nothing is in flight.
Probing == phase = "probe" => Quiet /\ refused = {} /\ posts = 0

\* Every size tried and left was too large, unless there was a silence; and what is
\* remembered is the first that was not, or nothing.
Measuring ==
    /\ measured \in Nat
    /\ phase = "probe" /\ disk = None /\ ~stalled =>
         \A k \in DOMAIN BATCH_LADDER : k < rung => BATCH_LADDER[k] > cap
    /\ disk # None =>
         /\ disk <= measured
         /\ \A k \in DOMAIN BATCH_LADDER : BATCH_LADDER[k] <= measured => BATCH_LADDER[k] <= disk
    /\ phase # "probe" => disk <= batch_size
    /\ refused # {} => batch_size <= cap

\* What is in flight fits the endpoint.
Fits(c) == c[2] - c[1] <= cap
AllFit(list) == \A k \in DOMAIN list : Fits(list[k])
Fitting == AllFit(queue) /\ \A w \in Workers : AllFit(todo[w])

\* Only what was cut before the cap was named can meet it again.
MetOnce ==
    \/ refused \subseteq {sweep}
    \/ Fitting /\ \E s \in Nat : refused = {s}

\* A post is one of those its chunk has, as long as nothing is refused.
Tries ==
    /\ attempt \in [Workers -> 0..ATTEMPTS - 1]
    /\ \A w \in Workers : todo[w] = <<>> => attempt[w] = 0
Unrefused == batch_size <= cap /\ poison = {} /\ refused = {}
Left == UNION {{<<w, k>> : k \in attempt[w] + 1..ATTEMPTS} : w \in {v \in Workers : todo[v] # <<>>}}
Paced ==
    Unrefused =>
      /\ Fitting /\ \A w \in Workers : Len(todo[w]) <= 1
      /\ IsFiniteSet(Left)
      /\ posts + ATTEMPTS * Len(queue) + Cardinality(Left) <= ATTEMPTS * Len(Chunks(batch_size))

Sparing == Probing /\ Measuring /\ MetOnce /\ Tries /\ posts \in Nat /\ Paced

\* With nothing in flight and nothing posted, there is nothing to have posted too often.
LEMMA QuietPaced ==
    ASSUME Typed', Quiet', posts' = 0
    PROVE  Paced'
<1>1. queue' = <<>> /\ \A w \in Workers : todo'[w] = <<>>
  BY DEF Quiet
<1>2. Left' = {}
  BY <1>1 DEF Left
<1>3. IsFiniteSet(Left') /\ Cardinality(Left') = 0
  BY <1>2, FS_EmptySet
<1>4. Fitting'
  BY <1>1 DEF Fitting, AllFit
<1>5. Chunks(batch_size') \in Seq(Stretch)
  BY ChunksCover DEF Typed
<1>6. Len(Chunks(batch_size')) \in Nat /\ ATTEMPTS \in Nat
  BY <1>5, TransportAssumption
<1>7. ATTEMPTS * Len(Chunks(batch_size')) >= 0
  BY <1>6
<1>8. Len(queue') = 0 /\ \A w \in Workers : Len(todo'[w]) <= 1
  BY <1>1
<1> QED
  BY <1>3, <1>4, <1>6, <1>7, <1>8 DEF Paced

LEMMA LargerOf ==
    ASSUME NEW size \in Nat \ {0}, Settle(size)
    PROVE  phase' = "sweep" /\ size <= batch_size'
<1>1. BATCH_FLOOR \in Nat
  BY TransportAssumption
<1>2. \E n \in {size, BATCH_FLOOR} : \A m \in {size, BATCH_FLOOR} : n >= m
  BY <1>1
<1>3. Max({size, BATCH_FLOOR}) >= size
  BY <1>2 DEF Max
<1> QED
  BY <1>3 DEF Settle

LEMMA ProbeSparing ==
    ASSUME IInv, Sparing, Remembered \/ Served \/ StepDown \/ OffTheLadder
    PROVE  Sparing'
<1>1. /\ UNCHANGED <<cap, poison, sweep, queue, todo, attempt, posts, refused>>
      /\ phase = "probe" /\ Quiet /\ refused = {} /\ posts = 0
  BY DEF Remembered, Served, StepDown, OffTheLadder, endpoint, Sparing, Probing
<1>2. Quiet' /\ posts' = 0 /\ refused' = {} /\ posts' \in Nat
  BY <1>1 DEF Quiet
<1>3. Typed'
  BY ProbeIInv DEF IInv
<1>4. Probing' /\ MetOnce' /\ Tries' /\ Paced'
  BY <1>1, <1>2, <1>3, QuietPaced DEF Probing, MetOnce, Tries, Sparing
<1>5. Measuring'
  <2>0. /\ cap \in Nat \ {0} /\ disk \in Nat /\ rung \in Nat \ {0} /\ measured \in Nat
        /\ Len(BATCH_LADDER) \in Nat
        /\ \A k \in 1..Len(BATCH_LADDER) : BATCH_LADDER[k] \in Nat \ {0}
        /\ Len(BATCH_LADDER) # 0 /\ DOMAIN BATCH_LADDER = 1..Len(BATCH_LADDER)
        /\ \A j, k \in DOMAIN BATCH_LADDER : j < k => BATCH_LADDER[k] < BATCH_LADDER[j]
    BY TransportAssumption DEF IInv, Typed, Sparing, Measuring
  <2>1. CASE Remembered
    <3>1. phase' = "sweep" /\ disk <= batch_size' /\ UNCHANGED <<disk, measured>>
      BY <2>0, <2>1, LargerOf DEF Remembered, ladder, None
    <3> QED
      BY <1>2, <2>0, <3>1 DEF Measuring, Sparing
  <2>2. CASE Served
    <3> DEFINE size == BATCH_LADDER[rung]
    <3>0. /\ rung \in 1..Len(BATCH_LADDER) /\ size <= cap /\ Settle(size)
          /\ disk = None /\ disk' = IF stalled THEN disk ELSE size
          /\ measured' = IF disk' = None THEN measured ELSE cap
      BY <2>0, <2>2 DEF Served, Kept
    <3>1. /\ rung \in 1..Len(BATCH_LADDER) /\ size \in Nat \ {0} /\ size <= cap
          /\ phase' = "sweep" /\ size <= batch_size' /\ disk = None
          /\ disk' = IF stalled THEN None ELSE size
          /\ measured' = IF disk' = None THEN measured ELSE cap
      BY <2>0, <3>0, LargerOf
    <3>2. CASE stalled
      <4>0. batch_size' \in Nat
        BY <1>3 DEF Typed
      <4>1. disk' = None /\ measured' = measured /\ 0 <= batch_size'
        BY <3>1, <3>2, <4>0
      <4> QED
        BY <1>2, <2>0, <3>1, <4>1 DEF Measuring, None
    <3>3. CASE ~stalled
      <4>1. disk' = size /\ measured' = cap
        BY <3>1, <3>3 DEF None
      <4>2. ASSUME NEW k \in DOMAIN BATCH_LADDER, BATCH_LADDER[k] <= cap
            PROVE  BATCH_LADDER[k] <= size
        <5>1. ~(k < rung)
          BY <1>1, <2>0, <3>1, <3>3, <4>2 DEF Measuring, Sparing
        <5> QED
          BY <2>0, <3>1, <5>1
      <4> QED
        BY <1>2, <2>0, <3>1, <4>1, <4>2 DEF Measuring
    <3> QED BY <3>2, <3>3
  <2>3. CASE StepDown
    <3>1. /\ phase' = "probe" /\ UNCHANGED <<disk, measured, batch_size, cap>> /\ disk = None
          /\ rung' = rung + 1
          /\ (BATCH_LADDER[rung] > cap /\ stalled' = stalled) \/ stalled' = TRUE
      BY <1>1, <2>3 DEF StepDown
    <3>2. ASSUME ~stalled', NEW k \in DOMAIN BATCH_LADDER, k < rung + 1
          PROVE  BATCH_LADDER[k] > cap
      BY <1>1, <2>0, <3>1, <3>2 DEF Measuring, Sparing
    <3> QED
      BY <1>2, <2>0, <3>1, <3>2 DEF Measuring
  <2>4. CASE OffTheLadder
    <3>1. phase' = "sweep" /\ disk' = None /\ measured' = measured
      BY <2>4 DEF OffTheLadder, Settle, ladder
    <3>2. 0 <= batch_size'
      BY <1>3 DEF Typed
    <3> QED
      BY <1>2, <2>0, <3>1, <3>2 DEF Measuring, None
  <2> QED
    BY <2>1, <2>2, <2>3, <2>4
<1> QED
  BY <1>2, <1>4, <1>5 DEF Sparing

LEMMA RestartSparing ==
    ASSUME IInv, Sparing, Restart
    PROVE  Sparing'
<1>1. /\ UNCHANGED <<poison, disk, queue, todo, attempt, measured>> /\ Quiet
  BY DEF Restart, Idle
<1>2. Quiet' /\ Typed'
  BY <1>1, RestartIInv DEF Quiet, IInv
<1>3. CASE run < Runs
  <2>1. /\ phase' = "probe" /\ rung' = 1 /\ refused' = {} /\ posts' = 0
    BY <1>3 DEF Restart
  <2>2. DOMAIN BATCH_LADDER = 1..Len(BATCH_LADDER) /\ Len(BATCH_LADDER) \in Nat
    BY TransportAssumption
  <2>3. Measuring'
    BY <1>1, <2>1, <2>2 DEF Measuring, Sparing
  <2> QED
    BY <1>1, <1>2, <2>1, <2>3, QuietPaced DEF Sparing, Probing, MetOnce, Tries
<1>4. CASE ~(run < Runs)
  <2>1. /\ phase = "sweep" /\ phase' = "done"
        /\ UNCHANGED <<cap, sweep, rung, stalled, batch_size, refused, posts>>
    BY <1>4 DEF Restart
  <2>2. Measuring' /\ Probing' /\ MetOnce' /\ Tries'
    BY <1>1, <2>1 DEF Measuring, Probing, MetOnce, Tries, Fitting, AllFit, Fits, Sparing
  <2>3. Paced'
    BY <1>1, <2>1 DEF Paced, Unrefused, Fitting, AllFit, Fits, Left, Sparing
  <2> QED
    BY <2>1, <2>2, <2>3 DEF Sparing
<1> QED
  BY <1>3, <1>4

\* Chunks are cut no larger than the size they are cut by.
LEMMA ChunksFit ==
    ASSUME NEW size \in Nat \ {0}, NEW k \in DOMAIN Chunks(size)
    PROVE  Chunks(size)[k][2] - Chunks(size)[k][1] <= size
<1> DEFINE a == (k - 1) * size
           b == k * size
<1>1. Calls \in Nat /\ (Calls + size - 1) \div size \in Nat
  BY TransportAssumption
<1>2. k \in Nat /\ Chunks(size)[k] = <<a, Min({b, Calls})>>
  BY <1>1 DEF Chunks
<1>3. a \in Int /\ b \in Int /\ b = a + size
  BY <1>2
<1> HIDE DEF a, b
<1>4. Min({b, Calls}) \in {b, Calls} /\ Min({b, Calls}) <= b
  <2>1. b \in Int /\ Calls \in Int
    BY <1>1, <1>3
  <2> QED BY <2>1, OneOfTwo
<1> QED
  BY <1>1, <1>2, <1>3, <1>4

LEMMA BeginSparing ==
    ASSUME IInv, Sparing, Begin
    PROVE  Sparing'
<1>1. /\ UNCHANGED <<cap, poison, phase, rung, stalled, measured, disk, batch_size, todo,
                     attempt, refused>>
      /\ phase = "sweep" /\ sweep' = sweep + 1 /\ posts' = 0
      /\ queue' = Chunks(batch_size) /\ \A w \in Workers : todo[w] = <<>>
  BY DEF Begin, endpoint, ladder, Idle, Quiet
<1>2. Probing' /\ Measuring' /\ Tries' /\ posts' \in Nat
  BY <1>1 DEF Probing, Measuring, Tries, Sparing
<1>3. batch_size <= cap => Fitting'
  <2>1. /\ batch_size \in Nat \ {0} /\ cap \in Nat \ {0}
        /\ Chunks(batch_size) \in Seq(Stretch) /\ Calls \in Nat
    BY ChunksCover, TransportAssumption DEF IInv, Typed
  <2>2. ASSUME batch_size <= cap, NEW k \in DOMAIN Chunks(batch_size)
        PROVE  Chunks(batch_size)[k][2] - Chunks(batch_size)[k][1] <= cap
    <3>1. Chunks(batch_size)[k] \in (0..Calls) \X (0..Calls)
      BY <2>1, <2>2 DEF Stretch
    <3>2. Chunks(batch_size)[k][2] - Chunks(batch_size)[k][1] <= batch_size
      BY <2>1, <2>2, ChunksFit
    <3> QED
      BY <2>1, <2>2, <3>1, <3>2
  <2> QED
    BY <1>1, <2>2 DEF Fitting, AllFit, Fits
<1>4. MetOnce'
  <2>1. CASE refused = {}
    BY <1>1, <2>1 DEF MetOnce
  <2>2. CASE refused # {}
    <3>1. Fitting'
      BY <1>3, <2>2 DEF Sparing, Measuring
    <3>2. \E s \in Nat : refused = {s}
      BY <2>2 DEF Sparing, MetOnce, IInv
    <3> QED BY <1>1, <3>1, <3>2 DEF MetOnce
  <2> QED BY <2>1, <2>2
<1>5. Paced'
  <2>1. Left' = {}
    BY <1>1 DEF Left
  <2>2. IsFiniteSet(Left') /\ Cardinality(Left') = 0
    BY <2>1, FS_EmptySet
  <2>3. Len(Chunks(batch_size)) \in Nat /\ ATTEMPTS \in Nat
    BY ChunksCover, TransportAssumption DEF IInv, Typed
  <2>4. ATTEMPTS * Len(Chunks(batch_size)) \in Nat
    BY <2>3
  <2>5. \A w \in Workers : Len(todo'[w]) <= 1
    BY <1>1
  <2>6. Unrefused' => Fitting'
    BY <1>1, <1>3 DEF Unrefused
  <2> QED
    BY <1>1, <2>2, <2>4, <2>5, <2>6 DEF Paced
<1> QED
  BY <1>2, <1>4, <1>5 DEF Sparing

\* What a step of a thread leaves alone, whether it takes a chunk, finishes one or
\* halves it, and what then follows of what is remembered.
LEMMA WorkSparing ==
    ASSUME IInv, Sparing, NEW w \in Workers, queue # <<>> \/ todo[w] # <<>>,
           UNCHANGED <<cap, poison, phase, rung, stalled, disk, measured, batch_size,
                       sweep, refused>>,
           posts' \in {posts, posts + 1}
    PROVE  Probing' /\ Measuring' /\ posts' \in Nat
<1>1. phase # "probe"
  BY DEF Sparing, Probing, Quiet
<1> QED
  BY <1>1 DEF Sparing, Probing, Measuring

\* The posts a chunk has, and one of them less.
LEMMA Posts ==
    ASSUME NEW w, NEW n \in Nat
    PROVE  /\ IsFiniteSet({<<w, k>> : k \in 1..n})
           /\ Cardinality({<<w, k>> : k \in 1..n}) \in Nat
           /\ Cardinality({<<w, k>> : k \in 1..n}) <= n
<1> DEFINE S == {<<w, k>> : k \in 1..n}
           f == [k \in 1..n |-> <<w, k>>]
<1>1. IsFiniteSet(1..n) /\ Cardinality(1..n) = n
  BY FS_Interval
<1>2. f \in Surjection(1..n, S)
  BY DEF Surjection
<1>3. IsFiniteSet(S) /\ Cardinality(S) <= Cardinality(1..n)
  <2> HIDE DEF S, f
  <2> QED BY <1>1, <1>2, FS_Surjection
<1>4. Cardinality(S) \in Nat
  <2> HIDE DEF S
  <2> QED BY <1>3, FS_CardinalityType
<1> QED
  BY <1>1, <1>3, <1>4

LEMMA TakeSparing ==
    ASSUME IInv, Sparing, NEW w \in Workers, Take(w)
    PROVE  Sparing'
<1>1. /\ UNCHANGED <<cap, poison, phase, rung, stalled, disk, measured, batch_size,
                     sweep, refused, posts, attempt>>
      /\ queue # <<>> /\ todo[w] = <<>>
      /\ queue' = Tail(queue) /\ todo' = [todo EXCEPT ![w] = <<Head(queue)>>]
      /\ queue \in Seq(Stretch) /\ todo \in [Workers -> Seq(Stretch)]
  BY DEF Take, endpoint, ladder, IInv, Typed
<1>2. Probing' /\ Measuring' /\ posts' \in Nat
  BY <1>1, WorkSparing DEF Sparing
<1>3. Fitting => Fitting'
  <2>1. /\ Head(queue) = queue[1] /\ 1 \in DOMAIN queue
        /\ \A k \in DOMAIN Tail(queue) : k + 1 \in DOMAIN queue /\ Tail(queue)[k] = queue[k + 1]
    BY <1>1
  <2>2. ASSUME Fitting PROVE AllFit(queue)
    BY <2>2 DEF Fitting
  <2>3. ASSUME Fitting PROVE AllFit(queue)' /\ Head(queue)[2] - Head(queue)[1] <= cap
    BY <1>1, <2>1, <2>2, <2>3 DEF AllFit, Fits
  <2>4. ASSUME Fitting, NEW v \in Workers PROVE AllFit(todo[v])'
    <3>1. AllFit(todo[v])
      BY <2>4 DEF Fitting
    <3>2. CASE v = w
      <4>1. todo'[v] = <<Head(queue)>>
        BY <1>1, <3>2
      <4> QED
        BY <1>1, <2>3, <2>4, <4>1 DEF AllFit, Fits
    <3>3. CASE v # w
      BY <1>1, <3>1, <3>3 DEF AllFit, Fits
    <3> QED
      BY <3>2, <3>3
  <2> QED
    BY <2>3, <2>4 DEF Fitting
<1>4. MetOnce' /\ Tries'
  BY <1>1, <1>3 DEF MetOnce, Tries, Sparing
<1>5. Paced'
  <2> SUFFICES ASSUME Unrefused PROVE Paced'
    BY <1>1 DEF Paced, Unrefused
  <2> DEFINE New == {<<w, k>> : k \in 1..ATTEMPTS}
  <2>0. /\ Fitting /\ \A v \in Workers : Len(todo[v]) <= 1
        /\ IsFiniteSet(Left)
        /\ posts + ATTEMPTS * Len(queue) + Cardinality(Left)
             <= ATTEMPTS * Len(Chunks(batch_size))
    BY DEF Sparing, Paced
  <2>1. attempt[w] = 0
    BY <1>1 DEF Sparing, Tries
  <2>2. Left' = Left \cup New
    <3>1. {v \in Workers : todo'[v] # <<>>} = {v \in Workers : todo[v] # <<>>} \cup {w}
      BY <1>1
    <3>2. {<<w, k>> : k \in attempt[w] + 1..ATTEMPTS} = New
      BY <2>1
    <3> HIDE DEF New
    <3> QED BY <1>1, <3>1, <3>2 DEF Left
  <2>3. ATTEMPTS \in Nat
    BY TransportAssumption
  <2>4. IsFiniteSet(New) /\ Cardinality(New) \in Nat /\ Cardinality(New) <= ATTEMPTS
    BY <2>3, Posts
  <2> HIDE DEF New
  <2>5. /\ IsFiniteSet(Left') /\ Cardinality(Left') \in Nat /\ Cardinality(Left) \in Nat
        /\ Cardinality(Left') <= Cardinality(Left) + ATTEMPTS
    <3>1. IsFiniteSet(Left \cap New) /\ Cardinality(Left \cap New) \in Nat
      <4>1. Left \cap New \in SUBSET New
        OBVIOUS
      <4>2. IsFiniteSet(Left \cap New)
        BY <2>4, <4>1, FS_Subset
      <4> QED BY <4>2, FS_CardinalityType
    <3>2. /\ IsFiniteSet(Left \cup New)
          /\ Cardinality(Left \cup New)
               = Cardinality(Left) + Cardinality(New) - Cardinality(Left \cap New)
      BY <2>0, <2>4, FS_Union
    <3>3. Cardinality(Left) \in Nat /\ Cardinality(Left \cup New) \in Nat
      BY <2>0, <3>2, FS_CardinalityType
    <3> QED
      BY <2>2, <2>3, <2>4, <3>1, <3>2, <3>3
  <2>6. /\ Len(queue) \in Nat /\ Len(queue') = Len(queue) - 1
        /\ \A v \in Workers : Len(todo'[v]) <= 1
    BY <1>1, <2>0
  <2>7. ATTEMPTS * Len(queue') = ATTEMPTS * Len(queue) - ATTEMPTS /\ ATTEMPTS * Len(queue) \in Nat
    BY <2>3, <2>6
  <2>8. ATTEMPTS * Len(Chunks(batch_size)) \in Nat
    <3>1. Len(Chunks(batch_size)) \in Nat
      BY ChunksCover DEF IInv, Typed
    <3> QED BY <2>3, <3>1
  <2>9. posts' + ATTEMPTS * Len(queue') + Cardinality(Left') <= ATTEMPTS * Len(Chunks(batch_size'))
    <3> DEFINE n == ATTEMPTS * Len(Chunks(batch_size))
               q == ATTEMPTS * Len(queue)
    <3>1. posts \in Nat /\ n \in Nat /\ q \in Nat /\ posts + q + Cardinality(Left) <= n
      BY <2>0, <2>7, <2>8 DEF Sparing
    <3>2. n = ATTEMPTS * Len(Chunks(batch_size')) /\ ATTEMPTS * Len(queue') = q - ATTEMPTS
      BY <1>1, <2>7
    <3> HIDE DEF n, q
    <3> QED BY <1>1, <2>3, <2>5, <3>1, <3>2
  <2> QED
    BY <1>3, <2>0, <2>5, <2>6, <2>9 DEF Paced
<1> QED
  BY <1>2, <1>4, <1>5 DEF Sparing

\* A post is one of those that were left.
LEMMA OneLeftLess ==
    ASSUME Tries, NEW w \in Workers, todo[w] # <<>>, IsFiniteSet(Left),
           Left' \subseteq Left \ {<<w, attempt[w] + 1>>}
    PROVE  /\ IsFiniteSet(Left') /\ Cardinality(Left') \in Nat /\ Cardinality(Left) \in Nat
           /\ Cardinality(Left') <= Cardinality(Left) - 1
<1> DEFINE p == <<w, attempt[w] + 1>>
<1>1. attempt[w] + 1 \in attempt[w] + 1..ATTEMPTS
  BY TransportAssumption DEF Tries
<1>2. p \in Left
  BY <1>1 DEF Left
<1> HIDE DEF p
<1>3. /\ IsFiniteSet(Left \ {p}) /\ Cardinality(Left \ {p}) = Cardinality(Left) - 1
      /\ Cardinality(Left) \in Nat
  BY <1>2, FS_RemoveElement, FS_CardinalityType
<1>4. IsFiniteSet(Left') /\ Cardinality(Left') <= Cardinality(Left \ {p})
  <2>1. Left' \in SUBSET (Left \ {p})
    BY DEF p
  <2> QED BY <1>3, <2>1, FS_Subset
<1>5. Cardinality(Left') \in Nat
  BY <1>4, FS_CardinalityType
<1> QED
  BY <1>3, <1>4, <1>5

\* A post that leaves one less to make leaves the sweep within what it may post.
LEMMA PostPaced ==
    ASSUME IInv, Sparing, NEW w \in Workers, todo[w] # <<>>,
           UNCHANGED <<cap, poison, batch_size, refused, queue>>, posts' = posts + 1,
           Fitting => Fitting',
           \A v \in Workers : Len(todo[v]) <= 1 => Len(todo'[v]) <= 1,
           (\A v \in Workers : Len(todo[v]) <= 1) => Left' \subseteq Left \ {<<w, attempt[w] + 1>>}
    PROVE  Paced'
<1> SUFFICES ASSUME Unrefused PROVE Paced'
  BY DEF Paced, Unrefused
<1>1. /\ Fitting /\ \A v \in Workers : Len(todo[v]) <= 1
      /\ IsFiniteSet(Left)
      /\ posts + ATTEMPTS * Len(queue) + Cardinality(Left)
           <= ATTEMPTS * Len(Chunks(batch_size))
      /\ posts \in Nat /\ Tries
  BY DEF Sparing, Paced
<1>2. /\ IsFiniteSet(Left') /\ Cardinality(Left') \in Nat /\ Cardinality(Left) \in Nat
      /\ Cardinality(Left') <= Cardinality(Left) - 1
  BY <1>1, OneLeftLess
<1> DEFINE n == ATTEMPTS * Len(Chunks(batch_size))
           q == ATTEMPTS * Len(queue)
<1>3. n \in Nat /\ q \in Nat
  <2>1. Len(Chunks(batch_size)) \in Nat /\ Len(queue) \in Nat /\ ATTEMPTS \in Nat
    BY ChunksCover, TransportAssumption DEF IInv, Typed
  <2> QED BY <2>1
<1>4. posts + q + Cardinality(Left) <= n
  BY <1>1
<1>5. ATTEMPTS * Len(Chunks(batch_size')) = n /\ ATTEMPTS * Len(queue') = q
  OBVIOUS
<1> HIDE DEF n, q
<1>6. posts' + q + Cardinality(Left') <= n
  BY <1>1, <1>2, <1>3, <1>4
<1> QED
  BY <1>1, <1>2, <1>5, <1>6 DEF Paced

\* What is left of a list fits when the list does.
LEMMA RestFits ==
    ASSUME NEW list \in Seq(Stretch), list # <<>>, AllFit(list)
    PROVE  AllFit(Tail(list)) /\ Fits(Head(list))
<1>1. \A k \in DOMAIN Tail(list) : k + 1 \in DOMAIN list /\ Tail(list)[k] = list[k + 1]
  OBVIOUS
<1>2. Head(list) = list[1] /\ 1 \in DOMAIN list
  OBVIOUS
<1> QED
  BY <1>1, <1>2 DEF AllFit

\* A thread that is done with its first chunk.
LEMMA FinishSparing ==
    ASSUME IInv, Sparing, NEW w \in Workers, todo[w] # <<>>, Finish(w), posts' = posts + 1,
           UNCHANGED <<cap, poison, phase, rung, stalled, disk, measured, batch_size,
                       sweep, refused, queue>>
    PROVE  Sparing'
<1>1. /\ todo \in [Workers -> Seq(Stretch)] /\ todo' = [todo EXCEPT ![w] = Tail(todo[w])]
      /\ attempt \in [Workers -> 0..ATTEMPTS - 1] /\ attempt' = [attempt EXCEPT ![w] = 0]
      /\ ATTEMPTS \in Nat \ {0}
      /\ \A v \in Workers : todo[v] = <<>> => attempt[v] = 0
  BY TransportAssumption DEF Finish, IInv, Typed, Sparing, Tries
<1>2. Probing' /\ Measuring' /\ posts' \in Nat
  BY WorkSparing DEF Sparing
<1>3. Fitting => Fitting'
  <2>1. ASSUME Fitting, NEW v \in Workers PROVE AllFit(todo[v])'
    <3>1. AllFit(todo[v]) /\ todo[w] \in Seq(Stretch)
      BY <1>1, <2>1 DEF Fitting
    <3>2. CASE v = w
      <4>1. todo'[v] = Tail(todo[w]) /\ AllFit(Tail(todo[w]))
        BY <1>1, <3>1, <3>2, RestFits
      <4> QED
        BY <4>1 DEF AllFit, Fits
    <3>3. CASE v # w
      BY <1>1, <3>1, <3>3 DEF AllFit, Fits
    <3> QED
      BY <3>2, <3>3
  <2> QED
    BY <2>1 DEF Fitting, AllFit, Fits
<1>4. MetOnce'
  BY <1>3 DEF MetOnce, Sparing
<1>5. Tries'
  <2>1. attempt' \in [Workers -> 0..ATTEMPTS - 1]
    BY <1>1
  <2>2. ASSUME NEW v \in Workers, todo'[v] = <<>> PROVE attempt'[v] = 0
    BY <1>1, <2>2
  <2> QED
    BY <2>1, <2>2 DEF Tries
<1>6. \A v \in Workers : Len(todo[v]) <= 1 => Len(todo'[v]) <= 1
  <2>1. Len(Tail(todo[w])) = Len(todo[w]) - 1 /\ Len(todo[w]) \in Nat
    BY <1>1
  <2> QED
    BY <1>1, <2>1
<1>7. ASSUME \A v \in Workers : Len(todo[v]) <= 1
      PROVE  Left' \subseteq Left \ {<<w, attempt[w] + 1>>}
  <2>1. todo'[w] = <<>>
    <3>1. Len(todo[w]) = 1
      <4> DEFINE list == todo[w]
      <4>1. list \in Seq(Stretch) /\ list # <<>> /\ Len(list) <= 1
        <5>1. todo[w] \in Seq(Stretch)
          BY <1>1
        <5>2. Len(todo[w]) <= 1
          BY <1>7
        <5> QED BY <5>1, <5>2
      <4> HIDE DEF list
      <4>2. 1 \in DOMAIN list /\ DOMAIN list = 1..Len(list) /\ Len(list) \in Nat
        BY <4>1
      <4>3. Len(list) = 1
        BY <4>1, <4>2
      <4> QED BY <4>3 DEF list
    <3> QED BY <1>1, <3>1
  <2>2. \A v \in Workers : v # w => todo'[v] = todo[v] /\ attempt'[v] = attempt[v]
    BY <1>1
  <2> QED
    BY <2>1, <2>2 DEF Left
<1>8. Paced'
  BY <1>3, <1>6, <1>7, PostPaced
<1> QED
  BY <1>2, <1>4, <1>5, <1>8 DEF Sparing

LEMMA AnsweredSparing ==
    ASSUME IInv, Sparing, NEW w \in Workers, Answered(w)
    PROVE  Sparing'
<1>1. /\ todo[w] # <<>> /\ Finish(w) /\ posts' = posts + 1
      /\ UNCHANGED <<cap, poison, phase, rung, stalled, disk, measured, batch_size,
                     sweep, refused, queue>>
  BY DEF Answered, Posting, endpoint, ladder
<1> QED
  BY <1>1, FinishSparing

LEMMA StallsSparing ==
    ASSUME IInv, Sparing, NEW w \in Workers, Stalls(w)
    PROVE  Sparing'
<1>1. /\ todo[w] # <<>> /\ posts' = posts + 1
      /\ UNCHANGED <<cap, poison, phase, rung, stalled, disk, measured, batch_size,
                     sweep, refused, queue>>
  BY DEF Stalls, Posting, endpoint, ladder
<1>2. CASE ~(attempt[w] + 1 < ATTEMPTS)
  BY <1>1, <1>2, FinishSparing DEF Stalls, StallEnds, GivesUp
<1>3. CASE attempt[w] + 1 < ATTEMPTS
  <2>1. /\ attempt' = [attempt EXCEPT ![w] = attempt[w] + 1] /\ todo' = todo
        /\ attempt \in [Workers -> 0..ATTEMPTS - 1] /\ ATTEMPTS \in Nat \ {0}
        /\ \A v \in Workers : todo[v] = <<>> => attempt[v] = 0
    BY <1>3, TransportAssumption DEF Stalls, Sparing, Tries
  <2>2. Probing' /\ Measuring' /\ posts' \in Nat
    BY <1>1, WorkSparing DEF Sparing
  <2>3. Fitting => Fitting'
    BY <1>1, <2>1 DEF Fitting, AllFit, Fits
  <2>4. MetOnce'
    BY <1>1, <2>3 DEF MetOnce, Sparing
  <2>5. Tries'
    <3>1. attempt' \in [Workers -> 0..ATTEMPTS - 1]
      BY <1>3, <2>1
    <3> QED
      BY <1>1, <2>1, <3>1 DEF Tries
  <2>6. Left' \subseteq Left \ {<<w, attempt[w] + 1>>}
    <3>1. attempt[w] \in Nat /\ attempt'[w] = attempt[w] + 1
      BY <2>1
    <3>2. \A v \in Workers : v # w => attempt'[v] = attempt[v]
      BY <2>1
    <3>3. \A k : k \in attempt'[w] + 1..ATTEMPTS =>
             k \in attempt[w] + 1..ATTEMPTS /\ k # attempt[w] + 1
      BY <2>1, <3>1
    <3> QED
      BY <2>1, <3>2, <3>3 DEF Left
  <2>7. Paced'
    BY <1>1, <2>1, <2>3, <2>6, PostPaced
  <2> QED
    BY <2>2, <2>4, <2>5, <2>7 DEF Sparing
<1> QED
  BY <1>2, <1>3

\* The halves of a chunk that fits, ahead of a list that does.
LEMMA HalvesFit ==
    ASSUME IInv, NEW w \in Workers, todo[w] # <<>>, ~Alone(w), AllFit(todo[w])
    PROVE  AllFit(Halves(w) \o Tail(todo[w]))
<1> DEFINE c == Chunk(w)
           mid == (c[1] + c[2]) \div 2
           a == <<c[1], mid>>
           b == <<mid, c[2]>>
           rest == Tail(todo[w])
<1>1. c \in Stretch /\ Fits(c) /\ rest \in Seq(Stretch) /\ AllFit(rest)
  BY FirstOrLater, RestFits DEF Chunk, IInv, Typed
<1>2. /\ c[1] \in Nat /\ c[2] \in Nat /\ c[1] + 2 <= c[2] /\ cap \in Nat
      /\ c[2] - c[1] <= cap
  <2>1. c[1] \in Nat /\ c[2] \in Nat /\ c[1] < c[2] /\ c[2] - c[1] # 1
    BY <1>1, TransportAssumption DEF Stretch, Alone, Size
  <2> QED
    BY <1>1, <2>1 DEF Fits, IInv, Typed
<1>3. a \in Stretch /\ b \in Stretch
  BY <1>1, <1>2, HalvesCover
<1>4. mid \in Nat /\ c[1] < mid /\ mid < c[2]
  BY <1>2, Midpoint
<1>5. Fits(a) /\ Fits(b)
  <2> HIDE DEF mid
  <2> QED BY <1>2, <1>4 DEF Fits
<1>6. Halves(w) = <<a, b>>
  BY DEF Halves
<1> HIDE DEF a, b, rest
<1> DEFINE both == <<a, b>> \o rest
<1>7. both \in Seq(Stretch) /\ Len(both) = 2 + Len(rest) /\ Len(rest) \in Nat
  BY <1>1, <1>3
<1>8. both[1] = a /\ both[2] = b /\ \A k \in DOMAIN rest : both[k + 2] = rest[k]
  BY <1>1, <1>3
<1>9. ASSUME NEW k \in DOMAIN both PROVE Fits(both[k])
  <2>1. k \in 1..2 + Len(rest)
    BY <1>7
  <2>2. CASE k \in {1, 2}
    BY <1>5, <1>8, <2>2
  <2>3. CASE k \notin {1, 2}
    <3> DEFINE j == k - 2
    <3>1. j \in DOMAIN rest /\ k = j + 2
      BY <1>1, <1>7, <2>1, <2>3
    <3> HIDE DEF j
    <3> QED BY <1>1, <1>8, <3>1 DEF AllFit
  <2> QED
    BY <2>2, <2>3
<1> QED
  BY <1>6, <1>9 DEF AllFit, rest

LEMMA RefusesSparing ==
    ASSUME IInv, Sparing, NEW w \in Workers, Refuses(w)
    PROVE  Sparing'
<1>1. /\ todo[w] # <<>> /\ posts' = posts + 1 /\ Refused(w)
      /\ UNCHANGED <<cap, poison, phase, rung, stalled, measured, sweep, queue>>
  BY DEF Refuses, Posting, endpoint, ladder
<1>2. CASE Alone(w)
  BY <1>1, <1>2, FinishSparing DEF Refuses
<1>3. CASE ~Alone(w)
  <2> DEFINE limit == IF Size(w) > cap /\ says THEN cap ELSE None
  <2>1. /\ Learn(limit)
        /\ todo' = [todo EXCEPT ![w] = Halves(w) \o Tail(todo[w])]
        /\ attempt' = [attempt EXCEPT ![w] = 0]
        /\ refused' = IF limit = None THEN refused ELSE refused \cup {sweep}
    BY <1>3 DEF Refuses
  <2>2. /\ cap \in Nat \ {0} /\ batch_size \in Nat \ {0} /\ disk \in Nat /\ sweep \in Nat
        /\ limit \in {None, cap} /\ phase # "probe" /\ posts \in Nat
        /\ todo \in [Workers -> Seq(Stretch)] /\ todo[w] \in Seq(Stretch)
        /\ attempt \in [Workers -> 0..ATTEMPTS - 1] /\ ATTEMPTS \in Nat \ {0}
    BY <1>1, TransportAssumption DEF IInv, Typed, Sparing, Probing, Quiet, Tries
  <2>3. Probing' /\ posts' \in Nat
    BY <1>1, <2>2 DEF Probing
  <2>4. /\ batch_size' \in Nat /\ batch_size' <= batch_size
        /\ limit # None => batch_size' <= cap
        /\ disk' # None => disk' = disk /\ batch_size' = batch_size
        /\ limit = None => batch_size' = batch_size
    <3> HIDE DEF limit
    <3> QED BY <2>1, <2>2 DEF Learn, None
  <2>5. Measuring'
    <3>1. refused' # {} => batch_size' <= cap
      <4>1. CASE limit = None
        BY <2>1, <2>4, <4>1 DEF Sparing, Measuring
      <4>2. CASE limit # None
        BY <2>4, <4>2
      <4> QED BY <4>1, <4>2
    <3>2. disk' <= batch_size'
      <4>1. CASE disk' = None
        BY <2>4, <4>1 DEF None
      <4>2. CASE disk' # None
        BY <2>2, <2>4, <4>2 DEF Sparing, Measuring
      <4> QED BY <4>1, <4>2
    <3> QED
      BY <1>1, <2>2, <2>4, <3>1, <3>2 DEF Measuring, Sparing
  <2>6. Fitting => Fitting'
    <3>1. ASSUME Fitting, NEW v \in Workers PROVE AllFit(todo[v])'
      <4>1. AllFit(todo[v])
        BY <3>1 DEF Fitting
      <4>2. CASE v = w
        <5>1. todo'[v] = Halves(w) \o Tail(todo[w])
          BY <2>1, <2>2, <4>2
        <5>2. AllFit(Halves(w) \o Tail(todo[w]))
          BY <1>1, <1>3, <4>1, <4>2, HalvesFit
        <5> DEFINE h == Halves(w) \o Tail(todo[w])
        <5>3. todo'[v] = h /\ \A k \in DOMAIN h : h[k][2] - h[k][1] <= cap
          BY <5>1, <5>2 DEF AllFit, Fits
        <5> HIDE DEF h
        <5> QED
          BY <1>1, <5>3 DEF AllFit, Fits
      <4>3. CASE v # w
        BY <1>1, <2>1, <2>2, <4>1, <4>3 DEF AllFit, Fits
      <4> QED
        BY <4>2, <4>3
    <3> QED
      BY <1>1, <3>1 DEF Fitting, AllFit, Fits
  <2>7. Fitting => ~(Size(w) > cap)
    <3>1. ASSUME Fitting PROVE Size(w) <= cap
      BY <1>1, <2>2, <3>1, RestFits DEF Fitting, Fits, Size, Chunk
    <3>2. Size(w) \in Int
      <4>1. Chunk(w) \in Stretch
        BY <1>1, <2>2, FirstOrLater DEF Chunk
      <4> QED
        BY <4>1, TransportAssumption DEF Stretch, Size
    <3> QED
      BY <2>2, <3>1, <3>2
  <2>8. MetOnce'
    <3>1. CASE limit = None
      BY <1>1, <2>1, <2>6, <3>1 DEF MetOnce, Sparing
    <3>2. CASE limit # None
      <4>1. ~Fitting
        BY <2>7, <3>2
      <4> QED
        BY <1>1, <2>1, <3>2, <4>1 DEF MetOnce, Sparing
    <3> QED BY <3>1, <3>2
  <2>9. Tries'
    <3>1. attempt' \in [Workers -> 0..ATTEMPTS - 1]
      BY <2>1, <2>2
    <3>2. attempt'[w] = 0 /\ \A v \in Workers : v # w => attempt'[v] = attempt[v] /\ todo'[v] = todo[v]
      BY <2>1, <2>2
    <3> QED
      BY <3>1, <3>2 DEF Tries, Sparing
  <2>10. ~Unrefused'
    <3> SUFFICES ASSUME Unrefused' PROVE FALSE
      OBVIOUS
    <3>1. poison = {} /\ refused = {} /\ limit = None /\ batch_size' <= cap
      BY <1>1, <2>1 DEF Unrefused
    <3>2. Unrefused
      BY <2>4, <3>1 DEF Unrefused
    <3>3. Fitting
      BY <3>2 DEF Sparing, Paced
    <3> QED
      BY <1>1, <2>7, <3>1, <3>3 DEF Refused
  <2> QED
    BY <2>3, <2>5, <2>8, <2>9, <2>10 DEF Sparing, Paced
<1> QED
  BY <1>2, <1>3

LEMMA InitSparing == Init => Sparing
<1> SUFFICES ASSUME Init PROVE Sparing
  OBVIOUS
<1>1. Quiet /\ refused = {} /\ posts = 0 /\ disk = None /\ measured = None /\ rung = 1
  BY DEF Init, Quiet
<1>2. attempt \in [Workers -> 0..ATTEMPTS - 1]
  BY TransportAssumption DEF Init
<1>3. Measuring
  BY <1>1, TransportAssumption DEF Measuring, None, Init
<1>4. IInv
  BY InitIInv
<1>5. Left = {} /\ Fitting /\ \A w \in Workers : Len(todo[w]) <= 1
  BY <1>1 DEF Quiet, Left, Fitting, AllFit
<1>6. IsFiniteSet(Left) /\ Cardinality(Left) = 0
  BY <1>5, FS_EmptySet
<1>7. ATTEMPTS * Len(Chunks(batch_size)) \in Nat /\ ATTEMPTS * Len(queue) = 0
  <2>1. Len(Chunks(batch_size)) \in Nat /\ ATTEMPTS \in Nat /\ Len(queue) = 0
    BY <1>1, <1>4, ChunksCover, TransportAssumption DEF IInv, Typed, Quiet
  <2> QED BY <2>1
<1>8. Paced
  BY <1>1, <1>5, <1>6, <1>7 DEF Paced
<1> QED
  BY <1>1, <1>2, <1>3, <1>8 DEF Sparing, Probing, MetOnce, Tries, Init

LEMMA NextSparing == IInv /\ Sparing /\ [Next]_vars => Sparing'
<1> SUFFICES ASSUME IInv, Sparing, [Next]_vars PROVE Sparing'
  OBVIOUS
<1>1. CASE UNCHANGED vars
  <2>1. UNCHANGED <<cap, poison, sweep, phase, rung, stalled, measured, disk, batch_size,
                    queue, todo, attempt, posts, refused>>
    BY <1>1 DEF vars, endpoint, ladder
  <2>2. Probing' /\ Measuring' /\ Tries' /\ posts' \in Nat
    BY <2>1 DEF Sparing, Probing, Quiet, Measuring, Tries
  <2>3. (Fitting' <=> Fitting) /\ Left' = Left
    BY <2>1 DEF Fitting, AllFit, Fits, Left
  <2> QED
    BY <2>1, <2>2, <2>3 DEF Sparing, MetOnce, Paced, Unrefused
<1>2. CASE Main
  BY <1>2, ProbeSparing, BeginSparing, RestartSparing DEF Main
<1>3. ASSUME NEW w \in Workers, Step(w)
      PROVE  Sparing'
  BY <1>3, TakeSparing, AnsweredSparing, StallsSparing, RefusesSparing DEF Step
<1> QED
  BY <1>1, <1>2, <1>3 DEF Next

\* What is remembered between runs is what the ladder finds under the cap it was
\* measured on, and is forgotten once the endpoint names less, in any number of runs
\* against endpoints that change between them (probe_batch_limit and
\* _learn_batch_limit, rpc.py).
THEOREM WhatIsRemembered == Spec => []RememberedWasMeasured
<1>1. IInv /\ Sparing => RememberedWasMeasured
  <2> SUFFICES ASSUME IInv, Sparing, disk # None,
                      NEW s \in refused
               PROVE  disk <= cap
    BY DEF Sparing, Measuring, RememberedWasMeasured
  <2>1. disk <= batch_size /\ batch_size <= cap
    BY DEF Sparing, Measuring, Probing
  <2> QED
    BY <2>1 DEF IInv, Typed
<1> QED
  BY InitIInv, NextIInv, InitSparing, NextSparing, <1>1, PTL DEF Spec

\* However the threads run and whatever is lost, a sweep that fits the endpoint posts
\* a chunk ATTEMPTS times at most, and a cap the endpoint names is met in one sweep of
\* a run and no other (_post_inner, _fetch_chunk and _learn_batch_limit, rpc.py).
THEOREM Spared == Spec => []EndpointIsSpared
<1>1. IInv /\ Sparing => EndpointIsSpared
  <2> SUFFICES ASSUME IInv, Sparing PROVE EndpointIsSpared
    OBVIOUS
  <2>1. Unrefused => posts <= ATTEMPTS * Len(Chunks(batch_size))
    <3> DEFINE n == ATTEMPTS * Len(Chunks(batch_size))
               q == ATTEMPTS * Len(queue)
    <3>1. n \in Nat /\ q \in Nat /\ posts \in Nat
      <4>1. Len(Chunks(batch_size)) \in Nat /\ ATTEMPTS \in Nat /\ Len(queue) \in Nat
        BY ChunksCover, TransportAssumption DEF IInv, Typed
      <4> QED BY <4>1 DEF Sparing
    <3>2. ASSUME Unrefused PROVE Cardinality(Left) \in Nat /\ posts + q + Cardinality(Left) <= n
      BY <3>2, FS_CardinalityType DEF Sparing, Paced
    <3> HIDE DEF n, q
    <3>3. ASSUME Unrefused PROVE posts <= n
      BY <3>1, <3>2, <3>3
    <3> QED BY <3>3 DEF n
  <2>2. Cardinality(refused) <= 1
    <3>1. PICK s : refused \subseteq {s}
      BY DEF Sparing, MetOnce
    <3>2. IsFiniteSet({s}) /\ Cardinality({s}) = 1
      BY FS_Singleton
    <3>3. refused \in SUBSET {s}
      BY <3>1
    <3> QED
      BY <3>2, <3>3, FS_Subset
  <2> QED
    BY <2>1, <2>2 DEF EndpointIsSpared, Unrefused
<1> QED
  BY InitIInv, NextIInv, InitSparing, NextSparing, <1>1, PTL DEF Spec

=============================================================================
