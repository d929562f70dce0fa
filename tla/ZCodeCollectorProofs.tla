------------------------ MODULE ZCodeCollectorProofs ------------------------
(***************************************************************************)
(* What the ZCode collector's list of tasks promises, for any sessions,    *)
(* any writes of ZCode, any log and any limits.  The log is folded with a  *)
(* recursive function, and so are its facts: NumberFacts has induction and *)
(* recursion up to a bound.                                                *)
(***************************************************************************)
EXTENDS ZCodeCollector, NumberFacts, SequenceTheorems

-----------------------------------------------------------------------------
(* The fold of the log.                                                    *)

\* Times of turns, what a log holds and what is known of a turn.
Moments == {Never} \cup Nat

Entry == [session : Sessions, event : Events, at : Nat]

Turn == [open : BOOLEAN, started : Moments, updated : Moments, task : BOOLEAN, tracked : Nat]

\* The step of TurnOf.
Stepped(s, entries, n, turn) ==
  IF entries[n].session = s THEN Applied(turn, entries[n]) ELSE turn

\* An entry leads from a turn to a turn.
LEMMA AppliedIsTurn == \A turn \in Turn, entry \in Entry : Applied(turn, entry) \in Turn
<1> SUFFICES ASSUME NEW turn \in Turn, NEW entry \in Entry PROVE Applied(turn, entry) \in Turn
  OBVIOUS
<1>1. /\ turn.tracked + 1 \in Nat /\ turn.tracked \in Nat
      /\ (turn.tracked > 0 => turn.tracked - 1 \in Nat)
  BY DEF Turn
<1>2. /\ entry.at \in Moments /\ turn.started \in Moments /\ turn.updated \in Moments
      /\ turn.open \in BOOLEAN /\ turn.task \in BOOLEAN
  BY DEF Turn, Entry, Moments
<1>3. StartOf(turn, entry.at) \in Moments
  BY <1>2 DEF StartOf
<1> HIDE DEF Moments
<1> DEFINE started == IF Working(turn) THEN turn.started ELSE entry.at
           more == IF turn.tracked < TrackLimit THEN turn.tracked + 1 ELSE turn.tracked
           fewer == IF turn.tracked > 0 THEN turn.tracked - 1 ELSE 0
<1>4. started \in Moments /\ more \in Nat /\ fewer \in Nat
  BY <1>1, <1>2
<1> HIDE DEF started, more, fewer
<1>5. \/ Applied(turn, entry) =
           [turn EXCEPT !.open = TRUE, !.started = StartOf(turn, entry.at), !.updated = entry.at]
      \/ Applied(turn, entry) = [turn EXCEPT !.open = FALSE, !.updated = entry.at]
      \/ Applied(turn, entry) =
           [turn EXCEPT !.task = TRUE, !.updated = entry.at, !.started = started]
      \/ Applied(turn, entry) = [turn EXCEPT !.task = FALSE, !.updated = entry.at]
      \/ Applied(turn, entry) =
           [turn EXCEPT !.tracked = more, !.started = StartOf(turn, entry.at), !.updated = entry.at]
      \/ Applied(turn, entry) = [turn EXCEPT !.tracked = fewer, !.updated = entry.at]
      \/ Applied(turn, entry) = [turn EXCEPT !.updated = entry.at]
      \/ Applied(turn, entry) = turn
  BY DEF Applied, started, more, fewer
<1> QED
  BY <1>2, <1>3, <1>4, <1>5 DEF Turn

\* A log leads through the turns after each of its entries to the last one.
LEMMA TurnOfEntries ==
  ASSUME NEW s, NEW entries \in Seq(Entry)
  PROVE  \E turn \in [0..Len(entries) -> Turn] :
           /\ turn[0] = NoTurn
           /\ \A n \in 1..Len(entries) : turn[n] = Stepped(s, entries, n, turn[n - 1])
           /\ TurnOf(s, entries) = turn[Len(entries)]
<1> DEFINE N == Len(entries)
           step == [n \in 1..N |-> [turn \in Turn |-> Stepped(s, entries, n, turn)]]
           Def(f) == f = [n \in 0..N |-> IF n = 0 THEN NoTurn
                           ELSE IF entries[n].session = s THEN Applied(f[n - 1], entries[n])
                           ELSE f[n - 1]]
           found == CHOOSE f : Def(f)
<1>1. N \in Nat /\ NoTurn \in Turn
  BY DEF NoTurn, Turn, Moments
<1>2. step \in [1..N -> [Turn -> Turn]]
  BY AppliedIsTurn DEF Stepped
<1>3. PICK g : Iterates(g, N, Turn, NoTurn, step)
  <2> HIDE DEF N, step
  <2> QED
    BY <1>1, <1>2, RecursionUpTo
<1>4. \A n \in 1..N : step[n][g[n - 1]] = Stepped(s, entries, n, g[n - 1])
  <2> SUFFICES ASSUME NEW n \in 1..N
               PROVE  step[n][g[n - 1]] = Stepped(s, entries, n, g[n - 1])
    OBVIOUS
  <2>1. g[n - 1] \in Turn
    BY <1>1, <1>3 DEF Iterates
  <2> QED
    BY <2>1
<1> HIDE DEF step
<1>5. Def(g)
  <2>1. \A n \in 0..N : g[n] = IF n = 0 THEN NoTurn
                           ELSE IF entries[n].session = s THEN Applied(g[n - 1], entries[n])
                           ELSE g[n - 1]
    BY <1>1, <1>3, <1>4 DEF Stepped, Iterates
  <2>2. g = [n \in 0..N |-> g[n]]
    BY <1>3 DEF Iterates
  <2> QED
    BY <2>1, <2>2
<1>6. Def(found)
  <2> HIDE DEF Def
  <2> QED
    BY <1>5
<1>7. TurnOf(s, entries) = found[N]
  BY DEF TurnOf
<1> HIDE DEF found
<1>8. \A n \in 0..N : found[n] = IF n = 0 THEN NoTurn
                           ELSE IF entries[n].session = s THEN Applied(found[n - 1], entries[n])
                           ELSE found[n - 1]
  BY <1>6
<1>9. \A n \in 1..N : found[n] = Stepped(s, entries, n, found[n - 1])
  BY <1>1, <1>8 DEF Stepped
<1>10. found[0] = NoTurn
  BY <1>1, <1>8
<1>11. found \in [0..N -> Turn]
  <2> DEFINE Holds == {n \in 0..N : found[n] \in Turn}
  <2>1. 0 \in Holds
    BY <1>1, <1>10
  <2>2. \A n \in 0..N : n \in Holds /\ n < N => n + 1 \in Holds
    <3> SUFFICES ASSUME NEW n \in 0..N, found[n] \in Turn, n < N PROVE n + 1 \in Holds
      OBVIOUS
    <3>1. n + 1 \in 1..N /\ n + 1 \in 0..N /\ (n + 1) - 1 = n
      BY <1>1
    <3>2. found[n + 1] = Stepped(s, entries, n + 1, found[n])
      BY <1>9, <3>1
    <3>3. entries[n + 1] \in Entry
      BY <3>1
    <3> QED
      BY <3>1, <3>2, <3>3, AppliedIsTurn DEF Stepped
  <2>3. 0..N \subseteq Holds
    <3> HIDE DEF Holds, N
    <3> QED
      BY <1>1, <2>1, <2>2, InductionUpTo
  <2>4. found = [n \in 0..N |-> found[n]]
    BY <1>6
  <2> QED
    BY <2>3, <2>4
<1> QED
  BY <1>1, <1>7, <1>9, <1>10, <1>11

\* Flattening joins the sequences one after the other.
LEMMA FlattenJoins ==
  ASSUME NEW D, NEW seqs \in Seq(Seq(D))
  PROVE  \E flat :
           /\ flat \in [0..Len(seqs) -> Seq(D)]
           /\ flat[0] = <<>>
           /\ \A n \in 1..Len(seqs) : flat[n] = flat[n - 1] \o seqs[n]
           /\ FlattenSeq(seqs) = flat[Len(seqs)]
<1> DEFINE N == Len(seqs)
           Joins(flat) == /\ flat \in [0..N -> Seq(D)]
                          /\ flat[0] = <<>>
                          /\ \A n \in 1..N : flat[n] = flat[n - 1] \o seqs[n]
           Def(f) == f = [i \in 1..N |-> IF i = 1 THEN seqs[i] ELSE f[i - 1] \o seqs[i]]
           found == CHOOSE f : Def(f)
           step == [n \in 1..N |-> [sofar \in Seq(D) |-> sofar \o seqs[n]]]
           flat0 == [n \in 0..N |-> IF n = 0 THEN <<>> ELSE found[n]]
<1>1. N \in Nat /\ <<>> \in Seq(D) /\ \A n \in 1..N : seqs[n] \in Seq(D)
  OBVIOUS
<1>2. N # 0 => FlattenSeq(seqs) = found[N]
  BY DEF FlattenSeq
<1>3. N = 0 => FlattenSeq(seqs) = <<>>
  BY DEF FlattenSeq
<1> HIDE DEF N
<1>4. step \in [1..N -> [Seq(D) -> Seq(D)]]
  BY <1>1
<1>5. PICK g : Iterates(g, N, Seq(D), <<>>, step)
  <2> HIDE DEF step
  <2> QED
    BY <1>1, <1>4, RecursionUpTo
<1>6. \A n \in 1..N : g[n] = g[n - 1] \o seqs[n]
  <2> SUFFICES ASSUME NEW n \in 1..N PROVE g[n] = g[n - 1] \o seqs[n]
    OBVIOUS
  <2>1. n - 1 \in 0..N
    BY <1>1
  <2>2. g[n - 1] \in Seq(D)
    <3> HIDE DEF step
    <3> QED
      BY <1>5, <2>1 DEF Iterates
  <2>3. g[n] = step[n][g[n - 1]]
    <3> HIDE DEF step
    <3> QED
      BY <1>5 DEF Iterates
  <2> QED
    BY <2>2, <2>3
<1>7. Def([n \in 1..N |-> g[n]])
  <2> DEFINE f == [n \in 1..N |-> g[n]]
  <2>1. \A i \in 1..N : f[i] = IF i = 1 THEN seqs[i] ELSE f[i - 1] \o seqs[i]
    <3> SUFFICES ASSUME NEW i \in 1..N
                 PROVE  f[i] = IF i = 1 THEN seqs[i] ELSE f[i - 1] \o seqs[i]
      OBVIOUS
    <3>1. f[i] = g[i - 1] \o seqs[i] /\ seqs[i] \in Seq(D)
      BY <1>1, <1>6
    <3>2. CASE i = 1
      <4>1. g[i - 1] = <<>>
        BY <1>5, <3>2 DEF Iterates
      <4>2. <<>> \o seqs[i] = seqs[i]
        BY <3>1
      <4> QED
        BY <3>1, <3>2, <4>1, <4>2
    <3>3. CASE i # 1
      <4>1. i - 1 \in 1..N
        BY <1>1, <3>3
      <4>2. f[i - 1] = g[i - 1]
        BY <4>1
      <4> QED
        BY <3>1, <3>3, <4>2
    <3> QED
      BY <3>2, <3>3
  <2>2. f = [i \in 1..N |-> f[i]]
    OBVIOUS
  <2> QED
    BY <2>1, <2>2
<1>8. Def(found)
  <2> HIDE DEF Def
  <2> QED
    BY <1>7
<1> HIDE DEF found
<1>9. \A i \in 1..N : found[i] = IF i = 1 THEN seqs[i] ELSE found[i - 1] \o seqs[i]
  BY <1>8
<1>10. flat0[0] = <<>>
  BY <1>1
<1>11. \A n \in 1..N : flat0[n] = flat0[n - 1] \o seqs[n]
  <2> SUFFICES ASSUME NEW n \in 1..N PROVE flat0[n] = flat0[n - 1] \o seqs[n]
    OBVIOUS
  <2>1. n \in 0..N /\ n - 1 \in 0..N /\ n # 0 /\ seqs[n] \in Seq(D)
    BY <1>1
  <2>2. flat0[n] = found[n]
    BY <2>1
  <2>3. CASE n = 1
    <3>1. found[n] = seqs[n] /\ flat0[n - 1] = <<>>
      BY <1>9, <1>10, <2>3
    <3>2. <<>> \o seqs[n] = seqs[n]
      BY <2>1
    <3> QED
      BY <2>2, <3>1, <3>2
  <2>4. CASE n # 1
    <3>1. n - 1 # 0
      BY <2>4
    <3>2. flat0[n - 1] = found[n - 1]
      BY <2>1, <3>1
    <3>3. found[n] = found[n - 1] \o seqs[n]
      BY <1>9, <2>4
    <3> QED
      BY <2>2, <3>2, <3>3
  <2> QED
    BY <2>3, <2>4
<1>12. flat0 = [n \in 0..N |-> flat0[n]]
  OBVIOUS
<1>13. FlattenSeq(seqs) = flat0[N]
  <2>1. N # 0 => flat0[N] = found[N]
    BY <1>1
  <2> QED
    BY <1>2, <1>3, <1>10, <2>1
<1> HIDE DEF flat0
<1>14. flat0 \in [0..N -> Seq(D)]
  <2> DEFINE Holds == {n \in 0..N : flat0[n] \in Seq(D)}
  <2>1. 0 \in Holds
    <3>1. 0 \in 0..N
      BY <1>1
    <3> QED
      BY <1>1, <1>10, <3>1
  <2>2. \A n \in 0..N : n \in Holds /\ n < N => n + 1 \in Holds
    <3> SUFFICES ASSUME NEW n \in 0..N, flat0[n] \in Seq(D), n < N PROVE n + 1 \in Holds
      OBVIOUS
    <3>1. n + 1 \in 1..N /\ n + 1 \in 0..N /\ (n + 1) - 1 = n
      BY <1>1
    <3>2. flat0[n + 1] = flat0[n] \o seqs[n + 1]
      BY <1>11, <3>1
    <3>3. flat0[n] \o seqs[n + 1] \in Seq(D)
      BY <1>1, <3>1
    <3> QED
      BY <3>1, <3>2, <3>3
  <2>3. 0..N \subseteq Holds
    <3> HIDE DEF Holds
    <3> QED
      BY <1>1, <2>1, <2>2, InductionUpTo
  <2> QED
    BY <1>12, <2>3
<1> QED
  BY <1>10, <1>11, <1>13, <1>14 DEF N

-----------------------------------------------------------------------------
(* What the tails show.                                                    *)

\* A turn that shows at least the work another one shows.
AtLeast(more, less) ==
  /\ less.open => more.open
  /\ less.task => more.task
  /\ less.tracked <= more.tracked

\* What an entry does to the three signs of work, whatever the times are.
LEMMA AppliedSigns ==
  ASSUME NEW turn \in Turn, NEW entry \in Entry
  PROVE  /\ Applied(turn, entry).open =
              IF entry.event = "turn.started" THEN TRUE
              ELSE IF entry.event = "turn.ended" THEN FALSE ELSE turn.open
         /\ Applied(turn, entry).task =
              IF entry.event = "task.running" THEN TRUE
              ELSE IF entry.event = "task.terminal" THEN FALSE ELSE turn.task
         /\ Applied(turn, entry).tracked =
              IF entry.event = "tracking.started" /\ turn.tracked < TrackLimit
              THEN turn.tracked + 1
              ELSE IF entry.event = "tracking.terminal"
              THEN (IF turn.tracked > 0 THEN turn.tracked - 1 ELSE 0)
              ELSE turn.tracked
<1> DEFINE at == entry.at
<1>1. turn = [open |-> turn.open, started |-> turn.started, updated |-> turn.updated,
              task |-> turn.task, tracked |-> turn.tracked]
  BY DEF Turn
<1>2. CASE entry.event = "turn.started"
  BY <1>1, <1>2 DEF Applied
<1>3. CASE entry.event = "turn.ended"
  BY <1>1, <1>3 DEF Applied
<1>4. CASE entry.event = "task.running"
  BY <1>1, <1>4 DEF Applied
<1>5. CASE entry.event = "task.terminal"
  BY <1>1, <1>5 DEF Applied
<1>6. CASE entry.event = "tracking.started"
  BY <1>1, <1>6 DEF Applied
<1>7. CASE entry.event = "tracking.terminal"
  BY <1>1, <1>7 DEF Applied
<1>8. CASE entry.event \notin {"turn.started", "turn.ended", "task.running", "task.terminal",
                               "tracking.started", "tracking.terminal"}
  <2>1. Applied(turn, entry) \in {turn, [turn EXCEPT !.updated = entry.at]}
    BY <1>8 DEF Applied
  <2> QED
    BY <1>1, <1>8, <2>1
<1> QED
  BY <1>2, <1>3, <1>4, <1>5, <1>6, <1>7, <1>8

\* Who has at least as much before an entry has at least as much after it.
LEMMA AppliedKeepsOrder ==
  ASSUME NEW more \in Turn, NEW less \in Turn, NEW entry \in Entry, AtLeast(more, less)
  PROVE  AtLeast(Applied(more, entry), Applied(less, entry))
<1> DEFINE a == Applied(more, entry)
           b == Applied(less, entry)
<1>1. TrackLimit \in Nat /\ more.tracked \in Nat /\ less.tracked \in Nat
  BY LogBounds DEF Turn
<1>2. b.open => a.open
  BY AppliedSigns DEF AtLeast
<1>3. b.task => a.task
  BY AppliedSigns DEF AtLeast
<1>4. b.tracked <= a.tracked
  <2> DEFINE After(n) ==
        IF entry.event = "tracking.started" /\ n < TrackLimit THEN n + 1
        ELSE IF entry.event = "tracking.terminal" THEN (IF n > 0 THEN n - 1 ELSE 0)
        ELSE n
  <2>1. a.tracked = After(more.tracked) /\ b.tracked = After(less.tracked)
    BY AppliedSigns
  <2>2. \A m, n \in Nat : n <= m => After(n) <= After(m)
    BY <1>1
  <2>3. less.tracked <= more.tracked
    BY DEF AtLeast
  <2> HIDE DEF After
  <2> QED
    BY <1>1, <2>1, <2>2, <2>3
<1> QED
  BY <1>2, <1>3, <1>4 DEF AtLeast

\* The end of a log shows no work that the whole log does not show.
LEMMA SuffixShowsNoMore ==
  ASSUME NEW s, NEW head \in Seq(Entry), NEW tail \in Seq(Entry),
         Working(TurnOf(s, tail))
  PROVE  Working(TurnOf(s, head \o tail))
<1> DEFINE whole == head \o tail
           skip == Len(head)
           N == Len(tail)
<1>1. /\ whole \in Seq(Entry) /\ skip \in Nat /\ N \in Nat /\ Len(whole) = skip + N
      /\ \A n \in 1..N : whole[skip + n] = tail[n] /\ tail[n] \in Entry
  OBVIOUS
<1>2. PICK turn : /\ turn \in [0..N -> Turn]
                  /\ turn[0] = NoTurn
                  /\ \A n \in 1..N : turn[n] = Stepped(s, tail, n, turn[n - 1])
                  /\ TurnOf(s, tail) = turn[N]
  BY TurnOfEntries
<1>3. PICK full : /\ full \in [0..Len(whole) -> Turn]
                  /\ \A n \in 1..Len(whole) : full[n] = Stepped(s, whole, n, full[n - 1])
                  /\ TurnOf(s, whole) = full[Len(whole)]
  <2> HIDE DEF whole
  <2> QED
    BY <1>1, TurnOfEntries
<1> HIDE DEF whole, skip, N
<1> DEFINE Holds == {n \in 0..N : AtLeast(full[skip + n], turn[n])}
<1>4. \A n \in 0..N : full[skip + n] \in Turn /\ turn[n] \in Turn
  BY <1>1, <1>2, <1>3
<1>5. 0 \in Holds
  <2>1. 0 \in 0..N
    BY <1>1
  <2>2. full[skip + 0] \in Turn
    BY <1>4, <2>1
  <2>3. \A any \in Turn : AtLeast(any, NoTurn)
    BY DEF AtLeast, NoTurn, Turn
  <2> QED
    BY <1>2, <2>1, <2>2, <2>3
<1>6. \A n \in 0..N : n \in Holds /\ n < N => n + 1 \in Holds
  <2> SUFFICES ASSUME NEW n \in 0..N, AtLeast(full[skip + n], turn[n]), n < N
               PROVE  n + 1 \in 0..N /\ AtLeast(full[skip + (n + 1)], turn[n + 1])
    OBVIOUS
  <2>1. /\ n + 1 \in 0..N /\ n + 1 \in 1..N /\ (n + 1) - 1 = n
        /\ skip + (n + 1) \in 1..Len(whole) /\ (skip + (n + 1)) - 1 = skip + n
    BY <1>1
  <2>2. /\ turn[n + 1] = Stepped(s, tail, n + 1, turn[n])
        /\ full[skip + (n + 1)] = Stepped(s, whole, skip + (n + 1), full[skip + n])
    BY <1>2, <1>3, <2>1
  <2>3. whole[skip + (n + 1)] = tail[n + 1] /\ tail[n + 1] \in Entry
    BY <1>1, <2>1
  <2> QED
    BY <1>4, <2>1, <2>2, <2>3, AppliedKeepsOrder DEF Stepped
<1>7. N \in Holds
  <2>1. 0..N \subseteq Holds
    <3> HIDE DEF Holds
    <3> QED
      BY <1>1, <1>5, <1>6, InductionUpTo
  <2> QED
    BY <1>1, <2>1
<1>8. AtLeast(TurnOf(s, whole), TurnOf(s, tail)) /\ TurnOf(s, whole) \in Turn /\ TurnOf(s, tail) \in Turn
  BY <1>1, <1>2, <1>3, <1>4, <1>7
<1> QED
  BY <1>8 DEF AtLeast, Working, Turn, whole

\* A file is its first entries and its tail; a short file is its tail.
LEMMA TailEndsFile ==
  ASSUME NEW file \in Seq(Entry)
  PROVE  /\ Tail512K(file) \in Seq(Entry)
         /\ \E head \in Seq(Entry) : file = head \o Tail512K(file)
         /\ Len(file) <= TailLength => Tail512K(file) = file
<1> DEFINE N == Len(file)
           first == IF N > TailLength THEN N - TailLength + 1 ELSE 1
<1>1. TailLength \in Nat /\ N \in Nat /\ \A n \in 1..N : file[n] \in Entry
  BY LogBounds
<1>2. Tail512K(file) = SubSeq(file, first, N)
  BY DEF Tail512K
<1> HIDE DEF N
<1>3. first \in 1..(N + 1) /\ first - 1 \in Int /\ first \in Int
  BY <1>1
<1> HIDE DEF first
<1>4. /\ Tail512K(file) \in Seq(Entry)
      /\ Len(Tail512K(file)) = IF first <= N THEN N - first + 1 ELSE 0
      /\ \A n \in 1..(N - first + 1) : Tail512K(file)[n] = file[first + n - 1]
  <2>1. \A n \in first..N : file[n] \in Entry
    BY <1>1, <1>3
  <2> QED
    BY <1>1, <1>2, <1>3, <2>1, SubSeqProperties
<1> DEFINE head == [n \in 1..(first - 1) |-> file[n]]
<1>5. head \in Seq(Entry) /\ Len(head) = first - 1
  <2>1. first - 1 \in Nat /\ \A n \in 1..(first - 1) : file[n] \in Entry
    BY <1>1, <1>3
  <2> QED
    BY <2>1
<1>6. \A n \in 1..(first - 1) : head[n] = file[n]
  OBVIOUS
<1> HIDE DEF head
<1>7. Len(Tail512K(file)) = N - first + 1
  BY <1>1, <1>3, <1>4
<1> DEFINE tail == Tail512K(file)
           joined == head \o tail
<1>8. /\ joined \in Seq(Entry) /\ Len(joined) = N
      /\ \A n \in 1..N : joined[n] = IF n <= first - 1 THEN head[n] ELSE tail[n - (first - 1)]
  <2>1. /\ joined \in Seq(Entry) /\ Len(joined) = Len(head) + Len(tail)
        /\ \A n \in 1..(Len(head) + Len(tail)) :
             joined[n] = IF n <= Len(head) THEN head[n] ELSE tail[n - Len(head)]
    <3> HIDE DEF tail
    <3>1. tail \in Seq(Entry)
      BY <1>4 DEF tail
    <3> QED
      BY <1>5, <3>1, ConcatProperties
  <2> HIDE DEF joined
  <2>2. Len(head) + Len(tail) = N
    BY <1>1, <1>3, <1>5, <1>7
  <2> QED
    BY <1>5, <2>1, <2>2
<1>9. \A n \in 1..N : joined[n] = file[n]
  <2> SUFFICES ASSUME NEW n \in 1..N PROVE joined[n] = file[n]
    OBVIOUS
  <2> HIDE DEF joined, tail
  <2>1. CASE n <= first - 1
    <3>1. n \in 1..(first - 1)
      BY <1>3, <2>1
    <3> QED
      BY <1>6, <1>8, <2>1, <3>1
  <2>2. CASE ~ (n <= first - 1)
    <3>1. n - (first - 1) \in 1..(N - first + 1) /\ first + (n - (first - 1)) - 1 = n
      BY <1>1, <1>3, <2>2
    <3>2. tail[n - (first - 1)] = file[n]
      BY <1>4, <3>1 DEF tail
    <3> QED
      BY <1>8, <2>2, <3>2
  <2> QED
    BY <2>1, <2>2
<1>10. joined = file
  <2> HIDE DEF joined
  <2> QED
    BY <1>8, <1>9, SeqEqual DEF N
<1>11. N <= TailLength => tail = file
  <2> SUFFICES ASSUME N <= TailLength PROVE tail = file
    OBVIOUS
  <2>1. first = 1
    BY <1>1 DEF first
  <2>2. Len(tail) = N
    BY <1>1, <1>7, <2>1
  <2>3. \A n \in 1..N : tail[n] = file[n]
    <3> SUFFICES ASSUME NEW n \in 1..N PROVE tail[n] = file[n]
      OBVIOUS
    <3>1. n \in 1..(N - first + 1) /\ first + n - 1 = n
      BY <1>1, <2>1
    <3> QED
      BY <1>4, <3>1
  <2>4. tail \in Seq(Entry)
    BY <1>4
  <2> HIDE DEF tail
  <2> QED
    BY <2>2, <2>3, <2>4, SeqEqual DEF N
<1> QED
  BY <1>4, <1>5, <1>10, <1>11 DEF N

\* The newest files but for the oldest of them are read to their beginning.
NoGap(files) == \A n \in 2..Len(files) : n + MaxFiles > Len(files) + 1 => Len(files[n]) <= TailLength

\* A log that ends with another one.
EndsWith(whole, end) == \E head \in Seq(Entry) : whole = head \o end

\* Joining keeps an end.
LEMMA JoiningKeepsEnd ==
  ASSUME NEW before \in Seq(Entry), NEW after \in Seq(Entry), NEW end \in Seq(Entry)
  PROVE  /\ EndsWith(after, end) => EndsWith(before \o after, end)
         /\ EndsWith(before, end) => EndsWith(before \o after, end \o after)
<1>1. ASSUME NEW head \in Seq(Entry), after = head \o end
      PROVE  \E h \in Seq(Entry) : before \o after = h \o end
  <2>1. (before \o head) \o end = before \o (head \o end)
    BY ConcatAssociative
  <2>2. before \o head \in Seq(Entry)
    OBVIOUS
  <2> QED
    BY <1>1, <2>1, <2>2
<1>2. ASSUME NEW head \in Seq(Entry), before = head \o end
      PROVE  \E h \in Seq(Entry) : before \o after = h \o (end \o after)
  <2>1. (head \o end) \o after = head \o (end \o after)
    BY ConcatAssociative
  <2> QED
    BY <1>2, <2>1
<1> QED
  BY <1>1, <1>2 DEF EndsWith

\* What is read of a log without a gap is its end.
LEMMA WindowEndsLog ==
  ASSUME NEW files \in Seq(Seq(Entry))
  PROVE  /\ Window(files) \in Seq(Entry)
         /\ NoGap(files) => EndsWith(FlattenSeq(files), Window(files))
<1> DEFINE N == Len(files)
           read == [n \in 1..N |-> IF n + MaxFiles > N THEN Tail512K(files[n]) ELSE <<>>]
<1>1. /\ N \in Nat /\ MaxFiles \in Nat /\ TailLength \in Nat
      /\ \A n \in 1..N : files[n] \in Seq(Entry)
      /\ <<>> \in Seq(Entry)
  BY LogBounds
<1>2. Window(files) = FlattenSeq(read)
  BY DEF Window
<1>3. PICK flat : /\ flat \in [0..N -> Seq(Entry)]
                  /\ flat[0] = <<>>
                  /\ \A n \in 1..N : flat[n] = flat[n - 1] \o files[n]
                  /\ FlattenSeq(files) = flat[N]
  BY FlattenJoins
<1>4. NoGap(files) <=> \A n \in 2..N : n + MaxFiles > N + 1 => Len(files[n]) <= TailLength
  BY DEF NoGap
<1> HIDE DEF N
<1>5. \A n \in 1..N : read[n] \in Seq(Entry)
  BY <1>1, TailEndsFile
<1>6. read \in Seq(Seq(Entry)) /\ Len(read) = N
  BY <1>1, <1>5
<1>7. \A n \in 1..N : read[n] = IF n + MaxFiles > N THEN Tail512K(files[n]) ELSE <<>>
  OBVIOUS
<1> HIDE DEF read
<1>8. PICK shown : /\ shown \in [0..N -> Seq(Entry)]
                   /\ shown[0] = <<>>
                   /\ \A n \in 1..N : shown[n] = shown[n - 1] \o read[n]
                   /\ FlattenSeq(read) = shown[N]
  BY <1>6, FlattenJoins
<1>9. Window(files) \in Seq(Entry)
  BY <1>1, <1>2, <1>8
<1>10. ASSUME NoGap(files)
       PROVE  EndsWith(FlattenSeq(files), Window(files))
  <2> DEFINE Holds == {n \in 0..N : EndsWith(flat[n], shown[n]) /\ (n + MaxFiles <= N => shown[n] = <<>>)}
  <2>1. 0 \in Holds
    <3>1. 0 \in 0..N
      BY <1>1
    <3>2. flat[0] = <<>> \o shown[0]
      BY <1>3, <1>8
    <3> QED
      BY <1>1, <1>8, <3>1, <3>2 DEF EndsWith
  <2>2. ASSUME NEW n \in 0..N, n \in Holds, n < N PROVE n + 1 \in Holds
    <3>1. n + 1 \in 0..N /\ n + 1 \in 1..N /\ (n + 1) - 1 = n
      BY <1>1, <2>2
    <3>2. /\ flat[n] \in Seq(Entry) /\ shown[n] \in Seq(Entry)
          /\ files[n + 1] \in Seq(Entry) /\ read[n + 1] \in Seq(Entry)
          /\ flat[n + 1] = flat[n] \o files[n + 1]
          /\ shown[n + 1] = shown[n] \o read[n + 1]
      BY <1>1, <1>3, <1>5, <1>8, <3>1
    <3>3. CASE (n + 1) + MaxFiles <= N
      <4>1. n + MaxFiles <= N /\ ~ ((n + 1) + MaxFiles > N)
        BY <1>1, <3>3
      <4>2. read[n + 1] = <<>> /\ shown[n] = <<>>
        BY <1>7, <2>2, <3>1, <4>1
      <4>3. shown[n + 1] = <<>>
        BY <3>2, <4>2
      <4>4. flat[n + 1] \in Seq(Entry)
        BY <1>3, <3>1
      <4>5. flat[n + 1] = flat[n + 1] \o shown[n + 1]
        BY <4>3, <4>4, ConcatEmptySeq
      <4> QED
        BY <3>1, <4>3, <4>4, <4>5 DEF EndsWith
    <3>4. CASE ~ ((n + 1) + MaxFiles <= N)
      <4>1. (n + 1) + MaxFiles > N
        BY <1>1, <3>4
      <4>2. read[n + 1] = Tail512K(files[n + 1])
        BY <1>7, <3>1, <4>1
      <4>3. EndsWith(flat[n + 1], shown[n + 1])
        <5>1. CASE shown[n] = <<>>
          <6>1. shown[n + 1] = read[n + 1]
            BY <3>2, <5>1, ConcatEmptySeq
          <6>2. EndsWith(files[n + 1], read[n + 1])
            BY <3>2, <4>2, TailEndsFile DEF EndsWith
          <6> QED
            BY <3>2, <6>1, <6>2, JoiningKeepsEnd
        <5>2. CASE shown[n] # <<>>
          <6>1. n # 0 /\ ~ (n + MaxFiles <= N)
            BY <1>8, <2>2, <5>2
          <6>2. n + 1 \in 2..N /\ (n + 1) + MaxFiles > N + 1
            BY <1>1, <3>1, <6>1
          <6>3. Len(files[n + 1]) <= TailLength
            BY <1>4, <1>10, <6>2
          <6>4. read[n + 1] = files[n + 1]
            BY <3>2, <4>2, <6>3, TailEndsFile
          <6>5. EndsWith(flat[n], shown[n])
            BY <2>2
          <6> QED
            BY <3>2, <6>4, <6>5, JoiningKeepsEnd
        <5> QED
          BY <5>1, <5>2
      <4> QED
        BY <3>1, <3>4, <4>3
    <3> QED
      BY <3>3, <3>4
  <2>3. 0..N \subseteq Holds
    <3> HIDE DEF Holds
    <3> QED
      BY <1>1, <2>1, <2>2, InductionUpTo
  <2>4. EndsWith(flat[N], shown[N])
    BY <1>1, <2>3
  <2> QED
    BY <1>2, <1>3, <1>8, <2>4
<1> QED
  BY <1>9, <1>10

-----------------------------------------------------------------------------
(* The inductive invariant.                                                *)

\* What ZCode's rows, a list and a pass hold.
Statuses == {"none", "failed", "completed", "running", "waiting"}

Task == [session : Sessions, source : {"goal", "runtime", "index"}, status : Statuses]

Rows == {NoRow} \cup
        [status : Statuses, todos : SUBSET Statuses, heartbeat : Nat, updated : Nat]

Request == [status : Statuses, at : Nat]

Pass == [at : Nat, rows : [Sessions -> Rows], goals : Seq(Task),
         turns : [Sessions -> Turn], runtime : Seq(Task), primary : Seq(Task),
         owned : SUBSET Sessions, failed : BOOLEAN]

\* What ZCode has written.
ZCodeTypeOK ==
  /\ goals \in [Sessions -> Rows]
  /\ usage \in [Sessions -> Seq(Request)]
  /\ index \in [Sessions -> {NoRow} \cup [status : Statuses, at : Nat]]
  /\ log \in Seq(Seq(Entry)) /\ Len(log) # 0
  /\ known \in SUBSET Sessions

\* What the collector holds, with the turns it watches.
CollectorTypeOK ==
  /\ now \in Nat
  /\ ZCodeTypeOK
  /\ pc \in {"idle", "goals", "goalTasks", "turns", "usage", "index"}
  /\ pass \in Pass
  /\ listed \in Seq(Task)
  /\ open \in SUBSET Sessions /\ ended \in SUBSET Sessions /\ complete \in BOOLEAN

\* Every session has one task of a list.
Distinct(tasks) ==
  \A m, n \in 1..Len(tasks) : tasks[m].session = tasks[n].session => m = n

\* The lists that a pass carries, and which sessions are left to the next read.
ListsInv ==
  /\ Distinct(pass.goals) /\ Distinct(pass.runtime) /\ Distinct(pass.primary) /\ Distinct(listed)
  /\ Len(pass.goals) <= TaskLimit /\ Len(pass.primary) <= TaskLimit
  /\ SessionsOf(pass.goals) \cup SessionsOf(pass.primary) \subseteq pass.owned
  /\ SessionsOf(pass.runtime) \cap pass.owned = {}
  /\ pc \in {"goals", "goalTasks", "turns"} => pass.runtime = <<>> /\ pass.primary = <<>>
  /\ pc \in {"turns", "usage"} => pass.owned = SessionsOf(pass.goals)
  /\ pc # "idle" => listed = <<>>

\* A list shows nothing else of a session than work.
ShowsLive(tasks, s) == \A n \in 1..Len(tasks) : tasks[n].session = s => tasks[n].status \in Live

\* What a pass knows of the turns that stay active.
OpenInv ==
  /\ \A n \in 1..Len(pass.runtime) : pass.runtime[n].status \in Live
  /\ \A s \in open :
       /\ TurnIsOpen(TurnState(s, log), s, now)
       /\ ShowsLive(pass.goals, s)
       /\ pc = "usage" => s \in pass.owned \cup SessionsOf(pass.runtime)
       /\ (pc = "index" /\ ~ pass.failed) =>
            /\ ShowsLive(pass.primary, s)
            /\ s \in SessionsOf(pass.primary) \/ Len(pass.primary) = TaskLimit

\* What is listed of a session is no work.
ShowsNoWork(tasks, s) == \A n \in 1..Len(tasks) : tasks[n].session = s => tasks[n].status \notin Live

\* What it knows of the turns that stay ended.
EndedInv ==
  \A s \in ended :
    /\ TurnHasEnded(TurnState(s, log), usage[s], goals[s], now)
    /\ pc = "goalTasks" => pass.rows[s] = NoRow \/ ~ GoalFresh(pass.rows[s], now)
    /\ ShowsNoWork(pass.goals, s) /\ ShowsNoWork(pass.primary, s)
    /\ s \notin SessionsOf(pass.runtime)
    /\ pc = "usage" =>
         /\ pass.turns[s].updated # Never
         /\ \A n \in 1..Len(usage[s]) : usage[s][n].at <= pass.turns[s].updated

\* The inductive invariant.
CollectorInv == CollectorTypeOK /\ ListsInv /\ OpenInv /\ EndedInv

-----------------------------------------------------------------------------
(* Lists of tasks.                                                         *)

\* An order of a set of sessions names each of them once.
LEMMA OrderIsList ==
  ASSUME NEW found \in SUBSET Sessions, NEW order \in SetToSeqs(found)
  PROVE  /\ order \in Seq(Sessions)
         /\ \A n \in 1..Len(order) : order[n] \in found
         /\ \A m, n \in 1..Len(order) : order[m] = order[n] => m = n
         /\ \A s \in found : \E n \in 1..Len(order) : order[n] = s
<1> DEFINE size == Cardinality(found)
<1>1. IsFiniteSet(found) /\ size \in Nat
  BY SessionsAreFinite, FS_Subset, FS_CardinalityType
<1>2. order \in [1..size -> found] /\ \A i, j \in 1..size : i # j => order[i] # order[j]
  BY DEF SetToSeqs
<1> HIDE DEF size
<1>3. order \in Seq(Sessions) /\ Len(order) = size
  BY <1>1, <1>2
<1>4. order \in Surjection(1..size, found)
  <2>1. order \in Injection(1..size, found)
    BY <1>2 DEF Injection, IsInjective
  <2>2. IsFiniteSet(1..size) /\ Cardinality(1..size) = size
    BY <1>1, FS_Interval
  <2> QED
    BY <1>1, <2>1, <2>2, FS_Injection DEF size
<1>5. \A s \in found : \E n \in 1..size : order[n] = s
  BY <1>4 DEF Surjection
<1> QED
  BY <1>2, <1>3, <1>5

\* A list of the tasks of a set of sessions.
Lists(tasks, found, source, status) ==
  /\ tasks \in Seq(Task)
  /\ Distinct(tasks)
  /\ SessionsOf(tasks) = found
  /\ \A n \in 1..Len(tasks) :
       tasks[n].source = source /\ tasks[n].status = status[tasks[n].session]

\* readGoals and readIndexTasks, a list of the sessions they found.
LEMMA ListingLists ==
  ASSUME NEW found \in SUBSET Sessions, NEW order \in SetToSeqs(found),
         NEW source \in {"goal", "runtime", "index"}, NEW status \in [Sessions -> Statuses]
  PROVE  Lists(Listing(order, source, status), found, source, status)
<1> DEFINE tasks == Listing(order, source, status)
           N == Len(order)
<1>1. /\ N \in Nat
      /\ \A n \in 1..N : order[n] \in found /\ order[n] \in Sessions
      /\ \A m, n \in 1..N : order[m] = order[n] => m = n
      /\ \A s \in found : \E n \in 1..N : order[n] = s
  BY OrderIsList
<1>2. tasks = [n \in 1..N |->
                 [session |-> order[n], source |-> source, status |-> status[order[n]]]]
  BY DEF Listing
<1> HIDE DEF tasks, N
<1>3. \A n \in 1..N : /\ tasks[n] = [session |-> order[n], source |-> source,
                                     status |-> status[order[n]]]
                      /\ tasks[n] \in Task
  BY <1>1, <1>2 DEF Task
<1>4. tasks \in Seq(Task) /\ Len(tasks) = N
  BY <1>1, <1>2, <1>3
<1>5. \A n \in 1..N : /\ tasks[n].session = order[n] /\ tasks[n].source = source
                      /\ tasks[n].status = status[order[n]]
  <2> SUFFICES ASSUME NEW n \in 1..N
               PROVE  /\ tasks[n].session = order[n] /\ tasks[n].source = source
                      /\ tasks[n].status = status[order[n]]
    OBVIOUS
  <2>1. tasks[n] = [session |-> order[n], source |-> source, status |-> status[order[n]]]
    BY <1>3
  <2> QED
    BY <2>1
<1>6. SessionsOf(tasks) = found
  BY <1>1, <1>4, <1>5 DEF SessionsOf
<1>7. Distinct(tasks)
  BY <1>1, <1>4, <1>5 DEF Distinct
<1> QED
  BY <1>4, <1>5, <1>6, <1>7 DEF Lists, tasks

\* The first tasks of a list.
LEMMA FirstOfList ==
  ASSUME NEW tasks \in Seq(Task), NEW n \in Nat
  PROVE  /\ FirstOf(tasks, n) \in Seq(Task)
         /\ Len(FirstOf(tasks, n)) = IF Len(tasks) < n THEN Len(tasks) ELSE n
         /\ Len(FirstOf(tasks, n)) \in Nat
         /\ Len(FirstOf(tasks, n)) <= n /\ Len(FirstOf(tasks, n)) <= Len(tasks)
         /\ \A k \in 1..Len(FirstOf(tasks, n)) :
              k \in 1..Len(tasks) /\ FirstOf(tasks, n)[k] = tasks[k]
         /\ SessionsOf(FirstOf(tasks, n)) \subseteq SessionsOf(tasks)
         /\ Distinct(tasks) => Distinct(FirstOf(tasks, n))
         /\ Len(FirstOf(tasks, n)) # n => FirstOf(tasks, n) = tasks
<1> DEFINE first == FirstOf(tasks, n)
           N == Len(tasks)
           last == IF N < n THEN N ELSE n
<1>1. N \in Nat /\ \A k \in 1..N : tasks[k] \in Task
  OBVIOUS
<1>2. first = SubSeq(tasks, 1, last)
  BY DEF FirstOf
<1> HIDE DEF first, N
<1>3. last \in Nat /\ last <= n /\ last <= N /\ 1..last \subseteq 1..N
  BY <1>1
<1>4. last # n => last = N
  BY <1>1
<1>5. Len(first) = IF N < n THEN N ELSE n
  <2>1. last - 1 + 1 = last /\ (1 <= last => last - 1 + 1 = last) /\ (~ (1 <= last) => last = 0)
    BY <1>3
  <2>2. \A k \in 1..last : tasks[k] \in Task
    BY <1>1, <1>3
  <2>3. Len(SubSeq(tasks, 1, last)) = IF 1 <= last THEN last - 1 + 1 ELSE 0
    <3> HIDE DEF last
    <3> QED
      BY <1>3, <2>2, SubSeqProperties
  <2>4. Len(first) = last
    <3> HIDE DEF last
    <3> QED
      BY <1>2, <2>1, <2>3
  <2> QED
    BY <2>4
<1>6. Len(first) = last
  BY <1>5
<1> HIDE DEF last
<1>7. first \in Seq(Task) /\ \A k \in 1..last : first[k] = tasks[k]
  <2>1. \A k \in 1..last : tasks[k] \in Task
    BY <1>1, <1>3
  <2>2. /\ SubSeq(tasks, 1, last) \in Seq(Task)
        /\ \A k \in 1..(last - 1 + 1) : SubSeq(tasks, 1, last)[k] = tasks[1 + k - 1]
    BY <1>3, <2>1, SubSeqProperties
  <2>3. last - 1 + 1 = last /\ \A k \in 1..last : 1 + k - 1 = k
    BY <1>3
  <2> QED
    BY <1>2, <2>2, <2>3
<1>8. SessionsOf(first) \subseteq SessionsOf(tasks)
  BY <1>3, <1>6, <1>7 DEF SessionsOf, N
<1>9. Distinct(tasks) => Distinct(first)
  BY <1>3, <1>6, <1>7 DEF Distinct, N
<1>10. last # n => first = tasks
  <2> SUFFICES ASSUME last # n PROVE first = tasks
    OBVIOUS
  <2>1. Len(first) = N /\ \A k \in 1..N : first[k] = tasks[k]
    BY <1>4, <1>6, <1>7
  <2> QED
    BY <1>7, <2>1, SeqEqual DEF N
<1> QED
  BY <1>3, <1>5, <1>6, <1>7, <1>8, <1>9, <1>10 DEF first, N

\* Two lists put together.
LEMMA JoinedList ==
  ASSUME NEW a \in Seq(Task), NEW b \in Seq(Task)
  PROVE  /\ a \o b \in Seq(Task)
         /\ Len(a \o b) = Len(a) + Len(b) /\ Len(a) \in Nat /\ Len(b) \in Nat
         /\ \A k \in 1..Len(a) : k \in 1..Len(a \o b) /\ (a \o b)[k] = a[k]
         /\ \A k \in 1..Len(a \o b) : \/ k \in 1..Len(a) /\ (a \o b)[k] = a[k]
                                      \/ \E n \in 1..Len(b) : (a \o b)[k] = b[n]
         /\ SessionsOf(a \o b) = SessionsOf(a) \cup SessionsOf(b)
         /\ (Distinct(a) /\ Distinct(b) /\ SessionsOf(a) \cap SessionsOf(b) = {})
              => Distinct(a \o b)
<1> DEFINE M == Len(a)
           N == Len(b)
           both == a \o b
<1>1. M \in Nat /\ N \in Nat
  OBVIOUS
<1>2. /\ both \in Seq(Task) /\ Len(both) = M + N
      /\ \A k \in 1..(M + N) : both[k] = IF k <= M THEN a[k] ELSE b[k - M]
  BY ConcatProperties
<1> HIDE DEF M, N, both
<1>3. \A k \in 1..M : k \in 1..(M + N) /\ both[k] = a[k]
  BY <1>1, <1>2
<1>4. \A n \in 1..N : M + n \in 1..(M + N) /\ both[M + n] = b[n]
  <2> SUFFICES ASSUME NEW n \in 1..N PROVE M + n \in 1..(M + N) /\ both[M + n] = b[n]
    OBVIOUS
  <2>1. M + n \in 1..(M + N) /\ ~ (M + n <= M) /\ (M + n) - M = n
    BY <1>1
  <2> QED
    BY <1>2, <2>1
<1>5. \A k \in 1..(M + N) : k \in 1..M \/ (k - M \in 1..N /\ k = M + (k - M))
  BY <1>1
<1>6. \A k \in 1..(M + N) : \/ k \in 1..M /\ both[k] = a[k]
                            \/ k - M \in 1..N /\ both[k] = b[k - M] /\ k = M + (k - M)
  BY <1>3, <1>4, <1>5
<1>7. SessionsOf(both) = SessionsOf(a) \cup SessionsOf(b)
  <2>1. SessionsOf(both) = {both[k].session : k \in 1..(M + N)}
    BY <1>2 DEF SessionsOf
  <2>2. /\ SessionsOf(a) = {a[k].session : k \in 1..M}
        /\ SessionsOf(b) = {b[k].session : k \in 1..N}
    BY DEF SessionsOf, M, N
  <2>3. ASSUME NEW s \in SessionsOf(a) PROVE s \in SessionsOf(both)
    BY <1>3, <2>1, <2>2
  <2>4. ASSUME NEW s \in SessionsOf(b) PROVE s \in SessionsOf(both)
    BY <1>4, <2>1, <2>2
  <2>5. ASSUME NEW s \in SessionsOf(both) PROVE s \in SessionsOf(a) \cup SessionsOf(b)
    BY <1>6, <2>1, <2>2
  <2> QED
    BY <2>3, <2>4, <2>5
<1>8. ASSUME Distinct(a), Distinct(b), SessionsOf(a) \cap SessionsOf(b) = {}
      PROVE  Distinct(both)
  <2> SUFFICES ASSUME NEW j \in 1..(M + N), NEW k \in 1..(M + N),
                      both[j].session = both[k].session
               PROVE  j = k
    BY <1>2 DEF Distinct
  <2>1. \A m, n \in 1..M : a[m].session = a[n].session => m = n
    BY <1>8 DEF Distinct, M
  <2>2. \A m, n \in 1..N : b[m].session = b[n].session => m = n
    BY <1>8 DEF Distinct, N
  <2>3. \A m \in 1..M : \A n \in 1..N : a[m].session # b[n].session
    BY <1>8 DEF SessionsOf, M, N
  <2>4. CASE j \in 1..M /\ both[j] = a[j]
    BY <1>6, <2>1, <2>3, <2>4
  <2>5. CASE j - M \in 1..N /\ both[j] = b[j - M] /\ j = M + (j - M)
    <3>1. k - M \in 1..N /\ both[k] = b[k - M] /\ k = M + (k - M)
      BY <1>6, <2>3, <2>5
    <3>2. j - M = k - M
      BY <2>2, <2>5, <3>1
    <3> QED
      BY <2>5, <3>1, <3>2
  <2> QED
    BY <1>6, <2>4, <2>5
<1> QED
  BY <1>1, <1>2, <1>3, <1>6, <1>7, <1>8 DEF M, N, both

\* mergeSnapshots takes the tasks of both, the primary ones first, up to the
\* limit.
LEMMA MergedList ==
  ASSUME NEW a \in Seq(Task), NEW b \in Seq(Task)
  PROVE  /\ Merged(a, b) \in Seq(Task)
         /\ Len(Merged(a, b)) \in Nat /\ Len(Merged(a, b)) <= TaskLimit
         /\ \A k \in 1..Len(Merged(a, b)) :
              \/ \E n \in 1..Len(a) : Merged(a, b)[k] = a[n]
              \/ \E n \in 1..Len(b) : Merged(a, b)[k] = b[n]
         /\ SessionsOf(Merged(a, b)) \subseteq SessionsOf(a) \cup SessionsOf(b)
         /\ (Distinct(a) /\ Distinct(b) /\ SessionsOf(a) \cap SessionsOf(b) = {})
              => Distinct(Merged(a, b))
         /\ Len(Merged(a, b)) # TaskLimit =>
              SessionsOf(Merged(a, b)) = SessionsOf(a) \cup SessionsOf(b)
         /\ Len(b) = TaskLimit => Len(Merged(a, b)) = TaskLimit
         /\ Len(a) <= TaskLimit => SessionsOf(a) \subseteq SessionsOf(Merged(a, b))
         /\ Len(a) = TaskLimit => SessionsOf(Merged(a, b)) = SessionsOf(a)
                                  /\ Len(Merged(a, b)) = TaskLimit
<1> DEFINE both == a \o b
           all == Merged(a, b)
<1>1. TaskLimit \in Nat
  BY LimitIsPositive
<1>2. /\ both \in Seq(Task)
      /\ Len(both) = Len(a) + Len(b) /\ Len(a) \in Nat /\ Len(b) \in Nat
      /\ \A k \in 1..Len(a) : k \in 1..Len(both) /\ both[k] = a[k]
      /\ \A k \in 1..Len(both) : \/ k \in 1..Len(a) /\ both[k] = a[k]
                                 \/ \E n \in 1..Len(b) : both[k] = b[n]
      /\ SessionsOf(both) = SessionsOf(a) \cup SessionsOf(b)
      /\ (Distinct(a) /\ Distinct(b) /\ SessionsOf(a) \cap SessionsOf(b) = {})
           => Distinct(both)
  BY JoinedList
<1>3. all = FirstOf(both, TaskLimit)
  BY DEF Merged
<1> HIDE DEF both, all
<1>4. /\ all \in Seq(Task)
      /\ Len(all) = IF Len(both) < TaskLimit THEN Len(both) ELSE TaskLimit
      /\ Len(all) \in Nat /\ Len(all) <= TaskLimit /\ Len(all) <= Len(both)
      /\ \A k \in 1..Len(all) : k \in 1..Len(both) /\ all[k] = both[k]
      /\ SessionsOf(all) \subseteq SessionsOf(both)
      /\ Distinct(both) => Distinct(all)
      /\ Len(all) # TaskLimit => all = both
  BY <1>1, <1>2, <1>3, FirstOfList
<1>5. \A k \in 1..Len(all) : \/ k \in 1..Len(a) /\ all[k] = a[k]
                             \/ \E n \in 1..Len(b) : all[k] = b[n]
  BY <1>2, <1>4
<1>6. Len(b) = TaskLimit => Len(all) = TaskLimit
  BY <1>1, <1>2, <1>4
<1>7. ASSUME Len(a) <= TaskLimit PROVE SessionsOf(a) \subseteq SessionsOf(all)
  <2>1. 1..Len(a) \subseteq 1..Len(all)
    BY <1>1, <1>2, <1>4, <1>7
  <2>2. \A k \in 1..Len(a) : all[k] = a[k]
    BY <1>2, <1>4, <2>1
  <2> QED
    BY <2>1, <2>2 DEF SessionsOf
<1>8. ASSUME Len(a) = TaskLimit PROVE SessionsOf(all) = SessionsOf(a) /\ Len(all) = TaskLimit
  <2>1. Len(all) = TaskLimit
    BY <1>1, <1>2, <1>4, <1>8
  <2>2. \A k \in 1..Len(all) : k \in 1..Len(a) /\ all[k] = a[k]
    BY <1>2, <1>4, <1>8, <2>1
  <2>3. SessionsOf(all) \subseteq SessionsOf(a)
    BY <2>2 DEF SessionsOf
  <2>4. Len(a) <= TaskLimit
    BY <1>1, <1>8
  <2> QED
    BY <1>7, <2>1, <2>3, <2>4
<1>9. /\ SessionsOf(all) \subseteq SessionsOf(a) \cup SessionsOf(b)
      /\ (Distinct(a) /\ Distinct(b) /\ SessionsOf(a) \cap SessionsOf(b) = {}) => Distinct(all)
      /\ Len(all) # TaskLimit => SessionsOf(all) = SessionsOf(a) \cup SessionsOf(b)
  BY <1>2, <1>4
<1> QED
  BY <1>4, <1>5, <1>6, <1>7, <1>8, <1>9 DEF all

-----------------------------------------------------------------------------
(* What the sources say.                                                   *)

\* The log says something of every session.
LEMMA TurnStateIsTurn ==
  ASSUME NEW s, NEW files \in Seq(Seq(Entry))
  PROVE  TurnState(s, files) \in Turn
<1>1. Window(files) \in Seq(Entry)
  BY WindowEndsLog
<1>2. \A entries \in Seq(Entry) : TurnOf(s, entries) \in Turn
  <2> SUFFICES ASSUME NEW entries \in Seq(Entry) PROVE TurnOf(s, entries) \in Turn
    OBVIOUS
  <2>1. PICK turn : turn \in [0..Len(entries) -> Turn] /\ TurnOf(s, entries) = turn[Len(entries)]
    BY TurnOfEntries
  <2>2. Len(entries) \in 0..Len(entries)
    OBVIOUS
  <2> QED
    BY <2>1, <2>2
<1> QED
  BY <1>1, <1>2 DEF TurnState

\* A Goal row whose heartbeat is old is not listed as work by itself; what is
\* listed of a session with an active turn is work.
LEMMA GoalListedStatus ==
  ASSUME NEW row \in Rows, NEW turn, NEW at
  PROVE  /\ GoalListed(row, turn, at) \in Statuses
         /\ Active(turn, at) /\ GoalListed(row, turn, at) # "none" =>
              GoalListed(row, turn, at) \in Live
         /\ ~ Active(turn, at) /\ (row = NoRow \/ ~ GoalFresh(row, at)) =>
              GoalListed(row, turn, at) \notin Live
<1>1. row = NoRow \/ row.status \in Statuses
  BY DEF Rows
<1>2. GoalStatus(row, at) \in Statuses
  BY <1>1 DEF GoalStatus, Statuses, Terminal
<1>3. (row = NoRow \/ ~ GoalFresh(row, at)) => GoalStatus(row, at) \notin Live
  BY <1>1 DEF GoalStatus, Terminal, Live
<1> QED
  BY <1>2, <1>3 DEF GoalListed, Terminal, Statuses, Live

\* The empty list.
LEMMA EmptyList ==
  /\ <<>> \in Seq(Task) /\ Len(<<>>) = 0
  /\ SessionsOf(<<>>) = {} /\ Distinct(<<>>)
  /\ \A s : ShowsLive(<<>>, s) /\ ShowsNoWork(<<>>, s)
BY DEF SessionsOf, Distinct, ShowsLive, ShowsNoWork

\* A list is about sessions.
LEMMA SessionsAreSessions ==
  ASSUME NEW tasks \in Seq(Task)
  PROVE  SessionsOf(tasks) \in SUBSET Sessions
<1>1. \A n \in 1..Len(tasks) : tasks[n] \in Task
  OBVIOUS
<1>2. \A n \in 1..Len(tasks) : tasks[n].session \in Sessions
  BY <1>1 DEF Task
<1> QED
  BY <1>2 DEF SessionsOf

\* A pass begins with nothing.
LEMMA NoPassIsPass ==
  /\ NoPass \in Pass
  /\ NoPass.goals = <<>> /\ NoPass.runtime = <<>> /\ NoPass.primary = <<>> /\ NoPass.owned = {}
<1>1. NoTurn \in Turn /\ NoRow \in Rows
  BY DEF NoTurn, Turn, Moments, Rows
<1> QED
  BY <1>1, EmptyList DEF NoPass, Pass

-----------------------------------------------------------------------------
(* The steps of a pass.                                                    *)

\* Where a pass has nothing yet, or nothing any more, only the watched turns
\* and the list it returned count.
LEMMA NothingCarried ==
  ASSUME pass'.goals = <<>>, pass'.runtime = <<>>, pass'.primary = <<>>, pass'.owned = {},
         pc' \in {"idle", "goals"} \/ (pc' = "index" /\ pass'.failed),
         Distinct(listed'), pc' # "idle" => listed' = <<>>,
         \A s \in open' : TurnIsOpen(TurnState(s, log), s, now)',
         \A s \in ended' : TurnHasEnded(TurnState(s, log), usage[s], goals[s], now)'
  PROVE  ListsInv' /\ OpenInv' /\ EndedInv'
<1>1. 0 <= TaskLimit
  BY LimitIsPositive
<1>2. ListsInv'
  BY <1>1, EmptyList DEF ListsInv
<1>3. OpenInv'
  <2>1. \A n \in 1..Len(pass'.runtime) : pass'.runtime[n].status \in Live
    BY EmptyList
  <2>2. \A s : ShowsLive(pass'.goals, s)
    BY EmptyList
  <2>3. pc' # "usage" /\ ~ (pc' = "index" /\ ~ pass'.failed)
    OBVIOUS
  <2> QED
    BY <2>1, <2>2, <2>3 DEF OpenInv
<1>4. EndedInv'
  <2>1. \A s : /\ ShowsNoWork(pass'.goals, s) /\ ShowsNoWork(pass'.primary, s)
               /\ s \notin SessionsOf(pass'.runtime)
    BY EmptyList
  <2>2. pc' # "goalTasks" /\ pc' # "usage"
    OBVIOUS
  <2> QED
    BY <2>1, <2>2 DEF EndedInv
<1> QED
  BY <1>2, <1>3, <1>4

\* The collector before its first pass.
LEMMA InitCollectorInv == CollectorInit => CollectorInv
<1> SUFFICES ASSUME CollectorInit PROVE CollectorInv
  OBVIOUS
<1> USE DEF CollectorInit
<1>1. ZCodeTypeOK
  <2>1. goals \in [Sessions -> Rows]
    BY DEF Rows
  <2>2. usage \in [Sessions -> Seq(Request)]
    OBVIOUS
  <2>3. log \in Seq(Seq(Entry)) /\ Len(log) # 0
    OBVIOUS
  <2>4. known \in SUBSET Sessions
    OBVIOUS
  <2>5. index \in [Sessions -> {NoRow} \cup [status : Statuses, at : Nat]]
    OBVIOUS
  <2> QED
    BY <2>1, <2>2, <2>3, <2>4, <2>5 DEF ZCodeTypeOK
<1>2. CollectorTypeOK
  BY <1>1, NoPassIsPass, EmptyList DEF CollectorTypeOK
<1>3. /\ pass.goals = <<>> /\ pass.runtime = <<>> /\ pass.primary = <<>> /\ pass.owned = {}
      /\ listed = <<>> /\ pc = "idle" /\ open = {} /\ ended = {}
  BY NoPassIsPass
<1>4. 0 <= TaskLimit
  BY LimitIsPositive
<1>5. ListsInv
  BY <1>3, <1>4, EmptyList DEF ListsInv
<1>6. OpenInv /\ EndedInv
  BY <1>3, EmptyList DEF OpenInv, EndedInv
<1> QED
  BY <1>2, <1>5, <1>6 DEF CollectorInv

\* What a step of the pass leaves alone.
LEMMA KeepKeeps ==
  ASSUME CollectorInv, Keep
  PROVE  /\ now' = now /\ goals' = goals /\ usage' = usage /\ index' = index /\ log' = log
         /\ known' = known /\ open' = open /\ ended' = ended
         /\ now' \in Nat /\ ZCodeTypeOK' /\ open' \in SUBSET Sessions /\ ended' \in SUBSET Sessions
         /\ \A s \in open' : TurnIsOpen(TurnState(s, log), s, now)'
         /\ \A s \in ended' : TurnHasEnded(TurnState(s, log), usage[s], goals[s], now)'
<1>1. /\ now' = now /\ goals' = goals /\ usage' = usage /\ index' = index /\ log' = log
      /\ known' = known /\ open' = open /\ ended' = ended
  BY DEF Keep, zcodeVars
<1>2. /\ now' \in Nat /\ ZCodeTypeOK' /\ open' \in SUBSET Sessions /\ ended' \in SUBSET Sessions
  BY <1>1 DEF CollectorInv, CollectorTypeOK, ZCodeTypeOK
<1>3. /\ \A s \in open : TurnIsOpen(TurnState(s, log), s, now)
      /\ \A s \in ended : TurnHasEnded(TurnState(s, log), usage[s], goals[s], now)
  BY DEF CollectorInv, OpenInv, EndedInv
<1> QED
  BY <1>1, <1>2, <1>3 DEF TurnIsOpen

\* A pass begins, with the database there or not.
LEMMA BeginKeeps == ASSUME CollectorInv, Begin PROVE CollectorInv'
<1>1. PICK present \in BOOLEAN :
        /\ pc' = IF present THEN "goals" ELSE "index"
        /\ pass' = [NoPass EXCEPT !.failed = ~ present]
  BY DEF Begin
<1>2. /\ pass' \in Pass /\ pass'.failed = ~ present
      /\ pass'.goals = <<>> /\ pass'.runtime = <<>> /\ pass'.primary = <<>> /\ pass'.owned = {}
  BY <1>1, NoPassIsPass DEF Pass
<1>3. /\ now' = now /\ goals' = goals /\ usage' = usage /\ index' = index /\ log' = log
      /\ known' = known /\ listed' = <<>> /\ complete' = FALSE
  BY DEF Begin, zcodeVars
<1>4. /\ open' \in SUBSET Sessions /\ ended' \in SUBSET Sessions
      /\ \A s \in open' : TurnIsOpen(TurnState(s, log), s, now)'
      /\ \A s \in ended' : TurnHasEnded(TurnState(s, log), usage[s], goals[s], now)'
  BY <1>3 DEF Begin, TurnIsOpen
<1>5. CollectorTypeOK'
  BY <1>1, <1>2, <1>3, <1>4, EmptyList DEF CollectorInv, CollectorTypeOK, ZCodeTypeOK
<1>6. ListsInv' /\ OpenInv' /\ EndedInv'
  BY <1>1, <1>2, <1>3, <1>4, EmptyList, NothingCarried
<1> QED
  BY <1>5, <1>6 DEF CollectorInv

\* A pass that ends leaves what it lists.
LEMMA EndKeeps ==
  ASSUME CollectorInv, Keep, pc' = "idle", pass' = NoPass,
         listed' \in Seq(Task), Distinct(listed'), complete' \in BOOLEAN
  PROVE  CollectorInv'
<1>1. /\ pass' \in Pass
      /\ pass'.goals = <<>> /\ pass'.runtime = <<>> /\ pass'.primary = <<>> /\ pass'.owned = {}
  BY NoPassIsPass
<1>2. CollectorTypeOK'
  BY <1>1, KeepKeeps DEF CollectorTypeOK
<1>3. ListsInv' /\ OpenInv' /\ EndedInv'
  BY <1>1, KeepKeeps, NothingCarried
<1> QED
  BY <1>2, <1>3 DEF CollectorInv

\* A read fails and the pass with it.
LEMMA FailKeeps == ASSUME CollectorInv, Keep, Fail PROVE CollectorInv'
BY EndKeeps DEF Fail, CollectorInv, CollectorTypeOK, ListsInv

\* The rows of goals are read.
LEMMA ReadGoalsKeeps == ASSUME CollectorInv, ReadGoals PROVE CollectorInv'
<1>1. Keep /\ pc = "goals"
  BY DEF ReadGoals
<1>2. CASE Fail
  BY <1>1, <1>2, FailKeeps
<1>3. CASE /\ pass' = [pass EXCEPT !.rows = goals]
           /\ pc' = "goalTasks"
           /\ UNCHANGED <<listed, complete>>
  <2>1. pass \in Pass /\ goals \in [Sessions -> Rows]
    BY DEF CollectorInv, CollectorTypeOK, ZCodeTypeOK
  <2>2. /\ pass' \in Pass /\ pass'.rows = goals
        /\ pass'.goals = pass.goals /\ pass'.runtime = pass.runtime
        /\ pass'.primary = pass.primary /\ pass'.owned = pass.owned
    BY <1>3, <2>1 DEF Pass
  <2>3. CollectorTypeOK'
    BY <1>1, <1>3, <2>2, KeepKeeps DEF CollectorInv, CollectorTypeOK
  <2>4. ListsInv'
    BY <1>1, <1>3, <2>2 DEF CollectorInv, ListsInv
  <2>5. OpenInv'
    <3>1. OpenInv
      BY DEF CollectorInv
    <3>2. \A n \in 1..Len(pass'.runtime) : pass'.runtime[n].status \in Live
      BY <2>2, <3>1 DEF OpenInv
    <3>3. \A s \in open' : ShowsLive(pass'.goals, s)
      BY <1>1, <2>2, <3>1, KeepKeeps DEF OpenInv
    <3>4. pc' # "usage" /\ pc' # "index"
      BY <1>3
    <3> QED
      BY <1>1, <3>2, <3>3, <3>4, KeepKeeps DEF OpenInv
  <2>6. EndedInv'
    <3>1. EndedInv
      BY DEF CollectorInv
    <3>2. \A s \in ended' : /\ ShowsNoWork(pass'.goals, s) /\ ShowsNoWork(pass'.primary, s)
                            /\ s \notin SessionsOf(pass'.runtime)
      BY <1>1, <2>2, <3>1, KeepKeeps DEF EndedInv
    <3>3. \A s \in ended' : pass'.rows[s] = NoRow \/ ~ GoalFresh(pass'.rows[s], now')
      BY <1>1, <2>2, <3>1, KeepKeeps DEF EndedInv, TurnHasEnded
    <3>4. pc' # "usage"
      BY <1>3
    <3> QED
      BY <1>1, <3>2, <3>3, <3>4, KeepKeeps DEF EndedInv
  <2> QED
    BY <2>3, <2>4, <2>5, <2>6 DEF CollectorInv
<1> QED
  BY <1>2, <1>3 DEF ReadGoals

\* The Goals become the pass's first tasks.
LEMMA GoalTasksKeeps == ASSUME CollectorInv, GoalTasks PROVE CollectorInv'
<1> DEFINE turns == [s \in Sessions |-> TurnState(s, log)]
           status == [s \in Sessions |-> GoalListed(pass.rows[s], turns[s], now)]
           found == {s \in Sessions : status[s] # "none"}
           beats == [s \in Sessions |-> IF pass.rows[s] = NoRow THEN Never
                                        ELSE pass.rows[s].heartbeat]
<1>1. /\ Keep /\ pc = "goalTasks" /\ pc' = "turns" /\ listed' = listed /\ complete' = complete
  BY DEF GoalTasks
<1>2. PICK order \in ByRecency(found, beats) :
        pass' = [pass EXCEPT !.goals = FirstOf(Listing(order, "goal", status), TaskLimit),
                             !.owned = SessionsOf(FirstOf(Listing(order, "goal", status), TaskLimit)),
                             !.rows = NoPass.rows]
  BY DEF GoalTasks
<1> DEFINE all == Listing(order, "goal", status)
           tasks == FirstOf(all, TaskLimit)
<1>3. /\ pass \in Pass /\ CollectorTypeOK /\ ListsInv /\ OpenInv /\ EndedInv
      /\ log \in Seq(Seq(Entry)) /\ open \in SUBSET Sessions /\ ended \in SUBSET Sessions
  BY DEF CollectorInv, CollectorTypeOK, ZCodeTypeOK
<1>4. \A s \in Sessions : pass.rows[s] \in Rows
  BY <1>3 DEF Pass
<1>5. status \in [Sessions -> Statuses]
  BY <1>4, GoalListedStatus
<1>6. order \in SetToSeqs(found) /\ found \in SUBSET Sessions
  BY <1>2 DEF ByRecency
<1>7. Lists(all, found, "goal", status)
  <2> HIDE DEF status, found
  <2> QED
    BY <1>5, <1>6, ListingLists
<1>8. \A s \in Sessions : status[s] = GoalListed(pass.rows[s], TurnState(s, log), now)
  OBVIOUS
<1>9. \A s \in found : status[s] # "none" /\ s \in Sessions
  OBVIOUS
<1>10. pass' = [pass EXCEPT !.goals = tasks, !.owned = SessionsOf(tasks), !.rows = NoPass.rows]
  BY <1>2
<1> HIDE DEF all, status, found, turns
<1>11. /\ tasks \in Seq(Task) /\ Distinct(tasks)
       /\ Len(tasks) \in Nat /\ Len(tasks) <= TaskLimit
       /\ \A k \in 1..Len(tasks) : k \in 1..Len(all) /\ tasks[k] = all[k]
  BY <1>7, FirstOfList, LimitIsPositive DEF Lists
<1> HIDE DEF tasks
<1>12. \A k \in 1..Len(tasks) : /\ tasks[k].session \in found
                                /\ tasks[k].status = status[tasks[k].session]
  BY <1>7, <1>11 DEF Lists, SessionsOf
<1>13. SessionsOf(tasks) \in SUBSET Sessions
  BY <1>6, <1>12 DEF SessionsOf
<1>14. /\ pass'.goals = tasks /\ pass'.owned = SessionsOf(tasks)
       /\ pass'.runtime = pass.runtime /\ pass'.primary = pass.primary
       /\ pass' \in Pass
  <2>1. NoPass.rows \in [Sessions -> Rows]
    BY NoPassIsPass DEF Pass
  <2> QED
    BY <1>3, <1>10, <1>11, <1>13, <2>1 DEF Pass
<1>15. CollectorTypeOK'
  BY <1>1, <1>3, <1>14, KeepKeeps DEF CollectorTypeOK
<1>16. ListsInv'
  <2>1. pass.runtime = <<>>
    BY <1>1, <1>3 DEF ListsInv
  <2>2. pass.primary = <<>>
    BY <1>1, <1>3 DEF ListsInv
  <2> QED
    BY <1>1, <1>3, <1>11, <1>14, <2>1, <2>2, EmptyList DEF ListsInv
<1>17. OpenInv'
  <2>1. ASSUME NEW s \in open, NEW k \in 1..Len(tasks), tasks[k].session = s
        PROVE  tasks[k].status \in Live
    <3>1. s \in Sessions /\ Active(TurnState(s, log), now)
      BY <1>3 DEF OpenInv, TurnIsOpen
    <3>2. status[s] # "none" /\ tasks[k].status = status[s]
      BY <1>9, <1>12, <2>1
    <3> QED
      BY <1>4, <1>8, <3>1, <3>2, GoalListedStatus
  <2>2. \A s \in open' : ShowsLive(pass'.goals, s)
    BY <1>1, <1>14, <2>1, KeepKeeps, <1>3 DEF ShowsLive, CollectorInv
  <2>3. \A n \in 1..Len(pass'.runtime) : pass'.runtime[n].status \in Live
    BY <1>3, <1>14 DEF OpenInv
  <2>4. pc' # "usage" /\ pc' # "index"
    BY <1>1
  <2> QED
    BY <1>1, <2>2, <2>3, <2>4, KeepKeeps DEF OpenInv
<1>18. EndedInv'
  <2>1. ASSUME NEW s \in ended, NEW k \in 1..Len(tasks), tasks[k].session = s
        PROVE  tasks[k].status \notin Live
    <3>1. /\ s \in Sessions /\ ~ Active(TurnState(s, log), now)
          /\ pass.rows[s] = NoRow \/ ~ GoalFresh(pass.rows[s], now)
      BY <1>1, <1>3 DEF EndedInv, TurnHasEnded, Active
    <3>2. tasks[k].status = status[s]
      BY <1>12, <2>1
    <3> QED
      BY <1>4, <1>8, <3>1, <3>2, GoalListedStatus
  <2>2. \A s \in ended' : ShowsNoWork(pass'.goals, s)
    BY <1>1, <1>14, <2>1, KeepKeeps DEF ShowsNoWork, CollectorInv
  <2>3. \A s \in ended' : ShowsNoWork(pass'.primary, s) /\ s \notin SessionsOf(pass'.runtime)
    BY <1>1, <1>3, <1>14, KeepKeeps DEF EndedInv
  <2>4. pc' # "usage" /\ pc' # "goalTasks"
    BY <1>1
  <2> QED
    BY <1>1, <2>2, <2>3, <2>4, KeepKeeps DEF EndedInv
<1> QED
  BY <1>15, <1>16, <1>17, <1>18 DEF CollectorInv

\* A pass whose runtime sources cannot be read goes on with its Goals.
LEMMA RuntimeFailsKeeps ==
  ASSUME CollectorInv, Keep, pc \in {"turns", "usage"}, RuntimeFails
  PROVE  CollectorInv'
<1>1. CASE pass.goals = <<>>
  BY <1>1, FailKeeps DEF RuntimeFails
<1>2. CASE pass.goals # <<>>
  <2>1. /\ pass' = [pass EXCEPT !.primary = pass.goals, !.failed = TRUE]
        /\ pc' = "index" /\ listed' = listed /\ complete' = complete
    BY <1>2 DEF RuntimeFails
  <2>2. /\ pass \in Pass /\ CollectorTypeOK /\ ListsInv /\ OpenInv /\ EndedInv
    BY DEF CollectorInv, CollectorTypeOK
  <2>3. /\ pass'.goals = pass.goals /\ pass'.owned = pass.owned
        /\ pass'.runtime = pass.runtime /\ pass'.primary = pass.goals
        /\ pass'.failed = TRUE /\ pass' \in Pass
    BY <2>1, <2>2 DEF Pass
  <2>4. CollectorTypeOK'
    BY <2>1, <2>2, <2>3, KeepKeeps DEF CollectorTypeOK
  <2>5. ListsInv'
    BY <2>1, <2>2, <2>3 DEF ListsInv
  <2>6. OpenInv'
    <3>1. \A s \in open' : ShowsLive(pass'.goals, s)
      BY <2>2, <2>3, KeepKeeps DEF OpenInv
    <3>2. \A n \in 1..Len(pass'.runtime) : pass'.runtime[n].status \in Live
      BY <2>2, <2>3 DEF OpenInv
    <3>3. pc' # "usage" /\ ~ (pc' = "index" /\ ~ pass'.failed)
      BY <2>1, <2>3
    <3> QED
      BY <3>1, <3>2, <3>3, KeepKeeps DEF OpenInv
  <2>7. EndedInv'
    <3>1. \A s \in ended' : /\ ShowsNoWork(pass'.goals, s) /\ ShowsNoWork(pass'.primary, s)
                            /\ s \notin SessionsOf(pass'.runtime)
      BY <2>2, <2>3, KeepKeeps DEF EndedInv
    <3>2. pc' # "usage" /\ pc' # "goalTasks"
      BY <2>1
    <3> QED
      BY <3>1, <3>2, KeepKeeps DEF EndedInv
  <2> QED
    BY <2>4, <2>5, <2>6, <2>7 DEF CollectorInv
<1> QED
  BY <1>1, <1>2

\* A pass that has read its runtime sources.
LEMMA RuntimeEndsKeeps ==
  ASSUME CollectorInv, Keep, pc \in {"turns", "usage"},
         NEW tasks \in Seq(Task), Distinct(tasks), SessionsOf(tasks) \cap pass.owned = {},
         \A n \in 1..Len(tasks) : tasks[n].status \in Live,
         \A s \in open : s \in pass.owned \cup SessionsOf(tasks) \/ Len(tasks) = TaskLimit,
         \A s \in ended : s \notin SessionsOf(tasks),
         RuntimeEnds(tasks)
  PROVE  CollectorInv'
<1> DEFINE all == Merged(pass.goals, tasks)
<1>1. /\ pass' = [NoPass EXCEPT !.goals = pass.goals, !.primary = all,
                                !.owned = pass.owned \cup SessionsOf(tasks)]
      /\ pc' = "index" /\ listed' = listed /\ complete' = complete
  BY DEF RuntimeEnds
<1>2. /\ pass \in Pass /\ CollectorTypeOK /\ ListsInv /\ OpenInv /\ EndedInv
  BY DEF CollectorInv, CollectorTypeOK
<1>3. /\ pass.goals \in Seq(Task) /\ pass.owned \in SUBSET Sessions
      /\ pass.owned = SessionsOf(pass.goals) /\ Distinct(pass.goals)
  BY <1>2 DEF Pass, ListsInv
<1>4. SessionsOf(tasks) \in SUBSET Sessions
  BY SessionsAreSessions
<1>5. /\ all \in Seq(Task) /\ Len(all) <= TaskLimit
      /\ \A k \in 1..Len(all) : \/ \E n \in 1..Len(pass.goals) : all[k] = pass.goals[n]
                                \/ \E n \in 1..Len(tasks) : all[k] = tasks[n]
      /\ SessionsOf(all) \subseteq SessionsOf(pass.goals) \cup SessionsOf(tasks)
      /\ Distinct(all)
      /\ Len(all) # TaskLimit => SessionsOf(all) = SessionsOf(pass.goals) \cup SessionsOf(tasks)
      /\ Len(tasks) = TaskLimit => Len(all) = TaskLimit
  <2> DEFINE a == pass.goals
  <2>1. a \in Seq(Task) /\ Distinct(a) /\ SessionsOf(a) \cap SessionsOf(tasks) = {}
    BY <1>3
  <2> HIDE DEF a
  <2>2. /\ Merged(a, tasks) \in Seq(Task)
        /\ Len(Merged(a, tasks)) <= TaskLimit
        /\ \A k \in 1..Len(Merged(a, tasks)) :
             \/ \E n \in 1..Len(a) : Merged(a, tasks)[k] = a[n]
             \/ \E n \in 1..Len(tasks) : Merged(a, tasks)[k] = tasks[n]
        /\ SessionsOf(Merged(a, tasks)) \subseteq SessionsOf(a) \cup SessionsOf(tasks)
        /\ Distinct(Merged(a, tasks))
        /\ Len(Merged(a, tasks)) # TaskLimit =>
             SessionsOf(Merged(a, tasks)) = SessionsOf(a) \cup SessionsOf(tasks)
        /\ Len(tasks) = TaskLimit => Len(Merged(a, tasks)) = TaskLimit
    BY <2>1, MergedList
  <2> QED
    BY <2>2 DEF a
<1> HIDE DEF all
<1>6. /\ pass'.goals = pass.goals /\ pass'.owned = pass.owned \cup SessionsOf(tasks)
      /\ pass'.runtime = <<>> /\ pass'.primary = all
      /\ pass' \in Pass
  BY <1>1, <1>3, <1>4, <1>5, NoPassIsPass DEF Pass
<1>7. CollectorTypeOK'
  BY <1>1, <1>2, <1>6, KeepKeeps DEF CollectorTypeOK
<1>8. ListsInv'
  BY <1>1, <1>2, <1>3, <1>5, <1>6, EmptyList DEF ListsInv
<1>9. OpenInv'
  <2>1. ASSUME NEW s \in open
        PROVE  ShowsLive(pass'.goals, s) /\ ShowsLive(all, s)
               /\ (s \in SessionsOf(all) \/ Len(all) = TaskLimit)
    <3>1. ShowsLive(pass.goals, s)
      BY <1>2 DEF OpenInv
    <3>2. ShowsLive(all, s)
      BY <1>5, <3>1 DEF ShowsLive
    <3>3. s \in SessionsOf(all) \/ Len(all) = TaskLimit
      BY <1>3, <1>5
    <3> QED
      BY <1>6, <3>1, <3>2, <3>3
  <2>2. \A n \in 1..Len(pass'.runtime) : pass'.runtime[n].status \in Live
    BY <1>6, EmptyList
  <2>3. pc' # "usage"
    BY <1>1
  <2> QED
    BY <1>6, <2>1, <2>2, <2>3, KeepKeeps DEF OpenInv
<1>10. EndedInv'
  <2>1. ASSUME NEW s \in ended PROVE ShowsNoWork(pass'.goals, s) /\ ShowsNoWork(all, s)
    <3>1. ShowsNoWork(pass.goals, s) /\ s \notin SessionsOf(tasks)
      BY <1>2 DEF EndedInv
    <3>2. ShowsNoWork(all, s)
      BY <1>5, <3>1 DEF ShowsNoWork, SessionsOf
    <3> QED
      BY <1>6, <3>1, <3>2
  <2>2. \A s : s \notin SessionsOf(pass'.runtime)
    BY <1>6, EmptyList
  <2>3. pc' # "usage" /\ pc' # "goalTasks"
    BY <1>1
  <2> QED
    BY <1>6, <2>1, <2>2, <2>3, KeepKeeps DEF EndedInv
<1> QED
  BY <1>7, <1>8, <1>9, <1>10 DEF CollectorInv

\* The turns that are active by now are listed, and what the log says of all
\* of them is remembered.
LEMMA ReadTurnsKeeps == ASSUME CollectorInv, ReadTurns PROVE CollectorInv'
<1> DEFINE turns == [s \in Sessions |-> TurnState(s, log)]
           active == {s \in known \ pass.owned : Active(turns[s], now)}
           running == [s \in Sessions |-> "running"]
<1>1. Keep /\ pc = "turns"
  BY DEF ReadTurns
<1>2. CASE RuntimeFails
  BY <1>1, <1>2, RuntimeFailsKeeps
<1>3. CASE \E order \in ByRecency(active, [s \in Sessions |-> turns[s].updated]) :
             LET tasks == FirstOf(Listing(order, "runtime", running), TaskLimit)
             IN  IF Len(tasks) = TaskLimit THEN RuntimeEnds(tasks)
                 ELSE /\ pass' = [pass EXCEPT !.at = now, !.turns = turns, !.runtime = tasks]
                      /\ pc' = "usage"
                      /\ UNCHANGED <<listed, complete>>
  <2>1. PICK order \in ByRecency(active, [s \in Sessions |-> turns[s].updated]) :
          LET tasks == FirstOf(Listing(order, "runtime", running), TaskLimit)
          IN  IF Len(tasks) = TaskLimit THEN RuntimeEnds(tasks)
              ELSE /\ pass' = [pass EXCEPT !.at = now, !.turns = turns, !.runtime = tasks]
                   /\ pc' = "usage"
                   /\ UNCHANGED <<listed, complete>>
    BY <1>3
  <2> DEFINE all == Listing(order, "runtime", running)
             tasks == FirstOf(all, TaskLimit)
  <2>2. \/ Len(tasks) = TaskLimit /\ RuntimeEnds(tasks)
        \/ /\ Len(tasks) # TaskLimit
           /\ pass' = [pass EXCEPT !.at = now, !.turns = turns, !.runtime = tasks]
           /\ pc' = "usage" /\ listed' = listed /\ complete' = complete
    BY <2>1
  <2>3. /\ pass \in Pass /\ CollectorTypeOK /\ ListsInv /\ OpenInv /\ EndedInv
        /\ log \in Seq(Seq(Entry)) /\ now \in Nat /\ known \in SUBSET Sessions
        /\ open \in SUBSET Sessions /\ ended \in SUBSET Sessions
    BY DEF CollectorInv, CollectorTypeOK, ZCodeTypeOK
  <2>4. order \in SetToSeqs(active) /\ active \in SUBSET Sessions
    BY <2>1, <2>3 DEF ByRecency
  <2>5. running \in [Sessions -> Statuses]
    BY DEF Statuses
  <2>6. Lists(all, active, "runtime", running)
    <3> HIDE DEF active, running
    <3> QED
      BY <2>4, <2>5, ListingLists
  <2>7. /\ \A s \in active : s \in known /\ s \notin pass.owned /\ Active(TurnState(s, log), now)
        /\ \A s \in known : s \notin pass.owned /\ Active(TurnState(s, log), now) => s \in active
    BY <2>3
  <2>8. turns \in [Sessions -> Turn] /\ \A s \in Sessions : turns[s] = TurnState(s, log)
    BY <2>3, TurnStateIsTurn
  <2> HIDE DEF all, turns, active
  <2>9. /\ tasks \in Seq(Task) /\ Distinct(tasks) /\ SessionsOf(tasks) \subseteq active
        /\ Len(tasks) # TaskLimit => SessionsOf(tasks) = active
        /\ \A k \in 1..Len(tasks) : k \in 1..Len(all) /\ tasks[k] = all[k]
    BY <2>6, FirstOfList, LimitIsPositive DEF Lists
  <2> HIDE DEF tasks
  <2>10. \A n \in 1..Len(tasks) : tasks[n].status \in Live
    <3> SUFFICES ASSUME NEW n \in 1..Len(tasks) PROVE tasks[n].status \in Live
      OBVIOUS
    <3>1. tasks[n] \in Task
      BY <2>9
    <3>2. tasks[n].session \in Sessions
      BY <3>1 DEF Task
    <3>3. tasks[n].status = running[tasks[n].session]
      BY <2>6, <2>9 DEF Lists
    <3> QED
      BY <3>2, <3>3 DEF Live
  <2>11. SessionsOf(tasks) \cap pass.owned = {}
    BY <2>7, <2>9
  <2>12. \A s \in open : s \in pass.owned \cup SessionsOf(tasks) \/ Len(tasks) = TaskLimit
    BY <2>3, <2>7, <2>9 DEF OpenInv, TurnIsOpen
  <2>13. \A s \in ended : s \notin SessionsOf(tasks)
    BY <2>3, <2>7, <2>9 DEF EndedInv, TurnHasEnded, Active
  <2>14. CASE Len(tasks) = TaskLimit /\ RuntimeEnds(tasks)
    BY <1>1, <2>9, <2>10, <2>11, <2>12, <2>13, <2>14, RuntimeEndsKeeps
  <2>15. CASE /\ Len(tasks) # TaskLimit
              /\ pass' = [pass EXCEPT !.at = now, !.turns = turns, !.runtime = tasks]
              /\ pc' = "usage" /\ listed' = listed /\ complete' = complete
    <3>1. /\ pass'.goals = pass.goals /\ pass'.owned = pass.owned
          /\ pass'.primary = pass.primary /\ pass'.runtime = tasks
          /\ pass'.turns = turns
          /\ pass' \in Pass
      BY <2>3, <2>8, <2>9, <2>15 DEF Pass
    <3>2. CollectorTypeOK'
      BY <1>1, <2>3, <2>15, <3>1, KeepKeeps DEF CollectorTypeOK
    <3>3. ListsInv'
      BY <1>1, <2>3, <2>9, <2>11, <2>15, <3>1 DEF ListsInv
    <3>4. OpenInv'
      <4>1. \A s \in open' : ShowsLive(pass'.goals, s)
        BY <1>1, <2>3, <3>1, KeepKeeps DEF OpenInv
      <4>2. \A s \in open' : s \in pass'.owned \cup SessionsOf(pass'.runtime)
        BY <1>1, <2>12, <2>15, <3>1, KeepKeeps
      <4>3. \A n \in 1..Len(pass'.runtime) : pass'.runtime[n].status \in Live
        BY <2>10, <3>1
      <4>4. pc' # "index"
        BY <2>15
      <4> QED
        BY <1>1, <4>1, <4>2, <4>3, <4>4, KeepKeeps DEF OpenInv
    <3>5. EndedInv'
      <4>1. \A s \in ended' : /\ ShowsNoWork(pass'.goals, s) /\ ShowsNoWork(pass'.primary, s)
                              /\ s \notin SessionsOf(pass'.runtime)
        BY <1>1, <2>3, <2>13, <3>1, KeepKeeps DEF EndedInv
      <4>2. ASSUME NEW s \in ended
            PROVE  /\ pass'.turns[s].updated # Never
                   /\ \A n \in 1..Len(usage[s]) : usage[s][n].at <= pass'.turns[s].updated
        <5>1. pass'.turns[s] = TurnState(s, log)
          BY <2>3, <2>8, <3>1
        <5>2. TurnHasEnded(TurnState(s, log), usage[s], goals[s], now)
          BY <2>3 DEF EndedInv
        <5> QED
          BY <5>1, <5>2 DEF TurnHasEnded
      <4>3. pc' # "goalTasks"
        BY <2>15
      <4> QED
        BY <1>1, <4>1, <4>2, <4>3, KeepKeeps DEF EndedInv
    <3> QED
      BY <3>2, <3>3, <3>4, <3>5 DEF CollectorInv
  <2> QED
    BY <2>2, <2>14, <2>15
<1> QED
  BY <1>2, <1>3 DEF ReadTurns

\* The sessions whose newest request lives follow.
LEMMA ReadUsageKeeps == ASSUME CollectorInv, ReadUsage PROVE CollectorInv'
<1> DEFINE requested == {s \in known \ (pass.owned \cup SessionsOf(pass.runtime)) :
                           RequestLives(usage[s], pass.turns[s], pass.at)}
           newest == [s \in Sessions |-> IF usage[s] = <<>> THEN [status |-> "none", at |-> Never]
                                         ELSE usage[s][Len(usage[s])]]
           statuses == [s \in Sessions |-> newest[s].status]
<1>1. Keep /\ pc = "usage"
  BY DEF ReadUsage
<1>2. CASE RuntimeFails
  BY <1>1, <1>2, RuntimeFailsKeeps
<1>3. CASE \E order \in ByRecency(requested, [s \in Sessions |-> newest[s].at]) :
             RuntimeEnds(FirstOf(pass.runtime \o Listing(order, "runtime", statuses), TaskLimit))
  <2>1. PICK order \in ByRecency(requested, [s \in Sessions |-> newest[s].at]) :
          RuntimeEnds(FirstOf(pass.runtime \o Listing(order, "runtime", statuses), TaskLimit))
    BY <1>3
  <2> DEFINE more == Listing(order, "runtime", statuses)
             all == pass.runtime \o more
             tasks == FirstOf(all, TaskLimit)
  <2>2. RuntimeEnds(tasks)
    BY <2>1
  <2>3. /\ pass \in Pass /\ CollectorTypeOK /\ ListsInv /\ OpenInv /\ EndedInv
        /\ known \in SUBSET Sessions /\ usage \in [Sessions -> Seq(Request)]
        /\ open \in SUBSET Sessions /\ ended \in SUBSET Sessions
    BY DEF CollectorInv, CollectorTypeOK, ZCodeTypeOK
  <2>4. order \in SetToSeqs(requested) /\ requested \in SUBSET Sessions
    BY <2>1, <2>3 DEF ByRecency
  <2>5. \A s \in Sessions :
          /\ usage[s] \in Seq(Request)
          /\ usage[s] # <<>> => /\ Len(usage[s]) \in 1..Len(usage[s])
                                /\ usage[s][Len(usage[s])] \in Request
                                /\ newest[s] = usage[s][Len(usage[s])]
          /\ usage[s] = <<>> => newest[s].status = "none"
    BY <2>3
  <2>6. statuses \in [Sessions -> Statuses]
    <3> HIDE DEF newest
    <3>1. \A s \in Sessions : newest[s].status \in Statuses
      BY <2>5 DEF Request, Statuses
    <3> QED
      BY <3>1
  <2>7. Lists(more, requested, "runtime", statuses)
    <3> HIDE DEF requested, statuses
    <3> QED
      BY <2>4, <2>6, ListingLists
  <2>8. \A s \in requested : /\ s \in Sessions /\ s \notin pass.owned
                             /\ s \notin SessionsOf(pass.runtime)
                             /\ RequestLives(usage[s], pass.turns[s], pass.at)
    BY <2>3
  <2>9. \A s \in requested : statuses[s] \in Live
    <3> SUFFICES ASSUME NEW s \in requested PROVE statuses[s] \in Live
      OBVIOUS
    <3>1. s \in Sessions /\ RequestLives(usage[s], pass.turns[s], pass.at)
      BY <2>8
    <3>2. usage[s] # <<>> /\ usage[s][Len(usage[s])].status \in Live
      BY <3>1 DEF RequestLives
    <3> QED
      BY <2>5, <3>1, <3>2
  <2>10. \A s \in ended : s \notin requested
    <3> SUFFICES ASSUME NEW s \in ended, s \in requested PROVE FALSE
      OBVIOUS
    <3>1. /\ s \in Sessions /\ RequestLives(usage[s], pass.turns[s], pass.at)
      BY <2>8
    <3>2. /\ pass.turns[s].updated # Never
          /\ \A n \in 1..Len(usage[s]) : usage[s][n].at <= pass.turns[s].updated
      BY <1>1, <2>3 DEF EndedInv
    <3> DEFINE last == usage[s][Len(usage[s])]
    <3>3. usage[s] # <<>> /\ last.at > pass.turns[s].updated
      BY <3>1, <3>2 DEF RequestLives
    <3>4. last.at <= pass.turns[s].updated /\ last \in Request
      BY <2>5, <3>1, <3>2, <3>3
    <3>5. pass.turns[s].updated \in Int /\ last.at \in Int
      <4>1. pass.turns[s] \in Turn
        BY <2>3, <3>1 DEF Pass
      <4> HIDE DEF last
      <4> QED
        BY <3>4, <4>1 DEF Turn, Moments, Never, Request
    <3> HIDE DEF last
    <3> QED
      BY <3>3, <3>4, <3>5
  <2> HIDE DEF more, requested, statuses, newest
  <2>11. /\ pass.runtime \in Seq(Task) /\ more \in Seq(Task)
         /\ Distinct(pass.runtime) /\ Distinct(more) /\ SessionsOf(more) = requested
         /\ SessionsOf(pass.runtime) \cap requested = {}
         /\ SessionsOf(pass.runtime) \cap pass.owned = {} /\ requested \cap pass.owned = {}
    BY <2>3, <2>7, <2>8 DEF Pass, Lists, ListsInv
  <2>12. /\ all \in Seq(Task) /\ Distinct(all)
         /\ SessionsOf(all) = SessionsOf(pass.runtime) \cup requested
         /\ \A k \in 1..Len(all) : \/ k \in 1..Len(pass.runtime) /\ all[k] = pass.runtime[k]
                                   \/ \E n \in 1..Len(more) : all[k] = more[n]
    <3> DEFINE first == pass.runtime
    <3> HIDE DEF first
    <3>1. first \in Seq(Task) /\ Distinct(first) /\ SessionsOf(first) \cap SessionsOf(more) = {}
      BY <2>11 DEF first
    <3>2. /\ first \o more \in Seq(Task) /\ Distinct(first \o more)
          /\ SessionsOf(first \o more) = SessionsOf(first) \cup SessionsOf(more)
          /\ \A k \in 1..Len(first \o more) :
               \/ k \in 1..Len(first) /\ (first \o more)[k] = first[k]
               \/ \E n \in 1..Len(more) : (first \o more)[k] = more[n]
      BY <2>11, <3>1, JoinedList
    <3> QED
      BY <2>11, <3>2 DEF first
  <2> HIDE DEF all
  <2>13. /\ tasks \in Seq(Task) /\ Distinct(tasks)
         /\ SessionsOf(tasks) \subseteq SessionsOf(pass.runtime) \cup requested
         /\ Len(tasks) # TaskLimit => SessionsOf(tasks) = SessionsOf(pass.runtime) \cup requested
         /\ \A k \in 1..Len(tasks) : k \in 1..Len(all) /\ tasks[k] = all[k]
    BY <2>12, FirstOfList, LimitIsPositive
  <2> HIDE DEF tasks
  <2>14. \A n \in 1..Len(tasks) : tasks[n].status \in Live
    <3> SUFFICES ASSUME NEW k \in 1..Len(tasks) PROVE tasks[k].status \in Live
      OBVIOUS
    <3>1. CASE k \in 1..Len(pass.runtime) /\ tasks[k] = pass.runtime[k]
      BY <2>3, <3>1 DEF OpenInv
    <3>2. CASE \E n \in 1..Len(more) : tasks[k] = more[n]
      <4>1. PICK n \in 1..Len(more) : tasks[k] = more[n]
        BY <3>2
      <4>2. more[n].session \in requested /\ more[n].status = statuses[more[n].session]
        BY <2>7 DEF Lists, SessionsOf
      <4> QED
        BY <2>9, <4>1, <4>2
    <3> QED
      BY <2>12, <2>13, <3>1, <3>2
  <2>15. SessionsOf(tasks) \cap pass.owned = {}
    BY <2>11, <2>13
  <2>16. \A s \in open : s \in pass.owned \cup SessionsOf(tasks) \/ Len(tasks) = TaskLimit
    BY <1>1, <2>3, <2>13 DEF OpenInv
  <2>17. \A s \in ended : s \notin SessionsOf(tasks)
    BY <2>3, <2>10, <2>13 DEF EndedInv
  <2> QED
    BY <1>1, <2>2, <2>13, <2>14, <2>15, <2>16, <2>17, RuntimeEndsKeeps
<1> QED
  BY <1>2, <1>3 DEF ReadUsage

\* The index adds to what runs, and to no session that is listed already.
LEMMA ReadIndexEnds ==
  ASSUME CollectorInv, ReadIndex
  PROVE  /\ Keep /\ pc = "index"
         /\ \/ Fail
            \/ Publish(pass.primary)
            \/ \E more \in Seq(Task) :
                 /\ Distinct(more) /\ SessionsOf(more) \cap SessionsOf(pass.primary) = {}
                 /\ \A n \in 1..Len(more) : more[n].source = "index"
                 /\ Publish(Merged(pass.primary, more))
<1> DEFINE rows == {s \in Sessions \ pass.owned : IndexListed(index[s], now)}
           statuses == [s \in Sessions |-> index[s].status]
<1>1. Keep /\ pc = "index"
  BY DEF ReadIndex
<1>2. \/ \E order \in SetToSeqs(rows) : Publish(Merged(pass.primary, Listing(order, "index", statuses)))
      \/ Publish(pass.primary) \/ Fail
  BY DEF ReadIndex
<1>3. ASSUME NEW order \in SetToSeqs(rows), Publish(Merged(pass.primary, Listing(order, "index", statuses)))
      PROVE  \E more \in Seq(Task) :
               /\ Distinct(more) /\ SessionsOf(more) \cap SessionsOf(pass.primary) = {}
               /\ \A n \in 1..Len(more) : more[n].source = "index"
               /\ Publish(Merged(pass.primary, more))
  <2> DEFINE more == Listing(order, "index", statuses)
  <2>1. index \in [Sessions -> {NoRow} \cup [status : Statuses, at : Nat]]
    BY DEF CollectorInv, CollectorTypeOK, ZCodeTypeOK
  <2>2. statuses \in [Sessions -> Statuses]
    BY <2>1 DEF NoRow, Statuses
  <2>3. rows \in SUBSET Sessions /\ rows \cap pass.owned = {}
    OBVIOUS
  <2>4. Lists(more, rows, "index", statuses)
    <3> HIDE DEF rows, statuses
    <3> QED
      BY <1>3, <2>2, <2>3, ListingLists
  <2>5. SessionsOf(pass.primary) \subseteq pass.owned
    BY DEF CollectorInv, ListsInv
  <2>6. Publish(Merged(pass.primary, more))
    BY <1>3
  <2> HIDE DEF more, rows, statuses
  <2> QED
    BY <2>3, <2>4, <2>5, <2>6 DEF Lists
<1> HIDE DEF rows, statuses
<1> QED
  BY <1>1, <1>2, <1>3

\* The index is read and the list published.
LEMMA ReadIndexKeeps == ASSUME CollectorInv, ReadIndex PROVE CollectorInv'
<1>1. Keep
  BY ReadIndexEnds
<1>2. /\ pass.primary \in Seq(Task) /\ Distinct(pass.primary) /\ pass.failed \in BOOLEAN
  BY DEF CollectorInv, CollectorTypeOK, Pass, ListsInv
<1>3. CASE Fail
  BY <1>1, <1>3, FailKeeps
<1>4. CASE Publish(pass.primary)
  BY <1>1, <1>2, <1>4, EndKeeps DEF Publish
<1>5. ASSUME NEW more \in Seq(Task),
             Distinct(more), SessionsOf(more) \cap SessionsOf(pass.primary) = {},
             Publish(Merged(pass.primary, more))
      PROVE  CollectorInv'
  <2> DEFINE all == Merged(pass.primary, more)
  <2>1. all \in Seq(Task) /\ Distinct(all)
    <3> DEFINE first == pass.primary
    <3>1. first \in Seq(Task) /\ Distinct(first) /\ SessionsOf(first) \cap SessionsOf(more) = {}
      BY <1>2, <1>5
    <3> HIDE DEF first
    <3>2. Merged(first, more) \in Seq(Task) /\ Distinct(Merged(first, more))
      BY <1>5, <3>1, MergedList
    <3> QED
      BY <3>2 DEF first
  <2>2. listed' = all /\ pc' = "idle" /\ pass' = NoPass /\ complete' = ~ pass.failed
    BY <1>5 DEF Publish
  <2> HIDE DEF all
  <2> QED
    BY <1>1, <1>2, <2>1, <2>2, EndKeeps
<1> QED
  BY <1>3, <1>4, <1>5, ReadIndexEnds

-----------------------------------------------------------------------------
(* The steps beside a pass.                                                *)

\* Every write leaves rows, requests and log entries.
LEMMA WritesKeepTypes ==
  ASSUME CollectorTypeOK,
         RotateLog \/ \E s \in Sessions : WriteGoal(s) \/ WriteRequest(s) \/ WriteIndex(s) \/ WriteLog(s)
  PROVE  ZCodeTypeOK'
<1>1. /\ now \in Nat
      /\ goals \in [Sessions -> Rows] /\ usage \in [Sessions -> Seq(Request)]
      /\ index \in [Sessions -> {NoRow} \cup [status : Statuses, at : Nat]]
      /\ log \in Seq(Seq(Entry)) /\ Len(log) # 0 /\ known \in SUBSET Sessions
  BY DEF CollectorTypeOK, ZCodeTypeOK
<1>2. {"running", "completed"} \subseteq Statuses /\ {{}, {"waiting"}} \subseteq SUBSET Statuses
  BY DEF Statuses
<1>3. CASE RotateLog
  <2>1. log' = Append(log, <<>>) /\ UNCHANGED <<goals, usage, index, known>>
    BY <1>3 DEF RotateLog
  <2>2. log' \in Seq(Seq(Entry)) /\ Len(log') # 0
    BY <1>1, <2>1
  <2> QED
    BY <1>1, <2>1, <2>2 DEF ZCodeTypeOK
<1>4. ASSUME NEW s \in Sessions, WriteGoal(s) PROVE ZCodeTypeOK'
  <2>1. PICK status \in {"running", "completed"}, todos \in {{}, {"waiting"}} :
          \/ goals' = [goals EXCEPT ![s] = [status |-> status, todos |-> todos,
                                            heartbeat |-> now, updated |-> now]]
          \/ /\ goals[s] # NoRow
             /\ goals' = [goals EXCEPT ![s].status = status, ![s].updated = now]
    BY <1>4 DEF WriteGoal
  <2>2. UNCHANGED <<usage, index, log, known>>
    BY <1>4 DEF WriteGoal
  <2>3. CASE goals' = [goals EXCEPT ![s] = [status |-> status, todos |-> todos,
                                            heartbeat |-> now, updated |-> now]]
    <3>1. [status |-> status, todos |-> todos, heartbeat |-> now, updated |-> now] \in Rows
      BY <1>1, <1>2 DEF Rows
    <3>2. goals' \in [Sessions -> Rows]
      BY <1>1, <2>3, <3>1
    <3> QED
      BY <1>1, <2>2, <3>2 DEF ZCodeTypeOK
  <2>4. CASE /\ goals[s] # NoRow
             /\ goals' = [goals EXCEPT ![s].status = status, ![s].updated = now]
    <3>1. goals[s] \in [status : Statuses, todos : SUBSET Statuses, heartbeat : Nat, updated : Nat]
      BY <1>1, <2>4 DEF Rows
    <3>2. [goals[s] EXCEPT !.status = status, !.updated = now] \in Rows
      BY <1>1, <1>2, <3>1 DEF Rows
    <3>3. goals' = [goals EXCEPT ![s] = [goals[s] EXCEPT !.status = status, !.updated = now]]
      BY <1>1, <2>4
    <3>4. goals' \in [Sessions -> Rows]
      BY <1>1, <3>2, <3>3
    <3> QED
      BY <1>1, <2>2, <3>4 DEF ZCodeTypeOK
  <2> QED
    BY <2>1, <2>3, <2>4
<1>5. ASSUME NEW s \in Sessions, WriteRequest(s) PROVE ZCodeTypeOK'
  <2>1. UNCHANGED <<goals, index, log, known>>
    BY <1>5 DEF WriteRequest
  <2>2. usage[s] \in Seq(Request) /\ "running" \in Statuses /\ "completed" \in Statuses
    BY <1>1, <1>2
  <2>3. CASE usage' = [usage EXCEPT ![s] = Append(@, [status |-> "running", at |-> now])]
    <3>1. [status |-> "running", at |-> now] \in Request
      BY <1>1, <2>2 DEF Request
    <3>2. usage' = [usage EXCEPT ![s] = Append(usage[s], [status |-> "running", at |-> now])]
      BY <1>1, <2>3
    <3>3. Append(usage[s], [status |-> "running", at |-> now]) \in Seq(Request)
      BY <2>2, <3>1
    <3>4. usage' \in [Sessions -> Seq(Request)]
      BY <1>1, <3>2, <3>3
    <3> QED
      BY <1>1, <2>1, <3>4 DEF ZCodeTypeOK
  <2>4. CASE /\ usage[s] # <<>>
             /\ usage' = [usage EXCEPT ![s][Len(usage[s])].status = "completed"]
    <3> DEFINE last == Len(usage[s])
               done == [usage[s][last] EXCEPT !.status = "completed"]
    <3>1. last \in 1..Len(usage[s]) /\ usage[s][last] \in Request
      BY <2>2, <2>4
    <3>2. done \in Request
      BY <2>2, <3>1 DEF Request
    <3>3. usage' = [usage EXCEPT ![s] = [usage[s] EXCEPT ![last] = done]]
      BY <1>1, <2>4
    <3> HIDE DEF last, done
    <3>4. [usage[s] EXCEPT ![last] = done] \in Seq(Request)
      BY <2>2, <3>1, <3>2, ExceptSeq
    <3>5. usage' \in [Sessions -> Seq(Request)]
      BY <1>1, <3>3, <3>4
    <3> QED
      BY <1>1, <2>1, <3>5 DEF ZCodeTypeOK
  <2> QED
    BY <1>5, <2>3, <2>4 DEF WriteRequest
<1>6. ASSUME NEW s \in Sessions, WriteIndex(s) PROVE ZCodeTypeOK'
  <2>1. PICK status \in {"running", "completed"} :
          index' = [index EXCEPT ![s] = [status |-> status, at |-> now]]
    BY <1>6 DEF WriteIndex
  <2>2. UNCHANGED <<goals, usage, log, known>>
    BY <1>6 DEF WriteIndex
  <2>3. [status |-> status, at |-> now] \in [status : Statuses, at : Nat]
    BY <1>1, <1>2
  <2>4. index' \in [Sessions -> {NoRow} \cup [status : Statuses, at : Nat]]
    BY <1>1, <2>1, <2>3
  <2> QED
    BY <1>1, <2>2, <2>4 DEF ZCodeTypeOK
<1>7. ASSUME NEW s \in Sessions, WriteLog(s) PROVE ZCodeTypeOK'
  <2>1. PICK event \in LogEvents :
          log' = [log EXCEPT ![Len(log)] = Append(@, [session |-> s, event |-> event, at |-> now])]
    BY <1>7 DEF WriteLog
  <2>2. UNCHANGED <<goals, usage, index, known>>
    BY <1>7 DEF WriteLog
  <2> DEFINE entry == [session |-> s, event |-> event, at |-> now]
  <2>3. entry \in Entry
    BY <1>1, <1>7, LogEventsAreEvents DEF Entry
  <2>4. Len(log) \in 1..Len(log) /\ log[Len(log)] \in Seq(Entry)
    BY <1>1
  <2> HIDE DEF entry
  <2>5. Append(log[Len(log)], entry) \in Seq(Entry)
    BY <2>3, <2>4
  <2>6. log' = [log EXCEPT ![Len(log)] = Append(log[Len(log)], entry)]
    BY <1>1, <2>1 DEF entry
  <2>7. log' \in Seq(Seq(Entry)) /\ Len(log') = Len(log)
    BY <1>1, <2>4, <2>5, <2>6, ExceptSeq
  <2> QED
    BY <1>1, <2>2, <2>7 DEF ZCodeTypeOK
<1> QED
  BY <1>3, <1>4, <1>5, <1>6, <1>7

\* A heartbeat that is old stays old.
LEMMA AgesGrow ==
  ASSUME NEW row \in Rows, NEW earlier \in Nat, NEW later \in Nat, earlier <= later,
         row # NoRow, ~ GoalFresh(row, earlier)
  PROVE  ~ GoalFresh(row, later)
<1>1. row.heartbeat \in Nat /\ HeartbeatFresh \in Nat
  BY Ages DEF Rows
<1> QED
  BY <1>1 DEF GoalFresh, Age

\* What goes on beside a pass takes sessions off the watch, and nothing of
\* what the pass carries.
LEMMA BesideKeeps ==
  ASSUME CollectorInv, UNCHANGED passVars, now' \in Nat, now <= now', ZCodeTypeOK',
         known' = known, Watch
  PROVE  CollectorInv'
<1>1. /\ pc' = pc /\ pass' = pass /\ listed' = listed /\ complete' = complete
  BY DEF passVars
<1>2. /\ CollectorTypeOK /\ ListsInv /\ OpenInv /\ EndedInv /\ now \in Nat /\ pass \in Pass
      /\ open \in SUBSET Sessions /\ ended \in SUBSET Sessions
  BY DEF CollectorInv, CollectorTypeOK
<1>3. /\ open' \subseteq open
      /\ \A s \in open' : TurnIsOpen(TurnState(s, log'), s, now')
      /\ ended' \subseteq ended
      /\ \A s \in ended' : /\ TurnHasEnded(TurnState(s, log'), usage'[s], goals'[s], now')
                           /\ usage'[s] = usage[s]
  <2> DEFINE turns == [s \in Sessions |-> IF s \in open \cup ended THEN TurnState(s, log') ELSE NoTurn]
  <2>1. /\ open' = {s \in open : TurnIsOpen(turns[s], s, now')}
        /\ ended' = {s \in ended : /\ TurnHasEnded(turns[s], usage'[s], goals'[s], now')
                                   /\ usage'[s] = usage[s]}
    BY DEF Watch
  <2>2. \A s \in open \cup ended : turns[s] = TurnState(s, log')
    BY <1>2
  <2> HIDE DEF turns
  <2> QED
    BY <2>1, <2>2
<1>4. CollectorTypeOK'
  BY <1>1, <1>2, <1>3 DEF CollectorTypeOK
<1>5. ListsInv'
  BY <1>1, <1>2 DEF ListsInv
<1>6. OpenInv'
  <2>1. \A s \in open' : TurnIsOpen(TurnState(s, log), s, now)'
    BY <1>3 DEF TurnIsOpen
  <2>2. \A s \in open' : s \in open
    BY <1>3
  <2> QED
    BY <1>1, <1>2, <2>1, <2>2 DEF OpenInv
<1>7. EndedInv'
  <2>1. \A s \in ended' : s \in ended /\ s \in Sessions
    BY <1>2, <1>3
  <2>2. ASSUME NEW s \in ended', pc = "goalTasks"
        PROVE  pass.rows[s] = NoRow \/ ~ GoalFresh(pass.rows[s], now')
    <3>1. pass.rows[s] \in Rows
      BY <1>2, <2>1 DEF Pass
    <3>2. pass.rows[s] = NoRow \/ ~ GoalFresh(pass.rows[s], now)
      BY <1>2, <2>1, <2>2 DEF EndedInv
    <3> QED
      BY <1>2, <3>1, <3>2, AgesGrow
  <2>3. \A s \in ended' : TurnHasEnded(TurnState(s, log), usage[s], goals[s], now)'
    BY <1>3
  <2>4. ASSUME NEW s \in ended', pc = "usage"
        PROVE  /\ pass.turns[s].updated # Never
               /\ \A n \in 1..Len(usage'[s]) : usage'[s][n].at <= pass.turns[s].updated
    BY <1>2, <1>3, <2>1, <2>4 DEF EndedInv
  <2>5. \A s \in ended' : /\ ShowsNoWork(pass.goals, s) /\ ShowsNoWork(pass.primary, s)
                          /\ s \notin SessionsOf(pass.runtime)
    BY <1>2, <2>1 DEF EndedInv
  <2> QED
    BY <1>1, <2>2, <2>3, <2>4, <2>5 DEF EndedInv
<1> QED
  BY <1>4, <1>5, <1>6, <1>7 DEF CollectorInv

\* ZCode writes.
LEMMA ZCodeStepKeeps == ASSUME CollectorInv, ZCodeStep PROVE CollectorInv'
<1>1. /\ RotateLog \/ \E s \in Sessions : WriteGoal(s) \/ WriteRequest(s) \/ WriteIndex(s) \/ WriteLog(s)
      /\ now' = now /\ UNCHANGED passVars /\ Watch
  BY DEF ZCodeStep
<1>2. CollectorTypeOK /\ now \in Nat
  BY DEF CollectorInv, CollectorTypeOK
<1>3. ZCodeTypeOK'
  BY <1>1, <1>2, WritesKeepTypes
<1>4. known' = known
  BY <1>1 DEF RotateLog, WriteGoal, WriteRequest, WriteIndex, WriteLog
<1>5. now' \in Nat /\ now <= now'
  BY <1>1, <1>2
<1> QED
  BY <1>1, <1>3, <1>4, <1>5, BesideKeeps

\* Time passes.
LEMMA TickKeeps == ASSUME CollectorInv, Tick PROVE CollectorInv'
<1>1. now' = now + 1 /\ UNCHANGED zcodeVars /\ UNCHANGED passVars /\ Watch
  BY DEF Tick
<1>2. ZCodeTypeOK /\ now \in Nat
  BY DEF CollectorInv, CollectorTypeOK
<1>3. ZCodeTypeOK' /\ known' = known
  BY <1>1, <1>2 DEF ZCodeTypeOK, zcodeVars
<1>4. now' \in Nat /\ now <= now'
  BY <1>1, <1>2
<1> QED
  BY <1>1, <1>3, <1>4, BesideKeeps

\* Every step keeps the invariant.
LEMMA NextKeepsCollectorInv == CollectorInv /\ [CollectorNext]_vars => CollectorInv'
<1> SUFFICES ASSUME CollectorInv, [CollectorNext]_vars PROVE CollectorInv'
  OBVIOUS
<1>1. CASE Begin
  BY <1>1, BeginKeeps
<1>2. CASE ReadGoals
  BY <1>2, ReadGoalsKeeps
<1>3. CASE GoalTasks
  BY <1>3, GoalTasksKeeps
<1>4. CASE ReadTurns
  BY <1>4, ReadTurnsKeeps
<1>5. CASE ReadUsage
  BY <1>5, ReadUsageKeeps
<1>6. CASE ReadIndex
  BY <1>6, ReadIndexKeeps
<1>7. CASE ZCodeStep
  BY <1>7, ZCodeStepKeeps
<1>8. CASE Tick
  BY <1>8, TickKeeps
<1>9. CASE UNCHANGED vars
  <2>1. /\ now' = now /\ goals' = goals /\ usage' = usage /\ index' = index /\ log' = log
        /\ known' = known /\ pc' = pc /\ pass' = pass /\ listed' = listed
        /\ complete' = complete /\ open' = open /\ ended' = ended
    BY <1>9 DEF vars, zcodeVars, passVars
  <2>2. CollectorTypeOK'
    BY <2>1 DEF CollectorInv, CollectorTypeOK, ZCodeTypeOK
  <2>3. ListsInv'
    BY <2>1 DEF CollectorInv, ListsInv
  <2>4. OpenInv'
    BY <2>1 DEF CollectorInv, OpenInv, TurnIsOpen
  <2>5. EndedInv'
    BY <2>1 DEF CollectorInv, EndedInv
  <2> QED
    BY <2>2, <2>3, <2>4, <2>5 DEF CollectorInv
<1> QED
  BY <1>1, <1>2, <1>3, <1>4, <1>5, <1>6, <1>7, <1>8, <1>9 DEF CollectorNext, CollectorStep

\* The inductive invariant holds, whatever ZCode writes between two reads.
THEOREM CollectorInvariant == CollectorSpec => []CollectorInv
<1> QED
  BY InitCollectorInv, NextKeepsCollectorInv, PTL DEF CollectorSpec

-----------------------------------------------------------------------------
(* The results.                                                            *)

\* One task per session in every list that Collect returns, although Goals,
\* turns, requests and index are read one after the other.
THEOREM OneTask == CollectorSpec => []OneTaskPerSession
<1>1. CollectorInv => OneTaskPerSession
  BY DEF CollectorInv, ListsInv, Distinct, OneTaskPerSession
<1> QED
  BY <1>1, CollectorInvariant, PTL

\* readTail and the limit of two files only hide work: the state machine keeps
\* the order of two states that see the same entries.
THEOREM TailHidesOnly == CollectorSpec => []TailShowsNoMore
<1>1. CollectorInv => TailShowsNoMore
  <2> SUFFICES ASSUME CollectorInv,
                      \A n \in 2..Len(log) : n + MaxFiles > Len(log) + 1 => Len(log[n]) <= TailLength,
                      NEW s \in Sessions, Working(TurnState(s, log))
               PROVE  Working(TurnOf(s, FlattenSeq(log)))
    BY DEF TailShowsNoMore
  <2>1. log \in Seq(Seq(Entry))
    BY DEF CollectorInv, CollectorTypeOK, ZCodeTypeOK
  <2>2. NoGap(log)
    BY DEF NoGap
  <2>3. Window(log) \in Seq(Entry) /\ EndsWith(FlattenSeq(log), Window(log))
    BY <2>1, <2>2, WindowEndsLog
  <2>4. PICK head \in Seq(Entry) : FlattenSeq(log) = head \o Window(log)
    BY <2>3 DEF EndsWith
  <2>5. Working(TurnOf(s, Window(log)))
    BY DEF TurnState
  <2>6. Working(TurnOf(s, head \o Window(log)))
    BY <2>3, <2>5, SuffixShowsNoMore
  <2> QED
    BY <2>4, <2>6
<1> QED
  BY <1>1, CollectorInvariant, PTL

\* A pass ends by failing or by reading the index.
LEMMA EndsOfPass ==
  ASSUME CollectorInv, [CollectorNext]_vars, pc # "idle", pc' = "idle"
  PROVE  (Fail /\ Keep) \/ ReadIndex
<1>1. ~ Begin /\ ~ GoalTasks
  BY DEF Begin, GoalTasks
<1>2. CASE ReadGoals
  BY <1>2 DEF ReadGoals
<1>3. CASE ReadTurns
  <2>1. ASSUME NEW tasks, RuntimeEnds(tasks) PROVE FALSE
    BY <2>1 DEF RuntimeEnds
  <2>2. RuntimeFails /\ Keep
    BY <1>3, <2>1 DEF ReadTurns
  <2> QED
    BY <2>2 DEF RuntimeFails
<1>4. CASE ReadUsage
  <2>1. ASSUME NEW tasks, RuntimeEnds(tasks) PROVE FALSE
    BY <2>1 DEF RuntimeEnds
  <2>2. RuntimeFails /\ Keep
    BY <1>4, <2>1 DEF ReadUsage
  <2> QED
    BY <2>2 DEF RuntimeFails
<1>5. CASE ZCodeStep \/ Tick \/ UNCHANGED vars
  BY <1>5 DEF ZCodeStep, Tick, vars, passVars
<1> QED
  BY <1>1, <1>2, <1>3, <1>4, <1>5 DEF CollectorNext, CollectorStep

\* What is published begins with the tasks that run, as far as the list goes.
LEMMA PublishedLists ==
  ASSUME CollectorInv, ReadIndex, ~ Fail
  PROVE  /\ complete' = ~ pass.failed /\ open' = open /\ ended' = ended /\ pc = "index"
         /\ SessionsOf(pass.primary) \subseteq SessionsOf(listed')
         /\ Len(pass.primary) = TaskLimit =>
              Len(listed') = TaskLimit /\ SessionsOf(listed') = SessionsOf(pass.primary)
         /\ \A k \in 1..Len(listed') :
              \/ \E n \in 1..Len(pass.primary) : listed'[k] = pass.primary[n]
              \/ listed'[k].source = "index" /\ listed'[k].session \notin SessionsOf(pass.primary)
<1>1. /\ Keep /\ pc = "index"
      /\ \/ Publish(pass.primary)
         \/ \E more \in Seq(Task) :
              /\ Distinct(more) /\ SessionsOf(more) \cap SessionsOf(pass.primary) = {}
              /\ \A n \in 1..Len(more) : more[n].source = "index"
              /\ Publish(Merged(pass.primary, more))
  BY ReadIndexEnds
<1>2. open' = open /\ ended' = ended
  BY <1>1, KeepKeeps
<1>3. /\ pass.primary \in Seq(Task) /\ Len(pass.primary) <= TaskLimit
  BY DEF CollectorInv, CollectorTypeOK, Pass, ListsInv
<1>4. CASE Publish(pass.primary)
  <2>1. listed' = pass.primary /\ complete' = ~ pass.failed
    BY <1>4 DEF Publish
  <2> QED
    BY <1>1, <1>2, <2>1
<1>5. ASSUME NEW more \in Seq(Task), SessionsOf(more) \cap SessionsOf(pass.primary) = {},
             \A n \in 1..Len(more) : more[n].source = "index",
             Publish(Merged(pass.primary, more))
      PROVE  /\ complete' = ~ pass.failed
             /\ SessionsOf(pass.primary) \subseteq SessionsOf(listed')
             /\ Len(pass.primary) = TaskLimit =>
                  Len(listed') = TaskLimit /\ SessionsOf(listed') = SessionsOf(pass.primary)
             /\ \A k \in 1..Len(listed') :
                  \/ \E n \in 1..Len(pass.primary) : listed'[k] = pass.primary[n]
                  \/ listed'[k].source = "index" /\ listed'[k].session \notin SessionsOf(pass.primary)
  <2> DEFINE first == pass.primary
  <2>1. listed' = Merged(first, more) /\ complete' = ~ pass.failed
    BY <1>5 DEF Publish
  <2>2. first \in Seq(Task) /\ Len(first) <= TaskLimit /\ SessionsOf(more) \cap SessionsOf(first) = {}
    BY <1>3, <1>5
  <2> HIDE DEF first
  <2>3. /\ SessionsOf(first) \subseteq SessionsOf(Merged(first, more))
        /\ Len(first) = TaskLimit =>
             Len(Merged(first, more)) = TaskLimit
             /\ SessionsOf(Merged(first, more)) = SessionsOf(first)
        /\ \A k \in 1..Len(Merged(first, more)) :
             \/ \E n \in 1..Len(first) : Merged(first, more)[k] = first[n]
             \/ \E n \in 1..Len(more) : Merged(first, more)[k] = more[n]
    BY <2>2, MergedList
  <2>4. \A n \in 1..Len(more) : more[n].source = "index" /\ more[n].session \notin SessionsOf(first)
    BY <1>5, <2>2 DEF SessionsOf
  <2>5. \A k \in 1..Len(listed') :
          \/ \E n \in 1..Len(first) : listed'[k] = first[n]
          \/ listed'[k].source = "index" /\ listed'[k].session \notin SessionsOf(first)
    BY <2>1, <2>3, <2>4
  <2> QED
    BY <2>1, <2>3, <2>5 DEF first
<1> QED
  BY <1>1, <1>2, <1>4, <1>5

\* An active turn is listed as work although it is read after its Goal row and
\* before the index, unless the list is full.
THEOREM ActiveListed == CollectorSpec => ActiveTurnIsListed
<1>1. ASSUME CollectorInv, [CollectorNext]_vars,
             NEW s \in Sessions, pc # "idle", pc' = "idle", complete', s \in open
      PROVE  \/ \E n \in 1..Len(listed') : listed'[n].session = s /\ listed'[n].status \in Live
             \/ Len(listed') = TaskLimit /\ s \notin SessionsOf(listed')
  <2>1. ~ Fail
    BY <1>1 DEF Fail
  <2>2. ReadIndex
    BY <1>1, <2>1, EndsOfPass
  <2>3. /\ complete' = ~ pass.failed /\ pc = "index"
        /\ SessionsOf(pass.primary) \subseteq SessionsOf(listed')
        /\ Len(pass.primary) = TaskLimit =>
             Len(listed') = TaskLimit /\ SessionsOf(listed') = SessionsOf(pass.primary)
        /\ \A k \in 1..Len(listed') :
             \/ \E n \in 1..Len(pass.primary) : listed'[k] = pass.primary[n]
             \/ listed'[k].source = "index" /\ listed'[k].session \notin SessionsOf(pass.primary)
    BY <1>1, <2>1, <2>2, PublishedLists
  <2>4. /\ ShowsLive(pass.primary, s)
        /\ s \in SessionsOf(pass.primary) \/ Len(pass.primary) = TaskLimit
    BY <1>1, <2>3 DEF CollectorInv, OpenInv
  <2>5. CASE s \in SessionsOf(pass.primary)
    <3>1. PICK k \in 1..Len(listed') : listed'[k].session = s
      BY <2>3, <2>5 DEF SessionsOf
    <3>2. PICK n \in 1..Len(pass.primary) : listed'[k] = pass.primary[n]
      BY <2>3, <2>5, <3>1
    <3>3. listed'[k].status \in Live
      BY <2>4, <3>1, <3>2 DEF ShowsLive
    <3> QED
      BY <3>1, <3>3
  <2>6. CASE s \notin SessionsOf(pass.primary)
    BY <2>3, <2>4, <2>6
  <2> QED
    BY <2>5, <2>6
<1>2. CollectorInv /\ [CollectorNext]_vars =>
        [\A s \in Sessions :
           (pc # "idle" /\ pc' = "idle" /\ complete' /\ s \in open) =>
             \/ \E n \in 1..Len(listed') : listed'[n].session = s /\ listed'[n].status \in Live
             \/ Len(listed') = TaskLimit /\ s \notin SessionsOf(listed')]_vars
  BY <1>1
<1> QED
  BY <1>2, CollectorInvariant, PTL DEF CollectorSpec, ActiveTurnIsListed

\* A turn that had ended comes back as work from no source but the index.
THEOREM EndedStays == CollectorSpec => EndedTurnStaysEnded
<1>1. ASSUME CollectorInv, [CollectorNext]_vars,
             NEW s \in Sessions, pc # "idle", pc' = "idle", s \in ended,
             NEW k \in 1..Len(listed'), listed'[k].session = s, listed'[k].status \in Live
      PROVE  listed'[k].source = "index"
  <2>1. CASE Fail
    <3>1. listed' = <<>>
      BY <1>1, <2>1 DEF Fail, CollectorInv, ListsInv
    <3>2. 1..Len(listed') = {}
      BY <3>1
    <3> QED
      BY <1>1, <3>2
  <2>2. CASE ~ Fail
    <3>1. ReadIndex
      BY <1>1, <2>2, EndsOfPass
    <3>2. \/ \E n \in 1..Len(pass.primary) : listed'[k] = pass.primary[n]
          \/ listed'[k].source = "index"
      BY <1>1, <2>2, <3>1, PublishedLists
    <3>3. ShowsNoWork(pass.primary, s)
      BY <1>1 DEF CollectorInv, EndedInv
    <3> QED
      BY <1>1, <3>2, <3>3 DEF ShowsNoWork
  <2> QED
    BY <2>1, <2>2
<1>2. CollectorInv /\ [CollectorNext]_vars =>
        [\A s \in Sessions :
           (pc # "idle" /\ pc' = "idle" /\ s \in ended) =>
             \A n \in 1..Len(listed') :
               (listed'[n].session = s /\ listed'[n].status \in Live)
                 => listed'[n].source = "index"]_vars
  BY <1>1
<1> QED
  BY <1>2, CollectorInvariant, PTL DEF CollectorSpec, EndedTurnStaysEnded

-----------------------------------------------------------------------------
(* The state machine of the log against what it stands for.                *)

\* Among the first k entries, an entry of the kind is not followed by one of
\* the other kind.
LastUpTo(s, entries, kind, other, k) ==
  \E n \in 1..k :
    /\ entries[n].session = s /\ entries[n].event = kind
    /\ \A m \in (n + 1)..k : entries[m].session = s => entries[m].event # other

\* One more entry decides, or leaves it.
LEMMA LastGrows ==
  ASSUME NEW s, NEW entries, NEW kind, NEW other, NEW k \in Nat, kind # other
  PROVE  /\ ~ LastUpTo(s, entries, kind, other, 0)
         /\ LastUpTo(s, entries, kind, other, k + 1) <=>
              IF entries[k + 1].session = s /\ entries[k + 1].event = kind THEN TRUE
              ELSE IF entries[k + 1].session = s /\ entries[k + 1].event = other THEN FALSE
              ELSE LastUpTo(s, entries, kind, other, k)
<1> DEFINE Ours(n) == entries[n].session = s
<1>1. ~ LastUpTo(s, entries, kind, other, 0)
  BY DEF LastUpTo
<1>2. ASSUME Ours(k + 1), entries[k + 1].event = kind
      PROVE  LastUpTo(s, entries, kind, other, k + 1)
  <2>1. k + 1 \in 1..(k + 1) /\ ((k + 1) + 1)..(k + 1) = {}
    OBVIOUS
  <2> QED
    BY <1>2, <2>1 DEF LastUpTo
<1>3. ASSUME Ours(k + 1), entries[k + 1].event = other, LastUpTo(s, entries, kind, other, k + 1)
      PROVE  FALSE
  <2>1. PICK n \in 1..(k + 1) :
          /\ entries[n].event = kind
          /\ \A m \in (n + 1)..(k + 1) : entries[m].session = s => entries[m].event # other
    BY <1>3 DEF LastUpTo
  <2>2. n # k + 1
    BY <1>3, <2>1
  <2>3. k + 1 \in (n + 1)..(k + 1)
    BY <2>2
  <2> QED
    BY <1>3, <2>1, <2>3
<1>4. ASSUME ~ (Ours(k + 1) /\ entries[k + 1].event \in {kind, other})
      PROVE  LastUpTo(s, entries, kind, other, k + 1) <=> LastUpTo(s, entries, kind, other, k)
  <2>1. ASSUME LastUpTo(s, entries, kind, other, k + 1) PROVE LastUpTo(s, entries, kind, other, k)
    <3>1. PICK n \in 1..(k + 1) :
            /\ Ours(n) /\ entries[n].event = kind
            /\ \A m \in (n + 1)..(k + 1) : entries[m].session = s => entries[m].event # other
      BY <2>1 DEF LastUpTo
    <3>2. n \in 1..k /\ (n + 1)..k \subseteq (n + 1)..(k + 1)
      <4>1. n # k + 1
        BY <1>4, <3>1
      <4> QED
        BY <4>1
    <3> QED
      BY <3>1, <3>2 DEF LastUpTo
  <2>2. ASSUME LastUpTo(s, entries, kind, other, k) PROVE LastUpTo(s, entries, kind, other, k + 1)
    <3>1. PICK n \in 1..k :
            /\ Ours(n) /\ entries[n].event = kind
            /\ \A m \in (n + 1)..k : entries[m].session = s => entries[m].event # other
      BY <2>2 DEF LastUpTo
    <3>2. n \in 1..(k + 1) /\ \A m \in (n + 1)..(k + 1) : m \in (n + 1)..k \/ m = k + 1
      OBVIOUS
    <3>3. \A m \in (n + 1)..(k + 1) : entries[m].session = s => entries[m].event # other
      BY <1>4, <3>1, <3>2
    <3> QED
      BY <3>1, <3>2, <3>3 DEF LastUpTo
  <2> QED
    BY <2>1, <2>2
<1> QED
  BY <1>1, <1>2, <1>3, <1>4

\* readTurnStates for every log: the last start or end of a turn decides
\* whether it is open, and the last word on a task whether that runs.
THEOREM LastWordDecides ==
  ASSUME NEW s, NEW entries \in Seq(Entry)
  PROVE  /\ TurnOf(s, entries).open <=>
              LastUpTo(s, entries, "turn.started", "turn.ended", Len(entries))
         /\ TurnOf(s, entries).task <=>
              LastUpTo(s, entries, "task.running", "task.terminal", Len(entries))
<1> DEFINE N == Len(entries)
           Open(k) == LastUpTo(s, entries, "turn.started", "turn.ended", k)
           Runs(k) == LastUpTo(s, entries, "task.running", "task.terminal", k)
<1>1. N \in Nat /\ \A n \in 1..N : entries[n] \in Entry
  OBVIOUS
<1>2. PICK turn : /\ turn \in [0..N -> Turn]
                  /\ turn[0] = NoTurn
                  /\ \A n \in 1..N : turn[n] = Stepped(s, entries, n, turn[n - 1])
                  /\ TurnOf(s, entries) = turn[N]
  BY TurnOfEntries
<1> DEFINE Holds == {k \in 0..N : (turn[k].open <=> Open(k)) /\ (turn[k].task <=> Runs(k))}
<1> HIDE DEF N
<1>3. 0 \in Holds
  <2>1. 0 \in 0..N
    BY <1>1
  <2>2. ~ Open(0) /\ ~ Runs(0)
    BY DEF LastUpTo
  <2> HIDE DEF Open, Runs
  <2> QED
    BY <1>2, <2>1, <2>2 DEF NoTurn
<1>4. \A k \in 0..N : k \in Holds /\ k < N => k + 1 \in Holds
  <2> SUFFICES ASSUME NEW k \in 0..N, turn[k].open <=> Open(k), turn[k].task <=> Runs(k), k < N
               PROVE  k + 1 \in 0..N /\ (turn[k + 1].open <=> Open(k + 1))
                      /\ (turn[k + 1].task <=> Runs(k + 1))
    OBVIOUS
  <2> DEFINE entry == entries[k + 1]
  <2>1. k \in Nat /\ k + 1 \in 0..N /\ k + 1 \in 1..N /\ (k + 1) - 1 = k /\ entry \in Entry
    BY <1>1
  <2>2. turn[k + 1] = Stepped(s, entries, k + 1, turn[k]) /\ turn[k] \in Turn
    BY <1>2, <2>1
  <2>3. Open(k + 1) <=> IF entry.session = s /\ entry.event = "turn.started" THEN TRUE
                        ELSE IF entry.session = s /\ entry.event = "turn.ended" THEN FALSE
                        ELSE Open(k)
    BY <2>1, LastGrows
  <2>4. Runs(k + 1) <=> IF entry.session = s /\ entry.event = "task.running" THEN TRUE
                        ELSE IF entry.session = s /\ entry.event = "task.terminal" THEN FALSE
                        ELSE Runs(k)
    BY <2>1, LastGrows
  <2>5. turn[k + 1] = IF entry.session = s THEN Applied(turn[k], entry) ELSE turn[k]
    BY <2>2 DEF Stepped
  <2> HIDE DEF Open, Runs, entry
  <2>6. CASE entry.session = s
    <3>1. /\ turn[k + 1].open =
               IF entry.event = "turn.started" THEN TRUE
               ELSE IF entry.event = "turn.ended" THEN FALSE ELSE turn[k].open
          /\ turn[k + 1].task =
               IF entry.event = "task.running" THEN TRUE
               ELSE IF entry.event = "task.terminal" THEN FALSE ELSE turn[k].task
      <4> DEFINE t == turn[k]
      <4>1. t \in Turn /\ turn[k + 1] = Applied(t, entry)
        BY <2>2, <2>5, <2>6
      <4> HIDE DEF t
      <4>2. /\ Applied(t, entry).open =
                 IF entry.event = "turn.started" THEN TRUE
                 ELSE IF entry.event = "turn.ended" THEN FALSE ELSE t.open
            /\ Applied(t, entry).task =
                 IF entry.event = "task.running" THEN TRUE
                 ELSE IF entry.event = "task.terminal" THEN FALSE ELSE t.task
        BY <2>1, <4>1, AppliedSigns
      <4> QED
        BY <4>1, <4>2 DEF t
    <3> QED
      BY <2>1, <2>3, <2>4, <2>6, <3>1
  <2>7. CASE entry.session # s
    BY <2>1, <2>3, <2>4, <2>5, <2>7
  <2> QED
    BY <2>6, <2>7
<1>5. N \in Holds
  <2>1. 0..N \subseteq Holds
    <3> HIDE DEF Holds
    <3> QED
      BY <1>1, <1>3, <1>4, InductionUpTo
  <2>2. N \in 0..N
    BY <1>1
  <2> QED
    BY <2>1, <2>2
<1> QED
  BY <1>2, <1>5 DEF N

\* The time a period of work began is known and not after its last sign, in
\* every log that is written in the order of its clock: the duration that is
\* shown is never negative.
THEOREM WorkHasBegun ==
  ASSUME NEW s, NEW entries \in Seq(Entry),
         \A m, n \in 1..Len(entries) : m < n => entries[m].at <= entries[n].at
  PROVE  Working(TurnOf(s, entries)) =>
           /\ TurnOf(s, entries).started # Never
           /\ TurnOf(s, entries).started <= TurnOf(s, entries).updated
<1> DEFINE N == Len(entries)
<1>1. /\ N \in Nat /\ \A n \in 1..N : entries[n] \in Entry
      /\ \A m, n \in 1..N : m < n => entries[m].at <= entries[n].at
  OBVIOUS
<1>2. PICK turn : /\ turn \in [0..N -> Turn]
                  /\ turn[0] = NoTurn
                  /\ \A n \in 1..N : turn[n] = Stepped(s, entries, n, turn[n - 1])
                  /\ TurnOf(s, entries) = turn[N]
  BY TurnOfEntries
<1> DEFINE Begun(t) == Working(t) => t.started # Never /\ t.started <= t.updated
           Past(t, k) == \A n \in 1..N : n > k => t.updated <= entries[n].at
           Holds == {k \in 0..N : Begun(turn[k]) /\ Past(turn[k], k)}
<1> HIDE DEF N
<1>3. 0 \in Holds
  <2>1. 0 \in 0..N /\ ~ Working(NoTurn)
    BY <1>1 DEF NoTurn, Working
  <2>2. \A n \in 1..N : NoTurn.updated <= entries[n].at
    BY <1>1 DEF NoTurn, Never, Entry
  <2> QED
    BY <1>2, <2>1, <2>2
<1>4. ASSUME NEW t \in Turn, NEW e \in Entry, Begun(t), t.updated <= e.at
      PROVE  Begun(Applied(t, e)) /\ Applied(t, e).updated \in {t.updated, e.at}
  <2>1. /\ t.started \in Int /\ t.updated \in Int /\ e.at \in Nat /\ e.at # Never
        /\ t.tracked \in Nat
    BY DEF Turn, Entry, Moments, Never
  <2>2. t = [open |-> t.open, started |-> t.started, updated |-> t.updated,
             task |-> t.task, tracked |-> t.tracked]
    BY DEF Turn
  <2>3. StartOf(t, e.at) # Never /\ StartOf(t, e.at) <= e.at
    BY <1>4, <2>1 DEF StartOf
  <2>4. Working(t) => t.started # Never /\ t.started <= e.at
    BY <1>4, <2>1
  <2> HIDE DEF Begun
  <2>5. CASE e.event = "turn.started"
    <3>1. Applied(t, e) = [t EXCEPT !.open = TRUE, !.started = StartOf(t, e.at), !.updated = e.at]
      BY <2>5 DEF Applied
    <3> QED
      BY <2>2, <2>3, <3>1 DEF Begun
  <2>6. CASE e.event = "turn.ended"
    <3>1. Applied(t, e) = [t EXCEPT !.open = FALSE, !.updated = e.at]
      BY <2>6 DEF Applied
    <3>2. Working(Applied(t, e)) => Working(t)
      BY <2>2, <3>1 DEF Working
    <3> QED
      BY <2>2, <2>4, <3>1, <3>2 DEF Begun
  <2>7. CASE e.event = "task.running"
    <3>1. Applied(t, e) = [t EXCEPT !.task = TRUE, !.updated = e.at,
                                    !.started = IF Working(t) THEN t.started ELSE e.at]
      BY <2>7 DEF Applied
    <3>2. e.at <= e.at
      BY <2>1
    <3> QED
      BY <2>1, <2>2, <2>4, <3>1, <3>2 DEF Begun
  <2>8. CASE e.event = "task.terminal"
    <3>1. Applied(t, e) = [t EXCEPT !.task = FALSE, !.updated = e.at]
      BY <2>8 DEF Applied
    <3>2. Working(Applied(t, e)) => Working(t)
      BY <2>2, <3>1 DEF Working
    <3> QED
      BY <2>2, <2>4, <3>1, <3>2 DEF Begun
  <2>9. CASE e.event = "tracking.started"
    <3> DEFINE more == IF t.tracked < TrackLimit THEN t.tracked + 1 ELSE t.tracked
    <3>1. Applied(t, e) = [t EXCEPT !.tracked = more, !.started = StartOf(t, e.at), !.updated = e.at]
      BY <2>9 DEF Applied
    <3> HIDE DEF more
    <3> QED
      BY <2>2, <2>3, <3>1 DEF Begun
  <2>10. CASE e.event = "tracking.terminal"
    <3> DEFINE fewer == IF t.tracked > 0 THEN t.tracked - 1 ELSE 0
    <3>1. Applied(t, e) = [t EXCEPT !.tracked = fewer, !.updated = e.at]
      BY <2>10 DEF Applied
    <3>2. fewer > 0 => t.tracked > 0
      BY <2>1
    <3> HIDE DEF fewer
    <3>3. Working(Applied(t, e)) => Working(t)
      BY <2>2, <3>1, <3>2 DEF Working
    <3> QED
      BY <2>2, <2>4, <3>1, <3>3 DEF Begun
  <2>11. CASE e.event \notin {"turn.started", "turn.ended", "task.running", "task.terminal",
                              "tracking.started", "tracking.terminal"}
    <3>1. Applied(t, e) \in {t, [t EXCEPT !.updated = e.at]}
      BY <2>11 DEF Applied
    <3>2. CASE Applied(t, e) = t
      BY <1>4, <3>2
    <3>3. CASE Applied(t, e) = [t EXCEPT !.updated = e.at]
      <4>1. Working(Applied(t, e)) => Working(t)
        BY <2>2, <3>3 DEF Working
      <4> QED
        BY <2>2, <2>4, <3>3, <4>1 DEF Begun
    <3> QED
      BY <3>1, <3>2, <3>3
  <2> QED
    BY <2>5, <2>6, <2>7, <2>8, <2>9, <2>10, <2>11
<1>5. \A k \in 0..N : k \in Holds /\ k < N => k + 1 \in Holds
  <2> SUFFICES ASSUME NEW k \in 0..N, Begun(turn[k]), Past(turn[k], k), k < N
               PROVE  k + 1 \in 0..N /\ Begun(turn[k + 1]) /\ Past(turn[k + 1], k + 1)
    OBVIOUS
  <2> DEFINE e == entries[k + 1]
  <2>1. /\ k + 1 \in 0..N /\ k + 1 \in 1..N /\ (k + 1) - 1 = k /\ k + 1 > k
        /\ \A n \in 1..N : n > k + 1 => n > k /\ k + 1 < n
    BY <1>1
  <2>2. turn[k + 1] = Stepped(s, entries, k + 1, turn[k]) /\ turn[k] \in Turn
    BY <1>2, <2>1
  <2>3. e \in Entry /\ turn[k].updated <= e.at
    BY <1>1, <2>1
  <2>4. \A n \in 1..N : n > k + 1 => e.at <= entries[n].at
    BY <1>1, <2>1
  <2>5. turn[k + 1] = IF e.session = s THEN Applied(turn[k], e) ELSE turn[k]
    BY <2>2 DEF Stepped
  <2>6. Begun(Applied(turn[k], e)) /\ Applied(turn[k], e).updated \in {turn[k].updated, e.at}
    BY <1>4, <2>2, <2>3
  <2> HIDE DEF Begun, e
  <2>7. Begun(turn[k + 1]) /\ turn[k + 1].updated \in {turn[k].updated, e.at}
    BY <2>5, <2>6
  <2> QED
    BY <2>1, <2>4, <2>7
<1>6. N \in Holds
  <2>1. 0..N \subseteq Holds
    <3> HIDE DEF Holds
    <3> QED
      BY <1>1, <1>3, <1>5, InductionUpTo
  <2>2. N \in 0..N
    BY <1>1
  <2> QED
    BY <2>1, <2>2
<1> QED
  BY <1>2, <1>6 DEF N
=============================================================================
