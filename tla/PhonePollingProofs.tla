------------------------- MODULE PhonePollingProofs -------------------------
(***************************************************************************)
(* What the phone's polling loop and its speech queue guarantee, for any   *)
(* addresses, any number of connects and texts, and any limit of the       *)
(* queue of speech.                                                        *)
(***************************************************************************)
EXTENDS PhonePolling, NumberFacts

-----------------------------------------------------------------------------
(* Speech.                                                                  *)

Fewer(n, m) == IF n < m THEN n ELSE m

\* A queue holds the newest texts there were, in the order they were given.
NewestRun(queue, texts) ==
  \A n \in 1..Len(queue) : queue[n] = texts - Len(queue) + n

\* Texts wait while the engine starts, or for good when it is unusable, and are
\* spoken once it is ready; the queue in use holds the newest, all of them up to
\* the limit.
VoiceInv(v) ==
  /\ v \in Voice /\ Len(v.pending) <= MaxPending
  /\ v.engine = "ready" => v.pending = <<>> /\ Len(v.spoken) >= Fewer(v.texts, MaxPending)
  /\ v.engine # "ready" => v.spoken = <<>>
  /\ v.engine = "starting" => Len(v.pending) >= Fewer(v.texts, MaxPending)
  /\ NewestRun(v.spoken, v.texts)
  /\ NewestRun(v.pending, v.texts)

\* A new notifier has not been told anything.
LEMMA NewVoiceInv == VoiceInv(NewVoice)
<1>1. NewVoice \in Voice
  BY SpeechBounds DEF NewVoice, Voice
<1> QED
  BY <1>1, SpeechBounds DEF NewVoice, VoiceInv, Fewer, NewestRun

\* A queue stays one when the next text is added.
LEMMA RunGrows ==
  ASSUME NEW queue \in Seq(1..MaxTexts), NEW texts \in Nat, texts < MaxTexts,
         NewestRun(queue, texts)
  PROVE  /\ Append(queue, texts + 1) \in Seq(1..MaxTexts)
         /\ Len(Append(queue, texts + 1)) = Len(queue) + 1
         /\ NewestRun(Append(queue, texts + 1), texts + 1)
<1> DEFINE longer == Append(queue, texts + 1)
<1>1. texts + 1 \in 1..MaxTexts /\ Len(queue) \in Nat
  BY SpeechBounds
<1>2. /\ longer \in Seq(1..MaxTexts) /\ Len(longer) = Len(queue) + 1
      /\ \A n \in 1..Len(queue) : longer[n] = queue[n]
      /\ longer[Len(queue) + 1] = texts + 1
  BY <1>1
<1> HIDE DEF longer
<1>3. ASSUME NEW n \in 1..Len(longer)
      PROVE  longer[n] = (texts + 1) - Len(longer) + n
  <2>1. CASE n \in 1..Len(queue)
    <3>1. longer[n] = queue[n] /\ queue[n] = texts - Len(queue) + n
      BY <1>2, <2>1 DEF NewestRun
    <3> QED
      BY <1>1, <1>2, <2>1, <3>1
  <2>2. CASE n = Len(queue) + 1
    BY <1>1, <1>2, <2>2
  <2> QED
    BY <1>1, <1>2, <2>1, <2>2
<1>4. NewestRun(longer, texts + 1)
  BY <1>3 DEF NewestRun
<1> QED
  BY <1>2, <1>4 DEF longer

\* A text that waits is the newest in a queue that still holds the newest.
LEMMA WaitingIsNewest ==
  ASSUME NEW pending \in Seq(1..MaxTexts), NEW texts \in 0..MaxTexts, texts < MaxTexts,
         NewestRun(pending, texts), Len(pending) <= MaxPending
  PROVE  /\ Waiting(pending, texts + 1) \in Seq(1..MaxTexts)
         /\ Len(Waiting(pending, texts + 1)) =
              IF Len(pending) >= MaxPending THEN MaxPending ELSE Len(pending) + 1
         /\ NewestRun(Waiting(pending, texts + 1), texts + 1)
<1> DEFINE kept == IF Len(pending) >= MaxPending THEN Tail(pending) ELSE pending
<1>1. /\ kept \in Seq(1..MaxTexts) /\ Len(kept) \in Nat
      /\ Len(kept) = IF Len(pending) >= MaxPending THEN MaxPending - 1 ELSE Len(pending)
      /\ NewestRun(kept, texts)
  <2>1. CASE Len(pending) >= MaxPending
    <3>1. pending # <<>> /\ Len(pending) = MaxPending
      BY <2>1, SpeechBounds
    <3>2. /\ Tail(pending) \in Seq(1..MaxTexts) /\ Len(Tail(pending)) = Len(pending) - 1
          /\ \A n \in 1..Len(Tail(pending)) : Tail(pending)[n] = pending[n + 1]
      BY <3>1
    <3>3. NewestRun(Tail(pending), texts)
      BY <3>1, <3>2, SpeechBounds DEF NewestRun
    <3> QED
      BY <2>1, <3>1, <3>2, <3>3, SpeechBounds
  <2>2. CASE ~ (Len(pending) >= MaxPending)
    BY <2>2
  <2> QED
    BY <2>1, <2>2
<1>2. Waiting(pending, texts + 1) = Append(kept, texts + 1)
  BY DEF Waiting
<1>4. texts \in Nat /\ Len(pending) \in Nat /\ MaxPending \in Nat \ {0}
  BY SpeechBounds
<1> HIDE DEF kept
<1>3. /\ Append(kept, texts + 1) \in Seq(1..MaxTexts)
      /\ Len(Append(kept, texts + 1)) = Len(kept) + 1
      /\ NewestRun(Append(kept, texts + 1), texts + 1)
  BY <1>1, <1>4, RunGrows
<1>5. Len(Append(kept, texts + 1)) =
        IF Len(pending) >= MaxPending THEN MaxPending ELSE Len(pending) + 1
  <2>1. CASE Len(pending) >= MaxPending
    BY <1>1, <1>3, <1>4, <2>1
  <2>2. CASE ~ (Len(pending) >= MaxPending)
    BY <1>1, <1>3, <1>4, <2>2
  <2> QED
    BY <2>1, <2>2
<1> QED
  BY <1>2, <1>3, <1>5

\* speak keeps the invariant.
LEMMA SaidKeeps ==
  ASSUME NEW v, VoiceInv(v), v.texts < MaxTexts
  PROVE  VoiceInv(Said(v)) /\ Said(v).texts = v.texts + 1
<1>1. /\ v.engine \in {"starting", "ready", "unusable"}
      /\ v.pending \in Seq(1..MaxTexts) /\ v.spoken \in Seq(1..MaxTexts)
      /\ v.texts \in 0..MaxTexts /\ v.texts \in Nat /\ v \in Voice
  BY SpeechBounds DEF VoiceInv, Voice
<1>2. v.texts + 1 \in 0..MaxTexts /\ MaxPending \in Nat \ {0}
  BY <1>1, SpeechBounds
<1> DEFINE waiting == Len(v.pending)
           said == Len(v.spoken)
<1>5. /\ waiting \in Nat /\ said \in Nat /\ waiting <= MaxPending
      /\ v.engine = "starting" => waiting >= Fewer(v.texts, MaxPending)
      /\ v.engine = "ready" => said >= Fewer(v.texts, MaxPending)
  BY <1>1 DEF VoiceInv
<1>3. CASE v.engine = "ready"
  <2> DEFINE longer == Append(v.spoken, v.texts + 1)
  <2>1. Said(v) = [v EXCEPT !.texts = v.texts + 1, !.spoken = longer]
    BY <1>3 DEF Said
  <2>2. /\ longer \in Seq(1..MaxTexts) /\ Len(longer) = said + 1
        /\ NewestRun(longer, v.texts + 1)
    BY <1>1, RunGrows DEF VoiceInv
  <2> HIDE DEF longer
  <2>4. /\ Said(v) \in Voice
        /\ Said(v).texts = v.texts + 1 /\ Said(v).spoken = longer
        /\ Said(v).engine = "ready" /\ Said(v).pending = <<>>
    BY <1>1, <1>2, <1>3, <2>1, <2>2 DEF Voice, VoiceInv
  <2>5. Len(longer) >= Fewer(v.texts + 1, MaxPending)
    <3> HIDE DEF said, waiting
    <3> QED
      BY <1>1, <1>2, <1>3, <1>5, <2>2 DEF Fewer
  <2> QED
    BY <2>2, <2>4, <2>5, SpeechBounds DEF VoiceInv, NewestRun
<1>4. CASE v.engine # "ready"
  <2> DEFINE longer == Waiting(v.pending, v.texts + 1)
  <2>1. Said(v) = [v EXCEPT !.texts = v.texts + 1, !.pending = longer]
    BY <1>4 DEF Said
  <2>2. /\ longer \in Seq(1..MaxTexts)
        /\ Len(longer) = IF waiting >= MaxPending THEN MaxPending ELSE waiting + 1
        /\ NewestRun(longer, v.texts + 1)
    BY <1>1, WaitingIsNewest DEF VoiceInv
  <2> HIDE DEF longer
  <2>3. /\ Said(v) \in Voice
        /\ Said(v).texts = v.texts + 1 /\ Said(v).pending = longer
        /\ Said(v).engine = v.engine /\ Said(v).spoken = <<>>
    BY <1>1, <1>2, <1>4, <2>1, <2>2 DEF Voice, VoiceInv
  <2>4. v.engine = "starting" => Len(longer) >= Fewer(v.texts + 1, MaxPending)
    <3> HIDE DEF said, waiting
    <3> QED
      BY <1>1, <1>2, <1>5, <2>2 DEF Fewer
  <2>5. Len(longer) <= MaxPending
    <3> HIDE DEF said, waiting
    <3> QED
      BY <1>2, <1>5, <2>2
  <2> QED
    BY <1>4, <2>2, <2>3, <2>4, <2>5 DEF VoiceInv, NewestRun
<1> QED
  BY <1>3, <1>4

\* onInit keeps the invariant: what waited is spoken first, or given up.
LEMMA EngineKeeps ==
  ASSUME NEW v, VoiceInv(v), v.engine = "starting"
  PROVE  VoiceInv(EngineReady(v)) /\ VoiceInv(EngineUnusable(v))
<1>1. /\ v.pending \in Seq(1..MaxTexts) /\ v.spoken = <<>>
      /\ v.texts \in 0..MaxTexts /\ v \in Voice
  BY DEF VoiceInv, Voice
<1>2. v.spoken \o v.pending = v.pending
  BY <1>1
<1>3. EngineReady(v) = [v EXCEPT !.engine = "ready", !.spoken = v.pending, !.pending = <<>>]
  BY <1>2 DEF EngineReady
<1>4. /\ EngineReady(v) \in Voice
      /\ EngineReady(v).engine = "ready" /\ EngineReady(v).spoken = v.pending
      /\ EngineReady(v).pending = <<>> /\ EngineReady(v).texts = v.texts
  BY <1>1, <1>3 DEF Voice
<1>5. VoiceInv(EngineReady(v))
  BY <1>4, SpeechBounds DEF VoiceInv, NewestRun
<1>6. /\ EngineUnusable(v) \in Voice
      /\ EngineUnusable(v).engine = "unusable" /\ EngineUnusable(v).spoken = <<>>
      /\ EngineUnusable(v).pending = <<>> /\ EngineUnusable(v).texts = v.texts
  BY <1>1 DEF Voice, EngineUnusable
<1>7. VoiceInv(EngineUnusable(v))
  BY <1>6, SpeechBounds DEF VoiceInv, NewestRun
<1> QED
  BY <1>5, <1>7

\* What the invariant says of the texts is what is promised of speech.
LEMMA VoiceSpeaksInOrder ==
  ASSUME NEW v, VoiceInv(v)
  PROVE  SpeechIsNewestInOrder(v)
<1> DEFINE heard == v.spoken \o v.pending
<1>1. /\ v.engine \in {"starting", "ready", "unusable"}
      /\ v.pending \in Seq(1..MaxTexts) /\ v.spoken \in Seq(1..MaxTexts)
      /\ v.texts \in Nat
  BY SpeechBounds DEF VoiceInv, Voice
<1>2. heard = IF v.engine = "ready" THEN v.spoken ELSE v.pending
  <2>1. CASE v.engine = "ready"
    <3>1. v.pending = <<>>
      BY <2>1 DEF VoiceInv
    <3>2. v.spoken \o v.pending = v.spoken
      BY <1>1, <3>1
    <3> QED
      BY <2>1, <3>2
  <2>2. CASE v.engine # "ready"
    <3>1. v.spoken = <<>>
      BY <2>2 DEF VoiceInv
    <3>2. v.spoken \o v.pending = v.pending
      BY <1>1, <3>1
    <3> QED
      BY <2>2, <3>2
  <2> QED
    BY <2>1, <2>2
<1>3. /\ heard \in Seq(1..MaxTexts) /\ NewestRun(heard, v.texts)
      /\ v.engine # "unusable" => Len(heard) >= Fewer(v.texts, MaxPending)
  <2>1. CASE v.engine = "ready"
    BY <1>1, <1>2, <2>1 DEF VoiceInv
  <2>2. CASE v.engine # "ready"
    BY <1>1, <1>2, <2>2 DEF VoiceInv
  <2> QED
    BY <2>1, <2>2
<1> HIDE DEF heard
<1>4. Len(heard) \in Nat /\ MaxPending \in Nat \ {0}
  BY <1>3, SpeechBounds
<1>5. ASSUME NEW n \in 2..Len(heard) PROVE heard[n] = heard[n - 1] + 1
  <2>1. n \in 1..Len(heard) /\ n - 1 \in 1..Len(heard)
    BY <1>4
  <2>2. heard[n] = v.texts - Len(heard) + n /\ heard[n - 1] = v.texts - Len(heard) + (n - 1)
    BY <1>3, <2>1 DEF NewestRun
  <2> QED
    BY <1>1, <1>4, <2>2
<1>6. ASSUME v.engine # "unusable", v.texts > 0 PROVE heard[Len(heard)] = v.texts
  <2>1. Len(heard) \in 1..Len(heard)
    BY <1>1, <1>3, <1>4, <1>6 DEF Fewer
  <2>2. heard[Len(heard)] = v.texts - Len(heard) + Len(heard)
    BY <1>3, <2>1 DEF NewestRun
  <2> QED
    BY <1>1, <1>4, <2>2
<1> QED
  BY <1>3, <1>5, <1>6 DEF SpeechIsNewestInOrder, Fewer, heard

-----------------------------------------------------------------------------
(* Queues, and how many of their entries are of some kinds.                 *)

Marks(queue, kinds) == {n \in DOMAIN queue : queue[n].kind \in kinds}
Count(queue, kinds) == Cardinality(Marks(queue, kinds))

\* A queue holds finitely many entries of a kind, and an empty one none.
LEMMA CountIsNumber ==
  ASSUME NEW S, NEW queue \in Seq(S), NEW kinds
  PROVE  /\ IsFiniteSet(Marks(queue, kinds)) /\ Count(queue, kinds) \in Nat
         /\ queue = <<>> => Count(queue, kinds) = 0
<1>1. Marks(queue, kinds) \subseteq 1..Len(queue) /\ Len(queue) \in Nat
  BY DEF Marks
<1>2. IsFiniteSet(1..Len(queue))
  BY <1>1, FS_Interval
<1>3. IsFiniteSet(Marks(queue, kinds))
  BY <1>1, <1>2, FS_Subset
<1>4. queue = <<>> => Marks(queue, kinds) = {}
  BY <1>1
<1> QED
  BY <1>3, <1>4, FS_CardinalityType, FS_EmptySet DEF Count

\* What is appended counts once.
LEMMA CountAppend ==
  ASSUME NEW S, NEW queue \in Seq(S), NEW entry \in S, NEW kinds
  PROVE  Count(Append(queue, entry), kinds) =
           Count(queue, kinds) + IF entry.kind \in kinds THEN 1 ELSE 0
<1> DEFINE last == Len(queue) + 1
           longer == Append(queue, entry)
<1>1. /\ longer \in Seq(S) /\ Len(longer) = last /\ Len(queue) \in Nat
      /\ \A n \in 1..Len(queue) : longer[n] = queue[n]
      /\ longer[last] = entry
  OBVIOUS
<1>2. DOMAIN queue = 1..Len(queue) /\ DOMAIN longer = 1..last
  BY <1>1
<1>3. last \notin Marks(queue, kinds)
  BY <1>1, <1>2 DEF Marks
<1> HIDE DEF longer
<1>4. Marks(longer, kinds) =
        IF entry.kind \in kinds THEN Marks(queue, kinds) \cup {last} ELSE Marks(queue, kinds)
  <2>1. \A n : n \in DOMAIN longer <=> n \in DOMAIN queue \/ n = last
    BY <1>1, <1>2
  <2>2. \A n \in DOMAIN queue : n # last /\ longer[n] = queue[n]
    BY <1>1, <1>2
  <2>3. \A n : n \in Marks(longer, kinds) <=>
               n \in Marks(queue, kinds) \/ (n = last /\ entry.kind \in kinds)
    <3> HIDE DEF last
    <3> QED
      BY <1>1, <2>1, <2>2 DEF Marks
  <2> HIDE DEF last
  <2> QED
    BY <2>3
<1>5. IsFiniteSet(Marks(queue, kinds)) /\ Count(queue, kinds) \in Nat
  BY CountIsNumber
<1> HIDE DEF last
<1>6. Cardinality(Marks(queue, kinds) \cup {last}) = Cardinality(Marks(queue, kinds)) + 1
  BY <1>3, <1>5, FS_AddElement
<1> QED
  BY <1>4, <1>5, <1>6 DEF Count, longer

\* What is taken from the head counted once.
LEMMA CountTail ==
  ASSUME NEW S, NEW queue \in Seq(S), queue # <<>>, NEW kinds
  PROVE  /\ Count(Tail(queue), kinds) \in Nat
         /\ Count(queue, kinds) =
              Count(Tail(queue), kinds) + IF queue[1].kind \in kinds THEN 1 ELSE 0
<1> DEFINE rest == Tail(queue)
           later == Marks(queue, kinds) \ {1}
           shift == [n \in Marks(rest, kinds) |-> n + 1]
<1>1. /\ rest \in Seq(S) /\ Len(queue) \in Nat \ {0} /\ Len(rest) = Len(queue) - 1
      /\ \A n \in 1..Len(rest) : rest[n] = queue[n + 1]
  OBVIOUS
<1>2. DOMAIN queue = 1..Len(queue) /\ DOMAIN rest = 1..Len(rest)
  BY <1>1
<1> HIDE DEF rest
<1>3. IsFiniteSet(Marks(rest, kinds)) /\ Count(rest, kinds) \in Nat
  BY <1>1, CountIsNumber
<1>4. shift \in Bijection(Marks(rest, kinds), later)
  <2>1. \A n \in Marks(rest, kinds) : n \in 1..Len(rest) /\ rest[n].kind \in kinds
    BY <1>2 DEF Marks
  <2>2. \A n \in Marks(rest, kinds) : n + 1 \in later
    BY <1>1, <1>2, <2>1 DEF Marks
  <2>3. \A m \in later : m - 1 \in Marks(rest, kinds) /\ m = (m - 1) + 1
    <3> SUFFICES ASSUME NEW m \in later
                 PROVE  m - 1 \in Marks(rest, kinds) /\ m = (m - 1) + 1
      OBVIOUS
    <3>1. m \in 1..Len(queue) /\ m # 1 /\ queue[m].kind \in kinds
      BY <1>2 DEF Marks
    <3>2. m - 1 \in 1..Len(rest) /\ m = (m - 1) + 1
      BY <1>1, <3>1
    <3> QED
      BY <1>1, <1>2, <3>1, <3>2 DEF Marks
  <2>4. \A n, k \in Marks(rest, kinds) : n + 1 = k + 1 => n = k
    BY <1>1, <2>1
  <2> HIDE DEF later
  <2> QED
    BY <2>2, <2>3, <2>4 DEF Bijection, Injection, Surjection, IsInjective
<1>5. ExistsBijection(Marks(rest, kinds), later)
  BY <1>4 DEF ExistsBijection
<1>6. IsFiniteSet(later) /\ Cardinality(later) = Count(rest, kinds)
  <2> HIDE DEF later
  <2> QED
    BY <1>3, <1>5, FS_Bijection DEF Count
<1>7. IsFiniteSet(Marks(queue, kinds)) /\ Count(queue, kinds) \in Nat
  BY CountIsNumber
<1>8. 1 \in Marks(queue, kinds) <=> queue[1].kind \in kinds
  BY <1>1, <1>2 DEF Marks
<1>9. Cardinality(later) = IF 1 \in Marks(queue, kinds)
                           THEN Cardinality(Marks(queue, kinds)) - 1
                           ELSE Cardinality(Marks(queue, kinds))
  BY <1>7, FS_RemoveElement
<1> HIDE DEF later
<1> QED
  BY <1>3, <1>6, <1>7, <1>8, <1>9 DEF Count, rest

\* Among the messages of the Handler the poll is the one of its kind.
LEMMA PollIsTheOnlyOne == \A m \in Message : m = Poll <=> m.kind = "poll"
  BY DEF Message, Poll

\* removeCallbacks takes the polls and nothing else.
LEMMA WithoutPollTakesPolls ==
  ASSUME NEW queue \in Seq(Message)
  PROVE  /\ WithoutPoll(queue) \in Seq(Message)
         /\ Count(WithoutPoll(queue), {"poll"}) = 0
         /\ \A kinds : "poll" \notin kinds =>
              Count(WithoutPoll(queue), kinds) = Count(queue, kinds)
         /\ Len(queue) - Len(WithoutPoll(queue)) = Count(queue, {"poll"})
<1> DEFINE others == {n \in DOMAIN queue : queue[n] # Poll}
           kept == Ascending(others)
           left == WithoutPoll(queue)
           size == Cardinality(others)
<1>1. DOMAIN queue = 1..Len(queue) /\ Len(queue) \in Nat
  OBVIOUS
<1>2. IsFiniteSet(others) /\ others \subseteq Nat /\ others \subseteq DOMAIN queue
  <2>1. others \subseteq 1..Len(queue) /\ IsFiniteSet(1..Len(queue))
    BY <1>1, FS_Interval
  <2> HIDE DEF others
  <2>2. IsFiniteSet(others)
    BY <2>1, FS_Subset
  <2> QED
    BY <1>1, <2>1, <2>2
<1>3. /\ size \in Nat
      /\ kept \in [1..size -> others]
      /\ \A m \in others : \E n \in 1..size : kept[n] = m
      /\ \A n, k \in 1..size : n < k => kept[n] < kept[k]
  <2> HIDE DEF others
  <2> QED
    BY <1>2, AscendingLists
<1>4. left = [n \in 1..size |-> queue[kept[n]]]
  <2>1. left = [n \in DOMAIN kept |-> queue[kept[n]]]
    BY DEF WithoutPoll
  <2> HIDE DEF kept, left, size
  <2> QED
    BY <1>3, <2>1
<1>5. \A n \in 1..size : queue[kept[n]] \in Message /\ queue[kept[n]] # Poll
  <2>1. \A m \in others : queue[m] \in Message /\ queue[m] # Poll
    BY <1>1
  <2> HIDE DEF kept, others, size
  <2> QED
    BY <1>3, <2>1
<1> HIDE DEF kept, left, size, others
<1>6. left \in [1..size -> Message]
  BY <1>4, <1>5
<1>7. left \in Seq(Message) /\ Len(left) = size /\ DOMAIN left = 1..size
  BY <1>3, <1>6
<1>8. \A n \in 1..size : left[n].kind # "poll"
  BY <1>4, <1>5, PollIsTheOnlyOne
<1>9. Count(left, {"poll"}) = 0
  <2>1. Marks(left, {"poll"}) = {}
    BY <1>7, <1>8 DEF Marks
  <2> QED
    BY <2>1, FS_EmptySet DEF Count
<1>10. \A n, k \in 1..size : kept[n] = kept[k] => n = k
  <2> SUFFICES ASSUME NEW n \in 1..size, NEW k \in 1..size, kept[n] = kept[k]
               PROVE  n = k
    OBVIOUS
  <2>1. kept[n] \in Nat /\ kept[k] \in Nat /\ n \in Nat /\ k \in Nat
    <3>1. kept[n] \in others /\ kept[k] \in others
      BY <1>3
    <3>2. kept[n] \in Nat /\ kept[k] \in Nat
      BY <1>2, <3>1
    <3>3. n \in Nat /\ k \in Nat
      BY <1>3
    <3> QED
      BY <3>2, <3>3
  <2>2. ~ (n < k) /\ ~ (k < n)
    BY <1>3, <2>1
  <2> QED
    BY <2>1, <2>2
<1>11. ASSUME NEW kinds, "poll" \notin kinds
       PROVE  Count(left, kinds) = Count(queue, kinds)
  <2> DEFINE place == [n \in Marks(left, kinds) |-> kept[n]]
  <2>1. \A n \in Marks(left, kinds) : n \in 1..size /\ kept[n] \in Marks(queue, kinds)
    BY <1>2, <1>3, <1>4, <1>7 DEF Marks
  <2>2. \A m \in Marks(queue, kinds) : \E n \in Marks(left, kinds) : kept[n] = m
    <3> SUFFICES ASSUME NEW m \in Marks(queue, kinds)
                 PROVE  \E n \in Marks(left, kinds) : kept[n] = m
      OBVIOUS
    <3>1. m \in DOMAIN queue /\ queue[m].kind \in kinds
      BY DEF Marks
    <3>2. queue[m] # Poll
      BY <1>11, <3>1 DEF Poll
    <3>3. m \in others
      BY <3>1, <3>2 DEF others
    <3>4. PICK n \in 1..size : kept[n] = m
      BY <1>3, <3>3
    <3>5. n \in Marks(left, kinds)
      BY <1>4, <1>7, <3>1, <3>4 DEF Marks
    <3> QED
      BY <3>4, <3>5
  <2>3. place \in Bijection(Marks(left, kinds), Marks(queue, kinds))
    <3>1. place \in [Marks(left, kinds) -> Marks(queue, kinds)]
      BY <2>1
    <3>2. \A n, k \in Marks(left, kinds) : place[n] = place[k] => n = k
      BY <1>10, <2>1
    <3>3. \A m \in Marks(queue, kinds) : \E n \in Marks(left, kinds) : place[n] = m
      BY <2>2
    <3> HIDE DEF place
    <3> QED
      BY <3>1, <3>2, <3>3 DEF Bijection, Injection, Surjection, IsInjective
  <2>4. ExistsBijection(Marks(left, kinds), Marks(queue, kinds))
    BY <2>3 DEF ExistsBijection
  <2>5. IsFiniteSet(Marks(left, kinds))
    BY <1>7, CountIsNumber
  <2> QED
    BY <2>4, <2>5, FS_Bijection DEF Count
<1>12. Len(queue) - size = Count(queue, {"poll"})
  <2>1. Marks(queue, {"poll"}) = (1..Len(queue)) \ others
    <3>1. \A n \in 1..Len(queue) : queue[n] = Poll <=> queue[n].kind = "poll"
      BY PollIsTheOnlyOne
    <3> QED
      BY <1>1, <3>1 DEF Marks, others
  <2> DEFINE polls == Marks(queue, {"poll"})
  <2>2. IsFiniteSet(polls) /\ Cardinality(polls) \in Nat
    BY CountIsNumber DEF Count
  <2>3. polls \cup others = 1..Len(queue) /\ polls \cap others = {}
    BY <1>1, <1>2, <2>1
  <2>4. Cardinality(1..Len(queue)) = Len(queue)
    BY <1>1, FS_Interval
  <2> HIDE DEF polls
  <2>5. Cardinality(polls \cup others) =
          Cardinality(polls) + Cardinality(others) - Cardinality(polls \cap others)
    BY <1>2, <2>2, FS_Union
  <2>6. Len(queue) = Cardinality(polls) + size
    <3>1. Cardinality(polls \cap others) = 0
      BY <2>3, FS_EmptySet
    <3>2. Len(queue) = Cardinality(polls) + size - 0
      BY <2>3, <2>4, <2>5, <3>1 DEF size
    <3> QED
      BY <1>3, <2>2, <3>2
  <2> QED
    BY <1>1, <1>3, <2>2, <2>6 DEF Count, polls
<1> QED
  BY <1>7, <1>9, <1>11, <1>12 DEF left

-----------------------------------------------------------------------------
(* What the handlers share, as counts.                                      *)

Results == {"schema", "unavailable", "failed", "answer"}
Ticking(delay) == IF delay > 0 THEN 1 ELSE 0
Pending == Count(main, {"poll"}) + Ticking(timer)
UnderWay == Count(network, {"state"}) + Count(main, Results)

\* The counts are those the properties speak of.
LEMMA CountsAreMeant ==
  ASSUME main \in Seq(Message)
  PROVE  PollsPending = Pending /\ RequestsUnderWay = UnderWay
<1>1. PollsPending = Pending
  BY WithoutPollTakesPolls DEF PollsPending, Pending, Ticking
<1>2. {n \in DOMAIN network : network[n].kind = "state"} = Marks(network, {"state"})
  BY DEF Marks
<1>3. {n \in DOMAIN main : main[n].kind \in {"schema", "unavailable", "failed", "answer"}} =
        Marks(main, Results)
  BY DEF Marks, Results
<1> QED
  BY <1>1, <1>2, <1>3 DEF RequestsUnderWay, UnderWay, Count

\* Every delay is a real one, and what follows a success is the shortest.
LEMMA BackoffIsPositive ==
  /\ \A n \in 0..Steady : BackoffMillis(n) \in Nat \ {0}
  /\ PollMs = BackoffMillis(0)
<1>1. PollMs = BackoffMillis(0)
  BY DEF BackoffMillis, PollMs, MaxBackoffMs
<1>2. /\ BackoffMillis(0) \in Nat \ {0} /\ BackoffMillis(1) \in Nat \ {0}
      /\ BackoffMillis(2) \in Nat \ {0} /\ BackoffMillis(3) \in Nat \ {0}
      /\ BackoffMillis(4) \in Nat \ {0} /\ BackoffMillis(5) \in Nat \ {0}
  BY DEF BackoffMillis, PollMs, MaxBackoffMs
<1>3. \A n \in 0..Steady : n = 0 \/ n = 1 \/ n = 2 \/ n = 3 \/ n = 4 \/ n = 5
  BY DEF Steady
<1> QED
  BY <1>1, <1>2, <1>3

\* The handler's queue with its first message taken.
LEMMA TakenMessage ==
  ASSUME main \in Seq(Message), main # <<>>
  PROVE  /\ main[1] \in Message /\ Tail(main) \in Seq(Message)
         /\ main[1].kind \in Results =>
              Count(main, Results) = Count(Tail(main), Results) + 1
         /\ main[1].kind \notin Results =>
              Count(main, Results) = Count(Tail(main), Results)
         /\ main[1].kind = "poll" =>
              Count(main, {"poll"}) = Count(Tail(main), {"poll"}) + 1
         /\ main[1].kind # "poll" =>
              Count(main, {"poll"}) = Count(Tail(main), {"poll"})
         /\ Count(Tail(main), {"poll"}) \in Nat /\ Count(Tail(main), Results) \in Nat
<1>1. main[1] \in Message /\ Tail(main) \in Seq(Message)
  OBVIOUS
<1>2. \A kinds : /\ Count(Tail(main), kinds) \in Nat
                 /\ Count(main, kinds) =
                      Count(Tail(main), kinds) + IF main[1].kind \in kinds THEN 1 ELSE 0
  BY CountTail
<1> QED
  BY <1>1, <1>2

\* A message posted.
LEMMA PostedMessage ==
  ASSUME NEW queue \in Seq(Message), NEW m \in Message
  PROVE  /\ Append(queue, m) \in Seq(Message)
         /\ Count(Append(queue, m), Results) =
              Count(queue, Results) + IF m.kind \in Results THEN 1 ELSE 0
         /\ Count(Append(queue, m), {"poll"}) =
              Count(queue, {"poll"}) + IF m.kind = "poll" THEN 1 ELSE 0
<1>1. \A kinds : Count(Append(queue, m), kinds) =
                   Count(queue, kinds) + IF m.kind \in kinds THEN 1 ELSE 0
  BY CountAppend
<1> QED
  BY <1>1

\* The loop started leaves one poll, stopped none, scheduled the one to come;
\* none of them touches a result.
LEMMA LoopOperations ==
  ASSUME NEW queue \in Seq(Message)
  PROVE  /\ StartPolling(queue) =>
              /\ polling' = TRUE /\ main' \in Seq(Message) /\ timer' \in {0, timer}
              /\ Count(main', Results) = Count(queue, Results)
              /\ polling => main' = queue /\ timer' = timer
              /\ ~ polling => Count(main', {"poll"}) = 1 /\ timer' = 0
         /\ StopPolling(queue) =>
              /\ polling' = FALSE /\ main' \in Seq(Message) /\ timer' = 0
              /\ Count(main', Results) = Count(queue, Results)
              /\ Count(main', {"poll"}) = 0
         /\ \A delay : ScheduleNext(queue, delay) =>
              /\ main' \in Seq(Message) /\ timer' = delay
              /\ Count(main', Results) = Count(queue, Results)
              /\ Count(main', {"poll"}) = 0
<1> DEFINE left == WithoutPoll(queue)
<1>1. /\ left \in Seq(Message) /\ Count(left, {"poll"}) = 0
      /\ Count(left, Results) = Count(queue, Results)
  <2>1. "poll" \notin Results
    BY DEF Results
  <2> QED
    BY <2>1, WithoutPollTakesPolls
<1>2. Poll \in Message /\ Poll.kind = "poll"
  BY DEF Message, Poll
<1> HIDE DEF left
<1>3. /\ Append(left, Poll) \in Seq(Message)
      /\ Count(Append(left, Poll), Results) = Count(left, Results) + 0
      /\ Count(Append(left, Poll), {"poll"}) = Count(left, {"poll"}) + 1
  BY <1>1, <1>2, PostedMessage DEF Results
<1>4. Count(left, Results) \in Nat
  BY <1>1, CountIsNumber
<1>5. StartPolling(queue) =>
        /\ polling' = TRUE /\ main' \in Seq(Message) /\ timer' \in {0, timer}
        /\ Count(main', Results) = Count(queue, Results)
        /\ polling => main' = queue /\ timer' = timer
        /\ ~ polling => Count(main', {"poll"}) = 1 /\ timer' = 0
  <2>1. CASE polling
    BY <2>1 DEF StartPolling
  <2>2. CASE ~ polling
    <3>1. StartPolling(queue) => polling' = TRUE /\ main' = Append(left, Poll) /\ timer' = 0
      BY <2>2 DEF StartPolling, left
    <3>2. /\ Count(Append(left, Poll), Results) = Count(queue, Results)
          /\ Count(Append(left, Poll), {"poll"}) = 1
      BY <1>1, <1>3, <1>4
    <3> QED
      BY <1>3, <2>2, <3>1, <3>2
  <2> QED
    BY <2>1, <2>2
<1> QED
  BY <1>1, <1>5 DEF StopPolling, ScheduleNext, left

-----------------------------------------------------------------------------
(* The inductive invariant.                                                 *)

\* There is a request exactly while the flag says so and at most one poll, and
\* a loop that runs, and has not been overtaken, has one of the two.
CountInv ==
  /\ UnderWay = IF inFlight THEN 1 ELSE 0
  /\ Pending <= 1
  /\ polling /\ ~ overtaken => Pending + UnderWay >= 1

\* The loop runs against the address that is saved; what is shown, and what is
\* kept to be told, is of that address; a dashboard without a loop was
\* overtaken, or says that the schema of its address is not supported.
ServerInv ==
  /\ polling => server # None
  /\ server \in {saved, None}
  /\ oldPending => oldOf = server /\ server # None
  /\ screen = "dashboard" /\ status.says # "schema" => status.of = server
  /\ started /\ screen = "dashboard" /\ ~ polling /\ ~ overtaken =>
       status = [says |-> "schema", of |-> server]

\* The events are read for the job at the head, which is a request's.
JobInv == syncing # "no" => network # <<>> /\ network[1].kind = "state"

PollingInv == PollingTypeOK /\ VoiceInv(voice) /\ CountInv /\ ServerInv /\ JobInv

\* A created activity satisfies the invariant.
LEMMA InitPollingInv == PollingInit => PollingInv
<1> SUFFICES ASSUME PollingInit PROVE PollingInv
  OBVIOUS
<1>1. VoiceInv(voice)
  BY NewVoiceInv DEF PollingInit
<1>2. main \in Seq(Message) /\ network \in Seq(Job) /\ main = <<>> /\ network = <<>>
  BY DEF PollingInit
<1>3. PollingTypeOK
  <2>1. /\ saved \in Servers \cup {None} /\ cursorOf \in Servers \cup {None}
        /\ server \in Servers \cup {None}
        /\ {started, connectable, polling, inFlight, oldPending, overtaken} \subseteq BOOLEAN
        /\ screen \in {"setup", "dashboard"}
        /\ syncing \in {"no", "baseline", "page"}
    BY DEF PollingInit
  <2>2. status \in [says : {"connecting", "live", "waiting", "offline", "schema"},
                    of : Servers \cup {None}]
    BY DEF PollingInit
  <2>3. /\ failures \in 0..Steady /\ connects \in 0..MaxConnects
        /\ timer \in {0} \cup {BackoffMillis(n) : n \in 0..Steady}
    BY ConnectsBound DEF PollingInit, Steady
  <2> QED
    BY <1>1, <1>2, <2>1, <2>2, <2>3 DEF PollingTypeOK, VoiceInv
<1>4. CountInv
  <2>1. \A kinds : Count(main, kinds) = 0 /\ Count(network, kinds) = 0
    BY <1>2, CountIsNumber
  <2>2. timer = 0 /\ inFlight = FALSE /\ polling = FALSE
    BY DEF PollingInit
  <2> QED
    BY <2>1, <2>2 DEF CountInv, Pending, UnderWay, Ticking
<1>5. ServerInv /\ JobInv
  BY DEF PollingInit, ServerInv, JobInv
<1> QED
  BY <1>1, <1>3, <1>4, <1>5 DEF PollingInv

\* What is known of the messages and jobs by their kinds.
LEMMA MessageFields ==
  /\ \A m \in Message :
       /\ m.kind \in Results \cup {"healthy"} => m.server \in Servers
       /\ m.kind = "answer" => m.sync \in {"baseline", "page", "error"}
  /\ \A job \in Job : job.server \in Servers /\ job.kind \in {"health", "state"}
  /\ \A s \in Servers :
       /\ \A kind \in {"healthy", "schema", "unavailable", "failed"} :
            [kind |-> kind, server |-> s] \in Message
       /\ \A sync \in {"baseline", "page", "error"} :
            [kind |-> "answer", server |-> s, sync |-> sync] \in Message
       /\ \A kind \in {"health", "state"} : [kind |-> kind, server |-> s] \in Job
  /\ [kind |-> "unhealthy"] \in Message /\ Poll \in Message
  BY DEF Message, Job, Poll, Results

\* The end of a job: the result is posted.
LEMMA EndedJob ==
  ASSUME PollingTypeOK, network # <<>>, NEW m \in Message, JobEnds(m)
  PROVE  /\ network[1] \in Job /\ network' \in Seq(Job) /\ main' \in Seq(Message)
         /\ Count(network, {"state"}) =
              Count(network', {"state"}) + IF network[1].kind = "state" THEN 1 ELSE 0
         /\ Count(main', Results) =
              Count(main, Results) + IF m.kind \in Results THEN 1 ELSE 0
         /\ Count(main', {"poll"}) =
              Count(main, {"poll"}) + IF m.kind = "poll" THEN 1 ELSE 0
         /\ Count(network', {"state"}) \in Nat
         /\ UNCHANGED <<view, loop, summary, voice, timer, overtaken, connects>>
         /\ syncing' = "no"
<1>1. network \in Seq(Job) /\ main \in Seq(Message)
  BY DEF PollingTypeOK
<1>2. network' = Tail(network) /\ main' = Append(main, m)
  BY DEF JobEnds
<1>3. network[1] \in Job /\ Tail(network) \in Seq(Job)
  BY <1>1
<1>4. /\ Count(Tail(network), {"state"}) \in Nat
      /\ Count(network, {"state"}) = Count(Tail(network), {"state"}) +
           IF network[1].kind \in {"state"} THEN 1 ELSE 0
  BY <1>1, CountTail
<1>5. /\ Append(main, m) \in Seq(Message)
      /\ Count(Append(main, m), Results) =
           Count(main, Results) + IF m.kind \in Results THEN 1 ELSE 0
      /\ Count(Append(main, m), {"poll"}) =
           Count(main, {"poll"}) + IF m.kind = "poll" THEN 1 ELSE 0
  BY <1>1, PostedMessage
<1>6. UNCHANGED <<view, loop, summary, voice, timer, overtaken, connects>> /\ syncing' = "no"
  BY DEF JobEnds
<1> QED
  BY <1>2, <1>3, <1>4, <1>5, <1>6

\* Speech is kept in order by every step.
LEMMA StepKeepsVoice ==
  ASSUME PollingTypeOK, VoiceInv(voice), [PollingNext]_vars
  PROVE  VoiceInv(voice')
<1>1. CASE EngineStarts
  BY <1>1, EngineKeeps DEF EngineStarts
<1>2. CASE Recreate
  BY <1>2, NewVoiceInv DEF Recreate
<1>3. CASE Answered
  <2>1. PICK of : HandleEventSync(main[1].sync, of)
    BY <1>3 DEF Answered
  <2>2. CASE voice' = voice
    BY <2>2
  <2>3. CASE voice' # voice
    <3>1. PICK fresh \in BOOLEAN, speaks \in BOOLEAN :
            /\ voice' = IF speaks THEN Said(IF fresh THEN Said(voice) ELSE voice)
                                  ELSE IF fresh THEN Said(voice) ELSE voice
            /\ voice'.texts <= MaxTexts
      BY <2>1, <2>3 DEF HandleEventSync
    <3>2. voice.texts \in 0..MaxTexts /\ MaxTexts \in Nat
      BY SpeechBounds DEF VoiceInv, Voice
    <3>3. Said(voice).texts = voice.texts + 1 /\ Said(Said(voice)).texts = voice.texts + 2
      <4> DEFINE Fields == {"engine", "pending", "spoken", "texts"}
      <4>1. \A v : DOMAIN v = Fields => Said(v).texts = v.texts + 1 /\ DOMAIN Said(v) = Fields
        BY DEF Said
      <4>2. DOMAIN voice = Fields
        BY DEF VoiceInv, Voice
      <4> QED
        BY <3>2, <4>1, <4>2
    <3>4. CASE fresh /\ speaks
      <4>1. voice.texts < MaxTexts /\ voice.texts + 1 < MaxTexts
        BY <3>1, <3>2, <3>3, <3>4
      <4>2. VoiceInv(Said(voice)) /\ Said(voice).texts < MaxTexts
        BY <3>3, <4>1, SaidKeeps
      <4> QED
        BY <3>1, <3>4, <4>2, SaidKeeps
    <3>5. CASE ~ (fresh /\ speaks)
      <4>1. voice' = Said(voice)
        BY <2>3, <3>1, <3>5
      <4>2. voice.texts < MaxTexts
        BY <3>1, <3>2, <3>3, <4>1
      <4> QED
        BY <4>1, <4>2, SaidKeeps
    <3> QED
      BY <3>4, <3>5
  <2> QED
    BY <2>2, <2>3
<1>4. CASE \/ OnStart \/ OnStop \/ ChangeServer \/ \E s \in Servers : Connect(s)
           \/ NetworkStep \/ TimerFires \/ RequestState \/ Healthy \/ Unhealthy
           \/ SchemaUnsupported \/ Unwanted \/ RequestFailed \/ UNCHANGED vars
  <2>1. voice' = voice
    BY <1>4 DEF OnStart, OnStop, ChangeServer, Connect, NetworkStep, CheckHealth, StateFails,
       FetchState, SyncEvents, JobEnds, TimerFires, RequestState, Healthy, Unhealthy,
       SchemaUnsupported, Unwanted, RequestFailed, vars
  <2> QED
    BY <2>1
<1> QED
  BY <1>1, <1>2, <1>3, <1>4 DEF PollingNext, UserStep, MainStep

\* The events are read for the request at the head of the executor's queue.
LEMMA StepKeepsJob ==
  ASSUME PollingTypeOK, JobInv, [PollingNext]_vars
  PROVE  JobInv'
<1>1. CASE FetchState
  BY <1>1 DEF FetchState, JobInv
<1>2. CASE CheckHealth \/ StateFails \/ SyncEvents \/ Recreate
  <2>1. syncing' = "no"
    BY <1>2 DEF CheckHealth, StateFails, SyncEvents, JobEnds, Recreate
  <2> QED
    BY <2>1 DEF JobInv
<1>3. ASSUME syncing' = syncing, \/ network' = network
                                 \/ \E job : network' = Append(network, job)
      PROVE  JobInv'
  <2>1. network \in Seq(Job)
    BY DEF PollingTypeOK
  <2>2. network # <<>> => network' # <<>> /\ network'[1] = network[1]
    BY <1>3, <2>1
  <2> QED
    BY <1>3, <2>2 DEF JobInv
<1>4. CASE (\E s \in Servers : Connect(s)) \/ RequestState
  BY <1>3, <1>4 DEF Connect, RequestState
<1>5. CASE \/ OnStart \/ OnStop \/ ChangeServer \/ EngineStarts \/ TimerFires \/ Healthy
           \/ Unhealthy \/ SchemaUnsupported \/ Unwanted \/ RequestFailed \/ Answered
           \/ UNCHANGED vars
  <2>1. UNCHANGED <<network, syncing>>
    BY <1>5 DEF OnStart, OnStop, ChangeServer, EngineStarts, TimerFires, Healthy, Unhealthy,
       SchemaUnsupported, Unwanted, RequestFailed, Answered, jobs, vars
  <2> QED
    BY <1>3, <2>1
<1> QED
  BY <1>1, <1>2, <1>4, <1>5 DEF PollingNext, UserStep, NetworkStep, MainStep

\* What is shown and kept stays that of the address the loop runs against.
LEMMA StepKeepsServer ==
  ASSUME PollingTypeOK, ServerInv, [PollingNext]_vars
  PROVE  ServerInv'
<1> USE DEF ServerInv, durable, view, loop, summary
<1>1. CASE OnStart
  <2>1. CASE saved = None
    BY <1>1, <2>1 DEF OnStart
  <2>2. CASE saved # None
    <3>1. polling' = TRUE
      BY <1>1, <2>2 DEF OnStart, StartPolling, PollingTypeOK
    <3> QED
      BY <1>1, <2>2, <3>1 DEF OnStart, ShowDashboard
  <2> QED
    BY <2>1, <2>2
<1>2. CASE OnStop
  BY <1>2 DEF OnStop, StopPolling
<1>3. CASE Recreate
  BY <1>3 DEF Recreate
<1>4. CASE ChangeServer
  BY <1>4 DEF ChangeServer, StopPolling, ShowSetup
<1>5. CASE \E s \in Servers : Connect(s)
  BY <1>5 DEF Connect
<1>6. CASE EngineStarts
  BY <1>6 DEF EngineStarts
<1>7. CASE NetworkStep
  <2>1. UNCHANGED <<saved, view, loop, summary, overtaken>>
    BY <1>7 DEF NetworkStep, CheckHealth, StateFails, FetchState, SyncEvents, JobEnds
  <2> QED
    BY <2>1
<1>8. CASE TimerFires
  BY <1>8 DEF TimerFires
<1>9. CASE RequestState
  BY <1>9 DEF RequestState
<1>10. CASE Healthy
  <2>1. main # <<>> /\ main[1].kind = "healthy" /\ main[1] \in Message
    BY <1>10 DEF Healthy, Taken, PollingTypeOK
  <2>2. main[1].server \in Servers
    BY <2>1, MessageFields
  <2>3. polling' = TRUE
    BY <1>10 DEF Healthy, StartPolling, PollingTypeOK
  <2>4. /\ server' = main[1].server /\ saved' = main[1].server
        /\ oldPending' = (main[1].server = saved /\ oldPending)
        /\ oldOf' = IF main[1].server = saved THEN oldOf ELSE None
        /\ status' = [says |-> "connecting", of |-> main[1].server]
    BY <1>10 DEF Healthy, ShowDashboard
  <2>5. main[1].server # None
    BY <2>2, NoneIsNoServer
  <2> QED
    BY <2>3, <2>4, <2>5
<1>11. CASE Unhealthy
  BY <1>11 DEF Unhealthy
<1>12. CASE SchemaUnsupported
  BY <1>12 DEF SchemaUnsupported
<1>13. CASE Unwanted
  BY <1>13 DEF Unwanted
<1>14. CASE RequestFailed
  BY <1>14 DEF RequestFailed, Concerns
<1>15. CASE Answered
  <2>1. /\ polling /\ main[1].server = server
        /\ status' = [says |-> "live", of |-> main[1].server]
        /\ UNCHANGED <<saved, started, screen, server, polling, overtaken>>
        /\ HandleEventSync(main[1].sync, main[1].server)
    BY <1>15 DEF Answered, Concerns
  <2>2. oldPending' => oldOf' = server
    <3>1. CASE UNCHANGED summary
      BY <3>1
    <3>2. CASE oldPending' = FALSE
      BY <3>2
    <3>3. CASE \E old \in BOOLEAN :
                 /\ oldPending' => oldPending \/ old
                 /\ oldOf' = IF oldPending' THEN (IF old THEN main[1].server ELSE oldOf)
                                            ELSE None
      BY <2>1, <3>3
    <3> QED
      BY <2>1, <3>1, <3>2, <3>3 DEF HandleEventSync
  <2> QED
    BY <2>1, <2>2
<1>16. CASE UNCHANGED vars
  BY <1>16 DEF vars
<1> QED
  BY <1>1, <1>2, <1>3, <1>4, <1>5, <1>6, <1>7, <1>8, <1>9, <1>10, <1>11, <1>12, <1>13,
     <1>14, <1>15, <1>16 DEF PollingNext, UserStep, MainStep

\* The operations of the handlers keep the types of what they assign.
LEMMA StepKeepsType ==
  ASSUME PollingInv, [PollingNext]_vars, VoiceInv(voice')
  PROVE  PollingTypeOK'
<1> DEFINE Plain == /\ saved \in Servers \cup {None} /\ cursorOf \in Servers \cup {None}
                    /\ server \in Servers \cup {None}
                    /\ {started, connectable, polling, inFlight, oldPending, overtaken}
                         \subseteq BOOLEAN
                    /\ screen \in {"setup", "dashboard"}
                    /\ failures \in 0..Steady
                    /\ syncing \in {"no", "baseline", "page"}
                    /\ connects \in 0..MaxConnects
           Shown == status \in [says : {"connecting", "live", "waiting", "offline", "schema"},
                                of : Servers \cup {None}]
           Delays == {0} \cup {BackoffMillis(n) : n \in 0..Steady}
           Queues == main \in Seq(Message) /\ network \in Seq(Job) /\ timer \in Delays
<1>1. Plain /\ Shown /\ Queues /\ VoiceInv(voice)
  BY DEF PollingInv, PollingTypeOK
<1>2. SUFFICES Plain' /\ Shown' /\ Queues'
  BY DEF PollingTypeOK, VoiceInv
<1>3. /\ 0 \in Delays /\ PollMs \in Delays /\ 0 \in 0..Steady
      /\ \A n \in 0..Steady : BackoffMillis(n) \in Delays
  BY BackoffIsPositive DEF Steady
<1>4. main # <<>> => /\ main[1] \in Message /\ Tail(main) \in Seq(Message)
  BY <1>1
<1> HIDE DEF Delays
<1> USE DEF durable, view, loop, summary, queues, jobs
<1>5. CASE OnStart
  <2>1. CASE saved = None
    BY <1>1, <1>5, <2>1 DEF OnStart
  <2>2. CASE saved # None
    <3>1. StartPolling(main) /\ polling' = TRUE /\ main' \in Seq(Message) /\ timer' \in {0, timer}
      BY <1>1, <1>5, <2>2, LoopOperations DEF OnStart
    <3> QED
      BY <1>1, <1>3, <1>5, <2>2, <3>1 DEF OnStart, ShowDashboard
  <2> QED
    BY <2>1, <2>2
<1>6. CASE OnStop
  <2>1. polling' = FALSE /\ main' \in Seq(Message) /\ timer' = 0
    BY <1>1, <1>6, LoopOperations DEF OnStop
  <2> QED
    BY <1>1, <1>3, <1>6, <2>1 DEF OnStop
<1>7. CASE Recreate
  <2>1. Plain'
    BY <1>1, <1>3, <1>7 DEF Recreate
  <2>2. Shown'
    BY <1>7 DEF Recreate
  <2>3. Queues'
    BY <1>3, <1>7 DEF Recreate
  <2> QED
    BY <2>1, <2>2, <2>3
<1>8. CASE ChangeServer
  <2>1. polling' = FALSE /\ main' \in Seq(Message) /\ timer' = 0
    BY <1>1, <1>8, LoopOperations DEF ChangeServer
  <2> QED
    BY <1>1, <1>3, <1>8, <2>1 DEF ChangeServer, ShowSetup
<1>9. CASE \E s \in Servers : Connect(s)
  <2>1. PICK s \in Servers : Connect(s)
    BY <1>9
  <2>2. [kind |-> "health", server |-> s] \in Job
    BY MessageFields
  <2>3. network' \in Seq(Job)
    BY <1>1, <2>1, <2>2 DEF Connect
  <2> QED
    <3>1. connects' \in 0..MaxConnects
      BY <1>1, <2>1, ConnectsBound DEF Connect
    <3> QED
      BY <1>1, <2>1, <2>3, <3>1 DEF Connect
<1>10. CASE EngineStarts
  BY <1>1, <1>10 DEF EngineStarts
<1>11. CASE CheckHealth \/ StateFails \/ SyncEvents
  <2>1. network # <<>> /\ network[1].server \in Servers
    <3>1. network # <<>>
      BY <1>11 DEF CheckHealth, StateFails, SyncEvents, PollingInv, JobInv
    <3>2. network[1] \in Job
      BY <1>1, <3>1
    <3> QED
      BY <3>1, <3>2, MessageFields
  <2>2. PICK m \in Message : JobEnds(m)
    BY <1>11, <2>1, MessageFields DEF CheckHealth, StateFails, SyncEvents, PollingInv,
       PollingTypeOK
  <2>3. /\ network' \in Seq(Job) /\ main' \in Seq(Message) /\ syncing' = "no"
        /\ UNCHANGED <<view, loop, summary, timer, overtaken, connects>>
    BY <2>1, <2>2, EndedJob DEF PollingInv
  <2>4. saved' = saved /\ cursorOf' \in {cursorOf, network[1].server}
    BY <1>11 DEF CheckHealth, StateFails, SyncEvents
  <2> QED
    BY <1>1, <2>1, <2>3, <2>4
<1>12. CASE FetchState
  BY <1>1, <1>12 DEF FetchState
<1>13. CASE TimerFires
  <2>1. main' \in Seq(Message)
    BY <1>1, <1>13, MessageFields, PostedMessage DEF TimerFires
  <2> QED
    BY <1>1, <1>3, <1>13, <2>1 DEF TimerFires
<1>14. CASE RequestState
  <2>1. main' \in Seq(Message)
    BY <1>4, <1>14 DEF RequestState, Taken
  <2>2. network' \in Seq(Job)
    <3>1. CASE server # None
      <4>1. [kind |-> "state", server |-> server] \in Job
        BY <1>1, <3>1, MessageFields
      <4>2. network' \in {network, Append(network, [kind |-> "state", server |-> server])}
        BY <1>14 DEF RequestState
      <4>3. network \in Seq(Job)
        BY <1>1
      <4> QED
        BY <4>1, <4>2, <4>3
    <3>2. CASE server = None
      BY <1>1, <1>14, <3>2 DEF RequestState
    <3> QED
      BY <3>1, <3>2
  <2> QED
    BY <1>1, <1>14, <2>1, <2>2 DEF RequestState
<1>15. CASE Healthy
  <2>1. main # <<>> /\ main[1].server \in Servers
    BY <1>4, <1>15, MessageFields DEF Healthy, Taken
  <2>2. polling' = TRUE /\ main' \in Seq(Message) /\ timer' \in {0, timer}
    BY <1>4, <1>15, <2>1, LoopOperations DEF Healthy
  <2> QED
    BY <1>1, <1>3, <1>15, <2>1, <2>2 DEF Healthy, ShowDashboard, Steady
<1>16. CASE Unhealthy
  BY <1>1, <1>4, <1>16 DEF Unhealthy, Taken
<1>17. CASE SchemaUnsupported
  <2>1. main # <<>> /\ main[1].server \in Servers
    BY <1>4, <1>17, MessageFields DEF SchemaUnsupported, Taken, Results
  <2> QED
    BY <1>1, <1>4, <1>17, <2>1 DEF SchemaUnsupported
<1>18. CASE Unwanted
  BY <1>1, <1>4, <1>18 DEF Unwanted
<1>19. CASE RequestFailed
  <2>1. main # <<>> /\ main[1].server \in Servers
    BY <1>4, <1>19, MessageFields DEF RequestFailed, Results
  <2>2. failures' \in 0..Steady
    BY <1>1, <1>19 DEF RequestFailed, Steady
  <2>3. main' \in Seq(Message) /\ timer' = BackoffMillis(failures')
    BY <1>4, <1>19, <2>1, LoopOperations DEF RequestFailed
  <2>4. timer' \in Delays
    BY <1>3, <2>2, <2>3
  <2> QED
    BY <1>1, <1>19, <2>1, <2>2, <2>3, <2>4 DEF RequestFailed
<1>20. CASE Answered
  <2>1. main # <<>> /\ main[1].server \in Servers
    BY <1>4, <1>20, MessageFields DEF Answered, Taken, Results
  <2>2. main' \in Seq(Message) /\ timer' = PollMs
    BY <1>4, <1>20, <2>1, LoopOperations DEF Answered
  <2>3. oldPending' \in BOOLEAN
    BY <1>1, <1>20 DEF Answered, HandleEventSync
  <2> QED
    <3>1. Shown'
      BY <1>20, <2>1 DEF Answered
    <3>2. Plain'
      BY <1>1, <1>3, <1>20, <2>3 DEF Answered
    <3>3. Queues'
      BY <1>1, <1>3, <1>20, <2>2 DEF Answered
    <3> QED
      BY <3>1, <3>2, <3>3
<1>21. CASE UNCHANGED vars
  BY <1>1, <1>21 DEF vars
<1> QED
  BY <1>5, <1>6, <1>7, <1>8, <1>9, <1>10, <1>11, <1>12, <1>13, <1>14, <1>15, <1>16, <1>17,
     <1>18, <1>19, <1>20, <1>21 DEF PollingNext, UserStep, NetworkStep, MainStep

\* Polls and requests are added and taken as the flags say.
LEMMA StepKeepsCounts ==
  ASSUME PollingInv, [PollingNext]_vars
  PROVE  CountInv'
<1> DEFINE polls == Count(main, {"poll"})
           results == Count(main, Results)
           requests == Count(network, {"state"})
<1>1. /\ main \in Seq(Message) /\ network \in Seq(Job) /\ timer \in Nat
      /\ polling \in BOOLEAN /\ inFlight \in BOOLEAN /\ overtaken \in BOOLEAN
      /\ server \in Servers \cup {None} /\ failures \in 0..Steady
  BY BackoffIsPositive DEF PollingInv, PollingTypeOK
<1>2. polls \in Nat /\ results \in Nat /\ requests \in Nat /\ Ticking(timer) \in {0, 1}
  BY <1>1, CountIsNumber DEF Ticking
<1>3. /\ requests + results = IF inFlight THEN 1 ELSE 0
      /\ polls + Ticking(timer) <= 1
      /\ polling /\ ~ overtaken => polls + Ticking(timer) + (requests + results) >= 1
  BY DEF PollingInv, CountInv, Pending, UnderWay
\* What is to be shown of the step.
<1>4. SUFFICES /\ requests' + results' = IF inFlight' THEN 1 ELSE 0
               /\ polls' + Ticking(timer)' <= 1
               /\ polling' /\ ~ overtaken' =>
                    polls' + Ticking(timer)' + (requests' + results') >= 1
  BY DEF CountInv, Pending, UnderWay
<1>5. main # <<>> =>
        /\ main[1] \in Message
        /\ main[1].kind \in Results => results = Count(Tail(main), Results) + 1
        /\ main[1].kind \notin Results => results = Count(Tail(main), Results)
        /\ main[1].kind = "poll" => polls = Count(Tail(main), {"poll"}) + 1
        /\ main[1].kind # "poll" => polls = Count(Tail(main), {"poll"})
        /\ Count(Tail(main), {"poll"}) \in Nat /\ Count(Tail(main), Results) \in Nat
        /\ Tail(main) \in Seq(Message)
  BY <1>1, TakenMessage
<1>6. Ticking(0) = 0 /\ \A delay \in Nat \ {0} : Ticking(delay) = 1
  BY DEF Ticking
<1>7. "poll" \notin Results /\ "healthy" \notin Results /\ "unhealthy" \notin Results
  BY DEF Results
<1>8. UNCHANGED <<main, timer>> => polls' = polls /\ Ticking(timer)' = Ticking(timer)
                                           /\ results' = results
  OBVIOUS
<1>9. UNCHANGED network => requests' = requests
  OBVIOUS
\* The loop is started on a queue with the polls and results there were.
<1>10. ASSUME NEW queue \in Seq(Message), StartPolling(queue),
              Count(queue, {"poll"}) = polls, Count(queue, Results) = results
       PROVE  /\ polling' = TRUE /\ results' = results
              /\ polling => polls' + Ticking(timer)' = polls + Ticking(timer)
              /\ ~ polling => polls' + Ticking(timer)' = 1
  <2>1. CASE polling
    <3>1. main' = queue /\ timer' = timer /\ polling' = TRUE
      BY <1>10, <2>1, LoopOperations
    <3>2. polls' = polls /\ results' = results /\ Ticking(timer)' = Ticking(timer)
      BY <1>10, <3>1
    <3> QED
      BY <2>1, <3>1, <3>2
  <2>2. CASE ~ polling
    <3>1. /\ polling' = TRUE /\ Count(main', {"poll"}) = 1 /\ timer' = 0
          /\ Count(main', Results) = Count(queue, Results)
      BY <1>10, <2>2, LoopOperations
    <3> QED
      BY <1>6, <1>10, <2>2, <3>1
  <2> QED
    BY <1>1, <2>1, <2>2
<1> USE DEF durable, view, loop, summary, queues, jobs
<1>11. CASE OnStart
  <2>1. UNCHANGED <<network, inFlight>>
    BY <1>11 DEF OnStart
  <2>2. CASE saved = None
    <3>1. UNCHANGED <<main, timer, polling, overtaken>>
      BY <1>11, <2>2 DEF OnStart
    <3> QED
      BY <1>3, <1>8, <1>9, <2>1, <3>1
  <2>3. CASE saved # None
    <3>1. StartPolling(main) /\ overtaken' = (overtaken /\ polling)
      BY <1>11, <2>3 DEF OnStart
    <3>2. /\ polling' = TRUE /\ results' = results
          /\ polling => polls' + Ticking(timer)' = polls + Ticking(timer)
          /\ ~ polling => polls' + Ticking(timer)' = 1
      BY <1>1, <1>10, <3>1
    <3> QED
      BY <1>1, <1>2, <1>3, <1>9, <2>1, <3>1, <3>2
  <2> QED
    BY <2>2, <2>3
<1>12. CASE OnStop \/ ChangeServer
  <2>1. StopPolling(main) /\ UNCHANGED <<network, inFlight>>
    BY <1>12 DEF OnStop, ChangeServer
  <2>2. polling' = FALSE /\ polls' = 0 /\ timer' = 0 /\ results' = results
    BY <1>1, <2>1, LoopOperations
  <2>3. Ticking(timer)' = 0
    BY <1>6, <2>2
  <2> QED
    BY <1>2, <1>3, <1>9, <2>1, <2>2, <2>3
<1>13. CASE Recreate
  <2>1. main' = <<>> /\ network' = <<>> /\ timer' = 0 /\ inFlight' = FALSE /\ polling' = FALSE
    BY <1>13 DEF Recreate
  <2>2. <<>> \in Seq(Message)
    OBVIOUS
  <2>3. polls' = 0 /\ results' = 0 /\ requests' = 0 /\ Ticking(timer)' = 0
    BY <1>6, <2>1, <2>2, CountIsNumber
  <2> QED
    BY <2>1, <2>3
<1>14. CASE \E s \in Servers : Connect(s)
  <2>1. PICK s \in Servers : Connect(s)
    BY <1>14
  <2> DEFINE job == [kind |-> "health", server |-> s]
  <2>2. job \in Job /\ job.kind \notin {"state"} /\ network' = Append(network, job)
    BY <2>1, MessageFields DEF Connect
  <2>3. requests' = requests
    <3> HIDE DEF job
    <3>1. Count(Append(network, job), {"state"}) = requests + 0
      BY <1>1, <2>2, CountAppend
    <3> QED
      BY <1>2, <2>2, <3>1
  <2>4. UNCHANGED <<main, timer, inFlight, polling, overtaken>>
    BY <2>1 DEF Connect
  <2> QED
    BY <1>3, <1>8, <2>3, <2>4
<1>15. CASE EngineStarts \/ FetchState \/ UNCHANGED vars
  <2>1. UNCHANGED <<main, timer, network, inFlight, polling, overtaken>>
    BY <1>15 DEF EngineStarts, FetchState, vars
  <2> QED
    BY <1>3, <1>8, <1>9, <2>1
<1>16. CASE CheckHealth \/ StateFails \/ SyncEvents
  <2>1. network # <<>>
    BY <1>16 DEF CheckHealth, StateFails, SyncEvents, PollingInv, JobInv
  <2>2. network[1].server \in Servers
    BY <1>1, <2>1, MessageFields
  <2>3. PICK m \in Message : /\ JobEnds(m) /\ m.kind # "poll"
                             /\ m.kind \in Results <=> network[1].kind = "state"
    <3>1. CASE CheckHealth
      <4>1. PICK m \in Message : JobEnds(m) /\ m.kind \in {"healthy", "unhealthy"}
        BY <2>2, <3>1, MessageFields DEF CheckHealth
      <4>2. network[1].kind = "health"
        BY <3>1 DEF CheckHealth
      <4> QED
        BY <1>7, <4>1, <4>2
    <3>2. CASE StateFails
      <4>1. PICK m \in Message : JobEnds(m) /\ m.kind \in {"schema", "unavailable", "failed"}
        BY <2>2, <3>2, MessageFields DEF StateFails
      <4>2. network[1].kind = "state"
        BY <3>2 DEF StateFails
      <4> QED
        BY <4>1, <4>2 DEF Results
    <3>3. CASE SyncEvents
      <4>1. syncing \in {"baseline", "page"}
        BY <3>3 DEF SyncEvents, PollingInv, PollingTypeOK
      <4>2. PICK m \in Message : JobEnds(m) /\ m.kind = "answer"
        BY <2>2, <3>3, <4>1, MessageFields DEF SyncEvents
      <4>3. network[1].kind = "state"
        BY <3>3 DEF SyncEvents, PollingInv, JobInv
      <4> QED
        BY <4>2, <4>3 DEF Results
    <3> QED
      BY <1>16, <3>1, <3>2, <3>3
  <2>4. /\ requests = requests' + IF network[1].kind = "state" THEN 1 ELSE 0
        /\ results' = results + IF m.kind \in Results THEN 1 ELSE 0
        /\ polls' = polls + IF m.kind = "poll" THEN 1 ELSE 0
        /\ requests' \in Nat
        /\ UNCHANGED <<timer, inFlight, polling, overtaken>>
    BY <2>1, <2>3, EndedJob DEF PollingInv
  <2>5. Ticking(timer)' = Ticking(timer)
    BY <2>4
  <2>6. requests' + results' = requests + results /\ polls' = polls
    BY <1>2, <2>3, <2>4
  <2> QED
    BY <1>3, <2>4, <2>5, <2>6
<1>17. CASE TimerFires
  <2>1. timer > 0 /\ timer' = 0 /\ main' = Append(main, Poll)
        /\ UNCHANGED <<network, inFlight, polling, overtaken>>
    BY <1>17 DEF TimerFires
  <2>2. polls' = polls + 1 /\ results' = results
    <3>1. Poll \in Message /\ Poll.kind = "poll"
      BY MessageFields DEF Poll
    <3>2. /\ Count(Append(main, Poll), Results) = results + 0
          /\ Count(Append(main, Poll), {"poll"}) = polls + 1
      BY <1>1, <1>7, <3>1, PostedMessage
    <3> QED
      BY <1>2, <2>1, <3>2
  <2>3. Ticking(timer) = 1 /\ Ticking(timer)' = 0
    BY <1>1, <1>6, <2>1
  <2> QED
    BY <1>2, <1>3, <1>9, <2>1, <2>2, <2>3
<1>18. CASE RequestState
  <2>1. main # <<>> /\ main[1].kind = "poll" /\ main' = Tail(main)
        /\ UNCHANGED <<timer, polling, server, overtaken>>
    BY <1>18 DEF RequestState, Taken
  <2>2. polls = polls' + 1 /\ results' = results /\ polls' \in Nat
    BY <1>5, <1>7, <2>1
  <2>3. Ticking(timer)' = Ticking(timer)
    BY <2>1
  <2>4. CASE polling /\ server # None /\ ~ inFlight
    <3> DEFINE job == [kind |-> "state", server |-> server]
    <3>1. inFlight' = TRUE /\ network' = Append(network, job)
      BY <1>18, <2>4 DEF RequestState
    <3>2. requests' = requests + 1
      <4>1. job \in Job /\ job.kind \in {"state"}
        BY <1>1, <2>4, MessageFields
      <4> HIDE DEF job
      <4>2. Count(Append(network, job), {"state"}) = requests + 1
        BY <1>1, <4>1, CountAppend
      <4> QED
        BY <3>1, <4>2
    <3> QED
      BY <1>2, <1>3, <2>2, <2>3, <2>4, <3>1, <3>2
  <2>5. CASE ~ (polling /\ server # None /\ ~ inFlight)
    <3>1. UNCHANGED <<inFlight, network>>
      BY <1>18, <2>5 DEF RequestState
    <3>2. polling => inFlight
      BY <2>5 DEF PollingInv, ServerInv
    <3> QED
      BY <1>2, <1>3, <1>9, <2>1, <2>2, <2>3, <3>1, <3>2
  <2> QED
    BY <2>4, <2>5
<1>19. CASE Healthy
  <2>1. main # <<>> /\ main[1].kind = "healthy" /\ StartPolling(Tail(main))
        /\ overtaken' = (overtaken /\ polling) /\ UNCHANGED <<network, inFlight>>
    BY <1>19 DEF Healthy, Taken
  <2>2. /\ Tail(main) \in Seq(Message)
        /\ Count(Tail(main), {"poll"}) = polls /\ Count(Tail(main), Results) = results
    BY <1>5, <1>7, <2>1
  <2>3. /\ polling' = TRUE /\ results' = results
        /\ polling => polls' + Ticking(timer)' = polls + Ticking(timer)
        /\ ~ polling => polls' + Ticking(timer)' = 1
    BY <1>10, <2>1, <2>2
  <2> QED
    BY <1>1, <1>2, <1>3, <1>9, <2>1, <2>3
<1>20. CASE Unhealthy
  <2>1. main # <<>> /\ main[1].kind = "unhealthy" /\ main' = Tail(main)
        /\ UNCHANGED <<timer, network, inFlight, polling, overtaken>>
    BY <1>20 DEF Unhealthy, Taken
  <2>2. polls' = polls /\ results' = results /\ Ticking(timer)' = Ticking(timer)
    BY <1>5, <1>7, <2>1
  <2> QED
    BY <1>3, <1>9, <2>1, <2>2
\* The callbacks of a request take its result and clear the flag.
<1>21. ASSUME main # <<>>, main[1].kind \in Results, inFlight' = FALSE, network' = network,
              results' = Count(Tail(main), Results)
       PROVE  requests' + results' = 0 /\ requests' = 0 /\ results' = 0
  <2>1. results = results' + 1 /\ results' \in Nat /\ requests' = requests
    BY <1>5, <1>21
  <2>2. requests + results <= 1
    BY <1>3
  <2>3. requests = 0 /\ results = 1
    BY <1>2, <2>1, <2>2
  <2> QED
    BY <2>1, <2>3
<1>22. CASE SchemaUnsupported \/ Unwanted
  <2>1. main # <<>> /\ main[1].kind \in Results /\ inFlight' = FALSE /\ main' = Tail(main)
        /\ UNCHANGED <<timer, network>>
    BY <1>22 DEF SchemaUnsupported, Unwanted, Taken, Results
  <2>2. polling' => overtaken'
    BY <1>1, <1>22 DEF SchemaUnsupported, Unwanted
  <2>3. /\ polls' = polls /\ Ticking(timer)' = Ticking(timer)
        /\ results' = Count(Tail(main), Results)
    BY <1>5, <1>7, <2>1
  <2>4. requests' + results' = 0
    BY <1>21, <2>1, <2>3
  <2> QED
    BY <1>3, <2>1, <2>2, <2>3, <2>4
<1>23. CASE RequestFailed \/ Answered
  <2>1. /\ main # <<>> /\ main[1].kind \in Results /\ inFlight' = FALSE
        /\ UNCHANGED network
    BY <1>23 DEF RequestFailed, Answered, Taken, Results
  <2>2. PICK delay \in Nat \ {0} : ScheduleNext(Tail(main), delay)
    <3>1. CASE RequestFailed
      <4>1. failures' \in 0..Steady
        BY <1>1, <3>1 DEF RequestFailed, Steady
      <4>2. BackoffMillis(failures') \in Nat \ {0}
        BY <4>1, BackoffIsPositive
      <4> QED
        BY <3>1, <4>2 DEF RequestFailed
    <3>2. CASE Answered
      BY <3>2 DEF Answered, PollMs
    <3> QED
      BY <1>23, <3>1, <3>2
  <2>3. polls' = 0 /\ timer' = delay /\ results' = Count(Tail(main), Results)
    BY <1>5, <2>1, <2>2, LoopOperations
  <2>4. Ticking(timer)' = 1
    BY <1>6, <2>3
  <2>5. requests' + results' = 0
    BY <1>21, <2>1, <2>3
  <2> QED
    BY <2>1, <2>3, <2>4, <2>5
<1> QED
  BY <1>11, <1>12, <1>13, <1>14, <1>15, <1>16, <1>17, <1>18, <1>19, <1>20, <1>22, <1>23
     DEF PollingNext, UserStep, NetworkStep, MainStep

\* Every step keeps the invariant.
LEMMA StepKeepsPollingInv == PollingInv /\ [PollingNext]_vars => PollingInv'
<1> SUFFICES ASSUME PollingInv, [PollingNext]_vars PROVE PollingInv'
  OBVIOUS
<1>1. VoiceInv(voice)'
  BY StepKeepsVoice DEF PollingInv
<1>2. PollingTypeOK'
  BY <1>1, StepKeepsType
<1>3. CountInv' /\ ServerInv' /\ JobInv'
  BY StepKeepsCounts, StepKeepsServer, StepKeepsJob DEF PollingInv
<1> QED
  BY <1>1, <1>2, <1>3 DEF PollingInv

-----------------------------------------------------------------------------
(* The theorems.                                                            *)

\* Every reachable state of the polling loop satisfies the invariant.
THEOREM PollingInvariant == PollingSpec => []PollingInv
<1>1. PollingInit => PollingInv
  BY InitPollingInv
<1>2. PollingInv /\ [PollingNext]_vars => PollingInv'
  BY StepKeepsPollingInv
<1> QED
  BY <1>1, <1>2, PTL DEF PollingSpec

\* The variables of the activity and of its two queues stay in their types.
THEOREM PollingTypeCorrect == PollingSpec => []PollingTypeOK
<1>1. PollingInv => PollingTypeOK
  BY DEF PollingInv
<1> QED
  BY <1>1, PollingInvariant, PTL

\* There is one request exactly while requestInFlight says so, and never a
\* second poll, whatever is stopped, started, connected and recreated.
THEOREM OneLoop == PollingSpec => []OnePollLoop
<1>1. PollingInv => OnePollLoop
  BY CountsAreMeant DEF PollingInv, PollingTypeOK, CountInv, OnePollLoop
<1> QED
  BY <1>1, PollingInvariant, PTL

\* A dashboard on which nothing will happen has taken another address's result.
THEOREM OnlyOvertakenStands == PollingSpec => []StandsOnlyOvertaken
<1>1. PollingInv => StandsOnlyOvertaken
  <2> SUFFICES ASSUME PollingInv, Stands, ~ overtaken PROVE FALSE
    BY DEF StandsOnlyOvertaken
  <2>1. Pending = 0 /\ UnderWay = 0
    BY CountsAreMeant DEF PollingInv, PollingTypeOK, Stands
  <2>2. ~ polling
    BY <2>1 DEF PollingInv, CountInv
  <2> QED
    BY <2>2 DEF PollingInv, ServerInv, Stands
<1> QED
  BY <1>1, PollingInvariant, PTL

\* No late result of a former address is taken for one of the present.
THEOREM NothingFormer == PollingSpec => []NothingOfFormerServer
<1>1. PollingInv => NothingOfFormerServer
  BY DEF PollingInv, ServerInv, NothingOfFormerServer
<1> QED
  BY <1>1, PollingInvariant, PTL

\* What is spoken runs to the newest text in order, without a gap.
THEOREM SpeechRunsToNewest == PollingSpec => []SpeechInOrder
<1>1. PollingInv => SpeechInOrder
  BY VoiceSpeaksInOrder DEF PollingInv, SpeechInOrder
<1> QED
  BY <1>1, PollingInvariant, PTL
=============================================================================
