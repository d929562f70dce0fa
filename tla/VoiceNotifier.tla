---------------------------- MODULE VoiceNotifier ----------------------------
(***************************************************************************)
(* The phone's speech queue (android VoiceNotifier.java). Texts are        *)
(* numbered in the order in which speak is called. Until the engine is     *)
(* ready they wait; of the waiting texts the oldest give way.              *)
(***************************************************************************)
EXTENDS Integers, Sequences

CONSTANTS
  MaxPending, \* MAX_PENDING_UTTERANCES: 8
  MaxTexts    \* bound: texts given to one engine

ASSUME SpeechBounds == MaxPending \in Nat \ {0} /\ MaxTexts \in Nat

\* spoken and texts are history: what the engine was told, and how many texts
\* there were.
Voice == [engine : {"starting", "ready", "unusable"}, pending : Seq(1..MaxTexts),
          spoken : Seq(1..MaxTexts), texts : 0..MaxTexts]

NewVoice == [engine |-> "starting", pending |-> <<>>, spoken |-> <<>>, texts |-> 0]

\* Seeded fault: texts wait without a limit.
WaitingUnbounded(pending, text) == Append(pending, text)

\* Seeded fault: a full queue refuses the newest text.
WaitingUnlessFull(pending, text) ==
  IF Len(pending) >= MaxPending THEN pending ELSE Append(pending, text)

\* speak, not ready: the oldest give way to the newest.
Waiting(pending, text) ==
  Append(IF Len(pending) >= MaxPending THEN Tail(pending) ELSE pending, text)

\* speak. An engine that could not be used collects texts as one that starts.
Said(voice) ==
  LET text == voice.texts + 1 IN
  IF voice.engine = "ready"
  THEN [voice EXCEPT !.texts = text, !.spoken = Append(voice.spoken, text)]
  ELSE [voice EXCEPT !.texts = text, !.pending = Waiting(voice.pending, text)]

\* onInit: what waited is spoken, or given up with the engine.
EngineReady(voice) ==
  [voice EXCEPT !.engine = "ready", !.spoken = voice.spoken \o voice.pending,
                !.pending = <<>>]

EngineUnusable(voice) == [voice EXCEPT !.engine = "unusable", !.pending = <<>>]

\* Texts are spoken in the order they were given, and only the oldest of those
\* that waited for the engine are ever missing: up to the limit all of them
\* wait, and what the engine has been told runs to the newest without a gap.
SpeechIsNewestInOrder(voice) ==
  LET heard == voice.spoken \o voice.pending IN
  /\ \A n \in 2..Len(heard) : heard[n] = heard[n - 1] + 1
  /\ voice.engine # "unusable" /\ voice.texts > 0 =>
       /\ Len(heard) >= IF voice.texts < MaxPending THEN voice.texts ELSE MaxPending
       /\ heard[Len(heard)] = voice.texts
============================================================================
