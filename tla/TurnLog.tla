------------------------------ MODULE TurnLog ------------------------------
(***************************************************************************)
(* What the collector makes of ZCode's lifecycle log: readTurnStates of    *)
(* agent/internal/collector/zcode/turn_log.go, from the tails of the two   *)
(* newest files, one entry after the other. An entry is known by its       *)
(* session, its event and its time; of the tasks a session.updated names,  *)
(* one per session is told apart. Lines that are no entry, a half-written  *)
(* last line among them, are skipped and left out.                         *)
(***************************************************************************)
EXTENDS Integers, Sequences, SequencesExt

CONSTANTS
  Sessions,    \* ZCode's sessions
  MaxFiles,    \* files read (2 in the code)
  TailLength,  \* entries read of a file (512 KiB in the code)
  TrackLimit,  \* highest count of tracked background tasks (1024)
  TurnFresh    \* seconds after its last sign that a turn counts as active

ASSUME LogBounds == {MaxFiles, TailLength, TrackLimit} \subseteq Nat

Never == -1

\* turn.ended is turn.completed, turn.failed, turn.cancelled and turn.canceled;
\* task.* are session.updated with a taskId and a status; tracking.* are
\* background_task.tracking.*; note is what is recorded without being work.
Events == {"turn.started", "turn.ended", "task.running", "task.terminal",
           "tracking.started", "tracking.terminal", "note", "other"}

NoTurn == [open |-> FALSE, started |-> Never, updated |-> Never, task |-> FALSE, tracked |-> 0]

Working(turn) == turn.open \/ turn.task \/ turn.tracked > 0

\* The start of a period of work is the first entry after idleness.
StartOf(turn, at) == IF Working(turn) /\ turn.started # Never THEN turn.started ELSE at

Applied(turn, entry) ==
  CASE entry.event = "turn.started" ->
         [turn EXCEPT !.open = TRUE, !.started = StartOf(turn, entry.at), !.updated = entry.at]
    [] entry.event = "turn.ended" -> [turn EXCEPT !.open = FALSE, !.updated = entry.at]
    [] entry.event = "task.running" ->
         [turn EXCEPT !.task = TRUE, !.updated = entry.at,
                      !.started = IF Working(turn) THEN turn.started ELSE entry.at]
    [] entry.event = "task.terminal" -> [turn EXCEPT !.task = FALSE, !.updated = entry.at]
    [] entry.event = "tracking.started" ->
         [turn EXCEPT !.tracked = IF turn.tracked < TrackLimit THEN turn.tracked + 1
                                  ELSE turn.tracked,
                      !.started = StartOf(turn, entry.at), !.updated = entry.at]
    [] entry.event = "tracking.terminal" ->
         [turn EXCEPT !.tracked = IF turn.tracked > 0 THEN turn.tracked - 1 ELSE 0,
                      !.updated = entry.at]
    [] entry.event = "note" /\ Working(turn) -> [turn EXCEPT !.updated = entry.at]
    [] entry.event = "other" /\ Working(turn) /\ entry.at > turn.updated ->
         [turn EXCEPT !.updated = entry.at]
    [] OTHER -> turn

\* Seeded fault: the first entries of a file.
Head512K(file) == SubSeq(file, 1, IF Len(file) > TailLength THEN TailLength ELSE Len(file))

\* readTail: the last entries of a file.
Tail512K(file) ==
  SubSeq(file, IF Len(file) > TailLength THEN Len(file) - TailLength + 1 ELSE 1, Len(file))

\* The entries read: the tails of the newest files, the older file first.
Window(files) ==
  FlattenSeq([n \in 1..Len(files) |->
    IF n + MaxFiles > Len(files) THEN Tail512K(files[n]) ELSE <<>>])

\* The state that a sequence of entries leaves a session in.
TurnOf(s, entries) ==
  LET turn[n \in 0..Len(entries)] ==
        IF n = 0 THEN NoTurn
        ELSE IF entries[n].session = s THEN Applied(turn[n - 1], entries[n]) ELSE turn[n - 1]
  IN  turn[Len(entries)]

TurnState(s, files) == LET entries == Window(files) IN TurnOf(s, entries)

\* ageSeconds: a time in the future is of age zero.
Age(now, then) == IF then > now THEN 0 ELSE now - then

Active(turn, now) ==
  Working(turn) /\ turn.updated # Never /\ Age(now, turn.updated) <= TurnFresh
============================================================================
