-------------------------- MODULE MCZCodeCollector --------------------------
(* Two sessions, three writes of ZCode before a pass or between its reads,  *)
(* one tick that ages a heartbeat.                                          *)
EXTENDS ZCodeCollector, TLC

CONSTANTS s1, s2

SessionSymmetry == Permutations({s1, s2})

Logs == UNION {{[i \in 1..n |-> [session |-> s1, event |-> kind[i], at |-> i]] :
                  kind \in [1..n -> Events]} : n \in 1..4}

LastOf(entries, kinds) ==
  LET found == {n \in 1..Len(entries) : entries[n].event \in kinds}
  IN  IF found = {} THEN "none"
      ELSE entries[CHOOSE n \in found : \A m \in found : m <= n].event

\* The state machine against what it stands for, over every short log of one
\* session: the last entry of a kind decides, and work has a beginning.
ASSUME TurnsAreTheLastWord ==
  \A entries \in Logs :
    LET turn == TurnOf(s1, entries) IN
    /\ turn.open = (LastOf(entries, {"turn.started", "turn.ended"}) = "turn.started")
    /\ turn.task = (LastOf(entries, {"task.running", "task.terminal"}) = "task.running")
    /\ Working(turn) => turn.started # Never /\ turn.started <= turn.updated
============================================================================
