--------------------------- MODULE ZCodeCollector ---------------------------
(***************************************************************************)
(* One pass of the ZCode collector (agent/internal/collector/zcode:        *)
(* collector.go Collect, runtime_session.go, turn_log.go) beside the ZCode *)
(* that writes what it reads.                                              *)
(*                                                                         *)
(* A pass reads the Goal rows, the lifecycle log, the log again, the model *)
(* requests and the task index, one after the other and without a common   *)
(* transaction: ZCode writes between any two of them. What it read, the    *)
(* pass keeps in its locals. ZCode is external: it writes any row at any   *)
(* time, and the log in the order of its clock.                            *)
(***************************************************************************)
EXTENDS TurnLog, FiniteSets

CONSTANTS
  HeartbeatFresh, \* seconds: HeartbeatSeconds
  UsageFresh,     \* seconds: max(HeartbeatSeconds, 600)
  TerminalFresh,  \* seconds: RecentTerminalSeconds
  IndexFresh,     \* seconds: TaskMaxAgeSeconds
  TaskLimit,      \* TaskLimit
  LogEvents,      \* the log events explored
  MaxWrites,      \* bound: writes of ZCode
  MaxTime         \* bound: clock ticks

ASSUME Ages == {HeartbeatFresh, UsageFresh, TerminalFresh, IndexFresh, TurnFresh} \subseteq Nat
ASSUME LogEventsAreEvents == LogEvents \subseteq Events
\* The database holds finitely many sessions, and a limit of zero or less is
\* replaced by the default: bounded.
ASSUME SessionsAreFinite == IsFiniteSet(Sessions)
ASSUME LimitIsPositive == TaskLimit \in Nat \ {0}
ASSUME CollectorBounds == MaxWrites \in Nat /\ MaxTime \in Nat

VARIABLES
  now,      \* the machine's clock
  writes,   \* writes of ZCode
  goals,    \* session_target and todo: at most one Goal row per session
  usage,    \* model_usage: the requests of a session, the newest last
  index,    \* tasks-index: at most one row per session
  log,      \* the log's files, each a sequence of entries
  known,    \* sessions with a session row
  pc,       \* the next read of the pass
  pass,     \* the pass's locals
  listed,   \* the tasks the last pass returned, in order; none while one runs
  open,     \* history variable: sessions with an active turn since the pass began
  ended,    \* history variable: sessions without any sign of life since the pass began
  complete  \* history variable: whether the last pass read its runtime sources

zcodeVars == <<writes, goals, usage, index, log, known>>
passVars == <<pc, pass, listed, complete>>
vars == <<now, zcodeVars, passVars, open, ended>>

Live == {"running", "waiting"}
Terminal(status) == status \in {"failed", "completed"}

NoRow == [status |-> "none"]

NoPass == [at |-> 0, rows |-> [s \in Sessions |-> NoRow], goals |-> <<>>,
           turns |-> [s \in Sessions |-> NoTurn], runtime |-> <<>>, primary |-> <<>>,
           owned |-> {}, failed |-> FALSE]

CollectorInit ==
  /\ now = 0 /\ writes = 0
  /\ goals = [s \in Sessions |-> NoRow]
  /\ usage = [s \in Sessions |-> <<>>]
  /\ index = [s \in Sessions |-> NoRow]
  /\ log = << <<>> >>
  /\ known \in {Sessions} \cup {Sessions \ {s} : s \in Sessions}
  /\ pc = "idle" /\ pass = NoPass /\ listed = <<>>
  /\ open = {} /\ ended = {} /\ complete = FALSE

-----------------------------------------------------------------------------
(* What each source says of a session.                                     *)

GoalFresh(row, at) == Age(at, row.heartbeat) <= HeartbeatFresh

\* goalTask: the status of a Goal row, NoRow's if it is not listed.
GoalStatus(row, at) ==
  CASE row = NoRow -> "none"
    [] row # NoRow /\ GoalFresh(row, at) ->
         (CASE row.status = "failed" -> "failed"
            [] row.status = "completed" /\ row.todos \subseteq {"completed"} -> "completed"
            [] row.status = "running" \/ "running" \in row.todos -> "running"
            [] row.status = "waiting" \/ "waiting" \in row.todos -> "waiting"
            [] OTHER -> "running")
    [] OTHER -> IF Terminal(row.status) /\ Age(at, row.heartbeat) <= TerminalFresh
                THEN row.status ELSE "none"

\* Seeded fault: a terminal Goal row is believed whatever the log says.
GoalListedAsFound(row, turn, at) == GoalStatus(row, at)

\* collectGoals: an active turn is stronger than a terminal Goal row.
GoalListed(row, turn, at) ==
  IF Terminal(GoalStatus(row, at)) /\ Active(turn, at) THEN "running" ELSE GoalStatus(row, at)

\* Seeded fault: a request counts however old the end of its turn makes it.
RequestAlone(requests, turn, at) ==
  requests # <<>> /\ LET newest == requests[Len(requests)] IN
    newest.status \in Live /\ Age(at, newest.at) <= UsageFresh

\* Only the newest request counts, if the log has nothing as new.
RequestLives(requests, turn, at) ==
  requests # <<>> /\ LET newest == requests[Len(requests)] IN
    /\ newest.status \in Live
    /\ Age(at, newest.at) <= UsageFresh
    /\ turn.updated = Never \/ newest.at > turn.updated

IndexListed(row, at) == row # NoRow /\ Age(at, row.at) <= IndexFresh

-----------------------------------------------------------------------------
(* Lists of tasks.                                                         *)

SessionsOf(tasks) == {tasks[n].session : n \in 1..Len(tasks)}

FirstOf(tasks, n) == SubSeq(tasks, 1, IF Len(tasks) < n THEN Len(tasks) ELSE n)

\* The orders of a set of sessions by recency: ties are in any order.
ByRecency(found, recency) ==
  {order \in SetToSeqs(found) :
     \A m, n \in 1..Len(order) : m < n => recency[order[m]] >= recency[order[n]]}

Listing(order, source, status) ==
  [n \in 1..Len(order) |->
     [session |-> order[n], source |-> source, status |-> status[order[n]]]]

\* mergeSnapshots.
Merged(primary, secondary) == FirstOf(primary \o secondary, TaskLimit)

-----------------------------------------------------------------------------
\* What the log shows of a session, and what no other source denies.
TurnIsOpen(turn, s, at) == Active(turn, at) /\ s \in known

TurnHasEnded(turn, requests, goal, at) ==
  /\ turn.updated # Never /\ ~ Working(turn)
  /\ \A n \in 1..Len(requests) : requests[n].at <= turn.updated
  /\ goal = NoRow \/ ~ GoalFresh(goal, at)

\* known does not change.
Watch ==
  LET turns == [s \in Sessions |-> IF s \in open \cup ended THEN TurnState(s, log') ELSE NoTurn] IN
  /\ open' = {s \in open : TurnIsOpen(turns[s], s, now')}
  /\ ended' = {s \in ended : /\ TurnHasEnded(turns[s], usage'[s], goals'[s], now')
                            /\ usage'[s] = usage[s]}

Keep == UNCHANGED <<now, zcodeVars>> /\ UNCHANGED <<open, ended>>

Begin ==
  /\ pc = "idle"
  /\ \E present \in BOOLEAN :
       /\ pc' = IF present THEN "goals" ELSE "index"
       /\ pass' = [NoPass EXCEPT !.failed = ~ present]
  /\ open' = {s \in Sessions : TurnIsOpen(TurnState(s, log), s, now)}
  /\ ended' = {s \in Sessions : TurnHasEnded(TurnState(s, log), usage[s], goals[s], now)}
  /\ listed' = <<>> /\ complete' = FALSE
  /\ UNCHANGED <<now, zcodeVars>>

Fail ==
  /\ pc' = "idle"
  /\ pass' = NoPass
  /\ complete' = FALSE
  /\ UNCHANGED listed

Publish(tasks) ==
  /\ pc' = "idle"
  /\ pass' = NoPass
  /\ listed' = tasks
  /\ complete' = ~ pass.failed

\* collectGoals: the Goal rows with their todos.
ReadGoals ==
  /\ pc = "goals"
  /\ \/ /\ pass' = [pass EXCEPT !.rows = goals]
        /\ pc' = "goalTasks"
        /\ UNCHANGED <<listed, complete>>
     \/ Fail
  /\ Keep

\* collectGoals: the tasks, newest heartbeat first, with the log as it is by now.
\* The sessions of the listed tasks are the Goal's.
GoalTasks ==
  LET turns == [s \in Sessions |-> TurnState(s, log)]
      status == [s \in Sessions |-> GoalListed(pass.rows[s], turns[s], now)]
  IN
  /\ pc = "goalTasks"
  /\ \E order \in ByRecency({s \in Sessions : status[s] # "none"},
                            [s \in Sessions |-> IF pass.rows[s] = NoRow THEN Never
                                                ELSE pass.rows[s].heartbeat]) :
       LET tasks == FirstOf(Listing(order, "goal", status), TaskLimit) IN
       pass' = [pass EXCEPT !.goals = tasks, !.owned = SessionsOf(tasks),
                            !.rows = NoPass.rows]
  /\ pc' = "turns"
  /\ UNCHANGED <<listed, complete>>
  /\ Keep

\* Collect: without runtime sessions the pass goes on with the Goals it has.
RuntimeFails ==
  IF pass.goals = <<>> THEN Fail
  ELSE /\ pass' = [pass EXCEPT !.primary = pass.goals, !.failed = TRUE]
       /\ pc' = "index"
       /\ UNCHANGED <<listed, complete>>

RuntimeEnds(tasks) ==
  /\ pass' = [NoPass EXCEPT !.goals = pass.goals, !.primary = Merged(pass.goals, tasks),
                            !.owned = pass.owned \cup SessionsOf(tasks)]
  /\ pc' = "index"
  /\ UNCHANGED <<listed, complete>>

\* collectRuntimeSessionsExcluding: active turns of sessions without a listed
\* Goal, newest first, up to the limit.
ReadTurns ==
  LET turns == [s \in Sessions |-> TurnState(s, log)]
      active == {s \in known \ pass.owned : Active(turns[s], now)}
  IN
  /\ pc = "turns"
  /\ \/ \E order \in ByRecency(active, [s \in Sessions |-> turns[s].updated]) :
          LET tasks == FirstOf(Listing(order, "runtime", [s \in Sessions |-> "running"]), TaskLimit)
          IN  IF Len(tasks) = TaskLimit THEN RuntimeEnds(tasks)
              ELSE /\ pass' = [pass EXCEPT !.at = now, !.turns = turns, !.runtime = tasks]
                   /\ pc' = "usage"
                   /\ UNCHANGED <<listed, complete>>
     \/ RuntimeFails
  /\ Keep

\* Then the sessions whose newest request lives, unless already found.
ReadUsage ==
  LET requested == {s \in known \ (pass.owned \cup SessionsOf(pass.runtime)) :
                      RequestLives(usage[s], pass.turns[s], pass.at)}
      newest == [s \in Sessions |-> IF usage[s] = <<>> THEN [status |-> "none", at |-> Never]
                                    ELSE usage[s][Len(usage[s])]]
  IN
  /\ pc = "usage"
  /\ \/ \E order \in ByRecency(requested, [s \in Sessions |-> newest[s].at]) :
          RuntimeEnds(FirstOf(pass.runtime \o
            Listing(order, "runtime", [s \in Sessions |-> newest[s].status]), TaskLimit))
     \/ RuntimeFails
  /\ Keep

\* Seeded fault: only the Goal sessions are left out of the index.
ReadIndexBesideRuntime ==
  LET rows == {s \in Sessions \ SessionsOf(pass.goals) : IndexListed(index[s], now)} IN
  /\ pc = "index"
  /\ \E order \in SetToSeqs(rows) :
       Publish(Merged(pass.primary,
                      Listing(order, "index", [s \in Sessions |-> index[s].status])))
  /\ Keep

\* collectTaskIndexExcluding, pinned rows first and so in any order. History
\* that cannot be read takes nothing from what runs.
ReadIndex ==
  LET rows == {s \in Sessions \ pass.owned : IndexListed(index[s], now)} IN
  /\ pc = "index"
  /\ \/ \E order \in SetToSeqs(rows) :
          Publish(Merged(pass.primary,
                         Listing(order, "index", [s \in Sessions |-> index[s].status])))
     \/ IF pass.primary # <<>> THEN Publish(pass.primary) ELSE Fail
  /\ Keep

CollectorStep == Begin \/ ReadGoals \/ GoalTasks \/ ReadTurns \/ ReadUsage \/ ReadIndex

-----------------------------------------------------------------------------
(* ZCode.                                                                  *)

Write == writes < MaxWrites /\ writes' = writes + 1

\* A Goal row as the runner writes it, and the rows of a run it leaves.
WriteGoal(s) ==
  /\ \E status \in {"running", "completed"}, todos \in {{}, {"waiting"}} :
       \/ goals' = [goals EXCEPT ![s] = [status |-> status, todos |-> todos,
                                         heartbeat |-> now, updated |-> now]]
       \/ /\ goals[s] # NoRow
          /\ goals' = [goals EXCEPT ![s].status = status, ![s].updated = now]
  /\ UNCHANGED <<usage, index, log, known>>

WriteRequest(s) ==
  /\ \/ usage' = [usage EXCEPT ![s] = Append(@, [status |-> "running", at |-> now])]
     \/ /\ usage[s] # <<>>
        /\ usage' = [usage EXCEPT ![s][Len(usage[s])].status = "completed"]
  /\ UNCHANGED <<goals, index, log, known>>

WriteIndex(s) ==
  /\ \E status \in {"running", "completed"} :
       index' = [index EXCEPT ![s] = [status |-> status, at |-> now]]
  /\ UNCHANGED <<goals, usage, log, known>>

WriteLog(s) ==
  /\ \E event \in LogEvents :
       log' = [log EXCEPT ![Len(log)] =
                 Append(@, [session |-> s, event |-> event, at |-> now])]
  /\ UNCHANGED <<goals, usage, index, known>>

RotateLog ==
  /\ log[Len(log)] # <<>>
  /\ log' = Append(log, <<>>)
  /\ UNCHANGED <<goals, usage, index, known>>

ZCodeStep ==
  /\ Write
  /\ RotateLog \/ \E s \in Sessions : WriteGoal(s) \/ WriteRequest(s) \/ WriteIndex(s) \/ WriteLog(s)
  /\ UNCHANGED <<now, passVars>>
  /\ Watch

Tick ==
  /\ now < MaxTime
  /\ now' = now + 1
  /\ UNCHANGED <<zcodeVars, passVars>>
  /\ Watch

CollectorNext == CollectorStep \/ ZCodeStep \/ Tick

CollectorSpec == CollectorInit /\ [][CollectorNext]_vars

-----------------------------------------------------------------------------
\* The part of the log that is read never shows work that the whole log does
\* not show: what was cut off at the front, or rotated away, only hides work.
\* Of two files both tails are read, so that must be said of a log without a
\* gap before the newer one's tail.
TailShowsNoMore ==
  (\A n \in 2..Len(log) : n + MaxFiles > Len(log) + 1 => Len(log[n]) <= TailLength) =>
    \A s \in Sessions :
      Working(TurnState(s, log)) => Working(TurnOf(s, FlattenSeq(log)))

\* A session is listed as one task, whatever moved between the reads: the
\* Goal, runtime and index entries of one session have different ids and the
\* phone would show and announce it twice.
OneTaskPerSession ==
  \A m, n \in 1..Len(listed) : listed[m].session = listed[n].session => m = n

\* A session whose turn was active from the beginning of the pass to its end is
\* listed as running or waiting, unless the list is full. Neither a terminal
\* Goal row nor an index row hides it or shows it as finished.
ActiveTurnIsListed ==
  [][\A s \in Sessions :
       (pc # "idle" /\ pc' = "idle" /\ complete' /\ s \in open) =>
         \/ \E n \in 1..Len(listed') : listed'[n].session = s /\ listed'[n].status \in Live
         \/ Len(listed') = TaskLimit /\ s \notin SessionsOf(listed')]_vars

\* A session whose turn had ended before the pass began, without a newer
\* request and without a Goal that still gives signs of life, is not brought
\* back as running by a request row that was left open or by its Goal row.
EndedTurnStaysEnded ==
  [][\A s \in Sessions :
       (pc # "idle" /\ pc' = "idle" /\ s \in ended) =>
         \A n \in 1..Len(listed') :
           (listed'[n].session = s /\ listed'[n].status \in Live)
             => listed'[n].source = "index"]_vars
============================================================================
