--------------------------- MODULE SnapshotStore ---------------------------
(***************************************************************************)
(* The agent's current state (agent/internal/store/snapshot.go) and the    *)
(* collector loops that keep it (agent/internal/runtime/runtime.go).       *)
(*                                                                         *)
(* One loop per source collects, reads the clock, and replaces its section *)
(* of the snapshot; a failure first reads the section it degrades. The     *)
(* store validates every replacement and its callers ignore a refusal. The *)
(* ZCode and the CommandCode code are the same up to names.                *)
(***************************************************************************)
EXTENDS Integers

CONSTANTS
  Sources,        \* the sources of a snapshot: zcode and commandCode
  Unconfigured,   \* sources without a collector
  MaxCollections, \* bound: collections finished
  MaxTime,        \* bound: clock ticks
  MaxSteps,       \* bound: backward steps of the machine's clock
  Nothing         \* absent data, time or result

ASSUME UnconfiguredAreSources == Unconfigured \subseteq Sources
ASSUME StoreBounds == MaxCollections \in Nat /\ MaxTime \in Nat /\ MaxSteps \in Nat

VARIABLES
  agentUp,     \* the agent process runs
  clock,       \* the machine's wall clock; Go's UTC() drops the monotonic reading
  steps,       \* how often it was set back
  snapshot,    \* SnapshotStore.state: a section per source
  results,     \* per source: the collection its loop has to record
  collections, \* collections finished; the n-th one returns data n
  lastGood,    \* history variable: per source, the newest data recorded, and when
  failedAt     \* history variable: per source, when its newest recorded collection failed

storeVars == <<agentUp, clock, steps, snapshot, results, collections, lastGood, failedAt>>

Instant == (-MaxSteps)..MaxTime
Section == [status : {"ok", "stale", "error", "disabled"}, observed : Instant,
            success : Instant \cup {Nothing}, data : 1..MaxCollections \cup {Nothing}]
Snapshots == [Sources -> Section]
Result == [ok : BOOLEAN, at : Instant, data : 1..MaxCollections,
           previous : Section \cup {Nothing}]
Good == [data : 1..MaxCollections, at : Instant]

ASSUME NothingIsApart == Nothing \notin Int \cup Good

\* HudState.Validate, section by section.
ValidSection(section) ==
  IF section.status \in {"ok", "stale"}
  THEN section.success # Nothing /\ section.success <= section.observed /\ section.data # Nothing
  ELSE section.data = Nothing

Valid(state) == \A s \in Sources : ValidSection(state[s])

\* Types, and that what the store holds and hands to the upload passes the
\* validation it will meet at the Hub, clock corrections or not.
StoreTypeOK ==
  /\ agentUp \in BOOLEAN
  /\ clock \in Instant
  /\ steps \in 0..MaxSteps
  /\ snapshot \in Snapshots /\ Valid(snapshot)
  /\ results \in [Sources -> Result \cup {Nothing}]
  /\ collections \in 0..MaxCollections
  /\ lastGood \in [Sources -> Good \cup {Nothing}]
  /\ failedAt \in [Sources -> Instant \cup {Nothing}]

InitialSection(s) ==
  [status |-> IF s \in Unconfigured THEN "disabled" ELSE "error",
   observed |-> clock, success |-> Nothing, data |-> Nothing]

StoreInit ==
  /\ agentUp = TRUE
  /\ clock = 0
  /\ steps = 0
  /\ snapshot = [s \in Sources |-> InitialSection(s)]
  /\ results = [s \in Sources |-> Nothing]
  /\ collections = 0
  /\ lastGood = [s \in Sources |-> Nothing]
  /\ failedAt = [s \in Sources |-> Nothing]

-----------------------------------------------------------------------------
\* A collector returns data or fails, and its loop reads the clock.
Collect(s) ==
  /\ agentUp
  /\ s \notin Unconfigured
  /\ results[s] = Nothing
  /\ collections < MaxCollections
  /\ collections' = collections + 1
  /\ \E ok \in BOOLEAN :
       results' = [results EXCEPT ![s] =
         [ok |-> ok, at |-> clock, data |-> collections + 1, previous |-> Nothing]]
  /\ UNCHANGED <<agentUp, clock, steps, snapshot, lastGood, failedAt>>

\* recordZCodeFailure: previous := r.store.Get().ZCode, before the update.
ReadPrevious(s) ==
  /\ agentUp
  /\ results[s] # Nothing
  /\ ~ results[s].ok
  /\ results[s].previous = Nothing
  /\ results' = [results EXCEPT ![s].previous = snapshot[s]]
  /\ UNCHANGED <<agentUp, clock, steps, snapshot, collections, lastGood, failedAt>>

\* Seeded fault: a failure keeps the data but not the time it is from.
DegradedAfresh(result) ==
  [status |-> IF result.previous.data # Nothing THEN "stale" ELSE "error", observed |-> result.at,
   success |-> IF result.previous.data # Nothing THEN result.at ELSE Nothing,
   data |-> result.previous.data]

\* Seeded fault: stale data keeps the health it had.
DegradedQuietly(result) ==
  IF result.previous.data # Nothing THEN result.previous
  ELSE [status |-> "error", observed |-> result.at, success |-> Nothing, data |-> Nothing]

\* The section a failed collection leaves: stale last-known-good data if there
\* is any, otherwise an error without data.
Degraded(result) ==
  LET keeps == result.previous.data # Nothing /\ result.previous.success # Nothing
  IN  [status |-> IF keeps THEN "stale" ELSE "error", observed |-> result.at,
       success |-> IF keeps THEN result.previous.success ELSE Nothing,
       data |-> IF keeps THEN result.previous.data ELSE Nothing]

Replacement(result) ==
  IF result.ok
  THEN [status |-> "ok", observed |-> result.at, success |-> result.at, data |-> result.data]
  ELSE Degraded(result)

\* Seeded fault: the update is not validated.
MutatedUnchecked(next) == next

\* SnapshotStore.mutate under the store's lock: what does not validate is
\* refused, and the callers drop the error.
Mutated(next) == IF Valid(next) THEN next ELSE snapshot

\* UpdateZCode or UpdateCommandCode.
Record(s) ==
  LET result == results[s] IN
  /\ agentUp
  /\ result # Nothing
  /\ result.ok \/ result.previous # Nothing
  /\ snapshot' = Mutated([snapshot EXCEPT ![s] = Replacement(result)])
  /\ results' = [results EXCEPT ![s] = Nothing]
  /\ lastGood' = IF result.ok
                 THEN [lastGood EXCEPT ![s] = [data |-> result.data, at |-> result.at]]
                 ELSE lastGood
  /\ failedAt' = [failedAt EXCEPT ![s] = IF result.ok THEN Nothing ELSE result.at]
  /\ UNCHANGED <<agentUp, clock, steps, collections>>

Tick ==
  /\ clock < MaxTime
  /\ clock' = clock + 1
  /\ UNCHANGED <<agentUp, steps, snapshot, results, collections, lastGood, failedAt>>

\* A clock correction.
ClockStepsBack ==
  /\ steps < MaxSteps
  /\ steps' = steps + 1
  /\ clock' = clock - 1
  /\ UNCHANGED <<agentUp, snapshot, results, collections, lastGood, failedAt>>

\* The process ends or dies; the snapshot lives in memory only.
AgentStops ==
  /\ agentUp
  /\ agentUp' = FALSE
  /\ results' = [s \in Sources |-> Nothing]
  /\ UNCHANGED <<clock, steps, snapshot, collections, lastGood, failedAt>>

\* InitialState: no source has been collected yet.
AgentStarts ==
  /\ ~ agentUp
  /\ agentUp' = TRUE
  /\ snapshot' = [s \in Sources |-> InitialSection(s)]
  /\ lastGood' = [s \in Sources |-> Nothing]
  /\ failedAt' = [s \in Sources |-> Nothing]
  /\ UNCHANGED <<clock, steps, results, collections>>

StoreNext ==
  \/ \E s \in Sources :
       \/ Collect(s)
       \/ ReadPrevious(s)
       \/ Record(s)
  \/ Tick
  \/ ClockStepsBack
  \/ AgentStops
  \/ AgentStarts

StoreSpec == StoreInit /\ [][StoreNext]_storeVars

-----------------------------------------------------------------------------
\* A failed collection is visible: the source is not ok until a collection
\* succeeds again (docs/DEVELOPMENT.md "a later failure changes it to stale and
\* retains that data"). The exception is a clock set back below the last
\* success: the store refuses the failure, and the source stays ok.
FailureIsVisible ==
  \A s \in Sources :
    /\ failedAt[s] # Nothing
    /\ lastGood[s] # Nothing => failedAt[s] >= lastGood[s].at
    => snapshot[s].status # "ok"

\* Data shown is the last that was collected, with the time it is from, however
\* many failures and updates of the other source came in between.
DataIsLastKnownGood ==
  \A s \in Sources :
    IF lastGood[s] = Nothing THEN snapshot[s].data = Nothing
    ELSE /\ snapshot[s].data = lastGood[s].data
         /\ snapshot[s].success = lastGood[s].at

============================================================================
