---------------------------- MODULE EventOutbox ----------------------------
(***************************************************************************)
(* The development machine's durable event outbox                          *)
(* (agent/internal/events/outbox.go, hygiene.go) together with the two     *)
(* goroutines that drive it (agent/internal/remote/runtime.go): the        *)
(* observe loop turns trustworthy ZCode snapshots into terminal-transition *)
(* events, the delivery loop uploads and acknowledges them.                *)
(*                                                                         *)
(* Everything in SQLite is durable; Crash loses only what the delivery     *)
(* loop holds in memory. Every public Outbox method runs under one mutex   *)
(* and, where it writes, in one transaction, so each is one action.        *)
(*                                                                         *)
(* An event row is known by its local_seq: AUTOINCREMENT never reuses it   *)
(* and the random 128-bit event_id drawn for the row is as unique.         *)
(***************************************************************************)
EXTENDS Naturals, FiniteSets

CONSTANTS
  Tasks,           \* task ids the ZCode collector can report
  LiveStatus,      \* the statuses that are not terminal (running, waiting, unknown)
  Absent,          \* "no such row" / "task not listed"
  MaxObservations, \* bound: trustworthy snapshots observed
  PendingLimit     \* rows one upload may carry (100 in the code)

Terminal(status) == status \in {"completed", "failed"}

Status == LiveStatus \cup {"completed", "failed"}

ASSUME TasksFinite == IsFiniteSet(Tasks)
ASSUME StatusesDiffer ==
  /\ Absent \notin Status
  /\ LiveStatus \cap {"completed", "failed"} = {}
ASSUME LimitsAreNatural == MaxObservations \in Nat /\ PendingLimit \in Nat \ {0}

VARIABLES
  initialized, \* event_meta: the baseline has been taken
  baseline,    \* task_state.status per task, Absent where there is no row
  display,     \* tasks whose task_state row still holds title/workspace
  outbox,      \* local_seq of the event_outbox rows
  localSeq,    \* sqlite_sequence of event_outbox
  delivery,    \* where the delivery loop is: "idle", "sending" or "acking"
  batch,       \* local_seqs the delivery loop read and has not settled
  observations, \* history variable: how many trustworthy snapshots were observed
  history,     \* history variable: those snapshots, in order
  emitted      \* history variable: every event row ever committed

outboxVars == <<initialized, baseline, display, outbox, localSeq,
                delivery, batch, observations, history, emitted>>
durable == <<initialized, baseline, display, outbox, localSeq>>
ghosts  == <<observations, history, emitted>>

\* A snapshot lists some of the tasks, each with its status.
Listing == [Tasks -> Status \cup {Absent}]
Health  == {"ok", "stale", "error", "disabled"}
Event   == [seq : Nat, obs : Nat, task : Tasks, status : {"completed", "failed"}]

OutboxTypeOK ==
  /\ initialized \in BOOLEAN
  /\ baseline \in [Tasks -> Status \cup {Absent}]
  /\ display \in SUBSET Tasks
  /\ localSeq \in Nat
  /\ outbox \in SUBSET (1..localSeq)
  /\ delivery \in {"idle", "sending", "acking"}
  /\ batch \in SUBSET (1..localSeq)
  /\ observations \in 0..MaxObservations
  /\ history \in [1..observations -> Listing]
  /\ emitted \in SUBSET Event

OutboxInit ==
  /\ initialized = FALSE
  /\ baseline = [t \in Tasks |-> Absent]
  /\ display = {}
  /\ outbox = {}
  /\ localSeq = 0
  /\ delivery = "idle"
  /\ batch = {}
  /\ observations = 0
  /\ history = [n \in 1..0 |-> baseline]
  /\ emitted = {}

-----------------------------------------------------------------------------
(* The observe loop: Outbox.Observe.                                        *)

\* Seeded fault: every change of status is an event, terminal or not.
TransitionedToAnything(tasks) ==
  {t \in Tasks : initialized /\ tasks[t] # Absent /\ baseline[t] # tasks[t]}

\* The tasks of a listing for which Observe appends an event, given the
\* statuses loaded from task_state before any row is written.
Transitioned(tasks) ==
  {t \in Tasks : /\ initialized
                 /\ tasks[t] # Absent
                 /\ Terminal(tasks[t])
                 /\ baseline[t] # tasks[t]}

\* Seeded fault: the snapshot replaces task_state, unlisted tasks included.
UpsertedWithoutUnlisted(tasks) == tasks

\* The row written to task_state for every listed task; unlisted rows stay.
Upserted(tasks) ==
  [t \in Tasks |-> IF tasks[t] = Absent THEN baseline[t] ELSE tasks[t]]

\* Seeded fault: INTEGER PRIMARY KEY without AUTOINCREMENT numbers on from
\* the highest row still in the table.
ReusedSeqs(n) ==
  LET top == IF outbox = {} THEN 0 ELSE CHOOSE m \in outbox : \A k \in outbox : k <= m
  IN  (top + 1)..(top + n)

\* local_seq INTEGER PRIMARY KEY AUTOINCREMENT: the next n numbers.
NextSeqs(n) == (localSeq + 1)..(localSeq + n)

\* The rows are appended in slice order, which the collector leaves arbitrary.
SeqAssignments(new) ==
  {f \in [new -> NextSeqs(Cardinality(new))] :
     \A t, u \in new : f[t] = f[u] => t = u}

Observe(health, tasks) ==
  /\ health = "ok"
  /\ observations < MaxObservations
  /\ \E seqOf \in SeqAssignments(Transitioned(tasks)) :
       /\ outbox' = outbox \cup {seqOf[t] : t \in Transitioned(tasks)}
       /\ emitted' = emitted \cup
            {[seq |-> seqOf[t], obs |-> observations + 1,
              task |-> t, status |-> tasks[t]] : t \in Transitioned(tasks)}
  /\ localSeq' = localSeq + Cardinality(Transitioned(tasks))
  /\ baseline' = Upserted(tasks)
  /\ display' = display \cup {t \in Tasks : tasks[t] # Absent}
  /\ initialized' = TRUE
  /\ observations' = observations + 1
  /\ history' = [n \in 1..(observations + 1) |->
                   IF n <= observations THEN history[n] ELSE tasks]
  /\ UNCHANGED <<delivery, batch>>

\* A stale, failed or disabled source, or a transaction that rolls back
\* (SQLite error, an event Validate refuses): nothing is written.
ObserveNothing(health) ==
  /\ health # "ok"
  /\ UNCHANGED outboxVars

\* Outbox.Maintain strips the display columns of terminal rows nobody has
\* listed for 180 days; which rows are that old is left open.
Maintain(old) ==
  /\ old \subseteq {t \in display : Terminal(baseline[t])}
  /\ old # {}
  /\ display' = display \ old
  /\ UNCHANGED <<initialized, baseline, outbox, localSeq, delivery, batch, ghosts>>

-----------------------------------------------------------------------------
(* The delivery loop: Runtime.eventDeliveryLoop.                            *)

\* Seeded fault: ORDER BY local_seq DESC.
PendingNewest ==
  {n \in outbox : Cardinality({m \in outbox : m > n}) < PendingLimit}

\* Outbox.Pending: the oldest PendingLimit rows.
Pending ==
  {n \in outbox : Cardinality({m \in outbox : m < n}) < PendingLimit}

ReadPending ==
  /\ delivery = "idle"
  /\ outbox # {}
  /\ batch' = Pending
  /\ delivery' = "sending"
  /\ UNCHANGED <<durable, ghosts>>

\* UploadEvents returned nil: some hub answered 2xx for this batch.
UploadSucceeded ==
  /\ delivery = "sending"
  /\ delivery' = "acking"
  /\ UNCHANGED <<durable, batch, ghosts>>

\* Seeded fault: a refused or timed-out upload is acknowledged like any other.
UploadFailedUnnoticed ==
  /\ delivery = "sending"
  /\ delivery' = "acking"
  /\ UNCHANGED <<durable, batch, ghosts>>

\* Any error of UploadEvents: the rows stay, the loop backs off and rereads.
UploadFailed ==
  /\ delivery = "sending"
  /\ delivery' = "idle"
  /\ batch' = {}
  /\ UNCHANGED <<durable, ghosts>>

\* Seeded fault: DELETE FROM event_outbox without the uploaded ids.
AckEverything ==
  /\ delivery = "acking"
  /\ outbox' = {}
  /\ delivery' = "idle"
  /\ batch' = {}
  /\ UNCHANGED <<initialized, baseline, display, localSeq, ghosts>>

\* Outbox.Ack: exactly the uploaded ids, in one transaction ...
Ack ==
  /\ delivery = "acking"
  /\ outbox' = outbox \ batch
  /\ delivery' = "idle"
  /\ batch' = {}
  /\ UNCHANGED <<initialized, baseline, display, localSeq, ghosts>>

\* ... which may fail and roll back: the loop will upload the rows again.
AckFailed ==
  /\ delivery = "acking"
  /\ delivery' = "idle"
  /\ batch' = {}
  /\ UNCHANGED <<durable, ghosts>>

\* The process dies and is started again on the same database.
Crash ==
  /\ delivery' = "idle"
  /\ batch' = {}
  /\ UNCHANGED <<durable, ghosts>>

ObserveStep ==
  \/ \E tasks \in Listing : Observe("ok", tasks)
  \/ \E health \in Health : ObserveNothing(health)
  \/ \E old \in SUBSET display : Maintain(old)

OutboxNext ==
  \/ ObserveStep
  \/ ReadPending
  \/ UploadSucceeded
  \/ UploadFailed
  \/ Ack
  \/ AckFailed
  \/ Crash

OutboxSpec == OutboxInit /\ [][OutboxNext]_outboxVars

-----------------------------------------------------------------------------
(* What the outbox promises.                                                *)

\* Task t changed into a terminal status at the n-th trustworthy snapshot,
\* judged from the whole history and not from the stored baseline.
TransitionAt(n, t) ==
  /\ n \in 2..observations
  /\ history[n][t] # Absent
  /\ Terminal(history[n][t])
  /\ ~ \E m \in 1..(n - 1) :
         /\ history[m][t] = history[n][t]
         /\ \A k \in (m + 1)..(n - 1) : history[k][t] = Absent

\* The events ever emitted are exactly the terminal transitions of the
\* snapshot history: none for the first snapshot, one per transition, none
\* repeated, whatever crashes, compactions and uploads happen in between
\* (docs/API.md "Startup baseline").
EmittedAreTheTransitions ==
  /\ \A n \in 1..observations, t \in Tasks :
       TransitionAt(n, t) =>
         \E e \in emitted : e.obs = n /\ e.task = t /\ e.status = history[n][t]
  /\ \A e \in emitted : TransitionAt(e.obs, e.task) /\ e.status = history[e.obs][e.task]
  /\ \A e, f \in emitted : e.obs = f.obs /\ e.task = f.task => e = f

\* Local sequence numbers identify events and follow observation order, so
\* the oldest-first upload never overtakes an earlier transition.
SeqFollowsObservation ==
  \A e, f \in emitted :
    /\ e.seq = f.seq => e = f
    /\ e.obs < f.obs => e.seq < f.seq

\* Rows leave the outbox strictly oldest first: the settled events are a
\* prefix of what was emitted, even when acknowledgements fail, the process
\* dies between upload and acknowledgement, or rows arrive during an upload.
SettledIsPrefix ==
  \A e, f \in emitted : e.seq < f.seq /\ f.seq \notin outbox => e.seq \notin outbox

============================================================================
