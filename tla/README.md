# Verification of AI Control HUD

TLA+ models of AI Control HUD - its event and state paths, the ZCode collector, the phone's
polling loop and the administration of the Windows service - with the TLC runs that check
them on small instances and machine-checked proofs for every instance.

AI Control HUD shows the tasks of a coding tool (ZCode) and the usage of another
(CommandCode) on a phone. A Go **agent** on the development machine collects
them, a Go **Hub** on the network stores what the agent uploads, and an
**Android** app polls the Hub, renders the state and speaks task completions.
The current state travels as snapshots, which may be lost; task completions and
failures travel as *events*, which must not be (docs/DECISIONS.md, ADR-014).

```
 ZCode files ──> collectors ──> snapshot store ──┬─ snapshot, heartbeat loops ─┐
                                                 │                             │ HTTP
                                  observe loop <─┘                             v
                                       │ Observe                        Hub handlers
                                       v                                       │
                                 SQLite outbox ── delivery loop ── HTTP ───> SQLite
                                       ^──────────── Ack ─────┘      events, snapshots
                                                                      ^        │ GET
                                                        retention ────┘        v
                                                                           phone: cursor
```

## Inventory

| Component | State | Operations | What is hard about it |
|---|---|---|---|
| Event outbox (`agent/internal/events`) | tables `event_meta`, `task_state`, `event_outbox`, the AUTOINCREMENT counter | Observe, Pending, Ack, Maintain | which listing is a transition depends on the whole history; restarts; two loops use it at once |
| Agent remote runtime (`agent/internal/remote`) | where each of four loops is; cached Hub address | snapshot, heartbeat, observe and delivery loops, back-off, rediscovery | an upload may be recorded although it failed; a retry may overtake an abandoned request |
| Hub event store (`hub/store.go`, `retention.go`, `maintenance.go`) | tables `agents`, `snapshots`, `events` | RecordEvents, ListEvents, EventBounds, PruneEvents, RecordState, RecordHeartbeat, LoadState | pruning in batches between requests; numbers shared by all agents |
| Hub handlers (`hub/server.go`, `models.go`) | – | agent state, heartbeat, events; phone state, health, events | several store calls per request; one bad event refuses a batch |
| Hub state cache (`hub/state_cache.go`) | one snapshot and its last-seen time | load, store, heartbeat | updated after, and not under the lock of, the database |
| Collector runtime and snapshot store (`agent/internal/runtime`, `store`, `domain`) | the current HudState | collect once, record failure, validated replace | failure health built from an older read; dropped update errors; clock steps |
| ZCode collector (`collector/zcode`) | what a pass has read so far; the turn state built from a log | goals, runtime sessions, task index, turn log, merge | four reads without a common transaction; contradicting sources; only the tails of logs are read; a limit |
| CommandCode collector | – | one remote query | – |
| Android feed (`MainActivity`, `EventPage`, `StateClient`) | persisted cursor, in-flight flag, polling flag | request, sync, commit, handle, lifecycle | network and UI threads; rotation; retention behind the cursor |
| Android polling, speech (`MainActivity`, `VoiceNotifier`) | server address, polling and in-flight flags, failure count, pending summary and utterances | start, stop, connect, poll, callbacks, speak, engine ready | results that belong to a former address; one request at a time |
| Hub address discovery | cached address on agent and phone | discover, invalidate | four loops share one cache |
| Service administration (`cmd/ai-control-agent`, `winservice`, `machineconfig.Save`) | executable and its copies, agent.json and its copies, service state, process | install, start, stop, restart, refresh-zcode, upgrade, remove | crashes between renames; the service manager restarts what fails; rollbacks that fail |
| Backup, configuration, secrets, platform wrappers, Windows UI, legacy Python server, scripts | files, OS objects | – | not protocol; see "Not modelled" |

What makes the components correct: the events emitted are exactly the terminal
transitions of the snapshot history; none is lost and none overtakes another on
the way to the feed; a feed position names one event for ever; retention never
removes the protected rows, and leaves nothing it should remove; the phone accepts every page the
Hub serves, handles events in order and at most once, passes no retained event
unseen, and catches up. On the state path: what the agent holds is valid and
shows each failure and the last good data; the Hub calls a source ok only while
it hears from the agent; and the phone ends up with the agent's snapshot. The collector lists a session once, shows
work that goes on and does not bring back work that has ended. The phone has one poll and
one request at a time and takes no result for another server's. While the service is
registered, administration never loses the executable it is there to run, nor the last
complete configuration, whatever is cut off or fails; and its reports are true.

## Modules

| Module | Models | Remarks |
|---|---|---|
| `EventOutbox` | outbox.go, hygiene.go and the observe and delivery loops of runtime.go | history variables record the snapshots and every row ever committed |
| `TaskEventFeed` | what the transport promises: a log published prefix by prefix, in the end all of it | abstract specification |
| `HubEvents` | the `events` table, its two readers, retention and its goroutine | several agents, a clock, `entries` records every row there ever was; `HubSpec` is the store without its readers |
| `EventPipeline` | `EventOutbox` and an instance of `HubEvents` joined by HTTP | implements `TaskEventFeed` |
| `PhoneFeed` | extends `HubEvents` with the phone's synchronisation | an orphaned synchronisation of a destroyed activity runs beside the current one |
| `SnapshotStore` | runtime.go and snapshot.go: collector loops over one validated snapshot | the clock may be set back |
| `StatePath` | snapshot and heartbeat loops, ingest handlers, database and cache of the Hub, GET state | a handler is three steps, a GET that misses the cache two |
| `TurnLog` | turn_log.go: the state machine over lifecycle entries, tails of the newest files | pure operators |
| `ZCodeCollector` | collector.go and runtime_session.go: one pass beside the ZCode that writes | extends `TurnLog`; ZCode is external |
| `ServiceManager` | service_windows.go's handler, the service manager, the files and the process | the service manager is external |
| `ServiceCommands` | service_upgrade.go, commands.go, Install, Start, Stop and Remove, machineconfig.Save | extends `ServiceManager`; every file or service call is a step |
| `VoiceNotifier` | VoiceNotifier.java | operators on a record |
| `PhonePolling` | MainActivity's loop, lifecycle and server change | extends `VoiceNotifier`; the event feed behind a poll is `PhoneFeed`'s |
| `SortedNumbers` | a set of numbers as an ascending list | a page's rows, the messages left in a queue |
| `EventPipelineProofs` | theorems about `EventOutbox`, then about `EventPipeline` with the safety part of its refinement | |
| `PhoneFeedProofs` | theorems about `HubEvents` and the `PhoneFeed` above it | |
| `SnapshotStoreProofs`, `StatePathProofs` | theorems about `SnapshotStore` and `StatePath` | |
| `ServiceCommandsProofs` | theorems about `ServiceCommands` | |
| `ZCodeCollectorProofs` | theorems about `TurnLog` and `ZCodeCollector` | |
| `PhonePollingProofs` | theorems about `VoiceNotifier` and `PhonePolling` | |
| `NumberFacts` | least and greatest numbers, ranks, ascending lists, induction and recursion up to a bound | used by the proofs about event numbers, queues and logs |
| `MC*` | the constants TLC needs | |

### EventOutbox

`baseline` is `task_state.status`, `display` the rows that still carry a title,
`outbox` the `local_seq`s in `event_outbox`, `localSeq` SQLite's AUTOINCREMENT
counter. `delivery` and `batch` are the delivery loop's program counter and the
slice it holds; a crash resets just these, everything else is in SQLite.
`Outbox` methods hold one mutex and commit one transaction, so each is one
action: `Observe` is the whole method, from the health guard over the
per-task insert and upsert to the flag that ends the baseline. `Maintain` runs
in the observe loop. A failing transaction changes nothing and is
`ObserveNothing` or `AckFailed`. Rows of one snapshot are appended in the slice
order of the collector; the model takes every order.

An event is known by its `local_seq`; the random 128-bit `event_id` is drawn for
the row, so the two are equally unique.

### HubEvents

`RecordEvents` is the transaction with its `INSERT OR IGNORE`: an id the table
holds is skipped, but a number is consumed all the same, which is why the feed of
one agent has gaps. The handler reads the clock before it gets the store's lock;
`HandlerLag` is how far the two may be apart. `PruneEvents` is one action per
delete transaction, because requests run in between: `PruneStart` lists the
agents and fixes the cutoff, `PruneBatch` recomputes cap and protected rows and
deletes the oldest `BatchSize` candidates. Times are clock ticks; the cutoff
comparison is the text comparison of the code for equal-length stamps.
`formatTime` drops trailing zeros of fractions, so two stamps within one second
may compare the wrong way round; a tick is longer than that.

The rows of an agent that pruning must spare are the newest by `seq` (`NewestRows`), whatever
their receive times say. A pass is through with an agent when `PruneBatch` leaves it, as
the loop does after a short batch; a failing batch and a stopping Hub leave it by
`PruneAborts`, and promise nothing.

### EventPipeline

The agent sees only the answer. `request` tells what the Hub knows about the
current upload, `late` holds batches whose upload the agent gave up on and that
may still arrive. `UploadFails` covers a refusal, a connection error and the
timeout before or after the Hub recorded the batch; `AgentCrashes` all the
moments at which the agent can die holding a batch. `late` holds equal batches
once. Time stands still, so only the hard cap prunes.

### PhoneFeed

One synchronisation is a record that goes through the phases *requested*,
*bounded* (the Hub has read the floor), *served* (it has listed the page),
*saved* (the cursor is committed) and is then handled on the UI thread. Rows may
be recorded and pruned between any two of them. `Destroy` leaves the network
thread running as `orphan`: `networkExecutor.shutdownNow()` interrupts it but
does not wait, so it may still commit its cursor; its UI callback is dropped by
`postToUi`. One orphan exists at a time. `commit()` returning false is taken to
leave the cursor; the in-memory copy Android keeps in that case is left out.

A stale orphan can move the cursor back, after which events are handled twice.
`regressed` records that this happened and `HandledInOrder` speaks of the
executions without it.

### SnapshotStore

One section per source stands for its health (`status`, `ObservedAt` as
`observed`, `LastSuccessAt` as `success`) and its data, numbered by the
collection it came from; tasks and usage are not told apart, since the ZCode and
the CommandCode code differ in names only. A collection is up to three steps: `Collect`
(the collector returns and the loop reads the clock), `ReadPrevious` (the
failure path copies the section), `Record` (the locked update). The other loop
and the clock run in between. `Mutated` is `mutate`: an update that does not
validate is refused and its error dropped. The collectors themselves only return
data that validates (titles, statuses, counts, percentages are normalised before
they are returned), so the refusal bites in one case: a failure stamped earlier
than the success it degrades. The source then stays ok although
docs/DEVELOPMENT.md:44 says it becomes stale; `FailureIsVisible` names the case.
The overall status follows from the sections and is left out.

### StatePath

The snapshot is reduced to a version and the sources that are ok, which is all
that freshness and convergence look at. A request goes *sent*, *received* (the
handler read the clock), *recorded* (the transaction is committed), and ends when
the cache is updated; each step is atomic because it is under a lock, and no
lock spans two. `Lost` is every way to end before the commit. A loop that sends
while an older request of its own is under way has given that one up, so a late
upload can overtake a newer one at the database, at the cache, or at only one of
them. `HubRestarts` drops cache, readers and running handlers. A GET either
answers from the cache or loads the row and later seeds the cache with it. One
GET at a time misses the cache; others are answered beside it. Event uploads
stamp the agent in the database but not the cache, and take part with that. The
Hub's clock does not go back here, and only the primary agent is followed.
`/health` is the same path with the clock read first, so its ages are smaller.

### TurnLog and ZCodeCollector

An entry of the log is its session, its event and its time; `Applied` is the switch of
`readTurnStates`. Of the background tasks a `session.updated` names, one per session is
told apart. `Window` is what is read: the last `TailLength` entries of the two newest files.

A pass is five steps, one per read: Goal rows with their todos (`ReadGoals`), the log for
the Goals (`GoalTasks`), the log again for ordinary turns (`ReadTurns`), the newest requests
(`ReadUsage`), the task index (`ReadIndex`). ZCode writes rows and entries, rotates the log,
and the clock ticks between any two. Each source may fail; `RuntimeFails` and the last
disjunct of `ReadIndex` are what the pass makes of that. Sessions that share a time are
listed in any order, and so are index rows, whose pinned ones come first. A missing schema
counts as an empty or failing source. Only one request row per read is looked at: the
newest one of the session, which is the one the code's `seen` lets through.

`open` and `ended` remember what was true from the beginning of a pass until now, so that
the two properties about them speak of sessions that did not change under the pass.

### ServiceManager and ServiceCommands

`disk` maps each path to what is there: a build, a configuration, nothing, or the torn
result of a copy that was cut off. `process` is what the running process was started with
and the path its file has by now: Windows lets a running file be renamed but not removed,
so a rename takes `process.at` along, and `DropBackup` and `ClearCandidate` fail when the
file they remove runs. A broken build, or a configuration that every build ends with, ends
soon after its start, at the latest within the 750 ms `waitStableRunning` looks twice;
builds that fail later than that are accepted by the code as well, and count as faults.

A command is a program counter (`pc`: the statement of the command, `call`: where it is
inside the function it calls). `Install` of winservice is three service calls: `Register`
creates the service, `SetRecovery` gives it its recovery actions in two steps (`actions` is
what the service manager has of them by then), and `Unregister` is the Delete whose result
nobody looks at. A command that is cut off behind the first leaves a registered service that
starts with the machine, so `deployed` follows the registration: it is the executable the
service was registered with, or the one the last successful upgrade since put in its place.
`StartReturns`, `StopReturns` and `SaveReturns` are the
statements that follow each call. `faults` bounds everything that goes wrong: a failing
call, a failing process, a killed command (its deferred calls do not run), a reboot.
A call that undoes another one when a third failed may fail as well (`FailsTwice`).

### PhonePolling

`main` is the Handler's queue of due messages, `timer` the one delayed message (the poll),
`network` the executor's queue with the running job first. A callback is a message that
carries the address its request was made to. `FetchState` is where `syncEvents` reads the
cursor. A page's events are abstracted to whether one is fresh and whether one is old;
the night and the switches are `quiet`. `Recreate` is onDestroy with the next onCreate:
what the old activity's network thread still does is `PhoneFeed`'s orphan. The countdown
timer and rendering are left out.

## Runs

| Run | Instance | Shows |
|---|---|---|
| `outbox` | 2 symmetric tasks, 1 live status, 4 snapshots, upload limit 1 | emitted events are the transitions; numbering; oldest first |
| `pipeline` | 1 task, 4 snapshots, limit 2, the Hub keeps 1 event, 2 unacknowledged uploads | nothing lost, order kept, refinement of `TaskEventFeed` with its liveness, the outbox drains |
| `phone` | 1 agent, 2 events, cap 1, minimum 0, 3 numbers, page limit 1, an orphan | pages accepted and above their floor, order, no retained event skipped, no holes, numbers never reused, passes thorough by cap and age |
| `phone_agents` | 2 agents, 3 events, cap 2, minimum 1, lag 1, 2 ticks, 3 numbers | the phone catches up, the newest rows survive |
| `store` | 2 sources, 4 collections, 1 tick, 1 clock correction, restarts | the store stays valid, failures show, the data is the last collected |
| `state` | 1 source, 2 snapshot versions, 2 requests in flight, 2 instants, stale after 0 | ok means heard, an absent agent is shown, the phone converges |
| `zcode` | 2 symmetric sessions, 3 writes, 1 tick, 3 log events, tails of 1 entry, task limit 2 | the window shows no more than the log; one task per session; active turns listed; ended ones not |
| `service` | 3 builds, 2 configurations, one of each broken, 3 commands, 2 faults | executable and configuration survive, also a registration that is cut off; nothing torn is installed, reports are true, a running service is up again |
| `polling` | 2 addresses, 1 connect, 2 texts may wait, 3 texts | one poll and one request, nothing of a former server, speech in order, the loop goes on unless overtaken |
| `pipeline_poison` | 2 tasks, one of which the Hub refuses | *violated*: events behind a refused one never arrive |
| `phone_drop` | as `phone`, cap 2 | *violated*: a committed page is given up unhandled |
| `polling_stall` | as `polling` | *violated*: a dashboard that will never poll again |

Why the bounds are enough. Four snapshots let a task be listed, vanish, come back with the
same or another status and change once more after the baseline, and two tasks make two
events of one snapshot compete for a number and an upload slot. A limit of one or two rows
makes an upload carry part of the queue while rows arrive. A cap of one or two events
makes the Hub delete what the phone has not read. `MaxUnacked` is the number of uploads
recorded without the agent learning it: two allow a late duplicate of a duplicate.
`MaxSeq` leaves room for one ignored duplicate. In `phone` a tick makes every recorded row
old, so a pass with minimum 0 may empty the table under a cursor. Its cap of one is
reached with young rows, its minimum of none lets age take what the cap allows, so
`PassIsThorough` rests on both halves. In `phone_agents` the cap lies above the minimum:
of an agent's two rows, which the cap allows, only the older one may go, by age alone, and
the newer one stays even when it was received earlier; the other agent's row makes a pass
go on to a second agent. A pass that finds an old row behind a young one and before a
protected one takes three rows of one agent, which neither run has room for; the theorems
below have. In `store` four collections let one source succeed, fail and succeed while the
other does something in between. In `state` two requests are what it takes for one to
overtake another; with two instants every stamp is either fresh or stale, and two versions
make an upload newer or older (the run also passes with three, in four minutes). An agent
stops, and late requests are received, only while there is time left to notice
(`TimeLeft`).

In `zcode` three writes suffice to let a session start a turn, gain a contradicting
Goal, request or index row, and change once more during the pass; a second session competes for the
limit of two and for the order. A heartbeat ages within the one tick, the other ages do
not; the states in which all of them age differ only in that nothing is listed. A tail of
one entry is the shortest that cuts anything. The event kinds left out of the run are
covered by an assumption of `MCZCodeCollector`: over every log of up to four entries of any
kind the state machine agrees with what its last entries say (`LastWordDecides` proves it for
every log). In `service` one command can
be cut off, a second one run into what it left, and a third show whether anything was lost;
two faults are a failing rename with a failing restoration, or a crash with a failing
repair. `remove`, an `install` cut off behind CreateService by a reboot, and an `upgrade` to
a broken build are three commands. In `polling` one connect on top of a saved address changes the server once, which is what every
hazard of the list needs; with two connects TLC found no error in the first 2.7 million
states. The back-off is checked for every failure count by an assumption of
`MCPhonePolling`.

Deadlock is not checked in `zcode`, `service` and `polling`: their bounds on writes,
commands, connects and texts let the system come to rest.

### Fairness

*Pipeline.* The delivery loop never ends while the process runs, hence weak
fairness of `StartUpload`. Uploads may fail for ever as long as they also reach
the Hub again and again: strong fairness of `HubRecords`, `ReplyArrives` and
`Acks`, because `UploadFails` and `AgentCrashes` disable them in between.
Nothing is assumed of the observe loop, late requests, the pruner or the clock.
`MaxUnacked` bounds the failures that leave a trace at the Hub, not those that
do not.

*Phone.* A started activity polls every two seconds and its requests have
timeouts: weak fairness of `RequestPage`, `HandleEvents` and `DropResult` (main
thread), strong fairness of `ReadFloor`, `ServePage` and `SaveCursor`, which
`SyncFails` and `Destroy` compete with. `CatchesUp` is conditional on the
activity staying started.

*State.* The snapshot loop runs for ever, handlers and GETs end: weak fairness,
except `Send("state")`, which the bound on requests in flight can hold up.
Uploads may be lost again and again as long as they also get through again and
again: strong fairness of receiving and committing a state upload. Nothing is
assumed of heartbeats and event uploads being sent. `StateConverges` and
`OfflineIsShown` are conditional on the Hub being restarted finitely often
(`HubStable`) and on the agent in the end staying up or down.

*Service.* A command runs until it ends: weak fairness of `CommandStep`. The process starts,
ends when it cannot serve and stops when told to, and the service manager restarts what
failed: weak fairness of each. Start polls every 250 ms for 20 seconds while a restart is
five seconds away, so a service that keeps ending is found stopped: strong fairness of
`AwaitStart` at a stopped service. No command has to be issued, no fault has to happen.
`UpgradeKeepsServiceUp` excepts only faults since the upgrade began: earlier ones, with what
they left on the disk and in the service manager, are part of its premise, as long as the
service runs and what is installed is fit to run.

*Polling.* The Looper takes messages, delays pass and requests end at their timeouts: weak
fairness of `MainStep`, `TimerFires` and `NetworkStep`. Nothing obliges the user, and the
speech engine may never call back.

## Findings

1. *A refused event blocks the queue* (`pipeline_poison`). The batch is retried
   as it is. The collector cuts titles at 500 bytes, perhaps inside a character;
   JSON replaces each broken byte by the three bytes of U+FFFD, and the Hub
   refuses titles of more than 500 bytes.
2. *Commit before handling* (`phone_drop`). docs/API.md:220 has it the other way
   round.
3. *A change of server can stop polling* (`polling_stall`). The request to the former
   address is still under way when the health check of the new one succeeds: the
   poll of the new address is refused because a request is in flight, and the callback of
   the old request returns without scheduling another. `StandsOnlyOvertaken` shows that
   this, and the schema callback below, is the only way for the loop to stand.

### Seen while modelling

Divergences the models show but no run is spent on:

* `INSERT OR IGNORE` knows only retained rows, so a retry after retention is a second feed
  entry; docs/API.md:214 and :325 promise that it is not. (`pipeline`, with
  "no id has two entries" as an invariant.)
* The phone's floor test takes a per-agent gap for lost history and rebases although
  nothing was deleted; docs/API.md:208 says gaps are normal. (`phone_agents`, with
  "a rebase only after retention".)
* A row pruned after the floor was read and before the page was listed is passed silently,
  against docs/UI_DESIGN_PLAN.md:307.
* `readTurnStates` reads the tails of two files. What lies between them - the head of
  the newer file, when it is longer than 512 KiB - may hold the end of a turn the older file
  began: the session looks active although docs/sources/ZCODE.md:116 says a terminal event
  closes the turn. `TailShowsNoMore` excepts logs with such a gap; without the exception TLC
  finds it in four writes.
* Index rows are listed with whatever status they have: a row left at running shows a
  session as running without evidence of liveness. `EndedTurnStaysEnded` speaks of the other sources.
* A session that was listed from its Goal and is later listed from the index has another
  task id there, so its terminal status is announced under both.
* The callback of an incompatible schema does not compare the address: a former server's stops
  the loop of the present one. A health check that succeeds after onStop starts polling in
  the background, where docs/ANDROID_IMPLEMENTATION.md:20 says that leaving the activity
  stops new polls.
* Start takes a service it finds running for a stable one. If the service manager has just
  restarted a failing service, a broken candidate may be accepted on that account, which is
  the premise `~ recovery` of `UpgradeKeepsServiceUp`.
* A `service install` that is cut off or fails behind CreateService may leave the service
  registered over the new executable, without the recovery actions that
  docs/G6_WINDOWS_SERVICE.md:64 says it is registered with, and with the previous executable
  already deleted (commands.go:497-504); a second install refuses until the service is removed.
* `remove --purge` leaves a stale `.upgrade.bak`, and every upgrade after the next install
  is refused. A failing ACL call at the end of Save reports an error with the new
  configuration in place. A refresh that is killed between Save and Restart leaves the
  changed configuration without a copy of the original one.

## Proofs

`EventPipelineProofs` proves of the outbox, for every set of tasks, every number of snapshots
and every upload limit, that `OutboxSpec` implies `OutboxTypeOK`,
`EmittedAreTheTransitions`, `SeqFollowsObservation` and `SettledIsPrefix`. The
assumptions are those `EventOutbox` states: finitely many tasks, the absent
marker and the statuses distinct, a positive upload limit.

The properties are not inductive. `EmittedAreTheTransitions` judges an event by
the whole history, the code by one stored status per task; the link is
`BaselineIsLastListed`: the stored status is the one the task was last listed
with. With it, `NewTransitionsAreDetected` shows that the code's test and the
history's agree for the newest snapshot, and `OldTransitionsStay` that older ones
are not judged anew. `SettledIsPrefix` needs `BatchIsOldest`, because an
acknowledgement deletes what was read earlier, while rows may have arrived since:
the batch is still the oldest part of the outbox. `PendingIsOldest` shows that
reading starts it so. `EmittedInBounds` keeps old and new numbers apart.

It proves about `PipelineSpec`, for every cap, batch size,
set of refused tasks and bound, that it implies `OutboxSpec`
(`PipelineRunsOutbox`, which carries the outbox's theorems over), `NothingLost`,
`FeedKeepsOrder`, and the safety part of `ImplementsFeed` (`PublishesPrefixes`:
each step appends to the log, publishes a longer prefix, or changes neither). Of
the pipeline it assumes only that `MaxUnacked` is a number; the refused tasks
need not be tasks for the proof.

Its invariant is `PInv`. An acknowledgement deletes rows on the strength of a
reply received earlier, so `HeldIsRecorded` remembers that a batch being
acknowledged is in the feed. The order of the feed cannot be seen from the feed
alone: a late request may arrive when the queue has moved on. `LeavesNoGap` says
of an upload that everything emitted before one of its events is in it or was
recorded; `BatchLeavesNoGap` derives it from the outbox's `BatchIsOldest` and
`NothingLost`, and `LateLeavesNoGap` keeps it for the requests given up.
`NumbersGrow` (with `RanksGrow` of `NumberFacts`) shows that one upload is numbered in its own order, and
`RecordingKeepsOrder` puts the two together into `FeedIsOrderly`. The refinement
then takes the newest event that became visible as the witness of `Publish`;
`NumbersBounded` bounds the numbers `Append` draws.

### HubEvents and PhoneFeed

`PhoneFeedProofs` is about `PhoneSpec` for every set of agents and events, every retention
policy, batch and page size, with orphans or without. Assumed are what
`RetentionPolicy.Validate` and config.go enforce (`PolicyValid`), that event ids are finitely
many numbers, and that bounds are numbers.

`HubInv` says of the table what uniqueness needs: rows are entries, entries are numbered up
to `lastSeq`, and no number is used twice. `RecordingAddsBeyond` shows that an upload, with
whatever repeats, adds only beyond `lastSeq`; `MaintenanceTakesRows` that nothing else adds.

`FeedInv` follows one synchronisation through its phases. A position is `Covered` when every
retained row up to it was accounted for; since additions lie beyond `lastSeq` and pruning
only removes, what is covered stays so (`CoveredStays`), and so do a floor and a page
(`SyncStays`) while the Hub moves on. `FloorIsBelowRows` and `ServedPageIsSound` establish
them when the Hub answers; the second needs that `ORDER BY seq LIMIT n` takes an initial
part (`FirstRowsFirst`). `CommitCovers` is the step that saves a cursor. The current
synchronisation and the orphan satisfy the same `SyncInv`, and none of it compares the
two, which is why an orphan cannot make the phone skip an event. From `FeedInv` follow
`SeqsNeverReused`, `ServedPageIsAccepted`, `PageIsAboveItsFloor` and
`NoRetainedEventSkipped`.

The retention theorems are about `HubSpec`, the store with its uploads, its maintenance and its
clock; `PhoneRunsHub` carries them over to `PhoneSpec`. They count rows. `KthRow` and
`KthRowFromTop` show that the two `OFFSET` queries find the row they mean, `CapKeeps` and
`MinimumKeeps` how many rows lie on either side of it. A row the cap forces out has `MaxEvents`
rows behind it, one pruned by age all the protected ones, so neither is among the newest
`MinEvents` (`PruningSparesNewest`, `NewestSurvive`); and once all of it went, what is older than
the cutoff is among them (`PruningIsThorough`). `BatchTakesFirst` shows that a short batch
took all there was, which is what the loop of `PruneEvents` relies on (`PassesAreThorough`).
Nothing is assumed of receive times in any of this.
`NewestPartRetained` assumes `HandlerLag = 0`: receive times then grow with the numbers
(`ReceivedInOrder`), the rows that may be pruned by age are an agent's oldest
(`PrunableAreOldest`), and a batch takes the first of them. With a lag the statement is
false.

`ToldInOrder` (`HandledInOrder`) needs to know what is still to come. `OrderInv` adds to
`FeedInv` that everything told so far lies behind the stored cursor, behind the position a
request was made with, and below the items of a page that waits to be handled. `AheadStays`
carries that over any step of the Hub, `TellingKeepsOrder` over the handling of a page: the
items, listed in ascending order (`AscendingLists` of `NumberFacts`), are all newer than what
was told. The model states for it that the mark of a missing cursor is not a position
(`NoCursorIsNoPosition`: in the code the preference is then absent).

### ServiceCommands

`ServiceCommandsProofs` proves the safety properties of the run `service` for every set of
builds and configurations, broken or not, and every number of commands and faults. Assumed
is only that no build is the absent or the torn file, and that the bounds are numbers. The
properties speak of two files at a time, and a command in the middle of its renames
satisfies them for different reasons at each statement; `ServiceInv` says which.
`Located` ties statement, call, operation and registration together. `Whole` says where a
torn copy can be, `Backed` where the deployed executable is while the candidate takes its
place, `Saved` the same of agent.json, `Written` which configuration a save is putting there,
and `Running` that a process runs what its file holds under whatever name,
which is what a successful report of an upgrade depends on when the service manager has
restarted the old build in between. While the service is being registered it has no process
and no restart is due (`Running`), so that the Delete of a failed install finds none.

### SnapshotStore

`StoreInv` is the type invariant, which includes that the store's content
validates, with the two safety properties and one strengthening,
`PreviousIsCurrent`: the section a failing loop has read is still in the store
when it writes, because only that loop writes it and a stopped agent drops its
results. From it `Degraded` keeps the newest data (`DataIsLastKnownGood`), and an
update is refused only if the clock is below the last success, which is the
exception in `FailureIsVisible`. `RecordKeeps` is the one step with a case to
make. Assumed: the bounds are natural numbers and `Nothing` is none of the values
it stands beside.

### StatePath

`PathInv` is the type invariant and `StampsWereHeard`: the stamps in handlers, row,
cache and a GET under way never run ahead of `lastHeard`, in whatever order they
were written. They may well run behind it and against each other, which is why the
proof needs no order among handlers. `OkMeansHeard` (`LiveMeansHeard` for every
threshold) follows, since the projection compares one of these stamps with the
clock.

### TurnLog and ZCodeCollector

`ZCodeCollectorProofs` proves the four properties of the run `zcode` for every set of
sessions, every number of writes, every log and any limits. Assumed are that sessions are
finitely many, that the task limit is positive (a configured limit that is not is replaced by
the default) and that the bounds and ages are numbers.

*The log.* `TurnOf` folds the log with a recursive function. The induction theorems of the
library take an operator and cannot be used, but induction over the numbers up to a bound can
be stated about a set and recursion about a table of functions: `InductionUpTo` and
`RecursionUpTo` of `NumberFacts`, which `TurnOfEntries` and `FlattenJoins` instantiate once
for the two folds. `TailHidesOnly` then has two halves. `WindowEndsLog`: what is read of a log
without a gap is an end of it. `SuffixShowsNoMore`: an end shows no more work than the
whole, since an entry keeps the order of two turns (`AppliedKeepsOrder`), and the whole log
reaches the end with at least as much as nothing. The second half would fail if an entry's
effect on open, task and count depended on its time; `AppliedSigns` says that it does not.
`LastWordDecides` and `WorkHasBegun` state for every log what `MCZCodeCollector` has TLC evaluate
for the short ones: the last entry of a kind decides about turns and tasks, and work that is shown
has a known start, not after its last sign, if the log is in the order of its clock. The
count of background tasks has no such reading, because it is clipped at zero and at
`TrackLimit`.

*A pass.* `CollectorInv` has three parts beside the types. `ListsInv`: no list a pass carries
names a session twice, and sessions taken by Goals or the log are not taken again.
`OpenInv` and `EndedInv` follow a session that stays active, or ended, through the reads and say
what each list shows of it, and what has been read of it and not yet used: the end of a turn stands
in the pass before the requests are compared with it. Lists are cut at the limit in any
order; `FirstOfList`, `JoinedList` and `MergedList` say which sessions are then left. From the
invariant follow `OneTask`, `ActiveListed` and `EndedStays`, the last two as properties of
the step that ends a pass.

### VoiceNotifier and PhonePolling

`PhonePollingProofs` proves the invariants of the run `polling` for every set of addresses, any
number of connects and texts, and every positive limit of the queue of speech. It assumes
that the absent server is no server.

`CountInv` counts: the polls in the Handler's queue and the timer, the requests in the
executor's queue with their results in the Handler's. `CountAppend`, `CountTail` and
`WithoutPollTakesPolls` say what posting, taking and `removeCallbacks` do to a count, so every step is a
matter of adding up. That the sum is one exactly while `inFlight` holds makes a
second request impossible; that it is at least one while the loop runs and was not overtaken
is what `OnlyOvertakenStands` rests on, and `overtaken` marks the only step that breaks
it. `ServerInv` ties the loop to the saved address and what is shown and kept to the
server, for `NothingFormer`. `VoiceInv` is `SpeechInOrder` with what waits and what is spoken kept
apart: while the engine starts nothing is spoken, once it is ready nothing waits.

## Only model-checked

Liveness (`OutboxDrains`, `ImplementsFeed`'s last conjunct, `CatchesUp`, `OfflineIsShown`,
`StateConverges`, `UpgradeKeepsServiceUp`, `PollsAgain`) is out of reach of the proof system and
rests on the runs. So do the counterexamples of the three findings, and the back-off for
every failure count, which is an assumption of `MCPhonePolling`. Every safety property of
a passing run is proved.

## Not modelled

* On the state path: what `staleHealth` writes into message and times, the copies
  of `clone` and `cloneHudState`, back-off delays.
* In the collector: summary counts, titles, workspaces, durations and the evidence probe.
* In the service commands: flags, source ACLs, the firewall rule, the secret store; each is a
  call that may fail or is left out. `status` and `doctor` only read.
* On the phone: rendering, the countdown, the voice switches.
* Address discovery on agent and phone: its answers come from broadcasts, and to every loop
  that is modelled an address that does not resolve is a failed request. What it can do
  besides, one cursor for whatever Hub answers (MainActivity.java:334), needs Hubs with
  feeds of their own.
* CommandCode collector, local API: one query, read-only views.
* Backup and checkpoints: their atomicity is SQLite's and the file system's.
* Configuration, secrets, firewall, ACLs, path lookup: start-up and OS calls.
* Windows UI, legacy Python server, scripts: rendering, superseded code, tooling.

## Plan

1. `EventOutbox`, `HubEvents`, `EventPipeline` with `TaskEventFeed`,
   `PhoneFeed`: done.
2. `SnapshotStore` and `StatePath`: done. Left: the silent rules of the state
   path, e.g. for how long an overtaken upload is served although
   docs/HUB_STORAGE.md:9 calls the row the latest canonical state.
3. `TurnLog`, `ZCodeCollector`, `ServiceManager`, `ServiceCommands`, `VoiceNotifier`,
   `PhonePolling`: done. Left: a model of address discovery.
4. Proofs of the safety properties of every passing run: done. Left: what the count of background
   tasks says for every log, `StandsOnlyOvertaken` with the kind of the overtaking result,
   and the safety rules of what the plan has left to model.
