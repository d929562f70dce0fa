--------------------------- MODULE EventPipeline ---------------------------
(***************************************************************************)
(* One agent's outbox and the Hub's event table, joined by HTTP            *)
(* (agent/internal/remote/client.go UploadEvents, hub/server.go            *)
(* handleAgentEvents). The agent learns the outcome of an upload from the  *)
(* reply alone: a request may be refused, time out before or after the Hub *)
(* recorded it, reach the Hub after the agent gave up on it, or succeed    *)
(* without the acknowledgement being stored. Event n is the outbox row     *)
(* with local_seq n.                                                       *)
(*                                                                         *)
(* Time stands still here: the Hub prunes by its hard cap only. HubEvents  *)
(* with its clock is explored by PhoneFeed.                                *)
(***************************************************************************)
EXTENDS EventOutbox

CONSTANTS
  MaxEvents,  \* the Hub's hard cap on retained events
  BatchSize,  \* rows the Hub deletes per transaction
  MaxUnacked, \* bound: uploads the Hub may record without the agent storing it
  Poison      \* tasks whose events the Hub's validateEvent refuses

ASSUME PoisonAreTasks == Poison \subseteq Tasks
ASSUME MaxUnackedIsNatural == MaxUnacked \in Nat

VARIABLES
  rows, lastSeq, now, pruner, entries, \* HubEvents
  request, \* the current upload: "none", "sent" or "recorded" by the Hub
  late,    \* batches of abandoned uploads that may still reach the Hub
  unacked  \* uploads recorded, or possibly recorded later, without an ack

Agent    == "agent"
EventIds == 1..(MaxObservations * Cardinality(Tasks))

\* Large enough for every upload the bounds allow: it never blocks one.
MaxHubSeq == Cardinality(EventIds) + 2 * MaxUnacked * PendingLimit

Hub == INSTANCE HubEvents WITH
         Agents <- {Agent}, NoAgent <- "none", Owner <- [n \in EventIds |-> Agent], MinEvents <- 0,
         MaxAge <- 1, HandlerLag <- 0, MaxTime <- 0, MaxSeq <- MaxHubSeq

hubVars == <<rows, lastSeq, now, pruner, entries>>
netVars == <<request, late, unacked>>
vars == <<outboxVars, hubVars, netVars>>

PipelineInit ==
  /\ OutboxInit
  /\ Hub!HubInit
  /\ request = "none"
  /\ late = {}
  /\ unacked = 0

-----------------------------------------------------------------------------
\* The observe loop and outbox maintenance run beside everything else.
Observes == ObserveStep /\ UNCHANGED <<hubVars, netVars>>

StartUpload ==
  /\ ReadPending
  /\ request' = "sent"
  /\ UNCHANGED <<hubVars, late, unacked>>

\* EventBatch.Validate: one event it refuses refuses the whole batch.
Accepted(uploaded) ==
  \A e \in emitted : e.seq \in uploaded => e.task \notin Poison

HubRecords ==
  /\ request = "sent"
  /\ Accepted(batch)
  /\ Hub!RecordEvents(Agent, batch)
  /\ request' = "recorded"
  /\ UNCHANGED <<outboxVars, late, unacked>>

ReplyArrives ==
  /\ request = "recorded"
  /\ UploadSucceeded
  /\ request' = "none"
  /\ UNCHANGED <<hubVars, late, unacked>>

\* What becomes of an upload the agent no longer waits for. Not yet recorded,
\* it was refused or lost, or it is still on its way.
Abandoned ==
  \/ /\ request = "sent"
     /\ UNCHANGED <<late, unacked>>
  \/ /\ request = "sent"
     /\ unacked < MaxUnacked
     /\ unacked' = unacked + 1
     /\ late' = late \cup {batch}
  \/ /\ request = "recorded"
     /\ unacked < MaxUnacked
     /\ unacked' = unacked + 1
     /\ UNCHANGED late

\* A 4xx or 5xx answer, a connection error or the 4 s request timeout.
UploadFails ==
  /\ UploadFailed
  /\ Abandoned
  /\ request' = "none"
  /\ UNCHANGED hubVars

LateRecords ==
  /\ \E uploaded \in late :
       /\ Accepted(uploaded)
       /\ Hub!RecordEvents(Agent, uploaded)
       /\ late' = late \ {uploaded}
  /\ UNCHANGED <<outboxVars, request, unacked>>

Acks == Ack /\ UNCHANGED <<hubVars, netVars>>

AckFails ==
  /\ AckFailed
  /\ unacked < MaxUnacked
  /\ unacked' = unacked + 1
  /\ UNCHANGED <<hubVars, request, late>>

AgentCrashes ==
  /\ Crash
  /\ \/ request # "none" /\ Abandoned
     \/ /\ delivery = "acking"
        /\ unacked < MaxUnacked
        /\ unacked' = unacked + 1
        /\ UNCHANGED late
  /\ request' = "none"
  /\ UNCHANGED hubVars

HubPrunes == Hub!HubMaintenance /\ UNCHANGED <<outboxVars, netVars>>

PipelineNext ==
  \/ Observes
  \/ StartUpload
  \/ HubRecords
  \/ ReplyArrives
  \/ UploadFails
  \/ LateRecords
  \/ Acks
  \/ AckFails
  \/ AgentCrashes
  \/ HubPrunes

\* The delivery loop never stops for good, and however often uploads fail the
\* Hub is reachable, and its reply and the acknowledgement get through, again
\* and again. Nothing obliges the observe loop, late requests or the pruner.
PipelineFairness ==
  /\ WF_vars(StartUpload)
  /\ SF_vars(HubRecords)
  /\ SF_vars(ReplyArrives)
  /\ SF_vars(Acks)

PipelineSpec == PipelineInit /\ [][PipelineNext]_vars /\ PipelineFairness

-----------------------------------------------------------------------------
\* The events the Hub has put into its feed at some time, retained or not.
Published == {e \in emitted : \E x \in entries : x.id = e.seq}

\* An event leaves the outbox only after the Hub recorded it, whatever
\* fails, crashes or arrives late in between (docs/API.md "at least once").
NothingLost == \A e \in emitted : e.seq \in outbox \/ e \in Published

\* The feed first shows events in the order the machine observed them.
FeedKeepsOrder ==
  \A x, y \in entries :
    x.id < y.id => \E z \in entries : z.id = x.id /\ z.seq < y.seq

\* The transport implements TaskEventFeed: the Hub publishes gap-free
\* prefixes of the machine's event log, and in the end all of it.
Feed == INSTANCE TaskEventFeed WITH log <- emitted, published <- Published
ImplementsFeed == Feed!FeedSpec

\* A Hub that is reachable again and again empties the outbox again and
\* again: duplicates of what it already recorded never block the queue.
OutboxDrains == []<>(outbox = {})

\* docs/API.md: "Agent event transport is at least once". An event the Hub
\* would accept arrives, whatever other events share the queue with it.
HealthyEventsArrive ==
  \A n \in EventIds :
    (\E e \in emitted : e.seq = n /\ e.task \notin Poison)
      ~> (\E e \in Published : e.seq = n)

============================================================================
