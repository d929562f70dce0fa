----------------------------- MODULE HubEvents -----------------------------
(***************************************************************************)
(* The Hub's event table (agent/internal/hub/store.go RecordEvents and     *)
(* ListEvents, retention.go) and the maintenance goroutine that prunes it  *)
(* (maintenance.go).                                                       *)
(*                                                                         *)
(* Store methods hold one mutex and one transaction each, so each is one   *)
(* action; PruneEvents and handleEvents make several of them and other     *)
(* requests run in between.                                                *)
(***************************************************************************)
EXTENDS Integers, FiniteSets

CONSTANTS
  Agents,      \* agents that upload to this Hub
  EventIds,    \* event ids; the order of ids is the order within an upload
  Owner,       \* Owner[id] is the agent whose outbox drew event id
  MinEvents,   \* HUD_HUB_EVENT_RETENTION_MIN: newest rows age pruning spares
  MaxEvents,   \* HUD_HUB_EVENT_RETENTION_MAX: hard cap per agent
  BatchSize,   \* rows one delete transaction may remove
  MaxAge,      \* HUD_HUB_EVENT_RETENTION_DAYS, in whole clock ticks (0: a tick is longer)
  HandlerLag,  \* ticks a handler may spend between reading the clock and the store lock
  MaxTime,     \* bound: clock ticks
  MaxSeq,      \* bound: rowids handed out
  NoAgent      \* the pruner is not visiting an agent

ASSUME EventIdsAreOrdered == EventIds \subseteq Nat /\ IsFiniteSet(EventIds)
\* RetentionPolicy.Validate, and config.go: a minimum of 0 is a legal choice.
ASSUME PolicyValid ==
  /\ MinEvents \in Nat
  /\ MaxEvents \in Nat \ {0}
  /\ MaxEvents >= MinEvents
  /\ BatchSize \in Nat \ {0}
ASSUME ClockBounds ==
  /\ MaxAge \in Nat
  /\ HandlerLag \in Nat
  /\ MaxTime \in Nat
  /\ MaxSeq \in Nat
ASSUME AgentsNamed == NoAgent \notin Agents /\ Owner \in [EventIds -> Agents]

VARIABLES
  rows,     \* the events table
  lastSeq,  \* sqlite_sequence of events, shared by all agents
  now,      \* the Hub's wall clock
  pruner,   \* maintenance pass: the agent it is at, those left, its cutoff
  entries   \* history variable: the feed entries there ever were

hubVars == <<rows, lastSeq, now, pruner, entries>>

Row == [seq : 1..MaxSeq, agent : Agents, id : EventIds, received : 0..MaxTime]
IdlePruner == [agent |-> NoAgent, todo |-> {}, cutoff |-> 0]

HubTypeOK ==
  /\ rows \in SUBSET Row
  /\ lastSeq \in 0..MaxSeq
  /\ now \in 0..MaxTime
  /\ pruner \in [agent : Agents \cup {NoAgent}, todo : SUBSET Agents,
                 cutoff : Int]
  /\ entries \in SUBSET [seq : 1..MaxSeq, agent : Agents, id : EventIds]

HubInit ==
  /\ rows = {}
  /\ lastSeq = 0
  /\ now = 0
  /\ pruner = IdlePruner
  /\ entries = {}

RowsOf(a) == {r \in rows : r.agent = a}
Smallest(S) == CHOOSE x \in S : \A y \in S : x <= y
Largest(S)  == CHOOSE x \in S : \A y \in S : x >= y
Seqs(R) == {r.seq : r \in R}
Entry(r) == [seq |-> r.seq, agent |-> r.agent, id |-> r.id]

-----------------------------------------------------------------------------
(* handleAgentEvents and Store.RecordEvents.                                *)

\* INSERT OR IGNORE skips ids the table already holds ...
Fresh(uploaded) == {id \in uploaded : \A r \in rows : r.id # id}

\* Seeded fault: no AUTOINCREMENT, numbering goes on from the highest row.
SeqForReused(id, uploaded) ==
  (IF rows = {} THEN 0 ELSE Largest(Seqs(rows))) + Cardinality({j \in uploaded : j <= id})

\* ... but every attempt draws a rowid, kept or not.
SeqFor(id, uploaded) == lastSeq + Cardinality({j \in uploaded : j <= id})

\* Seeded fault: INSERT without OR IGNORE, a known id fails the batch.
RecordEventsOnce(a, uploaded) ==
  /\ uploaded # {}
  /\ lastSeq + Cardinality(uploaded) <= MaxSeq
  /\ Fresh(uploaded) = uploaded
  /\ rows' = rows \cup
       {[seq |-> SeqFor(id, uploaded), agent |-> a, id |-> id,
         received |-> now] : id \in uploaded}
  /\ lastSeq' = lastSeq + Cardinality(uploaded)
  /\ entries' = entries \cup {Entry(r) : r \in rows'}
  /\ UNCHANGED <<now, pruner>>

\* EventBatch.Validate refuses an empty batch; the receive time was read
\* before the handler got the store lock. The agents row the transaction also
\* stamps is read by the state path only and left out.
RecordEvents(a, uploaded) ==
  /\ uploaded # {}
  /\ lastSeq + Cardinality(uploaded) <= MaxSeq
  /\ \E received \in {t \in 0..now : now - t <= HandlerLag} :
       rows' = rows \cup
         {[seq |-> SeqFor(id, uploaded), agent |-> a, id |-> id,
           received |-> received] : id \in Fresh(uploaded)}
  /\ lastSeq' = lastSeq + Cardinality(uploaded)
  /\ entries' = entries \cup {Entry(r) : r \in rows'}
  /\ UNCHANGED <<now, pruner>>

\* An agent uploads its events oldest first, some of them perhaps again.
Upload ==
  \E a \in Agents : \E ids \in SUBSET {id \in EventIds : Owner[id] = a} :
    /\ \A id \in ids : \A j \in EventIds :
         Owner[j] = a /\ j < id => j \in ids \/ \E x \in entries : x.id = j
    /\ RecordEvents(a, ids)

-----------------------------------------------------------------------------
(* RunMaintenance and Store.PruneEvents.                                    *)

Tick ==
  /\ now < MaxTime
  /\ now' = now + 1
  /\ UNCHANGED <<rows, lastSeq, pruner, entries>>

\* eventAgentIDs lists the agents that have rows; the cutoff is fixed for the pass.
PruneStart ==
  /\ pruner = IdlePruner
  /\ rows # {}
  /\ \E a \in {r.agent : r \in rows} :
       pruner' = [agent |-> a, todo |-> {r.agent : r \in rows} \ {a},
                  cutoff |-> now - MaxAge]
  /\ UNCHANGED <<rows, lastSeq, now, entries>>

\* The highest seq the cap forces out, 0 when the agent is within it.
ForceDeleteThrough(a) ==
  LET count == Cardinality(RowsOf(a))
  IN  IF count > MaxEvents
        THEN CHOOSE s \in Seqs(RowsOf(a)) :
               Cardinality({r \in RowsOf(a) : r.seq <= s}) = count - MaxEvents
        ELSE 0

\* Seeded fault: no case for a minimum of 0, whose OFFSET of -1 is that of 1.
MinKeepSeqForOne(a) ==
  IF Cardinality(RowsOf(a)) > MinEvents
    THEN CHOOSE s \in Seqs(RowsOf(a)) :
           Cardinality({r \in RowsOf(a) : r.seq >= s}) = (IF MinEvents = 0 THEN 1 ELSE MinEvents)
    ELSE 0

\* The lowest seq that age pruning must keep; above every seq when
\* MinEvents is 0, and 0 when there are too few rows to prune any by age.
MinKeepSeq(a) ==
  IF MinEvents = 0 THEN MaxSeq + 1
  ELSE IF Cardinality(RowsOf(a)) > MinEvents
         THEN CHOOSE s \in Seqs(RowsOf(a)) :
                Cardinality({r \in RowsOf(a) : r.seq >= s}) = MinEvents
         ELSE 0

\* Seeded fault: the rows kept are those received last, not those numbered last.
PrunableByReceived(a) ==
  {r \in RowsOf(a) :
     \/ r.seq <= ForceDeleteThrough(a)
     \/ /\ Cardinality({q \in RowsOf(a) : q.received > r.received}) >= MinEvents
        /\ r.received < pruner.cutoff}

Prunable(a) ==
  {r \in RowsOf(a) :
     \/ r.seq <= ForceDeleteThrough(a)
     \/ r.seq < MinKeepSeq(a) /\ r.received < pruner.cutoff}

\* The n rows numbered last; ORDER BY seq DESC LIMIT n.
NewestRows(R, n) == {r \in R : Cardinality({q \in R : q.seq > r.seq}) < n}

\* ORDER BY seq ASC LIMIT n.
FirstRows(R, n) == {r \in R : Cardinality({q \in R : q.seq < r.seq}) < n}

\* pruneAgentBatch, and the loop around it: a short batch ends the agent.
PruneBatch ==
  LET a == pruner.agent
      doomed == FirstRows(Prunable(a), BatchSize)
  IN  /\ a # NoAgent
      /\ rows' = rows \ doomed
      /\ IF Cardinality(doomed) = BatchSize
           THEN pruner' = pruner
           ELSE \/ /\ pruner.todo = {}
                   /\ pruner' = IdlePruner
                \/ \E b \in pruner.todo :
                     pruner' = [pruner EXCEPT !.agent = b, !.todo = pruner.todo \ {b}]
      /\ UNCHANGED <<lastSeq, now, entries>>

\* A failing batch ends the pass; so does the Hub process stopping.
PruneAborts ==
  /\ pruner # IdlePruner
  /\ pruner' = IdlePruner
  /\ UNCHANGED <<rows, lastSeq, now, entries>>

HubMaintenance == PruneStart \/ PruneBatch \/ PruneAborts

\* The store by itself: uploads, the maintenance goroutine and the clock.
HubNext == Upload \/ HubMaintenance \/ Tick

HubSpec == HubInit /\ [][HubNext]_hubVars

-----------------------------------------------------------------------------
(* What GET /api/v1/events reads: Store.EventBounds, Store.ListEvents.      *)

\* Seeded fault: MAX for MIN.
OldestSeqMax(a) == IF RowsOf(a) = {} THEN 0 ELSE Largest(Seqs(RowsOf(a)))

OldestSeq(a) == IF RowsOf(a) = {} THEN 0 ELSE Smallest(Seqs(RowsOf(a)))
LatestSeq(a) == IF RowsOf(a) = {} THEN 0 ELSE Largest(Seqs(RowsOf(a)))

PageRows(a, after, limit) ==
  FirstRows({r \in RowsOf(a) : r.seq > after}, limit)

-----------------------------------------------------------------------------
(* What the store promises.                                                 *)

\* retention.go: the newest MinEvents rows of an agent, by seq, are never
\* removed, by age or by the cap, whatever is uploaded between two batches of a
\* pass and even when receive times run against the order of the rows.
NewestRowsSurvive ==
  [][\A a \in Agents : NewestRows(RowsOf(a), MinEvents) \subseteq rows']_hubVars

\* When the loop over an agent's batches ends, the agent is within the hard cap
\* and no row but its newest MinEvents is older than the cutoff. (A failing
\* batch and a stopping Hub leave the agent by PruneAborts instead.)
PassIsThorough ==
  [][PruneBatch /\ pruner'.agent # pruner.agent =>
       LET kept == {r \in rows' : r.agent = pruner.agent}
       IN  /\ Cardinality(kept) <= MaxEvents
           /\ \A r \in kept : r.received < pruner.cutoff =>
                               r \in NewestRows(kept, MinEvents)]_hubVars

\* A feed position names one row for ever, also after pruning emptied the
\* table: a cursor a phone saved never covers an event recorded later.
SeqsNeverReused ==
  /\ \A x, y \in entries : x.seq = y.seq => x = y
  /\ \A x \in entries : x.seq <= lastSeq

\* What is retained of an agent's feed is its newest part without holes, so
\* the floor EventBounds reports tells the whole loss. Needs a receive clock
\* that does not run behind the order of the transactions (HandlerLag = 0).
RetainedIsNewestPart ==
  \A a \in Agents : \A r \in RowsOf(a), x \in entries :
    x.agent = a /\ x.seq > r.seq => x.seq \in Seqs(rows)
============================================================================
