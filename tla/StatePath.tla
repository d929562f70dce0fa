----------------------------- MODULE StatePath -----------------------------
(***************************************************************************)
(* The way of the current state from the agent to the phone: the snapshot  *)
(* and heartbeat loops (agent/internal/remote/runtime.go), the Hub's       *)
(* handlers, tables and state cache (agent/internal/hub/server.go,         *)
(* store.go, state_cache.go), and GET /state and /health.                  *)
(*                                                                         *)
(* A handler makes several calls, each under a lock of its own, and        *)
(* handlers overlap: a request is a record that goes from "sent" over      *)
(* "received" (the handler read the clock) to "recorded" (committed to     *)
(* SQLite) and is gone when the cache is updated and the answer sent.      *)
(***************************************************************************)
EXTENDS Integers, FiniteSets

CONSTANTS
  Sources,     \* the sources of a snapshot: zcode and commandCode
  StaleAfter,  \* HUD_HUB_STALE_AFTER_SECONDS, in clock ticks
  MaxTime,     \* bound: clock ticks
  MaxVersions, \* bound: changes of the snapshot
  InFlight,    \* bound: requests on their way or in a handler
  Nothing      \* no snapshot, no time, no answer

Kinds == {"state", "heartbeat", "events"}

ASSUME PathBounds ==
  StaleAfter \in Nat /\ MaxTime \in Nat /\ MaxVersions \in Nat /\ InFlight \in Nat

VARIABLES
  agentUp,   \* the agent process runs
  snapshot,  \* the agent's snapshot store
  now,       \* the Hub's clock
  requests,  \* the agent's requests, sent and not yet answered or lost
  row,       \* the primary agent's row in snapshots
  lastSeen,  \* agents.last_seen_at of the primary agent
  cache,     \* primaryStateCache
  reader,    \* a GET that missed the cache: what it loaded from SQLite
  shown,     \* what the phone shows: the last answer
  lastHeard  \* history variable: when the Hub last received something from the agent

agentVars == <<agentUp, snapshot>>
hubVars == <<row, lastSeen, cache>>
vars == <<agentVars, now, requests, hubVars, reader, shown, lastHeard>>

\* A snapshot, reduced to which one it is and the sources whose health is ok.
Snapshot == [version : 0..MaxVersions, ok : SUBSET Sources]
Times == 0..MaxTime
Request == [kind : Kinds, body : Snapshot \cup {Nothing},
            phase : {"sent", "received", "recorded"}, at : Times]
Held == [state : Snapshot, lastSeen : Times] \* a snapshot as the readers see it

ASSUME NothingIsApart == Nothing \notin Snapshot \cup Times \cup Held

PathTypeOK ==
  /\ agentUp \in BOOLEAN
  /\ snapshot \in Snapshot
  /\ now \in Times
  /\ \A r \in requests : r \in Request /\ (r.kind = "state" <=> r.body # Nothing)
  /\ row \in Snapshot \cup {Nothing}
  /\ lastSeen \in Times \cup {Nothing}
  /\ cache \in Held \cup {Nothing}
  /\ reader \in Held \cup {Nothing}
  /\ shown \in Snapshot \cup {Nothing}
  /\ lastHeard \in Times \cup {Nothing}

\* InitialState: no source has been collected yet.
PathInit ==
  /\ agentUp = TRUE
  /\ snapshot = [version |-> 0, ok |-> {}]
  /\ now = 0
  /\ requests = {}
  /\ row = Nothing
  /\ lastSeen = Nothing
  /\ cache = Nothing
  /\ reader = Nothing
  /\ shown = Nothing
  /\ lastHeard = Nothing

-----------------------------------------------------------------------------
(* The agent.                                                               *)

Tick ==
  /\ now < MaxTime
  /\ now' = now + 1
  /\ UNCHANGED <<agentVars, requests, hubVars, reader, shown, lastHeard>>

\* The collector loops replace sections of the snapshot (SnapshotStore).
Collects ==
  /\ agentUp
  /\ snapshot.version < MaxVersions
  /\ \E ok \in SUBSET Sources : snapshot' = [version |-> snapshot.version + 1, ok |-> ok]
  /\ UNCHANGED <<agentUp, now, requests, hubVars, reader, shown, lastHeard>>

\* snapshotLoop reads the store and posts; heartbeatLoop and the delivery loop
\* post beside it. A loop that sends while an earlier request of its own is on
\* its way has given that up: the timeout passed, or the agent was restarted.
Send(kind) ==
  /\ agentUp
  /\ Cardinality(requests) < InFlight
  /\ requests' = requests \cup
       {[kind |-> kind, body |-> IF kind = "state" THEN snapshot ELSE Nothing,
         phase |-> "sent", at |-> 0]}
  /\ UNCHANGED <<agentVars, now, hubVars, reader, shown, lastHeard>>

\* Lost on the way, refused, or the transaction failed or was cancelled because
\* the agent closed the connection.
Lost(r) ==
  /\ r.phase # "recorded"
  /\ requests' = requests \ {r}
  /\ UNCHANGED <<agentVars, now, hubVars, reader, shown, lastHeard>>

\* Bound: what happens to or after an agent that is down leaves time to notice.
TimeLeft == now + StaleAfter < MaxTime

AgentStops ==
  /\ agentUp
  /\ TimeLeft
  /\ agentUp' = FALSE
  /\ UNCHANGED <<snapshot, now, requests, hubVars, reader, shown, lastHeard>>

\* The snapshot lives in memory only.
AgentStarts ==
  /\ ~ agentUp
  /\ snapshot.version < MaxVersions
  /\ agentUp' = TRUE
  /\ snapshot' = [version |-> snapshot.version + 1, ok |-> {}]
  /\ UNCHANGED <<now, requests, hubVars, reader, shown, lastHeard>>

-----------------------------------------------------------------------------
(* The Hub's ingest handlers: handleAgentState, handleAgentHeartbeat,       *)
(* handleAgentEvents.                                                       *)

\* Replace request r by its later form.
Becomes(r, later) == requests' = (requests \ {r}) \cup {later}

\* receivedAt := s.utcnow(), after the envelope was validated.
Receive(r) ==
  /\ r.phase = "sent"
  /\ agentUp \/ TimeLeft
  /\ Becomes(r, [r EXCEPT !.phase = "received", !.at = now])
  /\ lastHeard' = now
  /\ UNCHANGED <<agentVars, now, hubVars, reader, shown>>

\* RecordState, RecordHeartbeat or RecordEvents: one transaction that stamps
\* the agent and, for a state, replaces its snapshot. The last to commit wins.
Commit(r) ==
  /\ r.phase = "received"
  /\ lastSeen' = r.at
  /\ row' = IF r.kind = "state" THEN r.body ELSE row
  /\ Becomes(r, [r EXCEPT !.phase = "recorded"])
  /\ UNCHANGED <<agentVars, now, cache, reader, shown, lastHeard>>

\* Seeded fault: a cache that is filled keeps its snapshot.
UpdateCacheOnce(r) ==
  /\ r.phase = "recorded"
  /\ cache' = CASE cache # Nothing /\ r.kind # "events" -> [cache EXCEPT !.lastSeen = r.at]
                [] cache = Nothing /\ r.kind = "state" -> [state |-> r.body, lastSeen |-> r.at]
                [] OTHER -> cache
  /\ requests' = requests \ {r}
  /\ UNCHANGED <<agentVars, now, row, lastSeen, reader, shown, lastHeard>>

\* Seeded fault: a heartbeat stamps a cache that was never filled.
UpdateCacheUnfilled(r) ==
  /\ r.phase = "recorded"
  /\ cache' = CASE r.kind = "state" -> [state |-> r.body, lastSeen |-> r.at]
                [] r.kind = "heartbeat" ->
                     [state |-> IF cache = Nothing THEN Nothing ELSE cache.state, lastSeen |-> r.at]
                [] OTHER -> cache
  /\ requests' = requests \ {r}
  /\ UNCHANGED <<agentVars, now, row, lastSeen, reader, shown, lastHeard>>

\* stateCache.store or stateCache.heartbeat, and the answer. A heartbeat
\* stamps a cache that is filled; an event upload leaves the cache alone.
UpdateCache(r) ==
  /\ r.phase = "recorded"
  /\ cache' = CASE r.kind = "state" -> [state |-> r.body, lastSeen |-> r.at]
                [] r.kind = "heartbeat" /\ cache # Nothing -> [cache EXCEPT !.lastSeen = r.at]
                [] OTHER -> cache
  /\ requests' = requests \ {r}
  /\ UNCHANGED <<agentVars, now, row, lastSeen, reader, shown, lastHeard>>

\* The Hub process dies and is started again on its database.
HubRestarts ==
  /\ cache' = Nothing
  /\ reader' = Nothing
  /\ requests' = {r \in requests : r.phase = "sent"}
  /\ UNCHANGED <<agentVars, now, row, lastSeen, shown, lastHeard>>

-----------------------------------------------------------------------------
(* GET /state and GET /health: loadPrimaryState, handleState, handleHealth. *)
(* After the snapshot is at hand nothing but the clock enters the answer.   *)

\* Seeded fault: a source ok at the agent stays ok at the Hub.
ProjectedFresh(held) == [held.state EXCEPT !.ok = held.state.ok]

\* projectState: sources of an agent not heard for longer than StaleAfter are
\* not ok.
Projected(held) ==
  [held.state EXCEPT !.ok = IF now - held.lastSeen > StaleAfter THEN {} ELSE held.state.ok]

\* A GET beside one that is loading, if there is one.
AnswerFromCache ==
  /\ cache # Nothing
  /\ shown' = Projected(cache)
  /\ UNCHANGED <<agentVars, now, requests, hubVars, reader, lastHeard>>

\* Store.LoadState; without a snapshot the answer is 503 or "error" at once.
LoadState ==
  /\ reader = Nothing
  /\ cache = Nothing
  /\ row # Nothing
  /\ reader' = [state |-> row, lastSeen |-> lastSeen]
  /\ UNCHANGED <<agentVars, now, requests, hubVars, shown, lastHeard>>

\* Seeded fault: the cache is seeded as if the agent had just been heard.
SeedCacheAsNew ==
  /\ reader # Nothing
  /\ cache' = [reader EXCEPT !.lastSeen = now]
  /\ shown' = Projected(reader)
  /\ reader' = Nothing
  /\ UNCHANGED <<agentVars, now, requests, row, lastSeen, lastHeard>>

\* What was loaded replaces whatever the cache holds by now, and is answered.
SeedCache ==
  /\ reader # Nothing
  /\ cache' = reader
  /\ shown' = Projected(reader)
  /\ reader' = Nothing
  /\ UNCHANGED <<agentVars, now, requests, row, lastSeen, lastHeard>>

-----------------------------------------------------------------------------
PathNext ==
  \/ Tick
  \/ Collects
  \/ AgentStops
  \/ AgentStarts
  \/ \E kind \in Kinds : Send(kind)
  \/ \E r \in requests :
       \/ Lost(r)
       \/ Receive(r)
       \/ Commit(r)
       \/ UpdateCache(r)
  \/ HubRestarts
  \/ AnswerFromCache
  \/ LoadState
  \/ SeedCache

\* A request of one of the kinds gets one step further in its handler.
Handled(kinds, phases) ==
  \E r \in requests :
    /\ r.kind \in kinds
    /\ r.phase \in phases
    /\ Receive(r) \/ Commit(r) \/ UpdateCache(r)

\* The clock goes on, the snapshot loop runs as long as the agent does (its
\* fairness is strong because the bound InFlight can hold it up), and handlers
\* and GETs end. However often state uploads are lost or refused, the Hub takes
\* and commits one again and again. Nothing is assumed of the other two loops.
PathFairness ==
  /\ WF_vars(Tick)
  /\ SF_vars(Send("state"))
  /\ SF_vars(Handled({"state"}, {"sent"}))
  /\ SF_vars(Handled({"state"}, {"received"}))
  /\ WF_vars(Handled({"state"}, {"recorded"}))
  /\ WF_vars(Handled(Kinds \ {"state"}, {"sent", "received", "recorded"}))
  /\ WF_vars(AnswerFromCache)
  /\ WF_vars(LoadState)
  /\ WF_vars(SeedCache)

PathSpec == PathInit /\ [][PathNext]_vars /\ PathFairness

-----------------------------------------------------------------------------
\* A source is answered as ok only if the Hub received something from the agent
\* within StaleAfter before the answer, by the Hub's own clock, whatever is
\* cached, overtaken, restarted or stamped out of order
\* (docs/ARCHITECTURE.md "ok: ... and the agent is fresh").
LiveMeansHeard ==
  [][(AnswerFromCache \/ SeedCache) /\ shown'.ok # {} =>
       lastHeard # Nothing /\ now - lastHeard <= StaleAfter]_vars

\* The Hub's process is restarted finitely often.
HubStable == <>[][~ HubRestarts]_vars

\* An agent that stays down is not shown as ok for ever, late requests or not
\* (docs/ARCHITECTURE.md "If the primary agent disappears").
OfflineIsShown ==
  HubStable /\ <>[] ~ agentUp => <>[] (shown = Nothing \/ shown.ok = {})

\* While the agent stays up and the Hub is reachable again and again, the phone
\* ends up with the agent's snapshot: overtaken uploads, reordered stamps and a
\* cache seeded late do not last, and the database agrees in the end.
StateConverges ==
  HubStable /\ <>[] agentUp => <>[] (row = snapshot /\ shown = snapshot)
============================================================================
