-------------------------- MODULE StatePathProofs --------------------------
(***************************************************************************)
(* The state path, for any sources, bounds and staleness threshold: every  *)
(* time stamp that decides about freshness is one at which the Hub really  *)
(* received something, so an answer that says ok is never older than the   *)
(* threshold.                                                              *)
(***************************************************************************)
EXTENDS StatePath, TLAPS

\* The Hub heard from the agent at time t or later.
Heard(t) == lastHeard # Nothing /\ t <= lastHeard

\* No stamp in a handler, the database, the cache or a GET runs ahead of what
\* was heard, in whatever order they were written.
StampsWereHeard ==
  /\ lastHeard # Nothing => lastHeard <= now
  /\ \A r \in requests : r.phase # "sent" => Heard(r.at)
  /\ row # Nothing => lastSeen # Nothing
  /\ lastSeen # Nothing => Heard(lastSeen)
  /\ cache # Nothing => Heard(cache.lastSeen)
  /\ reader # Nothing => Heard(reader.lastSeen)

PathInv == PathTypeOK /\ StampsWereHeard

USE PathBounds, NothingIsApart

\* Nothing has been sent.
LEMMA InitPath == PathInit => PathInv
  BY DEF PathInit, PathInv, PathTypeOK, StampsWereHeard, Snapshot, Times, Kinds

\* Replacing a request by a later form of itself keeps requests well typed
\* and heard, if the later form is.
LEMMA BecomesKeeps ==
  ASSUME PathInv, NEW r \in requests, NEW later, Becomes(r, later),
         later \in Request, later.kind = r.kind, later.body = r.body,
         lastHeard' = lastHeard \/ lastHeard' = now
  PROVE  \A q \in requests' :
           /\ q \in Request
           /\ q.kind = "state" <=> q.body # Nothing
           /\ q # later /\ q.phase # "sent" => Heard(q.at)'
<1>1. SUFFICES ASSUME NEW q \in requests'
               PROVE  /\ q \in Request
                      /\ q.kind = "state" <=> q.body # Nothing
                      /\ q # later /\ q.phase # "sent" => Heard(q.at)'
  OBVIOUS
<1>2. q = later \/ q \in requests
  BY <1>1 DEF Becomes
<1>3. CASE q = later
  BY <1>3 DEF PathInv, PathTypeOK
<1>4. CASE q \in requests
  BY <1>4 DEF PathInv, PathTypeOK, StampsWereHeard, Heard, Request, Times
<1>. QED BY <1>2, <1>3, <1>4

\* Every step keeps stamps behind what was heard.
LEMMA StepKeepsPath == PathInv /\ [PathNext]_vars => PathInv'
<1>. SUFFICES ASSUME PathInv, [PathNext]_vars PROVE PathInv'
  OBVIOUS
<1>. USE DEF PathInv, vars, agentVars, hubVars
<1>1. CASE Tick
  BY <1>1 DEF Tick, PathTypeOK, StampsWereHeard, Heard, Times, Request
<1>2. CASE Collects
  BY <1>2 DEF Collects, PathTypeOK, StampsWereHeard, Heard, Snapshot, Request
<1>3. CASE AgentStops
  BY <1>3 DEF AgentStops, PathTypeOK, StampsWereHeard, Heard
<1>4. CASE AgentStarts
  BY <1>4 DEF AgentStarts, PathTypeOK, StampsWereHeard, Heard, Snapshot
<1>5. ASSUME NEW kind \in Kinds, Send(kind) PROVE PathInv'
  <2>. DEFINE r == [kind |-> kind, body |-> IF kind = "state" THEN snapshot ELSE Nothing,
                    phase |-> "sent", at |-> 0]
  <2>1. requests' = requests \cup {r}
    BY <1>5 DEF Send
  <2>2. r \in Request /\ (r.kind = "state" <=> r.body # Nothing)
    BY DEF PathTypeOK, Request, Times
  <2>3. PathTypeOK'
    BY <1>5, <2>1, <2>2 DEF Send, PathTypeOK
  <2>4. StampsWereHeard'
    BY <1>5, <2>1 DEF Send, StampsWereHeard, Heard
  <2>. QED BY <2>3, <2>4
<1>6. ASSUME NEW r \in requests, Lost(r) PROVE PathInv'
  BY <1>6 DEF Lost, PathTypeOK, StampsWereHeard, Heard
<1>7. ASSUME NEW r \in requests, Receive(r) PROVE PathInv'
  <2>. DEFINE later == [r EXCEPT !.phase = "received", !.at = now]
  <2>1. /\ later \in Request /\ later.kind = r.kind /\ later.body = r.body
        /\ Becomes(r, later) /\ lastHeard' = now
        /\ later.at = now
    BY <1>7 DEF Receive, PathTypeOK, Request
  <2>2. PathTypeOK'
    BY <1>7, <2>1, BecomesKeeps DEF Receive, PathTypeOK
  <2>3. ASSUME NEW q \in requests', q.phase # "sent" PROVE Heard(q.at)'
    <3>1. CASE q = later
      <4>1. now \in Times /\ now # Nothing /\ now <= now
        BY DEF PathTypeOK, Times
      <4>. QED BY <2>1, <3>1, <4>1 DEF Heard
    <3>2. CASE q # later
      BY <2>1, <2>3, <3>2, BecomesKeeps
    <3>. QED BY <3>1, <3>2
  <2>4. StampsWereHeard'
    BY <1>7, <2>1, <2>3 DEF Receive, StampsWereHeard, Heard, PathTypeOK, Times, Held
  <2>. QED BY <2>2, <2>4
<1>8. ASSUME NEW r \in requests, Commit(r) PROVE PathInv'
  <2>. DEFINE later == [r EXCEPT !.phase = "recorded"]
  <2>1. /\ later \in Request /\ later.kind = r.kind /\ later.body = r.body
        /\ Becomes(r, later) /\ lastHeard' = lastHeard
        /\ later.at = r.at
        /\ Heard(r.at)
    BY <1>8 DEF Commit, PathTypeOK, Request, StampsWereHeard
  <2>2. r \in Request /\ (r.kind = "state" <=> r.body # Nothing)
    BY DEF PathTypeOK
  <2>3. PathTypeOK'
    BY <1>8, <2>1, <2>2, BecomesKeeps DEF Commit, PathTypeOK, Request
  <2>4. \A q \in requests' : q.phase # "sent" => Heard(q.at)'
    BY <1>8, <2>1, BecomesKeeps DEF Commit, Heard
  <2>5. StampsWereHeard'
    BY <1>8, <2>1, <2>2, <2>4 DEF Commit, StampsWereHeard, Heard, Request, Times
  <2>. QED BY <2>3, <2>5
<1>9. ASSUME NEW r \in requests, UpdateCache(r) PROVE PathInv'
  <2>1. r \in Request /\ (r.kind = "state" <=> r.body # Nothing) /\ Heard(r.at)
    BY <1>9 DEF UpdateCache, PathTypeOK, StampsWereHeard
  <2>2. /\ cache' \in Held \cup {Nothing}
        /\ cache' # Nothing => Heard(cache'.lastSeen)
    <3>1. CASE r.kind = "state"
      BY <1>9, <2>1, <3>1 DEF UpdateCache, Request, Held
    <3>2. CASE r.kind = "heartbeat" /\ cache # Nothing
      BY <1>9, <2>1, <3>2 DEF UpdateCache, Request, Held, PathTypeOK
    <3>3. CASE r.kind # "state" /\ ~ (r.kind = "heartbeat" /\ cache # Nothing)
      BY <1>9, <3>3 DEF UpdateCache, PathTypeOK, StampsWereHeard
    <3>. QED BY <3>1, <3>2, <3>3
  <2>3. PathTypeOK'
    BY <1>9, <2>2 DEF UpdateCache, PathTypeOK
  <2>4. StampsWereHeard'
    BY <1>9, <2>2 DEF UpdateCache, StampsWereHeard, Heard
  <2>. QED BY <2>3, <2>4
<1>10. CASE HubRestarts
  BY <1>10 DEF HubRestarts, PathTypeOK, StampsWereHeard, Heard
<1>11. CASE AnswerFromCache
  <2>1. Projected(cache) \in Snapshot
    BY <1>11 DEF AnswerFromCache, Projected, PathTypeOK, Held, Snapshot
  <2>. QED BY <1>11, <2>1 DEF AnswerFromCache, PathTypeOK, StampsWereHeard, Heard
<1>12. CASE LoadState
  <2>1. reader' \in Held /\ reader'.lastSeen = lastSeen /\ lastSeen # Nothing
    BY <1>12 DEF LoadState, PathTypeOK, StampsWereHeard, Held
  <2>. QED BY <1>12, <2>1 DEF LoadState, PathTypeOK, StampsWereHeard, Heard
<1>13. CASE SeedCache
  <2>1. Projected(reader) \in Snapshot
    BY <1>13 DEF SeedCache, Projected, PathTypeOK, Held, Snapshot
  <2>. QED BY <1>13, <2>1 DEF SeedCache, PathTypeOK, StampsWereHeard, Heard
<1>14. CASE UNCHANGED vars
  BY <1>14 DEF PathTypeOK, StampsWereHeard, Heard
<1>. QED BY <1>1, <1>2, <1>3, <1>4, <1>5, <1>6, <1>7, <1>8, <1>9, <1>10, <1>11, <1>12,
            <1>13, <1>14 DEF PathNext

\* The invariant holds in every reachable state.
LEMMA PathInvAlways == PathSpec => []PathInv
  BY InitPath, StepKeepsPath, PTL DEF PathSpec

-----------------------------------------------------------------------------
\* The state path keeps its types: no request, row or cache entry is ever
\* half filled.
THEOREM PathTypeCorrect == PathSpec => []PathTypeOK
<1>1. PathInv => PathTypeOK
  BY DEF PathInv
<1>. QED BY PathInvAlways, <1>1, PTL

\* An answer shows a source as ok only if the Hub received something from the
\* agent within the threshold: neither a late commit, nor a cache update that
\* was overtaken, nor a restart, nor a cache seeded late can stretch it.
THEOREM OkMeansHeard == PathSpec => LiveMeansHeard
<1>. DEFINE Fresh == (AnswerFromCache \/ SeedCache) /\ shown'.ok # {} =>
                       lastHeard # Nothing /\ now - lastHeard <= StaleAfter
<1>1. ASSUME PathInv, NEW held \in Held, Heard(held.lastSeen), Projected(held).ok # {}
      PROVE  lastHeard # Nothing /\ now - lastHeard <= StaleAfter
  <2>1. now - held.lastSeen <= StaleAfter
    BY <1>1 DEF Projected, Held, Snapshot, PathInv, PathTypeOK, Times
  <2>2. lastHeard \in Times /\ held.lastSeen \in Times /\ now \in Times
    BY <1>1 DEF Heard, PathInv, PathTypeOK, Held
  <2>. QED BY <1>1, <2>1, <2>2 DEF Heard, Times
<1>2. PathInv /\ [PathNext]_vars => [Fresh]_vars
  <2>1. ASSUME PathInv, AnswerFromCache PROVE Fresh
    BY <1>1, <2>1 DEF AnswerFromCache, PathInv, PathTypeOK, StampsWereHeard
  <2>2. ASSUME PathInv, SeedCache PROVE Fresh
    BY <1>1, <2>2 DEF SeedCache, PathInv, PathTypeOK, StampsWereHeard
  <2>. QED BY <2>1, <2>2
<1>. QED BY <1>2, PathInvAlways, PTL DEF PathSpec, LiveMeansHeard

============================================================================
