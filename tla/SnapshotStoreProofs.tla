------------------------ MODULE SnapshotStoreProofs ------------------------
(***************************************************************************)
(* The snapshot store, for any sources and bounds: what it holds is valid, *)
(* failures show, and the data shown is the last that was collected.       *)
(***************************************************************************)
EXTENDS SnapshotStore, TLAPS

\* A loop's section changes only by its own hand: what it read before a
\* degrading update is still in the store when it writes. Without it
\* DataIsLastKnownGood would not survive Record.
PreviousIsCurrent ==
  \A s \in Sources : results[s] # Nothing =>
    /\ agentUp
    /\ results[s].previous # Nothing => results[s].previous = snapshot[s]

StoreInv ==
  /\ StoreTypeOK
  /\ clock >= 0 - steps
  /\ PreviousIsCurrent
  /\ DataIsLastKnownGood
  /\ FailureIsVisible

USE UnconfiguredAreSources, StoreBounds, NothingIsApart

\* The section every source starts with is valid and shows no data.
LEMMA InitialSectionValid ==
  ASSUME StoreTypeOK, NEW s \in Sources
  PROVE  /\ InitialSection(s) \in Section
         /\ ValidSection(InitialSection(s))
         /\ InitialSection(s).status # "ok"
         /\ InitialSection(s).data = Nothing
  BY DEF StoreTypeOK, InitialSection, Section, ValidSection

\* What a finished collection puts in place of the section it read is well
\* typed, and invalid only if the clock was set back below the last success.
LEMMA ReplacementFits ==
  ASSUME NEW result \in Result,
         result.ok \/ result.previous \in Section,
         ~ result.ok => ValidSection(result.previous)
  PROVE  /\ Replacement(result) \in Section
         /\ ~ ValidSection(Replacement(result)) =>
              /\ ~ result.ok
              /\ result.previous.data # Nothing
              /\ result.previous.success > result.at
         /\ result.ok =>
              /\ Replacement(result).data = result.data
              /\ Replacement(result).success = result.at
              /\ result.data # Nothing
         /\ ~ result.ok =>
              /\ Replacement(result).status # "ok"
              /\ Replacement(result).data = result.previous.data
              /\ result.previous.data # Nothing =>
                   Replacement(result).success = result.previous.success
<1>1. CASE result.ok
  BY <1>1 DEF Replacement, Result, Section, ValidSection, Instant
<1>2. CASE ~ result.ok
  <2>. DEFINE previous == result.previous
  <2>1. /\ previous \in Section
        /\ previous.data # Nothing => previous.success # Nothing /\ previous.success \in Instant
    BY <1>2 DEF ValidSection, Section
  <2>2. Replacement(result) = Degraded(result)
    BY <1>2 DEF Replacement
  <2>3. CASE previous.data = Nothing
    BY <1>2, <2>1, <2>2, <2>3 DEF Degraded, Result, Section, ValidSection, Instant
  <2>4. CASE previous.data # Nothing
    BY <1>2, <2>1, <2>2, <2>4 DEF Degraded, Result, Section, ValidSection, Instant
  <2>. QED BY <2>3, <2>4
<1>. QED BY <1>1, <1>2

\* Before anything is collected.
LEMMA InitStore == StoreInit => StoreInv
<1>. SUFFICES ASSUME StoreInit PROVE StoreInv
  OBVIOUS
<1>1. StoreTypeOK
  BY DEF StoreInit, StoreTypeOK, Valid, InitialSection, Snapshots, Section, ValidSection, Instant
<1>. QED BY <1>1 DEF StoreInit, StoreInv, PreviousIsCurrent, DataIsLastKnownGood,
              FailureIsVisible, InitialSection

-----------------------------------------------------------------------------
(* The steps.                                                               *)

\* Recording a result keeps everything: the one step with a case to make.
LEMMA RecordKeeps ==
  ASSUME StoreInv, NEW s \in Sources, Record(s)
  PROVE  StoreInv'
<1>. DEFINE result == results[s]
           next == [snapshot EXCEPT ![s] = Replacement(result)]
<1>. USE DEF StoreInv
<1>1. /\ result \in Result
      /\ result.ok \/ result.previous # Nothing
      /\ snapshot' = Mutated(next)
      /\ snapshot \in Snapshots
      /\ Valid(snapshot)
  BY DEF Record, StoreTypeOK
<1>2. ~ result.ok => result.previous = snapshot[s]
  BY <1>1 DEF PreviousIsCurrent, Record
<1>3. snapshot[s] \in Section /\ ValidSection(snapshot[s])
  BY <1>1 DEF Snapshots, Valid
<1>4. /\ Replacement(result) \in Section
      /\ ~ ValidSection(Replacement(result)) =>
           ~ result.ok /\ snapshot[s].data # Nothing /\ snapshot[s].success > result.at
      /\ result.ok =>
           /\ Replacement(result).data = result.data
           /\ Replacement(result).success = result.at
           /\ result.data # Nothing
      /\ ~ result.ok =>
           /\ Replacement(result).status # "ok"
           /\ Replacement(result).data = snapshot[s].data
           /\ snapshot[s].data # Nothing => Replacement(result).success = snapshot[s].success
  BY <1>1, <1>2, <1>3, ReplacementFits
<1>5. /\ snapshot' \in Snapshots
      /\ Valid(snapshot)'
      /\ \A r \in Sources \ {s} : snapshot'[r] = snapshot[r]
      /\ snapshot'[s] = IF ValidSection(Replacement(result)) THEN Replacement(result)
                        ELSE snapshot[s]
  <2>1. next \in Snapshots /\ next[s] = Replacement(result)
        /\ \A r \in Sources \ {s} : next[r] = snapshot[r]
    BY <1>1, <1>4 DEF Snapshots
  <2>2. Valid(next) <=> ValidSection(Replacement(result))
    BY <1>1, <2>1 DEF Valid
  <2>. QED BY <1>1, <2>1, <2>2 DEF Mutated, Valid
<1>6. /\ results' = [results EXCEPT ![s] = Nothing]
      /\ results'[s] = Nothing
      /\ \A r \in Sources \ {s} : results'[r] = results[r]
      /\ \A r \in Sources \ {s} : lastGood'[r] = lastGood[r] /\ failedAt'[r] = failedAt[r]
      /\ lastGood'[s] = IF result.ok THEN [data |-> result.data, at |-> result.at] ELSE lastGood[s]
      /\ failedAt'[s] = IF result.ok THEN Nothing ELSE result.at
      /\ UNCHANGED <<agentUp, clock, steps, collections>>
  BY DEF Record, StoreTypeOK
<1>7. StoreTypeOK'
  <2>1. results' \in [Sources -> Result \cup {Nothing}]
    BY <1>6 DEF StoreTypeOK
  <2>2. lastGood' \in [Sources -> Good \cup {Nothing}]
    BY <1>1 DEF StoreTypeOK, Record, Result, Good
  <2>3. failedAt' \in [Sources -> Instant \cup {Nothing}]
    BY <1>1 DEF StoreTypeOK, Record, Result
  <2>. QED BY <1>5, <1>6, <2>1, <2>2, <2>3 DEF StoreTypeOK
<1>8. PreviousIsCurrent'
  <2>1. SUFFICES ASSUME NEW r \in Sources, results'[r] # Nothing
                 PROVE  /\ agentUp'
                        /\ results'[r].previous # Nothing => results'[r].previous = snapshot'[r]
    BY DEF PreviousIsCurrent
  <2>2. r # s
    BY <1>6, <2>1
  <2>3. results'[r] = results[r] /\ snapshot'[r] = snapshot[r] /\ agentUp' = agentUp
    BY <1>5, <1>6, <2>2
  <2>4. agentUp /\ (results[r].previous # Nothing => results[r].previous = snapshot[r])
    BY <2>1, <2>3 DEF PreviousIsCurrent
  <2>. QED BY <2>3, <2>4
<1>9. DataIsLastKnownGood'
  <2>1. CASE result.ok
    <3>1. lastGood'[s] # Nothing
      BY <1>1, <1>6, <2>1 DEF Result, Good
    <3>. QED BY <1>4, <1>5, <1>6, <2>1, <3>1 DEF DataIsLastKnownGood
  <2>2. CASE ~ result.ok
    <3>1. snapshot'[s].data = snapshot[s].data
      BY <1>4, <1>5, <2>2
    <3>2. snapshot[s].data # Nothing => snapshot'[s].success = snapshot[s].success
      BY <1>4, <1>5, <2>2
    <3>3. lastGood[s] # Nothing => lastGood[s].data # Nothing
      BY DEF StoreTypeOK, Good
    <3>. QED BY <1>5, <1>6, <2>2, <3>1, <3>2, <3>3 DEF DataIsLastKnownGood
  <2>. QED BY <2>1, <2>2
<1>10. FailureIsVisible'
  <2>1. CASE result.ok
    BY <1>5, <1>6, <2>1 DEF FailureIsVisible
  <2>2. CASE ~ result.ok /\ ValidSection(Replacement(result))
    BY <1>4, <1>5, <1>6, <2>2 DEF FailureIsVisible
  <2>3. CASE ~ result.ok /\ ~ ValidSection(Replacement(result))
    \* Refused: the clock is below the last success.
    <3>1. lastGood[s] # Nothing /\ lastGood[s].at > result.at
      BY <1>4, <2>3 DEF DataIsLastKnownGood
    <3>2. ~ (result.at >= lastGood[s].at)
      BY <1>1, <3>1 DEF StoreTypeOK, Result, Instant, Good
    <3>. QED BY <1>5, <1>6, <2>3, <3>1, <3>2 DEF FailureIsVisible
  <2>. QED BY <2>1, <2>2, <2>3
<1>. QED BY <1>6, <1>7, <1>8, <1>9, <1>10

\* Every step keeps the invariant.
LEMMA StepKeepsStore == StoreInv /\ [StoreNext]_storeVars => StoreInv'
<1>. SUFFICES ASSUME StoreInv, [StoreNext]_storeVars PROVE StoreInv'
  OBVIOUS
<1>. USE DEF StoreInv
<1>1. ASSUME NEW s \in Sources, Collect(s) PROVE StoreInv'
  <2>1. StoreTypeOK'
    BY <1>1 DEF Collect, StoreTypeOK, Result
  <2>2. PreviousIsCurrent'
    BY <1>1 DEF Collect, PreviousIsCurrent, StoreTypeOK
  <2>. QED BY <1>1, <2>1, <2>2 DEF Collect, DataIsLastKnownGood, FailureIsVisible
<1>2. ASSUME NEW s \in Sources, ReadPrevious(s) PROVE StoreInv'
  <2>1. /\ results[s] \in Result
        /\ snapshot[s] \in Section
    BY <1>2 DEF ReadPrevious, StoreTypeOK, Snapshots
  <2>2. StoreTypeOK'
    BY <1>2, <2>1 DEF ReadPrevious, StoreTypeOK, Result
  <2>3. PreviousIsCurrent'
    BY <1>2, <2>1 DEF ReadPrevious, PreviousIsCurrent, StoreTypeOK, Result
  <2>. QED BY <1>2, <2>2, <2>3 DEF ReadPrevious, DataIsLastKnownGood, FailureIsVisible
<1>3. ASSUME NEW s \in Sources, Record(s) PROVE StoreInv'
  BY <1>3, RecordKeeps
<1>4. CASE Tick
  BY <1>4 DEF Tick, StoreTypeOK, Valid, Instant, PreviousIsCurrent, DataIsLastKnownGood,
              FailureIsVisible
<1>5. CASE ClockStepsBack
  BY <1>5 DEF ClockStepsBack, StoreTypeOK, Valid, Instant, PreviousIsCurrent,
              DataIsLastKnownGood, FailureIsVisible
<1>6. CASE AgentStops
  BY <1>6 DEF AgentStops, StoreTypeOK, PreviousIsCurrent, DataIsLastKnownGood, FailureIsVisible
<1>7. CASE AgentStarts
  <2>1. snapshot' = [s \in Sources |-> InitialSection(s)]
    BY <1>7 DEF AgentStarts
  <2>2. snapshot' \in Snapshots /\ Valid(snapshot)'
    BY <2>1, InitialSectionValid DEF Snapshots, Valid
  <2>3. StoreTypeOK'
    BY <1>7, <2>2 DEF AgentStarts, StoreTypeOK
  <2>4. DataIsLastKnownGood' /\ FailureIsVisible'
    BY <1>7, <2>1, InitialSectionValid DEF AgentStarts, DataIsLastKnownGood, FailureIsVisible
  <2>. QED BY <1>7, <2>3, <2>4 DEF AgentStarts, PreviousIsCurrent
<1>8. CASE UNCHANGED storeVars
  BY <1>8 DEF storeVars, StoreTypeOK, Valid, PreviousIsCurrent, DataIsLastKnownGood,
              FailureIsVisible
<1>. QED BY <1>1, <1>2, <1>3, <1>4, <1>5, <1>6, <1>7, <1>8 DEF StoreNext

\* The invariant holds in every reachable state.
LEMMA StoreInvAlways == StoreSpec => []StoreInv
  BY InitStore, StepKeepsStore, PTL DEF StoreSpec

-----------------------------------------------------------------------------
\* Whatever fails in whatever order, the store only ever holds states that
\* pass the validation the upload will meet at the Hub.
THEOREM StoreHoldsValidStates == StoreSpec => []StoreTypeOK
<1>1. StoreInv => StoreTypeOK
  BY DEF StoreInv
<1>. QED BY StoreInvAlways, <1>1, PTL

\* The data shown for a source is the last that was collected, dated when it
\* was collected: failures, the other source's updates and refused updates do
\* not touch it.
THEOREM ShowsLastKnownGood == StoreSpec => []DataIsLastKnownGood
<1>1. StoreInv => DataIsLastKnownGood
  BY DEF StoreInv
<1>. QED BY StoreInvAlways, <1>1, PTL

\* A source whose newest collection failed is not shown as ok, unless the
\* clock was set back below its last success.
THEOREM FailuresShow == StoreSpec => []FailureIsVisible
<1>1. StoreInv => FailureIsVisible
  BY DEF StoreInv
<1>. QED BY StoreInvAlways, <1>1, PTL

============================================================================
