------------------------ MODULE EventPipelineProofs ------------------------
(***************************************************************************)
(* Proofs about the agent's outbox and the pipeline that delivers it, for  *)
(* every set of tasks, every number of observations and every bound.       *)
(*                                                                         *)
(* First EventOutbox: the events are compared with the whole snapshot      *)
(* history, while the code compares each snapshot with one stored status   *)
(* per task. The invariant that links the two is BaselineIsLastListed.     *)
(*                                                                         *)
(* Then EventPipeline: it runs the outbox, loses nothing, keeps the        *)
(* machine's order, and publishes the event log prefix by prefix as        *)
(* TaskEventFeed says.                                                     *)
(***************************************************************************)
EXTENDS EventPipeline, NumberFacts

-----------------------------------------------------------------------------
(* The outbox of one agent.                                                *)

\* The stored status of a task is the one it was last listed with, and there
\* is none exactly when it was never listed.
LastListedAs(t, status) ==
  \E m \in 1..observations :
    /\ history[m][t] = status
    /\ \A k \in (m + 1)..observations : history[k][t] = Absent

BaselineIsLastListed ==
  \A t \in Tasks :
    /\ baseline[t] = Absent => \A m \in 1..observations : history[m][t] = Absent
    /\ baseline[t] # Absent => LastListedAs(t, baseline[t])

InitializedByFirst == initialized <=> observations > 0

EmittedInBounds ==
  \A e \in emitted : e.seq \in 1..localSeq /\ e.obs \in 1..observations

\* What the delivery loop holds is the oldest part of the outbox.
BatchIsOldest == \A m \in batch, n \in outbox : n < m => n \in batch

IInv ==
  /\ OutboxTypeOK
  /\ InitializedByFirst
  /\ BaselineIsLastListed
  /\ EmittedInBounds
  /\ BatchIsOldest
  /\ EmittedAreTheTransitions
  /\ SeqFollowsObservation
  /\ SettledIsPrefix

-----------------------------------------------------------------------------
(* What one observation appends.                                            *)

\* A snapshot lists finitely many tasks, so it appends finitely many events.
LEMMA TransitionedFinite ==
  ASSUME NEW tasks
  PROVE  /\ Transitioned(tasks) \subseteq Tasks
         /\ Cardinality(Transitioned(tasks)) \in Nat
<1>1. Transitioned(tasks) \subseteq Tasks
  BY DEF Transitioned
<1>2. IsFiniteSet(Transitioned(tasks))
  BY <1>1, TasksFinite, FS_Subset
<1> QED
  BY <1>1, <1>2, FS_CardinalityType

\* The event of task t among those an observation appends.
NewEvent(seqOf, tasks, t) ==
  [seq |-> seqOf[t], obs |-> observations + 1, task |-> t, status |-> tasks[t]]

\* An observation appends one event per transition, numbered beyond every
\* earlier row, one number each.
LEMMA ObserveAppends ==
  ASSUME OutboxTypeOK, NEW tasks \in Listing, Observe("ok", tasks)
  PROVE  \E seqOf :
           /\ \A t \in Transitioned(tasks) : seqOf[t] \in Nat /\ seqOf[t] > localSeq
                                             /\ seqOf[t] <= localSeq'
           /\ \A t, u \in Transitioned(tasks) : seqOf[t] = seqOf[u] => t = u
           /\ outbox' = outbox \cup {seqOf[t] : t \in Transitioned(tasks)}
           /\ emitted' = emitted \cup {NewEvent(seqOf, tasks, t) : t \in Transitioned(tasks)}
<1> DEFINE new == Transitioned(tasks)
<1>1. PICK seqOf \in SeqAssignments(new) :
        /\ outbox' = outbox \cup {seqOf[t] : t \in new}
        /\ emitted' = emitted \cup {NewEvent(seqOf, tasks, t) : t \in new}
  BY DEF Observe, NewEvent
<1>2. Cardinality(new) \in Nat /\ localSeq \in Nat /\ localSeq' = localSeq + Cardinality(new)
  BY TransitionedFinite DEF Observe, OutboxTypeOK
<1>3. /\ seqOf \in [new -> (localSeq + 1)..(localSeq + Cardinality(new))]
      /\ \A t, u \in new : seqOf[t] = seqOf[u] => t = u
  BY <1>1 DEF SeqAssignments, NextSeqs
<1>4. \A t \in new : seqOf[t] \in Nat /\ seqOf[t] > localSeq /\ seqOf[t] <= localSeq'
  <2> SUFFICES ASSUME NEW t \in new
               PROVE  seqOf[t] \in Nat /\ seqOf[t] > localSeq /\ seqOf[t] <= localSeq'
    OBVIOUS
  <2>1. seqOf[t] \in (localSeq + 1)..(localSeq + Cardinality(new))
    BY <1>3
  <2> HIDE DEF new
  <2> QED
    BY <2>1, <1>2
<1> QED
  BY <1>1, <1>3, <1>4

\* What an observation does to the other variables.
LEMMA ObserveWrites ==
  ASSUME OutboxTypeOK, NEW tasks \in Listing, Observe("ok", tasks)
  PROVE  /\ observations \in Nat /\ observations < MaxObservations
         /\ observations' = observations + 1
         /\ history' = [n \in 1..(observations + 1) |->
                          IF n <= observations THEN history[n] ELSE tasks]
         /\ \A n \in 1..observations : history'[n] = history[n]
         /\ history'[observations + 1] = tasks
         /\ baseline' = [t \in Tasks |-> IF tasks[t] = Absent THEN baseline[t] ELSE tasks[t]]
         /\ initialized' = TRUE
         /\ delivery' = delivery /\ batch' = batch
<1>1. observations \in Nat
  BY LimitsAreNatural DEF OutboxTypeOK
<1> QED
  BY <1>1 DEF Observe, Upserted

-----------------------------------------------------------------------------
(* The stored baseline says what the history says.                          *)

\* A later snapshot does not change which earlier ones held a transition.
LEMMA OldTransitionsStay ==
  ASSUME OutboxTypeOK, NEW tasks \in Listing, Observe("ok", tasks),
         NEW n \in 1..observations, NEW t \in Tasks
  PROVE  TransitionAt(n, t)' <=> TransitionAt(n, t)
<1>1. /\ observations \in Nat /\ observations' = observations + 1
      /\ \A k \in 1..observations : history'[k] = history[k]
  BY ObserveWrites
<1>2. \A k \in 1..n : k \in 1..observations
  BY <1>1
<1>3. n \in 2..observations' <=> n \in 2..observations
  BY <1>1
<1>4. \A m \in 1..(n - 1) : m \in 1..n /\ \A k \in (m + 1)..(n - 1) : k \in 1..n
  BY <1>1
<1> QED
  BY <1>1, <1>2, <1>3, <1>4 DEF TransitionAt

\* A snapshot holds a transition, judged from the history, exactly for the
\* tasks whose stored status it contradicts with a terminal one.
LEMMA NewTransitionsAreDetected ==
  ASSUME OutboxTypeOK, InitializedByFirst, BaselineIsLastListed,
         NEW tasks \in Listing, Observe("ok", tasks), NEW t \in Tasks,
         NEW n, n = observations + 1
  PROVE  TransitionAt(n, t)' <=> t \in Transitioned(tasks)
<1> DEFINE o == observations
<1>1. /\ o \in Nat /\ observations' = o + 1
      /\ \A k \in 1..o : history'[k] = history[k]
      /\ history'[o + 1] = tasks
  BY ObserveWrites
<1> DEFINE Same == \E m \in 1..o : /\ history[m][t] = tasks[t]
                                   /\ \A k \in (m + 1)..o : history[k][t] = Absent
<1>2. TransitionAt(n, t)' <=>
        o + 1 \in 2..(o + 1) /\ tasks[t] # Absent /\ Terminal(tasks[t]) /\ ~ Same
  <2>1. \A m \in 1..o : \A k \in (m + 1)..o : k \in 1..o
    BY <1>1
  <2>2. n = o + 1 /\ n - 1 = o
    BY <1>1
  <2>3. TransitionAt(n, t)' <=>
          /\ o + 1 \in 2..(o + 1) /\ tasks[t] # Absent /\ Terminal(tasks[t])
          /\ ~ \E m \in 1..o : /\ history'[m][t] = tasks[t]
                              /\ \A k \in (m + 1)..o : history'[k][t] = Absent
    BY <1>1, <2>2 DEF TransitionAt
  <2> QED
    BY <1>1, <2>1, <2>3
<1>3. o + 1 \in 2..(o + 1) <=> initialized
  BY <1>1 DEF InitializedByFirst
<1>4. ASSUME tasks[t] # Absent
      PROVE  Same <=> baseline[t] = tasks[t]
  <2>1. ASSUME baseline[t] = tasks[t] PROVE Same
    BY <1>4, <2>1 DEF BaselineIsLastListed, LastListedAs
  <2>2. ASSUME Same PROVE baseline[t] = tasks[t]
    <3>1. PICK m \in 1..o : history[m][t] = tasks[t]
                            /\ \A k \in (m + 1)..o : history[k][t] = Absent
      BY <2>2
    <3>2. baseline[t] # Absent
      BY <1>4, <3>1 DEF BaselineIsLastListed
    <3>3. PICK p \in 1..o : history[p][t] = baseline[t]
                            /\ \A k \in (p + 1)..o : history[k][t] = Absent
      BY <3>2 DEF BaselineIsLastListed, LastListedAs
    <3>4. m \in (p + 1)..o \/ p \in (m + 1)..o \/ m = p
      BY <1>1
    <3> QED
      BY <1>4, <3>1, <3>2, <3>3, <3>4
  <2> QED
    BY <2>1, <2>2
<1> QED
  BY <1>2, <1>3, <1>4 DEF Transitioned

-----------------------------------------------------------------------------
(* One observation preserves the invariant.                                 *)

\* An observation leaves every variable in its type.
LEMMA ObserveKeepsTypes ==
  ASSUME OutboxTypeOK, NEW tasks \in Listing, Observe("ok", tasks)
  PROVE  OutboxTypeOK'
<1>1. PICK seqOf :
        /\ \A t \in Transitioned(tasks) : seqOf[t] \in Nat /\ seqOf[t] > localSeq
                                          /\ seqOf[t] <= localSeq'
        /\ outbox' = outbox \cup {seqOf[t] : t \in Transitioned(tasks)}
        /\ emitted' = emitted \cup {NewEvent(seqOf, tasks, t) : t \in Transitioned(tasks)}
  BY ObserveAppends
<1>2. localSeq \in Nat /\ localSeq' \in Nat /\ localSeq <= localSeq'
  BY TransitionedFinite DEF Observe, OutboxTypeOK
<1>3. outbox' \in SUBSET (1..localSeq') /\ batch' \in SUBSET (1..localSeq')
  <2>1. outbox \in SUBSET (1..localSeq) /\ batch \in SUBSET (1..localSeq) /\ batch' = batch
    BY DEF Observe, OutboxTypeOK
  <2>2. \A m \in 1..localSeq : m \in 1..localSeq'
    BY <1>2
  <2>3. \A t \in Transitioned(tasks) : seqOf[t] \in 1..localSeq'
    BY <1>1, <1>2
  <2> QED
    BY <1>1, <2>1, <2>2, <2>3
<1>4. observations \in Nat /\ observations' \in 0..MaxObservations
      /\ observations' = observations + 1
  <2>1. observations \in Nat /\ observations < MaxObservations /\ observations' = observations + 1
    BY ObserveWrites
  <2> QED
    BY <2>1, LimitsAreNatural
<1>5. \A t \in Transitioned(tasks) : NewEvent(seqOf, tasks, t) \in Event
  BY <1>1, <1>4 DEF NewEvent, Event, Transitioned, Terminal
<1>6. emitted' \in SUBSET Event
  BY <1>1, <1>5 DEF OutboxTypeOK
<1>7. history' \in [1..observations' -> Listing]
  <2>1. history' = [n \in 1..(observations + 1) |->
                      IF n <= observations THEN history[n] ELSE tasks]
    BY DEF Observe
  <2>2. \A n \in 1..(observations + 1) : n <= observations => n \in 1..observations
    BY <1>4
  <2> QED
    BY <1>4, <2>1, <2>2 DEF OutboxTypeOK
<1>8. baseline' \in [Tasks -> Status \cup {Absent}]
  <2>1. baseline' = [t \in Tasks |-> IF tasks[t] = Absent THEN baseline[t] ELSE tasks[t]]
    BY ObserveWrites
  <2>2. \A t \in Tasks : /\ baseline[t] \in Status \cup {Absent}
                         /\ tasks[t] \in Status \cup {Absent}
    BY DEF OutboxTypeOK, Listing
  <2> QED
    BY <2>1, <2>2
<1>9. display' \in SUBSET Tasks /\ initialized' \in BOOLEAN
      /\ delivery' \in {"idle", "sending", "acking"}
  BY DEF Observe, OutboxTypeOK
<1> QED
  BY <1>2, <1>3, <1>4, <1>6, <1>7, <1>8, <1>9 DEF OutboxTypeOK

\* After an observation the stored statuses again agree with the history: a
\* listed task has the listed status, an unlisted one keeps its own.
LEMMA ObserveKeepsBaseline ==
  ASSUME OutboxTypeOK, BaselineIsLastListed, NEW tasks \in Listing, Observe("ok", tasks)
  PROVE  BaselineIsLastListed'
<1> DEFINE o == observations
<1>1. /\ o \in Nat /\ observations' = o + 1
      /\ \A k \in 1..o : history'[k] = history[k]
      /\ history'[o + 1] = tasks
      /\ baseline' = [t \in Tasks |-> IF tasks[t] = Absent THEN baseline[t] ELSE tasks[t]]
  BY ObserveWrites
<1>2. \A k \in 1..(o + 1) : k \in 1..o \/ k = o + 1
  BY <1>1
<1> SUFFICES ASSUME NEW t \in Tasks
             PROVE  /\ baseline'[t] = Absent => \A m \in 1..(o + 1) : history'[m][t] = Absent
                    /\ baseline'[t] # Absent =>
                         \E m \in 1..(o + 1) : /\ history'[m][t] = baseline'[t]
                                              /\ \A k \in (m + 1)..(o + 1) : history'[k][t] = Absent
  BY <1>1 DEF BaselineIsLastListed, LastListedAs
<1>3. CASE tasks[t] # Absent
  <2>1. baseline'[t] = tasks[t]
    BY <1>1, <1>3
  <2>2. o + 1 \in 1..(o + 1) /\ (o + 1 + 1)..(o + 1) = {}
    BY <1>1
  <2> QED
    BY <1>1, <1>3, <2>1, <2>2
<1>4. CASE tasks[t] = Absent
  <2>1. baseline'[t] = baseline[t]
    BY <1>1, <1>4
  <2>2. ASSUME baseline[t] = Absent PROVE \A m \in 1..(o + 1) : history'[m][t] = Absent
    BY <1>1, <1>2, <1>4, <2>2 DEF BaselineIsLastListed
  <2>3. ASSUME baseline[t] # Absent
        PROVE  \E m \in 1..(o + 1) : /\ history'[m][t] = baseline[t]
                                    /\ \A k \in (m + 1)..(o + 1) : history'[k][t] = Absent
    <3>1. PICK m \in 1..o : /\ history[m][t] = baseline[t]
                            /\ \A k \in (m + 1)..o : history[k][t] = Absent
      BY <2>3 DEF BaselineIsLastListed, LastListedAs
    <3>2. m \in 1..(o + 1)
          /\ \A k \in (m + 1)..(o + 1) : (k \in (m + 1)..o /\ k \in 1..o) \/ k = o + 1
      BY <1>1
    <3> QED
      BY <1>1, <1>4, <3>1, <3>2
  <2> QED
    BY <2>1, <2>2, <2>3
<1> QED
  BY <1>3, <1>4

\* Numbers, delivery and emitted events after an observation.
LEMMA ObserveKeepsOrder ==
  ASSUME OutboxTypeOK, EmittedInBounds, BatchIsOldest, SeqFollowsObservation, SettledIsPrefix,
         NEW tasks \in Listing, Observe("ok", tasks)
  PROVE  EmittedInBounds' /\ BatchIsOldest' /\ SeqFollowsObservation' /\ SettledIsPrefix'
<1> DEFINE new == Transitioned(tasks)
<1>1. PICK seqOf :
        /\ \A t \in new : seqOf[t] \in Nat /\ seqOf[t] > localSeq /\ seqOf[t] <= localSeq'
        /\ \A t, u \in new : seqOf[t] = seqOf[u] => t = u
        /\ outbox' = outbox \cup {seqOf[t] : t \in new}
        /\ emitted' = emitted \cup {NewEvent(seqOf, tasks, t) : t \in new}
  BY ObserveAppends
<1>2. /\ localSeq \in Nat /\ localSeq' \in Nat /\ localSeq <= localSeq'
      /\ observations \in Nat /\ observations' = observations + 1
  BY TransitionedFinite, LimitsAreNatural DEF Observe, OutboxTypeOK
<1>3. /\ \A e \in emitted : /\ e.seq \in Nat /\ e.seq <= localSeq /\ 1 <= e.seq
                           /\ e.obs \in Nat /\ e.obs <= observations /\ 1 <= e.obs
      /\ \A m \in outbox \cup batch : m \in Nat /\ m <= localSeq
  BY <1>2 DEF EmittedInBounds, OutboxTypeOK
<1> DEFINE Fresh(e) == \E t \in new : e = NewEvent(seqOf, tasks, t)
<1>4. \A e \in emitted' : e \in emitted \/ Fresh(e)
  BY <1>1
<1>5. \A e : Fresh(e) => /\ e.seq \in Nat /\ e.seq > localSeq /\ e.seq <= localSeq'
                        /\ e.obs = observations + 1
                        /\ e.seq \in outbox'
  BY <1>1 DEF NewEvent
<1>6. \A e, f : Fresh(e) /\ Fresh(f) /\ e.seq = f.seq => e = f
  BY <1>1 DEF NewEvent
<1> HIDE DEF Fresh, new
<1>7. EmittedInBounds'
  BY <1>2, <1>3, <1>4, <1>5 DEF EmittedInBounds
<1>8. BatchIsOldest'
  <2>1. batch' = batch
    BY DEF Observe
  <2>2. \A n \in outbox' : n \in outbox \/ n > localSeq
    BY <1>1
  <2> SUFFICES ASSUME NEW m \in batch, NEW n \in outbox', n < m
               PROVE  n \in batch
    BY <2>1 DEF BatchIsOldest
  <2>3. m \in Nat /\ m <= localSeq
    BY <1>3
  <2>4. n \in outbox
    <3>1. CASE n > localSeq
      <4>1. n \in Nat
        BY <1>1, <1>3
      <4> QED
        BY <1>2, <2>3, <3>1, <4>1
    <3> QED
      BY <2>2, <3>1
  <2> QED
    BY <2>4 DEF BatchIsOldest
<1>9. SeqFollowsObservation'
  <2> SUFFICES ASSUME NEW e \in emitted', NEW f \in emitted'
               PROVE  /\ e.seq = f.seq => e = f
                      /\ e.obs < f.obs => e.seq < f.seq
    BY DEF SeqFollowsObservation
  <2>1. CASE e \in emitted /\ f \in emitted
    BY <2>1 DEF SeqFollowsObservation
  <2>2. CASE e \in emitted /\ Fresh(f)
    BY <1>2, <1>3, <1>5, <2>2
  <2>3. CASE Fresh(e) /\ f \in emitted
    BY <1>2, <1>3, <1>5, <2>3
  <2>4. CASE Fresh(e) /\ Fresh(f)
    BY <1>2, <1>5, <1>6, <2>4
  <2> QED
    BY <1>4, <2>1, <2>2, <2>3, <2>4
<1>10. SettledIsPrefix'
  <2> SUFFICES ASSUME NEW e \in emitted', NEW f \in emitted', e.seq < f.seq, f.seq \notin outbox'
               PROVE  e.seq \notin outbox'
    BY DEF SettledIsPrefix
  <2>1. f \in emitted /\ f.seq \notin outbox
    BY <1>1, <1>4, <1>5
  <2>2. e.seq <= localSeq
    BY <1>2, <1>3, <1>4, <1>5, <2>1
  <2>3. e \in emitted
    BY <1>2, <1>4, <1>5, <2>2
  <2>4. e.seq \notin outbox
    BY <2>1, <2>3 DEF SettledIsPrefix
  <2>5. \A n \in outbox' : n \in outbox \/ n > localSeq
    BY <1>1
  <2> QED
    BY <1>2, <1>3, <2>2, <2>3, <2>4, <2>5
<1> QED
  BY <1>7, <1>8, <1>9, <1>10

\* The events remain the transitions of the longer history.
LEMMA ObserveKeepsTransitions ==
  ASSUME OutboxTypeOK, InitializedByFirst, BaselineIsLastListed, EmittedInBounds,
         EmittedAreTheTransitions, NEW tasks \in Listing, Observe("ok", tasks)
  PROVE  EmittedAreTheTransitions'
<1> DEFINE new == Transitioned(tasks)
           o   == observations
<1>1. PICK seqOf : emitted' = emitted \cup {NewEvent(seqOf, tasks, t) : t \in new}
  BY ObserveAppends
<1>2. /\ o \in Nat /\ observations' = o + 1
      /\ \A n \in 1..o : history'[n] = history[n]
      /\ history'[o + 1] = tasks
  BY ObserveWrites
<1>3. \A n \in 1..(o + 1) : n \in 1..o \/ n = o + 1
  BY <1>2
<1>4. \A n \in 1..o, t \in Tasks : TransitionAt(n, t)' <=> TransitionAt(n, t)
  BY OldTransitionsStay
<1>5. \A n : n = o + 1 => \A t \in Tasks : TransitionAt(n, t)' <=> t \in new
  BY NewTransitionsAreDetected
<1>6. \A e \in emitted : e.obs \in 1..o /\ e.task \in Tasks
  BY DEF EmittedInBounds, OutboxTypeOK, Event
<1>7. new \subseteq Tasks
  BY TransitionedFinite
<1>8. \A t \in new : LET e == NewEvent(seqOf, tasks, t)
                    IN  e.obs = o + 1 /\ e.task = t /\ e.status = tasks[t]
  BY DEF NewEvent
<1> HIDE DEF new, o
<1>9. ASSUME NEW n \in 1..(o + 1), NEW t \in Tasks, TransitionAt(n, t)'
      PROVE  \E e \in emitted' : e.obs = n /\ e.task = t /\ e.status = history'[n][t]
  <2>1. CASE n \in 1..o
    BY <1>1, <1>2, <1>4, <1>9, <2>1 DEF EmittedAreTheTransitions, o
  <2>2. CASE n = o + 1
    <3>1. t \in new
      BY <1>5, <1>9, <2>2
    <3> QED
      BY <1>1, <1>2, <1>8, <2>2, <3>1
  <2> QED
    BY <1>3, <2>1, <2>2
<1>10. ASSUME NEW e \in emitted'
       PROVE  TransitionAt(e.obs, e.task)' /\ e.status = history'[e.obs][e.task]
  <2>1. CASE e \in emitted
    <3>1. TransitionAt(e.obs, e.task) /\ e.status = history[e.obs][e.task]
      BY <2>1 DEF EmittedAreTheTransitions
    <3> QED
      BY <1>2, <1>4, <1>6, <2>1, <3>1
  <2>2. CASE e \notin emitted
    <3>1. PICK t \in new : e = NewEvent(seqOf, tasks, t)
      BY <1>1, <2>2
    <3>2. e.obs = o + 1 /\ e.task = t /\ e.status = tasks[t]
      BY <1>8, <3>1
    <3> QED
      BY <1>2, <1>5, <1>7, <3>2
  <2> QED
    BY <2>1, <2>2
<1>11. ASSUME NEW e \in emitted', NEW f \in emitted', e.obs = f.obs, e.task = f.task
       PROVE  e = f
  <2>1. CASE e \in emitted /\ f \in emitted
    BY <1>11, <2>1 DEF EmittedAreTheTransitions
  <2>2. \A g \in emitted' : g \in emitted \/ (g.obs = o + 1 /\ g = NewEvent(seqOf, tasks, g.task))
    BY <1>1, <1>8
  <2> QED
    BY <1>2, <1>6, <1>11, <2>1, <2>2
<1> QED
  BY <1>2, <1>9, <1>10, <1>11 DEF EmittedAreTheTransitions, o

\* Outbox.Observe preserves the whole invariant.
LEMMA ObserveKeepsIInv ==
  ASSUME IInv, NEW tasks \in Listing, Observe("ok", tasks)
  PROVE  IInv'
<1> USE DEF IInv
<1>1. OutboxTypeOK'
  BY ObserveKeepsTypes
<1>2. InitializedByFirst'
  <2>1. observations \in Nat /\ observations' = observations + 1 /\ initialized' = TRUE
    BY ObserveWrites
  <2> QED
    BY <2>1 DEF InitializedByFirst
<1>3. BaselineIsLastListed'
  BY ObserveKeepsBaseline
<1>4. EmittedInBounds' /\ BatchIsOldest' /\ SeqFollowsObservation' /\ SettledIsPrefix'
  BY ObserveKeepsOrder
<1>5. EmittedAreTheTransitions'
  BY ObserveKeepsTransitions
<1> QED
  BY <1>1, <1>2, <1>3, <1>4, <1>5

-----------------------------------------------------------------------------
(* The delivery loop.                                                       *)

\* Steps that leave the history and the emitted events alone keep every part
\* of the invariant that speaks of nothing else.
LEMMA DeliveryKeepsHistory ==
  ASSUME IInv,
         UNCHANGED <<initialized, baseline, localSeq, observations, history, emitted>>
  PROVE  /\ InitializedByFirst' /\ BaselineIsLastListed' /\ EmittedInBounds'
         /\ EmittedAreTheTransitions' /\ SeqFollowsObservation'
<1>1. \A n, t : TransitionAt(n, t)' <=> TransitionAt(n, t)
  BY DEF TransitionAt
<1>2. EmittedAreTheTransitions'
  BY <1>1 DEF IInv, EmittedAreTheTransitions
<1>3. BaselineIsLastListed'
  BY DEF IInv, BaselineIsLastListed, LastListedAs
<1>4. InitializedByFirst' /\ EmittedInBounds' /\ SeqFollowsObservation'
  BY DEF IInv, InitializedByFirst, EmittedInBounds, SeqFollowsObservation
<1> QED
  BY <1>2, <1>3, <1>4

\* The oldest PendingLimit rows are an initial part of the outbox.
LEMMA PendingIsOldest ==
  ASSUME OutboxTypeOK
  PROVE  Pending \subseteq outbox /\ \A m \in Pending, n \in outbox : n < m => n \in Pending
<1>1. Pending \subseteq outbox
  BY DEF Pending
<1>2. IsFiniteSet(outbox) /\ outbox \subseteq Nat
  <2>1. IsFiniteSet(1..localSeq) /\ outbox \subseteq 1..localSeq /\ 1..localSeq \subseteq Nat
    BY FS_Interval DEF OutboxTypeOK
  <2> QED
    BY <2>1, FS_Subset
<1>3. ASSUME NEW m \in Pending, NEW n \in outbox, n < m
      PROVE  n \in Pending
  <2> DEFINE Below(x) == {k \in outbox : k < x}
  <2>1. m \in outbox /\ Cardinality(Below(m)) < PendingLimit
    BY DEF Pending
  <2>2. Below(n) \subseteq Below(m)
    <3>1. \A k \in outbox : k \in Nat /\ (k < n => k < m)
      BY <1>2, <1>3, <2>1
    <3> QED
      BY <3>1
  <2>3. IsFiniteSet(Below(m)) /\ Below(m) \subseteq outbox
    BY <1>2, FS_Subset
  <2>4. /\ Cardinality(Below(n)) \in Nat /\ Cardinality(Below(m)) \in Nat
        /\ Cardinality(Below(n)) <= Cardinality(Below(m))
    <3>1. IsFiniteSet(Below(n))
      BY <2>2, <2>3, FS_Subset
    <3> QED
      BY <2>2, <2>3, <3>1, FS_Subset, FS_CardinalityType
  <2>5. Cardinality(Below(n)) < PendingLimit
    BY <2>1, <2>4, LimitsAreNatural
  <2> QED
    BY <2>5 DEF Pending
<1> QED
  BY <1>1, <1>3

\* Reading the pending rows takes the oldest part of the outbox as the batch.
LEMMA ReadPendingKeepsIInv == ASSUME IInv, ReadPending PROVE IInv'
<1> USE DEF ReadPending, durable, ghosts
<1>1. Pending \subseteq outbox /\ \A m \in Pending, n \in outbox : n < m => n \in Pending
  BY PendingIsOldest DEF IInv
<1>2. OutboxTypeOK'
  BY <1>1 DEF IInv, OutboxTypeOK
<1>3. BatchIsOldest'
  BY <1>1 DEF BatchIsOldest
<1>4. SettledIsPrefix'
  BY DEF IInv, SettledIsPrefix
<1> QED
  BY <1>2, <1>3, <1>4, DeliveryKeepsHistory DEF IInv

\* A successful upload keeps the batch for the acknowledgement.
LEMMA UploadSucceededKeepsIInv == ASSUME IInv, UploadSucceeded PROVE IInv'
<1> USE DEF UploadSucceeded, durable, ghosts
<1>1. OutboxTypeOK'
  BY DEF IInv, OutboxTypeOK
<1>2. BatchIsOldest' /\ SettledIsPrefix'
  BY DEF IInv, BatchIsOldest, SettledIsPrefix
<1> QED
  BY <1>1, <1>2, DeliveryKeepsHistory DEF IInv

\* A failed upload, a failed acknowledgement and a crash all forget the batch.
LEMMA ForgettingKeepsIInv ==
  ASSUME IInv, delivery' = "idle", batch' = {}, UNCHANGED <<durable, ghosts>>
  PROVE  IInv'
<1> USE DEF durable, ghosts
<1>1. OutboxTypeOK'
  BY DEF IInv, OutboxTypeOK
<1>2. BatchIsOldest' /\ SettledIsPrefix'
  BY DEF IInv, BatchIsOldest, SettledIsPrefix
<1> QED
  BY <1>1, <1>2, DeliveryKeepsHistory DEF IInv

\* Deleting the oldest part of the outbox leaves a prefix settled.
LEMMA AckKeepsIInv == ASSUME IInv, Ack PROVE IInv'
<1> USE DEF Ack, ghosts
<1>1. OutboxTypeOK'
  BY DEF IInv, OutboxTypeOK
<1>2. BatchIsOldest'
  BY DEF BatchIsOldest
<1>3. SettledIsPrefix'
  <2> SUFFICES ASSUME NEW e \in emitted, NEW f \in emitted, e.seq < f.seq,
                      f.seq \notin outbox \ batch, e.seq \in outbox \ batch
               PROVE  FALSE
    BY DEF SettledIsPrefix
  <2>1. f.seq \in outbox
    BY DEF IInv, SettledIsPrefix
  <2> QED
    BY <2>1 DEF IInv, BatchIsOldest
<1> QED
  BY <1>1, <1>2, <1>3, DeliveryKeepsHistory DEF IInv

\* Compaction touches only what is displayed.
LEMMA MaintainKeepsIInv == ASSUME IInv, NEW old, Maintain(old) PROVE IInv'
<1> USE DEF Maintain, ghosts
<1>1. OutboxTypeOK'
  BY DEF IInv, OutboxTypeOK
<1>2. BatchIsOldest' /\ SettledIsPrefix'
  BY DEF IInv, BatchIsOldest, SettledIsPrefix
<1> QED
  BY <1>1, <1>2, DeliveryKeepsHistory DEF IInv

-----------------------------------------------------------------------------
(* The theorems.                                                            *)

\* The invariant holds before the first snapshot.
LEMMA InitIInv == OutboxInit => IInv
<1> SUFFICES ASSUME OutboxInit PROVE IInv
  OBVIOUS
<1> USE DEF OutboxInit
<1>1. OutboxTypeOK
  <2>1. 1..0 = {} /\ observations \in 0..MaxObservations
    BY LimitsAreNatural
  <2> QED
    BY <2>1 DEF OutboxTypeOK
<1>2. InitializedByFirst /\ BaselineIsLastListed
  BY DEF InitializedByFirst, BaselineIsLastListed, LastListedAs
<1>3. EmittedInBounds /\ BatchIsOldest /\ SeqFollowsObservation /\ SettledIsPrefix
  BY DEF EmittedInBounds, BatchIsOldest, SeqFollowsObservation, SettledIsPrefix
<1>4. EmittedAreTheTransitions
  BY DEF EmittedAreTheTransitions
<1> QED
  BY <1>1, <1>2, <1>3, <1>4 DEF IInv

\* Every step of the agent keeps it.
LEMMA NextIInv == IInv /\ [OutboxNext]_outboxVars => IInv'
<1> SUFFICES ASSUME IInv, [OutboxNext]_outboxVars PROVE IInv'
  OBVIOUS
<1>1. ASSUME NEW tasks \in Listing, Observe("ok", tasks) PROVE IInv'
  BY <1>1, ObserveKeepsIInv
<1>2. CASE UNCHANGED outboxVars
  <2>1. UNCHANGED <<initialized, baseline, localSeq, observations, history, emitted>>
    BY <1>2 DEF outboxVars
  <2>2. OutboxTypeOK' /\ BatchIsOldest' /\ SettledIsPrefix'
    BY <1>2 DEF outboxVars, IInv, OutboxTypeOK, BatchIsOldest, SettledIsPrefix
  <2> QED
    BY <2>1, <2>2, DeliveryKeepsHistory DEF IInv
<1>3. ASSUME NEW health \in Health, ObserveNothing(health) PROVE IInv'
  BY <1>2, <1>3 DEF ObserveNothing
<1>4. ASSUME NEW old \in SUBSET display, Maintain(old) PROVE IInv'
  BY <1>4, MaintainKeepsIInv
<1>5. CASE ReadPending
  BY <1>5, ReadPendingKeepsIInv
<1>6. CASE UploadSucceeded
  BY <1>6, UploadSucceededKeepsIInv
<1>7. CASE UploadFailed
  BY <1>7, ForgettingKeepsIInv DEF UploadFailed
<1>8. CASE Ack
  BY <1>8, AckKeepsIInv
<1>9. CASE AckFailed
  BY <1>9, ForgettingKeepsIInv DEF AckFailed
<1>10. CASE Crash
  BY <1>10, ForgettingKeepsIInv DEF Crash
<1> QED
  BY <1>1, <1>2, <1>3, <1>4, <1>5, <1>6, <1>7, <1>8, <1>9, <1>10 DEF OutboxNext, ObserveStep

\* The inductive invariant holds in every reachable state of the outbox and
\* its two loops.
THEOREM Invariance == OutboxSpec => []IInv
  BY InitIInv, NextIInv, PTL DEF OutboxSpec

\* Every reachable outbox state has its type, for any tasks and bounds.
THEOREM TypeCorrect == OutboxSpec => []OutboxTypeOK
<1>1. IInv => OutboxTypeOK
  BY DEF IInv
<1> QED
  BY <1>1, Invariance, PTL

\* The agent emits one event for each change of a task into a terminal
\* status after the first trustworthy snapshot, and no other event, whatever
\* crashes, failed uploads, acknowledgements and compactions come between.
THEOREM EventsAreTransitions == OutboxSpec => []EmittedAreTheTransitions
<1>1. IInv => EmittedAreTheTransitions
  BY DEF IInv
<1> QED
  BY <1>1, Invariance, PTL

\* Rows are numbered once and in the order of the snapshots.
THEOREM NumbersFollowHistory == OutboxSpec => []SeqFollowsObservation
<1>1. IInv => SeqFollowsObservation
  BY DEF IInv
<1> QED
  BY <1>1, Invariance, PTL

\* Events leave the outbox strictly oldest first.
THEOREM SettledOldestFirst == OutboxSpec => []SettledIsPrefix
<1>1. IInv => SettledIsPrefix
  BY DEF IInv
<1> QED
  BY <1>1, Invariance, PTL

-----------------------------------------------------------------------------
(* The pipeline from the outbox to the Hub.                                *)

\* The Hub had event n in its table at some time.
Recorded(n) == \E x \in entries : x.id = n

\* Event n was emitted.
Emits(n) == \E e \in emitted : e.seq = n

\* Whatever was emitted before an event of U is in U or was recorded before.
LeavesNoGap(U) ==
  \A m \in U, e \in emitted : e.seq < m => e.seq \in U \/ Recorded(e.seq)

\* Once the Hub recorded the current upload, all its events are recorded.
HeldIsRecorded ==
  request = "recorded" \/ delivery = "acking" => \A n \in batch : Recorded(n)

\* Rows, batches and entries are of emitted events.
CarriesEmitted ==
  /\ \A n \in outbox \cup batch : Emits(n)
  /\ \A uploaded \in late : \A n \in uploaded : Emits(n)
  /\ \A x \in entries : Emits(x.id)

\* Every retained row is an entry, and entries are numbered up to lastSeq.
EntriesAreNumbered ==
  /\ lastSeq \in Nat
  /\ \A r \in rows : Hub!Entry(r) \in entries
  /\ \A x \in entries : x.seq \in Nat /\ x.seq <= lastSeq

LateLeavesNoGap == \A uploaded \in late : LeavesNoGap(uploaded)

\* When an event entered the feed, every earlier one was already there.
FeedIsOrderly ==
  \A e \in emitted, y \in entries :
    e.seq < y.id => \E z \in entries : z.id = e.seq /\ z.seq < y.seq

PInv ==
  /\ NothingLost
  /\ HeldIsRecorded
  /\ CarriesEmitted
  /\ EntriesAreNumbered
  /\ LateLeavesNoGap
  /\ FeedIsOrderly

-----------------------------------------------------------------------------
(* The agent of the pipeline is the agent of EventOutbox.                   *)

\* Every step of the pipeline is a step of the outbox and its loops, or
\* leaves them alone: whatever holds of OutboxSpec holds of the pipeline.
THEOREM PipelineRunsOutbox == PipelineSpec => OutboxSpec
<1>1. PipelineInit => OutboxInit
  BY DEF PipelineInit
<1>2. [PipelineNext]_vars => [OutboxNext]_outboxVars
  <2> SUFFICES ASSUME [PipelineNext]_vars PROVE [OutboxNext]_outboxVars
    OBVIOUS
  <2>1. CASE UNCHANGED vars
    BY <2>1 DEF vars
  <2>2. CASE Observes
    BY <2>2 DEF Observes, OutboxNext
  <2>3. CASE StartUpload
    BY <2>3 DEF StartUpload, OutboxNext
  <2>4. CASE HubRecords
    BY <2>4 DEF HubRecords
  <2>5. CASE ReplyArrives
    BY <2>5 DEF ReplyArrives, OutboxNext
  <2>6. CASE UploadFails
    BY <2>6 DEF UploadFails, OutboxNext
  <2>7. CASE LateRecords
    BY <2>7 DEF LateRecords
  <2>8. CASE Acks
    BY <2>8 DEF Acks, OutboxNext
  <2>9. CASE AckFails
    BY <2>9 DEF AckFails, OutboxNext
  <2>10. CASE AgentCrashes
    BY <2>10 DEF AgentCrashes, OutboxNext
  <2>11. CASE HubPrunes
    BY <2>11 DEF HubPrunes
  <2> QED
    BY <2>1, <2>2, <2>3, <2>4, <2>5, <2>6, <2>7, <2>8, <2>9, <2>10, <2>11 DEF PipelineNext
<1> QED
  BY <1>1, <1>2, PTL DEF PipelineSpec, OutboxSpec

\* The outbox's inductive invariant holds in every state of the pipeline.
LEMMA PipelineKeepsIInv == PipelineSpec => []IInv
  BY PipelineRunsOutbox, Invariance, PTL

\* Seen through the pipeline too, the events are the terminal transitions of
\* the snapshot history, whatever the network and the Hub do.
THEOREM PipelineEmitsTransitions == PipelineSpec => []EmittedAreTheTransitions
  BY PipelineRunsOutbox, EventsAreTransitions, PTL

-----------------------------------------------------------------------------
(* One upload the Hub records.                                              *)

\* HubEvents, instantiated, counts like FiniteSets.
LEMMA HubCounts == \A set : Hub!Cardinality(set) = Cardinality(set)
  BY DEF Hub!Cardinality, Cardinality

\* The numbers RecordEvents draws grow with the ids and lie beyond lastSeq.
LEMMA NumbersGrow ==
  ASSUME NEW uploaded, IsFiniteSet(uploaded), uploaded \subseteq Nat, lastSeq \in Nat
  PROVE  /\ Cardinality(uploaded) \in Nat
         /\ \A id \in uploaded : /\ Hub!SeqFor(id, uploaded) \in Nat
                                 /\ Hub!SeqFor(id, uploaded) > lastSeq
                                 /\ Hub!SeqFor(id, uploaded) <= lastSeq + Cardinality(uploaded)
         /\ \A id, k \in uploaded : id < k => Hub!SeqFor(id, uploaded) < Hub!SeqFor(k, uploaded)
<1>1. /\ Cardinality(uploaded) \in Nat
      /\ \A id \in uploaded : Cardinality({j \in uploaded : j <= id}) \in 1..Cardinality(uploaded)
      /\ \A id, k \in uploaded : id < k =>
           Cardinality({j \in uploaded : j <= id}) < Cardinality({j \in uploaded : j <= k})
  BY RanksGrow
<1>2. \A id \in uploaded :
        Hub!SeqFor(id, uploaded) = lastSeq + Cardinality({j \in uploaded : j <= id})
  BY HubCounts DEF Hub!SeqFor
<1> DEFINE rank(id) == Cardinality({j \in uploaded : j <= id})
<1>3. /\ Cardinality(uploaded) \in Nat
      /\ \A id \in uploaded : rank(id) \in 1..Cardinality(uploaded)
      /\ \A id, k \in uploaded : id < k => rank(id) < rank(k)
      /\ \A id \in uploaded : Hub!SeqFor(id, uploaded) = lastSeq + rank(id)
  BY <1>1, <1>2
<1> HIDE DEF rank
<1> QED
  BY <1>3

\* A recorded upload of emitted events that leaves no gap keeps the feed in
\* order, and afterwards all its events are recorded.
LEMMA RecordingKeepsOrder ==
  ASSUME IInv, PInv, NEW uploaded,
         \A n \in uploaded : Emits(n), LeavesNoGap(uploaded),
         Hub!RecordEvents(Agent, uploaded), UNCHANGED outboxVars
  PROVE  /\ \A n \in uploaded : Recorded(n)'
         /\ entries \subseteq entries'
         /\ \A x \in entries' : Emits(x.id)
         /\ EntriesAreNumbered'
         /\ FeedIsOrderly'
<1>1. IsFiniteSet(uploaded) /\ uploaded \subseteq Nat
  <2>1. uploaded \subseteq 1..localSeq /\ localSeq \in Nat
    BY DEF Emits, IInv, EmittedInBounds, OutboxTypeOK
  <2>2. IsFiniteSet(1..localSeq) /\ 1..localSeq \subseteq Nat
    BY <2>1, FS_Interval
  <2> QED
    BY <2>1, <2>2, FS_Subset
<1> DEFINE S(id) == Hub!SeqFor(id, uploaded)
           new == Hub!Fresh(uploaded)
<1>2. PICK received :
        rows' = rows \cup {[seq |-> S(id), agent |-> Agent, id |-> id,
                            received |-> received] : id \in new}
  BY DEF Hub!RecordEvents
<1>3. /\ lastSeq' = lastSeq + Cardinality(uploaded)
      /\ entries' = entries \cup {Hub!Entry(r) : r \in rows'}
  BY HubCounts DEF Hub!RecordEvents
<1> DEFINE E(id) == [seq |-> S(id), agent |-> Agent, id |-> id]
<1>4. entries' = entries \cup {E(id) : id \in new}
  <2>1. \A r \in rows : Hub!Entry(r) \in entries
    BY DEF PInv, EntriesAreNumbered
  <2>2. \A id \in new :
          LET r == [seq |-> S(id), agent |-> Agent, id |-> id, received |-> received]
          IN  r \in rows' /\ Hub!Entry(r) = E(id)
    BY <1>2 DEF Hub!Entry
  <2>3. \A r \in rows' : r \in rows \/ \E id \in new : Hub!Entry(r) = E(id)
    BY <1>2 DEF Hub!Entry
  <2> HIDE DEF new, E
  <2> QED
    BY <1>3, <2>1, <2>2, <2>3
<1>5. /\ new \subseteq uploaded
      /\ \A n \in uploaded : n \in new \/ Recorded(n)
  <2>1. \A n \in uploaded : n \notin new => \E r \in rows : r.id = n
    BY DEF Hub!Fresh
  <2>2. \A r \in rows : Recorded(r.id)
    BY DEF PInv, EntriesAreNumbered, Hub!Entry, Recorded
  <2> QED
    BY <2>1, <2>2 DEF Hub!Fresh
<1>6. /\ Cardinality(uploaded) \in Nat
      /\ \A id \in uploaded : S(id) \in Nat /\ S(id) > lastSeq /\ S(id) <= lastSeq'
      /\ \A id, k \in uploaded : id < k => S(id) < S(k)
      /\ lastSeq \in Nat /\ lastSeq' \in Nat /\ lastSeq <= lastSeq'
  <2>1. lastSeq \in Nat
    BY DEF PInv, EntriesAreNumbered
  <2>2. /\ Cardinality(uploaded) \in Nat
        /\ \A id \in uploaded : /\ S(id) \in Nat /\ S(id) > lastSeq
                                /\ S(id) <= lastSeq + Cardinality(uploaded)
        /\ \A id, k \in uploaded : id < k => S(id) < S(k)
    BY <1>1, <2>1, NumbersGrow
  <2> HIDE DEF S
  <2> QED
    BY <1>3, <2>1, <2>2
<1>7. \A id \in new : E(id) \in entries' /\ E(id).id = id /\ E(id).seq = S(id)
  BY <1>4
<1>8. \A x \in entries' : x \in entries \/ (x.id \in new /\ x = E(x.id) /\ x.seq = S(x.id))
  BY <1>4
<1> HIDE DEF new, S, E
<1>9. \A n \in uploaded : Recorded(n)'
  BY <1>4, <1>5, <1>7 DEF Recorded
<1>10. entries \subseteq entries'
  BY <1>4
<1>11. \A x \in entries' : Emits(x.id)
  BY <1>5, <1>8 DEF PInv, CarriesEmitted
<1>12. EntriesAreNumbered'
  <2>1. \A r \in rows' : Hub!Entry(r) \in entries'
    BY <1>3
  <2>2. ASSUME NEW x \in entries' PROVE x.seq \in Nat /\ x.seq <= lastSeq'
    <3>1. CASE x \in entries
      <4>1. x.seq \in Nat /\ x.seq <= lastSeq
        BY <3>1 DEF PInv, EntriesAreNumbered
      <4> QED
        BY <1>6, <4>1
    <3>2. CASE x \notin entries
      BY <1>5, <1>6, <1>8, <3>2
    <3> QED
      BY <3>1, <3>2
  <2>3. \A r : Hub!Entry(r)' = Hub!Entry(r)
    BY DEF Hub!Entry
  <2> QED
    BY <1>6, <2>1, <2>2 DEF EntriesAreNumbered, Hub!Entry
<1>13. FeedIsOrderly'
  <2> SUFFICES ASSUME NEW e \in emitted, NEW y \in entries', e.seq < y.id
               PROVE  \E z \in entries' : z.id = e.seq /\ z.seq < y.seq
    BY DEF FeedIsOrderly, outboxVars
  <2>1. CASE y \in entries
    BY <1>10, <2>1 DEF PInv, FeedIsOrderly
  <2>2. CASE y \notin entries
    <3>1. y.id \in uploaded /\ y.seq = S(y.id) /\ y.seq > lastSeq /\ y.seq \in Nat
      BY <1>5, <1>6, <1>8, <2>2
    <3>2. CASE Recorded(e.seq)
      <4>1. PICK z \in entries : z.id = e.seq
        BY <3>2 DEF Recorded
      <4>2. z.seq \in Nat /\ z.seq <= lastSeq
        BY DEF PInv, EntriesAreNumbered
      <4>3. z.seq < y.seq
        BY <1>6, <3>1, <4>2
      <4> QED
        BY <1>10, <4>1, <4>3
    <3>3. CASE ~ Recorded(e.seq)
      <4>1. e.seq \in uploaded
        BY <3>1, <3>3 DEF LeavesNoGap
      <4>2. e.seq \in new
        BY <1>5, <3>3, <4>1
      <4> QED
        BY <1>6, <1>7, <3>1, <4>1, <4>2
    <3> QED
      BY <3>2, <3>3
  <2> QED
    BY <2>1, <2>2
<1> QED
  BY <1>9, <1>10, <1>11, <1>12, <1>13

-----------------------------------------------------------------------------
(* The pipeline's own invariant.                                            *)

\* NothingLost, said with Recorded.
LEMMA LostMeansUnrecorded ==
  NothingLost <=> \A e \in emitted : e.seq \in outbox \/ Recorded(e.seq)
  BY DEF NothingLost, Published, Recorded

\* What the delivery loop holds is the oldest part of the outbox, so all
\* earlier events are in it or were recorded.
LEMMA BatchLeavesNoGap == ASSUME IInv, PInv PROVE LeavesNoGap(batch)
<1> SUFFICES ASSUME NEW m \in batch, NEW e \in emitted, e.seq < m, e.seq \notin batch
             PROVE  Recorded(e.seq)
  BY DEF LeavesNoGap
<1>1. e.seq \notin outbox
  BY DEF IInv, BatchIsOldest
<1> QED
  BY <1>1, LostMeansUnrecorded DEF PInv

\* The invariant holds before the first snapshot.
LEMMA InitPInv == PipelineInit => PInv
<1> SUFFICES ASSUME PipelineInit PROVE PInv
  OBVIOUS
<1> USE DEF PipelineInit, OutboxInit, Hub!HubInit
<1>1. NothingLost
  BY DEF NothingLost
<1>2. HeldIsRecorded /\ CarriesEmitted
  BY DEF HeldIsRecorded, CarriesEmitted
<1>3. EntriesAreNumbered
  BY DEF EntriesAreNumbered
<1>4. LateLeavesNoGap /\ FeedIsOrderly
  BY DEF LateLeavesNoGap, FeedIsOrderly
<1> QED
  BY <1>1, <1>2, <1>3, <1>4 DEF PInv

\* The observe loop and outbox maintenance add events to the outbox, with
\* numbers beyond all earlier ones.
LEMMA ObserveStepAdds ==
  ASSUME IInv, ObserveStep
  PROVE  /\ emitted \subseteq emitted' /\ outbox \subseteq outbox'
         /\ \A e \in emitted' : e \in emitted \/ (e.seq \in outbox' /\ e.seq > localSeq)
         /\ \A n \in outbox' : n \in outbox \/ \E e \in emitted' : e.seq = n
         /\ UNCHANGED <<batch, delivery>>
<1>1. ASSUME NEW tasks \in Listing, Observe("ok", tasks)
      PROVE  /\ emitted \subseteq emitted' /\ outbox \subseteq outbox'
             /\ \A e \in emitted' : e \in emitted \/ (e.seq \in outbox' /\ e.seq > localSeq)
             /\ \A n \in outbox' : n \in outbox \/ \E e \in emitted' : e.seq = n
             /\ UNCHANGED <<batch, delivery>>
  <2>1. PICK seqOf :
          /\ \A t \in Transitioned(tasks) : seqOf[t] \in Nat /\ seqOf[t] > localSeq
                                            /\ seqOf[t] <= localSeq'
          /\ outbox' = outbox \cup {seqOf[t] : t \in Transitioned(tasks)}
          /\ emitted' = emitted \cup {NewEvent(seqOf, tasks, t) : t \in Transitioned(tasks)}
    BY <1>1, ObserveAppends DEF IInv
  <2>2. \A t : NewEvent(seqOf, tasks, t).seq = seqOf[t]
    BY DEF NewEvent
  <2>3. UNCHANGED <<batch, delivery>>
    BY <1>1 DEF Observe
  <2> QED
    BY <2>1, <2>2, <2>3
<1>2. ASSUME UNCHANGED <<emitted, outbox, batch, delivery>>
      PROVE  /\ emitted \subseteq emitted' /\ outbox \subseteq outbox'
             /\ \A e \in emitted' : e \in emitted \/ (e.seq \in outbox' /\ e.seq > localSeq)
             /\ \A n \in outbox' : n \in outbox \/ \E e \in emitted' : e.seq = n
             /\ UNCHANGED <<batch, delivery>>
  BY <1>2
<1>3. ASSUME NEW health \in Health, ObserveNothing(health)
      PROVE  UNCHANGED <<emitted, outbox, batch, delivery>>
  BY <1>3 DEF ObserveNothing, outboxVars
<1>4. ASSUME NEW old \in SUBSET display, Maintain(old)
      PROVE  UNCHANGED <<emitted, outbox, batch, delivery>>
  BY <1>4 DEF Maintain, ghosts
<1> QED
  BY <1>1, <1>2, <1>3, <1>4 DEF ObserveStep

\* An observation leaves the feed as it is, and its events come after all
\* events on their way.
LEMMA ObservesKeepsPInv == ASSUME IInv, IInv', PInv, Observes PROVE PInv'
<1>1. /\ emitted \subseteq emitted' /\ outbox \subseteq outbox'
      /\ \A e \in emitted' : e \in emitted \/ (e.seq \in outbox' /\ e.seq > localSeq)
      /\ \A n \in outbox' : n \in outbox \/ \E e \in emitted' : e.seq = n
      /\ UNCHANGED <<batch, delivery>>
  BY ObserveStepAdds DEF Observes
<1>2. UNCHANGED <<rows, lastSeq, entries, request, late>>
  BY DEF Observes, hubVars, netVars
<1>3. \A n : Recorded(n)' <=> Recorded(n)
  BY <1>2 DEF Recorded
<1>4. \A n : Emits(n) => Emits(n)' /\ n <= localSeq /\ n \in Nat /\ localSeq \in Nat
  BY <1>1 DEF Emits, IInv, EmittedInBounds, OutboxTypeOK
<1>5. NothingLost'
  BY <1>1, <1>3, LostMeansUnrecorded DEF PInv, NothingLost, Published, Recorded
<1>6. HeldIsRecorded'
  BY <1>1, <1>2, <1>3 DEF PInv, HeldIsRecorded
<1>7. CarriesEmitted'
  <2>1. \A n \in outbox' \cup batch' : Emits(n)'
    BY <1>1, <1>4 DEF PInv, CarriesEmitted, Emits
  <2>2. /\ \A uploaded \in late' : \A n \in uploaded : Emits(n)'
        /\ \A x \in entries' : Emits(x.id)'
    BY <1>2, <1>4 DEF PInv, CarriesEmitted
  <2> QED
    BY <2>1, <2>2 DEF CarriesEmitted
<1>8. EntriesAreNumbered'
  BY <1>2 DEF PInv, EntriesAreNumbered, Hub!Entry
<1>9. \A n : \A e \in emitted' : e.seq < n /\ Emits(n) => e \in emitted
  <2> SUFFICES ASSUME NEW e \in emitted', NEW n, e.seq < n, Emits(n), e \notin emitted
               PROVE  FALSE
    OBVIOUS
  <2>1. e.seq > localSeq /\ n <= localSeq /\ n \in Nat /\ localSeq \in Nat
    BY <1>1, <1>4
  <2>2. e.seq \in Nat
    BY DEF IInv, EmittedInBounds
  <2> QED
    BY <2>1, <2>2
<1>10. LateLeavesNoGap'
  BY <1>2, <1>3, <1>9 DEF PInv, LateLeavesNoGap, LeavesNoGap, CarriesEmitted
<1>11. FeedIsOrderly'
  BY <1>2, <1>9 DEF PInv, FeedIsOrderly, CarriesEmitted
<1> QED
  BY <1>5, <1>6, <1>7, <1>8, <1>10, <1>11 DEF PInv

\* Steps of the loop and the network that record nothing: they read a batch,
\* give it up or leave it to arrive late.
LEMMA NetworkKeepsPInv ==
  ASSUME IInv, PInv, UNCHANGED <<hubVars, emitted, outbox>>,
         batch' \subseteq outbox \cup batch, late' \subseteq late \cup {batch},
         HeldIsRecorded'
  PROVE  PInv'
<1>1. (\A n : Recorded(n)' <=> Recorded(n)) /\ (\A n : Emits(n)' <=> Emits(n))
  BY DEF Recorded, Emits, hubVars
<1>2. NothingLost'
  BY DEF PInv, NothingLost, Published, hubVars
<1>3. CarriesEmitted'
  BY <1>1 DEF PInv, CarriesEmitted, hubVars
<1>4. EntriesAreNumbered'
  BY DEF PInv, EntriesAreNumbered, Hub!Entry, hubVars
<1>5. LateLeavesNoGap'
  <2>1. \A uploaded \in late' : LeavesNoGap(uploaded)
    BY BatchLeavesNoGap DEF PInv, LateLeavesNoGap
  <2> QED
    BY <1>1, <2>1 DEF LateLeavesNoGap, LeavesNoGap
<1>6. FeedIsOrderly'
  BY DEF PInv, FeedIsOrderly, hubVars
<1> QED
  BY <1>2, <1>3, <1>4, <1>5, <1>6 DEF PInv

\* Every batch given up is forgotten by the loop, or may arrive late.
LEMMA AbandonedLeaves == Abandoned => late' \subseteq late \cup {batch}
  BY DEF Abandoned

\* An upload recorded by the Hub, the current one or a late one.
LEMMA RecordingKeepsPInv ==
  ASSUME IInv, PInv, NEW uploaded,
         \A n \in uploaded : Emits(n), LeavesNoGap(uploaded),
         Hub!RecordEvents(Agent, uploaded), UNCHANGED outboxVars,
         late' \subseteq late, request' = "recorded" => request = "recorded" \/ uploaded = batch
  PROVE  PInv'
<1>1. /\ \A n \in uploaded : Recorded(n)'
      /\ entries \subseteq entries'
      /\ \A x \in entries' : Emits(x.id)
      /\ EntriesAreNumbered'
      /\ FeedIsOrderly'
  BY RecordingKeepsOrder
<1>2. UNCHANGED <<emitted, outbox, batch, delivery>>
  BY DEF outboxVars
<1>3. \A n : Recorded(n) => Recorded(n)'
  BY <1>1 DEF Recorded
<1>4. \A n : Emits(n)' <=> Emits(n)
  BY <1>2 DEF Emits
<1>5. NothingLost'
  BY <1>2, <1>3, LostMeansUnrecorded DEF PInv, NothingLost, Published, Recorded
<1>6. HeldIsRecorded'
  BY <1>1, <1>2, <1>3 DEF PInv, HeldIsRecorded
<1>7. CarriesEmitted'
  BY <1>1, <1>2, <1>4 DEF PInv, CarriesEmitted
<1>8. LateLeavesNoGap'
  BY <1>2, <1>3 DEF PInv, LateLeavesNoGap, LeavesNoGap
<1> QED
  BY <1>1, <1>5, <1>6, <1>7, <1>8 DEF PInv

\* An acknowledgement deletes only what the Hub recorded.
LEMMA AcksKeepsPInv == ASSUME IInv, PInv, Acks PROVE PInv'
<1>1. /\ outbox' = outbox \ batch /\ batch' = {} /\ delivery' = "idle" /\ delivery = "acking"
      /\ UNCHANGED <<emitted, rows, lastSeq, entries, request, late>>
  BY DEF Acks, Ack, ghosts, hubVars, netVars
<1>2. (\A n : Recorded(n)' <=> Recorded(n)) /\ (\A n : Emits(n)' <=> Emits(n))
  BY <1>1 DEF Recorded, Emits
<1>3. NothingLost'
  <2>1. \A n \in batch : Recorded(n)
    BY <1>1 DEF PInv, HeldIsRecorded
  <2>2. \A e \in emitted : e.seq \in outbox' \/ Recorded(e.seq)
    BY <1>1, <2>1, LostMeansUnrecorded DEF PInv
  <2> QED
    BY <1>1, <2>2 DEF NothingLost, Published, Recorded
<1>4. HeldIsRecorded' /\ CarriesEmitted'
  BY <1>1, <1>2 DEF PInv, HeldIsRecorded, CarriesEmitted
<1>5. EntriesAreNumbered'
  BY <1>1 DEF PInv, EntriesAreNumbered, Hub!Entry
<1>6. LateLeavesNoGap' /\ FeedIsOrderly'
  BY <1>1, <1>2 DEF PInv, LateLeavesNoGap, LeavesNoGap, FeedIsOrderly
<1> QED
  BY <1>3, <1>4, <1>5, <1>6 DEF PInv

\* Retention deletes rows and nothing else.
LEMMA HubPrunesKeepsPInv == ASSUME IInv, PInv, HubPrunes PROVE PInv'
<1>1. /\ rows' \subseteq rows
      /\ UNCHANGED <<emitted, outbox, batch, delivery, lastSeq, entries, request, late>>
  BY DEF HubPrunes, Hub!HubMaintenance, Hub!PruneStart, Hub!PruneBatch, Hub!PruneAborts,
         outboxVars, netVars
<1>2. (\A n : Recorded(n)' <=> Recorded(n)) /\ (\A n : Emits(n)' <=> Emits(n))
  BY <1>1 DEF Recorded, Emits
<1>3. NothingLost' /\ HeldIsRecorded' /\ CarriesEmitted'
  BY <1>1, <1>2 DEF PInv, NothingLost, Published, HeldIsRecorded, CarriesEmitted
<1>4. EntriesAreNumbered'
  BY <1>1 DEF PInv, EntriesAreNumbered, Hub!Entry
<1>5. LateLeavesNoGap' /\ FeedIsOrderly'
  BY <1>1, <1>2 DEF PInv, LateLeavesNoGap, LeavesNoGap, FeedIsOrderly
<1> QED
  BY <1>3, <1>4, <1>5 DEF PInv

\* Every step of the pipeline keeps the invariant.
LEMMA NextPInv == IInv /\ IInv' /\ PInv /\ [PipelineNext]_vars => PInv'
<1> SUFFICES ASSUME IInv, IInv', PInv, [PipelineNext]_vars PROVE PInv'
  OBVIOUS
<1>1. CASE UNCHANGED vars
  <2>1. UNCHANGED <<hubVars, emitted, outbox, batch, delivery, request, late>>
    BY <1>1 DEF vars, outboxVars, netVars
  <2>2. HeldIsRecorded'
    BY <2>1 DEF PInv, HeldIsRecorded, Recorded, hubVars
  <2> QED
    BY <2>1, <2>2, NetworkKeepsPInv
<1>2. CASE Observes
  BY <1>2, ObservesKeepsPInv
<1>3. CASE StartUpload
  <2>1. /\ batch' = Pending /\ delivery' = "sending" /\ request' = "sent"
        /\ UNCHANGED <<hubVars, emitted, outbox, late>>
    BY <1>3 DEF StartUpload, ReadPending, durable, ghosts
  <2>2. Pending \subseteq outbox
    BY DEF Pending
  <2>3. HeldIsRecorded'
    BY <2>1 DEF HeldIsRecorded
  <2> QED
    BY <2>1, <2>2, <2>3, NetworkKeepsPInv
<1>4. CASE HubRecords
  <2>1. /\ Hub!RecordEvents(Agent, batch) /\ UNCHANGED outboxVars /\ late' = late
    BY <1>4 DEF HubRecords
  <2>2. \A n \in batch : Emits(n)
    BY DEF PInv, CarriesEmitted
  <2> QED
    BY <2>1, <2>2, BatchLeavesNoGap, RecordingKeepsPInv
<1>5. CASE ReplyArrives
  <2>1. /\ request = "recorded" /\ batch' = batch
        /\ UNCHANGED <<hubVars, emitted, outbox, late>>
    BY <1>5 DEF ReplyArrives, UploadSucceeded, durable, ghosts
  <2>2. HeldIsRecorded'
    BY <2>1 DEF PInv, HeldIsRecorded, Recorded, hubVars
  <2> QED
    BY <2>1, <2>2, NetworkKeepsPInv
<1>6. ASSUME batch' = {}, delivery' = "idle", request' # "recorded",
             UNCHANGED <<hubVars, emitted, outbox>>, late' \subseteq late \cup {batch}
      PROVE  PInv'
  <2>1. HeldIsRecorded'
    BY <1>6 DEF HeldIsRecorded
  <2> QED
    BY <1>6, <2>1, NetworkKeepsPInv
<1>7. CASE UploadFails
  <2>1. /\ batch' = {} /\ delivery' = "idle" /\ request' = "none"
        /\ UNCHANGED <<hubVars, emitted, outbox>> /\ Abandoned
    BY <1>7 DEF UploadFails, UploadFailed, durable, ghosts
  <2> QED
    BY <1>6, <2>1, AbandonedLeaves
<1>8. CASE LateRecords
  <2>1. PICK uploaded \in late :
          /\ Hub!RecordEvents(Agent, uploaded) /\ late' = late \ {uploaded}
          /\ UNCHANGED <<outboxVars, request>>
    BY <1>8 DEF LateRecords
  <2>2. (\A n \in uploaded : Emits(n)) /\ LeavesNoGap(uploaded)
    BY DEF PInv, CarriesEmitted, LateLeavesNoGap
  <2> QED
    BY <2>1, <2>2, RecordingKeepsPInv
<1>9. CASE Acks
  BY <1>9, AcksKeepsPInv
<1>10. CASE AckFails
  <2>1. /\ batch' = {} /\ delivery' = "idle" /\ delivery = "acking"
        /\ UNCHANGED <<hubVars, emitted, outbox, request, late>>
    BY <1>10 DEF AckFails, AckFailed, durable, ghosts
  <2>2. HeldIsRecorded'
    BY <2>1 DEF HeldIsRecorded
  <2> QED
    BY <2>1, <2>2, NetworkKeepsPInv
<1>11. CASE AgentCrashes
  <2>1. /\ batch' = {} /\ delivery' = "idle" /\ request' = "none"
        /\ UNCHANGED <<hubVars, emitted, outbox>> /\ late' \subseteq late \cup {batch}
    BY <1>11, AbandonedLeaves DEF AgentCrashes, Crash, durable, ghosts
  <2> QED
    BY <1>6, <2>1
<1>12. CASE HubPrunes
  BY <1>12, HubPrunesKeepsPInv
<1> QED
  BY <1>1, <1>2, <1>3, <1>4, <1>5, <1>7, <1>8, <1>9, <1>10, <1>11, <1>12 DEF PipelineNext

\* The invariant holds in every reachable state of agent, network and Hub.
LEMMA PipelineKeepsPInv == PipelineSpec => []PInv
  BY InitPInv, NextPInv, PipelineKeepsIInv, PTL DEF PipelineSpec

\* An event that left the outbox has been in the Hub's table, for every number
\* of tasks and snapshots and whatever is refused, lost, late or restarted.
THEOREM NeverLost == PipelineSpec => []NothingLost
<1>1. PInv => NothingLost
  BY DEF PInv
<1> QED
  BY <1>1, PipelineKeepsPInv, PTL

\* The feed shows the events of the machine in the order it observed them.
THEOREM FeedInOrder == PipelineSpec => []FeedKeepsOrder
<1>1. PInv => FeedKeepsOrder
  BY DEF PInv, FeedIsOrderly, CarriesEmitted, Emits, FeedKeepsOrder
<1> QED
  BY <1>1, PipelineKeepsPInv, PTL

-----------------------------------------------------------------------------
(* The feed of the Hub implements the safety part of TaskEventFeed.         *)

\* Products of natural numbers, as far as the numbering of events needs them.
LEMMA Products ==
  /\ \A a, c \in Nat : a * c \in Nat
  /\ \A a, b, c \in Nat : a <= b => a * c <= b * c
  /\ \A a, c \in Nat : (a + 1) * c = a * c + c
<1>1. \A a, c \in Nat : a * c \in Nat
  BY SMT
<1>2. \A a, b, c \in Nat : a <= b => a * c <= b * c
  BY SMT
<1>3. \A a, c \in Nat : (a + 1) * c = a * c + c
  BY SMT
<1> QED
  BY <1>1, <1>2, <1>3

\* Each snapshot emits at most one event per task.
NumbersBounded == localSeq <= observations * Cardinality(Tasks)

\* The bound on event numbers is kept by every step of the outbox.
LEMMA OutboxKeepsNumbersBounded == OutboxSpec => []NumbersBounded
<1>1. OutboxInit => NumbersBounded
  <2>1. Cardinality(Tasks) \in Nat
    BY TasksFinite, FS_CardinalityType
  <2> QED
    BY <2>1, Products DEF OutboxInit, NumbersBounded
<1>2. IInv /\ NumbersBounded /\ [OutboxNext]_outboxVars => NumbersBounded'
  <2> SUFFICES ASSUME IInv, NumbersBounded, [OutboxNext]_outboxVars PROVE NumbersBounded'
    OBVIOUS
  <2>1. CASE UNCHANGED <<localSeq, observations>>
    BY <2>1 DEF NumbersBounded
  <2>2. ASSUME NEW tasks \in Listing, Observe("ok", tasks) PROVE NumbersBounded'
    <3>1. /\ localSeq' = localSeq + Cardinality(Transitioned(tasks))
          /\ observations' = observations + 1
      BY <2>2 DEF Observe
    <3>2. Transitioned(tasks) \subseteq Tasks
      BY DEF Transitioned
    <3>3. /\ Cardinality(Transitioned(tasks)) \in Nat /\ Cardinality(Tasks) \in Nat
          /\ Cardinality(Transitioned(tasks)) <= Cardinality(Tasks)
      BY <3>2, TasksFinite, FS_Subset, FS_CardinalityType
    <3>4. localSeq \in Nat /\ observations \in Nat
      BY LimitsAreNatural DEF IInv, OutboxTypeOK
    <3>5. /\ (observations + 1) * Cardinality(Tasks)
               = observations * Cardinality(Tasks) + Cardinality(Tasks)
          /\ observations * Cardinality(Tasks) \in Nat
      BY <3>3, <3>4, Products
    <3> QED
      BY <3>1, <3>3, <3>4, <3>5 DEF NumbersBounded
  <2>3. CASE ObserveStep
    <3>1. ASSUME NEW health \in Health, ObserveNothing(health) PROVE NumbersBounded'
      BY <2>1, <3>1 DEF ObserveNothing, outboxVars
    <3>2. ASSUME NEW old \in SUBSET display, Maintain(old) PROVE NumbersBounded'
      BY <2>1, <3>2 DEF Maintain, ghosts
    <3> QED
      BY <2>2, <2>3, <3>1, <3>2 DEF ObserveStep
  <2>4. CASE OutboxNext /\ ~ ObserveStep
    BY <2>1, <2>4 DEF OutboxNext, ReadPending, UploadSucceeded, UploadFailed, Ack, AckFailed,
                      Crash, durable, ghosts
  <2> QED
    BY <2>1, <2>3, <2>4 DEF outboxVars
<1> QED
  BY <1>1, <1>2, Invariance, PTL DEF OutboxSpec

\* Numbers up to a bounded last one stay within EventIds.
LEMMA BoundedAreEventIds ==
  ASSUME NEW last \in Nat, NEW n \in 0..MaxObservations, last <= n * Cardinality(Tasks)
  PROVE  1..last \subseteq EventIds
<1>1. Cardinality(Tasks) \in Nat
  BY TasksFinite, FS_CardinalityType
<1>2. /\ n * Cardinality(Tasks) \in Nat /\ MaxObservations * Cardinality(Tasks) \in Nat
      /\ n * Cardinality(Tasks) <= MaxObservations * Cardinality(Tasks)
  BY <1>1, LimitsAreNatural, Products
<1> QED
  BY <1>2 DEF EventIds

\* An observation appends to the log and publishes nothing.
LEMMA ObservesAppends ==
  ASSUME IInv, IInv', PInv, NumbersBounded', Observes PROVE Feed!Append
<1>1. /\ emitted \subseteq emitted'
      /\ \A e \in emitted' : e \in emitted \/ e.seq > localSeq
      /\ entries' = entries
  BY ObserveStepAdds DEF Observes, hubVars
<1>2. localSeq \in Nat /\ \A f \in emitted : f.seq \in 1..localSeq
  BY DEF IInv, EmittedInBounds, OutboxTypeOK
<1>3. \A e \in emitted' : e.seq \in EventIds /\ e.seq \in Nat
  <2>1. /\ localSeq' \in Nat /\ observations' \in 0..MaxObservations
        /\ localSeq' <= observations' * Cardinality(Tasks)
    BY DEF IInv, OutboxTypeOK, NumbersBounded
  <2>2. 1..localSeq' \subseteq EventIds
    BY <2>1, BoundedAreEventIds
  <2> QED
    BY <2>1, <2>2 DEF IInv, EmittedInBounds
<1>4. \A e \in emitted' \ emitted : \A f \in emitted : f.seq < e.seq
  BY <1>1, <1>2, <1>3
<1>5. \A x \in entries : x.id \in 1..localSeq
  BY <1>2 DEF PInv, CarriesEmitted, Emits
<1>6. Published' = Published
  BY <1>1, <1>2, <1>5 DEF Published
<1> QED
  BY <1>1, <1>3, <1>4, <1>6 DEF Feed!Append

\* When the feed grows, what it shows is the log up to some event.
LEMMA RecordingPublishes ==
  ASSUME IInv, PInv, PInv', entries \subseteq entries', emitted' = emitted,
         Published' # Published
  PROVE  Feed!Publish
<1>1. Published' = {e \in emitted : \E x \in entries' : x.id = e.seq}
  BY DEF Published
<1>2. Published \subseteq Published'
  BY <1>1 DEF Published
<1> DEFINE T == {e.seq : e \in Published' \ Published}
<1>3. T # {} /\ localSeq \in Nat /\ \A n \in T : n \in Nat /\ n <= localSeq
  BY <1>1, <1>2 DEF IInv, EmittedInBounds, OutboxTypeOK
<1>4. PICK top \in T : \A n \in T : n <= top
  <2> HIDE DEF T
  <2> QED
    BY <1>3, GreatestNumber
<1>5. PICK last \in Published' \ Published : last.seq = top
  OBVIOUS
<1>6. last \in emitted /\ last.seq \in Nat /\ \A e \in emitted : e.seq \in Nat
  BY <1>1, <1>5 DEF IInv, EmittedInBounds
<1>7. ASSUME NEW e \in Published' PROVE e.seq <= last.seq
  <2>1. CASE e \notin Published
    BY <1>4, <1>5, <2>1
  <2>2. CASE e \in Published
    <3>1. PICK y \in entries : y.id = e.seq
      BY <2>2 DEF Published
    <3>2. last.seq < e.seq => \E z \in entries : z.id = last.seq
      BY <1>6, <3>1 DEF PInv, FeedIsOrderly
    <3>3. ~ (last.seq < e.seq)
      BY <1>5, <1>6, <3>2 DEF Published
    <3> QED
      BY <1>1, <1>6, <3>3
  <2> QED
    BY <2>1, <2>2
<1>8. ASSUME NEW e \in emitted, e.seq <= last.seq PROVE e \in Published'
  <2>1. PICK y \in entries' : y.id = last.seq
    BY <1>1, <1>5
  <2>2. e.seq < last.seq => \E z \in entries' : z.id = e.seq
    BY <2>1 DEF PInv, FeedIsOrderly
  <2> QED
    BY <1>1, <1>6, <1>8, <2>1, <2>2
<1>9. Published' = {e \in emitted : e.seq <= last.seq}
  BY <1>1, <1>7, <1>8
<1> QED
  BY <1>5, <1>6, <1>9 DEF Feed!Publish

\* Every step of agent, network and Hub is a step of the abstract feed or
\* leaves log and feed alone.
LEMMA StepsAreFeedSteps ==
  IInv /\ IInv' /\ PInv /\ PInv' /\ NumbersBounded' /\ [PipelineNext]_vars
    => [Feed!Append \/ Feed!Publish]_(Feed!feedVars)
<1> SUFFICES ASSUME IInv, IInv', PInv, PInv', NumbersBounded', [PipelineNext]_vars
             PROVE  [Feed!Append \/ Feed!Publish]_(Feed!feedVars)
  OBVIOUS
<1>1. CASE UNCHANGED <<emitted, entries>>
  BY <1>1 DEF Feed!feedVars, Published
<1>2. CASE Observes
  BY <1>2, ObservesAppends
<1>3. ASSUME NEW uploaded, Hub!RecordEvents(Agent, uploaded), UNCHANGED outboxVars
      PROVE  [Feed!Append \/ Feed!Publish]_(Feed!feedVars)
  <2>1. entries \subseteq entries' /\ emitted' = emitted
    BY <1>3 DEF Hub!RecordEvents, outboxVars
  <2>2. CASE Published' = Published
    BY <2>1, <2>2 DEF Feed!feedVars
  <2>3. CASE Published' # Published
    BY <2>1, <2>3, RecordingPublishes
  <2> QED
    BY <2>2, <2>3
<1>4. CASE HubRecords
  BY <1>3, <1>4 DEF HubRecords
<1>5. CASE LateRecords
  BY <1>3, <1>5 DEF LateRecords
<1>6. CASE HubPrunes
  BY <1>1, <1>6 DEF HubPrunes, Hub!HubMaintenance, Hub!PruneStart, Hub!PruneBatch,
                    Hub!PruneAborts, outboxVars
<1>7. CASE StartUpload \/ ReplyArrives \/ UploadFails \/ Acks \/ AckFails \/ AgentCrashes
  BY <1>1, <1>7 DEF StartUpload, ReadPending, ReplyArrives, UploadSucceeded, UploadFails,
                    UploadFailed, Acks, Ack, AckFails, AckFailed, AgentCrashes, Crash,
                    ghosts, hubVars
<1>8. CASE UNCHANGED vars
  BY <1>1, <1>8 DEF vars, outboxVars, hubVars
<1> QED
  BY <1>2, <1>4, <1>5, <1>6, <1>7, <1>8 DEF PipelineNext

\* The Hub's feed is, at every moment and whatever fails, a gap-free prefix of
\* the machine's event log: the safety part of ImplementsFeed.
THEOREM PublishesPrefixes ==
  PipelineSpec => Feed!FeedInit /\ [][Feed!Append \/ Feed!Publish]_(Feed!feedVars)
<1>1. PipelineInit => Feed!FeedInit
  BY DEF PipelineInit, OutboxInit, Feed!FeedInit, Published
<1>2. PipelineSpec => []NumbersBounded
  BY PipelineRunsOutbox, OutboxKeepsNumbersBounded, PTL
<1> QED
  BY <1>1, <1>2, StepsAreFeedSteps, PipelineKeepsIInv, PipelineKeepsPInv, PTL
     DEF PipelineSpec
=============================================================================
