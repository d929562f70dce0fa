-------------------------- MODULE PhoneFeedProofs --------------------------
(***************************************************************************)
(* Proofs about the Hub's event table and the phone that reads it, for any *)
(* agents, events, retention policy and page size, with an orphaned thread *)
(* or without.                                                             *)
(*                                                                         *)
(* First HubEvents: how uploads number events and what pruning may take.   *)
(*                                                                         *)
(* Then PhoneFeed: the inductive invariant follows one synchronisation     *)
(* from its request to its page. What was uploaded since it began lies     *)
(* beyond what the Hub had numbered, what was pruned since is only         *)
(* missing.                                                                *)
(***************************************************************************)
EXTENDS PhoneFeed, NumberFacts

-----------------------------------------------------------------------------
(* The Hub's event table.                                                  *)

\* Every row is an entry of the feed, entries are numbered from 1 to lastSeq,
\* and no number is used twice, by an entry or by a row.
HubInv ==
  /\ lastSeq \in Nat /\ lastSeq <= MaxSeq
  /\ IsFiniteSet(rows)
  /\ \A r \in rows : Entry(r) \in entries
  /\ \A x \in entries : x.seq \in Nat \ {0} /\ x.seq <= lastSeq
  /\ \A x, y \in entries : x.seq = y.seq => x = y
  /\ \A r, q \in rows : r.seq = q.seq => r = q

\* What nothing but an upload that is recorded adds to the table is beyond
\* every number used before.
OnlyAddsBeyond ==
  /\ lastSeq <= lastSeq'
  /\ \A r \in rows' : r \in rows \/ r.seq > lastSeq

\* The empty table satisfies the invariant.
LEMMA InitHubInv == HubInit => HubInv
  BY FS_EmptySet, ClockBounds DEF HubInit, HubInv

\* Rows are numbered as their entries.
LEMMA RowNumbers ==
  ASSUME HubInv
  PROVE  \A r \in rows : r.seq \in Nat \ {0} /\ r.seq <= lastSeq
  BY DEF HubInv, Entry

\* The numbers an upload draws grow with the ids and lie beyond lastSeq.
LEMMA NumbersDrawn ==
  ASSUME NEW uploaded \in SUBSET EventIds, lastSeq \in Nat
  PROVE  /\ IsFiniteSet(uploaded) /\ Cardinality(uploaded) \in Nat
         /\ \A id \in uploaded : /\ SeqFor(id, uploaded) \in Nat
                                 /\ SeqFor(id, uploaded) > lastSeq
                                 /\ SeqFor(id, uploaded) <= lastSeq + Cardinality(uploaded)
         /\ \A id, k \in uploaded : SeqFor(id, uploaded) = SeqFor(k, uploaded) => id = k
<1>1. IsFiniteSet(uploaded) /\ uploaded \subseteq Nat
  BY EventIdsAreOrdered, FS_Subset
<1> DEFINE rank(id) == Cardinality({j \in uploaded : j <= id})
<1>2. /\ Cardinality(uploaded) \in Nat
      /\ \A id \in uploaded : rank(id) \in 1..Cardinality(uploaded)
      /\ \A id, k \in uploaded : id < k => rank(id) < rank(k)
  BY <1>1, RanksGrow
<1>3. \A id \in uploaded : SeqFor(id, uploaded) = lastSeq + rank(id)
  BY DEF SeqFor
<1> HIDE DEF rank
<1>4. \A id, k \in uploaded : rank(id) = rank(k) => id = k
  BY <1>1, <1>2
<1> QED
  BY <1>1, <1>2, <1>3, <1>4

\* RecordEvents keeps what there is and adds entries with new numbers, each
\* with its row.
LEMMA RecordingAddsBeyond ==
  ASSUME HubInv, NEW a, NEW uploaded \in SUBSET EventIds, RecordEvents(a, uploaded)
  PROVE  /\ HubInv' /\ OnlyAddsBeyond
         /\ rows \subseteq rows'
         /\ \A x \in entries' : x \in entries \/ x.seq \in Seqs(rows')
<1> DEFINE S(id) == SeqFor(id, uploaded)
           new == Fresh(uploaded)
<1>1. PICK received \in {t \in 0..now : now - t <= HandlerLag} :
        rows' = rows \cup {[seq |-> S(id), agent |-> a, id |-> id,
                            received |-> received] : id \in new}
  BY DEF RecordEvents
<1> DEFINE R(id) == [seq |-> S(id), agent |-> a, id |-> id, received |-> received]
<1>2. /\ lastSeq' = lastSeq + Cardinality(uploaded)
      /\ entries' = entries \cup {Entry(r) : r \in rows'}
      /\ lastSeq' <= MaxSeq
  BY DEF RecordEvents
<1>3. /\ IsFiniteSet(uploaded) /\ Cardinality(uploaded) \in Nat
      /\ \A id \in uploaded : S(id) \in Nat /\ S(id) > lastSeq /\ S(id) <= lastSeq'
      /\ \A id, k \in uploaded : S(id) = S(k) => id = k
      /\ lastSeq \in Nat /\ lastSeq' \in Nat /\ lastSeq <= lastSeq'
  <2>1. lastSeq \in Nat
    BY DEF HubInv
  <2>2. /\ IsFiniteSet(uploaded) /\ Cardinality(uploaded) \in Nat
        /\ \A id \in uploaded : S(id) \in Nat /\ S(id) > lastSeq
                                /\ S(id) <= lastSeq + Cardinality(uploaded)
        /\ \A id, k \in uploaded : S(id) = S(k) => id = k
    BY <2>1, NumbersDrawn
  <2> HIDE DEF S
  <2> QED
    BY <1>2, <2>1, <2>2
<1>4. new \subseteq uploaded
  BY DEF Fresh
<1>5. /\ rows' = rows \cup {R(id) : id \in new}
      /\ \A id \in new : R(id).seq = S(id)
  BY <1>1
<1>6. \A r \in rows : r.seq <= lastSeq /\ r.seq \in Nat
  BY RowNumbers
<1>7. \A r \in rows' : Entry(r) \in entries' /\ Entry(r).seq = r.seq
  BY <1>2 DEF Entry
<1>8. \A x \in entries' : x \in entries \/ \E id \in new : x = Entry(R(id))
  BY <1>2, <1>5 DEF HubInv
<1>9. IsFiniteSet(rows')
  <2>1. IsFiniteSet(new)
    BY <1>3, <1>4, FS_Subset
  <2> HIDE DEF new, R
  <2> DEFINE added == {R(id) : id \in new}
             f == [id \in new |-> R(id)]
  <2>2. IsFiniteSet(added)
    <3>1. f \in Surjection(new, added)
      BY DEF Surjection
    <3> HIDE DEF f, added
    <3> QED
      BY <2>1, <3>1, FS_Surjection
  <2> QED
    BY <1>5, <2>2, FS_Union DEF HubInv
<1>10. \A id \in new : R(id) \in rows' /\ Entry(R(id)).seq = S(id)
  BY <1>5 DEF Entry
<1> HIDE DEF S, R, new
<1>11. OnlyAddsBeyond
  BY <1>3, <1>4, <1>5 DEF OnlyAddsBeyond
<1>12. \A x \in entries' : x \in entries \/ x.seq \in Seqs(rows')
  BY <1>5, <1>8, <1>10 DEF Seqs
<1>13. \A x \in entries' : x.seq \in Nat \ {0} /\ x.seq <= lastSeq'
  BY <1>3, <1>4, <1>8, <1>10 DEF HubInv
<1>14. \A x, y \in entries' : x.seq = y.seq => x = y
  BY <1>3, <1>4, <1>8, <1>10 DEF HubInv
<1>15. \A r, q \in rows' : r.seq = q.seq => r = q
  BY <1>3, <1>4, <1>5, <1>6 DEF HubInv
<1>16. \A r \in rows' : Entry(r)' = Entry(r)
  BY DEF Entry
<1>17. HubInv'
  BY <1>2, <1>3, <1>7, <1>9, <1>13, <1>14, <1>15, <1>16 DEF HubInv, Entry
<1> QED
  BY <1>5, <1>11, <1>12, <1>17

\* The maintenance only takes rows.
LEMMA MaintenanceTakesRows ==
  ASSUME HubMaintenance
  PROVE  rows' \subseteq rows /\ UNCHANGED <<lastSeq, now, entries>>
  BY DEF HubMaintenance, PruneStart, PruneBatch, PruneAborts

\* Whatever happens at the Hub, the invariant stays and what is added is new.
LEMMA HubKeepsHubInv ==
  ASSUME HubInv, HubNext
  PROVE  HubInv' /\ OnlyAddsBeyond
<1>1. CASE Upload
  BY <1>1, RecordingAddsBeyond DEF Upload
<1>2. CASE HubMaintenance \/ Tick
  <2>1. rows' \subseteq rows /\ UNCHANGED <<lastSeq, entries>>
    BY <1>2, MaintenanceTakesRows DEF Tick
  <2>2. IsFiniteSet(rows')
    BY <2>1, FS_Subset DEF HubInv
  <2> QED
    BY <2>1, <2>2 DEF HubInv, OnlyAddsBeyond, Entry
<1> QED
  BY <1>1, <1>2 DEF HubNext

\* Every step keeps the types of the table and of the pruner.
LEMMA StepKeepsHubType ==
  ASSUME HubInv, HubTypeOK, HubNext
  PROVE  HubTypeOK'
<1>0. MaxTime \in Nat /\ MaxSeq \in Nat /\ MaxAge \in Nat /\ now \in 0..MaxTime
  BY ClockBounds DEF HubTypeOK
<1>1. CASE Upload
  <2>1. PICK a \in Agents, uploaded \in SUBSET EventIds : RecordEvents(a, uploaded)
    BY <1>1 DEF Upload
  <2>2. PICK received \in 0..now :
          rows' = rows \cup {[seq |-> SeqFor(id, uploaded), agent |-> a, id |-> id,
                              received |-> received] : id \in Fresh(uploaded)}
    BY <2>1 DEF RecordEvents
  <2>3. Cardinality(uploaded) \in Nat /\ lastSeq \in Nat
        /\ lastSeq + Cardinality(uploaded) <= MaxSeq
    BY <2>1, NumbersDrawn DEF HubInv, RecordEvents
  <2>4. \A id \in uploaded : SeqFor(id, uploaded) \in 1..MaxSeq
    BY <1>0, <2>3, NumbersDrawn
  <2>5. received \in 0..MaxTime /\ Fresh(uploaded) \subseteq uploaded
    BY <1>0 DEF Fresh
  <2>6. rows' \subseteq Row
    BY <2>2, <2>4, <2>5 DEF HubTypeOK, Row
  <2>7. {Entry(r) : r \in rows'} \subseteq [seq : 1..MaxSeq, agent : Agents, id : EventIds]
    BY <2>6 DEF Entry, Row
  <2>8. lastSeq' \in 0..MaxSeq
    BY <1>0, <2>1, <2>3 DEF RecordEvents
  <2> QED
    BY <2>1, <2>6, <2>7, <2>8 DEF RecordEvents, HubTypeOK
<1>2. CASE Tick
  <2>1. now' \in 0..MaxTime
    BY <1>0, <1>2 DEF Tick
  <2> QED
    BY <1>2, <2>1 DEF Tick, HubTypeOK
<1>3. CASE HubMaintenance
  <2>1. rows' \subseteq rows /\ UNCHANGED <<lastSeq, now, entries>>
    BY <1>3, MaintenanceTakesRows
    DEF HubMaintenance, PruneStart, PruneBatch, PruneAborts
  <2>2. pruner' \in [agent : Agents \cup {NoAgent}, todo : SUBSET Agents, cutoff : Int]
    <3>1. CASE PruneStart
      <4>1. {r.agent : r \in rows} \subseteq Agents /\ now - MaxAge \in Int
        BY <1>0 DEF HubTypeOK, Row
      <4> QED
        BY <3>1, <4>1 DEF PruneStart
    <3>2. CASE PruneBatch
      <4>1. \/ pruner' = pruner \/ pruner' = IdlePruner
            \/ \E b \in pruner.todo :
                 pruner' = [pruner EXCEPT !.agent = b, !.todo = pruner.todo \ {b}]
        BY <3>2 DEF PruneBatch
      <4>2. pruner \in [agent : Agents \cup {NoAgent}, todo : SUBSET Agents, cutoff : Int]
        BY DEF HubTypeOK
      <4>3. ASSUME NEW b \in pruner.todo,
                   pruner' = [pruner EXCEPT !.agent = b, !.todo = pruner.todo \ {b}]
            PROVE  pruner' \in [agent : Agents \cup {NoAgent}, todo : SUBSET Agents,
                                cutoff : Int]
        <5>1. pruner.todo \subseteq Agents /\ b \in Agents
          BY <4>2
        <5> QED
          BY <4>2, <4>3, <5>1
      <4>4. IdlePruner \in [agent : Agents \cup {NoAgent}, todo : SUBSET Agents,
                            cutoff : Int]
        BY DEF IdlePruner
      <4> QED
        BY <4>1, <4>2, <4>3, <4>4
    <3>3. CASE PruneAborts
      BY <3>3 DEF PruneAborts, IdlePruner
    <3> QED
      BY <1>3, <3>1, <3>2, <3>3 DEF HubMaintenance
  <2> QED
    BY <2>1, <2>2 DEF HubTypeOK
<1> QED
  BY <1>1, <1>2, <1>3 DEF HubNext

-----------------------------------------------------------------------------
(* Counting rows.                                                           *)

\* Sets of rows are finite.
LEMMA RowCounts ==
  ASSUME HubInv, NEW R, R \subseteq rows
  PROVE  IsFiniteSet(R) /\ Cardinality(R) \in Nat
<1>1. IsFiniteSet(R)
  BY FS_Subset DEF HubInv
<1> QED
  BY <1>1, FS_CardinalityType

\* A part of a set of rows is no larger, and smaller when something is missing.
LEMMA PartCounts ==
  ASSUME HubInv, NEW R, R \subseteq rows, NEW Q, Q \subseteq R
  PROVE  /\ IsFiniteSet(Q) /\ Cardinality(Q) \in Nat
         /\ Cardinality(Q) <= Cardinality(R)
         /\ Q # R => Cardinality(Q) < Cardinality(R)
         /\ IsFiniteSet(R \ Q)
         /\ Cardinality(R \ Q) = Cardinality(R) - Cardinality(Q)
<1>1. IsFiniteSet(R) /\ Cardinality(R) \in Nat
  BY RowCounts
<1>2. /\ IsFiniteSet(Q) /\ Cardinality(Q) <= Cardinality(R)
      /\ Cardinality(R) = Cardinality(Q) => R = Q
  BY <1>1, FS_Subset
<1>3. Cardinality(Q) \in Nat
  BY <1>2, FS_CardinalityType
<1>4. /\ IsFiniteSet(R \ Q)
      /\ Cardinality(R \ Q) = Cardinality(R) - Cardinality(R \cap Q) /\ R \cap Q = Q
  BY <1>1, FS_Difference
<1> QED
  BY <1>1, <1>2, <1>3, <1>4

\* There is a row with exactly k rows up to it, whatever k.
LEMMA KthRow ==
  ASSUME HubInv, NEW R, R \subseteq rows, NEW k \in 1..Cardinality(R)
  PROVE  \E q \in R : Cardinality({r \in R : r.seq <= q.seq}) = k
<1> DEFINE upTo(n) == {r \in R : r.seq <= n}
           T == {n \in Nat : k <= Cardinality(upTo(n))}
<1>1. /\ \A r \in R : r.seq \in Nat \ {0} /\ r.seq <= lastSeq
      /\ \A r, q \in R : r.seq = q.seq => r = q
      /\ lastSeq \in Nat
  BY RowNumbers DEF HubInv
<1>2. Cardinality(R) \in Nat /\ k \in Nat /\ k # 0 /\ k <= Cardinality(R)
  BY RowCounts
<1>3. \A n : IsFiniteSet(upTo(n)) /\ Cardinality(upTo(n)) \in Nat
  <2>1. \A n : upTo(n) \subseteq R
    OBVIOUS
  <2> HIDE DEF upTo
  <2> QED
    BY <2>1, PartCounts
<1>4. lastSeq \in T
  <2>1. upTo(lastSeq) = R
    BY <1>1
  <2> HIDE DEF upTo
  <2> QED
    BY <1>1, <1>2, <2>1
<1>5. PICK m \in T : \A n \in T : m <= n
  <2>1. T \subseteq Nat /\ T # {}
    BY <1>4
  <2> HIDE DEF T
  <2> QED
    BY <2>1, LeastNumber
<1>6. m \in Nat /\ k <= Cardinality(upTo(m))
  BY <1>5
<1>7. m # 0
  <2> SUFFICES ASSUME m = 0 PROVE FALSE
    OBVIOUS
  <2>1. upTo(m) = {}
    BY <1>1
  <2> HIDE DEF upTo
  <2>2. Cardinality(upTo(m)) = 0
    BY <2>1, FS_EmptySet
  <2> QED
    BY <1>2, <1>6, <2>2
<1>8. Cardinality(upTo(m - 1)) < k
  <2>1. m - 1 \in Nat /\ m - 1 \notin T
    BY <1>5, <1>6, <1>7
  <2> HIDE DEF upTo
  <2> QED
    BY <1>2, <1>3, <2>1
<1>9. PICK q \in R : q.seq = m
  <2> SUFFICES ASSUME \A q \in R : q.seq # m PROVE FALSE
    OBVIOUS
  <2>1. upTo(m) = upTo(m - 1)
    BY <1>1, <1>6
  <2> HIDE DEF upTo
  <2> QED
    BY <1>2, <1>3, <1>6, <1>8, <2>1
<1>10. upTo(m) = upTo(m - 1) \cup {q} /\ q \notin upTo(m - 1)
  BY <1>1, <1>6, <1>9
<1>11. upTo(q.seq) = upTo(m)
  BY <1>9
<1> HIDE DEF upTo
<1>12. Cardinality(upTo(m)) = Cardinality(upTo(m - 1)) + 1
  BY <1>3, <1>10, FS_AddElement
<1>13. Cardinality(upTo(m)) = k
  BY <1>2, <1>3, <1>6, <1>8, <1>12
<1> QED
  BY <1>11, <1>13 DEF upTo

\* And one with exactly k rows from it on.
LEMMA KthRowFromTop ==
  ASSUME HubInv, NEW R, R \subseteq rows, NEW k \in 1..Cardinality(R)
  PROVE  \E q \in R : Cardinality({r \in R : r.seq >= q.seq}) = k
<1>1. Cardinality(R) \in Nat
  BY RowCounts
<1>2. Cardinality(R) - k + 1 \in 1..Cardinality(R)
  BY <1>1
<1>3. PICK q \in R : Cardinality({r \in R : r.seq <= q.seq}) = Cardinality(R) - k + 1
  BY <1>2, KthRow
<1> DEFINE low == {r \in R : r.seq <= q.seq}
<1>4. /\ {r \in R : r.seq >= q.seq} = (R \ low) \cup {q}
      /\ q \notin R \ low /\ low \subseteq R
  BY RowNumbers DEF HubInv
<1> HIDE DEF low
<1>5. Cardinality(R \ low) = k - 1 /\ IsFiniteSet(R \ low)
  <2>1. Cardinality(low) = Cardinality(R) - k + 1
    BY <1>3 DEF low
  <2>2. Cardinality(R \ low) = Cardinality(R) - Cardinality(low) /\ IsFiniteSet(R \ low)
    BY <1>4, PartCounts
  <2> QED
    BY <1>1, <2>1, <2>2
<1>6. Cardinality((R \ low) \cup {q}) = k
  <2>1. Cardinality((R \ low) \cup {q}) = Cardinality(R \ low) + 1
    BY <1>4, <1>5, FS_AddElement
  <2> QED
    BY <1>1, <1>5, <2>1
<1> QED
  BY <1>4, <1>6

\* The first rows are closed downwards: a row before one of them is one of them.
LEMMA FirstRowsFirst ==
  ASSUME HubInv, NEW R, R \subseteq rows, NEW n \in Nat,
         NEW q \in FirstRows(R, n), NEW r \in R, r.seq <= q.seq
  PROVE  r \in FirstRows(R, n)
<1> DEFINE before(x) == {p \in R : p.seq < x.seq}
<1>1. before(r) \subseteq before(q)
  <2>1. \A p \in R : p.seq \in Nat
    BY RowNumbers
  <2>2. q \in R
    BY DEF FirstRows
  <2> QED
    BY <2>1, <2>2
<1>2. IsFiniteSet(before(q))
  <2>1. before(q) \subseteq rows
    OBVIOUS
  <2> HIDE DEF before
  <2> QED
    BY <2>1, FS_Subset DEF HubInv
<1>3. Cardinality(before(q)) < n
  BY DEF FirstRows
<1> HIDE DEF before
<1>4. Cardinality(before(r)) <= Cardinality(before(q)) /\ IsFiniteSet(before(r))
  BY <1>1, <1>2, FS_Subset
<1>5. Cardinality(before(r)) < n
  BY <1>2, <1>3, <1>4, FS_CardinalityType
<1> QED
  BY <1>5 DEF FirstRows, before

\* The first n rows of a set are n rows, or all of them when there are fewer.
LEMMA FirstRowsCount ==
  ASSUME HubInv, NEW R, R \subseteq rows, NEW n \in Nat \ {0}
  PROVE  Cardinality(FirstRows(R, n)) = n \/ FirstRows(R, n) = R
<1> DEFINE before(r) == {p \in R : p.seq < r.seq}
<1>0. Cardinality(R) \in Nat
  BY RowCounts
<1>1. CASE Cardinality(R) < n
  <2>1. \A r \in R : before(r) \subseteq R
    OBVIOUS
  <2> HIDE DEF before
  <2>2. \A r \in R : Cardinality(before(r)) \in Nat /\ Cardinality(before(r)) <= Cardinality(R)
    BY <2>1, PartCounts
  <2>3. \A r \in R : Cardinality(before(r)) < n
    BY <1>0, <1>1, <2>2
  <2> QED
    BY <2>3 DEF FirstRows, before
<1>2. CASE n <= Cardinality(R)
  <2>1. n \in 1..Cardinality(R)
    BY <1>0, <1>2
  <2>2. PICK q \in R : Cardinality({r \in R : r.seq <= q.seq}) = n
    BY <2>1, KthRow
  <2> DEFINE first == {r \in R : r.seq <= q.seq}
  <2>3. \A r \in R : r.seq \in Nat
    BY RowNumbers
  <2>4. first \subseteq R /\ Cardinality(first) = n
    BY <2>2
  <2>5. ASSUME NEW r \in first PROVE Cardinality(before(r)) < n
    <3>1. before(r) \subseteq first /\ r \in first /\ r \notin before(r) /\ first \subseteq rows
      BY <2>3, <2>4
    <3> HIDE DEF before, first
    <3>2. before(r) # first
      BY <3>1
    <3>3. Cardinality(before(r)) < Cardinality(first)
      BY <3>1, <3>2, PartCounts
    <3> QED
      BY <2>4, <3>3
  <2>6. ASSUME NEW r \in R \ first PROVE ~ (Cardinality(before(r)) < n)
    <3>1. first \subseteq before(r) /\ before(r) \subseteq rows
      BY <2>3, <2>4
    <3> HIDE DEF before, first
    <3>2. Cardinality(first) <= Cardinality(before(r)) /\ Cardinality(before(r)) \in Nat
      BY <3>1, PartCounts
    <3> QED
      BY <2>4, <3>2
  <2> HIDE DEF first
  <2>7. FirstRows(R, n) = first
    BY <2>4, <2>5, <2>6 DEF FirstRows
  <2> QED
    BY <2>4, <2>7
<1> QED
  BY <1>0, <1>1, <1>2

-----------------------------------------------------------------------------
(* What pruning takes.                                                      *)

\* pruneAgentBatch's OFFSET queries: above ForceDeleteThrough are MaxEvents
\* rows, or all when there are no more.
LEMMA CapKeeps ==
  ASSUME HubInv, NEW a
  PROVE  LET F == ForceDeleteThrough(a)
             count == Cardinality(RowsOf(a))
             above == Cardinality({r \in RowsOf(a) : r.seq > F})
         IN  /\ F \in Nat
             /\ count > MaxEvents => above = MaxEvents
             /\ ~ (count > MaxEvents) => F = 0
             /\ above <= MaxEvents
<1> DEFINE R == RowsOf(a)
           F == ForceDeleteThrough(a)
           below == {r \in R : r.seq <= F}
           above == {r \in R : r.seq > F}
<1>1. R \subseteq rows /\ Cardinality(R) \in Nat /\ MaxEvents \in Nat \ {0}
  BY RowCounts, PolicyValid DEF RowsOf
<1>2. CASE Cardinality(R) > MaxEvents
  <2> DEFINE k == Cardinality(R) - MaxEvents
  <2>1. k \in 1..Cardinality(R)
    BY <1>1, <1>2
  <2>2. \E s \in Seqs(R) : Cardinality({r \in R : r.seq <= s}) = k
    <3>1. PICK q \in R : Cardinality({r \in R : r.seq <= q.seq}) = k
      BY <1>1, <2>1, KthRow
    <3> QED
      BY <3>1 DEF Seqs
  <2>3. F \in Seqs(R) /\ Cardinality(below) = k
    BY <1>2, <2>2 DEF ForceDeleteThrough
  <2>4. F \in Nat
    BY <1>1, <2>3, RowNumbers DEF Seqs
  <2>5. above = R \ below /\ below \subseteq R
    BY <1>1, <2>4, RowNumbers
  <2> HIDE DEF R, F, below, above
  <2>6. Cardinality(above) = Cardinality(R) - Cardinality(below)
    BY <1>1, <2>5, PartCounts
  <2>7. Cardinality(above) = MaxEvents
    BY <1>1, <2>3, <2>6
  <2> QED
    BY <1>1, <1>2, <2>4, <2>7 DEF R, F, above
<1>3. CASE ~ (Cardinality(R) > MaxEvents)
  <2>1. F = 0
    BY <1>3 DEF ForceDeleteThrough
  <2>2. above \subseteq R
    OBVIOUS
  <2> HIDE DEF R, F, above
  <2>3. Cardinality(above) <= Cardinality(R) /\ Cardinality(above) \in Nat
    BY <1>1, <2>2, PartCounts
  <2>4. Cardinality(above) <= MaxEvents
    BY <1>1, <1>3, <2>3
  <2> QED
    BY <1>3, <2>1, <2>4 DEF R, F, above
<1> QED
  BY <1>2, <1>3

\* From MinKeepSeq on are MinEvents rows, when there are more of them.
LEMMA MinimumKeeps ==
  ASSUME HubInv, NEW a
  PROVE  LET K == MinKeepSeq(a)
             count == Cardinality(RowsOf(a))
         IN  /\ K \in Nat
             /\ MinEvents = 0 => K = MaxSeq + 1
             /\ MinEvents > 0 /\ count > MinEvents =>
                  Cardinality({r \in RowsOf(a) : r.seq >= K}) = MinEvents
             /\ MinEvents > 0 /\ ~ (count > MinEvents) => K = 0
<1> DEFINE R == RowsOf(a)
<1>1. R \subseteq rows /\ Cardinality(R) \in Nat /\ MinEvents \in Nat /\ MaxSeq \in Nat
  BY RowCounts, PolicyValid, ClockBounds DEF RowsOf
<1>2. CASE MinEvents = 0
  BY <1>1, <1>2 DEF MinKeepSeq
<1>3. CASE MinEvents > 0 /\ Cardinality(R) > MinEvents
  <2>1. MinEvents \in 1..Cardinality(R)
    BY <1>1, <1>3
  <2>2. \E s \in Seqs(R) : Cardinality({r \in R : r.seq >= s}) = MinEvents
    <3>1. PICK q \in R : Cardinality({r \in R : r.seq >= q.seq}) = MinEvents
      BY <1>1, <2>1, KthRowFromTop
    <3> QED
      BY <3>1 DEF Seqs
  <2>3. /\ MinKeepSeq(a) \in Seqs(R)
        /\ Cardinality({r \in R : r.seq >= MinKeepSeq(a)}) = MinEvents
    BY <1>1, <1>3, <2>2 DEF MinKeepSeq
  <2>4. MinKeepSeq(a) \in Nat
    BY <1>1, <2>3, RowNumbers DEF Seqs
  <2> QED
    BY <1>1, <1>3, <2>3, <2>4
<1>4. CASE MinEvents > 0 /\ ~ (Cardinality(R) > MinEvents)
  BY <1>1, <1>4 DEF MinKeepSeq
<1> QED
  BY <1>1, <1>2, <1>3, <1>4

\* Nothing prunable is among the newest MinEvents rows: a row the cap forces
\* out has MaxEvents rows after it, one pruned by age all the protected ones.
LEMMA PruningSparesNewest ==
  ASSUME HubInv, NEW a, NEW r \in Prunable(a)
  PROVE  r \notin NewestRows(RowsOf(a), MinEvents)
<1> DEFINE R == RowsOf(a)
           F == ForceDeleteThrough(a)
           K == MinKeepSeq(a)
           newer == {q \in R : q.seq > r.seq}
           above == {q \in R : q.seq > F}
           protected == {q \in R : q.seq >= K}
<1>1. /\ R \subseteq rows /\ r \in R
      /\ MinEvents \in Nat /\ MaxEvents \in Nat /\ MaxEvents >= MinEvents
  BY PolicyValid DEF RowsOf, Prunable
<1>2. /\ F \in Nat /\ K \in Nat
      /\ Cardinality(above) = MaxEvents \/ F = 0
  BY CapKeeps, MinimumKeeps
<1>3. MinEvents = 0 \/ Cardinality(protected) = MinEvents \/ K = 0
  BY <1>1, MinimumKeeps
<1>4. r.seq \in Nat \ {0} /\ \A q \in R : q.seq \in Nat
  BY <1>1, RowNumbers
<1>5. r.seq <= F \/ r.seq < K
  BY DEF Prunable
<1>6. newer \subseteq R
  OBVIOUS
<1>7. Cardinality(newer) >= MinEvents
  <2>1. CASE MinEvents = 0
    <3> HIDE DEF newer, R
    <3>1. Cardinality(newer) \in Nat
      BY <1>1, <1>6, PartCounts
    <3> QED
      BY <2>1, <3>1
  <2>2. CASE r.seq <= F
    <3>1. above \subseteq newer /\ F # 0
      BY <1>2, <1>4, <2>2
    <3> HIDE DEF above, newer, R
    <3>2. newer \subseteq rows
      BY <1>1, <1>6
    <3>3. Cardinality(above) <= Cardinality(newer) /\ Cardinality(newer) \in Nat
      BY <3>1, <3>2, PartCounts, RowCounts
    <3> QED
      BY <1>1, <1>2, <3>1, <3>3
  <2>3. CASE MinEvents # 0 /\ r.seq < K
    <3>1. protected \subseteq newer /\ K # 0
      BY <1>2, <1>4, <2>3
    <3> HIDE DEF protected, newer, R
    <3>2. newer \subseteq rows
      BY <1>1, <1>6
    <3>3. Cardinality(protected) <= Cardinality(newer)
      BY <3>1, <3>2, PartCounts
    <3> QED
      BY <1>1, <1>3, <2>3, <3>1, <3>3
  <2> QED
    BY <1>5, <2>1, <2>2, <2>3
<1>8. Cardinality(newer) \in Nat
  <2> HIDE DEF newer, R
  <2> QED
    BY <1>1, <1>6, PartCounts
<1>9. ~ (Cardinality(newer) < MinEvents)
  <2> HIDE DEF newer
  <2> QED
    BY <1>1, <1>7, <1>8
<1> QED
  BY <1>9 DEF NewestRows

\* When all prunable rows went, the cap holds and what is left of before the
\* cutoff is among the newest MinEvents rows.
LEMMA PruningIsThorough ==
  ASSUME HubInv, NEW a
  PROVE  LET kept == RowsOf(a) \ Prunable(a)
         IN  /\ Cardinality(kept) <= MaxEvents
             /\ \A r \in kept : r.received < pruner.cutoff =>
                                 r \in NewestRows(kept, MinEvents)
<1> DEFINE R == RowsOf(a)
           F == ForceDeleteThrough(a)
           K == MinKeepSeq(a)
           kept == R \ Prunable(a)
           above == {r \in R : r.seq > F}
           protected == {r \in R : r.seq >= K}
<1>1. /\ R \subseteq rows /\ Cardinality(R) \in Nat
      /\ MinEvents \in Nat /\ MaxEvents \in Nat /\ MaxSeq \in Nat
      /\ lastSeq \in Nat /\ lastSeq <= MaxSeq
  BY RowCounts, PolicyValid, ClockBounds DEF RowsOf, HubInv
<1>2. F \in Nat /\ K \in Nat /\ Cardinality(above) <= MaxEvents
  BY CapKeeps, MinimumKeeps
<1>3. /\ MinEvents = 0 => K = MaxSeq + 1
      /\ MinEvents > 0 /\ Cardinality(R) > MinEvents => Cardinality(protected) = MinEvents
      /\ MinEvents > 0 /\ ~ (Cardinality(R) > MinEvents) => K = 0
  BY MinimumKeeps
<1>4. \A r \in R : r.seq \in Nat \ {0} /\ r.seq <= lastSeq
  BY <1>1, RowNumbers
<1>5. \A r \in kept : /\ r \in R /\ r.seq > F
                      /\ r.received < pruner.cutoff => r.seq >= K
  BY <1>2, <1>4 DEF Prunable
<1>6. Cardinality(kept) <= MaxEvents
  <2> HIDE DEF kept
  <2>1. kept \subseteq above /\ above \subseteq R
    BY <1>5
  <2> HIDE DEF above, R
  <2>2. /\ Cardinality(kept) <= Cardinality(above) /\ Cardinality(kept) \in Nat
        /\ Cardinality(above) \in Nat
    BY <1>1, <2>1, PartCounts
  <2> QED
    BY <1>1, <1>2, <2>2
<1>7. ASSUME NEW r \in kept, r.received < pruner.cutoff
      PROVE  r \in NewestRows(kept, MinEvents)
  <2> DEFINE newer == {q \in kept : q.seq > r.seq}
  <2> HIDE DEF kept, R
  <2>1. r \in R /\ r.seq \in Nat /\ r.seq >= K /\ r.seq <= lastSeq /\ r \notin newer
    BY <1>4, <1>5, <1>7
  <2>2. MinEvents > 0
    BY <1>1, <1>3, <2>1
  <2>3. newer \subseteq protected /\ r \in protected /\ protected \subseteq R
    BY <1>2, <1>4, <1>5, <2>1
  <2>4. Cardinality(R) > MinEvents \/ protected = R
    BY <1>3, <1>4, <2>2
  <2> HIDE DEF newer, protected
  <2>5. newer # protected
    BY <2>1, <2>3
  <2>6. /\ Cardinality(newer) \in Nat /\ Cardinality(protected) \in Nat
        /\ Cardinality(newer) < Cardinality(protected)
    <3>1. protected \subseteq rows
      BY <1>1, <2>3
    <3> QED
      BY <2>3, <2>5, <3>1, PartCounts, RowCounts
  <2>7. Cardinality(protected) <= MinEvents
    BY <1>1, <1>3, <2>2, <2>4
  <2> QED
    <3>1. Cardinality(newer) < MinEvents
      BY <1>1, <2>6, <2>7
    <3> QED
      BY <1>7, <3>1 DEF newer, NewestRows
<1> HIDE DEF kept
<1> QED
  BY <1>6, <1>7 DEF kept

\* PruneBatch takes FirstRows of what is prunable; when it leaves the agent it
\* has taken all of it.
LEMMA BatchTakesFirst ==
  ASSUME HubInv, PruneBatch
  PROVE  LET a == pruner.agent
             doomed == FirstRows(Prunable(a), BatchSize)
         IN  /\ doomed \subseteq Prunable(a) /\ Prunable(a) \subseteq RowsOf(a)
             /\ rows' = rows \ doomed
             /\ \A b : b # a => RowsOf(b) \ rows' = {}
             /\ pruner'.agent # a => doomed = Prunable(a)
<1> DEFINE a == pruner.agent
           doomed == FirstRows(Prunable(a), BatchSize)
<1>1. doomed \subseteq Prunable(a) /\ Prunable(a) \subseteq RowsOf(a) /\ RowsOf(a) \subseteq rows
  BY DEF FirstRows, Prunable, RowsOf
<1>2. rows' = rows \ doomed /\ (Cardinality(doomed) = BatchSize => pruner' = pruner)
  BY DEF PruneBatch
<1>3. Cardinality(doomed) = BatchSize \/ doomed = Prunable(a)
  <2>1. Prunable(a) \subseteq rows /\ BatchSize \in Nat \ {0}
    BY <1>1, PolicyValid
  <2> QED
    BY <2>1, FirstRowsCount
<1>4. ASSUME NEW b, b # a PROVE RowsOf(b) \ rows' = {}
  BY <1>1, <1>2, <1>4 DEF RowsOf
<1> HIDE DEF doomed
<1> QED
  BY <1>1, <1>2, <1>3, <1>4 DEF doomed

\* A step of the Hub leaves every agent its newest MinEvents rows.
LEMMA StepSparesNewest ==
  ASSUME HubInv, HubNext, NEW a \in Agents
  PROVE  NewestRows(RowsOf(a), MinEvents) \subseteq rows'
<1>1. NewestRows(RowsOf(a), MinEvents) \subseteq RowsOf(a) /\ RowsOf(a) \subseteq rows
  BY DEF NewestRows, RowsOf
<1>2. CASE Upload
  BY <1>1, <1>2, RecordingAddsBeyond DEF Upload
<1>3. CASE Tick \/ PruneStart \/ PruneAborts
  BY <1>1, <1>3 DEF Tick, PruneStart, PruneAborts
<1>4. CASE PruneBatch
  <2> DEFINE doomed == FirstRows(Prunable(pruner.agent), BatchSize)
  <2>1. /\ doomed \subseteq Prunable(pruner.agent)
        /\ rows' = rows \ doomed
        /\ a # pruner.agent => RowsOf(a) \ rows' = {}
    BY <1>4, BatchTakesFirst
  <2> HIDE DEF doomed
  <2>2. CASE a # pruner.agent
    BY <1>1, <2>1, <2>2
  <2>3. CASE a = pruner.agent
    <3>1. \A r \in doomed : r \notin NewestRows(RowsOf(a), MinEvents)
      BY <2>1, <2>3, PruningSparesNewest
    <3> QED
      BY <1>1, <2>1, <3>1
  <2> QED
    BY <2>2, <2>3
<1> QED
  BY <1>2, <1>3, <1>4 DEF HubNext, HubMaintenance

\* The loop over an agent's batches ends when the cap holds and age has
\* nothing left to take.
LEMMA PassLeavesThorough ==
  ASSUME HubInv, PruneBatch, pruner'.agent # pruner.agent
  PROVE  LET kept == {r \in rows' : r.agent = pruner.agent}
         IN  /\ Cardinality(kept) <= MaxEvents
             /\ \A r \in kept : r.received < pruner.cutoff =>
                                 r \in NewestRows(kept, MinEvents)
<1> DEFINE a == pruner.agent
           kept == {r \in rows' : r.agent = a}
<1>1. /\ Prunable(a) \subseteq RowsOf(a) /\ rows' = rows \ FirstRows(Prunable(a), BatchSize)
      /\ FirstRows(Prunable(a), BatchSize) = Prunable(a)
  BY BatchTakesFirst
<1>2. kept = RowsOf(a) \ Prunable(a)
  BY <1>1 DEF RowsOf
<1>3. LET left == RowsOf(a) \ Prunable(a)
      IN  /\ Cardinality(left) <= MaxEvents
          /\ \A r \in left : r.received < pruner.cutoff =>
                              r \in NewestRows(left, MinEvents)
  BY PruningIsThorough
<1> HIDE DEF kept
<1>4. /\ Cardinality(kept) <= MaxEvents
      /\ \A r \in kept : r.received < pruner.cutoff =>
                          r \in NewestRows(kept, MinEvents)
  BY <1>2, <1>3
<1> QED
  BY <1>4 DEF kept

-----------------------------------------------------------------------------
(* Without a lagging clock the retained rows are the newest.                *)

\* Receive times follow the numbers, and do not lie ahead of the clock; the
\* pruner is a record with a time in it.
ReceivedInOrder ==
  /\ now \in Int /\ pruner.cutoff \in Int
  /\ pruner = [agent |-> pruner.agent, todo |-> pruner.todo, cutoff |-> pruner.cutoff]
  /\ \A r \in rows : r.received \in Int /\ r.received <= now
  /\ \A r, q \in rows : r.seq < q.seq => r.received <= q.received

\* The prunable rows of an agent are its oldest.
LEMMA PrunableAreOldest ==
  ASSUME HubInv, ReceivedInOrder, NEW a, NEW q \in Prunable(a), NEW r \in RowsOf(a),
         r.seq < q.seq
  PROVE  r \in Prunable(a)
<1>1. ForceDeleteThrough(a) \in Nat /\ MinKeepSeq(a) \in Nat
  BY CapKeeps, MinimumKeeps
<1>2. q \in RowsOf(a) /\ q \in rows /\ r \in rows
  BY DEF Prunable, RowsOf
<1>3. r.seq \in Nat /\ q.seq \in Nat
  BY <1>2, RowNumbers
<1>4. r.received <= q.received /\ r.received \in Int /\ q.received \in Int
      /\ pruner.cutoff \in Int
  BY <1>2 DEF ReceivedInOrder
<1> QED
  BY <1>1, <1>2, <1>3, <1>4 DEF Prunable

\* Every step keeps the order of the receive times and the newest part.
LEMMA StepKeepsNewestPart ==
  ASSUME HubInv, HubInv', ReceivedInOrder, RetainedIsNewestPart, HandlerLag = 0,
         HubNext
  PROVE  ReceivedInOrder' /\ RetainedIsNewestPart'
<1>0. MaxAge \in Nat /\ now \in Int /\ pruner.cutoff \in Int /\ lastSeq \in Nat
  BY ClockBounds DEF ReceivedInOrder, HubInv
<1>1. CASE Upload
  <2>1. PICK a \in Agents, uploaded \in SUBSET EventIds : RecordEvents(a, uploaded)
    BY <1>1 DEF Upload
  <2>2. PICK received \in {t \in 0..now : now - t <= HandlerLag} :
          rows' = rows \cup {[seq |-> SeqFor(id, uploaded), agent |-> a, id |-> id,
                              received |-> received] : id \in Fresh(uploaded)}
    BY <2>1 DEF RecordEvents
  <2>3. received = now
    BY <1>0, <2>2
  <2>4. now' = now /\ pruner' = pruner
    BY <2>1 DEF RecordEvents
  <2>5. /\ \A r \in rows' : r \in rows \/ (r.seq > lastSeq /\ r.received = now)
        /\ rows \subseteq rows'
        /\ \A x \in entries' : x \in entries \/ x.seq \in Seqs(rows')
    <3>1. OnlyAddsBeyond /\ rows \subseteq rows'
          /\ \A x \in entries' : x \in entries \/ x.seq \in Seqs(rows')
      BY <2>1, RecordingAddsBeyond
    <3>2. \A r \in rows' : r \in rows \/ r.received = now
      BY <2>2, <2>3
    <3> QED
      BY <3>1, <3>2 DEF OnlyAddsBeyond
  <2>6. /\ \A r \in rows : r.seq \in Nat /\ r.seq <= lastSeq
        /\ \A r \in rows' : r.seq \in Nat
        /\ \A x \in entries : x.seq \in Nat /\ x.seq <= lastSeq
    BY RowNumbers DEF HubInv, Entry
  <2>7. ReceivedInOrder'
    BY <1>0, <2>4, <2>5, <2>6 DEF ReceivedInOrder
  <2>8. ASSUME NEW b \in Agents, NEW r \in rows', r.agent = b,
               NEW x \in entries', x.agent = b, x.seq > r.seq
        PROVE  x.seq \in Seqs(rows')
    <3>1. CASE x \in entries
      <4>1. r \in rows
        BY <1>0, <2>5, <2>6, <2>8, <3>1
      <4>2. r \in RowsOf(b)
        BY <2>8, <4>1 DEF RowsOf
      <4>3. x.seq \in Seqs(rows)
        BY <2>8, <3>1, <4>2 DEF RetainedIsNewestPart
      <4> QED
        BY <2>5, <4>3 DEF Seqs
    <3>2. CASE x \notin entries
      BY <2>5, <3>2
    <3> QED
      BY <3>1, <3>2
  <2> QED
    BY <2>7, <2>8 DEF RetainedIsNewestPart, RowsOf, Seqs
<1>2. CASE Tick \/ PruneStart \/ PruneAborts
  <2>1. rows' = rows /\ entries' = entries
    BY <1>2 DEF Tick, PruneStart, PruneAborts
  <2>2. /\ now' \in Int /\ now <= now' /\ pruner'.cutoff \in Int
        /\ pruner' = [agent |-> pruner'.agent, todo |-> pruner'.todo,
                      cutoff |-> pruner'.cutoff]
    BY <1>0, <1>2 DEF Tick, PruneStart, PruneAborts, IdlePruner, ReceivedInOrder
  <2> QED
    BY <1>0, <2>1, <2>2 DEF ReceivedInOrder, RetainedIsNewestPart, RowsOf, Seqs
<1>3. CASE PruneBatch
  <2> DEFINE a == pruner.agent
             doomed == FirstRows(Prunable(a), BatchSize)
  <2>1. /\ doomed \subseteq Prunable(a) /\ Prunable(a) \subseteq RowsOf(a)
        /\ rows' = rows \ doomed
    BY <1>3, BatchTakesFirst
  <2>2. now' = now /\ entries' = entries
    BY <1>3 DEF PruneBatch
  <2>3. ReceivedInOrder'
    <3>1. \/ pruner' = pruner \/ pruner' = IdlePruner
          \/ \E b \in pruner.todo : pruner' = [pruner EXCEPT !.agent = b, !.todo = pruner.todo \ {b}]
      BY <1>3 DEF PruneBatch
    <3>2. /\ pruner'.cutoff \in Int
          /\ pruner' = [agent |-> pruner'.agent, todo |-> pruner'.todo,
                        cutoff |-> pruner'.cutoff]
      <4>1. CASE pruner' = pruner
        BY <4>1 DEF ReceivedInOrder
      <4>2. CASE pruner' = IdlePruner
        BY <4>2 DEF IdlePruner
      <4>3. ASSUME NEW b, pruner' = [pruner EXCEPT !.agent = b, !.todo = pruner.todo \ {b}]
            PROVE  pruner' = [agent |-> b, todo |-> pruner.todo \ {b},
                              cutoff |-> pruner.cutoff]
        BY <4>3 DEF ReceivedInOrder
      <4>4. pruner.cutoff \in Int
        BY DEF ReceivedInOrder
      <4>5. ASSUME NEW b, pruner' = [agent |-> b, todo |-> pruner.todo \ {b},
                                     cutoff |-> pruner.cutoff]
            PROVE  /\ pruner'.cutoff = pruner.cutoff
                   /\ pruner' = [agent |-> pruner'.agent, todo |-> pruner'.todo,
                                 cutoff |-> pruner'.cutoff]
        BY <4>5
      <4> QED
        BY <3>1, <4>1, <4>2, <4>3, <4>4, <4>5
    <3> QED
      BY <2>1, <2>2, <3>2 DEF ReceivedInOrder
  <2>4. ASSUME NEW b \in Agents, NEW r \in rows', r.agent = b,
               NEW x \in entries, x.agent = b, x.seq > r.seq
        PROVE  x.seq \in Seqs(rows')
    <3>1. r \in rows /\ r \in RowsOf(b)
      BY <2>1, <2>4 DEF RowsOf
    <3>2. PICK q \in rows : q.seq = x.seq
      BY <2>4, <3>1 DEF RetainedIsNewestPart, Seqs
    <3>3. q.agent = b
      <4>1. Entry(q) \in entries /\ Entry(q).seq = x.seq /\ Entry(q).agent = q.agent
        BY <3>2 DEF HubInv, Entry
      <4>2. Entry(q) = x
        BY <2>4, <4>1 DEF HubInv
      <4> QED
        BY <2>4, <4>1, <4>2
    <3>4. q \notin doomed
      <4> SUFFICES ASSUME q \in doomed PROVE FALSE
        OBVIOUS
      <4>1. q \in Prunable(a) /\ b = a
        BY <2>1, <3>3 DEF RowsOf
      <4>2. r \in Prunable(a) /\ r.seq < q.seq
        <5>1. r.seq < q.seq
          BY <2>4, <3>1, <3>2, RowNumbers
        <5> QED
          BY <3>1, <4>1, <5>1, PrunableAreOldest
      <4>3. Prunable(a) \subseteq rows /\ BatchSize \in Nat /\ r.seq <= q.seq
        <5>1. r.seq \in Nat /\ q.seq \in Nat
          BY <3>1, RowNumbers
        <5> QED
          BY <2>1, <4>2, <5>1, PolicyValid DEF RowsOf
      <4>4. r \in doomed
        BY <4>2, <4>3, FirstRowsFirst
      <4> QED
        BY <2>1, <4>4
    <3> QED
      BY <2>1, <3>2, <3>4 DEF Seqs
  <2> QED
    BY <2>2, <2>3, <2>4 DEF RetainedIsNewestPart, RowsOf, Seqs
<1> QED
  BY <1>1, <1>2, <1>3 DEF HubNext, HubMaintenance

-----------------------------------------------------------------------------
(* The phone's feed.                                                       *)

Fetching == {"requested", "bounded", "served"}

\* A position of the feed behind which nothing is retained unaccounted for.
Covered(position) ==
  /\ position \in Nat
  /\ position <= lastSeq
  /\ \A r \in RowsOf(Primary) : r.seq <= position => r.seq \in accounted

\* The cursor a synchronisation began with, and how much it asks for.
RequestInv(s) ==
  /\ s.phase \in Fetching /\ s.after # NoCursor => Covered(s.after)
  /\ s.phase \in {"requested", "bounded"} => s.limit \in Nat

\* The floor it was given.
FloorInv(s) ==
  s.phase = "bounded" =>
    /\ s.oldest \in Nat /\ s.oldest <= lastSeq
    /\ \A r \in RowsOf(Primary) : s.oldest <= r.seq

\* Its page: acceptable, above the floor, and without a hole from the cursor
\* to the next cursor.
PageInv(s) ==
  s.phase = "served" =>
    /\ PageAccepted(s)
    /\ \A seq \in s.items : s.oldest <= seq
    /\ s.latest \in Nat /\ s.latest <= lastSeq
    /\ s.next \in Nat /\ s.next <= lastSeq
    /\ \A r \in RowsOf(Primary) : After(s) < r.seq /\ r.seq <= s.next => r.seq \in s.items

SyncInv(s) == RequestInv(s) /\ FloorInv(s) /\ PageInv(s)

CursorInv == cursor # NoCursor => Covered(cursor)

FeedInv == HubInv /\ CursorInv /\ SyncInv(sync) /\ SyncInv(orphan)

-----------------------------------------------------------------------------
\* Smallest and Largest of the numbers of some rows are what they say.
LEMMA Bounds ==
  ASSUME HubInv, NEW T, T # {}, T \subseteq Seqs(rows)
  PROVE  /\ Smallest(T) \in T /\ Largest(T) \in T
         /\ \A n \in T : n \in Nat /\ n <= lastSeq /\ Smallest(T) <= n /\ n <= Largest(T)
<1>1. \A n \in T : n \in Nat /\ n <= lastSeq
  BY RowNumbers DEF Seqs
<1>2. T \subseteq Nat /\ lastSeq \in Nat
  BY <1>1 DEF HubInv
<1>3. \E x \in T : \A y \in T : x <= y
  BY <1>2, LeastNumber
<1>4. \E x \in T : \A y \in T : x >= y
  <2>1. PICK x \in T : \A y \in T : y <= x
    BY <1>1, <1>2, GreatestNumber
  <2> QED
    BY <1>1, <2>1
<1>5. Smallest(T) \in T /\ \A y \in T : Smallest(T) <= y
  BY <1>3 DEF Smallest
<1>6. Largest(T) \in T /\ \A y \in T : Largest(T) >= y
  BY <1>4 DEF Largest
<1> QED
  BY <1>1, <1>5, <1>6

\* handleEvents, first call: the floor is below all rows of the agent.
LEMMA FloorIsBelowRows ==
  ASSUME HubInv, NEW s
  PROVE  FloorInv(Bounded(s))
<1> DEFINE T == Seqs(RowsOf(Primary))
<1>1. T \subseteq Seqs(rows)
  BY DEF Seqs, RowsOf
<1>2. CASE RowsOf(Primary) = {}
  BY <1>2 DEF FloorInv, Bounded, OldestSeq, HubInv
<1>3. CASE RowsOf(Primary) # {}
  <2>1. T # {}
    BY <1>3 DEF Seqs
  <2>2. OldestSeq(Primary) = Smallest(T)
    BY <1>3 DEF OldestSeq
  <2>3. \A r \in RowsOf(Primary) : r.seq \in T
    BY DEF Seqs
  <2> HIDE DEF T
  <2>4. /\ Smallest(T) \in Nat /\ Smallest(T) <= lastSeq
        /\ \A n \in T : Smallest(T) <= n
    BY <1>1, <2>1, Bounds
  <2> QED
    BY <2>2, <2>3, <2>4 DEF FloorInv, Bounded
<1> QED
  BY <1>2, <1>3

\* handleEvents, second call: the page.
LEMMA ServedPageIsSound ==
  ASSUME HubInv, NEW s, s.phase = "bounded", RequestInv(s), FloorInv(s)
  PROVE  PageInv(Served(s))
<1> DEFINE page == Served(s)
           ahead == {r \in RowsOf(Primary) : r.seq > After(s)}
           items == Seqs(PageRows(Primary, After(s), s.limit))
<1>1. After(s) \in Nat /\ After(s) <= lastSeq
  BY DEF RequestInv, Fetching, Covered, After, HubInv
<1>2. /\ page.phase = "served" /\ page.after = s.after /\ page.oldest = s.oldest
      /\ page.items = items /\ page.next = NextAfter(items, After(s))
      /\ page.latest = LatestSeq(Primary) /\ After(page) = After(s)
  BY DEF Served, After
<1>3. /\ PageRows(Primary, After(s), s.limit) \subseteq ahead
      /\ ahead \subseteq RowsOf(Primary) /\ RowsOf(Primary) \subseteq rows
  BY DEF PageRows, FirstRows, RowsOf
<1>4. /\ items \subseteq Seqs(RowsOf(Primary)) /\ Seqs(RowsOf(Primary)) \subseteq Seqs(rows)
      /\ \A seq \in items : \E r \in PageRows(Primary, After(s), s.limit) : r.seq = seq
  BY <1>3 DEF Seqs
<1>5. \A seq \in items : s.oldest <= seq /\ seq > After(s)
  BY <1>3, <1>4 DEF FloorInv
<1>6. items # {} =>
        /\ NextAfter(items, After(s)) \in items
        /\ \A seq \in items : seq <= NextAfter(items, After(s))
  <2> HIDE DEF items
  <2> QED
    BY <1>4, Bounds DEF NextAfter
<1>7. /\ LatestSeq(Primary) \in Nat /\ LatestSeq(Primary) <= lastSeq
      /\ \A r \in RowsOf(Primary) : r.seq <= LatestSeq(Primary)
      /\ LatestSeq(Primary) > 0 => \E r \in RowsOf(Primary) : r.seq = LatestSeq(Primary)
  <2>1. CASE RowsOf(Primary) = {}
    BY <2>1 DEF LatestSeq, HubInv
  <2>2. CASE RowsOf(Primary) # {}
    <3> DEFINE T == Seqs(RowsOf(Primary))
    <3>1. T # {} /\ LatestSeq(Primary) = Largest(T)
      BY <2>2 DEF Seqs, LatestSeq
    <3>2. /\ \A r \in RowsOf(Primary) : r.seq \in T
          /\ \A n \in T : \E r \in RowsOf(Primary) : r.seq = n
      BY DEF Seqs
    <3> HIDE DEF T
    <3>3. /\ Largest(T) \in T
          /\ \A n \in T : n \in Nat /\ n <= lastSeq /\ n <= Largest(T)
      BY <1>4, <3>1, Bounds DEF T
    <3> QED
      BY <3>1, <3>2, <3>3
  <2> QED
    BY <2>1, <2>2
<1>8. /\ NextAfter(items, After(s)) \in Nat /\ NextAfter(items, After(s)) <= lastSeq
      /\ items # {} => NextAfter(items, After(s)) <= LatestSeq(Primary)
  <2>1. CASE items = {}
    BY <1>1, <2>1 DEF NextAfter
  <2>2. CASE items # {}
    <3>1. PICK r \in PageRows(Primary, After(s), s.limit) : r.seq = NextAfter(items, After(s))
      BY <1>4, <1>6, <2>2
    <3>2. r \in RowsOf(Primary) /\ r.seq \in Nat /\ r.seq <= lastSeq
      BY <1>3, RowNumbers
    <3> QED
      BY <1>7, <3>1, <3>2
  <2> QED
    BY <2>1, <2>2
<1>9. \A r \in RowsOf(Primary) :
        After(s) < r.seq /\ r.seq <= NextAfter(items, After(s)) => r.seq \in items
  <2> SUFFICES ASSUME NEW r \in RowsOf(Primary), After(s) < r.seq,
                      r.seq <= NextAfter(items, After(s))
               PROVE  r.seq \in items
    OBVIOUS
  <2>1. r \in rows /\ r.seq \in Nat
    BY <1>3, RowNumbers
  <2>2. items # {}
    BY <1>1, <2>1 DEF NextAfter
  <2>3. PICK q \in PageRows(Primary, After(s), s.limit) : q.seq = NextAfter(items, After(s))
    BY <1>4, <1>6, <2>2
  <2>4. r \in ahead /\ ahead \subseteq rows
    BY <1>1, <1>3, <2>1
  <2>5. q \in FirstRows(ahead, s.limit) /\ s.limit \in Nat
    BY <2>3 DEF PageRows, RequestInv
  <2>6. r.seq <= q.seq
    BY <2>3
  <2> HIDE DEF ahead
  <2>7. r \in FirstRows(ahead, s.limit)
    BY <2>4, <2>5, <2>6, FirstRowsFirst
  <2> QED
    BY <2>7 DEF ahead, PageRows, Seqs
<1>10. FloorPlausible(page)
  <2>1. LatestSeq(Primary) > 0 => s.oldest <= LatestSeq(Primary)
    BY <1>7 DEF FloorInv
  <2> QED
    BY <1>2, <2>1 DEF FloorPlausible
<1> HIDE DEF items, page
<1>11. PageAccepted(page)
  BY <1>1, <1>2, <1>5, <1>7, <1>8, <1>10 DEF PageAccepted
<1>12. PageInv(page)
  BY <1>2, <1>5, <1>7, <1>8, <1>9, <1>11 DEF PageInv
<1> QED
  BY <1>12 DEF page

-----------------------------------------------------------------------------
(* What every step does to the cursor and to a synchronisation under way.   *)

\* Nothing is added but beyond lastSeq, and what was accounted for stays so.
FeedMoves ==
  /\ HubInv /\ HubInv' /\ OnlyAddsBeyond
  /\ accounted \subseteq accounted'

\* A covered position stays covered.
LEMMA CoveredStays ==
  ASSUME FeedMoves
  PROVE  \A position : Covered(position) => Covered(position)'
<1> SUFFICES ASSUME NEW position, Covered(position) PROVE Covered(position)'
  OBVIOUS
<1>1. \A r \in RowsOf(Primary)' : r \in RowsOf(Primary) \/ (r.seq > lastSeq /\ r.seq \in Nat)
  BY DEF FeedMoves, OnlyAddsBeyond, RowsOf, HubInv, Entry
<1>2. /\ position \in Nat /\ lastSeq \in Nat /\ lastSeq' \in Nat
      /\ position <= lastSeq /\ lastSeq <= lastSeq'
  BY DEF FeedMoves, HubInv, Covered, OnlyAddsBeyond
<1> QED
  BY <1>1, <1>2 DEF Covered, FeedMoves

\* So does everything said of a synchronisation that is only waiting.
LEMMA SyncStays ==
  ASSUME FeedMoves
  PROVE  \A s : SyncInv(s) => SyncInv(s)'
<1> SUFFICES ASSUME NEW s, SyncInv(s) PROVE SyncInv(s)'
  OBVIOUS
<1>1. \A r \in RowsOf(Primary)' : r \in RowsOf(Primary) \/ (r.seq > lastSeq /\ r.seq \in Nat)
  BY DEF FeedMoves, OnlyAddsBeyond, RowsOf, HubInv, Entry
<1>2. lastSeq \in Nat /\ lastSeq' \in Nat /\ lastSeq <= lastSeq'
  BY DEF FeedMoves, HubInv, OnlyAddsBeyond
<1>3. RequestInv(s)'
  BY CoveredStays DEF SyncInv, RequestInv
<1>4. FloorInv(s)'
  BY <1>1, <1>2 DEF SyncInv, FloorInv
<1>5. PageInv(s)'
  <2>1. PageAccepted(s)' = PageAccepted(s) /\ After(s)' = After(s)
    BY DEF PageAccepted, FloorPlausible, NextAfter, Largest, After
  <2> QED
    BY <1>1, <1>2, <2>1 DEF SyncInv, PageInv
<1> QED
  BY <1>3, <1>4, <1>5 DEF SyncInv

\* The cursor a page leads to is covered when the page is committed.
LEMMA CommitCovers ==
  ASSUME HubInv, NEW page, page.phase = "served", SyncInv(page), CommitCursor(page),
         UNCHANGED hubVars
  PROVE  Covered(cursor)' /\ accounted \subseteq accounted'
<1>1. /\ page.latest \in Nat /\ page.latest <= lastSeq
      /\ page.next \in Nat /\ page.next <= lastSeq
      /\ \A r \in RowsOf(Primary) :
           After(page) < r.seq /\ r.seq <= page.next => r.seq \in page.items
  BY DEF SyncInv, PageInv
<1>2. \A r \in RowsOf(Primary) : r.seq \in Nat \ {0}
  BY RowNumbers DEF RowsOf
<1>3. /\ After(page) \in Nat
      /\ \A r \in RowsOf(Primary) : r.seq <= After(page) => r.seq \in accounted
  BY <1>2 DEF SyncInv, RequestInv, Fetching, Covered, After
<1>4. /\ lastSeq' = lastSeq /\ RowsOf(Primary)' = RowsOf(Primary)
      /\ accounted \subseteq accounted'
  BY DEF hubVars, RowsOf, CommitCursor
<1>5. CASE Baseline(page)
  <2>1. /\ cursor' = page.latest
        /\ accounted' = accounted \cup {n \in 1..page.latest : n > After(page)}
    BY <1>5 DEF CommitCursor, NextCursor
  <2>2. ASSUME NEW r \in RowsOf(Primary), r.seq <= page.latest PROVE r.seq \in accounted'
    BY <1>1, <1>2, <1>3, <2>1, <2>2
  <2> QED
    BY <1>1, <1>4, <2>1, <2>2 DEF Covered
<1>6. CASE ~ Baseline(page)
  <2>1. /\ cursor' = page.next
        /\ accounted' = accounted \cup page.items
    BY <1>6 DEF CommitCursor, NextCursor
  <2>2. ASSUME NEW r \in RowsOf(Primary), r.seq <= page.next PROVE r.seq \in accounted'
    BY <1>1, <1>2, <1>3, <2>1, <2>2
  <2> QED
    BY <1>1, <1>4, <2>1, <2>2 DEF Covered
<1> QED
  BY <1>5, <1>6

-----------------------------------------------------------------------------
\* Nothing is stored, asked for or numbered at first.
LEMMA InitFeedInv == PhoneInit => FeedInv
<1> SUFFICES ASSUME PhoneInit PROVE FeedInv
  OBVIOUS
<1>1. HubInv
  BY InitHubInv DEF PhoneInit
<1>2. SyncInv(sync) /\ SyncInv(orphan)
  BY DEF PhoneInit, Idle, SyncInv, RequestInv, FloorInv, PageInv, Fetching
<1> QED
  BY <1>1, <1>2 DEF FeedInv, CursorInv, PhoneInit

\* A synchronisation at rest, or whose page is saved, promises nothing.
LEMMA NothingPromised ==
  \A s : s.phase \in {"idle", "saved"} => SyncInv(s)
  BY DEF SyncInv, RequestInv, FloorInv, PageInv, Fetching

\* A page leaves the request's promises in place.
LEMMA StagesKeep ==
  ASSUME HubInv, NEW s, SyncInv(s)
  PROVE  /\ s.phase = "requested" => SyncInv(Bounded(s))
         /\ s.phase = "bounded" => SyncInv(Served(s))
<1>1. CASE s.phase = "requested"
  <2>1. RequestInv(Bounded(s))
    BY <1>1 DEF SyncInv, RequestInv, Bounded, Fetching
  <2>2. PageInv(Bounded(s))
    BY DEF PageInv, Bounded
  <2> QED
    BY <1>1, <2>1, <2>2, FloorIsBelowRows DEF SyncInv
<1>2. CASE s.phase = "bounded"
  <2>1. RequestInv(Served(s))
    BY <1>2 DEF SyncInv, RequestInv, Served, Fetching
  <2>2. FloorInv(Served(s))
    BY DEF FloorInv, Served
  <2> QED
    BY <1>2, <2>1, <2>2, ServedPageIsSound DEF SyncInv
<1> QED
  BY <1>1, <1>2

\* Every step keeps the invariant.
LEMMA StepKeepsFeedInv == FeedInv /\ [PhoneNext]_vars => FeedInv'
<1> SUFFICES ASSUME FeedInv, [PhoneNext]_vars PROVE FeedInv'
  OBVIOUS
<1>0. HubInv /\ CursorInv /\ SyncInv(sync) /\ SyncInv(orphan)
  BY DEF FeedInv
<1>1. CASE AgentUploads \/ Maintenance \/ ClockTicks
  <2>1. UNCHANGED phoneVars /\ HubNext
    BY <1>1 DEF HubNext, AgentUploads, Maintenance, ClockTicks
  <2>2. FeedMoves
    BY <1>0, <2>1, HubKeepsHubInv DEF FeedMoves, phoneVars
  <2>3. SyncInv(sync)' /\ SyncInv(orphan)'
    <3>1. sync' = sync /\ orphan' = orphan
      BY <2>1 DEF phoneVars
    <3> QED
      BY <1>0, <2>2, <3>1, SyncStays DEF SyncInv, RequestInv, FloorInv, PageInv
  <2>4. CursorInv'
    BY <1>0, <2>1, <2>2, CoveredStays DEF CursorInv, Covered, phoneVars
  <2> QED
    BY <2>2, <2>3, <2>4 DEF FeedInv, FeedMoves
<1>2. ASSUME UNCHANGED hubVars, accounted \subseteq accounted'
      PROVE  FeedMoves
  BY <1>0, <1>2 DEF FeedMoves, OnlyAddsBeyond, HubInv, hubVars, Entry
<1>3. ASSUME UNCHANGED <<hubVars, cursor, accounted>>,
             NEW s, NEW o, SyncInv(s), SyncInv(o), sync' = s, orphan' = o
      PROVE  FeedInv'
  <2>1. FeedMoves
    BY <1>2, <1>3
  <2>2. SyncInv(sync)' /\ SyncInv(orphan)'
    BY <1>3, <2>1, SyncStays DEF SyncInv, RequestInv, FloorInv, PageInv
  <2>3. CursorInv'
    BY <1>0, <1>3, <2>1, CoveredStays DEF CursorInv, Covered
  <2> QED
    BY <2>1, <2>2, <2>3 DEF FeedInv, FeedMoves
<1>4. SyncInv(Idle)
  BY NothingPromised DEF Idle
<1>5. CASE RequestPage
  <2>1. SyncInv(Requested)
    BY <1>0, PageLimitPositive
    DEF Requested, CursorInv, SyncInv, RequestInv, FloorInv, PageInv, Fetching
  <2> QED
    BY <1>0, <1>3, <1>5, <2>1 DEF RequestPage, ghosts
<1>6. CASE ReadFloor \/ ServePage
  <2>1. SyncInv(sync')
    BY <1>0, <1>6, StagesKeep DEF ReadFloor, ServePage
  <2> QED
    BY <1>0, <1>3, <1>6, <2>1 DEF ReadFloor, ServePage, ghosts
<1>7. CASE OrphanReadsFloor \/ OrphanIsServed
  <2>1. SyncInv(orphan')
    BY <1>0, <1>7, StagesKeep DEF OrphanReadsFloor, OrphanIsServed
  <2> QED
    BY <1>0, <1>3, <1>7, <2>1 DEF OrphanReadsFloor, OrphanIsServed, ghosts
<1>8. CASE SyncFails \/ HandleEvents \/ DropResult \/ OrphanDies \/ StopPolling
           \/ StartPolling \/ Destroy \/ UNCHANGED vars
  BY <1>0, <1>3, <1>4, <1>8
  DEF SyncFails, HandleEvents, DropResult, OrphanDies, StopPolling, StartPolling, Destroy,
      ghosts, vars, phoneVars
<1>9. ASSUME NEW page, page.phase = "served", SyncInv(page), CommitCursor(page),
             UNCHANGED hubVars,
             NEW s, NEW o, SyncInv(s), SyncInv(o), sync' = s, orphan' = o
      PROVE  FeedInv'
  <2>1. Covered(cursor)' /\ accounted \subseteq accounted'
    BY <1>0, <1>9, CommitCovers
  <2>2. FeedMoves
    BY <1>2, <1>9, <2>1
  <2>3. SyncInv(sync)' /\ SyncInv(orphan)'
    BY <1>9, <2>2, SyncStays DEF SyncInv, RequestInv, FloorInv, PageInv
  <2> QED
    BY <2>1, <2>2, <2>3 DEF FeedInv, FeedMoves, CursorInv
<1>10. CASE SaveCursor
  <2>1. SyncInv([phase |-> "saved", baseline |-> Baseline(sync), items |-> sync.items])
    BY NothingPromised
  <2> QED
    BY <1>0, <1>9, <1>10, <2>1 DEF SaveCursor
<1>11. CASE OrphanSaves
  BY <1>0, <1>4, <1>9, <1>11 DEF OrphanSaves
<1> QED
  BY <1>1, <1>5, <1>6, <1>7, <1>8, <1>10, <1>11 DEF PhoneNext

\* The invariant holds in every state of every behaviour.
THEOREM FeedInvariant == PhoneSpec => []FeedInv
  BY InitFeedInv, StepKeepsFeedInv, PTL DEF PhoneSpec

-----------------------------------------------------------------------------
\* A feed position names one event for ever, although RecordEvents draws rowids
\* for events it already has and pruning may empty the table.
THEOREM PositionsNeverReused == PhoneSpec => []SeqsNeverReused
<1>1. FeedInv => SeqsNeverReused
  BY DEF FeedInv, HubInv, SeqsNeverReused
<1> QED
  BY <1>1, FeedInvariant, PTL

\* EventPage.validateForRequest never refuses what handleEvents serves, whatever
\* happens between the two store calls, and since the cursor was read: no cursor
\* wedges the feed.
THEOREM PagesAreAccepted == PhoneSpec => []ServedPageIsAccepted
<1>1. FeedInv => ServedPageIsAccepted
  BY DEF FeedInv, SyncInv, PageInv, ServedPageIsAccepted
<1> QED
  BY <1>1, FeedInvariant, PTL

\* handleEvents reads the floor before the rows, so that no row of the page is
\* below it.
THEOREM FloorsHold == PhoneSpec => []PageIsAboveItsFloor
<1>1. FeedInv => PageIsAboveItsFloor
  BY DEF FeedInv, SyncInv, PageInv, PageIsAboveItsFloor
<1> QED
  BY <1>1, FeedInvariant, PTL

\* The phone passes no retained event without a page that held it or a baseline
\* that said so, through retries, rebases, pruning and a second network thread.
THEOREM NothingRetainedSkipped == PhoneSpec => []NoRetainedEventSkipped
<1>1. FeedInv => NoRetainedEventSkipped
  BY DEF FeedInv, CursorInv, Covered, NoRetainedEventSkipped
<1> QED
  BY <1>1, FeedInvariant, PTL
-----------------------------------------------------------------------------
(* The order in which events are told. What is still to come lies beyond     *)
(* what has been told: for the cursor, for the synchronisation under way,    *)
(* and for the page that waits to be handled.                                *)

Position(stored) == IF stored = NoCursor THEN 0 ELSE stored

\* Every row behind a position is newer than the given events.
Ahead(position, seqs) ==
  \A seq \in seqs : \A r \in RowsOf(Primary) : r.seq > position => r.seq > seq

Told == {handled[n] : n \in DOMAIN handled}
ToBeTold(page) == IF Baseline(page) THEN {} ELSE page.items
Waiting(s) == IF s.phase = "saved" /\ ~ s.baseline THEN s.items ELSE {}

\* Items newer than all that has been told.
NewItems(items) ==
  \A seq \in items : seq \in Nat /\ seq <= lastSeq /\ \A h \in Told : h < seq

ToldInv ==
  /\ handled \in Seq(Nat) /\ HandledInOrder
  /\ \A h \in Told : h <= lastSeq
  /\ regressed => handled = <<>>

\* What is to come by the stored cursor and by a synchronisation.
AheadOf(stored, s) ==
  /\ Ahead(Position(stored), Told \cup Waiting(s))
  /\ s.phase \in Fetching => Ahead(After(s), Told)
  /\ s.phase = "served" => NewItems(s.items) /\ Ahead(NextCursor(s), Told \cup ToBeTold(s))
  /\ NewItems(Waiting(s))

OrderInv == ToldInv /\ (~ regressed => AheadOf(cursor, sync))

\* What lies behind a position, and what is newer than all that was told, does
\* so however the table moves.
LEMMA AheadStays ==
  ASSUME FeedMoves, UNCHANGED handled, \A h \in Told : h \in Nat /\ h <= lastSeq
  PROVE  /\ \A stored, s : AheadOf(stored, s) => AheadOf(stored, s)'
         /\ \A h \in Told' : h <= lastSeq'
<1>1. \A r \in RowsOf(Primary)' : r \in RowsOf(Primary) \/ (r.seq > lastSeq /\ r.seq \in Nat)
  BY DEF FeedMoves, OnlyAddsBeyond, RowsOf, HubInv, Entry
<1>2. lastSeq \in Nat /\ lastSeq' \in Nat /\ lastSeq <= lastSeq'
  BY DEF FeedMoves, HubInv, OnlyAddsBeyond
<1>3. Told' = Told
  BY DEF Told
<1>4. \A items : NewItems(items) =>
        NewItems(items)' /\ \A n \in Told \cup items : n \in Nat /\ n <= lastSeq
  BY <1>2, <1>3 DEF NewItems
<1>5. \A position, seqs : Ahead(position, seqs) /\ (\A n \in seqs : n \in Nat /\ n <= lastSeq)
                            => Ahead(position, seqs)'
  BY <1>1, <1>2 DEF Ahead
<1>6. ASSUME NEW stored, NEW s, AheadOf(stored, s) PROVE AheadOf(stored, s)'
  <2>1. /\ Position(stored)' = Position(stored) /\ Waiting(s)' = Waiting(s)
        /\ After(s)' = After(s) /\ NextCursor(s)' = NextCursor(s)
        /\ ToBeTold(s)' = ToBeTold(s)
    BY DEF Position, Waiting, After, NextCursor, ToBeTold, Baseline, Rebased,
       RequiresRebase, CursorPredatesRetention
  <2>2. Ahead(Position(stored), Told \cup Waiting(s))' /\ NewItems(Waiting(s))'
    BY <1>3, <1>4, <1>5, <1>6, <2>1 DEF AheadOf
  <2>3. s.phase \in Fetching => Ahead(After(s), Told)'
    BY <1>3, <1>5, <1>6, <2>1 DEF AheadOf
  <2>4. s.phase = "served" =>
          NewItems(s.items)' /\ Ahead(NextCursor(s), Told \cup ToBeTold(s))'
    <3>1. ToBeTold(s) \subseteq s.items
      BY DEF ToBeTold
    <3> QED
      BY <1>3, <1>4, <1>5, <1>6, <2>1, <3>1 DEF AheadOf
  <2> QED
    BY <2>2, <2>3, <2>4 DEF AheadOf
<1> QED
  BY <1>2, <1>3, <1>6

\* The page served for a position brings what was not told, and leads to a
\* position with what is to be told behind it.
LEMMA ServedIsNew ==
  ASSUME HubInv, NEW s, s.phase = "bounded", SyncInv(s),
         \A h \in Told : h \in Nat, Ahead(After(s), Told)
  PROVE  /\ NewItems(Served(s).items)
         /\ Ahead(NextCursor(Served(s)), Told \cup ToBeTold(Served(s)))
<1> DEFINE page == Served(s)
           items == Seqs(PageRows(Primary, After(s), s.limit))
<1>1. /\ page.items = items /\ page.next = NextAfter(items, After(s))
      /\ page.latest = LatestSeq(Primary)
  BY DEF Served
<1>2. \A r \in RowsOf(Primary) : r \in rows /\ r.seq \in Nat /\ r.seq <= lastSeq
  BY RowNumbers DEF RowsOf
<1>3. \A seq \in items : \E r \in RowsOf(Primary) : r.seq = seq /\ r.seq > After(s)
  BY DEF Seqs, PageRows, FirstRows
<1>4. NewItems(items)
  BY <1>2, <1>3 DEF NewItems, Ahead
<1>5. After(s) \in Nat
  BY DEF SyncInv, RequestInv, Fetching, Covered, After
<1>6. /\ items # {} => NextAfter(items, After(s)) \in items
      /\ \A seq \in items : seq <= NextAfter(items, After(s))
      /\ NextAfter(items, After(s)) \in Nat /\ After(s) <= NextAfter(items, After(s))
  <2>1. items \subseteq Seqs(rows)
    BY <1>2, <1>3 DEF Seqs
  <2>2. \A seq \in items : seq \in Nat /\ seq > After(s)
    BY <1>2, <1>3
  <2> HIDE DEF items
  <2>3. CASE items = {}
    BY <1>5, <2>3 DEF NextAfter
  <2>4. CASE items # {}
    <3>1. Largest(items) \in items /\ \A n \in items : n <= Largest(items)
      BY <2>1, <2>4, Bounds
    <3> QED
      BY <1>5, <2>2, <2>4, <3>1 DEF NextAfter
  <2> QED
    BY <2>3, <2>4
<1>7. \A r \in RowsOf(Primary) : r.seq <= LatestSeq(Primary)
  <2> SUFFICES ASSUME NEW r \in RowsOf(Primary) PROVE r.seq <= LatestSeq(Primary)
    OBVIOUS
  <2> DEFINE T == Seqs(RowsOf(Primary))
  <2>1. r.seq \in T /\ T \subseteq Seqs(rows) /\ LatestSeq(Primary) = Largest(T)
    BY <1>2 DEF Seqs, LatestSeq
  <2> HIDE DEF T
  <2> QED
    BY <2>1, Bounds
<1>8. LatestSeq(Primary) \in Nat
  BY ServedPageIsSound, <1>1 DEF SyncInv, PageInv, Served
<1> HIDE DEF items, page
<1>9. CASE Baseline(page)
  <2>1. NextCursor(page) = LatestSeq(Primary) /\ ToBeTold(page) = {}
    BY <1>1, <1>9 DEF NextCursor, ToBeTold
  <2>2. \A r \in RowsOf(Primary) : ~ (r.seq > LatestSeq(Primary))
    BY <1>2, <1>7, <1>8
  <2>3. Ahead(NextCursor(page), Told \cup ToBeTold(page))
    BY <2>1, <2>2 DEF Ahead
  <2> QED
    BY <1>1, <1>4, <2>3 DEF page
<1>10. CASE ~ Baseline(page)
  <2>1. NextCursor(page) = NextAfter(items, After(s)) /\ ToBeTold(page) = items
    BY <1>1, <1>10 DEF NextCursor, ToBeTold
  <2>2. ASSUME NEW seq \in Told \cup items, NEW r \in RowsOf(Primary),
               r.seq > NextAfter(items, After(s))
        PROVE  r.seq > seq
    <3>1. r.seq \in Nat /\ r.seq > After(s)
      BY <1>2, <1>5, <1>6, <2>2
    <3>2. CASE seq \in Told
      BY <3>1, <3>2 DEF Ahead
    <3>3. CASE seq \in items
      <4>1. seq \in Nat /\ seq <= NextAfter(items, After(s))
        BY <1>4, <1>6, <3>3 DEF NewItems
      <4> QED
        BY <1>6, <2>2, <3>1, <4>1
    <3> QED
      BY <3>2, <3>3
  <2>3. Ahead(NextCursor(page), Told \cup ToBeTold(page))
    BY <2>1, <2>2 DEF Ahead
  <2> QED
    BY <1>1, <1>4, <2>3 DEF page
<1> QED
  BY <1>9, <1>10

\* Telling the items of a page in ascending order keeps the order.
LEMMA TellingKeepsOrder ==
  ASSUME ToldInv, NEW items, NewItems(items), lastSeq \in Nat
  PROVE  LET longer == handled \o Ascending(items)
         IN  /\ longer \in Seq(Nat)
             /\ \A n, k \in DOMAIN longer : n < k => longer[n] < longer[k]
             /\ {longer[n] : n \in DOMAIN longer} = Told \cup items
<1> DEFINE listed == Ascending(items)
           longer == handled \o listed
<1>1. items \subseteq Nat /\ IsFiniteSet(items)
  <2>1. items \subseteq 0..lastSeq /\ IsFiniteSet(0..lastSeq)
    BY FS_Interval DEF NewItems
  <2>2. IsFiniteSet(items)
    BY <2>1, FS_Subset
  <2> QED
    BY <2>1, <2>2
<1>2. /\ listed \in Seq(items) /\ Len(listed) \in Nat
      /\ \A m \in items : \E n \in 1..Len(listed) : listed[n] = m
      /\ \A n, k \in 1..Len(listed) : n < k => listed[n] < listed[k]
  BY <1>1, AscendingLists
<1> HIDE DEF listed
<1>3. \A n \in 1..Len(listed) : listed[n] \in items /\ listed[n] \in Nat
  <2>1. \A n \in 1..Len(listed) : listed[n] \in items
    BY <1>2
  <2> QED
    BY <1>1, <2>1
<1>4. handled \in Seq(Nat) /\ listed \in Seq(Nat) /\ Len(handled) \in Nat
  <2>1. listed \in [1..Len(listed) -> Nat]
    BY <1>2, <1>3
  <2>2. listed \in Seq(Nat)
    BY <1>2, <2>1
  <2> QED
    BY <2>2 DEF ToldInv
<1>5. /\ longer \in Seq(Nat) /\ Len(longer) = Len(handled) + Len(listed)
      /\ DOMAIN longer = 1..(Len(handled) + Len(listed))
      /\ \A n \in 1..Len(handled) : longer[n] = handled[n]
      /\ \A n \in 1..Len(listed) : longer[Len(handled) + n] = listed[n]
  BY <1>4
<1>6. /\ \A n \in 1..Len(handled) : handled[n] \in Nat /\ handled[n] \in Told
      /\ \A h \in Told : \E n \in 1..Len(handled) : h = handled[n]
  BY <1>4 DEF Told
<1> HIDE DEF longer
<1>7. \A n \in DOMAIN longer : n \in 1..Len(handled) \/ \E k \in 1..Len(listed) : n = Len(handled) + k
  <2> SUFFICES ASSUME NEW n \in DOMAIN longer, n \notin 1..Len(handled)
               PROVE  \E k \in 1..Len(listed) : n = Len(handled) + k
    OBVIOUS
  <2>1. n \in Nat /\ n > Len(handled) /\ n <= Len(handled) + Len(listed)
    BY <1>2, <1>4, <1>5
  <2>2. n - Len(handled) \in 1..Len(listed) /\ n = Len(handled) + (n - Len(handled))
    BY <1>2, <1>4, <2>1
  <2> QED
    BY <2>2
<1>8. ASSUME NEW n \in DOMAIN longer, NEW k \in DOMAIN longer, n < k
      PROVE  longer[n] < longer[k]
  <2>1. CASE k \in 1..Len(handled)
    <3>1. n \in 1..Len(handled) /\ DOMAIN handled = 1..Len(handled)
      BY <1>4, <1>5, <1>8, <2>1
    <3> QED
      BY <1>5, <1>8, <2>1, <3>1 DEF ToldInv, HandledInOrder
  <2>2. CASE n \in 1..Len(handled) /\ k \notin 1..Len(handled)
    <3>1. PICK j \in 1..Len(listed) : k = Len(handled) + j
      BY <1>7, <2>2
    <3>2. longer[n] \in Told /\ longer[k] \in items
      BY <1>3, <1>5, <1>6, <2>2, <3>1
    <3> QED
      BY <3>2 DEF NewItems
  <2>3. CASE n \notin 1..Len(handled) /\ k \notin 1..Len(handled)
    <3>1. PICK i \in 1..Len(listed) : n = Len(handled) + i
      BY <1>7, <2>3
    <3>2. PICK j \in 1..Len(listed) : k = Len(handled) + j
      BY <1>7, <2>3
    <3>3. i < j
      BY <1>2, <1>4, <1>8, <3>1, <3>2
    <3> QED
      BY <1>2, <1>5, <3>1, <3>2, <3>3
  <2> QED
    BY <2>1, <2>2, <2>3
<1>9. {longer[n] : n \in DOMAIN longer} = Told \cup items
  <2>1. \A n \in DOMAIN longer : longer[n] \in Told \cup items
    BY <1>3, <1>5, <1>6, <1>7
  <2>2. \A h \in Told : \E n \in DOMAIN longer : longer[n] = h
    <3>1. \A n \in 1..Len(handled) : n \in DOMAIN longer
      BY <1>2, <1>4, <1>5
    <3> QED
      BY <1>5, <1>6, <3>1
  <2>3. \A m \in items : \E n \in DOMAIN longer : longer[n] = m
    <3>1. \A n \in 1..Len(listed) : Len(handled) + n \in DOMAIN longer
      BY <1>2, <1>4, <1>5
    <3> QED
      BY <1>2, <1>5, <3>1
  <2> QED
    BY <2>1, <2>2, <2>3
<1> QED
  BY <1>5, <1>8, <1>9 DEF longer, listed
-----------------------------------------------------------------------------
(* Retention, while phones read and agents upload.                          *)

\* A step that changes the Hub's tables is an upload, a maintenance step or the
\* clock; the clock and the pruner move in no other.
LEMMA HubSteps ==
  ASSUME [PhoneNext]_vars
  PROVE  HubNext \/ UNCHANGED hubVars
<1>1. CASE AgentUploads \/ Maintenance \/ ClockTicks
  BY <1>1 DEF HubNext, AgentUploads, Maintenance, ClockTicks
<1>2. CASE RequestPage \/ ReadFloor \/ ServePage \/ SaveCursor \/ SyncFails \/ HandleEvents
           \/ DropResult \/ OrphanReadsFloor \/ OrphanIsServed \/ OrphanSaves \/ OrphanDies
           \/ StopPolling \/ StartPolling \/ Destroy \/ UNCHANGED vars
  BY <1>2 DEF RequestPage, ReadFloor, ServePage, SaveCursor, SyncFails, HandleEvents,
     DropResult, OrphanReadsFloor, OrphanIsServed, OrphanSaves, OrphanDies, StopPolling,
     StartPolling, Destroy, ghosts, vars
<1> QED
  BY <1>1, <1>2 DEF PhoneNext

\* The event table, its counter and the maintenance pass are well typed.
THEOREM HubTypeCorrect == PhoneSpec => []HubTypeOK
<1> DEFINE Inv == FeedInv /\ HubTypeOK
<1>1. PhoneInit => Inv
  <2>1. HubInit => HubTypeOK
    BY ClockBounds DEF HubInit, HubTypeOK, IdlePruner
  <2> QED
    BY <2>1, InitFeedInv DEF PhoneInit
<1>2. Inv /\ [PhoneNext]_vars => Inv'
  <2> SUFFICES ASSUME Inv, [PhoneNext]_vars PROVE Inv'
    OBVIOUS
  <2>1. FeedInv' /\ HubInv
    BY StepKeepsFeedInv DEF FeedInv
  <2>2. CASE HubNext
    BY <2>1, <2>2, StepKeepsHubType
  <2>3. CASE UNCHANGED hubVars
    BY <2>1, <2>3 DEF hubVars, HubTypeOK
  <2> QED
    BY <2>2, <2>3, HubSteps
<1> QED
  BY <1>1, <1>2, PTL DEF PhoneSpec

\* The phone only reads: with it and its orphan the store does what it does alone.
LEMMA PhoneRunsHub == PhoneSpec => HubSpec
<1>1. PhoneInit => HubInit
  BY DEF PhoneInit
<1>2. [PhoneNext]_vars => [HubNext]_hubVars
  BY HubSteps
<1> QED
  BY <1>1, <1>2, PTL DEF PhoneSpec, HubSpec

\* The store keeps its invariant with any readers.
LEMMA HubInvariant == HubSpec => []HubInv
<1>1. HubInv /\ [HubNext]_hubVars => HubInv'
  <2>1. HubInv /\ UNCHANGED hubVars => HubInv'
    BY DEF HubInv, hubVars, Entry
  <2> QED
    BY <2>1, HubKeepsHubInv
<1> QED
  BY <1>1, InitHubInv, PTL DEF HubSpec

\* Store.PruneEvents never takes one of the newest MinEvents rows of an agent,
\* for any policy, whatever is uploaded between two batches of a pass and in
\* whatever order the rows were received; in the phone's runs too.
THEOREM NewestSurvive ==
  /\ HubSpec => NewestRowsSurvive
  /\ PhoneSpec => NewestRowsSurvive
<1> DEFINE Spared == \A a \in Agents : NewestRows(RowsOf(a), MinEvents) \subseteq rows'
<1>1. HubInv /\ [HubNext]_hubVars => [Spared]_hubVars
  BY StepSparesNewest
<1>2. HubSpec => NewestRowsSurvive
  BY <1>1, HubInvariant, PTL DEF HubSpec, NewestRowsSurvive
<1> QED
  BY <1>2, PhoneRunsHub, PTL

\* When a maintenance pass is through with an agent, the agent is within the
\* hard cap and age pruning has left nothing it may take; in the phone's runs too.
THEOREM PassesAreThorough ==
  /\ HubSpec => PassIsThorough
  /\ PhoneSpec => PassIsThorough
<1> DEFINE Thorough ==
      PruneBatch /\ pruner'.agent # pruner.agent =>
        LET kept == {r \in rows' : r.agent = pruner.agent}
        IN  /\ Cardinality(kept) <= MaxEvents
            /\ \A r \in kept : r.received < pruner.cutoff =>
                                r \in NewestRows(kept, MinEvents)
<1>1. HubInv => Thorough
  BY PassLeavesThorough
<1>2. HubSpec => PassIsThorough
  BY <1>1, HubInvariant, PTL DEF HubSpec, PassIsThorough
<1> QED
  BY <1>2, PhoneRunsHub, PTL

\* When no handler's clock runs behind the order of the transactions, what is
\* retained of an agent's feed is its newest part: the floor tells the whole loss.
THEOREM NewestPartRetained ==
  ASSUME HandlerLag = 0
  PROVE  PhoneSpec => []RetainedIsNewestPart
<1> DEFINE Inv == FeedInv /\ ReceivedInOrder /\ RetainedIsNewestPart
<1>1. PhoneInit => Inv
  <2> SUFFICES ASSUME PhoneInit PROVE Inv
    OBVIOUS
  <2>1. now = 0 /\ pruner = IdlePruner /\ rows = {}
    BY DEF PhoneInit, HubInit
  <2>2. ReceivedInOrder /\ RetainedIsNewestPart
    BY <2>1 DEF ReceivedInOrder, RetainedIsNewestPart, IdlePruner, RowsOf
  <2> QED
    BY <2>2, InitFeedInv
<1>2. Inv /\ [PhoneNext]_vars => Inv'
  <2> SUFFICES ASSUME Inv, [PhoneNext]_vars PROVE Inv'
    OBVIOUS
  <2>1. FeedInv'
    BY StepKeepsFeedInv
  <2>2. HubInv /\ HubInv'
    BY <2>1 DEF FeedInv
  <2>3. CASE HubNext
    BY <2>1, <2>2, <2>3, StepKeepsNewestPart
  <2>4. CASE UNCHANGED hubVars
    BY <2>1, <2>4 DEF hubVars, ReceivedInOrder, RetainedIsNewestPart, RowsOf, Seqs
  <2> QED
    BY <2>3, <2>4, HubSteps
<1>3. Inv => RetainedIsNewestPart
  OBVIOUS
<1> QED
  BY <1>1, <1>2, <1>3, PTL DEF PhoneSpec

-----------------------------------------------------------------------------
(* The order in which events are told, step by step.                        *)

\* Every step moves the feed.
LEMMA StepMovesFeed ==
  ASSUME FeedInv, [PhoneNext]_vars
  PROVE  FeedMoves
<1>1. HubInv /\ HubInv'
  BY StepKeepsFeedInv DEF FeedInv
<1>2. OnlyAddsBeyond
  <2>1. CASE HubNext
    BY <1>1, <2>1, HubKeepsHubInv
  <2>2. CASE UNCHANGED hubVars
    BY <1>1, <2>2 DEF hubVars, OnlyAddsBeyond, HubInv
  <2> QED
    BY <2>1, <2>2, HubSteps
<1>3. accounted \subseteq accounted'
  BY DEF PhoneNext, AgentUploads, Maintenance, ClockTicks, RequestPage, ReadFloor, ServePage,
     SaveCursor, CommitCursor, SyncFails, HandleEvents, DropResult, OrphanReadsFloor,
     OrphanIsServed, OrphanSaves, OrphanDies, StopPolling, StartPolling, Destroy, ghosts,
     phoneVars, vars
<1> QED
  BY <1>1, <1>2, <1>3 DEF FeedMoves

\* Every step keeps the order.
LEMMA StepKeepsOrder ==
  ASSUME FeedInv, OrderInv, [PhoneNext]_vars
  PROVE  OrderInv'
<1>1. /\ HubInv /\ SyncInv(sync) /\ SyncInv(orphan) /\ CursorInv /\ lastSeq \in Nat
      /\ ToldInv
      /\ ~ regressed => AheadOf(cursor, sync)
      /\ FeedMoves /\ \A h \in Told : h \in Nat /\ h <= lastSeq
  BY StepMovesFeed DEF FeedInv, OrderInv, ToldInv, HubInv, Told
\* Where nothing is told, it is enough to look at the cursor and the
\* synchronisation the step leads to.
<1>2. ASSUME UNCHANGED <<handled, regressed>>, ~ regressed => AheadOf(cursor', sync')
      PROVE  OrderInv'
  <2>1. /\ ~ regressed => AheadOf(cursor, sync)'
        /\ \A h \in Told' : h <= lastSeq'
    BY <1>1, <1>2, AheadStays DEF AheadOf, Ahead, NewItems, Told, Position, Waiting, After,
       NextCursor, ToBeTold, Baseline, Rebased, RequiresRebase, CursorPredatesRetention
  <2> QED
    BY <1>1, <1>2, <2>1 DEF OrderInv, ToldInv, HandledInOrder
<1>3. AheadOf(cursor, sync) => AheadOf(cursor, Idle)
  BY DEF AheadOf, Ahead, Waiting, NewItems, Idle, Fetching
<1>4. CASE RequestPage
  <2>1. AheadOf(cursor, sync) => AheadOf(cursor, Requested)
    BY DEF AheadOf, Ahead, Waiting, NewItems, Requested, Fetching, After, Position
  <2> QED
    BY <1>1, <1>2, <1>4, <2>1 DEF RequestPage, ghosts
<1>5. CASE ReadFloor
  <2>1. sync.phase = "requested" /\ sync' = Bounded(sync) /\ After(Bounded(sync)) = After(sync)
    BY <1>5 DEF ReadFloor, Bounded, After
  <2>2. AheadOf(cursor, sync) => AheadOf(cursor, Bounded(sync))
    <3>1. Waiting(sync) = {} /\ Waiting(Bounded(sync)) = {} /\ Bounded(sync).phase = "bounded"
      BY <2>1 DEF Waiting, Bounded
    <3> QED
      BY <2>1, <3>1 DEF AheadOf, Fetching
  <2> QED
    BY <1>1, <1>2, <1>5, <2>1, <2>2 DEF ReadFloor, ghosts
<1>6. CASE ServePage
  <2>1. sync.phase = "bounded" /\ sync' = Served(sync) /\ After(Served(sync)) = After(sync)
    BY <1>6 DEF ServePage, Served, After
  <2>2. AheadOf(cursor, sync) => AheadOf(cursor, Served(sync))
    <3> SUFFICES ASSUME AheadOf(cursor, sync) PROVE AheadOf(cursor, Served(sync))
      OBVIOUS
    <3>1. Waiting(sync) = {} /\ Waiting(Served(sync)) = {} /\ Served(sync).phase = "served"
      BY <2>1 DEF Waiting, Served
    <3>2. Ahead(After(sync), Told)
      BY <2>1 DEF AheadOf, Fetching
    <3>3. /\ NewItems(Served(sync).items)
          /\ Ahead(NextCursor(Served(sync)), Told \cup ToBeTold(Served(sync)))
      BY <1>1, <2>1, <3>2, ServedIsNew
    <3> QED
      BY <2>1, <3>1, <3>2, <3>3 DEF AheadOf
  <2> QED
    BY <1>1, <1>2, <1>6, <2>1, <2>2 DEF ServePage, ghosts
<1>7. CASE SaveCursor
  <2> DEFINE saved == [phase |-> "saved", baseline |-> Baseline(sync), items |-> sync.items]
  <2>1. /\ sync.phase = "served" /\ sync' = saved /\ cursor' = NextCursor(sync)
        /\ UNCHANGED <<handled, regressed>>
    BY <1>7 DEF SaveCursor, CommitCursor
  <2>2. NextCursor(sync) \in Nat
    BY <1>1, <2>1 DEF SyncInv, PageInv, NextCursor
  <2>3. Position(NextCursor(sync)) = NextCursor(sync)
    BY <2>2, NoCursorIsNoPosition DEF Position
  <2>4. Waiting(saved) = ToBeTold(sync) /\ ToBeTold(sync) \subseteq sync.items
    BY DEF Waiting, ToBeTold
  <2>5. AheadOf(cursor, sync) => AheadOf(cursor', sync')
    BY <2>1, <2>3, <2>4 DEF AheadOf, NewItems, Fetching
  <2> QED
    BY <1>1, <1>2, <2>1, <2>5
<1>8. CASE HandleEvents
  <2>1. CASE sync.baseline \/ regressed
    BY <1>1, <1>2, <1>3, <1>8, <2>1 DEF HandleEvents
  <2>2. CASE ~ (sync.baseline \/ regressed)
    <3>1. /\ Waiting(sync) = sync.items /\ handled' = handled \o Ascending(sync.items)
          /\ sync' = Idle /\ UNCHANGED <<hubVars, cursor, regressed>> /\ AheadOf(cursor, sync)
      BY <1>1, <1>8, <2>2 DEF HandleEvents, Waiting
    <3>2. NewItems(sync.items)
      BY <3>1 DEF AheadOf
    <3>3. /\ handled' \in Seq(Nat)
          /\ \A n, k \in DOMAIN handled' : n < k => handled'[n] < handled'[k]
          /\ Told' = Told \cup sync.items
      <4> DEFINE longer == handled \o Ascending(sync.items)
      <4>1. /\ longer \in Seq(Nat)
            /\ \A n, k \in DOMAIN longer : n < k => longer[n] < longer[k]
            /\ {longer[n] : n \in DOMAIN longer} = Told \cup sync.items
        BY <1>1, <3>2, TellingKeepsOrder
      <4>2. handled' = longer
        BY <3>1
      <4> HIDE DEF longer
      <4> QED
        BY <4>1, <4>2 DEF Told
    <3>4. ToldInv'
      BY <1>1, <2>2, <3>1, <3>2, <3>3 DEF ToldInv, HandledInOrder, NewItems, hubVars
    <3>5. Ahead(Position(cursor), Told \cup sync.items)
      BY <3>1 DEF AheadOf
    <3>6. AheadOf(cursor, Idle)'
      BY <3>1, <3>3, <3>5
      DEF AheadOf, Ahead, Waiting, Idle, Fetching, NewItems, Position, RowsOf, hubVars
    <3>7. AheadOf(cursor, sync)'
      BY <3>1, <3>6 DEF Idle, AheadOf, Waiting, After, NextCursor, ToBeTold, Fetching
    <3> QED
      BY <3>4, <3>7 DEF OrderInv
  <2> QED
    BY <2>1, <2>2
<1>9. CASE SyncFails \/ DropResult \/ Destroy
  BY <1>1, <1>2, <1>3, <1>9 DEF SyncFails, DropResult, Destroy, ghosts
<1>10. CASE OrphanSaves
  <2>1. CASE regressed'
    <3>1. handled' = <<>>
      BY <1>10, <2>1 DEF OrphanSaves
    <3> QED
      BY <2>1, <3>1 DEF OrderInv, ToldInv, HandledInOrder, Told
  <2>2. CASE ~ regressed'
    <3>1. /\ ~ regressed /\ handled' = handled /\ sync' = sync /\ UNCHANGED hubVars
          /\ cursor = NoCursor \/ ~ (cursor' < cursor)
          /\ orphan.phase = "served" /\ CommitCursor(orphan)
      BY <1>10, <2>2 DEF OrphanSaves
    <3>2. cursor' \in Nat
      BY <1>1, <3>1, CommitCovers DEF Covered
    <3>3. Position(cursor) \in Nat /\ Position(cursor) <= Position(cursor')
      <4>1. cursor # NoCursor => cursor \in Nat
        BY <1>1 DEF CursorInv, Covered
      <4>2. Position(cursor') = cursor'
        BY <3>2, NoCursorIsNoPosition DEF Position
      <4>3. CASE cursor = NoCursor
        BY <3>2, <4>2, <4>3 DEF Position
      <4>4. CASE cursor # NoCursor
        BY <3>1, <3>2, <4>1, <4>2, <4>4 DEF Position
      <4> QED
        BY <4>3, <4>4
    <3>4. \A r \in RowsOf(Primary) : r.seq \in Nat
      BY <1>1, RowNumbers DEF RowsOf
    <3>5. \A r \in RowsOf(Primary) : r.seq > Position(cursor') => r.seq > Position(cursor)
      <4>1. Position(cursor') \in Nat
        BY <3>2, NoCursorIsNoPosition DEF Position
      <4> QED
        BY <3>3, <3>4, <4>1
    <3>6. AheadOf(cursor, sync) => AheadOf(cursor', sync)
      BY <3>5 DEF AheadOf, Ahead
    <3>7. \A stored, s : AheadOf(stored, s) => AheadOf(stored, s)'
      BY <1>1, <3>1, AheadStays
    <3>8. AheadOf(cursor, sync)'
      BY <1>1, <3>1, <3>6, <3>7 DEF AheadOf, Position, Waiting, After, NextCursor, ToBeTold,
         Baseline, Rebased, RequiresRebase, CursorPredatesRetention
    <3> QED
      BY <1>1, <2>2, <3>1, <3>8 DEF OrderInv, ToldInv, HandledInOrder, Told, hubVars
  <2> QED
    BY <2>1, <2>2
<1>11. CASE AgentUploads \/ Maintenance \/ ClockTicks \/ OrphanReadsFloor \/ OrphanIsServed
            \/ OrphanDies \/ StopPolling \/ StartPolling \/ UNCHANGED vars
  <2>1. UNCHANGED <<cursor, sync, handled, regressed>>
    BY <1>11 DEF AgentUploads, Maintenance, ClockTicks, OrphanReadsFloor, OrphanIsServed,
       OrphanDies, StopPolling, StartPolling, ghosts, phoneVars, vars
  <2> QED
    BY <1>1, <1>2, <2>1
<1> QED
  BY <1>4, <1>5, <1>6, <1>7, <1>8, <1>9, <1>10, <1>11 DEF PhoneNext

\* The notification policy is given the events in ascending order and none of
\* them twice, whatever is uploaded, pruned, rebased and recreated, until an
\* orphaned thread moves the cursor back.
THEOREM ToldInOrder == PhoneSpec => []HandledInOrder
<1> DEFINE Inv == FeedInv /\ OrderInv
<1>1. PhoneInit => Inv
  <2> SUFFICES ASSUME PhoneInit PROVE Inv
    OBVIOUS
  <2>1. handled = <<>> /\ rows = {} /\ regressed = FALSE /\ sync = Idle
    BY DEF PhoneInit, HubInit
  <2>2. OrderInv
    BY <2>1 DEF OrderInv, ToldInv, HandledInOrder, Told, AheadOf, Ahead, RowsOf, Idle,
       Waiting, NewItems, Fetching
  <2> QED
    BY <2>2, InitFeedInv
<1>2. Inv /\ [PhoneNext]_vars => Inv'
  BY StepKeepsFeedInv, StepKeepsOrder
<1>3. Inv => HandledInOrder
  BY DEF OrderInv, ToldInv
<1> QED
  BY <1>1, <1>2, <1>3, PTL DEF PhoneSpec
=============================================================================
