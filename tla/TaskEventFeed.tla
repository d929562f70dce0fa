--------------------------- MODULE TaskEventFeed ---------------------------
(***************************************************************************)
(* What the event transport promises, without saying how: the development  *)
(* machine appends task events to a log, the Hub publishes them in log      *)
(* order, one or several at a time, leaving none out, and every event is    *)
(* published in the end (docs/API.md "Durable agent outbox",               *)
(* docs/DECISIONS.md "transitions that must not be lost").                  *)
(***************************************************************************)
EXTENDS Naturals

CONSTANT EventIds \* the possible values of an event's field seq

VARIABLES
  log,       \* the events appended so far
  published  \* those the Hub has put into its feed

feedVars == <<log, published>>

FeedInit ==
  /\ log = {}
  /\ published = {}

Append ==
  /\ log \subseteq log'
  /\ \A e \in log' \ log : e.seq \in EventIds /\ (\A f \in log : f.seq < e.seq)
  /\ UNCHANGED published

Publish ==
  /\ \E last \in log \ published :
       published' = {e \in log : e.seq <= last.seq}
  /\ UNCHANGED log

EventuallyPublished ==
  \A n \in EventIds :
    (\E e \in log : e.seq = n) ~> (\E e \in published : e.seq = n)

FeedSpec == FeedInit /\ [][Append \/ Publish]_feedVars /\ EventuallyPublished
============================================================================
