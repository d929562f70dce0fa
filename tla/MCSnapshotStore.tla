-------------------------- MODULE MCSnapshotStore --------------------------
(* Both collectors configured, one clock tick, one correction of the clock. *)
EXTENDS SnapshotStore
============================================================================
