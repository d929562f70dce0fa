--------------------------- MODULE MCEventOutbox ---------------------------
(* Two tasks, one live status, every listing of them. *)
EXTENDS EventOutbox, TLC

TaskSymmetry == Permutations(Tasks)
============================================================================
