-------------------------- MODULE MCEventPipeline --------------------------
(* One task that changes status in every way, a Hub that keeps one event. *)
EXTENDS EventPipeline
============================================================================
