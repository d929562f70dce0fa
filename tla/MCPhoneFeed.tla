---------------------------- MODULE MCPhoneFeed ----------------------------
(* The phone follows agent "a"; agent "b" uploads to the same Hub. *)
EXTENDS PhoneFeed

EventOwner == [id \in EventIds |-> IF id = 1 THEN "b" ELSE "a"]
============================================================================
