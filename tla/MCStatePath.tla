---------------------------- MODULE MCStatePath ----------------------------
(* Two requests may overlap; the Hub calls an agent offline a tick later. *)
EXTENDS StatePath
============================================================================
