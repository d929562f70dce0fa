------------------------ MODULE MCServiceCommands ------------------------
(* A good and a broken candidate for the deployed build, a good and a broken *)
(* configuration, three commands and two faults.                             *)
EXTENDS ServiceCommands
============================================================================
