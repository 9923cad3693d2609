---------------------------- MODULE MCEventQueue ----------------------------
(* EventQueue on small instances: see the .cfg files of the same prefix. *)
EXTENDS EventQueue, TLC
=============================================================================
