--------------------------- MODULE MCTaskLifecycle --------------------------
(* TaskLifecycle on small instances: see the .cfg files of the same prefix. *)
EXTENDS TaskLifecycle, TLC
=============================================================================
