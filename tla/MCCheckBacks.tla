---------------------------- MODULE MCCheckBacks ----------------------------
(* One Bot with two jobs, that works one of them at a time. *)
EXTENDS CheckBacks
=============================================================================
