----------------------------- MODULE MCRestart -----------------------------
(* A Bot's work on a plan, and its desk. *)
EXTENDS Restart
=============================================================================
