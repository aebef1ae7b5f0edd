--------------------------- MODULE MCDelegations ---------------------------
(* Two Bots on one plan. *)
EXTENDS Delegations
=============================================================================
