---------------------------- MODULE MCSubmissions ----------------------------
(* A ticket of one plan, from before it is made. *)
EXTENDS Submissions
=============================================================================
