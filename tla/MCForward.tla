----------------------------- MODULE MCForward ------------------------------
(* One call of Forward with small bodies. *)
EXTENDS Forward, TLC
=============================================================================
