--------------------------- MODULE MCRuntimeCheck ---------------------------
(* RuntimeCheck with two versions and four keys. *)
EXTENDS RuntimeCheck
=============================================================================
