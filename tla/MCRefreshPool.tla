--------------------------- MODULE MCRefreshPool ----------------------------
(* A refresh of a few accounts. *)
EXTENDS RefreshPool
=============================================================================
