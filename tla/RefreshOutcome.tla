--------------------------- MODULE RefreshOutcome ---------------------------
(***************************************************************************)
(* What refresh promises of its account checks, with no goroutines: they   *)
(* are published once, all together, and an account is spoilt (marked as   *)
(* failed, or short of data, for no fault of its own) only if the context  *)
(* was done or the connection to the host closed by then.  This is the     *)
(* step Monitor takes as Publish; RefreshPool implements it.               *)
(***************************************************************************)

VARIABLES
    lost,       \* the context is done, or the connection closed
    published,  \* the snapshot is out
    spoilt      \* some account in it is spoilt

outcomeVars == <<lost, published, spoilt>>

Init == lost \in BOOLEAN /\ published = FALSE /\ spoilt = FALSE

Lose == lost' = TRUE /\ UNCHANGED <<published, spoilt>>

Publish ==
    /\ ~published
    /\ published' = TRUE
    /\ spoilt' \in (IF lost THEN BOOLEAN ELSE {FALSE})
    /\ UNCHANGED lost

Next == Lose \/ Publish

Spec == Init /\ [][Next]_outcomeVars
=============================================================================
