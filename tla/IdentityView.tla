---------------------------- MODULE IdentityView ----------------------------
(***************************************************************************)
(* What the plugin promises about the identities (e-mail and account ID)   *)
(* in the status it reports, with no locks, goroutines or calls: a switch  *)
(* `mask', the way identities are `shown', and whether one refresh that    *)
(* began before the switch was turned on is still `stale', that is, still  *)
(* free to report what it read with the switch off.  Monitor and           *)
(* StatusStore implement this specification (their View).                  *)
(***************************************************************************)

VARIABLES
    mask,   \* Config.MaskAccountIdentity
    shown,  \* "none": no identity reported; "masked"; "clear": one in full
    stale   \* a refresh that read mask = FALSE may still publish

viewVars == <<mask, shown, stale>>

Idents == {"none", "masked", "clear"}

\* maskEmail and maskID over every account.
Hidden(i) == IF i = "clear" THEN "masked" ELSE i

Init ==
    /\ mask = TRUE
    /\ shown = "none"
    /\ stale = FALSE

\* Turning the switch on hides what is reported, in the same step, and leaves
\* at most one refresh behind that has read the switch off.
Configure(m) ==
    /\ mask' = m
    /\ shown' = IF m /\ ~mask THEN Hidden(shown) ELSE shown
    /\ stale' \in IF ~m THEN {FALSE} ELSE IF mask THEN {stale} ELSE BOOLEAN

\* A refresh reports.  With the switch on only the stale one reports in full,
\* and by reporting it stops being stale: it cannot happen twice.
Publish ==
    /\ shown' \in Idents
    /\ shown' = "clear" => ~mask \/ stale
    /\ stale' = FALSE
    /\ UNCHANGED mask

\* The stale refresh gives up without reporting.
Abandon ==
    /\ stale' = FALSE
    /\ UNCHANGED <<mask, shown>>

\* A stored snapshot is reported again.
Restore ==
    /\ shown' \in Idents
    /\ mask => shown' # "clear"
    /\ UNCHANGED <<mask, stale>>

\* The process starts again from its defaults.
Restart ==
    /\ mask' = TRUE
    /\ shown' = "none"
    /\ stale' = FALSE

Next ==
    \/ \E m \in BOOLEAN : Configure(m)
    \/ Publish
    \/ Abandon
    \/ Restore
    \/ Restart

Spec == Init /\ [][Next]_viewVars
=============================================================================
