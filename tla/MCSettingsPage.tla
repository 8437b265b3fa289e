--------------------------- MODULE MCSettingsPage ---------------------------
(* SettingsPage with two configurations, one poll and two saves. *)
EXTENDS SettingsPage
=============================================================================
