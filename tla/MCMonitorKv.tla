---------------------------- MODULE MCMonitorKv -----------------------------
(* Monitor with a history variable for the claim about what masking hides. *)
EXTENDS MCMonitor

VARIABLE kvTrouble  \* some KV write failed, timed out or died with the process

InitKv == Init /\ kvTrouble = FALSE

NextKv ==
    /\ Next
    /\ kvTrouble' = \/ kvTrouble
                    \/ crashes' # crashes
                    \/ \E p \in Procs : Saving(p) /\ pc'[p] # pc[p] /\ kv' # frame[p].snap

SpecKv == InitKv /\ [][NextKv]_<<vars, kvTrouble>>

\* README.md:32 and :34: turning masking on hides the snapshot there is at once,
\* and the KV store may hold full identities only if its write failed.  So with
\* every write in effect and nothing under way both are masked.
MaskedConfigMasks ==
    config.mask /\ ~kvTrouble /\ (\A p \in Procs : pc[p] \in {"dead", "wait", "idle"})
        => status.ident # "clear" /\ kv.ident # "clear"
=============================================================================
