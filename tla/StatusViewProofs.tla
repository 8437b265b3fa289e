-------------------------- MODULE StatusViewProofs --------------------------
(***************************************************************************)
(* StatusStore implements IdentityView, as Monitor does: what the slices   *)
(* hold and who writes them when comes to the same promise.                *)
(***************************************************************************)
EXTENDS StatusStoreProofs

(***************************************************************************)
(* One refresh.                                                            *)
(***************************************************************************)
Exclusive == \A p \in Procs : pc[p] \in {"check", "refreshSave"} => refreshMu = p

LEMMA InitExclusive == Init => Exclusive
BY DEF Init, Exclusive

LEMMA ExclusiveStep == Holding /\ Exclusive /\ [Next]_vars => Exclusive'
<1> SUFFICES ASSUME Holding, Exclusive, [Next]_vars PROVE Exclusive'
    OBVIOUS
<1> USE StoreAssumption DEF Holding, Shape, Exclusive, Go
<1>1. ASSUME NEW p \in Procs,
             \/ SetHostBroker(p) \/ Marshal(p) \/ CheckAccount(p) \/ MaskAccount(p)
      PROVE  Exclusive'
    BY <1>1 DEF SetHostBroker, Marshal, CheckAccount, MaskAccount
<1>2. ASSUME NEW p \in Procs,
             \/ Health(p) \/ HealthAnswers(p) \/ StatusJSON(p) \/ TestAnswers(p)
             \/ ConfigApplied(p) \/ InitHostServices(p) \/ LoadSnapshot(p)
             \/ LoadSnapshotFails(p) \/ InstallSnapshot(p) \/ RestartLoop(p)
      PROVE  Exclusive'
    BY <1>2 DEF Health, HealthAnswers, StatusJSON, TestAnswers, ConfigApplied, InitHostServices,
                LoadSnapshot, LoadSnapshotFails, InstallSnapshot, RestartLoop
<1>3. ASSUME NEW p \in Procs, SaveSnapshot(p) PROVE Exclusive'
    BY <1>3 DEF SaveSnapshot
<1>4. ASSUME NEW p \in Procs, BeginRefresh(p) PROVE Exclusive'
    BY <1>4 DEF BeginRefresh
<1>5. ASSUME NEW p \in Procs, Publish(p) PROVE Exclusive'
    BY <1>5 DEF Publish
<1>6. ASSUME NEW p \in Procs, NEW doc \in Documents, ApplyConfig(p, doc) PROVE Exclusive'
    BY <1>6 DEF ApplyConfig
<1>7. ASSUME UNCHANGED vars PROVE Exclusive'
    BY <1>7 DEF vars
<1> QED
    BY <1>1, <1>2, <1>3, <1>4, <1>5, <1>6, <1>7 DEF Next, Step

(***************************************************************************)
(* What is shown.                                                          *)
(***************************************************************************)
AllMasked(s) == \A a \in DOMAIN s : s[a] = Masked(s[a])

LEMMA ShownIs ==
    /\ DOMAIN heap[status.accounts] = {} => Shown = "none"
    /\ DOMAIN heap[status.accounts] # {} /\ (mu # NoProc \/ AllMasked(heap[status.accounts]))
           => Shown = "masked"
    /\ DOMAIN heap[status.accounts] # {} /\ mu = NoProc /\ ~AllMasked(heap[status.accounts])
           => Shown = "clear"
BY DEF Shown, AllMasked

LEMMA ShownIsIdent == Shown \in View!Idents
BY DEF Shown, View!Idents

LEMMA SameShown ==
    ASSUME heap'[status'.accounts] = heap[status.accounts], mu' # NoProc <=> mu # NoProc
    PROVE  Shown' = Shown
BY DEF Shown

\* A slice of one form that is masked throughout stays what it is.
LEMMA UniformIsMasked ==
    ASSUME NEW s, NEW t, Uniform(s, TRUE, t) PROVE AllMasked(s)
<1> SUFFICES ASSUME NEW a \in DOMAIN s PROVE s[a] = Masked(s[a])
    BY DEF AllMasked
<1>1. a \in Accounts /\ s[a] = [who |-> Display(Raw[a], TRUE), at |-> t]
    BY DEF Uniform
<1>2. Masked([who |-> Display(Raw[a], TRUE), at |-> t]) = [who |-> Display(Raw[a], TRUE), at |-> t]
    BY <1>1, MaskedAccount
<1> QED
    BY <1>1, <1>2

LEMMA RestoredIsMasked ==
    ASSUME NEW s, NEW t, Consistent(s, t), config.mask
    PROVE  AllMasked(Restored(s))
<1> DEFINE r == Restored(s)
<1>1. DOMAIN r = DOMAIN s /\ \A a \in DOMAIN s : r[a] = Masked(s[a])
    BY DEF Restored
<1>2. ASSUME NEW a \in DOMAIN s PROVE Masked(Masked(s[a])) = Masked(s[a])
    <2>1. Mixed(s, t)
        BY ConsistentIsMixed
    <2>2. PICK m \in BOOLEAN : s[a] = [who |-> Display(Raw[a], m), at |-> t]
        BY <2>1 DEF Mixed
    <2>3. a \in Accounts
        BY <2>1 DEF Mixed
    <2>4. Masked(s[a]) = [who |-> Display(Raw[a], TRUE), at |-> t]
        BY <2>2, <2>3, MaskedAccount
    <2> QED
        BY <2>3, <2>4, MaskedAccount
<1> HIDE DEF r
<1>3. AllMasked(r)
    BY <1>1, <1>2 DEF AllMasked
<1> QED
    BY <1>3 DEF r

(***************************************************************************)
(* Who is stale.                                                           *)
(***************************************************************************)
Stale(p) == config.mask /\ pc[p] = "check" /\ ~local[p].mask

LEMMA StaleRefreshIs == StaleRefresh <=> \E p \in Procs : Stale(p)
BY DEF StaleRefresh, Stale

LEMMA ViewStutter ==
    ASSUME config' = config, Shown' = Shown, \A p \in Procs : Stale(p)' <=> Stale(p)
    PROVE  UNCHANGED View!viewVars
BY DEF View!viewVars, StaleRefresh, Stale

\* A process goes on, but neither to the checks nor from them.
LEMMA OthersStale ==
    ASSUME Holding, config' = config, NEW p \in Procs, NEW step, NEW frame, Go(p, step, frame),
           pc[p] # "check", step # "check"
    PROVE  \A q \in Procs : Stale(q)' <=> Stale(q)
BY DEF Holding, Shape, Go, Stale

(***************************************************************************)
(* Every step is one of IdentityView, or none.                             *)
(***************************************************************************)
LEMMA QuietIsStutter ==
    ASSUME Holding, NEW p \in Procs,
           \/ SetHostBroker(p) \/ Marshal(p) \/ Health(p) \/ HealthAnswers(p)
           \/ StatusJSON(p) \/ TestAnswers(p) \/ SaveSnapshot(p) \/ InitHostServices(p)
           \/ LoadSnapshotFails(p) \/ RestartLoop(p)
    PROVE  UNCHANGED View!viewVars
<1> USE DEF Holding, Shape
<1>1. /\ heap' = heap /\ mu' = mu /\ config' = config /\ status'.accounts = status.accounts
      /\ \A q \in Procs : Stale(q)' <=> Stale(q)
    <2>1. CASE SetHostBroker(p) \/ Marshal(p)
        BY <2>1 DEF SetHostBroker, Marshal, Marshalling, Stale
    <2>2. CASE \/ Health(p) \/ HealthAnswers(p) \/ StatusJSON(p) \/ TestAnswers(p)
               \/ LoadSnapshotFails(p)
        BY <2>2, OthersStale DEF Health, HealthAnswers, StatusJSON, TestAnswers, LoadSnapshotFails
    <2>3. CASE SaveSnapshot(p)
        BY <2>3, OthersStale DEF SaveSnapshot
    <2>4. CASE InitHostServices(p) \/ RestartLoop(p)
        BY <2>4, OthersStale DEF InitHostServices, RestartLoop
    <2> QED
        BY <2>1, <2>2, <2>3, <2>4
<1> QED
    BY <1>1, SameShown, ViewStutter

LEMMA BeginRefreshIsStutter ==
    ASSUME Holding, Content, Exclusive, NEW p \in Procs, BeginRefresh(p)
    PROVE  UNCHANGED View!viewVars
<1> USE DEF Holding, Shape
<1>1. PICK a \in Unused :
          /\ heap' = [heap EXCEPT ![a] = Nothing]
          /\ Go(p, "check", [Free EXCEPT !.mask = config.mask, !.addr = a, !.last = refreshes'])
    BY DEF BeginRefresh
<1>2. config' = config /\ status' = status /\ mu' = mu
    BY DEF BeginRefresh
<1>3. heap'[status'.accounts] = heap[status.accounts]
    BY <1>1, <1>2 DEF Unused
<1>4. pc'[p] = "check" /\ local'[p].mask = config.mask
    BY <1>1 DEF Go, Free
<1>5. \A q \in Procs : pc[q] # "check"
    BY StoreAssumption DEF Exclusive, BeginRefresh
<1>6. \A q \in Procs : q # p => pc'[q] = pc[q]
    BY <1>1 DEF Go
<1>7. \A q \in Procs : ~Stale(q) /\ ~Stale(q)'
    <2> TAKE q \in Procs
    <2>1. CASE q = p
        BY <1>2, <1>4, <1>5, <2>1 DEF Stale
    <2>2. CASE q # p
        BY <1>5, <1>6, <2>2 DEF Stale
    <2> QED
        BY <2>1, <2>2
<1> QED
    BY <1>2, <1>3, <1>7, SameShown, ViewStutter

\* A worker writes into a slice that is not published.
LEMMA CheckAccountIsStutter ==
    ASSUME Holding, NEW p \in Procs, CheckAccount(p)
    PROVE  UNCHANGED View!viewVars
<1>1. heap'[status.accounts] = heap[status.accounts]
    BY DEF Holding, Unpublished, CheckAccount
<1>2. config' = config /\ status' = status /\ mu' = mu /\ pc' = pc /\ local' = local
    BY DEF CheckAccount
<1> QED
    BY <1>1, <1>2, SameShown, ViewStutter DEF Stale

LEMMA PublishIsPublish ==
    ASSUME Holding, Content, Exclusive, NEW p \in Procs, Publish(p)
    PROVE  View!Publish
<1> USE DEF Holding, Shape
<1> DEFINE s == heap[local[p].addr]
<1>1. /\ pc[p] = "check" /\ mu = NoProc /\ mu' = mu /\ config' = config /\ heap' = heap
      /\ status'.accounts = local[p].addr
    BY DEF Publish, CanWrite, Summarize
<1>2. local[p].mask \in BOOLEAN /\ Uniform(s, local[p].mask, local[p].last)
    BY <1>1 DEF Content, Good
<1>3. Shown' = "clear" => ~local[p].mask
    <2> SUFFICES ASSUME local[p].mask PROVE Shown' # "clear"
        OBVIOUS
    <2>1. AllMasked(s)
        BY <1>2, UniformIsMasked
    <2> QED
        BY <1>1, <2>1 DEF Shown, AllMasked
<1>4. Shown' \in View!Idents
    BY DEF Shown, View!Idents
<1>5. Shown' = "clear" => ~config.mask \/ StaleRefresh
    BY <1>1, <1>3 DEF StaleRefresh
<1>6. \A q \in Procs : ~Stale(q)'
    <2> TAKE q \in Procs
    <2>1. q # p => pc[q] # "check"
        BY <1>1 DEF Exclusive
    <2>2. pc'[q] # "check"
        BY <2>1 DEF Publish, Go
    <2> QED
        BY <2>2 DEF Stale
<1>7. ~StaleRefresh'
    BY <1>6 DEF StaleRefresh, Stale
<1> QED
    BY <1>1, <1>4, <1>5, <1>7 DEF View!Publish

LEMMA ApplyConfigIsConfigure ==
    ASSUME Holding, Content, NEW p \in Procs, NEW doc \in Documents, ApplyConfig(p, doc)
    PROVE  \E m \in BOOLEAN : View!Configure(m)
<1> USE DEF Holding, Shape
<1>1. PICK cfg \in ParseConfig(doc) :
          /\ config' = cfg
          /\ IF cfg.mask /\ ~config.mask
             THEN \E a \in SliceCopy :
                     /\ heap' = [heap EXCEPT ![a] = heap[status.accounts]]
                     /\ status' = [status EXCEPT !.accounts = a]
                     /\ mu' = p
                     /\ Go(p, "mask", [Free EXCEPT !.addr = a])
             ELSE /\ Go(p, IF host THEN "restart" ELSE "idle", Free)
                  /\ UNCHANGED <<broker, heap, status, mu>>
    BY DEF ApplyConfig
<1>2. cfg.mask \in BOOLEAN /\ config.mask \in BOOLEAN
    BY <1>1, StoreAssumption DEF Content, Config
<1>3. pc[p] = "idle" /\ mu = NoProc
    BY DEF ApplyConfig, CanWrite
<1>4. CASE cfg.mask /\ ~config.mask
    <2>1. PICK a \in SliceCopy :
              /\ heap' = [heap EXCEPT ![a] = heap[status.accounts]]
              /\ status' = [status EXCEPT !.accounts = a]
              /\ mu' = p
        BY <1>1, <1>4
    <2>2. heap'[status'.accounts] = heap[status.accounts] /\ mu' # NoProc
        BY <2>1, StoreAssumption DEF SliceCopy, Unused, Content
    <2>3. Shown' = View!Hidden(Shown)
        <3>1. CASE DOMAIN heap[status.accounts] = {}
            <4>1. Shown = "none" /\ Shown' = "none"
                BY <2>2, <3>1 DEF Shown
            <4> QED
                BY <4>1 DEF View!Hidden
        <3>2. CASE DOMAIN heap[status.accounts] # {}
            <4>1. Shown' = "masked" /\ (Shown = "masked" \/ Shown = "clear")
                BY <2>2, <3>2 DEF Shown
            <4> QED
                BY <4>1 DEF View!Hidden
        <3> QED
            BY <3>1, <3>2
    <2>4. StaleRefresh' \in BOOLEAN
        BY DEF StaleRefresh
    <2>5. config'.mask = TRUE /\ config.mask = FALSE
        BY <1>1, <1>2, <1>4
    <2> QED
        BY <2>3, <2>4, <2>5 DEF View!Configure
<1>5. CASE ~(cfg.mask /\ ~config.mask)
    <2>1. /\ UNCHANGED <<heap, status, mu>>
          /\ Go(p, IF host THEN "restart" ELSE "idle", Free)
        BY <1>1, <1>5
    <2>2. Shown' = Shown
        BY <2>1, SameShown
    <2>3. CASE ~cfg.mask
        <3>1. config'.mask = FALSE
            BY <1>1, <1>2, <2>3
        <3>2. ~StaleRefresh'
            BY <3>1 DEF StaleRefresh
        <3>3. StaleRefresh' = FALSE
            BY <3>2 DEF StaleRefresh
        <3>4. View!Configure(FALSE)
            BY <2>2, <3>1, <3>3 DEF View!Configure
        <3> QED
            BY <3>4
    <2>4. CASE cfg.mask
        <3>1. config'.mask = TRUE /\ config.mask = TRUE
            BY <1>1, <1>2, <1>5, <2>4
        <3>2. \A q \in Procs :
                  (pc'[q] = "check" /\ ~local'[q].mask) <=> (pc[q] = "check" /\ ~local[q].mask)
            BY <1>3, <2>1 DEF Go
        <3>3. StaleRefresh' <=> StaleRefresh
            BY <3>1, <3>2 DEF StaleRefresh
        <3>4. StaleRefresh' = StaleRefresh
            BY <3>3 DEF StaleRefresh
        <3> QED
            BY <2>2, <3>1, <3>4 DEF View!Configure
    <2> QED
        BY <1>2, <2>3, <2>4
<1> QED
    BY <1>4, <1>5

\* Under p.mu nobody sees how far the masking has come.
LEMMA MaskAccountIsStutter ==
    ASSUME Holding, Content, NEW p \in Procs, MaskAccount(p)
    PROVE  UNCHANGED View!viewVars
<1>1. mu = p /\ local[p].addr = status.accounts /\ mu # NoProc
    BY StoreAssumption DEF Holding, Locked, MaskAccount
<1>2. config' = config /\ status' = status /\ mu' = mu /\ pc' = pc /\ local' = local
    BY DEF MaskAccount
<1>3. DOMAIN heap'[status.accounts] = DOMAIN heap[status.accounts]
    BY <1>1 DEF MaskAccount, Content, Holding, Shape
<1>4. Shown' = Shown
    BY <1>1, <1>2, <1>3 DEF Shown
<1> QED
    BY <1>2, <1>4, ViewStutter DEF Stale

LEMMA ConfigAppliedIsStutter ==
    ASSUME Holding, NEW p \in Procs, ConfigApplied(p)
    PROVE  UNCHANGED View!viewVars
<1>1. mu = p /\ local[p].addr = status.accounts /\ mu # NoProc
    BY StoreAssumption DEF Holding, Locked, ConfigApplied
<1>2. config' = config /\ status' = status /\ heap' = heap /\ mu' = NoProc
    BY DEF ConfigApplied
<1>3. AllMasked(heap[status.accounts])
    BY <1>1 DEF ConfigApplied, AllMasked
<1>4. Shown' = Shown
    BY <1>1, <1>2, <1>3 DEF Shown, AllMasked
<1>5. \A q \in Procs : Stale(q)' <=> Stale(q)
    BY <1>2, OthersStale DEF ConfigApplied
<1> QED
    BY <1>2, <1>4, <1>5, ViewStutter

LEMMA LoadSnapshotIsStutter ==
    ASSUME Holding, NEW p \in Procs, LoadSnapshot(p)
    PROVE  UNCHANGED View!viewVars
<1>1. PICK entry \in kv, a \in Unused :
          /\ heap' = [heap EXCEPT ![a] = entry.list]
          /\ Go(p, "install",
                [Free EXCEPT !.addr = a, !.last = entry.last, !.running = entry.running])
    BY DEF LoadSnapshot
<1>2. config' = config /\ status' = status /\ mu' = mu /\ pc[p] = "load"
    BY DEF LoadSnapshot
<1>3. heap'[status'.accounts] = heap[status.accounts]
    BY <1>1, <1>2 DEF Unused
<1>4. \A q \in Procs : Stale(q)' <=> Stale(q)
    BY <1>1, <1>2, OthersStale
<1> QED
    BY <1>2, <1>3, <1>4, SameShown, ViewStutter

LEMMA InstallSnapshotIsRestore ==
    ASSUME Holding, Content, NEW p \in Procs, InstallSnapshot(p)
    PROVE  View!Restore
<1> USE DEF Holding, Shape
<1> DEFINE s == heap[local[p].addr]
<1>1. /\ pc[p] = "install" /\ mu = NoProc /\ mu' = mu /\ config' = config
      /\ status'.accounts = local[p].addr
      /\ heap' = [heap EXCEPT ![local[p].addr] = Restored(s)]
      /\ local[p].addr \in Addrs
    BY DEF InstallSnapshot, CanWrite, Loaded, Writing
<1>2. heap'[status'.accounts] = Restored(s)
    BY <1>1 DEF Content
<1>3. config.mask => AllMasked(Restored(s))
    BY <1>1, RestoredIsMasked DEF Content, Good
<1>4. Shown' \in View!Idents
    BY DEF Shown, View!Idents
<1>5. config.mask => Shown' # "clear"
    BY <1>1, <1>2, <1>3 DEF Shown, AllMasked
<1>6. \A q \in Procs : Stale(q)' <=> Stale(q)
    BY <1>1, OthersStale DEF InstallSnapshot
<1>7. config.mask' = config.mask /\ StaleRefresh' = StaleRefresh
    BY <1>1, <1>6 DEF StaleRefresh, Stale
<1> QED
    BY <1>4, <1>5, <1>7 DEF View!Restore

LEMMA ViewStep ==
    ASSUME Holding, Content, Exclusive, [Next]_vars
    PROVE  [View!Next]_View!viewVars
<1>1. ASSUME UNCHANGED vars PROVE UNCHANGED View!viewVars
    BY <1>1, SameShown, ViewStutter DEF vars, Stale
<1> QED
    BY <1>1, QuietIsStutter, BeginRefreshIsStutter, CheckAccountIsStutter, PublishIsPublish,
       ApplyConfigIsConfigure, MaskAccountIsStutter, ConfigAppliedIsStutter,
       LoadSnapshotIsStutter, InstallSnapshotIsRestore DEF Next, Step, View!Next

\* With the slices as they are shared and masked one account at a time, turning
\* masking on hides all identities in the status at once, and they come back at
\* most once, from the one refresh then under way (plugin.go:161-189, 256-300,
\* 421-449): StatusStore keeps the promise that Monitor keeps.
THEOREM StoreRefinement == Spec => ImplementsView
<1>1. Init => View!Init
    <2> SUFFICES ASSUME Init PROVE View!Init
        OBVIOUS
    <2>1. config.mask = TRUE
        BY DEF Init, Default
    <2>2. Shown = "none"
        BY DEF Init, Shown, Nothing
    <2>3. ~StaleRefresh
        BY DEF Init, StaleRefresh
    <2> QED
        BY <2>1, <2>2, <2>3 DEF View!Init
<1> QED
    BY <1>1, ViewStep, InitHolding, HoldingStep, InitContent, ContentStep, InitExclusive,
       ExclusiveStep, PTL DEF Spec, ImplementsView, View!Spec
=============================================================================
