-------------------------- MODULE StatusStoreProofs --------------------------
(***************************************************************************)
(* What StatusStore keeps for every number of goroutines, slices, accounts *)
(* and configurations: slices are not written under a reader's eyes, and   *)
(* what goes out is one status, though readers hold no lock.               *)
(***************************************************************************)
EXTENDS StatusStore, TLAPS

(***************************************************************************)
(* Masking.                                                                *)
(***************************************************************************)
\* What is masked already is left as it is, an ID of eight characters or the
\* e-mail of one letter too: ApplyConfig and loadSnapshot may mask whatever
\* they find.
LEMMA MaskEmailIdempotent ==
    ASSUME NEW email \in Email PROVE MaskEmail(MaskEmail(email)) = MaskEmail(email)
<1>1. CASE ~email.address \/ email.name = 0
    BY <1>1 DEF MaskEmail, NoEmail
<1>2. CASE email.address /\ email.name # 0 /\ (email.name = 1 \/ (email.starred /\ email.name = 4))
    BY <1>2 DEF MaskEmail
<1>3. CASE email.address /\ email.name # 0 /\ email.name # 1 /\ ~(email.starred /\ email.name = 4)
    <2> DEFINE m == [email EXCEPT !.name = 4, !.starred = TRUE, !.hidden = @ + email.name - 1]
    <2>1. MaskEmail(email) = m
        BY <1>3 DEF MaskEmail
    <2>2. m.address /\ m.name = 4 /\ m.starred
        BY <1>3 DEF Email
    <2>3. MaskEmail(m) = m
        BY <2>2 DEF MaskEmail
    <2> QED
        BY <2>1, <2>3
<1> QED
    BY <1>1, <1>2, <1>3

LEMMA MaskIDIdempotent ==
    ASSUME NEW id \in ID PROVE MaskID(MaskID(id)) = MaskID(id)
BY DEF MaskID, IsShort, ID

LEMMA MaskIdempotent ==
    ASSUME NEW i \in Identity, NEW m
    PROVE  MaskIdentity(Display(i, m)) = Display(i, TRUE)
<1>1. MaskIdentity(MaskIdentity(i)) = MaskIdentity(i)
    BY MaskEmailIdempotent, MaskIDIdempotent DEF MaskIdentity, Identity
<1> QED
    BY <1>1 DEF Display

\* Masking takes something out of every e-mail and every ID that is long enough
\* to have something to hide, and puts nothing back into what was hidden.
THEOREM MaskingHides == \A i \in Identity : Hides(i)
<1> SUFFICES ASSUME NEW i \in Identity PROVE Hides(i)
    OBVIOUS
<1>1. ASSUME i.email.address, i.email.name > 1, ~i.email.starred
      PROVE  MaskEmail(i.email).hidden > i.email.hidden
    BY <1>1 DEF MaskEmail, Identity, Email
<1>2. ASSUME i.id.len > 8, ~i.id.dotted
      PROVE  MaskID(i.id).hidden > i.id.hidden
    BY <1>2 DEF MaskID, IsShort, Identity, ID
<1> QED
    BY <1>1, <1>2 DEF Hides, MaskIdentity

(***************************************************************************)
(* Who holds which slice.  NoRace alone is not inductive: a reader must    *)
(* find the published slice without a writer, so a slice that is being     *)
(* written is either unpublished or under p.mu.                            *)
(***************************************************************************)
Writing(p) == pc[p] \in {"check", "install", "mask"}

\* The records have their fields, for the updates of one of them.
Shape ==
    /\ DOMAIN status = {"accounts", "last", "running", "message"}
    /\ status.accounts \in Addrs
    /\ host \in BOOLEAN
    /\ DOMAIN pc = Procs /\ DOMAIN local = Procs
    /\ \A p \in Procs : /\ DOMAIN local[p] = DOMAIN Free
                        /\ Writing(p) \/ Marshalling(p) => local[p].addr \in Addrs

\* Nobody else has the slice of a writer.
Alone ==
    \A p, q \in Procs : p # q /\ Writing(p) => local[q].addr # local[p].addr

Unpublished ==
    \A p \in Procs : pc[p] \in {"check", "install"} => local[p].addr # status.accounts

Locked ==
    \A p \in Procs : pc[p] = "mask" => mu = p /\ local[p].addr = status.accounts

Holding == Shape /\ Alone /\ Unpublished /\ Locked

LEMMA InitHolding == Init => Holding
<1> SUFFICES ASSUME Init PROVE Holding
    OBVIOUS
<1>1. \A p \in Procs : pc[p] = "idle" /\ local[p] = Free
    BY DEF Init
<1>2. DOMAIN pc = Procs /\ DOMAIN local = Procs /\ host \in BOOLEAN
    BY DEF Init
<1>3. DOMAIN status = {"accounts", "last", "running", "message"} /\ status.accounts \in Addrs
    BY DEF Init
<1>4. Shape
    BY <1>1, <1>2, <1>3 DEF Shape, Writing, Marshalling
<1>5. Alone /\ Unpublished /\ Locked
    BY <1>1 DEF Alone, Unpublished, Locked, Writing
<1> QED
    BY <1>4, <1>5 DEF Holding

LEMMA HoldingStep == Holding /\ [Next]_vars => Holding'
<1> SUFFICES ASSUME Holding, [Next]_vars PROVE Holding'
    OBVIOUS
<1> USE StoreAssumption
    DEF Holding, Shape, Alone, Unpublished, Locked, Writing, Marshalling, Go, Free
<1>1. ASSUME NEW p \in Procs, SetHostBroker(p) PROVE Holding'
    BY <1>1 DEF SetHostBroker
<1>2. ASSUME NEW p \in Procs, Marshal(p) PROVE Holding'
    BY <1>2 DEF Marshal
<1>3. ASSUME NEW p \in Procs, Health(p) PROVE Holding'
    BY <1>3 DEF Health, Copied, CanRead
<1>4. ASSUME NEW p \in Procs, HealthAnswers(p) PROVE Holding'
    BY <1>4 DEF HealthAnswers
<1>5. ASSUME NEW p \in Procs, StatusJSON(p) PROVE Holding'
    BY <1>5 DEF StatusJSON, Copied, CanRead
<1>6. ASSUME NEW p \in Procs, TestAnswers(p) PROVE Holding'
    BY <1>6 DEF TestAnswers
<1>7. ASSUME NEW p \in Procs, SaveSnapshot(p) PROVE Holding'
    BY <1>7 DEF SaveSnapshot
<1>8. ASSUME NEW p \in Procs, BeginRefresh(p) PROVE Holding'
    BY <1>8 DEF BeginRefresh, Unused
<1>9. ASSUME NEW p \in Procs, CheckAccount(p) PROVE Holding'
    BY <1>9 DEF CheckAccount
<1>10. ASSUME NEW p \in Procs, Publish(p) PROVE Holding'
    BY <1>10 DEF Publish, Summarize, CanWrite
<1>11. ASSUME NEW p \in Procs, NEW doc \in Documents, ApplyConfig(p, doc) PROVE Holding'
    BY <1>11 DEF ApplyConfig, SliceCopy, Unused, CanWrite
<1>12. ASSUME NEW p \in Procs, MaskAccount(p) PROVE Holding'
    BY <1>12 DEF MaskAccount
<1>13. ASSUME NEW p \in Procs, ConfigApplied(p) PROVE Holding'
    \* p alone was masking; whoever else writes has an unpublished slice.
    <2>1. \A q \in Procs : q # p /\ Writing(q) => pc[q] \in {"check", "install"}
        BY <1>13 DEF ConfigApplied
    <2>2. mu' = NoProc /\ UNCHANGED <<status, host>>
        BY <1>13 DEF ConfigApplied
    <2>3. CASE host
        <3>1. Go(p, "applySave", Copied)
            BY <1>13, <2>3 DEF ConfigApplied
        <3> QED
            BY <2>1, <2>2, <3>1 DEF Copied
    <2>4. CASE ~host
        <3>1. Go(p, "idle", Free)
            BY <1>13, <2>4 DEF ConfigApplied
        <3> QED
            BY <2>1, <2>2, <3>1
    <2> QED
        BY <2>3, <2>4
<1>14. ASSUME NEW p \in Procs, InitHostServices(p) PROVE Holding'
    BY <1>14 DEF InitHostServices, CanWrite
<1>15. ASSUME NEW p \in Procs, LoadSnapshot(p) PROVE Holding'
    BY <1>15 DEF LoadSnapshot, Unused
<1>16. ASSUME NEW p \in Procs, LoadSnapshotFails(p) PROVE Holding'
    BY <1>16 DEF LoadSnapshotFails
<1>17. ASSUME NEW p \in Procs, InstallSnapshot(p) PROVE Holding'
    BY <1>17 DEF InstallSnapshot, Loaded, CanWrite
<1>18. ASSUME NEW p \in Procs, RestartLoop(p) PROVE Holding'
    BY <1>18 DEF RestartLoop
<1>19. ASSUME UNCHANGED vars PROVE Holding'
    BY <1>19 DEF vars
<1> QED
    BY <1>1, <1>2, <1>3, <1>4, <1>5, <1>6, <1>7, <1>8, <1>9, <1>10, <1>11, <1>12, <1>13,
       <1>14, <1>15, <1>16, <1>17, <1>18, <1>19 DEF Next, Step

\* No account of a slice is written while another goroutine may read it, though
\* Health and saveSnapshot (plugin.go:149, 411) read outside p.mu.
THEOREM SlicesDoNotRace == Spec => []NoRace
<1>1. Holding => NoRace
    BY DEF Holding, Alone, Writing, NoRace
<1> QED
    BY <1>1, InitHolding, HoldingStep, PTL DEF Spec

(***************************************************************************)
(* What is in the slices.  The published one is whole unless ApplyConfig   *)
(* is masking it, and it keeps p.mu while it does; the slice of a reader   *)
(* does not change (Alone), so its JSON grows into the whole of it.        *)
(***************************************************************************)
Uniform(s, m, t) ==
    /\ DOMAIN s \subseteq Accounts
    /\ \A a \in DOMAIN s : s[a] = [who |-> Display(Raw[a], m), at |-> t]

Consistent(s, t) == Uniform(s, TRUE, t) \/ Uniform(s, FALSE, t)

\* In the middle of masking.
Mixed(s, t) ==
    /\ DOMAIN s \subseteq Accounts
    /\ \A a \in DOMAIN s : \E m \in BOOLEAN : s[a] = [who |-> Display(Raw[a], m), at |-> t]

PartOf(json, s) == DOMAIN json \subseteq DOMAIN s /\ \A a \in DOMAIN json : json[a] = s[a]

LEMMA NothingIsUniform == \A m, t : Uniform(Nothing, m, t)
BY DEF Uniform, Nothing

LEMMA UniformIsConsistent ==
    ASSUME NEW s, NEW m \in BOOLEAN, NEW t, Uniform(s, m, t) PROVE Consistent(s, t)
<1>1. CASE m = TRUE
    BY <1>1 DEF Consistent
<1>2. CASE m = FALSE
    BY <1>2 DEF Consistent
<1> QED
    BY <1>1, <1>2

LEMMA ConsistentIsMixed ==
    ASSUME NEW s, NEW t, Consistent(s, t) PROVE Mixed(s, t)
BY DEF Consistent, Uniform, Mixed

LEMMA PartIsConsistent ==
    ASSUME NEW s, NEW t, NEW json, Consistent(s, t), PartOf(json, s) PROVE Consistent(json, t)
BY DEF Consistent, Uniform, PartOf

LEMMA ConsistentIsWhole ==
    ASSUME NEW s, NEW t, Consistent(s, t) PROVE Whole(s, t)
BY DEF Consistent, Uniform, Whole

\* Encoding one account more.
LEMMA PartGrows ==
    ASSUME NEW s, NEW json, NEW a \in DOMAIN s, PartOf(json, s)
    PROVE  PartOf(With(json, a, s[a]), s)
BY DEF PartOf, With

\* A worker stores one account more.
LEMMA UniformGrows ==
    ASSUME NEW s, NEW m, NEW t, NEW a \in Accounts, Uniform(s, m, t)
    PROVE  Uniform(With(s, a, [who |-> Display(Raw[a], m), at |-> t]), m, t)
BY DEF Uniform, With

LEMMA MaskedAccount ==
    ASSUME NEW a \in Accounts, NEW m, NEW t
    PROVE  Masked([who |-> Display(Raw[a], m), at |-> t]) = [who |-> Display(Raw[a], TRUE), at |-> t]
<1>1. Raw[a] \in Identity
    BY StoreAssumption
<1>2. MaskIdentity(Display(Raw[a], m)) = Display(Raw[a], TRUE)
    BY <1>1, MaskIdempotent
<1>3. \A x, y : [[who |-> x, at |-> t] EXCEPT !.who = y] = [who |-> y, at |-> t]
    OBVIOUS
<1> DEFINE account == [who |-> Display(Raw[a], m), at |-> t]
<1>4. Masked(account) = [account EXCEPT !.who = MaskIdentity(account.who)]
    BY DEF Masked
<1> QED
    BY <1>2, <1>3, <1>4

LEMMA MixedMasksOne ==
    ASSUME NEW s, NEW t, NEW a \in DOMAIN s, Mixed(s, t)
    PROVE  Mixed([s EXCEPT ![a] = Masked(@)], t)
<1>1. PICK m \in BOOLEAN : s[a] = [who |-> Display(Raw[a], m), at |-> t]
    BY DEF Mixed
<1>2. Masked(s[a]) = [who |-> Display(Raw[a], TRUE), at |-> t]
    BY <1>1, MaskedAccount DEF Mixed
<1> QED
    BY <1>2 DEF Mixed

LEMMA MixedIsMasked ==
    ASSUME NEW s, NEW t, Mixed(s, t), \A a \in DOMAIN s : s[a] = Masked(s[a])
    PROVE  Consistent(s, t)
<1>1. ASSUME NEW a \in DOMAIN s PROVE s[a] = [who |-> Display(Raw[a], TRUE), at |-> t]
    <2>1. PICK m \in BOOLEAN : s[a] = [who |-> Display(Raw[a], m), at |-> t]
        BY DEF Mixed
    <2>2. a \in Accounts
        BY DEF Mixed
    <2>3. Masked([who |-> Display(Raw[a], m), at |-> t]) = [who |-> Display(Raw[a], TRUE), at |-> t]
        BY <2>2, MaskedAccount
    <2> QED
        BY <2>1, <2>3
<1> QED
    BY <1>1 DEF Consistent, Uniform, Mixed

\* loadSnapshot masks what it has read, or leaves it.
LEMMA InstalledIsConsistent ==
    ASSUME NEW s, NEW t, NEW m \in BOOLEAN, Consistent(s, t)
    PROVE  Consistent([a \in DOMAIN s |-> IF m THEN Masked(s[a]) ELSE s[a]], t)
<1> DEFINE r == [a \in DOMAIN s |-> IF m THEN Masked(s[a]) ELSE s[a]]
<1>1. CASE m = FALSE
    <2>1. DOMAIN r = DOMAIN s /\ \A a \in DOMAIN s : r[a] = s[a]
        BY <1>1
    <2> HIDE DEF r
    <2>2. PartOf(r, s)
        BY <2>1 DEF PartOf
    <2> QED
        BY <2>2, PartIsConsistent DEF r
<1>2. CASE m = TRUE
    <2>1. DOMAIN r = DOMAIN s /\ \A a \in DOMAIN s : r[a] = Masked(s[a])
        BY <1>2
    <2> HIDE DEF r
    <2>2. ASSUME NEW a \in DOMAIN s PROVE r[a] = [who |-> Display(Raw[a], TRUE), at |-> t]
        <3>1. Mixed(s, t)
            BY ConsistentIsMixed
        <3>2. PICK b \in BOOLEAN : s[a] = [who |-> Display(Raw[a], b), at |-> t]
            BY <3>1 DEF Mixed
        <3>3. a \in Accounts
            BY <3>1 DEF Mixed
        <3>4. Masked([who |-> Display(Raw[a], b), at |-> t]) = [who |-> Display(Raw[a], TRUE), at |-> t]
            BY <3>3, MaskedAccount
        <3> QED
            BY <2>1, <3>2, <3>4
    <2>3. Uniform(r, TRUE, t)
        BY <2>1, <2>2 DEF Uniform, Consistent
    <2> QED
        BY <2>3 DEF Consistent, r
<1> QED
    BY <1>1, <1>2

\* What a process knows of the slice it holds.
Good(p) ==
    /\ pc[p] = "check" =>
          /\ local[p].mask \in BOOLEAN /\ local[p].json = Nothing
          /\ Uniform(heap[local[p].addr], local[p].mask, local[p].last)
    /\ pc[p] = "install" => Consistent(heap[local[p].addr], local[p].last)
    /\ pc[p] = "mask" => Mixed(heap[local[p].addr], status.last)
    /\ Marshalling(p) => /\ Consistent(heap[local[p].addr], local[p].last)
                         /\ PartOf(local[p].json, heap[local[p].addr])

Content ==
    /\ DOMAIN heap = Addrs
    /\ config \in Config
    /\ mu = NoProc => Consistent(heap[status.accounts], status.last)
    /\ \A entry \in kv : Consistent(entry.list, entry.last)
    /\ \A p \in Procs : Good(p)

LEMMA InitContent == Init => Content
<1> SUFFICES ASSUME Init PROVE Content
    OBVIOUS
<1>1. \A p \in Procs : Good(p)
    BY DEF Init, Good, Marshalling
<1>2. config \in Config
    BY DEF Init, Config, Default
<1>3. heap[status.accounts] = Nothing /\ DOMAIN heap = Addrs /\ kv = {}
    BY DEF Init
<1> QED
    BY <1>1, <1>2, <1>3, NothingIsUniform DEF Content, Consistent

\* A process that does not take the step, and whose slice is left alone.
LEMMA OthersKeep ==
    ASSUME Holding, NEW q \in Procs, Good(q), pc'[q] = pc[q], local'[q] = local[q],
           heap'[local[q].addr] = heap[local[q].addr],
           pc[q] = "mask" => status'.last = status.last
    PROVE  Good(q)'
BY DEF Good, Marshalling

\* A step that gives its process no slice and changes no slice and no entry.
LEMMA QuietStep ==
    ASSUME Holding, Content, NEW p \in Procs,
           NEW step \in {"idle", "tested", "restart", "load"}, Go(p, step, Free),
           UNCHANGED <<heap, config, mu, kv>>,
           status'.accounts = status.accounts, status'.last = status.last
    PROVE  Content'
<1>1. Good(p)'
    BY DEF Go, Good, Marshalling, Holding, Shape
<1>2. ASSUME NEW q \in Procs, q # p PROVE Good(q)'
    BY <1>2, OthersKeep DEF Go, Content, Holding, Shape
<1> QED
    BY <1>1, <1>2 DEF Content

\* A step that reads the published slice, which no lock keeps whole but p.mu.
LEMMA ReadStep ==
    ASSUME Holding, Content, NEW p \in Procs,
           NEW step \in {"health", "report", "applySave"}, Go(p, step, Copied),
           UNCHANGED <<heap, config, kv, status>>, mu' = NoProc,
           Consistent(heap[status.accounts], status.last)
    PROVE  Content'
<1>1. pc'[p] = step /\ local'[p].addr = status.accounts /\ local'[p].last = status.last
      /\ local'[p].json = Nothing
    BY DEF Go, Holding, Shape, Copied, Free
<1>2. PartOf(Nothing, heap[status.accounts])
    BY DEF PartOf, Nothing
<1>3. Good(p)'
    BY <1>1, <1>2 DEF Good, Marshalling
<1>4. ASSUME NEW q \in Procs, q # p PROVE Good(q)'
    BY <1>4, OthersKeep DEF Go, Content, Holding, Shape
<1> QED
    BY <1>3, <1>4 DEF Content

LEMMA ContentStep == Holding /\ Content /\ [Next]_vars => Content'
<1> SUFFICES ASSUME Holding, Content, [Next]_vars PROVE Content'
    OBVIOUS
<1>1. ASSUME NEW p \in Procs, SetHostBroker(p) PROVE Content'
    BY <1>1 DEF SetHostBroker, Content, Good, Marshalling
<1>2. ASSUME NEW p \in Procs, Marshal(p) PROVE Content'
    <2> DEFINE s == heap[local[p].addr]
    <2>1. Consistent(s, local[p].last) /\ PartOf(local[p].json, s)
        BY <1>2 DEF Marshal, Content, Good
    <2>2. PICK a \in DOMAIN s : local' = [local EXCEPT ![p].json = With(@, a, s[a])]
        BY <1>2 DEF Marshal
    <2>3. /\ local'[p].addr = local[p].addr /\ local'[p].last = local[p].last
          /\ local'[p].json = With(local[p].json, a, s[a])
        BY <2>2 DEF Holding, Shape, Free
    <2>4. UNCHANGED <<pc, heap, config, mu, kv, status>> /\ Marshalling(p)
        BY <1>2 DEF Marshal
    <2>5. PartOf(local'[p].json, s)
        BY <2>1, <2>3, PartGrows
    <2>6. Good(p)'
        BY <2>1, <2>3, <2>4, <2>5 DEF Good, Marshalling
    <2>7. ASSUME NEW q \in Procs, q # p PROVE Good(q)'
        BY <2>2, <2>4, <2>7, OthersKeep DEF Content, Holding, Shape
    <2> QED
        BY <2>4, <2>6, <2>7 DEF Content
<1>3. ASSUME NEW p \in Procs, Health(p) PROVE Content'
    BY <1>3, ReadStep DEF Health, CanRead, Content
<1>4. ASSUME NEW p \in Procs, HealthAnswers(p) PROVE Content'
    BY <1>4, QuietStep DEF HealthAnswers
<1>5. ASSUME NEW p \in Procs, StatusJSON(p) PROVE Content'
    BY <1>5, ReadStep DEF StatusJSON, CanRead, Content
<1>6. ASSUME NEW p \in Procs, TestAnswers(p) PROVE Content'
    BY <1>6, QuietStep DEF TestAnswers
<1>7. ASSUME NEW p \in Procs, SaveSnapshot(p) PROVE Content'
    <2>1. PICK step \in {"idle", "tested", "restart"} : Go(p, step, Free)
        BY <1>7 DEF SaveSnapshot
    <2>2. UNCHANGED <<heap, config, mu, status>> /\ kv' \in {kv, {Entry(local[p])}}
        BY <1>7 DEF SaveSnapshot
    <2>3. Consistent(local[p].json, local[p].last)
        BY <1>7, PartIsConsistent DEF SaveSnapshot, Content, Good, Marshalling
    <2>4. \A entry \in kv' : Consistent(entry.list, entry.last)
        BY <2>2, <2>3 DEF Entry, Content
    <2>5. Good(p)'
        BY <2>1 DEF Go, Good, Marshalling, Holding, Shape
    <2>6. ASSUME NEW q \in Procs, q # p PROVE Good(q)'
        BY <2>1, <2>2, <2>6, OthersKeep DEF Go, Content, Holding, Shape
    <2> QED
        BY <2>2, <2>4, <2>5, <2>6 DEF Content
<1>8. ASSUME NEW p \in Procs, BeginRefresh(p) PROVE Content'
    <2>1. PICK a \in Unused :
             /\ heap' = [heap EXCEPT ![a] = Nothing]
             /\ Go(p, "check", [Free EXCEPT !.mask = config.mask, !.addr = a, !.last = refreshes'])
        BY <1>8 DEF BeginRefresh
    <2>2. UNCHANGED <<config, mu, kv, status>>
        BY <1>8 DEF BeginRefresh
    <2>3. a \in Addrs /\ a # status.accounts /\ \A q \in Procs : local[q].addr # a
        BY DEF Unused
    <2>4. /\ pc'[p] = "check" /\ local'[p].addr = a /\ local'[p].mask = config.mask
          /\ heap'[a] = Nothing /\ local'[p].json = Nothing
        BY <2>1, <2>3 DEF Go, Holding, Shape, Free, Content
    <2>5. config.mask \in BOOLEAN
        BY DEF Content, Config
    <2>6. Good(p)'
        BY <2>4, <2>5, NothingIsUniform DEF Good, Marshalling
    <2>7. ASSUME NEW q \in Procs, q # p PROVE Good(q)'
        BY <2>1, <2>2, <2>3, <2>7, OthersKeep DEF Go, Content, Holding, Shape
    <2>8. heap'[status.accounts] = heap[status.accounts] /\ DOMAIN heap' = Addrs
        BY <2>1, <2>3 DEF Content
    <2> QED
        BY <2>2, <2>6, <2>7, <2>8 DEF Content
<1>9. ASSUME NEW p \in Procs, CheckAccount(p) PROVE Content'
    <2> DEFINE s == heap[local[p].addr]
    <2>1. PICK a \in Accounts :
             heap' = [heap EXCEPT ![local[p].addr] =
                         With(@, a, [who |-> Display(Raw[a], local[p].mask), at |-> local[p].last])]
        BY <1>9 DEF CheckAccount
    <2>2. UNCHANGED <<pc, local, config, mu, kv, status>> /\ pc[p] = "check"
        BY <1>9 DEF CheckAccount
    <2>3. local[p].addr \in Addrs /\ local[p].addr # status.accounts
          /\ \A q \in Procs : q # p => local[q].addr # local[p].addr
        BY <2>2 DEF Holding, Shape, Alone, Unpublished, Writing
    <2>4. Uniform(heap'[local[p].addr], local[p].mask, local[p].last)
        BY <2>1, <2>2, <2>3, UniformGrows DEF Content, Good
    <2>5. Good(p)'
        BY <2>2, <2>4 DEF Good, Marshalling, Content
    <2>6. ASSUME NEW q \in Procs, q # p PROVE Good(q)'
        BY <2>1, <2>2, <2>3, <2>6, OthersKeep DEF Content
    <2>7. heap'[status.accounts] = heap[status.accounts] /\ DOMAIN heap' = Addrs
        BY <2>1, <2>3 DEF Content
    <2> QED
        BY <2>2, <2>5, <2>6, <2>7 DEF Content
<1>10. ASSUME NEW p \in Procs, Publish(p) PROVE Content'
    <2>1. /\ pc[p] = "check" /\ mu = NoProc /\ UNCHANGED <<heap, config, mu, kv>>
          /\ status' = Summarize(local[p])
          /\ Go(p, "refreshSave", [local[p] EXCEPT !.running = TRUE])
        BY <1>10 DEF Publish, CanWrite
    <2>2. /\ status'.accounts = local[p].addr /\ status'.last = local[p].last
          /\ local'[p].addr = local[p].addr /\ local'[p].last = local[p].last
          /\ pc'[p] = "refreshSave" /\ local'[p].json = local[p].json
        BY <2>1 DEF Summarize, Go, Holding, Shape, Free
    <2>3. Consistent(heap[local[p].addr], local[p].last)
        BY <2>1, UniformIsConsistent DEF Content, Good
    <2>4. PartOf(local[p].json, heap[local[p].addr])
        BY <2>1 DEF Content, Good, PartOf, Nothing
    <2>5. Good(p)'
        BY <2>1, <2>2, <2>3, <2>4 DEF Good, Marshalling
    <2>6. ASSUME NEW q \in Procs, q # p PROVE Good(q)'
        BY <2>1, <2>6, OthersKeep, StoreAssumption DEF Go, Content, Holding, Shape, Locked
    <2> QED
        BY <2>1, <2>2, <2>3, <2>5, <2>6 DEF Content
<1>11. ASSUME NEW p \in Procs, NEW doc \in Documents, ApplyConfig(p, doc) PROVE Content'
    <2>1. PICK cfg \in ParseConfig(doc) :
             /\ config' = cfg
             /\ IF cfg.mask /\ ~config.mask
                THEN \E a \in SliceCopy :
                        /\ heap' = [heap EXCEPT ![a] = heap[status.accounts]]
                        /\ status' = [status EXCEPT !.accounts = a]
                        /\ mu' = p
                        /\ Go(p, "mask", [Free EXCEPT !.addr = a])
                ELSE /\ Go(p, IF host THEN "restart" ELSE "idle", Free)
                     /\ UNCHANGED <<broker, heap, status, mu>>
        BY <1>11 DEF ApplyConfig
    <2>2. cfg \in Config /\ cfg.mask \in BOOLEAN /\ config.mask \in BOOLEAN
        <3>1. cfg \in Config /\ config \in Config
            BY StoreAssumption DEF Content
        <3> QED
            BY <3>1 DEF Config
    <2>3. mu = NoProc /\ kv' = kv
        BY <1>11 DEF ApplyConfig, CanWrite
    <2>4. CASE cfg.mask /\ ~config.mask
        <3>1. PICK a \in Unused :
                 /\ heap' = [heap EXCEPT ![a] = heap[status.accounts]]
                 /\ status' = [status EXCEPT !.accounts = a]
                 /\ mu' = p
                 /\ Go(p, "mask", [Free EXCEPT !.addr = a])
            BY <2>1, <2>4 DEF SliceCopy
        <3>2. a \in Addrs /\ a # status.accounts /\ \A q \in Procs : local[q].addr # a
            BY DEF Unused
        <3>3. /\ pc'[p] = "mask" /\ local'[p].addr = a /\ status'.last = status.last
              /\ heap'[a] = heap[status.accounts] /\ DOMAIN heap' = Addrs
            BY <3>1, <3>2 DEF Go, Holding, Shape, Free, Content
        <3>4. Mixed(heap[status.accounts], status.last)
            BY <2>3, ConsistentIsMixed DEF Content
        <3>5. Good(p)'
            BY <3>3, <3>4 DEF Good, Marshalling
        <3>6. ASSUME NEW q \in Procs, q # p PROVE Good(q)'
            BY <3>1, <3>2, <3>3, <3>6, OthersKeep DEF Go, Content, Holding, Shape
        <3> QED
            BY <2>1, <2>2, <2>3, <3>1, <3>3, <3>5, <3>6, StoreAssumption DEF Content
    <2>5. CASE ~(cfg.mask /\ ~config.mask)
        <3>1. UNCHANGED <<heap, status, mu>> /\ Go(p, IF host THEN "restart" ELSE "idle", Free)
            BY <2>1, <2>5
        <3>2. PICK step \in {"restart", "idle"} : Go(p, step, Free)
            BY <3>1
        <3>3. Good(p)'
            BY <3>2 DEF Go, Good, Marshalling, Holding, Shape
        <3>4. ASSUME NEW q \in Procs, q # p PROVE Good(q)'
            BY <3>1, <3>2, <3>4, OthersKeep DEF Go, Content, Holding, Shape
        <3> QED
            BY <2>1, <2>2, <2>3, <3>1, <3>3, <3>4 DEF Content
    <2> QED
        BY <2>4, <2>5
<1>12. ASSUME NEW p \in Procs, MaskAccount(p) PROVE Content'
    <2> DEFINE s == heap[local[p].addr]
    <2>1. PICK a \in DOMAIN s : heap' = [heap EXCEPT ![local[p].addr][a] = Masked(@)]
        BY <1>12 DEF MaskAccount
    <2>2. UNCHANGED <<pc, local, config, mu, kv, status>> /\ pc[p] = "mask"
        BY <1>12 DEF MaskAccount
    <2>3. mu = p /\ local[p].addr \in Addrs
          /\ \A q \in Procs : q # p => local[q].addr # local[p].addr
        BY <2>2 DEF Holding, Shape, Alone, Locked, Writing
    <2>4. heap'[local[p].addr] = [s EXCEPT ![a] = Masked(@)] /\ DOMAIN heap' = Addrs
        BY <2>1, <2>3 DEF Content
    <2>5. Mixed(heap'[local[p].addr], status.last)
        BY <2>2, <2>4, MixedMasksOne DEF Content, Good
    <2>6. Good(p)'
        BY <2>2, <2>5 DEF Good, Marshalling
    <2>7. ASSUME NEW q \in Procs, q # p PROVE Good(q)'
        BY <2>1, <2>2, <2>3, <2>7, OthersKeep DEF Content
    <2> QED
        BY <2>2, <2>3, <2>4, <2>6, <2>7, StoreAssumption DEF Content
<1>13. ASSUME NEW p \in Procs, ConfigApplied(p) PROVE Content'
    <2> DEFINE s == heap[local[p].addr]
    <2>1. /\ pc[p] = "mask" /\ mu' = NoProc /\ UNCHANGED <<heap, config, kv, status, host>>
          /\ \A a \in DOMAIN s : s[a] = Masked(s[a])
        BY <1>13 DEF ConfigApplied
    <2>2. local[p].addr = status.accounts /\ host \in BOOLEAN
        BY <2>1 DEF Holding, Shape, Locked
    <2>3. Consistent(heap[status.accounts], status.last)
        BY <2>1, <2>2, MixedIsMasked DEF Content, Good
    <2>4. CASE host
        <3>1. Go(p, "applySave", Copied)
            BY <1>13, <2>4 DEF ConfigApplied
        <3> QED
            BY <2>1, <2>3, <3>1, ReadStep
    <2>5. CASE ~host
        <3>1. Go(p, "idle", Free)
            BY <1>13, <2>5 DEF ConfigApplied
        <3>2. Good(p)'
            BY <3>1 DEF Go, Good, Marshalling, Holding, Shape
        <3>3. ASSUME NEW q \in Procs, q # p PROVE Good(q)'
            BY <2>1, <3>1, <3>3, OthersKeep DEF Go, Content, Holding, Shape
        <3> QED
            BY <2>1, <2>3, <3>2, <3>3 DEF Content
    <2> QED
        BY <2>4, <2>5
<1>14. ASSUME NEW p \in Procs, InitHostServices(p) PROVE Content'
    <2>1. status'.accounts = status.accounts /\ status'.last = status.last
        BY <1>14 DEF InitHostServices, Holding, Shape
    <2> QED
        BY <1>14, <2>1, QuietStep DEF InitHostServices
<1>15. ASSUME NEW p \in Procs, LoadSnapshot(p) PROVE Content'
    <2>1. PICK entry \in kv, a \in Unused :
             /\ heap' = [heap EXCEPT ![a] = entry.list]
             /\ Go(p, "install", [Free EXCEPT !.addr = a, !.last = entry.last, !.running = entry.running])
        BY <1>15 DEF LoadSnapshot
    <2>2. UNCHANGED <<config, mu, kv, status>>
        BY <1>15 DEF LoadSnapshot
    <2>3. a \in Addrs /\ a # status.accounts /\ \A q \in Procs : local[q].addr # a
        BY DEF Unused
    <2>4. /\ pc'[p] = "install" /\ local'[p].addr = a /\ local'[p].last = entry.last
          /\ heap'[a] = entry.list
        BY <2>1, <2>3 DEF Go, Holding, Shape, Free, Content
    <2>5. Good(p)'
        BY <2>4 DEF Good, Marshalling, Content
    <2>6. ASSUME NEW q \in Procs, q # p PROVE Good(q)'
        BY <2>1, <2>2, <2>3, <2>6, OthersKeep DEF Go, Content, Holding, Shape
    <2>7. heap'[status.accounts] = heap[status.accounts] /\ DOMAIN heap' = Addrs
        BY <2>1, <2>3 DEF Content
    <2> QED
        BY <2>2, <2>5, <2>6, <2>7 DEF Content
<1>16. ASSUME NEW p \in Procs, LoadSnapshotFails(p) PROVE Content'
    BY <1>16, QuietStep DEF LoadSnapshotFails
<1>17. ASSUME NEW p \in Procs, InstallSnapshot(p) PROVE Content'
    <2> DEFINE s == heap[local[p].addr]
               r == [a \in DOMAIN s |-> IF config.mask THEN Masked(s[a]) ELSE s[a]]
    <2>1. /\ pc[p] = "install" /\ mu = NoProc /\ UNCHANGED <<config, mu, kv>>
          /\ heap' = [heap EXCEPT ![local[p].addr] = r]
          /\ status' = Loaded(local[p]) /\ Go(p, "restart", Free)
        BY <1>17 DEF InstallSnapshot, CanWrite, Restored
    <2>2. local[p].addr \in Addrs /\ \A q \in Procs : q # p => local[q].addr # local[p].addr
        BY <2>1 DEF Holding, Shape, Alone, Writing
    <2>3. status'.accounts = local[p].addr /\ status'.last = local[p].last
        BY <2>1 DEF Loaded
    <2>4. config.mask \in BOOLEAN /\ Consistent(s, local[p].last)
        BY <2>1 DEF Content, Config, Good
    <2>5. Consistent(r, local[p].last)
        BY <2>4, InstalledIsConsistent
    <2> HIDE DEF r
    <2>6. heap'[local[p].addr] = r /\ DOMAIN heap' = Addrs
        BY <2>1, <2>2 DEF Content
    <2>7. Good(p)'
        BY <2>1 DEF Go, Good, Marshalling, Holding, Shape
    <2>8. ASSUME NEW q \in Procs, q # p PROVE Good(q)'
        <3>1. pc[q] # "mask"
            BY <2>1, StoreAssumption DEF Holding, Locked
        <3> QED
            BY <2>1, <2>2, <2>8, <3>1, OthersKeep DEF Go, Content, Holding, Shape
    <2> QED
        BY <2>1, <2>3, <2>5, <2>6, <2>7, <2>8 DEF Content
<1>18. ASSUME NEW p \in Procs, RestartLoop(p) PROVE Content'
    <2>1. status'.accounts = status.accounts /\ status'.last = status.last
        BY <1>18 DEF RestartLoop, Holding, Shape
    <2> QED
        BY <1>18, <2>1, QuietStep DEF RestartLoop
<1>19. ASSUME UNCHANGED vars PROVE Content'
    BY <1>19 DEF vars, Content, Good, Marshalling
<1> QED
    BY <1>1, <1>2, <1>3, <1>4, <1>5, <1>6, <1>7, <1>8, <1>9, <1>10, <1>11, <1>12, <1>13,
       <1>14, <1>15, <1>16, <1>17, <1>18, <1>19 DEF Next, Step

\* What Health, TestConfig and the KV store are given is one status the plugin
\* had: all accounts of the refresh it is dated by, in one form.
THEOREM AnswersAreWhole == Spec => []WholeAnswers
<1>1. Holding /\ Content => WholeAnswers
    <2> SUFFICES ASSUME Content PROVE WholeAnswers
        OBVIOUS
    <2>1. ASSUME NEW p \in Procs, Marshalling(p) PROVE Whole(local[p].json, local[p].last)
        BY <2>1, PartIsConsistent, ConsistentIsWhole DEF Content, Good
    <2>2. ASSUME NEW entry \in kv PROVE Whole(entry.list, entry.last)
        BY ConsistentIsWhole DEF Content
    <2> QED
        BY <2>1, <2>2 DEF WholeAnswers
<1> QED
    BY <1>1, InitHolding, HoldingStep, InitContent, ContentStep, PTL DEF Spec

\* No snapshot that is loaded, whenever it was saved, takes back that the plugin
\* runs.
THEOREM RunningStays == Spec => RunsForGood
<1>1. Holding /\ [Next]_vars => (status.running => status'.running)
    <2> SUFFICES ASSUME Holding, [Next]_vars, status.running PROVE status'.running
        OBVIOUS
    <2> USE DEF Holding, Shape
    <2>1. ASSUME NEW p \in Procs,
                 Publish(p) \/ InstallSnapshot(p)
          PROVE  status'.running
        BY <2>1 DEF Publish, Summarize, InstallSnapshot, Loaded
    <2>2. ASSUME NEW p \in Procs, InitHostServices(p) \/ RestartLoop(p)
          PROVE  status'.running
        BY <2>2 DEF InitHostServices, RestartLoop
    <2>3. ASSUME NEW p \in Procs, NEW doc \in Documents, ApplyConfig(p, doc) PROVE status'.running
        BY <2>3 DEF ApplyConfig
    <2>4. ASSUME NEW p \in Procs,
                 \/ SetHostBroker(p) \/ Marshal(p) \/ Health(p) \/ HealthAnswers(p)
                 \/ StatusJSON(p) \/ TestAnswers(p) \/ SaveSnapshot(p) \/ BeginRefresh(p)
                 \/ CheckAccount(p) \/ MaskAccount(p) \/ ConfigApplied(p)
                 \/ LoadSnapshot(p) \/ LoadSnapshotFails(p)
          PROVE  status' = status
        BY <2>4 DEF SetHostBroker, Marshal, Health, HealthAnswers, StatusJSON, TestAnswers,
            SaveSnapshot, BeginRefresh, CheckAccount, MaskAccount, ConfigApplied, LoadSnapshot,
            LoadSnapshotFails
    <2> QED
        BY <2>1, <2>2, <2>3, <2>4 DEF Next, Step, vars
<1> QED
    BY <1>1, InitHolding, HoldingStep, PTL DEF Spec, RunsForGood

(***************************************************************************)
(* Types.  The frames and the entry are needed for the status they end up  *)
(* in, the range of the configuration for the loop that runs with it.      *)
(***************************************************************************)
Frames ==
    \A p \in Procs : local[p].last \in Nat /\ local[p].running \in BOOLEAN

Entries ==
    \A entry \in kv : Slice(entry.list) /\ entry.last \in Nat /\ entry.running \in BOOLEAN

Typed == TypeOK /\ InRange(config) /\ Frames /\ Entries /\ refreshes \in Nat

LEMMA MaskedIsIdentity == ASSUME NEW i \in Identity PROVE MaskIdentity(i) \in Identity
<1>1. MaskEmail(i.email) \in Email
    <2> DEFINE email == i.email
    <2>1. email \in Email
        BY DEF Identity
    <2>2. NoEmail \in Email
        BY DEF NoEmail, Email
    <2>3. ASSUME email.name # 0
          PROVE  [email EXCEPT !.name = 4, !.starred = TRUE, !.hidden = @ + email.name - 1] \in Email
        <3>1. email.hidden \in Nat /\ email.name \in Nat
            BY <2>1 DEF Email
        <3>2. email.hidden + email.name - 1 \in Nat
            BY <2>3, <3>1
        <3>3. \A n \in Nat : [email EXCEPT !.name = 4, !.starred = TRUE, !.hidden = n] \in Email
            BY <2>1 DEF Email
        <3> QED
            BY <3>2, <3>3
    <2> QED
        BY <2>1, <2>2, <2>3 DEF MaskEmail
<1>2. MaskID(i.id) \in ID
    BY DEF MaskID, IsShort, Identity, ID
<1> QED
    BY <1>1, <1>2 DEF MaskIdentity, Identity

LEMMA MaskedIsAccount == ASSUME NEW account \in Account PROVE Masked(account) \in Account
BY MaskedIsIdentity DEF Masked, Account

LEMMA NothingIsSlice == Slice(Nothing)
BY DEF Slice, Nothing

LEMMA SliceGrows ==
    ASSUME NEW s, NEW a \in Accounts, NEW account \in Account, Slice(s)
    PROVE  Slice(With(s, a, account))
BY DEF Slice, With

\* What a step does to its process.
Processes ==
    DOMAIN pc = Procs /\ DOMAIN local = Procs /\ Frames /\ \A p \in Procs : Slice(local[p].json)

LEMMA GoTyped ==
    ASSUME Processes, NEW p \in Procs, NEW step, NEW frame, Go(p, step, frame),
           frame.last \in Nat, frame.running \in BOOLEAN, Slice(frame.json)
    PROVE  Processes'
BY DEF Processes, Frames, Go

LEMMA FreeTyped ==
    ASSUME Typed
    PROVE  /\ Processes
           /\ Free.last \in Nat /\ Free.running \in BOOLEAN /\ Slice(Free.json)
           /\ Copied.last \in Nat /\ Copied.running \in BOOLEAN /\ Slice(Copied.json)
BY NothingIsSlice DEF Typed, TypeOK, Processes, Free, Copied

LEMMA TypedStep == Holding /\ Typed /\ [Next]_vars => Typed'
<1> SUFFICES ASSUME Holding, Typed, [Next]_vars PROVE Typed'
    OBVIOUS
<1> USE DEF Holding, Shape, Typed, TypeOK, Frames, Entries, Go, Free
<1>1. ASSUME NEW p \in Procs, SetHostBroker(p) PROVE Typed'
    BY <1>1 DEF SetHostBroker
<1>2. ASSUME NEW p \in Procs, Marshal(p) PROVE Typed'
    <2>1. PICK a \in DOMAIN heap[local[p].addr] :
             local' = [local EXCEPT ![p].json = With(@, a, heap[local[p].addr][a])]
        BY <1>2 DEF Marshal
    <2>2. Slice(With(local[p].json, a, heap[local[p].addr][a]))
        BY <1>2, SliceGrows DEF Marshal, Slice
    <2>3. \A q \in Procs : Slice(local'[q].json)
        BY <2>1, <2>2
    <2> QED
        BY <1>2, <2>1, <2>3 DEF Marshal
<1>3. ASSUME NEW p \in Procs, Health(p) PROVE Typed'
    BY <1>3, NothingIsSlice DEF Health, Copied
<1>4. ASSUME NEW p \in Procs, HealthAnswers(p) PROVE Typed'
    BY <1>4, NothingIsSlice DEF HealthAnswers
<1>5. ASSUME NEW p \in Procs, StatusJSON(p) PROVE Typed'
    BY <1>5, NothingIsSlice DEF StatusJSON, Copied
<1>6. ASSUME NEW p \in Procs, TestAnswers(p) PROVE Typed'
    BY <1>6, NothingIsSlice DEF TestAnswers
<1>7. ASSUME NEW p \in Procs, SaveSnapshot(p) PROVE Typed'
    <2>1. PICK step \in {"idle", "tested", "restart"} : Go(p, step, Free)
        BY <1>7 DEF SaveSnapshot
    <2>2. Processes'
        BY <2>1, FreeTyped, GoTyped
    <2>3. Entries'
        BY <1>7 DEF SaveSnapshot, Entry
    <2> QED
        BY <1>7, <2>2, <2>3 DEF SaveSnapshot, Processes
<1>8. ASSUME NEW p \in Procs, BeginRefresh(p) PROVE Typed'
    <2>1. PICK a \in Unused :
             /\ heap' = [heap EXCEPT ![a] = Nothing]
             /\ Go(p, "check", [Free EXCEPT !.mask = config.mask, !.addr = a, !.last = refreshes'])
        BY <1>8 DEF BeginRefresh
    <2>2. refreshes' \in Nat
        BY <1>8 DEF BeginRefresh
    <2> DEFINE frame == [Free EXCEPT !.mask = config.mask, !.addr = a, !.last = refreshes']
    <2>3. frame.last = refreshes' /\ frame.running = FALSE /\ frame.json = Nothing
        OBVIOUS
    <2> HIDE DEF frame
    <2>4. Processes'
        BY <2>1, <2>2, <2>3, NothingIsSlice, FreeTyped, GoTyped DEF frame
    <2> QED
        BY <1>8, <2>1, <2>2, <2>4, NothingIsSlice DEF BeginRefresh, Processes, Unused
<1>9. ASSUME NEW p \in Procs, CheckAccount(p) PROVE Typed'
    <2>1. PICK a \in Accounts :
             heap' = [heap EXCEPT ![local[p].addr] =
                         With(@, a, [who |-> Display(Raw[a], local[p].mask), at |-> local[p].last])]
        BY <1>9 DEF CheckAccount
    <2>2. [who |-> Display(Raw[a], local[p].mask), at |-> local[p].last] \in Account
        BY StoreAssumption, MaskedIsIdentity DEF Display, Account
    <2>3. local[p].addr \in Addrs
        BY <1>9 DEF CheckAccount, Writing
    <2>4. \A a_1 \in Addrs : Slice(heap'[a_1])
        BY <2>1, <2>2, <2>3, SliceGrows
    <2> QED
        BY <1>9, <2>1, <2>4 DEF CheckAccount
<1>10. ASSUME NEW p \in Procs, Publish(p) PROVE Typed'
    BY <1>10 DEF Publish, Summarize, Writing
<1>11. ASSUME NEW p \in Procs, NEW doc \in Documents, ApplyConfig(p, doc) PROVE Typed'
    <2>1. /\ config' \in Config /\ InRange(config')
          /\ config'.interval > 0 /\ config'.timeout > 0 /\ config'.concurrency > 0
        <3>1. config' \in ParseConfig(doc)
            BY <1>11 DEF ApplyConfig
        <3>2. config' \in Config
            BY <3>1, StoreAssumption
        <3>3. InRange(config')
            BY <3>1 DEF ParseConfig
        <3>4. /\ config'.interval \in 5 .. 1440 /\ config'.timeout \in 5 .. 60
              /\ config'.concurrency \in 1 .. 10
            BY <3>3 DEF InRange
        <3>5. config'.interval > 0 /\ config'.timeout > 0 /\ config'.concurrency > 0
            BY <3>4
        <3> QED
            BY <3>2, <3>3, <3>5
    <2>2. CASE \E a \in Unused :
                  /\ heap' = [heap EXCEPT ![a] = heap[status.accounts]]
                  /\ status' = [status EXCEPT !.accounts = a]
                  /\ mu' = p
                  /\ Go(p, "mask", [Free EXCEPT !.addr = a])
        <3>1. PICK a \in Unused :
                 /\ heap' = [heap EXCEPT ![a] = heap[status.accounts]]
                 /\ status' = [status EXCEPT !.accounts = a]
                 /\ mu' = p
                 /\ Go(p, "mask", [Free EXCEPT !.addr = a])
            BY <2>2
        <3> DEFINE frame == [Free EXCEPT !.addr = a]
        <3>2. frame.last = 0 /\ frame.running = FALSE /\ frame.json = Nothing
            OBVIOUS
        <3> HIDE DEF frame
        <3>3. Go(p, "mask", frame)
            BY <3>1 DEF frame
        <3>4. Processes'
            BY <3>2, <3>3, NothingIsSlice, FreeTyped, GoTyped
        <3>5. /\ UNCHANGED <<broker, host, readers, refreshMu, kv, refreshes>>
              /\ a \in Addrs
            BY <1>11 DEF ApplyConfig, Unused
        <3> QED
            BY <2>1, <3>1, <3>4, <3>5 DEF Processes
    <2>3. CASE \E step \in {"restart", "idle"} : Go(p, step, Free) /\ UNCHANGED <<heap, status, mu>>
        <3>1. Processes' /\ UNCHANGED <<heap, status, mu>>
            BY <2>3, FreeTyped, GoTyped
        <3> QED
            BY <1>11, <2>1, <3>1 DEF ApplyConfig, Processes
    <2> QED
        BY <1>11, <2>2, <2>3 DEF ApplyConfig, SliceCopy
<1>12. ASSUME NEW p \in Procs, MaskAccount(p) PROVE Typed'
    <2> DEFINE s == heap[local[p].addr]
    <2>1. PICK a \in DOMAIN s : heap' = [heap EXCEPT ![local[p].addr][a] = Masked(@)]
        BY <1>12 DEF MaskAccount
    <2>2. local[p].addr \in Addrs
        BY <1>12 DEF MaskAccount, Writing
    <2>3. Masked(s[a]) \in Account
        BY <2>2, MaskedIsAccount DEF Slice
    <2>4. Slice([s EXCEPT ![a] = Masked(@)])
        BY <2>2, <2>3 DEF Slice
    <2> QED
        BY <1>12, <2>1, <2>2, <2>4 DEF MaskAccount
<1>13. ASSUME NEW p \in Procs, ConfigApplied(p) PROVE Typed'
    <2>1. Go(p, "applySave", Copied) \/ Go(p, "idle", Free)
        BY <1>13 DEF ConfigApplied
    <2> QED
        <3>1. Processes'
            BY <2>1, FreeTyped, GoTyped
        <3> QED
            BY <1>13, <3>1 DEF ConfigApplied, Processes
<1>14. ASSUME NEW p \in Procs, InitHostServices(p) PROVE Typed'
    BY <1>14, NothingIsSlice DEF InitHostServices
<1>15. ASSUME NEW p \in Procs, LoadSnapshot(p) PROVE Typed'
    BY <1>15, NothingIsSlice DEF LoadSnapshot, Unused
<1>16. ASSUME NEW p \in Procs, LoadSnapshotFails(p) PROVE Typed'
    BY <1>16, NothingIsSlice DEF LoadSnapshotFails
<1>17. ASSUME NEW p \in Procs, InstallSnapshot(p) PROVE Typed'
    <2> DEFINE s == heap[local[p].addr]
               r == [a \in DOMAIN s |-> IF config.mask THEN Masked(s[a]) ELSE s[a]]
    <2>1. local[p].addr \in Addrs
        BY <1>17 DEF InstallSnapshot, Writing
    <2>2. Slice(r)
        BY <2>1, MaskedIsAccount DEF Slice
    <2>3. heap' = [heap EXCEPT ![local[p].addr] = r]
        BY <1>17 DEF InstallSnapshot, Restored
    <2> HIDE DEF r
    <2> QED
        BY <1>17, <2>1, <2>2, <2>3, NothingIsSlice DEF InstallSnapshot, Loaded
<1>18. ASSUME NEW p \in Procs, RestartLoop(p) PROVE Typed'
    BY <1>18, NothingIsSlice DEF RestartLoop
<1>19. ASSUME UNCHANGED vars PROVE Typed'
    BY <1>19 DEF vars
<1> QED
    BY <1>1, <1>2, <1>3, <1>4, <1>5, <1>6, <1>7, <1>8, <1>9, <1>10, <1>11, <1>12, <1>13,
       <1>14, <1>15, <1>16, <1>17, <1>18, <1>19 DEF Next, Step

\* The variables keep their shapes, and the configuration in force is always one
\* that parseConfig has found to be in range (config.go:31-45).
THEOREM StoreTypeCorrect == Spec => []TypeOK
<1>1. Init => Typed
    <2> SUFFICES ASSUME Init PROVE Typed
        OBVIOUS
    <2>1. config \in Config /\ InRange(config) /\ config.interval > 0 /\ config.timeout > 0
          /\ config.concurrency > 0
        BY DEF Init, Config, Default, InRange
    <2>2. \A p \in Procs : local[p] = Free
        BY DEF Init
    <2>3. \A a \in Addrs : heap[a] = Nothing
        BY DEF Init
    <2>4. Free.last \in Nat /\ Free.running \in BOOLEAN /\ Free.json = Nothing
        BY DEF Free
    <2>5. Frames /\ \A p \in Procs : Slice(local[p].json)
        BY <2>2, <2>4, NothingIsSlice DEF Frames
    <2>6. /\ broker \in BOOLEAN /\ host \in BOOLEAN /\ mu = NoProc /\ readers = {} /\ refreshMu = NoProc
          /\ DOMAIN heap = Addrs /\ DOMAIN pc = Procs /\ DOMAIN local = Procs
          /\ kv = {} /\ refreshes \in Nat
        BY DEF Init
    <2>7. status \in [accounts : Addrs, last : Nat, running : BOOLEAN,
                      message : {"waiting", "connected", "loaded", "updated"}]
        BY DEF Init
    <2> QED
        BY <2>1, <2>3, <2>5, <2>6, <2>7, NothingIsSlice DEF Typed, TypeOK, Entries
<1>2. Typed => TypeOK
    BY DEF Typed
<1> QED
    BY <1>1, <1>2, InitHolding, HoldingStep, TypedStep, PTL DEF Spec
=============================================================================
