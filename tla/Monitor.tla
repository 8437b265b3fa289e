------------------------------- MODULE Monitor -------------------------------
(***************************************************************************)
(* The Plugin of internal/monitor/plugin.go: its configuration, the status *)
(* snapshot it reports, the copy of that snapshot in the host's KV store,  *)
(* the background refresh loop, and the calls of the host that act on      *)
(* them.  A process is a loop goroutine or a call in progress.  A step is  *)
(* what the code does between two points where another process can run: a  *)
(* critical section of p.mu, or one call to the host.                      *)
(*                                                                         *)
(* A snapshot is abstracted to how it shows identities and to whether      *)
(* every account in it was checked under a live context and connection.    *)
(***************************************************************************)
EXTENDS Naturals, FiniteSets

CONSTANTS
    Loops,           \* loop goroutines that can be alive at once
    Handlers,        \* calls of the host that can be in progress at once
    Configs,         \* configurations the host may apply
    DefaultConfig,   \* defaultConfig
    NoProc,          \* nil, or nobody
    MaxConns,        \* bound: InitHostServices calls in one process life
    MaxCrashes,      \* bound: deaths of the plugin process
    MaxLate          \* bound: KV writes that outlive their caller's timeout

Procs == Loops \cup Handlers

ASSUME MonitorAssumption ==
    /\ Loops \cap Handlers = {}
    /\ NoProc \notin Procs
    /\ Configs \subseteq [mask : BOOLEAN, interval : Nat]
    /\ DefaultConfig \in Configs
    /\ DefaultConfig.mask
    /\ MaxConns \in Nat
    /\ MaxCrashes \in Nat
    /\ MaxLate \in Nat

VARIABLES
    config,     \* Plugin.config
    host,       \* Plugin.host and hostConn: number of the open connection, 0 = nil
    status,     \* Plugin.status
    refreshMu,  \* holder of Plugin.refreshMu
    runCancel,  \* the loop whose context Plugin.runCancel cancels
    interval,   \* per loop: the ticker interval it was started with
    cancelled,  \* per process: its context is done
    pc,         \* per process: what it does next
    frame,      \* per process: its local variables
    kv,         \* the host's KV entry monitor/snapshot
    late,       \* KV writes given up by their caller, not yet carried out
    crashes     \* deaths of the process, bounded by MaxCrashes

vars == <<config, host, status, refreshMu, runCancel, interval, cancelled, pc,
          frame, kv, late, crashes>>

(***************************************************************************)
(* Data.                                                                   *)
(***************************************************************************)
\* ident: how identities are shown, "none" if there is none to show.
\* partial: some account is marked as failed, or lacks data, only because the
\* context was cancelled or the connection closed while it was checked.
Snapshot == [ident : {"none", "masked", "clear"}, partial : BOOLEAN]
Empty == [ident |-> "none", partial |-> FALSE]    \* New
Absent == [ident |-> "absent", partial |-> FALSE] \* KVGet: found = false

\* maskEmail and maskID over the accounts; both leave masked values alone.
Mask(s) == IF s.ident = "clear" THEN [s EXCEPT !.ident = "masked"] ELSE s

\* The locals that outlive a step: the host client and mask setting read
\* under p.mu, and the snapshot being saved or loaded.
Frame == [host : Nat, mask : BOOLEAN, snap : Snapshot]
NoFrame == [host |-> 0, mask |-> TRUE, snap |-> Empty]

PC == {"dead", "wait", "idle", "lock", "list", "check", "save",
       "applySave", "load", "install", "restart"}

\* Processes inside refresh, between its Lock and its Unlock.
Refreshing(p) == pc[p] \in {"list", "check", "save"}

\* Calls that have changed the configuration or the connection and have not
\* restarted the loop yet.
Restarting(h) == pc[h] \in {"applySave", "load", "install", "restart"}

Init ==
    /\ config = DefaultConfig
    /\ host = 0
    /\ status = Empty
    /\ refreshMu = NoProc
    /\ runCancel = NoProc
    /\ interval = [l \in Loops |-> DefaultConfig.interval]
    /\ cancelled = [p \in Procs |-> FALSE]
    /\ pc = [p \in Procs |-> IF p \in Loops THEN "dead" ELSE "idle"]
    /\ frame = [p \in Procs |-> NoFrame]
    /\ kv = Absent
    /\ late = {}
    /\ crashes = 0

(***************************************************************************)
(* Common steps.                                                           *)
(***************************************************************************)
\* Where a process goes when refresh returns: a loop to its select, a call
\* back to the host.
Returned(p) == IF p \in Loops THEN "wait" ELSE "idle"

\* refresh returns (defer refreshMu.Unlock): the locals are gone, and with a
\* call its context.
LeaveRefresh(p) ==
    /\ pc' = [pc EXCEPT ![p] = Returned(p)]
    /\ frame' = [frame EXCEPT ![p] = NoFrame]
    /\ refreshMu' = NoProc
    /\ cancelled' = [cancelled EXCEPT ![p] = p \in Loops /\ cancelled[p]]

Connected(p) == frame[p].host = host

(***************************************************************************)
(* refresh, run by the loop and by TestConfig.                             *)
(***************************************************************************)
\* refreshMu.Lock does not block.
LockFreeAlways == TRUE \* mutant: refresh takes no lock
LockFree == refreshMu = NoProc

\* What refresh reads under p.mu and uses to its end.
CaptureTestUnmasked(p) == \* mutant: a refresh run by TestConfig does not mask
    [host |-> host, mask |-> config.mask /\ p \in Loops, snap |-> Empty]
Capture(p) == [host |-> host, mask |-> config.mask, snap |-> Empty]

\* refreshMu.Lock, then host and cfg under p.mu.  Nobody else looks at
\* refreshMu in between, so the two are one step.
BeginRefresh(p) ==
    /\ pc[p] = "lock"
    /\ LockFree
    /\ host # 0
    /\ refreshMu' = p
    /\ frame' = [frame EXCEPT ![p] = Capture(p)]
    /\ pc' = [pc EXCEPT ![p] = "list"]
    /\ UNCHANGED <<config, host, status, runCancel, interval, cancelled, kv,
                   late, crashes>>

\* The same with host == nil: refresh returns an error.
RefreshWithoutHost(p) ==
    /\ pc[p] = "lock"
    /\ LockFree
    /\ host = 0
    /\ LeaveRefresh(p)
    /\ UNCHANGED <<config, host, status, runCancel, interval, kv, late,
                   crashes>>

\* ListAccounts answers: the context is live and the connection still open.
ListAccounts(p) ==
    /\ pc[p] = "list"
    /\ ~cancelled[p]
    /\ Connected(p)
    /\ pc' = [pc EXCEPT ![p] = "check"]
    /\ UNCHANGED <<config, host, status, refreshMu, runCancel, interval,
                   cancelled, frame, kv, late, crashes>>

\* Mutant of ListAccountsFails: refresh tries again until it succeeds.
ListAccountsRetries(p) ==
    /\ pc[p] = "list"
    /\ UNCHANGED vars

\* It fails or takes 20 seconds: refresh returns the error, status untouched.
ListAccountsFails(p) ==
    /\ pc[p] = "list"
    /\ LeaveRefresh(p)
    /\ UNCHANGED <<config, host, status, runCancel, interval, kv, late,
                   crashes>>

\* What the checks may come to.  Identities follow the mask setting read at
\* the start; "none" when no account yields one.  A context or connection lost
\* since ListAccounts may have left accounts marked as failed.
OutcomesKeepFailures(p) == \* mutant: an account marked as failed keeps its mark
    [ident : {"none", IF frame[p].mask THEN "masked" ELSE "clear"},
     partial : IF cancelled[p] \/ ~Connected(p) THEN BOOLEAN ELSE {status.partial}]
Outcomes(p) ==
    [ident : {"none", IF frame[p].mask THEN "masked" ELSE "clear"},
     partial : IF cancelled[p] \/ ~Connected(p) THEN BOOLEAN ELSE {FALSE}]

\* The checks are done (wg.Wait) and their summary becomes the status.
\* Nothing is compared with the present configuration or context.
Publish(p) ==
    /\ pc[p] = "check"
    /\ status' \in Outcomes(p)
    /\ frame' = [frame EXCEPT ![p].snap = status']
    /\ pc' = [pc EXCEPT ![p] = "save"]
    /\ UNCHANGED <<config, host, refreshMu, runCancel, interval, cancelled, kv,
                   late, crashes>>

(***************************************************************************)
(* saveSnapshot, called by refresh with context.Background() and by        *)
(* ApplyConfig with the context of the call.                               *)
(***************************************************************************)
Saving(p) == pc[p] \in {"save", "applySave"}

\* Mutant of AfterSave: ApplyConfig returns after its save.
AfterSaveReturns(p) ==
    IF pc[p] = "save"
    THEN LeaveRefresh(p)
    ELSE /\ pc' = [pc EXCEPT ![p] = "idle"]
         /\ frame' = [frame EXCEPT ![p] = NoFrame]
         /\ UNCHANGED <<refreshMu, cancelled>>

AfterSave(p) ==
    IF pc[p] = "save"
    THEN LeaveRefresh(p)
    ELSE /\ pc' = [pc EXCEPT ![p] = "restart"]
         /\ frame' = [frame EXCEPT ![p] = NoFrame]
         /\ UNCHANGED <<refreshMu, cancelled>>

CanSave(p) ==
    /\ Saving(p)
    /\ Connected(p)
    /\ pc[p] = "applySave" => ~cancelled[p]

\* Mutant of SaveSnapshot: an entry that is there is not replaced.
SaveSnapshotOnce(p) ==
    /\ CanSave(p)
    /\ kv' = IF kv = Absent THEN frame[p].snap ELSE kv
    /\ AfterSave(p)
    /\ UNCHANGED <<config, host, status, runCancel, interval, late, crashes>>

\* KVSet takes effect.
SaveSnapshot(p) ==
    /\ CanSave(p)
    /\ kv' = frame[p].snap
    /\ AfterSave(p)
    /\ UNCHANGED <<config, host, status, runCancel, interval, late, crashes>>

\* KVSet fails, or the snapshot is over 256 KiB and is not sent: either way
\* saveSnapshot returns nothing and the caller goes on.
SaveSnapshotFails(p) ==
    /\ Saving(p)
    /\ AfterSave(p)
    /\ UNCHANGED <<config, host, status, runCancel, interval, kv, late,
                   crashes>>

\* KVSet takes 5 seconds: the caller goes on, the host may still do it.
SaveSnapshotTimesOut(p) ==
    /\ CanSave(p)
    /\ Cardinality(late) < MaxLate
    /\ late' = late \cup {frame[p].snap}
    /\ AfterSave(p)
    /\ UNCHANGED <<config, host, status, runCancel, interval, kv, crashes>>

\* The host gets to a write its caller has given up, or drops it.
LateWrite(s) ==
    /\ s \in late
    /\ late' = late \ {s}
    /\ kv' \in {s, kv}
    /\ UNCHANGED <<config, host, status, refreshMu, runCancel, interval,
                   cancelled, pc, frame, crashes>>

(***************************************************************************)
(* The loop goroutine.                                                     *)
(***************************************************************************)
\* <-ticker.C; select may also take it when the context is done.
Tick(l) ==
    /\ pc[l] = "wait"
    /\ pc' = [pc EXCEPT ![l] = "lock"]
    /\ UNCHANGED <<config, host, status, refreshMu, runCancel, interval,
                   cancelled, frame, kv, late, crashes>>

\* <-ctx.Done(): the goroutine ends, and its locals with it.
LoopExit(l) ==
    /\ pc[l] = "wait"
    /\ cancelled[l]
    /\ pc' = [pc EXCEPT ![l] = "dead"]
    /\ cancelled' = [cancelled EXCEPT ![l] = FALSE]
    /\ interval' = [interval EXCEPT ![l] = DefaultConfig.interval]
    /\ UNCHANGED <<config, host, status, refreshMu, runCancel, frame, kv, late,
                   crashes>>

\* Processes whose context is done once restartLoop has called runCancel.
SupersededNone(p) == cancelled[p] \* mutant: runCancel is not called
SupersededBoth(p) == \* mutant: runCancel is replaced before it is called
    cancelled[p] \/ p = runCancel \/ p = runCancel'
Superseded(p) == cancelled[p] \/ p = runCancel

\* The goroutine refreshes before it waits for its first tick.
FirstStepWait == "wait" \* mutant: it does not
FirstStep == "lock"

\* restartLoop, the last step of ApplyConfig and InitHostServices: cancel the
\* loop there is, start one with the present configuration, and return.
RestartLoop(h) ==
    /\ pc[h] = "restart"
    /\ \E l \in Loops :
          /\ pc[l] = "dead"
          /\ runCancel' = l
          /\ interval' = [interval EXCEPT ![l] = config.interval]
          /\ pc' = [pc EXCEPT ![h] = "idle", ![l] = FirstStep]
    /\ cancelled' = [p \in Procs |-> p # h /\ Superseded(p)]
    /\ UNCHANGED <<config, host, status, refreshMu, frame, kv, late, crashes>>

(***************************************************************************)
(* Calls of the host.                                                      *)
(***************************************************************************)
\* ApplyConfig with a configuration parseConfig accepts: its p.mu section.
\* What is left to do is a save if identities were just masked, and a restart
\* of the loop, both only if there is a host.
ApplyConfig(h, cfg) ==
    LET maskExisting == cfg.mask /\ ~config.mask
        hasHost == host # 0
    IN  /\ pc[h] = "idle"
        /\ config' = cfg
        /\ status' = IF maskExisting THEN Mask(status) ELSE status
        /\ IF hasHost /\ maskExisting
           THEN /\ pc' = [pc EXCEPT ![h] = "applySave"]
                /\ frame' = [frame EXCEPT ![h] = [NoFrame EXCEPT !.host = host,
                                                                 !.snap = status']]
           ELSE /\ pc' = [pc EXCEPT ![h] = IF hasHost THEN "restart" ELSE "idle"]
                /\ UNCHANGED frame
        /\ UNCHANGED <<host, refreshMu, runCancel, interval, cancelled, kv,
                       late, crashes>>

\* TestConfig: the configuration in the request is parsed and put aside; the
\* call runs refresh under its own context.
TestConfig(h) ==
    /\ pc[h] = "idle"
    /\ pc' = [pc EXCEPT ![h] = "lock"]
    /\ UNCHANGED <<config, host, status, refreshMu, runCancel, interval,
                   cancelled, frame, kv, late, crashes>>

\* InitHostServices after a successful Dial: the new connection replaces and
\* closes the old one.
InitHostServices(h) ==
    /\ pc[h] = "idle"
    /\ host < MaxConns
    /\ host' = host + 1
    /\ pc' = [pc EXCEPT ![h] = "load"]
    /\ UNCHANGED <<config, status, refreshMu, runCancel, interval, cancelled,
                   frame, kv, late, crashes>>

\* response.GetFound()
FoundAlways == TRUE \* mutant: it is not looked at
Found == kv # Absent

\* loadSnapshot: KVGet finds an entry.
LoadSnapshot(h) ==
    /\ pc[h] = "load"
    /\ ~cancelled[h]
    /\ Found
    /\ frame' = [frame EXCEPT ![h].snap = kv]
    /\ pc' = [pc EXCEPT ![h] = "install"]
    /\ UNCHANGED <<config, host, status, refreshMu, runCancel, interval,
                   cancelled, kv, late, crashes>>

\* KVGet fails, times out or finds nothing.
LoadSnapshotFails(h) ==
    /\ pc[h] = "load"
    /\ pc' = [pc EXCEPT ![h] = "restart"]
    /\ UNCHANGED <<config, host, status, refreshMu, runCancel, interval,
                   cancelled, frame, kv, late, crashes>>

\* The entry as it is shown: masked if the configuration now says so.
LoadedAsStored(s) == s \* mutant: shown as it was stored
Loaded(s) == IF config.mask THEN Mask(s) ELSE s

\* The entry becomes the status, whatever the status was before.
InstallSnapshot(h) ==
    /\ pc[h] = "install"
    /\ status' = Loaded(frame[h].snap)
    /\ frame' = [frame EXCEPT ![h] = NoFrame]
    /\ pc' = [pc EXCEPT ![h] = "restart"]
    /\ UNCHANGED <<config, host, refreshMu, runCancel, interval, cancelled, kv,
                   late, crashes>>

\* The host gives up a call (the 30 seconds of a test, a closed page): the
\* context of the call is done, its handler runs on.  Only where the handler
\* still has a use for the context is that a step.
CallCancelled(h) ==
    /\ pc[h] \in {"lock", "list", "check", "applySave", "load"}
    /\ ~cancelled[h]
    /\ cancelled' = [cancelled EXCEPT ![h] = TRUE]
    /\ UNCHANGED <<config, host, status, refreshMu, runCancel, interval, pc,
                   frame, kv, late, crashes>>

(***************************************************************************)
(* The process dies and the host starts it again: all is lost but the KV   *)
(* store and the writes on their way to it.                                *)
(***************************************************************************)
Crash ==
    /\ crashes < MaxCrashes
    /\ crashes' = crashes + 1
    /\ \E sent \in SUBSET {frame[p].snap : p \in {q \in Procs : CanSave(q)}} :
          late' = late \cup sent
    /\ config' = DefaultConfig
    /\ host' = 0
    /\ status' = Empty
    /\ refreshMu' = NoProc
    /\ runCancel' = NoProc
    /\ interval' = [l \in Loops |-> DefaultConfig.interval]
    /\ cancelled' = [p \in Procs |-> FALSE]
    /\ pc' = [p \in Procs |-> IF p \in Loops THEN "dead" ELSE "idle"]
    /\ frame' = [p \in Procs |-> NoFrame]
    /\ UNCHANGED kv

RefreshStep(p) ==
    \/ BeginRefresh(p)
    \/ RefreshWithoutHost(p)
    \/ ListAccounts(p)
    \/ ListAccountsFails(p)
    \/ Publish(p)

SaveStep(p) ==
    \/ SaveSnapshot(p)
    \/ SaveSnapshotFails(p)
    \/ SaveSnapshotTimesOut(p)

CallStep(h) ==
    \/ \E cfg \in Configs : ApplyConfig(h, cfg)
    \/ TestConfig(h)
    \/ InitHostServices(h)
    \/ LoadSnapshot(h)
    \/ LoadSnapshotFails(h)
    \/ InstallSnapshot(h)
    \/ RestartLoop(h)
    \/ CallCancelled(h)

Next ==
    \/ \E p \in Procs : RefreshStep(p) \/ SaveStep(p)
    \/ \E l \in Loops : Tick(l) \/ LoopExit(l)
    \/ \E h \in Handlers : CallStep(h)
    \/ \E s \in late : LateWrite(s)
    \/ Crash

Spec == Init /\ [][Next]_vars

(***************************************************************************)
(* Fairness.  Every step of a process is bounded in the code: ListAccounts *)
(* by 20 seconds, a check by five request timeouts, a KV call by 5         *)
(* seconds; the ticker always fires again.  A sync.Mutex hands itself to a *)
(* waiter after a millisecond, and a select with two ready cases picks one *)
(* at random, so neither waiter nor case is passed over for ever.          *)
(***************************************************************************)
Proceed(p) ==
    \/ ListAccounts(p)
    \/ ListAccountsFails(p)
    \/ Publish(p)
    \/ SaveStep(p)

Fairness ==
    /\ \A p \in Procs :
          /\ WF_vars(Proceed(p))
          /\ SF_vars(BeginRefresh(p) \/ RefreshWithoutHost(p))
    /\ \A l \in Loops :
          /\ WF_vars(Tick(l) \/ LoopExit(l))
          /\ SF_vars(LoopExit(l))
    /\ \A h \in Handlers :
          /\ WF_vars(LoadSnapshot(h) \/ LoadSnapshotFails(h) \/ InstallSnapshot(h))
          /\ SF_vars(RestartLoop(h))
    /\ \A s \in Snapshot : WF_vars(LateWrite(s))

FairSpec == Spec /\ Fairness

(***************************************************************************)
(* Invariants.                                                             *)
(***************************************************************************)
\* Every variable has the shape its declaration in plugin.go gives it.
TypeOK ==
    /\ config \in Configs
    /\ host \in Nat
    /\ status \in Snapshot
    /\ refreshMu \in Procs \cup {NoProc}
    /\ runCancel \in Loops \cup {NoProc}
    /\ interval \in [Loops -> Nat]
    /\ cancelled \in [Procs -> BOOLEAN]
    /\ pc \in [Procs -> PC]
    /\ \A l \in Loops : pc[l] \in {"dead", "wait", "lock", "list", "check", "save"}
    /\ \A h \in Handlers : pc[h] \notin {"dead", "wait"}
    /\ frame \in [Procs -> Frame]
    /\ kv \in Snapshot \cup {Absent}
    /\ late \in SUBSET Snapshot
    /\ crashes \in Nat

\* refreshMu is held exactly by the process that is inside refresh: two
\* refreshes never overlap, and no way out of refresh leaves it locked.
RefreshMuInv ==
    \A p \in Procs : Refreshing(p) <=> refreshMu = p

\* At most the loop whose cancel function is at hand is alive and not told to
\* stop; an ended goroutine takes its context along.
LiveLoop ==
    /\ \A l \in Loops : l # runCancel => pc[l] = "dead" \/ cancelled[l]
    /\ \A l \in Loops : pc[l] = "dead" => ~cancelled[l]
    /\ runCancel # NoProc => pc[runCancel] # "dead" /\ ~cancelled[runCancel]

\* Once every call has finished, a connected plugin runs exactly one loop that
\* has not been told to stop, and its ticker has the interval of the present
\* configuration, whatever the order in which the calls overlapped.
LiveLoopFollowsConfig ==
    /\ LiveLoop
    /\ host # 0 /\ (\A h \in Handlers : ~Restarting(h)) =>
          runCancel # NoProc /\ interval[runCancel] = config.interval

\* A loop cancelled while it checks accounts will publish a partial snapshot
\* over a good one; whenever that can happen the loop that replaced it has its
\* first refresh still ahead, so no full interval passes before the repair.
SuccessorPending ==
    \A l \in Loops : pc[l] = "check" /\ cancelled[l] =>
        runCancel # NoProc /\ pc[runCancel] = "lock"

(***************************************************************************)
(* The promise about identities: see IdentityView.  The stale refresh is   *)
(* the one that has read MaskAccountIdentity = FALSE, has not published,   *)
(* and has seen the switch turned on since.                                *)
(***************************************************************************)
StaleRefresh ==
    config.mask /\ \E p \in Procs : pc[p] \in {"list", "check"} /\ ~frame[p].mask

View == INSTANCE IdentityView
            WITH mask <- config.mask, shown <- status.ident, stale <- StaleRefresh

\* Masking that is turned on hides the reported status at once; from then on
\* full identities come back at most once, from the one refresh that was then
\* under way, and never from a loaded snapshot.
ImplementsView == View!Spec

(***************************************************************************)
(* Liveness.                                                               *)
(***************************************************************************)
\* Every call of the host comes back, even behind other refreshes.
CallsReturn == \A h \in Handlers : pc[h] # "idle" ~> pc[h] = "idle"

\* A goroutine whose context was cancelled ends: no leak, whatever it waited for.
CancelledLoopsExit == \A l \in Loops : cancelled[l] ~> pc[l] = "dead"

\* Once the host is connected and makes no more calls, refreshes are attempted
\* for ever under a live context: no order of restarts kills the monitor.
KeepsRefreshing ==
    <>[](host # 0 /\ \A h \in Handlers : pc[h] = "idle")
        => []<>(\E l \in Loops : pc[l] = "list" /\ ~cancelled[l])

\* The host answers ListAccounts again and again.
HostAnswers == []<><<\E p \in Procs : ListAccounts(p)>>_vars

\* A refresh gets its snapshot into the KV store again and again.
KvAnswers == []<><<\E p \in Procs : pc[p] = "save" /\ SaveSnapshot(p)>>_vars

\* If masking stays on and the host answers, full identities disappear for
\* good from the status, and from the KV store if that answers too: the races
\* that bring them back cannot recur for ever.
MaskReachesStatus ==
    HostAnswers => (<>[]config.mask => <>[](status.ident # "clear"))
MaskReachesKv ==
    KvAnswers => (<>[]config.mask => <>[](kv.ident # "clear"))

\* If the host stops calling and answers, a snapshot with accounts that failed
\* only because of a cancelled context or a closed connection does not stay.
PartialSnapshotHeals ==
    HostAnswers => (<>[](\A h \in Handlers : pc[h] = "idle")
                      => <>[](~status.partial))
=============================================================================
