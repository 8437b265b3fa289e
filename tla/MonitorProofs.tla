---------------------------- MODULE MonitorProofs ----------------------------
(***************************************************************************)
(* What Monitor keeps for every number of loops, calls, configurations,    *)
(* connections, crashes and late writes.                                   *)
(***************************************************************************)
EXTENDS Monitor, TLAPS

\* A common step of a process inside refresh keeps the types.
LEMMA LeaveRefreshType ==
    ASSUME TypeOK, NEW p \in Procs, pc[p] \in {"lock", "list", "save"}, LeaveRefresh(p)
    PROVE  /\ refreshMu' \in Procs \cup {NoProc}
           /\ cancelled' \in [Procs -> BOOLEAN]
           /\ pc' \in [Procs -> PC]
           /\ \A l \in Loops : pc'[l] \in {"dead", "wait", "lock", "list", "check", "save"}
           /\ \A h \in Handlers : pc'[h] \notin {"dead", "wait"}
           /\ frame' \in [Procs -> Frame]
<1>1. NoFrame \in Frame
  BY DEF NoFrame, Frame, Empty, Snapshot
<1>2. p \in Loops => p \notin Handlers
  BY MonitorAssumption DEF Procs
<1> QED
  BY <1>1, <1>2, MonitorAssumption DEF TypeOK, LeaveRefresh, Returned, Procs, PC

\* The values the variables start from, before and after a crash.
LEMMA InitialValues ==
    /\ NoFrame \in Frame
    /\ Empty \in Snapshot
    /\ DefaultConfig.interval \in Nat
    /\ [l \in Loops |-> DefaultConfig.interval] \in [Loops -> Nat]
    /\ LET start == [p \in Procs |-> IF p \in Loops THEN "dead" ELSE "idle"]
       IN  /\ start \in [Procs -> PC]
           /\ \A l \in Loops : start[l] = "dead"
           /\ \A h \in Handlers : start[h] = "idle"
BY MonitorAssumption DEF NoFrame, Frame, Empty, Snapshot, Procs, PC

\* What saveSnapshot leads to keeps the types.
LEMMA AfterSaveType ==
    ASSUME TypeOK, NEW p \in Procs, Saving(p), AfterSave(p)
    PROVE  /\ refreshMu' \in Procs \cup {NoProc}
           /\ cancelled' \in [Procs -> BOOLEAN]
           /\ pc' \in [Procs -> PC]
           /\ \A l \in Loops : pc'[l] \in {"dead", "wait", "lock", "list", "check", "save"}
           /\ \A h \in Handlers : pc'[h] \notin {"dead", "wait"}
           /\ frame' \in [Procs -> Frame]
<1>1. CASE pc[p] = "save"
  BY <1>1, LeaveRefreshType DEF AfterSave
<1>2. CASE pc[p] = "applySave"
  <2>1. p \in Handlers /\ p \notin Loops
    BY <1>2, MonitorAssumption DEF TypeOK, Procs
  <2>2. NoFrame \in Frame
    BY InitialValues
  <2> QED
    BY <1>2, <2>1, <2>2, MonitorAssumption DEF AfterSave, TypeOK, PC, Procs
<1> QED
  BY <1>1, <1>2 DEF Saving

\* Each step keeps the types.
LEMMA TypeStep ==
    ASSUME TypeOK, [Next]_vars
    PROVE  TypeOK'
<1> USE MonitorAssumption
<1>1. ASSUME NEW p \in Procs, BeginRefresh(p) PROVE TypeOK'
  <2>1. Capture(p) \in Frame
    BY DEF Capture, Frame, Empty, Snapshot, TypeOK
  <2> QED
    BY <1>1, <2>1 DEF BeginRefresh, LockFree, TypeOK, PC, Procs
<1>2. ASSUME NEW p \in Procs, RefreshWithoutHost(p) PROVE TypeOK'
  BY <1>2, LeaveRefreshType DEF RefreshWithoutHost, TypeOK
<1>3. ASSUME NEW p \in Procs, ListAccounts(p) PROVE TypeOK'
  BY <1>3 DEF ListAccounts, TypeOK, PC, Procs
<1>4. ASSUME NEW p \in Procs, ListAccountsFails(p) PROVE TypeOK'
  BY <1>4, LeaveRefreshType DEF ListAccountsFails, TypeOK
<1>5. ASSUME NEW p \in Procs, Publish(p) PROVE TypeOK'
  <2>1. status' \in Snapshot
    BY <1>5 DEF Publish, Outcomes, Snapshot, TypeOK
  <2>2. frame' \in [Procs -> Frame]
    BY <1>5, <2>1 DEF Publish, Frame, TypeOK
  <2> QED
    BY <1>5, <2>1, <2>2 DEF Publish, TypeOK, PC, Procs
<1>6. ASSUME NEW p \in Procs, SaveStep(p) PROVE TypeOK'
  <2>1. Saving(p) /\ AfterSave(p)
    BY <1>6 DEF SaveStep, SaveSnapshot, SaveSnapshotFails, SaveSnapshotTimesOut, CanSave
  <2>2. frame[p].snap \in Snapshot
    BY DEF TypeOK, Frame
  <2>3. kv' \in Snapshot \cup {Absent} /\ late' \in SUBSET Snapshot
    BY <1>6, <2>2 DEF SaveStep, SaveSnapshot, SaveSnapshotFails, SaveSnapshotTimesOut, TypeOK
  <2>4. UNCHANGED <<config, host, status, runCancel, interval, crashes>>
    BY <1>6 DEF SaveStep, SaveSnapshot, SaveSnapshotFails, SaveSnapshotTimesOut
  <2> QED
    BY <2>1, <2>3, <2>4, AfterSaveType DEF TypeOK
<1>7. ASSUME NEW l \in Loops, Tick(l) PROVE TypeOK'
  BY <1>7 DEF Tick, TypeOK, PC, Procs
<1>8. ASSUME NEW l \in Loops, LoopExit(l) PROVE TypeOK'
  BY <1>8 DEF LoopExit, TypeOK, PC, Procs
<1>9. ASSUME NEW h \in Handlers, NEW cfg \in Configs, ApplyConfig(h, cfg) PROVE TypeOK'
  <2>1. status' \in Snapshot
    BY <1>9 DEF ApplyConfig, Mask, Snapshot, TypeOK
  <2>2. [NoFrame EXCEPT !.host = host, !.snap = status'] \in Frame
    BY <2>1 DEF NoFrame, Frame, TypeOK
  <2>3. frame' \in [Procs -> Frame]
    BY <1>9, <2>2 DEF ApplyConfig, TypeOK
  <2> QED
    BY <1>9, <2>1, <2>3 DEF ApplyConfig, TypeOK, PC, Procs
<1>10. ASSUME NEW h \in Handlers, TestConfig(h) PROVE TypeOK'
  BY <1>10 DEF TestConfig, TypeOK, PC, Procs
<1>11. ASSUME NEW h \in Handlers, InitHostServices(h) PROVE TypeOK'
  BY <1>11 DEF InitHostServices, TypeOK, PC, Procs
<1>12. ASSUME NEW h \in Handlers, LoadSnapshot(h) PROVE TypeOK'
  <2>1. kv \in Snapshot
    BY <1>12 DEF LoadSnapshot, Found, TypeOK
  <2>2. frame' \in [Procs -> Frame]
    BY <1>12, <2>1 DEF LoadSnapshot, Frame, TypeOK
  <2> QED
    BY <1>12, <2>2 DEF LoadSnapshot, TypeOK, PC, Procs
<1>13. ASSUME NEW h \in Handlers, LoadSnapshotFails(h) PROVE TypeOK'
  BY <1>13 DEF LoadSnapshotFails, TypeOK, PC, Procs
<1>14. ASSUME NEW h \in Handlers, InstallSnapshot(h) PROVE TypeOK'
  <2>1. status' \in Snapshot
    BY <1>14 DEF InstallSnapshot, Loaded, Mask, Frame, Snapshot, TypeOK, Procs
  <2> QED
    BY <1>14, <2>1, InitialValues DEF InstallSnapshot, TypeOK, PC, Procs
<1>15. ASSUME NEW h \in Handlers, RestartLoop(h) PROVE TypeOK'
  <2>1. cancelled' \in [Procs -> BOOLEAN]
    BY <1>15 DEF RestartLoop, Superseded, TypeOK
  <2>2. config.interval \in Nat
    BY DEF TypeOK
  <2> QED
    BY <1>15, <2>1, <2>2 DEF RestartLoop, FirstStep, TypeOK, PC, Procs
<1>16. ASSUME NEW h \in Handlers, CallCancelled(h) PROVE TypeOK'
  BY <1>16 DEF CallCancelled, TypeOK, Procs
<1>17. ASSUME NEW s \in late, LateWrite(s) PROVE TypeOK'
  BY <1>17 DEF LateWrite, TypeOK
<1>18. ASSUME Crash PROVE TypeOK'
  <2>1. \A p \in Procs : frame[p].snap \in Snapshot
    BY DEF TypeOK, Frame
  <2>2. late' \in SUBSET Snapshot
    BY <1>18, <2>1 DEF Crash, TypeOK
  <2>3. pc' \in [Procs -> PC] /\ (\A l \in Loops : pc'[l] = "dead")
        /\ (\A h \in Handlers : pc'[h] = "idle")
    BY <1>18, InitialValues DEF Crash
  <2> QED
    BY <1>18, <2>2, <2>3, InitialValues DEF Crash, TypeOK
<1>19. ASSUME UNCHANGED vars PROVE TypeOK'
  BY <1>19 DEF vars, TypeOK
<1> QED
  BY <1>1, <1>2, <1>3, <1>4, <1>5, <1>6, <1>7, <1>8, <1>9, <1>10, <1>11, <1>12,
     <1>13, <1>14, <1>15, <1>16, <1>17, <1>18, <1>19
     DEF Next, RefreshStep, CallStep

\* Every reachable state has the shapes the declarations give.
THEOREM TypeCorrect == Spec => []TypeOK
<1>1. Init => TypeOK
  BY MonitorAssumption, InitialValues DEF Init, TypeOK
<1>2. TypeOK /\ [Next]_vars => TypeOK'
  BY TypeStep
<1> QED
  BY <1>1, <1>2, PTL DEF Spec

(***************************************************************************)
(* The safety of the lock and of the loop.  LiveLoopFollowsConfig alone is *)
(* not inductive: that a cancelled loop is not the one at hand needs       *)
(* LiveLoop, and SuccessorPending needs RefreshMuInv, by which the new     *)
(* loop cannot leave its Lock while the old one is still checking.         *)
(***************************************************************************)
IInv == TypeOK /\ RefreshMuInv /\ LiveLoopFollowsConfig /\ SuccessorPending

\* Nobody but the holder of refreshMu is inside refresh.
LEMMA OneRefresh ==
    ASSUME IInv, NEW p \in Procs, Refreshing(p), NEW q \in Procs, Refreshing(q)
    PROVE  p = q
BY DEF IInv, RefreshMuInv

\* The lock is free exactly if nobody is inside refresh.
LEMMA NoRefresh ==
    ASSUME IInv, LockFree, NEW p \in Procs
    PROVE  ~Refreshing(p)
BY MonitorAssumption DEF IInv, RefreshMuInv, LockFree, Procs

\* The initial state satisfies the invariant.
LEMMA InitIInv == ASSUME Init PROVE IInv
<1> USE MonitorAssumption
<1>1. TypeOK
  BY InitialValues DEF Init, TypeOK
<1>2. RefreshMuInv
  BY DEF Init, RefreshMuInv, Refreshing, Procs
<1>3. LiveLoopFollowsConfig /\ SuccessorPending
  BY DEF Init, LiveLoopFollowsConfig, LiveLoop, SuccessorPending, Procs
<1> QED
  BY <1>1, <1>2, <1>3 DEF IInv

\* Each step keeps the invariant.
LEMMA IInvStep ==
    ASSUME IInv, [Next]_vars
    PROVE  IInv'
<1> USE MonitorAssumption
<1>0. TypeOK /\ TypeOK'
  BY TypeStep DEF IInv
<1>1. ASSUME NEW p \in Procs, BeginRefresh(p) PROVE IInv'
  <2>1. \A q \in Procs : ~Refreshing(q)
    BY <1>1, NoRefresh DEF BeginRefresh
  <2>2. RefreshMuInv'
    BY <1>0, <1>1, <2>1 DEF BeginRefresh, LockFree, RefreshMuInv, Refreshing, TypeOK
  <2>3. LiveLoopFollowsConfig'
    BY <1>0, <1>1 DEF BeginRefresh, IInv, LiveLoopFollowsConfig, LiveLoop, Restarting,
                      TypeOK, Procs
  <2>4. SuccessorPending'
    BY <1>0, <1>1, <2>1 DEF BeginRefresh, SuccessorPending, Refreshing, TypeOK, Procs
  <2> QED
    BY <1>0, <2>2, <2>3, <2>4 DEF IInv
<1>2. ASSUME NEW p \in Procs, RefreshWithoutHost(p) PROVE IInv'
  <2>1. \A q \in Procs : ~Refreshing(q)
    BY <1>2, NoRefresh DEF RefreshWithoutHost
  <2>2. RefreshMuInv'
    BY <1>0, <1>2, <2>1 DEF RefreshWithoutHost, LeaveRefresh, Returned, LockFree,
                            RefreshMuInv, Refreshing, TypeOK, Procs
  <2>3. LiveLoopFollowsConfig'
    BY <1>0, <1>2 DEF RefreshWithoutHost, LeaveRefresh, Returned, IInv,
                      LiveLoopFollowsConfig, LiveLoop, Restarting, TypeOK, Procs
  <2>4. SuccessorPending'
    BY <1>0, <1>2, <2>1 DEF RefreshWithoutHost, LeaveRefresh, Returned,
                            SuccessorPending, Refreshing, TypeOK, Procs
  <2> QED
    BY <1>0, <2>2, <2>3, <2>4 DEF IInv
<1>3. ASSUME NEW p \in Procs, ListAccounts(p) PROVE IInv'
  <2>1. \A q \in Procs : Refreshing(q) => q = p
    BY <1>3, OneRefresh DEF ListAccounts, Refreshing
  <2>2. RefreshMuInv'
    BY <1>0, <1>3 DEF ListAccounts, IInv, RefreshMuInv, Refreshing, TypeOK
  <2>3. LiveLoopFollowsConfig'
    BY <1>0, <1>3 DEF ListAccounts, IInv, LiveLoopFollowsConfig, LiveLoop, Restarting,
                      TypeOK, Procs
  <2>4. SuccessorPending'
    BY <1>0, <1>3, <2>1 DEF ListAccounts, SuccessorPending, Refreshing, TypeOK, Procs
  <2> QED
    BY <1>0, <2>2, <2>3, <2>4 DEF IInv
<1>4. ASSUME NEW p \in Procs, ListAccountsFails(p) PROVE IInv'
  <2>1. \A q \in Procs : Refreshing(q) => q = p
    BY <1>4, OneRefresh DEF ListAccountsFails, Refreshing
  <2>2. RefreshMuInv'
    BY <1>0, <1>4, <2>1 DEF ListAccountsFails, LeaveRefresh, Returned, RefreshMuInv,
                            Refreshing, TypeOK, Procs
  <2>3. LiveLoopFollowsConfig'
    BY <1>0, <1>4 DEF ListAccountsFails, LeaveRefresh, Returned, IInv,
                      LiveLoopFollowsConfig, LiveLoop, Restarting, TypeOK, Procs
  <2>4. SuccessorPending'
    BY <1>0, <1>4, <2>1 DEF ListAccountsFails, LeaveRefresh, Returned,
                            SuccessorPending, Refreshing, TypeOK, Procs
  <2> QED
    BY <1>0, <2>2, <2>3, <2>4 DEF IInv
<1>5. ASSUME NEW p \in Procs, Publish(p) PROVE IInv'
  <2>1. \A q \in Procs : Refreshing(q) => q = p
    BY <1>5, OneRefresh DEF Publish, Refreshing
  <2>2. RefreshMuInv'
    BY <1>0, <1>5 DEF Publish, IInv, RefreshMuInv, Refreshing, TypeOK
  <2>3. LiveLoopFollowsConfig'
    BY <1>0, <1>5 DEF Publish, IInv, LiveLoopFollowsConfig, LiveLoop, Restarting,
                      TypeOK, Procs
  <2>4. SuccessorPending'
    BY <1>0, <1>5, <2>1 DEF Publish, SuccessorPending, Refreshing, TypeOK, Procs
  <2> QED
    BY <1>0, <2>2, <2>3, <2>4 DEF IInv
<1>6. ASSUME NEW p \in Procs, SaveStep(p) PROVE IInv'
  <2>0. /\ Saving(p) /\ AfterSave(p)
        /\ UNCHANGED <<config, host, status, runCancel, interval, crashes>>
    BY <1>6 DEF SaveStep, SaveSnapshot, SaveSnapshotFails, SaveSnapshotTimesOut, CanSave
  <2>1. CASE pc[p] = "save"
    <3>1. LeaveRefresh(p)
      BY <2>0, <2>1 DEF AfterSave
    <3>2. \A q \in Procs : Refreshing(q) => q = p
      BY <2>1, OneRefresh DEF Refreshing
    <3>3. RefreshMuInv'
      BY <1>0, <3>1, <3>2 DEF LeaveRefresh, Returned, RefreshMuInv, Refreshing, TypeOK, Procs
    <3>4. LiveLoopFollowsConfig'
      BY <1>0, <2>0, <2>1, <3>1 DEF LeaveRefresh, Returned, IInv, LiveLoopFollowsConfig,
                                    LiveLoop, Restarting, TypeOK, Procs
    <3>5. SuccessorPending'
      BY <1>0, <2>1, <3>1, <3>2 DEF LeaveRefresh, Returned, SuccessorPending, Refreshing,
                                    TypeOK, Procs
    <3> QED
      BY <1>0, <3>3, <3>4, <3>5 DEF IInv
  <2>2. CASE pc[p] = "applySave"
    <3>1. /\ p \in Handlers /\ p \notin Loops
          /\ pc' = [pc EXCEPT ![p] = "restart"]
          /\ UNCHANGED <<refreshMu, cancelled>>
      BY <1>0, <2>0, <2>2 DEF AfterSave, TypeOK, Procs
    <3>2. RefreshMuInv'
      BY <1>0, <2>2, <3>1 DEF IInv, RefreshMuInv, Refreshing, TypeOK
    <3>3. LiveLoopFollowsConfig'
      BY <1>0, <2>0, <3>1 DEF IInv, LiveLoopFollowsConfig, LiveLoop, Restarting, TypeOK, Procs
    <3>4. SuccessorPending'
      BY <1>0, <2>0, <3>1 DEF IInv, SuccessorPending, TypeOK, Procs
    <3> QED
      BY <1>0, <3>2, <3>3, <3>4 DEF IInv
  <2> QED
    BY <2>0, <2>1, <2>2 DEF Saving
<1>7. ASSUME NEW l \in Loops, Tick(l) PROVE IInv'
  <2>1. RefreshMuInv'
    BY <1>0, <1>7 DEF Tick, IInv, RefreshMuInv, Refreshing, TypeOK, Procs
  <2>2. LiveLoopFollowsConfig'
    BY <1>0, <1>7 DEF Tick, IInv, LiveLoopFollowsConfig, LiveLoop, Restarting, TypeOK, Procs
  <2>3. SuccessorPending'
    BY <1>0, <1>7 DEF Tick, IInv, SuccessorPending, TypeOK, Procs
  <2> QED
    BY <1>0, <2>1, <2>2, <2>3 DEF IInv
<1>8. ASSUME NEW l \in Loops, LoopExit(l) PROVE IInv'
  <2>1. RefreshMuInv'
    BY <1>0, <1>8 DEF LoopExit, IInv, RefreshMuInv, Refreshing, TypeOK, Procs
  <2>2. LiveLoopFollowsConfig'
    BY <1>0, <1>8 DEF LoopExit, IInv, LiveLoopFollowsConfig, LiveLoop, Restarting, TypeOK, Procs
  <2>3. SuccessorPending'
    BY <1>0, <1>8 DEF LoopExit, IInv, SuccessorPending, TypeOK, Procs
  <2> QED
    BY <1>0, <2>1, <2>2, <2>3 DEF IInv
<1>9. ASSUME NEW h \in Handlers, NEW cfg \in Configs, ApplyConfig(h, cfg) PROVE IInv'
  <2>0. /\ pc[h] = "idle" /\ h \in Procs /\ h \notin Loops
        /\ \E next \in {"applySave", "restart", "idle"} :
              pc' = [pc EXCEPT ![h] = next] /\ (host # 0 => next # "idle")
        /\ UNCHANGED <<host, refreshMu, runCancel, interval, cancelled>>
    BY <1>9 DEF ApplyConfig, Procs
  <2>1. RefreshMuInv'
    BY <1>0, <2>0 DEF IInv, RefreshMuInv, Refreshing, TypeOK
  <2>2. LiveLoopFollowsConfig'
    BY <1>0, <2>0 DEF IInv, LiveLoopFollowsConfig, LiveLoop, Restarting, TypeOK, Procs
  <2>3. SuccessorPending'
    BY <1>0, <2>0 DEF IInv, SuccessorPending, TypeOK, Procs
  <2> QED
    BY <1>0, <2>1, <2>2, <2>3 DEF IInv
<1>10. ASSUME NEW h \in Handlers, TestConfig(h) PROVE IInv'
  <2>1. RefreshMuInv'
    BY <1>0, <1>10 DEF TestConfig, IInv, RefreshMuInv, Refreshing, TypeOK, Procs
  <2>2. LiveLoopFollowsConfig'
    BY <1>0, <1>10 DEF TestConfig, IInv, LiveLoopFollowsConfig, LiveLoop, Restarting, TypeOK, Procs
  <2>3. SuccessorPending'
    BY <1>0, <1>10 DEF TestConfig, IInv, SuccessorPending, TypeOK, Procs
  <2> QED
    BY <1>0, <2>1, <2>2, <2>3 DEF IInv
<1>11. ASSUME NEW h \in Handlers,
              InitHostServices(h) \/ LoadSnapshot(h) \/ LoadSnapshotFails(h) \/ InstallSnapshot(h)
       PROVE  IInv'
  <2>0. /\ pc[h] \in {"idle", "load", "install"} /\ h \in Procs /\ h \notin Loops
        /\ \E next \in {"load", "install", "restart"} : pc' = [pc EXCEPT ![h] = next]
        /\ UNCHANGED <<config, refreshMu, runCancel, interval, cancelled>>
    BY <1>11 DEF InitHostServices, LoadSnapshot, LoadSnapshotFails, InstallSnapshot, Procs
  <2>1. RefreshMuInv'
    BY <1>0, <2>0 DEF IInv, RefreshMuInv, Refreshing, TypeOK
  <2>2. LiveLoopFollowsConfig'
    BY <1>0, <2>0 DEF IInv, LiveLoopFollowsConfig, LiveLoop, Restarting, TypeOK, Procs
  <2>3. SuccessorPending'
    BY <1>0, <2>0 DEF IInv, SuccessorPending, TypeOK, Procs
  <2> QED
    BY <1>0, <2>1, <2>2, <2>3 DEF IInv
<1>12. ASSUME NEW h \in Handlers, RestartLoop(h) PROVE IInv'
  <2>0. PICK l \in Loops :
           /\ pc[l] = "dead"
           /\ runCancel' = l
           /\ interval' = [interval EXCEPT ![l] = config.interval]
           /\ pc' = [pc EXCEPT ![h] = "idle", ![l] = "lock"]
    BY <1>12 DEF RestartLoop, FirstStep
  <2>1. /\ h \in Procs /\ h \notin Loops /\ l \in Procs /\ l # h
        /\ pc[h] = "restart" /\ ~cancelled[l] /\ l # runCancel
    BY <1>12, <2>0 DEF RestartLoop, IInv, LiveLoopFollowsConfig, LiveLoop, Procs
  <2>2. /\ \A k \in Loops : cancelled'[k] <=> cancelled[k] \/ k = runCancel
        /\ UNCHANGED <<config, host, refreshMu>>
    BY <1>0, <1>12, <2>1 DEF RestartLoop, Superseded, TypeOK, Procs
  <2>3. RefreshMuInv'
    BY <1>0, <2>0, <2>1, <2>2 DEF IInv, RefreshMuInv, Refreshing, TypeOK
  <2>4. LiveLoop'
    BY <1>0, <2>0, <2>1, <2>2 DEF IInv, LiveLoopFollowsConfig, LiveLoop, TypeOK, Procs
  <2>5. LiveLoopFollowsConfig'
    BY <1>0, <2>0, <2>2, <2>4 DEF LiveLoopFollowsConfig, TypeOK
  <2>6. SuccessorPending'
    BY <1>0, <2>0, <2>1 DEF SuccessorPending, TypeOK, Procs
  <2> QED
    BY <1>0, <2>3, <2>5, <2>6 DEF IInv
<1>13. ASSUME NEW h \in Handlers, CallCancelled(h) PROVE IInv'
  <2>0. /\ \A k \in Loops : cancelled'[k] = cancelled[k]
        /\ UNCHANGED <<config, host, refreshMu, runCancel, interval, pc>>
    BY <1>0, <1>13 DEF CallCancelled, TypeOK, Procs
  <2>1. runCancel \in Loops \cup {NoProc}
    BY <1>0 DEF TypeOK
  <2> QED
    BY <1>0, <2>0, <2>1 DEF IInv, RefreshMuInv, Refreshing, LiveLoopFollowsConfig, LiveLoop,
                      Restarting, SuccessorPending
<1>14. ASSUME NEW s \in late, LateWrite(s) PROVE IInv'
  BY <1>0, <1>14 DEF LateWrite, IInv, RefreshMuInv, Refreshing, LiveLoopFollowsConfig,
                     LiveLoop, Restarting, SuccessorPending
<1>15. ASSUME Crash PROVE IInv'
  <2>1. RefreshMuInv'
    BY <1>15 DEF Crash, RefreshMuInv, Refreshing, Procs
  <2>2. LiveLoopFollowsConfig' /\ SuccessorPending'
    BY <1>15 DEF Crash, LiveLoopFollowsConfig, LiveLoop, SuccessorPending, Procs
  <2> QED
    BY <1>0, <2>1, <2>2 DEF IInv
<1>16. ASSUME UNCHANGED vars PROVE IInv'
  BY <1>0, <1>16 DEF vars, IInv, RefreshMuInv, Refreshing, LiveLoopFollowsConfig,
                     LiveLoop, Restarting, SuccessorPending
<1> QED
  BY <1>1, <1>2, <1>3, <1>4, <1>5, <1>6, <1>7, <1>8, <1>9, <1>10, <1>11, <1>12,
     <1>13, <1>14, <1>15, <1>16 DEF Next, RefreshStep, CallStep

\* Two refreshes never overlap and refreshMu is never left locked; with no call
\* in progress a connected plugin has exactly one live loop, at the present
\* interval; and a loop cancelled during its checks has a successor that
\* refreshes next.
THEOREM Safety == Spec => [](RefreshMuInv /\ LiveLoopFollowsConfig /\ SuccessorPending)
<1>1. Init => IInv
  BY InitIInv
<1>2. IInv /\ [Next]_vars => IInv'
  BY IInvStep
<1>3. IInv => RefreshMuInv /\ LiveLoopFollowsConfig /\ SuccessorPending
  BY DEF IInv
<1> QED
  BY <1>1, <1>2, <1>3, PTL DEF Spec

(***************************************************************************)
(* Monitor implements IdentityView.  The argument needs the lock: the      *)
(* refresh that publishes is the only one, so what it read is the only     *)
(* stale reading there can be.                                             *)
(***************************************************************************)
\* p is inside refresh, before its publication, with masking read as off.
Stale(p) == pc[p] \in {"list", "check"} /\ ~frame[p].mask

\* The same, as the refinement mapping uses it.
LEMMA StaleRefreshIs == StaleRefresh <=> config.mask /\ \E p \in Procs : Stale(p)
BY DEF StaleRefresh, Stale

\* A step that touches neither the switch, the status nor who is stale is
\* none of the abstract specification's.
LEMMA ViewStutter ==
    ASSUME UNCHANGED <<config, status>>,
           \A p \in Procs : Stale(p)' <=> Stale(p)
    PROVE  UNCHANGED View!viewVars
BY DEF View!viewVars, StaleRefresh, Stale

\* Every step of the plugin is a step of IdentityView, or leaves it unchanged.
LEMMA ViewStep ==
    ASSUME IInv, [Next]_vars
    PROVE  [View!Next]_View!viewVars
<1> USE MonitorAssumption
<1>0. TypeOK /\ status.ident \in View!Idents
  BY DEF IInv, TypeOK, Snapshot, View!Idents
<1>1. ASSUME NEW p \in Procs, BeginRefresh(p) PROVE UNCHANGED View!viewVars
  <2>1. \A q \in Procs : ~Stale(q)
    BY <1>1, NoRefresh DEF BeginRefresh, Refreshing, Stale
  <2>2. \A q \in Procs : q # p => ~Stale(q)'
    BY <1>0, <1>1, <2>1 DEF BeginRefresh, Stale, TypeOK
  <2>3. Stale(p)' => ~config.mask
    BY <1>0, <1>1 DEF BeginRefresh, Capture, Stale, TypeOK
  <2>4. StaleRefresh = FALSE /\ StaleRefresh' = FALSE /\ UNCHANGED <<config, status>>
    BY <1>1, <2>1, <2>2, <2>3 DEF BeginRefresh, StaleRefresh, Stale
  <2> QED
    BY <2>4 DEF View!viewVars
<1>2. ASSUME NEW p \in Procs, RefreshWithoutHost(p) PROVE UNCHANGED View!viewVars
  <2>1. \A q \in Procs : Stale(q)' <=> Stale(q)
    BY <1>0, <1>2 DEF RefreshWithoutHost, LeaveRefresh, Returned, Stale, TypeOK
  <2> QED
    BY <1>2, <2>1, ViewStutter DEF RefreshWithoutHost
<1>3. ASSUME NEW p \in Procs, ListAccounts(p) PROVE UNCHANGED View!viewVars
  <2>1. \A q \in Procs : Stale(q)' <=> Stale(q)
    BY <1>0, <1>3 DEF ListAccounts, Stale, TypeOK
  <2> QED
    BY <1>3, <2>1, ViewStutter DEF ListAccounts
<1>4. ASSUME NEW p \in Procs, ListAccountsFails(p) PROVE View!Abandon
  <2>1. \A q \in Procs : Refreshing(q) => q = p
    BY <1>4, OneRefresh DEF ListAccountsFails, Refreshing
  <2>2. \A q \in Procs : ~Stale(q)'
    BY <1>0, <1>4, <2>1 DEF ListAccountsFails, LeaveRefresh, Returned, Refreshing, Stale, TypeOK
  <2>3. ~StaleRefresh'
    BY <2>2 DEF StaleRefresh, Stale
  <2> QED
    BY <1>4, <2>3 DEF ListAccountsFails, View!Abandon
<1>5. ASSUME NEW p \in Procs, Publish(p) PROVE View!Publish
  <2>1. \A q \in Procs : Refreshing(q) => q = p
    BY <1>5, OneRefresh DEF Publish, Refreshing
  <2>2. \A q \in Procs : ~Stale(q)'
    BY <1>0, <1>5, <2>1 DEF Publish, Refreshing, Stale, TypeOK
  <2>3. ~StaleRefresh'
    BY <2>2 DEF StaleRefresh, Stale
  <2>4. status'.ident \in View!Idents /\ (status'.ident = "clear" => ~frame[p].mask)
    BY <1>5 DEF Publish, Outcomes, View!Idents
  <2>5. status'.ident = "clear" => ~config.mask \/ StaleRefresh
    BY <1>5, <2>4 DEF Publish, StaleRefresh
  <2> QED
    BY <1>5, <2>3, <2>4, <2>5 DEF Publish, View!Publish
<1>6. ASSUME NEW p \in Procs, SaveStep(p) PROVE UNCHANGED View!viewVars
  <2>1. Saving(p) /\ AfterSave(p) /\ UNCHANGED <<config, status>>
    BY <1>6 DEF SaveStep, SaveSnapshot, SaveSnapshotFails, SaveSnapshotTimesOut, CanSave
  <2>2. \A q \in Procs : Stale(q)' <=> Stale(q)
    BY <1>0, <2>1 DEF Saving, AfterSave, LeaveRefresh, Returned, Stale, TypeOK
  <2> QED
    BY <2>1, <2>2, ViewStutter
<1>7. ASSUME NEW l \in Loops, Tick(l) \/ LoopExit(l) PROVE UNCHANGED View!viewVars
  <2>1. \A q \in Procs : Stale(q)' <=> Stale(q)
    BY <1>0, <1>7 DEF Tick, LoopExit, Stale, TypeOK
  <2> QED
    BY <1>7, <2>1, ViewStutter DEF Tick, LoopExit
<1>8. ASSUME NEW h \in Handlers, NEW cfg \in Configs, ApplyConfig(h, cfg)
      PROVE  View!Configure(cfg.mask)
  <2>1. \A q \in Procs : Stale(q)' <=> Stale(q)
    BY <1>0, <1>8 DEF ApplyConfig, Stale, TypeOK
  <2>2. StaleRefresh' <=> cfg.mask /\ \E q \in Procs : Stale(q)
    BY <1>8, <2>1 DEF ApplyConfig, StaleRefresh, Stale
  <2>3. config' = cfg /\ StaleRefresh' \in BOOLEAN
    BY <1>8 DEF ApplyConfig, StaleRefresh
  <2>4. StaleRefresh' \in IF ~cfg.mask THEN {FALSE}
                          ELSE IF config.mask THEN {StaleRefresh} ELSE BOOLEAN
    BY <2>2, <2>3, StaleRefreshIs
  <2>5. status'.ident = IF cfg.mask /\ ~config.mask THEN View!Hidden(status.ident)
                        ELSE status.ident
    BY <1>0, <1>8 DEF ApplyConfig, Mask, View!Hidden, TypeOK, Snapshot
  <2> QED
    BY <2>3, <2>4, <2>5 DEF View!Configure
<1>9. ASSUME NEW h \in Handlers,
             \/ TestConfig(h)
             \/ InitHostServices(h)
             \/ LoadSnapshot(h)
             \/ LoadSnapshotFails(h)
             \/ CallCancelled(h)
      PROVE  UNCHANGED View!viewVars
  <2>1. \A q \in Procs : Stale(q)' <=> Stale(q)
    BY <1>0, <1>9 DEF TestConfig, InitHostServices, LoadSnapshot, LoadSnapshotFails,
                      CallCancelled, Stale, TypeOK, Procs
  <2> QED
    BY <1>9, <2>1, ViewStutter DEF TestConfig, InitHostServices, LoadSnapshot,
                                   LoadSnapshotFails, CallCancelled
<1>10. ASSUME NEW h \in Handlers, InstallSnapshot(h) PROVE View!Restore
  <2>1. \A q \in Procs : Stale(q)' <=> Stale(q)
    BY <1>0, <1>10 DEF InstallSnapshot, Stale, TypeOK
  <2>2. UNCHANGED <<config.mask, StaleRefresh>>
    BY <1>10, <2>1 DEF InstallSnapshot, StaleRefresh, Stale
  <2>3. frame[h].snap \in Snapshot
    BY <1>0 DEF TypeOK, Frame, Procs
  <2>4. status'.ident \in View!Idents /\ (config.mask => status'.ident # "clear")
    BY <1>10, <2>3 DEF InstallSnapshot, Loaded, Mask, Snapshot, View!Idents
  <2> QED
    BY <2>2, <2>4 DEF View!Restore
<1>11. ASSUME NEW h \in Handlers, RestartLoop(h) PROVE UNCHANGED View!viewVars
  <2>1. \A q \in Procs : Stale(q)' <=> Stale(q)
    BY <1>0, <1>11 DEF RestartLoop, FirstStep, Stale, TypeOK
  <2> QED
    BY <1>11, <2>1, ViewStutter DEF RestartLoop
<1>12. ASSUME NEW s \in late, LateWrite(s) PROVE UNCHANGED View!viewVars
  BY <1>12, ViewStutter DEF LateWrite, Stale
<1>13. ASSUME Crash PROVE View!Restart
  <2>1. ~StaleRefresh'
    BY <1>13 DEF Crash, StaleRefresh, Procs
  <2> QED
    BY <1>13, <2>1 DEF Crash, Empty, View!Restart
<1>14. ASSUME UNCHANGED vars PROVE UNCHANGED View!viewVars
  BY <1>14, ViewStutter DEF vars, Stale
<1>15. \A cfg \in Configs : cfg.mask \in BOOLEAN
  OBVIOUS
<1> QED
  BY <1>1, <1>2, <1>3, <1>4, <1>5, <1>6, <1>7, <1>8, <1>9, <1>10, <1>11, <1>12,
     <1>13, <1>14, <1>15 DEF Next, RefreshStep, CallStep, View!Next

\* Turning masking on hides the reported status at once, and full identities
\* come back at most once, from the one refresh then under way: the plugin
\* implements IdentityView.
THEOREM Refinement == Spec => ImplementsView
<1>1. Init => IInv
  BY InitIInv
<1>2. IInv /\ [Next]_vars => IInv'
  BY IInvStep
<1>3. Init => View!Init
  BY MonitorAssumption DEF Init, StaleRefresh, Empty, Procs, View!Init
<1>4. IInv /\ [Next]_vars => [View!Next]_View!viewVars
  BY ViewStep
<1> QED
  BY <1>1, <1>2, <1>3, <1>4, PTL DEF Spec, ImplementsView, View!Spec
=============================================================================
