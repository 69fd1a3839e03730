-------------------------- MODULE SupervisorProofs --------------------------
(***************************************************************************)
(* Theorems about Supervisor, for every number of session slots, every     *)
(* budget of faults and every choice of tunnels.                           *)
(***************************************************************************)
EXTENDS Supervisor, TLAPS

USE NAssumption, MaxFaultsAssumption, NRemoteAssumption, KeepaliveMaxAssumption
USE DEF Slot, Remote, LinkState, TaskState, OuterState, InnerState, MonitorState, SigState, Phase,
        sessionVars, managerVars, tunVars, monitorVars, sigVars, mainVars, vars, At, Goto,
        SessionsTypeOK, ManagerTypeOK, TunTypeOK, MonitorTypeOK

-----------------------------------------------------------------------------
(* Type correctness.  TypeOK is not inductive: the history of late cleanup *)
(* commands needs that main holds a session while it cleans up, and the    *)
(* bound on the counters that the monitor stops at its verdict.            *)

\* main holds a session from the end of connect() to the end of the match arm.
CurHeld ==
    phase \in {"register", "tunbuild", "tunopen", "failsleep", "hooks", "active",
               "cleanup", "linkdel", "exitclean", "exitdel"} => cur # 0

\* The monitor's count is the number of unanswered pings, and a monitor that
\* goes on has not reached the limit.
MonitorCount ==
    /\ failures = unanswered
    /\ mon \in {"sleep", "ping"} => failures < KeepaliveMax \/ failures = 0

TypeInv == TypeOK /\ CurHeld /\ MonitorCount

\* The inductive type invariant holds initially.
LEMMA InitType == Init => TypeInv
<1> SUFFICES ASSUME Init PROVE TypeOK
  BY DEF TypeInv, CurHeld, MonitorCount, Init, MonitorInit
<1>1. SessionsTypeOK /\ MonitorTypeOK
  BY DEF Init, SessionsInit, MonitorInit
<1>2. mgr \in 0 .. N /\ exitq \in {"empty", "reason"} /\ conn \subseteq Slot
  BY DEF Init, ManagerInit
<1>3. lst \in [LocalPorts -> [Slot -> TaskState]] /\ recv \in [Slot -> TaskState]
  BY DEF Init, ManagerInit
<1>4. fwd \in [Remote -> 0 .. N]
  BY DEF Init, ManagerInit
<1>5. TunTypeOK
  BY DEF Init, TunInit, MaxAttempts
<1>6. cur \in 0 .. N /\ nreg \in 0 .. NRemote
  BY DEF Init
<1>7. phase \in Phase /\ sig \in SigState /\ late \subseteq Slot
  BY DEF Init
<1>8. asked \in BOOLEAN
  BY Zenon DEF Init
<1> QED BY <1>1, <1>2, <1>3, <1>4, <1>5, <1>6, <1>7, <1>8, Zenon DEF TypeOK

\* Connecting, registering the -R ports and the sleeps of the main loop
\* keep the types.
LEMMA StartType ==
    ASSUME TypeInv,
           \/ \E g \in Slot : ConnectOk(g)
           \/ ConnectErr \/ StartRegister \/ StartRecv \/ StartRegisterErr
    PROVE  TypeOK'
<1> USE DEF TypeInv
<1>1. CASE \E g \in Slot : ConnectOk(g)
  <2> PICK g \in Slot : ConnectOk(g)
    BY <1>1
  <2>1. SessionsTypeOK' /\ MonitorTypeOK'
    BY DEF TypeOK, ConnectOk
  <2>2. lst' \in [LocalPorts -> [Slot -> TaskState]]
    BY DEF TypeOK, ConnectOk, SpawnListeners
  <2>3. ManagerTypeOK'
    BY <2>2 DEF TypeOK, ConnectOk, SpawnListeners
  <2>4. TunTypeOK'
    BY DEF TypeOK, ConnectOk, MaxAttempts
  <2>5. phase' \in Phase
    BY DEF ConnectOk, AfterRegister
  <2>6. cur' \in 0 .. N /\ nreg' \in 0 .. NRemote
    BY DEF ConnectOk
  <2>7. sig' \in SigState /\ late' \subseteq Slot /\ asked' \in BOOLEAN
    BY DEF TypeOK, ConnectOk
  <2> QED BY <2>1, <2>3, <2>4, <2>5, <2>6, <2>7 DEF TypeOK
<1>2. CASE ConnectErr
  BY <1>2 DEF TypeOK, ConnectErr, Fault, MaxAttempts
<1>3. CASE StartRegister
  BY <1>3 DEF TypeOK, StartRegister, RegisterOk, MaxAttempts
<1>4. CASE StartRecv
  BY <1>4 DEF TypeOK, StartRecv, SpawnRecv, AfterRegister, MaxAttempts
<1>5. CASE StartRegisterErr
  <2>1. faults' \in 0 .. MaxFaults
    BY <1>5 DEF TypeOK, StartRegisterErr, Fault
  <2> QED BY <1>5, <2>1 DEF TypeOK, StartRegisterErr, DropManager, MaxAttempts
<1> QED BY <1>1, <1>2, <1>3, <1>4, <1>5

\* So do the steps of setup_tun_forward, whose attempts are counted.
LEMMA StartTunType ==
    ASSUME TypeInv,
           \/ StartTunBuild \/ StartTunBuildErr \/ StartTunOpen \/ StartTunRetry
           \/ StartTunErr \/ RetryStart
    PROVE  TypeOK'
<1> USE DEF TypeInv
<1>1. CASE StartTunBuild
  BY <1>1 DEF TypeOK, StartTunBuild, TunBuildOk, MaxAttempts
<1>2. CASE StartTunBuildErr
  BY <1>2 DEF TypeOK, StartTunBuildErr, TunBuildErr, DropManager, Fault, MaxAttempts
<1>3. CASE StartTunOpen
  <2>1. outer' \in [Slot -> OuterState]
    BY <1>3 DEF TypeOK, StartTunOpen, TunOpenOk
  <2>2. t2s' \in [Slot -> InnerState] /\ s2t' \in [Slot -> InnerState]
    BY <1>3 DEF TypeOK, StartTunOpen, TunOpenOk
  <2>3. dev' \in 0 .. N /\ srvTun' \in 0 .. N /\ attempt' \in 0 .. MaxAttempts
    BY <1>3 DEF TypeOK, StartTunOpen, TunOpenOk, MaxAttempts
  <2> QED BY <1>3, <2>1, <2>2, <2>3 DEF TypeOK, StartTunOpen
<1>4. CASE StartTunRetry
  <2>1. faults' \in 0 .. MaxFaults
    BY <1>4 DEF TypeOK, StartTunRetry, Fault
  <2> QED BY <1>4, <2>1 DEF TypeOK, StartTunRetry, TunOpenErr, MaxAttempts
<1>5. CASE StartTunErr
  BY <1>5 DEF TypeOK, StartTunErr, TunOpenFails, DevWithout, DropManager, MaxAttempts
<1>6. CASE RetryStart
  BY <1>6 DEF TypeOK, RetryStart, MaxAttempts
<1> QED BY <1>1, <1>2, <1>3, <1>4, <1>5, <1>6

\* So do the hooks, the pings of the monitor and both ways out of select!.
LEMMA ActiveType ==
    ASSUME TypeInv,
           HooksDone \/ MonitorStep \/ TearDown \/ CtrlC
    PROVE  TypeOK'
<1> USE DEF TypeInv
<1>1. CASE HooksDone
  BY <1>1 DEF TypeOK, HooksDone, MonitorSpawn, MaxAttempts
<1>2. CASE MonitorStep
  <2>1. MonitorTypeOK'
    BY <1>2 DEF TypeOK, MonitorCount, MonitorStep, PingSent, PingOk, PingErr, PingTimeout, Judge
  <2> QED BY <1>2, <2>1 DEF TypeOK, MonitorStep
<1>3. ASSUME AbortEverything
      PROVE  SessionsTypeOK' /\ ManagerTypeOK' /\ TunTypeOK' /\ MonitorTypeOK'
  <2>1. SessionsTypeOK' /\ MonitorTypeOK'
    BY <1>3 DEF TypeOK, AbortEverything, MonitorAbort
  <2>2. \A s \in TaskState : Abort(s) \in TaskState
    BY DEF Abort
  <2>3. ManagerTypeOK'
    <3>1. lst' \in [LocalPorts -> [Slot -> TaskState]]
      <4>1. lst' = [q \in LocalPorts |-> [lst[q] EXCEPT ![cur] = Abort(lst[q][cur])]]
        BY <1>3 DEF AbortEverything, AbortAll
      <4>2. ASSUME NEW q \in LocalPorts
            PROVE  [lst[q] EXCEPT ![cur] = Abort(lst[q][cur])] \in [Slot -> TaskState]
        <5>1. lst[q] \in [Slot -> TaskState]
          BY DEF TypeOK
        <5>2. cur \in Slot => Abort(lst[q][cur]) \in TaskState
          BY <2>2, <5>1
        <5> QED BY <5>1, <5>2
      <4> QED BY <4>1, <4>2
    <3>2. recv' \in [Slot -> TaskState]
      BY <1>3, <2>2 DEF TypeOK, AbortEverything, AbortAll
    <3> QED BY <1>3, <3>1, <3>2 DEF TypeOK, AbortEverything, AbortAll
  <2>4. TunTypeOK'
    BY <1>3 DEF TypeOK, AbortEverything, AbortOuter
  <2> QED BY <2>1, <2>3, <2>4
<1>4. CASE TearDown
  <2>1. AbortEverything /\ phase' \in Phase /\ cur' \in 0 .. N
    BY <1>4 DEF TypeOK, TearDown
  <2> QED BY <1>3, <2>1 DEF TypeOK, AbortEverything
<1>5. CASE CtrlC
  <2>1. AbortEverything /\ phase' \in Phase /\ cur' \in 0 .. N
    BY <1>5 DEF TypeOK, CtrlC
  <2> QED BY <1>3, <2>1 DEF TypeOK, AbortEverything
<1> QED BY <1>1, <1>2, <1>4, <1>5

\* So do the teardown and the signals.
LEMMA CleanupType ==
    ASSUME TypeInv,
           CleanupDone \/ CleanupTimeout \/ LinkDeleted \/ ExitLinkDeleted \/ SleepDone \/ Sigint
    PROVE  TypeOK'
<1> USE DEF TypeInv
<1>1. CASE CleanupDone
  BY <1>1 DEF TypeOK, CleanupDone, DeleteServerTun, AfterCleanup, MaxAttempts
<1>2. CASE CleanupTimeout
  <2>1. cur \in Slot
    BY <1>2 DEF TypeOK, CurHeld, CleanupTimeout
  <2>2. faults' \in 0 .. MaxFaults
    BY <1>2 DEF TypeOK, CleanupTimeout, Fault
  <2> QED BY <1>2, <2>1, <2>2 DEF TypeOK, CleanupTimeout, AfterCleanup, MaxAttempts
<1>3. CASE LinkDeleted
  BY <1>3 DEF TypeOK, LinkDeleted, LinkDelete, MaxAttempts
<1>4. CASE ExitLinkDeleted
  BY <1>4 DEF TypeOK, ExitLinkDeleted, LinkDelete, MaxAttempts
<1>5. CASE SleepDone
  BY <1>5 DEF TypeOK, SleepDone, MaxAttempts
<1>6. CASE Sigint
  BY <1>6 DEF TypeOK, Sigint, SigintKills, SigintHeard, SigintForces, SigintLost, MaxAttempts
<1> QED BY <1>1, <1>2, <1>3, <1>4, <1>5, <1>6

\* So do the tasks of the manager and of the TUN worker, and the links.
LEMMA WorkerType ==
    ASSUME TypeInv,
           ManagerStep \/ TunStep \/ LinkStep \/ \E g \in Slot : TunWakes(g)
    PROVE  TypeOK'
<1> USE DEF TypeInv
<1>1. CASE ManagerStep
  <2>1. ASSUME NEW g \in Slot, NEW q \in LocalPorts,
               BindOk(q, g) \/ BindErr(q, g) \/ Accept(q, g) \/ ListenerDropped(q, g)
        PROVE  ManagerTypeOK'
    <3>1. lst' \in [LocalPorts -> [Slot -> TaskState]]
      <4>1. \A v \in TaskState :
              [lst EXCEPT ![q][g] = v] \in [LocalPorts -> [Slot -> TaskState]]
        BY DEF TypeOK
      <4> QED BY <2>1, <4>1 DEF TypeOK, BindOk, BindErr, Accept, ListenerDropped
    <3> QED BY <2>1, <3>1 DEF TypeOK, BindOk, BindErr, Accept, ListenerDropped, SendExit
  <2>2. ASSUME NEW g \in Slot,
               Incoming(g) \/ ConnEnds(g) \/ RecvCloses(g) \/ RecvDropped(g)
        PROVE  ManagerTypeOK'
    BY <2>2 DEF TypeOK, Incoming, ConnEnds, RecvCloses, RecvDropped, SendExit
  <2>3. ManagerTypeOK'
    BY <1>1, <2>1, <2>2 DEF ManagerStep
  <2> QED BY <1>1, <2>3 DEF TypeOK, ManagerStep
<1>2. CASE TunStep
  <2> PICK g \in Slot :
          \/ OuterRuns(g) \/ OuterDropped(g)
          \/ T2sReadErr(g) \/ T2sWriteErr(g) \/ T2sDropped(g)
          \/ S2tEof(g) \/ S2tWriteErr(g) \/ S2tDropped(g)
    BY <1>2 DEF TunStep
  <2>1. CASE OuterRuns(g) \/ OuterDropped(g)
    <3>1. CASE OuterRuns(g)
      <4>1. TunTypeOK'
        BY <3>1 DEF TypeOK, OuterRuns
      <4> QED BY <1>2, <4>1 DEF TypeOK, TunStep
    <3>2. CASE OuterDropped(g)
      <4>1. TunTypeOK'
        BY <3>2 DEF TypeOK, OuterDropped, DevWithout
      <4> QED BY <1>2, <4>1 DEF TypeOK, TunStep
    <3> QED BY <2>1, <3>1, <3>2
  <2>2. CASE T2sReadErr(g) \/ T2sWriteErr(g) \/ T2sDropped(g)
    <3>1. TunTypeOK'
      BY <2>2 DEF TypeOK, T2sReadErr, T2sWriteErr, T2sDropped, ClosesHalf, DevWithout
    <3> QED BY <1>2, <3>1 DEF TypeOK, TunStep
  <2>3. CASE S2tEof(g) \/ S2tWriteErr(g) \/ S2tDropped(g)
    <3>1. TunTypeOK'
      BY <2>3 DEF TypeOK, S2tEof, S2tWriteErr, S2tDropped, ClosesHalf, DevWithout
    <3> QED BY <1>2, <3>1 DEF TypeOK, TunStep
  <2> QED BY <2>1, <2>2, <2>3
<1>3. CASE LinkStep
  <2>1. ASSUME NEW g \in Slot, Stall(g) \/ Resume(g) \/ Break(g) \/ GiveUp(g)
        PROVE  SessionsTypeOK'
    <3>1. faults' \in 0 .. MaxFaults
      BY <2>1 DEF TypeOK, Stall, Resume, Break, GiveUp, Fault
    <3> QED BY <2>1, <3>1 DEF TypeOK, Stall, Resume, Break, GiveUp
  <2> QED BY <1>3, <2>1 DEF TypeOK, LinkStep
<1>4. CASE \E g \in Slot : TunWakes(g)
  <2>1. TunTypeOK' /\ ManagerTypeOK'
    BY <1>4 DEF TypeOK, TunWakes, OuterWakes, AbortInner, SendExit
  <2> QED BY <1>4, <2>1 DEF TypeOK, TunWakes
<1> QED BY <1>1, <1>2, <1>3, <1>4

\* So do the ends of a session, on either side.
LEMMA ServerType ==
    ASSUME TypeInv,
           \E g \in Slot : Drops(g) \/ IdleOut(g) \/ ServerCloses(g) \/ LateCleanup(g)
    PROVE  TypeOK'
<1> USE DEF TypeInv
<1> PICK g \in Slot : Drops(g) \/ IdleOut(g) \/ ServerCloses(g) \/ LateCleanup(g)
  OBVIOUS
<1>1. CASE Drops(g)
  BY <1>1 DEF TypeOK, Drops, Unheld, MaxAttempts
<1>2. CASE IdleOut(g)
  BY <1>2 DEF TypeOK, IdleOut, MaxAttempts
<1>3. CASE ServerCloses(g)
  BY <1>3 DEF TypeOK, ServerCloses, ReleaseForwards, ReleaseTun, MaxAttempts
<1>4. CASE LateCleanup(g)
  BY <1>4 DEF TypeOK, LateCleanup, DeleteServerTun, MaxAttempts
<1> QED BY <1>1, <1>2, <1>3, <1>4

\* Main holds a session exactly between connect and the end of the arm.
LEMMA CurHeldStep == TypeInv /\ Next => CurHeld'
<1> SUFFICES ASSUME TypeInv, Next PROVE CurHeld'
  OBVIOUS
<1> USE DEF TypeInv, TypeOK, CurHeld
<1>1. CASE Main
  BY <1>1 DEF Main, ConnectOk, ConnectErr, StartRegister, StartRecv, StartRegisterErr,
     StartTunBuild, StartTunBuildErr, StartTunOpen, StartTunRetry, StartTunErr, RetryStart,
     HooksDone, TearDown, CtrlC, CleanupDone, CleanupTimeout, AfterCleanup, LinkDeleted,
     ExitLinkDeleted, SleepDone
<1>2. CASE Sigint
  BY <1>2 DEF Sigint, SigintKills, SigintHeard, SigintForces, SigintLost
<1>3. CASE Others
  BY <1>3 DEF Others, MonitorStep, ManagerStep, TunStep, LinkStep, TunWakes, Drops, IdleOut,
     ServerCloses, LateCleanup
<1> QED BY <1>1, <1>2, <1>3 DEF Next

\* A step that is not one of these leaves the monitor alone.
LEMMA MonitorSteps ==
    ASSUME Next
    PROVE  HooksDone \/ TearDown \/ CtrlC \/ MonitorStep \/ UNCHANGED monitorVars
BY DEF Next, Main, Sigint, Others, ConnectOk, ConnectErr, StartRegister, StartRecv,
       StartRegisterErr, StartTunBuild, StartTunBuildErr, StartTunOpen, StartTunRetry,
       StartTunErr, RetryStart, CleanupDone, CleanupTimeout, LinkDeleted, ExitLinkDeleted,
       SleepDone, ManagerStep, TunStep, LinkStep, TunWakes, Drops, IdleOut, ServerCloses,
       LateCleanup

\* The monitor's count follows the pings that went unanswered, and its
\* verdict follows the count, at every step.
LEMMA MonitorCountStep == TypeInv /\ Next => MonitorCount'
<1> SUFFICES ASSUME TypeInv, Next PROVE MonitorCount'
  OBVIOUS
<1> USE DEF TypeInv, TypeOK, MonitorCount
<1>1. CASE HooksDone
  BY <1>1 DEF HooksDone, MonitorSpawn
<1>2. CASE TearDown \/ CtrlC
  BY <1>2 DEF TearDown, CtrlC, AbortEverything, MonitorAbort
<1>3. CASE MonitorStep
  BY <1>3 DEF MonitorStep, PingSent, PingOk, PingErr, PingTimeout, Judge
<1>4. CASE UNCHANGED monitorVars
  BY <1>4
<1> QED BY <1>1, <1>2, <1>3, <1>4, MonitorSteps

\* The type invariant is inductive.
LEMMA NextType == TypeInv /\ [Next]_vars => TypeInv'
<1> SUFFICES ASSUME TypeInv, [Next]_vars PROVE TypeInv'
  OBVIOUS
<1>1. CASE Next
  <2>1. TypeOK'
    BY <1>1, StartType, StartTunType, ActiveType, CleanupType, WorkerType, ServerType
       DEF Next, Main, Others
  <2> QED BY <1>1, <2>1, CurHeldStep, MonitorCountStep DEF TypeInv
<1>2. CASE UNCHANGED vars
  BY <1>2 DEF TypeInv, TypeOK, CurHeld, MonitorCount, MaxAttempts
<1> QED BY <1>1, <1>2

\* Every reachable state is well typed, whatever the tunnels configured.
THEOREM TypeCorrect == Spec => []TypeOK
<1>1. TypeInv => TypeOK
  BY DEF TypeInv
<1> QED BY <1>1, InitType, NextType, PTL DEF Spec

-----------------------------------------------------------------------------
(* The monitor.                                                            *)

\* The verdict comes after exactly KeepaliveMax unanswered pings in a row
\* (monitor.rs), provided the limit is not 0.
THEOREM VerdictIsExact == ASSUME KeepaliveMax > 0 PROVE Spec => []VerdictExact
<1> USE DEF VerdictExact
<1>1. Init => VerdictExact
  BY DEF Init, MonitorInit
<1>2. ASSUME TypeInv, VerdictExact, [Next]_vars PROVE VerdictExact'
  <2> USE <1>2 DEF TypeInv, TypeOK, MonitorCount
  <2>1. CASE HooksDone
    BY <2>1 DEF HooksDone, MonitorSpawn
  <2>2. CASE TearDown \/ CtrlC
    BY <2>2 DEF TearDown, CtrlC, AbortEverything, MonitorAbort
  <2>3. CASE MonitorStep
    BY <2>3 DEF MonitorStep, PingSent, PingOk, PingErr, PingTimeout, Judge
  <2>4. CASE UNCHANGED monitorVars
    BY <2>4
  <2> QED BY <2>1, <2>2, <2>3, <2>4, MonitorSteps
<1> QED BY <1>1, <1>2, InitType, NextType, PTL DEF Spec

\* No verdict falls while the link answers, unless the server refuses the
\* session channels the pings are made of, or the limit is 0.
THEOREM VerdictNeedsSilence ==
    ASSUME KeepaliveMax > 0, ~RefusesSessions PROVE Spec => VerdictOnSilence
<1>1. ASSUME [Next]_vars
      PROVE  [mon # "dead" /\ mon' = "dead" => link[cur] # "up"]_vars
  <2>1. CASE HooksDone
    BY <2>1 DEF HooksDone, MonitorSpawn
  <2>2. CASE TearDown \/ CtrlC
    BY <2>2 DEF TearDown, CtrlC, AbortEverything, MonitorAbort
  <2>3. CASE MonitorStep
    BY <2>3 DEF MonitorStep, PingSent, PingOk, PingErr, PingTimeout, Judge
  <2>4. CASE UNCHANGED monitorVars
    BY <2>4
  <2> QED BY <1>1, <2>1, <2>2, <2>3, <2>4, MonitorSteps
<1> QED BY <1>1, PTL DEF Spec, VerdictOnSilence

-----------------------------------------------------------------------------
(* No worker of the running manager ends without a word.                   *)

Starting == {"register", "tunbuild", "tunopen", "hooks", "active"}

\* From the moment start() has spawned a worker until select! completes, the
\* exit channel exists and either the worker is alive or a reason is queued.
Workers ==
    phase \in Starting =>
        /\ mgr = cur
        /\ exitq = "empty" =>
             /\ \A p \in LocalPorts : lst[p][cur] \in {"bind", "run"}
             /\ phase # "register" /\ NRemote > 0 => recv[cur] = "run"
             /\ phase \in {"hooks", "active"} /\ Tun => outer[cur] \in {"spawned", "select"}

\* The main loop reaches select! only with every worker spawned, and a
\* reason that is queued stays queued until the teardown.
LEMMA WorkersMain == TypeInv /\ Workers /\ Main => Workers'
<1> SUFFICES ASSUME TypeInv, Workers, Main PROVE Workers'
  OBVIOUS
<1> USE DEF TypeInv, TypeOK, CurHeld, Workers, Starting
<1>1. CASE \E g \in Slot : ConnectOk(g)
  BY <1>1 DEF ConnectOk, SpawnListeners, AfterRegister
<1>2. CASE StartRegister
  BY <1>2 DEF StartRegister, RegisterOk
<1>3. CASE StartRecv
  BY <1>3 DEF StartRecv, SpawnRecv, AfterRegister
<1>4. CASE StartTunBuild
  BY <1>4 DEF StartTunBuild, TunBuildOk
<1>5. CASE StartTunOpen
  BY <1>5 DEF StartTunOpen, TunOpenOk
<1>6. CASE StartTunRetry
  BY <1>6 DEF StartTunRetry, TunOpenErr
<1>7. CASE HooksDone
  BY <1>7 DEF HooksDone
<1>8. CASE phase' \notin Starting
  BY <1>8
<1> QED
  BY <1>1, <1>2, <1>3, <1>4, <1>5, <1>6, <1>7, <1>8
     DEF Main, ConnectErr, StartRegisterErr, StartTunBuildErr, StartTunErr, RetryStart,
         TearDown, CtrlC, CleanupDone, CleanupTimeout, AfterCleanup, LinkDeleted,
         ExitLinkDeleted, SleepDone

\* A task of the running manager that ends leaves a reason behind.
LEMMA WorkersTasks == TypeInv /\ Workers /\ (ManagerStep \/ TunStep) => Workers'
<1> SUFFICES ASSUME TypeInv, Workers, ManagerStep \/ TunStep PROVE Workers'
  OBVIOUS
<1> USE DEF TypeInv, TypeOK, CurHeld, Workers, Starting
<1>1. CASE ManagerStep
  <2>1. ASSUME NEW g \in Slot, NEW q \in LocalPorts,
               BindOk(q, g) \/ BindErr(q, g) \/ Accept(q, g) \/ ListenerDropped(q, g)
        PROVE  Workers'
    <3>1. CASE BindOk(q, g)
      BY <1>1, <3>1 DEF ManagerStep, BindOk
    <3>2. CASE BindErr(q, g)
      BY <1>1, <3>2 DEF ManagerStep, BindErr, SendExit
    <3>3. CASE Accept(q, g)
      BY <1>1, <3>3 DEF ManagerStep, Accept
    <3>4. CASE ListenerDropped(q, g)
      BY <1>1, <3>4 DEF ManagerStep, ListenerDropped
    <3> QED BY <2>1, <3>1, <3>2, <3>3, <3>4
  <2>2. ASSUME NEW g \in Slot,
               Incoming(g) \/ ConnEnds(g) \/ RecvCloses(g) \/ RecvDropped(g)
        PROVE  Workers'
    BY <1>1, <2>2 DEF ManagerStep, Incoming, ConnEnds, RecvCloses, RecvDropped, SendExit
  <2> QED BY <1>1, <2>1, <2>2 DEF ManagerStep
<1>2. CASE TunStep
  <2> PICK g \in Slot :
          \/ OuterRuns(g) \/ OuterDropped(g)
          \/ T2sReadErr(g) \/ T2sWriteErr(g) \/ T2sDropped(g)
          \/ S2tEof(g) \/ S2tWriteErr(g) \/ S2tDropped(g)
    BY <1>2 DEF TunStep
  <2>1. UNCHANGED <<managerVars, mainVars>>
    BY <1>2 DEF TunStep
  <2>2. CASE OuterRuns(g)
    BY <2>1, <2>2 DEF OuterRuns
  <2>3. CASE OuterDropped(g)
    BY <2>1, <2>3 DEF OuterDropped
  <2>4. CASE UNCHANGED outer
    BY <2>1, <2>4
  <2> QED BY <2>2, <2>3, <2>4 DEF T2sReadErr, T2sWriteErr, T2sDropped, S2tEof, S2tWriteErr,
                                  S2tDropped
<1> QED BY <1>1, <1>2

\* No other step touches the tasks of the running manager.
LEMMA WorkersRest ==
    TypeInv /\ Workers /\ Next => Workers'
<1> SUFFICES ASSUME TypeInv, Workers, Next PROVE Workers'
  OBVIOUS
<1>1. CASE \E g \in Slot : TunWakes(g)
  <2> PICK g \in Slot : TunWakes(g)
    BY <1>1
  <2>1. UNCHANGED <<mgr, lst, recv, cur, phase>>
    BY DEF TunWakes
  <2>2. CASE mgr = g
    BY <2>1, <2>2 DEF Workers, Starting, TunWakes, SendExit
  <2>3. CASE mgr # g
    <3>1. exitq' = exitq /\ (cur # g => outer'[cur] = outer[cur])
      BY <2>3 DEF TypeInv, TypeOK, TunWakes, SendExit, OuterWakes
    <3> QED BY <2>1, <2>3, <3>1 DEF Workers, Starting
  <2> QED BY <2>2, <2>3
<1>2. CASE Sigint
  BY <1>2 DEF Workers, Starting, Sigint, SigintKills, SigintHeard, SigintForces, SigintLost
<1>3. CASE MonitorStep \/ LinkStep
  BY <1>3 DEF Workers, Starting, MonitorStep, LinkStep
<1>4. CASE \E g \in Slot : Drops(g) \/ IdleOut(g) \/ ServerCloses(g) \/ LateCleanup(g)
  BY <1>4 DEF Workers, Starting, Drops, IdleOut, ServerCloses, ReleaseForwards, ReleaseTun,
              LateCleanup, DeleteServerTun
<1> QED BY <1>1, <1>2, <1>3, <1>4, WorkersMain, WorkersTasks DEF Next, Others

\* While main waits in select! with an empty exit channel, every worker it
\* started for the current session is alive: none can end unnoticed.
THEOREM WorkersNeverDieSilently == Spec => []NoSilentDeath
<1>1. Init => Workers
  BY DEF Init, Workers, Starting
<1>2. TypeInv /\ Workers /\ [Next]_vars => Workers'
  BY WorkersRest DEF Workers, Starting
<1>3. Workers => NoSilentDeath
  BY DEF Workers, Starting, NoSilentDeath
<1> QED BY <1>1, <1>2, <1>3, InitType, NextType, PTL DEF Spec

-----------------------------------------------------------------------------
(* The TUN device in auto mode.                                            *)

\* Only the second half of start(), the hooks, select! and the cleanup run
\* with a device; a failed start has dropped its descriptor.
DevInv ==
    /\ phase \in {"sleep", "connect", "register", "tunbuild", "failsleep"} => dev = 0
    /\ phase = "tunopen" => dev \in {0, cur}

\* With -w auto the local device is gone before the next connect(), whatever
\* inner tasks of the lost session are still running.
THEOREM AutoReleasesTun == ASSUME AutoMode PROVE Spec => []TunReleased
<1>1. Init => DevInv
  BY DEF Init, TunInit, DevInv
<1>2. ASSUME TypeInv, DevInv, Next PROVE DevInv'
  <2> USE <1>2 DEF DevInv
  <2>1. CASE Main
    <3>1. CASE \/ \E g \in Slot : ConnectOk(g)
               \/ ConnectErr \/ StartRegister \/ StartRecv \/ StartRegisterErr
      BY <3>1 DEF ConnectOk, ConnectErr, StartRegister, StartRecv, StartRegisterErr,
                  AfterRegister
    <3>2. CASE StartTunBuild \/ StartTunBuildErr \/ StartTunOpen
      BY <3>2 DEF StartTunBuild, StartTunBuildErr, StartTunOpen, TunBuildOk, TunBuildErr
    <3>3. CASE StartTunRetry \/ StartTunErr \/ RetryStart
      BY <3>3 DEF StartTunRetry, StartTunErr, RetryStart, TunOpenErr, TunOpenFails, DevWithout
    <3>4. CASE HooksDone \/ TearDown \/ CtrlC
      BY <3>4 DEF HooksDone, TearDown, CtrlC, AbortEverything
    <3>5. CASE CleanupDone \/ CleanupTimeout \/ LinkDeleted \/ ExitLinkDeleted \/ SleepDone
      BY <3>5 DEF CleanupDone, CleanupTimeout, AfterCleanup, LinkDeleted, ExitLinkDeleted,
                  SleepDone, LinkDelete
    <3> QED BY <2>1, <3>1, <3>2, <3>3, <3>4, <3>5 DEF Main
  <2>2. CASE Sigint
    BY <2>2 DEF Sigint, SigintKills, SigintHeard, SigintForces, SigintLost
  <2>3. CASE TunStep
    BY <2>3 DEF TunStep, OuterRuns, OuterDropped, T2sReadErr, T2sWriteErr, T2sDropped,
                S2tEof, S2tWriteErr, S2tDropped, ClosesHalf, DevWithout
  <2>4. CASE Others /\ ~TunStep
    BY <2>4 DEF Others, MonitorStep, ManagerStep, LinkStep, TunWakes, OuterWakes, Drops,
                IdleOut, ServerCloses, ReleaseTun, LateCleanup, DeleteServerTun
  <2> QED BY <2>1, <2>2, <2>3, <2>4 DEF Next
<1>3. TypeInv /\ DevInv /\ [Next]_vars => DevInv'
  BY <1>2 DEF DevInv
<1>4. DevInv => TunReleased
  BY DEF DevInv, TunReleased
<1> QED BY <1>1, <1>3, <1>4, InitType, NextType, PTL DEF Spec

-----------------------------------------------------------------------------
(* Listeners of sessions that main has left.                               *)

\* With neither -R nor -w nothing in start() can fail, so that every session
\* is left through abort_all().
ListenerInv ==
    /\ NoStaleListener
    /\ phase \in {"connect", "hooks", "active", "sleep", "exited"}
    /\ phase \in {"connect", "sleep"} => cur = 0

\* When only -L and -D are configured, no listener of a lost session goes on
\* accepting clients.  (With -R or -w a failed start() leaves some behind.)
THEOREM LocalTunnelsTornDown ==
    ASSUME NRemote = 0, ~Tun PROVE Spec => []NoStaleListener
<1>1. Init => ListenerInv
  BY DEF Init, ManagerInit, ListenerInv, NoStaleListener
<1>2. ASSUME TypeInv, ListenerInv, Next PROVE ListenerInv'
  <2> USE <1>2 DEF TypeInv, TypeOK, ListenerInv, NoStaleListener
  <2>1. CASE \E g \in Slot : ConnectOk(g)
    BY <2>1 DEF ConnectOk, SpawnListeners, AfterRegister
  <2>2. CASE TearDown \/ CtrlC
    <3>1. ~AutoMode
      BY AutoAssumption
    <3>2. \A s : Abort(s) \notin {"bind", "run"}
      BY DEF Abort
    <3>3. lst' = [q \in LocalPorts |-> [lst[q] EXCEPT ![cur] = Abort(lst[q][cur])]]
      BY <2>2 DEF TearDown, CtrlC, AbortEverything, AbortAll
    <3>4. \A g \in Slot, q \in LocalPorts : lst'[q][g] \notin {"bind", "run"}
      BY <3>2, <3>3
    <3>5. phase' \in {"sleep", "exited"} /\ (phase' = "sleep" => cur' = 0)
      BY <2>2, <3>1 DEF TearDown, CtrlC
    <3> QED BY <3>4, <3>5
  <2>3. CASE ManagerStep
    <3>1. UNCHANGED mainVars
      BY <2>3 DEF ManagerStep
    <3>2. ASSUME NEW g \in Slot, NEW q \in LocalPorts,
                 g # cur, lst'[q][g] \in {"bind", "run"}
          PROVE  lst[q][g] \in {"bind", "run"}
      <4>1. \A h \in Slot, r \in LocalPorts : BindOk(r, h) => lst[r][h] = "bind"
        BY DEF BindOk
      <4>2. CASE \E h \in Slot, r \in LocalPorts : BindOk(r, h)
        BY <4>1, <4>2, <3>2 DEF BindOk
      <4>3. CASE \E h \in Slot, r \in LocalPorts :
                   BindErr(r, h) \/ Accept(r, h) \/ ListenerDropped(r, h)
        <5> PICK h \in Slot, r \in LocalPorts :
                   BindErr(r, h) \/ Accept(r, h) \/ ListenerDropped(r, h)
          BY <4>3
        <5>1. lst' = lst \/ lst' = [lst EXCEPT ![r][h] = "end"]
          BY DEF BindErr, Accept, ListenerDropped
        <5>2. lst \in [LocalPorts -> [Slot -> TaskState]]
          BY DEF ManagerTypeOK
        <5>3. CASE lst' = [lst EXCEPT ![r][h] = "end"]
          <6>1. (q = r /\ g = h) => lst'[q][g] = "end"
            BY <5>2, <5>3
          <6>2. ~(q = r /\ g = h) => lst'[q][g] = lst[q][g]
            BY <5>2, <5>3
          <6> QED BY <3>2, <6>1, <6>2
        <5> QED BY <3>2, <5>1, <5>3
      <4>4. CASE \E h \in Slot :
                   Incoming(h) \/ ConnEnds(h) \/ RecvCloses(h) \/ RecvDropped(h)
        BY <4>4, <3>2 DEF Incoming, ConnEnds, RecvCloses, RecvDropped
      <4> QED BY <2>3, <4>2, <4>3, <4>4 DEF ManagerStep
    <3> QED BY <3>1, <3>2
  <2>4. CASE ConnectErr \/ HooksDone \/ SleepDone \/ Sigint
    BY <2>4 DEF ConnectErr, HooksDone, SleepDone, Sigint, SigintKills, SigintHeard,
                SigintForces, SigintLost
  <2>5. CASE Others /\ ~ManagerStep
    BY <2>5 DEF Others, MonitorStep, TunStep, LinkStep, TunWakes, Drops, IdleOut,
                ServerCloses, ReleaseForwards, LateCleanup
  <2> QED
    BY <2>1, <2>2, <2>3, <2>4, <2>5
       DEF Next, Main, StartRegister, StartRecv, StartRegisterErr, StartTunBuild,
           StartTunBuildErr, StartTunOpen, StartTunRetry, StartTunErr, RetryStart,
           CleanupDone, CleanupTimeout, LinkDeleted, ExitLinkDeleted
<1>3. TypeInv /\ ListenerInv /\ [Next]_vars => ListenerInv'
  BY <1>2 DEF ListenerInv, NoStaleListener
<1>4. ListenerInv => NoStaleListener
  BY DEF ListenerInv
<1> QED BY <1>1, <1>3, <1>4, InitType, NextType, PTL DEF Spec
=============================================================================
