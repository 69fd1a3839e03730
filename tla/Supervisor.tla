----------------------------- MODULE Supervisor -----------------------------
(***************************************************************************)
(* The main loop of sshtun (main.rs) composed with the tunnel manager, the *)
(* TUN worker, the link monitor and the sessions: connect, start the       *)
(* tunnels, run the hooks, watch, tear down, sleep, and again.             *)
(***************************************************************************)
EXTENDS TunnelManager, TunForward, LinkMonitor

CONSTANTS
    AutoMode,           \* -w auto: the cleanup hooks run at every teardown
    ReconnectInterval,  \* --reconnect-interval
    PeerKeepalive       \* the server sends keepalives of its own

ASSUME AutoAssumption == AutoMode \in BOOLEAN /\ (AutoMode => Tun)
ASSUME ReconnectIntervalAssumption == ReconnectInterval \in Nat
ASSUME PeerKeepaliveAssumption == PeerKeepalive \in BOOLEAN

VARIABLES
    phase,   \* where the main loop is
    cur,     \* the session main holds (ssh_conn), or 0
    nreg,    \* -R specifications registered by the running start()
    sig,     \* "default": SIGINT kills; "idle": tokio's handler is installed;
             \* "fired": the ctrl_c() of the running select! is ready
    asked,   \* history: SIGINT was sent to the process
    late     \* sessions whose cleanup command the server has yet to run

sigVars == <<sig, asked>>
mainVars == <<phase, cur, nreg, sigVars, late>>
vars == <<sessionVars, managerVars, tunVars, monitorVars, mainVars>>

Phase == {"connect", "register", "tunbuild", "tunopen", "failsleep", "hooks",
          "active", "cleanup", "linkdel", "sleep", "exitclean", "exitdel", "exited"}

SigState == {"default", "idle", "fired"}

\* The variables have the types the program gives them.
TypeOK ==
    /\ SessionsTypeOK /\ ManagerTypeOK /\ TunTypeOK /\ MonitorTypeOK
    /\ phase \in Phase
    /\ cur \in 0 .. N
    /\ nreg \in 0 .. NRemote
    /\ sig \in SigState
    /\ asked \in BOOLEAN
    /\ late \subseteq Slot

Init ==
    /\ SessionsInit /\ ManagerInit /\ TunInit /\ MonitorInit
    /\ phase = "connect"
    /\ cur = 0
    /\ nreg = 0
    /\ sig = "default"
    /\ asked = FALSE
    /\ late = {}

At(p) == phase = p
Goto(p) == phase' = p

\* Nothing is left of the last session of slot g.
Free(g) ==
    /\ link[g] \in {"none", "dead"}
    /\ g \notin srv \cup late
    /\ ManagerQuiet(g)
    /\ ~TunHolds(g)

-----------------------------------------------------------------------------
(* connect and start                                                       *)

\* The phase that follows the registrations.
AfterRegister == IF Tun THEN "tunbuild" ELSE "hooks"

\* SshConnection::connect succeeds, and start() runs up to its first await.
ConnectOk(g) ==
    /\ At("connect")
    /\ Free(g)
    /\ link' = [link EXCEPT ![g] = "up"]
    /\ srv' = srv \cup {g}
    /\ cur' = g
    /\ nreg' = 0
    /\ SpawnListeners(g)
    /\ Goto(IF NRemote > 0 THEN "register" ELSE AfterRegister)
    /\ UNCHANGED <<faults, tunVars, monitorVars, sigVars, late>>

\* connect() returns an error, which is logged.
ConnectErr ==
    /\ At("connect")
    /\ Fault
    /\ Goto("sleep")
    /\ UNCHANGED <<link, srv, managerVars, tunVars, monitorVars, cur, nreg, sigVars, late>>

\* One tcpip_forward is answered; after the last the serving task is spawned.
StartRegister ==
    /\ At("register")
    /\ nreg < NRemote
    /\ RegisterOk(cur, nreg + 1)
    /\ nreg' = nreg + 1
    /\ UNCHANGED <<sessionVars, tunVars, monitorVars, phase, cur, sigVars, late>>

StartRecv ==
    /\ At("register")
    /\ nreg = NRemote
    /\ SpawnRecv(cur)
    /\ Goto(AfterRegister)
    /\ UNCHANGED <<sessionVars, tunVars, monitorVars, cur, nreg, sigVars, late>>

\* start() fails in a registration: main logs it, sleeps and continues.  No
\* task is aborted.  The server may also refuse for a reason of its own.
StartRegisterErr ==
    /\ At("register")
    /\ nreg < NRemote
    /\ \/ RegisterBusy(cur, nreg + 1) /\ UNCHANGED faults
       \/ Fault /\ link[cur] = "up"
    /\ DropManager
    /\ Goto("failsleep")
    /\ UNCHANGED <<link, srv, tunVars, monitorVars, cur, nreg, sigVars, late>>

StartTunBuild ==
    /\ At("tunbuild")
    /\ TunBuildOk(cur)
    /\ Goto("tunopen")
    /\ UNCHANGED <<sessionVars, managerVars, monitorVars, cur, nreg, sigVars, late>>

StartTunBuildErr ==
    /\ At("tunbuild")
    /\ Fault
    /\ TunBuildErr
    /\ DropManager
    /\ Goto("failsleep")
    /\ UNCHANGED <<link, srv, monitorVars, cur, nreg, sigVars, late>>

\* The channel is open: the outer task is spawned and start() returns Ok.
StartTunOpen ==
    /\ At("tunopen")
    /\ TunOpenOk(cur)
    /\ Goto("hooks")
    /\ UNCHANGED <<sessionVars, managerVars, monitorVars, cur, nreg, sigVars, late>>

StartTunRetry ==
    /\ At("tunopen")
    /\ \/ TunOpenBusy(cur) /\ UNCHANGED faults
       \/ Fault /\ link[cur] = "up"
    /\ TunOpenErr
    /\ UNCHANGED <<link, srv, managerVars, monitorVars, mainVars>>

StartTunErr ==
    /\ At("tunopen")
    /\ TunOpenFails(cur)
    /\ DropManager
    /\ Goto("failsleep")
    /\ UNCHANGED <<sessionVars, monitorVars, cur, nreg, sigVars, late>>

\* 'continue' drops ssh_conn.
RetryStart ==
    /\ At("failsleep")
    /\ cur' = 0
    /\ Goto("connect")
    /\ UNCHANGED <<sessionVars, managerVars, tunVars, monitorVars, nreg, sigVars, late>>

-----------------------------------------------------------------------------
(* active                                                                  *)

\* The post-up hooks return: their commands ran, or failed with the session;
\* errors are logged.  A silent peer keeps them waiting.  The monitor is
\* spawned, and select! registers for SIGINT.
HooksDone ==
    /\ At("hooks")
    /\ link[cur] \in {"up", "dead"}
    /\ MonitorSpawn
    /\ sig' = "idle"
    /\ Goto("active")
    /\ UNCHANGED <<sessionVars, managerVars, tunVars, cur, nreg, asked, late>>

MonitorStep ==
    /\ At("active")
    /\ PingSent \/ PingOk(cur) \/ PingErr(cur) \/ PingTimeout(cur)
    /\ UNCHANGED <<sessionVars, managerVars, tunVars, mainVars>>

\* What both ways out of select! do first: abort the monitor and every task
\* of the manager.
AbortEverything ==
    /\ MonitorAbort
    /\ AbortAll(cur)
    /\ AbortOuter(cur)
    /\ sig' = "idle"
    /\ UNCHANGED <<sessionVars, dev, srvTun, attempt, t2s, s2t, nreg, asked, late>>

\* The monitor's verdict, or a worker's message, completes select!.
TearDown ==
    /\ At("active")
    /\ mon = "dead" \/ exitq = "reason"
    /\ AbortEverything
    /\ IF AutoMode THEN Goto("cleanup") /\ UNCHANGED cur
               ELSE Goto("sleep") /\ cur' = 0

\* ctrl_c() completes select!; without cleanup hooks main returns at once.
CtrlC ==
    /\ At("active")
    /\ sig = "fired"
    /\ AbortEverything
    /\ Goto(IF AutoMode THEN "exitclean" ELSE "exited")
    /\ UNCHANGED cur

-----------------------------------------------------------------------------
(* teardown                                                                *)

AfterCleanup == IF At("cleanup") THEN Goto("linkdel") ELSE Goto("exitdel")

\* run_cleanup_hooks returns: the server has run the command, which also
\* deletes its tun device, or the session could not carry it.
CleanupDone ==
    /\ phase \in {"cleanup", "exitclean"}
    /\ \/ link[cur] = "up" /\ DeleteServerTun
       \/ link[cur] = "dead" /\ UNCHANGED tunVars
    /\ AfterCleanup
    /\ UNCHANGED <<sessionVars, managerVars, monitorVars, cur, nreg, sigVars, late>>

\* The timeout drops the future; a command already sent may still be run.
CleanupTimeout ==
    /\ phase \in {"cleanup", "exitclean"}
    /\ \/ link[cur] = "stalled" /\ UNCHANGED faults
       \/ link[cur] = "up" /\ Fault
    /\ late' = late \cup {cur}
    /\ AfterCleanup
    /\ UNCHANGED <<link, srv, managerVars, tunVars, monitorVars, cur, nreg, sigVars>>

\* ip link delete of the local device; at the end of the arm ssh_conn is dropped.
LinkDeleted ==
    /\ At("linkdel")
    /\ LinkDelete
    /\ cur' = 0
    /\ Goto("sleep")
    /\ UNCHANGED <<sessionVars, managerVars, monitorVars, nreg, sigVars, late>>

ExitLinkDeleted ==
    /\ At("exitdel")
    /\ LinkDelete
    /\ Goto("exited")
    /\ UNCHANGED <<sessionVars, managerVars, monitorVars, cur, nreg, sigVars, late>>

\* sleep(reconnect_interval).  An aborted task is dropped in far less than a
\* second, so only an interval of 0 lets one outlive the sleep.
SleepDone ==
    /\ At("sleep")
    /\ ReconnectInterval = 0 \/ ~(ManagerAborting \/ TunAborting)
    /\ Goto("connect")
    /\ UNCHANGED <<sessionVars, managerVars, tunVars, monitorVars, cur, nreg, sigVars, late>>

-----------------------------------------------------------------------------
(* SIGINT                                                                  *)

\* Before the first select! the default action ends the process.
SigintKills ==
    /\ sig = "default"
    /\ Goto("exited")
    /\ UNCHANGED <<cur, nreg, sig>>

SigintHeard ==
    /\ At("active")
    /\ sig' = "fired"
    /\ UNCHANGED <<phase, cur, nreg>>

\* The second ctrl_c() during the exit cleanup: process::exit(130).
SigintForces ==
    /\ At("exitclean")
    /\ Goto("exited")
    /\ UNCHANGED <<cur, nreg, sig>>

\* Tokio keeps its handler installed, and no ctrl_c() is being awaited.
SigintLost ==
    /\ sig # "default"
    /\ phase \notin {"active", "exitclean"}
    /\ UNCHANGED <<phase, cur, nreg, sig>>

Sigint ==
    /\ SigintKills \/ SigintHeard \/ SigintForces \/ SigintLost
    /\ asked' = TRUE
    /\ UNCHANGED <<sessionVars, managerVars, tunVars, monitorVars, late>>

-----------------------------------------------------------------------------
(* the workers and the environment                                         *)

ManagerStep ==
    /\ \/ \E g \in Slot, p \in LocalPorts :
            BindOk(p, g) \/ BindErr(p, g) \/ Accept(p, g) \/ ListenerDropped(p, g)
       \/ \E g \in Slot :
            Incoming(g) \/ ConnEnds(g) \/ RecvCloses(g) \/ RecvDropped(g)
    /\ UNCHANGED <<sessionVars, tunVars, monitorVars, mainVars>>

\* Mutant: only an error of the loop is reported, and it returned none.
TunWakesSilent(g) ==
    /\ OuterWakes(g)
    /\ UNCHANGED <<sessionVars, managerVars, monitorVars, mainVars>>

\* The outer task's caller reports its end, whatever the reason.
TunWakes(g) ==
    /\ OuterWakes(g)
    /\ SendExit(g)
    /\ UNCHANGED <<sessionVars, mgr, lst, recv, fwd, conn, monitorVars, mainVars>>

TunStep ==
    /\ \E g \in Slot :
          \/ OuterRuns(g) \/ OuterDropped(g)
          \/ T2sReadErr(g) \/ T2sWriteErr(g) \/ T2sDropped(g)
          \/ S2tEof(g) \/ S2tWriteErr(g) \/ S2tDropped(g)
    /\ UNCHANGED <<sessionVars, managerVars, monitorVars, mainVars>>

LinkStep ==
    /\ \E g \in Slot : Stall(g) \/ Resume(g) \/ Break(g) \/ GiveUp(g)
    /\ UNCHANGED <<managerVars, tunVars, monitorVars, mainVars>>

\* Nobody holds a sender of session g.
Drops(g) ==
    /\ cur # g /\ ~ManagerHolds(g) /\ ~TunHolds(g)
    /\ Unheld(g)
    /\ UNCHANGED <<managerVars, tunVars, monitorVars, mainVars>>

\* The inactivity timer ends a session over which nothing moves: one that is
\* not monitored any more, and whose server is silent as well.
IdleOut(g) ==
    /\ cur # g /\ ~PeerKeepalive
    /\ link[g] = "up"
    /\ link' = [link EXCEPT ![g] = "dead"]
    /\ UNCHANGED <<srv, faults, managerVars, tunVars, monitorVars, mainVars>>

\* The server learns that session g is over and frees what it owned.  A
\* cleanup command that it has not got is lost; one that has started goes on.
ServerCloses(g) ==
    /\ link[g] = "dead"
    /\ g \in srv
    /\ srv' = srv \ {g}
    /\ late' \in {late, late \ {g}}
    /\ ReleaseForwards(g)
    /\ ReleaseTun(g)
    /\ UNCHANGED <<link, faults, monitorVars, phase, cur, nreg, sigVars>>

\* The server gets to the end of a cleanup command whose sender has stopped
\* waiting: the device goes, whoever owns it by now.
LateCleanup(g) ==
    /\ g \in late
    /\ late' = late \ {g}
    /\ DeleteServerTun
    /\ UNCHANGED <<sessionVars, managerVars, monitorVars, phase, cur, nreg, sigVars>>

-----------------------------------------------------------------------------
Main ==
    \/ \E g \in Slot : ConnectOk(g)
    \/ ConnectErr
    \/ StartRegister \/ StartRecv \/ StartRegisterErr
    \/ StartTunBuild \/ StartTunBuildErr \/ StartTunOpen \/ StartTunRetry \/ StartTunErr
    \/ RetryStart \/ HooksDone \/ TearDown \/ CtrlC
    \/ CleanupDone \/ CleanupTimeout \/ LinkDeleted \/ ExitLinkDeleted \/ SleepDone

Others ==
    \/ MonitorStep \/ ManagerStep \/ TunStep \/ LinkStep
    \/ \E g \in Slot : TunWakes(g) \/ Drops(g) \/ IdleOut(g) \/ ServerCloses(g) \/ LateCleanup(g)

Next == ~At("exited") /\ (Main \/ Sigint \/ Others)

Spec == Init /\ [][Next]_vars

-----------------------------------------------------------------------------
(* Fairness: the runtime polls every task that can go on, timers fire, and *)
(* what only the user, the clients or packets decide is left free.         *)

Pumping(g) == t2s[g] = "run" /\ dev = g

Fairness ==
    /\ WF_vars(~At("exited") /\ Main)
    /\ WF_vars(~At("exited") /\ MonitorStep)
    /\ \A g \in Slot :
        /\ WF_vars(LinkStep /\ link[g] = "stalled" /\ link'[g] # "stalled")
        /\ WF_vars(Drops(g))
        /\ WF_vars(ServerCloses(g))
        /\ WF_vars(LateCleanup(g))
        /\ WF_vars(IdleOut(g) /\ g \notin conn /\ ~Pumping(g))
        /\ WF_vars(ManagerStep /\ recv'[g] # recv[g])
        /\ \A p \in LocalPorts : WF_vars(ManagerStep /\ lst'[p][g] # lst[p][g])
        /\ WF_vars(TunStep /\ outer'[g] # outer[g])
        /\ WF_vars(TunStep /\ t2s[g] \in InnerLive /\ t2s'[g] = "end" /\ ~Pumping(g))
        /\ WF_vars(TunStep /\ s2t[g] \in InnerLive /\ s2t'[g] = "end"
                           /\ (link[g] = "up" => s2t[g] = "aborting" \/ srvTun # g))
        /\ WF_vars(TunWakes(g))

FairSpec == Spec /\ Fairness

-----------------------------------------------------------------------------
(* Properties                                                              *)

\* A worker of the running manager never ends without a word: while main
\* waits and no reason is queued, every listener of the current session, the
\* -R task and the TUN task are alive, although none of their handles is
\* awaited (tunnels/mod.rs) and the messages race the start of the others.
NoSilentDeath ==
    At("active") /\ exitq = "empty" =>
        /\ \A p \in LocalPorts : lst[p][cur] \in {"bind", "run"}
        /\ NRemote > 0 => recv[cur] = "run"
        /\ Tun => outer[cur] \in {"spawned", "select"}

\* Automatic teardown of stale tunnels: no listener of a session that main
\* has left goes on accepting clients.
NoStaleListener ==
    \A g \in Slot : g # cur => \A p \in LocalPorts : lst[p][g] \notin {"bind", "run"}

\* The TUN device of a lost session is released before the next connection
\* is attempted, although the inner tasks outlive the abort of the outer one.
TunReleased == phase \in {"sleep", "connect"} => dev = 0

\* The verdict of the monitor is exact: given once KeepaliveMax pings in a
\* row went unanswered, and not before.
VerdictExact == mon # "off" => (mon = "dead" <=> unanswered >= KeepaliveMax)

\* The monitor declares no link dead that is answering at that moment.
VerdictOnSilence == [][mon # "dead" /\ mon' = "dead" => link[cur] # "up"]_vars

\* A session lost while the tunnels are up leads to a new connection attempt.
Reconnects == (At("active") /\ link[cur] = "dead") ~> phase \in {"connect", "exited"}

\* Every tunnel that was asked for is up.
Serving ==
    /\ At("active")
    /\ link[cur] = "up"
    /\ \A p \in LocalPorts : lst[p][cur] = "run"
    /\ NRemote > 0 => recv[cur] = "run"
    /\ Tun => dev = cur /\ srvTun = cur /\ t2s[cur] = "run" /\ s2t[cur] = "run"

\* Persistent connection: once the faults are over, the program ends up
\* serving every tunnel, for good.
Recovers == <>[](Serving \/ At("exited"))

\* "Press Ctrl+C to terminate".
CtrlCTerminates == asked ~> At("exited")
=============================================================================
