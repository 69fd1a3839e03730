--------------------------- MODULE TunnelManager ----------------------------
(***************************************************************************)
(* TunnelManager (tunnels/mod.rs) without its TUN part: the listener tasks *)
(* of -L and -D, the registrations of -R and the task that serves them,    *)
(* the connections accepted by the listeners, and the exit channel on      *)
(* which a worker reports its end.                                         *)
(***************************************************************************)
EXTENDS Sessions

CONSTANTS
    LocalPorts,   \* the bind addresses of -L and -D
    NRemote       \* the number of -R specifications

ASSUME NRemoteAssumption == NRemote \in Nat

VARIABLES
    mgr,      \* the session whose manager still has its exit_rx, or 0
    exitq,    \* whether a reason is waiting in exit_rx
    lst,      \* lst[p][g]: the listener task of address p, spawned for g
    recv,     \* recv[g]: the task that serves forwarded_tcp_rx
    fwd,      \* fwd[i]: the session that owns remote port i, or 0
    conn      \* sessions over which a connection is being proxied

managerVars == <<mgr, exitq, lst, recv, fwd, conn>>

\* A tokio task: "none" before it is spawned, "end" when it has returned or
\* was dropped.  abort() only requests the end: the task keeps what it owns
\* until the runtime drops it.  A listener first binds, then listens; an
\* abort that comes before the bind leaves nothing to release.
TaskState == {"none", "bind", "run", "aborting", "end"}
Live == {"bind", "run", "aborting"}
Remote == 1 .. NRemote

ManagerTypeOK ==
    /\ mgr \in 0 .. N
    /\ exitq \in {"empty", "reason"}
    /\ lst \in [LocalPorts -> [Slot -> TaskState]]
    /\ recv \in [Slot -> TaskState]
    /\ fwd \in [Remote -> 0 .. N]
    /\ conn \subseteq Slot

ManagerInit ==
    /\ mgr = 0
    /\ exitq = "empty"
    /\ lst = [p \in LocalPorts |-> [g \in Slot |-> "none"]]
    /\ recv = [g \in Slot |-> "none"]
    /\ fwd = [i \in Remote |-> 0]
    /\ conn = {}

\* tx.send(reason): kept if the receiver exists, lost otherwise.
SendExit(g) == exitq' = IF mgr = g THEN "reason" ELSE exitq

\* What abort_all() does to a task of the manager's vector.
Abort(s) ==
    CASE s = "run"  -> "aborting"
      [] s = "bind" -> "end"
      [] OTHER      -> s

-----------------------------------------------------------------------------
\* start(), up to its first await: the exit channel, and one task for every
\* -L and -D.
SpawnListeners(g) ==
    /\ mgr' = g
    /\ exitq' = "empty"
    /\ lst' = [p \in LocalPorts |-> [lst[p] EXCEPT ![g] = "bind"]]
    /\ recv' = [recv EXCEPT ![g] = "none"]
    /\ UNCHANGED <<fwd, conn>>

\* register_remote_forward: the server accepts the i-th request ...
RegisterOk(g, i) ==
    /\ link[g] = "up"
    /\ fwd[i] = 0
    /\ fwd' = [fwd EXCEPT ![i] = g]
    /\ UNCHANGED <<mgr, exitq, lst, recv, conn>>

\* ... or refuses it because an earlier session still owns the port, or the
\* session has ended; start() returns by '?' and drops the receiver of the
\* exit channel and the task handles, which detaches the tasks.
RegisterBusy(g, i) == link[g] = "dead" \/ (link[g] = "up" /\ fwd[i] # 0)

DropManager ==
    /\ mgr' = 0
    /\ exitq' = "empty"
    /\ UNCHANGED <<lst, recv, fwd, conn>>

\* All -R are registered: the task that serves forwarded_tcp_rx is spawned.
SpawnRecv(g) ==
    /\ recv' = [recv EXCEPT ![g] = "run"]
    /\ UNCHANGED <<mgr, exitq, lst, fwd, conn>>

\* Mutant: the handles of the listeners were never pushed to the vector.
AbortAllNoListeners(g) ==
    /\ recv' = [recv EXCEPT ![g] = Abort(@)]
    /\ mgr' = 0
    /\ exitq' = "empty"
    /\ UNCHANGED <<lst, fwd, conn>>

\* abort_all() of the manager of g; nobody reads exit_rx after it.
AbortAll(g) ==
    /\ lst' = [p \in LocalPorts |-> [lst[p] EXCEPT ![g] = Abort(@)]]
    /\ recv' = [recv EXCEPT ![g] = Abort(@)]
    /\ mgr' = 0
    /\ exitq' = "empty"
    /\ UNCHANGED <<fwd, conn>>

-----------------------------------------------------------------------------
\* The address is held by a listener that is not dropped yet.
Holds(p, g) == lst[p][g] \in {"run", "aborting"}

\* TcpListener::bind succeeds and the accept loop starts.
BindOk(p, g) ==
    /\ lst[p][g] = "bind"
    /\ \A h \in Slot : ~Holds(p, h)
    /\ lst' = [lst EXCEPT ![p][g] = "run"]
    /\ UNCHANGED <<mgr, exitq, recv, fwd, conn>>

\* The address is in use: the task reports the error and returns.
BindErr(p, g) ==
    /\ lst[p][g] = "bind"
    /\ \E h \in Slot : Holds(p, h)
    /\ lst' = [lst EXCEPT ![p][g] = "end"]
    /\ SendExit(g)
    /\ UNCHANGED <<mgr, recv, fwd, conn>>

\* A client is accepted and its channel opened; the proxying task is spawned
\* on its own and is in no vector of handles.
Accept(p, g) ==
    /\ lst[p][g] = "run"
    /\ link[g] = "up"
    /\ g \notin conn
    /\ conn' = conn \cup {g}
    /\ UNCHANGED <<mgr, exitq, lst, recv, fwd>>

\* The server opens a channel for a connection to one of its ports: the
\* local target is connected and a proxying task spawned, on its own again.
Incoming(g) ==
    /\ recv[g] = "run"
    /\ link[g] = "up"
    /\ \E i \in Remote : fwd[i] = g
    /\ g \notin conn
    /\ conn' = conn \cup {g}
    /\ UNCHANGED <<mgr, exitq, lst, recv, fwd>>

\* Both copy directions of the proxying task are over.
ConnEnds(g) ==
    /\ g \in conn
    /\ conn' = conn \ {g}
    /\ UNCHANGED <<mgr, exitq, lst, recv, fwd>>

\* The session has ended, so forwarded_tcp_rx is closed.
RecvCloses(g) ==
    /\ recv[g] = "run"
    /\ link[g] = "dead"
    /\ recv' = [recv EXCEPT ![g] = "end"]
    /\ SendExit(g)
    /\ UNCHANGED <<mgr, lst, fwd, conn>>

\* The runtime drops an aborted task.
ListenerDropped(p, g) ==
    /\ lst[p][g] = "aborting"
    /\ lst' = [lst EXCEPT ![p][g] = "end"]
    /\ UNCHANGED <<mgr, exitq, recv, fwd, conn>>

RecvDropped(g) ==
    /\ recv[g] = "aborting"
    /\ recv' = [recv EXCEPT ![g] = "end"]
    /\ UNCHANGED <<mgr, exitq, lst, fwd, conn>>

\* The server ends session g: its remote ports are free again.
ReleaseForwards(g) ==
    /\ fwd' = [i \in Remote |-> IF fwd[i] = g THEN 0 ELSE fwd[i]]
    /\ UNCHANGED <<mgr, exitq, lst, recv, conn>>

\* Tasks of the manager that hold a clone of the session's handle.
ManagerHolds(g) ==
    \/ g \in conn
    \/ \E p \in LocalPorts : lst[p][g] \in Live

ManagerQuiet(g) == ~ManagerHolds(g) /\ recv[g] \notin Live

ManagerAborting ==
    \E g \in Slot : recv[g] = "aborting" \/ \E p \in LocalPorts : lst[p][g] = "aborting"
=============================================================================
