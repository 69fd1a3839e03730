----------------------------- MODULE TunForward -----------------------------
(***************************************************************************)
(* The TUN worker (tunnels/tun_forward.rs): the local device, the channel  *)
(* opened on the server's device, and the three tasks that move packets:   *)
(* the outer task, which the manager can abort, and the two inner tasks it *)
(* spawns, which only the outer task can abort.                            *)
(***************************************************************************)
EXTENDS Sessions

CONSTANT Tun   \* -w is configured
ASSUME TunAssumption == Tun \in BOOLEAN

VARIABLES
    dev,      \* the session whose TUN descriptor is attached to the device, or 0
    srvTun,   \* the session that owns the server's device, or 0
    attempt,  \* channel_open_tun attempts made by the running setup
    outer,    \* outer[g]: run_tun_forward_loop
    t2s,      \* t2s[g]: the inner task local TUN -> channel
    s2t       \* s2t[g]: the inner task channel -> local TUN

tunVars == <<dev, srvTun, attempt, outer, t2s, s2t>>

MaxAttempts == 5

\* "spawned": the outer task owns the descriptor and has not run yet;
\* "select": it waits for one of the inner tasks.
OuterState == {"none", "spawned", "select", "aborting", "end"}
InnerState == {"none", "run", "aborting", "end"}
InnerLive == {"run", "aborting"}

TunTypeOK ==
    /\ dev \in 0 .. N
    /\ srvTun \in 0 .. N
    /\ attempt \in 0 .. MaxAttempts
    /\ outer \in [Slot -> OuterState]
    /\ t2s \in [Slot -> InnerState]
    /\ s2t \in [Slot -> InnerState]

TunInit ==
    /\ dev = 0
    /\ srvTun = 0
    /\ attempt = 0
    /\ outer = [g \in Slot |-> "none"]
    /\ t2s = [g \in Slot |-> "none"]
    /\ s2t = [g \in Slot |-> "none"]

\* The descriptor of g is closed: a device that is not persistent goes with it.
DevWithout(g) == IF dev = g THEN 0 ELSE dev

-----------------------------------------------------------------------------
\* Mutant: no deletion and no second build when the name is taken.
TunBuildOkNoRetry(g) ==
    /\ dev = 0
    /\ dev' = g
    /\ attempt' = 0
    /\ UNCHANGED <<srvTun, outer, t2s, s2t>>

\* The first half of setup_tun_forward: build the device.  If the name is
\* taken by a descriptor of an earlier session, the device is deleted and the
\* build tried again, which takes it from that session.
TunBuildOk(g) ==
    /\ dev' = g
    /\ attempt' = 0
    /\ UNCHANGED <<srvTun, outer, t2s, s2t>>

\* Both builds fail; the delete in between is done all the same.
TunBuildErr ==
    /\ dev' = 0
    /\ UNCHANGED <<srvTun, attempt, outer, t2s, s2t>>

\* The second half: channel_open_tun.  The server gives its device to one
\* channel at a time.
TunOpenOk(g) ==
    /\ link[g] = "up"
    /\ srvTun = 0
    /\ attempt < MaxAttempts
    /\ srvTun' = g
    /\ attempt' = 0
    /\ outer' = [outer EXCEPT ![g] = "spawned"]
    /\ t2s' = [t2s EXCEPT ![g] = "none"]
    /\ s2t' = [s2t EXCEPT ![g] = "none"]
    /\ UNCHANGED dev

TunOpenBusy(g) == link[g] = "dead" \/ (link[g] = "up" /\ srvTun # 0)

TunOpenErr ==
    /\ attempt < MaxAttempts
    /\ attempt' = attempt + 1
    /\ UNCHANGED <<dev, srvTun, outer, t2s, s2t>>

\* After the last attempt setup_tun_forward returns an error; the descriptor
\* it holds is dropped.
TunOpenFails(g) ==
    /\ attempt = MaxAttempts
    /\ attempt' = 0
    /\ dev' = DevWithout(g)
    /\ UNCHANGED <<srvTun, outer, t2s, s2t>>

-----------------------------------------------------------------------------
\* run_tun_forward_loop spawns its inner tasks and waits for one of them.
OuterRuns(g) ==
    /\ outer[g] = "spawned"
    /\ outer' = [outer EXCEPT ![g] = "select"]
    /\ t2s' = [t2s EXCEPT ![g] = "run"]
    /\ s2t' = [s2t EXCEPT ![g] = "run"]
    /\ UNCHANGED <<dev, srvTun, attempt>>

\* An inner task returns or is dropped, with its half of the descriptor; the
\* other half keeps the device.
ClosesHalf(g, other) == dev' = IF other[g] \in InnerLive THEN dev ELSE DevWithout(g)

\* tun_to_ssh reads an error from a device that was deleted ...
T2sReadErr(g) ==
    /\ t2s[g] = "run"
    /\ dev # g
    /\ t2s' = [t2s EXCEPT ![g] = "end"]
    /\ ClosesHalf(g, s2t)
    /\ UNCHANGED <<srvTun, attempt, outer, s2t>>

\* ... or reads a packet and cannot write it to a session that has ended.
T2sWriteErr(g) ==
    /\ t2s[g] = "run"
    /\ dev = g
    /\ link[g] = "dead"
    /\ t2s' = [t2s EXCEPT ![g] = "end"]
    /\ ClosesHalf(g, s2t)
    /\ UNCHANGED <<srvTun, attempt, outer, s2t>>

\* ssh_to_tun reads the end of the channel: the session is over, or the
\* server closed the channel because its own device is gone ...
S2tEof(g) ==
    /\ s2t[g] = "run"
    /\ link[g] = "dead" \/ (link[g] = "up" /\ srvTun # g)
    /\ s2t' = [s2t EXCEPT ![g] = "end"]
    /\ ClosesHalf(g, t2s)
    /\ UNCHANGED <<srvTun, attempt, outer, t2s>>

\* ... or reads a packet for a device that was deleted.
S2tWriteErr(g) ==
    /\ s2t[g] = "run"
    /\ link[g] = "up"
    /\ dev # g
    /\ s2t' = [s2t EXCEPT ![g] = "end"]
    /\ ClosesHalf(g, t2s)
    /\ UNCHANGED <<srvTun, attempt, outer, t2s>>

\* One inner task has ended: the select aborts the other one and the outer
\* task returns.  (Its caller then sends on the exit channel.)
AbortInner(s) == IF s = "run" THEN "aborting" ELSE s

OuterWakes(g) ==
    /\ outer[g] = "select"
    /\ "end" \in {t2s[g], s2t[g]}
    /\ outer' = [outer EXCEPT ![g] = "end"]
    /\ t2s' = [t2s EXCEPT ![g] = AbortInner(@)]
    /\ s2t' = [s2t EXCEPT ![g] = AbortInner(@)]
    /\ UNCHANGED <<dev, srvTun, attempt>>

\* abort_all() reaches the outer task and no other.
AbortOuter(g) ==
    outer' = [outer EXCEPT ![g] = IF @ \in {"spawned", "select"} THEN "aborting" ELSE @]

\* The runtime drops an aborted task: the outer one with the descriptor if it
\* has not handed it over, an inner one with its half of it.
OuterDropped(g) ==
    /\ outer[g] = "aborting"
    /\ outer' = [outer EXCEPT ![g] = "end"]
    /\ dev' = IF t2s[g] = "none" THEN DevWithout(g) ELSE dev
    /\ UNCHANGED <<srvTun, attempt, t2s, s2t>>

T2sDropped(g) ==
    /\ t2s[g] = "aborting"
    /\ t2s' = [t2s EXCEPT ![g] = "end"]
    /\ ClosesHalf(g, s2t)
    /\ UNCHANGED <<srvTun, attempt, outer, s2t>>

S2tDropped(g) ==
    /\ s2t[g] = "aborting"
    /\ s2t' = [s2t EXCEPT ![g] = "end"]
    /\ ClosesHalf(g, t2s)
    /\ UNCHANGED <<srvTun, attempt, outer, t2s>>

\* Mutant: the device is not deleted (the command names another one).
LinkDeleteMissing == UNCHANGED <<dev, srvTun, attempt, outer, t2s, s2t>>

\* ip link delete on the client.
LinkDelete == dev' = 0 /\ UNCHANGED <<srvTun, attempt, outer, t2s, s2t>>

\* The server's device is given up: session g is over for the server, or a
\* cleanup command deleted the device whoever owns it.
ReleaseTun(g) ==
    /\ srvTun' = IF srvTun = g THEN 0 ELSE srvTun
    /\ UNCHANGED <<dev, attempt, outer, t2s, s2t>>

DeleteServerTun == srvTun' = 0 /\ UNCHANGED <<dev, attempt, outer, t2s, s2t>>

\* Tasks that keep the session alive: each of them owns a channel of it.
TunHolds(g) ==
    \/ outer[g] \in {"spawned", "select", "aborting"}
    \/ t2s[g] \in InnerLive
    \/ s2t[g] \in InnerLive

TunAborting == \E g \in Slot : "aborting" \in {outer[g], t2s[g], s2t[g]}
=============================================================================
