------------------------------ MODULE Sessions ------------------------------
(***************************************************************************)
(* The SSH sessions that sshtun opens, as the rest of the program sees     *)
(* them.  Every successful connect makes a session; the supervisor drops   *)
(* its handle when it gives the session up, but the session task of russh  *)
(* only stops once every sender of its mpsc channel is gone, or its link   *)
(* has failed.  The server notices the end of a session later still, and   *)
(* keeps the resources of the session (remote ports, tun device) till then.*)
(*                                                                         *)
(* Sessions are numbered by slots 1..N; a slot is reused once nothing is   *)
(* left of its last session, so reconnecting is not bounded.               *)
(***************************************************************************)
EXTENDS Naturals

CONSTANTS
    N,          \* bound: sessions of which something is left at one time
    MaxFaults   \* bound: faults the environment injects in a behaviour

ASSUME NAssumption == N \in Nat \ {0}
ASSUME MaxFaultsAssumption == MaxFaults \in Nat

Slot == 1 .. N

VARIABLES
    link,    \* link[g]: the client's side of session g
    srv,     \* the sessions the server still keeps
    faults   \* faults the environment may still inject

sessionVars == <<link, srv, faults>>

\* "none": never opened; "up": the peer answers; "stalled": nothing comes
\* back and no error is seen; "dead": the session task has ended.
LinkState == {"none", "up", "stalled", "dead"}

SessionsTypeOK ==
    /\ link \in [Slot -> LinkState]
    /\ srv \subseteq Slot
    /\ faults \in 0 .. MaxFaults

SessionsInit ==
    /\ link = [g \in Slot |-> "none"]
    /\ srv = {}
    /\ faults = MaxFaults

\* A fault is drawn from the budget.
Fault == faults > 0 /\ faults' = faults - 1

\* The peer falls silent.
Stall(g) ==
    /\ Fault
    /\ link[g] = "up"
    /\ link' = [link EXCEPT ![g] = "stalled"]
    /\ UNCHANGED srv

\* ... and is heard again.
Resume(g) ==
    /\ link[g] = "stalled"
    /\ link' = [link EXCEPT ![g] = "up"]
    /\ UNCHANGED <<srv, faults>>

\* The connection is reset, or the server disconnects.
Break(g) ==
    /\ Fault
    /\ link[g] = "up"
    /\ link' = [link EXCEPT ![g] = "dead"]
    /\ UNCHANGED srv

\* A session whose peer stays silent ends by itself: the inactivity timer of
\* the session loop, or the retransmission limit of TCP while the client
\* still sends.
GiveUp(g) ==
    /\ link[g] = "stalled"
    /\ link' = [link EXCEPT ![g] = "dead"]
    /\ UNCHANGED <<srv, faults>>

\* Every sender is dropped: receiver.recv() returns None, the loop ends.
Unheld(g) ==
    /\ link[g] \in {"up", "stalled"}
    /\ link' = [link EXCEPT ![g] = "dead"]
    /\ UNCHANGED <<srv, faults>>
=============================================================================
