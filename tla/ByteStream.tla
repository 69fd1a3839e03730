----------------------------- MODULE ByteStream -----------------------------
(***************************************************************************)
(* What one direction of an SSH channel promises its two ends: the bytes   *)
(* arrive in the order they were written, each once, never more of them    *)
(* than the receiver has granted, and none after the channel is closed.    *)
(***************************************************************************)
EXTENDS Naturals

VARIABLES
    written,    \* bytes the sender has written
    delivered,  \* how many of them, from the first, the receiver has got
    granted,    \* how many it has ever agreed to receive
    state       \* "open" or "closed"

vars == <<written, delivered, granted, state>>

Init ==
    /\ written = 0
    /\ delivered = 0
    /\ granted \in Nat
    /\ state = "open"

Write ==
    /\ written' \in Nat
    /\ written' > written
    /\ UNCHANGED <<delivered, granted, state>>

\* The receiver may grant more and bytes may arrive, in any proportion.
Transfer ==
    /\ state = "open"
    /\ granted' \in Nat /\ granted' >= granted
    /\ delivered' \in Nat /\ delivered' >= delivered
    /\ delivered' <= written
    /\ delivered' <= granted'
    /\ UNCHANGED <<written, state>>

\* The end of the channel may still carry what was granted before it.
Close ==
    /\ state = "open"
    /\ granted' \in Nat /\ granted' >= granted
    /\ delivered' \in Nat /\ delivered' >= delivered
    /\ delivered' <= written
    /\ delivered' <= granted'
    /\ state' = "closed"
    /\ UNCHANGED written

Next == Write \/ Transfer \/ Close

Spec == Init /\ [][Next]_vars
=============================================================================
