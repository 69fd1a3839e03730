---------------------------- MODULE Negotiation -----------------------------
(***************************************************************************)
(* The choice of algorithms in russh.  Each side sends the lists of its    *)
(* Preferred in KEXINIT and computes, from its own lists and the peer's,   *)
(* the Names both are going to use; nothing is ever compared afterwards,   *)
(* so both must come to the same Names on their own.                       *)
(*                                                                         *)
(* Extensions (strict key exchange, EXT_INFO) are names in the list of key *)
(* exchange algorithms, one for each role.                                 *)
(***************************************************************************)
EXTENDS Naturals, Sequences

CONSTANTS
    NeedsMac,   \* the ciphers without a tag of their own (needs_mac)
    HostKeys    \* the names of the host keys the server has

\* No name in common.
None == "-"

\* The extensions a role announces among its key exchange algorithms.
StrictAs == [client |-> "kex-strict-c", server |-> "kex-strict-s"]
ExtInfoAs == [client |-> "ext-info-c", server |-> "ext-info-s"]
Extensions == {StrictAs[s] : s \in {"client", "server"}}
              \cup {ExtInfoAs[s] : s \in {"client", "server"}}

Peer(side) == IF side = "client" THEN "server" ELSE "client"

\* A list of names, and what is left of it without some of them: the others
\* keep their places, of which only the order matters.
Names(list) == {list[i] : i \in DOMAIN list}
Filter(list, allowed) == [i \in {j \in DOMAIN list : list[j] \in allowed} |-> list[i]]

\* The first of a list that is one of the names.
First(list, names) ==
    LET common == {i \in DOMAIN list : list[i] \in names}
    IN  IF common = {} THEN None
        ELSE list[CHOOSE i \in common : \A j \in common : i <= j]

\* The host key algorithms a side can use: all it prefers, or, for the
\* server, those it has keys for.
PossibleKeys(side, pref) ==
    IF side = "server" THEN Filter(pref.key, HostKeys) ELSE pref.key

\* write_kex: the lists of KEXINIT.  The names that speak for the other role
\* are left out.
WriteKex(side, pref) ==
    [kex |-> Filter(pref.kex,
                    Names(pref.kex) \ {StrictAs[Peer(side)], ExtInfoAs[Peer(side)]}),
     key |-> PossibleKeys(side, pref),
     cipher |-> pref.cipher, mac |-> pref.mac, compression |-> pref.compression]

\* Mutant: every side takes the first of its own list that the peer has.
SelectOwnFirst(side, own, peer) == First(own, Names(peer))

\* Select::select: the first name of the client's list that the server has,
\* whoever computes it.
Select(side, own, peer) ==
    IF side = "client" THEN First(own, Names(peer)) ELSE First(peer, Names(own))

\* Mutant: each side takes the MAC it prefers itself.
ReadKexOwnMac(side, pref, lists) ==
    <<[kex    |-> Select(side, pref.kex, lists.kex),
       key    |-> Select(side, PossibleKeys(side, pref), lists.key),
       cipher |-> Select(side, pref.cipher, lists.cipher),
       mac    |-> SelectOwnFirst(side, pref.mac, lists.mac),
       compression |-> Select(side, pref.compression, lists.compression),
       strict |-> FALSE]>>

\* read_kex: the names chosen from the peer's lists, or None when one of the
\* categories has nothing in common.  A MAC may be missing when the cipher
\* has no need of it.  No side announces a guessed packet.
ReadKex(side, pref, lists) ==
    LET names ==
          [kex    |-> Select(side, pref.kex, lists.kex),
           key    |-> Select(side, PossibleKeys(side, pref), lists.key),
           cipher |-> Select(side, pref.cipher, lists.cipher),
           mac    |-> Select(side, pref.mac, lists.mac),
           compression |-> Select(side, pref.compression, lists.compression),
           strict |-> /\ StrictAs[side] \in Names(pref.kex)
                      /\ StrictAs[Peer(side)] \in Names(lists.kex)]
        missing == \/ None \in {names.kex, names.key, names.cipher,
                                names.compression}
                   \/ names.mac = None /\ names.cipher \in NeedsMac
    IN  IF missing THEN <<>> ELSE <<names>>
=============================================================================
