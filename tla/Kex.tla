-------------------------------- MODULE Kex ---------------------------------
(***************************************************************************)
(* The transport of a russh session: the first key exchange and the        *)
(* re-exchanges that either side starts, client and server each with its   *)
(* own code, over two ordered wires.  A packet carries the key and the     *)
(* sequence number it was sealed with, and can be opened only with the     *)
(* same two.  A random value (cookie, ephemeral key) is the number of the  *)
(* exchange its side has begun; the exchange hash is the tuple of what is  *)
(* hashed, so that hashes and keys agree when their inputs do.             *)
(*                                                                         *)
(* DATA stands for every packet that belongs to no exchange.               *)
(***************************************************************************)
EXTENDS Negotiation, FiniteSets

CONSTANTS
    Prefs,       \* the Preferred a side may be configured with, a sequence
    Pairs,       \* which of them meet, as <<client's, server's>>
    MaxRekeys,   \* bound: re-exchanges started by each side
    MaxData,     \* bound: DATA packets sent by each side
    MaxBeats,    \* bound: keepalives sent by each side (0: no interval set)
    PendingMax   \* packets pending_reads may hold

\* The names of extensions come last in a list, as in SAFE_KEX_ORDER.
ASSUME PrefsAssumption ==
    \A p \in DOMAIN Prefs :
        LET c == Prefs[p]
        IN  /\ \A list \in {c.kex, c.key, c.cipher, c.mac, c.compression} :
                  list \in Seq(Names(list)) /\ None \notin Names(list)
            /\ \A i, j \in DOMAIN c.kex :
                  c.kex[i] \in Extensions /\ c.kex[j] \notin Extensions => j < i
ASSUME PairsAssumption == Pairs \subseteq (DOMAIN Prefs) \X (DOMAIN Prefs)
ASSUME BoundsAssumption ==
    MaxRekeys \in Nat /\ MaxData \in Nat /\ MaxBeats \in Nat /\ PendingMax \in Nat

VARIABLES
    prefs,   \* config.preferred of each side, by its number in Prefs
    ses,     \* the two sessions
    wire     \* wire[s]: the packets s has sent and the peer has not read

vars == <<prefs, ses, wire>>

Sides == {"client", "server"}

\* What a side reads from the peer's lists: both are fixed by the
\* configurations.
NamesFor ==
    [s \in Sides |-> [own \in DOMAIN Prefs |-> [peer \in DOMAIN Prefs |->
        ReadKex(s, Prefs[own], WriteKex(Peer(s), Prefs[peer]))]]]
Chosen(s) == NamesFor[s][prefs[s]][prefs[Peer(s)]]

Clear == <<>>

\* Exchange: KEXINIT of the client and of the server, and their halves.
Exchange(ck, sk, ce, se) == [ck |-> ck, sk |-> sk, ce |-> ce, se |-> se]
NoExchange == Exchange(<<>>, <<>>, <<>>, <<>>)

\* pending_reads: of the packets put aside, the data, how many keepalives
\* there are, and how many packets.
NothingAside == [data |-> <<>>, beats |-> 0, size |-> 0]

\* What a session keeps: Kex (or Encrypted.rekey), whether it is encrypted,
\* the exchange, the keys computed and in use, the sequence
\* numbers, strict_kex, session_id, pending_reads; how it ended.  The last
\* fields count what was begun, sent and received; loud is set once a
\* keepalive was written during a re-exchange.
NewSession ==
    [phase |-> "init", enc |-> FALSE, ex |-> NoExchange,
     newkeys |-> Clear, wkey |-> Clear, rkey |-> Clear, wseq |-> 0, rseq |-> 0,
     strict |-> FALSE, sid |-> <<>>, stash |-> NothingAside, end |-> "no",
     inits |-> 0, rekeys |-> 0, sent |-> 0, got |-> <<>>, beats |-> 0,
     loud |-> FALSE]

-----------------------------------------------------------------------------
\* Writing.

\* SealingKey::write for each of the messages in turn.
Seal(x, msgs) ==
    [i \in 1 .. Len(msgs) |->
        [msg |-> msgs[i], key |-> x.wkey, seq |-> x.wseq + i - 1]]

\* A step of side s: its session becomes x after msgs were written by it.
Step(s, x, msgs) ==
    [ses |-> [x EXCEPT !.wseq = x.wseq + Len(msgs)], out |-> Seal(x, msgs)]

\* Mutant: the write sequence number goes on.
ResetSeqnNever(x) == x

\* maybe_reset_seqn, after NEWKEYS was written.
MaybeResetSeqn(x) == IF x.strict THEN [x EXCEPT !.wseq = 0] ELSE x

KexInitMsg(x) == [t |-> "KEXINIT", n |-> x.inits]

\* client_write, server_write: the lists, and their copy for the hash.
WithInit(s, x) ==
    LET n == x.inits + 1
    IN  [x EXCEPT !.inits = n,
                  !.ex = IF s = "client" THEN Exchange(<<n>>, x.ex.sk, x.ex.ce, x.ex.se)
                         ELSE Exchange(x.ex.ck, <<n>>, x.ex.ce, x.ex.se)]

\* read_ssh_id: both sides write KEXINIT once they have read the peer's
\* identification.
Init ==
    /\ prefs \in {[client |-> p[1], server |-> p[2]] : p \in Pairs}
    /\ ses = [s \in Sides |-> [WithInit(s, NewSession) EXCEPT !.wseq = 1]]
    /\ wire = [s \in Sides |->
          Seal(NewSession, <<KexInitMsg(WithInit(s, NewSession))>>)]

Die(x, why) == [ses |-> [x EXCEPT !.end = why], out |-> <<>>]

-----------------------------------------------------------------------------
\* Reading: what each side does with a message, its sequence number already
\* advanced.

\* initiate_rekey, received_rekey.
ForgetExchange(x) == [x EXCEPT !.ex = NoExchange]

\* The first exchange is strict when its names are, and then KEXINIT must
\* have been the first packet.
StrictViolated(x, names) == ~x.enc /\ names.strict /\ x.rseq # 1

\* KEXINIT of the server: the names are chosen, KEXINIT is written unless
\* it was, and the client's half of the exchange follows (client_parse).
ClientKexInit(x, m) ==
    LET chosen == Chosen("client")
        begun == x.phase = "init"
        y == IF begun THEN x ELSE WithInit("client", ForgetExchange(x))
        z == [y EXCEPT !.ex = Exchange(y.ex.ck, Append(y.ex.sk, m.n), <<y.inits>>, y.ex.se),
                       !.phase = "dhdone"]
        init == [t |-> "ECDH_INIT", e |-> y.inits]
    IN  IF chosen = <<>> THEN Die(x, "no common algorithm")
        ELSE IF chosen[1].kex \in Extensions THEN Die(x, "unknown algorithm")
        ELSE IF \/ StrictViolated(x, chosen[1])
                \/ x.enc /\ ~begun /\ x.strict /\ ~chosen[1].strict
             THEN Die(x, "strict")
        ELSE Step("client", z, IF begun THEN <<init>>
                               ELSE <<KexInitMsg(y), init>>)

\* Mutant: the server takes its KEXINIT for sent.
ServerKexInitMute(x, m) ==
    LET y == IF x.phase = "init" THEN x ELSE WithInit("server", ForgetExchange(x))
    IN  Step("server", [y EXCEPT !.ex = Exchange(Append(y.ex.ck, m.n), y.ex.sk, y.ex.ce, y.ex.se),
                                 !.phase = "dh"], <<>>)

\* KEXINIT of the client (server_parse).
ServerKexInit(x, m) ==
    LET chosen == Chosen("server")
        begun == x.phase = "init"
        y == IF begun THEN x ELSE WithInit("server", ForgetExchange(x))
        z == [y EXCEPT !.ex = Exchange(Append(y.ex.ck, m.n), y.ex.sk, y.ex.ce, y.ex.se),
                       !.phase = "dh", !.strict = (x.enc /\ x.strict) \/ chosen[1].strict]
    IN  IF chosen = <<>> THEN Die(x, "no common algorithm")
        ELSE IF StrictViolated(x, chosen[1]) THEN Die(x, "strict")
        ELSE Step("server", z, IF begun THEN <<>> ELSE <<KexInitMsg(y)>>)

\* The exchange hash, and the keys from it, session_id being the first hash.
Hash(s, x) == <<x.ex.ck, x.ex.sk, x.ex.ce, x.ex.se, Chosen(s)[1].kex>>

\* Mutant: each exchange has an id of its own.
SessionIdLast(s, x) == Hash(s, x)

SessionId(s, x) == IF x.sid = <<>> THEN Hash(s, x) ELSE x.sid
ComputeKeys(s, x) ==
    [x EXCEPT !.newkeys = <<Hash(s, x), SessionId(s, x), Chosen(s)[1]>>,
              !.sid = SessionId(s, x), !.phase = "keys"]

\* KexDh::parse: reply and NEWKEYS go out at once, under the old key.
ServerEcdhInit(x, m) ==
    LET y == ComputeKeys("server", [x EXCEPT
                 !.ex = Exchange(x.ex.ck, x.ex.sk, Append(x.ex.ce, m.e), <<x.inits>>)])
        step == Step("server", y,
                     <<[t |-> "ECDH_REPLY", e |-> x.inits, hash |-> Hash("server", y)],
                       [t |-> "NEWKEYS"]>>)
    IN  [step EXCEPT !.ses = MaybeResetSeqn(@)]

\* server_key_check: the signature is over the server's hash.
ClientEcdhReply(x, m) ==
    LET y == [x EXCEPT !.ex = Exchange(x.ex.ck, x.ex.sk, x.ex.ce, Append(x.ex.se, m.e))]
        z == [ComputeKeys("client", y) EXCEPT !.strict = x.strict \/ Chosen("client")[1].strict]
        step == Step("client", z, <<[t |-> "NEWKEYS"]>>)
    IN  IF m.hash # Hash("client", y) THEN Die(x, "wrong signature")
        ELSE [step EXCEPT !.ses = MaybeResetSeqn(@)]

\* A packet joins those put aside.
PutAside(p, m) ==
    [data |-> IF m.t = "DATA" THEN Append(p.data, m.n) ELSE p.data,
     beats |-> IF m.t = "KEEPALIVE" THEN p.beats + 1 ELSE p.beats,
     size |-> p.size + 1]

\* Mutant: the packets put aside are forgotten.
ProcessNone(x, p) == x

\* process_packet for each of the packets: data is taken in.
Process(x, p) == [x EXCEPT !.got = x.got \o p.data]

\* ... and a keepalive, the global request that wants a reply, is answered.
Answers(p) == [i \in 1 .. p.beats |-> [t |-> "REQUEST_SUCCESS"]]

\* CommonSession::newkeys, and encrypted after the first exchange: both
\* ciphers are replaced.
UseKeys(s, x) ==
    [x EXCEPT !.phase = "idle", !.enc = TRUE,
              !.wkey = x.newkeys, !.rkey = x.newkeys,
              !.strict = (x.enc /\ x.strict) \/ Chosen(s)[1].strict]

\* maybe_send_ext_info: after the first exchange the server announces its
\* extensions to a client that has said it understands them.
ExtInfo(s, x) ==
    IF /\ s = "server" /\ ~x.enc
       /\ ExtInfoAs["client"] \in Names(Prefs[prefs["client"]].kex)
    THEN <<[t |-> "EXT_INFO"]>> ELSE <<>>

\* NEWKEYS: what was put aside is processed, then the keys are used and the
\* read sequence number is reset.
NewKeys(s, x) ==
    LET y == UseKeys(s, [Process(x, x.stash) EXCEPT !.stash = NothingAside])
        z == IF y.strict THEN [y EXCEPT !.rseq = 0] ELSE y
    IN  Step(s, z, ExtInfo(s, x) \o Answers(x.stash))

\* A packet that belongs to no exchange is processed, put aside after the
\* side's own KEXINIT, and an error once the peer's KEXINIT was read.
OtherPacket(s, x, m) ==
    CASE x.enc /\ x.phase = "idle" ->
            LET p == PutAside(NothingAside, m)
            IN  Step(s, Process(x, p), Answers(p))
      [] x.enc /\ x.phase = "init" ->
            IF x.stash.size = PendingMax THEN Die(x, "pending")
            ELSE [ses |-> [x EXCEPT !.stash = PutAside(x.stash, m)], out |-> <<>>]
      [] OTHER -> Die(x, "wrong packet")

Others == {"DATA", "KEEPALIVE", "REQUEST_SUCCESS", "EXT_INFO"}

\* reply and client_read_encrypted.
ClientReply(x, m) ==
    CASE m.t = "KEXINIT" /\ x.phase \in {"init", "idle"} -> ClientKexInit(x, m)
      [] m.t = "ECDH_REPLY" /\ x.phase = "dhdone" -> ClientEcdhReply(x, m)
      [] m.t = "NEWKEYS" /\ x.phase = "keys" -> NewKeys("client", x)
      [] m.t \in Others -> OtherPacket("client", x, m)
      [] OTHER -> Die(x, "wrong packet")

\* reply and server_read_encrypted.
ServerReply(x, m) ==
    CASE m.t = "KEXINIT" /\ x.phase \in {"init", "idle"} -> ServerKexInit(x, m)
      [] m.t = "ECDH_INIT" /\ x.phase = "dh" -> ServerEcdhInit(x, m)
      [] m.t = "NEWKEYS" /\ x.phase = "keys" -> NewKeys("server", x)
      [] m.t \in Others -> OtherPacket("server", x, m)
      [] OTHER -> Die(x, "wrong packet")

Opens(x, p) == p.key = x.rkey /\ p.seq = x.rseq

Apply(s, r) ==
    /\ ses' = [ses EXCEPT ![s] = r.ses]
    /\ wire' = [wire EXCEPT ![s] = @ \o r.out, ![Peer(s)] = Tail(@)]
    /\ UNCHANGED prefs

\* One packet is read, opened and handled; the flush that follows has
\* nothing more to write.
Receive(s) ==
    /\ ses[s].end = "no"
    /\ wire[Peer(s)] # <<>>
    /\ LET p == Head(wire[Peer(s)])
           x == [ses[s] EXCEPT !.rseq = @ + 1]
       IN  Apply(s, IF ~Opens(ses[s], p) THEN Die(ses[s], "cannot open")
                    ELSE IF s = "client" THEN ClientReply(x, p.msg)
                    ELSE ServerReply(x, p.msg))

-----------------------------------------------------------------------------
\* What a side does of its own accord.

Emit(s, x, msgs) ==
    LET r == Step(s, x, msgs)
    IN  /\ ses' = [ses EXCEPT ![s] = r.ses]
        /\ wire' = [wire EXCEPT ![s] = @ \o r.out]
        /\ UNCHANGED prefs

\* The limits are exceeded in flush(): KEXINIT is written.
StartRekey(s) ==
    LET x == ses[s]
        y == [WithInit(s, ForgetExchange(x)) EXCEPT !.phase = "init",
                                                    !.rekeys = x.rekeys + 1]
    IN  /\ x.end = "no" /\ x.enc /\ x.phase = "idle"
        /\ x.rekeys < MaxRekeys
        /\ Emit(s, y, <<KexInitMsg(y)>>)

\* A message of the session's queue, taken only while is_rekeying is false.
SendData(s) ==
    /\ ses[s].end = "no" /\ ses[s].enc /\ ses[s].phase = "idle"
    /\ ses[s].sent < MaxData
    /\ Emit(s, [ses[s] EXCEPT !.sent = @ + 1],
            <<[t |-> "DATA", n |-> ses[s].sent + 1]>>)

\* The keepalive timer fires: nothing looks at the re-exchange.
SendKeepalive(s) ==
    /\ ses[s].end = "no" /\ ses[s].enc
    /\ ses[s].beats < MaxBeats
    /\ Emit(s, [ses[s] EXCEPT !.beats = @ + 1,
                              !.loud = @ \/ ses[s].phase # "idle"],
            <<[t |-> "KEEPALIVE"]>>)

\* The peer's session has ended and its packets are read.
Eof(s) ==
    /\ ses[s].end = "no" /\ ses[Peer(s)].end # "no"
    /\ wire[Peer(s)] = <<>>
    /\ ses' = [ses EXCEPT ![s].end = "eof"]
    /\ UNCHANGED <<prefs, wire>>

Next ==
    \E s \in Sides :
        \/ Receive(s) \/ Eof(s)
        \/ StartRekey(s) \/ SendData(s) \/ SendKeepalive(s)

Spec == Init /\ [][Next]_vars

\* Both session tasks go on reading.
FairSpec == Spec /\ \A s \in Sides : WF_vars(Receive(s)) /\ WF_vars(Eof(s))

-----------------------------------------------------------------------------
\* Properties.

\* The pairs of configurations with a common algorithm of every kind.
CompatiblePairs ==
    {p \in (DOMAIN Prefs) \X (DOMAIN Prefs) :
        LET c == Prefs[p[1]]
            v == Prefs[p[2]]
        IN  /\ (Names(c.kex) \cap Names(v.kex)) \ Extensions # {}
            /\ Names(c.key) \cap Names(v.key) \cap HostKeys # {}
            /\ Names(c.cipher) \cap Names(v.cipher) # {}
            /\ Names(c.compression) \cap Names(v.compression) # {}
            /\ \/ Names(c.mac) \cap Names(v.mac) # {}
               \/ LET i == CHOOSE i \in DOMAIN c.cipher :
                        /\ c.cipher[i] \in Names(v.cipher)
                        /\ \A j \in 1 .. i - 1 :
                              c.cipher[j] \notin Names(v.cipher)
                  IN  c.cipher[i] \notin NeedsMac}
Compatible == <<prefs["client"], prefs["server"]>> \in CompatiblePairs

Quiet == \A s \in Sides : ~ses[s].loud

\* A side can put nothing more aside.
Overflowed(x) == x.end = "pending" /\ x.stash.size = PendingMax

\* Two sessions that have algorithms in common do not end each other:
\* whatever re-exchanges are started by one or by both and whatever data
\* crosses them, every packet can be opened and is expected when it comes.
\* Two things can break this: a keepalive written during a re-exchange, and
\* more packets before the peer's KEXINIT than pending_reads may hold.
SessionsSurvive ==
    Compatible /\ Quiet =>
        \A s \in Sides :
            \/ ses[s].end = "no"
            \/ Overflowed(ses[s])
            \/ ses[s].end = "eof" /\ Overflowed(ses[Peer(s)])

\* The exchange succeeds only between compatible sides, and then the ends of
\* a wire agree on the key: the reader has the writer's key unless a NEWKEYS
\* is on its way to it.
KeysAgree ==
    \A s \in Sides :
        /\ ses[s].enc => Compatible
        /\ ses[s].end = "no" /\ ses[Peer(s)].end = "no" =>
              \/ ses[Peer(s)].rkey = ses[s].wkey
              \/ \E i \in DOMAIN wire[s] : wire[s][i].msg.t = "NEWKEYS"
              \/ ses[s].phase = "keys"

DataOn(packets) == {i \in DOMAIN packets : packets[i].msg.t = "DATA"}

\* The packets of each direction are processed once, in the order sent,
\* those included that a re-exchange has put aside; and while the receiver
\* lives none is missing: what was not processed is put aside or on its way,
\* in order.
NothingLost ==
    \A s \in Sides :
        LET due == ses[s].got \o ses[s].stash.data
            q == wire[Peer(s)]
        IN  /\ \A i \in DOMAIN ses[s].got : ses[s].got[i] = i
            /\ ses[s].end = "no" =>
                  /\ \A i \in DOMAIN due : due[i] = i
                  /\ {q[i].msg.n : i \in DataOn(q)} = Len(due) + 1 .. ses[Peer(s)].sent
                  /\ \A i, j \in DataOn(q) : i < j => q[i].msg.n < q[j].msg.n

\* The session id, to which authentication signatures are bound, is that of
\* the first exchange for ever, and the same on both sides.
SessionIdFixed ==
    [][\A s \in Sides :
          /\ ses[s].sid # <<>> => ses'[s].sid = ses[s].sid
          /\ ses'[s].sid # <<>> /\ ses'[Peer(s)].sid # <<>>
                => ses'[s].sid = ses'[Peer(s)].sid]_vars

\* An exchange, once begun by either side, ends.
ExchangeEnds ==
    \A s \in Sides :
        ses[s].phase # "idle" ~> ses[s].phase = "idle" \/ ses[s].end # "no"
=============================================================================
