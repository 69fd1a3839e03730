----------------------------- MODULE KexProofs ------------------------------
(***************************************************************************)
(* Theorems about Kex, for all preferences and any number of re-exchanges, *)
(* packets and keepalives.                                                 *)
(*                                                                         *)
(* A step is first described field by field (Took for the message read,    *)
(* Did for what a side does by itself), which hides the records.  DataInv, *)
(* the numbers of the data on a wire against what its reader has, is       *)
(* inductive as it stands.  For the keys and the session id the two        *)
(* sessions are looked at together: Joint says that they are always in one *)
(* of thirteen rows, each a phase of the client, a phase of the server and *)
(* the messages of exchanges under way between them, in order; whatever    *)
(* else is on a wire lies between those (Marks).  Every step leads from a  *)
(* row to a row.  That the sessions survive needs the packets themselves:  *)
(* Wired says that the reader of a wire can open all that is on it, one    *)
(* packet after the other, across a NEWKEYS too; and Ready what the        *)
(* handlers ask of strict key exchange.                                    *)
(***************************************************************************)
EXTENDS Kex, TLAPS, WellFoundedInduction

-----------------------------------------------------------------------------
\* What a step does, field by field.

\* A session has these fields.
IsSession(x) ==
    DOMAIN x = {"phase", "enc", "ex", "newkeys", "wkey", "rkey", "wseq", "rseq",
                "strict", "sid", "stash", "end", "inits", "rekeys", "sent", "got",
                "beats", "loud"}

\* What a step may leave alone.
KeepsKeys(x, z) ==
    /\ z.enc = x.enc /\ z.wkey = x.wkey /\ z.rkey = x.rkey
    /\ z.newkeys = x.newkeys /\ z.sid = x.sid
KeepsExchange(x, z) == z.phase = x.phase /\ z.ex = x.ex /\ z.inits = x.inits
KeepsData(x, z) == z.sent = x.sent /\ z.got = x.got /\ z.stash = x.stash

\* A side can go on from the peer's lists.
Ok(s) == Chosen(s) # <<>> /\ (s = "client" => Chosen(s)[1].kex \notin Extensions)

KI(n) == [t |-> "KEXINIT", n |-> n]
EI(n) == [t |-> "ECDH_INIT", e |-> n]
ER(n, h) == [t |-> "ECDH_REPLY", e |-> n, hash |-> h]
NK == [t |-> "NEWKEYS"]

\* The kinds of step: x is the session before (its read number advanced when
\* a message m was read), z the session after, msgs what it has written.
Died(x, z, msgs) ==
    /\ msgs = <<>> /\ z.end # "no"
    /\ KeepsKeys(x, z) /\ KeepsExchange(x, z) /\ KeepsData(x, z)
    /\ z.strict = x.strict /\ z.loud = x.loud

ClientTookInit(x, m, z, msgs) ==
    /\ m.t = "KEXINIT" /\ Ok("client") /\ z.phase = "dhdone"
    /\ KeepsKeys(x, z) /\ KeepsData(x, z)
    /\ z.end = x.end /\ z.strict = x.strict /\ z.loud = x.loud
    /\ z.rseq = x.rseq /\ z.wseq = x.wseq + Len(msgs)
    /\ \/ /\ x.phase = "init" /\ z.inits = x.inits
          /\ z.ex = Exchange(x.ex.ck, Append(x.ex.sk, m.n), <<x.inits>>, x.ex.se)
          /\ msgs = <<EI(z.inits)>>
       \/ /\ x.phase = "idle" /\ z.inits = x.inits + 1
          /\ z.ex = Exchange(<<z.inits>>, Append(<<>>, m.n), <<z.inits>>, <<>>)
          /\ msgs = <<KI(z.inits), EI(z.inits)>>

ServerTookInit(x, m, z, msgs) ==
    /\ m.t = "KEXINIT" /\ Ok("server") /\ z.phase = "dh"
    /\ KeepsKeys(x, z) /\ KeepsData(x, z)
    /\ z.end = x.end /\ z.loud = x.loud
    /\ z.strict = ((x.enc /\ x.strict) \/ Chosen("server")[1].strict)
    /\ z.rseq = x.rseq /\ z.wseq = x.wseq + Len(msgs)
    /\ \/ /\ x.phase = "init" /\ z.inits = x.inits
          /\ z.ex = Exchange(Append(x.ex.ck, m.n), x.ex.sk, x.ex.ce, x.ex.se)
          /\ msgs = <<>>
       \/ /\ x.phase = "idle" /\ z.inits = x.inits + 1
          /\ z.ex = Exchange(Append(<<>>, m.n), <<z.inits>>, <<>>, <<>>)
          /\ msgs = <<KI(z.inits)>>

\* The keys of the exchange x.ex are computed.
Computed(s, x, z) ==
    /\ z.newkeys = <<Hash(s, z), z.sid, Chosen(s)[1]>>
    /\ z.sid = (IF x.sid = <<>> THEN Hash(s, z) ELSE x.sid)
    /\ z.phase = "keys" /\ z.inits = x.inits
    /\ z.enc = x.enc /\ z.wkey = x.wkey /\ z.rkey = x.rkey
    /\ KeepsData(x, z) /\ z.end = x.end /\ z.loud = x.loud /\ z.rseq = x.rseq

ServerTookEcdh(x, m, z, msgs) ==
    /\ m.t = "ECDH_INIT" /\ x.phase = "dh" /\ Computed("server", x, z)
    /\ z.ex = Exchange(x.ex.ck, x.ex.sk, Append(x.ex.ce, m.e), <<x.inits>>)
    /\ msgs = <<ER(x.inits, Hash("server", z)), NK>>
    /\ z.strict = x.strict
    /\ z.wseq = IF x.strict THEN 0 ELSE x.wseq + Len(msgs)

ClientTookReply(x, m, z, msgs) ==
    /\ m.t = "ECDH_REPLY" /\ x.phase = "dhdone" /\ Computed("client", x, z)
    /\ z.ex = Exchange(x.ex.ck, x.ex.sk, x.ex.ce, Append(x.ex.se, m.e))
    /\ m.hash = Hash("client", z)
    /\ msgs = <<NK>>
    /\ z.strict = (x.strict \/ Chosen("client")[1].strict)
    /\ z.wseq = IF z.strict THEN 0 ELSE x.wseq + Len(msgs)

TookKeys(s, x, m, z, msgs) ==
    /\ m.t = "NEWKEYS" /\ x.phase = "keys" /\ z.phase = "idle"
    /\ z.enc = TRUE /\ z.wkey = x.newkeys /\ z.rkey = x.newkeys
    /\ z.newkeys = x.newkeys /\ z.sid = x.sid /\ z.ex = x.ex /\ z.inits = x.inits
    /\ z.got = x.got \o x.stash.data /\ z.stash = NothingAside /\ z.sent = x.sent
    /\ z.end = x.end /\ z.loud = x.loud
    /\ z.strict = ((x.enc /\ x.strict) \/ Chosen(s)[1].strict)
    /\ z.rseq = IF z.strict THEN 0 ELSE x.rseq
    /\ msgs = ExtInfo(s, x) \o Answers(x.stash)
    /\ z.wseq = x.wseq + Len(msgs)

TookOther(x, m, z, msgs) ==
    /\ m.t \in Others /\ x.enc /\ x.phase = "idle"
    /\ KeepsKeys(x, z) /\ KeepsExchange(x, z)
    /\ z.got = x.got \o PutAside(NothingAside, m).data /\ z.stash = x.stash
    /\ z.sent = x.sent /\ z.end = x.end /\ z.loud = x.loud /\ z.strict = x.strict
    /\ msgs = Answers(PutAside(NothingAside, m))
    /\ z.rseq = x.rseq /\ z.wseq = x.wseq + Len(msgs)

KeptOther(x, m, z, msgs) ==
    /\ m.t \in Others /\ x.enc /\ x.phase = "init" /\ x.stash.size # PendingMax
    /\ KeepsKeys(x, z) /\ KeepsExchange(x, z)
    /\ z.stash = PutAside(x.stash, m) /\ z.got = x.got
    /\ z.sent = x.sent /\ z.end = x.end /\ z.loud = x.loud /\ z.strict = x.strict
    /\ msgs = <<>>
    /\ z.rseq = x.rseq /\ z.wseq = x.wseq

-----------------------------------------------------------------------------

LEMMA WithInitFacts ==
    ASSUME NEW s \in Sides, NEW x, IsSession(x)
    PROVE  LET y == WithInit(s, ForgetExchange(x))
           IN  /\ IsSession(y) /\ y.inits = x.inits + 1
               /\ y.ex = IF s = "client" THEN Exchange(<<y.inits>>, <<>>, <<>>, <<>>)
                         ELSE Exchange(<<>>, <<y.inits>>, <<>>, <<>>)
               /\ KeepsKeys(x, y) /\ KeepsData(x, y) /\ y.phase = x.phase
               /\ y.end = x.end /\ y.strict = x.strict /\ y.loud = x.loud
               /\ y.rseq = x.rseq /\ y.wseq = x.wseq
<1> DEFINE f == ForgetExchange(x)
<1>1. /\ IsSession(f) /\ f.ex = NoExchange /\ f.inits = x.inits
      /\ KeepsKeys(x, f) /\ KeepsData(x, f) /\ f.phase = x.phase
      /\ f.end = x.end /\ f.strict = x.strict /\ f.loud = x.loud
      /\ f.rseq = x.rseq /\ f.wseq = x.wseq
  BY Zenon DEF IsSession, ForgetExchange, KeepsKeys, KeepsData
<1> DEFINE y == WithInit(s, f)
<1> HIDE DEF f
<1>2. /\ IsSession(y) /\ y.inits = f.inits + 1
      /\ y.ex = IF s = "client" THEN Exchange(<<f.inits + 1>>, f.ex.sk, f.ex.ce, f.ex.se)
                ELSE Exchange(f.ex.ck, <<f.inits + 1>>, f.ex.ce, f.ex.se)
      /\ KeepsKeys(f, y) /\ KeepsData(f, y) /\ y.phase = f.phase
      /\ y.end = f.end /\ y.strict = f.strict /\ y.loud = f.loud
      /\ y.rseq = f.rseq /\ y.wseq = f.wseq
  BY <1>1, Zenon DEF IsSession, WithInit, KeepsKeys, KeepsData
<1>3. f.ex.ck = <<>> /\ f.ex.sk = <<>> /\ f.ex.ce = <<>> /\ f.ex.se = <<>>
  BY <1>1 DEF NoExchange, Exchange
<1> HIDE DEF y
<1>4. /\ KeepsKeys(x, y) /\ KeepsData(x, y)
  BY <1>1, <1>2 DEF KeepsKeys, KeepsData
<1> QED  BY <1>1, <1>2, <1>3, <1>4 DEF f, y

\* The packets that carry the messages msgs.
Packets(key, seq, msgs) ==
    [i \in 1 .. Len(msgs) |-> [msg |-> msgs[i], key |-> key, seq |-> seq + i - 1]]

LEMMA StepFacts ==
    ASSUME NEW s, NEW x, IsSession(x), NEW msgs
    PROVE  LET r == Step(s, x, msgs)
               y == r.ses
           IN  /\ r.out = Packets(x.wkey, x.wseq, msgs)
               /\ IsSession(y) /\ y.wseq = x.wseq + Len(msgs)
               /\ KeepsKeys(x, y) /\ KeepsExchange(x, y) /\ KeepsData(x, y)
               /\ y.end = x.end /\ y.strict = x.strict /\ y.loud = x.loud /\ y.rseq = x.rseq
<1> DEFINE y == [x EXCEPT !.wseq = x.wseq + Len(msgs)]
<1>1. Step(s, x, msgs).ses = y /\ Step(s, x, msgs).out = Packets(x.wkey, x.wseq, msgs)
  BY DEF Step, Seal, Packets
<1>2. /\ IsSession(y) /\ y.wseq = x.wseq + Len(msgs)
      /\ KeepsKeys(x, y) /\ KeepsExchange(x, y) /\ KeepsData(x, y)
      /\ y.end = x.end /\ y.strict = x.strict /\ y.loud = x.loud /\ y.rseq = x.rseq
  BY Zenon DEF IsSession, KeepsKeys, KeepsExchange, KeepsData
<1> QED  BY <1>1, <1>2, Zenon

LEMMA DieFacts ==
    ASSUME NEW x, IsSession(x), NEW why, why # "no"
    PROVE  LET r == Die(x, why)
           IN  /\ r.out = <<>> /\ IsSession(r.ses) /\ Died(x, r.ses, <<>>)
<1> DEFINE y == [x EXCEPT !.end = why]
<1>1. Die(x, why).ses = y /\ Die(x, why).out = <<>>
  BY DEF Die
<1>2. /\ IsSession(y) /\ y.end = why /\ y.wseq = x.wseq
      /\ KeepsKeys(x, y) /\ KeepsExchange(x, y) /\ KeepsData(x, y)
      /\ y.strict = x.strict /\ y.loud = x.loud /\ y.rseq = x.rseq
  BY Zenon DEF IsSession, KeepsKeys, KeepsExchange, KeepsData
<1> QED  BY <1>1, <1>2, Zenon DEF Died

\* What a handler returns: a session, and the packets of some messages.
Sends(r, x, msgs) == r.out = Packets(r.ses.wkey, x.wseq, msgs)

LEMMA ClientKexInitFacts ==
    ASSUME NEW x, IsSession(x), NEW m, m.t = "KEXINIT", x.phase \in {"init", "idle"}
    PROVE  LET r == ClientKexInit(x, m)
           IN  /\ IsSession(r.ses)
               /\ \E msgs : /\ Sends(r, x, msgs)
                            /\ Died(x, r.ses, msgs) \/ ClientTookInit(x, m, r.ses, msgs)
<1> DEFINE chosen == Chosen("client")
           begun == x.phase = "init"
           y == IF begun THEN x ELSE WithInit("client", ForgetExchange(x))
           z == [y EXCEPT !.ex = Exchange(y.ex.ck, Append(y.ex.sk, m.n), <<y.inits>>, y.ex.se),
                          !.phase = "dhdone"]
           init == [t |-> "ECDH_INIT", e |-> y.inits]
           msgs == IF begun THEN <<init>> ELSE <<KexInitMsg(y), init>>
           r == ClientKexInit(x, m)
<1>1. \/ \E why : why # "no" /\ r = Die(x, why)
      \/ Ok("client") /\ r = Step("client", z, msgs)
  <2>1. CASE chosen = <<>>
    BY <2>1, Zenon DEF ClientKexInit
  <2>2. CASE chosen # <<>> /\ chosen[1].kex \in Extensions
    BY <2>2, Zenon DEF ClientKexInit
  <2>3. CASE chosen # <<>> /\ chosen[1].kex \notin Extensions
    BY <2>3, Zenon DEF ClientKexInit, Ok
  <2> QED  BY <2>1, <2>2, <2>3
<1>2. CASE \E why : why # "no" /\ r = Die(x, why)
  <2>1. PICK why : why # "no" /\ r = Die(x, why)
    BY <1>2
  <2>2. r.out = <<>> /\ IsSession(r.ses) /\ Died(x, r.ses, <<>>)
    BY <2>1, DieFacts
  <2>3. Sends(r, x, <<>>)
    BY <2>2 DEF Sends, Packets
  <2> QED  BY <2>2, <2>3
<1>3. CASE Ok("client") /\ r = Step("client", z, msgs)
  <2>1. /\ IsSession(y) /\ KeepsKeys(x, y) /\ KeepsData(x, y)
        /\ y.end = x.end /\ y.strict = x.strict /\ y.loud = x.loud
        /\ y.rseq = x.rseq /\ y.wseq = x.wseq
        /\ begun => y.inits = x.inits /\ y.ex = x.ex
        /\ ~begun => y.inits = x.inits + 1 /\ y.ex = Exchange(<<y.inits>>, <<>>, <<>>, <<>>)
    BY WithInitFacts, Zenon DEF Sides, KeepsKeys, KeepsData
  <2> HIDE DEF y
  <2>2. /\ IsSession(z) /\ KeepsKeys(y, z) /\ KeepsData(y, z)
        /\ z.end = y.end /\ z.strict = y.strict /\ z.loud = y.loud
        /\ z.rseq = y.rseq /\ z.wseq = y.wseq /\ z.phase = "dhdone" /\ z.inits = y.inits
        /\ z.ex = Exchange(y.ex.ck, Append(y.ex.sk, m.n), <<y.inits>>, y.ex.se)
    BY <2>1, Zenon DEF IsSession, KeepsKeys, KeepsData
  <2> HIDE DEF z
  <2> DEFINE v == r.ses
  <2>3. /\ r.out = Packets(z.wkey, z.wseq, msgs)
        /\ IsSession(v) /\ v.wseq = z.wseq + Len(msgs)
        /\ KeepsKeys(z, v) /\ KeepsExchange(z, v) /\ KeepsData(z, v)
        /\ v.end = z.end /\ v.strict = z.strict /\ v.loud = z.loud /\ v.rseq = z.rseq
    <3> HIDE DEF msgs
    <3> QED  BY <1>3, <2>2, StepFacts
  <2> HIDE DEF v
  <2>4. msgs = IF begun THEN <<EI(v.inits)>> ELSE <<KI(v.inits), EI(v.inits)>>
    BY <2>2, <2>3 DEF KexInitMsg, EI, KI, KeepsExchange
  <2> HIDE DEF msgs
  <2>5. Sends(r, x, msgs)
    BY <2>1, <2>2, <2>3 DEF Sends, v, KeepsKeys
  <2>6. ClientTookInit(x, m, v, msgs)
    <3>1. /\ KeepsKeys(x, v) /\ KeepsData(x, v) /\ v.end = x.end /\ v.strict = x.strict
          /\ v.loud = x.loud /\ v.rseq = x.rseq /\ v.wseq = x.wseq + Len(msgs)
          /\ v.phase = "dhdone" /\ v.inits = y.inits /\ v.ex = z.ex
      BY <2>1, <2>2, <2>3 DEF KeepsKeys, KeepsData, KeepsExchange
    <3>2. CASE begun
      BY <3>1, <3>2, <1>3, <2>1, <2>2, <2>4 DEF ClientTookInit
    <3>3. CASE ~begun
      <4>1. /\ y.ex.ck = <<v.inits>> /\ y.ex.sk = <<>> /\ y.ex.se = <<>>
            /\ v.inits = x.inits + 1
        BY <3>1, <3>3, <2>1 DEF Exchange
      <4>2. v.ex = Exchange(<<v.inits>>, Append(<<>>, m.n), <<v.inits>>, <<>>)
        BY <4>1, <3>1, <2>2
      <4> QED  BY <3>1, <3>3, <4>1, <4>2, <1>3, <2>4 DEF ClientTookInit
    <3> QED  BY <3>2, <3>3
  <2> QED  BY <2>3, <2>5, <2>6 DEF v
<1> QED  BY <1>1, <1>2, <1>3

LEMMA ServerKexInitFacts ==
    ASSUME NEW x, IsSession(x), NEW m, m.t = "KEXINIT", x.phase \in {"init", "idle"}
    PROVE  LET r == ServerKexInit(x, m)
           IN  /\ IsSession(r.ses)
               /\ \E msgs : /\ Sends(r, x, msgs)
                            /\ Died(x, r.ses, msgs) \/ ServerTookInit(x, m, r.ses, msgs)
<1> DEFINE chosen == Chosen("server")
           begun == x.phase = "init"
           y == IF begun THEN x ELSE WithInit("server", ForgetExchange(x))
           z == [y EXCEPT !.ex = Exchange(Append(y.ex.ck, m.n), y.ex.sk, y.ex.ce, y.ex.se),
                          !.phase = "dh", !.strict = (x.enc /\ x.strict) \/ chosen[1].strict]
           msgs == IF begun THEN <<>> ELSE <<KexInitMsg(y)>>
           r == ServerKexInit(x, m)
<1>1. \/ \E why : why # "no" /\ r = Die(x, why)
      \/ Ok("server") /\ r = Step("server", z, msgs)
  <2>1. CASE chosen = <<>>
    BY <2>1, Zenon DEF ServerKexInit
  <2>2. CASE chosen # <<>>
    BY <2>2, Zenon DEF ServerKexInit, Ok
  <2> QED  BY <2>1, <2>2
<1>2. CASE \E why : why # "no" /\ r = Die(x, why)
  <2>1. PICK why : why # "no" /\ r = Die(x, why)
    BY <1>2
  <2>2. r.out = <<>> /\ IsSession(r.ses) /\ Died(x, r.ses, <<>>)
    BY <2>1, DieFacts
  <2>3. Sends(r, x, <<>>)
    BY <2>2 DEF Sends, Packets
  <2> QED  BY <2>2, <2>3
<1>3. CASE Ok("server") /\ r = Step("server", z, msgs)
  <2>1. /\ IsSession(y) /\ KeepsKeys(x, y) /\ KeepsData(x, y)
        /\ y.end = x.end /\ y.strict = x.strict /\ y.loud = x.loud
        /\ y.rseq = x.rseq /\ y.wseq = x.wseq
        /\ begun => y.inits = x.inits /\ y.ex = x.ex
        /\ ~begun => y.inits = x.inits + 1 /\ y.ex = Exchange(<<>>, <<y.inits>>, <<>>, <<>>)
    BY WithInitFacts, Zenon DEF Sides, KeepsKeys, KeepsData
  <2> HIDE DEF y
  <2>2. /\ IsSession(z) /\ KeepsKeys(y, z) /\ KeepsData(y, z)
        /\ z.end = y.end /\ z.loud = y.loud
        /\ z.strict = ((x.enc /\ x.strict) \/ chosen[1].strict)
        /\ z.rseq = y.rseq /\ z.wseq = y.wseq /\ z.phase = "dh" /\ z.inits = y.inits
        /\ z.ex = Exchange(Append(y.ex.ck, m.n), y.ex.sk, y.ex.ce, y.ex.se)
    BY <2>1, Zenon DEF IsSession, KeepsKeys, KeepsData
  <2> HIDE DEF z
  <2> DEFINE v == r.ses
  <2>3. /\ r.out = Packets(z.wkey, z.wseq, msgs)
        /\ IsSession(v) /\ v.wseq = z.wseq + Len(msgs)
        /\ KeepsKeys(z, v) /\ KeepsExchange(z, v) /\ KeepsData(z, v)
        /\ v.end = z.end /\ v.strict = z.strict /\ v.loud = z.loud /\ v.rseq = z.rseq
    <3> HIDE DEF msgs
    <3> QED  BY <1>3, <2>2, StepFacts
  <2> HIDE DEF v
  <2>4. msgs = IF begun THEN <<>> ELSE <<KI(v.inits)>>
    BY <2>2, <2>3 DEF KexInitMsg, KI, KeepsExchange
  <2> HIDE DEF msgs
  <2>5. Sends(r, x, msgs)
    BY <2>1, <2>2, <2>3 DEF Sends, v, KeepsKeys
  <2>6. ServerTookInit(x, m, v, msgs)
    <3>1. /\ KeepsKeys(x, v) /\ KeepsData(x, v) /\ v.end = x.end
          /\ v.strict = ((x.enc /\ x.strict) \/ chosen[1].strict)
          /\ v.loud = x.loud /\ v.rseq = x.rseq /\ v.wseq = x.wseq + Len(msgs)
          /\ v.phase = "dh" /\ v.inits = y.inits /\ v.ex = z.ex
      <4>1. KeepsKeys(x, v) /\ KeepsData(x, v)
        BY <2>1, <2>2, <2>3, Zenon DEF KeepsKeys, KeepsData
      <4> QED  BY <2>1, <2>2, <2>3, <4>1, Zenon DEF KeepsExchange
    <3>2. CASE begun
      BY <3>1, <3>2, <1>3, <2>1, <2>2, <2>4, Zenon DEF ServerTookInit
    <3>3. CASE ~begun
      <4>1. /\ y.ex.ck = <<>> /\ y.ex.sk = <<v.inits>> /\ y.ex.ce = <<>> /\ y.ex.se = <<>>
            /\ v.inits = x.inits + 1
        BY <3>1, <3>3, <2>1 DEF Exchange
      <4>2. v.ex = Exchange(Append(<<>>, m.n), <<v.inits>>, <<>>, <<>>)
        BY <4>1, <3>1, <2>2
      <4> QED  BY <3>1, <3>3, <4>1, <4>2, <1>3, <2>4, Zenon DEF ServerTookInit
    <3> QED  BY <3>2, <3>3
  <2> QED  BY <2>3, <2>5, <2>6 DEF v
<1> QED  BY <1>1, <1>2, <1>3

LEMMA ComputeKeysFacts ==
    ASSUME NEW s, NEW x, IsSession(x)
    PROVE  LET z == ComputeKeys(s, x)
           IN  /\ IsSession(z) /\ Computed(s, x, z) /\ z.ex = x.ex
               /\ z.strict = x.strict /\ z.wseq = x.wseq
<1> DEFINE z == ComputeKeys(s, x)
<1>1. /\ IsSession(z) /\ z.newkeys = <<Hash(s, x), SessionId(s, x), Chosen(s)[1]>>
      /\ z.sid = SessionId(s, x) /\ z.phase = "keys" /\ z.inits = x.inits
      /\ z.enc = x.enc /\ z.wkey = x.wkey /\ z.rkey = x.rkey
      /\ KeepsData(x, z) /\ z.end = x.end /\ z.loud = x.loud /\ z.rseq = x.rseq
      /\ z.ex = x.ex /\ z.strict = x.strict /\ z.wseq = x.wseq
  BY Zenon DEF IsSession, ComputeKeys, KeepsData
<1> HIDE DEF z
<1>2. Hash(s, z) = Hash(s, x)
  BY <1>1 DEF Hash
<1>3. SessionId(s, x) = IF x.sid = <<>> THEN Hash(s, x) ELSE x.sid
  BY DEF SessionId
<1>4. Computed(s, x, z)
  BY <1>1, <1>2, <1>3 DEF Computed
<1> QED  BY <1>1, <1>4 DEF z

LEMMA ResetFacts ==
    ASSUME NEW x, IsSession(x)
    PROVE  LET z == MaybeResetSeqn(x)
           IN  /\ IsSession(z) /\ KeepsKeys(x, z) /\ KeepsExchange(x, z) /\ KeepsData(x, z)
               /\ z.end = x.end /\ z.strict = x.strict /\ z.loud = x.loud /\ z.rseq = x.rseq
               /\ z.wseq = IF x.strict THEN 0 ELSE x.wseq
<1>1. CASE x.strict
  BY <1>1, Zenon DEF IsSession, MaybeResetSeqn, KeepsKeys, KeepsExchange, KeepsData
<1>2. CASE ~x.strict
  BY <1>2, Zenon DEF IsSession, MaybeResetSeqn, KeepsKeys, KeepsExchange, KeepsData
<1> QED  BY <1>1, <1>2

LEMMA ServerEcdhInitFacts ==
    ASSUME NEW x, IsSession(x), NEW m, m.t = "ECDH_INIT", x.phase = "dh"
    PROVE  LET r == ServerEcdhInit(x, m)
           IN  /\ IsSession(r.ses)
               /\ \E msgs : Sends(r, x, msgs) /\ ServerTookEcdh(x, m, r.ses, msgs)
<1> DEFINE w == [x EXCEPT !.ex = Exchange(x.ex.ck, x.ex.sk, Append(x.ex.ce, m.e), <<x.inits>>)]
           y == ComputeKeys("server", w)
           msgs == <<[t |-> "ECDH_REPLY", e |-> x.inits, hash |-> Hash("server", y)],
                     [t |-> "NEWKEYS"]>>
           step == Step("server", y, msgs)
           r == ServerEcdhInit(x, m)
           v == MaybeResetSeqn(step.ses)
<1>1. r.ses = v /\ r.out = step.out
  <2>1. r = [step EXCEPT !.ses = MaybeResetSeqn(@)]
    BY Zenon DEF ServerEcdhInit
  <2>2. step = [ses |-> [y EXCEPT !.wseq = y.wseq + Len(msgs)], out |-> Seal(y, msgs)]
    BY Zenon DEF Step
  <2>3. DOMAIN step = {"ses", "out"}
    <3> HIDE DEF y, msgs
    <3> QED  BY <2>2, Zenon
  <2> HIDE DEF step
  <2> QED  BY <2>1, <2>3, Zenon
<1>2. /\ IsSession(w) /\ w.ex = Exchange(x.ex.ck, x.ex.sk, Append(x.ex.ce, m.e), <<x.inits>>)
      /\ KeepsKeys(x, w) /\ KeepsData(x, w) /\ w.inits = x.inits
      /\ w.end = x.end /\ w.strict = x.strict /\ w.loud = x.loud
      /\ w.rseq = x.rseq /\ w.wseq = x.wseq
  BY Zenon DEF IsSession, KeepsKeys, KeepsData
<1> HIDE DEF w
<1>3. IsSession(y) /\ Computed("server", w, y) /\ y.ex = w.ex /\ y.strict = w.strict /\ y.wseq = w.wseq
  BY <1>2, ComputeKeysFacts
<1> HIDE DEF y
<1>4. msgs = <<ER(x.inits, Hash("server", y)), NK>>
  BY DEF ER, NK
<1> HIDE DEF msgs
<1>5. LET u == step.ses
      IN  /\ step.out = Packets(y.wkey, y.wseq, msgs)
          /\ IsSession(u) /\ u.wseq = y.wseq + Len(msgs)
          /\ KeepsKeys(y, u) /\ KeepsExchange(y, u) /\ KeepsData(y, u)
          /\ u.end = y.end /\ u.strict = y.strict /\ u.loud = y.loud /\ u.rseq = y.rseq
  BY <1>3, StepFacts
<1> HIDE DEF step
<1>6. LET u == step.ses
      IN  /\ IsSession(v) /\ KeepsKeys(u, v) /\ KeepsExchange(u, v) /\ KeepsData(u, v)
          /\ v.end = u.end /\ v.strict = u.strict /\ v.loud = u.loud /\ v.rseq = u.rseq
          /\ v.wseq = IF u.strict THEN 0 ELSE u.wseq
  BY <1>5, ResetFacts
<1> HIDE DEF v
<1>7. /\ KeepsKeys(y, v) /\ KeepsExchange(y, v) /\ KeepsData(y, v)
      /\ v.end = y.end /\ v.strict = y.strict /\ v.loud = y.loud /\ v.rseq = y.rseq
      /\ v.wseq = IF y.strict THEN 0 ELSE y.wseq + Len(msgs)
  BY <1>5, <1>6 DEF KeepsKeys, KeepsExchange, KeepsData
<1>8. Hash("server", v) = Hash("server", y)
  BY <1>7 DEF Hash, KeepsExchange
<1>9. Computed("server", x, v)
  BY <1>2, <1>3, <1>7, <1>8 DEF Computed, KeepsKeys, KeepsData, KeepsExchange
<1>10. ServerTookEcdh(x, m, v, msgs)
  <2>1. v.ex = w.ex /\ v.strict = x.strict /\ v.wseq = IF x.strict THEN 0 ELSE x.wseq + Len(msgs)
    BY <1>2, <1>3, <1>7 DEF KeepsExchange
  <2> QED  BY <2>1, <1>2, <1>4, <1>8, <1>9 DEF ServerTookEcdh
<1>11. Sends(r, x, msgs)
  BY <1>1, <1>2, <1>3, <1>5, <1>7 DEF Sends, KeepsKeys
<1> QED  BY <1>1, <1>6, <1>10, <1>11

LEMMA ClientEcdhReplyFacts ==
    ASSUME NEW x, IsSession(x), NEW m, m.t = "ECDH_REPLY", x.phase = "dhdone"
    PROVE  LET r == ClientEcdhReply(x, m)
           IN  /\ IsSession(r.ses)
               /\ \E msgs : /\ Sends(r, x, msgs)
                            /\ Died(x, r.ses, msgs) \/ ClientTookReply(x, m, r.ses, msgs)
<1> DEFINE w == [x EXCEPT !.ex = Exchange(x.ex.ck, x.ex.sk, x.ex.ce, Append(x.ex.se, m.e))]
           k == ComputeKeys("client", w)
           y == [k EXCEPT !.strict = x.strict \/ Chosen("client")[1].strict]
           msgs == <<NK>>
           step == Step("client", y, msgs)
           r == ClientEcdhReply(x, m)
           v == MaybeResetSeqn(step.ses)
<1>1. \/ r = Die(x, "wrong signature")
      \/ m.hash = Hash("client", w) /\ r.ses = v /\ r.out = step.out
  <2>1. CASE m.hash # Hash("client", w)
    BY <2>1, Zenon DEF ClientEcdhReply
  <2>2. CASE m.hash = Hash("client", w)
    <3>1. r = [step EXCEPT !.ses = MaybeResetSeqn(@)]
      BY <2>2, Zenon DEF ClientEcdhReply, NK
    <3>2. step = [ses |-> [y EXCEPT !.wseq = y.wseq + Len(msgs)], out |-> Seal(y, msgs)]
      BY Zenon DEF Step
    <3>3. DOMAIN step = {"ses", "out"}
      <4> HIDE DEF y, msgs
      <4> QED  BY <3>2, Zenon
    <3> HIDE DEF step
    <3>4. r.ses = v /\ r.out = step.out
      BY <3>1, <3>3, Zenon
    <3> QED  BY <3>4, <2>2, Zenon
  <2> QED  BY <2>1, <2>2
<1>2. CASE r = Die(x, "wrong signature")
  <2>1. "wrong signature" # "no"
    OBVIOUS
  <2>2. r.out = <<>> /\ IsSession(r.ses) /\ Died(x, r.ses, <<>>)
    <3>1. \A why : why # "no" => LET q == Die(x, why)
                                IN  q.out = <<>> /\ IsSession(q.ses) /\ Died(x, q.ses, <<>>)
      BY DieFacts
    <3> HIDE DEF r
    <3> QED  BY <1>2, <2>1, <3>1
  <2>3. Sends(r, x, <<>>)
    BY <2>2 DEF Sends, Packets
  <2> QED  BY <2>2, <2>3
<1>3. CASE m.hash = Hash("client", w) /\ r.ses = v /\ r.out = step.out
  <2>2. /\ IsSession(w) /\ w.ex = Exchange(x.ex.ck, x.ex.sk, x.ex.ce, Append(x.ex.se, m.e))
        /\ KeepsKeys(x, w) /\ KeepsData(x, w) /\ w.inits = x.inits
        /\ w.end = x.end /\ w.strict = x.strict /\ w.loud = x.loud
        /\ w.rseq = x.rseq /\ w.wseq = x.wseq
    BY Zenon DEF IsSession, KeepsKeys, KeepsData
  <2> HIDE DEF w
  <2>3. IsSession(k) /\ Computed("client", w, k) /\ k.ex = w.ex /\ k.strict = w.strict /\ k.wseq = w.wseq
    BY <2>2, ComputeKeysFacts
  <2> HIDE DEF k
  <2>4. /\ IsSession(y) /\ KeepsKeys(k, y) /\ KeepsExchange(k, y) /\ KeepsData(k, y)
        /\ y.end = k.end /\ y.loud = k.loud /\ y.rseq = k.rseq /\ y.wseq = k.wseq
        /\ y.strict = (x.strict \/ Chosen("client")[1].strict)
    BY <2>3, Zenon DEF IsSession, KeepsKeys, KeepsExchange, KeepsData
  <2> HIDE DEF y
  <2> HIDE DEF msgs
  <2>5. LET u == step.ses
        IN  /\ step.out = Packets(y.wkey, y.wseq, msgs)
            /\ IsSession(u) /\ u.wseq = y.wseq + Len(msgs)
            /\ KeepsKeys(y, u) /\ KeepsExchange(y, u) /\ KeepsData(y, u)
            /\ u.end = y.end /\ u.strict = y.strict /\ u.loud = y.loud /\ u.rseq = y.rseq
    BY <2>4, StepFacts
  <2> HIDE DEF step
  <2>6. LET u == step.ses
        IN  /\ IsSession(v) /\ KeepsKeys(u, v) /\ KeepsExchange(u, v) /\ KeepsData(u, v)
            /\ v.end = u.end /\ v.strict = u.strict /\ v.loud = u.loud /\ v.rseq = u.rseq
            /\ v.wseq = IF u.strict THEN 0 ELSE u.wseq
    BY <2>5, ResetFacts
  <2> HIDE DEF v
  <2>7. /\ KeepsKeys(k, v) /\ KeepsExchange(k, v) /\ KeepsData(k, v)
        /\ v.end = k.end /\ v.loud = k.loud /\ v.rseq = k.rseq
    BY <2>4, <2>5, <2>6 DEF KeepsKeys, KeepsExchange, KeepsData
  <2>8. v.strict = (x.strict \/ Chosen("client")[1].strict)
    BY <2>4, <2>5, <2>6, Zenon
  <2>9. v.wseq = IF v.strict THEN 0 ELSE x.wseq + Len(msgs)
    BY <2>2, <2>3, <2>4, <2>5, <2>6
  <2>10. Hash("client", v) = Hash("client", k) /\ Hash("client", v) = Hash("client", w)
    BY <2>3, <2>7 DEF Hash, KeepsExchange
  <2>11. Computed("client", x, v)
    BY <2>2, <2>3, <2>7, <2>10 DEF Computed, KeepsKeys, KeepsData, KeepsExchange
  <2>12. v.ex = Exchange(x.ex.ck, x.ex.sk, x.ex.ce, Append(x.ex.se, m.e)) /\ m.hash = Hash("client", v)
    BY <1>3, <2>2, <2>3, <2>7, <2>10 DEF KeepsExchange
  <2>13. ClientTookReply(x, m, v, msgs)
    BY <2>8, <2>9, <2>11, <2>12, Zenon DEF ClientTookReply, msgs
  <2>14. Sends(r, x, msgs)
    BY <1>3, <2>2, <2>3, <2>4, <2>5, <2>7 DEF Sends, KeepsKeys
  <2> QED  BY <1>3, <2>6, <2>13, <2>14
<1> QED  BY <1>1, <1>2, <1>3

LEMMA NewKeysFacts ==
    ASSUME NEW s, NEW x, IsSession(x), NEW m, m.t = "NEWKEYS", x.phase = "keys"
    PROVE  LET r == NewKeys(s, x)
           IN  /\ IsSession(r.ses)
               /\ \E msgs : Sends(r, x, msgs) /\ TookKeys(s, x, m, r.ses, msgs)
<1> DEFINE p == [Process(x, x.stash) EXCEPT !.stash = NothingAside]
           y == UseKeys(s, p)
           z == IF y.strict THEN [y EXCEPT !.rseq = 0] ELSE y
           msgs == ExtInfo(s, x) \o Answers(x.stash)
           r == NewKeys(s, x)
           v == r.ses
<1>1. r = Step(s, z, msgs)
  BY Zenon DEF NewKeys
<1>2. /\ IsSession(p) /\ KeepsKeys(x, p) /\ KeepsExchange(x, p) /\ p.sent = x.sent
      /\ p.got = x.got \o x.stash.data /\ p.stash = NothingAside
      /\ p.end = x.end /\ p.strict = x.strict /\ p.loud = x.loud
      /\ p.rseq = x.rseq /\ p.wseq = x.wseq
  BY Zenon DEF IsSession, Process, KeepsKeys, KeepsExchange
<1> HIDE DEF p
<1>3. /\ IsSession(y) /\ KeepsData(p, y) /\ y.phase = "idle" /\ y.enc = TRUE
      /\ y.wkey = p.newkeys /\ y.rkey = p.newkeys
      /\ y.newkeys = p.newkeys /\ y.sid = p.sid /\ y.ex = p.ex /\ y.inits = p.inits
      /\ y.end = p.end /\ y.loud = p.loud /\ y.rseq = p.rseq /\ y.wseq = p.wseq
      /\ y.strict = ((p.enc /\ p.strict) \/ Chosen(s)[1].strict)
  BY <1>2, Zenon DEF IsSession, UseKeys, KeepsData
<1> HIDE DEF y
<1>4. /\ IsSession(z) /\ KeepsData(y, z) /\ KeepsKeys(y, z) /\ KeepsExchange(y, z)
      /\ z.end = y.end /\ z.loud = y.loud /\ z.wseq = y.wseq /\ z.strict = y.strict
      /\ z.rseq = IF y.strict THEN 0 ELSE y.rseq
  <2>1. CASE y.strict
    BY <2>1, <1>3, Zenon DEF IsSession, KeepsData, KeepsKeys, KeepsExchange
  <2>2. CASE ~y.strict
    BY <2>2, <1>3, Zenon DEF IsSession, KeepsData, KeepsKeys, KeepsExchange
  <2> QED  BY <2>1, <2>2
<1> HIDE DEF z, msgs
<1>5. /\ r.out = Packets(z.wkey, z.wseq, msgs)
      /\ IsSession(v) /\ v.wseq = z.wseq + Len(msgs)
      /\ KeepsKeys(z, v) /\ KeepsExchange(z, v) /\ KeepsData(z, v)
      /\ v.end = z.end /\ v.strict = z.strict /\ v.loud = z.loud /\ v.rseq = z.rseq
  BY <1>1, <1>4, StepFacts
<1> HIDE DEF v
<1>6. /\ v.wkey = x.newkeys /\ v.rkey = x.newkeys
      /\ v.newkeys = x.newkeys /\ v.sid = x.sid /\ v.ex = x.ex /\ v.inits = x.inits
      /\ v.got = x.got \o x.stash.data /\ v.stash = NothingAside /\ v.sent = x.sent
      /\ v.end = x.end /\ v.loud = x.loud /\ v.phase = "idle"
      /\ v.rseq = (IF v.strict THEN 0 ELSE x.rseq)
      /\ v.wseq = x.wseq + Len(msgs)
  BY <1>2, <1>3, <1>4, <1>5 DEF KeepsKeys, KeepsExchange, KeepsData
<1>7. v.enc = TRUE /\ v.strict = ((x.enc /\ x.strict) \/ Chosen(s)[1].strict)
  BY <1>2, <1>3, <1>4, <1>5, Zenon DEF KeepsKeys
<1>8. TookKeys(s, x, m, v, msgs)
  BY <1>6, <1>7, Zenon DEF TookKeys, msgs
<1>9. Sends(r, x, msgs)
  BY <1>2, <1>3, <1>4, <1>5 DEF Sends, KeepsKeys, v
<1> QED  BY <1>5, <1>8, <1>9 DEF v

LEMMA ProcessFacts ==
    ASSUME NEW x, IsSession(x), NEW p
    PROVE  LET y == Process(x, p)
           IN  /\ IsSession(y) /\ KeepsKeys(x, y) /\ KeepsExchange(x, y)
               /\ y.got = x.got \o p.data /\ y.stash = x.stash /\ y.sent = x.sent
               /\ y.end = x.end /\ y.strict = x.strict /\ y.loud = x.loud
               /\ y.rseq = x.rseq /\ y.wseq = x.wseq
BY Zenon DEF IsSession, Process, KeepsKeys, KeepsExchange

LEMMA OtherPacketFacts ==
    ASSUME NEW s, NEW x, IsSession(x), NEW m, m.t \in Others
    PROVE  LET r == OtherPacket(s, x, m)
           IN  /\ IsSession(r.ses)
               /\ \E msgs : /\ Sends(r, x, msgs)
                            /\ \/ Died(x, r.ses, msgs) \/ TookOther(x, m, r.ses, msgs)
                               \/ KeptOther(x, m, r.ses, msgs)
<1> DEFINE r == OtherPacket(s, x, m)
           p == PutAside(NothingAside, m)
           y == Process(x, p)
           k == [x EXCEPT !.stash = PutAside(x.stash, m)]
<1>1. \/ \E why : why # "no" /\ r = Die(x, why)
      \/ x.enc /\ x.phase = "idle" /\ r = Step(s, y, Answers(p))
      \/ x.enc /\ x.phase = "init" /\ x.stash.size # PendingMax /\ r = [ses |-> k, out |-> <<>>]
  <2>1. CASE x.enc /\ x.phase = "idle"
    <3>1. x.phase # "init"
      BY <2>1
    <3>2. r = Step(s, y, Answers(p))
      BY <2>1, <3>1, Zenon DEF OtherPacket
    <3> QED  BY <3>2, <2>1
  <2>2. CASE x.enc /\ x.phase = "init"
    <3>1. x.phase # "idle"
      BY <2>2
    <3>2. r = IF x.stash.size = PendingMax THEN Die(x, "pending") ELSE [ses |-> k, out |-> <<>>]
      BY <2>2, <3>1, Zenon DEF OtherPacket
    <3>3. "pending" # "no"
      OBVIOUS
    <3>4. CASE x.stash.size = PendingMax
      BY <3>2, <3>3, <3>4, Zenon
    <3>5. CASE x.stash.size # PendingMax
      BY <3>2, <3>5, <2>2, Zenon
    <3> QED  BY <3>4, <3>5
  <2>3. CASE ~(x.enc /\ x.phase = "idle") /\ ~(x.enc /\ x.phase = "init")
    <3>1. r = Die(x, "wrong packet")
      BY <2>3, Zenon DEF OtherPacket
    <3>2. "wrong packet" # "no"
      OBVIOUS
    <3> QED  BY <3>1, <3>2
  <2> QED  BY <2>1, <2>2, <2>3
<1>2. CASE \E why : why # "no" /\ r = Die(x, why)
  <2>1. PICK why : why # "no" /\ r = Die(x, why)
    BY <1>2
  <2>2. r.out = <<>> /\ IsSession(r.ses) /\ Died(x, r.ses, <<>>)
    BY <2>1, DieFacts
  <2>3. Sends(r, x, <<>>)
    BY <2>2 DEF Sends, Packets
  <2> QED  BY <2>2, <2>3
<1>3. CASE x.enc /\ x.phase = "idle" /\ r = Step(s, y, Answers(p))
  <2>1. /\ IsSession(y) /\ KeepsKeys(x, y) /\ KeepsExchange(x, y)
        /\ y.got = x.got \o p.data /\ y.stash = x.stash /\ y.sent = x.sent
        /\ y.end = x.end /\ y.strict = x.strict /\ y.loud = x.loud
        /\ y.rseq = x.rseq /\ y.wseq = x.wseq
    BY ProcessFacts
  <2> HIDE DEF y
  <2> DEFINE v == r.ses
             msgs == Answers(p)
  <2>2. /\ r.out = Packets(y.wkey, y.wseq, msgs)
        /\ IsSession(v) /\ v.wseq = y.wseq + Len(msgs)
        /\ KeepsKeys(y, v) /\ KeepsExchange(y, v) /\ KeepsData(y, v)
        /\ v.end = y.end /\ v.strict = y.strict /\ v.loud = y.loud /\ v.rseq = y.rseq
    <3> HIDE DEF msgs
    <3>1. r = Step(s, y, msgs)
      BY <1>3 DEF msgs
    <3> QED  BY <3>1, <2>1, StepFacts
  <2> HIDE DEF v, msgs, r
  <2>3. /\ KeepsKeys(x, v) /\ KeepsExchange(x, v)
        /\ v.got = x.got \o p.data /\ v.stash = x.stash
        /\ v.sent = x.sent /\ v.end = x.end /\ v.loud = x.loud /\ v.strict = x.strict
        /\ v.rseq = x.rseq /\ v.wseq = x.wseq + Len(msgs)
    BY <2>1, <2>2 DEF KeepsKeys, KeepsExchange, KeepsData
  <2>4. TookOther(x, m, v, msgs)
    BY <2>3, <1>3, Zenon DEF TookOther, msgs
  <2>5. Sends(r, x, msgs)
    BY <2>1, <2>2 DEF Sends, KeepsKeys, v
  <2> QED  BY <2>2, <2>4, <2>5 DEF v, r
<1>4. CASE x.enc /\ x.phase = "init" /\ x.stash.size # PendingMax /\ r = [ses |-> k, out |-> <<>>]
  <2>1. /\ IsSession(k) /\ KeepsKeys(x, k) /\ KeepsExchange(x, k)
        /\ k.stash = PutAside(x.stash, m) /\ k.got = x.got
        /\ k.sent = x.sent /\ k.end = x.end /\ k.loud = x.loud /\ k.strict = x.strict
        /\ k.rseq = x.rseq /\ k.wseq = x.wseq
    BY Zenon DEF IsSession, KeepsKeys, KeepsExchange
  <2> HIDE DEF k
  <2>2. r.ses = k /\ r.out = <<>>
    <3> HIDE DEF r
    <3> QED  BY <1>4
  <2>3. KeptOther(x, m, k, <<>>)
    BY <2>1, <1>4, Zenon DEF KeptOther
  <2>4. Sends(r, x, <<>>)
    BY <2>2 DEF Sends, Packets
  <2> QED  BY <2>1, <2>2, <2>3, <2>4
<1> QED  BY <1>1, <1>2, <1>3, <1>4

-----------------------------------------------------------------------------
\* Sequences, whatever they hold.

IsSeq(v) == \E S : v \in Seq(S)

LEMMA SeqMake ==
    ASSUME NEW a, NEW b
    PROVE  IsSeq(<<>>) /\ IsSeq(<<a>>) /\ IsSeq(<<a, b>>)
<1>1. <<>> \in Seq({a, b}) /\ <<a>> \in Seq({a, b}) /\ <<a, b>> \in Seq({a, b})
  OBVIOUS
<1> QED  BY <1>1, Zenon DEF IsSeq

LEMMA SeqJoin ==
    ASSUME NEW v, NEW w, IsSeq(v), IsSeq(w)
    PROVE  /\ IsSeq(v \o w) /\ Len(v \o w) = Len(v) + Len(w)
           /\ Len(v) \in Nat /\ Len(w) \in Nat
           /\ DOMAIN v = 1 .. Len(v) /\ DOMAIN w = 1 .. Len(w)
           /\ DOMAIN (v \o w) = 1 .. Len(v \o w)
           /\ \A i \in DOMAIN v : (v \o w)[i] = v[i]
           /\ \A i \in DOMAIN w : (v \o w)[Len(v) + i] = w[i]
           /\ w = <<>> => v \o w = v
<1>1. PICK S : v \in Seq(S)
  BY DEF IsSeq
<1>2. PICK T : w \in Seq(T)
  BY DEF IsSeq
<1>3. v \in Seq(S \cup T) /\ w \in Seq(S \cup T)
  BY <1>1, <1>2
<1>4. v \o w \in Seq(S \cup T)
  BY <1>3
<1> QED  BY <1>3, <1>4 DEF IsSeq

LEMMA SeqAppend ==
    ASSUME NEW v, NEW e, IsSeq(v)
    PROVE  /\ IsSeq(Append(v, e)) /\ Append(v, e) = v \o <<e>>
<1>1. PICK S : v \in Seq(S)
  BY DEF IsSeq
<1>2. v \in Seq(S \cup {e})
  BY <1>1
<1>3. Append(v, e) \in Seq(S \cup {e}) /\ Append(v, e) = v \o <<e>>
  BY <1>2
<1> QED  BY <1>3 DEF IsSeq

LEMMA SeqTail ==
    ASSUME NEW w, IsSeq(w), w # <<>>
    PROVE  /\ IsSeq(Tail(w)) /\ Len(w) \in Nat \ {0} /\ Len(Tail(w)) = Len(w) - 1
           /\ DOMAIN w = 1 .. Len(w) /\ DOMAIN Tail(w) = 1 .. Len(Tail(w))
           /\ Head(w) = w[1]
           /\ \A i \in DOMAIN Tail(w) : Tail(w)[i] = w[i + 1]
<1>1. PICK S : w \in Seq(S)
  BY DEF IsSeq
<1>2. Tail(w) \in Seq(S)
  BY <1>1
<1> QED  BY <1>1, <1>2 DEF IsSeq

LEMMA PacketFacts ==
    ASSUME NEW key, NEW n, NEW msgs, IsSeq(msgs)
    PROVE  LET o == Packets(key, n, msgs)
           IN  /\ IsSeq(o) /\ Len(o) = Len(msgs) /\ DOMAIN o = DOMAIN msgs
               /\ \A i \in DOMAIN msgs :
                     o[i].msg = msgs[i] /\ o[i].key = key /\ o[i].seq = n + i - 1
               /\ msgs = <<>> => o = <<>>
<1> DEFINE o == Packets(key, n, msgs)
           P(i) == [msg |-> msgs[i], key |-> key, seq |-> n + i - 1]
           S == {P(i) : i \in 1 .. Len(msgs)}
<1>1. PICK T : msgs \in Seq(T)
  BY DEF IsSeq
<1>2. Len(msgs) \in Nat /\ DOMAIN msgs = 1 .. Len(msgs)
  BY <1>1
<1>3. o = [i \in 1 .. Len(msgs) |-> P(i)]
  BY DEF Packets
<1>4. \A i \in 1 .. Len(msgs) : P(i) \in S
  OBVIOUS
<1>5. \A i : P(i).msg = msgs[i] /\ P(i).key = key /\ P(i).seq = n + i - 1
  OBVIOUS
<1> HIDE DEF P, S
<1>6. o \in Seq(S) /\ Len(o) = Len(msgs)
  BY <1>2, <1>3, <1>4
<1>7. DOMAIN o = DOMAIN msgs /\ \A i \in DOMAIN msgs : o[i] = P(i)
  BY <1>2, <1>3
<1>8. msgs = <<>> => o = <<>>
  BY <1>6
<1> HIDE DEF o
<1>9. IsSeq(o)
  BY <1>6 DEF IsSeq
<1> QED  BY <1>5, <1>6, <1>7, <1>8, <1>9 DEF o

-----------------------------------------------------------------------------
\* Steps.

\* x with its read number advanced.
Advanced(x, y) ==
    /\ KeepsKeys(x, y) /\ KeepsExchange(x, y) /\ KeepsData(x, y)
    /\ y.end = x.end /\ y.strict = x.strict /\ y.loud = x.loud
    /\ y.wseq = x.wseq /\ y.rseq = x.rseq + 1

\* Side s has handled message m.
Took(s, x, m, z, msgs) ==
    \/ Died(x, z, msgs) \/ TookKeys(s, x, m, z, msgs)
    \/ TookOther(x, m, z, msgs) \/ KeptOther(x, m, z, msgs)
    \/ s = "client" /\ ClientTookInit(x, m, z, msgs)
    \/ s = "client" /\ ClientTookReply(x, m, z, msgs)
    \/ s = "server" /\ ServerTookInit(x, m, z, msgs)
    \/ s = "server" /\ ServerTookEcdh(x, m, z, msgs)

LEMMA ClientTook ==
    ASSUME NEW x, IsSession(x), NEW m
    PROVE  LET r == ClientReply(x, m)
           IN  /\ IsSession(r.ses)
               /\ \E msgs : Sends(r, x, msgs) /\ Took("client", x, m, r.ses, msgs)
<1> DEFINE r == ClientReply(x, m)
<1>1. CASE m.t = "KEXINIT" /\ x.phase \in {"init", "idle"}
  <2>1. m.t # "ECDH_REPLY" /\ m.t # "NEWKEYS" /\ m.t \notin Others
    BY <1>1 DEF Others
  <2>2. r = ClientKexInit(x, m)
    BY <1>1, <2>1, Zenon DEF ClientReply
  <2>3. /\ IsSession(ClientKexInit(x, m).ses)
        /\ \E msgs : /\ Sends(ClientKexInit(x, m), x, msgs)
                     /\ Took("client", x, m, ClientKexInit(x, m).ses, msgs)
    BY <1>1, ClientKexInitFacts, Zenon DEF Took
  <2> HIDE DEF r
  <2> QED  BY <2>2, <2>3, Zenon DEF r
<1>2. CASE m.t = "ECDH_REPLY" /\ x.phase = "dhdone"
  <2>1. m.t # "KEXINIT" /\ m.t # "NEWKEYS" /\ m.t \notin Others
    BY <1>2 DEF Others
  <2>2. r = ClientEcdhReply(x, m)
    BY <1>2, <2>1, Zenon DEF ClientReply
  <2>3. /\ IsSession(ClientEcdhReply(x, m).ses)
        /\ \E msgs : /\ Sends(ClientEcdhReply(x, m), x, msgs)
                     /\ Took("client", x, m, ClientEcdhReply(x, m).ses, msgs)
    BY <1>2, ClientEcdhReplyFacts, Zenon DEF Took
  <2> QED  BY <2>2, <2>3, Zenon
<1>3. CASE m.t = "NEWKEYS" /\ x.phase = "keys"
  <2>1. m.t # "KEXINIT" /\ m.t # "ECDH_REPLY" /\ m.t \notin Others
    BY <1>3 DEF Others
  <2>2. r = NewKeys("client", x)
    BY <1>3, <2>1, Zenon DEF ClientReply
  <2>3. /\ IsSession(NewKeys("client", x).ses)
        /\ \E msgs : /\ Sends(NewKeys("client", x), x, msgs)
                     /\ Took("client", x, m, NewKeys("client", x).ses, msgs)
    BY <1>3, NewKeysFacts, Zenon DEF Took
  <2> QED  BY <2>2, <2>3, Zenon
<1>4. CASE m.t \in Others
  <2>1. m.t # "KEXINIT" /\ m.t # "ECDH_REPLY" /\ m.t # "NEWKEYS"
    BY <1>4 DEF Others
  <2>2. r = OtherPacket("client", x, m)
    BY <1>4, <2>1, Zenon DEF ClientReply
  <2>3. /\ IsSession(OtherPacket("client", x, m).ses)
        /\ \E msgs : /\ Sends(OtherPacket("client", x, m), x, msgs)
                     /\ Took("client", x, m, OtherPacket("client", x, m).ses, msgs)
    BY <1>4, OtherPacketFacts, Zenon DEF Took
  <2> QED  BY <2>2, <2>3, Zenon
<1>5. CASE /\ ~(m.t = "KEXINIT" /\ x.phase \in {"init", "idle"})
           /\ ~(m.t = "ECDH_REPLY" /\ x.phase = "dhdone")
           /\ ~(m.t = "NEWKEYS" /\ x.phase = "keys") /\ m.t \notin Others
  <2>1. r = Die(x, "wrong packet")
    BY <1>5, Zenon DEF ClientReply
  <2>2. "wrong packet" # "no"
    OBVIOUS
  <2>3. \A why : why # "no" => LET q == Die(x, why)
                               IN  q.out = <<>> /\ IsSession(q.ses) /\ Died(x, q.ses, <<>>)
    BY DieFacts
  <2> HIDE DEF r
  <2>4. r.out = <<>> /\ IsSession(r.ses) /\ Died(x, r.ses, <<>>)
    BY <2>1, <2>2, <2>3
  <2>5. Sends(r, x, <<>>)
    BY <2>4 DEF Sends, Packets
  <2> QED  BY <2>4, <2>5, Zenon DEF r, Took
<1> QED  BY <1>1, <1>2, <1>3, <1>4, <1>5

LEMMA ServerTook ==
    ASSUME NEW x, IsSession(x), NEW m
    PROVE  LET r == ServerReply(x, m)
           IN  /\ IsSession(r.ses)
               /\ \E msgs : Sends(r, x, msgs) /\ Took("server", x, m, r.ses, msgs)
<1> DEFINE r == ServerReply(x, m)
<1>1. CASE m.t = "KEXINIT" /\ x.phase \in {"init", "idle"}
  <2>1. m.t # "ECDH_INIT" /\ m.t # "NEWKEYS" /\ m.t \notin Others
    BY <1>1 DEF Others
  <2>2. r = ServerKexInit(x, m)
    BY <1>1, <2>1, Zenon DEF ServerReply
  <2>3. /\ IsSession(ServerKexInit(x, m).ses)
        /\ \E msgs : /\ Sends(ServerKexInit(x, m), x, msgs)
                     /\ Took("server", x, m, ServerKexInit(x, m).ses, msgs)
    BY <1>1, ServerKexInitFacts, Zenon DEF Took
  <2> HIDE DEF r
  <2> QED  BY <2>2, <2>3, Zenon DEF r
<1>2. CASE m.t = "ECDH_INIT" /\ x.phase = "dh"
  <2>1. m.t # "KEXINIT" /\ m.t # "NEWKEYS" /\ m.t \notin Others
    BY <1>2 DEF Others
  <2>2. r = ServerEcdhInit(x, m)
    BY <1>2, <2>1, Zenon DEF ServerReply
  <2>3. /\ IsSession(ServerEcdhInit(x, m).ses)
        /\ \E msgs : /\ Sends(ServerEcdhInit(x, m), x, msgs)
                     /\ Took("server", x, m, ServerEcdhInit(x, m).ses, msgs)
    BY <1>2, ServerEcdhInitFacts, Zenon DEF Took
  <2> QED  BY <2>2, <2>3, Zenon
<1>3. CASE m.t = "NEWKEYS" /\ x.phase = "keys"
  <2>1. m.t # "KEXINIT" /\ m.t # "ECDH_INIT" /\ m.t \notin Others
    BY <1>3 DEF Others
  <2>2. r = NewKeys("server", x)
    BY <1>3, <2>1, Zenon DEF ServerReply
  <2>3. /\ IsSession(NewKeys("server", x).ses)
        /\ \E msgs : /\ Sends(NewKeys("server", x), x, msgs)
                     /\ Took("server", x, m, NewKeys("server", x).ses, msgs)
    BY <1>3, NewKeysFacts, Zenon DEF Took
  <2> QED  BY <2>2, <2>3, Zenon
<1>4. CASE m.t \in Others
  <2>1. m.t # "KEXINIT" /\ m.t # "ECDH_INIT" /\ m.t # "NEWKEYS"
    BY <1>4 DEF Others
  <2>2. r = OtherPacket("server", x, m)
    BY <1>4, <2>1, Zenon DEF ServerReply
  <2>3. /\ IsSession(OtherPacket("server", x, m).ses)
        /\ \E msgs : /\ Sends(OtherPacket("server", x, m), x, msgs)
                     /\ Took("server", x, m, OtherPacket("server", x, m).ses, msgs)
    BY <1>4, OtherPacketFacts, Zenon DEF Took
  <2> QED  BY <2>2, <2>3, Zenon
<1>5. CASE /\ ~(m.t = "KEXINIT" /\ x.phase \in {"init", "idle"})
           /\ ~(m.t = "ECDH_INIT" /\ x.phase = "dh")
           /\ ~(m.t = "NEWKEYS" /\ x.phase = "keys") /\ m.t \notin Others
  <2>1. r = Die(x, "wrong packet")
    BY <1>5, Zenon DEF ServerReply
  <2>2. "wrong packet" # "no"
    OBVIOUS
  <2>3. \A why : why # "no" => LET q == Die(x, why)
                               IN  q.out = <<>> /\ IsSession(q.ses) /\ Died(x, q.ses, <<>>)
    BY DieFacts
  <2> HIDE DEF r
  <2>4. r.out = <<>> /\ IsSession(r.ses) /\ Died(x, r.ses, <<>>)
    BY <2>1, <2>2, <2>3
  <2>5. Sends(r, x, <<>>)
    BY <2>4 DEF Sends, Packets
  <2> QED  BY <2>4, <2>5, Zenon DEF r, Took
<1> QED  BY <1>1, <1>2, <1>3, <1>4, <1>5

\* Side s has acted of its own accord.
Rekeyed(s, x, z, msgs) ==
    /\ x.enc /\ x.phase = "idle" /\ z.phase = "init" /\ z.inits = x.inits + 1
    /\ z.ex = (IF s = "client" THEN Exchange(<<z.inits>>, <<>>, <<>>, <<>>)
               ELSE Exchange(<<>>, <<z.inits>>, <<>>, <<>>))
    /\ msgs = <<KI(z.inits)>>
    /\ KeepsKeys(x, z) /\ KeepsData(x, z)
    /\ z.end = x.end /\ z.strict = x.strict /\ z.loud = x.loud
    /\ z.rseq = x.rseq /\ z.wseq = x.wseq + Len(msgs)

SentData(x, z, msgs) ==
    /\ x.enc /\ x.phase = "idle" /\ z.sent = x.sent + 1
    /\ msgs = <<[t |-> "DATA", n |-> x.sent + 1]>>
    /\ KeepsKeys(x, z) /\ KeepsExchange(x, z) /\ z.got = x.got /\ z.stash = x.stash
    /\ z.end = x.end /\ z.strict = x.strict /\ z.loud = x.loud
    /\ z.rseq = x.rseq /\ z.wseq = x.wseq + Len(msgs)

Beat(x, z, msgs) ==
    /\ x.enc /\ z.loud = (x.loud \/ x.phase # "idle")
    /\ msgs = <<[t |-> "KEEPALIVE"]>>
    /\ KeepsKeys(x, z) /\ KeepsExchange(x, z) /\ KeepsData(x, z)
    /\ z.end = x.end /\ z.strict = x.strict
    /\ z.rseq = x.rseq /\ z.wseq = x.wseq + Len(msgs)

Did(s, x, z, msgs) ==
    \/ Rekeyed(s, x, z, msgs) \/ SentData(x, z, msgs) \/ Beat(x, z, msgs)
    \/ Died(x, z, msgs)

\* The sessions and the wires are what they are.
Shaped ==
    /\ ses = [s \in Sides |-> ses[s]] /\ wire = [s \in Sides |-> wire[s]]
    /\ \A s \in Sides : IsSession(ses[s]) /\ IsSeq(wire[s])

\* What side s has written after a step.
Written(s, z, msgs) == wire[s] \o Packets(z.wkey, ses[s].wseq, msgs)

\* Side s has become z, has written msgs, and the peer's wire is now w.
Stepped(s, z, msgs, w) ==
    /\ ses[s].end = "no" /\ IsSession(z)
    /\ ses' = [ses EXCEPT ![s] = z]
    /\ wire' = [wire EXCEPT ![s] = Written(s, z, msgs), ![Peer(s)] = w]
    /\ prefs' = prefs

ReadStep(s, z, msgs) ==
    LET w == wire[Peer(s)]
    IN  /\ w # <<>> /\ Stepped(s, z, msgs, Tail(w))
        /\ \E x : /\ Advanced(ses[s], x) /\ Took(s, x, Head(w).msg, z, msgs)
                  /\ Opens(ses[s], Head(w)) \/ Died(x, z, msgs)

OwnStep(s, z, msgs) ==
    Stepped(s, z, msgs, wire[Peer(s)]) /\ Did(s, ses[s], z, msgs)

LEMMA PeerFacts ==
    /\ \A s \in Sides : Peer(s) \in Sides /\ Peer(s) # s /\ Peer(Peer(s)) = s
    /\ Peer("client") = "server" /\ Peer("server") = "client"
BY DEF Sides, Peer

LEMMA AdvanceFacts ==
    ASSUME NEW x, IsSession(x)
    PROVE  LET y == [x EXCEPT !.rseq = @ + 1] IN IsSession(y) /\ Advanced(x, y)
BY Zenon DEF IsSession, Advanced, KeepsKeys, KeepsExchange, KeepsData

LEMMA ReceiveSteps ==
    ASSUME Shaped, NEW s \in Sides, Receive(s)
    PROVE  \E z, msgs : ReadStep(s, z, msgs)
<1> DEFINE w == wire[Peer(s)]
           p == Head(w)
           x == [ses[s] EXCEPT !.rseq = @ + 1]
           r == IF ~Opens(ses[s], p) THEN Die(ses[s], "cannot open")
                ELSE IF s = "client" THEN ClientReply(x, p.msg)
                ELSE ServerReply(x, p.msg)
<1>1. ses[s].end = "no" /\ w # <<>> /\ Apply(s, r)
  BY Zenon DEF Receive
<1>2. IsSession(ses[s])
  BY DEF Shaped
<1>3. IsSession(x) /\ Advanced(ses[s], x)
  BY <1>2, AdvanceFacts
<1> HIDE DEF x
<1>4. /\ IsSession(r.ses)
      /\ \E msgs : /\ Sends(r, ses[s], msgs) /\ Took(s, x, p.msg, r.ses, msgs)
                   /\ Opens(ses[s], p) \/ Died(x, r.ses, msgs)
  <2>1. CASE ~Opens(ses[s], p)
    <3>1. r = Die(ses[s], "cannot open")
      BY <2>1, Zenon
    <3>2. "cannot open" # "no"
      OBVIOUS
    <3>3. \A why : why # "no" => LET q == Die(ses[s], why)
                                 IN  q.out = <<>> /\ IsSession(q.ses) /\ Died(ses[s], q.ses, <<>>)
      BY <1>2, DieFacts
    <3> HIDE DEF r
    <3>4. r.out = <<>> /\ IsSession(r.ses) /\ Died(ses[s], r.ses, <<>>)
      BY <3>1, <3>2, <3>3
    <3>5. Sends(r, ses[s], <<>>)
      BY <3>4 DEF Sends, Packets
    <3>6. Died(x, r.ses, <<>>)
      BY <1>3, <3>4 DEF Died, Advanced, KeepsKeys, KeepsExchange, KeepsData
    <3> QED  BY <3>4, <3>5, <3>6, Zenon DEF Took
  <2>2. CASE Opens(ses[s], p) /\ s = "client"
    <3> DEFINE q == ClientReply(x, p.msg)
    <3>1. r = q
      BY <2>2, Zenon
    <3>2. IsSession(q.ses) /\ \E msgs : Sends(q, x, msgs) /\ Took("client", x, p.msg, q.ses, msgs)
      BY <1>3, ClientTook
    <3> HIDE DEF r, q
    <3>3. PICK msgs : Sends(q, x, msgs) /\ Took("client", x, p.msg, q.ses, msgs)
      BY <3>2
    <3>4. Sends(q, ses[s], msgs)
      BY <1>3, <3>3 DEF Sends, Advanced
    <3> QED  BY <2>2, <3>1, <3>2, <3>3, <3>4, Zenon
  <2>3. CASE Opens(ses[s], p) /\ s = "server"
    <3> DEFINE q == ServerReply(x, p.msg)
    <3>1. s # "client"
      BY <2>3
    <3>2. r = q
      BY <2>3, <3>1, Zenon
    <3>3. IsSession(q.ses) /\ \E msgs : Sends(q, x, msgs) /\ Took("server", x, p.msg, q.ses, msgs)
      BY <1>3, ServerTook
    <3> HIDE DEF r, q
    <3>4. PICK msgs : Sends(q, x, msgs) /\ Took("server", x, p.msg, q.ses, msgs)
      BY <3>3
    <3>5. Sends(q, ses[s], msgs)
      BY <1>3, <3>4 DEF Sends, Advanced
    <3> QED  BY <2>3, <3>2, <3>3, <3>4, <3>5, Zenon
  <2> QED  BY <2>1, <2>2, <2>3 DEF Sides
<1> HIDE DEF r
<1>5. PICK msgs : /\ Sends(r, ses[s], msgs) /\ Took(s, x, p.msg, r.ses, msgs)
                  /\ Opens(ses[s], p) \/ Died(x, r.ses, msgs)
  BY <1>4
<1>6. Stepped(s, r.ses, msgs, Tail(w))
  <2>1. r.out = Packets(r.ses.wkey, ses[s].wseq, msgs)
    BY <1>5 DEF Sends
  <2>2. /\ ses' = [ses EXCEPT ![s] = r.ses]
        /\ wire' = [wire EXCEPT ![s] = @ \o r.out, ![Peer(s)] = Tail(@)]
        /\ prefs' = prefs
    BY <1>1 DEF Apply
  <2>3. wire' = [wire EXCEPT ![s] = wire[s] \o r.out, ![Peer(s)] = Tail(w)]
    BY <2>2, PeerFacts DEF Shaped
  <2> QED  BY <1>1, <1>4, <2>1, <2>2, <2>3 DEF Stepped, Written
<1>7. ReadStep(s, r.ses, msgs)
  BY <1>1, <1>3, <1>5, <1>6, Zenon DEF ReadStep
<1> QED  BY <1>7

\* A step that only writes.
LEMMA EmitSteps ==
    ASSUME Shaped, NEW s \in Sides, ses[s].end = "no", NEW x, IsSession(x), NEW msgs,
           Emit(s, x, msgs), x.wseq = ses[s].wseq
    PROVE  \E z : /\ Stepped(s, z, msgs, wire[Peer(s)]) /\ z.wseq = x.wseq + Len(msgs)
                  /\ KeepsKeys(x, z) /\ KeepsExchange(x, z) /\ KeepsData(x, z)
                  /\ z.end = x.end /\ z.strict = x.strict /\ z.loud = x.loud /\ z.rseq = x.rseq
<1> DEFINE r == Step(s, x, msgs)
           z == r.ses
<1>1. /\ r.out = Packets(x.wkey, x.wseq, msgs)
      /\ IsSession(z) /\ z.wseq = x.wseq + Len(msgs)
      /\ KeepsKeys(x, z) /\ KeepsExchange(x, z) /\ KeepsData(x, z)
      /\ z.end = x.end /\ z.strict = x.strict /\ z.loud = x.loud /\ z.rseq = x.rseq
  BY StepFacts
<1>2. /\ ses' = [ses EXCEPT ![s] = r.ses] /\ wire' = [wire EXCEPT ![s] = @ \o r.out]
      /\ prefs' = prefs
  BY DEF Emit
<1> HIDE DEF r
<1>3. wire' = [wire EXCEPT ![s] = wire[s] \o r.out, ![Peer(s)] = wire[Peer(s)]]
  BY <1>2, PeerFacts DEF Shaped
<1>4. Stepped(s, z, msgs, wire[Peer(s)])
  BY <1>1, <1>2, <1>3 DEF Stepped, KeepsKeys, Written
<1> QED  BY <1>1, <1>4

LEMMA OwnSteps ==
    ASSUME Shaped, NEW s \in Sides,
           Eof(s) \/ StartRekey(s) \/ SendData(s) \/ SendKeepalive(s)
    PROVE  \E z, msgs : OwnStep(s, z, msgs) /\ (z.end = "no" \/ Eof(s))
<1> DEFINE x == ses[s]
<1>1. IsSession(x)
  BY DEF Shaped
<1>2. CASE StartRekey(s)
  <2> DEFINE f == WithInit(s, ForgetExchange(x))
             y == [f EXCEPT !.phase = "init", !.rekeys = x.rekeys + 1]
             msgs == <<KexInitMsg(y)>>
  <2>1. x.end = "no" /\ x.enc /\ x.phase = "idle" /\ Emit(s, y, msgs)
    BY <1>2, Zenon DEF StartRekey
  <2>2. /\ IsSession(f) /\ f.inits = x.inits + 1
        /\ f.ex = (IF s = "client" THEN Exchange(<<f.inits>>, <<>>, <<>>, <<>>)
                   ELSE Exchange(<<>>, <<f.inits>>, <<>>, <<>>))
        /\ KeepsKeys(x, f) /\ KeepsData(x, f)
        /\ f.end = x.end /\ f.strict = x.strict /\ f.loud = x.loud
        /\ f.rseq = x.rseq /\ f.wseq = x.wseq
    BY <1>1, WithInitFacts
  <2> HIDE DEF f
  <2>3. /\ IsSession(y) /\ y.phase = "init" /\ y.inits = f.inits /\ y.ex = f.ex
        /\ KeepsKeys(f, y) /\ KeepsData(f, y)
        /\ y.end = f.end /\ y.strict = f.strict /\ y.loud = f.loud
        /\ y.rseq = f.rseq /\ y.wseq = f.wseq
    BY <2>2, Zenon DEF IsSession, KeepsKeys, KeepsData
  <2>4. msgs = <<KI(y.inits)>>
    BY DEF KexInitMsg, KI
  <2> HIDE DEF y, msgs
  <2>5. PICK z : /\ Stepped(s, z, msgs, wire[Peer(s)]) /\ z.wseq = y.wseq + Len(msgs)
                 /\ KeepsKeys(y, z) /\ KeepsExchange(y, z) /\ KeepsData(y, z)
                 /\ z.end = y.end /\ z.strict = y.strict /\ z.loud = y.loud /\ z.rseq = y.rseq
    <3>1. IsSession(y) /\ y.wseq = ses[s].wseq /\ ses[s].end = "no" /\ Emit(s, y, msgs)
      BY <2>1, <2>2, <2>3
    <3> HIDE DEF x
    <3> QED  BY <3>1, EmitSteps
  <2>6. Rekeyed(s, x, z, msgs)
    BY <2>1, <2>2, <2>3, <2>4, <2>5 DEF Rekeyed, KeepsKeys, KeepsExchange, KeepsData
  <2>7. z.end = "no"
    BY <2>1, <2>2, <2>3, <2>5
  <2> QED  BY <2>5, <2>6, <2>7 DEF OwnStep, Did
<1>3. CASE SendData(s)
  <2> DEFINE y == [x EXCEPT !.sent = @ + 1]
             msgs == <<[t |-> "DATA", n |-> x.sent + 1]>>
  <2>1. x.end = "no" /\ x.enc /\ x.phase = "idle" /\ Emit(s, y, msgs)
    BY <1>3, Zenon DEF SendData
  <2>2. /\ IsSession(y) /\ KeepsKeys(x, y) /\ KeepsExchange(x, y) /\ y.sent = x.sent + 1
        /\ y.got = x.got /\ y.stash = x.stash
        /\ y.end = x.end /\ y.strict = x.strict /\ y.loud = x.loud
        /\ y.rseq = x.rseq /\ y.wseq = x.wseq
    BY <1>1, Zenon DEF IsSession, KeepsKeys, KeepsExchange
  <2> HIDE DEF y
  <2>3. PICK z : /\ Stepped(s, z, msgs, wire[Peer(s)]) /\ z.wseq = y.wseq + Len(msgs)
                 /\ KeepsKeys(y, z) /\ KeepsExchange(y, z) /\ KeepsData(y, z)
                 /\ z.end = y.end /\ z.strict = y.strict /\ z.loud = y.loud /\ z.rseq = y.rseq
    <3> HIDE DEF msgs
    <3> QED  BY <2>1, <2>2, EmitSteps
  <2>4. SentData(x, z, msgs)
    BY <2>1, <2>2, <2>3 DEF SentData, KeepsKeys, KeepsExchange, KeepsData
  <2>5. z.end = "no"
    BY <2>1, <2>2, <2>3
  <2> QED  BY <2>3, <2>4, <2>5 DEF OwnStep, Did
<1>4. CASE SendKeepalive(s)
  <2> DEFINE y == [x EXCEPT !.beats = @ + 1, !.loud = @ \/ x.phase # "idle"]
             msgs == <<[t |-> "KEEPALIVE"]>>
  <2>1. x.end = "no" /\ x.enc /\ Emit(s, y, msgs)
    BY <1>4, Zenon DEF SendKeepalive
  <2>2. /\ IsSession(y) /\ KeepsKeys(x, y) /\ KeepsExchange(x, y) /\ KeepsData(x, y)
        /\ y.end = x.end /\ y.strict = x.strict /\ y.loud = (x.loud \/ x.phase # "idle")
        /\ y.rseq = x.rseq /\ y.wseq = x.wseq
    BY <1>1, Zenon DEF IsSession, KeepsKeys, KeepsExchange, KeepsData
  <2> HIDE DEF y
  <2>3. PICK z : /\ Stepped(s, z, msgs, wire[Peer(s)]) /\ z.wseq = y.wseq + Len(msgs)
                 /\ KeepsKeys(y, z) /\ KeepsExchange(y, z) /\ KeepsData(y, z)
                 /\ z.end = y.end /\ z.strict = y.strict /\ z.loud = y.loud /\ z.rseq = y.rseq
    <3> HIDE DEF msgs
    <3> QED  BY <2>1, <2>2, EmitSteps
  <2>4. Beat(x, z, msgs)
    <3>1. /\ KeepsKeys(x, z) /\ KeepsExchange(x, z) /\ KeepsData(x, z)
          /\ z.end = x.end /\ z.strict = x.strict
          /\ z.rseq = x.rseq /\ z.wseq = x.wseq + Len(msgs)
      BY <2>2, <2>3 DEF KeepsKeys, KeepsExchange, KeepsData
    <3> QED  BY <2>1, <2>2, <2>3, <3>1, Zenon DEF Beat
  <2>5. z.end = "no"
    BY <2>1, <2>2, <2>3
  <2> QED  BY <2>3, <2>4, <2>5 DEF OwnStep, Did
<1>5. CASE Eof(s)
  <2> DEFINE z == [x EXCEPT !.end = "eof"]
  <2>1. /\ x.end = "no" /\ ses' = [ses EXCEPT ![s].end = "eof"]
        /\ prefs' = prefs /\ wire' = wire
    BY <1>5 DEF Eof
  <2>2. ses' = [ses EXCEPT ![s] = z]
    BY <2>1, Zenon
  <2>3. /\ IsSession(z) /\ z.end = "eof" /\ KeepsKeys(x, z) /\ KeepsExchange(x, z)
        /\ KeepsData(x, z) /\ z.strict = x.strict /\ z.loud = x.loud
    BY <1>1, Zenon DEF IsSession, KeepsKeys, KeepsExchange, KeepsData
  <2> HIDE DEF z
  <2>4. Died(x, z, <<>>)
    BY <2>3 DEF Died
  <2>5. Packets(z.wkey, x.wseq, <<>>) = <<>> /\ IsSeq(<<>>)
    <3>1. IsSeq(<<>>)
      BY SeqMake
    <3> QED  BY <3>1, PacketFacts
  <2>6. wire[s] \o Packets(z.wkey, x.wseq, <<>>) = wire[s]
    BY <2>5, SeqJoin DEF Shaped
  <2>7. wire' = [wire EXCEPT ![s] = wire[s], ![Peer(s)] = wire[Peer(s)]]
    BY <2>1, PeerFacts DEF Shaped
  <2>8. Stepped(s, z, <<>>, wire[Peer(s)])
    BY <2>1, <2>2, <2>3, <2>6, <2>7, Zenon DEF Stepped, Written
  <2> QED  BY <1>5, <2>4, <2>8 DEF OwnStep, Did
<1> QED  BY <1>2, <1>3, <1>4, <1>5

-----------------------------------------------------------------------------
\* Types.

Counted(x) ==
    /\ x.inits \in Nat /\ x.sent \in Nat
    /\ x.end = "no" => x.wseq \in Nat /\ x.rseq \in Nat
    /\ IsSeq(x.got) /\ IsSeq(x.stash.data) /\ x.stash.beats \in Nat /\ x.stash.size \in Nat

Typed == Shaped /\ \A s \in Sides : Counted(ses[s])

\* The messages that answer keepalives.
LEMMA AnswersFacts ==
    ASSUME NEW p, p.beats \in Nat
    PROVE  /\ IsSeq(Answers(p)) /\ Len(Answers(p)) = p.beats
           /\ \A i \in DOMAIN Answers(p) : Answers(p)[i] = [t |-> "REQUEST_SUCCESS"]
<1> DEFINE a == [t |-> "REQUEST_SUCCESS"]
<1>1. Answers(p) = [i \in 1 .. p.beats |-> a]
  BY DEF Answers
<1> HIDE DEF a
<1>2. Answers(p) \in Seq({a}) /\ Len(Answers(p)) = p.beats
  BY <1>1
<1>3. \A i \in DOMAIN Answers(p) : Answers(p)[i] = a
  BY <1>1
<1> QED  BY <1>2, <1>3 DEF IsSeq, a

LEMMA PutAsideFacts ==
    ASSUME NEW p, NEW m, IsSeq(p.data), p.beats \in Nat, p.size \in Nat
    PROVE  LET q == PutAside(p, m)
           IN  /\ IsSeq(q.data) /\ q.beats \in Nat /\ q.size = p.size + 1
               /\ q.data = IF m.t = "DATA" THEN p.data \o <<m.n>> ELSE p.data
<1> DEFINE q == PutAside(p, m)
<1>1. /\ q.data = (IF m.t = "DATA" THEN Append(p.data, m.n) ELSE p.data)
      /\ q.beats = (IF m.t = "KEEPALIVE" THEN p.beats + 1 ELSE p.beats)
      /\ q.size = p.size + 1
  BY DEF PutAside
<1> HIDE DEF q
<1>2. IsSeq(Append(p.data, m.n)) /\ Append(p.data, m.n) = p.data \o <<m.n>>
  BY SeqAppend
<1>3. IsSeq(q.data) /\ q.data = IF m.t = "DATA" THEN p.data \o <<m.n>> ELSE p.data
  BY <1>1, <1>2
<1> QED  BY <1>1, <1>3 DEF q

\* Nothing put aside, and one packet.
LEMMA AsideFacts ==
    /\ NothingAside.data = <<>> /\ NothingAside.beats = 0 /\ NothingAside.size = 0
    /\ \A m : LET q == PutAside(NothingAside, m)
              IN  /\ IsSeq(q.data) /\ q.beats \in Nat
                  /\ q.data = IF m.t = "DATA" THEN <<m.n>> ELSE <<>>
<1>1. NothingAside.data = <<>> /\ NothingAside.beats = 0 /\ NothingAside.size = 0
  BY DEF NothingAside
<1>2. ASSUME NEW m
      PROVE  LET q == PutAside(NothingAside, m)
             IN  /\ IsSeq(q.data) /\ q.beats \in Nat
                 /\ q.data = IF m.t = "DATA" THEN <<m.n>> ELSE <<>>
  <2>1. IsSeq(NothingAside.data)
    BY <1>1, SeqMake
  <2>2. <<>> \o <<m.n>> = <<m.n>>
    <3>1. <<>> \in Seq({m.n}) /\ <<m.n>> \in Seq({m.n})
      OBVIOUS
    <3> QED  BY <3>1
  <2> DEFINE p == NothingAside
             q == PutAside(p, m)
  <2>3. IsSeq(p.data) /\ p.beats \in Nat /\ p.size \in Nat
    BY <1>1, <2>1
  <2> HIDE DEF p
  <2>4. /\ IsSeq(q.data) /\ q.beats \in Nat
        /\ q.data = IF m.t = "DATA" THEN p.data \o <<m.n>> ELSE p.data
    BY <2>3, PutAsideFacts
  <2> HIDE DEF q
  <2>5. p.data = <<>>
    BY <1>1 DEF p
  <2>6. IsSeq(q.data) /\ q.beats \in Nat /\ q.data = IF m.t = "DATA" THEN <<m.n>> ELSE <<>>
    BY <2>2, <2>4, <2>5
  <2> QED  BY <2>6 DEF p, q
<1> QED  BY <1>1, <1>2

LEMMA ExtInfoFacts ==
    ASSUME NEW s, NEW x
    PROVE  /\ IsSeq(ExtInfo(s, x))
           /\ \A i \in DOMAIN ExtInfo(s, x) : ExtInfo(s, x)[i] = [t |-> "EXT_INFO"]
<1> DEFINE a == [t |-> "EXT_INFO"]
<1>1. ExtInfo(s, x) = <<a>> \/ ExtInfo(s, x) = <<>>
  BY Zenon DEF ExtInfo
<1> HIDE DEF a
<1>2. \A i \in DOMAIN <<a>> : <<a>>[i] = a
  OBVIOUS
<1>3. \A i \in DOMAIN ExtInfo(s, x) : ExtInfo(s, x)[i] = a
  <2>1. CASE ExtInfo(s, x) = <<a>>
    BY <2>1, <1>2
  <2>2. CASE ExtInfo(s, x) = <<>>
    BY <2>2
  <2> QED  BY <1>1, <2>1, <2>2
<1>4. IsSeq(ExtInfo(s, x))
  BY <1>1, SeqMake
<1> QED  BY <1>3, <1>4 DEF a

\* The answers to what was put aside follow EXT_INFO.
LEMMA ReleasedFacts ==
    ASSUME NEW s, NEW x, x.stash.beats \in Nat
    PROVE  LET msgs == ExtInfo(s, x) \o Answers(x.stash)
           IN  IsSeq(msgs) /\ \A i \in DOMAIN msgs : msgs[i].t \in Others \ {"DATA"}
<1> DEFINE a == ExtInfo(s, x)
           b == Answers(x.stash)
           msgs == a \o b
<1>1. IsSeq(a) /\ \A i \in DOMAIN a : a[i].t \in Others \ {"DATA"}
  BY ExtInfoFacts DEF Others
<1>2. IsSeq(b) /\ \A i \in DOMAIN b : b[i].t \in Others \ {"DATA"}
  BY AnswersFacts DEF Others
<1> HIDE DEF a, b
<1>3. /\ IsSeq(msgs) /\ Len(msgs) = Len(a) + Len(b)
      /\ Len(a) \in Nat /\ Len(b) \in Nat
      /\ DOMAIN a = 1 .. Len(a) /\ DOMAIN b = 1 .. Len(b) /\ DOMAIN msgs = 1 .. Len(msgs)
      /\ \A i \in DOMAIN a : msgs[i] = a[i]
      /\ \A i \in DOMAIN b : msgs[Len(a) + i] = b[i]
  BY <1>1, <1>2, SeqJoin
<1> HIDE DEF msgs
<1>4. \A i \in DOMAIN msgs : i \in DOMAIN a \/ (i - Len(a) \in DOMAIN b /\ Len(a) + (i - Len(a)) = i)
  BY <1>3
<1>5. ASSUME NEW i \in DOMAIN msgs PROVE msgs[i].t \in Others \ {"DATA"}
  <2>1. CASE i \in DOMAIN a
    BY <2>1, <1>1, <1>3
  <2>2. CASE i - Len(a) \in DOMAIN b /\ Len(a) + (i - Len(a)) = i
    <3> DEFINE j == i - Len(a)
    <3>1. j \in DOMAIN b /\ msgs[i] = b[j]
      BY <2>2, <1>3
    <3> HIDE DEF j
    <3> QED  BY <3>1, <1>2
  <2> QED  BY <1>4, <2>1, <2>2
<1> QED  BY <1>3, <1>5 DEF msgs, a, b

\* The messages of a step are a sequence, and what is counted stays so.
LEMMA TookCounted ==
    ASSUME NEW s, NEW x0, Counted(x0), NEW x, Advanced(x0, x), NEW m, NEW z, NEW msgs,
           Took(s, x, m, z, msgs), x0.end = "no"
    PROVE  Counted(z) /\ IsSeq(msgs)
<1>1. Counted(x) /\ x.wseq \in Nat /\ x.rseq \in Nat
  BY DEF Counted, Advanced, KeepsExchange, KeepsData
<1>2. CASE TookKeys(s, x, m, z, msgs)
  <2>1. IsSeq(msgs) /\ Len(msgs) \in Nat
    BY <1>1, <1>2, ReleasedFacts, SeqJoin DEF TookKeys, Counted
  <2>2. IsSeq(x.got \o x.stash.data)
    BY <1>1, SeqJoin DEF Counted
  <2>3. z.stash.data = <<>> /\ z.stash.beats = 0 /\ z.stash.size = 0 /\ IsSeq(<<>>)
    BY <1>2, AsideFacts, SeqMake DEF TookKeys
  <2>4. z.got = x.got \o x.stash.data /\ z.sent = x.sent /\ z.inits = x.inits
    BY <1>2 DEF TookKeys
  <2>5. z.rseq = (IF z.strict THEN 0 ELSE x.rseq) /\ z.wseq = x.wseq + Len(msgs)
    BY <1>2 DEF TookKeys
  <2> QED  BY <1>1, <2>1, <2>2, <2>3, <2>4, <2>5 DEF Counted
<1>3. CASE TookOther(x, m, z, msgs)
  <2> DEFINE d == PutAside(NothingAside, m)
  <2>1. IsSeq(d.data) /\ d.beats \in Nat
    BY AsideFacts
  <2> HIDE DEF d
  <2>2. msgs = Answers(d) /\ z.got = x.got \o d.data
    BY <1>3 DEF TookOther, d
  <2>3. IsSeq(msgs) /\ Len(msgs) \in Nat
    BY <2>1, <2>2, AnswersFacts
  <2>4. IsSeq(z.got)
    BY <1>1, <2>1, <2>2, SeqJoin DEF Counted
  <2>5. /\ z.stash = x.stash /\ z.sent = x.sent /\ z.inits = x.inits
        /\ z.rseq = x.rseq /\ z.wseq = x.wseq + Len(msgs)
    BY <1>3 DEF TookOther, KeepsExchange
  <2> QED  BY <1>1, <2>3, <2>4, <2>5 DEF Counted
<1>4. CASE KeptOther(x, m, z, msgs)
  <2>1. IsSeq(msgs)
    BY <1>4, SeqMake DEF KeptOther
  <2>2. IsSeq(z.stash.data) /\ z.stash.beats \in Nat /\ z.stash.size \in Nat
    <3> DEFINE p == x.stash
               q == PutAside(p, m)
    <3>1. IsSeq(p.data) /\ p.beats \in Nat /\ p.size \in Nat
      BY <1>1 DEF Counted
    <3>2. z.stash = q
      BY <1>4 DEF KeptOther
    <3> HIDE DEF p
    <3>3. IsSeq(q.data) /\ q.beats \in Nat /\ q.size = p.size + 1
      BY <3>1, PutAsideFacts
    <3> HIDE DEF q
    <3> QED  BY <3>1, <3>2, <3>3
  <2>3. z.got = x.got /\ z.sent = x.sent /\ z.inits = x.inits /\ z.rseq = x.rseq /\ z.wseq = x.wseq
    BY <1>4 DEF KeptOther, KeepsExchange
  <2> QED  BY <1>1, <2>1, <2>2, <2>3 DEF Counted
<1>5. CASE ClientTookInit(x, m, z, msgs) \/ ServerTookInit(x, m, z, msgs)
  <2>1. msgs = <<>> \/ (\E a : msgs = <<a>>) \/ (\E a, b : msgs = <<a, b>>)
    BY <1>5 DEF ClientTookInit, ServerTookInit
  <2>2. IsSeq(msgs)
    BY <2>1, SeqMake
  <2>3. Len(msgs) \in Nat
    BY <2>2, SeqJoin
  <2>4. /\ KeepsData(x, z) /\ z.rseq = x.rseq /\ z.wseq = x.wseq + Len(msgs)
        /\ z.inits = x.inits \/ z.inits = x.inits + 1
    BY <1>5 DEF ClientTookInit, ServerTookInit
  <2>5. z.inits \in Nat /\ z.wseq \in Nat /\ z.rseq \in Nat
    <3>1. x.inits \in Nat
      BY <1>1 DEF Counted
    <3> HIDE DEF Counted
    <3> QED  BY <1>1, <2>3, <2>4, <3>1
  <2> QED  BY <1>1, <2>2, <2>4, <2>5 DEF Counted, KeepsData
<1>6. CASE ClientTookReply(x, m, z, msgs) \/ ServerTookEcdh(x, m, z, msgs)
  <2>1. (\E a : msgs = <<a>>) \/ (\E a, b : msgs = <<a, b>>)
    BY <1>6 DEF ClientTookReply, ServerTookEcdh
  <2>2. IsSeq(msgs)
    BY <2>1, SeqMake
  <2>3. Len(msgs) \in Nat
    BY <2>2, SeqJoin
  <2>4. /\ KeepsData(x, z) /\ z.rseq = x.rseq /\ z.inits = x.inits
        /\ z.wseq = 0 \/ z.wseq = x.wseq + Len(msgs)
    BY <1>6 DEF ClientTookReply, ServerTookEcdh, Computed
  <2> QED  BY <1>1, <2>2, <2>3, <2>4 DEF Counted, KeepsData
<1>7. CASE Died(x, z, msgs)
  <2>1. IsSeq(msgs)
    BY <1>7, SeqMake DEF Died
  <2> QED  BY <1>1, <1>7, <2>1 DEF Counted, Died, KeepsExchange, KeepsData
<1> QED  BY <1>2, <1>3, <1>4, <1>5, <1>6, <1>7 DEF Took

LEMMA DidCounted ==
    ASSUME NEW s, NEW x, Counted(x), NEW z, NEW msgs, Did(s, x, z, msgs), x.end = "no"
    PROVE  Counted(z) /\ IsSeq(msgs)
<1>1. Counted(x) /\ x.wseq \in Nat /\ x.rseq \in Nat
  BY DEF Counted
<1>2. CASE Died(x, z, msgs)
  <2>1. IsSeq(msgs)
    BY <1>2, SeqMake DEF Died
  <2> QED  BY <1>1, <1>2, <2>1 DEF Counted, Died, KeepsExchange, KeepsData
<1>3. CASE Rekeyed(s, x, z, msgs) \/ SentData(x, z, msgs) \/ Beat(x, z, msgs)
  <2>1. \E a : msgs = <<a>>
    BY <1>3 DEF Rekeyed, SentData, Beat
  <2>2. IsSeq(msgs)
    BY <2>1, SeqMake
  <2>3. Len(msgs) \in Nat
    BY <2>2, SeqJoin
  <2>4. /\ z.got = x.got /\ z.stash = x.stash /\ z.rseq = x.rseq /\ z.wseq = x.wseq + Len(msgs)
        /\ z.inits = x.inits \/ z.inits = x.inits + 1
        /\ z.sent = x.sent \/ z.sent = x.sent + 1
    BY <1>3 DEF Rekeyed, SentData, Beat, KeepsData, KeepsExchange
  <2>5. z.inits \in Nat /\ z.sent \in Nat /\ z.wseq \in Nat /\ z.rseq \in Nat
    BY <1>1, <2>3, <2>4 DEF Counted
  <2> QED  BY <1>1, <2>2, <2>4, <2>5 DEF Counted
<1> QED  BY <1>2, <1>3 DEF Did

\* The two sides after a step.
LEMMA SteppedFacts ==
    ASSUME Shaped, NEW s \in Sides, NEW z, NEW msgs, NEW w, IsSeq(msgs), IsSeq(w),
           Stepped(s, z, msgs, w)
    PROVE  /\ ses'[s] = z /\ ses'[Peer(s)] = ses[Peer(s)]
           /\ wire'[s] = Written(s, z, msgs) /\ wire'[Peer(s)] = w
           /\ Shaped'
<1> DEFINE p == Peer(s)
           v == Written(s, z, msgs)
<1>1. p \in Sides /\ p # s /\ \A t \in Sides : t = s \/ t = p
  BY DEF Sides, Peer
<1>2. IsSeq(v)
  BY PacketFacts, SeqJoin DEF Shaped, Written
<1>3. ses' = [ses EXCEPT ![s] = z] /\ wire' = [wire EXCEPT ![s] = v, ![p] = w]
  BY DEF Stepped
<1> HIDE DEF p, v
<1>4. ses'[s] = z /\ ses'[p] = ses[p] /\ ses' = [t \in Sides |-> ses'[t]]
  BY <1>1, <1>3 DEF Shaped
<1>5. wire'[s] = v /\ wire'[p] = w /\ wire' = [t \in Sides |-> wire'[t]]
  BY <1>1, <1>3 DEF Shaped
<1>6. IsSession(z) /\ IsSession(ses[p])
  BY <1>1 DEF Stepped, Shaped
<1>7. \A t \in Sides : IsSession(ses'[t]) /\ IsSeq(wire'[t])
  <2> SUFFICES ASSUME NEW t \in Sides PROVE IsSession(ses'[t]) /\ IsSeq(wire'[t])
    OBVIOUS
  <2>1. CASE t = s
    BY <2>1, <1>2, <1>4, <1>5, <1>6
  <2>2. CASE t = p
    BY <2>2, <1>2, <1>4, <1>5, <1>6
  <2> QED  BY <1>1, <2>1, <2>2
<1>8. Shaped'
  BY <1>4, <1>5, <1>7 DEF Shaped
<1> QED  BY <1>4, <1>5, <1>8 DEF p, v

\* Every step of the system is one step of one side.
Steps(s, z, msgs, w) ==
    /\ Stepped(s, z, msgs, w) /\ IsSeq(msgs) /\ IsSeq(w) /\ Counted(z)
    /\ \/ w = wire[Peer(s)] /\ OwnStep(s, z, msgs)
       \/ wire[Peer(s)] # <<>> /\ w = Tail(wire[Peer(s)]) /\ ReadStep(s, z, msgs)

LEMMA SideSteps ==
    ASSUME Typed, NEW s \in Sides,
           Receive(s) \/ Eof(s) \/ StartRekey(s) \/ SendData(s) \/ SendKeepalive(s)
    PROVE  \E z, msgs, w : /\ Steps(s, z, msgs, w)
                           /\ \/ Receive(s) /\ ReadStep(s, z, msgs) /\ w = Tail(wire[Peer(s)])
                              \/ /\ OwnStep(s, z, msgs) /\ w = wire[Peer(s)]
                                 /\ z.end = "no" \/ Eof(s)
<1> DEFINE p == Peer(s)
<1>1. Shaped /\ Counted(ses[s]) /\ p \in Sides /\ IsSeq(wire[p])
  BY PeerFacts DEF Typed, Shaped
<1>2. CASE Receive(s)
  <2>1. PICK z, msgs : ReadStep(s, z, msgs)
    BY <1>1, <1>2, ReceiveSteps
  <2>2. wire[p] # <<>> /\ Stepped(s, z, msgs, Tail(wire[p]))
    BY <2>1 DEF ReadStep
  <2>3. PICK x : Advanced(ses[s], x) /\ Took(s, x, Head(wire[p]).msg, z, msgs)
    BY <2>1 DEF ReadStep
  <2>4. ses[s].end = "no"
    BY <2>2 DEF Stepped
  <2>5. Counted(z) /\ IsSeq(msgs)
    BY <1>1, <2>3, <2>4, TookCounted
  <2>6. IsSeq(Tail(wire[p]))
    BY <1>1, <2>2, SeqTail
  <2>7. Steps(s, z, msgs, Tail(wire[p]))
    BY <2>1, <2>2, <2>5, <2>6 DEF Steps
  <2> QED  BY <1>2, <2>1, <2>7
<1>3. CASE ~Receive(s)
  <2>1. PICK z, msgs : OwnStep(s, z, msgs) /\ (z.end = "no" \/ Eof(s))
    BY <1>1, <1>3, OwnSteps
  <2>2. Stepped(s, z, msgs, wire[p]) /\ Did(s, ses[s], z, msgs)
    BY <2>1 DEF OwnStep
  <2>3. ses[s].end = "no"
    BY <2>2 DEF Stepped
  <2>4. Counted(z) /\ IsSeq(msgs)
    BY <1>1, <2>2, <2>3, DidCounted
  <2>5. Steps(s, z, msgs, wire[p])
    BY <1>1, <2>1, <2>2, <2>4 DEF Steps
  <2> QED  BY <2>1, <2>5
<1> QED  BY <1>2, <1>3

LEMMA NextSteps ==
    ASSUME Typed, Next
    PROVE  \E s \in Sides : \E z, msgs, w : Steps(s, z, msgs, w)
<1>1. PICK s \in Sides : Receive(s) \/ Eof(s) \/ StartRekey(s) \/ SendData(s) \/ SendKeepalive(s)
  BY DEF Next
<1> QED  BY <1>1, SideSteps

LEMMA TypedKept ==
    ASSUME Typed, NEW s \in Sides, NEW z, NEW msgs, NEW w, Steps(s, z, msgs, w)
    PROVE  /\ ses'[s] = z /\ ses'[Peer(s)] = ses[Peer(s)]
           /\ wire'[s] = Written(s, z, msgs) /\ wire'[Peer(s)] = w
           /\ Typed' /\ prefs' = prefs
<1> DEFINE p == Peer(s)
<1>1. /\ ses'[s] = z /\ ses'[p] = ses[p]
      /\ wire'[s] = Written(s, z, msgs) /\ wire'[p] = w
      /\ Shaped'
  BY SteppedFacts DEF Typed, Steps
<1>2. p \in Sides /\ p # s /\ \A t \in Sides : t = s \/ t = p
  BY DEF Sides, Peer
<1> HIDE DEF p
<1>3. \A t \in Sides : Counted(ses'[t])
  BY <1>1, <1>2 DEF Typed, Steps
<1> QED  BY <1>1, <1>3 DEF Typed, p, Steps, Stepped

\* The sessions that have exchanged identifications.
Begun(s, x) ==
    /\ IsSession(x) /\ x.phase = "init" /\ x.enc = FALSE /\ x.inits = 1
    /\ x.ex = (IF s = "client" THEN Exchange(<<1>>, <<>>, <<>>, <<>>)
               ELSE Exchange(<<>>, <<1>>, <<>>, <<>>))
    /\ x.wkey = Clear /\ x.rkey = Clear /\ x.sid = <<>> /\ x.strict = FALSE
    /\ x.wseq = 1 /\ x.rseq = 0 /\ x.stash = NothingAside /\ x.end = "no"
    /\ x.sent = 0 /\ x.got = <<>> /\ x.loud = FALSE

LEMMA InitFacts ==
    ASSUME Init
    PROVE  /\ Typed
           /\ \A s \in Sides : Begun(s, ses[s]) /\ wire[s] = Packets(Clear, 0, <<KI(1)>>)
<1> DEFINE n == NewSession
           y(s) == WithInit(s, n)
           x(s) == [y(s) EXCEPT !.wseq = 1]
<1>1. /\ IsSession(n) /\ n.phase = "init" /\ n.enc = FALSE /\ n.inits = 0
      /\ n.ex = NoExchange /\ n.wkey = Clear /\ n.rkey = Clear /\ n.sid = <<>>
      /\ n.strict = FALSE /\ n.wseq = 0 /\ n.rseq = 0 /\ n.stash = NothingAside /\ n.end = "no"
      /\ n.sent = 0 /\ n.got = <<>> /\ n.loud = FALSE
  <2>1. IsSession(n)
    BY Zenon DEF NewSession, IsSession
  <2> QED  BY <2>1, Zenon DEF NewSession
<1> HIDE DEF n
<1>2. ASSUME NEW s \in Sides
      PROVE  /\ IsSession(y(s)) /\ y(s).phase = n.phase /\ y(s).enc = n.enc
             /\ y(s).inits = n.inits + 1
             /\ y(s).ex = (IF s = "client" THEN Exchange(<<n.inits + 1>>, n.ex.sk, n.ex.ce, n.ex.se)
                           ELSE Exchange(n.ex.ck, <<n.inits + 1>>, n.ex.ce, n.ex.se))
             /\ y(s).wkey = n.wkey /\ y(s).rkey = n.rkey /\ y(s).sid = n.sid
             /\ y(s).strict = n.strict /\ y(s).rseq = n.rseq /\ y(s).stash = n.stash
             /\ y(s).end = n.end /\ y(s).sent = n.sent /\ y(s).got = n.got /\ y(s).loud = n.loud
  BY <1>1, Zenon DEF IsSession, WithInit
<1> HIDE DEF y
<1>3. ASSUME NEW s \in Sides
      PROVE  /\ IsSession(x(s)) /\ x(s).wseq = 1 /\ x(s).phase = y(s).phase /\ x(s).enc = y(s).enc
             /\ x(s).inits = y(s).inits /\ x(s).ex = y(s).ex
             /\ x(s).wkey = y(s).wkey /\ x(s).rkey = y(s).rkey /\ x(s).sid = y(s).sid
             /\ x(s).strict = y(s).strict /\ x(s).rseq = y(s).rseq /\ x(s).stash = y(s).stash
             /\ x(s).end = y(s).end /\ x(s).sent = y(s).sent /\ x(s).got = y(s).got
             /\ x(s).loud = y(s).loud
  BY <1>2, <1>3, Zenon DEF IsSession
<1>4. /\ ses = [s \in Sides |-> x(s)]
      /\ wire = [s \in Sides |-> Seal(n, <<KexInitMsg(y(s))>>)]
  BY Zenon DEF Init, n, y
<1> HIDE DEF x
<1>5. n.ex.ck = <<>> /\ n.ex.sk = <<>> /\ n.ex.ce = <<>> /\ n.ex.se = <<>>
  BY <1>1 DEF NoExchange, Exchange
<1>6. n.inits + 1 = 1
  BY <1>1
<1>7. ASSUME NEW s \in Sides PROVE Begun(s, x(s))
  <2>1. y(s).ex = (IF s = "client" THEN Exchange(<<1>>, <<>>, <<>>, <<>>)
                   ELSE Exchange(<<>>, <<1>>, <<>>, <<>>))
    BY <1>2, <1>5, <1>6
  <2>2. /\ IsSession(x(s)) /\ x(s).phase = "init" /\ x(s).enc = FALSE /\ x(s).inits = 1
    BY <1>1, <1>2, <1>3, <1>6, Zenon
  <2>4. x(s).wkey = Clear /\ x(s).rkey = Clear /\ x(s).sid = <<>> /\ x(s).strict = FALSE
    BY <1>1, <1>2, <1>3, Zenon
  <2>3. /\ x(s).wseq = 1 /\ x(s).rseq = 0 /\ x(s).stash = NothingAside /\ x(s).end = "no"
        /\ x(s).sent = 0
    BY <1>1, <1>2, <1>3, Zenon
  <2>5. x(s).got = <<>> /\ x(s).loud = FALSE /\ x(s).ex = y(s).ex
    BY <1>1, <1>2, <1>3, Zenon
  <2> QED  BY <2>1, <2>2, <2>3, <2>4, <2>5, Zenon DEF Begun
<1>8. ASSUME NEW s \in Sides
      PROVE  Seal(n, <<KexInitMsg(y(s))>>) = Packets(Clear, 0, <<KI(1)>>)
  <2>1. KexInitMsg(y(s)) = KI(1)
    BY <1>2, <1>6 DEF KexInitMsg, KI
  <2> QED  BY <1>1, <2>1, Zenon DEF Seal, Packets
<1>9. \A s \in Sides : Begun(s, ses[s]) /\ wire[s] = Packets(Clear, 0, <<KI(1)>>)
  BY <1>4, <1>7, <1>8
<1>10. \A s \in Sides : IsSession(ses[s]) /\ IsSeq(wire[s])
  <2>1. IsSeq(<<KI(1)>>)
    BY SeqMake
  <2>2. IsSeq(Packets(Clear, 0, <<KI(1)>>))
    BY <2>1, PacketFacts
  <2> QED  BY <1>9, <2>2 DEF Begun
<1>11. \A s \in Sides : Counted(ses[s])
  <2>1. IsSeq(<<>>) /\ NothingAside.data = <<>> /\ NothingAside.beats = 0 /\ NothingAside.size = 0
    BY SeqMake, AsideFacts
  <2> QED  BY <1>9, <2>1 DEF Begun, Counted
<1>12. ses = [s \in Sides |-> ses[s]] /\ wire = [s \in Sides |-> wire[s]]
  BY <1>4
<1> QED  BY <1>9, <1>10, <1>11, <1>12 DEF Typed, Shaped

-----------------------------------------------------------------------------
\* The data of a wire: the numbers n + 1 .. k, in rising order.

Delivers(q, n, k) ==
    /\ n <= k
    /\ {q[i].msg.n : i \in DataOn(q)} = n + 1 .. k
    /\ \A i, j \in DataOn(q) : i < j => q[i].msg.n < q[j].msg.n

LEMMA JoinParts ==
    ASSUME NEW q, NEW o, IsSeq(q), IsSeq(o), NEW v, v = q \o o
    PROVE  /\ Len(v) = Len(q) + Len(o) /\ Len(q) \in Nat /\ Len(o) \in Nat
           /\ DOMAIN q = 1 .. Len(q) /\ DOMAIN o = 1 .. Len(o) /\ DOMAIN v = 1 .. Len(v)
           /\ \A i \in DOMAIN q : v[i] = q[i]
           /\ \A i \in DOMAIN o : v[Len(q) + i] = o[i]
BY SeqJoin

LEMMA DeliversOver ==
    ASSUME NEW q, NEW o, IsSeq(q), IsSeq(o), NEW n \in Nat, NEW k \in Nat, Delivers(q, n, k),
           \A i \in DOMAIN o : o[i].msg.t # "DATA"
    PROVE  Delivers(q \o o, n, k)
<1> DEFINE v == q \o o
<1>0. v = q \o o
  OBVIOUS
<1> HIDE DEF v
<1>1. /\ Len(v) = Len(q) + Len(o) /\ Len(q) \in Nat /\ Len(o) \in Nat
      /\ DOMAIN q = 1 .. Len(q) /\ DOMAIN o = 1 .. Len(o) /\ DOMAIN v = 1 .. Len(v)
      /\ \A i \in DOMAIN q : v[i] = q[i]
      /\ \A i \in DOMAIN o : v[Len(q) + i] = o[i]
  BY <1>0, JoinParts
<1>2. \A i \in DOMAIN v : i \in DOMAIN q \/ (i - Len(q) \in DOMAIN o /\ v[i] = o[i - Len(q)])
  BY <1>1
<1>3. \A i \in DOMAIN q : i \in DOMAIN v
  BY <1>1
<1>4. DataOn(v) = DataOn(q)
  <2>1. ASSUME NEW i \in DataOn(v) PROVE i \in DataOn(q)
    BY <1>1, <1>2, <2>1 DEF DataOn
  <2>2. ASSUME NEW i \in DataOn(q) PROVE i \in DataOn(v)
    BY <1>1, <1>3, <2>2 DEF DataOn
  <2> QED  BY <2>1, <2>2
<1>5. \A i \in DataOn(q) : v[i] = q[i]
  BY <1>1 DEF DataOn
<1>6. {v[i].msg.n : i \in DataOn(v)} = {q[i].msg.n : i \in DataOn(q)}
  BY <1>4, <1>5
<1>7. \A i, j \in DataOn(v) : i < j => v[i].msg.n < v[j].msg.n
  BY <1>4, <1>5 DEF Delivers
<1>8. Delivers(v, n, k)
  BY <1>6, <1>7 DEF Delivers
<1> QED  BY <1>8 DEF v

OneDatum(o, n) == Len(o) = 1 /\ o[1].msg.t = "DATA" /\ o[1].msg.n = n

LEMMA DeliversMore ==
    ASSUME NEW q, NEW o, IsSeq(q), IsSeq(o), NEW n \in Nat, NEW k \in Nat, Delivers(q, n, k),
           OneDatum(o, k + 1)
    PROVE  Delivers(q \o o, n, k + 1)
<1> DEFINE v == q \o o
           e == Len(q) + 1
<1>1. /\ Len(v) = Len(q) + Len(o) /\ Len(q) \in Nat /\ Len(o) \in Nat
      /\ DOMAIN q = 1 .. Len(q) /\ DOMAIN o = 1 .. Len(o) /\ DOMAIN v = 1 .. Len(v)
      /\ \A i \in DOMAIN q : v[i] = q[i]
      /\ \A i \in DOMAIN o : v[Len(q) + i] = o[i]
  BY SeqJoin
<1> HIDE DEF v
<1>2. /\ DOMAIN v = DOMAIN q \cup {e} /\ e \in Nat /\ \A i \in DOMAIN q : i \in Nat /\ i < e
      /\ v[e] = o[1]
  BY <1>1 DEF OneDatum
<1> HIDE DEF e
<1>3. DataOn(v) = DataOn(q) \cup {e}
  <2>1. ASSUME NEW i \in DataOn(v) PROVE i \in DataOn(q) \cup {e}
    BY <1>1, <1>2, <2>1 DEF DataOn
  <2>2. ASSUME NEW i \in DataOn(q) PROVE i \in DataOn(v)
    BY <1>1, <1>2, <2>2 DEF DataOn
  <2>3. e \in DataOn(v)
    BY <1>2 DEF DataOn, OneDatum
  <2> QED  BY <2>1, <2>2, <2>3
<1>4. \A i \in DataOn(q) : v[i] = q[i] /\ i \in Nat /\ i < e
  BY <1>1, <1>2 DEF DataOn
<1>5. {v[i].msg.n : i \in DataOn(v)} = {q[i].msg.n : i \in DataOn(q)} \cup {k + 1}
  BY <1>2, <1>3, <1>4 DEF OneDatum
<1>6. n + 1 .. k + 1 = (n + 1 .. k) \cup {k + 1}
  BY DEF Delivers
<1>7. \A i \in DataOn(q) : q[i].msg.n \in Nat /\ q[i].msg.n < k + 1
  <2>1. \A i \in DataOn(q) : q[i].msg.n \in n + 1 .. k
    BY DEF Delivers
  <2> QED  BY <2>1
<1>8. ASSUME NEW i \in DataOn(v), NEW j \in DataOn(v), i < j PROVE v[i].msg.n < v[j].msg.n
  <2>1. CASE i \in DataOn(q) /\ j \in DataOn(q)
    BY <2>1, <1>4, <1>8 DEF Delivers
  <2>2. CASE i \in DataOn(q) /\ j = e
    BY <2>2, <1>2, <1>4, <1>7 DEF OneDatum
  <2>3. CASE i = e /\ j \in DataOn(q)
    <3>1. j \in Nat /\ e \in Nat /\ j < e /\ e < j
      BY <2>3, <1>2, <1>4, <1>8
    <3> QED  BY <3>1
  <2>4. CASE i = e /\ j = e
    BY <2>4, <1>2, <1>8
  <2> QED  BY <1>3, <2>1, <2>2, <2>3, <2>4
<1>9. n <= k + 1
  BY DEF Delivers
<1>10. Delivers(v, n, k + 1)
  BY <1>5, <1>6, <1>8, <1>9 DEF Delivers
<1> QED  BY <1>10 DEF v

LEMMA DeliversLess ==
    ASSUME NEW q, IsSeq(q), q # <<>>, NEW n \in Nat, NEW k \in Nat, Delivers(q, n, k)
    PROVE  /\ Head(q).msg.t # "DATA" => Delivers(Tail(q), n, k)
           /\ Head(q).msg.t = "DATA" => Head(q).msg.n = n + 1 /\ Delivers(Tail(q), n + 1, k)
<1> DEFINE h == Tail(q)
           D == DataOn(q)
           N(i) == q[i].msg.n
<1>1. /\ IsSeq(h) /\ Len(q) \in Nat \ {0} /\ Len(h) = Len(q) - 1
      /\ DOMAIN q = 1 .. Len(q) /\ DOMAIN h = 1 .. Len(h)
      /\ Head(q) = q[1] /\ \A i \in DOMAIN h : h[i] = q[i + 1]
  BY SeqTail
<1> HIDE DEF h
<1>2. /\ \A i \in DOMAIN h : i + 1 \in DOMAIN q /\ i + 1 # 1
      /\ \A i \in DOMAIN q : i # 1 => i - 1 \in DOMAIN h /\ h[i - 1] = q[i] /\ (i - 1) + 1 = i
      /\ 1 \in DOMAIN q /\ \A i \in DOMAIN q : i \in Nat /\ 1 <= i
  BY <1>1
<1>3. \A i \in DataOn(h) : i + 1 \in D /\ i + 1 # 1 /\ h[i].msg.n = N(i + 1)
  BY <1>1, <1>2 DEF DataOn
<1>4. \A i \in D : i # 1 => i - 1 \in DataOn(h) /\ h[i - 1].msg.n = N(i)
  BY <1>1, <1>2 DEF DataOn
<1>5. \A i, j \in DataOn(h) : i < j => h[i].msg.n < h[j].msg.n
  <2> SUFFICES ASSUME NEW i \in DataOn(h), NEW j \in DataOn(h), i < j
               PROVE  h[i].msg.n < h[j].msg.n
    OBVIOUS
  <2>1. i + 1 < j + 1
    BY <1>1 DEF DataOn
  <2>2. \A a, b \in D : a < b => N(a) < N(b)
    BY DEF Delivers
  <2> QED  BY <1>3, <2>1, <2>2
<1>6. {h[i].msg.n : i \in DataOn(h)} = {N(i) : i \in D \ {1}}
  BY <1>3, <1>4, <1>2
<1>7. {N(i) : i \in D} = n + 1 .. k /\ n <= k /\ \A i, j \in D : i < j => N(i) < N(j)
  BY DEF Delivers
<1>8. \A i \in D : i \in Nat /\ 1 <= i
  BY <1>2 DEF DataOn
<1>9. 1 \in D <=> Head(q).msg.t = "DATA"
  BY <1>1, <1>2 DEF DataOn
<1> HIDE DEF D, N
<1>10. CASE 1 \notin D
  <2>1. D \ {1} = D
    BY <1>10
  <2>2. Delivers(h, n, k)
    BY <1>5, <1>6, <1>7, <2>1 DEF Delivers
  <2> QED  BY <2>2, <1>9, <1>10 DEF h
<1>11. CASE 1 \in D
  <2>1. N(1) \in n + 1 .. k
    BY <1>7, <1>11
  <2>2. n + 1 \in n + 1 .. k /\ n + 1 <= k
    BY <2>1
  <2>3. PICK i \in D : N(i) = n + 1
    BY <1>7, <2>2
  <2>4. i = 1
    <3> SUFFICES ASSUME i # 1 PROVE FALSE
      OBVIOUS
    <3>1. 1 < i
      BY <1>8
    <3>2. N(1) < N(i)
      BY <1>7, <1>11, <3>1
    <3> QED  BY <2>1, <2>3, <3>2
  <2>5. {N(j) : j \in D \ {1}} = (n + 1) + 1 .. k
    <3>1. ASSUME NEW j \in D \ {1} PROVE N(j) \in (n + 1) + 1 .. k
      <4>1. 1 < j /\ N(j) \in n + 1 .. k
        BY <1>7, <1>8
      <4>2. N(1) < N(j)
        BY <4>1, <1>7, <1>11
      <4> QED  BY <2>3, <2>4, <4>1, <4>2
    <3>2. ASSUME NEW a \in (n + 1) + 1 .. k PROVE \E j \in D \ {1} : N(j) = a
      <4>1. a \in n + 1 .. k /\ a # n + 1
        OBVIOUS
      <4>2. PICK j \in D : N(j) = a
        BY <4>1, <1>7
      <4> QED  BY <4>1, <4>2, <2>3, <2>4
    <3> QED  BY <3>1, <3>2
  <2>6. Delivers(h, n + 1, k)
    BY <1>5, <1>6, <2>2, <2>5 DEF Delivers
  <2>7. Head(q).msg.n = n + 1
    BY <1>1, <2>3, <2>4 DEF N
  <2> QED  BY <2>6, <2>7, <1>9, <1>11 DEF h
<1> QED  BY <1>10, <1>11

-----------------------------------------------------------------------------
\* Data: what a session has taken and put aside is 1, 2, 3 ...

Counts(v) == \A i \in DOMAIN v : v[i] = i
Due(y) == y.got \o y.stash.data
Plus(v, n) == v \o <<n>>

\* Nothing is put aside outside of a re-exchange.
Received(y, x, q) ==
    /\ Counts(y.got)
    /\ y.end = "no" => Counts(Due(y)) /\ Delivers(q, Len(Due(y)), x.sent)
    /\ y.phase = "idle" => y.stash.data = <<>>

DataInv == \A s \in Sides : Received(ses[s], ses[Peer(s)], wire[Peer(s)])

LEMMA CountsOne ==
    ASSUME NEW v, IsSeq(v), Counts(v)
    PROVE  Counts(v \o <<Len(v) + 1>>) /\ Len(v \o <<Len(v) + 1>>) = Len(v) + 1
<1> DEFINE n == Len(v) + 1
           w == <<n>>
           u == v \o w
<1>0. IsSeq(w)
  BY SeqMake
<1>1. Len(w) = 1 /\ w[1] = n
  OBVIOUS
<1> HIDE DEF w, n
<1>2. /\ Len(u) = Len(v) + Len(w) /\ Len(v) \in Nat
      /\ DOMAIN v = 1 .. Len(v) /\ DOMAIN w = 1 .. Len(w) /\ DOMAIN u = 1 .. Len(u)
      /\ \A i \in DOMAIN v : u[i] = v[i]
      /\ \A i \in DOMAIN w : u[Len(v) + i] = w[i]
  BY <1>0, SeqJoin
<1> HIDE DEF u
<1>3. Len(u) = n /\ u[n] = n
  BY <1>1, <1>2 DEF n
<1>4. \A i \in DOMAIN u : i = n \/ i \in DOMAIN v
  BY <1>2, <1>3 DEF n
<1>5. Counts(u)
  BY <1>2, <1>3, <1>4 DEF Counts
<1> QED  BY <1>3, <1>5 DEF u, w, n

LEMMA JoinAssociative ==
    ASSUME NEW u, NEW v, NEW w, IsSeq(u), IsSeq(v), IsSeq(w)
    PROVE  u \o (v \o w) = (u \o v) \o w
<1>1. PICK S : u \in Seq(S)
  BY DEF IsSeq
<1>2. PICK T : v \in Seq(T)
  BY DEF IsSeq
<1>3. PICK R : w \in Seq(R)
  BY DEF IsSeq
<1>4. u \in Seq(S \cup T \cup R) /\ v \in Seq(S \cup T \cup R) /\ w \in Seq(S \cup T \cup R)
  BY <1>1, <1>2, <1>3
<1> QED  BY <1>4

\* Reading, as the data sees it.
TakesData(x, m, z, msgs) ==
    /\ z.end = "no" => Due(z) = (IF m.t = "DATA" THEN Plus(Due(x), m.n) ELSE Due(x))
    /\ z.got = x.got \/ (z.end = "no" /\ z.got = Due(z))
    /\ z.phase = "idle" => z.stash.data = <<>>
    /\ z.sent = x.sent /\ \A i \in DOMAIN msgs : msgs[i].t # "DATA"

LEMMA TookData ==
    ASSUME NEW s, NEW x, Counted(x), x.end = "no", NEW m, NEW z, NEW msgs,
           Took(s, x, m, z, msgs), x.phase = "idle" => x.stash.data = <<>>
    PROVE  TakesData(x, m, z, msgs)
<1> USE DEF TakesData
<1>1. IsSeq(x.got) /\ IsSeq(x.stash.data) /\ x.stash.beats \in Nat /\ x.stash.size \in Nat
  BY DEF Counted
<1>2. x.got \o <<>> = x.got /\ IsSeq(<<>>)
  BY <1>1, SeqMake, SeqJoin
<1>3. DOMAIN <<>> = {}
  OBVIOUS
<1>4. CASE Died(x, z, msgs)
  BY <1>4, <1>3 DEF Died, KeepsData, KeepsExchange
<1>5. CASE TookKeys(s, x, m, z, msgs)
  <2>1. IsSeq(Due(x)) /\ Due(x) \o <<>> = Due(x)
    BY <1>1, <1>2, SeqJoin DEF Due
  <2>2. /\ z.got = Due(x) /\ z.stash.data = <<>> /\ z.sent = x.sent /\ z.end = x.end
        /\ m.t # "DATA" /\ msgs = ExtInfo(s, x) \o Answers(x.stash)
    BY <1>5, AsideFacts DEF TookKeys, Due
  <2>3. Due(z) = Due(x)
    BY <2>1, <2>2 DEF Due
  <2>4. \A i \in DOMAIN msgs : msgs[i].t # "DATA"
    BY <1>1, <2>2, ReleasedFacts
  <2> QED  BY <2>2, <2>3, <2>4
<1>6. CASE TookOther(x, m, z, msgs)
  <2> DEFINE d == PutAside(NothingAside, m)
  <2>1. /\ IsSeq(d.data) /\ d.beats \in Nat
        /\ d.data = IF m.t = "DATA" THEN <<m.n>> ELSE <<>>
    BY AsideFacts
  <2> HIDE DEF d
  <2>2. /\ msgs = Answers(d) /\ z.got = x.got \o d.data /\ z.stash = x.stash /\ z.sent = x.sent
        /\ z.end = "no" /\ z.phase = x.phase /\ x.phase = "idle"
    BY <1>6 DEF TookOther, d, KeepsExchange
  <2>3. x.stash.data = <<>> /\ Due(x) = x.got
    BY <1>2, <2>2 DEF Due
  <2>4. IsSeq(z.got)
    BY <1>1, <2>1, <2>2, SeqJoin
  <2>5. z.got \o <<>> = z.got
    BY <1>2, <2>4, SeqJoin
  <2>6. Due(z) = z.got
    BY <2>2, <2>3, <2>5 DEF Due
  <2>7. z.got = IF m.t = "DATA" THEN Plus(Due(x), m.n) ELSE Due(x)
    BY <1>2, <2>1, <2>2, <2>3 DEF Plus
  <2>8. \A i \in DOMAIN msgs : msgs[i].t # "DATA"
    BY <2>1, <2>2, AnswersFacts
  <2> QED  BY <2>2, <2>3, <2>6, <2>7, <2>8
<1>7. CASE KeptOther(x, m, z, msgs)
  <2> DEFINE p == x.stash
             d == PutAside(p, m)
  <2>1. z.stash = d /\ z.got = x.got /\ z.sent = x.sent /\ msgs = <<>> /\ z.phase = "init"
    BY <1>7 DEF KeptOther, KeepsExchange
  <2> HIDE DEF p
  <2>2. d.data = IF m.t = "DATA" THEN p.data \o <<m.n>> ELSE p.data
    BY <1>1, PutAsideFacts DEF p
  <2> HIDE DEF d
  <2>3. Due(z) = (IF m.t = "DATA" THEN Plus(Due(x), m.n) ELSE Due(x))
    <3>1. CASE m.t # "DATA"
      BY <3>1, <2>1, <2>2 DEF Due, p
    <3>2. CASE m.t = "DATA"
      <4>1. IsSeq(p.data) /\ IsSeq(<<m.n>>)
        BY <1>1, SeqMake DEF p
      <4>2. x.got \o (p.data \o <<m.n>>) = (x.got \o p.data) \o <<m.n>>
        <5> DEFINE a == x.got
                   b == p.data
                   c == <<m.n>>
        <5>1. IsSeq(a) /\ IsSeq(b) /\ IsSeq(c)
          BY <1>1, <4>1
        <5> HIDE DEF a, b, c
        <5>2. a \o (b \o c) = (a \o b) \o c
          <6>1. \A u, v, w : IsSeq(u) /\ IsSeq(v) /\ IsSeq(w) => u \o (v \o w) = (u \o v) \o w
            BY JoinAssociative
          <6> QED  BY <5>1, <6>1
        <5> QED  BY <5>2 DEF a, b, c
      <4> QED  BY <3>2, <2>1, <2>2, <4>2 DEF Due, p, Plus
    <3> QED  BY <3>1, <3>2
  <2>4. z.phase # "idle"
    BY <2>1
  <2> QED  BY <1>3, <2>1, <2>3, <2>4
<1>8. CASE ClientTookInit(x, m, z, msgs) \/ ServerTookInit(x, m, z, msgs)
  <2>1. /\ KeepsData(x, z) /\ z.phase \in {"dh", "dhdone"} /\ m.t = "KEXINIT"
        /\ \E n : msgs = <<>> \/ msgs = <<EI(n)>> \/ msgs = <<KI(n)>> \/ msgs = <<KI(n), EI(n)>>
    BY <1>8 DEF ClientTookInit, ServerTookInit
  <2>2. PICK n : msgs = <<>> \/ msgs = <<EI(n)>> \/ msgs = <<KI(n)>> \/ msgs = <<KI(n), EI(n)>>
    BY <2>1
  <2>3. \A i \in DOMAIN msgs : msgs[i].t # "DATA"
    BY <2>2 DEF KI, EI
  <2>4. z.phase # "idle" /\ m.t # "DATA"
    BY <2>1
  <2> QED  BY <2>1, <2>3, <2>4 DEF KeepsData, Due
<1>9. CASE ClientTookReply(x, m, z, msgs) \/ ServerTookEcdh(x, m, z, msgs)
  <2>1. /\ KeepsData(x, z) /\ z.phase = "keys" /\ m.t \in {"ECDH_REPLY", "ECDH_INIT"}
        /\ \E n, h : msgs = <<NK>> \/ msgs = <<ER(n, h), NK>>
    BY <1>9 DEF ClientTookReply, ServerTookEcdh, Computed
  <2>2. PICK n, h : msgs = <<NK>> \/ msgs = <<ER(n, h), NK>>
    BY <2>1
  <2>3. \A i \in DOMAIN msgs : msgs[i].t # "DATA"
    BY <2>2 DEF NK, ER
  <2>4. z.phase # "idle" /\ m.t # "DATA"
    BY <2>1
  <2> QED  BY <2>1, <2>3, <2>4 DEF KeepsData, Due
<1> QED  BY <1>4, <1>5, <1>6, <1>7, <1>8, <1>9 DEF Took

\* Writing, as the data sees it.
LEMMA WroteData ==
    ASSUME Typed, NEW s \in Sides, NEW z, NEW msgs, NEW w, Steps(s, z, msgs, w), DataInv,
           NEW n \in Nat, Delivers(wire[s], n, ses[s].sent)
    PROVE  Delivers(Written(s, z, msgs), n, z.sent)
<1> DEFINE q == wire[s]
           o == Packets(z.wkey, ses[s].wseq, msgs)
           x == ses[s]
<1>0. Written(s, z, msgs) = q \o o /\ IsSeq(q)
  BY DEF Written, Typed, Shaped
<1>1. /\ IsSeq(o) /\ Len(o) = Len(msgs) /\ DOMAIN o = DOMAIN msgs
      /\ \A i \in DOMAIN msgs : o[i].msg = msgs[i]
  BY PacketFacts DEF Steps
<1>2. x.sent \in Nat /\ Counted(x) /\ x.end = "no" /\ (x.phase = "idle" => x.stash.data = <<>>)
  BY DEF Typed, Counted, Steps, Stepped, DataInv, Received
<1>3. CASE z.sent = x.sent /\ \A i \in DOMAIN msgs : msgs[i].t # "DATA"
  <2> HIDE DEF o, q
  <2>1. \A i \in DOMAIN o : o[i].msg.t # "DATA"
    BY <1>1, <1>3
  <2>2. Delivers(q \o o, n, x.sent)
    BY <1>0, <1>1, <1>2, <2>1, DeliversOver DEF q
  <2> QED  BY <1>0, <1>3, <2>2
<1>4. CASE SentData(x, z, msgs)
  <2>1. z.sent = x.sent + 1 /\ msgs = <<[t |-> "DATA", n |-> x.sent + 1]>>
    BY <1>4 DEF SentData
  <2>2. Len(msgs) = 1 /\ 1 \in DOMAIN msgs /\ msgs[1].t = "DATA" /\ msgs[1].n = x.sent + 1
    BY <2>1
  <2> HIDE DEF o, q
  <2>3. OneDatum(o, x.sent + 1)
    BY <1>1, <2>2 DEF OneDatum
  <2>4. Delivers(q \o o, n, x.sent + 1)
    BY <1>0, <1>1, <1>2, <2>3, DeliversMore DEF q
  <2> QED  BY <1>0, <2>1, <2>4
<1>5. CASE OwnStep(s, z, msgs) /\ ~SentData(x, z, msgs)
  <2>1. Rekeyed(s, x, z, msgs) \/ Beat(x, z, msgs) \/ Died(x, z, msgs)
    BY <1>5 DEF OwnStep, Did
  <2>2. z.sent = x.sent /\ (msgs = <<>> \/ msgs = <<[t |-> "KEEPALIVE"]>> \/ msgs = <<KI(z.inits)>>)
    BY <2>1 DEF Rekeyed, Beat, Died, KeepsData
  <2>3. \A i \in DOMAIN msgs : msgs[i].t # "DATA"
    BY <2>2 DEF KI
  <2> QED  BY <1>3, <2>2, <2>3
<1>6. CASE ReadStep(s, z, msgs)
  <2> DEFINE m == Head(wire[Peer(s)]).msg
  <2>1. PICK y : Advanced(x, y) /\ Took(s, y, m, z, msgs)
    BY <1>6 DEF ReadStep
  <2> HIDE DEF m
  <2>2. /\ Counted(y) /\ y.end = "no" /\ (y.phase = "idle" => y.stash.data = <<>>)
        /\ y.sent = x.sent
    BY <1>2, <2>1 DEF Advanced, KeepsData, KeepsExchange, Counted
  <2>3. z.sent = y.sent /\ \A i \in DOMAIN msgs : msgs[i].t # "DATA"
    <3>1. TakesData(y, m, z, msgs)
      BY <2>1, <2>2, TookData
    <3> QED  BY <3>1 DEF TakesData
  <2> QED  BY <1>3, <2>2, <2>3
<1> QED  BY <1>4, <1>5, <1>6 DEF Steps

\* The side that stepped, as the reader of its peer.
LEMMA ReadData ==
    ASSUME Typed, NEW s \in Sides, NEW z, NEW msgs, NEW w, Steps(s, z, msgs, w),
           Received(ses[s], ses[Peer(s)], wire[Peer(s)])
    PROVE  Received(z, ses[Peer(s)], w)
<1> DEFINE p == Peer(s)
           x == ses[s]
           q == wire[p]
           k == ses[p].sent
<1>1. /\ Counts(x.got) /\ x.end = "no" /\ Counts(Due(x)) /\ Delivers(q, Len(Due(x)), k)
      /\ (x.phase = "idle" => x.stash.data = <<>>)
  BY DEF Steps, Stepped, Received
<1>2. Counted(x) /\ IsSeq(q) /\ k \in Nat
  BY PeerFacts DEF Typed, Shaped, Counted
<1>3. IsSeq(Due(x)) /\ Len(Due(x)) \in Nat
  <2>1. IsSeq(x.got) /\ IsSeq(x.stash.data)
    BY <1>2 DEF Counted
  <2>2. IsSeq(Due(x))
    BY <2>1, SeqJoin DEF Due
  <2> QED  BY <2>2, SeqJoin
<1>4. CASE OwnStep(s, z, msgs) /\ w = q
  <2>1. Did(s, x, z, msgs)
    BY <1>4 DEF OwnStep
  <2>2. /\ z.got = x.got /\ z.stash = x.stash
        /\ (z.phase = x.phase \/ z.phase = "init")
    BY <2>1 DEF Did, Rekeyed, SentData, Beat, Died, KeepsData, KeepsExchange
  <2>3. Due(z) = Due(x)
    BY <2>2 DEF Due
  <2> QED  BY <1>1, <1>4, <2>2, <2>3 DEF Received
<1>5. CASE ReadStep(s, z, msgs) /\ q # <<>> /\ w = Tail(q)
  <2> DEFINE m == Head(q).msg
  <2>1. PICK y : Advanced(x, y) /\ Took(s, y, m, z, msgs)
    BY <1>5 DEF ReadStep
  <2>2. /\ Counted(y) /\ y.end = "no" /\ (y.phase = "idle" => y.stash.data = <<>>)
        /\ y.got = x.got /\ Due(y) = Due(x)
    BY <1>1, <1>2, <2>1 DEF Advanced, KeepsData, KeepsExchange, Counted, Due
  <2>3. /\ z.end = "no" => Due(z) = (IF m.t = "DATA" THEN Plus(Due(x), m.n) ELSE Due(x))
        /\ z.got = x.got \/ (z.end = "no" /\ z.got = Due(z))
        /\ z.phase = "idle" => z.stash.data = <<>>
    <3> HIDE DEF m, x, q, k, p
    <3>1. /\ z.end = "no" => Due(z) = (IF m.t = "DATA" THEN Plus(Due(y), m.n) ELSE Due(y))
          /\ z.got = y.got \/ (z.end = "no" /\ z.got = Due(z))
          /\ z.phase = "idle" => z.stash.data = <<>>
      <4>1. Counted(y) /\ y.end = "no" /\ Took(s, y, m, z, msgs)
        BY <2>1, <2>2
      <4>2. y.phase = "idle" => y.stash.data = <<>>
        BY <2>2
      <4>3. TakesData(y, m, z, msgs)
        BY <4>1, <4>2, TookData
      <4> QED  BY <4>3 DEF TakesData
    <3> QED  BY <2>2, <3>1
  <2>4. /\ m.t # "DATA" => Delivers(w, Len(Due(x)), k)
        /\ m.t = "DATA" => m.n = Len(Due(x)) + 1 /\ Delivers(w, Len(Due(x)) + 1, k)
    BY <1>1, <1>2, <1>3, <1>5, DeliversLess
  <2> HIDE DEF m, k, q, x, p
  <2>5. ASSUME z.end = "no" PROVE Counts(Due(z)) /\ Delivers(w, Len(Due(z)), k)
    <3>1. CASE m.t # "DATA"
      BY <3>1, <2>3, <2>4, <2>5, <1>1
    <3>2. CASE m.t = "DATA"
      <4>1. Due(z) = Plus(Due(x), Len(Due(x)) + 1)
        BY <3>2, <2>3, <2>4, <2>5
      <4>2. Counts(Due(z)) /\ Len(Due(z)) = Len(Due(x)) + 1
        <5> DEFINE v == Due(x)
        <5>1. IsSeq(v) /\ Counts(v)
          BY <1>1, <1>3
        <5>2. Due(z) = v \o <<Len(v) + 1>>
          BY <4>1 DEF Plus
        <5> HIDE DEF v
        <5>3. Counts(v \o <<Len(v) + 1>>) /\ Len(v \o <<Len(v) + 1>>) = Len(v) + 1
          BY <5>1, CountsOne
        <5> QED  BY <5>2, <5>3 DEF v
      <4> QED  BY <3>2, <2>4, <4>2
    <3> QED  BY <3>1, <3>2
  <2>6. Counts(z.got)
    BY <1>1, <2>3, <2>5
  <2> QED  BY <2>3, <2>5, <2>6 DEF Received, k, p
<1> QED  BY <1>4, <1>5 DEF Steps

LEMMA DataKept ==
    ASSUME Typed, DataInv, NEW s \in Sides, NEW z, NEW msgs, NEW w, Steps(s, z, msgs, w)
    PROVE  DataInv'
<1> DEFINE p == Peer(s)
           v == Written(s, z, msgs)
<1>1. p \in Sides /\ p # s /\ Peer(p) = s /\ \A t \in Sides : t = s \/ t = p
  BY DEF Sides, Peer
<1>2. ses'[s] = z /\ ses'[p] = ses[p] /\ wire'[s] = v /\ wire'[p] = w
  <2> HIDE DEF p, v
  <2>1. /\ ses'[s] = z /\ ses'[Peer(s)] = ses[Peer(s)]
        /\ wire'[s] = Written(s, z, msgs) /\ wire'[Peer(s)] = w
    BY SteppedFacts DEF Typed, Steps
  <2> QED  BY <2>1 DEF p, v
<1>3. Received(z, ses[p], w)
  BY ReadData DEF DataInv
<1>4. Received(ses[p], z, v)
  <2>1. Received(ses[p], ses[s], wire[s])
    BY <1>1 DEF DataInv
  <2>2. IsSeq(wire[s]) /\ Counted(ses[p])
    BY <1>1 DEF Typed, Shaped
  <2>3. Len(Due(ses[p])) \in Nat
    <3>1. IsSeq(ses[p].got) /\ IsSeq(ses[p].stash.data)
      BY <2>2 DEF Counted
    <3>2. IsSeq(Due(ses[p]))
      BY <3>1, SeqJoin DEF Due
    <3> QED  BY <3>2, SeqJoin
  <2>4. ASSUME ses[p].end = "no" PROVE Delivers(v, Len(Due(ses[p])), z.sent)
    <3>1. Delivers(wire[s], Len(Due(ses[p])), ses[s].sent)
      BY <2>1, <2>4 DEF Received
    <3> QED  BY <2>2, <2>3, <3>1, WroteData
  <2> HIDE DEF v
  <2> QED  BY <2>1, <2>4 DEF Received
<1> HIDE DEF p, v
<1>5. ASSUME NEW t \in Sides PROVE Received(ses'[t], ses'[Peer(t)], wire'[Peer(t)])
  <2>1. CASE t = s
    BY <2>1, <1>2, <1>3 DEF p
  <2>2. CASE t = p
    BY <2>2, <1>1, <1>2, <1>4
  <2> QED  BY <1>1, <2>1, <2>2
<1> QED  BY <1>5 DEF DataInv

LEMMA DataInit == Init => Typed /\ DataInv
<1> SUFFICES ASSUME Init PROVE Typed /\ DataInv
  OBVIOUS
<1>1. Typed /\ \A s \in Sides : Begun(s, ses[s]) /\ wire[s] = Packets(Clear, 0, <<KI(1)>>)
  BY InitFacts
<1> DEFINE q == Packets(Clear, 0, <<KI(1)>>)
<1>2. DataOn(q) = {}
  <2> DEFINE m == KI(1)
             ms == <<m>>
  <2>0. m.t = "KEXINIT"
    BY DEF KI
  <2> HIDE DEF m
  <2>1. IsSeq(ms) /\ \A i \in DOMAIN ms : ms[i].t = "KEXINIT"
    <3>1. IsSeq(ms)
      BY SeqMake
    <3>2. DOMAIN ms = {1} /\ ms[1] = m
      OBVIOUS
    <3> HIDE DEF ms
    <3> QED  BY <2>0, <3>1, <3>2
  <2>4. q = Packets(Clear, 0, ms)
    BY DEF m
  <2> HIDE DEF ms, q
  <2>2. DOMAIN q = DOMAIN ms /\ \A i \in DOMAIN ms : q[i].msg = ms[i]
    BY <2>1, <2>4, PacketFacts
  <2>3. \A i \in DOMAIN q : q[i].msg.t # "DATA"
    BY <2>1, <2>2
  <2> HIDE DEF q
  <2> QED  BY <2>3 DEF DataOn
<1> HIDE DEF q
<1>3. Delivers(q, 0, 0)
  BY <1>2 DEF Delivers
<1>4. ASSUME NEW s \in Sides PROVE Received(ses[s], ses[Peer(s)], wire[Peer(s)])
  <2>1. Begun(s, ses[s]) /\ Begun(Peer(s), ses[Peer(s)]) /\ wire[Peer(s)] = q
    BY <1>1, PeerFacts DEF q
  <2>2. ses[s].got = <<>> /\ ses[s].stash.data = <<>> /\ ses[Peer(s)].sent = 0
    BY <2>1, AsideFacts DEF Begun
  <2>3. Due(ses[s]) = <<>>
    <3>1. IsSeq(<<>>)
      BY SeqMake
    <3>2. <<>> \o <<>> = <<>>
      BY <3>1, SeqJoin
    <3> QED  BY <2>2, <3>2 DEF Due
  <2>4. Counts(<<>>) /\ Len(<<>>) = 0
    BY DEF Counts
  <2> QED  BY <1>3, <2>1, <2>2, <2>3, <2>4 DEF Received
<1> QED  BY <1>1, <1>4 DEF DataInv

\* Unchanged variables change nothing.
LEMMA TypedStutter ==
    ASSUME Typed, UNCHANGED vars
    PROVE  Typed' /\ ses' = ses /\ wire' = wire /\ prefs' = prefs
BY DEF Typed, Shaped, vars

\* Whatever re-exchanges, keepalives and deaths there are, the data of each
\* direction is processed once and in order, and none of it is missing while
\* the receiver lives.
THEOREM NothingIsLost == Spec => []NothingLost
<1>1. Init => Typed /\ DataInv
  BY DataInit
<1>2. Typed /\ DataInv /\ [Next]_vars => (Typed /\ DataInv)'
  <2>1. ASSUME Typed, DataInv, Next PROVE (Typed /\ DataInv)'
    <3>1. PICK s \in Sides : \E z, msgs, w : Steps(s, z, msgs, w)
      BY <2>1, NextSteps
    <3>2. PICK z, msgs, w : Steps(s, z, msgs, w)
      BY <3>1
    <3> QED  BY <2>1, <3>2, TypedKept, DataKept
  <2>2. ASSUME Typed, DataInv, UNCHANGED vars PROVE (Typed /\ DataInv)'
    BY <2>2, TypedStutter DEF DataInv
  <2> QED  BY <2>1, <2>2
<1>3. Typed /\ DataInv => NothingLost
  <2> SUFFICES ASSUME Typed, DataInv PROVE NothingLost
    OBVIOUS
  <2>1. ASSUME NEW s \in Sides, NEW due, due = ses[s].got \o ses[s].stash.data,
               NEW q, q = wire[Peer(s)]
        PROVE  /\ \A i \in DOMAIN ses[s].got : ses[s].got[i] = i
               /\ ses[s].end = "no" =>
                     /\ \A i \in DOMAIN due : due[i] = i
                     /\ {q[i].msg.n : i \in DataOn(q)} = Len(due) + 1 .. ses[Peer(s)].sent
                     /\ \A i, j \in DataOn(q) : i < j => q[i].msg.n < q[j].msg.n
    <3>1. Received(ses[s], ses[Peer(s)], q) /\ due = Due(ses[s])
      BY <2>1 DEF DataInv, Due
    <3> QED  BY <3>1 DEF Received, Counts, Delivers
  <2> QED  BY <2>1 DEF NothingLost
<1> QED  BY <1>1, <1>2, <1>3, PTL DEF Spec

-----------------------------------------------------------------------------
\* The messages of the exchanges on a wire, in their order.

\* The messages at the places f are all those of the exchanges.
MarkedAt(w, q, f) ==
    /\ \A i \in DOMAIN q : f[i] \in DOMAIN w /\ w[f[i]].msg = q[i] /\ q[i].t \notin Others
    /\ \A i, j \in DOMAIN q : i < j => f[i] < f[j]
    /\ \A k \in DOMAIN w : w[k].msg.t \notin Others => \E i \in DOMAIN q : k = f[i]
Marks(w, q) == IsSeq(q) /\ \E f : MarkedAt(w, q, f)

\* What is written is all of an exchange, or none of it is.
LEMMA MarksMessages ==
    ASSUME NEW key, NEW n, NEW msgs, IsSeq(msgs)
    PROVE  LET o == Packets(key, n, msgs)
           IN  /\ (\A i \in DOMAIN msgs : msgs[i].t \notin Others) => Marks(o, msgs)
               /\ (\A i \in DOMAIN msgs : msgs[i].t \in Others) => Marks(o, <<>>)
<1> DEFINE o == Packets(key, n, msgs)
           f == [i \in DOMAIN msgs |-> i]
<1>1. IsSeq(o) /\ DOMAIN o = DOMAIN msgs /\ \A i \in DOMAIN msgs : o[i].msg = msgs[i]
  BY PacketFacts
<1> HIDE DEF o
<1>2. ASSUME \A i \in DOMAIN msgs : msgs[i].t \notin Others PROVE Marks(o, msgs)
  <2>1. MarkedAt(o, msgs, f)
    BY <1>1, <1>2 DEF MarkedAt
  <2> QED  BY <2>1 DEF Marks
<1>3. ASSUME \A i \in DOMAIN msgs : msgs[i].t \in Others PROVE Marks(o, <<>>)
  <2>1. DOMAIN <<>> = {}
    OBVIOUS
  <2>2. MarkedAt(o, <<>>, f)
    BY <1>1, <1>3, <2>1 DEF MarkedAt
  <2> QED  BY <2>2, SeqMake DEF Marks
<1> QED  BY <1>2, <1>3 DEF o

LEMMA MarksJoin ==
    ASSUME NEW w, NEW o, IsSeq(w), IsSeq(o), NEW q, NEW r, Marks(w, q), Marks(o, r)
    PROVE  Marks(w \o o, q \o r)
<1> DEFINE v == w \o o
           u == q \o r
           N == Len(w)
           M == Len(q)
<1>1. IsSeq(q) /\ IsSeq(r)
  BY DEF Marks
<1>2. /\ Len(v) = N + Len(o) /\ N \in Nat /\ Len(o) \in Nat
      /\ DOMAIN w = 1 .. N /\ DOMAIN o = 1 .. Len(o) /\ DOMAIN v = 1 .. Len(v)
      /\ \A i \in DOMAIN w : v[i] = w[i]
      /\ \A i \in DOMAIN o : v[N + i] = o[i]
  BY SeqJoin
<1>3. /\ IsSeq(u) /\ Len(u) = M + Len(r) /\ M \in Nat /\ Len(r) \in Nat
      /\ DOMAIN q = 1 .. M /\ DOMAIN r = 1 .. Len(r) /\ DOMAIN u = 1 .. Len(u)
      /\ \A i \in DOMAIN q : u[i] = q[i]
      /\ \A i \in DOMAIN r : u[M + i] = r[i]
  BY <1>1, SeqJoin
<1> HIDE DEF v, u, N, M
<1>4. PICK f : MarkedAt(w, q, f)
  BY DEF Marks
<1>5. PICK g : MarkedAt(o, r, g)
  BY DEF Marks
<1> DEFINE h == [i \in DOMAIN u |-> IF i \in DOMAIN q THEN f[i] ELSE N + g[i - M]]
<1>6. \A i \in DOMAIN u : i \in DOMAIN q \/ (i - M \in DOMAIN r /\ M + (i - M) = i /\ i \notin DOMAIN q)
  BY <1>3
<1>7. \A k \in DOMAIN v : k \in DOMAIN w \/ (k - N \in DOMAIN o /\ N + (k - N) = k)
  BY <1>2
<1>8. /\ \A i \in DOMAIN q : i \in DOMAIN u /\ h[i] = f[i]
      /\ \A i \in DOMAIN r : M + i \in DOMAIN u /\ h[M + i] = N + g[i]
  <2>1. \A i \in DOMAIN q : i \in DOMAIN u
    BY <1>3
  <2>2. \A i \in DOMAIN r : M + i \in DOMAIN u /\ M + i \notin DOMAIN q /\ (M + i) - M = i
    BY <1>3
  <2> QED  BY <2>1, <2>2
<1> HIDE DEF h
<1>9. /\ \A i \in DOMAIN q : f[i] \in DOMAIN v /\ v[f[i]].msg = q[i] /\ q[i].t \notin Others
      /\ \A i \in DOMAIN r : /\ N + g[i] \in DOMAIN v /\ v[N + g[i]].msg = r[i]
                             /\ r[i].t \notin Others
  <2>1. \A k \in DOMAIN w : k \in DOMAIN v
    BY <1>2
  <2>2. \A k \in DOMAIN o : N + k \in DOMAIN v
    BY <1>2
  <2> QED  BY <1>2, <1>4, <1>5, <2>1, <2>2 DEF MarkedAt
<1>10. ASSUME NEW i \in DOMAIN u
       PROVE  h[i] \in DOMAIN v /\ v[h[i]].msg = u[i] /\ u[i].t \notin Others
  <2>1. CASE i \in DOMAIN q
    BY <2>1, <1>3, <1>8, <1>9
  <2>2. CASE i - M \in DOMAIN r /\ M + (i - M) = i
    <3> DEFINE j == i - M
    <3>1. j \in DOMAIN r /\ M + j = i
      BY <2>2
    <3> HIDE DEF j
    <3>2. h[i] = N + g[j] /\ u[i] = r[j]
      BY <3>1, <1>3, <1>8
    <3> QED  BY <3>1, <3>2, <1>9
  <2> QED  BY <1>6, <2>1, <2>2
<1>11. ASSUME NEW i \in DOMAIN u, NEW j \in DOMAIN u, i < j PROVE h[i] < h[j]
  <2>1. CASE i \in DOMAIN q /\ j \in DOMAIN q
    BY <2>1, <1>4, <1>8, <1>11 DEF MarkedAt
  <2>2. CASE i \in DOMAIN q /\ j \notin DOMAIN q
    <3>1. j - M \in DOMAIN r /\ M + (j - M) = j
      BY <2>2, <1>6
    <3>2. h[i] = f[i] /\ f[i] \in DOMAIN w /\ h[j] = N + g[j - M] /\ g[j - M] \in DOMAIN o
      BY <2>2, <3>1, <1>4, <1>5, <1>8 DEF MarkedAt
    <3> QED  BY <3>2, <1>2
  <2>3. CASE i \notin DOMAIN q /\ j \in DOMAIN q
    <3>1. i \in DOMAIN q
      BY <2>3, <1>3, <1>11
    <3> QED  BY <2>3, <3>1
  <2>4. CASE i \notin DOMAIN q /\ j \notin DOMAIN q
    <3> DEFINE a == i - M
               b == j - M
    <3>1. a \in DOMAIN r /\ M + a = i /\ b \in DOMAIN r /\ M + b = j
      BY <2>4, <1>6
    <3>2. a < b
      BY <1>3, <1>11
    <3> HIDE DEF a, b
    <3>3. h[i] = N + g[a] /\ h[j] = N + g[b] /\ g[a] \in DOMAIN o /\ g[b] \in DOMAIN o
      BY <3>1, <1>5, <1>8 DEF MarkedAt
    <3>4. g[a] < g[b]
      BY <3>1, <3>2, <1>5 DEF MarkedAt
    <3> QED  BY <3>3, <3>4, <1>2
  <2> QED  BY <2>1, <2>2, <2>3, <2>4
<1>12. ASSUME NEW k \in DOMAIN v, v[k].msg.t \notin Others PROVE \E i \in DOMAIN u : k = h[i]
  <2>1. CASE k \in DOMAIN w
    <3>1. PICK i \in DOMAIN q : k = f[i]
      BY <2>1, <1>2, <1>4, <1>12 DEF MarkedAt
    <3> QED  BY <3>1, <1>8
  <2>2. CASE k - N \in DOMAIN o /\ N + (k - N) = k
    <3> DEFINE j == k - N
    <3>1. j \in DOMAIN o /\ N + j = k
      BY <2>2
    <3> HIDE DEF j
    <3>2. o[j].msg.t \notin Others
      BY <3>1, <1>2, <1>12
    <3>3. PICK i \in DOMAIN r : j = g[i]
      BY <3>1, <3>2, <1>5 DEF MarkedAt
    <3> QED  BY <3>1, <3>3, <1>8
  <2> QED  BY <1>7, <2>1, <2>2
<1>13. MarkedAt(v, u, h)
  BY <1>10, <1>11, <1>12 DEF MarkedAt
<1>14. Marks(v, u)
  BY <1>3, <1>13 DEF Marks
<1> QED  BY <1>14 DEF v, u

LEMMA MarksTail ==
    ASSUME NEW w, IsSeq(w), w # <<>>, NEW q, Marks(w, q)
    PROVE  /\ Head(w).msg.t \in Others => Marks(Tail(w), q)
           /\ Head(w).msg.t \notin Others =>
                 q # <<>> /\ Head(w).msg = Head(q) /\ Marks(Tail(w), Tail(q))
<1> DEFINE v == Tail(w)
<1>1. /\ Len(w) \in Nat \ {0} /\ Len(v) = Len(w) - 1
      /\ DOMAIN w = 1 .. Len(w) /\ DOMAIN v = 1 .. Len(v) /\ Head(w) = w[1]
      /\ \A i \in DOMAIN v : v[i] = w[i + 1]
  BY SeqTail
<1> HIDE DEF v
<1>2. /\ 1 \in DOMAIN w /\ \A k \in DOMAIN w : k \in Nat /\ 1 <= k
      /\ \A k \in DOMAIN v : k + 1 \in DOMAIN w /\ k + 1 # 1 /\ (k + 1) - 1 = k
      /\ \A k \in DOMAIN w : k # 1 => k - 1 \in DOMAIN v /\ v[k - 1] = w[k]
  BY <1>1
<1>3. PICK f : MarkedAt(w, q, f)
  BY DEF Marks
<1>4. IsSeq(q) /\ Len(q) \in Nat /\ DOMAIN q = 1 .. Len(q)
  <2>1. IsSeq(q)
    BY DEF Marks
  <2> QED  BY <2>1, SeqJoin
<1>5. CASE w[1].msg.t \in Others
  <2> DEFINE g == [i \in DOMAIN q |-> f[i] - 1]
  <2>1. \A i \in DOMAIN q : f[i] \in DOMAIN w /\ f[i] # 1
    BY <1>3, <1>5 DEF MarkedAt
  <2>2. \A i \in DOMAIN q : g[i] = f[i] - 1 /\ g[i] \in DOMAIN v /\ v[g[i]] = w[f[i]]
    BY <2>1, <1>2
  <2>3. \A i \in DOMAIN q : v[g[i]].msg = q[i] /\ q[i].t \notin Others
    BY <1>3, <2>2 DEF MarkedAt
  <2>4. ASSUME NEW i \in DOMAIN q, NEW j \in DOMAIN q, i < j PROVE g[i] < g[j]
    <3>1. f[i] < f[j] /\ f[i] \in Nat /\ f[j] \in Nat
      BY <1>2, <1>3, <2>1, <2>4 DEF MarkedAt
    <3> QED  BY <3>1, <2>2
  <2>5. ASSUME NEW k \in DOMAIN v, v[k].msg.t \notin Others PROVE \E i \in DOMAIN q : k = g[i]
    <3>1. PICK i \in DOMAIN q : k + 1 = f[i]
      BY <1>1, <1>2, <1>3, <2>5 DEF MarkedAt
    <3>2. k = g[i]
      BY <1>2, <2>2, <3>1
    <3> QED  BY <3>2
  <2> HIDE DEF g
  <2>6. MarkedAt(v, q, g)
    BY <2>2, <2>3, <2>4, <2>5 DEF MarkedAt
  <2>7. Marks(v, q)
    BY <1>4, <2>6 DEF Marks
  <2> QED  BY <1>1, <1>5, <2>7 DEF v
<1>6. CASE w[1].msg.t \notin Others
  <2>1. PICK a \in DOMAIN q : 1 = f[a]
    BY <1>2, <1>3, <1>6 DEF MarkedAt
  <2>2. q # <<>> /\ Len(q) \in Nat \ {0} /\ 1 \in DOMAIN q
    BY <1>4, <2>1
  <2> DEFINE r == Tail(q)
  <2>3. /\ IsSeq(r) /\ Len(r) = Len(q) - 1 /\ DOMAIN r = 1 .. Len(r) /\ Head(q) = q[1]
        /\ \A i \in DOMAIN r : r[i] = q[i + 1]
    BY <1>4, <2>2, SeqTail
  <2> HIDE DEF r
  <2>4. \A i \in DOMAIN q : f[i] \in DOMAIN w /\ w[f[i]].msg = q[i] /\ q[i].t \notin Others
    BY <1>3 DEF MarkedAt
  <2>5. \A i, j \in DOMAIN q : i < j => f[i] < f[j]
    BY <1>3 DEF MarkedAt
  <2>6. f[1] = 1
    <3>1. a = 1 \/ 1 < a
      BY <1>4, <2>1
    <3>2. CASE 1 < a
      <4>1. f[1] < 1 /\ f[1] \in Nat /\ 1 <= f[1]
        BY <1>2, <2>1, <2>2, <2>4, <2>5, <3>2
      <4> QED  BY <4>1
    <3> QED  BY <2>1, <3>1, <3>2
  <2>7. /\ \A i \in DOMAIN r : i + 1 \in DOMAIN q /\ 1 < i + 1
        /\ \A i \in DOMAIN q : i # 1 => i - 1 \in DOMAIN r /\ (i - 1) + 1 = i
    BY <1>4, <2>2, <2>3
  <2> DEFINE g == [i \in DOMAIN r |-> f[i + 1] - 1]
  <2>8. ASSUME NEW i \in DOMAIN r
        PROVE  /\ g[i] = f[i + 1] - 1 /\ f[i + 1] \in DOMAIN w /\ f[i + 1] # 1
               /\ g[i] \in DOMAIN v /\ v[g[i]] = w[f[i + 1]]
    <3>1. i + 1 \in DOMAIN q /\ 1 < i + 1
      BY <2>7
    <3>2. f[i + 1] \in DOMAIN w /\ f[1] < f[i + 1]
      BY <2>2, <2>4, <2>5, <3>1
    <3>3. f[i + 1] # 1
      BY <1>2, <2>6, <3>2
    <3> QED  BY <1>2, <3>2, <3>3
  <2>9. \A i \in DOMAIN r : v[g[i]].msg = r[i] /\ r[i].t \notin Others
    BY <2>3, <2>4, <2>7, <2>8
  <2>10. ASSUME NEW i \in DOMAIN r, NEW j \in DOMAIN r, i < j PROVE g[i] < g[j]
    <3>1. i + 1 < j + 1
      BY <2>3, <2>10
    <3>2. f[i + 1] < f[j + 1] /\ f[i + 1] \in Nat /\ f[j + 1] \in Nat
      BY <1>2, <2>4, <2>5, <2>7, <3>1
    <3> QED  BY <2>8, <3>2
  <2>11. ASSUME NEW k \in DOMAIN v, v[k].msg.t \notin Others PROVE \E i \in DOMAIN r : k = g[i]
    <3>1. PICK i \in DOMAIN q : k + 1 = f[i]
      BY <1>1, <1>2, <1>3, <2>11 DEF MarkedAt
    <3>2. i # 1
      BY <1>2, <2>6, <3>1
    <3>3. i - 1 \in DOMAIN r /\ (i - 1) + 1 = i
      BY <2>7, <3>2
    <3>4. k = g[i - 1]
      BY <1>2, <2>8, <3>1, <3>3
    <3> QED  BY <3>3, <3>4
  <2> HIDE DEF g
  <2>12. MarkedAt(v, r, g)
    BY <2>8, <2>9, <2>10, <2>11 DEF MarkedAt
  <2>13. Marks(v, r)
    BY <2>3, <2>12 DEF Marks
  <2>14. Head(w).msg = Head(q)
    BY <1>1, <2>2, <2>3, <2>4, <2>6
  <2> QED  BY <1>1, <1>6, <2>2, <2>13, <2>14 DEF v, r
<1> QED  BY <1>5, <1>6

-----------------------------------------------------------------------------
\* Negotiation.

LEMMA NatMin ==
    ASSUME NEW S, S \subseteq Nat, S # {}
    PROVE  \E i \in S : \A j \in S : i <= j
<1> DEFINE R == {ss \in Nat \X Nat : ss[1] < ss[2]}
<1>1. IsWellFoundedOn(R, Nat)
  BY NatLessThanWellFounded, Zenon DEF OpToRel
<1>2. \A a, b \in Nat : a < b => <<a, b>> \in R
  OBVIOUS
<1> HIDE DEF R
<1>3. \E x \in S : \A y \in S : ~(<<y, x>> \in R)
  BY <1>1, WFMin
<1>4. \A a, b \in Nat : a < b \/ b <= a
  OBVIOUS
<1> QED  BY <1>2, <1>3, <1>4

\* The first common name of a list.
LEMMA FirstFacts ==
    ASSUME NEW list, DOMAIN list \subseteq Nat, NEW names, None \notin names
    PROVE  \/ /\ First(list, names) = None
              /\ \A i \in DOMAIN list : list[i] \notin names
           \/ \E i \in DOMAIN list :
                 /\ First(list, names) = list[i] /\ list[i] \in names /\ list[i] # None
                 /\ \A j \in DOMAIN list : list[j] \in names => i <= j
<1> DEFINE common == {i \in DOMAIN list : list[i] \in names}
           c == CHOOSE i \in common : \A j \in common : i <= j
<1>1. First(list, names) = IF common = {} THEN None ELSE list[c]
  BY DEF First
<1>2. CASE common = {}
  BY <1>1, <1>2
<1>3. CASE common # {}
  <2>1. \E i \in common : \A j \in common : i <= j
    BY <1>3, NatMin
  <2>2. c \in common /\ \A j \in common : c <= j
    BY <2>1
  <2> HIDE DEF c
  <2> QED  BY <1>1, <1>3, <2>2
<1> QED  BY <1>2, <1>3

LEMMA FilterFacts ==
    ASSUME NEW list, NEW allowed
    PROVE  Names(Filter(list, allowed)) = Names(list) \cap allowed
BY DEF Names, Filter

\* The names read_kex comes to, when none is missing.
NamesOf(side, pref, lists) ==
    [kex    |-> Select(side, pref.kex, lists.kex),
     key    |-> Select(side, PossibleKeys(side, pref), lists.key),
     cipher |-> Select(side, pref.cipher, lists.cipher),
     mac    |-> Select(side, pref.mac, lists.mac),
     compression |-> Select(side, pref.compression, lists.compression),
     strict |-> /\ StrictAs[side] \in Names(pref.kex)
                /\ StrictAs[Peer(side)] \in Names(lists.kex)]

LEMMA ReadKexFacts ==
    ASSUME NEW side, NEW pref, NEW lists, ReadKex(side, pref, lists) # <<>>
    PROVE  LET n == NamesOf(side, pref, lists)
           IN  /\ ReadKex(side, pref, lists)[1] = n
               /\ n.kex # None /\ n.key # None /\ n.cipher # None /\ n.compression # None
               /\ n.mac # None \/ n.cipher \notin NeedsMac
<1> DEFINE n == NamesOf(side, pref, lists)
           missing == \/ None \in {n.kex, n.key, n.cipher, n.compression}
                      \/ n.mac = None /\ n.cipher \in NeedsMac
<1>1. ReadKex(side, pref, lists) = IF missing THEN <<>> ELSE <<n>>
  BY Zenon DEF ReadKex, NamesOf
<1> HIDE DEF n
<1>2. ~missing
  BY <1>1, Zenon
<1>3. ReadKex(side, pref, lists) = <<n>>
  BY <1>1, <1>2, Zenon
<1>4. <<n>>[1] = n
  OBVIOUS
<1>5. ReadKex(side, pref, lists)[1] = n
  BY <1>3, <1>4
<1>6. /\ n.kex # None /\ n.key # None /\ n.cipher # None /\ n.compression # None
      /\ n.mac # None \/ n.cipher \notin NeedsMac
  BY <1>2
<1> QED  BY <1>5, <1>6 DEF n

PrefsOk == prefs["client"] \in DOMAIN Prefs /\ prefs["server"] \in DOMAIN Prefs

\* What each side chooses, in terms of the lists of the two.
LEMMA ChosenFacts ==
    ASSUME PrefsOk
    PROVE  LET c == Prefs[prefs["client"]]
               v == Prefs[prefs["server"]]
           IN  /\ Chosen("client") = ReadKex("client", c, WriteKex("server", v))
               /\ Chosen("server") = ReadKex("server", v, WriteKex("client", c))
<1> DEFINE c == Prefs[prefs["client"]]
           v == Prefs[prefs["server"]]
           F(s) == [own \in DOMAIN Prefs |-> [peer \in DOMAIN Prefs |->
                       ReadKex(s, Prefs[own], WriteKex(Peer(s), Prefs[peer]))]]
<1>1. "client" \in Sides /\ "server" \in Sides
  BY DEF Sides
<1>2. NamesFor["client"] = F("client") /\ NamesFor["server"] = F("server")
  BY <1>1, Zenon DEF NamesFor
<1>3. /\ F("client")[prefs["client"]][prefs["server"]]
            = ReadKex("client", c, WriteKex(Peer("client"), v))
      /\ F("server")[prefs["server"]][prefs["client"]]
            = ReadKex("server", v, WriteKex(Peer("server"), c))
  BY Zenon DEF PrefsOk
<1> HIDE DEF F
<1>4. /\ Chosen("client") = NamesFor["client"][prefs["client"]][prefs["server"]]
      /\ Chosen("server") = NamesFor["server"][prefs["server"]][prefs["client"]]
  BY PeerFacts DEF Chosen
<1> QED  BY <1>2, <1>3, <1>4, PeerFacts

\* Sides that have agreed on the key exchange agree on everything.
LEMMA SameNames ==
    ASSUME PrefsOk, Chosen("client") # <<>>, Chosen("server") # <<>>,
           Chosen("client")[1].kex = Chosen("server")[1].kex
    PROVE  Chosen("client")[1] = Chosen("server")[1]
<1> DEFINE c == Prefs[prefs["client"]]
           v == Prefs[prefs["server"]]
           wc == WriteKex("client", c)
           wv == WriteKex("server", v)
           a == NamesOf("client", c, wv)
           b == NamesOf("server", v, wc)
           sa == StrictAs["client"] \in Names(c.kex) /\ StrictAs["server"] \in Names(wv.kex)
           sb == StrictAs["server"] \in Names(v.kex) /\ StrictAs["client"] \in Names(wc.kex)
<1>1. Chosen("client") = ReadKex("client", c, wv) /\ Chosen("server") = ReadKex("server", v, wc)
  BY ChosenFacts
<1>2. Chosen("client")[1] = a /\ Chosen("server")[1] = b
  <2> HIDE DEF c, v, wc, wv
  <2> QED  BY <1>1, ReadKexFacts, Zenon
<1>3. /\ wc.key = c.key /\ wc.cipher = c.cipher /\ wc.mac = c.mac /\ wc.compression = c.compression
      /\ wc.kex = Filter(c.kex, Names(c.kex) \ {StrictAs["server"], ExtInfoAs["server"]})
  BY PeerFacts DEF WriteKex, PossibleKeys
<1>4. /\ wv.key = Filter(v.key, HostKeys) /\ wv.cipher = v.cipher /\ wv.mac = v.mac
      /\ wv.compression = v.compression
      /\ wv.kex = Filter(v.kex, Names(v.kex) \ {StrictAs["client"], ExtInfoAs["client"]})
  BY PeerFacts DEF WriteKex, PossibleKeys
<1> HIDE DEF wc, wv, c, v
<1>5. /\ Select("client", PossibleKeys("client", c), wv.key)
            = Select("server", PossibleKeys("server", v), wc.key)
      /\ Select("client", c.cipher, wv.cipher) = Select("server", v.cipher, wc.cipher)
      /\ Select("client", c.mac, wv.mac) = Select("server", v.mac, wc.mac)
      /\ Select("client", c.compression, wv.compression)
            = Select("server", v.compression, wc.compression)
  BY <1>3, <1>4 DEF Select, PossibleKeys
<1>6. a.kex = b.kex /\ a.kex = Select("client", c.kex, wv.kex) /\ b.kex = Select("server", v.kex, wc.kex)
  <2>1. a.kex = b.kex
    BY <1>2
  <2> QED  BY <2>1, Zenon DEF NamesOf
<1>7. sa = sb
  <2>1. /\ StrictAs["client"] = "kex-strict-c" /\ StrictAs["server"] = "kex-strict-s"
        /\ ExtInfoAs["client"] = "ext-info-c" /\ ExtInfoAs["server"] = "ext-info-s"
    BY DEF StrictAs, ExtInfoAs
  <2>2. /\ Names(wc.kex) = Names(c.kex) \cap (Names(c.kex) \ {"kex-strict-s", "ext-info-s"})
        /\ Names(wv.kex) = Names(v.kex) \cap (Names(v.kex) \ {"kex-strict-c", "ext-info-c"})
    BY <1>3, <1>4, <2>1, FilterFacts
  <2>3. sa <=> ("kex-strict-c" \in Names(c.kex) /\ "kex-strict-s" \in Names(v.kex))
    BY <2>1, <2>2
  <2>4. sb <=> ("kex-strict-c" \in Names(c.kex) /\ "kex-strict-s" \in Names(v.kex))
    BY <2>1, <2>2
  <2> QED  BY <2>3, <2>4
<1>8. a = b
  <2>1. Select("client", c.kex, wv.kex) = Select("server", v.kex, wc.kex)
    BY <1>6
  <2>2. a = [kex |-> Select("client", c.kex, wv.kex),
             key |-> Select("client", PossibleKeys("client", c), wv.key),
             cipher |-> Select("client", c.cipher, wv.cipher),
             mac |-> Select("client", c.mac, wv.mac),
             compression |-> Select("client", c.compression, wv.compression), strict |-> sa]
    BY PeerFacts, Zenon DEF NamesOf
  <2>3. b = [kex |-> Select("server", v.kex, wc.kex),
             key |-> Select("server", PossibleKeys("server", v), wc.key),
             cipher |-> Select("server", v.cipher, wc.cipher),
             mac |-> Select("server", v.mac, wc.mac),
             compression |-> Select("server", v.compression, wc.compression), strict |-> sb]
    BY PeerFacts, Zenon DEF NamesOf
  <2> HIDE DEF a, b, sa, sb
  <2> QED  BY <1>5, <1>7, <2>1, <2>2, <2>3, Zenon
<1> QED  BY <1>2, <1>8

LEMMA ListFacts ==
    ASSUME NEW p \in DOMAIN Prefs, NEW c, c = Prefs[p],
           NEW list \in {c.kex, c.key, c.cipher, c.mac, c.compression}
    PROVE  DOMAIN list \subseteq Nat \ {0} /\ None \notin Names(list)
<1>1. list \in Seq(Names(list)) /\ None \notin Names(list)
  BY PrefsAssumption
<1>2. DOMAIN list \subseteq Nat \ {0}
  <2> DEFINE S == Names(list)
  <2>1. list \in Seq(S)
    BY <1>1
  <2> HIDE DEF S
  <2> QED  BY <2>1
<1> QED  BY <1>1, <1>2

\* A side that finds a first common name shares it with the other.
LEMMA FirstCommon ==
    ASSUME NEW list, DOMAIN list \subseteq Nat \ {0}, NEW names, None \notin names,
           First(list, names) # None
    PROVE  \E i \in DOMAIN list :
              /\ First(list, names) = list[i] /\ list[i] \in names
              /\ \A j \in 1 .. i - 1 : j \in DOMAIN list => list[j] \notin names
<1>1. DOMAIN list \subseteq Nat
  OBVIOUS
<1>2. PICK i \in DOMAIN list : /\ First(list, names) = list[i] /\ list[i] \in names
                               /\ \A j \in DOMAIN list : list[j] \in names => i <= j
  BY <1>1, FirstFacts
<1>3. \A j \in 1 .. i - 1 : ~(i <= j)
  OBVIOUS
<1> QED  BY <1>2, <1>3

\* A client that goes on has everything in common with the server.
LEMMA OkCompatible ==
    ASSUME PrefsOk, Ok("client")
    PROVE  Compatible
<1> DEFINE c == Prefs[prefs["client"]]
           v == Prefs[prefs["server"]]
           wv == WriteKex("server", v)
           n == NamesOf("client", c, wv)
           mine == {"kex-strict-c", "ext-info-c"}
<1>1. Chosen("client") = ReadKex("client", c, wv)
  BY ChosenFacts
<1>2. /\ Chosen("client")[1] = n
      /\ n.kex # None /\ n.key # None /\ n.cipher # None /\ n.compression # None
      /\ n.mac # None \/ n.cipher \notin NeedsMac
  <2> HIDE DEF c, v, wv
  <2>1. ReadKex("client", c, wv) # <<>>
    BY <1>1 DEF Ok
  <2> QED  BY <1>1, <2>1, ReadKexFacts, Zenon
<1>3. n.kex \notin Extensions
  BY <1>2 DEF Ok
<1>4. /\ wv.key = Filter(v.key, HostKeys) /\ wv.cipher = v.cipher /\ wv.mac = v.mac
      /\ wv.compression = v.compression
      /\ wv.kex = Filter(v.kex, Names(v.kex) \ mine)
  BY PeerFacts DEF WriteKex, PossibleKeys, StrictAs, ExtInfoAs
<1>5. /\ Names(wv.kex) = Names(v.kex) \cap (Names(v.kex) \ mine)
      /\ Names(wv.key) = Names(v.key) \cap HostKeys
  BY <1>4, FilterFacts
<1>6. /\ n.kex = First(c.kex, Names(wv.kex)) /\ n.key = First(c.key, Names(wv.key))
      /\ n.cipher = First(c.cipher, Names(v.cipher)) /\ n.mac = First(c.mac, Names(v.mac))
      /\ n.compression = First(c.compression, Names(v.compression))
  <2>1. /\ n.kex = Select("client", c.kex, wv.kex)
        /\ n.key = Select("client", PossibleKeys("client", c), wv.key)
        /\ n.cipher = Select("client", c.cipher, wv.cipher)
        /\ n.mac = Select("client", c.mac, wv.mac)
        /\ n.compression = Select("client", c.compression, wv.compression)
    <3> HIDE DEF c, v, wv
    <3> QED  BY Zenon DEF NamesOf
  <2>2. PossibleKeys("client", c) = c.key
    BY DEF PossibleKeys
  <2> HIDE DEF c, v, wv, n
  <2> QED  BY <1>4, <2>1, <2>2, Zenon DEF Select
<1>7. /\ \A list \in {c.kex, c.key, c.cipher, c.mac, c.compression} : DOMAIN list \subseteq Nat \ {0}
      /\ \A list \in {v.kex, v.key, v.cipher, v.mac, v.compression} : None \notin Names(list)
  <2>1. prefs["client"] \in DOMAIN Prefs /\ prefs["server"] \in DOMAIN Prefs
    BY DEF PrefsOk
  <2> QED  BY <2>1, ListFacts
<1>8. /\ DOMAIN c.kex \subseteq Nat \ {0} /\ DOMAIN c.key \subseteq Nat \ {0}
      /\ DOMAIN c.cipher \subseteq Nat \ {0} /\ DOMAIN c.mac \subseteq Nat \ {0}
      /\ DOMAIN c.compression \subseteq Nat \ {0}
  BY <1>7
<1>9. /\ None \notin Names(wv.kex) /\ None \notin Names(wv.key) /\ None \notin Names(v.cipher)
      /\ None \notin Names(v.mac) /\ None \notin Names(v.compression)
  BY <1>5, <1>7
<1> HIDE DEF wv, n
<1>10. ASSUME NEW list, NEW i \in DOMAIN list PROVE list[i] \in Names(list)
  BY <1>10 DEF Names
<1>11. (Names(c.kex) \cap Names(v.kex)) \ Extensions # {}
  <2>1. PICK i \in DOMAIN c.kex : n.kex = c.kex[i] /\ c.kex[i] \in Names(wv.kex)
    BY <1>2, <1>6, <1>8, <1>9, FirstCommon
  <2> QED  BY <1>3, <1>5, <1>10, <2>1
<1>12. Names(c.key) \cap Names(v.key) \cap HostKeys # {}
  <2>1. PICK i \in DOMAIN c.key : n.key = c.key[i] /\ c.key[i] \in Names(wv.key)
    BY <1>2, <1>6, <1>8, <1>9, FirstCommon
  <2> QED  BY <1>5, <1>10, <2>1
<1>13. Names(c.compression) \cap Names(v.compression) # {}
  <2>1. PICK i \in DOMAIN c.compression : c.compression[i] \in Names(v.compression)
    BY <1>2, <1>6, <1>8, <1>9, FirstCommon
  <2> QED  BY <1>10, <2>1
<1>14. PICK i \in DOMAIN c.cipher :
          /\ n.cipher = c.cipher[i] /\ c.cipher[i] \in Names(v.cipher)
          /\ \A j \in 1 .. i - 1 : j \in DOMAIN c.cipher => c.cipher[j] \notin Names(v.cipher)
  BY <1>2, <1>6, <1>8, <1>9, FirstCommon
<1>15. Names(c.cipher) \cap Names(v.cipher) # {}
  BY <1>10, <1>14
<1>16. DOMAIN c.cipher = 1 .. Len(c.cipher) /\ Len(c.cipher) \in Nat
  <2> DEFINE l == c.cipher
             S == Names(l)
  <2>1. l \in Seq(S)
    BY PrefsAssumption DEF PrefsOk
  <2> HIDE DEF l, S
  <2>2. DOMAIN l = 1 .. Len(l) /\ Len(l) \in Nat
    BY <2>1
  <2> QED  BY <2>2 DEF l
<1>17. \/ Names(c.mac) \cap Names(v.mac) # {}
       \/ LET e == CHOOSE e \in DOMAIN c.cipher :
                     /\ c.cipher[e] \in Names(v.cipher)
                     /\ \A j \in 1 .. e - 1 : c.cipher[j] \notin Names(v.cipher)
          IN  c.cipher[e] \notin NeedsMac
  <2>1. CASE n.mac # None
    <3>1. PICK k \in DOMAIN c.mac : c.mac[k] \in Names(v.mac)
      BY <2>1, <1>6, <1>8, <1>9, FirstCommon
    <3> QED  BY <1>10, <3>1
  <2>2. CASE n.cipher \notin NeedsMac
    <3> DEFINE l == c.cipher
               N == Names(v.cipher)
               Q(e) == l[e] \in N /\ \A j \in 1 .. e - 1 : l[j] \notin N
               e == CHOOSE e \in DOMAIN l : Q(e)
    <3>1. i \in DOMAIN l /\ Q(i)
      <4>1. \A j \in 1 .. i - 1 : j \in DOMAIN l
        BY <1>16
      <4> QED  BY <1>14, <4>1
    <3>2. e \in DOMAIN l /\ Q(e)
      BY <3>1, Zenon
    <3> HIDE DEF e
    <3>3. i \in Nat /\ e \in Nat /\ 1 <= i /\ 1 <= e
      BY <1>16, <3>1, <3>2
    <3>4. e = i
      <4>1. ~(e < i) /\ ~(i < e)
        <5>1. e < i => e \in 1 .. i - 1
          BY <3>3
        <5>2. i < e => i \in 1 .. e - 1
          BY <3>3
        <5> QED  BY <3>1, <3>2, <5>1, <5>2
      <4> QED  BY <3>3, <4>1
    <3>5. l[e] \notin NeedsMac
      BY <2>2, <1>14, <3>4
    <3> QED  BY <3>5, Zenon DEF e
  <2> QED  BY <1>2, <2>1, <2>2
<1> DEFINE p == <<prefs["client"], prefs["server"]>>
<1>18. p \in (DOMAIN Prefs) \X (DOMAIN Prefs) /\ Prefs[p[1]] = c /\ Prefs[p[2]] = v
  BY DEF PrefsOk
<1> HIDE DEF c, v, p
<1>19. p \in CompatiblePairs
  BY <1>11, <1>12, <1>13, <1>15, <1>17, <1>18, Zenon DEF CompatiblePairs
<1> QED  BY <1>19 DEF Compatible, p

-----------------------------------------------------------------------------
\* The two sides together: c is the client's session and d the server's, q
\* the messages of exchanges on their way to the server and r those on their
\* way to the client.  The two agree on keys and session id except between
\* the NEWKEYS of one and of the other.

SameKeys(c, d) == (c.enc <=> d.enc) /\ c.wkey = d.wkey
ClientOnly(c) == c.ex = Exchange(<<c.inits>>, <<>>, <<>>, <<>>)
ServerOnly(d) == d.ex = Exchange(<<>>, <<d.inits>>, <<>>, <<>>)
BothOk == Ok("client") /\ Ok("server")
HashOf(c, d) ==
    <<<<c.inits>>, <<d.inits>>, <<c.inits>>, <<d.inits>>, Chosen("server")[1].kex>>

IdleIdle(c, d, q, r) ==
    /\ c.phase = "idle" /\ d.phase = "idle" /\ q = <<>> /\ r = <<>>
    /\ SameKeys(c, d) /\ c.enc /\ c.sid = d.sid
IdleInit(c, d, q, r) ==
    /\ c.phase = "idle" /\ d.phase = "init" /\ q = <<>> /\ r = <<KI(d.inits)>>
    /\ SameKeys(c, d) /\ c.enc /\ c.sid = d.sid /\ ServerOnly(d)
IdleKeys(c, d, q, r) ==
    /\ c.phase = "idle" /\ d.phase = "keys" /\ q = <<NK>> /\ r = <<>>
    /\ c.enc /\ c.wkey = d.newkeys /\ c.sid = d.sid
InitIdle(c, d, q, r) ==
    /\ c.phase = "init" /\ d.phase = "idle" /\ q = <<KI(c.inits)>> /\ r = <<>>
    /\ SameKeys(c, d) /\ d.enc /\ c.sid = d.sid /\ ClientOnly(c)
InitInit(c, d, q, r) ==
    /\ c.phase = "init" /\ d.phase = "init" /\ q = <<KI(c.inits)>> /\ r = <<KI(d.inits)>>
    /\ SameKeys(c, d) /\ c.sid = d.sid /\ ClientOnly(c) /\ ServerOnly(d)
InitDh(c, d, q, r) ==
    /\ c.phase = "init" /\ d.phase = "dh" /\ q = <<>> /\ r = <<KI(d.inits)>>
    /\ SameKeys(c, d) /\ c.sid = d.sid /\ ClientOnly(c) /\ Ok("server")
    /\ d.ex = Exchange(<<c.inits>>, <<d.inits>>, <<>>, <<>>)
InitKeys(c, d, q, r) ==
    /\ c.phase = "init" /\ d.phase = "keys" /\ q = <<NK, KI(c.inits)>> /\ r = <<>>
    /\ c.enc /\ c.wkey = d.newkeys /\ c.sid = d.sid /\ ClientOnly(c)
DoneInit(c, d, q, r) ==
    /\ c.phase = "dhdone" /\ d.phase = "init"
    /\ q = <<KI(c.inits), EI(c.inits)>> /\ r = <<>>
    /\ SameKeys(c, d) /\ c.sid = d.sid /\ ServerOnly(d) /\ Ok("client")
    /\ c.ex = Exchange(<<c.inits>>, <<d.inits>>, <<c.inits>>, <<>>)
DoneDh(c, d, q, r) ==
    /\ c.phase = "dhdone" /\ d.phase = "dh" /\ q = <<EI(c.inits)>> /\ r = <<>>
    /\ SameKeys(c, d) /\ c.sid = d.sid /\ BothOk
    /\ c.ex = Exchange(<<c.inits>>, <<d.inits>>, <<c.inits>>, <<>>)
    /\ d.ex = Exchange(<<c.inits>>, <<d.inits>>, <<>>, <<>>)
DoneKeys(c, d, q, r) ==
    /\ c.phase = "dhdone" /\ d.phase = "keys"
    /\ q = <<>> /\ r = <<ER(d.inits, HashOf(c, d)), NK>>
    /\ SameKeys(c, d) /\ BothOk
    /\ c.ex = Exchange(<<c.inits>>, <<d.inits>>, <<c.inits>>, <<>>)
    /\ d.newkeys = <<HashOf(c, d), d.sid, Chosen("server")[1]>>
    /\ d.sid = (IF c.sid = <<>> THEN HashOf(c, d) ELSE c.sid)
KeysKeys(c, d, q, r) ==
    /\ c.phase = "keys" /\ d.phase = "keys" /\ q = <<NK>> /\ r = <<NK>>
    /\ SameKeys(c, d) /\ c.sid = d.sid /\ BothOk /\ c.newkeys = d.newkeys
KeysIdle(c, d, q, r) ==
    /\ c.phase = "keys" /\ d.phase = "idle" /\ q = <<>> /\ r = <<NK>>
    /\ d.enc /\ d.wkey = c.newkeys /\ c.sid = d.sid
KeysInit(c, d, q, r) ==
    /\ c.phase = "keys" /\ d.phase = "init" /\ q = <<>> /\ r = <<NK, KI(d.inits)>>
    /\ d.enc /\ d.wkey = c.newkeys /\ c.sid = d.sid /\ ServerOnly(d)

Row(c, d, q, r) ==
    \/ IdleIdle(c, d, q, r) \/ IdleInit(c, d, q, r) \/ IdleKeys(c, d, q, r)
    \/ InitIdle(c, d, q, r) \/ InitInit(c, d, q, r) \/ InitDh(c, d, q, r)
    \/ InitKeys(c, d, q, r) \/ DoneInit(c, d, q, r) \/ DoneDh(c, d, q, r)
    \/ DoneKeys(c, d, q, r) \/ KeysKeys(c, d, q, r) \/ KeysIdle(c, d, q, r)
    \/ KeysInit(c, d, q, r)

\* The keys of one side, and that there were algorithms in common.
Keyed(x) == x.wkey = x.rkey /\ (x.enc => BothOk)

LEMMA Tuples ==
    ASSUME NEW a, NEW b
    PROVE  /\ <<>> \o <<>> = <<>> /\ <<>> \o <<a>> = <<a>> /\ <<>> \o <<a, b>> = <<a, b>>
           /\ <<a>> \o <<b>> = <<a, b>> /\ <<a>> \o <<>> = <<a>> /\ <<a, b>> \o <<>> = <<a, b>>
           /\ Tail(<<a>>) = <<>> /\ Tail(<<a, b>>) = <<b>>
           /\ Head(<<a>>) = a /\ Head(<<a, b>>) = a
           /\ Append(<<>>, a) = <<a>>
           /\ <<a>> # <<>> /\ <<a, b>> # <<>>
<1> DEFINE S == {a, b}
<1>1. a \in S /\ b \in S
  OBVIOUS
<1> HIDE DEF S
<1>2. <<>> \in Seq(S) /\ <<a>> \in Seq(S) /\ <<b>> \in Seq(S) /\ <<a, b>> \in Seq(S)
  BY <1>1
<1>3. <<>> \o <<>> = <<>> /\ <<>> \o <<a>> = <<a>>
  BY <1>2
<1>4. <<>> \o <<a, b>> = <<a, b>>
  BY <1>2
<1>5. <<a>> \o <<b>> = <<a, b>>
  <2> DEFINE v == <<a>> \o <<b>>
             w == <<a, b>>
  <2>1. v \in Seq(S) /\ w \in Seq(S) /\ Len(v) = 2 /\ Len(w) = 2
    BY <1>2
  <2>2. v[1] = a /\ v[2] = b /\ w[1] = a /\ w[2] = b
    BY <1>2
  <2> HIDE DEF v, w
  <2>3. DOMAIN v = 1 .. 2 /\ DOMAIN w = 1 .. 2 /\ \A i \in 1 .. 2 : i = 1 \/ i = 2
    BY <2>1
  <2>4. \A i \in 1 .. 2 : v[i] = w[i]
    BY <2>2, <2>3
  <2>5. v = [i \in 1 .. 2 |-> v[i]] /\ w = [i \in 1 .. 2 |-> w[i]]
    BY <2>1, <2>3
  <2>6. v = w
    BY <2>4, <2>5
  <2> QED  BY <2>6 DEF v, w
<1>6. <<a>> \o <<>> = <<a>>
  BY <1>2
<1>7. <<a, b>> \o <<>> = <<a, b>>
  BY <1>2
<1>8. Tail(<<a>>) = <<>>
  BY <1>2
<1>9. Tail(<<a, b>>) = <<b>>
  BY <1>2
<1>10. Head(<<a>>) = a /\ Head(<<a, b>>) = a
  BY <1>2
<1>11. Append(<<>>, a) = <<a>>
  BY <1>1, <1>2
<1>12. <<a>> # <<>> /\ <<a, b>> # <<>>
  BY <1>2
<1> QED  BY <1>3, <1>4, <1>5, <1>6, <1>7, <1>8, <1>9, <1>10, <1>11, <1>12

LEMMA RowSame ==
    ASSUME NEW x, NEW z, KeepsKeys(x, z), KeepsExchange(x, z), NEW y, NEW q, NEW r
    PROVE  Row(x, y, q, r) => Row(z, y, q, r)
<1> USE DEF KeepsKeys, KeepsExchange, SameKeys, ClientOnly, ServerOnly, HashOf
<1>1. SameKeys(x, y) => SameKeys(z, y)
  OBVIOUS
<1>2. HashOf(z, y) = HashOf(x, y) /\ (ClientOnly(x) => ClientOnly(z))
  OBVIOUS
<1> SUFFICES ASSUME Row(x, y, q, r) PROVE Row(z, y, q, r)
  OBVIOUS
<1>3. CASE IdleIdle(x, y, q, r)
  BY <1>1, <1>3, Zenon DEF IdleIdle, Row
<1>4. CASE IdleInit(x, y, q, r)
  BY <1>1, <1>4, Zenon DEF IdleInit, Row
<1>5. CASE IdleKeys(x, y, q, r)
  BY <1>5, Zenon DEF IdleKeys, Row
<1>6. CASE InitIdle(x, y, q, r)
  BY <1>1, <1>2, <1>6, Zenon DEF InitIdle, Row
<1>7. CASE InitInit(x, y, q, r)
  BY <1>1, <1>2, <1>7, Zenon DEF InitInit, Row
<1>8. CASE InitDh(x, y, q, r)
  BY <1>1, <1>2, <1>8, Zenon DEF InitDh, Row
<1>9. CASE InitKeys(x, y, q, r)
  BY <1>1, <1>2, <1>9, Zenon DEF InitKeys, Row
<1>10. CASE DoneInit(x, y, q, r)
  BY <1>1, <1>2, <1>10, Zenon DEF DoneInit, Row
<1>11. CASE DoneDh(x, y, q, r)
  BY <1>1, <1>2, <1>11, Zenon DEF DoneDh, Row
<1>12. CASE DoneKeys(x, y, q, r)
  BY <1>1, <1>2, <1>12, Zenon DEF DoneKeys, Row
<1>13. CASE KeysKeys(x, y, q, r)
  BY <1>1, <1>2, <1>13, Zenon DEF KeysKeys, Row
<1>14. CASE KeysIdle(x, y, q, r)
  BY <1>1, <1>2, <1>14, Zenon DEF KeysIdle, Row
<1>15. CASE KeysInit(x, y, q, r)
  BY <1>1, <1>2, <1>15, Zenon DEF KeysInit, Row
<1> QED
  BY <1>3, <1>4, <1>5, <1>6, <1>7, <1>8, <1>9, <1>10, <1>11, <1>12, <1>13, <1>14, <1>15 DEF Row

LEMMA RowSameServer ==
    ASSUME NEW x, NEW z, KeepsKeys(x, z), KeepsExchange(x, z), NEW y, NEW q, NEW r
    PROVE  Row(y, x, q, r) => Row(y, z, q, r)
<1> USE DEF KeepsKeys, KeepsExchange, SameKeys, ClientOnly, ServerOnly, HashOf
<1>1. SameKeys(y, x) => SameKeys(y, z)
  OBVIOUS
<1>2. HashOf(y, z) = HashOf(y, x) /\ (ServerOnly(x) => ServerOnly(z))
  OBVIOUS
<1> SUFFICES ASSUME Row(y, x, q, r) PROVE Row(y, z, q, r)
  OBVIOUS
<1>3. CASE IdleIdle(y, x, q, r)
  BY <1>1, <1>2, <1>3, Zenon DEF IdleIdle, Row
<1>4. CASE IdleInit(y, x, q, r)
  BY <1>1, <1>2, <1>4, Zenon DEF IdleInit, Row
<1>5. CASE IdleKeys(y, x, q, r)
  BY <1>1, <1>2, <1>5, Zenon DEF IdleKeys, Row
<1>6. CASE InitIdle(y, x, q, r)
  BY <1>1, <1>2, <1>6, Zenon DEF InitIdle, Row
<1>7. CASE InitInit(y, x, q, r)
  BY <1>1, <1>2, <1>7, Zenon DEF InitInit, Row
<1>8. CASE InitDh(y, x, q, r)
  BY <1>1, <1>2, <1>8, Zenon DEF InitDh, Row
<1>9. CASE InitKeys(y, x, q, r)
  BY <1>1, <1>2, <1>9, Zenon DEF InitKeys, Row
<1>10. CASE DoneInit(y, x, q, r)
  BY <1>1, <1>2, <1>10, Zenon DEF DoneInit, Row
<1>11. CASE DoneDh(y, x, q, r)
  BY <1>1, <1>2, <1>11, Zenon DEF DoneDh, Row
<1>12. CASE DoneKeys(y, x, q, r)
  BY <1>1, <1>2, <1>12, Zenon DEF DoneKeys, Row
<1>13. CASE KeysKeys(y, x, q, r)
  BY <1>1, <1>2, <1>13, Zenon DEF KeysKeys, Row
<1>14. CASE KeysIdle(y, x, q, r)
  BY <1>1, <1>2, <1>14, Zenon DEF KeysIdle, Row
<1>15. CASE KeysInit(y, x, q, r)
  BY <1>1, <1>2, <1>15, Zenon DEF KeysInit, Row
<1> QED
  BY <1>3, <1>4, <1>5, <1>6, <1>7, <1>8, <1>9, <1>10, <1>11, <1>12, <1>13, <1>14, <1>15 DEF Row


\* What the next message of an exchange can be, and in which rows.
LEMMA ToClient ==
    ASSUME NEW c, NEW d, NEW q, NEW r, Row(c, d, q, r), r # <<>>
    PROVE  \/ /\ Head(r).t = "KEXINIT"
              /\ IdleInit(c, d, q, r) \/ InitInit(c, d, q, r) \/ InitDh(c, d, q, r)
           \/ Head(r).t = "ECDH_REPLY" /\ DoneKeys(c, d, q, r)
           \/ /\ Head(r).t = "NEWKEYS"
              /\ KeysKeys(c, d, q, r) \/ KeysIdle(c, d, q, r) \/ KeysInit(c, d, q, r)
<1>1. KI(d.inits).t = "KEXINIT" /\ ER(d.inits, HashOf(c, d)).t = "ECDH_REPLY" /\ NK.t = "NEWKEYS"
  BY Zenon DEF KI, ER, NK
<1>2. /\ Head(<<KI(d.inits)>>) = KI(d.inits) /\ Head(<<NK>>) = NK
      /\ Head(<<ER(d.inits, HashOf(c, d)), NK>>) = ER(d.inits, HashOf(c, d))
      /\ Head(<<NK, KI(d.inits)>>) = NK
  BY Tuples
<1>3. CASE IdleIdle(c, d, q, r)
  BY <1>1, <1>2, <1>3, Zenon DEF IdleIdle
<1>4. CASE IdleInit(c, d, q, r)
  BY <1>1, <1>2, <1>4, Zenon DEF IdleInit
<1>5. CASE IdleKeys(c, d, q, r)
  BY <1>1, <1>2, <1>5, Zenon DEF IdleKeys
<1>6. CASE InitIdle(c, d, q, r)
  BY <1>1, <1>2, <1>6, Zenon DEF InitIdle
<1>7. CASE InitInit(c, d, q, r)
  BY <1>1, <1>2, <1>7, Zenon DEF InitInit
<1>8. CASE InitDh(c, d, q, r)
  BY <1>1, <1>2, <1>8, Zenon DEF InitDh
<1>9. CASE InitKeys(c, d, q, r)
  BY <1>1, <1>2, <1>9, Zenon DEF InitKeys
<1>10. CASE DoneInit(c, d, q, r)
  BY <1>1, <1>2, <1>10, Zenon DEF DoneInit
<1>11. CASE DoneDh(c, d, q, r)
  BY <1>1, <1>2, <1>11, Zenon DEF DoneDh
<1>12. CASE DoneKeys(c, d, q, r)
  BY <1>1, <1>2, <1>12, Zenon DEF DoneKeys
<1>13. CASE KeysKeys(c, d, q, r)
  BY <1>1, <1>2, <1>13, Zenon DEF KeysKeys
<1>14. CASE KeysIdle(c, d, q, r)
  BY <1>1, <1>2, <1>14, Zenon DEF KeysIdle
<1>15. CASE KeysInit(c, d, q, r)
  BY <1>1, <1>2, <1>15, Zenon DEF KeysInit
<1> QED
  BY <1>3, <1>4, <1>5, <1>6, <1>7, <1>8, <1>9, <1>10, <1>11, <1>12, <1>13, <1>14, <1>15 DEF Row


LEMMA ToServer ==
    ASSUME NEW c, NEW d, NEW q, NEW r, Row(c, d, q, r), q # <<>>
    PROVE  \/ /\ Head(q).t = "KEXINIT"
              /\ InitIdle(c, d, q, r) \/ InitInit(c, d, q, r) \/ DoneInit(c, d, q, r)
           \/ Head(q).t = "ECDH_INIT" /\ DoneDh(c, d, q, r)
           \/ /\ Head(q).t = "NEWKEYS"
              /\ IdleKeys(c, d, q, r) \/ InitKeys(c, d, q, r) \/ KeysKeys(c, d, q, r)
<1>1. KI(c.inits).t = "KEXINIT" /\ EI(c.inits).t = "ECDH_INIT" /\ NK.t = "NEWKEYS"
  BY Zenon DEF KI, EI, NK
<1>2. /\ Head(<<KI(c.inits)>>) = KI(c.inits) /\ Head(<<NK>>) = NK
      /\ Head(<<EI(c.inits)>>) = EI(c.inits)
      /\ Head(<<KI(c.inits), EI(c.inits)>>) = KI(c.inits)
      /\ Head(<<NK, KI(c.inits)>>) = NK
  BY Tuples
<1>3. CASE IdleIdle(c, d, q, r)
  BY <1>1, <1>2, <1>3, Zenon DEF IdleIdle
<1>4. CASE IdleInit(c, d, q, r)
  BY <1>1, <1>2, <1>4, Zenon DEF IdleInit
<1>5. CASE IdleKeys(c, d, q, r)
  BY <1>1, <1>2, <1>5, Zenon DEF IdleKeys
<1>6. CASE InitIdle(c, d, q, r)
  BY <1>1, <1>2, <1>6, Zenon DEF InitIdle
<1>7. CASE InitInit(c, d, q, r)
  BY <1>1, <1>2, <1>7, Zenon DEF InitInit
<1>8. CASE InitDh(c, d, q, r)
  BY <1>1, <1>2, <1>8, Zenon DEF InitDh
<1>9. CASE InitKeys(c, d, q, r)
  BY <1>1, <1>2, <1>9, Zenon DEF InitKeys
<1>10. CASE DoneInit(c, d, q, r)
  BY <1>1, <1>2, <1>10, Zenon DEF DoneInit
<1>11. CASE DoneDh(c, d, q, r)
  BY <1>1, <1>2, <1>11, Zenon DEF DoneDh
<1>12. CASE DoneKeys(c, d, q, r)
  BY <1>1, <1>2, <1>12, Zenon DEF DoneKeys
<1>13. CASE KeysKeys(c, d, q, r)
  BY <1>1, <1>2, <1>13, Zenon DEF KeysKeys
<1>14. CASE KeysIdle(c, d, q, r)
  BY <1>1, <1>2, <1>14, Zenon DEF KeysIdle
<1>15. CASE KeysInit(c, d, q, r)
  BY <1>1, <1>2, <1>15, Zenon DEF KeysInit
<1> QED
  BY <1>3, <1>4, <1>5, <1>6, <1>7, <1>8, <1>9, <1>10, <1>11, <1>12, <1>13, <1>14, <1>15 DEF Row


LEMMA ClientIdle ==
    ASSUME NEW c, NEW d, NEW q, NEW r, Row(c, d, q, r), c.phase = "idle"
    PROVE  IdleIdle(c, d, q, r) \/ IdleInit(c, d, q, r) \/ IdleKeys(c, d, q, r)
<1>1. "idle" # "init" /\ "idle" # "dhdone" /\ "idle" # "dh" /\ "idle" # "keys"
  OBVIOUS
<1>2. CASE IdleIdle(c, d, q, r)
  BY <1>1, <1>2, Zenon DEF IdleIdle
<1>3. CASE IdleInit(c, d, q, r)
  BY <1>1, <1>3, Zenon DEF IdleInit
<1>4. CASE IdleKeys(c, d, q, r)
  BY <1>1, <1>4, Zenon DEF IdleKeys
<1>5. CASE InitIdle(c, d, q, r)
  BY <1>1, <1>5, Zenon DEF InitIdle
<1>6. CASE InitInit(c, d, q, r)
  BY <1>1, <1>6, Zenon DEF InitInit
<1>7. CASE InitDh(c, d, q, r)
  BY <1>1, <1>7, Zenon DEF InitDh
<1>8. CASE InitKeys(c, d, q, r)
  BY <1>1, <1>8, Zenon DEF InitKeys
<1>9. CASE DoneInit(c, d, q, r)
  BY <1>1, <1>9, Zenon DEF DoneInit
<1>10. CASE DoneDh(c, d, q, r)
  BY <1>1, <1>10, Zenon DEF DoneDh
<1>11. CASE DoneKeys(c, d, q, r)
  BY <1>1, <1>11, Zenon DEF DoneKeys
<1>12. CASE KeysKeys(c, d, q, r)
  BY <1>1, <1>12, Zenon DEF KeysKeys
<1>13. CASE KeysIdle(c, d, q, r)
  BY <1>1, <1>13, Zenon DEF KeysIdle
<1>14. CASE KeysInit(c, d, q, r)
  BY <1>1, <1>14, Zenon DEF KeysInit
<1> QED
  BY <1>2, <1>3, <1>4, <1>5, <1>6, <1>7, <1>8, <1>9, <1>10, <1>11, <1>12, <1>13, <1>14 DEF Row


LEMMA ServerIdle ==
    ASSUME NEW c, NEW d, NEW q, NEW r, Row(c, d, q, r), d.phase = "idle"
    PROVE  IdleIdle(c, d, q, r) \/ InitIdle(c, d, q, r) \/ KeysIdle(c, d, q, r)
<1>1. "idle" # "init" /\ "idle" # "dhdone" /\ "idle" # "dh" /\ "idle" # "keys"
  OBVIOUS
<1>2. CASE IdleIdle(c, d, q, r)
  BY <1>1, <1>2, Zenon DEF IdleIdle
<1>3. CASE IdleInit(c, d, q, r)
  BY <1>1, <1>3, Zenon DEF IdleInit
<1>4. CASE IdleKeys(c, d, q, r)
  BY <1>1, <1>4, Zenon DEF IdleKeys
<1>5. CASE InitIdle(c, d, q, r)
  BY <1>1, <1>5, Zenon DEF InitIdle
<1>6. CASE InitInit(c, d, q, r)
  BY <1>1, <1>6, Zenon DEF InitInit
<1>7. CASE InitDh(c, d, q, r)
  BY <1>1, <1>7, Zenon DEF InitDh
<1>8. CASE InitKeys(c, d, q, r)
  BY <1>1, <1>8, Zenon DEF InitKeys
<1>9. CASE DoneInit(c, d, q, r)
  BY <1>1, <1>9, Zenon DEF DoneInit
<1>10. CASE DoneDh(c, d, q, r)
  BY <1>1, <1>10, Zenon DEF DoneDh
<1>11. CASE DoneKeys(c, d, q, r)
  BY <1>1, <1>11, Zenon DEF DoneKeys
<1>12. CASE KeysKeys(c, d, q, r)
  BY <1>1, <1>12, Zenon DEF KeysKeys
<1>13. CASE KeysIdle(c, d, q, r)
  BY <1>1, <1>13, Zenon DEF KeysIdle
<1>14. CASE KeysInit(c, d, q, r)
  BY <1>1, <1>14, Zenon DEF KeysInit
<1> QED
  BY <1>2, <1>3, <1>4, <1>5, <1>6, <1>7, <1>8, <1>9, <1>10, <1>11, <1>12, <1>13, <1>14 DEF Row

\* The rows a message leads to.

LEMMA MessageFacts ==
    ASSUME NEW n, NEW h
    PROVE  KI(n).n = n /\ EI(n).e = n /\ ER(n, h).e = n /\ ER(n, h).hash = h
BY Zenon DEF KI, EI, ER

LEMMA ExchangeFacts ==
    ASSUME NEW a, NEW b, NEW e, NEW f
    PROVE  LET x == Exchange(a, b, e, f) IN x.ck = a /\ x.sk = b /\ x.ce = e /\ x.se = f
BY Zenon DEF Exchange

LEMMA ClientTakesInit ==
    ASSUME NEW c, NEW d, NEW q, NEW r, Row(c, d, q, r), r # <<>>, NEW z, NEW msgs,
           ClientTookInit(c, Head(r), z, msgs)
    PROVE  Row(z, d, q \o msgs, Tail(r))
<1>1. /\ Head(<<KI(d.inits)>>) = KI(d.inits) /\ Tail(<<KI(d.inits)>>) = <<>>
      /\ Append(<<>>, d.inits) = <<d.inits>>
      /\ <<>> \o <<EI(z.inits)>> = <<EI(z.inits)>>
      /\ <<>> \o <<KI(z.inits), EI(z.inits)>> = <<KI(z.inits), EI(z.inits)>>
      /\ <<KI(z.inits)>> \o <<EI(z.inits)>> = <<KI(z.inits), EI(z.inits)>>
  BY Tuples
<1>2. KI(d.inits).n = d.inits
  BY MessageFacts
<1>3. c.phase = "init" \/ c.phase = "idle"
  BY DEF ClientTookInit
<1>4. /\ Ok("client") /\ z.phase = "dhdone" /\ (SameKeys(c, d) => SameKeys(z, d))
      /\ z.sid = c.sid /\ Head(r).t = "KEXINIT"
  BY DEF ClientTookInit, KeepsKeys, SameKeys
<1>5. IdleInit(c, d, q, r) \/ InitInit(c, d, q, r) \/ InitDh(c, d, q, r)
  BY <1>4, ToClient
<1>6. CASE IdleInit(c, d, q, r)
  <2>1. /\ c.phase = "idle" /\ d.phase = "init" /\ q = <<>> /\ r = <<KI(d.inits)>>
        /\ SameKeys(c, d) /\ c.sid = d.sid /\ ServerOnly(d)
    BY <1>6 DEF IdleInit
  <2>2. /\ z.ex = Exchange(<<z.inits>>, Append(<<>>, Head(r).n), <<z.inits>>, <<>>)
        /\ msgs = <<KI(z.inits), EI(z.inits)>>
    BY <2>1 DEF ClientTookInit
  <2>3. z.ex = Exchange(<<z.inits>>, <<d.inits>>, <<z.inits>>, <<>>)
    BY <1>1, <1>2, <2>1, <2>2, Zenon
  <2>4. q \o msgs = <<KI(z.inits), EI(z.inits)>> /\ Tail(r) = <<>>
    BY <1>1, <2>1, <2>2, Zenon
  <2> HIDE DEF IdleInit
  <2>5. DoneInit(z, d, q \o msgs, Tail(r))
    BY <1>4, <2>1, <2>3, <2>4, Zenon DEF DoneInit
  <2> QED  BY <2>5, Zenon DEF Row
<1>7. ASSUME c.phase = "init", ClientOnly(c), r = <<KI(d.inits)>>
      PROVE  /\ z.inits = c.inits /\ msgs = <<EI(z.inits)>> /\ Tail(r) = <<>>
             /\ z.ex = Exchange(<<z.inits>>, <<d.inits>>, <<z.inits>>, <<>>)
  <2>1. /\ z.inits = c.inits /\ msgs = <<EI(z.inits)>>
        /\ z.ex = Exchange(c.ex.ck, Append(c.ex.sk, Head(r).n), <<c.inits>>, c.ex.se)
    BY <1>7 DEF ClientTookInit
  <2>2. c.ex.ck = <<c.inits>> /\ c.ex.sk = <<>> /\ c.ex.se = <<>>
    BY <1>7, ExchangeFacts DEF ClientOnly
  <2>3. Head(r).n = d.inits /\ Tail(r) = <<>>
    BY <1>1, <1>2, <1>7, Zenon
  <2>4. z.ex = Exchange(<<z.inits>>, <<d.inits>>, <<z.inits>>, <<>>)
    BY <1>1, <2>1, <2>2, <2>3, Zenon
  <2> QED  BY <2>1, <2>3, <2>4
<1>8. CASE InitInit(c, d, q, r)
  <2>1. /\ c.phase = "init" /\ d.phase = "init" /\ q = <<KI(c.inits)>> /\ r = <<KI(d.inits)>>
        /\ SameKeys(c, d) /\ c.sid = d.sid /\ ClientOnly(c) /\ ServerOnly(d)
    BY <1>8 DEF InitInit
  <2>2. /\ z.inits = c.inits /\ msgs = <<EI(z.inits)>> /\ Tail(r) = <<>>
        /\ z.ex = Exchange(<<z.inits>>, <<d.inits>>, <<z.inits>>, <<>>)
    BY <1>7, <2>1
  <2>3. q \o msgs = <<KI(z.inits), EI(z.inits)>>
    BY <1>1, <2>1, <2>2, Zenon
  <2>4. DoneInit(z, d, q \o msgs, Tail(r))
    BY <1>4, <2>1, <2>2, <2>3, Zenon DEF DoneInit
  <2> QED  BY <2>4, Zenon DEF Row
<1>9. CASE InitDh(c, d, q, r)
  <2>1. /\ c.phase = "init" /\ d.phase = "dh" /\ q = <<>> /\ r = <<KI(d.inits)>>
        /\ SameKeys(c, d) /\ c.sid = d.sid /\ ClientOnly(c) /\ Ok("server")
        /\ d.ex = Exchange(<<c.inits>>, <<d.inits>>, <<>>, <<>>)
    BY <1>9 DEF InitDh
  <2>2. /\ z.inits = c.inits /\ msgs = <<EI(z.inits)>> /\ Tail(r) = <<>>
        /\ z.ex = Exchange(<<z.inits>>, <<d.inits>>, <<z.inits>>, <<>>)
    BY <1>7, <2>1
  <2>3. q \o msgs = <<EI(z.inits)>>
    BY <1>1, <2>1, <2>2, Zenon
  <2>4. DoneDh(z, d, q \o msgs, Tail(r))
    BY <1>4, <2>1, <2>2, <2>3, Zenon DEF DoneDh, BothOk
  <2> QED  BY <2>4, Zenon DEF Row
<1> QED  BY <1>5, <1>6, <1>8, <1>9

LEMMA ServerTakesInit ==
    ASSUME NEW c, NEW d, NEW q, NEW r, Row(c, d, q, r), q # <<>>, NEW z, NEW msgs,
           ServerTookInit(d, Head(q), z, msgs)
    PROVE  Row(c, z, Tail(q), r \o msgs)
<1>1. /\ Head(<<KI(c.inits)>>) = KI(c.inits) /\ Tail(<<KI(c.inits)>>) = <<>>
      /\ Head(<<KI(c.inits), EI(c.inits)>>) = KI(c.inits)
      /\ Tail(<<KI(c.inits), EI(c.inits)>>) = <<EI(c.inits)>>
      /\ Append(<<>>, c.inits) = <<c.inits>>
      /\ <<>> \o <<>> = <<>>
      /\ <<>> \o <<KI(z.inits)>> = <<KI(z.inits)>>
      /\ <<KI(z.inits)>> \o <<>> = <<KI(z.inits)>>
  BY Tuples
<1>2. KI(c.inits).n = c.inits
  BY MessageFacts
<1>4. /\ Ok("server") /\ z.phase = "dh" /\ (SameKeys(c, d) => SameKeys(c, z))
      /\ z.sid = d.sid /\ Head(q).t = "KEXINIT"
  BY DEF ServerTookInit, KeepsKeys, SameKeys
<1>5. InitIdle(c, d, q, r) \/ InitInit(c, d, q, r) \/ DoneInit(c, d, q, r)
  BY <1>4, ToServer
<1>6. CASE InitIdle(c, d, q, r)
  <2>1. /\ c.phase = "init" /\ d.phase = "idle" /\ q = <<KI(c.inits)>> /\ r = <<>>
        /\ SameKeys(c, d) /\ c.sid = d.sid /\ ClientOnly(c)
    BY <1>6 DEF InitIdle
  <2>2. /\ z.ex = Exchange(Append(<<>>, Head(q).n), <<z.inits>>, <<>>, <<>>)
        /\ msgs = <<KI(z.inits)>>
    BY <2>1 DEF ServerTookInit
  <2>3. z.ex = Exchange(<<c.inits>>, <<z.inits>>, <<>>, <<>>)
    BY <1>1, <1>2, <2>1, <2>2, Zenon
  <2>4. r \o msgs = <<KI(z.inits)>> /\ Tail(q) = <<>>
    BY <1>1, <2>1, <2>2, Zenon
  <2>5. InitDh(c, z, Tail(q), r \o msgs)
    BY <1>4, <2>1, <2>3, <2>4, Zenon DEF InitDh
  <2> QED  BY <2>5, Zenon DEF Row
<1>7. ASSUME d.phase = "init", ServerOnly(d), Head(q) = KI(c.inits)
      PROVE  /\ z.inits = d.inits /\ msgs = <<>>
             /\ z.ex = Exchange(<<c.inits>>, <<z.inits>>, <<>>, <<>>)
  <2>1. /\ z.inits = d.inits /\ msgs = <<>>
        /\ z.ex = Exchange(Append(d.ex.ck, Head(q).n), d.ex.sk, d.ex.ce, d.ex.se)
    BY <1>7 DEF ServerTookInit
  <2>2. d.ex.ck = <<>> /\ d.ex.sk = <<d.inits>> /\ d.ex.ce = <<>> /\ d.ex.se = <<>>
    BY <1>7, ExchangeFacts DEF ServerOnly
  <2>3. z.ex = Exchange(<<c.inits>>, <<z.inits>>, <<>>, <<>>)
    BY <1>1, <1>2, <1>7, <2>1, <2>2, Zenon
  <2> QED  BY <2>1, <2>3
<1>8. CASE InitInit(c, d, q, r)
  <2>1. /\ c.phase = "init" /\ d.phase = "init" /\ q = <<KI(c.inits)>> /\ r = <<KI(d.inits)>>
        /\ SameKeys(c, d) /\ c.sid = d.sid /\ ClientOnly(c) /\ ServerOnly(d)
    BY <1>8 DEF InitInit
  <2>2. Head(q) = KI(c.inits) /\ Tail(q) = <<>>
    BY <1>1, <2>1, Zenon
  <2>3. /\ z.inits = d.inits /\ msgs = <<>>
        /\ z.ex = Exchange(<<c.inits>>, <<z.inits>>, <<>>, <<>>)
    BY <1>7, <2>1, <2>2
  <2>4. r \o msgs = <<KI(z.inits)>>
    BY <1>1, <2>1, <2>3, Zenon
  <2>5. InitDh(c, z, Tail(q), r \o msgs)
    BY <1>4, <2>1, <2>2, <2>3, <2>4, Zenon DEF InitDh
  <2> QED  BY <2>5, Zenon DEF Row
<1>9. CASE DoneInit(c, d, q, r)
  <2>1. /\ c.phase = "dhdone" /\ d.phase = "init" /\ q = <<KI(c.inits), EI(c.inits)>> /\ r = <<>>
        /\ SameKeys(c, d) /\ c.sid = d.sid /\ ServerOnly(d) /\ Ok("client")
        /\ c.ex = Exchange(<<c.inits>>, <<d.inits>>, <<c.inits>>, <<>>)
    BY <1>9 DEF DoneInit
  <2>2. Head(q) = KI(c.inits) /\ Tail(q) = <<EI(c.inits)>>
    BY <1>1, <2>1, Zenon
  <2>3. /\ z.inits = d.inits /\ msgs = <<>>
        /\ z.ex = Exchange(<<c.inits>>, <<z.inits>>, <<>>, <<>>)
    BY <1>7, <2>1, <2>2
  <2>4. r \o msgs = <<>>
    BY <1>1, <2>1, <2>3, Zenon
  <2>5. DoneDh(c, z, Tail(q), r \o msgs)
    BY <1>4, <2>1, <2>2, <2>3, <2>4, Zenon DEF DoneDh, BothOk
  <2> QED  BY <2>5, Zenon DEF Row
<1> QED  BY <1>5, <1>6, <1>8, <1>9

LEMMA ServerTakesEcdh ==
    ASSUME NEW c, NEW d, NEW q, NEW r, Row(c, d, q, r), q # <<>>, NEW z, NEW msgs,
           ServerTookEcdh(d, Head(q), z, msgs)
    PROVE  Row(c, z, Tail(q), r \o msgs)
<1> DEFINE h == Hash("server", z)
           er == ER(d.inits, h)
<1>1. Head(q).t = "ECDH_INIT"
  BY DEF ServerTookEcdh
<1>2. DoneDh(c, d, q, r)
  BY <1>1, ToServer
<1>3. /\ c.phase = "dhdone" /\ q = <<EI(c.inits)>> /\ r = <<>>
      /\ SameKeys(c, d) /\ c.sid = d.sid /\ BothOk
      /\ c.ex = Exchange(<<c.inits>>, <<d.inits>>, <<c.inits>>, <<>>)
      /\ d.ex = Exchange(<<c.inits>>, <<d.inits>>, <<>>, <<>>)
  BY <1>2 DEF DoneDh
<1>4. /\ Head(<<EI(c.inits)>>) = EI(c.inits) /\ Tail(<<EI(c.inits)>>) = <<>>
      /\ Append(<<>>, c.inits) = <<c.inits>>
      /\ <<>> \o <<er, NK>> = <<er, NK>>
  BY Tuples
<1>5. Head(q).e = c.inits /\ Tail(q) = <<>>
  BY <1>3, <1>4, MessageFacts, Zenon
<1>6. /\ z.inits = d.inits /\ z.phase = "keys" /\ msgs = <<er, NK>>
      /\ z.ex = Exchange(d.ex.ck, d.ex.sk, Append(d.ex.ce, Head(q).e), <<d.inits>>)
      /\ z.enc = d.enc /\ z.wkey = d.wkey
      /\ z.newkeys = <<h, z.sid, Chosen("server")[1]>>
      /\ z.sid = (IF d.sid = <<>> THEN h ELSE d.sid)
  BY DEF ServerTookEcdh, Computed
<1>7. d.ex.ck = <<c.inits>> /\ d.ex.sk = <<d.inits>> /\ d.ex.ce = <<>>
  <2> DEFINE a == <<c.inits>>
             b == <<d.inits>>
             e == <<>>
  <2> HIDE DEF a, b, e
  <2>1. d.ex = Exchange(a, b, e, e)
    BY <1>3 DEF a, b, e
  <2>2. d.ex.ck = a /\ d.ex.sk = b /\ d.ex.ce = e
    BY <2>1, ExchangeFacts
  <2> QED  BY <2>2 DEF a, b, e
<1>8. z.ex = Exchange(<<c.inits>>, <<d.inits>>, <<c.inits>>, <<d.inits>>)
  BY <1>4, <1>5, <1>6, <1>7, Zenon
<1>9. /\ z.ex.ck = <<c.inits>> /\ z.ex.sk = <<d.inits>>
      /\ z.ex.ce = <<c.inits>> /\ z.ex.se = <<d.inits>>
  <2> DEFINE a == <<c.inits>>
             b == <<d.inits>>
  <2> HIDE DEF a, b
  <2>1. z.ex = Exchange(a, b, a, b)
    BY <1>8 DEF a, b
  <2>2. z.ex.ck = a /\ z.ex.sk = b /\ z.ex.ce = a /\ z.ex.se = b
    BY <2>1, ExchangeFacts
  <2> QED  BY <2>2 DEF a, b
<1>10. h = HashOf(c, z)
  BY <1>6, <1>9, Zenon DEF Hash, HashOf
<1> HIDE DEF h
<1>11. r \o msgs = <<ER(z.inits, HashOf(c, z)), NK>>
  BY <1>3, <1>4, <1>6, <1>10, Zenon
<1>12. SameKeys(c, z)
  BY <1>3, <1>6 DEF SameKeys
<1>13. DoneKeys(c, z, Tail(q), r \o msgs)
  BY <1>3, <1>5, <1>6, <1>10, <1>11, <1>12, Zenon DEF DoneKeys
<1> QED  BY <1>13, Zenon DEF Row

LEMMA ClientTakesReply ==
    ASSUME PrefsOk, NEW c, NEW d, NEW q, NEW r, Row(c, d, q, r), r # <<>>, NEW z, NEW msgs,
           ClientTookReply(c, Head(r), z, msgs)
    PROVE  Row(z, d, q \o msgs, Tail(r))
<1> DEFINE h == Hash("client", z)
           er == ER(d.inits, HashOf(c, d))
<1>1. Head(r).t = "ECDH_REPLY"
  BY DEF ClientTookReply
<1>2. DoneKeys(c, d, q, r)
  BY <1>1, ToClient
<1>3. /\ d.phase = "keys" /\ q = <<>> /\ r = <<er, NK>>
      /\ SameKeys(c, d) /\ BothOk
      /\ d.newkeys = <<HashOf(c, d), d.sid, Chosen("server")[1]>>
      /\ d.sid = (IF c.sid = <<>> THEN HashOf(c, d) ELSE c.sid)
  BY <1>2 DEF DoneKeys
<1>4. Head(<<er, NK>>) = er /\ Tail(<<er, NK>>) = <<NK>> /\ <<>> \o <<NK>> = <<NK>>
  BY Tuples
<1>5. Head(r).hash = HashOf(c, d) /\ Tail(r) = <<NK>>
  <2>1. er.hash = HashOf(c, d)
    BY Zenon DEF ER
  <2> HIDE DEF er
  <2> QED  BY <1>3, <1>4, <2>1, Zenon
<1>6. /\ z.phase = "keys" /\ msgs = <<NK>> /\ Head(r).hash = h
      /\ z.enc = c.enc /\ z.wkey = c.wkey
      /\ z.newkeys = <<h, z.sid, Chosen("client")[1]>>
      /\ z.sid = (IF c.sid = <<>> THEN h ELSE c.sid)
  BY DEF ClientTookReply, Computed
<1>7. h = HashOf(c, d)
  BY <1>5, <1>6
<1>8. Chosen("client")[1].kex = Chosen("server")[1].kex
  <2>1. h[5] = Chosen("client")[1].kex
    BY Zenon DEF Hash
  <2>2. HashOf(c, d)[5] = Chosen("server")[1].kex
    BY Zenon DEF HashOf
  <2> QED  BY <1>7, <2>1, <2>2, Zenon
<1>9. Chosen("client")[1] = Chosen("server")[1]
  BY <1>3, <1>8, SameNames DEF BothOk, Ok
<1> HIDE DEF h
<1>10. q \o msgs = <<NK>>
  BY <1>3, <1>4, <1>6, Zenon
<1>11. SameKeys(z, d)
  BY <1>3, <1>6 DEF SameKeys
<1>12. z.sid = d.sid /\ z.newkeys = d.newkeys
  BY <1>3, <1>6, <1>7, <1>9, Zenon
<1>13. KeysKeys(z, d, q \o msgs, Tail(r))
  BY <1>3, <1>5, <1>6, <1>10, <1>11, <1>12, Zenon DEF KeysKeys
<1> QED  BY <1>13, Zenon DEF Row

\* The keys that a side begins to use are the peer's.
LEMMA ClientTakesKeys ==
    ASSUME NEW c, NEW d, NEW q, NEW r, Row(c, d, q, r), r # <<>>, NEW z, NEW msgs,
           TookKeys("client", c, Head(r), z, msgs)
    PROVE  Row(z, d, q, Tail(r)) /\ (BothOk \/ d.enc)
<1>1. /\ Head(r).t = "NEWKEYS" /\ z.phase = "idle" /\ z.enc /\ z.wkey = c.newkeys
      /\ z.sid = c.sid
  BY DEF TookKeys
<1>2. KeysKeys(c, d, q, r) \/ KeysIdle(c, d, q, r) \/ KeysInit(c, d, q, r)
  BY <1>1, ToClient
<1>3. Tail(<<NK>>) = <<>> /\ Tail(<<NK, KI(d.inits)>>) = <<KI(d.inits)>>
  BY Tuples
<1>4. CASE KeysKeys(c, d, q, r)
  <2>1. IdleKeys(z, d, q, Tail(r)) /\ BothOk
    BY <1>1, <1>3, <1>4, Zenon DEF KeysKeys, IdleKeys
  <2> QED  BY <2>1, Zenon DEF Row
<1>5. CASE KeysIdle(c, d, q, r)
  <2>1. SameKeys(z, d) /\ d.enc
    BY <1>1, <1>5, Zenon DEF KeysIdle, SameKeys
  <2>2. IdleIdle(z, d, q, Tail(r))
    BY <1>1, <1>3, <1>5, <2>1, Zenon DEF KeysIdle, IdleIdle
  <2> QED  BY <2>1, <2>2, Zenon DEF Row
<1>6. CASE KeysInit(c, d, q, r)
  <2>1. SameKeys(z, d) /\ d.enc
    BY <1>1, <1>6, Zenon DEF KeysInit, SameKeys
  <2>2. IdleInit(z, d, q, Tail(r))
    BY <1>1, <1>3, <1>6, <2>1, Zenon DEF KeysInit, IdleInit
  <2> QED  BY <2>1, <2>2, Zenon DEF Row
<1> QED  BY <1>2, <1>4, <1>5, <1>6

LEMMA ServerTakesKeys ==
    ASSUME NEW c, NEW d, NEW q, NEW r, Row(c, d, q, r), q # <<>>, NEW z, NEW msgs,
           TookKeys("server", d, Head(q), z, msgs)
    PROVE  Row(c, z, Tail(q), r) /\ (BothOk \/ c.enc)
<1>1. /\ Head(q).t = "NEWKEYS" /\ z.phase = "idle" /\ z.enc /\ z.wkey = d.newkeys
      /\ z.sid = d.sid
  BY DEF TookKeys
<1>2. IdleKeys(c, d, q, r) \/ InitKeys(c, d, q, r) \/ KeysKeys(c, d, q, r)
  BY <1>1, ToServer
<1>3. Tail(<<NK>>) = <<>> /\ Tail(<<NK, KI(c.inits)>>) = <<KI(c.inits)>>
  BY Tuples
<1>4. CASE KeysKeys(c, d, q, r)
  <2>1. KeysIdle(c, z, Tail(q), r) /\ BothOk
    BY <1>1, <1>3, <1>4, Zenon DEF KeysKeys, KeysIdle
  <2> QED  BY <2>1, Zenon DEF Row
<1>5. CASE IdleKeys(c, d, q, r)
  <2>1. SameKeys(c, z) /\ c.enc
    BY <1>1, <1>5, Zenon DEF IdleKeys, SameKeys
  <2>2. IdleIdle(c, z, Tail(q), r)
    BY <1>1, <1>3, <1>5, <2>1, Zenon DEF IdleKeys, IdleIdle
  <2> QED  BY <2>1, <2>2, Zenon DEF Row
<1>6. CASE InitKeys(c, d, q, r)
  <2>1. SameKeys(c, z) /\ c.enc
    BY <1>1, <1>6, Zenon DEF InitKeys, SameKeys
  <2>2. InitIdle(c, z, Tail(q), r)
    BY <1>1, <1>3, <1>6, <2>1, Zenon DEF InitKeys, InitIdle
  <2> QED  BY <2>1, <2>2, Zenon DEF Row
<1> QED  BY <1>2, <1>4, <1>5, <1>6

\* A re-exchange is begun.
LEMMA ClientRekeys ==
    ASSUME NEW c, NEW d, NEW q, NEW r, Row(c, d, q, r), NEW z, NEW msgs,
           Rekeyed("client", c, z, msgs)
    PROVE  Row(z, d, q \o msgs, r)
<1>1. /\ c.phase = "idle" /\ c.enc /\ z.phase = "init" /\ z.enc = c.enc /\ z.wkey = c.wkey
      /\ z.sid = c.sid /\ msgs = <<KI(z.inits)>>
      /\ z.ex = Exchange(<<z.inits>>, <<>>, <<>>, <<>>)
  BY DEF Rekeyed, KeepsKeys
<1>2. IdleIdle(c, d, q, r) \/ IdleInit(c, d, q, r) \/ IdleKeys(c, d, q, r)
  BY <1>1, ClientIdle
<1>3. <<>> \o <<KI(z.inits)>> = <<KI(z.inits)>> /\ <<NK>> \o <<KI(z.inits)>> = <<NK, KI(z.inits)>>
  BY Tuples
<1>4. ClientOnly(z) /\ (SameKeys(c, d) => SameKeys(z, d) /\ d.enc)
  BY <1>1 DEF ClientOnly, SameKeys
<1>5. CASE IdleIdle(c, d, q, r)
  <2>1. InitIdle(z, d, q \o msgs, r)
    BY <1>1, <1>3, <1>4, <1>5, Zenon DEF IdleIdle, InitIdle
  <2> QED  BY <2>1, Zenon DEF Row
<1>6. CASE IdleInit(c, d, q, r)
  <2>1. InitInit(z, d, q \o msgs, r)
    BY <1>1, <1>3, <1>4, <1>6, Zenon DEF IdleInit, InitInit
  <2> QED  BY <2>1, Zenon DEF Row
<1>7. CASE IdleKeys(c, d, q, r)
  <2>1. InitKeys(z, d, q \o msgs, r)
    BY <1>1, <1>3, <1>4, <1>7, Zenon DEF IdleKeys, InitKeys
  <2> QED  BY <2>1, Zenon DEF Row
<1> QED  BY <1>2, <1>5, <1>6, <1>7

LEMMA ServerRekeys ==
    ASSUME NEW c, NEW d, NEW q, NEW r, Row(c, d, q, r), NEW z, NEW msgs,
           Rekeyed("server", d, z, msgs)
    PROVE  Row(c, z, q, r \o msgs)
<1>1. /\ d.phase = "idle" /\ d.enc /\ z.phase = "init" /\ z.enc = d.enc /\ z.wkey = d.wkey
      /\ z.sid = d.sid /\ msgs = <<KI(z.inits)>>
      /\ z.ex = Exchange(<<>>, <<z.inits>>, <<>>, <<>>)
  BY DEF Rekeyed, KeepsKeys
<1>2. IdleIdle(c, d, q, r) \/ InitIdle(c, d, q, r) \/ KeysIdle(c, d, q, r)
  BY <1>1, ServerIdle
<1>3. <<>> \o <<KI(z.inits)>> = <<KI(z.inits)>> /\ <<NK>> \o <<KI(z.inits)>> = <<NK, KI(z.inits)>>
  BY Tuples
<1>4. ServerOnly(z) /\ (SameKeys(c, d) => SameKeys(c, z) /\ c.enc)
  BY <1>1 DEF ServerOnly, SameKeys
<1>5. CASE IdleIdle(c, d, q, r)
  <2>1. IdleInit(c, z, q, r \o msgs)
    BY <1>1, <1>3, <1>4, <1>5, Zenon DEF IdleIdle, IdleInit
  <2> QED  BY <2>1, Zenon DEF Row
<1>6. CASE InitIdle(c, d, q, r)
  <2>1. InitInit(c, z, q, r \o msgs)
    BY <1>1, <1>3, <1>4, <1>6, Zenon DEF InitIdle, InitInit
  <2> QED  BY <2>1, Zenon DEF Row
<1>7. CASE KeysIdle(c, d, q, r)
  <2>1. KeysInit(c, z, q, r \o msgs)
    BY <1>1, <1>3, <1>4, <1>7, Zenon DEF KeysIdle, KeysInit
  <2> QED  BY <2>1, Zenon DEF Row
<1> QED  BY <1>2, <1>5, <1>6, <1>7

LEMMA RowSeq ==
    ASSUME NEW c, NEW d, NEW q, NEW r, Row(c, d, q, r)
    PROVE  IsSeq(q) /\ IsSeq(r)
<1>1. IsSeq(<<>>) /\ (\A a : IsSeq(<<a>>)) /\ (\A a, b : IsSeq(<<a, b>>))
  BY SeqMake
<1>2. CASE IdleIdle(c, d, q, r)
  BY <1>1, <1>2, Zenon DEF IdleIdle
<1>3. CASE IdleInit(c, d, q, r)
  BY <1>1, <1>3, Zenon DEF IdleInit
<1>4. CASE IdleKeys(c, d, q, r)
  BY <1>1, <1>4, Zenon DEF IdleKeys
<1>5. CASE InitIdle(c, d, q, r)
  BY <1>1, <1>5, Zenon DEF InitIdle
<1>6. CASE InitInit(c, d, q, r)
  BY <1>1, <1>6, Zenon DEF InitInit
<1>7. CASE InitDh(c, d, q, r)
  BY <1>1, <1>7, Zenon DEF InitDh
<1>8. CASE InitKeys(c, d, q, r)
  BY <1>1, <1>8, Zenon DEF InitKeys
<1>9. CASE DoneInit(c, d, q, r)
  BY <1>1, <1>9, Zenon DEF DoneInit
<1>10. CASE DoneDh(c, d, q, r)
  BY <1>1, <1>10, Zenon DEF DoneDh
<1>11. CASE DoneKeys(c, d, q, r)
  BY <1>1, <1>11, Zenon DEF DoneKeys
<1>12. CASE KeysKeys(c, d, q, r)
  BY <1>1, <1>12, Zenon DEF KeysKeys
<1>13. CASE KeysIdle(c, d, q, r)
  BY <1>1, <1>13, Zenon DEF KeysIdle
<1>14. CASE KeysInit(c, d, q, r)
  BY <1>1, <1>14, Zenon DEF KeysInit
<1> QED
  BY <1>2, <1>3, <1>4, <1>5, <1>6, <1>7, <1>8, <1>9, <1>10, <1>11, <1>12, <1>13, <1>14 DEF Row


\* The same from one side: x is the session of side s and y its peer's, q is
\* on its way to the peer and r on its way to s.
RowOf(s, x, y, q, r) == IF s = "client" THEN Row(x, y, q, r) ELSE Row(y, x, r, q)

\* Of the messages written, u are of an exchange.
Adds(msgs, u) ==
    \/ u = msgs /\ \A i \in DOMAIN msgs : msgs[i].t \notin Others
    \/ u = <<>> /\ \A i \in DOMAIN msgs : msgs[i].t \in Others

\* What side s has written and become keeps the two in a row, rest being on
\* its way to s.
Moves(s, z, y, q, rest, msgs) ==
    Keyed(z) /\ \E u : Adds(msgs, u) /\ RowOf(s, z, y, q \o u, rest)

LEMMA MovesSame ==
    ASSUME NEW s, NEW x, NEW y, NEW z, NEW q, NEW r, RowOf(s, x, y, q, r), Keyed(x),
           KeepsKeys(x, z), KeepsExchange(x, z), NEW msgs,
           \A i \in DOMAIN msgs : msgs[i].t \in Others
    PROVE  Moves(s, z, y, q, r, msgs)
<1>1. RowOf(s, z, y, q, r)
  BY RowSame, RowSameServer DEF RowOf
<1>2. q \o <<>> = q
  <2>1. IsSeq(q) /\ IsSeq(<<>>)
    BY RowSeq, SeqMake DEF RowOf
  <2> QED  BY <2>1, SeqJoin
<1>3. Keyed(z)
  BY DEF Keyed, KeepsKeys
<1>4. Adds(msgs, <<>>)
  BY DEF Adds
<1>5. RowOf(s, z, y, q \o <<>>, r)
  BY <1>1, <1>2
<1> QED  BY <1>3, <1>4, <1>5, Zenon DEF Moves

LEMMA MovesExchange ==
    ASSUME NEW s, NEW y, NEW z, NEW q, NEW r, NEW msgs, RowOf(s, z, y, q \o msgs, r), Keyed(z),
           \A i \in DOMAIN msgs : msgs[i].t \notin Others
    PROVE  Moves(s, z, y, q, r, msgs)
<1>1. Adds(msgs, msgs)
  BY DEF Adds
<1> QED  BY <1>1, Zenon DEF Moves

LEMMA ExchangeMessages ==
    ASSUME NEW a, NEW b, NEW msgs, msgs = <<>> \/ msgs = <<a>> \/ msgs = <<a, b>>,
           a.t \notin Others, b.t \notin Others
    PROVE  \A i \in DOMAIN msgs : msgs[i].t \notin Others
<1>1. DOMAIN <<>> = {} /\ DOMAIN <<a>> = {1} /\ DOMAIN <<a, b>> = {1, 2}
  OBVIOUS
<1>2. <<a>>[1] = a /\ <<a, b>>[1] = a /\ <<a, b>>[2] = b
  OBVIOUS
<1> QED  BY <1>1, <1>2, Zenon

LEMMA ExchangeKinds ==
    /\ \A n : KI(n).t \notin Others /\ EI(n).t \notin Others
    /\ \A n, h : ER(n, h).t \notin Others
    /\ NK.t \notin Others
<1>1. /\ \A n : KI(n).t = "KEXINIT" /\ EI(n).t = "ECDH_INIT"
      /\ \A n, h : ER(n, h).t = "ECDH_REPLY"
      /\ NK.t = "NEWKEYS"
  BY Zenon DEF KI, EI, ER, NK
<1>2. /\ "KEXINIT" \notin Others /\ "ECDH_INIT" \notin Others /\ "ECDH_REPLY" \notin Others
      /\ "NEWKEYS" \notin Others
  BY DEF Others
<1> QED  BY <1>1, <1>2, Zenon

\* A side that reads: of the messages r on their way to it, the first was
\* read if it is of an exchange.
Rest(m, r) == IF m.t \in Others THEN r ELSE Tail(r)
Taken(s, z, y, q, r, m, msgs) ==
    \E rest : Moves(s, z, y, q, rest, msgs) /\ (z.end = "no" => rest = Rest(m, r))

LEMMA TakenKept ==
    ASSUME PrefsOk, NEW s \in Sides, NEW x, NEW y, NEW q, NEW r, RowOf(s, x, y, q, r),
           Keyed(x), Keyed(y), x.stash.beats \in Nat, NEW m, NEW z, NEW msgs,
           Took(s, x, m, z, msgs),
           m.t \notin Others => r # <<>> /\ m = Head(r)
    PROVE  Taken(s, z, y, q, r, m, msgs)
<1>1. CASE Died(x, z, msgs)
  <2>1. /\ z.end # "no" /\ msgs = <<>> /\ KeepsKeys(x, z) /\ KeepsExchange(x, z)
    BY <1>1 DEF Died
  <2>2. \A i \in DOMAIN msgs : msgs[i].t \in Others
    BY <2>1
  <2>3. Moves(s, z, y, q, r, msgs)
    BY <2>1, <2>2, MovesSame
  <2> QED  BY <2>1, <2>3 DEF Taken
<1>2. CASE TookOther(x, m, z, msgs) \/ KeptOther(x, m, z, msgs)
  <2>1. /\ m.t \in Others /\ KeepsKeys(x, z) /\ KeepsExchange(x, z)
        /\ msgs = Answers(PutAside(NothingAside, m)) \/ msgs = <<>>
    BY <1>2 DEF TookOther, KeptOther
  <2>2. \A i \in DOMAIN msgs : msgs[i].t \in Others
    <3>1. CASE msgs = <<>>
      BY <3>1
    <3>2. CASE msgs = Answers(PutAside(NothingAside, m))
      <4>1. \A i \in DOMAIN msgs : msgs[i] = [t |-> "REQUEST_SUCCESS"]
        BY <3>2, AsideFacts, AnswersFacts
      <4> QED  BY <4>1 DEF Others
    <3> QED  BY <2>1, <3>1, <3>2
  <2>3. Moves(s, z, y, q, r, msgs)
    BY <2>1, <2>2, MovesSame
  <2>4. Rest(m, r) = r
    BY <2>1 DEF Rest
  <2> QED  BY <2>3, <2>4 DEF Taken
<1>3. CASE TookKeys(s, x, m, z, msgs)
  <2>1. m.t = "NEWKEYS" /\ z.wkey = z.rkey /\ z.enc /\ msgs = ExtInfo(s, x) \o Answers(x.stash)
    BY <1>3 DEF TookKeys
  <2>2. m.t \notin Others
    BY <2>1 DEF Others
  <2>3. r # <<>> /\ m = Head(r) /\ Rest(m, r) = Tail(r)
    BY <2>2 DEF Rest
  <2>4. \A i \in DOMAIN msgs : msgs[i].t \in Others
    BY <2>1, ReleasedFacts
  <2>5. RowOf(s, z, y, q, Tail(r)) /\ (BothOk \/ y.enc)
    <3>1. TookKeys(s, x, Head(r), z, msgs)
      BY <1>3, <2>3
    <3>2. CASE s = "client"
      BY <2>3, <3>1, <3>2, ClientTakesKeys DEF RowOf
    <3>3. CASE s = "server"
      <4>1. Row(y, x, r, q)
        BY <3>3 DEF RowOf
      <4> QED  BY <2>3, <3>1, <3>3, <4>1, ServerTakesKeys DEF RowOf
    <3> QED  BY <3>2, <3>3 DEF Sides
  <2>6. Keyed(z)
    BY <2>1, <2>5 DEF Keyed
  <2>7. KeepsKeys(z, z) /\ KeepsExchange(z, z)
    BY DEF KeepsKeys, KeepsExchange
  <2>8. Moves(s, z, y, q, Tail(r), msgs)
    BY <2>4, <2>5, <2>6, <2>7, MovesSame
  <2> QED  BY <2>3, <2>8 DEF Taken
<1>4. ASSUME m.t \in {"KEXINIT", "ECDH_INIT", "ECDH_REPLY"},
             z.enc = x.enc, z.wkey = x.wkey, z.rkey = x.rkey,
             \E a, b : /\ msgs = <<>> \/ msgs = <<a>> \/ msgs = <<a, b>>
                       /\ a.t \notin Others /\ b.t \notin Others,
             r # <<>> /\ m = Head(r) => RowOf(s, z, y, q \o msgs, Tail(r))
      PROVE  Taken(s, z, y, q, r, m, msgs)
  <2>1. m.t \notin Others
    BY <1>4 DEF Others
  <2>2. r # <<>> /\ m = Head(r) /\ Rest(m, r) = Tail(r)
    BY <2>1 DEF Rest
  <2>3. RowOf(s, z, y, q \o msgs, Tail(r))
    BY <1>4, <2>2
  <2>4. Keyed(z)
    BY <1>4 DEF Keyed
  <2>5. \A i \in DOMAIN msgs : msgs[i].t \notin Others
    <3>1. PICK a, b : /\ msgs = <<>> \/ msgs = <<a>> \/ msgs = <<a, b>>
                      /\ a.t \notin Others /\ b.t \notin Others
      BY <1>4
    <3> QED  BY <3>1, ExchangeMessages
  <2>6. Moves(s, z, y, q, Tail(r), msgs)
    BY <2>3, <2>4, <2>5, MovesExchange
  <2> QED  BY <2>2, <2>6 DEF Taken
<1>5. CASE s = "client" /\ ClientTookInit(x, m, z, msgs)
  <2>1. m.t = "KEXINIT" /\ z.enc = x.enc /\ z.wkey = x.wkey /\ z.rkey = x.rkey
    BY <1>5 DEF ClientTookInit, KeepsKeys
  <2>2. msgs = <<EI(z.inits)>> \/ msgs = <<KI(z.inits), EI(z.inits)>>
    BY <1>5 DEF ClientTookInit
  <2>3. \E a, b : /\ msgs = <<>> \/ msgs = <<a>> \/ msgs = <<a, b>>
                  /\ a.t \notin Others /\ b.t \notin Others
    BY <2>2, ExchangeKinds, Zenon
  <2>4. r # <<>> /\ m = Head(r) => RowOf(s, z, y, q \o msgs, Tail(r))
    BY <1>5, ClientTakesInit DEF RowOf
  <2> QED  BY <1>4, <2>1, <2>3, <2>4
<1>6. CASE s = "client" /\ ClientTookReply(x, m, z, msgs)
  <2>1. m.t = "ECDH_REPLY" /\ z.enc = x.enc /\ z.wkey = x.wkey /\ z.rkey = x.rkey /\ msgs = <<NK>>
    BY <1>6 DEF ClientTookReply, Computed
  <2>3. \E a, b : /\ msgs = <<>> \/ msgs = <<a>> \/ msgs = <<a, b>>
                  /\ a.t \notin Others /\ b.t \notin Others
    BY <2>1, ExchangeKinds, Zenon
  <2>4. r # <<>> /\ m = Head(r) => RowOf(s, z, y, q \o msgs, Tail(r))
    BY <1>6, ClientTakesReply DEF RowOf
  <2> QED  BY <1>4, <2>1, <2>3, <2>4
<1>7. CASE s = "server" /\ ServerTookInit(x, m, z, msgs)
  <2>1. m.t = "KEXINIT" /\ z.enc = x.enc /\ z.wkey = x.wkey /\ z.rkey = x.rkey
    BY <1>7 DEF ServerTookInit, KeepsKeys
  <2>2. msgs = <<>> \/ msgs = <<KI(z.inits)>>
    BY <1>7 DEF ServerTookInit
  <2>3. \E a, b : /\ msgs = <<>> \/ msgs = <<a>> \/ msgs = <<a, b>>
                  /\ a.t \notin Others /\ b.t \notin Others
    BY <2>2, ExchangeKinds, Zenon
  <2>4. r # <<>> /\ m = Head(r) => RowOf(s, z, y, q \o msgs, Tail(r))
    <3>1. Row(y, x, r, q) /\ s # "client"
      BY <1>7 DEF RowOf
    <3> QED  BY <1>7, <3>1, ServerTakesInit DEF RowOf
  <2> QED  BY <1>4, <2>1, <2>3, <2>4
<1>8. CASE s = "server" /\ ServerTookEcdh(x, m, z, msgs)
  <2>1. m.t = "ECDH_INIT" /\ z.enc = x.enc /\ z.wkey = x.wkey /\ z.rkey = x.rkey
    BY <1>8 DEF ServerTookEcdh, Computed
  <2>2. msgs = <<ER(x.inits, Hash("server", z)), NK>>
    BY <1>8 DEF ServerTookEcdh
  <2>3. \E a, b : /\ msgs = <<>> \/ msgs = <<a>> \/ msgs = <<a, b>>
                  /\ a.t \notin Others /\ b.t \notin Others
    BY <2>2, ExchangeKinds, Zenon
  <2>4. r # <<>> /\ m = Head(r) => RowOf(s, z, y, q \o msgs, Tail(r))
    <3>1. Row(y, x, r, q) /\ s # "client"
      BY <1>8 DEF RowOf
    <3> QED  BY <1>8, <3>1, ServerTakesEcdh DEF RowOf
  <2> QED  BY <1>4, <2>1, <2>3, <2>4
<1> QED  BY <1>1, <1>2, <1>3, <1>5, <1>6, <1>7, <1>8, Zenon DEF Took

LEMMA DoneKept ==
    ASSUME NEW s \in Sides, NEW x, NEW y, NEW q, NEW r, RowOf(s, x, y, q, r),
           Keyed(x), NEW z, NEW msgs, Did(s, x, z, msgs)
    PROVE  Moves(s, z, y, q, r, msgs)
<1>1. CASE Rekeyed(s, x, z, msgs)
  <2>1. z.enc = x.enc /\ z.wkey = x.wkey /\ z.rkey = x.rkey /\ msgs = <<KI(z.inits)>>
    BY <1>1 DEF Rekeyed, KeepsKeys
  <2>2. Keyed(z)
    BY <2>1 DEF Keyed
  <2>3. \A i \in DOMAIN msgs : msgs[i].t \notin Others
    <3> DEFINE a == KI(z.inits)
    <3>1. a.t \notin Others /\ msgs = <<a>>
      BY <2>1, ExchangeKinds, Zenon
    <3> HIDE DEF a
    <3> QED  BY <3>1, ExchangeMessages
  <2>4. RowOf(s, z, y, q \o msgs, r)
    <3>1. CASE s = "client"
      BY <1>1, <3>1, ClientRekeys DEF RowOf
    <3>2. CASE s = "server"
      <4>1. Row(y, x, r, q) /\ s # "client"
        BY <3>2 DEF RowOf
      <4> QED  BY <1>1, <3>2, <4>1, ServerRekeys DEF RowOf
    <3> QED  BY <3>1, <3>2 DEF Sides
  <2> QED  BY <2>2, <2>3, <2>4, MovesExchange
<1>2. CASE SentData(x, z, msgs) \/ Beat(x, z, msgs) \/ Died(x, z, msgs)
  <2>1. KeepsKeys(x, z) /\ KeepsExchange(x, z)
    BY <1>2 DEF SentData, Beat, Died
  <2>2. \A i \in DOMAIN msgs : msgs[i].t \in Others
    <3>1. CASE SentData(x, z, msgs)
      <4>1. msgs = <<[t |-> "DATA", n |-> x.sent + 1]>>
        BY <3>1 DEF SentData
      <4> QED  BY <4>1 DEF Others
    <3>2. CASE Beat(x, z, msgs)
      <4>1. msgs = <<[t |-> "KEEPALIVE"]>>
        BY <3>2 DEF Beat
      <4> QED  BY <4>1 DEF Others
    <3>3. CASE Died(x, z, msgs)
      BY <3>3 DEF Died
    <3> QED  BY <1>2, <3>1, <3>2, <3>3
  <2> QED  BY <2>1, <2>2, MovesSame
<1> QED  BY <1>1, <1>2 DEF Did

\* The joint invariant: the two sides are in a row whose messages are those
\* on the wires of the sides that still read.
Joined(q, r) ==
    /\ Row(ses["client"], ses["server"], q, r)
    /\ ses["server"].end = "no" => Marks(wire["client"], q)
    /\ ses["client"].end = "no" => Marks(wire["server"], r)
Joint ==
    /\ PrefsOk /\ Keyed(ses["client"]) /\ Keyed(ses["server"])
    /\ \E q, r : Joined(q, r)

LEMMA JointFor ==
    ASSUME Joint, NEW s \in Sides
    PROVE  \E q, r : /\ RowOf(s, ses[s], ses[Peer(s)], q, r)
                     /\ ses[Peer(s)].end = "no" => Marks(wire[s], q)
                     /\ ses[s].end = "no" => Marks(wire[Peer(s)], r)
<1>1. PICK q, r : Joined(q, r)
  BY DEF Joint
<1>2. CASE s = "client"
  BY <1>1, <1>2, PeerFacts DEF Joined, RowOf
<1>3. CASE s = "server"
  BY <1>1, <1>3, PeerFacts DEF Joined, RowOf
<1> QED  BY <1>2, <1>3 DEF Sides

\* The choices are fixed, so that a row remains one in the next state.
LEMMA RowPrimed ==
    ASSUME prefs' = prefs, NEW c, NEW d, NEW q, NEW r, Row(c, d, q, r),
           ses'["client"] = c, ses'["server"] = d
    PROVE  Row(ses["client"], ses["server"], q, r)'
<1> DEFINE C == ses["client"]
           D == ses["server"]
<1>1. C' = c /\ D' = d
  OBVIOUS
<1>2. \A s : Chosen(s)' = Chosen(s)
  BY DEF Chosen
<1>3. (Ok("client") <=> Ok("client")') /\ (Ok("server") <=> Ok("server")')
  BY <1>2 DEF Ok
<1>4. BothOk <=> BothOk'
  BY <1>3 DEF BothOk
<1>5. HashOf(C, D)' = HashOf(c, d)
  BY <1>1, <1>2, Zenon DEF HashOf
<1>6. /\ (SameKeys(c, d) <=> SameKeys(C, D)') /\ (ClientOnly(c) <=> ClientOnly(C)')
      /\ (ServerOnly(d) <=> ServerOnly(D)')
  BY <1>1, Zenon DEF SameKeys, ClientOnly, ServerOnly
<1> HIDE DEF C, D
<1>7. CASE IdleIdle(c, d, q, r)
  <2>1. IdleIdle(C, D, q, r)'
    BY <1>1, <1>2, <1>3, <1>4, <1>5, <1>6, <1>7, Zenon DEF IdleIdle
  <2> QED  BY <2>1, Zenon DEF Row, C, D
<1>8. CASE IdleInit(c, d, q, r)
  <2>1. IdleInit(C, D, q, r)'
    BY <1>1, <1>2, <1>3, <1>4, <1>5, <1>6, <1>8, Zenon DEF IdleInit
  <2> QED  BY <2>1, Zenon DEF Row, C, D
<1>9. CASE IdleKeys(c, d, q, r)
  <2>1. IdleKeys(C, D, q, r)'
    BY <1>1, <1>2, <1>3, <1>4, <1>5, <1>6, <1>9, Zenon DEF IdleKeys
  <2> QED  BY <2>1, Zenon DEF Row, C, D
<1>10. CASE InitIdle(c, d, q, r)
  <2>1. InitIdle(C, D, q, r)'
    BY <1>1, <1>2, <1>3, <1>4, <1>5, <1>6, <1>10, Zenon DEF InitIdle
  <2> QED  BY <2>1, Zenon DEF Row, C, D
<1>11. CASE InitInit(c, d, q, r)
  <2>1. InitInit(C, D, q, r)'
    BY <1>1, <1>2, <1>3, <1>4, <1>5, <1>6, <1>11, Zenon DEF InitInit
  <2> QED  BY <2>1, Zenon DEF Row, C, D
<1>12. CASE InitDh(c, d, q, r)
  <2>1. InitDh(C, D, q, r)'
    BY <1>1, <1>2, <1>3, <1>4, <1>5, <1>6, <1>12, Zenon DEF InitDh
  <2> QED  BY <2>1, Zenon DEF Row, C, D
<1>13. CASE InitKeys(c, d, q, r)
  <2>1. InitKeys(C, D, q, r)'
    BY <1>1, <1>2, <1>3, <1>4, <1>5, <1>6, <1>13, Zenon DEF InitKeys
  <2> QED  BY <2>1, Zenon DEF Row, C, D
<1>14. CASE DoneInit(c, d, q, r)
  <2>1. DoneInit(C, D, q, r)'
    BY <1>1, <1>2, <1>3, <1>4, <1>5, <1>6, <1>14, Zenon DEF DoneInit
  <2> QED  BY <2>1, Zenon DEF Row, C, D
<1>15. CASE DoneDh(c, d, q, r)
  <2>1. DoneDh(C, D, q, r)'
    BY <1>1, <1>2, <1>3, <1>4, <1>5, <1>6, <1>15, Zenon DEF DoneDh
  <2> QED  BY <2>1, Zenon DEF Row, C, D
<1>16. CASE DoneKeys(c, d, q, r)
  <2>1. DoneKeys(C, D, q, r)'
    BY <1>1, <1>2, <1>3, <1>4, <1>5, <1>6, <1>16, Zenon DEF DoneKeys
  <2> QED  BY <2>1, Zenon DEF Row, C, D
<1>17. CASE KeysKeys(c, d, q, r)
  <2>1. KeysKeys(C, D, q, r)'
    BY <1>1, <1>2, <1>3, <1>4, <1>5, <1>6, <1>17, Zenon DEF KeysKeys
  <2> QED  BY <2>1, Zenon DEF Row, C, D
<1>18. CASE KeysIdle(c, d, q, r)
  <2>1. KeysIdle(C, D, q, r)'
    BY <1>1, <1>2, <1>3, <1>4, <1>5, <1>6, <1>18, Zenon DEF KeysIdle
  <2> QED  BY <2>1, Zenon DEF Row, C, D
<1>19. CASE KeysInit(c, d, q, r)
  <2>1. KeysInit(C, D, q, r)'
    BY <1>1, <1>2, <1>3, <1>4, <1>5, <1>6, <1>19, Zenon DEF KeysInit
  <2> QED  BY <2>1, Zenon DEF Row, C, D
<1> QED
  BY <1>7, <1>8, <1>9, <1>10, <1>11, <1>12, <1>13, <1>14, <1>15, <1>16, <1>17, <1>18, <1>19 DEF Row

\* What is written joins what is on its way.
LEMMA WrittenMarks ==
    ASSUME Typed, NEW s \in Sides, NEW z, NEW msgs, IsSeq(msgs), NEW q, NEW u,
           Adds(msgs, u), Marks(wire[s], q)
    PROVE  Marks(Written(s, z, msgs), q \o u)
<1> DEFINE o == Packets(z.wkey, ses[s].wseq, msgs)
<1>1. IsSeq(wire[s]) /\ IsSeq(o)
  BY PacketFacts DEF Typed, Shaped
<1>2. Marks(o, u)
  BY MarksMessages DEF Adds
<1> HIDE DEF o
<1>3. Marks(wire[s] \o o, q \o u)
  BY <1>1, <1>2, MarksJoin
<1> QED  BY <1>3 DEF Written, o

LEMMA JointKept ==
    ASSUME Typed, Joint, NEW s \in Sides, NEW z, NEW msgs, NEW w, Steps(s, z, msgs, w)
    PROVE  Joint'
<1> DEFINE p == Peer(s)
           x == ses[s]
           y == ses[p]
<1>1. p \in Sides /\ p # s /\ Peer(p) = s /\ \A t \in Sides : t = s \/ t = p
  BY DEF Sides, Peer
<1>2. /\ ses'[s] = z /\ ses'[p] = y /\ wire'[s] = Written(s, z, msgs) /\ wire'[p] = w
      /\ prefs' = prefs
  BY TypedKept
<1>3. PICK q, r : /\ RowOf(s, x, y, q, r)
                  /\ y.end = "no" => Marks(wire[s], q)
                  /\ x.end = "no" => Marks(wire[p], r)
  BY JointFor
<1>4. /\ RowOf(s, x, y, q, r) /\ Keyed(x) /\ Keyed(y) /\ PrefsOk /\ x.stash.beats \in Nat
      /\ x.end = "no" /\ IsSeq(msgs) /\ IsSeq(wire[p])
  <2>1. Keyed(x) /\ Keyed(y)
    BY <1>1 DEF Joint, Sides
  <2> QED  BY <1>1, <1>3, <2>1 DEF Joint, Typed, Shaped, Counted, Steps, Stepped
<1>5. Marks(wire[p], r) /\ (y.end = "no" => Marks(wire[s], q))
  BY <1>3, <1>4
<1>6. \E rest : Moves(s, z, y, q, rest, msgs) /\ (z.end = "no" => Marks(w, rest))
  <2>1. CASE OwnStep(s, z, msgs) /\ w = wire[p]
    <3>1. Did(s, x, z, msgs)
      BY <2>1 DEF OwnStep
    <3>2. Moves(s, z, y, q, r, msgs)
      BY <1>4, <3>1, DoneKept
    <3> QED  BY <1>5, <2>1, <3>2
  <2>2. CASE wire[p] # <<>> /\ w = Tail(wire[p]) /\ ReadStep(s, z, msgs)
    <3> DEFINE m == Head(wire[p]).msg
    <3>1. PICK x1 : Advanced(x, x1) /\ Took(s, x1, m, z, msgs)
      BY <2>2 DEF ReadStep
    <3>2. /\ m.t \in Others => Marks(w, r)
          /\ m.t \notin Others => r # <<>> /\ m = Head(r) /\ Marks(w, Tail(r))
      BY <1>4, <1>5, <2>2, MarksTail
    <3> HIDE DEF m
    <3>3. KeepsKeys(x, x1) /\ KeepsExchange(x, x1) /\ x1.stash = x.stash
      BY <3>1 DEF Advanced, KeepsData
    <3>4. RowOf(s, x1, y, q, r) /\ Keyed(x1)
      BY <1>4, <3>3, RowSame, RowSameServer DEF RowOf, Keyed, KeepsKeys
    <3>5. Taken(s, z, y, q, r, m, msgs)
      BY <1>4, <3>1, <3>2, <3>3, <3>4, TakenKept
    <3>6. PICK rest : Moves(s, z, y, q, rest, msgs) /\ (z.end = "no" => rest = Rest(m, r))
      BY <3>5 DEF Taken
    <3>7. Marks(w, Rest(m, r))
      BY <3>2 DEF Rest
    <3> QED  BY <3>6, <3>7
  <2> QED  BY <2>1, <2>2 DEF Steps
<1>7. PICK rest : Moves(s, z, y, q, rest, msgs) /\ (z.end = "no" => Marks(w, rest))
  BY <1>6
<1>8. PICK u : Adds(msgs, u) /\ RowOf(s, z, y, q \o u, rest)
  BY <1>7 DEF Moves
<1>9. y.end = "no" => Marks(wire'[s], q \o u)
  BY <1>2, <1>4, <1>5, <1>8, WrittenMarks
<1>10. z.end = "no" => Marks(wire'[p], rest)
  BY <1>2, <1>7
<1> DEFINE v == q \o u
<1>11. Marks(wire'[s], v) \/ y.end # "no"
  BY <1>9
<1>12. RowOf(s, z, y, v, rest)
  BY <1>8
<1> HIDE DEF v
<1>13. \E a, b : Joined(a, b)'
  <2>1. CASE s = "client"
    <3>1. p = "server" /\ ses'["client"] = z /\ ses'["server"] = y
      BY <2>1, <1>2, PeerFacts
    <3>2. Row(ses["client"], ses["server"], v, rest)'
      BY <2>1, <1>2, <1>12, <3>1, RowPrimed DEF RowOf
    <3>3. Joined(v, rest)'
      BY <2>1, <1>10, <1>11, <3>1, <3>2 DEF Joined
    <3> QED  BY <3>3
  <2>2. CASE s = "server"
    <3>1. p = "client" /\ ses'["client"] = y /\ ses'["server"] = z
      BY <2>2, <1>2, PeerFacts
    <3>2. Row(y, z, rest, v)
      BY <2>2, <1>12 DEF RowOf
    <3>3. Row(ses["client"], ses["server"], rest, v)'
      BY <1>2, <3>1, <3>2, RowPrimed
    <3>4. Joined(rest, v)'
      BY <2>2, <1>10, <1>11, <3>1, <3>3 DEF Joined
    <3> QED  BY <3>4
  <2> QED  BY <2>1, <2>2 DEF Sides
<1>14. PrefsOk' /\ (BothOk' <=> BothOk)
  <2>1. \A t : Chosen(t)' = Chosen(t)
    BY <1>2 DEF Chosen
  <2> QED  BY <1>2, <1>4, <2>1 DEF PrefsOk, BothOk, Ok
<1>15. Keyed(z) /\ Keyed(y)
  BY <1>4, <1>7 DEF Moves
<1>16. ASSUME NEW t \in Sides PROVE Keyed(ses[t])'
  <2>1. ses'[t] = z \/ ses'[t] = y
    BY <1>1, <1>2
  <2> QED  BY <1>14, <1>15, <2>1 DEF Keyed
<1> QED  BY <1>13, <1>14, <1>16 DEF Joint, Sides

LEMMA JointInit ==
    ASSUME Init
    PROVE  Typed /\ Joint
<1>1. Typed /\ \A s \in Sides : Begun(s, ses[s]) /\ wire[s] = Packets(Clear, 0, <<KI(1)>>)
  BY InitFacts
<1> DEFINE c == ses["client"]
           d == ses["server"]
           q == <<KI(1)>>
<1>2. Begun("client", c) /\ Begun("server", d) /\ wire["client"] = Packets(Clear, 0, q)
      /\ wire["server"] = Packets(Clear, 0, q)
  BY <1>1 DEF Sides
<1>3. PrefsOk
  <2>1. PICK p \in Pairs : prefs = [client |-> p[1], server |-> p[2]]
    BY DEF Init
  <2>2. p[1] \in DOMAIN Prefs /\ p[2] \in DOMAIN Prefs
    BY PairsAssumption
  <2> QED  BY <2>1, <2>2 DEF PrefsOk
<1>4. Keyed(c) /\ Keyed(d)
  BY <1>2 DEF Begun, Keyed
<1>5. Marks(Packets(Clear, 0, q), q)
  <2> DEFINE a == KI(1)
  <2>1. a.t \notin Others
    BY ExchangeKinds, Zenon
  <2> HIDE DEF a
  <2>2. \A i \in DOMAIN <<a>> : <<a>>[i].t \notin Others
    BY <2>1, ExchangeMessages
  <2>3. IsSeq(<<a>>)
    BY SeqMake
  <2>4. Marks(Packets(Clear, 0, <<a>>), <<a>>)
    BY <2>2, <2>3, MarksMessages
  <2> QED  BY <2>4 DEF a
<1>6. InitInit(c, d, q, q)
  <2>1. SameKeys(c, d) /\ c.sid = d.sid
    BY <1>2, Zenon DEF Begun, SameKeys
  <2>2. ClientOnly(c) /\ ServerOnly(d)
    <3>1. c.ex = Exchange(<<1>>, <<>>, <<>>, <<>>) /\ d.ex = Exchange(<<>>, <<1>>, <<>>, <<>>)
      BY <1>2 DEF Begun
    <3>2. c.inits = 1 /\ d.inits = 1
      BY <1>2 DEF Begun
    <3> QED  BY <3>1, <3>2, Zenon DEF ClientOnly, ServerOnly
  <2> QED  BY <1>2, <2>1, <2>2, Zenon DEF Begun, InitInit
<1> HIDE DEF q
<1>7. Joined(q, q)
  BY <1>2, <1>5, <1>6 DEF Joined, Row
<1> QED  BY <1>1, <1>3, <1>4, <1>7 DEF Joint

LEMMA JointNext ==
    ASSUME Typed, Joint, [Next]_vars
    PROVE  Typed' /\ Joint'
<1>1. CASE Next
  <2>1. PICK s \in Sides : \E z, msgs, w : Steps(s, z, msgs, w)
    BY <1>1, NextSteps
  <2>2. PICK z, msgs, w : Steps(s, z, msgs, w)
    BY <2>1
  <2> QED  BY <2>2, TypedKept, JointKept
<1>2. CASE UNCHANGED vars
  <2>1. Typed' /\ ses' = ses /\ wire' = wire /\ prefs' = prefs
    BY <1>2, TypedStutter
  <2>2. PICK q, r : Joined(q, r)
    BY DEF Joint
  <2>3. Row(ses["client"], ses["server"], q, r)'
    BY <2>1, <2>2, RowPrimed DEF Joined
  <2>4. Joined(q, r)'
    BY <2>1, <2>2, <2>3 DEF Joined
  <2>5. PrefsOk' /\ (BothOk' <=> BothOk)
    <3>1. \A t : Chosen(t)' = Chosen(t)
      BY <2>1 DEF Chosen
    <3> QED  BY <2>1, <3>1 DEF Joint, PrefsOk, BothOk, Ok
  <2> QED  BY <2>1, <2>4, <2>5 DEF Joint, Keyed
<1> QED  BY <1>1, <1>2

\* The first message on its way is on the wire.
LEMMA MarksHead ==
    ASSUME NEW w, NEW q, NEW a, Marks(w, q), q # <<>>, Head(q) = a
    PROVE  \E i \in DOMAIN w : w[i].msg = a
<1>1. PICK f : MarkedAt(w, q, f)
  BY DEF Marks
<1>2. 1 \in DOMAIN q /\ q[1] = a
  <2>1. IsSeq(q)
    BY DEF Marks
  <2> QED  BY <2>1, SeqTail
<1> QED  BY <1>1, <1>2 DEF MarkedAt

\* Where the keys of the two differ a NEWKEYS is on its way.
LEMMA RowKeys ==
    ASSUME NEW c, NEW d, NEW q, NEW r, Row(c, d, q, r)
    PROVE  \/ c.wkey = d.wkey
           \/ d.phase = "keys" /\ q # <<>> /\ Head(q) = NK
           \/ c.phase = "keys" /\ r # <<>> /\ Head(r) = NK
<1>1. Head(<<NK>>) = NK /\ <<NK>> # <<>> /\ \A a : Head(<<NK, a>>) = NK /\ <<NK, a>> # <<>>
  BY Tuples
<1>2. CASE IdleIdle(c, d, q, r)
  BY <1>1, <1>2, Zenon DEF IdleIdle, SameKeys
<1>3. CASE IdleInit(c, d, q, r)
  BY <1>1, <1>3, Zenon DEF IdleInit, SameKeys
<1>4. CASE IdleKeys(c, d, q, r)
  BY <1>1, <1>4, Zenon DEF IdleKeys, SameKeys
<1>5. CASE InitIdle(c, d, q, r)
  BY <1>1, <1>5, Zenon DEF InitIdle, SameKeys
<1>6. CASE InitInit(c, d, q, r)
  BY <1>1, <1>6, Zenon DEF InitInit, SameKeys
<1>7. CASE InitDh(c, d, q, r)
  BY <1>1, <1>7, Zenon DEF InitDh, SameKeys
<1>8. CASE InitKeys(c, d, q, r)
  BY <1>1, <1>8, Zenon DEF InitKeys, SameKeys
<1>9. CASE DoneInit(c, d, q, r)
  BY <1>1, <1>9, Zenon DEF DoneInit, SameKeys
<1>10. CASE DoneDh(c, d, q, r)
  BY <1>1, <1>10, Zenon DEF DoneDh, SameKeys
<1>11. CASE DoneKeys(c, d, q, r)
  BY <1>1, <1>11, Zenon DEF DoneKeys, SameKeys
<1>12. CASE KeysKeys(c, d, q, r)
  BY <1>1, <1>12, Zenon DEF KeysKeys, SameKeys
<1>13. CASE KeysIdle(c, d, q, r)
  BY <1>1, <1>13, Zenon DEF KeysIdle, SameKeys
<1>14. CASE KeysInit(c, d, q, r)
  BY <1>1, <1>14, Zenon DEF KeysInit, SameKeys
<1> QED
  BY <1>2, <1>3, <1>4, <1>5, <1>6, <1>7, <1>8, <1>9, <1>10, <1>11, <1>12, <1>13, <1>14 DEF Row


LEMMA RowSid ==
    ASSUME NEW c, NEW d, NEW q, NEW r, Row(c, d, q, r)
    PROVE  c.sid = d.sid \/ c.sid = <<>>
<1>1. CASE IdleIdle(c, d, q, r)
  BY <1>1, Zenon DEF IdleIdle
<1>2. CASE IdleInit(c, d, q, r)
  BY <1>2, Zenon DEF IdleInit
<1>3. CASE IdleKeys(c, d, q, r)
  BY <1>3, Zenon DEF IdleKeys
<1>4. CASE InitIdle(c, d, q, r)
  BY <1>4, Zenon DEF InitIdle
<1>5. CASE InitInit(c, d, q, r)
  BY <1>5, Zenon DEF InitInit
<1>6. CASE InitDh(c, d, q, r)
  BY <1>6, Zenon DEF InitDh
<1>7. CASE InitKeys(c, d, q, r)
  BY <1>7, Zenon DEF InitKeys
<1>8. CASE DoneInit(c, d, q, r)
  BY <1>8, Zenon DEF DoneInit
<1>9. CASE DoneDh(c, d, q, r)
  BY <1>9, Zenon DEF DoneDh
<1>10. CASE DoneKeys(c, d, q, r)
  BY <1>10, Zenon DEF DoneKeys
<1>11. CASE KeysKeys(c, d, q, r)
  BY <1>11, Zenon DEF KeysKeys
<1>12. CASE KeysIdle(c, d, q, r)
  BY <1>12, Zenon DEF KeysIdle
<1>13. CASE KeysInit(c, d, q, r)
  BY <1>13, Zenon DEF KeysInit
<1> QED
  BY <1>1, <1>2, <1>3, <1>4, <1>5, <1>6, <1>7, <1>8, <1>9, <1>10, <1>11, <1>12, <1>13 DEF Row


\* A session is encrypted only between compatible sides; and the reader of a
\* wire has the writer's key unless a NEWKEYS is on its way to it.
THEOREM TheKeysAgree == Spec => []KeysAgree
<1>1. Init => Typed /\ Joint
  BY JointInit
<1>2. Typed /\ Joint /\ [Next]_vars => (Typed /\ Joint)'
  BY JointNext
<1>3. Typed /\ Joint => KeysAgree
  <2> SUFFICES ASSUME Typed, Joint, NEW s \in Sides
               PROVE  /\ ses[s].enc => Compatible
                      /\ ses[s].end = "no" /\ ses[Peer(s)].end = "no" =>
                            \/ ses[Peer(s)].rkey = ses[s].wkey
                            \/ \E i \in DOMAIN wire[s] : wire[s][i].msg.t = "NEWKEYS"
                            \/ ses[s].phase = "keys"
    BY DEF KeysAgree
  <2> DEFINE x == ses[s]
             y == ses[Peer(s)]
  <2>1. Keyed(x) /\ Keyed(y) /\ PrefsOk
    BY PeerFacts DEF Joint, Sides
  <2>2. x.enc => Compatible
    BY <2>1, OkCompatible DEF Keyed, BothOk
  <2>3. ASSUME x.end = "no", y.end = "no"
        PROVE  \/ y.rkey = x.wkey
               \/ \E i \in DOMAIN wire[s] : wire[s][i].msg.t = "NEWKEYS"
               \/ x.phase = "keys"
    <3>1. PICK q, r : /\ RowOf(s, x, y, q, r)
                      /\ y.end = "no" => Marks(wire[s], q)
                      /\ x.end = "no" => Marks(wire[Peer(s)], r)
      BY JointFor
    <3>2. x.wkey = y.wkey \/ x.phase = "keys" \/ (q # <<>> /\ Head(q) = NK)
      BY <3>1, RowKeys DEF RowOf
    <3>3. CASE q # <<>> /\ Head(q) = NK
      <4>1. \E i \in DOMAIN wire[s] : wire[s][i].msg = NK
        BY <2>3, <3>1, <3>3, MarksHead
      <4>2. NK.t = "NEWKEYS"
        BY DEF NK
      <4> QED  BY <4>1, <4>2
    <3>4. CASE x.wkey = y.wkey
      BY <2>1, <3>4 DEF Keyed
    <3> QED  BY <3>2, <3>3, <3>4
  <2> QED  BY <2>2, <2>3
<1> QED  BY <1>1, <1>2, <1>3, PTL DEF Spec

\* The id of a side is set once.
LEMMA SidKept ==
    ASSUME Typed, NEW s \in Sides, NEW z, NEW msgs, NEW w, Steps(s, z, msgs, w)
    PROVE  z.sid = ses[s].sid \/ ses[s].sid = <<>>
<1>1. CASE OwnStep(s, z, msgs)
  BY <1>1 DEF OwnStep, Did, Rekeyed, SentData, Beat, Died, KeepsKeys
<1>2. CASE ReadStep(s, z, msgs)
  <2>1. PICK x, m : Advanced(ses[s], x) /\ Took(s, x, m, z, msgs)
    BY <1>2 DEF ReadStep
  <2>2. x.sid = ses[s].sid
    BY <2>1 DEF Advanced, KeepsKeys
  <2>3. z.sid = x.sid \/ x.sid = <<>>
    <3>1. ASSUME ServerTookEcdh(x, m, z, msgs) \/ ClientTookReply(x, m, z, msgs)
          PROVE  z.sid = x.sid \/ x.sid = <<>>
      BY <3>1, Zenon DEF ServerTookEcdh, ClientTookReply, Computed
    <3>2. ASSUME ~ServerTookEcdh(x, m, z, msgs), ~ClientTookReply(x, m, z, msgs)
          PROVE  z.sid = x.sid
      BY <2>1, <3>2, Zenon DEF Took, Died, TookKeys, TookOther, KeptOther, ClientTookInit,
         ServerTookInit, KeepsKeys
    <3> QED  BY <3>1, <3>2
  <2> QED  BY <2>2, <2>3
<1> QED  BY <1>1, <1>2 DEF Steps

\* The session id is that of the first exchange for ever, and the same on
\* both sides.
THEOREM TheSessionIdIsFixed == Spec => SessionIdFixed
<1> DEFINE A == \A s \in Sides :
                  /\ ses[s].sid # <<>> => ses'[s].sid = ses[s].sid
                  /\ ses'[s].sid # <<>> /\ ses'[Peer(s)].sid # <<>>
                        => ses'[s].sid = ses'[Peer(s)].sid
<1>1. Init => Typed /\ Joint
  BY JointInit
<1>2. Typed /\ Joint /\ [Next]_vars => (Typed /\ Joint)'
  BY JointNext
<1> DEFINE Same == ses["client"].sid = ses["server"].sid \/ ses["client"].sid = <<>>
<1>3. Joint => Same
  BY RowSid DEF Joint, Joined
<1>4. Typed /\ Same' /\ Next => A
  <2> SUFFICES ASSUME Typed, Same', Next, NEW s \in Sides
               PROVE  /\ ses[s].sid # <<>> => ses'[s].sid = ses[s].sid
                      /\ ses'[s].sid # <<>> /\ ses'[Peer(s)].sid # <<>>
                            => ses'[s].sid = ses'[Peer(s)].sid
    OBVIOUS
  <2>1. PICK t \in Sides : \E z, msgs, w : Steps(t, z, msgs, w)
    BY NextSteps
  <2>2. PICK z, msgs, w : Steps(t, z, msgs, w)
    BY <2>1
  <2>3. ses'[t] = z /\ ses'[Peer(t)] = ses[Peer(t)] /\ (z.sid = ses[t].sid \/ ses[t].sid = <<>>)
    BY <2>2, TypedKept, SidKept
  <2>4. s = t \/ s = Peer(t)
    BY DEF Sides, Peer
  <2>5. ses[s].sid # <<>> => ses'[s].sid = ses[s].sid
    BY <2>3, <2>4
  <2>6. ses'["client"].sid = ses'["server"].sid \/ ses'["client"].sid = <<>>
    OBVIOUS
  <2>7. (s = "client" /\ Peer(s) = "server") \/ (s = "server" /\ Peer(s) = "client")
    BY DEF Sides, Peer
  <2> QED  BY <2>5, <2>6, <2>7
<1>5. Typed /\ Same' /\ [Next]_vars => [A]_vars
  BY <1>4
<1> HIDE DEF Same
<1> QED  BY <1>1, <1>2, <1>3, <1>5, PTL DEF Spec, SessionIdFixed

-----------------------------------------------------------------------------
\* Sides that have algorithms in common choose the same ones.

LEMMA ReadKexGiven ==
    ASSUME NEW side, NEW pref, NEW lists, NEW n, n = NamesOf(side, pref, lists),
           n.kex # None, n.key # None, n.cipher # None, n.compression # None,
           n.mac # None \/ n.cipher \notin NeedsMac
    PROVE  ReadKex(side, pref, lists) # <<>> /\ ReadKex(side, pref, lists)[1] = n
<1> DEFINE e == NamesOf(side, pref, lists)
           missing == \/ None \in {e.kex, e.key, e.cipher, e.compression}
                      \/ e.mac = None /\ e.cipher \in NeedsMac
<1>1. ReadKex(side, pref, lists) = IF missing THEN <<>> ELSE <<e>>
  BY Zenon DEF ReadKex, NamesOf
<1>2. e = n
  OBVIOUS
<1> HIDE DEF e
<1>3. ~missing
  BY <1>2
<1>4. ReadKex(side, pref, lists) = <<n>>
  BY <1>1, <1>2, <1>3, Zenon
<1>5. <<n>> # <<>> /\ <<n>>[1] = n
  OBVIOUS
<1> QED  BY <1>4, <1>5

\* The first common name comes no later than any other.
LEMMA FirstBefore ==
    ASSUME NEW list, DOMAIN list \subseteq Nat \ {0}, NEW names, None \notin names,
           NEW i \in DOMAIN list, list[i] \in names
    PROVE  /\ First(list, names) # None
           /\ \E j \in DOMAIN list :
                 /\ First(list, names) = list[j] /\ list[j] \in names
                 /\ \A k \in DOMAIN list : list[k] \in names => j <= k
<1>1. DOMAIN list \subseteq Nat
  OBVIOUS
<1> QED  BY <1>1, FirstFacts

\* Of the key exchange algorithms the first common name is no extension, and
\* is the same for both.
KexList(l, V) ==
    /\ DOMAIN l \subseteq Nat \ {0} /\ None \notin V
    /\ \A i, j \in DOMAIN l : l[i] \in Extensions /\ l[j] \notin Extensions => j < i
    /\ \E a \in DOMAIN l : l[a] \in V /\ l[a] \notin Extensions
KexFirst(l, V, mine, theirs) ==
    /\ First(l, V \ mine) \notin Extensions /\ First(l, V \ mine) # None
    /\ First(Filter(l, Names(l) \ theirs), V) = First(l, V \ mine)

LEMMA FirstKex ==
    ASSUME NEW l, NEW V, NEW mine, NEW theirs, KexList(l, V),
           mine \subseteq Extensions, theirs \subseteq Extensions
    PROVE  KexFirst(l, V, mine, theirs)
<1> DEFINE m == Filter(l, Names(l) \ theirs)
<1> PICK a \in DOMAIN l : l[a] \in V /\ l[a] \notin Extensions
  BY DEF KexList
<1> USE DEF KexList
<1>1. /\ DOMAIN m = {i \in DOMAIN l : l[i] \in Names(l) \ theirs}
      /\ \A i \in DOMAIN m : m[i] = l[i]
  BY DEF Filter
<1>2. \A i \in DOMAIN l : l[i] \in Names(l)
  BY DEF Names
<1>3. \A i, j \in DOMAIN l : i <= j \/ j < i
  OBVIOUS
<1>4. PICK i \in DOMAIN l : /\ First(l, V \ mine) = l[i] /\ l[i] \in V \ mine
                            /\ \A k \in DOMAIN l : l[k] \in V \ mine => i <= k
  <2>1. l[a] \in V \ mine /\ None \notin V \ mine
    OBVIOUS
  <2> QED  BY <2>1, FirstBefore
<1>5. l[i] \notin Extensions
  <2>1. i <= a
    BY <1>4
  <2> QED  BY <1>4, <2>1
<1>6. /\ a \in DOMAIN m /\ m[a] \in V /\ DOMAIN m \subseteq Nat \ {0}
      /\ i \in DOMAIN m /\ m[i] \in V
  BY <1>1, <1>2, <1>4, <1>5
<1> HIDE DEF m
<1>7. PICK j \in DOMAIN m : /\ First(m, V) = m[j] /\ m[j] \in V
                            /\ \A k \in DOMAIN m : m[k] \in V => j <= k
  BY <1>6, FirstBefore
<1>8. j <= a /\ j <= i /\ j \in DOMAIN l /\ m[j] = l[j]
  BY <1>1, <1>6, <1>7
<1>9. l[j] \notin Extensions
  BY <1>8
<1>10. i <= j
  BY <1>4, <1>7, <1>8, <1>9
<1>11. i = j
  BY <1>8, <1>10
<1>12. First(l, V \ mine) # None
  BY <1>4
<1> QED  BY <1>4, <1>5, <1>7, <1>8, <1>11, <1>12 DEF m, KexFirst

LEMMA CompatibleOk ==
    ASSUME PrefsOk, Compatible
    PROVE  BothOk /\ Chosen("client")[1] = Chosen("server")[1]
<1> DEFINE c == Prefs[prefs["client"]]
           v == Prefs[prefs["server"]]
           wc == WriteKex("client", c)
           wv == WriteKex("server", v)
           n == NamesOf("client", c, wv)
           e == NamesOf("server", v, wc)
           mine == {"kex-strict-c", "ext-info-c"}
           theirs == {"kex-strict-s", "ext-info-s"}
<1>1. Chosen("client") = ReadKex("client", c, wv) /\ Chosen("server") = ReadKex("server", v, wc)
  BY ChosenFacts
<1>2. /\ StrictAs["client"] = "kex-strict-c" /\ StrictAs["server"] = "kex-strict-s"
      /\ ExtInfoAs["client"] = "ext-info-c" /\ ExtInfoAs["server"] = "ext-info-s"
      /\ mine \subseteq Extensions /\ theirs \subseteq Extensions
  BY DEF StrictAs, ExtInfoAs, Extensions
<1>3. /\ wc.key = c.key /\ wc.cipher = c.cipher /\ wc.mac = c.mac /\ wc.compression = c.compression
      /\ wc.kex = Filter(c.kex, Names(c.kex) \ theirs)
  BY <1>2, PeerFacts DEF WriteKex, PossibleKeys
<1>4. /\ wv.key = Filter(v.key, HostKeys) /\ wv.cipher = v.cipher /\ wv.mac = v.mac
      /\ wv.compression = v.compression
      /\ wv.kex = Filter(v.kex, Names(v.kex) \ mine)
  BY <1>2, PeerFacts DEF WriteKex, PossibleKeys
<1>5. /\ Names(wv.kex) = Names(v.kex) \ mine
      /\ Names(wv.key) = Names(v.key) \cap HostKeys
  BY <1>4, FilterFacts
<1>6. /\ \A list \in {c.kex, c.key, c.cipher, c.mac, c.compression} : DOMAIN list \subseteq Nat \ {0}
      /\ \A list \in {v.kex, v.key, v.cipher, v.mac, v.compression} : None \notin Names(list)
  <2>1. prefs["client"] \in DOMAIN Prefs /\ prefs["server"] \in DOMAIN Prefs
    BY DEF PrefsOk
  <2> QED  BY <2>1, ListFacts
<1>7. \A i, j \in DOMAIN c.kex : c.kex[i] \in Extensions /\ c.kex[j] \notin Extensions => j < i
  BY PrefsAssumption DEF PrefsOk
<1>8. /\ (Names(c.kex) \cap Names(v.kex)) \ Extensions # {}
      /\ Names(c.key) \cap Names(v.key) \cap HostKeys # {}
      /\ Names(c.cipher) \cap Names(v.cipher) # {}
      /\ Names(c.compression) \cap Names(v.compression) # {}
      /\ \/ Names(c.mac) \cap Names(v.mac) # {}
         \/ LET i == CHOOSE i \in DOMAIN c.cipher :
                   /\ c.cipher[i] \in Names(v.cipher)
                   /\ \A j \in 1 .. i - 1 : c.cipher[j] \notin Names(v.cipher)
            IN  c.cipher[i] \notin NeedsMac
  <2> DEFINE p == <<prefs["client"], prefs["server"]>>
  <2>1. p \in CompatiblePairs
    BY DEF Compatible
  <2>2. Prefs[p[1]] = c /\ Prefs[p[2]] = v
    OBVIOUS
  <2> HIDE DEF c, v, p
  <2> QED  BY <2>1, <2>2, Zenon DEF CompatiblePairs
<1>9. /\ n.kex = First(c.kex, Names(v.kex) \ mine) /\ n.key = First(c.key, Names(v.key) \cap HostKeys)
      /\ n.cipher = First(c.cipher, Names(v.cipher)) /\ n.mac = First(c.mac, Names(v.mac))
      /\ n.compression = First(c.compression, Names(v.compression))
  <2>1. /\ n.kex = Select("client", c.kex, wv.kex)
        /\ n.key = Select("client", PossibleKeys("client", c), wv.key)
        /\ n.cipher = Select("client", c.cipher, wv.cipher)
        /\ n.mac = Select("client", c.mac, wv.mac)
        /\ n.compression = Select("client", c.compression, wv.compression)
    <3> HIDE DEF c, v, wv
    <3> QED  BY Zenon DEF NamesOf
  <2>2. PossibleKeys("client", c) = c.key
    BY DEF PossibleKeys
  <2> HIDE DEF c, v, wv, n
  <2> QED  BY <1>4, <1>5, <2>1, <2>2, Zenon DEF Select
<1>10. /\ e.kex = First(wc.kex, Names(v.kex)) /\ e.key = First(c.key, Names(v.key) \cap HostKeys)
       /\ e.cipher = First(c.cipher, Names(v.cipher)) /\ e.mac = First(c.mac, Names(v.mac))
       /\ e.compression = First(c.compression, Names(v.compression))
  <2>1. /\ e.kex = Select("server", v.kex, wc.kex)
        /\ e.key = Select("server", PossibleKeys("server", v), wc.key)
        /\ e.cipher = Select("server", v.cipher, wc.cipher)
        /\ e.mac = Select("server", v.mac, wc.mac)
        /\ e.compression = Select("server", v.compression, wc.compression)
    <3> HIDE DEF c, v, wc
    <3> QED  BY Zenon DEF NamesOf
  <2>2. PossibleKeys("server", v) = wv.key
    BY <1>4 DEF PossibleKeys
  <2>3. "server" # "client"
    OBVIOUS
  <2> HIDE DEF c, v, wc, wv, e
  <2> QED  BY <1>3, <1>5, <2>1, <2>2, <2>3, Zenon DEF Select
<1>11. \A list, x : x \in Names(list) => \E i \in DOMAIN list : list[i] = x
  BY DEF Names
<1> HIDE DEF wc, wv, n, e
<1>12. n.kex \notin Extensions /\ n.kex # None /\ e.kex = n.kex
  <2>1. PICK a \in DOMAIN c.kex : c.kex[a] \in Names(v.kex) /\ c.kex[a] \notin Extensions
    <3>1. PICK x : x \in Names(c.kex) /\ x \in Names(v.kex) /\ x \notin Extensions
      BY <1>8, Zenon
    <3> QED  BY <1>11, <3>1
  <2> DEFINE l == c.kex
             V == Names(v.kex)
  <2>2. KexList(l, V)
    BY <1>6, <1>7, <2>1 DEF KexList
  <2>3. n.kex = First(l, V \ mine) /\ e.kex = First(Filter(l, Names(l) \ theirs), V)
    BY <1>3, <1>9, <1>10
  <2>4. mine \subseteq Extensions /\ theirs \subseteq Extensions
    BY <1>2
  <2> HIDE DEF l, V, mine, theirs
  <2>5. KexFirst(l, V, mine, theirs)
    BY <2>2, <2>4, FirstKex
  <2> QED  BY <2>3, <2>5, Zenon DEF KexFirst
<1>13. ASSUME NEW list \in {c.key, c.cipher, c.mac, c.compression}, NEW names, None \notin names,
              Names(list) \cap names # {}
       PROVE  First(list, names) # None
  <2>1. PICK a \in DOMAIN list : list[a] \in names
    BY <1>11, <1>13
  <2>2. DOMAIN list \subseteq Nat \ {0}
    BY <1>6
  <2> QED  BY <1>13, <2>1, <2>2, FirstBefore
<1>14. n.key # None /\ n.cipher # None /\ n.compression # None
  <2>1. None \notin Names(v.key) \cap HostKeys /\ None \notin Names(v.cipher)
        /\ None \notin Names(v.compression)
    BY <1>6
  <2>2. Names(c.key) \cap (Names(v.key) \cap HostKeys) # {}
    BY <1>8
  <2> QED  BY <1>8, <1>9, <1>13, <2>1, <2>2
<1>15. n.mac # None \/ n.cipher \notin NeedsMac
  <2>1. CASE Names(c.mac) \cap Names(v.mac) # {}
    <3>1. None \notin Names(v.mac)
      BY <1>6
    <3> QED  BY <1>9, <1>13, <2>1, <3>1
  <2>2. CASE Names(c.mac) \cap Names(v.mac) = {}
    <3> DEFINE l == c.cipher
               N == Names(v.cipher)
               Q(i) == l[i] \in N /\ \A j \in 1 .. i - 1 : l[j] \notin N
               i == CHOOSE i \in DOMAIN l : Q(i)
    <3>1. l[i] \notin NeedsMac
      BY <1>8, <2>2, Zenon
    <3>2. DOMAIN l = 1 .. Len(l) /\ Len(l) \in Nat
      <4> DEFINE S == Names(l)
      <4>1. l \in Seq(S)
        BY PrefsAssumption DEF PrefsOk
      <4> HIDE DEF l, S
      <4> QED  BY <4>1
    <3>3. None \notin N
      BY <1>6
    <3>4. PICK a \in DOMAIN l : l[a] \in N
      <4>1. PICK x : x \in Names(l) /\ x \in N
        BY <1>8, Zenon
      <4> QED  BY <1>11, <4>1
    <3>5. n.cipher = First(l, N)
      BY <1>9
    <3> HIDE DEF i, l, N
    <3>6. PICK j \in DOMAIN l : /\ First(l, N) = l[j] /\ l[j] \in N
                                /\ \A k \in DOMAIN l : l[k] \in N => j <= k
      <4>1. DOMAIN l \subseteq Nat \ {0}
        BY <3>2
      <4> QED  BY <3>3, <3>4, <4>1, FirstBefore
    <3>7. Q(j)
      <4>1. \A k \in 1 .. j - 1 : k \in DOMAIN l /\ ~(j <= k)
        BY <3>2
      <4> QED  BY <3>6, <4>1
    <3>8. i \in DOMAIN l /\ Q(i)
      BY <3>6, <3>7, Zenon DEF i
    <3>9. j <= i
      BY <3>6, <3>8
    <3>10. ~(j < i)
      <4>1. j < i => j \in 1 .. i - 1
        BY <3>2, <3>8
      <4> QED  BY <3>6, <3>8, <4>1
    <3>11. i = j
      BY <3>2, <3>8, <3>9, <3>10
    <3> QED  BY <3>1, <3>5, <3>6, <3>11
  <2> QED  BY <2>1, <2>2
<1>16. e.key = n.key /\ e.cipher = n.cipher /\ e.mac = n.mac /\ e.compression = n.compression
  BY <1>9, <1>10
<1>17. Chosen("client") # <<>> /\ Chosen("client")[1] = n
  <2>1. n = NamesOf("client", c, wv)
    BY DEF n
  <2> QED  BY <1>1, <1>12, <1>14, <1>15, <2>1, ReadKexGiven
<1>18. Chosen("server") # <<>> /\ Chosen("server")[1] = e
  <2>1. e = NamesOf("server", v, wc)
    BY DEF e
  <2> QED  BY <1>1, <1>12, <1>14, <1>15, <1>16, <2>1, ReadKexGiven
<1>19. Chosen("client")[1] = Chosen("server")[1]
  BY <1>12, <1>17, <1>18, SameNames
<1>20. BothOk
  <2>1. "server" # "client"
    OBVIOUS
  <2> QED  BY <1>12, <1>17, <1>18, <2>1 DEF BothOk, Ok
<1> QED  BY <1>19, <1>20

-----------------------------------------------------------------------------
\* The packets of a wire: their kinds, and the keys and numbers they are
\* sealed with.

NoNew(w) == \A k \in DOMAIN w : w[k].msg.t # "NEWKEYS"
NoOther(w) == \A k \in DOMAIN w : w[k].msg.t \notin Others
OnlyOthers(w) == \A k \in DOMAIN w : w[k].msg.t \in Others
OthersFirst(w) ==
    \A j, k \in DOMAIN w : w[j].msg.t \notin Others /\ w[k].msg.t \in Others => k < j

\* NEWKEYS comes last, and only there.
EndsNew(w) ==
    w # <<>> /\ \A k \in DOMAIN w : w[k].msg.t = "NEWKEYS" <=> k = Len(w)

\* All of w can be opened, one packet after the other, by a reader that has
\* the key and expects number n.
Sealed(w, key, n) == \A k \in DOMAIN w : w[k].key = key /\ w[k].seq = n + k - 1

\* v is w followed by o.
Follows(v, w, o) ==
    /\ IsSeq(v) /\ Len(v) = Len(w) + Len(o)
    /\ Len(w) \in Nat /\ Len(o) \in Nat
    /\ DOMAIN w = 1 .. Len(w) /\ DOMAIN o = 1 .. Len(o) /\ DOMAIN v = 1 .. Len(v)
    /\ \A k \in DOMAIN v :
          \/ k \in DOMAIN w /\ v[k] = w[k]
          \/ \E i \in DOMAIN o : k = Len(w) + i /\ v[k] = o[i]

LEMMA JoinAt ==
    ASSUME NEW w, NEW o, IsSeq(w), IsSeq(o)
    PROVE  Follows(w \o o, w, o)
<1> DEFINE v == w \o o
           N == Len(w)
<1>1. /\ IsSeq(v) /\ Len(v) = N + Len(o) /\ N \in Nat /\ Len(o) \in Nat
      /\ DOMAIN w = 1 .. N /\ DOMAIN o = 1 .. Len(o) /\ DOMAIN v = 1 .. Len(v)
      /\ \A i \in DOMAIN w : v[i] = w[i]
      /\ \A i \in DOMAIN o : v[N + i] = o[i]
  BY SeqJoin
<1> HIDE DEF v, N
<1>2. ASSUME NEW k \in DOMAIN v
      PROVE  \/ k \in DOMAIN w /\ v[k] = w[k]
             \/ \E i \in DOMAIN o : k = N + i /\ v[k] = o[i]
  <2>1. CASE k \in DOMAIN w
    BY <2>1, <1>1
  <2>2. CASE k \notin DOMAIN w
    <3>1. PICK i : i = k - N
      OBVIOUS
    <3>2. i \in DOMAIN o /\ k = N + i
      BY <2>2, <3>1, <1>1
    <3> QED  BY <3>2, <1>1
  <2> QED  BY <2>1, <2>2
<1>3. Follows(v, w, o)
  BY <1>1, <1>2 DEF Follows, N
<1> QED  BY <1>3 DEF v

LEMMA JoinKinds ==
    ASSUME NEW w, NEW o, IsSeq(w), IsSeq(o)
    PROVE  LET v == w \o o
           IN  /\ NoNew(w) /\ NoNew(o) => NoNew(v)
               /\ NoOther(w) /\ NoOther(o) => NoOther(v)
               /\ OthersFirst(w) /\ NoOther(o) => OthersFirst(v)
               /\ OnlyOthers(w) /\ OthersFirst(o) => OthersFirst(v)
               /\ NoNew(w) /\ EndsNew(o) => EndsNew(v)
<1> DEFINE v == w \o o
           N == Len(w)
<1>0. Follows(v, w, o)
  BY JoinAt
<1> HIDE DEF v
<1>1. /\ IsSeq(v) /\ Len(v) = N + Len(o) /\ N \in Nat /\ Len(o) \in Nat
      /\ DOMAIN w = 1 .. N /\ DOMAIN o = 1 .. Len(o) /\ DOMAIN v = 1 .. Len(v)
      /\ \A k \in DOMAIN v :
            \/ k \in DOMAIN w /\ v[k] = w[k]
            \/ \E i \in DOMAIN o : k = N + i /\ v[k] = o[i]
  BY <1>0 DEF Follows
<1> HIDE DEF N
<1>2. NoNew(w) /\ NoNew(o) => NoNew(v)
  BY <1>1 DEF NoNew
<1>3. NoOther(w) /\ NoOther(o) => NoOther(v)
  BY <1>1 DEF NoOther
<1>4. OthersFirst(w) /\ NoOther(o) => OthersFirst(v)
  <2> SUFFICES ASSUME OthersFirst(w), NoOther(o), NEW j \in DOMAIN v, NEW k \in DOMAIN v,
                      v[j].msg.t \notin Others, v[k].msg.t \in Others
               PROVE  k < j
    BY DEF OthersFirst
  <2>1. k \in DOMAIN w /\ v[k] = w[k]
    BY <1>1 DEF NoOther
  <2>2. CASE j \in DOMAIN w /\ v[j] = w[j]
    BY <2>1, <2>2 DEF OthersFirst
  <2>3. CASE \E i \in DOMAIN o : j = N + i
    BY <2>1, <2>3, <1>1
  <2> QED  BY <1>1, <2>2, <2>3
<1>5. OnlyOthers(w) /\ OthersFirst(o) => OthersFirst(v)
  <2> SUFFICES ASSUME OnlyOthers(w), OthersFirst(o), NEW j \in DOMAIN v, NEW k \in DOMAIN v,
                      v[j].msg.t \notin Others, v[k].msg.t \in Others
               PROVE  k < j
    BY DEF OthersFirst
  <2>1. PICK i \in DOMAIN o : j = N + i /\ v[j] = o[i]
    BY <1>1 DEF OnlyOthers
  <2>2. CASE k \in DOMAIN w
    BY <2>1, <2>2, <1>1
  <2>3. CASE \E l \in DOMAIN o : k = N + l /\ v[k] = o[l]
    <3>1. PICK l \in DOMAIN o : k = N + l /\ v[k] = o[l]
      BY <2>3
    <3>2. l < i
      BY <2>1, <3>1 DEF OthersFirst
    <3> QED  BY <2>1, <3>1, <3>2, <1>1
  <2> QED  BY <1>1, <2>2, <2>3
<1>6. NoNew(w) /\ EndsNew(o) => EndsNew(v)
  <2> SUFFICES ASSUME NoNew(w), EndsNew(o) PROVE EndsNew(v)
    OBVIOUS
  <2>1. Len(o) # 0
    <3>1. Len(o) = 0 => o = <<>>
      <4>1. PICK S : o \in Seq(S)
        BY DEF IsSeq
      <4> QED  BY <4>1
    <3> QED  BY <3>1 DEF EndsNew
  <2>2. v # <<>>
    <3>1. Len(v) # 0
      BY <1>1, <2>1
    <3>2. Len(<<>>) = 0
      OBVIOUS
    <3> QED  BY <3>1, <3>2
  <2>3. ASSUME NEW k \in DOMAIN v PROVE v[k].msg.t = "NEWKEYS" <=> k = Len(v)
    <3>1. CASE k \in DOMAIN w /\ v[k] = w[k]
      BY <3>1, <2>1, <1>1 DEF NoNew
    <3>2. CASE \E i \in DOMAIN o : k = N + i /\ v[k] = o[i]
      <4>1. PICK i \in DOMAIN o : k = N + i /\ v[k] = o[i]
        BY <3>2
      <4>2. o[i].msg.t = "NEWKEYS" <=> i = Len(o)
        BY DEF EndsNew
      <4>3. i = Len(o) <=> k = Len(v)
        BY <4>1, <1>1
      <4> QED  BY <4>1, <4>2, <4>3
    <3> QED  BY <1>1, <3>1, <3>2
  <2> QED  BY <2>2, <2>3 DEF EndsNew
<1> QED  BY <1>2, <1>3, <1>4, <1>5, <1>6 DEF v

LEMMA JoinSealed ==
    ASSUME NEW w, NEW msgs, IsSeq(w), IsSeq(msgs), NEW key, NEW n \in Nat, NEW m,
           m = n + Len(w), Sealed(w, key, n)
    PROVE  LET o == Packets(key, m, msgs)
           IN  IsSeq(o) /\ Sealed(w \o o, key, n) /\ Len(w \o o) = Len(w) + Len(msgs)
<1> DEFINE o == Packets(key, m, msgs)
           v == w \o o
           N == Len(w)
<1>1. /\ IsSeq(o) /\ Len(o) = Len(msgs) /\ DOMAIN o = DOMAIN msgs
      /\ \A i \in DOMAIN msgs : o[i].key = key /\ o[i].seq = m + i - 1
  BY PacketFacts
<1> HIDE DEF o
<1>0. Follows(v, w, o)
  BY <1>1, JoinAt
<1> HIDE DEF v
<1>2. /\ IsSeq(v) /\ Len(v) = N + Len(o) /\ N \in Nat /\ Len(o) \in Nat
      /\ DOMAIN w = 1 .. N /\ DOMAIN o = 1 .. Len(o) /\ DOMAIN v = 1 .. Len(v)
      /\ \A k \in DOMAIN v :
            \/ k \in DOMAIN w /\ v[k] = w[k]
            \/ \E i \in DOMAIN o : k = N + i /\ v[k] = o[i]
  BY <1>0 DEF Follows
<1>3. m = n + N
  OBVIOUS
<1> HIDE DEF N
<1>4. ASSUME NEW k \in DOMAIN v PROVE v[k].key = key /\ v[k].seq = n + k - 1
  <2>1. CASE k \in DOMAIN w /\ v[k] = w[k]
    BY <2>1 DEF Sealed
  <2>2. CASE \E i \in DOMAIN o : k = N + i /\ v[k] = o[i]
    <3>1. PICK i \in DOMAIN o : k = N + i /\ v[k] = o[i]
      BY <2>2
    <3>2. i \in Nat /\ N \in Nat /\ i \in DOMAIN msgs
      BY <3>1, <1>1, <1>2
    <3>3. m + i - 1 = n + k - 1
      BY <3>1, <3>2, <1>3
    <3> QED  BY <3>1, <3>2, <3>3, <1>1
  <2> QED  BY <1>2, <2>1, <2>2
<1>5. Sealed(v, key, n) /\ Len(v) = N + Len(msgs)
  BY <1>1, <1>2, <1>4 DEF Sealed
<1> QED  BY <1>1, <1>5 DEF v, o, N

LEMMA TailKinds ==
    ASSUME NEW w, IsSeq(w), w # <<>>
    PROVE  LET v == Tail(w)
           IN  /\ NoNew(w) => NoNew(v)
               /\ NoOther(w) => NoOther(v) /\ Head(w).msg.t \notin Others
               /\ OthersFirst(w) => OthersFirst(v)
               /\ OthersFirst(w) /\ Head(w).msg.t \notin Others => NoOther(v)
               /\ EndsNew(w) => \/ Head(w).msg.t = "NEWKEYS" /\ v = <<>>
                                \/ Head(w).msg.t # "NEWKEYS" /\ EndsNew(v)
<1> DEFINE v == Tail(w)
           N == Len(w)
<1>1. /\ IsSeq(v) /\ N \in Nat \ {0} /\ Len(v) = N - 1
      /\ DOMAIN w = 1 .. N /\ DOMAIN v = 1 .. Len(v) /\ Head(w) = w[1]
      /\ \A i \in DOMAIN v : v[i] = w[i + 1]
  BY SeqTail
<1>2. 1 \in DOMAIN w /\ \A i \in DOMAIN v : i + 1 \in DOMAIN w /\ i + 1 # 1 /\ ~(i + 1 < 1)
  BY <1>1
<1>3. v = <<>> <=> Len(v) = 0
  <2>1. PICK S : v \in Seq(S)
    BY <1>1 DEF IsSeq
  <2> HIDE DEF v
  <2> QED  BY <2>1
<1> HIDE DEF v, N
<1>4. NoNew(w) => NoNew(v)
  BY <1>1, <1>2 DEF NoNew
<1>5. NoOther(w) => NoOther(v) /\ Head(w).msg.t \notin Others
  BY <1>1, <1>2 DEF NoOther
<1>6. OthersFirst(w) => OthersFirst(v)
  <2> SUFFICES ASSUME OthersFirst(w), NEW j \in DOMAIN v, NEW k \in DOMAIN v,
                      v[j].msg.t \notin Others, v[k].msg.t \in Others
               PROVE  k < j
    BY DEF OthersFirst
  <2>1. k + 1 < j + 1
    BY <1>1, <1>2 DEF OthersFirst
  <2> QED  BY <2>1, <1>1
<1>7. OthersFirst(w) /\ Head(w).msg.t \notin Others => NoOther(v)
  BY <1>1, <1>2 DEF OthersFirst, NoOther
<1>8. EndsNew(w) => \/ Head(w).msg.t = "NEWKEYS" /\ v = <<>>
                    \/ Head(w).msg.t # "NEWKEYS" /\ EndsNew(v)
  <2> SUFFICES ASSUME EndsNew(w), ~(Head(w).msg.t = "NEWKEYS" /\ v = <<>>)
               PROVE  Head(w).msg.t # "NEWKEYS" /\ EndsNew(v)
    OBVIOUS
  <2>1. Head(w).msg.t = "NEWKEYS" <=> 1 = N
    BY <1>1, <1>2 DEF EndsNew, N
  <2>2. N # 1 /\ v # <<>>
    BY <2>1, <1>1, <1>3
  <2>3. ASSUME NEW k \in DOMAIN v PROVE v[k].msg.t = "NEWKEYS" <=> k = Len(v)
    <3>1. v[k].msg.t = "NEWKEYS" <=> k + 1 = N
      BY <1>1, <1>2 DEF EndsNew, N
    <3> QED  BY <3>1, <1>1
  <2> QED  BY <2>1, <2>2, <2>3 DEF EndsNew
<1> QED  BY <1>4, <1>5, <1>6, <1>7, <1>8 DEF v

LEMMA TailSealed ==
    ASSUME NEW w, IsSeq(w), w # <<>>, NEW key, NEW n \in Nat, Sealed(w, key, n)
    PROVE  /\ Head(w).key = key /\ Head(w).seq = n
           /\ Sealed(Tail(w), key, n + 1) /\ Len(w) = 1 + Len(Tail(w)) /\ Len(Tail(w)) \in Nat
<1> DEFINE v == Tail(w)
           N == Len(w)
<1>1. /\ IsSeq(v) /\ N \in Nat \ {0} /\ Len(v) = N - 1
      /\ DOMAIN w = 1 .. N /\ DOMAIN v = 1 .. Len(v) /\ Head(w) = w[1]
      /\ \A i \in DOMAIN v : v[i] = w[i + 1]
  BY SeqTail
<1> HIDE DEF v, N
<1>2. 1 \in DOMAIN w /\ n + 1 - 1 = n
  BY <1>1
<1>3. ASSUME NEW k \in DOMAIN v PROVE v[k].key = key /\ v[k].seq = (n + 1) + k - 1
  <2>1. k + 1 \in DOMAIN w /\ n + (k + 1) - 1 = (n + 1) + k - 1
    BY <1>1
  <2> QED  BY <2>1, <1>1 DEF Sealed
<1>4. Sealed(v, key, n + 1)
  BY <1>3 DEF Sealed
<1>5. Head(w).key = key /\ Head(w).seq = n
  BY <1>1, <1>2 DEF Sealed
<1> QED  BY <1>1, <1>4, <1>5 DEF v, N

LEMMA TailJoin ==
    ASSUME NEW a, NEW b, IsSeq(a), IsSeq(b), a # <<>>
    PROVE  a \o b # <<>> /\ Head(a \o b) = Head(a) /\ Tail(a \o b) = Tail(a) \o b
<1>1. PICK S : a \in Seq(S)
  BY DEF IsSeq
<1>2. PICK T : b \in Seq(T)
  BY DEF IsSeq
<1>3. a \in Seq(S \cup T) /\ b \in Seq(S \cup T)
  BY <1>1, <1>2
<1> DEFINE v == a \o b
           u == Tail(a) \o b
<1>4. v \in Seq(S \cup T) /\ Len(v) = Len(a) + Len(b) /\ Len(a) \in Nat \ {0} /\ Len(b) \in Nat
  BY <1>3
<1>5. Tail(a) \in Seq(S \cup T) /\ Len(Tail(a)) = Len(a) - 1
  BY <1>3
<1>6. u \in Seq(S \cup T) /\ Len(u) = Len(a) - 1 + Len(b)
  BY <1>3, <1>4, <1>5
<1>7. Tail(v) \in Seq(S \cup T) /\ Len(Tail(v)) = Len(v) - 1
  <2>1. v # <<>>
    BY <1>3, <1>4
  <2> HIDE DEF v
  <2> QED  BY <2>1, <1>4
<1>8. \A i \in 1 .. Len(u) : Tail(v)[i] = v[i + 1]
  <2> HIDE DEF v, u
  <2> QED  BY <1>4, <1>6, <1>7
<1>9. \A i \in 1 .. Len(u) : v[i + 1] = u[i]
  BY <1>3, <1>4, <1>5, <1>6
<1>10. v # <<>> /\ Head(v) = Head(a)
  BY <1>3, <1>4
<1> HIDE DEF v, u
<1>11. Tail(v) = u
  BY <1>4, <1>6, <1>7, <1>8, <1>9
<1> QED  BY <1>10, <1>11 DEF v, u

-----------------------------------------------------------------------------
\* What is on the wire from x to y can be read by y, one packet after the
\* other.

\* Whether the exchanges of these two are strict, and the number that comes
\* after NEWKEYS, the next one being n.
Strict == Chosen("client")[1].strict
Restart(n) == IF Strict THEN 0 ELSE n

\* y takes packets that belong to no exchange.
Live(y) == y.enc /\ y.phase \in {"idle", "init"}

\* No NEWKEYS is on the way.
Straight(x, y, w) ==
    /\ NoNew(w) /\ OthersFirst(w) /\ Sealed(w, y.rkey, y.rseq)
    /\ Live(y) \/ NoOther(w)
    /\ x.end = "no" => x.wseq = y.rseq + Len(w)

\* One is: a ends in it, and b was written with the new keys.
Turned(x, y, a, b) ==
    /\ EndsNew(a) /\ NoOther(a) /\ Sealed(a, y.rkey, y.rseq)
    /\ NoNew(b) /\ OthersFirst(b) /\ (x.phase = "keys" => b = <<>>)
    /\ Sealed(b, x.wkey, Restart(y.rseq + Len(a)))
    /\ x.end = "no" => x.wseq = Restart(y.rseq + Len(a)) + Len(b)

Wired(x, y, w) ==
    \/ Straight(x, y, w)
    \/ \E a, b : IsSeq(a) /\ IsSeq(b) /\ w = a \o b /\ Turned(x, y, a, b)

\* The messages of a step: of an exchange but not NEWKEYS; of no exchange;
\* or with NEWKEYS at the end.
Plain(msgs) == \A i \in DOMAIN msgs : msgs[i].t \notin Others /\ msgs[i].t # "NEWKEYS"
Aside(msgs) == \A i \in DOMAIN msgs : msgs[i].t \in Others
Turning(msgs) ==
    \/ msgs = <<NK>>
    \/ \E a : msgs = <<a, NK>> /\ a.t \notin Others /\ a.t # "NEWKEYS"

LEMMA PacketKinds ==
    ASSUME NEW key, NEW n, NEW msgs, IsSeq(msgs)
    PROVE  LET o == Packets(key, n, msgs)
           IN  /\ IsSeq(o)
               /\ Plain(msgs) => NoNew(o) /\ NoOther(o) /\ OthersFirst(o)
               /\ Aside(msgs) => NoNew(o) /\ OthersFirst(o)
               /\ Turning(msgs) => EndsNew(o) /\ NoOther(o)
<1> DEFINE o == Packets(key, n, msgs)
<1>1. /\ IsSeq(o) /\ Len(o) = Len(msgs) /\ DOMAIN o = DOMAIN msgs
      /\ \A i \in DOMAIN msgs : o[i].msg = msgs[i]
  BY PacketFacts
<1> HIDE DEF o
<1>2. Plain(msgs) => NoNew(o) /\ NoOther(o) /\ OthersFirst(o)
  BY <1>1 DEF Plain, NoNew, NoOther, OthersFirst
<1>3. Aside(msgs) => NoNew(o) /\ OthersFirst(o)
  <2>1. "NEWKEYS" \notin Others
    BY DEF Others
  <2> QED  BY <1>1, <2>1 DEF Aside, NoNew, OthersFirst
<1>4. ASSUME Turning(msgs) PROVE EndsNew(o) /\ NoOther(o)
  <2>1. NK.t = "NEWKEYS" /\ "NEWKEYS" \notin Others
    BY DEF NK, Others
  <2>2. /\ Len(msgs) # 0
        /\ \A i \in DOMAIN msgs : /\ msgs[i].t \notin Others
                                  /\ msgs[i].t = "NEWKEYS" <=> i = Len(msgs)
    <3>1. CASE msgs = <<NK>>
      <4> HIDE DEF NK
      <4> QED  BY <2>1, <3>1
    <3>2. CASE \E a : msgs = <<a, NK>> /\ a.t \notin Others /\ a.t # "NEWKEYS"
      <4>1. PICK a : msgs = <<a, NK>> /\ a.t \notin Others /\ a.t # "NEWKEYS"
        BY <3>2
      <4>2. DOMAIN msgs = {1, 2} /\ Len(msgs) = 2 /\ msgs[1] = a /\ msgs[2] = NK
        BY <4>1
      <4> QED  BY <2>1, <4>1, <4>2
    <3> QED  BY <1>4, <3>1, <3>2 DEF Turning
  <2>3. o # <<>>
    <3>1. Len(<<>>) = 0
      OBVIOUS
    <3> QED  BY <1>1, <2>2, <3>1
  <2> QED  BY <1>1, <2>2, <2>3 DEF EndsNew, NoOther
<1> QED  BY <1>1, <1>2, <1>3, <1>4 DEF o

LEMMA RestartFacts ==
    ASSUME NEW n \in Nat
    PROVE  Restart(n) \in Nat
BY DEF Restart

\* x, now z, has written msgs.
LEMMA StraightMore ==
    ASSUME NEW x, NEW y, NEW z, NEW w, NEW msgs, IsSeq(w), IsSeq(msgs), y.rseq \in Nat,
           x.end = "no", Straight(x, y, w), z.wseq = x.wseq + Len(msgs),
           Plain(msgs) \/ (Aside(msgs) /\ OnlyOthers(w) /\ Live(y))
    PROVE  Straight(z, y, w \o Packets(y.rkey, x.wseq, msgs))
<1> DEFINE o == Packets(y.rkey, x.wseq, msgs)
           v == w \o o
<1>1. NoNew(w) /\ OthersFirst(w) /\ Sealed(w, y.rkey, y.rseq) /\ (Live(y) \/ NoOther(w))
      /\ x.wseq = y.rseq + Len(w)
  BY DEF Straight
<1>2. IsSeq(o) /\ Sealed(v, y.rkey, y.rseq) /\ Len(v) = Len(w) + Len(msgs)
  BY <1>1, JoinSealed
<1>3. /\ Plain(msgs) => NoNew(o) /\ NoOther(o) /\ OthersFirst(o)
      /\ Aside(msgs) => NoNew(o) /\ OthersFirst(o)
  BY PacketKinds
<1> HIDE DEF o
<1>4. NoNew(v) /\ OthersFirst(v) /\ (Live(y) \/ NoOther(v))
  <2>1. CASE Plain(msgs)
    BY <1>1, <1>2, <1>3, <2>1, JoinKinds
  <2>2. CASE Aside(msgs) /\ OnlyOthers(w) /\ Live(y)
    BY <1>1, <1>2, <1>3, <2>2, JoinKinds
  <2> QED  BY <2>1, <2>2
<1>5. z.wseq = y.rseq + Len(v)
  <2>1. Len(w) \in Nat /\ Len(msgs) \in Nat
    BY SeqJoin
  <2> HIDE DEF v
  <2> QED  BY <1>1, <1>2, <2>1
<1> HIDE DEF v
<1>6. Straight(z, y, v)
  BY <1>2, <1>4, <1>5 DEF Straight
<1> QED  BY <1>6 DEF v, o

LEMMA Turns ==
    ASSUME NEW x, NEW y, NEW z, NEW w, NEW msgs, IsSeq(w), IsSeq(msgs), y.rseq \in Nat,
           x.end = "no", Straight(x, y, w), ~Live(y), Turning(msgs),
           z.wseq = Restart(x.wseq + Len(msgs))
    PROVE  Wired(z, y, w \o Packets(y.rkey, x.wseq, msgs))
<1> DEFINE o == Packets(y.rkey, x.wseq, msgs)
           v == w \o o
<1>1. NoNew(w) /\ Sealed(w, y.rkey, y.rseq) /\ NoOther(w) /\ x.wseq = y.rseq + Len(w)
  BY DEF Straight
<1>2. IsSeq(o) /\ Sealed(v, y.rkey, y.rseq) /\ Len(v) = Len(w) + Len(msgs)
  BY <1>1, JoinSealed
<1>3. EndsNew(o) /\ NoOther(o)
  BY PacketKinds
<1> HIDE DEF o
<1>4. EndsNew(v) /\ NoOther(v)
  BY <1>1, <1>2, <1>3, JoinKinds
<1>5. x.wseq + Len(msgs) = y.rseq + Len(v)
  <2>1. Len(w) \in Nat /\ Len(msgs) \in Nat
    BY SeqJoin
  <2> HIDE DEF v
  <2> QED  BY <1>1, <1>2, <2>1
<1>6. IsSeq(v)
  BY <1>2, SeqJoin
<1> HIDE DEF v
<1>7. IsSeq(<<>>) /\ v = v \o <<>>
  <2>1. IsSeq(<<>>)
    BY SeqMake
  <2> QED  BY <1>6, <2>1, SeqJoin
<1>8. NoNew(<<>>) /\ OthersFirst(<<>>) /\ Len(<<>>) = 0 /\ \A k, n : Sealed(<<>>, k, n)
  BY DEF NoNew, OthersFirst, Sealed
<1>9. PICK n : n = Restart(y.rseq + Len(v))
  OBVIOUS
<1>10. n \in Nat /\ z.wseq = n
  <2>1. y.rseq + Len(v) \in Nat
    BY <1>6, SeqJoin
  <2> QED  BY <1>5, <1>9, <2>1, RestartFacts
<1>11. z.wseq = n + Len(<<>>)
  BY <1>8, <1>10
<1>12. Turned(z, y, v, <<>>)
  BY <1>2, <1>4, <1>8, <1>9, <1>11 DEF Turned
<1> QED  BY <1>6, <1>7, <1>12 DEF Wired, v, o

LEMMA TurnedMore ==
    ASSUME NEW x, NEW y, NEW z, NEW a, NEW b, NEW msgs, IsSeq(a), IsSeq(b), IsSeq(msgs),
           y.rseq \in Nat, x.end = "no", Turned(x, y, a, b), z.wkey = x.wkey \/ b = <<>>,
           z.wseq = x.wseq + Len(msgs), z.phase # "keys",
           Plain(msgs) \/ (Aside(msgs) /\ OnlyOthers(b))
    PROVE  Wired(z, y, (a \o b) \o Packets(z.wkey, x.wseq, msgs))
<1> DEFINE o == Packets(z.wkey, x.wseq, msgs)
           v == b \o o
           n == Restart(y.rseq + Len(a))
<1>1. /\ EndsNew(a) /\ NoOther(a) /\ Sealed(a, y.rkey, y.rseq)
      /\ NoNew(b) /\ OthersFirst(b) /\ Sealed(b, x.wkey, n) /\ x.wseq = n + Len(b)
  BY DEF Turned
<1>2. n \in Nat
  <2>1. y.rseq + Len(a) \in Nat
    BY SeqJoin
  <2> QED  BY <2>1, RestartFacts
<1>3. Sealed(b, z.wkey, n)
  <2>1. CASE b = <<>>
    BY <2>1 DEF Sealed
  <2>2. CASE z.wkey = x.wkey
    BY <1>1, <2>2
  <2> QED  BY <2>1, <2>2
<1> HIDE DEF n
<1>4. IsSeq(o) /\ Sealed(v, z.wkey, n) /\ Len(v) = Len(b) + Len(msgs)
  BY <1>1, <1>2, <1>3, JoinSealed
<1>5. /\ Plain(msgs) => NoNew(o) /\ NoOther(o) /\ OthersFirst(o)
      /\ Aside(msgs) => NoNew(o) /\ OthersFirst(o)
  BY PacketKinds
<1> HIDE DEF o
<1>6. NoNew(v) /\ OthersFirst(v)
  <2>1. CASE Plain(msgs)
    BY <1>1, <1>4, <1>5, <2>1, JoinKinds
  <2>2. CASE Aside(msgs) /\ OnlyOthers(b)
    BY <1>1, <1>4, <1>5, <2>2, JoinKinds
  <2> QED  BY <2>1, <2>2
<1>7. IsSeq(v) /\ (a \o b) \o o = a \o v
  BY <1>4, SeqJoin, JoinAssociative
<1>8. z.wseq = n + Len(v)
  <2>1. Len(b) \in Nat /\ Len(msgs) \in Nat
    BY SeqJoin
  <2> HIDE DEF v
  <2> QED  BY <1>1, <1>2, <1>4, <2>1
<1> HIDE DEF v
<1>9. Turned(z, y, a, v)
  BY <1>1, <1>4, <1>6, <1>8 DEF Turned, n
<1>10. Wired(z, y, a \o v)
  BY <1>7, <1>9 DEF Wired
<1> QED  BY <1>7, <1>10 DEF o

\* x, now z, has written nothing.
LEMMA WiredSame ==
    ASSUME NEW x, NEW y, NEW z, NEW w, Wired(x, y, w), z.wkey = x.wkey,
           z.end = "no" => x.end = "no" /\ z.wseq = x.wseq,
           z.phase = "keys" => x.phase = "keys"
    PROVE  Wired(z, y, w)
<1>1. CASE Straight(x, y, w)
  BY <1>1 DEF Straight, Wired
<1>2. CASE \E a, b : IsSeq(a) /\ IsSeq(b) /\ w = a \o b /\ Turned(x, y, a, b)
  <2>1. PICK a, b : IsSeq(a) /\ IsSeq(b) /\ w = a \o b /\ Turned(x, y, a, b)
    BY <1>2
  <2>2. Turned(z, y, a, b)
    <3>1. PICK n : n = Restart(y.rseq + Len(a))
      OBVIOUS
    <3> QED  BY <2>1, <3>1 DEF Turned
  <2> QED  BY <2>1, <2>2 DEF Wired
<1> QED  BY <1>1, <1>2 DEF Wired

\* y, now z, has read nothing.
LEMMA WiredReader ==
    ASSUME NEW x, NEW y, NEW z, NEW w, Wired(x, y, w), z.rkey = y.rkey, z.rseq = y.rseq,
           Live(y) => Live(z)
    PROVE  Wired(x, z, w)
<1>1. CASE Straight(x, y, w)
  BY <1>1 DEF Straight, Wired
<1>2. CASE \E a, b : IsSeq(a) /\ IsSeq(b) /\ w = a \o b /\ Turned(x, y, a, b)
  <2>1. PICK a, b : IsSeq(a) /\ IsSeq(b) /\ w = a \o b /\ Turned(x, y, a, b)
    BY <1>2
  <2>2. Turned(x, z, a, b)
    <3>1. PICK n : n = Restart(y.rseq + Len(a))
      OBVIOUS
    <3> QED  BY <2>1, <3>1 DEF Turned
  <2> QED  BY <2>1, <2>2 DEF Wired
<1> QED  BY <1>1, <1>2 DEF Wired

\* The next packet can be opened, and y takes it if it belongs to no
\* exchange.
LEMMA WiredOpens ==
    ASSUME NEW x, NEW y, NEW w, IsSeq(w), w # <<>>, y.rseq \in Nat, Wired(x, y, w)
    PROVE  /\ Head(w).key = y.rkey /\ Head(w).seq = y.rseq
           /\ Head(w).msg.t \in Others => Live(y)
<1>1. CASE Straight(x, y, w)
  <2>1. Sealed(w, y.rkey, y.rseq) /\ (Live(y) \/ NoOther(w))
    BY <1>1 DEF Straight
  <2> QED  BY <2>1, TailSealed, TailKinds
<1>2. CASE \E a, b : IsSeq(a) /\ IsSeq(b) /\ w = a \o b /\ Turned(x, y, a, b)
  <2>1. PICK a, b : IsSeq(a) /\ IsSeq(b) /\ w = a \o b /\ Turned(x, y, a, b)
    BY <1>2
  <2>2. a # <<>> /\ Sealed(a, y.rkey, y.rseq) /\ NoOther(a)
    BY <2>1 DEF Turned, EndsNew
  <2>3. Head(w) = Head(a)
    BY <2>1, <2>2, TailJoin
  <2>4. Head(a).key = y.rkey /\ Head(a).seq = y.rseq /\ Head(a).msg.t \notin Others
    BY <2>1, <2>2, TailSealed, TailKinds
  <2> QED  BY <2>3, <2>4
<1> QED  BY <1>1, <1>2 DEF Wired

\* y, now z, has read a packet that is not NEWKEYS.
LEMMA WiredTail ==
    ASSUME NEW x, NEW y, NEW z, NEW w, IsSeq(w), w # <<>>, y.rseq \in Nat, Wired(x, y, w),
           Head(w).msg.t # "NEWKEYS", z.rkey = y.rkey, z.rseq = y.rseq + 1,
           (Live(y) => Live(z)) \/ Head(w).msg.t \notin Others
    PROVE  Wired(x, z, Tail(w))
<1>1. CASE Straight(x, y, w)
  <2> DEFINE v == Tail(w)
  <2>1. /\ NoNew(w) /\ OthersFirst(w) /\ Sealed(w, y.rkey, y.rseq) /\ (Live(y) \/ NoOther(w))
        /\ x.end = "no" => x.wseq = y.rseq + Len(w)
    BY <1>1 DEF Straight
  <2>2. Sealed(v, y.rkey, y.rseq + 1) /\ Len(w) = 1 + Len(v) /\ Len(v) \in Nat
    BY <2>1, TailSealed
  <2>3. NoNew(v) /\ OthersFirst(v) /\ (NoOther(w) => NoOther(v))
        /\ (Head(w).msg.t \notin Others => NoOther(v))
    BY <2>1, TailKinds
  <2> HIDE DEF v
  <2>4. x.end = "no" => x.wseq = (y.rseq + 1) + Len(v)
    BY <2>1, <2>2
  <2>5. Straight(x, z, v)
    BY <2>1, <2>2, <2>3, <2>4 DEF Straight
  <2> QED  BY <2>5 DEF Wired, v
<1>2. CASE \E a, b : IsSeq(a) /\ IsSeq(b) /\ w = a \o b /\ Turned(x, y, a, b)
  <2>1. PICK a, b : IsSeq(a) /\ IsSeq(b) /\ w = a \o b /\ Turned(x, y, a, b)
    BY <1>2
  <2> DEFINE v == Tail(a)
             n == Restart(y.rseq + Len(a))
  <2>2. a # <<>> /\ EndsNew(a) /\ Sealed(a, y.rkey, y.rseq) /\ NoOther(a)
    BY <2>1 DEF Turned, EndsNew
  <2>3. Head(w) = Head(a) /\ Tail(w) = v \o b
    BY <2>1, <2>2, TailJoin
  <2>4. Sealed(v, y.rkey, y.rseq + 1) /\ Len(a) = 1 + Len(v) /\ Len(v) \in Nat
    BY <2>1, <2>2, TailSealed
  <2>5. NoOther(v) /\ EndsNew(v)
    BY <2>1, <2>2, <2>3, TailKinds
  <2>6. IsSeq(v)
    BY <2>1, <2>2, SeqTail
  <2> HIDE DEF v
  <2>7. y.rseq + Len(a) = (y.rseq + 1) + Len(v)
    BY <2>4
  <2>8. n = Restart(z.rseq + Len(v))
    BY <2>7
  <2>9. /\ NoNew(b) /\ OthersFirst(b) /\ (x.phase = "keys" => b = <<>>)
        /\ Sealed(b, x.wkey, n) /\ (x.end = "no" => x.wseq = n + Len(b))
    BY <2>1 DEF Turned
  <2> HIDE DEF n
  <2>10. Turned(x, z, v, b)
    BY <2>4, <2>5, <2>8, <2>9 DEF Turned
  <2> QED  BY <2>1, <2>3, <2>6, <2>10 DEF Wired
<1> QED  BY <1>1, <1>2 DEF Wired

\* y, now z, has read NEWKEYS.
LEMMA WiredNew ==
    ASSUME NEW x, NEW y, NEW z, NEW w, IsSeq(w), w # <<>>, y.rseq \in Nat, Wired(x, y, w),
           Head(w).msg.t = "NEWKEYS", z.rkey = x.wkey \/ x.phase = "keys",
           z.rseq = Restart(y.rseq + 1), Live(z)
    PROVE  Wired(x, z, Tail(w))
<1>1. CASE Straight(x, y, w)
  <2>1. NoNew(w) /\ 1 \in DOMAIN w /\ Head(w) = w[1]
    BY <1>1, SeqTail DEF Straight
  <2> QED  BY <2>1 DEF NoNew
<1>2. CASE \E a, b : IsSeq(a) /\ IsSeq(b) /\ w = a \o b /\ Turned(x, y, a, b)
  <2>1. PICK a, b : IsSeq(a) /\ IsSeq(b) /\ w = a \o b /\ Turned(x, y, a, b)
    BY <1>2
  <2> DEFINE n == Restart(y.rseq + Len(a))
  <2>2. a # <<>> /\ EndsNew(a) /\ Sealed(a, y.rkey, y.rseq)
    BY <2>1 DEF Turned, EndsNew
  <2>3. Head(w) = Head(a) /\ Tail(w) = Tail(a) \o b
    BY <2>1, <2>2, TailJoin
  <2>4. Tail(a) = <<>> /\ Len(a) = 1 + Len(Tail(a))
    BY <2>1, <2>2, <2>3, TailKinds, TailSealed
  <2>5. Len(<<>>) = 0 /\ IsSeq(<<>>)
    BY SeqMake
  <2>6. Len(a) = 1
    <3>1. PICK t : t = Tail(a)
      OBVIOUS
    <3>2. t = <<>> /\ Len(a) = 1 + Len(t)
      BY <2>4, <3>1
    <3>3. Len(t) = 0
      BY <2>5, <3>2
    <3> QED  BY <3>2, <3>3
  <2>7. Tail(w) = b
    <3>1. PICK S : b \in Seq(S)
      BY <2>1 DEF IsSeq
    <3>2. <<>> \o b = b
      BY <3>1
    <3> QED  BY <2>3, <2>4, <3>2
  <2>8. n = z.rseq
    BY <2>6
  <2>9. /\ NoNew(b) /\ OthersFirst(b) /\ (x.phase = "keys" => b = <<>>)
        /\ Sealed(b, x.wkey, n) /\ (x.end = "no" => x.wseq = n + Len(b))
    BY <2>1 DEF Turned
  <2> HIDE DEF n
  <2>10. Sealed(b, z.rkey, n)
    <3>1. CASE b = <<>>
      BY <3>1 DEF Sealed
    <3>2. CASE b # <<>>
      BY <2>9, <3>2
    <3> QED  BY <3>1, <3>2
  <2>11. Straight(x, z, b)
    BY <2>8, <2>9, <2>10 DEF Straight
  <2> QED  BY <2>7, <2>11 DEF Wired
<1> QED  BY <1>1, <1>2 DEF Wired

-----------------------------------------------------------------------------
\* What the row says of a wire.

HasNew(q) == \E i \in DOMAIN q : q[i].t = "NEWKEYS"

LEMMA MarksOthers ==
    ASSUME NEW w, Marks(w, <<>>)
    PROVE  OnlyOthers(w)
<1>1. PICK f : MarkedAt(w, <<>>, f)
  BY DEF Marks
<1>2. DOMAIN <<>> = {}
  OBVIOUS
<1> QED  BY <1>1, <1>2 DEF MarkedAt, OnlyOthers

LEMMA MarksNew ==
    ASSUME NEW w, NEW q, Marks(w, q)
    PROVE  /\ NoNew(w) => ~HasNew(q)
           /\ ~HasNew(q) => NoNew(w)
<1>1. PICK f : MarkedAt(w, q, f)
  BY DEF Marks
<1>2. "NEWKEYS" \notin Others
  BY DEF Others
<1>3. NoNew(w) => ~HasNew(q)
  BY <1>1 DEF MarkedAt, NoNew, HasNew
<1>4. ASSUME ~HasNew(q), NEW k \in DOMAIN w, w[k].msg.t = "NEWKEYS" PROVE FALSE
  <2>1. PICK i \in DOMAIN q : k = f[i]
    BY <1>1, <1>2, <1>4 DEF MarkedAt
  <2>2. w[k].msg = q[i]
    BY <1>1, <2>1 DEF MarkedAt
  <2> QED  BY <1>4, <2>1, <2>2 DEF HasNew
<1> QED  BY <1>3, <1>4 DEF NoNew

LEMMA TurnedMarks ==
    ASSUME NEW x, NEW y, NEW a, NEW b, IsSeq(a), IsSeq(b), Turned(x, y, a, b), NEW q,
           Marks(a \o b, q)
    PROVE  /\ HasNew(q)
           /\ (\A i, j \in DOMAIN q : i = j) => OnlyOthers(b)
<1> DEFINE w == a \o b
           N == Len(a)
<1>1. /\ Len(w) = N + Len(b) /\ N \in Nat /\ Len(b) \in Nat
      /\ DOMAIN a = 1 .. N /\ DOMAIN b = 1 .. Len(b) /\ DOMAIN w = 1 .. Len(w)
      /\ \A i \in DOMAIN a : w[i] = a[i]
      /\ \A i \in DOMAIN b : w[N + i] = b[i]
  BY SeqJoin
<1>2. EndsNew(a)
  BY DEF Turned
<1>3. N # 0
  <2>1. PICK S : a \in Seq(S)
    BY DEF IsSeq
  <2> QED  BY <1>2, <2>1 DEF EndsNew
<1>4. N \in DOMAIN a /\ a[N].msg.t = "NEWKEYS"
  BY <1>1, <1>2, <1>3 DEF EndsNew
<1>5. PICK f : MarkedAt(w, q, f)
  BY DEF Marks
<1> HIDE DEF w, N
<1>6. N \in DOMAIN w /\ w[N] = a[N] /\ "NEWKEYS" \notin Others
  BY <1>1, <1>4 DEF Others
<1>7. PICK i \in DOMAIN q : N = f[i]
  BY <1>4, <1>5, <1>6 DEF MarkedAt
<1>8. HasNew(q)
  BY <1>4, <1>5, <1>6, <1>7 DEF MarkedAt, HasNew
<1>9. ASSUME \A i1, j1 \in DOMAIN q : i1 = j1, NEW k \in DOMAIN b, b[k].msg.t \notin Others PROVE FALSE
  <2>1. N + k \in DOMAIN w /\ w[N + k] = b[k] /\ N + k # N
    BY <1>1
  <2>2. PICK j \in DOMAIN q : N + k = f[j]
    BY <1>5, <1>9, <2>1 DEF MarkedAt
  <2> QED  BY <1>7, <1>9, <2>1, <2>2
<1> QED  BY <1>8, <1>9 DEF OnlyOthers

LEMMA NewIn ==
    /\ ~HasNew(<<>>) /\ HasNew(<<NK>>)
    /\ \A n : ~HasNew(<<KI(n)>>) /\ ~HasNew(<<EI(n)>>) /\ HasNew(<<NK, KI(n)>>)
    /\ \A n, k : ~HasNew(<<KI(n), EI(k)>>)
    /\ \A n, h : HasNew(<<ER(n, h), NK>>)
<1>1. /\ \A n : KI(n).t # "NEWKEYS" /\ EI(n).t # "NEWKEYS"
      /\ NK.t = "NEWKEYS"
  <2>1. /\ \A n : KI(n).t = "KEXINIT" /\ EI(n).t = "ECDH_INIT"
        /\ NK.t = "NEWKEYS"
    BY Zenon DEF KI, EI, NK
  <2> QED  BY <2>1
<1>2. ASSUME NEW a, NEW b
      PROVE  /\ DOMAIN <<>> = {} /\ DOMAIN <<a>> = {1} /\ DOMAIN <<a, b>> = {1, 2}
             /\ <<a>>[1] = a /\ <<a, b>>[1] = a /\ <<a, b>>[2] = b
  OBVIOUS
<1>3. ASSUME NEW a, NEW b
      PROVE  /\ ~HasNew(<<>>) /\ (HasNew(<<a>>) <=> a.t = "NEWKEYS")
             /\ HasNew(<<a, b>>) <=> a.t = "NEWKEYS" \/ b.t = "NEWKEYS"
  <2>1. ~HasNew(<<>>)
    BY <1>2, Zenon DEF HasNew
  <2>2. HasNew(<<a>>) <=> a.t = "NEWKEYS"
    BY DEF HasNew
  <2>3. HasNew(<<a, b>>) <=> a.t = "NEWKEYS" \/ b.t = "NEWKEYS"
    <3>1. PICK v : v = <<a, b>>
      OBVIOUS
    <3>2. DOMAIN v = {1, 2} /\ v[1] = a /\ v[2] = b
      BY <3>1
    <3>3. HasNew(v) <=> a.t = "NEWKEYS" \/ b.t = "NEWKEYS"
      BY <3>2 DEF HasNew
    <3> QED  BY <3>1, <3>3
  <2> QED  BY <2>1, <2>2, <2>3
<1> QED  BY <1>1, <1>3, Zenon

\* What a row says of side x, which writes q and reads r, and of its peer y.
WhileIdle(x, y, q) ==
    x.phase = "idle" => x.enc /\ (q = <<NK>> \/ (q = <<>> /\ Live(y)))
WhileKeys(x, y, q) ==
    x.phase = "keys" => HasNew(q) \/ (q = <<>> /\ Live(y) /\ x.newkeys = y.wkey)
SealsFor(x, y, q) == x.phase # "keys" /\ ~HasNew(q) => x.wkey = y.wkey

\* What it says of the message to be read next.
NextRead(s, x, y, q, r) ==
    \/ /\ Head(r).t = "KEXINIT" /\ x.phase \in {"init", "idle"} /\ ~HasNew(q)
    \/ /\ Head(r).t = "ECDH_INIT" /\ s = "server" /\ x.phase = "dh" /\ ~HasNew(q) /\ ~Live(y)
    \/ /\ Head(r).t = "ECDH_REPLY" /\ s = "client" /\ x.phase = "dhdone" /\ ~HasNew(q) /\ ~Live(y)
       /\ BothOk /\ Head(r) = ER(y.inits, HashOf(x, y))
       /\ x.ex = Exchange(<<x.inits>>, <<y.inits>>, <<x.inits>>, <<>>)
    \/ /\ Head(r).t = "NEWKEYS" /\ x.phase = "keys"
       /\ x.newkeys = y.wkey \/ y.phase = "keys"

LEMMA PhasesDiffer ==
    /\ "idle" # "init" /\ "idle" # "dhdone" /\ "idle" # "dh" /\ "idle" # "keys"
    /\ "init" # "dhdone" /\ "init" # "dh" /\ "init" # "keys"
    /\ "dhdone" # "dh" /\ "dhdone" # "keys" /\ "dh" # "keys"
    /\ "init" \in {"idle", "init"} /\ "idle" \in {"idle", "init"}
    /\ \A p : p \in {"idle", "init"} <=> p = "idle" \/ p = "init"
OBVIOUS

LEMMA RowWriting ==
    ASSUME NEW c, NEW d, NEW q, NEW r, Row(c, d, q, r)
    PROVE  /\ WhileIdle(c, d, q) /\ WhileKeys(c, d, q) /\ SealsFor(c, d, q)
           /\ WhileIdle(d, c, r) /\ WhileKeys(d, c, r) /\ SealsFor(d, c, r)
<1> USE NewIn, PhasesDiffer DEF WhileIdle, WhileKeys, SealsFor, SameKeys, Live
<1>1. CASE IdleIdle(c, d, q, r)
  BY <1>1, Zenon DEF IdleIdle
<1>2. CASE IdleInit(c, d, q, r)
  BY <1>2, Zenon DEF IdleInit
<1>3. CASE IdleKeys(c, d, q, r)
  BY <1>3, Zenon DEF IdleKeys
<1>4. CASE InitIdle(c, d, q, r)
  BY <1>4, Zenon DEF InitIdle
<1>5. CASE InitInit(c, d, q, r)
  BY <1>5, Zenon DEF InitInit
<1>6. CASE InitDh(c, d, q, r)
  BY <1>6, Zenon DEF InitDh
<1>7. CASE InitKeys(c, d, q, r)
  BY <1>7, Zenon DEF InitKeys
<1>8. CASE DoneInit(c, d, q, r)
  BY <1>8, Zenon DEF DoneInit
<1>9. CASE DoneDh(c, d, q, r)
  BY <1>9, Zenon DEF DoneDh
<1>10. CASE DoneKeys(c, d, q, r)
  BY <1>10, Zenon DEF DoneKeys
<1>11. CASE KeysKeys(c, d, q, r)
  BY <1>11, Zenon DEF KeysKeys
<1>12. CASE KeysIdle(c, d, q, r)
  BY <1>12, Zenon DEF KeysIdle
<1>13. CASE KeysInit(c, d, q, r)
  BY <1>13, Zenon DEF KeysInit
<1> QED
  BY <1>1, <1>2, <1>3, <1>4, <1>5, <1>6, <1>7, <1>8, <1>9, <1>10, <1>11, <1>12, <1>13 DEF Row

LEMMA RowReading ==
    ASSUME NEW c, NEW d, NEW q, NEW r, Row(c, d, q, r)
    PROVE  /\ r # <<>> => NextRead("client", c, d, q, r)
           /\ q # <<>> => NextRead("server", d, c, r, q)
<1> USE NewIn, PhasesDiffer DEF NextRead, Live
<1>1. ASSUME r # <<>> PROVE NextRead("client", c, d, q, r)
  <2>1. CASE Head(r).t = "KEXINIT" /\ IdleInit(c, d, q, r)
    BY <2>1, Zenon DEF IdleInit
  <2>2. CASE Head(r).t = "KEXINIT" /\ InitInit(c, d, q, r)
    BY <2>2, Zenon DEF InitInit
  <2>3. CASE Head(r).t = "KEXINIT" /\ InitDh(c, d, q, r)
    BY <2>3, Zenon DEF InitDh
  <2>4. CASE Head(r).t = "ECDH_REPLY" /\ DoneKeys(c, d, q, r)
    <3>1. Head(<<ER(d.inits, HashOf(c, d)), NK>>) = ER(d.inits, HashOf(c, d))
      BY Tuples
    <3> QED  BY <2>4, <3>1, Zenon DEF DoneKeys
  <2>5. CASE Head(r).t = "NEWKEYS" /\ KeysKeys(c, d, q, r)
    BY <2>5, Zenon DEF KeysKeys
  <2>6. CASE Head(r).t = "NEWKEYS" /\ KeysIdle(c, d, q, r)
    BY <2>6, Zenon DEF KeysIdle
  <2>7. CASE Head(r).t = "NEWKEYS" /\ KeysInit(c, d, q, r)
    BY <2>7, Zenon DEF KeysInit
  <2> QED  BY <1>1, <2>1, <2>2, <2>3, <2>4, <2>5, <2>6, <2>7, ToClient, Zenon
<1>2. ASSUME q # <<>> PROVE NextRead("server", d, c, r, q)
  <2>1. CASE Head(q).t = "KEXINIT" /\ InitIdle(c, d, q, r)
    BY <2>1, Zenon DEF InitIdle
  <2>2. CASE Head(q).t = "KEXINIT" /\ InitInit(c, d, q, r)
    BY <2>2, Zenon DEF InitInit
  <2>3. CASE Head(q).t = "KEXINIT" /\ DoneInit(c, d, q, r)
    BY <2>3, Zenon DEF DoneInit
  <2>4. CASE Head(q).t = "ECDH_INIT" /\ DoneDh(c, d, q, r)
    BY <2>4, Zenon DEF DoneDh
  <2>5. CASE Head(q).t = "NEWKEYS" /\ KeysKeys(c, d, q, r)
    BY <2>5, Zenon DEF KeysKeys
  <2>6. CASE Head(q).t = "NEWKEYS" /\ IdleKeys(c, d, q, r)
    BY <2>6, Zenon DEF IdleKeys
  <2>7. CASE Head(q).t = "NEWKEYS" /\ InitKeys(c, d, q, r)
    BY <2>7, Zenon DEF InitKeys
  <2> QED  BY <1>2, <2>1, <2>2, <2>3, <2>4, <2>5, <2>6, <2>7, ToServer, Zenon
<1> QED  BY <1>1, <1>2

-----------------------------------------------------------------------------
\* A message that is expected ends no session, unless it is one too many to
\* be put aside.

Expected(s, x, m) ==
    \/ /\ m.t = "KEXINIT" /\ x.phase \in {"init", "idle"} /\ Ok(s)
       /\ ~StrictViolated(x, Chosen(s)[1]) /\ (x.strict => Chosen(s)[1].strict)
    \/ m.t = "ECDH_INIT" /\ s = "server" /\ x.phase = "dh"
    \/ /\ m.t = "ECDH_REPLY" /\ s = "client" /\ x.phase = "dhdone"
       /\ m.hash = <<x.ex.ck, x.ex.sk, x.ex.ce, Append(x.ex.se, m.e), Chosen(s)[1].kex>>
    \/ m.t = "NEWKEYS" /\ x.phase = "keys"
    \/ m.t \in Others /\ Live(x)

Survives(x, z) == z.end = x.end \/ Overflowed(z)

LEMMA ClientInitSurvives ==
    ASSUME NEW x, IsSession(x), NEW m, Ok("client"), ~StrictViolated(x, Chosen("client")[1]),
           x.strict => Chosen("client")[1].strict
    PROVE  ClientKexInit(x, m).ses.end = x.end
<1> DEFINE begun == x.phase = "init"
           y == IF begun THEN x ELSE WithInit("client", ForgetExchange(x))
           z == [y EXCEPT !.ex = Exchange(y.ex.ck, Append(y.ex.sk, m.n), <<y.inits>>, y.ex.se),
                          !.phase = "dhdone"]
           init == [t |-> "ECDH_INIT", e |-> y.inits]
           msgs == IF begun THEN <<init>> ELSE <<KexInitMsg(y), init>>
<1>1. ClientKexInit(x, m) = Step("client", z, msgs)
  BY Zenon DEF ClientKexInit, Ok
<1>2. IsSession(y) /\ y.end = x.end
  BY WithInitFacts, Zenon DEF Sides
<1> HIDE DEF y
<1>3. IsSession(z) /\ z.end = y.end
  BY <1>2, Zenon DEF IsSession
<1> HIDE DEF z, msgs
<1>4. Step("client", z, msgs).ses.end = z.end
  BY <1>3, StepFacts
<1> QED  BY <1>1, <1>2, <1>3, <1>4

LEMMA ServerInitSurvives ==
    ASSUME NEW x, IsSession(x), NEW m, Ok("server"), ~StrictViolated(x, Chosen("server")[1])
    PROVE  ServerKexInit(x, m).ses.end = x.end
<1> DEFINE begun == x.phase = "init"
           y == IF begun THEN x ELSE WithInit("server", ForgetExchange(x))
           z == [y EXCEPT !.ex = Exchange(Append(y.ex.ck, m.n), y.ex.sk, y.ex.ce, y.ex.se),
                          !.phase = "dh",
                          !.strict = (x.enc /\ x.strict) \/ Chosen("server")[1].strict]
           msgs == IF begun THEN <<>> ELSE <<KexInitMsg(y)>>
<1>1. ServerKexInit(x, m) = Step("server", z, msgs)
  BY Zenon DEF ServerKexInit, Ok
<1>2. IsSession(y) /\ y.end = x.end
  BY WithInitFacts, Zenon DEF Sides
<1> HIDE DEF y
<1>3. IsSession(z) /\ z.end = y.end
  BY <1>2, Zenon DEF IsSession
<1> HIDE DEF z, msgs
<1>4. Step("server", z, msgs).ses.end = z.end
  BY <1>3, StepFacts
<1> QED  BY <1>1, <1>2, <1>3, <1>4

LEMMA ReplySurvives ==
    ASSUME NEW x, IsSession(x), NEW m,
           m.hash = <<x.ex.ck, x.ex.sk, x.ex.ce, Append(x.ex.se, m.e), Chosen("client")[1].kex>>
    PROVE  ClientEcdhReply(x, m).ses.end = x.end
<1> DEFINE e == Exchange(x.ex.ck, x.ex.sk, x.ex.ce, Append(x.ex.se, m.e))
           w == [x EXCEPT !.ex = e]
           k == ComputeKeys("client", w)
           y == [k EXCEPT !.strict = x.strict \/ Chosen("client")[1].strict]
           msgs == <<NK>>
           step == Step("client", y, msgs)
           r == ClientEcdhReply(x, m)
           v == MaybeResetSeqn(step.ses)
<1>1. IsSession(w) /\ w.ex = e /\ w.end = x.end
  BY Zenon DEF IsSession
<1>2. m.hash = Hash("client", w)
  <2>1. e.ck = x.ex.ck /\ e.sk = x.ex.sk /\ e.ce = x.ex.ce /\ e.se = Append(x.ex.se, m.e)
    BY DEF Exchange
  <2> HIDE DEF w, e
  <2> QED  BY <1>1, <2>1, Zenon DEF Hash
<1>3. r.ses = v
  <2>1. r = [step EXCEPT !.ses = MaybeResetSeqn(@)]
    BY <1>2, Zenon DEF ClientEcdhReply, NK
  <2>2. step = [ses |-> [y EXCEPT !.wseq = y.wseq + Len(msgs)], out |-> Seal(y, msgs)]
    BY Zenon DEF Step
  <2>3. DOMAIN step = {"ses", "out"}
    <3> HIDE DEF y, msgs
    <3> QED  BY <2>2, Zenon
  <2> HIDE DEF step
  <2> QED  BY <2>1, <2>3, Zenon
<1> HIDE DEF w, e, r
<1>4. IsSession(k) /\ k.end = w.end
  BY <1>1, ComputeKeysFacts DEF Computed
<1> HIDE DEF k
<1>5. IsSession(y) /\ y.end = k.end
  BY <1>4, Zenon DEF IsSession
<1> HIDE DEF y, msgs
<1>6. IsSession(step.ses) /\ step.ses.end = y.end
  BY <1>5, StepFacts
<1> HIDE DEF step
<1>7. v.end = step.ses.end
  BY <1>6, ResetFacts
<1> HIDE DEF v
<1>8. r.ses.end = x.end
  BY <1>1, <1>3, <1>4, <1>5, <1>6, <1>7
<1> QED  BY <1>8 DEF r

LEMMA OtherSurvives ==
    ASSUME NEW s, NEW x, IsSession(x), NEW m, Live(x)
    PROVE  Survives(x, OtherPacket(s, x, m).ses)
<1> DEFINE r == OtherPacket(s, x, m)
           p == PutAside(NothingAside, m)
           y == Process(x, p)
           k == [x EXCEPT !.stash = PutAside(x.stash, m)]
           e == [x EXCEPT !.end = "pending"]
<1>1. CASE x.phase = "idle"
  <2>1. x.enc /\ x.phase # "init"
    BY <1>1 DEF Live
  <2>2. r = Step(s, y, Answers(p))
    BY <1>1, <2>1, Zenon DEF OtherPacket
  <2>3. IsSession(y) /\ y.end = x.end
    BY ProcessFacts
  <2> HIDE DEF y
  <2>4. \A msgs : Step(s, y, msgs).ses.end = y.end
    BY <2>3, StepFacts
  <2> QED  BY <2>2, <2>3, <2>4, Zenon DEF Survives
<1>2. CASE x.phase = "init"
  <2>1. x.enc /\ x.phase # "idle"
    BY <1>2 DEF Live
  <2>2. r = IF x.stash.size = PendingMax THEN Die(x, "pending") ELSE [ses |-> k, out |-> <<>>]
    BY <1>2, <2>1, Zenon DEF OtherPacket
  <2>3. CASE x.stash.size = PendingMax
    <3>1. r.ses = e
      <4>1. r = [ses |-> e, out |-> <<>>]
        BY <2>2, <2>3, Zenon DEF Die
      <4> HIDE DEF r, e
      <4> QED  BY <4>1
    <3>2. e.end = "pending" /\ e.stash = x.stash
      BY Zenon DEF IsSession
    <3> QED  BY <2>3, <3>1, <3>2, Zenon DEF Survives, Overflowed
  <2>4. CASE x.stash.size # PendingMax
    <3>1. r.ses = k
      <4>1. r = [ses |-> k, out |-> <<>>]
        BY <2>2, <2>4, Zenon
      <4> HIDE DEF r, k
      <4> QED  BY <4>1
    <3>2. k.end = x.end
      BY Zenon DEF IsSession
    <3> QED  BY <3>1, <3>2, Zenon DEF Survives
  <2> QED  BY <2>3, <2>4
<1> QED  BY <1>1, <1>2 DEF Live

LEMMA ClientSurvives ==
    ASSUME NEW x, IsSession(x), NEW m, Expected("client", x, m)
    PROVE  Survives(x, ClientReply(x, m).ses)
<1>0. "client" # "server"
  OBVIOUS
<1>1. CASE /\ m.t = "KEXINIT" /\ x.phase \in {"init", "idle"} /\ Ok("client")
           /\ ~StrictViolated(x, Chosen("client")[1]) /\ (x.strict => Chosen("client")[1].strict)
  <2>1. m.t # "ECDH_REPLY" /\ m.t # "NEWKEYS" /\ m.t \notin Others
    BY <1>1 DEF Others
  <2>2. ClientReply(x, m) = ClientKexInit(x, m)
    BY <1>1, <2>1, Zenon DEF ClientReply
  <2>3. ClientKexInit(x, m).ses.end = x.end
    BY <1>1, ClientInitSurvives
  <2> QED  BY <2>2, <2>3, Zenon DEF Survives
<1>2. CASE /\ m.t = "ECDH_REPLY" /\ x.phase = "dhdone"
           /\ m.hash = <<x.ex.ck, x.ex.sk, x.ex.ce, Append(x.ex.se, m.e), Chosen("client")[1].kex>>
  <2>1. m.t # "KEXINIT" /\ m.t # "NEWKEYS" /\ m.t \notin Others
    BY <1>2 DEF Others
  <2>2. ClientReply(x, m) = ClientEcdhReply(x, m)
    BY <1>2, <2>1, Zenon DEF ClientReply
  <2>3. ClientEcdhReply(x, m).ses.end = x.end
    BY <1>2, ReplySurvives, Zenon
  <2> QED  BY <2>2, <2>3, Zenon DEF Survives
<1>3. CASE m.t = "NEWKEYS" /\ x.phase = "keys"
  <2>1. m.t # "KEXINIT" /\ m.t # "ECDH_REPLY" /\ m.t \notin Others
    BY <1>3 DEF Others
  <2>2. ClientReply(x, m) = NewKeys("client", x)
    BY <1>3, <2>1, Zenon DEF ClientReply
  <2>3. PICK msgs : TookKeys("client", x, m, NewKeys("client", x).ses, msgs)
    BY <1>3, NewKeysFacts
  <2>4. NewKeys("client", x).ses.end = x.end
    BY <2>3, Zenon DEF TookKeys
  <2> QED  BY <2>2, <2>4, Zenon DEF Survives
<1>4. CASE m.t \in Others /\ Live(x)
  <2>1. m.t # "KEXINIT" /\ m.t # "ECDH_REPLY" /\ m.t # "NEWKEYS"
    BY <1>4 DEF Others
  <2>2. ClientReply(x, m) = OtherPacket("client", x, m)
    BY <1>4, <2>1, Zenon DEF ClientReply
  <2>3. Survives(x, OtherPacket("client", x, m).ses)
    BY <1>4, OtherSurvives
  <2> QED  BY <2>2, <2>3, Zenon
<1> QED  BY <1>0, <1>1, <1>2, <1>3, <1>4, Zenon DEF Expected

LEMMA ServerSurvives ==
    ASSUME NEW x, IsSession(x), NEW m, Expected("server", x, m)
    PROVE  Survives(x, ServerReply(x, m).ses)
<1>0. "client" # "server"
  OBVIOUS
<1>1. CASE /\ m.t = "KEXINIT" /\ x.phase \in {"init", "idle"} /\ Ok("server")
           /\ ~StrictViolated(x, Chosen("server")[1]) /\ (x.strict => Chosen("server")[1].strict)
  <2>1. m.t # "ECDH_INIT" /\ m.t # "NEWKEYS" /\ m.t \notin Others
    BY <1>1 DEF Others
  <2>2. ServerReply(x, m) = ServerKexInit(x, m)
    BY <1>1, <2>1, Zenon DEF ServerReply
  <2>3. ServerKexInit(x, m).ses.end = x.end
    BY <1>1, ServerInitSurvives
  <2> QED  BY <2>2, <2>3, Zenon DEF Survives
<1>2. CASE m.t = "ECDH_INIT" /\ x.phase = "dh"
  <2>1. m.t # "KEXINIT" /\ m.t # "NEWKEYS" /\ m.t \notin Others
    BY <1>2 DEF Others
  <2>2. ServerReply(x, m) = ServerEcdhInit(x, m)
    BY <1>2, <2>1, Zenon DEF ServerReply
  <2>3. PICK msgs : ServerTookEcdh(x, m, ServerEcdhInit(x, m).ses, msgs)
    BY <1>2, ServerEcdhInitFacts
  <2>4. ServerEcdhInit(x, m).ses.end = x.end
    BY <2>3, Zenon DEF ServerTookEcdh, Computed
  <2> QED  BY <2>2, <2>4, Zenon DEF Survives
<1>3. CASE m.t = "NEWKEYS" /\ x.phase = "keys"
  <2>1. m.t # "KEXINIT" /\ m.t # "ECDH_INIT" /\ m.t \notin Others
    BY <1>3 DEF Others
  <2>2. ServerReply(x, m) = NewKeys("server", x)
    BY <1>3, <2>1, Zenon DEF ServerReply
  <2>3. PICK msgs : TookKeys("server", x, m, NewKeys("server", x).ses, msgs)
    BY <1>3, NewKeysFacts
  <2>4. NewKeys("server", x).ses.end = x.end
    BY <2>3, Zenon DEF TookKeys
  <2> QED  BY <2>2, <2>4, Zenon DEF Survives
<1>4. CASE m.t \in Others /\ Live(x)
  <2>1. m.t # "KEXINIT" /\ m.t # "ECDH_INIT" /\ m.t # "NEWKEYS"
    BY <1>4 DEF Others
  <2>2. ServerReply(x, m) = OtherPacket("server", x, m)
    BY <1>4, <2>1, Zenon DEF ServerReply
  <2>3. Survives(x, OtherPacket("server", x, m).ses)
    BY <1>4, OtherSurvives
  <2> QED  BY <2>2, <2>3, Zenon
<1> QED  BY <1>0, <1>1, <1>2, <1>3, <1>4, Zenon DEF Expected

\* The reader of an expected message.
LEMMA ReceiveSurvives ==
    ASSUME Shaped, NEW s \in Sides, Receive(s), Opens(ses[s], Head(wire[Peer(s)])),
           \A y : Advanced(ses[s], y) => Expected(s, y, Head(wire[Peer(s)]).msg)
    PROVE  ses'[s].end = "no" \/ Overflowed(ses'[s])
<1> DEFINE p == Head(wire[Peer(s)])
           x == [ses[s] EXCEPT !.rseq = @ + 1]
           r == IF ~Opens(ses[s], p) THEN Die(ses[s], "cannot open")
                ELSE IF s = "client" THEN ClientReply(x, p.msg)
                ELSE ServerReply(x, p.msg)
<1>1. ses[s].end = "no" /\ Apply(s, r)
  BY Zenon DEF Receive
<1>2. IsSession(x) /\ Advanced(ses[s], x)
  BY AdvanceFacts DEF Shaped
<1> HIDE DEF x
<1>3. x.end = "no" /\ Expected(s, x, p.msg)
  BY <1>1, <1>2 DEF Advanced
<1>4. r = IF s = "client" THEN ClientReply(x, p.msg) ELSE ServerReply(x, p.msg)
  BY Zenon
<1>5. ses' = [ses EXCEPT ![s] = r.ses]
  BY <1>1, Zenon DEF Apply
<1> HIDE DEF p, r
<1>6. Survives(x, r.ses)
  <2>1. CASE s = "client"
    BY <2>1, <1>2, <1>3, <1>4, ClientSurvives
  <2>2. CASE s = "server"
    BY <2>2, <1>2, <1>3, <1>4, ServerSurvives
  <2> QED  BY <2>1, <2>2 DEF Sides
<1>7. ses'[s] = r.ses
  BY <1>5 DEF Shaped
<1> QED  BY <1>3, <1>6, <1>7, Zenon DEF Survives

-----------------------------------------------------------------------------
\* Strictness and the number of the first KEXINIT, as the handlers need them.
Ready(x) ==
    /\ x.strict => Strict
    /\ x.phase = "dh" => (x.strict <=> Strict)
    /\ ~x.enc /\ x.phase = "init" => x.rseq = 0

\* What x, now z, has written to y and read, q being on its way to y.
Wrote(x, y, z, q, msgs) ==
    \/ /\ msgs = <<>> /\ z.wkey = x.wkey /\ (z.end = "no" => z.wseq = x.wseq)
       /\ z.phase = "keys" => x.phase = "keys"
    \/ /\ x.phase = "idle" /\ (Plain(msgs) \/ Aside(msgs))
       /\ z.wkey = x.wkey /\ z.wseq = x.wseq + Len(msgs) /\ z.phase # "keys"
    \/ /\ x.phase # "keys" /\ Plain(msgs) /\ ~HasNew(q)
       /\ z.wkey = x.wkey /\ z.wseq = x.wseq + Len(msgs) /\ z.phase # "keys"
    \/ /\ x.phase # "keys" /\ Turning(msgs) /\ ~HasNew(q) /\ ~Live(y)
       /\ z.wkey = x.wkey /\ z.wseq = Restart(x.wseq + Len(msgs))
    \/ /\ x.phase = "keys" /\ Aside(msgs)
       /\ z.wkey = x.newkeys /\ z.wseq = x.wseq + Len(msgs) /\ z.phase # "keys"
Read(x, y, z, m) ==
    \/ /\ m.t # "NEWKEYS" /\ z.rkey = x.rkey /\ z.rseq = x.rseq + 1
       /\ (Live(x) => Live(z)) \/ m.t \notin Others
    \/ /\ m.t = "NEWKEYS" /\ z.rkey = x.newkeys /\ z.rseq = Restart(x.rseq + 1) /\ Live(z)
       /\ x.newkeys = y.wkey \/ y.phase = "keys"

\* What it has written can be read.
LEMMA WroteWired ==
    ASSUME NEW x, NEW y, NEW z, NEW v, NEW q, NEW msgs, IsSeq(v), IsSeq(msgs), y.rseq \in Nat,
           x.end = "no", Wired(x, y, v), Marks(v, q), Keyed(y),
           WhileIdle(x, y, q), WhileKeys(x, y, q), SealsFor(x, y, q), Wrote(x, y, z, q, msgs)
    PROVE  Wired(z, y, v \o Packets(z.wkey, x.wseq, msgs))
<1> DEFINE w == v \o Packets(z.wkey, x.wseq, msgs)
<1>1. y.wkey = y.rkey
  BY DEF Keyed
<1>2. ASSUME ~HasNew(q) PROVE Straight(x, y, v)
  <2>1. CASE \E a, b : IsSeq(a) /\ IsSeq(b) /\ v = a \o b /\ Turned(x, y, a, b)
    <3>1. PICK a, b : IsSeq(a) /\ IsSeq(b) /\ v = a \o b /\ Turned(x, y, a, b)
      BY <2>1
    <3>2. Marks(a \o b, q)
      BY <3>1
    <3>3. HasNew(q)
      BY <3>1, <3>2, TurnedMarks
    <3> QED  BY <1>2, <3>3
  <2> QED  BY <2>1 DEF Wired
<1>3. ASSUME HasNew(q)
      PROVE  \E a, b : IsSeq(a) /\ IsSeq(b) /\ v = a \o b /\ Turned(x, y, a, b)
  <2>1. ~Straight(x, y, v)
    BY <1>3, MarksNew DEF Straight
  <2> QED  BY <2>1 DEF Wired
<1>4. CASE /\ msgs = <<>> /\ z.wkey = x.wkey /\ (z.end = "no" => z.wseq = x.wseq)
           /\ z.phase = "keys" => x.phase = "keys"
  <2>1. Wired(z, y, v)
    BY <1>4, WiredSame
  <2>2. Packets(z.wkey, x.wseq, msgs) = <<>>
    BY <1>4, PacketFacts
  <2>3. IsSeq(<<>>)
    BY SeqMake
  <2>4. w = v
    BY <2>2, <2>3, SeqJoin
  <2> QED  BY <2>1, <2>4
<1>5. ASSUME x.phase # "keys", ~HasNew(q), z.wkey = x.wkey, z.wseq = x.wseq + Len(msgs),
             Plain(msgs) \/ (Aside(msgs) /\ q = <<>> /\ Live(y))
      PROVE  Wired(z, y, w)
  <2>1. Straight(x, y, v) /\ z.wkey = y.rkey
    BY <1>1, <1>2, <1>5 DEF SealsFor
  <2>2. q = <<>> => OnlyOthers(v)
    BY MarksOthers
  <2>3. Straight(z, y, v \o Packets(y.rkey, x.wseq, msgs))
    BY <1>5, <2>1, <2>2, StraightMore
  <2> QED  BY <2>1, <2>3 DEF Wired
<1>6. ASSUME NEW a, NEW b, IsSeq(a), IsSeq(b), v = a \o b, Turned(x, y, a, b),
             z.wkey = x.wkey \/ b = <<>>, z.wseq = x.wseq + Len(msgs), z.phase # "keys",
             Plain(msgs) \/ (Aside(msgs) /\ OnlyOthers(b))
      PROVE  Wired(z, y, w)
  <2>1. Wired(z, y, (a \o b) \o Packets(z.wkey, x.wseq, msgs))
    BY <1>6, TurnedMore
  <2> QED  BY <1>6, <2>1
<1>7. CASE /\ x.phase = "idle" /\ (Plain(msgs) \/ Aside(msgs))
           /\ z.wkey = x.wkey /\ z.wseq = x.wseq + Len(msgs) /\ z.phase # "keys"
  <2>1. CASE q = <<>> /\ Live(y)
    <3>1. ~HasNew(q)
      BY <2>1, NewIn
    <3> QED  BY <1>5, <1>7, <2>1, <3>1
  <2>2. CASE q = <<NK>>
    <3>1. HasNew(q)
      BY <2>2, NewIn
    <3>2. \A i, j \in DOMAIN q : i = j
      <4> HIDE DEF NK
      <4> QED  BY <2>2
    <3>3. PICK a, b : IsSeq(a) /\ IsSeq(b) /\ v = a \o b /\ Turned(x, y, a, b)
      BY <1>3, <3>1
    <3>4. Marks(a \o b, q)
      BY <3>3
    <3>5. OnlyOthers(b)
      BY <3>2, <3>3, <3>4, TurnedMarks
    <3> QED  BY <1>6, <1>7, <3>3, <3>5
  <2> QED  BY <1>7, <2>1, <2>2 DEF WhileIdle
<1>8. CASE /\ x.phase # "keys" /\ Plain(msgs) /\ ~HasNew(q)
           /\ z.wkey = x.wkey /\ z.wseq = x.wseq + Len(msgs) /\ z.phase # "keys"
  BY <1>5, <1>8
<1>9. CASE /\ x.phase # "keys" /\ Turning(msgs) /\ ~HasNew(q) /\ ~Live(y)
           /\ z.wkey = x.wkey /\ z.wseq = Restart(x.wseq + Len(msgs))
  <2>1. Straight(x, y, v) /\ z.wkey = y.rkey
    BY <1>1, <1>2, <1>9 DEF SealsFor
  <2>2. Wired(z, y, v \o Packets(y.rkey, x.wseq, msgs))
    BY <1>9, <2>1, Turns
  <2> QED  BY <2>1, <2>2
<1>10. CASE /\ x.phase = "keys" /\ Aside(msgs)
            /\ z.wkey = x.newkeys /\ z.wseq = x.wseq + Len(msgs) /\ z.phase # "keys"
  <2>1. CASE HasNew(q)
    <3>1. PICK a, b : IsSeq(a) /\ IsSeq(b) /\ v = a \o b /\ Turned(x, y, a, b)
      BY <1>3, <2>1
    <3>2. b = <<>>
      BY <1>10, <3>1 DEF Turned
    <3>3. OnlyOthers(b)
      BY <3>2 DEF OnlyOthers
    <3> QED  BY <1>6, <1>10, <3>1, <3>2, <3>3
  <2>2. CASE ~HasNew(q)
    <3>1. Straight(x, y, v) /\ q = <<>> /\ Live(y) /\ z.wkey = y.rkey
      BY <1>1, <1>2, <1>10, <2>2 DEF WhileKeys
    <3>2. OnlyOthers(v)
      BY <3>1, MarksOthers
    <3>3. Straight(z, y, v \o Packets(y.rkey, x.wseq, msgs))
      BY <1>10, <3>1, <3>2, StraightMore
    <3> QED  BY <3>1, <3>3 DEF Wired
  <2> QED  BY <2>1, <2>2
<1> QED  BY <1>4, <1>7, <1>8, <1>9, <1>10 DEF Wrote

\* What it has read leaves the rest to be read.
LEMMA ReadWired ==
    ASSUME NEW x, NEW y, NEW z, NEW u, IsSeq(u), u # <<>>, x.rseq \in Nat, Wired(y, x, u),
           Read(x, y, z, Head(u).msg)
    PROVE  Wired(y, z, Tail(u))
<1> DEFINE m == Head(u).msg
<1>1. CASE /\ m.t # "NEWKEYS" /\ z.rkey = x.rkey /\ z.rseq = x.rseq + 1
           /\ (Live(x) => Live(z)) \/ m.t \notin Others
  BY <1>1, WiredTail
<1>2. CASE /\ m.t = "NEWKEYS" /\ z.rkey = x.newkeys /\ z.rseq = Restart(x.rseq + 1) /\ Live(z)
           /\ x.newkeys = y.wkey \/ y.phase = "keys"
  BY <1>2, WiredNew
<1> QED  BY <1>1, <1>2 DEF Read

LEMMA PlainIn ==
    /\ Plain(<<>>) /\ \A n : Plain(<<KI(n)>>) /\ Plain(<<EI(n)>>)
    /\ \A n, k : Plain(<<KI(n), EI(k)>>)
    /\ Turning(<<NK>>) /\ \A n, h : Turning(<<ER(n, h), NK>>)
<1>1. /\ \A n : KI(n).t = "KEXINIT" /\ EI(n).t = "ECDH_INIT"
      /\ \A n, h : ER(n, h).t = "ECDH_REPLY"
  BY Zenon DEF KI, EI, ER
<1>2. /\ "KEXINIT" \notin Others /\ "ECDH_INIT" \notin Others /\ "ECDH_REPLY" \notin Others
      /\ "KEXINIT" # "NEWKEYS" /\ "ECDH_INIT" # "NEWKEYS" /\ "ECDH_REPLY" # "NEWKEYS"
  BY DEF Others
<1>3. \A n, h : /\ KI(n).t \notin Others /\ EI(n).t \notin Others /\ ER(n, h).t \notin Others
                /\ KI(n).t # "NEWKEYS" /\ EI(n).t # "NEWKEYS" /\ ER(n, h).t # "NEWKEYS"
  BY <1>1, <1>2, Zenon
<1>4. ASSUME NEW a, NEW b, a.t \notin Others, a.t # "NEWKEYS", b.t \notin Others, b.t # "NEWKEYS"
      PROVE  Plain(<<>>) /\ Plain(<<a>>) /\ Plain(<<a, b>>)
  <2>1. DOMAIN <<>> = {} /\ DOMAIN <<a>> = {1} /\ DOMAIN <<a, b>> = {1, 2}
    OBVIOUS
  <2>2. <<a>>[1] = a /\ <<a, b>>[1] = a /\ <<a, b>>[2] = b
    OBVIOUS
  <2> QED  BY <1>4, <2>1, <2>2, Zenon DEF Plain
<1>5. Turning(<<NK>>) /\ \A n, h : Turning(<<ER(n, h), NK>>)
  <2>1. ASSUME NEW a, a.t \notin Others, a.t # "NEWKEYS" PROVE Turning(<<a, NK>>)
    <3> HIDE DEF NK
    <3> QED  BY <2>1, Zenon DEF Turning
  <2>2. \A n, h : Turning(<<ER(n, h), NK>>)
    BY <1>3, <2>1, Zenon
  <2>3. Turning(<<NK>>)
    BY Zenon DEF Turning
  <2> QED  BY <2>2, <2>3
<1>6. ASSUME NEW n, NEW k
      PROVE  Plain(<<>>) /\ Plain(<<KI(n)>>) /\ Plain(<<EI(k)>>) /\ Plain(<<KI(n), EI(k)>>)
  <2>1. Plain(<<>>) /\ Plain(<<KI(n)>>) /\ Plain(<<KI(n), EI(k)>>)
    BY <1>3, <1>4
  <2>2. Plain(<<EI(k)>>)
    BY <1>3, <1>4
  <2> QED  BY <2>1, <2>2
<1> QED  BY <1>5, <1>6

\* What a handler writes and reads.
LEMMA TookWrote ==
    ASSUME NEW s \in Sides, NEW x, NEW y, NEW z, NEW x1, NEW m, NEW msgs, NEW q, NEW r,
           Advanced(x, x1), Took(s, x1, m, z, msgs), x.end = "no", x.stash.beats \in Nat,
           x.wseq \in Nat, x.rseq \in Nat, Chosen("client")[1] = Chosen("server")[1], Ready(x),
           m.t \notin Others => NextRead(s, x, y, q, r) /\ m = Head(r)
    PROVE  Wrote(x, y, z, q, msgs) /\ (z.end = "no" => Ready(z) /\ Read(x, y, z, m))
<1>1. /\ x1.phase = x.phase /\ x1.wkey = x.wkey /\ x1.rkey = x.rkey /\ x1.newkeys = x.newkeys
      /\ x1.wseq = x.wseq /\ x1.rseq = x.rseq + 1 /\ x1.stash = x.stash /\ x1.end = "no"
  BY DEF Advanced, KeepsKeys, KeepsExchange, KeepsData
<1>2. x1.enc = x.enc /\ x1.strict = x.strict
  BY Zenon DEF Advanced, KeepsKeys
<1>3. \A t \in Sides : Chosen(t)[1].strict <=> Strict
  <2>1. \A t \in Sides : Chosen(t)[1] = Chosen("client")[1]
    BY DEF Sides
  <2> QED  BY <2>1, Zenon DEF Strict
<1>4. /\ "KEXINIT" # "NEWKEYS" /\ "ECDH_INIT" # "NEWKEYS" /\ "ECDH_REPLY" # "NEWKEYS"
      /\ "KEXINIT" # "ECDH_INIT" /\ "KEXINIT" # "ECDH_REPLY" /\ "ECDH_INIT" # "ECDH_REPLY"
      /\ "KEXINIT" \notin Others /\ "ECDH_INIT" \notin Others /\ "ECDH_REPLY" \notin Others
      /\ "NEWKEYS" \notin Others
  BY DEF Others
<1>5. CASE Died(x1, z, msgs)
  <2>1. msgs = <<>> /\ z.end # "no" /\ z.wkey = x.wkey /\ z.phase = x.phase
    BY <1>1, <1>5 DEF Died, KeepsKeys, KeepsExchange
  <2> QED  BY <2>1, Zenon DEF Wrote
<1>6. CASE TookKeys(s, x1, m, z, msgs)
  <2>1. /\ m.t = "NEWKEYS" /\ x.phase = "keys" /\ z.phase = "idle" /\ z.wkey = x.newkeys
        /\ z.rkey = x.newkeys /\ z.wseq = x.wseq + Len(msgs)
        /\ msgs = ExtInfo(s, x1) \o Answers(x1.stash)
    BY <1>1, <1>6 DEF TookKeys
  <2>2. z.enc /\ (z.strict <=> (x.enc /\ x.strict) \/ Chosen(s)[1].strict)
        /\ z.rseq = IF z.strict THEN 0 ELSE x1.rseq
    BY <1>2, <1>6, Zenon DEF TookKeys
  <2>3. z.strict <=> Strict
    BY <1>3, <2>2, Zenon DEF Ready
  <2>4. z.rseq = Restart(x1.rseq)
    BY <2>2, <2>3, Zenon DEF Restart
  <2>5. Aside(msgs)
    BY <1>1, <2>1, ReleasedFacts DEF Aside
  <2>6. Wrote(x, y, z, q, msgs)
    BY <2>1, <2>5, PhasesDiffer, Zenon DEF Wrote
  <2>7. Ready(z)
    BY <2>1, <2>3, PhasesDiffer, Zenon DEF Ready
  <2>8. x.newkeys = y.wkey \/ y.phase = "keys"
    BY <1>4, <2>1, Zenon DEF NextRead
  <2>9. Live(z)
    BY <2>1, <2>2, Zenon DEF Live
  <2>10. z.rseq = Restart(x.rseq + 1)
    BY <1>1, <2>4
  <2>11. Read(x, y, z, m)
    BY <2>1, <2>8, <2>9, <2>10, Zenon DEF Read
  <2> QED  BY <2>6, <2>7, <2>11
<1>7. CASE TookOther(x1, m, z, msgs)
  <2>1. /\ m.t \in Others /\ x.phase = "idle" /\ z.phase = "idle"
        /\ z.wkey = x.wkey /\ z.rkey = x.rkey /\ z.rseq = x.rseq + 1
        /\ z.wseq = x.wseq + Len(msgs) /\ msgs = Answers(PutAside(NothingAside, m))
    BY <1>1, <1>7 DEF TookOther, KeepsKeys, KeepsExchange
  <2>2. z.enc = x.enc /\ z.strict = x.strict /\ x.enc
    BY <1>2, <1>7, Zenon DEF TookOther, KeepsKeys
  <2>3. Aside(msgs)
    <3>1. PutAside(NothingAside, m).beats \in Nat
      BY AsideFacts
    <3>2. \A i \in DOMAIN msgs : msgs[i] = [t |-> "REQUEST_SUCCESS"]
      BY <2>1, <3>1, AnswersFacts
    <3> QED  BY <3>2 DEF Aside, Others
  <2>4. Wrote(x, y, z, q, msgs)
    BY <2>1, <2>3, PhasesDiffer, Zenon DEF Wrote
  <2>5. Ready(z)
    BY <2>1, <2>2, PhasesDiffer, Zenon DEF Ready
  <2>6. Live(z)
    BY <2>1, <2>2, Zenon DEF Live
  <2>7. m.t # "NEWKEYS"
    BY <1>4, <2>1, Zenon
  <2> QED  BY <2>1, <2>4, <2>5, <2>6, <2>7, Zenon DEF Read
<1>8. CASE KeptOther(x1, m, z, msgs)
  <2>1. /\ m.t \in Others /\ x.phase = "init" /\ z.phase = "init"
        /\ z.wkey = x.wkey /\ z.rkey = x.rkey /\ z.rseq = x.rseq + 1
        /\ z.wseq = x.wseq /\ msgs = <<>>
    BY <1>1, <1>8 DEF KeptOther, KeepsKeys, KeepsExchange
  <2>2. z.enc = x.enc /\ z.strict = x.strict /\ x.enc
    BY <1>2, <1>8, Zenon DEF KeptOther, KeepsKeys
  <2>3. Wrote(x, y, z, q, msgs)
    BY <2>1, PhasesDiffer, Zenon DEF Wrote
  <2>4. Ready(z)
    BY <2>1, <2>2, PhasesDiffer, Zenon DEF Ready
  <2>5. Live(z)
    BY <2>1, <2>2, Zenon DEF Live
  <2>6. m.t # "NEWKEYS"
    BY <1>4, <2>1, Zenon
  <2> QED  BY <2>1, <2>3, <2>4, <2>5, <2>6, Zenon DEF Read
<1>9. ASSUME m.t = "KEXINIT", x.phase \in {"init", "idle"}, Plain(msgs), z.phase \in {"dh", "dhdone"},
             z.wkey = x.wkey, z.rkey = x.rkey, z.wseq = x.wseq + Len(msgs), z.rseq = x.rseq + 1,
             z.strict => Strict, z.phase = "dh" => (z.strict <=> Strict)
      PROVE  Wrote(x, y, z, q, msgs) /\ (z.end = "no" => Ready(z) /\ Read(x, y, z, m))
  <2>1. ~HasNew(q)
    BY <1>4, <1>9, Zenon DEF NextRead
  <2>2. x.phase # "keys" /\ z.phase # "keys" /\ z.phase # "init"
    BY <1>9
  <2>3. Wrote(x, y, z, q, msgs)
    BY <1>9, <2>1, <2>2, Zenon DEF Wrote
  <2>4. Ready(z)
    BY <1>9, <2>2, Zenon DEF Ready
  <2>5. m.t # "NEWKEYS" /\ m.t \notin Others
    BY <1>4, <1>9, Zenon
  <2> QED  BY <1>9, <2>3, <2>4, <2>5, Zenon DEF Read
<1>10. CASE s = "client" /\ ClientTookInit(x1, m, z, msgs)
  <2>1. /\ m.t = "KEXINIT" /\ z.phase = "dhdone" /\ z.wkey = x.wkey /\ z.rkey = x.rkey
        /\ z.wseq = x.wseq + Len(msgs) /\ z.rseq = x.rseq + 1
        /\ x.phase = "init" \/ x.phase = "idle"
    BY <1>1, <1>10 DEF ClientTookInit, KeepsKeys
  <2>2. z.strict = x.strict
    BY <1>2, <1>10, Zenon DEF ClientTookInit
  <2>3. Plain(msgs)
    BY <1>10, PlainIn, Zenon DEF ClientTookInit
  <2>4. z.strict => Strict
    BY <2>2, Zenon DEF Ready
  <2>5. z.phase = "dh" => (z.strict <=> Strict)
    BY <2>1, PhasesDiffer, Zenon
  <2>6. z.phase \in {"dh", "dhdone"} /\ x.phase \in {"init", "idle"}
    BY <2>1
  <2> QED  BY <1>9, <2>1, <2>3, <2>4, <2>5, <2>6, Zenon
<1>11. CASE s = "server" /\ ServerTookInit(x1, m, z, msgs)
  <2>1. /\ m.t = "KEXINIT" /\ z.phase = "dh" /\ z.wkey = x.wkey /\ z.rkey = x.rkey
        /\ z.wseq = x.wseq + Len(msgs) /\ z.rseq = x.rseq + 1
        /\ x.phase = "init" \/ x.phase = "idle"
    BY <1>1, <1>11 DEF ServerTookInit, KeepsKeys
  <2>2. z.strict <=> (x.enc /\ x.strict) \/ Chosen("server")[1].strict
    BY <1>2, <1>11, Zenon DEF ServerTookInit
  <2>3. Plain(msgs)
    BY <1>11, PlainIn, Zenon DEF ServerTookInit
  <2>4. "server" \in Sides
    BY DEF Sides
  <2>5. z.strict <=> Strict
    BY <1>3, <2>2, <2>4, Zenon DEF Ready
  <2>6. z.phase \in {"dh", "dhdone"} /\ x.phase \in {"init", "idle"}
    BY <2>1
  <2> QED  BY <1>9, <2>1, <2>3, <2>5, <2>6, Zenon
<1>12. ASSUME m.t \in {"ECDH_INIT", "ECDH_REPLY"}, x.phase \in {"dh", "dhdone"}, Turning(msgs),
              z.phase = "keys", z.wkey = x.wkey, z.rkey = x.rkey, z.rseq = x.rseq + 1,
              z.wseq = IF z.strict THEN 0 ELSE x.wseq + Len(msgs), z.strict <=> Strict
       PROVE  Wrote(x, y, z, q, msgs) /\ (z.end = "no" => Ready(z) /\ Read(x, y, z, m))
  <2>1. m.t # "NEWKEYS" /\ m.t # "KEXINIT" /\ m.t \notin Others /\ x.phase # "keys"
    BY <1>12 DEF Others
  <2>2. ~HasNew(q) /\ ~Live(y)
    BY <2>1, Zenon DEF NextRead
  <2> DEFINE k == x.wseq + Len(msgs)
  <2>3. z.wseq = IF z.strict THEN 0 ELSE k
    BY <1>12, Zenon
  <2> HIDE DEF k
  <2>4. z.wseq = Restart(k)
    BY <1>12, <2>3, Zenon DEF Restart
  <2>5. Wrote(x, y, z, q, msgs)
    BY <1>12, <2>1, <2>2, <2>4, Zenon DEF Wrote, k
  <2>6. Ready(z)
    BY <1>12, PhasesDiffer, Zenon DEF Ready
  <2> QED  BY <1>12, <2>1, <2>5, <2>6, Zenon DEF Read
<1>13. CASE s = "server" /\ ServerTookEcdh(x1, m, z, msgs)
  <2>1. /\ m.t = "ECDH_INIT" /\ x.phase = "dh" /\ z.phase = "keys"
        /\ z.wkey = x.wkey /\ z.rkey = x.rkey /\ z.rseq = x.rseq + 1
    BY <1>1, <1>13 DEF ServerTookEcdh, Computed
  <2>2. z.strict = x.strict /\ z.wseq = IF x.strict THEN 0 ELSE x1.wseq + Len(msgs)
    BY <1>2, <1>13, Zenon DEF ServerTookEcdh
  <2>3. z.wseq = IF z.strict THEN 0 ELSE x.wseq + Len(msgs)
    BY <1>1, <2>2, Zenon
  <2>4. z.strict <=> Strict
    BY <2>1, <2>2, Zenon DEF Ready
  <2>5. Turning(msgs)
    BY <1>13, PlainIn, Zenon DEF ServerTookEcdh
  <2>6. m.t \in {"ECDH_INIT", "ECDH_REPLY"} /\ x.phase \in {"dh", "dhdone"}
    BY <2>1
  <2> QED  BY <1>12, <2>1, <2>3, <2>4, <2>5, <2>6, Zenon
<1>14. CASE s = "client" /\ ClientTookReply(x1, m, z, msgs)
  <2>1. /\ m.t = "ECDH_REPLY" /\ x.phase = "dhdone" /\ z.phase = "keys"
        /\ z.wkey = x.wkey /\ z.rkey = x.rkey /\ z.rseq = x.rseq + 1
    BY <1>1, <1>14 DEF ClientTookReply, Computed
  <2>2. (z.strict <=> x.strict \/ Chosen("client")[1].strict)
        /\ z.wseq = IF z.strict THEN 0 ELSE x1.wseq + Len(msgs)
    BY <1>2, <1>14, Zenon DEF ClientTookReply
  <2>3. z.wseq = IF z.strict THEN 0 ELSE x.wseq + Len(msgs)
    BY <1>1, <2>2, Zenon
  <2>4. "client" \in Sides
    BY DEF Sides
  <2>5. z.strict <=> Strict
    BY <1>3, <2>2, <2>4, Zenon DEF Ready
  <2>6. Turning(msgs)
    BY <1>14, PlainIn, Zenon DEF ClientTookReply
  <2>7. m.t \in {"ECDH_INIT", "ECDH_REPLY"} /\ x.phase \in {"dh", "dhdone"}
    BY <2>1
  <2> QED  BY <1>12, <2>1, <2>3, <2>5, <2>6, <2>7, Zenon
<1> QED  BY <1>5, <1>6, <1>7, <1>8, <1>10, <1>11, <1>13, <1>14, Zenon DEF Took

\* What a side writes of its own accord, unless it is a keepalive during a
\* re-exchange.
LEMMA DidWrote ==
    ASSUME NEW s, NEW x, NEW y, NEW z, NEW msgs, NEW q, Did(s, x, z, msgs), ~z.loud, Ready(x)
    PROVE  /\ Wrote(x, y, z, q, msgs)
           /\ Ready(z) \/ z.end # "no"
           /\ Died(x, z, msgs) \/ (z.end = x.end /\ z.rkey = x.rkey /\ z.rseq = x.rseq)
           /\ Live(x) => Live(z)
<1>1. CASE Died(x, z, msgs)
  <2>1. msgs = <<>> /\ z.end # "no" /\ z.wkey = x.wkey /\ z.phase = x.phase
    BY <1>1 DEF Died, KeepsKeys, KeepsExchange
  <2>2. z.enc = x.enc
    BY <1>1, Zenon DEF Died, KeepsKeys
  <2>3. Live(x) => Live(z)
    BY <2>1, <2>2, Zenon DEF Live
  <2> QED  BY <1>1, <2>1, <2>3, Zenon DEF Wrote
<1>2. ASSUME x.phase = "idle", x.enc, z.phase \in {"idle", "init"}, KeepsKeys(x, z),
             Plain(msgs) \/ Aside(msgs), z.end = x.end, z.strict = x.strict,
             z.rseq = x.rseq, z.wseq = x.wseq + Len(msgs)
      PROVE  /\ Wrote(x, y, z, q, msgs)
             /\ Ready(z) \/ z.end # "no"
             /\ Died(x, z, msgs) \/ (z.end = x.end /\ z.rkey = x.rkey /\ z.rseq = x.rseq)
             /\ Live(x) => Live(z)
  <2>1. z.wkey = x.wkey /\ z.rkey = x.rkey /\ z.enc = x.enc
    BY <1>2, Zenon DEF KeepsKeys
  <2>2. z.phase # "keys" /\ z.phase # "dh"
    BY <1>2
  <2>3. Wrote(x, y, z, q, msgs)
    BY <1>2, <2>1, <2>2, Zenon DEF Wrote
  <2>4. Ready(z)
    BY <1>2, <2>1, <2>2, Zenon DEF Ready
  <2>5. Live(z)
    BY <1>2, <2>1, Zenon DEF Live
  <2> QED  BY <1>2, <2>1, <2>3, <2>4, <2>5, Zenon
<1>3. ASSUME NEW a, msgs = <<a>>, a.t \in Others PROVE Aside(msgs)
  <2>1. DOMAIN <<a>> = {1} /\ <<a>>[1] = a
    OBVIOUS
  <2> QED  BY <1>3, <2>1, Zenon DEF Aside
<1>4. CASE Rekeyed(s, x, z, msgs)
  <2>1. Plain(msgs)
    BY <1>4, PlainIn, Zenon DEF Rekeyed
  <2>2. z.phase \in {"idle", "init"}
    BY <1>4 DEF Rekeyed
  <2> QED  BY <1>2, <1>4, <2>1, <2>2, Zenon DEF Rekeyed
<1>5. CASE SentData(x, z, msgs)
  <2> DEFINE a == [t |-> "DATA", n |-> x.sent + 1]
  <2>1. a.t \in Others
    BY DEF Others
  <2>2. Aside(msgs)
    <3>1. msgs = <<a>>
      BY <1>5, Zenon DEF SentData
    <3> HIDE DEF a
    <3> QED  BY <1>3, <2>1, <3>1
  <2>3. z.phase = x.phase /\ x.phase = "idle"
    BY <1>5, Zenon DEF SentData, KeepsExchange
  <2>4. z.phase \in {"idle", "init"}
    BY <2>3
  <2> QED  BY <1>2, <1>5, <2>2, <2>4, Zenon DEF SentData
<1>6. CASE Beat(x, z, msgs)
  <2> DEFINE a == [t |-> "KEEPALIVE"]
  <2>1. a.t \in Others
    BY DEF Others
  <2>2. Aside(msgs)
    <3>1. msgs = <<a>>
      BY <1>6, Zenon DEF Beat
    <3> HIDE DEF a
    <3> QED  BY <1>3, <2>1, <3>1
  <2>3. z.phase = x.phase /\ x.phase = "idle"
    BY <1>6, Zenon DEF Beat, KeepsExchange
  <2>4. z.phase \in {"idle", "init"}
    BY <2>3
  <2> QED  BY <1>2, <1>6, <2>2, <2>3, <2>4, Zenon DEF Beat
<1> QED  BY <1>1, <1>4, <1>5, <1>6 DEF Did

\* What is read next is expected.
LEMMA ExpectedNext ==
    ASSUME NEW s \in Sides, NEW x, NEW y, NEW x1, NEW m, NEW q, NEW r,
           Advanced(x, x1), x.rseq \in Nat, Chosen("client")[1] = Chosen("server")[1], Ready(x), BothOk,
           WhileIdle(x, y, q), m.t \in Others => Live(x),
           m.t \notin Others => NextRead(s, x, y, q, r) /\ m = Head(r)
    PROVE  Expected(s, x1, m)
<1>1. x1.phase = x.phase /\ x1.rseq = x.rseq + 1 /\ x1.ex = x.ex
  BY DEF Advanced, KeepsExchange
<1>2. x1.enc = x.enc /\ x1.strict = x.strict
  BY Zenon DEF Advanced, KeepsKeys
<1>3. \A t \in Sides : Chosen(t)[1] = Chosen("client")[1]
  BY DEF Sides
<1>4. Chosen(s)[1].strict <=> Strict
  BY <1>3, Zenon DEF Strict
<1>5. CASE m.t \in Others
  <2>1. Live(x1)
    BY <1>1, <1>2, <1>5, Zenon DEF Live
  <2> QED  BY <1>5, <2>1, Zenon DEF Expected
<1>6. CASE m.t = "KEXINIT" /\ x.phase \in {"init", "idle"}
  <2>1. x1.strict => Chosen(s)[1].strict
    BY <1>2, <1>4, Zenon DEF Ready
  <2>2. x.enc \/ x.phase = "init"
    BY <1>6, PhasesDiffer, Zenon DEF WhileIdle
  <2>3. x.enc \/ x.rseq = 0
    BY <2>2, Zenon DEF Ready
  <2>4. x.rseq = 0 => x1.rseq = 1
    BY <1>1
  <2>5. ~StrictViolated(x1, Chosen(s)[1])
    BY <1>2, <2>3, <2>4, Zenon DEF StrictViolated
  <2>6. Ok(s)
    BY DEF BothOk, Sides
  <2>7. x1.phase \in {"init", "idle"}
    BY <1>1, <1>6
  <2> QED  BY <1>6, <2>1, <2>5, <2>6, <2>7, Zenon DEF Expected
<1>7. CASE m.t = "ECDH_INIT" /\ s = "server" /\ x.phase = "dh"
  BY <1>1, <1>7, Zenon DEF Expected
<1>8. CASE m.t = "NEWKEYS" /\ x.phase = "keys"
  BY <1>1, <1>8, Zenon DEF Expected
<1>9. CASE /\ m.t = "ECDH_REPLY" /\ s = "client" /\ x.phase = "dhdone"
           /\ m = ER(y.inits, HashOf(x, y))
           /\ x.ex = Exchange(<<x.inits>>, <<y.inits>>, <<x.inits>>, <<>>)
  <2>1. m.e = y.inits /\ m.hash = HashOf(x, y)
    BY <1>9, Zenon DEF ER
  <2>2. x.ex.ck = <<x.inits>> /\ x.ex.sk = <<y.inits>> /\ x.ex.ce = <<x.inits>> /\ x.ex.se = <<>>
    <3> DEFINE a == <<x.inits>>
               b == <<y.inits>>
               e == <<>>
    <3>1. x.ex = Exchange(a, b, a, e)
      BY <1>9
    <3> HIDE DEF a, b, e
    <3>2. x.ex.ck = a /\ x.ex.sk = b /\ x.ex.ce = a /\ x.ex.se = e
      BY <3>1, ExchangeFacts
    <3> QED  BY <3>2 DEF a, b, e
  <2>3. Append(x.ex.se, m.e) = <<y.inits>>
    BY <2>1, <2>2, Tuples
  <2>4. Chosen("server")[1].kex = Chosen(s)[1].kex
    BY <1>9
  <2>5. m.hash = <<x1.ex.ck, x1.ex.sk, x1.ex.ce, Append(x1.ex.se, m.e), Chosen(s)[1].kex>>
    BY <1>1, <2>1, <2>2, <2>3, <2>4, Zenon DEF HashOf
  <2> QED  BY <1>1, <1>9, <2>5, Zenon DEF Expected
<1> QED  BY <1>5, <1>6, <1>7, <1>8, <1>9, Zenon DEF NextRead

-----------------------------------------------------------------------------
\* The two sides stand, and stay so until one has nothing to put a packet
\* aside with and the other finds it gone.

Stands(x, y, w) ==
    /\ x.end = "no" \/ Overflowed(x)
    /\ x.end = "no" => Ready(x)
    /\ y.end = "no" => Wired(x, y, w)
Standing(s) == Stands(ses[s], ses[Peer(s)], wire[s])
Left(s) == ses[s].end = "eof" /\ Overflowed(ses[Peer(s)])

Surviving ==
    Compatible /\ Quiet => (\E s \in Sides : Left(s)) \/ (\A s \in Sides : Standing(s))

\* The choices are fixed, so that a side that stands does in the next state.
LEMMA StandsPrimed ==
    ASSUME prefs' = prefs, NEW t \in Sides, NEW x, NEW y, NEW w,
           ses'[t] = x, ses'[Peer(t)] = y, wire'[t] = w, Stands(x, y, w)
    PROVE  Standing(t)'
<1> DEFINE X == ses[t]
           Y == ses[Peer(t)]
           W == wire[t]
<1>1. X' = x /\ Y' = y /\ W' = w
  OBVIOUS
<1>2. Strict' <=> Strict
  <2>1. Chosen("client")' = Chosen("client")
    BY DEF Chosen
  <2> QED  BY <2>1, Zenon DEF Strict
<1>3. \A n : Restart(n)' = Restart(n)
  BY <1>2, Zenon DEF Restart
<1> HIDE DEF X, Y, W
<1>4. Ready(x) => Ready(X)'
  BY <1>1, <1>2, Zenon DEF Ready
<1>5. Live(y) => Live(Y)'
  BY <1>1, Zenon DEF Live
<1>6. /\ NoNew(w) => NoNew(W)'
      /\ NoOther(w) => NoOther(W)'
      /\ OthersFirst(w) => OthersFirst(W)'
      /\ Sealed(w, y.rkey, y.rseq) => Sealed(W, Y.rkey, Y.rseq)'
  BY <1>1, Zenon DEF NoNew, NoOther, OthersFirst, Sealed
<1>7. Straight(x, y, w) => Straight(X, Y, W)'
  BY <1>1, <1>5, <1>6, Zenon DEF Straight
<1>8. ASSUME NEW a, NEW b, Turned(x, y, a, b) PROVE Turned(X, Y, a, b)'
  <2>1. Restart(y.rseq + Len(a)) = Restart(Y.rseq + Len(a))'
    BY <1>1, <1>2, Zenon DEF Restart
  <2>2. /\ Sealed(a, y.rkey, y.rseq) => Sealed(a, Y.rkey, Y.rseq)'
        /\ Sealed(b, x.wkey, Restart(y.rseq + Len(a)))
              => Sealed(b, X.wkey, Restart(Y.rseq + Len(a)))'
    BY <1>1, <2>1, Zenon DEF Sealed
  <2> QED  BY <1>1, <1>8, <2>1, <2>2, Zenon DEF Turned
<1>9. Wired(x, y, w) => Wired(X, Y, W)'
  BY <1>1, <1>7, <1>8, Zenon DEF Wired
<1>10. Overflowed(x) => Overflowed(X)'
  BY <1>1, Zenon DEF Overflowed
<1>11. Stands(X, Y, W)'
  BY <1>1, <1>4, <1>9, <1>10, Zenon DEF Stands
<1> QED  BY <1>11, Zenon DEF Standing, X, Y, W

LEMMA SurvivingInit ==
    ASSUME Init
    PROVE  Surviving
<1> SUFFICES ASSUME NEW s \in Sides PROVE Standing(s)
  BY DEF Surviving
<1>1. Begun(s, ses[s]) /\ Begun(Peer(s), ses[Peer(s)]) /\ wire[s] = Packets(Clear, 0, <<KI(1)>>)
  BY InitFacts, PeerFacts
<1> DEFINE x == ses[s]
           y == ses[Peer(s)]
           k == KI(1)
           w == Packets(Clear, 0, <<k>>)
<1>2. /\ x.end = "no" /\ x.phase = "init" /\ x.wseq = 1 /\ x.rseq = 0
      /\ y.rkey = Clear /\ y.rseq = 0 /\ y.end = "no"
  BY <1>1 DEF Begun
<1>3. ~x.strict
  BY <1>1, Zenon DEF Begun
<1>4. Plain(<<k>>)
  BY PlainIn, Zenon
<1> HIDE DEF k
<1>5. IsSeq(<<k>>) /\ Len(<<k>>) = 1
  BY SeqMake
<1>6. NoNew(w) /\ NoOther(w) /\ OthersFirst(w)
  BY <1>4, <1>5, PacketKinds
<1>7. Len(w) = 1 /\ \A i \in DOMAIN w : w[i].key = Clear /\ w[i].seq = 0 + i - 1
  <2> DEFINE a == <<k>>
             o == Packets(Clear, 0, a)
  <2>1. IsSeq(a) /\ Len(a) = 1
    BY <1>5
  <2> HIDE DEF a
  <2>2. /\ Len(o) = Len(a) /\ DOMAIN o = DOMAIN a
        /\ \A i \in DOMAIN a : o[i].key = Clear /\ o[i].seq = 0 + i - 1
    BY <2>1, PacketFacts
  <2>3. w = o
    BY DEF a
  <2> HIDE DEF o
  <2> QED  BY <2>1, <2>2, <2>3
<1> HIDE DEF w
<1>8. Sealed(w, y.rkey, y.rseq)
  BY <1>2, <1>7 DEF Sealed
<1>9. x.wseq = y.rseq + Len(w)
  BY <1>2, <1>7
<1>10. Wired(x, y, w)
  BY <1>6, <1>8, <1>9, Zenon DEF Wired, Straight
<1>11. Ready(x)
  BY <1>2, <1>3, PhasesDiffer, Zenon DEF Ready
<1>12. wire[s] = w
  BY <1>1 DEF w, k
<1> QED  BY <1>2, <1>10, <1>11, <1>12, Zenon DEF Standing, Stands

\* A side is loud for ever.
LEMMA LoudKept ==
    ASSUME NEW s, NEW z, NEW msgs, NEW w, Steps(s, z, msgs, w), ~z.loud
    PROVE  ~ses[s].loud
<1>1. CASE OwnStep(s, z, msgs)
  BY <1>1, Zenon DEF OwnStep, Did, Rekeyed, SentData, Beat, Died
<1>2. CASE ReadStep(s, z, msgs)
  <2>1. PICK x, m : Advanced(ses[s], x) /\ Took(s, x, m, z, msgs)
    BY <1>2 DEF ReadStep
  <2>2. x.loud = ses[s].loud
    BY <2>1, Zenon DEF Advanced
  <2>3. z.loud = x.loud
    BY <2>1, Zenon DEF Took, Died, TookKeys, TookOther, KeptOther, ClientTookInit,
       ServerTookInit, ServerTookEcdh, ClientTookReply, Computed
  <2> QED  BY <2>2, <2>3, Zenon
<1> QED  BY <1>1, <1>2 DEF Steps

\* What the row says of either side.
LEMMA RowSides ==
    ASSUME NEW s \in Sides, NEW x, NEW y, NEW q, NEW r, RowOf(s, x, y, q, r)
    PROVE  /\ WhileIdle(x, y, q) /\ WhileKeys(x, y, q) /\ SealsFor(x, y, q)
           /\ r # <<>> => NextRead(s, x, y, q, r)
<1>1. CASE s = "client"
  BY <1>1, RowWriting, RowReading DEF RowOf
<1>2. CASE s = "server"
  BY <1>2, RowWriting, RowReading DEF RowOf
<1> QED  BY <1>1, <1>2 DEF Sides

\* A step of side s, both sides standing.
LEMMA StandingKept ==
    ASSUME Typed, Joint, Compatible, \A t \in Sides : Standing(t),
           NEW s \in Sides, NEW z, NEW msgs, NEW w, Steps(s, z, msgs, w), ~z.loud,
           \/ Receive(s) /\ ReadStep(s, z, msgs) /\ w = Tail(wire[Peer(s)])
           \/ OwnStep(s, z, msgs) /\ w = wire[Peer(s)] /\ (z.end = "no" \/ Eof(s))
    PROVE  Left(s)' \/ \A t \in Sides : Standing(t)'
<1> DEFINE p == Peer(s)
           x == ses[s]
           y == ses[p]
           v == wire[s]
           u == wire[p]
<1>1. p \in Sides /\ p # s /\ Peer(p) = s /\ \A t \in Sides : t = s \/ t = p
  BY DEF Sides, Peer
<1>2. /\ ses'[s] = z /\ ses'[p] = y /\ wire'[s] = Written(s, z, msgs) /\ wire'[p] = w
      /\ prefs' = prefs
  BY TypedKept
<1>3. Stands(x, y, v) /\ Stands(y, x, u)
  BY <1>1 DEF Standing
<1>4. /\ x.end = "no" /\ IsSeq(msgs) /\ IsSeq(v) /\ IsSeq(u) /\ x.stash.beats \in Nat
      /\ x.wseq \in Nat /\ x.rseq \in Nat /\ (y.end = "no" => y.rseq \in Nat)
  BY <1>1 DEF Steps, Stepped, Typed, Shaped, Counted
<1>5. Keyed(y) /\ BothOk /\ Chosen("client")[1] = Chosen("server")[1]
  BY <1>1, CompatibleOk DEF Joint, Sides
<1>6. PICK q, r : /\ RowOf(s, x, y, q, r)
                  /\ y.end = "no" => Marks(v, q)
                  /\ x.end = "no" => Marks(u, r)
  BY JointFor
<1>7. /\ WhileIdle(x, y, q) /\ WhileKeys(x, y, q) /\ SealsFor(x, y, q)
      /\ r # <<>> => NextRead(s, x, y, q, r)
  BY <1>6, RowSides
<1>8. Ready(x) /\ Wired(y, x, u) /\ (y.end = "no" => Wired(x, y, v))
  BY <1>3, <1>4 DEF Stands
<1>9. ASSUME Wrote(x, y, z, q, msgs), z.end = "no" \/ Overflowed(z), z.end = "no" => Ready(z),
             z.end = "no" => Wired(y, z, w)
      PROVE  \A t \in Sides : Standing(t)'
  <2> DEFINE W == Written(s, z, msgs)
  <2>1. y.end = "no" => Wired(z, y, W)
    <3> SUFFICES ASSUME y.end = "no" PROVE Wired(z, y, W)
      OBVIOUS
    <3>1. Wired(x, y, v) /\ Marks(v, q) /\ y.rseq \in Nat
      BY <1>4, <1>6, <1>8
    <3>2. Wired(z, y, v \o Packets(z.wkey, x.wseq, msgs))
      <4> HIDE DEF x, y, v
      <4> QED  BY <1>4, <1>5, <1>7, <1>9, <3>1, WroteWired
    <3> QED  BY <3>2 DEF Written
  <2> HIDE DEF W
  <2>2. Stands(z, y, W)
    BY <1>9, <2>1 DEF Stands
  <2>3. Stands(y, z, w)
    BY <1>3, <1>9 DEF Stands
  <2>4. wire'[s] = W
    BY <1>2 DEF W
  <2> HIDE DEF y
  <2>5. Standing(s)'
    BY <1>2, <2>2, <2>4, StandsPrimed
  <2>6. Standing(p)'
    BY <1>1, <1>2, <2>3, StandsPrimed
  <2> QED  BY <1>1, <2>5, <2>6, Zenon
<1>10. CASE Receive(s) /\ ReadStep(s, z, msgs) /\ w = Tail(u)
  <2> DEFINE m == Head(u).msg
  <2>1. u # <<>>
    BY <1>10 DEF ReadStep
  <2>2. PICK x1 : Advanced(x, x1) /\ Took(s, x1, m, z, msgs)
    BY <1>10 DEF ReadStep
  <2>3. m.t \notin Others => r # <<>> /\ m = Head(r)
    BY <1>4, <1>6, <2>1, MarksTail
  <2>4. Opens(x, Head(u)) /\ (m.t \in Others => Live(x))
    BY <1>4, <1>8, <2>1, WiredOpens DEF Opens
  <2>5. ASSUME NEW k, Advanced(x, k) PROVE Expected(s, k, m)
    <3> HIDE DEF x, y, m
    <3> QED  BY <1>4, <1>5, <1>7, <1>8, <2>3, <2>4, <2>5, ExpectedNext
  <2>6. z.end = "no" \/ Overflowed(z)
    BY <1>2, <1>10, <2>4, <2>5, ReceiveSurvives DEF Typed
  <2>7. Wrote(x, y, z, q, msgs) /\ (z.end = "no" => Ready(z) /\ Read(x, y, z, m))
    <3> HIDE DEF x, y, m
    <3> QED  BY <1>4, <1>5, <1>7, <1>8, <2>2, <2>3, TookWrote
  <2>8. z.end = "no" => Wired(y, z, Tail(u))
    BY <1>4, <1>8, <2>1, <2>7, ReadWired
  <2> QED  BY <1>9, <1>10, <2>6, <2>7, <2>8
<1>11. CASE OwnStep(s, z, msgs) /\ w = u /\ z.end = "no"
  <2>1. Did(s, x, z, msgs)
    BY <1>11 DEF OwnStep
  <2>2. ~Died(x, z, msgs)
    BY <1>11 DEF Died
  <2>3. /\ Wrote(x, y, z, q, msgs) /\ Ready(z) /\ z.rkey = x.rkey /\ z.rseq = x.rseq
        /\ Live(x) => Live(z)
    BY <1>8, <1>11, <2>1, <2>2, DidWrote
  <2>4. Wired(y, z, u)
    BY <1>8, <2>3, WiredReader
  <2> QED  BY <1>9, <1>11, <2>3, <2>4
<1>12. CASE Eof(s)
  <2>1. y.end # "no"
    BY <1>12 DEF Eof
  <2>2. Overflowed(y)
    BY <1>3, <2>1 DEF Stands
  <2>3. ses'[s].end = "eof"
    <3>1. ses' = [ses EXCEPT ![s].end = "eof"]
      BY <1>12, Zenon DEF Eof
    <3>2. ses'[s] = [x EXCEPT !.end = "eof"] /\ IsSession(x)
      BY <3>1 DEF Typed, Shaped
    <3> QED  BY <3>2, Zenon DEF IsSession
  <2>4. Overflowed(ses'[p])
    BY <1>2, <2>2
  <2> QED  BY <2>3, <2>4 DEF Left, Overflowed
<1> QED  BY <1>10, <1>11, <1>12

LEMMA SurvivingNext ==
    ASSUME Typed, Joint, Surviving, [Next]_vars
    PROVE  Surviving'
<1> SUFFICES ASSUME Compatible', Quiet'
             PROVE  (\E s \in Sides : Left(s)') \/ (\A s \in Sides : Standing(s)')
  BY Zenon DEF Surviving
<1>1. CASE Next
  <2>1. PICK s \in Sides : Receive(s) \/ Eof(s) \/ StartRekey(s) \/ SendData(s) \/ SendKeepalive(s)
    BY <1>1 DEF Next
  <2>2. PICK z, msgs, w :
           /\ Steps(s, z, msgs, w)
           /\ \/ Receive(s) /\ ReadStep(s, z, msgs) /\ w = Tail(wire[Peer(s)])
              \/ /\ OwnStep(s, z, msgs) /\ w = wire[Peer(s)]
                 /\ z.end = "no" \/ Eof(s)
    BY <2>1, SideSteps
  <2>3. ses'[s] = z /\ ses'[Peer(s)] = ses[Peer(s)] /\ prefs' = prefs
    BY <2>2, TypedKept
  <2>4. ~z.loud /\ ~ses[Peer(s)].loud
    BY <2>3, PeerFacts, Zenon DEF Quiet
  <2>5. ~ses[s].loud
    BY <2>2, <2>4, LoudKept
  <2>6. \A t \in Sides : t = s \/ t = Peer(s)
    BY DEF Sides, Peer
  <2>7. Compatible /\ Quiet
    BY <2>3, <2>4, <2>5, <2>6, Zenon DEF Compatible, Quiet
  <2>8. ~\E t \in Sides : Left(t)
    <3>1. ses[s].end = "no"
      BY <2>2 DEF Steps, Stepped
    <3> QED  BY <2>6, <3>1, PeerFacts DEF Left, Overflowed
  <2>9. \A t \in Sides : Standing(t)
    BY <2>7, <2>8 DEF Surviving
  <2>10. Left(s)' \/ \A t \in Sides : Standing(t)'
    BY <2>2, <2>4, <2>7, <2>9, StandingKept
  <2> QED  BY <2>10
<1>2. CASE UNCHANGED vars
  <2>1. ses' = ses /\ wire' = wire /\ prefs' = prefs
    BY <1>2 DEF vars
  <2>2. Compatible /\ Quiet
    BY <2>1, Zenon DEF Compatible, Quiet
  <2>3. ASSUME NEW t \in Sides, Left(t) PROVE Left(t)'
    BY <2>1, <2>3, Zenon DEF Left, Overflowed
  <2>4. ASSUME NEW t \in Sides, Standing(t) PROVE Standing(t)'
    <3>1. PICK x, y, w : x = ses[t] /\ y = ses[Peer(t)] /\ w = wire[t]
      OBVIOUS
    <3>2. Stands(x, y, w)
      BY <2>4, <3>1, Zenon DEF Standing
    <3> QED  BY <2>1, <3>1, <3>2, StandsPrimed
  <2> QED  BY <2>2, <2>3, <2>4, Zenon DEF Surviving
<1> QED  BY <1>1, <1>2

\* Two sessions that have algorithms in common do not end each other,
\* whatever re-exchanges are started and whatever data crosses them: neither
\* meets a packet it cannot open or does not expect, unless a keepalive was
\* written during a re-exchange or pending_reads is full.
THEOREM TheSessionsSurvive == Spec => []SessionsSurvive
<1>1. Init => Typed /\ Joint /\ Surviving
  BY JointInit, SurvivingInit
<1>2. Typed /\ Joint /\ Surviving /\ [Next]_vars => (Typed /\ Joint /\ Surviving)'
  BY JointNext, SurvivingNext
<1>3. Surviving => SessionsSurvive
  <2> SUFFICES ASSUME Surviving, Compatible, Quiet, NEW s \in Sides
               PROVE  \/ ses[s].end = "no"
                      \/ Overflowed(ses[s])
                      \/ ses[s].end = "eof" /\ Overflowed(ses[Peer(s)])
    BY DEF SessionsSurvive
  <2>1. CASE \E t \in Sides : Left(t)
    <3>1. PICK t \in Sides : Left(t)
      BY <2>1
    <3>2. s = t \/ s = Peer(t)
      BY DEF Sides, Peer
    <3> QED  BY <3>1, <3>2 DEF Left
  <2>2. CASE \A t \in Sides : Standing(t)
    BY <2>2 DEF Standing, Stands
  <2> QED  BY <2>1, <2>2 DEF Surviving
<1> QED  BY <1>1, <1>2, <1>3, PTL DEF Spec
=============================================================================
