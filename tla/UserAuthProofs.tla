--------------------------- MODULE UserAuthProofs ---------------------------
(***************************************************************************)
(* Theorems about UserAuth, for all plans and all handlers of the server.  *)
(*                                                                         *)
(* At any time at most one message that belongs to an attempt is under way *)
(* in the four queues: the invariant says where it is (Held), and what     *)
(* that means for the application, the client and the server (Fits).  A    *)
(* step takes the message from its place, or finds there something that    *)
(* belongs to no attempt, and puts down at most one other.                 *)
(***************************************************************************)
EXTENDS UserAuth, TLAPS, SequenceTheorems

-----------------------------------------------------------------------------
\* Queues, whatever they hold.

IsSeq(v) == \E S : v \in Seq(S)

\* What belongs to no attempt.
Asides == {"EXT_INFO", "BANNER"}

\* A queue holds nothing of an attempt, or one message of it, m.
Silent(q) == \A i \in DOMAIN q : q[i].t \in Asides
Bears(q, m) ==
    /\ m.t \notin Asides
    /\ \E k \in DOMAIN q : q[k] = m /\ \A i \in DOMAIN q : i # k => q[i].t \in Asides

\* A BANNER follows the acceptance of the service.
Greeted(q) ==
    \A i \in DOMAIN q :
        q[i].t = "BANNER" => \E j \in DOMAIN q : j < i /\ q[j].t = "SERVICE_ACCEPT"

\* What tuples are.
LEMMA SeqMake ==
    ASSUME NEW a, NEW b
    PROVE  IsSeq(<<>>) /\ IsSeq(<<a>>) /\ IsSeq(<<a, b>>)
<1>1. <<>> \in Seq({a, b}) /\ <<a>> \in Seq({a, b}) /\ <<a, b>> \in Seq({a, b})
  OBVIOUS
<1> QED  BY <1>1, Zenon DEF IsSeq

\* What \o is made of.
LEMMA SeqJoin ==
    ASSUME NEW v, NEW w, IsSeq(v), IsSeq(w)
    PROVE  /\ IsSeq(v \o w) /\ Len(v \o w) = Len(v) + Len(w)
           /\ Len(v) \in Nat /\ Len(w) \in Nat
           /\ DOMAIN v = 1 .. Len(v) /\ DOMAIN w = 1 .. Len(w)
           /\ DOMAIN (v \o w) = 1 .. Len(v \o w)
           /\ \A i \in DOMAIN v : (v \o w)[i] = v[i]
           /\ \A i \in DOMAIN w : (v \o w)[Len(v) + i] = w[i]
<1>1. PICK S : v \in Seq(S)
  BY DEF IsSeq
<1>2. PICK T : w \in Seq(T)
  BY DEF IsSeq
<1>3. v \in Seq(S \cup T) /\ w \in Seq(S \cup T)
  BY <1>1, <1>2
<1>4. v \o w \in Seq(S \cup T)
  BY <1>3
<1> QED  BY <1>3, <1>4 DEF IsSeq

\* Append is \o with one.
LEMMA SeqAppend ==
    ASSUME NEW v, NEW e, IsSeq(v)
    PROVE  Append(v, e) = v \o <<e>>
<1>1. PICK S : v \in Seq(S)
  BY DEF IsSeq
<1>2. v \in Seq(S \cup {e})
  BY <1>1
<1> QED  BY <1>2

\* What Tail leaves.
LEMMA SeqTail ==
    ASSUME NEW w, IsSeq(w), w # <<>>
    PROVE  /\ IsSeq(Tail(w)) /\ Len(w) \in Nat \ {0} /\ Len(Tail(w)) = Len(w) - 1
           /\ DOMAIN w = 1 .. Len(w) /\ DOMAIN Tail(w) = 1 .. Len(Tail(w))
           /\ Head(w) = w[1]
           /\ \A i \in DOMAIN Tail(w) : Tail(w)[i] = w[i + 1]
<1>1. PICK S : w \in Seq(S)
  BY DEF IsSeq
<1>2. Tail(w) \in Seq(S)
  BY <1>1
<1> QED  BY <1>1, <1>2 DEF IsSeq

\* What lies in what is written.
LEMMA WrittenFacts ==
    ASSUME NEW m, NEW b
    PROVE  /\ Silent(<<>>)
           /\ m.t \notin Asides => Bears(<<m>>, m)
           /\ m.t \notin Asides /\ b.t \in Asides => Bears(<<m, b>>, m)
           /\ m.t # "BANNER" => Greeted(<<m>>)
           /\ m.t = "SERVICE_ACCEPT" => Greeted(<<m, b>>)
<1>1. DOMAIN <<>> = {} /\ DOMAIN <<m>> = {1} /\ DOMAIN <<m, b>> = {1, 2}
      /\ <<m>>[1] = m /\ <<m, b>>[1] = m /\ <<m, b>>[2] = b
  OBVIOUS
<1>2. Silent(<<>>)
  BY <1>1 DEF Silent
<1> DEFINE v == <<m>>
           w == <<m, b>>
<1>3. DOMAIN v = {1} /\ DOMAIN w = {1, 2} /\ v[1] = m /\ w[1] = m /\ w[2] = b
  BY <1>1
<1> HIDE DEF v, w
<1>4. m.t \notin Asides => Bears(v, m)
  BY <1>3 DEF Bears
<1>5. m.t \notin Asides /\ b.t \in Asides => Bears(w, m)
  BY <1>3 DEF Bears
<1>6. m.t # "BANNER" => Greeted(v)
  BY <1>3 DEF Greeted
<1>7. m.t = "SERVICE_ACCEPT" => Greeted(w)
  BY <1>3 DEF Greeted
<1> QED  BY <1>2, <1>4, <1>5, <1>6, <1>7 DEF v, w

\* Two queues, one after the other.
LEMMA JoinFacts ==
    ASSUME NEW q, NEW o, IsSeq(q), IsSeq(o), NEW m
    PROVE  /\ IsSeq(q \o o)
           /\ Silent(q) /\ Silent(o) => Silent(q \o o)
           /\ Silent(q) /\ Bears(o, m) => Bears(q \o o, m)
           /\ Bears(q, m) /\ Silent(o) => Bears(q \o o, m)
           /\ Greeted(q) /\ Greeted(o) => Greeted(q \o o)
<1> DEFINE v == q \o o
           N == Len(q)
           K == Len(o)
<1>1. /\ IsSeq(v) /\ N \in Nat /\ K \in Nat /\ DOMAIN q = 1 .. N /\ DOMAIN o = 1 .. K
      /\ DOMAIN v = 1 .. N + K
      /\ \A i \in DOMAIN q : v[i] = q[i]
      /\ \A i \in DOMAIN o : v[N + i] = o[i]
  BY SeqJoin
<1> HIDE DEF v, N, K
<1>2. ASSUME NEW i \in DOMAIN v
      PROVE  \/ i \in DOMAIN q /\ v[i] = q[i]
             \/ i - N \in DOMAIN o /\ i > N /\ v[i] = o[i - N]
  BY <1>1
<1>3. Silent(q) /\ Silent(o) => Silent(v)
  BY <1>2 DEF Silent
<1>4. ASSUME Silent(q), Bears(o, m) PROVE Bears(v, m)
  <2>1. PICK k \in DOMAIN o : o[k] = m /\ \A i \in DOMAIN o : i # k => o[i].t \in Asides
    BY <1>4 DEF Bears
  <2>2. N + k \in DOMAIN v /\ v[N + k] = m
    BY <1>1, <2>1
  <2>3. ASSUME NEW i \in DOMAIN v, i # N + k PROVE v[i].t \in Asides
    <3>1. CASE i \in DOMAIN q /\ v[i] = q[i]
      BY <1>4, <3>1 DEF Silent
    <3>2. CASE i - N \in DOMAIN o /\ i > N /\ v[i] = o[i - N]
      <4>1. i - N # k
        BY <1>1, <2>1, <2>3
      <4> QED  BY <2>1, <3>2, <4>1
    <3> QED  BY <1>2, <3>1, <3>2
  <2> QED  BY <1>4, <2>2, <2>3 DEF Bears
<1>5. ASSUME Bears(q, m), Silent(o) PROVE Bears(v, m)
  <2>1. PICK k \in DOMAIN q : q[k] = m /\ \A i \in DOMAIN q : i # k => q[i].t \in Asides
    BY <1>5 DEF Bears
  <2>2. k \in DOMAIN v /\ v[k] = m
    BY <1>1, <2>1
  <2>3. ASSUME NEW i \in DOMAIN v, i # k PROVE v[i].t \in Asides
    BY <1>2, <1>5, <2>1, <2>3 DEF Silent
  <2> QED  BY <1>5, <2>2, <2>3 DEF Bears
<1>6. ASSUME Greeted(q), Greeted(o) PROVE Greeted(v)
  <2> SUFFICES ASSUME NEW i \in DOMAIN v, v[i].t = "BANNER"
               PROVE  \E j \in DOMAIN v : j < i /\ v[j].t = "SERVICE_ACCEPT"
    BY DEF Greeted
  <2>1. CASE i \in DOMAIN q /\ v[i] = q[i]
    <3>1. PICK j \in DOMAIN q : j < i /\ q[j].t = "SERVICE_ACCEPT"
      BY <1>6, <2>1 DEF Greeted
    <3>2. j \in DOMAIN v /\ v[j] = q[j]
      BY <1>1
    <3> QED  BY <3>1, <3>2
  <2>2. CASE i - N \in DOMAIN o /\ i > N /\ v[i] = o[i - N]
    <3>1. PICK j \in DOMAIN o : j < i - N /\ o[j].t = "SERVICE_ACCEPT"
      BY <1>6, <2>2 DEF Greeted
    <3>2. N + j \in DOMAIN v /\ v[N + j] = o[j] /\ N + j < i
      BY <1>1, <3>1
    <3> QED  BY <3>1, <3>2
  <2> QED  BY <1>2, <2>1, <2>2
<1> QED  BY <1>1, <1>3, <1>4, <1>5, <1>6 DEF v

\* A queue whose head is taken.
LEMMA TailFacts ==
    ASSUME NEW q, IsSeq(q), q # <<>>, NEW m
    PROVE  /\ IsSeq(Tail(q))
           /\ Silent(q) => Head(q).t \in Asides /\ Silent(Tail(q))
           /\ Bears(q, m) => \/ Head(q).t \in Asides /\ Bears(Tail(q), m)
                             \/ Head(q) = m /\ m.t \notin Asides /\ Silent(Tail(q))
           /\ Greeted(q) => Head(q).t # "BANNER"
           /\ Greeted(q) /\ Head(q).t # "SERVICE_ACCEPT" => Greeted(Tail(q))
<1> DEFINE r == Tail(q)
           N == Len(q)
<1>1. /\ IsSeq(r) /\ N \in Nat \ {0} /\ DOMAIN q = 1 .. N /\ DOMAIN r = 1 .. N - 1
      /\ Head(q) = q[1]
      /\ \A i \in DOMAIN r : r[i] = q[i + 1]
  BY SeqTail
<1> HIDE DEF r, N
<1>2. 1 \in DOMAIN q /\ \A i \in DOMAIN r : i + 1 \in DOMAIN q /\ r[i] = q[i + 1] /\ i \in Nat \ {0}
  BY <1>1
<1>3. Silent(q) => Head(q).t \in Asides /\ Silent(r)
  BY <1>1, <1>2 DEF Silent
<1>4. ASSUME Bears(q, m)
      PROVE  \/ Head(q).t \in Asides /\ Bears(r, m)
             \/ Head(q) = m /\ m.t \notin Asides /\ Silent(r)
  <2>1. PICK k \in DOMAIN q : q[k] = m /\ \A i \in DOMAIN q : i # k => q[i].t \in Asides
    BY <1>4 DEF Bears
  <2>2. CASE k = 1
    <3>1. \A i \in DOMAIN r : r[i].t \in Asides
      BY <1>2, <2>1, <2>2
    <3> QED  BY <1>1, <1>4, <2>1, <2>2, <3>1 DEF Bears, Silent
  <2>3. CASE k # 1
    <3>1. k - 1 \in DOMAIN r /\ r[k - 1] = m
      BY <1>1, <2>1, <2>3
    <3>2. \A i \in DOMAIN r : i # k - 1 => r[i].t \in Asides
      BY <1>1, <1>2, <2>1
    <3> QED  BY <1>1, <1>2, <1>4, <2>1, <2>3, <3>1, <3>2 DEF Bears
  <2> QED  BY <2>2, <2>3
<1>5. Greeted(q) => Head(q).t # "BANNER"
  BY <1>1, <1>2 DEF Greeted
<1>6. ASSUME Greeted(q), Head(q).t # "SERVICE_ACCEPT" PROVE Greeted(r)
  <2> SUFFICES ASSUME NEW i \in DOMAIN r, r[i].t = "BANNER"
               PROVE  \E j \in DOMAIN r : j < i /\ r[j].t = "SERVICE_ACCEPT"
    BY DEF Greeted
  <2>1. PICK j \in DOMAIN q : j < i + 1 /\ q[j].t = "SERVICE_ACCEPT"
    BY <1>2, <1>6 DEF Greeted
  <2>2. j # 1
    BY <1>1, <1>6, <2>1
  <2>3. j - 1 \in DOMAIN r /\ r[j - 1] = q[j] /\ j - 1 < i
    BY <1>1, <2>1, <2>2
  <2> QED  BY <2>1, <2>3
<1> QED  BY <1>1, <1>3, <1>4, <1>5, <1>6 DEF r

\* A queue that bears a message is not empty.
LEMMA BearsSome ==
    ASSUME NEW q, NEW m, Bears(q, m)
    PROVE  q # <<>>
BY DEF Bears

-----------------------------------------------------------------------------
\* What the handlers do, field by field.

IsApp(x) == DOMAIN x = {"at", "i"}
IsClient(c) ==
    DOMAIN c = {"st", "sent", "accepted", "cur", "method", "blocked", "end"}
IsServer(s) ==
    DOMAIN s = {"st", "methods", "cur", "named", "rounds", "who", "shut", "end"}

\* The parts of what a packet does.
LEMMA DoesFacts ==
    ASSUME NEW x, NEW o, NEW r
    PROVE  Does(x, o, r).ses = x /\ Does(x, o, r).out = o /\ Does(x, o, r).rep = r
BY DEF Does

\* The session of the client goes on as it was but for some fields.
KeepsClient(c, d) ==
    IsClient(d) /\ d.end = c.end /\ d.st = c.st /\ d.cur = c.cur /\ d.blocked = c.blocked
EndsClient(c, d) ==
    /\ IsClient(d) /\ d.end # "no" /\ d.st = c.st /\ d.cur = c.cur
    /\ d.blocked = c.blocked

\* A session that ends gives its replies and writes nothing.
LEMMA EndsFacts ==
    ASSUME NEW c, IsClient(c), NEW why, why # "no", NEW r
    PROVE  /\ EndsClient(c, [c EXCEPT !.end = why])
           /\ EndsClient(c, Ends(c, why, r).ses)
           /\ Ends(c, why, r).out = <<>> /\ Ends(c, why, r).rep = r
<1> DEFINE d == [c EXCEPT !.end = why]
<1>1. EndsClient(c, d)
  BY Zenon DEF IsClient, EndsClient
<1>2. Ends(c, why, r) = Does(d, <<>>, r)
  BY DEF Ends
<1> DEFINE e == Ends(c, why, r)
<1>3. EndsClient(c, e.ses) /\ e.out = <<>> /\ e.rep = r
  <2> HIDE DEF d
  <2> QED  BY <1>1, <1>2, DoesFacts
<1> HIDE DEF e
<1> QED  BY <1>1, <1>3, Zenon DEF d, e

\* The two requests for an attempt.
Plain(a) == Request(a, FALSE)
Real(a) == Request(a, TRUE)

\* The attempt is noted, and requested or made to wait for the service.
LEMMA WriteFacts ==
    ASSUME NEW c, IsClient(c), NEW a
    PROVE  LET r == WriteAuthRequestIfNeeded(c, a)
           IN  /\ KeepsClient(c, r.ses) /\ r.ses.method = <<a>>
               /\ c.st = "service" /\ ~c.sent /\ ~c.accepted =>
                     r.out = <<[t |-> "SERVICE_REQUEST"]>>
               /\ c.st = "request" => r.out = <<Plain(a)>>
<1> DEFINE asks == c.st = "service" /\ ~c.sent
           waiting == c.st = "request" \/ (c.st = "service" /\ c.accepted)
           d == [c EXCEPT !.sent = @ \/ asks, !.method = <<a>>]
           one == IF asks THEN <<[t |-> "SERVICE_REQUEST"]>> ELSE <<>>
           two == IF waiting THEN <<Plain(a)>> ELSE <<>>
           r == WriteAuthRequestIfNeeded(c, a)
<1>1. r.ses = d /\ r.out = one \o two
  BY Zenon DEF Plain, WriteAuthRequestIfNeeded
<1>2. KeepsClient(c, d) /\ d.method = <<a>>
  BY Zenon DEF IsClient, KeepsClient
<1>3. ASSUME c.st = "service", ~c.sent, ~c.accepted
      PROVE  one = <<[t |-> "SERVICE_REQUEST"]>> /\ two = <<>>
  BY <1>3
<1>4. ASSUME c.st = "request" PROVE one = <<>> /\ two = <<Plain(a)>>
  BY <1>4
<1>5. ASSUME NEW m PROVE <<m>> \o <<>> = <<m>> /\ <<>> \o <<m>> = <<m>>
  OBVIOUS
<1> HIDE DEF d, one, two, r
<1> QED  BY <1>1, <1>2, <1>3, <1>4, <1>5 DEF r

\* What the client does with what belongs to no attempt.
LEMMA ClientAside ==
    ASSUME NEW c, NEW m, m.t \in Asides, m.t = "BANNER" => c.st # "service",
           c.st \in {"service", "request", "authed"}
    PROVE  LET r == ClientHandle(c, m)
           IN  r.ses = c /\ r.out = <<>> /\ r.rep = <<>>
<1>1. ClientHandle(c, m) = Does(c, <<>>, <<>>)
  <2>1. CASE m.t = "EXT_INFO" \/ c.st = "authed"
    BY <2>1, Zenon DEF ClientHandle
  <2>2. CASE m.t = "BANNER" /\ c.st = "request"
    <3>1. /\ m.t # "EXT_INFO" /\ m.t # "SERVICE_ACCEPT" /\ m.t # "SUCCESS"
          /\ m.t # "FAILURE" /\ m.t \notin {"PK_OK", "INFO_REQUEST"}
          /\ c.st # "service" /\ c.st # "authed"
      BY <2>2
    <3> QED  BY <2>2, <3>1, Zenon DEF ClientHandle
  <2> QED  BY <2>1, <2>2 DEF Asides
<1> QED  BY <1>1, DoesFacts

\* What it does with the answers of the server.
LEMMA ClientAccept ==
    ASSUME NEW c, IsClient(c), NEW m, m.t = "SERVICE_ACCEPT", c.st = "service",
           NEW a, c.method = <<a>>, NEW k, k = Plain(a)
    PROVE  LET r == ClientHandle(c, m)
               d == r.ses
           IN  /\ r.out = <<k>> /\ r.rep = <<>>
               /\ IsClient(d) /\ d.end = c.end /\ d.st = "request" /\ d.method = <<a>>
               /\ d.blocked = c.blocked /\ d.cur = IF a.how = "ki" THEN "ki" ELSE "-"
<1>1. /\ m.t # "EXT_INFO" /\ m.t # "SUCCESS" /\ m.t # "BANNER"
      /\ m.t # "FAILURE" /\ m.t \notin {"PK_OK", "INFO_REQUEST"}
      /\ c.st # "request" /\ c.st # "authed" /\ c.method # <<>> /\ c.method[1] = a
  OBVIOUS
<1>2. ClientHandle(c, m) = ServiceAccepted(c)
  BY <1>1, Zenon DEF ClientHandle
<1> DEFINE d == [c EXCEPT !.accepted = TRUE, !.st = "request",
                          !.cur = IF c.method[1].how = "ki" THEN "ki" ELSE "-"]
<1>3. ServiceAccepted(c) = Does(d, <<Request(c.method[1], FALSE)>>, <<>>)
  BY <1>1, Zenon DEF ServiceAccepted
<1>4. /\ IsClient(d) /\ d.end = c.end /\ d.st = "request" /\ d.method = c.method
      /\ d.blocked = c.blocked /\ d.cur = IF c.method[1].how = "ki" THEN "ki" ELSE "-"
  BY Zenon DEF IsClient
<1> HIDE DEF d
<1>5. /\ ClientHandle(c, m).ses = d /\ ClientHandle(c, m).rep = <<>>
      /\ ClientHandle(c, m).out = <<Request(c.method[1], FALSE)>>
  <2> DEFINE o == <<Request(c.method[1], FALSE)>>
             r == ClientHandle(c, m)
  <2>1. r = Does(d, o, <<>>)
    BY <1>2, <1>3
  <2> HIDE DEF o, r
  <2>2. r.ses = d /\ r.rep = <<>> /\ r.out = o
    BY <2>1, DoesFacts
  <2> QED  BY <2>2, Zenon DEF o, r
<1>6. ClientHandle(c, m).out = <<k>>
  BY <1>1, <1>5, Zenon DEF Plain
<1>7. d.method = <<a>> /\ d.cur = IF a.how = "ki" THEN "ki" ELSE "-"
  BY <1>1, <1>4, Zenon
<1> QED  BY <1>4, <1>5, <1>6, <1>7, Zenon

\* SUCCESS: one Success.
LEMMA ClientSuccess ==
    ASSUME NEW c, IsClient(c), NEW m, m.t = "SUCCESS", c.st = "request"
    PROVE  LET r == ClientHandle(c, m)
               d == r.ses
           IN  /\ r.out = <<>> /\ r.rep = <<[t |-> "Success"]>>
               /\ IsClient(d) /\ d.end = c.end /\ d.st = "authed"
               /\ d.blocked = c.blocked /\ d.cur = c.cur
<1>1. /\ m.t # "EXT_INFO" /\ m.t # "SERVICE_ACCEPT" /\ m.t # "BANNER"
      /\ m.t # "FAILURE" /\ m.t \notin {"PK_OK", "INFO_REQUEST"}
      /\ c.st # "service" /\ c.st # "authed"
  OBVIOUS
<1> DEFINE d == [c EXCEPT !.st = "authed"]
<1>2. ClientHandle(c, m) = Does(d, <<>>, <<[t |-> "Success"]>>)
  BY <1>1, Zenon DEF ClientHandle
<1>3. /\ IsClient(d) /\ d.end = c.end /\ d.st = "authed"
      /\ d.blocked = c.blocked /\ d.cur = c.cur
  BY Zenon DEF IsClient
<1> HIDE DEF d
<1> QED  BY <1>2, <1>3, DoesFacts

\* FAILURE: one Failure, and the end when no method is left.
LEMMA ClientFailure ==
    ASSUME NEW c, IsClient(c), NEW m, m.t = "FAILURE", c.st = "request"
    PROVE  LET r == ClientHandle(c, m)
               d == r.ses
           IN  /\ r.out = <<>> /\ r.rep = <<[t |-> "Failure"]>>
               /\ IsClient(d) /\ d.st = "request"
               /\ d.blocked = c.blocked /\ d.cur = c.cur
               /\ d.end = IF m.methods = {} THEN "no method" ELSE c.end
<1>1. /\ m.t # "EXT_INFO" /\ m.t # "SERVICE_ACCEPT" /\ m.t # "BANNER"
      /\ m.t # "SUCCESS" /\ m.t \notin {"PK_OK", "INFO_REQUEST"}
      /\ c.st # "service" /\ c.st # "authed"
  OBVIOUS
<1> DEFINE d == [c EXCEPT !.method = <<>>]
           e == [d EXCEPT !.end = "no method"]
           rep == <<[t |-> "Failure"]>>
<1>2. ClientHandle(c, m) = AuthRejected(c, m.methods)
  BY <1>1, Zenon DEF ClientHandle
<1>3. AuthRejected(c, m.methods) =
        IF m.methods = {} THEN Does(e, <<>>, rep) ELSE Does(d, <<>>, rep)
  BY Zenon DEF AuthRejected, Ends
<1>4. /\ IsClient(d) /\ d.end = c.end /\ d.st = c.st
      /\ d.blocked = c.blocked /\ d.cur = c.cur
  BY Zenon DEF IsClient
<1>5. IsClient(d) => /\ IsClient(e) /\ e.end = "no method" /\ e.st = d.st
                     /\ e.blocked = d.blocked /\ e.cur = d.cur
  <2> HIDE DEF d
  <2> QED  BY Zenon DEF IsClient
<1> DEFINE r == ClientHandle(c, m)
<1> HIDE DEF d, e, rep, r
<1>6. CASE m.methods = {}
  <2>1. r = Does(e, <<>>, rep)
    BY <1>2, <1>3, <1>6 DEF r
  <2>2. r.ses = e /\ r.out = <<>> /\ r.rep = rep
    BY <2>1, DoesFacts
  <2> QED  BY <1>4, <1>5, <1>6, <2>2, Zenon DEF rep, r
<1>7. CASE m.methods # {}
  <2>1. r = Does(d, <<>>, rep)
    BY <1>2, <1>3, <1>7 DEF r
  <2>2. r.ses = d /\ r.out = <<>> /\ r.rep = rep
    BY <2>1, DoesFacts
  <2> QED  BY <1>4, <1>7, <2>2, Zenon DEF rep, r
<1> QED  BY <1>6, <1>7

\* PK_OK: the signed request, a SignRequest of the agent, or the end.
LEMMA ClientPkOk ==
    ASSUME NEW c, IsClient(c), NEW m, m.t = "PK_OK", c.st = "request",
           NEW a, c.method = <<a>>, a.how \in {"key", "agent"},
           NEW k, k = Real(a)
    PROVE  LET r == ClientHandle(c, m)
               d == r.ses
           IN  /\ IsClient(d) /\ d.st = "request" /\ d.cur = c.cur
               /\ \/ /\ c.cur = "ki" /\ r.out = <<>> /\ r.rep = <<>>
                     /\ d.end = "parse" /\ d.blocked = c.blocked
                  \/ /\ c.cur # "ki" /\ a.how = "key"
                     /\ r.out = <<k>> /\ r.rep = <<>>
                     /\ d.end = c.end /\ d.blocked = c.blocked
                  \/ /\ c.cur # "ki" /\ a.how = "agent"
                     /\ r.out = <<>> /\ r.rep = <<[t |-> "SignRequest"]>>
                     /\ d.end = c.end /\ d.blocked = "Signed"
<1>1. /\ m.t # "EXT_INFO" /\ m.t # "SERVICE_ACCEPT" /\ m.t # "BANNER"
      /\ m.t # "SUCCESS" /\ m.t # "FAILURE" /\ m.t \in {"PK_OK", "INFO_REQUEST"}
      /\ c.st # "service" /\ c.st # "authed" /\ m.t # "INFO_REQUEST"
      /\ c.method # <<>> /\ c.method[1] = a
  OBVIOUS
<1> DEFINE r == ClientHandle(c, m)
           y == [c EXCEPT !.method = <<>>]
           b == [y EXCEPT !.blocked = "Signed"]
           e == [c EXCEPT !.end = "parse"]
<1>2. r = PkOkOrInfoRequest(c, m)
  BY <1>1, Zenon DEF ClientHandle
<1>3. /\ IsClient(y) /\ y.end = c.end /\ y.st = c.st
      /\ y.blocked = c.blocked /\ y.cur = c.cur
  BY Zenon DEF IsClient
<1>4. IsClient(y) => /\ IsClient(b) /\ b.end = y.end /\ b.st = y.st
                     /\ b.blocked = "Signed" /\ b.cur = y.cur
  <2> HIDE DEF y
  <2> QED  BY Zenon DEF IsClient
<1>5. IsClient(e) /\ e.end = "parse" /\ e.st = c.st /\ e.blocked = c.blocked /\ e.cur = c.cur
  BY Zenon DEF IsClient
<1>6. CASE c.cur = "ki"
  <2>1. PkOkOrInfoRequest(c, m) = Does(e, <<>>, <<>>)
    BY <1>1, <1>6, Zenon DEF PkOkOrInfoRequest, Ends
  <2> HIDE DEF r, y, b, e
  <2> QED  BY <1>2, <1>5, <1>6, <2>1, DoesFacts DEF r
<1>7. CASE c.cur # "ki" /\ a.how = "key"
  <2>1. a.how # "agent"
    BY <1>7
  <2>2. PkOkOrInfoRequest(c, m) = Does(y, <<Request(c.method[1], TRUE)>>, <<>>)
    BY <1>1, <1>7, <2>1, Zenon DEF PkOkOrInfoRequest
  <2> HIDE DEF r, y, b, e
  <2>3. r.ses = y /\ r.out = <<Request(c.method[1], TRUE)>> /\ r.rep = <<>>
    <3> DEFINE o == <<Request(c.method[1], TRUE)>>
    <3>1. r = Does(y, o, <<>>)
      BY <1>2, <2>2
    <3> HIDE DEF o
    <3>2. r.ses = y /\ r.rep = <<>> /\ r.out = o
      BY <3>1, DoesFacts
    <3> QED  BY <3>2, Zenon DEF o
  <2> QED  BY <1>1, <1>3, <1>7, <2>3, Zenon DEF r, Real
<1>8. CASE c.cur # "ki" /\ a.how = "agent"
  <2>1. a.how # "key"
    BY <1>8
  <2>2. PkOkOrInfoRequest(c, m) = Does(b, <<>>, <<[t |-> "SignRequest"]>>)
    BY <1>1, <1>8, <2>1, Zenon DEF PkOkOrInfoRequest
  <2> HIDE DEF r, y, b, e
  <2> QED  BY <1>1, <1>2, <1>3, <1>4, <1>8, <2>2, DoesFacts DEF r
<1> QED  BY <1>6, <1>7, <1>8

\* INFO_REQUEST: one InfoRequest, and the client waits; or it is left.
LEMMA ClientInfoRequest ==
    ASSUME NEW c, IsClient(c), NEW m, m.t = "INFO_REQUEST", c.st = "request",
           NEW a, c.method = <<a>>, a.how = "ki"
    PROVE  LET r == ClientHandle(c, m)
               d == r.ses
           IN  /\ IsClient(d) /\ d.st = "request" /\ d.cur = c.cur /\ d.end = c.end
               /\ r.out = <<>>
               /\ \/ /\ r.rep = <<[t |-> "InfoRequest"]>>
                     /\ d.blocked = "InfoResponse" /\ d.method = <<a>>
                  \/ r.rep = <<>> /\ d.blocked = c.blocked
<1>1. /\ m.t # "EXT_INFO" /\ m.t # "SERVICE_ACCEPT" /\ m.t # "BANNER"
      /\ m.t # "SUCCESS" /\ m.t # "FAILURE" /\ m.t \in {"PK_OK", "INFO_REQUEST"}
      /\ c.st # "service" /\ c.st # "authed" /\ m.t # "PK_OK"
      /\ c.method # <<>> /\ c.method[1] = a /\ a.how # "key" /\ a.how # "agent"
  OBVIOUS
<1> DEFINE r == ClientHandle(c, m)
           y == [c EXCEPT !.method = <<>>]
           b == [c EXCEPT !.blocked = "InfoResponse"]
<1>2. r = PkOkOrInfoRequest(c, m)
  BY <1>1, Zenon DEF ClientHandle
<1>3. /\ IsClient(y) /\ y.end = c.end /\ y.st = c.st
      /\ y.blocked = c.blocked /\ y.cur = c.cur
  BY Zenon DEF IsClient
<1>4. /\ IsClient(b) /\ b.end = c.end /\ b.st = c.st
      /\ b.blocked = "InfoResponse" /\ b.cur = c.cur /\ b.method = c.method
  BY Zenon DEF IsClient
<1>5. CASE c.cur = "ki"
  <2>1. PkOkOrInfoRequest(c, m) = Does(b, <<>>, <<[t |-> "InfoRequest"]>>)
    BY <1>1, <1>5, Zenon DEF PkOkOrInfoRequest
  <2> HIDE DEF r, y, b
  <2> QED  BY <1>2, <1>4, <1>5, <2>1, DoesFacts DEF r
<1>6. CASE c.cur # "ki"
  <2>1. PkOkOrInfoRequest(c, m) = Does(y, <<>>, <<>>)
    BY <1>1, <1>6, Zenon DEF PkOkOrInfoRequest
  <2> HIDE DEF r, y, b
  <2> QED  BY <1>2, <1>3, <1>6, <2>1, DoesFacts DEF r
<1> QED  BY <1>5, <1>6

\* The server goes on as it was, but for what says how far it has got.
KeepsServer(x, y) == IsServer(y) /\ y.end = x.end /\ (x.shut => y.shut)

\* What the server makes of the attempt a: the session y and the answer o.
Outcome(x, a, y, o) ==
    /\ KeepsServer(x, y)
    /\ \/ o = [t |-> "SUCCESS"] /\ y.st = "authed" /\ y.who = a.id /\ Good(a)
       \/ /\ o.t = "FAILURE" /\ y.st = x.st /\ ~Good(a)
          /\ o.methods = {} => y.shut
       \/ /\ o = [t |-> "PK_OK"] /\ y.st = x.st /\ a.how \in {"key", "agent"}
          /\ a.id \in Offered /\ y.cur = "pk" /\ y.named
       \/ o = [t |-> "INFO_REQUEST"] /\ y.st = x.st /\ a.how = "ki" /\ y.cur = a.id

\* Some of its fields are set.
LEMMA ServerSets ==
    ASSUME NEW x, IsServer(x), NEW v
    PROVE  /\ LET y == [x EXCEPT !.named = v]
              IN  KeepsServer(x, y) /\ y.st = x.st /\ y.cur = x.cur /\ y.named = v
           /\ LET y == [x EXCEPT !.methods = v]
              IN  KeepsServer(x, y) /\ y.st = x.st /\ y.cur = x.cur /\ y.named = x.named
           /\ LET y == [x EXCEPT !.rounds = v]
              IN  KeepsServer(x, y) /\ y.st = x.st /\ y.cur = x.cur /\ y.named = x.named
           /\ LET y == [x EXCEPT !.cur = "pk", !.named = TRUE]
              IN  KeepsServer(x, y) /\ y.st = x.st /\ y.cur = "pk" /\ y.named
           /\ LET y == [x EXCEPT !.named = TRUE, !.cur = v, !.rounds = 0]
              IN  KeepsServer(x, y) /\ y.st = x.st /\ y.cur = v
<1>1. LET y == [x EXCEPT !.named = v]
      IN  KeepsServer(x, y) /\ y.st = x.st /\ y.cur = x.cur /\ y.named = v
  BY Zenon DEF IsServer, KeepsServer
<1>2. LET y == [x EXCEPT !.methods = v]
      IN  KeepsServer(x, y) /\ y.st = x.st /\ y.cur = x.cur /\ y.named = x.named
  BY Zenon DEF IsServer, KeepsServer
<1>3. LET y == [x EXCEPT !.rounds = v]
      IN  KeepsServer(x, y) /\ y.st = x.st /\ y.cur = x.cur /\ y.named = x.named
  BY Zenon DEF IsServer, KeepsServer
<1>4. LET y == [x EXCEPT !.cur = "pk", !.named = TRUE]
      IN  KeepsServer(x, y) /\ y.st = x.st /\ y.cur = "pk" /\ y.named
  BY Zenon DEF IsServer, KeepsServer
<1>5. LET y == [x EXCEPT !.named = TRUE, !.cur = v, !.rounds = 0]
      IN  KeepsServer(x, y) /\ y.st = x.st /\ y.cur = v
  BY Zenon DEF IsServer, KeepsServer
<1> QED  BY <1>1, <1>2, <1>3, <1>4, <1>5, Zenon

\* It answers with one packet, which may be the verdict.
OneAnswer(x, a, r) == \E o : r.out = <<o>> /\ Outcome(x, a, r.ses, o)
Verdict(x, a, r) ==
    \E o : r.out = <<o>> /\ Outcome(x, a, r.ses, o) /\ o.t \in {"SUCCESS", "FAILURE"}

\* A verdict is one answer.
LEMMA VerdictAnswers ==
    ASSUME NEW x, NEW a, NEW r, Verdict(x, a, r)
    PROVE  OneAnswer(x, a, r)
BY DEF Verdict, OneAnswer

\* reject_auth_request.
LEMMA RejectFacts ==
    ASSUME NEW x, NEW y, IsServer(y), KeepsServer(x, y), y.st = x.st, NEW a, ~Good(a)
    PROVE  Verdict(x, a, Reject(y))
<1> DEFINE z == [y EXCEPT !.cur = "-", !.shut = @ \/ y.methods = {}]
           o == [t |-> "FAILURE", methods |-> y.methods]
           r == Reject(y)
<1>1. r.ses = z /\ r.out = <<o>>
  BY Zenon DEF Reject, Does
<1>2. IsServer(z) /\ z.end = y.end /\ z.st = y.st
  BY Zenon DEF IsServer
<1>3. (y.shut => z.shut) /\ (y.methods = {} => z.shut)
  BY Zenon DEF IsServer
<1>4. o.t = "FAILURE" /\ o.methods = y.methods
  OBVIOUS
<1> HIDE DEF z, o, r
<1>5. Outcome(x, a, z, o)
  BY <1>2, <1>3, <1>4 DEF Outcome, KeepsServer
<1>6. o.t \in {"SUCCESS", "FAILURE"}
  BY <1>4
<1> QED  BY <1>1, <1>5, <1>6, Zenon DEF Verdict, r

\* What is accepted.
LEMMA AcceptFacts ==
    ASSUME NEW x, NEW y, IsServer(y), KeepsServer(x, y), NEW a, NEW b, b.id = a.id, Good(a)
    PROVE  Verdict(x, a, Accept(y, b))
<1> DEFINE z == [y EXCEPT !.st = "authed", !.who = b.id]
           o == [t |-> "SUCCESS"]
           r == Accept(y, b)
<1>1. r.ses = z /\ r.out = <<o>>
  BY Zenon DEF Accept, Does
<1>2. IsServer(z) /\ z.end = y.end /\ z.st = "authed" /\ z.who = b.id /\ z.shut = y.shut
  BY Zenon DEF IsServer
<1> HIDE DEF z, r
<1>3. Outcome(x, a, z, o)
  BY <1>2 DEF Outcome, KeepsServer
<1>4. o.t \in {"SUCCESS", "FAILURE"}
  OBVIOUS
<1> QED  BY <1>1, <1>3, <1>4, Zenon DEF Verdict, r

\* The methods that remain.
LEMMA ProceedingFacts ==
    ASSUME NEW x, IsServer(x), NEW proceed
    PROVE  LET y == Proceeding(x, proceed)
           IN  IsServer(y) /\ KeepsServer(x, y) /\ y.st = x.st
<1>1. CASE proceed = <<>>
  BY <1>1 DEF Proceeding, KeepsServer
<1>2. CASE proceed # <<>>
  <2> DEFINE y == [x EXCEPT !.methods = proceed[1]]
  <2>1. KeepsServer(x, y) /\ y.st = x.st
    BY ServerSets, Zenon
  <2>2. Proceeding(x, proceed) = y
    BY <1>2 DEF Proceeding
  <2> HIDE DEF y
  <2> QED  BY <2>1, <2>2 DEF KeepsServer
<1> QED  BY <1>1, <1>2

\* none and password.
LEMMA PlainFacts ==
    ASSUME NEW x, IsServer(x), NEW a, a.how \in {"none", "password"}, NEW proceed
    PROVE  OneAnswer(x, a, PlainRequest(x, a, proceed))
<1> DEFINE y == IF proceed = <<>> THEN [x EXCEPT !.methods = @ \ {a.how}]
                ELSE Proceeding(x, proceed)
           n == [x EXCEPT !.named = @ \/ a.how = "password"]
           u == [y EXCEPT !.named = FALSE]
<1>1. PlainRequest(x, a, proceed) =
        IF a.id \in Accepted THEN Accept(n, a) ELSE Reject(u)
  BY Zenon DEF PlainRequest
<1>2. IsServer(y) /\ KeepsServer(x, y) /\ y.st = x.st
  <2>1. CASE proceed = <<>>
    <3> DEFINE z == [x EXCEPT !.methods = @ \ {a.how}]
    <3>1. KeepsServer(x, z) /\ z.st = x.st
      BY Zenon DEF IsServer, KeepsServer
    <3>2. y = z
      BY <2>1, Zenon
    <3> HIDE DEF z, y
    <3> QED  BY <3>1, <3>2 DEF KeepsServer
  <2>2. CASE proceed # <<>>
    <3>1. y = Proceeding(x, proceed)
      BY <2>2, Zenon
    <3> HIDE DEF y
    <3> QED  BY <3>1, ProceedingFacts
  <2> QED  BY <2>1, <2>2
<1>3. KeepsServer(x, n)
  BY Zenon DEF IsServer, KeepsServer
<1>4. KeepsServer(y, u) /\ u.st = y.st
  <2> HIDE DEF y
  <2> QED  BY <1>2, ServerSets, Zenon
<1> HIDE DEF y, n, u
<1>5. IsServer(n) /\ IsServer(u) /\ KeepsServer(x, u) /\ u.st = x.st
  BY <1>2, <1>3, <1>4 DEF KeepsServer
<1>6. a.id \in Accepted <=> Good(a)
  BY DEF Good
<1>7. CASE Good(a)
  BY <1>1, <1>3, <1>5, <1>6, <1>7, AcceptFacts, VerdictAnswers
<1>8. CASE ~Good(a)
  BY <1>1, <1>5, <1>6, <1>8, RejectFacts, VerdictAnswers
<1> QED  BY <1>7, <1>8

\* publickey without a signature.
LEMMA ProbeFacts ==
    ASSUME NEW x, IsServer(x), NEW a, a.how \in {"key", "agent"}, NEW proceed
    PROVE  OneAnswer(x, a, PkProbe(x, a, proceed))
<1>1. CASE a.id \in Offered
  <2> DEFINE y == [x EXCEPT !.cur = "pk", !.named = TRUE]
             o == [t |-> "PK_OK"]
             r == PkProbe(x, a, proceed)
  <2>1. r.ses = y /\ r.out = <<o>>
    BY <1>1, Zenon DEF PkProbe, Does
  <2>2. KeepsServer(x, y) /\ y.st = x.st /\ y.cur = "pk" /\ y.named
    BY ServerSets, Zenon
  <2> HIDE DEF y, r
  <2>3. Outcome(x, a, y, o)
    BY <1>1, <2>2 DEF Outcome
  <2> QED  BY <2>1, <2>3, Zenon DEF OneAnswer, r
<1>2. CASE a.id \notin Offered
  <2> DEFINE y == Proceeding(x, proceed)
             u == [y EXCEPT !.named = FALSE]
  <2>1. PkProbe(x, a, proceed) = Reject(u)
    BY <1>2, Zenon DEF PkProbe
  <2>2. IsServer(y) /\ KeepsServer(x, y) /\ y.st = x.st
    BY ProceedingFacts
  <2> HIDE DEF y
  <2>3. KeepsServer(y, u) /\ u.st = y.st
    BY <2>2, ServerSets, Zenon
  <2> HIDE DEF u
  <2>4. IsServer(u) /\ KeepsServer(x, u) /\ u.st = x.st
    BY <2>2, <2>3 DEF KeepsServer
  <2>5. ~Good(a)
    BY <1>2 DEF Good
  <2> QED  BY <2>1, <2>4, <2>5, RejectFacts, VerdictAnswers
<1> QED  BY <1>1, <1>2

\* A signature of the key that was probed.
LEMMA RealFacts ==
    ASSUME NEW x, IsServer(x), NEW a, a.how \in {"key", "agent"}, a.id \in Offered,
           x.cur = "pk", x.named, NEW proceed
    PROVE  Verdict(x, a, PkReal(x, a, proceed))
<1> DEFINE y == [x EXCEPT !.named = TRUE]
           z == Proceeding(y, proceed)
           u == [z EXCEPT !.named = FALSE]
<1>1. PkReal(x, a, proceed) =
        IF a.sig # "good" THEN Reject(y)
        ELSE IF a.id \in Accepted THEN Accept(y, a) ELSE Reject(u)
  BY Zenon DEF PkReal
<1>2. KeepsServer(x, y) /\ y.st = x.st
  BY Zenon DEF IsServer, KeepsServer
<1> HIDE DEF y
<1>3. IsServer(y)
  BY <1>2 DEF KeepsServer
<1>4. IsServer(z) /\ KeepsServer(y, z) /\ z.st = y.st
  BY <1>3, ProceedingFacts
<1> HIDE DEF z
<1>5. KeepsServer(z, u) /\ u.st = z.st
  BY <1>4, Zenon DEF IsServer, KeepsServer
<1> HIDE DEF u
<1>6. IsServer(u) /\ KeepsServer(x, u) /\ u.st = x.st
  BY <1>2, <1>4, <1>5 DEF KeepsServer
<1>7. Good(a) <=> a.sig = "good" /\ a.id \in Accepted
  BY DEF Good
<1>8. CASE a.sig # "good"
  <2>1. PkReal(x, a, proceed) = Reject(y)
    BY <1>1, <1>8, Zenon
  <2> QED  BY <1>2, <1>3, <1>7, <1>8, <2>1, RejectFacts
<1>9. CASE a.sig = "good" /\ a.id \in Accepted
  <2>1. PkReal(x, a, proceed) = Accept(y, a)
    BY <1>1, <1>9, Zenon
  <2> QED  BY <1>2, <1>3, <1>7, <1>9, <2>1, AcceptFacts
<1>10. CASE a.sig = "good" /\ a.id \notin Accepted
  <2>1. PkReal(x, a, proceed) = Reject(u)
    BY <1>1, <1>10, Zenon
  <2> QED  BY <1>6, <1>7, <1>10, <2>1, RejectFacts
<1> QED  BY <1>8, <1>9, <1>10

\* A round of the keyboard-interactive method.
LEMMA KiFacts ==
    ASSUME NEW x, NEW y, IsServer(y), KeepsServer(x, y), y.st = x.st,
           NEW a, a.how = "ki", y.cur = a.id, NEW b, b.id = a.id,
           NEW proceed, NEW asks
    PROVE  OneAnswer(x, a, KiAnswer(y, b, proceed, asks))
<1>1. CASE asks
  <2> DEFINE z == [y EXCEPT !.rounds = @ + 1]
             o == [t |-> "INFO_REQUEST"]
             r == KiAnswer(y, b, proceed, asks)
  <2>1. r.ses = z /\ r.out = <<o>>
    BY <1>1, Zenon DEF KiAnswer, Does
  <2>2. KeepsServer(y, z) /\ z.st = y.st /\ z.cur = y.cur
    BY Zenon DEF IsServer, KeepsServer
  <2> HIDE DEF z, r
  <2>3. Outcome(x, a, z, o)
    BY <1>1, <2>2 DEF Outcome, KeepsServer
  <2> QED  BY <2>1, <2>3, Zenon DEF OneAnswer, r
<1>2. CASE ~asks
  <2> DEFINE z == Proceeding(y, proceed)
             u == [z EXCEPT !.rounds = 0]
  <2>1. KiAnswer(y, b, proceed, asks) =
          IF b.id \in Accepted THEN Accept(y, b) ELSE Reject(u)
    BY <1>2, Zenon DEF KiAnswer
  <2>2. IsServer(z) /\ KeepsServer(y, z) /\ z.st = y.st
    BY ProceedingFacts
  <2> HIDE DEF z
  <2>3. KeepsServer(z, u) /\ u.st = z.st
    BY <2>2, Zenon DEF IsServer, KeepsServer
  <2> HIDE DEF u
  <2>4. IsServer(u) /\ KeepsServer(x, u) /\ u.st = x.st
    BY <2>2, <2>3 DEF KeepsServer
  <2>5. Good(a) <=> b.id \in Accepted
    BY DEF Good
  <2>6. CASE b.id \in Accepted
    BY <2>1, <2>5, <2>6, AcceptFacts, VerdictAnswers
  <2>7. CASE b.id \notin Accepted
    BY <2>1, <2>4, <2>5, <2>7, RejectFacts, VerdictAnswers
  <2> QED  BY <2>6, <2>7
<1> QED  BY <1>1, <1>2

\* What the server does with a packet.
LEMMA ServerAside ==
    ASSUME NEW x, NEW m, m.t \in Asides, NEW proceed, NEW asks
    PROVE  LET r == ServerHandle(x, m, proceed, asks)
           IN  r.ses = x /\ r.out = <<>>
<1>1. m.t # "SERVICE_REQUEST" /\ m.t # "REQUEST" /\ m.t # "INFO_RESPONSE"
  BY DEF Asides
<1>2. ServerHandle(x, m, proceed, asks) = Does(x, <<>>, <<>>)
  BY <1>1, Zenon DEF ServerHandle
<1> QED  BY <1>2, DoesFacts

\* SERVICE_REQUEST: one SERVICE_ACCEPT, with the banner behind it.
LEMMA ServerService ==
    ASSUME NEW x, IsServer(x), x.st = "service",
           NEW m, m.t = "SERVICE_REQUEST", NEW proceed, NEW asks
    PROVE  LET r == ServerHandle(x, m, proceed, asks)
           IN  /\ KeepsServer(x, r.ses) /\ r.ses.st = "request"
               /\ r.out = IF Banner THEN <<[t |-> "SERVICE_ACCEPT"], [t |-> "BANNER"]>>
                          ELSE <<[t |-> "SERVICE_ACCEPT"]>>
<1> DEFINE y == [x EXCEPT !.st = "request"]
           o == <<[t |-> "SERVICE_ACCEPT"]>>
                \o (IF Banner THEN <<[t |-> "BANNER"]>> ELSE <<>>)
           r == ServerHandle(x, m, proceed, asks)
<1>1. x.st # "request"
  OBVIOUS
<1>2. r = Does(y, o, <<>>)
  BY <1>1, Zenon DEF ServerHandle
<1>3. KeepsServer(x, y) /\ y.st = "request"
  BY Zenon DEF IsServer, KeepsServer
<1>4. o = IF Banner THEN <<[t |-> "SERVICE_ACCEPT"], [t |-> "BANNER"]>>
          ELSE <<[t |-> "SERVICE_ACCEPT"]>>
  <2>1. ASSUME NEW a, NEW b PROVE <<a>> \o <<b>> = <<a, b>> /\ <<a>> \o <<>> = <<a>>
    <3> DEFINE v == Append(<<a>>, b)
               w == <<a, b>>
               S == {a, b}
    <3>1. <<a>> \o <<>> = <<a>>
      OBVIOUS
    <3>2. /\ v \in Seq(S) /\ Len(v) = 2 /\ v[1] = a /\ v[2] = b
          /\ w \in Seq(S) /\ Len(w) = 2 /\ w[1] = a /\ w[2] = b
      OBVIOUS
    <3> HIDE DEF v, w, S
    <3>3. v = w
      BY <3>2, SeqEqual
    <3>4. Append(<<a>>, b) = <<a>> \o <<b>>
      BY SeqMake, SeqAppend, Zenon
    <3> QED  BY <3>1, <3>4, <3>3, Zenon DEF v, w
  <2>2. CASE Banner
    BY <2>1, <2>2, Zenon
  <2>3. CASE ~Banner
    BY <2>1, <2>3, Zenon
  <2> QED  BY <2>2, <2>3
<1> HIDE DEF y, o, r
<1>5. r.ses = y /\ r.out = o
  BY <1>2, DoesFacts
<1> QED  BY <1>3, <1>4, <1>5, Zenon DEF r

\* Every request has one answer.
LEMMA ServerAnswers ==
    ASSUME NEW x, IsServer(x), x.st = "request", NEW a,
           a.how \in {"key", "agent", "none", "password", "ki"}, a.id \notin {"-", "pk"},
           NEW m, NEW proceed, NEW asks,
           \/ m = Plain(a)
           \/ /\ m = Real(a) /\ a.how \in {"key", "agent"} /\ a.id \in Offered
              /\ x.cur = "pk" /\ x.named
           \/ m = [t |-> "INFO_RESPONSE"] /\ a.how = "ki" /\ x.cur = a.id
    PROVE  LET r == ServerHandle(x, m, proceed, asks)
           IN  OneAnswer(x, a, r) /\ (m = Real(a) => Verdict(x, a, r))
<1> DEFINE r == ServerHandle(x, m, proceed, asks)
<1>1. x.st # "service"
  OBVIOUS
<1>2. m = Real(a) => /\ a.how \in {"key", "agent"} /\ a.how # "ki"
                     /\ a.how \notin {"none", "password"} /\ m # Plain(a)
  <2>1. ASSUME m = Real(a)
        PROVE  m # Plain(a) /\ m # [t |-> "INFO_RESPONSE"]
    <3>1. m.real = TRUE /\ m.t = "REQUEST"
      BY <2>1 DEF Real, Request
    <3>2. Plain(a).real = FALSE
      BY DEF Plain, Request
    <3> QED  BY <3>1, <3>2
  <2> QED  BY <2>1
<1>3. CASE m.t = "REQUEST" /\ m.a = a
  <2>1. m.t # "SERVICE_REQUEST" /\ m.t # "INFO_RESPONSE"
    BY <1>3
  <2>2. r = ReadAuthRequest(x, m, proceed, asks)
    BY <1>1, <1>3, <2>1, Zenon DEF ServerHandle
  <2> DEFINE q == ReadAuthRequest(x, m, proceed, asks)
  <2> HIDE DEF r
  <2>3. CASE a.how \in {"none", "password"}
    <3>1. a.how # "ki"
      BY <2>3
    <3>2. q = PlainRequest(x, a, proceed)
      BY <1>3, <2>3, <3>1, Zenon DEF ReadAuthRequest
    <3> HIDE DEF q
    <3> QED  BY <1>2, <2>2, <2>3, <3>2, PlainFacts DEF q, r
  <2>4. CASE a.how = "ki"
    <3> DEFINE y == [x EXCEPT !.named = TRUE, !.cur = a.id, !.rounds = 0]
    <3>1. a.how \notin {"none", "password"}
      BY <2>4
    <3>2. q = KiAnswer(y, a, proceed, asks)
      BY <1>3, <2>4, <3>1, Zenon DEF ReadAuthRequest
    <3>3. KeepsServer(x, y) /\ y.st = x.st /\ y.cur = a.id
      BY Zenon DEF IsServer, KeepsServer
    <3> HIDE DEF q, y
    <3>4. IsServer(y)
      BY <3>3 DEF KeepsServer
    <3> QED  BY <1>2, <2>2, <2>4, <3>2, <3>3, <3>4, KiFacts DEF q, r
  <2>5. CASE a.how \in {"key", "agent"}
    <3>1. a.how \notin {"none", "password"} /\ a.how # "ki"
      BY <2>5
    <3>2. q = IF m.real THEN PkReal(x, a, proceed) ELSE PkProbe(x, a, proceed)
      BY <1>3, <2>5, <3>1, Zenon DEF ReadAuthRequest
    <3> HIDE DEF q
    <3>3. CASE m = Plain(a)
      <4>1. ~m.real
        BY <3>3 DEF Request, Plain
      <4> QED  BY <1>2, <2>2, <2>5, <3>2, <3>3, <4>1, ProbeFacts DEF q, r
    <3>4. CASE m = Real(a)
      <4>1. m.real /\ m # Plain(a) /\ m # [t |-> "INFO_RESPONSE"]
        BY <3>4, <1>3 DEF Request, Plain, Real
      <4>2. a.id \in Offered /\ x.cur = "pk" /\ x.named
        BY <3>4, <4>1
      <4>3. Verdict(x, a, PkReal(x, a, proceed)) /\ OneAnswer(x, a, PkReal(x, a, proceed))
        BY <2>5, <4>2, RealFacts, VerdictAnswers
      <4> QED  BY <2>2, <3>2, <4>1, <4>3, Zenon DEF q, r
    <3>5. m # [t |-> "INFO_RESPONSE"]
      BY <1>3
    <3> QED  BY <3>3, <3>4, <3>5
  <2> QED  BY <2>3, <2>4, <2>5
<1>4. CASE m = [t |-> "INFO_RESPONSE"] /\ a.how = "ki" /\ x.cur = a.id
  <2>1. m.t # "SERVICE_REQUEST" /\ m.t # "REQUEST" /\ m.t = "INFO_RESPONSE"
    BY <1>4
  <2>2. r = ReadInfoResponse(x, proceed, asks)
    BY <1>1, <2>1, Zenon DEF ServerHandle
  <2>3. x.cur \notin {"-", "pk"}
    BY <1>4
  <2> DEFINE b == [id |-> x.cur]
  <2>4. ReadInfoResponse(x, proceed, asks) = KiAnswer(x, b, proceed, asks)
    BY <2>3, Zenon DEF ReadInfoResponse
  <2>5. b.id = a.id
    BY <1>4
  <2> HIDE DEF b, r
  <2>6. KeepsServer(x, x)
    BY DEF KeepsServer
  <2> QED  BY <1>4, <1>2, <2>2, <2>4, <2>5, <2>6, KiFacts DEF r
<1>5. m = Plain(a) \/ m = Real(a) => m.t = "REQUEST" /\ m.a = a
  BY DEF Request, Plain, Real
<1> QED  BY <1>3, <1>4, <1>5

-----------------------------------------------------------------------------
\* The invariant.

Places == {"msgs", "c2s", "s2c", "replies", "none"}

\* The one message of an attempt that is under way is m, at w.
Placed(here, w, q, m) == IF w = here THEN Bears(q, m) ELSE Silent(q)
Held(w, m) ==
    /\ Placed("msgs", w, msgs, m) /\ Placed("c2s", w, c2s, m)
    /\ Placed("s2c", w, s2c, m) /\ Placed("replies", w, replies, m)

\* What excuses a failure: see AllTried.
AstrayIn(p, i) ==
    \/ p[i].how = "agent" /\ p[i].sig \in {"fails", "unsigned"}
    \/ i > 1 /\ (p[i].how = "ki") # (p[1].how = "ki")
Excused(p, s) == s.shut \/ s.end = "lost" \/ \E i \in DOMAIN p : AstrayIn(p, i)
Refused(p, a, s) == Excused(p, s) \/ ~Good(a)

\* How far client and server are with the attempt a: the next request can be
\* made; the key was probed; the server has asked.
Both(st, c, s) == c.st = st /\ s.st = st
Ready(c, s) ==
    /\ c.blocked # "InfoResponse"
    /\ \/ Both("service", c, s) /\ ~c.sent /\ ~c.accepted /\ c.blocked = "no"
       \/ Both("request", c, s)
Probed(a, c, s) ==
    /\ Both("request", c, s) /\ a.how \in {"key", "agent"} /\ a.id \in Offered
    /\ s.cur = "pk" /\ s.named
Asked(a, c, s) ==
    Both("request", c, s) /\ a.how = "ki" /\ s.cur = a.id /\ c.method = <<a>>

\* What m, at its place, says about them.
InMsgs(m, a, c, s) ==
    \/ m = [t |-> "Authenticate", a |-> a] /\ Ready(c, s)
    \/ /\ m = [t |-> "Signed", a |-> a] /\ Probed(a, c, s) /\ c.blocked = "Signed"
       /\ a.how = "agent"
    \/ m = [t |-> "InfoResponse"] /\ Asked(a, c, s) /\ c.blocked = "InfoResponse"
InC2s(m, a, c, s) ==
    /\ c.blocked = "no"
    /\ \/ m = [t |-> "SERVICE_REQUEST"] /\ Both("service", c, s) /\ c.method = <<a>>
       \/ m = Plain(a) /\ Both("request", c, s) /\ c.method = <<a>>
       \/ m = Real(a) /\ Probed(a, c, s)
       \/ m = [t |-> "INFO_RESPONSE"] /\ Asked(a, c, s)
InS2c(p, m, a, c, s) ==
    /\ c.blocked = "no"
    /\ \/ /\ m = [t |-> "SERVICE_ACCEPT"] /\ c.st = "service" /\ s.st = "request"
          /\ c.method = <<a>>
       \/ m = [t |-> "SUCCESS"] /\ c.st = "request" /\ s.st = "authed" /\ s.who = a.id
       \/ /\ m.t = "FAILURE" /\ Both("request", c, s) /\ Refused(p, a, s)
          /\ m.methods = {} => s.shut
       \/ m = [t |-> "PK_OK"] /\ Probed(a, c, s) /\ c.method = <<a>>
       \/ m = [t |-> "INFO_REQUEST"] /\ Asked(a, c, s)
InReplies(p, m, a, c, s) ==
    \/ m = [t |-> "Success"] /\ s.st = "authed" /\ s.who = a.id
    \/ /\ m = [t |-> "Failure"] /\ Both("request", c, s) /\ Refused(p, a, s)
       /\ c.blocked = "no"
    \/ /\ m = [t |-> "SignRequest"] /\ Alive(c) /\ Probed(a, c, s)
       /\ c.blocked = "Signed" /\ a.how = "agent"
    \/ /\ m = [t |-> "InfoRequest"] /\ Alive(c) /\ Asked(a, c, s)
       /\ c.blocked = "InfoResponse"
Nowhere(at, a, c, s) ==
    \/ at = "next" /\ s.st # "authed" /\ (Alive(c) => Ready(c, s))
    \/ /\ at = "sign" /\ Alive(c) /\ Probed(a, c, s)
       /\ c.blocked = "Signed" /\ a.how = "agent"
    \/ at \in {"wait", "failed", "spin"} /\ s.st # "authed"
    \/ at = "ok" /\ s.st = "authed" /\ s.who = a.id

\* A message that nobody reads any more is left behind by a server that was
\* lost.
Fits(p, w, m, x, c, s) ==
    /\ w = "msgs" => \/ Alive(c) /\ x.at = "wait" /\ InMsgs(m, p[x.i], c, s)
                     \/ ~Alive(c) /\ x.at # "ok" /\ s.st # "authed"
    /\ w = "c2s" => \/ Alive(c) /\ x.at = "wait" /\ InC2s(m, p[x.i], c, s)
                    \/ ~Alive(c) /\ ~Alive(s) /\ x.at # "ok" /\ s.st # "authed"
    /\ w = "s2c" => Alive(c) /\ x.at = "wait" /\ InS2c(p, m, p[x.i], c, s)
    /\ w = "replies" => x.at = "wait" /\ InReplies(p, m, p[x.i], c, s)
    /\ w = "none" => Nowhere(x.at, p[x.i], c, s)

\* Whom the server let in had a good attempt; the attempts that are over
\* were not good ones, and only an excuse ends the client before that.
Accepts(p, x, s) ==
    s.st = "authed" => \E i \in 1 .. x.i : p[i].id = s.who /\ Good(p[i])
Tried(p, x, c, s) ==
    \/ Excused(p, s)
    \/ /\ \A j \in 1 .. x.i - 1 : ~Good(p[j])
       /\ x.at = "failed" => ~Good(p[x.i])
       /\ x.at # "failed" => Alive(c)

\* A client that waits in a handler is alive, and has noted in cur what the
\* first attempt was.
Steady(p, x, c, s) ==
    /\ c.st \in {"service", "request", "authed"}
    /\ c.blocked \in {"no", "Signed", "InfoResponse"}
    /\ s.end \in {"no", "lost", "closed"}
    /\ ~Alive(c) => c.blocked = "no"
    /\ s.end = "closed" => ~Alive(c)
    /\ x.at = "sign" => Alive(c)
    /\ c.cur = "ki" => p[1].how = "ki"
    /\ c.st = "service" => x.i = 1 \/ ~Alive(c)

Greeting == Alive(cli) /\ cli.st = "service" => Greeted(s2c)

Queues == IsSeq(msgs) /\ IsSeq(c2s) /\ IsSeq(s2c) /\ IsSeq(replies)
Typed ==
    /\ plan \in Plans
    /\ IsApp(app) /\ app.i \in 1 .. Len(plan)
    /\ app.at \in {"next", "wait", "sign", "ok", "failed", "spin"}
    /\ IsClient(cli) /\ IsServer(srv)

Where == \E w, m : w \in Places /\ Held(w, m) /\ Fits(plan, w, m, app, cli, srv)
History ==
    /\ Accepts(plan, app, srv) /\ Tried(plan, app, cli, srv)
    /\ Steady(plan, app, cli, srv)
AuthInv == Typed /\ Queues /\ Where /\ History /\ Greeting

\* The plan, by PlansAssumption.
LEMMA PlanFacts ==
    ASSUME Typed
    PROVE  /\ DOMAIN plan = 1 .. Len(plan) /\ Len(plan) \in Nat \ {0}
           /\ \A i \in DOMAIN plan :
                 /\ plan[i].how \in {"key", "agent", "none", "password", "ki"}
                 /\ plan[i].id \notin {"-", "pk"}
BY PlansAssumption DEF Typed

\* A message is put down where nothing is.
LEMMA PutFacts ==
    ASSUME NEW q, IsSeq(q), NEW m
    PROVE  /\ IsSeq(Append(q, m)) /\ IsSeq(q \o <<m>>) /\ IsSeq(q \o <<>>)
           /\ Silent(q) /\ m.t \notin Asides => Bears(Append(q, m), m) /\ Bears(q \o <<m>>, m)
           /\ Silent(q) => Silent(q \o <<>>)
           /\ \A b : Bears(q, b) => Bears(q \o <<>>, b)
<1> DEFINE o == <<m>>
           e == <<>>
<1>1. IsSeq(o) /\ IsSeq(e) /\ Silent(e) /\ (m.t \notin Asides => Bears(o, m))
  BY SeqMake, WrittenFacts, Zenon
<1>2. Append(q, m) = q \o o
  BY SeqAppend
<1> HIDE DEF o, e
<1>3. IsSeq(q \o o) /\ IsSeq(q \o e)
  BY <1>1, JoinFacts
<1>4. Silent(q) /\ m.t \notin Asides => Bears(q \o o, m)
  BY <1>1, JoinFacts
<1>5. Silent(q) => Silent(q \o e)
  BY <1>1, JoinFacts
<1>6. \A b : Bears(q, b) => Bears(q \o e, b)
  BY <1>1, JoinFacts
<1> QED  BY <1>2, <1>3, <1>4, <1>5, <1>6, Zenon DEF o, e

\* What is read is no part of an attempt, or the message under way.
LEMMA ReadFacts ==
    ASSUME NEW here, NEW w, NEW q, NEW m, Placed(here, w, q, m), IsSeq(q), q # <<>>
    PROVE  /\ IsSeq(Tail(q))
           /\ \/ Head(q).t \in Asides /\ Placed(here, w, Tail(q), m)
              \/ Head(q) = m /\ w = here /\ Silent(Tail(q)) /\ m.t \notin Asides
<1>1. CASE w = here
  BY <1>1, TailFacts DEF Placed
<1>2. CASE w # here
  BY <1>2, TailFacts DEF Placed
<1> QED  BY <1>1, <1>2

\* The next attempt, or none.
LEMMA NextFacts ==
    ASSUME Typed, NEW y, y = NextAttempt(app)
    PROVE  /\ IsApp(y) /\ y.i \in 1 .. Len(plan) /\ y.at \in {"next", "failed"}
           /\ y.at = "next" => y.i = app.i + 1
           /\ y.at = "failed" => y.i = app.i
<1>1. app.i \in Nat /\ Len(plan) \in Nat /\ 1 <= app.i /\ app.i <= Len(plan)
  BY PlanFacts DEF Typed
<1>2. CASE app.i < Len(plan)
  <2>1. y = [at |-> "next", i |-> app.i + 1]
    BY <1>2 DEF NextAttempt
  <2>2. IsApp(y) /\ y.at = "next" /\ y.i = app.i + 1
    BY <2>1 DEF IsApp
  <2> QED  BY <1>1, <1>2, <2>2
<1>3. CASE ~(app.i < Len(plan))
  <2> DEFINE z == [app EXCEPT !.at = "failed"]
  <2>1. y = z
    BY <1>3 DEF NextAttempt
  <2>2. IsApp(z) /\ z.at = "failed" /\ z.i = app.i
    BY Zenon DEF Typed, IsApp
  <2> HIDE DEF z
  <2> QED  BY <1>1, <2>1, <2>2
<1> QED  BY <1>2, <1>3

\* What NextAttempt leaves of the history.
LEMMA NextHistory ==
    ASSUME Typed, History, NEW y, y = NextAttempt(app),
           Refused(plan, plan[app.i], srv),
           Excused(plan, srv) \/ Alive(cli),
           cli.st = "service" => ~Alive(cli)
    PROVE  /\ Accepts(plan, y, srv) /\ Tried(plan, y, cli, srv)
           /\ Steady(plan, y, cli, srv)
<1>1. app.i \in Nat /\ y.i \in Nat /\ (y.i = app.i \/ y.i = app.i + 1)
      /\ (y.at = "failed" => y.i = app.i) /\ y.at \in {"next", "failed"}
      /\ (y.at = "next" => y.i = app.i + 1)
  BY NextFacts, PlanFacts DEF Typed
<1>2. Accepts(plan, y, srv)
  BY <1>1 DEF History, Accepts
<1>3. Tried(plan, y, cli, srv)
  BY <1>1 DEF History, Tried, Refused
<1>4. Steady(plan, y, cli, srv)
  BY <1>1 DEF History, Steady
<1> QED  BY <1>2, <1>3, <1>4

-----------------------------------------------------------------------------
\* The steps of the application.

LEMMA AppSendKeeps == AuthInv /\ AppSend => AuthInv'
<1> SUFFICES ASSUME AuthInv, AppSend PROVE AuthInv'
  OBVIOUS
<1>1. PICK w, m : w \in Places /\ Held(w, m) /\ Fits(plan, w, m, app, cli, srv)
  BY DEF AuthInv, Where
<1>2. /\ plan' = plan /\ replies' = replies /\ cli' = cli /\ srv' = srv
      /\ c2s' = c2s /\ s2c' = s2c /\ app.at = "next"
  BY DEF AppSend
<1>3. CASE Alive(cli)
  <2> DEFINE x == [app EXCEPT !.at = "wait"]
  <2>1. PICK k : k = [t |-> "Authenticate", a |-> plan[app.i]]
    OBVIOUS
  <2>2. app' = x /\ msgs' = Append(msgs, k)
    BY <1>3, <2>1, Zenon DEF AppSend, Attempt
  <2>3. IsApp(x) /\ x.at = "wait" /\ x.i = app.i
    BY Zenon DEF AuthInv, Typed, IsApp
  <2> HIDE DEF x
  <2>4. w = "none" /\ Ready(cli, srv)
    BY <1>1, <1>2, <1>3 DEF Fits, Nowhere, Places
  <2>5. Silent(msgs) /\ Silent(c2s) /\ Silent(s2c) /\ Silent(replies)
    BY <1>1, <2>4 DEF Held, Placed
  <2>6. k.t \notin Asides
    BY <2>1 DEF Asides
  <2>7. IsSeq(msgs') /\ Bears(msgs', k)
    BY <2>2, <2>5, <2>6, PutFacts DEF AuthInv, Queues
  <2>8. Held("msgs", k)'
    BY <1>2, <2>5, <2>7 DEF Held, Placed
  <2>9. Fits(plan, "msgs", k, x, cli, srv)
    BY <1>3, <2>1, <2>3, <2>4 DEF Fits, InMsgs
  <2>10. Where'
    BY <1>2, <2>2, <2>8, <2>9 DEF Where, Places
  <2>11. Typed'
    BY <1>2, <2>2, <2>3 DEF AuthInv, Typed
  <2>12. Queues'
    BY <1>2, <2>7 DEF AuthInv, Queues
  <2>13. Accepts(plan, x, srv) /\ Tried(plan, x, cli, srv) /\ Steady(plan, x, cli, srv)
    BY <1>2, <2>3 DEF AuthInv, History, Accepts, Tried, Steady
  <2>14. History'
    BY <1>2, <2>2, <2>13 DEF History
  <2>15. Greeting'
    BY <1>2 DEF AuthInv, Greeting, Alive
  <2> QED  BY <2>10, <2>11, <2>12, <2>14, <2>15 DEF AuthInv
<1>4. CASE ~Alive(cli)
  <2> DEFINE x == NextAttempt(app)
  <2>1. app' = x /\ msgs' = msgs
    BY <1>4, Zenon DEF AppSend
  <2>2. IsApp(x) /\ x.i \in 1 .. Len(plan) /\ x.at \in {"next", "failed"}
    BY NextFacts DEF AuthInv
  <2>3. Excused(plan, srv)
    BY <1>2, <1>4 DEF AuthInv, History, Tried
  <2>4. Accepts(plan, x, srv) /\ Tried(plan, x, cli, srv) /\ Steady(plan, x, cli, srv)
    BY <1>4, <2>3, NextHistory DEF AuthInv, Refused
  <2> HIDE DEF x
  <2>5. Fits(plan, w, m, x, cli, srv)
    BY <1>1, <1>2, <1>4, <2>2 DEF Fits, Nowhere
  <2>6. Held(w, m)'
    BY <1>1, <1>2, <2>1 DEF Held, Placed
  <2>7. Where'
    BY <1>1, <1>2, <2>1, <2>5, <2>6 DEF Where
  <2>8. Typed' /\ Queues' /\ History' /\ Greeting'
    BY <1>2, <2>1, <2>2, <2>4 DEF AuthInv, Typed, Queues, History, Greeting, Alive
  <2> QED  BY <2>7, <2>8 DEF AuthInv
<1> QED  BY <1>3, <1>4

LEMMA AppReplyKeeps == AuthInv /\ AppReply => AuthInv'
<1> SUFFICES ASSUME AuthInv, AppReply PROVE AuthInv'
  OBVIOUS
<1>1. PICK w, m : w \in Places /\ Held(w, m) /\ Fits(plan, w, m, app, cli, srv)
  BY DEF AuthInv, Where
<1> DEFINE h == Head(replies)
           r == h.t
           answers == r = "InfoRequest" /\ Attempt.how = "ki"
<1>2. /\ plan' = plan /\ cli' = cli /\ srv' = srv /\ c2s' = c2s /\ s2c' = s2c
      /\ app.at = "wait" /\ replies # <<>> /\ replies' = Tail(replies)
  BY DEF AppReply
<1>3. app' = CASE r = "Success" -> [app EXCEPT !.at = "ok"]
               [] r = "Failure" -> NextAttempt(app)
               [] r = "SignRequest" /\ Attempt.how = "agent" -> [app EXCEPT !.at = "sign"]
               [] answers /\ ~Alive(cli) -> NextAttempt(app)
               [] OTHER -> app
  BY Zenon DEF AppReply
<1>4. msgs' = IF answers /\ Alive(cli) THEN Append(msgs, [t |-> "InfoResponse"]) ELSE msgs
  BY Zenon DEF AppReply
<1> HIDE DEF h
<1>5. /\ IsSeq(replies')
      /\ \/ h.t \in Asides /\ Placed("replies", w, replies', m)
         \/ h = m /\ w = "replies" /\ Silent(replies') /\ m.t \notin Asides
  <2>1. IsSeq(replies) /\ Placed("replies", w, replies, m)
    BY <1>1 DEF AuthInv, Queues, Held
  <2> QED  BY <1>2, <2>1, ReadFacts DEF h
<1>6. CASE h.t \in Asides /\ Placed("replies", w, replies', m)
  <2>1. r # "Success" /\ r # "Failure" /\ r # "SignRequest" /\ r # "InfoRequest"
    BY <1>6 DEF Asides
  <2>2. app' = app /\ msgs' = msgs
    BY <1>3, <1>4, <2>1, Zenon
  <2>3. Held(w, m)'
    BY <1>1, <1>2, <1>6, <2>2 DEF Held, Placed
  <2>4. Where'
    BY <1>1, <1>2, <2>2, <2>3 DEF Where
  <2>5. Typed' /\ Queues' /\ History' /\ Greeting'
    BY <1>2, <1>5, <2>2 DEF AuthInv, Typed, Queues, History, Greeting, Alive
  <2> QED  BY <2>4, <2>5 DEF AuthInv
<1>7. CASE h = m /\ w = "replies" /\ Silent(replies')
  <2> DEFINE a == plan[app.i]
  <2>1. Silent(msgs) /\ Silent(c2s) /\ Silent(s2c) /\ InReplies(plan, m, a, cli, srv)
    BY <1>1, <1>7 DEF Held, Placed, Fits
  <2>2. CASE m = [t |-> "Success"] /\ srv.st = "authed" /\ srv.who = a.id
    <3> DEFINE x == [app EXCEPT !.at = "ok"]
    <3>1. r = "Success" /\ r # "Failure" /\ r # "SignRequest" /\ r # "InfoRequest"
      BY <1>7, <2>2
    <3>2. app' = x /\ msgs' = msgs
      BY <1>3, <1>4, <3>1, Zenon
    <3>3. IsApp(x) /\ x.at = "ok" /\ x.i = app.i
      BY Zenon DEF AuthInv, Typed, IsApp
    <3> HIDE DEF x
    <3>4. Held("none", m)'
      BY <1>2, <1>7, <2>1, <3>2 DEF Held, Placed
    <3>5. Fits(plan, "none", m, x, cli, srv)
      BY <2>2, <3>3 DEF Fits, Nowhere
    <3>6. Where'
      BY <1>2, <3>2, <3>4, <3>5 DEF Where, Places
    <3>7. Accepts(plan, x, srv) /\ Tried(plan, x, cli, srv) /\ Steady(plan, x, cli, srv)
      BY <1>2, <3>3 DEF AuthInv, History, Accepts, Tried, Steady
    <3>8. Typed' /\ Queues' /\ History' /\ Greeting'
      BY <1>2, <1>5, <3>2, <3>3, <3>7 DEF AuthInv, Typed, Queues, History, Greeting, Alive
    <3> QED  BY <3>6, <3>8 DEF AuthInv
  <2>3. CASE /\ m = [t |-> "Failure"] /\ Both("request", cli, srv)
             /\ Refused(plan, a, srv) /\ cli.blocked = "no"
    <3> DEFINE x == NextAttempt(app)
    <3>1. r = "Failure" /\ r # "Success" /\ r # "SignRequest" /\ r # "InfoRequest"
      BY <1>7, <2>3
    <3>2. app' = x /\ msgs' = msgs
      BY <1>3, <1>4, <3>1, Zenon
    <3>3. IsApp(x) /\ x.i \in 1 .. Len(plan) /\ x.at \in {"next", "failed"}
      BY NextFacts DEF AuthInv
    <3>4. cli.st = "request" /\ srv.st = "request"
      BY <2>3 DEF Both
    <3>5. Excused(plan, srv) \/ Alive(cli)
      BY <1>2 DEF AuthInv, History, Tried
    <3>6. Accepts(plan, x, srv) /\ Tried(plan, x, cli, srv) /\ Steady(plan, x, cli, srv)
      BY <2>3, <3>4, <3>5, NextHistory DEF AuthInv
    <3> HIDE DEF x
    <3>7. Held("none", m)'
      BY <1>2, <1>7, <2>1, <3>2 DEF Held, Placed
    <3>8. Fits(plan, "none", m, x, cli, srv)
      BY <2>3, <3>3, <3>4 DEF Fits, Nowhere, Ready, Both
    <3>9. Where'
      BY <1>2, <3>2, <3>7, <3>8 DEF Where, Places
    <3>10. Typed' /\ Queues' /\ History' /\ Greeting'
      BY <1>2, <1>5, <3>2, <3>3, <3>6 DEF AuthInv, Typed, Queues, History, Greeting, Alive
    <3> QED  BY <3>9, <3>10 DEF AuthInv
  <2>4. CASE /\ m = [t |-> "SignRequest"] /\ Alive(cli) /\ Probed(a, cli, srv)
             /\ cli.blocked = "Signed" /\ a.how = "agent"
    <3> DEFINE x == [app EXCEPT !.at = "sign"]
    <3>1. r = "SignRequest" /\ r # "Success" /\ r # "Failure" /\ r # "InfoRequest"
      BY <1>7, <2>4
    <3>2. app' = x /\ msgs' = msgs
      BY <1>3, <1>4, <2>4, <3>1, Zenon DEF Attempt
    <3>3. IsApp(x) /\ x.at = "sign" /\ x.i = app.i
      BY Zenon DEF AuthInv, Typed, IsApp
    <3> HIDE DEF x
    <3>4. Held("none", m)'
      BY <1>2, <1>7, <2>1, <3>2 DEF Held, Placed
    <3>5. Fits(plan, "none", m, x, cli, srv)
      BY <2>4, <3>3 DEF Fits, Nowhere
    <3>6. Where'
      BY <1>2, <3>2, <3>4, <3>5 DEF Where, Places
    <3>7. Accepts(plan, x, srv) /\ Tried(plan, x, cli, srv) /\ Steady(plan, x, cli, srv)
      BY <1>2, <2>4, <3>3 DEF AuthInv, History, Accepts, Tried, Steady
    <3>8. Typed' /\ Queues' /\ History' /\ Greeting'
      BY <1>2, <1>5, <3>2, <3>3, <3>7 DEF AuthInv, Typed, Queues, History, Greeting, Alive
    <3> QED  BY <3>6, <3>8 DEF AuthInv
  <2>5. CASE /\ m = [t |-> "InfoRequest"] /\ Alive(cli) /\ Asked(a, cli, srv)
             /\ cli.blocked = "InfoResponse"
    <3>1. PICK k : k = [t |-> "InfoResponse"]
      OBVIOUS
    <3>2. r = "InfoRequest" /\ r # "Success" /\ r # "Failure" /\ r # "SignRequest"
      BY <1>7, <2>5
    <3>3. a.how = "ki"
      BY <2>5 DEF Asked
    <3>4. app' = app /\ msgs' = Append(msgs, k)
      BY <1>3, <1>4, <2>5, <3>1, <3>2, <3>3, Zenon DEF Attempt
    <3>5. k.t \notin Asides
      BY <3>1 DEF Asides
    <3>6. IsSeq(msgs') /\ Bears(msgs', k)
      BY <2>1, <3>4, <3>5, PutFacts DEF AuthInv, Queues
    <3>7. Held("msgs", k)'
      BY <1>2, <1>7, <2>1, <3>6 DEF Held, Placed
    <3>8. Fits(plan, "msgs", k, app, cli, srv)
      BY <1>2, <2>5, <3>1 DEF Fits, InMsgs
    <3>9. Where'
      BY <1>2, <3>4, <3>7, <3>8 DEF Where, Places
    <3>10. Typed' /\ Queues' /\ History' /\ Greeting'
      BY <1>2, <1>5, <3>4, <3>6 DEF AuthInv, Typed, Queues, History, Greeting, Alive
    <3> QED  BY <3>9, <3>10 DEF AuthInv
  <2> QED  BY <2>1, <2>2, <2>3, <2>4, <2>5 DEF InReplies
<1> QED  BY <1>5, <1>6, <1>7

LEMMA AppNoReplyKeeps == AuthInv /\ AppNoReply => AuthInv'
<1> SUFFICES ASSUME AuthInv, AppNoReply PROVE AuthInv'
  OBVIOUS
<1>1. PICK w, m : w \in Places /\ Held(w, m) /\ Fits(plan, w, m, app, cli, srv)
  BY DEF AuthInv, Where
<1>2. /\ plan' = plan /\ cli' = cli /\ srv' = srv /\ c2s' = c2s /\ s2c' = s2c
      /\ msgs' = msgs /\ replies' = replies
      /\ app.at = "wait" /\ replies = <<>> /\ ~Alive(cli)
  BY DEF AppNoReply
<1>3. w # "replies"
  BY <1>1, <1>2, BearsSome DEF Held, Placed
<1>4. Excused(plan, srv) /\ srv.st # "authed"
  BY <1>1, <1>2, <1>3 DEF AuthInv, History, Tried, Fits, Places, Nowhere
<1>5. Held(w, m)'
  BY <1>1, <1>2 DEF Held, Placed
<1>6. CASE Attempt.how = "ki"
  <2> DEFINE x == [app EXCEPT !.at = "spin"]
  <2>1. app' = x
    BY <1>6, Zenon DEF AppNoReply
  <2>2. IsApp(x) /\ x.at = "spin" /\ x.i = app.i
    BY Zenon DEF AuthInv, Typed, IsApp
  <2> HIDE DEF x
  <2>3. Fits(plan, w, m, x, cli, srv)
    BY <1>1, <1>2, <1>3, <1>4, <2>2 DEF Fits, Nowhere
  <2>4. Where'
    BY <1>1, <1>2, <1>5, <2>1, <2>3 DEF Where
  <2>5. Accepts(plan, x, srv) /\ Tried(plan, x, cli, srv) /\ Steady(plan, x, cli, srv)
    BY <1>2, <1>4, <2>2 DEF AuthInv, History, Accepts, Tried, Steady
  <2>6. Typed' /\ Queues' /\ History' /\ Greeting'
    BY <1>2, <2>1, <2>2, <2>5 DEF AuthInv, Typed, Queues, History, Greeting, Alive
  <2> QED  BY <2>4, <2>6 DEF AuthInv
<1>7. CASE Attempt.how # "ki"
  <2> DEFINE x == NextAttempt(app)
  <2>1. app' = x
    BY <1>7, Zenon DEF AppNoReply
  <2>2. IsApp(x) /\ x.i \in 1 .. Len(plan) /\ x.at \in {"next", "failed"}
    BY NextFacts DEF AuthInv
  <2>3. Accepts(plan, x, srv) /\ Tried(plan, x, cli, srv) /\ Steady(plan, x, cli, srv)
    BY <1>2, <1>4, NextHistory DEF AuthInv, Refused
  <2> HIDE DEF x
  <2>4. Fits(plan, w, m, x, cli, srv)
    BY <1>1, <1>2, <1>3, <1>4, <2>2 DEF Fits, Nowhere
  <2>5. Where'
    BY <1>1, <1>2, <1>5, <2>1, <2>4 DEF Where
  <2>6. Typed' /\ Queues' /\ History' /\ Greeting'
    BY <1>2, <2>1, <2>2, <2>3 DEF AuthInv, Typed, Queues, History, Greeting, Alive
  <2> QED  BY <2>5, <2>6 DEF AuthInv
<1> QED  BY <1>6, <1>7

LEMMA AppSignKeeps == AuthInv /\ AppSign => AuthInv'
<1> SUFFICES ASSUME AuthInv, AppSign PROVE AuthInv'
  OBVIOUS
<1>1. PICK w, m : w \in Places /\ Held(w, m) /\ Fits(plan, w, m, app, cli, srv)
  BY DEF AuthInv, Where
<1> DEFINE a == plan[app.i]
<1>2. /\ plan' = plan /\ cli' = cli /\ srv' = srv /\ c2s' = c2s /\ s2c' = s2c
      /\ replies' = replies /\ app.at = "sign"
  BY DEF AppSign
<1>3. Alive(cli)
  BY <1>2 DEF AuthInv, History, Steady
<1>4. w = "none" /\ Probed(a, cli, srv) /\ cli.blocked = "Signed" /\ a.how = "agent"
  BY <1>1, <1>2, <1>3 DEF Fits, Nowhere, Places
<1>5. Silent(msgs) /\ Silent(c2s) /\ Silent(s2c) /\ Silent(replies)
  BY <1>1, <1>4 DEF Held, Placed
<1>6. CASE a.sig = "fails"
  <2> DEFINE x == NextAttempt(app)
  <2>1. app' = x /\ msgs' = msgs
    BY <1>6, Zenon DEF AppSign, Attempt
  <2>2. IsApp(x) /\ x.i \in 1 .. Len(plan) /\ x.at \in {"next", "failed"}
    BY NextFacts DEF AuthInv
  <2>3. cli.st = "request" /\ srv.st = "request"
    BY <1>4 DEF Probed, Both
  <2>4. Excused(plan, srv)
    BY <1>4, <1>6, PlanFacts DEF AuthInv, Typed, Excused, AstrayIn
  <2>5. Accepts(plan, x, srv) /\ Tried(plan, x, cli, srv) /\ Steady(plan, x, cli, srv)
    BY <2>3, <2>4, NextHistory DEF AuthInv, Refused
  <2> HIDE DEF x
  <2>6. Held(w, m)'
    BY <1>1, <1>2, <2>1 DEF Held, Placed
  <2>7. Fits(plan, w, m, x, cli, srv)
    BY <1>4, <2>2, <2>3 DEF Fits, Nowhere, Ready, Both
  <2>8. Where'
    BY <1>1, <1>2, <2>1, <2>6, <2>7 DEF Where
  <2>9. Typed' /\ Queues' /\ History' /\ Greeting'
    BY <1>2, <2>1, <2>2, <2>5 DEF AuthInv, Typed, Queues, History, Greeting, Alive
  <2> QED  BY <2>8, <2>9 DEF AuthInv
<1>7. CASE a.sig # "fails"
  <2> DEFINE x == [app EXCEPT !.at = "wait"]
  <2>1. PICK k : k = [t |-> "Signed", a |-> a]
    OBVIOUS
  <2>2. app' = x /\ msgs' = Append(msgs, k)
    BY <1>3, <1>7, <2>1, Zenon DEF AppSign, Attempt
  <2>3. IsApp(x) /\ x.at = "wait" /\ x.i = app.i
    BY Zenon DEF AuthInv, Typed, IsApp
  <2> HIDE DEF x
  <2>4. k.t \notin Asides
    BY <2>1 DEF Asides
  <2>5. IsSeq(msgs') /\ Bears(msgs', k)
    BY <1>5, <2>2, <2>4, PutFacts DEF AuthInv, Queues
  <2>6. Held("msgs", k)'
    BY <1>2, <1>5, <2>5 DEF Held, Placed
  <2>7. Fits(plan, "msgs", k, x, cli, srv)
    BY <1>3, <1>4, <2>1, <2>3 DEF Fits, InMsgs
  <2>8. Where'
    BY <1>2, <2>2, <2>6, <2>7 DEF Where, Places
  <2>9. Accepts(plan, x, srv) /\ Tried(plan, x, cli, srv) /\ Steady(plan, x, cli, srv)
    BY <1>2, <1>3, <2>3 DEF AuthInv, History, Accepts, Tried, Steady
  <2>10. Typed' /\ Queues' /\ History' /\ Greeting'
    BY <1>2, <2>2, <2>3, <2>5, <2>9 DEF AuthInv, Typed, Queues, History, Greeting, Alive
  <2> QED  BY <2>8, <2>10 DEF AuthInv
<1> QED  BY <1>6, <1>7

-----------------------------------------------------------------------------
\* The steps of the client.

LEMMA ClientMsgKeeps == AuthInv /\ ClientMsg => AuthInv'
<1> SUFFICES ASSUME AuthInv, ClientMsg PROVE AuthInv'
  OBVIOUS
<1>1. PICK w, m : w \in Places /\ Held(w, m) /\ Fits(plan, w, m, app, cli, srv)
  BY DEF AuthInv, Where
<1> DEFINE h == Head(msgs)
           r == WriteAuthRequestIfNeeded(cli, h.a)
<1>2. /\ plan' = plan /\ app' = app /\ srv' = srv /\ s2c' = s2c /\ replies' = replies
      /\ Alive(cli) /\ cli.blocked = "no" /\ msgs # <<>> /\ msgs' = Tail(msgs)
  BY DEF ClientMsg
<1>3. IF h.t = "Authenticate" THEN cli' = r.ses /\ c2s' = c2s \o r.out
      ELSE cli' = cli /\ c2s' = c2s
  BY Zenon DEF ClientMsg
<1> HIDE DEF h
<1>4. /\ IsSeq(msgs')
      /\ \/ h.t \in Asides /\ Placed("msgs", w, msgs', m)
         \/ h = m /\ w = "msgs" /\ Silent(msgs') /\ m.t \notin Asides
  <2>1. IsSeq(msgs) /\ Placed("msgs", w, msgs, m)
    BY <1>1 DEF AuthInv, Queues, Held
  <2> QED  BY <1>2, <2>1, ReadFacts DEF h
<1>5. CASE h.t \in Asides /\ Placed("msgs", w, msgs', m)
  <2>1. h.t # "Authenticate"
    BY <1>5 DEF Asides
  <2>2. cli' = cli /\ c2s' = c2s
    BY <1>3, <2>1, Zenon
  <2>3. Held(w, m)'
    BY <1>1, <1>2, <1>5, <2>2 DEF Held, Placed
  <2>4. Where'
    BY <1>1, <1>2, <2>2, <2>3 DEF Where
  <2>5. Typed' /\ Queues' /\ History' /\ Greeting'
    BY <1>2, <1>4, <2>2 DEF AuthInv, Typed, Queues, History, Greeting, Alive
  <2> QED  BY <2>4, <2>5 DEF AuthInv
<1>6. CASE h = m /\ w = "msgs" /\ Silent(msgs')
  <2> DEFINE a == plan[app.i]
  <2>1. /\ Silent(c2s) /\ Silent(s2c) /\ Silent(replies) /\ app.at = "wait"
        /\ m = [t |-> "Authenticate", a |-> a] /\ Ready(cli, srv)
    BY <1>1, <1>2, <1>6 DEF Held, Placed, Fits, InMsgs
  <2>2. h.t = "Authenticate" /\ h.a = a
    BY <1>6, <2>1
  <2>3. cli' = r.ses /\ c2s' = c2s \o r.out
    BY <1>3, <2>2, Zenon
  <2>4. /\ KeepsClient(cli, r.ses) /\ r.ses.method = <<a>>
        /\ cli.st = "service" /\ ~cli.sent /\ ~cli.accepted =>
              r.out = <<[t |-> "SERVICE_REQUEST"]>>
        /\ cli.st = "request" => r.out = <<Plain(a)>>
    <3>1. r = WriteAuthRequestIfNeeded(cli, a) /\ IsClient(cli)
      BY <2>2 DEF AuthInv, Typed
    <3> HIDE DEF r, a
    <3> QED  BY <3>1, WriteFacts
  <2> HIDE DEF r
  <2>5. PICK k : /\ r.out = <<k>>
                 /\ \/ k = [t |-> "SERVICE_REQUEST"] /\ Both("service", cli, srv)
                    \/ k = Plain(a) /\ Both("request", cli, srv)
    BY <2>1, <2>4 DEF Ready, Both
  <2>6. k.t \notin Asides
    BY <2>5 DEF Asides, Request, Plain, Real
  <2>7. IsSeq(c2s') /\ Bears(c2s', k)
    <3>1. IsSeq(c2s) /\ Silent(c2s)
      BY <2>1 DEF AuthInv, Queues
    <3> QED  BY <2>3, <2>5, <2>6, <3>1, PutFacts, Zenon
  <2>8. Held("c2s", k)'
    BY <1>2, <1>6, <2>1, <2>7 DEF Held, Placed
  <2>9. PICK d : d = cli'
    OBVIOUS
  <2>10. KeepsClient(cli, d) /\ d.method = <<a>>
    BY <2>3, <2>4, <2>9
  <2>11. Fits(plan, "c2s", k, app, d, srv)
    BY <1>2, <2>1, <2>5, <2>10 DEF Fits, InC2s, KeepsClient, Alive, Both
  <2>12. Where'
    BY <1>2, <2>8, <2>9, <2>11 DEF Where, Places
  <2>13. Accepts(plan, app, srv) /\ Tried(plan, app, d, srv) /\ Steady(plan, app, d, srv)
    BY <1>2, <2>10 DEF AuthInv, History, Tried, Steady, KeepsClient, Alive
  <2>14. IsClient(d)
    BY <2>10 DEF KeepsClient
  <2>15. Typed' /\ Queues' /\ History'
    BY <1>2, <1>4, <2>7, <2>9, <2>13, <2>14 DEF AuthInv, Typed, Queues, History
  <2>16. Greeting'
    BY <1>2, <2>9, <2>10 DEF AuthInv, Greeting, KeepsClient, Alive
  <2> QED  BY <2>12, <2>15, <2>16 DEF AuthInv
<1> QED  BY <1>4, <1>5, <1>6

LEMMA ClientUnblockKeeps == AuthInv /\ ClientUnblock => AuthInv'
<1> SUFFICES ASSUME AuthInv, ClientUnblock PROVE AuthInv'
  OBVIOUS
<1>1. PICK w, m : w \in Places /\ Held(w, m) /\ Fits(plan, w, m, app, cli, srv)
  BY DEF AuthInv, Where
<1> DEFINE h == Head(msgs)
           d == [cli EXCEPT !.blocked = "no"]
<1>2. /\ plan' = plan /\ app' = app /\ srv' = srv /\ s2c' = s2c /\ replies' = replies
      /\ Alive(cli) /\ cli.blocked # "no" /\ msgs # <<>> /\ msgs' = Tail(msgs)
  BY DEF ClientUnblock
<1>3. /\ cli' = IF h.t = cli.blocked THEN d ELSE cli
      /\ c2s' = IF h.t # cli.blocked THEN c2s
                ELSE IF h.t = "InfoResponse" THEN Append(c2s, [t |-> "INFO_RESPONSE"])
                ELSE IF h.a.sig # "unsigned" THEN Append(c2s, Request(h.a, TRUE))
                ELSE c2s
  BY Zenon DEF ClientUnblock
<1>4. /\ IsClient(d) /\ d.end = cli.end /\ d.st = cli.st /\ d.cur = cli.cur
      /\ d.method = cli.method /\ d.blocked = "no"
  BY Zenon DEF AuthInv, Typed, IsClient
<1> HIDE DEF h, d
<1>5. /\ IsSeq(msgs')
      /\ \/ h.t \in Asides /\ Placed("msgs", w, msgs', m)
         \/ h = m /\ w = "msgs" /\ Silent(msgs') /\ m.t \notin Asides
  <2>1. IsSeq(msgs) /\ Placed("msgs", w, msgs, m)
    BY <1>1 DEF AuthInv, Queues, Held
  <2> QED  BY <1>2, <2>1, ReadFacts DEF h
<1>6. cli.blocked \in {"Signed", "InfoResponse"}
  BY <1>2 DEF AuthInv, History, Steady
<1>7. CASE h.t \in Asides /\ Placed("msgs", w, msgs', m)
  <2>1. h.t # cli.blocked
    BY <1>6, <1>7 DEF Asides
  <2>2. cli' = cli /\ c2s' = c2s
    BY <1>3, <2>1, Zenon
  <2>3. Held(w, m)'
    BY <1>1, <1>2, <1>7, <2>2 DEF Held, Placed
  <2>4. Where'
    BY <1>1, <1>2, <2>2, <2>3 DEF Where
  <2>5. Typed' /\ Queues' /\ History' /\ Greeting'
    BY <1>2, <1>5, <2>2 DEF AuthInv, Typed, Queues, History, Greeting, Alive
  <2> QED  BY <2>4, <2>5 DEF AuthInv
<1>8. CASE h = m /\ w = "msgs" /\ Silent(msgs')
  <2> DEFINE a == plan[app.i]
  <2>1. /\ Silent(c2s) /\ Silent(s2c) /\ Silent(replies) /\ app.at = "wait"
        /\ InMsgs(m, a, cli, srv)
    BY <1>1, <1>2, <1>8 DEF Held, Placed, Fits
  <2>2. CASE h.t # cli.blocked
    <3>1. cli' = cli /\ c2s' = c2s
      BY <1>3, <2>2, Zenon
    <3>2. Held("none", m)'
      BY <1>2, <1>8, <2>1, <3>1 DEF Held, Placed
    <3>3. Fits(plan, "none", m, app, cli, srv)
      BY <2>1 DEF Fits, Nowhere, InMsgs, Ready, Probed, Asked, Both
    <3>4. Where'
      BY <1>2, <3>1, <3>2, <3>3 DEF Where, Places
    <3>5. Typed' /\ Queues' /\ History' /\ Greeting'
      BY <1>2, <1>5, <3>1 DEF AuthInv, Typed, Queues, History, Greeting, Alive
    <3> QED  BY <3>4, <3>5 DEF AuthInv
  <2>3. CASE h.t = cli.blocked
    <3>1. /\ cli' = d
          /\ c2s' = IF h.t = "InfoResponse" THEN Append(c2s, [t |-> "INFO_RESPONSE"])
                    ELSE IF h.a.sig # "unsigned" THEN Append(c2s, Request(h.a, TRUE))
                    ELSE c2s
      BY <1>3, <2>3, Zenon
    <3>2. PICK e : e = d
      OBVIOUS
    <3>3. /\ IsClient(e) /\ e.end = cli.end /\ e.st = cli.st /\ e.cur = cli.cur
          /\ e.method = cli.method /\ e.blocked = "no" /\ cli' = e
      BY <1>4, <3>1, <3>2
    <3>4. \/ m = [t |-> "Signed", a |-> a] /\ Probed(a, cli, srv)
          \/ m = [t |-> "InfoResponse"] /\ Asked(a, cli, srv)
      BY <1>6, <1>8, <2>1, <2>3 DEF InMsgs
    <3>5. \E v, k :
             /\ v \in {"c2s", "none"} /\ IsSeq(c2s')
             /\ Placed("c2s", v, c2s', k) /\ Fits(plan, v, k, app, e, srv)
      <4>1. CASE m = [t |-> "InfoResponse"] /\ Asked(a, cli, srv)
        <5>1. PICK k : k = [t |-> "INFO_RESPONSE"]
          OBVIOUS
        <5>2. c2s' = Append(c2s, k) /\ k.t \notin Asides
          BY <1>8, <3>1, <4>1, <5>1 DEF Asides
        <5>3. IsSeq(c2s') /\ Bears(c2s', k)
          BY <2>1, <5>2, PutFacts DEF AuthInv, Queues
        <5>4. Fits(plan, "c2s", k, app, e, srv)
          BY <1>2, <2>1, <3>3, <4>1, <5>1 DEF Fits, InC2s, Asked, Both, Alive
        <5> QED  BY <5>3, <5>4 DEF Placed
      <4>2. CASE m = [t |-> "Signed", a |-> a] /\ Probed(a, cli, srv) /\ a.sig # "unsigned"
        <5>1. PICK k : k = Real(a)
          OBVIOUS
        <5>2. h.t # "InfoResponse" /\ h.a = a
          BY <1>8, <4>2
        <5>3. c2s' = Append(c2s, k)
          BY <3>1, <4>2, <5>1, <5>2, Zenon DEF Real
        <5>4. k.t \notin Asides
          BY <5>1 DEF Asides, Request, Plain, Real
        <5>5. IsSeq(c2s') /\ Bears(c2s', k)
          BY <2>1, <5>3, <5>4, PutFacts DEF AuthInv, Queues
        <5>6. Fits(plan, "c2s", k, app, e, srv)
          BY <1>2, <2>1, <3>3, <4>2, <5>1 DEF Fits, InC2s, Probed, Both, Alive
        <5> QED  BY <5>5, <5>6 DEF Placed
      <4>3. CASE m = [t |-> "Signed", a |-> a] /\ Probed(a, cli, srv) /\ a.sig = "unsigned"
        <5>1. h.t # "InfoResponse" /\ h.a = a
          BY <1>8, <4>3
        <5>2. c2s' = c2s
          BY <3>1, <4>3, <5>1, Zenon
        <5>3. Fits(plan, "none", m, app, e, srv)
          BY <2>1, <4>3 DEF Fits, Nowhere, Probed, Both
        <5> QED  BY <2>1, <5>2, <5>3 DEF Placed, AuthInv, Queues
      <4> QED  BY <3>4, <4>1, <4>2, <4>3
    <3>6. PICK v, k :
             /\ v \in {"c2s", "none"} /\ IsSeq(c2s')
             /\ Placed("c2s", v, c2s', k) /\ Fits(plan, v, k, app, e, srv)
      BY <3>5
    <3>7. Held(v, k)'
      BY <1>2, <1>8, <2>1, <3>6 DEF Held, Placed
    <3>8. Where'
      BY <1>2, <3>3, <3>6, <3>7 DEF Where, Places
    <3>9. Accepts(plan, app, srv) /\ Tried(plan, app, e, srv) /\ Steady(plan, app, e, srv)
      BY <3>3 DEF AuthInv, History, Tried, Steady, Alive
    <3>10. Typed' /\ Queues' /\ History' /\ Greeting'
      BY <1>2, <1>5, <3>3, <3>6, <3>9 DEF AuthInv, Typed, Queues, History, Greeting, Alive
    <3> QED  BY <3>8, <3>10 DEF AuthInv
  <2> QED  BY <2>2, <2>3
<1> QED  BY <1>5, <1>7, <1>8

LEMMA ClientEndsKeeps == AuthInv /\ ClientEnds => AuthInv'
<1> SUFFICES ASSUME AuthInv, ClientEnds PROVE AuthInv'
  OBVIOUS
<1>1. PICK w, m : w \in Places /\ Held(w, m) /\ Fits(plan, w, m, app, cli, srv)
  BY DEF AuthInv, Where
<1> DEFINE d == [cli EXCEPT !.end = "closed"]
<1>2. /\ plan' = plan /\ app' = app /\ srv' = srv /\ c2s' = c2s /\ s2c' = s2c
      /\ msgs' = msgs /\ replies' = replies /\ cli' = d
      /\ Alive(cli) /\ cli.blocked = "no"
      /\ app.at = "failed" \/ (~Alive(srv) /\ s2c = <<>>)
  BY Zenon DEF ClientEnds
<1>3. IsClient(cli)
  BY DEF AuthInv, Typed
<1>4. EndsClient(cli, d)
  BY <1>3, EndsFacts, Zenon
<1> HIDE DEF d
<1>5. PICK e : e = d
  OBVIOUS
<1>6. EndsClient(cli, e) /\ ~Alive(e) /\ cli' = e
  BY <1>2, <1>4, <1>5 DEF EndsClient, Alive
<1>7. w # "s2c"
  BY <1>1, <1>2, BearsSome DEF Held, Placed, Fits
<1>8. Fits(plan, w, m, app, e, srv)
  <2>1. CASE w = "msgs"
    BY <1>1, <1>2, <1>6, <2>1 DEF Fits, InMsgs, Ready, Probed, Asked, Both
  <2>2. CASE w = "c2s"
    BY <1>1, <1>2, <1>6, <2>2 DEF Fits, InC2s, Probed, Asked, Both
  <2>3. CASE w = "replies"
    BY <1>1, <1>2, <1>6, <2>3 DEF Fits, InReplies, Both, EndsClient
  <2>4. CASE w = "none"
    BY <1>1, <1>2, <1>6, <2>4 DEF Fits, Nowhere
  <2> QED  BY <1>1, <1>7, <2>1, <2>2, <2>3, <2>4 DEF Places
<1>9. Held(w, m)'
  BY <1>1, <1>2 DEF Held, Placed
<1>10. Where'
  BY <1>1, <1>2, <1>6, <1>8, <1>9 DEF Where
<1>11. ~Alive(srv) => Excused(plan, srv)
  BY <1>2 DEF AuthInv, History, Steady, Excused, Alive
<1>12. Accepts(plan, app, srv) /\ Tried(plan, app, e, srv) /\ Steady(plan, app, e, srv)
  <2>1. Tried(plan, app, e, srv)
    BY <1>2, <1>11 DEF AuthInv, History, Tried
  <2>2. app.at # "sign"
    BY <1>1, <1>2 DEF Fits, Nowhere, Places
  <2>3. Steady(plan, app, e, srv)
    BY <1>2, <1>6, <2>2 DEF AuthInv, History, Steady, EndsClient
  <2> QED  BY <2>1, <2>3 DEF AuthInv, History
<1>13. Typed' /\ Queues' /\ History' /\ Greeting'
  BY <1>2, <1>6, <1>12 DEF AuthInv, Typed, Queues, History, Greeting, Alive, EndsClient
<1> QED  BY <1>10, <1>13 DEF AuthInv

\* What a packet of the attempt leads to.
Leads(v, k, d) ==
    /\ IsSeq(c2s') /\ IsSeq(replies')
    /\ Placed("c2s", v, c2s', k) /\ Placed("replies", v, replies', k)
    /\ Fits(plan, v, k, app, d, srv)
    /\ Tried(plan, app, d, srv) /\ Steady(plan, app, d, srv)
    /\ IsClient(d) /\ d.st # "service"

Writes(r) == c2s' = c2s \o r.out /\ replies' = replies \o r.rep

\* What the client makes of the message it reads.
LEMMA ClientLeads ==
    ASSUME AuthInv, NEW m, Silent(c2s), Silent(replies), Alive(cli), app.at = "wait",
           InS2c(plan, m, plan[app.i], cli, srv),
           NEW r, r = ClientHandle(cli, m), Writes(r)
    PROVE  \E v, k : v \in {"c2s", "replies", "none"} /\ Leads(v, k, r.ses)
<1> DEFINE a == plan[app.i]
<1>1. IsSeq(c2s) /\ IsSeq(replies) /\ IsClient(cli) /\ cli.blocked = "no"
  BY DEF AuthInv, Queues, Typed, InS2c
<1>2. PICK d : d = r.ses
  OBVIOUS
<1>3. /\ a.how \in {"key", "agent", "none", "password", "ki"}
      /\ app.i \in DOMAIN plan /\ app.i \in Nat /\ 1 <= app.i
  BY PlanFacts DEF AuthInv, Typed
<1>4. Tried(plan, app, cli, srv) /\ Steady(plan, app, cli, srv)
  BY DEF AuthInv, History
<1>5. ASSUME r.rep = <<>> PROVE replies' = replies \o <<>> /\ IsSeq(replies') /\ Silent(replies')
  BY <1>1, <1>5, PutFacts, Zenon DEF Writes
<1>6. ASSUME r.out = <<>> PROVE c2s' = c2s \o <<>> /\ IsSeq(c2s') /\ Silent(c2s')
  BY <1>1, <1>6, PutFacts, Zenon DEF Writes
<1>7. ASSUME NEW k, r.out = <<k>>, k.t \notin Asides PROVE IsSeq(c2s') /\ Bears(c2s', k)
  BY <1>1, <1>7, PutFacts, Zenon DEF Writes
<1>8. ASSUME NEW k, r.rep = <<k>>, k.t \notin Asides PROVE IsSeq(replies') /\ Bears(replies', k)
  BY <1>1, <1>8, PutFacts, Zenon DEF Writes
<1> HIDE DEF a
<1>9. CASE /\ m = [t |-> "SERVICE_ACCEPT"] /\ cli.st = "service" /\ srv.st = "request"
           /\ cli.method = <<a>>
  <2>1. m.t = "SERVICE_ACCEPT" /\ cli.st = "service" /\ cli.method = <<a>>
    BY <1>9
  <2>2. PICK k : k = Plain(a)
    OBVIOUS
  <2>3. /\ r.out = <<k>> /\ r.rep = <<>>
        /\ IsClient(d) /\ d.end = cli.end /\ d.st = "request" /\ d.method = <<a>>
        /\ d.blocked = cli.blocked /\ d.cur = IF a.how = "ki" THEN "ki" ELSE "-"
    BY <1>1, <1>2, <2>1, <2>2, ClientAccept
  <2>4. k.t \notin Asides /\ r.out = <<k>>
    BY <2>3, <2>2 DEF Asides, Request, Plain, Real
  <2>5. Fits(plan, "c2s", k, app, d, srv)
    BY <1>1, <1>9, <2>3, <2>2 DEF Fits, InC2s, Both, Alive, a
  <2>6. app.i = 1
    BY <1>4, <1>9 DEF Steady
  <2>7. Tried(plan, app, d, srv) /\ Steady(plan, app, d, srv)
    BY <1>4, <2>3, <2>6 DEF Tried, Steady, Alive, a
  <2>8. Leads("c2s", k, d)
    BY <1>5, <1>7, <2>3, <2>4, <2>5, <2>7 DEF Leads, Placed
  <2> QED  BY <1>2, <2>8
<1>10. CASE m = [t |-> "SUCCESS"] /\ cli.st = "request" /\ srv.st = "authed" /\ srv.who = a.id
  <2>1. m.t = "SUCCESS"
    BY <1>10
  <2>2. /\ r.out = <<>> /\ r.rep = <<[t |-> "Success"]>>
        /\ IsClient(d) /\ d.end = cli.end /\ d.st = "authed"
        /\ d.blocked = cli.blocked /\ d.cur = cli.cur
    BY <1>1, <1>2, <1>10, <2>1, ClientSuccess
  <2>3. PICK k : k = [t |-> "Success"]
    OBVIOUS
  <2>4. k.t \notin Asides /\ r.rep = <<k>>
    BY <2>2, <2>3 DEF Asides
  <2>5. Fits(plan, "replies", k, app, d, srv)
    BY <1>1, <1>10, <2>2, <2>3 DEF Fits, InReplies, a
  <2>6. Tried(plan, app, d, srv) /\ Steady(plan, app, d, srv)
    BY <1>4, <2>2 DEF Tried, Steady, Alive
  <2>7. Leads("replies", k, d)
    BY <1>6, <1>8, <2>2, <2>4, <2>5, <2>6 DEF Leads, Placed
  <2> QED  BY <1>2, <2>7
<1>11. CASE /\ m.t = "FAILURE" /\ Both("request", cli, srv) /\ Refused(plan, a, srv)
            /\ m.methods = {} => srv.shut
  <2>1. cli.st = "request" /\ srv.st = "request"
    BY <1>11 DEF Both
  <2>2. /\ r.out = <<>> /\ r.rep = <<[t |-> "Failure"]>>
        /\ IsClient(d) /\ d.st = "request"
        /\ d.blocked = cli.blocked /\ d.cur = cli.cur
        /\ d.end = IF m.methods = {} THEN "no method" ELSE cli.end
    BY <1>1, <1>2, <1>11, <2>1, ClientFailure
  <2>3. PICK k : k = [t |-> "Failure"]
    OBVIOUS
  <2>4. k.t \notin Asides /\ r.rep = <<k>>
    BY <2>2, <2>3 DEF Asides
  <2>5. Fits(plan, "replies", k, app, d, srv)
    BY <1>1, <1>11, <2>1, <2>2, <2>3 DEF Fits, InReplies, Both, a
  <2>6. Excused(plan, srv) \/ d.end = cli.end
    BY <1>11, <2>2 DEF Excused
  <2>7. Tried(plan, app, d, srv)
    BY <1>4, <2>6 DEF Tried, Alive
  <2>8. Steady(plan, app, d, srv)
    BY <1>1, <1>4, <2>2 DEF Steady, Alive
  <2>9. Leads("replies", k, d)
    BY <1>6, <1>8, <2>2, <2>4, <2>5, <2>7, <2>8 DEF Leads, Placed
  <2> QED  BY <1>2, <2>9
<1>12. CASE m = [t |-> "PK_OK"] /\ Probed(a, cli, srv) /\ cli.method = <<a>>
  <2>1. /\ m.t = "PK_OK" /\ cli.st = "request" /\ srv.st = "request"
        /\ a.how \in {"key", "agent"} /\ cli.method = <<a>>
    BY <1>12 DEF Probed, Both
  <2>2. PICK k : k = Real(a)
    OBVIOUS
  <2>3. /\ IsClient(d) /\ d.st = "request" /\ d.cur = cli.cur
        /\ \/ /\ cli.cur = "ki" /\ r.out = <<>> /\ r.rep = <<>>
              /\ d.end = "parse" /\ d.blocked = cli.blocked
           \/ /\ cli.cur # "ki" /\ a.how = "key"
              /\ r.out = <<k>> /\ r.rep = <<>>
              /\ d.end = cli.end /\ d.blocked = cli.blocked
           \/ /\ cli.cur # "ki" /\ a.how = "agent"
              /\ r.out = <<>> /\ r.rep = <<[t |-> "SignRequest"]>>
              /\ d.end = cli.end /\ d.blocked = "Signed"
    BY <1>1, <1>2, <2>1, <2>2, ClientPkOk
  <2>4. CASE /\ cli.cur = "ki" /\ r.out = <<>> /\ r.rep = <<>>
             /\ d.end = "parse" /\ d.blocked = cli.blocked
    <3>1. AstrayIn(plan, app.i)
      <4>1. plan[1].how = "ki"
        BY <1>4, <2>4 DEF Steady
      <4>2. app.i # 1
        BY <2>1, <4>1 DEF a
      <4> QED  BY <1>3, <2>1, <4>1, <4>2 DEF AstrayIn, a
    <3>2. Excused(plan, srv)
      BY <1>3, <3>1 DEF Excused
    <3>3. Tried(plan, app, d, srv) /\ Steady(plan, app, d, srv)
      BY <1>1, <1>4, <2>3, <2>4, <3>2 DEF Tried, Steady, Alive
    <3>4. Fits(plan, "none", m, app, d, srv)
      BY <2>1 DEF Fits, Nowhere
    <3>5. Leads("none", m, d)
      BY <1>5, <1>6, <2>3, <2>4, <3>3, <3>4 DEF Leads, Placed
    <3> QED  BY <1>2, <3>5
  <2>5. CASE /\ cli.cur # "ki" /\ a.how = "key"
             /\ r.out = <<k>> /\ r.rep = <<>>
             /\ d.end = cli.end /\ d.blocked = cli.blocked
    <3>1. k.t \notin Asides /\ r.out = <<k>>
      BY <2>5, <2>2 DEF Asides, Request, Plain, Real
    <3>2. Fits(plan, "c2s", k, app, d, srv)
      BY <1>1, <1>12, <2>3, <2>5, <2>2 DEF Fits, InC2s, Probed, Both, Alive, a
    <3>3. Tried(plan, app, d, srv) /\ Steady(plan, app, d, srv)
      BY <1>4, <2>1, <2>3, <2>5 DEF Tried, Steady, Alive
    <3>4. Leads("c2s", k, d)
      BY <1>5, <1>7, <2>3, <2>5, <3>1, <3>2, <3>3 DEF Leads, Placed
    <3> QED  BY <1>2, <3>4
  <2>6. CASE /\ cli.cur # "ki" /\ a.how = "agent"
             /\ r.out = <<>> /\ r.rep = <<[t |-> "SignRequest"]>>
             /\ d.end = cli.end /\ d.blocked = "Signed"
    <3>1. PICK l : l = [t |-> "SignRequest"]
      OBVIOUS
    <3>2. l.t \notin Asides /\ r.rep = <<l>>
      BY <2>6, <3>1 DEF Asides
    <3>3. Fits(plan, "replies", l, app, d, srv)
      BY <1>12, <2>3, <2>6, <3>1 DEF Fits, InReplies, Probed, Both, Alive, a
    <3>4. Tried(plan, app, d, srv) /\ Steady(plan, app, d, srv)
      BY <1>4, <2>1, <2>3, <2>6 DEF Tried, Steady, Alive
    <3>5. Leads("replies", l, d)
      BY <1>6, <1>8, <2>3, <2>6, <3>2, <3>3, <3>4 DEF Leads, Placed
    <3> QED  BY <1>2, <3>5
  <2> QED  BY <2>3, <2>4, <2>5, <2>6
<1>13. CASE m = [t |-> "INFO_REQUEST"] /\ Asked(a, cli, srv)
  <2>1. /\ m.t = "INFO_REQUEST" /\ cli.st = "request" /\ srv.st = "request"
        /\ a.how = "ki" /\ cli.method = <<a>>
    BY <1>13 DEF Asked, Both
  <2>2. /\ IsClient(d) /\ d.st = "request" /\ d.cur = cli.cur /\ d.end = cli.end
        /\ r.out = <<>>
        /\ \/ /\ r.rep = <<[t |-> "InfoRequest"]>>
              /\ d.blocked = "InfoResponse" /\ d.method = <<a>>
           \/ r.rep = <<>> /\ d.blocked = cli.blocked
    BY <1>1, <1>2, <2>1, ClientInfoRequest
  <2>3. Tried(plan, app, d, srv) /\ Steady(plan, app, d, srv)
    BY <1>4, <2>1, <2>2 DEF Tried, Steady, Alive
  <2>4. CASE /\ r.rep = <<[t |-> "InfoRequest"]>>
             /\ d.blocked = "InfoResponse" /\ d.method = <<a>>
    <3>1. PICK k : k = [t |-> "InfoRequest"]
      OBVIOUS
    <3>2. k.t \notin Asides /\ r.rep = <<k>>
      BY <2>4, <3>1 DEF Asides
    <3>3. Fits(plan, "replies", k, app, d, srv)
      BY <1>13, <2>2, <2>4, <3>1 DEF Fits, InReplies, Asked, Both, Alive, a
    <3>4. Leads("replies", k, d)
      BY <1>6, <1>8, <2>2, <2>3, <3>2, <3>3 DEF Leads, Placed
    <3> QED  BY <1>2, <3>4
  <2>5. CASE r.rep = <<>> /\ d.blocked = cli.blocked
    <3>1. Fits(plan, "none", m, app, d, srv)
      BY <2>1 DEF Fits, Nowhere
    <3>2. Leads("none", m, d)
      BY <1>5, <1>6, <2>2, <2>3, <2>5, <3>1 DEF Leads, Placed
    <3> QED  BY <1>2, <3>2
  <2> QED  BY <2>2, <2>4, <2>5
<1> QED  BY <1>9, <1>10, <1>11, <1>12, <1>13 DEF InS2c, a

LEMMA ClientReceiveKeeps == AuthInv /\ ClientReceive => AuthInv'
<1> SUFFICES ASSUME AuthInv, ClientReceive PROVE AuthInv'
  OBVIOUS
<1>1. PICK w, m : w \in Places /\ Held(w, m) /\ Fits(plan, w, m, app, cli, srv)
  BY DEF AuthInv, Where
<1> DEFINE h == Head(s2c)
           r == ClientHandle(cli, h)
<1>2. /\ plan' = plan /\ app' = app /\ srv' = srv /\ msgs' = msgs
      /\ Alive(cli) /\ cli.blocked = "no" /\ s2c # <<>> /\ s2c' = Tail(s2c)
  BY DEF ClientReceive
<1>3. ~(r.rep # <<>> /\ app.at = "failed") =>
        cli' = r.ses /\ c2s' = c2s \o r.out /\ replies' = replies \o r.rep
  BY Zenon DEF ClientReceive
<1> HIDE DEF h
<1>4. /\ IsSeq(s2c')
      /\ \/ h.t \in Asides /\ Placed("s2c", w, s2c', m)
         \/ h = m /\ w = "s2c" /\ Silent(s2c') /\ m.t \notin Asides
  <2>1. IsSeq(s2c) /\ Placed("s2c", w, s2c, m)
    BY <1>1 DEF AuthInv, Queues, Held
  <2> QED  BY <1>2, <2>1, ReadFacts DEF h
<1>5. CASE h.t \in Asides /\ Placed("s2c", w, s2c', m)
  <2>1. cli.st = "service" => Greeted(s2c') /\ h.t # "BANNER"
    <3>1. h.t # "SERVICE_ACCEPT" /\ IsSeq(s2c)
      BY <1>5 DEF Asides, AuthInv, Queues
    <3> QED  BY <1>2, <3>1, TailFacts DEF AuthInv, Greeting, h
  <2>2. cli.st \in {"service", "request", "authed"}
    BY DEF AuthInv, History, Steady
  <2>3. r.ses = cli /\ r.out = <<>> /\ r.rep = <<>>
    BY <1>5, <2>1, <2>2, ClientAside
  <2> HIDE DEF r
  <2>4. cli' = cli /\ c2s' = c2s \o <<>> /\ replies' = replies \o <<>>
    BY <1>3, <2>3, Zenon
  <2>5. /\ IsSeq(c2s') /\ IsSeq(replies')
        /\ Placed("c2s", w, c2s', m) /\ Placed("replies", w, replies', m)
    <3>1. /\ IsSeq(c2s) /\ IsSeq(replies)
          /\ Placed("c2s", w, c2s, m) /\ Placed("replies", w, replies, m)
      BY <1>1 DEF AuthInv, Queues, Held
    <3>2. IsSeq(c2s') /\ IsSeq(replies')
      BY <2>4, <3>1, PutFacts, Zenon
    <3>3. ASSUME NEW q, IsSeq(q), NEW here, Placed(here, w, q, m)
          PROVE  Placed(here, w, q \o <<>>, m)
      <4>1. CASE w = here
        BY <3>3, <4>1, PutFacts, Zenon DEF Placed
      <4>2. CASE w # here
        BY <3>3, <4>2, PutFacts, Zenon DEF Placed
      <4> QED  BY <4>1, <4>2
    <3> QED  BY <2>4, <3>1, <3>2, <3>3, Zenon
  <2>6. Held(w, m)'
    BY <1>1, <1>2, <1>5, <2>5 DEF Held, Placed
  <2>7. Where'
    BY <1>1, <1>2, <2>4, <2>6 DEF Where
  <2>8. Queues'
    BY <1>2, <1>4, <2>5 DEF AuthInv, Queues
  <2>9. cli' = cli
    BY <2>4
  <2>10. Typed' /\ History' /\ Greeting'
    BY <1>2, <2>1, <2>9 DEF AuthInv, Typed, History, Greeting, Alive
  <2> QED  BY <2>7, <2>8, <2>10 DEF AuthInv
<1>6. CASE h = m /\ w = "s2c" /\ Silent(s2c')
  <2>1. /\ Silent(msgs) /\ Silent(c2s) /\ Silent(replies) /\ app.at = "wait"
        /\ InS2c(plan, m, plan[app.i], cli, srv)
    BY <1>1, <1>2, <1>6 DEF Held, Placed, Fits
  <2>2. PICK q : q = r
    OBVIOUS
  <2>3. cli' = q.ses /\ c2s' = c2s \o q.out /\ replies' = replies \o q.rep
        /\ q = ClientHandle(cli, m)
    BY <1>3, <1>6, <2>1, <2>2, Zenon
  <2>4. PICK v, k : v \in {"c2s", "replies", "none"} /\ Leads(v, k, q.ses)
    <3>1. Writes(q) /\ q = ClientHandle(cli, m)
      BY <2>3, Zenon DEF Writes
    <3> QED  BY <1>2, <2>1, <3>1, ClientLeads
  <2>5. PICK d : d = q.ses
    OBVIOUS
  <2>6. v \in {"c2s", "replies", "none"} /\ Leads(v, k, d) /\ cli' = d
    BY <2>3, <2>4, <2>5
  <2>7. Held(v, k)'
    BY <1>2, <1>6, <2>1, <2>6 DEF Held, Placed, Leads
  <2>8. Where'
    BY <1>2, <2>6, <2>7 DEF Where, Places, Leads
  <2>9. Typed' /\ Queues' /\ History' /\ Greeting'
    BY <1>2, <1>4, <2>6 DEF AuthInv, Typed, Queues, History, Greeting, Alive, Leads
  <2> QED  BY <2>8, <2>9 DEF AuthInv
<1> QED  BY <1>4, <1>5, <1>6

-----------------------------------------------------------------------------
\* The steps of the server.

\* What a packet of the attempt leads to.
Answered(k, y) ==
    /\ IsSeq(s2c') /\ Bears(s2c', k) /\ (cli.st = "service" => Greeted(s2c'))
    /\ Fits(plan, "s2c", k, app, cli, y)
    /\ Accepts(plan, app, y) /\ Tried(plan, app, cli, y) /\ Steady(plan, app, cli, y)
    /\ IsServer(y)

\* The server's session goes on; nothing is taken back.
LEMMA ServerHistory ==
    ASSUME AuthInv, NEW y, KeepsServer(srv, y)
    PROVE  /\ Tried(plan, app, cli, y) /\ Steady(plan, app, cli, y)
           /\ Excused(plan, srv) => Excused(plan, y)
<1>1. y.end = srv.end /\ (srv.shut => y.shut)
  BY DEF KeepsServer
<1>2. Excused(plan, srv) => Excused(plan, y)
  BY <1>1 DEF Excused
<1>3. Tried(plan, app, cli, y)
  BY <1>2 DEF AuthInv, History, Tried
<1>4. Steady(plan, app, cli, y)
  BY <1>1 DEF AuthInv, History, Steady
<1> QED  BY <1>2, <1>3, <1>4

\* What the server makes of the message it reads.
LEMMA ServerLeads ==
    ASSUME AuthInv, NEW m, Silent(s2c), Alive(cli), app.at = "wait",
           InC2s(m, plan[app.i], cli, srv), NEW proceed, NEW asks,
           NEW r, r = ServerHandle(srv, m, proceed, asks), s2c' = s2c \o r.out
    PROVE  \E k : Answered(k, r.ses)
<1> DEFINE a == plan[app.i]
<1>1. IsSeq(s2c) /\ IsServer(srv) /\ cli.blocked = "no"
  BY DEF AuthInv, Queues, Typed, InC2s
<1>2. PICK y : y = r.ses
  OBVIOUS
<1>3. /\ a.how \in {"key", "agent", "none", "password", "ki"} /\ a.id \notin {"-", "pk"}
      /\ app.i \in Nat /\ 1 <= app.i
  BY PlanFacts DEF AuthInv, Typed
<1>4. PICK o : o = r.out
  OBVIOUS
<1>5. s2c' = s2c \o o
  BY <1>4
<1> HIDE DEF a
<1>6. CASE m = [t |-> "SERVICE_REQUEST"] /\ Both("service", cli, srv) /\ cli.method = <<a>>
  <2>1. m.t = "SERVICE_REQUEST" /\ cli.st = "service" /\ srv.st = "service"
    BY <1>6 DEF Both
  <2>2. /\ KeepsServer(srv, y) /\ y.st = "request"
        /\ o = IF Banner THEN <<[t |-> "SERVICE_ACCEPT"], [t |-> "BANNER"]>>
               ELSE <<[t |-> "SERVICE_ACCEPT"]>>
    <3> DEFINE q == ServerHandle(srv, m, proceed, asks)
    <3>1. /\ KeepsServer(srv, q.ses) /\ q.ses.st = "request"
          /\ q.out = IF Banner THEN <<[t |-> "SERVICE_ACCEPT"], [t |-> "BANNER"]>>
                     ELSE <<[t |-> "SERVICE_ACCEPT"]>>
      BY <1>1, <2>1, ServerService, Zenon
    <3> HIDE DEF q
    <3>2. r = q
      BY DEF q
    <3> QED  BY <1>2, <1>4, <3>1, <3>2, Zenon
  <2>3. PICK k : k = [t |-> "SERVICE_ACCEPT"]
    OBVIOUS
  <2>4. PICK b : b = [t |-> "BANNER"]
    OBVIOUS
  <2>5. k.t \notin Asides /\ b.t \in Asides /\ k.t = "SERVICE_ACCEPT" /\ k.t # "BANNER"
    BY <2>3, <2>4 DEF Asides
  <2>6. IsSeq(o) /\ Bears(o, k) /\ Greeted(o)
    <3>1. CASE Banner
      <4>1. o = <<k, b>>
        BY <2>2, <2>3, <2>4, <3>1, Zenon
      <4> QED  BY <2>5, <4>1, SeqMake, WrittenFacts, Zenon
    <3>2. CASE ~Banner
      <4>1. o = <<k>>
        BY <2>2, <2>3, <3>2, Zenon
      <4> QED  BY <2>5, <4>1, SeqMake, WrittenFacts, Zenon
    <3> QED  BY <3>1, <3>2
  <2>7. Greeted(s2c)
    BY <2>1 DEF AuthInv, Greeting
  <2>8. IsSeq(s2c') /\ Bears(s2c', k) /\ Greeted(s2c')
    BY <1>1, <1>5, <2>6, <2>7, JoinFacts
  <2>9. Fits(plan, "s2c", k, app, cli, y)
    BY <1>1, <1>6, <2>1, <2>2, <2>3 DEF Fits, InS2c, a
  <2>10. Accepts(plan, app, y) /\ IsServer(y)
    BY <2>2 DEF Accepts, KeepsServer
  <2>11. Answered(k, y)
    BY <2>2, <2>8, <2>9, <2>10, ServerHistory DEF Answered
  <2> QED  BY <1>2, <2>11
<1>7. CASE \/ m = Plain(a) /\ Both("request", cli, srv) /\ cli.method = <<a>>
           \/ m = Real(a) /\ Probed(a, cli, srv)
           \/ m = [t |-> "INFO_RESPONSE"] /\ Asked(a, cli, srv)
  <2>1. cli.st = "request" /\ srv.st = "request"
    BY <1>7 DEF Both, Probed, Asked
  <2>2. \/ m = Plain(a)
        \/ /\ m = Real(a) /\ a.how \in {"key", "agent"} /\ a.id \in Offered
           /\ srv.cur = "pk" /\ srv.named
        \/ m = [t |-> "INFO_RESPONSE"] /\ a.how = "ki" /\ srv.cur = a.id
    BY <1>7 DEF Probed, Asked
  <2>3. OneAnswer(srv, a, r) /\ (m = Real(a) => Verdict(srv, a, r))
    BY <1>1, <1>3, <2>1, <2>2, ServerAnswers
  <2>4. PICK k : /\ r.out = <<k>> /\ Outcome(srv, a, r.ses, k)
                 /\ m = Real(a) => k.t \in {"SUCCESS", "FAILURE"}
    BY <2>3, Zenon DEF OneAnswer, Verdict
  <2>5. o = <<k>> /\ Outcome(srv, a, y, k)
    BY <1>2, <1>4, <2>4, Zenon
  <2>6. k.t \notin Asides
    BY <2>5 DEF Asides, Outcome
  <2>7. IsSeq(s2c') /\ Bears(s2c', k)
    BY <1>1, <1>5, <2>5, <2>6, PutFacts, Zenon
  <2>8. KeepsServer(srv, y) /\ IsServer(y)
    BY <2>5 DEF Outcome, KeepsServer
  <2>9. /\ Tried(plan, app, cli, y) /\ Steady(plan, app, cli, y)
        /\ Excused(plan, srv) => Excused(plan, y)
    BY <2>8, ServerHistory
  <2>10. Accepts(plan, app, y)
    <3>1. y.st = "authed" => y.who = a.id /\ Good(a)
      BY <2>1, <2>5 DEF Outcome
    <3> QED  BY <1>3, <3>1 DEF Accepts, a
  <2>11. k.t = "PK_OK" \/ k.t = "INFO_REQUEST" => cli.method = <<a>>
    BY <1>7, <2>4 DEF Asked
  <2>12. InS2c(plan, k, a, cli, y)
    <3>1. CASE k = [t |-> "SUCCESS"] /\ y.st = "authed" /\ y.who = a.id
      BY <1>1, <2>1, <3>1 DEF InS2c
    <3>2. CASE k.t = "FAILURE" /\ y.st = srv.st /\ ~Good(a) /\ (k.methods = {} => y.shut)
      BY <1>1, <2>1, <3>2 DEF InS2c, Both, Refused
    <3>3. CASE /\ k = [t |-> "PK_OK"] /\ y.st = srv.st /\ a.how \in {"key", "agent"}
               /\ a.id \in Offered /\ y.cur = "pk" /\ y.named
      BY <1>1, <2>1, <2>11, <3>3 DEF InS2c, Both, Probed
    <3>4. CASE k = [t |-> "INFO_REQUEST"] /\ y.st = srv.st /\ a.how = "ki" /\ y.cur = a.id
      BY <1>1, <2>1, <2>11, <3>4 DEF InS2c, Both, Asked
    <3> QED  BY <2>5, <3>1, <3>2, <3>3, <3>4 DEF Outcome
  <2>13. Fits(plan, "s2c", k, app, cli, y)
    BY <2>12 DEF Fits, a
  <2>14. Answered(k, y)
    BY <2>1, <2>7, <2>8, <2>9, <2>10, <2>13 DEF Answered
  <2> QED  BY <1>2, <2>14
<1> QED  BY <1>6, <1>7 DEF InC2s, a

LEMMA ServerReceiveKeeps == AuthInv /\ ServerReceive => AuthInv'
<1> SUFFICES ASSUME AuthInv, ServerReceive PROVE AuthInv'
  OBVIOUS
<1>1. PICK w, m : w \in Places /\ Held(w, m) /\ Fits(plan, w, m, app, cli, srv)
  BY DEF AuthInv, Where
<1> DEFINE h == Head(c2s)
<1>2. /\ plan' = plan /\ app' = app /\ cli' = cli /\ msgs' = msgs /\ replies' = replies
      /\ Alive(srv) /\ c2s # <<>> /\ c2s' = Tail(c2s)
  BY DEF ServerReceive
<1>3. PICK proceed, asks, r : /\ r = ServerHandle(srv, h, proceed, asks)
                              /\ srv' = r.ses /\ s2c' = s2c \o r.out
  BY Zenon DEF ServerReceive
<1> HIDE DEF h
<1>4. /\ IsSeq(c2s')
      /\ \/ h.t \in Asides /\ Placed("c2s", w, c2s', m)
         \/ h = m /\ w = "c2s" /\ Silent(c2s') /\ m.t \notin Asides
  <2>1. IsSeq(c2s) /\ Placed("c2s", w, c2s, m)
    BY <1>1 DEF AuthInv, Queues, Held
  <2> QED  BY <1>2, <2>1, ReadFacts DEF h
<1>5. CASE h.t \in Asides /\ Placed("c2s", w, c2s', m)
  <2>1. r.ses = srv /\ r.out = <<>>
    BY <1>3, <1>5, ServerAside
  <2>2. srv' = srv /\ s2c' = s2c \o <<>>
    BY <1>3, <2>1, Zenon
  <2>3. s2c' = s2c
    <3>1. IsSeq(s2c)
      BY DEF AuthInv, Queues
    <3>2. PICK S : s2c \in Seq(S)
      BY <3>1 DEF IsSeq
    <3>3. s2c \o <<>> = s2c
      BY <3>2
    <3> QED  BY <2>2, <3>3, Zenon
  <2>4. Held(w, m)'
    BY <1>1, <1>2, <1>5, <2>3 DEF Held, Placed
  <2>5. srv' = srv
    BY <2>2
  <2>6. Where'
    BY <1>1, <1>2, <2>4, <2>5 DEF Where
  <2>7. Typed' /\ Queues' /\ History' /\ Greeting'
    BY <1>2, <1>4, <2>3, <2>5 DEF AuthInv, Typed, Queues, History, Greeting, Alive
  <2> QED  BY <2>6, <2>7 DEF AuthInv
<1>6. CASE h = m /\ w = "c2s" /\ Silent(c2s')
  <2>1. /\ Silent(msgs) /\ Silent(s2c) /\ Silent(replies) /\ Alive(cli) /\ app.at = "wait"
        /\ InC2s(m, plan[app.i], cli, srv)
    BY <1>1, <1>2, <1>6 DEF Held, Placed, Fits
  <2>2. PICK k : Answered(k, r.ses)
    BY <1>3, <1>6, <2>1, ServerLeads
  <2>3. PICK y : y = r.ses
    OBVIOUS
  <2>4. Answered(k, y) /\ srv' = y
    BY <1>3, <2>2, <2>3
  <2>5. Held("s2c", k)'
    BY <1>2, <1>6, <2>1, <2>4 DEF Held, Placed, Answered
  <2>6. Where'
    BY <1>2, <2>4, <2>5 DEF Where, Places, Answered
  <2>7. Typed' /\ Queues' /\ History' /\ Greeting'
    BY <1>2, <1>4, <2>4 DEF AuthInv, Typed, Queues, History, Greeting, Alive, Answered
  <2> QED  BY <2>6, <2>7 DEF AuthInv
<1> QED  BY <1>4, <1>5, <1>6

LEMMA ServerEndsKeeps == AuthInv /\ ServerEnds => AuthInv'
<1> SUFFICES ASSUME AuthInv, ServerEnds PROVE AuthInv'
  OBVIOUS
<1>1. PICK w, m : w \in Places /\ Held(w, m) /\ Fits(plan, w, m, app, cli, srv)
  BY DEF AuthInv, Where
<1> DEFINE y == [srv EXCEPT !.end = IF Alive(cli) THEN "lost" ELSE "closed"]
<1>2. /\ plan' = plan /\ app' = app /\ cli' = cli /\ c2s' = c2s /\ s2c' = s2c
      /\ msgs' = msgs /\ replies' = replies /\ srv' = y /\ Alive(srv)
  BY Zenon DEF ServerEnds
<1>3. /\ IsServer(y) /\ y.st = srv.st /\ y.cur = srv.cur /\ y.named = srv.named
      /\ y.who = srv.who /\ y.shut = srv.shut
      /\ y.end = IF Alive(cli) THEN "lost" ELSE "closed"
  BY Zenon DEF AuthInv, Typed, IsServer
<1> HIDE DEF y
<1>4. PICK z : z = y
  OBVIOUS
<1>5. /\ IsServer(z) /\ z.st = srv.st /\ z.cur = srv.cur /\ z.named = srv.named
      /\ z.who = srv.who /\ (srv.shut => z.shut) /\ srv' = z
      /\ (Alive(cli) => z.end = "lost") /\ (~Alive(cli) => z.end = "closed")
  BY <1>2, <1>3, <1>4
<1>6. Excused(plan, srv) => Excused(plan, z)
  BY <1>2, <1>5 DEF Excused, Alive
<1>7. Refused(plan, plan[app.i], srv) => Refused(plan, plan[app.i], z)
  BY <1>6 DEF Refused
<1>8. Fits(plan, w, m, app, cli, z)
  <2>1. CASE w = "msgs"
    BY <1>1, <1>5, <2>1 DEF Fits, InMsgs, Ready, Probed, Asked, Both
  <2>2. CASE w = "c2s"
    BY <1>1, <1>2, <1>5, <2>2 DEF Fits, InC2s, Probed, Asked, Both
  <2>3. CASE w = "s2c"
    BY <1>1, <1>5, <1>7, <2>3 DEF Fits, InS2c, Probed, Asked, Both
  <2>4. CASE w = "replies"
    BY <1>1, <1>5, <1>7, <2>4 DEF Fits, InReplies, Probed, Asked, Both
  <2>5. CASE w = "none"
    BY <1>1, <1>5, <2>5 DEF Fits, Nowhere, Ready, Probed, Both
  <2> QED  BY <1>1, <2>1, <2>2, <2>3, <2>4, <2>5 DEF Places
<1>9. Held(w, m)'
  BY <1>1, <1>2 DEF Held, Placed
<1>10. Where'
  BY <1>1, <1>2, <1>5, <1>8, <1>9 DEF Where
<1>11. Accepts(plan, app, z)
  BY <1>5 DEF AuthInv, History, Accepts
<1>12. Tried(plan, app, cli, z)
  BY <1>6 DEF AuthInv, History, Tried
<1>13. Steady(plan, app, cli, z)
  BY <1>5 DEF AuthInv, History, Steady
<1>14. Typed' /\ Queues' /\ History' /\ Greeting'
  BY <1>2, <1>5, <1>11, <1>12, <1>13 DEF AuthInv, Typed, Queues, History, Greeting, Alive
<1> QED  BY <1>10, <1>14 DEF AuthInv

-----------------------------------------------------------------------------
\* The invariant.

LEMMA AuthInit == Init => AuthInv
<1> SUFFICES ASSUME Init PROVE AuthInv
  OBVIOUS
<1>1. PICK g : g = [t |-> "EXT_INFO"]
  OBVIOUS
<1> DEFINE q == <<g>>
           e == <<>>
<1>2. msgs = e /\ c2s = e /\ replies = e /\ s2c = q /\ plan \in Plans
  BY <1>1, Zenon DEF Init
<1>3. DOMAIN e = {} /\ DOMAIN q = {1} /\ q[1] = g
  OBVIOUS
<1>4. IsSeq(e) /\ IsSeq(q)
  BY SeqMake, Zenon
<1> HIDE DEF q, e
<1>5. g.t = "EXT_INFO"
  BY <1>1
<1>6. Silent(e) /\ Silent(q) /\ Greeted(q)
  BY <1>3, <1>5 DEF Silent, Greeted, Asides
<1>7. Queues /\ Held("none", g) /\ Greeting
  BY <1>2, <1>4, <1>6 DEF Queues, Held, Placed, Greeting
<1>8. /\ IsApp(app) /\ app.at = "next" /\ app.i = 1
  BY DEF Init, IsApp
<1>9. /\ IsClient(cli) /\ cli.st = "service" /\ ~cli.sent /\ ~cli.accepted
      /\ cli.blocked = "no" /\ cli.end = "no" /\ cli.cur = "-"
  BY Zenon DEF Init, IsClient
<1>10. IsServer(srv) /\ srv.st = "service" /\ srv.end = "no"
  BY Zenon DEF Init, IsServer
<1>11. Len(plan) \in Nat \ {0}
  BY <1>2, PlansAssumption
<1>12. Typed
  BY <1>2, <1>8, <1>9, <1>10, <1>11 DEF Typed
<1>13. Fits(plan, "none", g, app, cli, srv)
  BY <1>8, <1>9, <1>10 DEF Fits, Nowhere, Ready, Both
<1>14. Where
  BY <1>7, <1>13 DEF Where, Places
<1>15. History
  BY <1>8, <1>9, <1>10 DEF History, Accepts, Tried, Steady, Alive
<1> QED  BY <1>7, <1>12, <1>14, <1>15 DEF AuthInv

LEMMA AuthStep == AuthInv /\ [Next]_vars => AuthInv'
<1> SUFFICES ASSUME AuthInv, [Next]_vars PROVE AuthInv'
  OBVIOUS
<1>1. CASE AppSend \/ AppReply \/ AppNoReply \/ AppSign
  BY <1>1, AppSendKeeps, AppReplyKeeps, AppNoReplyKeeps, AppSignKeeps
<1>2. CASE ClientMsg \/ ClientReceive \/ ClientUnblock \/ ClientEnds
  BY <1>2, ClientMsgKeeps, ClientReceiveKeeps, ClientUnblockKeeps, ClientEndsKeeps
<1>3. CASE ServerReceive \/ ServerEnds
  BY <1>3, ServerReceiveKeeps, ServerEndsKeeps
<1>4. CASE UNCHANGED vars
  <2>1. /\ plan' = plan /\ app' = app /\ cli' = cli /\ srv' = srv
        /\ msgs' = msgs /\ c2s' = c2s /\ s2c' = s2c /\ replies' = replies
    BY <1>4 DEF vars
  <2>2. PICK w, m : w \in Places /\ Held(w, m) /\ Fits(plan, w, m, app, cli, srv)
    BY DEF AuthInv, Where
  <2>3. Held(w, m)'
    BY <2>1, <2>2 DEF Held, Placed
  <2>4. Where'
    BY <2>1, <2>2, <2>3 DEF Where
  <2>5. Typed' /\ Queues' /\ History' /\ Greeting'
    BY <2>1 DEF AuthInv, Typed, Queues, History, Greeting, Alive
  <2> QED  BY <2>4, <2>5 DEF AuthInv
<1> QED  BY <1>1, <1>2, <1>3, <1>4, Zenon DEF Next

\* The invariant holds always.
LEMMA AuthHolds == Spec => []AuthInv
BY AuthInit, AuthStep, PTL DEF Spec

\* The application gives up after the last attempt of the plan.
Last == app.at = "failed" => app.i = Len(plan)

LEMMA LastStep == AuthInv /\ Last /\ [Next]_vars => Last'
<1> SUFFICES ASSUME AuthInv, Last, [Next]_vars PROVE Last'
  OBVIOUS
<1>1. \/ app' = app \/ app' = NextAttempt(app)
      \/ \E v \in {"wait", "ok", "sign", "spin"} : app' = [app EXCEPT !.at = v]
  <2>1. CASE AppSend
    BY <2>1, Zenon DEF AppSend
  <2>2. CASE AppReply
    <3>1. PICK r : r = Head(replies).t
      OBVIOUS
    <3>2. app' = CASE r = "Success" -> [app EXCEPT !.at = "ok"]
                   [] r = "Failure" -> NextAttempt(app)
                   [] r = "SignRequest" /\ Attempt.how = "agent" ->
                         [app EXCEPT !.at = "sign"]
                   [] (r = "InfoRequest" /\ Attempt.how = "ki") /\ ~Alive(cli) ->
                         NextAttempt(app)
                   [] OTHER -> app
      BY <2>2, <3>1, Zenon DEF AppReply
    <3>3. "Success" # "Failure" /\ "Success" # "SignRequest" /\ "Success" # "InfoRequest"
          /\ "Failure" # "SignRequest" /\ "Failure" # "InfoRequest"
          /\ "SignRequest" # "InfoRequest"
      OBVIOUS
    <3>4. CASE r = "Success"
      BY <3>2, <3>3, <3>4, Zenon
    <3>5. CASE r = "Failure"
      BY <3>2, <3>3, <3>5, Zenon
    <3>6. CASE r = "SignRequest" /\ Attempt.how = "agent"
      BY <3>2, <3>3, <3>6, Zenon
    <3>7. CASE (r = "InfoRequest" /\ Attempt.how = "ki") /\ ~Alive(cli)
      BY <3>2, <3>3, <3>7, Zenon
    <3>8. CASE /\ r # "Success" /\ r # "Failure" /\ ~(r = "SignRequest" /\ Attempt.how = "agent")
               /\ ~((r = "InfoRequest" /\ Attempt.how = "ki") /\ ~Alive(cli))
      BY <3>2, <3>8, Zenon
    <3> QED  BY <3>4, <3>5, <3>6, <3>7, <3>8, Zenon
  <2>3. CASE AppNoReply
    BY <2>3, Zenon DEF AppNoReply
  <2>4. CASE AppSign
    BY <2>4, Zenon DEF AppSign
  <2>5. CASE ClientMsg \/ ClientReceive \/ ClientUnblock \/ ClientEnds
    BY <2>5, Zenon DEF ClientMsg, ClientReceive, ClientUnblock, ClientEnds
  <2>6. CASE ServerReceive \/ ServerEnds \/ UNCHANGED vars
    BY <2>6, Zenon DEF ServerReceive, ServerEnds, vars
  <2> QED  BY <2>1, <2>2, <2>3, <2>4, <2>5, <2>6, Zenon DEF Next
<1>2. plan' = plan
  <2>1. CASE AppSend \/ AppReply \/ AppNoReply \/ AppSign
    BY <2>1, Zenon DEF AppSend, AppReply, AppNoReply, AppSign
  <2>2. CASE ClientMsg \/ ClientReceive \/ ClientUnblock \/ ClientEnds
    BY <2>2, Zenon DEF ClientMsg, ClientReceive, ClientUnblock, ClientEnds
  <2>3. CASE ServerReceive \/ ServerEnds \/ UNCHANGED vars
    BY <2>3, Zenon DEF ServerReceive, ServerEnds, vars
  <2> QED  BY <2>1, <2>2, <2>3, Zenon DEF Next
<1>3. CASE app' = app
  BY <1>2, <1>3 DEF Last
<1>4. CASE app' = NextAttempt(app)
  <2>1. PICK y : y = NextAttempt(app)
    OBVIOUS
  <2>2. y.at = "failed" => y.i = Len(plan)
    <3>1. app.i \in Nat /\ Len(plan) \in Nat /\ app.i <= Len(plan)
      BY PlanFacts DEF AuthInv, Typed
    <3>2. CASE app.i < Len(plan)
      BY <2>1, <3>2 DEF NextAttempt
    <3>3. CASE ~(app.i < Len(plan))
      BY <2>1, <3>1, <3>3, NextFacts DEF AuthInv, NextAttempt
    <3> QED  BY <3>2, <3>3
  <2> QED  BY <1>2, <1>4, <2>1, <2>2 DEF Last
<1>5. CASE \E v \in {"wait", "ok", "sign", "spin"} : app' = [app EXCEPT !.at = v]
  <2>1. PICK v \in {"wait", "ok", "sign", "spin"} : app' = [app EXCEPT !.at = v]
    BY <1>5
  <2>2. [app EXCEPT !.at = v].at = v
    BY Zenon DEF AuthInv, Typed, IsApp
  <2>3. app'.at = v
    BY <2>1, <2>2, Zenon
  <2> QED  BY <2>1, <2>3 DEF Last
<1> QED  BY <1>1, <1>3, <1>4, <1>5

LEMMA LastHolds == Spec => []Last
<1>1. Init => Last
  BY DEF Init, Last
<1> QED  BY <1>1, LastStep, AuthHolds, PTL DEF Spec

-----------------------------------------------------------------------------
\* The theorems.

\* authenticate_handle reports success exactly for the attempt the server
\* accepted, the server accepts an identity only after a good attempt with
\* it, and the client never gives up on a server that has let it in.
THEOREM WhoWasLetIn == Spec => []AuthAgrees
<1>1. AuthInv => AuthAgrees
  <2> SUFFICES ASSUME AuthInv PROVE AuthAgrees
    OBVIOUS
  <2>1. PICK w, m : w \in Places /\ Held(w, m) /\ Fits(plan, w, m, app, cli, srv)
    BY DEF AuthInv, Where
  <2>2. srv.st = "authed" =>
           \E i \in 1 .. app.i : plan[i].id = srv.who /\ Good(plan[i])
    BY DEF AuthInv, History, Accepts
  <2>3. app.at = "ok" => w = "none"
    BY <2>1 DEF Fits, Places
  <2>4. app.at = "ok" => srv.st = "authed" /\ srv.who = Attempt.id
    BY <2>1, <2>3 DEF Fits, Nowhere, Attempt
  <2>5. app.at = "failed" => srv.st # "authed"
    BY <2>1 DEF Fits, Places, Nowhere
  <2> QED  BY <2>2, <2>4, <2>5 DEF AuthAgrees
<1> QED  BY <1>1, AuthHolds, PTL

\* The Handle, the session task and the server take turns: of the messages,
\* packets and replies that belong to an attempt at most one is under way.
THEOREM OneAtATime == Spec => []OneUnderWay
<1>1. AuthInv => OneUnderWay
  <2> SUFFICES ASSUME AuthInv PROVE OneUnderWay
    OBVIOUS
  <2>1. PICK w, m : w \in Places /\ Held(w, m)
    BY DEF AuthInv, Where
  <2>2. \A q : Silent(q) => Belonging(q) = {}
    BY DEF Silent, Belonging, Asides
  <2>3. \A q : Bears(q, m) => \A i, j \in Belonging(q) : i = j
    BY DEF Bears, Belonging, Asides
  <2>4. \A q \in {msgs, c2s, s2c, replies} : \A i, j \in Belonging(q) : i = j
    BY <2>1, <2>2, <2>3 DEF Held, Placed
  <2>5. /\ w # "msgs" => Belonging(msgs) = {}
        /\ w # "c2s" => Belonging(c2s) = {}
        /\ w # "s2c" => Belonging(s2c) = {}
        /\ w # "replies" => Belonging(replies) = {}
    BY <2>1, <2>2 DEF Held, Placed
  <2> DEFINE queue == [msgs |-> msgs, c2s |-> c2s, s2c |-> s2c, replies |-> replies]
  <2>6. /\ queue["msgs"] = msgs /\ queue["c2s"] = c2s
        /\ queue["s2c"] = s2c /\ queue["replies"] = replies
    BY Zenon
  <2> HIDE DEF queue
  <2>7. \A p, q \in {"msgs", "c2s", "s2c", "replies"} :
           Belonging(queue[p]) # {} /\ Belonging(queue[q]) # {} => p = q
    BY <2>5, <2>6
  <2> QED  BY <2>4, <2>7, Zenon DEF OneUnderWay, queue
<1> QED  BY <1>1, AuthHolds, PTL

\* The loop of authenticate_handle over the identities skips none that the
\* server would have let in, unless the server left no method or was lost,
\* or an attempt went astray.
THEOREM EveryIdentityIsTried == Spec => []AllTried
<1>1. AuthInv /\ Last => AllTried
  <2> SUFFICES ASSUME AuthInv, Last, app.at = "failed",
                      ~Excused(plan, srv)
               PROVE  ~\E i \in DOMAIN plan : Good(plan[i])
    BY DEF AllTried, Excused, Astray, AstrayIn
  <2>1. DOMAIN plan = 1 .. Len(plan) /\ Len(plan) \in Nat /\ app.i = Len(plan)
    BY PlanFacts DEF AuthInv, Last
  <2>2. (\A j \in 1 .. app.i - 1 : ~Good(plan[j])) /\ ~Good(plan[app.i])
    BY DEF AuthInv, History, Tried
  <2>3. \A i \in DOMAIN plan : i \in 1 .. app.i - 1 \/ i = app.i
    BY <2>1
  <2> QED  BY <2>2, <2>3
<1> QED  BY <1>1, AuthHolds, LastHolds, PTL
=============================================================================
