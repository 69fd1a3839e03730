--------------------------- MODULE ChannelsProofs ---------------------------
(***************************************************************************)
(* Theorems about Channels, for every number of channels and operations    *)
(* and every window.                                                       *)
(*                                                                         *)
(* HandInv is the inductive invariant: it says of each side how its table, *)
(* its tasks, what it has written and what the peer has written fit        *)
(* together.  Its parts are named; most of them only serve to make it      *)
(* inductive.  The order of positions on a wire and of channel numbers is  *)
(* hidden behind Before and Given, so that the provers see no arithmetic:  *)
(* a step appends to one wire (Longer), takes from the other (Shorter) and *)
(* is one of a few kinds of Moves, each of which keeps each part.          *)
(***************************************************************************)
EXTENDS ChannelsSteps

-----------------------------------------------------------------------------
\* Types.

LEMMA TypedInit == Init => Typed
<1> SUFFICES ASSUME Init PROVE Typed
  OBVIOUS
<1> DEFINE x == [last |-> 0, chans |-> <<>>, refs |-> {}, globals |-> <<>>, asked |-> 0,
                 wants |-> FALSE, end |-> "no"]
<1>1. x \in Session
  BY TablesEmpty DEF Session, Reasons
<1>2. ses = [s \in Sides |-> x]
  BY DEF Init
<1> HIDE DEF x
<1>3. <<>> \in Tasks
  <2>1. <<>> \in [{} -> OneTask]
    OBVIOUS
  <2> QED  BY <2>1 DEF Tasks
<1>4. ses \in [Sides -> Session] /\ task \in [Sides -> Tasks]
  BY <1>1, <1>2, <1>3 DEF Init
<1>5. /\ wire \in [Sides -> Seq(Message)]
      /\ \A s \in Sides : \A i \in DOMAIN wire[s] : wire[s][i].t \in Kinds(s)
      /\ \A s \in Sides : ~Alive(s) => wire[Peer(s)] = <<>> /\ ses[s].chans = <<>>
  <2>1. \A s \in Sides : wire[s] = <<>> /\ ses[s].chans = <<>>
    BY <1>2, PeerFacts DEF Init, x
  <2>2. wire \in [Sides -> Seq(Message)]
    BY DEF Init
  <2>3. \A s \in Sides : wire[s] = <<>> => DOMAIN wire[s] = {}
    OBVIOUS
  <2> QED  BY <2>1, <2>2, <2>3, PeerFacts
<1>6. left \in Lefts
  BY OpensAssumption, OpsAssumption, StraysAssumption DEF Init, Sides, Lefts
<1> QED  BY <1>4, <1>5, <1>6 DEF Typed

\* The two sides after a step: s has stepped and its peer has not.
LEMMA SteppedFacts ==
    ASSUME Typed, NEW s \in Sides, NEW z, NEW out, NEW k2, NEW w2, Stepped(s, z, out, k2, w2),
           Proper(s, ses[s], z, out, k2), w2 \in Seq(Message)
    PROVE  LET p == Peer(s)
           IN  /\ ses'[s] = z /\ ses'[p] = ses[p]
               /\ task'[s] = k2 /\ task'[p] = task[p]
               /\ wire'[s] = (IF Alive(p) THEN wire[s] \o out ELSE <<>>) /\ wire'[p] = w2
               /\ ses' \in [Sides -> Session] /\ task' \in [Sides -> Tasks]
               /\ wire' \in [Sides -> Seq(Message)]
<1>1. Peer(s) \in Sides /\ Peer(s) # s
  BY PeerFacts
<1>2. ses'[s] = z /\ ses'[Peer(s)] = ses[Peer(s)] /\ ses' \in [Sides -> Session]
  BY <1>1 DEF Stepped, Typed, Proper
<1>3. task'[s] = k2 /\ task'[Peer(s)] = task[Peer(s)] /\ task' \in [Sides -> Tasks]
  BY <1>1 DEF Stepped, Typed, Proper
<1>4. Written(s, out) \in Seq(Message)
  BY DEF Typed, Proper, Written
<1>5. /\ wire'[s] = Written(s, out) /\ wire'[Peer(s)] = w2
      /\ wire' \in [Sides -> Seq(Message)]
  BY <1>1, <1>4 DEF Stepped, Typed
<1> QED  BY <1>2, <1>3, <1>5 DEF Written

\* What is on the wires after a step.
LEMMA PushFacts ==
    ASSUME NEW v \in Seq(Message), NEW out \in Seq(Message)
    PROVE  LET v2 == v \o out
           IN  /\ v2 \in Seq(Message) /\ Len(v2) = Len(v) + Len(out)
               /\ \A i \in DOMAIN v : i \in DOMAIN v2 /\ v2[i] = v[i]
               /\ \A j \in DOMAIN out : Len(v) + j \in DOMAIN v2 /\ v2[Len(v) + j] = out[j]
               /\ \A i \in DOMAIN v2 : \/ i \in DOMAIN v /\ v2[i] = v[i]
                                       \/ /\ i - Len(v) \in DOMAIN out
                                          /\ v2[i] = out[i - Len(v)]
OBVIOUS

LEMMA TailFacts ==
    ASSUME NEW w \in Seq(Message), w # <<>>
    PROVE  /\ Tail(w) \in Seq(Message) /\ Len(Tail(w)) = Len(w) - 1
           /\ 1 \in DOMAIN w /\ Head(w) = w[1] /\ w[1] \in Message
           /\ \A i \in DOMAIN Tail(w) : i + 1 \in DOMAIN w /\ Tail(w)[i] = w[i + 1]
           /\ \A i \in DOMAIN w : i # 1 => i - 1 \in DOMAIN Tail(w) /\ Tail(w)[i - 1] = w[i]
OBVIOUS

-----------------------------------------------------------------------------
\* The invariant of the handshake, from the point of view of side s: x is its
\* session and k its tasks, y the session of the peer, v what s has written
\* and w what the peer has.

\* Comparisons, kept from the provers: only the lemmas on them are used.
Before(i, j) == i < j
Given(last, id) == id \in 1 .. last

Plain == {"DATA", "ADJUST", "EOF", "CLOSE", "REQUEST", "ANSWER"}
Verdicts == {"CONFIRM", "FAILURE"}

\* Numbers are given once, and a number means one channel.
Numbered(x, y, k, v) ==
    /\ \A id \in DOMAIN x.chans :
          LET c == x.chans[id]
          IN  /\ Given(x.last, id) /\ (c.peer # 0 => Given(y.last, c.peer))
              /\ c.peer \in DOMAIN y.chans => y.chans[c.peer].ch = c.ch
    /\ \A id \in DOMAIN k : Given(x.last, id)
    /\ \A id \in x.refs : Given(x.last, id)
    /\ \A i \in DOMAIN v :
          /\ v[i].t \in OnChannel =>
                /\ Given(y.last, v[i].to)
                /\ v[i].to \in DOMAIN y.chans => y.chans[v[i].to].ch = v[i].ch
          /\ v[i].t \in {"OPEN", "CONFIRM"} =>
                /\ Given(x.last, v[i].from)
                /\ v[i].from \in DOMAIN x.chans => x.chans[v[i].from].ch = v[i].ch

\* A channel is opened once and answered once.
Once(v, w) ==
    /\ \A i, j \in DOMAIN v :
          v[i].t = "OPEN" /\ v[j].t = "OPEN" /\ v[i].from = v[j].from => i = j
    /\ \A i, j \in DOMAIN v :
          v[i].t \in Verdicts /\ v[j].t \in Verdicts /\ v[i].to = v[j].to => i = j
    /\ \A i \in DOMAIN v, j \in DOMAIN w :
          ~(v[i].t = "OPEN" /\ w[j].t \in Verdicts /\ v[i].from = w[j].to)

\* Channel id waits for its confirmation.
Pends(x, k, id) ==
    /\ id \in DOMAIN x.chans /\ x.chans[id].peer = 0 /\ id \in x.refs
    /\ id \in DOMAIN k /\ k[id].st \in {"wait", "quit"}

Opening(v, id) == \E i \in DOMAIN v : v[i].t = "OPEN" /\ v[i].from = id
Answering(w, id) == \E i \in DOMAIN w : w[i].t \in Verdicts /\ w[i].to = id

\* A channel waits exactly while its opening or the answer is under way.
Handshake(x, y, k, v, w) ==
    /\ x.end = "no" => \A i \in DOMAIN v : v[i].t = "OPEN" => Pends(x, k, v[i].from)
    /\ \A i \in DOMAIN w : w[i].t \in Verdicts => Pends(x, k, w[i].to)
    /\ y.end = "no" =>
          \A id \in DOMAIN x.chans : x.chans[id].peer = 0 => Opening(v, id) \/ Answering(w, id)
    /\ x.end = "no" =>
          \A id \in DOMAIN k : k[id].st = "wait" =>
              id \in DOMAIN x.chans /\ x.chans[id].peer = 0
    /\ \A id \in DOMAIN k :
          id \in DOMAIN x.chans /\ x.chans[id].peer = 0 => k[id].st \in {"wait", "quit"}

\* Nothing overtakes a confirmation.
ConfirmFirst(x, w) ==
    \A j \in DOMAIN w :
        w[j].t \in Plain /\ w[j].to \in DOMAIN x.chans /\ x.chans[w[j].to].peer = 0 =>
            \E i \in DOMAIN w : Before(i, j) /\ w[i].t = "CONFIRM" /\ w[i].to = w[j].to

\* A channel that is confirmed has the peer's number of it, and the peer this
\* one's, unless the confirmation or, from the client, the CLOSE is under way.
Paired(s, x, y, v, w) ==
    /\ y.end = "no" =>
          \A id \in DOMAIN x.chans :
              LET q == x.chans[id].peer
              IN  q # 0 =>
                  \/ q \in DOMAIN y.chans /\ y.chans[q].peer = id
                  \/ /\ q \in DOMAIN y.chans /\ y.chans[q].peer = 0
                     /\ \E i \in DOMAIN v : v[i].t = "CONFIRM" /\ v[i].to = q /\ v[i].from = id
                  \/ /\ s = "server" /\ q \notin DOMAIN y.chans
                     /\ \E i \in DOMAIN w : w[i].t = "CLOSE" /\ w[i].to = id
    /\ x.end = "no" =>
          \A i \in DOMAIN v : v[i].t = "CONFIRM" =>
              \/ v[i].from \in DOMAIN x.chans /\ x.chans[v[i].from].peer = v[i].to
              \/ /\ s = "client" /\ v[i].from \notin DOMAIN x.chans
                 /\ \E j \in DOMAIN v : Before(i, j) /\ v[j].t = "CLOSE" /\ v[j].to = v[i].to

\* On the server: the client has forgotten a channel that it has closed, and
\* nothing is kept back with a CLOSE.
Closing(s, x, y, v, w) ==
    s = "server" =>
        /\ \A i \in DOMAIN w : w[i].t = "CLOSE" =>
              /\ \A id \in DOMAIN y.chans : y.chans[id].peer # w[i].to
              /\ \A j \in DOMAIN v : v[j].t = "CONFIRM" => v[j].from # w[i].to
        /\ \A id \in DOMAIN x.chans : ~x.chans[id].pclose

Hand(s, x, y, k, v, w) ==
    /\ Numbered(x, y, k, v) /\ Once(v, w) /\ Handshake(x, y, k, v, w)
    /\ ConfirmFirst(x, w) /\ Paired(s, x, y, v, w) /\ Closing(s, x, y, v, w)

HandInv ==
    \A s \in Sides :
        Hand(s, ses[s], ses[Peer(s)], task[s], wire[s], wire[Peer(s)])

-----------------------------------------------------------------------------
\* The steps, as the handshake sees them.

\* The session keeps its channels.
KeptChans(s, x, z) ==
    /\ z.last = x.last /\ z.end = x.end /\ DOMAIN z.chans = DOMAIN x.chans
    /\ \A id \in DOMAIN x.chans :
          /\ z.chans[id].ch = x.chans[id].ch /\ z.chans[id].peer = x.chans[id].peer
          /\ s = "server" => z.chans[id].pclose = x.chans[id].pclose

\* The references of the channels that wait are kept.
KeptRefs(x, z) ==
    /\ z.refs \subseteq x.refs
    /\ \A id \in x.refs : id \in DOMAIN x.chans /\ x.chans[id].peer = 0 => id \in z.refs

KeptTasks(x, k, k2) ==
    /\ DOMAIN k2 = DOMAIN k
    /\ \A id \in DOMAIN k : \/ k2[id].st = k[id].st
                            \/ k[id].st = "held" /\ k2[id].st = "closed"
                            \/ k[id].st = "wait" /\ k2[id].st = "quit"
                            \/ k[id].st = "wait" /\ k2[id].st = "lost" /\ x.end # "no"

Voice(x, m) ==
    \/ m.t \in {"GLOBAL", "RESULT", "DISCONNECT"}
    \/ /\ m.t \in Plain
       /\ \E id \in DOMAIN x.chans : x.chans[id].peer # 0 /\ OnId(m, x, id)

Quiet(s, x, k, w, z, out, k2, w2) ==
    /\ KeptChans(s, x, z) /\ KeptRefs(x, z) /\ KeptTasks(x, k, k2)
    /\ \A i \in DOMAIN out : Voice(x, out[i]) /\ (s = "client" => out[i].t # "CLOSE")
    /\ \/ w2 = w
       \/ /\ w # <<>> /\ w2 = Tail(w) /\ Head(w).t \notin {"OPEN", "CONFIRM", "FAILURE"}
          /\ s = "server" /\ Head(w).t = "CLOSE" => Head(w).to \notin DOMAIN x.chans

\* The client forgets a channel and says so.
Forgets(s, x, k, w, z, out, k2, w2) ==
    /\ s = "client" /\ z.last = x.last /\ z.end = x.end
    /\ KeptRefs(x, z) /\ KeptTasks(x, k, k2)
    /\ \E id \in DOMAIN x.chans :
          /\ x.chans[id].peer # 0 /\ z.chans = Without(x.chans, id)
          /\ \A i \in DOMAIN out : out[i].t \in Plain /\ OnId(out[i], x, id)
          /\ \E i \in DOMAIN out : out[i].t = "CLOSE"
    /\ \/ w2 = w
       \/ w # <<>> /\ w2 = Tail(w) /\ Head(w).t \notin {"OPEN", "CONFIRM", "FAILURE"}

\* The server forgets a channel that the client has closed.
Shut(s, x, k, w, z, out, k2, w2) ==
    /\ s = "server" /\ w # <<>> /\ w2 = Tail(w) /\ Head(w).t = "CLOSE"
    /\ Head(w).to \in DOMAIN x.chans
    /\ Shift(x, z, x.last, x.refs \ {Head(w).to}, Without(x.chans, Head(w).to))
    /\ out = <<>> /\ k2 = k

Accepts(s, x, k, w, z, out, k2, w2) ==
    LET id == x.last + 1
        m == Head(w)
    IN  /\ w # <<>> /\ w2 = Tail(w) /\ m.t = "OPEN"
        /\ Shift(x, z, id, x.refs \cup {id}, With(x.chans, id, Params(m.ch, m.from, Window)))
        /\ out = <<[t |-> "CONFIRM", to |-> m.from, ch |-> m.ch, from |-> id]>>
        /\ k2 = With(k, id, Task("held"))

Declines(s, x, k, w, z, out, k2, w2) ==
    LET m == Head(w)
    IN  /\ w # <<>> /\ w2 = Tail(w) /\ m.t = "OPEN" /\ k2 = k
        /\ \E refs \in {x.refs, x.refs \cup {x.last + 1}} : Shift(x, z, x.last + 1, refs, x.chans)
        /\ out = <<[t |-> "FAILURE", to |-> m.from, ch |-> m.ch]>>

Confirmed(s, x, k, w, z, out, k2, w2) ==
    LET m == Head(w)
    IN  /\ w # <<>> /\ w2 = Tail(w) /\ m.t = "CONFIRM" /\ m.to \in DOMAIN x.chans /\ out = <<>>
        /\ k2 = IF k[m.to].st = "wait" THEN With(k, m.to, Task("held")) ELSE k
        /\ \E d : LET c == x.chans[m.to]
                  IN  /\ Puts(x, z, m.to, d) /\ d.ch = c.ch /\ d.peer = m.from
                      /\ d.pclose = c.pclose

Refused(s, x, k, w, z, out, k2, w2) ==
    LET m == Head(w)
    IN  /\ w # <<>> /\ w2 = Tail(w) /\ m.t = "FAILURE" /\ out = <<>>
        /\ Shift(x, z, x.last, x.refs \ {m.to}, Without(x.chans, m.to))
        /\ k2 = IF k[m.to].st = "wait" THEN With(k, m.to, Task("refused")) ELSE k

Leaves(s, x, k, w, z, out, k2, w2) ==
    /\ w2 = <<>> /\ k2 = k
    /\ \A i \in DOMAIN out : out[i].t = "DISCONNECT"
    /\ \E why \in Reasons \ {"no", "Inconsistent"} : Stops(x, z, why)
    /\ z.end = "SendError" => s = "server" /\ \E id \in DOMAIN k : k[id].st = "quit"

Moves(s, x, k, n, w, z, out, k2, w2) ==
    \/ Quiet(s, x, k, w, z, out, k2, w2)
    \/ Forgets(s, x, k, w, z, out, k2, w2)
    \/ Shut(s, x, k, w, z, out, k2, w2)
    \/ DidOpen(s, x, k, n, z, out, k2) /\ w2 = w
    \/ Accepts(s, x, k, w, z, out, k2, w2)
    \/ Declines(s, x, k, w, z, out, k2, w2)
    \/ Confirmed(s, x, k, w, z, out, k2, w2)
    \/ Refused(s, x, k, w, z, out, k2, w2)
    \/ Leaves(s, x, k, w, z, out, k2, w2)

LEMMA KeptSelf ==
    ASSUME NEW s, NEW x, NEW k
    PROVE  KeptChans(s, x, x) /\ KeptRefs(x, x) /\ KeptTasks(x, k, k)
BY DEF KeptChans, KeptRefs, KeptTasks

\* A channel becomes its twin.
LEMMA KeptPuts ==
    ASSUME NEW s, NEW x \in Session, NEW z, NEW id \in DOMAIN x.chans, NEW d, Puts(x, z, id, d),
           Twin(x.chans[id], d), s = "server" => d.pclose = x.chans[id].pclose
    PROVE  KeptChans(s, x, z) /\ KeptRefs(x, z)
<1>1. /\ DOMAIN z.chans = DOMAIN x.chans /\ z.chans[id] = d
      /\ \A i \in DOMAIN x.chans : i # id => z.chans[i] = x.chans[i]
  BY PutsFacts
<1> QED  BY <1>1 DEF Puts, Same, Twin, KeptChans, KeptRefs

\* The head of a wire, when it concerns a channel, finds it confirmed.
LEMMA HeadConfirmed ==
    ASSUME NEW x, NEW w \in Seq(Message), w # <<>>, ConfirmFirst(x, w), Head(w).t \in Plain,
           Head(w).to \in DOMAIN x.chans
    PROVE  x.chans[Head(w).to].peer # 0
<1>1. 1 \in DOMAIN w /\ Head(w) = w[1] /\ \A i \in DOMAIN w : ~(i < 1)
  OBVIOUS
<1> QED  BY <1>1 DEF ConfirmFirst, Before

LEMMA QuietPut ==
    ASSUME NEW s \in Sides, NEW x \in Session, NEW k, NEW w, NEW z, NEW out, NEW id \in DOMAIN x.chans,
           NEW d, Puts(x, z, id, d), Twin(x.chans[id], d), x.chans[id].peer # 0,
           s = "server" => d.pclose = x.chans[id].pclose,
           \A i \in DOMAIN out : /\ out[i].t \in Plain /\ OnId(out[i], x, id)
                                 /\ s = "client" => out[i].t # "CLOSE",
           NEW w2, \/ w2 = w
                   \/ w # <<>> /\ w2 = Tail(w) /\ Head(w).t \in Plain \ {"CLOSE"}
    PROVE  Quiet(s, x, k, w, z, out, k, w2)
<1>1. KeptChans(s, x, z) /\ KeptRefs(x, z) /\ KeptTasks(x, k, k)
  BY KeptPuts, KeptSelf
<1> QED  BY <1>1 DEF Quiet, Voice, Plain

LEMMA TookMoves ==
    ASSUME NEW s \in Sides, NEW x \in Session, NEW y \in Session, NEW k \in Tasks, NEW n,
           NEW v \in Seq(Message), NEW w \in Seq(Message), w # <<>>, x.end = "no",
           Hand(s, x, y, k, v, w), NEW z, NEW out, NEW k2,
           Took(s, x, k, Head(w), z, out, k2)
    PROVE  Moves(s, x, k, n, w, z, out, k2, IF z.end = "no" THEN Tail(w) ELSE <<>>)
<1> DEFINE m == Head(w)
           w2 == IF z.end = "no" THEN Tail(w) ELSE <<>>
<1>1. m \in Message /\ m = w[1] /\ 1 \in DOMAIN w
  BY TailFacts
<1>2. m.t \in Plain /\ m.to \in DOMAIN x.chans => x.chans[m.to].peer # 0
  BY HeadConfirmed DEF Hand
<1>3. m.t \in Verdicts => Pends(x, k, m.to)
  BY <1>1 DEF Hand, Handshake
<1>4. out = <<>> => DOMAIN out = {}
  BY NoMessage
<1>5. x.refs \subseteq Nat /\ DOMAIN k \subseteq Nat /\ \A id \in DOMAIN k : k[id].st \in States
  BY SessionFacts, TasksFacts, OneTaskFacts
<1> HIDE DEF w2, m
<1>6. z.end = "no" => w2 = Tail(w)
  BY DEF w2
<1>7. z.end # "no" => w2 = <<>>
  BY DEF w2
<1>8. Took(s, x, k, m, z, out, k2)
  BY DEF m
<1>9. CASE m.t = "OPEN" /\ TookOpen(s, x, k, m, z, out, k2)
  <2>1. z.end = "no"
    BY <1>9 DEF TookOpen, Shift
  <2>2. Accepts(s, x, k, w, z, out, k2, w2) \/ Declines(s, x, k, w, z, out, k2, w2)
    BY <1>6, <1>9, <2>1 DEF TookOpen, Accepts, Declines, m
  <2> QED  BY <2>2 DEF Moves, w2
<1>10. CASE m.t = "CONFIRM" /\ TookConfirm(x, k, m, z, out, k2)
  <2>1. Pends(x, k, m.to)
    BY <1>3, <1>10 DEF Verdicts
  <2>2. Heard(x, k, m.to) <=> k[m.to].st = "wait"
    BY <2>1 DEF Pends, Heard
  <2>3. m.to \in DOMAIN x.chans /\ out = <<>>
    BY <1>10, <2>1 DEF TookConfirm, Pends
  <2>4. PICK d : LET c == x.chans[m.to]
                 IN  /\ Puts(x, z, m.to, d) /\ d.ch = c.ch /\ d.peer = m.from
                     /\ d.pclose = c.pclose
    BY <1>10, <2>3 DEF TookConfirm, Ends
  <2>5. z.end = "no"
    BY <2>4 DEF Puts, Same
  <2>6. k2 = IF k[m.to].st = "wait" THEN With(k, m.to, Task("held")) ELSE k
    BY <1>10, <2>2, <2>3 DEF TookConfirm
  <2>7. Confirmed(s, x, k, w, z, out, k2, w2)
    BY <1>6, <1>10, <2>3, <2>4, <2>5, <2>6 DEF Confirmed, m
  <2> QED  BY <2>7 DEF Moves, w2
<1>11. CASE m.t = "FAILURE" /\ TookFailure(s, x, k, m, z, out, k2)
  <2>1. Pends(x, k, m.to)
    BY <1>3, <1>11 DEF Verdicts
  <2>2. Heard(x, k, m.to) <=> k[m.to].st = "wait"
    BY <2>1 DEF Pends, Heard
  <2>3. CASE /\ Shift(x, z, x.last, x.refs \ {m.to}, Without(x.chans, m.to))
             /\ k2 = IF Heard(x, k, m.to) THEN With(k, m.to, Task("refused")) ELSE k
    <3>1. z.end = "no" /\ out = <<>>
      BY <1>11, <2>3 DEF Shift, TookFailure
    <3>2. Refused(s, x, k, w, z, out, k2, w2)
      BY <1>6, <1>11, <2>2, <2>3, <3>1 DEF Refused, m
    <3> QED  BY <3>2 DEF Moves, w2
  <2>4. CASE /\ m.to \in x.refs /\ ~Heard(x, k, m.to) /\ s = "server"
             /\ Stops(x, z, "SendError") /\ k2 = k
    <3>1. z.end = "SendError" /\ out = <<>>
      BY <1>11, <2>4 DEF Stops, TookFailure
    <3>2. m.to \in DOMAIN k /\ k[m.to].st = "quit"
      BY <2>1, <2>2, <2>4 DEF Pends
    <3>3. Leaves(s, x, k, w, z, out, k2, w2)
      BY <1>4, <1>7, <2>4, <3>1, <3>2 DEF Leaves, Reasons
    <3> QED  BY <3>3 DEF Moves, w2
  <2> QED  BY <1>11, <2>3, <2>4 DEF TookFailure
<1>12. CASE m.t = "CLOSE" /\ TookClose(s, x, m, z, out) /\ k2 = k
  <2> DEFINE c == x.chans[m.to]
             refs == x.refs \ {m.to}
  <2>0. z.end = "no"
    BY <1>12 DEF TookClose, Shift
  <2>1. CASE /\ m.to \notin DOMAIN x.chans
             /\ Shift(x, z, x.last, refs, x.chans) /\ out = <<>>
    <3>1. KeptChans(s, x, z) /\ KeptRefs(x, z) /\ KeptTasks(x, k, k2)
      BY <1>12, <2>1 DEF KeptChans, KeptRefs, KeptTasks, Shift
    <3>2. Quiet(s, x, k, w, z, out, k2, w2)
      BY <1>4, <1>6, <1>12, <2>0, <2>1, <3>1 DEF Quiet, m
    <3> QED  BY <3>2 DEF Moves, w2
  <2>2. CASE /\ s = "client" /\ m.to \in DOMAIN x.chans /\ c.pend > 0 /\ out = <<>>
             /\ \E d : /\ Shift(x, z, x.last, refs, With(x.chans, m.to, d))
                       /\ Twin(c, d) /\ Flow(c, d) /\ Asks(c, d)
                       /\ d.peof = c.peof /\ d.pclose
    <3>1. PICK d : Shift(x, z, x.last, refs, With(x.chans, m.to, d)) /\ Twin(c, d)
      BY <2>2
    <3>2. c.peer # 0
      BY <1>2, <1>12, <2>2 DEF Plain
    <3>3. KeptChans(s, x, z) /\ KeptRefs(x, z) /\ KeptTasks(x, k, k2)
      BY <1>12, <2>2, <3>1, <3>2 DEF KeptChans, KeptRefs, KeptTasks, Shift, Twin, With
    <3>4. Quiet(s, x, k, w, z, out, k2, w2)
      BY <1>4, <1>6, <1>12, <2>0, <2>2, <3>3 DEF Quiet, m
    <3> QED  BY <3>4 DEF Moves, w2
  <2>3. CASE /\ s = "client" /\ m.to \in DOMAIN x.chans /\ ~(c.pend > 0)
             /\ Shift(x, z, x.last, refs, Without(x.chans, m.to))
             /\ out = <<On(x, m.to, "CLOSE")>>
    <3>1. c.peer # 0
      BY <1>2, <1>12, <2>3 DEF Plain
    <3>2. /\ On(x, m.to, "CLOSE") \in Message /\ On(x, m.to, "CLOSE").t = "CLOSE"
          /\ OnId(On(x, m.to, "CLOSE"), x, m.to)
      BY <2>3, OnMessage DEF OnId
    <3>3. DOMAIN out = {1} /\ out[1].t = "CLOSE" /\ OnId(out[1], x, m.to)
      BY <2>3, <3>2, OneMessage
    <3>4. KeptRefs(x, z) /\ KeptTasks(x, k, k2) /\ z.last = x.last /\ z.end = x.end
      BY <1>12, <2>3, <3>1 DEF KeptRefs, KeptTasks, Shift
    <3>5. z.chans = Without(x.chans, m.to)
      BY <2>3 DEF Shift
    <3>6. Forgets(s, x, k, w, z, out, k2, w2)
      BY <1>6, <1>12, <2>0, <2>3, <3>1, <3>3, <3>4, <3>5 DEF Forgets, m, Plain
    <3> QED  BY <3>6 DEF Moves, w2
  <2>4. CASE /\ s = "server" /\ m.to \in DOMAIN x.chans
             /\ Shift(x, z, x.last, refs, Without(x.chans, m.to)) /\ out = <<>>
    <3>1. Shut(s, x, k, w, z, out, k2, w2)
      BY <1>6, <1>12, <2>0, <2>4 DEF Shut, m
    <3> QED  BY <3>1 DEF Moves, w2
  <2> QED  BY <1>12, <2>1, <2>2, <2>3, <2>4 DEF TookClose
<1>13. CASE m.t = "DATA" /\ TookData(x, m, z, out) /\ k2 = k
  <2>0. z.end = "no"
    BY <1>13 DEF TookData, Puts, Same
  <2>1. CASE m.to \notin DOMAIN x.chans
    <3>1. z = x /\ out = <<>>
      BY <1>13, <2>1 DEF TookData
    <3>2. Quiet(s, x, k, w, z, out, k2, w2)
      BY <1>4, <1>6, <1>13, <2>0, <3>1, KeptSelf DEF Quiet, m
    <3> QED  BY <3>2 DEF Moves, w2
  <2>2. CASE m.to \in DOMAIN x.chans
    <3>1. PICK d : Puts(x, z, m.to, d) /\ Twin(x.chans[m.to], d) /\ Ends(x.chans[m.to], d)
      BY <1>13, <2>2 DEF TookData
    <3>2. \/ out = <<>>
          \/ \E j \in Nat : out = <<OnWith(x, m.to, "ADJUST", j)>>
      BY <1>13, <2>2 DEF TookData
    <3>3. ASSUME NEW j \in Nat
          PROVE  LET o == OnWith(x, m.to, "ADJUST", j)
                 IN  o \in Message /\ o.t = "ADJUST" /\ OnId(o, x, m.to)
      BY <2>2, OnMessage DEF OnId
    <3>4. \A i \in DOMAIN out : out[i].t = "ADJUST" /\ OnId(out[i], x, m.to)
      BY <1>4, <3>2, <3>3, OneMessage
    <3>5. x.chans[m.to].peer # 0
      BY <1>2, <1>13, <2>2 DEF Plain
    <3>6. Quiet(s, x, k, w, z, out, k, w2)
      BY <1>6, <1>13, <2>0, <2>2, <3>1, <3>4, <3>5, QuietPut DEF m, Plain, Ends
    <3> QED  BY <1>13, <3>6 DEF Moves, w2
  <2> QED  BY <2>1, <2>2
<1>14. CASE m.t = "ADJUST" /\ TookGrant(x, m, z, out) /\ k2 = k
  <2>1. CASE m.to \notin DOMAIN x.chans
    <3>1. Stops(x, z, "WrongChannel") /\ out = <<>>
      BY <1>14, <2>1 DEF TookGrant
    <3>2. z.end = "WrongChannel"
      BY <3>1 DEF Stops
    <3>3. Leaves(s, x, k, w, z, out, k2, w2)
      BY <1>4, <1>7, <1>14, <3>1, <3>2 DEF Leaves, Reasons
    <3> QED  BY <3>3 DEF Moves, w2
  <2>2. CASE m.to \in DOMAIN x.chans
    <3> DEFINE c == x.chans[m.to]
               win == c.win + m.n
               j == IF c.pend < win THEN c.pend ELSE win
    <3>1. j \in Nat /\ c.peof \in BOOLEAN /\ c.pclose \in BOOLEAN
      <4>1. m.n \in Nat
        BY <1>1, <1>14 DEF Message
      <4>2. c \in Param
        BY <2>2, SessionFacts, TableFacts
      <4>3. c.win \in Nat /\ c.pend \in Nat
        BY <4>2, ParamFacts
      <4>4. j \in Nat
        BY <4>1, <4>3
      <4>5. c.peof \in BOOLEAN /\ c.pclose \in BOOLEAN
        BY <4>2, Zenon DEF Param
      <4> QED  BY <4>4, <4>5
    <3>2. c.peer # 0
      BY <1>2, <1>14, <2>2 DEF Plain
    <3>3. \/ /\ \E eof \in BOOLEAN : Flushed(out, x, m.to, j, eof, 0)
             /\ \E d : Puts(x, z, m.to, d) /\ Twin(c, d) /\ d.pclose = c.pclose
          \/ /\ c.pclose /\ \E eof \in BOOLEAN : Flushed(out, x, m.to, j, eof, 1)
             /\ Drops(x, z, m.to) /\ out[Len(out)] = On(x, m.to, "CLOSE")
      BY <1>14, <2>2, <3>1 DEF TookGrant, Ends
    <3> HIDE DEF j
    <3>4. CASE /\ \E eof \in BOOLEAN : Flushed(out, x, m.to, j, eof, 0)
               /\ \E d : Puts(x, z, m.to, d) /\ Twin(c, d) /\ d.pclose = c.pclose
      <4>1. PICK eof \in BOOLEAN : Flushed(out, x, m.to, j, eof, 0)
        BY <3>4
      <4>2. PICK d : Puts(x, z, m.to, d) /\ Twin(c, d) /\ d.pclose = c.pclose
        BY <3>4
      <4>3. \A i \in DOMAIN out : /\ out[i].t \in {"DATA", "EOF"} /\ OnId(out[i], x, m.to)
        BY <2>2, <3>1, <4>1, FlushedKinds
      <4>4. z.end = "no"
        BY <4>2 DEF Puts, Same
      <4>5. Quiet(s, x, k, w, z, out, k, w2)
        BY <1>6, <1>14, <2>2, <3>2, <4>2, <4>3, <4>4, QuietPut DEF m, Plain
      <4> QED  BY <1>14, <4>5 DEF Moves, w2
    <3>5. CASE /\ c.pclose /\ \E eof \in BOOLEAN : Flushed(out, x, m.to, j, eof, 1)
               /\ Drops(x, z, m.to) /\ out[Len(out)] = On(x, m.to, "CLOSE")
      <4>1. PICK eof \in BOOLEAN : Flushed(out, x, m.to, j, eof, 1)
        BY <3>5
      <4>2. s = "client"
        BY <2>2, <3>5 DEF Hand, Closing, Sides
      <4>3. \A i \in DOMAIN out : /\ out[i].t \in Plain /\ OnId(out[i], x, m.to)
        BY <2>2, <3>1, <3>5, <4>1, FlushedKinds DEF Plain
      <4>4. Len(out) \in DOMAIN out /\ out[Len(out)].t = "CLOSE"
        <5>1. Len(out) \in Nat /\ Len(out) # 0 /\ out \in Seq(Message)
          BY <3>1, <4>1 DEF Flushed
        <5> QED  BY <5>1, <3>5 DEF On
      <4>5. /\ z.end = "no" /\ z.end = x.end /\ z.last = x.last /\ KeptRefs(x, z)
            /\ z.chans = Without(x.chans, m.to) /\ KeptTasks(x, k, k)
        BY <3>5, KeptSelf DEF Drops, Same, KeptRefs
      <4>6. Forgets(s, x, k, w, z, out, k2, w2)
        BY <1>6, <1>14, <2>2, <3>2, <4>2, <4>3, <4>4, <4>5 DEF Forgets, m
      <4> QED  BY <4>6 DEF Moves, w2
    <3> QED  BY <3>3, <3>4, <3>5
  <2> QED  BY <2>1, <2>2
<1>15. CASE m.t = "REQUEST" /\ s = "server" /\ TookRequest(x, m, z, out) /\ k2 = k
  <2>0. z.end = "no"
    BY <1>15 DEF TookRequest, Puts, Same, Still, Shift
  <2>1. CASE m.to \notin DOMAIN x.chans
    <3>1. Still(x, z) /\ (out = <<>> \/ Astray(m, out))
      BY <1>15, <2>1 DEF TookRequest
    <3>2. \A i \in DOMAIN out : out[i].t = "RESULT"
      BY <3>1, NoMessage DEF Astray
    <3>3. KeptChans(s, x, z) /\ KeptRefs(x, z)
      BY <3>1 DEF Still, Shift, KeptChans, KeptRefs
    <3>4. Quiet(s, x, k, w, z, out, k2, w2)
      BY <1>6, <1>15, <2>0, <3>2, <3>3, KeptSelf DEF Quiet, m, Voice
    <3> QED  BY <3>4 DEF Moves, w2
  <2>3. CASE m.to \in DOMAIN x.chans /\ Astray(m, out)
    <3>1. PICK d : Puts(x, z, m.to, d) /\ Twin(x.chans[m.to], d) /\ Ends(x.chans[m.to], d)
      BY <1>15, <2>3 DEF TookRequest
    <3>2. KeptChans(s, x, z) /\ KeptRefs(x, z)
      BY <2>3, <3>1, KeptPuts DEF Ends
    <3>3. \A i \in DOMAIN out : out[i].t = "RESULT"
      BY <2>3 DEF Astray
    <3>4. Quiet(s, x, k, w, z, out, k2, w2)
      BY <1>6, <1>15, <2>0, <3>2, <3>3, KeptSelf DEF Quiet, m, Voice
    <3> QED  BY <3>4 DEF Moves, w2
  <2>2. CASE m.to \in DOMAIN x.chans /\ ~Astray(m, out)
    <3>1. PICK d : Puts(x, z, m.to, d) /\ Twin(x.chans[m.to], d) /\ Ends(x.chans[m.to], d)
      BY <1>15, <2>2 DEF TookRequest
    <3>2. out = <<>> \/ out = <<OnWith(x, m.to, "ANSWER", m.n)>>
      BY <1>15, <2>2 DEF TookRequest
    <3>3. LET o == OnWith(x, m.to, "ANSWER", m.n)
          IN  o \in Message /\ o.t = "ANSWER" /\ OnId(o, x, m.to)
      <4>1. m.n \in Nat
        BY <1>1, <1>15 DEF Message
      <4> QED  BY <2>2, <4>1, OnMessage DEF OnId
    <3>4. \A i \in DOMAIN out : out[i].t = "ANSWER" /\ OnId(out[i], x, m.to)
      BY <1>4, <3>2, <3>3, OneMessage
    <3>5. x.chans[m.to].peer # 0
      BY <1>2, <1>15, <2>2 DEF Plain
    <3>6. Quiet(s, x, k, w, z, out, k, w2)
      BY <1>6, <1>15, <2>0, <2>2, <3>1, <3>4, <3>5, QuietPut DEF m, Plain, Ends
    <3> QED  BY <1>15, <3>6 DEF Moves, w2
  <2> QED  BY <2>1, <2>2, <2>3
<1>16. CASE m.t = "ANSWER" /\ s = "client" /\ TookAnswer(x, k, m, z, out, k2)
  <2>1. z = x /\ out = <<>>
    BY <1>16 DEF TookAnswer
  <2>2. KeptTasks(x, k, k2)
    BY <1>16 DEF TookAnswer, Heard, KeptTasks, With
  <2>3. Quiet(s, x, k, w, z, out, k2, w2)
    BY <1>4, <1>6, <1>16, <2>1, <2>2, KeptSelf DEF Quiet, m
  <2> QED  BY <2>3 DEF Moves, w2
<1>17. CASE m.t = "EOF" /\ z = x /\ out = <<>> /\ k2 = k
  <2>1. Quiet(s, x, k, w, z, out, k2, w2)
    BY <1>4, <1>6, <1>17, KeptSelf DEF Quiet, m
  <2> QED  BY <2>1 DEF Moves, w2
<1>18. CASE m.t = "GLOBAL" /\ TookGlobal(s, x, m, z, out) /\ k2 = k
  <2>1. \A i \in DOMAIN out : out[i].t = "RESULT"
    BY <1>18, NoMessage DEF TookGlobal
  <2>2. KeptChans(s, x, z) /\ KeptRefs(x, z) /\ z.end = "no"
    BY <1>18 DEF TookGlobal, Still, Shift, KeptChans, KeptRefs
  <2>3. Quiet(s, x, k, w, z, out, k2, w2)
    BY <1>6, <1>18, <2>1, <2>2, KeptSelf DEF Quiet, m, Voice
  <2> QED  BY <2>3 DEF Moves, w2
<1>19. CASE m.t = "RESULT" /\ TookResult(x, z, out) /\ k2 = k
  <2>1. KeptChans(s, x, z) /\ KeptRefs(x, z) /\ out = <<>> /\ z.end = "no"
    BY <1>19 DEF TookResult, Queues, KeptChans, KeptRefs
  <2>2. Quiet(s, x, k, w, z, out, k2, w2)
    BY <1>4, <1>6, <1>19, <2>1, KeptSelf DEF Quiet, m
  <2> QED  BY <2>2 DEF Moves, w2
<1>20. CASE m.t = "DISCONNECT" /\ Stops(x, z, "disconnected") /\ out = <<>> /\ k2 = k
  <2>1. z.end = "disconnected"
    BY <1>20 DEF Stops
  <2>2. Leaves(s, x, k, w, z, out, k2, w2)
    BY <1>4, <1>7, <1>20, <2>1 DEF Leaves, Reasons
  <2> QED  BY <2>2 DEF Moves, w2
<1> QED  BY <1>8, <1>9, <1>10, <1>11, <1>12, <1>13, <1>14, <1>15, <1>16, <1>17, <1>18, <1>19, <1>20
         DEF Took

\* A task is told something, or does something on the channel it holds.
LEMMA KeptTells ==
    ASSUME NEW x, NEW k \in Tasks, NEW id \in DOMAIN k, NEW k2, NEW st, NEW eof, NEW asks,
           Tells(k, k2, id, st, eof, asks),
           \/ st = k[id].st
           \/ k[id].st = "held" /\ st = "closed"
           \/ k[id].st = "wait" /\ st = "quit"
           \/ k[id].st = "wait" /\ st = "lost" /\ x.end # "no"
    PROVE  KeptTasks(x, k, k2)
<1>1. PICK e \in OneTask : k2 = With(k, id, e) /\ e.st = st
  BY DEF Tells
<1>2. DOMAIN k2 = DOMAIN k /\ k2[id].st = st /\ \A i \in DOMAIN k : i # id => k2[i] = k[i]
  BY <1>1 DEF With
<1> QED  BY <1>2 DEF KeptTasks

\* What a task does on its channel, as the handshake sees it.
LEMMA QuietAct ==
    ASSUME NEW s \in Sides, NEW x, NEW k, NEW w, NEW z, NEW out, NEW k2,
           KeptChans(s, x, z), KeptRefs(x, z), KeptTasks(x, k, k2),
           \/ out = <<>>
           \/ \E id \in DOMAIN x.chans, o \in Message :
                 /\ x.chans[id].peer # 0 /\ out = <<o>> /\ o.t \in Plain /\ OnId(o, x, id)
                 /\ s = "client" => o.t # "CLOSE"
    PROVE  Quiet(s, x, k, w, z, out, k2, w)
<1>1. CASE out = <<>>
  BY <1>1, NoMessage DEF Quiet
<1>2. ASSUME NEW id \in DOMAIN x.chans, NEW o \in Message, x.chans[id].peer # 0, out = <<o>>,
             o.t \in Plain, OnId(o, x, id), s = "client" => o.t # "CLOSE"
      PROVE  Quiet(s, x, k, w, z, out, k2, w)
  <2>1. \A i \in DOMAIN out : out[i] = o
    BY <1>2, OneMessage
  <2> QED  BY <1>2, <2>1 DEF Quiet, Voice
<1> QED  BY <1>1, <1>2

LEMMA DidMoves ==
    ASSUME NEW s \in Sides, NEW x \in Session, NEW y \in Session, NEW k \in Tasks, NEW n \in Nat,
           NEW v \in Seq(Message), NEW w \in Seq(Message), x.end = "no",
           Hand(s, x, y, k, v, w), NEW z, NEW out, NEW k2,
           Did(s, x, k, n, z, out, k2)
    PROVE  Moves(s, x, k, n, w, z, out, k2, IF z.end = "no" THEN w ELSE <<>>)
<1> DEFINE w2 == IF z.end = "no" THEN w ELSE <<>>
<1> SUFFICES Moves(s, x, k, n, w, z, out, k2, w2)
  OBVIOUS
<1>1. \A id \in DOMAIN k : k[id].st = "held" /\ id \in DOMAIN x.chans => x.chans[id].peer # 0
  BY DEF Hand, Handshake
<1>2. z.end = "no" => w2 = w
  OBVIOUS
<1>3. z.end # "no" => w2 = <<>>
  OBVIOUS
<1> HIDE DEF w2
<1>4. /\ \A id \in DOMAIN x.chans : \A t \in {"DATA", "EOF", "CLOSE"} :
            LET o == On(x, id, t) IN o \in Message /\ o.t = t /\ OnId(o, x, id)
  BY OnMessage DEF OnId
<1>5. KeptChans(s, x, x) /\ KeptRefs(x, x) /\ KeptTasks(x, k, k)
  BY KeptSelf
<1>6. CASE DidOpen(s, x, k, n, z, out, k2)
  <2>1. z.end = "no"
    BY <1>6 DEF DidOpen, Shift
  <2> QED  BY <1>2, <1>6, <2>1 DEF Moves
<1>7. CASE DidGlobal(s, x, k, z, out, k2)
  <2>1. /\ KeptChans(s, x, z) /\ KeptRefs(x, z) /\ z.end = "no" /\ k2 = k
    BY <1>7 DEF DidGlobal, Queues, KeptChans, KeptRefs
  <2>2. \A i \in DOMAIN out : out[i].t = "GLOBAL"
    BY <1>7 DEF DidGlobal
  <2>3. Quiet(s, x, k, w, z, out, k2, w2)
    BY <1>2, <1>5, <2>1, <2>2 DEF Quiet, Voice
  <2> QED  BY <2>3 DEF Moves
<1>15. CASE DidNoReply(x, k, z, out, k2)
  <2>1. z = x /\ k2 = k /\ \A i \in DOMAIN out : out[i].t = "GLOBAL"
    BY <1>15 DEF DidNoReply
  <2>2. Quiet(s, x, k, w, z, out, k2, w2)
    BY <1>2, <1>5, <2>1 DEF Quiet, Voice
  <2> QED  BY <2>2 DEF Moves
<1>8. CASE \/ Stops(x, z, "left") /\ out = <<[t |-> "DISCONNECT"]>> /\ k2 = k
           \/ Stops(x, z, "eof") /\ out = <<>> /\ k2 = k
  <2>1. z.end \in {"left", "eof"} /\ Stops(x, z, z.end) /\ k2 = k
    BY <1>8 DEF Stops
  <2>2. \A i \in DOMAIN out : out[i].t = "DISCONNECT"
    BY <1>8, NoMessage
  <2>3. Leaves(s, x, k, w, z, out, k2, w2)
    BY <1>3, <2>1, <2>2 DEF Leaves, Reasons
  <2> QED  BY <2>3 DEF Moves
<1>9. ASSUME NEW id \in DOMAIN k, DidGiveUp(x, k, id, z, out, k2)
      PROVE  Moves(s, x, k, n, w, z, out, k2, w2)
  <2>1. KeptTasks(x, k, k2)
    BY <1>9, KeptTells DEF DidGiveUp
  <2>2. Quiet(s, x, k, w, z, out, k2, w2)
    BY <1>2, <1>5, <1>9, <2>1, QuietAct DEF DidGiveUp
  <2> QED  BY <2>2 DEF Moves
<1>10. ASSUME NEW id \in DOMAIN k, DidData(x, k, id, z, out, k2)
       PROVE  Moves(s, x, k, n, w, z, out, k2, w2)
  <2>1. \/ z = x
        \/ /\ id \in DOMAIN x.chans
           /\ \E d : Puts(x, z, id, d) /\ Twin(x.chans[id], d) /\ Ends(x.chans[id], d)
    BY <1>10, Zenon DEF DidData, Sends
  <2>2. KeptChans(s, x, z) /\ KeptRefs(x, z) /\ z.end = "no"
    <3>1. KeptChans(s, x, z) /\ KeptRefs(x, z)
      BY <1>5, <2>1, KeptPuts DEF Ends
    <3> QED  BY <3>1 DEF KeptChans
  <2>3. k2 = k
    BY <1>10 DEF DidData
  <2>4. id \in DOMAIN x.chans => x.chans[id].peer # 0
    BY <1>1, <1>10 DEF DidData
  <2>6. \A i \in DOMAIN out : id \in DOMAIN x.chans /\ out[i].t = "DATA" /\ OnId(out[i], x, id)
    <3>1. CASE id \notin DOMAIN x.chans
      BY <1>10, <3>1, NoMessage DEF DidData
    <3>2. CASE id \in DOMAIN x.chans
      <4>1. PICK d : Sends(x, id, d, out)
        BY <1>10, <3>2 DEF DidData
      <4> QED  BY <3>2, <4>1, SendsSays DEF OnId
    <3> QED  BY <3>1, <3>2
  <2>5. Quiet(s, x, k, w, z, out, k2, w2)
    BY <1>2, <1>5, <2>2, <2>3, <2>4, <2>6 DEF Quiet, Voice, Plain
  <2> QED  BY <2>5 DEF Moves
<1>11. ASSUME NEW id \in DOMAIN k, DidEof(s, x, k, id, z, out, k2)
       PROVE  Moves(s, x, k, n, w, z, out, k2, w2)
  <2>1. \/ z = x
        \/ /\ id \in DOMAIN x.chans
           /\ \E d : /\ Puts(x, z, id, d) /\ Twin(x.chans[id], d)
                     /\ d.pclose = x.chans[id].pclose
    BY <1>11 DEF DidEof
  <2>2. KeptChans(s, x, z) /\ KeptRefs(x, z) /\ z.end = "no"
    <3>1. KeptChans(s, x, z) /\ KeptRefs(x, z)
      BY <1>5, <2>1, KeptPuts
    <3> QED  BY <3>1 DEF KeptChans
  <2>3. out = <<>> \/ (id \in DOMAIN x.chans /\ out = <<On(x, id, "EOF")>>)
    BY <1>11 DEF DidEof
  <2>4. id \in DOMAIN x.chans => x.chans[id].peer # 0
    BY <1>1, <1>11 DEF DidEof
  <2>5. KeptTasks(x, k, k2)
    BY <1>11, KeptTells DEF DidEof
  <2>6. Quiet(s, x, k, w, z, out, k2, w2)
    BY <1>2, <1>4, <2>2, <2>3, <2>4, <2>5, QuietAct DEF Plain
  <2> QED  BY <2>6 DEF Moves
<1>12. ASSUME NEW id \in DOMAIN k, DidClose(s, x, k, id, z, out, k2)
       PROVE  Moves(s, x, k, n, w, z, out, k2, w2)
  <2>1. KeptTasks(x, k, k2)
    BY <1>12, KeptTells DEF DidClose
  <2>2. id \in DOMAIN x.chans => x.chans[id].peer # 0
    BY <1>1, <1>12 DEF DidClose
  <2>3. CASE id \notin DOMAIN x.chans /\ Still(x, z) /\ out = <<>>
    <3>1. KeptChans(s, x, z) /\ KeptRefs(x, z) /\ z.end = "no"
      BY <2>3 DEF Still, Shift, KeptChans, KeptRefs
    <3>2. Quiet(s, x, k, w, z, out, k2, w2)
      BY <1>2, <2>1, <2>3, <3>1, QuietAct
    <3> QED  BY <3>2 DEF Moves
  <2>4. CASE /\ id \in DOMAIN x.chans /\ s = "client" /\ out = <<>>
             /\ \E d : Puts(x, z, id, d) /\ Twin(x.chans[id], d)
    <3>1. KeptChans(s, x, z) /\ KeptRefs(x, z) /\ z.end = "no"
      <4>1. KeptChans(s, x, z) /\ KeptRefs(x, z)
        BY <2>4, KeptPuts
      <4> QED  BY <4>1 DEF KeptChans
    <3>2. Quiet(s, x, k, w, z, out, k2, w2)
      BY <1>2, <2>1, <2>4, <3>1, QuietAct
    <3> QED  BY <3>2 DEF Moves
  <2>5. CASE /\ id \in DOMAIN x.chans /\ s = "client"
             /\ Drops(x, z, id) /\ out = <<On(x, id, "CLOSE")>>
    <3>1. /\ z.end = "no" /\ z.last = x.last /\ KeptRefs(x, z)
          /\ z.chans = Without(x.chans, id)
      BY <2>5 DEF Drops, Same, KeptRefs
    <3>2. DOMAIN out = {1} /\ out[1].t = "CLOSE" /\ OnId(out[1], x, id)
      BY <1>4, <2>5, OneMessage
    <3>3. Forgets(s, x, k, w, z, out, k2, w2)
      BY <1>2, <2>1, <2>2, <2>5, <3>1, <3>2 DEF Forgets, Plain
    <3> QED  BY <3>3 DEF Moves
  <2>6. CASE id \in DOMAIN x.chans /\ s = "server" /\ z = x /\ out = <<On(x, id, "CLOSE")>>
    <3>1. Quiet(s, x, k, w, z, out, k2, w2)
      BY <1>2, <1>4, <1>5, <2>1, <2>2, <2>6, QuietAct DEF Plain
    <3> QED  BY <3>1 DEF Moves
  <2> QED  BY <1>12, <2>3, <2>4, <2>5, <2>6 DEF DidClose
<1>13. ASSUME NEW id \in DOMAIN k, NEW wants \in BOOLEAN, NEW agent \in BOOLEAN, s = "client",
              DidRequest(x, k, id, wants, agent, z, out, k2)
       PROVE  Moves(s, x, k, n, w, z, out, k2, w2)
  <2> DEFINE m == [t |-> "REQUEST", to |-> x.chans[id].peer, ch |-> x.chans[id].ch,
                   wants |-> wants, agent |-> agent, n |-> k[id].asks + 1]
  <2>1. out = <<>> \/ (id \in DOMAIN x.chans /\ out = <<m>>)
    BY <1>13 DEF DidRequest
  <2>2. id \in DOMAIN x.chans => m \in Message /\ OnId(m, x, id)
    <3>1. k[id].asks + 1 \in Nat
      BY TasksFacts, OneTaskFacts
    <3>2. id \in DOMAIN x.chans => x.chans[id].peer \in Nat /\ x.chans[id].ch \in Names
      BY SessionFacts, TableFacts, ParamFacts
    <3> QED  BY <3>1, <3>2 DEF Message, OnId
  <2>3. m.t = "REQUEST"
    OBVIOUS
  <2> HIDE DEF m
  <2>4. z = x /\ KeptTasks(x, k, k2)
    BY <1>13, KeptTells DEF DidRequest
  <2>5. id \in DOMAIN x.chans => x.chans[id].peer # 0
    BY <1>1, <1>13 DEF DidRequest
  <2>6. Quiet(s, x, k, w, z, out, k2, w2)
    BY <1>2, <1>5, <2>1, <2>2, <2>3, <2>4, <2>5, QuietAct DEF Plain
  <2> QED  BY <2>6 DEF Moves
<1>14. ASSUME NEW id \in DOMAIN k, s = "server", DidAnswer(x, k, id, z, out, k2)
       PROVE  Moves(s, x, k, n, w, z, out, k2, w2)
  <2> DEFINE m == OnWith(x, id, "ANSWER", x.chans[id].asked)
  <2>1. \/ z = x
        \/ /\ id \in DOMAIN x.chans
           /\ \E d : Puts(x, z, id, d) /\ Twin(x.chans[id], d) /\ Ends(x.chans[id], d)
    BY <1>14 DEF DidAnswer
  <2>2. KeptChans(s, x, z) /\ KeptRefs(x, z) /\ z.end = "no"
    <3>1. KeptChans(s, x, z) /\ KeptRefs(x, z)
      BY <1>5, <2>1, KeptPuts DEF Ends
    <3> QED  BY <3>1 DEF KeptChans
  <2>3. k2 = k /\ (out = <<>> \/ (id \in DOMAIN x.chans /\ out = <<m>>))
    BY <1>14 DEF DidAnswer
  <2>4. id \in DOMAIN x.chans => x.chans[id].peer # 0
    BY <1>1, <1>14 DEF DidAnswer
  <2>5. id \in DOMAIN x.chans => m \in Message /\ m.t = "ANSWER" /\ OnId(m, x, id)
    <3>1. id \in DOMAIN x.chans => x.chans[id].asked \in Nat
      BY SessionFacts, TableFacts, ParamFacts
    <3> QED  BY <3>1, OnMessage DEF OnId
  <2> HIDE DEF m
  <2>6. Quiet(s, x, k, w, z, out, k2, w2)
    BY <1>2, <1>5, <2>2, <2>3, <2>4, <2>5, QuietAct DEF Plain
  <2> QED  BY <2>6 DEF Moves
<1> QED  BY <1>6, <1>7, <1>8, <1>9, <1>10, <1>11, <1>12, <1>13, <1>14, <1>15, Zenon DEF Did

-----------------------------------------------------------------------------
\* Every step keeps the invariant.

\* What s has written, before and after: all of it is there while the peer
\* lives, and nothing but it and what is new.
At(v, j) == Len(v) + j

Longer(y, v, out, v2) ==
    /\ \A i \in DOMAIN v2 : \/ i \in DOMAIN v /\ v2[i] = v[i]
                            \/ \E j \in DOMAIN out : i = At(v, j) /\ v2[i] = out[j]
    /\ y.end = "no" =>
          /\ \A i \in DOMAIN v : i \in DOMAIN v2 /\ v2[i] = v[i]
          /\ \A j \in DOMAIN out : At(v, j) \in DOMAIN v2 /\ v2[At(v, j)] = out[j]
    /\ y.end # "no" => DOMAIN v2 = {}
    /\ \A i \in DOMAIN v, j \in DOMAIN out : Before(i, At(v, j)) /\ i # At(v, j)
    /\ \A i, j \in DOMAIN out : At(v, i) = At(v, j) => i = j

LEMMA LongerBy ==
    ASSUME NEW y, NEW v \in Seq(Message), NEW out \in Seq(Message), NEW v2,
           v2 = (IF y.end = "no" THEN v \o out ELSE <<>>)
    PROVE  Longer(y, v, out, v2)
<1>1. /\ \A i \in DOMAIN v, j \in DOMAIN out : Before(i, At(v, j)) /\ i # At(v, j)
      /\ \A i, j \in DOMAIN out : At(v, i) = At(v, j) => i = j
  BY DEF Before, At
<1>2. CASE y.end = "no"
  <2>1. v2 = v \o out
    BY <1>2
  <2>2. \A i \in DOMAIN v2 : \/ i \in DOMAIN v /\ v2[i] = v[i]
                             \/ i - Len(v) \in DOMAIN out /\ v2[i] = out[i - Len(v)]
    BY <2>1
  <2>3. \A i \in DOMAIN v2 : i = At(v, i - Len(v))
    BY <2>1 DEF At
  <2>4. /\ \A i \in DOMAIN v : i \in DOMAIN v2 /\ v2[i] = v[i]
        /\ \A j \in DOMAIN out : At(v, j) \in DOMAIN v2 /\ v2[At(v, j)] = out[j]
    BY <2>1 DEF At
  <2>5. \A i \in DOMAIN v2 : \/ i \in DOMAIN v /\ v2[i] = v[i]
                             \/ \E j \in DOMAIN out : i = At(v, j) /\ v2[i] = out[j]
    BY <2>2, <2>3
  <2> QED  BY <1>1, <1>2, <2>4, <2>5 DEF Longer
<1>3. CASE y.end # "no"
  <2>1. DOMAIN v2 = {}
    BY <1>3
  <2> QED  BY <1>1, <1>3, <2>1 DEF Longer
<1> QED  BY <1>2, <1>3

\* What the peer has written, before and after s has read d messages of it.
Up(d, i) == i + d

Shorter(w, d, w2) ==
    /\ \A i \in DOMAIN w2 : Up(d, i) \in DOMAIN w /\ w2[i] = w[Up(d, i)]
    /\ \A i \in DOMAIN w : (d = 1 /\ i = 1) \/ \E j \in DOMAIN w2 : i = Up(d, j)
    /\ \A i, j \in DOMAIN w2 : Before(Up(d, i), Up(d, j)) => Before(i, j)
    /\ \A i, j \in DOMAIN w2 : Up(d, i) = Up(d, j) => i = j
    /\ d = 1 => /\ 1 \in DOMAIN w /\ Head(w) = w[1] /\ \A i \in DOMAIN w : ~Before(i, 1)
                /\ \A i \in DOMAIN w2 : Up(d, i) # 1

LEMMA ShorterBy ==
    ASSUME NEW w \in Seq(Message)
    PROVE  /\ Shorter(w, 0, w)
           /\ w # <<>> => Shorter(w, 1, Tail(w))
<1>1. Shorter(w, 0, w)
  <2>1. \A i \in DOMAIN w : Up(0, i) = i
    BY DEF Up
  <2> QED  BY <2>1 DEF Shorter
<1>2. ASSUME w # <<>> PROVE Shorter(w, 1, Tail(w))
  <2>1. /\ \A i \in DOMAIN Tail(w) : Up(1, i) \in DOMAIN w /\ Tail(w)[i] = w[Up(1, i)] /\ Up(1, i) # 1
        /\ 1 \in DOMAIN w /\ Head(w) = w[1] /\ \A i \in DOMAIN w : ~Before(i, 1)
    BY <1>2 DEF Up, Before
  <2>2. \A i \in DOMAIN w : i = 1 \/ (i - 1 \in DOMAIN Tail(w) /\ i = Up(1, i - 1))
    BY <1>2 DEF Up
  <2>3. \A i, j \in DOMAIN Tail(w) : /\ Before(Up(1, i), Up(1, j)) => Before(i, j)
                                     /\ Up(1, i) = Up(1, j) => i = j
    BY <1>2 DEF Up, Before
  <2> QED  BY <2>1, <2>2, <2>3 DEF Shorter
<1> QED  BY <1>1, <1>2

LEMMA ReadsShorter ==
    ASSUME NEW w \in Seq(Message), w # <<>>, NEW w2, w2 = Tail(w)
    PROVE  Shorter(w, 1, w2) /\ Head(w) = w[1] /\ 1 \in DOMAIN w
<1>1. Shorter(w, 1, w2)
  BY ShorterBy
<1> QED  BY <1>1 DEF Shorter

\* The two sides, and a session that has ended.
Both(s, p, x, y, k, l, v, w) ==
    /\ s \in Sides /\ p \in Sides /\ s # p
    /\ x \in Session /\ y \in Session /\ k \in Tasks /\ l \in Tasks
    /\ v \in Seq(Message) /\ w \in Seq(Message)
    /\ x.end # "no" => w = <<>> /\ x.chans = <<>>
    /\ y.end # "no" => v = <<>> /\ y.chans = <<>>
    /\ Hand(s, x, y, k, v, w) /\ Hand(p, y, x, l, w, v)

\* The plain facts about them.
Facts(s, p, x, y, v, w) ==
    /\ x.end # "no" => DOMAIN w = {} /\ DOMAIN x.chans = {}
    /\ y.end # "no" => DOMAIN v = {} /\ DOMAIN y.chans = {}
    /\ s = "server" \/ s = "client"
    /\ s = "server" <=> p = "client"
    /\ s = "client" <=> p = "server"
    /\ ~Given(x.last, 0) /\ ~Given(y.last, 0)
    /\ ~Given(x.last, x.last + 1) /\ Given(x.last + 1, x.last + 1) /\ x.last + 1 # 0
    /\ \A id : Given(x.last, id) => Given(x.last + 1, id)

LEMMA BothFacts ==
    ASSUME NEW s, NEW p, NEW x, NEW y, NEW k, NEW l, NEW v, NEW w,
           Both(s, p, x, y, k, l, v, w)
    PROVE  Facts(s, p, x, y, v, w)
<1>1. x \in Session /\ y \in Session /\ v \in Seq(Message) /\ w \in Seq(Message)
  BY DEF Both
<1>2. x.last \in Nat /\ y.last \in Nat
  BY <1>1, SessionFacts
<1>3. /\ ~Given(x.last, 0) /\ ~Given(y.last, 0)
      /\ ~Given(x.last, x.last + 1) /\ Given(x.last + 1, x.last + 1) /\ x.last + 1 # 0
      /\ \A id : Given(x.last, id) => Given(x.last + 1, id)
  BY <1>2 DEF Given
<1>4. /\ x.end # "no" => DOMAIN w = {} /\ DOMAIN x.chans = {}
      /\ y.end # "no" => DOMAIN v = {} /\ DOMAIN y.chans = {}
  BY <1>1, TablesEmpty DEF Both
<1>5. /\ s = "server" \/ s = "client"
      /\ s = "server" <=> p = "client"
      /\ s = "client" <=> p = "server"
  BY DEF Both, Sides
<1> QED  BY <1>3, <1>4, <1>5 DEF Facts

LEMMA QuietKeeps ==
    ASSUME NEW s, NEW p, NEW x, NEW y, NEW k, NEW l, NEW v, NEW w,
           Both(s, p, x, y, k, l, v, w),
           NEW z, NEW out, NEW k2, NEW v2, NEW w2,
           Quiet(s, x, k, w, z, out, k2, w2), Longer(y, v, out, v2)
    PROVE  Hand(s, z, y, k2, v2, w2) /\ Hand(p, y, z, l, w2, v2)
<1> USE DEF Facts
<1>a. Facts(s, p, x, y, v, w)
  BY BothFacts
<1>b. /\ Numbered(x, y, k, v) /\ Once(v, w) /\ Handshake(x, y, k, v, w)
      /\ ConfirmFirst(x, w) /\ Paired(s, x, y, v, w) /\ Closing(s, x, y, v, w)
  BY DEF Both, Hand
<1>c. /\ Numbered(y, x, l, w) /\ Once(w, v) /\ Handshake(y, x, l, w, v)
      /\ ConfirmFirst(y, v) /\ Paired(p, y, x, w, v) /\ Closing(p, y, x, w, v)
  BY DEF Both, Hand
<1>1. KeptChans(s, x, z) /\ KeptRefs(x, z) /\ KeptTasks(x, k, k2)
  BY DEF Quiet
<1>2. \A i \in DOMAIN out :
          /\ out[i].t \notin {"OPEN", "CONFIRM", "FAILURE"}
          /\ out[i].t \in OnChannel =>
                /\ out[i].t \in Plain
                /\ \E id \in DOMAIN x.chans : x.chans[id].peer # 0 /\ OnId(out[i], x, id)
          /\ s = "client" => out[i].t # "CLOSE"
  BY DEF Quiet, Voice, Plain, OnChannel
<1>3. PICK d \in {0, 1} :
          /\ Shorter(w, d, w2)
          /\ d = 1 => /\ w[1].t \notin {"OPEN", "CONFIRM", "FAILURE"}
                      /\ s = "server" /\ w[1].t = "CLOSE" => w[1].to \notin DOMAIN x.chans
  <2>1. CASE w2 = w
    BY <2>1, ShorterBy DEF Both
  <2>2. CASE w # <<>> /\ w2 = Tail(w)
    <3>1. Shorter(w, 1, w2) /\ Head(w) = w[1]
      BY <2>2, ReadsShorter DEF Both
    <3>2. \/ w2 = w
          \/ /\ Head(w).t \notin {"OPEN", "CONFIRM", "FAILURE"}
             /\ s = "server" /\ Head(w).t = "CLOSE" => Head(w).to \notin DOMAIN x.chans
      BY DEF Quiet
    <3> QED  BY <2>1, <3>1, <3>2
  <2> QED  BY <2>1, <2>2 DEF Quiet
<1>4. Numbered(z, y, k2, v2)
  BY <1>a, <1>b, <1>1, <1>2 DEF Numbered, Longer, KeptChans, KeptRefs, KeptTasks, OnId, OnChannel
<1>5. Once(v2, w2)
  BY <1>a, <1>b, <1>2, <1>3 DEF Once, Longer, Shorter, Verdicts
<1>6. Handshake(z, y, k2, v2, w2)
  BY <1>a, <1>b, <1>1, <1>2, <1>3 DEF Handshake, Longer, Shorter, Verdicts, KeptChans, KeptRefs, KeptTasks, Pends, Opening, Answering
<1>7. ConfirmFirst(z, w2)
  BY <1>a, <1>b, <1>1, <1>3 DEF ConfirmFirst, Shorter, KeptChans
<1>8. Paired(s, z, y, v2, w2)
  BY <1>a, <1>b, <1>1, <1>2, <1>3 DEF Paired, Longer, Shorter, KeptChans
<1>9. Closing(s, z, y, v2, w2)
  BY <1>a, <1>b, <1>1, <1>2, <1>3 DEF Closing, Longer, Shorter, KeptChans
<1>10. Numbered(y, z, l, w2)
  BY <1>a, <1>c, <1>1, <1>3 DEF Numbered, Shorter, KeptChans, OnChannel
<1>11. Once(w2, v2)
  BY <1>a, <1>c, <1>2, <1>3 DEF Once, Longer, Shorter, Verdicts
<1>12. Handshake(y, z, l, w2, v2)
  BY <1>a, <1>c, <1>1, <1>2, <1>3 DEF Handshake, Longer, Shorter, Verdicts, KeptChans, Pends, Opening, Answering
<1>13. ConfirmFirst(y, v2)
  BY <1>a, <1>b, <1>c, <1>2 DEF ConfirmFirst, Numbered, Paired, Longer, OnId, OnChannel, Plain
<1>14. Paired(p, y, z, w2, v2)
  BY <1>a, <1>c, <1>1, <1>2, <1>3 DEF Paired, Longer, Shorter, KeptChans
<1>15. Closing(p, y, z, w2, v2)
  BY <1>a, <1>c, <1>1, <1>2, <1>3 DEF Closing, Longer, Shorter, KeptChans
<1> QED  BY <1>4, <1>5, <1>6, <1>7, <1>8, <1>9, <1>10, <1>11, <1>12, <1>13, <1>14, <1>15 DEF Hand

\* The client forgets a channel.
LEMMA ForgetsKeeps ==
    ASSUME NEW s, NEW p, NEW x, NEW y, NEW k, NEW l, NEW v, NEW w,
           Both(s, p, x, y, k, l, v, w), x.end = "no",
           NEW z, NEW out, NEW k2, NEW v2, NEW w2,
           Forgets(s, x, k, w, z, out, k2, w2), Longer(y, v, out, v2)
    PROVE  Hand(s, z, y, k2, v2, w2) /\ Hand(p, y, z, l, w2, v2)
<1> USE DEF Facts
<1>a. Facts(s, p, x, y, v, w)
  BY BothFacts
<1>b. /\ Numbered(x, y, k, v) /\ Once(v, w) /\ Handshake(x, y, k, v, w)
      /\ ConfirmFirst(x, w) /\ Paired(s, x, y, v, w) /\ Closing(s, x, y, v, w)
  BY DEF Both, Hand
<1>c. /\ Numbered(y, x, l, w) /\ Once(w, v) /\ Handshake(y, x, l, w, v)
      /\ ConfirmFirst(y, v) /\ Paired(p, y, x, w, v) /\ Closing(p, y, x, w, v)
  BY DEF Both, Hand
<1>1. s = "client" /\ z.last = x.last /\ z.end = x.end /\ KeptRefs(x, z) /\ KeptTasks(x, k, k2)
  BY DEF Forgets
<1>2. PICK id \in DOMAIN x.chans :
          /\ x.chans[id].peer # 0 /\ z.chans = Without(x.chans, id)
          /\ \A i \in DOMAIN out : out[i].t \in Plain /\ OnId(out[i], x, id)
          /\ \E i \in DOMAIN out : out[i].t = "CLOSE"
  BY DEF Forgets
<1>3. /\ DOMAIN z.chans = DOMAIN x.chans \ {id}
      /\ \A i \in DOMAIN z.chans : z.chans[i] = x.chans[i]
  BY <1>2 DEF Without
<1>4. PICK d \in {0, 1} :
          /\ Shorter(w, d, w2)
          /\ d = 1 => w[1].t \notin {"OPEN", "CONFIRM", "FAILURE"}
  <2>1. CASE w2 = w
    BY <2>1, ShorterBy DEF Both
  <2>2. CASE w # <<>> /\ w2 = Tail(w) /\ Head(w).t \notin {"OPEN", "CONFIRM", "FAILURE"}
    <3>1. Shorter(w, 1, w2) /\ Head(w) = w[1]
      BY <2>2, ReadsShorter DEF Both
    <3> QED  BY <2>2, <3>1
  <2> QED  BY <2>1, <2>2 DEF Forgets
<1>5. /\ x.chans[id].peer # 0
      /\ \A i \in DOMAIN out : /\ out[i].t \in Plain
                               /\ out[i].t \notin {"OPEN", "CONFIRM", "FAILURE"}
                               /\ out[i].to = x.chans[id].peer /\ out[i].ch = x.chans[id].ch
      /\ \E i \in DOMAIN out : out[i].t = "CLOSE"
  BY <1>2 DEF Plain, OnId
<1>6. Numbered(z, y, k2, v2)
  BY <1>a, <1>b, <1>1, <1>3, <1>4, <1>5
  DEF Numbered, OnChannel, Longer, Shorter, KeptRefs, KeptTasks
<1>7. Once(v2, w2)
  BY <1>a, <1>b, <1>1, <1>3, <1>4, <1>5
  DEF Once, Verdicts, Longer, Shorter
<1>8. Handshake(z, y, k2, v2, w2)
  BY <1>a, <1>b, <1>1, <1>3, <1>4, <1>5
  DEF Handshake, Verdicts, Pends, Opening, Answering, Longer, Shorter, KeptRefs, KeptTasks
<1>9. ConfirmFirst(z, w2)
  BY <1>a, <1>b, <1>1, <1>3, <1>4, <1>5
  DEF ConfirmFirst, Plain, Longer, Shorter
<1>10. Paired(s, z, y, v2, w2)
  BY <1>a, <1>b, <1>1, <1>3, <1>4, <1>5
  DEF Paired, Longer, Shorter
<1>11. Closing(s, z, y, v2, w2)
  BY <1>a, <1>b, <1>1, <1>3, <1>4, <1>5
  DEF Closing, Longer, Shorter
<1>12. Numbered(y, z, l, w2)
  BY <1>a, <1>c, <1>1, <1>3, <1>4, <1>5
  DEF Numbered, OnChannel, Longer, Shorter
<1>13. Once(w2, v2)
  BY <1>a, <1>c, <1>1, <1>3, <1>4, <1>5
  DEF Once, Verdicts, Longer, Shorter
<1>14. Handshake(y, z, l, w2, v2)
  BY <1>a, <1>c, <1>1, <1>3, <1>4, <1>5
  DEF Handshake, Verdicts, Pends, Opening, Answering, Longer, Shorter
<1>15. ConfirmFirst(y, v2)
  BY <1>a, <1>c, <1>1, <1>3, <1>4, <1>5, <1>b
  DEF ConfirmFirst, Plain, Longer, Shorter, Paired, Numbered
<1>16. Paired(p, y, z, w2, v2)
  BY <1>a, <1>c, <1>1, <1>3, <1>4, <1>5
  DEF Paired, Longer, Shorter
<1>17. Closing(p, y, z, w2, v2)
  BY <1>a, <1>c, <1>1, <1>3, <1>4, <1>5, <1>b, SMTT(60)
  DEF Closing, Longer, Shorter, Paired, Numbered, Once, Verdicts, Handshake, Pends
<1> QED  BY <1>6, <1>7, <1>8, <1>9, <1>10, <1>11, <1>12, <1>13, <1>14, <1>15, <1>16, <1>17 DEF Hand

\* The server forgets a channel that the client has closed.
LEMMA ShutKeeps ==
    ASSUME NEW s, NEW p, NEW x, NEW y, NEW k, NEW l, NEW v, NEW w,
           Both(s, p, x, y, k, l, v, w), x.end = "no",
           NEW z, NEW out, NEW k2, NEW v2, NEW w2,
           Shut(s, x, k, w, z, out, k2, w2), Longer(y, v, out, v2)
    PROVE  Hand(s, z, y, k2, v2, w2) /\ Hand(p, y, z, l, w2, v2)
<1> USE DEF Facts
<1>a. Facts(s, p, x, y, v, w)
  BY BothFacts
<1>b. /\ Numbered(x, y, k, v) /\ Once(v, w) /\ Handshake(x, y, k, v, w)
      /\ ConfirmFirst(x, w) /\ Paired(s, x, y, v, w) /\ Closing(s, x, y, v, w)
  BY DEF Both, Hand
<1>c. /\ Numbered(y, x, l, w) /\ Once(w, v) /\ Handshake(y, x, l, w, v)
      /\ ConfirmFirst(y, v) /\ Paired(p, y, x, w, v) /\ Closing(p, y, x, w, v)
  BY DEF Both, Hand
<1>1. /\ s = "server" /\ k2 = k /\ z.last = x.last /\ z.end = x.end
      /\ z.refs = x.refs \ {Head(w).to} /\ z.chans = Without(x.chans, Head(w).to)
      /\ w # <<>> /\ w2 = Tail(w) /\ Head(w).t = "CLOSE" /\ Head(w).to \in DOMAIN x.chans
      /\ out = <<>>
  BY DEF Shut, Shift
<1>2. Shorter(w, 1, w2) /\ Head(w) = w[1]
  BY <1>1, ReadsShorter DEF Both
<1>3. x.chans[w[1].to].peer # 0
  BY <1>b, <1>1, <1>2, HeadConfirmed DEF Both, Plain
<1>4. DOMAIN out = {}
  BY <1>1, NoMessage
<1>5. /\ s = "server" /\ k2 = k /\ z.last = x.last /\ z.end = x.end
      /\ z.refs = x.refs \ {w[1].to}
      /\ DOMAIN z.chans = DOMAIN x.chans \ {w[1].to}
      /\ \A i \in DOMAIN z.chans : z.chans[i] = x.chans[i]
      /\ w[1].t = "CLOSE" /\ w[1].to \in DOMAIN x.chans
  BY <1>1, <1>2 DEF Without
<1>6. Numbered(z, y, k2, v2)
  BY <1>a, <1>b, <1>2, <1>3, <1>4, <1>5
  DEF Numbered, OnChannel, Longer, Shorter
<1>7. Once(v2, w2)
  BY <1>a, <1>b, <1>2, <1>3, <1>4, <1>5
  DEF Once, Verdicts, Longer, Shorter
<1>8. Handshake(z, y, k2, v2, w2)
  BY <1>a, <1>b, <1>2, <1>3, <1>4, <1>5
  DEF Handshake, Verdicts, Pends, Opening, Answering, Longer, Shorter
<1>9. ConfirmFirst(z, w2)
  BY <1>a, <1>b, <1>2, <1>3, <1>4, <1>5
  DEF ConfirmFirst, Plain, Longer, Shorter
<1>10. Paired(s, z, y, v2, w2)
  BY <1>a, <1>b, <1>2, <1>3, <1>4, <1>5
  DEF Paired, Longer, Shorter, Closing
<1>11. Closing(s, z, y, v2, w2)
  BY <1>a, <1>b, <1>2, <1>3, <1>4, <1>5
  DEF Closing, Longer, Shorter
<1>12. Numbered(y, z, l, w2)
  BY <1>a, <1>c, <1>2, <1>3, <1>4, <1>5
  DEF Numbered, OnChannel, Longer, Shorter
<1>13. Once(w2, v2)
  BY <1>a, <1>c, <1>2, <1>3, <1>4, <1>5
  DEF Once, Verdicts, Longer, Shorter
<1>14. Handshake(y, z, l, w2, v2)
  BY <1>a, <1>c, <1>2, <1>3, <1>4, <1>5
  DEF Handshake, Verdicts, Pends, Opening, Answering, Longer, Shorter
<1>15. ConfirmFirst(y, v2)
  BY <1>a, <1>c, <1>2, <1>3, <1>4, <1>5
  DEF ConfirmFirst, Plain, Longer, Shorter
<1>16. Paired(p, y, z, w2, v2)
  BY <1>a, <1>c, <1>2, <1>3, <1>4, <1>5, <1>b
  DEF Paired, Longer, Shorter, Closing
<1>17. Closing(p, y, z, w2, v2)
  BY <1>a, <1>c, <1>2, <1>3, <1>4, <1>5
  DEF Closing, Longer, Shorter
<1> QED  BY <1>6, <1>7, <1>8, <1>9, <1>10, <1>11, <1>12, <1>13, <1>14, <1>15, <1>16, <1>17 DEF Hand

\* A channel is opened.
LEMMA OpenKeeps ==
    ASSUME NEW s, NEW p, NEW x, NEW y, NEW k, NEW l, NEW v, NEW w,
           Both(s, p, x, y, k, l, v, w), x.end = "no",
           NEW z, NEW out, NEW k2, NEW v2, NEW w2,
           NEW n, DidOpen(s, x, k, n, z, out, k2), w2 = w, Longer(y, v, out, v2)
    PROVE  Hand(s, z, y, k2, v2, w2) /\ Hand(p, y, z, l, w2, v2)
<1> USE DEF Facts
<1>a. Facts(s, p, x, y, v, w)
  BY BothFacts
<1>b. /\ Numbered(x, y, k, v) /\ Once(v, w) /\ Handshake(x, y, k, v, w)
      /\ ConfirmFirst(x, w) /\ Paired(s, x, y, v, w) /\ Closing(s, x, y, v, w)
  BY DEF Both, Hand
<1>c. /\ Numbered(y, x, l, w) /\ Once(w, v) /\ Handshake(y, x, l, w, v)
      /\ ConfirmFirst(y, v) /\ Paired(p, y, x, w, v) /\ Closing(p, y, x, w, v)
  BY DEF Both, Hand
<1> DEFINE id == x.last + 1
<1>1. /\ Shift(x, z, id, x.refs \cup {id}, With(x.chans, id, Params(<<s, n>>, 0, 0)))
      /\ out = <<[t |-> "OPEN", from |-> id, ch |-> <<s, n>>]>>
      /\ k2 = With(k, id, Task("wait"))
  BY DEF DidOpen
<1>2. id \notin DOMAIN x.chans /\ id \notin DOMAIN k /\ id \notin x.refs
  BY <1>a, <1>b DEF Numbered
<1>3. /\ DOMAIN z.chans = DOMAIN x.chans \cup {id}
      /\ \A i \in DOMAIN x.chans : z.chans[i] = x.chans[i]
      /\ z.chans[id].peer = 0 /\ z.chans[id].ch = <<s, n>> /\ ~z.chans[id].pclose
  BY <1>1, <1>2 DEF Shift, With, Params
<1>4. /\ DOMAIN k2 = DOMAIN k \cup {id} /\ k2[id].st = "wait"
      /\ \A i \in DOMAIN k : k2[i] = k[i]
  BY <1>1, <1>2 DEF With, Task
<1>5. /\ z.last = id /\ z.end = x.end /\ z.refs = x.refs \cup {id}
  BY <1>1 DEF Shift
<1>6. /\ 1 \in DOMAIN out
      /\ \A i \in DOMAIN out : /\ i = 1 /\ out[i].t = "OPEN" /\ out[i].from = id
                               /\ out[i].ch = <<s, n>>
  BY <1>1
<1>7. ~Given(x.last, id) /\ Given(id, id) /\ id # 0 /\ \A i : Given(x.last, i) => Given(id, i)
  BY <1>a
<1> HIDE DEF id
<1>8. Numbered(z, y, k2, v2)
  BY <1>a, <1>b, <1>2, <1>3, <1>4, <1>5, <1>6, <1>7, <1>c
  DEF Numbered, OnChannel, Longer, Shorter
<1>9. Once(v2, w2)
  BY <1>a, <1>b, <1>2, <1>3, <1>4, <1>5, <1>6, <1>7, <1>c
  DEF Once, Verdicts, Longer, Shorter, Numbered, OnChannel
<1>10. Handshake(z, y, k2, v2, w2)
  BY <1>a, <1>b, <1>2, <1>3, <1>4, <1>5, <1>6, <1>7
  DEF Handshake, Verdicts, Pends, Opening, Answering, Longer, Shorter
<1>11. ConfirmFirst(z, w2)
  BY <1>a, <1>b, <1>2, <1>3, <1>4, <1>5, <1>6, <1>7, <1>c
  DEF ConfirmFirst, Plain, Longer, Shorter, Numbered, OnChannel
<1>12. Paired(s, z, y, v2, w2)
  BY <1>a, <1>b, <1>2, <1>3, <1>4, <1>5, <1>6, <1>7
  DEF Paired, Longer, Shorter, Numbered
<1>13. Closing(s, z, y, v2, w2)
  BY <1>a, <1>b, <1>2, <1>3, <1>4, <1>5, <1>6, <1>7
  DEF Closing, Longer, Shorter
<1>14. Numbered(y, z, l, w2)
  BY <1>a, <1>c, <1>2, <1>3, <1>4, <1>5, <1>6, <1>7, <1>b
  DEF Numbered, OnChannel, Longer, Shorter
<1>15. Once(w2, v2)
  BY <1>a, <1>c, <1>2, <1>3, <1>4, <1>5, <1>6, <1>7, <1>b
  DEF Once, Verdicts, Longer, Shorter, Numbered, OnChannel
<1>16. Handshake(y, z, l, w2, v2)
  BY <1>a, <1>c, <1>2, <1>3, <1>4, <1>5, <1>6, <1>7
  DEF Handshake, Verdicts, Pends, Opening, Answering, Longer, Shorter
<1>17. ConfirmFirst(y, v2)
  BY <1>a, <1>c, <1>2, <1>3, <1>4, <1>5, <1>6, <1>7
  DEF ConfirmFirst, Plain, Longer, Shorter
<1>18. Paired(p, y, z, w2, v2)
  BY <1>a, <1>c, <1>2, <1>3, <1>4, <1>5, <1>6, <1>7
  DEF Paired, Longer, Shorter, Numbered
<1>19. Closing(p, y, z, w2, v2)
  BY <1>a, <1>c, <1>2, <1>3, <1>4, <1>5, <1>6, <1>7, <1>b
  DEF Closing, Longer, Shorter, Numbered, OnChannel
<1> QED  BY <1>8, <1>9, <1>10, <1>11, <1>12, <1>13, <1>14, <1>15, <1>16, <1>17, <1>18, <1>19 DEF Hand

\* A channel is accepted.
LEMMA AcceptsKeeps ==
    ASSUME NEW s, NEW p, NEW x, NEW y, NEW k, NEW l, NEW v, NEW w,
           Both(s, p, x, y, k, l, v, w), x.end = "no",
           NEW z, NEW out, NEW k2, NEW v2, NEW w2,
           Accepts(s, x, k, w, z, out, k2, w2), Longer(y, v, out, v2)
    PROVE  Hand(s, z, y, k2, v2, w2) /\ Hand(p, y, z, l, w2, v2)
<1> USE DEF Facts
<1>a. Facts(s, p, x, y, v, w)
  BY BothFacts
<1>b. /\ Numbered(x, y, k, v) /\ Once(v, w) /\ Handshake(x, y, k, v, w)
      /\ ConfirmFirst(x, w) /\ Paired(s, x, y, v, w) /\ Closing(s, x, y, v, w)
  BY DEF Both, Hand
<1>c. /\ Numbered(y, x, l, w) /\ Once(w, v) /\ Handshake(y, x, l, w, v)
      /\ ConfirmFirst(y, v) /\ Paired(p, y, x, w, v) /\ Closing(p, y, x, w, v)
  BY DEF Both, Hand
<1> DEFINE id == x.last + 1
           m == Head(w)
           r == w[1].from
<1>1. /\ w # <<>> /\ w2 = Tail(w) /\ m.t = "OPEN"
      /\ Shift(x, z, id, x.refs \cup {id}, With(x.chans, id, Params(m.ch, m.from, Window)))
      /\ out = <<[t |-> "CONFIRM", to |-> m.from, ch |-> m.ch, from |-> id]>>
      /\ k2 = With(k, id, Task("held"))
  BY DEF Accepts
<1>2. Shorter(w, 1, w2) /\ m = w[1]
  BY <1>1, ReadsShorter DEF Both
<1>3. id \notin DOMAIN x.chans /\ id \notin DOMAIN k /\ id \notin x.refs
  BY <1>a, <1>b DEF Numbered
<1>4. /\ DOMAIN z.chans = DOMAIN x.chans \cup {id}
      /\ \A i \in DOMAIN x.chans : z.chans[i] = x.chans[i]
      /\ z.chans[id].peer = r /\ z.chans[id].ch = w[1].ch /\ ~z.chans[id].pclose
  BY <1>1, <1>2, <1>3 DEF Shift, With, Params
<1>5. /\ DOMAIN k2 = DOMAIN k \cup {id} /\ k2[id].st = "held"
      /\ \A i \in DOMAIN k : k2[i] = k[i]
  BY <1>1, <1>3 DEF With, Task
<1>6. /\ z.last = id /\ z.end = x.end /\ z.refs = x.refs \cup {id}
  BY <1>1 DEF Shift
<1>7. /\ 1 \in DOMAIN out
      /\ \A i \in DOMAIN out : /\ i = 1 /\ out[i].t = "CONFIRM" /\ out[i].from = id
                               /\ out[i].ch = w[1].ch /\ out[i].to = r
  BY <1>1, <1>2
<1>8. ~Given(x.last, id) /\ Given(id, id) /\ id # 0 /\ \A i : Given(x.last, i) => Given(id, i)
  BY <1>a
<1>9. w[1].t = "OPEN" /\ 1 \in DOMAIN w
  BY <1>1, <1>2 DEF Shorter
<1>10. /\ Given(y.last, r) /\ r # 0
       /\ r \in DOMAIN y.chans => y.chans[r].ch = w[1].ch
       /\ y.end = "no" => Pends(y, l, r)
  BY <1>a, <1>c, <1>9 DEF Numbered, Handshake
<1> HIDE DEF id, r, m
<1>11. Numbered(z, y, k2, v2)
  BY <1>a, <1>b, <1>2, <1>3, <1>4, <1>5, <1>6, <1>7, <1>8, <1>9, <1>10
  DEF Numbered, OnChannel, Longer, Shorter, r
<1>12. Once(v2, w2)
  BY <1>a, <1>b, <1>2, <1>3, <1>4, <1>5, <1>6, <1>7, <1>8, <1>9, <1>10, <1>c
  DEF Once, Verdicts, Longer, Shorter, Numbered, r
<1>13. Handshake(z, y, k2, v2, w2)
  BY <1>a, <1>b, <1>2, <1>3, <1>4, <1>5, <1>6, <1>7, <1>8, <1>9, <1>10
  DEF Handshake, Verdicts, Pends, Opening, Answering, Longer, Shorter
<1>14. ConfirmFirst(z, w2)
  BY <1>a, <1>b, <1>2, <1>3, <1>4, <1>5, <1>6, <1>7, <1>8, <1>9, <1>10, <1>c
  DEF ConfirmFirst, Plain, Longer, Shorter, Numbered, OnChannel
<1>15. Paired(s, z, y, v2, w2)
  BY <1>a, <1>b, <1>2, <1>3, <1>4, <1>5, <1>6, <1>7, <1>8, <1>9, <1>10
  DEF Paired, Longer, Shorter, Numbered, Pends
<1>16. Closing(s, z, y, v2, w2)
  BY <1>a, <1>b, <1>2, <1>3, <1>4, <1>5, <1>6, <1>7, <1>8, <1>9, <1>10, <1>c
  DEF Closing, Longer, Shorter, Numbered, OnChannel
<1>17. Numbered(y, z, l, w2)
  BY <1>a, <1>c, <1>2, <1>3, <1>4, <1>5, <1>6, <1>7, <1>8, <1>9, <1>10, <1>b
  DEF Numbered, OnChannel, Longer, Shorter
<1>18. Once(w2, v2)
  BY <1>a, <1>c, <1>2, <1>3, <1>4, <1>5, <1>6, <1>7, <1>8, <1>9, <1>10, <1>b
  DEF Once, Verdicts, Longer, Shorter, Numbered, r
<1>19. Handshake(y, z, l, w2, v2)
  BY <1>a, <1>c, <1>2, <1>3, <1>4, <1>5, <1>6, <1>7, <1>8, <1>9, <1>10
  DEF Handshake, Verdicts, Pends, Opening, Answering, Longer, Shorter, r
<1>20. ConfirmFirst(y, v2)
  BY <1>a, <1>c, <1>2, <1>3, <1>4, <1>5, <1>6, <1>7, <1>8, <1>9, <1>10
  DEF ConfirmFirst, Plain, Longer, Shorter
<1>21. Paired(p, y, z, w2, v2)
  BY <1>a, <1>c, <1>2, <1>3, <1>4, <1>5, <1>6, <1>7, <1>8, <1>9, <1>10
  DEF Paired, Longer, Shorter, Numbered
<1>22. Closing(p, y, z, w2, v2)
  BY <1>a, <1>c, <1>2, <1>3, <1>4, <1>5, <1>6, <1>7, <1>8, <1>9, <1>10, <1>b
  DEF Closing, Longer, Shorter, ConfirmFirst, Plain, Once, Verdicts, Pends, r
<1> QED  BY <1>11, <1>12, <1>13, <1>14, <1>15, <1>16, <1>17, <1>18, <1>19, <1>20, <1>21, <1>22 DEF Hand

\* A channel is refused.
LEMMA DeclinesKeeps ==
    ASSUME NEW s, NEW p, NEW x, NEW y, NEW k, NEW l, NEW v, NEW w,
           Both(s, p, x, y, k, l, v, w), x.end = "no",
           NEW z, NEW out, NEW k2, NEW v2, NEW w2,
           Declines(s, x, k, w, z, out, k2, w2), Longer(y, v, out, v2)
    PROVE  Hand(s, z, y, k2, v2, w2) /\ Hand(p, y, z, l, w2, v2)
<1> USE DEF Facts
<1>a. Facts(s, p, x, y, v, w)
  BY BothFacts
<1>b. /\ Numbered(x, y, k, v) /\ Once(v, w) /\ Handshake(x, y, k, v, w)
      /\ ConfirmFirst(x, w) /\ Paired(s, x, y, v, w) /\ Closing(s, x, y, v, w)
  BY DEF Both, Hand
<1>c. /\ Numbered(y, x, l, w) /\ Once(w, v) /\ Handshake(y, x, l, w, v)
      /\ ConfirmFirst(y, v) /\ Paired(p, y, x, w, v) /\ Closing(p, y, x, w, v)
  BY DEF Both, Hand
<1> DEFINE id == x.last + 1
           m == Head(w)
           r == w[1].from
<1>1. /\ w # <<>> /\ w2 = Tail(w) /\ m.t = "OPEN" /\ k2 = k
      /\ \E refs \in {x.refs, x.refs \cup {id}} : Shift(x, z, id, refs, x.chans)
      /\ out = <<[t |-> "FAILURE", to |-> m.from, ch |-> m.ch]>>
  BY DEF Declines
<1>2. Shorter(w, 1, w2) /\ m = w[1]
  BY <1>1, ReadsShorter DEF Both
<1>3. /\ z.last = id /\ z.end = x.end /\ x.refs \subseteq z.refs /\ z.refs \subseteq x.refs \cup {id}
      /\ z.chans = x.chans /\ k2 = k
  BY <1>1 DEF Shift
<1>4. /\ 1 \in DOMAIN out
      /\ \A i \in DOMAIN out : /\ i = 1 /\ out[i].t = "FAILURE"
                               /\ out[i].ch = w[1].ch /\ out[i].to = r
  BY <1>1, <1>2
<1>5. ~Given(x.last, id) /\ Given(id, id) /\ id # 0 /\ \A i : Given(x.last, i) => Given(id, i)
  BY <1>a
<1>6. w[1].t = "OPEN" /\ 1 \in DOMAIN w
  BY <1>1, <1>2 DEF Shorter
<1>7. /\ Given(y.last, r) /\ r # 0
      /\ r \in DOMAIN y.chans => y.chans[r].ch = w[1].ch
      /\ y.end = "no" => Pends(y, l, r)
  BY <1>a, <1>c, <1>6 DEF Numbered, Handshake
<1> HIDE DEF id, r, m
<1>8. Numbered(z, y, k2, v2)
  BY <1>a, <1>b, <1>2, <1>3, <1>4, <1>5, <1>6, <1>7
  DEF Numbered, OnChannel, Longer, Shorter
<1>9. Once(v2, w2)
  BY <1>a, <1>b, <1>2, <1>3, <1>4, <1>5, <1>6, <1>7, <1>c
  DEF Once, Verdicts, Longer, Shorter, r
<1>10. Handshake(z, y, k2, v2, w2)
  BY <1>a, <1>b, <1>2, <1>3, <1>4, <1>5, <1>6, <1>7
  DEF Handshake, Verdicts, Pends, Opening, Answering, Longer, Shorter
<1>11. ConfirmFirst(z, w2)
  BY <1>a, <1>b, <1>2, <1>3, <1>4, <1>5, <1>6, <1>7
  DEF ConfirmFirst, Plain, Longer, Shorter
<1>12. Paired(s, z, y, v2, w2)
  BY <1>a, <1>b, <1>2, <1>3, <1>4, <1>5, <1>6, <1>7
  DEF Paired, Longer, Shorter
<1>13. Closing(s, z, y, v2, w2)
  BY <1>a, <1>b, <1>2, <1>3, <1>4, <1>5, <1>6, <1>7
  DEF Closing, Longer, Shorter
<1>14. Numbered(y, z, l, w2)
  BY <1>a, <1>c, <1>2, <1>3, <1>4, <1>5, <1>6, <1>7
  DEF Numbered, OnChannel, Longer, Shorter
<1>15. Once(w2, v2)
  BY <1>a, <1>c, <1>2, <1>3, <1>4, <1>5, <1>6, <1>7, <1>b
  DEF Once, Verdicts, Longer, Shorter, r
<1>16. Handshake(y, z, l, w2, v2)
  BY <1>a, <1>c, <1>2, <1>3, <1>4, <1>5, <1>6, <1>7
  DEF Handshake, Verdicts, Pends, Opening, Answering, Longer, Shorter, r
<1>17. ConfirmFirst(y, v2)
  BY <1>a, <1>c, <1>2, <1>3, <1>4, <1>5, <1>6, <1>7
  DEF ConfirmFirst, Plain, Longer, Shorter
<1>18. Paired(p, y, z, w2, v2)
  BY <1>a, <1>c, <1>2, <1>3, <1>4, <1>5, <1>6, <1>7
  DEF Paired, Longer, Shorter
<1>19. Closing(p, y, z, w2, v2)
  BY <1>a, <1>c, <1>2, <1>3, <1>4, <1>5, <1>6, <1>7
  DEF Closing, Longer, Shorter
<1> QED  BY <1>8, <1>9, <1>10, <1>11, <1>12, <1>13, <1>14, <1>15, <1>16, <1>17, <1>18, <1>19 DEF Hand

\* A channel is confirmed.
LEMMA ConfirmedKeeps ==
    ASSUME NEW s, NEW p, NEW x, NEW y, NEW k, NEW l, NEW v, NEW w,
           Both(s, p, x, y, k, l, v, w), x.end = "no",
           NEW z, NEW out, NEW k2, NEW v2, NEW w2,
           Confirmed(s, x, k, w, z, out, k2, w2), Longer(y, v, out, v2)
    PROVE  Hand(s, z, y, k2, v2, w2) /\ Hand(p, y, z, l, w2, v2)
<1> USE DEF Facts
<1>a. Facts(s, p, x, y, v, w)
  BY BothFacts
<1>b. /\ Numbered(x, y, k, v) /\ Once(v, w) /\ Handshake(x, y, k, v, w)
      /\ ConfirmFirst(x, w) /\ Paired(s, x, y, v, w) /\ Closing(s, x, y, v, w)
  BY DEF Both, Hand
<1>c. /\ Numbered(y, x, l, w) /\ Once(w, v) /\ Handshake(y, x, l, w, v)
      /\ ConfirmFirst(y, v) /\ Paired(p, y, x, w, v) /\ Closing(p, y, x, w, v)
  BY DEF Both, Hand
<1> DEFINE m == Head(w)
           q == w[1].to
           r == w[1].from
<1>1. /\ w # <<>> /\ w2 = Tail(w) /\ m.t = "CONFIRM" /\ m.to \in DOMAIN x.chans /\ out = <<>>
      /\ k2 = IF k[m.to].st = "wait" THEN With(k, m.to, Task("held")) ELSE k
  BY DEF Confirmed
<1>2. Shorter(w, 1, w2) /\ m = w[1] /\ 1 \in DOMAIN w /\ w[1].t = "CONFIRM" /\ q \in DOMAIN x.chans
  BY <1>1, ReadsShorter DEF Both
<1>3. PICK e : LET c == x.chans[q]
               IN  /\ Puts(x, z, q, e) /\ e.ch = c.ch /\ e.peer = r /\ e.pclose = c.pclose
  BY <1>2 DEF Confirmed
<1>4. /\ DOMAIN z.chans = DOMAIN x.chans
      /\ \A i \in DOMAIN x.chans : i # q => z.chans[i] = x.chans[i]
      /\ z.chans[q].peer = r /\ z.chans[q].ch = x.chans[q].ch
      /\ z.chans[q].pclose = x.chans[q].pclose
      /\ z.last = x.last /\ z.end = x.end /\ z.refs = x.refs
  BY <1>2, <1>3 DEF Puts, Same, With
<1>5. Pends(x, k, q)
  BY <1>b, <1>2 DEF Handshake, Verdicts
<1>6. /\ DOMAIN k2 = DOMAIN k /\ k2[q].st \in {"held", "quit"}
      /\ \A i \in DOMAIN k : i # q => k2[i] = k[i]
  BY <1>1, <1>2, <1>5 DEF With, Task, Pends
<1>7. DOMAIN out = {}
  BY <1>1, NoMessage
<1>8. /\ Given(y.last, r) /\ r # 0 /\ q # 0 /\ w[1].ch = x.chans[q].ch
      /\ r \in DOMAIN y.chans => y.chans[r].ch = w[1].ch
  BY <1>a, <1>c, <1>2 DEF Numbered, OnChannel
<1>9. y.end = "no" =>
          \/ r \in DOMAIN y.chans /\ y.chans[r].peer = q
          \/ /\ p = "client" /\ r \notin DOMAIN y.chans
             /\ \E j \in DOMAIN w : Before(1, j) /\ w[j].t = "CLOSE" /\ w[j].to = q
  BY <1>c, <1>2 DEF Paired
<1>10. x.chans[q].peer = 0
  BY <1>5 DEF Pends
<1> HIDE DEF r, q, m
<1>11. Numbered(z, y, k2, v2)
  BY <1>a, <1>b, <1>2, <1>4, <1>6, <1>7, <1>8, <1>9, <1>10
  DEF Numbered, OnChannel, Longer, Shorter
<1>12. Once(v2, w2)
  BY <1>a, <1>b, <1>2, <1>4, <1>6, <1>7, <1>8, <1>9, <1>10
  DEF Once, Verdicts, Longer, Shorter
<1>13. Handshake(z, y, k2, v2, w2)
  BY <1>a, <1>b, <1>2, <1>4, <1>6, <1>7, <1>8, <1>9, <1>10, <1>c
  DEF Handshake, Verdicts, Pends, Opening, Answering, Longer, Shorter, Once, q
<1>14. ConfirmFirst(z, w2)
  BY <1>a, <1>b, <1>2, <1>4, <1>6, <1>7, <1>8, <1>9, <1>10
  DEF ConfirmFirst, Plain, Longer, Shorter, q
<1>15. Paired(s, z, y, v2, w2)
  BY <1>a, <1>b, <1>2, <1>4, <1>6, <1>7, <1>8, <1>9, <1>10
  DEF Paired, Longer, Shorter, Numbered, OnChannel
<1>16. Closing(s, z, y, v2, w2)
  BY <1>a, <1>b, <1>2, <1>4, <1>6, <1>7, <1>8, <1>9, <1>10
  DEF Closing, Longer, Shorter
<1>17. Numbered(y, z, l, w2)
  BY <1>a, <1>c, <1>2, <1>4, <1>6, <1>7, <1>8, <1>9, <1>10
  DEF Numbered, OnChannel, Longer, Shorter
<1>18. Once(w2, v2)
  BY <1>a, <1>c, <1>2, <1>4, <1>6, <1>7, <1>8, <1>9, <1>10
  DEF Once, Verdicts, Longer, Shorter
<1>19. Handshake(y, z, l, w2, v2)
  BY <1>a, <1>c, <1>2, <1>4, <1>6, <1>7, <1>8, <1>9, <1>10
  DEF Handshake, Verdicts, Pends, Opening, Answering, Longer, Shorter
<1>20. ConfirmFirst(y, v2)
  BY <1>a, <1>c, <1>2, <1>4, <1>6, <1>7, <1>8, <1>9, <1>10
  DEF ConfirmFirst, Plain, Longer, Shorter
<1>21. Paired(p, y, z, w2, v2)
  <2>1. ASSUME NEW id \in DOMAIN y.chans, y.chans[id].peer # 0
        PROVE  LET o == y.chans[id].peer
               IN  \/ o \in DOMAIN z.chans /\ z.chans[o].peer = id
                   \/ /\ o \in DOMAIN z.chans /\ z.chans[o].peer = 0
                      /\ \E i \in DOMAIN w2 : w2[i].t = "CONFIRM" /\ w2[i].to = o /\ w2[i].from = id
                   \/ /\ p = "server" /\ o \notin DOMAIN z.chans
                      /\ \E i \in DOMAIN v2 : v2[i].t = "CLOSE" /\ v2[i].to = id
    <3> DEFINE o == y.chans[id].peer
    <3>1. id # 0 /\ y.end = "no"
      BY <1>a, <1>c DEF Numbered
    <3>2. \/ o \in DOMAIN x.chans /\ x.chans[o].peer = id
          \/ /\ o \in DOMAIN x.chans /\ x.chans[o].peer = 0
             /\ \E i \in DOMAIN w : w[i].t = "CONFIRM" /\ w[i].to = o /\ w[i].from = id
          \/ /\ p = "server" /\ o \notin DOMAIN x.chans
             /\ \E i \in DOMAIN v : v[i].t = "CLOSE" /\ v[i].to = id
      BY <1>c, <2>1 DEF Paired
    <3> HIDE DEF o
    <3>3. CASE o = q
      <4>1. \E i \in DOMAIN w : w[i].t = "CONFIRM" /\ w[i].to = q /\ w[i].from = id
        BY <1>2, <1>10, <3>1, <3>2, <3>3
      <4>2. id = r
        BY <1>c, <1>2, <4>1 DEF Once, Verdicts, q, r
      <4> QED  BY <1>2, <1>4, <3>3, <4>2 DEF o
    <3>4. CASE o # q
      <4>1. \A i \in DOMAIN w : w[i].to = o => \E j \in DOMAIN w2 : w2[j] = w[i]
        BY <1>2, <3>4 DEF Shorter, q
      <4>2. \A i \in DOMAIN v : i \in DOMAIN v2 /\ v2[i] = v[i]
        BY <3>1 DEF Longer
      <4>3. o \in DOMAIN z.chans <=> o \in DOMAIN x.chans
        BY <1>4
      <4>4. o \in DOMAIN x.chans => z.chans[o] = x.chans[o]
        BY <1>4, <3>4
      <4>5. \/ o \in DOMAIN z.chans /\ z.chans[o].peer = id
            \/ /\ o \in DOMAIN z.chans /\ z.chans[o].peer = 0
               /\ \E i \in DOMAIN w2 : w2[i].t = "CONFIRM" /\ w2[i].to = o /\ w2[i].from = id
            \/ /\ p = "server" /\ o \notin DOMAIN z.chans
               /\ \E i \in DOMAIN v2 : v2[i].t = "CLOSE" /\ v2[i].to = id
        BY <3>2, <4>1, <4>2, <4>3, <4>4
      <4> QED  BY <4>5 DEF o
    <3> QED  BY <3>3, <3>4
  <2>2. y.end = "no" =>
            \A i \in DOMAIN w2 : w2[i].t = "CONFIRM" =>
                \/ w2[i].from \in DOMAIN y.chans /\ y.chans[w2[i].from].peer = w2[i].to
                \/ /\ p = "client" /\ w2[i].from \notin DOMAIN y.chans
                   /\ \E j \in DOMAIN w2 : Before(i, j) /\ w2[j].t = "CLOSE" /\ w2[j].to = w2[i].to
    BY <1>c, <1>2 DEF Paired, Shorter
  <2> QED  BY <2>1, <2>2 DEF Paired
<1>22. Closing(p, y, z, w2, v2)
  BY <1>a, <1>c, <1>2, <1>4, <1>6, <1>7, <1>8, <1>9, <1>10
  DEF Closing, Longer, Shorter, r
<1> QED  BY <1>11, <1>12, <1>13, <1>14, <1>15, <1>16, <1>17, <1>18, <1>19, <1>20, <1>21, <1>22 DEF Hand

\* A channel is refused by the peer.
LEMMA RefusedKeeps ==
    ASSUME NEW s, NEW p, NEW x, NEW y, NEW k, NEW l, NEW v, NEW w,
           Both(s, p, x, y, k, l, v, w), x.end = "no",
           NEW z, NEW out, NEW k2, NEW v2, NEW w2,
           Refused(s, x, k, w, z, out, k2, w2), Longer(y, v, out, v2)
    PROVE  Hand(s, z, y, k2, v2, w2) /\ Hand(p, y, z, l, w2, v2)
<1> USE DEF Facts
<1>a. Facts(s, p, x, y, v, w)
  BY BothFacts
<1>b. /\ Numbered(x, y, k, v) /\ Once(v, w) /\ Handshake(x, y, k, v, w)
      /\ ConfirmFirst(x, w) /\ Paired(s, x, y, v, w) /\ Closing(s, x, y, v, w)
  BY DEF Both, Hand
<1>c. /\ Numbered(y, x, l, w) /\ Once(w, v) /\ Handshake(y, x, l, w, v)
      /\ ConfirmFirst(y, v) /\ Paired(p, y, x, w, v) /\ Closing(p, y, x, w, v)
  BY DEF Both, Hand
<1> DEFINE m == Head(w)
           q == w[1].to
<1>1. /\ w # <<>> /\ w2 = Tail(w) /\ m.t = "FAILURE" /\ out = <<>>
      /\ Shift(x, z, x.last, x.refs \ {m.to}, Without(x.chans, m.to))
      /\ k2 = IF k[m.to].st = "wait" THEN With(k, m.to, Task("refused")) ELSE k
  BY DEF Refused
<1>2. Shorter(w, 1, w2) /\ m = w[1] /\ 1 \in DOMAIN w /\ w[1].t = "FAILURE"
  BY <1>1, ReadsShorter DEF Both
<1>3. Pends(x, k, q)
  BY <1>b, <1>2 DEF Handshake, Verdicts
<1>4. /\ DOMAIN z.chans = DOMAIN x.chans \ {q}
      /\ \A i \in DOMAIN z.chans : z.chans[i] = x.chans[i]
      /\ z.last = x.last /\ z.end = x.end /\ z.refs = x.refs \ {q}
  BY <1>1, <1>2 DEF Shift, Without
<1>5. /\ DOMAIN k2 = DOMAIN k /\ k2[q].st \in {"refused", "quit"}
      /\ \A i \in DOMAIN k : i # q => k2[i] = k[i]
  BY <1>1, <1>2, <1>3 DEF With, Task, Pends
<1>6. DOMAIN out = {}
  BY <1>1, NoMessage
<1>7. x.chans[q].peer = 0 /\ q \in DOMAIN x.chans
  BY <1>3 DEF Pends
<1> HIDE DEF q, m
<1>8. Numbered(z, y, k2, v2)
  BY <1>a, <1>b, <1>2, <1>4, <1>5, <1>6, <1>7
  DEF Numbered, OnChannel, Longer, Shorter
<1>9. Once(v2, w2)
  BY <1>a, <1>b, <1>2, <1>4, <1>5, <1>6, <1>7
  DEF Once, Verdicts, Longer, Shorter
<1>10. Handshake(z, y, k2, v2, w2)
  BY <1>a, <1>b, <1>2, <1>4, <1>5, <1>6, <1>7, <1>c
  DEF Handshake, Verdicts, Pends, Opening, Answering, Longer, Shorter, Once, q
<1>11. ConfirmFirst(z, w2)
  BY <1>a, <1>b, <1>2, <1>4, <1>5, <1>6, <1>7
  DEF ConfirmFirst, Plain, Longer, Shorter
<1>12. Paired(s, z, y, v2, w2)
  BY <1>a, <1>b, <1>2, <1>4, <1>5, <1>6, <1>7
  DEF Paired, Longer, Shorter, Numbered, OnChannel
<1>13. Closing(s, z, y, v2, w2)
  BY <1>a, <1>b, <1>2, <1>4, <1>5, <1>6, <1>7
  DEF Closing, Longer, Shorter
<1>14. Numbered(y, z, l, w2)
  BY <1>a, <1>c, <1>2, <1>4, <1>5, <1>6, <1>7
  DEF Numbered, OnChannel, Longer, Shorter
<1>15. Once(w2, v2)
  BY <1>a, <1>c, <1>2, <1>4, <1>5, <1>6, <1>7
  DEF Once, Verdicts, Longer, Shorter
<1>16. Handshake(y, z, l, w2, v2)
  BY <1>a, <1>c, <1>2, <1>4, <1>5, <1>6, <1>7
  DEF Handshake, Verdicts, Pends, Opening, Answering, Longer, Shorter
<1>17. ConfirmFirst(y, v2)
  BY <1>a, <1>c, <1>2, <1>4, <1>5, <1>6, <1>7
  DEF ConfirmFirst, Plain, Longer, Shorter
<1>18. Paired(p, y, z, w2, v2)
  BY <1>a, <1>c, <1>2, <1>4, <1>5, <1>6, <1>7
  DEF Paired, Longer, Shorter, Once, Verdicts, Numbered, q
<1>19. Closing(p, y, z, w2, v2)
  BY <1>a, <1>c, <1>2, <1>4, <1>5, <1>6, <1>7
  DEF Closing, Longer, Shorter
<1> QED  BY <1>8, <1>9, <1>10, <1>11, <1>12, <1>13, <1>14, <1>15, <1>16, <1>17, <1>18, <1>19 DEF Hand

\* A session ends.
LEMMA LeavesKeeps ==
    ASSUME NEW s, NEW p, NEW x, NEW y, NEW k, NEW l, NEW v, NEW w,
           Both(s, p, x, y, k, l, v, w), x.end = "no",
           NEW z, NEW out, NEW k2, NEW v2, NEW w2,
           Leaves(s, x, k, w, z, out, k2, w2), Longer(y, v, out, v2)
    PROVE  Hand(s, z, y, k2, v2, w2) /\ Hand(p, y, z, l, w2, v2)
<1> USE DEF Facts
<1>a. Facts(s, p, x, y, v, w)
  BY BothFacts
<1>b. /\ Numbered(x, y, k, v) /\ Once(v, w) /\ Handshake(x, y, k, v, w)
      /\ ConfirmFirst(x, w) /\ Paired(s, x, y, v, w) /\ Closing(s, x, y, v, w)
  BY DEF Both, Hand
<1>c. /\ Numbered(y, x, l, w) /\ Once(w, v) /\ Handshake(y, x, l, w, v)
      /\ ConfirmFirst(y, v) /\ Paired(p, y, x, w, v) /\ Closing(p, y, x, w, v)
  BY DEF Both, Hand
<1>1. w2 = <<>> /\ k2 = k /\ \A i \in DOMAIN out : out[i].t = "DISCONNECT"
  BY DEF Leaves
<1>2. PICK why \in Reasons \ {"no", "Inconsistent"} : Stops(x, z, why)
  BY DEF Leaves
<1>3. /\ z.last = x.last /\ z.refs = {} /\ z.end # "no"
      /\ DOMAIN z.chans = {} /\ DOMAIN w2 = {}
  BY <1>1, <1>2, TablesEmpty DEF Stops
<1>4. k2 = k /\ \A i \in DOMAIN out : out[i].t = "DISCONNECT"
  BY <1>1
<1>5. Numbered(z, y, k2, v2)
  BY <1>a, <1>b, <1>3, <1>4
  DEF Numbered, OnChannel, Longer, Shorter
<1>6. Once(v2, w2)
  BY <1>a, <1>b, <1>3, <1>4
  DEF Once, Verdicts, Longer, Shorter
<1>7. Handshake(z, y, k2, v2, w2)
  BY <1>a, <1>b, <1>3, <1>4
  DEF Handshake, Verdicts, Pends, Opening, Answering, Longer, Shorter
<1>8. ConfirmFirst(z, w2)
  BY <1>a, <1>b, <1>3, <1>4
  DEF ConfirmFirst, Plain, Longer, Shorter
<1>9. Paired(s, z, y, v2, w2)
  BY <1>a, <1>b, <1>3, <1>4
  DEF Paired, Longer, Shorter
<1>10. Closing(s, z, y, v2, w2)
  BY <1>a, <1>b, <1>3, <1>4
  DEF Closing, Longer, Shorter
<1>11. Numbered(y, z, l, w2)
  BY <1>a, <1>c, <1>3, <1>4
  DEF Numbered, OnChannel, Longer, Shorter
<1>12. Once(w2, v2)
  BY <1>a, <1>c, <1>3, <1>4
  DEF Once, Verdicts, Longer, Shorter
<1>13. Handshake(y, z, l, w2, v2)
  BY <1>a, <1>c, <1>3, <1>4
  DEF Handshake, Verdicts, Pends, Opening, Answering, Longer, Shorter
<1>14. ConfirmFirst(y, v2)
  BY <1>a, <1>c, <1>3, <1>4
  DEF ConfirmFirst, Plain, Longer, Shorter
<1>15. Paired(p, y, z, w2, v2)
  BY <1>a, <1>c, <1>3, <1>4
  DEF Paired, Longer, Shorter
<1>16. Closing(p, y, z, w2, v2)
  BY <1>a, <1>c, <1>3, <1>4
  DEF Closing, Longer, Shorter
<1> QED  BY <1>5, <1>6, <1>7, <1>8, <1>9, <1>10, <1>11, <1>12, <1>13, <1>14, <1>15, <1>16 DEF Hand

LEMMA MovesKeep ==
    ASSUME NEW s, NEW p, NEW x, NEW y, NEW k, NEW l, NEW v, NEW w,
           Both(s, p, x, y, k, l, v, w), x.end = "no",
           NEW n, NEW z, NEW out, NEW k2, NEW v2, NEW w2,
           Moves(s, x, k, n, w, z, out, k2, w2), Longer(y, v, out, v2)
    PROVE  Hand(s, z, y, k2, v2, w2) /\ Hand(p, y, z, l, w2, v2)
<1>1. CASE Quiet(s, x, k, w, z, out, k2, w2)
  BY <1>1, QuietKeeps
<1>2. CASE Forgets(s, x, k, w, z, out, k2, w2)
  BY <1>2, ForgetsKeeps
<1>3. CASE Shut(s, x, k, w, z, out, k2, w2)
  BY <1>3, ShutKeeps
<1>4. CASE DidOpen(s, x, k, n, z, out, k2) /\ w2 = w
  BY <1>4, OpenKeeps
<1>5. CASE Accepts(s, x, k, w, z, out, k2, w2)
  BY <1>5, AcceptsKeeps
<1>6. CASE Declines(s, x, k, w, z, out, k2, w2)
  BY <1>6, DeclinesKeeps
<1>7. CASE Confirmed(s, x, k, w, z, out, k2, w2)
  BY <1>7, ConfirmedKeeps
<1>8. CASE Refused(s, x, k, w, z, out, k2, w2)
  BY <1>8, RefusedKeeps
<1>9. CASE Leaves(s, x, k, w, z, out, k2, w2)
  BY <1>9, LeavesKeeps
<1> QED  BY <1>1, <1>2, <1>3, <1>4, <1>5, <1>6, <1>7, <1>8, <1>9 DEF Moves

\* The sessions and the wires as the data of the lemmas above.
LEMMA BothSides ==
    ASSUME Typed, HandInv, NEW s \in Sides
    PROVE  LET p == Peer(s)
           IN  Both(s, p, ses[s], ses[p], task[s], task[p], wire[s], wire[p])
<1>1. Peer(s) \in Sides /\ Peer(s) # s /\ Peer(Peer(s)) = s
  BY PeerFacts
<1>2. /\ Hand(s, ses[s], ses[Peer(s)], task[s], wire[s], wire[Peer(s)])
      /\ Hand(Peer(s), ses[Peer(s)], ses[s], task[Peer(s)], wire[Peer(s)], wire[s])
  BY <1>1 DEF HandInv
<1>3. /\ ses[s].end # "no" => wire[Peer(s)] = <<>> /\ ses[s].chans = <<>>
      /\ ses[Peer(s)].end # "no" => wire[s] = <<>> /\ ses[Peer(s)].chans = <<>>
  BY <1>1 DEF Typed, Alive
<1>4. /\ ses[s] \in Session /\ ses[Peer(s)] \in Session
      /\ task[s] \in Tasks /\ task[Peer(s)] \in Tasks
      /\ wire[s] \in Seq(Message) /\ wire[Peer(s)] \in Seq(Message)
  BY <1>1 DEF Typed
<1> QED  BY <1>1, <1>2, <1>3, <1>4 DEF Both

\* A step of one side, in these terms: w2 is what is left of what the peer
\* has written.
Steps(s, z, out, k2, w2) ==
    LET x == ses[s]
        k == task[s]
        w == wire[Peer(s)]
    IN  /\ x.end = "no" /\ Stepped(s, z, out, k2, w2)
        /\ Proper(s, x, z, out, k2)
        /\ Moves(s, x, k, left.opens[s], w, z, out, k2, w2)
        /\ \/ /\ w # <<>> /\ Took(s, x, k, Head(w), z, out, k2) /\ left' = left
              /\ w2 = IF z.end = "no" THEN Tail(w) ELSE <<>>
           \/ /\ Did(s, x, k, left.opens[s], z, out, k2) /\ Spent(s, out)
              /\ w2 = IF z.end = "no" THEN w ELSE <<>>
              /\ \/ left'.opens = left.opens /\ z.last = x.last
                 \/ /\ left.opens[s] > 0 /\ left'.opens = [left.opens EXCEPT ![s] = @ - 1]
                    /\ DidOpen(s, x, k, left.opens[s], z, out, k2)
        /\ left' \in Lefts

LEMMA NextMoves ==
    ASSUME Typed, HandInv, Next
    PROVE  \E s \in Sides :
              \/ \E z, out, k2, w2 : Steps(s, z, out, k2, w2)
              \/ \E id, k2 : Losing(s, id, k2)
<1>1. PICK s \in Sides :
              \/ \E z, out, k2 : Reading(s, z, out, k2) \/ Acting(s, z, out, k2)
              \/ \E id, k2 : Losing(s, id, k2)
  BY NextSteps
<1> DEFINE p == Peer(s)
           x == ses[s]
           y == ses[p]
           k == task[s]
           v == wire[s]
           w == wire[p]
           n == left.opens[s]
<1>2. Both(s, p, x, y, k, task[p], v, w)
  BY BothSides
<1>3. /\ x \in Session /\ y \in Session /\ k \in Tasks /\ v \in Seq(Message) /\ w \in Seq(Message)
      /\ Hand(s, x, y, k, v, w)
  BY <1>2 DEF Both
<1>4. n \in Nat /\ left \in Lefts
  BY DEF Typed, Lefts
<1>5. ASSUME NEW z, NEW out, NEW k2, Reading(s, z, out, k2)
      PROVE  \E w2 : Steps(s, z, out, k2, w2)
  <2>1. /\ x.end = "no" /\ w # <<>> /\ left' = left /\ Took(s, x, k, Head(w), z, out, k2)
        /\ Stepped(s, z, out, k2, IF z.end = "no" THEN Tail(w) ELSE <<>>)
    BY <1>5 DEF Reading, Alive
  <2>2. Moves(s, x, k, n, w, z, out, k2, IF z.end = "no" THEN Tail(w) ELSE <<>>)
    <3> HIDE DEF x, y, k, v, w, n
    <3> QED  BY <1>3, <2>1, TookMoves
  <2>3. Proper(s, x, z, out, k2)
    <3>1. Head(w) \in Message
      BY <1>3, <2>1, TailFacts
    <3> HIDE DEF x, y, k, v, w, n
    <3> QED  BY <1>3, <2>1, <3>1, TookProper
  <2> QED  BY <1>4, <2>1, <2>2, <2>3 DEF Steps
<1>6. ASSUME NEW z, NEW out, NEW k2, Acting(s, z, out, k2)
      PROVE  \E w2 : Steps(s, z, out, k2, w2)
  <2>1. /\ x.end = "no" /\ Did(s, x, k, n, z, out, k2)
        /\ Stepped(s, z, out, k2, IF z.end = "no" THEN w ELSE <<>>)
        /\ left' \in Lefts /\ Spent(s, out)
        /\ \/ left'.opens = left.opens /\ z.last = x.last
           \/ /\ n > 0 /\ left'.opens = [left.opens EXCEPT ![s] = @ - 1]
              /\ DidOpen(s, x, k, n, z, out, k2)
    BY <1>6 DEF Acting, Alive
  <2>2. Moves(s, x, k, n, w, z, out, k2, IF z.end = "no" THEN w ELSE <<>>)
    <3> HIDE DEF x, y, k, v, w, n
    <3> QED  BY <1>3, <1>4, <2>1, DidMoves
  <2>3. Proper(s, x, z, out, k2)
    <3> HIDE DEF x, y, k, v, w, n
    <3> QED  BY <1>3, <1>4, <2>1, DidProper
  <2> QED  BY <2>1, <2>2, <2>3 DEF Steps
<1> QED  BY <1>1, <1>5, <1>6

\* The state after a step.
LEMMA StepsAfter ==
    ASSUME Typed, HandInv, NEW s \in Sides, NEW z, NEW out, NEW k2, NEW w2,
           Steps(s, z, out, k2, w2)
    PROVE  LET p == Peer(s)
           IN  /\ ses'[s] = z /\ ses'[p] = ses[p]
               /\ task'[s] = k2 /\ task'[p] = task[p]
               /\ wire'[p] = w2 /\ Longer(ses[p], wire[s], out, wire'[s])
               /\ wire'[s] = IF ses[p].end = "no" THEN wire[s] \o out ELSE <<>>
               /\ Typed'
<1> DEFINE p == Peer(s)
           w == wire[p]
<1>1. p \in Sides /\ p # s /\ Peer(p) = s /\ \A u \in Sides : u = s \/ u = p
  BY PeerFacts
<1>2. /\ Stepped(s, z, out, k2, w2) /\ Proper(s, ses[s], z, out, k2)
      /\ left' \in Lefts
      /\ \/ w # <<>> /\ w2 = IF z.end = "no" THEN Tail(w) ELSE <<>>
         \/ w2 = IF z.end = "no" THEN w ELSE <<>>
  BY DEF Steps
<1>3. /\ w \in Seq(Message) /\ wire[s] \in Seq(Message) /\ out \in Seq(Message)
      /\ \A i \in DOMAIN w : w[i].t \in Kinds(p)
      /\ \A i \in DOMAIN wire[s] : wire[s][i].t \in Kinds(s)
      /\ \A i \in DOMAIN out : out[i].t \in Kinds(s)
  BY <1>1, <1>2 DEF Typed, Proper
<1>4. /\ w2 \in Seq(Message) /\ \A i \in DOMAIN w2 : w2[i].t \in Kinds(p)
      /\ z.end # "no" => w2 = <<>>
  <2>1. w2 = <<>> \/ w2 = w \/ (w # <<>> /\ w2 = Tail(w))
    BY <1>2
  <2>2. z.end # "no" => w2 = <<>>
    BY <1>2
  <2> HIDE DEF w, p
  <2>3. CASE w2 = <<>>
    BY <2>3, NoMessage
  <2>4. CASE w2 = w
    BY <1>3, <2>2, <2>4
  <2>5. CASE w # <<>> /\ w2 = Tail(w)
    BY <1>3, <2>2, <2>5, TailFacts
  <2> QED  BY <2>1, <2>2, <2>3, <2>4, <2>5
<1>5. /\ ses'[s] = z /\ ses'[p] = ses[p]
      /\ task'[s] = k2 /\ task'[p] = task[p]
      /\ wire'[s] = (IF Alive(p) THEN wire[s] \o out ELSE <<>>) /\ wire'[p] = w2
      /\ ses' \in [Sides -> Session] /\ task' \in [Sides -> Tasks]
      /\ wire' \in [Sides -> Seq(Message)]
  BY <1>2, <1>4, SteppedFacts
<1>6. wire'[s] = IF ses[p].end = "no" THEN wire[s] \o out ELSE <<>>
  BY <1>5 DEF Alive
<1>7. Longer(ses[p], wire[s], out, wire'[s])
  BY <1>3, <1>6, LongerBy
<1>8. \A i \in DOMAIN wire'[s] : wire'[s][i].t \in Kinds(s)
  BY <1>3, <1>7 DEF Longer
<1>9. \A u \in Sides : \A i \in DOMAIN wire'[u] : wire'[u][i].t \in Kinds(u)
  BY <1>1, <1>4, <1>5, <1>8
<1>10. \A u \in Sides : ses'[u].end # "no" => wire'[Peer(u)] = <<>> /\ ses'[u].chans = <<>>
  <2>1. z.end # "no" => wire'[p] = <<>> /\ z.chans = <<>>
    BY <1>2, <1>4, <1>5 DEF Proper
  <2>2. ses[p].end # "no" => wire'[s] = <<>> /\ ses[p].chans = <<>>
    BY <1>1, <1>6 DEF Typed, Alive
  <2> QED  BY <1>1, <1>5, <2>1, <2>2
<1>11. Typed'
  BY <1>2, <1>5, <1>9, <1>10 DEF Typed, Alive
<1> QED  BY <1>5, <1>6, <1>7, <1>11

LEMMA LosingAfter ==
    ASSUME Typed, NEW s \in Sides, NEW id, NEW k2, Losing(s, id, k2)
    PROVE  LET p == Peer(s)
           IN  /\ task'[s] = k2 /\ task'[p] = task[p] /\ k2 \in Tasks
               /\ KeptTasks(ses[s], task[s], k2)
               /\ UNCHANGED <<ses, wire, left>>
               /\ Typed'
<1>1. Peer(s) \in Sides /\ Peer(s) # s
  BY PeerFacts
<1>2. /\ id \in DOMAIN task[s] /\ task[s] \in Tasks /\ ses[s].end # "no"
      /\ Tells(task[s], k2, id, "lost", task[s][id].eof, task[s][id].asks)
      /\ task[s][id].st = "wait"
  BY DEF Losing, Typed, Alive
<1>3. k2 \in Tasks
  BY <1>2, TasksFacts, TasksWith DEF Tells
<1>4. KeptTasks(ses[s], task[s], k2)
  BY <1>2, KeptTells
<1>5. task'[s] = k2 /\ task'[Peer(s)] = task[Peer(s)] /\ task' \in [Sides -> Tasks]
  BY <1>1, <1>3 DEF Losing, Typed
<1>6. UNCHANGED <<ses, wire, left>>
  BY DEF Losing
<1>7. Typed'
  BY <1>5, <1>6 DEF Typed, Alive
<1> QED  BY <1>3, <1>4, <1>5, <1>6, <1>7

LEMMA HandInit == Init => HandInv
<1> SUFFICES ASSUME Init, NEW s \in Sides
             PROVE  Hand(s, ses[s], ses[Peer(s)], task[s], wire[s], wire[Peer(s)])
  BY DEF HandInv
<1>1. Peer(s) \in Sides
  BY PeerFacts
<1>2. \A u \in Sides : /\ ses[u].chans = <<>> /\ ses[u].refs = {} /\ task[u] = <<>> /\ wire[u] = <<>>
  BY DEF Init
<1>3. \A u \in Sides : DOMAIN ses[u].chans = {} /\ DOMAIN task[u] = {} /\ DOMAIN wire[u] = {}
  BY <1>2, TablesEmpty
<1> QED  BY <1>1, <1>2, <1>3 DEF Hand, Numbered, Once, Handshake, ConfirmFirst, Paired, Closing

LEMMA HandNext == Typed /\ HandInv /\ [Next]_vars => Typed' /\ HandInv'
<1> SUFFICES ASSUME Typed, HandInv, [Next]_vars PROVE Typed' /\ HandInv'
  OBVIOUS
<1>1. CASE UNCHANGED vars
  BY <1>1 DEF vars, Typed, Alive, HandInv
<1>2. ASSUME NEW s \in Sides, NEW z, NEW out, NEW k2, NEW w2, Steps(s, z, out, k2, w2)
      PROVE  Typed' /\ HandInv'
  <2> DEFINE p == Peer(s)
             x == ses[s]
             y == ses[p]
             k == task[s]
             l == task[p]
             v == wire[s]
             w == wire[p]
             n == left.opens[s]
  <2>1. Both(s, p, x, y, k, l, v, w)
    BY BothSides
  <2>2. /\ ses'[s] = z /\ ses'[p] = y /\ task'[s] = k2 /\ task'[p] = l
        /\ wire'[p] = w2 /\ Longer(y, v, out, wire'[s]) /\ Typed'
    BY <1>2, StepsAfter
  <2>3. x.end = "no" /\ Moves(s, x, k, n, w, z, out, k2, w2)
    BY <1>2 DEF Steps
  <2>4. Hand(s, z, y, k2, wire'[s], w2) /\ Hand(p, y, z, l, w2, wire'[s])
    <3>1. PICK v2 : v2 = wire'[s]
      OBVIOUS
    <3> HIDE DEF p, x, y, k, l, v, w, n
    <3>2. Hand(s, z, y, k2, v2, w2) /\ Hand(p, y, z, l, w2, v2)
      BY <2>1, <2>2, <2>3, <3>1, MovesKeep
    <3> QED  BY <3>1, <3>2
  <2>5. p \in Sides /\ Peer(p) = s /\ \A u \in Sides : u = s \/ u = p
    BY PeerFacts
  <2>6. HandInv'
    BY <2>2, <2>4, <2>5 DEF HandInv
  <2> QED  BY <2>2, <2>6
<1>3. ASSUME NEW s \in Sides, NEW id, NEW k2, Losing(s, id, k2)
      PROVE  Typed' /\ HandInv'
  <2> DEFINE p == Peer(s)
             x == ses[s]
             y == ses[p]
             k == task[s]
             l == task[p]
             v == wire[s]
             w == wire[p]
  <2>1. Both(s, p, x, y, k, l, v, w)
    BY BothSides
  <2>2. /\ task'[s] = k2 /\ task'[p] = l /\ KeptTasks(x, k, k2)
        /\ UNCHANGED <<ses, wire, left>> /\ Typed'
    BY <1>3, LosingAfter
  <2>3. Hand(s, x, y, k2, v, w) /\ Hand(p, y, x, l, w, v)
    <3> HIDE DEF p, x, y, k, l, v, w
    <3> DEFINE out == <<>>
    <3>1. Quiet(s, x, k, w, x, out, k2, w)
      BY <2>2, KeptSelf, NoMessage DEF Quiet
    <3>2. Longer(y, v, out, v)
      BY <2>1, NoMessage, BothFacts DEF Longer, Facts
    <3> QED  BY <2>1, <3>1, <3>2, QuietKeeps
  <2>4. p \in Sides /\ Peer(p) = s /\ \A u \in Sides : u = s \/ u = p
    BY PeerFacts
  <2>5. HandInv'
    BY <2>2, <2>3, <2>4 DEF HandInv
  <2> QED  BY <2>2, <2>5
<1> QED  BY <1>1, <1>2, <1>3, NextMoves

\* The messages, the tables and the tasks always fit each other.
THEOREM HandshakeHolds == Spec => [](Typed /\ HandInv)
BY TypedInit, HandInit, HandNext, PTL DEF Spec

-----------------------------------------------------------------------------
\* What follows for the properties.

\* No message reaches another channel than the one its sender meant, however
\* many channels are opened and whatever the windows: channel numbers are
\* given once by new_channel_id, and a table entry and the messages that name
\* it stand for one channel.
THEOREM MessagesStayOnChannel == Spec => []NoCrossTalk
<1>1. Typed /\ HandInv => NoCrossTalk
  <2> SUFFICES ASSUME HandInv PROVE NoCrossTalk
    OBVIOUS
  <2>1. \A s \in Sides : Numbered(ses[s], ses[Peer(s)], task[s], wire[s])
    BY DEF HandInv, Hand
  <2> QED  BY <2>1 DEF NoCrossTalk, Numbered
<1> QED  BY <1>1, HandshakeHolds, PTL

\* A task that waits for a channel is never forgotten: its CHANNEL_OPEN, or
\* the confirmation or failure that answers it, is on the wire.
THEOREM OpenersAreAnswered == Spec => []OpenersAnswered
<1>1. Typed /\ HandInv => OpenersAnswered
  <2> SUFFICES ASSUME HandInv, NEW s \in Sides, NEW id \in DOMAIN task[s],
                      Waits(s, id), ses[s].end = "no", ses[Peer(s)].end = "no"
               PROVE  \/ Opening(wire[s], id)
                      \/ Answering(wire[Peer(s)], id)
    BY DEF OpenersAnswered, Opening, Answering, Verdicts, Alive
  <2>1. Handshake(ses[s], ses[Peer(s)], task[s], wire[s], wire[Peer(s)])
    BY DEF HandInv, Hand
  <2>2. id \in DOMAIN ses[s].chans /\ ses[s].chans[id].peer = 0
    BY <2>1 DEF Handshake, Waits
  <2> QED  BY <2>1, <2>2 DEF Handshake
<1> QED  BY <1>1, HandshakeHolds, PTL

\* When nothing is under way, the tables of channels of the two sessions
\* describe the same channels, each with the other's number.
THEOREM TablesAgreeAtRest == Spec => []TablesAgree
<1>1. Typed /\ HandInv => TablesAgree
  <2> SUFFICES ASSUME Typed, HandInv, Settled
               PROVE  {<<id, ses["client"].chans[id].peer>> : id \in DOMAIN ses["client"].chans}
                      = {<<ses["server"].chans[id].peer, id>> : id \in DOMAIN ses["server"].chans}
    BY DEF TablesAgree
  <2>1. ASSUME NEW s \in Sides, NEW id \in DOMAIN ses[s].chans
        PROVE  LET q == ses[s].chans[id].peer
                   there == ses[Peer(s)].chans
               IN  q \in DOMAIN there /\ there[q].peer = id
    <3> DEFINE p == Peer(s)
               x == ses[s]
               y == ses[p]
               v == wire[s]
               w == wire[p]
    <3>1. p \in Sides
      BY PeerFacts
    <3>2. Handshake(x, y, task[s], v, w) /\ Paired(s, x, y, v, w)
      BY DEF HandInv, Hand
    <3>3. x.end = "no" /\ y.end = "no" /\ v = <<>> /\ w = <<>>
      BY <3>1 DEF Settled, Alive
    <3>4. DOMAIN v = {} /\ DOMAIN w = {}
      BY <3>3, NoMessage
    <3> HIDE DEF p, x, y, v, w
    <3>5. id \in DOMAIN x.chans
      BY <2>1 DEF x
    <3>6. x.chans[id].peer # 0
      BY <3>2, <3>3, <3>4, <3>5 DEF Handshake, Opening, Answering
    <3>7. x.chans[id].peer \in DOMAIN y.chans /\ y.chans[x.chans[id].peer].peer = id
      BY <3>2, <3>3, <3>4, <3>5, <3>6 DEF Paired
    <3> QED  BY <3>7 DEF x, y, p
  <2> DEFINE c == ses["client"].chans
             d == ses["server"].chans
  <2>2. /\ \A id \in DOMAIN c : c[id].peer \in DOMAIN d /\ d[c[id].peer].peer = id
        /\ \A id \in DOMAIN d : d[id].peer \in DOMAIN c /\ c[d[id].peer].peer = id
    BY <2>1 DEF Sides, Peer
  <2> HIDE DEF c, d
  <2>3. {<<id, c[id].peer>> : id \in DOMAIN c} = {<<d[id].peer, id>> : id \in DOMAIN d}
    <3>1. ASSUME NEW id \in DOMAIN c
          PROVE  <<id, c[id].peer>> \in {<<d[i].peer, i>> : i \in DOMAIN d}
      BY <2>2
    <3>2. ASSUME NEW id \in DOMAIN d
          PROVE  <<d[id].peer, id>> \in {<<i, c[i].peer>> : i \in DOMAIN c}
      BY <2>2
    <3> QED  BY <3>1, <3>2
  <2> QED  BY <2>3 DEF c, d
<1> QED  BY <1>1, HandshakeHolds, PTL

\* Why a session has ended.
Explained(s, x, k) ==
    /\ x.end # "Inconsistent"
    /\ x.end = "SendError" => s = "server" /\ \E id \in DOMAIN k : k[id].st = "quit"

\* A session is ended by the peer's messages only as EndsExplained says: a
\* confirmation never finds its channel unknown, so that the error
\* Inconsistent is never reported, and only a server whose task gave up
\* reports SendError.
THEOREM EndsAreExplained == Spec => []EndsExplained
<1> DEFINE Inv == \A s \in Sides : Explained(s, ses[s], task[s])
<1>1. Init => Inv
  BY DEF Init, Explained
<1>2. Typed /\ HandInv /\ Inv /\ [Next]_vars => Inv'
  <2> SUFFICES ASSUME Typed, HandInv, Inv, [Next]_vars PROVE Inv'
    OBVIOUS
  <2>1. CASE UNCHANGED vars
    BY <2>1 DEF vars
  <2>2. ASSUME NEW s \in Sides, NEW z, NEW out, NEW k2, NEW w2, Steps(s, z, out, k2, w2)
        PROVE  Inv'
    <3> DEFINE x == ses[s]
               k == task[s]
               n == left.opens[s]
               w == wire[Peer(s)]
    <3>1. /\ ses'[s] = z /\ ses'[Peer(s)] = ses[Peer(s)]
          /\ task'[s] = k2 /\ task'[Peer(s)] = task[Peer(s)]
      BY <2>2, StepsAfter
    <3>2. x.end = "no" /\ Moves(s, x, k, n, w, z, out, k2, w2)
      BY <2>2 DEF Steps
    <3> HIDE DEF x, k, n, w
    <3>3. Explained(s, z, k2)
      <4>1. CASE Leaves(s, x, k, w, z, out, k2, w2)
        <5>1. PICK why \in Reasons \ {"no", "Inconsistent"} : Stops(x, z, why)
          BY <4>1 DEF Leaves
        <5>2. z.end # "Inconsistent"
          BY <5>1 DEF Stops
        <5> QED  BY <4>1, <5>2 DEF Leaves, Explained
      <4>2. CASE ~Leaves(s, x, k, w, z, out, k2, w2)
        <5>1. z.end = "no"
          BY <3>2, <4>2
          DEF Moves, Quiet, KeptChans, Forgets, Shut, DidOpen, Accepts, Declines, Confirmed,
              Refused, Shift, Puts, Same
        <5> QED  BY <5>1 DEF Explained
      <4> QED  BY <4>1, <4>2
    <3> QED  BY <3>1, <3>3, PeerFacts
  <2>3. ASSUME NEW s \in Sides, NEW id, NEW k2, Losing(s, id, k2)
        PROVE  Inv'
    <3>1. /\ task'[s] = k2 /\ task'[Peer(s)] = task[Peer(s)] /\ ses' = ses
          /\ KeptTasks(ses[s], task[s], k2)
      BY <2>3, LosingAfter
    <3>2. Explained(s, ses[s], k2)
      BY <3>1 DEF Explained, KeptTasks
    <3> QED  BY <3>1, <3>2, PeerFacts
  <2> QED  BY <2>1, <2>2, <2>3, NextMoves
<1>3. Typed /\ Inv => EndsExplained
  <2> SUFFICES ASSUME Typed, Inv, NEW s \in Sides
               PROVE  /\ ses[s].end \in {"no", "eof", "left", "disconnected", "WrongChannel",
                                         "SendError"}
                      /\ ses[s].end = "SendError" =>
                            s = "server" /\ \E id \in DOMAIN task[s] : task[s][id].st = "quit"
    BY DEF EndsExplained
  <2>1. ses[s].end \in Reasons /\ Explained(s, ses[s], task[s])
    BY DEF Typed, Session
  <2> QED  BY <2>1 DEF Explained, Reasons
<1> QED  BY <1>1, <1>2, <1>3, HandshakeHolds, PTL DEF Spec
-----------------------------------------------------------------------------
\* What a session writes when it has read a message of kind t.
Reply(t, u) ==
    \/ t = "OPEN" /\ u \in {"CONFIRM", "FAILURE"}
    \/ t = "CLOSE" /\ u = "CLOSE"
    \/ t = "DATA" /\ u = "ADJUST"
    \/ t = "ADJUST" /\ u \in {"DATA", "EOF", "CLOSE"}
    \/ t = "REQUEST" /\ u \in {"ANSWER", "RESULT"}
    \/ t = "GLOBAL" /\ u = "RESULT"

LEMMA TookSays ==
    ASSUME NEW s \in Sides, NEW x \in Session, NEW k \in Tasks, NEW m \in Message,
           NEW z, NEW out, NEW k2, x.end = "no", Took(s, x, k, m, z, out, k2)
    PROVE  /\ \A i \in DOMAIN out : Reply(m.t, out[i].t)
           /\ \A i \in DOMAIN out :
                 m.t = "REQUEST" /\ out[i].t = "RESULT" => m.agent /\ out[i].n = 0
           /\ m.t # "RESULT" /\ z.end = "no" => z.globals = x.globals /\ z.asked = x.asked
<1>0. out = <<>> => DOMAIN out = {}
  BY NoMessage
<1>1. CASE m.t = "OPEN" /\ TookOpen(s, x, k, m, z, out, k2)
  <2>1. z.globals = x.globals /\ z.asked = x.asked
    BY <1>1 DEF TookOpen, Shift
  <2>2. \A i \in DOMAIN out : out[i].t \in {"CONFIRM", "FAILURE"}
    <3>1. \/ out = <<[t |-> "CONFIRM", to |-> m.from, ch |-> m.ch, from |-> x.last + 1]>>
          \/ out = <<[t |-> "FAILURE", to |-> m.from, ch |-> m.ch]>>
      BY <1>1 DEF TookOpen
    <3> QED  BY <3>1
  <2> QED  BY <1>1, <2>1, <2>2 DEF Reply
<1>2. CASE m.t = "CONFIRM" /\ TookConfirm(x, k, m, z, out, k2)
  BY <1>0, <1>2 DEF TookConfirm, Stops, Puts, Same
<1>3. CASE m.t = "FAILURE" /\ TookFailure(s, x, k, m, z, out, k2)
  BY <1>0, <1>3 DEF TookFailure, Stops, Shift
<1>4. CASE m.t = "CLOSE" /\ TookClose(s, x, m, z, out) /\ k2 = k
  <2>1. z.globals = x.globals /\ z.asked = x.asked
    BY <1>4 DEF TookClose, Shift
  <2>2. out = <<>> \/ out = <<On(x, m.to, "CLOSE")>>
    BY <1>4 DEF TookClose
  <2>3. \A i \in DOMAIN out : out[i].t = "CLOSE"
    BY <2>2 DEF On
  <2> QED  BY <1>4, <2>1, <2>3 DEF Reply
<1>5. CASE m.t = "DATA" /\ TookData(x, m, z, out) /\ k2 = k
  <2>1. z.globals = x.globals /\ z.asked = x.asked
    BY <1>5 DEF TookData, Puts, Same
  <2>2. out = <<>> \/ \E j : out = <<OnWith(x, m.to, "ADJUST", j)>>
    BY <1>5 DEF TookData
  <2>3. \A i \in DOMAIN out : out[i].t = "ADJUST"
    BY <2>2 DEF OnWith
  <2> QED  BY <1>5, <2>1, <2>3 DEF Reply
<1>6. CASE m.t = "ADJUST" /\ TookGrant(x, m, z, out) /\ k2 = k
  <2>1. z.end = "no" => z.globals = x.globals /\ z.asked = x.asked
    BY <1>6 DEF TookGrant, Puts, Drops, Same, Stops
  <2>2. \A i \in DOMAIN out : out[i].t \in {"DATA", "EOF", "CLOSE"}
    <3>1. CASE m.to \notin DOMAIN x.chans
      <4>1. out = <<>>
        BY <1>6, <3>1 DEF TookGrant
      <4> QED  BY <1>0, <4>1
    <3>2. CASE m.to \in DOMAIN x.chans
      <4> DEFINE c == x.chans[m.to]
                 win == c.win + m.n
                 n == IF c.pend < win THEN c.pend ELSE win
      <4>1. n \in Nat
        <5>1. m.n \in Nat
          BY <1>6 DEF Message
        <5>2. c.win \in Nat /\ c.pend \in Nat
          BY <3>2, SessionFacts, TableFacts, ParamFacts
        <5> QED  BY <5>1, <5>2
      <4>2. c.peof \in BOOLEAN
        <5>1. c \in Param
          BY <3>2, SessionFacts, TableFacts
        <5> QED  BY <5>1, Zenon DEF Param
      <4>3. \/ \E eof \in BOOLEAN : Flushed(out, x, m.to, n, eof, 0)
            \/ /\ \E eof \in BOOLEAN : Flushed(out, x, m.to, n, eof, 1)
               /\ out[Len(out)] = On(x, m.to, "CLOSE")
        BY <1>6, <3>2, <4>2 DEF TookGrant
      <4> HIDE DEF n
      <4>4. FlushSays(out)
        BY <3>2, <4>1, <4>3, FlushedSays
      <4> QED  BY <4>4 DEF FlushSays
    <3> QED  BY <3>1, <3>2
  <2> QED  BY <1>6, <2>1, <2>2 DEF Reply
<1>7. CASE m.t = "REQUEST" /\ s = "server" /\ TookRequest(x, m, z, out) /\ k2 = k
  <2>1. z.globals = x.globals /\ z.asked = x.asked
    BY <1>7 DEF TookRequest, Puts, Same, Still, Shift
  <2>2. out = <<>> \/ out = <<OnWith(x, m.to, "ANSWER", m.n)>> \/ Astray(m, out)
    BY <1>7 DEF TookRequest
  <2>3. \A i \in DOMAIN out : \/ out[i].t = "ANSWER"
                              \/ out[i].t = "RESULT" /\ m.agent /\ out[i].n = 0
    BY <2>2 DEF OnWith, Astray
  <2> QED  BY <1>7, <2>1, <2>3 DEF Reply
<1>8. CASE m.t = "ANSWER" /\ s = "client" /\ TookAnswer(x, k, m, z, out, k2)
  BY <1>0, <1>8 DEF TookAnswer
<1>9. CASE m.t = "EOF" /\ z = x /\ out = <<>> /\ k2 = k
  BY <1>0, <1>9
<1>10. CASE m.t = "GLOBAL" /\ TookGlobal(s, x, m, z, out) /\ k2 = k
  <2>1. z.globals = x.globals /\ z.asked = x.asked
    BY <1>10 DEF TookGlobal, Still, Shift
  <2>2. out = <<>> \/ out = <<[t |-> "RESULT", n |-> m.n]>>
    BY <1>10 DEF TookGlobal
  <2>3. \A i \in DOMAIN out : out[i].t = "RESULT"
    BY <2>2
  <2> QED  BY <1>10, <2>1, <2>3 DEF Reply
<1>11. CASE m.t = "RESULT" /\ TookResult(x, z, out) /\ k2 = k
  BY <1>0, <1>11 DEF TookResult
<1>12. CASE m.t = "DISCONNECT" /\ Stops(x, z, "disconnected") /\ out = <<>> /\ k2 = k
  BY <1>0, <1>12 DEF Stops
<1> QED  BY <1>1, <1>2, <1>3, <1>4, <1>5, <1>6, <1>7, <1>8, <1>9, <1>10, <1>11, <1>12 DEF Took

LEMMA DidSays ==
    ASSUME NEW s \in Sides, NEW x \in Session, NEW k \in Tasks, NEW n \in Nat,
           NEW z, NEW out, NEW k2, x.end = "no", Did(s, x, k, n, z, out, k2)
    PROVE  \/ DidGlobal(s, x, k, z, out, k2)
           \/ DidNoReply(x, k, z, out, k2)
           \/ z.end # "no"
           \/ /\ \A i \in DOMAIN out :
                    out[i].t \in {"OPEN", "DATA", "EOF", "CLOSE", "REQUEST", "ANSWER"}
              /\ z.globals = x.globals /\ z.asked = x.asked
<1>0. out = <<>> => DOMAIN out = {}
  BY NoMessage
<1> DEFINE Silent == /\ \A i \in DOMAIN out :
                           out[i].t \in {"OPEN", "DATA", "EOF", "CLOSE", "REQUEST", "ANSWER"}
                     /\ z.globals = x.globals /\ z.asked = x.asked
<1>1. CASE DidOpen(s, x, k, n, z, out, k2)
  BY <1>1 DEF DidOpen, Shift
<1>2. CASE \/ Stops(x, z, "left") \/ Stops(x, z, "eof")
  BY <1>2 DEF Stops
<1>3. ASSUME NEW id \in DOMAIN k, DidGiveUp(x, k, id, z, out, k2) PROVE Silent
  BY <1>0, <1>3 DEF DidGiveUp
<1>4. ASSUME NEW id \in DOMAIN k, DidData(x, k, id, z, out, k2) PROVE Silent
  <2>1. CASE id \notin DOMAIN x.chans
    BY <1>0, <1>4, <2>1 DEF DidData
  <2>2. CASE id \in DOMAIN x.chans
    <3>1. PICK d : Puts(x, z, id, d) /\ Sends(x, id, d, out)
      BY <1>4, <2>2 DEF DidData
    <3>2. \A i \in DOMAIN out : out[i].t = "DATA"
      BY <2>2, <3>1, SendsSays
    <3> QED  BY <3>1, <3>2 DEF Puts, Same
  <2> QED  BY <2>1, <2>2
<1>5. ASSUME NEW id \in DOMAIN k, DidEof(s, x, k, id, z, out, k2) PROVE Silent
  <2>1. out = <<>> \/ out = <<On(x, id, "EOF")>>
    BY <1>5 DEF DidEof
  <2>2. z.globals = x.globals /\ z.asked = x.asked
    BY <1>5 DEF DidEof, Puts, Same
  <2> QED  BY <1>0, <2>1, <2>2 DEF On
<1>6. ASSUME NEW id \in DOMAIN k, DidClose(s, x, k, id, z, out, k2) PROVE Silent
  <2>1. out = <<>> \/ out = <<On(x, id, "CLOSE")>>
    BY <1>6 DEF DidClose
  <2>2. z.globals = x.globals /\ z.asked = x.asked
    BY <1>6 DEF DidClose, Puts, Drops, Same, Still, Shift
  <2> QED  BY <1>0, <2>1, <2>2 DEF On
<1>7. ASSUME NEW id \in DOMAIN k, NEW wants \in BOOLEAN, NEW agent \in BOOLEAN,
             DidRequest(x, k, id, wants, agent, z, out, k2)
      PROVE  Silent
  <2>1. z = x /\ \A i \in DOMAIN out : out[i].t = "REQUEST"
    BY <1>0, <1>7 DEF DidRequest
  <2> QED  BY <2>1
<1>8. ASSUME NEW id \in DOMAIN k, DidAnswer(x, k, id, z, out, k2) PROVE Silent
  <2>1. out = <<>> \/ out = <<OnWith(x, id, "ANSWER", x.chans[id].asked)>>
    BY <1>8 DEF DidAnswer
  <2>2. z.globals = x.globals /\ z.asked = x.asked
    BY <1>8 DEF DidAnswer, Puts, Same
  <2> QED  BY <1>0, <2>1, <2>2 DEF OnWith
<1> HIDE DEF Silent
<1>9. DidGlobal(s, x, k, z, out, k2) \/ DidNoReply(x, k, z, out, k2) \/ z.end # "no" \/ Silent
  BY <1>1, <1>2, <1>3, <1>4, <1>5, <1>6, <1>7, <1>8, Zenon DEF Did, Silent
<1> QED  BY <1>9 DEF Silent

-----------------------------------------------------------------------------
\* Global requests.

\* The queue of the requests that wait for an answer.
Waited(g, n) == \E i \in DOMAIN g : g[i] = n
Ascending(g) == \A i, j \in DOMAIN g : Before(i, j) => Before(g[i], g[j])

LEMMA QueueJoin ==
    ASSUME NEW g \in Seq(Nat), NEW n \in Nat, Ascending(g), \A m : Waited(g, m) => Before(m, n)
    PROVE  /\ Ascending(Append(g, n))
           /\ \A m : Waited(Append(g, n), m) <=> Waited(g, m) \/ m = n
<1> DEFINE h == Append(g, n)
<1>1. /\ \A i \in DOMAIN h : (i \in DOMAIN g /\ h[i] = g[i]) \/ (i = Len(g) + 1 /\ h[i] = n)
      /\ \A i \in DOMAIN g : i \in DOMAIN h /\ h[i] = g[i]
      /\ Len(g) + 1 \in DOMAIN h /\ h[Len(g) + 1] = n
  OBVIOUS
<1>2. /\ \A i \in DOMAIN g : ~Before(Len(g) + 1, i)
      /\ ~Before(Len(g) + 1, Len(g) + 1)
  BY DEF Before
<1> HIDE DEF h
<1>3. Ascending(h)
  BY <1>1, <1>2 DEF Ascending, Waited
<1>4. \A m : Waited(h, m) <=> Waited(g, m) \/ m = n
  BY <1>1 DEF Waited
<1> QED  BY <1>3, <1>4 DEF h

LEMMA QueueLeave ==
    ASSUME NEW g \in Seq(Nat), g # <<>>, Ascending(g)
    PROVE  /\ Ascending(Tail(g)) /\ Waited(g, g[1])
           /\ \A m : Waited(g, m) => m = g[1] \/ Before(g[1], m)
           /\ \A m : Waited(Tail(g), m) <=> Waited(g, m) /\ m # g[1]
<1> DEFINE h == Tail(g)
           n == g[1]
<1>3. /\ 1 \in DOMAIN g
      /\ \A i \in DOMAIN h : i + 1 \in DOMAIN g /\ h[i] = g[i + 1]
      /\ \A i \in DOMAIN g : i # 1 => i - 1 \in DOMAIN h /\ h[i - 1] = g[i]
  OBVIOUS
<1>4. \A i, k \in DOMAIN h : Before(i, k) => Before(i + 1, k + 1)
  BY DEF Before
<1>5. \A i \in DOMAIN g : i # 1 => Before(n, g[i])
  <2>1. \A i \in DOMAIN g : i # 1 => Before(1, i)
    BY DEF Before
  <2> QED  BY <1>3, <2>1 DEF Ascending
<1>6. \A i \in DOMAIN g : i # 1 => g[i] # n
  <2>1. ~Before(n, n)
    BY <1>3 DEF Before
  <2> QED  BY <1>5, <2>1
<1>7. \A i \in DOMAIN h : i + 1 # 1
  OBVIOUS
<1> HIDE DEF h
<1>8. Ascending(h)
  BY <1>3, <1>4 DEF Ascending
<1>9. Waited(g, n) /\ \A m : Waited(g, m) => m = n \/ Before(n, m)
  BY <1>3, <1>5 DEF Waited
<1>10. ASSUME NEW m PROVE Waited(h, m) <=> Waited(g, m) /\ m # n
  <2>1. ASSUME Waited(h, m) PROVE Waited(g, m) /\ m # n
    BY <1>3, <1>6, <1>7, <2>1 DEF Waited
  <2>2. ASSUME Waited(g, m), m # n PROVE Waited(h, m)
    <3>1. PICK i \in DOMAIN g : g[i] = m
      BY <2>2 DEF Waited
    <3>2. i # 1
      BY <2>2, <3>1
    <3> QED  BY <1>3, <3>1, <3>2 DEF Waited
  <2> QED  BY <2>1, <2>2
<1> QED  BY <1>8, <1>9, <1>10 DEF h

\* The numbers that messages of kind t carry, and their order on a wire.
\* The number 0 does not count: it stands for a request nobody waits for.
Carries(q, t, n) == n # 0 /\ \E i \in DOMAIN q : q[i].t = t /\ q[i].n = n
Climbs(q, t) ==
    \A i, j \in DOMAIN q :
        Before(i, j) /\ q[i].t = t /\ q[j].t = t /\ q[j].n # 0 => Before(q[i].n, q[j].n)

\* More is written.
LEMMA CarriesMore ==
    ASSUME NEW v \in Seq(Message), NEW out \in Seq(Message)
    PROVE  \A t, n : Carries(v \o out, t, n) <=> Carries(v, t, n) \/ Carries(out, t, n)
<1> DEFINE v2 == v \o out
<1>1. /\ \A i \in DOMAIN v2 : \/ i \in DOMAIN v /\ v2[i] = v[i]
                              \/ i - Len(v) \in DOMAIN out /\ v2[i] = out[i - Len(v)]
      /\ \A i \in DOMAIN v : i \in DOMAIN v2 /\ v2[i] = v[i]
      /\ \A j \in DOMAIN out : Len(v) + j \in DOMAIN v2 /\ v2[Len(v) + j] = out[j]
  OBVIOUS
<1> HIDE DEF v2
<1>2. ASSUME NEW t, NEW n PROVE Carries(v2, t, n) <=> Carries(v, t, n) \/ Carries(out, t, n)
  <2>1. ASSUME Carries(v2, t, n) PROVE Carries(v, t, n) \/ Carries(out, t, n)
    BY <1>1, <2>1 DEF Carries
  <2>2. ASSUME Carries(v, t, n) \/ Carries(out, t, n) PROVE Carries(v2, t, n)
    BY <1>1, <2>2 DEF Carries
  <2> QED  BY <2>1, <2>2
<1> QED  BY <1>2 DEF v2

\* All the numbers on a wire but 0, and 0, come before n.
Tops(v, t, n) == \A i \in DOMAIN v : v[i].t = t => Before(v[i].n, n)

LEMMA TopsCarried ==
    ASSUME NEW v \in Seq(Message), NEW t \in {"GLOBAL", "RESULT"}, NEW n \in Nat, n # 0,
           \A i : Carries(v, t, i) => Before(i, n)
    PROVE  Tops(v, t, n)
<1>1. Before(0, n)
  BY DEF Before
<1> QED  BY <1>1 DEF Tops, Carries

LEMMA ClimbsMore ==
    ASSUME NEW v \in Seq(Message), NEW m \in Message, NEW t, Climbs(v, t),
           m.t = t /\ m.n # 0 => Tops(v, t, m.n)
    PROVE  Climbs(v \o <<m>>, t)
<1> DEFINE v2 == v \o <<m>>
           e == Len(v) + 1
<1>1. /\ \A i \in DOMAIN v2 : (i \in DOMAIN v /\ v2[i] = v[i]) \/ (i = e /\ v2[i] = m)
      /\ \A i \in DOMAIN v2 : i \in Nat
  OBVIOUS
<1>2. /\ \A i \in DOMAIN v : ~Before(e, i)
      /\ ~Before(e, e)
  BY DEF Before
<1> HIDE DEF v2, e
<1>4. Climbs(v2, t)
  BY <1>1, <1>2 DEF Climbs, Tops
<1> QED  BY <1>4 DEF v2

\* Messages of other kinds do not matter.
LEMMA ClimbsOver ==
    ASSUME NEW v \in Seq(Message), NEW out \in Seq(Message), NEW t, Climbs(v, t),
           \A i \in DOMAIN out : out[i].t = t => out[i].n = 0
    PROVE  Climbs(v \o out, t)
<1> DEFINE v2 == v \o out
<1>1. \A i \in DOMAIN v2 : (i \in DOMAIN v /\ v2[i] = v[i]) \/ (v2[i].t = t => v2[i].n = 0)
  OBVIOUS
<1>2. \A i \in DOMAIN v2, j \in DOMAIN v : Before(i, j) => i \in DOMAIN v /\ v2[i] = v[i]
  BY DEF Before
<1> HIDE DEF v2
<1>3. Climbs(v2, t)
  BY <1>1, <1>2 DEF Climbs
<1> QED  BY <1>3 DEF v2

\* A message is read.
LEMMA CarriesLess ==
    ASSUME NEW w \in Seq(Message), w # <<>>, NEW t, Climbs(w, t)
    PROVE  /\ Climbs(Tail(w), t)
           /\ w[1].t = t => \A n : Carries(Tail(w), t, n) => Before(w[1].n, n)
           /\ w[1].t = t /\ w[1].n # 0 => Carries(w, t, w[1].n)
           /\ \A n : Carries(Tail(w), t, n) => Carries(w, t, n)
           /\ \A n : Carries(w, t, n) => Carries(Tail(w), t, n) \/ (w[1].t = t /\ w[1].n = n)
<1> DEFINE h == Tail(w)
<1>1. /\ 1 \in DOMAIN w
      /\ \A i \in DOMAIN h : i + 1 \in DOMAIN w /\ h[i] = w[i + 1]
      /\ \A i \in DOMAIN w : i # 1 => i - 1 \in DOMAIN h /\ h[i - 1] = w[i]
  OBVIOUS
<1>2. /\ \A i, j \in DOMAIN h : Before(i, j) => Before(i + 1, j + 1)
      /\ \A i \in DOMAIN h : Before(1, i + 1)
  BY DEF Before
<1> HIDE DEF h
<1>3. Climbs(h, t)
  BY <1>1, <1>2 DEF Climbs
<1>4. ASSUME NEW n, w[1].t = t, Carries(h, t, n) PROVE Before(w[1].n, n)
  BY <1>1, <1>2, <1>4 DEF Climbs, Carries
<1>5. w[1].t = t /\ w[1].n # 0 => Carries(w, t, w[1].n)
  BY <1>1 DEF Carries
<1>6. ASSUME NEW n, Carries(h, t, n) PROVE Carries(w, t, n)
  BY <1>1, <1>6 DEF Carries
<1>7. ASSUME NEW n, Carries(w, t, n) PROVE Carries(h, t, n) \/ (w[1].t = t /\ w[1].n = n)
  BY <1>1, <1>7 DEF Carries
<1> QED  BY <1>3, <1>4, <1>5, <1>6, <1>7 DEF h

\* The requests of a session and the answers to them: x is the session, v
\* what it has written and w what the peer has.
Coming(v, w, n) == Carries(w, "RESULT", n) \/ Carries(v, "GLOBAL", n)

InStep(x, v, w) ==
    /\ Climbs(w, "RESULT") /\ Climbs(v, "GLOBAL")
    /\ \A m, n : Carries(w, "RESULT", m) /\ Carries(v, "GLOBAL", n) => Before(m, n)
    /\ \A n : Waited(x.globals, n) => Coming(v, w, n)
    /\ \A m, n : Waited(x.globals, m) /\ Coming(v, w, n) /\ Before(m, n) => Waited(x.globals, n)
    /\ Ascending(x.globals)
    /\ \A n : Coming(v, w, n) => Before(n, x.asked + 1)

\* So long as a side has sent nothing whose answer nobody waits for, no such
\* answer is under way and every request that is, is waited for.
Sure(w) == \A i \in DOMAIN w : w[i].t = "RESULT" => w[i].n # 0

Honest(x, v, w) ==
    Calm(v) /\ Sure(w) /\ \A n : Coming(v, w, n) => Waited(x.globals, n)

\* The server asks for a reply to each of its keepalives.
Polite(s, v) ==
    s = "server" => \A i \in DOMAIN v :
                        v[i].t = "GLOBAL" /\ v[i].kind = "keepalive" => v[i].wants

GlobalsInv ==
    \A s \in Sides :
        LET p == Peer(s)
        IN  /\ Polite(s, wire[s]) /\ left.strays[s] <= MaxStrays[s]
            /\ Alive(s) /\ Alive(p) =>
                  /\ InStep(ses[s], wire[s], wire[p])
                  /\ left.strays[s] = MaxStrays[s] => Honest(ses[s], wire[s], wire[p])

LEMMA CalmMore ==
    ASSUME NEW v \in Seq(Message), NEW out \in Seq(Message)
    PROVE  /\ Calm(v) /\ Calm(out) => Calm(v \o out)
           /\ Sure(v) /\ Sure(out) => Sure(v \o out)
           /\ \A s : Polite(s, v) /\ Polite(s, out) => Polite(s, v \o out)
<1> DEFINE v2 == v \o out
<1>1. \A i \in DOMAIN v2 : \/ i \in DOMAIN v /\ v2[i] = v[i]
                           \/ i - Len(v) \in DOMAIN out /\ v2[i] = out[i - Len(v)]
  OBVIOUS
<1> HIDE DEF v2
<1>2. Calm(v) /\ Calm(out) => Calm(v2)
  BY <1>1 DEF Calm
<1>3. Sure(v) /\ Sure(out) => Sure(v2)
  BY <1>1 DEF Sure
<1>4. ASSUME NEW s PROVE Polite(s, v) /\ Polite(s, out) => Polite(s, v2)
  BY <1>1, Zenon DEF Polite
<1> QED  BY <1>2, <1>3, <1>4 DEF v2

LEMMA CalmLess ==
    ASSUME NEW w \in Seq(Message), w # <<>>
    PROVE  /\ Calm(w) => Calm(Tail(w)) /\ ~Stray(w[1])
           /\ Sure(w) => Sure(Tail(w)) /\ (w[1].t = "RESULT" => w[1].n # 0)
           /\ \A s : Polite(s, w) => Polite(s, Tail(w))
           /\ Polite("server", w) /\ w[1].t = "GLOBAL" /\ w[1].kind = "keepalive" => w[1].wants
<1> DEFINE h == Tail(w)
<1>1. /\ 1 \in DOMAIN w
      /\ \A i \in DOMAIN h : i + 1 \in DOMAIN w /\ h[i] = w[i + 1]
  OBVIOUS
<1> HIDE DEF h
<1>2. Calm(w) => Calm(h) /\ ~Stray(w[1])
  BY <1>1 DEF Calm
<1>3. Sure(w) => Sure(h) /\ (w[1].t = "RESULT" => w[1].n # 0)
  BY <1>1 DEF Sure
<1>4. ASSUME NEW s PROVE Polite(s, w) => Polite(s, h)
  BY <1>1, Zenon DEF Polite
<1>5. Polite("server", w) /\ w[1].t = "GLOBAL" /\ w[1].kind = "keepalive" => w[1].wants
  BY <1>1, Zenon DEF Polite
<1> QED  BY <1>2, <1>3, <1>4, <1>5 DEF h

\* The steps, as the global requests see them.
Mute(x, w, z, out, w2) ==
    /\ z.globals = x.globals /\ z.asked = x.asked
    /\ \A i \in DOMAIN out : out[i].t \in {"GLOBAL", "RESULT"} => out[i].n = 0
    /\ Calm(w) => Sure(out)
    /\ \/ w2 = w
       \/ w # <<>> /\ w[1].t \notin {"GLOBAL", "RESULT"} /\ w2 = Tail(w)

Asks1(x, w, z, out, w2) ==
    /\ \E s, k, k2 : DidGlobal(s, x, k, z, out, k2)
    /\ w2 = w

Hears1(x, w, z, out, w2) ==
    /\ w # <<>> /\ w[1].t = "RESULT" /\ w2 = Tail(w)
    /\ TookResult(x, z, out)

Answers1(x, w, z, out, w2) ==
    /\ w # <<>> /\ w[1].t = "GLOBAL" /\ w2 = Tail(w)
    /\ Still(x, z) /\ out = <<[t |-> "RESULT", n |-> w[1].n]>>

LEMMA StepsGlobals ==
    ASSUME NEW s \in Sides, NEW z, NEW out, NEW k2, NEW w2, Typed, Steps(s, z, out, k2, w2),
           z.end = "no", Polite(Peer(s), wire[Peer(s)])
    PROVE  LET x == ses[s]
               w == wire[Peer(s)]
           IN  \/ Mute(x, w, z, out, w2) \/ Asks1(x, w, z, out, w2)
               \/ Hears1(x, w, z, out, w2) \/ Answers1(x, w, z, out, w2)
<1> DEFINE x == ses[s]
           k == task[s]
           w == wire[Peer(s)]
           n == left.opens[s]
<1>1. /\ x \in Session /\ k \in Tasks /\ w \in Seq(Message) /\ n \in Nat
  BY PeerFacts DEF Typed, Lefts
<1>2. /\ x.end = "no"
      /\ \/ w # <<>> /\ Took(s, x, k, Head(w), z, out, k2) /\ w2 = Tail(w)
         \/ Did(s, x, k, n, z, out, k2) /\ w2 = w
  BY DEF Steps
<1>0. s = "client" => Polite("server", w)
  BY DEF Peer
<1> HIDE DEF x, k, w, n
<1>3. CASE w # <<>> /\ Took(s, x, k, Head(w), z, out, k2) /\ w2 = Tail(w)
  <2>1. w # <<>> /\ w2 = Tail(w) /\ Head(w) = w[1] /\ w[1] \in Message
    BY <1>1, <1>3, TailFacts
  <2>2. Took(s, x, k, w[1], z, out, k2)
    BY <1>3, <2>1
  <2>3. /\ \A i \in DOMAIN out : Reply(w[1].t, out[i].t)
        /\ \A i \in DOMAIN out :
              w[1].t = "REQUEST" /\ out[i].t = "RESULT" => w[1].agent /\ out[i].n = 0
        /\ w[1].t # "RESULT" => z.globals = x.globals /\ z.asked = x.asked
    BY <1>1, <1>2, <2>1, <2>2, TookSays
  <2>4. CASE w[1].t = "RESULT"
    <3>1. TookResult(x, z, out)
      BY <2>2, <2>4 DEF Took
    <3> QED  BY <2>1, <2>4, <3>1 DEF Hears1, x, w
  <2>5. CASE w[1].t = "GLOBAL"
    <3>1. TookGlobal(s, x, w[1], z, out)
      BY <2>2, <2>5 DEF Took
    <3>2. ~(s = "client" /\ w[1].kind = "keepalive" /\ ~w[1].wants)
      BY <1>0, <1>1, <2>1, <2>5, CalmLess
    <3>3. Still(x, z) /\ out = <<[t |-> "RESULT", n |-> w[1].n]>>
      BY <3>1, <3>2 DEF TookGlobal
    <3> QED  BY <2>1, <2>5, <3>3 DEF Answers1, x, w
  <2>6. CASE w[1].t \notin {"RESULT", "GLOBAL"}
    <3>1. \A i \in DOMAIN out : out[i].t \in {"GLOBAL", "RESULT"} => out[i].n = 0
      BY <2>3, <2>6 DEF Reply
    <3>2. ASSUME NEW i \in DOMAIN out, out[i].t = "RESULT" PROVE ~Calm(w)
      <4>1. w[1].t = "REQUEST" /\ w[1].agent
        BY <2>3, <2>6, <3>2 DEF Reply
      <4> QED  BY <1>1, <2>1, <4>1, CalmLess DEF Stray
    <3>3. Mute(x, w, z, out, w2)
      BY <2>1, <2>3, <2>6, <3>1, <3>2 DEF Mute, Sure
    <3> QED  BY <3>3 DEF x, w
  <2> QED  BY <2>4, <2>5, <2>6
<1>4. CASE Did(s, x, k, n, z, out, k2) /\ w2 = w
  <2>1. w2 = w
    BY <1>4
  <2>2. CASE DidGlobal(s, x, k, z, out, k2)
    <3>1. Asks1(x, w, z, out, w2)
      BY <1>4, <2>2 DEF Asks1
    <3> QED  BY <3>1 DEF x, w
  <2>3. CASE /\ \A i \in DOMAIN out :
                   out[i].t \in {"OPEN", "DATA", "EOF", "CLOSE", "REQUEST", "ANSWER"}
             /\ z.globals = x.globals /\ z.asked = x.asked
    <3>1. Mute(x, w, z, out, w2)
      BY <2>1, <2>3 DEF Mute, Sure
    <3> QED  BY <3>1 DEF x, w
  <2>4. CASE DidNoReply(x, k, z, out, k2)
    <3>1. z = x /\ \A i \in DOMAIN out : out[i].t = "GLOBAL" /\ out[i].n = 0
      BY <2>4 DEF DidNoReply
    <3>2. Mute(x, w, z, out, w2)
      BY <2>1, <3>1 DEF Mute, Sure
    <3> QED  BY <3>2 DEF x, w
  <2> QED  BY <1>1, <1>2, <1>4, <2>2, <2>3, <2>4, DidSays
<1> QED  BY <1>2, <1>3, <1>4

\* What a step keeps of the requests of both sides.
StaysInStep(x, y, v, w, z, out, v2, w2) ==
    /\ InStep(z, v2, w2) /\ InStep(y, w2, v2)
    /\ Honest(x, v, w) /\ Calm(out) => Honest(z, v2, w2)
    /\ Honest(y, w, v) => Honest(y, w2, v2)

LEMMA GlobalsKeep ==
    ASSUME NEW x \in Session, NEW y \in Session, NEW v \in Seq(Message), NEW w \in Seq(Message),
           InStep(x, v, w), InStep(y, w, v),
           NEW z, NEW out \in Seq(Message), NEW w2,
           \/ Mute(x, w, z, out, w2) \/ Asks1(x, w, z, out, w2)
           \/ Hears1(x, w, z, out, w2) \/ Answers1(x, w, z, out, w2)
    PROVE  StaysInStep(x, y, v, w, z, out, v \o out, w2)
<1> DEFINE v2 == v \o out
<1>1. x.globals \in Seq(Nat) /\ x.asked \in Nat
  BY SessionFacts
<1>2. \A t, n : Carries(v2, t, n) <=> Carries(v, t, n) \/ Carries(out, t, n)
  BY CarriesMore
<1>3. w # <<>> => w[1] \in Message
  OBVIOUS
<1>4. \A m \in Message : m.t \in {"GLOBAL", "RESULT"} => m.n \in Nat
  BY DEF Message
<1>5. \A a, b \in Nat : ~(Before(a, b) /\ Before(b, a)) /\ ~Before(a, a)
  BY DEF Before
<1>6. \A t : Climbs(v, t) /\ (\A i \in DOMAIN out : out[i].t = t => out[i].n = 0) => Climbs(v2, t)
  BY ClimbsOver
<1>7. /\ Calm(v) /\ Calm(out) => Calm(v2)
      /\ Sure(v) /\ Sure(out) => Sure(v2)
  BY CalmMore
<1>8. w # <<>> => (Calm(w) => Calm(Tail(w)) /\ ~Stray(w[1])) /\ (Sure(w) => Sure(Tail(w)))
  BY CalmLess
<1> HIDE DEF v2
<1>9. CASE Mute(x, w, z, out, w2)
  <2>1. \A n : ~Carries(out, "GLOBAL", n) /\ ~Carries(out, "RESULT", n)
    BY <1>9 DEF Mute, Carries
  <2>2. /\ \A n : Carries(v2, "GLOBAL", n) <=> Carries(v, "GLOBAL", n)
        /\ \A n : Carries(v2, "RESULT", n) <=> Carries(v, "RESULT", n)
    BY <1>2, <2>1
  <2>3. Climbs(v2, "GLOBAL") /\ Climbs(v2, "RESULT")
    <3>1. \A i \in DOMAIN out : /\ out[i].t = "GLOBAL" => out[i].n = 0
                                /\ out[i].t = "RESULT" => out[i].n = 0
      BY <1>9 DEF Mute
    <3> QED  BY <1>6, <3>1 DEF InStep
  <2>4. /\ Climbs(w2, "GLOBAL") /\ Climbs(w2, "RESULT")
        /\ \A n : Carries(w2, "GLOBAL", n) <=> Carries(w, "GLOBAL", n)
        /\ \A n : Carries(w2, "RESULT", n) <=> Carries(w, "RESULT", n)
        /\ (Calm(w) => Calm(w2)) /\ (Sure(w) => Sure(w2))
    <3>1. CASE w2 = w
      BY <3>1 DEF InStep
    <3>2. CASE w # <<>> /\ w[1].t \notin {"GLOBAL", "RESULT"} /\ w2 = Tail(w)
      <4>1. Climbs(w, "GLOBAL") /\ Climbs(w, "RESULT")
        BY DEF InStep
      <4> QED  BY <1>8, <3>2, <4>1, CarriesLess
    <3> QED  BY <1>9, <3>1, <3>2 DEF Mute
  <2>5. z.globals = x.globals /\ z.asked = x.asked /\ (Calm(w) => Sure(out))
    BY <1>9 DEF Mute
  <2>6. InStep(z, v2, w2) /\ InStep(y, w2, v2)
    BY <2>2, <2>3, <2>4, <2>5 DEF InStep, Coming
  <2>7. Honest(x, v, w) /\ Calm(out) => Honest(z, v2, w2)
    BY <1>7, <2>2, <2>4, <2>5 DEF Honest, Coming
  <2>8. Honest(y, w, v) => Honest(y, w2, v2)
    BY <1>7, <2>2, <2>4, <2>5 DEF Honest, Coming
  <2> QED  BY <2>6, <2>7, <2>8 DEF StaysInStep, v2
<1>10. CASE Asks1(x, w, z, out, w2)
  <2> DEFINE n == x.asked + 1
  <2>1. PICK s, k, k2 : DidGlobal(s, x, k, z, out, k2)
    BY <1>10 DEF Asks1
  <2>2. PICK kind \in {"forward", "keepalive"}, wants \in BOOLEAN :
            out = <<[t |-> "GLOBAL", n |-> n, kind |-> kind, wants |-> wants]>>
    BY <2>1, Zenon DEF DidGlobal
  <2> DEFINE m == [t |-> "GLOBAL", n |-> n, kind |-> kind, wants |-> wants]
  <2>3. /\ z.globals = Append(x.globals, n) /\ z.asked = n /\ n \in Nat /\ n # 0 /\ w2 = w
    BY <1>1, <1>10, <2>1 DEF Asks1, DidGlobal, Queues
  <2>4. m.t = "GLOBAL" /\ m.n = n /\ m \in Message
    BY <2>3 DEF Message
  <2>5. 1 \in DOMAIN out /\ \A i \in DOMAIN out : out[i].t = "GLOBAL" /\ out[i].n = n
    BY <2>2
  <2>6. /\ \A i : Carries(out, "GLOBAL", i) <=> i = n
        /\ \A i : ~Carries(out, "RESULT", i)
        /\ \A i \in DOMAIN out : out[i].t # "RESULT"
    BY <2>3, <2>5 DEF Carries
  <2>7. Sure(out)
    BY <2>6 DEF Sure
  <2>8. \A i : Coming(v, w, i) => Before(i, n) /\ i \in Nat
    <3>1. \A i : Coming(v, w, i) => i \in Nat
      BY <1>4 DEF Coming, Carries
    <3> QED  BY <3>1 DEF InStep
  <2>9. /\ Ascending(z.globals)
        /\ \A i : Waited(z.globals, i) <=> Waited(x.globals, i) \/ i = n
    <3>1. \A i : Waited(x.globals, i) => Before(i, n)
      BY <2>8 DEF InStep
    <3> QED  BY <1>1, <2>3, <3>1, QueueJoin DEF InStep
  <2>10. \A i : Coming(v, w, i) \/ i = n => Before(i, z.asked + 1)
    BY <2>3, <2>8 DEF Before
  <2>11. w2 = w /\ out = <<m>> /\ n \in Nat /\ n # 0
    BY <2>2, <2>3
  <2> HIDE DEF n, m
  <2>12. Climbs(v2, "GLOBAL")
    <3>1. Tops(v, "GLOBAL", n)
      BY <2>8, <2>11, TopsCarried DEF Coming
    <3>2. Climbs(v, "GLOBAL")
      BY DEF InStep
    <3> QED  BY <2>4, <2>11, <3>1, <3>2, ClimbsMore DEF v2
  <2>13. Climbs(v2, "RESULT")
    BY <1>6, <2>6 DEF InStep
  <2>14. /\ \A i : Carries(v2, "GLOBAL", i) <=> Carries(v, "GLOBAL", i) \/ i = n
         /\ \A i : Carries(v2, "RESULT", i) <=> Carries(v, "RESULT", i)
    BY <1>2, <2>6
  <2>15. /\ \A i : Coming(v2, w2, i) <=> Coming(v, w, i) \/ i = n
         /\ \A i : Coming(w2, v2, i) <=> Coming(w, v, i)
    BY <2>11, <2>14 DEF Coming
  <2>16. InStep(z, v2, w2)
    <3>1. \A i, j : Carries(w2, "RESULT", i) /\ Carries(v2, "GLOBAL", j) => Before(i, j)
      BY <2>8, <2>11, <2>14 DEF InStep, Coming
    <3>2. \A i : Waited(z.globals, i) => Coming(v2, w2, i)
      BY <2>9, <2>15 DEF InStep
    <3>3. \A i, j : Waited(z.globals, i) /\ Coming(v2, w2, j) /\ Before(i, j) => Waited(z.globals, j)
      BY <1>5, <2>8, <2>9, <2>11, <2>15 DEF InStep
    <3> QED  BY <2>9, <2>10, <2>11, <2>12, <2>15, <3>1, <3>2, <3>3 DEF InStep
  <2>17. InStep(y, w2, v2)
    BY <2>11, <2>13, <2>14, <2>15 DEF InStep
  <2>18. Honest(x, v, w) /\ Calm(out) => Honest(z, v2, w2)
    BY <1>7, <2>9, <2>11, <2>15 DEF Honest
  <2>19. Honest(y, w, v) => Honest(y, w2, v2)
    BY <1>7, <2>7, <2>11, <2>15 DEF Honest
  <2> QED  BY <2>16, <2>17, <2>18, <2>19 DEF StaysInStep, v2
<1>11. CASE Hears1(x, w, z, out, w2)
  <2> DEFINE n == w[1].n
             g == x.globals
  <2>1. /\ w # <<>> /\ w[1].t = "RESULT" /\ w2 = Tail(w) /\ n \in Nat
        /\ z.globals = (IF g = <<>> THEN <<>> ELSE Tail(g)) /\ z.asked = x.asked
        /\ DOMAIN out = {}
    BY <1>3, <1>4, <1>11, NoMessage DEF Hears1, TookResult, Queues
  <2>2. /\ Climbs(w2, "RESULT") /\ Climbs(w2, "GLOBAL")
        /\ n # 0 => Carries(w, "RESULT", n)
        /\ \A i : Carries(w2, "RESULT", i) => Before(n, i) /\ Carries(w, "RESULT", i)
        /\ \A i : Carries(w, "RESULT", i) => Carries(w2, "RESULT", i) \/ i = n
        /\ \A i : Carries(w2, "GLOBAL", i) <=> Carries(w, "GLOBAL", i)
    <3>1. Climbs(w, "RESULT") /\ Climbs(w, "GLOBAL")
      BY DEF InStep
    <3> QED  BY <2>1, <3>1, CarriesLess
  <2>3. n \in Nat /\ \A t, i : Carries(v, t, i) => i # 0
    BY <2>1 DEF Carries
  <2> HIDE DEF n, g
  <2>4. \A i : Carries(v, "GLOBAL", i) => n = 0 \/ Before(n, i)
    BY <2>2 DEF InStep
  <2>5. \A i : Coming(v, w, i) => i \in Nat /\ i # 0
    BY <1>4 DEF Coming, Carries
  <2>6. \A i : Coming(v, w2, i) <=> Coming(v, w, i) /\ i # n
    <3>1. ASSUME NEW i, Coming(v, w2, i) PROVE Coming(v, w, i) /\ i # n
      <4>1. Coming(v, w, i)
        BY <2>2, <3>1 DEF Coming
      <4>2. n = 0 \/ Before(n, i)
        BY <2>2, <2>4, <3>1 DEF Coming
      <4> QED  BY <1>5, <2>3, <2>5, <4>1, <4>2
    <3>2. ASSUME NEW i, Coming(v, w, i), i # n PROVE Coming(v, w2, i)
      BY <2>2, <3>2 DEF Coming
    <3> QED  BY <3>1, <3>2
  <2>7. \A i : Coming(v, w, i) => i = n \/ n = 0 \/ Before(n, i)
    BY <2>2, <2>4 DEF Coming
  <2>8. /\ \A t, i : Carries(v2, t, i) <=> Carries(v, t, i)
        /\ Climbs(v2, "GLOBAL") /\ Climbs(v2, "RESULT")
        /\ Sure(out)
    <3>1. \A t, i : ~Carries(out, t, i)
      BY <2>1 DEF Carries
    <3>2. Climbs(v2, "GLOBAL") /\ Climbs(v2, "RESULT")
      BY <1>6, <2>1 DEF InStep
    <3> QED  BY <1>2, <2>1, <3>1, <3>2 DEF Sure
  <2>9. /\ \A i : Coming(v2, w2, i) <=> Coming(v, w, i) /\ i # n
        /\ \A i : Coming(w2, v2, i) <=> Coming(w, v, i)
    BY <2>2, <2>6, <2>8 DEF Coming
  <2>10. \A i, j : Carries(w2, "RESULT", i) /\ Carries(v2, "GLOBAL", j) => Before(i, j)
    BY <2>2, <2>8 DEF InStep
  <2>11. \A i : Coming(v2, w2, i) => Before(i, z.asked + 1)
    BY <2>1, <2>9 DEF InStep
  <2>12. InStep(y, w2, v2) /\ (Honest(y, w, v) => Honest(y, w2, v2))
    <3>1. InStep(y, w2, v2)
      BY <2>2, <2>8, <2>9 DEF InStep
    <3> QED  BY <1>7, <1>8, <2>1, <2>8, <2>9, <3>1 DEF Honest
  <2>13. CASE g = <<>>
    <3>1. \A i : ~Waited(z.globals, i) /\ ~Waited(g, i)
      BY <2>1, <2>13, NoMessage DEF Waited
    <3>2. Ascending(z.globals)
      BY <2>1, <2>13, NoMessage DEF Ascending
    <3>3. InStep(z, v2, w2)
      BY <2>2, <2>8, <2>10, <2>11, <3>1, <3>2 DEF InStep
    <3>4. Honest(x, v, w) /\ Calm(out) => Honest(z, v2, w2)
      <4>1. Honest(x, v, w) => \A i : ~Coming(v, w, i)
        BY <3>1 DEF Honest, g
      <4> QED  BY <1>7, <1>8, <2>1, <2>9, <4>1 DEF Honest
    <3> QED  BY <2>12, <3>3, <3>4 DEF StaysInStep, v2
  <2>14. CASE g # <<>>
    <3>1. /\ Ascending(g) /\ g \in Seq(Nat)
          /\ \A i : Waited(g, i) => Coming(v, w, i)
          /\ \A i, j : Waited(g, i) /\ Coming(v, w, j) /\ Before(i, j) => Waited(g, j)
      BY <1>1 DEF InStep, g
    <3>2. PICK h : h = g[1]
      OBVIOUS
    <3>3. /\ Ascending(Tail(g)) /\ Waited(g, h)
          /\ \A i : Waited(g, i) => i = h \/ Before(h, i)
          /\ \A i : Waited(Tail(g), i) <=> Waited(g, i) /\ i # h
      BY <2>14, <3>1, <3>2, QueueLeave
    <3>4. /\ Ascending(z.globals)
          /\ \A i : Waited(z.globals, i) <=> Waited(g, i) /\ i # h
      BY <2>1, <2>14, <3>3
    <3>5. Coming(v, w, h) /\ h \in Nat /\ (h = n \/ n = 0 \/ Before(n, h))
      BY <2>5, <2>7, <3>1, <3>3
    <3>6. ASSUME NEW i, Waited(z.globals, i) PROVE Coming(v2, w2, i)
      <4>1. Waited(g, i) /\ i # h /\ Coming(v, w, i) /\ i \in Nat /\ i # 0 /\ Before(h, i)
        BY <2>5, <3>1, <3>3, <3>4, <3>6
      <4>2. i # n
        BY <1>5, <2>3, <3>5, <4>1
      <4> QED  BY <2>9, <4>1, <4>2
    <3>7. ASSUME NEW i, NEW j, Waited(z.globals, i), Coming(v2, w2, j), Before(i, j)
          PROVE  Waited(z.globals, j)
      <4>1. Waited(g, i) /\ i # h /\ Before(h, i) /\ Coming(v, w, i) /\ i \in Nat
        BY <2>5, <3>1, <3>3, <3>4, <3>7
      <4>2. Coming(v, w, j) /\ Waited(g, j)
        BY <2>9, <3>1, <3>7, <4>1
      <4>3. j # h
        BY <1>5, <3>5, <3>7, <4>1
      <4> QED  BY <3>4, <4>2, <4>3
    <3>8. InStep(z, v2, w2)
      BY <2>2, <2>8, <2>10, <2>11, <3>4, <3>6, <3>7 DEF InStep
    <3>9. ASSUME Honest(x, v, w), Calm(out) PROVE Honest(z, v2, w2)
      <4>1. Calm(v2) /\ Sure(w2)
        BY <1>7, <1>8, <2>1, <3>9 DEF Honest
      <4>2. n # 0 /\ Waited(g, n)
        <5>1. n # 0
          BY <2>1, <3>9, CalmLess DEF Honest, n
        <5>2. Coming(v, w, n)
          BY <2>2, <5>1 DEF Coming
        <5> QED  BY <3>9, <5>1, <5>2 DEF Honest, g
      <4>3. h = n
        BY <1>5, <2>3, <3>3, <3>5, <4>2
      <4>4. \A i : Coming(v2, w2, i) => Waited(z.globals, i)
        BY <2>9, <3>4, <3>9, <4>3 DEF Honest, g
      <4> QED  BY <4>1, <4>4 DEF Honest
    <3> QED  BY <2>12, <3>8, <3>9 DEF StaysInStep, v2
  <2> QED  BY <2>13, <2>14
<1>12. CASE Answers1(x, w, z, out, w2)
  <2> DEFINE n == w[1].n
             m == [t |-> "RESULT", n |-> n]
  <2>1. /\ w # <<>> /\ w[1].t = "GLOBAL" /\ w2 = Tail(w) /\ n \in Nat
        /\ z.globals = x.globals /\ z.asked = x.asked /\ out = <<m>>
    BY <1>3, <1>4, <1>12 DEF Answers1, Still, Shift
  <2>2. m.t = "RESULT" /\ m.n = n /\ m \in Message
    BY <2>1 DEF Message
  <2>3. 1 \in DOMAIN out /\ \A i \in DOMAIN out : out[i].t = "RESULT" /\ out[i].n = n
    BY <2>1
  <2>4. /\ \A i : Carries(out, "RESULT", i) <=> i = n /\ n # 0
        /\ \A i : ~Carries(out, "GLOBAL", i)
        /\ \A i \in DOMAIN out : out[i].t # "GLOBAL"
    BY <2>3 DEF Carries
  <2>5. /\ Climbs(w2, "RESULT") /\ Climbs(w2, "GLOBAL")
        /\ n # 0 => Carries(w, "GLOBAL", n)
        /\ \A i : Carries(w2, "GLOBAL", i) => Before(n, i) /\ Carries(w, "GLOBAL", i)
        /\ \A i : Carries(w, "GLOBAL", i) => Carries(w2, "GLOBAL", i) \/ (i = n /\ n # 0)
        /\ \A i : Carries(w2, "RESULT", i) <=> Carries(w, "RESULT", i)
    <3>1. Climbs(w, "RESULT") /\ Climbs(w, "GLOBAL")
      BY DEF InStep
    <3>2. \A i : Carries(w, "GLOBAL", i) => i # 0
      BY DEF Carries
    <3> QED  BY <2>1, <3>1, <3>2, CarriesLess
  <2>6. z.globals = x.globals /\ z.asked = x.asked /\ out = <<m>> /\ n \in Nat
    BY <2>1
  <2>7. Calm(w) => Sure(out)
    <3>1. Calm(w) => n # 0
      BY <1>8, <2>1 DEF Stray
    <3> QED  BY <2>3, <3>1 DEF Sure
  <2> HIDE DEF n, m
  <2>8. Climbs(v2, "RESULT")
    <3>1. Climbs(v, "RESULT")
      BY DEF InStep
    <3>2. n # 0 => Tops(v, "RESULT", n)
      <4>1. n # 0 => \A i : Carries(v, "RESULT", i) => Before(i, n)
        BY <2>5 DEF InStep
      <4> QED  BY <2>6, <4>1, TopsCarried
    <3> QED  BY <2>2, <2>6, <3>1, <3>2, ClimbsMore DEF v2
  <2>9. Climbs(v2, "GLOBAL")
    BY <1>6, <2>4 DEF InStep
  <2>10. /\ \A i : Carries(v2, "RESULT", i) <=> Carries(v, "RESULT", i) \/ (i = n /\ n # 0)
         /\ \A i : Carries(v2, "GLOBAL", i) <=> Carries(v, "GLOBAL", i)
    BY <1>2, <2>4
  <2>11. /\ \A i : Coming(v2, w2, i) <=> Coming(v, w, i)
         /\ \A i : Coming(w2, v2, i) <=> Coming(w, v, i)
    BY <2>5, <2>10 DEF Coming
  <2>12. InStep(z, v2, w2)
    BY <2>5, <2>6, <2>9, <2>10, <2>11 DEF InStep
  <2>13. InStep(y, w2, v2)
    <3>1. \A i, j : Carries(v2, "RESULT", i) /\ Carries(w2, "GLOBAL", j) => Before(i, j)
      BY <2>5, <2>10 DEF InStep
    <3> QED  BY <2>5, <2>8, <2>11, <3>1 DEF InStep
  <2>14. (Calm(w) => Calm(w2)) /\ (Sure(w) => Sure(w2))
    BY <1>8, <2>1
  <2>15. Honest(x, v, w) /\ Calm(out) => Honest(z, v2, w2)
    BY <1>7, <2>6, <2>11, <2>14 DEF Honest
  <2>16. Honest(y, w, v) => Honest(y, w2, v2)
    BY <1>7, <2>7, <2>11, <2>14 DEF Honest
  <2> QED  BY <2>12, <2>13, <2>15, <2>16 DEF StaysInStep, v2
<1> QED  BY <1>9, <1>10, <1>11, <1>12

\* What a step spends: the strays of s when it sends one, and no others.
LEMMA StepsSpent ==
    ASSUME Typed, NEW s \in Sides, NEW z, NEW out, NEW k2, NEW w2, Steps(s, z, out, k2, w2)
    PROVE  /\ \A u \in Sides : u # s => left'.strays[u] = left.strays[u]
           /\ \/ left'.strays[s] = left.strays[s] /\ Calm(out)
              \/ left.strays[s] > 0 /\ left'.strays[s] = left.strays[s] - 1
<1> DEFINE x == ses[s]
           w == wire[Peer(s)]
<1>1. CASE w # <<>> /\ Took(s, x, task[s], Head(w), z, out, k2) /\ left' = left
  <2>1. x \in Session /\ task[s] \in Tasks /\ w \in Seq(Message) /\ x.end = "no"
    BY PeerFacts DEF Typed, Steps
  <2>2. Head(w) \in Message
    BY <1>1, <2>1, TailFacts
  <2>3. \A i \in DOMAIN out : Reply(Head(w).t, out[i].t)
    <3> HIDE DEF x, w
    <3> QED  BY <1>1, <2>1, <2>2, TookSays
  <2>4. Calm(out)
    BY <2>3 DEF Calm, Stray, Reply
  <2> QED  BY <1>1, <2>4
<1>2. CASE Spent(s, out)
  BY <1>2 DEF Spent
<1> QED  BY <1>1, <1>2 DEF Steps

\* The server wants a reply to the keepalives it sends.
LEMMA StepsPolite ==
    ASSUME Typed, NEW s \in Sides, NEW z, NEW out, NEW k2, NEW w2, Steps(s, z, out, k2, w2)
    PROVE  Polite(s, out)
<1> DEFINE x == ses[s]
           k == task[s]
           w == wire[Peer(s)]
           n == left.opens[s]
<1>1. /\ x \in Session /\ k \in Tasks /\ w \in Seq(Message) /\ n \in Nat /\ x.end = "no"
  BY PeerFacts DEF Typed, Lefts, Steps
<1>2. \/ w # <<>> /\ Took(s, x, k, Head(w), z, out, k2)
      \/ Did(s, x, k, n, z, out, k2)
  BY DEF Steps
<1> HIDE DEF x, k, w, n
<1>3. CASE w # <<>> /\ Took(s, x, k, Head(w), z, out, k2)
  <2>1. Head(w) \in Message
    BY <1>1, <1>3, TailFacts
  <2>2. \A i \in DOMAIN out : Reply(Head(w).t, out[i].t)
    BY <1>1, <1>3, <2>1, TookSays
  <2>3. \A i \in DOMAIN out : out[i].t # "GLOBAL"
    BY <2>2 DEF Reply
  <2> QED  BY <2>3 DEF Polite
<1>4. CASE DidGlobal(s, x, k, z, out, k2)
  <2>1. PICK kind \in {"forward", "keepalive"}, wants \in BOOLEAN :
            /\ s = "server" => wants
            /\ out = <<[t |-> "GLOBAL", n |-> x.asked + 1, kind |-> kind, wants |-> wants]>>
    BY <1>4, Zenon DEF DidGlobal
  <2>2. PICK m : m = [t |-> "GLOBAL", n |-> x.asked + 1, kind |-> kind, wants |-> wants]
    OBVIOUS
  <2>3. s = "server" => m.wants
    BY <2>1, <2>2, Zenon
  <2>4. \A i \in DOMAIN out : out[i] = m
    BY <2>1, <2>2
  <2> QED  BY <2>3, <2>4, Zenon DEF Polite
<1>5. CASE DidNoReply(x, k, z, out, k2)
  <2>1. \A i \in DOMAIN out : out[i].kind = "forward"
    BY <1>5 DEF DidNoReply
  <2>2. "forward" # "keepalive"
    OBVIOUS
  <2> QED  BY <2>1, <2>2, Zenon DEF Polite
<1>6. CASE z.end # "no"
  <2>1. \A i \in DOMAIN out : out[i].t # "GLOBAL"
    <3>1. Moves(s, x, k, n, w, z, out, k2, w2)
      BY DEF Steps, x, k, n, w
    <3>2. Leaves(s, x, k, w, z, out, k2, w2)
      BY <1>1, <1>6, <3>1
      DEF Moves, Quiet, KeptChans, Forgets, Shut, DidOpen, Accepts, Declines, Confirmed,
          Refused, Shift, Puts, Same
    <3> QED  BY <3>2 DEF Leaves
  <2> QED  BY <2>1 DEF Polite
<1>7. CASE \A i \in DOMAIN out :
              out[i].t \in {"OPEN", "DATA", "EOF", "CLOSE", "REQUEST", "ANSWER"}
  <2>1. \A i \in DOMAIN out : out[i].t # "GLOBAL"
    BY <1>7
  <2> QED  BY <2>1 DEF Polite
<1>8. CASE Did(s, x, k, n, z, out, k2)
  BY <1>1, <1>4, <1>5, <1>6, <1>7, <1>8, DidSays
<1> QED  BY <1>2, <1>3, <1>8

\* The requests that are waited for are the last of those under way, in their
\* order, whatever the two sides send; and they are all of them, so that a
\* RESULT answers the request it is for, so long as the side has sent none of
\* the requests that are answered without being waited for.
THEOREM GlobalsStayInStep == Spec => []GlobalsInStep
<1>0. \A s \in Sides : MaxStrays[s] \in Nat
  BY StraysAssumption DEF Sides
<1>1. Init => GlobalsInv
  <2> SUFFICES ASSUME Init, NEW s \in Sides
               PROVE  /\ InStep(ses[s], wire[s], wire[Peer(s)])
                      /\ Honest(ses[s], wire[s], wire[Peer(s)])
                      /\ Polite(s, wire[s]) /\ left.strays[s] <= MaxStrays[s]
    BY DEF GlobalsInv
  <2>1. Peer(s) \in Sides
    BY PeerFacts
  <2>2. /\ ses[s].globals = <<>> /\ wire[s] = <<>> /\ wire[Peer(s)] = <<>>
        /\ left.strays[s] <= MaxStrays[s]
    BY <1>0, <2>1 DEF Init
  <2>3. DOMAIN ses[s].globals = {} /\ DOMAIN wire[s] = {} /\ DOMAIN wire[Peer(s)] = {}
    BY <2>2, NoMessage
  <2>4. InStep(ses[s], wire[s], wire[Peer(s)])
    BY <2>3 DEF InStep, Climbs, Carries, Coming, Waited, Ascending
  <2>5. Honest(ses[s], wire[s], wire[Peer(s)])
    BY <2>3 DEF Honest, Calm, Sure, Carries, Coming
  <2> QED  BY <2>2, <2>3, <2>4, <2>5 DEF Polite
<1>2. Typed /\ HandInv /\ GlobalsInv /\ [Next]_vars => GlobalsInv'
  <2> SUFFICES ASSUME Typed, HandInv, GlobalsInv, [Next]_vars PROVE GlobalsInv'
    OBVIOUS
  <2>1. CASE UNCHANGED vars
    BY <2>1 DEF vars, GlobalsInv, Alive
  <2>2. ASSUME NEW s \in Sides, NEW z, NEW out, NEW k2, NEW w2, Steps(s, z, out, k2, w2)
        PROVE  GlobalsInv'
    <3> DEFINE p == Peer(s)
               x == ses[s]
               y == ses[p]
               v == wire[s]
               w == wire[p]
    <3>1. p \in Sides /\ p # s /\ Peer(p) = s /\ \A u \in Sides : u = s \/ u = p
      BY PeerFacts
    <3>2. /\ ses'[s] = z /\ ses'[p] = y /\ wire'[p] = w2
          /\ wire'[s] = IF y.end = "no" THEN v \o out ELSE <<>>
      BY <2>2, StepsAfter
    <3>3. /\ x \in Session /\ y \in Session /\ v \in Seq(Message) /\ w \in Seq(Message)
          /\ out \in Seq(Message) /\ x.end = "no"
      BY <2>2, <3>1 DEF Typed, Steps, Proper
    <3>4. /\ left'.strays[p] = left.strays[p]
          /\ \/ left'.strays[s] = left.strays[s] /\ Calm(out)
             \/ left.strays[s] > 0 /\ left'.strays[s] = left.strays[s] - 1
      BY <2>2, <3>1, StepsSpent
    <3>5. left.strays[s] <= MaxStrays[s] /\ left.strays[p] <= MaxStrays[p]
      BY <3>1 DEF GlobalsInv
    <3>6. left.strays[s] \in Nat /\ left.strays[p] \in Nat
      BY <3>1 DEF Typed, Lefts
    <3>7. /\ left'.strays[s] <= MaxStrays[s] /\ left'.strays[p] <= MaxStrays[p]
          /\ left'.strays[s] = MaxStrays[s] => left.strays[s] = MaxStrays[s] /\ Calm(out)
      BY <1>0, <3>1, <3>4, <3>5, <3>6
    <3>8. Polite(s, v) /\ Polite(p, w)
      BY <3>1 DEF GlobalsInv
    <3>9. Polite(s, wire'[s]) /\ Polite(p, wire'[p])
      <4>1. Polite(s, out)
        BY <2>2, StepsPolite
      <4>2. \A u : Polite(u, <<>>)
        BY DEF Polite
      <4>3. Polite(s, wire'[s])
        BY <3>2, <3>3, <3>8, <4>1, <4>2, CalmMore
      <4>4. w2 = <<>> \/ w2 = w \/ (w # <<>> /\ w2 = Tail(w))
        BY <2>2 DEF Steps
      <4>5. Polite(p, w2)
        BY <3>3, <3>8, <4>2, <4>4, CalmLess
      <4> QED  BY <3>2, <4>3, <4>5
    <3>10. CASE z.end = "no" /\ y.end = "no"
      <4>1. /\ InStep(x, v, w) /\ InStep(y, w, v)
            /\ left.strays[s] = MaxStrays[s] => Honest(x, v, w)
            /\ left.strays[p] = MaxStrays[p] => Honest(y, w, v)
        BY <3>1, <3>3, <3>10 DEF GlobalsInv, Alive
      <4>2. \/ Mute(x, w, z, out, w2) \/ Asks1(x, w, z, out, w2)
            \/ Hears1(x, w, z, out, w2) \/ Answers1(x, w, z, out, w2)
        BY <2>2, <3>8, <3>10, StepsGlobals
      <4>3. wire'[s] = v \o out
        BY <3>2, <3>10
      <4>4. StaysInStep(x, y, v, w, z, out, v \o out, w2)
        <5> HIDE DEF p, x, y, v, w
        <5> QED  BY <3>3, <4>1, <4>2, GlobalsKeep
      <4>5. /\ InStep(z, wire'[s], w2) /\ InStep(y, w2, wire'[s])
            /\ left'.strays[s] = MaxStrays[s] => Honest(z, wire'[s], w2)
            /\ left'.strays[p] = MaxStrays[p] => Honest(y, w2, wire'[s])
        BY <3>4, <3>7, <4>1, <4>3, <4>4 DEF StaysInStep
      <4> QED  BY <3>1, <3>2, <3>7, <3>9, <4>5 DEF GlobalsInv
    <3>11. CASE ~(z.end = "no" /\ y.end = "no")
      BY <3>1, <3>2, <3>7, <3>9, <3>11 DEF GlobalsInv, Alive
    <3> QED  BY <3>10, <3>11
  <2>3. ASSUME NEW s \in Sides, NEW id, NEW k2, Losing(s, id, k2) PROVE GlobalsInv'
    <3>1. ses' = ses /\ wire' = wire /\ left' = left
      BY <2>3 DEF Losing
    <3> QED  BY <3>1 DEF GlobalsInv, Alive
  <2> QED  BY <2>1, <2>2, <2>3, NextMoves
<1>3. Typed /\ GlobalsInv => GlobalsInStep
  <2> SUFFICES ASSUME Typed, GlobalsInv, NEW s \in Sides, Alive(s), Alive(Peer(s))
               PROVE  LET w == wire[Peer(s)]
                          v == wire[s]
                          g == ses[s].globals
                          waited == {g[i] : i \in DOMAIN g}
                          coming == Numbers(w, "RESULT") \cup Numbers(v, "GLOBAL")
                      IN  /\ Rising(w, "RESULT") /\ Rising(v, "GLOBAL")
                          /\ \A m \in Numbers(w, "RESULT"), n \in Numbers(v, "GLOBAL") : m < n
                          /\ \A i, j \in DOMAIN g : i < j => g[i] < g[j]
                          /\ waited \subseteq coming
                          /\ \A m \in waited, n \in coming : m < n => n \in waited
                          /\ left.strays[s] = MaxStrays[s] => coming \subseteq waited
    BY DEF GlobalsInStep
  <2> DEFINE w == wire[Peer(s)]
             v == wire[s]
             g == ses[s].globals
             waited == {g[i] : i \in DOMAIN g}
             coming == Numbers(w, "RESULT") \cup Numbers(v, "GLOBAL")
  <2>1. /\ InStep(ses[s], v, w)
        /\ left.strays[s] = MaxStrays[s] => Honest(ses[s], v, w)
    BY DEF GlobalsInv
  <2> HIDE DEF v, w, g
  <2>2. /\ \A n : n \in Numbers(w, "RESULT") <=> Carries(w, "RESULT", n)
        /\ \A n : n \in Numbers(v, "GLOBAL") <=> Carries(v, "GLOBAL", n)
    BY DEF Numbers, Carries
  <2>3. Rising(w, "RESULT") /\ Rising(v, "GLOBAL")
    BY <2>1 DEF InStep, Climbs, Rising, Before
  <2>4. \A m \in Numbers(w, "RESULT"), n \in Numbers(v, "GLOBAL") : m < n
    BY <2>1, <2>2 DEF InStep, Before
  <2>5. \A i, j \in DOMAIN g : i < j => g[i] < g[j]
    BY <2>1 DEF InStep, Ascending, Before, g
  <2>6. /\ \A n : n \in waited <=> Waited(ses[s].globals, n)
        /\ \A n : n \in coming <=> Coming(v, w, n)
    BY <2>2 DEF Waited, Coming, g
  <2> HIDE DEF waited, coming
  <2>7. waited \subseteq coming
    BY <2>1, <2>6 DEF InStep
  <2>8. \A m \in waited, n \in coming : m < n => n \in waited
    BY <2>1, <2>6 DEF InStep, Before
  <2>9. left.strays[s] = MaxStrays[s] => coming \subseteq waited
    BY <2>1, <2>6 DEF Honest
  <2> QED  BY <2>3, <2>4, <2>5, <2>7, <2>8, <2>9 DEF v, w, g, waited, coming
<1> QED  BY <1>1, <1>2, <1>3, HandshakeHolds, PTL DEF Spec
=============================================================================
