------------------------- MODULE ChannelsDataProofs -------------------------
(***************************************************************************)
(* Theorems about Channels that concern what is said on a channel: the     *)
(* order of data, EOF and CLOSE, the requests and their answers, the       *)
(* windows, and that nothing kept back stays there.                        *)
(***************************************************************************)
EXTENDS ChannelsProofs

-----------------------------------------------------------------------------
\* The end of what the client says on a channel.

Ending(m) == m.t \in {"EOF", "CLOSE"}
Saying == {"DATA", "EOF", "CLOSE"}

\* Data of the channel is kept back.
Kept(c) == c.pend > 0

\* The name of a channel has been used by the side that opens it.
Used(opens, ch) == ch \in Names /\ ch[2] > opens[ch[1]]

\* The invariant: x is the session of the client and k its tasks, v what the
\* client has written and w what the server has.
NamedOnce(x) ==
    \A i, j \in DOMAIN x.chans : x.chans[i].ch = x.chans[j].ch => i = j

\* A channel that is known and whose end is under way has had its EOF, asked
\* for by its task, and keeps nothing back: whatever is sent again is an EOF.
EndSaid(x, k, v) ==
    \A id \in DOMAIN x.chans, i \in DOMAIN v :
        Ending(v[i]) /\ v[i].ch = x.chans[id].ch =>
            /\ v[i].t = "EOF" /\ id \in DOMAIN k /\ k[id].eof
            /\ ~Kept(x.chans[id])

\* An EOF that waits, or has waited, was asked for.
EndWaits(x, k) ==
    \A id \in DOMAIN x.chans : x.chans[id].peof => id \in DOMAIN k /\ k[id].eof

NotYet(k) == \A id \in DOMAIN k : k[id].st \in {"wait", "quit"} => ~k[id].eof

\* What may not follow what.
TooLate(m, o) == \/ Ending(m) /\ o.t = "DATA"
                 \/ m.t = "CLOSE" /\ o.t = "EOF"

EndsLast(v) ==
    \A i, j \in DOMAIN v : Before(i, j) /\ TooLate(v[i], v[j]) => v[i].ch # v[j].ch

\* The name under which the server opens a channel is new to the client.
OpensOnce(w) ==
    \A i, j \in DOMAIN w :
        w[i].t = "OPEN" /\ w[j].t = "OPEN" /\ w[i].ch = w[j].ch => i = j

NewNames(x, v, w, opens) ==
    /\ \A id \in DOMAIN x.chans : Used(opens, x.chans[id].ch)
    /\ \A i \in DOMAIN v : Ending(v[i]) => Used(opens, v[i].ch)
    /\ \A j \in DOMAIN w : w[j].t = "OPEN" =>
          /\ Used(opens, w[j].ch)
          /\ \A id \in DOMAIN x.chans : x.chans[id].ch # w[j].ch
          /\ \A i \in DOMAIN v : Ending(v[i]) => v[i].ch # w[j].ch

EndParts(x, k, v, w, opens) ==
    /\ NamedOnce(x) /\ EndSaid(x, k, v) /\ EndWaits(x, k) /\ NotYet(k)
    /\ EndsLast(v) /\ OpensOnce(w) /\ NewNames(x, v, w, opens)
EndInv ==
    EndParts(ses["client"], task["client"], wire["client"], wire["server"], left.opens)

\* The steps of the client, as this invariant sees them.
NoSaying(out) == \A i \in DOMAIN out : out[i].t \notin Saying
TasksOn(k, k2) ==
    /\ \A id \in DOMAIN k : id \in DOMAIN k2 /\ (k[id].eof => k2[id].eof)
    /\ NotYet(k2)

Holding(x, k, z, out, k2) ==
    /\ NoSaying(out)
    /\ \A id \in DOMAIN z.chans :
          LET c == x.chans[id]
              d == z.chans[id]
          IN  /\ id \in DOMAIN x.chans /\ d.ch = c.ch
              /\ \/ d.peof = c.peof /\ (Kept(d) <=> Kept(c))
                 \/ Kept(c) /\ Kept(d) /\ id \in DOMAIN k2 /\ k2[id].eof
                 \/ id \in DOMAIN k /\ ~k[id].eof /\ Kept(d) /\ d.peof = c.peof

Speaks(x, k, id) == Kept(x.chans[id]) \/ (id \in DOMAIN k /\ ~k[id].eof)

Uttering(x, k, z, out, k2, id) ==
    /\ id \in DOMAIN x.chans
    /\ \A i \in DOMAIN out : out[i].t \in Saying /\ out[i].ch = x.chans[id].ch
    /\ \A i, j \in DOMAIN out : Before(i, j) /\ Ending(out[i]) => out[j].t = "CLOSE"
    /\ \A i \in DOMAIN out : out[i].t = "DATA" => Speaks(x, k, id)
    /\ \A j \in DOMAIN z.chans : j \in DOMAIN x.chans /\ (j # id => z.chans[j] = x.chans[j])
    /\ id \in DOMAIN z.chans =>
          LET c == x.chans[id]
              d == z.chans[id]
          IN  /\ d.ch = c.ch
              /\ \A i \in DOMAIN out : out[i].t # "CLOSE"
              /\ \A i \in DOMAIN out : out[i].t = "EOF" =>
                    id \in DOMAIN k2 /\ k2[id].eof /\ ~Kept(d)
              /\ d.peof => c.peof
              /\ Speaks(x, k, id) \/ ~Kept(d)

Adding(x, z, out, ch) ==
    /\ NoSaying(out)
    /\ \E id, d : /\ id \notin DOMAIN x.chans /\ z.chans = With(x.chans, id, d)
                  /\ d.ch = ch /\ ~d.peof /\ ~Kept(d)

\* What one channel is after a step.
LEMMA HoldingSame ==
    ASSUME NEW x, NEW k, NEW z, NEW out, NEW k2, NoSaying(out), z.chans = x.chans
    PROVE  Holding(x, k, z, out, k2)
BY DEF Holding

LEMMA HoldingPut ==
    ASSUME NEW x \in Session, NEW k, NEW z, NEW out, NEW k2, NoSaying(out),
           NEW id \in DOMAIN x.chans, NEW d, z.chans = With(x.chans, id, d),
           d.ch = x.chans[id].ch,
           \/ d.peof = x.chans[id].peof /\ (Kept(d) <=> Kept(x.chans[id]))
           \/ Kept(x.chans[id]) /\ Kept(d) /\ id \in DOMAIN k2 /\ k2[id].eof
           \/ id \in DOMAIN k /\ ~k[id].eof /\ Kept(d) /\ d.peof = x.chans[id].peof
    PROVE  Holding(x, k, z, out, k2)
<1>1. /\ DOMAIN z.chans = DOMAIN x.chans \cup {id} /\ z.chans[id] = d
      /\ \A i \in DOMAIN x.chans : i # id => z.chans[i] = x.chans[i]
  BY DEF With
<1> QED  BY <1>1 DEF Holding

LEMMA HoldingDrop ==
    ASSUME NEW x, NEW k, NEW z, NEW out, NEW k2, NoSaying(out),
           NEW id, z.chans = Without(x.chans, id)
    PROVE  Holding(x, k, z, out, k2)
<1>1. /\ DOMAIN z.chans = DOMAIN x.chans \ {id}
      /\ \A i \in DOMAIN x.chans : i # id => z.chans[i] = x.chans[i]
  BY DEF Without
<1> QED  BY <1>1 DEF Holding

LEMMA Uttered ==
    ASSUME NEW x \in Session, NEW k, NEW z, NEW out, NEW k2, NEW id \in DOMAIN x.chans,
           \A i \in DOMAIN out : out[i].t \in Saying /\ out[i].ch = x.chans[id].ch,
           \A i, j \in DOMAIN out : Before(i, j) /\ Ending(out[i]) => out[j].t = "CLOSE",
           \A i \in DOMAIN out : out[i].t = "DATA" => Speaks(x, k, id),
           \/ z.chans = Without(x.chans, id)
           \/ \E d : /\ z.chans = With(x.chans, id, d) /\ d.ch = x.chans[id].ch
                     /\ \A i \in DOMAIN out : out[i].t # "CLOSE"
                     /\ \A i \in DOMAIN out : out[i].t = "EOF" =>
                           id \in DOMAIN k2 /\ k2[id].eof /\ ~Kept(d)
                     /\ d.peof => x.chans[id].peof
                     /\ Speaks(x, k, id) \/ ~Kept(d)
    PROVE  Uttering(x, k, z, out, k2, id)
<1>1. CASE z.chans = Without(x.chans, id)
  <2>1. /\ DOMAIN z.chans = DOMAIN x.chans \ {id}
        /\ \A i \in DOMAIN x.chans : i # id => z.chans[i] = x.chans[i]
    BY <1>1 DEF Without
  <2> QED  BY <2>1 DEF Uttering
<1>2. ASSUME NEW d, z.chans = With(x.chans, id, d), d.ch = x.chans[id].ch,
             \A i \in DOMAIN out : out[i].t # "CLOSE",
             \A i \in DOMAIN out : out[i].t = "EOF" =>
                 id \in DOMAIN k2 /\ k2[id].eof /\ ~Kept(d),
             d.peof => x.chans[id].peof,
             Speaks(x, k, id) \/ ~Kept(d)
      PROVE  Uttering(x, k, z, out, k2, id)
  <2>1. /\ DOMAIN z.chans = DOMAIN x.chans \cup {id} /\ z.chans[id] = d
        /\ \A i \in DOMAIN x.chans : i # id => z.chans[i] = x.chans[i]
    BY <1>2 DEF With
  <2> QED  BY <1>2, <2>1 DEF Uttering
<1> QED  BY <1>1, <1>2

\* One message on a channel.
LEMMA SaysOne ==
    ASSUME NEW x \in Session, NEW id \in DOMAIN x.chans, NEW t \in Saying, NEW out,
           out = <<On(x, id, t)>>
    PROVE  /\ \A i \in DOMAIN out : out[i].t = t /\ out[i].ch = x.chans[id].ch
           /\ \A i, j \in DOMAIN out : ~Before(i, j)
<1>1. On(x, id, t).t = t /\ On(x, id, t).ch = x.chans[id].ch
  BY DEF On
<1>2. DOMAIN out = {1} /\ out[1] = On(x, id, t)
  OBVIOUS
<1>3. ~Before(1, 1)
  BY DEF Before
<1> QED  BY <1>1, <1>2, <1>3

LEMMA FlushedOrder ==
    ASSUME NEW x \in Session, NEW id \in DOMAIN x.chans, NEW out, NEW n \in Nat,
           NEW eof \in BOOLEAN, NEW rest \in {0, 1}, Flushed(out, x, id, n, eof, rest),
           rest = 1 => out[Len(out)] = On(x, id, "CLOSE")
    PROVE  /\ \A i \in DOMAIN out : out[i].t \in Saying /\ out[i].ch = x.chans[id].ch
           /\ \A i, j \in DOMAIN out : Before(i, j) /\ Ending(out[i]) => out[j].t = "CLOSE"
           /\ n = 0 => \A i \in DOMAIN out : out[i].t # "DATA"
           /\ rest = 0 => \A i \in DOMAIN out : out[i].t # "CLOSE"
           /\ ~eof => \A i \in DOMAIN out : out[i].t # "EOF"
<1>1. \A t : On(x, id, t).t = t /\ On(x, id, t).ch = x.chans[id].ch
  BY DEF On
<1>2. /\ Len(out) = n + (IF eof THEN 1 ELSE 0) + rest /\ DOMAIN out = 1 .. Len(out)
      /\ Len(out) \in Nat
  BY DEF Flushed
<1>3. \A i \in DOMAIN out : \/ i <= n /\ out[i] = On(x, id, "DATA")
                            \/ eof /\ i = n + 1 /\ out[i] = On(x, id, "EOF")
                            \/ rest = 1 /\ i = Len(out) /\ out[i] = On(x, id, "CLOSE")
  BY <1>2 DEF Flushed
<1>4. \A i \in DOMAIN out : out[i].t \in Saying /\ out[i].ch = x.chans[id].ch
  BY <1>1, <1>3 DEF Saying
<1>5. /\ n = 0 => \A i \in DOMAIN out : out[i].t # "DATA"
      /\ rest = 0 => \A i \in DOMAIN out : out[i].t # "CLOSE"
      /\ ~eof => \A i \in DOMAIN out : out[i].t # "EOF"
  BY <1>1, <1>2, <1>3
<1>6. ASSUME NEW i \in DOMAIN out, NEW j \in DOMAIN out, Before(i, j), Ending(out[i])
      PROVE  out[j].t = "CLOSE"
  <2>1. i \in Nat /\ j \in Nat /\ i < j /\ j <= Len(out)
    BY <1>2, <1>6 DEF Before
  <2>2. out[i].t # "DATA"
    BY <1>6 DEF Ending
  <2>3. i > n
    BY <1>1, <1>2, <1>3, <2>2 DEF Flushed
  <2> QED  BY <1>1, <1>2, <1>3, <2>1, <2>3
<1> QED  BY <1>4, <1>5, <1>6

LEMMA TasksSame ==
    ASSUME NEW k \in Tasks, NotYet(k)
    PROVE  TasksOn(k, k)
BY DEF TasksOn

LEMMA TasksPut ==
    ASSUME NEW k \in Tasks, NotYet(k), NEW id, NEW e, NEW k2, k2 = With(k, id, e),
           id \in DOMAIN k /\ k[id].eof => e.eof,
           e.st \in {"wait", "quit"} => ~e.eof
    PROVE  TasksOn(k, k2)
<1>1. /\ DOMAIN k2 = DOMAIN k \cup {id} /\ k2[id] = e
      /\ \A i \in DOMAIN k : i # id => k2[i] = k[i]
  BY DEF With
<1> QED  BY <1>1 DEF TasksOn, NotYet

\* A session that has ended has no channel.
LEMMA HoldingNone ==
    ASSUME NEW x, NEW k, NEW z, NEW out, NEW k2, NoSaying(out), z.chans = <<>>
    PROVE  Holding(x, k, z, out, k2)
BY TablesEmpty DEF Holding

\* What a window granted does to the channel, for this purpose: n units of
\* data are sent, and the EOF that waits after the last of them.
LEMMA GrantCases ==
    ASSUME NEW x \in Session, NEW m \in Message, NEW z, NEW out, TookGrant(x, m, z, out),
           m.t = "ADJUST", m.to \in DOMAIN x.chans
    PROVE  LET c == x.chans[m.to]
           IN  \E n \in Nat, f \in BOOLEAN, o \in {0, 1} :
                  /\ Flushed(out, x, m.to, n, f, o)
                  /\ \/ /\ n < c.pend /\ ~f /\ o = 0
                        /\ \E d : /\ z.chans = With(x.chans, m.to, d) /\ d.ch = c.ch
                                  /\ d.pend = c.pend - n /\ d.peof = c.peof
                     \/ /\ n = c.pend /\ f = c.peof /\ o = 0
                        /\ \E d : /\ z.chans = With(x.chans, m.to, d) /\ d.ch = c.ch
                                  /\ d.pend = 0 /\ d.peof = c.peof
                     \/ /\ n = c.pend /\ f = c.peof /\ o = 1
                        /\ z.chans = Without(x.chans, m.to)
                        /\ out[Len(out)] = On(x, m.to, "CLOSE")
<1> DEFINE c == x.chans[m.to]
           win == c.win + m.n
           n == IF c.pend < win THEN c.pend ELSE win
           Part == /\ n < c.pend /\ Flushed(out, x, m.to, n, FALSE, 0)
                   /\ \E d : /\ Puts(x, z, m.to, d)
                             /\ Twin(c, d) /\ Ends(c, d) /\ Asks(c, d) /\ d.own = c.own
                             /\ d.pend = c.pend - n /\ d.win = win - n
           All == /\ n = c.pend /\ Flushed(out, x, m.to, n, c.peof, 0)
                  /\ \E d : /\ Puts(x, z, m.to, d)
                            /\ Twin(c, d) /\ Ends(c, d) /\ Asks(c, d) /\ d.own = c.own
                            /\ d.pend = 0 /\ d.win = win - n
           Shuts == /\ n = c.pend /\ Drops(x, z, m.to) /\ Flushed(out, x, m.to, n, c.peof, 1)
                    /\ out[Len(out)] = On(x, m.to, "CLOSE")
<1>1. Part \/ All \/ Shuts
  BY Zenon DEF TookGrant
<1>2. n \in Nat /\ c.peof \in BOOLEAN
  <2>1. m.n \in Nat
    BY DEF Message
  <2>2. c \in Param
    BY SessionFacts, TableFacts
  <2>3. c.pend \in Nat /\ c.win \in Nat
    BY <2>2, ParamFacts
  <2>4. c.peof \in BOOLEAN
    BY <2>2, Zenon DEF Param
  <2> QED  BY <2>1, <2>3, <2>4
<1> HIDE DEF n
<1>3. CASE Part
  <2>1. PICK f : f = FALSE
    OBVIOUS
  <2>2. Flushed(out, x, m.to, n, f, 0) /\ f \in BOOLEAN /\ ~f
    BY <1>3, <2>1, Zenon
  <2>3. /\ n < c.pend
        /\ \E d : /\ z.chans = With(x.chans, m.to, d) /\ d.ch = c.ch
                  /\ d.pend = c.pend - n /\ d.peof = c.peof
    BY <1>3, Zenon DEF Puts, Twin, Ends
  <2> HIDE DEF c, win, Part, All, Shuts
  <2> QED  BY <1>2, <2>2, <2>3 DEF c
<1>4. CASE All
  <2>1. PICK f : f = c.peof
    OBVIOUS
  <2>2. Flushed(out, x, m.to, n, f, 0) /\ n = c.pend
    BY <1>4, <2>1
  <2>3. \E d : /\ z.chans = With(x.chans, m.to, d) /\ d.ch = c.ch
               /\ d.pend = 0 /\ d.peof = c.peof
    BY <1>4, Zenon DEF Puts, Twin, Ends
  <2> HIDE DEF c, win, Part, All, Shuts
  <2> QED  BY <1>2, <2>1, <2>2, <2>3 DEF c
<1>5. CASE Shuts
  <2>1. PICK f : f = c.peof
    OBVIOUS
  <2>2. /\ Flushed(out, x, m.to, n, f, 1) /\ n = c.pend
        /\ out[Len(out)] = On(x, m.to, "CLOSE") /\ z.chans = Without(x.chans, m.to)
    BY <1>5, <2>1 DEF Drops
  <2> HIDE DEF c, win, Part, All, Shuts
  <2> QED  BY <1>2, <2>1, <2>2 DEF c
<1> QED  BY <1>1, <1>3, <1>4, <1>5

LEMMA TookEnds ==
    ASSUME NEW x \in Session, NEW k \in Tasks, NEW m \in Message, NEW z, NEW out, NEW k2,
           Took("client", x, k, m, z, out, k2), EndWaits(x, k), NotYet(k),
           m.t \in Verdicts => Pends(x, k, m.to),
           x.last + 1 \notin DOMAIN x.chans, x.last + 1 \notin DOMAIN k
    PROVE  /\ TasksOn(k, k2)
           /\ \/ Holding(x, k, z, out, k2)
              \/ \E id : Uttering(x, k, z, out, k2, id)
              \/ m.t = "OPEN" /\ Adding(x, z, out, m.ch)
<1>0. out = <<>> => NoSaying(out)
  BY NoMessage DEF NoSaying
<1>a. TasksOn(k, k)
  BY TasksSame
<1>b. \A st : Task(st).st = st /\ ~Task(st).eof
  BY DEF Task
<1>1. CASE m.t = "OPEN" /\ TookOpen("client", x, k, m, z, out, k2)
  <2>1. NoSaying(out)
    <3>1. \/ out = <<[t |-> "CONFIRM", to |-> m.from, ch |-> m.ch, from |-> x.last + 1]>>
          \/ out = <<[t |-> "FAILURE", to |-> m.from, ch |-> m.ch]>>
      BY <1>1 DEF TookOpen
    <3>2. \A i \in DOMAIN out : out[i].t \in {"CONFIRM", "FAILURE"}
      BY <3>1
    <3> QED  BY <3>2 DEF NoSaying, Saying
  <2>2. \/ z.chans = x.chans /\ k2 = k
        \/ /\ z.chans = With(x.chans, x.last + 1, Params(m.ch, m.from, Window))
           /\ k2 = With(k, x.last + 1, Task("held"))
    BY <1>1 DEF TookOpen, Shift
  <2>3. CASE z.chans = x.chans /\ k2 = k
    BY <1>a, <2>1, <2>3, HoldingSame
  <2>4. CASE /\ z.chans = With(x.chans, x.last + 1, Params(m.ch, m.from, Window))
             /\ k2 = With(k, x.last + 1, Task("held"))
    <3>1. PICK id, d, e : /\ id = x.last + 1 /\ d = Params(m.ch, m.from, Window)
                          /\ e = Task("held")
      OBVIOUS
    <3>2. d.ch = m.ch /\ ~d.peof /\ ~Kept(d)
      BY <3>1 DEF Params, Kept
    <3>3. Adding(x, z, out, m.ch)
      BY <2>1, <2>4, <3>1, <3>2 DEF Adding
    <3>4. TasksOn(k, k2)
      BY <1>b, <2>4, <3>1, TasksPut
    <3> QED  BY <1>1, <3>3, <3>4
  <2> QED  BY <2>2, <2>3, <2>4
<1>2. CASE m.t = "CONFIRM" /\ TookConfirm(x, k, m, z, out, k2)
  <2>1. /\ m.to \in DOMAIN x.chans /\ m.to \in DOMAIN k /\ ~k[m.to].eof
    BY <1>2 DEF Pends, Verdicts, NotYet
  <2>2. TasksOn(k, k2)
    <3>1. k2 = k \/ k2 = With(k, m.to, Task("held"))
      BY <1>2 DEF TookConfirm
    <3>2. PICK e : e = Task("held")
      OBVIOUS
    <3> QED  BY <1>a, <1>b, <2>1, <3>1, <3>2, TasksPut
  <2>3. PICK d : /\ z.chans = With(x.chans, m.to, d) /\ d.ch = x.chans[m.to].ch
                 /\ d.pend = x.chans[m.to].pend /\ d.peof = x.chans[m.to].peof
    BY <1>2, <2>1 DEF TookConfirm, Puts, Ends
  <2>4. Kept(d) <=> Kept(x.chans[m.to])
    BY <2>3 DEF Kept
  <2>5. NoSaying(out)
    BY <1>0, <1>2 DEF TookConfirm
  <2>6. Holding(x, k, z, out, k2)
    BY <2>1, <2>3, <2>4, <2>5, HoldingPut
  <2> QED  BY <2>2, <2>6
<1>3. CASE m.t = "FAILURE" /\ TookFailure("client", x, k, m, z, out, k2)
  <2>1. m.to \in DOMAIN k /\ ~k[m.to].eof
    BY <1>3 DEF Pends, Verdicts, NotYet
  <2>2. TasksOn(k, k2)
    <3>1. k2 = k \/ k2 = With(k, m.to, Task("refused"))
      BY <1>3 DEF TookFailure
    <3>2. PICK e : e = Task("refused")
      OBVIOUS
    <3> QED  BY <1>a, <1>b, <2>1, <3>1, <3>2, TasksPut
  <2>3. z.chans = Without(x.chans, m.to) /\ NoSaying(out)
    BY <1>0, <1>3 DEF TookFailure, Shift
  <2>4. Holding(x, k, z, out, k2)
    BY <2>3, HoldingDrop
  <2> QED  BY <2>2, <2>4
<1>4. CASE m.t = "CLOSE" /\ TookClose("client", x, m, z, out) /\ k2 = k
  <2>1. CASE m.to \notin DOMAIN x.chans
    <3>1. z.chans = x.chans /\ NoSaying(out)
      BY <1>0, <1>4, <2>1 DEF TookClose, Shift
    <3> QED  BY <1>4, <1>a, <3>1, HoldingSame
  <2>2. CASE m.to \in DOMAIN x.chans /\ x.chans[m.to].pend > 0
    <3>1. PICK d : /\ z.chans = With(x.chans, m.to, d) /\ d.ch = x.chans[m.to].ch
                   /\ d.pend = x.chans[m.to].pend /\ d.peof = x.chans[m.to].peof
      BY <1>4, <2>2 DEF TookClose, Shift, Twin, Flow
    <3>2. Kept(d) <=> Kept(x.chans[m.to])
      BY <3>1 DEF Kept
    <3>3. NoSaying(out)
      BY <1>0, <1>4, <2>2 DEF TookClose
    <3>4. Holding(x, k, z, out, k2)
      BY <2>2, <3>1, <3>2, <3>3, HoldingPut
    <3> QED  BY <1>4, <1>a, <3>4
  <2>3. CASE m.to \in DOMAIN x.chans /\ ~(x.chans[m.to].pend > 0)
    <3>1. z.chans = Without(x.chans, m.to) /\ out = <<On(x, m.to, "CLOSE")>>
      BY <1>4, <2>3 DEF TookClose, Shift
    <3>2. "CLOSE" \in Saying
      BY DEF Saying
    <3>3. /\ \A i \in DOMAIN out : out[i].t = "CLOSE" /\ out[i].ch = x.chans[m.to].ch
          /\ \A i, j \in DOMAIN out : ~Before(i, j)
      BY <2>3, <3>1, <3>2, SaysOne
    <3>4. Uttering(x, k, z, out, k2, m.to)
      BY <2>3, <3>1, <3>2, <3>3, Uttered
    <3> QED  BY <1>4, <1>a, <3>4
  <2> QED  BY <2>1, <2>2, <2>3
<1>5. CASE m.t = "DATA" /\ TookData(x, m, z, out) /\ k2 = k
  <2>1. NoSaying(out)
    <3>1. out = <<>> \/ \E j : out = <<OnWith(x, m.to, "ADJUST", j)>>
      BY <1>5 DEF TookData
    <3>2. \A i \in DOMAIN out : out[i].t = "ADJUST"
      BY <3>1 DEF OnWith
    <3> QED  BY <3>2 DEF NoSaying, Saying
  <2>2. CASE m.to \notin DOMAIN x.chans
    <3>1. z = x
      BY <1>5, <2>2 DEF TookData
    <3> QED  BY <1>5, <1>a, <2>1, <3>1, HoldingSame
  <2>3. CASE m.to \in DOMAIN x.chans
    <3>1. PICK d : /\ z.chans = With(x.chans, m.to, d) /\ d.ch = x.chans[m.to].ch
                   /\ d.pend = x.chans[m.to].pend /\ d.peof = x.chans[m.to].peof
      BY <1>5, <2>3 DEF TookData, Puts, Twin, Ends
    <3>2. Kept(d) <=> Kept(x.chans[m.to])
      BY <3>1 DEF Kept
    <3>3. Holding(x, k, z, out, k2)
      BY <2>1, <2>3, <3>1, <3>2, HoldingPut
    <3> QED  BY <1>5, <1>a, <3>3
  <2> QED  BY <2>2, <2>3
<1>6. CASE m.t = "ADJUST" /\ TookGrant(x, m, z, out) /\ k2 = k
  <2>1. CASE m.to \notin DOMAIN x.chans
    <3>1. z.chans = <<>> /\ NoSaying(out)
      BY <1>0, <1>6, <2>1 DEF TookGrant, Stops
    <3> QED  BY <1>6, <1>a, <3>1, HoldingNone
  <2>2. CASE m.to \in DOMAIN x.chans
    <3>1. PICK c : c = x.chans[m.to]
      OBVIOUS
    <3>2. PICK n \in Nat, f \in BOOLEAN, o \in {0, 1} :
                  /\ Flushed(out, x, m.to, n, f, o)
                  /\ \/ /\ n < c.pend /\ ~f /\ o = 0
                        /\ \E d : /\ z.chans = With(x.chans, m.to, d) /\ d.ch = c.ch
                                  /\ d.pend = c.pend - n /\ d.peof = c.peof
                     \/ /\ n = c.pend /\ f = c.peof /\ o = 0
                        /\ \E d : /\ z.chans = With(x.chans, m.to, d) /\ d.ch = c.ch
                                  /\ d.pend = 0 /\ d.peof = c.peof
                     \/ /\ n = c.pend /\ f = c.peof /\ o = 1
                        /\ z.chans = Without(x.chans, m.to)
                        /\ out[Len(out)] = On(x, m.to, "CLOSE")
      BY <1>6, <2>2, <3>1, GrantCases
    <3>3. /\ \A i \in DOMAIN out : out[i].t \in Saying /\ out[i].ch = x.chans[m.to].ch
          /\ \A i, j \in DOMAIN out : Before(i, j) /\ Ending(out[i]) => out[j].t = "CLOSE"
          /\ n = 0 => \A i \in DOMAIN out : out[i].t # "DATA"
          /\ o = 0 => \A i \in DOMAIN out : out[i].t # "CLOSE"
          /\ ~f => \A i \in DOMAIN out : out[i].t # "EOF"
      <4>1. o = 1 => out[Len(out)] = On(x, m.to, "CLOSE")
        BY <3>2
      <4> QED  BY <2>2, <3>2, <4>1, FlushedOrder
    <3>4. c.pend \in Nat
      BY <2>2, <3>1, SessionFacts, TableFacts, ParamFacts
    <3>5. /\ c.peof => m.to \in DOMAIN k /\ k[m.to].eof
          /\ Kept(c) => Speaks(x, k, m.to)
      BY <2>2, <3>1 DEF EndWaits, Speaks
    <3>6. CASE /\ n < c.pend /\ ~f /\ o = 0
               /\ \E d : /\ z.chans = With(x.chans, m.to, d) /\ d.ch = c.ch
                         /\ d.pend = c.pend - n /\ d.peof = c.peof
      <4>1. PICK d : /\ z.chans = With(x.chans, m.to, d) /\ d.ch = c.ch
                     /\ d.pend = c.pend - n /\ d.peof = c.peof
        BY <3>6
      <4>2. Kept(c) /\ Kept(d)
        BY <3>2, <3>4, <3>6, <4>1 DEF Kept
      <4>3. Uttering(x, k, z, out, k2, m.to)
        BY <2>2, <3>1, <3>3, <3>5, <3>6, <4>1, <4>2, Uttered
      <4> QED  BY <1>6, <1>a, <4>3
    <3>7. CASE /\ n = c.pend /\ f = c.peof /\ o = 0
               /\ \E d : /\ z.chans = With(x.chans, m.to, d) /\ d.ch = c.ch
                         /\ d.pend = 0 /\ d.peof = c.peof
      <4>1. PICK d : /\ z.chans = With(x.chans, m.to, d) /\ d.ch = c.ch
                     /\ d.pend = 0 /\ d.peof = c.peof
        BY <3>7
      <4>2. ~Kept(d) /\ (n # 0 => Kept(c))
        BY <3>4, <3>7, <4>1 DEF Kept
      <4>3. /\ \A i \in DOMAIN out : out[i].t = "DATA" => Speaks(x, k, m.to)
            /\ \A i \in DOMAIN out : out[i].t = "EOF" => m.to \in DOMAIN k /\ k[m.to].eof
        BY <3>3, <3>5, <3>7, <4>2
      <4>4. Uttering(x, k, z, out, k2, m.to)
        BY <1>6, <2>2, <3>1, <3>3, <3>7, <4>1, <4>2, <4>3, Uttered
      <4> QED  BY <1>6, <1>a, <4>4
    <3>8. CASE /\ n = c.pend /\ f = c.peof /\ z.chans = Without(x.chans, m.to)
      <4>1. n # 0 => Kept(c)
        BY <3>4, <3>8 DEF Kept
      <4>2. \A i \in DOMAIN out : out[i].t = "DATA" => Speaks(x, k, m.to)
        BY <3>3, <3>5, <3>8, <4>1
      <4>3. Uttering(x, k, z, out, k2, m.to)
        BY <2>2, <3>3, <3>8, <4>2, Uttered
      <4> QED  BY <1>6, <1>a, <4>3
    <3> QED  BY <3>2, <3>6, <3>7, <3>8
  <2> QED  BY <2>1, <2>2
<1>7. CASE m.t = "ANSWER" /\ TookAnswer(x, k, m, z, out, k2)
  <2>1. z = x /\ NoSaying(out)
    BY <1>0, <1>7 DEF TookAnswer
  <2>2. TasksOn(k, k2)
    <3>1. CASE k2 = k
      BY <1>a, <3>1
    <3>2. CASE \E e : m.to \in DOMAIN k /\ k2 = With(k, m.to, e) /\ e.st = k[m.to].st /\ e.eof = k[m.to].eof
      BY <3>2, TasksPut DEF NotYet
    <3> QED  BY <1>7, <3>1, <3>2 DEF TookAnswer, Heard
  <2> QED  BY <2>1, <2>2, HoldingSame
<1>8. CASE m.t = "EOF" /\ z = x /\ out = <<>> /\ k2 = k
  BY <1>0, <1>8, <1>a, HoldingSame
<1>9. CASE m.t = "GLOBAL" /\ TookGlobal("client", x, m, z, out) /\ k2 = k
  <2>1. out = <<>> \/ out = <<[t |-> "RESULT", n |-> m.n]>>
    BY <1>9 DEF TookGlobal
  <2>2. \A i \in DOMAIN out : out[i].t = "RESULT"
    BY <2>1
  <2>3. NoSaying(out) /\ z.chans = x.chans
    BY <1>9, <2>2 DEF NoSaying, Saying, TookGlobal, Still, Shift
  <2> QED  BY <1>9, <1>a, <2>3, HoldingSame
<1>10. CASE m.t = "RESULT" /\ TookResult(x, z, out) /\ k2 = k
  BY <1>0, <1>10, <1>a, HoldingSame DEF TookResult, Queues
<1>11. CASE m.t = "DISCONNECT" /\ Stops(x, z, "disconnected") /\ out = <<>> /\ k2 = k
  BY <1>0, <1>11, <1>a, HoldingNone DEF Stops
<1> QED  BY <1>1, <1>2, <1>3, <1>4, <1>5, <1>6, <1>7, <1>8, <1>9, <1>10, <1>11 DEF Took

LEMMA TasksTell ==
    ASSUME NEW k \in Tasks, NotYet(k), NEW id \in DOMAIN k, NEW k2, NEW st, NEW eof, NEW asks,
           Tells(k, k2, id, st, eof, asks), k[id].eof => eof, st \in {"wait", "quit"} => ~eof
    PROVE  TasksOn(k, k2)
<1>1. PICK e : k2 = With(k, id, e) /\ e.st = st /\ e.eof = eof
  BY DEF Tells
<1> QED  BY <1>1, TasksPut

LEMMA DidEnds ==
    ASSUME NEW x \in Session, NEW k \in Tasks, NEW n, NEW z, NEW out, NEW k2,
           Did("client", x, k, n, z, out, k2), EndWaits(x, k), NotYet(k),
           x.last + 1 \notin DOMAIN x.chans, x.last + 1 \notin DOMAIN k
    PROVE  /\ TasksOn(k, k2)
           /\ \/ Holding(x, k, z, out, k2)
              \/ \E id : Uttering(x, k, z, out, k2, id)
              \/ DidOpen("client", x, k, n, z, out, k2) /\ Adding(x, z, out, <<"client", n>>)
<1>0. out = <<>> => NoSaying(out)
  BY NoMessage DEF NoSaying
<1>a. TasksOn(k, k)
  BY TasksSame
<1> DEFINE Goal == /\ TasksOn(k, k2)
                   /\ \/ Holding(x, k, z, out, k2)
                      \/ \E id : Uttering(x, k, z, out, k2, id)
<1>1. CASE DidOpen("client", x, k, n, z, out, k2)
  <2>1. NoSaying(out)
    <3>1. \A i \in DOMAIN out : out[i].t = "OPEN"
      BY <1>1 DEF DidOpen
    <3> QED  BY <3>1 DEF NoSaying, Saying
  <2>2. PICK id, d, e, ch : /\ id = x.last + 1 /\ d = Params(<<"client", n>>, 0, 0)
                            /\ e = Task("wait") /\ ch = <<"client", n>>
    OBVIOUS
  <2>3. d.ch = ch /\ ~d.peof /\ ~Kept(d) /\ e.st = "wait" /\ ~e.eof
    BY <2>2 DEF Params, Kept, Task
  <2>4. z.chans = With(x.chans, id, d) /\ k2 = With(k, id, e)
    BY <1>1, <2>2 DEF DidOpen, Shift
  <2>5. Adding(x, z, out, ch)
    BY <2>1, <2>2, <2>3, <2>4 DEF Adding
  <2>6. TasksOn(k, k2)
    BY <2>2, <2>3, <2>4, TasksPut
  <2> QED  BY <1>1, <2>2, <2>5, <2>6
<1>2. CASE DidGlobal("client", x, k, z, out, k2) \/ DidNoReply(x, k, z, out, k2)
  <2>1. \A i \in DOMAIN out : out[i].t = "GLOBAL"
    BY <1>2 DEF DidGlobal, DidNoReply
  <2>2. NoSaying(out) /\ z.chans = x.chans /\ k2 = k
    BY <1>2, <2>1 DEF NoSaying, Saying, DidGlobal, DidNoReply, Queues
  <2> QED  BY <1>a, <2>2, HoldingSame
<1>3. CASE /\ Stops(x, z, "left") \/ Stops(x, z, "eof")
           /\ out = <<[t |-> "DISCONNECT"]>> \/ out = <<>>
           /\ k2 = k
  <2>1. \A i \in DOMAIN out : out[i].t = "DISCONNECT"
    BY <1>3
  <2>2. NoSaying(out) /\ z.chans = <<>> /\ k2 = k
    BY <1>3, <2>1 DEF NoSaying, Saying, Stops
  <2> QED  BY <1>a, <2>2, HoldingNone
<1>4. ASSUME NEW id \in DOMAIN k, DidGiveUp(x, k, id, z, out, k2) PROVE Goal
  <2>1. /\ z = x /\ NoSaying(out) /\ ~k[id].eof
    BY <1>0, <1>4 DEF DidGiveUp, NotYet
  <2>2. TasksOn(k, k2)
    BY <1>4, <2>1, TasksTell DEF DidGiveUp
  <2> QED  BY <2>1, <2>2, HoldingSame
<1>5. ASSUME NEW id \in DOMAIN k, DidData(x, k, id, z, out, k2) PROVE Goal
  <2>1. k2 = k /\ ~k[id].eof /\ TasksOn(k, k2)
    BY <1>5, <1>a DEF DidData
  <2>2. CASE id \notin DOMAIN x.chans
    <3>1. z = x /\ NoSaying(out)
      BY <1>0, <1>5, <2>2 DEF DidData
    <3> QED  BY <2>1, <3>1, HoldingSame
  <2>3. CASE id \in DOMAIN x.chans
    <3>1. PICK d : Puts(x, z, id, d) /\ Sends(x, id, d, out)
      BY <1>5, <2>3 DEF DidData
    <3>2. /\ z.chans = With(x.chans, id, d) /\ d.ch = x.chans[id].ch
          /\ d.peof = x.chans[id].peof
      BY <3>1 DEF Puts, Sends, Twin, Ends
    <3>3. \A i \in DOMAIN out : out[i].t = "DATA" /\ out[i].ch = x.chans[id].ch
      BY <2>3, <3>1, SendsSays
    <3>4. "DATA" \in Saying /\ "DATA" \notin {"EOF", "CLOSE"}
      BY DEF Saying
    <3>5. \A i \in DOMAIN out : out[i].t \in Saying /\ ~Ending(out[i])
      BY <3>3, <3>4 DEF Ending
    <3>6. Speaks(x, k, id)
      BY <2>1 DEF Speaks
    <3>7. Uttering(x, k, z, out, k2, id)
      BY <2>3, <3>2, <3>3, <3>4, <3>5, <3>6, Uttered
    <3> QED  BY <2>1, <3>7
  <2> QED  BY <2>2, <2>3
<1>6. ASSUME NEW id \in DOMAIN k, DidEof("client", x, k, id, z, out, k2) PROVE Goal
  <2>1. ~k[id].eof /\ Tells(k, k2, id, "held", TRUE, k[id].asks)
    BY <1>6, Zenon DEF DidEof
  <2>2. PICK e : k2 = With(k, id, e) /\ e.st = "held" /\ e.eof
    BY <2>1, Zenon DEF Tells
  <2>3. TasksOn(k, k2) /\ id \in DOMAIN k2 /\ k2[id].eof
    <3>1. TasksOn(k, k2)
      BY <2>2, TasksPut
    <3>2. id \in DOMAIN k2 /\ k2[id] = e
      BY <2>2 DEF With
    <3> QED  BY <2>2, <3>1, <3>2
  <2>4. \/ id \notin DOMAIN x.chans /\ z = x /\ out = <<>>
        \/ /\ id \in DOMAIN x.chans /\ x.chans[id].pend > 0 /\ out = <<>>
           /\ \E d : LET c == x.chans[id]
                     IN  Puts(x, z, id, d) /\ Twin(c, d) /\ Flow(c, d)
        \/ /\ id \in DOMAIN x.chans /\ ~(x.chans[id].pend > 0)
           /\ z = x /\ out = <<On(x, id, "EOF")>>
    BY <1>6, Zenon DEF DidEof
  <2>5. CASE id \notin DOMAIN x.chans /\ z = x /\ out = <<>>
    BY <1>0, <2>3, <2>5, HoldingSame
  <2>6. CASE /\ id \in DOMAIN x.chans /\ x.chans[id].pend > 0 /\ out = <<>>
             /\ \E d : LET c == x.chans[id]
                       IN  Puts(x, z, id, d) /\ Twin(c, d) /\ Flow(c, d)
    <3>1. PICK d : /\ z.chans = With(x.chans, id, d) /\ d.ch = x.chans[id].ch
                   /\ d.pend = x.chans[id].pend
      BY <2>6 DEF Puts, Twin, Flow
    <3>2. Kept(d) /\ Kept(x.chans[id])
      BY <2>6, <3>1 DEF Kept
    <3>3. Holding(x, k, z, out, k2)
      BY <1>0, <2>3, <2>6, <3>1, <3>2, HoldingPut
    <3> QED  BY <2>3, <3>3
  <2>7. CASE /\ id \in DOMAIN x.chans /\ ~(x.chans[id].pend > 0)
             /\ z = x /\ out = <<On(x, id, "EOF")>>
    <3>1. PICK d : d = x.chans[id]
      OBVIOUS
    <3>2. ~Kept(d) /\ d.peof = x.chans[id].peof /\ d.ch = x.chans[id].ch
      BY <2>7, <3>1 DEF Kept
    <3>3. z.chans = With(x.chans, id, d)
      <4>1. x.chans = [i \in DOMAIN x.chans |-> x.chans[i]]
        BY SessionFacts, TableFacts
      <4>2. DOMAIN x.chans \cup {id} = DOMAIN x.chans
        BY <2>7
      <4> QED  BY <2>7, <3>1, <4>1, <4>2 DEF With
    <3>4. "EOF" \in Saying
      BY DEF Saying
    <3>5. /\ \A i \in DOMAIN out : out[i].t = "EOF" /\ out[i].ch = x.chans[id].ch
          /\ \A i, j \in DOMAIN out : ~Before(i, j)
      BY <2>7, <3>4, SaysOne
    <3>6. Speaks(x, k, id)
      BY <2>1 DEF Speaks
    <3>7. Uttering(x, k, z, out, k2, id)
      BY <2>3, <2>7, <3>2, <3>3, <3>4, <3>5, <3>6, Uttered
    <3> QED  BY <2>3, <3>7
  <2> QED  BY <2>4, <2>5, <2>6, <2>7
<1>7. ASSUME NEW id \in DOMAIN k, DidClose("client", x, k, id, z, out, k2) PROVE Goal
  <2>1. Tells(k, k2, id, "closed", k[id].eof, k[id].asks)
    BY <1>7 DEF DidClose
  <2>2. TasksOn(k, k2)
    BY <2>1, TasksTell
  <2>3. CASE id \notin DOMAIN x.chans
    <3>1. z.chans = x.chans /\ NoSaying(out)
      BY <1>0, <1>7, <2>3 DEF DidClose, Still, Shift
    <3> QED  BY <2>2, <3>1, HoldingSame
  <2>4. CASE id \in DOMAIN x.chans /\ x.chans[id].pend > 0
    <3>1. PICK d : /\ z.chans = With(x.chans, id, d) /\ d.ch = x.chans[id].ch
                   /\ d.pend = x.chans[id].pend /\ d.peof = x.chans[id].peof
      BY <1>7, <2>4 DEF DidClose, Puts, Twin, Flow
    <3>2. Kept(d) <=> Kept(x.chans[id])
      BY <3>1 DEF Kept
    <3>3. NoSaying(out)
      BY <1>0, <1>7, <2>4 DEF DidClose
    <3>4. Holding(x, k, z, out, k2)
      BY <2>4, <3>1, <3>2, <3>3, HoldingPut
    <3> QED  BY <2>2, <3>4
  <2>5. CASE id \in DOMAIN x.chans /\ ~(x.chans[id].pend > 0)
    <3>1. z.chans = Without(x.chans, id) /\ out = <<On(x, id, "CLOSE")>>
      BY <1>7, <2>5 DEF DidClose, Drops
    <3>2. "CLOSE" \in Saying
      BY DEF Saying
    <3>3. /\ \A i \in DOMAIN out : out[i].t = "CLOSE" /\ out[i].ch = x.chans[id].ch
          /\ \A i, j \in DOMAIN out : ~Before(i, j)
      BY <2>5, <3>1, <3>2, SaysOne
    <3>4. Uttering(x, k, z, out, k2, id)
      BY <2>5, <3>1, <3>2, <3>3, Uttered
    <3> QED  BY <2>2, <3>4
  <2> QED  BY <2>3, <2>4, <2>5
<1>8. ASSUME NEW id \in DOMAIN k, NEW wants \in BOOLEAN, NEW agent \in BOOLEAN,
             DidRequest(x, k, id, wants, agent, z, out, k2)
      PROVE  Goal
  <2>1. \A i \in DOMAIN out : out[i].t = "REQUEST"
    BY <1>8, NoMessage DEF DidRequest
  <2>2. z = x /\ NoSaying(out)
    BY <1>8, <2>1 DEF NoSaying, Saying, DidRequest
  <2>3. PICK asks : Tells(k, k2, id, "held", k[id].eof, asks)
    BY <1>8, Zenon DEF DidRequest
  <2>4. TasksOn(k, k2)
    BY <2>3, TasksTell
  <2> QED  BY <2>2, <2>4, HoldingSame
<1>9. "client" # "server"
  OBVIOUS
<1> HIDE DEF Goal
<1>10. \/ DidOpen("client", x, k, n, z, out, k2)
       \/ DidGlobal("client", x, k, z, out, k2) \/ DidNoReply(x, k, z, out, k2)
       \/ /\ Stops(x, z, "left") \/ Stops(x, z, "eof")
          /\ out = <<[t |-> "DISCONNECT"]>> \/ out = <<>>
          /\ k2 = k
       \/ Goal
  BY <1>4, <1>5, <1>6, <1>7, <1>8, <1>9, Zenon DEF Did
<1> QED  BY <1>1, <1>2, <1>3, <1>10 DEF Goal

-----------------------------------------------------------------------------
\* The invariant is kept.

\* Names: the one that is to be given next is new.
Onward(opens, opens2) == \A ch : Used(opens, ch) => Used(opens2, ch)

LEMMA UsedFacts ==
    ASSUME NEW opens \in [Sides -> Nat], NEW s \in Sides, NEW ch, ch = <<s, opens[s]>>,
           NEW opens2, opens[s] > 0, opens2 = [opens EXCEPT ![s] = @ - 1]
    PROVE  ~Used(opens, ch) /\ Used(opens2, ch) /\ Onward(opens, opens2)
<1>1. ch \in Names /\ ch[1] = s /\ ch[2] = opens[s]
  BY DEF Names
<1>2. opens[s] \in Nat /\ opens2[s] = opens[s] - 1 /\ \A u \in Sides : u # s => opens2[u] = opens[u]
  OBVIOUS
<1>3. ~Used(opens, ch) /\ Used(opens2, ch)
  BY <1>1, <1>2 DEF Used
<1>4. ASSUME NEW c \in Names, c[2] > opens[c[1]] PROVE c[2] > opens2[c[1]]
  <2>1. c[1] \in Sides /\ c[2] \in Nat
    BY DEF Names
  <2>2. CASE c[1] = s
    BY <1>2, <1>4, <2>1, <2>2
  <2>3. CASE c[1] # s
    BY <1>2, <1>4, <2>1, <2>3
  <2> QED  BY <2>2, <2>3
<1> QED  BY <1>3, <1>4 DEF Used, Onward

\* What is left of a wire.
Among(w, w2) == \A i \in DOMAIN w2 : \E j \in DOMAIN w : w[j] = w2[i]
Rest(w, w2) == w2 = w \/ (w # <<>> /\ w2 = Tail(w)) \/ w2 = <<>>

LEMMA RestKeeps ==
    ASSUME NEW w \in Seq(Message), NEW w2, Rest(w, w2)
    PROVE  /\ Among(w, w2)
           /\ OpensOnce(w) => OpensOnce(w2)
           /\ EndsLast(w) => EndsLast(w2)
<1>1. CASE w2 = w
  BY <1>1 DEF Among
<1>2. CASE w2 = <<>>
  <2>1. DOMAIN w2 = {}
    BY <1>2
  <2> QED  BY <2>1 DEF Among, OpensOnce, EndsLast
<1>3. CASE w # <<>> /\ w2 = Tail(w)
  <2>1. /\ \A i \in DOMAIN w2 : i + 1 \in DOMAIN w /\ w2[i] = w[i + 1]
        /\ DOMAIN w2 \subseteq Nat
    BY <1>3
  <2>2. \A i, j \in Nat : /\ Before(i, j) => Before(i + 1, j + 1)
                          /\ i + 1 = j + 1 => i = j
    BY DEF Before
  <2>3. PICK f : f = [i \in Nat |-> i + 1]
    OBVIOUS
  <2>4. /\ \A i \in DOMAIN w2 : i \in Nat /\ f[i] \in DOMAIN w /\ w2[i] = w[f[i]]
        /\ \A i, j \in Nat : (Before(i, j) => Before(f[i], f[j])) /\ (f[i] = f[j] => i = j)
    BY <2>1, <2>2, <2>3
  <2>5. Among(w, w2)
    BY <2>4 DEF Among
  <2>6. OpensOnce(w) => OpensOnce(w2)
    BY <2>4 DEF OpensOnce
  <2>7. EndsLast(w) => EndsLast(w2)
    BY <2>4 DEF EndsLast
  <2> QED  BY <2>5, <2>6, <2>7
<1> QED  BY <1>1, <1>2, <1>3 DEF Rest

\* The first name to open is not among the others.
LEMMA FirstOpen ==
    ASSUME NEW w \in Seq(Message), w # <<>>, Head(w).t = "OPEN", OpensOnce(w), NEW w2, w2 = Tail(w)
    PROVE  \A j \in DOMAIN w2 : w2[j].t = "OPEN" => w2[j].ch # Head(w).ch
<1>1. /\ \A i \in DOMAIN w2 : i + 1 \in DOMAIN w /\ w2[i] = w[i + 1] /\ i + 1 # 1
      /\ 1 \in DOMAIN w /\ Head(w) = w[1]
  OBVIOUS
<1> QED  BY <1>1 DEF OpensOnce

LEMMA AtOrder ==
    ASSUME NEW v \in Seq(Message), NEW out \in Seq(Message)
    PROVE  /\ \A i, j \in DOMAIN out : Before(At(v, i), At(v, j)) => Before(i, j)
           /\ \A i \in DOMAIN v, j \in DOMAIN out : ~Before(At(v, j), i)
BY DEF At, Before

\* The wire of the client after a step that says nothing on a channel.
LEMMA SilentEnds ==
    ASSUME NEW y, NEW v, NEW out, NEW v2,
           Longer(y, v, out, v2), NoSaying(out), EndsLast(v)
    PROVE  /\ EndsLast(v2)
           /\ \A i \in DOMAIN v2 : Ending(v2[i]) => i \in DOMAIN v /\ v2[i] = v[i]
<1>1. \A i \in DOMAIN v2 : v2[i].t \in Saying => i \in DOMAIN v /\ v2[i] = v[i]
  BY DEF Longer, NoSaying
<1>2. /\ \A m, o : TooLate(m, o) => m.t \in Saying /\ o.t \in Saying
      /\ \A m : Ending(m) => m.t \in Saying
  BY DEF TooLate, Ending, Saying
<1> QED  BY <1>1, <1>2 DEF EndsLast

LEMMA HoldingKeeps ==
    ASSUME NEW x, NEW y, NEW k, NEW v \in Seq(Message), NEW w \in Seq(Message), NEW opens,
           EndParts(x, k, v, w, opens),
           NEW z, NEW out \in Seq(Message), NEW k2, NEW v2, NEW w2, NEW opens2,
           Longer(y, v, out, v2), Rest(w, w2), Onward(opens, opens2),
           TasksOn(k, k2), Holding(x, k, z, out, k2)
    PROVE  EndParts(z, k2, v2, w2, opens2)
<1>1. /\ NamedOnce(x) /\ EndSaid(x, k, v) /\ EndWaits(x, k) /\ NotYet(k)
      /\ EndsLast(v) /\ OpensOnce(w) /\ NewNames(x, v, w, opens)
  BY DEF EndParts
<1>2. Among(w, w2) /\ OpensOnce(w2)
  BY <1>1, RestKeeps
<1>3. /\ EndsLast(v2)
      /\ \A i \in DOMAIN v2 : Ending(v2[i]) => i \in DOMAIN v /\ v2[i] = v[i]
  <2>1. NoSaying(out)
    BY DEF Holding
  <2> QED  BY <1>1, <2>1, SilentEnds
<1>4. \A id \in DOMAIN z.chans : id \in DOMAIN x.chans /\ z.chans[id].ch = x.chans[id].ch
  BY DEF Holding
<1>5. NamedOnce(z)
  BY <1>1, <1>4 DEF NamedOnce
<1>6. NewNames(z, v2, w2, opens2)
  BY <1>1, <1>2, <1>3, <1>4 DEF NewNames, Among, Onward
<1>7. EndSaid(z, k2, v2)
  BY <1>1, <1>3, <1>4 DEF EndSaid, Holding, TasksOn
<1>8. EndWaits(z, k2)
  BY <1>1, <1>4 DEF EndWaits, Holding, TasksOn
<1> QED  BY <1>2, <1>3, <1>5, <1>6, <1>7, <1>8 DEF EndParts, TasksOn

LEMMA UtteringKeeps ==
    ASSUME NEW x, NEW y, NEW k, NEW v \in Seq(Message), NEW w \in Seq(Message), NEW opens,
           EndParts(x, k, v, w, opens),
           NEW z, NEW out \in Seq(Message), NEW k2, NEW v2, NEW w2, NEW opens2,
           Longer(y, v, out, v2), Rest(w, w2), Onward(opens, opens2),
           TasksOn(k, k2), NEW id, Uttering(x, k, z, out, k2, id)
    PROVE  EndParts(z, k2, v2, w2, opens2)
<1>1. /\ NamedOnce(x) /\ EndSaid(x, k, v) /\ EndWaits(x, k) /\ NotYet(k)
      /\ EndsLast(v) /\ OpensOnce(w) /\ NewNames(x, v, w, opens)
  BY DEF EndParts
<1>2. Among(w, w2) /\ OpensOnce(w2)
  BY <1>1, RestKeeps
<1>3. PICK c : c = x.chans[id]
  OBVIOUS
<1>4. /\ id \in DOMAIN x.chans
      /\ \A i \in DOMAIN out : out[i].t \in Saying /\ out[i].ch = c.ch
      /\ \A i, j \in DOMAIN out : Before(i, j) /\ Ending(out[i]) => out[j].t = "CLOSE"
      /\ \A i \in DOMAIN out : out[i].t = "DATA" => Speaks(x, k, id)
  BY <1>3 DEF Uttering
<1>5. /\ Speaks(x, k, id) => \A i \in DOMAIN v : Ending(v[i]) => v[i].ch # c.ch
      /\ \A i \in DOMAIN v : v[i].t = "CLOSE" => v[i].ch # c.ch
  BY <1>1, <1>3, <1>4 DEF EndSaid, Speaks, Ending
<1>6. \A j \in DOMAIN z.chans :
          /\ j \in DOMAIN x.chans /\ z.chans[j].ch = x.chans[j].ch
          /\ j # id => z.chans[j] = x.chans[j] /\ x.chans[j].ch # c.ch
  BY <1>1, <1>3, <1>4 DEF Uttering, NamedOnce
<1>7. \A i \in DOMAIN v2 : \/ i \in DOMAIN v /\ v2[i] = v[i]
                           \/ \E j \in DOMAIN out : i = At(v, j) /\ v2[i] = out[j]
  BY DEF Longer
<1>8. EndsLast(v2)
  <2>1. SUFFICES ASSUME NEW i \in DOMAIN v2, NEW j \in DOMAIN v2, Before(i, j),
                        TooLate(v2[i], v2[j]), v2[i].ch = v2[j].ch
                 PROVE  FALSE
    BY DEF EndsLast
  <2>2. CASE i \in DOMAIN v /\ v2[i] = v[i] /\ j \in DOMAIN v /\ v2[j] = v[j]
    BY <1>1, <2>1, <2>2 DEF EndsLast
  <2>3. ASSUME NEW b \in DOMAIN out, j = At(v, b), v2[j] = out[b] PROVE FALSE
    <3>1. out[b].t # "CLOSE" /\ v2[j].ch = c.ch /\ Ending(v2[i])
      BY <1>4, <2>1, <2>3 DEF TooLate, Ending
    <3>2. CASE i \in DOMAIN v /\ v2[i] = v[i]
      BY <1>4, <1>5, <2>1, <2>3, <3>1, <3>2 DEF TooLate
    <3>3. ASSUME NEW a \in DOMAIN out, i = At(v, a), v2[i] = out[a] PROVE FALSE
      BY <1>4, <2>1, <2>3, <3>1, <3>3, AtOrder
    <3> QED  BY <1>7, <3>2, <3>3
  <2>4. ASSUME NEW a \in DOMAIN out, i = At(v, a), j \in DOMAIN v PROVE FALSE
    BY <2>1, <2>4, AtOrder
  <2> QED  BY <1>7, <2>2, <2>3, <2>4
<1>9. NamedOnce(z)
  BY <1>1, <1>6 DEF NamedOnce
<1>10. \A i \in DOMAIN v2 : Ending(v2[i]) => \/ \E j \in DOMAIN v : v2[i] = v[j]
                                             \/ v2[i].ch = c.ch
  BY <1>4, <1>7
<1>11. NewNames(z, v2, w2, opens2)
  BY <1>1, <1>2, <1>3, <1>4, <1>6, <1>10 DEF NewNames, Among, Onward
<1>12. EndSaid(z, k2, v2)
  <2>1. SUFFICES ASSUME NEW j \in DOMAIN z.chans, NEW i \in DOMAIN v2, Ending(v2[i]),
                        v2[i].ch = z.chans[j].ch
                 PROVE  /\ v2[i].t = "EOF" /\ j \in DOMAIN k2 /\ k2[j].eof
                        /\ ~Kept(z.chans[j])
    BY DEF EndSaid
  <2>2. CASE j # id
    <3>1. z.chans[j] = x.chans[j] /\ v2[i].ch # c.ch /\ j \in DOMAIN x.chans
      BY <1>6, <2>1, <2>2
    <3>2. i \in DOMAIN v /\ v2[i] = v[i]
      BY <1>4, <1>7, <3>1
    <3> QED  BY <1>1, <2>1, <3>1, <3>2 DEF EndSaid, TasksOn
  <2>3. CASE j = id
    <3>1. CASE i \in DOMAIN v /\ v2[i] = v[i]
      <4>1. v[i].t = "EOF" /\ id \in DOMAIN k /\ k[id].eof
        BY <1>1, <1>4, <1>6, <2>1, <2>3, <3>1 DEF EndSaid
      <4>2. ~Speaks(x, k, id)
        BY <1>3, <1>5, <1>6, <2>1, <2>3, <3>1
      <4> QED  BY <2>1, <2>3, <3>1, <4>1, <4>2 DEF Uttering, TasksOn
    <3>2. ASSUME NEW a \in DOMAIN out, v2[i] = out[a]
          PROVE  /\ v2[i].t = "EOF" /\ j \in DOMAIN k2 /\ k2[j].eof
                 /\ ~Kept(z.chans[j])
      BY <2>1, <2>3, <3>2 DEF Uttering, Ending
    <3> QED  BY <1>7, <3>1, <3>2
  <2> QED  BY <2>2, <2>3
<1>13. EndWaits(z, k2)
  BY <1>1, <1>6 DEF EndWaits, Uttering, TasksOn
<1> QED  BY <1>2, <1>8, <1>9, <1>11, <1>12, <1>13 DEF EndParts, TasksOn

LEMMA AddingKeeps ==
    ASSUME NEW x, NEW y, NEW k, NEW v \in Seq(Message), NEW w \in Seq(Message), NEW opens,
           EndParts(x, k, v, w, opens),
           NEW z, NEW out \in Seq(Message), NEW k2, NEW v2, NEW w2, NEW opens2,
           Longer(y, v, out, v2), Rest(w, w2), Onward(opens, opens2),
           TasksOn(k, k2), NEW ch, Adding(x, z, out, ch), Used(opens2, ch),
           \A id \in DOMAIN x.chans : x.chans[id].ch # ch,
           \A i \in DOMAIN v : Ending(v[i]) => v[i].ch # ch,
           \A j \in DOMAIN w2 : w2[j].t = "OPEN" => w2[j].ch # ch
    PROVE  EndParts(z, k2, v2, w2, opens2)
<1>1. /\ NamedOnce(x) /\ EndSaid(x, k, v) /\ EndWaits(x, k) /\ NotYet(k)
      /\ EndsLast(v) /\ OpensOnce(w) /\ NewNames(x, v, w, opens)
  BY DEF EndParts
<1>2. Among(w, w2) /\ OpensOnce(w2)
  BY <1>1, RestKeeps
<1>3. /\ EndsLast(v2)
      /\ \A i \in DOMAIN v2 : Ending(v2[i]) => i \in DOMAIN v /\ v2[i] = v[i]
  <2>1. NoSaying(out)
    BY DEF Adding
  <2> QED  BY <1>1, <2>1, SilentEnds
<1>4. PICK id, d : /\ id \notin DOMAIN x.chans /\ z.chans = With(x.chans, id, d)
                   /\ d.ch = ch /\ ~d.peof /\ ~Kept(d)
  BY DEF Adding
<1>5. /\ DOMAIN z.chans = DOMAIN x.chans \cup {id} /\ z.chans[id] = d
      /\ \A i \in DOMAIN x.chans : z.chans[i] = x.chans[i]
  BY <1>4 DEF With
<1>6. \A i \in DOMAIN z.chans : \/ i = id /\ z.chans[i] = d
                                \/ i \in DOMAIN x.chans /\ z.chans[i] = x.chans[i]
  BY <1>5
<1>7. NamedOnce(z)
  BY <1>1, <1>4, <1>6 DEF NamedOnce
<1>8. NewNames(z, v2, w2, opens2)
  BY <1>1, <1>2, <1>3, <1>4, <1>6 DEF NewNames, Among, Onward
<1>9. EndSaid(z, k2, v2)
  BY <1>1, <1>3, <1>4, <1>6 DEF EndSaid, TasksOn
<1>10. EndWaits(z, k2)
  BY <1>1, <1>4, <1>6 DEF EndWaits, TasksOn
<1> QED  BY <1>2, <1>3, <1>7, <1>8, <1>9, <1>10 DEF EndParts, TasksOn

\* A step of the server takes from what the client has written, and may open
\* a channel.
LEMMA ServerKeeps ==
    ASSUME NEW x, NEW k, NEW v \in Seq(Message), NEW w \in Seq(Message), NEW opens,
           EndParts(x, k, v, w, opens),
           NEW out \in Seq(Message), NEW v2, NEW w2, NEW opens2,
           Longer(x, w, out, w2), Rest(v, v2), Onward(opens, opens2),
           \/ \A i \in DOMAIN out : out[i].t # "OPEN"
           \/ \E ch : /\ ~Used(opens, ch) /\ Used(opens2, ch)
                      /\ \A i \in DOMAIN out : i = 1 /\ out[i].ch = ch
    PROVE  EndParts(x, k, v2, w2, opens2)
<1>1. /\ NamedOnce(x) /\ EndSaid(x, k, v) /\ EndWaits(x, k) /\ NotYet(k)
      /\ EndsLast(v) /\ OpensOnce(w) /\ NewNames(x, v, w, opens)
  BY DEF EndParts
<1>2. Among(v, v2) /\ EndsLast(v2)
  BY <1>1, RestKeeps
<1>3. EndSaid(x, k, v2)
  BY <1>1, <1>2 DEF EndSaid, Among
<1>4. \A i \in DOMAIN w2 : \/ i \in DOMAIN w /\ w2[i] = w[i]
                           \/ \E j \in DOMAIN out : i = At(w, j) /\ w2[i] = out[j]
  BY DEF Longer
<1>5. CASE \A i \in DOMAIN out : out[i].t # "OPEN"
  <2>1. \A i \in DOMAIN w2 : w2[i].t = "OPEN" => i \in DOMAIN w /\ w2[i] = w[i]
    BY <1>4, <1>5
  <2>2. OpensOnce(w2)
    BY <1>1, <2>1 DEF OpensOnce
  <2>3. NewNames(x, v2, w2, opens2)
    BY <1>1, <1>2, <2>1 DEF NewNames, Among, Onward
  <2> QED  BY <1>1, <1>2, <1>3, <2>2, <2>3 DEF EndParts
<1>6. ASSUME NEW ch, ~Used(opens, ch), Used(opens2, ch),
             \A i \in DOMAIN out : i = 1 /\ out[i].ch = ch
      PROVE  EndParts(x, k, v2, w2, opens2)
  <2>1. \A i \in DOMAIN w2 : \/ i \in DOMAIN w /\ w2[i] = w[i]
                             \/ i = At(w, 1) /\ w2[i].ch = ch
    BY <1>4, <1>6
  <2>2. OpensOnce(w2)
    BY <1>1, <1>6, <2>1 DEF OpensOnce, NewNames
  <2>3. NewNames(x, v2, w2, opens2)
    BY <1>1, <1>2, <1>6, <2>1 DEF NewNames, Among, Onward
  <2> QED  BY <1>1, <1>2, <1>3, <2>2, <2>3 DEF EndParts
<1> QED  BY <1>5, <1>6

\* A step of the client.
LEMMA ClientEnds ==
    ASSUME Typed, HandInv, EndInv, NEW z, NEW out, NEW k2, NEW w2,
           Steps("client", z, out, k2, w2)
    PROVE  EndInv'
<1> DEFINE x == ses["client"]
           y == ses["server"]
           k == task["client"]
           v == wire["client"]
           w == wire["server"]
           n == left.opens["client"]
           opens == left.opens
<1>1. "client" \in Sides /\ Peer("client") = "server"
  BY DEF Sides, Peer
<1>2. Both("client", "server", x, y, k, task["server"], v, w)
  BY <1>1, BothSides
<1>3. PICK v2, opens2 : v2 = wire'["client"] /\ opens2 = left'.opens
  OBVIOUS
<1>4. /\ ses'["client"] = z /\ task'["client"] = k2 /\ wire'["server"] = w2
      /\ Longer(y, v, out, v2)
  BY <1>1, <1>3, StepsAfter
<1>5. /\ x.end = "no" /\ out \in Seq(Message)
      /\ \/ /\ w # <<>> /\ Took("client", x, k, Head(w), z, out, k2) /\ opens2 = opens
            /\ w2 = IF z.end = "no" THEN Tail(w) ELSE <<>>
         \/ /\ Did("client", x, k, n, z, out, k2)
            /\ w2 = IF z.end = "no" THEN w ELSE <<>>
            /\ \/ opens2 = opens /\ z.last = x.last
               \/ n > 0 /\ opens2 = [opens EXCEPT !["client"] = @ - 1]
  BY <1>1, <1>3 DEF Steps, Proper
<1>6. EndParts(x, k, v, w, opens)
  BY DEF EndInv
<1>7. opens \in [Sides -> Nat]
  BY DEF Typed, Lefts
<1>8. /\ x \in Session /\ k \in Tasks /\ v \in Seq(Message) /\ w \in Seq(Message)
      /\ Numbered(x, y, k, v) /\ Handshake(x, y, k, v, w)
  BY <1>2 DEF Both, Hand
<1>9. PICK ch : ch = <<"client", n>>
  OBVIOUS
<1>10. n > 0 /\ opens2 = [opens EXCEPT !["client"] = @ - 1] =>
           ~Used(opens, ch) /\ Used(opens2, ch) /\ Onward(opens, opens2)
  BY <1>1, <1>7, <1>9, UsedFacts
<1>11. Onward(opens, opens2)
  BY <1>5, <1>10 DEF Onward
<1>12. Facts("client", "server", x, y, v, w)
  BY <1>2, BothFacts
<1> HIDE DEF x, y, k, v, w, n, opens
<1>13. Rest(w, w2)
  BY <1>5 DEF Rest
<1>14. x.last + 1 \notin DOMAIN x.chans /\ x.last + 1 \notin DOMAIN k
  BY <1>8, <1>12 DEF Numbered, Facts
<1>15. EndWaits(x, k) /\ NotYet(k) /\ NewNames(x, v, w, opens) /\ OpensOnce(w)
  BY <1>6 DEF EndParts
<1>16. EndParts(z, k2, v2, w2, opens2)
  <2>1. CASE /\ w # <<>> /\ Took("client", x, k, Head(w), z, out, k2) /\ opens2 = opens
             /\ w2 = IF z.end = "no" THEN Tail(w) ELSE <<>>
    <3>1. PICK m : m = Head(w)
      OBVIOUS
    <3>2. 1 \in DOMAIN w /\ m = w[1] /\ m \in Message
      BY <1>8, <2>1, <3>1, TailFacts
    <3>3. m.t \in Verdicts => Pends(x, k, m.to)
      BY <1>8, <3>2 DEF Handshake
    <3>4. /\ TasksOn(k, k2)
          /\ \/ Holding(x, k, z, out, k2)
             \/ \E id : Uttering(x, k, z, out, k2, id)
             \/ m.t = "OPEN" /\ Adding(x, z, out, m.ch)
      BY <1>8, <1>14, <1>15, <2>1, <3>1, <3>2, <3>3, TookEnds
    <3>5. CASE m.t = "OPEN" /\ Adding(x, z, out, m.ch)
      <4>1. w2 = Tail(w)
        <5>1. TookOpen("client", x, k, m, z, out, k2)
          BY <2>1, <3>1, <3>5 DEF Took
        <5>2. z.end = "no"
          BY <1>5, <5>1 DEF TookOpen, Shift
        <5> QED  BY <2>1, <5>2
      <4>2. \A j \in DOMAIN w2 : w2[j].t = "OPEN" => w2[j].ch # m.ch
        BY <1>8, <1>15, <2>1, <3>1, <3>5, <4>1, FirstOpen
      <4>3. /\ Used(opens2, m.ch)
            /\ \A id \in DOMAIN x.chans : x.chans[id].ch # m.ch
            /\ \A i \in DOMAIN v : Ending(v[i]) => v[i].ch # m.ch
        BY <1>15, <2>1, <3>2, <3>5 DEF NewNames
      <4> QED  BY <1>4, <1>5, <1>6, <1>8, <1>11, <1>13, <3>4, <3>5, <4>2, <4>3, AddingKeeps
    <3>6. CASE Holding(x, k, z, out, k2)
      BY <1>4, <1>5, <1>6, <1>8, <1>11, <1>13, <3>4, <3>6, HoldingKeeps
    <3>7. CASE \E id : Uttering(x, k, z, out, k2, id)
      BY <1>4, <1>5, <1>6, <1>8, <1>11, <1>13, <3>4, <3>7, UtteringKeeps
    <3> QED  BY <3>4, <3>5, <3>6, <3>7
  <2>2. CASE /\ Did("client", x, k, n, z, out, k2)
             /\ \/ opens2 = opens /\ z.last = x.last
                \/ n > 0 /\ opens2 = [opens EXCEPT !["client"] = @ - 1]
    <3>1. /\ TasksOn(k, k2)
          /\ \/ Holding(x, k, z, out, k2)
             \/ \E id : Uttering(x, k, z, out, k2, id)
             \/ DidOpen("client", x, k, n, z, out, k2) /\ Adding(x, z, out, ch)
      BY <1>8, <1>9, <1>14, <1>15, <2>2, DidEnds
    <3>2. CASE DidOpen("client", x, k, n, z, out, k2) /\ Adding(x, z, out, ch)
      <4>1. z.last # x.last
        <5>1. z.last = x.last + 1 /\ x.last \in Nat
          BY <1>8, <3>2, SessionFacts DEF DidOpen, Shift
        <5> QED  BY <5>1
      <4>2. ~Used(opens, ch) /\ Used(opens2, ch)
        BY <1>10, <2>2, <4>1
      <4>3. /\ \A id \in DOMAIN x.chans : x.chans[id].ch # ch
            /\ \A i \in DOMAIN v : Ending(v[i]) => v[i].ch # ch
            /\ \A j \in DOMAIN w2 : w2[j].t = "OPEN" => w2[j].ch # ch
        <5>1. Among(w, w2)
          BY <1>8, <1>13, RestKeeps
        <5> QED  BY <1>15, <4>2, <5>1 DEF NewNames, Among
      <4> QED  BY <1>4, <1>5, <1>6, <1>8, <1>11, <1>13, <3>1, <3>2, <4>2, <4>3, AddingKeeps
    <3>3. CASE Holding(x, k, z, out, k2)
      BY <1>4, <1>5, <1>6, <1>8, <1>11, <1>13, <3>1, <3>3, HoldingKeeps
    <3>4. CASE \E id : Uttering(x, k, z, out, k2, id)
      BY <1>4, <1>5, <1>6, <1>8, <1>11, <1>13, <3>1, <3>4, UtteringKeeps
    <3> QED  BY <3>1, <3>2, <3>3, <3>4
  <2> QED  BY <1>5, <2>1, <2>2
<1> QED  BY <1>3, <1>4, <1>16 DEF EndInv

\* A step of the server.
LEMMA ServerEnds ==
    ASSUME Typed, HandInv, EndInv, NEW z, NEW out, NEW k2, NEW v2,
           Steps("server", z, out, k2, v2)
    PROVE  EndInv'
<1> DEFINE x == ses["client"]
           y == ses["server"]
           v == wire["client"]
           w == wire["server"]
           n == left.opens["server"]
           opens == left.opens
<1>1. "server" \in Sides /\ "client" \in Sides /\ Peer("server") = "client"
  BY DEF Sides, Peer
<1>2. PICK w2, opens2 : w2 = wire'["server"] /\ opens2 = left'.opens
  OBVIOUS
<1>3. /\ ses'["client"] = x /\ task'["client"] = task["client"] /\ wire'["client"] = v2
      /\ Longer(x, w, out, w2)
  BY <1>1, <1>2, StepsAfter
<1>4. /\ y.end = "no" /\ out \in Seq(Message)
      /\ Moves("server", y, task["server"], n, v, z, out, k2, v2)
      /\ \/ /\ v # <<>> /\ Took("server", y, task["server"], Head(v), z, out, k2)
            /\ opens2 = opens
            /\ v2 = IF z.end = "no" THEN Tail(v) ELSE <<>>
         \/ /\ v2 = IF z.end = "no" THEN v ELSE <<>>
            /\ \/ opens2 = opens /\ z.last = y.last
               \/ n > 0 /\ opens2 = [opens EXCEPT !["server"] = @ - 1]
  BY <1>1, <1>2 DEF Steps, Proper
<1>5. EndParts(x, task["client"], v, w, opens)
  BY DEF EndInv
<1>6. /\ opens \in [Sides -> Nat] /\ y \in Session /\ task["server"] \in Tasks
      /\ v \in Seq(Message) /\ w \in Seq(Message)
  BY <1>1 DEF Typed, Lefts
<1>7. PICK ch : ch = <<"server", n>>
  OBVIOUS
<1>8. n > 0 /\ opens2 = [opens EXCEPT !["server"] = @ - 1] =>
          ~Used(opens, ch) /\ Used(opens2, ch) /\ Onward(opens, opens2)
  BY <1>1, <1>6, <1>7, UsedFacts
<1>9. Onward(opens, opens2)
  BY <1>4, <1>8 DEF Onward
<1>10. PICK k, l : k = task["client"] /\ l = task["server"]
  OBVIOUS
<1> HIDE DEF x, y, v, w, n, opens
<1>11. Rest(v, v2)
  BY <1>4 DEF Rest
<1>12. \/ \A i \in DOMAIN out : out[i].t # "OPEN"
       \/ /\ ~Used(opens, ch) /\ Used(opens2, ch)
          /\ \A i \in DOMAIN out : i = 1 /\ out[i].ch = ch
  <2>1. CASE v # <<>> /\ Took("server", y, l, Head(v), z, out, k2)
    <3>1. PICK m : m = Head(v)
      OBVIOUS
    <3>2. m \in Message
      BY <1>6, <2>1, <3>1, TailFacts
    <3>3. \A i \in DOMAIN out : Reply(m.t, out[i].t)
      BY <1>1, <1>4, <1>6, <1>10, <2>1, <3>1, <3>2, TookSays
    <3> QED  BY <3>3 DEF Reply
  <2>2. CASE \/ opens2 = opens /\ z.last = y.last
             \/ n > 0 /\ opens2 = [opens EXCEPT !["server"] = @ - 1]
    <3>1. CASE DidOpen("server", y, l, n, z, out, k2)
      <4>1. z.last = y.last + 1 /\ y.last \in Nat
        BY <1>6, <3>1, SessionFacts DEF DidOpen, Shift
      <4>2. z.last # y.last
        BY <4>1
      <4>3. \A i \in DOMAIN out : i = 1 /\ out[i].ch = ch
        BY <1>7, <3>1 DEF DidOpen
      <4> QED  BY <1>8, <2>2, <4>2, <4>3
    <3>2. CASE ~DidOpen("server", y, l, n, z, out, k2)
      <4>1. out = <<>> => DOMAIN out = {}
        BY NoMessage
      <4>2. "server" # "client"
        OBVIOUS
      <4>3. CASE Quiet("server", y, l, v, z, out, k2, v2)
        BY <4>3 DEF Quiet, Voice, Plain
      <4>4. CASE Accepts("server", y, l, v, z, out, k2, v2) \/ Declines("server", y, l, v, z, out, k2, v2)
        <5>1. \A i \in DOMAIN out : out[i].t \in {"CONFIRM", "FAILURE"}
          BY <4>4 DEF Accepts, Declines
        <5> QED  BY <5>1
      <4>5. CASE \/ Shut("server", y, l, v, z, out, k2, v2)
                 \/ Confirmed("server", y, l, v, z, out, k2, v2)
                 \/ Refused("server", y, l, v, z, out, k2, v2)
        BY <4>1, <4>5 DEF Shut, Confirmed, Refused
      <4>6. CASE Leaves("server", y, l, v, z, out, k2, v2)
        BY <4>6 DEF Leaves
      <4>7. ~Forgets("server", y, l, v, z, out, k2, v2)
        BY <4>2 DEF Forgets
      <4> QED  BY <1>4, <1>10, <3>2, <4>3, <4>4, <4>5, <4>6, <4>7 DEF Moves
    <3> QED  BY <3>1, <3>2
  <2> QED  BY <1>4, <1>10, <2>1, <2>2
<1>13. EndParts(x, k, v2, w2, opens2)
  BY <1>3, <1>4, <1>5, <1>6, <1>9, <1>10, <1>11, <1>12, ServerKeeps
<1> QED  BY <1>2, <1>3, <1>10, <1>13 DEF EndInv, x

\* What the client writes on a channel after its EOF is no data, and after
\* its CLOSE neither data nor EOF, for every window, every number of channels
\* and every length of what is written: an EOF waits for the data that
\* flush_pending has kept back, its task writes no data after it, the
\* EOF that is sent again at a later grant is sent only while the channel is
\* known, and the name of a channel that was closed is not used again.
THEOREM NothingAfterTheEnd == Spec => []EofLast
<1>1. Init => EndInv
  <2> SUFFICES ASSUME Init PROVE EndInv
    OBVIOUS
  <2>1. "server" \in Sides /\ "client" \in Sides
    BY DEF Sides
  <2>2. /\ ses["client"].chans = <<>> /\ task["client"] = <<>>
        /\ wire["client"] = <<>> /\ wire["server"] = <<>>
    BY <2>1 DEF Init
  <2>3. /\ DOMAIN ses["client"].chans = {} /\ DOMAIN task["client"] = {}
        /\ DOMAIN wire["client"] = {} /\ DOMAIN wire["server"] = {}
    BY <2>2, TablesEmpty
  <2> QED  BY <2>3 DEF EndInv, EndParts, NamedOnce, EndSaid, EndWaits, NotYet, EndsLast,
                       OpensOnce, NewNames
<1>2. Typed /\ HandInv /\ EndInv /\ [Next]_vars => EndInv'
  <2> SUFFICES ASSUME Typed, HandInv, EndInv, [Next]_vars PROVE EndInv'
    OBVIOUS
  <2>1. CASE UNCHANGED vars
    BY <2>1 DEF vars, EndInv
  <2>2. ASSUME NEW s \in Sides, NEW z, NEW out, NEW k2, NEW w2, Steps(s, z, out, k2, w2)
        PROVE  EndInv'
    <3>1. s = "client" \/ s = "server"
      BY DEF Sides
    <3> QED  BY <2>2, <3>1, ClientEnds, ServerEnds
  <2>3. ASSUME NEW s \in Sides, NEW id, NEW k2, Losing(s, id, k2) PROVE EndInv'
    <3>1. /\ task'[s] = k2 /\ task'[Peer(s)] = task[Peer(s)]
          /\ ses' = ses /\ wire' = wire /\ left' = left
      BY <2>3, LosingAfter
    <3>2. CASE s = "server"
      <4>1. Peer(s) = "client"
        BY <3>2 DEF Peer
      <4> QED  BY <3>1, <4>1 DEF EndInv
    <3>3. CASE s = "client"
      <4>1. PICK k : k = task["client"]
        OBVIOUS
      <4>2. /\ k \in Tasks /\ id \in DOMAIN k /\ NotYet(k)
            /\ Tells(k, k2, id, "lost", k[id].eof, k[id].asks)
        BY <2>3, <3>3, <4>1 DEF Losing, Typed, EndInv, EndParts
      <4>3. TasksOn(k, k2)
        BY <4>2, TasksTell
      <4>4. PICK x, v, w, opens : /\ x = ses["client"] /\ v = wire["client"]
                                  /\ w = wire["server"] /\ opens = left.opens
        OBVIOUS
      <4>5. EndParts(x, k, v, w, opens)
        BY <4>1, <4>4 DEF EndInv
      <4>6. EndParts(x, k2, v, w, opens)
        BY <4>3, <4>5 DEF EndParts, EndSaid, EndWaits, TasksOn
      <4> QED  BY <3>1, <3>3, <4>4, <4>6 DEF EndInv
    <3> QED  BY <3>2, <3>3 DEF Sides
  <2> QED  BY <2>1, <2>2, <2>3, NextMoves
<1>3. EndInv => EofLast
  BY DEF EndInv, EndParts, EndsLast, Before, TooLate, Ending, EofLast
<1> QED  BY <1>1, <1>2, <1>3, HandshakeHolds, PTL DEF Spec

-----------------------------------------------------------------------------
\* The requests of the client's tasks and their answers.

\* The numbers of a task's requests, and those that can still be answered.
Counted(asks, n) == n \in 1 .. asks
Due(k, id, n) ==
    /\ id \in DOMAIN k /\ Counted(k[id].asks, n)
    /\ \A a : Waited(k[id].answers, a) => Before(a, n)

LEMMA CountedFacts ==
    ASSUME NEW a \in Nat
    PROVE  /\ \A n : ~Counted(0, n)
           /\ \A n : Counted(a, n) => Counted(a + 1, n) /\ Before(n, a + 1)
           /\ Counted(a + 1, a + 1)
BY DEF Counted, Before

\* Answer n to task id would come behind all that are on the wire w.
Later(k, w, id, n) ==
    /\ Due(k, id, n)
    /\ \A j \in DOMAIN w : w[j].t = "ANSWER" /\ w[j].to = id => Before(w[j].n, n)

\* A request that wants an answer.
AsksFor(m) == m.t = "REQUEST" /\ m.wants

\* Channel q of the server is channel id of the client: the server knows it,
\* or is about to.
Belongs(y, v, q, id) ==
    \/ q \in DOMAIN y.chans /\ y.chans[q].peer = id
    \/ \E i \in DOMAIN v : v[i].t = "CONFIRM" /\ v[i].to = q /\ v[i].from = id

\* The invariant: x and y are the sessions of client and server, k the tasks
\* of the client, v what the client has written and w what the server has.
OwnAnswers(k) ==
    \A id \in DOMAIN k :
        /\ Ascending(k[id].answers)
        /\ \A n : Waited(k[id].answers, n) => Counted(k[id].asks, n)
        /\ k[id].st \in {"wait", "quit"} => k[id].asks = 0

BelongOnce(y, v) ==
    \A q, r, id : id # 0 /\ Belongs(y, v, q, id) /\ Belongs(y, v, r, id) => q = r

AnswersDue(k, w) ==
    /\ \A j \in DOMAIN w : w[j].t = "ANSWER" => Due(k, w[j].to, w[j].n)
    /\ \A i, j \in DOMAIN w :
          Before(i, j) /\ w[i].t = "ANSWER" /\ w[j].t = "ANSWER" /\ w[i].to = w[j].to
          => Before(w[i].n, w[j].n)

WantsDue(y, k, w) ==
    \A q \in DOMAIN y.chans :
        y.chans[q].wants => Later(k, w, y.chans[q].peer, y.chans[q].asked)

RequestsDue(y, k, v, w) ==
    \A i \in DOMAIN v : AsksFor(v[i]) =>
        \A id : id # 0 /\ Belongs(y, v, v[i].to, id) =>
            /\ Later(k, w, id, v[i].n)
            /\ v[i].to \in DOMAIN y.chans /\ y.chans[v[i].to].wants
               => Before(y.chans[v[i].to].asked, v[i].n)

RequestsClimb(v) ==
    \A i, j \in DOMAIN v :
        Before(i, j) /\ AsksFor(v[i]) /\ AsksFor(v[j]) /\ v[i].to = v[j].to
        => Before(v[i].n, v[j].n)

AskParts(y, k, v, w) ==
    /\ BelongOnce(y, v) /\ AnswersDue(k, w) /\ WantsDue(y, k, w)
    /\ RequestsDue(y, k, v, w) /\ RequestsClimb(v)
AskInv ==
    /\ OwnAnswers(task["client"])
    /\ Alive("client") =>
          AskParts(ses["server"], task["client"], wire["client"], wire["server"])

\* What becomes of the tasks: what was due still is.
DueOn(k, k2) == \A id, n : Due(k, id, n) => Due(k2, id, n)

LEMMA AsksSame ==
    ASSUME NEW k, OwnAnswers(k), NEW k2, k2 = k
    PROVE  OwnAnswers(k2) /\ DueOn(k, k2)
BY DEF DueOn

LEMMA AsksPut ==
    ASSUME NEW k, OwnAnswers(k), NEW id, NEW e, NEW k2, k2 = With(k, id, e),
           Ascending(e.answers),
           \A n : Waited(e.answers, n) => Counted(e.asks, n),
           e.st \in {"wait", "quit"} => e.asks = 0,
           id \in DOMAIN k =>
               /\ \A n : Counted(k[id].asks, n) => Counted(e.asks, n)
               /\ \A n, a : Counted(k[id].asks, n) /\ Waited(e.answers, a) =>
                     Waited(k[id].answers, a)
    PROVE  OwnAnswers(k2) /\ DueOn(k, k2)
<1>1. /\ DOMAIN k2 = DOMAIN k \cup {id} /\ k2[id] = e
      /\ \A i \in DOMAIN k : i # id => k2[i] = k[i]
  BY DEF With
<1>2. OwnAnswers(k2)
  BY <1>1 DEF OwnAnswers
<1>3. ASSUME NEW i, NEW n, Due(k, i, n) PROVE Due(k2, i, n)
  <2>1. CASE i = id
    BY <1>1, <1>3, <2>1 DEF Due
  <2>2. CASE i # id
    BY <1>1, <1>3, <2>2 DEF Due
  <2> QED  BY <2>1, <2>2
<1> QED  BY <1>2, <1>3 DEF DueOn

\* A new task, or one that has asked nothing.
LEMMA AsksFresh ==
    ASSUME NEW k, OwnAnswers(k), NEW id, NEW st, NEW k2, k2 = With(k, id, Task(st)),
           id \in DOMAIN k => k[id].asks = 0
    PROVE  OwnAnswers(k2) /\ DueOn(k, k2)
<1>1. PICK e : e = Task(st)
  OBVIOUS
<1>2. e.asks = 0 /\ e.answers = <<>>
  BY <1>1 DEF Task
<1>3. \A a : ~Waited(e.answers, a)
  BY <1>2 DEF Waited
<1>4. Ascending(e.answers)
  BY <1>2 DEF Ascending
<1>5. \A n : ~Counted(0, n)
  BY CountedFacts
<1> QED  BY <1>1, <1>2, <1>3, <1>4, <1>5, AsksPut

LEMMA AsksTell ==
    ASSUME NEW k \in Tasks, OwnAnswers(k), NEW id \in DOMAIN k, NEW k2, NEW st, NEW eof, NEW asks,
           Tells(k, k2, id, st, eof, asks),
           \/ asks = k[id].asks
           \/ asks = k[id].asks + 1 /\ st \notin {"wait", "quit"},
           st \in {"wait", "quit"} => k[id].st \in {"wait", "quit"}
    PROVE  OwnAnswers(k2) /\ DueOn(k, k2)
<1>1. PICK e : k2 = With(k, id, e) /\ e.st = st /\ e.asks = asks /\ e.answers = k[id].answers
  BY DEF Tells
<1>2. k[id].asks \in Nat
  BY TasksFacts, OneTaskFacts
<1>3. \A n : Counted(k[id].asks, n) => Counted(asks, n)
  BY <1>2, CountedFacts
<1>4. /\ Ascending(e.answers) /\ \A n : Waited(e.answers, n) => Counted(e.asks, n)
      /\ e.st \in {"wait", "quit"} => e.asks = 0
  BY <1>1, <1>3 DEF OwnAnswers
<1> QED  BY <1>1, <1>3, <1>4, AsksPut

\* The steps of the client, as this invariant sees them: nothing is asked, a
\* channel is accepted, a task asks, or a task hears an answer.
Placid(k, out, k2) ==
    /\ OwnAnswers(k2) /\ DueOn(k, k2)
    /\ \A i \in DOMAIN out : out[i].t # "CONFIRM" /\ ~AsksFor(out[i])

Accepting(x, k, m, out, k2) ==
    /\ m.t = "OPEN" /\ k2 = With(k, x.last + 1, Task("held"))
    /\ out = <<[t |-> "CONFIRM", to |-> m.from, ch |-> m.ch, from |-> x.last + 1]>>

Asking(x, k, out, k2, id) ==
    /\ id \in DOMAIN k /\ id \in DOMAIN x.chans /\ k[id].st = "held"
    /\ OwnAnswers(k2) /\ DueOn(k, k2) /\ Due(k2, id, k[id].asks + 1)
    /\ \A i \in DOMAIN out : /\ i = 1 /\ out[i].t = "REQUEST" /\ out[i].to = x.chans[id].peer
                             /\ out[i].n = k[id].asks + 1

Hearing(k, m, out, k2) ==
    /\ m.t = "ANSWER" /\ m.to \in DOMAIN k /\ DOMAIN out = {}
    /\ \E e \in OneTask : /\ k2 = With(k, m.to, e)
                          /\ e.st = k[m.to].st /\ e.asks = k[m.to].asks
                          /\ e.answers = Append(k[m.to].answers, m.n)

LEMMA TookAsks ==
    ASSUME NEW x \in Session, NEW k \in Tasks, NEW m \in Message, NEW z, NEW out, NEW k2,
           x.end = "no", OwnAnswers(k), m.t \in Verdicts => Pends(x, k, m.to),
           Took("client", x, k, m, z, out, k2)
    PROVE  Placid(k, out, k2) \/ Accepting(x, k, m, out, k2) \/ Hearing(k, m, out, k2)
<1>0. "client" \in Sides
  BY DEF Sides
<1>1. \A i \in DOMAIN out : Reply(m.t, out[i].t)
  BY <1>0, TookSays
<1>2. ASSUME m.t # "OPEN", NEW i \in DOMAIN out PROVE out[i].t # "CONFIRM" /\ ~AsksFor(out[i])
  BY <1>1, <1>2 DEF Reply, AsksFor
<1>3. ASSUME m.t # "OPEN", k2 = k PROVE Placid(k, out, k2)
  BY <1>2, <1>3, AsksSame DEF Placid
<1>4. CASE m.t = "OPEN" /\ TookOpen("client", x, k, m, z, out, k2)
  <2>1. CASE k2 = k /\ out = <<[t |-> "FAILURE", to |-> m.from, ch |-> m.ch]>>
    <3>1. \A i \in DOMAIN out : out[i].t # "CONFIRM" /\ ~AsksFor(out[i])
      BY <2>1 DEF AsksFor
    <3> QED  BY <2>1, <3>1, AsksSame DEF Placid
  <2> QED  BY <1>4, <2>1 DEF TookOpen, Accepting
<1>5. ASSUME m.t \in Verdicts, NEW st, k2 = With(k, m.to, Task(st)) PROVE Placid(k, out, k2)
  <2>1. k[m.to].asks = 0
    BY <1>5 DEF Pends, OwnAnswers
  <2>2. OwnAnswers(k2) /\ DueOn(k, k2)
    BY <1>5, <2>1, AsksFresh
  <2>3. m.t # "OPEN"
    BY <1>5 DEF Verdicts
  <2> QED  BY <1>2, <2>2, <2>3 DEF Placid
<1>6. CASE m.t = "CONFIRM" /\ TookConfirm(x, k, m, z, out, k2)
  <2>1. m.t \in Verdicts /\ m.t # "OPEN"
    BY <1>6 DEF Verdicts
  <2>2. k2 = k \/ k2 = With(k, m.to, Task("held"))
    BY <1>6 DEF TookConfirm
  <2> QED  BY <1>3, <1>5, <2>1, <2>2
<1>7. CASE m.t = "FAILURE" /\ TookFailure("client", x, k, m, z, out, k2)
  <2>1. m.t \in Verdicts /\ m.t # "OPEN"
    BY <1>7 DEF Verdicts
  <2>2. k2 = k \/ k2 = With(k, m.to, Task("refused"))
    BY <1>7 DEF TookFailure
  <2> QED  BY <1>3, <1>5, <2>1, <2>2
<1>8. CASE m.t = "ANSWER" /\ TookAnswer(x, k, m, z, out, k2)
  <2>1. CASE k2 = k
    BY <1>3, <1>8, <2>1
  <2>2. DOMAIN out = {}
    BY <1>8, NoMessage DEF TookAnswer
  <2> QED  BY <1>8, <2>1, <2>2 DEF TookAnswer, Hearing, Heard
<1>9. CASE m.t \notin {"OPEN", "CONFIRM", "FAILURE", "ANSWER"} /\ k2 = k
  BY <1>3, <1>9
<1> QED  BY <1>4, <1>6, <1>7, <1>8, <1>9 DEF Took

\* What a write says and leaves.
LEMMA DataSays ==
    ASSUME NEW x \in Session, NEW k, NEW id, NEW z, NEW out, NEW k2, DidData(x, k, id, z, out, k2)
    PROVE  /\ k2 = k /\ \A i \in DOMAIN out : out[i].t = "DATA"
           /\ \/ z.chans = x.chans
              \/ /\ id \in DOMAIN x.chans
                 /\ \E d : /\ z.chans = With(x.chans, id, d) /\ Asks(x.chans[id], d)
                           /\ d.peer = x.chans[id].peer
<1>1. CASE id \notin DOMAIN x.chans
  BY <1>1, NoMessage DEF DidData
<1>2. CASE id \in DOMAIN x.chans
  <2>1. PICK d : Puts(x, z, id, d) /\ Sends(x, id, d, out)
    BY <1>2 DEF DidData
  <2>2. \A i \in DOMAIN out : out[i].t = "DATA"
    BY <1>2, <2>1, SendsSays
  <2>3. /\ z.chans = With(x.chans, id, d) /\ Asks(x.chans[id], d)
        /\ d.peer = x.chans[id].peer
    BY <2>1 DEF Puts, Sends, Twin
  <2> QED  BY <1>2, <2>2, <2>3 DEF DidData
<1> QED  BY <1>1, <1>2

LEMMA DidAsks ==
    ASSUME NEW x \in Session, NEW k \in Tasks, NEW n, NEW z, NEW out, NEW k2,
           OwnAnswers(k), x.last + 1 \notin DOMAIN k,
           Did("client", x, k, n, z, out, k2)
    PROVE  Placid(k, out, k2) \/ \E id : Asking(x, k, out, k2, id)
<1>0. out = <<>> => DOMAIN out = {}
  BY NoMessage
<1>1. CASE DidOpen("client", x, k, n, z, out, k2)
  <2>1. OwnAnswers(k2) /\ DueOn(k, k2)
    BY <1>1, AsksFresh DEF DidOpen
  <2>2. \A i \in DOMAIN out : out[i].t = "OPEN"
    BY <1>1 DEF DidOpen
  <2> QED  BY <2>1, <2>2 DEF Placid, AsksFor
<1>2. ASSUME k2 = k, \A i \in DOMAIN out : out[i].t \in {"GLOBAL", "DISCONNECT", "DATA"}
      PROVE  Placid(k, out, k2)
  BY <1>2, AsksSame DEF Placid, AsksFor
<1>3. CASE DidGlobal("client", x, k, z, out, k2) \/ DidNoReply(x, k, z, out, k2)
  <2>1. k2 = k /\ \A i \in DOMAIN out : out[i].t = "GLOBAL"
    BY <1>3 DEF DidGlobal, DidNoReply
  <2> QED  BY <1>2, <2>1
<1>4. CASE k2 = k /\ (out = <<[t |-> "DISCONNECT"]>> \/ out = <<>>)
  <2>1. \A i \in DOMAIN out : out[i].t = "DISCONNECT"
    BY <1>0, <1>4
  <2> QED  BY <1>2, <1>4, <2>1
<1>5. ASSUME NEW id \in DOMAIN k, NEW st, NEW eof, Tells(k, k2, id, st, eof, k[id].asks),
             st \in {"wait", "quit"} => k[id].st \in {"wait", "quit"},
             \A i \in DOMAIN out : out[i].t \in {"EOF", "CLOSE"}
      PROVE  Placid(k, out, k2)
  <2>1. OwnAnswers(k2) /\ DueOn(k, k2)
    BY <1>5, AsksTell
  <2> QED  BY <1>5, <2>1 DEF Placid, AsksFor
<1>6. ASSUME NEW id \in DOMAIN k, DidGiveUp(x, k, id, z, out, k2) PROVE Placid(k, out, k2)
  <2>1. Tells(k, k2, id, "quit", k[id].eof, k[id].asks) /\ k[id].st = "wait" /\ DOMAIN out = {}
    BY <1>0, <1>6 DEF DidGiveUp
  <2> QED  BY <1>5, <2>1
<1>7. ASSUME NEW id \in DOMAIN k, DidData(x, k, id, z, out, k2) PROVE Placid(k, out, k2)
  BY <1>2, <1>7, DataSays
<1>8. ASSUME NEW id \in DOMAIN k, DidEof("client", x, k, id, z, out, k2) PROVE Placid(k, out, k2)
  <2>1. out = <<>> \/ out = <<On(x, id, "EOF")>>
    BY <1>8 DEF DidEof
  <2>2. \A i \in DOMAIN out : out[i].t = "EOF"
    BY <1>0, <2>1 DEF On
  <2>3. PICK f : Tells(k, k2, id, "held", f, k[id].asks)
    <3>1. PICK f : f = TRUE
      OBVIOUS
    <3>2. Tells(k, k2, id, "held", f, k[id].asks)
      BY <1>8, <3>1, Zenon DEF DidEof
    <3> QED  BY <3>2
  <2>4. "held" \notin {"wait", "quit"}
    OBVIOUS
  <2> QED  BY <1>5, <2>2, <2>3, <2>4
<1>9. ASSUME NEW id \in DOMAIN k, DidClose("client", x, k, id, z, out, k2) PROVE Placid(k, out, k2)
  <2>1. out = <<>> \/ out = <<On(x, id, "CLOSE")>>
    BY <1>9 DEF DidClose
  <2>2. \A i \in DOMAIN out : out[i].t = "CLOSE"
    BY <1>0, <2>1 DEF On
  <2>3. Tells(k, k2, id, "closed", k[id].eof, k[id].asks) /\ "closed" \notin {"wait", "quit"}
    BY <1>9 DEF DidClose
  <2> QED  BY <1>5, <2>2, <2>3
<1>10. ASSUME NEW id \in DOMAIN k, NEW wants \in BOOLEAN, NEW agent \in BOOLEAN,
              DidRequest(x, k, id, wants, agent, z, out, k2)
       PROVE  Placid(k, out, k2) \/ Asking(x, k, out, k2, id)
  <2>1. PICK a : /\ Tells(k, k2, id, "held", k[id].eof, a)
                 /\ a = k[id].asks \/ a = k[id].asks + 1
                 /\ wants => a = k[id].asks + 1
    BY <1>10 DEF DidRequest
  <2>2. OwnAnswers(k2) /\ DueOn(k, k2)
    BY <2>1, AsksTell
  <2>3. CASE ~wants \/ DOMAIN out = {}
    <3>1. \A i \in DOMAIN out : out[i].t = "REQUEST" /\ out[i].wants = wants
      BY <1>0, <1>10 DEF DidRequest
    <3> QED  BY <2>2, <2>3, <3>1 DEF Placid, AsksFor
  <2>4. CASE wants /\ id \in DOMAIN x.chans
    <3>1. PICK e : /\ k2 = With(k, id, e) /\ e.asks = k[id].asks + 1 /\ e.answers = k[id].answers
      BY <2>1, <2>4 DEF Tells
    <3>2. id \in DOMAIN k2 /\ k2[id] = e
      BY <3>1 DEF With
    <3>3. k[id].asks \in Nat
      BY TasksFacts, OneTaskFacts
    <3>4. /\ Counted(e.asks, k[id].asks + 1)
          /\ \A got : Waited(e.answers, got) => Before(got, k[id].asks + 1)
      BY <3>1, <3>3, CountedFacts DEF OwnAnswers
    <3>5. Due(k2, id, k[id].asks + 1)
      BY <3>2, <3>4 DEF Due
    <3>6. \A i \in DOMAIN out : /\ i = 1 /\ out[i].t = "REQUEST"
                               /\ out[i].to = x.chans[id].peer /\ out[i].n = k[id].asks + 1
      BY <1>10, <2>4 DEF DidRequest
    <3>7. k[id].st = "held"
      BY <1>10 DEF DidRequest
    <3> QED  BY <2>2, <2>4, <3>5, <3>6, <3>7 DEF Asking
  <2>5. id \notin DOMAIN x.chans => DOMAIN out = {}
    BY <1>0, <1>10 DEF DidRequest
  <2> QED  BY <2>3, <2>4, <2>5
<1>11. ~("client" = "server")
  OBVIOUS
<1> QED  BY <1>1, <1>3, <1>4, <1>6, <1>7, <1>8, <1>9, <1>10, <1>11 DEF Did

\* What is left of a wire is in the order it was in.
Drawn(w, w2, f) ==
    /\ \A i \in DOMAIN w2 : f[i] \in DOMAIN w /\ w2[i] = w[f[i]]
    /\ \A i, j \in DOMAIN w2 : Before(i, j) => Before(f[i], f[j])

LEMMA RestDrawn ==
    ASSUME NEW w \in Seq(Message), NEW w2, Rest(w, w2)
    PROVE  /\ \E f : Drawn(w, w2, f)
           /\ w # <<>> /\ w2 = Tail(w) => \E f : /\ Drawn(w, w2, f)
                                                /\ \A i \in DOMAIN w2 : Before(1, f[i])
<1>1. CASE w2 = w
  <2>1. PICK f : f = [i \in DOMAIN w |-> i]
    OBVIOUS
  <2>2. Drawn(w, w2, f)
    BY <1>1, <2>1 DEF Drawn
  <2>3. ~(w # <<>> /\ w2 = Tail(w))
    BY <1>1
  <2> QED  BY <2>2, <2>3
<1>2. CASE w2 = <<>>
  <2>1. DOMAIN w2 = {}
    BY <1>2
  <2> QED  BY <2>1 DEF Drawn
<1>3. CASE w # <<>> /\ w2 = Tail(w)
  <2>1. /\ \A i \in DOMAIN w2 : i + 1 \in DOMAIN w /\ w2[i] = w[i + 1]
        /\ DOMAIN w2 \subseteq Nat \ {0}
    BY <1>3
  <2>2. /\ \A i, j \in Nat : Before(i, j) => Before(i + 1, j + 1)
        /\ \A i \in Nat \ {0} : Before(1, i + 1)
    BY DEF Before
  <2>3. PICK f : f = [i \in Nat |-> i + 1]
    OBVIOUS
  <2>4. /\ \A i \in DOMAIN w2 : i \in Nat /\ f[i] \in DOMAIN w /\ w2[i] = w[f[i]]
        /\ \A i, j \in Nat : Before(i, j) => Before(f[i], f[j])
        /\ \A i \in DOMAIN w2 : Before(1, f[i])
    BY <2>1, <2>2, <2>3
  <2>5. Drawn(w, w2, f)
    BY <2>4 DEF Drawn
  <2> QED  BY <2>4, <2>5
<1> QED  BY <1>1, <1>2, <1>3 DEF Rest

LEMMA DrawnAnswers ==
    ASSUME NEW w, NEW w2, NEW f, Drawn(w, w2, f), NEW k, NEW k2, AnswersDue(k, w), DueOn(k, k2)
    PROVE  /\ AnswersDue(k2, w2)
           /\ \A id, n : Later(k, w, id, n) => Later(k2, w2, id, n)
BY DEF Drawn, AnswersDue, DueOn, Later

\* What the client has written, after a step that accepts and asks nothing.
LEMMA SilentAsks ==
    ASSUME NEW y, NEW v, NEW out, NEW v2, Longer(y, v, out, v2),
           \A i \in DOMAIN out : out[i].t # "CONFIRM" /\ ~AsksFor(out[i])
    PROVE  /\ \A q, id : Belongs(y, v2, q, id) => Belongs(y, v, q, id)
           /\ \A i \in DOMAIN v2 : AsksFor(v2[i]) => i \in DOMAIN v /\ v2[i] = v[i]
<1>1. \A i \in DOMAIN v2 : v2[i].t = "CONFIRM" \/ AsksFor(v2[i]) => i \in DOMAIN v /\ v2[i] = v[i]
  BY DEF Longer
<1> QED  BY <1>1 DEF Belongs

\* The parts that follow when what was to come later still is.
LEMMA LaterKeeps ==
    ASSUME NEW y, NEW k, NEW v, NEW w, AskParts(y, k, v, w), NEW k2, NEW v2, NEW w2,
           AnswersDue(k2, w2), \A id, n : Later(k, w, id, n) => Later(k2, w2, id, n),
           \A q, id : Belongs(y, v2, q, id) => Belongs(y, v, q, id),
           \A i \in DOMAIN v2 : AsksFor(v2[i]) => i \in DOMAIN v /\ v2[i] = v[i]
    PROVE  AskParts(y, k2, v2, w2)
<1>1. /\ BelongOnce(y, v) /\ WantsDue(y, k, w)
      /\ RequestsDue(y, k, v, w) /\ RequestsClimb(v)
  BY DEF AskParts
<1>2. BelongOnce(y, v2)
  BY <1>1 DEF BelongOnce
<1>3. WantsDue(y, k2, w2)
  BY <1>1 DEF WantsDue
<1>4. RequestsDue(y, k2, v2, w2)
  BY <1>1 DEF RequestsDue
<1>5. RequestsClimb(v2)
  BY <1>1 DEF RequestsClimb
<1> QED  BY <1>2, <1>3, <1>4, <1>5 DEF AskParts

LEMMA CalmKeeps ==
    ASSUME NEW y, NEW k, NEW v, NEW w \in Seq(Message), AskParts(y, k, v, w),
           NEW out, NEW k2, NEW v2, NEW w2, Longer(y, v, out, v2), Rest(w, w2), Placid(k, out, k2)
    PROVE  AskParts(y, k2, v2, w2)
<1>1. PICK f : Drawn(w, w2, f)
  BY RestDrawn
<1>2. /\ AnswersDue(k2, w2) /\ \A id, n : Later(k, w, id, n) => Later(k2, w2, id, n)
  BY <1>1, DrawnAnswers DEF AskParts, Placid
<1>3. /\ \A q, id : Belongs(y, v2, q, id) => Belongs(y, v, q, id)
      /\ \A i \in DOMAIN v2 : AsksFor(v2[i]) => i \in DOMAIN v /\ v2[i] = v[i]
  BY SilentAsks DEF Placid
<1> QED  BY <1>2, <1>3, LaterKeeps

\* An answer is heard: those that are behind it on the wire, and those still
\* to be written, come later.
LEMMA HearingKeeps ==
    ASSUME NEW y, NEW k \in Tasks, NEW v, NEW w \in Seq(Message), AskParts(y, k, v, w),
           OwnAnswers(k), w # <<>>, NEW m, m = Head(w),
           NEW out, NEW k2, NEW v2, NEW w2, Longer(y, v, out, v2), w2 = Tail(w),
           Hearing(k, m, out, k2)
    PROVE  OwnAnswers(k2) /\ AskParts(y, k2, v2, w2)
<1>1. PICK f : Drawn(w, w2, f) /\ \A i \in DOMAIN w2 : Before(1, f[i])
  <2>1. Rest(w, w2)
    BY DEF Rest
  <2> QED  BY <2>1, RestDrawn
<1>2. 1 \in DOMAIN w /\ m = w[1] /\ m \in Message
  BY TailFacts
<1>3. m.t = "ANSWER" /\ m.to \in DOMAIN k /\ DOMAIN out = {}
  BY DEF Hearing
<1>4. AnswersDue(k, w)
  BY DEF AskParts
<1>5. Due(k, m.to, m.n)
  BY <1>2, <1>3, <1>4 DEF AnswersDue
<1>6. PICK e \in OneTask : /\ k2 = With(k, m.to, e) /\ e.st = k[m.to].st
                           /\ e.asks = k[m.to].asks /\ e.answers = Append(k[m.to].answers, m.n)
  BY DEF Hearing
<1>7. /\ DOMAIN k2 = DOMAIN k /\ k2[m.to] = e
      /\ \A i \in DOMAIN k : i # m.to => k2[i] = k[i]
  BY <1>3, <1>6 DEF With
<1>8. k[m.to].answers \in Seq(Nat) /\ m.n \in Nat
  <2>1. k[m.to].answers \in Seq(Nat)
    BY <1>3, TasksFacts, OneTaskFacts
  <2>2. m.n \in Nat
    BY <1>2, <1>3 DEF Message
  <2> QED  BY <2>1, <2>2
<1>9. /\ Ascending(k[m.to].answers)
      /\ \A n : Waited(k[m.to].answers, n) => Counted(k[m.to].asks, n) /\ Before(n, m.n)
      /\ Counted(k[m.to].asks, m.n)
  BY <1>3, <1>5 DEF OwnAnswers, Due
<1>10. /\ Ascending(e.answers)
       /\ \A n : Waited(e.answers, n) <=> Waited(k[m.to].answers, n) \/ n = m.n
  BY <1>6, <1>8, <1>9, QueueJoin
<1>11. OwnAnswers(k2)
  <2>1. /\ \A n : Waited(e.answers, n) => Counted(e.asks, n)
        /\ e.st \in {"wait", "quit"} => e.asks = 0
    BY <1>3, <1>6, <1>9, <1>10 DEF OwnAnswers
  <2> QED  BY <1>7, <1>10, <2>1 DEF OwnAnswers
<1>12. ASSUME NEW id, NEW n, Due(k, id, n), id = m.to => Before(m.n, n) PROVE Due(k2, id, n)
  <2>1. CASE id = m.to
    BY <1>6, <1>7, <1>10, <1>12, <2>1 DEF Due
  <2>2. CASE id # m.to
    BY <1>7, <1>12, <2>2 DEF Due
  <2> QED  BY <2>1, <2>2
<1>13. ASSUME NEW j \in DOMAIN w2, w2[j].t = "ANSWER" PROVE Due(k2, w2[j].to, w2[j].n)
  <2>1. Due(k, w2[j].to, w2[j].n)
    BY <1>1, <1>4, <1>13 DEF Drawn, AnswersDue
  <2>2. w2[j].to = m.to => Before(m.n, w2[j].n)
    BY <1>1, <1>2, <1>3, <1>4, <1>13 DEF Drawn, AnswersDue
  <2> QED  BY <1>12, <2>1, <2>2
<1>14. AnswersDue(k2, w2)
  BY <1>1, <1>4, <1>13 DEF Drawn, AnswersDue
<1>15. ASSUME NEW id, NEW n, Later(k, w, id, n) PROVE Later(k2, w2, id, n)
  <2>1. Due(k2, id, n)
    BY <1>2, <1>3, <1>12, <1>15 DEF Later
  <2> QED  BY <1>1, <1>15, <2>1 DEF Later, Drawn
<1>16. /\ \A q, id : Belongs(y, v2, q, id) => Belongs(y, v, q, id)
       /\ \A i \in DOMAIN v2 : AsksFor(v2[i]) => i \in DOMAIN v /\ v2[i] = v[i]
  BY <1>3, SilentAsks
<1> QED  BY <1>11, <1>14, <1>15, <1>16, LaterKeeps

\* The server's number of a channel belongs to one channel of the client.
LEMMA BelongsTo ==
    ASSUME NEW x, NEW y, NEW k, NEW l, NEW v, NEW w, Both("client", "server", x, y, k, l, v, w),
           NEW q, NEW id, NEW i, id # 0, i # 0, Belongs(y, v, q, id), Belongs(y, v, q, i)
    PROVE  i = id
<1>1. Once(v, w) /\ Handshake(y, x, l, w, v)
  BY DEF Both, Hand
<1>2. ASSUME NEW a \in DOMAIN v, v[a].t = "CONFIRM", v[a].to = q PROVE y.chans[q].peer = 0
  BY <1>1, <1>2 DEF Handshake, Pends, Verdicts
<1>3. ASSUME NEW a \in DOMAIN v, NEW b \in DOMAIN v, v[a].t = "CONFIRM", v[b].t = "CONFIRM",
             v[a].to = q, v[b].to = q
      PROVE  a = b
  <2>1. v[a].t \in Verdicts /\ v[b].t \in Verdicts
    BY <1>3 DEF Verdicts
  <2> QED  BY <1>1, <1>3, <2>1 DEF Once
<1> QED  BY <1>2, <1>3 DEF Belongs

\* The request is numbered behind all that the task has made.
LEMMA AskingKeeps ==
    ASSUME NEW x, NEW y, NEW k, NEW l, NEW v, NEW w, Both("client", "server", x, y, k, l, v, w),
           AskParts(y, k, v, w), OwnAnswers(k), NEW out, NEW k2, NEW v2, Longer(y, v, out, v2),
           NEW id, Asking(x, k, out, k2, id)
    PROVE  AskParts(y, k2, v2, w)
<1>1. PICK n : n = k[id].asks + 1
  OBVIOUS
<1>2. PICK q : q = x.chans[id].peer
  OBVIOUS
<1>3. /\ id \in DOMAIN k /\ id \in DOMAIN x.chans /\ k[id].st = "held"
      /\ OwnAnswers(k2) /\ DueOn(k, k2) /\ Due(k2, id, n)
      /\ \A i \in DOMAIN out : i = 1 /\ out[i].t = "REQUEST" /\ out[i].to = q /\ out[i].n = n
  BY <1>1, <1>2 DEF Asking
<1>4. Facts("client", "server", x, y, v, w)
  BY BothFacts
<1>5. /\ k \in Tasks /\ Numbered(x, y, k, v) /\ Handshake(x, y, k, v, w)
      /\ Paired("client", x, y, v, w) /\ v \in Seq(Message) /\ w \in Seq(Message)
  BY DEF Both, Hand
<1>6. q # 0
  BY <1>2, <1>3, <1>5 DEF Handshake
<1>7. id # 0 /\ 0 \notin DOMAIN k
  BY <1>3, <1>4, <1>5 DEF Facts, Numbered
<1>8. \A a : Due(k, id, a) => Before(a, n)
  <2>1. k[id].asks \in Nat
    BY <1>3, <1>5, TasksFacts, OneTaskFacts
  <2>2. \A a : Counted(k[id].asks, a) => Before(a, n)
    BY <1>1, <2>1, CountedFacts
  <2> QED  BY <2>2 DEF Due
<1>9. /\ BelongOnce(y, v) /\ AnswersDue(k, w) /\ WantsDue(y, k, w)
      /\ RequestsDue(y, k, v, w) /\ RequestsClimb(v)
  BY DEF AskParts
<1>10. Later(k2, w, id, n)
  BY <1>3, <1>8, <1>9 DEF Later, AnswersDue
<1>11. AnswersDue(k2, w) /\ \A i, a : Later(k, w, i, a) => Later(k2, w, i, a)
  BY <1>3, <1>9 DEF AnswersDue, Later, DueOn
<1>12. \A i \in DOMAIN v2 : \/ i \in DOMAIN v /\ v2[i] = v[i]
                            \/ i = At(v, 1) /\ 1 \in DOMAIN out /\ v2[i] = out[1]
  BY <1>3 DEF Longer
<1>13. \A r, i : Belongs(y, v2, r, i) => Belongs(y, v, r, i)
  BY <1>3, <1>12 DEF Belongs
<1>14. CASE y.end # "no"
  <2>1. DOMAIN v2 = {}
    BY <1>14 DEF Longer
  <2>2. \A i \in DOMAIN v2 : AsksFor(v2[i]) => i \in DOMAIN v /\ v2[i] = v[i]
    BY <2>1
  <2> QED  BY <1>11, <1>13, <2>2, LaterKeeps
<1>15. CASE y.end = "no"
  <2>1. Belongs(y, v, q, id) /\ (q \in DOMAIN y.chans => y.chans[q].peer \in {0, id})
    BY <1>2, <1>3, <1>5, <1>6, <1>15 DEF Paired, Belongs
  <2>2. \A i : i # 0 /\ Belongs(y, v, q, i) => i = id
    BY <1>7, <2>1, BelongsTo
  <2>3. q \in DOMAIN y.chans /\ y.chans[q].wants => Before(y.chans[q].asked, n)
    BY <1>7, <1>8, <1>9, <2>1 DEF WantsDue, Later, Due
  <2>4. \A i \in DOMAIN v : AsksFor(v[i]) /\ v[i].to = q => Before(v[i].n, n)
    BY <1>7, <1>8, <1>9, <2>1 DEF RequestsDue, Later
  <2>5. BelongOnce(y, v2)
    BY <1>9, <1>13 DEF BelongOnce
  <2>6. WantsDue(y, k2, w)
    BY <1>9, <1>11 DEF WantsDue
  <2>7. RequestsDue(y, k2, v2, w)
    <3> SUFFICES ASSUME NEW i \in DOMAIN v2, AsksFor(v2[i]), NEW j, j # 0, Belongs(y, v2, v2[i].to, j)
                 PROVE  /\ Later(k2, w, j, v2[i].n)
                        /\ v2[i].to \in DOMAIN y.chans /\ y.chans[v2[i].to].wants
                           => Before(y.chans[v2[i].to].asked, v2[i].n)
      BY DEF RequestsDue
    <3>1. Belongs(y, v, v2[i].to, j)
      BY <1>13
    <3>2. CASE i \in DOMAIN v /\ v2[i] = v[i]
      BY <1>9, <1>11, <3>1, <3>2 DEF RequestsDue
    <3>3. CASE v2[i].to = q /\ v2[i].n = n
      BY <1>10, <2>2, <2>3, <3>1, <3>3
    <3> QED  BY <1>3, <1>12, <3>2, <3>3
  <2>8. RequestsClimb(v2)
    <3> SUFFICES ASSUME NEW i \in DOMAIN v2, NEW j \in DOMAIN v2, Before(i, j),
                        AsksFor(v2[i]), AsksFor(v2[j]), v2[i].to = v2[j].to
                 PROVE  Before(v2[i].n, v2[j].n)
      BY DEF RequestsClimb
    <3>1. CASE j \in DOMAIN v /\ v2[j] = v[j]
      <4>1. ~(1 \in DOMAIN out /\ i = At(v, 1))
        <5>1. 1 \in DOMAIN out => ~Before(At(v, 1), j)
          BY <3>1, <1>5 DEF At, Before
        <5> QED  BY <5>1
      <4> QED  BY <1>9, <1>12, <3>1, <4>1 DEF RequestsClimb
    <3>2. CASE j = At(v, 1) /\ 1 \in DOMAIN out /\ v2[j] = out[1]
      <4>1. i # At(v, 1)
        <5>1. ~Before(At(v, 1), At(v, 1))
          BY <1>5 DEF At, Before
        <5> QED  BY <3>2, <5>1
      <4> QED  BY <1>3, <1>12, <2>4, <3>2, <4>1
    <3> QED  BY <1>12, <3>1, <3>2
  <2> QED  BY <1>11, <2>5, <2>6, <2>7, <2>8 DEF AskParts
<1> QED  BY <1>14, <1>15

\* A channel that the client accepts: nothing was asked on it.
LEMMA AcceptingKeeps ==
    ASSUME NEW x, NEW y, NEW k, NEW l, NEW v, NEW w, Both("client", "server", x, y, k, l, v, w),
           AskParts(y, k, v, w), OwnAnswers(k), w # <<>>, NEW m, m = Head(w), NEW out, NEW k2,
           NEW v2, Longer(y, v, out, v2), NEW w2, w2 = Tail(w), Accepting(x, k, m, out, k2)
    PROVE  OwnAnswers(k2) /\ AskParts(y, k2, v2, w2)
<1>1. PICK id : id = x.last + 1
  OBVIOUS
<1>2. /\ m.t = "OPEN" /\ k2 = With(k, id, Task("held"))
      /\ out = <<[t |-> "CONFIRM", to |-> m.from, ch |-> m.ch, from |-> id]>>
  BY <1>1 DEF Accepting
<1>3. \A i \in DOMAIN out : out[i].t = "CONFIRM" /\ out[i].to = m.from /\ out[i].from = id
  BY <1>2
<1>4. Facts("client", "server", x, y, v, w)
  BY BothFacts
<1>5. /\ Numbered(x, y, k, v) /\ Numbered(y, x, l, w) /\ Once(w, v) /\ Handshake(y, x, l, w, v)
      /\ ConfirmFirst(y, v) /\ w \in Seq(Message)
  BY DEF Both, Hand
<1>6. 1 \in DOMAIN w /\ m = w[1]
  BY <1>5, TailFacts
<1>7. id # 0 /\ id \notin DOMAIN k /\ ~Given(x.last, id)
  BY <1>1, <1>4, <1>5 DEF Facts, Numbered
<1>8. OwnAnswers(k2) /\ DueOn(k, k2)
  BY <1>2, <1>7, AsksFresh
<1>9. PICK f : Drawn(w, w2, f)
  <2>1. Rest(w, w2)
    BY DEF Rest
  <2> QED  BY <1>5, <2>1, RestDrawn
<1>10. AnswersDue(k2, w2) /\ \A i, n : Later(k, w, i, n) => Later(k2, w2, i, n)
  BY <1>8, <1>9, DrawnAnswers DEF AskParts
<1>11. \A q : ~Belongs(y, v, q, id)
  BY <1>5, <1>7 DEF Numbered, Belongs
<1>12. \A i \in DOMAIN v2 : \/ i \in DOMAIN v /\ v2[i] = v[i]
                            \/ v2[i].t = "CONFIRM" /\ v2[i].to = m.from /\ v2[i].from = id
  BY <1>3 DEF Longer
<1>13. \A q, i : Belongs(y, v2, q, i) => Belongs(y, v, q, i) \/ (q = m.from /\ i = id)
  BY <1>12 DEF Belongs
<1>14. \A i \in DOMAIN v2 : AsksFor(v2[i]) => i \in DOMAIN v /\ v2[i] = v[i]
  BY <1>12 DEF AsksFor
<1>15. ASSUME NEW i \in DOMAIN v, AsksFor(v[i]) PROVE v[i].to # m.from
  <2>1. y.end = "no"
    BY <1>4 DEF Facts
  <2>2. m.from \in DOMAIN y.chans /\ y.chans[m.from].peer = 0
    BY <1>2, <1>5, <1>6, <2>1 DEF Handshake, Pends
  <2>3. v[i].t \in Plain
    BY <1>15 DEF AsksFor, Plain
  <2>4. ASSUME v[i].to = m.from PROVE FALSE
    <3>1. PICK j \in DOMAIN v : v[j].t = "CONFIRM" /\ v[j].to = m.from
      BY <1>5, <2>2, <2>3, <2>4 DEF ConfirmFirst
    <3> QED  BY <1>2, <1>5, <1>6, <3>1 DEF Once, Verdicts
  <2> QED  BY <2>4
<1>16. /\ BelongOnce(y, v) /\ WantsDue(y, k, w)
       /\ RequestsDue(y, k, v, w) /\ RequestsClimb(v)
  BY DEF AskParts
<1>17. BelongOnce(y, v2)
  BY <1>11, <1>13, <1>16 DEF BelongOnce
<1>18. WantsDue(y, k2, w2)
  BY <1>10, <1>16 DEF WantsDue
<1>19. RequestsDue(y, k2, v2, w2)
  BY <1>10, <1>13, <1>14, <1>15, <1>16 DEF RequestsDue
<1>20. RequestsClimb(v2)
  BY <1>14, <1>16 DEF RequestsClimb
<1> QED  BY <1>8, <1>10, <1>17, <1>18, <1>19, <1>20 DEF AskParts

\* The channels of the server that want an answer after a step did so before.
Wishes(y, z) ==
    \A q \in DOMAIN z.chans : z.chans[q].wants =>
        /\ q \in DOMAIN y.chans /\ y.chans[q].wants /\ z.chans[q].asked = y.chans[q].asked
        /\ z.chans[q].peer = y.chans[q].peer \/ y.chans[q].peer = 0

NoAnswer(out) == \A i \in DOMAIN out : out[i].t # "ANSWER"

LEMMA WishSame ==
    ASSUME NEW y, NEW z, z.chans = y.chans \/ z.chans = <<>>
    PROVE  Wishes(y, z)
<1>1. z.chans = <<>> => DOMAIN z.chans = {}
  BY TablesEmpty
<1> QED  BY <1>1 DEF Wishes

LEMMA WishPut ==
    ASSUME NEW y, NEW z, NEW id \in DOMAIN y.chans, NEW d, z.chans = With(y.chans, id, d),
           Asks(y.chans[id], d), d.peer = y.chans[id].peer \/ y.chans[id].peer = 0
    PROVE  Wishes(y, z)
BY DEF With, Wishes, Asks

LEMMA WishDrop ==
    ASSUME NEW y, NEW z, NEW id, z.chans = Without(y.chans, id)
    PROVE  Wishes(y, z)
BY DEF Without, Wishes

LEMMA WishNew ==
    ASSUME NEW y, NEW z, NEW id, NEW d, z.chans = With(y.chans, id, d), ~d.wants
    PROVE  Wishes(y, z)
BY DEF With, Wishes

LEMMA FreshWants == \A ch, peer, win : ~Params(ch, peer, win).wants
<1>1. ASSUME NEW ch, NEW peer, NEW win PROVE ~Params(ch, peer, win).wants
  <2>1. PICK c : c = Params(ch, peer, win)
    OBVIOUS
  <2>2. PICK f : f = FALSE
    OBVIOUS
  <2>3. c.wants = f
    BY <2>1, <2>2, Zenon DEF Params
  <2> QED  BY <2>1, <2>2, <2>3
<1> QED  BY <1>1

LEMMA TookWants ==
    ASSUME NEW y \in Session, NEW l \in Tasks, NEW m \in Message, NEW z, NEW out, NEW l2,
           y.end = "no", m.t # "REQUEST", m.t \in Verdicts => Pends(y, l, m.to),
           Took("server", y, l, m, z, out, l2)
    PROVE  Wishes(y, z) /\ NoAnswer(out)
<1>0. "server" \in Sides
  BY DEF Sides
<1>1. NoAnswer(out)
  <2>1. \A i \in DOMAIN out : Reply(m.t, out[i].t)
    BY <1>0, TookSays
  <2> QED  BY <2>1 DEF NoAnswer, Reply
<1>2. CASE m.t = "OPEN" /\ TookOpen("server", y, l, m, z, out, l2)
  <2>1. \/ z.chans = y.chans
        \/ \E id, d : z.chans = With(y.chans, id, d) /\ ~d.wants
    BY <1>2, FreshWants DEF TookOpen, Shift
  <2> QED  BY <1>1, <2>1, WishSame, WishNew
<1>3. CASE m.t = "CONFIRM" /\ TookConfirm(y, l, m, z, out, l2)
  <2>1. y.chans[m.to].peer = 0
    BY <1>3 DEF Verdicts, Pends
  <2>2. \/ z.chans = <<>>
        \/ /\ m.to \in DOMAIN y.chans
           /\ \E d : z.chans = With(y.chans, m.to, d) /\ Asks(y.chans[m.to], d)
    BY <1>3 DEF TookConfirm, Stops, Puts
  <2> QED  BY <1>1, <2>1, <2>2, WishSame, WishPut
<1>4. CASE m.t = "FAILURE" /\ TookFailure("server", y, l, m, z, out, l2)
  <2>1. z.chans = <<>> \/ z.chans = Without(y.chans, m.to)
    BY <1>4 DEF TookFailure, Stops, Shift
  <2> QED  BY <1>1, <2>1, WishSame, WishDrop
<1>5. CASE m.t = "CLOSE" /\ TookClose("server", y, m, z, out)
  <2>1. z.chans = y.chans \/ z.chans = Without(y.chans, m.to)
    BY <1>5 DEF TookClose, Shift
  <2> QED  BY <1>1, <2>1, WishSame, WishDrop
<1>6. CASE m.t = "DATA" /\ TookData(y, m, z, out)
  <2>1. \/ z.chans = y.chans
        \/ /\ m.to \in DOMAIN y.chans
           /\ \E d : /\ z.chans = With(y.chans, m.to, d) /\ Asks(y.chans[m.to], d)
                     /\ d.peer = y.chans[m.to].peer
    BY <1>6 DEF TookData, Puts, Twin
  <2> QED  BY <1>1, <2>1, WishSame, WishPut
<1>7. CASE m.t = "ADJUST" /\ TookGrant(y, m, z, out)
  <2>1. \/ z.chans = <<>>
        \/ z.chans = Without(y.chans, m.to)
        \/ /\ m.to \in DOMAIN y.chans
           /\ \E d : /\ z.chans = With(y.chans, m.to, d) /\ Asks(y.chans[m.to], d)
                     /\ d.peer = y.chans[m.to].peer
    BY <1>7 DEF TookGrant, Puts, Drops, Stops, Twin
  <2> QED  BY <1>1, <2>1, WishSame, WishPut, WishDrop
<1>8. CASE \/ z = y \/ TookGlobal("server", y, m, z, out)
           \/ TookResult(y, z, out) \/ Stops(y, z, "disconnected")
  <2>1. z.chans = y.chans \/ z.chans = <<>>
    BY <1>8 DEF TookGlobal, Still, Shift, TookResult, Queues, Stops
  <2> QED  BY <1>1, <2>1, WishSame
<1> QED  BY <1>2, <1>3, <1>4, <1>5, <1>6, <1>7, <1>8 DEF Took

\* Channel q of the server is answered.
Answered(y, z, out, q, n) ==
    /\ q \in DOMAIN y.chans
    /\ \E d : z.chans = With(y.chans, q, d) /\ d.peer = y.chans[q].peer /\ ~d.wants
    /\ \A i \in DOMAIN out : /\ i = 1 /\ out[i].t = "ANSWER"
                             /\ out[i].to = y.chans[q].peer /\ out[i].n = n

LEMMA DidWants ==
    ASSUME NEW y \in Session, NEW l \in Tasks, NEW n, NEW z, NEW out, NEW l2,
           Did("server", y, l, n, z, out, l2)
    PROVE  \/ Wishes(y, z) /\ NoAnswer(out)
           \/ \E q \in DOMAIN y.chans : y.chans[q].wants /\ Answered(y, z, out, q, y.chans[q].asked)
<1>0. out = <<>> => DOMAIN out = {}
  BY NoMessage
<1>1. CASE DidOpen("server", y, l, n, z, out, l2)
  <2>1. \E id, d : z.chans = With(y.chans, id, d) /\ ~d.wants
    BY <1>1, FreshWants DEF DidOpen, Shift
  <2>2. \A i \in DOMAIN out : out[i].t = "OPEN"
    BY <1>1 DEF DidOpen
  <2> QED  BY <2>1, <2>2, WishNew DEF NoAnswer
<1>2. CASE DidGlobal("server", y, l, z, out, l2) \/ DidNoReply(y, l, z, out, l2)
  <2>1. \A i \in DOMAIN out : out[i].t = "GLOBAL"
    BY <1>2 DEF DidGlobal, DidNoReply
  <2>2. z.chans = y.chans
    BY <1>2 DEF DidGlobal, DidNoReply, Queues
  <2> QED  BY <2>1, <2>2, WishSame DEF NoAnswer
<1>3. CASE /\ Stops(y, z, "left") \/ Stops(y, z, "eof")
           /\ out = <<[t |-> "DISCONNECT"]>> \/ out = <<>>
  <2>1. \A i \in DOMAIN out : out[i].t = "DISCONNECT"
    BY <1>0, <1>3
  <2>2. z.chans = <<>>
    BY <1>3 DEF Stops
  <2> QED  BY <2>1, <2>2, WishSame DEF NoAnswer
<1>4. ASSUME NEW id \in DOMAIN l, DidGiveUp(y, l, id, z, out, l2)
      PROVE  Wishes(y, z) /\ NoAnswer(out)
  BY <1>0, <1>4, WishSame DEF DidGiveUp, NoAnswer
<1>5. ASSUME NEW id \in DOMAIN l, DidData(y, l, id, z, out, l2)
      PROVE  Wishes(y, z) /\ NoAnswer(out)
  <2>1. /\ \A i \in DOMAIN out : out[i].t = "DATA"
        /\ \/ z.chans = y.chans
           \/ /\ id \in DOMAIN y.chans
              /\ \E d : /\ z.chans = With(y.chans, id, d) /\ Asks(y.chans[id], d)
                        /\ d.peer = y.chans[id].peer
    BY <1>5, DataSays
  <2> QED  BY <2>1, WishSame, WishPut DEF NoAnswer
<1>6. ASSUME NEW id \in DOMAIN l, DidEof("server", y, l, id, z, out, l2)
      PROVE  Wishes(y, z) /\ NoAnswer(out)
  <2>1. (out = <<>> \/ out = <<On(y, id, "EOF")>>) /\ z = y
    BY <1>6 DEF DidEof
  <2>2. \A i \in DOMAIN out : out[i].t = "EOF"
    BY <1>0, <2>1 DEF On
  <2> QED  BY <2>1, <2>2, WishSame DEF NoAnswer
<1>7. ASSUME NEW id \in DOMAIN l, DidClose("server", y, l, id, z, out, l2)
      PROVE  Wishes(y, z) /\ NoAnswer(out)
  <2>1. (out = <<>> \/ out = <<On(y, id, "CLOSE")>>) /\ z.chans = y.chans
    BY <1>7 DEF DidClose, Still, Shift
  <2>2. \A i \in DOMAIN out : out[i].t = "CLOSE"
    BY <1>0, <2>1 DEF On
  <2> QED  BY <2>1, <2>2, WishSame DEF NoAnswer
<1>8. ASSUME NEW id \in DOMAIN l, DidAnswer(y, l, id, z, out, l2)
      PROVE  \/ Wishes(y, z) /\ NoAnswer(out)
             \/ /\ id \in DOMAIN y.chans /\ y.chans[id].wants
                /\ Answered(y, z, out, id, y.chans[id].asked)
  <2>1. CASE z = y /\ out = <<>>
    BY <1>0, <2>1, WishSame DEF NoAnswer
  <2>2. CASE /\ id \in DOMAIN y.chans /\ y.chans[id].wants
             /\ out = <<OnWith(y, id, "ANSWER", y.chans[id].asked)>>
             /\ \E d : /\ Puts(y, z, id, d) /\ Twin(y.chans[id], d) /\ ~d.wants
    <3>1. \A i \in DOMAIN out : /\ i = 1 /\ out[i].t = "ANSWER"
                               /\ out[i].to = y.chans[id].peer /\ out[i].n = y.chans[id].asked
      BY <2>2 DEF OnWith
    <3> QED  BY <2>2, <3>1 DEF Answered, Puts, Twin
  <2> QED  BY <1>8, <2>1, <2>2 DEF DidAnswer
<1>9. ~("server" = "client")
  OBVIOUS
<1> QED  BY <1>1, <1>2, <1>3, <1>4, <1>5, <1>6, <1>7, <1>8, <1>9 DEF Did

\* A channel that the client opens belongs to none of the server yet.
LEMMA NoneBelongs ==
    ASSUME NEW x, NEW y, NEW k, NEW l, NEW v, NEW w, Both("server", "client", y, x, l, k, w, v),
           x.end = "no", NEW i \in DOMAIN v, v[i].t = "OPEN", NEW q
    PROVE  ~Belongs(y, v, q, v[i].from)
<1>1. /\ Numbered(y, x, l, w) /\ Paired("server", y, x, w, v)
      /\ Numbered(x, y, k, v) /\ Once(v, w) /\ Handshake(x, y, k, v, w)
      /\ Paired("client", x, y, v, w)
  BY DEF Both, Hand
<1>2. Facts("server", "client", y, x, w, v)
  BY BothFacts
<1>3. PICK id : id = v[i].from
  OBVIOUS
<1>4. id \in DOMAIN x.chans /\ x.chans[id].peer = 0
  BY <1>1, <1>3 DEF Handshake, Pends
<1>5. id # 0
  BY <1>1, <1>2, <1>3 DEF Numbered, Facts
<1>6. ASSUME q \in DOMAIN y.chans, y.chans[q].peer = id PROVE FALSE
  <2>1. q # 0
    BY <1>1, <1>2, <1>6 DEF Numbered, Facts
  <2>2. PICK j \in DOMAIN w : w[j].t = "CONFIRM" /\ w[j].to = id
    BY <1>1, <1>4, <1>5, <1>6, <2>1 DEF Paired
  <2>3. w[j].t \in Verdicts
    BY <2>2 DEF Verdicts
  <2> QED  BY <1>1, <1>3, <2>2, <2>3 DEF Once
<1>7. ASSUME NEW j \in DOMAIN v, v[j].t = "CONFIRM", v[j].to = q, v[j].from = id PROVE FALSE
  <2>1. q = 0
    BY <1>1, <1>4, <1>7 DEF Paired
  <2>2. v[j].t \in OnChannel
    BY <1>7 DEF OnChannel
  <2> QED  BY <1>1, <1>2, <1>7, <2>1, <2>2 DEF Numbered, Facts
<1> QED  BY <1>3, <1>6, <1>7 DEF Belongs

\* What a step of the server makes of whom its channels belong to.
LEMMA MovesBelong ==
    ASSUME NEW x, NEW y, NEW k, NEW l, NEW v, NEW w, Both("server", "client", y, x, l, k, w, v),
           x.end = "no", BelongOnce(y, v), NEW n, NEW z, NEW out, NEW l2, NEW v2,
           Moves("server", y, l, n, v, z, out, l2, v2), Rest(v, v2)
    PROVE  /\ BelongOnce(z, v2)
           /\ \A q, id : id # 0 /\ Given(y.last, q) /\ Belongs(z, v2, q, id) => Belongs(y, v, q, id)
<1> DEFINE Inherits == \A q, id : id # 0 /\ Belongs(z, v2, q, id) => Belongs(y, v, q, id)
           Goal == /\ BelongOnce(z, v2)
                   /\ \A q, id : id # 0 /\ Given(y.last, q) /\ Belongs(z, v2, q, id)
                                 => Belongs(y, v, q, id)
<1>0. v \in Seq(Message)
  BY DEF Both
<1>1. Inherits => Goal
  BY DEF BelongOnce
<1>2. Among(v, v2)
  BY <1>0, RestKeeps
<1>3. ASSUME \A q \in DOMAIN z.chans :
                \/ z.chans[q].peer = 0
                \/ q \in DOMAIN y.chans /\ z.chans[q].peer = y.chans[q].peer
      PROVE  Inherits
  BY <1>2, <1>3 DEF Belongs, Among
<1>4. CASE Quiet("server", y, l, v, z, out, l2, v2)
  <2>1. Inherits
    BY <1>3, <1>4 DEF Quiet, KeptChans
  <2> QED  BY <1>1, <2>1
<1>5. ASSUME NEW q, z.chans = Without(y.chans, q) PROVE Inherits
  <2>1. \A r \in DOMAIN z.chans : r \in DOMAIN y.chans /\ z.chans[r] = y.chans[r]
    BY <1>5 DEF Without
  <2> QED  BY <1>3, <2>1
<1>6. CASE Shut("server", y, l, v, z, out, l2, v2) \/ Refused("server", y, l, v, z, out, l2, v2)
  <2>1. \E q : z.chans = Without(y.chans, q)
    BY <1>6 DEF Shut, Refused, Shift
  <2>2. Inherits
    BY <1>5, <2>1
  <2> QED  BY <1>1, <2>2
<1>7. CASE DidOpen("server", y, l, n, z, out, l2)
  <2>1. PICK q, d : z.chans = With(y.chans, q, d) /\ d.peer = 0
    <3>1. Params(<<"server", n>>, 0, 0).peer = 0
      BY DEF Params
    <3> QED  BY <1>7, <3>1 DEF DidOpen, Shift
  <2>2. \A r \in DOMAIN z.chans : \/ z.chans[r].peer = 0
                                  \/ r \in DOMAIN y.chans /\ z.chans[r] = y.chans[r]
    BY <2>1 DEF With
  <2>3. Inherits
    BY <1>3, <2>2
  <2> QED  BY <1>1, <2>3
<1>8. CASE Accepts("server", y, l, v, z, out, l2, v2)
  <2>1. PICK r : r = y.last + 1
    OBVIOUS
  <2>2. 1 \in DOMAIN v /\ Head(v) = v[1] /\ v[1].t = "OPEN"
    BY <1>0, <1>8, TailFacts DEF Accepts
  <2>3. PICK d : z.chans = With(y.chans, r, d) /\ d.peer = v[1].from
    <3>1. \A ch, p, win : Params(ch, p, win).peer = p
      BY DEF Params
    <3> QED  BY <1>8, <2>1, <2>2, <3>1 DEF Accepts, Shift
  <2>4. \A q \in DOMAIN z.chans : \/ q = r /\ z.chans[q].peer = v[1].from
                                  \/ q \in DOMAIN y.chans /\ z.chans[q] = y.chans[q]
    BY <2>3 DEF With
  <2>5. \A q, id : Belongs(z, v2, q, id) => Belongs(y, v, q, id) \/ (q = r /\ id = v[1].from)
    BY <1>2, <2>4 DEF Belongs, Among
  <2>6. \A q : ~Belongs(y, v, q, v[1].from)
    BY <2>2, NoneBelongs
  <2>7. ~Given(y.last, r)
    BY <2>1, BothFacts DEF Facts
  <2> QED  BY <2>5, <2>6, <2>7 DEF BelongOnce
<1>9. CASE Declines("server", y, l, v, z, out, l2, v2)
  <2>1. z.chans = y.chans
    BY <1>9 DEF Declines, Shift
  <2>2. Inherits
    BY <1>3, <2>1
  <2> QED  BY <1>1, <2>2
<1>10. CASE Confirmed("server", y, l, v, z, out, l2, v2)
  <2>1. 1 \in DOMAIN v /\ Head(v) = v[1]
    BY <1>0, <1>10, TailFacts DEF Confirmed
  <2>2. PICK d : /\ z.chans = With(y.chans, v[1].to, d) /\ d.peer = v[1].from
                 /\ v[1].t = "CONFIRM"
    BY <1>10, <2>1 DEF Confirmed, Puts
  <2>3. \A q \in DOMAIN z.chans : \/ q = v[1].to /\ z.chans[q].peer = v[1].from
                                  \/ q \in DOMAIN y.chans /\ z.chans[q] = y.chans[q]
    BY <2>2 DEF With
  <2>4. Inherits
    BY <1>2, <2>1, <2>2, <2>3 DEF Belongs, Among
  <2> QED  BY <1>1, <2>4
<1>11. CASE Leaves("server", y, l, v, z, out, l2, v2)
  <2>1. DOMAIN z.chans = {}
    BY <1>11, TablesEmpty DEF Leaves, Stops
  <2>2. Inherits
    BY <1>3, <2>1
  <2> QED  BY <1>1, <2>2
<1>12. ~Forgets("server", y, l, v, z, out, l2, v2)
  <2>1. "server" # "client"
    OBVIOUS
  <2> QED  BY <2>1 DEF Forgets
<1> QED  BY <1>4, <1>6, <1>7, <1>8, <1>9, <1>10, <1>11, <1>12 DEF Moves

\* No answer is added to the wire.
LEMMA SilentKeeps ==
    ASSUME NEW x, NEW z, NEW k, NEW v, NEW w, AskParts(z, k, v, w),
           NEW out, NEW w2, Longer(x, w, out, w2), NoAnswer(out)
    PROVE  AskParts(z, k, v, w2)
<1>1. \A i \in DOMAIN w2 : w2[i].t = "ANSWER" => i \in DOMAIN w /\ w2[i] = w[i]
  BY DEF Longer, NoAnswer
<1>2. AnswersDue(k, w2) /\ \A id, n : Later(k, w, id, n) => Later(k, w2, id, n)
  BY <1>1 DEF AskParts, AnswersDue, Later
<1>3. WantsDue(z, k, w2) /\ RequestsDue(z, k, v, w2)
  BY <1>2 DEF AskParts, WantsDue, RequestsDue
<1> QED  BY <1>2, <1>3 DEF AskParts

\* A step of the server that answers nothing and is asked nothing.
LEMMA PlainKeeps ==
    ASSUME NEW x, NEW y, NEW k, NEW v, NEW w, AskParts(y, k, v, w), 0 \notin DOMAIN k,
           \A i \in DOMAIN v : AsksFor(v[i]) => Given(y.last, v[i].to),
           NEW z, NEW out, NEW v2, NEW w2, NEW f, Drawn(v, v2, f), Longer(x, w, out, w2),
           Wishes(y, z), NoAnswer(out), BelongOnce(z, v2),
           \A q, id : id # 0 /\ Given(y.last, q) /\ Belongs(z, v2, q, id) => Belongs(y, v, q, id)
    PROVE  AskParts(z, k, v2, w2)
<1>1. /\ AnswersDue(k, w) /\ WantsDue(y, k, w)
      /\ RequestsDue(y, k, v, w) /\ RequestsClimb(v)
  BY DEF AskParts
<1>2. \A i \in DOMAIN w2 : w2[i].t = "ANSWER" => i \in DOMAIN w /\ w2[i] = w[i]
  BY DEF Longer, NoAnswer
<1>3. AnswersDue(k, w2) /\ \A id, n : Later(k, w, id, n) => Later(k, w2, id, n)
  BY <1>1, <1>2 DEF AnswersDue, Later
<1>4. WantsDue(z, k, w2)
  <2>1. \A n : ~Later(k, w, 0, n)
    BY DEF Later, Due
  <2> QED  BY <1>1, <1>3, <2>1 DEF WantsDue, Wishes
<1>5. RequestsDue(z, k, v2, w2)
  <2> SUFFICES ASSUME NEW i \in DOMAIN v2, AsksFor(v2[i]), NEW id, id # 0,
                      Belongs(z, v2, v2[i].to, id)
               PROVE  /\ Later(k, w2, id, v2[i].n)
                      /\ v2[i].to \in DOMAIN z.chans /\ z.chans[v2[i].to].wants
                         => Before(z.chans[v2[i].to].asked, v2[i].n)
    BY DEF RequestsDue
  <2>1. PICK j \in DOMAIN v : v2[i] = v[j]
    BY DEF Drawn
  <2>2. Belongs(y, v, v[j].to, id) /\ AsksFor(v[j])
    BY <2>1
  <2>3. /\ Later(k, w, id, v[j].n)
        /\ v[j].to \in DOMAIN y.chans /\ y.chans[v[j].to].wants
           => Before(y.chans[v[j].to].asked, v[j].n)
    BY <1>1, <2>2 DEF RequestsDue
  <2> QED  BY <1>3, <2>1, <2>3 DEF Wishes
<1>6. RequestsClimb(v2)
  BY <1>1 DEF RequestsClimb, Drawn
<1> QED  BY <1>3, <1>4, <1>5, <1>6 DEF AskParts

LEMMA SameBelongs ==
    ASSUME NEW y, NEW z, NEW v, NEW v2, NEW f, Drawn(v, v2, f),
           \A r \in DOMAIN z.chans : r \in DOMAIN y.chans /\ z.chans[r].peer = y.chans[r].peer
    PROVE  \A r, id : Belongs(z, v2, r, id) => Belongs(y, v, r, id)
<1>1. \A i \in DOMAIN v2 : \E j \in DOMAIN v : v2[i] = v[j]
  BY DEF Drawn
<1> QED  BY <1>1 DEF Belongs

\* A request that wants an answer is read, and its answer is left to a task.
LEMMA RequestedKeeps ==
    ASSUME NEW y, NEW k, NEW v, NEW w, AskParts(y, k, v, w),
           NEW z, NEW v2, NEW f, Drawn(v, v2, f), NEW q \in DOMAIN y.chans, NEW d,
           z.chans = With(y.chans, q, d), d.peer = y.chans[q].peer,
           Later(k, w, d.peer, d.asked),
           \A i \in DOMAIN v2 : AsksFor(v2[i]) /\ v2[i].to = q => Before(d.asked, v2[i].n)
    PROVE  AskParts(z, k, v2, w)
<1>1. /\ BelongOnce(y, v) /\ AnswersDue(k, w) /\ WantsDue(y, k, w)
      /\ RequestsDue(y, k, v, w) /\ RequestsClimb(v)
  BY DEF AskParts
<1>2. /\ DOMAIN z.chans = DOMAIN y.chans /\ z.chans[q] = d
      /\ \A r \in DOMAIN y.chans : r # q => z.chans[r] = y.chans[r]
      /\ \A r, id : Belongs(z, v2, r, id) => Belongs(y, v, r, id)
  <2>1. /\ DOMAIN z.chans = DOMAIN y.chans /\ z.chans[q] = d
        /\ \A r \in DOMAIN y.chans : r # q => z.chans[r] = y.chans[r]
    BY DEF With
  <2>2. \A r \in DOMAIN z.chans : r \in DOMAIN y.chans /\ z.chans[r].peer = y.chans[r].peer
    BY <2>1
  <2> QED  BY <2>1, <2>2, SameBelongs
<1>3. BelongOnce(z, v2)
  BY <1>1, <1>2 DEF BelongOnce
<1>4. WantsDue(z, k, w)
  BY <1>1, <1>2 DEF WantsDue
<1>5. RequestsDue(z, k, v2, w)
  <2> SUFFICES ASSUME NEW i \in DOMAIN v2, AsksFor(v2[i]), NEW id, id # 0,
                      Belongs(z, v2, v2[i].to, id)
               PROVE  /\ Later(k, w, id, v2[i].n)
                      /\ v2[i].to \in DOMAIN z.chans /\ z.chans[v2[i].to].wants
                         => Before(z.chans[v2[i].to].asked, v2[i].n)
    BY DEF RequestsDue
  <2>1. PICK j \in DOMAIN v : v2[i] = v[j]
    BY DEF Drawn
  <2>2. Belongs(y, v, v[j].to, id) /\ AsksFor(v[j])
    BY <1>2, <2>1
  <2>3. /\ Later(k, w, id, v[j].n)
        /\ v[j].to \in DOMAIN y.chans /\ y.chans[v[j].to].wants
           => Before(y.chans[v[j].to].asked, v[j].n)
    BY <1>1, <2>2 DEF RequestsDue
  <2> QED  BY <1>2, <2>1, <2>3
<1>6. RequestsClimb(v2)
  BY <1>1 DEF RequestsClimb, Drawn
<1> QED  BY <1>1, <1>3, <1>4, <1>5, <1>6 DEF AskParts

\* A channel is answered: no other channel of the server belongs to the task
\* that asked, so that what is still to be answered comes later.
LEMMA AnsweredKeeps ==
    ASSUME NEW x, NEW y, NEW k, NEW v, NEW w \in Seq(Message), AskParts(y, k, v, w),
           NEW z, NEW out \in Seq(Message), NEW v2, NEW w2, NEW f, Drawn(v, v2, f),
           Longer(x, w, out, w2), NEW q, NEW n, Answered(y, z, out, q, n),
           y.chans[q].peer # 0, Later(k, w, y.chans[q].peer, n),
           \A i \in DOMAIN v2 : AsksFor(v2[i]) /\ v2[i].to = q => Before(n, v2[i].n)
    PROVE  AskParts(z, k, v2, w2)
<1>1. /\ BelongOnce(y, v) /\ AnswersDue(k, w) /\ WantsDue(y, k, w)
      /\ RequestsDue(y, k, v, w) /\ RequestsClimb(v)
  BY DEF AskParts
<1>2. PICK id : id = y.chans[q].peer
  OBVIOUS
<1>3. PICK d : z.chans = With(y.chans, q, d) /\ d.peer = id /\ ~d.wants
  BY <1>2 DEF Answered
<1>4. /\ q \in DOMAIN y.chans
      /\ \A i \in DOMAIN out : i = 1 /\ out[i].t = "ANSWER" /\ out[i].to = id /\ out[i].n = n
  BY <1>2 DEF Answered
<1>5. /\ DOMAIN z.chans = DOMAIN y.chans /\ z.chans[q] = d
      /\ \A r \in DOMAIN y.chans : r # q => z.chans[r] = y.chans[r]
      /\ \A r, i : Belongs(z, v2, r, i) => Belongs(y, v, r, i)
  <2>1. /\ DOMAIN z.chans = DOMAIN y.chans /\ z.chans[q] = d
        /\ \A r \in DOMAIN y.chans : r # q => z.chans[r] = y.chans[r]
    BY <1>3, <1>4 DEF With
  <2>2. \A r \in DOMAIN z.chans : r \in DOMAIN y.chans /\ z.chans[r].peer = y.chans[r].peer
    BY <1>2, <1>3, <2>1
  <2> QED  BY <2>1, <2>2, SameBelongs
<1>6. Belongs(y, v, q, id) /\ \A r : Belongs(y, v, r, id) => r = q
  <2>1. Belongs(y, v, q, id)
    BY <1>2, <1>4 DEF Belongs
  <2> QED  BY <1>1, <1>2, <2>1 DEF BelongOnce
<1>7. \A i \in DOMAIN w2 : \/ i \in DOMAIN w /\ w2[i] = w[i]
                           \/ /\ i = At(w, 1) /\ 1 \in DOMAIN out
                              /\ w2[i].t = "ANSWER" /\ w2[i].to = id /\ w2[i].n = n
  BY <1>4 DEF Longer
<1>8. ASSUME NEW i, NEW a, Later(k, w, i, a), i = id => Before(n, a) PROVE Later(k, w2, i, a)
  BY <1>7, <1>8 DEF Later
<1>9. AnswersDue(k, w2)
  <2>1. \A j \in DOMAIN w2 : w2[j].t = "ANSWER" => Due(k, w2[j].to, w2[j].n)
    BY <1>1, <1>2, <1>7 DEF AnswersDue, Later
  <2>2. ASSUME NEW i \in DOMAIN w2, NEW j \in DOMAIN w2, Before(i, j), w2[i].t = "ANSWER",
               w2[j].t = "ANSWER", w2[i].to = w2[j].to
        PROVE  Before(w2[i].n, w2[j].n)
    <3>1. /\ \A a \in DOMAIN w : 1 \in DOMAIN out => ~Before(At(w, 1), a)
          /\ ~Before(At(w, 1), At(w, 1))
      BY DEF At, Before
    <3>2. CASE j \in DOMAIN w /\ w2[j] = w[j]
      <4>1. i \in DOMAIN w /\ w2[i] = w[i]
        BY <1>7, <2>2, <3>1, <3>2
      <4> QED  BY <1>1, <2>2, <3>2, <4>1 DEF AnswersDue
    <3>3. CASE j = At(w, 1) /\ w2[j].to = id /\ w2[j].n = n
      <4>1. i \in DOMAIN w /\ w2[i] = w[i]
        BY <1>7, <2>2, <3>1, <3>3
      <4> QED  BY <1>2, <2>2, <3>3, <4>1 DEF Later
    <3> QED  BY <1>7, <3>2, <3>3
  <2> QED  BY <2>1, <2>2 DEF AnswersDue
<1>10. BelongOnce(z, v2)
  BY <1>1, <1>5 DEF BelongOnce
<1>11. WantsDue(z, k, w2)
  <2> SUFFICES ASSUME NEW r \in DOMAIN z.chans, z.chans[r].wants
               PROVE  Later(k, w2, z.chans[r].peer, z.chans[r].asked)
    BY DEF WantsDue
  <2>1. r \in DOMAIN y.chans /\ r # q /\ z.chans[r] = y.chans[r]
    BY <1>3, <1>5
  <2>2. Later(k, w, y.chans[r].peer, y.chans[r].asked)
    BY <1>1, <2>1 DEF WantsDue
  <2>3. y.chans[r].peer # id
    BY <1>6, <2>1 DEF Belongs
  <2> QED  BY <1>8, <2>1, <2>2, <2>3
<1>12. RequestsDue(z, k, v2, w2)
  <2> SUFFICES ASSUME NEW i \in DOMAIN v2, AsksFor(v2[i]), NEW a, a # 0,
                      Belongs(z, v2, v2[i].to, a)
               PROVE  /\ Later(k, w2, a, v2[i].n)
                      /\ v2[i].to \in DOMAIN z.chans /\ z.chans[v2[i].to].wants
                         => Before(z.chans[v2[i].to].asked, v2[i].n)
    BY DEF RequestsDue
  <2>1. PICK j \in DOMAIN v : v2[i] = v[j]
    BY DEF Drawn
  <2>2. Belongs(y, v, v[j].to, a) /\ AsksFor(v[j])
    BY <1>5, <2>1
  <2>3. /\ Later(k, w, a, v[j].n)
        /\ v[j].to \in DOMAIN y.chans /\ y.chans[v[j].to].wants
           => Before(y.chans[v[j].to].asked, v[j].n)
    BY <1>1, <2>2 DEF RequestsDue
  <2>4. a = id => Before(n, v[j].n)
    BY <1>6, <2>1, <2>2
  <2>5. Later(k, w2, a, v[j].n)
    BY <1>8, <2>3, <2>4
  <2> QED  BY <1>3, <1>5, <2>1, <2>3, <2>5
<1>13. RequestsClimb(v2)
  BY <1>1 DEF RequestsClimb, Drawn
<1> QED  BY <1>9, <1>10, <1>11, <1>12, <1>13 DEF AskParts

\* A step of the client.
LEMMA ClientAsks ==
    ASSUME Typed, HandInv, AskInv, NEW z, NEW out, NEW k2, NEW w2,
           Steps("client", z, out, k2, w2)
    PROVE  AskInv'
<1> DEFINE x == ses["client"]
           y == ses["server"]
           k == task["client"]
           l == task["server"]
           v == wire["client"]
           w == wire["server"]
           n == left.opens["client"]
<1>1. "client" \in Sides /\ Peer("client") = "server"
  BY DEF Sides, Peer
<1>2. Both("client", "server", x, y, k, l, v, w)
  BY <1>1, BothSides
<1>3. PICK v2 : v2 = wire'["client"]
  OBVIOUS
<1>4. /\ ses'["client"] = z /\ ses'["server"] = y /\ task'["client"] = k2 /\ wire'["server"] = w2
      /\ Longer(y, v, out, v2)
  BY <1>1, <1>3, StepsAfter
<1>5. /\ x.end = "no"
      /\ \/ /\ w # <<>> /\ Took("client", x, k, Head(w), z, out, k2)
            /\ w2 = IF z.end = "no" THEN Tail(w) ELSE <<>>
         \/ /\ Did("client", x, k, n, z, out, k2)
            /\ w2 = IF z.end = "no" THEN w ELSE <<>>
  BY <1>1 DEF Steps
<1>6. OwnAnswers(k) /\ AskParts(y, k, v, w)
  BY <1>5 DEF AskInv, Alive
<1>7. /\ x \in Session /\ k \in Tasks /\ w \in Seq(Message)
      /\ Numbered(x, y, k, v) /\ Handshake(x, y, k, v, w)
  BY <1>2 DEF Both, Hand
<1>8. Facts("client", "server", x, y, v, w)
  BY <1>2, BothFacts
<1> HIDE DEF x, y, k, l, v, w, n
<1>9. Rest(w, w2)
  BY <1>5 DEF Rest
<1>10. OwnAnswers(k2) /\ (z.end = "no" => AskParts(y, k2, v2, w2))
  <2>1. CASE Placid(k, out, k2)
    <3>1. AskParts(y, k2, v2, w2)
      BY <1>4, <1>6, <1>7, <1>9, <2>1, CalmKeeps
    <3> QED  BY <2>1, <3>1 DEF Placid
  <2>2. CASE /\ w # <<>> /\ Took("client", x, k, Head(w), z, out, k2)
             /\ w2 = IF z.end = "no" THEN Tail(w) ELSE <<>>
    <3>1. PICK m : m = Head(w)
      OBVIOUS
    <3>2. 1 \in DOMAIN w /\ m = w[1] /\ m \in Message
      BY <1>7, <2>2, <3>1, TailFacts
    <3>3. m.t \in Verdicts => Pends(x, k, m.to)
      BY <1>7, <3>2 DEF Handshake
    <3>4. Placid(k, out, k2) \/ Accepting(x, k, m, out, k2) \/ Hearing(k, m, out, k2)
      BY <1>5, <1>6, <1>7, <2>2, <3>1, <3>2, <3>3, TookAsks
    <3>5. CASE Accepting(x, k, m, out, k2)
      <4>1. TookOpen("client", x, k, m, z, out, k2)
        BY <2>2, <3>1, <3>5 DEF Took, Accepting
      <4>2. w2 = Tail(w)
        BY <1>5, <2>2, <4>1 DEF TookOpen, Shift
      <4> QED  BY <1>2, <1>4, <1>6, <2>2, <3>1, <3>5, <4>2, AcceptingKeeps
    <3>6. CASE Hearing(k, m, out, k2)
      <4>1. TookAnswer(x, k, m, z, out, k2)
        BY <2>2, <3>1, <3>6 DEF Took, Hearing
      <4>2. w2 = Tail(w)
        BY <1>5, <2>2, <4>1 DEF TookAnswer
      <4> QED  BY <1>4, <1>6, <1>7, <2>2, <3>1, <3>6, <4>2, HearingKeeps
    <3> QED  BY <2>1, <3>4, <3>5, <3>6
  <2>3. CASE /\ Did("client", x, k, n, z, out, k2)
             /\ w2 = IF z.end = "no" THEN w ELSE <<>>
    <3>1. x.last + 1 \notin DOMAIN k
      BY <1>7, <1>8 DEF Numbered, Facts
    <3>2. Placid(k, out, k2) \/ \E id : Asking(x, k, out, k2, id)
      BY <1>6, <1>7, <2>3, <3>1, DidAsks
    <3>3. ASSUME NEW id, Asking(x, k, out, k2, id)
          PROVE  OwnAnswers(k2) /\ (z.end = "no" => AskParts(y, k2, v2, w2))
      <4>1. AskParts(y, k2, v2, w)
        BY <1>2, <1>4, <1>6, <3>3, AskingKeeps
      <4> QED  BY <2>3, <3>3, <4>1 DEF Asking
    <3> QED  BY <2>1, <3>2, <3>3
  <2> QED  BY <1>5, <2>2, <2>3
<1> QED  BY <1>3, <1>4, <1>10 DEF AskInv, Alive

\* A step of the server.
LEMMA ServerAsks ==
    ASSUME Typed, HandInv, AskInv, NEW z, NEW out, NEW l2, NEW v2,
           Steps("server", z, out, l2, v2)
    PROVE  AskInv'
<1> DEFINE x == ses["client"]
           y == ses["server"]
           k == task["client"]
           l == task["server"]
           v == wire["client"]
           w == wire["server"]
           n == left.opens["server"]
<1>1. "server" \in Sides /\ Peer("server") = "client"
  BY DEF Sides, Peer
<1>2. Both("server", "client", y, x, l, k, w, v)
  BY <1>1, BothSides
<1>3. PICK w2 : w2 = wire'["server"]
  OBVIOUS
<1>4. /\ ses'["server"] = z /\ ses'["client"] = x /\ task'["client"] = k /\ wire'["client"] = v2
      /\ Longer(x, w, out, w2)
  BY <1>1, <1>3, StepsAfter
<1>5. w2 = IF x.end = "no" THEN w \o out ELSE <<>>
  BY <1>1, <1>3, StepsAfter
<1>6. /\ y.end = "no" /\ out \in Seq(Message)
      /\ Moves("server", y, l, n, v, z, out, l2, v2)
      /\ \/ /\ v # <<>> /\ Took("server", y, l, Head(v), z, out, l2)
            /\ v2 = IF z.end = "no" THEN Tail(v) ELSE <<>>
         \/ /\ Did("server", y, l, n, z, out, l2)
            /\ v2 = IF z.end = "no" THEN v ELSE <<>>
  BY <1>1 DEF Steps, Proper
<1>7. OwnAnswers(k) /\ (x.end = "no" => AskParts(y, k, v, w))
  BY DEF AskInv, Alive
<1>8. /\ y \in Session /\ l \in Tasks /\ v \in Seq(Message) /\ w \in Seq(Message)
      /\ Handshake(y, x, l, w, v) /\ Numbered(x, y, k, v) /\ ConfirmFirst(y, v)
  BY <1>2 DEF Both, Hand
<1>9. Facts("server", "client", y, x, w, v)
  BY <1>2, BothFacts
<1> HIDE DEF x, y, k, l, v, w, n
<1>10. ASSUME x.end = "no" PROVE AskParts(z, k, v2, w2)
  <2>1. /\ AskParts(y, k, v, w) /\ BelongOnce(y, v) /\ WantsDue(y, k, w)
        /\ RequestsDue(y, k, v, w) /\ RequestsClimb(v)
    BY <1>7, <1>10 DEF AskParts
  <2>2. Rest(v, v2)
    BY <1>6 DEF Rest
  <2>3. PICK f : /\ Drawn(v, v2, f)
                 /\ v # <<>> /\ v2 = Tail(v) => \A i \in DOMAIN v2 : Before(1, f[i])
    BY <1>8, <2>2, RestDrawn
  <2>4. 0 \notin DOMAIN k
    BY <1>8, <1>9 DEF Numbered, Facts
  <2>5. \A i \in DOMAIN v : AsksFor(v[i]) => Given(y.last, v[i].to)
    BY <1>8 DEF Numbered, AsksFor, OnChannel
  <2>6. /\ BelongOnce(z, v2)
        /\ \A q, id : id # 0 /\ Given(y.last, q) /\ Belongs(z, v2, q, id) => Belongs(y, v, q, id)
    BY <1>2, <1>6, <1>10, <2>1, <2>2, MovesBelong
  <2>7. CASE Wishes(y, z) /\ NoAnswer(out)
    BY <1>4, <2>1, <2>3, <2>4, <2>5, <2>6, <2>7, PlainKeeps
  <2>8. CASE /\ v # <<>> /\ Took("server", y, l, Head(v), z, out, l2)
             /\ v2 = IF z.end = "no" THEN Tail(v) ELSE <<>>
    <3>1. PICK m : m = Head(v)
      OBVIOUS
    <3>2. 1 \in DOMAIN v /\ m = v[1] /\ m \in Message
      BY <1>8, <2>8, <3>1, TailFacts
    <3>3. CASE m.t # "REQUEST"
      <4>1. m.t \in Verdicts => Pends(y, l, m.to)
        BY <1>8, <3>2 DEF Handshake
      <4>2. Wishes(y, z) /\ NoAnswer(out)
        BY <1>6, <1>8, <2>8, <3>1, <3>2, <3>3, <4>1, TookWants
      <4> QED  BY <2>7, <4>2
    <3>4. CASE m.t = "REQUEST"
      <4>1. TookRequest(y, m, z, out)
        BY <2>8, <3>1, <3>4 DEF Took
      <4>a. out = <<>> \/ Astray(m, out) => NoAnswer(out)
        BY NoMessage DEF NoAnswer, Astray
      <4>2. CASE (out = <<>> \/ Astray(m, out)) /\ Still(y, z)
        <5>1. Wishes(y, z) /\ NoAnswer(out)
          BY <4>2, <4>a, WishSame DEF Still, Shift
        <5> QED  BY <2>7, <5>1
      <4>3. CASE m.to \in DOMAIN y.chans
        <5>1. PICK q, id : q = m.to /\ id = y.chans[q].peer
          OBVIOUS
        <5>2. q \in DOMAIN y.chans /\ id # 0
          <6>1. m.t \in Plain
            BY <3>4 DEF Plain
          <6> QED  BY <1>8, <2>8, <3>1, <4>3, <5>1, <6>1, HeadConfirmed
        <5>3. PICK d : /\ Puts(y, z, q, d) /\ d.peer = id /\ d.asked = m.n
                       /\ \/ d.wants = m.wants /\ (out = <<>> \/ Astray(m, out))
                          \/ m.wants /\ ~d.wants /\ out = <<OnWith(y, q, "ANSWER", m.n)>>
          BY <4>1, <5>1, <5>2 DEF TookRequest, Twin
        <5>4. z.chans = With(y.chans, q, d) /\ z.end = "no"
          BY <1>6, <5>3 DEF Puts, Same
        <5>5. v2 = Tail(v)
          BY <2>8, <5>4
        <5>6. CASE ~d.wants /\ (out = <<>> \/ Astray(m, out))
          <6>1. Wishes(y, z) /\ NoAnswer(out)
            BY <4>a, <5>4, <5>6, WishNew
          <6> QED  BY <2>7, <6>1
        <5>7. CASE m.wants
          <6>1. AsksFor(m) /\ Belongs(y, v, q, id)
            BY <3>4, <5>1, <5>2, <5>7 DEF AsksFor, Belongs
          <6>2. Later(k, w, id, m.n)
            BY <2>1, <3>2, <5>1, <5>2, <6>1 DEF RequestsDue
          <6>3. ASSUME NEW i \in DOMAIN v2, AsksFor(v2[i]), v2[i].to = q PROVE Before(m.n, v2[i].n)
            <7>1. f[i] \in DOMAIN v /\ v2[i] = v[f[i]] /\ Before(1, f[i])
              BY <2>3, <2>8, <5>5 DEF Drawn
            <7> QED  BY <2>1, <3>2, <5>1, <6>1, <6>3, <7>1 DEF RequestsClimb
          <6>4. CASE out = <<>>
            <7>1. w2 = w
              BY <1>8, <1>10, <1>5, <6>4
            <7>2. AskParts(z, k, v2, w)
              BY <2>1, <2>3, <5>1, <5>2, <5>3, <5>4, <6>2, <6>3, RequestedKeeps
            <7> QED  BY <7>1, <7>2
          <6>5. CASE ~d.wants /\ out = <<OnWith(y, q, "ANSWER", m.n)>>
            <7>1. \A i \in DOMAIN out : /\ i = 1 /\ out[i].t = "ANSWER"
                                       /\ out[i].to = id /\ out[i].n = m.n
              BY <5>1, <6>5 DEF OnWith
            <7>2. Answered(y, z, out, q, m.n)
              BY <5>1, <5>2, <5>3, <5>4, <6>5, <7>1 DEF Answered
            <7> QED  BY <1>4, <1>6, <1>8, <2>1, <2>3, <5>1, <5>2, <6>2, <6>3, <7>2, AnsweredKeeps
          <6>6. CASE d.wants = m.wants /\ Astray(m, out)
            <7>1. AskParts(z, k, v2, w)
              BY <2>1, <2>3, <5>1, <5>2, <5>3, <5>4, <6>2, <6>3, RequestedKeeps
            <7> QED  BY <1>4, <4>a, <6>6, <7>1, SilentKeeps
          <6> QED  BY <5>3, <6>4, <6>5, <6>6
        <5> QED  BY <5>3, <5>6, <5>7
      <4> QED  BY <4>1, <4>2, <4>3 DEF TookRequest
    <3> QED  BY <3>3, <3>4
  <2>9. CASE /\ Did("server", y, l, n, z, out, l2)
             /\ v2 = IF z.end = "no" THEN v ELSE <<>>
    <3>1. \/ Wishes(y, z) /\ NoAnswer(out)
          \/ \E q \in DOMAIN y.chans : y.chans[q].wants /\ Answered(y, z, out, q, y.chans[q].asked)
      BY <1>8, <2>9, DidWants
    <3>2. ASSUME NEW q \in DOMAIN y.chans, y.chans[q].wants,
                 Answered(y, z, out, q, y.chans[q].asked)
          PROVE  AskParts(z, k, v2, w2)
      <4>1. PICK id, a : id = y.chans[q].peer /\ a = y.chans[q].asked
        OBVIOUS
      <4>2. Later(k, w, id, a)
        BY <2>1, <3>2, <4>1 DEF WantsDue
      <4>3. id # 0
        BY <2>4, <4>2 DEF Later, Due
      <4>4. ASSUME NEW i \in DOMAIN v2, AsksFor(v2[i]), v2[i].to = q PROVE Before(a, v2[i].n)
        <5>1. PICK j \in DOMAIN v : v2[i] = v[j]
          BY <2>3 DEF Drawn
        <5>2. Belongs(y, v, q, id)
          BY <4>1 DEF Belongs
        <5> QED  BY <2>1, <3>2, <4>1, <4>3, <4>4, <5>1, <5>2 DEF RequestsDue
      <4> QED  BY <1>4, <1>6, <1>8, <2>1, <2>3, <3>2, <4>1, <4>2, <4>3, <4>4, AnsweredKeeps
    <3> QED  BY <2>7, <3>1, <3>2
  <2> QED  BY <1>6, <2>8, <2>9
<1> QED  BY <1>3, <1>4, <1>7, <1>10 DEF AskInv, Alive, k

\* The answers a task of the client sees are to its requests, in the order it
\* made them and none of them twice, for any number of channels, requests and
\* answers: the server keeps one request of a channel in mind, and answers it
\* at once, later, or, when the next one comes first, never.
THEOREM AnswersComeInOrder == Spec => []AnswersInOrder
<1>1. Init => AskInv
  <2> SUFFICES ASSUME Init PROVE AskInv
    OBVIOUS
  <2>1. "server" \in Sides /\ "client" \in Sides
    BY DEF Sides
  <2>2. /\ ses["server"].chans = <<>> /\ task["client"] = <<>>
        /\ wire["client"] = <<>> /\ wire["server"] = <<>>
    BY <2>1 DEF Init
  <2>3. /\ DOMAIN ses["server"].chans = {} /\ DOMAIN task["client"] = {}
        /\ DOMAIN wire["client"] = {} /\ DOMAIN wire["server"] = {}
    BY <2>2, TablesEmpty
  <2> QED  BY <2>3 DEF AskInv, AskParts, OwnAnswers, BelongOnce, Belongs, AnswersDue, WantsDue,
                       RequestsDue, RequestsClimb
<1>2. Typed /\ HandInv /\ AskInv /\ [Next]_vars => AskInv'
  <2> SUFFICES ASSUME Typed, HandInv, AskInv, [Next]_vars PROVE AskInv'
    OBVIOUS
  <2>1. CASE UNCHANGED vars
    BY <2>1 DEF vars, AskInv, Alive
  <2>2. ASSUME NEW s \in Sides, NEW z, NEW out, NEW k2, NEW w2, Steps(s, z, out, k2, w2)
        PROVE  AskInv'
    <3>1. s = "client" \/ s = "server"
      BY DEF Sides
    <3> QED  BY <2>2, <3>1, ClientAsks, ServerAsks
  <2>3. ASSUME NEW s \in Sides, NEW id, NEW k2, Losing(s, id, k2) PROVE AskInv'
    <3>1. /\ task'[s] = k2 /\ task'[Peer(s)] = task[Peer(s)]
          /\ ses' = ses /\ wire' = wire
      BY <2>3, LosingAfter
    <3>2. CASE s = "server"
      <4>1. Peer(s) = "client"
        BY <3>2 DEF Peer
      <4> QED  BY <3>1, <4>1 DEF AskInv, Alive
    <3>3. CASE s = "client"
      <4>1. PICK k : k = task["client"]
        OBVIOUS
      <4>2. /\ k \in Tasks /\ id \in DOMAIN k /\ OwnAnswers(k) /\ ~Alive("client")
            /\ Tells(k, k2, id, "lost", k[id].eof, k[id].asks)
        BY <2>3, <3>3, <4>1 DEF Losing, Typed, AskInv
      <4>3. "lost" \notin {"wait", "quit"}
        OBVIOUS
      <4>4. OwnAnswers(k2)
        BY <4>2, <4>3, AsksTell
      <4> QED  BY <3>1, <3>3, <4>2, <4>4 DEF AskInv, Alive
    <3> QED  BY <3>2, <3>3 DEF Sides
  <2> QED  BY <2>1, <2>2, <2>3, NextMoves
<1>3. Typed /\ AskInv => AnswersInOrder
  <2> SUFFICES ASSUME Typed, AskInv, NEW id \in DOMAIN task["client"]
               PROVE  LET a == task["client"][id].answers
                      IN  /\ \A i \in DOMAIN a : a[i] <= task["client"][id].asks
                          /\ \A i, j \in DOMAIN a : i < j => a[i] < a[j]
    BY DEF AnswersInOrder
  <2>1. PICK e : e = task["client"][id]
    OBVIOUS
  <2>2. Ascending(e.answers) /\ \A n : Waited(e.answers, n) => Counted(e.asks, n)
    BY <2>1 DEF AskInv, OwnAnswers
  <2>3. e.asks \in Nat
    <3>1. task["client"] \in Tasks
      BY DEF Typed, Sides
    <3> QED  BY <2>1, <3>1, TasksFacts, OneTaskFacts
  <2>4. \A i \in DOMAIN e.answers : Counted(e.asks, e.answers[i])
    BY <2>2 DEF Waited
  <2>5. \A i \in DOMAIN e.answers : e.answers[i] <= e.asks
    BY <2>3, <2>4 DEF Counted
  <2>6. \A i, j \in DOMAIN e.answers : i < j => e.answers[i] < e.answers[j]
    BY <2>2 DEF Ascending, Before
  <2> QED  BY <2>1, <2>5, <2>6
<1> QED  BY <1>1, <1>2, <1>3, HandshakeHolds, PTL DEF Spec

-----------------------------------------------------------------------------
\* The window of a channel: what the sender may still send, the data under
\* way and the grants under way are together what the receiver counts.

\* What message m counts for on channel id: a unit of data, or its grant.
Weight(m, t, id) ==
    IF m.t = t /\ m.to = id THEN (IF t = "DATA" THEN 1 ELSE m.n) ELSE 0

\* The messages on w count for n in all: c[i] is what the first i do.
Totals(w, t, id, n) ==
    \E c \in [0 .. Len(w) -> Nat] :
        /\ c[0] = 0 /\ c[Len(w)] = n
        /\ \A i, j \in 0 .. Len(w) : i <= j => c[i] <= c[j]
        /\ \A i \in 1 .. Len(w) : c[i] = c[i - 1] + Weight(w[i], t, id)

Counts == {"DATA", "ADJUST"}

LEMMA WeightNat ==
    ASSUME NEW m \in Message, NEW t \in Counts, NEW id
    PROVE  Weight(m, t, id) \in Nat
<1>1. m.t = "ADJUST" => m.n \in Nat
  BY DEF Message
<1> QED  BY <1>1 DEF Weight, Counts

LEMMA TotalsNone ==
    ASSUME NEW w \in Seq(Message), NEW t, NEW id,
           \A i \in DOMAIN w : Weight(w[i], t, id) = 0
    PROVE  Totals(w, t, id, 0)
<1> DEFINE c == [i \in 0 .. Len(w) |-> 0]
<1>1. c \in [0 .. Len(w) -> Nat] /\ c[0] = 0 /\ c[Len(w)] = 0
  OBVIOUS
<1>2. \A i, j \in 0 .. Len(w) : i <= j => c[i] <= c[j]
  OBVIOUS
<1>3. \A i \in 1 .. Len(w) : c[i] = c[i - 1] + Weight(w[i], t, id)
  <2>1. \A i \in 1 .. Len(w) : Weight(w[i], t, id) = 0 /\ i \in 0 .. Len(w) /\ i - 1 \in 0 .. Len(w)
    OBVIOUS
  <2> QED  BY <2>1
<1> HIDE DEF c
<1> QED  BY <1>1, <1>2, <1>3 DEF Totals

LEMMA TotalsOne ==
    ASSUME NEW m \in Message, NEW t \in Counts, NEW id, NEW w, w = <<m>>
    PROVE  Totals(w, t, id, Weight(m, t, id))
<1>1. PICK u \in Nat : u = Weight(m, t, id)
  BY WeightNat
<1>2. Len(w) = 1 /\ w[1] = m
  OBVIOUS
<1> DEFINE c == [i \in 0 .. 1 |-> IF i = 0 THEN 0 ELSE u]
<1>3. /\ c \in [0 .. 1 -> Nat] /\ c[0] = 0 /\ c[1] = u
      /\ \A i, j \in 0 .. 1 : i <= j => c[i] <= c[j]
  OBVIOUS
<1>4. \A i \in 1 .. 1 : c[i] = c[i - 1] + Weight(w[i], t, id)
  BY <1>1, <1>2, <1>3
<1> HIDE DEF c
<1> QED  BY <1>1, <1>2, <1>3, <1>4 DEF Totals

LEMMA TotalsEmpty ==
    ASSUME NEW w, w = <<>>, NEW t, NEW id, NEW n, Totals(w, t, id, n)
    PROVE  n = 0
BY DEF Totals

LEMMA TotalsNat ==
    ASSUME NEW w \in Seq(Message), NEW t, NEW id, NEW n, Totals(w, t, id, n)
    PROVE  n \in Nat
BY DEF Totals

LEMMA TotalsJoin ==
    ASSUME NEW v \in Seq(Message), NEW out \in Seq(Message), NEW t \in Counts, NEW id,
           NEW n, NEW m, Totals(v, t, id, n), Totals(out, t, id, m)
    PROVE  Totals(v \o out, t, id, n + m)
<1>1. PICK c \in [0 .. Len(v) -> Nat] :
        /\ c[0] = 0 /\ c[Len(v)] = n
        /\ \A i, j \in 0 .. Len(v) : i <= j => c[i] <= c[j]
        /\ \A i \in 1 .. Len(v) : c[i] = c[i - 1] + Weight(v[i], t, id)
  BY DEF Totals
<1>2. PICK e \in [0 .. Len(out) -> Nat] :
        /\ e[0] = 0 /\ e[Len(out)] = m
        /\ \A i, j \in 0 .. Len(out) : i <= j => e[i] <= e[j]
        /\ \A i \in 1 .. Len(out) : e[i] = e[i - 1] + Weight(out[i], t, id)
  BY DEF Totals
<1>3. PICK a \in Nat, b \in Nat : a = Len(v) /\ b = Len(out)
  OBVIOUS
<1>4. n \in Nat /\ m \in Nat
  BY <1>1, <1>2
<1> DEFINE f == [i \in 0 .. a + b |-> IF i <= a THEN c[i] ELSE n + e[i - a]]
           q == v \o out
<1>5. Len(q) = a + b /\ q \in Seq(Message)
  BY <1>3
<1>6. \A i \in 0 .. a + b : IF i <= a THEN i \in 0 .. a ELSE i - a \in 0 .. b /\ i - a \in 1 .. b
  BY <1>3
<1>7. \A i \in 0 .. a + b : f[i] = (IF i <= a THEN c[i] ELSE n + e[i - a]) /\ f[i] \in Nat
  <2>1. \A i \in 0 .. a + b : f[i] = IF i <= a THEN c[i] ELSE n + e[i - a]
    OBVIOUS
  <2>2. \A i \in 0 .. a : c[i] \in Nat
    BY <1>1, <1>3
  <2>3. \A i \in 0 .. b : n + e[i] \in Nat
    <3>1. \A i \in 0 .. b : e[i] \in Nat
      BY <1>2, <1>3
    <3> QED  BY <1>4, <3>1
  <2> HIDE DEF f
  <2> QED  BY <1>6, <2>1, <2>2, <2>3
<1>8. f \in [0 .. a + b -> Nat] /\ f[0] = 0
  BY <1>1, <1>3, <1>7
<1>9. f[a + b] = n + m
  <2>1. CASE b = 0
    BY <1>1, <1>2, <1>3, <1>7, <2>1
  <2>2. CASE b # 0
    <3>1. ~(a + b <= a) /\ (a + b) - a = b /\ a + b \in 0 .. a + b
      BY <1>3, <2>2
    <3> HIDE DEF f
    <3> QED  BY <1>2, <1>3, <1>7, <3>1
  <2> QED  BY <2>1, <2>2
<1> HIDE DEF f
<1>10. ASSUME NEW i \in 0 .. a + b, NEW j \in 0 .. a + b, i <= j PROVE f[i] <= f[j]
  <2>1. CASE j <= a
    <3>1. i <= a /\ i \in 0 .. a /\ j \in 0 .. a
      BY <1>3, <1>10, <2>1
    <3> QED  BY <1>1, <1>3, <1>7, <1>10, <2>1, <3>1
  <2>2. CASE i <= a /\ ~(j <= a)
    <3>1. i \in 0 .. a /\ a \in 0 .. a /\ j - a \in 0 .. b
      BY <1>3, <2>2
    <3>2. c[i] <= n /\ c[i] \in Nat /\ e[j - a] \in Nat
      BY <1>1, <1>2, <1>3, <2>2, <3>1
    <3>3. f[i] = c[i] /\ f[j] = n + e[j - a]
      BY <1>7, <2>2
    <3> QED  BY <1>4, <3>2, <3>3
  <2>3. CASE ~(i <= a)
    <3>1. ~(j <= a) /\ i - a \in 0 .. b /\ j - a \in 0 .. b /\ i - a <= j - a
      BY <1>3, <1>10, <2>3
    <3>2. e[i - a] <= e[j - a] /\ e[i - a] \in Nat /\ e[j - a] \in Nat
      BY <1>2, <1>3, <3>1
    <3>3. f[i] = n + e[i - a] /\ f[j] = n + e[j - a]
      BY <1>7, <2>3, <3>1
    <3> QED  BY <1>4, <3>2, <3>3
  <2> QED  BY <2>1, <2>2, <2>3
<1>11. ASSUME NEW i \in 1 .. a + b PROVE f[i] = f[i - 1] + Weight(q[i], t, id)
  <2>1. i \in 0 .. a + b /\ i - 1 \in 0 .. a + b /\ i \in Nat
    BY <1>3, <1>11
  <2>2. CASE i <= a
    <3>1. i \in 1 .. a /\ i - 1 <= a /\ q[i] = v[i]
      BY <1>3, <1>11, <2>2
    <3>2. f[i] = c[i] /\ f[i - 1] = c[i - 1]
      BY <1>7, <2>1, <2>2, <3>1
    <3> QED  BY <1>1, <1>3, <3>1, <3>2
  <2>3. CASE ~(i <= a)
    <3>1. i - a \in 1 .. b /\ q[i] = out[i - a]
      BY <1>3, <1>11, <2>3
    <3>2. f[i] = n + e[i - a]
      BY <1>7, <2>1, <2>3
    <3>3. PICK u : u = Weight(q[i], t, id)
      OBVIOUS
    <3>4. e[i - a] = e[(i - a) - 1] + u /\ e[(i - a) - 1] \in Nat /\ e[i - a] \in Nat
      <4>1. (i - a) - 1 \in 0 .. b /\ i - a \in 0 .. b
        BY <1>3, <3>1
      <4>2. e[(i - a) - 1] \in Nat /\ e[i - a] \in Nat
        BY <1>2, <1>3, <4>1
      <4> QED  BY <1>2, <1>3, <3>1, <3>3, <4>2
    <3>5. f[i - 1] = n + e[(i - a) - 1]
      <4>1. CASE i - 1 <= a
        <5>1. i - 1 = a /\ (i - a) - 1 = 0
          <6>1. a \in Nat /\ i \in Nat
            BY <2>1
          <6> HIDE DEF q
          <6> QED  BY <2>3, <4>1, <6>1
        <5>2. f[i - 1] = c[a]
          BY <1>7, <2>1, <4>1, <5>1
        <5> QED  BY <1>1, <1>2, <1>3, <1>4, <5>1, <5>2
      <4>2. CASE ~(i - 1 <= a)
        <5>1. (i - 1) - a = (i - a) - 1
          BY <1>3, <2>1
        <5> QED  BY <1>7, <2>1, <4>2, <5>1
      <4> QED  BY <4>1, <4>2
    <3>6. PICK g : g = e[(i - a) - 1]
      OBVIOUS
    <3>7. f[i] = n + (g + u) /\ f[i - 1] = n + g /\ g \in Nat /\ g + u \in Nat
      BY <3>2, <3>4, <3>5, <3>6
    <3>8. u \in Nat
      <4>1. q[i] \in Message
        BY <1>5, <1>11
      <4> QED  BY <3>3, <4>1, WeightNat
    <3>9. f[i] = f[i - 1] + u
      BY <1>4, <3>7, <3>8
    <3> QED  BY <3>3, <3>9
  <2> QED  BY <2>2, <2>3
<1> QED  BY <1>3, <1>4, <1>5, <1>8, <1>9, <1>10, <1>11 DEF Totals

LEMMA TotalsTail ==
    ASSUME NEW w \in Seq(Message), w # <<>>, NEW t \in Counts, NEW id, NEW n,
           Totals(w, t, id, n)
    PROVE  LET u == Weight(Head(w), t, id)
           IN  n - u \in Nat /\ Totals(Tail(w), t, id, n - u)
<1>1. PICK c \in [0 .. Len(w) -> Nat] :
        /\ c[0] = 0 /\ c[Len(w)] = n
        /\ \A i, j \in 0 .. Len(w) : i <= j => c[i] <= c[j]
        /\ \A i \in 1 .. Len(w) : c[i] = c[i - 1] + Weight(w[i], t, id)
  BY DEF Totals
<1>2. PICK a \in Nat : a = Len(w) /\ a >= 1
  OBVIOUS
<1>3. PICK q : q = Tail(w)
  OBVIOUS
<1>4. /\ q \in Seq(Message) /\ Len(q) = a - 1 /\ Head(w) = w[1] /\ w[1] \in Message
      /\ \A i \in 1 .. a - 1 : q[i] = w[i + 1]
  BY <1>2, <1>3
<1>5. PICK u \in Nat : u = Weight(Head(w), t, id)
  BY <1>4, WeightNat
<1>6. c[1] = u /\ n \in Nat /\ u <= n
  <2>1. 1 \in 1 .. a /\ 1 \in 0 .. a /\ a \in 0 .. a /\ 1 <= a /\ 1 - 1 = 0
    BY <1>2
  <2>2. c[1] = c[0] + u
    BY <1>1, <1>2, <1>4, <1>5, <2>1
  <2> QED  BY <1>1, <1>2, <2>1, <2>2
<1> DEFINE f == [i \in 0 .. a - 1 |-> c[i + 1] - u]
<1>7. \A i \in 0 .. a - 1 : /\ i + 1 \in 1 .. a /\ c[i + 1] \in Nat /\ u <= c[i + 1]
                            /\ f[i] = c[i + 1] - u /\ f[i] \in Nat
  <2>1. \A i \in 0 .. a - 1 : i + 1 \in 1 .. a /\ i + 1 \in 0 .. a /\ 1 \in 0 .. a /\ 1 <= i + 1
    BY <1>2
  <2>2. \A i \in 0 .. a - 1 : c[i + 1] \in Nat /\ u <= c[i + 1]
    BY <1>1, <1>2, <1>6, <2>1
  <2> QED  BY <1>5, <2>1, <2>2
<1>8. f \in [0 .. a - 1 -> Nat]
  BY <1>7
<1>9. f[0] = 0 /\ f[a - 1] = n - u
  <2>1. 0 \in 0 .. a - 1 /\ a - 1 \in 0 .. a - 1 /\ 0 + 1 = 1 /\ (a - 1) + 1 = a
    BY <1>2
  <2> HIDE DEF f
  <2> QED  BY <1>1, <1>2, <1>6, <1>7, <2>1
<1> HIDE DEF f
<1>10. ASSUME NEW i \in 0 .. a - 1, NEW j \in 0 .. a - 1, i <= j PROVE f[i] <= f[j]
  <2>1. i + 1 \in 0 .. a /\ j + 1 \in 0 .. a /\ i + 1 <= j + 1
    BY <1>2, <1>10
  <2>2. c[i + 1] <= c[j + 1]
    BY <1>1, <1>2, <2>1
  <2> QED  BY <1>7, <2>2
<1>11. ASSUME NEW i \in 1 .. a - 1 PROVE f[i] = f[i - 1] + Weight(q[i], t, id)
  <2>1. i \in 0 .. a - 1 /\ i - 1 \in 0 .. a - 1 /\ i + 1 \in 1 .. a /\ (i + 1) - 1 = i /\ (i - 1) + 1 = i
    BY <1>2, <1>11
  <2>2. PICK g : g = Weight(q[i], t, id)
    OBVIOUS
  <2>3. q[i] = w[i + 1] /\ q[i] \in Message
    BY <1>4, <1>11
  <2>4. g \in Nat
    BY <2>2, <2>3, WeightNat
  <2>5. c[i + 1] = c[i] + g
    BY <1>1, <1>2, <2>1, <2>2, <2>3
  <2>6. f[i] = c[i + 1] - u /\ f[i - 1] = c[i] - u /\ c[i] \in Nat
    BY <1>7, <2>1
  <2> QED  BY <2>2, <2>4, <2>5, <2>6
<1>12. Totals(q, t, id, n - u)
  BY <1>2, <1>4, <1>8, <1>9, <1>10, <1>11 DEF Totals
<1>13. n - u \in Nat
  BY <1>6
<1> QED  BY <1>3, <1>5, <1>12, <1>13

\* The data that flush_pending writes.
LEMMA TotalsFlushed ==
    ASSUME NEW x \in Session, NEW id \in DOMAIN x.chans, NEW out, NEW n \in Nat,
           NEW eof \in BOOLEAN, NEW rest \in {0, 1}, Flushed(out, x, id, n, eof, rest),
           rest = 1 => out[Len(out)] = On(x, id, "CLOSE")
    PROVE  Totals(out, "DATA", x.chans[id].peer, n)
<1>1. PICK a \in Nat : a = Len(out) /\ a = n + (IF eof THEN 1 ELSE 0) + rest
  BY DEF Flushed
<1>2. \A t : On(x, id, t).t = t /\ On(x, id, t).to = x.chans[id].peer
  BY DEF On
<1>3. PICK q : q = x.chans[id].peer
  OBVIOUS
<1>4. /\ n <= a
      /\ \A i \in 1 .. a : IF i <= n THEN out[i] = On(x, id, "DATA")
                            ELSE out[i] = On(x, id, "EOF") \/ out[i] = On(x, id, "CLOSE")
  BY <1>1 DEF Flushed
<1>5. \A i \in 1 .. a : Weight(out[i], "DATA", q) = IF i <= n THEN 1 ELSE 0
  BY <1>2, <1>3, <1>4 DEF Weight
<1> DEFINE c == [i \in 0 .. a |-> IF i <= n THEN i ELSE n]
<1>6. /\ c \in [0 .. a -> Nat] /\ c[0] = 0 /\ c[a] = n
      /\ \A i, j \in 0 .. a : i <= j => c[i] <= c[j]
  BY <1>4
<1>7. \A i \in 1 .. a : c[i] = c[i - 1] + (IF i <= n THEN 1 ELSE 0)
  OBVIOUS
<1> HIDE DEF c
<1>8. \A i \in 1 .. a : c[i] = c[i - 1] + Weight(out[i], "DATA", q)
  BY <1>5, <1>7
<1> QED  BY <1>1, <1>3, <1>6, <1>8 DEF Totals

\* The invariant: x and y are the sessions of a side and of its peer, v what
\* the side has written and w what the peer has.

\* What a side counts on a channel, by itself.
SoundChan(c) ==
    /\ c.own \in 1 .. Window
    /\ c.peer = 0 => c.win = 0 /\ c.pend = 0
    /\ c.pend > 0 => c.win = 0
    /\ c.confirmed => c.peer # 0
Sound(x) == \A id \in DOMAIN x.chans : SoundChan(x.chans[id])

\* Nothing has been received on a channel whose opening is under way.
Fresh(x, v) ==
    \A i \in DOMAIN v :
        v[i].t = "OPEN" /\ v[i].from \in DOMAIN x.chans => x.chans[v[i].from].own = Window

\* The window that a channel has, or will have when it is confirmed.
Room(c) == IF c.peer = 0 THEN Window ELSE c.win

\* The peer's number of channel id is q, or will be.
Links(x, w, id, q) ==
    \/ q # 0 /\ x.chans[id].peer = q
    \/ /\ x.chans[id].peer = 0
       /\ \E i \in DOMAIN w : w[i].t = "CONFIRM" /\ w[i].to = id /\ w[i].from = q

\* The window of the sender, the data and the grants under way are what the
\* receiver has granted; and no more than that once it has forgotten the
\* channel.
Exact(room, d, a, own) == room + d + a = own
AtMost(room, a) == room + a <= Window

Level(x, y, v, w, id, q) ==
    \E a : /\ Totals(w, "ADJUST", id, a)
           /\ q \notin DOMAIN y.chans => AtMost(Room(x.chans[id]), a)
           /\ q \in DOMAIN y.chans =>
                 \E d : Totals(v, "DATA", q, d) /\ Exact(Room(x.chans[id]), d, a, y.chans[q].own)
Balance(x, y, v, w) ==
    \A id \in DOMAIN x.chans : \A q : Links(x, w, id, q) => Level(x, y, v, w, id, q)

FlowParts(x, y, v, w) == Sound(x) /\ Fresh(x, v) /\ Balance(x, y, v, w)
FlowInv ==
    \A s \in Sides : FlowParts(ses[s], ses[Peer(s)], wire[s], wire[Peer(s)])

\* How the totals of a wire change.
Falls(w, w2, t, id, u) ==
    \A n : Totals(w, t, id, n) => n - u \in Nat /\ Totals(w2, t, id, n - u)
Rises(v, v2, t, id, u) ==
    \A n : Totals(v, t, id, n) => Totals(v2, t, id, n + u)

LEMMA FallsSame ==
    ASSUME NEW w \in Seq(Message), NEW t, NEW id
    PROVE  Falls(w, w, t, id, 0)
<1>1. \A n : Totals(w, t, id, n) => n \in Nat /\ n - 0 = n
  BY TotalsNat
<1> QED  BY <1>1 DEF Falls

LEMMA FallsTail ==
    ASSUME NEW w \in Seq(Message), w # <<>>, NEW t \in Counts, NEW id
    PROVE  Falls(w, Tail(w), t, id, Weight(Head(w), t, id))
BY TotalsTail DEF Falls

LEMMA RisesBy ==
    ASSUME NEW v \in Seq(Message), NEW out \in Seq(Message), NEW t \in Counts, NEW id, NEW u,
           Totals(out, t, id, u), NEW v2, v2 = v \o out
    PROVE  Rises(v, v2, t, id, u)
BY TotalsJoin DEF Rises

LEMMA NoWeight ==
    ASSUME NEW out \in Seq(Message), NEW t, NEW id,
           \A i \in DOMAIN out : ~(out[i].t = t /\ out[i].to = id)
    PROVE  Totals(out, t, id, 0)
<1>1. \A i \in DOMAIN out : Weight(out[i], t, id) = 0
  BY DEF Weight
<1> QED  BY <1>1, TotalsNone

\* What a level is after a step of the sender, and of the receiver.
LEMMA LevelSends ==
    ASSUME NEW x, NEW y, NEW v \in Seq(Message), NEW w \in Seq(Message), NEW id, NEW q,
           Level(x, y, v, w, id, q), NEW z, NEW v2, NEW w2,
           NEW g \in Nat, NEW d \in Nat,
           Room(x.chans[id]) \in Nat, Room(z.chans[id]) \in Nat,
           Room(z.chans[id]) + d = Room(x.chans[id]) + g,
           Falls(w, w2, "ADJUST", id, g),
           q \in DOMAIN y.chans => Rises(v, v2, "DATA", q, d) /\ y.chans[q].own \in Nat
    PROVE  Level(z, y, v2, w2, id, q)
<1>1. PICK a : /\ Totals(w, "ADJUST", id, a)
               /\ q \notin DOMAIN y.chans => AtMost(Room(x.chans[id]), a)
               /\ q \in DOMAIN y.chans =>
                 \E e : Totals(v, "DATA", q, e) /\ Exact(Room(x.chans[id]), e, a, y.chans[q].own)
  BY DEF Level
<1>2. PICK b : b = a - g
  OBVIOUS
<1>3. Totals(w2, "ADJUST", id, b) /\ a \in Nat /\ b \in Nat
  BY <1>1, <1>2, TotalsNat DEF Falls
<1>4. PICK r, r2 : r = Room(x.chans[id]) /\ r2 = Room(z.chans[id])
  OBVIOUS
<1>5. r \in Nat /\ r2 \in Nat /\ r2 + d = r + g
  BY <1>4
<1>6. CASE q \notin DOMAIN y.chans
  <2>1. AtMost(r, a)
    BY <1>1, <1>4, <1>6
  <2>2. AtMost(r2, b)
    BY <1>2, <1>3, <1>5, <2>1, WindowAssumption DEF AtMost
  <2> QED  BY <1>3, <1>4, <1>6, <2>2 DEF Level
<1>7. CASE q \in DOMAIN y.chans
  <2>1. PICK e : Totals(v, "DATA", q, e) /\ Exact(r, e, a, y.chans[q].own)
    BY <1>1, <1>4, <1>7
  <2>2. PICK e2 : e2 = e + d
    OBVIOUS
  <2>3. Totals(v2, "DATA", q, e2) /\ e \in Nat
    BY <1>7, <2>1, <2>2, TotalsNat DEF Rises
  <2>4. Exact(r2, e2, b, y.chans[q].own)
    <3>1. PICK o \in Nat : o = y.chans[q].own
      BY <1>7
    <3>2. r + e + a = o
      BY <2>1, <3>1 DEF Exact
    <3>3. r2 + e2 + b = o
      BY <1>2, <1>3, <1>5, <2>2, <2>3, <3>2
    <3> QED  BY <3>1, <3>3 DEF Exact
  <2> QED  BY <1>3, <1>4, <1>7, <2>3, <2>4 DEF Level
<1> QED  BY <1>6, <1>7

LEMMA LevelReceives ==
    ASSUME NEW x, NEW y, NEW v \in Seq(Message), NEW w \in Seq(Message), NEW id, NEW q,
           Level(y, x, w, v, q, id), NEW z, NEW v2, NEW w2,
           Room(y.chans[q]) \in Nat, id \in DOMAIN x.chans, id \in DOMAIN z.chans,
           x.chans[id].own \in Nat, z.chans[id].own \in Nat,
           NEW g \in Nat, NEW d \in Nat, z.chans[id].own + d = x.chans[id].own + g,
           Falls(w, w2, "DATA", id, d), Rises(v, v2, "ADJUST", q, g)
    PROVE  Level(y, z, w2, v2, q, id)
<1>1. PICK a, e : /\ Totals(v, "ADJUST", q, a) /\ Totals(w, "DATA", id, e)
                  /\ Exact(Room(y.chans[q]), e, a, x.chans[id].own)
  BY DEF Level
<1>2. PICK b, f : b = a + g /\ f = e - d
  OBVIOUS
<1>3. /\ Totals(v2, "ADJUST", q, b) /\ Totals(w2, "DATA", id, f)
      /\ a \in Nat /\ e \in Nat /\ f \in Nat
  BY <1>1, <1>2, TotalsNat DEF Rises, Falls
<1>4. Exact(Room(y.chans[q]), f, b, z.chans[id].own)
  <2>1. PICK r \in Nat, o \in Nat, o2 \in Nat :
            r = Room(y.chans[q]) /\ o = x.chans[id].own /\ o2 = z.chans[id].own
    OBVIOUS
  <2>2. r + e + a = o /\ o2 + d = o + g
    BY <1>1, <2>1 DEF Exact
  <2>3. r + f + b = o2
    BY <1>2, <1>3, <2>2
  <2> QED  BY <2>1, <2>3 DEF Exact
<1> QED  BY <1>3, <1>4 DEF Level

\* The receiver has forgotten the channel.
LEMMA LevelForgets ==
    ASSUME NEW x, NEW y, NEW v \in Seq(Message), NEW w \in Seq(Message), NEW id, NEW q,
           Level(y, x, w, v, q, id), NEW z, NEW v2, NEW w2,
           Room(y.chans[q]) \in Nat, id \notin DOMAIN z.chans,
           id \in DOMAIN x.chans => x.chans[id].own \in 1 .. Window,
           Rises(v, v2, "ADJUST", q, 0)
    PROVE  Level(y, z, w2, v2, q, id)
<1>1. PICK a : /\ Totals(v, "ADJUST", q, a)
               /\ id \notin DOMAIN x.chans => AtMost(Room(y.chans[q]), a)
               /\ id \in DOMAIN x.chans =>
                 \E e : Totals(w, "DATA", id, e) /\ Exact(Room(y.chans[q]), e, a, x.chans[id].own)
  BY DEF Level
<1>2. a \in Nat /\ a + 0 = a
  BY <1>1, TotalsNat
<1>3. Totals(v2, "ADJUST", q, a)
  BY <1>1, <1>2 DEF Rises
<1>4. AtMost(Room(y.chans[q]), a)
  <2>1. CASE id \in DOMAIN x.chans
    <3>1. PICK e : Totals(w, "DATA", id, e) /\ Exact(Room(y.chans[q]), e, a, x.chans[id].own)
      BY <1>1, <2>1
    <3>2. e \in Nat
      BY <3>1, TotalsNat
    <3> QED  BY <1>2, <2>1, <3>1, <3>2, WindowAssumption DEF Exact, AtMost
  <2> QED  BY <1>1, <2>1
<1> QED  BY <1>3, <1>4 DEF Level

-----------------------------------------------------------------------------
\* A number links two channels at most.
LEMMA LinkOnce ==
    ASSUME NEW s, NEW p, NEW x, NEW y, NEW k, NEW l, NEW v, NEW w,
           Both(s, p, x, y, k, l, v, w),
           NEW i \in DOMAIN x.chans, NEW q \in DOMAIN y.chans, x.chans[i].peer = q
    PROVE  /\ \A id \in DOMAIN x.chans : Links(x, w, id, q) => id = i
           /\ \A id : Links(y, v, q, id) => id = i
<1>1. Facts(s, p, x, y, v, w) /\ Hand(s, x, y, k, v, w) /\ Hand(p, y, x, l, w, v)
  BY BothFacts DEF Both
<1>2. /\ y.end = "no" /\ x.end = "no" /\ q # 0 /\ ~Given(x.last, 0)
      /\ \A id \in DOMAIN x.chans : Given(x.last, id)
      /\ \A id \in DOMAIN y.chans : Given(y.last, id)
  BY <1>1 DEF Facts, Hand, Numbered
<1>3. \A id \in DOMAIN x.chans : id # 0
  BY <1>2
<1>4. ASSUME NEW id \in DOMAIN x.chans, x.chans[id].peer = q
      PROVE  \/ y.chans[q].peer = id
             \/ /\ y.chans[q].peer = 0
                /\ \E j \in DOMAIN v : v[j].t = "CONFIRM" /\ v[j].to = q /\ v[j].from = id
  BY <1>1, <1>2, <1>4 DEF Hand, Paired
<1>5. \A j, h \in DOMAIN v : v[j].t = "CONFIRM" /\ v[h].t = "CONFIRM" /\ v[j].to = v[h].to => j = h
  BY <1>1 DEF Hand, Once, Verdicts
<1>6. ASSUME NEW id, Links(y, v, q, id) PROVE id = i
  <2>1. CASE y.chans[q].peer = i
    BY <1>3, <1>6, <2>1 DEF Links
  <2>2. CASE /\ y.chans[q].peer = 0
             /\ \E j \in DOMAIN v : v[j].t = "CONFIRM" /\ v[j].to = q /\ v[j].from = i
    BY <1>5, <1>6, <2>2 DEF Links
  <2> QED  BY <1>4, <2>1, <2>2
<1>7. ASSUME NEW id \in DOMAIN x.chans, Links(x, w, id, q) PROVE id = i
  <2>1. CASE x.chans[id].peer = q
    <3>1. Links(y, v, q, id)
      BY <1>3, <1>4, <2>1 DEF Links
    <3> QED  BY <1>6, <3>1
  <2>2. CASE x.chans[id].peer = 0 /\ \E j \in DOMAIN w : w[j].t = "CONFIRM" /\ w[j].to = id /\ w[j].from = q
    <3>1. y.chans[q].peer = id
      BY <1>1, <1>2, <2>2 DEF Hand, Paired
    <3> QED  BY <1>3, <1>4, <3>1
  <2> QED  BY <1>7, <2>1, <2>2 DEF Links
<1> QED  BY <1>6, <1>7

LEMMA LinkOther ==
    ASSUME NEW s, NEW p, NEW x, NEW y, NEW k, NEW l, NEW v, NEW w,
           Both(s, p, x, y, k, l, v, w),
           NEW i \in DOMAIN x.chans, NEW q \in DOMAIN y.chans, NEW id, Links(y, v, q, id), id # i
    PROVE  x.chans[i].peer # q
<1>1. ASSUME x.chans[i].peer = q PROVE FALSE
  <2>1. \A j : Links(y, v, q, j) => j = i
    BY <1>1, LinkOnce
  <2> QED  BY <2>1
<1> QED  BY <1>1

\* ... and the peer's channel that is linked to a channel is its peer.
LEMMA LinkBack ==
    ASSUME NEW s, NEW p, NEW x, NEW y, NEW k, NEW l, NEW v, NEW w,
           Both(s, p, x, y, k, l, v, w),
           NEW i \in DOMAIN x.chans, x.chans[i].peer # 0,
           NEW q \in DOMAIN y.chans, Links(y, v, q, i)
    PROVE  x.chans[i].peer = q
<1>1. Facts(s, p, x, y, v, w) /\ Hand(s, x, y, k, v, w) /\ Hand(p, y, x, l, w, v)
  BY BothFacts DEF Both
<1>2. y.end = "no" /\ x.end = "no"
  BY <1>1 DEF Facts
<1>3. CASE i # 0 /\ y.chans[q].peer = i
  BY <1>1, <1>2, <1>3 DEF Hand, Paired
<1>4. CASE \E j \in DOMAIN v : v[j].t = "CONFIRM" /\ v[j].to = q /\ v[j].from = i
  BY <1>1, <1>2, <1>4 DEF Hand, Paired
<1> QED  BY <1>3, <1>4 DEF Links

\* The steps, as the windows see them.

Stays(c, d) == d.peer = c.peer /\ d.win = c.win /\ d.own = c.own

\* The other channels than those in ids are as they were, and what was read
\* did not count for them.
Rests(x, z, w, w2, ids) ==
    \A id \in DOMAIN z.chans :
        id \notin ids => /\ id \in DOMAIN x.chans /\ Stays(x.chans[id], z.chans[id])
                         /\ \A t \in Counts : Falls(w, w2, t, id, 0)

Idles(x, z, w, w2, out) ==
    /\ \A j \in DOMAIN out : out[j].t \notin {"DATA", "ADJUST", "OPEN", "CONFIRM"}
    /\ Rests(x, z, w, w2, {})

\* Channel i sends and is granted, receives and grants.
Trades(c, d, w, w2, out, i) ==
    \E sent, granted, got, due \in Nat :
        /\ Totals(out, "DATA", c.peer, sent) /\ Falls(w, w2, "ADJUST", i, granted)
        /\ d.win + sent = c.win + granted
        /\ Totals(out, "ADJUST", c.peer, due) /\ Falls(w, w2, "DATA", i, got)
        /\ d.own + got = c.own + due

Trading(x, z, w, w2, out, i) ==
    /\ i \in DOMAIN x.chans /\ x.chans[i].peer # 0
    /\ \A j \in DOMAIN out : /\ out[j].t \notin {"OPEN", "CONFIRM"}
                             /\ out[j].t \in Counts => out[j].to = x.chans[i].peer
    /\ Rests(x, z, w, w2, {i})
    /\ i \notin DOMAIN z.chans => \A j \in DOMAIN out : out[j].t # "ADJUST"
    /\ i \in DOMAIN z.chans => /\ z.chans[i].peer = x.chans[i].peer
                               /\ Trades(x.chans[i], z.chans[i], w, w2, out, i)

LEMMA RoomNat == \A c \in Param : Room(c) \in Nat
BY ParamFacts, WindowAssumption DEF Room

LEMMA LinksLess ==
    ASSUME NEW x, NEW z, NEW w, NEW w2, Among(w, w2), NEW id, NEW q,
           z.chans[id].peer = x.chans[id].peer, Links(z, w2, id, q)
    PROVE  Links(x, w, id, q)
BY DEF Links, Among

LEMMA LinksMore ==
    ASSUME NEW y, NEW v, NEW out, NEW v2, Longer(y, v, out, v2),
           \A j \in DOMAIN out : out[j].t # "CONFIRM", NEW id, NEW q, Links(y, v2, id, q)
    PROVE  Links(y, v, id, q)
BY DEF Links, Longer

LEMMA FreshLess ==
    ASSUME NEW y, NEW w, NEW w2, Among(w, w2), Fresh(y, w)
    PROVE  Fresh(y, w2)
BY DEF Fresh, Among

\* A channel that stays as it was, with nothing read or written that counts.
LEMMA StaysSends ==
    ASSUME NEW x \in Session, NEW y \in Session, NEW v \in Seq(Message), NEW w \in Seq(Message),
           NEW id \in DOMAIN x.chans, NEW q, Level(x, y, v, w, id, q),
           NEW z \in Session, id \in DOMAIN z.chans, NEW v2, NEW w2,
           Room(z.chans[id]) = Room(x.chans[id]), Falls(w, w2, "ADJUST", id, 0),
           q \in DOMAIN y.chans => Rises(v, v2, "DATA", q, 0)
    PROVE  Level(z, y, v2, w2, id, q)
<1>1. Room(x.chans[id]) \in Nat
  BY RoomNat, SessionFacts, TableFacts
<1>2. q \in DOMAIN y.chans => y.chans[q].own \in Nat
  BY SessionFacts, TableFacts, ParamFacts
<1>3. 0 \in Nat /\ Room(z.chans[id]) + 0 = Room(x.chans[id]) + 0
  BY <1>1
<1> QED  BY <1>1, <1>2, <1>3, LevelSends

LEMMA StaysReceives ==
    ASSUME NEW x \in Session, NEW y \in Session, NEW v \in Seq(Message), NEW w \in Seq(Message),
           NEW id, NEW q \in DOMAIN y.chans, Level(y, x, w, v, q, id), Sound(x),
           NEW z \in Session, NEW v2, NEW w2,
           id \in DOMAIN z.chans => /\ id \in DOMAIN x.chans
                                    /\ z.chans[id].own = x.chans[id].own
                                    /\ Falls(w, w2, "DATA", id, 0),
           Rises(v, v2, "ADJUST", q, 0)
    PROVE  Level(y, z, w2, v2, q, id)
<1>1. Room(y.chans[q]) \in Nat
  BY RoomNat, SessionFacts, TableFacts
<1>2. CASE id \in DOMAIN z.chans
  <2>1. x.chans[id].own \in Nat
    BY <1>2, SessionFacts, TableFacts, ParamFacts
  <2>2. 0 \in Nat /\ z.chans[id].own + 0 = x.chans[id].own + 0
    BY <1>2, <2>1
  <2> QED  BY <1>1, <1>2, <2>1, <2>2, LevelReceives
<1>3. CASE id \notin DOMAIN z.chans
  <2>1. id \in DOMAIN x.chans => x.chans[id].own \in 1 .. Window
    BY DEF Sound, SoundChan
  <2> QED  BY <1>1, <1>3, <2>1, LevelForgets
<1> QED  BY <1>2, <1>3

LEMMA RisesNone ==
    ASSUME NEW v \in Seq(Message), NEW out \in Seq(Message), NEW t \in Counts, NEW id,
           \A i \in DOMAIN out : ~(out[i].t = t /\ out[i].to = id), NEW v2, v2 = v \o out
    PROVE  Rises(v, v2, t, id, 0)
<1>1. Totals(out, t, id, 0)
  BY NoWeight
<1> QED  BY <1>1, RisesBy

\* The state before a step and after it.
Turn(s, p, x, y, k, l, v, w, z, out, v2, w2) ==
    /\ Both(s, p, x, y, k, l, v, w) /\ x.end = "no"
    /\ FlowParts(x, y, v, w) /\ FlowParts(y, x, w, v)
    /\ z \in Session /\ Sound(z) /\ out \in Seq(Message) /\ Among(w, w2)
    /\ v2 = (IF y.end = "no" THEN v \o out ELSE <<>>) /\ Longer(y, v, out, v2)

LEMMA TurnFacts ==
    ASSUME NEW s, NEW p, NEW x, NEW y, NEW k, NEW l, NEW v, NEW w, NEW z, NEW out,
           NEW v2, NEW w2, Turn(s, p, x, y, k, l, v, w, z, out, v2, w2)
    PROVE  /\ x \in Session /\ y \in Session /\ v \in Seq(Message) /\ w \in Seq(Message)
           /\ z \in Session /\ out \in Seq(Message)
           /\ Facts(s, p, x, y, v, w) /\ Hand(s, x, y, k, v, w) /\ Hand(p, y, x, l, w, v)
           /\ \A q \in DOMAIN y.chans : y.end = "no" /\ v2 = v \o out
BY BothFacts DEF Turn, Both, Facts

LEMMA IdlesKeep ==
    ASSUME NEW s, NEW p, NEW x, NEW y, NEW k, NEW l, NEW v, NEW w, NEW z, NEW out,
           NEW v2, NEW w2, Turn(s, p, x, y, k, l, v, w, z, out, v2, w2),
           Idles(x, z, w, w2, out)
    PROVE  FlowParts(z, y, v2, w2) /\ FlowParts(y, z, w2, v2)
<1>1. /\ x \in Session /\ y \in Session /\ v \in Seq(Message) /\ w \in Seq(Message)
      /\ z \in Session /\ out \in Seq(Message)
      /\ \A q \in DOMAIN y.chans : y.end = "no" /\ v2 = v \o out
  BY TurnFacts
<1>2. /\ Sound(x) /\ Sound(y) /\ Sound(z) /\ Fresh(x, v) /\ Fresh(y, w)
      /\ Balance(x, y, v, w) /\ Balance(y, x, w, v) /\ Among(w, w2) /\ Longer(y, v, out, v2)
  BY DEF Turn, FlowParts
<1>3. \A q \in DOMAIN y.chans : \A t \in Counts : \A r : Rises(v, v2, t, r, 0)
  <2>1. \A t \in Counts : \A r : \A i \in DOMAIN out : ~(out[i].t = t /\ out[i].to = r)
    BY DEF Idles, Counts
  <2> QED  BY <1>1, <2>1, RisesNone
<1>4. "DATA" \in Counts /\ "ADJUST" \in Counts
  BY DEF Counts
<1>5. \A id \in DOMAIN z.chans :
          /\ id \in DOMAIN x.chans /\ Stays(x.chans[id], z.chans[id])
          /\ \A t \in Counts : Falls(w, w2, t, id, 0)
  BY DEF Idles, Rests
<1>6. ASSUME NEW id \in DOMAIN z.chans, NEW q, Links(z, w2, id, q)
      PROVE  Level(z, y, v2, w2, id, q)
  <2>1. id \in DOMAIN x.chans /\ Stays(x.chans[id], z.chans[id]) /\ Falls(w, w2, "ADJUST", id, 0)
    BY <1>4, <1>5
  <2>2. z.chans[id].peer = x.chans[id].peer /\ Room(z.chans[id]) = Room(x.chans[id])
    BY <2>1 DEF Stays, Room
  <2>3. Level(x, y, v, w, id, q)
    BY <1>2, <1>6, <2>1, <2>2, LinksLess DEF Balance
  <2>4. q \in DOMAIN y.chans => Rises(v, v2, "DATA", q, 0)
    BY <1>3, <1>4
  <2> QED  BY <1>1, <2>1, <2>2, <2>3, <2>4, StaysSends
<1>7. ASSUME NEW q \in DOMAIN y.chans, NEW id, Links(y, v2, q, id)
      PROVE  Level(y, z, w2, v2, q, id)
  <2>1. Links(y, v, q, id)
    <3>1. \A j \in DOMAIN out : out[j].t # "CONFIRM"
      BY DEF Idles
    <3> QED  BY <1>2, <1>7, <3>1, LinksMore
  <2>2. Level(y, x, w, v, q, id)
    BY <1>2, <2>1 DEF Balance
  <2>3. id \in DOMAIN z.chans => /\ id \in DOMAIN x.chans
                                 /\ z.chans[id].own = x.chans[id].own
                                 /\ Falls(w, w2, "DATA", id, 0)
    BY <1>4, <1>5 DEF Stays
  <2>4. Rises(v, v2, "ADJUST", q, 0)
    BY <1>3, <1>4
  <2> QED  BY <1>1, <1>2, <2>2, <2>3, <2>4, StaysReceives
<1>8. Fresh(z, v2)
  <2>1. \A j \in DOMAIN out : out[j].t # "OPEN"
    BY DEF Idles
  <2>2. \A i \in DOMAIN v2 : v2[i].t = "OPEN" => i \in DOMAIN v /\ v2[i] = v[i]
    BY <1>2, <2>1 DEF Longer
  <2> QED  BY <1>2, <1>5, <2>2 DEF Fresh, Stays
<1>9. Fresh(y, w2)
  BY <1>2, FreshLess
<1> QED  BY <1>2, <1>6, <1>7, <1>8, <1>9 DEF FlowParts, Balance

LEMMA TradingKeeps ==
    ASSUME NEW s, NEW p, NEW x, NEW y, NEW k, NEW l, NEW v, NEW w, NEW z, NEW out,
           NEW v2, NEW w2, Turn(s, p, x, y, k, l, v, w, z, out, v2, w2),
           NEW i, Trading(x, z, w, w2, out, i)
    PROVE  FlowParts(z, y, v2, w2) /\ FlowParts(y, z, w2, v2)
<1>1. /\ x \in Session /\ y \in Session /\ v \in Seq(Message) /\ w \in Seq(Message)
      /\ z \in Session /\ out \in Seq(Message)
      /\ \A q \in DOMAIN y.chans : y.end = "no" /\ v2 = v \o out
      /\ Hand(s, x, y, k, v, w)
  BY TurnFacts
<1>2. /\ Sound(x) /\ Sound(y) /\ Sound(z) /\ Fresh(x, v) /\ Fresh(y, w)
      /\ Balance(x, y, v, w) /\ Balance(y, x, w, v) /\ Among(w, w2) /\ Longer(y, v, out, v2)
      /\ Both(s, p, x, y, k, l, v, w) /\ x.end = "no"
  BY DEF Turn, FlowParts
<1>3. i \in DOMAIN x.chans /\ x.chans[i].peer # 0
  BY DEF Trading
<1>4. "DATA" \in Counts /\ "ADJUST" \in Counts
  BY DEF Counts
<1>5. \A q \in DOMAIN y.chans : \A t \in Counts : q # x.chans[i].peer => Rises(v, v2, t, q, 0)
  <2>1. \A t \in Counts : \A q : q # x.chans[i].peer =>
            \A j \in DOMAIN out : ~(out[j].t = t /\ out[j].to = q)
    BY DEF Trading
  <2> QED  BY <1>1, <2>1, RisesNone
<1>6. \A id \in DOMAIN z.chans :
          id # i => /\ id \in DOMAIN x.chans /\ Stays(x.chans[id], z.chans[id])
                    /\ \A t \in Counts : Falls(w, w2, t, id, 0)
  BY DEF Trading, Rests
<1>7. \A id \in DOMAIN z.chans : id \in DOMAIN x.chans /\ z.chans[id].peer = x.chans[id].peer
  BY <1>3, <1>6 DEF Stays, Trading
<1>8. ASSUME i \in DOMAIN z.chans
      PROVE  /\ z.chans[i].peer = x.chans[i].peer
             /\ Room(x.chans[i]) = x.chans[i].win /\ Room(z.chans[i]) = z.chans[i].win
             /\ x.chans[i].own \in Nat /\ z.chans[i].own \in Nat
             /\ x.chans[i].win \in Nat /\ z.chans[i].win \in Nat
  BY <1>1, <1>3, <1>7, <1>8, SessionFacts, TableFacts, ParamFacts DEF Room
<1>9. ASSUME NEW id \in DOMAIN z.chans, NEW q, Links(z, w2, id, q)
      PROVE  Level(z, y, v2, w2, id, q)
  <2>1. id \in DOMAIN x.chans /\ z.chans[id].peer = x.chans[id].peer
    BY <1>7
  <2>2. Links(x, w, id, q)
    BY <1>2, <1>9, <2>1, LinksLess
  <2>3. Level(x, y, v, w, id, q)
    BY <1>2, <2>1, <2>2 DEF Balance
  <2>4. CASE id # i
    <3>1. Stays(x.chans[id], z.chans[id]) /\ Falls(w, w2, "ADJUST", id, 0)
      BY <1>4, <1>6, <2>4
    <3>2. Room(z.chans[id]) = Room(x.chans[id])
      BY <3>1 DEF Stays, Room
    <3>3. q \in DOMAIN y.chans => q # x.chans[i].peer
      BY <1>2, <1>3, <2>1, <2>2, <2>4, LinkOnce
    <3>4. q \in DOMAIN y.chans => Rises(v, v2, "DATA", q, 0)
      BY <1>4, <1>5, <3>3
    <3> QED  BY <1>1, <2>1, <2>3, <3>1, <3>2, <3>4, StaysSends
  <2>5. CASE id = i
    <3>1. q = x.chans[i].peer
      BY <1>3, <2>2, <2>5 DEF Links
    <3>2. PICK sent \in Nat, granted \in Nat :
            /\ Totals(out, "DATA", q, sent) /\ Falls(w, w2, "ADJUST", i, granted)
            /\ z.chans[i].win + sent = x.chans[i].win + granted
      BY <2>5, <3>1 DEF Trading, Trades
    <3>3. q \in DOMAIN y.chans => Rises(v, v2, "DATA", q, sent) /\ y.chans[q].own \in Nat
      BY <1>1, <1>4, <3>2, RisesBy, SessionFacts, TableFacts, ParamFacts
    <3>4. /\ Room(x.chans[id]) \in Nat /\ Room(z.chans[id]) \in Nat
          /\ Room(z.chans[id]) + sent = Room(x.chans[id]) + granted
      BY <1>8, <2>5, <3>2
    <3> QED  BY <1>1, <2>3, <2>5, <3>2, <3>3, <3>4, LevelSends
  <2> QED  BY <2>4, <2>5
<1>10. ASSUME NEW q \in DOMAIN y.chans, NEW id, Links(y, v2, q, id)
       PROVE  Level(y, z, w2, v2, q, id)
  <2>1. Links(y, v, q, id)
    <3>1. \A j \in DOMAIN out : out[j].t # "CONFIRM"
      BY DEF Trading
    <3> QED  BY <1>2, <1>10, <3>1, LinksMore
  <2>2. Level(y, x, w, v, q, id)
    BY <1>2, <2>1 DEF Balance
  <2>3. CASE id # i
    <3>1. x.chans[i].peer # q
      BY <1>2, <1>3, <2>1, <2>3, LinkOther
    <3>2. Rises(v, v2, "ADJUST", q, 0)
      BY <1>4, <1>5, <3>1
    <3>3. id \in DOMAIN z.chans => /\ id \in DOMAIN x.chans
                                   /\ z.chans[id].own = x.chans[id].own
                                   /\ Falls(w, w2, "DATA", id, 0)
      BY <1>4, <1>6, <2>3 DEF Stays
    <3> QED  BY <1>1, <1>2, <2>2, <3>2, <3>3, StaysReceives
  <2>4. CASE id = i /\ i \notin DOMAIN z.chans
    <3>1. \A j \in DOMAIN out : ~(out[j].t = "ADJUST" /\ out[j].to = q)
      BY <2>4 DEF Trading
    <3>2. Rises(v, v2, "ADJUST", q, 0)
      BY <1>1, <1>4, <3>1, RisesNone
    <3> QED  BY <1>1, <1>2, <2>2, <2>4, <3>2, StaysReceives
  <2>5. CASE id = i /\ i \in DOMAIN z.chans
    <3>1. x.chans[i].peer = q
      BY <1>2, <1>3, <2>1, <2>5, LinkBack
    <3>2. PICK got \in Nat, due \in Nat :
            /\ Totals(out, "ADJUST", q, due) /\ Falls(w, w2, "DATA", i, got)
            /\ z.chans[i].own + got = x.chans[i].own + due
      BY <2>5, <3>1 DEF Trading, Trades
    <3>3. Rises(v, v2, "ADJUST", q, due)
      BY <1>1, <1>4, <3>2, RisesBy
    <3>4. Room(y.chans[q]) \in Nat
      BY <1>1, RoomNat, SessionFacts, TableFacts
    <3> QED  BY <1>1, <1>3, <1>8, <2>2, <2>5, <3>2, <3>3, <3>4, LevelReceives
  <2> QED  BY <2>3, <2>4, <2>5
<1>11. Fresh(z, v2)
  <2>1. \A j \in DOMAIN out : out[j].t # "OPEN"
    BY DEF Trading
  <2>2. \A j \in DOMAIN v2 : v2[j].t = "OPEN" => j \in DOMAIN v /\ v2[j] = v[j]
    BY <1>2, <2>1 DEF Longer
  <2>3. \A j \in DOMAIN v : v[j].t = "OPEN" => v[j].from # i
    BY <1>1, <1>2, <1>3 DEF Hand, Handshake, Pends
  <2> QED  BY <1>2, <1>6, <2>2, <2>3 DEF Fresh, Stays
<1>12. Fresh(y, w2)
  BY <1>2, FreshLess
<1> QED  BY <1>2, <1>9, <1>10, <1>11, <1>12 DEF FlowParts, Balance

\* A message that does not count is read.
LEMMA FallsNone ==
    ASSUME NEW w \in Seq(Message), w # <<>>, NEW w2, w2 = Tail(w), NEW t \in Counts, NEW id,
           ~(Head(w).t = t /\ Head(w).to = id)
    PROVE  Falls(w, w2, t, id, 0)
<1>1. Weight(Head(w), t, id) = 0
  BY DEF Weight
<1>2. Falls(w, Tail(w), t, id, Weight(Head(w), t, id))
  BY FallsTail
<1> QED  BY <1>1, <1>2

\* A new channel is level from the start.
LEMMA LevelNew ==
    ASSUME NEW x, NEW y, NEW v \in Seq(Message), NEW w \in Seq(Message), NEW id, NEW q,
           Room(x.chans[id]) = Window,
           \A i \in DOMAIN w : ~(w[i].t = "ADJUST" /\ w[i].to = id),
           q \in DOMAIN y.chans =>
               /\ y.chans[q].own = Window
               /\ \A i \in DOMAIN v : ~(v[i].t = "DATA" /\ v[i].to = q)
    PROVE  Level(x, y, v, w, id, q)
<1>1. Totals(w, "ADJUST", id, 0)
  BY NoWeight
<1>2. q \in DOMAIN y.chans => Totals(v, "DATA", q, 0)
  BY NoWeight
<1>3. AtMost(Window, 0) /\ Exact(Window, 0, 0, Window)
  BY WindowAssumption DEF AtMost, Exact
<1> QED  BY <1>1, <1>2, <1>3 DEF Level

\* A task opens a channel.
LEMMA OpeningKeeps ==
    ASSUME NEW s, NEW p, NEW x, NEW y, NEW k, NEW l, NEW v, NEW w, NEW z, NEW out,
           NEW v2, NEW w2, Turn(s, p, x, y, k, l, v, w, z, out, v2, w2),
           NEW n, NEW k2, DidOpen(s, x, k, n, z, out, k2), w2 = w
    PROVE  FlowParts(z, y, v2, w2) /\ FlowParts(y, z, w2, v2)
<1> DEFINE i == x.last + 1
<1>1. /\ x \in Session /\ y \in Session /\ v \in Seq(Message) /\ w \in Seq(Message)
      /\ z \in Session /\ out \in Seq(Message)
      /\ \A q \in DOMAIN y.chans : y.end = "no" /\ v2 = v \o out
      /\ Facts(s, p, x, y, v, w) /\ Hand(s, x, y, k, v, w) /\ Hand(p, y, x, l, w, v)
  BY TurnFacts
<1>2. /\ Sound(x) /\ Sound(y) /\ Sound(z) /\ Fresh(x, v) /\ Fresh(y, w)
      /\ Balance(x, y, v, w) /\ Balance(y, x, w, v) /\ Longer(y, v, out, v2)
  BY DEF Turn, FlowParts
<1>3. /\ ~Given(x.last, i)
      /\ \A id \in DOMAIN x.chans : id # i
      /\ \A j \in DOMAIN w : w[j].t \in OnChannel => w[j].to # i
      /\ \A j \in DOMAIN v : v[j].t \in {"OPEN", "CONFIRM"} => v[j].from # i
      /\ \A q \in DOMAIN y.chans : y.chans[q].peer # 0 => y.chans[q].peer # i
  BY <1>1 DEF Facts, Hand, Numbered
<1>4. /\ DOMAIN z.chans = DOMAIN x.chans \cup {i}
      /\ \A id \in DOMAIN x.chans : z.chans[id] = x.chans[id]
      /\ z.chans[i].peer = 0 /\ z.chans[i].own = Window
  BY <1>3 DEF DidOpen, Shift, With, Params
<1>5. \A j \in DOMAIN out : out[j].t = "OPEN"
  BY DEF DidOpen
<1> HIDE DEF i
<1>6. \A t \in Counts : \A q : \A j \in DOMAIN out : ~(out[j].t = t /\ out[j].to = q)
  BY <1>5 DEF Counts
<1>7. \A q \in DOMAIN y.chans : \A t \in Counts : \A r : Rises(v, v2, t, r, 0)
  BY <1>1, <1>6, RisesNone
<1>8. "DATA" \in Counts /\ "ADJUST" \in Counts
  BY DEF Counts
<1>9. \A t, id : Falls(w, w2, t, id, 0)
  BY <1>1, FallsSame
<1>10. ASSUME NEW id \in DOMAIN z.chans, NEW q, Links(z, w2, id, q)
       PROVE  Level(z, y, v2, w2, id, q)
  <2>1. id \in DOMAIN x.chans /\ z.chans[id] = x.chans[id]
    BY <1>3, <1>4, <1>10 DEF Links, OnChannel
  <2>2. Level(x, y, v, w, id, q)
    BY <1>2, <1>10, <2>1 DEF Links, Balance
  <2>3. Room(z.chans[id]) = Room(x.chans[id])
    BY <2>1
  <2> QED  BY <1>1, <1>7, <1>8, <1>9, <2>1, <2>2, <2>3, StaysSends
<1>11. ASSUME NEW q \in DOMAIN y.chans, NEW id, Links(y, v2, q, id)
       PROVE  Level(y, z, w2, v2, q, id)
  <2>1. Links(y, v, q, id)
    <3>1. \A j \in DOMAIN out : out[j].t # "CONFIRM"
      BY <1>5
    <3> QED  BY <1>2, <1>11, <3>1, LinksMore
  <2>2. id # i
    BY <1>3, <2>1 DEF Links
  <2>3. Level(y, x, w, v, q, id)
    BY <1>2, <2>1 DEF Balance
  <2>4. id \in DOMAIN z.chans => id \in DOMAIN x.chans /\ z.chans[id].own = x.chans[id].own
    BY <1>4, <2>2
  <2> QED  BY <1>1, <1>2, <1>7, <1>8, <1>9, <2>3, <2>4, StaysReceives
<1>12. Fresh(z, v2)
  <2> SUFFICES ASSUME NEW j \in DOMAIN v2, v2[j].t = "OPEN", v2[j].from \in DOMAIN z.chans
               PROVE  z.chans[v2[j].from].own = Window
    BY DEF Fresh
  <2>1. CASE v2[j].from = i
    BY <1>4, <2>1
  <2>2. CASE v2[j].from # i
    <3>1. \A h \in DOMAIN out : out[h].from = i
      BY DEF DidOpen, i
    <3>2. j \in DOMAIN v /\ v2[j] = v[j]
      BY <1>2, <2>2, <3>1 DEF Longer
    <3> QED  BY <1>2, <1>4, <2>2, <3>2 DEF Fresh
  <2> QED  BY <2>1, <2>2
<1> QED  BY <1>2, <1>10, <1>11, <1>12 DEF FlowParts, Balance

\* A channel that the peer opens is confirmed.
LEMMA AcceptingFlows ==
    ASSUME NEW s, NEW p, NEW x, NEW y, NEW k, NEW l, NEW v, NEW w, NEW z, NEW out,
           NEW v2, NEW w2, Turn(s, p, x, y, k, l, v, w, z, out, v2, w2),
           NEW k2, Accepts(s, x, k, w, z, out, k2, w2)
    PROVE  FlowParts(z, y, v2, w2) /\ FlowParts(y, z, w2, v2)
<1> DEFINE i == x.last + 1
           r == Head(w).from
<1>1. /\ x \in Session /\ y \in Session /\ v \in Seq(Message) /\ w \in Seq(Message)
      /\ z \in Session /\ out \in Seq(Message)
      /\ \A q \in DOMAIN y.chans : y.end = "no" /\ v2 = v \o out
      /\ Facts(s, p, x, y, v, w) /\ Hand(s, x, y, k, v, w) /\ Hand(p, y, x, l, w, v)
  BY TurnFacts
<1>2. /\ Sound(x) /\ Sound(y) /\ Sound(z) /\ Fresh(x, v) /\ Fresh(y, w) /\ Among(w, w2)
      /\ Balance(x, y, v, w) /\ Balance(y, x, w, v) /\ Longer(y, v, out, v2)
  BY DEF Turn, FlowParts
<1>3. /\ ~Given(x.last, i) /\ i # 0
      /\ \A id \in DOMAIN x.chans : id # i
      /\ \A j \in DOMAIN w : w[j].t \in OnChannel => w[j].to # i
      /\ \A j \in DOMAIN v : v[j].t \in {"OPEN", "CONFIRM"} => v[j].from # i
      /\ \A q \in DOMAIN y.chans : y.chans[q].peer # 0 => y.chans[q].peer # i
  BY <1>1 DEF Facts, Hand, Numbered
<1>4. /\ w # <<>> /\ w2 = Tail(w) /\ Head(w).t = "OPEN" /\ 1 \in DOMAIN w /\ Head(w) = w[1]
  BY <1>1, ReadsShorter DEF Accepts
<1>5. /\ DOMAIN z.chans = DOMAIN x.chans \cup {i}
      /\ \A id \in DOMAIN x.chans : z.chans[id] = x.chans[id]
      /\ z.chans[i].peer = r /\ z.chans[i].own = Window /\ z.chans[i].win = Window
  BY <1>3 DEF Accepts, Shift, With, Params
<1>6. \A j \in DOMAIN out : out[j].t = "CONFIRM" /\ out[j].to = r /\ out[j].from = i
  BY DEF Accepts
<1>7. /\ r # 0
      /\ r \in DOMAIN y.chans =>
            /\ y.chans[r].peer = 0 /\ y.chans[r].own = Window
            /\ \A j \in DOMAIN v : v[j].t \in Counts => v[j].to # r
  <2>1. Given(y.last, r) /\ r # 0
    BY <1>1, <1>4 DEF Hand, Numbered, Facts
  <2>2. ASSUME r \in DOMAIN y.chans PROVE y.chans[r].peer = 0 /\ y.chans[r].own = Window
    <3>1. Pends(y, l, r)
      BY <1>1, <1>4, <2>2 DEF Hand, Handshake, Facts
    <3> QED  BY <1>2, <1>4, <2>2, <3>1 DEF Pends, Fresh
  <2>3. ASSUME r \in DOMAIN y.chans, NEW j \in DOMAIN v, v[j].t \in Counts, v[j].to = r PROVE FALSE
    <3>1. \E h \in DOMAIN v : v[h].t = "CONFIRM" /\ v[h].to = r
      BY <1>1, <2>2, <2>3 DEF Hand, ConfirmFirst, Plain, Counts
    <3> QED  BY <1>1, <1>4, <3>1 DEF Hand, Once, Verdicts
  <2> QED  BY <2>1, <2>2, <2>3
<1> HIDE DEF i, r
<1>8. "DATA" \in Counts /\ "ADJUST" \in Counts /\ Counts \subseteq OnChannel
  BY DEF Counts, OnChannel
<1>9. \A t \in Counts : \A q : \A j \in DOMAIN out : ~(out[j].t = t /\ out[j].to = q)
  BY <1>6 DEF Counts
<1>10. \A q \in DOMAIN y.chans : \A t \in Counts : \A h : Rises(v, v2, t, h, 0)
  BY <1>1, <1>9, RisesNone
<1>11. \A t \in Counts : \A id : Falls(w, w2, t, id, 0)
  <2>1. \A t \in Counts : \A id : ~(Head(w).t = t /\ Head(w).to = id)
    BY <1>4 DEF Counts
  <2> QED  BY <1>1, <1>4, <2>1, FallsNone
<1>12. w2 \in Seq(Message) /\ \A j \in DOMAIN w2 : w2[j].t \in Counts => w2[j].to # i
  <2>1. w2 \in Seq(Message)
    BY <1>1, <1>4
  <2> QED  BY <1>2, <1>3, <1>8, <2>1 DEF Among
<1>13. r \in DOMAIN y.chans =>
           v2 \in Seq(Message) /\ \A j \in DOMAIN v2 : v2[j].t \in Counts => v2[j].to # r
  <2>1. ASSUME r \in DOMAIN y.chans PROVE v2 \in Seq(Message)
    <3>1. v2 = v \o out /\ v \in Seq(Message) /\ out \in Seq(Message)
      BY <1>1, <2>1
    <3> QED  BY <3>1
  <2>2. \A j \in DOMAIN out : out[j].t \notin Counts
    BY <1>6 DEF Counts
  <2> QED  BY <1>2, <1>7, <2>1, <2>2 DEF Longer
<1>14. ASSUME NEW id \in DOMAIN z.chans, NEW q, Links(z, w2, id, q)
       PROVE  Level(z, y, v2, w2, id, q)
  <2>1. CASE id \in DOMAIN x.chans
    <3>1. z.chans[id] = x.chans[id]
      BY <1>5, <2>1
    <3>2. Links(x, w, id, q)
      BY <1>2, <1>14, <3>1, LinksLess
    <3>3. Level(x, y, v, w, id, q)
      BY <1>2, <2>1, <3>2 DEF Balance
    <3>4. Room(z.chans[id]) = Room(x.chans[id])
      BY <3>1
    <3> QED  BY <1>1, <1>8, <1>10, <1>11, <2>1, <3>3, <3>4, StaysSends
  <2>2. CASE id = i
    <3>1. q = r
      BY <1>5, <1>7, <1>14, <2>2 DEF Links
    <3>2. Room(z.chans[i]) = Window
      BY <1>5, <1>7 DEF Room
    <3>3. \A j \in DOMAIN w2 : ~(w2[j].t = "ADJUST" /\ w2[j].to = i)
      BY <1>8, <1>12
    <3>4. CASE r \in DOMAIN y.chans
      <4>1. y.chans[r].own = Window /\ \A j \in DOMAIN v2 : ~(v2[j].t = "DATA" /\ v2[j].to = r)
        BY <1>7, <1>8, <1>13, <3>4
      <4> QED  BY <1>12, <1>13, <2>2, <3>1, <3>2, <3>3, <3>4, <4>1, LevelNew
    <3>5. CASE r \notin DOMAIN y.chans
      <4>1. Totals(w2, "ADJUST", i, 0)
        BY <1>12, <3>3, NoWeight
      <4>2. AtMost(Window, 0)
        BY WindowAssumption DEF AtMost
      <4> QED  BY <2>2, <3>1, <3>2, <3>5, <4>1, <4>2 DEF Level
    <3> QED  BY <3>4, <3>5
  <2> QED  BY <1>5, <2>1, <2>2
<1>15. ASSUME NEW q \in DOMAIN y.chans, NEW id, Links(y, v2, q, id)
       PROVE  Level(y, z, w2, v2, q, id)
  <2>1. CASE id = i
    <3>1. q = r /\ y.chans[q].peer = 0
      <4>1. y.chans[q].peer = 0 /\ \E j \in DOMAIN v2 : v2[j].t = "CONFIRM" /\ v2[j].to = q /\ v2[j].from = i
        BY <1>3, <1>15, <2>1 DEF Links
      <4> QED  BY <1>2, <1>3, <1>6, <4>1 DEF Longer
    <3>2. Room(y.chans[q]) = Window
      BY <3>1 DEF Room
    <3>3. /\ v2 \in Seq(Message) /\ \A j \in DOMAIN v2 : ~(v2[j].t = "ADJUST" /\ v2[j].to = q)
          /\ \A j \in DOMAIN w2 : ~(w2[j].t = "DATA" /\ w2[j].to = i)
      BY <1>8, <1>12, <1>13, <3>1
    <3> QED  BY <1>5, <1>12, <2>1, <3>2, <3>3, LevelNew
  <2>2. CASE id # i
    <3>1. Links(y, v, q, id)
      BY <1>2, <1>6, <1>15, <2>2 DEF Links, Longer
    <3>2. Level(y, x, w, v, q, id)
      BY <1>2, <3>1 DEF Balance
    <3>3. id \in DOMAIN z.chans => id \in DOMAIN x.chans /\ z.chans[id].own = x.chans[id].own
      BY <1>5, <2>2
    <3> QED  BY <1>1, <1>2, <1>8, <1>10, <1>11, <3>2, <3>3, StaysReceives
  <2> QED  BY <2>1, <2>2
<1>16. Fresh(z, v2)
  <2>1. \A j \in DOMAIN out : out[j].t # "OPEN"
    BY <1>6
  <2>2. \A j \in DOMAIN v2 : v2[j].t = "OPEN" => j \in DOMAIN v /\ v2[j] = v[j]
    BY <1>2, <2>1 DEF Longer
  <2> QED  BY <1>2, <1>3, <1>5, <2>2 DEF Fresh
<1>17. Fresh(y, w2)
  BY <1>2, FreshLess
<1> QED  BY <1>2, <1>14, <1>15, <1>16, <1>17 DEF FlowParts, Balance

\* The confirmation of a channel: it has the window that it was to have.
Confirming(x, z, w, w2, out) ==
    LET m == Head(w)
    IN  /\ w # <<>> /\ w2 = Tail(w) /\ m.t = "CONFIRM" /\ m.to \in DOMAIN x.chans /\ out = <<>>
        /\ \E d : Puts(x, z, m.to, d) /\ d.peer = m.from /\ d.win = Window
                  /\ d.own = x.chans[m.to].own

LEMMA ConfirmingKeeps ==
    ASSUME NEW s, NEW p, NEW x, NEW y, NEW k, NEW l, NEW v, NEW w, NEW z, NEW out,
           NEW v2, NEW w2, Turn(s, p, x, y, k, l, v, w, z, out, v2, w2),
           Confirming(x, z, w, w2, out)
    PROVE  FlowParts(z, y, v2, w2) /\ FlowParts(y, z, w2, v2)
<1> DEFINE i == Head(w).to
           r == Head(w).from
<1>1. /\ x \in Session /\ y \in Session /\ v \in Seq(Message) /\ w \in Seq(Message)
      /\ z \in Session /\ out \in Seq(Message)
      /\ \A q \in DOMAIN y.chans : y.end = "no" /\ v2 = v \o out
      /\ Facts(s, p, x, y, v, w) /\ Hand(s, x, y, k, v, w) /\ Hand(p, y, x, l, w, v)
  BY TurnFacts
<1>2. /\ Sound(x) /\ Sound(y) /\ Sound(z) /\ Fresh(x, v) /\ Fresh(y, w) /\ Among(w, w2)
      /\ Balance(x, y, v, w) /\ Balance(y, x, w, v) /\ Longer(y, v, out, v2)
  BY DEF Turn, FlowParts
<1>3. w # <<>> /\ w2 = Tail(w) /\ Head(w).t = "CONFIRM" /\ i \in DOMAIN x.chans /\ DOMAIN out = {}
  BY NoMessage DEF Confirming
<1>4. 1 \in DOMAIN w /\ Head(w) = w[1]
  BY <1>1, <1>3, ReadsShorter
<1>5. x.chans[i].peer = 0 /\ r # 0
  <2>1. Pends(x, k, i)
    BY <1>1, <1>3, <1>4 DEF Hand, Handshake, Verdicts
  <2>2. Given(y.last, r)
    BY <1>1, <1>3, <1>4 DEF Hand, Numbered
  <2> QED  BY <1>1, <2>1, <2>2 DEF Pends, Facts
<1>6. /\ DOMAIN z.chans = DOMAIN x.chans
      /\ \A id \in DOMAIN x.chans : id # i => z.chans[id] = x.chans[id]
      /\ z.chans[i].peer = r /\ z.chans[i].own = x.chans[i].own /\ z.chans[i].win = Window
  BY <1>1, <1>3, PutsFacts DEF Confirming
<1> HIDE DEF i, r
<1>7. "DATA" \in Counts /\ "ADJUST" \in Counts
  BY DEF Counts
<1>8. \A q \in DOMAIN y.chans : \A t \in Counts : \A h : Rises(v, v2, t, h, 0)
  BY <1>1, <1>3, RisesNone
<1>9. \A t \in Counts : \A id : Falls(w, w2, t, id, 0)
  <2>1. \A t \in Counts : \A id : ~(Head(w).t = t /\ Head(w).to = id)
    BY <1>3 DEF Counts
  <2> QED  BY <1>1, <1>3, <2>1, FallsNone
<1>10. \A id \in DOMAIN x.chans : /\ Room(z.chans[id]) = Room(x.chans[id])
                                  /\ z.chans[id].own = x.chans[id].own
  BY <1>5, <1>6 DEF Room
<1>11. ASSUME NEW id \in DOMAIN z.chans, NEW q, Links(z, w2, id, q)
       PROVE  Level(z, y, v2, w2, id, q)
  <2>1. id \in DOMAIN x.chans
    BY <1>6
  <2>2. Links(x, w, id, q)
    <3>1. CASE id # i
      BY <1>2, <1>6, <1>11, <2>1, <3>1, LinksLess
    <3>2. CASE id = i
      <4>1. q = r
        BY <1>5, <1>6, <1>11, <3>2 DEF Links
      <4> QED  BY <1>3, <1>4, <1>5, <3>2, <4>1 DEF Links, i, r
    <3> QED  BY <3>1, <3>2
  <2>3. Level(x, y, v, w, id, q)
    BY <1>2, <2>1, <2>2 DEF Balance
  <2> QED  BY <1>1, <1>7, <1>8, <1>9, <1>10, <2>1, <2>3, StaysSends
<1>12. ASSUME NEW q \in DOMAIN y.chans, NEW id, Links(y, v2, q, id)
       PROVE  Level(y, z, w2, v2, q, id)
  <2>1. Links(y, v, q, id)
    BY <1>2, <1>3, <1>12, LinksMore
  <2>2. Level(y, x, w, v, q, id)
    BY <1>2, <2>1 DEF Balance
  <2> QED  BY <1>1, <1>2, <1>6, <1>7, <1>8, <1>9, <1>10, <2>2, StaysReceives
<1>13. Fresh(z, v2)
  <2>1. \A j \in DOMAIN v2 : j \in DOMAIN v /\ v2[j] = v[j]
    BY <1>2, <1>3 DEF Longer
  <2> QED  BY <1>2, <1>6, <1>10, <2>1 DEF Fresh
<1>14. Fresh(y, w2)
  BY <1>2, FreshLess
<1> QED  BY <1>2, <1>11, <1>12, <1>13, <1>14 DEF FlowParts, Balance

\* The steps that leave the windows alone, whatever channels they forget.
Untouched(x, z) ==
    \A id \in DOMAIN z.chans :
        /\ id \in DOMAIN x.chans /\ Stays(x.chans[id], z.chans[id])
        /\ z.chans[id].pend = x.chans[id].pend /\ z.chans[id].confirmed = x.chans[id].confirmed

LEMMA UntouchedSound ==
    ASSUME NEW x, NEW z, Sound(x), Untouched(x, z)
    PROVE  Sound(z)
BY DEF Sound, SoundChan, Untouched, Stays

LEMMA UntouchedBy ==
    ASSUME NEW x, NEW z,
           \/ z.chans = x.chans
           \/ z.chans = <<>>
           \/ \E id : z.chans = Without(x.chans, id)
           \/ \E id \in DOMAIN x.chans : \E d : /\ z.chans = With(x.chans, id, d)
                                               /\ Twin(x.chans[id], d) /\ Flow(x.chans[id], d)
    PROVE  Untouched(x, z)
<1>1. CASE z.chans = x.chans
  BY <1>1 DEF Untouched, Stays
<1>2. CASE z.chans = <<>>
  BY <1>2, TablesEmpty DEF Untouched
<1>3. ASSUME NEW id, z.chans = Without(x.chans, id) PROVE Untouched(x, z)
  <2>1. /\ DOMAIN z.chans = DOMAIN x.chans \ {id}
        /\ \A i \in DOMAIN x.chans : i # id => z.chans[i] = x.chans[i]
    BY <1>3 DEF Without
  <2> QED  BY <2>1 DEF Untouched, Stays
<1>4. ASSUME NEW id \in DOMAIN x.chans, NEW d, z.chans = With(x.chans, id, d),
             Twin(x.chans[id], d), Flow(x.chans[id], d)
      PROVE  Untouched(x, z)
  <2>1. /\ DOMAIN z.chans = DOMAIN x.chans \cup {id} /\ z.chans[id] = d
        /\ \A i \in DOMAIN x.chans : i # id => z.chans[i] = x.chans[i]
    BY <1>4 DEF With
  <2> QED  BY <1>4, <2>1 DEF Untouched, Stays, Twin, Flow
<1> QED  BY <1>1, <1>2, <1>3, <1>4

\* One channel becomes another.
LEMMA PutSound ==
    ASSUME NEW x \in Session, NEW z, NEW i \in DOMAIN x.chans, NEW d, Puts(x, z, i, d),
           Sound(x), SoundChan(d)
    PROVE  Sound(z)
<1>1. /\ DOMAIN z.chans = DOMAIN x.chans /\ z.chans[i] = d
      /\ \A id \in DOMAIN x.chans : id # i => z.chans[id] = x.chans[id]
  BY PutsFacts
<1> QED  BY <1>1 DEF Sound

LEMMA AddSound ==
    ASSUME NEW x, NEW z, NEW i, NEW d, z.chans = With(x.chans, i, d), Sound(x), SoundChan(d)
    PROVE  Sound(z)
<1>1. /\ DOMAIN z.chans = DOMAIN x.chans \cup {i} /\ z.chans[i] = d
      /\ \A id \in DOMAIN x.chans : id # i => z.chans[id] = x.chans[id]
  BY DEF With
<1> QED  BY <1>1 DEF Sound

LEMMA PutRests ==
    ASSUME NEW x \in Session, NEW z, NEW i \in DOMAIN x.chans, NEW d, Puts(x, z, i, d),
           NEW w, NEW w2, \A t \in Counts : \A id : id # i => Falls(w, w2, t, id, 0)
    PROVE  Rests(x, z, w, w2, {i}) /\ i \in DOMAIN z.chans /\ z.chans[i] = d
<1>1. /\ DOMAIN z.chans = DOMAIN x.chans /\ z.chans[i] = d
      /\ \A id \in DOMAIN x.chans : id # i => z.chans[id] = x.chans[id]
  BY PutsFacts
<1> QED  BY <1>1 DEF Rests, Stays

LEMMA DropRests ==
    ASSUME NEW x \in Session, NEW z, NEW i \in DOMAIN x.chans, Drops(x, z, i),
           NEW w, NEW w2, \A t \in Counts : \A id : id # i => Falls(w, w2, t, id, 0)
    PROVE  Rests(x, z, w, w2, {i}) /\ i \notin DOMAIN z.chans
<1>1. /\ DOMAIN z.chans = DOMAIN x.chans \ {i}
      /\ \A id \in DOMAIN x.chans : id # i => z.chans[id] = x.chans[id]
  BY DEF Drops, Without
<1> QED  BY <1>1 DEF Rests, Stays

-----------------------------------------------------------------------------
\* Data is read: it is taken from what was granted, and granted again when
\* half of the window is spent.
LEMMA DataTrades ==
    ASSUME NEW x \in Session, NEW w \in Seq(Message), w # <<>>, NEW w2, w2 = Tail(w),
           NEW z, NEW out, Head(w).t = "DATA", TookData(x, Head(w), z, out), Sound(x),
           Head(w).to \in DOMAIN x.chans, x.chans[Head(w).to].peer # 0
    PROVE  Sound(z) /\ Trading(x, z, w, w2, out, Head(w).to)
<1>1. PICK i, c : i = Head(w).to /\ c = x.chans[i]
  OBVIOUS
<1>2. i \in DOMAIN x.chans /\ c.peer # 0 /\ c.peer \in Nat /\ c.own \in 1 .. Window /\ SoundChan(c)
  BY <1>1, SessionFacts, TableFacts, ParamFacts DEF Sound, SoundChan
<1>3. PICK o \in Nat : o = c.own
  BY <1>2, WindowAssumption
<1>4. PICK own \in Nat : own = o - 1 /\ o > 0
  BY <1>2, <1>3
<1>5. PICK d : /\ Puts(x, z, i, d) /\ Twin(c, d) /\ d.win = c.win /\ d.pend = c.pend
               /\ \/ /\ own < Window \div 2 /\ d.own = Window /\ Window - own \in Nat
                     /\ out = <<OnWith(x, i, "ADJUST", Window - own)>>
                  \/ ~(own < Window \div 2) /\ d.own = own /\ out = <<>>
  BY <1>1, <1>2, <1>3, <1>4 DEF TookData
<1>6. d.own \in 1 .. Window
  <2>1. Window \div 2 >= 1 /\ own <= Window
    BY <1>2, <1>3, <1>4, WindowAssumption
  <2> QED  BY <1>5, <2>1, WindowAssumption
<1>7. SoundChan(d)
  BY <1>2, <1>5, <1>6 DEF SoundChan, Twin
<1>8. Sound(z)
  BY <1>1, <1>2, <1>5, <1>7, PutSound
<1>9. "DATA" \in Counts /\ "ADJUST" \in Counts /\ "DATA" # "ADJUST"
  BY DEF Counts
<1>10. \A t \in Counts : \A id : id # i => Falls(w, w2, t, id, 0)
  BY <1>1, FallsNone
<1>11. Rests(x, z, w, w2, {i}) /\ i \in DOMAIN z.chans /\ z.chans[i] = d
  BY <1>2, <1>5, <1>10, PutRests
<1>12. Falls(w, w2, "DATA", i, 1) /\ Falls(w, w2, "ADJUST", i, 0)
  <2>1. Weight(Head(w), "DATA", i) = 1
    BY <1>1 DEF Weight
  <2>2. Falls(w, w2, "DATA", i, Weight(Head(w), "DATA", i))
    BY <1>9, FallsTail
  <2>3. Falls(w, w2, "ADJUST", i, 0)
    BY <1>9, FallsNone
  <2> QED  BY <2>1, <2>2, <2>3
<1>13. PICK due \in Nat : /\ Totals(out, "ADJUST", c.peer, due) /\ d.own + 1 = o + due
                          /\ out \in Seq(Message)
                          /\ \A j \in DOMAIN out : out[j].t = "ADJUST" /\ out[j].to = c.peer
  <2>1. CASE d.own = Window /\ Window - own \in Nat /\ out = <<OnWith(x, i, "ADJUST", Window - own)>>
    <3>1. PICK u \in Nat : u = Window - own
      BY <2>1
    <3>2. PICK g : g = OnWith(x, i, "ADJUST", u)
      OBVIOUS
    <3>3. g \in Message /\ g.t = "ADJUST" /\ g.to = c.peer /\ g.n = u
      BY <1>1, <1>2, <3>1, <3>2, OnMessage
    <3>4. out = <<g>>
      BY <2>1, <3>1, <3>2
    <3>5. Weight(g, "ADJUST", c.peer) = u
      BY <1>9, <3>3 DEF Weight
    <3>6. Totals(out, "ADJUST", c.peer, u)
      BY <1>9, <3>3, <3>4, <3>5, TotalsOne
    <3>7. d.own + 1 = o + u
      BY <1>4, <2>1, <3>1, WindowAssumption
    <3>8. out \in Seq(Message) /\ \A j \in DOMAIN out : out[j].t = "ADJUST" /\ out[j].to = c.peer
      BY <3>3, <3>4, OneMessage
    <3> QED  BY <3>6, <3>7, <3>8
  <2>2. CASE d.own = own /\ out = <<>>
    <3>1. out \in Seq(Message) /\ DOMAIN out = {}
      BY <2>2, NoMessage
    <3>2. Totals(out, "ADJUST", c.peer, 0)
      BY <3>1, NoWeight
    <3>3. 0 \in Nat /\ d.own + 1 = o + 0
      BY <1>4, <2>2
    <3> QED  BY <3>1, <3>2, <3>3
  <2> QED  BY <1>5, <2>1, <2>2
<1>14. Totals(out, "DATA", c.peer, 0)
  BY <1>9, <1>13, NoWeight
<1>15. Trades(c, d, w, w2, out, i)
  <2>1. 0 \in Nat /\ 1 \in Nat /\ d.win + 0 = c.win + 0 /\ d.own + 1 = c.own + due
    BY <1>3, <1>5, <1>13
  <2> QED  BY <1>12, <1>13, <1>14, <2>1 DEF Trades
<1>16. d.peer = c.peer
  BY <1>5 DEF Twin
<1> QED  BY <1>1, <1>2, <1>8, <1>11, <1>13, <1>15, <1>16 DEF Trading

\* What a window granted does to the windows: n units of data are sent, all
\* that were kept back or as many as the window admits.
LEMMA GrantSends ==
    ASSUME NEW x \in Session, NEW m \in Message, NEW z, NEW out, TookGrant(x, m, z, out),
           m.t = "ADJUST", m.to \in DOMAIN x.chans
    PROVE  LET c == x.chans[m.to]
           IN  \E n \in Nat, f \in BOOLEAN, o \in {0, 1} :
                  /\ Flushed(out, x, m.to, n, f, o)
                  /\ o = 1 => out[Len(out)] = On(x, m.to, "CLOSE")
                  /\ \/ Drops(x, z, m.to)
                     \/ \E d : /\ Puts(x, z, m.to, d) /\ Twin(c, d) /\ d.own = c.own
                               /\ d.win + n = c.win + m.n
                               /\ d.pend > 0 => d.win = 0
<1> DEFINE c == x.chans[m.to]
           win == c.win + m.n
           n == IF c.pend < win THEN c.pend ELSE win
           Part == /\ n < c.pend /\ Flushed(out, x, m.to, n, FALSE, 0)
                   /\ \E d : /\ Puts(x, z, m.to, d)
                             /\ Twin(c, d) /\ Ends(c, d) /\ Asks(c, d) /\ d.own = c.own
                             /\ d.pend = c.pend - n /\ d.win = win - n
           All == /\ n = c.pend /\ Flushed(out, x, m.to, n, c.peof, 0)
                  /\ \E d : /\ Puts(x, z, m.to, d)
                            /\ Twin(c, d) /\ Ends(c, d) /\ Asks(c, d) /\ d.own = c.own
                            /\ d.pend = 0 /\ d.win = win - n
           Shuts == /\ n = c.pend /\ Drops(x, z, m.to) /\ Flushed(out, x, m.to, n, c.peof, 1)
                    /\ out[Len(out)] = On(x, m.to, "CLOSE")
<1>1. Part \/ All \/ Shuts
  BY Zenon DEF TookGrant
<1>2. n \in Nat /\ c.peof \in BOOLEAN /\ win \in Nat /\ n <= win /\ (n < c.pend => n = win)
  <2>1. m.n \in Nat
    BY DEF Message
  <2>2. c \in Param
    BY SessionFacts, TableFacts
  <2>3. c.pend \in Nat /\ c.win \in Nat
    BY <2>2, ParamFacts
  <2>4. c.peof \in BOOLEAN
    BY <2>2, Zenon DEF Param
  <2> QED  BY <2>1, <2>3, <2>4
<1> HIDE DEF n, win
<1>3. CASE Part
  <2>1. PICK f : f = FALSE
    OBVIOUS
  <2>2. Flushed(out, x, m.to, n, f, 0) /\ f \in BOOLEAN
    BY <1>3, <2>1, Zenon
  <2>3. PICK d : Puts(x, z, m.to, d) /\ Twin(c, d) /\ d.own = c.own /\ d.win = win - n
    BY <1>3, Zenon
  <2>4. n < c.pend
    BY <1>3
  <2> HIDE DEF c, Part, All, Shuts
  <2>5. d.win = 0 /\ d.win + n = win
    BY <1>2, <2>3, <2>4
  <2>6. d.win + n = c.win + m.n
    BY <2>5 DEF win
  <2>7. 0 \in {0, 1} /\ 0 # 1
    OBVIOUS
  <2> QED  BY <1>2, <2>2, <2>3, <2>5, <2>6, <2>7 DEF c
<1>4. CASE All
  <2>1. PICK f : f = c.peof
    OBVIOUS
  <2>2. Flushed(out, x, m.to, n, f, 0)
    BY <1>4, <2>1
  <2>3. PICK d : Puts(x, z, m.to, d) /\ Twin(c, d) /\ d.own = c.own /\ d.pend = 0 /\ d.win = win - n
    BY <1>4, Zenon
  <2> HIDE DEF c, Part, All, Shuts
  <2>4. d.win + n = win /\ ~(d.pend > 0)
    BY <1>2, <2>3
  <2>5. d.win + n = c.win + m.n
    BY <2>4 DEF win
  <2>6. 0 \in {0, 1} /\ 0 # 1
    OBVIOUS
  <2> QED  BY <1>2, <2>1, <2>2, <2>3, <2>4, <2>5, <2>6 DEF c
<1>5. CASE Shuts
  <2>1. PICK f : f = c.peof
    OBVIOUS
  <2>2. Flushed(out, x, m.to, n, f, 1) /\ out[Len(out)] = On(x, m.to, "CLOSE") /\ Drops(x, z, m.to)
    BY <1>5, <2>1
  <2> HIDE DEF c, Part, All, Shuts
  <2> QED  BY <1>2, <2>1, <2>2
<1> QED  BY <1>1, <1>3, <1>4, <1>5

LEMMA GrantTrades ==
    ASSUME NEW x \in Session, NEW w \in Seq(Message), w # <<>>, NEW w2, w2 = Tail(w),
           NEW z, NEW out, Head(w).t = "ADJUST", TookGrant(x, Head(w), z, out), Sound(x),
           Head(w).to \in DOMAIN x.chans, x.chans[Head(w).to].peer # 0
    PROVE  Sound(z) /\ Trading(x, z, w, w2, out, Head(w).to)
<1>1. PICK m : m = Head(w)
  OBVIOUS
<1>2. PICK i, c : i = m.to /\ c = x.chans[i]
  OBVIOUS
<1>3. m \in Message /\ m.n \in Nat
  <2>1. m \in Message
    BY <1>1, TailFacts
  <2> QED  BY <1>1, <2>1 DEF Message
<1>4. i \in DOMAIN x.chans /\ c.peer # 0 /\ c.peer \in Nat /\ SoundChan(c)
  BY <1>1, <1>2, SessionFacts, TableFacts, ParamFacts DEF Sound
<1>5. PICK n \in Nat, f \in BOOLEAN, o \in {0, 1} :
            /\ Flushed(out, x, i, n, f, o)
            /\ o = 1 => out[Len(out)] = On(x, i, "CLOSE")
            /\ \/ Drops(x, z, i)
               \/ \E d : /\ Puts(x, z, i, d) /\ Twin(c, d) /\ d.own = c.own
                         /\ d.win + n = c.win + m.n
                         /\ d.pend > 0 => d.win = 0
  BY <1>1, <1>2, <1>3, GrantSends
<1>6. "DATA" \in Counts /\ "ADJUST" \in Counts /\ "DATA" # "ADJUST"
  BY DEF Counts
<1>7. \A t \in Counts : \A id : id # i => Falls(w, w2, t, id, 0)
  BY <1>1, <1>2, FallsNone
<1>8. /\ out \in Seq(Message)
      /\ \A j \in DOMAIN out : out[j].t \in {"DATA", "EOF", "CLOSE"} /\ out[j].to = c.peer
  <2>1. Flushed(out, x, i, n, f, o) /\ (o = 1 => out[Len(out)] = On(x, i, "CLOSE"))
    BY <1>5
  <2>2. /\ out \in Seq(Message)
        /\ \A j \in DOMAIN out : out[j].t \in {"DATA", "EOF", "CLOSE"} /\ OnId(out[j], x, i)
    BY <1>4, <2>1, FlushedKinds, SMTT(90)
  <2> QED  BY <1>2, <2>2 DEF OnId
<1>9. \A j \in DOMAIN out : /\ out[j].t \notin {"OPEN", "CONFIRM", "ADJUST"}
                            /\ out[j].t \in Counts => out[j].to = c.peer
  BY <1>8
<1>10. CASE Drops(x, z, i)
  <2>1. Rests(x, z, w, w2, {i}) /\ i \notin DOMAIN z.chans
    BY <1>4, <1>7, <1>10, DropRests
  <2>2. Sound(z)
    BY <1>10, UntouchedBy, UntouchedSound DEF Drops
  <2> QED  BY <1>1, <1>2, <1>4, <1>9, <2>1, <2>2 DEF Trading
<1>11. ASSUME NEW d, Puts(x, z, i, d), Twin(c, d), d.own = c.own, d.win + n = c.win + m.n,
              d.pend > 0 => d.win = 0
       PROVE  Sound(z) /\ Trading(x, z, w, w2, out, i)
  <2>1. SoundChan(d)
    BY <1>4, <1>11 DEF SoundChan, Twin
  <2>2. Sound(z)
    BY <1>4, <1>11, <2>1, PutSound
  <2>3. Rests(x, z, w, w2, {i}) /\ i \in DOMAIN z.chans /\ z.chans[i] = d
    <3>1. Puts(x, z, i, d)
      BY <1>11
    <3>2. /\ DOMAIN z.chans = DOMAIN x.chans /\ z.chans[i] = d
          /\ \A id \in DOMAIN x.chans : id # i => z.chans[id] = x.chans[id]
      BY <1>4, <3>1, PutsFacts
    <3> QED  BY <1>4, <1>7, <3>2 DEF Rests, Stays
  <2>4. Falls(w, w2, "ADJUST", i, m.n) /\ Falls(w, w2, "DATA", i, 0)
    <3>1. Weight(m, "ADJUST", i) = m.n
      BY <1>1, <1>2, <1>6 DEF Weight
    <3>2. Falls(w, w2, "ADJUST", i, Weight(m, "ADJUST", i))
      BY <1>1, <1>6, FallsTail
    <3>3. Falls(w, w2, "DATA", i, 0)
      BY <1>6, FallsNone
    <3> QED  BY <3>1, <3>2, <3>3
  <2>5. Totals(out, "ADJUST", c.peer, 0)
    BY <1>8, <1>9, NoWeight
  <2>6. Totals(out, "DATA", c.peer, n)
    BY <1>2, <1>4, <1>5, TotalsFlushed
  <2>7. Trades(c, d, w, w2, out, i)
    <3>1. 0 \in Nat /\ d.own + 0 = c.own + 0
      BY <1>11
    <3> QED  BY <1>3, <1>5, <1>11, <2>4, <2>5, <2>6, <3>1 DEF Trades
  <2>8. d.peer = c.peer
    BY <1>11 DEF Twin
  <2> QED  BY <1>2, <1>4, <1>9, <2>2, <2>3, <2>7, <2>8 DEF Trading
<1> QED  BY <1>1, <1>2, <1>5, <1>10, <1>11

\* A task sends data.
LEMMA DataSends ==
    ASSUME NEW x \in Session, NEW w \in Seq(Message), NEW z, NEW out, NEW k, NEW k2, NEW i,
           DidData(x, k, i, z, out, k2), Sound(x), i \in DOMAIN x.chans, x.chans[i].peer # 0
    PROVE  Sound(z) /\ Trading(x, z, w, w, out, i)
<1>1. PICK c : c = x.chans[i]
  OBVIOUS
<1>2. /\ i \in DOMAIN x.chans /\ c.peer # 0 /\ c.peer \in Nat /\ SoundChan(c)
      /\ c.win \in Nat /\ c.pend \in Nat
  BY <1>1, SessionFacts, TableFacts, ParamFacts DEF Sound
<1>a. PICK d : Puts(x, z, i, d) /\ Sends(x, i, d, out)
  BY <1>2, Zenon DEF DidData
<1>b. /\ Twin(c, d) /\ d.own = c.own
      /\ \E j \in Nat : /\ Flushed(out, x, i, j, FALSE, 0)
                        /\ j <= c.win /\ d.win = c.win - j
                        /\ d.pend \in Nat /\ d.pend >= c.pend
                        /\ c.pend > 0 => j = 0
                        /\ ~(c.pend > 0) /\ d.pend > 0 => d.win = 0
  BY <1>1, <1>a, Zenon DEF Sends
<1>c. PICK sent \in Nat :
            /\ Flushed(out, x, i, sent, FALSE, 0)
            /\ sent <= c.win /\ d.win = c.win - sent
            /\ d.pend \in Nat /\ d.pend >= c.pend
            /\ c.pend > 0 => sent = 0
            /\ ~(c.pend > 0) /\ d.pend > 0 => d.win = 0
  BY <1>b, Zenon
<1>3. /\ Puts(x, z, i, d) /\ Sends(x, i, d, out) /\ Twin(c, d) /\ d.own = c.own
      /\ Flushed(out, x, i, sent, FALSE, 0)
      /\ sent <= c.win /\ d.win = c.win - sent
      /\ d.pend \in Nat /\ d.pend >= c.pend
      /\ c.pend > 0 => sent = 0
      /\ ~(c.pend > 0) /\ d.pend > 0 => d.win = 0
  BY <1>a, <1>b, <1>c, Zenon
<1>4. SoundChan(d)
  <2>1. d.pend > 0 => d.win = 0
    BY <1>2, <1>3 DEF SoundChan
  <2> QED  BY <1>2, <1>3, <2>1 DEF SoundChan, Twin
<1>5. Sound(z)
  BY <1>2, <1>3, <1>4, PutSound
<1>6. "DATA" \in Counts /\ "ADJUST" \in Counts /\ "DATA" # "ADJUST"
  BY DEF Counts
<1>7. \A t, id : Falls(w, w, t, id, 0)
  BY FallsSame
<1>8. Rests(x, z, w, w, {i}) /\ i \in DOMAIN z.chans /\ z.chans[i] = d
  BY <1>2, <1>3, <1>7, PutRests
<1>9. /\ Totals(out, "DATA", c.peer, sent) /\ d.win + sent = c.win
      /\ out \in Seq(Message)
      /\ \A j \in DOMAIN out : out[j].t = "DATA" /\ out[j].to = c.peer
  <2>1. /\ out \in Seq(Message)
        /\ \A j \in DOMAIN out : out[j].t = "DATA" /\ out[j].to = c.peer
    BY <1>1, <1>2, <1>3, SendsSays
  <2>2. PICK f \in BOOLEAN, o \in {0, 1} : /\ o = 0 /\ Flushed(out, x, i, sent, f, o)
    BY <1>3, Zenon
  <2>3. o = 1 => out[Len(out)] = On(x, i, "CLOSE")
    BY <2>2
  <2>4. Totals(out, "DATA", c.peer, sent)
    BY <1>1, <1>2, <2>2, <2>3, TotalsFlushed
  <2>5. d.win + sent = c.win
    BY <1>2, <1>3
  <2> QED  BY <2>1, <2>4, <2>5
<1>10. Totals(out, "ADJUST", c.peer, 0)
  BY <1>6, <1>9, NoWeight
<1>11. Trades(c, d, w, w, out, i)
  <2>1. 0 \in Nat /\ d.win + sent = c.win + 0 /\ d.own + 0 = c.own + 0
    BY <1>2, <1>3, <1>9
  <2> QED  BY <1>7, <1>9, <1>10, <2>1 DEF Trades
<1>12. d.peer = c.peer
  BY <1>3 DEF Twin
<1> QED  BY <1>1, <1>2, <1>5, <1>8, <1>9, <1>11, <1>12 DEF Trading

\* Every step is one of these.
Flows(s, x, k, n, w, z, out, k2, w2) ==
    \/ Idles(x, z, w, w2, out)
    \/ \E i : Trading(x, z, w, w2, out, i)
    \/ DidOpen(s, x, k, n, z, out, k2) /\ w2 = w
    \/ Accepts(s, x, k, w, z, out, k2, w2)
    \/ Confirming(x, z, w, w2, out)

\* A message is read that does not touch the windows.
LEMMA ReadsIdle ==
    ASSUME NEW x \in Session, NEW w \in Seq(Message), w # <<>>, NEW z, NEW out, NEW w2,
           z.end = "no" => w2 = Tail(w), z.end # "no" => z.chans = <<>>,
           Untouched(x, z), Head(w).t \in Counts => Head(w).to \notin DOMAIN z.chans,
           \A j \in DOMAIN out : out[j].t \notin {"DATA", "ADJUST", "OPEN", "CONFIRM"}
    PROVE  Idles(x, z, w, w2, out)
<1>1. CASE z.end = "no"
  <2>1. \A t \in Counts : \A id \in DOMAIN z.chans : Falls(w, w2, t, id, 0)
    BY <1>1, FallsNone
  <2> QED  BY <2>1 DEF Idles, Rests, Untouched
<1>2. CASE z.end # "no"
  <2>1. DOMAIN z.chans = {}
    BY <1>2, TablesEmpty
  <2> QED  BY <2>1 DEF Idles, Rests
<1> QED  BY <1>1, <1>2

LEMMA TookFlow ==
    ASSUME NEW s \in Sides, NEW x \in Session, NEW k \in Tasks, NEW n, NEW w \in Seq(Message),
           w # <<>>, x.end = "no", NEW z, NEW out, NEW k2, NEW w2,
           w2 = (IF z.end = "no" THEN Tail(w) ELSE <<>>),
           Took(s, x, k, Head(w), z, out, k2), Sound(x),
           Head(w).t \in Plain /\ Head(w).to \in DOMAIN x.chans => x.chans[Head(w).to].peer # 0,
           Head(w).t \in {"OPEN", "CONFIRM"} => Head(w).from # 0,
           Head(w).t = "CONFIRM" /\ Head(w).to \in DOMAIN x.chans => x.chans[Head(w).to].peer = 0
    PROVE  Sound(z) /\ Flows(s, x, k, n, w, z, out, k2, w2)
<1>1. PICK m : m = Head(w)
  OBVIOUS
<1>2. m \in Message
  BY <1>1, TailFacts
<1>3. Proper(s, x, z, out, k2)
  BY <1>1, <1>2, TookProper
<1>4. z.end = "no" => w2 = Tail(w)
  OBVIOUS
<1>5. z.end # "no" => z.chans = <<>>
  BY <1>3 DEF Proper
<1>6. \A j \in DOMAIN out : Reply(m.t, out[j].t)
  BY <1>1, <1>2, TookSays
<1>7. ASSUME Untouched(x, z), m.t \notin {"DATA", "ADJUST"},
             \A j \in DOMAIN out : out[j].t \notin {"DATA", "ADJUST", "OPEN", "CONFIRM"}
      PROVE  Sound(z) /\ Flows(s, x, k, n, w, z, out, k2, w2)
  <2>1. Idles(x, z, w, w2, out)
    BY <1>1, <1>4, <1>5, <1>7, ReadsIdle DEF Counts
  <2>2. Sound(z)
    BY <1>7, UntouchedSound
  <2> QED  BY <2>1, <2>2 DEF Flows
<1>8. CASE m.t = "OPEN" /\ TookOpen(s, x, k, m, z, out, k2)
  <2>1. z.end = "no" /\ w2 = Tail(w)
    BY <1>4, <1>8 DEF TookOpen, Shift
  <2>2. CASE /\ Shift(x, z, x.last + 1, x.refs \cup {x.last + 1},
                      With(x.chans, x.last + 1, Params(m.ch, m.from, Window)))
             /\ out = <<[t |-> "CONFIRM", to |-> m.from, ch |-> m.ch, from |-> x.last + 1]>>
             /\ k2 = With(k, x.last + 1, Task("held"))
    <3>1. Accepts(s, x, k, w, z, out, k2, w2)
      BY <1>1, <1>8, <2>1, <2>2 DEF Accepts
    <3>2. PICK i, d : i = x.last + 1 /\ d = Params(m.ch, m.from, Window)
      OBVIOUS
    <3>3. SoundChan(d)
      BY <1>1, <1>8, <3>2, WindowAssumption DEF SoundChan, Params
    <3>4. z.chans = With(x.chans, i, d)
      BY <2>2, <3>2 DEF Shift
    <3>5. Sound(z)
      BY <3>3, <3>4, AddSound
    <3> QED  BY <3>1, <3>5 DEF Flows
  <2>3. CASE z.chans = x.chans /\ out = <<[t |-> "FAILURE", to |-> m.from, ch |-> m.ch]>>
    <3>1. Untouched(x, z)
      BY <2>3, UntouchedBy
    <3>2. \A j \in DOMAIN out : out[j].t = "FAILURE"
      BY <2>3
    <3> QED  BY <1>7, <1>8, <3>1, <3>2
  <2> QED  BY <1>8, <2>2, <2>3 DEF TookOpen, Shift
<1>9. CASE m.t = "CONFIRM" /\ TookConfirm(x, k, m, z, out, k2)
  <2>1. out = <<>> /\ DOMAIN out = {}
    BY <1>9, NoMessage DEF TookConfirm
  <2>2. CASE m.to \notin DOMAIN x.chans
    <3>1. z.chans = <<>>
      BY <1>9, <2>2 DEF TookConfirm, Stops
    <3>2. Untouched(x, z)
      BY <3>1, UntouchedBy
    <3> QED  BY <1>7, <1>9, <2>1, <3>2
  <2>3. CASE m.to \in DOMAIN x.chans
    <3>1. PICK i, c : i = m.to /\ c = x.chans[i]
      OBVIOUS
    <3>2. PICK d : /\ Puts(x, z, i, d) /\ d.peer = m.from /\ d.win = Window
                   /\ d.own = c.own /\ d.pend = c.pend
      BY <1>9, <2>3, <3>1 DEF TookConfirm
    <3>3. z.end = "no" /\ w2 = Tail(w)
      BY <1>4, <3>2 DEF Puts, Same
    <3>4. Confirming(x, z, w, w2, out)
      BY <1>1, <1>9, <2>1, <2>3, <3>1, <3>2, <3>3 DEF Confirming
    <3>5. SoundChan(c) /\ c.peer = 0 /\ m.from # 0
      BY <1>1, <1>9, <2>3, <3>1 DEF Sound
    <3>6. SoundChan(d)
      <4>1. c.pend = 0 /\ ~(c.pend > 0)
        BY <3>5 DEF SoundChan
      <4> QED  BY <3>2, <3>5, <4>1 DEF SoundChan
    <3>7. Sound(z)
      BY <2>3, <3>1, <3>2, <3>6, PutSound
    <3> QED  BY <3>4, <3>7 DEF Flows
  <2> QED  BY <2>2, <2>3
<1>10. CASE m.t = "FAILURE" /\ TookFailure(s, x, k, m, z, out, k2)
  <2>1. out = <<>> /\ DOMAIN out = {}
    BY <1>10, NoMessage DEF TookFailure
  <2>2. z.chans = <<>> \/ z.chans = Without(x.chans, m.to)
    BY <1>10 DEF TookFailure, Stops, Shift
  <2>3. Untouched(x, z)
    BY <2>2, UntouchedBy
  <2> QED  BY <1>7, <1>10, <2>1, <2>3
<1>11. CASE m.t = "CLOSE" /\ TookClose(s, x, m, z, out)
  <2>1. \A j \in DOMAIN out : out[j].t = "CLOSE"
    BY <1>6, <1>11 DEF Reply
  <2>2. \/ z.chans = x.chans
        \/ z.chans = Without(x.chans, m.to)
        \/ \E id \in DOMAIN x.chans : \E d : /\ z.chans = With(x.chans, id, d)
                                            /\ Twin(x.chans[id], d) /\ Flow(x.chans[id], d)
    BY <1>11 DEF TookClose, Shift
  <2>3. Untouched(x, z)
    BY <2>2, UntouchedBy
  <2> QED  BY <1>7, <1>11, <2>1, <2>3
<1>12. CASE m.t = "DATA" /\ TookData(x, m, z, out)
  <2>1. CASE m.to \in DOMAIN x.chans
    <3>1. x.chans[m.to].peer # 0
      BY <1>1, <1>12, <2>1 DEF Plain
    <3>2. z.end = "no" /\ w2 = Tail(w)
      BY <1>4, <1>12, <2>1 DEF TookData, Puts, Same
    <3>3. Sound(z) /\ Trading(x, z, w, w2, out, m.to)
      BY <1>1, <1>12, <2>1, <3>1, <3>2, DataTrades
    <3> QED  BY <3>3 DEF Flows
  <2>2. CASE m.to \notin DOMAIN x.chans
    <3>1. z = x /\ out = <<>> /\ DOMAIN out = {}
      BY <1>12, <2>2, NoMessage DEF TookData
    <3>2. Untouched(x, z)
      BY <3>1, UntouchedBy
    <3>3. Idles(x, z, w, w2, out)
      BY <1>1, <1>4, <1>5, <2>2, <3>1, <3>2, ReadsIdle
    <3> QED  BY <3>1, <3>3 DEF Flows
  <2> QED  BY <2>1, <2>2
<1>13. CASE m.t = "ADJUST" /\ TookGrant(x, m, z, out)
  <2>1. CASE m.to \in DOMAIN x.chans
    <3>1. x.chans[m.to].peer # 0
      BY <1>1, <1>13, <2>1 DEF Plain
    <3>2. z.end = "no" /\ w2 = Tail(w)
      BY <1>4, <1>13, <2>1 DEF TookGrant, Puts, Drops, Same
    <3>3. Sound(z) /\ Trading(x, z, w, w2, out, m.to)
      BY <1>1, <1>13, <2>1, <3>1, <3>2, GrantTrades
    <3> QED  BY <3>3 DEF Flows
  <2>2. CASE m.to \notin DOMAIN x.chans
    <3>1. z.chans = <<>> /\ out = <<>> /\ DOMAIN out = {} /\ DOMAIN z.chans = {}
      BY <1>13, <2>2, NoMessage, TablesEmpty DEF TookGrant, Stops
    <3>2. Untouched(x, z)
      BY <3>1, UntouchedBy
    <3>3. Idles(x, z, w, w2, out)
      BY <1>4, <1>5, <3>1, <3>2, ReadsIdle
    <3>4. Sound(z)
      BY <3>2, UntouchedSound
    <3> QED  BY <3>3, <3>4 DEF Flows
  <2> QED  BY <2>1, <2>2
<1>14. CASE m.t = "REQUEST" /\ TookRequest(x, m, z, out)
  <2>1. \A j \in DOMAIN out : out[j].t \in {"ANSWER", "RESULT"}
    BY <1>6, <1>14 DEF Reply
  <2>2. \/ z.chans = x.chans
        \/ \E id \in DOMAIN x.chans : \E d : /\ z.chans = With(x.chans, id, d)
                                            /\ Twin(x.chans[id], d) /\ Flow(x.chans[id], d)
    BY <1>14 DEF TookRequest, Puts, Still, Shift
  <2>3. Untouched(x, z)
    BY <2>2, UntouchedBy
  <2> QED  BY <1>7, <1>14, <2>1, <2>3
<1>15. CASE m.t \in {"ANSWER", "EOF", "GLOBAL", "RESULT"}
  <2>1. z.chans = x.chans
    BY <1>1, <1>15 DEF Took, TookAnswer, TookGlobal, Still, Shift, TookResult, Queues
  <2>2. Untouched(x, z)
    BY <2>1, UntouchedBy
  <2>3. \A j \in DOMAIN out : out[j].t = "RESULT"
    BY <1>6, <1>15 DEF Reply
  <2> QED  BY <1>7, <1>15, <2>2, <2>3
<1>16. CASE m.t = "DISCONNECT" /\ Stops(x, z, "disconnected")
  <2>1. z.chans = <<>>
    BY <1>16 DEF Stops
  <2>2. Untouched(x, z)
    BY <2>1, UntouchedBy
  <2>3. \A j \in DOMAIN out : out[j].t = "RESULT"
    BY <1>6, <1>16 DEF Reply
  <2> QED  BY <1>7, <1>16, <2>2, <2>3
<1> QED
  BY <1>1, <1>8, <1>9, <1>10, <1>11, <1>12, <1>13, <1>14, <1>15, <1>16 DEF Took

LEMMA DidFlow ==
    ASSUME NEW s \in Sides, NEW x \in Session, NEW k \in Tasks, NEW n, NEW w \in Seq(Message),
           NEW z, NEW out, NEW k2, NEW w2, w2 = (IF z.end = "no" THEN w ELSE <<>>),
           x.end = "no", Did(s, x, k, n, z, out, k2), Sound(x),
           \A id \in DOMAIN k :
               id \in DOMAIN x.chans /\ x.chans[id].peer = 0 => k[id].st \in {"wait", "quit"}
    PROVE  Sound(z) /\ Flows(s, x, k, n, w, z, out, k2, w2)
<1>1. \A t, id : Falls(w, w, t, id, 0)
  BY FallsSame
<1>2. ASSUME Untouched(x, z), z.end = "no" \/ z.chans = <<>>,
             \A j \in DOMAIN out : out[j].t \notin {"DATA", "ADJUST", "OPEN", "CONFIRM"}
      PROVE  Sound(z) /\ Flows(s, x, k, n, w, z, out, k2, w2)
  <2>1. Sound(z)
    BY <1>2, UntouchedSound
  <2>2. CASE z.end = "no"
    BY <1>1, <1>2, <2>1, <2>2 DEF Flows, Idles, Rests, Untouched
  <2>3. CASE z.chans = <<>>
    <3>1. DOMAIN z.chans = {}
      BY <2>3, TablesEmpty
    <3> QED  BY <1>2, <2>1, <3>1 DEF Flows, Idles, Rests
  <2> QED  BY <1>2, <2>2, <2>3
<1>3. CASE DidOpen(s, x, k, n, z, out, k2)
  <2>1. PICK i, d : i = x.last + 1 /\ d = Params(<<s, n>>, 0, 0)
    OBVIOUS
  <2>2. z.chans = With(x.chans, i, d) /\ z.end = "no"
    BY <1>3, <2>1 DEF DidOpen, Shift
  <2>3. SoundChan(d)
    <3>1. d.own = Window /\ d.win = 0 /\ d.pend = 0 /\ d.peer = 0
      BY <2>1 DEF Params
    <3>2. ~d.confirmed
      <4>1. d.confirmed = (0 # 0)
        BY <2>1, Zenon DEF Params
      <4> QED  BY <4>1, Zenon
    <3>3. Window \in 1 .. Window /\ ~(0 > 0)
      BY WindowAssumption
    <3> QED  BY <3>1, <3>2, <3>3 DEF SoundChan
  <2>4. Sound(z)
    BY <2>2, <2>3, AddSound
  <2> QED  BY <1>3, <2>2, <2>4 DEF Flows
<1>4. CASE DidGlobal(s, x, k, z, out, k2) \/ DidNoReply(x, k, z, out, k2)
  <2>1. z.chans = x.chans /\ z.end = "no"
    BY <1>4 DEF DidGlobal, DidNoReply, Queues
  <2>2. \A j \in DOMAIN out : out[j].t = "GLOBAL"
    BY <1>4 DEF DidGlobal, DidNoReply
  <2>3. Untouched(x, z)
    BY <2>1, UntouchedBy
  <2> QED  BY <1>2, <2>1, <2>2, <2>3
<1>5. CASE \/ Stops(x, z, "left") /\ out = <<[t |-> "DISCONNECT"]>>
           \/ Stops(x, z, "eof") /\ out = <<>>
  <2>1. z.chans = <<>>
    BY <1>5 DEF Stops
  <2>2. \A j \in DOMAIN out : out[j].t = "DISCONNECT"
    BY <1>5
  <2>3. Untouched(x, z)
    BY <2>1, UntouchedBy
  <2> QED  BY <1>2, <2>1, <2>2, <2>3
<1>6. ASSUME NEW id \in DOMAIN k, DidData(x, k, id, z, out, k2)
      PROVE  Sound(z) /\ Flows(s, x, k, n, w, z, out, k2, w2)
  <2>1. k[id].st = "held" /\ z.end = "no" /\ w2 = w
    BY <1>6 DEF DidData, Puts, Same
  <2>2. CASE id \in DOMAIN x.chans
    <3>1. x.chans[id].peer # 0
      BY <2>1, <2>2
    <3>2. Sound(z) /\ Trading(x, z, w, w, out, id)
      BY <1>6, <2>2, <3>1, DataSends
    <3> QED  BY <2>1, <3>2 DEF Flows
  <2>3. CASE id \notin DOMAIN x.chans
    <3>1. z = x /\ out = <<>> /\ DOMAIN out = {}
      BY <1>6, <2>3, NoMessage DEF DidData
    <3>2. Untouched(x, z)
      BY <3>1, UntouchedBy
    <3> QED  BY <1>2, <2>1, <3>1, <3>2
  <2> QED  BY <2>2, <2>3
<1>7. ASSUME NEW id \in DOMAIN k,
             \/ DidGiveUp(x, k, id, z, out, k2)
             \/ DidEof(s, x, k, id, z, out, k2)
             \/ DidClose(s, x, k, id, z, out, k2)
             \/ \E wants, agent \in BOOLEAN : DidRequest(x, k, id, wants, agent, z, out, k2)
             \/ DidAnswer(x, k, id, z, out, k2)
      PROVE  Sound(z) /\ Flows(s, x, k, n, w, z, out, k2, w2)
  <2>1. z.end = "no"
    BY <1>7 DEF DidGiveUp, DidEof, DidClose, DidRequest, DidAnswer, Puts, Drops, Same, Still, Shift
  <2>2. \/ z.chans = x.chans
        \/ z.chans = Without(x.chans, id)
        \/ \E i \in DOMAIN x.chans : \E d : /\ z.chans = With(x.chans, i, d)
                                           /\ Twin(x.chans[i], d) /\ Flow(x.chans[i], d)
    BY <1>7 DEF DidGiveUp, DidEof, DidClose, DidRequest, DidAnswer, Puts, Drops, Still, Shift
  <2>3. Untouched(x, z)
    BY <2>2, UntouchedBy
  <2>4. \A j \in DOMAIN out : out[j].t \in {"EOF", "CLOSE", "REQUEST", "ANSWER"}
    <3>1. \/ out = <<>> \/ out = <<On(x, id, "EOF")>> \/ out = <<On(x, id, "CLOSE")>>
          \/ out = <<OnWith(x, id, "ANSWER", x.chans[id].asked)>>
          \/ \E wants, agent, h :
                out = <<[t |-> "REQUEST", to |-> x.chans[id].peer, ch |-> x.chans[id].ch,
                         wants |-> wants, agent |-> agent, n |-> h]>>
      BY <1>7 DEF DidGiveUp, DidEof, DidClose, DidRequest, DidAnswer
    <3> QED  BY <3>1 DEF On, OnWith
  <2> QED  BY <1>2, <2>1, <2>3, <2>4
<1> QED  BY <1>3, <1>4, <1>5, <1>6, <1>7 DEF Did

LEMMA FlowsKeep ==
    ASSUME NEW s, NEW p, NEW x, NEW y, NEW k, NEW l, NEW v, NEW w, NEW z, NEW out,
           NEW v2, NEW w2, Turn(s, p, x, y, k, l, v, w, z, out, v2, w2),
           NEW n, NEW k2, Flows(s, x, k, n, w, z, out, k2, w2)
    PROVE  FlowParts(z, y, v2, w2) /\ FlowParts(y, z, w2, v2)
<1>1. CASE Idles(x, z, w, w2, out)
  BY <1>1, IdlesKeep
<1>2. ASSUME NEW i, Trading(x, z, w, w2, out, i)
      PROVE  FlowParts(z, y, v2, w2) /\ FlowParts(y, z, w2, v2)
  BY <1>2, TradingKeeps
<1>3. CASE DidOpen(s, x, k, n, z, out, k2) /\ w2 = w
  BY <1>3, OpeningKeeps
<1>4. CASE Accepts(s, x, k, w, z, out, k2, w2)
  BY <1>4, AcceptingFlows
<1>5. CASE Confirming(x, z, w, w2, out)
  BY <1>5, ConfirmingKeeps
<1> QED  BY <1>1, <1>2, <1>3, <1>4, <1>5 DEF Flows

LEMMA FlowStep ==
    ASSUME Typed, HandInv, FlowInv, NEW s \in Sides, NEW z, NEW out, NEW k2, NEW w2,
           Steps(s, z, out, k2, w2)
    PROVE  FlowInv'
<1> DEFINE p == Peer(s)
           x == ses[s]
           y == ses[p]
           k == task[s]
           l == task[p]
           v == wire[s]
           w == wire[p]
           n == left.opens[s]
<1>1. p \in Sides /\ Peer(p) = s /\ \A u \in Sides : u = s \/ u = p
  BY PeerFacts
<1>2. Both(s, p, x, y, k, l, v, w)
  BY BothSides
<1>3. PICK v2 : v2 = wire'[s]
  OBVIOUS
<1>4. /\ ses'[s] = z /\ ses'[p] = y /\ wire'[p] = w2 /\ Longer(y, v, out, v2)
      /\ v2 = IF y.end = "no" THEN v \o out ELSE <<>>
  BY <1>3, StepsAfter
<1>5. /\ x.end = "no" /\ Proper(s, x, z, out, k2)
      /\ \/ /\ w # <<>> /\ Took(s, x, k, Head(w), z, out, k2)
            /\ w2 = IF z.end = "no" THEN Tail(w) ELSE <<>>
         \/ /\ Did(s, x, k, n, z, out, k2)
            /\ w2 = IF z.end = "no" THEN w ELSE <<>>
  BY DEF Steps
<1>6. FlowParts(x, y, v, w) /\ FlowParts(y, x, w, v)
  BY <1>1 DEF FlowInv
<1> HIDE DEF p, x, y, k, l, v, w, n
<1>7. /\ x \in Session /\ k \in Tasks /\ w \in Seq(Message) /\ Hand(s, x, y, k, v, w)
      /\ Hand(p, y, x, l, w, v)
  BY <1>2 DEF Both
<1>8. Facts(s, p, x, y, v, w)
  BY <1>2, BothFacts
<1>9. Sound(x)
  BY <1>6 DEF FlowParts
<1>10. Among(w, w2)
  <2>1. Rest(w, w2)
    BY <1>5 DEF Rest
  <2> QED  BY <1>7, <2>1, RestKeeps
<1>11. Sound(z) /\ Flows(s, x, k, n, w, z, out, k2, w2)
  <2>1. CASE /\ w # <<>> /\ Took(s, x, k, Head(w), z, out, k2)
             /\ w2 = IF z.end = "no" THEN Tail(w) ELSE <<>>
    <3>1. 1 \in DOMAIN w /\ Head(w) = w[1]
      BY <1>7, <2>1, TailFacts
    <3>2. Head(w).t \in Plain /\ Head(w).to \in DOMAIN x.chans => x.chans[Head(w).to].peer # 0
      BY <1>7, <2>1, HeadConfirmed DEF Hand
    <3>3. Head(w).t \in {"OPEN", "CONFIRM"} => Head(w).from # 0
      BY <1>7, <1>8, <3>1 DEF Hand, Numbered, Facts
    <3>4. Head(w).t = "CONFIRM" /\ Head(w).to \in DOMAIN x.chans => x.chans[Head(w).to].peer = 0
      BY <1>7, <3>1 DEF Hand, Handshake, Verdicts, Pends
    <3> QED  BY <1>5, <1>7, <1>9, <2>1, <3>2, <3>3, <3>4, TookFlow
  <2>2. CASE /\ Did(s, x, k, n, z, out, k2)
             /\ w2 = IF z.end = "no" THEN w ELSE <<>>
    <3>1. \A id \in DOMAIN k :
              id \in DOMAIN x.chans /\ x.chans[id].peer = 0 => k[id].st \in {"wait", "quit"}
      BY <1>7 DEF Hand, Handshake
    <3> QED  BY <1>5, <1>7, <1>9, <2>2, <3>1, DidFlow
  <2> QED  BY <1>5, <2>1, <2>2
<1>12. Turn(s, p, x, y, k, l, v, w, z, out, v2, w2)
  BY <1>2, <1>4, <1>5, <1>6, <1>10, <1>11 DEF Turn, Proper
<1>13. FlowParts(z, y, v2, w2) /\ FlowParts(y, z, w2, v2)
  BY <1>11, <1>12, FlowsKeep
<1> QED  BY <1>1, <1>3, <1>4, <1>13 DEF FlowInv, p, y

LEMMA FlowHolds == Spec => []FlowInv
<1>1. Init => FlowInv
  <2> SUFFICES ASSUME Init, NEW s \in Sides
               PROVE  FlowParts(ses[s], ses[Peer(s)], wire[s], wire[Peer(s)])
    BY DEF FlowInv
  <2>1. ses[s].chans = <<>> /\ wire[s] = <<>>
    BY DEF Init
  <2>2. DOMAIN ses[s].chans = {} /\ DOMAIN wire[s] = {}
    BY <2>1, TablesEmpty
  <2> QED  BY <2>2 DEF FlowParts, Sound, Fresh, Balance
<1>2. Typed /\ HandInv /\ FlowInv /\ [Next]_vars => FlowInv'
  <2> SUFFICES ASSUME Typed, HandInv, FlowInv, [Next]_vars PROVE FlowInv'
    OBVIOUS
  <2>1. CASE UNCHANGED vars
    BY <2>1 DEF vars, FlowInv
  <2>2. ASSUME NEW s \in Sides, NEW id, NEW k2, Losing(s, id, k2) PROVE FlowInv'
    <3>1. ses' = ses /\ wire' = wire
      BY <2>2, LosingAfter
    <3> QED  BY <3>1 DEF FlowInv
  <2> QED  BY <2>1, <2>2, FlowStep, NextMoves
<1> QED  BY <1>1, <1>2, HandshakeHolds, PTL DEF Spec

\* The window of a channel never exceeds what the peer has granted, and what
\* is granted stays within the window: whatever is opened, closed, sent and
\* kept back, adjust_window_size grants again exactly the data it has
\* received, and data and flush_pending spend what they send.
THEOREM WindowsBounded == Spec => []TypeOK
<1>1. ASSUME Typed, HandInv, FlowInv PROVE TypeOK
  <2> SUFFICES ASSUME NEW s \in Sides
               PROVE  /\ \A id \in DOMAIN ses[s].chans :
                            /\ id \in 1 .. ses[s].last
                            /\ ses[s].chans[id].own \in 1 .. Window
                            /\ ses[s].chans[id].win \in 0 .. Window
                            /\ ses[s].chans[id].confirmed => ses[s].chans[id].peer # 0
                      /\ ses[s].refs \subseteq 1 .. ses[s].last
                      /\ \A id \in DOMAIN task[s] : task[s][id].st \in States
    BY DEF TypeOK, States
  <2> DEFINE p == Peer(s)
             x == ses[s]
             y == ses[p]
             v == wire[s]
             w == wire[p]
  <2>1. p \in Sides
    BY PeerFacts
  <2>2. Both(s, p, x, y, task[s], task[p], v, w)
    BY <1>1, BothSides
  <2>3. FlowParts(x, y, v, w) /\ FlowParts(y, x, w, v)
    BY <1>1, <2>1, PeerFacts DEF FlowInv
  <2>4. \A id \in DOMAIN task[s] : task[s][id].st \in States
    BY <1>1, TasksFacts, OneTaskFacts DEF Typed
  <2> HIDE DEF p, x, y, v, w
  <2>5. /\ Numbered(x, y, task[s], v) /\ x \in Session /\ y \in Session
        /\ v \in Seq(Message) /\ w \in Seq(Message)
    BY <2>2 DEF Both, Hand
  <2>6. x.refs \subseteq 1 .. x.last /\ \A id \in DOMAIN x.chans : id \in 1 .. x.last
    BY <2>5 DEF Numbered, Given
  <2>7. ASSUME NEW id \in DOMAIN x.chans
        PROVE  /\ x.chans[id].own \in 1 .. Window /\ x.chans[id].win \in 0 .. Window
               /\ x.chans[id].confirmed => x.chans[id].peer # 0
    <3>1. PICK c, q : c = x.chans[id] /\ q = c.peer
      OBVIOUS
    <3>2. SoundChan(c) /\ c.win \in Nat
      BY <2>3, <2>5, <3>1, SessionFacts, TableFacts, ParamFacts DEF FlowParts, Sound
    <3>3. c.win \in 0 .. Window
      <4>1. CASE q = 0
        BY <3>1, <3>2, <4>1, WindowAssumption DEF SoundChan
      <4>2. CASE q # 0
        <5>1. Level(x, y, v, w, id, q)
          BY <2>3, <3>1, <4>2 DEF FlowParts, Balance, Links
        <5>2. Room(x.chans[id]) = c.win
          BY <3>1, <4>2 DEF Room
        <5>3. PICK a : /\ Totals(w, "ADJUST", id, a)
                       /\ q \notin DOMAIN y.chans => AtMost(c.win, a)
                       /\ q \in DOMAIN y.chans =>
                             \E d : Totals(v, "DATA", q, d) /\ Exact(c.win, d, a, y.chans[q].own)
          BY <5>1, <5>2 DEF Level
        <5>4. a \in Nat
          BY <2>5, <5>3, TotalsNat
        <5>5. CASE q \notin DOMAIN y.chans
          BY <3>2, <5>3, <5>4, <5>5, WindowAssumption DEF AtMost
        <5>6. CASE q \in DOMAIN y.chans
          <6>1. PICK d : Totals(v, "DATA", q, d) /\ Exact(c.win, d, a, y.chans[q].own)
            BY <5>3, <5>6
          <6>2. d \in Nat
            BY <2>5, <6>1, TotalsNat
          <6>3. y.chans[q].own \in 1 .. Window
            BY <2>3, <5>6 DEF FlowParts, Sound, SoundChan
          <6> QED  BY <3>2, <5>4, <6>1, <6>2, <6>3, WindowAssumption DEF Exact
        <5> QED  BY <5>5, <5>6
      <4> QED  BY <4>1, <4>2
    <3> QED  BY <3>1, <3>2, <3>3 DEF SoundChan
  <2> QED  BY <2>4, <2>6, <2>7 DEF x
<1> QED  BY <1>1, FlowHolds, HandshakeHolds, PTL

-----------------------------------------------------------------------------
\* The CLOSE of a channel: x, k and v are the client's session, its tasks and
\* what it has written, y, l and w the server's.

\* The client forgets a channel that its task has closed, or keeps the CLOSE
\* back with the data.
CloseWaits(x, k) ==
    \A id \in DOMAIN x.chans :
        /\ x.chans[id].pclose => Kept(x.chans[id])
        /\ id \in DOMAIN k /\ k[id].st = "closed" => x.chans[id].pclose

\* A channel that a task of the server has closed: its CLOSE is under way, or
\* the client's is kept back, or under way.
ClosedTask(l, q) == q \in DOMAIN l /\ l[q].st = "closed"
ClosesTo(v, q) == \E i \in DOMAIN v : v[i].t = "CLOSE" /\ v[i].to = q
CloseComing(x, y, l, v, w) ==
    x.end = "no" /\ y.end = "no" =>
        \A q \in DOMAIN y.chans : ClosedTask(l, q) =>
            LET i == y.chans[q].peer
            IN  \/ ClosesTo(w, i)
                \/ i \in DOMAIN x.chans /\ x.chans[i].pclose
                \/ ClosesTo(v, q)

CloseInv ==
    /\ CloseWaits(ses["client"], task["client"])
    /\ CloseComing(ses["client"], ses["server"], task["server"], wire["client"], wire["server"])

\* The steps of the client, as the CLOSE sees them; C holds the channel whose
\* CLOSE is read.
Patient(x, k, z, k2) ==
    \A id \in DOMAIN z.chans :
        \/ /\ id \in DOMAIN x.chans /\ z.chans[id].pclose = x.chans[id].pclose
           /\ x.chans[id].pclose /\ Kept(x.chans[id]) => Kept(z.chans[id])
           /\ ClosedTask(k2, id) => ClosedTask(k, id)
        \/ z.chans[id].pclose /\ Kept(z.chans[id])
        \/ ~z.chans[id].pclose /\ ~ClosedTask(k2, id)
EndsOn(x, z, out, C) ==
    \A i \in DOMAIN x.chans : x.chans[i].peer # 0 =>
        \/ i \in DOMAIN z.chans /\ (x.chans[i].pclose \/ i \in C => z.chans[i].pclose)
        \/ ClosesTo(out, x.chans[i].peer)
Abides(x, k, z, out, k2, C) == Patient(x, k, z, k2) /\ EndsOn(x, z, out, C)

LEMMA AbidesSame ==
    ASSUME NEW x, NEW k, NEW z, NEW out, NEW k2, NEW C, z.chans = x.chans,
           \A id \in DOMAIN x.chans : id \notin C /\ (ClosedTask(k2, id) => ClosedTask(k, id))
    PROVE  Abides(x, k, z, out, k2, C)
BY DEF Abides, Patient, EndsOn

LEMMA AbidesPut ==
    ASSUME NEW x, NEW k, NEW z, NEW out, NEW k2, NEW C, NEW i \in DOMAIN x.chans, NEW d,
           z.chans = With(x.chans, i, d), d.pclose = x.chans[i].pclose,
           x.chans[i].pclose /\ Kept(x.chans[i]) => Kept(d),
           \A id \in DOMAIN x.chans : id \notin C /\ (ClosedTask(k2, id) => ClosedTask(k, id))
    PROVE  Abides(x, k, z, out, k2, C)
<1>1. /\ DOMAIN z.chans = DOMAIN x.chans \cup {i} /\ z.chans[i] = d
      /\ \A id \in DOMAIN x.chans : id # i => z.chans[id] = x.chans[id]
  BY DEF With
<1> QED  BY <1>1 DEF Abides, Patient, EndsOn

LEMMA AbidesShuts ==
    ASSUME NEW x, NEW k, NEW z, NEW out, NEW k2, NEW C, NEW i \in DOMAIN x.chans, NEW d,
           z.chans = With(x.chans, i, d), d.pclose, Kept(d),
           \A id \in DOMAIN x.chans :
               id # i => id \notin C /\ (ClosedTask(k2, id) => ClosedTask(k, id))
    PROVE  Abides(x, k, z, out, k2, C)
<1>1. /\ DOMAIN z.chans = DOMAIN x.chans \cup {i} /\ z.chans[i] = d
      /\ \A id \in DOMAIN x.chans : id # i => z.chans[id] = x.chans[id]
  BY DEF With
<1> QED  BY <1>1 DEF Abides, Patient, EndsOn

LEMMA AbidesDrop ==
    ASSUME NEW x, NEW k, NEW z, NEW out, NEW k2, NEW C, NEW i,
           z.chans = Without(x.chans, i),
           i \in DOMAIN x.chans /\ x.chans[i].peer # 0 => ClosesTo(out, x.chans[i].peer),
           \A id \in DOMAIN x.chans :
               id # i => id \notin C /\ (ClosedTask(k2, id) => ClosedTask(k, id))
    PROVE  Abides(x, k, z, out, k2, C)
<1>1. /\ DOMAIN z.chans = DOMAIN x.chans \ {i}
      /\ \A id \in DOMAIN x.chans : id # i => z.chans[id] = x.chans[id]
  BY DEF Without
<1> QED  BY <1>1 DEF Abides, Patient, EndsOn

LEMMA AbidesAdd ==
    ASSUME NEW x, NEW k, NEW z, NEW out, NEW k2, NEW C, NEW i, NEW d, i \notin DOMAIN x.chans,
           z.chans = With(x.chans, i, d), ~d.pclose, ~ClosedTask(k2, i),
           \A id \in DOMAIN x.chans : id \notin C /\ (ClosedTask(k2, id) => ClosedTask(k, id))
    PROVE  Abides(x, k, z, out, k2, C)
<1>1. /\ DOMAIN z.chans = DOMAIN x.chans \cup {i} /\ z.chans[i] = d
      /\ \A id \in DOMAIN x.chans : id # i => z.chans[id] = x.chans[id]
  BY DEF With
<1> QED  BY <1>1 DEF Abides, Patient, EndsOn

\* The tasks after a step.
LEMMA ClosedWith ==
    ASSUME NEW k, NEW k2, NEW i, NEW e, k2 = With(k, i, e)
    PROVE  /\ \A id : id # i => (ClosedTask(k2, id) <=> ClosedTask(k, id))
           /\ ClosedTask(k2, i) <=> e.st = "closed"
BY DEF With, ClosedTask

LEMMA FreshOpen == \A ch, peer, win : ~Params(ch, peer, win).pclose
<1> SUFFICES ASSUME NEW ch, NEW peer, NEW win PROVE ~Params(ch, peer, win).pclose
  OBVIOUS
<1>1. Params(ch, peer, win).pclose = FALSE
  BY Zenon DEF Params
<1> QED  BY <1>1, Zenon

\* What is read does not close a task.
LEMMA TookTasks ==
    ASSUME NEW s \in Sides, NEW x \in Session, NEW k \in Tasks, NEW m, NEW z, NEW out, NEW k2,
           Took(s, x, k, m, z, out, k2)
    PROVE  \A id : ClosedTask(k2, id) => ClosedTask(k, id)
<1>1. CASE k2 = k
  BY <1>1
<1>2. ASSUME NEW i, NEW e, k2 = With(k, i, e), e.st # "closed"
      PROVE  \A id : ClosedTask(k2, id) => ClosedTask(k, id)
  BY <1>2, ClosedWith
<1>3. ASSUME NEW i, NEW e, k2 = With(k, i, e), i \in DOMAIN k, e.st = k[i].st
      PROVE  \A id : ClosedTask(k2, id) => ClosedTask(k, id)
  <2>1. ClosedTask(k2, i) => ClosedTask(k, i)
    BY <1>3, ClosedWith DEF ClosedTask
  <2> QED  BY <1>3, <2>1, ClosedWith
<1>4. \A st : Task(st).st = st
  BY DEF Task
<1>5. \/ k2 = k
      \/ \E i, e : k2 = With(k, i, e) /\ e.st # "closed"
      \/ \E i, e : k2 = With(k, i, e) /\ i \in DOMAIN k /\ e.st = k[i].st
  <2>1. CASE m.t = "OPEN" /\ TookOpen(s, x, k, m, z, out, k2)
    BY <1>4, <2>1 DEF TookOpen
  <2>2. CASE m.t = "CONFIRM" /\ TookConfirm(x, k, m, z, out, k2)
    BY <1>4, <2>2 DEF TookConfirm
  <2>3. CASE m.t = "FAILURE" /\ TookFailure(s, x, k, m, z, out, k2)
    BY <1>4, <2>3 DEF TookFailure
  <2>4. CASE m.t = "ANSWER" /\ TookAnswer(x, k, m, z, out, k2)
    BY <2>4 DEF TookAnswer, Heard
  <2> QED  BY <2>1, <2>2, <2>3, <2>4 DEF Took
<1> QED  BY <1>1, <1>2, <1>3, <1>5

\* What the client reads.
LEMMA TookAbides ==
    ASSUME NEW x \in Session, NEW k \in Tasks, NEW m \in Message, NEW z, NEW out, NEW k2,
           Took("client", x, k, m, z, out, k2), x.end = "no",
           m.t \in Verdicts => Pends(x, k, m.to),
           x.last + 1 \notin DOMAIN x.chans, x.last + 1 \notin DOMAIN k, z.end = "no"
    PROVE  Abides(x, k, z, out, k2, IF m.t = "CLOSE" THEN {m.to} ELSE {})
<1>1. PICK C : C = IF m.t = "CLOSE" THEN {m.to} ELSE {}
  OBVIOUS
<1>2. \A id : ClosedTask(k2, id) => ClosedTask(k, id)
  <2>1. "client" \in Sides
    BY DEF Sides
  <2> QED  BY <2>1, TookTasks
<1>3. (m.t # "CLOSE" => \A id : id \notin C) /\ \A id : id # m.to => id \notin C
  BY <1>1
<1>4. CASE m.t = "OPEN" /\ TookOpen("client", x, k, m, z, out, k2)
  <2>1. CASE z.chans = x.chans
    BY <1>2, <1>3, <1>4, <2>1, AbidesSame
  <2>2. CASE z.chans = With(x.chans, x.last + 1, Params(m.ch, m.from, Window))
    <3>1. PICK i, d : i = x.last + 1 /\ d = Params(m.ch, m.from, Window)
      OBVIOUS
    <3>2. ~d.pclose
      BY <3>1, FreshOpen
    <3>3. i \notin DOMAIN x.chans /\ ~ClosedTask(k2, i) /\ z.chans = With(x.chans, i, d)
      BY <1>2, <2>2, <3>1 DEF ClosedTask
    <3> QED  BY <1>2, <1>3, <1>4, <3>2, <3>3, AbidesAdd
  <2> QED  BY <1>4, <2>1, <2>2 DEF TookOpen, Shift
<1>5. CASE m.t = "CONFIRM" /\ TookConfirm(x, k, m, z, out, k2)
  <2>1. PICK i, c : i = m.to /\ c = x.chans[i]
    OBVIOUS
  <2>2. i \in DOMAIN x.chans
    BY <1>5, <2>1 DEF Verdicts, Pends
  <2>3. PICK d : Puts(x, z, i, d) /\ d.pend = c.pend /\ Ends(c, d)
    BY <1>5, <2>1, <2>2 DEF TookConfirm
  <2>4. z.chans = With(x.chans, i, d) /\ d.pclose = c.pclose /\ (Kept(c) => Kept(d))
    BY <2>3 DEF Puts, Ends, Kept
  <2> QED  BY <1>2, <1>3, <1>5, <2>1, <2>2, <2>4, AbidesPut
<1>6. CASE m.t = "FAILURE" /\ TookFailure("client", x, k, m, z, out, k2)
  <2>1. z.chans = Without(x.chans, m.to)
    BY <1>6 DEF TookFailure, Shift
  <2>2. x.chans[m.to].peer = 0
    BY <1>6 DEF Verdicts, Pends
  <2> QED  BY <1>1, <1>2, <1>3, <2>1, <2>2, AbidesDrop
<1>7. CASE m.t = "CLOSE" /\ TookClose("client", x, m, z, out)
  <2>1. PICK i, c : i = m.to /\ c = x.chans[i]
    OBVIOUS
  <2>2. CASE i \notin DOMAIN x.chans
    <3>1. z.chans = x.chans
      BY <1>7, <2>1, <2>2 DEF TookClose, Shift
    <3> QED  BY <1>1, <1>2, <1>3, <2>1, <2>2, <3>1, AbidesSame
  <2>3. CASE i \in DOMAIN x.chans /\ c.pend > 0
    <3>1. PICK d : z.chans = With(x.chans, i, d) /\ Flow(c, d) /\ d.pclose
      BY <1>7, <2>1, <2>3 DEF TookClose, Shift
    <3>2. Kept(d)
      BY <2>3, <3>1 DEF Kept, Flow
    <3> QED  BY <1>1, <1>2, <1>3, <2>1, <2>3, <3>1, <3>2, AbidesShuts
  <2>4. CASE i \in DOMAIN x.chans /\ ~(c.pend > 0)
    <3>1. z.chans = Without(x.chans, i) /\ out = <<On(x, i, "CLOSE")>>
      BY <1>7, <2>1, <2>4 DEF TookClose, Shift
    <3>2. ClosesTo(out, x.chans[i].peer)
      <4>1. 1 \in DOMAIN out /\ out[1].t = "CLOSE" /\ out[1].to = x.chans[i].peer
        BY <3>1 DEF On
      <4> QED  BY <4>1 DEF ClosesTo
    <3> QED  BY <1>1, <1>2, <1>3, <2>1, <3>1, <3>2, AbidesDrop
  <2> QED  BY <2>2, <2>3, <2>4
<1>8. CASE m.t = "DATA" /\ TookData(x, m, z, out)
  <2>1. PICK i, c : i = m.to /\ c = x.chans[i]
    OBVIOUS
  <2>2. CASE i \notin DOMAIN x.chans
    <3>1. z.chans = x.chans
      BY <1>8, <2>1, <2>2 DEF TookData
    <3> QED  BY <1>1, <1>2, <1>3, <1>8, <3>1, AbidesSame
  <2>3. CASE i \in DOMAIN x.chans
    <3>1. PICK d : Puts(x, z, i, d) /\ Ends(c, d) /\ d.pend = c.pend
      BY <1>8, <2>1, <2>3 DEF TookData
    <3>2. z.chans = With(x.chans, i, d) /\ d.pclose = c.pclose /\ (Kept(c) => Kept(d))
      BY <3>1 DEF Puts, Ends, Kept
    <3> QED  BY <1>1, <1>2, <1>3, <1>8, <2>1, <2>3, <3>2, AbidesPut
  <2> QED  BY <2>2, <2>3
<1>9. CASE m.t = "ADJUST" /\ TookGrant(x, m, z, out)
  <2>1. PICK i, c : i = m.to /\ c = x.chans[i]
    OBVIOUS
  <2>2. i \in DOMAIN x.chans
    BY <1>9, <2>1 DEF TookGrant, Stops
  <2>3. PICK win : win = c.win + m.n
    OBVIOUS
  <2>4. PICK n : n = IF c.pend < win THEN c.pend ELSE win
    OBVIOUS
  <2>5. n \in Nat /\ c.pend \in Nat
    <3>1. c.win \in Nat /\ c.pend \in Nat
      BY <2>1, <2>2, SessionFacts, TableFacts, ParamFacts
    <3>2. m.n \in Nat
      BY <1>9 DEF Message
    <3> QED  BY <2>3, <2>4, <3>1, <3>2
  <2>6. \/ \E d : /\ Puts(x, z, i, d) /\ Ends(c, d) /\ n < c.pend /\ d.pend = c.pend - n
        \/ \E d : Puts(x, z, i, d) /\ ~c.pclose /\ Ends(c, d)
        \/ /\ Drops(x, z, i) /\ out[Len(out)] = On(x, i, "CLOSE")
           /\ Flushed(out, x, i, n, c.peof, 1)
    BY <1>9, <2>1, <2>2, <2>3, <2>4, Zenon DEF TookGrant
  <2>7. ASSUME NEW d, Puts(x, z, i, d), Ends(c, d), n < c.pend, d.pend = c.pend - n
        PROVE  Abides(x, k, z, out, k2, C)
    <3>1. Kept(d)
      BY <2>5, <2>7 DEF Kept
    <3>2. z.chans = With(x.chans, i, d) /\ d.pclose = c.pclose
      BY <2>7 DEF Puts, Ends
    <3> QED  BY <1>2, <1>3, <1>9, <2>1, <2>2, <3>1, <3>2, AbidesPut
  <2>8. ASSUME NEW d, Puts(x, z, i, d), ~c.pclose, Ends(c, d)
        PROVE  Abides(x, k, z, out, k2, C)
    <3>1. z.chans = With(x.chans, i, d) /\ d.pclose = c.pclose
      BY <2>8 DEF Puts, Ends
    <3> QED  BY <1>2, <1>3, <1>9, <2>1, <2>2, <2>8, <3>1, AbidesPut
  <2>9. CASE /\ Drops(x, z, i) /\ out[Len(out)] = On(x, i, "CLOSE")
             /\ Flushed(out, x, i, n, c.peof, 1)
    <3>1. Len(out) \in DOMAIN out
      <4>1. PICK a \in {0, 1} : out \in Seq(Message) /\ Len(out) = n + a + 1
        BY <2>9 DEF Flushed
      <4> QED  BY <2>5, <4>1
    <3>2. ClosesTo(out, x.chans[i].peer)
      BY <2>9, <3>1 DEF ClosesTo, On
    <3>3. z.chans = Without(x.chans, i)
      BY <2>9 DEF Drops
    <3> QED  BY <1>2, <1>3, <1>9, <3>2, <3>3, AbidesDrop
  <2> QED  BY <1>1, <2>6, <2>7, <2>8, <2>9
<1>10. CASE m.t \in {"ANSWER", "EOF", "GLOBAL", "RESULT"}
  <2>1. z.chans = x.chans
    BY <1>10 DEF Took, TookAnswer, TookGlobal, Still, Shift, TookResult, Queues
  <2> QED  BY <1>1, <1>2, <1>3, <1>10, <2>1, AbidesSame
<1>11. m.t # "DISCONNECT" /\ m.t # "REQUEST"
  BY DEF Took, Stops
<1> QED  BY <1>1, <1>4, <1>5, <1>6, <1>7, <1>8, <1>9, <1>10, <1>11 DEF Took

\* What its tasks do.
LEMMA DidAbides ==
    ASSUME NEW x \in Session, NEW k \in Tasks, NEW n, NEW z, NEW out, NEW k2,
           Did("client", x, k, n, z, out, k2), x.end = "no",
           x.last + 1 \notin DOMAIN x.chans, x.last + 1 \notin DOMAIN k, z.end = "no"
    PROVE  Abides(x, k, z, out, k2, {})
<1>1. PICK C : C = {}
  OBVIOUS
<1>2. \A id : id \notin C
  BY <1>1
<1>3. CASE DidOpen("client", x, k, n, z, out, k2)
  <2>1. PICK i, d, e : i = x.last + 1 /\ d = Params(<<"client", n>>, 0, 0) /\ e = Task("wait")
    OBVIOUS
  <2>2. z.chans = With(x.chans, i, d) /\ k2 = With(k, i, e) /\ i \notin DOMAIN x.chans
    BY <1>3, <2>1 DEF DidOpen, Shift
  <2>3. ~d.pclose /\ e.st = "wait"
    BY <2>1, FreshOpen DEF Task
  <2>4. \A id : ClosedTask(k2, id) => ClosedTask(k, id) /\ id # i
    BY <2>2, <2>3, ClosedWith
  <2> QED  BY <1>1, <1>2, <2>2, <2>3, <2>4, AbidesAdd
<1>4. CASE DidGlobal("client", x, k, z, out, k2) \/ DidNoReply(x, k, z, out, k2)
  <2>1. z.chans = x.chans /\ k2 = k
    BY <1>4 DEF DidGlobal, DidNoReply, Queues
  <2> QED  BY <1>1, <1>2, <2>1, AbidesSame
<1>5. ASSUME NEW id \in DOMAIN k, DidData(x, k, id, z, out, k2)
      PROVE  Abides(x, k, z, out, k2, C)
  <2>1. k2 = k
    BY <1>5 DEF DidData
  <2>2. CASE id \notin DOMAIN x.chans
    <3>1. z.chans = x.chans
      BY <1>5, <2>2 DEF DidData
    <3> QED  BY <1>2, <2>1, <3>1, AbidesSame
  <2>3. CASE id \in DOMAIN x.chans
    <3>1. PICK c : c = x.chans[id]
      OBVIOUS
    <3>2. PICK d : Puts(x, z, id, d) /\ Ends(c, d) /\ d.pend \in Nat /\ d.pend >= c.pend
      BY <1>5, <2>3, <3>1, Zenon DEF DidData, Sends
    <3>3. c.pend \in Nat
      BY <2>3, <3>1, SessionFacts, TableFacts, ParamFacts
    <3>4. Kept(c) => Kept(d)
      BY <3>2, <3>3 DEF Kept
    <3>5. z.chans = With(x.chans, id, d) /\ d.pclose = c.pclose
      BY <3>2 DEF Puts, Ends
    <3> QED  BY <1>2, <2>1, <2>3, <3>1, <3>4, <3>5, AbidesPut
  <2> QED  BY <2>2, <2>3
<1>6. ASSUME NEW id \in DOMAIN k, DidEof("client", x, k, id, z, out, k2)
      PROVE  Abides(x, k, z, out, k2, C)
  <2>1. \A i : ClosedTask(k2, i) => ClosedTask(k, i)
    BY <1>6, ClosedWith DEF DidEof, Tells
  <2>2. CASE z.chans = x.chans
    BY <1>2, <2>1, <2>2, AbidesSame
  <2>3. CASE z.chans # x.chans
    <3>1. PICK c : c = x.chans[id]
      OBVIOUS
    <3>2. id \in DOMAIN x.chans
      BY <1>6, <2>3 DEF DidEof
    <3>3. PICK d : Puts(x, z, id, d) /\ Flow(c, d) /\ d.pclose = c.pclose
      BY <1>6, <2>3, <3>1 DEF DidEof
    <3>4. z.chans = With(x.chans, id, d) /\ (Kept(c) => Kept(d))
      BY <3>3 DEF Puts, Flow, Kept
    <3> QED  BY <1>2, <2>1, <3>1, <3>2, <3>3, <3>4, AbidesPut
  <2> QED  BY <2>2, <2>3
<1>7. ASSUME NEW id \in DOMAIN k, DidClose("client", x, k, id, z, out, k2)
      PROVE  Abides(x, k, z, out, k2, C)
  <2>1. \A i : i # id => (ClosedTask(k2, i) => ClosedTask(k, i))
    BY <1>7, ClosedWith DEF DidClose, Tells
  <2>2. PICK c : c = x.chans[id]
    OBVIOUS
  <2>3. CASE id \notin DOMAIN x.chans
    <3>1. z.chans = x.chans
      BY <1>7, <2>3 DEF DidClose, Still, Shift
    <3> QED  BY <1>2, <2>1, <2>3, <3>1, AbidesSame
  <2>4. CASE id \in DOMAIN x.chans /\ c.pend > 0
    <3>1. PICK d : Puts(x, z, id, d) /\ Flow(c, d) /\ d.pclose
      BY <1>7, <2>2, <2>4 DEF DidClose
    <3>2. z.chans = With(x.chans, id, d) /\ Kept(d)
      BY <2>4, <3>1 DEF Puts, Flow, Kept
    <3> QED  BY <1>2, <2>1, <2>4, <3>1, <3>2, AbidesShuts
  <2>5. CASE id \in DOMAIN x.chans /\ ~(c.pend > 0)
    <3>1. z.chans = Without(x.chans, id) /\ out = <<On(x, id, "CLOSE")>>
      BY <1>7, <2>2, <2>5 DEF DidClose, Drops
    <3>2. ClosesTo(out, x.chans[id].peer)
      <4>1. 1 \in DOMAIN out /\ out[1].t = "CLOSE" /\ out[1].to = x.chans[id].peer
        BY <3>1 DEF On
      <4> QED  BY <4>1 DEF ClosesTo
    <3> QED  BY <1>2, <2>1, <3>1, <3>2, AbidesDrop
  <2> QED  BY <2>3, <2>4, <2>5
<1>8. ASSUME NEW id \in DOMAIN k,
             \/ DidGiveUp(x, k, id, z, out, k2)
             \/ \E wants, agent \in BOOLEAN : DidRequest(x, k, id, wants, agent, z, out, k2)
      PROVE  Abides(x, k, z, out, k2, C)
  <2>1. \A i : ClosedTask(k2, i) => ClosedTask(k, i)
    <3>1. PICK e : k2 = With(k, id, e) /\ e.st # "closed"
      BY <1>8 DEF DidGiveUp, DidRequest, Tells
    <3> QED  BY <3>1, ClosedWith
  <2>2. z.chans = x.chans
    BY <1>8 DEF DidGiveUp, DidRequest
  <2> QED  BY <1>2, <2>1, <2>2, AbidesSame
<1> QED  BY <1>1, <1>3, <1>4, <1>5, <1>6, <1>7, <1>8 DEF Did, Stops

\* A CLOSE under way stays under way until it is read.
LEMMA TailCloses ==
    ASSUME NEW w \in Seq(Message), w # <<>>, NEW w2, w2 = Tail(w), NEW q, ClosesTo(w, q),
           ~(Head(w).t = "CLOSE" /\ Head(w).to = q)
    PROVE  ClosesTo(w2, q)
<1>1. Shorter(w, 1, w2) /\ Head(w) = w[1]
  BY ReadsShorter
<1> QED  BY <1>1 DEF Shorter, ClosesTo

LEMMA LongerCloses ==
    ASSUME NEW y, NEW v, NEW out, NEW v2, Longer(y, v, out, v2), y.end = "no", NEW q,
           ClosesTo(v, q) \/ ClosesTo(out, q)
    PROVE  ClosesTo(v2, q)
<1>1. /\ \A i \in DOMAIN v : i \in DOMAIN v2 /\ v2[i] = v[i]
      /\ \A j \in DOMAIN out : At(v, j) \in DOMAIN v2 /\ v2[At(v, j)] = out[j]
  BY DEF Longer
<1> QED  BY <1>1 DEF ClosesTo

\* What the client does for the CLOSE of either side.
LEMMA ClientComing ==
    ASSUME NEW x, NEW y, NEW k, NEW l, NEW v, NEW w,
           Both("client", "server", x, y, k, l, v, w), Sound(x), x.end = "no",
           CloseWaits(x, k), CloseComing(x, y, l, v, w),
           NEW z, NEW out, NEW k2, NEW v2, NEW w2, NEW C, Abides(x, k, z, out, k2, C),
           Longer(y, v, out, v2),
           \A i : ClosesTo(w, i) =>
                    \/ ClosesTo(w2, i)
                    \/ i \in C /\ (i \in DOMAIN x.chans => x.chans[i].peer # 0)
    PROVE  CloseWaits(z, k2) /\ CloseComing(z, y, l, v2, w2)
<1>1. CloseWaits(z, k2)
  BY DEF CloseWaits, Abides, Patient, ClosedTask
<1>2. ASSUME y.end = "no", NEW q \in DOMAIN y.chans, ClosedTask(l, q), NEW i, i = y.chans[q].peer
      PROVE  \/ ClosesTo(w2, i)
             \/ i \in DOMAIN z.chans /\ z.chans[i].pclose
             \/ ClosesTo(v2, q)
  <2>1. Handshake(y, x, l, w, v) /\ Paired("server", y, x, w, v)
    BY DEF Both, Hand
  <2>2. i # 0
    BY <1>2, <2>1 DEF Handshake, ClosedTask
  <2>3. ClosesTo(w, i) \/ (i \in DOMAIN x.chans /\ x.chans[i].pclose) \/ ClosesTo(v, q)
    BY <1>2 DEF CloseComing
  <2>4. CASE ClosesTo(v, q)
    BY <1>2, <2>4, LongerCloses
  <2>5. CASE ~ClosesTo(v, q) /\ ~ClosesTo(w2, i)
    <3>1. i \in DOMAIN x.chans /\ (x.chans[i].peer = q \/ x.chans[i].peer = 0)
      BY <1>2, <2>1, <2>2, <2>5 DEF Paired, ClosesTo
    <3>2. x.chans[i].pclose => x.chans[i].peer # 0
      BY <3>1 DEF CloseWaits, Sound, SoundChan, Kept
    <3>3. (x.chans[i].pclose \/ i \in C) /\ x.chans[i].peer # 0
      BY <2>3, <2>5, <3>1, <3>2
    <3>4. (i \in DOMAIN z.chans /\ z.chans[i].pclose) \/ ClosesTo(out, q)
      BY <3>1, <3>3 DEF Abides, EndsOn
    <3> QED  BY <1>2, <3>4, LongerCloses
  <2> QED  BY <2>4, <2>5
<1>3. CloseComing(z, y, l, v2, w2)
  BY <1>2 DEF CloseComing
<1> QED  BY <1>1, <1>3

\* A task of the server closes its channel with a CLOSE to the client.
LEMMA ServerTasks ==
    ASSUME NEW y \in Session, NEW l \in Tasks, NEW n, NEW z, NEW out, NEW l2,
           Did("server", y, l, n, z, out, l2), z.end = "no",
           NEW q \in DOMAIN z.chans, ClosedTask(l2, q), ~ClosedTask(l, q)
    PROVE  ClosesTo(out, y.chans[q].peer)
<1>1. \A st : Task(st).st = st
  BY DEF Task
<1>2. ~DidOpen("server", y, l, n, z, out, l2)
  BY <1>1, ClosedWith DEF DidOpen
<1>3. l2 # l
  OBVIOUS
<1>4. ASSUME NEW i \in DOMAIN l, NEW st, NEW eof, NEW asks, Tells(l, l2, i, st, eof, asks),
             st # "closed"
      PROVE  FALSE
  BY <1>4, ClosedWith DEF Tells
<1>5. PICK i \in DOMAIN l : DidClose("server", y, l, i, z, out, l2)
  BY <1>2, <1>3, <1>4 DEF Did, DidGlobal, DidNoReply, Stops, DidGiveUp, DidData, DidEof,
                             DidAnswer
<1>6. i = q
  BY <1>5, ClosedWith DEF DidClose, Tells
<1>7. "server" # "client"
  OBVIOUS
<1>8. out = <<On(y, q, "CLOSE")>>
  BY <1>5, <1>6, <1>7 DEF DidClose, Still, Shift
<1>9. 1 \in DOMAIN out /\ out[1].t = "CLOSE" /\ out[1].to = y.chans[q].peer
  BY <1>8 DEF On
<1> QED  BY <1>9 DEF ClosesTo

\* A channel of the server whose task is closed is an old one, and a CLOSE
\* that comes for it is not read unless the channel goes.
LEMMA ServerEarlier ==
    ASSUME NEW x, NEW y, NEW k, NEW l, NEW v, NEW w,
           Both("server", "client", y, x, l, k, w, v), y.end = "no",
           NEW n, NEW z, NEW out, NEW l2, NEW v2, Moves("server", y, l, n, v, z, out, l2, v2),
           z.end = "no", NEW q \in DOMAIN z.chans, ClosedTask(l2, q)
    PROVE  /\ q \in DOMAIN y.chans /\ z.chans[q].peer = y.chans[q].peer
           /\ ClosesTo(v, q) => ClosesTo(v2, q)
<1>1. v \in Seq(Message) /\ Handshake(y, x, l, w, v)
  BY DEF Both, Hand
<1>2. \A st : Task(st).st = st
  BY DEF Task
<1>3. CASE Quiet("server", y, l, v, z, out, l2, v2)
  <2>1. q \in DOMAIN y.chans /\ z.chans[q].peer = y.chans[q].peer
    BY <1>3 DEF Quiet, KeptChans
  <2>2. CASE v2 = v
    BY <2>1, <2>2
  <2>3. CASE /\ v # <<>> /\ v2 = Tail(v)
             /\ Head(v).t = "CLOSE" => Head(v).to \notin DOMAIN y.chans
    BY <1>1, <2>1, <2>3, TailCloses
  <2> QED  BY <1>3, <2>2, <2>3 DEF Quiet
<1>4. CASE Shut("server", y, l, v, z, out, l2, v2)
  <2>1. v # <<>> /\ v2 = Tail(v) /\ z.chans = Without(y.chans, Head(v).to)
    BY <1>4 DEF Shut, Shift
  <2>2. q \in DOMAIN y.chans /\ q # Head(v).to /\ z.chans[q] = y.chans[q]
    BY <2>1 DEF Without
  <2> QED  BY <1>1, <2>1, <2>2, TailCloses
<1>5. CASE DidOpen("server", y, l, n, z, out, l2) /\ v2 = v
  <2>1. PICK i, d : z.chans = With(y.chans, i, d) /\ l2 = With(l, i, Task("wait"))
    BY <1>5 DEF DidOpen, Shift
  <2>2. q # i
    BY <1>2, <2>1, ClosedWith
  <2> QED  BY <1>5, <2>1, <2>2 DEF With
<1>6. CASE Accepts("server", y, l, v, z, out, l2, v2)
  <2>1. PICK i, d : z.chans = With(y.chans, i, d) /\ l2 = With(l, i, Task("held"))
    BY <1>6 DEF Accepts, Shift
  <2>2. q # i
    BY <1>2, <2>1, ClosedWith
  <2>3. q \in DOMAIN y.chans /\ z.chans[q] = y.chans[q]
    BY <2>1, <2>2 DEF With
  <2>4. v # <<>> /\ v2 = Tail(v) /\ Head(v).t # "CLOSE"
    BY <1>6 DEF Accepts
  <2> QED  BY <1>1, <2>3, <2>4, TailCloses
<1>7. CASE Declines("server", y, l, v, z, out, l2, v2)
  <2>1. v # <<>> /\ v2 = Tail(v) /\ Head(v).t # "CLOSE" /\ z.chans = y.chans
    BY <1>7 DEF Declines, Shift
  <2> QED  BY <1>1, <2>1, TailCloses
<1>8. CASE Confirmed("server", y, l, v, z, out, l2, v2)
  <2>1. PICK i, d : i = Head(v).to /\ z.chans = With(y.chans, i, d) /\ i \in DOMAIN y.chans
    BY <1>8 DEF Confirmed, Puts
  <2>2. v # <<>> /\ v2 = Tail(v) /\ Head(v).t = "CONFIRM"
    BY <1>8 DEF Confirmed
  <2>3. 1 \in DOMAIN v /\ Head(v) = v[1]
    BY <1>1, <2>2, TailFacts
  <2>4. i \in DOMAIN l /\ l[i].st \in {"wait", "quit"}
    BY <1>1, <2>1, <2>2, <2>3 DEF Handshake, Verdicts, Pends
  <2>5. l2 = With(l, i, Task("held")) \/ l2 = l
    BY <1>8, <2>1 DEF Confirmed
  <2>6. q # i
    BY <1>2, <2>4, <2>5, ClosedWith DEF ClosedTask
  <2>7. q \in DOMAIN y.chans /\ z.chans[q] = y.chans[q]
    BY <2>1, <2>6 DEF With
  <2> QED  BY <1>1, <2>2, <2>7, TailCloses
<1>9. CASE Refused("server", y, l, v, z, out, l2, v2)
  <2>1. v # <<>> /\ v2 = Tail(v) /\ Head(v).t # "CLOSE" /\ z.chans = Without(y.chans, Head(v).to)
    BY <1>9 DEF Refused, Shift
  <2>2. q \in DOMAIN y.chans /\ z.chans[q] = y.chans[q]
    BY <2>1 DEF Without
  <2> QED  BY <1>1, <2>1, <2>2, TailCloses
<1>10. ~Forgets("server", y, l, v, z, out, l2, v2) /\ ~Leaves("server", y, l, v, z, out, l2, v2)
  <2>1. "server" # "client"
    OBVIOUS
  <2> QED  BY <2>1 DEF Forgets, Leaves, Stops
<1> QED  BY <1>3, <1>4, <1>5, <1>6, <1>7, <1>8, <1>9, <1>10 DEF Moves

\* A step of the client.
LEMMA ClientCloses ==
    ASSUME Typed, HandInv, FlowInv, CloseInv, NEW z, NEW out, NEW k2, NEW w2,
           Steps("client", z, out, k2, w2)
    PROVE  CloseInv'
<1> DEFINE x == ses["client"]
           y == ses["server"]
           k == task["client"]
           l == task["server"]
           v == wire["client"]
           w == wire["server"]
           n == left.opens["client"]
<1>1. "client" \in Sides /\ Peer("client") = "server"
  BY DEF Sides, Peer
<1>2. Both("client", "server", x, y, k, l, v, w)
  BY <1>1, BothSides
<1>3. PICK v2 : v2 = wire'["client"]
  OBVIOUS
<1>4. /\ ses'["client"] = z /\ ses'["server"] = y /\ task'["client"] = k2 /\ task'["server"] = l
      /\ wire'["server"] = w2 /\ Longer(y, v, out, v2)
  BY <1>1, <1>3, StepsAfter
<1>5. /\ x.end = "no" /\ Proper("client", x, z, out, k2)
      /\ \/ /\ w # <<>> /\ Took("client", x, k, Head(w), z, out, k2)
            /\ w2 = IF z.end = "no" THEN Tail(w) ELSE <<>>
         \/ /\ Did("client", x, k, n, z, out, k2)
            /\ w2 = IF z.end = "no" THEN w ELSE <<>>
  BY <1>1 DEF Steps
<1>6. CloseWaits(x, k) /\ CloseComing(x, y, l, v, w)
  BY DEF CloseInv
<1>7. Sound(x)
  BY <1>1 DEF FlowInv, FlowParts
<1> HIDE DEF x, y, k, l, v, w, n
<1>8. /\ x \in Session /\ k \in Tasks /\ w \in Seq(Message)
      /\ Numbered(x, y, k, v) /\ Handshake(x, y, k, v, w) /\ ConfirmFirst(x, w)
  BY <1>2 DEF Both, Hand
<1>9. Facts("client", "server", x, y, v, w)
  BY <1>2, BothFacts
<1>10. x.last + 1 \notin DOMAIN x.chans /\ x.last + 1 \notin DOMAIN k
  BY <1>8, <1>9 DEF Numbered, Facts
<1>11. CloseWaits(z, k2) /\ CloseComing(z, y, l, v2, w2)
  <2>1. CASE z.end # "no"
    <3>1. DOMAIN z.chans = {}
      BY <1>5, <2>1, TablesEmpty DEF Proper
    <3> QED  BY <2>1, <3>1 DEF CloseWaits, CloseComing
  <2>2. CASE z.end = "no" /\ w # <<>> /\ Took("client", x, k, Head(w), z, out, k2) /\ w2 = Tail(w)
    <3>1. PICK m : m = Head(w)
      OBVIOUS
    <3>2. 1 \in DOMAIN w /\ m = w[1] /\ m \in Message
      BY <1>8, <2>2, <3>1, TailFacts
    <3>3. m.t \in Verdicts => Pends(x, k, m.to)
      BY <1>8, <3>2 DEF Handshake
    <3>4. PICK C : C = IF m.t = "CLOSE" THEN {m.to} ELSE {}
      OBVIOUS
    <3>5. Abides(x, k, z, out, k2, C)
      <4>1. Took("client", x, k, m, z, out, k2)
        BY <2>2, <3>1
      <4> QED  BY <1>5, <1>8, <1>10, <2>2, <3>2, <3>3, <3>4, <4>1, TookAbides
    <3>6. m.t = "CLOSE" /\ m.to \in DOMAIN x.chans => x.chans[m.to].peer # 0
      BY <1>8, <2>2, <3>1, HeadConfirmed DEF Plain
    <3>7. ASSUME NEW i, ClosesTo(w, i), ~ClosesTo(w2, i)
          PROVE  i \in C /\ (i \in DOMAIN x.chans => x.chans[i].peer # 0)
      <4>1. m.t = "CLOSE" /\ m.to = i
        BY <1>8, <2>2, <3>1, <3>7, TailCloses
      <4> QED  BY <3>4, <3>6, <4>1
    <3> QED  BY <1>2, <1>4, <1>5, <1>6, <1>7, <3>5, <3>7, ClientComing
  <2>3. CASE z.end = "no" /\ Did("client", x, k, n, z, out, k2) /\ w2 = w
    <3>1. PICK C : C = {}
      OBVIOUS
    <3>2. Abides(x, k, z, out, k2, C)
      BY <1>5, <1>8, <1>10, <2>3, <3>1, DidAbides
    <3> QED  BY <1>2, <1>4, <1>5, <1>6, <1>7, <2>3, <3>2, ClientComing
  <2> QED  BY <1>5, <2>1, <2>2, <2>3
<1> QED  BY <1>3, <1>4, <1>11 DEF CloseInv

\* A step of the server.
LEMMA ServerCloses ==
    ASSUME Typed, HandInv, CloseInv, NEW z, NEW out, NEW l2, NEW v2,
           Steps("server", z, out, l2, v2)
    PROVE  CloseInv'
<1> DEFINE x == ses["client"]
           y == ses["server"]
           k == task["client"]
           l == task["server"]
           v == wire["client"]
           w == wire["server"]
           n == left.opens["server"]
<1>1. "server" \in Sides /\ Peer("server") = "client"
  BY DEF Sides, Peer
<1>2. Both("server", "client", y, x, l, k, w, v)
  BY <1>1, BothSides
<1>3. PICK w2 : w2 = wire'["server"]
  OBVIOUS
<1>4. /\ ses'["client"] = x /\ ses'["server"] = z /\ task'["client"] = k /\ task'["server"] = l2
      /\ wire'["client"] = v2 /\ Longer(x, w, out, w2)
  BY <1>1, <1>3, StepsAfter
<1>5. /\ y.end = "no" /\ Moves("server", y, l, n, v, z, out, l2, v2)
      /\ \/ v # <<>> /\ Took("server", y, l, Head(v), z, out, l2)
         \/ Did("server", y, l, n, z, out, l2)
  BY <1>1 DEF Steps
<1>6. CloseWaits(x, k) /\ CloseComing(x, y, l, v, w)
  BY DEF CloseInv
<1> HIDE DEF x, y, k, l, v, w, n
<1>7. y \in Session /\ l \in Tasks
  BY <1>2 DEF Both
<1>8. ASSUME x.end = "no", z.end = "no", NEW q \in DOMAIN z.chans, ClosedTask(l2, q),
             NEW i, i = z.chans[q].peer
      PROVE  \/ ClosesTo(w2, i)
             \/ i \in DOMAIN x.chans /\ x.chans[i].pclose
             \/ ClosesTo(v2, q)
  <2>1. /\ q \in DOMAIN y.chans /\ i = y.chans[q].peer
        /\ ClosesTo(v, q) => ClosesTo(v2, q)
    BY <1>2, <1>5, <1>8, ServerEarlier
  <2>2. CASE ClosedTask(l, q)
    <3>1. ClosesTo(w, i) \/ (i \in DOMAIN x.chans /\ x.chans[i].pclose) \/ ClosesTo(v, q)
      BY <1>5, <1>6, <1>8, <2>1, <2>2 DEF CloseComing
    <3>2. ClosesTo(w, i) => ClosesTo(w2, i)
      BY <1>4, <1>8, LongerCloses
    <3> QED  BY <2>1, <3>1, <3>2
  <2>3. CASE ~ClosedTask(l, q)
    <3>1. ~Took("server", y, l, Head(v), z, out, l2)
      BY <1>1, <1>7, <1>8, <2>3, TookTasks
    <3>2. ClosesTo(out, i)
      BY <1>5, <1>7, <1>8, <2>1, <2>3, <3>1, ServerTasks
    <3> QED  BY <1>4, <1>8, <3>2, LongerCloses
  <2> QED  BY <2>2, <2>3
<1>9. CloseComing(x, z, l2, v2, w2)
  BY <1>8 DEF CloseComing
<1> QED  BY <1>3, <1>4, <1>6, <1>9 DEF CloseInv

LEMMA CloseHolds == Spec => []CloseInv
<1>1. Init => CloseInv
  <2> SUFFICES ASSUME Init PROVE CloseInv
    OBVIOUS
  <2>1. "server" \in Sides /\ "client" \in Sides
    BY DEF Sides
  <2>2. ses["client"].chans = <<>> /\ ses["server"].chans = <<>>
    BY <2>1 DEF Init
  <2>3. DOMAIN ses["client"].chans = {} /\ DOMAIN ses["server"].chans = {}
    BY <2>2, TablesEmpty
  <2> QED  BY <2>3 DEF CloseInv, CloseWaits, CloseComing
<1>2. Typed /\ HandInv /\ FlowInv /\ CloseInv /\ [Next]_vars => CloseInv'
  <2> SUFFICES ASSUME Typed, HandInv, FlowInv, CloseInv, [Next]_vars PROVE CloseInv'
    OBVIOUS
  <2>1. CASE UNCHANGED vars
    BY <2>1 DEF vars, CloseInv
  <2>2. ASSUME NEW s \in Sides, NEW z, NEW out, NEW k2, NEW w2, Steps(s, z, out, k2, w2)
        PROVE  CloseInv'
    <3>1. s = "client" \/ s = "server"
      BY DEF Sides
    <3> QED  BY <2>2, <3>1, ClientCloses, ServerCloses
  <2>3. ASSUME NEW s \in Sides, NEW id, NEW k2, Losing(s, id, k2) PROVE CloseInv'
    <3>1. /\ task'[s] = k2 /\ task'[Peer(s)] = task[Peer(s)] /\ ses' = ses /\ wire' = wire
      BY <2>3, LosingAfter
    <3>2. ses[s].end # "no" /\ ses[s].chans = <<>>
      BY <2>3 DEF Losing, Alive, Typed
    <3>3. DOMAIN ses[s].chans = {}
      BY <3>2, TablesEmpty
    <3>4. CASE s = "client"
      BY <3>1, <3>2, <3>3, <3>4 DEF CloseInv, CloseWaits, CloseComing, Peer
    <3>5. CASE s = "server"
      BY <3>1, <3>2, <3>3, <3>5 DEF CloseInv, CloseWaits, CloseComing, Peer
    <3> QED  BY <3>4, <3>5 DEF Sides
  <2> QED  BY <2>1, <2>2, <2>3, NextMoves
<1> QED  BY <1>1, <1>2, FlowHolds, HandshakeHolds, PTL DEF Spec

\* Nothing is stuck for want of window, whatever the window, the channels and
\* the order of what is sent: when nothing is under way, flush_pending has
\* sent all the data that was kept back, and a channel that its task has
\* closed is forgotten by both sides.
THEOREM NothingStuck == Spec => []CloseCompletes
<1>1. ASSUME Typed, HandInv, FlowInv, CloseInv, Settled PROVE CloseCompletes
  <2>1. ASSUME NEW s \in Sides, NEW id \in DOMAIN ses[s].chans PROVE ses[s].chans[id].pend = 0
    <3> DEFINE p == Peer(s)
               x == ses[s]
               y == ses[p]
               v == wire[s]
               w == wire[p]
    <3>1. p \in Sides /\ Peer(p) = s
      BY PeerFacts
    <3>2. /\ v = <<>> /\ w = <<>> /\ x.end = "no" /\ y.end = "no"
      BY <1>1, <3>1 DEF Settled, Alive
    <3>3. Both(s, p, x, y, task[s], task[p], v, w)
      BY <1>1, BothSides
    <3>4. FlowParts(x, y, v, w) /\ FlowParts(y, x, w, v)
      BY <1>1, <3>1 DEF FlowInv
    <3> HIDE DEF p, y, v, w
    <3>5. DOMAIN v = {} /\ DOMAIN w = {}
      BY <3>2, NoMessage
    <3>6. PICK c, q : c = x.chans[id] /\ q = c.peer
      OBVIOUS
    <3>7. /\ x \in Session /\ y \in Session /\ Handshake(x, y, task[s], v, w)
          /\ Paired(s, x, y, v, w)
      BY <3>3 DEF Both, Hand
    <3>8. SoundChan(c) /\ c.win \in Nat /\ c.pend \in Nat
      BY <2>1, <3>4, <3>6, <3>7, SessionFacts, TableFacts, ParamFacts DEF FlowParts, Sound
    <3>9. q # 0
      BY <2>1, <3>2, <3>5, <3>6, <3>7 DEF Handshake, Opening, Answering
    <3>10. q \in DOMAIN y.chans
      BY <2>1, <3>2, <3>5, <3>6, <3>7, <3>9 DEF Paired
    <3>11. Level(x, y, v, w, id, q)
      BY <2>1, <3>4, <3>6, <3>9 DEF FlowParts, Balance, Links
    <3>12. Room(x.chans[id]) = c.win
      BY <3>6, <3>9 DEF Room
    <3>13. PICK a, d : /\ Totals(w, "ADJUST", id, a) /\ Totals(v, "DATA", q, d)
                       /\ Exact(c.win, d, a, y.chans[q].own)
      BY <3>10, <3>11, <3>12 DEF Level
    <3>14. a = 0 /\ d = 0
      BY <3>2, <3>13, TotalsEmpty
    <3>15. y.chans[q].own \in 1 .. Window
      BY <3>4, <3>10 DEF FlowParts, Sound, SoundChan
    <3>16. c.win # 0
      BY <3>8, <3>13, <3>14, <3>15, WindowAssumption DEF Exact
    <3>17. c.pend = 0
      BY <3>8, <3>16 DEF SoundChan
    <3> QED  BY <3>6, <3>17
  <2>2. "client" \in Sides /\ "server" \in Sides
    BY DEF Sides
  <2>3. /\ ses["client"].end = "no" /\ ses["server"].end = "no"
        /\ DOMAIN wire["client"] = {} /\ DOMAIN wire["server"] = {}
    BY <1>1, <2>2, NoMessage DEF Settled, Alive
  <2>4. \A id \in DOMAIN ses["client"].chans : ~Kept(ses["client"].chans[id])
    <3>1. ASSUME NEW id \in DOMAIN ses["client"].chans PROVE ~Kept(ses["client"].chans[id])
      <4>1. ses["client"].chans[id].pend = 0
        BY <2>1, <2>2
      <4> QED  BY <4>1 DEF Kept
    <3> QED  BY <3>1
  <2>5. \A id \in DOMAIN ses["client"].chans :
            ~ses["client"].chans[id].pclose /\ ~ClosedTask(task["client"], id)
    BY <1>1, <2>4 DEF CloseInv, CloseWaits, ClosedTask
  <2>6. \A id \in DOMAIN ses["server"].chans : ~ClosedTask(task["server"], id)
    BY <1>1, <2>3, <2>5 DEF CloseInv, CloseComing, ClosesTo
  <2>7. \A s \in Sides : \A id \in DOMAIN ses[s].chans : ~ClosedTask(task[s], id)
    BY <2>5, <2>6 DEF Sides
  <2> QED  BY <2>1, <2>7 DEF CloseCompletes, ClosedTask
<1>2. ASSUME Typed, HandInv, FlowInv, CloseInv PROVE CloseCompletes
  BY <1>1, <1>2 DEF CloseCompletes
<1> QED  BY <1>2, FlowHolds, HandshakeHolds, CloseHolds, PTL
=============================================================================
