--------------------------- MODULE ChannelsSteps ----------------------------
(***************************************************************************)
(* What the steps of Channels do, in terms that the proofs can use.        *)
(*                                                                         *)
(* Every handler returns a record that is built by updates of records      *)
(* inside tables inside records.  The lemmas below say of each of them     *)
(* which fields it changes and what it writes: Took for a message that is  *)
(* read, Did for what a side does of its own accord.  The last lemmas join *)
(* them: a step of Next is a step of one side that Took or Did something,  *)
(* or the news of an end that reaches a task (NextSteps), and it keeps the *)
(* types of messages, tables and tasks (TookProper, DidProper).            *)
(***************************************************************************)
EXTENDS Channels, SequenceTheorems, TLAPS

-----------------------------------------------------------------------------
\* Types.

Names == Sides \X Nat

Param == [ch : Names, peer : Nat, confirmed : BOOLEAN, win : Nat, own : Nat,
          pend : Nat, peof : BOOLEAN, pclose : BOOLEAN, wants : BOOLEAN,
          asked : Nat]
Tables == UNION {[D -> Param] : D \in SUBSET Nat}

Reasons == {"no", "eof", "left", "disconnected", "WrongChannel", "SendError",
            "Inconsistent"}
Session == [last : Nat, chans : Tables, refs : SUBSET Nat, globals : Seq(Nat),
            asked : Nat, wants : BOOLEAN, end : Reasons]

States == {"wait", "quit", "held", "refused", "closed", "lost"}
OneTask == [st : States, eof : BOOLEAN, asks : Nat, answers : Seq(Nat)]
Tasks == UNION {[D -> OneTask] : D \in SUBSET Nat}

\* What is left to the tasks.
Lefts == [opens : [Sides -> Nat], ops : Nat, strays : [Sides -> Nat]]

Message ==
    [t : {"OPEN"}, from : Nat, ch : Names]
    \cup [t : {"CONFIRM"}, to : Nat, ch : Names, from : Nat]
    \cup [t : {"FAILURE", "DATA", "EOF", "CLOSE"}, to : Nat, ch : Names]
    \cup [t : {"ADJUST", "ANSWER"}, to : Nat, ch : Names, n : Nat]
    \cup [t : {"REQUEST"}, to : Nat, ch : Names, wants : BOOLEAN, agent : BOOLEAN, n : Nat]
    \cup [t : {"GLOBAL"}, n : Nat, kind : {"forward", "keepalive"}, wants : BOOLEAN]
    \cup [t : {"RESULT"}, n : Nat]
    \cup [t : {"DISCONNECT"}]

-----------------------------------------------------------------------------
\* Tables of channels and of tasks.

LEMMA WithFacts ==
    ASSUME NEW f, NEW id, NEW v
    PROVE  /\ DOMAIN With(f, id, v) = DOMAIN f \cup {id}
           /\ With(f, id, v)[id] = v
           /\ \A i \in DOMAIN f : i # id => With(f, id, v)[i] = f[i]
BY DEF With

LEMMA WithoutFacts ==
    ASSUME NEW f, NEW id
    PROVE  /\ DOMAIN Without(f, id) = DOMAIN f \ {id}
           /\ \A i \in DOMAIN f : i # id => Without(f, id)[i] = f[i]
BY DEF Without

LEMMA TableFacts ==
    ASSUME NEW f \in Tables
    PROVE  /\ DOMAIN f \subseteq Nat
           /\ \A i \in DOMAIN f : f[i] \in Param
           /\ f = [i \in DOMAIN f |-> f[i]]
BY DEF Tables

LEMMA TablesWith ==
    ASSUME NEW f \in Tables, NEW id \in Nat, NEW c \in Param
    PROVE  With(f, id, c) \in Tables
<1>1. With(f, id, c) \in [DOMAIN f \cup {id} -> Param]
  BY TableFacts DEF With
<1>2. DOMAIN f \cup {id} \in SUBSET Nat
  BY TableFacts
<1> QED  BY <1>1, <1>2 DEF Tables

LEMMA TablesWithout ==
    ASSUME NEW f \in Tables, NEW id
    PROVE  Without(f, id) \in Tables
<1>1. Without(f, id) \in [DOMAIN f \ {id} -> Param]
  BY TableFacts DEF Without
<1>2. DOMAIN f \ {id} \in SUBSET Nat
  BY TableFacts
<1> QED  BY <1>1, <1>2 DEF Tables

LEMMA TablesEmpty == <<>> \in Tables /\ DOMAIN <<>> = {}
<1>1. <<>> \in [{} -> Param] /\ DOMAIN <<>> = {}
  OBVIOUS
<1> QED  BY <1>1 DEF Tables

LEMMA ExceptIsWith ==
    ASSUME NEW f \in Tables, NEW id \in DOMAIN f, NEW c
    PROVE  [f EXCEPT ![id] = c] = With(f, id, c)
<1>1. DOMAIN f \cup {id} = DOMAIN f /\ f = [i \in DOMAIN f |-> f[i]]
  BY TableFacts
<1> QED  BY <1>1 DEF With

-----------------------------------------------------------------------------
\* Channels: what an update of some fields leaves of the others.

LEMMA ParamFacts ==
    ASSUME NEW c \in Param
    PROVE  /\ c.ch \in Names /\ c.peer \in Nat /\ c.win \in Nat /\ c.own \in Nat
           /\ c.pend \in Nat /\ c.asked \in Nat
BY DEF Param

\* c and d are the same channel.
Twin(c, d) ==
    d \in Param /\ d.ch = c.ch /\ d.peer = c.peer /\ d.confirmed = c.confirmed
Flow(c, d) == d.win = c.win /\ d.own = c.own /\ d.pend = c.pend
Ends(c, d) == d.peof = c.peof /\ d.pclose = c.pclose
Asks(c, d) == d.wants = c.wants /\ d.asked = c.asked

LEMMA SetPeof ==
    ASSUME NEW c \in Param, NEW v \in BOOLEAN
    PROVE  LET d == [c EXCEPT !.peof = v]
           IN  /\ Twin(c, d) /\ Flow(c, d) /\ Asks(c, d)
               /\ d.peof = v /\ d.pclose = c.pclose
BY Zenon DEF Param, Twin, Flow, Asks

LEMMA SetPclose ==
    ASSUME NEW c \in Param, NEW v \in BOOLEAN
    PROVE  LET d == [c EXCEPT !.pclose = v]
           IN  /\ Twin(c, d) /\ Flow(c, d) /\ Asks(c, d)
               /\ d.peof = c.peof /\ d.pclose = v
BY Zenon DEF Param, Twin, Flow, Asks

LEMMA SetPend ==
    ASSUME NEW c \in Param, NEW v \in Nat
    PROVE  LET d == [c EXCEPT !.pend = v]
           IN  /\ Twin(c, d) /\ Ends(c, d) /\ Asks(c, d)
               /\ d.win = c.win /\ d.own = c.own /\ d.pend = v
BY Zenon DEF Param, Twin, Ends, Asks

LEMMA SetWin ==
    ASSUME NEW c \in Param, NEW v \in Nat
    PROVE  LET d == [c EXCEPT !.win = v]
           IN  /\ Twin(c, d) /\ Ends(c, d) /\ Asks(c, d)
               /\ d.win = v /\ d.own = c.own /\ d.pend = c.pend
BY Zenon DEF Param, Twin, Ends, Asks

LEMMA SetOwn ==
    ASSUME NEW c \in Param, NEW v \in Nat
    PROVE  LET d == [c EXCEPT !.own = v]
           IN  /\ Twin(c, d) /\ Ends(c, d) /\ Asks(c, d)
               /\ d.win = c.win /\ d.own = v /\ d.pend = c.pend
BY Zenon DEF Param, Twin, Ends, Asks

LEMMA SetWants ==
    ASSUME NEW c \in Param, NEW v \in BOOLEAN
    PROVE  LET d == [c EXCEPT !.wants = v]
           IN  /\ Twin(c, d) /\ Ends(c, d) /\ Flow(c, d)
               /\ d.wants = v /\ d.asked = c.asked
BY Zenon DEF Param, Twin, Ends, Flow

LEMMA SetAsked ==
    ASSUME NEW c \in Param, NEW v \in Nat
    PROVE  LET d == [c EXCEPT !.asked = v]
           IN  /\ Twin(c, d) /\ Ends(c, d) /\ Flow(c, d)
               /\ d.wants = c.wants /\ d.asked = v
BY Zenon DEF Param, Twin, Ends, Flow

LEMMA SetPeer ==
    ASSUME NEW c \in Param, NEW p \in Nat, NEW w \in Nat
    PROVE  LET d == [c EXCEPT !.peer = p, !.confirmed = TRUE, !.win = w]
           IN  /\ d \in Param /\ d.ch = c.ch /\ d.peer = p /\ d.confirmed /\ d.win = w
               /\ d.own = c.own /\ d.pend = c.pend /\ Ends(c, d) /\ Asks(c, d)
BY Zenon DEF Param, Ends, Asks

-----------------------------------------------------------------------------
\* Sessions.

LEMMA SessionFacts ==
    ASSUME NEW x \in Session
    PROVE  /\ x.last \in Nat /\ x.chans \in Tables /\ x.refs \subseteq Nat
           /\ x.globals \in Seq(Nat) /\ x.asked \in Nat
BY DEF Session

\* Only the table of channels is another one.
Same(x, y) ==
    /\ y \in Session /\ y.last = x.last /\ y.refs = x.refs
    /\ y.globals = x.globals /\ y.asked = x.asked /\ y.end = x.end

LEMMA SetChans ==
    ASSUME NEW x \in Session, NEW f \in Tables
    PROVE  Same(x, [x EXCEPT !.chans = f]) /\ [x EXCEPT !.chans = f].chans = f
BY Zenon DEF Session, Same

\* Channel id of session x has become d.
Puts(x, y, id, d) == Same(x, y) /\ y.chans = With(x.chans, id, d)

LEMMA SetChan ==
    ASSUME NEW x \in Session, NEW id \in DOMAIN x.chans, NEW d \in Param
    PROVE  Puts(x, [x EXCEPT !.chans[id] = d], id, d)
<1>1. x.chans \in Tables /\ id \in Nat
  BY SessionFacts, TableFacts
<1>2. [x.chans EXCEPT ![id] = d] = With(x.chans, id, d) /\ With(x.chans, id, d) \in Tables
  BY <1>1, ExceptIsWith, TablesWith
<1>3. [x EXCEPT !.chans[id] = d] = [x EXCEPT !.chans = [x.chans EXCEPT ![id] = d]]
  BY Zenon
<1>4. [x EXCEPT !.chans[id] = d] = [x EXCEPT !.chans = With(x.chans, id, d)]
  BY <1>2, <1>3, Zenon
<1> QED  BY <1>2, <1>4, SetChans, Zenon DEF Puts

LEMMA PutsTwice ==
    ASSUME NEW x, NEW y, NEW z, NEW id, NEW d, NEW e, Puts(x, y, id, d), Puts(y, z, id, e)
    PROVE  Puts(x, z, id, e)
<1>1. With(With(x.chans, id, d), id, e) = With(x.chans, id, e)
  BY DEF With
<1> QED  BY <1>1 DEF Puts, Same

LEMMA PutsFacts ==
    ASSUME NEW x \in Session, NEW y, NEW id \in DOMAIN x.chans, NEW d, Puts(x, y, id, d)
    PROVE  /\ DOMAIN y.chans = DOMAIN x.chans
           /\ y.chans[id] = d
           /\ \A i \in DOMAIN x.chans : i # id => y.chans[i] = x.chans[i]
BY DEF Puts, With

\* Channel id is forgotten.
Drops(x, y, id) == Same(x, y) /\ y.chans = Without(x.chans, id)

LEMMA DropChan ==
    ASSUME NEW x \in Session, NEW id
    PROVE  Drops(x, [x EXCEPT !.chans = Without(@, id)], id)
<1>1. Without(x.chans, id) \in Tables
  BY SessionFacts, TablesWithout
<1> QED  BY <1>1, SetChans DEF Drops

LEMMA PutThenDrop ==
    ASSUME NEW x, NEW y, NEW z, NEW id, NEW d, Puts(x, y, id, d), Drops(y, z, id)
    PROVE  Drops(x, z, id)
<1>1. Without(With(x.chans, id, d), id) = Without(x.chans, id)
  BY DEF With, Without
<1> QED  BY <1>1 DEF Puts, Drops, Same

-----------------------------------------------------------------------------
\* The operations of Encrypted.

LEMMA DoesFacts == \A y, out : Does(y, out).ses = y /\ Does(y, out).out = out
BY DEF Does

LEMMA PutDoes ==
    ASSUME NEW x \in Session, NEW id \in DOMAIN x.chans, NEW d \in Param, NEW out, NEW r,
           r = Does([x EXCEPT !.chans[id] = d], out)
    PROVE  Puts(x, r.ses, id, d) /\ r.out = out
<1>1. Puts(x, [x EXCEPT !.chans[id] = d], id, d)
  BY SetChan
<1>2. PICK y : y = [x EXCEPT !.chans[id] = d]
  OBVIOUS
<1>3. Puts(x, y, id, d) /\ r = Does(y, out)
  BY <1>1, <1>2, Zenon
<1> QED  BY <1>3, DoesFacts

LEMMA DropDoes ==
    ASSUME NEW x \in Session, NEW id, NEW out, NEW r,
           r = Does([x EXCEPT !.chans = Without(@, id)], out)
    PROVE  Drops(x, r.ses, id) /\ r.out = out
<1>1. Drops(x, [x EXCEPT !.chans = Without(@, id)], id)
  BY DropChan
<1>2. PICK y : y = [x EXCEPT !.chans = Without(@, id)]
  OBVIOUS
<1>3. Drops(x, y, id) /\ r = Does(y, out)
  BY <1>1, <1>2, Zenon
<1> QED  BY <1>3, DoesFacts

LEMMA OnMessage ==
    ASSUME NEW x \in Session, NEW id \in DOMAIN x.chans, NEW n \in Nat
    PROVE  /\ \A t \in {"DATA", "EOF", "CLOSE"} : On(x, id, t) \in Message
           /\ \A t \in {"ADJUST", "ANSWER"} : OnWith(x, id, t, n) \in Message
           /\ \A t : /\ On(x, id, t).t = t
                     /\ On(x, id, t).to = x.chans[id].peer /\ On(x, id, t).ch = x.chans[id].ch
                     /\ OnWith(x, id, t, n).t = t /\ OnWith(x, id, t, n).n = n
                     /\ OnWith(x, id, t, n).to = x.chans[id].peer
                     /\ OnWith(x, id, t, n).ch = x.chans[id].ch
<1>1. x.chans[id].peer \in Nat /\ x.chans[id].ch \in Names
  BY SessionFacts, TableFacts, ParamFacts
<1>2. \A t \in {"DATA", "EOF", "CLOSE"} : On(x, id, t) \in Message
  BY <1>1 DEF On, Message
<1>3. \A t \in {"ADJUST", "ANSWER"} : OnWith(x, id, t, n) \in Message
  BY <1>1 DEF OnWith, Message
<1> QED  BY <1>2, <1>3 DEF On, OnWith

LEMMA EncEofEffect ==
    ASSUME NEW x \in Session, NEW id \in DOMAIN x.chans, x.chans[id].pend > 0
    PROVE  \E d : /\ Puts(x, EncEof(x, id).ses, id, d) /\ EncEof(x, id).out = <<>>
                  /\ Twin(x.chans[id], d) /\ Flow(x.chans[id], d) /\ Asks(x.chans[id], d)
                  /\ d.peof /\ d.pclose = x.chans[id].pclose
<1> DEFINE c == x.chans[id]
           d == [c EXCEPT !.peof = TRUE]
<1>1. EncEof(x, id) = Does([x EXCEPT !.chans[id] = d], <<>>)
  BY Zenon DEF EncEof
<1>2. c \in Param
  BY SessionFacts, TableFacts
<1>3. Twin(c, d) /\ Flow(c, d) /\ Asks(c, d) /\ d.peof /\ d.pclose = c.pclose
  BY <1>2, SetPeof, Zenon
<1> HIDE DEF d
<1>4. d \in Param
    BY <1>3 DEF Twin
<1>5. Puts(x, EncEof(x, id).ses, id, d) /\ EncEof(x, id).out = <<>>
  BY <1>1, <1>4, PutDoes
<1> QED  BY <1>3, <1>5

LEMMA EncCloseEffect ==
    ASSUME NEW x \in Session, NEW id \in DOMAIN x.chans
    PROVE  LET r == EncClose(x, id)
               c == x.chans[id]
           IN  \/ /\ c.pend > 0 /\ r.out = <<>>
                  /\ \E d : /\ Puts(x, r.ses, id, d)
                            /\ Twin(c, d) /\ Flow(c, d) /\ Asks(c, d)
                            /\ d.peof = c.peof /\ d.pclose
               \/ ~(c.pend > 0) /\ Drops(x, r.ses, id) /\ r.out = <<On(x, id, "CLOSE")>>
<1> DEFINE r == EncClose(x, id)
           c == x.chans[id]
<1>1. CASE c.pend > 0
  <2> DEFINE d == [c EXCEPT !.pclose = TRUE]
  <2>1. r = Does([x EXCEPT !.chans[id] = d], <<>>)
    BY <1>1, Zenon DEF EncClose
  <2>2. c \in Param
    BY SessionFacts, TableFacts
  <2>3. Twin(c, d) /\ Flow(c, d) /\ Asks(c, d) /\ d.peof = c.peof /\ d.pclose
    BY <2>2, SetPclose, Zenon
  <2> HIDE DEF d
  <2>4. d \in Param
    BY <2>3 DEF Twin
  <2>5. Puts(x, r.ses, id, d) /\ r.out = <<>>
    BY <2>1, <2>4, PutDoes
  <2> QED  BY <1>1, <2>3, <2>5
<1>2. CASE ~(c.pend > 0)
  <2>1. r = Does([x EXCEPT !.chans = Without(@, id)], <<On(x, id, "CLOSE")>>)
    BY <1>2, Zenon DEF EncClose, Byte, Does
  <2>2. Drops(x, r.ses, id) /\ r.out = <<On(x, id, "CLOSE")>>
    BY <2>1, DropDoes
  <2> QED  BY <1>2, <2>2
<1> QED  BY <1>1, <1>2

\* What FlushPending writes: n units of data, and the EOF that has waited.
Flushed(out, x, id, n, eof, rest) ==
    /\ out \in Seq(Message)
    /\ Len(out) = n + (IF eof THEN 1 ELSE 0) + rest
    /\ \A i \in 1 .. n : out[i] = On(x, id, "DATA")
    /\ eof => out[n + 1] = On(x, id, "EOF")

\* What a write sends, d being the channel after it: the first j units, and
\* nothing before what has been kept back.
Sends(x, id, d, out) ==
    LET c == x.chans[id]
    IN  /\ Twin(c, d) /\ Ends(c, d) /\ Asks(c, d) /\ d.own = c.own
        /\ \E j \in Nat : /\ Flushed(out, x, id, j, FALSE, 0)
                          /\ j <= c.win /\ d.win = c.win - j
                          /\ d.pend \in Nat /\ d.pend >= c.pend
                          /\ c.pend > 0 => j = 0
                          /\ ~(c.pend > 0) /\ d.pend > 0 => d.win = 0

LEMMA FlushedData ==
    ASSUME NEW x \in Session, NEW id \in DOMAIN x.chans, NEW n \in Nat
    PROVE  Flushed([i \in 1 .. n |-> On(x, id, "DATA")], x, id, n, FALSE, 0)
<1> DEFINE data == [i \in 1 .. n |-> On(x, id, "DATA")]
<1>1. On(x, id, "DATA") \in Message
  BY OnMessage
<1>2. data \in Seq(Message) /\ Len(data) = n /\ \A i \in 1 .. n : data[i] = On(x, id, "DATA")
  BY <1>1
<1> HIDE DEF data
<1>3. Flushed(data, x, id, n, FALSE, 0)
  BY <1>2 DEF Flushed
<1> QED  BY <1>3 DEF data

LEMMA SendsSays ==
    ASSUME NEW x \in Session, NEW id \in DOMAIN x.chans, NEW d, NEW out, Sends(x, id, d, out)
    PROVE  /\ out \in Seq(Message)
           /\ \A i \in DOMAIN out : /\ out[i] = On(x, id, "DATA") /\ out[i].t = "DATA"
                                    /\ out[i].to = x.chans[id].peer /\ out[i].ch = x.chans[id].ch
<1>1. PICK j \in Nat : Flushed(out, x, id, j, FALSE, 0)
  BY Zenon DEF Sends
<1>4. PICK eof : ~eof /\ Flushed(out, x, id, j, eof, 0)
  BY <1>1, Zenon
<1>2. out \in Seq(Message) /\ Len(out) = j /\ \A i \in 1 .. j : out[i] = On(x, id, "DATA")
  BY <1>4 DEF Flushed
<1>3. \A i \in DOMAIN out : out[i] = On(x, id, "DATA")
  BY <1>2
<1>5. LET m == On(x, id, "DATA")
      IN  m.t = "DATA" /\ m.to = x.chans[id].peer /\ m.ch = x.chans[id].ch
  BY DEF On
<1> QED  BY <1>2, <1>3, <1>5

LEMMA EncDataEffect ==
    ASSUME NEW x \in Session, NEW id \in DOMAIN x.chans, NEW len \in Nat
    PROVE  LET r == EncData(x, id, len)
           IN  \E d : Puts(x, r.ses, id, d) /\ Sends(x, id, d, r.out)
<1> DEFINE r == EncData(x, id, len)
           c == x.chans[id]
           n == IF c.pend > 0 THEN 0 ELSE IF len < c.win THEN len ELSE c.win
           d == [c EXCEPT !.pend = c.pend + (len - n), !.win = c.win - n]
           data == [i \in 1 .. n |-> On(x, id, "DATA")]
<1>1. c \in Param /\ c.pend \in Nat /\ c.win \in Nat
  BY SessionFacts, TableFacts, ParamFacts
<1>2. /\ n \in Nat /\ n <= c.win /\ c.pend + (len - n) \in Nat /\ c.win - n \in Nat
      /\ c.pend + (len - n) >= c.pend /\ (c.pend > 0 => n = 0)
      /\ ~(c.pend > 0) /\ c.pend + (len - n) > 0 => c.win - n = 0
  <2>1. CASE c.pend > 0
    <3>1. n = 0
      BY <2>1
    <3> QED  BY <1>1, <2>1, <3>1
  <2>2. CASE ~(c.pend > 0) /\ len < c.win
    <3>1. n = len /\ c.pend = 0
      BY <1>1, <2>2
    <3> QED  BY <1>1, <2>2, <3>1
  <2>3. CASE ~(c.pend > 0) /\ ~(len < c.win)
    <3>1. n = c.win /\ c.pend = 0
      BY <1>1, <2>3
    <3> QED  BY <1>1, <2>3, <3>1
  <2> QED  BY <2>1, <2>2, <2>3
<1>3. r = Does([x EXCEPT !.chans[id] = d], data)
  BY Zenon DEF EncData
<1> HIDE DEF n
<1>4. /\ Twin(c, d) /\ Ends(c, d) /\ Asks(c, d)
      /\ d.own = c.own /\ d.pend = c.pend + (len - n) /\ d.win = c.win - n
  BY <1>1, <1>2, Zenon DEF Param, Twin, Ends, Asks
<1>5. Flushed(data, x, id, n, FALSE, 0)
  BY <1>2, FlushedData
<1> HIDE DEF d, data
<1>6. d \in Param
  BY <1>4 DEF Twin
<1>7. Puts(x, r.ses, id, d) /\ r.out = data
  BY <1>3, <1>6, PutDoes
<1> HIDE DEF r
<1>8. /\ n \in Nat /\ n <= c.win /\ d.win = c.win - n /\ d.pend \in Nat /\ d.pend >= c.pend
      /\ (c.pend > 0 => n = 0) /\ (~(c.pend > 0) /\ d.pend > 0 => d.win = 0)
  BY <1>2, <1>4
<1>9. Sends(x, id, d, r.out)
  BY <1>4, <1>5, <1>7, <1>8 DEF Sends
<1> QED  BY <1>7, <1>9 DEF r

LEMMA FlushPendingEffect ==
    ASSUME NEW x \in Session, NEW id \in DOMAIN x.chans
    PROVE  LET r == FlushPending(x, id)
               c == x.chans[id]
               n == IF c.pend < c.win THEN c.pend ELSE c.win
           IN  \/ /\ n < c.pend /\ Flushed(r.out, x, id, n, FALSE, 0)
                  /\ \E d : /\ Puts(x, r.ses, id, d)
                            /\ Twin(c, d) /\ Ends(c, d) /\ Asks(c, d)
                            /\ d.own = c.own /\ d.pend = c.pend - n /\ d.win = c.win - n
               \/ /\ n = c.pend /\ ~c.pclose /\ Flushed(r.out, x, id, n, c.peof, 0)
                  /\ \E d : /\ Puts(x, r.ses, id, d)
                            /\ Twin(c, d) /\ Ends(c, d) /\ Asks(c, d)
                            /\ d.own = c.own /\ d.pend = 0 /\ d.win = c.win - n
               \/ /\ n = c.pend /\ c.pclose /\ Drops(x, r.ses, id)
                  /\ Flushed(r.out, x, id, n, c.peof, 1)
                  /\ r.out[Len(r.out)] = On(x, id, "CLOSE")
<1> DEFINE r == FlushPending(x, id)
           c == x.chans[id]
           n == IF c.pend < c.win THEN c.pend ELSE c.win
           d == [c EXCEPT !.pend = c.pend - n, !.win = c.win - n]
           y == [x EXCEPT !.chans[id] = d]
           data == [i \in 1 .. n |-> On(x, id, "DATA")]
           eof == IF c.peof THEN <<On(x, id, "EOF")>> ELSE <<>>
<1>1. c \in Param /\ c.pend \in Nat /\ c.win \in Nat /\ c.peof \in BOOLEAN /\ c.pclose \in BOOLEAN
  BY SessionFacts, TableFacts DEF Param
<1>2. n \in Nat /\ n <= c.pend /\ c.pend - n \in Nat /\ c.win - n \in Nat
  BY <1>1
<1>3. /\ Twin(c, d) /\ Ends(c, d) /\ Asks(c, d)
      /\ d.own = c.own /\ d.pend = c.pend - n /\ d.win = c.win - n
  <2> HIDE DEF n
  <2> QED  BY <1>1, <1>2, Zenon DEF Param, Twin, Ends, Asks
<1>4. /\ On(x, id, "DATA") \in Message /\ On(x, id, "EOF") \in Message
      /\ On(x, id, "CLOSE") \in Message
  BY OnMessage
<1>5. data \in Seq(Message) /\ Len(data) = n /\ \A i \in 1 .. n : data[i] = On(x, id, "DATA")
  BY <1>2, <1>4
<1>6. /\ eof \in Seq(Message) /\ Len(eof) = (IF c.peof THEN 1 ELSE 0)
      /\ c.peof => eof[1] = On(x, id, "EOF")
  BY <1>4
<1>11. Flushed(data \o eof, x, id, n, c.peof, 0)
  <2> HIDE DEF data, n
  <2>1. CASE c.peof
    <3>1. eof = <<On(x, id, "EOF")>>
      BY <2>1
    <3> HIDE DEF eof
    <3> QED  BY <2>1, <3>1, <1>2, <1>4, <1>5 DEF Flushed
  <2>2. CASE ~c.peof
    <3>1. eof = <<>>
      BY <2>2
    <3> HIDE DEF eof
    <3>2. data \o eof = data
      BY <3>1, <1>5
    <3> QED  BY <2>2, <3>2, <1>2, <1>5 DEF Flushed
  <2> QED  BY <1>1, <2>1, <2>2
<1>7. PICK z : z = y
  OBVIOUS
<1>8. Puts(x, z, id, d)
  <2>1. d \in Param
    BY <1>3 DEF Twin
  <2>2. Puts(x, y, id, d)
    BY <2>1, SetChan
  <2> QED  BY <1>7, <2>2, Zenon
<1>9. CASE n < c.pend
  <2>1. r = Does(z, data)
    BY <1>7, <1>9, Zenon DEF FlushPending
  <2>2. r.ses = z /\ r.out = data
    BY <2>1, DoesFacts
  <2> HIDE DEF data, d
  <2>3. Flushed(r.out, x, id, n, FALSE, 0)
    BY <2>2, <1>2, <1>5 DEF Flushed
  <2> QED  BY <1>9, <1>8, <2>2, <2>3, <1>3
<1>10. CASE ~(n < c.pend)
  <2>0. n = c.pend
    BY <1>10, <1>1, <1>2
  <2>1. CASE c.pclose
    <3>1. PICK u : u = [z EXCEPT !.chans = Without(@, id)]
      OBVIOUS
    <3>2. r = Does(u, data \o eof \o <<On(x, id, "CLOSE")>>)
      BY <1>7, <1>10, <2>1, <3>1, Zenon DEF FlushPending
    <3> HIDE DEF r, data, eof, n, d, y
    <3>3. Drops(z, r.ses, id) /\ r.out = data \o eof \o <<On(x, id, "CLOSE")>>
      <4>1. z \in Session
        BY <1>8 DEF Puts, Same
      <4>2. Drops(z, u, id)
        BY <4>1, <3>1, DropChan, Zenon
      <4> QED  BY <4>2, <3>2, DoesFacts
    <3>4. Drops(x, r.ses, id)
      BY <1>8, <3>3, PutThenDrop
    <3>5. Flushed(data \o eof, x, id, n, c.peof, 0)
      BY <1>11 DEF eof
    <3>6. Flushed(r.out, x, id, n, c.peof, 1) /\ r.out[Len(r.out)] = On(x, id, "CLOSE")
      <4> DEFINE o == data \o eof
      <4>1. Flushed(o, x, id, n, c.peof, 0) /\ r.out = o \o <<On(x, id, "CLOSE")>>
        BY <3>3, <3>5
      <4> HIDE DEF o
      <4> QED  BY <4>1, <1>1, <1>2, <1>4 DEF Flushed
    <3> QED  BY <2>0, <2>1, <3>4, <3>6 DEF n, r
  <2>2. CASE ~c.pclose
    <3>1. r = Does(z, data \o eof)
      BY <1>7, <1>10, <2>2, Zenon DEF FlushPending
    <3> HIDE DEF data, eof, d
    <3>2. r.ses = z /\ r.out = data \o eof
      BY <3>1, DoesFacts
    <3> HIDE DEF r
    <3>3. Flushed(r.out, x, id, n, c.peof, 0)
      BY <3>2, <1>11
    <3>4. d.own = c.own /\ d.pend = 0 /\ d.win = c.win - n
      BY <1>1, <1>3, <2>0
    <3> QED  BY <2>0, <2>2, <1>3, <1>8, <3>2, <3>3, <3>4 DEF r
  <2> QED  BY <2>1, <2>2
<1> QED  BY <1>9, <1>10

LEMMA AdjustEffect ==
    ASSUME NEW x \in Session, NEW id \in DOMAIN x.chans
    PROVE  LET r == AdjustWindowSize(x, id)
               c == x.chans[id]
               own == IF c.own > 0 THEN c.own - 1 ELSE 0
           IN  \E d : /\ Puts(x, r.ses, id, d) /\ Twin(c, d) /\ Ends(c, d) /\ Asks(c, d)
                      /\ d.win = c.win /\ d.pend = c.pend
                      /\ \/ /\ own < Window \div 2 /\ d.own = Window
                            /\ r.out = <<OnWith(x, id, "ADJUST", Window - own)>>
                            /\ Window - own \in Nat
                         \/ /\ ~(own < Window \div 2) /\ d.own = own /\ r.out = <<>>
<1> DEFINE r == AdjustWindowSize(x, id)
           c == x.chans[id]
           own == IF c.own > 0 THEN c.own - 1 ELSE 0
<1>1. c \in Param /\ own \in Nat
  BY SessionFacts, TableFacts, ParamFacts
<1>2. Window \in Nat /\ Window \div 2 <= Window
  BY WindowAssumption
<1> HIDE DEF own
<1>3. CASE own < Window \div 2
  <2> DEFINE d == [c EXCEPT !.own = Window]
  <2>1. r = Does([x EXCEPT !.chans[id] = d], <<OnWith(x, id, "ADJUST", Window - own)>>)
    BY <1>3, Zenon DEF AdjustWindowSize, own
  <2>2. /\ Twin(c, d) /\ Ends(c, d) /\ Asks(c, d)
        /\ d.win = c.win /\ d.pend = c.pend /\ d.own = Window
    BY <1>1, <1>2, SetOwn, Zenon
  <2> HIDE DEF d
  <2>3. d \in Param
    BY <2>2 DEF Twin
  <2>4. Puts(x, r.ses, id, d) /\ r.out = <<OnWith(x, id, "ADJUST", Window - own)>>
    BY <2>1, <2>3, PutDoes
  <2>5. Window - own \in Nat
    BY <1>1, <1>2, <1>3
  <2> QED  BY <1>3, <2>2, <2>4, <2>5 DEF own
<1>4. CASE ~(own < Window \div 2)
  <2> DEFINE d == [c EXCEPT !.own = own]
  <2>1. r = Does([x EXCEPT !.chans[id] = d], <<>>)
    BY <1>4, Zenon DEF AdjustWindowSize, own
  <2>2. /\ Twin(c, d) /\ Ends(c, d) /\ Asks(c, d)
        /\ d.win = c.win /\ d.pend = c.pend /\ d.own = own
    BY <1>1, <1>2, SetOwn, Zenon
  <2> HIDE DEF d
  <2>3. d \in Param
    BY <2>2 DEF Twin
  <2>4. Puts(x, r.ses, id, d) /\ r.out = <<>>
    BY <2>1, <2>3, PutDoes
  <2> QED  BY <1>4, <2>2, <2>4 DEF own
<1> QED  BY <1>3, <1>4

LEMMA AnswerEffect ==
    ASSUME NEW x \in Session, NEW id \in DOMAIN x.chans
    PROVE  LET r == Answer(x, id)
               c == x.chans[id]
           IN  \/ ~c.wants /\ r.ses = x /\ r.out = <<>>
               \/ /\ c.wants /\ r.out = <<OnWith(x, id, "ANSWER", c.asked)>>
                  /\ \E d : /\ Puts(x, r.ses, id, d) /\ Twin(c, d) /\ Flow(c, d) /\ Ends(c, d)
                            /\ ~d.wants /\ d.asked = c.asked
<1> DEFINE r == Answer(x, id)
           c == x.chans[id]
<1>1. CASE c.wants
  <2> DEFINE d == [c EXCEPT !.wants = FALSE]
  <2>1. r = Does([x EXCEPT !.chans[id] = d], <<OnWith(x, id, "ANSWER", c.asked)>>)
    BY <1>1, Zenon DEF Answer
  <2>2. c \in Param
    BY SessionFacts, TableFacts
  <2>3. Twin(c, d) /\ Flow(c, d) /\ Ends(c, d) /\ ~d.wants /\ d.asked = c.asked
    BY <2>2, SetWants, Zenon
  <2> HIDE DEF d
  <2>4. d \in Param
    BY <2>3 DEF Twin
  <2>5. Puts(x, r.ses, id, d) /\ r.out = <<OnWith(x, id, "ANSWER", c.asked)>>
    BY <2>1, <2>4, PutDoes
  <2> QED  BY <1>1, <2>3, <2>5
<1>2. CASE ~c.wants
  <2>1. r = Does(x, <<>>)
    BY <1>2, Zenon DEF Answer
  <2> QED  BY <1>2, <2>1, DoesFacts
<1> QED  BY <1>1, <1>2

-----------------------------------------------------------------------------
\* Which handler reads a message.

Reads(s, x, m, choice) ==
    IF s = "client" THEN ClientReads(x, m, choice) ELSE ServerReads(x, m, choice)

LEMMA ClientHandlers ==
    ASSUME NEW x, NEW m, NEW choice
    PROVE  /\ m.t = "OPEN" => ClientReads(x, m, choice) = ClientReceiveOpen(x, m, choice)
           /\ m.t = "FAILURE" => ClientReads(x, m, choice) = ClientReceiveFailure(x, m)
           /\ m.t = "CLOSE" => ClientReads(x, m, choice) = ClientReceiveClose(x, m)
           /\ m.t = "ANSWER" => ClientReads(x, m, choice) = ReceiveAnswer(x, m)
           /\ m.t = "GLOBAL" => ClientReads(x, m, choice) = ClientReceiveGlobal(x, m)
           /\ m.t \notin {"OPEN", "FAILURE", "CLOSE", "ANSWER", "GLOBAL"}
                 => ClientReads(x, m, choice) = ReceiveAny("client", x, m)
<1>1. CASE m.t = "OPEN"
  <2>1. m.t # "FAILURE" /\ m.t # "CLOSE" /\ m.t # "ANSWER" /\ m.t # "GLOBAL"
    BY <1>1
  <2> QED  BY <1>1, <2>1, Zenon DEF ClientReads
<1>2. CASE m.t = "FAILURE"
  <2>1. m.t # "OPEN" /\ m.t # "CLOSE" /\ m.t # "ANSWER" /\ m.t # "GLOBAL"
    BY <1>2
  <2> QED  BY <1>2, <2>1, Zenon DEF ClientReads
<1>3. CASE m.t = "CLOSE"
  <2>1. m.t # "OPEN" /\ m.t # "FAILURE" /\ m.t # "ANSWER" /\ m.t # "GLOBAL"
    BY <1>3
  <2> QED  BY <1>3, <2>1, Zenon DEF ClientReads
<1>4. CASE m.t = "ANSWER"
  <2>1. m.t # "OPEN" /\ m.t # "FAILURE" /\ m.t # "CLOSE" /\ m.t # "GLOBAL"
    BY <1>4
  <2> QED  BY <1>4, <2>1, Zenon DEF ClientReads
<1>6. CASE m.t = "GLOBAL"
  <2>1. m.t # "OPEN" /\ m.t # "FAILURE" /\ m.t # "CLOSE" /\ m.t # "ANSWER"
    BY <1>6
  <2> QED  BY <1>6, <2>1, Zenon DEF ClientReads
<1>5. CASE m.t \notin {"OPEN", "FAILURE", "CLOSE", "ANSWER", "GLOBAL"}
  <2>1. /\ m.t # "OPEN" /\ m.t # "FAILURE" /\ m.t # "CLOSE" /\ m.t # "ANSWER"
        /\ m.t # "GLOBAL"
    BY <1>5
  <2> QED  BY <2>1, Zenon DEF ClientReads
<1> QED  BY <1>1, <1>2, <1>3, <1>4, <1>5, <1>6, Zenon

LEMMA ServerHandlers ==
    ASSUME NEW x, NEW m, NEW choice
    PROVE  /\ m.t = "OPEN" => ServerReads(x, m, choice) = ServerReceiveOpen(x, m, choice)
           /\ m.t = "FAILURE" => ServerReads(x, m, choice) = ServerReceiveFailure(x, m)
           /\ m.t = "CLOSE" => ServerReads(x, m, choice) = ServerReceiveClose(x, m)
           /\ m.t = "REQUEST" => ServerReads(x, m, choice) = ReceiveRequest(x, m, choice)
           /\ m.t = "GLOBAL" => ServerReads(x, m, choice) = ServerReceiveGlobal(x, m)
           /\ m.t \notin {"OPEN", "FAILURE", "CLOSE", "REQUEST", "GLOBAL"}
                 => ServerReads(x, m, choice) = ReceiveAny("server", x, m)
<1>1. CASE m.t = "OPEN"
  <2>1. m.t # "FAILURE" /\ m.t # "CLOSE" /\ m.t # "REQUEST" /\ m.t # "GLOBAL"
    BY <1>1
  <2> QED  BY <1>1, <2>1, Zenon DEF ServerReads
<1>2. CASE m.t = "FAILURE"
  <2>1. m.t # "OPEN" /\ m.t # "CLOSE" /\ m.t # "REQUEST" /\ m.t # "GLOBAL"
    BY <1>2
  <2> QED  BY <1>2, <2>1, Zenon DEF ServerReads
<1>3. CASE m.t = "CLOSE"
  <2>1. m.t # "OPEN" /\ m.t # "FAILURE" /\ m.t # "REQUEST" /\ m.t # "GLOBAL"
    BY <1>3
  <2> QED  BY <1>3, <2>1, Zenon DEF ServerReads
<1>4. CASE m.t = "REQUEST"
  <2>1. m.t # "OPEN" /\ m.t # "FAILURE" /\ m.t # "CLOSE" /\ m.t # "GLOBAL"
    BY <1>4
  <2> QED  BY <1>4, <2>1, Zenon DEF ServerReads
<1>6. CASE m.t = "GLOBAL"
  <2>1. m.t # "OPEN" /\ m.t # "FAILURE" /\ m.t # "CLOSE" /\ m.t # "REQUEST"
    BY <1>6
  <2> QED  BY <1>6, <2>1, Zenon DEF ServerReads
<1>5. CASE m.t \notin {"OPEN", "FAILURE", "CLOSE", "REQUEST", "GLOBAL"}
  <2>1. /\ m.t # "OPEN" /\ m.t # "FAILURE" /\ m.t # "CLOSE" /\ m.t # "REQUEST"
        /\ m.t # "GLOBAL"
    BY <1>5
  <2> QED  BY <2>1, Zenon DEF ServerReads
<1> QED  BY <1>1, <1>2, <1>3, <1>4, <1>5, <1>6, Zenon

LEMMA AnyHandlers ==
    ASSUME NEW s, NEW x, NEW m
    PROVE  /\ m.t = "CONFIRM" => ReceiveAny(s, x, m) = ReceiveConfirm(s, x, m)
           /\ m.t = "DATA" => ReceiveAny(s, x, m) = ReceiveData(s, x, m)
           /\ m.t = "ADJUST" => ReceiveAny(s, x, m) = ReceiveAdjust(s, x, m)
           /\ m.t = "EOF" => ReceiveAny(s, x, m) = Untold(Does(x, <<>>))
           /\ m.t = "RESULT" => ReceiveAny(s, x, m) = ReceiveResult(s, x, m)
           /\ m.t = "DISCONNECT" => ReceiveAny(s, x, m) = Untold(Dies(x, "disconnected"))
<1>2. /\ "CONFIRM" # "DATA" /\ "CONFIRM" # "ADJUST" /\ "CONFIRM" # "EOF"
      /\ "CONFIRM" # "RESULT" /\ "CONFIRM" # "DISCONNECT" /\ "DATA" # "ADJUST" /\ "DATA" # "EOF"
      /\ "DATA" # "RESULT" /\ "DATA" # "DISCONNECT" /\ "ADJUST" # "EOF"
      /\ "ADJUST" # "RESULT" /\ "ADJUST" # "DISCONNECT"
      /\ "EOF" # "RESULT" /\ "EOF" # "DISCONNECT" /\ "RESULT" # "DISCONNECT"
  OBVIOUS
<1>3. CASE m.t = "CONFIRM"
  BY <1>2, <1>3, Zenon DEF ReceiveAny
<1>4. CASE m.t = "DATA"
  BY <1>2, <1>4, Zenon DEF ReceiveAny
<1>5. CASE m.t = "ADJUST"
  BY <1>2, <1>5, Zenon DEF ReceiveAny
<1>6. CASE m.t = "EOF"
  BY <1>2, <1>6, Zenon DEF ReceiveAny
<1>8. CASE m.t = "RESULT"
  BY <1>2, <1>8, Zenon DEF ReceiveAny
<1>9. CASE m.t = "DISCONNECT"
  BY <1>2, <1>9, Zenon DEF ReceiveAny
<1> QED  BY <1>3, <1>4, <1>5, <1>6, <1>8, <1>9, Zenon

-----------------------------------------------------------------------------
\* What the handlers of messages do.

\* Session x with another last number, other references and other channels.
Shift(x, z, last, refs, chans) ==
    /\ z \in Session /\ z.last = last /\ z.refs = refs /\ z.chans = chans
    /\ z.globals = x.globals /\ z.asked = x.asked /\ z.end = x.end

Still(x, z) == Shift(x, z, x.last, x.refs, x.chans)

\* Session x has ended.
Stops(x, z, why) ==
    /\ z \in Session /\ z.last = x.last /\ z.refs = {} /\ z.chans = <<>>
    /\ z.globals = <<>> /\ z.asked = x.asked /\ z.end = why

\* Session x with another queue of global requests.
Queues(x, z, globals, asked) ==
    /\ z \in Session /\ z.last = x.last /\ z.refs = x.refs /\ z.chans = x.chans
    /\ z.globals = globals /\ z.asked = asked /\ z.end = x.end

\* The messages a session reads, in the terms the rest of the proof uses: x
\* is the session, k the table of its tasks and m the message; z, out and k2
\* are the session, what is written and the tasks after it.

Heard(x, k, id) == id \in x.refs /\ id \in DOMAIN k /\ k[id].st # "quit"

TookOpen(s, x, k, m, z, out, k2) ==
    LET id == x.last + 1
    IN  \/ /\ Shift(x, z, id, x.refs \cup {id}, With(x.chans, id, Params(m.ch, m.from, Window)))
           /\ out = <<[t |-> "CONFIRM", to |-> m.from, ch |-> m.ch, from |-> id]>>
           /\ k2 = With(k, id, Task("held"))
        \/ /\ \/ Shift(x, z, id, x.refs, x.chans)
              \/ s = "server" /\ Shift(x, z, id, x.refs \cup {id}, x.chans)
           /\ out = <<[t |-> "FAILURE", to |-> m.from, ch |-> m.ch]>>
           /\ k2 = k

TookConfirm(x, k, m, z, out, k2) ==
    /\ out = <<>>
    /\ \/ m.to \notin DOMAIN x.chans /\ Stops(x, z, "Inconsistent") /\ k2 = k
       \/ /\ m.to \in DOMAIN x.chans
          /\ k2 = IF Heard(x, k, m.to) THEN With(k, m.to, Task("held")) ELSE k
          /\ \E d : LET c == x.chans[m.to]
                    IN  /\ Puts(x, z, m.to, d) /\ d \in Param
                        /\ d.ch = c.ch /\ d.peer = m.from /\ d.win = Window
                        /\ d.own = c.own /\ d.pend = c.pend
                        /\ Ends(c, d) /\ Asks(c, d)

TookFailure(s, x, k, m, z, out, k2) ==
    /\ out = <<>>
    /\ \/ /\ Shift(x, z, x.last, x.refs \ {m.to}, Without(x.chans, m.to))
          /\ k2 = IF Heard(x, k, m.to) THEN With(k, m.to, Task("refused")) ELSE k
       \/ /\ m.to \in x.refs /\ ~Heard(x, k, m.to) /\ s = "server"
          /\ Stops(x, z, "SendError") /\ k2 = k

TookClose(s, x, m, z, out) ==
    LET c == x.chans[m.to]
        refs == x.refs \ {m.to}
    IN  \/ /\ m.to \notin DOMAIN x.chans
           /\ Shift(x, z, x.last, refs, x.chans) /\ out = <<>>
        \/ /\ s = "client" /\ m.to \in DOMAIN x.chans /\ c.pend > 0 /\ out = <<>>
           /\ \E d : /\ Shift(x, z, x.last, refs, With(x.chans, m.to, d))
                     /\ Twin(c, d) /\ Flow(c, d) /\ Asks(c, d)
                     /\ d.peof = c.peof /\ d.pclose
        \/ /\ s = "client" /\ m.to \in DOMAIN x.chans /\ ~(c.pend > 0)
           /\ Shift(x, z, x.last, refs, Without(x.chans, m.to))
           /\ out = <<On(x, m.to, "CLOSE")>>
        \/ /\ s = "server" /\ m.to \in DOMAIN x.chans
           /\ Shift(x, z, x.last, refs, Without(x.chans, m.to)) /\ out = <<>>

TookData(x, m, z, out) ==
    LET c == x.chans[m.to]
        own == IF c.own > 0 THEN c.own - 1 ELSE 0
    IN  \/ m.to \notin DOMAIN x.chans /\ z = x /\ out = <<>>
        \/ /\ m.to \in DOMAIN x.chans
           /\ \E d : /\ Puts(x, z, m.to, d) /\ Twin(c, d) /\ Ends(c, d) /\ Asks(c, d)
                     /\ d.win = c.win /\ d.pend = c.pend
                     /\ \/ /\ own < Window \div 2 /\ d.own = Window
                           /\ out = <<OnWith(x, m.to, "ADJUST", Window - own)>>
                           /\ Window - own \in Nat
                        \/ ~(own < Window \div 2) /\ d.own = own /\ out = <<>>

TookGrant(x, m, z, out) ==
    LET c == x.chans[m.to]
        win == c.win + m.n
        n == IF c.pend < win THEN c.pend ELSE win
    IN  \/ m.to \notin DOMAIN x.chans /\ Stops(x, z, "WrongChannel") /\ out = <<>>
        \/ /\ m.to \in DOMAIN x.chans /\ n < c.pend
           /\ Flushed(out, x, m.to, n, FALSE, 0)
           /\ \E d : /\ Puts(x, z, m.to, d)
                     /\ Twin(c, d) /\ Ends(c, d) /\ Asks(c, d) /\ d.own = c.own
                     /\ d.pend = c.pend - n /\ d.win = win - n
        \/ /\ m.to \in DOMAIN x.chans /\ n = c.pend /\ ~c.pclose
           /\ Flushed(out, x, m.to, n, c.peof, 0)
           /\ \E d : /\ Puts(x, z, m.to, d)
                     /\ Twin(c, d) /\ Ends(c, d) /\ Asks(c, d) /\ d.own = c.own
                     /\ d.pend = 0 /\ d.win = win - n
        \/ /\ m.to \in DOMAIN x.chans /\ n = c.pend /\ c.pclose
           /\ Drops(x, z, m.to) /\ Flushed(out, x, m.to, n, c.peof, 1)
           /\ out[Len(out)] = On(x, m.to, "CLOSE")

\* The answer to a request for the agent, which nobody waits for.
Astray(m, out) == m.agent /\ out = <<[t |-> "RESULT", n |-> 0]>>

TookRequest(x, m, z, out) ==
    LET c == x.chans[m.to]
    IN  \/ m.to \notin DOMAIN x.chans /\ Still(x, z) /\ (out = <<>> \/ Astray(m, out))
        \/ /\ m.to \in DOMAIN x.chans
           /\ \E d : /\ Puts(x, z, m.to, d) /\ Twin(c, d) /\ Flow(c, d) /\ Ends(c, d)
                     /\ d.asked = m.n
                     /\ \/ d.wants = m.wants /\ (out = <<>> \/ Astray(m, out))
                        \/ m.wants /\ ~d.wants /\ out = <<OnWith(x, m.to, "ANSWER", m.n)>>

TookAnswer(x, k, m, z, out, k2) ==
    /\ z = x /\ out = <<>>
    /\ \/ ~Heard(x, k, m.to) /\ k2 = k
       \/ /\ Heard(x, k, m.to)
          /\ \E e \in OneTask : /\ k2 = With(k, m.to, e)
                                /\ e.st = k[m.to].st /\ e.eof = k[m.to].eof
                                /\ e.asks = k[m.to].asks
                                /\ e.answers = Append(k[m.to].answers, m.n)

\* A keepalive of the server that wants no reply gets none.
TookGlobal(s, x, m, z, out) ==
    /\ Still(x, z)
    /\ \/ out = <<[t |-> "RESULT", n |-> m.n]>>
       \/ s = "client" /\ m.kind = "keepalive" /\ ~m.wants /\ out = <<>>

TookResult(x, z, out) ==
    /\ Queues(x, z, IF x.globals = <<>> THEN <<>> ELSE Tail(x.globals), x.asked)
    /\ out = <<>>

Took(s, x, k, m, z, out, k2) ==
    \/ m.t = "OPEN" /\ TookOpen(s, x, k, m, z, out, k2)
    \/ m.t = "CONFIRM" /\ TookConfirm(x, k, m, z, out, k2)
    \/ m.t = "FAILURE" /\ TookFailure(s, x, k, m, z, out, k2)
    \/ m.t = "CLOSE" /\ TookClose(s, x, m, z, out) /\ k2 = k
    \/ m.t = "DATA" /\ TookData(x, m, z, out) /\ k2 = k
    \/ m.t = "ADJUST" /\ TookGrant(x, m, z, out) /\ k2 = k
    \/ m.t = "REQUEST" /\ s = "server" /\ TookRequest(x, m, z, out) /\ k2 = k
    \/ m.t = "ANSWER" /\ s = "client" /\ TookAnswer(x, k, m, z, out, k2)
    \/ m.t = "EOF" /\ z = x /\ out = <<>> /\ k2 = k
    \/ m.t = "GLOBAL" /\ TookGlobal(s, x, m, z, out) /\ k2 = k
    \/ m.t = "RESULT" /\ TookResult(x, z, out) /\ k2 = k
    \/ m.t = "DISCONNECT" /\ Stops(x, z, "disconnected") /\ out = <<>> /\ k2 = k

\* What a handler returns.
Returns(r, z, out, id, t) == r.ses = z /\ r.out = out /\ r.id = id /\ r.task = t

\* What the tasks are after a message.
NewTasks(k, r) == IF r.task = <<>> THEN k ELSE With(k, r.id, r.task[1])

LEMMA ReturnsFacts ==
    ASSUME NEW r, NEW z, NEW out, NEW id, NEW k
    PROVE  Returns(r, z, out, id, <<>>) => r.ses = z /\ r.out = out /\ NewTasks(k, r) = k
BY DEF Returns, NewTasks

LEMMA ReturnsTask ==
    ASSUME NEW r, NEW z, NEW out, NEW id, NEW k, NEW t, Returns(r, z, out, id, <<t>>)
    PROVE  r.ses = z /\ r.out = out /\ NewTasks(k, r) = With(k, id, t)
BY DEF Returns, NewTasks

LEMMA ToldFacts ==
    ASSUME NEW y, NEW out, NEW id, NEW t
    PROVE  /\ Returns(Told(Does(y, out), id, t), y, out, id, t)
           /\ Returns(Untold(Does(y, out)), y, out, 0, <<>>)
BY DEF Returns, Told, Untold, Does

LEMMA UntoldFacts ==
    ASSUME NEW r
    PROVE  Returns(Untold(r), r.ses, r.out, 0, <<>>)
BY DEF Returns, Told, Untold

LEMMA EndedStops ==
    ASSUME NEW x \in Session, NEW why \in Reasons
    PROVE  Stops(x, Ended(x, why), why)
<1>1. <<>> \in Tables /\ {} \in SUBSET Nat /\ <<>> \in Seq(Nat)
  BY TablesEmpty
<1> QED  BY <1>1, Zenon DEF Session, Ended, Stops

LEMMA DiesEffect ==
    ASSUME NEW x \in Session, NEW why \in Reasons
    PROVE  \E z : Stops(x, z, why) /\ Returns(Untold(Dies(x, why)), z, <<>>, 0, <<>>)
<1>1. PICK z : z = Ended(x, why)
  OBVIOUS
<1>2. Stops(x, z, why)
  BY <1>1, EndedStops
<1>3. Returns(Untold(Does(z, <<>>)), z, <<>>, 0, <<>>)
  BY ToldFacts
<1> QED  BY <1>1, <1>2, <1>3 DEF Dies

LEMMA ParamsType ==
    ASSUME NEW ch \in Names, NEW p \in Nat, NEW w \in Nat
    PROVE  Params(ch, p, w) \in Param
BY WindowAssumption DEF Params, Param

\* A session takes the next number for a channel that the peer opens.
LEMMA OpenEffect ==
    ASSUME NEW s \in Sides, NEW x \in Session, NEW m \in Message, NEW choice \in BOOLEAN,
           NEW k, m.t = "OPEN"
    PROVE  LET r == Reads(s, x, m, choice)
           IN  TookOpen(s, x, k, m, r.ses, r.out, NewTasks(k, r))
<1> DEFINE id == x.last + 1
           f == With(x.chans, id, Params(m.ch, m.from, Window))
           confirm == <<[t |-> "CONFIRM", to |-> m.from, ch |-> m.ch, from |-> id]>>
           failure == <<[t |-> "FAILURE", to |-> m.from, ch |-> m.ch]>>
           held == <<Task("held")>>
<1>1. id \in Nat /\ m.from \in Nat /\ m.ch \in Names /\ Window \in Nat
  BY SessionFacts, WindowAssumption DEF Message
<1>2. f \in Tables /\ x.refs \cup {id} \in SUBSET Nat
  BY <1>1, SessionFacts, TablesWith, ParamsType
<1> HIDE DEF f, confirm, failure, held
<1>3. CASE s = "client"
  <2>1. Reads(s, x, m, choice) = ClientReceiveOpen(x, m, choice)
    BY <1>3, ClientHandlers DEF Reads
  <2> DEFINE y == [x EXCEPT !.last = id]
  <2>2. CASE choice
    <3>1. PICK z : z = [y EXCEPT !.refs = @ \cup {id}, !.chans = f]
      OBVIOUS
    <3>2. Shift(x, z, id, x.refs \cup {id}, f)
      BY <1>1, <1>2, <3>1, Zenon DEF Session, Shift
    <3>3. ClientReceiveOpen(x, m, choice) = Told(Does(z, confirm), id, held)
      BY <2>2, <3>1, Zenon DEF ClientReceiveOpen, Confirms, NewId, f, confirm, held
    <3>4. Returns(Reads(s, x, m, choice), z, confirm, id, held)
      BY <2>1, <3>3, ToldFacts
    <3>5. /\ Reads(s, x, m, choice).ses = z /\ Reads(s, x, m, choice).out = confirm
          /\ NewTasks(k, Reads(s, x, m, choice)) = With(k, id, Task("held"))
      BY <3>4, ReturnsTask DEF held
    <3> QED  BY <3>2, <3>5 DEF TookOpen, f, confirm
  <2>3. CASE ~choice
    <3>1. PICK z : z = y
      OBVIOUS
    <3>2. Shift(x, z, id, x.refs, x.chans)
      BY <1>1, <3>1, Zenon DEF Session, Shift
    <3>3. ClientReceiveOpen(x, m, choice) = Untold(Does(z, failure))
      BY <2>3, <3>1, Zenon DEF ClientReceiveOpen, Refuses, NewId, failure
    <3>4. Returns(Reads(s, x, m, choice), z, failure, 0, <<>>)
      BY <2>1, <3>3, ToldFacts
    <3> QED  BY <3>2, <3>4, ReturnsFacts DEF TookOpen, failure
  <2> QED  BY <2>2, <2>3
<1>4. CASE s = "server"
  <2>1. Reads(s, x, m, choice) = ServerReceiveOpen(x, m, choice)
    BY <1>4, ServerHandlers DEF Reads
  <2> DEFINE y == [x EXCEPT !.last = id, !.refs = @ \cup {id}]
  <2>2. CASE choice
    <3>1. PICK z : z = [y EXCEPT !.refs = @ \cup {id}, !.chans = f]
      OBVIOUS
    <3>2. (x.refs \cup {id}) \cup {id} = x.refs \cup {id}
      OBVIOUS
    <3>3. Shift(x, z, id, x.refs \cup {id}, f)
      BY <1>1, <1>2, <3>1, <3>2, Zenon DEF Session, Shift
    <3>4. ServerReceiveOpen(x, m, choice) = Told(Does(z, confirm), id, held)
      BY <2>2, <3>1, Zenon DEF ServerReceiveOpen, Confirms, NewId, f, confirm, held
    <3>5. Returns(Reads(s, x, m, choice), z, confirm, id, held)
      BY <2>1, <3>4, ToldFacts
    <3>6. /\ Reads(s, x, m, choice).ses = z /\ Reads(s, x, m, choice).out = confirm
          /\ NewTasks(k, Reads(s, x, m, choice)) = With(k, id, Task("held"))
      BY <3>5, ReturnsTask DEF held
    <3> QED  BY <3>3, <3>6 DEF TookOpen, f, confirm
  <2>3. CASE ~choice
    <3>1. PICK z : z = y
      OBVIOUS
    <3>2. Shift(x, z, id, x.refs \cup {id}, x.chans)
      BY <1>1, <1>2, <3>1, Zenon DEF Session, Shift
    <3>3. ServerReceiveOpen(x, m, choice) = Untold(Does(z, failure))
      BY <2>3, <3>1, Zenon DEF ServerReceiveOpen, Refuses, NewId, failure
    <3>4. Returns(Reads(s, x, m, choice), z, failure, 0, <<>>)
      BY <2>1, <3>3, ToldFacts
    <3> QED  BY <1>4, <3>2, <3>4, ReturnsFacts DEF TookOpen, failure
  <2> QED  BY <2>2, <2>3
<1> QED  BY <1>3, <1>4 DEF Sides

\* The confirmation: a channel that is not known ends the session.
LEMMA ConfirmEffect ==
    ASSUME NEW s \in Sides, NEW x \in Session, NEW m \in Message, NEW choice,
           NEW k, m.t = "CONFIRM", Hears(s, x, m.to) <=> Heard(x, k, m.to)
    PROVE  LET r == Reads(s, x, m, choice)
           IN  TookConfirm(x, k, m, r.ses, r.out, NewTasks(k, r))
<1>1. m.from \in Nat /\ m.ch \in Names /\ Window \in Nat
  BY WindowAssumption DEF Message
<1>2. Reads(s, x, m, choice) = ReceiveConfirm(s, x, m)
  BY ClientHandlers, ServerHandlers, AnyHandlers DEF Reads, Sides
<1>3. CASE m.to \notin DOMAIN x.chans
  <2>1. Reads(s, x, m, choice) = Untold(Dies(x, "Inconsistent"))
    BY <1>2, <1>3, Zenon DEF ReceiveConfirm
  <2>2. \E z : /\ Stops(x, z, "Inconsistent")
               /\ Returns(Untold(Dies(x, "Inconsistent")), z, <<>>, 0, <<>>)
    <3>1. "Inconsistent" \in Reasons
      BY DEF Reasons
    <3> QED  BY <3>1, DiesEffect, Zenon
  <2>3. PICK z : /\ Stops(x, z, "Inconsistent")
                 /\ Returns(Reads(s, x, m, choice), z, <<>>, 0, <<>>)
    BY <2>1, <2>2
  <2> QED  BY <1>3, <2>3, ReturnsFacts DEF TookConfirm
<1>4. CASE m.to \in DOMAIN x.chans
  <2> DEFINE c == x.chans[m.to]
             d == [c EXCEPT !.peer = m.from, !.confirmed = TRUE, !.win = Window]
             t == IF Hears(s, x, m.to) THEN <<Task("held")>> ELSE <<>>
  <2>1. c \in Param
    BY <1>4, SessionFacts, TableFacts
  <2>2. /\ d \in Param /\ d.ch = c.ch /\ d.peer = m.from /\ d.win = Window
        /\ d.own = c.own /\ d.pend = c.pend /\ Ends(c, d) /\ Asks(c, d)
    <3> HIDE DEF c
    <3> QED  BY <1>1, <2>1, Zenon DEF Param, Ends, Asks
  <2>3. PICK z : z = [x EXCEPT !.chans[m.to] = d]
    OBVIOUS
  <2>4. Puts(x, z, m.to, d)
    BY <1>4, <2>2, <2>3, SetChan, Zenon
  <2>5. Reads(s, x, m, choice) = Told(Does(z, <<>>), m.to, t)
    BY <1>2, <1>4, <2>3, Zenon DEF ReceiveConfirm
  <2> HIDE DEF d, t
  <2>6. Returns(Reads(s, x, m, choice), z, <<>>, m.to, t)
    BY <2>5, ToldFacts
  <2>7. \/ Heard(x, k, m.to) /\ t = <<Task("held")>>
        \/ ~Heard(x, k, m.to) /\ t = <<>>
    BY DEF t
  <2>8. /\ NewTasks(k, Reads(s, x, m, choice))
           = IF Heard(x, k, m.to) THEN With(k, m.to, Task("held")) ELSE k
        /\ Reads(s, x, m, choice).ses = z /\ Reads(s, x, m, choice).out = <<>>
    <3>1. CASE Heard(x, k, m.to) /\ t = <<Task("held")>>
      BY <2>6, <3>1, ReturnsTask
    <3>2. CASE ~Heard(x, k, m.to) /\ t = <<>>
      BY <2>6, <3>2, ReturnsFacts, Zenon
    <3> QED  BY <2>7, <3>1, <3>2
  <2> QED  BY <1>4, <2>2, <2>4, <2>8 DEF TookConfirm
<1> QED  BY <1>3, <1>4

\* The refusal: the channel is forgotten, and its task told or gone.
LEMMA FailureEffect ==
    ASSUME NEW s \in Sides, NEW x \in Session, NEW m \in Message, NEW choice,
           NEW k, m.t = "FAILURE", Hears(s, x, m.to) <=> Heard(x, k, m.to)
    PROVE  LET r == Reads(s, x, m, choice)
           IN  TookFailure(s, x, k, m, r.ses, r.out, NewTasks(k, r))
<1>1. Without(x.chans, m.to) \in Tables /\ x.refs \ {m.to} \in SUBSET Nat
  BY SessionFacts, TablesWithout
<1>2. PICK y : y = [x EXCEPT !.chans = Without(@, m.to), !.refs = @ \ {m.to}]
  OBVIOUS
<1>3. Shift(x, y, x.last, x.refs \ {m.to}, Without(x.chans, m.to))
  BY <1>1, <1>2, Zenon DEF Session, Shift
<1>4. CASE s = "client"
  <2>1. Reads(s, x, m, choice) = ClientReceiveFailure(x, m)
    BY <1>4, ClientHandlers DEF Reads
  <2>2. CASE Hears(s, x, m.to)
    <3>1. ClientReceiveFailure(x, m) = Told(Does(y, <<>>), m.to, <<Task("refused")>>)
      BY <1>2, <1>4, <2>2, Zenon DEF ClientReceiveFailure
    <3>2. Returns(Reads(s, x, m, choice), y, <<>>, m.to, <<Task("refused")>>)
      BY <2>1, <3>1, ToldFacts
    <3>3. /\ Reads(s, x, m, choice).ses = y /\ Reads(s, x, m, choice).out = <<>>
          /\ NewTasks(k, Reads(s, x, m, choice)) = With(k, m.to, Task("refused"))
      BY <3>2, ReturnsTask
    <3> QED  BY <1>3, <2>2, <3>3 DEF TookFailure
  <2>3. CASE ~Hears(s, x, m.to)
    <3>1. ClientReceiveFailure(x, m) = Told(Does(y, <<>>), m.to, <<>>)
      BY <1>2, <1>4, <2>3, Zenon DEF ClientReceiveFailure
    <3>2. Returns(Reads(s, x, m, choice), y, <<>>, m.to, <<>>)
      BY <2>1, <3>1, ToldFacts
    <3> QED  BY <1>3, <1>4, <2>3, <3>2, ReturnsFacts DEF TookFailure
  <2> QED  BY <2>2, <2>3
<1>5. CASE s = "server"
  <2>1. Reads(s, x, m, choice) = ServerReceiveFailure(x, m)
    BY <1>5, ServerHandlers DEF Reads
  <2>2. CASE Hears(s, x, m.to)
    <3>1. ServerReceiveFailure(x, m) = Told(Does(y, <<>>), m.to, <<Task("refused")>>)
      BY <1>2, <1>5, <2>2, Zenon DEF ServerReceiveFailure
    <3>2. Returns(Reads(s, x, m, choice), y, <<>>, m.to, <<Task("refused")>>)
      BY <2>1, <3>1, ToldFacts
    <3>3. /\ Reads(s, x, m, choice).ses = y /\ Reads(s, x, m, choice).out = <<>>
          /\ NewTasks(k, Reads(s, x, m, choice)) = With(k, m.to, Task("refused"))
      BY <3>2, ReturnsTask
    <3> QED  BY <1>3, <2>2, <3>3 DEF TookFailure
  <2>3. CASE ~Hears(s, x, m.to) /\ m.to \notin x.refs
    <3>1. ServerReceiveFailure(x, m) = Untold(Does(y, <<>>))
      BY <1>2, <1>5, <2>3, Zenon DEF ServerReceiveFailure
    <3>2. Returns(Reads(s, x, m, choice), y, <<>>, 0, <<>>)
      BY <2>1, <3>1, ToldFacts
    <3> QED  BY <1>3, <1>5, <2>3, <3>2, ReturnsFacts DEF TookFailure
  <2>4. CASE ~Hears(s, x, m.to) /\ m.to \in x.refs
    <3>1. ServerReceiveFailure(x, m) = Untold(Dies(y, "SendError"))
      BY <1>2, <1>5, <2>4, Zenon DEF ServerReceiveFailure
    <3>2. PICK z : Stops(y, z, "SendError") /\ Returns(Untold(Dies(y, "SendError")), z, <<>>, 0, <<>>)
      <4>1. y \in Session
        BY <1>3 DEF Shift
      <4>2. "SendError" \in Reasons
        BY DEF Reasons
      <4> QED  BY <4>1, <4>2, DiesEffect, Zenon
    <3>3. Stops(x, z, "SendError")
      BY <1>3, <3>2 DEF Shift, Stops
    <3> QED  BY <1>5, <2>1, <2>4, <3>1, <3>2, <3>3, ReturnsFacts DEF TookFailure
  <2> QED  BY <2>2, <2>3, <2>4
<1> QED  BY <1>4, <1>5 DEF Sides

\* The end of a channel.
LEMMA CloseEffect ==
    ASSUME NEW s \in Sides, NEW x \in Session, NEW m \in Message, NEW choice,
           NEW k, m.t = "CLOSE"
    PROVE  LET r == Reads(s, x, m, choice)
           IN  TookClose(s, x, m, r.ses, r.out) /\ NewTasks(k, r) = k
<1>0. /\ x.refs \ {m.to} \in SUBSET Nat /\ Without(x.chans, m.to) \in Tables
      /\ x.chans \in Tables
      /\ m.to \notin DOMAIN x.chans => Without(x.chans, m.to) = x.chans
  <2>1. x.chans \in Tables
    BY SessionFacts
  <2>2. m.to \notin DOMAIN x.chans => Without(x.chans, m.to) = x.chans
    <3>1. x.chans = [i \in DOMAIN x.chans |-> x.chans[i]]
      BY <2>1, TableFacts
    <3>2. m.to \notin DOMAIN x.chans => DOMAIN x.chans \ {m.to} = DOMAIN x.chans
      OBVIOUS
    <3> QED  BY <3>1, <3>2 DEF Without
  <2> QED  BY <2>1, <2>2, SessionFacts, TablesWithout
<1>1. CASE s = "client"
  <2> DEFINE e == EncClose(x, m.to)
  <2>1. Reads(s, x, m, choice) = ClientReceiveClose(x, m)
    BY <1>1, ClientHandlers DEF Reads
  <2>2. PICK z : z = [e.ses EXCEPT !.refs = @ \ {m.to}]
    OBVIOUS
  <2>3. ClientReceiveClose(x, m) = Untold(Does(z, e.out))
    BY <2>2, Zenon DEF ClientReceiveClose
  <2>4. Returns(Reads(s, x, m, choice), z, e.out, 0, <<>>)
    BY <2>1, <2>3, ToldFacts
  <2>5. ASSUME NEW f \in Tables, Same(x, e.ses), e.ses.chans = f
        PROVE  Shift(x, z, x.last, x.refs \ {m.to}, f)
    <3>1. PICK y : y = e.ses
      OBVIOUS
    <3>2. /\ y \in Session /\ y.last = x.last /\ y.refs = x.refs /\ y.chans = f
          /\ y.globals = x.globals /\ y.asked = x.asked /\ y.end = x.end
      BY <2>5, <3>1 DEF Same
    <3>3. z = [y EXCEPT !.refs = y.refs \ {m.to}]
      BY <2>2, <3>1, Zenon
    <3> QED  BY <1>0, <3>2, <3>3, Zenon DEF Session, Shift
  <2>6. CASE m.to \notin DOMAIN x.chans
    <3>1. PICK y : y = [x EXCEPT !.chans = Without(@, m.to)]
      OBVIOUS
    <3>2. Drops(x, y, m.to)
      BY <3>1, DropChan, Zenon
    <3>3. EncClose(x, m.to) = Does(y, <<>>)
      BY <2>6, <3>1, Zenon DEF EncClose, Byte, Does
    <3>4. e.ses = y /\ e.out = <<>>
      BY <3>3, DoesFacts
    <3>5. Same(x, e.ses) /\ e.ses.chans = x.chans
      BY <1>0, <2>6, <3>2, <3>4 DEF Drops
    <3> HIDE DEF e
    <3> QED  BY <1>0, <2>4, <2>5, <2>6, <3>4, <3>5, ReturnsFacts DEF TookClose
  <2>7. CASE m.to \in DOMAIN x.chans
    <3> DEFINE c == x.chans[m.to]
    <3>1. CASE c.pend > 0
      <4>1. PICK d : /\ Puts(x, e.ses, m.to, d) /\ e.out = <<>>
                     /\ Twin(c, d) /\ Flow(c, d) /\ Asks(c, d)
                     /\ d.peof = c.peof /\ d.pclose
        BY <2>7, <3>1, EncCloseEffect
      <4>2. m.to \in Nat /\ d \in Param
        BY <2>7, <4>1, <1>0, TableFacts DEF Twin
      <4>3. With(x.chans, m.to, d) \in Tables
        BY <4>2, <1>0, TablesWith
      <4> HIDE DEF e
      <4>4. Shift(x, z, x.last, x.refs \ {m.to}, With(x.chans, m.to, d))
        BY <4>1, <4>3, <2>5 DEF Puts
      <4> QED  BY <1>1, <2>4, <2>7, <3>1, <4>1, <4>4, ReturnsFacts DEF TookClose
    <3>2. CASE ~(c.pend > 0)
      <4>1. Drops(x, e.ses, m.to) /\ e.out = <<On(x, m.to, "CLOSE")>>
        BY <2>7, <3>2, EncCloseEffect
      <4> HIDE DEF e
      <4>2. Shift(x, z, x.last, x.refs \ {m.to}, Without(x.chans, m.to))
        BY <1>0, <4>1, <2>5 DEF Drops
      <4> QED  BY <1>1, <2>4, <2>7, <3>2, <4>1, <4>2, ReturnsFacts DEF TookClose
    <3> QED  BY <3>1, <3>2
  <2> QED  BY <2>6, <2>7
<1>2. CASE s = "server"
  <2>1. Reads(s, x, m, choice) = ServerReceiveClose(x, m)
    BY <1>2, ServerHandlers DEF Reads
  <2>2. PICK z : z = [x EXCEPT !.refs = @ \ {m.to}, !.chans = Without(@, m.to)]
    OBVIOUS
  <2>3. Shift(x, z, x.last, x.refs \ {m.to}, Without(x.chans, m.to))
    BY <1>0, <2>2, Zenon DEF Session, Shift
  <2>4. ServerReceiveClose(x, m) = Untold(Does(z, <<>>))
    BY <2>2, Zenon DEF ServerReceiveClose
  <2>5. Returns(Reads(s, x, m, choice), z, <<>>, 0, <<>>)
    BY <2>1, <2>4, ToldFacts
  <2> QED  BY <1>0, <1>2, <2>3, <2>5, ReturnsFacts DEF TookClose
<1> QED  BY <1>1, <1>2 DEF Sides

\* Data: the window that the session grants.
LEMMA DataEffect ==
    ASSUME NEW s \in Sides, NEW x \in Session, NEW m \in Message, NEW choice,
           NEW k, m.t = "DATA"
    PROVE  LET r == Reads(s, x, m, choice)
           IN  TookData(x, m, r.ses, r.out) /\ NewTasks(k, r) = k
<1>1. Reads(s, x, m, choice) = ReceiveData(s, x, m)
  BY ClientHandlers, ServerHandlers, AnyHandlers DEF Reads, Sides
<1>2. CASE m.to \notin DOMAIN x.chans
  <2>1. ReceiveData(s, x, m) = Untold(Does(x, <<>>))
    BY <1>2, Zenon DEF ReceiveData
  <2>2. Returns(Reads(s, x, m, choice), x, <<>>, 0, <<>>)
    BY <1>1, <2>1, ToldFacts
  <2> QED  BY <1>2, <2>2, ReturnsFacts DEF TookData
<1>3. CASE m.to \in DOMAIN x.chans
  <2> DEFINE a == AdjustWindowSize(x, m.to)
  <2>1. ReceiveData(s, x, m) = Untold(a)
    BY <1>3, Zenon DEF ReceiveData
  <2>2. Returns(Reads(s, x, m, choice), a.ses, a.out, 0, <<>>)
    BY <1>1, <2>1, UntoldFacts
  <2> DEFINE c == x.chans[m.to]
             own == IF c.own > 0 THEN c.own - 1 ELSE 0
  <2>3. PICK d : /\ Puts(x, a.ses, m.to, d) /\ Twin(c, d) /\ Ends(c, d) /\ Asks(c, d)
                 /\ d.win = c.win /\ d.pend = c.pend
                 /\ \/ /\ own < Window \div 2 /\ d.own = Window
                       /\ a.out = <<OnWith(x, m.to, "ADJUST", Window - own)>>
                       /\ Window - own \in Nat
                    \/ ~(own < Window \div 2) /\ d.own = own /\ a.out = <<>>
    BY <1>3, AdjustEffect
  <2> HIDE DEF a, own
  <2> QED  BY <1>3, <2>2, <2>3, ReturnsFacts DEF TookData, own
<1> QED  BY <1>2, <1>3

\* A window that is granted: a channel that is not known ends the session.
LEMMA GrantEffect ==
    ASSUME NEW s \in Sides, NEW x \in Session, NEW m \in Message, NEW choice,
           NEW k, m.t = "ADJUST"
    PROVE  LET r == Reads(s, x, m, choice)
           IN  TookGrant(x, m, r.ses, r.out) /\ NewTasks(k, r) = k
<1>1. Reads(s, x, m, choice) = ReceiveAdjust(s, x, m)
  BY ClientHandlers, ServerHandlers, AnyHandlers DEF Reads, Sides
<1>2. CASE m.to \notin DOMAIN x.chans
  <2>1. ReceiveAdjust(s, x, m) = Untold(Dies(x, "WrongChannel"))
    BY <1>2, Zenon DEF ReceiveAdjust
  <2>2. \E z : /\ Stops(x, z, "WrongChannel")
               /\ Returns(Untold(Dies(x, "WrongChannel")), z, <<>>, 0, <<>>)
    <3>1. "WrongChannel" \in Reasons
      BY DEF Reasons
    <3> QED  BY <3>1, DiesEffect, Zenon
  <2>3. PICK z : /\ Stops(x, z, "WrongChannel")
                 /\ Returns(Reads(s, x, m, choice), z, <<>>, 0, <<>>)
    BY <1>1, <2>1, <2>2
  <2> QED  BY <1>2, <2>3, ReturnsFacts DEF TookGrant
<1>3. CASE m.to \in DOMAIN x.chans
  <2> DEFINE c == x.chans[m.to]
             win == c.win + m.n
             b == [c EXCEPT !.win = win]
  <2>1. c \in Param /\ win \in Nat
    <3>1. m.n \in Nat
      BY DEF Message
    <3> QED  BY <1>3, <3>1, SessionFacts, TableFacts, ParamFacts
  <2>2. /\ Twin(c, b) /\ Ends(c, b) /\ Asks(c, b)
        /\ b.win = win /\ b.own = c.own /\ b.pend = c.pend
    BY <2>1, SetWin, Zenon
  <2>3. PICK y : y = [x EXCEPT !.chans[m.to] = b]
    OBVIOUS
  <2>4. Puts(x, y, m.to, b)
    <3>1. b \in Param
      BY <2>2, Zenon DEF Twin
    <3> QED  BY <1>3, <2>3, <3>1, SetChan, Zenon
  <2> DEFINE f == FlushPending(y, m.to)
  <2>5. ReceiveAdjust(s, x, m) = Untold(f)
    BY <1>3, <2>3, Zenon DEF ReceiveAdjust
  <2>6. Returns(Reads(s, x, m, choice), f.ses, f.out, 0, <<>>)
    BY <1>1, <2>5, UntoldFacts
  <2> DEFINE r == Reads(s, x, m, choice)
  <2>15. r.ses = f.ses /\ r.out = f.out /\ NewTasks(k, r) = k
    BY <2>6, ReturnsFacts
  <2> HIDE DEF b
  <2>7. y \in Session /\ m.to \in DOMAIN y.chans /\ y.chans[m.to] = b
    <3>1. y \in Session
      BY <2>4 DEF Puts, Same
    <3>2. DOMAIN y.chans = DOMAIN x.chans /\ y.chans[m.to] = b
      BY <1>3, <2>4, PutsFacts
    <3> QED  BY <1>3, <3>1, <3>2
  <2>8. \A t : On(y, m.to, t) = On(x, m.to, t)
    BY <2>2, <2>7 DEF On, Twin
  <2>9. \A out, n, eof, rest :
            Flushed(out, y, m.to, n, eof, rest) => Flushed(out, x, m.to, n, eof, rest)
    BY <2>8 DEF Flushed
  <2> DEFINE n == IF c.pend < win THEN c.pend ELSE win
  <2>10. n = IF b.pend < b.win THEN b.pend ELSE b.win
    BY <2>2
  <2> HIDE DEF n, f
  <2>11. \/ /\ n < b.pend /\ Flushed(f.out, y, m.to, n, FALSE, 0)
            /\ \E d : /\ Puts(y, f.ses, m.to, d)
                      /\ Twin(b, d) /\ Ends(b, d) /\ Asks(b, d)
                      /\ d.own = b.own /\ d.pend = b.pend - n /\ d.win = b.win - n
         \/ /\ n = b.pend /\ ~b.pclose /\ Flushed(f.out, y, m.to, n, b.peof, 0)
            /\ \E d : /\ Puts(y, f.ses, m.to, d)
                      /\ Twin(b, d) /\ Ends(b, d) /\ Asks(b, d)
                      /\ d.own = b.own /\ d.pend = 0 /\ d.win = b.win - n
         \/ /\ n = b.pend /\ b.pclose /\ Drops(y, f.ses, m.to)
            /\ Flushed(f.out, y, m.to, n, b.peof, 1)
            /\ f.out[Len(f.out)] = On(y, m.to, "CLOSE")
    BY <2>7, <2>10, FlushPendingEffect, ZenonT(60) DEF f
  <2>12. CASE /\ n < b.pend /\ Flushed(f.out, y, m.to, n, FALSE, 0)
              /\ \E d : /\ Puts(y, f.ses, m.to, d)
                        /\ Twin(b, d) /\ Ends(b, d) /\ Asks(b, d)
                        /\ d.own = b.own /\ d.pend = b.pend - n /\ d.win = b.win - n
    <3>1. PICK d : /\ Puts(y, f.ses, m.to, d)
                   /\ Twin(b, d) /\ Ends(b, d) /\ Asks(b, d)
                   /\ d.own = b.own /\ d.pend = b.pend - n /\ d.win = b.win - n
      BY <2>12
    <3>2. Puts(x, f.ses, m.to, d)
      BY <2>4, <3>1, PutsTwice
    <3>3. /\ Twin(c, d) /\ Ends(c, d) /\ Asks(c, d) /\ d.own = c.own
          /\ d.pend = c.pend - n /\ d.win = win - n
      BY <2>2, <3>1 DEF Twin, Ends, Asks
    <3>4. n < c.pend /\ Flushed(f.out, x, m.to, n, FALSE, 0)
      BY <2>2, <2>9, <2>12
    <3> QED  BY <1>3, <2>15, <3>2, <3>3, <3>4 DEF TookGrant, n
  <2>13. CASE /\ n = b.pend /\ ~b.pclose /\ Flushed(f.out, y, m.to, n, b.peof, 0)
              /\ \E d : /\ Puts(y, f.ses, m.to, d)
                        /\ Twin(b, d) /\ Ends(b, d) /\ Asks(b, d)
                        /\ d.own = b.own /\ d.pend = 0 /\ d.win = b.win - n
    <3>1. PICK d : /\ Puts(y, f.ses, m.to, d)
                   /\ Twin(b, d) /\ Ends(b, d) /\ Asks(b, d)
                   /\ d.own = b.own /\ d.pend = 0 /\ d.win = b.win - n
      BY <2>13
    <3>2. Puts(x, f.ses, m.to, d)
      BY <2>4, <3>1, PutsTwice
    <3>3. /\ Twin(c, d) /\ Ends(c, d) /\ Asks(c, d) /\ d.own = c.own
          /\ d.pend = 0 /\ d.win = win - n
      BY <2>2, <3>1 DEF Twin, Ends, Asks
    <3>4. n = c.pend /\ ~c.pclose /\ Flushed(f.out, x, m.to, n, c.peof, 0)
      BY <2>2, <2>9, <2>13 DEF Ends
    <3> QED  BY <1>3, <2>15, <3>2, <3>3, <3>4 DEF TookGrant, n
  <2>14. CASE /\ n = b.pend /\ b.pclose /\ Drops(y, f.ses, m.to)
              /\ Flushed(f.out, y, m.to, n, b.peof, 1)
              /\ f.out[Len(f.out)] = On(y, m.to, "CLOSE")
    <3>1. Drops(x, f.ses, m.to)
      BY <2>4, <2>14, PutThenDrop
    <3>2. n = c.pend /\ c.pclose /\ Flushed(f.out, x, m.to, n, c.peof, 1)
      BY <2>2, <2>9, <2>14 DEF Ends
    <3>3. f.out[Len(f.out)] = On(x, m.to, "CLOSE")
      BY <2>8, <2>14
    <3> QED  BY <1>3, <2>15, <3>1, <3>2, <3>3 DEF TookGrant, n
  <2> QED  BY <2>11, <2>12, <2>13, <2>14
<1> QED  BY <1>2, <1>3

LEMMA SetWanting ==
    ASSUME NEW x \in Session, NEW v \in BOOLEAN
    PROVE  LET z == [x EXCEPT !.wants = v]
           IN  Still(x, z) /\ z.chans = x.chans
BY Zenon DEF Session, Still, Shift

\* The answer of a session to a request for the agent.
LEMMA AgentEffect ==
    ASSUME NEW y \in Session, NEW m, m.agent, NEW choice \in BOOLEAN, NEW r,
           r = IF choice THEN RequestSuccess(y) ELSE RequestFailure(y)
    PROVE  Still(y, r.ses) /\ (r.out = <<>> \/ Astray(m, r.out))
<1> DEFINE o == <<[t |-> "RESULT", n |-> 0]>>
<1>1. PICK z : z = [y EXCEPT !.wants = FALSE]
  OBVIOUS
<1>2. Still(y, z)
  BY <1>1, SetWanting, Zenon
<1>3. r = Does(z, o) \/ r = Does(z, <<>>)
  BY <1>1, Zenon DEF RequestSuccess, RequestFailure
<1> HIDE DEF o
<1>4. r.ses = z /\ (r.out = o \/ r.out = <<>>)
  BY <1>3, DoesFacts
<1> QED  BY <1>2, <1>4 DEF Astray, o

LEMMA PutsStill ==
    ASSUME NEW x, NEW y, NEW z, NEW id, NEW d, Puts(x, y, id, d), Still(y, z)
    PROVE  Puts(x, z, id, d)
BY DEF Puts, Same, Still, Shift

LEMMA RequestEffect ==
    ASSUME NEW s \in Sides, NEW x \in Session, NEW m \in Message, NEW choice \in BOOLEAN,
           NEW k, m.t = "REQUEST", s = "server"
    PROVE  LET r == Reads(s, x, m, choice)
           IN  TookRequest(x, m, r.ses, r.out) /\ NewTasks(k, r) = k
<1>1. Reads(s, x, m, choice) = ReceiveRequest(x, m, choice)
  BY ServerHandlers DEF Reads
<1>4. m.agent \in BOOLEAN
  BY DEF Message
<1>2. CASE m.to \notin DOMAIN x.chans
  <2>1. CASE m.agent
    <3>1. PICK r : r = IF choice THEN RequestSuccess(x) ELSE RequestFailure(x)
      OBVIOUS
    <3>2. ReceiveRequest(x, m, choice) = Untold(r)
      BY <1>2, <2>1, <3>1, Zenon DEF ReceiveRequest
    <3>3. Still(x, r.ses) /\ (r.out = <<>> \/ Astray(m, r.out))
      BY <2>1, <3>1, AgentEffect
    <3>4. Returns(Reads(s, x, m, choice), r.ses, r.out, 0, <<>>)
      BY <1>1, <3>2, UntoldFacts
    <3> QED  BY <1>2, <3>3, <3>4, ReturnsFacts DEF TookRequest
  <2>2. CASE ~m.agent
    <3>1. ReceiveRequest(x, m, choice) = Untold(Does(x, <<>>))
      BY <1>2, <2>2, Zenon DEF ReceiveRequest
    <3>2. Returns(Reads(s, x, m, choice), x, <<>>, 0, <<>>)
      BY <1>1, <3>1, ToldFacts
    <3>3. Still(x, x)
      BY DEF Still, Shift
    <3> QED  BY <1>2, <3>2, <3>3, ReturnsFacts DEF TookRequest
  <2> QED  BY <1>4, <2>1, <2>2
<1>3. CASE m.to \in DOMAIN x.chans
  <2> DEFINE c == x.chans[m.to]
             b == [c EXCEPT !.wants = m.wants, !.asked = m.n]
  <2>1. c \in Param /\ m.wants \in BOOLEAN /\ m.n \in Nat
    <3>1. m.wants \in BOOLEAN /\ m.n \in Nat
      BY DEF Message
    <3> QED  BY <1>3, <3>1, SessionFacts, TableFacts
  <2>2. /\ Twin(c, b) /\ Flow(c, b) /\ Ends(c, b) /\ b.wants = m.wants /\ b.asked = m.n
    <3> HIDE DEF c
    <3> QED  BY <2>1, Zenon DEF Param, Twin, Flow, Ends
  <2>3. PICK y : y = [x EXCEPT !.chans[m.to] = b]
    OBVIOUS
  <2>4. Puts(x, y, m.to, b)
    <3>1. b \in Param
      BY <2>2, Zenon DEF Twin
    <3> QED  BY <1>3, <2>3, <3>1, SetChan, Zenon
  <2>8. CASE m.agent
    <3>1. PICK r : r = IF choice THEN RequestSuccess(y) ELSE RequestFailure(y)
      OBVIOUS
    <3>2. ReceiveRequest(x, m, choice) = Untold(r)
      BY <1>3, <2>3, <2>8, <3>1, Zenon DEF ReceiveRequest
    <3> HIDE DEF b
    <3>3. y \in Session
      BY <2>4 DEF Puts, Same
    <3>4. Still(y, r.ses) /\ (r.out = <<>> \/ Astray(m, r.out))
      BY <2>8, <3>1, <3>3, AgentEffect
    <3>5. Puts(x, r.ses, m.to, b)
      BY <2>4, <3>4, PutsStill
    <3>6. Returns(Reads(s, x, m, choice), r.ses, r.out, 0, <<>>)
      BY <1>1, <3>2, UntoldFacts
    <3> QED  BY <1>3, <2>2, <3>4, <3>5, <3>6, ReturnsFacts DEF TookRequest
  <2>5. ~m.agent => ReceiveRequest(x, m, choice) = Untold(IF choice THEN Answer(y, m.to) ELSE Does(y, <<>>))
    BY <1>3, <2>3, Zenon DEF ReceiveRequest
  <2> HIDE DEF b
  <2>6. CASE ~m.agent /\ ~choice
    <3>1. Reads(s, x, m, choice) = Untold(Does(y, <<>>))
      BY <1>1, <2>5, <2>6
    <3>2. Returns(Reads(s, x, m, choice), y, <<>>, 0, <<>>)
      BY <3>1, ToldFacts
    <3> QED  BY <1>3, <2>2, <2>4, <3>2, ReturnsFacts DEF TookRequest
  <2>7. CASE ~m.agent /\ choice
    <3> DEFINE a == Answer(y, m.to)
    <3>1. Reads(s, x, m, choice) = Untold(a)
      BY <1>1, <2>5, <2>7
    <3>2. Returns(Reads(s, x, m, choice), a.ses, a.out, 0, <<>>)
      BY <3>1, UntoldFacts
    <3>3. y \in Session /\ m.to \in DOMAIN y.chans /\ y.chans[m.to] = b
      <4>1. y \in Session
        BY <2>4 DEF Puts, Same
      <4>2. DOMAIN y.chans = DOMAIN x.chans /\ y.chans[m.to] = b
        BY <1>3, <2>4, PutsFacts
      <4> QED  BY <1>3, <4>1, <4>2
    <3>4. \A t, n : OnWith(y, m.to, t, n) = OnWith(x, m.to, t, n)
      BY <2>2, <3>3 DEF OnWith, Twin
    <3>5. \/ ~b.wants /\ a.ses = y /\ a.out = <<>>
          \/ /\ b.wants /\ a.out = <<OnWith(y, m.to, "ANSWER", b.asked)>>
             /\ \E d : /\ Puts(y, a.ses, m.to, d) /\ Twin(b, d) /\ Flow(b, d) /\ Ends(b, d)
                       /\ ~d.wants /\ d.asked = b.asked
      BY <3>3, AnswerEffect
    <3> HIDE DEF a
    <3>6. CASE ~b.wants /\ a.ses = y /\ a.out = <<>>
      BY <1>3, <2>2, <2>4, <3>2, <3>6, ReturnsFacts DEF TookRequest
    <3>7. CASE /\ b.wants /\ a.out = <<OnWith(y, m.to, "ANSWER", b.asked)>>
               /\ \E d : /\ Puts(y, a.ses, m.to, d) /\ Twin(b, d) /\ Flow(b, d) /\ Ends(b, d)
                         /\ ~d.wants /\ d.asked = b.asked
      <4>1. PICK d : /\ Puts(y, a.ses, m.to, d) /\ Twin(b, d) /\ Flow(b, d) /\ Ends(b, d)
                     /\ ~d.wants /\ d.asked = b.asked
        BY <3>7
      <4>2. Puts(x, a.ses, m.to, d)
        BY <2>4, <4>1, PutsTwice
      <4>3. Twin(c, d) /\ Flow(c, d) /\ Ends(c, d) /\ ~d.wants /\ d.asked = m.n
        BY <2>2, <4>1 DEF Twin, Flow, Ends
      <4>4. m.wants /\ a.out = <<OnWith(x, m.to, "ANSWER", m.n)>>
        BY <2>2, <3>4, <3>7
      <4> QED  BY <1>3, <3>2, <4>2, <4>3, <4>4, ReturnsFacts DEF TookRequest
    <3> QED  BY <3>5, <3>6, <3>7
  <2> QED  BY <1>4, <2>6, <2>7, <2>8
<1> QED  BY <1>2, <1>3

\* The messages that concern no channel.
LEMMA OtherEffects ==
    ASSUME NEW s \in Sides, NEW x \in Session, NEW m \in Message, NEW choice
    PROVE  LET r == Reads(s, x, m, choice)
           IN  /\ m.t = "EOF" => Returns(r, x, <<>>, 0, <<>>)
               /\ m.t = "GLOBAL" =>
                     \E z, out : Returns(r, z, out, 0, <<>>) /\ TookGlobal(s, x, m, z, out)
               /\ m.t = "RESULT" =>
                     \E z : /\ Returns(r, z, <<>>, 0, <<>>)
                            /\ Queues(x, z, IF x.globals = <<>> THEN <<>> ELSE Tail(x.globals),
                                      x.asked)
               /\ m.t = "DISCONNECT" =>
                     \E z : Stops(x, z, "disconnected") /\ Returns(r, z, <<>>, 0, <<>>)
<1> DEFINE r == Reads(s, x, m, choice)
<1>1. ASSUME m.t = "EOF"
      PROVE  Returns(r, x, <<>>, 0, <<>>)
  <2>1. r = Untold(Does(x, <<>>))
    BY <1>1, ClientHandlers, ServerHandlers, AnyHandlers DEF Reads, Sides
  <2> QED  BY <2>1, ToldFacts
<1>2. ASSUME m.t = "GLOBAL"
      PROVE  \E z, out : Returns(r, z, out, 0, <<>>) /\ TookGlobal(s, x, m, z, out)
  <2> DEFINE o == <<[t |-> "RESULT", n |-> m.n]>>
  <2>1. CASE s = "client"
    <3>1. r = ClientReceiveGlobal(x, m)
      BY <1>2, <2>1, ClientHandlers DEF Reads
    <3>2. \/ r = Untold(Does(x, o))
          \/ m.kind = "keepalive" /\ ~m.wants /\ r = Untold(Does(x, <<>>))
      BY <3>1, Zenon DEF ClientReceiveGlobal
    <3>3. Still(x, x)
      BY DEF Still, Shift
    <3>4. CASE r = Untold(Does(x, o))
      <4>1. Returns(r, x, o, 0, <<>>)
        BY <3>4, ToldFacts
      <4> QED  BY <3>3, <4>1 DEF TookGlobal
    <3>5. CASE m.kind = "keepalive" /\ ~m.wants /\ r = Untold(Does(x, <<>>))
      <4>1. Returns(r, x, <<>>, 0, <<>>)
        BY <3>5, ToldFacts
      <4> QED  BY <2>1, <3>3, <3>5, <4>1 DEF TookGlobal
    <3> QED  BY <3>2, <3>4, <3>5
  <2>2. CASE s = "server"
    <3>1. r = ServerReceiveGlobal(x, m)
      BY <1>2, <2>2, ServerHandlers DEF Reads
    <3>2. PICK z : z = [x EXCEPT !.wants = m.wants]
      OBVIOUS
    <3>3. r = Untold(Does(z, o))
      BY <3>1, <3>2, Zenon DEF ServerReceiveGlobal
    <3>4. m.wants \in BOOLEAN
      BY <1>2 DEF Message
    <3>5. Still(x, z)
      BY <3>2, <3>4, SetWanting, Zenon
    <3>6. Returns(r, z, o, 0, <<>>)
      BY <3>3, ToldFacts
    <3> QED  BY <3>5, <3>6 DEF TookGlobal
  <2> QED  BY <2>1, <2>2 DEF Sides
<1>3. ASSUME m.t = "RESULT"
      PROVE  \E z : /\ Returns(r, z, <<>>, 0, <<>>)
                    /\ Queues(x, z, IF x.globals = <<>> THEN <<>> ELSE Tail(x.globals), x.asked)
  <2> DEFINE g == IF x.globals = <<>> THEN <<>> ELSE Tail(x.globals)
  <2>1. r = ReceiveResult(s, x, m)
    BY <1>3, ClientHandlers, ServerHandlers, AnyHandlers DEF Reads, Sides
  <2>2. g \in Seq(Nat)
    BY SessionFacts
  <2>3. PICK z : z = [x EXCEPT !.globals = IF @ = <<>> THEN @ ELSE Tail(@)]
    OBVIOUS
  <2>4. z = [x EXCEPT !.globals = g]
    BY <2>3, Zenon
  <2>5. Queues(x, z, g, x.asked)
    <3> HIDE DEF g
    <3> QED  BY <2>2, <2>4, Zenon DEF Session, Queues
  <2>6. r = Untold(Does(z, <<>>))
    BY <2>1, <2>3, Zenon DEF ReceiveResult
  <2> QED  BY <2>5, <2>6, ToldFacts
<1>4. ASSUME m.t = "DISCONNECT"
      PROVE  \E z : Stops(x, z, "disconnected") /\ Returns(r, z, <<>>, 0, <<>>)
  <2>1. r = Untold(Dies(x, "disconnected"))
    BY <1>4, ClientHandlers, ServerHandlers, AnyHandlers DEF Reads, Sides
  <2>2. \E z : /\ Stops(x, z, "disconnected")
               /\ Returns(Untold(Dies(x, "disconnected")), z, <<>>, 0, <<>>)
    <3>1. "disconnected" \in Reasons
      BY DEF Reasons
    <3> QED  BY <3>1, DiesEffect, Zenon
  <2> QED  BY <2>1, <2>2
<1> QED  BY <1>1, <1>2, <1>3, <1>4

LEMMA AnswerRead ==
    ASSUME NEW x \in Session, NEW m \in Message, NEW choice, m.t = "ANSWER"
    PROVE  Returns(Reads("client", x, m, choice), x, <<>>, m.to,
                   IF Hears("client", x, m.to)
                   THEN <<[task["client"][m.to] EXCEPT !.answers = Append(@, m.n)]>>
                   ELSE <<>>)
<1> DEFINE t == IF Hears("client", x, m.to)
                THEN <<[task["client"][m.to] EXCEPT !.answers = Append(@, m.n)]>>
                ELSE <<>>
<1>1. Reads("client", x, m, choice) = ReceiveAnswer(x, m)
  BY ClientHandlers DEF Reads
<1>2. ReceiveAnswer(x, m) = Told(Does(x, <<>>), m.to, t)
  BY Zenon DEF ReceiveAnswer
<1> HIDE DEF t
<1>3. Returns(Reads("client", x, m, choice), x, <<>>, m.to, t)
  BY <1>1, <1>2, ToldFacts
<1> QED  BY <1>3 DEF t

-----------------------------------------------------------------------------
\* Tables of tasks.

LEMMA TasksFacts ==
    ASSUME NEW k \in Tasks
    PROVE  /\ DOMAIN k \subseteq Nat
           /\ \A i \in DOMAIN k : k[i] \in OneTask
           /\ k = [i \in DOMAIN k |-> k[i]]
BY DEF Tasks

LEMMA TasksWith ==
    ASSUME NEW k \in Tasks, NEW id \in Nat, NEW e \in OneTask
    PROVE  With(k, id, e) \in Tasks
<1>1. With(k, id, e) \in [DOMAIN k \cup {id} -> OneTask]
  BY TasksFacts DEF With
<1>2. DOMAIN k \cup {id} \in SUBSET Nat
  BY TasksFacts
<1> QED  BY <1>1, <1>2 DEF Tasks

LEMMA TaskType == \A st \in States : Task(st) \in OneTask /\ Task(st).st = st
BY DEF Task, OneTask

LEMMA TaskExcept ==
    ASSUME NEW k \in Tasks, NEW id \in DOMAIN k, NEW e
    PROVE  [k EXCEPT ![id] = e] = With(k, id, e)
<1>1. DOMAIN k \cup {id} = DOMAIN k /\ k = [i \in DOMAIN k |-> k[i]]
  BY TasksFacts
<1> QED  BY <1>1 DEF With

LEMMA OneTaskFacts ==
    ASSUME NEW e \in OneTask
    PROVE  e.st \in States /\ e.eof \in BOOLEAN /\ e.asks \in Nat /\ e.answers \in Seq(Nat)
BY DEF OneTask

\* The task of channel id: it is another one in its state, its end or its count.
Tells(k, k2, id, st, eof, asks) ==
    \E e \in OneTask : /\ k2 = With(k, id, e) /\ e.st = st /\ e.eof = eof /\ e.asks = asks
                       /\ e.answers = k[id].answers

LEMMA SetState ==
    ASSUME NEW k \in Tasks, NEW id \in DOMAIN k, NEW st \in States, NEW k2,
           k2 = [k EXCEPT ![id].st = st]
    PROVE  Tells(k, k2, id, st, k[id].eof, k[id].asks)
<1> DEFINE e == [k[id] EXCEPT !.st = st]
<1>1. k[id] \in OneTask
  BY TasksFacts
<1>2. /\ e \in OneTask /\ e.st = st /\ e.eof = k[id].eof
      /\ e.asks = k[id].asks /\ e.answers = k[id].answers
  BY <1>1, Zenon DEF OneTask
<1>3. k2 = [k EXCEPT ![id] = e]
  BY Zenon
<1>4. k2 = With(k, id, e)
  <2> HIDE DEF e
  <2> QED  BY <1>3, TaskExcept, Zenon
<1> HIDE DEF e
<1> QED  BY <1>2, <1>4 DEF Tells

LEMMA SetEof ==
    ASSUME NEW k \in Tasks, NEW id \in DOMAIN k, NEW k2,
           k2 = [k EXCEPT ![id].eof = TRUE]
    PROVE  Tells(k, k2, id, k[id].st, TRUE, k[id].asks)
<1> DEFINE e == [k[id] EXCEPT !.eof = TRUE]
<1>1. k[id] \in OneTask
  BY TasksFacts
<1>2. /\ e \in OneTask /\ e.st = k[id].st /\ e.eof = TRUE
      /\ e.asks = k[id].asks /\ e.answers = k[id].answers
  BY <1>1, Zenon DEF OneTask
<1>3. k2 = [k EXCEPT ![id] = e]
  BY Zenon
<1>4. k2 = With(k, id, e)
  <2> HIDE DEF e
  <2> QED  BY <1>3, TaskExcept, Zenon
<1> HIDE DEF e
<1> QED  BY <1>2, <1>4 DEF Tells

LEMMA SetAsks ==
    ASSUME NEW k \in Tasks, NEW id \in DOMAIN k, NEW n \in Nat, NEW k2,
           k2 = [k EXCEPT ![id].asks = n]
    PROVE  Tells(k, k2, id, k[id].st, k[id].eof, n)
<1> DEFINE e == [k[id] EXCEPT !.asks = n]
<1>1. k[id] \in OneTask
  BY TasksFacts
<1>2. /\ e \in OneTask /\ e.st = k[id].st /\ e.eof = k[id].eof
      /\ e.asks = n /\ e.answers = k[id].answers
  BY <1>1, Zenon DEF OneTask
<1>3. k2 = [k EXCEPT ![id] = e]
  BY Zenon
<1>4. k2 = With(k, id, e)
  <2> HIDE DEF e
  <2> QED  BY <1>3, TaskExcept, Zenon
<1> HIDE DEF e
<1> QED  BY <1>2, <1>4 DEF Tells

LEMMA SetAnswers ==
    ASSUME NEW a \in OneTask, NEW n \in Nat
    PROVE  \E e : /\ e \in OneTask /\ [a EXCEPT !.answers = Append(@, n)] = e
                  /\ e.st = a.st /\ e.eof = a.eof /\ e.asks = a.asks
                  /\ e.answers = Append(a.answers, n)
<1> DEFINE q == Append(a.answers, n)
           e == [a EXCEPT !.answers = q]
<1>1. q \in Seq(Nat)
  BY OneTaskFacts
<1>2. [a EXCEPT !.answers = Append(@, n)] = e
  BY Zenon
<1>3. e \in OneTask /\ e.st = a.st /\ e.eof = a.eof /\ e.asks = a.asks /\ e.answers = q
  <2> HIDE DEF q
  <2> QED  BY <1>1, Zenon DEF OneTask
<1> QED  BY <1>2, <1>3, Zenon

-----------------------------------------------------------------------------
\* The kinds of message that each side sends.
Kinds(s) == {"OPEN", "CONFIRM", "FAILURE", "DATA", "ADJUST", "EOF", "CLOSE", "GLOBAL",
             "RESULT", "DISCONNECT"} \cup {IF s = "client" THEN "REQUEST" ELSE "ANSWER"}
Typed ==
    /\ ses \in [Sides -> Session] /\ task \in [Sides -> Tasks]
    /\ wire \in [Sides -> Seq(Message)]
    /\ left \in Lefts
    /\ \A s \in Sides : \A i \in DOMAIN wire[s] : wire[s][i].t \in Kinds(s)
    /\ \A s \in Sides : ~Alive(s) => wire[Peer(s)] = <<>> /\ ses[s].chans = <<>>

LEMMA PeerFacts ==
    \A s \in Sides : /\ Peer(s) \in Sides /\ Peer(s) # s /\ Peer(Peer(s)) = s
                     /\ \A u \in Sides : u = s \/ u = Peer(s)
BY DEF Sides, Peer

LEMMA ReadsTook ==
    ASSUME Typed, NEW s \in Sides, NEW m \in Message, m.t \in Kinds(Peer(s)),
           NEW choice \in BOOLEAN
    PROVE  LET r == Reads(s, ses[s], m, choice)
           IN  Took(s, ses[s], task[s], m, r.ses, r.out, NewTasks(task[s], r))
<1> DEFINE x == ses[s]
           k == task[s]
           r == Reads(s, x, m, choice)
           k2 == NewTasks(k, r)
<1>1. x \in Session /\ k \in Tasks
  BY DEF Typed
<1>2. Hears(s, x, m.to) <=> Heard(x, k, m.to)
  BY DEF Hears, Heard
<1>4. \A id, z, out : Returns(r, z, out, id, <<>>) => r.ses = z /\ r.out = out /\ k2 = k
  BY ReturnsFacts
<1> HIDE DEF x, k, k2, r
<1>5. CASE m.t = "OPEN"
  <2>1. TookOpen(s, x, k, m, r.ses, r.out, k2)
    BY <1>1, <1>5, OpenEffect DEF r, k2
  <2> QED  BY <1>5, <2>1 DEF Took, x, k, k2, r
<1>6. CASE m.t = "CONFIRM"
  <2>1. TookConfirm(x, k, m, r.ses, r.out, k2)
    BY <1>1, <1>2, <1>6, ConfirmEffect DEF r, k2
  <2> QED  BY <1>6, <2>1 DEF Took, x, k, k2, r
<1>7. CASE m.t = "FAILURE"
  <2>1. TookFailure(s, x, k, m, r.ses, r.out, k2)
    BY <1>1, <1>2, <1>7, FailureEffect DEF r, k2
  <2> QED  BY <1>7, <2>1 DEF Took, x, k, k2, r
<1>8. CASE m.t = "CLOSE"
  <2>1. TookClose(s, x, m, r.ses, r.out) /\ k2 = k
    BY <1>1, <1>8, CloseEffect DEF r, k2
  <2> QED  BY <1>8, <2>1 DEF Took, x, k, k2, r
<1>9. CASE m.t = "DATA"
  <2>1. TookData(x, m, r.ses, r.out) /\ k2 = k
    BY <1>1, <1>9, DataEffect DEF r, k2
  <2> QED  BY <1>9, <2>1 DEF Took, x, k, k2, r
<1>10. CASE m.t = "ADJUST"
  <2>1. TookGrant(x, m, r.ses, r.out) /\ k2 = k
    BY <1>1, <1>10, GrantEffect DEF r, k2
  <2> QED  BY <1>10, <2>1 DEF Took, x, k, k2, r
<1>11. CASE m.t = "REQUEST"
  <2>1. s = "server"
    BY <1>11 DEF Kinds, Peer, Sides
  <2>2. TookRequest(x, m, r.ses, r.out) /\ k2 = k
    BY <1>1, <1>11, <2>1, RequestEffect DEF r, k2
  <2> QED  BY <1>11, <2>1, <2>2 DEF Took, x, k, k2, r
<1>12. CASE m.t = "ANSWER"
  <2>1. s = "client"
    BY <1>12 DEF Kinds, Peer, Sides
  <2>2. CASE ~Heard(x, k, m.to)
    <3>1. Returns(r, x, <<>>, m.to, <<>>)
      BY <1>1, <1>2, <1>12, <2>1, <2>2, AnswerRead DEF r
    <3>2. TookAnswer(x, k, m, r.ses, r.out, k2)
      BY <1>4, <2>2, <3>1 DEF TookAnswer
    <3> QED  BY <1>12, <2>1, <3>2 DEF Took, x, k, k2, r
  <2>3. CASE Heard(x, k, m.to)
    <3>1. k[m.to] \in OneTask /\ m.n \in Nat
      BY <1>1, <1>12, <2>3, TasksFacts DEF Heard, Message
    <3>2. PICK e : /\ e \in OneTask /\ [k[m.to] EXCEPT !.answers = Append(@, m.n)] = e
                   /\ e.st = k[m.to].st /\ e.eof = k[m.to].eof /\ e.asks = k[m.to].asks
                   /\ e.answers = Append(k[m.to].answers, m.n)
      BY <3>1, SetAnswers
    <3>3. Returns(r, x, <<>>, m.to,
                  <<[task["client"][m.to] EXCEPT !.answers = Append(@, m.n)]>>)
      BY <1>1, <1>2, <1>12, <2>1, <2>3, AnswerRead, Zenon DEF r
    <3>4. Returns(r, x, <<>>, m.to, <<e>>)
      BY <2>1, <3>2, <3>3, Zenon DEF k
    <3>5. e \in OneTask /\ k2 = With(k, m.to, e) /\ r.ses = x /\ r.out = <<>>
      BY <3>2, <3>4, ReturnsTask DEF k2
    <3>6. /\ e.st = k[m.to].st /\ e.eof = k[m.to].eof /\ e.asks = k[m.to].asks
          /\ e.answers = Append(k[m.to].answers, m.n)
      BY <3>2, Zenon
    <3>7. TookAnswer(x, k, m, r.ses, r.out, k2)
      BY <2>3, <3>5, <3>6 DEF TookAnswer
    <3> QED  BY <1>12, <2>1, <3>7 DEF Took, x, k, k2, r
  <2> QED  BY <2>2, <2>3
<1>13. CASE m.t = "EOF"
  <2>1. r.ses = x /\ r.out = <<>> /\ k2 = k
    BY <1>1, <1>4, <1>13, OtherEffects DEF r
  <2> QED  BY <1>13, <2>1 DEF Took, x, k, k2, r
<1>14. CASE m.t = "GLOBAL"
  <2>1. TookGlobal(s, x, m, r.ses, r.out) /\ k2 = k
    <3>1. PICK z, out : Returns(r, z, out, 0, <<>>) /\ TookGlobal(s, x, m, z, out)
      BY <1>1, <1>14, OtherEffects DEF r
    <3> QED  BY <1>4, <3>1
  <2> QED  BY <1>14, <2>1 DEF Took, x, k, k2, r
<1>15. CASE m.t = "RESULT"
  <2>1. TookResult(x, r.ses, r.out) /\ k2 = k
    BY <1>1, <1>4, <1>15, OtherEffects DEF r, TookResult
  <2> QED  BY <1>15, <2>1 DEF Took, x, k, k2, r
<1>16. CASE m.t = "DISCONNECT"
  <2>1. Stops(x, r.ses, "disconnected") /\ r.out = <<>> /\ k2 = k
    BY <1>1, <1>4, <1>16, OtherEffects DEF r
  <2> QED  BY <1>16, <2>1 DEF Took, x, k, k2, r
<1>17. m.t \in Kinds("client") \cup Kinds("server")
  BY DEF Kinds, Peer, Sides
<1> QED  BY <1>5, <1>6, <1>7, <1>8, <1>9, <1>10, <1>11, <1>12, <1>13, <1>14, <1>15, <1>16, <1>17
         DEF Kinds

-----------------------------------------------------------------------------
\* What the tasks do, in the same terms.

LEMMA StillSelf == \A x \in Session : Still(x, x)
BY DEF Still, Shift

LEMMA StillWithout ==
    ASSUME NEW x \in Session, NEW z, NEW id, id \notin DOMAIN x.chans, Drops(x, z, id)
    PROVE  Still(x, z)
<1>1. x.chans = [i \in DOMAIN x.chans |-> x.chans[i]]
  BY SessionFacts, TableFacts
<1>2. DOMAIN x.chans \ {id} = DOMAIN x.chans
  OBVIOUS
<1>3. Without(x.chans, id) = x.chans
  BY <1>1, <1>2 DEF Without
<1> QED  BY <1>3 DEF Drops, Same, Still, Shift

DidOpen(s, x, k, n, z, out, k2) ==
    LET id == x.last + 1
    IN  /\ Shift(x, z, id, x.refs \cup {id}, With(x.chans, id, Params(<<s, n>>, 0, 0)))
        /\ out = <<[t |-> "OPEN", from |-> id, ch |-> <<s, n>>]>>
        /\ k2 = With(k, id, Task("wait"))

DidGiveUp(x, k, id, z, out, k2) ==
    /\ k[id].st = "wait" /\ z = x /\ out = <<>>
    /\ Tells(k, k2, id, "quit", k[id].eof, k[id].asks)

DidData(x, k, id, z, out, k2) ==
    /\ k[id].st = "held" /\ ~k[id].eof /\ k2 = k
    /\ \/ id \notin DOMAIN x.chans /\ z = x /\ out = <<>>
       \/ /\ id \in DOMAIN x.chans
          /\ \E d : Puts(x, z, id, d) /\ Sends(x, id, d, out)

DidEof(s, x, k, id, z, out, k2) ==
    /\ k[id].st = "held" /\ ~k[id].eof /\ Tells(k, k2, id, "held", TRUE, k[id].asks)
    /\ \/ id \notin DOMAIN x.chans /\ z = x /\ out = <<>>
       \/ /\ id \in DOMAIN x.chans /\ s = "client" /\ x.chans[id].pend > 0 /\ out = <<>>
          /\ \E d : LET c == x.chans[id]
                    IN  /\ Puts(x, z, id, d) /\ Twin(c, d) /\ Flow(c, d) /\ Asks(c, d)
                        /\ d.peof /\ d.pclose = c.pclose
       \/ /\ id \in DOMAIN x.chans /\ (s = "server" \/ ~(x.chans[id].pend > 0))
          /\ z = x /\ out = <<On(x, id, "EOF")>>

DidClose(s, x, k, id, z, out, k2) ==
    /\ k[id].st = "held" /\ Tells(k, k2, id, "closed", k[id].eof, k[id].asks)
    /\ \/ id \notin DOMAIN x.chans /\ Still(x, z) /\ out = <<>>
       \/ /\ id \in DOMAIN x.chans /\ s = "client" /\ x.chans[id].pend > 0 /\ out = <<>>
          /\ \E d : LET c == x.chans[id]
                    IN  /\ Puts(x, z, id, d) /\ Twin(c, d) /\ Flow(c, d) /\ Asks(c, d)
                        /\ d.peof = c.peof /\ d.pclose
       \/ /\ id \in DOMAIN x.chans /\ s = "client" /\ ~(x.chans[id].pend > 0)
          /\ Drops(x, z, id) /\ out = <<On(x, id, "CLOSE")>>
       \/ /\ id \in DOMAIN x.chans /\ s = "server"
          /\ z = x /\ out = <<On(x, id, "CLOSE")>>

DidRequest(x, k, id, wants, agent, z, out, k2) ==
    LET n == k[id].asks + 1
    IN  /\ k[id].st = "held" /\ z = x
        /\ Tells(k, k2, id, "held", k[id].eof, IF wants THEN n ELSE k[id].asks)
        /\ \/ id \notin DOMAIN x.chans /\ out = <<>>
           \/ /\ id \in DOMAIN x.chans
              /\ out = <<[t |-> "REQUEST", to |-> x.chans[id].peer, ch |-> x.chans[id].ch,
                          wants |-> wants, agent |-> agent, n |-> n]>>

DidAnswer(x, k, id, z, out, k2) ==
    /\ k[id].st = "held" /\ k2 = k
    /\ \/ z = x /\ out = <<>>
       \/ /\ id \in DOMAIN x.chans /\ x.chans[id].wants
          /\ out = <<OnWith(x, id, "ANSWER", x.chans[id].asked)>>
          /\ \E d : LET c == x.chans[id]
                    IN  /\ Puts(x, z, id, d) /\ Twin(c, d) /\ Flow(c, d) /\ Ends(c, d)
                        /\ ~d.wants /\ d.asked = c.asked

DidGlobal(s, x, k, z, out, k2) ==
    LET n == x.asked + 1
    IN  /\ Queues(x, z, Append(x.globals, n), n) /\ k2 = k
        /\ \E kind \in {"forward", "keepalive"}, wants \in BOOLEAN :
              /\ s = "server" => wants
              /\ out = <<[t |-> "GLOBAL", n |-> n, kind |-> kind, wants |-> wants]>>

DidNoReply(x, k, z, out, k2) ==
    /\ z = x /\ k2 = k
    /\ out = <<[t |-> "GLOBAL", n |-> 0, kind |-> "forward", wants |-> FALSE]>>

Did(s, x, k, n, z, out, k2) ==
    \/ DidOpen(s, x, k, n, z, out, k2)
    \/ DidGlobal(s, x, k, z, out, k2)
    \/ DidNoReply(x, k, z, out, k2)
    \/ Stops(x, z, "left") /\ out = <<[t |-> "DISCONNECT"]>> /\ k2 = k
    \/ Stops(x, z, "eof") /\ out = <<>> /\ k2 = k
    \/ \E id \in DOMAIN k :
          \/ DidGiveUp(x, k, id, z, out, k2)
          \/ DidData(x, k, id, z, out, k2)
          \/ DidEof(s, x, k, id, z, out, k2)
          \/ DidClose(s, x, k, id, z, out, k2)
          \/ /\ s = "client"
             /\ \E wants, agent \in BOOLEAN : DidRequest(x, k, id, wants, agent, z, out, k2)
          \/ s = "server" /\ DidAnswer(x, k, id, z, out, k2)

\* The step of one side.
Stepped(s, z, out, k2, w2) ==
    /\ ses' = [ses EXCEPT ![s] = z]
    /\ task' = [task EXCEPT ![s] = k2]
    /\ wire' = [wire EXCEPT ![s] = Written(s, out), ![Peer(s)] = w2]

LEMMA DataDid ==
    ASSUME NEW x \in Session, NEW k, NEW id, NEW len \in Nat, k[id].st = "held", ~k[id].eof
    PROVE  DidData(x, k, id, EncData(x, id, len).ses, EncData(x, id, len).out, k)
<1>1. CASE id \notin DOMAIN x.chans
  <2>1. EncData(x, id, len) = Does(x, <<>>)
    BY <1>1, Zenon DEF EncData
  <2> QED  BY <1>1, <2>1, DoesFacts DEF DidData
<1>2. CASE id \in DOMAIN x.chans
  BY <1>2, EncDataEffect DEF DidData
<1> QED  BY <1>1, <1>2

LEMMA EofDid ==
    ASSUME NEW s \in Sides, NEW x \in Session, NEW k, NEW k2, NEW id,
           k[id].st = "held", ~k[id].eof, Tells(k, k2, id, "held", TRUE, k[id].asks)
    PROVE  LET r == IF s = "client" THEN EncEof(x, id) ELSE Byte(x, id, "EOF")
           IN  DidEof(s, x, k, id, r.ses, r.out, k2)
<1> DEFINE r == IF s = "client" THEN EncEof(x, id) ELSE Byte(x, id, "EOF")
<1> HIDE DEF r
<1>1. CASE id \notin DOMAIN x.chans
  <2>1. r = Does(x, <<>>)
    BY <1>1, Zenon DEF r, EncEof, Byte
  <2>2. r.ses = x /\ r.out = <<>>
    BY <2>1, DoesFacts
  <2>3. DidEof(s, x, k, id, r.ses, r.out, k2)
    BY <1>1, <2>2 DEF DidEof
  <2> QED  BY <2>3 DEF r
<1>2. CASE id \in DOMAIN x.chans /\ s = "client" /\ x.chans[id].pend > 0
  <2>1. r = EncEof(x, id)
    BY <1>2 DEF r
  <2>2. DidEof(s, x, k, id, r.ses, r.out, k2)
    BY <1>2, <2>1, EncEofEffect DEF DidEof
  <2> QED  BY <2>2 DEF r
<1>3. CASE id \in DOMAIN x.chans /\ (s = "server" \/ ~(x.chans[id].pend > 0))
  <2>1. r = Does(x, <<On(x, id, "EOF")>>)
    <3>1. s = "client" \/ s = "server"
      BY DEF Sides
    <3>2. "server" # "client"
      OBVIOUS
    <3> QED  BY <1>3, <3>1, <3>2, Zenon DEF r, EncEof, Byte
  <2>2. r.ses = x /\ r.out = <<On(x, id, "EOF")>>
    BY <2>1, DoesFacts
  <2>3. DidEof(s, x, k, id, r.ses, r.out, k2)
    BY <1>3, <2>2 DEF DidEof
  <2> QED  BY <2>3 DEF r
<1> QED  BY <1>1, <1>2, <1>3 DEF Sides

LEMMA CloseDid ==
    ASSUME NEW s \in Sides, NEW x \in Session, NEW k, NEW k2, NEW id,
           k[id].st = "held", Tells(k, k2, id, "closed", k[id].eof, k[id].asks)
    PROVE  LET r == IF s = "client" THEN EncClose(x, id) ELSE Byte(x, id, "CLOSE")
           IN  DidClose(s, x, k, id, r.ses, r.out, k2)
<1> DEFINE r == IF s = "client" THEN EncClose(x, id) ELSE Byte(x, id, "CLOSE")
<1>0. "server" # "client" /\ (s = "client" \/ s = "server")
  BY DEF Sides
<1>1. CASE id \notin DOMAIN x.chans /\ s = "client"
  <2>1. PICK y : y = [x EXCEPT !.chans = Without(@, id)]
    OBVIOUS
  <2>2. Drops(x, y, id)
    BY <2>1, DropChan, Zenon
  <2>3. r = Does(y, <<>>)
    BY <1>1, <2>1, Zenon DEF EncClose, Byte, Does
  <2>4. Still(x, y)
    BY <1>1, <2>2, StillWithout
  <2> QED  BY <1>1, <2>3, <2>4, DoesFacts DEF DidClose
<1>2. CASE id \notin DOMAIN x.chans /\ s = "server"
  <2>1. r = Does(x, <<>>)
    BY <1>0, <1>2, Zenon DEF Byte
  <2> QED  BY <1>2, <2>1, DoesFacts, StillSelf DEF DidClose
<1>3. CASE id \in DOMAIN x.chans /\ s = "client"
  <2>1. r = EncClose(x, id)
    BY <1>3
  <2> QED  BY <1>3, <2>1, EncCloseEffect DEF DidClose
<1>4. CASE id \in DOMAIN x.chans /\ s = "server"
  <2>1. r = Does(x, <<On(x, id, "CLOSE")>>)
    BY <1>0, <1>4, Zenon DEF Byte
  <2> QED  BY <1>4, <2>1, DoesFacts DEF DidClose
<1> QED  BY <1>0, <1>1, <1>2, <1>3, <1>4

LEMMA AnswerDid ==
    ASSUME NEW x \in Session, NEW k, NEW id, k[id].st = "held"
    PROVE  DidAnswer(x, k, id, Answer(x, id).ses, Answer(x, id).out, k)
<1>1. CASE id \notin DOMAIN x.chans
  <2>1. Answer(x, id) = Does(x, <<>>)
    BY <1>1, Zenon DEF Answer
  <2> QED  BY <2>1, DoesFacts DEF DidAnswer
<1>2. CASE id \in DOMAIN x.chans
  BY <1>2, AnswerEffect DEF DidAnswer
<1> QED  BY <1>1, <1>2

\* Every step is a step of one side, which reads a message or whose task does
\* something, or that of a task that learns that its session has ended.
Reading(s, z, out, k2) ==
    LET w == wire[Peer(s)]
    IN  /\ Alive(s) /\ w # <<>> /\ left' = left
        /\ Took(s, ses[s], task[s], Head(w), z, out, k2)
        /\ Stepped(s, z, out, k2, IF z.end = "no" THEN Tail(w) ELSE <<>>)

\* A request whose answer nobody waits for.
Stray(m) == (m.t = "GLOBAL" /\ m.n = 0) \/ (m.t = "REQUEST" /\ m.agent)
Calm(out) == \A i \in DOMAIN out : ~Stray(out[i])

\* Only the strays of s are spent, and they are when it sends one.
Spent(s, out) ==
    /\ \A u \in Sides : u # s => left'.strays[u] = left.strays[u]
    /\ \/ left'.strays[s] = left.strays[s] /\ Calm(out)
       \/ left.strays[s] > 0 /\ left'.strays[s] = left.strays[s] - 1

Acting(s, z, out, k2) ==
    LET w == wire[Peer(s)]
    IN  /\ Alive(s) /\ Did(s, ses[s], task[s], left.opens[s], z, out, k2)
        /\ z.end = "eof" => ~Alive(Peer(s)) /\ w = <<>>
        /\ Stepped(s, z, out, k2, IF z.end = "no" THEN w ELSE <<>>)
        /\ left'.ops \in Nat /\ left'.opens \in [Sides -> Nat]
        /\ left' \in Lefts /\ Spent(s, out)
        /\ \/ left'.opens = left.opens /\ z.last = ses[s].last
           \/ /\ left.opens[s] > 0 /\ left'.opens = [left.opens EXCEPT ![s] = @ - 1]
              /\ DidOpen(s, ses[s], task[s], left.opens[s], z, out, k2)

Losing(s, id, k2) ==
    /\ ~Alive(s) /\ id \in DOMAIN task[s] /\ task[s][id].st = "wait"
    /\ Tells(task[s], k2, id, "lost", task[s][id].eof, task[s][id].asks)
    /\ task' = [task EXCEPT ![s] = k2] /\ UNCHANGED <<ses, wire, left>>

LEMMA ReceiveReading ==
    ASSUME Typed, NEW s \in Sides, Receive(s)
    PROVE  \E z, out, k2 : Reading(s, z, out, k2)
<1> DEFINE w == wire[Peer(s)]
           m == Head(w)
<1>1. /\ Alive(s) /\ w # <<>> /\ left' = left
  BY DEF Receive
<1>2. PICK choice \in BOOLEAN :
          LET r == IF s = "client" THEN ClientReads(ses[s], m, choice)
                   ELSE ServerReads(ses[s], m, choice)
          IN  /\ ses' = [ses EXCEPT ![s] = r.ses]
              /\ wire' = [wire EXCEPT
                            ![s] = Written(s, r.out),
                            ![Peer(s)] = IF r.ses.end = "no" THEN Tail(@) ELSE <<>>]
              /\ task' = IF r.task = <<>> THEN task
                         ELSE [task EXCEPT ![s] = With(@, r.id, r.task[1])]
  BY Zenon DEF Receive
<1> DEFINE r == Reads(s, ses[s], m, choice)
           k2 == NewTasks(task[s], r)
<1>3. /\ ses' = [ses EXCEPT ![s] = r.ses]
      /\ wire' = [wire EXCEPT ![s] = Written(s, r.out),
                              ![Peer(s)] = IF r.ses.end = "no" THEN Tail(@) ELSE <<>>]
      /\ task' = IF r.task = <<>> THEN task
                 ELSE [task EXCEPT ![s] = With(@, r.id, r.task[1])]
  BY <1>2, Zenon DEF Reads
<1>4. m \in Message /\ m.t \in Kinds(Peer(s))
  <2>1. w \in Seq(Message) /\ Peer(s) \in Sides
    BY PeerFacts DEF Typed
  <2>2. m = w[1] /\ 1 \in DOMAIN w /\ m \in Message
    BY <1>1, <2>1
  <2> QED  BY <2>1, <2>2 DEF Typed
<1>5. Took(s, ses[s], task[s], m, r.ses, r.out, k2)
  BY <1>4, ReadsTook
<1> HIDE DEF r
<1>6. wire' = [wire EXCEPT ![s] = Written(s, r.out),
                           ![Peer(s)] = IF r.ses.end = "no" THEN Tail(w) ELSE <<>>]
  <2>1. s # Peer(s)
    BY PeerFacts
  <2> QED  BY <1>3, <2>1, PeerFacts DEF Typed
<1>7. task' = [task EXCEPT ![s] = k2]
  BY <1>3 DEF NewTasks, Typed
<1>8. Stepped(s, r.ses, r.out, k2, IF r.ses.end = "no" THEN Tail(w) ELSE <<>>)
  BY <1>3, <1>6, <1>7 DEF Stepped
<1> HIDE DEF k2
<1>9. Reading(s, r.ses, r.out, k2)
  BY <1>1, <1>5, <1>8 DEF Reading
<1> QED  BY <1>9

LEMMA ApplyStepped ==
    ASSUME Typed, NEW s \in Sides, NEW r, NEW k2, Apply(s, r),
           task' = [task EXCEPT ![s] = k2]
    PROVE  Stepped(s, r.ses, r.out, k2, IF r.ses.end = "no" THEN wire[Peer(s)] ELSE <<>>)
<1>1. s # Peer(s) /\ Peer(s) \in Sides
  BY PeerFacts
<1> QED  BY <1>1 DEF Apply, Stepped, Typed

LEMMA LeftFacts ==
    ASSUME Typed, NEW s \in Sides
    PROVE  /\ left.ops \in Nat /\ left.opens \in [Sides -> Nat] /\ left.strays \in [Sides -> Nat]
           /\ left.opens[s] \in Nat /\ left.strays[s] \in Nat
BY DEF Typed, Lefts

LEMMA SpendLeft ==
    ASSUME Typed, left.ops > 0, Spend
    PROVE  /\ left'.ops \in Nat /\ left'.opens = left.opens /\ left'.opens \in [Sides -> Nat]
           /\ left' \in Lefts /\ left'.strays = left.strays
<1>1. left.ops \in Nat /\ left.opens \in [Sides -> Nat]
  BY LeftFacts DEF Sides
<1>2. left.ops - 1 \in Nat
  BY <1>1
<1>3. left' = [left EXCEPT !.ops = left.ops - 1]
  BY Zenon DEF Spend
<1>4. left \in Lefts
  BY DEF Typed
<1> QED  BY <1>1, <1>2, <1>3, <1>4, Zenon DEF Lefts

LEMMA StrayLeft ==
    ASSUME Typed, NEW s \in Sides, left.ops > 0, Strays(s)
    PROVE  /\ left'.ops \in Nat /\ left'.opens = left.opens /\ left'.opens \in [Sides -> Nat]
           /\ left' \in Lefts /\ left.strays[s] > 0
           /\ left'.strays[s] = left.strays[s] - 1
           /\ \A u \in Sides : u # s => left'.strays[u] = left.strays[u]
<1>1. left.ops \in Nat /\ left.opens \in [Sides -> Nat] /\ left.strays \in [Sides -> Nat]
  BY LeftFacts
<1>2. left.ops - 1 \in Nat /\ left.strays[s] > 0 /\ left.strays[s] - 1 \in Nat
  BY <1>1 DEF Strays
<1>3. PICK q : q = [left.strays EXCEPT ![s] = left.strays[s] - 1]
  OBVIOUS
<1>4. /\ q \in [Sides -> Nat] /\ q[s] = left.strays[s] - 1
      /\ \A u \in Sides : u # s => q[u] = left.strays[u]
  BY <1>1, <1>2, <1>3
<1>5. left' = [left EXCEPT !.ops = left.ops - 1, !.strays = q]
  BY <1>3, Zenon DEF Strays
<1>6. left \in Lefts
  BY DEF Typed
<1>7. /\ left'.ops \in Nat /\ left'.opens = left.opens /\ left' \in Lefts /\ left'.strays = q
  BY <1>2, <1>4, <1>5, <1>6, Zenon DEF Lefts
<1> QED  BY <1>1, <1>2, <1>4, <1>7

\* A step of a task that leaves the number of channels alone.
LEMMA ActingBy ==
    ASSUME Typed, NEW s \in Sides, NEW z, NEW out, NEW k2, Alive(s), left.ops > 0,
           (Spend /\ Calm(out)) \/ Strays(s),
           Did(s, ses[s], task[s], left.opens[s], z, out, k2),
           z.end # "eof", z.last = ses[s].last,
           Stepped(s, z, out, k2, IF z.end = "no" THEN wire[Peer(s)] ELSE <<>>)
    PROVE  Acting(s, z, out, k2)
<1>1. /\ left'.ops \in Nat /\ left'.opens = left.opens /\ left'.opens \in [Sides -> Nat]
      /\ left' \in Lefts /\ Spent(s, out)
  <2>1. CASE Spend /\ Calm(out)
    BY <2>1, SpendLeft DEF Spent
  <2>2. CASE Strays(s)
    BY <2>2, StrayLeft DEF Spent
  <2> QED  BY <2>1, <2>2
<1> QED  BY <1>1 DEF Acting

LEMMA DidLast ==
    ASSUME NEW s, NEW x \in Session, NEW k, NEW id, NEW z, NEW out, NEW k2, x.end = "no",
           \/ DidGiveUp(x, k, id, z, out, k2)
           \/ DidData(x, k, id, z, out, k2)
           \/ DidEof(s, x, k, id, z, out, k2)
           \/ DidClose(s, x, k, id, z, out, k2)
           \/ \E wants, agent : DidRequest(x, k, id, wants, agent, z, out, k2)
           \/ DidAnswer(x, k, id, z, out, k2)
    PROVE  z \in Session /\ z.last = x.last /\ z.end = "no"
BY DEF DidGiveUp, DidData, DidEof, DidClose, DidRequest, DidAnswer, Puts, Drops, Same,
       Still, Shift

LEMMA DidCalm ==
    ASSUME NEW s, NEW x \in Session, NEW k, NEW id, NEW z, NEW out, NEW k2,
           \/ DidGiveUp(x, k, id, z, out, k2)
           \/ DidData(x, k, id, z, out, k2)
           \/ DidEof(s, x, k, id, z, out, k2)
           \/ DidClose(s, x, k, id, z, out, k2)
           \/ \E wants : DidRequest(x, k, id, wants, FALSE, z, out, k2)
           \/ DidAnswer(x, k, id, z, out, k2)
    PROVE  Calm(out)
<1>0. CASE out = <<>>
  BY <1>0 DEF Calm
<1>1. CASE DidGiveUp(x, k, id, z, out, k2)
  BY <1>0, <1>1 DEF DidGiveUp
<1>2. CASE DidData(x, k, id, z, out, k2)
  <2>1. out = <<>> \/ (id \in DOMAIN x.chans /\ \E d : Sends(x, id, d, out))
    BY <1>2 DEF DidData
  <2>2. id \in DOMAIN x.chans /\ (\E d : Sends(x, id, d, out)) => \A i \in DOMAIN out : out[i].t = "DATA"
    BY SendsSays
  <2> QED  BY <1>0, <2>1, <2>2 DEF Calm, Stray
<1>3. CASE DidEof(s, x, k, id, z, out, k2)
  <2>1. out = <<>> \/ out = <<On(x, id, "EOF")>>
    BY <1>3 DEF DidEof
  <2> QED  BY <1>0, <2>1 DEF Calm, Stray, On
<1>4. CASE DidClose(s, x, k, id, z, out, k2)
  <2>1. out = <<>> \/ out = <<On(x, id, "CLOSE")>>
    BY <1>4 DEF DidClose
  <2> QED  BY <1>0, <2>1 DEF Calm, Stray, On
<1>5. CASE \E wants : DidRequest(x, k, id, wants, FALSE, z, out, k2)
  <2>1. PICK wants, agent : DidRequest(x, k, id, wants, agent, z, out, k2) /\ ~agent
    BY <1>5, Zenon
  <2> DEFINE m == [t |-> "REQUEST", to |-> x.chans[id].peer, ch |-> x.chans[id].ch,
                   wants |-> wants, agent |-> agent, n |-> k[id].asks + 1]
  <2>2. out = <<>> \/ out = <<m>>
    BY <2>1 DEF DidRequest
  <2>3. m.t = "REQUEST" /\ m.agent = agent
    OBVIOUS
  <2> HIDE DEF m
  <2> QED  BY <1>0, <2>1, <2>2, <2>3 DEF Calm, Stray
<1>6. CASE DidAnswer(x, k, id, z, out, k2)
  <2>1. out = <<>> \/ out = <<OnWith(x, id, "ANSWER", x.chans[id].asked)>>
    BY <1>6 DEF DidAnswer
  <2> QED  BY <1>0, <2>1 DEF Calm, Stray, OnWith
<1> QED  BY <1>1, <1>2, <1>3, <1>4, <1>5, <1>6

LEMMA NextActing ==
    ASSUME Typed, NEW s \in Sides,
           \/ Eof(s) \/ Open(s) \/ Disconnect(s) \/ GlobalNoReply(s)
           \/ \E kind \in {"forward", "keepalive"}, wants \in BOOLEAN : Global(s, kind, wants)
           \/ \E id \in DOMAIN task[s] :
                 \/ GiveUp(s, id) \/ SendEof(s, id) \/ Close(s, id)
                 \/ \E len \in Writes : Data(s, id, len)
           \/ /\ s = "client"
              /\ \E id \in DOMAIN task[s], wants, agent \in BOOLEAN : Request(id, wants, agent)
           \/ s = "server" /\ \E id \in DOMAIN task[s] : AnswerLater(id)
    PROVE  \E z, out, k2 : Acting(s, z, out, k2)
<1> DEFINE x == ses[s]
           k == task[s]
           w == wire[Peer(s)]
           n == left.opens[s]
<1>1. x \in Session /\ k \in Tasks /\ n \in Nat /\ left.ops \in Nat
  BY LeftFacts DEF Typed
<1>2. task = [task EXCEPT ![s] = k]
  BY DEF Typed
<1>3. Alive(s) => x.end = "no"
  BY DEF Alive
<1>4. ASSUME NEW r, NEW k2, NEW id \in DOMAIN k, Alive(s), left.ops > 0,
             (Spend /\ Calm(r.out)) \/ Strays(s), Apply(s, r),
             task' = [task EXCEPT ![s] = k2],
             \/ DidGiveUp(x, k, id, r.ses, r.out, k2)
             \/ DidData(x, k, id, r.ses, r.out, k2)
             \/ DidEof(s, x, k, id, r.ses, r.out, k2)
             \/ DidClose(s, x, k, id, r.ses, r.out, k2)
             \/ /\ s = "client"
                /\ \E wants, agent \in BOOLEAN : DidRequest(x, k, id, wants, agent, r.ses, r.out, k2)
             \/ s = "server" /\ DidAnswer(x, k, id, r.ses, r.out, k2)
      PROVE  Acting(s, r.ses, r.out, k2)
  <2> HIDE DEF x, k, n
  <2>1. r.ses.end = "no" /\ r.ses.last = x.last
    BY <1>1, <1>3, <1>4, DidLast
  <2>2. Did(s, x, k, n, r.ses, r.out, k2)
    BY <1>4 DEF Did
  <2>3. Stepped(s, r.ses, r.out, k2, IF r.ses.end = "no" THEN w ELSE <<>>)
    BY <1>4, ApplyStepped
  <2> QED  BY <1>4, <2>1, <2>2, <2>3, ActingBy DEF x, k, n
<1>5. ASSUME Eof(s)
      PROVE  \E z, out, k2 : Acting(s, z, out, k2)
  <2>1. /\ Alive(s) /\ ~Alive(Peer(s)) /\ w = <<>>
        /\ ses' = [ses EXCEPT ![s] = Ended(x, "eof")]
        /\ task' = task /\ wire' = wire /\ left' = left
    BY <1>5 DEF Eof, Typed
  <2>2. PICK z : z = Ended(x, "eof") /\ Stops(x, z, "eof")
    BY <1>1, EndedStops DEF Reasons
  <2>3. Written(s, <<>>) = <<>>
    BY <2>1 DEF Written
  <2>4. wire[s] = <<>>
    BY <2>1, PeerFacts DEF Typed
  <2>5. wire = [wire EXCEPT ![s] = <<>>, ![Peer(s)] = <<>>]
    BY <2>1, <2>4, PeerFacts DEF Typed
  <2>6. Stepped(s, z, <<>>, k, <<>>)
    BY <1>2, <2>1, <2>2, <2>3, <2>5 DEF Stepped
  <2>7. z.end = "eof" /\ z.last = x.last
    BY <2>2 DEF Stops
  <2>8. Did(s, x, k, n, z, <<>>, k)
    BY <2>2 DEF Did
  <2>10. Spent(s, <<>>) /\ left' \in Lefts /\ left'.ops \in Nat /\ left'.opens \in [Sides -> Nat]
    <3>1. Calm(<<>>)
      BY DEF Calm
    <3> QED  BY <2>1, <3>1, LeftFacts DEF Spent, Typed
  <2>9. Acting(s, z, <<>>, k)
    BY <2>1, <2>6, <2>7, <2>8, <2>10 DEF Acting
  <2> QED  BY <2>9
<1>6. ASSUME Open(s)
      PROVE  \E z, out, k2 : Acting(s, z, out, k2)
  <2> DEFINE id == x.last + 1
             f == With(x.chans, id, Params(<<s, n>>, 0, 0))
             out == <<[t |-> "OPEN", from |-> id, ch |-> <<s, n>>]>>
             k2 == With(k, id, Task("wait"))
  <2>1. PICK z : z = [x EXCEPT !.last = id, !.chans = f, !.refs = @ \cup {id}]
    OBVIOUS
  <2>2. /\ Alive(s) /\ n > 0 /\ left.ops > 0
        /\ left' = [left EXCEPT !.opens[s] = @ - 1, !.ops = @ - 1]
        /\ Apply(s, Does(z, out))
        /\ task' = [task EXCEPT ![s] = k2]
    BY <1>6, <2>1, Zenon DEF Open, NewId
  <2>3. Shift(x, z, id, x.refs \cup {id}, f)
    <3>1. id \in Nat /\ <<s, n>> \in Names
      BY <1>1, SessionFacts DEF Names
    <3>2. Params(<<s, n>>, 0, 0) \in Param
      BY <3>1, ParamsType
    <3>3. f \in Tables /\ x.refs \cup {id} \in SUBSET Nat
      BY <1>1, <3>1, <3>2, SessionFacts, TablesWith
    <3> HIDE DEF f, x
    <3> QED  BY <1>1, <2>1, <3>1, <3>3, Zenon DEF Session, Shift
  <2>4. DidOpen(s, x, k, n, z, out, k2)
    BY <2>3 DEF DidOpen
  <2>5. z.end = "no"
    BY <1>3, <2>2, <2>3 DEF Shift
  <2>6. Stepped(s, z, out, k2, IF z.end = "no" THEN w ELSE <<>>)
    <3> HIDE DEF out, k2, f
    <3>1. Does(z, out).ses = z /\ Does(z, out).out = out
      BY DoesFacts
    <3>2. PICK r : r = Does(z, out)
      OBVIOUS
    <3>3. Stepped(s, r.ses, r.out, k2, IF r.ses.end = "no" THEN w ELSE <<>>)
      BY <2>2, <3>2, ApplyStepped
    <3> QED  BY <3>1, <3>2, <3>3
  <2>7. /\ left'.ops \in Nat /\ left'.opens = [left.opens EXCEPT ![s] = n - 1]
        /\ left' \in Lefts /\ left'.strays = left.strays
    <3>1. left.ops - 1 \in Nat /\ n - 1 \in Nat
      BY <1>1, <2>2
    <3>2. PICK o : o = [left.opens EXCEPT ![s] = n - 1]
      OBVIOUS
    <3>3. o \in [Sides -> Nat]
      BY <3>1, <3>2, LeftFacts
    <3>4. left' = [left EXCEPT !.opens = o, !.ops = left.ops - 1]
      BY <2>2, <3>2, Zenon
    <3>5. left \in Lefts
      BY DEF Typed
    <3> HIDE DEF n
    <3>6. /\ left'.ops \in Nat /\ left'.opens = o
          /\ left' \in Lefts /\ left'.strays = left.strays
      BY <3>1, <3>3, <3>4, <3>5, Zenon DEF Lefts
    <3> QED  BY <3>2, <3>6, Zenon
  <2>10. Spent(s, out)
    <3>1. Calm(out)
      BY DEF Calm, Stray
    <3> HIDE DEF out
    <3> QED  BY <2>7, <3>1 DEF Spent
  <2> HIDE DEF f, out, k2
  <2>8. left'.opens \in [Sides -> Nat]
    BY <2>7 DEF Lefts
  <2>9. Acting(s, z, out, k2)
    BY <2>2, <2>4, <2>5, <2>6, <2>7, <2>8, <2>10 DEF Acting, Did
  <2> QED  BY <2>9
<1>7. ASSUME NEW kind \in {"forward", "keepalive"}, NEW wants \in BOOLEAN, Global(s, kind, wants)
      PROVE  \E z, out, k2 : Acting(s, z, out, k2)
  <2> DEFINE j == x.asked + 1
             q == Append(x.globals, j)
             m == [t |-> "GLOBAL", n |-> j, kind |-> kind, wants |-> wants]
             out == <<m>>
  <2>1. PICK z : z = [x EXCEPT !.asked = j, !.globals = q]
    OBVIOUS
  <2>2. /\ Alive(s) /\ left.ops > 0 /\ Spend /\ (~wants => s = "client")
        /\ Apply(s, Does(z, out))
        /\ task' = task
    BY <1>7, <2>1, Zenon DEF Global
  <2>3. Queues(x, z, q, j) /\ j \in Nat /\ j # 0
    <3>1. j \in Nat /\ q \in Seq(Nat) /\ j # 0
      BY <1>1, SessionFacts
    <3> HIDE DEF q, x, j
    <3> QED  BY <1>1, <2>1, <3>1, Zenon DEF Session, Queues
  <2>8. s = "server" => wants
    BY <2>2
  <2>4. Did(s, x, k, n, z, out, k)
    <3>1. DidGlobal(s, x, k, z, out, k)
      BY <1>7, <2>3, <2>8 DEF DidGlobal
    <3> QED  BY <3>1 DEF Did
  <2>5. z.end = "no" /\ z.last = x.last
    BY <1>3, <2>2, <2>3 DEF Queues
  <2>9. Calm(out)
    <3>1. m.t = "GLOBAL" /\ m.n # 0
      BY <2>3
    <3> HIDE DEF m
    <3> QED  BY <3>1 DEF Calm, Stray
  <2>6. Stepped(s, z, out, k, IF z.end = "no" THEN w ELSE <<>>)
    <3> HIDE DEF out
    <3>1. Does(z, out).ses = z /\ Does(z, out).out = out
      BY DoesFacts
    <3>2. PICK r : r = Does(z, out)
      OBVIOUS
    <3>3. Stepped(s, r.ses, r.out, k, IF r.ses.end = "no" THEN w ELSE <<>>)
      BY <1>2, <2>2, <3>2, ApplyStepped
    <3> QED  BY <3>1, <3>2, <3>3
  <2> HIDE DEF out
  <2>7. Acting(s, z, out, k)
    BY <2>2, <2>4, <2>5, <2>6, <2>9, ActingBy
  <2> QED  BY <2>7
<1>15. ASSUME GlobalNoReply(s)
       PROVE  \E z, out, k2 : Acting(s, z, out, k2)
  <2> DEFINE out == <<[t |-> "GLOBAL", n |-> 0, kind |-> "forward", wants |-> FALSE]>>
  <2>1. /\ Alive(s) /\ left.ops > 0 /\ Strays(s) /\ Apply(s, Does(x, out))
        /\ task' = task
    BY <1>15, Zenon DEF GlobalNoReply
  <2>2. Did(s, x, k, n, x, out, k)
    <3>1. DidNoReply(x, k, x, out, k)
      BY Zenon DEF DidNoReply
    <3> HIDE DEF out
    <3> QED  BY <3>1 DEF Did
  <2> HIDE DEF out
  <2>3. Stepped(s, x, out, k, IF x.end = "no" THEN w ELSE <<>>)
    <3>1. Does(x, out).ses = x /\ Does(x, out).out = out
      BY DoesFacts
    <3>2. PICK r : r = Does(x, out)
      OBVIOUS
    <3>3. Stepped(s, r.ses, r.out, k, IF r.ses.end = "no" THEN w ELSE <<>>)
      BY <1>2, <2>1, <3>2, ApplyStepped
    <3> QED  BY <3>1, <3>2, <3>3
  <2>4. Acting(s, x, out, k)
    BY <1>3, <2>1, <2>2, <2>3, ActingBy
  <2> QED  BY <2>4
<1>8. ASSUME Disconnect(s)
      PROVE  \E z, out, k2 : Acting(s, z, out, k2)
  <2> DEFINE out == <<[t |-> "DISCONNECT"]>>
  <2>1. PICK z : z = Ended(x, "left") /\ Stops(x, z, "left")
    BY <1>1, EndedStops DEF Reasons
  <2>2. /\ Alive(s) /\ left.ops > 0 /\ Spend
        /\ Apply(s, Does(z, out))
        /\ task' = task
    BY <1>8, <2>1, Zenon DEF Disconnect
  <2>3. Did(s, x, k, n, z, out, k)
    BY <2>1 DEF Did
  <2>4. z.end = "left" /\ z.last = x.last
    BY <2>1 DEF Stops
  <2>5. Stepped(s, z, out, k, IF z.end = "no" THEN w ELSE <<>>)
    <3> HIDE DEF out
    <3>1. Does(z, out).ses = z /\ Does(z, out).out = out
      BY DoesFacts
    <3>2. PICK r : r = Does(z, out)
      OBVIOUS
    <3>3. Stepped(s, r.ses, r.out, k, IF r.ses.end = "no" THEN w ELSE <<>>)
      BY <1>2, <2>2, <3>2, ApplyStepped
    <3> QED  BY <3>1, <3>2, <3>3
  <2>7. Calm(out)
    BY DEF Calm, Stray
  <2> HIDE DEF out
  <2>6. Acting(s, z, out, k)
    BY <2>2, <2>3, <2>4, <2>5, <2>7, ActingBy
  <2> QED  BY <2>6
<1>9. ASSUME NEW id \in DOMAIN k, GiveUp(s, id)
      PROVE  \E z, out, k2 : Acting(s, z, out, k2)
  <2>1. /\ Alive(s) /\ left.ops > 0 /\ k[id].st = "wait" /\ Spend
        /\ task' = [task EXCEPT ![s][id].st = "quit"] /\ ses' = ses /\ wire' = wire
    BY <1>9 DEF GiveUp
  <2>2. PICK k2 : k2 = [k EXCEPT ![id].st = "quit"]
    OBVIOUS
  <2>3. Tells(k, k2, id, "quit", k[id].eof, k[id].asks)
    <3>1. "quit" \in States
      BY DEF States
    <3> HIDE DEF k
    <3> QED  BY <1>1, <1>9, <2>2, <3>1, SetState, Zenon
  <2>4. task' = [task EXCEPT ![s] = k2]
    BY <2>1, <2>2, Zenon
  <2>5. DidGiveUp(x, k, id, x, <<>>, k2)
    BY <2>1, <2>3 DEF DidGiveUp
  <2>6. wire = [wire EXCEPT ![s] = Written(s, <<>>), ![Peer(s)] = wire[Peer(s)]]
    <3>1. Written(s, <<>>) = wire[s]
      <4>1. wire[s] \in Seq(Message)
        BY DEF Typed
      <4>2. Alive(Peer(s)) \/ wire[s] = <<>>
        BY PeerFacts DEF Typed
      <4> QED  BY <4>1, <4>2 DEF Written
    <3> QED  BY <3>1, PeerFacts DEF Typed
  <2>7. ses = [ses EXCEPT ![s] = x]
    BY DEF Typed
  <2>8. Stepped(s, x, <<>>, k2, IF x.end = "no" THEN wire[Peer(s)] ELSE <<>>)
    BY <1>3, <2>1, <2>4, <2>6, <2>7 DEF Stepped
  <2>9. Did(s, x, k, n, x, <<>>, k2)
    BY <1>9, <2>5 DEF Did
  <2>10. Acting(s, x, <<>>, k2)
    BY <1>1, <1>3, <2>1, <2>5, <2>8, <2>9, ActingBy, DidCalm
  <2> QED  BY <2>10
<1>10. ASSUME NEW id \in DOMAIN k, NEW len \in Writes, Data(s, id, len)
       PROVE  \E z, out, k2 : Acting(s, z, out, k2)
  <2> DEFINE r == EncData(x, id, len)
  <2>1. /\ Alive(s) /\ left.ops > 0 /\ k[id].st = "held" /\ ~k[id].eof /\ Spend
        /\ Apply(s, r) /\ task' = [task EXCEPT ![s] = k]
    BY <1>2, <1>10, Zenon DEF Data, Holds
  <2>2. DidData(x, k, id, r.ses, r.out, k)
    BY <1>1, <1>10, <2>1, DataDid, WritesAssumption
  <2> HIDE DEF r
  <2>3. Calm(r.out)
    BY <1>1, <2>2, DidCalm
  <2> QED  BY <1>4, <1>10, <2>1, <2>2, <2>3
<1>11. ASSUME NEW id \in DOMAIN k, SendEof(s, id)
       PROVE  \E z, out, k2 : Acting(s, z, out, k2)
  <2> DEFINE r == IF s = "client" THEN EncEof(x, id) ELSE Byte(x, id, "EOF")
  <2>1. /\ Alive(s) /\ left.ops > 0 /\ k[id].st = "held" /\ ~k[id].eof /\ Spend
        /\ Apply(s, r)
        /\ task' = [task EXCEPT ![s][id].eof = TRUE]
    BY <1>11, Zenon DEF SendEof, Holds
  <2>2. PICK k2 : k2 = [k EXCEPT ![id].eof = TRUE]
    OBVIOUS
  <2>3. Tells(k, k2, id, "held", TRUE, k[id].asks)
    <3> HIDE DEF k
    <3>1. Tells(k, k2, id, k[id].st, TRUE, k[id].asks)
      BY <1>1, <1>11, <2>2, SetEof, Zenon
    <3> QED  BY <2>1, <3>1
  <2>4. task' = [task EXCEPT ![s] = k2]
    BY <2>1, <2>2, Zenon
  <2>5. DidEof(s, x, k, id, r.ses, r.out, k2)
    BY <1>1, <2>1, <2>3, EofDid
  <2> HIDE DEF r
  <2>6. Calm(r.out)
    BY <1>1, <2>5, DidCalm
  <2> QED  BY <1>4, <1>11, <2>1, <2>4, <2>5, <2>6
<1>12. ASSUME NEW id \in DOMAIN k, Close(s, id)
       PROVE  \E z, out, k2 : Acting(s, z, out, k2)
  <2> DEFINE r == IF s = "client" THEN EncClose(x, id) ELSE Byte(x, id, "CLOSE")
  <2>1. /\ Alive(s) /\ left.ops > 0 /\ k[id].st = "held" /\ Spend
        /\ Apply(s, r)
        /\ task' = [task EXCEPT ![s][id].st = "closed"]
    BY <1>12, Zenon DEF Close, Holds
  <2>2. PICK k2 : k2 = [k EXCEPT ![id].st = "closed"]
    OBVIOUS
  <2>3. Tells(k, k2, id, "closed", k[id].eof, k[id].asks)
    <3>1. "closed" \in States
      BY DEF States
    <3> HIDE DEF k
    <3> QED  BY <1>1, <1>12, <2>2, <3>1, SetState, Zenon
  <2>4. task' = [task EXCEPT ![s] = k2]
    BY <2>1, <2>2, Zenon
  <2>5. DidClose(s, x, k, id, r.ses, r.out, k2)
    BY <1>1, <2>1, <2>3, CloseDid
  <2> HIDE DEF r
  <2>6. Calm(r.out)
    BY <1>1, <2>5, DidCalm
  <2> QED  BY <1>4, <1>12, <2>1, <2>4, <2>5, <2>6
<1>13. ASSUME s = "client", NEW id \in DOMAIN k, NEW wants \in BOOLEAN, NEW agent \in BOOLEAN,
              Request(id, wants, agent)
       PROVE  \E z, out, k2 : Acting(s, z, out, k2)
  <2> DEFINE j == k[id].asks + 1
             asks == IF wants THEN j ELSE k[id].asks
             m == [t |-> "REQUEST", to |-> x.chans[id].peer, ch |-> x.chans[id].ch,
                   wants |-> wants, agent |-> agent, n |-> j]
             out == IF id \in DOMAIN x.chans THEN <<m>> ELSE <<>>
  <2>1. /\ Alive(s) /\ left.ops > 0 /\ k[id].st = "held"
        /\ IF agent THEN Strays(s) ELSE Spend
        /\ Apply(s, Does(x, out))
        /\ task' = [task EXCEPT ![s][id].asks = IF wants THEN j ELSE @]
    BY <1>13, Zenon DEF Request, Holds
  <2>2. PICK k2 : k2 = [k EXCEPT ![id].asks = asks]
    OBVIOUS
  <2>3. k[id].asks \in Nat /\ asks \in Nat
    BY <1>1, <1>13, TasksFacts, OneTaskFacts
  <2>4. Tells(k, k2, id, "held", k[id].eof, asks)
    <3> HIDE DEF k, asks
    <3>1. Tells(k, k2, id, k[id].st, k[id].eof, asks)
      BY <1>1, <1>13, <2>2, <2>3, SetAsks, Zenon
    <3> QED  BY <2>1, <3>1
  <2>5. task' = [task EXCEPT ![s] = k2]
    BY <2>1, <2>2, Zenon
  <2>6. DidRequest(x, k, id, wants, agent, x, out, k2)
    BY <2>1, <2>4 DEF DidRequest
  <2>9. (Spend /\ Calm(out)) \/ Strays(s)
    <3>1. CASE agent
      BY <2>1, <3>1
    <3>2. CASE ~agent
      <4>1. Spend
        BY <2>1, <3>2
      <4>2. m.t = "REQUEST" /\ m.agent = agent
        OBVIOUS
      <4>3. out = <<>> \/ out = <<m>>
        OBVIOUS
      <4> HIDE DEF m, out
      <4>4. Calm(out)
        BY <3>2, <4>2, <4>3 DEF Calm, Stray
      <4> QED  BY <4>1, <4>4
    <3> QED  BY <3>1, <3>2
  <2>7. PICK r : r = Does(x, out)
    OBVIOUS
  <2> HIDE DEF out
  <2>8. r.ses = x /\ r.out = out
    BY <2>7, DoesFacts
  <2> QED  BY <1>4, <1>13, <2>1, <2>5, <2>6, <2>7, <2>8, <2>9, ZenonT(60)
<1>14. ASSUME s = "server", NEW id \in DOMAIN k, AnswerLater(id)
       PROVE  \E z, out, k2 : Acting(s, z, out, k2)
  <2>1. /\ Alive(s) /\ left.ops > 0 /\ k[id].st = "held" /\ Spend
        /\ Apply(s, Answer(x, id)) /\ task' = [task EXCEPT ![s] = k]
    BY <1>2, <1>14, Zenon DEF AnswerLater, Holds
  <2>2. DidAnswer(x, k, id, Answer(x, id).ses, Answer(x, id).out, k)
    BY <1>1, <2>1, AnswerDid
  <2>3. Calm(Answer(x, id).out)
    BY <1>1, <2>2, DidCalm
  <2> QED  BY <1>4, <1>14, <2>1, <2>2, <2>3
<1> QED  BY <1>5, <1>6, <1>7, <1>8, <1>9, <1>10, <1>11, <1>12, <1>13, <1>14, <1>15, Zenon

LEMMA LostLosing ==
    ASSUME Typed, NEW s \in Sides, NEW id \in DOMAIN task[s], Lost(s, id)
    PROVE  \E k2 : Losing(s, id, k2)
<1> DEFINE k == task[s]
<1>1. /\ ~Alive(s) /\ k[id].st = "wait" /\ task' = [task EXCEPT ![s][id].st = "lost"]
      /\ UNCHANGED <<ses, wire, left>>
  BY DEF Lost
<1>2. k \in Tasks /\ "lost" \in States
  BY DEF Typed, States
<1>3. PICK k2 : k2 = [k EXCEPT ![id].st = "lost"]
  OBVIOUS
<1>4. task' = [task EXCEPT ![s] = k2]
  BY <1>1, <1>3, Zenon
<1>5. Tells(k, k2, id, "lost", k[id].eof, k[id].asks)
  <2>1. id \in DOMAIN k
    OBVIOUS
  <2> HIDE DEF k
  <2> QED  BY <1>2, <1>3, <2>1, SetState, Zenon
<1>6. Losing(s, id, k2)
  BY <1>1, <1>4, <1>5 DEF Losing
<1> QED  BY <1>6

LEMMA NextSteps ==
    ASSUME Typed, Next
    PROVE  \E s \in Sides :
              \/ \E z, out, k2 : Reading(s, z, out, k2) \/ Acting(s, z, out, k2)
              \/ \E id, k2 : Losing(s, id, k2)
<1>1. ASSUME NEW s \in Sides, Receive(s)
      PROVE  \E z, out, k2 : Reading(s, z, out, k2)
  BY <1>1, ReceiveReading
<1>2. ASSUME NEW s \in Sides, NEW id \in DOMAIN task[s], Lost(s, id)
      PROVE  \E k2 : Losing(s, id, k2)
  BY <1>2, LostLosing
<1>3. ASSUME NEW s \in Sides,
             \/ Eof(s) \/ Open(s) \/ Disconnect(s) \/ GlobalNoReply(s)
             \/ \E kind \in {"forward", "keepalive"}, wants \in BOOLEAN : Global(s, kind, wants)
             \/ \E id \in DOMAIN task[s] :
                   \/ GiveUp(s, id) \/ SendEof(s, id) \/ Close(s, id)
                   \/ \E len \in Writes : Data(s, id, len)
      PROVE  \E z, out, k2 : Acting(s, z, out, k2)
  BY <1>3, NextActing
<1>4. ASSUME NEW id \in DOMAIN task["client"], NEW wants \in BOOLEAN, NEW agent \in BOOLEAN,
             Request(id, wants, agent)
      PROVE  \E z, out, k2 : Acting("client", z, out, k2)
  BY <1>4, NextActing DEF Sides
<1>5. ASSUME NEW id \in DOMAIN task["server"], AnswerLater(id)
      PROVE  \E z, out, k2 : Acting("server", z, out, k2)
  BY <1>5, NextActing DEF Sides
<1>6. "client" \in Sides /\ "server" \in Sides
  BY DEF Sides
<1> QED  BY <1>1, <1>2, <1>3, <1>4, <1>5, <1>6, Zenon DEF Next

-----------------------------------------------------------------------------
\* Types.

\* What is said on channel id.
OnId(m, x, id) == m.to = x.chans[id].peer /\ m.ch = x.chans[id].ch

LEMMA FlushedKinds ==
    ASSUME NEW x \in Session, NEW id \in DOMAIN x.chans, NEW out, NEW n \in Nat,
           NEW eof \in BOOLEAN, NEW rest \in {0, 1}, Flushed(out, x, id, n, eof, rest),
           rest = 1 => out[Len(out)] = On(x, id, "CLOSE")
    PROVE  /\ out \in Seq(Message)
           /\ \A i \in DOMAIN out :
                 /\ out[i].t \in {"DATA", "EOF", "CLOSE"} /\ OnId(out[i], x, id)
                 /\ out[i].t = "CLOSE" => rest = 1
<1>1. /\ \A t : /\ On(x, id, t).t = t
                /\ On(x, id, t).to = x.chans[id].peer /\ On(x, id, t).ch = x.chans[id].ch
  BY OnMessage
<1>2. \A i \in DOMAIN out : \/ i \in 1 .. n
                            \/ eof /\ i = n + 1
                            \/ rest = 1 /\ i = Len(out)
  BY DEF Flushed
<1> QED  BY <1>1, <1>2 DEF Flushed, OnId

\* The same for what is kept open, and for what is closed.
FlushSays(out) ==
    out \in Seq(Message) /\ \A i \in DOMAIN out : out[i].t \in {"DATA", "EOF", "CLOSE"}

LEMMA FlushedSays ==
    ASSUME NEW x \in Session, NEW id \in DOMAIN x.chans, NEW out, NEW n \in Nat,
           NEW eof \in BOOLEAN,
           \/ Flushed(out, x, id, n, eof, 0)
           \/ Flushed(out, x, id, n, eof, 1) /\ out[Len(out)] = On(x, id, "CLOSE")
    PROVE  FlushSays(out)
<1>1. CASE Flushed(out, x, id, n, eof, 0)
  <2>1. 0 \in {0, 1} /\ 0 # 1
    OBVIOUS
  <2> QED  BY <1>1, <2>1, FlushedKinds, SMTT(60) DEF FlushSays
<1>2. CASE Flushed(out, x, id, n, eof, 1) /\ out[Len(out)] = On(x, id, "CLOSE")
  <2>1. 1 \in {0, 1}
    OBVIOUS
  <2> QED  BY <1>2, <2>1, FlushedKinds DEF FlushSays
<1> QED  BY <1>1, <1>2

Proper(s, x, z, out, k2) ==
    /\ z \in Session /\ out \in Seq(Message) /\ k2 \in Tasks
    /\ \A i \in DOMAIN out : out[i].t \in Kinds(s)
    /\ z.end # "no" => z.chans = <<>>

LEMMA NoMessage ==
    ASSUME NEW out, out = <<>>
    PROVE  out \in Seq(Message) /\ Len(out) = 0 /\ DOMAIN out = {}
OBVIOUS

LEMMA OneMessage ==
    ASSUME NEW m \in Message, NEW out, out = <<m>>
    PROVE  /\ out \in Seq(Message) /\ Len(out) = 1 /\ DOMAIN out = {1} /\ out[1] = m
           /\ \A i \in DOMAIN out : out[i] = m
OBVIOUS

LEMMA TookProper ==
    ASSUME NEW s \in Sides, NEW x \in Session, NEW k \in Tasks, NEW m \in Message,
           NEW z, NEW out, NEW k2, x.end = "no", Took(s, x, k, m, z, out, k2)
    PROVE  Proper(s, x, z, out, k2)
<1>0. <<>> \in Seq(Message) /\ \A i \in DOMAIN <<>> : <<>>[i].t \in Kinds(s)
  OBVIOUS
<1>1. CASE m.t = "OPEN" /\ TookOpen(s, x, k, m, z, out, k2)
  <2>1. m.from \in Nat /\ m.ch \in Names /\ x.last + 1 \in Nat
    BY <1>1, SessionFacts DEF Message
  <2>2. With(k, x.last + 1, Task("held")) \in Tasks
    BY <2>1, TasksWith, TaskType DEF States
  <2>3. /\ [t |-> "CONFIRM", to |-> m.from, ch |-> m.ch, from |-> x.last + 1] \in Message
        /\ [t |-> "FAILURE", to |-> m.from, ch |-> m.ch] \in Message
    BY <2>1 DEF Message
  <2>4. z \in Session /\ k2 \in Tasks /\ z.end = "no"
    BY <1>1, <2>2 DEF TookOpen, Shift
  <2>5. out \in Seq(Message) /\ \A i \in DOMAIN out : out[i].t \in {"CONFIRM", "FAILURE"}
    BY <1>1, <2>3, NoMessage, OneMessage DEF TookOpen
  <2> QED  BY <2>4, <2>5 DEF Proper, Kinds
<1>2. CASE m.t = "CONFIRM" /\ TookConfirm(x, k, m, z, out, k2)
  <2>1. Heard(x, k, m.to) => With(k, m.to, Task("held")) \in Tasks
    BY TasksWith, TasksFacts, TaskType DEF States, Heard
  <2>2. z \in Session /\ k2 \in Tasks /\ out = <<>> /\ (z.end # "no" => z.chans = <<>>)
    BY <1>2, <2>1 DEF TookConfirm, Stops, Puts, Same
  <2> QED  BY <1>0, <2>2 DEF Proper
<1>3. CASE m.t = "FAILURE" /\ TookFailure(s, x, k, m, z, out, k2)
  <2>1. Heard(x, k, m.to) => With(k, m.to, Task("refused")) \in Tasks
    BY TasksWith, TasksFacts, TaskType DEF States, Heard
  <2>2. z \in Session /\ k2 \in Tasks /\ out = <<>> /\ (z.end # "no" => z.chans = <<>>)
    BY <1>3, <2>1 DEF TookFailure, Stops, Shift
  <2> QED  BY <1>0, <2>2 DEF Proper
<1>4. CASE m.t = "CLOSE" /\ TookClose(s, x, m, z, out) /\ k2 = k
  <2>1. z \in Session /\ z.end = "no"
    BY <1>4 DEF TookClose, Shift
  <2>2. m.to \in DOMAIN x.chans =>
            On(x, m.to, "CLOSE") \in Message /\ On(x, m.to, "CLOSE").t = "CLOSE"
    BY OnMessage
  <2>3. out = <<>> \/ (m.to \in DOMAIN x.chans /\ out = <<On(x, m.to, "CLOSE")>>)
    BY <1>4 DEF TookClose
  <2>4. out \in Seq(Message) /\ \A i \in DOMAIN out : out[i].t = "CLOSE"
    BY <2>2, <2>3, NoMessage, OneMessage
  <2> QED  BY <1>4, <2>1, <2>4 DEF Proper, Kinds
<1>5. CASE m.t = "DATA" /\ TookData(x, m, z, out) /\ k2 = k
  <2>1. z \in Session /\ z.end = "no"
    BY <1>5 DEF TookData, Puts, Same
  <2>2. \/ out = <<>>
        \/ m.to \in DOMAIN x.chans /\ \E n \in Nat : out = <<OnWith(x, m.to, "ADJUST", n)>>
    BY <1>5 DEF TookData
  <2>3. ASSUME m.to \in DOMAIN x.chans, NEW n \in Nat
        PROVE  OnWith(x, m.to, "ADJUST", n) \in Message /\ OnWith(x, m.to, "ADJUST", n).t = "ADJUST"
    BY <2>3, OnMessage
  <2>4. out \in Seq(Message) /\ \A i \in DOMAIN out : out[i].t = "ADJUST"
    BY <2>2, <2>3, NoMessage, OneMessage
  <2> QED  BY <1>5, <2>1, <2>4 DEF Proper, Kinds
<1>6. CASE m.t = "ADJUST" /\ TookGrant(x, m, z, out) /\ k2 = k
  <2>1. z \in Session /\ (z.end # "no" => z.chans = <<>>)
    BY <1>6 DEF TookGrant, Puts, Drops, Same, Stops
  <2>2. out \in Seq(Message) /\ \A i \in DOMAIN out : out[i].t \in {"DATA", "EOF", "CLOSE"}
    <3>1. CASE m.to \notin DOMAIN x.chans
      <4>1. out = <<>>
        BY <1>6, <3>1 DEF TookGrant
      <4> QED  BY <4>1, NoMessage
    <3>2. CASE m.to \in DOMAIN x.chans
      <4> DEFINE c == x.chans[m.to]
                 win == c.win + m.n
                 n == IF c.pend < win THEN c.pend ELSE win
      <4>1. n \in Nat /\ c.peof \in BOOLEAN
        <5>1. m.n \in Nat
          BY <1>6 DEF Message
        <5>2. c \in Param
          BY <3>2, SessionFacts, TableFacts
        <5> QED  BY <5>1, <5>2 DEF Param
      <4>2. \/ \E eof \in BOOLEAN : Flushed(out, x, m.to, n, eof, 0)
            \/ /\ \E eof \in BOOLEAN : Flushed(out, x, m.to, n, eof, 1)
               /\ out[Len(out)] = On(x, m.to, "CLOSE")
        BY <1>6, <3>2, <4>1 DEF TookGrant
      <4> HIDE DEF n
      <4>3. FlushSays(out)
        BY <3>2, <4>1, <4>2, FlushedSays
      <4> QED  BY <4>3 DEF FlushSays
    <3> QED  BY <3>1, <3>2
  <2> QED  BY <1>6, <2>1, <2>2 DEF Proper, Kinds
<1>7. CASE m.t = "REQUEST" /\ s = "server" /\ TookRequest(x, m, z, out) /\ k2 = k
  <2>1. z \in Session /\ z.end = "no"
    BY <1>7 DEF TookRequest, Puts, Same, Still, Shift
  <2>2. m.n \in Nat
    BY <1>7 DEF Message
  <2>3. \/ out = <<>> \/ Astray(m, out)
        \/ m.to \in DOMAIN x.chans /\ out = <<OnWith(x, m.to, "ANSWER", m.n)>>
    BY <1>7 DEF TookRequest
  <2>4. m.to \in DOMAIN x.chans =>
            /\ OnWith(x, m.to, "ANSWER", m.n) \in Message
            /\ OnWith(x, m.to, "ANSWER", m.n).t = "ANSWER"
    BY <2>2, OnMessage
  <2>6. Astray(m, out) => out \in Seq(Message) /\ \A i \in DOMAIN out : out[i].t = "RESULT"
    <3>1. [t |-> "RESULT", n |-> 0] \in Message
      BY DEF Message
    <3> QED  BY <3>1, OneMessage DEF Astray
  <2>5. out \in Seq(Message) /\ \A i \in DOMAIN out : out[i].t \in {"ANSWER", "RESULT"}
    BY <2>3, <2>4, <2>6, NoMessage, OneMessage
  <2> QED  BY <1>7, <2>1, <2>5 DEF Proper, Kinds
<1>8. CASE m.t = "ANSWER" /\ s = "client" /\ TookAnswer(x, k, m, z, out, k2)
  <2>1. z = x /\ out = <<>>
    BY <1>8 DEF TookAnswer
  <2>2. k2 \in Tasks
    BY <1>8, TasksWith, TasksFacts DEF TookAnswer, Heard
  <2> QED  BY <1>0, <2>1, <2>2 DEF Proper
<1>9. CASE m.t = "EOF" /\ z = x /\ out = <<>> /\ k2 = k
  BY <1>0, <1>9 DEF Proper
<1>10. CASE m.t = "GLOBAL" /\ TookGlobal(s, x, m, z, out) /\ k2 = k
  <2>1. [t |-> "RESULT", n |-> m.n] \in Message
    BY <1>10 DEF Message
  <2>2. z \in Session /\ z.end = "no"
    BY <1>10 DEF TookGlobal, Still, Shift
  <2>3. out \in Seq(Message) /\ \A i \in DOMAIN out : out[i].t = "RESULT"
    BY <1>10, <2>1, NoMessage, OneMessage DEF TookGlobal
  <2> QED  BY <1>10, <2>2, <2>3 DEF Proper, Kinds
<1>11. CASE m.t = "RESULT" /\ TookResult(x, z, out) /\ k2 = k
  BY <1>0, <1>11 DEF Proper, TookResult, Queues
<1>12. CASE m.t = "DISCONNECT" /\ Stops(x, z, "disconnected") /\ out = <<>> /\ k2 = k
  BY <1>0, <1>12 DEF Proper, Stops
<1> QED  BY <1>1, <1>2, <1>3, <1>4, <1>5, <1>6, <1>7, <1>8, <1>9, <1>10, <1>11, <1>12 DEF Took

LEMMA DidProper ==
    ASSUME NEW s \in Sides, NEW x \in Session, NEW k \in Tasks, NEW n \in Nat,
           NEW z, NEW out, NEW k2, x.end = "no", Did(s, x, k, n, z, out, k2)
    PROVE  Proper(s, x, z, out, k2)
<1>0. <<>> \in Seq(Message) /\ \A i \in DOMAIN <<>> : <<>>[i].t \in Kinds(s)
  OBVIOUS
<1>1. CASE DidOpen(s, x, k, n, z, out, k2)
  <2>1. x.last + 1 \in Nat /\ <<s, n>> \in Names
    BY SessionFacts DEF Names
  <2>2. With(k, x.last + 1, Task("wait")) \in Tasks
    BY <2>1, TasksWith, TaskType DEF States
  <2>3. [t |-> "OPEN", from |-> x.last + 1, ch |-> <<s, n>>] \in Message
    BY <2>1 DEF Message
  <2> QED  BY <1>1, <2>2, <2>3 DEF DidOpen, Proper, Kinds, Shift
<1>2. CASE DidGlobal(s, x, k, z, out, k2)
  <2>1. \A kind \in {"forward", "keepalive"}, wants \in BOOLEAN :
            [t |-> "GLOBAL", n |-> x.asked + 1, kind |-> kind, wants |-> wants] \in Message
    BY SessionFacts DEF Message
  <2>2. z \in Session /\ z.end = "no" /\ k2 = k
    BY <1>2 DEF DidGlobal, Queues
  <2>3. out \in Seq(Message) /\ \A i \in DOMAIN out : out[i].t = "GLOBAL"
    BY <1>2, <2>1, OneMessage DEF DidGlobal
  <2> QED  BY <2>2, <2>3 DEF Proper, Kinds
<1>13. CASE DidNoReply(x, k, z, out, k2)
  <2>1. [t |-> "GLOBAL", n |-> 0, kind |-> "forward", wants |-> FALSE] \in Message
    BY DEF Message
  <2>2. out \in Seq(Message) /\ \A i \in DOMAIN out : out[i].t = "GLOBAL"
    BY <1>13, <2>1, OneMessage DEF DidNoReply
  <2> QED  BY <1>13, <2>2 DEF DidNoReply, Proper, Kinds
<1>3. CASE Stops(x, z, "left") /\ out = <<[t |-> "DISCONNECT"]>> /\ k2 = k
  <2>1. [t |-> "DISCONNECT"] \in Message
    BY DEF Message
  <2> QED  BY <1>3, <2>1 DEF Proper, Kinds, Stops
<1>4. CASE Stops(x, z, "eof") /\ out = <<>> /\ k2 = k
  BY <1>0, <1>4 DEF Proper, Stops
<1>5. ASSUME NEW id \in DOMAIN k, NEW st, NEW eof, NEW asks, Tells(k, k2, id, st, eof, asks)
      PROVE  k2 \in Tasks
  BY <1>5, TasksFacts, TasksWith DEF Tells
<1>6. \A id \in DOMAIN x.chans : \A t \in {"DATA", "EOF", "CLOSE"} :
          On(x, id, t) \in Message /\ On(x, id, t).t = t
  <2>1. \A id \in DOMAIN x.chans : \A t \in {"DATA", "EOF", "CLOSE"} : On(x, id, t) \in Message
    BY OnMessage
  <2> QED  BY <2>1 DEF On
<1>7. ASSUME NEW id \in DOMAIN k, DidGiveUp(x, k, id, z, out, k2)
      PROVE  Proper(s, x, z, out, k2)
  BY <1>0, <1>5, <1>7 DEF DidGiveUp, Proper
<1>8. ASSUME NEW id \in DOMAIN k, DidData(x, k, id, z, out, k2)
      PROVE  Proper(s, x, z, out, k2)
  <2>1. z \in Session /\ z.end = "no" /\ k2 = k
    BY <1>8 DEF DidData, Puts, Same
  <2>2. out = <<>> \/ (id \in DOMAIN x.chans /\ \E d : Sends(x, id, d, out))
    BY <1>8 DEF DidData
  <2>3. out \in Seq(Message) /\ \A i \in DOMAIN out : out[i].t = "DATA"
    BY <2>2, NoMessage, SendsSays
  <2> QED  BY <2>1, <2>3 DEF Proper, Kinds
<1>9. ASSUME NEW id \in DOMAIN k, DidEof(s, x, k, id, z, out, k2)
      PROVE  Proper(s, x, z, out, k2)
  <2>1. z \in Session /\ z.end = "no"
    BY <1>9 DEF DidEof, Puts, Same
  <2>2. out = <<>> \/ (id \in DOMAIN x.chans /\ out = <<On(x, id, "EOF")>>)
    BY <1>9 DEF DidEof
  <2>3. out \in Seq(Message) /\ \A i \in DOMAIN out : out[i].t = "EOF"
    BY <1>6, <2>2, NoMessage, OneMessage
  <2>4. k2 \in Tasks
    BY <1>5, <1>9 DEF DidEof
  <2> QED  BY <2>1, <2>3, <2>4 DEF Proper, Kinds
<1>10. ASSUME NEW id \in DOMAIN k, DidClose(s, x, k, id, z, out, k2)
       PROVE  Proper(s, x, z, out, k2)
  <2>1. z \in Session /\ z.end = "no"
    BY <1>10 DEF DidClose, Puts, Drops, Same, Still, Shift
  <2>2. out = <<>> \/ (id \in DOMAIN x.chans /\ out = <<On(x, id, "CLOSE")>>)
    BY <1>10 DEF DidClose
  <2>3. out \in Seq(Message) /\ \A i \in DOMAIN out : out[i].t = "CLOSE"
    BY <1>6, <2>2, NoMessage, OneMessage
  <2>4. k2 \in Tasks
    BY <1>5, <1>10 DEF DidClose
  <2> QED  BY <2>1, <2>3, <2>4 DEF Proper, Kinds
<1>11. ASSUME NEW id \in DOMAIN k, NEW wants \in BOOLEAN, NEW agent \in BOOLEAN, s = "client",
              DidRequest(x, k, id, wants, agent, z, out, k2)
       PROVE  Proper(s, x, z, out, k2)
  <2> DEFINE m == [t |-> "REQUEST", to |-> x.chans[id].peer, ch |-> x.chans[id].ch,
                   wants |-> wants, agent |-> agent, n |-> k[id].asks + 1]
  <2>1. out = <<>> \/ (id \in DOMAIN x.chans /\ out = <<m>>)
    BY <1>11 DEF DidRequest
  <2>2. id \in DOMAIN x.chans => m \in Message
    <3>1. k[id].asks + 1 \in Nat
      BY TasksFacts, OneTaskFacts
    <3>2. id \in DOMAIN x.chans => x.chans[id].peer \in Nat /\ x.chans[id].ch \in Names
      BY SessionFacts, TableFacts, ParamFacts
    <3> QED  BY <3>1, <3>2 DEF Message
  <2>3. m.t = "REQUEST"
    OBVIOUS
  <2> HIDE DEF m
  <2>4. out \in Seq(Message) /\ \A i \in DOMAIN out : out[i].t = "REQUEST"
    BY <2>1, <2>2, <2>3, NoMessage, OneMessage
  <2>5. k2 \in Tasks /\ z = x
    BY <1>5, <1>11 DEF DidRequest
  <2> QED  BY <1>11, <2>4, <2>5 DEF Proper, Kinds
<1>12. ASSUME NEW id \in DOMAIN k, s = "server", DidAnswer(x, k, id, z, out, k2)
       PROVE  Proper(s, x, z, out, k2)
  <2>1. z \in Session /\ z.end = "no" /\ k2 = k
    BY <1>12 DEF DidAnswer, Puts, Same
  <2>2. \/ out = <<>>
        \/ id \in DOMAIN x.chans /\ out = <<OnWith(x, id, "ANSWER", x.chans[id].asked)>>
    BY <1>12 DEF DidAnswer
  <2>3. id \in DOMAIN x.chans =>
            /\ OnWith(x, id, "ANSWER", x.chans[id].asked) \in Message
            /\ OnWith(x, id, "ANSWER", x.chans[id].asked).t = "ANSWER"
    <3>1. id \in DOMAIN x.chans => x.chans[id].asked \in Nat
      BY SessionFacts, TableFacts, ParamFacts
    <3> QED  BY <3>1, OnMessage
  <2>4. out \in Seq(Message) /\ \A i \in DOMAIN out : out[i].t = "ANSWER"
    BY <2>2, <2>3, NoMessage, OneMessage
  <2> QED  BY <1>12, <2>1, <2>4 DEF Proper, Kinds
<1> QED  BY <1>1, <1>2, <1>3, <1>4, <1>7, <1>8, <1>9, <1>10, <1>11, <1>12, <1>13 DEF Did
=============================================================================
