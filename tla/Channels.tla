------------------------------ MODULE Channels ------------------------------
(***************************************************************************)
(* The connection layer of russh: the channels of an authenticated         *)
(* session and the global requests, client and server each with its own    *)
(* code, over two ordered wires.                                           *)
(*                                                                         *)
(* A session keeps two tables of channels: Encrypted.channels, with what   *)
(* the protocol needs (chans), and Session.channels, the queues to the     *)
(* tasks that hold the channels (refs).  The tasks are the applications:   *)
(* one opens a channel or is given one, then writes, asks and closes; a    *)
(* message to the session and its handling are one step, because the       *)
(* queue between them is drained in order.  Data is counted in units of    *)
(* the window.                                                             *)
(*                                                                         *)
(* A message names the channel by the number its receiver gave it.  Its    *)
(* field ch, which no code sees, says which channel was meant: the side    *)
(* that opened it and which of its channels it is.                         *)
(***************************************************************************)
EXTENDS Naturals, Sequences, FiniteSets

CONSTANTS
    MaxOpens,    \* bound: channels opened by each side
    MaxOps,      \* bound: operations of the tasks of both sides
    MaxStrays,   \* bound: those of each side whose answer nobody waits for
    Writes,      \* bound: the lengths of what a task writes, in units of data
    Window       \* config.window_size, in units of data

ASSUME OpensAssumption == MaxOpens \in [{"client", "server"} -> Nat]
ASSUME OpsAssumption == MaxOps \in Nat
ASSUME StraysAssumption == MaxStrays \in [{"client", "server"} -> Nat]
ASSUME WritesAssumption == Writes \subseteq Nat \ {0}
ASSUME WindowAssumption == Window \in Nat /\ Window >= 2

VARIABLES
    ses,    \* the two sessions
    task,   \* task[s]: the tasks of a side, by the number of their channel
    wire,   \* wire[s]: the messages s has sent and the peer has not read
    left    \* operations left to the tasks

vars == <<ses, task, wire, left>>

Sides == {"client", "server"}
Peer(s) == IF s = "client" THEN "server" ELSE "client"

Without(f, id) == [i \in DOMAIN f \ {id} |-> f[i]]
With(f, id, v) == [i \in DOMAIN f \cup {id} |-> IF i = id THEN v ELSE f[i]]

Init ==
    /\ ses = [s \in Sides |-> [last |-> 0, chans |-> <<>>, refs |-> {},
                               globals |-> <<>>, asked |-> 0, wants |-> FALSE,
                               end |-> "no"]]
    /\ task = [s \in Sides |-> <<>>]
    /\ wire = [s \in Sides |-> <<>>]
    /\ left = [opens |-> MaxOpens, ops |-> MaxOps, strays |-> MaxStrays]

\* ChannelParams, with the peer's window when it is known.
Params(ch, peer, win) ==
    [ch |-> ch, peer |-> peer, confirmed |-> peer # 0, win |-> win,
     own |-> Window, pend |-> 0, peof |-> FALSE, pclose |-> FALSE,
     wants |-> FALSE, asked |-> 0]

\* A task and its channel: waiting for the confirmation, given up, holding
\* it, or finished.  It counts the requests it made and sees the answers.
Task(st) == [st |-> st, eof |-> FALSE, asks |-> 0, answers |-> <<>>]

Alive(s) == ses[s].end = "no"
Does(x, out) == [ses |-> x, out |-> out]

\* A session that ends drops its tables.
Ended(x, why) == [x EXCEPT !.end = why, !.chans = <<>>, !.refs = {}, !.globals = <<>>]
Dies(x, why) == Does(Ended(x, why), <<>>)

\* A message on channel id of session x.
On(x, id, t) == [t |-> t, to |-> x.chans[id].peer, ch |-> x.chans[id].ch]
OnWith(x, id, t, n) == [t |-> t, to |-> x.chans[id].peer, ch |-> x.chans[id].ch, n |-> n]

-----------------------------------------------------------------------------
\* Encrypted: the operations on a channel that both sides use.

\* byte: nothing is sent on a channel that is not known.
Byte(x, id, t) == Does(x, IF id \in DOMAIN x.chans THEN <<On(x, id, t)>> ELSE <<>>)

\* Mutant: data kept back is overtaken.
EofNow(x, id) == Byte(x, id, "EOF")

\* eof, close: they wait for data that is kept back.
EncEof(x, id) ==
    IF id \in DOMAIN x.chans /\ x.chans[id].pend > 0
    THEN Does([x EXCEPT !.chans[id].peof = TRUE], <<>>)
    ELSE Byte(x, id, "EOF")
EncClose(x, id) ==
    IF id \in DOMAIN x.chans /\ x.chans[id].pend > 0
    THEN Does([x EXCEPT !.chans[id].pclose = TRUE], <<>>)
    ELSE Does([x EXCEPT !.chans = Without(@, id)], Byte(x, id, "CLOSE").out)

\* data: what the window admits is sent and the rest kept back, behind what
\* has been kept back already.
EncData(x, id, len) ==
    IF id \notin DOMAIN x.chans THEN Does(x, <<>>)
    ELSE LET c == x.chans[id]
             n == IF c.pend > 0 THEN 0 ELSE IF len < c.win THEN len ELSE c.win
         IN  Does([x EXCEPT !.chans[id] = [c EXCEPT !.pend = c.pend + (len - n),
                                                    !.win = c.win - n]],
                  [i \in 1 .. n |-> On(x, id, "DATA")])

\* Mutant: the data is sent and the window not spent.
FlushPendingFree(x, id) ==
    LET c == x.chans[id]
    IN  Does([x EXCEPT !.chans[id].pend = 0],
             [i \in 1 .. c.pend |-> On(x, id, "DATA")])

\* flush_pending: what the window admits is sent, and after the last of it
\* the EOF and the CLOSE that have waited.  That an EOF has waited is not
\* forgotten: the next flush sends it again.
FlushPending(x, id) ==
    LET c == x.chans[id]
        n == IF c.pend < c.win THEN c.pend ELSE c.win
        y == [x EXCEPT !.chans[id] = [c EXCEPT !.pend = c.pend - n, !.win = c.win - n]]
        data == [i \in 1 .. n |-> On(x, id, "DATA")]
        eof == IF c.peof THEN <<On(x, id, "EOF")>> ELSE <<>>
    IN  IF n < c.pend THEN Does(y, data)
        ELSE IF c.pclose
        THEN Does([y EXCEPT !.chans = Without(@, id)],
                  data \o eof \o <<On(x, id, "CLOSE")>>)
        ELSE Does(y, data \o eof)

\* adjust_window_size: below half of the target the window is granted again.
AdjustWindowSize(x, id) ==
    LET own == IF x.chans[id].own > 0 THEN x.chans[id].own - 1 ELSE 0
    IN  IF own < Window \div 2
        THEN Does([x EXCEPT !.chans[id].own = Window],
                  <<OnWith(x, id, "ADJUST", Window - own)>>)
        ELSE Does([x EXCEPT !.chans[id].own = own], <<>>)

\* Mutant: the lowest number that is free.
NewIdFree(x) ==
    CHOOSE i \in 1 .. x.last + 1 :
        i \notin DOMAIN x.chans /\ \A j \in 1 .. i - 1 : j \in DOMAIN x.chans

\* new_channel_id: numbers are not used again (they are, after 2^32).
NewId(x) == x.last + 1

-----------------------------------------------------------------------------
\* Messages that arrive.  Each returns the session, what it writes and, for
\* the task of the channel, its next state.

Told(r, id, t) == [ses |-> r.ses, out |-> r.out, id |-> id, task |-> t]
Untold(r) == Told(r, 0, <<>>)

\* A task is told only through refs, and hears nothing once it has given up.
Hears(s, x, id) == id \in x.refs /\ id \in DOMAIN task[s] /\ task[s][id].st # "quit"

\* The answers to CHANNEL_OPEN; a confirmed channel goes to a task.
Confirms(x, m, id) ==
    Told(Does([x EXCEPT !.refs = @ \cup {id},
                        !.chans = With(@, id, Params(m.ch, m.from, Window))],
              <<[t |-> "CONFIRM", to |-> m.from, ch |-> m.ch, from |-> id]>>),
         id, <<Task("held")>>)
Refuses(x, m) == Untold(Does(x, <<[t |-> "FAILURE", to |-> m.from, ch |-> m.ch]>>))

\* CHANNEL_OPEN.  The client confirms a forwarded connection and refuses a
\* kind it does not know.
ClientReceiveOpen(x, m, allowed) ==
    LET id == NewId(x)
        y == [x EXCEPT !.last = id]
    IN  IF allowed THEN Confirms(y, m, id) ELSE Refuses(y, m)

\* Mutant: a channel that is refused is not answered.
ServerReceiveOpenMute(x, m, allowed) ==
    LET id == NewId(x)
        y == [x EXCEPT !.last = id, !.refs = @ \cup {id}]
    IN  IF allowed THEN Confirms(y, m, id) ELSE Untold(Does(y, <<>>))

\* The server's handler decides, and the reference is kept whatever it says.
ServerReceiveOpen(x, m, allowed) ==
    LET id == NewId(x)
        y == [x EXCEPT !.last = id, !.refs = @ \cup {id}]
    IN  IF allowed THEN Confirms(y, m, id) ELSE Refuses(y, m)

\* CHANNEL_OPEN_CONFIRMATION: for a channel that is not known an error.  A
\* task that has given up does not learn of it, and nobody closes it.
ReceiveConfirm(s, x, m) ==
    IF m.to \notin DOMAIN x.chans THEN Untold(Dies(x, "Inconsistent"))
    ELSE Told(Does([x EXCEPT !.chans[m.to] = [x.chans[m.to] EXCEPT
                        !.peer = m.from, !.confirmed = TRUE, !.win = Window]], <<>>),
              m.to, IF Hears(s, x, m.to) THEN <<Task("held")>> ELSE <<>>)

\* CHANNEL_OPEN_FAILURE: the channel is forgotten and its task told.
ClientReceiveFailure(x, m) ==
    Told(Does([x EXCEPT !.chans = Without(@, m.to), !.refs = @ \ {m.to}], <<>>),
         m.to, IF Hears("client", x, m.to) THEN <<Task("refused")>> ELSE <<>>)

\* On the server a task that has given up makes it an error.
ServerReceiveFailure(x, m) ==
    LET y == [x EXCEPT !.chans = Without(@, m.to), !.refs = @ \ {m.to}]
    IN  IF Hears("server", x, m.to) THEN Told(Does(y, <<>>), m.to, <<Task("refused")>>)
        ELSE Untold(IF m.to \in x.refs THEN Dies(y, "SendError") ELSE Does(y, <<>>))

ReceiveData(s, x, m) ==
    IF m.to \in DOMAIN x.chans THEN Untold(AdjustWindowSize(x, m.to))
    ELSE Untold(Does(x, <<>>))

\* CHANNEL_WINDOW_ADJUST: for a channel that is not known an error.
ReceiveAdjust(s, x, m) ==
    IF m.to \notin DOMAIN x.chans THEN Untold(Dies(x, "WrongChannel"))
    ELSE Untold(FlushPending([x EXCEPT !.chans[m.to].win = @ + m.n], m.to))

\* Mutant: the client does not answer.
ClientReceiveCloseSilent(x, m) ==
    Untold(Does([x EXCEPT !.refs = @ \ {m.to}], <<>>))

\* Mutant: the client forgets the channel and does not answer.
ClientReceiveCloseForgets(x, m) ==
    Untold(Does([x EXCEPT !.refs = @ \ {m.to}, !.chans = Without(@, m.to)], <<>>))

\* CHANNEL_CLOSE: the client answers with its own, after the data it has
\* kept back.
ClientReceiveClose(x, m) ==
    LET r == EncClose(x, m.to)
    IN  Untold(Does([r.ses EXCEPT !.refs = @ \ {m.to}], r.out))

\* The server forgets the channel.
ServerReceiveClose(x, m) ==
    Untold(Does([x EXCEPT !.refs = @ \ {m.to}, !.chans = Without(@, m.to)], <<>>))

\* Mutant: the channel goes on wanting a reply.
AnswerAgain(x, id) ==
    IF id \in DOMAIN x.chans /\ x.chans[id].wants
    THEN Does(x, <<OnWith(x, id, "ANSWER", x.chans[id].asked)>>)
    ELSE Does(x, <<>>)

\* channel_success, channel_failure: only when the channel wants a reply.
Answer(x, id) ==
    IF id \in DOMAIN x.chans /\ x.chans[id].wants
    THEN Does([x EXCEPT !.chans[id].wants = FALSE],
              <<OnWith(x, id, "ANSWER", x.chans[id].asked)>>)
    ELSE Does(x, <<>>)

\* request_success and request_failure, the answer to a global request.  The
\* first is sent only if the last global request read wants a reply.  Nobody
\* waits for the answer number 0.
RequestSuccess(x) ==
    Does([x EXCEPT !.wants = FALSE], IF x.wants THEN <<[t |-> "RESULT", n |-> 0]>> ELSE <<>>)
RequestFailure(x) ==
    Does([x EXCEPT !.wants = FALSE], <<[t |-> "RESULT", n |-> 0]>>)

\* CHANNEL_REQUEST on the server: the handler answers now, or a task will.
\* A request for the agent gets the answer to a global request instead, also
\* on a channel that is not known.
ReceiveRequest(x, m, now) ==
    LET known == m.to \in DOMAIN x.chans
        y == IF known
             THEN [x EXCEPT !.chans[m.to] = [x.chans[m.to] EXCEPT
                        !.wants = m.wants, !.asked = m.n]]
             ELSE x
    IN  Untold(IF m.agent THEN IF now THEN RequestSuccess(y) ELSE RequestFailure(y)
               ELSE IF known /\ now THEN Answer(y, m.to) ELSE Does(y, <<>>))

ReceiveAnswer(x, m) ==
    Told(Does(x, <<>>), m.to,
         IF Hears("client", x, m.to)
         THEN <<[task["client"][m.to] EXCEPT !.answers = Append(@, m.n)]>> ELSE <<>>)

\* GLOBAL_REQUEST.  The client does not answer a keepalive that wants no
\* reply, and answers a forwarding.  (Nor does it answer the announcement of
\* host keys, which russh's server never sends.)
ClientReceiveGlobal(x, m) ==
    Untold(Does(x, IF m.kind = "keepalive" /\ ~m.wants THEN <<>>
                   ELSE <<[t |-> "RESULT", n |-> m.n]>>))

\* The server answers both, whether or not they want a reply.
ServerReceiveGlobal(x, m) ==
    Untold(Does([x EXCEPT !.wants = m.wants], <<[t |-> "RESULT", n |-> m.n]>>))

\* Mutant: the last request is taken for the one answered.
ReceiveResultLast(s, x, m) ==
    Untold(Does([x EXCEPT !.globals = IF @ = <<>> THEN @
                                      ELSE SubSeq(@, 1, Len(@) - 1)], <<>>))

\* REQUEST_SUCCESS, REQUEST_FAILURE: the oldest request is answered.
ReceiveResult(s, x, m) ==
    Untold(Does([x EXCEPT !.globals = IF @ = <<>> THEN @ ELSE Tail(@)], <<>>))

\* The messages that both sides read alike.
ReceiveAny(s, x, m) ==
    CASE m.t = "CONFIRM" -> ReceiveConfirm(s, x, m)
      [] m.t = "DATA" -> ReceiveData(s, x, m)
      [] m.t = "ADJUST" -> ReceiveAdjust(s, x, m)
      [] m.t = "EOF" -> Untold(Does(x, <<>>))
      [] m.t = "RESULT" -> ReceiveResult(s, x, m)
      [] m.t = "DISCONNECT" -> Untold(Dies(x, "disconnected"))

\* client_read_authenticated; choice stands for what a handler decides.
ClientReads(x, m, choice) ==
    CASE m.t = "OPEN" -> ClientReceiveOpen(x, m, choice)
      [] m.t = "FAILURE" -> ClientReceiveFailure(x, m)
      [] m.t = "CLOSE" -> ClientReceiveClose(x, m)
      [] m.t = "ANSWER" -> ReceiveAnswer(x, m)
      [] m.t = "GLOBAL" -> ClientReceiveGlobal(x, m)
      [] OTHER -> ReceiveAny("client", x, m)

\* server_read_authenticated
ServerReads(x, m, choice) ==
    CASE m.t = "OPEN" -> ServerReceiveOpen(x, m, choice)
      [] m.t = "FAILURE" -> ServerReceiveFailure(x, m)
      [] m.t = "CLOSE" -> ServerReceiveClose(x, m)
      [] m.t = "REQUEST" -> ReceiveRequest(x, m, choice)
      [] m.t = "GLOBAL" -> ServerReceiveGlobal(x, m)
      [] OTHER -> ReceiveAny("server", x, m)

\* Nobody reads what is written to a session that has ended.
Written(s, out) == IF Alive(Peer(s)) THEN wire[s] \o out ELSE <<>>

Receive(s) ==
    /\ Alive(s) /\ wire[Peer(s)] # <<>>
    /\ \E choice \in BOOLEAN :
          LET m == Head(wire[Peer(s)])
              r == IF s = "client" THEN ClientReads(ses[s], m, choice)
                   ELSE ServerReads(ses[s], m, choice)
          IN  /\ choice \/ m.t \in {"OPEN", "REQUEST"}
              /\ ses' = [ses EXCEPT ![s] = r.ses]
              /\ wire' = [wire EXCEPT
                            ![s] = Written(s, r.out),
                            ![Peer(s)] = IF r.ses.end = "no" THEN Tail(@) ELSE <<>>]
              /\ task' = IF r.task = <<>> THEN task
                         ELSE [task EXCEPT ![s] = With(@, r.id, r.task[1])]
    /\ UNCHANGED left

\* The peer's session has ended and its messages are read.
Eof(s) ==
    /\ Alive(s) /\ ~Alive(Peer(s)) /\ wire[Peer(s)] = <<>>
    /\ ses' = [ses EXCEPT ![s] = Ended(@, "eof")]
    /\ UNCHANGED <<task, wire, left>>

-----------------------------------------------------------------------------
\* The tasks.

Apply(s, r) ==
    /\ ses' = [ses EXCEPT ![s] = r.ses]
    /\ wire' = [wire EXCEPT ![s] = Written(s, r.out),
                           ![Peer(s)] = IF r.ses.end = "no" THEN @ ELSE <<>>]

\* channel_open_*: the session takes a number for the channel and the task
\* waits for the confirmation.
Open(s) ==
    LET id == NewId(ses[s])
        ch == <<s, left.opens[s]>>
    IN  /\ Alive(s) /\ left.opens[s] > 0 /\ left.ops > 0
        /\ left' = [left EXCEPT !.opens[s] = @ - 1, !.ops = @ - 1]
        /\ Apply(s, Does([ses[s] EXCEPT !.last = id,
                             !.chans = With(@, id, Params(ch, 0, 0)),
                             !.refs = @ \cup {id}],
                         <<[t |-> "OPEN", from |-> id, ch |-> ch]>>))
        /\ task' = [task EXCEPT ![s] = With(@, id, Task("wait"))]

\* A task operates on the channel it holds.
Holds(s, id) == Alive(s) /\ left.ops > 0 /\ task[s][id].st = "held"
Spend == left' = [left EXCEPT !.ops = @ - 1]

\* An operation whose answer will be read although nobody waits for it.
Strays(s) ==
    /\ left.strays[s] > 0
    /\ left' = [left EXCEPT !.ops = @ - 1, !.strays[s] = @ - 1]

\* Mutant: the channel is forgotten with the task.
GiveUpForgets(s, id) ==
    /\ Alive(s) /\ left.ops > 0 /\ task[s][id].st = "wait"
    /\ Spend
    /\ task' = [task EXCEPT ![s][id].st = "quit"]
    /\ ses' = [ses EXCEPT ![s].chans = Without(@, id)]
    /\ UNCHANGED wire

\* The task that waits is dropped, as by the timeout of the link monitor.
GiveUp(s, id) ==
    /\ Alive(s) /\ left.ops > 0 /\ task[s][id].st = "wait"
    /\ Spend
    /\ task' = [task EXCEPT ![s][id].st = "quit"]
    /\ UNCHANGED <<ses, wire>>

\* A task writes no data after its EOF.
Data(s, id, len) ==
    /\ Holds(s, id) /\ ~task[s][id].eof
    /\ Spend
    /\ Apply(s, EncData(ses[s], id, len))
    /\ UNCHANGED task

\* The server's session writes EOF and CLOSE at once, whatever it has kept
\* back, and forgets the channel only when the peer's CLOSE comes.
SendEof(s, id) ==
    /\ Holds(s, id) /\ ~task[s][id].eof
    /\ Spend
    /\ Apply(s, IF s = "client" THEN EncEof(ses[s], id)
                ELSE Byte(ses[s], id, "EOF"))
    /\ task' = [task EXCEPT ![s][id].eof = TRUE]

Close(s, id) ==
    /\ Holds(s, id)
    /\ Spend
    /\ Apply(s, IF s = "client" THEN EncClose(ses[s], id)
                ELSE Byte(ses[s], id, "CLOSE"))
    /\ task' = [task EXCEPT ![s][id].st = "closed"]

\* exec, pty-req and the other requests of the client, agent_forward too.
Request(id, wants, agent) ==
    /\ Holds("client", id)
    /\ IF agent THEN Strays("client") ELSE Spend
    /\ LET n == task["client"][id].asks + 1
           x == ses["client"]
           m == [t |-> "REQUEST", to |-> x.chans[id].peer, ch |-> x.chans[id].ch,
                 wants |-> wants, agent |-> agent, n |-> n]
       IN  /\ Apply("client", Does(x, IF id \in DOMAIN x.chans THEN <<m>> ELSE <<>>))
           /\ task' = [task EXCEPT !["client"][id].asks = IF wants THEN n ELSE @]

\* A task of the server answers through its Handle.
AnswerLater(id) ==
    /\ Holds("server", id)
    /\ Spend
    /\ Apply("server", Answer(ses["server"], id))
    /\ UNCHANGED task

\* Keepalives, and tcpip_forward and cancel_tcpip_forward with a channel for
\* the reply: the request joins the queue of those that are waited for.  A
\* keepalive does so even if it wants no reply, which only the client sends.
Global(s, kind, wants) ==
    /\ Alive(s) /\ left.ops > 0
    /\ ~wants => s = "client" /\ kind = "keepalive"
    /\ Spend
    /\ LET n == ses[s].asked + 1
       IN  Apply(s, Does([ses[s] EXCEPT !.asked = n,
                             !.globals = Append(@, n)],
                         <<[t |-> "GLOBAL", n |-> n, kind |-> kind, wants |-> wants]>>))
    /\ UNCHANGED task

\* tcpip_forward and cancel_tcpip_forward without one: nothing is queued.
GlobalNoReply(s) ==
    /\ Alive(s) /\ left.ops > 0
    /\ Strays(s)
    /\ Apply(s, Does(ses[s],
                     <<[t |-> "GLOBAL", n |-> 0, kind |-> "forward", wants |-> FALSE]>>))
    /\ UNCHANGED task

\* Handle::disconnect
Disconnect(s) ==
    /\ Alive(s) /\ left.ops > 0
    /\ Spend
    /\ Apply(s, Does(Ended(ses[s], "left"), <<[t |-> "DISCONNECT"]>>))
    /\ UNCHANGED task

\* The session has ended and its queues are dropped: the task is told.
Lost(s, id) ==
    /\ ~Alive(s) /\ task[s][id].st = "wait"
    /\ task' = [task EXCEPT ![s][id].st = "lost"]
    /\ UNCHANGED <<ses, wire, left>>

Next ==
    \/ \E s \in Sides :
          \/ Receive(s) \/ Eof(s) \/ Open(s) \/ Disconnect(s)
          \/ \E kind \in {"forward", "keepalive"}, wants \in BOOLEAN : Global(s, kind, wants)
          \/ GlobalNoReply(s)
          \/ \E id \in DOMAIN task[s] :
                \/ GiveUp(s, id) \/ Lost(s, id)
                \/ \E len \in Writes : Data(s, id, len)
                \/ SendEof(s, id) \/ Close(s, id)
    \/ \E id \in DOMAIN task["client"], wants, agent \in BOOLEAN : Request(id, wants, agent)
    \/ \E id \in DOMAIN task["server"] : AnswerLater(id)

Spec == Init /\ [][Next]_vars

-----------------------------------------------------------------------------
\* Properties.

TypeOK ==
    \A s \in Sides :
        /\ \A id \in DOMAIN ses[s].chans :
              /\ id \in 1 .. ses[s].last
              /\ ses[s].chans[id].own \in 1 .. Window
              /\ ses[s].chans[id].win \in 0 .. Window
              /\ ses[s].chans[id].confirmed => ses[s].chans[id].peer # 0
        /\ ses[s].refs \subseteq 1 .. ses[s].last
        /\ \A id \in DOMAIN task[s] :
              task[s][id].st \in {"wait", "quit", "held", "refused", "closed", "lost"}

OnChannel == {"CONFIRM", "FAILURE", "DATA", "ADJUST", "EOF", "CLOSE",
              "REQUEST", "ANSWER"}

\* No message reaches another channel than it was meant for, although the
\* two sides number their channels on their own and in the order they learn
\* of them, and either may forget a number while messages for it are under
\* way.
NoCrossTalk ==
    \A s \in Sides : \A i \in DOMAIN wire[s] :
        LET m == wire[s][i]
            there == ses[Peer(s)].chans
        IN  m.t \in OnChannel /\ m.to \in DOMAIN there => there[m.to].ch = m.ch

\* Nothing is under way between two sessions that go on.
Settled == \A s \in Sides : Alive(s) /\ wire[s] = <<>>

\* When nothing is under way the two tables describe the same channels: a
\* channel is known to both sides or to none, and each has the other's
\* number of it.
TablesAgree ==
    Settled =>
        {<<id, ses["client"].chans[id].peer>> : id \in DOMAIN ses["client"].chans}
        = {<<ses["server"].chans[id].peer, id>> : id \in DOMAIN ses["server"].chans}

\* Nothing is stuck for want of window: data that was kept back is sent in
\* the end, because a window is granted again before it stays at 0, and a
\* channel that its task has closed is forgotten, because the peer goes on
\* granting to the CLOSE that waits.
CloseCompletes ==
    Settled =>
        \A s \in Sides : \A id \in DOMAIN ses[s].chans :
            /\ ses[s].chans[id].pend = 0
            /\ id \in DOMAIN task[s] => task[s][id].st # "closed"

Waits(s, id) == id \in DOMAIN task[s] /\ task[s][id].st = "wait"

\* While a task waits for its channel, its CHANNEL_OPEN or the answer to it
\* is under way: it is told something in the end, and never waits for ever.
OpenersAnswered ==
    \A s \in Sides : \A id \in DOMAIN task[s] :
        Waits(s, id) /\ Alive(s) /\ Alive(Peer(s)) =>
            \/ \E i \in DOMAIN wire[s] :
                  wire[s][i].t = "OPEN" /\ wire[s][i].from = id
            \/ \E i \in DOMAIN wire[Peer(s)] :
                  LET m == wire[Peer(s)][i]
                  IN  m.t \in {"CONFIRM", "FAILURE"} /\ m.to = id

\* After its EOF the client writes no data on a channel, and after its CLOSE
\* neither data nor EOF, even when the data before them had to wait for the
\* window.  An EOF may follow an EOF: one that has waited is sent again at
\* every later grant.
EofLast ==
    \A i, j \in DOMAIN wire["client"] :
        LET first == wire["client"][i]
            then == wire["client"][j]
        IN  /\ i < j
            /\ \/ first.t \in {"EOF", "CLOSE"} /\ then.t = "DATA"
               \/ first.t = "CLOSE" /\ then.t = "EOF"
            => first.ch # then.ch

Numbers(q, t) == {q[i].n : i \in {i \in DOMAIN q : q[i].t = t}} \ {0}
Rising(q, t) ==
    \A i, j \in DOMAIN q :
        i < j /\ q[i].t = t /\ q[j].t = t /\ q[j].n # 0 => q[i].n < q[j].n

\* The requests that are waited for are the last of those whose answer or
\* else request is under way, in the same order: nobody waits for an answer
\* that has been read.  And they are all of those, so that every answer goes
\* to the one who asked, until a side sends what is answered and not waited
\* for: a forwarding without a channel for the reply, or a request for the
\* agent.  From then on its queue has slipped and answers go to the next.
GlobalsInStep ==
    \A s \in Sides :
        LET results == wire[Peer(s)]
            requests == wire[s]
            waited == {ses[s].globals[i] : i \in DOMAIN ses[s].globals}
            coming == Numbers(results, "RESULT") \cup Numbers(requests, "GLOBAL")
        IN  Alive(s) /\ Alive(Peer(s)) =>
                /\ Rising(results, "RESULT") /\ Rising(requests, "GLOBAL")
                /\ \A m \in Numbers(results, "RESULT"), n \in Numbers(requests, "GLOBAL") : m < n
                /\ \A i, j \in DOMAIN ses[s].globals :
                      i < j => ses[s].globals[i] < ses[s].globals[j]
                /\ waited \subseteq coming
                /\ \A m \in waited, n \in coming : m < n => n \in waited
                /\ left.strays[s] = MaxStrays[s] => coming \subseteq waited

\* The answers a task sees on its channel are to its requests in the order it
\* made them, none of them twice.
AnswersInOrder ==
    \A id \in DOMAIN task["client"] :
        LET a == task["client"][id].answers
        IN  /\ \A i \in DOMAIN a : a[i] <= task["client"][id].asks
            /\ \A i, j \in DOMAIN a : i < j => a[i] < a[j]

\* A session is ended by what the peer sends only in two ways: a window
\* granted by the peer finds its channel forgotten (WrongChannel, of which no
\* more is said here), or, on the server, a channel is refused whose task had
\* given up.
EndsExplained ==
    \A s \in Sides :
        /\ ses[s].end \in {"no", "eof", "left", "disconnected", "WrongChannel",
                           "SendError"}
        /\ ses[s].end = "SendError" =>
              s = "server" /\ \E id \in DOMAIN task[s] : task[s][id].st = "quit"
=============================================================================
