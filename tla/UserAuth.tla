------------------------------ MODULE UserAuth ------------------------------
(***************************************************************************)
(* User authentication: the loop of sshtun over the identities it has, the *)
(* Handle and the session task of the client, which answer each other      *)
(* through two queues, and the session of the server.                      *)
(*                                                                         *)
(* A plan is the sequence of attempts the application will make: identity  *)
(* files that could be loaded ("key"), then the identities of the agent    *)
(* ("agent"); the other methods of Handle are "none", "password" and "ki"  *)
(* (keyboard-interactive).  sig is what comes of signing with an identity: *)
(* a good signature, a wrong one, an error of the agent, or the data       *)
(* handed back unsigned.  One user is assumed, and packets in clear: the   *)
(* transport is the subject of Kex.                                        *)
(***************************************************************************)
EXTENDS Naturals, Sequences

CONSTANTS
    Plans,        \* the sequences of attempts, [how, id, sig]
    Offered,      \* the identities auth_publickey_offered accepts
    Accepted,     \* the identities the other handlers of the server accept
    ServerMethods,  \* config.methods
    Proceed,      \* proceed_with_methods of a rejection: <<>> or <<set>>
    MaxRounds,    \* bound: prompts of one keyboard-interactive attempt
    Banner,       \* config.auth_banner is set
    MayDie        \* the server's side may be lost

\* There is something to try, by one of the methods of Handle; what cur says
\* in place of an identity is not one.
ASSUME PlansAssumption ==
    \A p \in Plans :
        /\ DOMAIN p = 1 .. Len(p) /\ Len(p) \in Nat \ {0}
        /\ \A i \in DOMAIN p : /\ p[i].how \in {"key", "agent", "none", "password", "ki"}
                             /\ p[i].id \notin {"-", "pk"}

VARIABLES
    plan,     \* the plan of this run
    app,      \* the application, inside one of the methods of Handle
    msgs,     \* Handle.sender: messages to the session task
    replies,  \* Handle.receiver: replies of the session task
    cli,      \* the session task of the client
    srv,      \* the session of the server
    c2s, s2c  \* the packets under way

vars == <<plan, app, msgs, replies, cli, srv, c2s, s2c>>

Alive(side) == side.end = "no"

Init ==
    /\ plan \in Plans
    /\ app = [at |-> "next", i |-> 1]
    /\ cli = [st |-> "service", sent |-> FALSE, accepted |-> FALSE,
              cur |-> "-", method |-> <<>>, blocked |-> "no", end |-> "no"]
    /\ srv = [st |-> "service", methods |-> ServerMethods, cur |-> "-",
              named |-> FALSE, rounds |-> 0, who |-> "-", shut |-> FALSE,
              end |-> "no"]
    /\ msgs = <<>> /\ replies = <<>>
    /\ c2s = <<>> /\ s2c = <<[t |-> "EXT_INFO"]>>

-----------------------------------------------------------------------------
\* The application: authenticate_handle and the methods of Handle.

Attempt == plan[app.i]
Finished == app.at \in {"ok", "failed"}

\* The next identity, or "Failed to authenticate": the Handle is dropped.
NextAttempt(a) ==
    IF a.i < Len(plan) THEN [at |-> "next", i |-> a.i + 1]
    ELSE [a EXCEPT !.at = "failed"]

\* Authenticate is sent; when the task has ended the method is an error.
AppSend ==
    /\ app.at = "next"
    /\ IF Alive(cli)
       THEN /\ app' = [app EXCEPT !.at = "wait"]
            /\ msgs' = Append(msgs, [t |-> "Authenticate", a |-> Attempt])
       ELSE app' = NextAttempt(app) /\ UNCHANGED msgs
    /\ UNCHANGED <<plan, replies, cli, srv, c2s, s2c>>

\* wait_recv_reply, wait_recv_keyboard_interactive_reply and the loop of
\* authenticate_future: a reply of another kind is skipped.
AppReply ==
    /\ app.at = "wait" /\ replies # <<>>
    /\ replies' = Tail(replies)
    /\ LET r == Head(replies).t
           answers == r = "InfoRequest" /\ Attempt.how = "ki"
       IN  /\ app' = CASE r = "Success" -> [app EXCEPT !.at = "ok"]
                       [] r = "Failure" -> NextAttempt(app)
                       [] r = "SignRequest" /\ Attempt.how = "agent" ->
                             [app EXCEPT !.at = "sign"]
                       [] answers /\ ~Alive(cli) -> NextAttempt(app)
                       [] OTHER -> app
           /\ msgs' = IF answers /\ Alive(cli)
                      THEN Append(msgs, [t |-> "InfoResponse"]) ELSE msgs
    /\ UNCHANGED <<plan, cli, srv, c2s, s2c>>

\* The task has ended and its replies are read: the attempt has failed, but
\* the loop of the keyboard-interactive method goes on asking.
AppNoReply ==
    /\ app.at = "wait" /\ replies = <<>> /\ ~Alive(cli)
    /\ app' = IF Attempt.how = "ki" THEN [app EXCEPT !.at = "spin"]
              ELSE NextAttempt(app)
    /\ UNCHANGED <<plan, msgs, replies, cli, srv, c2s, s2c>>

\* auth_publickey_sign: the agent answers.  An error ends the attempt, and
\* the task is told nothing.
AppSign ==
    /\ app.at = "sign"
    /\ IF Attempt.sig = "fails" \/ ~Alive(cli)
       THEN app' = NextAttempt(app) /\ UNCHANGED msgs
       ELSE /\ app' = [app EXCEPT !.at = "wait"]
            /\ msgs' = Append(msgs, [t |-> "Signed", a |-> Attempt])
    /\ UNCHANGED <<plan, replies, cli, srv, c2s, s2c>>

-----------------------------------------------------------------------------
\* The session task of the client.

Request(a, real) == [t |-> "REQUEST", a |-> a, real |-> real]

\* Mutant: the request does not wait for the service.
AuthRequestAtOnce(x, a) ==
    [ses |-> [x EXCEPT !.sent = TRUE, !.method = <<a>>],
     out |-> (IF x.st = "service" /\ ~x.sent
              THEN <<[t |-> "SERVICE_REQUEST"]>> ELSE <<>>)
             \o <<Request(a, FALSE)>>]

\* write_auth_request_if_needed: the service is requested once, and the
\* first request waits for it to be accepted.
WriteAuthRequestIfNeeded(x, a) ==
    LET asks == x.st = "service" /\ ~x.sent
        waiting == x.st = "request" \/ (x.st = "service" /\ x.accepted)
    IN  [ses |-> [x EXCEPT !.sent = @ \/ asks, !.method = <<a>>],
         out |-> (IF asks THEN <<[t |-> "SERVICE_REQUEST"]>> ELSE <<>>)
                 \o (IF waiting THEN <<Request(a, FALSE)>> ELSE <<>>)]

\* handle_msg: Signed and AuthInfoResponse are of no use here.
ClientMsg ==
    /\ Alive(cli) /\ cli.blocked = "no" /\ msgs # <<>>
    /\ msgs' = Tail(msgs)
    /\ IF Head(msgs).t = "Authenticate"
       THEN LET r == WriteAuthRequestIfNeeded(cli, Head(msgs).a)
            IN  cli' = r.ses /\ c2s' = c2s \o r.out
       ELSE UNCHANGED <<cli, c2s>>
    /\ UNCHANGED <<plan, app, replies, srv, s2c>>

\* What a packet makes of the session: its next state, the packets written
\* and the replies given.
Does(x, out, rep) == [ses |-> x, out |-> out, rep |-> rep]
Ends(x, why, rep) == Does([x EXCEPT !.end = why], <<>>, rep)

\* Mutant: the request that waited is forgotten.
ServiceAcceptedMute(x) == Does([x EXCEPT !.accepted = TRUE, !.st = "request"], <<>>, <<>>)

\* SERVICE_ACCEPT: the method that was waiting is requested.  Only here is
\* it noted that the method is keyboard-interactive.
ServiceAccepted(x) ==
    IF x.method = <<>> THEN Does([x EXCEPT !.accepted = TRUE], <<>>, <<>>)
    ELSE Does([x EXCEPT !.accepted = TRUE, !.st = "request",
                        !.cur = IF x.method[1].how = "ki" THEN "ki" ELSE "-"],
              <<Request(x.method[1], FALSE)>>, <<>>)

\* Mutant: the first rejection ends the session.
AuthRejectedOnce(x, methods) == Ends(x, "no method", <<[t |-> "Failure"]>>)

\* USERAUTH_FAILURE: without a method left the session gives up.
AuthRejected(x, methods) ==
    LET y == [x EXCEPT !.method = <<>>]
        rep == <<[t |-> "Failure"]>>
    IN  IF methods = {} THEN Ends(y, "no method", rep)
        ELSE Does(y, <<>>, rep)

\* Message 60 is USERAUTH_PK_OK or USERAUTH_INFO_REQUEST: which of the two
\* is told from cur.  A PK_OK cannot be read as a request for information.
\* For the agent, and for the answers, the task waits inside the handler.
PkOkOrInfoRequest(x, m) ==
    LET y == [x EXCEPT !.method = <<>>]
        how == IF x.method = <<>> THEN "-" ELSE x.method[1].how
    IN  CASE x.cur = "ki" /\ m.t = "INFO_REQUEST" ->
               Does([x EXCEPT !.blocked = "InfoResponse"], <<>>,
                    <<[t |-> "InfoRequest"]>>)
          [] x.cur = "ki" /\ m.t = "PK_OK" -> Ends(x, "parse", <<>>)
          [] x.cur # "ki" /\ how = "key" ->
               Does(y, <<Request(x.method[1], TRUE)>>, <<>>)
          [] x.cur # "ki" /\ how = "agent" ->
               Does([y EXCEPT !.blocked = "Signed"], <<>>,
                    <<[t |-> "SignRequest"]>>)
          [] OTHER -> Does(y, <<>>, <<>>)

\* process_packet.
ClientHandle(x, m) ==
    IF m.t = "EXT_INFO" \/ x.st = "authed" THEN Does(x, <<>>, <<>>)
    ELSE
    CASE x.st = "service" /\ m.t = "SERVICE_ACCEPT" -> ServiceAccepted(x)
      [] x.st = "request" /\ m.t = "SUCCESS" ->
            Does([x EXCEPT !.st = "authed"], <<>>, <<[t |-> "Success"]>>)
      [] x.st = "request" /\ m.t = "BANNER" -> Does(x, <<>>, <<>>)
      [] x.st = "request" /\ m.t = "FAILURE" -> AuthRejected(x, m.methods)
      [] x.st = "request" /\ m.t \in {"PK_OK", "INFO_REQUEST"} ->
            PkOkOrInfoRequest(x, m)
      [] OTHER -> Ends(x, "inconsistent", <<>>)

\* A reply that finds the Handle dropped ends the session.
ClientReceive ==
    /\ Alive(cli) /\ cli.blocked = "no" /\ s2c # <<>>
    /\ s2c' = Tail(s2c)
    /\ LET r == ClientHandle(cli, Head(s2c))
       IN  IF r.rep # <<>> /\ app.at = "failed"
           THEN cli' = [cli EXCEPT !.end = "send"] /\ UNCHANGED <<c2s, replies>>
           ELSE /\ cli' = r.ses
                /\ c2s' = c2s \o r.out
                /\ replies' = replies \o r.rep
    /\ UNCHANGED <<plan, app, msgs, srv>>

\* The loop inside the handler: anything but the awaited message is thrown
\* away.  Data that comes back unsigned is not sent.
ClientUnblock ==
    /\ Alive(cli) /\ cli.blocked # "no" /\ msgs # <<>>
    /\ msgs' = Tail(msgs)
    /\ LET m == Head(msgs)
       IN  /\ cli' = IF m.t = cli.blocked THEN [cli EXCEPT !.blocked = "no"]
                     ELSE cli
           /\ c2s' = IF m.t # cli.blocked THEN c2s
                     ELSE IF m.t = "InfoResponse"
                     THEN Append(c2s, [t |-> "INFO_RESPONSE"])
                     ELSE IF m.a.sig # "unsigned" THEN Append(c2s, Request(m.a, TRUE))
                     ELSE c2s
    /\ UNCHANGED <<plan, app, replies, srv, s2c>>

\* The Handle is dropped, or the server's side has gone: the loop of the
\* session ends, unless it waits inside a handler.
ClientEnds ==
    /\ Alive(cli) /\ cli.blocked = "no"
    /\ \/ app.at = "failed" /\ msgs = <<>>
       \/ ~Alive(srv) /\ s2c = <<>>
    /\ cli' = [cli EXCEPT !.end = "closed"]
    /\ UNCHANGED <<plan, app, msgs, replies, srv, c2s, s2c>>

-----------------------------------------------------------------------------
\* The server.

\* reject_auth_request
Reject(x) ==
    Does([x EXCEPT !.cur = "-", !.shut = @ \/ x.methods = {}],
         <<[t |-> "FAILURE", methods |-> x.methods]>>, <<>>)
Accept(x, a) ==
    Does([x EXCEPT !.st = "authed", !.who = a.id], <<[t |-> "SUCCESS"]>>, <<>>)
Proceeding(x, proceed) ==
    IF proceed = <<>> THEN x ELSE [x EXCEPT !.methods = proceed[1]]

\* password, none: without proceed_with_methods the method is taken away.
PlainRequest(x, a, proceed) ==
    LET y == IF proceed = <<>> THEN [x EXCEPT !.methods = @ \ {a.how}]
             ELSE Proceeding(x, proceed)
    IN  IF a.id \in Accepted THEN Accept([x EXCEPT !.named = @ \/ a.how = "password"], a)
        ELSE Reject([y EXCEPT !.named = FALSE])

\* publickey, a probe.
PkProbe(x, a, proceed) ==
    IF a.id \in Offered
    THEN Does([x EXCEPT !.cur = "pk", !.named = TRUE], <<[t |-> "PK_OK"]>>, <<>>)
    ELSE Reject([Proceeding(x, proceed) EXCEPT !.named = FALSE])

\* Mutant: the signature is not verified.
PkUnverified(x, a, proceed) ==
    IF a.id \in Accepted THEN Accept(x, a) ELSE Reject(x)

\* publickey with a signature: of the key that was probed, or, when no user
\* is named, offered again.
PkReal(x, a, proceed) ==
    LET known == x.cur = "pk" /\ x.named
        valid == known \/ (~x.named /\ a.id \in Offered)
        y == [x EXCEPT !.named = TRUE]
    IN  IF ~valid \/ a.sig # "good" THEN Reject(y)
        ELSE IF a.id \in Accepted THEN Accept(y, a)
        ELSE Reject([Proceeding(y, proceed) EXCEPT !.named = FALSE])

\* keyboard-interactive: the handler accepts, rejects or asks.
KiAnswer(x, a, proceed, asks) ==
    IF asks
    THEN Does([x EXCEPT !.rounds = @ + 1], <<[t |-> "INFO_REQUEST"]>>, <<>>)
    ELSE IF a.id \in Accepted THEN Accept(x, a)
    ELSE Reject([Proceeding(x, proceed) EXCEPT !.rounds = 0])

\* server_read_auth_request
ReadAuthRequest(x, m, proceed, asks) ==
    CASE m.a.how \in {"none", "password"} -> PlainRequest(x, m.a, proceed)
      [] m.a.how = "ki" ->
            KiAnswer([x EXCEPT !.named = TRUE, !.cur = m.a.id, !.rounds = 0],
                     m.a, proceed, asks)
      [] OTHER -> IF m.real THEN PkReal(x, m.a, proceed)
                  ELSE PkProbe(x, m.a, proceed)

\* read_userauth_info_response
ReadInfoResponse(x, proceed, asks) ==
    IF x.cur \in {"-", "pk"} THEN Reject(x)
    ELSE KiAnswer(x, [id |-> x.cur], proceed, asks)

\* server_accept_service and process_packet; what does not fit the state is
\* ignored.
ServerHandle(x, m, proceed, asks) ==
    CASE x.st = "service" /\ m.t = "SERVICE_REQUEST" ->
            Does([x EXCEPT !.st = "request"],
                 <<[t |-> "SERVICE_ACCEPT"]>>
                 \o (IF Banner THEN <<[t |-> "BANNER"]>> ELSE <<>>), <<>>)
      [] x.st = "request" /\ m.t = "REQUEST" ->
            ReadAuthRequest(x, m, proceed, asks)
      [] x.st = "request" /\ m.t = "INFO_RESPONSE" ->
            ReadInfoResponse(x, proceed, asks)
      [] OTHER -> Does(x, <<>>, <<>>)

ServerReceive ==
    /\ Alive(srv) /\ c2s # <<>>
    /\ c2s' = Tail(c2s)
    /\ \E proceed \in Proceed, asks \in BOOLEAN :
          LET r == ServerHandle(srv, Head(c2s), proceed, asks)
          IN  /\ asks => srv.rounds < MaxRounds
              /\ srv' = r.ses
              /\ s2c' = s2c \o r.out
    /\ UNCHANGED <<plan, app, msgs, replies, cli>>

\* The client's side is closed, or the server's side is lost.
ServerEnds ==
    /\ Alive(srv)
    /\ MayDie \/ (~Alive(cli) /\ c2s = <<>>)
    /\ srv' = [srv EXCEPT !.end = IF Alive(cli) THEN "lost" ELSE "closed"]
    /\ UNCHANGED <<plan, app, msgs, replies, cli, c2s, s2c>>

-----------------------------------------------------------------------------

Next ==
    \/ AppSend \/ AppReply \/ AppNoReply \/ AppSign
    \/ ClientMsg \/ ClientReceive \/ ClientUnblock \/ ClientEnds
    \/ ServerReceive \/ ServerEnds

Spec == Init /\ [][Next]_vars

\* The application, both sessions and the agent go on; nothing says that the
\* server's side is ever lost.
FairSpec ==
    /\ Spec
    /\ WF_vars(AppSend \/ AppReply \/ AppNoReply \/ AppSign)
    /\ WF_vars(ClientMsg \/ ClientReceive \/ ClientUnblock \/ ClientEnds)
    /\ WF_vars(ServerReceive)

-----------------------------------------------------------------------------
\* Properties.

\* The attempts that go astray in the client: one whose signer failed or gave
\* the data back, and a change between keyboard-interactive and another
\* method, of which cur knows nothing.
Astray(i) ==
    \/ plan[i].how = "agent" /\ plan[i].sig \in {"fails", "unsigned"}
    \/ i > 1 /\ (plan[i].how = "ki") # (plan[1].how = "ki")
WentAstray == \E i \in 1 .. app.i : Astray(i)

Good(a) ==
    /\ a.id \in Accepted
    /\ a.how \in {"key", "agent"} => a.id \in Offered /\ a.sig = "good"

\* Both ends agree on who was let in: the server accepts an identity only on
\* a good signature where one is needed, the client reports success only for
\* the attempt that the server accepted, and it never gives up on a server
\* that has let it in unless the connection was lost.
AuthAgrees ==
    /\ srv.st = "authed" =>
          \E i \in 1 .. app.i : plan[i].id = srv.who /\ Good(plan[i])
    /\ app.at = "ok" => srv.st = "authed" /\ srv.who = Attempt.id
    /\ srv.st = "authed" /\ app.at = "failed" => srv.end # "no"

\* Requests and answers alternate: of the messages, packets and replies that
\* belong to an attempt one is under way at a time, also when an attempt has
\* gone astray.
Belonging(q) ==
    {i \in DOMAIN q : q[i].t \notin {"EXT_INFO", "BANNER"}}
OneUnderWay ==
    /\ \A q \in {msgs, c2s, s2c, replies} : \A i, j \in Belonging(q) : i = j
    /\ \A p, q \in {"msgs", "c2s", "s2c", "replies"} :
          LET queue == [msgs |-> msgs, c2s |-> c2s, s2c |-> s2c, replies |-> replies]
          IN  Belonging(queue[p]) # {} /\ Belonging(queue[q]) # {} => p = q

\* sshtun tries every identity: it fails only when none of them is good, or
\* the server has left no method or was lost, or an attempt went astray.
AllTried ==
    app.at = "failed" =>
        \/ ~\E i \in DOMAIN plan : Good(plan[i])
        \/ srv.shut \/ srv.end = "lost"
        \/ \E i \in DOMAIN plan : Astray(i)

\* Authentication ends, one way or the other, unless an attempt goes astray
\* or a keyboard-interactive method is left alone with a session that ended;
\* and when it ends in failure the session of the client ends too.
AuthEnds ==
    /\ <>(Finished \/ WentAstray \/ app.at = "spin")
    /\ (app.at = "failed") ~> (~Alive(cli) \/ WentAstray)

\* "Integrates with SSH_AUTH_SOCK (ssh-agent)": whatever the agent answers
\* the next identity is tried and the connection succeeds or fails.
AgentAuthEnds == <>Finished
=============================================================================
