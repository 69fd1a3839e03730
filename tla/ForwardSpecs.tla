---------------------------- MODULE ForwardSpecs ----------------------------
(***************************************************************************)
(* The specifications of the forwards, -L, -R, -D and -w, as they are      *)
(* written on the command line and in ~/.ssh/config.                       *)
(*                                                                         *)
(* A specification is a sequence of tokens, separated by white space, and  *)
(* a token the sequence of its parts, separated by colons.  A host is a    *)
(* sequence of parts, because an IPv6 address has colons.                  *)
(***************************************************************************)
EXTENDS Integers, Sequences, SequencesExt

CONSTANT Numeral   \* str::parse::<u16>, on the parts it accepts

ASSUME NumeralAssumption ==
    \A p \in DOMAIN Numeral : Numeral[p] \in Nat /\ Numeral[p] <= 65535

NoPort == -1
Port(token) ==
    IF Len(token) = 1 /\ token[1] \in DOMAIN Numeral THEN Numeral[token[1]] ELSE NoPort

Bad == [ok |-> FALSE]
Forward(bind, port, host, hostport) ==
    IF NoPort \in {port, hostport} THEN Bad
    ELSE [ok |-> TRUE, bind |-> bind, port |-> port, host |-> host,
          hostport |-> hostport]

Loopback == <<"127.0.0.1">>
AnyAddress == <<"0.0.0.0">>

\* Mutant: the first colon separates host and port.
ParseForwardFirst(spec, default) ==
    IF Len(spec) # 2 \/ Len(spec[2]) < 2 THEN Bad
    ELSE Forward(default, Port(spec[1]), <<spec[2][1]>>, Port(Tail(spec[2])))

\* parse_local_forward, parse_remote_forward: they differ in the address
\* that is bound by default.  In two tokens the last colon separates
\* (parse_host_port_pair, parse_target_pair).  A single token is split
\* together with the white space around it (spec.split), so that a port next
\* to white space is refused; such specifications are left out here.
ParseForward(spec, default) ==
    LET t == spec[1]
        part(i) == <<t[i]>>
        pair(token) == Len(token) > 1
    IN  CASE Len(spec) = 1 /\ Len(t) = 3 ->
                Forward(default, Port(part(1)), part(2), Port(part(3)))
          [] Len(spec) = 1 /\ Len(t) = 4 ->
                Forward(part(1), Port(part(2)), part(3), Port(part(4)))
          [] Len(spec) = 2 /\ pair(spec[2]) ->
                Forward(IF pair(t) THEN Front(t) ELSE default, Port(<<Last(t)>>),
                        Front(spec[2]), Port(<<Last(spec[2])>>))
          [] Len(spec) = 3 -> Forward(default, Port(t), spec[2], Port(spec[3]))
          [] Len(spec) = 4 -> Forward(t, Port(spec[2]), spec[3], Port(spec[4]))
          [] OTHER -> Bad

\* parse_dynamic_forward: a forward without a target.
ParseDynamic(spec) ==
    LET t == spec[1]
        bound(bind, port) == Forward(bind, port, <<>>, 0)
    IN  CASE Len(spec) = 1 /\ Len(t) = 1 -> bound(Loopback, Port(t))
          [] Len(spec) = 1 /\ Len(t) = 2 -> bound(<<t[1]>>, Port(<<t[2]>>))
          [] Len(spec) = 2 -> bound(t, Port(spec[2]))
          [] OTHER -> Bad

NoId == -1
Device(name) == [name |-> name, id |-> NoId]
AutoDevice(id) == [name |-> <<"tun2222">>, id |-> id]
Tun(local, remote, id) == [ok |-> TRUE, local |-> local, remote |-> remote, id |-> id]

\* parse_tun_forward: "auto", "auto:<id>", one name for both ends or two.
ParseTun(spec) ==
    LET t == spec[1]
        id == IF Len(spec) = 1 THEN Port(Tail(t))
              ELSE IF Len(spec) = 2 /\ t = <<"auto", "">> THEN Port(spec[2])
              ELSE NoPort
    IN  CASE t[1] = "auto" /\ Len(t) # 1 ->
                IF id = NoPort THEN Bad ELSE Tun(AutoDevice(id), AutoDevice(id), id)
          [] t[1] # "auto" /\ Len(spec) = 1 /\ Len(t) = 2 ->
                Tun(Device(<<t[1]>>), Device(<<t[2]>>), NoId)
          [] Len(spec) = 1 /\ Len(t) = 1 -> Tun(Device(t), Device(t), NoId)
          [] Len(spec) = 2 /\ (t[1] # "auto" \/ Len(t) = 1) ->
                Tun(Device(t), Device(spec[2]), NoId)
          [] OTHER -> Bad

-----------------------------------------------------------------------------
\* The ways of writing a forward, from the documentation of the options and
\* of ssh_config: p and q are the ports as they are written.
Written(bind, p, host, q, default) ==
    UNION {IF Len(host) = 1 /\ Len(bind) = 1
           THEN {<<bind \o <<p>> \o host \o <<q>>>>} ELSE {},
           {<<Append(bind, p), Append(host, q)>>, <<bind, <<p>>, host, <<q>>>>},
           IF bind # default THEN {}
           ELSE {<<<<p>>, Append(host, q)>>, <<<<p>>, host, <<q>>>>}
                \cup (IF Len(host) = 1 THEN {<<<<p>> \o host \o <<q>>>>} ELSE {})}
=============================================================================
