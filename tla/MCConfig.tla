------------------------------ MODULE MCConfig ------------------------------
(***************************************************************************)
(* Files of a few lines in every arrangement, with a fixed command line,   *)
(* and command lines of every shape, with a fixed file.                    *)
(***************************************************************************)
EXTENDS Config

MCDigest(id) == (id * 7) % 128
MCNumeral == ("22" :> 22) @@ ("080" :> 80) @@ ("65535" :> 65535) @@ ("255" :> 255)
MCDefaultKeys == <<"ed25519", "rsa">>

Target == <<"alias">>
Gate == <<"gate">>

Opt(k, v) == [k |-> "option", key |-> k, val |-> v]
HostLine(pats) == [k |-> "host", pats |-> pats]
Pat(neg, hosts) == [neg |-> neg, hosts |-> hosts]
MatchLine(by, hosts) == [k |-> "match", pats |-> {[by |-> by, hosts |-> hosts]}]
Include(f) == [k |-> "include", file |-> f]

\* Lines of ~/.ssh/config: "Host alias", "Host * !alias", Match, options and
\* the two files that may be included.
RootLines ==
    {HostLine({Pat(FALSE, {Target})}),
     HostLine({Pat(FALSE, {Target, Gate}), Pat(TRUE, {Target})}),
     Opt("port", <<"22">>), Opt("hostname", <<"a">>),
     Include("f1"), Include("f2")}
F1Lines ==
    {HostLine({Pat(FALSE, {Gate})}), MatchLine("host", {Target}),
     Opt("port", <<"x">>), Opt("port", <<"080">>), Include("f2")}
F2 == {<<Opt("hostname", <<"b">>), Opt("local", <<<<"22", "b", "22">>>>)>>,
       <<Include("f1"), Opt("port", <<"65535">>)>>}

NoAddr == [local |-> None, remote |-> None, local6 |-> None, remote6 |-> None]
Dest(user, parts) == [user |-> user, parts |-> parts]
Plain ==
    [dest |-> Dest(None, Target), port |-> None, ids |-> <<>>, raw |-> 0,
     jumps |-> <<>>, local |-> <<>>, remote |-> <<>>, dynamic |-> <<>>,
     tun |-> None, addr |-> NoAddr, checks |-> FALSE]
ViaGate ==
    [Plain EXCEPT !.port = Some(80), !.jumps = <<Dest(None, Gate)>>,
                  !.local = <<<<<<"080">>, <<"h">>, <<"22">>>>>>]

FileCases ==
    {[conf |-> ("f0" :> r) @@ ("f1" :> f1) @@ ("f2" :> f2), args |-> ViaGate] :
        r \in [1 .. 3 -> RootLines], f1 \in [1 .. 2 -> F1Lines], f2 \in F2}

\* One file for all command lines.
OneFile ==
    ("f1" :> <<>>) @@ ("f2" :> <<>>) @@
    ("f0" :> <<HostLine({Pat(FALSE, {Gate})}),
               Opt("user", "gatekeeper"), Opt("identity", "missing"),
               Opt("identity", "rsa"),
               Opt("jump", <<>>),
               MatchLine("user", {}),
               Opt("jump", <<Dest(None, Gate), Dest(Some("me"), Gate \o <<"080">>)>>),
               Opt("tun", <<<<"tun0">>, <<"tun1">>>>)>>)

Dests == {Dest(None, Target), Dest(Some("me"), Gate), Dest(None, Target \o <<"080">>),
          Dest(None, <<"fe80", "", "080">>)}
TunSpecs == {None, Some(<<<<"auto">>>>), Some(<<<<"auto", "65535">>>>),
             Some(<<<<"auto", "255">>>>),
             Some(<<<<"auto", "">>, <<"22">>>>), Some(<<<<"auto", "x">>>>),
             Some(<<<<"tun5", "auto">>>>), Some(<<<<"any">>>>)}
Addrs == {NoAddr, [NoAddr EXCEPT !.local = Some(<<4, 0>>), !.remote6 = Some(<<5, 1>>)]}

ArgCases ==
    {[conf |-> OneFile, args |-> [Plain EXCEPT !.dest = d, !.port = p, !.tun = t,
                                               !.addr = a, !.raw = raw, !.ids = i,
                                               !.checks = c]] :
        d \in Dests, p \in {None, Some(80)}, t \in TunSpecs, a \in Addrs,
        raw \in {0, 127, 32258, 65535}, i \in {<<>>, <<"mine">>},
        c \in BOOLEAN}

\* Specifications of up to four tokens, most of them written in no way.
Parts == {"22", "h", ""}
Tokens(n) == UNION {[1 .. m -> Parts] : m \in 1 .. n} \ {<<"">>}
Words == {"22", "h"}
Specs == {<<t>> : t \in Tokens(4)} \cup {<<t, u>> : t \in Tokens(2), u \in Tokens(3)}
         \cup {<<<<a>>, t, <<b>>>> : a, b \in Words, t \in Tokens(2)}
         \cup {<<t, <<a>>, <<"h">>, <<b>>>> : a, b \in Words, t \in Tokens(2)}
NoFile == [f \in {"f0", "f1", "f2"} |-> <<>>]

SpecCases ==
    {[conf |-> NoFile, args |-> [Plain EXCEPT ![k] = <<spec>>]] :
        k \in {"local", "remote", "dynamic"}, spec \in Specs}

MCCases == FileCases \cup ArgCases \cup SpecCases
=============================================================================
