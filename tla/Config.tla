------------------------------- MODULE Config -------------------------------
(***************************************************************************)
(* The configuration of sshtun: ~/.ssh/config, read once for each host     *)
(* that is resolved, and ResolvedConfig::from_args.                        *)
(*                                                                         *)
(* A file is a sequence of lines.  Reading is recursive (Include), so its  *)
(* state is a stack of frames: the file, the line and whether the section  *)
(* the line is in applies to the host.                                     *)
(***************************************************************************)
EXTENDS ForwardSpecs, TunAddress, FiniteSets, Relation

CONSTANTS
    Files, Root,     \* the files that exist, and ~/.ssh/config
    Exists,          \* identity files that exist
    DefaultKeys,     \* id_ed25519 and the others, in the order they are tried
    Cases            \* the files' lines and the arguments of the runs

\* The digest of an automatic id gives two bytes.
ASSUME RawAssumption == \A c \in Cases : c.args.raw \in U16

\* split_whitespace gives tokens, and split(':') at least one part of each.
IsSequence(s) == s \in Seq(ToSet(s))
ASSUME SpecsAssumption ==
    \A c \in Cases : \A k \in {"local", "remote", "dynamic"} :
        /\ IsSequence(c.args[k])
        /\ \A spec \in ToSet(c.args[k]) :
              /\ IsSequence(spec)
              /\ \A token \in ToSet(spec) : IsSequence(token) /\ token # <<>>

Scalars == {"hostname", "user", "port", "tun", "jump"}
Lists == {"identity", "local", "remote", "dynamic"}

VARIABLES
    conf,      \* conf[f]: the lines of file f
    args,      \* CliArgs, with the first bytes of the digest for an auto id and
               \* whether the build checks for overflow (checks)
    phase,     \* what the reading is for
    host,      \* the host the files are read for
    stack,     \* the files being read
    visited,   \* visited_files
    ext,       \* ExtractedSshConfig
    merged,    \* the one from_args keeps while it resolves the jump hosts
    res        \* what is resolved

vars == <<conf, args, phase, host, stack, visited, ext, merged, res>>
inputs == <<conf, args>>

None == <<>>
Some(v) == <<v>>
OrElse(a, b) == IF a = None THEN b ELSE a
Nothing == [k \in Scalars \cup Lists |-> <<>>]

\* [user@]host[:port]: what follows the last colon is the port if it is a
\* number.
SplitPort(parts) ==
    LET p == Port(<<Last(parts)>>)
    IN  IF Len(parts) > 1 /\ p # NoPort
        THEN [host |-> Front(parts), port |-> Some(p)]
        ELSE [host |-> parts, port |-> None]

Frame(f) == [file |-> f, line |-> 1, applies |-> TRUE]

\* The files are read for a host, from the beginning.
StartReading(h) ==
    /\ host' = h
    /\ stack' = <<Frame(Root)>>
    /\ visited' = {Root}
    /\ ext' = Nothing

Init ==
    /\ \E c \in Cases : conf = c.conf /\ args = c.args
    /\ phase = "target"
    /\ host = SplitPort(args.dest.parts).host
    /\ stack = <<Frame(Root)>> /\ visited = {Root}
    /\ ext = Nothing /\ merged = Nothing
    /\ res = [target |-> <<>>, jumps |-> <<>>, forwards |-> <<>>, tun |-> None]

-----------------------------------------------------------------------------
\* parse_ssh_config_file_rec, one line at a time.

\* A pattern matches, and no negated one does.
HostApplies(pats, h) ==
    /\ \E p \in pats : ~p.neg /\ h \in p.hosts
    /\ ~ \E p \in pats : p.neg /\ h \in p.hosts

\* parse_match_directive: only "host" decides, and other criteria hold.
MatchApplies(crits, h) == \A c \in crits : c.by = "host" => h \in c.hosts

SectionApplies(l, h) ==
    IF l.k = "host" THEN HostApplies(l.pats, h) ELSE MatchApplies(l.pats, h)

\* The first value of an option is kept, a port only if it is a number;
\* forwards and identity files are collected.
Extract(e, l) ==
    IF l.key \in Lists THEN [e EXCEPT ![l.key] = Append(@, l.val)]
    ELSE IF e[l.key] # None \/ (l.key = "port" /\ Port(l.val) = NoPort) THEN e
    ELSE [e EXCEPT ![l.key] = Some(l.val)]

Top == stack[Len(stack)]
Line == conf[Top.file][Top.line]
AtLine == stack # <<>> /\ Top.line <= Len(conf[Top.file])
NextLine(applies) ==
    [stack EXCEPT ![Len(stack)] =
        [file |-> Top.file, line |-> Top.line + 1, applies |-> applies]]

ReadSection ==
    /\ AtLine /\ Line.k \in {"host", "match"}
    /\ stack' = NextLine(SectionApplies(Line, host))
    /\ UNCHANGED <<inputs, phase, host, visited, ext, merged, res>>

ReadOption ==
    /\ AtLine /\ Line.k = "option"
    /\ ext' = IF Top.applies THEN Extract(ext, Line) ELSE ext
    /\ stack' = NextLine(Top.applies)
    /\ UNCHANGED <<inputs, phase, host, visited, merged, res>>

\* Mutant: a file is read as often as it is included.
ReadIncludeAgain ==
    /\ AtLine /\ Line.k = "include"
    /\ stack' = IF Top.applies
                THEN Append(NextLine(TRUE), Frame(Line.file)) ELSE NextLine(FALSE)
    /\ visited' = visited
    /\ UNCHANGED <<inputs, phase, host, ext, merged, res>>

\* A file is read where it is first included, and then not again.
ReadInclude ==
    /\ AtLine /\ Line.k = "include"
    /\ IF Top.applies /\ Line.file \notin visited
       THEN /\ stack' = Append(NextLine(Top.applies), Frame(Line.file))
            /\ visited' = visited \cup {Line.file}
       ELSE stack' = NextLine(Top.applies) /\ UNCHANGED visited
    /\ UNCHANGED <<inputs, phase, host, ext, merged, res>>

\* Mutant: the section of the included file goes on in the one that
\* included it.
EndOfFileLeaks ==
    /\ stack # <<>> /\ ~AtLine
    /\ stack' = IF Len(stack) = 1 THEN <<>>
                ELSE [Front(stack) EXCEPT ![Len(stack) - 1].applies = Top.applies]
    /\ UNCHANGED <<inputs, phase, host, visited, ext, merged, res>>

EndOfFile ==
    /\ stack # <<>> /\ ~AtLine
    /\ stack' = Front(stack)
    /\ UNCHANGED <<inputs, phase, host, visited, ext, merged, res>>

-----------------------------------------------------------------------------
\* resolve_host_config, after the files are read.

Existing(s) == SelectSeq(s, LAMBDA k : k \in Exists)

Identities(e, cli) ==
    IF cli # <<>> THEN cli
    ELSE IF Existing(e["identity"]) # <<>> THEN Existing(e["identity"])
    ELSE Existing(DefaultKeys)

\* The command line comes before the destination, the destination before the
\* files and the files before the defaults.
ResolveHost(e, spec, cliPort, cliIds) ==
    LET s == SplitPort(spec.parts)
    IN  [host |-> s.host,
         hostname |-> OrElse(e["hostname"], Some(s.host))[1],
         user |-> OrElse(OrElse(spec.user, e["user"]), Some("env"))[1],
         port |-> OrElse(OrElse(cliPort, s.port),
                         IF e["port"] = None THEN Some(22) ELSE Some(Port(e["port"][1])))[1],
         ids |-> Identities(e, cliIds)]

ResolveTarget ==
    /\ phase = "target" /\ stack = <<>>
    /\ res' = [res EXCEPT !.target = Some(ResolveHost(ext, args.dest, args.port, args.ids))]
    /\ phase' = "merge"
    /\ StartReading(SplitPort(args.dest.parts).host)
    /\ UNCHANGED <<inputs, merged>>

\* -J, or else ProxyJump, whose "none" is the empty sequence.
JumpSpecs(e) ==
    IF args.jumps # <<>> \/ e["jump"] = None THEN args.jumps ELSE e["jump"][1]

\* The parsed specifications: those of the files, then those of the command
\* line.
Forwards(e) ==
    LET all(k) == e[k] \o args[k]
        each(s, Parse(_)) == [i \in DOMAIN s |-> Parse(s[i])]
        local(s) == ParseForward(s, Loopback)
        remote(s) == ParseForward(s, AnyAddress)
    IN  [local |-> each(all("local"), local), remote |-> each(all("remote"), remote),
         dynamic |-> each(all("dynamic"), ParseDynamic)]

TunSpec(e) == OrElse(args.tun, e["tun"])

\* Mutant: with -w auto:<id> only the device is named.
TunOfNamed(e) ==
    IF TunSpec(e) = None THEN None
    ELSE LET t == ParseTun(TunSpec(e)[1])
         IN  IF ~t.ok THEN Some(Bad)
             ELSE Some([tun |-> t, ok |-> TRUE] @@ args.addr)

\* The names and addresses of the TUN device; an address that is given is
\* kept.
TunOf(e) ==
    LET t == ParseTun(TunSpec(e)[1])
        auto == Device(<<"auto">>) \in {t.local, t.remote}
        id == IF auto THEN AutoId(args.raw) ELSE t.id
        names == IF auto THEN Tun(AutoDevice(id), AutoDevice(id), id) ELSE t
        addr(given, derived) == OrElse(given, IF id = NoId THEN None ELSE Some(derived))
    IN  IF TunSpec(e) = None THEN None
        ELSE IF ~t.ok THEN Some(Bad)
        ELSE Some([tun |-> names, ok |-> TRUE,
                   local |-> addr(args.addr.local, LocalAddr(id)),
                   remote |-> addr(args.addr.remote, RemoteAddr(id)),
                   local6 |-> addr(args.addr.local6, LocalAddr6(id)),
                   remote6 |-> addr(args.addr.remote6, RemoteAddr6(id))])

\* The sum that gives the remote address overflows where it is checked.
TunPanics(e) ==
    \E i \in DOMAIN TunOf(e) :
        Overflows(TunOf(e)[i].tun.id) /\ args.addr.remote = None /\ args.checks

\* A specification that cannot be parsed ends the program.
Finished(e) ==
    LET f == Forwards(e)
        t == TunOf(e)
        bad(s) == \E i \in DOMAIN s : ~s[i].ok
    IN  IF bad(f.local) \/ bad(f.remote) \/ bad(f.dynamic) \/ bad(t)
        THEN phase' = "error" /\ UNCHANGED res
        ELSE IF TunPanics(e) THEN phase' = "panic" /\ UNCHANGED res
        ELSE phase' = "done" /\ res' = [res EXCEPT !.forwards = f, !.tun = t]

Merge ==
    /\ phase = "merge" /\ stack = <<>>
    /\ merged' = ext
    /\ IF JumpSpecs(ext) = <<>>
       THEN Finished(ext) /\ UNCHANGED <<host, stack, visited, ext>>
       ELSE /\ phase' = "jumps"
            /\ StartReading(SplitPort(JumpSpecs(ext)[1].parts).host)
            /\ UNCHANGED res
    /\ UNCHANGED inputs

\* Mutant: the port of the command line is given to the jump hosts too.
JumpPortCli == args.port

\* A jump host is resolved without the port of the command line.
JumpPort == None

ResolveJump ==
    LET specs == JumpSpecs(merged)
        n == Len(res.jumps) + 1
        jumps == Append(res.jumps, ResolveHost(ext, specs[n], JumpPort, args.ids))
    IN  /\ phase = "jumps" /\ stack = <<>>
        /\ res' = [res EXCEPT !.jumps = jumps]
        /\ IF n < Len(specs)
           THEN /\ StartReading(SplitPort(specs[n + 1].parts).host)
                /\ UNCHANGED phase
           ELSE phase' = "finish" /\ UNCHANGED <<host, stack, visited, ext>>
        /\ UNCHANGED <<inputs, merged>>

Finish ==
    /\ phase = "finish"
    /\ Finished(merged)
    /\ UNCHANGED <<inputs, host, stack, visited, ext, merged>>

Next ==
    \/ ReadSection \/ ReadOption \/ ReadInclude \/ EndOfFile
    \/ ResolveTarget \/ Merge \/ ResolveJump \/ Finish

Spec == Init /\ [][Next]_vars

-----------------------------------------------------------------------------
\* The reference: the lines of the files in the order in which ssh_config
\* reads them, an Include replaced by the lines of the file.

IsHeader(l) == l.k \in {"host", "match"}

\* The header above a line decides, and a line with none above it applies.
Applies(f, i, h) ==
    \A j \in 1 .. i - 1 :
        IsHeader(conf[f][j]) /\ (\A k \in j + 1 .. i - 1 : ~IsHeader(conf[f][k]))
        => SectionApplies(conf[f][j], h)

Lines(h) ==
    LET lines[d \in 0 .. Cardinality(Files)] ==
            [f \in Files |->
                IF d = 0 THEN <<>>
                ELSE FlattenSeq([i \in DOMAIN conf[f] |->
                        IF IsHeader(conf[f][i]) \/ ~Applies(f, i, h) THEN <<>>
                        ELSE IF conf[f][i].k = "include"
                        THEN lines[d - 1][conf[f][i].file]
                        ELSE <<<<f, i>>>>])]
        once(seen, l) == IF Contains(seen, l) THEN seen ELSE Append(seen, l)
        all == FoldLeft(once, <<>>, lines[Cardinality(Files)][Root])
    IN  [n \in DOMAIN all |-> conf[all[n][1]][all[n][2]]]

Values(h, k) ==
    LET of(l) == l.key = k /\ (k = "port" => Port(l.val) # NoPort)
        ls == SelectSeq(Lines(h), of)
    IN  [n \in DOMAIN ls |-> ls[n].val]

First(h, k, default) == IF Values(h, k) = <<>> THEN default ELSE Values(h, k)[1]

\* No file includes itself, not even through others.
Acyclic ==
    LET inc == [p \in Files \X Files |->
                   \E i \in DOMAIN conf[p[1]] :
                      conf[p[1]][i].k = "include" /\ conf[p[1]][i].file = p[2]]
    IN  IsIrreflexive(TransitiveClosure(inc, Files), Files)

-----------------------------------------------------------------------------
\* Properties.

\* No file is being read twice at a time, so the recursion ends even if the
\* files include each other in a circle.
NoFileTwice ==
    \A i, j \in DOMAIN stack : stack[i].file = stack[j].file => i = j

\* What is extracted for a host is what ssh_config prescribes: of an option
\* the first value that applies, of forwards and identity files all of them
\* in order.  Reading an included file once and starting it outside of any
\* section changes nothing of that.
FirstWins ==
    (stack = <<>> /\ phase \in {"target", "merge", "jumps"} /\ Acyclic) =>
        /\ \A k \in Scalars : ext[k] = (IF Values(host, k) = <<>> THEN None
                                       ELSE Some(Values(host, k)[1]))
        /\ \A k \in Lists : ext[k] = Values(host, k)

\* Every host of the chain is reached with the port and the name its own
\* sections give: -p is for the destination only, and nothing read for one
\* host is used for another.
EachHostItsOwn ==
    (phase = "done" /\ Acyclic) =>
        /\ LET s == SplitPort(args.dest.parts)
               t == res.target[1]
           IN  /\ t.port = OrElse(OrElse(args.port, s.port),
                                  Some(Port(First(s.host, "port", <<"22">>))))[1]
               /\ t.hostname = First(s.host, "hostname", s.host)
        /\ Len(res.jumps) = Len(JumpSpecs(merged))
        /\ \A i \in DOMAIN res.jumps :
              LET s == SplitPort(JumpSpecs(merged)[i].parts)
                  j == res.jumps[i]
              IN  /\ j.port = OrElse(s.port,
                                     Some(Port(First(s.host, "port", <<"22">>))))[1]
                  /\ j.hostname = First(s.host, "hostname", s.host)

\* What a specification can mean in the ways a forward is written.
Meanings(k, spec) ==
    LET d == IF k = "remote" THEN AnyAddress ELSE Loopback
        hosts == {d} \cup UNION {(Prefixes(t) \ {<<>>}) \cup {<<p>> : p \in ToSet(t)} :
                                    t \in ToSet(spec)}
        ports == DOMAIN Numeral
        dynamics == {w \in hosts \X ports :
                        \/ spec = <<w[1], <<w[2]>>>>
                        \/ Len(w[1]) = 1 /\ spec = <<Append(w[1], w[2])>>
                        \/ w[1] = d /\ spec = <<<<w[2]>>>>}
        others == {w \in hosts \X ports \X hosts \X ports :
                      spec \in Written(w[1], w[2], w[3], w[4], d)}
    IN  IF k = "dynamic"
        THEN {Forward(w[1], Numeral[w[2]], <<>>, 0) : w \in dynamics}
        ELSE {Forward(w[1], Numeral[w[2]], w[3], Numeral[w[4]]) : w \in others}

\* The one thing on the command line that can be refused.
OnlyArg(k) ==
    /\ Len(args[k]) = 1 /\ merged = Nothing /\ args.tun = None
    /\ \A j \in {"local", "remote", "dynamic"} \ {k} : args[j] = <<>>

\* A forward is what its specification says, whichever of the ways it is
\* written in, after those of the files; what is written in none of them is
\* refused, and nothing is written in two.
ForwardsAsWritten ==
    \A k \in {"local", "remote", "dynamic"} : \A i \in DOMAIN args[k] :
        LET means == Meanings(k, args[k][i])
        IN  /\ phase = "done" => means = {res.forwards[k][Len(merged[k]) + i]}
            /\ phase = "error" /\ OnlyArg(k) => means = {}

\* -w auto:<id> gives the id, -w auto leaves it to the digest.
IdGiven(e) == ParseTun(TunSpec(e)[1]).id # NoId

\* Both ends of an automatic TUN device have the same name and get addresses.
\* Those from_args returns for a derived id are side by side and can be used,
\* and deriving one never panics.  An id that is given is not checked: its
\* addresses follow each other, except that id 65535 wraps around to
\* 169.254.0.0 or, in a build that checks for overflow, is not resolved at all.
\* Addresses on the command line are taken as they are.
TunPaired ==
    /\ phase = "panic" => IdGiven(merged)
    /\ (phase = "done" /\ res.tun # None /\ res.tun[1].tun.id # NoId) =>
        LET t == res.tun[1]
        IN  /\ t.tun.local = t.tun.remote
            /\ None \notin {t.local, t.remote, t.local6, t.remote6}
            /\ args.addr.local = None /\ args.addr.remote = None =>
                  IF ~IdGiven(merged) THEN Usable(t.local[1], t.remote[1])
                  ELSE \/ Follows(t.local[1], t.remote[1])
                       \/ Overflows(t.tun.id) /\ ~args.checks /\ t.remote[1] = <<0, 0>>
            /\ args.addr.local6 = None /\ args.addr.remote6 = None =>
                  t.local6[1][1] = t.remote6[1][1] /\ t.local6 # t.remote6
=============================================================================
