---------------------------- MODULE ConfigProofs ----------------------------
(***************************************************************************)
(* Proofs about Config and the TUN addresses it assigns, for any files,    *)
(* any command line and any digest.                                        *)
(*                                                                         *)
(* The files being read are among those visited, which is why a file that  *)
(* is included while it is being read is not entered again (Reading).      *)
(* What from_args returns for the forwards and for the TUN device comes    *)
(* from the options it merged (ForwardsResolved, TunResolved).             *)
(***************************************************************************)
EXTENDS Config, SequenceTheorems, TLAPS

-----------------------------------------------------------------------------
\* The addresses of automatic TUN devices, for every digest.

\* The id in terms of the block x and the odd number y in it that
\* generate_auto_tun_id computes.
LEMMA AutoIdParts ==
    ASSUME NEW raw \in Nat
    PROVE  \E x \in 1 .. 254, k \in 0 .. 126 :
              AutoId(raw) = x * 256 + (k * 2 + 1)
<1> DEFINE pair == raw % 32258
<1>1. pair \in 0 .. 32257
  BY SMTT(30)
<1>2. pair \div 127 \in 0 .. 253 /\ pair % 127 \in 0 .. 126
  BY <1>1, SMTT(30)
<1>3. AutoId(raw) = (pair \div 127 + 1) * 256 + ((pair % 127) * 2 + 1)
  BY DEF AutoId
<1>4. pair \div 127 + 1 \in 1 .. 254
  BY <1>2
<1>5. pair % 127 \in 0 .. 126
  BY <1>2
<1> USE <1>4, <1>5
<1> HIDE DEF pair
<1> WITNESS pair \div 127 + 1 \in 1 .. 254, pair % 127 \in 0 .. 126
<1> QED
  BY <1>3

\* Both octets of an id and of the one after it.
LEMMA PairOctets ==
    ASSUME NEW x \in 1 .. 254, NEW k \in 0 .. 126, NEW id \in Nat,
           id = x * 256 + (k * 2 + 1)
    PROVE  /\ LocalAddr(id) = <<x, k * 2 + 1>>
           /\ RemoteAddr(id) = <<x, k * 2 + 2>>
<1>1. id \div 256 = x /\ id % 256 = k * 2 + 1
  OBVIOUS
<1>2. (id + 1) % 65536 = id + 1
  OBVIOUS
<1>3. (id + 1) \div 256 = x /\ (id + 1) % 256 = k * 2 + 2
  OBVIOUS
<1> QED
  BY <1>1, <1>2, <1>3 DEF LocalAddr, RemoteAddr, Octets

\* Every id that generate_auto_tun_id derives has two usable addresses side
\* by side, whatever the digest is.
THEOREM AutoPairsUsable == \A raw \in U16 : PairUsable(raw)
<1> SUFFICES ASSUME NEW raw \in U16 PROVE PairUsable(raw)
  OBVIOUS
<1>a. U16 \subseteq Nat
  BY DEF U16
<1>1. PICK x \in 1 .. 254, k \in 0 .. 126 : AutoId(raw) = x * 256 + (k * 2 + 1)
  BY <1>a, AutoIdParts
<1>2. AutoId(raw) \in Nat
  BY <1>1
<1>3. LocalAddr(AutoId(raw)) = <<x, k * 2 + 1>> /\ RemoteAddr(AutoId(raw)) = <<x, k * 2 + 2>>
  BY <1>1, <1>2, PairOctets
<1> QED
  BY <1>3 DEF PairUsable, Usable

\* Two devices that generate_auto_tun_id sets up share both addresses or
\* none, whatever the digests are.
THEOREM AutoPairsDisjoint == \A raw, other \in U16 : PairsDisjoint(raw, other)
<1> SUFFICES ASSUME NEW raw \in U16, NEW other \in U16
             PROVE  PairsDisjoint(raw, other)
  OBVIOUS
<1>a. U16 \subseteq Nat
  BY DEF U16
<1>1. PICK x \in 1 .. 254, k \in 0 .. 126 : AutoId(raw) = x * 256 + (k * 2 + 1)
  BY <1>a, AutoIdParts
<1>2. PICK y \in 1 .. 254, l \in 0 .. 126 : AutoId(other) = y * 256 + (l * 2 + 1)
  BY <1>a, AutoIdParts
<1>3. AutoId(raw) \in Nat /\ AutoId(other) \in Nat
  BY <1>1, <1>2
<1>4. LocalAddr(AutoId(raw)) = <<x, k * 2 + 1>> /\ RemoteAddr(AutoId(raw)) = <<x, k * 2 + 2>>
  BY <1>1, <1>3, PairOctets
<1>5. LocalAddr(AutoId(other)) = <<y, l * 2 + 1>> /\ RemoteAddr(AutoId(other)) = <<y, l * 2 + 2>>
  BY <1>2, <1>3, PairOctets
<1>6. CASE x = y /\ k = l
  BY <1>6, <1>1, <1>2 DEF PairsDisjoint
<1>7. CASE x # y \/ k # l
  <2>1. {<<x, k * 2 + 1>>, <<x, k * 2 + 2>>} \cap {<<y, l * 2 + 1>>, <<y, l * 2 + 2>>} = {}
    BY <1>7
  <2> QED
    BY <2>1, <1>4, <1>5 DEF PairsDisjoint
<1> QED
  BY <1>6, <1>7

-----------------------------------------------------------------------------
\* The invariants of Config.

FramesOf(V) == [file : V, line : Nat, applies : BOOLEAN]
Frames == FramesOf(visited)

\* What is being read has been noted, and nothing of it twice.
Reading == stack \in Seq(Frames) /\ NoFileTwice

\* What from_args returns for -w comes from the options it merged.
TunResolved ==
    /\ args.raw \in U16
    /\ DOMAIN res = {"target", "jumps", "forwards", "tun"}
    /\ phase \in {"done", "panic"} => \A i \in DOMAIN TunOf(merged) : TunOf(merged)[i].ok
    /\ phase = "done" => res.tun = TunOf(merged) /\ ~TunPanics(merged)
    /\ phase = "panic" => TunPanics(merged)

-----------------------------------------------------------------------------
\* Going to the next line leaves the files as they are.
LEMMA NextLineFrames ==
    ASSUME NEW V, NEW st \in Seq(FramesOf(V)),
           st # <<>>, NEW b \in BOOLEAN,
           NEW t, t = [st EXCEPT ![Len(st)] = [file |-> st[Len(st)].file,
                                               line |-> st[Len(st)].line + 1,
                                               applies |-> b]]
    PROVE  /\ t \in Seq(FramesOf(V))
           /\ Len(t) = Len(st)
           /\ \A i \in 1 .. Len(st) : t[i].file = st[i].file
<1> DEFINE F == FramesOf(V)
           e == [file |-> st[Len(st)].file, line |-> st[Len(st)].line + 1,
                 applies |-> b]
<1>1. Len(st) \in Nat \ {0} /\ DOMAIN st = 1 .. Len(st)
  BY EmptySeq, LenProperties
<1>2. \A i \in 1 .. Len(st) : st[i] \in F
  BY ElementOfSeq
<1>3. e \in F /\ e.file = st[Len(st)].file
  BY <1>1, <1>2 DEF FramesOf
<1> HIDE DEF F, e
<1>4. t = [st EXCEPT ![Len(st)] = e]
  BY DEF e
<1>5. t \in Seq(F) /\ Len(t) = Len(st)
  BY <1>1, <1>3, <1>4, ExceptSeq DEF F
<1>6. \A i \in 1 .. Len(st) : t[i] = IF i = Len(st) THEN e ELSE st[i]
  BY <1>1, <1>4
<1> QED  BY <1>3, <1>5, <1>6 DEF F

\* A line is read: the files stay as they are.
LEMMA LineRead ==
    ASSUME Reading, AtLine, NEW b \in BOOLEAN, stack' = NextLine(b), visited' = visited
    PROVE  Reading'
<1>0. stack \in Seq(FramesOf(visited)) /\ stack # <<>>
  BY DEF Reading, Frames, AtLine
<1>1. /\ stack' \in Seq(Frames) /\ Len(stack') = Len(stack)
      /\ \A i \in 1 .. Len(stack) : stack'[i].file = stack[i].file
  <2>1. stack' = [stack EXCEPT ![Len(stack)] = [file |-> stack[Len(stack)].file,
                                                line |-> stack[Len(stack)].line + 1,
                                                applies |-> b]]
    BY DEF NextLine, Top
  <2> QED  BY <1>0, <2>1, NextLineFrames DEF Frames
<1>2. DOMAIN stack = 1 .. Len(stack) /\ DOMAIN stack' = 1 .. Len(stack)
  BY <1>1, LenProperties DEF Reading
<1> QED  BY <1>1, <1>2 DEF Reading, Frames, NoFileTwice

\* A frame of a file that was not visited may be put on top.
LEMMA FrameAdded ==
    ASSUME NEW V, NEW st \in Seq(FramesOf(V)),
           \A i, j \in DOMAIN st : st[i].file = st[j].file => i = j,
           NEW f, f \notin V
    PROVE  /\ Append(st, Frame(f)) \in Seq(FramesOf(V \cup {f}))
           /\ \A i, j \in DOMAIN Append(st, Frame(f)) :
                 Append(st, Frame(f))[i].file = Append(st, Frame(f))[j].file => i = j
<1> DEFINE F == FramesOf(V)
           G == FramesOf(V \cup {f})
           t == Append(st, Frame(f))
<1>1. st \in Seq(G) /\ Frame(f) \in G /\ Frame(f).file = f
  <2>1. F \subseteq G /\ Frame(f) \in G
    BY DEF FramesOf, Frame
  <2> QED  BY <2>1, SeqMonotonic DEF Frame
<1>2. \A i \in 1 .. Len(st) : st[i].file \in V
  <2>1. \A i \in 1 .. Len(st) : st[i] \in F
    BY ElementOfSeq
  <2> QED  BY <2>1 DEF FramesOf
<1> HIDE DEF G
<1>3. /\ t \in Seq(G) /\ Len(t) = Len(st) + 1
      /\ \A i \in 1 .. Len(st) : t[i] = st[i]
      /\ t[Len(st) + 1] = Frame(f)
  BY <1>1, AppendProperties
<1>4. DOMAIN t = 1 .. Len(st) + 1 /\ DOMAIN st = 1 .. Len(st) /\ Len(st) \in Nat
  BY <1>1, <1>3, LenProperties
<1> HIDE DEF t
<1>5. \A i, j \in DOMAIN t : t[i].file = t[j].file => i = j
  BY <1>1, <1>2, <1>3, <1>4
<1> QED  BY <1>3, <1>5 DEF G, t

\* Reading begins with one file.
LEMMA ReadingBegins ==
    ASSUME NEW h, StartReading(h)
    PROVE  Reading'
BY DEF StartReading, Reading, Frames, FramesOf, Frame, NoFileTwice

\* Include, the one way to a second file.
LEMMA IncludeReads == Reading /\ ReadInclude => Reading'
<1> SUFFICES ASSUME Reading, ReadInclude PROVE Reading'
  OBVIOUS
<1>1. Top \in Frames
  BY ElementOfSeq, EmptySeq, LenProperties DEF Reading, ReadInclude, AtLine, Top
<1>b. Top.applies \in BOOLEAN
  BY <1>1 DEF Frames, FramesOf
<1>2. CASE Top.applies /\ Line.file \notin visited
  <2>1. /\ stack' = Append(NextLine(Top.applies), Frame(Line.file))
        /\ visited' = visited \cup {Line.file}
    BY <1>2 DEF ReadInclude
  <2>2. /\ stack \in Seq(FramesOf(visited)) /\ stack # <<>>
        /\ \A i, j \in DOMAIN stack : stack[i].file = stack[j].file => i = j
    BY DEF Reading, Frames, ReadInclude, AtLine, NoFileTwice
  <2>3. PICK u : u = NextLine(Top.applies)
    OBVIOUS
  <2>4. u = [stack EXCEPT ![Len(stack)] = [file |-> stack[Len(stack)].file,
                                           line |-> stack[Len(stack)].line + 1,
                                           applies |-> Top.applies]]
    BY <2>3 DEF NextLine, Top
  <2>5. /\ u \in Seq(FramesOf(visited)) /\ Len(u) = Len(stack)
        /\ \A i \in 1 .. Len(stack) : u[i].file = stack[i].file
    BY <1>b, <2>2, <2>4, NextLineFrames
  <2>6. \A i, j \in DOMAIN u : u[i].file = u[j].file => i = j
    <3>1. DOMAIN u = 1 .. Len(stack) /\ DOMAIN stack = 1 .. Len(stack)
      BY <2>2, <2>5, LenProperties
    <3> QED  BY <2>2, <2>5, <3>1
  <2>7. PICK f : f = Line.file
    OBVIOUS
  <2>8. stack' = Append(u, Frame(f)) /\ visited' = visited \cup {f} /\ f \notin visited
    BY <1>2, <2>1, <2>3, <2>7
  <2>9. /\ Append(u, Frame(f)) \in Seq(FramesOf(visited \cup {f}))
        /\ \A i, j \in DOMAIN Append(u, Frame(f)) :
              Append(u, Frame(f))[i].file = Append(u, Frame(f))[j].file => i = j
    BY <2>5, <2>6, <2>8, FrameAdded
  <2> QED  BY <2>8, <2>9 DEF Reading, Frames, NoFileTwice
<1>3. CASE ~(Top.applies /\ Line.file \notin visited)
  <2>1. stack' = NextLine(Top.applies) /\ visited' = visited /\ AtLine
    BY <1>3 DEF ReadInclude
  <2>2. Top.applies \in BOOLEAN
    BY <1>1 DEF Frames, FramesOf
  <2> QED  BY <2>1, <2>2, LineRead
<1> QED  BY <1>2, <1>3

\* The end of a file leads back to the one that included it.
LEMMA EndReads == Reading /\ EndOfFile => Reading'
<1> SUFFICES ASSUME Reading, EndOfFile PROVE Reading'
  OBVIOUS
<1>1. /\ stack \in Seq(Frames) /\ Len(stack) \in Nat \ {0}
      /\ stack' = SubSeq(stack, 1, Len(stack) - 1) /\ visited' = visited
  BY EmptySeq, LenProperties DEF Reading, EndOfFile, Front
<1>2. /\ stack' \in Seq(Frames) /\ Len(stack') = Len(stack) - 1
      /\ \A i \in 1 .. Len(stack) - 1 : stack'[i] = stack[i]
  <2>1. \A i \in 1 .. Len(stack) - 1 : stack[i] \in Frames
    BY <1>1, ElementOfSeq
  <2> HIDE DEF Frames
  <2>2. /\ SubSeq(stack, 1, Len(stack) - 1) \in Seq(Frames)
        /\ Len(SubSeq(stack, 1, Len(stack) - 1)) = Len(stack) - 1
        /\ \A i \in 1 .. Len(stack) - 1 : SubSeq(stack, 1, Len(stack) - 1)[i] = stack[i]
    <3> DEFINE n == Len(stack) - 1
    <3>1. n \in Int /\ 1 \in Int /\ n >= 0 /\ \A i \in 1 .. n : stack[i] \in Frames
      BY <1>1, <2>1
    <3> HIDE DEF n
    <3>2. /\ SubSeq(stack, 1, n) \in Seq(Frames)
          /\ Len(SubSeq(stack, 1, n)) = IF 1 <= n THEN n - 1 + 1 ELSE 0
          /\ \A i \in 1 .. n - 1 + 1 : SubSeq(stack, 1, n)[i] = stack[1 + i - 1]
      BY <3>1, SubSeqProperties
    <3>3. \A i \in 1 .. n : SubSeq(stack, 1, n)[i] = stack[i]
      BY <3>1, <3>2
    <3>4. Len(SubSeq(stack, 1, n)) = n
      BY <3>1, <3>2
    <3> QED  BY <3>2, <3>3, <3>4 DEF n
  <2> QED  BY <1>1, <2>2
<1>3. DOMAIN stack' = 1 .. Len(stack) - 1 /\ DOMAIN stack = 1 .. Len(stack)
  BY <1>1, <1>2, LenProperties
<1>4. NoFileTwice'
  BY <1>1, <1>2, <1>3 DEF Reading, NoFileTwice
<1> QED  BY <1>1, <1>2, <1>4 DEF Reading, Frames

\* A host is being read, or nothing is.
LEMMA HostReads ==
    Reading /\ (ResolveTarget \/ Merge \/ ResolveJump \/ Finish) => Reading'
<1> SUFFICES ASSUME Reading, ResolveTarget \/ Merge \/ ResolveJump \/ Finish
             PROVE  Reading'
  OBVIOUS
<1>1. \/ UNCHANGED <<stack, visited>>
      \/ \E h : StartReading(h)
  BY DEF ResolveTarget, Merge, ResolveJump, Finish
<1>2. CASE UNCHANGED <<stack, visited>>
  BY <1>2 DEF Reading, Frames, NoFileTwice
<1> QED  BY <1>1, <1>2, ReadingBegins

\* No file is being read twice at a time, whatever the files contain and
\* however they include each other, so parse_ssh_config_file_rec ends.
THEOREM NoFileReadTwice == Spec => []NoFileTwice
<1>1. Init => Reading
  BY DEF Init, Reading, Frames, FramesOf, Frame, NoFileTwice
<1>2. Reading /\ [Next]_vars => Reading'
  <2> SUFFICES ASSUME Reading, [Next]_vars PROVE Reading'
    OBVIOUS
  <2>1. CASE ReadSection
    <3>1. SectionApplies(Line, host) \in BOOLEAN
      BY DEF SectionApplies, HostApplies, MatchApplies
    <3> QED  BY <2>1, <3>1, LineRead DEF ReadSection
  <2>2. CASE ReadOption
    <3>1. Top \in Frames
      BY <2>2, ElementOfSeq, EmptySeq, LenProperties DEF Reading, ReadOption, AtLine, Top
    <3>2. Top.applies \in BOOLEAN
      BY <3>1 DEF Frames, FramesOf
    <3> QED  BY <2>2, <3>2, LineRead DEF ReadOption
  <2>3. CASE ReadInclude
    BY <2>3, IncludeReads
  <2>4. CASE EndOfFile
    BY <2>4, EndReads
  <2>5. CASE ResolveTarget \/ Merge \/ ResolveJump \/ Finish
    BY <2>5, HostReads
  <2>6. CASE UNCHANGED vars
    BY <2>6 DEF vars, Reading, Frames, NoFileTwice
  <2> QED  BY <2>1, <2>2, <2>3, <2>4, <2>5, <2>6 DEF Next
<1>3. Reading => NoFileTwice
  BY DEF Reading
<1> QED  BY <1>1, <1>2, <1>3, PTL DEF Spec

-----------------------------------------------------------------------------
\* The record that is resolved keeps its fields.
LEMMA FinishedTun ==
    ASSUME NEW e, DOMAIN res = {"target", "jumps", "forwards", "tun"}, Finished(e)
    PROVE  /\ DOMAIN res' = {"target", "jumps", "forwards", "tun"}
           /\ phase' \in {"done", "panic"} => \A i \in DOMAIN TunOf(e) : TunOf(e)[i].ok
           /\ phase' = "done" => res'.tun = TunOf(e) /\ ~TunPanics(e)
           /\ phase' = "panic" => TunPanics(e)
<1> DEFINE f == Forwards(e)
           t == TunOf(e)
           bad(s) == \E i \in DOMAIN s : ~s[i].ok
           some == bad(f.local) \/ bad(f.remote) \/ bad(f.dynamic) \/ bad(t)
<1>1. CASE some
  BY <1>1, Zenon DEF Finished
<1>2. CASE ~some
  <2>1. \A i \in DOMAIN t : t[i].ok
    BY <1>2, Zenon
  <2>2. CASE TunPanics(e)
    <3>1. phase' = "panic" /\ res' = res
      BY <1>2, <2>2, Zenon DEF Finished
    <3> QED  BY <2>1, <2>2, <3>1
  <2>3. CASE ~TunPanics(e)
    <3>1. phase' = "done" /\ res' = [res EXCEPT !.forwards = f, !.tun = t]
      BY <1>2, <2>3, Zenon DEF Finished
    <3> HIDE DEF f, t
    <3>2. DOMAIN res' = DOMAIN res /\ res'.tun = t
      BY <3>1, Zenon
    <3> QED  BY <2>1, <2>3, <3>1, <3>2 DEF t
  <2> QED  BY <2>2, <2>3
<1> QED  BY <1>1, <1>2

\* What is resolved for -w stays what the merged options say.
LEMMA TunStep == TunResolved /\ [Next]_vars => TunResolved'
<1> SUFFICES ASSUME TunResolved, [Next]_vars PROVE TunResolved'
  OBVIOUS
<1>1. args' = args
  BY DEF Next, vars, inputs, ReadSection, ReadOption, ReadInclude, EndOfFile,
         ResolveTarget, Merge, ResolveJump, Finish
<1>2. CASE UNCHANGED <<phase, merged, res>>
  <2>1. TunOf(merged)' = TunOf(merged) /\ TunPanics(merged)' = TunPanics(merged)
    BY <1>1, <1>2, Zenon DEF TunPanics, TunOf, TunSpec
  <2> QED  BY <1>1, <1>2, <2>1 DEF TunResolved
<1>3. CASE phase' \notin {"done", "panic"} /\ DOMAIN res' = DOMAIN res
  BY <1>1, <1>3 DEF TunResolved
<1>4. ASSUME NEW e, merged' = e, Finished(e)
      PROVE  TunResolved'
  <2>1. TunOf(merged)' = TunOf(e) /\ TunPanics(merged)' = TunPanics(e)
    BY <1>1, <1>4, Zenon DEF TunPanics, TunOf, TunSpec
  <2> QED  BY <1>1, <1>4, <2>1, FinishedTun DEF TunResolved
<1>5. CASE ReadSection \/ ReadOption \/ ReadInclude \/ EndOfFile \/ UNCHANGED vars
  BY <1>2, <1>5 DEF ReadSection, ReadOption, ReadInclude, EndOfFile, vars
<1>6. CASE ResolveTarget
  BY <1>3, <1>6, Zenon DEF ResolveTarget
<1>7. CASE Merge
  <2>1. CASE JumpSpecs(ext) = <<>>
    BY <1>4, <1>7, <2>1 DEF Merge
  <2>2. CASE JumpSpecs(ext) # <<>>
    BY <1>3, <1>7, <2>2 DEF Merge
  <2> QED  BY <2>1, <2>2
<1>8. CASE ResolveJump
  <2>1. DOMAIN res' = DOMAIN res
    BY <1>8, Zenon DEF ResolveJump
  <2>2. phase' \notin {"done", "panic"}
    BY <1>8 DEF ResolveJump
  <2> QED  BY <1>3, <2>1, <2>2
<1>9. CASE Finish
  <2>1. merged' = merged /\ Finished(merged)
    BY <1>9 DEF Finish
  <2> QED  BY <1>4, <2>1
<1> QED  BY <1>5, <1>6, <1>7, <1>8, <1>9 DEF Next

\* 16 bits.
LEMMA U16Def == \A n : n \in U16 <=> n \in Nat /\ n <= 65535
<1>1. \A n : n \in U16 <=> n \in Nat /\ n <= MaxU16
  <2>1. MaxU16 \in Nat
    BY DEF MaxU16
  <2> QED  BY <2>1 DEF U16
<1> QED  BY <1>1 DEF MaxU16

\* The remote address of an id follows the local one, except where the sum
\* overflows.
LEMMA AddressesFollow ==
    ASSUME NEW id \in U16
    PROVE  IF Overflows(id) THEN RemoteAddr(id) = <<0, 0>>
           ELSE Follows(LocalAddr(id), RemoteAddr(id))
<1>0. id \in Nat /\ id <= 65535 /\ MaxU16 = 65535
  BY U16Def DEF MaxU16
<1>1. CASE id = 65535
  <2>1. (id + 1) % 65536 = 0 /\ 0 \div 256 = 0 /\ 0 % 256 = 0
    BY <1>1
  <2> QED  BY <1>0, <1>1, <2>1 DEF RemoteAddr, Octets, Overflows
<1>2. CASE id # 65535
  <2>1. (id + 1) % 65536 = id + 1
    BY <1>0, <1>2
  <2>2. CASE id % 256 # 255
    <3>1. (id + 1) \div 256 = id \div 256 /\ (id + 1) % 256 = (id % 256) + 1
      BY <1>0, <2>2
    <3> QED  BY <1>0, <1>2, <2>1, <3>1 DEF LocalAddr, RemoteAddr, Octets, Overflows, Follows
  <2>3. CASE id % 256 = 255
    <3>1. (id + 1) \div 256 = id \div 256 + 1 /\ (id + 1) % 256 = 0
      BY <1>0, <2>3
    <3> QED  BY <1>0, <1>2, <2>1, <2>3, <3>1 DEF LocalAddr, RemoteAddr, Octets, Overflows, Follows
  <2> QED  BY <2>2, <2>3
<1> QED  BY <1>1, <1>2

\* A number that is parsed has 16 bits.
LEMMA PortU16 ==
    ASSUME NEW token
    PROVE  Port(token) = NoPort \/ Port(token) \in U16
<1>1. CASE Len(token) = 1 /\ token[1] \in DOMAIN Numeral
  <2>1. Port(token) = Numeral[token[1]]
    BY <1>1 DEF Port
  <2> QED  BY <1>1, <2>1, NumeralAssumption, U16Def
<1>2. CASE ~(Len(token) = 1 /\ token[1] \in DOMAIN Numeral)
  BY <1>2, Zenon DEF Port
<1> QED  BY <1>1, <1>2

\* An id that -w gives is 16 bits wide and names both ends alike.
LEMMA GivenId ==
    ASSUME NEW spec, ParseTun(spec).ok, ParseTun(spec).id # NoId
    PROVE  /\ ParseTun(spec).id \in U16
           /\ ParseTun(spec).local = ParseTun(spec).remote
<1> DEFINE t == spec[1]
           id == IF Len(spec) = 1 THEN Port(Tail(t))
                 ELSE IF Len(spec) = 2 /\ t = <<"auto", "">> THEN Port(spec[2])
                 ELSE NoPort
<1>1. id = NoPort \/ id \in U16
  BY PortU16
<1>2. CASE t[1] = "auto" /\ Len(t) # 1
  <2>1. ParseTun(spec) = IF id = NoPort THEN Bad
                         ELSE Tun(AutoDevice(id), AutoDevice(id), id)
    BY <1>2, Zenon DEF ParseTun
  <2> HIDE DEF id
  <2> QED  BY <1>1, <2>1 DEF Bad, Tun
<1>3. CASE ~(t[1] = "auto" /\ Len(t) # 1)
  <2>1. \/ \E a, b : ParseTun(spec) = Tun(Device(a), Device(b), NoId)
        \/ ParseTun(spec) = Bad
    <3> DEFINE two == t[1] # "auto" /\ Len(spec) = 1 /\ Len(t) = 2
               one == Len(spec) = 1 /\ Len(t) = 1
               pair == Len(spec) = 2 /\ (t[1] # "auto" \/ Len(t) = 1)
    <3>1. ~(two /\ one) /\ ~(two /\ pair) /\ ~(one /\ pair)
      OBVIOUS
    <3>2. CASE two
      <4>1. ParseTun(spec) = Tun(Device(<<t[1]>>), Device(<<t[2]>>), NoId)
        BY <1>3, <3>1, <3>2, Zenon DEF ParseTun
      <4> QED  BY <4>1, Zenon
    <3>3. CASE one
      <4>1. ParseTun(spec) = Tun(Device(t), Device(t), NoId)
        BY <1>3, <3>1, <3>3, Zenon DEF ParseTun
      <4> QED  BY <4>1, Zenon
    <3>4. CASE pair
      <4>1. ParseTun(spec) = Tun(Device(t), Device(spec[2]), NoId)
        BY <1>3, <3>1, <3>4, Zenon DEF ParseTun
      <4> QED  BY <4>1, Zenon
    <3>5. CASE ~two /\ ~one /\ ~pair
      BY <1>3, <3>5, Zenon DEF ParseTun
    <3> QED  BY <3>2, <3>3, <3>4, <3>5
  <2> QED  BY <2>1 DEF Bad, Tun
<1> QED  BY <1>2, <1>3

\* The id that generate_auto_tun_id derives is 16 bits wide, and not the last.
LEMMA DerivedId ==
    ASSUME NEW raw \in U16
    PROVE  AutoId(raw) \in U16 /\ AutoId(raw) # NoId /\ ~Overflows(AutoId(raw))
<1>1. PICK x \in 1 .. 254, k \in 0 .. 126 : AutoId(raw) = x * 256 + (k * 2 + 1)
  <2>1. raw \in Nat
    BY U16Def
  <2> QED  BY <2>1, AutoIdParts
<1>2. x * 256 + (k * 2 + 1) \in Nat /\ x * 256 + (k * 2 + 1) < 65535
  OBVIOUS
<1> QED  BY <1>1, <1>2, U16Def DEF NoId, Overflows, MaxU16

\* The device that is resolved for -w: the id is given or derived, and the
\* addresses that were not given are those of the id.
TunFor(e, t, id) ==
    /\ t.tun.id = id
    /\ id # NoId =>
        /\ id \in U16 /\ t.tun.local = t.tun.remote
        /\ ~IdGiven(e) => id = AutoId(args.raw)
        /\ t.local = OrElse(args.addr.local, Some(LocalAddr(id)))
        /\ t.remote = OrElse(args.addr.remote, Some(RemoteAddr(id)))
        /\ t.local6 = OrElse(args.addr.local6, Some(LocalAddr6(id)))
        /\ t.remote6 = OrElse(args.addr.remote6, Some(RemoteAddr6(id)))

LEMMA TunOfFor ==
    ASSUME NEW e, args.raw \in U16, NEW t, TunOf(e) = <<t>>, t.ok
    PROVE  \E id : TunFor(e, t, id)
<1> DEFINE p == ParseTun(TunSpec(e)[1])
           auto == Device(<<"auto">>) \in {p.local, p.remote}
           id == IF auto THEN AutoId(args.raw) ELSE p.id
           names == IF auto THEN Tun(AutoDevice(id), AutoDevice(id), id) ELSE p
           addr(given, derived) == OrElse(given, IF id = NoId THEN None ELSE Some(derived))
           r == [tun |-> names, ok |-> TRUE,
                 local |-> addr(args.addr.local, LocalAddr(id)),
                 remote |-> addr(args.addr.remote, RemoteAddr(id)),
                 local6 |-> addr(args.addr.local6, LocalAddr6(id)),
                 remote6 |-> addr(args.addr.remote6, RemoteAddr6(id))]
<1>1. TunOf(e) = IF TunSpec(e) = None THEN None ELSE IF ~p.ok THEN Some(Bad) ELSE Some(r)
  BY Zenon DEF TunOf
<1>2. TunSpec(e) # None /\ p.ok /\ t = r
  <2> HIDE DEF p, r
  <2> QED  BY <1>1 DEF None, Some, Bad
<1>3. names.id = id /\ (id # NoId => id \in U16 /\ names.local = names.remote)
  <2>1. CASE auto
    <3>1. id = AutoId(args.raw) /\ names = Tun(AutoDevice(id), AutoDevice(id), id)
      BY <2>1
    <3>2. id \in U16
      BY <3>1, DerivedId
    <3> HIDE DEF id, names
    <3>3. names.local = names.remote /\ names.id = id
      BY <3>1 DEF Tun
    <3> QED  BY <3>2, <3>3
  <2>2. CASE ~auto
    <3>1. id = p.id /\ names = p
      BY <2>2
    <3> HIDE DEF id, names, p
    <3> QED  BY <1>2, <3>1, GivenId DEF p
  <2> QED  BY <2>1, <2>2
<1>4. id # NoId /\ ~IdGiven(e) => id = AutoId(args.raw)
  BY DEF IdGiven
<1>5. /\ t.tun = names
      /\ id # NoId =>
          /\ t.local = OrElse(args.addr.local, Some(LocalAddr(id)))
          /\ t.remote = OrElse(args.addr.remote, Some(RemoteAddr(id)))
          /\ t.local6 = OrElse(args.addr.local6, Some(LocalAddr6(id)))
          /\ t.remote6 = OrElse(args.addr.remote6, Some(RemoteAddr6(id)))
  BY <1>2
<1> HIDE DEF id, names, p, r, addr
<1> QED  BY <1>3, <1>4, <1>5 DEF TunFor

\* The addresses that from_args returns for an automatic device.
LEMMA TunForPaired ==
    ASSUME NEW e, args.raw \in U16, NEW t, NEW id, TunFor(e, t, id), id # NoId,
           ~(Overflows(id) /\ args.addr.remote = None /\ args.checks)
    PROVE  /\ t.tun.local = t.tun.remote
           /\ None \notin {t.local, t.remote, t.local6, t.remote6}
           /\ args.addr.local = None /\ args.addr.remote = None =>
                 IF ~IdGiven(e) THEN Usable(t.local[1], t.remote[1])
                 ELSE \/ Follows(t.local[1], t.remote[1])
                      \/ Overflows(t.tun.id) /\ ~args.checks /\ t.remote[1] = <<0, 0>>
           /\ args.addr.local6 = None /\ args.addr.remote6 = None =>
                 t.local6[1][1] = t.remote6[1][1] /\ t.local6 # t.remote6
<1>1. None \notin {t.local, t.remote, t.local6, t.remote6}
  <2>1. \A a, v : OrElse(a, Some(v)) # None
    BY DEF OrElse, Some, None
  <2> QED  BY <2>1, Zenon DEF TunFor
<1>2. ASSUME args.addr.local = None, args.addr.remote = None
      PROVE  IF ~IdGiven(e) THEN Usable(t.local[1], t.remote[1])
             ELSE \/ Follows(t.local[1], t.remote[1])
                  \/ Overflows(t.tun.id) /\ ~args.checks /\ t.remote[1] = <<0, 0>>
  <2>1. t.local[1] = LocalAddr(id) /\ t.remote[1] = RemoteAddr(id)
    BY <1>2 DEF TunFor, OrElse, Some
  <2>2. CASE ~IdGiven(e)
    <3>1. PairUsable(args.raw) /\ id = AutoId(args.raw)
      BY <2>2, AutoPairsUsable DEF TunFor
    <3> QED  BY <2>1, <2>2, <3>1 DEF PairUsable
  <2>3. CASE IdGiven(e)
    <3>1. IF Overflows(id) THEN RemoteAddr(id) = <<0, 0>>
          ELSE Follows(LocalAddr(id), RemoteAddr(id))
      BY AddressesFollow DEF TunFor
    <3> QED  BY <1>2, <2>1, <2>3, <3>1 DEF TunFor
  <2> QED  BY <2>2, <2>3
<1>3. ASSUME args.addr.local6 = None, args.addr.remote6 = None
      PROVE  t.local6[1][1] = t.remote6[1][1] /\ t.local6 # t.remote6
  BY <1>3 DEF TunFor, OrElse, Some, LocalAddr6, RemoteAddr6
<1> QED  BY <1>1, <1>2, <1>3 DEF TunFor

\* Both ends of an automatic TUN device have the same name, the addresses that
\* from_args returns for a derived id can be used and deriving it never
\* panics, and those of an id that is given follow each other unless it is
\* 65535, for every file, command line and digest (from_args,
\* parse_tun_forward, generate_auto_tun_id).
THEOREM TunIsPaired == Spec => []TunPaired
<1>1. Init => TunResolved
  BY RawAssumption DEF Init, TunResolved
<1>2. TunResolved => TunPaired
  <2> SUFFICES ASSUME TunResolved PROVE TunPaired
    OBVIOUS
  <2>1. args.raw \in U16
    BY DEF TunResolved
  <2>2. TunOf(merged) = None \/ \E t : TunOf(merged) = <<t>>
    BY Zenon DEF TunOf, Some
  <2>3. ASSUME phase = "panic" PROVE IdGiven(merged)
    <3>1. /\ \A i \in DOMAIN TunOf(merged) : TunOf(merged)[i].ok
          /\ \E i \in DOMAIN TunOf(merged) : Overflows(TunOf(merged)[i].tun.id)
      BY <2>3 DEF TunResolved, TunPanics
    <3>2. PICK t : TunOf(merged) = <<t>>
      BY <2>2, <3>1 DEF None
    <3>3. t.ok /\ Overflows(t.tun.id)
      BY <3>1, <3>2
    <3>4. PICK id : TunFor(merged, t, id)
      BY <2>1, <3>2, <3>3, TunOfFor
    <3>5. id # NoId
      BY <3>3, <3>4 DEF TunFor, Overflows, MaxU16, NoId
    <3> QED  BY <2>1, <3>3, <3>4, <3>5, DerivedId DEF TunFor
  <2>4. ASSUME phase = "done", res.tun # None, res.tun[1].tun.id # NoId
        PROVE  LET t == res.tun[1]
               IN  /\ t.tun.local = t.tun.remote
                   /\ None \notin {t.local, t.remote, t.local6, t.remote6}
                   /\ args.addr.local = None /\ args.addr.remote = None =>
                         IF ~IdGiven(merged) THEN Usable(t.local[1], t.remote[1])
                         ELSE \/ Follows(t.local[1], t.remote[1])
                              \/ Overflows(t.tun.id) /\ ~args.checks /\ t.remote[1] = <<0, 0>>
                   /\ args.addr.local6 = None /\ args.addr.remote6 = None =>
                         t.local6[1][1] = t.remote6[1][1] /\ t.local6 # t.remote6
    <3>1. /\ res.tun = TunOf(merged) /\ ~TunPanics(merged)
          /\ \A i \in DOMAIN TunOf(merged) : TunOf(merged)[i].ok
      BY <2>4 DEF TunResolved
    <3>2. PICK t : TunOf(merged) = <<t>>
      BY <2>2, <2>4, <3>1
    <3>3. res.tun[1] = t /\ t.ok
      BY <3>1, <3>2
    <3>4. ~(Overflows(t.tun.id) /\ args.addr.remote = None /\ args.checks)
      BY <3>1, <3>2 DEF TunPanics
    <3>5. PICK id : TunFor(merged, t, id)
      BY <2>1, <3>2, <3>3, TunOfFor
    <3>6. id = t.tun.id /\ id # NoId
      BY <2>4, <3>3, <3>5 DEF TunFor
    <3> QED  BY <2>1, <3>3, <3>4, <3>5, <3>6, TunForPaired
  <2> QED  BY <2>3, <2>4, Zenon DEF TunPaired
<1> QED  BY <1>1, <1>2, TunStep, PTL DEF Spec

-----------------------------------------------------------------------------
\* The specifications of forwards.  What they can mean is told by a set of
\* ways to write them, and what they are taken for by counting tokens and
\* parts; the two agree for specifications of any length.

IsList(v) == \E S : v \in Seq(S)
IsSpec(spec) == IsList(spec) /\ \A i \in DOMAIN spec : IsList(spec[i]) /\ spec[i] # <<>>

\* The tuples that specifications and tokens are written as.
LEMMA ShortLists ==
    ASSUME NEW a, NEW b, NEW e, NEW f
    PROVE  /\ Len(<<a>>) = 1 /\ Len(<<a, b>>) = 2 /\ Len(<<a, b, e>>) = 3 /\ Len(<<a, b, e, f>>) = 4
           /\ <<a>>[1] = a /\ <<a, b>>[1] = a /\ <<a, b>>[2] = b
           /\ <<a, b, e>>[1] = a /\ <<a, b, e>>[2] = b /\ <<a, b, e>>[3] = e
           /\ <<a, b, e, f>>[1] = a /\ <<a, b, e, f>>[2] = b
           /\ <<a, b, e, f>>[3] = e /\ <<a, b, e, f>>[4] = f
OBVIOUS

\* A list of a known length.
LEMMA ListOf ==
    ASSUME NEW v, IsList(v)
    PROVE  /\ Len(v) \in Nat /\ DOMAIN v = 1 .. Len(v) /\ (Len(v) = 0 <=> v = <<>>)
           /\ Len(v) = 1 => v = <<v[1]>>
           /\ Len(v) = 2 => v = <<v[1], v[2]>>
           /\ Len(v) = 3 => v = <<v[1], v[2], v[3]>>
           /\ Len(v) = 4 => v = <<v[1], v[2], v[3], v[4]>>
<1>1. PICK S : v \in Seq(S)
  BY DEF IsList
<1>2. Len(v) \in Nat /\ DOMAIN v = 1 .. Len(v) /\ (Len(v) = 0 <=> v = <<>>)
  BY <1>1
<1>3. v = [i \in 1 .. Len(v) |-> v[i]]
  BY <1>1
<1>4. ASSUME Len(v) = 1 PROVE v = <<v[1]>>
  <2> DEFINE w == <<v[1]>>
  <2>1. w = [i \in 1 .. 1 |-> w[i]] /\ \A i \in 1 .. 1 : w[i] = v[i]
    OBVIOUS
  <2> HIDE DEF w
  <2>2. v = w
    BY <1>3, <1>4, <2>1
  <2> QED  BY <2>2 DEF w
<1>5. ASSUME Len(v) = 2 PROVE v = <<v[1], v[2]>>
  <2> DEFINE w == <<v[1], v[2]>>
  <2>1. w = [i \in 1 .. 2 |-> w[i]] /\ \A i \in 1 .. 2 : w[i] = v[i]
    OBVIOUS
  <2> HIDE DEF w
  <2>2. v = w
    BY <1>3, <1>5, <2>1
  <2> QED  BY <2>2 DEF w
<1>6. ASSUME Len(v) = 3 PROVE v = <<v[1], v[2], v[3]>>
  <2> DEFINE w == <<v[1], v[2], v[3]>>
  <2>1. w = [i \in 1 .. 3 |-> w[i]] /\ \A i \in 1 .. 3 : w[i] = v[i]
    OBVIOUS
  <2> HIDE DEF w
  <2>2. v = w
    BY <1>3, <1>6, <2>1
  <2> QED  BY <2>2 DEF w
<1>7. ASSUME Len(v) = 4 PROVE v = <<v[1], v[2], v[3], v[4]>>
  <2> DEFINE w == <<v[1], v[2], v[3], v[4]>>
  <2>1. w = [i \in 1 .. 4 |-> w[i]] /\ \A i \in 1 .. 4 : w[i] = v[i]
    OBVIOUS
  <2> HIDE DEF w
  <2>2. v = w
    BY <1>3, <1>7, <2>1
  <2> QED  BY <2>2 DEF w
<1> QED  BY <1>2, <1>4, <1>5, <1>6, <1>7

\* The last part of a token, and the parts before it.
LEMMA FrontLast ==
    ASSUME NEW v, IsList(v), v # <<>>
    PROVE  /\ IsList(Front(v)) /\ v = Append(Front(v), Last(v)) /\ Front(v) \in Prefixes(v)
           /\ v \in Prefixes(v) /\ (Len(v) > 1 => Front(v) # <<>>)
<1>1. PICK S : v \in Seq(S)
  BY DEF IsList
<1>2. Len(v) \in Nat \ {0} /\ Len(v) >= 1
  BY <1>1
<1>3. Front(v) \in Seq(S) /\ Len(Front(v)) = Len(v) - 1
  <2> DEFINE n == Len(v) - 1
  <2>1. n \in Int /\ 1 \in Int /\ n >= 0 /\ \A i \in 1 .. n : v[i] \in S
    BY <1>1, <1>2
  <2> HIDE DEF n
  <2>2. /\ SubSeq(v, 1, n) \in Seq(S)
        /\ Len(SubSeq(v, 1, n)) = IF 1 <= n THEN n - 1 + 1 ELSE 0
    BY <1>1, <2>1, SubSeqProperties
  <2>3. Len(SubSeq(v, 1, n)) = n
    BY <2>1, <2>2
  <2> QED  BY <2>2, <2>3 DEF n, Front
<1>4. v = Append(Front(v), Last(v))
  <2> DEFINE w == Append(Front(v), Last(v))
  <2>1. Last(v) \in S
    BY <1>1, <1>2 DEF Last
  <2>2. w \in Seq(S) /\ Len(w) = Len(v)
    BY <1>2, <1>3, <2>1
  <2>3. \A i \in 1 .. Len(v) : w[i] = v[i]
    <3> SUFFICES ASSUME NEW i \in 1 .. Len(v) PROVE w[i] = v[i]
      OBVIOUS
    <3>1. CASE i = Len(v)
      BY <1>1, <1>2, <1>3, <2>1, <3>1 DEF Last
    <3>2. CASE i # Len(v)
      <4>1. i \in 1 .. Len(v) - 1 /\ i \in 1 .. Len(Front(v))
        BY <1>2, <1>3, <3>2
      <4>2. Front(v)[i] = v[i]
        BY <1>1, <1>2, <4>1 DEF Front
      <4>3. w[i] = Front(v)[i]
        BY <1>3, <2>1, <4>1
      <4> QED  BY <4>2, <4>3
    <3> QED  BY <3>1, <3>2
  <2> HIDE DEF w
  <2>4. w = v
    BY <1>1, <2>2, <2>3, SeqEqual
  <2> QED  BY <2>4 DEF w
<1>5. Front(v) \in Prefixes(v)
  BY <1>2 DEF Front, Prefixes
<1>6. v \in Prefixes(v)
  <2>1. SubSeq(v, 1, Len(v)) = v
    BY <1>1, SubSeqFull
  <2>2. Len(v) \in 0 .. Len(v)
    BY <1>2
  <2>3. SubSeq(v, 1, Len(v)) \in Prefixes(v)
    BY <2>2, Zenon DEF Prefixes
  <2> QED  BY <2>1, <2>3
<1>7. Len(v) > 1 => Front(v) # <<>>
  BY <1>2, <1>3
<1>8. IsList(Front(v))
  BY <1>3, Zenon DEF IsList
<1> QED  BY <1>4, <1>5, <1>6, <1>7, <1>8

\* A host with a port after it: the last colon takes them apart again.
LEMMA AppendFrontLast ==
    ASSUME NEW v, IsList(v), NEW a
    PROVE  LET w == Append(v, a)
           IN  IsList(w) /\ Len(w) = Len(v) + 1 /\ Front(w) = v /\ Last(w) = a
<1>1. PICK S : v \in Seq(S)
  BY DEF IsList
<1> DEFINE T == S \cup {a}
           w == Append(v, a)
<1>2. v \in Seq(T) /\ a \in T
  BY <1>1, SeqMonotonic
<1> HIDE DEF T
<1>3. w \in Seq(T) /\ Len(w) = Len(v) + 1 /\ Len(v) \in Nat
  BY <1>2
<1>4. w[Len(v) + 1] = a /\ \A i \in 1 .. Len(v) : w[i] = v[i]
  BY <1>2, AppendProperties
<1> HIDE DEF w
<1>5. Last(w) = a
  BY <1>3, <1>4 DEF Last
<1>6. Front(w) = v
  <2>1. Front(w) \in Seq(T) /\ Len(Front(w)) = Len(v)
    BY <1>3 DEF Front
  <2>2. \A i \in 1 .. Len(v) : Front(w)[i] = v[i]
    BY <1>3, <1>4 DEF Front
  <2> QED  BY <1>2, <2>1, <2>2, SeqEqual
<1> QED  BY <1>3, <1>5, <1>6 DEF w, IsList

\* str::parse::<u16> on one part.
LEMMA PortOne ==
    ASSUME NEW x
    PROVE  /\ x \in DOMAIN Numeral => Port(<<x>>) = Numeral[x] /\ Port(<<x>>) # NoPort
           /\ x \notin DOMAIN Numeral => Port(<<x>>) = NoPort
<1>1. Port(<<x>>) = IF x \in DOMAIN Numeral THEN Numeral[x] ELSE NoPort
  BY DEF Port
<1>2. x \in DOMAIN Numeral => Numeral[x] # NoPort
  BY NumeralAssumption DEF NoPort
<1> QED  BY <1>1, <1>2

\* A token that is a port is a single part.
LEMMA PortToken ==
    ASSUME NEW t, IsList(t), Port(t) # NoPort
    PROVE  \E x \in DOMAIN Numeral : t = <<x>>
<1>1. Len(t) = 1 /\ t[1] \in DOMAIN Numeral
  BY DEF Port
<1>2. t = <<t[1]>>
  BY <1>1, ListOf
<1> QED  BY <1>1, <1>2

\* A forward is accepted if both of its ports are.
LEMMA ForwardOk ==
    ASSUME NEW b, NEW p, NEW h, NEW q
    PROVE  Forward(b, p, h, q).ok <=> p # NoPort /\ q # NoPort
<1>1. ~Bad.ok
  BY Zenon DEF Bad
<1>2. CASE NoPort \in {p, q}
  <2>1. Forward(b, p, h, q) = Bad
    BY <1>2 DEF Forward
  <2> QED  BY <1>1, <1>2, <2>1, Zenon
<1>3. CASE NoPort \notin {p, q}
  <2> DEFINE r == [ok |-> TRUE, bind |-> b, port |-> p, host |-> h, hostport |-> q]
  <2>1. Forward(b, p, h, q) = r
    BY <1>3 DEF Forward
  <2>2. r.ok
    BY Zenon
  <2> HIDE DEF r
  <2> QED  BY <1>3, <2>1, <2>2, Zenon
<1> QED  BY <1>2, <1>3

\* The arms of parse_local_forward and parse_remote_forward.
LEMMA ParseArms ==
    ASSUME NEW spec, NEW d
    PROVE  LET t == spec[1]
               r == ParseForward(spec, d)
           IN  /\ Len(spec) = 1 /\ Len(t) = 3 =>
                     r = Forward(d, Port(<<t[1]>>), <<t[2]>>, Port(<<t[3]>>))
               /\ Len(spec) = 1 /\ Len(t) = 4 =>
                     r = Forward(<<t[1]>>, Port(<<t[2]>>), <<t[3]>>, Port(<<t[4]>>))
               /\ Len(spec) = 2 /\ Len(spec[2]) > 1 =>
                     r = Forward(IF Len(t) > 1 THEN Front(t) ELSE d, Port(<<Last(t)>>),
                                 Front(spec[2]), Port(<<Last(spec[2])>>))
               /\ Len(spec) = 3 => r = Forward(d, Port(t), spec[2], Port(spec[3]))
               /\ Len(spec) = 4 => r = Forward(t, Port(spec[2]), spec[3], Port(spec[4]))
               /\ \/ Len(spec) = 1 /\ (Len(t) = 3 \/ Len(t) = 4)
                  \/ Len(spec) = 2 /\ Len(spec[2]) > 1
                  \/ Len(spec) = 3 \/ Len(spec) = 4
                  \/ r = Bad
<1>1. 1 # 2 /\ 1 # 3 /\ 1 # 4 /\ 2 # 3 /\ 2 # 4 /\ 3 # 4
  OBVIOUS
<1> QED  BY <1>1, Zenon DEF ParseForward

\* The hosts that a specification names: a token, the parts of one before
\* its last colons, or a single part of one.
Hosts(spec, d) ==
    {d} \cup UNION {(Prefixes(t) \ {<<>>}) \cup {<<p>> : p \in ToSet(t)} : t \in ToSet(spec)}

IsHost(h) == IsList(h) /\ h # <<>>

\* A single part is a host.
LEMMA ListSome ==
    ASSUME NEW a
    PROVE  IsHost(<<a>>)
<1>1. <<a>> \in Seq({a}) /\ <<a>> # <<>>
  OBVIOUS
<1> QED  BY <1>1, Zenon DEF IsHost, IsList

\* A host that a specification names has at least one part.
LEMMA HostsAreLists ==
    ASSUME NEW spec, IsSpec(spec), NEW d, IsHost(d), NEW h \in Hosts(spec, d)
    PROVE  IsHost(h)
<1>1. CASE h = d
  BY <1>1
<1>2. CASE h # d
  <2>1. PICK t \in ToSet(spec) : h \in (Prefixes(t) \ {<<>>}) \cup {<<p>> : p \in ToSet(t)}
    BY <1>2, Zenon DEF Hosts
  <2>2. IsList(t)
    BY <2>1, Zenon DEF IsSpec, ToSet
  <2>3. CASE h \in Prefixes(t) \ {<<>>}
    <3>1. PICK S : t \in Seq(S)
      BY <2>2 DEF IsList
    <3>2. PICK l \in 0 .. Len(t) : h = SubSeq(t, 1, l)
      BY <2>3 DEF Prefixes
    <3>3. l \in Int /\ 1 \in Int /\ \A i \in 1 .. l : t[i] \in S
      BY <3>1, <3>2
    <3>4. h \in Seq(S)
      BY <3>1, <3>2, <3>3, SubSeqProperties
    <3> QED  BY <2>3, <3>4, Zenon DEF IsHost, IsList
  <2>4. CASE h \in {<<p>> : p \in ToSet(t)}
    BY <2>4, ListSome
  <2> QED  BY <2>1, <2>3, <2>4
<1> QED  BY <1>1, <1>2

\* The tokens, the parts and what is before the last colon are such hosts.
LEMMA HostsHold ==
    ASSUME NEW spec, IsSpec(spec), NEW d, NEW i \in DOMAIN spec
    PROVE  /\ spec[i] \in Hosts(spec, d)
           /\ Len(spec[i]) > 1 => Front(spec[i]) \in Hosts(spec, d)
           /\ \A j \in DOMAIN spec[i] : <<spec[i][j]>> \in Hosts(spec, d)
<1> DEFINE t == spec[i]
<1>1. IsList(t) /\ t # <<>> /\ t \in ToSet(spec)
  BY Zenon DEF IsSpec, ToSet
<1> HIDE DEF t
<1>2. \A h : h \in (Prefixes(t) \ {<<>>}) \cup {<<p>> : p \in ToSet(t)} => h \in Hosts(spec, d)
  BY <1>1, Zenon DEF Hosts
<1>3. /\ t \in Prefixes(t) /\ Front(t) \in Prefixes(t)
      /\ Len(t) > 1 => Front(t) # <<>>
  BY <1>1, FrontLast
<1>4. \A j \in DOMAIN t : <<t[j]>> \in {<<p>> : p \in ToSet(t)}
  BY Zenon DEF ToSet
<1>5. t \in Hosts(spec, d)
  BY <1>1, <1>2, <1>3, Zenon
<1>6. Len(t) > 1 => Front(t) \in Hosts(spec, d)
  BY <1>2, <1>3, Zenon
<1>7. \A j \in DOMAIN t : <<t[j]>> \in Hosts(spec, d)
  BY <1>2, <1>4, Zenon
<1> QED  BY <1>5, <1>6, <1>7 DEF t

\* A token that a part is added to.
LEMMA PartAdded ==
    ASSUME NEW T, NEW u \in Seq(T), NEW v \in Seq(T), Len(v) = 1
    PROVE  /\ IsList(u \o v) /\ Len(u \o v) = Len(u) + 1 /\ (u \o v)[Len(u) + 1] = v[1]
           /\ \A i \in 1 .. Len(u) : (u \o v)[i] = u[i]
<1>1. u \o v \in Seq(T) /\ Len(u \o v) = Len(u) + 1 /\ Len(u) \in Nat
  <2>1. u \o v \in Seq(T) /\ Len(u \o v) = Len(u) + Len(v)
    BY ConcatProperties, Zenon
  <2>2. Len(u) \in Nat
    OBVIOUS
  <2> QED  BY <2>1, <2>2, Zenon
<1>2. (u \o v)[Len(u) + 1] = v[1] /\ \A i \in 1 .. Len(u) : (u \o v)[i] = u[i]
  <2>1. \A i \in 1 .. Len(u) + Len(v) :
            (u \o v)[i] = IF i <= Len(u) THEN u[i] ELSE v[i - Len(u)]
    BY ConcatProperties, Zenon
  <2> DEFINE w == u \o v
  <2>2. \A i \in 1 .. Len(u) + 1 : w[i] = IF i <= Len(u) THEN u[i] ELSE v[i - Len(u)]
    BY <2>1
  <2> HIDE DEF w
  <2>3. w[Len(u) + 1] = v[1] /\ \A i \in 1 .. Len(u) : w[i] = u[i]
    BY <1>1, <2>2
  <2> QED  BY <2>3 DEF w
<1>3. IsList(u \o v)
  BY <1>1, Zenon DEF IsList
<1> QED  BY <1>1, <1>2, <1>3

\* A token of single parts, put together.
LEMMA Joined ==
    ASSUME NEW a, NEW b, NEW e, NEW f
    PROVE  /\ <<a>> \o <<b>> = <<a, b>>
           /\ <<a>> \o <<b>> \o <<e>> = <<a, b, e>>
           /\ <<a>> \o <<b>> \o <<e>> \o <<f>> = <<a, b, e, f>>
<1>1. <<a>> \o <<b>> = <<a, b>>
  <2> DEFINE T == {a, b, e, f}
             u == <<a>>
             v == <<b>>
             w == u \o v
  <2>1. u \in Seq(T) /\ v \in Seq(T) /\ Len(u) = 1 /\ Len(v) = 1
    OBVIOUS
  <2>2. u[1] = a /\ v[1] = b
    OBVIOUS
  <2> HIDE DEF u, v, T
  <2>3. /\ IsList(w) /\ Len(w) = Len(u) + 1 /\ w[Len(u) + 1] = v[1]
        /\ \A i \in 1 .. Len(u) : w[i] = u[i]
    BY <2>1, PartAdded
  <2> HIDE DEF w
  <2>4. Len(w) = 2 /\ w[1] = a /\ w[2] = b
    BY <2>1, <2>2, <2>3
  <2>5. w = <<a, b>>
    BY <2>3, <2>4, ListOf
  <2> QED  BY <2>5 DEF u, v, w
<1>2. <<a, b>> \o <<e>> = <<a, b, e>>
  <2> DEFINE T == {a, b, e, f}
             u == <<a, b>>
             v == <<e>>
             w == u \o v
  <2>1. u \in Seq(T) /\ v \in Seq(T) /\ Len(u) = 2 /\ Len(v) = 1
    OBVIOUS
  <2>2. u[1] = a /\ u[2] = b /\ v[1] = e
    OBVIOUS
  <2> HIDE DEF u, v, T
  <2>3. /\ IsList(w) /\ Len(w) = Len(u) + 1 /\ w[Len(u) + 1] = v[1]
        /\ \A i \in 1 .. Len(u) : w[i] = u[i]
    BY <2>1, PartAdded
  <2> HIDE DEF w
  <2>4. Len(w) = 3 /\ w[1] = a /\ w[2] = b /\ w[3] = e
    BY <2>1, <2>2, <2>3
  <2>5. w = <<a, b, e>>
    BY <2>3, <2>4, ListOf
  <2> QED  BY <2>5 DEF u, v, w
<1>3. <<a, b, e>> \o <<f>> = <<a, b, e, f>>
  <2> DEFINE T == {a, b, e, f}
             u == <<a, b, e>>
             v == <<f>>
             w == u \o v
  <2>1. u \in Seq(T) /\ v \in Seq(T) /\ Len(u) = 3 /\ Len(v) = 1
    OBVIOUS
  <2>2. u[1] = a /\ u[2] = b /\ u[3] = e /\ v[1] = f
    OBVIOUS
  <2> HIDE DEF u, v, T
  <2>3. /\ IsList(w) /\ Len(w) = Len(u) + 1 /\ w[Len(u) + 1] = v[1]
        /\ \A i \in 1 .. Len(u) : w[i] = u[i]
    BY <2>1, PartAdded
  <2> HIDE DEF w
  <2>4. Len(w) = 4 /\ w[1] = a /\ w[2] = b /\ w[3] = e /\ w[4] = f
    BY <2>1, <2>2, <2>3
  <2>5. w = <<a, b, e, f>>
    BY <2>3, <2>4, ListOf
  <2> QED  BY <2>5 DEF u, v, w
<1> QED  BY <1>1, <1>2, <1>3, Zenon

\* Whichever way a forward is written in, it is taken for what was meant.
LEMMA FormParsed ==
    ASSUME NEW spec, NEW d, NEW b, NEW p \in DOMAIN Numeral,
           NEW h, NEW q \in DOMAIN Numeral,
           IsHost(b), IsHost(h), spec \in Written(b, p, h, q, d)
    PROVE  ParseForward(spec, d) = Forward(b, Numeral[p], h, Numeral[q])
<1>1. Port(<<p>>) = Numeral[p] /\ Port(<<q>>) = Numeral[q]
  BY PortOne
<1>2. /\ IsList(b) /\ IsList(h) /\ Len(b) \in Nat /\ Len(b) # 0 /\ Len(h) \in Nat /\ Len(h) # 0
      /\ Len(b) = 1 => b = <<b[1]>>
      /\ Len(h) = 1 => h = <<h[1]>>
  <2>1. IsList(b) /\ IsList(h) /\ b # <<>> /\ h # <<>>
    BY DEF IsHost
  <2> QED  BY <2>1, ListOf, Zenon
<1>3. /\ Front(Append(b, p)) = b /\ Last(Append(b, p)) = p /\ Len(Append(b, p)) = Len(b) + 1
      /\ Front(Append(h, q)) = h /\ Last(Append(h, q)) = q /\ Len(Append(h, q)) = Len(h) + 1
  BY <1>2, AppendFrontLast
<1>4. CASE Len(h) = 1 /\ Len(b) = 1 /\ spec = <<b \o <<p>> \o h \o <<q>>>>
  <2> DEFINE t == <<b[1], p, h[1], q>>
  <2>1. b \o <<p>> \o h \o <<q>> = t
    <3>1. PICK x : x = b[1]
      OBVIOUS
    <3>2. PICK y : y = h[1]
      OBVIOUS
    <3>3. b = <<x>> /\ h = <<y>> /\ t = <<x, p, y, q>>
      BY <1>2, <1>4, <3>1, <3>2, Zenon
    <3>4. <<x>> \o <<p>> \o <<y>> \o <<q>> = <<x, p, y, q>>
      BY Joined
    <3> HIDE DEF t
    <3> QED  BY <3>3, <3>4, Zenon
  <2>2. Len(spec) = 1 /\ spec[1] = t
    BY <1>4, <2>1, ShortLists
  <2>3. Len(t) = 4 /\ t[1] = b[1] /\ t[2] = p /\ t[3] = h[1] /\ t[4] = q
    BY ShortLists
  <2> HIDE DEF t
  <2>4. ParseForward(spec, d) = Forward(<<t[1]>>, Port(<<t[2]>>), <<t[3]>>, Port(<<t[4]>>))
    BY <2>2, <2>3, ParseArms
  <2> QED  BY <1>1, <1>2, <1>4, <2>3, <2>4
<1>5. CASE spec = <<Append(b, p), Append(h, q)>>
  <2>1. Len(spec) = 2 /\ spec[1] = Append(b, p) /\ spec[2] = Append(h, q)
    BY <1>5, ShortLists
  <2>2. Len(spec[1]) > 1 /\ Len(spec[2]) > 1
    BY <1>2, <1>3, <2>1
  <2>3. ParseForward(spec, d) = Forward(Front(spec[1]), Port(<<Last(spec[1])>>),
                                        Front(spec[2]), Port(<<Last(spec[2])>>))
    BY <2>1, <2>2, ParseArms
  <2> QED  BY <1>1, <1>3, <2>1, <2>3
<1>6. CASE spec = <<b, <<p>>, h, <<q>>>>
  <2>1. Len(spec) = 4 /\ spec[1] = b /\ spec[2] = <<p>> /\ spec[3] = h /\ spec[4] = <<q>>
    BY <1>6, ShortLists
  <2>2. ParseForward(spec, d) = Forward(spec[1], Port(spec[2]), spec[3], Port(spec[4]))
    BY <2>1, ParseArms
  <2> QED  BY <1>1, <2>1, <2>2
<1>7. CASE b = d /\ spec = <<<<p>>, Append(h, q)>>
  <2>1. Len(spec) = 2 /\ spec[1] = <<p>> /\ spec[2] = Append(h, q)
    BY <1>7, ShortLists
  <2>2. Len(spec[1]) = 1 /\ ~(Len(spec[1]) > 1) /\ Len(spec[2]) > 1
    BY <1>2, <1>3, <2>1, ShortLists
  <2>3. Last(spec[1]) = p
    BY <2>1, <2>2, ShortLists DEF Last
  <2>4. ParseForward(spec, d) = Forward(d, Port(<<Last(spec[1])>>),
                                        Front(spec[2]), Port(<<Last(spec[2])>>))
    BY <2>1, <2>2, ParseArms
  <2> QED  BY <1>1, <1>3, <1>7, <2>1, <2>3, <2>4
<1>8. CASE b = d /\ spec = <<<<p>>, h, <<q>>>>
  <2>1. Len(spec) = 3 /\ spec[1] = <<p>> /\ spec[2] = h /\ spec[3] = <<q>>
    BY <1>8, ShortLists
  <2>2. ParseForward(spec, d) = Forward(d, Port(spec[1]), spec[2], Port(spec[3]))
    BY <2>1, ParseArms
  <2> QED  BY <1>1, <1>8, <2>1, <2>2
<1>9. CASE b = d /\ Len(h) = 1 /\ spec = <<<<p>> \o h \o <<q>>>>
  <2> DEFINE t == <<p, h[1], q>>
  <2>1. <<p>> \o h \o <<q>> = t
    <3>1. PICK y : y = h[1]
      OBVIOUS
    <3>2. h = <<y>> /\ t = <<p, y, q>>
      BY <1>2, <1>9, <3>1, Zenon
    <3>3. <<p>> \o <<y>> \o <<q>> = <<p, y, q>>
      BY Joined
    <3> HIDE DEF t
    <3> QED  BY <3>2, <3>3, Zenon
  <2>2. Len(spec) = 1 /\ spec[1] = t
    BY <1>9, <2>1, ShortLists
  <2>3. Len(t) = 3 /\ t[1] = p /\ t[2] = h[1] /\ t[3] = q
    BY ShortLists
  <2> HIDE DEF t
  <2>4. ParseForward(spec, d) = Forward(d, Port(<<t[1]>>), <<t[2]>>, Port(<<t[3]>>))
    BY <2>2, <2>3, ParseArms
  <2> QED  BY <1>1, <1>2, <1>9, <2>3, <2>4
<1> QED  BY <1>4, <1>5, <1>6, <1>7, <1>8, <1>9, Zenon DEF Written

\* The ways of writing a forward, one at a time.
LEMMA WrittenForms ==
    ASSUME NEW b, NEW p, NEW h, NEW q, NEW d, NEW spec
    PROVE  /\ Len(h) = 1 /\ Len(b) = 1 /\ spec = <<b \o <<p>> \o h \o <<q>>>> =>
                 spec \in Written(b, p, h, q, d)
           /\ spec = <<Append(b, p), Append(h, q)>> => spec \in Written(b, p, h, q, d)
           /\ spec = <<b, <<p>>, h, <<q>>>> => spec \in Written(b, p, h, q, d)
           /\ b = d /\ spec = <<<<p>>, Append(h, q)>> => spec \in Written(b, p, h, q, d)
           /\ b = d /\ spec = <<<<p>>, h, <<q>>>> => spec \in Written(b, p, h, q, d)
           /\ b = d /\ Len(h) = 1 /\ spec = <<<<p>> \o h \o <<q>>>> =>
                 spec \in Written(b, p, h, q, d)
BY Zenon DEF Written

\* What is taken for a forward is written in one of the ways.
LEMMA ParsedForm ==
    ASSUME NEW spec, NEW d, IsSpec(spec), ParseForward(spec, d).ok
    PROVE  \E b, h \in Hosts(spec, d) : \E p, q \in DOMAIN Numeral :
               spec \in Written(b, p, h, q, d)
<1> DEFINE t == spec[1]
<1>0. /\ IsList(spec) /\ DOMAIN spec = 1 .. Len(spec)
      /\ d \in Hosts(spec, d)
      /\ \A i \in 1 .. Len(spec) : IsList(spec[i]) /\ spec[i] # <<>>
  <2>1. IsList(spec) /\ \A i \in DOMAIN spec : IsList(spec[i]) /\ spec[i] # <<>>
    BY DEF IsSpec
  <2>2. DOMAIN spec = 1 .. Len(spec)
    BY <2>1, ListOf
  <2> QED  BY <2>1, <2>2, Zenon DEF Hosts
<1>1. ~Bad.ok
  BY Zenon DEF Bad
<1>p. ASSUME NEW b, NEW x, NEW h, NEW y, ParseForward(spec, d) = Forward(b, Port(x), h, Port(y))
      PROVE  Port(x) # NoPort /\ Port(y) # NoPort
  BY <1>p, ForwardOk
<1>2. CASE Len(spec) = 1 /\ Len(t) = 3
  <2>1. spec = <<t>> /\ t = <<t[1], t[2], t[3]>> /\ DOMAIN t = 1 .. 3 /\ 1 \in DOMAIN spec
    BY <1>0, <1>2, ListOf
  <2>2. ParseForward(spec, d) = Forward(d, Port(<<t[1]>>), <<t[2]>>, Port(<<t[3]>>))
    BY <1>2, ParseArms
  <2>3. t[1] \in DOMAIN Numeral /\ t[3] \in DOMAIN Numeral
    BY <1>p, <2>2, PortOne
  <2>4. <<t[2]>> \in Hosts(spec, d)
    BY <2>1, HostsHold
  <2>5. <<t[1]>> \o <<t[2]>> \o <<t[3]>> = <<t[1], t[2], t[3]>>
    BY Joined
  <2>6. Len(<<t[2]>>) = 1
    BY ShortLists
  <2>7. spec = <<<<t[1]>> \o <<t[2]>> \o <<t[3]>>>>
    BY <2>1, <2>5, Zenon
  <2>8. spec \in Written(d, t[1], <<t[2]>>, t[3], d)
    BY <2>6, <2>7, WrittenForms, Zenon
  <2> QED  BY <1>0, <2>3, <2>4, <2>8
<1>3. CASE Len(spec) = 1 /\ Len(t) = 4
  <2>1. spec = <<t>> /\ t = <<t[1], t[2], t[3], t[4]>> /\ DOMAIN t = 1 .. 4 /\ 1 \in DOMAIN spec
    BY <1>0, <1>3, ListOf
  <2>2. ParseForward(spec, d) = Forward(<<t[1]>>, Port(<<t[2]>>), <<t[3]>>, Port(<<t[4]>>))
    BY <1>3, ParseArms
  <2>3. t[2] \in DOMAIN Numeral /\ t[4] \in DOMAIN Numeral
    BY <1>p, <2>2, PortOne
  <2>4. <<t[1]>> \in Hosts(spec, d) /\ <<t[3]>> \in Hosts(spec, d)
    BY <2>1, HostsHold
  <2>5. <<t[1]>> \o <<t[2]>> \o <<t[3]>> \o <<t[4]>> = <<t[1], t[2], t[3], t[4]>>
    BY Joined
  <2>6. Len(<<t[1]>>) = 1 /\ Len(<<t[3]>>) = 1
    BY ShortLists
  <2>7. spec = <<<<t[1]>> \o <<t[2]>> \o <<t[3]>> \o <<t[4]>>>>
    BY <2>1, <2>5, Zenon
  <2>8. spec \in Written(<<t[1]>>, t[2], <<t[3]>>, t[4], d)
    BY <2>6, <2>7, WrittenForms, Zenon
  <2> QED  BY <2>3, <2>4, <2>8
<1>4. CASE Len(spec) = 2 /\ Len(spec[2]) > 1
  <2> DEFINE u == spec[2]
  <2>1. spec = <<t, u>> /\ 1 \in DOMAIN spec /\ 2 \in DOMAIN spec
    BY <1>0, <1>4, ListOf
  <2>2. IsList(t) /\ t # <<>> /\ IsList(u) /\ u # <<>>
    BY <1>0, <1>4
  <2>3. ParseForward(spec, d) = Forward(IF Len(t) > 1 THEN Front(t) ELSE d, Port(<<Last(t)>>),
                                        Front(u), Port(<<Last(u)>>))
    BY <1>4, ParseArms
  <2>4. Last(t) \in DOMAIN Numeral /\ Last(u) \in DOMAIN Numeral
    BY <1>p, <2>3, PortOne
  <2>5. Front(u) \in Hosts(spec, d) /\ (Len(t) > 1 => Front(t) \in Hosts(spec, d))
    BY <1>4, <2>1, HostsHold
  <2>6. t = Append(Front(t), Last(t)) /\ u = Append(Front(u), Last(u))
    BY <2>2, FrontLast
  <2>7. CASE Len(t) > 1
    <3>1. spec = <<Append(Front(t), Last(t)), Append(Front(u), Last(u))>>
      BY <2>1, <2>6, Zenon
    <3>2. spec \in Written(Front(t), Last(t), Front(u), Last(u), d)
      BY <3>1, WrittenForms, Zenon
    <3> QED  BY <2>4, <2>5, <2>7, <3>2
  <2>8. CASE ~(Len(t) > 1)
    <3>1. Len(t) = 1 /\ t = <<t[1]>> /\ Last(t) = t[1]
      <4>1. Len(t) \in Nat /\ Len(t) # 0 /\ (Len(t) = 1 => t = <<t[1]>>)
        BY <2>2, ListOf
      <4>2. Len(t) = 1
        <5>1. PICK n : n = Len(t)
          OBVIOUS
        <5>2. n \in Nat /\ n # 0 /\ ~(n > 1)
          BY <2>8, <4>1, <5>1, Zenon
        <5>3. n = 1
          BY <5>2
        <5> QED  BY <5>1, <5>3, Zenon
      <4>3. Last(t) = t[1]
        BY <4>2, Zenon DEF Last
      <4> QED  BY <4>1, <4>2, <4>3, Zenon
    <3>2. spec = <<<<Last(t)>>, Append(Front(u), Last(u))>>
      BY <2>1, <2>6, <3>1, Zenon
    <3>3. spec \in Written(d, Last(t), Front(u), Last(u), d)
      BY <3>2, WrittenForms, Zenon
    <3> QED  BY <1>0, <2>4, <2>5, <3>3
  <2> QED  BY <2>7, <2>8
<1>5. CASE Len(spec) = 3
  <2>1. spec = <<t, spec[2], spec[3]>> /\ 2 \in DOMAIN spec
    BY <1>0, <1>5, ListOf
  <2>2. IsList(t) /\ IsList(spec[3])
    BY <1>0, <1>5
  <2>3. ParseForward(spec, d) = Forward(d, Port(t), spec[2], Port(spec[3]))
    BY <1>5, ParseArms
  <2>4. Port(t) # NoPort /\ Port(spec[3]) # NoPort
    BY <1>p, <2>3
  <2>5. PICK p \in DOMAIN Numeral : t = <<p>>
    BY <2>2, <2>4, PortToken
  <2>6. PICK q \in DOMAIN Numeral : spec[3] = <<q>>
    BY <2>2, <2>4, PortToken
  <2>7. spec[2] \in Hosts(spec, d)
    BY <2>1, HostsHold
  <2>8. spec = <<<<p>>, spec[2], <<q>>>>
    BY <2>1, <2>5, <2>6, Zenon
  <2>9. spec \in Written(d, p, spec[2], q, d)
    BY <2>8, WrittenForms, Zenon
  <2> QED  BY <1>0, <2>7, <2>9
<1>6. CASE Len(spec) = 4
  <2>1. spec = <<t, spec[2], spec[3], spec[4]>> /\ 1 \in DOMAIN spec /\ 3 \in DOMAIN spec
    BY <1>0, <1>6, ListOf
  <2>2. IsList(spec[2]) /\ IsList(spec[4])
    BY <1>0, <1>6
  <2>3. ParseForward(spec, d) = Forward(t, Port(spec[2]), spec[3], Port(spec[4]))
    BY <1>6, ParseArms
  <2>4. Port(spec[2]) # NoPort /\ Port(spec[4]) # NoPort
    BY <1>p, <2>3
  <2>5. PICK p \in DOMAIN Numeral : spec[2] = <<p>>
    BY <2>2, <2>4, PortToken
  <2>6. PICK q \in DOMAIN Numeral : spec[4] = <<q>>
    BY <2>2, <2>4, PortToken
  <2>7. t \in Hosts(spec, d) /\ spec[3] \in Hosts(spec, d)
    BY <2>1, HostsHold
  <2>8. spec = <<t, <<p>>, spec[3], <<q>>>>
    BY <2>1, <2>5, <2>6, Zenon
  <2>9. spec \in Written(t, p, spec[3], q, d)
    BY <2>8, WrittenForms, Zenon
  <2> QED  BY <2>7, <2>9
<1>7. CASE ParseForward(spec, d) = Bad
  BY <1>1, <1>7
<1>8. \/ Len(spec) = 1 /\ (Len(t) = 3 \/ Len(t) = 4)
      \/ Len(spec) = 2 /\ Len(spec[2]) > 1
      \/ Len(spec) = 3 \/ Len(spec) = 4
      \/ ParseForward(spec, d) = Bad
  BY ParseArms, Zenon
<1> QED  BY <1>2, <1>3, <1>4, <1>5, <1>6, <1>7, <1>8, Zenon

\* Each of the meanings of -L and -R is what the specification is taken for.
LEMMA ForwardMeanings ==
    ASSUME NEW spec, IsSpec(spec), NEW k \in {"local", "remote"}, NEW d, IsHost(d),
           d = IF k = "remote" THEN AnyAddress ELSE Loopback
    PROVE  /\ ParseForward(spec, d).ok => Meanings(k, spec) = {ParseForward(spec, d)}
           /\ ~ParseForward(spec, d).ok => Meanings(k, spec) = {}
<1> DEFINE H == Hosts(spec, d)
           P == DOMAIN Numeral
           W == {w \in H \X P \X H \X P : spec \in Written(w[1], w[2], w[3], w[4], d)}
           r == ParseForward(spec, d)
           M == {Forward(w[1], Numeral[w[2]], w[3], Numeral[w[4]]) : w \in W}
<1>1. Meanings(k, spec) = M
  <2>1. k # "dynamic"
    OBVIOUS
  <2> QED  BY <2>1, Zenon DEF Meanings, Hosts
<1>2. ASSUME NEW w \in W PROVE Forward(w[1], Numeral[w[2]], w[3], Numeral[w[4]]) = r /\ r.ok
  <2>1. /\ w[1] \in H /\ w[2] \in P /\ w[3] \in H /\ w[4] \in P
        /\ spec \in Written(w[1], w[2], w[3], w[4], d)
    <3> HIDE DEF H, P
    <3> QED  OBVIOUS
  <2>2. PICK b \in H, p \in P, h \in H, q \in P : b = w[1] /\ p = w[2] /\ h = w[3] /\ q = w[4]
    BY <2>1, Zenon
  <2>3. IsHost(b) /\ IsHost(h)
    BY HostsAreLists
  <2>4. spec \in Written(b, p, h, q, d)
    BY <2>1, <2>2, Zenon
  <2>5. r = Forward(b, Numeral[p], h, Numeral[q])
    BY <2>3, <2>4, FormParsed
  <2>6. Numeral[p] # NoPort /\ Numeral[q] # NoPort
    BY NumeralAssumption DEF NoPort
  <2>7. Forward(b, Numeral[p], h, Numeral[q]).ok
    BY <2>6, ForwardOk
  <2> HIDE DEF r
  <2>8. r.ok
    BY <2>5, <2>7, Zenon
  <2> QED  BY <2>2, <2>5, <2>8, Zenon
<1>3. ASSUME r.ok PROVE \E w \in W : TRUE
  <2>1. PICK b, h \in H : \E p, q \in P : spec \in Written(b, p, h, q, d)
    BY <1>3, ParsedForm
  <2>2. PICK p, q \in P : spec \in Written(b, p, h, q, d)
    BY <2>1
  <2> DEFINE w == <<b, p, h, q>>
  <2>3. w[1] = b /\ w[2] = p /\ w[3] = h /\ w[4] = q
    BY ShortLists
  <2>4. w \in H \X P \X H \X P
    <3> HIDE DEF H, P
    <3> QED  BY <2>1, <2>2
  <2> HIDE DEF w
  <2>5. spec \in Written(w[1], w[2], w[3], w[4], d)
    BY <2>2, <2>3, Zenon
  <2>6. w \in W
    BY <2>4, <2>5, Zenon
  <2> QED  BY <2>6, Zenon
<1> HIDE DEF r, W
<1>4. M = IF r.ok THEN {r} ELSE {}
  <2>1. CASE r.ok
    BY <1>2, <1>3, <2>1, Zenon
  <2>2. CASE ~r.ok
    BY <1>2, <2>2, Zenon
  <2> QED  BY <2>1, <2>2
<1> HIDE DEF M
<1> QED  BY <1>1, <1>4, Zenon DEF r

-----------------------------------------------------------------------------
\* -D: an address to bind and a port.
DynamicForm(b, p, spec) ==
    \/ spec = <<b, <<p>>>>
    \/ Len(b) = 1 /\ spec = <<Append(b, p)>>
    \/ b = Loopback /\ spec = <<<<p>>>>

\* The arms of parse_dynamic_forward.
LEMMA DynamicArms ==
    ASSUME NEW spec
    PROVE  LET t == spec[1]
               r == ParseDynamic(spec)
           IN  /\ Len(spec) = 1 /\ Len(t) = 1 => r = Forward(Loopback, Port(t), <<>>, 0)
               /\ Len(spec) = 1 /\ Len(t) = 2 => r = Forward(<<t[1]>>, Port(<<t[2]>>), <<>>, 0)
               /\ Len(spec) = 2 => r = Forward(t, Port(spec[2]), <<>>, 0)
               /\ \/ Len(spec) = 1 /\ (Len(t) = 1 \/ Len(t) = 2)
                  \/ Len(spec) = 2
                  \/ r = Bad
<1>1. 1 # 2
  OBVIOUS
<1> QED  BY <1>1, Zenon DEF ParseDynamic

\* Whichever way -D is written in, it is taken for what was meant.
LEMMA DynamicParsed ==
    ASSUME NEW spec, NEW b, IsHost(b), NEW p \in DOMAIN Numeral, DynamicForm(b, p, spec)
    PROVE  ParseDynamic(spec) = Forward(b, Numeral[p], <<>>, 0)
<1>1. Port(<<p>>) = Numeral[p]
  BY PortOne
<1>2. CASE spec = <<b, <<p>>>>
  <2>1. Len(spec) = 2 /\ spec[1] = b /\ spec[2] = <<p>>
    BY <1>2, ShortLists
  <2>2. ParseDynamic(spec) = Forward(spec[1], Port(spec[2]), <<>>, 0)
    BY <2>1, DynamicArms
  <2> QED  BY <1>1, <2>1, <2>2, Zenon
<1>3. CASE Len(b) = 1 /\ spec = <<Append(b, p)>>
  <2> DEFINE t == Append(b, p)
  <2>1. IsList(b) /\ b = <<b[1]>>
    BY <1>3, ListOf DEF IsHost
  <2>2. Len(t) = 2 /\ t[1] = b[1] /\ t[2] = p
    <3>1. PICK S : b \in Seq(S)
      BY <2>1 DEF IsList
    <3>2. b \in Seq(S \cup {p}) /\ p \in S \cup {p}
      BY <3>1, SeqMonotonic
    <3>3. Len(t) = 2 /\ t[1] = b[1] /\ t[2] = p
      <4>1. PICK T : b \in Seq(T) /\ p \in T
        BY <3>2
      <4> QED  BY <1>3, <4>1
    <3> QED  BY <3>3
  <2>3. Len(spec) = 1 /\ spec[1] = t
    BY <1>3, ShortLists
  <2> HIDE DEF t
  <2>4. ParseDynamic(spec) = Forward(<<t[1]>>, Port(<<t[2]>>), <<>>, 0)
    BY <2>2, <2>3, DynamicArms
  <2> QED  BY <1>1, <2>1, <2>2, <2>4, Zenon
<1>4. CASE b = Loopback /\ spec = <<<<p>>>>
  <2>1. Len(spec) = 1 /\ spec[1] = <<p>> /\ Len(<<p>>) = 1
    BY <1>4, ShortLists
  <2>2. ParseDynamic(spec) = Forward(Loopback, Port(spec[1]), <<>>, 0)
    BY <2>1, DynamicArms
  <2> QED  BY <1>1, <1>4, <2>1, <2>2, Zenon
<1> QED  BY <1>2, <1>3, <1>4, Zenon DEF DynamicForm

\* What is taken for a dynamic forward is written in one of the ways.
LEMMA ParsedDynamic ==
    ASSUME NEW spec, IsSpec(spec), ParseDynamic(spec).ok
    PROVE  \E b \in Hosts(spec, Loopback) : \E p \in DOMAIN Numeral : DynamicForm(b, p, spec)
<1> DEFINE t == spec[1]
<1>0. /\ IsList(spec) /\ DOMAIN spec = 1 .. Len(spec)
      /\ Loopback \in Hosts(spec, Loopback)
      /\ \A i \in 1 .. Len(spec) : IsList(spec[i]) /\ spec[i] # <<>>
  <2>1. IsList(spec) /\ \A i \in DOMAIN spec : IsList(spec[i]) /\ spec[i] # <<>>
    BY DEF IsSpec
  <2>2. DOMAIN spec = 1 .. Len(spec)
    BY <2>1, ListOf
  <2> QED  BY <2>1, <2>2, Zenon DEF Hosts
<1>1. ~Bad.ok
  BY Zenon DEF Bad
<1>p. ASSUME NEW b, NEW x, ParseDynamic(spec) = Forward(b, Port(x), <<>>, 0)
      PROVE  Port(x) # NoPort
  BY <1>p, ForwardOk
<1>2. CASE Len(spec) = 1 /\ Len(t) = 1
  <2>1. spec = <<t>> /\ IsList(t)
    BY <1>0, <1>2, ListOf
  <2>2. ParseDynamic(spec) = Forward(Loopback, Port(t), <<>>, 0)
    BY <1>2, DynamicArms
  <2>3. PICK p \in DOMAIN Numeral : t = <<p>>
    BY <1>p, <2>1, <2>2, PortToken
  <2>4. DynamicForm(Loopback, p, spec)
    BY <2>1, <2>3, Zenon DEF DynamicForm
  <2> QED  BY <1>0, <2>4, Zenon
<1>3. CASE Len(spec) = 1 /\ Len(t) = 2
  <2>1. /\ spec = <<t>> /\ IsList(t) /\ t # <<>> /\ 1 \in DOMAIN spec
        /\ t = <<t[1], t[2]>> /\ DOMAIN t = 1 .. 2
    BY <1>0, <1>3, ListOf
  <2>2. ParseDynamic(spec) = Forward(<<t[1]>>, Port(<<t[2]>>), <<>>, 0)
    BY <1>3, DynamicArms
  <2>3. t[2] \in DOMAIN Numeral
    BY <1>p, <2>2, PortOne
  <2>4. <<t[1]>> \in Hosts(spec, Loopback) /\ Len(<<t[1]>>) = 1
    BY <2>1, HostsHold, ShortLists
  <2>5. Append(<<t[1]>>, t[2]) = <<t[1], t[2]>>
    <3>1. PICK x : x = t[1]
      OBVIOUS
    <3>2. PICK y : y = t[2]
      OBVIOUS
    <3>3. Append(<<x>>, y) = <<x, y>>
      <4>1. <<x>> \in Seq({x, y}) /\ y \in {x, y}
        OBVIOUS
      <4>2. Append(<<x>>, y) = <<x>> \o <<y>>
        BY <4>1, AppendIsConcat
      <4> QED  BY <4>2, Joined, Zenon
    <3> QED  BY <3>1, <3>2, <3>3, Zenon
  <2>6. spec = <<Append(<<t[1]>>, t[2])>>
    BY <2>1, <2>5, Zenon
  <2>7. DynamicForm(<<t[1]>>, t[2], spec)
    BY <2>4, <2>6, Zenon DEF DynamicForm
  <2> QED  BY <2>3, <2>4, <2>7, Zenon
<1>4. CASE Len(spec) = 2
  <2>1. spec = <<t, spec[2]>> /\ 1 \in DOMAIN spec /\ IsList(spec[2])
    BY <1>0, <1>4, ListOf
  <2>2. ParseDynamic(spec) = Forward(t, Port(spec[2]), <<>>, 0)
    BY <1>4, DynamicArms
  <2>3. PICK p \in DOMAIN Numeral : spec[2] = <<p>>
    BY <1>p, <2>1, <2>2, PortToken
  <2>4. t \in Hosts(spec, Loopback)
    BY <2>1, HostsHold
  <2>5. DynamicForm(t, p, spec)
    BY <2>1, <2>3, Zenon DEF DynamicForm
  <2> QED  BY <2>4, <2>5, Zenon
<1>5. ParseDynamic(spec) # Bad
  BY <1>1
<1>6. \/ Len(spec) = 1 /\ (Len(t) = 1 \/ Len(t) = 2)
      \/ Len(spec) = 2
      \/ ParseDynamic(spec) = Bad
  BY DynamicArms, Zenon
<1> QED  BY <1>2, <1>3, <1>4, <1>5, <1>6, Zenon

\* Each of the meanings of -D is what the specification is taken for.
LEMMA DynamicMeanings ==
    ASSUME NEW spec, IsSpec(spec)
    PROVE  /\ ParseDynamic(spec).ok => Meanings("dynamic", spec) = {ParseDynamic(spec)}
           /\ ~ParseDynamic(spec).ok => Meanings("dynamic", spec) = {}
<1> DEFINE H == Hosts(spec, Loopback)
           P == DOMAIN Numeral
           W == {w \in H \X P : DynamicForm(w[1], w[2], spec)}
           r == ParseDynamic(spec)
           M == {Forward(w[1], Numeral[w[2]], <<>>, 0) : w \in W}
<1>0. IsHost(Loopback)
  BY ListSome DEF Loopback
<1>1. Meanings("dynamic", spec) = M
  <2>1. "dynamic" # "remote"
    OBVIOUS
  <2> QED  BY <2>1, Zenon DEF Meanings, Hosts, DynamicForm
<1>2. ASSUME NEW w \in W PROVE Forward(w[1], Numeral[w[2]], <<>>, 0) = r /\ r.ok
  <2>1. w[1] \in H /\ w[2] \in P /\ DynamicForm(w[1], w[2], spec)
    <3> HIDE DEF H, P
    <3> QED  OBVIOUS
  <2>2. PICK b \in H, p \in P : b = w[1] /\ p = w[2]
    BY <2>1, Zenon
  <2>3. IsHost(b)
    BY <1>0, HostsAreLists
  <2>4. DynamicForm(b, p, spec)
    BY <2>1, <2>2, Zenon
  <2>5. r = Forward(b, Numeral[p], <<>>, 0)
    BY <2>3, <2>4, DynamicParsed
  <2>6. Numeral[p] # NoPort /\ 0 # NoPort
    BY NumeralAssumption DEF NoPort
  <2>7. Forward(b, Numeral[p], <<>>, 0).ok
    BY <2>6, ForwardOk
  <2> HIDE DEF r
  <2>8. r.ok
    BY <2>5, <2>7, Zenon
  <2> QED  BY <2>2, <2>5, <2>8, Zenon
<1>3. ASSUME r.ok PROVE \E w \in W : TRUE
  <2>1. PICK b \in H, p \in P : DynamicForm(b, p, spec)
    BY <1>3, ParsedDynamic
  <2> DEFINE w == <<b, p>>
  <2>3. w[1] = b /\ w[2] = p
    BY ShortLists
  <2>4. w \in H \X P
    <3> HIDE DEF H, P
    <3> QED  BY <2>1
  <2> HIDE DEF w
  <2>5. DynamicForm(w[1], w[2], spec)
    BY <2>1, <2>3, Zenon
  <2>6. w \in W
    BY <2>4, <2>5, Zenon
  <2> QED  BY <2>6, Zenon
<1> HIDE DEF r, W
<1>4. M = IF r.ok THEN {r} ELSE {}
  <2>1. CASE r.ok
    BY <1>2, <1>3, <2>1, Zenon
  <2>2. CASE ~r.ok
    BY <1>2, <2>2, Zenon
  <2> QED  BY <2>1, <2>2
<1> HIDE DEF M
<1> QED  BY <1>1, <1>4, Zenon DEF r

-----------------------------------------------------------------------------
\* What each kind of specification is parsed with.
Kinds == {"local", "remote", "dynamic"}
ParseOf(k, spec) ==
    IF k = "dynamic" THEN ParseDynamic(spec)
    ELSE ParseForward(spec, IF k = "remote" THEN AnyAddress ELSE Loopback)

\* A specification has one meaning if it is accepted, and else none.
LEMMA MeansParsed ==
    ASSUME NEW k \in Kinds, NEW spec, IsSpec(spec)
    PROVE  /\ ParseOf(k, spec).ok => Meanings(k, spec) = {ParseOf(k, spec)}
           /\ ~ParseOf(k, spec).ok => Meanings(k, spec) = {}
<1>1. CASE k = "dynamic"
  <2>1. ParseOf(k, spec) = ParseDynamic(spec)
    BY <1>1, Zenon DEF ParseOf
  <2> QED  BY <1>1, <2>1, DynamicMeanings, Zenon
<1>2. CASE k # "dynamic"
  <2> DEFINE d == IF k = "remote" THEN AnyAddress ELSE Loopback
  <2>1. IsHost(d)
    BY ListSome DEF AnyAddress, Loopback
  <2>2. ParseOf(k, spec) = ParseForward(spec, d)
    BY <1>2, Zenon DEF ParseOf
  <2>3. k \in {"local", "remote"}
    BY <1>2 DEF Kinds
  <2>4. PICK e : e = d
    OBVIOUS
  <2>5. IsHost(e) /\ e = IF k = "remote" THEN AnyAddress ELSE Loopback
    BY <2>1, <2>4
  <2>6. /\ ParseForward(spec, e).ok => Meanings(k, spec) = {ParseForward(spec, e)}
        /\ ~ParseForward(spec, e).ok => Meanings(k, spec) = {}
    BY <2>3, <2>5, ForwardMeanings
  <2> QED  BY <2>2, <2>4, <2>6, Zenon
<1> QED  BY <1>1, <1>2

\* The parsed specifications of one kind, in their order.
LEMMA ForwardsOf ==
    ASSUME NEW e, NEW k \in Kinds
    PROVE  Forwards(e)[k] = [i \in DOMAIN (e[k] \o args[k]) |-> ParseOf(k, (e[k] \o args[k])[i])]
<1>1. CASE k = "local"
  BY <1>1, Zenon DEF Forwards, ParseOf
<1>2. CASE k = "remote"
  BY <1>2, Zenon DEF Forwards, ParseOf
<1>3. CASE k = "dynamic"
  BY <1>3, Zenon DEF Forwards, ParseOf
<1> QED  BY <1>1, <1>2, <1>3 DEF Kinds

\* Something that was to be parsed could not be.
Refused(e) ==
    \/ \E k \in Kinds : \E i \in DOMAIN Forwards(e)[k] : ~Forwards(e)[k][i].ok
    \/ \E i \in DOMAIN TunOf(e) : ~TunOf(e)[i].ok

\* The options that are read keep lists of specifications, and what from_args
\* returns comes from those it merged and from the command line.
Collected(e) == DOMAIN e = Scalars \cup Lists /\ \A k \in Kinds : IsList(e[k])
ArgSpecs == \A k \in Kinds : IsList(args[k]) /\ \A i \in DOMAIN args[k] : IsSpec(args[k][i])
ForwardsResolved ==
    /\ ArgSpecs
    /\ Collected(ext) /\ Collected(merged)
    /\ DOMAIN res = {"target", "jumps", "forwards", "tun"}
    /\ phase = "done" => res.forwards = Forwards(merged) /\ ~Refused(merged)
    /\ phase = "error" => Refused(merged)

\* from_args returns all of the forwards, or refuses for one that is bad.
LEMMA FinishedForwards ==
    ASSUME NEW e, DOMAIN res = {"target", "jumps", "forwards", "tun"}, Finished(e)
    PROVE  /\ DOMAIN res' = {"target", "jumps", "forwards", "tun"}
           /\ phase' = "done" => res'.forwards = Forwards(e) /\ ~Refused(e)
           /\ phase' = "error" => Refused(e)
<1> DEFINE f == Forwards(e)
           t == TunOf(e)
           bad(s) == \E i \in DOMAIN s : ~s[i].ok
           some == bad(f["local"]) \/ bad(f["remote"]) \/ bad(f["dynamic"]) \/ bad(t)
<1>1. some <=> Refused(e)
  <2> DEFINE kind(k) == \E i \in DOMAIN f[k] : ~f[k][i].ok
  <2>1. Refused(e) <=> (\E k \in Kinds : kind(k)) \/ bad(t)
    BY Zenon DEF Refused
  <2> HIDE DEF kind, bad
  <2>2. (\E k \in Kinds : kind(k)) <=> kind("local") \/ kind("remote") \/ kind("dynamic")
    BY DEF Kinds
  <2> QED  BY <2>1, <2>2, Zenon DEF kind, bad
<1>2. CASE some
  <2>1. phase' = "error" /\ res' = res
    BY <1>2, Zenon DEF Finished
  <2> HIDE DEF some
  <2> QED  BY <1>1, <1>2, <2>1
<1>3. CASE ~some /\ TunPanics(e)
  <2>1. phase' = "panic" /\ res' = res
    BY <1>3, Zenon DEF Finished
  <2> QED  BY <2>1
<1>4. CASE ~some /\ ~TunPanics(e)
  <2>1. phase' = "done" /\ res' = [res EXCEPT !.forwards = f, !.tun = t]
    BY <1>4, Zenon DEF Finished
  <2> HIDE DEF f, t, some
  <2>2. DOMAIN res' = DOMAIN res /\ res'.forwards = f
    BY <2>1, Zenon
  <2> QED  BY <1>1, <1>4, <2>1, <2>2 DEF f
<1> QED  BY <1>2, <1>3, <1>4

\* A line adds to a list or leaves it alone.
LEMMA ExtractCollects ==
    ASSUME NEW e, Collected(e), NEW l
    PROVE  Collected(Extract(e, l))
<1>1. DOMAIN Extract(e, l) = DOMAIN e
  BY Zenon DEF Extract
<1>2. ASSUME NEW k \in Kinds PROVE IsList(Extract(e, l)[k])
  <2>1. k \in DOMAIN e /\ k \in Lists /\ IsList(e[k])
    BY DEF Collected, Kinds, Lists
  <2>2. CASE l.key \in Lists
    <3>1. Extract(e, l) = [e EXCEPT ![l.key] = Append(e[l.key], l.val)]
      BY <2>2, Zenon DEF Extract
    <3>2. CASE l.key = k
      <4>1. Extract(e, l)[k] = Append(e[k], l.val)
        BY <2>1, <3>1, <3>2, Zenon
      <4> QED  BY <2>1, <4>1, AppendFrontLast
    <3>3. CASE l.key # k
      <4>1. Extract(e, l)[k] = e[k]
        BY <2>1, <3>1, <3>3, Zenon
      <4> QED  BY <2>1, <4>1
    <3> QED  BY <3>2, <3>3
  <2>3. CASE l.key \notin Lists
    <3>1. Extract(e, l) = e \/ Extract(e, l) = [e EXCEPT ![l.key] = Some(l.val)]
      BY <2>3, Zenon DEF Extract
    <3>2. l.key # k
      BY <2>1, <2>3
    <3>3. Extract(e, l)[k] = e[k]
      BY <2>1, <3>1, <3>2, Zenon
    <3> QED  BY <2>1, <3>3
  <2> QED  BY <2>2, <2>3
<1> QED  BY <1>1, <1>2 DEF Collected

\* Before the first line nothing is collected.
LEMMA NothingCollected == Collected(Nothing)
<1>1. <<>> \in Seq({})
  OBVIOUS
<1>2. IsList(<<>>)
  BY <1>1, Zenon DEF IsList
<1>3. \A k \in Kinds : k \in Scalars \cup Lists
  BY DEF Kinds, Lists
<1>4. DOMAIN Nothing = Scalars \cup Lists /\ \A k \in Scalars \cup Lists : Nothing[k] = <<>>
  BY DEF Nothing
<1> QED  BY <1>2, <1>3, <1>4, Zenon DEF Collected

\* The command line is split into tokens and parts.
LEMMA ForwardsInit == Init => ForwardsResolved
<1> SUFFICES ASSUME Init PROVE ForwardsResolved
  OBVIOUS
<1>1. ArgSpecs
  <2>1. PICK c \in Cases : args = c.args
    BY DEF Init
  <2> SUFFICES ASSUME NEW k \in Kinds
               PROVE  IsList(args[k]) /\ \A i \in DOMAIN args[k] : IsSpec(args[k][i])
    BY DEF ArgSpecs
  <2> DEFINE ss == args[k]
  <2>2. /\ IsSequence(ss)
        /\ \A spec \in ToSet(ss) :
              IsSequence(spec) /\ \A token \in ToSet(spec) : IsSequence(token) /\ token # <<>>
    BY <2>1, SpecsAssumption, Zenon DEF Kinds
  <2> HIDE DEF ss
  <2>3. \A s : IsSequence(s) => IsList(s)
    BY Zenon DEF IsSequence, IsList
  <2>4. ASSUME NEW i \in DOMAIN ss PROVE IsSpec(ss[i])
    <3> DEFINE spec == ss[i]
    <3>1. spec \in ToSet(ss)
      BY Zenon DEF ToSet
    <3>2. IsList(spec) /\ \A token \in ToSet(spec) : IsList(token) /\ token # <<>>
      BY <2>2, <2>3, <3>1, Zenon
    <3>3. \A j \in DOMAIN spec : spec[j] \in ToSet(spec)
      BY Zenon DEF ToSet
    <3> QED  BY <3>2, <3>3, Zenon DEF IsSpec
  <2>5. IsList(ss)
    BY <2>2, <2>3, Zenon
  <2> QED  BY <2>4, <2>5 DEF ss
<1>2. Collected(ext) /\ Collected(merged)
  BY NothingCollected DEF Init
<1> QED  BY <1>1, <1>2 DEF Init, ForwardsResolved

\* What is resolved stays what the merged options and the command line say.
LEMMA ForwardsStep == ForwardsResolved /\ [Next]_vars => ForwardsResolved'
<1> SUFFICES ASSUME ForwardsResolved, [Next]_vars PROVE ForwardsResolved'
  OBVIOUS
<1>1. args' = args
  BY DEF Next, vars, inputs, ReadSection, ReadOption, ReadInclude, EndOfFile,
         ResolveTarget, Merge, ResolveJump, Finish
<1>a. ArgSpecs'
  BY <1>1 DEF ForwardsResolved, ArgSpecs
<1>b. Collected(ext) /\ Collected(merged) /\ DOMAIN res = {"target", "jumps", "forwards", "tun"}
  BY DEF ForwardsResolved
<1>d. ASSUME NEW e, merged' = e
      PROVE  (Forwards(merged))' = Forwards(e) /\ (Refused(merged))' = Refused(e)
  <2>1. (Forwards(merged))' = Forwards(e)
    BY <1>1, <1>d, Zenon DEF Forwards
  <2>2. (TunOf(merged))' = TunOf(e)
    BY <1>1, <1>d, Zenon DEF TunOf, TunSpec
  <2> QED  BY <2>1, <2>2, Zenon DEF Refused
<1>e. ASSUME NEW h, StartReading(h) PROVE Collected(ext')
  BY <1>e, NothingCollected DEF StartReading
<1>2. ASSUME UNCHANGED <<phase, merged, res>>, Collected(ext')
      PROVE  ForwardsResolved'
  BY <1>2, <1>a, <1>b, <1>d DEF ForwardsResolved
<1>3. ASSUME phase' \notin {"done", "error"}, DOMAIN res' = DOMAIN res,
             Collected(ext'), Collected(merged')
      PROVE  ForwardsResolved'
  BY <1>3, <1>a, <1>b DEF ForwardsResolved
<1>4. ASSUME NEW e, merged' = e, Finished(e), Collected(e), ext' = ext
      PROVE  ForwardsResolved'
  <2>1. /\ DOMAIN res' = {"target", "jumps", "forwards", "tun"}
        /\ phase' = "done" => res'.forwards = Forwards(e) /\ ~Refused(e)
        /\ phase' = "error" => Refused(e)
    BY <1>b, <1>4, FinishedForwards
  <2>2. (Forwards(merged))' = Forwards(e) /\ (Refused(merged))' = Refused(e)
    BY <1>4, <1>d
  <2> QED  BY <1>a, <1>b, <1>4, <2>1, <2>2 DEF ForwardsResolved
<1>5. CASE ReadSection \/ ReadInclude \/ EndOfFile \/ UNCHANGED vars
  BY <1>b, <1>2, <1>5 DEF ReadSection, ReadInclude, EndOfFile, vars
<1>6. CASE ReadOption
  <2>1. ext' = Extract(ext, Line) \/ ext' = ext
    BY <1>6 DEF ReadOption
  <2>2. Collected(ext')
    BY <1>b, <2>1, ExtractCollects
  <2> QED  BY <1>2, <1>6, <2>2 DEF ReadOption
<1>7. CASE ResolveTarget
  <2>1. DOMAIN res' = DOMAIN res
    BY <1>7, Zenon DEF ResolveTarget
  <2>2. phase' = "merge" /\ merged' = merged /\ Collected(ext')
    BY <1>e, <1>7 DEF ResolveTarget
  <2> QED  BY <1>b, <1>3, <2>1, <2>2
<1>8. CASE Merge
  <2>1. CASE JumpSpecs(ext) = <<>>
    <3>1. merged' = ext /\ Finished(ext) /\ ext' = ext
      BY <1>8, <2>1 DEF Merge
    <3> QED  BY <1>b, <1>4, <3>1
  <2>2. CASE JumpSpecs(ext) # <<>>
    <3>1. merged' = ext /\ phase' = "jumps" /\ res' = res
      BY <1>8, <2>2 DEF Merge
    <3>2. Collected(ext')
      BY <1>e, <1>8, <2>2 DEF Merge
    <3> QED  BY <1>b, <1>3, <3>1, <3>2
  <2> QED  BY <2>1, <2>2
<1>9. CASE ResolveJump
  <2>1. DOMAIN res' = DOMAIN res
    BY <1>9, Zenon DEF ResolveJump
  <2>2. phase' \notin {"done", "error"} /\ merged' = merged
    BY <1>9 DEF ResolveJump
  <2>3. Collected(ext')
    BY <1>b, <1>e, <1>9 DEF ResolveJump
  <2> QED  BY <1>b, <1>3, <2>1, <2>2, <2>3
<1>10. CASE Finish
  <2>1. merged' = merged /\ Finished(merged) /\ ext' = ext
    BY <1>10 DEF Finish
  <2> QED  BY <1>b, <1>4, <2>1
<1> QED  BY <1>5, <1>6, <1>7, <1>8, <1>9, <1>10 DEF Next

\* The specifications of the command line come after those of the files.
LEMMA AfterFiles ==
    ASSUME NEW m, IsList(m), NEW a, IsList(a)
    PROVE  /\ \A i \in DOMAIN a : Len(m) + i \in DOMAIN (m \o a) /\ (m \o a)[Len(m) + i] = a[i]
           /\ m = <<>> => m \o a = a
<1>1. PICK S : m \in Seq(S)
  BY DEF IsList
<1>2. PICK T : a \in Seq(T)
  BY DEF IsList
<1>3. PICK U : m \in Seq(U) /\ a \in Seq(U)
  <2>1. m \in Seq(S \cup T) /\ a \in Seq(S \cup T)
    BY <1>1, <1>2, SeqMonotonic
  <2> QED  BY <2>1
<1>4. /\ m \o a \in Seq(U) /\ Len(m \o a) = Len(m) + Len(a)
      /\ \A i \in 1 .. Len(m) + Len(a) : (m \o a)[i] = IF i <= Len(m) THEN m[i] ELSE a[i - Len(m)]
  BY <1>3, ConcatProperties, Zenon
<1>5. m = <<>> => m \o a = a
  <2>1. <<>> \o a = a
    BY <1>2, ConcatEmptySeq
  <2> QED  BY <2>1, Zenon
<1> DEFINE w == m \o a
<1>6. /\ DOMAIN w = 1 .. Len(m) + Len(a) /\ DOMAIN a = 1 .. Len(a)
      /\ Len(m) \in Nat /\ Len(a) \in Nat
  <2>1. Len(w) = Len(m) + Len(a) /\ w \in Seq(U)
    BY <1>4, Zenon
  <2> HIDE DEF w
  <2> QED  BY <1>3, <2>1
<1>7. \A i \in 1 .. Len(m) + Len(a) : w[i] = IF i <= Len(m) THEN m[i] ELSE a[i - Len(m)]
  BY <1>4, Zenon
<1> HIDE DEF w
<1>8. \A i \in DOMAIN a : Len(m) + i \in DOMAIN w /\ w[Len(m) + i] = a[i]
  BY <1>6, <1>7
<1> QED  BY <1>5, <1>8, Zenon DEF w

\* A command line with a single specification is refused for that one.
LEMMA OnlyRefused ==
    ASSUME ArgSpecs, NEW k \in Kinds, OnlyArg(k), Refused(merged)
    PROVE  ~ParseOf(k, args[k][1]).ok
<1>1. merged = Nothing /\ args.tun = None /\ Len(args[k]) = 1
  BY DEF OnlyArg
<1>2. \A j \in Kinds : merged[j] = <<>> /\ IsList(merged[j]) /\ IsList(args[j])
  <2>1. \A j \in Kinds : merged[j] = <<>>
    BY <1>1 DEF Nothing, Kinds, Lists
  <2> QED  BY <1>1, <2>1, NothingCollected, Zenon DEF Collected, ArgSpecs
<1>3. \A j \in Kinds : merged[j] \o args[j] = args[j]
  BY <1>2, AfterFiles
<1>4. \A j \in Kinds : Forwards(merged)[j] = [i \in DOMAIN args[j] |-> ParseOf(j, args[j][i])]
  <2> SUFFICES ASSUME NEW j \in Kinds
               PROVE  Forwards(merged)[j] = [i \in DOMAIN args[j] |-> ParseOf(j, args[j][i])]
    OBVIOUS
  <2> DEFINE w == merged[j] \o args[j]
  <2>1. Forwards(merged)[j] = [i \in DOMAIN w |-> ParseOf(j, w[i])]
    BY ForwardsOf
  <2>2. w = args[j]
    BY <1>3
  <2> HIDE DEF w
  <2> QED  BY <2>1, <2>2, Zenon
<1>5. TunOf(merged) = <<>>
  <2>1. merged["tun"] = <<>>
    BY <1>1 DEF Nothing, Scalars
  <2>2. TunSpec(merged) = None
    BY <1>1, <2>1, Zenon DEF TunSpec, OrElse, None
  <2> QED  BY <2>2, Zenon DEF TunOf, None
<1>6. DOMAIN <<>> = {}
  OBVIOUS
<1>7. PICK j \in Kinds : \E i \in DOMAIN Forwards(merged)[j] : ~Forwards(merged)[j][i].ok
  BY <1>5, <1>6, Zenon DEF Refused
<1>8. PICK i \in DOMAIN args[j] : ~ParseOf(j, args[j][i]).ok
  <2>1. DOMAIN Forwards(merged)[j] = DOMAIN args[j]
    BY <1>4, Zenon
  <2>2. \A i \in DOMAIN args[j] : Forwards(merged)[j][i] = ParseOf(j, args[j][i])
    BY <1>4, Zenon
  <2> QED  BY <1>7, <2>1, <2>2, Zenon
<1>9. j = k
  <2>1. j # k => args[j] = <<>>
    BY DEF OnlyArg, Kinds
  <2> QED  BY <1>6, <1>8, <2>1, Zenon
<1>10. i = 1
  <2>1. DOMAIN args[k] = 1 .. 1
    BY <1>1, <1>2, ListOf
  <2> QED  BY <1>8, <1>9, <2>1
<1> QED  BY <1>8, <1>9, <1>10, Zenon

\* A forward is what its specification says in whichever of the documented
\* ways it is written, what is written in none of them is refused and nothing
\* is written in two, for every specification and every set of port numbers
\* (parse_local_forward, parse_remote_forward, parse_dynamic_forward).
THEOREM ForwardsAreAsWritten == Spec => []ForwardsAsWritten
<1>1. ForwardsResolved => ForwardsAsWritten
  <2> SUFFICES ASSUME ForwardsResolved, NEW k \in Kinds, NEW i \in DOMAIN args[k]
               PROVE  /\ phase = "done" => Meanings(k, args[k][i])
                                           = {res.forwards[k][Len(merged[k]) + i]}
                      /\ phase = "error" /\ OnlyArg(k) => Meanings(k, args[k][i]) = {}
    BY Zenon DEF ForwardsAsWritten, Kinds
  <2> DEFINE s == args[k][i]
  <2>1. ArgSpecs /\ IsSpec(s) /\ IsList(args[k]) /\ IsList(merged[k])
    BY DEF ForwardsResolved, ArgSpecs, Collected
  <2>2. CASE phase = "done"
    <3> DEFINE n == Len(merged[k]) + i
               w == merged[k] \o args[k]
    <3>1. n \in DOMAIN w /\ w[n] = s
      <4>1. \A j \in DOMAIN args[k] : /\ Len(merged[k]) + j \in DOMAIN w
                                       /\ w[Len(merged[k]) + j] = args[k][j]
        BY <2>1, AfterFiles, Zenon
      <4> QED  BY <4>1, Zenon
    <3>2. Forwards(merged)[k] = [j \in DOMAIN w |-> ParseOf(k, w[j])]
      BY ForwardsOf
    <3> HIDE DEF n, w, s
    <3>3. n \in DOMAIN Forwards(merged)[k] /\ Forwards(merged)[k][n] = ParseOf(k, s)
      BY <3>1, <3>2, Zenon
    <3>4. res.forwards = Forwards(merged) /\ ~Refused(merged)
      BY <2>2 DEF ForwardsResolved
    <3>5. ParseOf(k, s).ok
      BY <3>3, <3>4, Zenon DEF Refused
    <3>6. Meanings(k, s) = {ParseOf(k, s)}
      BY <2>1, <3>5, MeansParsed
    <3>7. Meanings(k, s) = {res.forwards[k][n]}
      BY <3>3, <3>4, <3>6, Zenon
    <3> QED  BY <2>2, <3>7 DEF n, s
  <2>3. CASE phase = "error" /\ OnlyArg(k)
    <3>1. Refused(merged)
      BY <2>3 DEF ForwardsResolved
    <3>2. ~ParseOf(k, args[k][1]).ok
      BY <2>1, <2>3, <3>1, OnlyRefused
    <3>3. i = 1
      <4>1. Len(args[k]) = 1
        BY <2>3 DEF OnlyArg
      <4>2. DOMAIN args[k] = 1 .. 1
        BY <2>1, <4>1, ListOf
      <4> QED  BY <4>2
    <3>4. ~ParseOf(k, s).ok
      BY <3>2, <3>3, Zenon
    <3> HIDE DEF s
    <3>5. Meanings(k, s) = {}
      BY <2>1, <3>4, MeansParsed
    <3> QED  BY <2>3, <3>5 DEF s
  <2> QED  BY <2>2, <2>3
<1> QED  BY <1>1, ForwardsInit, ForwardsStep, PTL DEF Spec
=============================================================================
