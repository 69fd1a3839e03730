------------------------- MODULE ChannelFlowProofs --------------------------
(***************************************************************************)
(* Proofs about ChannelFlow, for every window, packet size and capacity.   *)
(*                                                                         *)
(* The bytes between the last one on the wire and the last one written lie *)
(* in three places, pending, queue and fut, in this order and without a    *)
(* gap (Joined); the session keeps bytes back only when the window is used *)
(* up (KeptOnlyWhenFull); a channel that is being closed waits for no      *)
(* grant (Closing).  Together with the type invariant this is inductive    *)
(* and gives the exact window, the order on the wire and the refinement of *)
(* ByteStream.  The bound on the backlog needs in addition what the writer *)
(* may have taken ahead (Ahead) and the size of the queue (QueueSize).     *)
(***************************************************************************)
EXTENDS ChannelFlow, SequenceTheorems, TLAPS

-----------------------------------------------------------------------------
\* Where each of the three places starts, should it be empty where the next
\* one does.
FutLo == IF fut = <<>> THEN taken ELSE fut[1].lo
QueueLo == IF queue = <<>> THEN FutLo ELSE queue[1].lo
PendingLo == IF pending = <<>> THEN QueueLo ELSE pending[1].lo

\* A sequence of non-empty buffers without gaps.
Chain(s) ==
    /\ \A i \in 1 .. Len(s) : s[i].lo < s[i].hi
    /\ \A i \in 1 .. Len(s) : i + 1 <= Len(s) => s[i].hi = s[i + 1].lo
    /\ \A i, j \in 1 .. Len(s) : i < j => s[i].hi <= s[j].lo

Joined ==
    /\ Chain(pending) /\ Chain(queue) /\ Chain(fut)
    /\ fut # <<>> => fut[1].hi = taken
    /\ queue # <<>> => queue[Len(queue)].hi = FutLo
    /\ pending # <<>> => pending[Len(pending)].hi = QueueLo
    /\ entry # "gone" => PendingLo = Sent
    /\ Sent <= QueueLo

Closing ==
    /\ entry # "open" => peer = "closed" /\ stash = 0
    /\ entry = "closing" => pending # <<>>
    /\ entry = "gone" => pending = <<>>
    /\ rekey = "none" => stash = 0
    /\ rekey = "none" /\ peer = "closed" => entry # "open"

FlowInv ==
    /\ TypeOK
    /\ WindowExact
    /\ KeptOnlyWhenFull
    /\ Joined
    /\ Closing

\* The bytes of k messages of the largest size.
Bytes(k) == k * MaxPacket

QueueSize ==
    /\ \A i \in 1 .. Len(queue) :
          taken - queue[i].lo <= Bytes(Len(queue) - i + 1 + Len(fut))
    /\ taken - FutLo <= Bytes(Len(fut))

Ahead == entry # "gone" => taken + win + stash <= granted + Bytes(Cap + 1)

-----------------------------------------------------------------------------
\* Chains.

\* A buffer that starts where a chain ends continues the chain.
LEMMA ChainAppend ==
    ASSUME NEW s \in Seq(Buffer), Chain(s), NEW b \in Buffer, b.lo < b.hi,
           s # <<>> => s[Len(s)].hi = b.lo
    PROVE  /\ Append(s, b) \in Seq(Buffer)
           /\ Len(Append(s, b)) = Len(s) + 1
           /\ Chain(Append(s, b))
           /\ Append(s, b)[Len(s) + 1] = b
           /\ \A i \in 1 .. Len(s) : Append(s, b)[i] = s[i]
<1> DEFINE t == Append(s, b)
<1>1. /\ t \in Seq(Buffer)
      /\ Len(t) = Len(s) + 1
      /\ t[Len(s) + 1] = b
      /\ \A i \in 1 .. Len(s) : t[i] = s[i]
  OBVIOUS
<1>2. \A i \in 1 .. Len(s) : s[i] \in Buffer
  OBVIOUS
<1>3. \A i \in 1 .. Len(s) : s[i].hi <= b.lo
  BY <1>2 DEF Chain, Buffer
<1>4. Chain(t)
  BY <1>1, <1>2, <1>3 DEF Chain, Buffer
<1> QED  BY <1>1, <1>4

\* What is left of a chain without its first buffer is a chain.
LEMMA ChainTail ==
    ASSUME NEW s \in Seq(Buffer), Chain(s), s # <<>>
    PROVE  /\ Tail(s) \in Seq(Buffer)
           /\ Len(Tail(s)) = Len(s) - 1
           /\ Chain(Tail(s))
           /\ s[1] \in Buffer
           /\ s[1].lo < s[1].hi
           /\ \A i \in 1 .. Len(s) - 1 : Tail(s)[i] = s[i + 1]
           /\ Tail(s) # <<>> => Tail(s)[1].lo = s[1].hi
<1>1. /\ Tail(s) \in Seq(Buffer)
      /\ Len(Tail(s)) = Len(s) - 1
      /\ Len(s) \in Nat \ {0}
      /\ s[1] \in Buffer
      /\ \A i \in 1 .. Len(s) - 1 : Tail(s)[i] = s[i + 1]
  OBVIOUS
<1>2. \A i \in 1 .. Len(s) : s[i] \in Buffer
  OBVIOUS
<1>3. Chain(Tail(s))
  BY <1>1, <1>2 DEF Chain, Buffer
<1>4. Tail(s) # <<>> => Tail(s)[1].lo = s[1].hi
  BY <1>1, <1>2 DEF Chain, Buffer
<1> QED  BY <1>1, <1>3, <1>4 DEF Chain

\* The elements of what is left of s when it is cut inside buffer k + 1.
LEMMA CutElements ==
    ASSUME NEW s \in Seq(Buffer),
           NEW k \in Nat, k < Len(s),
           NEW e \in Buffer
    PROVE  /\ <<e>> \o SubSeq(s, k + 2, Len(s)) \in Seq(Buffer)
           /\ Len(<<e>> \o SubSeq(s, k + 2, Len(s))) = Len(s) - k
           /\ \A j \in 1 .. Len(s) - k :
                 (<<e>> \o SubSeq(s, k + 2, Len(s)))[j] =
                    IF j = 1 THEN e ELSE s[k + j]
<1> DEFINE sub == SubSeq(s, k + 2, Len(s))
           one == <<e>>
<1>1. Len(s) \in Nat /\ Len(s) \in Int /\ k + 2 \in Int
  BY LenProperties
<1>2. \A i \in k + 2 .. Len(s) : s[i] \in Buffer
  BY <1>1, ElementOfSeq
<1>3. /\ sub \in Seq(Buffer)
      /\ Len(sub) = Len(s) - k - 1
      /\ \A i \in 1 .. Len(s) - k - 1 : sub[i] = s[k + 1 + i]
  <2>1. /\ sub \in Seq(Buffer)
        /\ Len(sub) = IF k + 2 <= Len(s) THEN Len(s) - (k + 2) + 1 ELSE 0
        /\ \A i \in 1 .. Len(s) - (k + 2) + 1 : sub[i] = s[(k + 2) + i - 1]
    BY <1>1, <1>2, SubSeqProperties
  <2> HIDE DEF sub
  <2>2. Len(sub) = Len(s) - k - 1
    BY <1>1, <2>1
  <2>3. \A i \in 1 .. Len(s) - k - 1 : sub[i] = s[k + 1 + i]
    <3> SUFFICES ASSUME NEW i \in 1 .. Len(s) - k - 1
                 PROVE  sub[i] = s[k + 1 + i]
      OBVIOUS
    <3>1. i \in 1 .. Len(s) - (k + 2) + 1 /\ (k + 2) + i - 1 = k + 1 + i
      BY <1>1
    <3> QED  BY <2>1, <3>1
  <2> QED  BY <2>1, <2>2, <2>3
<1>4. one \in Seq(Buffer) /\ Len(one) = 1 /\ one[1] = e
  OBVIOUS
<1> HIDE DEF sub, one
<1>5. /\ one \o sub \in Seq(Buffer)
      /\ Len(one \o sub) = Len(one) + Len(sub)
      /\ \A i \in 1 .. Len(one) + Len(sub) :
            (one \o sub)[i] = IF i <= Len(one) THEN one[i] ELSE sub[i - Len(one)]
  BY <1>3, <1>4, ConcatProperties
<1>6. Len(one \o sub) = Len(s) - k
  BY <1>1, <1>3, <1>4, <1>5
<1>7. ASSUME NEW j \in 1 .. Len(s) - k
      PROVE  (one \o sub)[j] = IF j = 1 THEN e ELSE s[k + j]
  <2>1. CASE j = 1
    BY <1>1, <1>3, <1>4, <1>5, <2>1
  <2>2. CASE j # 1
    <3>1. /\ j - 1 \in 1 .. Len(s) - k - 1 /\ k + 1 + (j - 1) = k + j
          /\ j \in 1 .. Len(one) + Len(sub) /\ ~(j <= Len(one))
          /\ j - Len(one) = j - 1
      BY <1>1, <1>3, <1>4, <2>2
    <3>2. (one \o sub)[j] = sub[j - 1]
      BY <1>5, <3>1
    <3>3. sub[j - 1] = s[k + 1 + (j - 1)]
      BY <1>3, <3>1
    <3> QED  BY <2>2, <3>1, <3>2, <3>3
  <2> QED  BY <2>1, <2>2
<1> QED  BY <1>5, <1>6, <1>7 DEF sub, one

\* A chain cut inside its buffer k + 1 is a chain from there to its end.
LEMMA ChainCut ==
    ASSUME NEW s \in Seq(Buffer), Chain(s),
           NEW k \in Nat, k < Len(s),
           NEW e \in Buffer, s[k + 1].lo <= e.lo, e.lo < e.hi, e.hi = s[k + 1].hi,
           NEW t \in Seq(Buffer), Len(t) = Len(s) - k,
           \A j \in 1 .. Len(s) - k : t[j] = IF j = 1 THEN e ELSE s[k + j]
    PROVE  /\ t # <<>>
           /\ Chain(t)
           /\ t[1].lo = e.lo
           /\ t[Len(t)].hi = s[Len(s)].hi
           /\ e.lo < s[Len(s)].hi
<1>1. /\ Len(s) \in Nat
      /\ k + 1 \in 1 .. Len(s) /\ Len(s) \in 1 .. Len(s)
  BY LenProperties
<1>2. \A i \in 1 .. Len(s) : s[i] \in Buffer
  BY ElementOfSeq
<1>9. Len(t) = Len(s) - k
  OBVIOUS
<1>10. \A j \in 1 .. Len(s) - k :
          /\ k + j \in 1 .. Len(s)
          /\ t[j].hi = s[k + j].hi
          /\ t[j].lo = IF j = 1 THEN e.lo ELSE s[k + j].lo
          /\ s[k + j].lo \in Nat /\ s[k + j].hi \in Nat
  <2> SUFFICES ASSUME NEW j \in 1 .. Len(s) - k
               PROVE  /\ k + j \in 1 .. Len(s)
                      /\ t[j].hi = s[k + j].hi
                      /\ t[j].lo = IF j = 1 THEN e.lo ELSE s[k + j].lo
                      /\ s[k + j].lo \in Nat /\ s[k + j].hi \in Nat
    OBVIOUS
  <2>1. k + j \in 1 .. Len(s)
    BY <1>1
  <2>2. s[k + j] \in Buffer
    BY <1>2, <2>1
  <2>3. t[j] = IF j = 1 THEN e ELSE s[k + j]
    OBVIOUS
  <2>4. s[k + j].lo \in Nat /\ s[k + j].hi \in Nat
    BY <2>2 DEF Buffer
  <2>5. j = 1 => e.hi = s[k + j].hi
    OBVIOUS
  <2> QED  BY <2>1, <2>3, <2>4, <2>5
<1>11. \A i \in 1 .. Len(t) : t[i].lo < t[i].hi
  BY <1>1, <1>9, <1>10 DEF Chain, Buffer
<1>12. \A i \in 1 .. Len(t) : i + 1 <= Len(t) => t[i].hi = t[i + 1].lo
  <2> SUFFICES ASSUME NEW i \in 1 .. Len(t), i + 1 <= Len(t)
               PROVE  t[i].hi = t[i + 1].lo
    OBVIOUS
  <2>1. s[k + i].hi = s[(k + i) + 1].lo
    <3>1. k + i \in 1 .. Len(s) /\ (k + i) + 1 <= Len(s)
      BY <1>1, <1>9
    <3> QED  BY <3>1 DEF Chain
  <2>2. i + 1 \in 1 .. Len(s) - k /\ i \in 1 .. Len(s) - k /\ i + 1 # 1 /\ k + (i + 1) = (k + i) + 1
    BY <1>1, <1>9
  <2>3. t[i + 1].lo = s[k + (i + 1)].lo
    BY <2>2, <1>10
  <2> QED  BY <2>1, <2>2, <2>3, <1>10
<1>13. \A i, j \in 1 .. Len(t) : i < j => t[i].hi <= t[j].lo
  <2> SUFFICES ASSUME NEW i \in 1 .. Len(t), NEW j \in 1 .. Len(t), i < j
               PROVE  t[i].hi <= t[j].lo
    OBVIOUS
  <2>1. i \in 1 .. Len(s) - k /\ j \in 1 .. Len(s) - k /\ j # 1 /\ k + i < k + j
    BY <1>1, <1>9
  <2>2. s[k + i].hi <= s[k + j].lo
    BY <1>10, <2>1 DEF Chain
  <2> QED  BY <2>1, <2>2, <1>10
<1>14. Chain(t)
  BY <1>11, <1>12, <1>13 DEF Chain
<1>15. /\ t[Len(t)].hi = s[Len(s)].hi
       /\ t # <<>>
       /\ t[1].lo = e.lo
  <2>1. Len(s) - k \in 1 .. Len(s) - k /\ k + (Len(s) - k) = Len(s) /\ 1 \in 1 .. Len(s) - k
    BY <1>1
  <2>2. t[Len(t)].hi = s[k + (Len(s) - k)].hi
    BY <1>9, <1>10, <2>1
  <2>3. t # <<>>
    BY <1>1, <1>9, EmptySeq
  <2> QED  BY <1>10, <2>1, <2>2, <2>3
<1>16. e.lo < s[Len(s)].hi
  <2>1. CASE k + 1 = Len(s)
    BY <2>1
  <2>2. CASE k + 1 < Len(s)
    <3>1. s[k + 1].hi <= s[Len(s)].lo /\ s[Len(s)].lo < s[Len(s)].hi
      BY <1>1, <2>2 DEF Chain
    <3>2. s[k + 1] \in Buffer /\ s[Len(s)] \in Buffer
      BY <1>1, <1>2
    <3>3. /\ e.lo \in Nat /\ s[k + 1].hi \in Nat
          /\ s[Len(s)].lo \in Nat /\ s[Len(s)].hi \in Nat
      BY <3>2 DEF Buffer
    <3> QED  BY <3>1, <3>3
  <2> QED  BY <1>1, <2>1, <2>2
<1> QED  BY <1>14, <1>15, <1>16

\* Flushing moves the front of the kept bytes to the wire: as many as the
\* window n allows, and what stays is still joined to the wire.
LEMMA Flush ==
    ASSUME FlowInv, NEW n \in Nat, FlushWith(n), entry # "gone" \/ n = rw
    PROVE  /\ pending' \in Seq(Buffer) /\ Chain(pending')
           /\ wire' \in Buffer
           /\ rw' \in Nat
           /\ wire'.hi + rw' = Sent + n
           /\ wire'.hi >= Sent
           /\ wire' # wire => pending # <<>> /\ wire'.lo = Sent
           /\ pending = <<>> => pending' = <<>> /\ wire' = wire /\ rw' = n
           /\ pending' # <<>> =>
                 /\ pending # <<>>
                 /\ rw' = 0
                 /\ pending'[1].lo = wire'.hi
                 /\ pending'[Len(pending')].hi = QueueLo
                 /\ wire'.hi <= QueueLo
           /\ pending # <<>> /\ pending' = <<>> => wire'.hi = QueueLo
           /\ n = 0 => wire' = wire
<1>0. /\ pending \in Seq(Buffer) /\ Chain(pending)
      /\ wire \in Buffer
      /\ Sent \in Nat
      /\ pending # <<>> => pending[1].lo = Sent /\ pending[Len(pending)].hi = QueueLo
  BY DEF FlowInv, TypeOK, Joined, Closing, PendingLo, Sent, Buffer
<1>1. CASE pending = <<>>
  BY <1>0, <1>1 DEF FlushWith, Sent
<1>2. CASE pending # <<>>
  <2> DEFINE L == Len(pending)
             cut == Least(pending[1].lo + n, pending[L].hi)
  <2>1. PICK k \in 0 .. L : Whole(k, cut) /\ pending' = RestOf(k, cut)
    BY <1>2 DEF FlushWith
  <2>2. Put(pending[1].lo, cut, n)
    BY <1>2 DEF FlushWith
  <2>3. /\ L \in Nat \ {0}
        /\ \A i \in 1 .. L : pending[i] \in Buffer
    BY <1>0, <1>2
  <2>4. /\ pending[1].lo \in Nat /\ pending[L].hi \in Nat
        /\ pending[1].lo < pending[L].hi
    <3>1. 1 \in 1 .. L /\ L \in 1 .. L
      BY <2>3
    <3>2. /\ pending[1].lo < pending[1].hi
          /\ pending[L].lo < pending[L].hi
          /\ 1 < L => pending[1].hi <= pending[L].lo
      BY <1>0, <3>1 DEF Chain
    <3>3. pending[1] \in Buffer /\ pending[L] \in Buffer
      BY <2>3, <3>1
    <3> HIDE DEF L
    <3> QED  BY <2>3, <3>2, <3>3 DEF Buffer
  <2>5. /\ cut \in Nat
        /\ pending[1].lo <= cut
        /\ cut <= pending[1].lo + n
        /\ cut <= pending[L].hi
        /\ cut < pending[L].hi => cut = pending[1].lo + n
    BY <2>4 DEF Least
  <2> HIDE DEF cut
  <2>6. /\ wire' \in Buffer
        /\ rw' \in Nat
        /\ wire'.hi = cut
        /\ rw' = n - (cut - Sent)
        /\ wire' # wire => wire'.lo = Sent
        /\ n = 0 => wire' = wire
    BY <1>0, <1>2, <2>2, <2>5 DEF Put, Sent, Buffer
  <2>7. CASE k = L
    <3>1. pending' = <<>> /\ cut = QueueLo
      BY <2>1, <2>7, <2>3, <1>0, <1>2 DEF RestOf, Whole
    <3> QED  BY <1>0, <1>2, <2>5, <2>6, <3>1 DEF Chain, Sent
  <2>8. CASE k # L
    <3> DEFINE e == [lo |-> cut, hi |-> pending[k + 1].hi]
    <3>1. /\ k \in Nat /\ k < L
          /\ pending[k + 1].lo <= cut /\ cut < pending[k + 1].hi
          /\ pending' = <<e>> \o SubSeq(pending, k + 2, L)
      BY <2>1, <2>3, <2>8 DEF RestOf, Whole
    <3>2. e \in Buffer /\ e.lo = cut /\ e.hi = pending[k + 1].hi
      <4>1. k + 1 \in 1 .. L
        BY <2>3, <3>1
      <4>2. pending[k + 1].hi \in Nat
        BY <2>3, <4>1 DEF Buffer
      <4> QED  BY <2>5, <4>2 DEF Buffer
    <3> HIDE DEF e
    <3>3. /\ pending' \in Seq(Buffer)
          /\ Len(pending') = L - k
          /\ \A j \in 1 .. L - k :
                pending'[j] = IF j = 1 THEN e ELSE pending[k + j]
      BY <1>0, <3>1, <3>2, CutElements
    <3>4. /\ pending' # <<>>
          /\ Chain(pending')
          /\ pending'[1].lo = e.lo
          /\ pending'[Len(pending')].hi = pending[L].hi
          /\ e.lo < pending[L].hi
      <4>1. /\ pending[k + 1].lo <= e.lo /\ e.lo < e.hi
        BY <3>1, <3>2
      <4> QED  BY <1>0, <3>1, <3>2, <3>3, <4>1, ChainCut
    <3> HIDE DEF L
    <3> QED  BY <1>0, <1>2, <2>4, <2>5, <2>6, <3>2, <3>3, <3>4 DEF Sent, L
  <2> QED  BY <2>7, <2>8
<1> QED  BY <1>1, <1>2

-----------------------------------------------------------------------------
\* The inductive invariant.

\* The three places lie one after the other.
LEMMA Places ==
    ASSUME FlowInv
    PROVE  /\ Sent \in Nat
           /\ FutLo \in Nat /\ FutLo <= taken
           /\ QueueLo \in Nat /\ QueueLo <= FutLo
<1>1. /\ Sent \in Nat
      /\ taken \in Nat
      /\ fut \in Seq(Buffer) /\ queue \in Seq(Buffer)
      /\ Chain(fut) /\ Chain(queue)
      /\ fut # <<>> => fut[1].hi = taken
      /\ queue # <<>> => queue[Len(queue)].hi = FutLo
  BY DEF FlowInv, TypeOK, Joined, Sent, Buffer
<1>2. FutLo \in Nat /\ FutLo <= taken
  <2>1. CASE fut = <<>>
    BY <1>1, <2>1 DEF FutLo
  <2>2. CASE fut # <<>>
    <3>1. fut[1] \in Buffer /\ fut[1].lo < fut[1].hi
      BY <1>1, <2>2, ChainTail
    <3>2. fut[1].lo \in Nat
      BY <3>1 DEF Buffer
    <3> QED  BY <1>1, <2>2, <3>1, <3>2 DEF FutLo
  <2> QED  BY <2>1, <2>2
<1>3. QueueLo \in Nat /\ QueueLo <= FutLo
  <2>1. CASE queue = <<>>
    BY <1>2, <2>1 DEF QueueLo
  <2>2. CASE queue # <<>>
    <3>1. Len(queue) \in Nat \ {0}
      BY <1>1, <2>2, EmptySeq
    <3>2. 1 \in 1 .. Len(queue) /\ Len(queue) \in 1 .. Len(queue)
      BY <3>1
    <3>3. queue[1] \in Buffer /\ queue[Len(queue)] \in Buffer
      BY <1>1, <3>2, ElementOfSeq
    <3>4. /\ queue[1].lo \in Nat /\ queue[1].hi \in Nat
          /\ queue[Len(queue)].lo \in Nat /\ queue[Len(queue)].hi \in Nat
      BY <3>3 DEF Buffer
    <3>5. /\ queue[1].lo < queue[1].hi
          /\ queue[Len(queue)].lo < queue[Len(queue)].hi
          /\ 1 < Len(queue) => queue[1].hi <= queue[Len(queue)].lo
      BY <1>1, <3>2 DEF Chain
    <3>6. queue[1].lo <= queue[Len(queue)].hi
      BY <3>1, <3>4, <3>5
    <3> QED  BY <1>1, <2>2, <3>4, <3>6 DEF QueueLo
  <2> QED  BY <2>1, <2>2
<1> QED  BY <1>1, <1>2, <1>3

\* Nothing is written and nothing kept at first.
LEMMA InitFlow == Init => FlowInv
<1> SUFFICES ASSUME Init PROVE FlowInv
  OBVIOUS
<1>1. TypeOK
  BY WindowAssumption, CapAssumption DEF Init, TypeOK, Buffer
<1>2. WindowExact /\ KeptOnlyWhenFull /\ Closing
  BY WindowAssumption DEF Init, WindowExact, KeptOnlyWhenFull, Closing, Sent
<1>3. Joined
  BY DEF Init, Joined, Chain, FutLo, QueueLo, PendingLo, Sent
<1> QED  BY <1>1, <1>2, <1>3 DEF FlowInv

\* poll_mk_msg adds a buffer where the written bytes end.
LEMMA WriteFlow == FlowInv /\ Write => FlowInv'
<1> SUFFICES ASSUME FlowInv, Write PROVE FlowInv'
  OBVIOUS
<1>1. PICK n \in 1 .. Least(MaxPacket, win) :
         /\ fut' = <<[lo |-> taken, hi |-> taken + n]>>
         /\ taken' = taken + n
         /\ win' = win - n
  BY DEF Write
<1>2. /\ fut = <<>>
      /\ UNCHANGED <<queue, rw, pending, entry, wire, granted, peer, stash, rekey>>
  BY DEF Write, channelVars, peerVars
<1>3. n \in Nat \ {0} /\ n <= win /\ taken \in Nat /\ win \in Nat
  BY MaxPacketAssumption DEF FlowInv, TypeOK, Least
<1>4. /\ fut' \in Seq(Buffer) /\ Len(fut') = 1 /\ fut' # <<>>
      /\ fut'[1].lo = taken /\ fut'[1].hi = taken'
      /\ Chain(fut')
  BY <1>1, <1>3 DEF Buffer, Chain
<1>5. TypeOK'
  BY <1>1, <1>2, <1>3, <1>4 DEF FlowInv, TypeOK
<1>6. (WindowExact /\ KeptOnlyWhenFull /\ Closing)'
  BY <1>2 DEF FlowInv, WindowExact, KeptOnlyWhenFull, Closing, Sent
<1>7. FutLo' = FutLo
  BY <1>2, <1>4 DEF FutLo
<1>8. QueueLo' = QueueLo
  BY <1>2, <1>7 DEF QueueLo
<1>9. PendingLo' = PendingLo
  BY <1>2, <1>8 DEF PendingLo
<1>10. Joined'
  BY <1>2, <1>4, <1>7, <1>8, <1>9 DEF FlowInv, Joined, Sent
<1> QED  BY <1>5, <1>6, <1>10 DEF FlowInv

\* The message moves from send_fut to the end of the queue.
LEMMA PermitFlow == FlowInv /\ Permit => FlowInv'
<1> SUFFICES ASSUME FlowInv, Permit PROVE FlowInv'
  OBVIOUS
<1>1. /\ fut # <<>> /\ fut' = <<>>
      /\ Len(queue) < Cap
      /\ queue' = Append(queue, fut[1])
      /\ UNCHANGED <<taken, win, rw, pending, entry, wire, granted, peer, stash, rekey>>
  BY DEF Permit, channelVars, peerVars
<1>2. /\ queue \in Seq(Buffer) /\ Chain(queue)
      /\ fut \in Seq(Buffer) /\ Chain(fut)
      /\ fut[1].hi = taken
      /\ queue # <<>> => queue[Len(queue)].hi = fut[1].lo
  BY <1>1 DEF FlowInv, TypeOK, Joined, FutLo
<1>3. fut[1] \in Buffer /\ fut[1].lo < fut[1].hi
  BY <1>1, <1>2, ChainTail
<1>4. /\ queue' \in Seq(Buffer)
      /\ Len(queue') = Len(queue) + 1
      /\ Chain(queue')
      /\ queue'[Len(queue) + 1] = fut[1]
      /\ \A i \in 1 .. Len(queue) : queue'[i] = queue[i]
  BY <1>1, <1>2, <1>3, ChainAppend
<1>5. Len(queue) \in Nat /\ queue' # <<>> /\ (queue # <<>> => 1 \in 1 .. Len(queue))
  BY <1>1, <1>2, <1>4, EmptySeq, LenProperties
<1>6. TypeOK'
  BY <1>1, <1>4, <1>5, CapAssumption DEF FlowInv, TypeOK
<1>7. (WindowExact /\ KeptOnlyWhenFull /\ Closing)'
  BY <1>1 DEF FlowInv, WindowExact, KeptOnlyWhenFull, Closing, Sent
<1>8. FutLo' = taken /\ queue'[Len(queue')].hi = FutLo'
  BY <1>1, <1>2, <1>4 DEF FutLo
<1>9. QueueLo' = QueueLo
  <2>1. CASE queue = <<>>
    BY <1>1, <1>4, <1>5, <2>1 DEF QueueLo, FutLo
  <2>2. CASE queue # <<>>
    BY <1>4, <1>5, <2>2 DEF QueueLo
  <2> QED  BY <2>1, <2>2
<1>10. PendingLo' = PendingLo
  BY <1>1, <1>9 DEF PendingLo
<1>11. Joined'
  <2>1. Chain(fut')
    BY <1>1 DEF Chain
  <2> QED  BY <1>1, <1>4, <1>8, <1>9, <1>10, <2>1 DEF FlowInv, Joined, Sent
<1> QED  BY <1>6, <1>7, <1>11 DEF FlowInv

\* Taking the first message off the queue leaves the rest joined.
LEMMA Dequeue ==
    ASSUME FlowInv, queue # <<>>, queue' = Tail(queue), UNCHANGED <<taken, fut>>
    PROVE  /\ queue' \in Seq(Buffer) /\ Len(queue') <= Cap /\ Chain(queue')
           /\ queue[1] \in Buffer
           /\ queue[1].lo \in Nat /\ queue[1].hi \in Nat
           /\ queue[1].lo < queue[1].hi
           /\ FutLo' = FutLo
           /\ QueueLo = queue[1].lo /\ QueueLo' = queue[1].hi
           /\ queue' # <<>> => queue'[Len(queue')].hi = FutLo'
<1>1. /\ queue \in Seq(Buffer) /\ Chain(queue) /\ Len(queue) <= Cap
      /\ queue[Len(queue)].hi = FutLo
  BY DEF FlowInv, TypeOK, Joined
<1>2. Len(queue) \in Nat \ {0}
  BY <1>1, EmptySeq
<1>3. /\ queue' \in Seq(Buffer)
      /\ Len(queue') = Len(queue) - 1
      /\ Chain(queue')
      /\ queue[1] \in Buffer
      /\ queue[1].lo < queue[1].hi
      /\ \A i \in 1 .. Len(queue) - 1 : queue'[i] = queue[i + 1]
      /\ queue' # <<>> => queue'[1].lo = queue[1].hi
  BY <1>1, ChainTail
<1>4. queue[1].lo \in Nat /\ queue[1].hi \in Nat
  BY <1>3 DEF Buffer
<1>5. Len(queue') <= Cap
  BY <1>1, <1>2, <1>3, CapAssumption
<1>6. FutLo' = FutLo
  BY DEF FutLo
<1>7. CASE queue' = <<>>
  <2>0. Len(queue') = 0
    BY <1>7, EmptySeq
  <2>1. Len(queue) = 1
    BY <1>2, <1>3, <2>0
  <2> QED  BY <1>1, <1>3, <1>4, <1>5, <1>6, <1>7, <2>1 DEF QueueLo
<1>8. CASE queue' # <<>>
  <2>1. Len(queue') \in Nat \ {0}
    BY <1>3, <1>8, EmptySeq
  <2>2. Len(queue') \in 1 .. Len(queue) - 1 /\ Len(queue') + 1 = Len(queue)
    BY <1>2, <1>3, <2>1
  <2>3. queue'[Len(queue')] = queue[Len(queue')  + 1]
    BY <1>3, <2>2
  <2>4. queue'[Len(queue')] = queue[Len(queue)]
    BY <2>2, <2>3
  <2> QED  BY <1>1, <1>3, <1>4, <1>5, <1>6, <1>8, <2>4 DEF QueueLo
<1> QED  BY <1>7, <1>8

\* A message is sent as far as the window goes, or kept.
LEMMA HandleDataFlow == FlowInv /\ HandleData => FlowInv'
<1> SUFFICES ASSUME FlowInv, HandleData PROVE FlowInv'
  OBVIOUS
<1> DEFINE b == queue[1]
           cut == Least(b.hi, b.lo + rw)
<1>1. /\ queue # <<>> /\ queue' = Tail(queue)
      /\ entry # "gone" /\ rekey = "none"
      /\ UNCHANGED <<taken, win, fut, entry, granted, peer, stash, rekey>>
  BY DEF HandleData, peerVars
<1>2. /\ queue' \in Seq(Buffer) /\ Len(queue') <= Cap /\ Chain(queue')
      /\ b \in Buffer
      /\ b.lo \in Nat /\ b.hi \in Nat /\ b.lo < b.hi
      /\ FutLo' = FutLo
      /\ QueueLo = b.lo /\ QueueLo' = b.hi
      /\ queue' # <<>> => queue'[Len(queue')].hi = FutLo'
  BY <1>1, Dequeue
<1>3. /\ pending \in Seq(Buffer) /\ Chain(pending) /\ rw \in Nat
      /\ wire \in Buffer /\ Sent \in Nat
      /\ Sent + rw + stash = granted
      /\ PendingLo = Sent
      /\ pending # <<>> => pending[Len(pending)].hi = b.lo /\ rw = 0
      /\ entry = "closing" => pending # <<>>
  BY <1>1, <1>2, Places DEF FlowInv, TypeOK, Joined, Closing, WindowExact,
        KeptOnlyWhenFull
<1> HIDE DEF b
<1>4. CASE pending # <<>>
  <2>1. pending' = Append(pending, b) /\ UNCHANGED <<rw, wire>>
    BY <1>4 DEF HandleData, b
  <2>2. /\ pending' \in Seq(Buffer)
        /\ Len(pending') = Len(pending) + 1
        /\ Chain(pending')
        /\ pending'[Len(pending) + 1] = b
        /\ \A i \in 1 .. Len(pending) : pending'[i] = pending[i]
    BY <1>2, <1>3, <1>4, <2>1, ChainAppend
  <2>3. Len(pending) \in Nat \ {0}
    BY <1>3, <1>4, EmptySeq
  <2>4. pending' # <<>> /\ pending'[1] = pending[1] /\ pending'[Len(pending')].hi = QueueLo'
    BY <1>2, <2>2, <2>3
  <2>5. TypeOK'
    BY <1>1, <1>2, <2>1, <2>2 DEF FlowInv, TypeOK
  <2>6. (WindowExact /\ KeptOnlyWhenFull /\ Closing)'
    <3>1. WindowExact' /\ KeptOnlyWhenFull'
      BY <1>1, <1>3, <1>4, <2>1 DEF WindowExact, KeptOnlyWhenFull, Sent
    <3>2. Closing'
      BY <1>1, <2>4 DEF FlowInv, Closing
    <3> QED  BY <3>1, <3>2
  <2>7. PendingLo' = PendingLo /\ Sent' = Sent
    BY <1>4, <2>1, <2>4 DEF PendingLo, Sent
  <2>8. Sent <= QueueLo'
    <3>1. Sent <= QueueLo
      BY DEF FlowInv, Joined
    <3> QED  BY <1>2, <1>3, <3>1
  <2>9. Joined'
    BY <1>1, <1>2, <1>3, <2>2, <2>4, <2>7, <2>8 DEF FlowInv, Joined
  <2> QED  BY <2>5, <2>6, <2>9 DEF FlowInv
<1>5. CASE pending = <<>>
  <2>1. /\ Put(b.lo, cut, rw)
        /\ pending' = IF cut < b.hi THEN <<[lo |-> cut, hi |-> b.hi]>> ELSE <<>>
    BY <1>5 DEF HandleData, b
  <2>2. /\ cut \in Nat /\ b.lo <= cut /\ cut <= b.hi /\ cut <= b.lo + rw
        /\ cut < b.hi => cut = b.lo + rw
    BY <1>2, <1>3 DEF Least
  <2>3. b.lo = Sent
    BY <1>2, <1>3, <1>5, Zenon DEF PendingLo
  <2> HIDE DEF cut
  <2>4. wire' \in Buffer /\ rw' \in Nat /\ wire'.hi = cut /\ rw' = rw - (cut - Sent)
    <3>1. wire'.hi = cut /\ wire' \in Buffer
      <4>1. CASE cut > b.lo
        <5>1. wire' = [lo |-> b.lo, hi |-> cut]
          BY <2>1, <4>1 DEF Put
        <5> QED  BY <1>2, <2>2, <5>1 DEF Buffer
      <4>2. CASE ~(cut > b.lo)
        <5>1. wire' = wire /\ cut = Sent
          BY <1>2, <1>3, <2>1, <2>2, <2>3, <4>2 DEF Put
        <5> QED  BY <1>3, <5>1 DEF Sent
      <4> QED  BY <4>1, <4>2
    <3>2. rw' = rw - (cut - Sent)
      BY <2>1, <2>3 DEF Put
    <3>3. rw' \in Nat
      BY <1>2, <1>3, <2>2, <2>3, <3>2
    <3> QED  BY <3>1, <3>2, <3>3
  <2>5. /\ pending' \in Seq(Buffer) /\ Chain(pending')
        /\ pending' # <<>> =>
              /\ Len(pending') = 1
              /\ pending'[1].lo = cut /\ pending'[1].hi = b.hi
              /\ rw' = 0
        /\ pending' = <<>> => cut = b.hi
    <3>1. CASE cut < b.hi
      <4>1. pending' = <<[lo |-> cut, hi |-> b.hi]>>
        BY <2>1, <3>1
      <4>2. rw' = 0
        BY <1>3, <2>2, <2>3, <2>4, <3>1
      <4> QED  BY <1>2, <2>2, <3>1, <4>1, <4>2 DEF Buffer, Chain
    <3>2. CASE ~(cut < b.hi)
      BY <1>2, <2>1, <2>2, <3>2 DEF Chain
    <3> QED  BY <3>1, <3>2
  <2>6. TypeOK'
    BY <1>1, <1>2, <2>4, <2>5 DEF FlowInv, TypeOK
  <2>7. (WindowExact /\ KeptOnlyWhenFull)'
    BY <1>1, <1>3, <2>2, <2>3, <2>4, <2>5 DEF WindowExact, KeptOnlyWhenFull, Sent
  <2>8. Closing'
    BY <1>1, <1>3, <1>5 DEF FlowInv, Closing
  <2>9. Sent' = cut /\ PendingLo' = cut
    <3>1. CASE pending' = <<>>
      BY <1>2, <2>4, <2>5, <3>1 DEF Sent, PendingLo
    <3>2. CASE pending' # <<>>
      BY <2>4, <2>5, <3>2 DEF Sent, PendingLo
    <3> QED  BY <3>1, <3>2
  <2>10. Joined'
    BY <1>1, <1>2, <2>2, <2>5, <2>9 DEF FlowInv, Joined
  <2> QED  BY <2>6, <2>7, <2>8, <2>10 DEF FlowInv
<1> QED  BY <1>4, <1>5

\* A message dropped after the channel is gone disturbs nothing.
LEMMA DropDataFlow == FlowInv /\ DropData => FlowInv'
<1> SUFFICES ASSUME FlowInv, DropData PROVE FlowInv'
  OBVIOUS
<1>1. /\ queue # <<>> /\ queue' = Tail(queue)
      /\ entry = "gone" /\ pending = <<>>
      /\ UNCHANGED <<taken, win, fut, rw, pending, entry, wire, granted, peer, stash, rekey>>
  BY DEF DropData, channelVars, peerVars, FlowInv, Closing
<1>2. /\ queue' \in Seq(Buffer) /\ Len(queue') <= Cap /\ Chain(queue')
      /\ queue[1].lo \in Nat /\ queue[1].hi \in Nat
      /\ queue[1].lo < queue[1].hi
      /\ FutLo' = FutLo
      /\ QueueLo = queue[1].lo /\ QueueLo' = queue[1].hi
      /\ queue' # <<>> => queue'[Len(queue')].hi = FutLo'
  BY <1>1, Dequeue
<1>3. TypeOK'
  BY <1>1, <1>2 DEF FlowInv, TypeOK
<1>4. (WindowExact /\ KeptOnlyWhenFull /\ Closing)'
  BY <1>1 DEF FlowInv, WindowExact, KeptOnlyWhenFull, Closing, Sent
<1>5. Sent' = Sent /\ Sent <= QueueLo'
  <2>1. Sent \in Nat
    BY Places
  <2>2. Sent <= QueueLo
    BY DEF FlowInv, Joined
  <2> QED  BY <1>1, <1>2, <2>1, <2>2 DEF Sent
<1>6. Joined'
  BY <1>1, <1>2, <1>5 DEF FlowInv, Joined
<1> QED  BY <1>3, <1>4, <1>6 DEF FlowInv

\* The steps that flush: the window grows by a, the kept bytes go out as far
\* as it goes, and the places stay joined.
LEMMA FlushFlow ==
    ASSUME FlowInv, NEW a \in Nat, FlushWith(rw + a),
           entry # "gone" \/ a = 0,
           UNCHANGED <<taken, fut, queue>>
    PROVE  /\ pending' \in Seq(Buffer) /\ wire' \in Buffer /\ rw' \in Nat
           /\ Sent' + rw' = Sent + rw + a
           /\ KeptOnlyWhenFull'
           /\ entry = entry' \/ (pending' = <<>> <=> entry' = "gone") => Joined'
           /\ pending = <<>> => pending' = <<>>
           /\ pending # <<>> /\ a = 0 => wire' = wire /\ pending' # <<>>
           /\ Sent' >= Sent /\ Sent' <= taken
           /\ wire' # wire => wire'.lo = Sent /\ entry # "gone"
<1>0. rw \in Nat /\ rw + a \in Nat /\ (a = 0 => rw + a = rw)
  BY DEF FlowInv, TypeOK
<1>1. /\ pending' \in Seq(Buffer) /\ Chain(pending')
      /\ wire' \in Buffer
      /\ rw' \in Nat
      /\ wire'.hi + rw' = Sent + (rw + a)
      /\ wire'.hi >= Sent
      /\ wire' # wire => pending # <<>> /\ wire'.lo = Sent
      /\ pending = <<>> => pending' = <<>> /\ wire' = wire /\ rw' = rw + a
      /\ pending' # <<>> =>
            /\ pending # <<>>
            /\ rw' = 0
            /\ pending'[1].lo = wire'.hi
            /\ pending'[Len(pending')].hi = QueueLo
            /\ wire'.hi <= QueueLo
      /\ pending # <<>> /\ pending' = <<>> => wire'.hi = QueueLo
      /\ rw + a = 0 => wire' = wire
  BY <1>0, Flush
<1>2. Sent \in Nat /\ QueueLo \in Nat /\ QueueLo <= taken /\ taken \in Nat
  <2>1. taken \in Nat
    BY DEF FlowInv, TypeOK
  <2> QED  BY <2>1, Places
<1>3. Sent' = wire'.hi /\ Sent' \in Nat
  BY <1>1 DEF Sent, Buffer
<1>4. FutLo' = FutLo
  BY DEF FutLo
<1>5. QueueLo' = QueueLo
  BY <1>4 DEF QueueLo
<1>6. /\ Sent <= QueueLo
      /\ entry # "gone" => PendingLo = Sent
      /\ pending # <<>> => rw = 0 /\ pending[Len(pending)].hi = QueueLo
      /\ entry = "gone" => pending = <<>>
      /\ entry = "closing" => pending # <<>>
  BY DEF FlowInv, Joined, KeptOnlyWhenFull, Closing
<1>7. Sent' <= QueueLo /\ Sent' >= Sent
  BY <1>1, <1>2, <1>3, <1>6 DEF Sent
<1>8. pending' # <<>> \/ pending # <<>> => PendingLo' = Sent'
  BY <1>1, <1>3, <1>5 DEF PendingLo
<1>9. pending = <<>> => PendingLo' = PendingLo /\ Sent' = Sent
  BY <1>1, <1>5 DEF PendingLo, Sent
<1>10. pending # <<>> /\ a = 0 => wire' = wire /\ pending' # <<>>
  <2> SUFFICES ASSUME pending # <<>>, a = 0 PROVE wire' = wire /\ pending' # <<>>
    OBVIOUS
  <2>1. wire' = wire
    BY <1>0, <1>1, <1>6
  <2>2. Sent < QueueLo
    <3>1. pending \in Seq(Buffer) /\ Chain(pending) /\ PendingLo = Sent
      BY <1>6 DEF FlowInv, TypeOK, Joined
    <3>2. Len(pending) \in Nat \ {0}
      BY <3>1, EmptySeq
    <3>3. 1 \in 1 .. Len(pending) /\ Len(pending) \in 1 .. Len(pending)
      BY <3>2
    <3>4. pending[1] \in Buffer /\ pending[Len(pending)] \in Buffer
      BY <3>1, <3>3, ElementOfSeq
    <3>5. /\ pending[1].lo \in Nat /\ pending[1].hi \in Nat
          /\ pending[Len(pending)].lo \in Nat /\ pending[Len(pending)].hi \in Nat
      BY <3>4 DEF Buffer
    <3>6. /\ pending[1].lo < pending[1].hi
          /\ pending[Len(pending)].lo < pending[Len(pending)].hi
          /\ 1 < Len(pending) => pending[1].hi <= pending[Len(pending)].lo
      BY <3>1, <3>3 DEF Chain
    <3>7. pending[1].lo < pending[Len(pending)].hi
      BY <3>2, <3>5, <3>6
    <3> QED  BY <1>6, <3>1, <3>7 DEF PendingLo
  <2>3. Sent' = Sent
    BY <2>1 DEF Sent
  <2> QED  BY <1>1, <1>2, <1>3, <2>1, <2>2, <2>3
<1>11. KeptOnlyWhenFull'
  BY <1>1 DEF KeptOnlyWhenFull
<1>12. ASSUME entry = entry' \/ (pending' = <<>> <=> entry' = "gone")
       PROVE  Joined'
  <2>1. Chain(queue') /\ Chain(fut')
    BY DEF FlowInv, Joined
  <2>2. fut' # <<>> => fut'[1].hi = taken'
    BY DEF FlowInv, Joined
  <2>3. queue' # <<>> => queue'[Len(queue')].hi = FutLo'
    BY <1>4 DEF FlowInv, Joined
  <2>4. entry' # "gone" => PendingLo' = Sent'
    BY <1>1, <1>6, <1>8, <1>9, <1>12
  <2> QED  BY <1>1, <1>5, <1>7, <2>1, <2>2, <2>3, <2>4 DEF Joined
<1>13. wire' # wire => wire'.lo = Sent /\ entry # "gone"
  BY <1>1, <1>6
<1>14. Sent' + rw' = Sent + rw + a
  BY <1>0, <1>1, <1>2, <1>3
<1>15. Sent' <= taken
  BY <1>2, <1>3, <1>7
<1> QED  BY <1>1, <1>7, <1>10, <1>11, <1>12, <1>13, <1>14, <1>15

\* CHANNEL_WINDOW_ADJUST.
LEMMA AdjustFlow ==
    ASSUME FlowInv, NEW a \in Nat, Adjust(a)
    PROVE  FlowInv'
<1>1. /\ rekey = "none" /\ peer = "open" /\ granted' = granted + a
      /\ FlushWith(rw + a)
      /\ win' = rw'
      /\ UNCHANGED <<taken, fut, queue>>
      /\ UNCHANGED <<entry, peer, stash, rekey>>
  BY DEF Adjust, PeerGrants
<1>2. entry = "open"
  BY <1>1 DEF FlowInv, TypeOK, Closing
<1>3. /\ pending' \in Seq(Buffer) /\ wire' \in Buffer /\ rw' \in Nat
      /\ Sent' + rw' = Sent + rw + a
      /\ KeptOnlyWhenFull'
      /\ entry = entry' \/ (pending' = <<>> <=> entry' = "gone") => Joined'
  BY <1>1, <1>2, FlushFlow
<1>4. TypeOK'
  BY <1>1, <1>3 DEF FlowInv, TypeOK
<1>5. WindowExact'
  <2>1. /\ Sent \in Nat /\ rw \in Nat /\ stash \in Nat /\ granted \in Nat
        /\ Sent' \in Nat
        /\ Sent + rw + stash = granted
    BY <1>3 DEF FlowInv, TypeOK, WindowExact, Sent, Buffer
  <2>2. /\ rw' \in Nat /\ Sent' + rw' = Sent + rw + a
        /\ granted' = granted + a /\ stash' = stash
    BY <1>1, <1>3
  <2>3. Sent' + rw' + stash = granted + a
    <3>1. (Sent' + rw') + stash = ((Sent + rw) + a) + stash
      BY <2>2
    <3>2. ((Sent + rw) + a) + stash = ((Sent + rw) + stash) + a
      BY <2>1
    <3> QED  BY <2>1, <3>1, <3>2, Zenon
  <2>4. Sent' + rw' + stash' = granted'
    BY <2>2, <2>3
  <2> QED  BY <2>4 DEF WindowExact
<1>6. Closing'
  BY <1>1, <1>2 DEF FlowInv, Closing
<1> QED  BY <1>1, <1>3, <1>4, <1>5, <1>6 DEF FlowInv

\* The end of a re-exchange, with the packets put aside meanwhile.
LEMMA NewKeysFlow == FlowInv /\ PeerNewKeys => FlowInv'
<1> SUFFICES ASSUME FlowInv, PeerNewKeys PROVE FlowInv'
  OBVIOUS
<1>1. /\ rekey' = "none"
      /\ FlushWith(rw + stash)
      /\ stash' = 0
      /\ win' = IF stash > 0 THEN rw' ELSE win
      /\ IF peer = "closed" /\ entry = "open"
         THEN entry' = IF pending' = <<>> THEN "gone" ELSE "closing"
         ELSE entry' = entry
      /\ UNCHANGED <<taken, fut, queue>>
      /\ UNCHANGED <<granted, peer>>
  BY DEF PeerNewKeys, CloseWith
<1>2. /\ stash \in Nat /\ win \in Nat
      /\ entry \in {"open", "closing", "gone"}
      /\ peer \in {"open", "closed"}
      /\ entry # "open" => stash = 0 /\ peer = "closed"
      /\ entry = "closing" => pending # <<>>
      /\ entry = "gone" => pending = <<>>
  BY DEF FlowInv, TypeOK, Closing
<1>3. /\ pending' \in Seq(Buffer) /\ wire' \in Buffer /\ rw' \in Nat
      /\ Sent' + rw' = Sent + rw + stash
      /\ KeptOnlyWhenFull'
      /\ entry = entry' \/ (pending' = <<>> <=> entry' = "gone") => Joined'
      /\ pending = <<>> => pending' = <<>>
      /\ pending # <<>> /\ stash = 0 => wire' = wire /\ pending' # <<>>
  BY <1>1, <1>2, FlushFlow
<1>4. /\ entry' \in {"open", "closing", "gone"}
      /\ entry' = entry \/ (pending' = <<>> <=> entry' = "gone")
      /\ entry' = "closing" => pending' # <<>>
      /\ entry' = "gone" => pending' = <<>>
      /\ entry' # "open" => peer = "closed"
      /\ peer = "closed" => entry' # "open"
  BY <1>1, <1>2, <1>3
<1>5. TypeOK'
  <2>1. win' \in Nat
    BY <1>1, <1>2, <1>3
  <2> QED  BY <1>1, <1>3, <1>4, <2>1 DEF FlowInv, TypeOK
<1>6. WindowExact'
  <2>1. /\ Sent \in Nat /\ rw \in Nat /\ granted \in Nat /\ Sent' \in Nat
        /\ Sent + rw + stash = granted
    BY <1>3 DEF FlowInv, TypeOK, WindowExact, Sent, Buffer
  <2>2. /\ rw' \in Nat /\ Sent' + rw' = Sent + rw + stash
        /\ granted' = granted /\ stash' = 0 /\ stash \in Nat
    BY <1>1, <1>2, <1>3
  <2>3. Sent' + rw' + 0 = granted
    BY <2>1, <2>2 DEF Sent
  <2>4. Sent' + rw' + stash' = granted'
    BY <2>2, <2>3
  <2> QED  BY <2>4 DEF WindowExact
<1>7. Closing'
  BY <1>1, <1>4 DEF Closing
<1> QED  BY <1>3, <1>4, <1>5, <1>6, <1>7 DEF FlowInv

\* CHANNEL_CLOSE: answered at once when nothing is kept.
LEMMA PeerCloseFlow == FlowInv /\ PeerClose => FlowInv'
<1> SUFFICES ASSUME FlowInv, PeerClose PROVE FlowInv'
  OBVIOUS
<1>1. /\ rekey = "none" /\ peer = "open" /\ peer' = "closed"
      /\ entry' = IF pending = <<>> THEN "gone" ELSE "closing"
      /\ UNCHANGED <<taken, win, fut, queue, rw, pending, wire, granted, stash, rekey>>
  BY DEF PeerClose, CloseWith, writerVars
<1>2. TypeOK'
  BY <1>1 DEF FlowInv, TypeOK
<1>3. (WindowExact /\ KeptOnlyWhenFull)'
  BY <1>1 DEF FlowInv, WindowExact, KeptOnlyWhenFull, Sent
<1>4. Closing'
  BY <1>1 DEF FlowInv, Closing
<1>5. Joined'
  <2>1. entry = "open"
    BY <1>1 DEF FlowInv, TypeOK, Closing
  <2>2. FutLo' = FutLo
    BY <1>1 DEF FutLo
  <2>3. QueueLo' = QueueLo
    BY <1>1, <2>2 DEF QueueLo
  <2>4. PendingLo' = PendingLo
    BY <1>1, <2>3 DEF PendingLo
  <2> QED  BY <1>1, <2>1, <2>2, <2>3, <2>4 DEF FlowInv, Joined, Sent
<1> QED  BY <1>2, <1>3, <1>4, <1>5 DEF FlowInv

\* The steps of the re-exchange that touch no data, and what is put aside.
LEMMA RekeyFlow ==
    ASSUME FlowInv, UNCHANGED <<writerVars, channelVars>>,
           TypeOK', WindowExact', Closing'
    PROVE  FlowInv'
<1>1. UNCHANGED <<taken, win, fut, queue, rw, pending, entry, wire>>
  BY DEF writerVars, channelVars
<1>2. KeptOnlyWhenFull'
  BY <1>1 DEF FlowInv, KeptOnlyWhenFull
<1>3. FutLo' = FutLo
  BY <1>1 DEF FutLo
<1>4. QueueLo' = QueueLo
  BY <1>1, <1>3 DEF QueueLo
<1>5. PendingLo' = PendingLo
  BY <1>1, <1>4 DEF PendingLo
<1>6. Joined'
  BY <1>1, <1>3, <1>4, <1>5 DEF FlowInv, Joined, Sent
<1> QED  BY <1>2, <1>6 DEF FlowInv

\* Every step keeps the invariant.
LEMMA NextFlow == FlowInv /\ [Next]_vars => FlowInv'
<1> SUFFICES ASSUME FlowInv, [Next]_vars PROVE FlowInv'
  OBVIOUS
<1>1. CASE Write
  BY <1>1, WriteFlow
<1>2. CASE Permit
  BY <1>2, PermitFlow
<1>3. CASE HandleData
  BY <1>3, HandleDataFlow
<1>4. CASE DropData
  BY <1>4, DropDataFlow
<1>5. ASSUME NEW a \in 1 .. Window, Adjust(a) PROVE FlowInv'
  <2>1. a \in Nat
    BY WindowAssumption
  <2> QED  BY <1>5, <2>1, AdjustFlow
<1>6. ASSUME NEW a \in 1 .. Window, StashAdjust(a) PROVE FlowInv'
  <2>1. /\ rekey = "init" /\ peer = "open" /\ granted' = granted + a
        /\ stash' = stash + a /\ a \in Nat
        /\ UNCHANGED <<writerVars, channelVars, peer, rekey>>
    BY <1>6, WindowAssumption DEF StashAdjust, PeerGrants
  <2>2. UNCHANGED <<taken, win, fut, queue, rw, pending, entry, wire>>
    BY <2>1 DEF writerVars, channelVars
  <2>3. TypeOK'
    BY <2>1, <2>2 DEF FlowInv, TypeOK
  <2>4. WindowExact'
    <3>1. /\ Sent \in Nat /\ rw \in Nat /\ stash \in Nat
          /\ Sent + rw + stash = granted
      BY DEF FlowInv, TypeOK, WindowExact, Sent, Buffer
    <3>2. Sent' = Sent
      BY <2>2 DEF Sent
    <3> QED  BY <2>1, <2>2, <3>1, <3>2 DEF WindowExact
  <2>5. Closing'
    BY <2>1, <2>2 DEF FlowInv, Closing
  <2> QED  BY <2>1, <2>3, <2>4, <2>5, RekeyFlow
<1>7. CASE PeerClose
  BY <1>7, PeerCloseFlow
<1>8. CASE StashClose \/ RekeyStart \/ PeerKexInit \/ PeerKexReply
  <2>1. /\ UNCHANGED <<writerVars, channelVars, granted, stash>>
        /\ rekey' \in {"none", "init", "dhdone", "keys"}
        /\ peer' = peer \/ peer' = "closed"
        /\ rekey' # "none"
    BY <1>8 DEF StashClose, RekeyStart, PeerKexInit, PeerKexReply, peerVars
  <2>2. UNCHANGED <<taken, win, fut, queue, rw, pending, entry, wire>>
    BY <2>1 DEF writerVars, channelVars
  <2>3. TypeOK'
    BY <2>1, <2>2 DEF FlowInv, TypeOK
  <2>4. WindowExact'
    BY <2>1, <2>2 DEF FlowInv, WindowExact, Sent
  <2>5. Closing'
    BY <2>1, <2>2 DEF FlowInv, Closing
  <2> QED  BY <2>1, <2>3, <2>4, <2>5, RekeyFlow
<1>9. CASE PeerNewKeys
  BY <1>9, NewKeysFlow
<1>10. CASE UNCHANGED vars
  <2>1. UNCHANGED <<writerVars, channelVars>>
    BY <1>10 DEF vars
  <2>2. UNCHANGED <<taken, win, fut, queue, rw, pending, entry, wire,
                    granted, peer, stash, rekey>>
    BY <1>10 DEF vars, writerVars, channelVars, peerVars
  <2>3. TypeOK' /\ WindowExact' /\ Closing'
    BY <2>2 DEF FlowInv, TypeOK, WindowExact, Closing, Sent
  <2> QED  BY <2>1, <2>3, RekeyFlow
<1> QED  BY <1>1, <1>2, <1>3, <1>4, <1>5, <1>6, <1>7, <1>8, <1>9, <1>10
            DEF Next, Session, Grant, Rekeying

\* The inductive invariant holds in every reachable state.
LEMMA FlowInvariant == Spec => []FlowInv
<1>1. Init => FlowInv
  BY InitFlow
<1>2. FlowInv /\ [Next]_vars => FlowInv'
  BY NextFlow
<1> QED  BY <1>1, <1>2, PTL DEF Spec

\* Type correctness of the channel's state.
THEOREM FlowTypes == Spec => []TypeOK
<1>1. FlowInv => TypeOK
  BY DEF FlowInv
<1> QED  BY <1>1, FlowInvariant, PTL

\* Whatever the sizes, the session's count of the peer's window is exact
\* and no byte is sent that the peer has not granted.
THEOREM WindowIsExact == Spec => []WindowExact
<1>1. FlowInv => WindowExact
  BY DEF FlowInv
<1> QED  BY <1>1, FlowInvariant, PTL

\* Data is kept back only when the peer's window is used up.
THEOREM NothingKeptInVain == Spec => []KeptOnlyWhenFull
<1>1. FlowInv => KeptOnlyWhenFull
  BY DEF FlowInv
<1> QED  BY <1>1, FlowInvariant, PTL

-----------------------------------------------------------------------------
\* Order on the wire, and the promise of ByteStream.

\* What one step may do to the wire.
LEMMA WireStep ==
    ASSUME FlowInv, [Next]_vars
    PROVE  /\ wire' # wire => wire'.lo = Sent /\ entry # "gone" /\ rekey' = "none"
           /\ Sent' >= Sent
           /\ entry # "open" => wire' = wire
<1>0. Sent \in Nat
  BY Places
<1>1. CASE HandleData
  <2> DEFINE b == queue[1]
             cut == Least(b.hi, b.lo + rw)
  <2>1. /\ queue # <<>> /\ queue' = Tail(queue) /\ UNCHANGED <<taken, fut>>
        /\ entry # "gone" /\ rekey' = "none"
    BY <1>1 DEF HandleData
  <2>2. CASE pending # <<>>
    <3>1. wire' = wire
      BY <1>1, <2>2 DEF HandleData
    <3> QED  BY <1>0, <3>1 DEF Sent
  <2>3. CASE pending = <<>>
    <3>1. Put(b.lo, cut, rw)
      BY <1>1, <2>3 DEF HandleData
    <3>2. b.lo \in Nat /\ b.hi \in Nat /\ QueueLo = b.lo
      BY <2>1, Dequeue
    <3>3. PendingLo = Sent /\ rw \in Nat /\ entry = "open"
      BY <2>1, <2>3 DEF FlowInv, Joined, TypeOK, Closing
    <3>4. b.lo = Sent
      BY <2>3, <3>2, <3>3, Zenon DEF PendingLo
    <3> HIDE DEF b, cut
    <3>5. CASE cut > b.lo
      <4>1. wire' = [lo |-> b.lo, hi |-> cut]
        BY <3>1, <3>5 DEF Put
      <4>2. wire'.lo = b.lo /\ wire'.hi = cut
        BY <4>1
      <4>3. cut \in Nat
        BY <3>2, <3>3 DEF cut, Least
      <4>4. Sent' >= Sent
        BY <1>0, <3>4, <3>5, <4>2, <4>3 DEF Sent
      <4> QED  BY <2>1, <3>3, <3>4, <4>2, <4>4
    <3>6. CASE ~(cut > b.lo)
      <4>1. wire' = wire
        BY <3>1, <3>6 DEF Put
      <4> QED  BY <1>0, <4>1 DEF Sent
    <3> QED  BY <3>5, <3>6
  <2> QED  BY <2>2, <2>3
<1>2. ASSUME NEW a \in Nat, FlushWith(rw + a), entry # "open" => a = 0,
             UNCHANGED <<taken, fut, queue>>, rekey' = "none"
      PROVE  /\ wire' # wire => wire'.lo = Sent /\ entry # "gone" /\ rekey' = "none"
             /\ Sent' >= Sent
             /\ entry # "open" => wire' = wire
  <2>1. entry # "gone" \/ a = 0
    BY <1>2
  <2>2. /\ pending # <<>> /\ a = 0 => wire' = wire
        /\ Sent' >= Sent
        /\ wire' # wire => wire'.lo = Sent /\ entry # "gone"
    BY <1>2, <2>1, FlushFlow
  <2>3. pending = <<>> => wire' = wire
    BY <1>2 DEF FlushWith
  <2> QED  BY <1>2, <2>2, <2>3
<1>3. ASSUME NEW a \in 1 .. Window, Adjust(a)
      PROVE  /\ wire' # wire => wire'.lo = Sent /\ entry # "gone" /\ rekey' = "none"
             /\ Sent' >= Sent
             /\ entry # "open" => wire' = wire
  <2>1. /\ a \in Nat /\ FlushWith(rw + a) /\ rekey' = "none"
        /\ UNCHANGED <<taken, fut, queue>> /\ peer = "open"
    BY <1>3, WindowAssumption DEF Adjust, PeerGrants
  <2>2. entry = "open"
    BY <2>1 DEF FlowInv, TypeOK, Closing
  <2> QED  BY <1>2, <2>1, <2>2
<1>4. CASE PeerNewKeys
  <2>1. /\ FlushWith(rw + stash) /\ rekey' = "none"
        /\ UNCHANGED <<taken, fut, queue>>
    BY <1>4 DEF PeerNewKeys
  <2>2. stash \in Nat /\ (entry # "open" => stash = 0)
    BY DEF FlowInv, TypeOK, Closing
  <2> QED  BY <1>2, <2>1, <2>2
<1>5. CASE wire' = wire
  BY <1>0, <1>5 DEF Sent
<1>6. ASSUME NEW a \in 1 .. Window, StashAdjust(a) PROVE wire' = wire
  BY <1>6 DEF StashAdjust, channelVars
<1>7. CASE Write \/ Permit \/ DropData \/ PeerClose \/ StashClose \/ RekeyStart
           \/ PeerKexInit \/ PeerKexReply \/ UNCHANGED vars
  <2>1. wire' = wire
    BY <1>7 DEF Write, Permit, DropData, PeerClose, StashClose, RekeyStart,
         PeerKexInit, PeerKexReply, vars, channelVars
  <2> QED  BY <1>5, <2>1
<1> QED  BY <1>1, <1>3, <1>4, <1>5, <1>6, <1>7 DEF Next, Session, Grant, Rekeying

\* Bytes reach the wire in the order they were written, without a gap, and
\* none follows CHANNEL_CLOSE.
THEOREM WireInOrder == Spec => InOrder
<1>1. FlowInv /\ [Next]_vars => [wire' # wire => wire'.lo = Sent /\ entry # "gone"]_vars
  BY WireStep
<1> QED  BY <1>1, FlowInvariant, PTL DEF Spec, InOrder

\* No data packet is sent between KEXINIT and the end of the re-exchange.
THEOREM QuietWhileRekeying == Spec => RekeyQuiet
<1>1. FlowInv /\ [Next]_vars => [wire' # wire => rekey' = "none"]_vars
  BY WireStep
<1> QED  BY <1>1, FlowInvariant, PTL DEF Spec, RekeyQuiet

\* No byte is on the wire that was not written, or not granted.
Bounds == Sent <= taken /\ Sent <= granted

\* The bounds follow from the places and from the exact window.
LEMMA FlowBounds == FlowInv => Bounds
<1> SUFFICES ASSUME FlowInv PROVE Bounds
  OBVIOUS
<1>1. /\ Sent \in Nat /\ taken \in Nat /\ rw \in Nat /\ stash \in Nat
      /\ Sent <= QueueLo
      /\ Sent + rw + stash = granted
  BY DEF FlowInv, TypeOK, Joined, WindowExact, Sent, Buffer
<1>2. /\ FutLo \in Nat /\ FutLo <= taken
      /\ QueueLo \in Nat /\ QueueLo <= FutLo
  BY Places
<1>3. Sent <= taken
  BY <1>1, <1>2
<1>4. Sent <= granted
  BY <1>1
<1> QED  BY <1>3, <1>4 DEF Bounds

\* Only a write changes what is written; grants only grow, and end with
\* the channel.
LEMMA GrantStep ==
    ASSUME FlowInv, [Next]_vars
    PROVE  /\ taken' # taken =>
                 /\ taken' \in Nat /\ taken' > taken
                 /\ UNCHANGED <<wire, granted, entry>>
           /\ granted' >= granted
           /\ entry # "open" => granted' = granted /\ entry' # "open"
<1>0. /\ granted \in Nat /\ taken \in Nat /\ win \in Nat
      /\ entry # "open" => peer = "closed"
  BY DEF FlowInv, TypeOK, Closing
<1>1. CASE Write
  <2>1. PICK n \in 1 .. Least(MaxPacket, win) : taken' = taken + n
    BY <1>1 DEF Write
  <2>2. n \in Nat \ {0}
    BY <1>0, MaxPacketAssumption DEF Least
  <2>3. UNCHANGED <<wire, granted, entry>>
    BY <1>1 DEF Write, channelVars, peerVars
  <2>4. taken' \in Nat /\ taken' > taken
    BY <1>0, <2>1, <2>2
  <2>5. granted' >= granted
    BY <1>0, <2>3
  <2> QED  BY <2>3, <2>4, <2>5
<1>2. ASSUME NEW a \in 1 .. Window, Adjust(a) \/ StashAdjust(a)
      PROVE  taken' = taken /\ granted' >= granted /\ entry = "open"
  <2>1. taken' = taken /\ peer = "open" /\ granted' = granted + a /\ a \in Nat
    BY <1>2, WindowAssumption DEF Adjust, StashAdjust, PeerGrants, writerVars
  <2> QED  BY <1>0, <2>1
<1>3. CASE Permit \/ HandleData \/ DropData \/ StashClose \/ RekeyStart
           \/ PeerKexInit \/ PeerKexReply \/ UNCHANGED vars
  <2>1. taken' = taken /\ granted' = granted /\ entry' = entry
    BY <1>3 DEF Permit, HandleData, DropData, StashClose, RekeyStart, PeerKexInit,
         PeerKexReply, vars, writerVars, channelVars, peerVars
  <2> QED  BY <1>0, <2>1
<1>4. CASE PeerClose \/ PeerNewKeys
  <2>1. taken' = taken /\ granted' = granted
    BY <1>4 DEF PeerClose, PeerNewKeys, writerVars
  <2>2. entry # "open" => entry' # "open"
    BY <1>4 DEF PeerClose, PeerNewKeys, CloseWith
  <2> QED  BY <1>0, <2>1, <2>2
<1> QED  BY <1>1, <1>2, <1>3, <1>4 DEF Next, Session, Grant, Rekeying

\* The sending half of a channel, with its shared window, its queue, its
\* kept data and its re-exchanges, implements a byte stream with credit.
THEOREM ImplementsByteStream == Spec => StreamSpec
<1>1. Init => Stream!Init
  BY WindowAssumption DEF Init, Stream!Init
<1>2. FlowInv /\ FlowInv' /\ Bounds' /\ [Next]_vars => [Stream!Next]_(Stream!vars)
  <2> SUFFICES ASSUME FlowInv, FlowInv', Bounds', [Next]_vars
               PROVE  [Stream!Next]_(Stream!vars)
    OBVIOUS
  <2> DEFINE st == IF entry = "open" THEN "open" ELSE "closed"
  <2>1. /\ taken' # taken =>
              /\ taken' \in Nat /\ taken' > taken
              /\ UNCHANGED <<wire, granted, entry>>
        /\ granted' >= granted
        /\ entry # "open" => granted' = granted /\ entry' # "open"
    BY GrantStep
  <2>2. Sent' >= Sent /\ (entry # "open" => wire' = wire)
    BY WireStep
  <2>3. /\ Sent' <= taken' /\ Sent' <= granted'
        /\ granted' \in Nat /\ Sent' \in Nat
    BY DEF Bounds, FlowInv, TypeOK, Sent, Buffer
  <2>4. CASE taken' # taken
    <3>1. Stream!Write
      BY <2>1, <2>4 DEF Stream!Write
    <3> QED  BY <3>1 DEF Stream!Next
  <2>5. CASE taken' = taken /\ entry = "open" /\ entry' = "open"
    <3>1. Stream!Transfer
      BY <2>1, <2>2, <2>3, <2>5 DEF Stream!Transfer, Sent
    <3> QED  BY <3>1 DEF Stream!Next
  <2>6. CASE taken' = taken /\ entry = "open" /\ entry' # "open"
    <3>1. Stream!Close
      BY <2>1, <2>2, <2>3, <2>6 DEF Stream!Close, Sent
    <3> QED  BY <3>1 DEF Stream!Next
  <2>7. CASE taken' = taken /\ entry # "open"
    <3>1. wire' = wire /\ granted' = granted /\ st' = st
      BY <2>1, <2>2, <2>7
    <3> QED  BY <2>7, <3>1 DEF Stream!vars
  <2> QED  BY <2>4, <2>5, <2>6, <2>7
<1>3. FlowInv => Bounds
  BY FlowBounds
<1> QED  BY <1>1, <1>2, <1>3, FlowInvariant, PTL DEF Spec, StreamSpec, Stream!Spec

-----------------------------------------------------------------------------
\* The bound on what the session keeps.

\* Arithmetic of Bytes.
LEMMA BytesFacts ==
    /\ Bytes(0) = 0
    /\ Bytes(1) = MaxPacket
    /\ \A k \in Nat : Bytes(k) \in Nat /\ Bytes(k + 1) = Bytes(k) + MaxPacket
    /\ \A j, k \in Nat : j <= k => Bytes(j) <= Bytes(k)
<1> USE MaxPacketAssumption DEF Bytes
<1>1. Bytes(0) = 0 /\ Bytes(1) = MaxPacket
  OBVIOUS
<1>2. \A k \in Nat : Bytes(k) \in Nat /\ Bytes(k + 1) = Bytes(k) + MaxPacket
  OBVIOUS
<1>3. \A j, k \in Nat : j <= k => Bytes(j) <= Bytes(k)
  <2> SUFFICES ASSUME NEW j \in Nat, NEW k \in Nat, j <= k
               PROVE  Bytes(j) <= Bytes(k)
    OBVIOUS
  <2>1. k - j \in Nat /\ k = j + (k - j)
    OBVIOUS
  <2>2. (k - j) * MaxPacket \in Nat
    BY <2>1
  <2>3. k * MaxPacket = j * MaxPacket + (k - j) * MaxPacket
    BY <2>1
  <2> QED  BY <2>2, <2>3
<1> QED  BY <1>1, <1>2, <1>3

\* The bytes that the session has not yet taken fit the queue and send_fut.
LEMMA QueueBytes ==
    ASSUME FlowInv, QueueSize
    PROVE  /\ Bytes(Cap + 1) \in Nat
           /\ taken - QueueLo <= Bytes(Cap + 1)
<1>1. /\ Len(queue) \in Nat /\ Len(queue) <= Cap
      /\ Len(fut) \in Nat /\ Len(fut) <= 1
      /\ taken \in Nat /\ queue \in Seq(Buffer)
  BY LenProperties DEF FlowInv, TypeOK
<1>2. QueueLo \in Nat
  BY Places
<1>3. Cap + 1 \in Nat /\ Len(queue) + Len(fut) \in Nat /\ Len(queue) + Len(fut) <= Cap + 1
  BY <1>1, CapAssumption
<1>4. Bytes(Len(queue) + Len(fut)) <= Bytes(Cap + 1)
      /\ Bytes(Cap + 1) \in Nat /\ Bytes(Len(queue) + Len(fut)) \in Nat
  BY <1>3, BytesFacts
<1>5. taken - QueueLo <= Bytes(Len(queue) + Len(fut))
  <2>1. CASE queue = <<>>
    <3>1. Len(queue) + Len(fut) = Len(fut)
      BY <1>1, <2>1
    <3>2. taken - FutLo <= Bytes(Len(fut)) /\ QueueLo = FutLo
      BY <2>1 DEF QueueSize, QueueLo
    <3> QED  BY <3>1, <3>2
  <2>2. CASE queue # <<>>
    <3>1. Len(queue) \in Nat \ {0}
      BY <1>1, <2>2, EmptySeq
    <3>2. 1 \in 1 .. Len(queue) /\ Len(queue) - 1 + 1 + Len(fut) = Len(queue) + Len(fut)
      BY <1>1, <3>1
    <3>3. taken - queue[1].lo <= Bytes(Len(queue) - 1 + 1 + Len(fut))
      BY <3>2 DEF QueueSize
    <3> QED  BY <2>2, <3>2, <3>3 DEF QueueLo
  <2> QED  BY <2>1, <2>2
<1> QED  BY <1>1, <1>2, <1>4, <1>5

\* The size of the queue is kept by every step.
LEMMA QueueSizeStep ==
    ASSUME FlowInv, QueueSize, [Next]_vars
    PROVE  QueueSize'
<1>0. /\ Len(queue) \in Nat /\ queue \in Seq(Buffer)
      /\ Len(fut) \in Nat /\ fut \in Seq(Buffer) /\ Len(fut) <= 1
      /\ taken \in Nat /\ win \in Nat
  BY LenProperties DEF FlowInv, TypeOK
<1>1. \A i \in 1 .. Len(queue) : queue[i].lo \in Nat
  <2>1. \A i \in 1 .. Len(queue) : queue[i] \in Buffer
    BY <1>0, ElementOfSeq
  <2> QED  BY <2>1 DEF Buffer
<1>2. CASE Write
  <2>1. PICK n \in 1 .. Least(MaxPacket, win) :
           /\ fut' = <<[lo |-> taken, hi |-> taken + n]>>
           /\ taken' = taken + n
    BY <1>2 DEF Write
  <2>2. n \in Nat /\ n <= MaxPacket /\ MaxPacket \in Nat
    BY <1>0, MaxPacketAssumption DEF Least
  <2>3. /\ fut = <<>> /\ queue' = queue
        /\ Len(fut) = 0 /\ Len(fut') = 1 /\ fut' # <<>> /\ fut'[1].lo = taken
    BY <1>2, <2>1 DEF Write
  <2>4. ASSUME NEW i \in 1 .. Len(queue)
        PROVE  taken' - queue'[i].lo <= Bytes(Len(queue') - i + 1 + Len(fut'))
    <3>1. Len(queue) - i + 1 \in Nat
      BY <1>0
    <3>2. /\ Len(queue) - i + 1 + 0 = Len(queue) - i + 1
          /\ Len(queue) - i + 1 + 1 = (Len(queue) - i + 1) + 1
      BY <3>1
    <3>3. taken - queue[i].lo <= Bytes(Len(queue) - i + 1)
      BY <2>3, <3>2 DEF QueueSize
    <3>4. /\ Bytes(Len(queue) - i + 1) \in Nat
          /\ Bytes((Len(queue) - i + 1) + 1) = Bytes(Len(queue) - i + 1) + MaxPacket
      BY <3>1, BytesFacts
    <3>5. queue[i].lo \in Nat
      BY <1>1
    <3>6. taken' - queue[i].lo <= Bytes(Len(queue) - i + 1) + MaxPacket
      BY <1>0, <2>1, <2>2, <3>3, <3>4, <3>5
    <3> QED  BY <2>3, <3>2, <3>4, <3>6
  <2>5. taken' - FutLo' <= Bytes(Len(fut'))
    <3>1. FutLo' = taken
      BY <2>3 DEF FutLo
    <3>2. taken' - taken <= MaxPacket
      BY <1>0, <2>1, <2>2
    <3> QED  BY <2>3, <3>1, <3>2, BytesFacts
  <2> QED  BY <2>3, <2>4, <2>5 DEF QueueSize
<1>3. CASE Permit
  <2>1. /\ fut # <<>> /\ fut' = <<>>
        /\ queue' = Append(queue, fut[1])
        /\ taken' = taken
    BY <1>3 DEF Permit
  <2>2. fut[1] \in Buffer
    <3>1. Chain(fut)
      BY DEF FlowInv, Joined
    <3> QED  BY <1>0, <2>1, <3>1, ChainTail
  <2>3. /\ Len(queue') = Len(queue) + 1
        /\ \A i \in 1 .. Len(queue) : queue'[i] = queue[i]
        /\ queue'[Len(queue) + 1] = fut[1]
    BY <1>0, <2>1, <2>2, AppendProperties
  <2>4. Len(fut) = 1 /\ Len(fut') = 0
    <3>1. Len(fut) \in Nat \ {0}
      BY <1>0, <2>1, EmptySeq
    <3>2. Len(fut') = 0
      BY <2>1, EmptySeq
    <3>3. Len(fut) <= 1
      BY <1>0
    <3>4. Len(fut) = 1
      BY <3>1, <3>3
    <3> QED  BY <3>2, <3>4
  <2>5. ASSUME NEW i \in 1 .. Len(queue')
        PROVE  taken' - queue'[i].lo <= Bytes(Len(queue') - i + 1 + Len(fut'))
    <3>1. CASE i \in 1 .. Len(queue)
      <4>1. Len(queue') - i + 1 + Len(fut') = Len(queue) - i + 1 + Len(fut)
        BY <1>0, <2>3, <2>4, <3>1
      <4>2. taken - queue[i].lo <= Bytes(Len(queue) - i + 1 + Len(fut))
        BY <3>1 DEF QueueSize
      <4> QED  BY <2>1, <2>3, <3>1, <4>1, <4>2
    <3>2. CASE i = Len(queue) + 1
      <4>1. Len(queue') - i + 1 + Len(fut') = 1
        BY <1>0, <2>3, <2>4, <3>2
      <4>2. taken - fut[1].lo <= Bytes(1)
        BY <2>1, <2>4 DEF QueueSize, FutLo
      <4> QED  BY <2>1, <2>3, <3>2, <4>1, <4>2
    <3> QED  BY <1>0, <2>3, <3>1, <3>2
  <2>6. taken' - FutLo' <= Bytes(Len(fut'))
    <3>1. FutLo' = taken'
      BY <2>1 DEF FutLo
    <3> QED  BY <1>0, <2>1, <2>4, <3>1, BytesFacts
  <2> QED  BY <2>5, <2>6 DEF QueueSize
<1>4. CASE HandleData \/ DropData
  <2>1. queue # <<>> /\ queue' = Tail(queue) /\ taken' = taken /\ fut' = fut
    BY <1>4 DEF HandleData, DropData
  <2>2. /\ Len(queue') = Len(queue) - 1
        /\ \A i \in 1 .. Len(queue) - 1 : queue'[i] = queue[i + 1]
    <3>1. Chain(queue)
      BY DEF FlowInv, Joined
    <3> QED  BY <1>0, <2>1, <3>1, ChainTail
  <2>3. ASSUME NEW i \in 1 .. Len(queue')
        PROVE  taken' - queue'[i].lo <= Bytes(Len(queue') - i + 1 + Len(fut'))
    <3>1. /\ i + 1 \in 1 .. Len(queue) /\ i \in 1 .. Len(queue) - 1
          /\ Len(queue') - i + 1 + Len(fut') = Len(queue) - (i + 1) + 1 + Len(fut)
      BY <1>0, <2>1, <2>2
    <3>2. taken - queue[i + 1].lo <= Bytes(Len(queue) - (i + 1) + 1 + Len(fut))
      BY <3>1 DEF QueueSize
    <3> QED  BY <2>1, <2>2, <3>1, <3>2
  <2>4. taken' - FutLo' <= Bytes(Len(fut'))
    <3>1. FutLo' = FutLo
      BY <2>1 DEF FutLo
    <3> QED  BY <2>1, <3>1 DEF QueueSize
  <2> QED  BY <2>3, <2>4 DEF QueueSize
<1>5. CASE UNCHANGED <<taken, queue, fut>>
  <2>1. FutLo' = FutLo
    BY <1>5 DEF FutLo
  <2> QED  BY <1>5, <2>1 DEF QueueSize
<1>6. ASSUME NEW a \in 1 .. Window, Adjust(a) \/ StashAdjust(a)
      PROVE  UNCHANGED <<taken, queue, fut>>
  BY <1>6 DEF Adjust, StashAdjust, writerVars
<1>7. CASE PeerClose \/ StashClose \/ RekeyStart \/ PeerKexInit \/ PeerKexReply
           \/ PeerNewKeys \/ UNCHANGED vars
  <2>1. UNCHANGED <<taken, queue, fut>>
    BY <1>7 DEF PeerClose, StashClose, RekeyStart, PeerKexInit, PeerKexReply,
         PeerNewKeys, vars, writerVars
  <2> QED  BY <1>5, <2>1
<1> QED  BY <1>2, <1>3, <1>4, <1>5, <1>6, <1>7 DEF Next, Session, Grant, Rekeying

\* A step that overwrites the writer's window may forget the bytes of the
\* queue, no more.
LEMMA OverwriteStep ==
    ASSUME FlowInv, FlowInv', QueueSize, Ahead, entry # "gone", entry' # "gone",
           NEW a \in Nat, FlushWith(rw + a),
           stash' = 0, win' = rw',
           UNCHANGED <<taken, fut, queue>>
    PROVE  Ahead'
<1> DEFINE K == Bytes(Cap + 1)
<1>1. K \in Nat /\ taken - QueueLo <= K
  BY QueueBytes
<1>2. /\ taken \in Nat /\ win \in Nat /\ stash \in Nat /\ rw \in Nat
      /\ granted \in Nat /\ Sent \in Nat /\ QueueLo \in Nat
      /\ Sent + rw + stash = granted
      /\ pending # <<>> => rw = 0
      /\ taken + win + stash <= granted + K
  <2>1. Sent \in Nat /\ QueueLo \in Nat
    BY Places
  <2>2. taken + win + stash <= granted + K
    BY DEF Ahead
  <2> QED  BY <2>1, <2>2 DEF FlowInv, TypeOK, WindowExact, KeptOnlyWhenFull
<1>3. /\ Sent' \in Nat /\ rw' \in Nat /\ granted' \in Nat
      /\ Sent' + rw' + stash' = granted'
      /\ PendingLo' = Sent'
      /\ pending' # <<>> => rw' = 0
  BY DEF FlowInv, TypeOK, WindowExact, KeptOnlyWhenFull, Joined, Sent, Buffer
<1>4. /\ Sent' >= Sent
      /\ pending = <<>> => pending' = <<>>
  BY FlushFlow
<1>5. QueueLo' = QueueLo
  BY DEF QueueLo, FutLo
<1> HIDE DEF K
<1>6. taken - Sent' <= K
  <2>1. CASE pending' = <<>>
    <3>1. Sent' = QueueLo
      BY <1>3, <1>5, <2>1 DEF PendingLo
    <3> QED  BY <1>1, <3>1
  <2>2. CASE pending' # <<>>
    <3>1. rw = 0
      BY <1>2, <1>4, <2>2
    <3>2. taken + win + stash <= Sent + stash + K
      <4>1. Sent + stash = granted
        BY <1>2, <3>1
      <4> QED  BY <1>2, <4>1
    <3>3. taken <= Sent + K
      BY <1>1, <1>2, <3>2
    <3>4. Sent \in Nat /\ taken \in Nat /\ Sent' \in Nat /\ Sent' >= Sent
      BY <1>2, <1>3, <1>4
    <3> QED  BY <1>1, <3>3, <3>4 DEF Sent
  <2> QED  BY <2>1, <2>2
<1>7. Sent' + rw' = granted'
  <2>1. /\ Sent' \in Nat /\ rw' \in Nat /\ granted' \in Nat
        /\ Sent' + rw' + 0 = granted'
    BY <1>3
  <2> QED  BY <2>1 DEF Sent
<1>8. taken + rw' <= granted' + K
  <2>1. Sent' \in Nat /\ rw' \in Nat /\ taken \in Nat /\ K \in Nat
    BY <1>1, <1>2, <1>3
  <2>2. ASSUME NEW s \in Nat, NEW r \in Nat, NEW t \in Nat, NEW k \in Nat, NEW g,
               t - s <= k, s + r = g
        PROVE  t + r <= g + k
    BY <2>2
  <2> QED  BY <1>6, <1>7, <2>1, <2>2
<1>9. taken' + win' + stash' <= granted' + K
  <2>1. taken' = taken /\ win' = rw' /\ stash' = 0 /\ taken \in Nat /\ rw' \in Nat
    BY <1>2, <1>3
  <2> QED  BY <1>8, <2>1
<1> QED  BY <1>9 DEF Ahead, K

\* How far the writer is ahead of the grants is kept by every step.
LEMMA AheadStep ==
    ASSUME FlowInv, FlowInv', QueueSize, Ahead, [Next]_vars
    PROVE  Ahead'
<1> DEFINE K == Bytes(Cap + 1)
<1>0. /\ K \in Nat /\ taken \in Nat /\ win \in Nat /\ stash \in Nat /\ granted \in Nat
      /\ entry # "gone" => taken + win + stash <= granted + K
  <2>1. K \in Nat
    BY QueueBytes
  <2>2. entry # "gone" => taken + win + stash <= granted + K
    BY DEF Ahead
  <2> QED  BY <2>1, <2>2 DEF FlowInv, TypeOK
<1> HIDE DEF K
<1>1. CASE Write
  <2>1. PICK n \in 1 .. Least(MaxPacket, win) : taken' = taken + n /\ win' = win - n
    BY <1>1 DEF Write
  <2>2. n \in Nat /\ n <= win
    BY <1>0, MaxPacketAssumption DEF Least
  <2>3. UNCHANGED <<stash, granted, entry>>
    BY <1>1 DEF Write, channelVars, peerVars
  <2>4. taken' + win' + stash' = taken + win + stash
    BY <1>0, <2>1, <2>2, <2>3
  <2> QED  BY <1>0, <2>3, <2>4 DEF Ahead, K
<1>2. ASSUME NEW a \in 1 .. Window, Adjust(a) PROVE Ahead'
  <2>1. /\ a \in Nat /\ FlushWith(rw + a) /\ win' = rw'
        /\ UNCHANGED <<taken, fut, queue>>
        /\ rekey = "none" /\ stash' = stash /\ entry' = entry /\ peer = "open"
    BY <1>2, WindowAssumption DEF Adjust, PeerGrants
  <2>2. stash' = 0 /\ entry = "open"
    BY <2>1 DEF FlowInv, TypeOK, Closing
  <2>3. entry # "gone" /\ entry' # "gone"
    BY <2>1, <2>2
  <2> QED  BY <2>1, <2>2, <2>3, OverwriteStep
<1>3. ASSUME NEW a \in 1 .. Window, StashAdjust(a) PROVE Ahead'
  <2>1. /\ granted' = granted + a /\ stash' = stash + a /\ a \in Nat
        /\ UNCHANGED <<taken, win, entry>>
    BY <1>3, WindowAssumption DEF StashAdjust, PeerGrants, writerVars, channelVars
  <2>2. entry # "gone" => taken' + win' + stash' <= granted' + K
    BY <1>0, <2>1
  <2> QED  BY <2>1, <2>2 DEF Ahead, K
<1>4. CASE PeerNewKeys
  <2>1. /\ FlushWith(rw + stash) /\ stash' = 0
        /\ win' = IF stash > 0 THEN rw' ELSE win
        /\ UNCHANGED <<taken, fut, queue>> /\ granted' = granted
        /\ entry = "gone" => entry' = "gone"
    BY <1>4 DEF PeerNewKeys, CloseWith
  <2>2. CASE entry' = "gone"
    BY <2>2 DEF Ahead
  <2>3. CASE entry' # "gone" /\ stash > 0
    <3>1. entry # "gone" /\ win' = rw'
      BY <2>1, <2>3
    <3> QED  BY <1>0, <2>1, <2>3, <3>1, OverwriteStep
  <2>4. CASE entry' # "gone" /\ ~(stash > 0)
    <3>1. stash = 0 /\ win' = win /\ entry # "gone"
      BY <1>0, <2>1, <2>4
    <3>2. taken' + win' + stash' <= granted' + K
      BY <1>0, <2>1, <3>1
    <3> QED  BY <3>2 DEF Ahead, K
  <2> QED  BY <2>2, <2>3, <2>4
<1>5. CASE Permit \/ HandleData \/ DropData \/ PeerClose \/ StashClose
           \/ RekeyStart \/ PeerKexInit \/ PeerKexReply \/ UNCHANGED vars
  <2>1. UNCHANGED <<taken, win, stash, granted>>
    BY <1>5 DEF Permit, HandleData, DropData, PeerClose, StashClose, RekeyStart,
         PeerKexInit, PeerKexReply, vars, writerVars, peerVars
  <2>2. entry = "gone" => entry' = "gone"
    <3>1. entry = "gone" => peer = "closed"
      BY DEF FlowInv, Closing
    <3> QED  BY <1>5, <3>1 DEF Permit, HandleData, DropData, PeerClose, StashClose,
           RekeyStart, PeerKexInit, PeerKexReply, vars, channelVars
  <2> QED  BY <1>0, <2>1, <2>2 DEF Ahead, K
<1> QED  BY <1>1, <1>2, <1>3, <1>4, <1>5 DEF Next, Session, Grant, Rekeying

\* Nothing is ahead at first.
LEMMA BacklogInit == Init => QueueSize /\ Ahead
<1> SUFFICES ASSUME Init PROVE QueueSize /\ Ahead
  OBVIOUS
<1>1. /\ taken = 0 /\ win = Window /\ stash = 0 /\ granted = Window
      /\ queue = <<>> /\ fut = <<>> /\ Len(queue) = 0 /\ Len(fut) = 0
  BY DEF Init
<1>2. Cap + 1 \in Nat /\ Window \in Nat
  BY CapAssumption, WindowAssumption
<1>3. Bytes(0) = 0 /\ Bytes(Cap + 1) \in Nat
  BY <1>2, BytesFacts
<1>4. QueueSize
  BY <1>1, <1>3 DEF QueueSize, FutLo
<1>5. Ahead
  BY <1>1, <1>2, <1>3 DEF Ahead
<1> QED  BY <1>4, <1>5

\* What is kept is part of what the writer is ahead.
LEMMA BacklogBound == FlowInv /\ QueueSize /\ Ahead => BacklogBounded
<1> SUFFICES ASSUME FlowInv, QueueSize, Ahead PROVE BacklogBounded
  OBVIOUS
<1> DEFINE K == Bytes(Cap + 1)
<1>1. K \in Nat
  BY QueueBytes
<1>2. K = (Cap + 1) * MaxPacket
  BY DEF Bytes
<1>3. CASE pending = <<>>
  BY <1>1, <1>2, <1>3 DEF BacklogBounded, Backlog
<1>4. CASE pending # <<>>
  <2>1. /\ entry # "gone" /\ rw = 0
        /\ pending[Len(pending)].hi = QueueLo /\ pending[1].lo = Sent
        /\ Sent + rw + stash = granted
        /\ taken \in Nat /\ win \in Nat /\ stash \in Nat /\ granted \in Nat
    BY <1>4 DEF FlowInv, TypeOK, Closing, KeptOnlyWhenFull, Joined, PendingLo,
         WindowExact
  <2>2. /\ Sent \in Nat /\ QueueLo \in Nat
        /\ FutLo \in Nat /\ FutLo <= taken /\ QueueLo <= FutLo
    BY Places
  <2>3. taken + win + stash <= granted + K
    BY <2>1 DEF Ahead
  <2> HIDE DEF K
  <2>4. Sent + stash = granted
    BY <2>1, <2>2
  <2>5. taken <= Sent + K
    BY <1>1, <2>1, <2>2, <2>3, <2>4
  <2>6. QueueLo - Sent <= K
    BY <1>1, <2>1, <2>2, <2>5
  <2> QED  BY <1>2, <1>4, <2>1, <2>6 DEF BacklogBounded, Backlog
<1> QED  BY <1>3, <1>4

\* Though WINDOW_ADJUST makes the writer forget the bytes in the queue, the
\* session never keeps more than the queue and one message for it.
THEOREM BacklogIsBounded == Spec => []BacklogBounded
<1> DEFINE Inv == FlowInv /\ QueueSize /\ Ahead
<1>1. Init => Inv
  BY InitFlow, BacklogInit
<1>2. Inv /\ [Next]_vars => Inv'
  BY NextFlow, QueueSizeStep, AheadStep
<1>3. Inv => BacklogBounded
  BY BacklogBound
<1> QED  BY <1>1, <1>2, <1>3, PTL DEF Spec
=============================================================================
