---------------------------- MODULE ChannelFlow -----------------------------
(***************************************************************************)
(* The sending half of one SSH channel in russh, as the forwards of sshtun *)
(* use it: the writer (ChannelTx) takes bytes against a window it shares   *)
(* with the session task, hands them over through the mpsc queue of the    *)
(* session, and the session task (Encrypted) puts them on the wire against *)
(* its own count of the peer's window, keeping back what does not fit.  A  *)
(* key re-exchange suspends both directions.                               *)
(*                                                                         *)
(* The bytes are numbered in the order they are written; a buffer is the   *)
(* interval of bytes after lo up to hi.  sshtun never half-closes a        *)
(* channel nor closes one that carries data, so the only end of the        *)
(* channel here is the one the peer asks for.                              *)
(***************************************************************************)
EXTENDS Naturals, Sequences

CONSTANTS
    Window,     \* initial_window_size of the peer's confirmation
    MaxPacket,  \* maximum_packet_size of the confirmation
    Cap,        \* channel_buffer_size: capacity of the session's queue
    MaxBytes    \* bound: bytes written in a behaviour

ASSUME WindowAssumption == Window \in Nat \ {0}
ASSUME MaxPacketAssumption == MaxPacket \in Nat \ {0}
ASSUME CapAssumption == Cap \in Nat \ {0}
ASSUME MaxBytesAssumption == MaxBytes \in Nat

VARIABLES
    taken,    \* bytes the writer has taken from the application
    win,      \* ChannelTx.window_size, shared with the session task
    fut,      \* ChannelTx.send_fut: the message that waits for a permit
    queue,    \* the session's mpsc queue, as far as this channel fills it
    rw,       \* recipient_window_size of the session's ChannelParams
    pending,  \* its pending_data
    entry,    \* its place in Encrypted.channels: "open", pending_close, "gone"
    rekey,    \* Encrypted.rekey
    stash,    \* pending_reads: window adjustments not yet processed, summed
    peer,     \* "closed" once the peer has sent CHANNEL_CLOSE
    granted,  \* the bytes the peer has allowed so far
    wire      \* the last buffer put on the wire

writerVars == <<taken, win, fut, queue>>
channelVars == <<rw, pending, entry, wire>>
peerVars == <<granted, peer, stash>>
vars == <<writerVars, channelVars, peerVars, rekey>>

Least(a, b) == IF a <= b THEN a ELSE b

Buffer == [lo : Nat, hi : Nat]

TypeOK ==
    /\ taken \in Nat /\ win \in Nat /\ rw \in Nat /\ stash \in Nat
    /\ granted \in Nat
    /\ fut \in Seq(Buffer) /\ Len(fut) <= 1
    /\ queue \in Seq(Buffer) /\ Len(queue) <= Cap
    /\ pending \in Seq(Buffer)
    /\ entry \in {"open", "closing", "gone"}
    /\ rekey \in {"none", "init", "dhdone", "keys"}
    /\ peer \in {"open", "closed"}
    /\ wire \in Buffer

\* The confirmation gives both counts the same window.
Init ==
    /\ taken = 0
    /\ win = Window /\ rw = Window /\ granted = Window
    /\ fut = <<>> /\ queue = <<>> /\ pending = <<>>
    /\ entry = "open" /\ peer = "open"
    /\ rekey = "none" /\ stash = 0
    /\ wire = [lo |-> 0, hi |-> 0]

Sent == wire.hi

-----------------------------------------------------------------------------
\* The writer.

\* Mutant: the bytes are not taken off the shared window.
WriteUncounted ==
    /\ fut = <<>>
    /\ \E n \in 1 .. Least(MaxPacket, win) :
          /\ taken + n <= MaxBytes
          /\ fut' = <<[lo |-> taken, hi |-> taken + n]>>
          /\ taken' = taken + n
    /\ UNCHANGED <<win, queue, channelVars, peerVars, rekey>>

\* poll_mk_msg under the lock of the window, then activate.
Write ==
    /\ fut = <<>>
    /\ \E n \in 1 .. Least(MaxPacket, win) :
          /\ taken + n <= MaxBytes
          /\ fut' = <<[lo |-> taken, hi |-> taken + n]>>
          /\ taken' = taken + n
          /\ win' = win - n
    /\ UNCHANGED <<queue, channelVars, peerVars, rekey>>

\* Mutant: the queue is taken to be unbounded.
PermitAlways ==
    /\ fut # <<>>
    /\ queue' = Append(queue, fut[1])
    /\ fut' = <<>>
    /\ UNCHANGED <<taken, win, channelVars, peerVars, rekey>>

\* The permit is granted and handle_write_result sends the message.
Permit ==
    /\ fut # <<>>
    /\ Len(queue) < Cap
    /\ queue' = Append(queue, fut[1])
    /\ fut' = <<>>
    /\ UNCHANGED <<taken, win, channelVars, peerVars, rekey>>

-----------------------------------------------------------------------------
\* The session task: Encrypted::data and the flushing of what it kept.

\* Mutant: the window is not charged.
PutUncharged(lo, cut, n) ==
    /\ wire' = IF cut > lo THEN [lo |-> lo, hi |-> cut] ELSE wire
    /\ rw' = n

\* data_noqueue: the bytes up to cut are put on the wire and charged to a
\* window of n bytes.
Put(lo, cut, n) ==
    /\ wire' = IF cut > lo THEN [lo |-> lo, hi |-> cut] ELSE wire
    /\ rw' = n - (cut - lo)

\* Mutant: what is left of a buffer goes to the back of the queue.
RestOfAtBack(k, cut) ==
    IF k = Len(pending) THEN <<>>
    ELSE Append(SubSeq(pending, k + 2, Len(pending)),
                [pending[k + 1] EXCEPT !.lo = cut])

\* flush_channel: the first k buffers went out whole; of the next one, the
\* part after cut is put back in front.
RestOf(k, cut) ==
    IF k = Len(pending) THEN <<>>
    ELSE <<[lo |-> cut, hi |-> pending[k + 1].hi]>>
         \o SubSeq(pending, k + 2, Len(pending))

\* k buffers lie before cut as a whole.
Whole(k, cut) ==
    \/ k = Len(pending) /\ pending[k].hi = cut
    \/ k < Len(pending) /\ pending[k + 1].lo <= cut /\ cut < pending[k + 1].hi

\* The buffers kept back are flushed against a window of n bytes.
FlushWith(n) ==
    \/ /\ pending = <<>>
       /\ rw' = n
       /\ UNCHANGED <<pending, wire>>
    \/ /\ pending # <<>>
       /\ LET cut == Least(pending[1].lo + n, pending[Len(pending)].hi)
          IN  /\ \E k \in 0 .. Len(pending) :
                    Whole(k, cut) /\ pending' = RestOf(k, cut)
              /\ Put(pending[1].lo, cut, n)

\* A message of the queue meets an open or a closing channel: behind
\* buffers already kept, else as much of it as the window allows.
\* The session takes from the queue only when no re-exchange runs.
HandleData ==
    /\ rekey = "none"
    /\ queue # <<>>
    /\ queue' = Tail(queue)
    /\ entry # "gone"
    /\ LET b == queue[1]
           cut == Least(b.hi, b.lo + rw)
       IN  \/ /\ pending # <<>>
              /\ pending' = Append(pending, b)
              /\ UNCHANGED <<rw, wire>>
           \/ /\ pending = <<>>
              /\ Put(b.lo, cut, rw)
              /\ pending' = IF cut < b.hi THEN <<[lo |-> cut, hi |-> b.hi]>>
                            ELSE <<>>
    /\ UNCHANGED <<taken, win, fut, entry, peerVars, rekey>>

\* A message for a channel that was removed is dropped.
DropData ==
    /\ rekey = "none"
    /\ queue # <<>>
    /\ queue' = Tail(queue)
    /\ entry = "gone"
    /\ UNCHANGED <<taken, win, fut, channelVars, peerVars, rekey>>

\* enc.close(): at once, or once the kept data is out.
CloseWith(kept) == entry' = IF kept = <<>> THEN "gone" ELSE "closing"

-----------------------------------------------------------------------------
\* The peer.  It grants again, at a time of its choosing, what it has
\* received; it sends nothing on the channel after CHANNEL_CLOSE.

PeerGrants(a) ==
    /\ peer = "open"
    /\ a > 0
    /\ granted + a <= Window + Sent
    /\ granted' = granted + a

\* Mutant: the kept data is not flushed.
AdjustNoFlush(a) ==
    /\ rekey = "none"
    /\ PeerGrants(a)
    /\ rw' = rw + a
    /\ win' = rw'
    /\ UNCHANGED <<taken, fut, queue, pending, wire, entry, peer, stash, rekey>>

\* CHANNEL_WINDOW_ADJUST: the kept data is flushed, and the writer's window
\* is overwritten with what is left.
Adjust(a) ==
    /\ rekey = "none"
    /\ PeerGrants(a)
    /\ FlushWith(rw + a)
    /\ win' = rw'
    /\ UNCHANGED <<taken, fut, queue, entry, peer, stash, rekey>>

\* CHANNEL_CLOSE: the answer, and the end of the ChannelRef.
PeerClose ==
    /\ rekey = "none"
    /\ peer = "open"
    /\ peer' = "closed"
    /\ CloseWith(pending)
    /\ UNCHANGED <<writerVars, rw, pending, wire, granted, stash, rekey>>

-----------------------------------------------------------------------------
\* Key re-exchange.

\* The limits of flush() are exceeded: KEXINIT is sent.
RekeyStart ==
    /\ rekey = "none"
    /\ rekey' = "init"
    /\ UNCHANGED <<writerVars, channelVars, peerVars>>

\* Mutant: packets are processed while the re-exchange is under way.
StashAdjustNow(a) ==
    /\ rekey = "init"
    /\ PeerGrants(a)
    /\ FlushWith(rw + a)
    /\ win' = rw'
    /\ UNCHANGED <<taken, fut, queue, entry, peer, stash, rekey>>

\* What the peer sent before it saw KEXINIT is put aside (pending_reads).
StashAdjust(a) ==
    /\ rekey = "init"
    /\ PeerGrants(a)
    /\ stash' = stash + a
    /\ UNCHANGED <<writerVars, channelVars, peer, rekey>>

StashClose ==
    /\ rekey = "init"
    /\ peer = "open"
    /\ peer' = "closed"
    /\ UNCHANGED <<writerVars, channelVars, granted, stash, rekey>>

\* The peer's KEXINIT, in answer to ours or of its own accord; the client
\* has now sent KEXINIT and the first message of the exchange.
PeerKexInit ==
    /\ rekey \in {"none", "init"}
    /\ rekey' = "dhdone"
    /\ UNCHANGED <<writerVars, channelVars, peerVars>>

\* The reply is checked and NEWKEYS is sent.
PeerKexReply ==
    /\ rekey = "dhdone"
    /\ rekey' = "keys"
    /\ UNCHANGED <<writerVars, channelVars, peerVars>>

\* NEWKEYS: flush_all_pending, then the packets put aside, in their order
\* (one adjustment by their sum does what each in turn does).
PeerNewKeys ==
    /\ rekey = "keys"
    /\ rekey' = "none"
    /\ FlushWith(rw + stash)
    /\ stash' = 0
    /\ win' = IF stash > 0 THEN rw' ELSE win
    /\ IF peer = "closed" /\ entry = "open"
       THEN CloseWith(pending') ELSE UNCHANGED entry
    /\ UNCHANGED <<taken, fut, queue, granted, peer>>

-----------------------------------------------------------------------------
Session == HandleData \/ DropData

Grant == \E a \in 1 .. Window : Adjust(a) \/ StashAdjust(a)

Rekeying == PeerKexInit \/ PeerKexReply \/ PeerNewKeys

Next ==
    \/ Write \/ Permit
    \/ Session
    \/ Grant
    \/ PeerClose \/ StashClose
    \/ RekeyStart \/ Rekeying

Spec == Init /\ [][Next]_vars

\* The session task serves its queue between two re-exchanges, which are an
\* hour or a gigabyte apart; the peer grants what it has received, and
\* answers in a re-exchange.
Fairness ==
    /\ WF_vars(Permit)
    /\ SF_vars(Session)
    /\ SF_vars(Grant)
    /\ WF_vars(rekey = "init" /\ PeerKexInit)
    /\ WF_vars(PeerKexReply \/ PeerNewKeys)

FairSpec == Spec /\ Fairness

-----------------------------------------------------------------------------
\* Properties.

\* The session's count of the peer's window is exact whatever the order of
\* writes, adjustments and re-exchanges, so the peer never gets a byte it
\* has not granted.
WindowExact == Sent + rw + stash = granted

Backlog == IF pending = <<>> THEN 0 ELSE pending[Len(pending)].hi - pending[1].lo

\* WINDOW_ADJUST overwrites the writer's window and forgets the bytes that
\* are still queued, so the writer may run ahead of the peer's window; what
\* the session has to keep for it stays below the queue and one message.
BacklogBounded == Backlog <= (Cap + 1) * MaxPacket

\* Data is kept back only when the window is used up: nothing waits for an
\* adjustment that the peer has no reason to send.
KeptOnlyWhenFull == pending # <<>> => rw = 0

\* Every buffer put on the wire starts where the last one ended, and none
\* follows the channel's CHANNEL_CLOSE.
InOrder == [][wire' # wire => wire'.lo = Sent /\ entry # "gone"]_vars

\* No data is put on the wire between the client's KEXINIT and the end of
\* the re-exchange.
RekeyQuiet == [][wire' # wire => rekey' = "none"]_vars

\* What was written reaches the peer, unless the peer closes the channel.
Delivered ==
    \A n \in 1 .. MaxBytes : taken >= n ~> Sent >= n \/ peer = "closed"

\* The channel is a byte stream with credit.
Stream == INSTANCE ByteStream WITH
    written <- taken,
    delivered <- wire.hi,
    granted <- granted,
    state <- IF entry = "open" THEN "open" ELSE "closed"

StreamSpec == Stream!Spec
=============================================================================
