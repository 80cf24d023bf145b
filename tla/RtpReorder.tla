----------------------------- MODULE RtpReorder -----------------------------
(***************************************************************************)
(* The receiving side of one RTP stream (pkg/rtprtcp): RtpUnpackContainer  *)
(* keeps the packets that cannot be used yet in RtpPacketList, a list      *)
(* sorted by 16-bit sequence number, and puts frames together from its     *)
(* head; RrProducer counts the same packets and answers the sender's SRs   *)
(* with receiver reports.  Both are called for every packet by             *)
(* BaseInSession.handleRtpPacket.                                          *)
(*                                                                         *)
(* The sender numbers the packets of frames 1, 2, 3, ...; a packet carries *)
(* only the sequence number (Start + i) % M.  The network may lose packets *)
(* (at most Gap in a row), duplicate them, and deliver one up to window    *)
(* packets late.                                                           *)
(***************************************************************************)
EXTENDS Integers, Sequences, FiniteSets, SequencesExt, FiniteSetsExt

CONSTANTS
  Streams,   \* the streams that may be received, each
             \*   codec: which IRtpUnpackerProtocol, "avc" (also HEVC; G711 is
             \*     the case of frames of one packet) or "aac",
             \*   ends: the number of the last packet of each frame,
             \*   unknown: the frames of one packet whose type the unpacker
             \*     does not know,
             \*   maxSize: the capacity of the list (unpackerItemMaxSize),
             \*   window: how many packets late one may be
  M,         \* how many sequence numbers there are (65536 in the code)
  Word,      \* how many values an unsigned counter has (2^32 in the code)
  Start,     \* the sequence number before that of the first packet
  Gap,
  MaxFeeds,  \* bound: packets that arrive
  MaxSrs     \* bound: sender reports that arrive

ASSUME RtpAssumption ==
  /\ \A x \in Streams :
       /\ x.codec \in {"avc", "aac"}
       \* as many packets as CompareSeq tells apart
       /\ x.ends # <<>> /\ x.ends \in Seq(1 .. M \div 2 - 1)
       /\ \A f \in 2 .. Len(x.ends) : x.ends[f - 1] < x.ends[f]
       /\ x.codec = "aac" => x.unknown = {}
       /\ \A f \in x.unknown :
            /\ f \in DOMAIN x.ends
            /\ x.ends[f] = IF f = 1 THEN 1 ELSE x.ends[f - 1] + 1
       /\ x.maxSize \in Nat \ {0} /\ x.window \in Nat
  /\ M \in Nat /\ M >= 8 /\ Word \in Nat /\ Word > M * M
  /\ Start \in 0 .. M - 1
  /\ {Gap, MaxFeeds, MaxSrs} \subseteq Nat

VARIABLES
  stream,    \* the stream received, one of Streams
  list,      \* the cached packets, as the numbers the sender gave them
  size,      \* RtpPacketList.Size
  done,      \* RtpPacketList.doneSeq, NoSeq while doneSeqFlag is false
  out,       \* the frames handed to onAvPacket: the packets each was made of
  rr,        \* RrProducer
  report,    \* the last receiver report produced
  got,       \* history: the packets that arrived ...
  first,     \* ... the first of them, 0 before any
  feeds, srs, \* ... how many arrivals, and how many sender reports
  overrun    \* ... the list was full at some point

rtpVars == <<stream, list, size, done, out, rr, report, got, first, feeds, srs, overrun>>

Frames == DOMAIN stream.ends

\* The number of the first packet of frame f, of the last, and how many it has
FirstOf(f) == IF f = 1 THEN 1 ELSE stream.ends[f - 1] + 1
LastOf(f) == stream.ends[f]
SizeOf(f) == LastOf(f) - FirstOf(f) + 1

Packets == 1 .. Last(stream.ends)

\* What a packet carries: its sequence number, and where it stands in which frame
SeqNo(i) == (Start + i) % M
FrameOf(i) == CHOOSE f \in Frames : i \in FirstOf(f) .. LastOf(f)

\* calcPositionIfNeededAvc / Hevc
Position(i) ==
  LET f == FrameOf(i)
  IN IF f \in stream.unknown THEN "unknown"
     ELSE IF SizeOf(f) = 1 THEN "single"
     ELSE IF i = FirstOf(f) THEN "start"
     ELSE IF i = LastOf(f) THEN "end"
     ELSE "middle"

NoSeq == -1

RtpInit ==
  /\ stream \in Streams
  /\ list = <<>> /\ size = 0 /\ done = NoSeq /\ out = <<>>
  /\ rr = [base |-> -1, maxSeq |-> -1, cycles |-> 0, received |-> 0,
           expectedPrior |-> 0, receivedPrior |-> 0]
  /\ report = [lost |-> 0, fraction |-> 0]
  /\ got = {} /\ first = 0 /\ feeds = 0 /\ srs = 0 /\ overrun = FALSE

-----------------------------------------------------------------------------
(* Sequence numbers                                                        *)

CompareSeq(a, b) ==
  CASE a = b -> 0
    [] a > b -> IF a - b < M \div 2 THEN 1 ELSE -1
    [] a < b -> IF b - a < M \div 2 THEN -1 ELSE 1

\* The code's SubSeq (a name of the Sequences module)
SeqDiff(a, b) ==
  CASE a >= b -> IF a - b < M \div 4 THEN a - b ELSE (a - b) - M
    [] a < b  -> IF b - a < M \div 4 THEN -(b - a) ELSE M - (b - a)

-----------------------------------------------------------------------------
(* RtpPacketList and the unpackers, on a container c = [list, size, done,  *)
(* out]                                                                    *)

IsStale(c, i) == c.done # NoSeq /\ CompareSeq(SeqNo(i), c.done) <= 0

\* In front of the first packet that is not older, unless that one is the same
Insert(c, i) ==
  LET at == {k \in 1 .. Len(c.list) : CompareSeq(SeqNo(i), SeqNo(c.list[k])) # 1}
  IN IF at = {}
     THEN [c EXCEPT !.list = Append(@, i), !.size = @ + 1]
     ELSE IF SeqNo(c.list[Min(at)]) = SeqNo(i)
          THEN c
          ELSE [c EXCEPT !.list = InsertAt(@, Min(at), i), !.size = @ + 1]

Full(c) == c.size >= stream.maxSize

IsFirstSequential(c) ==
  /\ c.list # <<>>
  /\ c.done = NoSeq \/ SeqDiff(SeqNo(c.list[1]), c.done) = 1

\* The first n packets of the list have consecutive sequence numbers
Contiguous(c, n) ==
  \A k \in 2 .. n : SeqDiff(SeqNo(c.list[k]), SeqNo(c.list[k - 1])) = 1

\* The first n packets are one frame for RtpUnpackerAvcHevc: a packet that is a
\* frame (or several), or the fragments from the start to the end
AvcFrame(c, n) ==
  \/ n = 1 /\ Position(c.list[1]) = "single"
  \/ /\ n > 1 /\ Position(c.list[1]) = "start"
     /\ \A k \in 2 .. n - 1 : Position(c.list[k]) = "middle"
     /\ Position(c.list[n]) = "end"

\* ... for RtpUnpackerAac: every fragment carries the timestamp and the size of
\* its frame, and they are taken until that size is reached
AacFrame(c, n) ==
  /\ \A k \in 1 .. n : FrameOf(c.list[k]) = FrameOf(c.list[1])
  /\ n = SizeOf(FrameOf(c.list[1]))

\* How many packets at the head make up the frame that TryUnpackOne delivers, 0
\* if there is none
FrameAtHead(c) ==
  LET lens == {n \in 1 .. Len(c.list) :
                 /\ Contiguous(c, n)
                 /\ stream.codec = "avc" => AvcFrame(c, n)
                 /\ stream.codec = "aac" => AacFrame(c, n)}
  IN IF lens = {} THEN 0 ELSE Min(lens)

\* By how much the unpacker lowers Size for a frame of n packets: the AAC one
\* starts counting fragments at the second
Released(n) == IF stream.codec = "aac" /\ n > 1 THEN n - 1 ELSE n

TryUnpackOneNoDone(c) ==
  LET n == FrameAtHead(c)
  IN IF n = 0 THEN c
     ELSE [c EXCEPT !.list = SubSeq(@, n + 1, Len(@)), !.size = @ - Released(n),
                    !.out = Append(@, SubSeq(c.list, 1, n))]

TryUnpackOne(c) ==
  LET n == FrameAtHead(c)
  IN IF n = 0 THEN c
     ELSE [list |-> SubSeq(c.list, n + 1, Len(c.list)),
           size |-> c.size - Released(n),
           done |-> SeqNo(c.list[n]),
           out  |-> Append(c.out, SubSeq(c.list, 1, n))]

TryUnpackOneSequential(c) == IF IsFirstSequential(c) THEN TryUnpackOne(c) ELSE c

\* "as many sequential frames as possible": a frame takes at least one packet,
\* so as many attempts as the list has packets are enough
UnpackSequential(c) ==
  LET after[n \in 0 .. Len(c.list)] ==
        IF n = 0 THEN c ELSE TryUnpackOneSequential(after[n - 1])
  IN after[Len(c.list)]

PopFirst(c) == [c EXCEPT !.list = Tail(@), !.size = @ - 1]

\* The list is full: try one frame that is not sequential, drop one packet if
\* there is none.  Dropping leaves done as it is.
UnpackJump(c) ==
  LET d == TryUnpackOne(c)
  IN IF d = c THEN PopFirst(c) ELSE UnpackSequential(d)

Inserted(c, i) == IF IsStale(c, i) THEN c ELSE UnpackSequential(Insert(c, i))

\* RtpUnpackContainer.Feed: whether it had to give up on the missing packet
MustJump(c, i) ==
  /\ ~IsStale(c, i)
  /\ UnpackSequential(Insert(c, i)) = Insert(c, i)
  /\ Full(Insert(c, i))

FeedContainer(c, i) ==
  IF MustJump(c, i) THEN UnpackJump(Insert(c, i)) ELSE Inserted(c, i)

-----------------------------------------------------------------------------
(* RrProducer                                                              *)

FeedRtpPacket(r, s) ==
  LET newer == r.maxSeq # -1 /\ CompareSeq(s, r.maxSeq) > 0
  IN [r EXCEPT !.received = @ + 1,
               !.base = IF @ = -1 THEN s ELSE @,
               !.cycles = IF newer /\ s < r.maxSeq THEN @ + 1 ELSE @,
               !.maxSeq = IF @ = -1 \/ newer THEN s ELSE @]

\* extendedSeq - baseSeq + 1, unsigned
Expected(r) == (r.cycles * M + r.maxSeq - r.base + 1) % Word

Lost(r) == IF Expected(r) < r.received THEN 0 ELSE Expected(r) - r.received

\* lostInterval is unsigned: "<= 0" only holds of zero
Fraction(r) ==
  LET expectedInterval == (Expected(r) - r.expectedPrior) % Word
      receivedInterval == (r.received - r.receivedPrior) % Word
      lostInterval == (expectedInterval - receivedInterval) % Word
  IN IF expectedInterval = 0 \/ lostInterval = 0 THEN 0
     ELSE (((lostInterval * 256) % Word) \div expectedInterval) % 256

-----------------------------------------------------------------------------
Newest == IF got = {} THEN 0 ELSE Max(got)

\* The network delivers packet i now
CanArrive(i) ==
  /\ feeds < MaxFeeds
  /\ got # {} => i \in Newest - stream.window .. Newest + 1 + Gap
  /\ got = {} => i \in 1 .. 1 + Gap

\* BaseInSession.handleRtpPacket: the packet is counted, then unpacked
HandleRtpPacket(i) ==
  /\ CanArrive(i)
  /\ LET c == [list |-> list, size |-> size, done |-> done, out |-> out]
         d == FeedContainer(c, i)
     IN /\ list' = d.list /\ size' = d.size /\ done' = d.done /\ out' = d.out
        /\ overrun' = (overrun \/ MustJump(c, i))
  /\ rr' = FeedRtpPacket(rr, SeqNo(i))
  /\ got' = got \cup {i}
  /\ first' = IF first = 0 THEN i ELSE first
  /\ feeds' = feeds + 1
  /\ UNCHANGED <<stream, report, srs>>

\* BaseInSession.handleRtcpPacket, a sender report: RrProducer.Produce (which
\* answers nothing before the first packet)
HandleRtcpPacket ==
  /\ srs < MaxSrs /\ rr.base # -1
  /\ report' = [lost |-> Lost(rr), fraction |-> Fraction(rr)]
  /\ rr' = [rr EXCEPT !.expectedPrior = Expected(rr), !.receivedPrior = rr.received]
  /\ srs' = srs + 1
  /\ UNCHANGED <<stream, list, size, done, out, got, first, feeds, overrun>>

RtpNext ==
  \/ \E i \in Packets : HandleRtpPacket(i)
  \/ HandleRtcpPacket

RtpSpec == RtpInit /\ [][RtpNext]_rtpVars

-----------------------------------------------------------------------------
(* Properties                                                              *)

\* A stream that is reordered but loses nothing never fills the list, when the
\* list has room for the reordering window and one frame but a packet.  Not so
\* fragmented AAC, of whose every frame Size keeps one.
ReorderTolerated ==
  /\ 1 .. Newest - stream.window - 1 \subseteq got
  /\ stream.unknown = {}
  /\ stream.codec = "aac" => \A f \in Frames : SizeOf(f) = 1
  /\ \A f \in Frames : SizeOf(f) + stream.window - 1 < stream.maxSize
  => ~overrun

\* Until the list has been full for the first time, no frame is left out between two
\* that leave, and the one after the last to leave is still incomplete.  Before the
\* first has left nothing is waited for (doneSeqFlag): that is whichever was complete
\* first, and what was sent before it is stale when it comes.
NothingGivenUp ==
  ~overrun =>
    /\ \A a \in 2 .. Len(out) : Head(out[a]) = Last(out[a - 1]) + 1
    /\ out # <<>> =>
         \A f \in Frames \ stream.unknown :
           FirstOf(f) = Last(Last(out)) + 1 => ~(FirstOf(f) .. LastOf(f) \subseteq got)

\* Frames leave in the order they were sent and none leaves twice, and each is
\* made of exactly the packets the sender cut it into: no unpacker puts a frame
\* together around a hole, whatever the network does and although sequence
\* numbers wrap (what RtpUnpackContainer.Feed promises its callback).  And from the
\* first frame on none is given up because packets merely came in the wrong order.
FramesInOrder ==
  /\ \A a, b \in DOMAIN out : a < b => Last(out[a]) < Head(out[b])
  /\ \A a \in DOMAIN out :
       out[a] = [k \in 1 .. SizeOf(FrameOf(Head(out[a]))) |->
                   FirstOf(FrameOf(Head(out[a]))) + k - 1]
  /\ ReorderTolerated /\ NothingGivenUp

\* The receiver report expects exactly the packets from the first received to
\* the newest, late and duplicated ones and the wrap of the sequence number
\* notwithstanding (RrProducer.FeedRtpPacket).
ExpectedIsSpan == first # 0 => Expected(rr) = Newest - first + 1

\* What the receiver of RTP packets makes of a disordered stream is right: it hands on
\* whole frames in their order, from the first of them on all of them while the disorder
\* stays within the list's bound, and its receiver reports count the packets that were to
\* be expected.
ReceptionRight == FramesInOrder /\ ExpectedIsSpan

=============================================================================
