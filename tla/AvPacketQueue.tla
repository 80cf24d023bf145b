---------------------------- MODULE AvPacketQueue ----------------------------
(***************************************************************************)
(* pkg/rtsp AvPacketQueue: the filter an RTSP pull puts between its RTP    *)
(* unpackers and the group when it plays faster than real time (scale > 1). *)
(* It rebases the timestamps of each track to 0, divides their intervals   *)
(* by the scale, bridges jumps, and interleaves audio and video by         *)
(* timestamp through two bounded queues.                                   *)
(*                                                                         *)
(* Only intervals between the timestamps of one track matter, so a packet  *)
(* is fed as its track and its distance from the previous packet of that   *)
(* track.  Feed is one atomic action: interleaved RTP reads all packets on *)
(* one goroutine.                                                          *)
(***************************************************************************)
EXTENDS Integers, Sequences, SequencesExt

CONSTANTS
  Scale,       \* playback speed
  MaxQueue,    \* maxQueueSize
  MaxIter,     \* maxIterations of the interleaving loop of one Feed
  Rotate,      \* how far back a timestamp must jump to count as a rotation
  MaxInterval, \* the longest interval that is believed
  Intervals,   \* the distances between packets of one track
  MaxQueued     \* bound: packets fed

ASSUME QueueAssumption ==
  /\ Scale \in Nat \ {0} /\ {MaxQueue, MaxIter, Rotate, MaxInterval} \subseteq Nat \ {0}
  /\ Intervals \subseteq Int /\ MaxQueued \in Nat

Tracks == {"audio", "video"}
NoTs == -1

VARIABLES
  queue,     \* audioQueue and videoQueue: timestamps
  prevMod,   \* the last timestamp given to a packet of the track, NoTs at first
  prevInt,   \* prevIntervalTs
  handed,    \* what the last Feed handed to onAvPacket, in order
  last,      \* history: the largest timestamp handed on, by track
  fed,       \* history: packets fed
  flushed,   \* history: a queue filled up and was emptied
  forced     \* history: the interleaving loop reached its bound

queueVars == <<queue, prevMod, prevInt, handed, last, fed, flushed, forced>>

QueueInit ==
  /\ queue = [t \in Tracks |-> <<>>]
  /\ prevMod = [t \in Tracks |-> NoTs] /\ prevInt = [t \in Tracks |-> NoTs]
  /\ handed = <<>> /\ last = [t \in Tracks |-> NoTs]
  /\ fed = 0 /\ flushed = FALSE
  /\ forced = FALSE

-----------------------------------------------------------------------------
\* A float division cut to an integer, which truncates towards zero
Scaled(i) == IF i >= 0 THEN i \div Scale ELSE -((-i) \div Scale)

AtLeastOne(i) == IF i <= 0 THEN 1 ELSE i

AdjustedIntervalKeepsSign(t, interval) == Scaled(interval)

\* The interval adjustTsHandleRotate uses for a packet that is no rotation
AdjustedInterval(t, interval) ==
  LET raw == IF interval > MaxInterval \/ interval < -MaxInterval
             THEN AtLeastOne(prevInt[t])
             ELSE interval
      adj == Scaled(raw)
  IN CASE adj < 0 -> AtLeastOne(prevInt[t])
       [] adj = 0 /\ raw > 0 -> 1
       [] OTHER -> adj

Clamp(ts) == IF ts < 0 THEN 0 ELSE ts

\* adjustTsHandleRotate: the new timestamp of the packet
AdjustTs(t, interval) ==
  CASE prevMod[t] = NoTs -> 0
    [] prevMod[t] # NoTs /\ interval < -Rotate ->
         Clamp(prevMod[t] + Scaled(prevInt[t]))
    [] OTHER -> Clamp(prevMod[t] + AdjustedInterval(t, interval))

\* ... and the interval it remembers (a first packet and a rotation keep it)
AdjustInt(t, interval) ==
  IF prevMod[t] = NoTs \/ interval < -Rotate THEN prevInt[t]
  ELSE AdjustedInterval(t, interval)

\* On q = [audio, video, out]: hand the front of queue t to onAvPacket
PopFront(q, t) ==
  [q EXCEPT ![t] = Tail(@), !.out = Append(@, [track |-> t, ts |-> q[t][1]])]

BothWaiting(q) == q.audio # <<>> /\ q.video # <<>>

\* The track whose front is older by more than 1; video when they are close
Older(q) == IF q.audio[1] - q.video[1] < -1 THEN "audio" ELSE "video"

\* The loop of Feed, at most MaxIter times round
InterleaveFronts(q) ==
  FoldLeft(LAMBDA r, i : IF BothWaiting(r) THEN PopFront(r, Older(r)) ELSE r,
           q, [i \in 1 .. MaxIter |-> i])

\* The loop ended although both queues hold packets
BoundReached(q) ==
  /\ Len(InterleaveFronts(q).out) >= MaxIter
  /\ BothWaiting(InterleaveFronts(q))

\* The loop was left because of its bound: one video packet is forced out
ForcePop(q) ==
  LET r == InterleaveFronts(q)
  IN IF BoundReached(q) THEN PopFront(r, "video") ELSE r

\* naza's circularqueue.Full
IsFull(s) == Len(s) >= MaxQueue

\* popAllVideo / popAllAudio of the queue that filled up, video first.  (Feed asserts
\* that the other one is empty; it need not be when the loop met its bound.)
PopAll(q) ==
  LET t == IF IsFull(q.video) THEN "video" ELSE "audio"
  IN IF ~IsFull(q.video) /\ ~IsFull(q.audio) THEN q
     ELSE [q EXCEPT ![t] = <<>>,
                    !.out = @ \o [i \in 1 .. Len(q[t]) |-> [track |-> t, ts |-> q[t][i]]]]

\* A full queue drops the packet (its timestamps have moved on)
Enqueue(t, ts) ==
  IF IsFull(queue[t]) THEN queue ELSE [queue EXCEPT ![t] = Append(@, ts)]

Feed(t, interval) ==
  /\ fed < MaxQueued
  /\ LET in == Enqueue(t, AdjustTs(t, interval))
         p  == [audio |-> in["audio"], video |-> in["video"], out |-> <<>>]
         q  == ForcePop(p)
         r  == PopAll(q)
     IN /\ queue' = [u \in Tracks |-> r[u]]
        /\ handed' = r.out
        /\ flushed' = (flushed \/ r # q)
        /\ forced' = (forced \/ BoundReached(p))
        /\ last' = [u \in Tracks |->
                      FoldLeft(LAMBDA m, x : IF x.track = u /\ x.ts > m THEN x.ts ELSE m,
                               last[u], r.out)]
  /\ prevMod' = [prevMod EXCEPT ![t] = AdjustTs(t, interval)]
  /\ prevInt' = [prevInt EXCEPT ![t] = AdjustInt(t, interval)]
  /\ fed' = fed + 1

QueueNext == \E t \in Tracks, i \in Intervals : Feed(t, i)

QueueSpec == QueueInit /\ [][QueueNext]_queueVars

-----------------------------------------------------------------------------
(* Properties                                                              *)

\* The packet handed on k-th by this Feed is older than none of the other
\* track's that left before it, up to the 1 ms under which the filter takes
\* two timestamps for equal.
InOrder(k) ==
  \A u \in Tracks \ {handed'[k].track} :
    /\ last[u] <= handed'[k].ts + 1
    /\ \A j \in 1 .. k - 1 : handed'[j].track = u => handed'[j].ts <= handed'[k].ts + 1

\* Whatever the sender's timestamps do, forwards, backwards or round, the
\* timestamps of one track never decrease, in the queue and from one Feed to the
\* next (adjustTsHandleRotate), and audio and video leave interleaved by
\* timestamp as long as no queue filled up and the loop of Feed never met its
\* bound.
MergedByTime ==
  [][/\ \A u \in Tracks :
          LET ts == SelectSeq(handed', LAMBDA p : p.track = u)
          IN /\ ts # <<>> => ts[1].ts >= last[u]
             /\ \A k \in 1 .. Len(ts) - 1 : ts[k].ts <= ts[k + 1].ts
     /\ ~flushed' /\ ~forced' => \A k \in 1 .. Len(handed') : InOrder(k)]_queueVars

=============================================================================
