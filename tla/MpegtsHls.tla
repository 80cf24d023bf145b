----------------------------- MODULE MpegtsHls -----------------------------
(***************************************************************************)
(* remux.Rtmp2MpegtsRemuxer in front of hls.Muxer: rtmp messages wait in a *)
(* probe queue until both tracks are known, audio is collected, frames get *)
(* their boundary mark and are cut into HLS fragments.  One message runs   *)
(* through everything in one call under group.mutex.  Opening a fragment   *)
(* calls back into the remuxer, whose collected audio then enters the new  *)
(* fragment before the frame that opened it.                               *)
(*                                                                         *)
(* Abstraction: a video message is one frame.                              *)
(***************************************************************************)
EXTENDS HlsMuxer, FiniteSets

CONSTANTS
    ProbeSize,                    \* calcFragmentHeaderQueueSize
    DelayByAudio, DelayByVideo,   \* maxAudioCacheDelayByAudio, ...ByVideo
    Situations,   \* what may happen to a muxer, one of them chosen at the start:
                  \*   types, deltas: what the publisher sends, how time advances,
                  \*   openResults: whether a file can be created,
                  \*   cleanup: the configured clean-up mode
    MaxMsgs       \* bound: messages

ASSUME MpegtsHlsAssumption ==
    /\ {ProbeSize, DelayByAudio, DelayByVideo, MaxMsgs} \subseteq Nat
    /\ \A x \in Situations :
         /\ x.types \subseteq {"vsh", "ash", "key", "inter", "aac", "opus"}
         /\ x.deltas \subseteq Int /\ x.openResults \subseteq BOOLEAN
         /\ x.cleanup \in {"never", "inTheEnd", "asap"}

VARIABLES
    situation, \* the situation chosen
    msgs,    \* history: type and timestamp of every message
    s        \* the remuxer r, the muxer m, and whether they are in use

vars == <<situation, msgs, s>>

NoBase == -1    \* math.MaxUint64

NewRemuxer ==
    [queue |-> <<>>, done |-> FALSE, spspps |-> FALSE, asc |-> FALSE,
     audioCache |-> <<>>, firstPts |-> 0, opened |-> FALSE,
     base |-> [video \in BOOLEAN |-> NoBase],  \* basicVideoDts, basicAudioDts
     popped |-> <<>>,     \* history: what was given to the muxer
     openers |-> <<>>]    \* history: the frame that opened each file

Init ==
    /\ situation \in Situations /\ msgs = <<>>
    /\ s = [r |-> NewRemuxer, m |-> NewMuxer(situation.cleanup), openOk |-> TRUE, alive |-> TRUE]

IsVideo(type) == type \in {"vsh", "key", "inter"}

-----------------------------------------------------------------------------
(* Rtmp2MpegtsRemuxer *)

AnyVideoIsBoundary(r, f) == f.video \/ ~r.spspps

\* A key frame is a boundary only when no audio is expected, nothing was cut
\* yet, or some audio is collected to begin the fragment with.
Boundary(r, f) ==
    IF f.video THEN f.key /\ (~r.asc \/ ~r.opened \/ r.audioCache # <<>>)
               ELSE ~r.spspps

\* timestampFilter.Do: each track counts from its own first frame, and a
\* timestamp below that one stays as it is.
Base(r, f) == IF r.base[f.video] = NoBase THEN f.ts ELSE r.base[f.video]
Do(r, f) == IF f.ts < Base(r, f) THEN f.ts ELSE f.ts - Base(r, f)

\* onFrame up to the muxer's decision to open a fragment.
Emitting(r, f) ==
    [r EXCEPT !.base[f.video] = Base(r, f), !.opened = @ \/ Boundary(r, f),
              !.popped = @ \o f.data]

NoteOpener(st, e, f) ==
    IF Len(e.m.content) > Len(st.m.content)
    THEN [e EXCEPT !.r.openers = Append(@, f)] ELSE e

Emit(st, f) ==
    NoteOpener(st,
               UpdateFragment([st EXCEPT !.r = Emitting(@, f)],
                              [f EXCEPT !.ts = Do(st.r, f)], Boundary(st.r, f)),
               f)

AudioFrame(st) ==
    [video |-> FALSE, key |-> FALSE, ts |-> st.r.firstPts, data |-> st.r.audioCache]

FlushAudioTwice(st) ==
    IF st.r.audioCache = <<>> THEN st
    ELSE WriteFrame(Emit(st, AudioFrame(st)), AudioFrame(st))

\* FlushAudio called back when a fragment opens.  The cache is emptied before
\* the frame is emitted, so a fragment this frame opens finds nothing to flush.
FlushAudioInside(st) ==
    IF st.r.audioCache = <<>> THEN st
    ELSE WriteFrame(Emit([st EXCEPT !.r.audioCache = <<>>], AudioFrame(st)),
                    AudioFrame(st))

\* The frame that opens a fragment is written after the audio collected so far.
OnFrame(st, f) ==
    LET emitted == Emit(st, f)
        fragmentOpened == Len(emitted.m.content) > Len(st.m.content)
    IN  WriteFrame(IF fragmentOpened THEN FlushAudioInside(emitted) ELSE emitted, f)

FlushAudio(st) ==
    IF st.r.audioCache = <<>> THEN st
    ELSE OnFrame([st EXCEPT !.r.audioCache = <<>>], AudioFrame(st))

FlushIfOlder(st, delay, ts) ==
    IF st.r.audioCache # <<>> /\ st.r.firstPts + delay < ts THEN FlushAudio(st) ELSE st

\* A key frame without parameter sets is dropped.
FeedVideo(st, n, msg) ==
    IF msg.type = "vsh" THEN [st EXCEPT !.r.spspps = TRUE]
    ELSE IF msg.type = "key" /\ ~st.r.spspps THEN st
    ELSE OnFrame(FlushIfOlder(st, DelayByVideo, msg.ts),
                 [video |-> TRUE, key |-> msg.type = "key", ts |-> msg.ts,
                  data |-> <<n>>])

Collect(st, n, pts) ==
    [st EXCEPT !.r.firstPts = IF st.r.audioCache = <<>> THEN pts ELSE @,
               !.r.audioCache = Append(@, n)]

\* Opus is never collected; aac needs its sequence header.
FeedAudio(st, n, msg) ==
    CASE msg.type = "ash" -> [st EXCEPT !.r.asc = TRUE]
      [] msg.type = "opus" ->
           FlushAudio([st EXCEPT !.r.firstPts = msg.ts, !.r.audioCache = Append(@, n)])
      [] msg.type = "aac" ->
           IF ~st.r.asc THEN st
           ELSE Collect(FlushIfOlder(st, DelayByAudio, msg.ts), n, msg.ts)

OnPop(st, n, msg) ==
    IF IsVideo(msg.type) THEN FeedVideo(st, n, msg) ELSE FeedAudio(st, n, msg)

\* What op makes of start, handed the members of q one after the other.
Through(op(_, _), start, q) ==
    LET after[k \in 0..Len(q)] == IF k = 0 THEN start ELSE op(after[k - 1], q[k])
    IN  after[Len(q)]

Drain(st, all) ==
    Through(LAMBDA acc, n : OnPop(acc, n, all[n]),
            [st EXCEPT !.r.done = TRUE, !.r.queue = <<>>], st.r.queue)

\* rtmp2MpegtsFilter.Push of the last message of all.
Push(st, all) ==
    LET n == Len(all)
        queued == [st EXCEPT !.r.queue = Append(@, n)]
        has(video) == \E i \in Range(queued.r.queue) : IsVideo(all[i].type) = video
    IN  IF st.r.done THEN OnPop(st, n, all[n])
        ELSE IF (has(TRUE) /\ has(FALSE)) \/ Len(queued.r.queue) >= ProbeSize
        THEN Drain(queued, all)
        ELSE queued

-----------------------------------------------------------------------------
(* FeedRtmpMessage; a file may fail to be created during the call *)
FeedRtmpMessage(type, delta, openOk) ==
    LET now == IF msgs = <<>> THEN 0 ELSE msgs[Len(msgs)].ts
        all == Append(msgs, [type |-> type, ts |-> now + delta])
    IN  /\ s.alive
        /\ Len(msgs) < MaxMsgs
        /\ now + delta >= 0
        /\ msgs' = all
        /\ s' = [Push([s EXCEPT !.openOk = openOk], all) EXCEPT !.openOk = TRUE]
        /\ UNCHANGED situation

\* delIn disposes the remuxer, then the muxer.
DelIn(openOk) ==
    /\ s.alive
    /\ LET flushed == FlushAudio([s EXCEPT !.openOk = openOk])
       IN  s' = [flushed EXCEPT !.m = CloseFragment(@, TRUE), !.alive = FALSE,
                                !.openOk = TRUE]
    /\ UNCHANGED <<situation, msgs>>

Next ==
    \/ \E type \in situation.types, delta \in situation.deltas,
          openOk \in situation.openResults :
          FeedRtmpMessage(type, delta, openOk)
    \/ \E openOk \in situation.openResults : DelIn(openOk)

Spec == Init /\ [][Next]_vars

-----------------------------------------------------------------------------
(* Properties *)

Live == s.m.playlists[Len(s.m.playlists)]
Files == 1..Len(s.m.content)
OpenFile == IF s.m.opened THEN {CurrFrag(s.m).file} ELSE {}
Closed == Files \ OpenFile

\* The live playlist names at most FragmentNum fragments, all complete, in the
\* order they were made without a gap, ending with the last one closed, and its
\* media sequence number counts those that left it; and whoever fetched one of
\* the last DeleteThreshold playlists still finds every fragment it names on
\* disk, in every clean-up mode.
PlaylistIsNewestClosed ==
    /\ s.m.playlists # <<>> =>
        /\ \A i \in 1..Len(Live.files) :
             /\ Live.files[i] \in Closed
             /\ Cardinality({f \in Closed : f <= Live.files[i]}) = Live.mediaSeq + i
        /\ Live.mediaSeq + Len(Live.files) = Cardinality(Closed)
        /\ Len(Live.files) <= FragmentNum
    /\ \A i \in 1..Len(s.m.playlists) :
        i >= Len(s.m.playlists) - DeleteThreshold
            => Range(s.m.playlists[i].files) \subseteq s.m.disk

\* The messages in the files, file by file
SameTrack(x, y) == IsVideo(msgs[x].type) = IsVideo(msgs[y].type)
Places == UNION {{i} \X DOMAIN s.m.content[i] : i \in Files}
Before(p, q) == p[1] < q[1] \/ (p[1] = q[1] /\ p[2] < q[2])
At(p) == s.m.content[p[1]][p[2]]

\* Once the first fragment is open, each track is in the files exactly as the
\* remuxer emitted it: no frame is lost, repeated or out of order, also when
\* opening a fragment makes the remuxer emit its collected audio from within.
\* (While a file cannot be created, everything is dropped.)
NothingLostOnceOpen ==
    FALSE \notin situation.openResults =>
        /\ \A p, q \in Places : Before(p, q) /\ SameTrack(At(p), At(q)) => At(p) < At(q)
        /\ \A p \in Places :
             /\ At(p) \in Range(s.r.popped)
             /\ \A n \in Range(s.r.popped) :
                  SameTrack(At(p), n) /\ At(p) < n => \E q \in Places : At(q) = n

Track(q, video) == SelectSeq(q, LAMBDA n : IsVideo(msgs[n].type) = video)
AfterHeader(i) == \E k \in 1..Len(msgs) :
    msgs[k].type = "vsh" /\ \A n \in Range(s.m.content[i]) : k < n

\* Why a fragment may be cut before any frame: its opening frame is far ahead of
\* the frame that opened the fragment before, or behind it; or the two are of
\* different tracks, whose clocks start separately; or one of them is older than
\* its track's first frame, and not counted from that one.
Opener(i) == s.r.openers[i]
Jumped(i) == \/ Opener(i).ts - Opener(i - 1).ts > ForceSplit
             \/ Opener(i - 1).ts - Opener(i).ts > NegForceSplit
ClocksDiffer(i) == Opener(i).video /\ ~Opener(i - 1).video
BeforeBase(i) == \E k \in {i - 1, i} : Opener(k).ts < s.r.base[Opener(k).video]

\* The video of a fragment that is all after a video sequence header starts with
\* a key frame.  Only a cut by shouldForceSplitByTimestamp can break it: at a
\* jump of the timestamps, at the first video after fragments of audio alone,
\* and around a frame older than the first of its track.
StartsWithKey ==
    \A i \in Files :
        LET video == Track(s.m.content[i], TRUE)
        IN  video # <<>> /\ AfterHeader(i)
               => \/ msgs[Head(video)].type = "key"
                  \/ i > 1 /\ (Jumped(i) \/ ClocksDiffer(i) \/ BeforeBase(i))

=============================================================================
