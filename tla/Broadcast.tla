----------------------------- MODULE Broadcast -----------------------------
(***************************************************************************)
(* Group.broadcastByRtmpMsg: how the messages of one publisher after the   *)
(* other reach the rtmp viewers (through the merge writer), the http-flv   *)
(* viewers and the rtmp push sessions of a group.                          *)
(*                                                                         *)
(* Every handler runs under group.mutex, so it is one action.  A message   *)
(* is its position in hist, the history of all messages, which is a record *)
(* the program does not keep.                                              *)
(*                                                                         *)
(* Abstractions: every message has size 1; the rtmp and the flv GOP cache  *)
(* are one, as they have the same contents where both are fed, and one     *)
(* that is not fed stays as it was made; a publisher is well formed.       *)
(***************************************************************************)
EXTENDS GopCache, FiniteSets

CONSTANTS
    Setups,      \* the configurations: gop_num, single_gop_max_frame_num, the caches
                 \* that are fed, and (bound) the sessions that may come
    RtmpSubs, FlvSubs, Pushes,   \* sessions
    MsgTypes,    \* the message types publishers send
    MergeSize,   \* merge_write_size, 0 for no merge writer
    MaxMsgs,     \* bound: length of hist
    MaxPubs      \* bound: publishers, one after the other

Sessions == RtmpSubs \cup FlvSubs \cup Pushes
Viewers == RtmpSubs \cup FlvSubs

ASSUME BroadcastAssumption ==
    /\ Setups \subseteq [gopNum : Nat, maxFrames : Nat, fed : SUBSET {"rtmp", "flv"},
                         joins : SUBSET Sessions]
    /\ \A c \in Setups : "rtmp" \notin c.fed => c.joins \cap RtmpSubs = {}
    /\ MsgTypes \subseteq HeaderTypes \cup {"key", "inter", "audio"}
    /\ MergeSize \in Nat /\ MaxMsgs \in Nat /\ MaxPubs \in Nat
    /\ RtmpSubs \cap FlvSubs = {} /\ Viewers \cap Pushes = {}

VARIABLES
    setup,      \* the configuration; it never changes
    hist,       \* what was broadcast: type and publisher of every message
    hasInput,   \* a publisher is the input of the group
    pub,        \* how many publishers there have been
    videoCodec, \* stat.VideoCodec is not empty
    cache,      \* rtmpGopCache, httpflvGopCache
    merge,      \* rtmpMergeWriter.bs
    sess,       \* of every session: joined, IsFresh, ShouldWaitVideoKeyFrame, sent
    since       \* of every session: the length of hist when it joined (a record)

vars == <<setup, hist, hasInput, pub, videoCodec, cache, merge, sess, since>>

Away == [joined |-> FALSE, fresh |-> TRUE, wait |-> TRUE, out |-> <<>>]

Init ==
    /\ setup \in Setups
    /\ hist = <<>>
    /\ hasInput = FALSE
    /\ pub = 0
    /\ videoCodec = FALSE
    /\ cache = NewGopCache(setup.gopNum, setup.maxFrames)
    /\ merge = <<>>
    /\ sess = [v \in Sessions |-> Away]
    /\ since = [v \in Sessions |-> 0]

-----------------------------------------------------------------------------
(* Inputs and outputs that come and go *)

AddIn ==
    /\ ~hasInput
    /\ pub < MaxPubs
    /\ hasInput' = TRUE
    /\ pub' = pub + 1
    /\ UNCHANGED <<setup, hist, videoCodec, cache, merge, sess, since>>

\* delIn clears the caches; the codec and the merge writer stay.
DelIn ==
    /\ hasInput
    /\ hasInput' = FALSE
    /\ cache' = Clear(cache)
    /\ UNCHANGED <<setup, hist, pub, videoCodec, merge, sess, since>>

\* A session that comes, in the state s.
Join(v, s) ==
    /\ v \in setup.joins
    /\ ~sess[v].joined
    /\ sess' = [sess EXCEPT ![v] = s]
    /\ since' = [since EXCEPT ![v] = Len(hist)]
    /\ UNCHANGED <<setup, hist, hasInput, pub, videoCodec, cache, merge>>

\* The cache of the protocol of v.  broadcastByRtmpMsg feeds rtmpGopCache, which the
\* push sessions share, only where an rtmp or rtmps server is configured, and
\* httpflvGopCache only where the http-flv server is (https-flv alone does not count).
Fed(v) == (IF v \in FlvSubs THEN "flv" ELSE "rtmp") \in setup.fed
CacheOf(v) == IF Fed(v) THEN cache ELSE NewGopCache(setup.gopNum, setup.maxFrames)
Greeting(c) == CachedHeaders(c) \o CachedGops(c)

AddSubNeverWaits(v) == Join(v, [Away EXCEPT !.joined = TRUE, !.wait = FALSE])

\* AddRtmpSubSession, AddHttpflvSubSession.
AddSub(v) == Join(v, [Away EXCEPT !.joined = TRUE, !.wait = videoCodec])

\* AddRtmpPushSession: a push session never waits.
AddPush(v) == Join(v, [Away EXCEPT !.joined = TRUE, !.wait = FALSE])

\* startRtmpPushLocked sends what is cached at once.
AddRelayPush(v) == Join(v, [joined |-> TRUE, fresh |-> FALSE, wait |-> FALSE,
                            out |-> Greeting(CacheOf(v))])

DelSession(v) ==
    /\ sess[v].joined
    /\ sess' = [sess EXCEPT ![v] = Away]
    /\ since' = [since EXCEPT ![v] = 0]
    /\ UNCHANGED <<setup, hist, hasInput, pub, videoCodec, cache, merge>>

-----------------------------------------------------------------------------
(* One message *)

Ready(s) == ~s.fresh /\ ~s.wait

\* The first message a session sees: the headers and the cached GOPs, which
\* begin with a key frame.
GreetWithGops(c, s) ==
    IF ~s.fresh THEN s
    ELSE [s EXCEPT !.fresh = FALSE,
                   !.wait = @ /\ GetGopCount(c) = 0,
                   !.out = @ \o CachedGops(c)]

Greet(c, s) ==
    IF ~s.fresh THEN s
    ELSE [s EXCEPT !.fresh = FALSE,
                   !.wait = @ /\ GetGopCount(c) = 0,
                   !.out = @ \o Greeting(c)]

StopWaiting(s, type) == [s EXCEPT !.wait = @ /\ type # "key"]

FlushesForKeyOnly(type) ==
    type = "key" /\ \E v \in RtmpSubs : sess[v].joined /\ sess[v].wait

\* The merge writer is emptied to the sessions that were ready before some
\* session is greeted or stops waiting.
MustFlush(type) ==
    \E v \in RtmpSubs :
        sess[v].joined /\ (sess[v].fresh \/ (sess[v].wait /\ type = "key"))

ToRtmpSub(v, type, flushed, written) ==
    LET s0 == IF Ready(sess[v]) THEN [sess[v] EXCEPT !.out = @ \o flushed] ELSE sess[v]
        s1 == StopWaiting(Greet(CacheOf(v), s0), type)
    IN  IF Ready(s1) THEN [s1 EXCEPT !.out = @ \o written] ELSE s1

ToFlvSub(v, type, n) ==
    LET s1 == StopWaiting(Greet(CacheOf(v), sess[v]), type)
    IN  IF Ready(s1) THEN [s1 EXCEPT !.out = Append(@, n)] ELSE s1

ToPush(v, n) == LET s1 == Greet(CacheOf(v), sess[v]) IN [s1 EXCEPT !.out = Append(@, n)]

SeesVideoCodec(type) == videoCodec \/ type = "vsh"

Broadcast(type) ==
    LET n == Len(hist) + 1
        viewed == \E v \in RtmpSubs : sess[v].joined
        flushed == IF MustFlush(type) THEN merge ELSE <<>>
        buffered == (IF MustFlush(type) THEN <<>> ELSE merge)
                       \o (IF viewed THEN <<n>> ELSE <<>>)
        full == viewed /\ Len(buffered) >= MergeSize
        written == IF full THEN buffered ELSE <<>>
        Served(v) == IF v \in RtmpSubs THEN ToRtmpSub(v, type, flushed, written)
                     ELSE IF v \in FlvSubs THEN ToFlvSub(v, type, n)
                     ELSE ToPush(v, n)
    IN  /\ hist' = Append(hist, [type |-> type, pub |-> pub])
        /\ sess' = [v \in Sessions |-> IF sess[v].joined THEN Served(v) ELSE sess[v]]
        /\ merge' = IF full THEN <<>> ELSE buffered
        /\ cache' = Feed(cache, type, n)
        /\ videoCodec' = SeesVideoCodec(type)
        /\ UNCHANGED <<setup, hasInput, pub, since>>

\* A publisher sends its sequence header before any frame, and starts its
\* video with a key frame (the comment in AddRtmpSubSession relies on it).
Sent(type) == \E i \in 1..Len(hist) : hist[i] = [type |-> type, pub |-> pub]
WellFormed(type) ==
    /\ type = "key" => Sent("vsh")
    /\ type = "inter" => Sent("key")

OnReadRtmpAvMsg(type) ==
    /\ hasInput
    /\ Len(hist) < MaxMsgs
    /\ WellFormed(type)
    /\ Broadcast(type)

Next ==
    \/ AddIn
    \/ DelIn
    \/ \E v \in Viewers : AddSub(v)
    \/ \E v \in Pushes : AddPush(v) \/ AddRelayPush(v)
    \/ \E v \in Sessions : DelSession(v)
    \/ \E type \in MsgTypes : OnReadRtmpAvMsg(type)

Spec == Init /\ [][Next]_vars

-----------------------------------------------------------------------------
(* Properties *)

Index == 1..Len(hist)

IsFrame(n) == hist[n].type \notin HeaderTypes
IsVideo(n) == hist[n].type \in {"key", "inter"}
IsKey(n) == hist[n].type = "key"

Ascending(s) == \A i, j \in 1..Len(s) : i < j => s[i] < s[j]
Elements(s) == {s[i] : i \in 1..Len(s)}

\* The GOP of the present input that begins with its key frame n
IsGopStart(n) == hist[n] = [type |-> "key", pub |-> pub]
GopFrom(n) == {m \in Index : /\ n <= m /\ IsFrame(m)
                             /\ \A k \in n + 1..m : ~IsGopStart(k)}

Gops == [i \in 1..GetGopCount(cache) |-> GetGopDataAt(cache, i - 1)]

\* s begins like the GOP from n and lacks nothing of it but what is beyond the
\* limit: single_gop_max_frame_num itself is exceeded by one.
HoldsGop(s, n) ==
    /\ s # <<>> /\ s[1] = n /\ Ascending(s) /\ Elements(s) \subseteq GopFrom(n)
    /\ cache.maxFrames # 0 => Len(s) <= cache.maxFrames + 1
    /\ \A m \in GopFrom(n) \ Elements(s) :
          cache.maxFrames # 0 /\ Len(s) = cache.maxFrames + 1 /\ s[Len(s)] < m

\* The ring holds the last gopNum GOPs of the present input, each cut off after
\* its limit, in order, whatever the ring has been through.
CacheIsRecentGops ==
    /\ ~hasInput => Gops = <<>>
    /\ \A i \in 1..Len(Gops) : IsGopStart(Gops[i][1]) /\ HoldsGop(Gops[i], Gops[i][1])
    /\ \A i, j \in 1..Len(Gops) : i < j => Gops[i][1] < Gops[j][1]
    /\ \A n \in Index :
          hasInput /\ IsGopStart(n) =>
              \/ \E i \in 1..Len(Gops) : Gops[i][1] = n
              \/ Len(Gops) = cache.gopNum /\ \A i \in 1..Len(Gops) : n < Gops[i][1]

\* Each frame of q once and in the order broadcast, and none left out after the first
Unbroken(q) ==
    /\ \A i, j \in 1..Len(q) : i < j /\ IsFrame(q[i]) /\ IsFrame(q[j]) => q[i] < q[j]
    /\ \A i \in 1..Len(q), n \in Index :
          IsFrame(q[i]) /\ IsFrame(n) /\ q[i] < n => n \in Elements(q)

\* Once a session got its first frame it gets every later one, each once and
\* in order, except what the merge writer still holds: joining from the cache
\* neither repeats nor skips a frame.  (A GOP cut at its limit does skip.)
Due(v) == IF v \in RtmpSubs THEN sess[v].out \o merge ELSE sess[v].out
NoFrameTwiceOrSkipped ==
    cache.maxFrames = 0 =>
        \A v \in Sessions :
            (\E i \in 1..Len(sess[v].out) : IsFrame(sess[v].out[i])) => Unbroken(Due(v))

\* Every video frame follows, in what the session was sent, a video sequence
\* header of the same publisher.
DecodableFor(v) ==
    \A i \in 1..Len(sess[v].out) :
        IsVideo(sess[v].out[i]) =>
            \E j \in 1..(i - 1) : /\ hist[sess[v].out[j]].type = "vsh"
                                  /\ hist[sess[v].out[j]].pub = hist[sess[v].out[i]].pub

\* The first video frame of a viewer is a key frame, whether its cache is fed or
\* not, also of one that joined before any video was published or between two
\* publishers; and push targets, static or of the relay API, get the sequence
\* header of a publisher before its video, if an rtmp server is configured.
JoinsDecodable ==
    /\ \A v \in Viewers : \A i \in 1..Len(sess[v].out) :
         IsVideo(sess[v].out[i]) => \E j \in 1..i : IsKey(sess[v].out[j])
    /\ \A v \in Pushes : Fed(v) => DecodableFor(v)

\* v joined after a header of an earlier publisher and before that of p: it waits for
\* a key frame from the start, and what is broadcast meanwhile, p's header too,
\* never reaches it.
JoinedBetween(v, p) ==
    /\ \E n \in 1..since[v] : hist[n].type = "vsh"
    /\ \A n \in 1..since[v] : hist[n].type = "vsh" => hist[n].pub # p

\* A viewer whose cache is fed is sent the sequence header of a publisher before its
\* video, from the cache or live, with one exception: the publisher whose video is
\* the first the viewer gets, if the viewer joined between two of them.
ViewersGetHeaders ==
    \A v \in Viewers : Fed(v) => \A i \in 1..Len(sess[v].out) :
        LET out == sess[v].out
            p == hist[out[i]].pub
        IN  IsVideo(out[i]) =>
              \/ \E j \in 1..(i - 1) : hist[out[j]] = [type |-> "vsh", pub |-> p]
              \/ /\ JoinedBetween(v, p)
                 /\ \A j \in 1..(i - 1) : IsVideo(out[j]) => hist[out[j]].pub = p

=============================================================================
