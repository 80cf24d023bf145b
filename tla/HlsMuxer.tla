------------------------------ MODULE HlsMuxer ------------------------------
(***************************************************************************)
(* hls.Muxer as operators on its state: fragments cut at boundaries, the   *)
(* ring of fragment infos, playlists and the deletion of old files.        *)
(* Module MpegtsHls feeds it.                                              *)
(*                                                                         *)
(* Abstractions: a file is its number in the order of creation, a frame    *)
(* the positions of the messages in it; time is counted in units.          *)
(***************************************************************************)
EXTENDS Integers, Sequences, SequencesExt

CONSTANTS
    FragmentNum, DeleteThreshold,
    FragmentDuration,    \* fragment_duration_ms in units of time
    MaxFragmentDuration,
    ForceSplit,          \* maxfraglen: ten fragment durations
    NegForceSplit        \* negMaxfraglen: one second

ASSUME HlsMuxerAssumption ==
    /\ FragmentNum \in Nat \ {0} /\ DeleteThreshold \in Nat
    /\ {FragmentDuration, MaxFragmentDuration, ForceSplit, NegForceSplit} \subseteq Nat

FragsCapacity == FragmentNum + DeleteThreshold + 1
NoFrag == [file |-> 0, id |-> 0, duration |-> 0, discont |-> FALSE]

\* cleanup is the configured mode: "never", "inTheEnd" or "asap"
NewMuxer(cleanup) ==
    [cleanup |-> cleanup, opened |-> FALSE, fragTs |-> 0, fragLastTs |-> 0, nfrags |-> 0, frag |-> 0,
     frags |-> [i \in 0..(FragsCapacity - 1) |-> NoFrag],
     videoSeen |-> FALSE, forceCutOnNextKey |-> FALSE,
     forceCutOnNextAudioBoundary |-> FALSE,
     content |-> <<>>,    \* what was written to each file
     disk |-> {},         \* the files that exist
     playlists |-> <<>>,  \* what the live playlist was, version by version
     record |-> <<>>]     \* the record playlist

-----------------------------------------------------------------------------
(* The ring *)

RingPos(m, n) == (m.frag + n) % FragsCapacity
GetFrag(m, n) == m.frags[RingPos(m, n)]
CurrFrag(m) == GetFrag(m, m.nfrags)

IncrFrag(m) ==
    IF m.nfrags = FragmentNum THEN [m EXCEPT !.frag = @ + 1]
                              ELSE [m EXCEPT !.nfrags = @ + 1]

-----------------------------------------------------------------------------
(* Closing a fragment *)

\* updateFragLastTs, and the duration it implies.
Advance(m, ts) ==
    LET last == IF ts > m.fragLastTs THEN ts ELSE m.fragLastTs
        span == last - m.fragTs
    IN  [m EXCEPT !.fragLastTs = last,
                  !.frags[RingPos(m, m.nfrags)].duration = IF span > @ THEN span ELSE @]

WritePlaylistWithNext(m, isLast) ==
    [m EXCEPT !.playlists = Append(@,
        [files |-> [i \in 1..m.nfrags |-> GetFrag(m, i).file],
         mediaSeq |-> m.frag, ended |-> isLast])]

WritePlaylist(m, isLast) ==
    [m EXCEPT !.playlists = Append(@,
        [files |-> [i \in 1..m.nfrags |-> GetFrag(m, i - 1).file],
         mediaSeq |-> m.frag, ended |-> isLast])]

\* getDeleteFrag: what the ring position to be used next still remembers.
DeleteStale(m) ==
    IF m.cleanup = "asap" THEN [m EXCEPT !.disk = @ \ {CurrFrag(m).file}]
    ELSE m

WriteRecordPlaylist(m) ==
    IF m.cleanup = "asap" THEN m
    ELSE [m EXCEPT !.record = Append(@, GetFrag(m, m.nfrags - 1).file)]

CloseFragment(m, isLast) ==
    IF ~m.opened THEN m
    ELSE LET closed == IncrFrag([Advance(m, m.fragLastTs) EXCEPT !.opened = FALSE])
         IN  DeleteStale(WriteRecordPlaylist(WritePlaylist(closed, isLast)))

-----------------------------------------------------------------------------
(* Opening one.  st holds the muxer (st.m) and what its observer needs.     *)

\* Whether the file can be created is st.openOk; the muxer stays closed when
\* it cannot.
OpenFragment(st, ts, discont) ==
    LET m == st.m
        file == Len(m.content) + 1
        new == [file |-> file, id |-> m.frag + m.nfrags, duration |-> 0,
                discont |-> discont]
    IN  IF ~st.openOk THEN st
        ELSE [st EXCEPT !.m = [m EXCEPT !.opened = TRUE,
                                        !.content = Append(@, <<>>),
                                        !.disk = @ \cup {file},
                                        !.frags[RingPos(m, m.nfrags)] = new,
                                        !.fragTs = ts, !.fragLastTs = ts]]

ShouldForceSplitByTimestamp(m, ts) ==
    ts - m.fragTs > ForceSplit \/ m.fragTs - ts > NegForceSplit

DrivesFragmentTimeline(m, f) == f.video \/ ~m.videoSeen

\* FeedMpegts up to the write: the frame may close the fragment and open the
\* next one.
UpdateFragment(st0, f, boundary) ==
    LET m0 == IF f.video THEN [st0.m EXCEPT !.videoSeen = TRUE] ELSE st0.m
        m1 == IF m0.opened THEN Advance(m0, f.ts) ELSE m0
        forced == /\ m1.opened /\ DrivesFragmentTimeline(m1, f)
                  /\ ShouldForceSplitByTimestamp(m1, f.ts)
        tooLong == m1.opened /\ CurrFrag(m1).duration >= MaxFragmentDuration
        m2 == IF forced THEN [m1 EXCEPT !.forceCutOnNextKey = FALSE,
                                        !.forceCutOnNextAudioBoundary = FALSE]
              ELSE IF ~tooLong THEN m1
              ELSE IF m1.videoSeen THEN [m1 EXCEPT !.forceCutOnNextKey = TRUE]
              ELSE [m1 EXCEPT !.forceCutOnNextAudioBoundary = TRUE]
        owed == m2.forceCutOnNextKey \/ m2.forceCutOnNextAudioBoundary
        due == ~m2.opened \/ owed \/ CurrFrag(m2).duration >= FragmentDuration
        cut == forced \/ (boundary /\ due)
        m3 == IF ~(cut /\ m2.opened) THEN m2
              ELSE [m2 EXCEPT !.forceCutOnNextKey = FALSE,
                              !.forceCutOnNextAudioBoundary = @ /\ m2.forceCutOnNextKey]
        discont == forced \/ owed \/ ~m2.opened
    IN  IF ~cut THEN [st0 EXCEPT !.m = m3]
        ELSE OpenFragment([st0 EXCEPT !.m = CloseFragment(m3, FALSE)], f.ts, discont)

\* The rest of FeedMpegts.
WriteFrame(st, f) ==
    IF ~st.m.opened THEN st
    ELSE [st EXCEPT !.m.content[CurrFrag(st.m).file] = @ \o f.data]

=============================================================================
