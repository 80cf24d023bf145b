-------------------------------- MODULE Remux --------------------------------
(***************************************************************************)
(* The chain of remuxers behind one publisher (pkg/remux, and the group's  *)
(* callbacks that connect them):                                           *)
(*                                                                         *)
(*   rtsp    -> AvPacket2Rtmp -+                                           *)
(*   gb28181 -> AvPacket2Rtmp -+-> DummyAudioFilter -> broadcast           *)
(*   rtmp ---------------------+                        |-> Rtmp2AvPacket  *)
(*                                                      |-> Rtmp2Rtsp      *)
(*                                                                         *)
(* and the RTP packets for RTSP viewers, which come from Rtmp2Rtsp or, when *)
(* the publisher is an RTSP one, from the publisher itself.  Everything a   *)
(* publisher feeds passes the whole chain under group.mutex, so feeding is *)
(* one action.                                                             *)
(*                                                                         *)
(* Abstractions: a frame is its position in the input; a NAL unit is its   *)
(* type and the version of the parameter sets it belongs to; a frame that  *)
(* becomes several RTP packets is one.                                     *)
(***************************************************************************)
EXTENDS Integers, Sequences, SequencesExt, FiniteSetsExt

CONSTANTS
  Pubs,        \* publishers: records of source, codec, audio, sdp, filter, steps, odd
  WaitAudio,   \* add_dummy_audio_wait_audio_ms
  MaxAnalyze,  \* maxAnalyzeAvMsgSize
  TsWord,      \* 2^32, the number of timestamps
  MaxGiven,    \* bound: frames fed
  MaxLost      \* bound: packets lost

\* source  where its data comes from
\* codec   "avc" or "hevc"
\* audio   "aac", "g711" or "none"
\* sdp     an rtsp publisher whose SDP has the parameter sets and the audio config
\* filter  add_dummy_audio_enable
\* start   where its clock starts
\* steps   how far apart the timestamps of its frames may be
\* udp     it sends over UDP, which may lose packets of its video
\* odd     the frames that, being G711, begin with a byte like that of a key frame, which
\*         IsAvcBoundary looks for in every packet
ASSUME RemuxAssumption ==
  /\ \A p \in Pubs : /\ p.source \in {"rtmp", "rtsp", "gb"} /\ p.codec \in {"avc", "hevc"}
                     /\ p.audio \in {"aac", "g711", "none"} /\ p.steps \subseteq Int /\ p.start \in Nat
                     /\ (p.sdp => p.source = "rtsp") /\ p.odd \subseteq Nat \ {0}
                     /\ (p.udp => p.source # "rtmp")
  /\ WaitAudio \in Nat /\ MaxAnalyze \in Nat \ {0} /\ MaxGiven \in Nat /\ MaxLost \in Nat
  \* as 2^32 is, so that silence comes back to the same timestamps after a wrap
  /\ TsWord \in Nat \ {0} /\ TsWord % 64 = 0 /\ TsWord > WaitAudio

VARIABLES
  origin,  \* the publisher
  given,   \* what it has fed: "video" or "audio", frame by frame
  clock,   \* the time of its last frame
  version, \* the version of its parameter sets, 0 before the first
  rest,    \* the packets of an access unit that are still on their way
  loss,    \* history: what the network lost
  av,      \* AvPacket2RtmpRemuxer
  filt,    \* DummyAudioFilter
  cast,    \* the messages broadcastByRtmpMsg was called with
  snap,    \* Rtmp2AvPacketRemuxer and the frame it gave to the snapshot store
  mux,     \* Rtmp2RtspRemuxer
  rtp,     \* the tracks of sdpCtx, and the RTP packets so far
  viewer   \* an RTSP viewer

remuxVars ==
  <<origin, given, clock, version, rest, loss, av, filt, cast, snap, mux, rtp, viewer>>

ParamTypes == {"vps", "sps", "pps"}

\* The parameter sets of the codec, in the order of the stream
ParamOrder == IF origin.codec = "avc" THEN <<"sps", "pps">> ELSE <<"vps", "sps", "pps">>

NoNals == [t \in ParamTypes |-> 0]

\* type: "meta", "vsh", "ash", "key", "inter" or "audio"; ver: the versions of the
\* parameter sets it holds or needs; id: the frame it carries, 0 for none
Msg(type, ts, ver, id) == [type |-> type, ts |-> ts, ver |-> ver, id |-> id]

\* math.MaxUint32
NoTime == TsWord - 1

\* The timestamp of a time (uint32)
Ts(time) == time % TsWord

\* count   packets lost
\* params  a parameter set was among them
\* whole   how often the parameter sets have come since they last changed or one was lost
\* doubted the key frames that came after a loss of parameter sets and before these had
\*         come twice
NoLoss == [count |-> 0, params |-> FALSE, whole |-> 0, doubted |-> {}]

RemuxInit ==
  /\ origin \in Pubs
  /\ given = <<>> /\ clock = origin.start /\ version = 0 /\ rest = <<>> /\ loss = NoLoss
  /\ av = [meta |-> FALSE, sets |-> NoNals, adts |-> FALSE, out |-> <<>>]
  /\ filt = [stage |-> "analysis", queue |-> <<>>, first |-> NoTime, prev |-> NoTime,
             count |-> 0, out |-> <<>>]
  /\ cast = <<>>
  /\ snap = [params |-> {}, id |-> 0, ver |-> {}, with |-> {}]
  /\ mux = [done |-> FALSE, cache |-> <<>>, sps |-> {}, asc |-> FALSE, g711 |-> FALSE]
  /\ rtp = [sdp |-> {"none"}, out |-> <<>>]
  /\ viewer = [stage |-> "away", wait |-> TRUE, out |-> <<>>]

-----------------------------------------------------------------------------
(* AvPacket2RtmpRemuxer                                                    *)

\* emitRtmpAvMsg: the metadata goes before the first message
Emit(r, m) ==
  [r EXCEPT !.meta = TRUE,
            !.out = @ \o (IF r.meta THEN <<>> ELSE <<Msg("meta", 0, {}, 0)>>) \o <<m>>]

\* InitWithAvConfig, with what the SDP says of audio and video
InitWithAvConfig(r, asc, ver) ==
  LET r1 == IF asc THEN Emit(r, Msg("ash", 0, {}, 0)) ELSE r
  IN IF ver # 0 THEN Emit(r1, Msg("vsh", 0, {ver}, 0)) ELSE r1

ClearNothing(r) == r

\* clearVideoSeqHeader
ClearVideoSeqHeader(r) == [r EXCEPT !.sets = NoNals]

\* A parameter set is kept (setVps, setSps, setPps) until all are there, which make a
\* sequence header
FeedParameterSet(r, nal, ts) ==
  LET r1 == [r EXCEPT !.sets[nal.type] = nal.ver]
      held == {r1.sets[t] : t \in ToSet(ParamOrder)}
  IN IF 0 \in held THEN r1 ELSE ClearVideoSeqHeader(Emit(r1, Msg("vsh", ts, held, 0)))

\* FeedAvPacket, a video packet: access unit delimiters are left out, the other NAL
\* units make one frame, whose last one says whether it is a key frame
FeedVideoPacket(r, nals, ts, id) ==
  LET params == SelectSeq(nals, LAMBDA n : n.type \in ParamTypes)
      slices == SelectSeq(nals, LAMBDA n : n.type \in {"idr", "slice"})
      r1 == FoldLeft(LAMBDA a, n : FeedParameterSet(a, n, ts), r, params)
  IN IF slices = <<>> THEN r1
     ELSE Emit(r1, Msg(IF Last(slices).type = "idr" THEN "key" ELSE "inter", ts,
                       {Last(slices).ver}, id))

\* FeedAvPacket, an audio packet: AAC with ADTS headers (gb28181) makes the audio
\* sequence header out of the first one; AAC from rtsp, and G711, are only wrapped
FeedAudioPacket(r, ts, id) ==
  LET fromAdts == origin.source = "gb" /\ origin.audio = "aac" /\ ~r.adts
      r1 == IF fromAdts THEN [Emit(r, Msg("ash", ts, {}, 0)) EXCEPT !.adts = TRUE] ELSE r
  IN Emit(r1, Msg("audio", ts, {}, id))

-----------------------------------------------------------------------------
(* DummyAudioFilter                                                        *)

Pop(f, m) == [f EXCEPT !.out = Append(@, m)]

\* calcAudioDurationMs: 21, 21, 22
CalcAudioDurationMs(f) == IF f.count % 3 \in {1, 2} THEN 21 ELSE 22

MakeOneAudio(f, ts) ==
  [Pop(f, Msg("audio", ts, {}, 0)) EXCEPT !.count = @ + 1, !.prev = ts]

\* The next timestamp of silence, a sum of uint32
NextAudioTs(f) == Ts(f.prev + CalcAudioDurationMs(f))

\* One round of the loop that fills up with silence to ts
MakeNextAudio(f, ts) ==
  IF NextAudioTs(f) > ts THEN f ELSE MakeOneAudio(f, NextAudioTs(f))

SilenceOnce(f, m) == Pop(MakeNextAudio(f, m.ts), m)

\* The loop, and the video behind it.  After TsWord \div 64 * 3 rounds the timestamps
\* are the same again: a loop that has not ended by then never does, and group.mutex is
\* never released.
Silence(f, m) ==
  LET rounds == [i \in 1 .. (TsWord \div 64) * 3 |-> i]
      g == FoldLeft(LAMBDA h, i : MakeNextAudio(h, m.ts), f, rounds)
  IN IF NextAudioTs(g) > m.ts THEN Pop(g, m) ELSE [g EXCEPT !.stage = "endless"]

MakeAudioSeqHeader(f, ts) == Pop(f, Msg("ash", ts, {}, 0))

\* handleDummyStage: real audio is dropped, silence is put before the video
HandleDummyStage(f, m) ==
  CASE m.type \in {"audio", "ash"} -> f
    [] m.type = "meta" -> Pop(f, m)
    [] m.type = "vsh" -> Pop(MakeAudioSeqHeader(f, m.ts), m)
    [] f.prev = NoTime -> Pop(MakeOneAudio(f, m.ts), m)
    [] OTHER -> Silence(f, m)

Cache(f, m) == [f EXCEPT !.queue = Append(@, m)]

\* handleAnalysisStage: until audio comes, or video has come for long enough without.
\* The difference is unsigned: a step back is a long time.
HandleAnalysisStage(f, m) ==
  CASE m.type \in {"audio", "ash"} ->
         [f EXCEPT !.stage = "normal", !.out = @ \o f.queue \o <<m>>]
    [] m.type \in {"meta", "vsh"} -> Cache(f, m)
    [] OTHER ->
         IF f.first = NoTime THEN [Cache(f, m) EXCEPT !.first = m.ts]
         ELSE IF Ts(m.ts - f.first) < WaitAudio THEN Cache(f, m)
         ELSE FoldLeft(LAMBDA g, q : IF g.stage = "endless" THEN g ELSE HandleDummyStage(g, q),
                       [f EXCEPT !.stage = "dummy", !.queue = <<>>], Append(f.queue, m))

\* DummyAudioFilter.Feed
FeedFilter(f, m) ==
  CASE f.stage = "analysis" -> HandleAnalysisStage(f, m)
    [] f.stage = "normal" -> Pop(f, m)
    [] f.stage = "dummy" -> HandleDummyStage(f, m)
    [] OTHER -> f

-----------------------------------------------------------------------------
(* Rtmp2AvPacketRemuxer, and SnapshotStore.Update                          *)

\* feedVideo: the parameter sets go before a key frame.  An avc frame without them is
\* not kept as a snapshot (hasH264SpsPps); a hevc frame always is.
FeedSnapshot(s, m) ==
  CASE m.type = "vsh" -> [s EXCEPT !.params = m.ver]
    [] m.type = "key" /\ (s.params # {} \/ origin.codec = "hevc") ->
         [s EXCEPT !.id = m.id, !.ver = m.ver, !.with = s.params]
    [] m.type = "inter" /\ origin.codec = "hevc" ->
         [s EXCEPT !.id = m.id, !.ver = {}, !.with = {}]
    [] OTHER -> s

-----------------------------------------------------------------------------
(* Rtmp2RtspRemuxer: the state of the chain here is [mux, rtp, viewer]      *)

IsVideo(type) == type \in {"key", "inter"}

\* WriteRtpPacket: to a track that has been set up
Writes(v, p, sdp) == v.stage \in {"setup", "play"} /\ p.kind \in sdp

\* feedRtpPacket: to a viewer that has announced itself, with out_wait_key_frame_flag.
\* Nothing is written before its SETUP, but the gate opens all the same.
FeedRtpToViewer(c, p) ==
  LET v == c.viewer
      gate == v.wait /\ ("video" \notin c.rtp.sdp \/ p.boundary)
      sends == v.stage # "away" /\ (~v.wait \/ gate)
  IN [c EXCEPT !.rtp.out = Append(@, p),
               !.viewer = IF ~sends THEN v
                          ELSE [v EXCEPT !.out = IF Writes(v, p, c.rtp.sdp) THEN Append(@, p)
                                                 ELSE @,
                                         !.wait = FALSE]]

\* IsAvcBoundary, IsHevcBoundary: a parameter set or a key frame, or what looks like one
Boundary(kind, id, gopStart) ==
  gopStart \/ (kind = "audio" /\ origin.audio = "g711" /\ id \in origin.odd)

\* RtpPacker.Pack
Packet(kind, id, gopStart) ==
  [kind |-> kind, id |-> id, boundary |-> Boundary(kind, id, gopStart)]

\* getVideoPacker, getAudioPacker: the track can be packed
HasPacker(r, kind) == IF kind = "video" THEN r.sps # {} ELSE r.asc \/ r.g711

\* sdp.Pack: the tracks the SDP declares
PackSdp(r) == {kind \in {"video", "audio"} : HasPacker(r, kind)}

\* remux: a packet only when the track has a packer
RemuxMsg(c, m) ==
  LET kind == IF m.type = "audio" THEN "audio" ELSE "video"
  IN IF ~HasPacker(c.mux, kind) THEN c
     ELSE FeedRtpToViewer(c, Packet(kind, m.id, m.type = "key"))

\* isAnalyzeEnough
IsAnalyzeEnough(r) ==
  (r.sps # {} /\ (r.asc \/ r.g711)) \/ Len(r.cache) >= MaxAnalyze

DoAnalyzeForgetsCache(c) ==
  IF ~IsAnalyzeEnough(c.mux) THEN c
  ELSE [c EXCEPT !.mux.done = TRUE, !.mux.cache = <<>>,
                 !.rtp.sdp = PackSdp(c.mux)]

\* doAnalyze: the SDP (onSdpFromRemux, which answers a viewer that waits for it), then
\* what was kept meanwhile
DoAnalyze(c) ==
  IF ~IsAnalyzeEnough(c.mux) THEN c
  ELSE LET c1 == [c EXCEPT !.rtp.sdp = PackSdp(c.mux)]
           c2 == FoldLeft(RemuxMsg, c1, c.mux.cache)
       IN [c2 EXCEPT !.mux.done = TRUE, !.mux.cache = <<>>]

\* FeedRtmpMsg
FeedRtmpMsg(c, m) ==
  LET g711 == c.mux.g711 \/ (m.type = "audio" /\ m.id # 0 /\ origin.audio = "g711" /\ ~c.mux.asc)
      c1 == [c EXCEPT !.mux.g711 = g711]
  IN CASE m.type = "meta" -> c
       [] c.mux.done -> IF m.type \in {"vsh", "ash"} THEN c ELSE RemuxMsg(c1, m)
       [] m.type = "vsh" -> DoAnalyze([c1 EXCEPT !.mux.sps = m.ver])
       [] m.type = "ash" -> DoAnalyze([c1 EXCEPT !.mux.asc = TRUE])
       [] OTHER -> DoAnalyze([c1 EXCEPT !.mux.cache = Append(@, m)])

-----------------------------------------------------------------------------
(* One packet or message of the publisher passes the chain                 *)

\* OnReadRtmpAvMsg, onRtmpMsgFromRemux, broadcastByRtmpMsg; pkts are the RTP packets of
\* an rtsp publisher, which go to the viewers as they are (OnRtpPacket)
Chain(msgs, pkts) ==
  LET f == IF origin.filter THEN FoldLeft(FeedFilter, [filt EXCEPT !.out = <<>>], msgs)
           ELSE [filt EXCEPT !.out = msgs]
      c0 == [mux |-> mux, rtp |-> rtp, viewer |-> viewer]
      c1 == IF origin.source = "rtsp" THEN FoldLeft(FeedRtpToViewer, c0, pkts)
            ELSE FoldLeft(FeedRtmpMsg, c0, f.out)
  IN /\ filt' = [f EXCEPT !.out = <<>>]
     /\ cast' = cast \o f.out
     /\ snap' = FoldLeft(FeedSnapshot, snap, f.out)
     /\ mux' = c1.mux /\ rtp' = c1.rtp /\ viewer' = c1.viewer

\* OnSdp of an rtsp publisher, before its packets
OnSdpOfPub ==
  /\ origin.source = "rtsp" /\ rtp.sdp = {"none"}
  /\ LET tracks == IF origin.audio = "none" THEN {"video"} ELSE {"video", "audio"}
         r == InitWithAvConfig(av, origin.sdp /\ origin.audio = "aac", IF origin.sdp THEN 1 ELSE 0)
         f == IF origin.filter THEN FoldLeft(FeedFilter, filt, r.out) ELSE [filt EXCEPT !.out = r.out]
     IN /\ av' = [r EXCEPT !.out = <<>>] /\ filt' = [f EXCEPT !.out = <<>>]
        /\ cast' = f.out /\ snap' = FoldLeft(FeedSnapshot, snap, f.out)
        /\ rtp' = [rtp EXCEPT !.sdp = tracks]
        /\ version' = IF origin.sdp THEN 1 ELSE 0
  /\ UNCHANGED <<origin, given, clock, rest, loss, mux, viewer>>

Begun == filt.stage # "endless" /\ (origin.source = "rtsp" => rtp.sdp # {"none"})

\* A publisher that speaks rtmp sends its metadata and the sequence headers itself
Headers(first, params, ver) ==
  (IF given = <<>> THEN <<Msg("meta", 0, {}, 0)>> ELSE <<>>)
    \o (IF params THEN <<Msg("vsh", Ts(clock), {ver}, 0)>> ELSE <<>>)
    \o (IF first /\ origin.audio = "aac" THEN <<Msg("ash", Ts(clock), {}, 0)>> ELSE <<>>)

IsSlice(nal) == nal.type \in {"idr", "slice"}

\* One packet of NAL units (FeedAvPacket), with the timestamp ts
FeedNals(nals, ts) ==
  LET id == Len(given) + 1
      r == FeedVideoPacket([av EXCEPT !.out = <<>>], nals, ts, id)
  IN /\ av' = [r EXCEPT !.out = <<>>]
     /\ given' = IF IsSlice(Last(nals)) THEN Append(given, "video") ELSE given
     /\ Chain(r.out, [i \in DOMAIN nals |->
                        Packet("video", IF IsSlice(nals[i]) THEN id ELSE 0,
                               nals[i].type # "slice")])

\* The packets of an access unit: a gb28181 device sends it as one, an rtsp publisher
\* its NAL units one by one
PacketsOf(nals, ver) ==
  IF origin.source = "gb" THEN << <<[type |-> "aud", ver |-> ver]>> \o nals >>
  ELSE [i \in DOMAIN nals |-> <<nals[i]>>]

\* The loss of a packet, none if lost is 0, of an access unit with parameter sets or without
\* and with the version ver of them
Lose(packets, lost, params, ver) ==
  LET whole == IF ver > version THEN 1 ELSE Min({loss.whole + 1, 2})
      sets == lost # 0 /\ \E n \in ToSet(packets[lost]) : n.type \in ParamTypes
  IN [loss EXCEPT !.count = IF lost # 0 THEN @ + 1 ELSE @, !.params = @ \/ sets,
                  !.whole = IF sets THEN 0 ELSE IF params THEN whole ELSE @]

\* The first packet arrives
NextPacket(packets, ts, l) ==
  /\ FeedNals(Head(packets), ts)
  /\ rest' = Tail(packets)
  /\ loss' = IF Last(Head(packets)).type = "idr" /\ l.params /\ l.whole < 2
             THEN [l EXCEPT !.doubted = @ \cup {Len(given) + 1}] ELSE l

\* A video frame, with its parameter sets or without
Video(type, params, ver, step, lost) ==
  LET time == clock + step
      sets == IF params THEN [i \in DOMAIN ParamOrder |-> [type |-> ParamOrder[i], ver |-> ver]]
              ELSE <<>>
      nals == Append(sets, [type |-> IF type = "key" THEN "idr" ELSE "slice", ver |-> ver])
      packets == PacketsOf(nals, ver)
      arriving == IF lost = 0 THEN packets ELSE RemoveAt(packets, lost)
      l == Lose(packets, lost, params, ver)
  IN /\ Begun /\ rest = <<>> /\ Len(given) < MaxGiven /\ time >= 0
     \* parameter sets come with a key frame, and with every change of them
     /\ params => type = "key"
     /\ IF type = "key" THEN ver \in {1, version, version + 1} \cap 1 .. 2 ELSE ver = version
     /\ ver >= version /\ (ver > version => params)
     /\ origin.source = "rtmp" => ver > 0
     /\ lost # 0 => origin.udp /\ lost \in DOMAIN packets /\ loss.count < MaxLost
     /\ clock' = time /\ version' = ver
     /\ IF origin.source = "rtmp"
        THEN /\ Chain(Headers(FALSE, params, ver)
                        \o <<Msg(type, Ts(time), {ver}, Len(given) + 1)>>, <<>>)
             /\ given' = Append(given, "video")
             /\ UNCHANGED <<av, rest, loss>>
        ELSE IF arriving # <<>> THEN NextPacket(arriving, Ts(time), l)
        ELSE loss' = l /\ UNCHANGED <<given, rest, av, filt, cast, snap, mux, rtp, viewer>>
     /\ UNCHANGED origin

\* The next packet of an access unit
NextNal ==
  /\ rest # <<>> /\ Begun
  /\ NextPacket(rest, Ts(clock), loss)
  /\ UNCHANGED <<origin, clock, version>>

\* An audio frame
Audio ==
  LET id == Len(given) + 1
      r == FeedAudioPacket([av EXCEPT !.out = <<>>], Ts(clock), id)
      first == "audio" \notin ToSet(given)
  IN /\ Begun /\ origin.audio # "none" /\ Len(given) < MaxGiven
     /\ given' = Append(given, "audio")
     /\ IF origin.source = "rtmp"
        THEN /\ Chain(Headers(first, FALSE, 0) \o <<Msg("audio", Ts(clock), {}, id)>>, <<>>)
             /\ UNCHANGED av
        ELSE /\ Chain(r.out, <<Packet("audio", id, FALSE)>>)
             /\ av' = [r EXCEPT !.out = <<>>]
     /\ UNCHANGED <<origin, clock, version, rest, loss>>

-----------------------------------------------------------------------------
(* An RTSP viewer                                                          *)

\* DESCRIBE puts it among the group's sessions; without an SDP it waits for one
Describe ==
  /\ filt.stage # "endless" /\ viewer.stage = "away"
  /\ viewer' = [viewer EXCEPT !.stage = "described"]
  /\ UNCHANGED <<origin, given, clock, version, rest, loss, av, filt, cast, snap, mux, rtp>>

\* SETUP of all its tracks
Setup ==
  /\ filt.stage # "endless" /\ viewer.stage = "described" /\ rtp.sdp \notin {{"none"}, {}}
  /\ viewer' = [viewer EXCEPT !.stage = "setup"]
  /\ UNCHANGED <<origin, given, clock, version, rest, loss, av, filt, cast, snap, mux, rtp>>

\* stat.VideoCodec
VideoCodec == \E i \in DOMAIN cast : cast[i].type = "vsh"

\* HandleNewRtspSubSessionPlay: it need not wait if no video has been broadcast
Play ==
  /\ filt.stage # "endless" /\ viewer.stage = "setup"
  /\ viewer' = [viewer EXCEPT !.stage = "play", !.wait = @ /\ VideoCodec]
  /\ UNCHANGED <<origin, given, clock, version, rest, loss, av, filt, cast, snap, mux, rtp>>

RemuxNext ==
  \/ OnSdpOfPub
  \/ \E type \in {"key", "inter"}, params \in BOOLEAN, ver \in 0 .. 2, step \in origin.steps,
        lost \in 0 .. 4 : Video(type, params, ver, step, lost)
  \/ NextNal
  \/ Audio
  \/ Describe \/ Setup \/ Play

RemuxSpec == RemuxInit /\ [][RemuxNext]_remuxVars

-----------------------------------------------------------------------------
(* Properties                                                              *)

\* The frames among msgs that are of a kind, silence left out
FramesOf(msgs, kind) ==
  LET ids == [i \in DOMAIN msgs |-> msgs[i].id]
  IN SelectSeq(ids, LAMBDA id : id # 0 /\ given[id] = kind)

GivenFrames(kind) == SelectSeq([i \in DOMAIN given |-> i], LAMBDA i : given[i] = kind)

\* What the filter holds back
Held == IF filt.stage = "analysis" THEN filt.queue ELSE <<>>

\* Every frame of the publisher that arrived is broadcast exactly once and in order, or is
\* still held by the filter (real audio is given up for silence, once and for all);
\* Rtmp2Rtsp turns every frame that was broadcast of a track it has declared into RTP,
\* the ones from before the SDP included; and a viewer of RTSP misses none of the
\* packets of its tracks once it has got one.  (A filter that loops for ever does
\* neither.)
RemuxedInOrder ==
  /\ \A kind \in {"video", "audio"} :
       \/ kind = "audio" /\ filt.stage = "dummy"
       \/ filt.stage = "endless"
       \/ FramesOf(cast, kind) \o FramesOf(Held, kind) = GivenFrames(kind)
  /\ origin.source # "rtsp" =>
       \A kind \in {"video", "audio"} :
         ~mux.done \/ kind \in rtp.sdp =>
           FramesOf(rtp.out, kind) \o FramesOf(mux.cache, kind) = FramesOf(cast, kind)
  /\ IsSuffix(viewer.out, SelectSeq(rtp.out, LAMBDA p : p.kind \in rtp.sdp))

\* As long as no parameter set is lost, every sequence header is made of parameter sets
\* that belong together, and every key frame follows, with no other header between, the
\* header of its own parameter sets; the snapshot kept of an avc stream carries them too.
\* After such a loss this is true again of the key frames that come when the parameter
\* sets have been received twice without a change.  (A set that is left of an incomplete
\* group is joined to the next group, AvPacket2RtmpRemuxer: the headers stay one set out
\* of step, so that every later change makes one of two versions.)
KeysDecodable ==
  /\ \A i \in DOMAIN cast :
       /\ cast[i].type = "vsh" => Cardinality(cast[i].ver) = 1 \/ loss.params
       /\ cast[i].type = "key" /\ cast[i].id \notin loss.doubted =>
            \E h \in 1 .. i - 1 :
              /\ cast[h].type = "vsh" /\ cast[h].ver = cast[i].ver
              /\ \A k \in h + 1 .. i - 1 : cast[k].type # "vsh"
  /\ origin.codec = "avc" /\ snap.id \notin loss.doubted => snap.with = snap.ver

\* Once the filter makes silence, its timestamps increase, it never lags a frame behind
\* the video and never runs ahead of it, not even when the timestamps of the video step
\* back (DummyAudioFilter); and it returns.  All this until the video comes within one
\* silent frame of the largest timestamp, or passes it: what happens there is not kept
\* in step by the comparison of wrapped timestamps.
SilenceKeepsUp ==
  LET silent == {i \in DOMAIN cast : cast[i].type = "audio" /\ cast[i].id = 0}
      video == {i \in DOMAIN cast : IsVideo(cast[i].type)}
  IN \/ clock >= TsWord - 22
     \/ \E v \in video : cast[v].ts >= TsWord - 22
     \/ /\ filt.stage # "endless"
        /\ \A i, j \in silent : i < j => cast[i].ts < cast[j].ts
        /\ filt.stage = "dummy" =>
             \A v \in video :
               LET before == {cast[i].ts : i \in {i \in silent : i < v}}
               IN /\ before # {}
                  /\ Max(before) > cast[v].ts - 22
                  /\ Max(before) <= Max({cast[w].ts : w \in {w \in video : w <= v}})

=============================================================================
