# A verification project for lal

`lal` is a live-streaming server written in Go. Publishers push audio and
video over RTMP, RTSP, GB28181 or an in-process API; the server can also pull a
stream from elsewhere; viewers take it as RTMP, HTTP-FLV, HTTP-TS, HLS or RTSP;
and it can be pushed on to other servers. This directory holds TLA+ models of
its core logic, the TLC runs that check them and TLAPS proofs about them.
`PROJECT.json` is the index: components, runs, mutants, the map from
definitions to source lines, findings, hazards, theorems.

## 1. Inventory

| Component | State it keeps | Operations | Talks to |
|---|---|---|---|
| `ServerManager` (`logic/server_manager__*.go`) | group manager, servers, stat cache, snapshot store | `OnNew*/OnDel*` session callbacks, HTTP-API control calls, one timer goroutine (`RunLoop`) | every `Group`, all servers |
| Group managers (`logic/group_manager.go`) | name → `*Group` | `GetOrCreateGroup`, `GetGroup`, `Iterate` | `ServerManager` |
| `Group` lifecycle (`logic/group__.go`, `group__in.go`, `group__out_sub.go`) | five input fields, the sub session sets, remuxers, caches | add and delete of sessions, `Tick`, `Dispose`, `KickSession` | sessions, timers |
| Relay pull (`logic/group__relay_pull.go`) | `pullProxy`: task, attempt mark, backoff; the global handshake semaphore | `StartPull`, `StopPull`, `pullIfNeeded`, the pull goroutine | RTMP/RTSP client sessions |
| Relay push and relay (`logic/group__relay_push.go`, `group__relay.go`) | `url2PushProxy` | static push, `StartRelay`, `StartPushOnly`, `StopRelay`, retry goroutines | RTMP/RTSP client push sessions |
| Stream core (`logic/group__core_streaming.go`, `remux/gop_cache.go`, `base/merge_writer.go`) | GOP caches, headers, per-viewer fresh / wait-for-key-frame flags, merge writer | `OnReadRtmpAvMsg`, `broadcastByRtmpMsg`, `feedTsPackets`, `feedRtpPacket` | all viewers |
| HLS (`hls/`) | fragment ring, open fragment, playlists, HLS viewers and their sessions | `FeedMpegts`, `updateFragment`, `openFragment`, `closeFragment`, cleanup | `Group`, file system |
| RTP reception (`rtprtcp/rtp_packet_list.go`, `rtp_unpack*.go`, `rtcp_rr_producer.go`) | ordered packet list, unpacked sequence number | `Feed`, in-order and out-of-order unpacking | RTSP in sessions, GB28181 |
| RTSP sessions (`rtsp/`) | command state, SDP, channels, A/V queue | ANNOUNCE/SETUP/RECORD, DESCRIBE/SETUP/PLAY, interleaved packets | `Group` |
| RTMP sessions (`rtmp/`) | handshake, chunk streams, session type | chunk composer/divider, `connect`/`publish`/`play`, acknowledgements | `Group` |
| Remuxers and filters (`remux/`) | timestamps, codec headers, queues | rtmp ↔ av packet ↔ rtp ↔ mpegts, dummy audio | `Group` |
| Containers (`mpegts/`, `httpflv/`, `aac/`, `avc/`, `hevc/`, `sdp/`) | none or little | pack and parse | remuxers |
| GB28181 (`gb28181/`) | devices, channels, invites, media listeners, upstream registration | SIP handlers, invite / bye, PS demuxing | `Group` through the customize publisher |
| Snapshot, IP blacklist, auth, HTTP notify (`logic/`) | bounded maps and queues | put, lookup, cleanup | API, timers |

What is hard here: every session has goroutines of its own and meets the
others under one mutex per group; connecting to a remote server takes seconds
and its outcome arrives after the group has moved on (stop, new start, other
publisher, group erased); a single timer drives retries, auto stop, liveness
checks and group removal; sessions are disposed from several sides with
`sync.Once`; media arrives out of order with 16-bit sequence numbers; bounded
queues drop when full. `PROJECT.json` lists these as hazards, each at its line.

| Component | What makes it correct |
|---|---|
| Relay pull | one input at a time; no attempt is left marked "pulling" for ever; the handshake semaphore is neither leaked nor over-released; retry limits hold; a pull that is wanted, also one in its backoff pause, is started |
| Relay push and relay | one push per URL; no push stays without input; no target is forgotten; the retry limit holds |
| Group lifecycle | no ended session stays in a group that lookups find; idle groups are erased; disposing never blocks the manager |
| Stream core | a viewer's first video frame is a key frame and is preceded by the headers; per viewer, frames stay in order and none is sent twice |
| HLS | the playlist names only complete fragments, in order; fragments a playlist still names are not deleted |
| RTP reception | frames leave in sequence order across wraparound; nothing is delivered twice; what arrives in time is delivered; reports count right |
| A/V queue | output is merged in timestamp order while no bound is met, and no track goes back in time |
| RTSP and RTMP sessions | the end a client's owner is told of is its end, and it is told; a connection that is gone has left the group; no DESCRIBE is forgotten |
| RTMP chunk streams | what the composer hands on is what the sender cut up, whichever header formats it uses |
| Remuxers | every frame comes out once and in order; every key frame is preceded by the headers it belongs to; silence neither lags nor runs ahead; an RTSP viewer starts at a key frame |
| GB28181 | ports and BYEs are accounted for however many actors end a dialog; API calls return; what is forwarded to a platform belongs to a session; the registration that is reported is there |
| Snapshot store | a picture is never older than the request; at most one decoding per frame |

## 2. Plan

Done, in this order, the most important behaviour first:

1. `RelayPull` with the abstract `InStream`, its runs and its proofs.
2. `RelayPush` for static and API pushes, which share the handshake semaphore.
3. `GroupLifecycle`: server manager, group manager and groups.
4. `GopCache` and `Broadcast`, the stream core.
5. `HlsMuxer`, `MpegtsHls` (remuxer in front of the muxer) and `HlsLifecycle`.
6. `RtpReorder`: packet list, unpackers, receiver reports; `AvPacketQueue`.
7. `RtspClient`, `RtmpClient`, `RtspServer`, `RtmpServer`, `RtmpChunk`.
8. GB28181: `GbDialog`, `GbUpstream` on top of it, `GbCascade`.
9. `Remux` (the chain behind a publisher) and `Snapshot`.
10. `ProtocolLayer`, the union of the parts that share no state.

11. The proofs (section 7), module by module in the order of 1, 3, 5, 2, 9, 7, 8, 6, 4.

Left: proofs of `StartsWithKey`, about `MergedByTime` of `AvPacketQueue`, about `Remux`, and of
`RegistrationKept` of `GbCascade`, whose statement for every value of the constants has to
relate the backoff to the validity. The PS demuxer, the HTTP notify queue and
`ComplexGroupManager` could be modelled as well.

## 3. Modules and the code

A module that depends on other parts states in its heading what it abstracts.
`PROJECT.json` maps each definition to its lines.

**RelayPull** (with **InStream**). One `Group`, its five input fields and
`pullProxy`. A pull attempt is a model value with three parts: the goroutine of
`pullIfNeeded` (`pc`), the connect goroutine that `Start` spawns (`net`), and
the session object (`conn`, `disposed`, `waitErr`). Steps are critical sections
under `group.mutex` and blocking points: `StartPull`, `StopPull` and `KickPull`
(HTTP API), `Tick` (the timer: `pullIfNeeded`, auto stop, alive check),
`AcquireSlot` and its time-out, `Start` with its time-out and errors,
`AddPullSession` and `DelPullSession` for both protocols, publishers and
viewers that come and go, the timer's `FindInactive` and `DisposeGroup`.
`dispose` uses
`disposeOnce` up even when there is no connection yet, as the code does.
`InStream` is the promise to the rest of the server: a stream has no input or
one, and one must leave before another is taken. `ImplementsInStream` is the
refinement, with the input field that is set as the mapping.

**RelayPush**. `url2PushProxy` and `relayProxy` of one group. Static targets
have a goroutine each (`StaticPush`); the API starts its push inside
`group.mutex`, so that is one step, followed by a goroutine that waits for the
end and retries (`Relay`). `others` are the slots of the global semaphore that
pulls and other groups hold. `crashed` records a nil dereference outside the
reach of a `recover`.

**GroupLifecycle**. `ServerManager`, `SimpleGroupManager` and `Group` objects
as identities, because a name can be bound to a new object while sessions hold
the old one. Two locks: the manager's covers a lookup, or a whole `Iterate`;
a group's covers one join, leave, `IsInactive` or `Dispose`. `exitMsgs` is the
channel of capacity 1 that `Dispose` sends to.

**GopCache**, **Broadcast**. `GopCache` is the ring of `remux.GopCache` as
operators on a record that carries its configuration, as the Go struct does.
`Broadcast` is `broadcastByRtmpMsg` with the merge writer, the fresh and
wait-for-key-frame flags of viewers, and push sessions. `Setups` are the configurations:
the sizes of the caches, and which of them are fed (`Fed`: `rtmpGopCache` only with an rtmp
or rtmps server, `httpflvGopCache` only with the http-flv server). A message is its position in a
history of all messages, and the properties speak of positions only: what a session was
sent, what the merge writer holds and what is cached are sequences of them.

**HlsMuxer**, **MpegtsHls**. Operators on the muxer's record (ring, playlists,
files) and, composed with it, `Rtmp2MpegtsRemuxer`: probe queue, audio cache,
boundary marks, and `timestampFilter`, which counts each track from its own first frame
(`Do`). A message is one action; the callback `OnFragmentOpen`, which
re-enters the remuxer from inside the muxer, is `FlushAudioInside`, applied
between `Emit` (which may open a fragment) and `WriteFrame` in `OnFrame`.

**HlsLifecycle**. The session map of `hls.ServerHandler` under one mutex,
groups and their muxers under another, and the deferred clean-up of the
directory under none. `OnDelHlsSubSession` is split where the code takes and
releases locks, and so is the creation of a viewer: between its lookup (`CreateSubSession`)
and its `JoinGroup` the timer may erase the group.

**RtpReorder**. `RtpUnpackContainer.Feed` over `RtpPacketList`, with the AVC/HEVC
and AAC unpackers' decision how many packets at the head make a frame, and
`RrProducer`. Packets carry 16-bit numbers (`M` of them); the network loses,
duplicates and delays. Between two calls the container is a record on which
`Insert`, `TryUnpackOne`, `PopFirst` work.

**AvPacketQueue**. `Feed`: timestamp filter, the interleaving loop with its
bound on iterations, the forced packet, the flush of a full queue, and its two
assertions.

**RtspClient**, **RtmpClient**. The client sessions that pulls and pushes use, in
more detail than `RelayPull` and `RelayPush` need: `Start`'s caller, the goroutine
that does the handshake request by request (401 and a second try, UDP and the
fallback to TCP, RTMP's redial for authentication), the read loop, and the
goroutine that waits for the end. A session is two halves with a `disposeOnce`
each. naza's connection is external: its `Close`, or the first failing
operation, leaves one value in `Done()`.

**RtspServer**, **RtmpServer**. One goroutine per connection and one or two groups:
requests and commands that make sessions and register them, the group's answers
from other goroutines (`OnSdp`, `disposeInactiveSessions`), and the clean-up at the
end of a connection, which knows only the last session of the connection.

**RtmpChunk**. `ChunkDivider` as sender `"lal"`, any other program as sender
`"other"` with formats 0 to 3 and interleaving, and `ChunkComposer.RunLoop`. A chunk
is its header and a number of bytes; reading other bytes than were written loses
the framing. `composed` is, of every chunk stream, the sequence of messages handed over. Three cases the code does not handle are recorded in `excused`: a
timestamp of exactly `0xFFFFFF`, an extended timestamp delta in formats 1 and 2, and
a new chunk size into which a message fits of which a part has been read.

**Remux**. `AvPacket2RtmpRemuxer`, `DummyAudioFilter`, `Rtmp2AvPacketRemuxer`,
`Rtmp2RtspRemuxer` and the gate in front of RTSP viewers (`feedRtpPacket`). A frame
is its position in the input, a NAL unit its type and the version of the
parameter sets. Feeding passes the whole chain under `group.mutex`, so it is one
action. A publisher over UDP may lose a packet of its video: one NAL unit of an rtsp
publisher, one access unit of a gb28181 device (what a damaged access unit looks like is
not modelled). Timestamps are numbers below `TsWord`, as `uint32` are below 2^32; a loop of
the filter that never ends is its stage `"endless"`, in which the group, whose mutex it
holds, does nothing more.

**Snapshot**. `snapshotStore`: the map's lock, one lock per item, requests that
decode or wait for another's decoding, the ffmpeg pool, deadlines, `Cleanup`.

**GbDialog**, **GbUpstream**. GB28181 with one device. Actors are the HTTP API (one call
at a time under `sm.mutex`), the job goroutine, one goroutine per media
connection, the caller of `PlaybackScale` and the SIP handlers; a step ends where a
lock is released, a SIP answer is awaited, or another goroutine can come in between
without any lock: the ACK is published (`InviteAccepted`) before it is sent (`SendAck`), and a
media server is in its map (`StoreMediaServer`) before its `Start` has run. `Channel`
objects have identities because a channel can be forgotten and listed again while a dialog runs.
`GbUpstream` extends it with the platforms that INVITE streams: sessions, sinks on
media servers, the virtual server and the feeds of the logic layer. Whoever ends a session
cancels its feed (`CancelSession`) and deletes its entry later (`DeleteSession`); `dropping` holds
who is between the two.
`ServersFollow` conjoined to the steps of `GbDialog` says what happens to the sinks
of a server that is disposed.

**GbCascade**. Towards one upper platform: `runUpstreamLoop` with registration,
refresh, backoff and keepalives, and the catalog with its cache. Time is counted in
periods of the three-second ticker and passes only when nothing is due. The
platform is external; its messages are lost and late, and it may restart.

**ProtocolLayer**. The client and server sessions, chunk streams, RTP reception, A/V
queue, remuxers, snapshot store and the registration share no state: a session
reads its own connection and calls its own observer. Their composition is a
disjoint union: `Init` chooses the part that moves, the others keep one fixed state.

## 4. Runs

The bounds are the smallest at which the cases named happen; every count is in
the `.cfg`. All runs switch deadlock checking off: histories are bounded, and the
server may be shut down or have nothing left to do.

| Run | What happens in it |
|---|---|
| `pull_race` | two attempts and a publisher, one slot, both protocols, one retry with a backoff: a second attempt starts while the first is in its handshake, tasks are stopped, replaced, kicked and time out |
| `pull_live` | two RTSP attempts for one slot, no retries, a server that may never answer, a viewer that comes and goes and a task that stops after a time without viewers |
| `pull_orphan` | violation, see section 6 |
| `push` | a static target, an RTMP and an RTSP API target, three sessions, one of them with a peer that keeps pinging, one slot that pulls and other groups also use, zero or one retry; safety and liveness together |
| `push_panic` | violation |
| `group_lifecycle` | one name, two group objects, a publisher, a viewer, pull tasks, kicks and shutdown; safety and liveness together |
| `broadcast` | two publishers in turn, 5 messages; two rtmp viewers behind a merge writer of 2, or an http-flv viewer beside a push (what one session is sent does not depend on sessions of another protocol, so the pairs are not multiplied); no cache or a ring of 3 places that wraps, with and without a limit of one frame; and, for the second pair, caches that are not fed |
| `hls` | six situations in one run: a ring of 4 fragments that wraps within 6 messages (opus, whose every frame may cut) with timestamps that go back; files that cannot be created; inter frames and fragments that grow too long; H.264 with AAC, its sequence headers, jumps of time and the flush from inside the muxer; audio alone, then video, whose clocks start separately; video that goes back before its first frame |
| `hls_sessions` | two viewers, two group objects, two muxers, expiry, kick, blacklist, shutdown and the deferred clean-up |
| `protocol` | every part of `ProtocolLayer`, see below |
| `gb28181` | fifteen situations of `MCGb28181`, each with the outside events it needs, and at most three INVITEs to the device: wrong digests and the ban list, a device that comes and goes, one dialog ended by the API, the device and two connections, a stream replaced by itself and by another, a playback that is scaled, expires and breaks, two channels and one port, retries, and platforms that ask for, leave and lose streams |
| `gb_retry` | violation |

The parts of `protocol`: RTSP clients of both roles and transports, with one track and
two, with and without a time-out; RTMP clients asked twice for authentication;
two RTSP connections with two sessions each, three together, and an input of
another protocol; two RTMP connections with two commands each; two chunk streams,
three messages, sizes that change, timestamps around a maximum of 3; RTP: 32
numbers starting at 28 so that they wrap, gaps of two, 6 arrivals, an AVC
stream with a list of 5, one with unknown packet types and a list of 3 that fills
up, an AAC stream; queues of 4 with a loop bound of 2, intervals that are
regular, zero, negative, rotated and too long; nine publishers of four frames
through the remuxers with one viewer, two of them over UDP with one lost packet, one with a
clock that passes the largest of 256 timestamps; two requests, one decoder and two key
frames; nine plans of a registration (lost messages with and without a digest, a
restart of the platform, reloads, a wrong password, catalogs asked for during
changes), with a validity of 12 periods, refreshed after 6.

Where a component has a configuration of its own (`gop_num` and the frame limit
of a cache, the stream an unpacker is made for), it is part of the state and
chosen in `Init`, so that one run covers several.

In `AvPacketQueue` the code's 128 and 50 are scaled to 4 and 2: what
matters is that the loop's bound is below half the queue, so that a queue can
hold more than one call drains. In `RtpReorder` the stream is shorter than half
the sequence space, as `CompareSeq` needs; counters wrap at 2^20 instead of 2^32,
which a stream of 9 packets tells apart only by where a negative difference
lands. `startCount` saturates above every retry number, so no comparison
changes. In `RelayPush` the API takes a session only while one is left for
every static target without a goroutine (`Spare`), so the finite supply of
sessions never keeps a target from being served. In `GbCascade` `CatalogTtl` is two
periods, where the code's three seconds are one, so that a cached catalog can
be stale for more than an instant; `Tolerated` is the number of failures that fit into
the second half of the validity with the instance's numbers, here none.

Some properties have exceptions, each for a behaviour the code has and each named
in the property: `SnapshotCurrent` (two key frames with one timestamp; a key frame
stored during the decoding), `KeysDecodable` (a lost parameter set, until the sets have been
received twice), `SilenceKeepsUp` (timestamps at their wrap), `EndIsTold` (`ClosedByLoop`),
`HandlerMatchesGroup` (a viewer whose group is erased between lookup and join), `ConnLeaves` (a
connection that asked for one session; a SETUP after the timer's Dispose),
`ComposedIsSent` (`excused`), `CascadeViews` (a restart, a late answer),
`StartsWithKey` (a jump of the timestamps, the first video after fragments of audio alone, a
frame older than the first of its track), `ReceptionRight` (what was sent before the first frame
that was handed on), `PortsAccounted` (no retries, whose job sends INVITEs without `sm.mutex`; a
server disposed before it has started), `OneByePerDialog` (a BYE before the ACK is sent),
`ForwardsAccounted` (a feed that starts while its session is being deleted).

Every property of a passing run has a mutant in `PROJECT.json`: a change of one
definition as a plausible bug would make it, under which TLC finds that
property violated.

## 5. Fairness

- `RelayPull`: pull goroutines run; the timer ticks every second, also its alive
  check on a connection that can deliver nothing more; a backoff ends. Nothing is
  assumed of the remote server or the connect goroutine, only `Start`'s
  time-outs, which are steps of the pull goroutine.
- `RelayPush`: goroutines run, `WaitChan` delivers what a dispose caused, the
  timer ticks; without input nothing is written to a push whose peer only listens,
  so an alive check finds it stale. Sessions in `Chatty` have a peer that keeps
  sending pings, or data to acknowledge: nothing is assumed of them, and
  `PushFollowsInput` says nothing about them.
- `GroupLifecycle`: the timer's steps and a group's `RunLoop` run; strong
  fairness only for a session waiting for the manager's mutex, which the timer
  takes again and again (`sync.Mutex` is starvation free); a connection closed
  by the server ends its session.
- `HlsLifecycle`: the handler's ticker, with strong fairness for the same
  reason, a request that has found its group, and the deferred tasks.

- `RtspClient`: the goroutines of a session run and its time-out fires
  (`ClientFairness`); nothing is assumed of the server.
- `GbUpstream`: a SIP request is answered or times out, a mutex is handed on, and a
  goroutine that can go on does; a closed socket makes its reader fail. Devices,
  platforms and users of the API do what they like.

The other modules have no liveness properties: each call finishes by itself.

## 6. Where code and documentation disagree

Three runs show a disagreement; `PROJECT.json` quotes the lines.

| Run | Shown |
|---|---|
| `pull_orphan` | a pull whose start failed can still become the input, and nothing removes it |
| `push_panic` | a relay and a static push to one URL: the entry is gone when the static goroutine reads it, twice |
| `gb_retry` | `auto_retry_on_disconnect`: the clean-up of a lost stream deletes the retry that was just scheduled for it |

The models also have the following behaviours, which contradict a comment or a
document. They were met while modelling, each as a counterexample of TLC to the
sentence quoted, and no run is kept for them.

- `logic/group__in.go:130`: a pull stopped during its handshake still becomes
  the input ("停止拉流", `README.md:219`); `AddPullSession` does not compare the session
  with `pullingSessionId` before it joins.
- `logic/group__relay.go:295`: the goroutine of an ended API push deletes the
  entry of its URL although a newer session owns it, which then gets no data
  (`group__relay.go:254`, "broadcastByRtmpMsg 会自动转发数据").
- `logic/group__relay.go:358`: an old retry goroutine that survives stop and start
  opens a second push; the next stop closes one (`README.md:223`, "停止转推").
- `logic/server_manager__.go:1124`: `getOrCreateGroup` relies on a lock the caller
  does not hold; a session can join a group the timer has already erased.
- `logic/group__core_streaming.go:310`: a viewer that joins between two publishers
  is greeted from an empty cache, waits through the second publisher's headers
  and gets its video without them (`rtmp/server_session.go:83`). `ViewersGetHeaders` names
  this case as its exception.
- `logic/group__core_streaming.go:462`, `:470`: the caches are fed only with an rtmp (or
  rtmps) server and an http-flv server configured, but pushes are greeted from the first
  and https-flv viewers from the second whether or not: without them they join a running
  stream with no headers and no GOP. The header halves of `JoinsDecodable` and
  `ViewersGetHeaders` are conditional on `Fed`.
- `logic/group__out_sub.go:29`: `stat.VideoCodec` outlives the publisher, so a
  viewer of an audio-only stream that follows one with video waits for ever
  (`group__out_sub.go:24`, "就不需要等待关键帧了").
- `rtsp/client_command_session.go:247`: a read loop that returns although its connection is healthy
  (a byte where only FIN was expected, line 270; an answer to GET_PARAMETER it cannot
  parse, line 303) closes it with `nil`, which the watcher takes for the owner's dispose: the
  media session stays open and nobody is told (`client_pull_session.go:92`, "一个资源销毁后，其他资源也被销毁").
  `EndIsTold` names it (`ClosedByLoop`).
- `logic/server_manager__.go:1020`: the last HLS viewer leaves while a publisher
  joins, and the publisher's new muxer is stopped (comment at line 1018).
- `logic/server_manager__.go:1055`: the deferred clean-up deletes the files of a
  muxer started after its check (message at line 1056).
- `logic/server_manager__.go:1045`: with `enable_https` alone nothing is cleaned up
  (`README.md:168`).
- `rtprtcp/rtp_unpacker_aac.go:99`: `RtpPacketList.Size` drifts by one per
  fragmented AAC frame (`rtp_packet_list.go:30`, "实际元素个数").
- `rtprtcp/rtcp_rr_producer.go:88`: the unsigned `lostInterval` wraps when more
  packets arrive than expected (`rtcp.go:38`, "fraction lost").
- `rtsp/avpacket_queue.go:318`: when the loop meets its bound a forced video packet
  overtakes older audio (`avpacket_queue.go:26`, "交替递增输出").
- `logic/group__core_streaming.go:584`: a viewer of RTSP that need not wait has either no video to
  wait for or "已经发送过了GOP起始数据" (line 586). Its wait is also used up by a key frame between its DESCRIBE
  and its SETUP, which it is not sent, by a G711 packet whose first byte looks like a key
  frame's, and by a PLAY before the first video (`group__out_sub.go:97`).
- `rtmp/chunk_divider.go:73`: a timestamp of exactly `0xFFFFFF` gets no extended
  timestamp, which `chunk_composer.go:146` (`>=`) reads: lal loses the framing of
  its own chunks.

And these, which no document rules out, are exceptions of properties or limits of
what is stated:

- `logic/server_manager__.go:994`: an HLS viewer whose group is erased between lookup and join is
  in a group that no lookup finds; when it ends while no other group of the name exists,
  no `on_sub_stop` follows its `on_sub_start` (line 1007).
- `logic/server_manager__.go:437`: a `StartPull` between the timer's `IsInactive` and `Dispose`
  starts its pull in a group that no lookup finds any more.
- `rtmp/client_session.go:392`: a push answers its peer's pings and acknowledges its data, and
  `IsAlive` counts these answers (`base/basic_session_stat.go:151`): a peer that pings within
  every alive check keeps a push for ever that has no input.
- `logic/snapshot_store.go:215`: a request that waits for another's decoding fails
  when a newer key frame was stored meanwhile, although a picture was made.
- `gb28181/upstream_register_client.go:59`: any datagram that arrives first, also a late
  answer to an earlier REGISTER, is taken as the answer to this one.
- `remux/dummy_audio_filter.go:149`: the sum wraps at 2^32 and is then compared with the video's
  timestamp. Silence that passes the wrap before the video does is made in a loop that never
  ends, because 2^32 is a multiple of the 64 ms after which its pattern repeats; video that
  passes it first gets no silence for the next 49 days.
- `remux/avpacket2rtmp.go:188`: when the first of a group of parameter sets is lost, the others
  wait for the first of the next group, and all later headers are made of two groups. Nothing
  is wrong as long as the sets stay the same; at their next change one header mixes two
  versions.
- `remux/rtmp2mpegts_filter__timestamp.go:21`: audio and video are counted from their own first
  frames (the code's TODO). After fragments of audio alone the first video is at 0 again, which
  `shouldForceSplitByTimestamp` takes for time gone back: it cuts a fragment before that frame,
  also when it is no key frame. `StartsWithKey` names it (`ClocksDiffer`).
- `rtprtcp/rtp_packet_list.go:111`: until a frame has been handed on nothing is waited for, so the
  first is whichever was complete first, and frames sent before it are stale when they arrive.
- `rtmp/client_session.go:689`, `rtsp/client_command_session.go:685`: a dispose before there is a
  connection uses `disposeOnce` up, and a handshake goes on after its time-out: no dispose closes
  what is dialled then. `EndIsEnd` speaks of sessions whose owner was told of their end.
- `gb28181/server.go:2144`: `Start` runs on a goroutine of its own. A media server that is disposed
  before it (an INVITE refused at once) has no listener to close yet
  (`mediaserver/server.go:186`) and is never disposed again: its port listens for ever, without
  an entry in `MediaServerMap`. `PortsAccounted` names it (`early`).
- `gb28181/mediaserver/server.go:188`: `Dispose` closes the connections that have stored themselves;
  one that has not had its first packet stays open and may still become a publisher.
- `gb28181/channel.go:425`: the ACK is published before line 428 sends it. A `Bye` in between makes
  the same object a BYE and sends it; line 428 sends it again, and no ACK goes out.
  `OneByePerDialog` names it (`overtaken`). Not modelled: `byeClear` sets `ackReq` to nil without
  `dialogMu` (line 550), so `Bye` may find it nil between its test and its use (lines 562 to 565),
  which panics instead of sending a BYE.
- `gb28181/server.go:1154`, `:1913`, `:3240`, `:3329`: a session's `CancelFeed` is tested and its
  entry deleted without a lock. A feed that `OnUpstreamInvite` starts and stores in between (lines 986 to 989) is
  not cancelled and has no session any more. `ForwardsAccounted` names it (`lateFeeds`).
- A SETUP that is handled after the group's timer disposed its RTSP session opens
  sockets that nothing closes.
- `gb28181/server.go:2061`: `Dispose` sets `stopCh` to nil after closing it, so an upstream
  loop that was not waiting in its `select` at that moment never sees the end.

## 7. Proofs

Eight modules prove, with TLAPS, what the runs check on small instances, for every
value of the constants that satisfies the named assumptions. Every temporal theorem
has the same form: an inductive invariant, one step per action and under it one
per conjunct the action disturbs, and a frame lemma for what it leaves alone. The
larger inductive invariants were found with TLC, as invariants of a run's instance.
Where a handler loops over a queue, the loop is a recursive function of the model;
that it exists and what it returns is shown by induction, as a set of numbers
(`Induction`), which rests on the library's well-foundedness of the naturals.

**RelayPullProofs** (any attempts, publishers, viewers, slots and bounds)

- `Typing`: `Spec => []TypeOK`, inductive as it stands.
- `OneInput`: `Spec => []AtMostOneInput`. No strengthening beyond `TypeOK` is needed,
  because every handler that sets an input field first checks all five under
  the same lock; that check is why the two protocols' fields, the three
  publisher fields and late sessions cannot overlap. The lemma `InputStep`
  says what any step does to the input: nothing, set one field when all are
  empty, or clear the one that was set.
- `Refinement`: `Spec => ImplementsInStream`. From `InputStep`: the abstract input is
  the session in the field that is set, every step maps to `InStream`'s take,
  leave or a stutter.
- `Accounted`: `Spec => []AttemptsAccounted`. `MarkInv` adds what makes the mark's half
  inductive: a goroutine that has not called `Start` has no connect goroutine and no
  result, and while an attempt is current its session has not passed
  `AddPullSession`, the point that clears the mark before `Start` can return nil.
  `SlotsInv` counts the semaphore's tokens as the set of goroutines that hold one.

**GroupLifecycleProofs** (any names, sessions and bounds)

- `Typing`: `TypeOK` with `Named`: a session that looked a group up remembers the name it used,
  which `OnDelSession` needs to find a group at all.
- `NoGhost`: `Spec => []NoGhostInMap`. `MapInv`: a group is in the map under one name, and an
  unused object is empty. `HeldInv`: between lookup and join a session holds a group
  that is, if it is still in the map, the one of its name, and between lookup and
  leave it holds the only group of the map that it can be in.
- `NeverBlocks`: `Spec => []DisposeNeverBlocks`. `LoopInv`: a live group has a `RunLoop` and an
  empty `exitChan`. `IterInv`: what an `Iterate` has still to visit is in the map and not
  disposed by it. `MessageInv`: the group of a name can take one more message until
  the timer has disposed it, and only the manager's own `Dispose` leaves disposed
  groups in the map.

**HlsLifecycleProofs**: `Typing` with `HandInv`, that `OnDelHlsSubSession` has a group in hand
while it asks and stops, and `Matches`: `Spec => []HandlerMatchesGroup`. `MatchInv` states it
group by group and adds that the one viewer between lookup and join holds the mapped
group or an erased one; `PairInv` counts the notifications.

**RelayPushProofs**: `Typing`, and `Accounted`: `[]PushesAccounted` under the hypothesis that no
`push_url` of the API is also a target of the configuration. The hypothesis is what the
code needs and does not check: `push_panic` is about such a URL. `SlotsInv` counts
the handshake slots; `TargetInv` says that a target keeps its entry, that the entry's flag
means one goroutine works for it, and that entries of the API are there only while
their flag is set, so that `startPushIfNeeded` never takes one for its own; `CountInv`
bounds the starts of a relay by `retry_num`.

**BroadcastProofs** (any sessions, sizes of the cache and of the merge writer)

- `CacheHoldsRecentGops`: `Spec => []CacheIsRecentGops`, `NothingTwiceOrSkipped`:
  `Spec => []NoFrameTwiceOrSkipped` and `JoiningIsDecodable`: `Spec => []JoinsDecodable`,
  from one invariant, `BroadcastInv`. `HistOk`: publishers come one after the other and
  are well formed. `CacheOk`: the cached headers are those of the input, and `Recent`, the
  ring in terms of the sets of key frames and frames. `SessionOk`: a session that is away
  or fresh was sent nothing, a viewer that waits no frame; of one that is ready,
  what it was sent with what the merge writer holds (`DueOf`) is unbroken, begins its
  video with a key frame and, for a push whose cache is fed, has the header of every
  publisher whose video it has. `CacheOfOk`: a cache that is not fed stays as it was made,
  and the lemmas about greetings cover it as one without input.
  `ViewersGetHeaders` is only model-checked.
- The lemmas about the ring (`RingPositions`, `NewGop`, `LastGop`) say where the `i`-th GOP
  is after the ring wrapped; those about sequences (`Flattened`, `CachedGopsAre`) that
  what is sent from it is ascending and has every frame from its first on. This is
  where "joining from the cache neither repeats nor skips" comes from: a
  greeting ends with the last frame broadcast, so the next message continues it
  (`UnbrokenMore`). For an rtmp viewer it continues only because the merge writer is emptied
  to the others first: the premise of `RtmpStep` that a greeted viewer implies a flush.

**MediaProofs** (RTMP's chunk streams and the reception of RTP, each with the
specification of its part of the protocol layer alone; and the HLS muxer)

- `ChunksCompose`: `ChunkSpec => []ComposedIsSent`, for any chunk sizes, lengths and numbers of
  streams. `ChunkInv` says chunk stream by chunk stream that the composer's stream is in
  step with the sender's: the same header fields, and as many bytes read of the message
  in progress as were written of it.
- `ReceptionIsRight`: `RtpSpec => []ReceptionRight`, for any stream, list size and window.
  `FramesInv`: the list is sorted by distance and holds only packets that are not yet
  done (`Good`); as long as it never overran, it holds exactly the packets that came
  after the last one done (`InStep`), so the frames that left follow one another without a
  gap (`Unbroken`) and the next one is not complete (`Waiting`): `NothingGivenUp`.
  `TryUnpackOne` finds a frame only at its first
  packet and takes it whole. `CountInv` relates the
  cycles and the highest number of `RrProducer` to the newest packet. That the list never
  fills while the disorder fits is an argument by counting: the packets between the first
  missing one and the newest are fewer than the window and a frame.
- `PlaylistsAreRight`: `Spec => []PlaylistIsNewestClosed`, for any number of fragments and
  any clean-up mode, also while files cannot be created. `MuxerOk`: files are numbered as
  they are made, the ring has the `j`-th at place `(j - 1) % FragsCapacity` until it is a
  round behind (`RingHolds`), one playlist is written for each fragment that is closed, and
  a file is on disk until `FragmentNum + DeleteThreshold` more were closed. `RingDistinct` is
  the arithmetic behind it: less than a round apart, two files have different places;
  `NextPlace`, that what the next place still remembers, which `DeleteStale` removes, is just
  out of reach of the playlists that may still be in use.
- `FramesAreKept`: `Spec => []NothingLostOnceOpen`. `FilesGood`: the files hold what was
  emitted, each track in order and from its first message on complete. `Heard`: what was
  emitted and what is collected is among the messages gone through, and the collected
  audio is newer than the emitted. `Framed` is the re-entrant step: the frame is counted
  as emitted before the fragment opens, the collected audio enters the file first, and the
  order within each track holds because the two are of different tracks, or the cache was
  emptied before.

**ProtocolLayerProofs** (`PartSteps` reduces a step of the union to one of a part)

- `EndsAreEnds`: `LayerSpec => []EndIsEnd`. `ClientInv`: the handshake goroutine dials once,
  nothing is disposed before `Start` has returned, and a session that started has no
  goroutine left that could open a socket. `RtmpClientInv`: the owner waits on a connection
  only once the stream has started, so one given up before is none it waits on.
- `ConnsLeave`: `LayerSpec => []ConnLeaves`, and `DescribesAnswered`:
  `LayerSpec => []NoDescribeForgotten`. `RtspServerInv` numbers the sessions of a connection
  (`Numbered`) and says that a connection that asked once knows the session it made
  and the group has it as what it is (`OneSession`); its end therefore finds it.
  `InRegistry`, in `RtmpServerInv`, says the same of RTMP's connections and names.
- `CatalogsRecent`: `LayerSpec => []CatalogRecent`, the half of `CascadeViews` about the
  catalog. `QueryInv` says that the list a query has built so far, and the
  subscriptions it goes through, were true in the instant it runs in, although a
  reload may have replaced the `upstreamServer` it found; `CacheInv` that a cached list,
  while it may be used, was true when it was made, although it may be cached after an
  invalidation.
- `SnapshotTyping`, and `SnapshotsCurrent`: `SnapshotSpec => []SnapshotCurrent`, where
  `SnapshotSpec` is the part of the protocol layer that moves alone in the run. A request
  that waits for another's decoding must not be served a picture older than the frame
  it found. `ItemInv`: an item's picture is of a frame there has been, with its
  timestamp. `DecoderInv`: a mark has its decoder, and no item has two. `RequestInv`: what an
  item shows never gets older than what a request found, and a request that was
  woken finds a result unless `Update` moved its item meanwhile.

**GbUpstreamProofs** (any channels, platforms, dialogs, ports and scenarios)

- `OneBye`: `Spec => []OneByePerDialog`. `AckInv` and `SentInv` say where a dialog can be:
  numbers above the last INVITE are unused, an INVITE that waits for its answer, or has
  published its ACK and not sent it, holds a number nobody else works on, and so does an
  object with a dialog.
- `PortsFound`: `Spec => []PortsAccounted`. `JobInv` and `AcquireInv`: without retries the
  periodic job sends no INVITE, so what the API found missing in `MediaServerMap` is still
  missing when it stores its server. A server that goes leaves both tables, or its port
  is an early one.
- `Forwarded`: `Spec => []ForwardsAccounted`. `SubsInv`, `CallInv` and `SessInv` describe the
  sessions, the subscriptions they come from and the handlers that store them;
  `SinkInv` (`Linked`) says that a sink of the virtual server has a session that says so, that
  a feed has one unless it came while the session was being deleted, and that whoever is about
  to delete a session has cancelled what there was; `StoredInv`, that nobody ends a session its
  handler has not stored yet.
- Most steps leave a dialog's data alone; the "quiet" frame lemmas treat them at once,
  and only the steps that send a BYE or handle a port are treated singly.

Assumptions. They are named in the modules that declare the constants, and are what
the configuration or the encoding guarantees: distinct identities, at least one slot,
a minimum backoff not above the maximum, bounds above what they bound; that `None` and
the words for "no connection" are no attempt, kind, proxy record, session record or
connection, and that connections have other names than the server's own
actors; and of a GB28181 scenario that the channels, subscriptions and the port it
starts with are of those the model has.

Only model-checked:

- liveness (`AttemptResolves`, `DeadSessionLeaves`, `WantedPullStarts`, `PushFollowsInput`,
  `TargetPushed`, `IdleGroupErased`, `ClosedSessionLeaves`, `EndedIsCleaned`, `EndIsTold`,
  `CallsReturn`, `ClosedConnLeaves`): fairness and `ENABLED` are outside the prover;
- `StartsWithKey`: a jump of the audio's time may cut a fragment too, so what its video
  starts with depends on the timestamps the publisher sends, and the invariant would have to
  follow them through the audio cache;
- the invariants of `Remux`, and `MergedByTime`, which fold whole queues through
  several components;
- `RegistrationKept`: it is stated for failures up to `Tolerated`, which fits a validity and a
  backoff only for given numbers.

## 8. Not modelled

Byte formats (RTMP handshake, AMF0, FLV, MPEG-TS, SDP, NALU parsing, RTP and
RTCP layouts, the PS demuxer of GB28181), statistics, logging, recording,
configuration parsing and HTTP framing carry no control state of their own. Of
GB28181, positions, PTZ control and the queries of recordings are one message each
way; of RTMP, acknowledgements and user control messages are answered at once or
ignored. The notify queue is
one channel that drops what does not fit. `ComplexGroupManager` is unused by its own
comment. `AvPacketQueue.adjustTs` is behind a flag that is off.
Go data races without a lock (`HasHlsSubSession`, `RrProducer` and
`AvPacketQueue` over UDP) have no defined outcome to model: what a torn slice
or counter does is up to the memory model. Delays have no model either: that
`PushSession.Start` runs with `group.mutex` held (`logic/group__relay.go:239`) is one
step in `RelayPush`.
