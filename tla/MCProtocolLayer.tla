--------------------------- MODULE MCProtocolLayer ---------------------------
(* Small instances of every part of the protocol layer.                    *)
EXTENDS ProtocolLayer

\* Every role, transport and timeout, with one track and with two
AllClients ==
  {[role |-> r, tcp |-> t, tracks |-> s, timeout |-> b] :
     r \in {"pull", "push"}, t \in BOOLEAN, s \in {<<"video">>, <<"video", "audio">>},
     b \in BOOLEAN}

AllRtmpClients == {[role |-> r, timeout |-> b] : r \in {"pull", "push"}, b \in BOOLEAN}

\* A message of one chunk, one of several, and an aggregate
SmallMessages ==
  {[len |-> 1, type |-> "av"], [len |-> 3, type |-> "av"], [len |-> 3, type |-> "agg"]}

\* A list with room for the reordering, one that fills up around packets of
\* unknown type, and fragmented AAC
SmallStreams ==
  {[codec |-> "avc", ends |-> <<1, 4, 6, 7>>, unknown |-> {}, maxSize |-> 5, window |-> 2],
   [codec |-> "avc", ends |-> <<1, 2, 5, 6, 7, 9>>, unknown |-> {2, 5}, maxSize |-> 3,
    window |-> 3],
   [codec |-> "aac", ends |-> <<1, 3, 4, 6, 7>>, unknown |-> {}, maxSize |-> 3, window |-> 3]}

\* Intervals of one track: regular ones, a standstill, a step back, a rotation and
\* a jump too long to be believed
Irregular == {1, 4, 0, -3, -11, 31}

\* Publishers of every source, with the dummy audio filter and without
Publisher(source, codec, audio, sdp, filter, steps) ==
  [source |-> source, codec |-> codec, audio |-> audio, sdp |-> sdp, filter |-> filter,
   start |-> 0, steps |-> steps, udp |-> FALSE, odd |-> {1, 3}]
\* Two lose a packet, and the clock of one wraps while silence is made
SomePublishers ==
  {Publisher("gb", "avc", "aac", FALSE, FALSE, {40}),
   Publisher("gb", "hevc", "g711", FALSE, TRUE, {55}),
   Publisher("rtsp", "avc", "aac", TRUE, TRUE, {40}),
   Publisher("rtsp", "hevc", "none", FALSE, FALSE, {40}),
   [Publisher("rtsp", "avc", "none", FALSE, FALSE, {40}) EXCEPT !.udp = TRUE],
   [Publisher("gb", "avc", "none", FALSE, FALSE, {40}) EXCEPT !.udp = TRUE],
   Publisher("rtmp", "avc", "g711", FALSE, FALSE, {40}),
   Publisher("rtmp", "avc", "aac", FALSE, TRUE, {40, -10}),
   [Publisher("rtmp", "avc", "none", FALSE, TRUE, {40, 49}) EXCEPT !.start = 124]}

\* Lost messages with and without a digest, a restart of the platform, a reload, a wrong
\* password and the end of the server, and catalogs that are asked for during changes
Calm == [auth |-> FALSE, password |-> TRUE, lost |-> 0, restarts |-> 0, reloads |-> 0,
         changes |-> 0, asks |-> 0, disposes |-> 0, end |-> 2]
SomePlans ==
  {[Calm EXCEPT !.auth = TRUE, !.lost = 1, !.end = 12], [Calm EXCEPT !.lost = 2, !.end = 14],
   [Calm EXCEPT !.restarts = 1, !.lost = 1, !.end = 9],
   [Calm EXCEPT !.reloads = 1, !.end = 4], [Calm EXCEPT !.reloads = 1, !.asks = 2, !.end = 1],
   [Calm EXCEPT !.auth = TRUE, !.password = FALSE, !.lost = 1, !.disposes = 1, !.end = 6],
   [Calm EXCEPT !.changes = 1, !.asks = 2], [Calm EXCEPT !.changes = 2, !.asks = 1, !.end = 1],
   [Calm EXCEPT !.reloads = 1, !.changes = 1, !.asks = 2, !.end = 1]}
=============================================================================
