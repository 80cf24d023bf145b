------------------------------ MODULE GbDialog ------------------------------
(***************************************************************************)
(* GB28181, the side of the cameras: a device registers and reports its    *)
(* channels, the HTTP API has the server INVITE a channel, the device      *)
(* answers and sends RTP to the port the server opened for the channel,    *)
(* and the connection becomes the publisher of a stream.  A BYE of either  *)
(* side, a lost connection, an expired playback or the retry of a lost     *)
(* stream end and restart all that.                                        *)
(*                                                                         *)
(* Actors: the API (one call at a time: every call holds sm.mutex), the    *)
(* job goroutine of startJob, one goroutine per media connection, the      *)
(* caller of PlaybackScale and the SIP handlers.  Steps end where a lock   *)
(* is released, a SIP answer is awaited or another goroutine is triggered; *)
(* what runs between two such points is one step.                          *)
(*                                                                         *)
(* Abstractions: one device; every PlayInfo of the program has SinglePort  *)
(* false, so each channel has a media server of its own; the SSRC of an    *)
(* INVITE is the number of its dialog, 0 what a device answers that does   *)
(* not know its SSRC; stream_index is 0.                                   *)
(***************************************************************************)
EXTENDS Naturals, FiniteSets

CONSTANTS
    Channels,       \* channel ids of the device
    Names,          \* stream names
    Ports,          \* the ports of the AvailConnPool, 1..n
    Conns,          \* media connections
    Objs,           \* identities of Channel objects, 1..n
    MaxDialogs,     \* INVITEs sent
    RetryMax,       \* conf.RetryMaxCount
    MaxRegisterCount,
    Scenarios,      \* configurations, channels known at first, numbers of outside events
    None            \* nil, the empty string

ASSUME GbDialogAssumption ==
    /\ MaxDialogs \in Nat /\ RetryMax \in Nat /\ MaxRegisterCount \in Nat
    /\ IsFiniteSet(Ports) /\ Ports = 1..Cardinality(Ports)
    /\ IsFiniteSet(Objs) /\ Objs = 1..Cardinality(Objs)
    /\ None \notin Channels \cup Names \cup Nat
    /\ Conns \cap {"api", "job", "scale", "sip"} = {}
    /\ \A s \in Scenarios : /\ s.known \subseteq Channels
                           /\ s.conf.subs \subseteq Names /\ s.conf.names \subseteq Names
                           /\ s.conf.answers \subseteq {"same", "own", "unknown"}
                           /\ Cardinality(s.known) \in Objs \cup {0} /\ s.conf.ports \in Ports

Dialogs == 1..MaxDialogs
Ssrcs == 0..(MaxDialogs + 1)
OwnSsrc == MaxDialogs + 1       \* an SSRC a device chose itself
Procs == {"api", "job", "scale", "sip"} \cup Conns

VARIABLES
    conf,       \* AutoRetryOnDisconnect, password set, QuickLogin, media over TCP,
                \* ports in use and the configured subscriptions of the platforms;
                \* streams the API asks for, SSRCs the device answers with
    left,       \* outside events that may still happen
    dev,        \* the Device, its DeviceNonce and DeviceRegisterCount
    obj,        \* channelMap: the Channel object of a channel id, 0: none
    ch,         \* Channel objects
    lock,       \* who holds Channel.dialogMu
    invites,    \* INVITEs sent so far
    byes,       \* BYEs sent in each dialog
    overtaken,  \* history: dialogs whose BYE went out before their ACK
    owner,      \* the channel whose media server listens on a port
    starting,   \* ports whose server's Start has not run: it has no listener yet
    early,      \* history: ports whose server was disposed before its Start ran
    lastPort,   \* AvailConnPool.lastPort
    mediaMap,   \* MediaServerMap: the port of a channel's media server, 0: none
    format,     \* streamFormats of the media server on a port
    byKey,      \* inviteByMediaKey: <<stream name, ssrc>> or None
    bySsrc,     \* inviteBySsrc
    conn,       \* media connections
    pub,        \* the connection that publishes a stream
    recovery,   \* recoveryPending: channel and RetryCount
    playback,   \* playbackSessions
    scaled,     \* playbackScales
    msIndex,    \* streams that streamMediasvrIndex maps to the virtual server
    proc        \* what each actor is doing

deviceVars == <<dev, obj>>
indexVars == <<byKey, bySsrc>>
byeVars == <<byes, overtaken>>
listenVars == <<owner, starting, early>>
mediaVars == <<listenVars, mediaMap, format, conn, recovery>>
playVars == <<playback, scaled>>
streamVars == <<pub, msIndex>>
dialogVars == <<conf, left, deviceVars, ch, lock, invites, byeVars, lastPort, indexVars,
                mediaVars, streamVars, playVars, proc>>

NewChannel(c, on) ==
    [c |-> c, on |-> on, invite |-> FALSE, name |-> None, ssrc |-> 0, key |-> 0,
     play |-> None, ack |-> 0]
ClearMedia(r) == [r EXCEPT !.invite = FALSE, !.name = None, !.ssrc = 0, !.key = 0]
NoRecovery == [c |-> None, k |-> 0]
NoConn == [port |-> 0, live |-> FALSE, saved |-> FALSE, open |-> FALSE, name |-> None]
Idle == [pc |-> "idle", o |-> 0, then |-> "idle", n |-> None, c |-> None,
         d |-> 0, k |-> 0, old |-> None, pb |-> FALSE]

Spend(e) == left[e] > 0 /\ left' = [left EXCEPT ![e] = @ - 1]
ApiFree == proc["api"].pc = "idle"       \* sm.mutex
JobFree == proc["job"].pc = "idle"

\* Channel objects still reachable from Devices.
Listed == {obj[c] : c \in Channels} \ {0}
FindChannelByStreamName(n) == {o \in Listed : ch[o].invite /\ ch[o].name = n}

\* A media server has the connections that stored themselves in its map.
HasStream(p, n) ==
    \E k \in Conns : conn[k].live /\ conn[k].saved /\ conn[k].port = p /\ conn[k].name = n
HasActiveMediaStream(n) ==
    \/ n \in msIndex
    \/ \E c \in Channels : mediaMap[c] # 0 /\ HasStream(mediaMap[c], n)
    \/ pub[n] # None

-----------------------------------------------------------------------------
Init ==
    /\ \E s \in Scenarios :
          /\ conf = s.conf /\ left = s.left
          /\ dev = [in |-> s.known # {}, status |-> "ONLINE", nonce |-> FALSE, tries |-> 0]
          /\ \E f \in [Channels -> 0..Cardinality(s.known)] :
                /\ \A c \in Channels : f[c] = 0 <=> c \notin s.known
                /\ \A c, e \in s.known : f[c] = f[e] => c = e
                /\ obj = f
                /\ ch = [o \in Objs |-> IF \E c \in s.known : f[c] = o
                                        THEN NewChannel(CHOOSE c \in s.known : f[c] = o, TRUE)
                                        ELSE NewChannel(None, FALSE)]
    /\ lock = [o \in Objs |-> None]
    /\ invites = 0
    /\ byes = [d \in Dialogs |-> 0] /\ overtaken = {}
    /\ owner = [p \in Ports |-> None] /\ starting = {} /\ early = {}
    /\ lastPort = 1
    /\ mediaMap = [c \in Channels |-> 0]
    /\ format = [p \in Ports |-> {}]
    /\ byKey = [p \in Ports |-> None]
    /\ bySsrc = [r \in Ssrcs |-> None]
    /\ conn = [k \in Conns |-> NoConn]
    /\ pub = [n \in Names |-> None]
    /\ recovery = [n \in Names |-> NoRecovery]
    /\ playback = {} /\ scaled = {} /\ msIndex = {}
    /\ proc = [x \in Procs |-> Idle]

-----------------------------------------------------------------------------
(* Registration and the channel list.                                       *)

Forget == obj' = [c \in Channels |-> 0]

TooMany(dc) == dc > MaxRegisterCount

\* A device that is let in again, or for the first time
RecoverDevice == [dev EXCEPT !.status = "ONLINE", !.nonce = FALSE, !.tries = 0]
StoreDevice == [in |-> TRUE, status |-> "ONLINE", nonce |-> FALSE, tries |-> 0]

\* A digest is checked against the nonce handed out with the last 401.
OnRegister(auth, unregister) ==
    LET known == dev.tries > 0
        dc == IF known THEN dev.tries ELSE 1
        banned == conf.auth /\ auth # "none" /\ known /\ TooMany(dc)
        pass == ~conf.auth \/ (auth = "good" /\ dev.nonce /\ ~banned)
    IN /\ Spend("register")
       /\ CASE pass /\ unregister ->
                 /\ dev' = IF dev.in THEN [dev EXCEPT !.in = FALSE, !.nonce = FALSE, !.tries = 0]
                           ELSE [dev EXCEPT !.tries = IF conf.auth THEN dc ELSE @]
                 /\ Forget
            [] pass /\ ~unregister ->
                 /\ dev' = IF dev.in THEN RecoverDevice ELSE StoreDevice
                 /\ UNCHANGED obj
            [] banned -> UNCHANGED deviceVars
            [] OTHER ->
                 /\ dev' = [dev EXCEPT !.nonce = TRUE,
                                       !.tries = IF auth = "none" THEN @ ELSE dc + 1]
                 /\ UNCHANGED obj
       /\ UNCHANGED <<conf, ch, lock, invites, byeVars, lastPort, indexVars, mediaVars, streamVars,
                      playVars, proc>>

\* banTick
removeBanDevice ==
    /\ JobFree /\ conf.auth /\ dev.tries > MaxRegisterCount
    /\ Spend("unban")
    /\ dev' = [dev EXCEPT !.tries = 0]
    /\ UNCHANGED <<conf, obj, ch, lock, invites, byeVars, lastPort, indexVars, mediaVars,
                   streamVars, playVars, proc>>

\* What a channel list or a notification does to one channel; the dialog of a
\* channel that is already known is kept.
addOrUpdateChannel(c, on) ==
    IF obj[c] # 0 THEN ch' = [ch EXCEPT ![obj[c]].on = on] /\ UNCHANGED obj
    ELSE \E o \in Objs :
            /\ ch[o].c = None /\ \A q \in 1..(o - 1) : ch[q].c # None
            /\ ch' = [ch EXCEPT ![o] = NewChannel(c, on)]
            /\ obj' = [obj EXCEPT ![c] = o]

\* MESSAGE of a device: with QuickLogin an unknown one is let in by a keepalive
\* or a catalog.
OnMessage(cmd, c, on) ==
    LET quick == ~dev.in /\ conf.quick /\ cmd \in {"Keepalive", "Catalog"} IN
    /\ dev.in \/ quick
    /\ Spend("message")
    /\ dev' = [dev EXCEPT !.in = TRUE,
                          !.status = CASE cmd = "Alarm" -> "ALARMED"
                                       [] quick \/ @ = "OFFLINE" -> "ONLINE"
                                       [] OTHER -> @]
    /\ IF cmd = "Catalog" THEN addOrUpdateChannel(c, on) ELSE UNCHANGED <<obj, ch>>
    /\ UNCHANGED <<conf, lock, invites, byeVars, lastPort, indexVars, mediaVars, streamVars,
                   playVars, proc>>

\* ON, OFF (VLOST, DEFECT), DEL, ADD (UPDATE)
UpdateChannelStatus(event, c) ==
    CASE event = "ADD" -> addOrUpdateChannel(c, TRUE)
      [] event = "DEL" -> obj' = [obj EXCEPT ![c] = 0] /\ UNCHANGED ch
      [] OTHER -> /\ obj[c] # 0 /\ ch' = [ch EXCEPT ![obj[c]].on = (event = "ON")]
                  /\ UNCHANGED obj

\* NOTIFY of the catalog subscription
OnNotify(event, c) ==
    /\ dev.in /\ Spend("notify")
    /\ UpdateChannelStatus(event, c)
    /\ UNCHANGED <<conf, dev, lock, invites, byeVars, lastPort, indexVars, mediaVars, streamVars,
                   playVars, proc>>

\* statusTick: a silent device goes offline, after three keepalives it is dropped
\* with its channels; nothing is sent and nothing is closed.
statusCheck(dropped) ==
    /\ dev.in /\ JobFree /\ Spend("silent")
    /\ IF dropped THEN dev' = [dev EXCEPT !.in = FALSE] /\ Forget /\ UNCHANGED ch
       ELSE /\ dev' = [dev EXCEPT !.status = "OFFLINE"]
            /\ ch' = [o \in Objs |-> IF o \in Listed THEN [ch[o] EXCEPT !.on = FALSE] ELSE ch[o]]
            /\ UNCHANGED obj
    /\ UNCHANGED <<conf, lock, invites, byeVars, lastPort, indexVars, mediaVars, streamVars,
                   playVars, proc>>

-----------------------------------------------------------------------------
(* Media servers, the index of invited streams, and the end of a dialog.    *)

Others == <<conf, deviceVars, lastPort, invites, streamVars>>

\* Mutant: the map forgets the server, the listener stays.
DisposeKeepsListener(c) ==
    /\ mediaMap' = [mediaMap EXCEPT ![c] = 0]
    /\ UNCHANGED <<listenVars, format, conn>>

\* Dispose closes the listener and the connections in the server's map; one that
\* has not stored itself yet is left alone.  A server that has not started has
\* neither, and is not disposed a second time: its port listens from then on.
Dispose(c) ==
    LET p == mediaMap[c] IN
    IF p = 0 THEN UNCHANGED <<listenVars, mediaMap, format, conn>>
    ELSE IF p \in starting
    THEN /\ mediaMap' = [mediaMap EXCEPT ![c] = 0]
         /\ early' = early \cup {p}
         /\ UNCHANGED <<owner, starting, format, conn>>
    ELSE /\ mediaMap' = [mediaMap EXCEPT ![c] = 0]
         /\ owner' = [owner EXCEPT ![p] = None] /\ UNCHANGED <<starting, early>>
         /\ format' = [format EXCEPT ![p] = {}]
         /\ conn' = [k \in Conns |-> IF conn[k].live /\ conn[k].port = p
                        THEN [conn[k] EXCEPT !.live = FALSE, !.open = @ /\ ~conn[k].saved]
                        ELSE conn[k]]

\* A stop by name also cancels the retry of that stream.
OnStopMediaServer(c, n) ==
    /\ Dispose(c)
    /\ recovery' = IF mediaMap[c] = 0 THEN recovery ELSE [recovery EXCEPT ![n] = NoRecovery]

\* The index is by media key; the SSRC of an entry goes with it.
OnInviteMediaInfoSet(info) ==
    IF ~info.invite \/ info.key = 0 THEN UNCHANGED indexVars
    ELSE LET p == info.key
             stale == IF byKey[p] = None THEN {} ELSE {byKey[p][2]} \ {info.ssrc}
         IN /\ byKey' = [byKey EXCEPT ![p] = <<info.name, info.ssrc>>]
            /\ bySsrc' = [r \in Ssrcs |-> IF r # 0 /\ r = info.ssrc THEN info.name
                                          ELSE IF r \in stale THEN None ELSE bySsrc[r]]

OnInviteMediaInfoClear(p) ==
    IF p = 0 \/ byKey[p] = None THEN UNCHANGED indexVars
    ELSE /\ bySsrc' = [bySsrc EXCEPT ![byKey[p][2]] = None]
         /\ byKey' = [byKey EXCEPT ![p] = None]

\* The ACK of the dialog becomes its BYE: one and the same request object.
SendBye(d) ==
    IF d = 0 THEN UNCHANGED byeVars
    ELSE /\ byes' = [byes EXCEPT ![d] = @ + 1]
         /\ overtaken' = IF \E y \in Procs : proc[y].pc = "ack" /\ proc[y].d = d
                         THEN overtaken \cup {d} ELSE overtaken

\* Mutant: ackReq is not reset.
ByeStopKeepsAck(x) ==
    LET o == proc[x].o IN
    /\ proc[x].pc = "bye" /\ lock[o] = None
    /\ lock' = [lock EXCEPT ![o] = x]
    /\ SendBye(ch[o].ack)
    /\ IF ch[o].play = None THEN UNCHANGED mediaVars
       ELSE OnStopMediaServer(ch[o].c, ch[o].play)
    /\ proc' = [proc EXCEPT ![x].pc = "clear"]
    /\ UNCHANGED <<Others, left, ch, indexVars, playVars>>

\* Channel.Bye under dialogMu, up to stopMediaServer.  (byeClear takes no lock: if it
\* clears ackReq between the test and the use, the goroutine panics.)
ByeStop(x) ==
    LET o == proc[x].o IN
    /\ proc[x].pc = "bye" /\ lock[o] = None
    /\ lock' = [lock EXCEPT ![o] = x]
    /\ SendBye(ch[o].ack)
    /\ ch' = [ch EXCEPT ![o].ack = 0]
    /\ IF ch[o].play = None THEN UNCHANGED mediaVars
       ELSE OnStopMediaServer(ch[o].c, ch[o].play)
    /\ proc' = [proc EXCEPT ![x].pc = "clear"]
    /\ UNCHANGED <<Others, left, indexVars, playVars>>

\* The rest of Channel.Bye.
ByeClear(x) ==
    LET o == proc[x].o IN
    /\ proc[x].pc = "clear"
    /\ lock' = [lock EXCEPT ![o] = None]
    /\ OnInviteMediaInfoClear(ch[o].key)
    /\ ch' = [ch EXCEPT ![o] = [ClearMedia(@) EXCEPT !.play = None]]
    /\ proc' = [proc EXCEPT ![x].pc = proc[x].then]
    /\ UNCHANGED <<Others, left, byeVars, mediaVars, playVars>>

\* Channel.byeClear takes no lock, sends nothing and keeps playInfo.
byeClearStop(x) ==
    LET o == proc[x].o IN
    /\ proc[x].pc = "byeClear"
    /\ IF ch[o].play = None THEN UNCHANGED mediaVars
       ELSE OnStopMediaServer(ch[o].c, ch[o].play)
    /\ proc' = [proc EXCEPT ![x].pc = "byeClear2"]
    /\ UNCHANGED <<Others, left, ch, lock, byeVars, indexVars, playVars>>

byeClear(x) ==
    LET o == proc[x].o IN
    /\ proc[x].pc = "byeClear2"
    /\ OnInviteMediaInfoClear(ch[o].key)
    /\ ch' = [ch EXCEPT ![o] = [ClearMedia(@) EXCEPT !.ack = 0]]
    /\ proc' = [proc EXCEPT ![x].pc = proc[x].then]
    /\ UNCHANGED <<Others, left, lock, byeVars, mediaVars, playVars>>

\* BYE of the device, by Call-ID.
OnBye(o) ==
    /\ proc["sip"].pc = "idle" /\ o \in Listed /\ ch[o].ack # 0 /\ Spend("devbye")
    /\ proc' = [proc EXCEPT !["sip"] = [Idle EXCEPT !.pc = "byeClear", !.o = o,
                                             !.then = "unregister", !.old = ch[o].name]]
    /\ UNCHANGED <<Others, ch, lock, byeVars, indexVars, mediaVars, playVars>>

\* UnregisterPlaybackSession as the last step of a BYE.
UnregisterPlaybackSession(x) ==
    /\ proc[x].pc = "unregister"
    /\ playback' = playback \ {proc[x].old} /\ scaled' = scaled \ {proc[x].old}
    /\ proc' = [proc EXCEPT ![x] = Idle]
    /\ UNCHANGED <<Others, left, ch, lock, byeVars, indexVars, mediaVars>>

-----------------------------------------------------------------------------
(* The API: a call holds sm.mutex until it returns, SIP answers included.   *)

Return(x) == proc' = [proc EXCEPT ![x] = Idle]
Inviting(c) == IF obj[c] # 0 /\ ch[obj[c]].invite /\ ch[obj[c]].play # None THEN obj[c] ELSE 0

\* Nothing to do when the channel already delivers the stream; otherwise what the
\* channel sends is stopped, whatever its name.
CtrlGb28181Invite(c, n) ==
    LET o == Inviting(c)
        call == [Idle EXCEPT !.n = n, !.c = c]
    IN /\ ApiFree /\ Spend("invite")
       /\ IF o # 0 /\ ch[o].name = n /\ HasActiveMediaStream(n) THEN UNCHANGED proc
          ELSE proc' = [proc EXCEPT !["api"] =
                  IF o = 0 THEN [call EXCEPT !.pc = "stopName"]
                  ELSE [call EXCEPT !.pc = "bye", !.o = o, !.then = "stopName", !.old = ch[o].name]]
       /\ UNCHANGED <<Others, ch, lock, byeVars, indexVars, mediaVars, playVars>>

\* Then whatever has that name, on any channel.
stopByStreamName ==
    LET call == proc["api"]
        found == FindChannelByStreamName(call.n)
    IN /\ call.pc = "stopName"
       /\ playback' = playback \ {call.old} /\ scaled' = scaled \ {call.old}
       /\ IF found = {} THEN proc' = [proc EXCEPT !["api"].pc = "ready", !["api"].old = None]
          ELSE \E o \in found : proc' = [proc EXCEPT !["api"] =
                   [call EXCEPT !.pc = "bye", !.o = o, !.then = "ready", !.old = call.n]]
       /\ UNCHANGED <<Others, left, ch, lock, byeVars, indexVars, mediaVars>>

\* The channel is looked up again and must be on, its device online.
checkOnline ==
    LET call == proc["api"]
        o == obj[call.c]
    IN /\ call.pc = "ready"
       /\ playback' = playback \ {call.old} /\ scaled' = scaled \ {call.old}
       /\ IF o = 0 \/ dev.status # "ONLINE" \/ ~ch[o].on THEN Return("api")
          ELSE proc' = [proc EXCEPT !["api"].pc = "invite", !["api"].o = o]
       /\ UNCHANGED <<Others, left, ch, lock, byeVars, indexVars, mediaVars>>

\* A playback neither stops anything nor looks at the status.
CtrlGb28181Playback(c, n) ==
    /\ ApiFree /\ Spend("playback")
    /\ IF FindChannelByStreamName(n) # {} \/ obj[c] = 0 THEN UNCHANGED proc
       ELSE proc' = [proc EXCEPT !["api"] = [Idle EXCEPT !.pc = "invite", !.o = obj[c], !.c = c,
                                                 !.n = n, !.pb = TRUE]]
    /\ UNCHANGED <<Others, ch, lock, byeVars, indexVars, mediaVars, playVars>>

CtrlGb28181Bye(n) ==
    /\ ApiFree /\ Spend("bye")
    /\ \E o \in FindChannelByStreamName(n) :
          proc' = [proc EXCEPT !["api"] = [Idle EXCEPT !.pc = "bye", !.o = o,
                                               !.then = "unregister", !.old = n]]
    /\ UNCHANGED <<Others, ch, lock, byeVars, indexVars, mediaVars, playVars>>

\* The channel is found under sm.mutex, the INFO is sent without it.
CtrlGb28181PlaybackScale(n) ==
    /\ ApiFree /\ proc["scale"].pc = "idle" /\ Spend("scale")
    /\ \E o \in FindChannelByStreamName(n) :
          proc' = [proc EXCEPT !["scale"] = [Idle EXCEPT !.pc = "scale", !.o = o, !.n = n]]
    /\ UNCHANGED <<Others, ch, lock, byeVars, indexVars, mediaVars, playVars>>

\* dialogMu is held while the answer to the INFO is awaited.
PlaybackScale ==
    LET o == proc["scale"].o IN
    /\ proc["scale"].pc = "scale" /\ lock[o] = None
    /\ IF ch[o].ack = 0 THEN Return("scale") /\ UNCHANGED lock
       ELSE /\ lock' = [lock EXCEPT ![o] = "scale"]
            /\ proc' = [proc EXCEPT !["scale"].pc = "info"]
    /\ UNCHANGED <<Others, left, ch, byeVars, indexVars, mediaVars, playVars>>

\* Mutant: an early return without the unlock.
InfoAnsweredKeepsLock(ok) ==
    /\ proc["scale"].pc = "info"
    /\ lock' = IF ok THEN [lock EXCEPT ![proc["scale"].o] = None] ELSE lock
    /\ IF ok THEN proc' = [proc EXCEPT !["scale"].pc = "set"] ELSE Return("scale")
    /\ UNCHANGED <<Others, left, ch, byeVars, indexVars, mediaVars, playVars>>

InfoAnswered(ok) ==
    /\ proc["scale"].pc = "info"
    /\ lock' = [lock EXCEPT ![proc["scale"].o] = None]
    /\ IF ok THEN proc' = [proc EXCEPT !["scale"].pc = "set"] ELSE Return("scale")
    /\ UNCHANGED <<Others, left, ch, byeVars, indexVars, mediaVars, playVars>>

SetPlaybackScale ==
    /\ proc["scale"].pc = "set"
    /\ scaled' = scaled \cup {proc["scale"].n}
    /\ Return("scale")
    /\ UNCHANGED <<Others, left, ch, lock, byeVars, indexVars, mediaVars, playback>>

-----------------------------------------------------------------------------
(* Channel.Invite, for the API and for the retry of the job goroutine.      *)

\* What the caller does with the outcome: the API registers a playback, the job
\* drops the retry, or puts it back with one more failure counted.
Finish(x, ok) ==
    /\ Return(x)
    /\ playback' = IF proc[x].pb /\ ok THEN playback \cup {proc[x].n} ELSE playback
    /\ recovery' = IF x # "job" THEN recovery
                   ELSE [recovery EXCEPT ![proc[x].n] =
                           IF ok \/ proc[x].k + 1 >= RetryMax THEN NoRecovery
                           ELSE [c |-> proc[x].c, k |-> proc[x].k + 1]]
    /\ UNCHANGED scaled

\* Acquire goes round from the port after the last one; a UDP port stays bound
\* while a connection of it is open.
Pool == 1..conf.ports
Free(p) == /\ owner[p] = None
           /\ conf.tcp \/ \A k \in Conns : ~(conn[k].open /\ conn[k].port = p)

Acquire(p) ==
    LET n == conf.ports
        Dist(q) == (q + n - lastPort) % n
    IN /\ Free(p) /\ \A q \in Pool : Free(q) => Dist(p) <= Dist(q)
       /\ lastPort' = (p % n) + 1
StoreMediaServer(c, p) ==
    /\ owner' = [owner EXCEPT ![p] = c] /\ starting' = starting \cup {p}
    /\ mediaMap' = [mediaMap EXCEPT ![c] = p]
    /\ UNCHANGED <<early, format, conn>>

\* Start, on a goroutine of its own: the server gets its listener and accepts.
Start(p) ==
    /\ p \in starting
    /\ starting' = starting \ {p}
    /\ UNCHANGED <<Others, left, ch, lock, byeVars, indexVars, owner, early, mediaMap, format,
                   conn, recovery, playVars, proc>>

\* The same stream again: fine if it is flowing, else the old dialog is ended
\* first.  OnStartMediaServer creates the missing server even for this question.
InviteAgain(x) ==
    LET me == proc[x]
        same == ch[me.o].invite /\ ch[me.o].name = me.n
        stop == IF ch[me.o].ack # 0 THEN "bye" ELSE "byeClear"
    IN /\ me.pc = "invite"
       /\ \/ /\ ~same
             /\ proc' = [proc EXCEPT ![x].pc = "load"]
             /\ UNCHANGED <<mediaVars, lastPort, playVars>>
          \/ /\ same /\ mediaMap[me.c] # 0 /\ HasStream(mediaMap[me.c], me.n)
             /\ Finish(x, TRUE)
             /\ UNCHANGED <<listenVars, mediaMap, format, conn, lastPort>>
          \/ /\ same /\ ~(mediaMap[me.c] # 0 /\ HasStream(mediaMap[me.c], me.n))
             /\ \/ /\ mediaMap[me.c] # 0 \/ \A p \in Pool : ~Free(p)
                   /\ UNCHANGED <<mediaVars, lastPort>>
                \/ /\ mediaMap[me.c] = 0
                   /\ \E p \in Pool : Acquire(p) /\ StoreMediaServer(me.c, p)
                   /\ UNCHANGED recovery
             /\ proc' = [proc EXCEPT ![x].pc = stop, ![x].then = "load"]
             /\ UNCHANGED playVars
       /\ UNCHANGED <<conf, left, deviceVars, ch, lock, invites, byeVars, indexVars, streamVars>>

\* MediaInfo and the index are set before the INVITE goes out, so that an early
\* connection is recognised.
SendInvite(x, p) ==
    LET me == proc[x]
        d == invites + 1
        info == [ch[me.o] EXCEPT !.invite = TRUE, !.name = me.n, !.ssrc = d, !.key = p,
                                 !.play = me.n]
    IN /\ d \in Dialogs
       /\ invites' = d
       /\ ch' = [ch EXCEPT ![me.o] = info]
       /\ OnInviteMediaInfoSet(info)
       /\ proc' = [proc EXCEPT ![x].pc = "sent", ![x].d = d]

\* OnStartMediaServer: the Load of MediaServerMap.
InviteLoad(x) ==
    LET p == mediaMap[proc[x].c] IN
    /\ proc[x].pc = "load"
    /\ IF p # 0 THEN SendInvite(x, p)
       ELSE proc' = [proc EXCEPT ![x].pc = "acquire"] /\ UNCHANGED <<invites, ch, indexVars>>
    /\ UNCHANGED <<conf, left, deviceVars, lock, byeVars, lastPort, mediaVars, streamVars,
                   playVars>>

\* OnStartMediaServer: a port is acquired and the server stored.
InviteAcquire(x) ==
    /\ proc[x].pc = "acquire"
    /\ \/ /\ \E p \in Pool : Acquire(p) /\ StoreMediaServer(proc[x].c, p) /\ SendInvite(x, p)
          /\ UNCHANGED <<recovery, playVars>>
       \/ /\ \A p \in Pool : ~Free(p)
          /\ Finish(x, FALSE)
          /\ UNCHANGED <<ch, invites, lastPort, indexVars, listenVars, mediaMap, format, conn>>
    /\ UNCHANGED <<conf, left, deviceVars, lock, byeVars, streamVars>>

\* 200 OK with the SSRC of the INVITE, with one of the device's own or with y=0.  The
\* ACK is published without dialogMu, for a Bye to turn into its BYE.
InviteAccepted(x, answer) ==
    LET me == proc[x]
        y == CASE answer = "same" -> me.d [] answer = "own" -> OwnSsrc [] OTHER -> 0
        info == [ch[me.o] EXCEPT !.ssrc = y, !.ack = me.d]
    IN /\ me.pc = "sent"
       /\ ch' = [ch EXCEPT ![me.o] = info]
       /\ OnInviteMediaInfoSet(info)
       /\ proc' = [proc EXCEPT ![x].pc = "ack"]
       /\ UNCHANGED <<Others, left, lock, byeVars, mediaVars, playVars>>

\* The object is sent as what it is by now, or fails to go out; before that playInfo
\* was written, ahead of a Bye that came in between or after it.
SendAck(x, sent) ==
    LET me == proc[x] IN
    /\ me.pc = "ack"
    /\ IF sent THEN UNCHANGED left ELSE Spend("refuse")
    /\ byes' = IF sent /\ byes[me.d] > 0 THEN [byes EXCEPT ![me.d] = @ + 1] ELSE byes
    /\ \E play \in {me.n, ch[me.o].play} : ch' = [ch EXCEPT ![me.o].play = play]
    /\ Finish(x, sent)
    /\ UNCHANGED <<Others, lock, overtaken, indexVars, listenVars, mediaMap, format, conn>>

\* No answer, or another code: the media server is stopped without a name.
InviteRefused(x) ==
    LET me == proc[x] IN
    /\ me.pc = "sent" /\ Spend("refuse")
    /\ Dispose(me.c)
    /\ OnInviteMediaInfoClear(ch[me.o].key)
    /\ ch' = [ch EXCEPT ![me.o] = [ClearMedia(@) EXCEPT !.play = None]]
    /\ Finish(x, FALSE)
    /\ UNCHANGED <<Others, lock, byeVars>>

-----------------------------------------------------------------------------
(* The job goroutine: retries and expired playbacks.                        *)

processRecoveryPending(n) ==
    LET rec == recovery[n] IN
    /\ JobFree /\ conf.retry /\ rec.c # None
    /\ IF obj[rec.c] = 0
       THEN recovery' = [recovery EXCEPT ![n] = NoRecovery] /\ UNCHANGED proc
       ELSE /\ proc' = [proc EXCEPT !["job"] = [Idle EXCEPT !.pc = "invite", !.o = obj[rec.c],
                                                     !.c = rec.c, !.n = n, !.k = rec.k]]
            /\ UNCHANGED recovery
    /\ UNCHANGED <<Others, left, ch, lock, byeVars, indexVars, listenVars, mediaMap, format, conn,
                   playVars>>

clearExpiredPlaybackSessions(n) ==
    /\ JobFree /\ n \in playback /\ Spend("expire")
    /\ playback' = playback \ {n} /\ scaled' = scaled \ {n}
    /\ IF FindChannelByStreamName(n) = {} THEN UNCHANGED proc
       ELSE \E o \in FindChannelByStreamName(n) :
              proc' = [proc EXCEPT !["job"] = [Idle EXCEPT !.pc = "bye", !.o = o]]
    /\ UNCHANGED <<Others, ch, lock, byeVars, indexVars, mediaVars>>

-----------------------------------------------------------------------------
(* Media connections.                                                       *)

\* Accept
ConnArrives(k, p) ==
    /\ proc[k].pc = "idle" /\ owner[p] # None /\ p \notin starting /\ Spend("conn")
    /\ conn' = [conn EXCEPT ![k] = [NoConn EXCEPT !.port = p, !.live = TRUE, !.open = TRUE]]
    /\ proc' = [proc EXCEPT ![k].pc = "first"]
    /\ UNCHANGED <<Others, ch, lock, byeVars, indexVars, listenVars, mediaMap, format, recovery,
                   playVars>>

\* The stream names an SSRC, or a media key with its SSRC, stands for: the index
\* first, then the channels.
CheckSsrc(r) ==
    IF bySsrc[r] # None THEN {bySsrc[r]}
    ELSE {ch[o].name : o \in {q \in Listed : ch[q].invite /\ ch[q].ssrc = r}}
GetMediaInfoByKey(p) ==
    IF byKey[p] # None THEN {byKey[p]}
    ELSE {<<ch[o].name, ch[o].ssrc>> : o \in {q \in Listed : ch[q].invite /\ ch[q].key = p}}

\* The SSRC goes to the record that was found: a copy of the index entry, or the
\* channel's own MediaInfo.
BindMediaKeySsrc(p, r) ==
    IF byKey[p] = None
    THEN /\ ch' = [o \in Objs |-> IF o \in Listed /\ ch[o].invite /\ ch[o].key = p
                                  THEN [ch[o] EXCEPT !.ssrc = r] ELSE ch[o]]
         /\ UNCHANGED indexVars
    ELSE /\ UNCHANGED ch
         /\ byKey' = [byKey EXCEPT ![p] = <<@[1], r>>]
         /\ bySsrc' = [bySsrc EXCEPT ![r] = byKey[p][1]]

\* The first packet decides which stream the connection is; an unknown SSRC passes
\* where the dialog has none.  A connection that is refused has no name and ends
\* without NotifyClose.
CheckFirstPacket(k, r) ==
    LET p == conn[k].port
        unbound == {i \in GetMediaInfoByKey(p) : i[2] = 0}
        names == IF r = 0 THEN {i[1] : i \in GetMediaInfoByKey(p)}
                 ELSE IF CheckSsrc(r) # {} THEN CheckSsrc(r) ELSE {i[1] : i \in unbound}
    IN /\ proc[k].pc = "first" /\ conn[k].open
       /\ IF r # 0 /\ CheckSsrc(r) = {} /\ unbound # {} THEN BindMediaKeySsrc(p, r)
          ELSE UNCHANGED <<ch, indexVars>>
       /\ IF names = {}
          THEN /\ proc' = [proc EXCEPT ![k].pc = "gone"]
               /\ conn' = [conn EXCEPT ![k].open = FALSE]
          ELSE \E n \in names : /\ conn' = [conn EXCEPT ![k].name = n]
                                 /\ proc' = [proc EXCEPT ![k].pc = "save"]
       /\ UNCHANGED <<Others, left, lock, byeVars, listenVars, mediaMap, format, recovery,
                      playVars>>

\* The connection enters the server's map and becomes the publisher, unless the
\* stream has one.  (OnStreamActive looks the server up by media key and finds none.)
AddCustomizePubSession(k) ==
    LET n == conn[k].name IN
    /\ proc[k].pc = "save"
    /\ conn' = [conn EXCEPT ![k].saved = TRUE]
    /\ pub' = IF pub[n] = None THEN [pub EXCEPT ![n] = k] ELSE pub
    /\ proc' = [proc EXCEPT ![k].pc = IF pub[n] = None THEN "live" ELSE "ended"]
    /\ UNCHANGED <<conf, left, deviceVars, ch, lock, invites, byeVars, lastPort, indexVars,
                   listenVars, mediaMap, format, recovery, msIndex, playVars>>

\* A packet of a known format.
SetStreamFormat(k) ==
    /\ proc[k].pc = "live" /\ conn[k].open /\ conn[k].live
    /\ conn[k].name \notin format[conn[k].port]
    /\ format' = [format EXCEPT ![conn[k].port] = @ \cup {conn[k].name}]
    /\ UNCHANGED <<Others, left, ch, lock, byeVars, indexVars, listenVars, mediaMap, conn, recovery,
                   playVars, proc>>

\* The read fails: a timeout or a lost peer, or the socket was closed under it.
ReadFails(k) ==
    /\ proc[k].pc \in {"first", "live"}
    /\ IF conn[k].open THEN Spend("lost") ELSE UNCHANGED left
    /\ conn' = [conn EXCEPT ![k].open = FALSE]
    /\ proc' = [proc EXCEPT ![k].pc = IF @ = "first" THEN "gone" ELSE "ended"]
    /\ UNCHANGED <<Others, ch, lock, byeVars, indexVars, listenVars, mediaMap, format, recovery,
                   playVars>>

\* NotifyClose: the channel of that name, whoever owns it now, is ended; a live
\* stream is scheduled for a retry first.
NotifyClose(k) ==
    LET n == conn[k].name
        found == {o \in Listed : ch[o].name = n}
        retry(o) == conf.retry /\ RetryMax # 0 /\ ch[o].play # None /\ n \notin playback
    IN /\ proc[k].pc = "ended"
       /\ conn' = [conn EXCEPT ![k].open = FALSE]
       /\ \/ /\ found = {}
             /\ proc' = [proc EXCEPT ![k].pc = "inactive"] /\ UNCHANGED recovery
          \/ \E o \in found :
                /\ recovery' = IF retry(o) THEN [recovery EXCEPT ![n] = [c |-> ch[o].c, k |-> 0]]
                               ELSE recovery
                /\ proc' = [proc EXCEPT ![k].pc = IF ch[o].invite THEN "bye" ELSE "closed",
                                        ![k].o = o, ![k].then = "closed"]
       /\ UNCHANGED <<Others, left, ch, lock, byeVars, indexVars, listenVars, mediaMap, format,
                      playVars>>

\* The rest of NotifyClose: MediaInfo is cleared a second time, after dialogMu.
NotifyClosed(k) ==
    LET n == conn[k].name IN
    /\ proc[k].pc = "closed"
    /\ ch' = [ch EXCEPT ![proc[k].o] = ClearMedia(@)]
    /\ playback' = playback \ {n} /\ scaled' = scaled \ {n}
    /\ proc' = [proc EXCEPT ![k].pc = "inactive"]
    /\ UNCHANGED <<Others, left, lock, byeVars, indexVars, mediaVars>>

\* Mutant: the publisher is not given up.
ServeEndsKeepsPub(k) ==
    /\ proc[k].pc = "inactive"
    /\ msIndex' = msIndex \ {conn[k].name}
    /\ conn' = [conn EXCEPT ![k] = NoConn]
    /\ proc' = [proc EXCEPT ![k] = [Idle EXCEPT !.pc = "gone"]]
    /\ UNCHANGED <<conf, left, deviceVars, ch, lock, invites, byeVars, lastPort, indexVars,
                   listenVars, mediaMap, format, recovery, pub, playVars>>

\* OnStreamInactive and DelCustomizePubSession; the connection leaves the map.
ServeEnds(k) ==
    LET n == conn[k].name IN
    /\ proc[k].pc = "inactive"
    /\ msIndex' = msIndex \ {n}
    /\ pub' = IF pub[n] = k THEN [pub EXCEPT ![n] = None] ELSE pub
    /\ conn' = [conn EXCEPT ![k] = NoConn]
    /\ proc' = [proc EXCEPT ![k] = [Idle EXCEPT !.pc = "gone"]]
    /\ UNCHANGED <<conf, left, deviceVars, ch, lock, invites, byeVars, lastPort, indexVars,
                   listenVars, mediaMap, format, recovery, playVars>>

-----------------------------------------------------------------------------
DeviceNext ==
    \/ \E auth \in {"none", "good", "bad"}, unregister \in BOOLEAN : OnRegister(auth, unregister)
    \/ removeBanDevice
    \/ \E cmd \in {"Keepalive", "Catalog", "Alarm"}, c \in Channels, on \in BOOLEAN :
          OnMessage(cmd, c, on)
    \/ \E event \in {"ON", "OFF", "ADD", "DEL"}, c \in Channels : OnNotify(event, c)
    \/ \E dropped \in BOOLEAN : statusCheck(dropped)
    \/ \E o \in Objs : OnBye(o)

ApiNext ==
    \/ \E c \in Channels, n \in conf.names : CtrlGb28181Invite(c, n) \/ CtrlGb28181Playback(c, n)
    \/ \E n \in Names : CtrlGb28181Bye(n) \/ CtrlGb28181PlaybackScale(n)
    \/ stopByStreamName \/ checkOnline
    \/ PlaybackScale \/ SetPlaybackScale
    \/ \E ok \in BOOLEAN : InfoAnswered(ok)

InviteNext(x) ==
    \/ InviteAgain(x) \/ InviteLoad(x) \/ InviteAcquire(x) \/ InviteRefused(x)
    \/ \E answer \in conf.answers : InviteAccepted(x, answer)
    \/ \E sent \in BOOLEAN : SendAck(x, sent)

ByeNext(x) ==
    ByeStop(x) \/ ByeClear(x) \/ byeClearStop(x) \/ byeClear(x) \/ UnregisterPlaybackSession(x)

JobNext ==
    \E n \in Names : processRecoveryPending(n) \/ clearExpiredPlaybackSessions(n)

ConnNext(k) ==
    \/ \E p \in Ports : ConnArrives(k, p)
    \/ \E r \in {0, OwnSsrc} \cup 1..invites : CheckFirstPacket(k, r)
    \/ AddCustomizePubSession(k) \/ SetStreamFormat(k) \/ ReadFails(k)
    \/ NotifyClose(k) \/ NotifyClosed(k) \/ ServeEnds(k)

DialogNext ==
    \/ DeviceNext \/ ApiNext \/ JobNext
    \/ \E x \in {"api", "job"} : InviteNext(x)
    \/ \E p \in Ports : Start(p)
    \/ \E x \in Procs : ByeNext(x)
    \/ \E k \in Conns : ConnNext(k)
=============================================================================
