-------------------------- MODULE GbUpstreamProofs --------------------------
(***************************************************************************)
(* The safety of GB28181, for every number of channels, connections,       *)
(* platforms and INVITEs.  Three invariants: a forwarding target belongs   *)
(* to a session, a dialog gets one BYE, and a port that listens is in      *)
(* MediaServerMap, each but for the one window that the code leaves open.  *)
(* The two last need the shape of the channel objects and of what the      *)
(* actors hold, so that a look-up by object, channel or stream stays       *)
(* inside its table; the first needs that conf is never changed by the     *)
(* device side, and who is in the middle of ending which session.          *)
(***************************************************************************)
EXTENDS GbUpstream, FiniteSetTheorems, TLAPS

-----------------------------------------------------------------------------
(* What an actor, a channel object and an INVITE handler hold.              *)

ProcFields == {"pc", "o", "then", "n", "c", "d", "k", "old", "pb"}
ChFields == {"c", "on", "invite", "name", "ssrc", "key", "play", "ack"}

\* The steps in which an actor works on the object, and on the channel id, it holds.
UsesObj == {"bye", "clear", "byeClear", "byeClear2", "invite", "load", "acquire", "sent", "ack",
            "closed"}
UsesChan == {"stopName", "ready", "invite", "load", "acquire", "sent"}

ProcOK(r) ==
    /\ DOMAIN r = ProcFields
    /\ r.o \in Objs \cup {0} /\ r.c \in Channels \cup {None} /\ r.d \in Nat
    /\ r.pc \in UsesObj => r.o \in Objs
    /\ (r.pc \in UsesChan \/ r.then \in UsesChan) => r.c \in Channels
    /\ r.then \notin {"sent", "ack", "acquire", "invite"}

ChOK(r) == DOMAIN r = ChFields /\ r.c \in Channels \cup {None} /\ r.ack \in Nat

SessionRecs == [u : Upstreams, id : Names \cup Channels, n : Names, key : {"port", "virtual"}]
CallRecs == [pc : {"idle", "clean", "indexed", "attach", "feed", "done"},
             u : Upstreams \cup {None}, id : Names \cup Channels \cup {None},
             n : Names \cup {None}, ms : Servers \cup {None}]

-----------------------------------------------------------------------------
(* The inductive invariants.                                                *)

ConfInv ==
    conf.subs \subseteq Names /\ conf.names \subseteq Names /\ conf.ports \in Ports
ObjInv == obj \in [Channels -> Objs \cup {0}]
ChInv == ch = [o \in Objs |-> ch[o]] /\ \A o \in Objs : ChOK(ch[o])
ProcInv == proc = [x \in Procs |-> proc[x]] /\ \A x \in Procs : ProcOK(proc[x])
RecoveryInv ==
    /\ recovery = [n \in Names |-> recovery[n]]
    /\ \A n \in Names : recovery[n].c \in Channels \cup {None}
CountInv == invites \in 0..MaxDialogs /\ byes \in [Dialogs -> Nat]
PortTypes == owner \in [Ports -> Channels \cup {None}] /\ mediaMap \in [Channels -> Ports \cup {0}]

Shape == ConfInv /\ ObjInv /\ ChInv /\ ProcInv /\ RecoveryInv /\ CountInv /\ PortTypes

\* Where a dialog is: numbers above invites are not used yet, an INVITE that waits for
\* its answer holds one nobody else has, and so does an object with a dialog.  Between
\* the publication of an ACK and its sending the object may have lost it to a BYE, which
\* has then overtaken the ACK.
AckInv ==
    /\ \A d \in Dialogs : d > invites => byes[d] = 0
    /\ \A o \in Objs : ch[o].ack # 0 => ch[o].ack \in 1..invites /\ byes[ch[o].ack] = 0
    /\ \A o, q \in Objs : o # q /\ ch[o].ack # 0 => ch[o].ack # ch[q].ack
SentInv ==
    /\ \A x \in Procs : proc[x].pc = "sent" =>
          /\ proc[x].d \in 1..invites /\ byes[proc[x].d] = 0
          /\ \A o \in Objs : ch[o].ack # proc[x].d
    /\ \A x \in Procs : proc[x].pc = "ack" =>
          /\ proc[x].d \in 1..invites /\ byes[proc[x].d] \in {0, 1}
          /\ byes[proc[x].d] = 1 => proc[x].d \in overtaken
    /\ \A x, y \in Procs : x # y /\ proc[x].pc \in {"sent", "ack"} /\ proc[y].pc \in {"sent", "ack"}
                              => proc[x].d # proc[y].d
ByeInv == AckInv /\ SentInv /\ OneByePerDialog

\* Without retries the job sends no INVITE, so what the API found missing in
\* MediaServerMap is still missing when it stores its server.
JobInv == ~conf.retry => proc["job"].pc \in {"idle", "bye", "clear"} /\ proc["job"].then = "idle"
AcquireInv == ~conf.retry /\ proc["api"].pc = "acquire" => mediaMap[proc["api"].c] = 0
PortInv == JobInv /\ AcquireInv /\ PortsAccounted

\* The sessions, the subscriptions they come from, and the handlers that store them.
SubsInv ==
    /\ subs \in [Upstreams -> SUBSET Names]
    /\ DOMAIN admin = {"pc", "conf"} /\ admin.conf \subseteq Names
CallInv ==
    /\ call \in [Calls -> CallRecs]
    /\ \A i \in Calls : call[i].pc \in {"clean", "indexed", "attach", "feed"} =>
          call[i].u \in Upstreams /\ call[i].id \in Names \cup Channels /\ call[i].n \in Names
SessInv ==
    /\ sess \in [Calls -> SessionRecs \cup {None}] /\ sink \in [Calls -> Servers \cup {None}]
    /\ feeds \subseteq Calls /\ virtual \in BOOLEAN
\* A feed and a sink of the virtual server have a session that says so, or the BYE on the
\* devices' port that took the session is about to end them.  Whoever else is about to
\* delete a session has cancelled what there was: a feed in between is a late one.
Linked(ss, sk, fd, dr, late) ==
    \A i \in Calls :
        /\ i \in fd => ss[i] # None \/ i \in late \/ <<DevicePort, i>> \in dr
        /\ sk[i] = VirtualServer => \/ ss[i] # None /\ ss[i].key = "virtual"
                                    \/ <<DevicePort, i>> \in dr
        /\ \A w \in Droppers \ {DevicePort} :
              <<w, i>> \in dr => (i \in fd => i \in late) /\ sk[i] # VirtualServer
SinkInv == Linked(sess, sink, feeds, dropping, lateFeeds)
\* Nobody ends a session that its handler has not stored yet.
Unstored(i) == call[i].pc \in {"idle", "clean", "indexed", "attach"}
StoredInv ==
    \A i \in Calls : Unstored(i) => sess[i] = None /\ \A w \in Droppers : <<w, i>> \notin dropping
ForwardInv == ConfInv /\ SubsInv /\ CallInv /\ SessInv /\ SinkInv /\ StoredInv

-----------------------------------------------------------------------------
(* Facts about the constants.                                               *)

\* The numbers of the servers that are no port's.
LEMMA ServerNumbers ==
    /\ VirtualServer \in Servers /\ ClosedServer \in Servers /\ DeadServer \in Servers
    /\ Ports \subseteq Servers /\ VirtualServer \notin Ports
    /\ VirtualServer # ClosedServer /\ VirtualServer # DeadServer
    /\ None \notin Servers
<1>1. Cardinality(Ports) \in Nat
  BY GbDialogAssumption, FS_CardinalityType
<1>2. PICK m \in Nat : m = Cardinality(Ports)
  BY <1>1
<1>3. /\ VirtualServer = m + 1 /\ ClosedServer = m + 2 /\ DeadServer = m + 3
      /\ Ports = 1..m /\ Servers = 1..(m + 3)
  BY <1>2, GbDialogAssumption DEF VirtualServer, ClosedServer, DeadServer, Servers
<1>4. None \notin Nat
  BY GbDialogAssumption
<1>5. QED
  BY <1>3, <1>4

\* The numbers of those who end sessions.
LEMMA DropperNumbers ==
    /\ Calls \subseteq Droppers \ {DevicePort} /\ UpstreamPort \in Droppers \ {DevicePort}
    /\ AdminDrop \in Droppers \ {DevicePort} /\ DevicePort \in Droppers
<1>1. PICK m \in Nat : m = Cardinality(Calls)
  BY GbUpstreamAssumption, FS_CardinalityType
<1>2. /\ UpstreamPort = m + 1 /\ DevicePort = m + 2 /\ AdminDrop = 0
      /\ Calls = 1..m /\ Droppers = 0..(m + 2)
  BY <1>1, GbUpstreamAssumption DEF UpstreamPort, DevicePort, AdminDrop, Droppers
<1>3. QED
  BY <1>2

\* A session is not nil.
LEMMA SessionIsNotNone == None \notin SessionRecs
BY GbUpstreamAssumption DEF SessionRecs

-----------------------------------------------------------------------------
(* A forward has a session.                                                 *)

\* The device side never writes the configuration.
LEMMA ConfKept ==
    ASSUME DialogNext
    PROVE  conf' = conf
<1>1. CASE DeviceNext
  BY <1>1 DEF DeviceNext, OnRegister, removeBanDevice, OnMessage, OnNotify, statusCheck, OnBye,
              Others
<1>2. CASE ApiNext
  BY <1>2 DEF ApiNext, CtrlGb28181Invite, CtrlGb28181Playback, CtrlGb28181Bye,
              CtrlGb28181PlaybackScale, stopByStreamName, checkOnline, PlaybackScale,
              SetPlaybackScale, InfoAnswered, Others
<1>3. CASE JobNext
  BY <1>3 DEF JobNext, processRecoveryPending, clearExpiredPlaybackSessions, Others
<1>4. CASE \E x \in {"api", "job"} : InviteNext(x)
  BY <1>4 DEF InviteNext, InviteAgain, InviteLoad, InviteAcquire, InviteRefused, InviteAccepted,
              SendAck, Others
<1>5. CASE \E x \in Procs : ByeNext(x)
  BY <1>5 DEF ByeNext, ByeStop, ByeClear, byeClearStop, byeClear, UnregisterPlaybackSession, Others
<1>6. CASE \E k \in Conns : ConnNext(k)
  BY <1>6 DEF ConnNext, ConnArrives, CheckFirstPacket, AddCustomizePubSession, SetStreamFormat,
              ReadFails, NotifyClose, NotifyClosed, ServeEnds, Others
<1>7. CASE \E p \in Ports : Start(p)
  BY <1>7 DEF Start, Others
<1>8. QED
  BY <1>1, <1>2, <1>3, <1>4, <1>5, <1>6, <1>7 DEF DialogNext

\* The end of the virtual server takes its sinks and leaves the others alone.
LEMMA CleanupKeepsSinks ==
    ASSUME SessInv, NEW ss, NEW idx, ss \in [Calls -> SessionRecs \cup {None}], sess' = ss,
           feeds' \subseteq Calls, Linked(ss, sink, feeds', dropping', lateFeeds'),
           maybeCleanupVirtualMediaServer(ss, sink, idx)
    PROVE  SessInv' /\ SinkInv'
<1>1. CASE virtual /\ {i \in Calls : ss[i] # None /\ ss[i].key = "virtual"} = {}
  <2>1. /\ virtual' = FALSE
        /\ sink' = [i \in Calls |-> IF sink[i] = VirtualServer THEN None ELSE sink[i]]
    BY <1>1 DEF maybeCleanupVirtualMediaServer
  <2>2. sink' \in [Calls -> Servers \cup {None}] /\ \A i \in Calls : sink'[i] # VirtualServer
    BY <2>1, ServerNumbers DEF SessInv
  <2>3. QED
    BY <2>1, <2>2 DEF SessInv, SinkInv, Linked
<1>2. CASE ~(virtual /\ {i \in Calls : ss[i] # None /\ ss[i].key = "virtual"} = {})
  <2>1. virtual' = virtual /\ sink' = sink
    BY <1>2 DEF maybeCleanupVirtualMediaServer
  <2>2. QED
    BY <2>1 DEF SessInv, SinkInv
<1>3. QED
  BY <1>1, <1>2

\* What is removed with a session.
LEMMA SinkRemoved ==
    ASSUME SessInv, NEW i \in Calls
    PROVE  /\ RemoveUpstreamSink(i) \in [Calls -> Servers \cup {None}]
           /\ RemoveUpstreamSink(i)[i] # VirtualServer
           /\ \A j \in Calls : j # i => RemoveUpstreamSink(i)[j] = sink[j]
BY ServerNumbers DEF SessInv, RemoveUpstreamSink

\* The first half of ending a session takes its feed, and its sink if the virtual server
\* has it.
LEMMA CancelKeeps ==
    ASSUME SessInv, SinkInv, StoredInv, NEW w \in Droppers \ {DevicePort}, NEW i \in Calls,
           sess[i] # None, CancelSession(w, i)
    PROVE  /\ SessInv' /\ SinkInv' /\ sess' = sess
           /\ \A j \in Calls, v \in Droppers :
                 <<v, j>> \in dropping' => <<v, j>> \in dropping \/ j = i
<1>1. /\ dropping' = dropping \cup {<<w, i>>} /\ feeds' = feeds \ {i}
      /\ sink' = RemoveUpstreamSink(i) /\ UNCHANGED <<sess, lateFeeds, virtual>>
  BY DEF CancelSession
<1>2. SessInv'
  BY <1>1, SinkRemoved DEF SessInv
<1>3. SinkInv'
  <2>1. ASSUME NEW j \in Calls
        PROVE  /\ j \in feeds' => sess[j] # None \/ j \in lateFeeds \/ <<DevicePort, j>> \in dropping'
               /\ sink'[j] = VirtualServer => \/ sess[j] # None /\ sess[j].key = "virtual"
                                              \/ <<DevicePort, j>> \in dropping'
               /\ \A v \in Droppers \ {DevicePort} : <<v, j>> \in dropping' =>
                     (j \in feeds' => j \in lateFeeds) /\ sink'[j] # VirtualServer
    <3>1. CASE j = i
      BY <1>1, <3>1, SinkRemoved
    <3>2. CASE j # i
      <4>1. /\ sink'[j] = sink[j] /\ (j \in feeds' <=> j \in feeds)
            /\ \A v : <<v, j>> \in dropping' <=> <<v, j>> \in dropping
        BY <1>1, <3>2, SinkRemoved
      <4>2. QED
        BY <4>1 DEF SinkInv, Linked
    <3>3. QED
      BY <3>1, <3>2
  <2>2. QED
    BY <1>1, <2>1 DEF SinkInv, Linked
<1>4. QED
  BY <1>1, <1>2, <1>3

\* The second half: what the session had is gone, or a late feed.
LEMMA DeleteKeeps ==
    ASSUME SessInv, SinkInv, StoredInv, NEW w \in Droppers \ {DevicePort}, NEW i \in Calls,
           NEW b \in BOOLEAN, DeleteSession(w, i, b)
    PROVE  /\ SessInv' /\ SinkInv'
           /\ \A j \in Calls : sess[j] = None => sess'[j] = None
           /\ dropping' \subseteq dropping
<1> DEFINE ss == [sess EXCEPT ![i] = None]
<1>1. /\ <<w, i>> \in dropping /\ dropping' = dropping \ {<<w, i>>} /\ sess' = ss
      /\ feeds' = feeds /\ lateFeeds' = lateFeeds
  BY DEF DeleteSession
<1>2. ss \in [Calls -> SessionRecs \cup {None}]
  BY DEF SessInv
<1>3. Linked(ss, sink, feeds', dropping', lateFeeds')
  <2>1. ASSUME NEW j \in Calls
        PROVE  /\ j \in feeds => ss[j] # None \/ j \in lateFeeds \/ <<DevicePort, j>> \in dropping'
               /\ sink[j] = VirtualServer => \/ ss[j] # None /\ ss[j].key = "virtual"
                                             \/ <<DevicePort, j>> \in dropping'
               /\ \A v \in Droppers \ {DevicePort} : <<v, j>> \in dropping' =>
                     (j \in feeds => j \in lateFeeds) /\ sink[j] # VirtualServer
    <3>1. CASE j = i
      <4>1. (i \in feeds => i \in lateFeeds) /\ sink[i] # VirtualServer
        BY <1>1 DEF SinkInv, Linked
      <4>2. QED
        BY <3>1, <4>1
    <3>2. CASE j # i
      <4>1. ss[j] = sess[j] /\ \A v : <<v, j>> \in dropping' <=> <<v, j>> \in dropping
        BY <1>1, <3>2 DEF SessInv
      <4>2. QED
        BY <4>1 DEF SinkInv, Linked
    <3>3. QED
      BY <3>1, <3>2
  <2> HIDE DEF ss
  <2>2. QED
    BY <1>1, <2>1 DEF Linked
<1>4. \A j \in Calls : sess[j] = None => sess'[j] = None
  BY <1>1 DEF SessInv
<1> HIDE DEF ss
<1>5. feeds' \subseteq Calls
  BY <1>1 DEF SessInv
<1>6. SessInv' /\ SinkInv'
  <2>1. CASE b
    <3>1. maybeCleanupVirtualMediaServer(ss, sink, msIndex)
      BY <2>1 DEF DeleteSession, ss
    <3>2. QED
      BY <1>1, <1>2, <1>3, <1>5, <3>1, CleanupKeepsSinks
  <2>2. CASE ~b
    <3>1. sink' = sink /\ virtual' = virtual
      BY <2>2 DEF DeleteSession
    <3>2. QED
      BY <1>1, <1>2, <1>3, <1>5, <3>1 DEF SessInv, SinkInv
  <2>3. QED
    BY <2>1, <2>2
<1>7. QED
  BY <1>1, <1>4, <1>6

\* Cancelling and deleting sessions leaves the handlers that have stored none alone.
LEMMA CancelKeepsStored ==
    ASSUME StoredInv, NEW i \in Calls, sess[i] # None, UNCHANGED <<sess, call>>,
           \A j \in Calls, v \in Droppers : <<v, j>> \in dropping' => <<v, j>> \in dropping \/ j = i
    PROVE  StoredInv'
BY DEF StoredInv, Unstored

LEMMA DeleteKeepsStored ==
    ASSUME StoredInv, \A j \in Calls : sess[j] = None => sess'[j] = None,
           dropping' \subseteq dropping, \A j \in Calls : call'[j].pc = call[j].pc
    PROVE  StoredInv'
BY DEF StoredInv, Unstored

\* A handler keeps what it holds when the virtual server goes.
LEMMA OrphansKeepCalls ==
    ASSUME CallInv, call' = [j \in Calls |-> Orphan(call[j])]
    PROVE  CallInv' /\ \A j \in Calls : call'[j].pc = call[j].pc
<1>1. ASSUME NEW j \in Calls
      PROVE  /\ call'[j] \in CallRecs /\ call'[j].pc = call[j].pc /\ call'[j].u = call[j].u
             /\ call'[j].id = call[j].id /\ call'[j].n = call[j].n
  BY ServerNumbers DEF CallInv, Orphan, CallRecs
<1>2. call' \in [Calls -> CallRecs]
  BY <1>1
<1>3. QED
  BY <1>1, <1>2 DEF CallInv

\* Media servers that go take sinks with them and leave the sessions alone.
LEMMA DialogKeepsForwards ==
    ASSUME ForwardInv, DialogNext, ServersFollow
    PROVE  ForwardInv'
<1>1. ConfInv'
  BY ConfKept DEF ForwardInv, ConfInv
<1>2. SubsInv'
  BY DEF ServersFollow, ForwardInv, SubsInv
<1>3. ASSUME NEW j \in Calls
      PROVE  /\ call'[j] \in CallRecs /\ call'[j].pc = call[j].pc /\ call'[j].u = call[j].u
             /\ call'[j].id = call[j].id /\ call'[j].n = call[j].n
  <2>1. \/ call'[j] = call[j] \/ call'[j] = [call[j] EXCEPT !.ms = ClosedServer]
    BY DEF ServersFollow
  <2>2. call[j] \in CallRecs
    BY DEF ForwardInv, CallInv
  <2>3. QED
    BY <2>1, <2>2, ServerNumbers DEF CallRecs
<1>4. CallInv'
  <2>1. call' \in [Calls -> CallRecs]
    BY <1>3 DEF ServersFollow
  <2>2. QED
    BY <1>3, <2>1 DEF ForwardInv, CallInv
<1>5. SessInv' /\ SinkInv'
  <2>1. \A j \in Calls : sink'[j] \in {sink[j], None}
    BY DEF ServersFollow
  <2>2. sink' \in [Calls -> Servers \cup {None}]
    BY <2>1 DEF ServersFollow, ForwardInv, SessInv
  <2>3. SessInv'
    BY <2>2 DEF ServersFollow, ForwardInv, SessInv
  <2>4. QED
    BY <2>1, <2>3, ServerNumbers DEF ServersFollow, dropVars, ForwardInv, SinkInv, Linked
<1>6. StoredInv'
  BY <1>3 DEF ServersFollow, dropVars, ForwardInv, StoredInv, Unstored
<1>7. QED
  BY <1>1, <1>2, <1>4, <1>5, <1>6 DEF ForwardInv

\* The handlers of upstream INVITEs and BYEs.
LEMMA CallsKeepForwards ==
    ASSUME ForwardInv, NEW i \in Calls, CallNext(i)
    PROVE  ForwardInv'
<1>0. /\ ConfInv /\ SubsInv /\ CallInv /\ SessInv /\ SinkInv /\ StoredInv
      /\ call[i] \in CallRecs
  BY DEF ForwardInv, CallInv
<1>1. ASSUME NEW u \in Upstreams, NEW id \in Names \cup Channels, OnUpstreamInvite(i, u, id)
      PROVE  ForwardInv'
  <2>1. PICK n : n = StreamOf(u, id)
    OBVIOUS
  <2>2. n \in Names
    BY <1>0, <1>1, <2>1 DEF OnUpstreamInvite, SubsInv
  <2>3. call' = [call EXCEPT ![i] = [pc |-> "clean", u |-> u, id |-> id, n |-> n, ms |-> None]]
    BY <1>1, <2>1 DEF OnUpstreamInvite
  <2>4. CallInv'
    BY <1>0, <2>2, <2>3 DEF CallInv, CallRecs
  <2>5. ConfInv' /\ SubsInv' /\ SessInv' /\ SinkInv'
    BY <1>0, <1>1 DEF OnUpstreamInvite, UpOthers, dropVars, ConfInv, SubsInv, SessInv, SinkInv
  <2>6. StoredInv'
    <3>1. Unstored(i) /\ UNCHANGED <<sess, dropping>>
      BY <1>1 DEF OnUpstreamInvite, Unstored, dropVars
    <3>2. QED
      BY <1>0, <2>3, <3>1 DEF StoredInv, Unstored, CallInv
  <2>7. QED
    BY <2>4, <2>5, <2>6 DEF ForwardInv
<1>2. CASE cleanupUpstreamSessionForChannel(i)
  <2>1. PICK j \in Calls : sess[j] # None /\ CancelSession(i, j)
    BY <1>2 DEF cleanupUpstreamSessionForChannel
  <2>2. /\ SessInv' /\ SinkInv' /\ sess' = sess
        /\ \A k \in Calls, v \in Droppers : <<v, k>> \in dropping' => <<v, k>> \in dropping \/ k = j
    BY <1>0, <2>1, CancelKeeps, DropperNumbers
  <2>3. ConfInv' /\ SubsInv' /\ CallInv' /\ call' = call
    BY <1>0, <1>2 DEF cleanupUpstreamSessionForChannel, UpOthers, ConfInv, SubsInv, CallInv
  <2>4. StoredInv'
    BY <1>0, <2>1, <2>2, <2>3, CancelKeepsStored
  <2>5. QED
    BY <2>2, <2>3, <2>4 DEF ForwardInv
<1>3. ASSUME NEW w \in Droppers \ {DevicePort}, NEW j \in Calls, DeleteSession(w, j, TRUE),
             call' = [k \in Calls |-> Orphan(call[k])], UNCHANGED <<conf, subs, admin>>
      PROVE  ForwardInv'
  <2>1. /\ SessInv' /\ SinkInv' /\ dropping' \subseteq dropping
        /\ \A k \in Calls : sess[k] = None => sess'[k] = None
    BY <1>0, <1>3, DeleteKeeps
  <2>2. CallInv' /\ \A k \in Calls : call'[k].pc = call[k].pc
    BY <1>0, <1>3, OrphansKeepCalls
  <2>3. StoredInv'
    BY <1>0, <2>1, <2>2, DeleteKeepsStored
  <2>4. ConfInv' /\ SubsInv'
    BY <1>0, <1>3 DEF ConfInv, SubsInv
  <2>5. QED
    BY <2>1, <2>2, <2>3, <2>4 DEF ForwardInv
<1>4. CASE CleanedUp(i)
  BY <1>3, <1>4, DropperNumbers DEF CleanedUp, UpOthers
<1>5. CASE PickMediaServer(i)
  <2>1. PICK ms \in Servers, pc \in {"indexed", "attach"} :
          call' = [call EXCEPT ![i].pc = pc, ![i].ms = ms]
    <3>1. CASE call' = [call EXCEPT ![i].pc = "indexed", ![i].ms = VirtualServer]
      BY <3>1, ServerNumbers
    <3>2. CASE \E p \in Ports \cup {VirtualServer} :
                 call' = [call EXCEPT ![i].pc = "attach", ![i].ms = p]
      BY <3>2, ServerNumbers
    <3>3. QED
      BY <1>5, <3>1, <3>2 DEF PickMediaServer
  <2>2. CallInv'
    <3>1. call[i].pc = "clean"
      BY <1>5 DEF PickMediaServer
    <3>2. /\ call' \in [Calls -> CallRecs]
          /\ call'[i].u = call[i].u /\ call'[i].id = call[i].id /\ call'[i].n = call[i].n
          /\ \A j \in Calls : j # i => call'[j] = call[j]
      BY <1>0, <2>1 DEF CallInv, CallRecs
    <3>3. QED
      BY <1>0, <3>1, <3>2 DEF CallInv
  <2>3. virtual' \in BOOLEAN
    BY <1>0, <1>5 DEF PickMediaServer, SessInv
  <2>4. ConfInv' /\ SubsInv' /\ SessInv' /\ SinkInv'
    BY <1>0, <1>5, <2>3 DEF PickMediaServer, UpOthers, dropVars, ConfInv, SubsInv, SessInv, SinkInv
  <2>5. StoredInv'
    <3>1. Unstored(i) /\ UNCHANGED <<sess, dropping>>
      BY <1>5 DEF PickMediaServer, Unstored, dropVars
    <3>2. QED
      BY <1>0, <2>1, <3>1 DEF StoredInv, Unstored, CallInv
  <2>6. QED
    BY <2>2, <2>4, <2>5 DEF ForwardInv
<1>6. ASSUME call' = [call EXCEPT ![i] = [NoCall EXCEPT !.pc = "done"]]
      PROVE  CallInv' /\ call'[i].pc = "done" /\ \A j \in Calls : j # i => call'[j] = call[j]
  BY <1>0, <1>6 DEF CallInv, CallRecs, NoCall
<1>7. ASSUME call'[i].pc \in {"done", "feed"}, \A j \in Calls : j # i => call'[j] = call[j],
             \A j \in Calls : j # i => sess'[j] = sess[j], dropping' = dropping
      PROVE  StoredInv'
  BY <1>0, <1>7 DEF StoredInv, Unstored
<1>8. CASE NotReady(i)
  <2>1. CallInv' /\ StoredInv'
    BY <1>6, <1>8, <1>7 DEF NotReady, dropVars
  <2>2. ConfInv' /\ SubsInv' /\ SessInv' /\ SinkInv'
    BY <1>0, <1>8 DEF NotReady, UpOthers, dropVars, ConfInv, SubsInv, SessInv, SinkInv
  <2>3. QED
    BY <2>1, <2>2 DEF ForwardInv
<1>9. CASE AddUpstreamSink(i)
  <2>1. ConfInv' /\ SubsInv'
    BY <1>0, <1>9 DEF AddUpstreamSink, UpOthers, ConfInv, SubsInv
  <2>2. CASE SinksFull(call[i].ms)
    <3>1. CallInv' /\ StoredInv'
      BY <1>6, <1>9, <1>7, <2>2 DEF AddUpstreamSink, dropVars
    <3>2. SessInv' /\ SinkInv'
      BY <1>0, <1>9, <2>2 DEF AddUpstreamSink, dropVars, SessInv, SinkInv
    <3>3. QED
      BY <2>1, <3>1, <3>2 DEF ForwardInv
  <2>3. CASE ~SinksFull(call[i].ms)
    <3>1. PICK key : key = IF call[i].ms \in Ports \cup {ClosedServer} THEN "port" ELSE "virtual"
      OBVIOUS
    <3>2. sink' = [sink EXCEPT ![i] = call[i].ms] /\ StoreSession(i, key)
      BY <1>9, <2>3, <3>1 DEF AddUpstreamSink
    <3>3. /\ call[i].pc = "attach" /\ call[i].u \in Upstreams /\ call[i].id \in Names \cup Channels
          /\ call[i].n \in Names
      BY <1>0, <1>9 DEF AddUpstreamSink, CallInv
    <3>4. PICK r \in SessionRecs : /\ sess' = [sess EXCEPT ![i] = r] /\ r.key = key
      <4>1. [u |-> call[i].u, id |-> call[i].id, n |-> call[i].n, key |-> key] \in SessionRecs
        BY <3>1, <3>3 DEF SessionRecs
      <4>2. QED
        BY <3>2, <4>1 DEF StoreSession
    <3>5. /\ CallInv' /\ call'[i].pc \in {"done", "feed"}
          /\ \A j \in Calls : j # i => call'[j] = call[j]
      <4>1. CASE key = "port"
        BY <1>6, <3>2, <4>1 DEF StoreSession
      <4>2. CASE key = "virtual"
        <5>1. call' = [call EXCEPT ![i] = [call[i] EXCEPT !.pc = "feed"]]
          BY <3>2, <4>2 DEF StoreSession
        <5>2. QED
          BY <1>0, <3>3, <5>1 DEF CallInv, CallRecs
      <4>3. QED
        BY <3>1, <4>1, <4>2
    <3>6. SessInv'
      <4>1. call[i].ms \in Servers \cup {None}
        BY <1>0 DEF CallRecs
      <4>2. QED
        BY <1>0, <1>9, <3>2, <3>4, <4>1 DEF AddUpstreamSink, SessInv
    <3>7. SinkInv'
      <4>1. UNCHANGED <<feeds, dropping, lateFeeds>> /\ \A w \in Droppers : <<w, i>> \notin dropping
        BY <1>0, <1>9, <3>3 DEF AddUpstreamSink, dropVars, StoredInv, Unstored
      <4>2. call[i].ms = VirtualServer => key = "virtual"
        BY <3>1, ServerNumbers
      <4>3. sess'[i] # None /\ sess'[i].key = key /\ sink'[i] = call[i].ms
        BY <1>0, <3>2, <3>4, SessionIsNotNone DEF SessInv
      <4>4. \A j \in Calls : j # i => sess'[j] = sess[j] /\ sink'[j] = sink[j]
        BY <3>2, <3>4
      <4>5. QED
        BY <1>0, <4>1, <4>2, <4>3, <4>4 DEF SinkInv, Linked
    <3>8. StoredInv'
      BY <1>9, <1>7, <3>4, <3>5 DEF AddUpstreamSink, dropVars
    <3>9. QED
      BY <2>1, <3>5, <3>6, <3>7, <3>8 DEF ForwardInv
  <2>4. QED
    BY <2>2, <2>3
<1>10. ASSUME NEW group \in BOOLEAN, RequestUpstreamRtpFeed(i, group)
      PROVE  ForwardInv'
  <2>1. ConfInv' /\ SubsInv' /\ CallInv'
    BY <1>0, <1>6, <1>10 DEF RequestUpstreamRtpFeed, UpOthers, ConfInv, SubsInv
  <2>2. /\ call'[i].pc = "done" /\ dropping' = dropping
        /\ \A j \in Calls : j # i => call'[j] = call[j]
    BY <1>6, <1>10 DEF RequestUpstreamRtpFeed
  <2>3. CASE ~group
    <3>1. SessInv' /\ SinkInv'
      BY <1>0, <1>10, <2>3 DEF RequestUpstreamRtpFeed, SessInv, SinkInv
    <3>2. StoredInv'
      BY <1>10, <1>7, <2>2, <2>3 DEF RequestUpstreamRtpFeed
    <3>3. QED
      BY <2>1, <3>1, <3>2 DEF ForwardInv
  <2>4. CASE group
    <3>1. PICK r \in SessionRecs : sess' = [sess EXCEPT ![i] = r] /\ r.key = "virtual"
      <4>1. [u |-> call[i].u, id |-> call[i].id, n |-> call[i].n, key |-> "virtual"] \in SessionRecs
        BY <1>0, <1>10 DEF RequestUpstreamRtpFeed, CallInv, SessionRecs
      <4>2. QED
        BY <1>10, <2>4, <4>1 DEF RequestUpstreamRtpFeed
    <3>2. /\ feeds' = feeds \cup {i} /\ sink' = sink /\ virtual' = virtual
          /\ lateFeeds' \in {lateFeeds, lateFeeds \cup {i}}
          /\ \A w \in Droppers \ {DevicePort} : <<w, i>> \in dropping => i \in lateFeeds'
      BY <1>10, <2>4 DEF RequestUpstreamRtpFeed
    <3>3. SessInv'
      BY <1>0, <3>1, <3>2 DEF SessInv
    <3>4. SinkInv'
      <4>1. /\ sess'[i] # None /\ sess'[i].key = "virtual"
            /\ \A j \in Calls : j # i => sess'[j] = sess[j]
        BY <1>0, <3>1, SessionIsNotNone DEF SessInv
      <4>2. QED
        BY <1>0, <2>2, <3>2, <4>1 DEF SinkInv, Linked
    <3>5. StoredInv'
      BY <1>7, <2>2, <3>1
    <3>6. QED
      BY <2>1, <3>3, <3>4, <3>5 DEF ForwardInv
  <2>5. QED
    BY <2>3, <2>4
<1>11. CASE OnUpstreamBye(i)
  <2>1. sess[i] # None /\ CancelSession(UpstreamPort, i)
    BY <1>11 DEF OnUpstreamBye
  <2>2. /\ SessInv' /\ SinkInv' /\ sess' = sess
        /\ \A k \in Calls, v \in Droppers : <<v, k>> \in dropping' => <<v, k>> \in dropping \/ k = i
    BY <1>0, <2>1, CancelKeeps, DropperNumbers
  <2>3. ConfInv' /\ SubsInv' /\ CallInv' /\ call' = call
    BY <1>0, <1>11 DEF OnUpstreamBye, UpOthers, ConfInv, SubsInv, CallInv
  <2>4. StoredInv'
    BY <1>0, <2>1, <2>2, <2>3, CancelKeepsStored
  <2>5. QED
    BY <2>2, <2>3, <2>4 DEF ForwardInv
<1>12. CASE UpstreamByeEnds(i)
  BY <1>12, <1>3, DropperNumbers DEF UpstreamByeEnds, UpOthers
<1>13. CASE OnByeOfPlatform(i)
  <2>1. /\ sess[i] # None /\ sess' = [sess EXCEPT ![i] = None]
        /\ dropping' = dropping \cup {<<DevicePort, i>>}
        /\ UNCHANGED <<conf, subs, sink, feeds, lateFeeds, virtual, call, admin>>
    BY <1>13 DEF OnByeOfPlatform, UpOthers
  <2>2. ConfInv' /\ SubsInv' /\ CallInv' /\ SessInv'
    BY <1>0, <2>1 DEF ConfInv, SubsInv, CallInv, SessInv
  <2>3. SinkInv'
    <3>1. ASSUME NEW j \in Calls
          PROVE  /\ j \in feeds => \/ sess'[j] # None \/ j \in lateFeeds
                                   \/ <<DevicePort, j>> \in dropping'
                 /\ sink[j] = VirtualServer => \/ sess'[j] # None /\ sess'[j].key = "virtual"
                                               \/ <<DevicePort, j>> \in dropping'
                 /\ \A v \in Droppers \ {DevicePort} : <<v, j>> \in dropping' =>
                       (j \in feeds => j \in lateFeeds) /\ sink[j] # VirtualServer
      <4>1. \A v \in Droppers \ {DevicePort} : <<v, j>> \in dropping' => <<v, j>> \in dropping
        BY <2>1
      <4>2. CASE j = i
        BY <1>0, <2>1, <4>1, <4>2 DEF SinkInv, Linked
      <4>3. CASE j # i
        <5>1. sess'[j] = sess[j]
          BY <2>1, <4>3
        <5>2. QED
          BY <1>0, <2>1, <4>1, <5>1 DEF SinkInv, Linked
      <4>4. QED
        BY <4>2, <4>3
    <3>2. QED
      BY <2>1, <3>1 DEF SinkInv, Linked
  <2>4. StoredInv'
    <3>1. ASSUME NEW j \in Calls, Unstored(j)
          PROVE  sess'[j] = None /\ \A w \in Droppers : <<w, j>> \notin dropping'
      <4>1. sess[j] = None /\ j # i
        BY <1>0, <2>1, <3>1 DEF StoredInv
      <4>2. QED
        BY <1>0, <2>1, <3>1, <4>1 DEF StoredInv
    <3>2. \A j \in Calls : Unstored(j)' => Unstored(j)
      BY <2>1 DEF Unstored
    <3>3. QED
      BY <3>1, <3>2 DEF StoredInv
  <2>5. QED
    BY <2>2, <2>3, <2>4 DEF ForwardInv
<1>14. CASE ByeOfPlatformEnds(i)
  <2>1. /\ dropping' = dropping \ {<<DevicePort, i>>} /\ feeds' = feeds \ {i}
        /\ sink' = RemoveUpstreamSink(i)
        /\ UNCHANGED <<conf, subs, sess, lateFeeds, virtual, call, admin>>
    BY <1>14 DEF ByeOfPlatformEnds, UpOthers
  <2>2. ConfInv' /\ SubsInv' /\ CallInv' /\ SessInv'
    BY <1>0, <2>1, SinkRemoved DEF ConfInv, SubsInv, CallInv, SessInv
  <2>3. SinkInv'
    <3>1. ASSUME NEW j \in Calls
          PROVE  /\ j \in feeds' => sess[j] # None \/ j \in lateFeeds \/ <<DevicePort, j>> \in dropping'
                 /\ sink'[j] = VirtualServer => \/ sess[j] # None /\ sess[j].key = "virtual"
                                                \/ <<DevicePort, j>> \in dropping'
                 /\ \A v \in Droppers \ {DevicePort} : <<v, j>> \in dropping' =>
                       (j \in feeds' => j \in lateFeeds) /\ sink'[j] # VirtualServer
      <4>1. CASE j = i
        BY <1>0, <2>1, <4>1, SinkRemoved
      <4>2. CASE j # i
        <5>1. /\ sink'[j] = sink[j] /\ (j \in feeds' <=> j \in feeds)
              /\ \A v : <<v, j>> \in dropping' <=> <<v, j>> \in dropping
          BY <1>0, <2>1, <4>2, SinkRemoved
        <5>2. QED
          BY <1>0, <5>1 DEF SinkInv, Linked
      <4>3. QED
        BY <4>1, <4>2
    <3>2. QED
      BY <2>1, <3>1 DEF SinkInv, Linked
  <2>4. StoredInv'
    BY <1>0, <2>1, DeleteKeepsStored
  <2>5. QED
    BY <2>2, <2>3, <2>4 DEF ForwardInv
<1>15. QED
  BY <1>1, <1>2, <1>5, <1>8, <1>9, <1>10, <1>11, <1>12, <1>4, <1>13, <1>14 DEF CallNext

\* The subscriptions and the reload.
LEMMA AdminKeepsForwards ==
    ASSUME ForwardInv, AdminNext
    PROVE  ForwardInv'
<1>0. ConfInv /\ SubsInv /\ CallInv /\ SessInv /\ SinkInv /\ StoredInv
  BY DEF ForwardInv
<1>1. ASSUME UNCHANGED <<conf, sess, sink, feeds, dropping, lateFeeds, virtual, call>>, SubsInv'
      PROVE  ForwardInv'
  BY <1>0, <1>1 DEF ForwardInv, ConfInv, CallInv, SessInv, SinkInv, StoredInv, Unstored
<1>2. ASSUME NEW i \in Calls, sess[i] # None, CancelSession(AdminDrop, i),
             UNCHANGED <<conf, subs, call, admin>>
      PROVE  ForwardInv'
  <2>1. /\ SessInv' /\ SinkInv' /\ sess' = sess
        /\ \A k \in Calls, v \in Droppers : <<v, k>> \in dropping' => <<v, k>> \in dropping \/ k = i
    BY <1>0, <1>2, CancelKeeps, DropperNumbers
  <2>2. ConfInv' /\ SubsInv' /\ CallInv'
    BY <1>0, <1>2 DEF ConfInv, SubsInv, CallInv
  <2>3. StoredInv'
    BY <1>0, <1>2, <2>1, CancelKeepsStored
  <2>4. QED
    BY <2>1, <2>2, <2>3 DEF ForwardInv
<1>3. ASSUME maybeCleanupVirtualMediaServer(sess, sink, msIndex), SubsInv',
             call' = [j \in Calls |-> Orphan(call[j])],
             UNCHANGED <<conf, sess, feeds, dropping, lateFeeds>>
      PROVE  ForwardInv'
  <2>1. SessInv' /\ SinkInv'
    BY <1>0, <1>3, CleanupKeepsSinks DEF SessInv, SinkInv
  <2>2. CallInv' /\ \A j \in Calls : call'[j].pc = call[j].pc
    BY <1>0, <1>3, OrphansKeepCalls
  <2>3. StoredInv'
    BY <1>0, <1>3, <2>2, DeleteKeepsStored
  <2>4. ConfInv'
    BY <1>0, <1>3 DEF ConfInv
  <2>5. QED
    BY <1>3, <2>1, <2>2, <2>3, <2>4 DEF ForwardInv
<1>4. ASSUME NEW u \in Upstreams, NEW n \in Names, AddUpstreamSub(u, n) \/ RemoveUpstreamSub(u, n)
      PROVE  ForwardInv'
  <2>1. SubsInv'
    BY <1>0, <1>4 DEF AddUpstreamSub, RemoveUpstreamSub, SubsInv
  <2>2. QED
    BY <1>1, <1>4, <2>1 DEF AddUpstreamSub, RemoveUpstreamSub, UpOthers, dropVars
<1>5. ASSUME NEW c \in {{}, conf.subs}, BrutalReloadUpstreams(c)
      PROVE  ForwardInv'
  <2>1. SubsInv'
    BY <1>0, <1>5 DEF BrutalReloadUpstreams, ConfInv, SubsInv
  <2>2. QED
    BY <1>1, <1>5, <2>1 DEF BrutalReloadUpstreams, UpOthers, dropVars
<1>6. CASE reconcileUpstreamSession
  BY <1>2, <1>6 DEF reconcileUpstreamSession, Unsubscribed, UpOthers
<1>7. CASE ReloadDrops
  BY <1>2, <1>7 DEF ReloadDrops, UpOthers
<1>8. CASE AdminDropEnds
  <2>1. PICK i \in Calls : DeleteSession(AdminDrop, i, FALSE)
    BY <1>8 DEF AdminDropEnds
  <2>2. /\ SessInv' /\ SinkInv' /\ dropping' \subseteq dropping
        /\ \A k \in Calls : sess[k] = None => sess'[k] = None
    BY <1>0, <2>1, DeleteKeeps, DropperNumbers
  <2>3. ConfInv' /\ SubsInv' /\ CallInv' /\ call' = call
    BY <1>0, <1>8 DEF AdminDropEnds, UpOthers, ConfInv, SubsInv, CallInv
  <2>4. StoredInv'
    BY <1>0, <2>2, <2>3, DeleteKeepsStored
  <2>5. QED
    BY <2>2, <2>3, <2>4 DEF ForwardInv
<1>9. CASE ReconcileEnds
  <2>1. SubsInv'
    BY <1>0, <1>9 DEF ReconcileEnds, SubsInv, NoAdmin
  <2>2. QED
    BY <1>3, <1>9, <2>1 DEF ReconcileEnds, UpOthers, dropVars
<1>10. CASE ReloadDropped
  <2>1. SubsInv'
    BY <1>0, <1>10 DEF ReloadDropped, SubsInv
  <2>2. QED
    BY <1>1, <1>10, <2>1 DEF ReloadDropped, UpOthers, dropVars
<1>11. CASE ClearAllUpstreamSinks
  <2>1. /\ sink' = SinksCleared
        /\ UNCHANGED <<conf, subs, sess, feeds, dropping, lateFeeds, virtual, call>>
    BY <1>11 DEF ClearAllUpstreamSinks, UpOthers, dropVars
  <2>2. ConfInv' /\ CallInv' /\ StoredInv'
    BY <1>0, <2>1 DEF ConfInv, CallInv, StoredInv, Unstored
  <2>3. SubsInv'
    BY <1>0, <1>11 DEF ClearAllUpstreamSinks, SubsInv
  <2>4. SessInv'
    BY <1>0, <2>1 DEF SinksCleared, SessInv
  <2>5. \A i \in Calls : sink'[i] # VirtualServer
    BY <2>1, ServerNumbers DEF SinksCleared
  <2>6. SinkInv'
    BY <1>0, <2>1, <2>5 DEF SinkInv, Linked
  <2>7. QED
    BY <2>2, <2>3, <2>4, <2>6 DEF ForwardInv
<1>12. CASE RestartUpstreams
  <2>1. SubsInv'
    BY <1>0, <1>12 DEF RestartUpstreams, SubsInv
  <2>2. QED
    BY <1>3, <1>12, <2>1 DEF RestartUpstreams, UpOthers, dropVars
<1>13. CASE ReloadSubs
  <2>1. SubsInv'
    BY <1>0, <1>13 DEF ReloadSubs, SubsInv
  <2>2. QED
    BY <1>1, <1>13, <2>1 DEF ReloadSubs, UpOthers, dropVars
<1>14. QED
  BY <1>4, <1>5, <1>6, <1>7, <1>8, <1>9, <1>10, <1>11, <1>12, <1>13 DEF AdminNext

\* Every RTP feed and every sink of the virtual media server belongs to a session that
\* can still end it, or to one that the handler of a BYE is just ending, in every order of
\* INVITEs, BYEs, unsubscriptions and reloads; but for a feed that starts while somebody
\* who saw none is about to delete the session (OnUpstreamInvite, its clean-ups).
THEOREM Forwarded == Spec => []ForwardsAccounted
<1>1. GbUpstreamInit => ForwardInv
  <2> SUFFICES ASSUME GbUpstreamInit PROVE ForwardInv
    OBVIOUS
  <2>1. ConfInv
    BY GbDialogAssumption DEF GbUpstreamInit, Init, ConfInv
  <2>2. SubsInv
    BY <2>1 DEF GbUpstreamInit, ConfInv, SubsInv, NoAdmin
  <2>3. CallInv
    BY DEF GbUpstreamInit, CallInv, CallRecs, NoCall
  <2>4. SessInv /\ SinkInv /\ StoredInv
    BY ServerNumbers DEF GbUpstreamInit, SessInv, SinkInv, Linked, StoredInv
  <2>5. QED
    BY <2>1, <2>2, <2>3, <2>4 DEF ForwardInv
<1>2. ForwardInv /\ [Next]_vars => ForwardInv'
  <2> SUFFICES ASSUME ForwardInv, [Next]_vars PROVE ForwardInv'
    OBVIOUS
  <2>1. CASE DialogNext /\ ServersFollow
    BY <2>1, DialogKeepsForwards
  <2>2. ASSUME NEW n \in Names, OtherPublisher(n)
        PROVE  ForwardInv'
    BY <2>2 DEF OtherPublisher, upVars, dropVars, ForwardInv, ConfInv, SubsInv, CallInv, SessInv,
                SinkInv, StoredInv, Unstored
  <2>3. CASE \E i \in Calls : CallNext(i)
    BY <2>3, CallsKeepForwards
  <2>4. CASE AdminNext
    BY <2>4, AdminKeepsForwards
  <2>5. CASE UNCHANGED vars
    BY <2>5 DEF vars, dialogVars, upVars, dropVars, ForwardInv, ConfInv, SubsInv, CallInv, SessInv,
                SinkInv, StoredInv, Unstored
  <2>6. QED
    BY <2>1, <2>2, <2>3, <2>4, <2>5 DEF Next
<1>3. ForwardInv => ForwardsAccounted
  BY DEF ForwardInv, SinkInv, Linked, ForwardsAccounted
<1>4. QED
  BY <1>1, <1>2, <1>3, PTL DEF Spec

-----------------------------------------------------------------------------
(* Steps of the device side that neither send an INVITE or a BYE nor store  *)
(* a media server: most of them.                                            *)

\* No INVITE and no BYE is sent.
CountQuiet == UNCHANGED <<conf, invites, byes, overtaken>>
\* An object keeps its dialog or forgets it.
ChQuiet == \A o \in Objs : ch'[o].ack \in {ch[o].ack, 0}
\* No actor comes to wait for an answer, or to store a server; the job stays out of it.
ProcQuiet ==
    /\ \A x \in Procs : proc'[x].pc \in {"sent", "ack"} =>
          proc[x].pc = proc'[x].pc /\ proc'[x].d = proc[x].d
    /\ proc'["api"].pc = "acquire" => proc["api"].pc = "acquire" /\ proc'["api"].c = proc["api"].c
    /\ JobInv => JobInv'
\* A media server that goes leaves both tables, or its port is an early one.
PortQuiet ==
    /\ PortsAccounted => PortsAccounted'
    /\ \A c \in Channels : mediaMap'[c] \in {mediaMap[c], 0}
Quiet == CountQuiet /\ ChQuiet /\ ProcQuiet /\ PortQuiet

\* A quiet step keeps the bookkeeping of dialogs.
LEMMA QuietKeepsByes ==
    ASSUME Shape, ByeInv, CountQuiet, ChQuiet, ProcQuiet
    PROVE  ByeInv'
<1>1. AckInv'
  BY DEF Shape, CountInv, ChInv, ChOK, ByeInv, AckInv, CountQuiet, ChQuiet
<1>2. SentInv'
  <2>1. \A x \in Procs : proc[x].pc = "sent" => proc[x].d # 0
    BY DEF Shape, CountInv, ByeInv, SentInv
  <2>2. QED
    BY <2>1 DEF ByeInv, SentInv, CountQuiet, ChQuiet, ProcQuiet
<1>3. OneByePerDialog'
  BY DEF ByeInv, OneByePerDialog, CountQuiet
<1>4. QED
  BY <1>1, <1>2, <1>3 DEF ByeInv

\* A quiet step keeps the bookkeeping of ports.
LEMMA QuietKeepsPorts ==
    ASSUME Shape, PortInv, conf' = conf, ProcQuiet, PortQuiet
    PROVE  PortInv'
<1>1. AcquireInv'
  <2>1. SUFFICES ASSUME ~conf.retry, proc["api"].pc = "acquire", proc'["api"].c = proc["api"].c
                 PROVE  mediaMap'[proc["api"].c] = 0
    BY DEF AcquireInv, ProcQuiet
  <2>2. mediaMap[proc["api"].c] = 0 /\ proc["api"].c \in Channels
    BY <2>1 DEF PortInv, AcquireInv, Shape, ProcInv, ProcOK, UsesChan, Procs
  <2>3. QED
    BY <2>2 DEF PortQuiet
<1>2. QED
  BY <1>1 DEF PortInv, ProcQuiet, PortQuiet

\* What leaves the tables of the media servers alone.
LEMMA StillMedia ==
    ASSUME Shape, UNCHANGED <<conf, invites, byes, overtaken, owner, early, mediaMap, recovery>>
    PROVE  /\ ConfInv' /\ RecoveryInv' /\ CountInv' /\ PortTypes'
           /\ CountQuiet /\ PortQuiet
<1>1. ConfInv' /\ RecoveryInv' /\ CountInv' /\ PortTypes'
  BY DEF Shape, ConfInv, RecoveryInv, CountInv, PortTypes
<1>2. CountQuiet /\ PortQuiet
  BY DEF CountQuiet, PortQuiet, PortsAccounted
<1>3. QED
  BY <1>1, <1>2

\* What leaves the channels alone.
LEMMA StillObjects ==
    ASSUME Shape, UNCHANGED <<obj, ch>>
    PROVE  ObjInv' /\ ChInv' /\ ChQuiet
BY DEF Shape, ObjInv, ChInv, ChQuiet

\* What leaves the actors alone.
LEMMA StillProcs ==
    ASSUME Shape, UNCHANGED <<conf, proc>>
    PROVE  ProcInv' /\ ProcQuiet
BY DEF Shape, ProcInv, ProcQuiet, JobInv

\* One object is changed; its dialog is kept or forgotten.
LEMMA ChStep ==
    ASSUME Shape, NEW o, NEW r, ch' = [ch EXCEPT ![o] = r],
           o \in Objs => ChOK(r) /\ r.ack \in {ch[o].ack, 0}
    PROVE  ChInv' /\ ChQuiet
BY DEF Shape, ChInv, ChQuiet

\* One actor goes on to a step that neither waits for an answer nor stores a server.
LEMMA ProcStep ==
    ASSUME Shape, NEW x \in Procs, NEW r, proc' = [proc EXCEPT ![x] = r], ProcOK(r),
           r.pc \notin {"sent", "ack", "acquire"}, conf' = conf,
           x = "job" /\ JobInv /\ ~conf.retry => r.pc \in {"idle", "bye", "clear"} /\ r.then = "idle"
    PROVE  ProcInv' /\ ProcQuiet
<1>1. ProcInv'
  BY DEF Shape, ProcInv
<1>2. /\ \A y \in Procs : proc'[y].pc \in {"sent", "ack"} =>
             proc[y].pc = proc'[y].pc /\ proc'[y].d = proc[y].d
      /\ proc'["api"].pc = "acquire" =>
           proc["api"].pc = "acquire" /\ proc'["api"].c = proc["api"].c
  BY DEF Shape, ProcInv, Procs
<1>3. JobInv => JobInv'
  BY DEF Shape, ProcInv, Procs, JobInv
<1>4. QED
  BY <1>1, <1>2, <1>3 DEF ProcQuiet

\* An actor that has nothing to do.
LEMMA IdleOK == ProcOK(Idle) /\ Idle.pc = "idle" /\ Idle.then = "idle"
BY DEF ProcOK, Idle, ProcFields, UsesObj, UsesChan

\* Dispose takes the server out of both tables, or leaves an early port behind.
LEMMA DisposeQuiet ==
    ASSUME Shape, NEW c, Dispose(c), conf' = conf
    PROVE  PortTypes' /\ PortQuiet
<1>1. CASE mediaMap[c] = 0
  BY <1>1 DEF Dispose, listenVars, Shape, PortTypes, PortQuiet, PortsAccounted
<1>2. CASE mediaMap[c] # 0
  <2>1. PICK p : p = mediaMap[c]
    OBVIOUS
  <2>2. /\ mediaMap' = [mediaMap EXCEPT ![c] = 0]
        /\ \/ owner' = owner /\ early' = early \cup {p}
           \/ owner' = [owner EXCEPT ![p] = None] /\ early' = early
    BY <1>2, <2>1 DEF Dispose
  <2>3. PortTypes'
    BY <2>2 DEF Shape, PortTypes
  <2>4. ASSUME PortsAccounted, ~conf.retry, NEW q \in Ports, owner'[q] # None, q \notin early'
        PROVE  mediaMap'[owner'[q]] = q
    <3>1. q # p /\ owner'[q] = owner[q] /\ owner[q] \in Channels /\ q \notin early
      BY <2>2, <2>4 DEF Shape, PortTypes
    <3>2. mediaMap[owner[q]] = q
      BY <2>4, <3>1 DEF PortsAccounted
    <3>3. owner[q] # c
      BY <3>1, <3>2, <2>1
    <3>4. QED
      BY <2>2, <3>1, <3>2, <3>3 DEF Shape, PortTypes
  <2>5. \A e \in Channels : mediaMap'[e] \in {mediaMap[e], 0}
    BY <2>2 DEF Shape, PortTypes
  <2>6. QED
    BY <2>3, <2>4, <2>5 DEF PortQuiet, PortsAccounted
<1>3. QED
  BY <1>1, <1>2

\* So does the stop of a media server, which also cancels a retry.
LEMMA StopQuiet ==
    ASSUME Shape, NEW c, NEW n, OnStopMediaServer(c, n), conf' = conf
    PROVE  PortTypes' /\ PortQuiet /\ RecoveryInv'
<1>1. PortTypes' /\ PortQuiet
  BY DisposeQuiet DEF OnStopMediaServer
<1>2. recovery' = recovery \/ recovery' = [recovery EXCEPT ![n] = NoRecovery]
  BY DEF OnStopMediaServer
<1>3. RecoveryInv'
  BY <1>2 DEF Shape, RecoveryInv, NoRecovery
<1>4. QED
  BY <1>1, <1>3

\* A channel that is not known gets a fresh object; one that is known keeps its dialog.
LEMMA ChannelQuiet ==
    ASSUME Shape, NEW c \in Channels, NEW on \in BOOLEAN, addOrUpdateChannel(c, on)
    PROVE  ObjInv' /\ ChInv' /\ ChQuiet
<1>1. CASE obj[c] # 0
  <2>1. obj' = obj /\ ch' = [ch EXCEPT ![obj[c]] = [ch[obj[c]] EXCEPT !.on = on]]
    BY <1>1 DEF addOrUpdateChannel
  <2>2. obj[c] \in Objs /\ ChOK(ch[obj[c]])
    BY <1>1 DEF Shape, ObjInv, ChInv
  <2>3. ChOK([ch[obj[c]] EXCEPT !.on = on]) /\ [ch[obj[c]] EXCEPT !.on = on].ack = ch[obj[c]].ack
    BY <2>2 DEF ChOK, ChFields
  <2>4. ChInv' /\ ChQuiet
    BY <2>1, <2>3, ChStep
  <2>5. QED
    BY <2>1, <2>4 DEF Shape, ObjInv
<1>2. CASE obj[c] = 0
  <2>1. PICK o \in Objs : ch' = [ch EXCEPT ![o] = NewChannel(c, on)] /\ obj' = [obj EXCEPT ![c] = o]
    BY <1>2 DEF addOrUpdateChannel
  <2>2. ChOK(NewChannel(c, on)) /\ NewChannel(c, on).ack = 0
    BY DEF ChOK, ChFields, NewChannel
  <2>3. ChInv' /\ ChQuiet
    BY <2>1, <2>2, ChStep
  <2>4. QED
    BY <2>1, <2>3 DEF Shape, ObjInv
<1>3. QED
  BY <1>1, <1>2

\* The SIP handlers of the device and its status.
LEMMA DeviceQuiet ==
    ASSUME Shape, DeviceNext
    PROVE  Shape' /\ Quiet
<1>1. ASSUME UNCHANGED <<conf, invites, byes, overtaken, owner, early, mediaMap, recovery>>,
             ObjInv', ChInv', ChQuiet, ProcInv', ProcQuiet
      PROVE  Shape' /\ Quiet
  BY <1>1, StillMedia DEF Shape, Quiet
<1>2. ASSUME NEW auth \in {"none", "good", "bad"}, NEW unregister \in BOOLEAN,
             OnRegister(auth, unregister)
      PROVE  Shape' /\ Quiet
  <2>1. UNCHANGED <<conf, invites, byes, overtaken, owner, early, mediaMap, recovery, ch, proc>>
    BY <1>2 DEF OnRegister, mediaVars, listenVars, byeVars
  <2>2. obj' = obj \/ obj' = [c \in Channels |-> 0]
    BY <1>2 DEF OnRegister, deviceVars, Forget
  <2>3. ObjInv' /\ ChInv' /\ ChQuiet
    BY <2>1, <2>2 DEF Shape, ObjInv, ChInv, ChQuiet
  <2>4. QED
    BY <1>1, <2>1, <2>3, StillProcs
<1>3. CASE removeBanDevice
  <2>1. UNCHANGED <<conf, invites, byes, overtaken, owner, early, mediaMap, recovery, obj, ch, proc>>
    BY <1>3 DEF removeBanDevice, mediaVars, listenVars, byeVars
  <2>2. QED
    BY <1>1, <2>1, StillObjects, StillProcs
<1>4. ASSUME NEW cmd \in {"Keepalive", "Catalog", "Alarm"}, NEW c \in Channels,
             NEW on \in BOOLEAN, OnMessage(cmd, c, on)
      PROVE  Shape' /\ Quiet
  <2>1. UNCHANGED <<conf, invites, byes, overtaken, owner, early, mediaMap, recovery, proc>>
    BY <1>4 DEF OnMessage, mediaVars, listenVars, byeVars
  <2>2. addOrUpdateChannel(c, on) \/ UNCHANGED <<obj, ch>>
    BY <1>4 DEF OnMessage
  <2>3. QED
    BY <1>1, <2>1, <2>2, StillObjects, ChannelQuiet, StillProcs
<1>5. ASSUME NEW event \in {"ON", "OFF", "ADD", "DEL"}, NEW c \in Channels, OnNotify(event, c)
      PROVE  Shape' /\ Quiet
  <2>1. UNCHANGED <<conf, invites, byes, overtaken, owner, early, mediaMap, recovery, proc>>
    BY <1>5 DEF OnNotify, mediaVars, listenVars, byeVars
  <2>2. CASE event = "ADD"
    BY <1>1, <1>5, <2>1, <2>2, ChannelQuiet, StillProcs DEF OnNotify, UpdateChannelStatus
  <2>3. CASE event = "DEL"
    <3>1. obj' = [obj EXCEPT ![c] = 0] /\ ch' = ch
      BY <1>5, <2>3 DEF OnNotify, UpdateChannelStatus
    <3>2. ObjInv' /\ ChInv' /\ ChQuiet
      BY <3>1 DEF Shape, ObjInv, ChInv, ChQuiet
    <3>3. QED
      BY <1>1, <2>1, <3>2, StillProcs
  <2>4. CASE event \in {"ON", "OFF"}
    <3>1. obj[c] # 0 /\ obj' = obj /\ ch' = [ch EXCEPT ![obj[c]] = [ch[obj[c]] EXCEPT !.on = (event = "ON")]]
      BY <1>5, <2>4 DEF OnNotify, UpdateChannelStatus
    <3>2. obj[c] \in Objs /\ ChOK(ch[obj[c]])
      BY <3>1 DEF Shape, ObjInv, ChInv
    <3>3. PICK v : v = (event = "ON")
      OBVIOUS
    <3>4. /\ ChOK([ch[obj[c]] EXCEPT !.on = v])
          /\ [ch[obj[c]] EXCEPT !.on = v].ack = ch[obj[c]].ack
      BY <3>2 DEF ChOK, ChFields
    <3>5. ChInv' /\ ChQuiet
      BY <3>1, <3>3, <3>4, ChStep
    <3>6. ObjInv'
      BY <3>1 DEF Shape, ObjInv
    <3>7. QED
      BY <1>1, <2>1, <3>5, <3>6, StillProcs
  <2>5. QED
    BY <2>2, <2>3, <2>4
<1>6. ASSUME NEW dropped \in BOOLEAN, statusCheck(dropped)
      PROVE  Shape' /\ Quiet
  <2>1. UNCHANGED <<conf, invites, byes, overtaken, owner, early, mediaMap, recovery, proc>>
    BY <1>6 DEF statusCheck, mediaVars, listenVars, byeVars
  <2>2. CASE dropped
    <3>1. obj' = [c \in Channels |-> 0] /\ ch' = ch
      BY <1>6, <2>2 DEF statusCheck, Forget
    <3>2. ObjInv' /\ ChInv' /\ ChQuiet
      BY <3>1 DEF Shape, ObjInv, ChInv, ChQuiet
    <3>3. QED
      BY <1>1, <2>1, <3>2, StillProcs
  <2>3. CASE ~dropped
    <3>1. /\ obj' = obj
          /\ ch' = [o \in Objs |-> IF o \in Listed THEN [ch[o] EXCEPT !.on = FALSE] ELSE ch[o]]
      BY <1>6, <2>3 DEF statusCheck
    <3>2. ObjInv'
      BY <3>1 DEF Shape, ObjInv
    <3>3. ASSUME NEW o \in Objs
          PROVE  ChOK(ch'[o]) /\ ch'[o].ack = ch[o].ack
      <4>1. ChOK(ch[o])
        BY DEF Shape, ChInv
      <4>2. ch'[o] = ch[o] \/ ch'[o] = [ch[o] EXCEPT !.on = FALSE]
        BY <3>1
      <4>3. QED
        BY <4>1, <4>2 DEF ChOK, ChFields
    <3>4. ChInv' /\ ChQuiet
      <4>1. ch' = [o \in Objs |-> ch'[o]]
        BY <3>1
      <4>2. QED
        BY <4>1, <3>3 DEF ChInv, ChQuiet
    <3>5. QED
      BY <1>1, <2>1, <3>2, <3>4, StillProcs
  <2>4. QED
    BY <2>2, <2>3
<1>7. ASSUME NEW o \in Objs, OnBye(o)
      PROVE  Shape' /\ Quiet
  <2>1. UNCHANGED <<conf, invites, byes, overtaken, owner, early, mediaMap, recovery, obj, ch>>
    BY <1>7 DEF OnBye, Others, deviceVars, mediaVars, listenVars, byeVars
  <2>2. PICK r : r = [Idle EXCEPT !.pc = "byeClear", !.o = o, !.then = "unregister",
                                  !.old = ch[o].name]
    OBVIOUS
  <2>3. proc' = [proc EXCEPT !["sip"] = r]
    BY <1>7, <2>2 DEF OnBye
  <2>4. ProcOK(r) /\ r.pc = "byeClear"
    BY <2>2 DEF ProcOK, Idle, ProcFields, UsesObj, UsesChan
  <2>5. ProcInv' /\ ProcQuiet
    BY <2>1, <2>3, <2>4, ProcStep DEF Procs
  <2>6. QED
    BY <1>1, <2>1, <2>5, StillObjects
<1>8. QED
  BY <1>2, <1>3, <1>4, <1>5, <1>6, <1>7 DEF DeviceNext

\* The channels of the device have objects.
LEMMA ListedAreObjs ==
    ASSUME Shape
    PROVE  Listed \subseteq Objs
BY DEF Shape, ObjInv, Listed

\* The HTTP API and the scale of a playback: they find an object and go on with it.
LEMMA ApiQuiet ==
    ASSUME Shape, ApiNext
    PROVE  Shape' /\ Quiet
<1>0. /\ UNCHANGED <<conf, invites, byes, overtaken, owner, early, mediaMap, recovery, obj, ch>>
      /\ "api" \in Procs /\ "scale" \in Procs /\ ProcOK(proc["api"]) /\ ProcOK(proc["scale"])
  <2>1. UNCHANGED <<conf, invites, byes, overtaken, owner, early, mediaMap, recovery, obj, ch>>
    BY DEF ApiNext, CtrlGb28181Invite, CtrlGb28181Playback, CtrlGb28181Bye,
           CtrlGb28181PlaybackScale, stopByStreamName, checkOnline, PlaybackScale,
           SetPlaybackScale, InfoAnswered, Others, deviceVars, mediaVars, listenVars, byeVars
  <2>2. QED
    BY <2>1 DEF Shape, ProcInv, Procs
<1>1. ASSUME ProcInv', ProcQuiet
      PROVE  Shape' /\ Quiet
  BY <1>0, <1>1, StillMedia, StillObjects DEF Shape, Quiet
<1>2. ASSUME NEW x \in {"api", "scale"}, NEW r, proc' = [proc EXCEPT ![x] = r], ProcOK(r),
             r.pc \notin {"sent", "ack", "acquire"}
      PROVE  Shape' /\ Quiet
  BY <1>0, <1>1, <1>2, ProcStep
<1>3. CASE UNCHANGED proc
  BY <1>0, <1>1, <1>3, StillProcs
<1>4. ASSUME NEW c \in Channels, NEW n \in Names, CtrlGb28181Invite(c, n)
      PROVE  Shape' /\ Quiet
  <2>1. PICK o : o = Inviting(c)
    OBVIOUS
  <2>2. o \in Objs \cup {0}
    BY <2>1 DEF Inviting, Shape, ObjInv
  <2>3. CASE proc' = [proc EXCEPT !["api"] = [[Idle EXCEPT !.n = n, !.c = c] EXCEPT !.pc = "stopName"]]
    <3>1. PICK r : r = [[Idle EXCEPT !.n = n, !.c = c] EXCEPT !.pc = "stopName"]
      OBVIOUS
    <3>2. ProcOK(r) /\ r.pc = "stopName"
      BY <3>1 DEF ProcOK, Idle, ProcFields, UsesObj, UsesChan
    <3>3. QED
      BY <1>2, <2>3, <3>1, <3>2
  <2>4. CASE /\ o # 0
             /\ proc' = [proc EXCEPT !["api"] = [[Idle EXCEPT !.n = n, !.c = c]
                            EXCEPT !.pc = "bye", !.o = o, !.then = "stopName", !.old = ch[o].name]]
    <3>1. PICK r : r = [[Idle EXCEPT !.n = n, !.c = c]
                            EXCEPT !.pc = "bye", !.o = o, !.then = "stopName", !.old = ch[o].name]
      OBVIOUS
    <3>2. ProcOK(r) /\ r.pc = "bye"
      BY <2>2, <2>4, <3>1 DEF ProcOK, Idle, ProcFields, UsesObj, UsesChan
    <3>3. QED
      BY <1>2, <2>4, <3>1, <3>2
  <2>5. QED
    BY <1>3, <1>4, <2>1, <2>3, <2>4 DEF CtrlGb28181Invite
<1>5. ASSUME NEW c \in Channels, NEW n \in Names, CtrlGb28181Playback(c, n)
      PROVE  Shape' /\ Quiet
  <2>1. CASE obj[c] # 0 /\ proc' # proc
    <3>1. PICK r : r = [Idle EXCEPT !.pc = "invite", !.o = obj[c], !.c = c, !.n = n, !.pb = TRUE]
      OBVIOUS
    <3>2. proc' = [proc EXCEPT !["api"] = r]
      BY <1>5, <2>1, <3>1 DEF CtrlGb28181Playback
    <3>3. obj[c] \in Objs
      BY <2>1 DEF Shape, ObjInv
    <3>4. ProcOK(r) /\ r.pc = "invite"
      BY <3>1, <3>3 DEF ProcOK, Idle, ProcFields, UsesObj, UsesChan
    <3>5. QED
      BY <1>2, <3>2, <3>4
  <2>2. QED
    BY <1>3, <1>5, <2>1 DEF CtrlGb28181Playback
<1>6. ASSUME NEW n \in Names, CtrlGb28181Bye(n)
      PROVE  Shape' /\ Quiet
  <2>1. PICK o \in FindChannelByStreamName(n) :
          proc' = [proc EXCEPT !["api"] = [Idle EXCEPT !.pc = "bye", !.o = o,
                                               !.then = "unregister", !.old = n]]
    BY <1>6 DEF CtrlGb28181Bye
  <2>2. o \in Objs
    BY ListedAreObjs DEF FindChannelByStreamName
  <2>3. PICK r : r = [Idle EXCEPT !.pc = "bye", !.o = o, !.then = "unregister", !.old = n]
    OBVIOUS
  <2>4. ProcOK(r) /\ r.pc = "bye"
    BY <2>2, <2>3 DEF ProcOK, Idle, ProcFields, UsesObj, UsesChan
  <2>5. QED
    BY <1>2, <2>1, <2>3, <2>4
<1>7. ASSUME NEW n \in Names, CtrlGb28181PlaybackScale(n)
      PROVE  Shape' /\ Quiet
  <2>1. PICK o \in FindChannelByStreamName(n) :
          proc' = [proc EXCEPT !["scale"] = [Idle EXCEPT !.pc = "scale", !.o = o, !.n = n]]
    BY <1>7 DEF CtrlGb28181PlaybackScale
  <2>2. o \in Objs
    BY ListedAreObjs DEF FindChannelByStreamName
  <2>3. PICK r : r = [Idle EXCEPT !.pc = "scale", !.o = o, !.n = n]
    OBVIOUS
  <2>4. ProcOK(r) /\ r.pc = "scale"
    BY <2>2, <2>3 DEF ProcOK, Idle, ProcFields, UsesObj, UsesChan
  <2>5. QED
    BY <1>2, <2>1, <2>3, <2>4
<1>8. CASE stopByStreamName
  <2>1. CASE proc' = [proc EXCEPT !["api"].pc = "ready", !["api"].old = None]
    <3>1. PICK r : r = [proc["api"] EXCEPT !.pc = "ready", !.old = None]
      OBVIOUS
    <3>2. proc' = [proc EXCEPT !["api"] = r]
      BY <2>1, <3>1
    <3>3. ProcOK(r) /\ r.pc = "ready"
      BY <1>0, <1>8, <3>1 DEF stopByStreamName, ProcOK, ProcFields, UsesObj, UsesChan
    <3>4. QED
      BY <1>2, <3>2, <3>3
  <2>2. ASSUME NEW o \in FindChannelByStreamName(proc["api"].n),
               proc' = [proc EXCEPT !["api"] = [proc["api"] EXCEPT !.pc = "bye", !.o = o,
                                                    !.then = "ready", !.old = proc["api"].n]]
        PROVE  Shape' /\ Quiet
    <3>1. o \in Objs
      BY ListedAreObjs DEF FindChannelByStreamName
    <3>2. PICK r : r = [proc["api"] EXCEPT !.pc = "bye", !.o = o, !.then = "ready",
                                           !.old = proc["api"].n]
      OBVIOUS
    <3>3. ProcOK(r) /\ r.pc = "bye"
      BY <1>0, <1>8, <3>1, <3>2 DEF stopByStreamName, ProcOK, ProcFields, UsesObj, UsesChan
    <3>4. QED
      BY <1>2, <2>2, <3>2, <3>3
  <2>3. QED
    BY <1>8, <2>1, <2>2 DEF stopByStreamName
<1>9. CASE Return("api") \/ Return("scale")
  BY <1>2, <1>9, IdleOK DEF Return
<1>10. CASE checkOnline
  <2>1. CASE Return("api")
    BY <1>9, <2>1
  <2>2. CASE /\ obj[proc["api"].c] # 0
             /\ proc' = [proc EXCEPT !["api"].pc = "invite", !["api"].o = obj[proc["api"].c]]
    <3>1. PICK o : o = obj[proc["api"].c]
      OBVIOUS
    <3>2. proc["api"].c \in Channels /\ o \in Objs
      BY <1>0, <1>10, <2>2, <3>1 DEF checkOnline, ProcOK, UsesChan, Shape, ObjInv
    <3>3. PICK r : r = [proc["api"] EXCEPT !.pc = "invite", !.o = o]
      OBVIOUS
    <3>4. proc' = [proc EXCEPT !["api"] = r]
      BY <2>2, <3>1, <3>3
    <3>5. ProcOK(r) /\ r.pc = "invite"
      BY <1>0, <3>2, <3>3 DEF ProcOK, ProcFields, UsesObj, UsesChan
    <3>6. QED
      BY <1>2, <3>4, <3>5
  <2>3. QED
    BY <1>10, <2>1, <2>2 DEF checkOnline
<1>11. ASSUME NEW v \in {"info", "set"}, proc' = [proc EXCEPT !["scale"].pc = v]
       PROVE  Shape' /\ Quiet
  <2>1. PICK r : r = [proc["scale"] EXCEPT !.pc = v]
    OBVIOUS
  <2>2. proc' = [proc EXCEPT !["scale"] = r]
    BY <1>11, <2>1
  <2>3. ProcOK(r) /\ r.pc = v
    BY <1>0, <2>1 DEF ProcOK, ProcFields, UsesObj, UsesChan
  <2>4. QED
    BY <1>2, <2>2, <2>3
<1>12. CASE PlaybackScale
  BY <1>9, <1>11, <1>12 DEF PlaybackScale
<1>13. CASE SetPlaybackScale
  BY <1>9, <1>13 DEF SetPlaybackScale
<1>14. ASSUME NEW ok \in BOOLEAN, InfoAnswered(ok)
       PROVE  Shape' /\ Quiet
  BY <1>9, <1>11, <1>14 DEF InfoAnswered
<1>15. QED
  BY <1>4, <1>5, <1>6, <1>7, <1>8, <1>10, <1>12, <1>13, <1>14 DEF ApiNext, Shape, ConfInv

\* The job goroutine: it sends an INVITE only with retries.
LEMMA JobQuiet ==
    ASSUME Shape, JobNext
    PROVE  Shape' /\ Quiet
<1>1. ASSUME NEW n \in Names, processRecoveryPending(n)
      PROVE  Shape' /\ Quiet
  <2>0. UNCHANGED <<conf, invites, byes, overtaken, owner, early, mediaMap, obj, ch>>
    BY <1>1 DEF processRecoveryPending, Others, deviceVars, byeVars, listenVars
  <2>1. CASE obj[recovery[n].c] = 0
    <3>1. recovery' = [recovery EXCEPT ![n] = NoRecovery] /\ UNCHANGED proc
      BY <1>1, <2>1 DEF processRecoveryPending
    <3>2. ConfInv' /\ RecoveryInv' /\ CountInv' /\ PortTypes' /\ CountQuiet /\ PortQuiet
      BY <2>0, <3>1 DEF Shape, ConfInv, RecoveryInv, CountInv, PortTypes, NoRecovery, CountQuiet,
                        PortQuiet, PortsAccounted
    <3>3. QED
      BY <2>0, <3>1, <3>2, StillObjects, StillProcs DEF Shape, Quiet
  <2>2. CASE obj[recovery[n].c] # 0
    <3>1. PICK c, o, k : c = recovery[n].c /\ o = obj[c] /\ k = recovery[n].k
      OBVIOUS
    <3>2. c \in Channels /\ o \in Objs
      BY <1>1, <2>2, <3>1 DEF processRecoveryPending, Shape, RecoveryInv, ObjInv
    <3>3. PICK r : r = [Idle EXCEPT !.pc = "invite", !.o = o, !.c = c, !.n = n, !.k = k]
      OBVIOUS
    <3>4. proc' = [proc EXCEPT !["job"] = r] /\ UNCHANGED recovery /\ conf.retry
      BY <1>1, <2>2, <3>1, <3>3 DEF processRecoveryPending
    <3>5. ProcOK(r) /\ r.pc = "invite"
      BY <3>2, <3>3 DEF ProcOK, Idle, ProcFields, UsesObj, UsesChan
    <3>6. ProcInv' /\ ProcQuiet
      BY <2>0, <3>4, <3>5, ProcStep DEF Procs
    <3>7. QED
      BY <2>0, <3>4, <3>6, StillMedia, StillObjects DEF Shape, Quiet
  <2>3. QED
    BY <2>1, <2>2
<1>2. ASSUME NEW n \in Names, clearExpiredPlaybackSessions(n)
      PROVE  Shape' /\ Quiet
  <2>0. UNCHANGED <<conf, invites, byes, overtaken, owner, early, mediaMap, recovery, obj, ch>>
    BY <1>2 DEF clearExpiredPlaybackSessions, Others, deviceVars, mediaVars, listenVars, byeVars
  <2>1. ProcInv' /\ ProcQuiet
    <3>1. CASE UNCHANGED proc
      BY <2>0, <3>1, StillProcs
    <3>2. ASSUME NEW o \in FindChannelByStreamName(n),
                 proc' = [proc EXCEPT !["job"] = [Idle EXCEPT !.pc = "bye", !.o = o]]
          PROVE  ProcInv' /\ ProcQuiet
      <4>1. o \in Objs
        BY ListedAreObjs DEF FindChannelByStreamName
      <4>2. PICK r : r = [Idle EXCEPT !.pc = "bye", !.o = o]
        OBVIOUS
      <4>3. ProcOK(r) /\ r.pc = "bye" /\ r.then = "idle"
        BY <4>1, <4>2 DEF ProcOK, Idle, ProcFields, UsesObj, UsesChan
      <4>4. QED
        BY <2>0, <3>2, <4>2, <4>3, ProcStep DEF Procs
    <3>3. QED
      BY <1>2, <3>1, <3>2 DEF clearExpiredPlaybackSessions
  <2>2. QED
    BY <2>0, <2>1, StillMedia, StillObjects DEF Shape, Quiet
<1>3. QED
  BY <1>1, <1>2 DEF JobNext

\* The media connections: they end objects but hold no dialog.
LEMMA ConnQuiet ==
    ASSUME Shape, NEW k \in Conns, ConnNext(k)
    PROVE  Shape' /\ Quiet
<1>0. /\ UNCHANGED <<conf, invites, byes, overtaken, owner, early, mediaMap, obj>>
      /\ k \in Procs /\ k # "job" /\ k # "api" /\ ProcOK(proc[k])
  <2>1. UNCHANGED <<conf, invites, byes, overtaken, owner, early, mediaMap, obj>>
    BY DEF ConnNext, ConnArrives, CheckFirstPacket, AddCustomizePubSession, SetStreamFormat,
           ReadFails, NotifyClose, NotifyClosed, ServeEnds, Others, deviceVars, mediaVars,
           listenVars, byeVars
  <2>2. k \in Procs /\ k # "job" /\ k # "api"
    BY GbDialogAssumption DEF Procs
  <2>3. QED
    BY <2>1, <2>2 DEF Shape, ProcInv
<1>1. ASSUME NEW r, proc' = [proc EXCEPT ![k] = r], ProcOK(r), r.pc \notin {"sent", "ack", "acquire"}
      PROVE  ProcInv' /\ ProcQuiet
  BY <1>0, <1>1, ProcStep
<1>2. ASSUME NEW v \in {"first", "gone", "save", "live", "ended", "inactive"},
             proc' = [proc EXCEPT ![k].pc = v]
      PROVE  ProcInv' /\ ProcQuiet
  <2>1. PICK r : r = [proc[k] EXCEPT !.pc = v]
    OBVIOUS
  <2>2. proc' = [proc EXCEPT ![k] = r]
    BY <1>2, <2>1
  <2>3. ProcOK(r) /\ r.pc = v
    BY <1>0, <2>1 DEF ProcOK, ProcFields, UsesObj, UsesChan
  <2>4. QED
    BY <1>1, <2>2, <2>3
<1>3. ASSUME UNCHANGED recovery, ChInv', ChQuiet, ProcInv', ProcQuiet
      PROVE  Shape' /\ Quiet
  <2>1. ObjInv'
    BY <1>0 DEF Shape, ObjInv
  <2>2. QED
    BY <1>0, <1>3, <2>1, StillMedia DEF Shape, Quiet
<1>4. ASSUME UNCHANGED <<recovery, ch>>, ProcInv', ProcQuiet
      PROVE  Shape' /\ Quiet
  BY <1>0, <1>3, <1>4, StillObjects
<1>5. ASSUME NEW p \in Ports, ConnArrives(k, p)
      PROVE  Shape' /\ Quiet
  <2>1. UNCHANGED <<recovery, ch>> /\ proc' = [proc EXCEPT ![k].pc = "first"]
    BY <1>5 DEF ConnArrives
  <2>2. QED
    BY <1>2, <1>4, <2>1
<1>6. ASSUME NEW r \in {0, OwnSsrc} \cup 1..invites, CheckFirstPacket(k, r)
      PROVE  Shape' /\ Quiet
  <2>1. ProcInv' /\ ProcQuiet
    <3>1. \/ proc' = [proc EXCEPT ![k].pc = "gone"] \/ proc' = [proc EXCEPT ![k].pc = "save"]
      BY <1>6 DEF CheckFirstPacket
    <3>2. QED
      BY <1>2, <3>1
  <2>2. UNCHANGED recovery
    BY <1>6 DEF CheckFirstPacket
  <2>3. CASE UNCHANGED ch
    BY <1>4, <2>1, <2>2, <2>3
  <2>4. CASE \E p : BindMediaKeySsrc(p, r) /\ ch' # ch
    <3>1. PICK p : /\ ch' = [o \in Objs |-> IF o \in Listed /\ ch[o].invite /\ ch[o].key = p
                                             THEN [ch[o] EXCEPT !.ssrc = r] ELSE ch[o]]
      BY <2>4 DEF BindMediaKeySsrc
    <3>2. ASSUME NEW o \in Objs
          PROVE  ChOK(ch'[o]) /\ ch'[o].ack = ch[o].ack
      <4>1. ChOK(ch[o])
        BY DEF Shape, ChInv
      <4>2. ch'[o] = ch[o] \/ ch'[o] = [ch[o] EXCEPT !.ssrc = r]
        BY <3>1
      <4>3. QED
        BY <4>1, <4>2 DEF ChOK, ChFields
    <3>3. ch' = [o \in Objs |-> ch'[o]]
      BY <3>1
    <3>4. ChInv' /\ ChQuiet
      BY <3>2, <3>3 DEF ChInv, ChQuiet
    <3>5. QED
      BY <1>3, <2>1, <2>2, <3>4
  <2>5. QED
    BY <1>6, <2>3, <2>4 DEF CheckFirstPacket
<1>7. CASE AddCustomizePubSession(k)
  <2>1. \/ proc' = [proc EXCEPT ![k].pc = "live"] \/ proc' = [proc EXCEPT ![k].pc = "ended"]
    BY <1>7 DEF AddCustomizePubSession
  <2>2. UNCHANGED <<recovery, ch>>
    BY <1>7 DEF AddCustomizePubSession
  <2>3. QED
    BY <1>2, <1>4, <2>1, <2>2
<1>8. CASE SetStreamFormat(k)
  <2>1. UNCHANGED <<recovery, ch, proc>>
    BY <1>8 DEF SetStreamFormat
  <2>2. QED
    BY <1>0, <1>4, <2>1, StillProcs
<1>9. CASE ReadFails(k)
  <2>1. proc' = [proc EXCEPT ![k] = [proc[k] EXCEPT !.pc = IF proc[k].pc = "first" THEN "gone" ELSE "ended"]]
    BY <1>9 DEF ReadFails
  <2>2. \/ proc' = [proc EXCEPT ![k].pc = "gone"] \/ proc' = [proc EXCEPT ![k].pc = "ended"]
    BY <2>1
  <2>3. UNCHANGED <<recovery, ch>>
    BY <1>9 DEF ReadFails
  <2>4. QED
    BY <1>2, <1>4, <2>2, <2>3
<1>10. CASE NotifyClose(k)
  <2>1. UNCHANGED ch
    BY <1>10 DEF NotifyClose
  <2>2. CASE proc' = [proc EXCEPT ![k].pc = "inactive"] /\ UNCHANGED recovery
    BY <1>2, <1>4, <2>1, <2>2
  <2>3. ASSUME NEW o \in Listed, NEW v \in {"bye", "closed"},
               \/ recovery' = recovery
               \/ recovery' = [recovery EXCEPT ![conn[k].name] = [c |-> ch[o].c, k |-> 0]],
               proc' = [proc EXCEPT ![k].pc = v, ![k].o = o, ![k].then = "closed"]
        PROVE  Shape' /\ Quiet
    <3>1. o \in Objs
      BY ListedAreObjs
    <3>2. ch[o].c \in Channels \cup {None}
      BY <3>1 DEF Shape, ChInv, ChOK
    <3>3. RecoveryInv'
      BY <2>3, <3>2 DEF Shape, RecoveryInv
    <3>4. PICK r : r = [proc[k] EXCEPT !.pc = v, !.o = o, !.then = "closed"]
      OBVIOUS
    <3>5. proc' = [proc EXCEPT ![k] = r]
      BY <2>3, <3>4
    <3>6. ProcOK(r) /\ r.pc = v
      BY <1>0, <3>1, <3>4 DEF ProcOK, ProcFields, UsesObj, UsesChan
    <3>7. ProcInv' /\ ProcQuiet
      BY <1>1, <3>5, <3>6
    <3>8. ConfInv' /\ CountInv' /\ PortTypes' /\ CountQuiet /\ PortQuiet
      BY <1>0 DEF Shape, ConfInv, CountInv, PortTypes, CountQuiet, PortQuiet, PortsAccounted
    <3>9. QED
      BY <1>0, <2>1, <3>3, <3>7, <3>8, StillObjects DEF Shape, Quiet
  <2>4. CASE \E o \in Listed :
               /\ \/ recovery' = recovery
                  \/ recovery' = [recovery EXCEPT ![conn[k].name] = [c |-> ch[o].c, k |-> 0]]
               /\ \/ proc' = [proc EXCEPT ![k].pc = "bye", ![k].o = o, ![k].then = "closed"]
                  \/ proc' = [proc EXCEPT ![k].pc = "closed", ![k].o = o, ![k].then = "closed"]
    BY <2>3, <2>4
  <2>5. QED
    BY <1>10, <2>2, <2>4 DEF NotifyClose
<1>11. CASE NotifyClosed(k)
  <2>1. PICK o : o = proc[k].o
    OBVIOUS
  <2>2. o \in Objs
    BY <1>0, <1>11, <2>1 DEF NotifyClosed, ProcOK, UsesObj
  <2>3. ch' = [ch EXCEPT ![o] = ClearMedia(ch[o])]
    BY <1>11, <2>1 DEF NotifyClosed
  <2>4. ChOK(ClearMedia(ch[o])) /\ ClearMedia(ch[o]).ack = ch[o].ack
    BY <2>2 DEF Shape, ChInv, ChOK, ChFields, ClearMedia
  <2>5. ChInv' /\ ChQuiet
    BY <2>3, <2>4, ChStep
  <2>6. UNCHANGED recovery /\ proc' = [proc EXCEPT ![k].pc = "inactive"]
    BY <1>11 DEF NotifyClosed, mediaVars
  <2>7. QED
    BY <1>2, <1>3, <2>5, <2>6
<1>12. CASE ServeEnds(k)
  <2>1. PICK r : r = [Idle EXCEPT !.pc = "gone"]
    OBVIOUS
  <2>2. proc' = [proc EXCEPT ![k] = r] /\ UNCHANGED <<recovery, ch>>
    BY <1>12, <2>1 DEF ServeEnds
  <2>3. ProcOK(r) /\ r.pc = "gone"
    BY <2>1 DEF ProcOK, Idle, ProcFields, UsesObj, UsesChan
  <2>4. QED
    BY <1>1, <1>4, <2>2, <2>3
<1>13. QED
  BY <1>5, <1>6, <1>7, <1>8, <1>9, <1>10, <1>11, <1>12 DEF ConnNext

\* Ending an object without a BYE.
LEMMA ClearQuiet ==
    ASSUME Shape, NEW x \in Procs,
           ByeClear(x) \/ byeClearStop(x) \/ byeClear(x) \/ UnregisterPlaybackSession(x)
    PROVE  Shape' /\ Quiet
<1>0. UNCHANGED <<conf, invites, byes, overtaken, obj>> /\ ProcOK(proc[x])
  BY DEF ByeClear, byeClearStop, byeClear, UnregisterPlaybackSession, Others, deviceVars, byeVars,
         Shape, ProcInv
<1>1. ASSUME proc[x].pc \in {"clear", "byeClear2"}, proc' = [proc EXCEPT ![x].pc = proc[x].then]
      PROVE  ProcInv' /\ ProcQuiet
  <2>1. PICK r : r = [proc[x] EXCEPT !.pc = proc[x].then]
    OBVIOUS
  <2>2. proc' = [proc EXCEPT ![x] = r]
    BY <1>1, <2>1
  <2>3. ProcOK(r) /\ r.pc = proc[x].then /\ r.then = proc[x].then
    BY <1>0, <1>1, <2>1 DEF ProcOK, ProcFields, UsesObj, UsesChan
  <2>4. r.pc \notin {"sent", "ack", "acquire"}
    BY <1>0, <2>3 DEF ProcOK
  <2>5. x = "job" /\ JobInv /\ ~conf.retry => r.pc \in {"idle", "bye", "clear"} /\ r.then = "idle"
    BY <2>3 DEF JobInv
  <2>6. QED
    BY <1>0, <2>2, <2>3, <2>4, <2>5, ProcStep
<1>2. CASE ByeClear(x)
  <2>1. PICK o : o = proc[x].o
    OBVIOUS
  <2>2. o \in Objs /\ proc[x].pc = "clear"
    BY <1>0, <1>2, <2>1 DEF ByeClear, ProcOK, UsesObj
  <2>3. PICK r : r = [ClearMedia(ch[o]) EXCEPT !.play = None]
    OBVIOUS
  <2>4. ch' = [ch EXCEPT ![o] = r]
    BY <1>2, <2>1, <2>3 DEF ByeClear
  <2>5. ChOK(r) /\ r.ack = ch[o].ack
    BY <2>2, <2>3 DEF Shape, ChInv, ChOK, ChFields, ClearMedia
  <2>6. ChInv' /\ ChQuiet
    BY <2>4, <2>5, ChStep
  <2>7. UNCHANGED <<owner, early, mediaMap, recovery>> /\ proc' = [proc EXCEPT ![x].pc = proc[x].then]
    BY <1>2 DEF ByeClear, mediaVars, listenVars
  <2>8. ObjInv'
    BY <1>0 DEF Shape, ObjInv
  <2>9. QED
    BY <1>0, <1>1, <2>2, <2>6, <2>7, <2>8, StillMedia DEF Shape, Quiet
<1>3. CASE byeClear(x)
  <2>1. PICK o : o = proc[x].o
    OBVIOUS
  <2>2. o \in Objs /\ proc[x].pc = "byeClear2"
    BY <1>0, <1>3, <2>1 DEF byeClear, ProcOK, UsesObj
  <2>3. PICK r : r = [ClearMedia(ch[o]) EXCEPT !.ack = 0]
    OBVIOUS
  <2>4. ch' = [ch EXCEPT ![o] = r]
    BY <1>3, <2>1, <2>3 DEF byeClear
  <2>5. ChOK(r) /\ r.ack = 0
    BY <2>2, <2>3 DEF Shape, ChInv, ChOK, ChFields, ClearMedia
  <2>6. ChInv' /\ ChQuiet
    BY <2>4, <2>5, ChStep
  <2>7. UNCHANGED <<owner, early, mediaMap, recovery>> /\ proc' = [proc EXCEPT ![x].pc = proc[x].then]
    BY <1>3 DEF byeClear, mediaVars, listenVars
  <2>8. ObjInv'
    BY <1>0 DEF Shape, ObjInv
  <2>9. QED
    BY <1>0, <1>1, <2>2, <2>6, <2>7, <2>8, StillMedia DEF Shape, Quiet
<1>4. CASE byeClearStop(x)
  <2>1. PortTypes' /\ PortQuiet /\ RecoveryInv'
    <3>1. CASE UNCHANGED mediaVars
      BY <1>0, <3>1, StillMedia DEF mediaVars, listenVars
    <3>2. CASE \E c, n : OnStopMediaServer(c, n)
      BY <1>0, <3>2, StopQuiet
    <3>3. QED
      BY <1>4, <3>1, <3>2 DEF byeClearStop
  <2>2. PICK r : r = [proc[x] EXCEPT !.pc = "byeClear2"]
    OBVIOUS
  <2>3. proc' = [proc EXCEPT ![x] = r] /\ UNCHANGED ch /\ proc[x].pc = "byeClear"
    BY <1>4, <2>2 DEF byeClearStop
  <2>4. ProcOK(r) /\ r.pc = "byeClear2"
    BY <1>0, <2>2, <2>3 DEF ProcOK, ProcFields, UsesObj, UsesChan
  <2>5. ProcInv' /\ ProcQuiet
    BY <1>0, <2>3, <2>4, ProcStep DEF JobInv
  <2>6. ConfInv' /\ CountInv' /\ CountQuiet
    BY <1>0 DEF Shape, ConfInv, CountInv, CountQuiet
  <2>7. QED
    BY <1>0, <2>1, <2>3, <2>5, <2>6, StillObjects DEF Shape, Quiet
<1>5. CASE UnregisterPlaybackSession(x)
  <2>1. proc' = [proc EXCEPT ![x] = Idle] /\ UNCHANGED <<owner, early, mediaMap, recovery, ch>>
    BY <1>5 DEF UnregisterPlaybackSession, mediaVars, listenVars
  <2>2. ProcInv' /\ ProcQuiet
    BY <1>0, <2>1, IdleOK, ProcStep
  <2>3. QED
    BY <1>0, <2>1, <2>2, StillMedia, StillObjects DEF Shape, Quiet
<1>6. QED
  BY <1>2, <1>3, <1>4, <1>5

-----------------------------------------------------------------------------
(* The steps that send an INVITE or a BYE, or store a media server.         *)

\* What every step of the device side keeps.
Kept == Shape' /\ (ByeInv => ByeInv') /\ (PortInv => PortInv')

\* A quiet step keeps everything.
LEMMA QuietKeeps ==
    ASSUME Shape, Shape' /\ Quiet
    PROVE  Kept
BY QuietKeepsByes, QuietKeepsPorts DEF Kept, Quiet, CountQuiet

\* Channel.Bye takes the dialog from the object in the step that sends the BYE.
LEMMA ByeStopKeeps ==
    ASSUME Shape, NEW x \in Procs, ByeStop(x)
    PROVE  Kept
<1>0. UNCHANGED <<conf, invites, obj>> /\ ProcOK(proc[x])
  BY DEF ByeStop, Others, deviceVars, Shape, ProcInv
<1>1. PICK o : o = proc[x].o
  OBVIOUS
<1>2. o \in Objs /\ ChOK(ch[o])
  BY <1>0, <1>1 DEF ByeStop, ProcOK, UsesObj, Shape, ChInv
<1>3. PICK r : r = [ch[o] EXCEPT !.ack = 0]
  OBVIOUS
<1>4. ChOK(r) /\ r.ack = 0
  BY <1>2, <1>3 DEF ChOK, ChFields
<1>5. ch' = [ch EXCEPT ![o] = r]
  BY <1>1, <1>3 DEF ByeStop
<1>6. ChInv' /\ ChQuiet
  BY <1>4, <1>5, ChStep
<1>7. ProcInv' /\ ProcQuiet
  <2>1. PICK q : q = [proc[x] EXCEPT !.pc = "clear"]
    OBVIOUS
  <2>2. proc' = [proc EXCEPT ![x] = q] /\ proc[x].pc = "bye"
    BY <2>1 DEF ByeStop
  <2>3. ProcOK(q) /\ q.pc = "clear" /\ q.then = proc[x].then
    BY <1>0, <2>1, <2>2 DEF ProcOK, ProcFields, UsesObj, UsesChan
  <2>4. QED
    BY <1>0, <2>2, <2>3, ProcStep DEF JobInv
<1>8. PortTypes' /\ PortQuiet /\ RecoveryInv'
  <2>1. CASE UNCHANGED mediaVars
    BY <1>0, <2>1 DEF mediaVars, listenVars, Shape, PortTypes, PortQuiet, PortsAccounted,
                          RecoveryInv
  <2>2. CASE \E c, n : OnStopMediaServer(c, n)
    BY <1>0, <2>2, StopQuiet
  <2>3. QED
    BY <2>1, <2>2 DEF ByeStop
<1>9. PICK a : a = ch[o].ack
  OBVIOUS
<1>10. /\ a = 0 => byes' = byes /\ overtaken' = overtaken
       /\ a # 0 => /\ byes' = [byes EXCEPT ![a] = @ + 1]
                   /\ overtaken \subseteq overtaken'
                   /\ \A y \in Procs : proc[y].pc = "ack" /\ proc[y].d = a => a \in overtaken'
  BY <1>1, <1>9 DEF ByeStop, SendBye, byeVars
<1>11. CountInv'
  <2>1. CASE a = 0
    BY <1>0, <1>10, <2>1 DEF Shape, CountInv
  <2>2. CASE a # 0
    <3>1. byes' = [byes EXCEPT ![a] = byes[a] + 1]
      BY <1>10, <2>2
    <3>2. byes' \in [Dialogs -> Nat]
      <4>1. CASE a \in Dialogs
        <5>1. byes[a] + 1 \in Nat
          BY <4>1 DEF Shape, CountInv
        <5>2. QED
          BY <3>1, <5>1 DEF Shape, CountInv
      <4>2. CASE a \notin Dialogs
        <5>1. byes' = byes
          BY <3>1, <4>2 DEF Shape, CountInv
        <5>2. QED
          BY <5>1 DEF Shape, CountInv
      <4>3. QED
        BY <4>1, <4>2
    <3>3. QED
      BY <1>0, <3>2 DEF Shape, CountInv
  <2>3. QED
    BY <2>1, <2>2
<1>12. ConfInv' /\ ObjInv'
  BY <1>0 DEF Shape, ConfInv, ObjInv
<1>13. Shape'
  BY <1>6, <1>7, <1>8, <1>11, <1>12 DEF Shape
<1>14. ASSUME ByeInv
       PROVE  ByeInv'
  <2>1. CASE a = 0
    BY <1>0, <1>6, <1>7, <1>10, <1>14, <2>1, QuietKeepsByes DEF CountQuiet
  <2>2. CASE a # 0
    <3>1. a \in 1..invites /\ a \in Dialogs /\ byes[a] = 0 /\ byes' = [byes EXCEPT ![a] = 1]
      <4>1. a \in 1..invites /\ byes[a] = 0
        BY <1>2, <1>9, <1>14, <2>2 DEF ByeInv, AckInv
      <4>2. a \in Dialogs
        BY <4>1, GbDialogAssumption DEF Shape, CountInv, Dialogs
      <4>3. byes' = [byes EXCEPT ![a] = byes[a] + 1]
        BY <1>10, <2>2
      <4>4. QED
        BY <4>1, <4>2, <4>3
    <3>2. \A d \in Dialogs : d # a => byes'[d] = byes[d]
      BY <3>1 DEF Shape, CountInv
    <3>3. /\ ch'[o].ack = 0 /\ \A q \in Objs : q # o => ch'[q].ack = ch[q].ack
          /\ \A q \in Objs : ch'[q].ack # a
      BY <1>2, <1>4, <1>5, <1>9, <1>14, <2>2 DEF Shape, ChInv, ByeInv, AckInv
    <3>4. AckInv'
      BY <1>0, <1>6, <1>14, <3>1, <3>2, <3>3
      DEF ByeInv, AckInv, ChQuiet, Shape, CountInv, ChInv, ChOK, Dialogs
    <3>5. ASSUME NEW y \in Procs, proc'[y].pc = "sent"
          PROVE  /\ proc'[y].d \in 1..invites' /\ byes'[proc'[y].d] = 0
                 /\ \A q \in Objs : ch'[q].ack # proc'[y].d
      <4>1. PICK d : d = proc[y].d
        OBVIOUS
      <4>2. proc[y].pc = "sent" /\ proc'[y].d = d
        BY <1>7, <3>5, <4>1 DEF ProcQuiet
      <4>3. d \in 1..invites /\ byes[d] = 0 /\ \A q \in Objs : ch[q].ack # d
        BY <1>14, <4>1, <4>2 DEF ByeInv, SentInv
      <4>4. d # a /\ d # 0 /\ d \in Dialogs
        BY <1>2, <1>9, <4>3, GbDialogAssumption DEF Shape, CountInv, Dialogs
      <4>5. QED
        BY <1>0, <1>6, <3>2, <4>2, <4>3, <4>4 DEF ChQuiet
    <3>6. ASSUME NEW y \in Procs, proc'[y].pc = "ack"
          PROVE  /\ proc'[y].d \in 1..invites' /\ byes'[proc'[y].d] \in {0, 1}
                 /\ byes'[proc'[y].d] = 1 => proc'[y].d \in overtaken'
      <4>1. PICK d : d = proc[y].d
        OBVIOUS
      <4>2. proc[y].pc = "ack" /\ proc'[y].d = d
        BY <1>7, <3>6, <4>1 DEF ProcQuiet
      <4>3. d \in 1..invites /\ byes[d] \in {0, 1} /\ (byes[d] = 1 => d \in overtaken)
        BY <1>14, <4>1, <4>2 DEF ByeInv, SentInv
      <4>4. d \in Dialogs
        BY <4>3, GbDialogAssumption DEF Shape, CountInv, Dialogs
      <4>5. CASE d = a
        <5>1. byes'[d] = 1
          BY <3>1, <4>4, <4>5 DEF Shape, CountInv
        <5>2. d \in overtaken'
          BY <1>10, <2>2, <4>1, <4>2, <4>5
        <5>3. QED
          BY <1>0, <4>2, <4>3, <5>1, <5>2
      <4>6. CASE d # a
        BY <1>0, <1>10, <2>2, <3>2, <4>2, <4>3, <4>4, <4>6
      <4>7. QED
        BY <4>5, <4>6
    <3>7. SentInv'
      <4>1. \A y, z \in Procs : y # z /\ proc'[y].pc \in {"sent", "ack"}
                                    /\ proc'[z].pc \in {"sent", "ack"} => proc'[y].d # proc'[z].d
        BY <1>7, <1>14 DEF ProcQuiet, ByeInv, SentInv
      <4>2. QED
        BY <3>5, <3>6, <4>1 DEF SentInv
    <3>8. OneByePerDialog'
      BY <1>10, <1>14, <2>2, <3>1, <3>2 DEF ByeInv, OneByePerDialog, Shape, CountInv
    <3>9. QED
      BY <3>4, <3>7, <3>8 DEF ByeInv
  <2>3. QED
    BY <2>1, <2>2
<1>15. QED
  BY <1>0, <1>7, <1>8, <1>13, <1>14, QuietKeepsPorts DEF Kept

\* The outcome of Channel.Invite: the caller is done, a retry is dropped or put back.
LEMMA FinishQuiet ==
    ASSUME Shape, NEW x \in {"api", "job"}, NEW ok \in BOOLEAN, Finish(x, ok), conf' = conf
    PROVE  ProcInv' /\ ProcQuiet /\ RecoveryInv'
<1>1. x \in Procs /\ ProcOK(proc[x])
  BY DEF Procs, Shape, ProcInv
<1>2. ProcInv' /\ ProcQuiet
  BY <1>1, IdleOK, ProcStep DEF Finish, Return
<1>3. PICK c, n, k : c = proc[x].c /\ n = proc[x].n /\ k = proc[x].k + 1
  OBVIOUS
<1>4. c \in Channels \cup {None}
  BY <1>1, <1>3 DEF ProcOK
<1>5. \/ recovery' = recovery \/ recovery' = [recovery EXCEPT ![n] = NoRecovery]
      \/ recovery' = [recovery EXCEPT ![n] = [c |-> c, k |-> k]]
  BY <1>3 DEF Finish
<1>6. RecoveryInv'
  BY <1>4, <1>5 DEF Shape, RecoveryInv, NoRecovery
<1>7. QED
  BY <1>2, <1>6

\* A server that is stored for a channel without one keeps the two tables in step.
LEMMA StoreKeepsPorts ==
    ASSUME Shape, NEW c \in Channels, NEW p \in Pool, Free(p), StoreMediaServer(c, p), conf' = conf
    PROVE  /\ PortTypes'
           /\ PortsAccounted /\ (~conf.retry => mediaMap[c] = 0) => PortsAccounted'
<1>1. p \in Ports
  <2>1. PICK m \in Nat : m = Cardinality(Ports)
    BY GbDialogAssumption, FS_CardinalityType
  <2>2. conf.ports \in 1..m /\ Ports = 1..m
    BY <2>1, GbDialogAssumption DEF Shape, ConfInv
  <2>3. QED
    BY <2>2 DEF Pool
<1>2. /\ owner' = [owner EXCEPT ![p] = c] /\ mediaMap' = [mediaMap EXCEPT ![c] = p]
      /\ early' = early
  BY DEF StoreMediaServer
<1>3. PortTypes'
  BY <1>1, <1>2 DEF Shape, PortTypes
<1>4. ASSUME PortsAccounted, ~conf.retry, mediaMap[c] = 0, NEW q \in Ports, owner'[q] # None,
             q \notin early'
      PROVE  mediaMap'[owner'[q]] = q
  <2>1. CASE q = p
    BY <1>1, <1>2, <2>1 DEF Shape, PortTypes
  <2>2. CASE q # p
    <3>1. owner'[q] = owner[q] /\ owner[q] \in Channels /\ mediaMap[owner[q]] = q
      BY <1>2, <1>4, <2>2 DEF Shape, PortTypes, PortsAccounted
    <3>2. q # 0
      BY GbDialogAssumption, FS_CardinalityType
    <3>3. QED
      BY <1>2, <1>4, <3>1, <3>2 DEF Shape, PortTypes
  <2>3. QED
    BY <2>1, <2>2
<1>5. QED
  BY <1>3, <1>4 DEF PortsAccounted

\* An INVITE takes the next number, which nobody has.
LEMMA SendKeepsByes ==
    ASSUME Shape, NEW x \in Procs, NEW p, proc[x].pc \in {"load", "acquire"}, SendInvite(x, p),
           UNCHANGED <<conf, byes, overtaken, obj>>
    PROVE  /\ ConfInv' /\ ObjInv' /\ ChInv' /\ ProcInv' /\ CountInv'
           /\ proc' = [proc EXCEPT ![x] = proc'[x]] /\ proc'[x].pc = "sent"
           /\ ByeInv => ByeInv'
<1>1. PICK o, d : o = proc[x].o /\ d = invites + 1
  OBVIOUS
<1>2. ProcOK(proc[x]) /\ o \in Objs /\ ChOK(ch[o])
  BY <1>1 DEF Shape, ProcInv, ProcOK, UsesObj, ChInv
<1>3. d \in Dialogs /\ invites' = d /\ invites \in Nat
  BY <1>1, GbDialogAssumption DEF SendInvite, Shape, CountInv
<1>4. PICK n : n = proc[x].n
  OBVIOUS
<1>5. PICK r : r = [ch[o] EXCEPT !.invite = TRUE, !.name = n, !.ssrc = d, !.key = p, !.play = n]
  OBVIOUS
<1>6. ch' = [ch EXCEPT ![o] = r]
  BY <1>1, <1>4, <1>5 DEF SendInvite
<1>7. ChOK(r) /\ r.ack = ch[o].ack
  BY <1>2, <1>5 DEF ChOK, ChFields
<1>8. ChInv' /\ \A q \in Objs : ch'[q].ack = ch[q].ack
  BY <1>6, <1>7 DEF Shape, ChInv
<1>9. PICK me : me = [proc[x] EXCEPT !.pc = "sent", !.d = d]
  OBVIOUS
<1>10. proc' = [proc EXCEPT ![x] = me]
  BY <1>1, <1>9 DEF SendInvite
<1>11. ProcOK(me) /\ me.pc = "sent" /\ me.d = d
  BY <1>1, <1>2, <1>3, <1>9 DEF ProcOK, ProcFields, UsesObj, UsesChan
<1>12. ProcInv' /\ proc'[x] = me /\ \A y \in Procs : y # x => proc'[y] = proc[y]
  BY <1>10, <1>11 DEF Shape, ProcInv
<1>13. ConfInv' /\ ObjInv' /\ CountInv'
  BY <1>3, GbDialogAssumption DEF Shape, ConfInv, ObjInv, CountInv, Dialogs
<1>14. ASSUME ByeInv
       PROVE  ByeInv'
  <2>1. byes[d] = 0 /\ \A q \in Objs : ch[q].ack # d
    BY <1>1, <1>3, <1>14 DEF ByeInv, AckInv, Shape, ChInv, ChOK
  <2>2. AckInv'
    BY <1>1, <1>3, <1>8, <1>14 DEF ByeInv, AckInv, Shape, ChInv, ChOK, Dialogs
  <2>3. ASSUME NEW y \in Procs, y # x, proc'[y].pc = "sent"
        PROVE  proc'[y].d \in 1..invites /\ byes[proc'[y].d] = 0 /\ \A q \in Objs : ch[q].ack # proc'[y].d
    BY <1>12, <1>14, <2>3 DEF ByeInv, SentInv
  <2>4. SentInv'
    <3>1. ASSUME NEW y \in Procs, proc'[y].pc = "sent"
          PROVE  /\ proc'[y].d \in 1..invites' /\ byes'[proc'[y].d] = 0
                 /\ \A q \in Objs : ch'[q].ack # proc'[y].d
      <4>1. CASE y = x
        BY <1>1, <1>3, <1>8, <1>11, <1>12, <2>1, <4>1
      <4>2. CASE y # x
        BY <1>1, <1>3, <1>8, <2>3, <3>1, <4>2
      <4>3. QED
        BY <4>1, <4>2
    <3>2. ASSUME NEW y \in Procs, NEW z \in Procs, y # z, proc'[y].pc \in {"sent", "ack"},
                 proc'[z].pc \in {"sent", "ack"}
          PROVE  proc'[y].d # proc'[z].d
      <4>1. CASE y # x /\ z # x
        BY <1>12, <1>14, <3>2, <4>1 DEF ByeInv, SentInv
      <4>2. CASE y = x
        <5>1. proc'[z].d \in 1..invites
          BY <1>12, <1>14, <3>2, <4>2 DEF ByeInv, SentInv
        <5>2. proc'[y].d = invites + 1
          BY <1>1, <1>11, <1>12, <4>2
        <5>3. QED
          BY <1>3, <5>1, <5>2
      <4>3. CASE z = x
        <5>1. proc'[y].d \in 1..invites
          BY <1>12, <1>14, <3>2, <4>3 DEF ByeInv, SentInv
        <5>2. proc'[z].d = invites + 1
          BY <1>1, <1>11, <1>12, <4>3
        <5>3. QED
          BY <1>3, <5>1, <5>2
      <4>4. QED
        BY <4>1, <4>2, <4>3
    <3>3. ASSUME NEW y \in Procs, proc'[y].pc = "ack"
          PROVE  /\ proc'[y].d \in 1..invites' /\ byes'[proc'[y].d] \in {0, 1}
                 /\ byes'[proc'[y].d] = 1 => proc'[y].d \in overtaken'
      <4>1. y # x /\ proc'[y] = proc[y]
        BY <1>11, <1>12, <3>3
      <4>2. QED
        BY <1>1, <1>3, <1>14, <3>3, <4>1 DEF ByeInv, SentInv
    <3>4. QED
      BY <3>1, <3>2, <3>3 DEF SentInv
  <2>5. OneByePerDialog'
    BY <1>14 DEF ByeInv, OneByePerDialog
  <2>6. QED
    BY <2>2, <2>4, <2>5 DEF ByeInv
<1>15. QED
  BY <1>8, <1>10, <1>11, <1>12, <1>13, <1>14

\* Without retries, whoever is inviting is the API.
LEMMA JobInvitesNot ==
    ASSUME NEW x \in {"api", "job"}, JobInv, ~conf.retry,
           proc[x].pc \in {"invite", "load", "acquire", "sent"}
    PROVE  x = "api"
BY DEF JobInv

\* The question whether the stream is already flowing.
LEMMA InviteAgainKeeps ==
    ASSUME Shape, NEW x \in {"api", "job"}, InviteAgain(x)
    PROVE  Kept
<1>0. /\ UNCHANGED <<conf, invites, byes, overtaken, obj, ch>> /\ x \in Procs /\ ProcOK(proc[x])
      /\ proc[x].pc = "invite" /\ proc[x].c \in Channels /\ proc[x].o \in Objs
  BY DEF InviteAgain, deviceVars, byeVars, Procs, Shape, ProcInv, ProcOK, UsesChan, UsesObj
<1>1. ObjInv' /\ ChInv' /\ ChQuiet /\ ConfInv' /\ CountInv' /\ CountQuiet
  BY <1>0, StillObjects DEF Shape, ConfInv, CountInv, CountQuiet
<1>2. ASSUME NEW r, proc' = [proc EXCEPT ![x] = r], ProcOK(r), r.pc \notin {"sent", "ack", "acquire"}
      PROVE  ProcInv' /\ ProcQuiet
  BY <1>0, <1>2, ProcStep DEF JobInv
<1>3. ASSUME UNCHANGED <<owner, early, mediaMap, recovery>>, ProcInv', ProcQuiet
      PROVE  Kept
  BY <1>0, <1>1, <1>3, StillMedia, QuietKeeps DEF Shape, Quiet
<1>4. CASE proc' = [proc EXCEPT ![x].pc = "load"] /\ UNCHANGED mediaVars
  <2>1. PICK r : r = [proc[x] EXCEPT !.pc = "load"]
    OBVIOUS
  <2>2. proc' = [proc EXCEPT ![x] = r]
    BY <1>4, <2>1
  <2>3. ProcOK(r) /\ r.pc = "load"
    BY <1>0, <2>1 DEF ProcOK, ProcFields, UsesObj, UsesChan
  <2>4. QED
    BY <1>2, <1>3, <1>4, <2>2, <2>3 DEF mediaVars, listenVars
<1>5. CASE Finish(x, TRUE) /\ UNCHANGED <<owner, early, mediaMap>>
  <2>1. ProcInv' /\ ProcQuiet /\ RecoveryInv'
    BY <1>0, <1>5, FinishQuiet
  <2>2. PortTypes' /\ PortQuiet
    BY <1>0, <1>5 DEF Shape, PortTypes, PortQuiet, PortsAccounted
  <2>3. QED
    BY <1>1, <2>1, <2>2, QuietKeeps DEF Shape, Quiet
<1>6. ASSUME NEW v \in {"bye", "byeClear"}, proc' = [proc EXCEPT ![x].pc = v, ![x].then = "load"]
      PROVE  ProcInv' /\ ProcQuiet
  <2>1. PICK r : r = [proc[x] EXCEPT !.pc = v, !.then = "load"]
    OBVIOUS
  <2>2. proc' = [proc EXCEPT ![x] = r]
    BY <1>6, <2>1
  <2>3. ProcOK(r) /\ r.pc = v
    BY <1>0, <2>1 DEF ProcOK, ProcFields, UsesObj, UsesChan
  <2>4. QED
    BY <1>2, <2>2, <2>3
<1>7. ASSUME NEW v \in {"bye", "byeClear"}, proc' = [proc EXCEPT ![x].pc = v, ![x].then = "load"],
             UNCHANGED mediaVars
      PROVE  Kept
  BY <1>3, <1>6, <1>7 DEF mediaVars, listenVars
<1>8. ASSUME NEW v \in {"bye", "byeClear"}, proc' = [proc EXCEPT ![x].pc = v, ![x].then = "load"],
             mediaMap[proc[x].c] = 0, UNCHANGED recovery,
             NEW p \in Pool, Acquire(p), StoreMediaServer(proc[x].c, p)
      PROVE  Kept
  <2>1. ProcInv' /\ ProcQuiet
    BY <1>6, <1>8
  <2>2. PortTypes' /\ (PortsAccounted => PortsAccounted')
    BY <1>0, <1>8, StoreKeepsPorts DEF Acquire
  <2>3. RecoveryInv'
    BY <1>8 DEF Shape, RecoveryInv
  <2>4. Shape'
    BY <1>1, <2>1, <2>2, <2>3 DEF Shape
  <2>5. ASSUME PortInv
        PROVE  PortInv'
    <3>1. ~conf.retry => x = "api"
      BY <1>0, <2>5, JobInvitesNot DEF PortInv
    <3>2. x = "api" => proc'["api"].pc # "acquire"
      BY <1>0, <1>8 DEF Shape, ProcInv, ProcOK, ProcFields
    <3>3. AcquireInv'
      BY <1>0, <3>1, <3>2 DEF AcquireInv
    <3>4. QED
      BY <2>1, <2>2, <2>5, <3>3 DEF PortInv, ProcQuiet
  <2>6. QED
    BY <1>1, <2>1, <2>4, <2>5, QuietKeepsByes DEF Kept
<1>9. PICK v \in {"bye", "byeClear"} : v = IF ch[proc[x].o].ack # 0 THEN "bye" ELSE "byeClear"
  OBVIOUS
<1>10. \/ proc' = [proc EXCEPT ![x].pc = "load"] /\ UNCHANGED mediaVars
       \/ Finish(x, TRUE) /\ UNCHANGED <<owner, early, mediaMap>>
       \/ /\ proc' = [proc EXCEPT ![x].pc = v, ![x].then = "load"]
          /\ \/ UNCHANGED mediaVars
             \/ /\ mediaMap[proc[x].c] = 0 /\ UNCHANGED recovery
                /\ \E p \in Pool : Acquire(p) /\ StoreMediaServer(proc[x].c, p)
  BY <1>9 DEF InviteAgain, listenVars
<1>11. QED
  BY <1>4, <1>5, <1>7, <1>8, <1>10

\* The Load of OnStartMediaServer.
LEMMA InviteLoadKeeps ==
    ASSUME Shape, NEW x \in {"api", "job"}, InviteLoad(x)
    PROVE  Kept
<1>0. /\ UNCHANGED <<conf, byes, overtaken, obj, owner, early, mediaMap, recovery>> /\ x \in Procs
      /\ ProcOK(proc[x]) /\ proc[x].pc = "load" /\ proc[x].c \in Channels
  BY DEF InviteLoad, deviceVars, mediaVars, listenVars, byeVars, Procs, Shape, ProcInv, ProcOK,
         UsesChan
<1>1. RecoveryInv' /\ PortTypes' /\ (PortsAccounted => PortsAccounted')
  BY <1>0 DEF Shape, RecoveryInv, PortTypes, PortsAccounted
<1>2. CASE mediaMap[proc[x].c] # 0
  <2>1. PICK p : SendInvite(x, p)
    BY <1>2 DEF InviteLoad
  <2>2. /\ ConfInv' /\ ObjInv' /\ ChInv' /\ ProcInv' /\ CountInv'
        /\ proc' = [proc EXCEPT ![x] = proc'[x]] /\ proc'[x].pc = "sent"
        /\ ByeInv => ByeInv'
    BY <1>0, <2>1, SendKeepsByes
  <2>3. ASSUME PortInv
        PROVE  PortInv'
    <3>1. ~conf.retry => x = "api"
      BY <1>0, <2>3, JobInvitesNot DEF PortInv
    <3>2. x = "api" => proc'["job"] = proc["job"]
      BY <2>2 DEF Shape, ProcInv, Procs
    <3>3. JobInv'
      BY <1>0, <2>3, <3>1, <3>2 DEF PortInv, JobInv
    <3>4. AcquireInv'
      BY <1>0, <2>2, <3>1 DEF AcquireInv
    <3>5. QED
      BY <1>1, <2>3, <3>3, <3>4 DEF PortInv
  <2>4. QED
    BY <1>1, <2>2, <2>3 DEF Kept, Shape
<1>3. CASE mediaMap[proc[x].c] = 0
  <2>1. proc' = [proc EXCEPT ![x].pc = "acquire"] /\ UNCHANGED <<invites, ch>>
    BY <1>3 DEF InviteLoad
  <2>2. /\ ProcOK(proc'[x]) /\ proc'[x].pc = "acquire" /\ proc'[x].c = proc[x].c
        /\ \A y \in Procs : y # x => proc'[y] = proc[y]
        /\ proc' = [y \in Procs |-> proc'[y]]
    BY <1>0, <2>1 DEF Shape, ProcInv, ProcOK, ProcFields, UsesObj, UsesChan
  <2>3. ProcInv'
    BY <2>2 DEF Shape, ProcInv
  <2>4. Shape'
    BY <1>0, <1>1, <2>1, <2>3, StillObjects DEF Shape, ConfInv, CountInv
  <2>5. ASSUME ByeInv
        PROVE  ByeInv'
    <3>1. AckInv' /\ OneByePerDialog'
      BY <1>0, <2>1, <2>5 DEF ByeInv, AckInv, OneByePerDialog
    <3>2. SentInv'
      BY <1>0, <2>1, <2>2, <2>5 DEF ByeInv, SentInv
    <3>3. QED
      BY <3>1, <3>2 DEF ByeInv
  <2>6. ASSUME PortInv
        PROVE  PortInv'
    <3>1. ~conf.retry => x = "api"
      BY <1>0, <2>6, JobInvitesNot DEF PortInv
    <3>2. JobInv'
      BY <1>0, <2>2, <2>6, <3>1 DEF PortInv, JobInv, Procs
    <3>3. AcquireInv'
      BY <1>0, <1>3, <2>2, <3>1 DEF AcquireInv
    <3>4. QED
      BY <1>1, <2>6, <3>2, <3>3 DEF PortInv
  <2>7. QED
    BY <2>4, <2>5, <2>6 DEF Kept
<1>4. QED
  BY <1>2, <1>3

\* A port is acquired, its server stored, and the INVITE sent.
LEMMA InviteAcquireKeeps ==
    ASSUME Shape, NEW x \in {"api", "job"}, InviteAcquire(x)
    PROVE  Kept
<1>0. /\ UNCHANGED <<conf, byes, overtaken, obj>> /\ x \in Procs
      /\ ProcOK(proc[x]) /\ proc[x].pc = "acquire" /\ proc[x].c \in Channels
  BY DEF InviteAcquire, deviceVars, byeVars, Procs, Shape, ProcInv, ProcOK, UsesChan
<1>1. ASSUME NEW p \in Pool, Acquire(p), StoreMediaServer(proc[x].c, p), SendInvite(x, p),
             UNCHANGED recovery
      PROVE  Kept
  <2>1. /\ ConfInv' /\ ObjInv' /\ ChInv' /\ ProcInv' /\ CountInv'
        /\ proc' = [proc EXCEPT ![x] = proc'[x]] /\ proc'[x].pc = "sent"
        /\ ByeInv => ByeInv'
    BY <1>0, <1>1, SendKeepsByes
  <2>2. /\ PortTypes'
        /\ PortsAccounted /\ (~conf.retry => mediaMap[proc[x].c] = 0) => PortsAccounted'
    BY <1>0, <1>1, StoreKeepsPorts DEF Acquire
  <2>3. RecoveryInv'
    BY <1>1 DEF Shape, RecoveryInv
  <2>4. ASSUME PortInv
        PROVE  PortInv'
    <3>1. ~conf.retry => x = "api"
      BY <1>0, <2>4, JobInvitesNot DEF PortInv
    <3>2. x = "api" => proc'["job"] = proc["job"]
      BY <2>1 DEF Shape, ProcInv, Procs
    <3>3. JobInv'
      BY <1>0, <2>4, <3>1, <3>2 DEF PortInv, JobInv
    <3>4. AcquireInv'
      BY <1>0, <2>1, <3>1 DEF AcquireInv
    <3>5. ~conf.retry => mediaMap[proc[x].c] = 0
      BY <1>0, <2>4, <3>1 DEF PortInv, AcquireInv
    <3>6. QED
      BY <2>2, <2>4, <3>3, <3>4, <3>5 DEF PortInv
  <2>5. QED
    BY <2>1, <2>2, <2>3, <2>4 DEF Kept, Shape
<1>2. CASE Finish(x, FALSE) /\ UNCHANGED <<ch, invites, owner, early, mediaMap>>
  <2>1. ProcInv' /\ ProcQuiet /\ RecoveryInv'
    BY <1>0, <1>2, FinishQuiet
  <2>2. ConfInv' /\ CountInv' /\ CountQuiet /\ PortTypes' /\ PortQuiet
    BY <1>0, <1>2 DEF Shape, ConfInv, CountInv, CountQuiet, PortTypes, PortQuiet, PortsAccounted
  <2>3. QED
    BY <1>0, <1>2, <2>1, <2>2, StillObjects, QuietKeeps DEF Shape, Quiet
<1>3. QED
  BY <1>1, <1>2 DEF InviteAcquire, listenVars

\* The answer of the device: the object takes over the dialog of the INVITE, whose ACK is
\* still to be sent.
LEMMA InviteAcceptedKeeps ==
    ASSUME Shape, NEW x \in {"api", "job"}, NEW answer, InviteAccepted(x, answer)
    PROVE  Kept
<1>0. /\ UNCHANGED <<conf, invites, byes, overtaken, obj, owner, early, mediaMap, recovery>>
      /\ x \in Procs /\ ProcOK(proc[x]) /\ proc[x].pc = "sent"
  BY DEF InviteAccepted, Others, deviceVars, mediaVars, listenVars, byeVars, Procs, Shape, ProcInv
<1>1. PICK o, d : o = proc[x].o /\ d = proc[x].d
  OBVIOUS
<1>2. o \in Objs /\ ChOK(ch[o])
  BY <1>0, <1>1 DEF ProcOK, UsesObj, Shape, ChInv
<1>3. PICK y : ch' = [ch EXCEPT ![o] = [ch[o] EXCEPT !.ssrc = y, !.ack = d]]
  BY <1>1 DEF InviteAccepted
<1>4. PICK r : r = [ch[o] EXCEPT !.ssrc = y, !.ack = d]
  OBVIOUS
<1>5. DOMAIN r = ChFields /\ r.c = ch[o].c /\ r.ack = d
  BY <1>2, <1>4 DEF ChOK, ChFields
<1>6. ch'[o] = r /\ (\A q \in Objs : q # o => ch'[q] = ch[q]) /\ ch' = [q \in Objs |-> ch'[q]]
  BY <1>2, <1>3, <1>4 DEF Shape, ChInv
<1>7. PICK me : me = [proc[x] EXCEPT !.pc = "ack"]
  OBVIOUS
<1>8. proc' = [proc EXCEPT ![x] = me]
  BY <1>7 DEF InviteAccepted
<1>9. ProcOK(me) /\ me.pc = "ack" /\ me.d = d
  BY <1>0, <1>1, <1>7 DEF ProcOK, ProcFields, UsesObj, UsesChan
<1>10. ProcInv' /\ proc'[x] = me /\ \A z \in Procs : z # x => proc'[z] = proc[z]
  BY <1>0, <1>8, <1>9 DEF Shape, ProcInv
<1>11. ConfInv' /\ ObjInv' /\ CountInv' /\ PortTypes' /\ RecoveryInv'
  BY <1>0 DEF Shape, ConfInv, ObjInv, CountInv, PortTypes, RecoveryInv
<1>12. ChInv'
  <2>1. ChOK(r)
    BY <1>0, <1>1, <1>2, <1>5 DEF ChOK, ProcOK
  <2>2. QED
    BY <1>6, <2>1 DEF Shape, ChInv
<1>13. Shape'
  BY <1>10, <1>11, <1>12 DEF Shape
<1>14. ASSUME ByeInv
       PROVE  ByeInv'
  <2>1. d \in 1..invites /\ byes[d] = 0 /\ \A q \in Objs : ch[q].ack # d
    BY <1>0, <1>1, <1>14 DEF ByeInv, SentInv
  <2>2. AckInv'
    <3>1. ASSUME NEW q \in Objs, ch'[q].ack # 0
          PROVE  ch'[q].ack \in 1..invites /\ byes[ch'[q].ack] = 0
      BY <1>5, <1>6, <1>14, <2>1, <3>1 DEF ByeInv, AckInv
    <3>2. ASSUME NEW q \in Objs, NEW t \in Objs, q # t, ch'[q].ack # 0
          PROVE  ch'[q].ack # ch'[t].ack
      <4>1. CASE q = o
        BY <1>5, <1>6, <2>1, <3>2, <4>1
      <4>2. CASE t = o
        BY <1>5, <1>6, <2>1, <3>2, <4>2
      <4>3. CASE q # o /\ t # o
        BY <1>6, <1>14, <3>2, <4>3 DEF ByeInv, AckInv
      <4>4. QED
        BY <4>1, <4>2, <4>3
    <3>3. \A e \in Dialogs : e > invites => byes[e] = 0
      BY <1>14 DEF ByeInv, AckInv
    <3>4. QED
      BY <1>0, <3>1, <3>2, <3>3 DEF AckInv
  <2>3. SentInv'
    <3>1. ASSUME NEW z \in Procs, proc'[z].pc = "sent"
          PROVE  /\ proc'[z].d \in 1..invites /\ byes[proc'[z].d] = 0
                 /\ \A q \in Objs : ch'[q].ack # proc'[z].d
      <4>1. z # x /\ proc'[z] = proc[z]
        BY <1>9, <1>10, <3>1
      <4>2. /\ proc[z].d \in 1..invites /\ byes[proc[z].d] = 0
            /\ \A q \in Objs : ch[q].ack # proc[z].d
        BY <1>14, <3>1, <4>1 DEF ByeInv, SentInv
      <4>3. proc[z].d # d
        BY <1>0, <1>1, <1>14, <3>1, <4>1 DEF ByeInv, SentInv
      <4>4. QED
        BY <1>5, <1>6, <4>1, <4>2, <4>3
    <3>2. ASSUME NEW z \in Procs, proc'[z].pc = "ack"
          PROVE  /\ proc'[z].d \in 1..invites /\ byes[proc'[z].d] \in {0, 1}
                 /\ byes[proc'[z].d] = 1 => proc'[z].d \in overtaken
      <4>1. CASE z = x
        BY <1>9, <1>10, <2>1, <4>1
      <4>2. CASE z # x
        BY <1>10, <1>14, <3>2, <4>2 DEF ByeInv, SentInv
      <4>3. QED
        BY <4>1, <4>2
    <3>3. \A z \in Procs : /\ proc'[z].d = proc[z].d
                           /\ proc'[z].pc \in {"sent", "ack"} => proc[z].pc \in {"sent", "ack"}
      BY <1>0, <1>1, <1>9, <1>10
    <3>4. \A z, t \in Procs : z # t /\ proc'[z].pc \in {"sent", "ack"}
                                /\ proc'[t].pc \in {"sent", "ack"} => proc'[z].d # proc'[t].d
      BY <1>14, <3>3 DEF ByeInv, SentInv
    <3>5. QED
      BY <1>0, <3>1, <3>2, <3>4 DEF SentInv
  <2>4. OneByePerDialog'
    BY <1>0, <1>14 DEF ByeInv, OneByePerDialog
  <2>5. QED
    BY <2>2, <2>3, <2>4 DEF ByeInv
<1>15. ASSUME PortInv
       PROVE  PortInv'
  <2>1. ~conf.retry => x = "api"
    BY <1>0, <1>15, JobInvitesNot DEF PortInv
  <2>2. JobInv'
    BY <1>0, <1>10, <1>15, <2>1 DEF PortInv, JobInv, Procs
  <2>3. AcquireInv'
    BY <1>0, <1>9, <1>10, <2>1 DEF AcquireInv
  <2>4. PortsAccounted'
    BY <1>0, <1>15 DEF PortInv, PortsAccounted
  <2>5. QED
    BY <2>2, <2>3, <2>4 DEF PortInv
<1>16. QED
  BY <1>13, <1>14, <1>15 DEF Kept

\* The ACK goes out, as the second BYE of the dialog if one has overtaken it.
LEMMA SendAckKeeps ==
    ASSUME Shape, NEW x \in {"api", "job"}, NEW sent \in BOOLEAN, SendAck(x, sent)
    PROVE  Kept
<1>0. /\ UNCHANGED <<conf, invites, overtaken, obj, owner, early, mediaMap>> /\ x \in Procs
      /\ ProcOK(proc[x]) /\ proc[x].pc = "ack"
  BY DEF SendAck, Others, deviceVars, listenVars, Procs, Shape, ProcInv
<1>1. PICK o, d : o = proc[x].o /\ d = proc[x].d
  OBVIOUS
<1>2. o \in Objs /\ ChOK(ch[o])
  BY <1>0, <1>1 DEF ProcOK, UsesObj, Shape, ChInv
<1>3. PICK play : ch' = [ch EXCEPT ![o] = [ch[o] EXCEPT !.play = play]]
  BY <1>1 DEF SendAck
<1>4. ChInv' /\ ChQuiet
  <2>1. PICK r : r = [ch[o] EXCEPT !.play = play]
    OBVIOUS
  <2>2. ChOK(r) /\ r.ack = ch[o].ack
    BY <1>2, <2>1 DEF ChOK, ChFields
  <2>3. QED
    BY <1>3, <2>1, <2>2, ChStep
<1>5. ProcInv' /\ ProcQuiet /\ RecoveryInv'
  BY <1>0, FinishQuiet DEF SendAck
<1>6. proc' = [proc EXCEPT ![x] = Idle]
  BY DEF SendAck, Finish, Return
<1>7. ConfInv' /\ ObjInv' /\ PortTypes' /\ PortQuiet
  BY <1>0 DEF Shape, ConfInv, ObjInv, PortTypes, PortQuiet, PortsAccounted
<1>8. PortInv => PortInv'
  BY <1>0, <1>5, <1>7, QuietKeepsPorts
<1>9. CASE byes' = byes
  <2>1. CountInv' /\ CountQuiet
    BY <1>0, <1>9 DEF Shape, CountInv, CountQuiet
  <2>2. QED
    BY <1>4, <1>5, <1>7, <1>8, <2>1, QuietKeepsByes DEF Kept, Shape
<1>10. CASE byes[d] > 0 /\ byes' = [byes EXCEPT ![d] = @ + 1]
  <2>1. CountInv'
    <3>1. CASE d \in Dialogs
      <4>1. byes[d] + 1 \in Nat
        BY <3>1 DEF Shape, CountInv
      <4>2. QED
        BY <1>0, <1>10, <4>1 DEF Shape, CountInv
    <3>2. CASE d \notin Dialogs
      <4>1. byes' = byes
        BY <1>10, <3>2 DEF Shape, CountInv
      <4>2. QED
        BY <1>0, <4>1 DEF Shape, CountInv
    <3>3. QED
      BY <3>1, <3>2
  <2>2. ASSUME ByeInv
        PROVE  ByeInv'
    <3>1. d \in 1..invites /\ byes[d] = 1 /\ d \in overtaken /\ d \in Dialogs
      <4>1. d \in 1..invites /\ byes[d] \in {0, 1} /\ (byes[d] = 1 => d \in overtaken)
        BY <1>0, <1>1, <2>2 DEF ByeInv, SentInv
      <4>2. QED
        BY <1>10, <4>1, GbDialogAssumption DEF Shape, CountInv, Dialogs
    <3>2. byes'[d] = 2 /\ \A e \in Dialogs : e # d => byes'[e] = byes[e]
      BY <1>10, <3>1 DEF Shape, CountInv
    <3>3. \A e \in 1..invites : e \in Dialogs
      BY GbDialogAssumption DEF Shape, CountInv, Dialogs
    <3>4. ASSUME NEW q \in Objs, ch'[q].ack # 0
          PROVE  ch'[q].ack = ch[q].ack /\ ch'[q].ack \in 1..invites /\ byes'[ch'[q].ack] = 0
      <4>1. ch'[q].ack = ch[q].ack
        BY <1>4, <3>4 DEF ChQuiet
      <4>2. ch[q].ack \in 1..invites /\ byes[ch[q].ack] = 0
        BY <2>2, <3>4, <4>1 DEF ByeInv, AckInv
      <4>3. ch[q].ack # d
        BY <3>1, <4>2
      <4>4. QED
        BY <3>2, <3>3, <4>1, <4>2, <4>3
    <3>5. AckInv'
      <4>1. \A e \in Dialogs : e > invites => byes'[e] = 0
        <5>1. ASSUME NEW e \in Dialogs, e > invites
              PROVE  e # d
          BY <3>1, <5>1 DEF Shape, CountInv, Dialogs
        <5>2. QED
          BY <2>2, <3>2, <5>1 DEF ByeInv, AckInv
      <4>2. ASSUME NEW q \in Objs, NEW t \in Objs, q # t, ch'[q].ack # 0
            PROVE  ch'[q].ack # ch'[t].ack
        <5>1. CASE ch'[t].ack = 0
          BY <4>2, <5>1
        <5>2. CASE ch'[t].ack # 0
          <6>1. ch'[q].ack = ch[q].ack /\ ch'[t].ack = ch[t].ack
            BY <3>4, <4>2, <5>2
          <6>2. QED
            BY <2>2, <4>2, <6>1 DEF ByeInv, AckInv
        <5>3. QED
          BY <5>1, <5>2
      <4>3. QED
        BY <1>0, <3>4, <4>1, <4>2 DEF AckInv
    <3>6. ASSUME NEW z \in Procs, proc'[z].pc \in {"sent", "ack"}
          PROVE  z # x /\ proc'[z] = proc[z] /\ proc[z].d # d
      <4>1. z # x /\ proc'[z] = proc[z]
        BY <1>6, <3>6, IdleOK DEF Shape, ProcInv
      <4>2. QED
        BY <1>0, <1>1, <2>2, <3>6, <4>1 DEF ByeInv, SentInv
    <3>7. SentInv'
      <4>1. ASSUME NEW z \in Procs, proc'[z].pc = "sent"
            PROVE  /\ proc'[z].d \in 1..invites /\ byes'[proc'[z].d] = 0
                   /\ \A q \in Objs : ch'[q].ack # proc'[z].d
        <5>1. /\ proc[z].d \in 1..invites /\ byes[proc[z].d] = 0
              /\ \A q \in Objs : ch[q].ack # proc[z].d
          BY <2>2, <3>6, <4>1 DEF ByeInv, SentInv
        <5>2. \A q \in Objs : ch'[q].ack \in {ch[q].ack, 0}
          BY <1>4 DEF ChQuiet
        <5>3. proc[z].d # 0
          BY <5>1 DEF Shape, CountInv
        <5>4. QED
          BY <3>2, <3>3, <3>6, <4>1, <5>1, <5>2, <5>3
      <4>2. ASSUME NEW z \in Procs, proc'[z].pc = "ack"
            PROVE  /\ proc'[z].d \in 1..invites /\ byes'[proc'[z].d] \in {0, 1}
                   /\ byes'[proc'[z].d] = 1 => proc'[z].d \in overtaken
        <5>1. /\ proc[z].d \in 1..invites /\ byes[proc[z].d] \in {0, 1}
              /\ byes[proc[z].d] = 1 => proc[z].d \in overtaken
          BY <2>2, <3>6, <4>2 DEF ByeInv, SentInv
        <5>2. QED
          BY <3>2, <3>3, <3>6, <4>2, <5>1
      <4>3. \A z, t \in Procs : z # t /\ proc'[z].pc \in {"sent", "ack"}
                                  /\ proc'[t].pc \in {"sent", "ack"} => proc'[z].d # proc'[t].d
        BY <2>2, <3>6 DEF ByeInv, SentInv
      <4>4. QED
        BY <1>0, <4>1, <4>2, <4>3 DEF SentInv
    <3>8. OneByePerDialog'
      BY <1>0, <2>2, <3>1, <3>2 DEF ByeInv, OneByePerDialog
    <3>9. QED
      BY <3>5, <3>7, <3>8 DEF ByeInv
  <2>3. QED
    BY <1>4, <1>5, <1>7, <1>8, <2>1, <2>2 DEF Kept, Shape
<1>11. QED
  BY <1>1, <1>9, <1>10 DEF SendAck

\* An INVITE that fails.
LEMMA InviteRefusedKeeps ==
    ASSUME Shape, NEW x \in {"api", "job"}, InviteRefused(x)
    PROVE  Kept
<1>0. /\ UNCHANGED <<conf, invites, byes, overtaken, obj>> /\ x \in Procs
      /\ ProcOK(proc[x]) /\ proc[x].pc = "sent"
  BY DEF InviteRefused, Others, deviceVars, byeVars, Procs, Shape, ProcInv
<1>1. PICK o : o = proc[x].o
  OBVIOUS
<1>2. o \in Objs /\ ChOK(ch[o])
  BY <1>0, <1>1 DEF ProcOK, UsesObj, Shape, ChInv
<1>3. PICK r : r = [ClearMedia(ch[o]) EXCEPT !.play = None]
  OBVIOUS
<1>4. ch' = [ch EXCEPT ![o] = r]
  BY <1>1, <1>3 DEF InviteRefused
<1>5. ChOK(r) /\ r.ack = ch[o].ack
  BY <1>2, <1>3 DEF ChOK, ChFields, ClearMedia
<1>6. ChInv' /\ ChQuiet
  BY <1>4, <1>5, ChStep
<1>7. ProcInv' /\ ProcQuiet /\ RecoveryInv'
  BY <1>0, FinishQuiet DEF InviteRefused
<1>8. PortTypes' /\ PortQuiet
  BY <1>0, DisposeQuiet DEF InviteRefused
<1>9. ConfInv' /\ ObjInv' /\ CountInv' /\ CountQuiet
  BY <1>0 DEF Shape, ConfInv, ObjInv, CountInv, CountQuiet
<1>10. QED
  BY <1>6, <1>7, <1>8, <1>9, QuietKeeps DEF Shape, Quiet

-----------------------------------------------------------------------------
(* The two theorems.                                                        *)

\* A step of the device side.
LEMMA DialogKeeps ==
    ASSUME Shape, DialogNext
    PROVE  Kept
<1>1. CASE DeviceNext
  BY <1>1, DeviceQuiet, QuietKeeps
<1>2. CASE ApiNext
  BY <1>2, ApiQuiet, QuietKeeps
<1>3. CASE JobNext
  BY <1>3, JobQuiet, QuietKeeps
<1>4. ASSUME NEW x \in {"api", "job"}, InviteNext(x)
      PROVE  Kept
  BY <1>4, InviteAgainKeeps, InviteLoadKeeps, InviteAcquireKeeps, InviteAcceptedKeeps,
     SendAckKeeps, InviteRefusedKeeps DEF InviteNext
<1>5. ASSUME NEW x \in Procs, ByeNext(x)
      PROVE  Kept
  <2>1. CASE ByeStop(x)
    BY <2>1, ByeStopKeeps
  <2>2. CASE ByeClear(x) \/ byeClearStop(x) \/ byeClear(x) \/ UnregisterPlaybackSession(x)
    BY <2>2, ClearQuiet, QuietKeeps
  <2>3. QED
    BY <1>5, <2>1, <2>2 DEF ByeNext
<1>6. ASSUME NEW k \in Conns, ConnNext(k)
      PROVE  Kept
  BY <1>6, ConnQuiet, QuietKeeps
<1>7. ASSUME NEW p \in Ports, Start(p)
      PROVE  Kept
  <2>1. UNCHANGED <<conf, obj, ch, invites, byes, overtaken, owner, early, mediaMap, recovery,
                    proc>>
    BY <1>7 DEF Start, Others, deviceVars, byeVars
  <2>2. QED
    BY <2>1, StillMedia, StillObjects, StillProcs, QuietKeeps DEF Shape, Quiet
<1>8. QED
  BY <1>1, <1>2, <1>3, <1>4, <1>5, <1>6, <1>7 DEF DialogNext

\* The platforms' side leaves the dialogs and the ports alone.
LEMMA UpstreamLeavesDialogs ==
    ASSUME \/ \E n \in Names : OtherPublisher(n)
           \/ \E i \in Calls : CallNext(i)
           \/ AdminNext
    PROVE  UNCHANGED <<conf, obj, ch, invites, byes, overtaken, owner, early, mediaMap, recovery,
                       proc>>
<1>1. CASE \E n \in Names : OtherPublisher(n)
  BY <1>1 DEF OtherPublisher, deviceVars, mediaVars, listenVars, byeVars
<1>2. CASE \E i \in Calls : CallNext(i)
  BY <1>2 DEF CallNext, OnUpstreamInvite, cleanupUpstreamSessionForChannel, PickMediaServer,
              NotReady, AddUpstreamSink, RequestUpstreamRtpFeed, CleanedUp, OnUpstreamBye,
              UpstreamByeEnds, OnByeOfPlatform, ByeOfPlatformEnds, UpOthers,
              deviceVars, mediaVars, listenVars, byeVars
<1>3. CASE AdminNext
  BY <1>3 DEF AdminNext, AddUpstreamSub, RemoveUpstreamSub, BrutalReloadUpstreams,
              reconcileUpstreamSession, AdminDropEnds, ReconcileEnds, ReloadDrops, ReloadDropped,
              ClearAllUpstreamSinks, RestartUpstreams, ReloadSubs, UpOthers,
              deviceVars, mediaVars, listenVars, byeVars
<1>4. QED
  BY <1>1, <1>2, <1>3

\* Every step.
LEMMA NextKeeps ==
    ASSUME Shape, [Next]_vars
    PROVE  Kept
<1>1. CASE DialogNext
  BY <1>1, DialogKeeps
<1>2. CASE UNCHANGED <<conf, obj, ch, invites, byes, overtaken, owner, early, mediaMap, recovery,
                       proc>>
  BY <1>2, StillMedia, StillObjects, StillProcs, QuietKeeps DEF Shape, Quiet
<1>3. CASE UNCHANGED vars
  BY <1>2, <1>3 DEF vars, dialogVars, deviceVars, mediaVars, listenVars, byeVars
<1>4. QED
  BY <1>1, <1>2, <1>3, UpstreamLeavesDialogs DEF Next

\* The initial state: no dialog, no media server, and nobody at work.
LEMMA InitiallyKept ==
    ASSUME GbUpstreamInit
    PROVE  Shape /\ ByeInv /\ PortInv
<1>0. PICK s \in Scenarios :
        /\ conf = s.conf
        /\ \E f \in [Channels -> 0..Cardinality(s.known)] :
              /\ obj = f
              /\ ch = [o \in Objs |-> IF \E c \in s.known : f[c] = o
                                      THEN NewChannel(CHOOSE c \in s.known : f[c] = o, TRUE)
                                      ELSE NewChannel(None, FALSE)]
  BY DEF GbUpstreamInit, Init
<1>1. PICK f \in [Channels -> 0..Cardinality(s.known)] :
        /\ obj = f
        /\ ch = [o \in Objs |-> IF \E c \in s.known : f[c] = o
                                THEN NewChannel(CHOOSE c \in s.known : f[c] = o, TRUE)
                                ELSE NewChannel(None, FALSE)]
  BY <1>0
<1>2. ConfInv
  BY <1>0, GbDialogAssumption DEF ConfInv
<1>3. ObjInv
  <2>1. PICK m \in Nat : Objs = 1..m
    BY GbDialogAssumption, FS_CardinalityType
  <2>2. PICK n : n = Cardinality(s.known)
    OBVIOUS
  <2>3. n \in Objs \cup {0}
    BY <2>2, GbDialogAssumption
  <2>4. 0..n \subseteq Objs \cup {0}
    BY <2>1, <2>3
  <2>5. f \in [Channels -> 0..n]
    BY <2>2
  <2>6. QED
    BY <1>1, <2>4, <2>5 DEF ObjInv
<1>4. ASSUME NEW o \in Objs
      PROVE  ChOK(ch[o]) /\ ch[o].ack = 0
  <2>1. CASE \E c \in s.known : f[c] = o
    <3>1. PICK c : c = (CHOOSE e \in s.known : f[e] = o)
      OBVIOUS
    <3>2. c \in Channels
      BY <2>1, <3>1, GbDialogAssumption
    <3>3. ch[o] = NewChannel(c, TRUE)
      BY <1>1, <2>1, <3>1
    <3>4. QED
      BY <3>2, <3>3 DEF NewChannel, ChOK, ChFields
  <2>2. CASE ~\E c \in s.known : f[c] = o
    <3>1. ch[o] = NewChannel(None, FALSE)
      BY <1>1, <2>2
    <3>2. QED
      BY <3>1 DEF NewChannel, ChOK, ChFields
  <2>3. QED
    BY <2>1, <2>2
<1>5. ChInv
  BY <1>1, <1>4 DEF ChInv
<1>6. proc = [x \in Procs |-> Idle] /\ \A x \in Procs : proc[x] = Idle
  BY DEF GbUpstreamInit, Init
<1>7. ProcInv
  BY <1>6, IdleOK DEF ProcInv
<1>8. RecoveryInv /\ CountInv /\ PortTypes
  BY GbDialogAssumption DEF GbUpstreamInit, Init, RecoveryInv, NoRecovery, CountInv, PortTypes
<1>9. ByeInv
  <2>1. AckInv /\ OneByePerDialog
    <3>1. \A d \in Dialogs : byes[d] = 0
      BY DEF GbUpstreamInit, Init
    <3>2. QED
      BY <1>4, <3>1 DEF AckInv, OneByePerDialog
  <2>2. SentInv
    BY <1>6, IdleOK DEF SentInv
  <2>3. QED
    BY <2>1, <2>2 DEF ByeInv
<1>10. PortInv
  <2>1. proc["job"] = Idle /\ proc["api"] = Idle
    BY <1>6 DEF Procs
  <2>2. JobInv /\ AcquireInv
    BY <2>1, IdleOK DEF JobInv, AcquireInv
  <2>3. PortsAccounted
    BY DEF GbUpstreamInit, Init, PortsAccounted
  <2>4. QED
    BY <2>2, <2>3 DEF PortInv
<1>11. QED
  BY <1>2, <1>3, <1>5, <1>7, <1>8, <1>9, <1>10 DEF Shape

\* At most one BYE is sent in a dialog, however the API, the device, an ending
\* connection, the expiry of a playback and a retry race to end it (Channel.Bye); a BYE
\* that overtakes the ACK of its dialog makes the ACK a second one, and no more follow.
THEOREM OneBye == Spec => []OneByePerDialog
<1>1. GbUpstreamInit => Shape /\ ByeInv
  BY InitiallyKept
<1>2. Shape /\ ByeInv /\ [Next]_vars => (Shape /\ ByeInv)'
  BY NextKeeps DEF Kept
<1>3. ByeInv => OneByePerDialog
  BY DEF ByeInv
<1>4. QED
  BY <1>1, <1>2, <1>3, PTL DEF Spec

\* While only the API sends INVITEs, every port that listens can be found in
\* MediaServerMap and stopped (OnStartMediaServer, OnStopMediaServer), but for one whose
\* server was disposed before its Start had run.
THEOREM PortsFound == Spec => []PortsAccounted
<1>1. GbUpstreamInit => Shape /\ PortInv
  BY InitiallyKept
<1>2. Shape /\ PortInv /\ [Next]_vars => (Shape /\ PortInv)'
  BY NextKeeps DEF Kept
<1>3. PortInv => PortsAccounted
  BY DEF PortInv
<1>4. QED
  BY <1>1, <1>2, <1>3, PTL DEF Spec
=============================================================================
