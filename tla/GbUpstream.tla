----------------------------- MODULE GbUpstream -----------------------------
(***************************************************************************)
(* GB28181, the side of the upstream platforms, on top of GbDialog: a      *)
(* platform INVITEs a stream it is subscribed to, and the server forwards  *)
(* the RTP of that stream to it.  The forwarding target, a sink, sits on   *)
(* the media server that receives the stream, or on one virtual media      *)
(* server when the stream is not a GB28181 one; then the logic layer feeds *)
(* the virtual server.  A BYE, a second INVITE, the end of a subscription  *)
(* and a reload of the configuration end sessions.                         *)
(*                                                                         *)
(* A handler's steps end where it waits for the answer to a BYE, where it  *)
(* releases the lock of a table it comes back to, and between the test of  *)
(* a session's CancelFeed and the deletion of its entry, which no lock     *)
(* covers.                                                                 *)
(***************************************************************************)
EXTENDS GbDialog

CONSTANTS
    Upstreams,      \* platforms
    Calls,          \* Call-IDs of upstream INVITEs, 1..n
    MaxSinks        \* conf.UpstreamMaxSinks

ASSUME GbUpstreamAssumption ==
    /\ MaxSinks \in Nat \ {0}
    /\ IsFiniteSet(Calls) /\ Calls = 1..Cardinality(Calls)
    /\ None \notin [u : Upstreams, id : Names \cup Channels, n : Names, key : {"port", "virtual"}]

VARIABLES
    subs,       \* the streams each platform is subscribed to
    sess,       \* upstreamSessions, by Call-ID
    sink,       \* the server a session's sink is on
    feeds,      \* sessions the logic layer feeds RTP for
    dropping,   \* <<who, session>>: the feed was cancelled, the entry is to be deleted
    lateFeeds,  \* history: sessions that got their feed in between
    virtual,    \* virtualMediaserver exists
    call,       \* the handlers of upstream INVITEs
    admin       \* the API call that changes subscriptions

dropVars == <<dropping, lateFeeds>>
upVars == <<subs, sess, sink, feeds, dropVars, virtual, call, admin>>
vars == <<dialogVars, upVars>>

\* Where a sink can be: a port's media server, the virtual one, or a disposed server
\* of either kind that only a handler still holds.
VirtualServer == Cardinality(Ports) + 1
ClosedServer == Cardinality(Ports) + 2
DeadServer == Cardinality(Ports) + 3
Servers == 1..DeadServer

\* Who ends sessions: the handler of an INVITE, by its Call-ID, the API call, and the
\* handlers of BYEs on the port for platforms and on the one for devices.
AdminDrop == 0
UpstreamPort == Cardinality(Calls) + 1
DevicePort == Cardinality(Calls) + 2
Droppers == 0..DevicePort

NoCall == [pc |-> "idle", u |-> None, id |-> None, n |-> None, ms |-> None]
NoAdmin == [pc |-> "idle", conf |-> {}]

GbUpstreamInit ==
    /\ Init
    /\ subs = [u \in Upstreams |-> conf.subs]
    /\ sess = [i \in Calls |-> None]
    /\ sink = [i \in Calls |-> None]
    /\ feeds = {} /\ dropping = {} /\ lateFeeds = {}
    /\ virtual = FALSE
    /\ call = [i \in Calls |-> NoCall]
    /\ admin = NoAdmin

-----------------------------------------------------------------------------
(* What the device side and the publishers do to the forwarding.            *)

\* The sinks of a media server go with it; a handler may still hold it.
ServersFollow ==
    LET Gone(ms) == ms \in Ports /\ owner'[ms] = None IN
    /\ sink' = [i \in Calls |-> IF Gone(sink[i]) THEN None ELSE sink[i]]
    /\ call' = [i \in Calls |-> IF Gone(call[i].ms) THEN [call[i] EXCEPT !.ms = ClosedServer]
                                ELSE call[i]]
    /\ UNCHANGED <<subs, sess, feeds, dropVars, virtual, admin>>

\* A publisher of another protocol takes the stream, or leaves it.
OtherPublisher(n) ==
    /\ Spend("pub")
    /\ \/ pub[n] = None /\ pub' = [pub EXCEPT ![n] = "other"]
       \/ pub[n] = "other" /\ pub' = [pub EXCEPT ![n] = None]
    /\ UNCHANGED <<conf, deviceVars, ch, lock, invites, byeVars, lastPort, indexVars, mediaVars,
                   msIndex, playVars, proc, upVars>>

-----------------------------------------------------------------------------
(* Sessions.                                                                *)

UpOthers == <<conf, deviceVars, ch, lock, invites, byeVars, lastPort, indexVars, mediaVars, pub,
              playVars, proc>>

\* With no session on the virtual server left, its sinks and its index entries go.
maybeCleanupVirtualMediaServer(ss, sk, idx) ==
    IF virtual /\ {i \in Calls : ss[i] # None /\ ss[i].key = "virtual"} = {}
    THEN /\ virtual' = FALSE /\ msIndex' = {}
         /\ sink' = [i \in Calls |-> IF sk[i] = VirtualServer THEN None ELSE sk[i]]
    ELSE virtual' = virtual /\ msIndex' = idx /\ sink' = sk

\* A handler that had picked the virtual server keeps a server of no table.
Orphan(c) ==
    IF virtual /\ ~virtual' /\ c.ms = VirtualServer THEN [c EXCEPT !.ms = DeadServer] ELSE c

Busy(w) == \E i \in Calls : <<w, i>> \in dropping

\* The sink is looked for on the server that MediaServerMap has under the session's
\* media key: the map has the virtual server under its key, but a port's server under
\* the ids of device and channel.
RemoveUpstreamSink(i) == IF sink[i] = VirtualServer THEN [sink EXCEPT ![i] = None] ELSE sink

\* Mutant: the feed is not cancelled.
CancelSessionKeepsFeed(w, i) ==
    /\ dropping' = dropping \cup {<<w, i>>}
    /\ sink' = RemoveUpstreamSink(i)
    /\ UNCHANGED <<sess, feeds, lateFeeds, virtual, msIndex>>

\* w ends a session: the feed is cancelled if there is one by now, the sink removed,
CancelSession(w, i) ==
    /\ dropping' = dropping \cup {<<w, i>>}
    /\ feeds' = feeds \ {i}
    /\ sink' = RemoveUpstreamSink(i)
    /\ UNCHANGED <<sess, lateFeeds, virtual, msIndex>>

\* and the entry is deleted, whatever has become of it.
DeleteSession(w, i, cleanup) ==
    LET ss == [sess EXCEPT ![i] = None] IN
    /\ <<w, i>> \in dropping
    /\ dropping' = dropping \ {<<w, i>>}
    /\ sess' = ss
    /\ IF cleanup THEN maybeCleanupVirtualMediaServer(ss, sink, msIndex)
       ELSE UNCHANGED <<sink, virtual, msIndex>>
    /\ UNCHANGED <<feeds, lateFeeds>>

\* The stream an INVITE is for: by the channel id of a subscription (here the stream's
\* name), or by a channel of the device.
StreamOf(u, id) ==
    CASE id \in subs[u] -> id
      [] id \in Channels /\ obj[id] # 0 -> ch[obj[id]].name
      [] OTHER -> None

\* An upstream INVITE, up to the clean-up of the platform's session for the channel.
OnUpstreamInvite(i, u, id) ==
    /\ call[i].pc = "idle" /\ Spend("up")
    /\ \A j \in 1..(i - 1) : call[j].pc # "idle"
    /\ StreamOf(u, id) \in subs[u]
    /\ call' = [call EXCEPT ![i] = [pc |-> "clean", u |-> u, id |-> id, n |-> StreamOf(u, id),
                                    ms |-> None]]
    /\ UNCHANGED <<UpOthers, msIndex, subs, sess, sink, feeds, dropVars, virtual, admin>>

\* One earlier session of the channel, once its BYE was answered or timed out.
cleanupUpstreamSessionForChannel(i) ==
    /\ call[i].pc = "clean" /\ ~Busy(i)
    /\ \E j \in Calls :
          /\ sess[j] # None /\ sess[j].u = call[i].u /\ sess[j].id = call[i].id
          /\ CancelSession(i, j)
    /\ UNCHANGED <<UpOthers, left, subs, call, admin>>

CleanedUp(i) ==
    /\ \E j \in Calls : DeleteSession(i, j, TRUE)
    /\ call' = [j \in Calls |-> Orphan(call[j])]
    /\ UNCHANGED <<UpOthers, left, subs, admin>>

\* The media server: the index, then a server that has the stream, then the virtual
\* one, which also enters the index.
PickMediaServer(i) ==
    LET c == call[i]
        has == {p \in Ports : HasStream(p, c.n) /\ \E x \in Channels : mediaMap[x] = p}
        Go(ms) == call' = [call EXCEPT ![i].pc = "attach", ![i].ms = ms]
    IN /\ c.pc = "clean" /\ ~Busy(i)
       /\ {j \in Calls : sess[j] # None /\ sess[j].u = c.u /\ sess[j].id = c.id} = {}
       /\ \/ /\ c.n \in msIndex
             /\ call' = [call EXCEPT ![i].pc = "indexed", ![i].ms = VirtualServer]
             /\ UNCHANGED <<virtual, msIndex>>
          \/ /\ c.n \notin msIndex
             /\ \E p \in has : Go(p)
             /\ UNCHANGED <<virtual, msIndex>>
          \/ /\ c.n \notin msIndex /\ has = {}
             /\ Go(VirtualServer)
             /\ virtual' = TRUE /\ msIndex' = msIndex \cup {c.n}
       /\ UNCHANGED <<UpOthers, left, subs, sess, sink, feeds, dropVars, admin>>

\* 480: the stream is gone again, or the server has not seen its format.  A session
\* that found the virtual server in the index was not given the virtual media key, so
\* the format is asked of the virtual server, which never has one.
NotReady(i) ==
    LET c == call[i] IN
    /\ \/ c.pc = "indexed" \/ (c.pc = "attach" /\ ~HasActiveMediaStream(c.n))
       \/ c.pc = "attach" /\ c.ms \in Ports /\ c.n \notin format[c.ms]
       \/ c.pc = "attach" /\ c.ms = ClosedServer
    /\ call' = [call EXCEPT ![i] = [NoCall EXCEPT !.pc = "done"]]
    /\ UNCHANGED <<UpOthers, left, msIndex, subs, sess, sink, feeds, dropVars, virtual, admin>>

\* maxUpstreamSinks of a media server
SinksFull(ms) ==
    ms \in Ports \cup {VirtualServer} /\ Cardinality({j \in Calls : sink[j] = ms}) >= MaxSinks

\* The session is stored under its Call-ID; that of a port's stream is then answered
StoreSession(i, key) ==
    LET c == call[i] IN
    /\ sess' = [sess EXCEPT ![i] = [u |-> c.u, id |-> c.id, n |-> c.n, key |-> key]]
    /\ call' = [call EXCEPT ![i] = IF key = "port" THEN [NoCall EXCEPT !.pc = "done"]
                                   ELSE [c EXCEPT !.pc = "feed"]]

\* The sink is added, if the server has room, and the session stored.
AddUpstreamSink(i) ==
    LET c == call[i] IN
    /\ c.pc = "attach" /\ HasActiveMediaStream(c.n)
    /\ c.ms \in Ports => c.n \in format[c.ms]
    /\ IF SinksFull(c.ms)
       THEN call' = [call EXCEPT ![i] = [NoCall EXCEPT !.pc = "done"]] /\ UNCHANGED <<sess, sink>>
       ELSE /\ sink' = [sink EXCEPT ![i] = c.ms]
            /\ StoreSession(i, IF c.ms \in Ports \cup {ClosedServer} THEN "port" ELSE "virtual")
    /\ UNCHANGED <<UpOthers, left, msIndex, subs, feeds, dropVars, virtual, admin>>

\* The feed is requested from the stream's group; the session is stored once more with
\* the means to cancel it, which who is about to delete the entry no longer sees.
RequestUpstreamRtpFeed(i, group) ==
    LET c == call[i] IN
    /\ c.pc = "feed" /\ (pub[c.n] # None => group)
    /\ IF group
       THEN /\ feeds' = feeds \cup {i}
            /\ sess' = [sess EXCEPT ![i] = [u |-> c.u, id |-> c.id, n |-> c.n, key |-> "virtual"]]
            /\ lateFeeds' = IF \E w \in Droppers \ {DevicePort} : <<w, i>> \in dropping
                            THEN lateFeeds \cup {i} ELSE lateFeeds
       ELSE UNCHANGED <<feeds, sess, lateFeeds>>
    /\ call' = [call EXCEPT ![i] = [NoCall EXCEPT !.pc = "done"]]
    /\ UNCHANGED <<UpOthers, left, msIndex, subs, sink, dropping, virtual, admin>>

\* BYE of a platform, by Call-ID, or by platform and channel when no session has the
\* Call-ID.
OnUpstreamBye(i) ==
    /\ sess[i] # None /\ Spend("upbye")
    /\ CancelSession(UpstreamPort, i)
    /\ UNCHANGED <<UpOthers, subs, call, admin>>

UpstreamByeEnds(i) ==
    /\ DeleteSession(UpstreamPort, i, TRUE)
    /\ call' = [j \in Calls |-> Orphan(call[j])]
    /\ UNCHANGED <<UpOthers, left, subs, admin>>

\* The same on the port for devices (OnBye): the entry is deleted first, and nobody asks
\* about the virtual server.
OnByeOfPlatform(i) ==
    /\ sess[i] # None /\ Spend("upbye")
    /\ sess' = [sess EXCEPT ![i] = None]
    /\ dropping' = dropping \cup {<<DevicePort, i>>}
    /\ UNCHANGED <<UpOthers, msIndex, subs, sink, feeds, lateFeeds, virtual, call, admin>>

ByeOfPlatformEnds(i) ==
    /\ <<DevicePort, i>> \in dropping
    /\ dropping' = dropping \ {<<DevicePort, i>>}
    /\ feeds' = feeds \ {i}
    /\ sink' = RemoveUpstreamSink(i)
    /\ UNCHANGED <<UpOthers, left, msIndex, subs, sess, lateFeeds, virtual, call, admin>>

-----------------------------------------------------------------------------
(* Subscriptions.                                                           *)

AddUpstreamSub(u, n) ==
    /\ n \notin subs[u] /\ Spend("sub")
    /\ subs' = [subs EXCEPT ![u] = @ \cup {n}]
    /\ UNCHANGED <<UpOthers, msIndex, sess, sink, feeds, dropVars, virtual, call, admin>>

RemoveUpstreamSub(u, n) ==
    /\ admin.pc = "idle" /\ n \in subs[u] /\ Spend("unsub")
    /\ subs' = [subs EXCEPT ![u] = @ \ {n}]
    /\ admin' = [admin EXCEPT !.pc = "reconcile"]
    /\ UNCHANGED <<UpOthers, msIndex, sess, sink, feeds, dropVars, virtual, call>>

\* One session whose subscription is gone, once its BYE was answered or timed out.
Unsubscribed(i) == sess[i] # None /\ ~(sess[i].n \in subs[sess[i].u] /\ sess[i].id = sess[i].n)
reconcileUpstreamSession ==
    /\ admin.pc = "reconcile" /\ ~Busy(AdminDrop)
    /\ \E i \in Calls : Unsubscribed(i) /\ CancelSession(AdminDrop, i)
    /\ UNCHANGED <<UpOthers, left, subs, call, admin>>

AdminDropEnds ==
    /\ \E i \in Calls : DeleteSession(AdminDrop, i, FALSE)
    /\ UNCHANGED <<UpOthers, left, subs, call, admin>>

ReconcileEnds ==
    /\ admin.pc = "reconcile" /\ ~Busy(AdminDrop) /\ \A i \in Calls : ~Unsubscribed(i)
    /\ maybeCleanupVirtualMediaServer(sess, sink, msIndex)
    /\ call' = [j \in Calls |-> Orphan(call[j])]
    /\ admin' = NoAdmin
    /\ UNCHANGED <<UpOthers, left, subs, sess, feeds, dropVars>>

\* ClearAllUpstreamSinks of every server in MediaServerMap
SinksCleared == [i \in Calls |-> IF sink[i] \in {ClosedServer, DeadServer} THEN sink[i] ELSE None]

\* BrutalReloadUpstreams: session by session is dropped, without a BYE,
BrutalReloadUpstreams(c) ==
    /\ admin.pc = "idle" /\ Spend("reload")
    /\ admin' = [pc |-> "drop", conf |-> c]
    /\ UNCHANGED <<UpOthers, msIndex, subs, sess, sink, feeds, dropVars, virtual, call>>

ReloadDrops ==
    /\ admin.pc = "drop" /\ ~Busy(AdminDrop)
    /\ \E i \in Calls : sess[i] # None /\ CancelSession(AdminDrop, i)
    /\ UNCHANGED <<UpOthers, left, subs, call, admin>>

\* and then every sink of a server in MediaServerMap.
ReloadDropped ==
    /\ admin.pc = "drop" /\ ~Busy(AdminDrop) /\ \A i \in Calls : sess[i] = None
    /\ admin' = [admin EXCEPT !.pc = "clear"]
    /\ UNCHANGED <<UpOthers, left, msIndex, subs, sess, sink, feeds, dropVars, virtual, call>>

ClearAllUpstreamSinks ==
    /\ admin.pc = "clear"
    /\ sink' = SinksCleared
    /\ admin' = [admin EXCEPT !.pc = "restart"]
    /\ UNCHANGED <<UpOthers, left, msIndex, subs, sess, feeds, dropVars, virtual, call>>

\* The platforms are rebuilt without subscriptions.
RestartUpstreams ==
    /\ admin.pc = "restart"
    /\ subs' = [u \in Upstreams |-> {}]
    /\ maybeCleanupVirtualMediaServer(sess, sink, msIndex)
    /\ call' = [j \in Calls |-> Orphan(call[j])]
    /\ admin' = [admin EXCEPT !.pc = "subs"]
    /\ UNCHANGED <<UpOthers, left, sess, feeds, dropVars>>

\* The subscriptions of the file, then the alignment of the sessions.
ReloadSubs ==
    /\ admin.pc = "subs"
    /\ subs' = [u \in Upstreams |-> admin.conf]
    /\ admin' = [admin EXCEPT !.pc = "reconcile"]
    /\ UNCHANGED <<UpOthers, left, msIndex, sess, sink, feeds, dropVars, virtual, call>>

-----------------------------------------------------------------------------
CallNext(i) ==
    \/ \E u \in Upstreams, id \in Names \cup Channels : OnUpstreamInvite(i, u, id)
    \/ cleanupUpstreamSessionForChannel(i) \/ CleanedUp(i) \/ PickMediaServer(i)
    \/ NotReady(i) \/ AddUpstreamSink(i)
    \/ \E group \in BOOLEAN : RequestUpstreamRtpFeed(i, group)
    \/ OnUpstreamBye(i) \/ UpstreamByeEnds(i) \/ OnByeOfPlatform(i) \/ ByeOfPlatformEnds(i)

AdminNext ==
    \/ \E u \in Upstreams, n \in Names : AddUpstreamSub(u, n) \/ RemoveUpstreamSub(u, n)
    \/ \E c \in {{}, conf.subs} : BrutalReloadUpstreams(c)
    \/ reconcileUpstreamSession \/ AdminDropEnds \/ ReconcileEnds
    \/ ReloadDrops \/ ReloadDropped \/ ClearAllUpstreamSinks \/ RestartUpstreams \/ ReloadSubs

Next ==
    \/ DialogNext /\ ServersFollow
    \/ \E n \in Names : OtherPublisher(n)
    \/ \E i \in Calls : CallNext(i)
    \/ AdminNext

\* A SIP request is answered or times out, a mutex is handed on, and a goroutine that
\* can go on does; devices, platforms and API users do what they like.
ApiStep == stopByStreamName \/ checkOnline \/ InviteNext("api") \/ ByeNext("api")
ScaleStep == PlaybackScale \/ SetPlaybackScale \/ \E ok \in BOOLEAN : InfoAnswered(ok)
JobStep == JobNext \/ InviteNext("job") \/ ByeNext("job")
ConnStep(k) ==
    \/ AddCustomizePubSession(k) \/ NotifyClose(k) \/ NotifyClosed(k) \/ ServeEnds(k) \/ ByeNext(k)
    \/ ~conn[k].open /\ ReadFails(k)
Fairness ==
    /\ WF_vars(ApiStep /\ ServersFollow)
    /\ WF_vars(ScaleStep /\ ServersFollow)
    /\ WF_vars(JobStep /\ ServersFollow)
    /\ WF_vars(ByeNext("sip") /\ ServersFollow)
    /\ \A k \in Conns : WF_vars(ConnStep(k) /\ ServersFollow)

Spec == GbUpstreamInit /\ [][Next]_vars /\ Fairness

-----------------------------------------------------------------------------
(* Properties.                                                              *)

\* Every variable has its type.
TypeOK ==
    /\ dev \in [in : BOOLEAN, status : {"ONLINE", "OFFLINE", "ALARMED"}, nonce : BOOLEAN,
                tries : Nat]
    /\ invites \in 0..MaxDialogs /\ byes \in [Dialogs -> Nat] /\ overtaken \subseteq Dialogs
    /\ obj \in [Channels -> Objs \cup {0}]
    /\ ch \in [Objs -> [c : Channels \cup {None}, on : BOOLEAN, invite : BOOLEAN,
                        name : Names \cup {None}, ssrc : Ssrcs, key : Ports \cup {0},
                        play : Names \cup {None}, ack : 0..MaxDialogs]]
    /\ lock \in [Objs -> Procs \cup {None}]
    /\ owner \in [Ports -> Channels \cup {None}] /\ lastPort \in Ports
    /\ starting \subseteq Ports /\ early \subseteq Ports
    /\ mediaMap \in [Channels -> Ports \cup {0}] /\ format \in [Ports -> SUBSET Names]
    /\ byKey \in [Ports -> (Names \X Ssrcs) \cup {None}] /\ bySsrc \in [Ssrcs -> Names \cup {None}]
    /\ conn \in [Conns -> [port : Ports \cup {0}, live : BOOLEAN, saved : BOOLEAN, open : BOOLEAN,
                           name : Names \cup {None}]]
    /\ pub \in [Names -> Conns \cup {None, "other"}]
    /\ recovery \in [Names -> [c : Channels \cup {None}, k : 0..RetryMax]]
    /\ playback \subseteq Names /\ scaled \subseteq Names /\ msIndex \subseteq Names
    /\ subs \in [Upstreams -> SUBSET Names]
    /\ sink \in [Calls -> Servers \cup {None}] /\ feeds \subseteq Calls /\ virtual \in BOOLEAN
    /\ dropping \subseteq Droppers \X Calls /\ lateFeeds \subseteq Calls

\* Every port that listens is reachable from MediaServerMap, so that a later stop frees
\* it: OnStartMediaServer and OnStopMediaServer pair up as long as only the API, one
\* call at a time, sends INVITEs.  (The retry job sends them without sm.mutex.)  The one
\* exception is a server that is disposed before the goroutine of its Start has run.
PortsAccounted ==
    ~conf.retry => \A p \in Ports : owner[p] # None /\ p \notin early => mediaMap[owner[p]] = p

\* However the API, the device, an ending connection, the expiry of a playback and a
\* retry race to end a dialog, at most one BYE is sent in it (Channel.Bye); only where it
\* comes between the publication of the ACK and its sending, the ACK goes out as a
\* second one (Channel.Invite).
OneByePerDialog ==
    \A d \in Dialogs : byes[d] <= IF d \in overtaken THEN 2 ELSE 1

\* Every RTP feed of the logic layer and every sink of the virtual media server belongs
\* to a session of the table, so that something can still end it, or to one that the
\* handler of a BYE is just ending, whatever the order of INVITEs, BYEs, unsubscriptions
\* and reloads (OnUpstreamInvite, its clean-ups).  The one exception is a feed that starts
\* while somebody who saw none is about to delete the session.
ForwardsAccounted ==
    \A i \in Calls : sess[i] = None /\ <<DevicePort, i>> \notin dropping
        => sink[i] # VirtualServer /\ (i \in feeds => i \in lateFeeds)

\* An API call that holds sm.mutex returns: the locks of the dialogs and the answers it
\* waits for come (CtrlGb28181Invite, CtrlGb28181Playback, CtrlGb28181Bye).
CallsReturn == proc["api"].pc # "idle" ~> proc["api"].pc = "idle"

\* A connection that was closed under its reader, or broke, gives the stream up: it
\* comes through NotifyClose to DelCustomizePubSession (Conn.Serve).
ClosedConnLeaves ==
    \A k \in Conns : (conn[k].name # None /\ ~conn[k].open) ~> (\A n \in Names : pub[n] # k)

\* auto_retry_on_disconnect: a lost live stream that was scheduled for a retry is
\* INVITEd again by the job (NotifyClose, processRecoveryPending).
LostStreamRetried ==
    \A n \in Names : recovery[n].c # None ~> (proc["job"].pc # "idle" /\ proc["job"].n = n)
=============================================================================
