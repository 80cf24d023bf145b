----------------------------- MODULE RtspClient -----------------------------
(***************************************************************************)
(* An RTSP client session of pkg/rtsp (PullSession, PushSession): the      *)
(* goroutine Start leaves the handshake to, the caller that waits for it   *)
(* or for the timeout, the read loop that follows, and the goroutine that  *)
(* watches the two halves of the session, the command connection           *)
(* (ClientCommandSession) and the media session (BaseInSession or          *)
(* BaseOutSession), and tells the owner once both have ended.              *)
(*                                                                         *)
(* naza's connection is external: its Close, or the first failing read or  *)
(* write, closes the socket and leaves one error in Done(), nil for Close. *)
(***************************************************************************)
EXTENDS Naturals, Sequences

CONSTANT
  Clients   \* the sessions to choose from, each
            \*   role: "pull" or "push",
            \*   tcp: OverTcp as configured,
            \*   tracks: what the SDP sets up, in the order of writeSetup,
            \*   timeout: whether DoTimeoutMs is not zero

ASSUME ClientsAssumption ==
  \A c \in Clients :
    /\ c.role \in {"pull", "push"} /\ {c.tcp, c.timeout} \subseteq BOOLEAN
    /\ c.tracks \in {<<"video">>, <<"audio">>, <<"video", "audio">>}

VARIABLES
  client,   \* the session, one of Clients
  starter,  \* Start's caller: "new", "waiting", "ok" or "failed"
  asking,   \* what the handshake goroutine is at, "" when it has ended
  todo,     \* tracks writeSetup has still to set up
  retried,  \* the request was answered with 401 and sent again
  overTcp,  \* option.OverTcp
  getParam, \* methodGetParameterSupported
  conn,     \* the command connection: "none", "open" or "closed"
  connDone, \* what conn.Done() holds or held: "empty", "nil" or "error"
  once,     \* the disposeOnce that have run
  udp,      \* tracks whose pair of sockets the media session holds
  errChan,  \* doContext's errChan: "empty", "nil" or "error"
  baseDone, \* the media session has put nil into its waitChan
  seen,     \* which of the two ends the watcher has received
  told,     \* the session's waitChan has been written
  loop      \* runReadLoop: "none", "reading", "spinning" or "ended"

clientVars == <<client, starter, asking, todo, retried, overTcp, getParam, conn, connDone,
                once, udp, errChan, baseDone, seen, told, loop>>

Requests == {"options", "describe", "announce", "setup", "fallback", "play", "record"}

\* New: the options are copied from the configuration, nothing is open
ClientInit ==
  /\ client \in Clients
  /\ starter = "new" /\ asking = "" /\ todo = client.tracks /\ retried = FALSE
  /\ overTcp = client.tcp /\ getParam = FALSE
  /\ conn = "none" /\ connDone = "empty" /\ once = {}
  /\ udp = {} /\ errChan = "empty" /\ baseDone = FALSE
  /\ seen = {} /\ told = FALSE /\ loop = "none"

-----------------------------------------------------------------------------
(* What the parts do to the connection and to each other                   *)

\* The connection's own close: the first error is the one Done() delivers
CloseConn(err) ==
  /\ conn' = IF conn = "open" THEN "closed" ELSE conn
  /\ connDone' = IF conn = "open" THEN err ELSE connDone

\* ClientCommandSession.dispose: with no connection yet there is nothing to
\* close, and the disposeOnce is spent all the same
DisposeCommand ==
  IF "command" \in once THEN UNCHANGED <<conn, connDone>> ELSE CloseConn("nil")

DisposeBaseKeepsSockets ==
  IF "base" \in once THEN UNCHANGED <<udp, baseDone>> ELSE baseDone' = TRUE /\ UNCHANGED udp

\* BaseInSession.dispose, BaseOutSession.dispose
DisposeBase ==
  IF "base" \in once THEN UNCHANGED <<udp, baseDone>> ELSE udp' = {} /\ baseDone' = TRUE

\* PullSession.dispose, PushSession.dispose
DisposeSession ==
  /\ DisposeCommand /\ DisposeBase
  /\ once' = {"session", "command", "base"}

-----------------------------------------------------------------------------
(* The handshake goroutine                                                 *)

\* Start: doContext leaves the handshake to a goroutine and waits
ClientStart ==
  /\ starter = "new"
  /\ starter' = "waiting" /\ asking' = "dial"
  /\ UNCHANGED <<client, todo, retried, overTcp, getParam, conn, connDone, once, udp,
                 errChan, baseDone, seen, told, loop>>

\* ClientCommandSession.connect.  The connection is stored whatever the caller
\* has done in the meantime.
ClientDial ==
  /\ asking = "dial"
  /\ \/ conn' = "open" /\ asking' = "options" /\ UNCHANGED errChan
     \/ asking' = "" /\ errChan' = "error" /\ UNCHANGED conn
  /\ UNCHANGED <<client, starter, todo, retried, overTcp, getParam, connDone, once, udp,
                 baseDone, seen, told, loop>>

\* A request ends in an error: it cannot be written, its answer cannot be read or
\* parsed, or it is refused with 401 twice.  Only the first of these closes the
\* connection by itself.  (The sockets of an unanswered SETUP over UDP are
\* forgotten: they belong to no session.)
RequestFails ==
  /\ asking \in Requests
  /\ \/ CloseConn("error")
     \/ conn = "open" /\ UNCHANGED <<conn, connDone>>
  /\ asking' = "" /\ errChan' = "error"
  /\ UNCHANGED <<client, starter, todo, retried, overTcp, getParam, once, udp, baseDone, seen,
                 told, loop>>

\* writeCmdReadResp: the first 401 makes it send the request again with what
\* Auth.FeedWwwAuthenticate took from the answer
RequestRefused ==
  /\ asking \in Requests /\ conn = "open" /\ ~retried
  /\ retried' = TRUE
  /\ UNCHANGED <<client, starter, asking, todo, overTcp, getParam, conn, connDone, once, udp,
                 errChan, baseDone, seen, told, loop>>

\* A request is answered; the next one may be refused once again
Answered(request, next) ==
  /\ asking = request /\ conn = "open"
  /\ asking' = next /\ retried' = FALSE
  /\ UNCHANGED <<client, starter, conn, connDone, once, baseDone, seen, told, loop>>

\* writeOptions: the Public header may announce GET_PARAMETER
OptionsAnswered ==
  /\ Answered("options", IF client.role = "pull" THEN "describe" ELSE "announce")
  /\ getParam' \in BOOLEAN
  /\ UNCHANGED <<todo, overTcp, udp, errChan>>

\* writeDescribe (the media session and the group get the SDP), writeAnnounce
DescribeAnswered ==
  /\ Answered("describe", "setup")
  /\ UNCHANGED <<todo, overTcp, getParam, udp, errChan>>

AnnounceAnswered ==
  /\ Answered("announce", "setup")
  /\ UNCHANGED <<todo, overTcp, getParam, udp, errChan>>

AfterSetup ==
  IF Len(todo) > 1 THEN "setup" ELSE IF client.role = "pull" THEN "play" ELSE "record"

\* writeOneSetup: the media session takes the sockets, disposed or not
\* (SetupWithConn); a 461 of the other transport has switched OverTcp off
SetupUdpAnswered ==
  /\ (asking = "setup" /\ ~overTcp) \/ (asking = "fallback" /\ overTcp)
  /\ Answered(asking, AfterSetup)
  /\ udp' = udp \cup {Head(todo)}
  /\ overTcp' = FALSE /\ todo' = Tail(todo)
  /\ UNCHANGED <<getParam, errChan>>

\* writeOneSetupTcp: the media session notes the two channels (SetupWithChannel)
SetupTcpAnswered ==
  /\ (asking = "setup" /\ overTcp) \/ (asking = "fallback" /\ ~overTcp)
  /\ Answered(asking, AfterSetup)
  /\ overTcp' = TRUE /\ todo' = Tail(todo)
  /\ UNCHANGED <<getParam, udp, errChan>>

\* writeSetup: 461 to the first SETUP of a track is tried again over the other
\* transport, 461 to the second is an error
SetupUnsupported ==
  /\ asking \in {"setup", "fallback"}
  /\ \/ asking = "setup" /\ Answered("setup", "fallback") /\ UNCHANGED errChan
     \/ asking = "fallback" /\ Answered("fallback", "") /\ errChan' = "error"
  /\ UNCHANGED <<todo, overTcp, getParam, udp>>

\* writePlay (and EnableClientSideScale), writeRecord: the handshake is complete
PlayAnswered ==
  /\ asking \in {"play", "record"}
  /\ Answered(asking, "") /\ errChan' = "nil"
  /\ UNCHANGED <<todo, overTcp, getParam, udp>>

-----------------------------------------------------------------------------
(* Start's caller                                                          *)

\* The handshake succeeded: the read loop and the watcher start
StartReturnsOk ==
  /\ starter = "waiting" /\ errChan = "nil"
  /\ starter' = "ok" /\ loop' = "reading"
  /\ UNCHANGED <<client, asking, todo, retried, overTcp, getParam, conn, connDone, once, udp,
                 errChan, baseDone, seen, told>>

\* The handshake failed, or ctx.Done() came first: the command session is
\* disposed by doContext, both by Start
StartReturnsErr ==
  /\ starter = "waiting"
  /\ errChan = "error" \/ client.timeout
  /\ starter' = "failed" /\ DisposeSession
  /\ UNCHANGED <<client, asking, todo, retried, overTcp, getParam, errChan, seen, told,
                 loop>>

\* The owner ends the session
OwnerDispose ==
  /\ starter = "ok" /\ "session" \notin once
  /\ DisposeSession
  /\ UNCHANGED <<client, starter, asking, todo, retried, overTcp, getParam, errChan,
                 seen, told, loop>>

-----------------------------------------------------------------------------
(* The read loop and the watcher                                           *)

\* A read or a GET_PARAMETER fails, because the peer or a dispose closed the
\* connection; the deferred dispose finds it closed
LoopFails ==
  /\ loop = "reading"
  /\ CloseConn("error") /\ loop' = "ended" /\ once' = once \cup {"command"}
  /\ UNCHANGED <<client, starter, asking, todo, retried, overTcp, getParam, udp,
                 errChan, baseDone, seen, told>>

\* The loop returns although the connection is healthy, and its deferred dispose
\* closes it: a byte arrives that only FIN was expected instead of (UDP without
\* GET_PARAMETER), or an answer to GET_PARAMETER is refused or cannot be parsed
LoopReturns ==
  /\ loop = "reading" /\ conn = "open"
  /\ ~overTcp \/ getParam
  /\ DisposeCommand /\ loop' = "ended" /\ once' = once \cup {"command"}
  /\ UNCHANGED <<client, starter, asking, todo, retried, overTcp, getParam, udp,
                 errChan, baseDone, seen, told>>

\* readInterleaved puts a byte that is not '$' back and the loop reads it again,
\* for good: nothing else consumes it when GET_PARAMETER is not supported
LoopSpins ==
  /\ loop = "reading" /\ conn = "open" /\ overTcp /\ ~getParam
  /\ loop' = "spinning"
  /\ UNCHANGED <<client, starter, asking, todo, retried, overTcp, getParam, conn, connDone,
                 once, udp, errChan, baseDone, seen, told>>

\* The watcher has received this end; it tells the owner after the second
WatcherTells(end) ==
  /\ seen' = seen \cup {end}
  /\ told' = (seen' = {"command", "base"})

WatchCommandOnly ==
  /\ starter = "ok" /\ connDone # "empty" /\ "command" \notin seen
  /\ WatcherTells("command")
  /\ UNCHANGED <<client, starter, asking, todo, retried, overTcp, getParam, conn, connDone,
                 once, udp, errChan, baseDone, loop>>

\* <-cmdSession.WaitChan(): the media session is disposed after an error only
WatchCommand ==
  /\ starter = "ok" /\ connDone # "empty" /\ "command" \notin seen
  /\ WatcherTells("command")
  /\ IF connDone = "error"
     THEN DisposeBase /\ once' = once \cup {"base"}
     ELSE UNCHANGED <<udp, baseDone, once>>
  /\ UNCHANGED <<client, starter, asking, todo, retried, overTcp, getParam, conn, connDone,
                 errChan, loop>>

\* <-baseInSession.WaitChan(): always nil
WatchBase ==
  /\ starter = "ok" /\ baseDone /\ "base" \notin seen
  /\ WatcherTells("base")
  /\ UNCHANGED <<client, starter, asking, todo, retried, overTcp, getParam, conn, connDone,
                 once, udp, errChan, baseDone, loop>>

ClientNext ==
  \/ ClientStart \/ ClientDial \/ RequestFails \/ RequestRefused
  \/ OptionsAnswered \/ DescribeAnswered \/ AnnounceAnswered
  \/ SetupUdpAnswered \/ SetupTcpAnswered \/ SetupUnsupported \/ PlayAnswered
  \/ StartReturnsOk \/ StartReturnsErr \/ OwnerDispose
  \/ LoopFails \/ LoopReturns \/ LoopSpins \/ WatchCommand \/ WatchBase

\* The watcher is a goroutine that only waits for its two channels
ClientFairness == WF_clientVars(WatchCommand) /\ WF_clientVars(WatchBase)

ClientSpec == ClientInit /\ [][ClientNext]_clientVars /\ ClientFairness

-----------------------------------------------------------------------------
(* Properties                                                              *)

\* The owner hears of the end of a session only when nothing of it is left: the
\* connection is closed and the media session holds no socket, in whatever order
\* the peer, the read loop, the watcher and the owner ended its halves
\* (client_pull_session.go, "tell the upper layer after all resources are gone").
ReleasedBeforeTold == told => conn = "closed" /\ udp = {}

\* The read loop itself has closed a healthy connection, with the nil that is otherwise
\* the owner's (LoopReturns): the watcher does not dispose of the media session, and
\* nobody is told before the owner ends the session.
ClosedByLoop == connDone = "nil" /\ "session" \notin once

\* The end of the command connection of a session that started is reported, whoever
\* caused it and however the watcher, the read loop and the owner interleave: the group
\* behind it is waiting on WaitChan and does not otherwise notice.  The code has one
\* exception, ClosedByLoop, against client_pull_session.go ("when one resource is gone
\* the others go too").
EndIsTold == (starter = "ok" /\ conn = "closed" /\ ~ClosedByLoop) ~> told

=============================================================================
