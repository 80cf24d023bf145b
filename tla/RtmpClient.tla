----------------------------- MODULE RtmpClient -----------------------------
(***************************************************************************)
(* An RTMP client session of pkg/rtmp (ClientSession under PullSession and *)
(* PushSession): Start's caller, and the goroutine that dials, shakes      *)
(* hands, sends connect and then reads messages until the session ends.    *)
(* A server that wants authentication makes the read loop close the        *)
(* connection and connect again from inside the message handler, so one    *)
(* session may use several connections; WaitChan is that of the newest.    *)
(***************************************************************************)
EXTENDS Naturals

CONSTANTS
  RtmpClients, \* the sessions to choose from: [role, timeout] with role "pull"
               \* or "push", timeout whether DoTimeoutMs is not zero
  MaxAuths     \* bound: how often the server asks for authentication

ASSUME RtmpClientsAssumption ==
  /\ \A c \in RtmpClients : c.role \in {"pull", "push"} /\ c.timeout \in BOOLEAN
  /\ MaxAuths \in Nat

VARIABLES
  rclient,   \* the session, one of RtmpClients
  rstarter,  \* Start's caller: "new", "waiting", "ok" or "failed"
  rtask,     \* the goroutine: "dial", "handshake", "loop", "" when it has ended
  nested,    \* it is inside the message handler of an older connection's loop
  sent,      \* commands written on this connection
  rconn,     \* the newest connection: "none", "open" or "closed"
  rdone,     \* what its Done() holds: "empty", "nil" or "error"
  ronce,     \* disposeOnce has run
  rerr,      \* errChan holds an error
  rresult,   \* doResultChan was written (hasNotifyDoResultSucc)
  auths,     \* history: connections given up for authentication ...
  reauth,    \* ... one of them after the stream had started
  holds,     \* the owner's WaitChan(): "none", that of the "newest" connection
             \* or that of an "older" one, which is closed
  rtold      \* the owner has received from it

rtmpClientVars == <<rclient, rstarter, rtask, nested, sent, rconn, rdone, ronce, rerr, rresult,
                    auths, reauth, holds, rtold>>

RtmpClientInit ==
  /\ rclient \in RtmpClients
  /\ rstarter = "new" /\ rtask = "" /\ nested = FALSE /\ sent = {}
  /\ rconn = "none" /\ rdone = "empty" /\ ronce = FALSE /\ rerr = FALSE /\ rresult = FALSE
  /\ auths = 0 /\ reauth = FALSE /\ holds = "none" /\ rtold = FALSE

-----------------------------------------------------------------------------
\* connection.Close, or its first failing read or write
CloseRtmp(err) ==
  /\ rconn' = IF rconn = "open" THEN "closed" ELSE rconn
  /\ rdone' = IF rconn = "open" THEN err ELSE rdone

\* ClientSession.dispose: once, on the connection there is at that moment
DisposeRtmp ==
  /\ ronce' = TRUE
  /\ IF ronce THEN UNCHANGED <<rconn, rdone>> ELSE CloseRtmp("nil")

\* Start: go connect()
RtmpStart ==
  /\ rstarter = "new"
  /\ rstarter' = "waiting" /\ rtask' = "dial"
  /\ UNCHANGED <<rclient, nested, sent, rconn, rdone, ronce, rerr, rresult, auths, reauth,
                 holds, rtold>>

\* tcpConnect: a new connection replaces the old one, disposed or not
RtmpDial ==
  /\ rtask = "dial"
  /\ rconn' = "open" /\ rdone' = "empty" /\ sent' = {} /\ rtask' = "handshake"
  /\ UNCHANGED <<rclient, rstarter, nested, ronce, rerr, rresult, auths, reauth, holds, rtold>>

\* handshake, writeChunkSize, writeConnect: then the read loop
RtmpHandshake ==
  /\ rtask = "handshake" /\ rconn = "open"
  /\ sent' = {"connect"} /\ rtask' = "loop"
  /\ UNCHANGED <<rclient, rstarter, nested, rconn, rdone, ronce, rerr, rresult, auths, reauth,
                 holds, rtold>>

\* One of connect's steps before the loop fails: the error goes to errChan.  An
\* enclosing loop then goes on reading its old connection, which is closed, and
\* disposes of the session.
RtmpConnectFails ==
  /\ rtask \in {"dial", "handshake"}
  /\ rtask' = "" /\ rerr' = TRUE
  /\ \/ rtask = "handshake" /\ CloseRtmp("error") /\ ronce' = (ronce \/ nested)
     \/ nested /\ DisposeRtmp
     \/ ~nested /\ UNCHANGED <<ronce, rconn, rdone>>
  /\ UNCHANGED <<rclient, rstarter, nested, sent, rresult, auths, reauth, holds, rtold>>

Reading == rtask = "loop" /\ rconn = "open"

\* doResultMessage: _result of connect, then of createStream
RtmpResult ==
  /\ Reading
  /\ \/ "connect" \in sent /\ sent' = sent \cup {"createStream"}
     \/ "createStream" \in sent /\ sent' = sent \cup {"stream"}
  /\ UNCHANGED <<rclient, rstarter, rtask, nested, rconn, rdone, ronce, rerr, rresult, auths,
                 reauth, holds, rtold>>

\* notifyDoResultSucc: only the first is reported
NotifyDoResultSucc == ~rresult /\ rresult' = TRUE

\* doOnStatusMessage: NetStream.Play.Start or NetStream.Publish.Start
RtmpStatus ==
  /\ Reading /\ "stream" \in sent
  /\ NotifyDoResultSucc
  /\ UNCHANGED <<rclient, rstarter, rtask, nested, sent, rconn, rdone, ronce, rerr, auths,
                 reauth, holds, rtold>>

\* doErrorMessage, dealErrorMessage: a push session is asked to authenticate,
\* closes the connection and connects again with the answer
RtmpNeedAuth ==
  /\ Reading /\ rclient.role = "push" /\ auths < MaxAuths
  /\ CloseRtmp("nil")
  /\ rtask' = "dial" /\ nested' = TRUE /\ auths' = auths + 1 /\ reauth' = (reauth \/ rresult)
  /\ holds' = IF holds = "newest" THEN "older" ELSE holds
  /\ UNCHANGED <<rclient, rstarter, sent, ronce, rerr, rresult, rtold>>

\* A read fails, or a message is malformed, unknown or an error doMsg returns:
\* runReadLoop disposes of the session, and so would the enclosing loops
RtmpLoopEnds ==
  /\ rtask = "loop"
  /\ rtask' = "" /\ ronce' = TRUE
  /\ \/ CloseRtmp("error")
     \/ ~ronce /\ CloseRtmp("nil")
     \/ ronce /\ rconn = "open" /\ UNCHANGED <<rconn, rdone>>
  /\ UNCHANGED <<rclient, rstarter, nested, sent, rerr, rresult, auths, reauth, holds, rtold>>

-----------------------------------------------------------------------------
\* doContext: <-doResultChan
RtmpStartOk ==
  /\ rstarter = "waiting" /\ rresult
  /\ rstarter' = "ok"
  /\ UNCHANGED <<rclient, rtask, nested, sent, rconn, rdone, ronce, rerr, rresult, auths,
                 reauth, holds, rtold>>

\* doContext: <-errChan, or ctx.Done()
RtmpStartErr ==
  /\ rstarter = "waiting" /\ (rerr \/ rclient.timeout)
  /\ rstarter' = "failed" /\ DisposeRtmp
  /\ UNCHANGED <<rclient, rtask, nested, sent, rerr, rresult, auths, reauth, holds, rtold>>

RtmpOwnerDispose ==
  /\ rstarter = "ok" /\ ~ronce
  /\ DisposeRtmp
  /\ UNCHANGED <<rclient, rstarter, rtask, nested, sent, rerr, rresult, auths, reauth, holds,
                 rtold>>

\* The owner of a started session calls WaitChan() ...
RtmpWaitChan ==
  /\ rstarter = "ok" /\ holds = "none"
  /\ holds' = "newest"
  /\ UNCHANGED <<rclient, rstarter, rtask, nested, sent, rconn, rdone, ronce, rerr, rresult,
                 auths, reauth, rtold>>

\* ... and receives
RtmpTold ==
  /\ ~rtold
  /\ holds = "older" \/ (holds = "newest" /\ rdone # "empty")
  /\ rtold' = TRUE
  /\ UNCHANGED <<rclient, rstarter, rtask, nested, sent, rconn, rdone, ronce, rerr, rresult,
                 auths, reauth, holds>>

RtmpClientNext ==
  \/ RtmpStart \/ RtmpDial \/ RtmpHandshake \/ RtmpConnectFails
  \/ RtmpResult \/ RtmpStatus \/ RtmpNeedAuth \/ RtmpLoopEnds
  \/ RtmpStartOk \/ RtmpStartErr \/ RtmpOwnerDispose \/ RtmpWaitChan \/ RtmpTold

RtmpClientSpec == RtmpClientInit /\ [][RtmpClientNext]_rtmpClientVars

-----------------------------------------------------------------------------
(* Properties                                                              *)

\* The end an owner is told of is the end of the session: its connection is
\* closed, however many connections authentication took before the stream
\* started.  (A server that asks for authentication once more after that ends
\* the session for its owner and yet gives it a new connection.)
RtmpEndIsEnd == rtold /\ ~reauth => rconn = "closed"

=============================================================================
