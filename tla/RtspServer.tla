----------------------------- MODULE RtspServer -----------------------------
(***************************************************************************)
(* The server side of RTSP (pkg/rtsp Server, ServerCommandSession,         *)
(* PubSession, SubSession) and its traffic with one group (pkg/logic).     *)
(* Each connection is handled by one goroutine: it reads requests, which   *)
(* make and register publishing and playing sessions, until the connection *)
(* ends, and then takes the session it still knows out of the group.  The  *)
(* group answers from other goroutines: a publisher's SDP reaches it on a  *)
(* goroutine of its own (BaseInSession.SetObserver) and is written to      *)
(* every waiting DESCRIBE, and its timer disposes of idle sessions.        *)
(*                                                                         *)
(* A session is <<connection, number>>.  The group's other inputs (an RTMP *)
(* publisher, a relay pull) are one input called Other, whose SDP comes    *)
(* from the remuxer or from the pull.                                      *)
(***************************************************************************)
EXTENDS Naturals, Functions

CONSTANTS
  RtspConns,   \* connections
  MaxAsked,    \* bound: ANNOUNCE and DESCRIBE requests on one connection ...
  MaxSessions  \* ... and on all connections

ASSUME RtspServerAssumption ==
  /\ MaxAsked \in Nat \ {0} /\ MaxSessions \in Nat
  /\ RtspConns \cap {"other", "none"} = {}

VARIABLES
  at,        \* by connection: "new", "loop", "answer" (handleDescribe has the SDP
             \* and has not written it), "end" (left the loop) or "gone"
  open,      \* connections that are not closed
  asked,     \* by connection: sessions made so far
  pub,       \* by connection: pubSession, as a number, 0 for nil ...
  sub,       \* ... and subSession
  input,     \* the group's input: a session, Other or NoInput
  viewers,   \* rtspSubSessionSet
  sdpOf,     \* whose SDP sdpCtx is, NoInput for nil
  stage,     \* by session: SubSession.Stage
  announcing, \* publishers whose OnSdp goroutine has not run
  sockets,   \* sessions that hold UDP sockets
  ended,     \* sessions whose media session has been disposed of
  late       \* history: sessions that were given sockets after that

rtspVars == <<at, open, asked, pub, sub, input, viewers, sdpOf, stage, announcing, sockets,
              ended, late>>

Numbers == 1 .. MaxAsked
Sessions == RtspConns \X Numbers
Other == <<"other", 0>>
NoInput == <<"none", 0>>

ReadDescribe == 0
WriteSdp == 1
ReadPlay == 2

RtspServerInit ==
  /\ at = [k \in RtspConns |-> "new"] /\ open = {}
  /\ asked = [k \in RtspConns |-> 0]
  /\ pub = [k \in RtspConns |-> 0] /\ sub = [k \in RtspConns |-> 0]
  /\ input = NoInput /\ viewers = {} /\ sdpOf = NoInput
  /\ stage = [s \in Sessions |-> ReadDescribe]
  /\ announcing = {} /\ sockets = {} /\ ended = {} /\ late = {}

-----------------------------------------------------------------------------
(* The group                                                               *)

GroupUnchanged == UNCHANGED <<input, viewers, sdpOf, announcing>>

\* feedWaitRtspSubSessions: the waiting sessions are given the SDP through their
\* connections, each of which answers for the session it knows now
Fed(st) ==
  LET waiting == {s \in viewers : st[s] = ReadDescribe}
  IN [s \in Sessions |->
        IF s \in waiting \/ (sub[s[1]] = s[2] /\ \E w \in waiting : w[1] = s[1])
        THEN WriteSdp ELSE st[s]]

OnSdpFedNobody(s) ==
  /\ s \in announcing
  /\ announcing' = announcing \ {s}
  /\ sdpOf' = s
  /\ UNCHANGED <<at, open, asked, pub, sub, input, viewers, stage, sockets, ended, late>>

\* Group.OnSdp on the goroutine of SetObserver: it does not look whether the
\* publisher is still the input
OnSdp(s) ==
  /\ s \in announcing
  /\ announcing' = announcing \ {s}
  /\ sdpOf' = s /\ stage' = Fed(stage)
  /\ UNCHANGED <<at, open, asked, pub, sub, input, viewers, sockets, ended, late>>

\* An input of another protocol joins, brings its SDP (onSdpFromRemux), and leaves
OtherJoins ==
  /\ input = NoInput
  /\ input' = Other
  /\ UNCHANGED <<at, open, asked, pub, sub, viewers, sdpOf, stage, announcing, sockets, ended,
                 late>>

OtherSdp ==
  /\ input = Other /\ sdpOf # Other
  /\ sdpOf' = Other /\ stage' = Fed(stage)
  /\ UNCHANGED <<at, open, asked, pub, sub, input, viewers, announcing, sockets, ended, late>>

OtherLeaves ==
  /\ input = Other
  /\ input' = NoInput /\ sdpOf' = NoInput
  /\ UNCHANGED <<at, open, asked, pub, sub, viewers, stage, announcing, sockets, ended, late>>

\* OnNewRtspPubSession: the group takes the publisher if it has no input; its
\* observer is told the SDP by a goroutine (SetObserver)
OnNewRtspPubSession(s) ==
  /\ input = NoInput
  /\ input' = s /\ announcing' = announcing \cup {s}

\* OnDelRtspPubSession: a publisher that is not the input does not remove the one
\* that is
OnDelRtspPubSession(s) ==
  IF input = s THEN input' = NoInput /\ sdpOf' = NoInput ELSE UNCHANGED <<input, sdpOf>>

\* OnNewRtspSubSessionDescribe: the session joins the viewers and the group's SDP
\* is read under one lock
OnNewRtspSubSessionDescribe(k, s) ==
  /\ viewers' = viewers \cup {s}
  /\ at' = [at EXCEPT ![k] = IF sdpOf # NoInput THEN "answer" ELSE "loop"]

\* OnDelRtspSubSession
OnDelRtspSubSession(s) == viewers' = viewers \ {s}

\* BaseInSession.dispose, BaseOutSession.dispose: once
DisposeMedia(s) ==
  /\ ended' = ended \cup {s}
  /\ sockets' = IF s \in ended THEN sockets ELSE sockets \ {s}

\* disposeInactiveSessions: PubSession.Dispose, SubSession.Dispose
DisposeInactive(s) ==
  /\ s = input \/ s \in viewers
  /\ s \in Sessions /\ s \notin ended
  /\ DisposeMedia(s) /\ open' = open \ {s[1]}
  /\ UNCHANGED <<at, asked, pub, sub, stage, late>> /\ GroupUnchanged

-----------------------------------------------------------------------------
(* A connection                                                            *)

\* Server.RunLoop, handleTcpConnect
Accept(k) ==
  /\ at[k] = "new"
  /\ at' = [at EXCEPT ![k] = "loop"] /\ open' = open \cup {k}
  /\ UNCHANGED <<asked, pub, sub, stage, sockets, ended, late>> /\ GroupUnchanged

\* The handler returns err (ok FALSE), or its answer cannot be written because the
\* connection is closed: the loop closes the connection and returns
AfterRequest(k, ok, then) ==
  LET goesOn == ok /\ k \in open
  IN /\ at' = [at EXCEPT ![k] = IF goesOn THEN then ELSE "end"]
     /\ open' = IF goesOn THEN open ELSE open \ {k}

\* TEARDOWN, a request or a packet that cannot be read, an interleaved packet
\* without a session, or the peer closes
LoopBreaks(k) ==
  /\ at[k] = "loop"
  /\ AfterRequest(k, FALSE, "")
  /\ UNCHANGED <<asked, pub, sub, stage, sockets, ended, late>> /\ GroupUnchanged

MayAsk(k) == asked[k] < MaxAsked /\ FoldFunction(+, 0, asked) < MaxSessions

\* handleAnnounce: a new PubSession replaces the one the connection knew; the
\* group or the authentication may refuse it
HandleAnnounce(k) ==
  LET s == <<k, asked[k] + 1>>
  IN /\ at[k] = "loop" /\ MayAsk(k)
     /\ asked' = [asked EXCEPT ![k] = @ + 1] /\ pub' = [pub EXCEPT ![k] = asked[k] + 1]
     /\ \/ OnNewRtspPubSession(s) /\ AfterRequest(k, TRUE, "loop")
        \/ AfterRequest(k, FALSE, "") /\ UNCHANGED <<input, announcing>>
     /\ UNCHANGED <<sub, viewers, sdpOf, stage, sockets, ended, late>>

\* handleDescribe: a new SubSession replaces the one the connection knew.  (A
\* request without credentials is answered with 401 and changes nothing.)
HandleDescribe(k) ==
  LET s == <<k, asked[k] + 1>>
  IN /\ at[k] = "loop" /\ MayAsk(k)
     /\ asked' = [asked EXCEPT ![k] = @ + 1] /\ sub' = [sub EXCEPT ![k] = asked[k] + 1]
     /\ \/ OnNewRtspSubSessionDescribe(k, s) /\ UNCHANGED open
        \/ AfterRequest(k, FALSE, "") /\ UNCHANGED viewers
     /\ UNCHANGED <<pub, input, sdpOf, stage, announcing, sockets, ended, late>>

\* feedSdp, by the handler of the DESCRIBE
AnswerDescribe(k) ==
  /\ at[k] = "answer"
  /\ stage' = [stage EXCEPT ![<<k, sub[k]>>] = WriteSdp]
  /\ AfterRequest(k, TRUE, "loop")
  /\ UNCHANGED <<asked, pub, sub, sockets, ended, late>> /\ GroupUnchanged

\* The session SETUP is for: the publisher if there is one
Current(k) == IF pub[k] # 0 THEN <<k, pub[k]>> ELSE <<k, sub[k]>>

\* handleSetup over UDP (initConnWithClientPort, SetupWithConn).  Without a session,
\* or for a track the SDP does not have, the new sockets are forgotten.
HandleSetup(k) ==
  LET s == Current(k)
  IN /\ at[k] = "loop"
     /\ \/ /\ s[2] # 0 /\ (pub[k] # 0 \/ stage[s] # ReadDescribe)
           /\ sockets' = sockets \cup {s}
           /\ late' = IF s \in ended THEN late \cup {s} ELSE late
           /\ AfterRequest(k, TRUE, "loop")
        \/ AfterRequest(k, FALSE, "") /\ UNCHANGED <<sockets, late>>
     /\ UNCHANGED <<asked, pub, sub, stage, ended>> /\ GroupUnchanged

\* handlePlay
HandlePlay(k) ==
  /\ at[k] = "loop"
  /\ IF sub[k] = 0
     THEN AfterRequest(k, FALSE, "") /\ UNCHANGED stage
     ELSE AfterRequest(k, TRUE, "loop") /\ stage' = [stage EXCEPT ![<<k, sub[k]>>] = ReadPlay]
  /\ UNCHANGED <<asked, pub, sub, sockets, ended, late>> /\ GroupUnchanged

ConnEndsKeepsViewer(k) ==
  /\ at[k] = "end"
  /\ at' = [at EXCEPT ![k] = "gone"]
  /\ IF pub[k] # 0 THEN OnDelRtspPubSession(Current(k)) ELSE UNCHANGED <<input, sdpOf>>
  /\ IF Current(k)[2] # 0 THEN DisposeMedia(Current(k)) ELSE UNCHANGED <<ended, sockets>>
  /\ UNCHANGED <<open, asked, pub, sub, viewers, stage, announcing, late>>

\* handleTcpConnect after RunLoop: OnDel of the publisher, or else of the viewer,
\* and its Dispose, which is spent if the group's timer came first
ConnEnds(k) ==
  /\ at[k] = "end"
  /\ at' = [at EXCEPT ![k] = "gone"]
  /\ IF pub[k] # 0
     THEN OnDelRtspPubSession(Current(k)) /\ UNCHANGED viewers
     ELSE OnDelRtspSubSession(Current(k)) /\ UNCHANGED <<input, sdpOf>>
  /\ IF Current(k)[2] # 0 THEN DisposeMedia(Current(k)) ELSE UNCHANGED <<ended, sockets>>
  /\ UNCHANGED <<open, asked, pub, sub, stage, announcing, late>>

RtspServerNext ==
  \/ \E k \in RtspConns :
       \/ Accept(k) \/ LoopBreaks(k) \/ HandleAnnounce(k) \/ HandleDescribe(k)
       \/ AnswerDescribe(k) \/ HandleSetup(k) \/ HandlePlay(k) \/ ConnEnds(k)
  \/ \E s \in Sessions : OnSdp(s) \/ DisposeInactive(s)
  \/ OtherJoins \/ OtherSdp \/ OtherLeaves

RtspServerSpec == RtspServerInit /\ [][RtspServerNext]_rtspVars

-----------------------------------------------------------------------------
(* Properties                                                              *)

\* A connection that asked for one session and is gone has left nothing behind,
\* whichever of the peer, the group's timer and a failing request ended it: its
\* session is neither the input nor a viewer of the group and holds no socket,
\* unless a SETUP came after the timer had disposed of it.
RtspConnLeaves ==
  \A k \in RtspConns :
    at[k] = "gone" /\ asked[k] <= 1 =>
      /\ input[1] # k /\ \A s \in viewers : s[1] # k
      /\ \A s \in sockets : s[1] = k => s \in late

\* No DESCRIBE is left without its answer once the group has an SDP: the session
\* is not waiting any more or its own handler is about to answer, although the
\* SDP comes on another goroutine than the request.
NoDescribeForgotten ==
  \A s \in viewers :
    sdpOf # NoInput /\ sub[s[1]] = s[2] /\ stage[s] = ReadDescribe => at[s[1]] = "answer"

=============================================================================
