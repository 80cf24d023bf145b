----------------------------- MODULE RtmpServer -----------------------------
(***************************************************************************)
(* The server side of RTMP (pkg/rtmp Server, ServerSession) and the groups *)
(* (pkg/logic) its sessions register in.  One goroutine per connection     *)
(* shakes hands, handles messages until one of them or the connection      *)
(* fails, and then takes the session out of the group it registered in,    *)
(* as the kind of session it is by then and under the name it has by then. *)
(***************************************************************************)
EXTENDS Naturals

CONSTANTS
  RtmpConns,    \* connections, each of them one ServerSession
  Names,        \* stream names, one group each
  MaxCommands   \* bound: publish and play commands on one connection

ASSUME RtmpServerAssumption == MaxCommands \in Nat \ {0} /\ "none" \notin RtmpConns

VARIABLES
  rat,        \* by connection: "new", "handshake", "loop", "end" or "gone"
  ropen,      \* connections that are not closed
  kind,       \* by connection: BaseType, "" before publish or play
  name,       \* by connection: streamName, NoName before
  byObserver, \* connections with DisposeByObserverFlag
  commands,   \* history: by connection, publish and play commands accepted
  publisher,  \* by name: rtmpPubSession of the group, NoConn for nil
  players     \* by name: rtmpSubSessionSet

rtmpVars == <<rat, ropen, kind, name, byObserver, commands, publisher, players>>

NoName == "none"
NoConn == "none"

RtmpServerInit ==
  /\ rat = [k \in RtmpConns |-> "new"] /\ ropen = {}
  /\ kind = [k \in RtmpConns |-> ""] /\ name = [k \in RtmpConns |-> NoName]
  /\ byObserver = {} /\ commands = [k \in RtmpConns |-> 0]
  /\ publisher = [n \in Names |-> NoConn] /\ players = [n \in Names |-> {}]

-----------------------------------------------------------------------------
\* Server.RunLoop, handleTcpConnect
RtmpAccept(k) ==
  /\ rat[k] = "new"
  /\ rat' = [rat EXCEPT ![k] = "handshake"] /\ ropen' = ropen \cup {k}
  /\ UNCHANGED <<kind, name, byObserver, commands, publisher, players>>

\* The goroutine stays in the loop, or the session is disposed of
StaysInLoop(k) == rat' = [rat EXCEPT ![k] = "loop"] /\ UNCHANGED ropen

Leaves(k) == rat' = [rat EXCEPT ![k] = "end"] /\ ropen' = ropen \ {k}

\* ServerSession.handshake
ServerHandshake(k) ==
  /\ rat[k] = "handshake"
  /\ (k \in ropen /\ StaysInLoop(k)) \/ Leaves(k)
  /\ UNCHANGED <<kind, name, byObserver, commands, publisher, players>>

\* The connection fails or is closed, a message is malformed, or an audio or video
\* message comes on a session that does not publish: doMsg returns the error, or
\* panics on the observer it does not have, and handleTcpConnect recovers
ReadLoopEnds(k) ==
  /\ rat[k] = "loop"
  /\ Leaves(k)
  /\ UNCHANGED <<kind, name, byObserver, commands, publisher, players>>

\* OnNewRtmpPubSession, OnNewRtmpSubSession: the group of the name takes the
\* session, or it is refused (a second publisher always is) and leaves with
\* DisposeByObserverFlag
OnNewRtmpPubSession(k, n) ==
  /\ publisher[n] = NoConn
  /\ publisher' = [publisher EXCEPT ![n] = k]
  /\ StaysInLoop(k) /\ UNCHANGED byObserver

OnNewRtmpSubSession(k, n) ==
  /\ players' = [players EXCEPT ![n] = @ \cup {k}]
  /\ StaysInLoop(k) /\ UNCHANGED byObserver

Refused(k) == byObserver' = byObserver \cup {k} /\ Leaves(k)

\* doPublish: the name and, after the answer is written, the kind are set before
\* the observer is asked
DoPublish(k, n) ==
  /\ rat[k] = "loop" /\ k \in ropen /\ commands[k] < MaxCommands
  /\ name' = [name EXCEPT ![k] = n] /\ kind' = [kind EXCEPT ![k] = "pub"]
  /\ commands' = [commands EXCEPT ![k] = @ + 1]
  /\ OnNewRtmpPubSession(k, n) \/ (Refused(k) /\ UNCHANGED publisher)
  /\ UNCHANGED players

\* doPlay
DoPlay(k, n) ==
  /\ rat[k] = "loop" /\ k \in ropen /\ commands[k] < MaxCommands
  /\ name' = [name EXCEPT ![k] = n] /\ kind' = [kind EXCEPT ![k] = "sub"]
  /\ commands' = [commands EXCEPT ![k] = @ + 1]
  /\ OnNewRtmpSubSession(k, n) \/ (Refused(k) /\ UNCHANGED players)
  /\ UNCHANGED publisher

\* disposeInactiveSessions, or a kick through the API: ServerSession.Dispose
DisposeRtmpServer(k) ==
  /\ k \in ropen
  /\ \E n \in Names : publisher[n] = k \/ k \in players[n]
  /\ ropen' = ropen \ {k}
  /\ UNCHANGED <<rat, kind, name, byObserver, commands, publisher, players>>

\* OnDelRtmpPubSession, OnDelRtmpSubSession: a publisher leaves its group only if
\* it is the group's input
OnDelRtmpPubSession(k) ==
  /\ publisher' = [n \in Names |->
                     IF name[k] = n /\ publisher[n] = k THEN NoConn ELSE publisher[n]]
  /\ UNCHANGED players

OnDelRtmpSubSession(k) ==
  /\ players' = [n \in Names |-> IF name[k] = n THEN players[n] \ {k} ELSE players[n]]
  /\ UNCHANGED publisher

\* handleTcpConnect after RunLoop, or after a panic: nobody is told when the
\* observer refused the session or it is of no kind
ServerSessionEnds(k) ==
  /\ rat[k] = "end"
  /\ rat' = [rat EXCEPT ![k] = "gone"]
  /\ \/ k \notin byObserver /\ kind[k] = "pub" /\ OnDelRtmpPubSession(k)
     \/ k \notin byObserver /\ kind[k] = "sub" /\ OnDelRtmpSubSession(k)
     \/ (k \in byObserver \/ kind[k] = "") /\ UNCHANGED <<publisher, players>>
  /\ UNCHANGED <<ropen, kind, name, byObserver, commands>>

RtmpServerNext ==
  \E k \in RtmpConns :
    \/ RtmpAccept(k) \/ ServerHandshake(k) \/ ReadLoopEnds(k) \/ ServerSessionEnds(k)
    \/ DisposeRtmpServer(k)
    \/ \E n \in Names : DoPublish(k, n) \/ DoPlay(k, n)

RtmpServerSpec == RtmpServerInit /\ [][RtmpServerNext]_rtmpVars

-----------------------------------------------------------------------------
(* Properties                                                              *)

\* A connection that sent one publish or play command and is gone is in no group,
\* in whatever order the peer, the group's timer, a refusal and the recovery of a
\* panic ended it: nothing keeps a stream's input slot for a dead publisher.
RtmpConnLeaves ==
  \A k \in RtmpConns :
    rat[k] = "gone" /\ commands[k] <= 1 =>
      \A n \in Names : publisher[n] # k /\ k \notin players[n]

=============================================================================
