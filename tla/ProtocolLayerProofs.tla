------------------------ MODULE ProtocolLayerProofs ------------------------
(* Machine-checked proofs about the client and server sessions of the       *)
(* protocol layer, the catalog an upper platform gets and the snapshot      *)
(* store, for every value of its constants.                                 *)
EXTENDS ProtocolLayer, SequenceTheorems, FiniteSetTheorems, TLAPS

-----------------------------------------------------------------------------
(* The parts of the layer                                                   *)

\* A step of the layer is, for each of these parts, a step of that part or none.
LEMMA PartSteps ==
  ASSUME [LayerNext]_layerVars
  PROVE  /\ [ClientNext]_clientVars /\ [RtmpClientNext]_rtmpClientVars
         /\ [RtspServerNext]_rtspVars /\ [RtmpServerNext]_rtmpVars
         /\ [CascadeNext]_cascadeVars
<1>1. CASE UNCHANGED layerVars
  BY <1>1 DEF layerVars
<1>2. CASE LayerNext
  BY <1>2 DEF LayerNext
<1>3. QED BY <1>1, <1>2

-----------------------------------------------------------------------------
(* The RTSP client                                                          *)

\* The handshake goroutine dials once and ends with its report; the connection and what
\* it leaves in Done() go together; nothing is disposed of and the watcher does not run
\* before Start has returned; and a session that started has no goroutine left that
\* could open another socket.
ClientInv ==
  /\ starter = "new" => asking = "" /\ errChan = "empty"
  /\ starter \in {"new", "waiting"} => once = {} /\ ~baseDone
  /\ starter = "new" \/ asking = "dial" => conn = "none"
  /\ asking # "" => errChan = "empty"
  /\ starter = "ok" => errChan = "nil"
  /\ connDone # "empty" => conn = "closed"
  /\ loop # "none" \/ seen # {} => starter = "ok"
  /\ "base" \in once => baseDone
  /\ starter = "ok" /\ baseDone => udp = {}
  /\ "command" \in seen => connDone # "empty"
  /\ "base" \in seen => baseDone
  /\ told => seen = {"command", "base"}

\* No step of an RTSP client session breaks it.
LEMMA ClientStep ==
  ASSUME ClientInv, [ClientNext]_clientVars
  PROVE  ClientInv'
<1>1. CASE UNCHANGED clientVars
  BY <1>1 DEF clientVars, ClientInv
<1>2. CASE ClientStart
  BY <1>2 DEF ClientStart, ClientInv
<1>3. CASE ClientDial
  BY <1>3 DEF ClientDial, ClientInv
<1>4. CASE RequestFails
  BY <1>4 DEF RequestFails, CloseConn, Requests, ClientInv
<1>5. CASE RequestRefused
  BY <1>5 DEF RequestRefused, ClientInv
<1>6. CASE OptionsAnswered
  BY <1>6 DEF OptionsAnswered, Answered, ClientInv
<1>7. CASE DescribeAnswered
  BY <1>7 DEF DescribeAnswered, Answered, ClientInv
<1>8. CASE AnnounceAnswered
  BY <1>8 DEF AnnounceAnswered, Answered, ClientInv
<1>9. CASE SetupUdpAnswered
  BY <1>9 DEF SetupUdpAnswered, AfterSetup, Answered, ClientInv
<1>10. CASE SetupTcpAnswered
  BY <1>10 DEF SetupTcpAnswered, AfterSetup, Answered, ClientInv
<1>11. CASE SetupUnsupported
  <2>1. \/ Answered("setup", "fallback") /\ UNCHANGED errChan
        \/ Answered("fallback", "") /\ errChan' = "error"
    BY <1>11 DEF SetupUnsupported
  <2>2. UNCHANGED <<todo, overTcp, getParam, udp>>
    BY <1>11 DEF SetupUnsupported
  <2>3. CASE Answered("setup", "fallback") /\ UNCHANGED errChan
    BY <2>2, <2>3 DEF Answered, ClientInv
  <2>4. CASE Answered("fallback", "") /\ errChan' = "error"
    BY <2>2, <2>4 DEF Answered, ClientInv
  <2>5. QED BY <2>1, <2>3, <2>4
<1>12. CASE PlayAnswered
  BY <1>12 DEF PlayAnswered, Answered, ClientInv
<1>13. CASE StartReturnsOk
  BY <1>13 DEF StartReturnsOk, ClientInv
<1>14. CASE StartReturnsErr
  BY <1>14 DEF StartReturnsErr, DisposeSession, DisposeCommand, DisposeBase, CloseConn, ClientInv
<1>15. CASE OwnerDispose
  BY <1>15 DEF OwnerDispose, DisposeSession, DisposeCommand, DisposeBase, CloseConn, ClientInv
<1>16. CASE LoopFails
  BY <1>16 DEF LoopFails, CloseConn, ClientInv
<1>17. CASE LoopReturns
  BY <1>17 DEF LoopReturns, DisposeCommand, CloseConn, ClientInv
<1>18. CASE LoopSpins
  BY <1>18 DEF LoopSpins, ClientInv
<1>19. CASE WatchCommand
  BY <1>19 DEF WatchCommand, WatcherTells, DisposeBase, ClientInv
<1>20. CASE WatchBase
  BY <1>20 DEF WatchBase, WatcherTells, ClientInv
<1>21. QED
  BY <1>1, <1>2, <1>3, <1>4, <1>5, <1>6, <1>7, <1>8, <1>9, <1>10, <1>11, <1>12, <1>13, <1>14,
     <1>15, <1>16, <1>17, <1>18, <1>19, <1>20 DEF ClientNext

-----------------------------------------------------------------------------
(* The RTMP client                                                          *)

\* The owner waits on a connection only once the stream has started, so a connection
\* that is given up before is none it waits on; the goroutine dials again after that
\* only for a late demand to authenticate; and Done() holds something exactly of a
\* connection that is closed.
RtmpClientInv ==
  /\ rstarter = "new" => rtask = "" /\ ~rresult
  /\ rstarter = "ok" => rresult
  /\ holds # "none" => rstarter = "ok"
  /\ holds \in {"none", "newest", "older"}
  /\ holds = "older" => reauth
  /\ rtask \in {"dial", "handshake"} /\ rresult => reauth
  /\ rdone # "empty" => rconn = "closed"
  /\ rtold => holds # "none" /\ (rdone # "empty" \/ reauth)

\* No step of an RTMP client session breaks it.
LEMMA RtmpClientStep ==
  ASSUME RtmpClientInv, [RtmpClientNext]_rtmpClientVars
  PROVE  RtmpClientInv'
<1>1. CASE UNCHANGED rtmpClientVars
  BY <1>1 DEF rtmpClientVars, RtmpClientInv
<1>2. CASE RtmpStart
  BY <1>2 DEF RtmpStart, RtmpClientInv
<1>3. CASE RtmpDial
  BY <1>3 DEF RtmpDial, RtmpClientInv
<1>4. CASE RtmpHandshake
  BY <1>4 DEF RtmpHandshake, RtmpClientInv
<1>5. CASE RtmpConnectFails
  BY <1>5 DEF RtmpConnectFails, DisposeRtmp, CloseRtmp, RtmpClientInv
<1>6. CASE RtmpResult
  BY <1>6 DEF RtmpResult, RtmpClientInv
<1>7. CASE RtmpStatus
  BY <1>7 DEF RtmpStatus, Reading, NotifyDoResultSucc, RtmpClientInv
<1>8. CASE RtmpNeedAuth
  BY <1>8 DEF RtmpNeedAuth, Reading, CloseRtmp, RtmpClientInv
<1>9. CASE RtmpLoopEnds
  BY <1>9 DEF RtmpLoopEnds, CloseRtmp, RtmpClientInv
<1>10. CASE RtmpStartOk
  BY <1>10 DEF RtmpStartOk, RtmpClientInv
<1>11. CASE RtmpStartErr
  BY <1>11 DEF RtmpStartErr, DisposeRtmp, CloseRtmp, RtmpClientInv
<1>12. CASE RtmpOwnerDispose
  BY <1>12 DEF RtmpOwnerDispose, DisposeRtmp, CloseRtmp, RtmpClientInv
<1>13. CASE RtmpWaitChan
  BY <1>13 DEF RtmpWaitChan, RtmpClientInv
<1>14. CASE RtmpTold
  BY <1>14 DEF RtmpTold, RtmpClientInv
<1>15. QED
  BY <1>1, <1>2, <1>3, <1>4, <1>5, <1>6, <1>7, <1>8, <1>9, <1>10, <1>11, <1>12, <1>13, <1>14
     DEF RtmpClientNext

-----------------------------------------------------------------------------
(* Theorems about client sessions                                           *)

\* The end the owner of a client session is told of is its end, whatever the order in
\* which the peer, the timeout, the read loop, the watcher and the owner end its parts,
\* and however often an RTMP server asks for authentication before the stream starts.
THEOREM EndsAreEnds == LayerSpec => []EndIsEnd
<1>1. LayerInit => ClientInv /\ RtmpClientInv
  BY DEF LayerInit, ClientInit, RtmpClientInit, ClientInv, RtmpClientInv
<1>2. ClientInv /\ RtmpClientInv /\ [LayerNext]_layerVars => ClientInv' /\ RtmpClientInv'
  BY PartSteps, ClientStep, RtmpClientStep
<1>3. ClientInv /\ RtmpClientInv => EndIsEnd
  BY DEF ClientInv, RtmpClientInv, EndIsEnd, ReleasedBeforeTold, RtmpEndIsEnd
<1>4. QED BY <1>1, <1>2, <1>3, PTL DEF LayerSpec

-----------------------------------------------------------------------------
(* The RTMP server                                                          *)

\* Every variable has its type.
RtmpTypeOK ==
  /\ rat \in [RtmpConns -> {"new", "handshake", "loop", "end", "gone"}]
  /\ kind \in [RtmpConns -> {"", "pub", "sub"}] /\ name \in [RtmpConns -> Names \cup {NoName}]
  /\ commands \in [RtmpConns -> Nat] /\ byObserver \subseteq RtmpConns
  /\ publisher \in [Names -> RtmpConns \cup {NoConn}]
  /\ players \in [Names -> SUBSET RtmpConns]

\* What a connection that sent one command at most has registered: itself, as what it
\* is and under the name it has, unless it is gone; a session that the observer refused
\* is on its way out.
InRegistry(k, n) ==
  commands[k] <= 1 =>
    /\ publisher[n] = k => /\ commands[k] = 1 /\ kind[k] = "pub" /\ name[k] = n
                           /\ k \notin byObserver /\ rat[k] # "gone"
    /\ k \in players[n] => /\ commands[k] = 1 /\ kind[k] = "sub" /\ name[k] = n
                           /\ k \notin byObserver /\ rat[k] # "gone"

RtmpServerInv ==
  /\ RtmpTypeOK /\ \A k \in byObserver : rat[k] \in {"end", "gone"}
  /\ \A k \in RtmpConns, n \in Names : InRegistry(k, n)

\* A step of one connection leaves what the groups have of the others alone.
LEMMA RegistryKept ==
  ASSUME RtmpServerInv, NEW k \in RtmpConns, NEW n \in Names,
         rat'[k] = "gone" => rat[k] = "gone",
         kind'[k] = kind[k], name'[k] = name[k], commands'[k] = commands[k],
         k \in byObserver' => k \in byObserver,
         publisher'[n] = k => publisher[n] = k, k \in players'[n] => k \in players[n]
  PROVE  InRegistry(k, n)'
<1>1. InRegistry(k, n)
  BY DEF RtmpServerInv
<1>2. QED BY <1>1 DEF InRegistry

\* No step of an RTMP server session breaks it.
LEMMA RtmpServerStep ==
  ASSUME RtmpServerInv, [RtmpServerNext]_rtmpVars
  PROVE  RtmpServerInv'
<1> USE RtmpServerAssumption DEF RtmpServerAssumption, NoConn
<1>1. RtmpTypeOK /\ \A k \in byObserver : rat[k] \in {"end", "gone"}
  BY DEF RtmpServerInv
<1>2. CASE UNCHANGED rtmpVars
  BY <1>2 DEF rtmpVars, RtmpServerInv, RtmpTypeOK, InRegistry
<1>3. ASSUME NEW k \in RtmpConns,
             RtmpAccept(k) \/ ServerHandshake(k) \/ ReadLoopEnds(k) \/ DisposeRtmpServer(k)
      PROVE  RtmpServerInv'
  <2>1. /\ UNCHANGED <<kind, name, byObserver, commands, publisher, players>>
        /\ \/ rat' = rat
           \/ rat[k] \in {"new", "handshake", "loop"}
              /\ \E x \in {"handshake", "loop", "end"} : rat' = [rat EXCEPT ![k] = x]
    <3>1. CASE RtmpAccept(k)
      BY <3>1 DEF RtmpAccept
    <3>2. CASE ServerHandshake(k) \/ ReadLoopEnds(k)
      BY <3>2 DEF ServerHandshake, ReadLoopEnds, StaysInLoop, Leaves
    <3>3. CASE DisposeRtmpServer(k)
      BY <3>3 DEF DisposeRtmpServer
    <3>4. QED BY <1>3, <3>1, <3>2, <3>3
  <2>2. RtmpTypeOK' /\ \A j \in byObserver' : rat'[j] \in {"end", "gone"}
    <3>1. rat' \in [RtmpConns -> {"new", "handshake", "loop", "end", "gone"}]
      BY <1>1, <2>1 DEF RtmpTypeOK
    <3>2. RtmpTypeOK'
      BY <1>1, <2>1, <3>1 DEF RtmpTypeOK
    <3>3. \A j \in RtmpConns : rat[j] \in {"end", "gone"} => rat'[j] = rat[j]
      BY <1>1, <2>1 DEF RtmpTypeOK
    <3>4. \A j \in byObserver' : rat'[j] \in {"end", "gone"}
      BY <1>1, <2>1, <3>3 DEF RtmpTypeOK
    <3>5. QED BY <3>2, <3>4
  <2>3. \A j \in RtmpConns : rat'[j] = "gone" => rat[j] = "gone"
    BY <1>1, <2>1 DEF RtmpTypeOK
  <2>4. \A j \in RtmpConns, m \in Names : InRegistry(j, m)'
    BY <2>1, <2>3, RegistryKept
  <2>5. QED BY <2>2, <2>4 DEF RtmpServerInv
<1>4. ASSUME NEW k \in RtmpConns, ServerSessionEnds(k) PROVE RtmpServerInv'
  <2>1. rat' = [rat EXCEPT ![k] = "gone"] /\ UNCHANGED <<ropen, kind, name, byObserver, commands>>
    BY <1>4 DEF ServerSessionEnds
  <2> DEFINE Shrinks == \A n \in Names : /\ publisher'[n] \in {publisher[n], NoConn}
                                         /\ players'[n] \subseteq players[n]
             Typed == /\ publisher' \in [Names -> RtmpConns \cup {NoConn}]
                      /\ players' \in [Names -> SUBSET RtmpConns]
  <2>2. Shrinks /\ Typed
    <3>1. CASE OnDelRtmpPubSession(k)
      <4>1. Typed
        BY <1>1, <3>1 DEF OnDelRtmpPubSession, RtmpTypeOK
      <4>2. Shrinks
        BY <1>1, <3>1 DEF OnDelRtmpPubSession, RtmpTypeOK
      <4>3. QED BY <4>1, <4>2
    <3>2. CASE OnDelRtmpSubSession(k)
      <4>1. Typed
        BY <1>1, <3>2 DEF OnDelRtmpSubSession, RtmpTypeOK
      <4>2. Shrinks
        BY <1>1, <3>2 DEF OnDelRtmpSubSession, RtmpTypeOK
      <4>3. QED BY <4>1, <4>2
    <3>3. CASE UNCHANGED <<publisher, players>>
      BY <1>1, <3>3 DEF RtmpTypeOK
    <3>4. QED BY <1>4, <3>1, <3>2, <3>3 DEF ServerSessionEnds
  <2>3. publisher' \in [Names -> RtmpConns \cup {NoConn}] /\ players' \in [Names -> SUBSET RtmpConns]
    BY <2>2
  <2>4. RtmpTypeOK' /\ \A j \in byObserver' : rat'[j] \in {"end", "gone"}
    BY <1>1, <2>1, <2>3 DEF RtmpTypeOK
  <2>5. ASSUME NEW n \in Names PROVE InRegistry(k, n)'
    <3>1. InRegistry(k, n)
      BY DEF RtmpServerInv
    <3>2. commands[k] <= 1 => publisher'[n] # k /\ k \notin players'[n]
      <4>1. CASE k \notin byObserver /\ kind[k] = "pub" /\ OnDelRtmpPubSession(k)
        BY <3>1, <4>1 DEF OnDelRtmpPubSession, InRegistry
      <4>2. CASE k \notin byObserver /\ kind[k] = "sub" /\ OnDelRtmpSubSession(k)
        BY <3>1, <4>2 DEF OnDelRtmpSubSession, InRegistry
      <4>3. CASE (k \in byObserver \/ kind[k] = "") /\ UNCHANGED <<publisher, players>>
        BY <3>1, <4>3 DEF InRegistry
      <4>4. QED BY <1>4, <4>1, <4>2, <4>3 DEF ServerSessionEnds
    <3>3. QED BY <2>1, <3>2 DEF InRegistry
  <2>6. ASSUME NEW j \in RtmpConns, j # k, NEW n \in Names PROVE InRegistry(j, n)'
    <3>1. rat'[j] = rat[j]
      BY <1>1, <2>1, <2>6 DEF RtmpTypeOK
    <3>2. publisher'[n] = j => publisher[n] = j
      BY <2>2
    <3>3. QED BY <2>1, <2>2, <3>1, <3>2, RegistryKept
  <2>7. QED BY <2>4, <2>5, <2>6 DEF RtmpServerInv
<1>5. ASSUME NEW k \in RtmpConns, NEW n \in Names, DoPublish(k, n) \/ DoPlay(k, n)
      PROVE  RtmpServerInv'
  <2>1. PICK t \in {"pub", "sub"} :
          /\ rat[k] = "loop" /\ kind' = [kind EXCEPT ![k] = t] /\ name' = [name EXCEPT ![k] = n]
          /\ commands' = [commands EXCEPT ![k] = @ + 1]
          /\ t = "pub" => players' = players
                          /\ (OnNewRtmpPubSession(k, n) \/ (Refused(k) /\ UNCHANGED publisher))
          /\ t = "sub" => publisher' = publisher
                          /\ (OnNewRtmpSubSession(k, n) \/ (Refused(k) /\ UNCHANGED players))
    BY <1>5 DEF DoPublish, DoPlay
  <2>2. \/ rat' = [rat EXCEPT ![k] = "loop"] /\ byObserver' = byObserver
        \/ rat' = [rat EXCEPT ![k] = "end"] /\ byObserver' = byObserver \cup {k}
           /\ UNCHANGED <<publisher, players>>
    BY <2>1 DEF OnNewRtmpPubSession, OnNewRtmpSubSession, StaysInLoop, Refused, Leaves
  <2>3. \/ t = "pub" /\ publisher' = [publisher EXCEPT ![n] = k] /\ players' = players
        \/ t = "sub" /\ players' = [players EXCEPT ![n] = @ \cup {k}] /\ publisher' = publisher
        \/ UNCHANGED <<publisher, players>>
    BY <2>1 DEF OnNewRtmpPubSession, OnNewRtmpSubSession
  <2>4. /\ k \notin byObserver /\ commands[k] \in Nat /\ commands'[k] = commands[k] + 1
        /\ kind'[k] = t /\ name'[k] = n
    <3>1. k \notin byObserver
      BY <1>1, <2>1
    <3>2. commands[k] \in Nat /\ commands'[k] = commands[k] + 1
      BY <1>1, <2>1 DEF RtmpTypeOK
    <3>3. kind'[k] = t /\ name'[k] = n
      BY <1>1, <2>1 DEF RtmpTypeOK
    <3>4. QED BY <3>1, <3>2, <3>3
  <2>5. publisher' \in [Names -> RtmpConns \cup {NoConn}] /\ players' \in [Names -> SUBSET RtmpConns]
    <3>1. CASE t = "pub" /\ publisher' = [publisher EXCEPT ![n] = k] /\ players' = players
      BY <1>1, <3>1 DEF RtmpTypeOK
    <3>2. CASE t = "sub" /\ players' = [players EXCEPT ![n] = @ \cup {k}] /\ publisher' = publisher
      BY <1>1, <3>2 DEF RtmpTypeOK
    <3>3. CASE UNCHANGED <<publisher, players>>
      BY <1>1, <3>3 DEF RtmpTypeOK
    <3>4. QED BY <2>3, <3>1, <3>2, <3>3
  <2>6. /\ rat' \in [RtmpConns -> {"new", "handshake", "loop", "end", "gone"}]
        /\ byObserver' \subseteq RtmpConns /\ \A j \in byObserver' : rat'[j] \in {"end", "gone"}
        /\ rat'[k] # "gone" /\ (rat'[k] = "loop" => k \notin byObserver')
        /\ rat'[k] \in {"loop", "end"} /\ \A j \in RtmpConns : j # k => rat'[j] = rat[j]
    <3>1. rat \in [RtmpConns -> {"new", "handshake", "loop", "end", "gone"}]
          /\ byObserver \subseteq RtmpConns
      BY <1>1 DEF RtmpTypeOK
    <3>2. CASE rat' = [rat EXCEPT ![k] = "loop"] /\ byObserver' = byObserver
      BY <1>1, <2>4, <3>1, <3>2
    <3>3. CASE rat' = [rat EXCEPT ![k] = "end"] /\ byObserver' = byObserver \cup {k}
      BY <1>1, <2>4, <3>1, <3>3
    <3>4. QED BY <2>2, <3>2, <3>3
  <2>7. RtmpTypeOK'
    <3>1. kind' \in [RtmpConns -> {"", "pub", "sub"}] /\ name' \in [RtmpConns -> Names \cup {NoName}]
      BY <1>1, <2>1 DEF RtmpTypeOK
    <3>2. commands' \in [RtmpConns -> Nat]
      <4>1. \A j \in RtmpConns : commands[j] \in Nat
        BY <1>1 DEF RtmpTypeOK
      <4>2. commands' = [j \in RtmpConns |-> IF j = k THEN commands[k] + 1 ELSE commands[j]]
        BY <1>1, <2>1 DEF RtmpTypeOK
      <4>3. QED BY <4>1, <4>2
    <3>3. QED BY <2>5, <2>6, <3>1, <3>2 DEF RtmpTypeOK
  <2>8. ASSUME NEW m \in Names PROVE InRegistry(k, m)'
    <3>1. CASE commands[k] = 0
      <4>1. publisher[m] # k /\ k \notin players[m]
        BY <3>1 DEF RtmpServerInv, InRegistry
      <4>2. /\ publisher'[m] = k => t = "pub" /\ m = n /\ rat'[k] = "loop"
            /\ k \in players'[m] => t = "sub" /\ m = n /\ rat'[k] = "loop"
        BY <1>1, <2>2, <2>3, <4>1 DEF RtmpTypeOK
      <4>3. QED BY <2>4, <2>6, <3>1, <4>2 DEF InRegistry
    <3>2. CASE commands[k] # 0
      BY <2>4, <3>2 DEF InRegistry
    <3>3. QED BY <3>1, <3>2
  <2>9. ASSUME NEW j \in RtmpConns, j # k, NEW m \in Names PROVE InRegistry(j, m)'
    <3>1. /\ rat'[j] = rat[j] /\ kind'[j] = kind[j] /\ name'[j] = name[j]
          /\ commands'[j] = commands[j]
      <4>1. rat'[j] = rat[j]
        BY <2>6, <2>9
      <4>2. kind'[j] = kind[j] /\ name'[j] = name[j]
        BY <1>1, <2>1, <2>9 DEF RtmpTypeOK
      <4>3. commands'[j] = commands[j]
        BY <1>1, <2>1, <2>9 DEF RtmpTypeOK
      <4>4. QED BY <4>1, <4>2, <4>3
    <3>2. j \in byObserver' => j \in byObserver
      BY <2>2, <2>9
    <3>3. /\ publisher'[m] = j => publisher[m] = j
          /\ j \in players'[m] => j \in players[m]
      <4>1. CASE t = "pub" /\ publisher' = [publisher EXCEPT ![n] = k] /\ players' = players
        BY <1>1, <2>9, <4>1 DEF RtmpTypeOK
      <4>2. CASE t = "sub" /\ players' = [players EXCEPT ![n] = @ \cup {k}] /\ publisher' = publisher
        BY <1>1, <2>9, <4>2 DEF RtmpTypeOK
      <4>3. CASE UNCHANGED <<publisher, players>>
        BY <4>3
      <4>4. QED BY <2>3, <4>1, <4>2, <4>3
    <3>4. QED BY <3>1, <3>2, <3>3, RegistryKept
  <2>10. QED BY <2>6, <2>7, <2>8, <2>9 DEF RtmpServerInv
<1>6. QED BY <1>2, <1>3, <1>4, <1>5 DEF RtmpServerNext

-----------------------------------------------------------------------------
(* The RTSP server                                                          *)

\* Every variable has its type.
RtspTypeOK ==
  /\ at \in [RtspConns -> {"new", "loop", "answer", "end", "gone"}] /\ open \subseteq RtspConns
  /\ asked \in [RtspConns -> 0..MaxAsked]
  /\ pub \in [RtspConns -> 0..MaxAsked] /\ sub \in [RtspConns -> 0..MaxAsked]
  /\ input \in Sessions \cup {Other, NoInput} /\ sdpOf \in Sessions \cup {Other, NoInput}
  /\ viewers \subseteq Sessions /\ announcing \subseteq Sessions
  /\ stage \in [Sessions -> {ReadDescribe, WriteSdp, ReadPlay}]
  /\ sockets \subseteq Sessions /\ ended \subseteq Sessions /\ late \subseteq Sessions

\* Sessions are numbered as they are made.
Numbered ==
  /\ \A k \in RtspConns : pub[k] <= asked[k] /\ sub[k] <= asked[k]
  /\ input \in Sessions => input[2] <= asked[input[1]]
  /\ \A s \in viewers \cup sockets : s[2] <= asked[s[1]]

\* A connection that asked once knows the session it made, the group has it as what it
\* is, and sockets of a session that was disposed of are those of a late SETUP.
OneSession ==
  /\ \A k \in RtspConns : asked[k] <= 1 => pub[k] + sub[k] = asked[k]
  /\ input \in Sessions /\ asked[input[1]] <= 1 => pub[input[1]] = 1
  /\ \A s \in viewers : asked[s[1]] <= 1 => sub[s[1]] = 1
  /\ sockets \cap ended \subseteq late

RtspServerInv ==
  RtspTypeOK /\ Numbered /\ OneSession /\ RtspConnLeaves /\ NoDescribeForgotten

\* A session is a connection and a number; the other inputs are no sessions, and of no
\* connection.
LEMMA SessionPairs ==
  /\ \A s \in Sessions : s[1] \in RtspConns /\ s[2] \in Nat /\ 1 <= s[2] /\ s[2] <= MaxAsked
                        /\ s = <<s[1], s[2]>>
  /\ \A k \in RtspConns, n \in Nat : 1 <= n /\ n <= MaxAsked => <<k, n>> \in Sessions
  /\ Other \notin Sessions /\ NoInput \notin Sessions /\ Other # NoInput
  /\ \A k \in RtspConns : Other[1] # k /\ NoInput[1] # k
BY RtspServerAssumption DEF RtspServerAssumption, Sessions, Numbers, Other, NoInput

\* The numbers a connection keeps are numbers.
LEMMA ConnNumbers ==
  ASSUME RtspTypeOK, NEW k \in RtspConns
  PROVE  asked[k] \in Nat /\ asked[k] <= MaxAsked /\ pub[k] \in Nat /\ sub[k] \in Nat
BY RtspServerAssumption DEF RtspServerAssumption, RtspTypeOK

\* What the end of a request changes.
LEMMA AfterRequestShape ==
  ASSUME RtspTypeOK, NEW k \in RtspConns, NEW ok \in BOOLEAN, NEW then,
         ok => then \in {"loop", "answer"}, AfterRequest(k, ok, then)
  PROVE  /\ at' \in [RtspConns -> {"new", "loop", "answer", "end", "gone"}]
         /\ open' \subseteq RtspConns /\ at'[k] \in {"loop", "answer", "end"}
         /\ \A j \in RtspConns : j # k => at'[j] = at[j]
BY DEF AfterRequest, RtspTypeOK

\* The session a connection works on, if it has one.
LEMMA CurrentSession ==
  ASSUME RtspTypeOK, Numbered, NEW k \in RtspConns, Current(k)[2] # 0
  PROVE  Current(k) \in Sessions /\ Current(k)[1] = k /\ Current(k)[2] <= asked[k]
<1>1. /\ pub[k] \in Nat /\ sub[k] \in Nat /\ asked[k] <= MaxAsked /\ asked[k] \in Nat
      /\ MaxAsked \in Nat
  BY ConnNumbers, RtspServerAssumption DEF RtspServerAssumption
<1>2. pub[k] <= asked[k] /\ sub[k] <= asked[k]
  BY DEF Numbered
<1>3. PICK n \in Nat : Current(k) = <<k, n>> /\ n <= asked[k]
  BY <1>1, <1>2 DEF Current
<1>4. n # 0
  BY <1>3
<1>5. 1 <= n /\ n <= MaxAsked
  BY <1>1, <1>3, <1>4
<1>6. QED BY <1>3, <1>5, SessionPairs

\* What RtspConnLeaves says of one connection.
LeavesOf(k) ==
  at[k] = "gone" /\ asked[k] <= 1 =>
    /\ input[1] # k /\ \A s \in viewers : s[1] # k
    /\ \A s \in sockets : s[1] = k => s \in late

\* Nothing is registered for a connection that is gone.
LEMMA LeavesKept ==
  ASSUME NEW k, LeavesOf(k),
         at'[k] = "gone" => at[k] = "gone" /\ asked'[k] = asked[k],
         at'[k] = "gone" /\ input'[1] = k => input[1] = k,
         \A s \in viewers' : at'[k] = "gone" /\ s[1] = k => s \in viewers,
         \A s \in sockets' : at'[k] = "gone" /\ s[1] = k => s \in sockets,
         late \subseteq late'
  PROVE  LeavesOf(k)'
BY DEF LeavesOf

\* Numbers stay right when no session is made and the group only lets go of sessions.
LEMMA NumbersKept ==
  ASSUME RtspTypeOK, Numbered, OneSession, UNCHANGED <<asked, pub, sub>>,
         input' \in {input, NoInput, Other}, viewers' \subseteq viewers,
         \A s \in sockets' : s \in sockets \/ s[2] <= asked[s[1]],
         sockets' \cap ended' \subseteq late'
  PROVE  Numbered' /\ OneSession'
<1>1. input' \in Sessions => input' = input
  BY SessionPairs
<1>2. Numbered'
  BY <1>1 DEF Numbered
<1>3. OneSession'
  BY <1>1 DEF OneSession
<1>4. QED BY <1>2, <1>3

\* A DESCRIBE stays answered when nobody joins and no SDP arrives.
LEMMA DescribesKept ==
  ASSUME RtspTypeOK, NoDescribeForgotten, sub' = sub, viewers' \subseteq viewers,
         sdpOf' \in {sdpOf, NoInput},
         \A s \in Sessions : stage'[s] = ReadDescribe => stage[s] = ReadDescribe,
         \A k \in RtspConns : at[k] = "answer" =>
           at'[k] = "answer" \/ (sub[k] # 0 => stage'[<<k, sub[k]>>] # ReadDescribe)
  PROVE  NoDescribeForgotten'
<1> SUFFICES ASSUME NEW s \in viewers', sdpOf' # NoInput, sub'[s[1]] = s[2],
                    stage'[s] = ReadDescribe
             PROVE  at'[s[1]] = "answer"
  BY DEF NoDescribeForgotten
<1>1. /\ s \in Sessions /\ s \in viewers /\ s[1] \in RtspConns /\ s = <<s[1], s[2]>>
      /\ s[2] # 0
  <2>1. s \in Sessions /\ s \in viewers
    BY DEF RtspTypeOK
  <2>2. QED BY <2>1, SessionPairs
<1>2. sdpOf # NoInput /\ sub[s[1]] = s[2] /\ stage[s] = ReadDescribe
  BY <1>1
<1>3. at[s[1]] = "answer"
  BY <1>1, <1>2 DEF NoDescribeForgotten
<1>4. QED BY <1>1, <1>2, <1>3

\* The invariant, from what a step leaves alone.
LEMMA RtspFrame ==
  ASSUME RtspServerInv, RtspTypeOK',
         \A j \in RtspConns : at'[j] = "gone" => at[j] = "gone",
         UNCHANGED <<asked, pub, sub, viewers>>, input' \in {input, NoInput, Other},
         sockets' \subseteq sockets, sockets' \cap ended' \subseteq late', late \subseteq late',
         NoDescribeForgotten'
  PROVE  RtspServerInv'
<1>1. Numbered' /\ OneSession'
  BY NumbersKept DEF RtspServerInv
<1>2. ASSUME NEW j \in RtspConns PROVE LeavesOf(j)'
  <2>1. LeavesOf(j)
    BY DEF RtspServerInv, RtspConnLeaves, LeavesOf
  <2>2. input'[1] = j => input[1] = j
    BY SessionPairs
  <2>3. QED BY <2>1, <2>2, LeavesKept
<1>3. RtspConnLeaves'
  BY <1>2 DEF RtspConnLeaves, LeavesOf
<1>4. QED BY <1>1, <1>3 DEF RtspServerInv

\* An SDP is given to every viewer that waits for one.
LEMMA FedAll ==
  ASSUME RtspTypeOK
  PROVE  /\ Fed(stage) \in [Sessions -> {ReadDescribe, WriteSdp, ReadPlay}]
         /\ \A s \in viewers : Fed(stage)[s] # ReadDescribe
<1>1. WriteSdp # ReadDescribe /\ viewers \subseteq Sessions
      /\ stage \in [Sessions -> {ReadDescribe, WriteSdp, ReadPlay}]
  BY DEF WriteSdp, ReadDescribe, RtspTypeOK
<1>2. QED BY <1>1 DEF Fed

\* Steps of the group: an SDP, the other inputs, and its timer.
LEMMA GroupSteps ==
  ASSUME RtspServerInv,
         \/ OtherJoins \/ OtherSdp \/ OtherLeaves
         \/ \E s \in Sessions : OnSdp(s) \/ DisposeInactive(s)
  PROVE  RtspServerInv'
<1>1. RtspTypeOK /\ OneSession /\ NoDescribeForgotten
  BY DEF RtspServerInv
<1>2. ASSUME NEW s \in Sessions, OnSdp(s) PROVE RtspServerInv'
  <2>1. /\ UNCHANGED <<at, open, asked, pub, sub, input, viewers, sockets, ended, late>>
        /\ sdpOf' = s /\ stage' = Fed(stage) /\ announcing' \subseteq announcing
    BY <1>2 DEF OnSdp
  <2>2. RtspTypeOK'
    BY <1>1, <2>1, FedAll DEF RtspTypeOK
  <2>3. NoDescribeForgotten'
    BY <1>1, <2>1, FedAll DEF NoDescribeForgotten
  <2>4. sockets' \cap ended' \subseteq late'
    BY <1>1, <2>1 DEF OneSession
  <2>5. QED BY <2>1, <2>2, <2>3, <2>4, RtspFrame
<1>3. ASSUME OtherSdp PROVE RtspServerInv'
  <2>1. /\ UNCHANGED <<at, open, asked, pub, sub, input, viewers, announcing, sockets, ended, late>>
        /\ sdpOf' = Other /\ stage' = Fed(stage)
    BY <1>3 DEF OtherSdp
  <2>2. RtspTypeOK'
    BY <1>1, <2>1, FedAll DEF RtspTypeOK
  <2>3. NoDescribeForgotten'
    BY <1>1, <2>1, FedAll DEF NoDescribeForgotten
  <2>4. sockets' \cap ended' \subseteq late'
    BY <1>1, <2>1 DEF OneSession
  <2>5. QED BY <2>1, <2>2, <2>3, <2>4, RtspFrame
<1>4. ASSUME OtherJoins \/ OtherLeaves PROVE RtspServerInv'
  <2>1. /\ UNCHANGED <<at, open, asked, pub, sub, viewers, stage, announcing, sockets, ended, late>>
        /\ input' \in {NoInput, Other} /\ sdpOf' \in {sdpOf, NoInput}
    BY <1>4 DEF OtherJoins, OtherLeaves
  <2>2. RtspTypeOK'
    BY <1>1, <2>1 DEF RtspTypeOK
  <2>3. NoDescribeForgotten'
    BY <1>1, <2>1, DescribesKept
  <2>4. sockets' \cap ended' \subseteq late'
    BY <1>1, <2>1 DEF OneSession
  <2>5. QED BY <2>1, <2>2, <2>3, <2>4, RtspFrame
<1>5. ASSUME NEW s \in Sessions, DisposeInactive(s) PROVE RtspServerInv'
  <2>1. /\ UNCHANGED <<at, asked, pub, sub, stage, late, input, viewers, sdpOf, announcing>>
        /\ open' \subseteq open /\ ended' = ended \cup {s} /\ sockets' = sockets \ {s}
    BY <1>5 DEF DisposeInactive, DisposeMedia, GroupUnchanged
  <2>2. RtspTypeOK'
    BY <1>1, <2>1 DEF RtspTypeOK
  <2>3. NoDescribeForgotten'
    BY <1>1, <2>1, DescribesKept
  <2>4. sockets' \cap ended' \subseteq late'
    BY <1>1, <2>1 DEF OneSession
  <2>5. QED BY <2>1, <2>2, <2>3, <2>4, RtspFrame
<1>6. QED BY <1>2, <1>3, <1>4, <1>5

\* Steps of a connection that make no session.
LEMMA ConnSteps ==
  ASSUME RtspServerInv, NEW k \in RtspConns,
         Accept(k) \/ LoopBreaks(k) \/ AnswerDescribe(k) \/ HandlePlay(k)
  PROVE  RtspServerInv'
<1>1. RtspTypeOK /\ OneSession /\ NoDescribeForgotten
  BY DEF RtspServerInv
<1>2. /\ UNCHANGED <<asked, pub, sub, sockets, ended, late, input, viewers, sdpOf, announcing>>
      /\ at[k] # "gone"
  BY DEF Accept, LoopBreaks, AnswerDescribe, HandlePlay, GroupUnchanged
<1>3. /\ at' \in [RtspConns -> {"new", "loop", "answer", "end", "gone"}]
      /\ open' \subseteq RtspConns /\ at'[k] \in {"loop", "answer", "end"}
      /\ \A j \in RtspConns : j # k => at'[j] = at[j]
  <2>1. CASE Accept(k)
    BY <1>1, <2>1 DEF Accept, RtspTypeOK
  <2>2. CASE LoopBreaks(k)
    BY <1>1, <2>2, AfterRequestShape DEF LoopBreaks
  <2>3. CASE AnswerDescribe(k)
    BY <1>1, <2>3, AfterRequestShape DEF AnswerDescribe
  <2>4. CASE HandlePlay(k)
    BY <1>1, <2>4, AfterRequestShape DEF HandlePlay
  <2>5. QED BY <2>1, <2>2, <2>3, <2>4
<1>4. \/ stage' = stage /\ at[k] # "answer"
      \/ \E x \in {WriteSdp, ReadPlay} : stage' = [stage EXCEPT ![<<k, sub[k]>>] = x]
  BY DEF Accept, LoopBreaks, AnswerDescribe, HandlePlay
<1>5. WriteSdp # ReadDescribe /\ ReadPlay # ReadDescribe
  BY DEF WriteSdp, ReadDescribe, ReadPlay
<1>6. stage \in [Sessions -> {ReadDescribe, WriteSdp, ReadPlay}]
  BY <1>1 DEF RtspTypeOK
<1>7. sub[k] # 0 => <<k, sub[k]>> \in Sessions
  <2>1. sub[k] \in Nat /\ asked[k] \in Nat /\ asked[k] <= MaxAsked /\ sub[k] <= asked[k]
    BY <1>1, ConnNumbers DEF RtspServerInv, Numbered
  <2>2. sub[k] # 0 => 1 <= sub[k] /\ sub[k] <= MaxAsked
    BY <2>1, RtspServerAssumption DEF RtspServerAssumption
  <2>3. QED BY <2>1, <2>2, SessionPairs
<1>8. /\ stage' \in [Sessions -> {ReadDescribe, WriteSdp, ReadPlay}]
      /\ \A s \in Sessions : stage'[s] = ReadDescribe => stage[s] = ReadDescribe
      /\ at[k] = "answer" /\ sub[k] # 0 => stage'[<<k, sub[k]>>] # ReadDescribe
  BY <1>4, <1>5, <1>6, <1>7
<1>9. RtspTypeOK'
  BY <1>1, <1>2, <1>3, <1>8 DEF RtspTypeOK
<1>10. NoDescribeForgotten'
  <2>1. \A j \in RtspConns : at[j] = "answer" =>
          at'[j] = "answer" \/ (sub[j] # 0 => stage'[<<j, sub[j]>>] # ReadDescribe)
    BY <1>3, <1>8
  <2>2. QED BY <1>1, <1>2, <1>8, <2>1, DescribesKept
<1>11. \A j \in RtspConns : at'[j] = "gone" => at[j] = "gone"
  BY <1>3
<1>12. sockets' \cap ended' \subseteq late'
  BY <1>1, <1>2 DEF OneSession
<1>13. QED BY <1>2, <1>9, <1>10, <1>11, <1>12, RtspFrame

\* SETUP over UDP gives the session its sockets, and is late if that was disposed of.
LEMMA SetupStep ==
  ASSUME RtspServerInv, NEW k \in RtspConns, HandleSetup(k)
  PROVE  RtspServerInv'
<1>1. RtspTypeOK /\ Numbered /\ OneSession /\ NoDescribeForgotten
  BY DEF RtspServerInv
<1>2. UNCHANGED <<asked, pub, sub, stage, ended, input, viewers, sdpOf, announcing>> /\ at[k] = "loop"
  BY DEF HandleSetup, GroupUnchanged
<1>3. /\ at' \in [RtspConns -> {"new", "loop", "answer", "end", "gone"}]
      /\ open' \subseteq RtspConns /\ at'[k] \in {"loop", "answer", "end"}
      /\ \A j \in RtspConns : j # k => at'[j] = at[j]
  <2>1. AfterRequest(k, TRUE, "loop") \/ AfterRequest(k, FALSE, "")
    BY DEF HandleSetup
  <2>2. QED BY <1>1, <2>1, AfterRequestShape
<1>4. \/ UNCHANGED <<sockets, late>>
      \/ /\ Current(k)[2] # 0 /\ sockets' = sockets \cup {Current(k)}
         /\ late' = IF Current(k) \in ended THEN late \cup {Current(k)} ELSE late
  BY DEF HandleSetup
<1>5. /\ sockets' \subseteq Sessions /\ late' \subseteq Sessions /\ late \subseteq late'
      /\ sockets' \cap ended' \subseteq late'
      /\ \A s \in sockets' : s \in sockets \/ (s[1] = k /\ s[2] <= asked[s[1]])
  <2>1. sockets \subseteq Sessions /\ late \subseteq Sessions /\ sockets \cap ended \subseteq late
    BY <1>1 DEF RtspTypeOK, OneSession
  <2>2. CASE UNCHANGED <<sockets, late>>
    BY <1>2, <2>1, <2>2
  <2>3. CASE /\ Current(k)[2] # 0 /\ sockets' = sockets \cup {Current(k)}
             /\ late' = IF Current(k) \in ended THEN late \cup {Current(k)} ELSE late
    <3>1. Current(k) \in Sessions /\ Current(k)[1] = k /\ Current(k)[2] <= asked[k]
      BY <1>1, <2>3, CurrentSession
    <3>2. QED BY <1>2, <2>1, <2>3, <3>1
  <2>4. QED BY <1>4, <2>2, <2>3
<1>6. RtspTypeOK'
  BY <1>1, <1>2, <1>3, <1>5 DEF RtspTypeOK
<1>7. Numbered' /\ OneSession'
  BY <1>1, <1>2, <1>5, NumbersKept
<1>8. NoDescribeForgotten'
  <2>1. \A j \in RtspConns : at[j] = "answer" => at'[j] = "answer"
    BY <1>2, <1>3
  <2>2. QED BY <1>1, <1>2, <2>1, DescribesKept
<1>9. ASSUME NEW j \in RtspConns PROVE LeavesOf(j)'
  <2>1. LeavesOf(j)
    BY DEF RtspServerInv, RtspConnLeaves, LeavesOf
  <2>2. at'[j] = "gone" => at[j] = "gone" /\ j # k
    BY <1>2, <1>3
  <2>3. \A s \in sockets' : at'[j] = "gone" /\ s[1] = j => s \in sockets
    BY <1>5, <2>2
  <2>4. QED BY <1>2, <1>5, <2>1, <2>2, <2>3, LeavesKept
<1>10. RtspConnLeaves'
  BY <1>9 DEF RtspConnLeaves, LeavesOf
<1>11. QED BY <1>6, <1>7, <1>8, <1>10 DEF RtspServerInv

\* ANNOUNCE and DESCRIBE make a session: the next number of the connection.
LEMMA MakeStep ==
  ASSUME RtspServerInv, NEW k \in RtspConns, HandleAnnounce(k) \/ HandleDescribe(k)
  PROVE  RtspServerInv'
<1>1. RtspTypeOK /\ Numbered /\ OneSession /\ NoDescribeForgotten
  BY DEF RtspServerInv
<1>2. /\ at[k] = "loop" /\ asked[k] < MaxAsked /\ asked' = [asked EXCEPT ![k] = asked[k] + 1]
      /\ UNCHANGED <<sdpOf, stage, sockets, ended, late>>
  BY DEF HandleAnnounce, HandleDescribe, MayAsk
<1>3. PICK m \in Nat : m = asked[k] + 1
  BY <1>1, ConnNumbers
<1>4. <<k, m>> \in Sessions /\ m \in 0..MaxAsked /\ m >= 1 /\ asked[k] \in Nat
  <2>1. asked[k] \in Nat /\ MaxAsked \in Nat
    BY <1>1, ConnNumbers, RtspServerAssumption DEF RtspServerAssumption
  <2>2. 1 <= m /\ m <= MaxAsked
    BY <1>2, <1>3, <2>1
  <2>3. QED BY <2>1, <2>2, SessionPairs
<1>5. \/ pub' = [pub EXCEPT ![k] = m] /\ sub' = sub /\ viewers' = viewers
         /\ \/ input' = <<k, m>> /\ announcing' = announcing \cup {<<k, m>>}
            \/ UNCHANGED <<input, announcing>>
      \/ sub' = [sub EXCEPT ![k] = m] /\ pub' = pub /\ UNCHANGED <<input, announcing>>
         /\ \/ viewers' = viewers \cup {<<k, m>>} /\ (sdpOf # NoInput => at'[k] = "answer")
            \/ viewers' = viewers
  <2>1. CASE HandleAnnounce(k)
    BY <1>3, <2>1 DEF HandleAnnounce, OnNewRtspPubSession
  <2>2. CASE HandleDescribe(k)
    <3>1. at \in [RtspConns -> {"new", "loop", "answer", "end", "gone"}]
      BY <1>1 DEF RtspTypeOK
    <3>2. QED BY <1>3, <2>2, <3>1 DEF HandleDescribe, OnNewRtspSubSessionDescribe
  <2>3. QED BY <2>1, <2>2
<1>6. /\ at' \in [RtspConns -> {"new", "loop", "answer", "end", "gone"}]
      /\ open' \subseteq RtspConns /\ at'[k] \in {"loop", "answer", "end"}
      /\ \A j \in RtspConns : j # k => at'[j] = at[j]
  <2>1. CASE AfterRequest(k, TRUE, "loop") \/ AfterRequest(k, FALSE, "")
    BY <1>1, <2>1, AfterRequestShape
  <2>2. CASE OnNewRtspSubSessionDescribe(k, <<k, asked[k] + 1>>) /\ UNCHANGED open
    <3>1. at' = [at EXCEPT ![k] = IF sdpOf # NoInput THEN "answer" ELSE "loop"] /\ open' = open
      BY <2>2 DEF OnNewRtspSubSessionDescribe
    <3>2. QED BY <1>1, <3>1 DEF RtspTypeOK
  <2>3. QED BY <2>1, <2>2 DEF HandleAnnounce, HandleDescribe
<1>7. \A j \in RtspConns : asked'[j] = IF j = k THEN m ELSE asked[j]
  BY <1>1, <1>2, <1>3 DEF RtspTypeOK
<1>8. \A j \in RtspConns : j # k => pub'[j] = pub[j] /\ sub'[j] = sub[j]
  BY <1>1, <1>5 DEF RtspTypeOK
<1>9. (pub'[k] = m /\ sub'[k] = sub[k]) \/ (pub'[k] = pub[k] /\ sub'[k] = m)
  BY <1>1, <1>5 DEF RtspTypeOK
<1>10. RtspTypeOK'
  <2>1. asked' \in [RtspConns -> 0..MaxAsked]
    BY <1>1, <1>2, <1>3, <1>4 DEF RtspTypeOK
  <2>2. pub' \in [RtspConns -> 0..MaxAsked] /\ sub' \in [RtspConns -> 0..MaxAsked]
    BY <1>1, <1>4, <1>5 DEF RtspTypeOK
  <2>3. /\ input' \in Sessions \cup {Other, NoInput} /\ viewers' \subseteq Sessions
        /\ announcing' \subseteq Sessions
    BY <1>1, <1>4, <1>5 DEF RtspTypeOK
  <2>4. QED BY <1>1, <1>2, <1>6, <2>1, <2>2, <2>3 DEF RtspTypeOK
<1>11. /\ input' # input => input' = <<k, m>> /\ pub'[k] = m
       /\ \A s \in viewers' : s \in viewers \/ (s = <<k, m>> /\ sub'[k] = m)
  BY <1>1, <1>5 DEF RtspTypeOK
<1>12. ASSUME NEW j \in RtspConns
       PROVE  /\ asked[j] \in Nat /\ pub[j] \in Nat /\ sub[j] \in Nat /\ pub[j] <= asked[j]
              /\ sub[j] <= asked[j] /\ (asked[j] <= 1 => pub[j] + sub[j] = asked[j])
  BY <1>1, ConnNumbers DEF Numbered, OneSession
<1>13. \A j \in RtspConns : asked[j] <= asked'[j] /\ asked'[j] \in Nat
  BY <1>3, <1>7, <1>12
<1>14. Numbered'
  <2>1. \A j \in RtspConns : pub'[j] <= asked'[j] /\ sub'[j] <= asked'[j]
    <3>1. ASSUME NEW j \in RtspConns, j # k PROVE pub'[j] <= asked'[j] /\ sub'[j] <= asked'[j]
      BY <1>7, <1>8, <1>12, <3>1
    <3>2. pub'[k] <= asked'[k] /\ sub'[k] <= asked'[k]
      BY <1>3, <1>7, <1>9, <1>12
    <3>3. QED BY <3>1, <3>2
  <2>2. ASSUME NEW s \in Sessions, s[2] <= asked[s[1]] \/ s = <<k, m>> PROVE s[2] <= asked'[s[1]]
    <3>1. s[1] \in RtspConns /\ s[2] \in Nat
      BY SessionPairs
    <3>2. CASE s[2] <= asked[s[1]]
      BY <1>12, <1>13, <3>1, <3>2
    <3>3. CASE s = <<k, m>>
      BY <1>3, <1>7, <3>3
    <3>4. QED BY <2>2, <3>2, <3>3
  <2>3. input' \in Sessions => input'[2] <= asked'[input'[1]]
    BY <1>1, <1>11, <2>2 DEF Numbered
  <2>4. \A s \in viewers' \cup sockets' : s[2] <= asked'[s[1]]
    BY <1>1, <1>2, <1>11, <2>2, <1>4 DEF Numbered, RtspTypeOK
  <2>5. QED BY <2>1, <2>3, <2>4 DEF Numbered
<1>15. OneSession'
  <2>1. ASSUME NEW j \in RtspConns, asked'[j] <= 1 PROVE pub'[j] + sub'[j] = asked'[j]
    <3>1. CASE j # k
      BY <1>7, <1>8, <1>12, <2>1, <3>1
    <3>2. CASE j = k
      <4>1. asked[k] = 0 /\ m = 1
        BY <1>3, <1>4, <1>7, <2>1, <3>2
      <4>2. pub[k] = 0 /\ sub[k] = 0
        BY <1>12, <4>1
      <4>3. QED BY <1>7, <1>9, <3>2, <4>1, <4>2
    <3>3. QED BY <3>1, <3>2
  <2>2. ASSUME NEW s \in Sessions, s[2] <= asked[s[1]], asked'[s[1]] <= 1
        PROVE  s[1] # k /\ s[1] \in RtspConns /\ asked[s[1]] <= 1
    <3>1. s[1] \in RtspConns /\ s[2] \in Nat /\ 1 <= s[2]
      BY SessionPairs
    <3>2. QED BY <1>3, <1>7, <1>12, <2>2, <3>1
  <2>3. ASSUME input' \in Sessions, asked'[input'[1]] <= 1 PROVE pub'[input'[1]] = 1
    <3>1. CASE input' = input
      <4>1. input[2] <= asked[input[1]]
        BY <1>1, <2>3, <3>1 DEF Numbered
      <4>2. input[1] # k /\ input[1] \in RtspConns /\ asked[input[1]] <= 1
        BY <2>2, <2>3, <3>1, <4>1
      <4>3. QED BY <1>1, <1>8, <2>3, <3>1, <4>2 DEF OneSession
    <3>2. CASE input' # input
      <4>1. input' = <<k, m>> /\ pub'[k] = m
        BY <1>11, <3>2
      <4>2. QED BY <1>3, <1>4, <1>7, <2>3, <4>1
    <3>3. QED BY <3>1, <3>2
  <2>4. ASSUME NEW s \in viewers', asked'[s[1]] <= 1 PROVE sub'[s[1]] = 1
    <3>1. CASE s \in viewers
      <4>1. s \in Sessions /\ s[2] <= asked[s[1]]
        BY <1>1, <3>1 DEF Numbered, RtspTypeOK
      <4>2. s[1] # k /\ s[1] \in RtspConns /\ asked[s[1]] <= 1
        BY <2>2, <2>4, <4>1
      <4>3. QED BY <1>1, <1>8, <3>1, <4>2 DEF OneSession
    <3>2. CASE s \notin viewers
      <4>1. s = <<k, m>> /\ sub'[k] = m
        BY <1>11, <2>4, <3>2
      <4>2. QED BY <1>3, <1>4, <1>7, <2>4, <4>1
    <3>3. QED BY <3>1, <3>2
  <2>5. QED BY <1>1, <1>2, <2>1, <2>3, <2>4 DEF OneSession
<1>16. ASSUME NEW j \in RtspConns PROVE LeavesOf(j)'
  <2>1. LeavesOf(j)
    BY DEF RtspServerInv, RtspConnLeaves, LeavesOf
  <2>2. at'[j] = "gone" => at[j] = "gone" /\ j # k
    BY <1>2, <1>6
  <2>3. at'[j] = "gone" => asked'[j] = asked[j]
    BY <1>7, <2>2
  <2>4. at'[j] = "gone" /\ input'[1] = j => input[1] = j
    BY <1>11, <2>2
  <2>5. \A s \in viewers' : at'[j] = "gone" /\ s[1] = j => s \in viewers
    BY <1>11, <2>2
  <2>6. QED BY <1>2, <2>1, <2>2, <2>3, <2>4, <2>5, LeavesKept
<1>17. RtspConnLeaves'
  BY <1>16 DEF RtspConnLeaves, LeavesOf
<1>18. NoDescribeForgotten'
  <2> SUFFICES ASSUME NEW s \in viewers', sdpOf' # NoInput, sub'[s[1]] = s[2],
                      stage'[s] = ReadDescribe
               PROVE  at'[s[1]] = "answer"
    BY DEF NoDescribeForgotten
  <2>1. s \in Sessions /\ s[1] \in RtspConns /\ s[2] \in Nat
    BY <1>10, SessionPairs DEF RtspTypeOK
  <2>2. CASE s \in viewers /\ s[1] # k
    BY <1>1, <1>2, <1>6, <1>8, <2>1, <2>2 DEF NoDescribeForgotten
  <2>3. CASE s \in viewers /\ s[1] = k
    <3>1. s[2] <= asked[k]
      BY <1>1, <2>3 DEF Numbered
    <3>2. s[2] # m
      BY <1>3, <1>4, <2>1, <3>1
    <3>3. sub'[k] = sub[k]
      BY <1>9, <2>3, <3>2
    <3>4. at[k] = "answer"
      BY <1>1, <1>2, <2>3, <3>3 DEF NoDescribeForgotten
    <3>5. QED BY <1>2, <3>4
  <2>4. CASE s \notin viewers
    BY <1>2, <1>5, <2>4
  <2>5. QED BY <2>2, <2>3, <2>4
<1>19. QED BY <1>10, <1>14, <1>15, <1>17, <1>18 DEF RtspServerInv

\* The end of a connection takes the session it knows out of the group.
LEMMA EndStep ==
  ASSUME RtspServerInv, NEW k \in RtspConns, ConnEnds(k)
  PROVE  RtspServerInv'
<1> DEFINE c == Current(k)
<1>1. RtspTypeOK /\ Numbered /\ OneSession /\ NoDescribeForgotten
  BY DEF RtspServerInv
<1>2. /\ at[k] = "end" /\ at' = [at EXCEPT ![k] = "gone"]
      /\ UNCHANGED <<open, asked, pub, sub, stage, announcing, late>>
  BY DEF ConnEnds
<1>3. /\ pub[k] # 0 => /\ viewers' = viewers
                      /\ IF input = c THEN input' = NoInput /\ sdpOf' = NoInput
                         ELSE UNCHANGED <<input, sdpOf>>
      /\ pub[k] = 0 => viewers' = viewers \ {c} /\ UNCHANGED <<input, sdpOf>>
  BY DEF ConnEnds, OnDelRtspPubSession, OnDelRtspSubSession
<1>4. IF c[2] # 0 THEN /\ ended' = ended \cup {c}
                       /\ sockets' = IF c \in ended THEN sockets ELSE sockets \ {c}
      ELSE UNCHANGED <<ended, sockets>>
  BY DEF ConnEnds, DisposeMedia
<1>5. /\ input' \in {input, NoInput} /\ sdpOf' \in {sdpOf, NoInput} /\ viewers' \subseteq viewers
      /\ sockets' \subseteq sockets
  BY <1>3, <1>4
<1>6. at'[k] = "gone" /\ \A j \in RtspConns : j # k => at'[j] = at[j]
  BY <1>1, <1>2 DEF RtspTypeOK
<1>7. c[2] # 0 => c \in Sessions /\ c[1] = k /\ c[2] <= asked[k]
  BY <1>1, CurrentSession
<1>8. RtspTypeOK'
  <2>1. ended' \subseteq Sessions
    BY <1>1, <1>4, <1>7 DEF RtspTypeOK
  <2>2. at' \in [RtspConns -> {"new", "loop", "answer", "end", "gone"}]
    BY <1>1, <1>2 DEF RtspTypeOK
  <2>3. QED BY <1>1, <1>2, <1>5, <2>1, <2>2 DEF RtspTypeOK
<1>9. sockets' \cap ended' \subseteq late'
  BY <1>1, <1>2, <1>4 DEF OneSession
<1>10. Numbered' /\ OneSession'
  BY <1>1, <1>2, <1>5, <1>9, NumbersKept
<1>11. NoDescribeForgotten'
  BY <1>1, <1>2, <1>5, <1>6, DescribesKept
<1>12. ASSUME NEW j \in RtspConns, j # k PROVE LeavesOf(j)'
  <2>1. LeavesOf(j)
    BY DEF RtspServerInv, RtspConnLeaves, LeavesOf
  <2>2. input'[1] = j => input[1] = j
    BY <1>5, SessionPairs
  <2>3. QED BY <1>2, <1>5, <1>6, <1>12, <2>1, <2>2, LeavesKept
<1>13. LeavesOf(k)'
  <2> SUFFICES ASSUME asked[k] <= 1
               PROVE  /\ input'[1] # k /\ \A s \in viewers' : s[1] # k
                      /\ \A s \in sockets' : s[1] = k => s \in late'
    BY <1>2 DEF LeavesOf
  \* whatever session of the connection there is, it is the one the connection knows
  <2>1. ASSUME NEW s \in Sessions, s[1] = k, s[2] <= asked[k]
        PROVE  s = c /\ c[2] # 0 /\ pub[k] + sub[k] = 1 /\ pub[k] \in Nat /\ sub[k] \in Nat
    <3>1. s[2] \in Nat /\ 1 <= s[2] /\ s = <<s[1], s[2]>>
      BY SessionPairs
    <3>2. asked[k] \in Nat /\ pub[k] \in Nat /\ sub[k] \in Nat
      BY <1>1, ConnNumbers
    <3>3. asked[k] = 1 /\ s[2] = 1
      BY <2>1, <3>1, <3>2
    <3>4. pub[k] + sub[k] = 1
      BY <1>1, <3>3 DEF OneSession
    <3>5. c = <<k, 1>>
      BY <3>2, <3>4 DEF Current
    <3>6. QED BY <2>1, <3>1, <3>2, <3>3, <3>4, <3>5
  <2>2. input'[1] # k
    <3> SUFFICES ASSUME input'[1] = k PROVE FALSE
      OBVIOUS
    <3>1. input' = input /\ input \in Sessions
      BY <1>1, <1>5, SessionPairs DEF RtspTypeOK
    <3>2. input[2] <= asked[k] /\ pub[k] = 1
      BY <1>1, <3>1 DEF Numbered, OneSession
    <3>3. input = c
      BY <2>1, <3>1, <3>2
    <3>4. input' = NoInput
      BY <1>3, <3>2, <3>3
    <3>5. QED BY <3>1, <3>4, SessionPairs
  <2>3. ASSUME NEW s \in viewers', s[1] = k PROVE FALSE
    <3>1. s \in viewers /\ s \in Sessions
      BY <1>1, <1>5 DEF RtspTypeOK
    <3>2. s[2] <= asked[k] /\ sub[k] = 1
      BY <1>1, <2>3, <3>1 DEF Numbered, OneSession
    <3>3. s = c /\ pub[k] = 0
      BY <2>1, <2>3, <3>1, <3>2
    <3>4. QED BY <1>3, <2>3, <3>3
  <2>4. ASSUME NEW s \in sockets', s[1] = k PROVE s \in late'
    <3>1. s \in sockets /\ s \in Sessions
      BY <1>1, <1>5 DEF RtspTypeOK
    <3>2. s[2] <= asked[k]
      BY <1>1, <2>4, <3>1 DEF Numbered
    <3>3. s = c /\ c[2] # 0
      BY <2>1, <2>4, <3>1, <3>2
    <3>4. s \in ended'
      BY <1>4, <3>3
    <3>5. QED BY <1>9, <2>4, <3>4
  <2>5. QED BY <2>2, <2>3, <2>4
<1>14. RtspConnLeaves'
  BY <1>12, <1>13 DEF RtspConnLeaves, LeavesOf
<1>15. QED BY <1>8, <1>10, <1>11, <1>14 DEF RtspServerInv

\* No step of the RTSP server breaks the invariant.
LEMMA RtspServerStep ==
  ASSUME RtspServerInv, [RtspServerNext]_rtspVars
  PROVE  RtspServerInv'
<1>1. CASE UNCHANGED rtspVars
  <2>1. RtspTypeOK' /\ Numbered' /\ OneSession'
    BY <1>1 DEF rtspVars, RtspServerInv, RtspTypeOK, Numbered, OneSession
  <2>2. RtspConnLeaves' /\ NoDescribeForgotten'
    BY <1>1 DEF rtspVars, RtspServerInv, RtspConnLeaves, NoDescribeForgotten
  <2>3. QED BY <2>1, <2>2 DEF RtspServerInv
<1>2. ASSUME NEW k \in RtspConns,
             Accept(k) \/ LoopBreaks(k) \/ AnswerDescribe(k) \/ HandlePlay(k)
      PROVE  RtspServerInv'
  BY <1>2, ConnSteps
<1>3. ASSUME NEW k \in RtspConns, HandleAnnounce(k) \/ HandleDescribe(k) PROVE RtspServerInv'
  BY <1>3, MakeStep
<1>4. ASSUME NEW k \in RtspConns, HandleSetup(k) PROVE RtspServerInv'
  BY <1>4, SetupStep
<1>5. ASSUME NEW k \in RtspConns, ConnEnds(k) PROVE RtspServerInv'
  BY <1>5, EndStep
<1>6. CASE \/ OtherJoins \/ OtherSdp \/ OtherLeaves
           \/ \E s \in Sessions : OnSdp(s) \/ DisposeInactive(s)
  BY <1>6, GroupSteps
<1>7. QED BY <1>1, <1>2, <1>3, <1>4, <1>5, <1>6 DEF RtspServerNext

\* The server starts without sessions.
LEMMA ServersInitially == RtspServerInit /\ RtmpServerInit => RtspServerInv /\ RtmpServerInv
<1> SUFFICES ASSUME RtspServerInit, RtmpServerInit PROVE RtspServerInv /\ RtmpServerInv
  OBVIOUS
<1>1. MaxAsked \in Nat
  BY RtspServerAssumption DEF RtspServerAssumption
<1>2. RtspTypeOK
  BY <1>1 DEF RtspServerInit, RtspTypeOK
<1>3. Numbered /\ OneSession
  BY SessionPairs DEF RtspServerInit, Numbered, OneSession
<1>4. RtspConnLeaves /\ NoDescribeForgotten
  BY DEF RtspServerInit, RtspConnLeaves, NoDescribeForgotten
<1>5. RtmpServerInv
  BY RtmpServerAssumption
     DEF RtmpServerAssumption, RtmpServerInit, RtmpServerInv, RtmpTypeOK, InRegistry, NoConn, NoName
<1>6. QED BY <1>2, <1>3, <1>4, <1>5 DEF RtspServerInv

-----------------------------------------------------------------------------
(* Theorems about server sessions                                           *)

\* A connection to the server that asked for one session and is gone has left it in no
\* group and no socket of it open, for any number of connections, whichever of the peer,
\* a failing request, a refusal and the group's timer ended it.
THEOREM ConnsLeave == LayerSpec => []ConnLeaves
<1>1. LayerInit => RtspServerInv /\ RtmpServerInv
  BY ServersInitially DEF LayerInit
<1>2. RtspServerInv /\ RtmpServerInv /\ [LayerNext]_layerVars => RtspServerInv' /\ RtmpServerInv'
  BY PartSteps, RtspServerStep, RtmpServerStep
<1>3. RtspServerInv /\ RtmpServerInv => ConnLeaves
  <2>1. RtmpServerInv => RtmpConnLeaves
    BY DEF RtmpServerInv, InRegistry, RtmpConnLeaves
  <2>2. QED BY <2>1 DEF RtspServerInv, ConnLeaves
<1>4. QED BY <1>1, <1>2, <1>3, PTL DEF LayerSpec

\* No DESCRIBE waits beside an SDP: whenever the group has one, every viewer whose
\* connection still waits for it is about to be answered by its own handler, although
\* SDPs arrive on goroutines of their own and connections replace their sessions.
THEOREM DescribesAnswered == LayerSpec => []NoDescribeForgotten
<1>1. LayerInit => RtspServerInv
  BY ServersInitially DEF LayerInit
<1>2. RtspServerInv /\ [LayerNext]_layerVars => RtspServerInv'
  BY PartSteps, RtspServerStep
<1>3. RtspServerInv => NoDescribeForgotten
  BY DEF RtspServerInv
<1>4. QED BY <1>1, <1>2, <1>3, PTL DEF LayerSpec

-----------------------------------------------------------------------------
(* The catalog an upper platform gets                                       *)

\* The fact holds, or held at a time that is not before t.
SeenSince(fact, t) == fact \in Facts \/ \E p \in past : p.fact = fact /\ p.until >= t

\* What the list says of these streams was true at some time that is not before t.
ListedSince(entries, streams, t) ==
  /\ \A e \in entries : SeenSince(<<e.n, "subscribed">>, t) /\ SeenSince(<<e.n, e.says>>, t)
  /\ \A n \in streams : (\A e \in entries : e.n # n) => SeenSince(<<n, "absent">>, t)

CatalogTypeOK ==
  /\ now \in Nat /\ upSubs \subseteq UpStreams
  /\ catalog.at \in Int /\ catalog.at <= now
  /\ shown.at \in Int /\ shown.at <= now
  /\ query \in [pc : {"idle", "build", "invalidate"}, todo : SUBSET UpStreams, at : Int,
                list : SUBSET [n : UpStreams, says : {"on", "off"}], unlisted : BOOLEAN,
                old : SUBSET UpStreams]
  /\ \A p \in past : p.until \in Int

\* A query is answered within the instant it began in, and both the list it has so far and
\* the subscriptions it goes through were true in that instant.
QueryInv ==
  query.pc = "build" =>
    /\ query.at = now
    /\ ListedSince(query.list, UpStreams \ query.todo, now)
    /\ \A n \in UpStreams :
         SeenSince(<<n, IF n \in QuerySubs THEN "subscribed" ELSE "absent">>, now)

\* While the cached list may still be used, it was true when it was made.
CacheInv == CatalogFresh(catalog) => ListedSince(catalog.list, UpStreams, catalog.at)

CatalogInv == CatalogTypeOK /\ QueryInv /\ CacheInv /\ CatalogRecent

\* What was seen stays seen while time stands still: a change leaves what it ends behind.
LEMMA SeenKept ==
  ASSUME CatalogTypeOK, now' = now,
         \/ Superseded
         \/ Facts' = Facts /\ past' = past,
         NEW fact, NEW t, t <= now, SeenSince(fact, t)
  PROVE  SeenSince(fact, t)'
<1>1. CASE Facts' = Facts /\ past' = past
  BY <1>1 DEF SeenSince
<1>2. CASE Superseded
  <2>1. past \subseteq past'
    BY <1>2 DEF Superseded
  <2>2. CASE fact \in Facts
    <3>1. [fact |-> fact, until |-> now] \in past'
      BY <1>2, <2>2 DEF Superseded
    <3>2. QED BY <3>1 DEF SeenSince
  <2>3. CASE \E p \in past : p.fact = fact /\ p.until >= t
    BY <2>1, <2>3 DEF SeenSince
  <2>4. QED BY <2>2, <2>3 DEF SeenSince
<1>3. QED BY <1>1, <1>2

\* So does what a list says.
LEMMA ListedKept ==
  ASSUME CatalogTypeOK, now' = now,
         \/ Superseded
         \/ Facts' = Facts /\ past' = past,
         NEW entries, NEW streams, NEW t, t <= now, ListedSince(entries, streams, t)
  PROVE  ListedSince(entries, streams, t)'
<1>1. \A fact : SeenSince(fact, t) => SeenSince(fact, t)'
  BY SeenKept
<1>2. QED BY <1>1 DEF ListedSince

\* A list that was true less than the lifetime of the cache ago is recent when it is sent.
LEMMA ListedRecent ==
  ASSUME CatalogTypeOK', NEW t \in Int, t + CatalogTtl > now', CatalogTtl \in Nat,
         ListedSince(shown.list, UpStreams, t)'
  PROVE  CatalogRecent'
<1>1. ASSUME NEW fact, SeenSince(fact, t)' PROVE Recent(fact)'
  BY <1>1 DEF SeenSince, Recent, CatalogTypeOK
<1>2. QED BY <1>1 DEF ListedSince, CatalogRecent

\* The subscriptions and states of this instant have been seen.
LEMMA FactsSeen ==
  ASSUME NEW n \in UpStreams, NEW t
  PROVE  /\ SeenSince(<<n, IF n \in upSubs THEN "subscribed" ELSE "absent">>, t)
         /\ SeenSince(<<n, Status(n)>>, t)
BY DEF SeenSince, Facts, Subscribed

\* At the start nothing is cached and nothing asked.
LEMMA CatalogInitially == CascadeInit => CatalogInv
<1> SUFFICES ASSUME CascadeInit PROVE CatalogInv
  OBVIOUS
<1>1. CatalogTypeOK
  BY DEF CascadeInit, CatalogTypeOK, NoCatalog, NoQuery, Never
<1>2. QueryInv /\ CacheInv
  BY DEF CascadeInit, QueryInv, CacheInv, CatalogFresh, NoCatalog, NoQuery
<1>3. shown.at # now
  BY DEF CascadeInit, NoCatalog, Never
<1>4. QED BY <1>1, <1>2, <1>3 DEF CatalogInv, CatalogRecent

\* A step within an instant that leaves the query's list alone and may drop the cache.
LEMMA CatalogFrame ==
  ASSUME CatalogInv, CatalogTypeOK', now' = now,
         \/ Superseded
         \/ Facts' = Facts /\ past' = past,
         catalog' \in {catalog, NoCatalog}
  PROVE  /\ CacheInv'
         /\ shown' = shown => CatalogRecent'
         /\ /\ query'.pc = "build" => query.pc = "build"
            /\ query'.at = query.at /\ query'.list = query.list /\ query'.todo = query.todo
            /\ QuerySubs' = QuerySubs
            => QueryInv'
<1>1. \A fact, t : t <= now /\ SeenSince(fact, t) => SeenSince(fact, t)'
  BY SeenKept DEF CatalogInv
<1>2. \A entries, streams, t : t <= now /\ ListedSince(entries, streams, t)
          => ListedSince(entries, streams, t)'
  BY ListedKept DEF CatalogInv
<1>3. CacheInv'
  <2>1. CASE catalog' = NoCatalog
    BY <2>1 DEF CacheInv, CatalogFresh, NoCatalog
  <2>2. CASE catalog' = catalog
    <3> SUFFICES ASSUME CatalogFresh(catalog) PROVE ListedSince(catalog.list, UpStreams, catalog.at)'
      BY <2>2 DEF CacheInv, CatalogFresh
    <3>1. PICK entries, t : entries = catalog.list /\ t = catalog.at
      OBVIOUS
    <3>2. ListedSince(entries, UpStreams, t) /\ t <= now
      BY <3>1 DEF CatalogInv, CacheInv, CatalogTypeOK
    <3>3. ListedSince(entries, UpStreams, t)'
      BY <1>2, <3>2
    <3>4. QED BY <2>2, <3>1, <3>3
  <2>3. QED BY <2>1, <2>2
<1>4. ASSUME shown' = shown PROVE CatalogRecent'
  <2> SUFFICES ASSUME shown.at = now
               PROVE  /\ \A e \in shown.list : Recent(<<e.n, "subscribed">>)' /\ Recent(<<e.n, e.says>>)'
                      /\ \A n \in UpStreams : (\A e \in shown.list : e.n # n) => Recent(<<n, "absent">>)'
    BY <1>4 DEF CatalogRecent
  <2>1. ASSUME NEW fact, Recent(fact) PROVE Recent(fact)'
    <3>1. PICK t \in Int : t + CatalogTtl > now /\ SeenSince(fact, t) /\ t <= now
      BY <2>1, CascadeAssumption DEF Recent, SeenSince, CatalogInv, CatalogTypeOK, CascadeAssumption
    <3>2. SeenSince(fact, t)'
      BY <1>1, <3>1
    <3>3. QED
      BY <3>1, <3>2, CascadeAssumption DEF Recent, SeenSince, CatalogTypeOK, CascadeAssumption
  <2>2. QED BY <2>1 DEF CatalogInv, CatalogRecent
<1>5. ASSUME query'.pc = "build" => query.pc = "build",
             query'.at = query.at, query'.list = query.list, query'.todo = query.todo,
             QuerySubs' = QuerySubs
      PROVE  QueryInv'
  <2> SUFFICES ASSUME query'.pc = "build" PROVE QueryInv'
    BY DEF QueryInv
  <2>1. PICK entries, left, subs : entries = query.list /\ left = query.todo /\ subs = QuerySubs
    OBVIOUS
  <2>2. /\ query.at = now /\ ListedSince(entries, UpStreams \ left, now)
        /\ \A n \in UpStreams : SeenSince(<<n, IF n \in subs THEN "subscribed" ELSE "absent">>, now)
    BY <1>5, <2>1 DEF CatalogInv, QueryInv
  <2>3. PICK t : t = now
    OBVIOUS
  <2>4. t <= now
    BY <2>3 DEF CatalogInv, CatalogTypeOK
  <2>5. ListedSince(entries, UpStreams \ left, t)'
    BY <1>2, <2>2, <2>3, <2>4
  <2>6. \A n \in UpStreams : SeenSince(<<n, IF n \in subs THEN "subscribed" ELSE "absent">>, t)'
    BY <1>1, <2>2, <2>3, <2>4
  <2>7. QED BY <1>5, <2>1, <2>2, <2>3, <2>5, <2>6 DEF QueryInv
<1>6. QED BY <1>3, <1>4, <1>5

\* The steps of the platform's goroutines other than sending the catalog, and the platform.
LEMMA CatalogIdleSteps ==
  ASSUME CatalogInv, now' = now, UNCHANGED <<catalog, upSubs, media, devOnline, query, shown, past>>
  PROVE  CatalogInv'
<1>1. CatalogTypeOK'
  BY DEF CatalogInv, CatalogTypeOK
<1>2. Facts' = Facts /\ past' = past
  BY DEF Facts, Subscribed, Status
<1>3. QuerySubs' = QuerySubs
  BY DEF QuerySubs
<1>4. QED BY <1>1, <1>2, <1>3, CatalogFrame DEF CatalogInv

\* A query: from the cache, or begun.
LEMMA QueryStep == ASSUME CatalogInv, OnCatalogQuery PROVE CatalogInv'
<1>1. /\ now' = now /\ upSubs' = upSubs /\ media' = media /\ devOnline' = devOnline
      /\ catalog' = catalog /\ past' = past
  BY DEF OnCatalogQuery
<1>2. Facts' = Facts
  BY <1>1 DEF Facts, Subscribed, Status
<1>3. CASE CatalogFresh(catalog)
  <2>1. shown' = [list |-> catalog.list, at |-> now] /\ query' = query
    BY <1>3 DEF OnCatalogQuery
  <2>2. CatalogTypeOK'
    BY <1>1, <2>1 DEF CatalogInv, CatalogTypeOK
  <2>3. QuerySubs' = QuerySubs
    BY <1>1, <2>1 DEF QuerySubs
  <2>4. CacheInv' /\ QueryInv'
    BY <1>1, <1>2, <2>1, <2>2, <2>3, CatalogFrame
  <2>5. CatalogFresh(catalog)'
    BY <1>1, <1>3 DEF CatalogFresh
  <2>6. PICK t \in Int : t = catalog'.at
    BY <2>2 DEF CatalogTypeOK
  <2>7. /\ ListedSince(shown.list, UpStreams, t)'
        /\ t + CatalogTtl > now' /\ CatalogTtl \in Nat
    BY <1>1, <2>1, <2>2, <2>4, <2>5, <2>6, CascadeAssumption
       DEF CacheInv, CatalogFresh, CatalogTypeOK, CascadeAssumption
  <2>8. CatalogRecent'
    BY <2>2, <2>6, <2>7, ListedRecent
  <2>9. QED BY <2>2, <2>4, <2>8 DEF CatalogInv
<1>4. CASE ~CatalogFresh(catalog)
  <2>1. shown' = shown /\ query' = [NoQuery EXCEPT !.pc = "build", !.todo = UpStreams, !.at = now]
    BY <1>4 DEF OnCatalogQuery
  <2>2. query' = [pc |-> "build", todo |-> UpStreams, at |-> now, list |-> {},
                  unlisted |-> FALSE, old |-> {}]
    BY <2>1 DEF NoQuery
  <2>3. CatalogTypeOK'
    <3>1. now \in Int /\ {} \in SUBSET [n : UpStreams, says : {"on", "off"}]
      BY DEF CatalogInv, CatalogTypeOK
    <3>2. query' \in [pc : {"idle", "build", "invalidate"}, todo : SUBSET UpStreams, at : Int,
                      list : SUBSET [n : UpStreams, says : {"on", "off"}], unlisted : BOOLEAN,
                      old : SUBSET UpStreams]
      BY <2>2, <3>1
    <3>3. QED BY <1>1, <2>1, <3>2 DEF CatalogInv, CatalogTypeOK
  <2>4. CacheInv' /\ CatalogRecent'
    BY <1>1, <1>2, <2>1, <2>3, CatalogFrame
  <2>5. QuerySubs' = upSubs'
    BY <2>2 DEF QuerySubs
  <2>6. \A n \in UpStreams : SeenSince(<<n, IF n \in upSubs THEN "subscribed" ELSE "absent">>, now)'
    BY DEF SeenSince, Facts, Subscribed
  <2>7. QueryInv'
    BY <1>1, <2>2, <2>5, <2>6 DEF QueryInv, ListedSince
  <2>8. QED BY <2>3, <2>4, <2>7 DEF CatalogInv
<1>5. QED BY <1>3, <1>4

\* One more stream of the query's list: its entry is what is true now.
LEMMA BuildStep == ASSUME CatalogInv, NEW n \in UpStreams, BuildEntry(n) PROVE CatalogInv'
<1>1. /\ now' = now /\ upSubs' = upSubs /\ media' = media /\ devOnline' = devOnline
      /\ catalog' = catalog /\ past' = past /\ shown' = shown
  BY DEF BuildEntry
<1>2. Facts' = Facts
  BY <1>1 DEF Facts, Subscribed, Status
<1>3. /\ query.pc = "build" /\ n \in query.todo
      /\ query' = [query EXCEPT !.todo = @ \ {n}, !.list = @ \cup Listing({n}, QuerySubs)]
  BY DEF BuildEntry
<1>4. Listing({n}, QuerySubs) = IF n \in QuerySubs THEN {[n |-> n, says |-> Status(n)]} ELSE {}
  BY DEF Listing
<1>5. Status(n) \in {"on", "off"}
  BY DEF Status
<1>6. /\ query'.pc = "build" /\ query'.at = query.at /\ query'.todo = query.todo \ {n}
      /\ query'.list = query.list \cup Listing({n}, QuerySubs)
      /\ query'.unlisted = query.unlisted /\ query'.old = query.old
  BY <1>3 DEF CatalogInv, CatalogTypeOK
<1>7. CatalogTypeOK'
  <2>1. Listing({n}, QuerySubs) \subseteq [n : UpStreams, says : {"on", "off"}]
    BY <1>4, <1>5
  <2>2. query' \in [pc : {"idle", "build", "invalidate"}, todo : SUBSET UpStreams, at : Int,
                    list : SUBSET [n : UpStreams, says : {"on", "off"}], unlisted : BOOLEAN,
                    old : SUBSET UpStreams]
    BY <1>3, <2>1 DEF CatalogInv, CatalogTypeOK
  <2>3. QED BY <1>1, <2>2 DEF CatalogInv, CatalogTypeOK
<1>8. CacheInv' /\ CatalogRecent'
  BY <1>1, <1>2, <1>7, CatalogFrame
<1>9. QuerySubs' = QuerySubs
  BY <1>1, <1>6 DEF QuerySubs
<1>10. QueryInv'
  <2>1. \A fact : SeenSince(fact, now) => SeenSince(fact, now)'
    BY <1>1, <1>2 DEF SeenSince
  <2>2. /\ query.at = now /\ ListedSince(query.list, UpStreams \ query.todo, now)
        /\ \A m \in UpStreams : SeenSince(<<m, IF m \in QuerySubs THEN "subscribed" ELSE "absent">>, now)
    BY <1>3 DEF CatalogInv, QueryInv
  <2>3. \A m \in UpStreams :
          SeenSince(<<m, IF m \in QuerySubs THEN "subscribed" ELSE "absent">>, now)'
    BY <1>9, <2>1, <2>2
  <2>4. ASSUME NEW e \in query'.list
        PROVE  SeenSince(<<e.n, "subscribed">>, now) /\ SeenSince(<<e.n, e.says>>, now)
    <3>1. CASE e \in query.list
      BY <2>2, <3>1 DEF ListedSince
    <3>2. CASE e \notin query.list
      <4>1. n \in QuerySubs /\ e.n = n /\ e.says = Status(n)
        BY <1>4, <1>6, <3>2
      <4>2. SeenSince(<<n, Status(n)>>, now)
        BY FactsSeen
      <4>3. QED BY <2>2, <4>1, <4>2
    <3>3. QED BY <3>1, <3>2
  <2>5. ASSUME NEW m \in UpStreams \ query'.todo, \A e \in query'.list : e.n # m
        PROVE  SeenSince(<<m, "absent">>, now)
    <3>1. CASE m = n
      <4>1. n \notin QuerySubs
        <5> SUFFICES ASSUME n \in QuerySubs PROVE FALSE
          OBVIOUS
        <5>1. [n |-> n, says |-> Status(n)] \in query'.list
          BY <1>4, <1>6
        <5>2. QED BY <2>5, <3>1, <5>1
      <4>2. QED BY <2>2, <3>1, <4>1
    <3>2. CASE m # n
      BY <1>6, <2>2, <2>5, <3>2 DEF ListedSince
    <3>3. QED BY <3>1, <3>2
  <2>6. ListedSince(query.list, UpStreams \ query.todo, now)'
    BY <2>1, <2>4, <2>5 DEF ListedSince
  <2>7. QED BY <1>1, <1>6, <2>2, <2>3, <2>6 DEF QueryInv
<1>11. QED BY <1>7, <1>8, <1>10 DEF CatalogInv

\* The list goes to the cache and to the platform within the instant it was begun in.
LEMMA AnswerStep == ASSUME CatalogInv, AnswerCatalog PROVE CatalogInv'
<1>1. /\ now' = now /\ upSubs' = upSubs /\ media' = media /\ devOnline' = devOnline
      /\ past' = past /\ query' = NoQuery /\ shown' = [list |-> query.list, at |-> now]
      /\ catalog' = Stored(query.list, query.at) /\ query.pc = "build" /\ query.todo = {}
  BY DEF AnswerCatalog
<1>2. Facts' = Facts
  BY <1>1 DEF Facts, Subscribed, Status
<1>3. query.at = now /\ ListedSince(query.list, UpStreams, now)
  BY <1>1 DEF CatalogInv, QueryInv
<1>4. catalog' = catalog \/ catalog' = [list |-> query.list, at |-> now]
  BY <1>1, <1>3 DEF Stored
<1>5. CatalogTypeOK'
  BY <1>1, <1>4 DEF CatalogInv, CatalogTypeOK, NoQuery, Never
<1>6. ListedSince(query.list, UpStreams, now) => ListedSince(shown.list, UpStreams, now)'
  BY <1>1, <1>2 DEF ListedSince, SeenSince
<1>7. CatalogRecent'
  <2>1. PICK t \in Int : t = now
    BY DEF CatalogInv, CatalogTypeOK
  <2>2. ListedSince(shown.list, UpStreams, t)'
    BY <1>1, <1>3, <1>6, <2>1
  <2>3. t + CatalogTtl > now' /\ CatalogTtl \in Nat
    BY <1>1, <2>1, CascadeAssumption DEF CascadeAssumption
  <2>4. QED BY <1>5, <2>2, <2>3, ListedRecent
<1>8. QueryInv'
  BY <1>1 DEF QueryInv, NoQuery
<1>9. CacheInv'
  <2>1. CASE catalog' = catalog
    BY <1>1, <1>2, <1>5, <2>1, CatalogFrame
  <2>2. CASE catalog' = [list |-> query.list, at |-> now]
    BY <1>1, <1>3, <1>6, <2>2 DEF CacheInv
  <2>3. QED BY <1>4, <2>1, <2>2
<1>10. QED BY <1>5, <1>7, <1>8, <1>9 DEF CatalogInv

\* The catalog after a registration: from the cache, or what is true now.
LEMMA SendStep == ASSUME CatalogInv, NEW l, SendUpstreamCatalog(l) PROVE CatalogInv'
<1> DEFINE entries == IF CatalogFresh(catalog) THEN catalog.list ELSE Listing(UpStreams, upSubs)
<1>1. /\ now' = now /\ upSubs' = upSubs /\ media' = media /\ devOnline' = devOnline
      /\ past' = past /\ query' = query /\ shown' = [list |-> entries, at |-> now]
      /\ catalog' = IF CatalogFresh(catalog) THEN catalog ELSE Stored(entries, now)
  BY DEF SendUpstreamCatalog
<1>2. Facts' = Facts
  BY <1>1 DEF Facts, Subscribed, Status
<1>3. PICK t \in Int : /\ t + CatalogTtl > now /\ ListedSince(entries, UpStreams, t)
                       /\ CatalogFresh(catalog) \/ t = now
  <2>1. CASE CatalogFresh(catalog)
    BY <2>1, CascadeAssumption
       DEF CatalogInv, CacheInv, CatalogFresh, CatalogTypeOK, CascadeAssumption
  <2>2. CASE ~CatalogFresh(catalog)
    <3>1. ASSUME NEW e \in Listing(UpStreams, upSubs)
          PROVE  SeenSince(<<e.n, "subscribed">>, now) /\ SeenSince(<<e.n, e.says>>, now)
      <4>1. PICK n \in UpStreams \cap upSubs : e = [n |-> n, says |-> Status(n)]
        BY <3>1 DEF Listing
      <4>2. QED BY <4>1, FactsSeen
    <3>2. ASSUME NEW n \in UpStreams, \A e \in Listing(UpStreams, upSubs) : e.n # n
          PROVE  SeenSince(<<n, "absent">>, now)
      <4>1. n \notin upSubs
        <5> SUFFICES ASSUME n \in upSubs PROVE FALSE
          OBVIOUS
        <5>1. [n |-> n, says |-> Status(n)] \in Listing(UpStreams, upSubs)
          BY DEF Listing
        <5>2. QED BY <3>2, <5>1
      <4>2. QED BY <4>1, FactsSeen
    <3>3. ListedSince(entries, UpStreams, now)
      BY <2>2, <3>1, <3>2 DEF ListedSince
    <3>4. QED
      BY <2>2, <3>3, CascadeAssumption DEF CatalogInv, CatalogTypeOK, CascadeAssumption
  <2>3. QED BY <2>1, <2>2
<1> HIDE DEF entries
<1>4. /\ CatalogFresh(catalog) => catalog' = catalog
      /\ ~CatalogFresh(catalog) => catalog' = catalog \/ catalog' = [list |-> entries, at |-> now]
  BY <1>1 DEF Stored
<1>5. CatalogTypeOK'
  BY <1>1, <1>4 DEF CatalogInv, CatalogTypeOK
<1>6. ListedSince(shown.list, UpStreams, t)'
  BY <1>1, <1>2, <1>3 DEF ListedSince, SeenSince
<1>7. CatalogRecent'
  BY <1>1, <1>3, <1>5, <1>6, CascadeAssumption, ListedRecent DEF CascadeAssumption
<1>8. QueryInv' /\ (catalog' = catalog => CacheInv')
  <2>1. QuerySubs' = QuerySubs
    BY <1>1 DEF QuerySubs
  <2>2. \A fact, s : SeenSince(fact, s) => SeenSince(fact, s)'
    BY <1>1, <1>2 DEF SeenSince
  <2>3. QueryInv'
    BY <1>1, <2>1, <2>2 DEF CatalogInv, QueryInv, ListedSince
  <2>4. ASSUME catalog' = catalog PROVE CacheInv'
    BY <1>1, <2>2, <2>4 DEF CatalogInv, CacheInv, CatalogFresh, ListedSince
  <2>5. QED BY <2>3, <2>4
<1>9. CacheInv'
  <2>1. CASE catalog' = [list |-> entries, at |-> now] /\ ~CatalogFresh(catalog)
    BY <1>1, <1>3, <1>6, <2>1 DEF CacheInv
  <2>2. QED BY <1>4, <1>8, <2>1
<1>10. QED BY <1>5, <1>7, <1>8, <1>9 DEF CatalogInv

\* A change of the streams or the subscriptions, a reload, the end: what a query goes
\* through stays as it is, or becomes what it was found to be.
LEMMA ChangeSteps ==
  ASSUME CatalogInv,
         \/ \E n \in UpStreams : ChangeSub(n)
         \/ StreamChanges \/ InvalidateCatalog \/ Reload \/ DisposeUpstreams
  PROVE  CatalogInv'
<1>1. now' = now /\ shown' = shown
  BY DEF ChangeSub, StreamChanges, InvalidateCatalog, Reload, DisposeUpstreams
<1>2. catalog' \in {catalog, NoCatalog}
  BY DEF ChangeSub, StreamChanges, InvalidateCatalog, Reload, DisposeUpstreams
<1>3. Superseded \/ (Facts' = Facts /\ past' = past)
  <2>1. CASE InvalidateCatalog \/ DisposeUpstreams
    BY <2>1 DEF InvalidateCatalog, DisposeUpstreams, Facts, Subscribed, Status
  <2>2. CASE \E n \in UpStreams : ChangeSub(n)
    BY <2>2 DEF ChangeSub
  <2>3. CASE StreamChanges
    BY <2>3 DEF StreamChanges
  <2>4. CASE Reload
    BY <2>4 DEF Reload
  <2>5. QED BY <2>1, <2>2, <2>3, <2>4
<1>4. \/ query' = query
      \/ query' = NoQuery
      \/ query' = [NoQuery EXCEPT !.pc = "invalidate"]
      \/ /\ query.pc = "build" /\ ~query.unlisted
         /\ query' = [query EXCEPT !.unlisted = TRUE, !.old = upSubs]
  BY DEF ChangeSub, StreamChanges, InvalidateCatalog, Reload, DisposeUpstreams, Detached
<1>5. CatalogTypeOK'
  <2>1. query' \in [pc : {"idle", "build", "invalidate"}, todo : SUBSET UpStreams, at : Int,
                    list : SUBSET [n : UpStreams, says : {"on", "off"}], unlisted : BOOLEAN,
                    old : SUBSET UpStreams]
    <3>1. CASE query' = query
      BY <3>1 DEF CatalogInv, CatalogTypeOK
    <3>2. CASE query' = NoQuery \/ query' = [NoQuery EXCEPT !.pc = "invalidate"]
      <4>1. \E pc \in {"idle", "invalidate"} :
              query' = [pc |-> pc, todo |-> {}, at |-> Never, list |-> {}, unlisted |-> FALSE,
                        old |-> {}]
        BY <3>2 DEF NoQuery
      <4>2. QED BY <4>1 DEF Never
    <3>3. CASE query' = [query EXCEPT !.unlisted = TRUE, !.old = upSubs]
      BY <3>3 DEF CatalogInv, CatalogTypeOK
    <3>4. QED BY <1>4, <3>1, <3>2, <3>3
  <2>2. upSubs' \subseteq UpStreams
    BY DEF CatalogInv, CatalogTypeOK, ChangeSub, StreamChanges, InvalidateCatalog, Reload,
           DisposeUpstreams
  <2>3. \A p \in past' : p.until \in Int
    BY <1>3 DEF CatalogInv, CatalogTypeOK, Superseded
  <2>4. catalog'.at \in Int /\ catalog'.at <= now
    BY <1>2 DEF CatalogInv, CatalogTypeOK, NoCatalog, Never
  <2>5. QED BY <1>1, <2>1, <2>2, <2>3, <2>4 DEF CatalogInv, CatalogTypeOK
<1>6. CacheInv' /\ CatalogRecent'
  BY <1>1, <1>2, <1>3, <1>5, CatalogFrame
<1>7. QueryInv'
  <2>1. CASE query'.pc # "build"
    BY <2>1 DEF QueryInv
  <2>2. CASE query'.pc = "build" /\ QuerySubs' = QuerySubs
    <3>1. /\ query.pc = "build" /\ query'.at = query.at /\ query'.list = query.list
          /\ query'.todo = query.todo
      <4>1. CASE query' = query
        BY <2>2, <4>1
      <4>2. CASE query' = NoQuery \/ query' = [NoQuery EXCEPT !.pc = "invalidate"]
        BY <2>2, <4>2 DEF NoQuery
      <4>3. CASE query.pc = "build" /\ query' = [query EXCEPT !.unlisted = TRUE, !.old = upSubs]
        BY <4>3 DEF CatalogInv, CatalogTypeOK
      <4>4. QED BY <1>4, <4>1, <4>2, <4>3
    <3>2. QED BY <1>1, <1>2, <1>3, <1>5, <2>2, <3>1, CatalogFrame
  \* only a change of the table the query goes through is seen by it
  <2>3. CASE query'.pc = "build" /\ QuerySubs' # QuerySubs
    <3>1. query' = query /\ ~query.unlisted
      <4>1. CASE query' = NoQuery \/ query' = [NoQuery EXCEPT !.pc = "invalidate"]
        BY <2>3, <4>1 DEF NoQuery
      <4>2. CASE ~query.unlisted /\ query' = [query EXCEPT !.unlisted = TRUE, !.old = upSubs]
        BY <2>3, <4>2 DEF CatalogInv, CatalogTypeOK, QuerySubs
      <4>3. CASE query' = query
        BY <2>3, <4>3 DEF QuerySubs
      <4>4. QED BY <1>4, <4>1, <4>2, <4>3
    <3>2. PICK entries, left, t : entries = query.list /\ left = query.todo /\ t = now
      OBVIOUS
    <3>3. ListedSince(entries, UpStreams \ left, t) /\ query.at = now /\ t <= now
      BY <2>3, <3>1, <3>2 DEF CatalogInv, QueryInv, CatalogTypeOK
    <3>4. ListedSince(entries, UpStreams \ left, t)'
      BY <1>1, <1>3, <3>3, ListedKept DEF CatalogInv
    <3>5. QuerySubs' = upSubs'
      BY <3>1 DEF QuerySubs
    <3>6. \A n \in UpStreams : SeenSince(<<n, IF n \in upSubs THEN "subscribed" ELSE "absent">>, t)'
      BY DEF SeenSince, Facts, Subscribed
    <3>7. QED BY <1>1, <3>1, <3>2, <3>3, <3>4, <3>5, <3>6 DEF QueryInv
  <2>4. QED BY <2>1, <2>2, <2>3
<1>8. QED BY <1>5, <1>6, <1>7 DEF CatalogInv

\* Time passes between queries, and only what the cache may no longer use is forgotten.
LEMMA TimeStep == ASSUME CatalogInv, TimePasses PROVE CatalogInv'
<1>1. /\ now' = now + 1 /\ past' = {e \in past : e.until + CatalogTtl > now}
      /\ upSubs' = upSubs /\ media' = media /\ devOnline' = devOnline
      /\ catalog' = catalog /\ query' = query /\ shown' = shown /\ query.pc = "idle"
  BY DEF TimePasses
<1>2. Facts' = Facts
  BY <1>1 DEF Facts, Subscribed, Status
<1>3. CatalogTypeOK'
  BY <1>1 DEF CatalogInv, CatalogTypeOK
<1>4. QueryInv'
  BY <1>1 DEF QueryInv
<1>5. CatalogRecent'
  BY <1>1 DEF CatalogInv, CatalogTypeOK, CatalogRecent
<1>6. CacheInv'
  <2> SUFFICES ASSUME CatalogFresh(catalog)' PROVE ListedSince(catalog.list, UpStreams, catalog.at)'
    BY DEF CacheInv
  <2>1. CatalogFresh(catalog) /\ catalog.at + CatalogTtl > now + 1
    BY <1>1, CascadeAssumption DEF CatalogFresh, CatalogInv, CatalogTypeOK, CascadeAssumption
  <2>2. ASSUME NEW fact, SeenSince(fact, catalog.at) PROVE SeenSince(fact, catalog.at)'
    <3>1. \A p \in past : p.until >= catalog.at => p \in past'
      BY <1>1, <2>1, CascadeAssumption DEF CatalogInv, CatalogTypeOK, CascadeAssumption
    <3>2. QED BY <1>1, <1>2, <2>2, <3>1 DEF SeenSince
  <2>3. ListedSince(catalog.list, UpStreams, catalog.at)
    BY <2>1 DEF CatalogInv, CacheInv
  <2>4. QED BY <1>1, <2>2, <2>3 DEF ListedSince
<1>7. QED BY <1>3, <1>4, <1>5, <1>6 DEF CatalogInv

\* No step of the registration with a platform and its catalog breaks the invariant.
LEMMA CatalogStep == ASSUME CatalogInv, [CascadeNext]_cascadeVars PROVE CatalogInv'
<1>1. CASE UNCHANGED cascadeVars
  BY <1>1, CatalogIdleSteps DEF cascadeVars
<1>2. ASSUME NEW l,
             \/ WakeUp(l) \/ Stops(l) \/ PlatformAnswers(l) \/ Receive(l) \/ ReceiveLate(l)
             \/ Deadlined(l) \/ PlatformRestarts
      PROVE  CatalogInv'
  <2>1. now' = now /\ catalog' = catalog /\ CatalogUnchanged
    BY <1>2 DEF WakeUp, Stops, PlatformAnswers, Receive, ReceiveLate, Deadlined, PlatformRestarts
  <2>2. QED BY <2>1, CatalogIdleSteps DEF CatalogUnchanged
<1>3. ASSUME NEW l, SendUpstreamCatalog(l) PROVE CatalogInv'
  BY <1>3, SendStep
<1>4. CASE OnCatalogQuery
  BY <1>4, QueryStep
<1>5. ASSUME NEW n \in UpStreams, BuildEntry(n) PROVE CatalogInv'
  BY <1>5, BuildStep
<1>6. CASE AnswerCatalog
  BY <1>6, AnswerStep
<1>7. CASE \/ \E n \in UpStreams : ChangeSub(n)
           \/ StreamChanges \/ InvalidateCatalog \/ Reload \/ DisposeUpstreams
  BY <1>7, ChangeSteps
<1>8. CASE TimePasses
  BY <1>8, TimeStep
<1>9. QED BY <1>1, <1>2, <1>3, <1>4, <1>5, <1>6, <1>7, <1>8 DEF CascadeNext

\* What an upper platform is told of a stream, and that a stream is not in its catalog, was
\* true less than the lifetime of the cache before it was told, for any streams and any
\* number of reloads, changes and queries: the list may enter the cache after the cache was
\* invalidated, and be built from subscriptions that a reload has replaced.
THEOREM CatalogsRecent == LayerSpec => []CatalogRecent
<1>1. LayerInit => CatalogInv
  BY CatalogInitially DEF LayerInit
<1>2. CatalogInv /\ [LayerNext]_layerVars => CatalogInv'
  BY PartSteps, CatalogStep
<1>3. CatalogInv => CatalogRecent
  BY DEF CatalogInv
<1>4. QED BY <1>1, <1>2, <1>3, PTL DEF LayerSpec

-----------------------------------------------------------------------------
(* The snapshot store                                                       *)

USE SnapshotAssumption DEF SnapshotAssumption

-----------------------------------------------------------------------------
(* Items, key frames and requests after a step *)

\* One item is replaced.
LEMMA ItemsUpdated ==
  ASSUME items \in Seq(SnapshotItems), NEW i \in 1..Len(items), NEW v \in SnapshotItems,
         items' = [items EXCEPT ![i] = v]
  PROVE  /\ items' \in Seq(SnapshotItems) /\ Len(items') = Len(items)
         /\ items'[i] = v /\ \A j \in 1..Len(items) : j # i => items'[j] = items[j]
OBVIOUS

\* A new item is added.
LEMMA ItemsAppended ==
  ASSUME items \in Seq(SnapshotItems), NEW v \in SnapshotItems, items' = Append(items, v)
  PROVE  /\ items' \in Seq(SnapshotItems) /\ Len(items') = Len(items) + 1
         /\ items'[Len(items) + 1] = v /\ \A j \in 1..Len(items) : items'[j] = items[j]
OBVIOUS

\* A key frame is added.
LEMMA KeysAppended ==
  ASSUME keys \in Seq(FrameStamps), NEW ts \in FrameStamps, keys' = Append(keys, ts)
  PROVE  /\ keys' \in Seq(FrameStamps) /\ Len(keys') = Len(keys) + 1
         /\ \A j \in 1..Len(keys) : keys'[j] = keys[j]
OBVIOUS

\* What can be read from well typed state.
LEMMA Shapes ==
  ASSUME SnapshotTypeOK
  PROVE  /\ Len(items) \in Nat /\ DOMAIN items = 1..Len(items)
         /\ \A i \in 1..Len(items) : items[i] \in SnapshotItems
         /\ Len(keys) \in Nat /\ DOMAIN keys = 1..Len(keys)
         /\ \A k \in 1..Len(keys) : keys[k] \in FrameStamps /\ keys[k] \in Nat
<1>1. items \in Seq(SnapshotItems) /\ keys \in Seq(FrameStamps)
  BY DEF SnapshotTypeOK
<1>2. \A k \in 1..Len(keys) : keys[k] \in FrameStamps
  BY <1>1
<1>3. \A k \in 1..Len(keys) : keys[k] \in Nat
  BY <1>2
<1>4. Len(items) \in Nat /\ DOMAIN items = 1..Len(items) /\ Len(keys) \in Nat
      /\ DOMAIN keys = 1..Len(keys)
  BY <1>1
<1>5. \A i \in 1..Len(items) : items[i] \in SnapshotItems
  BY <1>1
<1>6. QED BY <1>2, <1>3, <1>4, <1>5

\* A new item, and what Update, Check and Finish make of one, are items.
LEMMA ItemTyping ==
  ASSUME NEW it \in SnapshotItems, NEW k \in Nat, NEW ts \in Nat
  PROVE  /\ NewItem(k) \in SnapshotItems
         /\ [it EXCEPT !.frame = k, !.moved = TRUE] \in SnapshotItems
         /\ [it EXCEPT !.jpg = 0, !.jpgTs = 0, !.err = FALSE, !.moved = TRUE] \in SnapshotItems
         /\ [it EXCEPT !.inFlight = TRUE, !.moved = FALSE] \in SnapshotItems
         /\ [it EXCEPT !.jpg = k, !.jpgTs = ts, !.err = FALSE] \in SnapshotItems
         /\ [it EXCEPT !.err = TRUE] \in SnapshotItems
         /\ [it EXCEPT !.inFlight = FALSE] \in SnapshotItems
BY DEF NewItem, SnapshotItems

\* The history of a request changes nothing else of it.
LEMMA MovedRequests ==
  ASSUME request \in [JpegRequests -> SnapshotRequests], NEW i, request' = Moved(i)
  PROVE  /\ request' \in [JpegRequests -> SnapshotRequests]
         /\ \A r \in JpegRequests :
              /\ request'[r].pc = request[r].pc /\ request'[r].item = request[r].item
              /\ request'[r].newest = request[r].newest /\ request'[r].frame = request[r].frame
              /\ request'[r].jpg = request[r].jpg
              /\ request'[r].moved = (request[r].moved \/ request[r].item = i)
<1>1. ASSUME NEW r \in JpegRequests
      PROVE  /\ request'[r] \in SnapshotRequests
             /\ request'[r].pc = request[r].pc /\ request'[r].item = request[r].item
             /\ request'[r].newest = request[r].newest /\ request'[r].frame = request[r].frame
             /\ request'[r].jpg = request[r].jpg
             /\ request'[r].moved = (request[r].moved \/ request[r].item = i)
  <2>1. request'[r] = [request[r] EXCEPT !.moved = request[r].moved \/ request[r].item = i]
    BY DEF Moved
  <2>2. (request[r].moved \/ request[r].item = i) \in BOOLEAN
    OBVIOUS
  <2>3. request[r] \in SnapshotRequests
    OBVIOUS
  <2>4. request'[r] \in SnapshotRequests
    BY <2>1, <2>2, <2>3 DEF SnapshotRequests
  <2>5. QED BY <2>1, <2>3, <2>4 DEF SnapshotRequests
<1>2. request' = [r \in JpegRequests |-> request'[r]]
  BY DEF Moved
<1>3. QED BY <1>1, <1>2

\* What an answer changes of a request.
LEMMA RequestAnswered ==
  ASSUME request \in [JpegRequests -> SnapshotRequests], NEW r \in JpegRequests,
         NEW pc \in Decoding \cup {"served", "failed", "empty", "timeout"},
         NEW k \in Nat, Answer(r, pc, k)
  PROVE  /\ request' \in [JpegRequests -> SnapshotRequests]
         /\ \A q \in JpegRequests : q # r => request'[q] = request[q]
         /\ request'[r].pc = pc /\ request'[r].jpg = k
         /\ request'[r].item = request[r].item /\ request'[r].newest = request[r].newest
         /\ request'[r].frame = request[r].frame /\ request'[r].moved = request[r].moved
<1>1. request' = [request EXCEPT ![r] = [request[r] EXCEPT !.pc = pc, !.jpg = k]]
  BY DEF Answer
<1>2. request[r] \in SnapshotRequests
  OBVIOUS
<1>3. [request[r] EXCEPT !.pc = pc, !.jpg = k] \in SnapshotRequests
  BY <1>2 DEF SnapshotRequests
<1>4. request'[r] = [request[r] EXCEPT !.pc = pc, !.jpg = k]
  BY <1>1
<1>5. /\ request'[r].pc = pc /\ request'[r].jpg = k
      /\ request'[r].item = request[r].item /\ request'[r].newest = request[r].newest
      /\ request'[r].frame = request[r].frame /\ request'[r].moved = request[r].moved
  BY <1>2, <1>4 DEF SnapshotRequests
<1>6. QED BY <1>1, <1>3, <1>5

-----------------------------------------------------------------------------
(* The inductive invariant *)

\* A request that has an item in hand and no answer yet.
Active == {"check", "wait", "woken"} \cup Decoding

\* An item holds a frame there has been and, as its picture, an earlier or the same
\* frame with its timestamp; Update works on the item in the map.
ItemInv ==
  /\ updating # 0 => updating = current
  /\ \A i \in 1..Len(items) :
       /\ items[i].frame \in 1..Len(keys) /\ items[i].jpg \in 0..Len(keys)
       /\ items[i].jpg # 0 => items[i].jpgTs = keys[items[i].jpg]

\* What an item shows never gets older than what a request found; a frame taken for
\* decoding is that of the item until Update moves it; and a request that was woken
\* finds a result unless Update moved its item since the decoding began.
RequestInv(r) ==
  LET q == request[r]
      it == items[q.item]
  IN /\ q.pc \in {"new", "check"} => q.jpg = 0
     /\ q.pc \in Active => q.item \in 1..Len(items) /\ q.newest <= it.frame
     /\ q.pc \in Decoding =>
          /\ it.inFlight /\ q.frame \in 1..Len(keys) /\ q.newest <= q.frame
          /\ q.jpg = 0 \/ q.jpg = q.frame
          /\ it.moved \/ q.frame = it.frame
     /\ q.pc = "woken" => q.moved \/ (~it.moved /\ (it.err \/ Cached(it)))
     /\ q.pc = "served" /\ ~StampRepeated => q.jpg >= q.newest
     /\ q.pc = "empty" => q.moved

\* A mark has its decoder, and no item has two.
DecoderInv ==
  /\ \A r, q \in JpegRequests :
       request[r].pc \in Decoding /\ request[q].pc \in Decoding
         /\ request[r].item = request[q].item => r = q
  /\ \A i \in 1..Len(items) : items[i].inFlight =>
       \E r \in JpegRequests : request[r].pc \in Decoding /\ request[r].item = i

IInv == /\ SnapshotTypeOK /\ ItemInv /\ DecoderInv
        /\ \A r \in JpegRequests : RequestInv(r)

\* A step of one request that leaves the store alone and neither begins nor ends a
\* decoding preserves the invariant if what it says of that request holds after it.
LEMMA RequestStep ==
  ASSUME IInv, UNCHANGED <<keys, updating, items, current>>, NEW r \in JpegRequests,
         request' \in [JpegRequests -> SnapshotRequests],
         \A q \in JpegRequests : q # r => request'[q] = request[q],
         request'[r].pc \in Decoding <=> request[r].pc \in Decoding,
         request'[r].pc \in Decoding => request'[r].item = request[r].item,
         RequestInv(r)'
  PROVE  IInv'
<1>1. SnapshotTypeOK' /\ ItemInv'
  BY DEF IInv, SnapshotTypeOK, ItemInv
<1>2. \A q \in JpegRequests : /\ request'[q].pc \in Decoding <=> request[q].pc \in Decoding
                              /\ request'[q].pc \in Decoding => request'[q].item = request[q].item
  OBVIOUS
<1>3. DecoderInv'
  BY <1>2 DEF IInv, DecoderInv
<1>4. ASSUME NEW q \in JpegRequests, q # r PROVE RequestInv(q)'
  <2>1. request'[q] = request[q] /\ RequestInv(q)
    BY <1>4 DEF IInv
  <2>2. QED BY <2>1 DEF RequestInv, Cached, StampRepeated
<1>5. QED BY <1>1, <1>3, <1>4 DEF IInv

\* The cached picture is the newest frame unless a timestamp was used twice.
LEMMA CachedIsNewest ==
  ASSUME IInv, NEW i \in 1..Len(items), Cached(items[i]), ~StampRepeated
  PROVE  items[i].jpg = items[i].frame
<1>1. /\ items[i].frame \in DOMAIN keys /\ items[i].jpg \in DOMAIN keys
      /\ keys[items[i].jpg] = keys[items[i].frame]
  BY Shapes DEF IInv, ItemInv, Cached
<1>2. QED BY <1>1 DEF StampRepeated

-----------------------------------------------------------------------------
(* Requests *)

\* Steps of a request that touch nothing but the request.
LEMMA RequestSteps ==
  ASSUME IInv, NEW r \in JpegRequests,
         \/ Ask(r) \/ WaitTimeout(r) \/ Woken(r) \/ TakeSlot(r) \/ Ffmpeg(r) \/ AskAgain(r)
  PROVE  IInv'
<1> DEFINE Q == request[r]
           Frame == UNCHANGED <<keys, updating, items, current>>
<1>1. /\ SnapshotTypeOK /\ ItemInv /\ DecoderInv /\ RequestInv(r) /\ Q \in SnapshotRequests
      /\ request \in [JpegRequests -> SnapshotRequests]
  BY DEF IInv, SnapshotTypeOK
<1>2. CASE Ask(r)
  <2>1. /\ Q.pc = "new" /\ updating = 0 /\ Frame
        /\ \/ request' = [request EXCEPT ![r] = [Q EXCEPT !.pc = "busy"]]
           \/ request' = [request EXCEPT ![r] = [Q EXCEPT !.pc = "not found"]]
           \/ /\ current # 0
              /\ request' = [request EXCEPT ![r] = [Q EXCEPT !.pc = "check", !.item = current,
                                                            !.newest = items[current].frame]]
    BY <1>2 DEF Ask
  <2>2. current # 0 => current \in 1..Len(items) /\ items[current].frame \in Nat
    BY <1>1, Shapes DEF SnapshotTypeOK, SnapshotItems
  <2>3. PICK q \in SnapshotRequests :
          /\ request' = [request EXCEPT ![r] = q]
          /\ \/ q.pc \in {"busy", "not found"}
             \/ q.pc = "check" /\ current # 0 /\ q.item = current
                /\ q.newest = items[current].frame /\ q.jpg = 0
    <3> DEFINE a == [Q EXCEPT !.pc = "busy"]
               b == [Q EXCEPT !.pc = "not found"]
               c == [Q EXCEPT !.pc = "check", !.item = current, !.newest = items[current].frame]
    <3>1. a \in SnapshotRequests /\ a.pc = "busy" /\ b \in SnapshotRequests /\ b.pc = "not found"
      BY <1>1 DEF SnapshotRequests
    <3>2. current # 0 => /\ c \in SnapshotRequests /\ c.pc = "check" /\ c.item = current
                         /\ c.newest = items[current].frame /\ c.jpg = 0
      <4>1. ASSUME current # 0 PROVE current \in Nat /\ items[current].frame \in Nat
        BY <2>2, <4>1, <1>1, Shapes
      <4>2. Q.jpg = 0
        BY <1>1, <2>1 DEF RequestInv
      <4>3. QED BY <1>1, <4>1, <4>2 DEF SnapshotRequests
    <3>3. \/ request' = [request EXCEPT ![r] = a] \/ request' = [request EXCEPT ![r] = b]
          \/ current # 0 /\ request' = [request EXCEPT ![r] = c]
      BY <2>1
    <3> HIDE DEF a, b, c, Q
    <3>4. QED BY <3>1, <3>2, <3>3
  <2>4. /\ request' \in [JpegRequests -> SnapshotRequests] /\ request'[r] = q
        /\ \A p \in JpegRequests : p # r => request'[p] = request[p]
    BY <1>1, <2>3
  <2>5. q.pc \notin Decoding /\ Q.pc \notin Decoding
    BY <2>1, <2>3 DEF Decoding
  <2>6. RequestInv(r)'
    <3>1. q.pc \notin {"woken", "served", "empty"} /\ (q.pc \in {"new", "check"} => q.jpg = 0)
      BY <2>3
    <3>2. q.pc \in Active => q.item \in 1..Len(items) /\ q.newest <= items[q.item].frame
      <4>1. CASE q.pc \in {"busy", "not found"}
        BY <4>1 DEF Active, Decoding
      <4>2. CASE q.pc = "check"
        <5>1. current # 0 /\ q.item = current /\ q.newest = items[current].frame
          BY <2>3, <4>2
        <5>2. QED BY <2>2, <5>1
      <4>3. QED BY <2>3, <4>1, <4>2
    <3>3. QED BY <2>1, <2>4, <2>5, <3>1, <3>2 DEF RequestInv
  <2>7. QED BY <2>1, <2>4, <2>5, <2>6, RequestStep
<1>3. CASE WaitTimeout(r)
  <2>1. Frame /\ Q.pc \in {"wait", "woken"} /\ Answer(r, "timeout", 0)
    BY <1>3 DEF WaitTimeout
  <2>2. /\ request' \in [JpegRequests -> SnapshotRequests] /\ request'[r].pc = "timeout"
        /\ \A p \in JpegRequests : p # r => request'[p] = request[p]
    BY <1>1, <2>1, RequestAnswered
  <2>3. request'[r].pc \notin Decoding /\ Q.pc \notin Decoding /\ request'[r].pc \notin Active
    BY <2>1, <2>2 DEF Decoding, Active
  <2>4. RequestInv(r)'
    BY <2>2, <2>3 DEF RequestInv
  <2>5. QED BY <2>1, <2>2, <2>3, <2>4, RequestStep
<1>4. CASE Woken(r)
  <2> DEFINE it == items[Q.item]
  <2>1. /\ Frame /\ Q.pc = "woken"
        /\ \/ Cached(it) /\ Answer(r, "served", it.jpg)
           \/ ~Cached(it) /\ it.err /\ Answer(r, "failed", 0)
           \/ ~Cached(it) /\ ~it.err /\ Answer(r, "empty", 0)
    BY <1>4 DEF Woken
  <2>2. Q.pc \in Active /\ Q.pc \notin Decoding
    BY <2>1 DEF Active, Decoding
  <2>3. /\ Q.item \in 1..Len(items) /\ Q.newest <= it.frame
        /\ Q.moved \/ it.err \/ Cached(it)
    BY <1>1, <2>1, <2>2 DEF RequestInv
  <2>4. it \in SnapshotItems
    BY <1>1, <2>3, Shapes
  <2>5. it.jpg \in Nat
    BY <2>4 DEF SnapshotItems
  <2> HIDE DEF it
  <2>6. PICK pc \in {"served", "failed", "empty"}, k \in Nat :
          /\ Answer(r, pc, k)
          /\ pc = "served" => k = it.jpg /\ Cached(it)
          /\ pc = "empty" => ~it.err /\ ~Cached(it)
    BY <2>1, <2>5
  <2>7. /\ request' \in [JpegRequests -> SnapshotRequests]
        /\ \A p \in JpegRequests : p # r => request'[p] = request[p]
        /\ request'[r].pc = pc /\ request'[r].jpg = k
        /\ request'[r].newest = Q.newest /\ request'[r].moved = Q.moved
    BY <1>1, <2>6, RequestAnswered
  <2>8. pc \notin Decoding /\ pc \notin Active /\ pc \notin {"woken", "new", "check"}
    BY <2>6 DEF Active, Decoding
  <2>9. pc = "served" /\ ~StampRepeated => k >= Q.newest
    BY <2>3, <2>6, CachedIsNewest DEF it
  <2>10. RequestInv(r)'
    <3>1. StampRepeated' = StampRepeated
      BY <2>1 DEF StampRepeated
    <3>2. pc = "empty" => Q.moved
      BY <2>3, <2>6
    <3>3. QED BY <2>7, <2>8, <2>9, <3>1, <3>2 DEF RequestInv
  <2>11. QED BY <2>1, <2>2, <2>7, <2>8, <2>10, RequestStep
<1>5. CASE TakeSlot(r) \/ Ffmpeg(r)
  <2>1. PICK pc \in {"ffmpeg", "finish"}, k \in {0, Q.frame} :
          Frame /\ Q.pc \in Decoding /\ Answer(r, pc, k)
    <3>1. CASE TakeSlot(r)
      BY <3>1 DEF TakeSlot, Decoding
    <3>2. CASE Ffmpeg(r)
      BY <3>2 DEF Ffmpeg, Decoding
    <3>3. QED BY <1>5, <3>1, <3>2
  <2>2. pc \in Decoding /\ k \in Nat
    <3>1. Q.frame \in Nat
      BY <1>1 DEF SnapshotRequests
    <3>2. k = 0 \/ k = Q.frame
      BY <2>1
    <3>3. k \in Nat
      BY <3>1, <3>2
    <3>4. QED BY <2>1, <3>3 DEF Decoding
  <2>3. /\ request' \in [JpegRequests -> SnapshotRequests]
        /\ \A p \in JpegRequests : p # r => request'[p] = request[p]
        /\ request'[r].pc = pc /\ request'[r].jpg = k /\ request'[r].item = Q.item
        /\ request'[r].newest = Q.newest /\ request'[r].frame = Q.frame
    BY <1>1, <2>1, <2>2, RequestAnswered
  <2>4. pc \notin {"woken", "served", "empty", "new", "check"} /\ Q.pc \in Active
    BY <2>1 DEF Active
  <2>5. RequestInv(r)'
    BY <1>1, <2>1, <2>2, <2>3, <2>4 DEF RequestInv
  <2>6. QED BY <2>1, <2>2, <2>3, <2>5, RequestStep
<1>6. CASE AskAgain(r)
  <2>1. /\ Frame /\ request' = [request EXCEPT ![r] = Fresh]
        /\ Q.pc \in {"served", "failed", "empty", "timeout", "busy", "not found"}
    BY <1>6 DEF AskAgain
  <2>2. Fresh \in SnapshotRequests /\ Fresh.pc = "new" /\ Fresh.jpg = 0
    BY DEF Fresh, SnapshotRequests
  <2>3. /\ request' \in [JpegRequests -> SnapshotRequests] /\ request'[r].pc = "new"
        /\ request'[r].jpg = 0
        /\ \A p \in JpegRequests : p # r => request'[p] = request[p]
    BY <1>1, <2>1, <2>2
  <2>4. request'[r].pc \notin Decoding /\ Q.pc \notin Decoding /\ request'[r].pc \notin Active
    BY <2>1, <2>3 DEF Active, Decoding
  <2>5. RequestInv(r)'
    BY <2>3, <2>4 DEF RequestInv
  <2>6. QED BY <2>1, <2>3, <2>4, <2>5, RequestStep
<1>7. QED BY <1>2, <1>3, <1>4, <1>5, <1>6

\* The check under item.mu: an answer, a wait, or the beginning of a decoding.
LEMMA CheckStep ==
  ASSUME IInv, NEW r \in JpegRequests, Check(r)
  PROVE  IInv'
<1> DEFINE Q == request[r]
           i == Q.item
           it == items[i]
<1>1. /\ SnapshotTypeOK /\ ItemInv /\ DecoderInv /\ RequestInv(r) /\ Q \in SnapshotRequests
      /\ request \in [JpegRequests -> SnapshotRequests]
  BY DEF IInv, SnapshotTypeOK
<1>2. Q.pc = "check" /\ UNCHANGED <<keys, updating, current>>
  BY DEF Check
<1>3. Q.pc \in Active /\ Q.pc \notin Decoding
  BY <1>2 DEF Active, Decoding
<1>4. i \in 1..Len(items) /\ Q.newest <= it.frame /\ Q.jpg = 0
  BY <1>1, <1>2, <1>3 DEF RequestInv
<1>5. it \in SnapshotItems /\ it.jpg \in Nat /\ it.frame \in Nat /\ it.frame \in 1..Len(keys)
  <2>1. it \in SnapshotItems
    BY <1>1, <1>4, Shapes
  <2>2. QED BY <1>1, <1>4, <2>1 DEF SnapshotItems, ItemInv
<1>6. CASE \/ Cached(it) /\ Answer(r, "served", it.jpg) /\ UNCHANGED items
           \/ Answer(r, "failed", 0) /\ UNCHANGED items
  <2>1. PICK pc \in {"served", "failed"}, k \in Nat :
          Answer(r, pc, k) /\ (pc = "served" => k = it.jpg /\ Cached(it))
    BY <1>5, <1>6
  <2>2. /\ request' \in [JpegRequests -> SnapshotRequests]
        /\ \A p \in JpegRequests : p # r => request'[p] = request[p]
        /\ request'[r].pc = pc /\ request'[r].jpg = k /\ request'[r].newest = Q.newest
    BY <1>1, <2>1, RequestAnswered, ZenonT(40)
  <2>3. pc \notin Decoding /\ pc \notin Active /\ pc \notin {"woken", "new", "check", "empty"}
    BY <2>1 DEF Active, Decoding
  <2>4. pc = "served" /\ ~StampRepeated => k >= Q.newest
    BY <1>4, <2>1, CachedIsNewest
  <2>5. StampRepeated' = StampRepeated
    BY <1>2 DEF StampRepeated
  <2>6. RequestInv(r)'
    BY <2>2, <2>3, <2>4, <2>5 DEF RequestInv
  <2>7. QED BY <1>2, <1>3, <1>6, <2>2, <2>3, <2>6, RequestStep
<1>7. CASE request' = [request EXCEPT ![r].pc = "wait"] /\ UNCHANGED items
  <2>1. /\ request' \in [JpegRequests -> SnapshotRequests]
        /\ \A p \in JpegRequests : p # r => request'[p] = request[p]
        /\ request'[r].pc = "wait" /\ request'[r].item = i /\ request'[r].newest = Q.newest
    BY <1>1, <1>7 DEF SnapshotRequests
  <2>2. request'[r].pc \notin Decoding /\ request'[r].pc \notin {"woken", "new", "check", "empty", "served"}
    BY <2>1 DEF Decoding
  <2>3. RequestInv(r)'
    BY <1>2, <1>4, <1>7, <2>1, <2>2 DEF RequestInv
  <2>4. QED BY <1>2, <1>3, <1>7, <2>1, <2>2, <2>3, RequestStep
<1>8. CASE /\ ~it.inFlight
           /\ items' = [items EXCEPT ![i] = [it EXCEPT !.inFlight = TRUE, !.moved = FALSE]]
           /\ request' = [request EXCEPT ![r].pc = "pool", ![r].frame = it.frame]
  <2>1. /\ request' \in [JpegRequests -> SnapshotRequests]
        /\ \A p \in JpegRequests : p # r => request'[p] = request[p]
        /\ request'[r].pc = "pool" /\ request'[r].item = i /\ request'[r].newest = Q.newest
        /\ request'[r].frame = it.frame /\ request'[r].jpg = 0
    <3>1. request' = [request EXCEPT ![r] = [Q EXCEPT !.pc = "pool", !.frame = it.frame]]
      BY <1>8
    <3>2. [Q EXCEPT !.pc = "pool", !.frame = it.frame] \in SnapshotRequests
      BY <1>1, <1>5 DEF SnapshotRequests, Decoding
    <3>3. request'[r] = [Q EXCEPT !.pc = "pool", !.frame = it.frame]
      BY <1>1, <3>1
    <3>4. QED BY <1>1, <1>4, <3>1, <3>2, <3>3 DEF SnapshotRequests
  <2>2. /\ items' \in Seq(SnapshotItems) /\ Len(items') = Len(items)
        /\ items'[i] = [it EXCEPT !.inFlight = TRUE, !.moved = FALSE]
        /\ \A j \in 1..Len(items) : j # i => items'[j] = items[j]
    <3>1. [it EXCEPT !.inFlight = TRUE, !.moved = FALSE] \in SnapshotItems
      BY <1>5, ItemTyping
    <3>2. items \in Seq(SnapshotItems)
      BY <1>1 DEF SnapshotTypeOK
    <3>3. PICK v \in SnapshotItems : v = [it EXCEPT !.inFlight = TRUE, !.moved = FALSE]
      BY <3>1
    <3>4. PICK n \in 1..Len(items) : n = i
      BY <1>4
    <3>5. items' = [items EXCEPT ![n] = v]
      BY <1>8, <3>3, <3>4
    <3>6. QED BY <3>2, <3>3, <3>4, <3>5, ItemsUpdated
  <2>3. /\ items'[i].inFlight /\ ~items'[i].moved /\ items'[i].frame = it.frame
        /\ items'[i].jpg = it.jpg /\ items'[i].jpgTs = it.jpgTs /\ items'[i].err = it.err
    BY <1>5, <2>2 DEF SnapshotItems
  <2>4. SnapshotTypeOK'
    BY <1>1, <1>2, <2>1, <2>2 DEF SnapshotTypeOK
  <2>5. ItemInv'
    <3>1. \A j \in 1..Len(items) :
            /\ items'[j].frame = items[j].frame /\ items'[j].jpg = items[j].jpg
            /\ items'[j].jpgTs = items[j].jpgTs
      BY <2>2, <2>3
    <3> HIDE DEF i, it
    <3>2. QED BY <1>1, <1>2, <2>2, <3>1 DEF ItemInv
  <2>6. "pool" \in Decoding /\ "pool" \in Active
    BY DEF Active, Decoding
  <2>7. \A p \in JpegRequests : request[p].pc \in Decoding => p # r /\ request[p].item # i
    <3>1. \A p \in JpegRequests : request[p].pc \in Decoding => items[request[p].item].inFlight
      BY DEF IInv, RequestInv
    <3>2. QED BY <1>3, <1>8, <3>1
  <2>8. DecoderInv'
    <3>1. \A p, q \in JpegRequests :
            request'[p].pc \in Decoding /\ request'[q].pc \in Decoding
              /\ request'[p].item = request'[q].item => p = q
      BY <1>1, <2>1, <2>7 DEF DecoderInv
    <3>2. ASSUME NEW j \in 1..Len(items), items'[j].inFlight
          PROVE  \E p \in JpegRequests : request'[p].pc \in Decoding /\ request'[p].item = j
      <4>1. CASE j = i
        BY <2>1, <2>6, <4>1
      <4>2. CASE j # i
        <5>1. PICK p \in JpegRequests : request[p].pc \in Decoding /\ request[p].item = j
          BY <1>1, <2>2, <3>2, <4>2 DEF DecoderInv
        <5>2. QED BY <2>1, <2>7, <5>1
      <4>3. QED BY <4>1, <4>2
    <3>3. QED BY <2>2, <3>1, <3>2 DEF DecoderInv
  <2>9. RequestInv(r)'
    <3>1. it.frame >= Q.newest /\ it.frame \in 1..Len(keys)
      BY <1>1, <1>4, <1>5 DEF SnapshotRequests
    <3>2. QED BY <1>2, <1>4, <2>1, <2>2, <2>3, <2>6, <3>1 DEF RequestInv
  <2>10. ASSUME NEW q \in JpegRequests, q # r PROVE RequestInv(q)'
    <3>1. request'[q] = request[q] /\ RequestInv(q)
      BY <2>1, <2>10 DEF IInv
    <3>2. CASE request[q].item # i \/ request[q].pc \notin Active
      <4>1. request[q].pc \in Active => /\ request[q].item \in 1..Len(items)
                                        /\ items'[request[q].item] = items[request[q].item]
        BY <2>2, <3>1, <3>2 DEF RequestInv
      <4>2. request[q].pc \in Decoding \/ request[q].pc = "woken" => request[q].pc \in Active
        BY DEF Active
      <4>3. QED BY <1>2, <2>2, <3>1, <4>1, <4>2 DEF RequestInv, Cached, StampRepeated
    <3>3. CASE request[q].item = i /\ request[q].pc \in Active
      <4>1. request[q].pc \notin Decoding
        BY <2>7, <3>3
      <4>2. request'[q].item = i /\ request'[q].pc = request[q].pc
        BY <3>1, <3>3
      <4>3. (items'[i].jpg # 0 /\ items'[i].jpgTs = keys'[items'[i].frame]) <=> Cached(it)
        BY <1>2, <2>3 DEF Cached
      <4>4. items'[i].frame = it.frame /\ ~items'[i].moved /\ items'[i].err = it.err
        BY <2>3
      <4>5. i \in 1..Len(items') /\ StampRepeated' = StampRepeated
        BY <1>2, <1>4, <2>2 DEF StampRepeated
      <4>6. /\ request[q].newest <= it.frame
            /\ request[q].pc = "woken" => request[q].moved \/ it.err \/ Cached(it)
            /\ request[q].pc \in {"new", "check"} => request[q].jpg = 0
            /\ request[q].pc = "served" /\ ~StampRepeated => request[q].jpg >= request[q].newest
            /\ request[q].pc = "empty" => request[q].moved
        BY <3>1, <3>3 DEF RequestInv
      <4> HIDE DEF i, it
      <4>7. QED BY <3>1, <4>1, <4>2, <4>3, <4>4, <4>5, <4>6 DEF RequestInv, Cached
    <3>4. QED BY <3>2, <3>3
  <2>11. QED BY <2>4, <2>5, <2>8, <2>9, <2>10 DEF IInv
<1>9. QED BY <1>6, <1>7, <1>8 DEF Check

\* The result is kept and those who wait are woken.
LEMMA FinishStep ==
  ASSUME IInv, NEW r \in JpegRequests, Finish(r)
  PROVE  IInv'
<1> DEFINE Q == request[r]
           it == items[Q.item]
           v == [Result(it, Q.jpg, Q.frame) EXCEPT !.inFlight = FALSE]
<1>1. /\ SnapshotTypeOK /\ ItemInv /\ DecoderInv /\ RequestInv(r) /\ Q \in SnapshotRequests
      /\ request \in [JpegRequests -> SnapshotRequests]
  BY DEF IInv, SnapshotTypeOK
<1>2. Q.pc = "finish" /\ Q.pc \in Active /\ Q.pc \in Decoding /\ UNCHANGED <<keys, updating, current>>
  BY DEF Finish, Active, Decoding
<1>3. /\ Q.item \in 1..Len(items) /\ Q.newest <= it.frame /\ Q.frame \in 1..Len(keys)
      /\ Q.newest <= Q.frame /\ (Q.jpg = 0 \/ Q.jpg = Q.frame) /\ (it.moved \/ Q.frame = it.frame)
  BY <1>1, <1>2 DEF RequestInv
<1>4. it \in SnapshotItems /\ Q.frame \in Nat /\ keys[Q.frame] \in Nat
  BY <1>1, <1>3, Shapes
<1>5. PICK n \in 1..Len(items) : n = Q.item
  BY <1>3
<1>6. PICK w \in SnapshotItems :
        /\ w = v /\ ~w.inFlight /\ w.frame = it.frame /\ w.moved = it.moved
        /\ Q.jpg # 0 => w.jpg = Q.jpg /\ w.jpgTs = keys[Q.frame] /\ ~w.err
        /\ Q.jpg = 0 => w.jpg = it.jpg /\ w.jpgTs = it.jpgTs /\ w.err
  <2>1. Q.jpg \in Nat
    BY <1>1 DEF SnapshotRequests
  <2>2. CASE Q.jpg # 0
    <3>1. v = [[it EXCEPT !.jpg = Q.jpg, !.jpgTs = keys[Q.frame], !.err = FALSE] EXCEPT !.inFlight = FALSE]
      BY <2>2 DEF Result
    <3> HIDE DEF it, v, Q
    <3>2. v \in SnapshotItems
      BY <1>4, <2>1, <3>1 DEF SnapshotItems
    <3>3. /\ ~v.inFlight /\ v.frame = it.frame /\ v.moved = it.moved
          /\ v.jpg = Q.jpg /\ v.jpgTs = keys[Q.frame] /\ ~v.err
      BY <1>4, <2>1, <3>1 DEF SnapshotItems
    <3>4. QED BY <2>2, <3>2, <3>3
  <2>3. CASE Q.jpg = 0
    <3>1. v = [[it EXCEPT !.err = TRUE] EXCEPT !.inFlight = FALSE]
      BY <2>3 DEF Result
    <3> HIDE DEF it, v, Q
    <3>2. v \in SnapshotItems
      BY <1>4, <3>1 DEF SnapshotItems
    <3>3. /\ ~v.inFlight /\ v.frame = it.frame /\ v.moved = it.moved
          /\ v.jpg = it.jpg /\ v.jpgTs = it.jpgTs /\ v.err
      BY <1>4, <3>1 DEF SnapshotItems
    <3>4. QED BY <2>3, <3>2, <3>3
  <2>4. QED BY <2>2, <2>3
<1>7. items' = [items EXCEPT ![n] = w]
  BY <1>5, <1>6 DEF Finish
<1>8. /\ items' \in Seq(SnapshotItems) /\ Len(items') = Len(items)
      /\ items'[n] = w /\ \A j \in 1..Len(items) : j # n => items'[j] = items[j]
  <2>1. items \in Seq(SnapshotItems)
    BY <1>1 DEF SnapshotTypeOK
  <2>2. QED BY <1>7, <2>1, ItemsUpdated
<1>9. ASSUME NEW q \in JpegRequests
      PROVE  /\ request'[q] \in SnapshotRequests
             /\ request'[q].item = request[q].item /\ request'[q].newest = request[q].newest
             /\ request'[q].frame = request[q].frame /\ request'[q].jpg = request[q].jpg
             /\ q = r => request'[q].pc = IF Q.jpg = 0 THEN "failed" ELSE "served"
             /\ q # r /\ request[q].pc = "wait" /\ request[q].item = n =>
                  request'[q].pc = "woken" /\ request'[q].moved = it.moved
             /\ q # r /\ ~(request[q].pc = "wait" /\ request[q].item = n) =>
                  request'[q] = request[q]
  <2>1. request[q] \in SnapshotRequests
    BY <1>1
  <2>2. CASE q = r
    <3>1. request'[q] = [request[q] EXCEPT !.pc = IF Q.jpg = 0 THEN "failed" ELSE "served"]
      BY <2>2 DEF Finish
    <3> HIDE DEF Q
    <3>2. QED BY <2>1, <2>2, <3>1 DEF SnapshotRequests
  <2>3. CASE q # r /\ request[q].pc = "wait" /\ request[q].item = n
    <3>1. request'[q] = [request[q] EXCEPT !.pc = "woken", !.moved = it.moved]
      BY <1>5, <2>3 DEF Finish
    <3>2. it.moved \in BOOLEAN
      BY <1>4 DEF SnapshotItems
    <3> HIDE DEF it
    <3>3. QED BY <2>1, <2>3, <3>1, <3>2 DEF SnapshotRequests
  <2>4. CASE q # r /\ ~(request[q].pc = "wait" /\ request[q].item = n)
    <3>1. request'[q] = request[q]
      BY <1>5, <2>4 DEF Finish
    <3>2. QED BY <2>1, <2>4, <3>1
  <2>5. QED BY <2>2, <2>3, <2>4
<1>10. request' \in [JpegRequests -> SnapshotRequests]
  <2>1. request' = [q \in JpegRequests |-> request'[q]]
    BY DEF Finish
  <2>2. QED BY <1>9, <2>1
<1>11. SnapshotTypeOK'
  BY <1>1, <1>2, <1>8, <1>10 DEF SnapshotTypeOK
<1>12. it = items[n] /\ it.frame \in 1..Len(keys) /\ Q.item = n
  BY <1>1, <1>5 DEF ItemInv
<1> HIDE DEF it, v
<1>13. ItemInv'
  <2>1. \A j \in 1..Len(items) :
          /\ items'[j].frame \in 1..Len(keys) /\ items'[j].jpg \in 0..Len(keys)
          /\ items'[j].jpg # 0 => items'[j].jpgTs = keys[items'[j].jpg]
    <3>1. ASSUME NEW j \in 1..Len(items)
          PROVE  /\ items[j].frame \in 1..Len(keys) /\ items[j].jpg \in 0..Len(keys)
                 /\ items[j].jpg # 0 => items[j].jpgTs = keys[items[j].jpg]
      BY <1>1 DEF ItemInv
    <3>2. /\ w.frame \in 1..Len(keys) /\ w.jpg \in 0..Len(keys)
          /\ w.jpg # 0 => w.jpgTs = keys[w.jpg]
      <4>1. CASE Q.jpg = 0
        BY <1>6, <1>12, <3>1, <4>1
      <4>2. CASE Q.jpg # 0
        BY <1>3, <1>6, <1>12, <4>2
      <4>3. QED BY <4>1, <4>2
    <3>3. QED BY <1>8, <3>1, <3>2
  <2>2. updating' # 0 => updating' = current'
    BY <1>1, <1>2 DEF ItemInv
  <2>3. QED BY <1>2, <1>8, <2>1, <2>2 DEF ItemInv
<1>14. \A q \in JpegRequests :
         request'[q].pc \in Decoding <=> request[q].pc \in Decoding /\ q # r
  <2>1. "failed" \notin Decoding /\ "served" \notin Decoding /\ "woken" \notin Decoding
        /\ "wait" \notin Decoding
    BY DEF Decoding
  <2> HIDE DEF Q
  <2>2. QED BY <1>9, <2>1
<1>15. \A q \in JpegRequests : request[q].pc \in Decoding /\ q # r => request[q].item # n
  BY <1>1, <1>2, <1>12 DEF DecoderInv
<1>16. DecoderInv'
  <2>1. ASSUME NEW j \in 1..Len(items), items'[j].inFlight
        PROVE  \E p \in JpegRequests : request'[p].pc \in Decoding /\ request'[p].item = j
    <3>1. j # n /\ items[j].inFlight
      BY <1>6, <1>8, <2>1
    <3>2. PICK p \in JpegRequests : request[p].pc \in Decoding /\ request[p].item = j
      BY <1>1, <3>1 DEF DecoderInv
    <3>3. p # r
      BY <1>12, <3>1, <3>2
    <3>4. QED BY <1>9, <1>14, <3>2, <3>3
  <2>2. \A p, q \in JpegRequests :
          request'[p].pc \in Decoding /\ request'[q].pc \in Decoding
            /\ request'[p].item = request'[q].item => p = q
    BY <1>1, <1>9, <1>14 DEF DecoderInv
  <2>3. QED BY <1>8, <2>1, <2>2 DEF DecoderInv
<1>17. StampRepeated' = StampRepeated /\ keys' = keys
  BY <1>2 DEF StampRepeated
\* unless Update has moved the item, the result is that of its frame
<1>18. w.moved \/ w.err \/ (w.jpg # 0 /\ w.jpgTs = keys[w.frame])
  BY <1>3, <1>6
<1>19. ASSUME NEW q \in JpegRequests PROVE RequestInv(q)'
  <2>1. RequestInv(q)
    BY DEF IInv
  <2>2. CASE q = r
    <3>1. /\ request'[q].pc \in {"failed", "served"} /\ request'[q].newest = Q.newest
          /\ request'[q].pc = "served" => request'[q].jpg = Q.frame
      BY <1>3, <1>9, <2>2
    <3>2. request'[q].pc \notin Active /\ request'[q].pc \notin Decoding
          /\ request'[q].pc \notin {"new", "check", "woken", "empty"}
      BY <3>1 DEF Active, Decoding
    <3>3. request'[q].pc = "served" => request'[q].jpg >= request'[q].newest
      <4>1. Q.frame \in Nat /\ Q.newest \in Nat
        BY <1>1 DEF SnapshotRequests
      <4>2. QED BY <1>3, <3>1, <4>1
    <3>4. QED BY <3>2, <3>3 DEF RequestInv
  <2>3. CASE q # r /\ request[q].pc = "wait" /\ request[q].item = n
    <3>1. /\ request'[q].pc = "woken" /\ request'[q].moved = w.moved /\ request'[q].item = n
          /\ request'[q].newest = request[q].newest
      BY <1>6, <1>9, <2>3
    <3>2. request'[q].pc \notin Decoding /\ request[q].pc \in Active
      BY <2>3, <3>1 DEF Decoding, Active
    <3>3. request'[q].newest <= w.frame /\ n \in 1..Len(items')
      BY <1>6, <1>8, <1>12, <2>1, <2>3, <3>1, <3>2 DEF RequestInv
    <3>4. request'[q].moved \/ (~items'[n].moved /\ (items'[n].err \/ Cached(items[n])'))
      BY <1>8, <1>17, <1>18, <3>1 DEF Cached
    <3>5. QED BY <1>8, <3>1, <3>2, <3>3, <3>4 DEF RequestInv
  <2>4. CASE q # r /\ ~(request[q].pc = "wait" /\ request[q].item = n)
    <3>1. request'[q] = request[q]
      BY <1>9, <2>4
    <3>2. CASE request[q].item # n \/ request[q].pc \notin Active
      <4>1. request[q].pc \in Active => /\ request[q].item \in 1..Len(items)
                                        /\ items'[request[q].item] = items[request[q].item]
        BY <1>8, <2>1, <3>2 DEF RequestInv
      <4>2. request[q].pc \in Decoding \/ request[q].pc = "woken" => request[q].pc \in Active
        BY DEF Active
      <4>3. QED BY <1>8, <1>17, <2>1, <3>1, <4>1, <4>2 DEF RequestInv, Cached
    <3>3. CASE request[q].item = n /\ request[q].pc \in Active
      <4>1. request[q].pc \notin Decoding
        BY <1>15, <2>4, <3>3
      <4>2. /\ request[q].newest <= it.frame
            /\ request[q].pc = "woken" => request[q].moved \/ ~it.moved
            /\ request[q].pc \in {"new", "check"} => request[q].jpg = 0
            /\ request[q].pc = "served" /\ ~StampRepeated => request[q].jpg >= request[q].newest
            /\ request[q].pc = "empty" => request[q].moved
        BY <1>12, <2>1, <3>3 DEF RequestInv
      <4>3. request[q].pc = "woken" => request[q].moved \/ (~w.moved /\ (w.err \/ Cached(items[n])'))
        BY <1>6, <1>8, <1>17, <1>18, <4>2 DEF Cached
      <4>4. request[q].newest <= w.frame
        BY <1>6, <4>2
      <4>5. QED BY <1>8, <1>17, <3>1, <3>3, <4>1, <4>2, <4>3, <4>4 DEF RequestInv
    <3>4. QED BY <3>2, <3>3
  <2>5. QED BY <2>2, <2>3, <2>4
<1>20. QED BY <1>11, <1>13, <1>16, <1>19 DEF IInv

-----------------------------------------------------------------------------
(* The store *)

\* A step of Update moves one item: no frame gets older, no mark changes, and every
\* request that holds the item is told of it.
LEMMA StoreStep ==
  ASSUME IInv, SnapshotTypeOK', ItemInv', NEW c \in 1..Len(items'), request' = Moved(c),
         Len(items) <= Len(items'), Len(keys) <= Len(keys'),
         \A j \in 1..Len(keys) : keys'[j] = keys[j],
         \A j \in 1..Len(items) :
           /\ items'[j].inFlight = items[j].inFlight /\ items[j].frame <= items'[j].frame
           /\ j # c => items'[j] = items[j],
         items'[c].moved \/ c \notin 1..Len(items),
         \A j \in (Len(items) + 1)..Len(items') : ~items'[j].inFlight
  PROVE  IInv'
<1>1. /\ SnapshotTypeOK /\ ItemInv /\ DecoderInv /\ \A q \in JpegRequests : RequestInv(q)
      /\ request \in [JpegRequests -> SnapshotRequests]
  BY DEF IInv, SnapshotTypeOK
<1>2. Len(items) \in Nat /\ Len(items') \in Nat /\ Len(keys) \in Nat /\ Len(keys') \in Nat
  BY <1>1 DEF SnapshotTypeOK
<1>3. \A r \in JpegRequests :
        /\ request'[r].pc = request[r].pc /\ request'[r].item = request[r].item
        /\ request'[r].newest = request[r].newest /\ request'[r].frame = request[r].frame
        /\ request'[r].jpg = request[r].jpg
        /\ request'[r].moved = (request[r].moved \/ request[r].item = c)
  BY <1>1, MovedRequests
<1>4. DecoderInv'
  <2>1. ASSUME NEW j \in 1..Len(items'), items'[j].inFlight
        PROVE  \E p \in JpegRequests : request'[p].pc \in Decoding /\ request'[p].item = j
    <3>1. j \in 1..Len(items) /\ items[j].inFlight
      BY <1>2, <2>1
    <3>2. PICK p \in JpegRequests : request[p].pc \in Decoding /\ request[p].item = j
      BY <1>1, <3>1 DEF DecoderInv
    <3>3. QED BY <1>3, <3>2
  <2>2. \A p, q \in JpegRequests :
          request'[p].pc \in Decoding /\ request'[q].pc \in Decoding
            /\ request'[p].item = request'[q].item => p = q
    BY <1>1, <1>3 DEF DecoderInv
  <2>3. QED BY <2>1, <2>2 DEF DecoderInv
<1>5. StampRepeated => StampRepeated'
  <2>1. DOMAIN keys = 1..Len(keys) /\ DOMAIN keys' = 1..Len(keys')
    BY <1>1 DEF SnapshotTypeOK
  <2>2. QED BY <1>2, <2>1 DEF StampRepeated
<1>6. ASSUME NEW q \in JpegRequests PROVE RequestInv(q)'
  <2>1. RequestInv(q) /\ request[q] \in SnapshotRequests
    BY <1>1
  <2>2. request[q].item \in Nat /\ request[q].newest \in Nat
    BY <2>1 DEF SnapshotRequests
  <2>3. PICK n \in Nat : n = request[q].item
    BY <2>2
  <2>4. /\ request[q].pc \in {"new", "check"} => request[q].jpg = 0
        /\ request[q].pc = "served" /\ ~StampRepeated => request[q].jpg >= request[q].newest
        /\ request[q].pc = "empty" => request[q].moved
    BY <2>1 DEF RequestInv
  <2>5. CASE request[q].pc \notin Active
    <3>1. request[q].pc \notin Decoding /\ request[q].pc # "woken"
      BY <2>5 DEF Active
    <3>2. QED BY <1>3, <1>5, <2>4, <2>5, <3>1 DEF RequestInv
  <2>6. CASE request[q].pc \in Active
    <3>1. n \in 1..Len(items) /\ request[q].newest <= items[n].frame
      BY <2>1, <2>6, <2>3 DEF RequestInv
    <3>2. n \in 1..Len(items') /\ items[n].frame <= items'[n].frame
      BY <1>2, <3>1
    <3>3. items[n].frame \in Nat /\ items'[n].frame \in Nat /\ request[q].newest \in Nat
      <4>1. items[n].frame \in 1..Len(keys)
        BY <1>1, <3>1 DEF ItemInv
      <4>2. items'[n].frame \in 1..Len(keys')
        BY <3>2 DEF ItemInv
      <4>3. QED BY <1>2, <2>2, <4>1, <4>2
    <3>4. request[q].newest <= items'[n].frame
      BY <3>1, <3>2, <3>3
    <3>5. request[q].pc \in Decoding =>
            /\ items'[n].inFlight /\ request[q].frame \in 1..Len(keys')
            /\ request[q].newest <= request[q].frame
            /\ request[q].jpg = 0 \/ request[q].jpg = request[q].frame
            /\ items'[n].moved \/ request[q].frame = items'[n].frame
      <4> SUFFICES ASSUME request[q].pc \in Decoding
                   PROVE  /\ items'[n].inFlight /\ request[q].frame \in 1..Len(keys')
                          /\ request[q].newest <= request[q].frame
                          /\ request[q].jpg = 0 \/ request[q].jpg = request[q].frame
                          /\ items'[n].moved \/ request[q].frame = items'[n].frame
        OBVIOUS
      <4>1. /\ items[n].inFlight /\ request[q].frame \in 1..Len(keys)
            /\ request[q].newest <= request[q].frame
            /\ request[q].jpg = 0 \/ request[q].jpg = request[q].frame
            /\ items[n].moved \/ request[q].frame = items[n].frame
        BY <2>1, <2>3 DEF RequestInv
      <4>2. items'[n].inFlight /\ request[q].frame \in 1..Len(keys')
        BY <1>2, <3>1, <4>1
      <4>3. items'[n].moved \/ request[q].frame = items'[n].frame
        BY <3>1, <4>1
      <4>4. QED BY <4>1, <4>2, <4>3
    <3>6. request[q].pc = "woken" =>
            request'[q].moved \/ (~items'[n].moved /\ (items'[n].err \/ Cached(items[n])'))
      <4>1. CASE n = c
        BY <1>3, <2>3, <4>1
      <4>2. CASE n # c
        <5>1. items'[n] = items[n]
          BY <3>1, <4>2
        <5>2. items[n].frame \in 1..Len(keys)
          BY <1>1, <3>1 DEF ItemInv
        <5>3. Cached(items[n]) => Cached(items[n])'
          BY <5>1, <5>2 DEF Cached
        <5>4. QED BY <1>3, <2>1, <2>3, <5>1, <5>3 DEF RequestInv
      <4>3. QED BY <4>1, <4>2
    <3>7. QED BY <1>3, <1>5, <2>4, <2>3, <3>2, <3>4, <3>5, <3>6 DEF RequestInv
  <2>7. QED BY <2>5, <2>6
<1>7. QED BY <1>4, <1>6 DEF IInv

\* Update stores a key frame, in the stream's item or in a new one.
LEMMA UpdateFrameStep ==
  ASSUME IInv, NEW ts \in FrameStamps, UpdateFrame(ts)
  PROVE  IInv'
<1> DEFINE k == Len(keys) + 1
<1>1. SnapshotTypeOK /\ ItemInv /\ Len(keys) \in Nat /\ Len(items) \in Nat
      /\ items \in Seq(SnapshotItems) /\ keys \in Seq(FrameStamps)
      /\ request \in [JpegRequests -> SnapshotRequests]
  BY DEF IInv, SnapshotTypeOK
<1>2. /\ keys' \in Seq(FrameStamps) /\ Len(keys') = k
      /\ \A j \in 1..Len(keys) : keys'[j] = keys[j]
  BY <1>1, KeysAppended DEF UpdateFrame
<1>3. updating' = current' /\ request' = Moved(current')
  BY DEF UpdateFrame
<1>4. \A j \in 1..Len(items) :
        /\ items[j] \in SnapshotItems
        /\ items[j].frame \in 1..Len(keys) /\ items[j].jpg \in 0..Len(keys)
        /\ items[j].jpg # 0 => items[j].jpgTs = keys[items[j].jpg]
  BY <1>1, Shapes DEF ItemInv
<1>5. CASE current = 0
  <2>1. items' = Append(items, NewItem(k)) /\ current' = Len(items) + 1
    BY <1>5 DEF UpdateFrame
  <2>2. NewItem(k) \in SnapshotItems
    BY <1>1 DEF NewItem, SnapshotItems
  <2>3. PICK v \in SnapshotItems : v = NewItem(k)
    BY <2>2
  <2>4. /\ items' \in Seq(SnapshotItems) /\ Len(items') = Len(items) + 1
        /\ items'[Len(items) + 1] = v /\ \A j \in 1..Len(items) : items'[j] = items[j]
    BY <1>1, <2>1, <2>3, ItemsAppended
  <2>5. v.frame = k /\ v.jpg = 0 /\ ~v.inFlight
    BY <2>3 DEF NewItem
  <2>6. PICK c \in Nat : c = Len(items) + 1 /\ c = current'
    BY <1>1, <2>1
  <2>7. request' \in [JpegRequests -> SnapshotRequests]
    BY <1>1, <1>3, <2>6, MovedRequests
  <2>8. SnapshotTypeOK'
    BY <1>1, <1>2, <1>3, <2>4, <2>6, <2>7 DEF SnapshotTypeOK
  <2>9. \A j \in 1..Len(items') : j \in 1..Len(items) \/ j = c
    BY <1>1, <2>4, <2>6
  <2>10. ItemInv'
    <3>1. ASSUME NEW j \in 1..Len(items')
          PROVE  /\ items'[j].frame \in 1..Len(keys') /\ items'[j].jpg \in 0..Len(keys')
                 /\ items'[j].jpg # 0 => items'[j].jpgTs = keys'[items'[j].jpg]
      <4>1. CASE j = c
        BY <1>1, <1>2, <2>4, <2>5, <2>6, <4>1
      <4>2. CASE j \in 1..Len(items)
        <5>1. items'[j] = items[j]
          BY <2>4, <4>2
        <5>2. /\ items[j].frame \in 1..Len(keys) /\ items[j].jpg \in 0..Len(keys)
              /\ items[j].jpg # 0 => items[j].jpgTs = keys[items[j].jpg]
          BY <1>4, <4>2
        <5>3. QED BY <1>1, <1>2, <5>1, <5>2
      <4>3. QED BY <2>9, <4>1, <4>2
    <3>2. QED BY <1>3, <3>1 DEF ItemInv
  <2>11. /\ c \in 1..Len(items') /\ request' = Moved(c) /\ Len(items) <= Len(items')
         /\ Len(keys) <= Len(keys') /\ c \notin 1..Len(items)
    BY <1>1, <1>2, <1>3, <2>4, <2>6
  <2>12. \A j \in 1..Len(items) :
           /\ items'[j].inFlight = items[j].inFlight /\ items[j].frame <= items'[j].frame
           /\ j # c => items'[j] = items[j]
    BY <1>4, <2>4
  <2>13. \A j \in (Len(items) + 1)..Len(items') : ~items'[j].inFlight
    BY <1>1, <2>4, <2>5
  <2>14. QED BY <1>2, <2>8, <2>10, <2>11, <2>12, <2>13, StoreStep
<1>6. CASE current # 0
  <2>1. /\ items' = [items EXCEPT ![current] = [items[current] EXCEPT !.frame = k, !.moved = TRUE]]
        /\ current' = current
    BY <1>6 DEF UpdateFrame
  <2>2. PICK c \in 1..Len(items) : c = current
    BY <1>1, <1>6 DEF SnapshotTypeOK
  <2>3. items[c] \in SnapshotItems
    BY <1>4
  <2>4. [items[c] EXCEPT !.frame = k, !.moved = TRUE] \in SnapshotItems
    <3>1. k \in Nat
      BY <1>1
    <3> HIDE DEF k
    <3>2. QED BY <2>3, <3>1 DEF SnapshotItems
  <2>5. PICK v \in SnapshotItems : v = [items[c] EXCEPT !.frame = k, !.moved = TRUE]
    BY <2>4
  <2>6. /\ items' \in Seq(SnapshotItems) /\ Len(items') = Len(items)
        /\ items'[c] = v /\ \A j \in 1..Len(items) : j # c => items'[j] = items[j]
    <3>1. items' = [items EXCEPT ![c] = v]
      BY <2>1, <2>2, <2>5
    <3>2. QED BY <1>1, <3>1, ItemsUpdated
  <2>7. /\ v.frame = k /\ v.moved /\ v.jpg = items[c].jpg /\ v.jpgTs = items[c].jpgTs
        /\ v.inFlight = items[c].inFlight
    BY <2>3, <2>5 DEF SnapshotItems
  <2>8. request' \in [JpegRequests -> SnapshotRequests] /\ request' = Moved(c)
    <3>1. request' = Moved(c)
      BY <1>3, <2>1, <2>2
    <3>2. QED BY <1>1, <3>1, MovedRequests
  <2>9. SnapshotTypeOK'
    BY <1>1, <1>2, <1>3, <2>1, <2>2, <2>6, <2>8 DEF SnapshotTypeOK
  <2>10. ItemInv'
    <3>1. ASSUME NEW j \in 1..Len(items)
          PROVE  /\ items'[j].frame \in 1..Len(keys') /\ items'[j].jpg \in 0..Len(keys')
                 /\ items'[j].jpg # 0 => items'[j].jpgTs = keys'[items'[j].jpg]
      <4>1. CASE j = c
        BY <1>1, <1>2, <1>4, <2>6, <2>7, <4>1
      <4>2. CASE j # c
        BY <1>1, <1>2, <1>4, <2>6, <4>2
      <4>3. QED BY <4>1, <4>2
    <3>2. QED BY <1>3, <2>6, <3>1 DEF ItemInv
  <2>11. \A j \in 1..Len(items) :
           /\ items'[j].inFlight = items[j].inFlight /\ items[j].frame <= items'[j].frame
           /\ j # c => items'[j] = items[j]
    <3>1. items[c].frame <= k
      BY <1>1, <1>4
    <3>2. \A j \in 1..Len(items) : items[j].frame <= items[j].frame
      BY <1>1, <1>4
    <3>3. QED BY <2>6, <2>7, <3>1, <3>2
  <2>12. \A j \in (Len(items) + 1)..Len(items') : ~items'[j].inFlight
    BY <1>1, <2>6
  <2>13. /\ c \in 1..Len(items') /\ Len(items) <= Len(items') /\ Len(keys) <= Len(keys')
         /\ items'[c].moved
    BY <1>1, <1>2, <2>6, <2>7
  <2>14. QED BY <1>2, <2>8, <2>9, <2>10, <2>11, <2>12, <2>13, StoreStep
<1>7. QED BY <1>5, <1>6

\* The second half of Update takes the picture of the frame before away.
LEMMA UpdateClearStep ==
  ASSUME IInv, UpdateClear
  PROVE  IInv'
<1>1. SnapshotTypeOK /\ ItemInv /\ Len(keys) \in Nat /\ Len(items) \in Nat
      /\ items \in Seq(SnapshotItems) /\ request \in [JpegRequests -> SnapshotRequests]
  BY DEF IInv, SnapshotTypeOK
<1>2. /\ updating # 0 /\ updating' = 0 /\ request' = Moved(updating) /\ UNCHANGED <<keys, current>>
      /\ items' = [items EXCEPT ![updating] =
           [items[updating] EXCEPT !.jpg = 0, !.jpgTs = 0, !.err = FALSE, !.moved = TRUE]]
  BY DEF UpdateClear
<1>3. PICK c \in 1..Len(items) : c = updating
  BY <1>1, <1>2 DEF SnapshotTypeOK
<1>4. \A j \in 1..Len(items) :
        /\ items[j] \in SnapshotItems
        /\ items[j].frame \in 1..Len(keys) /\ items[j].jpg \in 0..Len(keys)
        /\ items[j].jpg # 0 => items[j].jpgTs = keys[items[j].jpg]
  BY <1>1, Shapes DEF ItemInv
<1>5. PICK v \in SnapshotItems :
        v = [items[c] EXCEPT !.jpg = 0, !.jpgTs = 0, !.err = FALSE, !.moved = TRUE]
  BY <1>4, ItemTyping
<1>6. /\ items' \in Seq(SnapshotItems) /\ Len(items') = Len(items)
      /\ items'[c] = v /\ \A j \in 1..Len(items) : j # c => items'[j] = items[j]
  <2>1. items' = [items EXCEPT ![c] = v]
    BY <1>2, <1>3, <1>5
  <2>2. QED BY <1>1, <2>1, ItemsUpdated
<1>7. v.frame = items[c].frame /\ v.jpg = 0 /\ v.moved /\ v.inFlight = items[c].inFlight
  <2>1. items[c] \in SnapshotItems
    BY <1>4
  <2>2. QED BY <1>5, <2>1 DEF SnapshotItems
<1>8. request' \in [JpegRequests -> SnapshotRequests] /\ request' = Moved(c)
  <2>1. request' = Moved(c)
    BY <1>2, <1>3
  <2>2. QED BY <1>1, <2>1, MovedRequests
<1>9. SnapshotTypeOK'
  BY <1>1, <1>2, <1>6, <1>8 DEF SnapshotTypeOK
<1>10. ItemInv'
  <2>1. ASSUME NEW j \in 1..Len(items)
        PROVE  /\ items'[j].frame \in 1..Len(keys) /\ items'[j].jpg \in 0..Len(keys)
               /\ items'[j].jpg # 0 => items'[j].jpgTs = keys[items'[j].jpg]
    <3>1. CASE j = c
      BY <1>1, <1>4, <1>6, <1>7, <3>1
    <3>2. CASE j # c
      BY <1>4, <1>6, <3>2
    <3>3. QED BY <3>1, <3>2
  <2>2. QED BY <1>2, <1>6, <2>1 DEF ItemInv
<1>11. \A j \in 1..Len(items) :
         /\ items'[j].inFlight = items[j].inFlight /\ items[j].frame <= items'[j].frame
         /\ j # c => items'[j] = items[j]
  <2>1. \A j \in 1..Len(items) : items[j].frame <= items[j].frame
    BY <1>1, <1>4
  <2>2. QED BY <1>6, <1>7, <2>1
<1>12. \A j \in (Len(items) + 1)..Len(items') : ~items'[j].inFlight
  BY <1>1, <1>6
<1>13. /\ c \in 1..Len(items') /\ Len(items) <= Len(items') /\ Len(keys) <= Len(keys')
       /\ items'[c].moved /\ \A j \in 1..Len(keys) : keys'[j] = keys[j]
  BY <1>1, <1>2, <1>6, <1>7
<1>14. QED BY <1>8, <1>9, <1>10, <1>11, <1>12, <1>13, StoreStep

\* Forgetting the stream, and a step of something else.
LEMMA CleanupStep ==
  ASSUME IInv, Cleanup \/ UNCHANGED snapshotVars
  PROVE  IInv'
<1>1. /\ UNCHANGED <<keys, items, request>> /\ updating' = updating
      /\ current' = current \/ (updating = 0 /\ current' = 0)
  BY DEF Cleanup, snapshotVars
<1>2. SnapshotTypeOK' /\ ItemInv' /\ DecoderInv'
  <2>1. SnapshotTypeOK'
    BY <1>1 DEF IInv, SnapshotTypeOK
  <2>2. QED BY <1>1, <2>1 DEF IInv, ItemInv, DecoderInv
<1>3. ASSUME NEW q \in JpegRequests PROVE RequestInv(q)'
  BY <1>1 DEF IInv, RequestInv, Cached, StampRepeated
<1>4. QED BY <1>2, <1>3 DEF IInv

-----------------------------------------------------------------------------
(* Theorems *)

\* Every step preserves the invariant.
LEMMA Preserved ==
  ASSUME IInv, [SnapshotNext]_snapshotVars
  PROVE  IInv'
<1>1. CASE \E ts \in FrameStamps : UpdateFrame(ts)
  BY <1>1, UpdateFrameStep
<1>2. CASE UpdateClear
  BY <1>2, UpdateClearStep
<1>3. CASE Cleanup \/ UNCHANGED snapshotVars
  BY <1>3, CleanupStep
<1>4. ASSUME NEW r \in JpegRequests,
             \/ Ask(r) \/ WaitTimeout(r) \/ Woken(r) \/ TakeSlot(r) \/ Ffmpeg(r) \/ AskAgain(r)
      PROVE  IInv'
  BY <1>4, RequestSteps
<1>5. ASSUME NEW r \in JpegRequests, Check(r) PROVE IInv'
  BY <1>5, CheckStep
<1>6. ASSUME NEW r \in JpegRequests, Finish(r) PROVE IInv'
  BY <1>6, FinishStep
<1>7. QED BY <1>1, <1>2, <1>3, <1>4, <1>5, <1>6 DEF SnapshotNext

\* The invariant holds before the first key frame and the first request.
LEMMA Initially == SnapshotInit => IInv
<1> SUFFICES ASSUME SnapshotInit PROVE IInv
  OBVIOUS
<1>1. /\ keys = <<>> /\ updating = 0 /\ items = <<>> /\ current = 0
      /\ request = [r \in JpegRequests |-> Fresh]
  BY DEF SnapshotInit
<1>2. Fresh \in SnapshotRequests /\ Fresh.pc = "new" /\ Fresh.jpg = 0
  BY DEF Fresh, SnapshotRequests
<1>3. keys \in Seq(FrameStamps) /\ items \in Seq(SnapshotItems) /\ Len(items) = 0
  BY <1>1
<1>4. SnapshotTypeOK /\ ItemInv
  BY <1>1, <1>2, <1>3 DEF SnapshotTypeOK, ItemInv
<1>5. \A r \in JpegRequests : /\ request[r].pc = "new" /\ request[r].jpg = 0
                              /\ request[r].pc \notin Active /\ request[r].pc \notin Decoding
  BY <1>1, <1>2 DEF Active, Decoding
<1>6. DecoderInv
  BY <1>3, <1>5 DEF DecoderInv
<1>7. \A r \in JpegRequests : RequestInv(r)
  BY <1>5 DEF RequestInv
<1>8. QED BY <1>4, <1>6, <1>7 DEF IInv

\* The invariant says what a request gets, and who decodes.
LEMMA Enough == IInv => SnapshotCurrent
<1> SUFFICES ASSUME IInv PROVE SnapshotCurrent
  OBVIOUS
<1>1. ASSUME NEW i \in DOMAIN items
      PROVE  Cardinality({r \in In(Decoding) : request[r].item = i})
               = IF items[i].inFlight THEN 1 ELSE 0
  <2> DEFINE S == {r \in In(Decoding) : request[r].item = i}
  <2>1. i \in 1..Len(items)
    BY Shapes DEF IInv
  <2>2. CASE items[i].inFlight
    <3>1. PICK r \in JpegRequests : request[r].pc \in Decoding /\ request[r].item = i
      BY <2>1, <2>2 DEF IInv, DecoderInv
    <3>2. S = {r}
      BY <3>1 DEF IInv, DecoderInv, In
    <3>3. Cardinality(S) = 1
      BY <3>2, FS_Singleton
    <3>4. QED BY <2>2, <3>3
  <2>3. CASE ~items[i].inFlight
    <3>1. \A r \in JpegRequests : request[r].pc \in Decoding => items[request[r].item].inFlight
      BY DEF IInv, RequestInv
    <3>2. S = {}
      BY <2>3, <3>1 DEF In
    <3>3. Cardinality(S) = 0
      BY <3>2, FS_EmptySet
    <3>4. QED BY <2>3, <3>3
  <2>4. QED BY <2>2, <2>3
<1>2. \A r \in JpegRequests :
        /\ request[r].pc = "served" /\ ~StampRepeated => request[r].jpg >= request[r].newest
        /\ request[r].pc = "empty" => request[r].moved
  BY DEF IInv, RequestInv
<1>3. QED BY <1>1, <1>2 DEF SnapshotCurrent, OneDecoder

\* Whatever key frames, clean-ups and requests do, the store's state is well formed:
\* no item and no request ever refers to an item or a frame there has not been.
THEOREM SnapshotTyping == SnapshotSpec => [](SnapshotTypeOK /\ ItemInv)
<1>1. IInv => SnapshotTypeOK /\ ItemInv
  BY DEF IInv
<1>2. QED BY <1>1, Initially, Preserved, PTL DEF SnapshotSpec

\* GetJpeg, for any number of requests, key frames and slots: an item is decoded by one
\* request at most and marked exactly as long, a picture is never older than the newest
\* frame when its request arrived unless timestamps repeat, and a request that waited
\* comes back with nothing only if Update came between.
THEOREM SnapshotsCurrent == SnapshotSpec => []SnapshotCurrent
BY Initially, Preserved, Enough, PTL DEF SnapshotSpec

=============================================================================
