------------------------ MODULE HlsLifecycleProofs ------------------------
(* Machine-checked proofs about HlsLifecycle, for every value of its        *)
(* constants.                                                               *)
EXTENDS HlsLifecycle, TLAPS

USE HlsLifecycleAssumption DEF HlsLifecycleAssumption

-----------------------------------------------------------------------------
(* Type correctness *)

\* While OnNewHlsSubSession joins and OnDelHlsSubSession asks and stops, they have a
\* group in hand.
HandInv == handler.pc \in {"join", "ask", "stop", "clear"} => handler.group \in Groups

\* A lookup yields a group that has not been erased.
LEMMA LookupTyping ==
    ASSUME TypeOK, NEW g, GetOrCreateGroup(g)
    PROVE  g \in Groups /\ g \notin stale
BY DEF GetOrCreateGroup, TypeOK

\* What OnDelHlsSubSession leaves behind is well typed.
LEMMA OnDelTyping ==
    ASSUME TypeOK, NEW s \in Sessions, NEW loop \in {"none", "expire", "dispose"},
           OnDelHlsSubSession(s, loop)
    PROVE  /\ sessionMap' \subseteq Sessions
           /\ hlsSubs' \in [Groups -> SUBSET Sessions]
           /\ stopped' \in [Sessions -> Nat]
           /\ handler' \in [pc : {"free", "join", "loop", "ask", "stop", "clear", "panic"},
                            group : Groups \cup {NoGroup}, loop : {"none", "expire", "dispose"}]
           /\ HandInv'
<1>1. sessionMap' \subseteq Sessions
  BY DEF OnDelHlsSubSession, TypeOK
<1>2. CASE mapped = NoGroup
  BY <1>1, <1>2 DEF OnDelHlsSubSession, Returned, Free, HandInv, TypeOK
<1>3. CASE mapped # NoGroup
  <2>1. handler' = [pc |-> "ask", group |-> mapped, loop |-> loop] /\ mapped \in Groups
    BY <1>3 DEF OnDelHlsSubSession, TypeOK
  <2>2. HandInv'
    BY <2>1 DEF HandInv
  <2>3. hlsSubs' \in [Groups -> SUBSET Sessions]
    BY <1>3 DEF OnDelHlsSubSession, TypeOK
  <2>4. stopped' \in [Sessions -> Nat]
    BY <1>3 DEF OnDelHlsSubSession, TypeOK
  <2>5. QED BY <1>1, <2>1, <2>2, <2>3, <2>4
<1>4. QED BY <1>2, <1>3

\* Every reachable state of the groups, the handler and the directory is well
\* typed.
THEOREM Typing == Spec => [](TypeOK /\ HandInv)
<1>1. Init => TypeOK /\ HandInv
  BY DEF Init, TypeOK, HandInv, Free
<1>2. TypeOK /\ HandInv /\ [Next]_vars => TypeOK' /\ HandInv'
  <2> SUFFICES ASSUME TypeOK, HandInv, [Next]_vars PROVE TypeOK' /\ HandInv'
    OBVIOUS
  <2> USE DEF groupVars, fileVars, sessVars
  <2>1. ASSUME NEW g \in Groups, AddIn(g) PROVE TypeOK' /\ HandInv'
    <3>1. g \notin stale
      BY <2>1, LookupTyping DEF AddIn
    <3>2. muxers' \in 0..MaxMuxers /\ muxers' \in 1..MaxMuxers /\ muxers' = muxers + 1
      BY <2>1 DEF AddIn, StartHlsIfNeeded, TypeOK
    <3>3. muxer' \in [Groups -> 0..MaxMuxers] /\ dir' \subseteq 1..MaxMuxers
      BY <2>1, <3>2 DEF AddIn, StartHlsIfNeeded, TypeOK
    <3>4. QED BY <2>1, <3>1, <3>2, <3>3 DEF AddIn, TypeOK, HandInv
  <2>2. ASSUME NEW m \in 1..MaxMuxers, NEW who \in Stoppers
        PROVE  CleanupHlsIfNeeded(m, who) \subseteq
                  (1..MaxMuxers) \X Stoppers \X {"waiting", "removing"}
    BY DEF CleanupHlsIfNeeded, TypeOK
  <2>3. ASSUME NEW g \in Groups, DelIn(g) PROVE TypeOK' /\ HandInv'
    <3>1. tasks' \subseteq (1..MaxMuxers) \X Stoppers \X {"waiting", "removing"}
      <4>1. CASE muxer[g] = 0
        BY <2>3, <4>1 DEF DelIn, TypeOK
      <4>2. CASE muxer[g] # 0
        <5>1. muxer[g] \in 1..MaxMuxers
          BY <4>2 DEF TypeOK
        <5>2. QED BY <2>2, <2>3, <4>2, <5>1 DEF DelIn, Stoppers
      <4>3. QED BY <4>1, <4>2
    <3>2. QED BY <2>3, <3>1 DEF DelIn, TypeOK, HandInv
  <2>4. ASSUME NEW g \in Groups, ForgetGroup(g) PROVE TypeOK' /\ HandInv'
    BY <2>4 DEF ForgetGroup, TypeOK, HandInv
  <2>5. CASE Erase
    BY <2>5 DEF Erase, TypeOK, HandInv
  <2>6. CASE ClearExpireSession \/ Dispose \/ LoopEnds
    <3>1. \/ handler' = [pc |-> "loop", group |-> NoGroup, loop |-> "expire"]
          \/ handler' = [pc |-> "loop", group |-> NoGroup, loop |-> "dispose"]
          \/ handler' = [pc |-> "free", group |-> NoGroup, loop |-> "none"]
      BY <2>6 DEF ClearExpireSession, Dispose, LoopEnds, Free
    <3>2. HandInv'
      BY <3>1 DEF HandInv
    <3>3. handler' \in [pc : {"free", "join", "loop", "ask", "stop", "clear", "panic"},
                         group : Groups \cup {NoGroup}, loop : {"none", "expire", "dispose"}]
      BY <3>1
    <3>4. UNCHANGED <<groupVars, fileVars, sessVars>> /\ up' \in BOOLEAN
      BY <2>6 DEF ClearExpireSession, Dispose, LoopEnds, TypeOK
    <3>5. QED BY <3>2, <3>3, <3>4 DEF TypeOK
  <2>7. ASSUME NEW s \in Sessions, NEW g \in Groups, CreateSubSession(s, g)
        PROVE  TypeOK' /\ HandInv'
    <3>1. handler' = [pc |-> "join", group |-> g, loop |-> "none"] /\ g \notin stale
      BY <2>7, LookupTyping DEF CreateSubSession
    <3>2. HandInv'
      BY <3>1 DEF HandInv
    <3>3. handler' \in [pc : {"free", "join", "loop", "ask", "stop", "clear", "panic"},
                        group : Groups \cup {NoGroup}, loop : {"none", "expire", "dispose"}]
      BY <3>1
    <3>4. QED BY <2>7, <3>1, <3>2, <3>3 DEF CreateSubSession, TypeOK
  <2>8. ASSUME NEW s \in Sessions, JoinGroup(s) \/ KeepSessionAlive(s) \/ Expires(s) \/ KickSession(s)
        PROVE  TypeOK' /\ HandInv'
    <3>1. CASE JoinGroup(s)
      BY <3>1 DEF JoinGroup, Free, TypeOK, HandInv
    <3>2. CASE KeepSessionAlive(s) \/ Expires(s) \/ KickSession(s)
      BY <3>2 DEF KeepSessionAlive, Expires, KickSession, TypeOK, HandInv
    <3>3. QED BY <2>8, <3>1, <3>2
  <2>9. ASSUME NEW s \in Sessions, CloseSubSession(s)
        PROVE  TypeOK' /\ HandInv'
    BY <2>9, OnDelTyping DEF CloseSubSession, OnDelHlsSubSession, TypeOK
  <2>10. ASSUME NEW s \in Sessions, LoopVisits(s) PROVE TypeOK' /\ HandInv'
    <3>1. OnDelHlsSubSession(s, handler.loop)
      BY <2>10 DEF LoopVisits
    <3>2. handler.loop \in {"none", "expire", "dispose"}
      BY DEF TypeOK
    <3>3. QED BY <3>1, <3>2, OnDelTyping DEF OnDelHlsSubSession, TypeOK
  <2>11. CASE AskGroup \/ StopFindsMuxer
    BY <2>11 DEF AskGroup, StopFindsMuxer, Returned, Free, TypeOK, HandInv
  <2>12. CASE StopClearsMuxer
    <3>1. handler.group \in Groups
      BY <2>12 DEF StopClearsMuxer, HandInv
    <3>2. tasks' \subseteq (1..MaxMuxers) \X Stoppers \X {"waiting", "removing"}
      <4>1. CASE muxer[handler.group] = 0
        BY <2>12, <4>1 DEF StopClearsMuxer, TypeOK
      <4>2. CASE muxer[handler.group] # 0
        <5>1. muxer[handler.group] \in 1..MaxMuxers
          BY <3>1, <4>2 DEF TypeOK
        <5>2. QED BY <2>2, <2>12, <4>2, <5>1 DEF StopClearsMuxer, Stoppers
      <4>3. QED BY <4>1, <4>2
    <3>3. /\ handler' \in [pc : {"free", "join", "loop", "ask", "stop", "clear", "panic"},
                           group : Groups \cup {NoGroup}, loop : {"none", "expire", "dispose"}]
          /\ HandInv'
      BY <2>12, <3>1 DEF StopClearsMuxer, Returned, Free, TypeOK, HandInv
    <3>4. muxer' \in [Groups -> 0..MaxMuxers]
      <4>1. 0 \in 0..MaxMuxers
        OBVIOUS
      <4>2. QED BY <2>12, <4>1 DEF StopClearsMuxer, TypeOK
    <3>5. UNCHANGED <<mapped, stale, input, hlsSubs, muxers, dir, sessVars, up>>
      BY <2>12 DEF StopClearsMuxer
    <3>6. QED BY <3>2, <3>3, <3>4, <3>5 DEF TypeOK
  <2>13. ASSUME NEW m \in 1..MaxMuxers, NEW who \in Stoppers, Cleanup(m, who)
         PROVE  TypeOK' /\ HandInv'
    <3>1. tasks' \subseteq tasks \cup {<<m, who, "removing">>}
      BY <2>13 DEF Cleanup, CleanupChecks, CleanupRemovesAll
    <3>2. tasks' \subseteq (1..MaxMuxers) \X Stoppers \X {"waiting", "removing"}
      BY <3>1 DEF TypeOK
    <3>3. UNCHANGED <<groupVars, sessVars, handler, up>> /\ dir' \subseteq 1..MaxMuxers
      BY <2>13 DEF Cleanup, CleanupChecks, CleanupRemovesAll, TypeOK
    <3>4. QED BY <3>2, <3>3 DEF TypeOK, HandInv
  <2>14. CASE UNCHANGED vars
    BY <2>14 DEF vars, TypeOK, HandInv
  <2>15. QED
    BY <2>1, <2>3, <2>4, <2>5, <2>6, <2>7, <2>8, <2>9, <2>10, <2>11, <2>12, <2>13, <2>14
    DEF Next, Deleting
<1>3. QED BY <1>1, <1>2, PTL DEF Spec

-----------------------------------------------------------------------------
(* The session map and the groups *)

\* HandlerMatchesGroup group by group, and what makes it inductive: who is about to
\* join is the one viewer of createSubSession, whose group is the mapped one or
\* an erased one; a viewer not yet created is nowhere.
MatchInv ==
    /\ \A g \in Groups : g # mapped => hlsSubs[g] \subseteq raced
    /\ \A g \in Groups : g # mapped /\ g \notin stale => hlsSubs[g] = {}
    /\ sessionMap \ (joining \cup raced) = IF mapped = NoGroup THEN {} ELSE hlsSubs[mapped]
    /\ fresh \cap (sessionMap \cup raced) = {}
    /\ joining \subseteq sessionMap \ raced
    /\ \A s, t \in joining : s = t
    /\ joining # {} => handler.pc = "join"
    /\ handler.pc = "join" => handler.group = mapped \/ handler.group \in stale

\* Starts and stops come in pairs, but for a viewer in an erased group.
PairInv ==
    \A s \in Sessions :
        \/ started[s] = stopped[s] + (IF s \in sessionMap \ joining THEN 1 ELSE 0)
        \/ s \in raced \ sessionMap /\ started[s] = stopped[s] + 1

\* A lookup that creates a group finds it without viewers.
LEMMA LookupEmpty ==
    ASSUME TypeOK, MatchInv, NEW g \in Groups, GetOrCreateGroup(g)
    PROVE  /\ sessionMap \ (joining \cup raced) = hlsSubs[g]
           /\ \A h \in Groups : h # g => hlsSubs[h] \subseteq raced
           /\ \A h \in Groups : h # g /\ h \notin stale => hlsSubs[h] = {}
BY DEF GetOrCreateGroup, MatchInv, TypeOK

\* A session that leaves the map leaves the group that lookups find.
LEMMA OnDelMatch ==
    ASSUME TypeOK, MatchInv, NEW s \in sessionMap, NEW loop, handler.pc # "join",
           OnDelHlsSubSession(s, loop)
    PROVE  MatchInv'
<1>1. s \in Sessions /\ joining = {}
  BY DEF MatchInv, TypeOK
<1>2. sessionMap' = sessionMap \ {s} /\ UNCHANGED <<mapped, stale, fresh, joining, raced>>
  BY DEF OnDelHlsSubSession
<1>3. handler'.pc # "join"
  BY DEF OnDelHlsSubSession, Returned, Free
<1>4. CASE mapped = NoGroup
  BY <1>1, <1>2, <1>3, <1>4 DEF OnDelHlsSubSession, MatchInv
<1>5. CASE mapped # NoGroup
  <2>1. mapped \in Groups /\ hlsSubs' = [hlsSubs EXCEPT ![mapped] = @ \ {s}]
    BY <1>5 DEF OnDelHlsSubSession, TypeOK
  <2>2. hlsSubs'[mapped] = hlsSubs[mapped] \ {s} /\ \A g \in Groups : g # mapped => hlsSubs'[g] = hlsSubs[g]
    BY <2>1 DEF TypeOK
  <2>3. QED BY <1>1, <1>2, <1>3, <1>5, <2>1, <2>2 DEF MatchInv
<1>6. QED BY <1>4, <1>5

\* It is notified once, or never if no group is found.
LEMMA OnDelPair ==
    ASSUME TypeOK, MatchInv, PairInv, NEW s \in sessionMap, NEW loop, handler.pc # "join",
           OnDelHlsSubSession(s, loop)
    PROVE  PairInv'
<1>1. s \in Sessions /\ joining = {}
  BY DEF MatchInv, TypeOK
<1>2. sessionMap' = sessionMap \ {s} /\ UNCHANGED <<started, joining, raced>>
  BY DEF OnDelHlsSubSession
<1>3. started[s] = stopped[s] + 1
  BY <1>1 DEF PairInv
<1>4. CASE mapped = NoGroup
  <2>1. stopped' = stopped /\ s \in raced
    BY <1>1, <1>4 DEF OnDelHlsSubSession, MatchInv
  <2>2. QED BY <1>1, <1>2, <1>3, <2>1 DEF PairInv
<1>5. CASE mapped # NoGroup
  <2>1. stopped' = [stopped EXCEPT ![s] = @ + 1]
    BY <1>5 DEF OnDelHlsSubSession
  <2>2. QED BY <1>1, <1>2, <1>3, <2>1 DEF PairInv, TypeOK
<1>6. QED BY <1>4, <1>5

\* However viewers come, expire, are kicked or blocked, while groups are erased
\* and made anew, the session map is the viewers of the group that lookups find,
\* and starts and stops are notified in pairs; only a viewer whose group was erased
\* while it was joining is in another.
THEOREM Matches == Spec => []HandlerMatchesGroup
<1>1. Init => MatchInv /\ PairInv
  BY DEF Init, MatchInv, PairInv, Free
<1>2. TypeOK /\ HandInv /\ MatchInv /\ PairInv /\ [Next]_vars => MatchInv' /\ PairInv'
  <2> SUFFICES ASSUME TypeOK, HandInv, MatchInv, PairInv, [Next]_vars PROVE MatchInv' /\ PairInv'
    OBVIOUS
  <2> USE DEF groupVars, fileVars, sessVars
  <2>1. ASSUME NEW g \in Groups, AddIn(g) PROVE MatchInv' /\ PairInv'
    <3>1. /\ mapped' = g /\ UNCHANGED <<stale, hlsSubs, sessVars, handler>>
          /\ (mapped = NoGroup \/ mapped = g) /\ g # NoGroup
      BY <2>1 DEF AddIn, GetOrCreateGroup
    <3>2. PairInv'
      BY <3>1 DEF PairInv
    <3>3. handler.pc = "join" => handler.group = g \/ handler.group \in stale
      BY <3>1 DEF MatchInv, HandInv
    <3>4. /\ sessionMap \ (joining \cup raced) = hlsSubs[g]
          /\ \A h \in Groups : h # g => hlsSubs[h] \subseteq raced
          /\ \A h \in Groups : h # g /\ h \notin stale => hlsSubs[h] = {}
      BY <2>1, LookupEmpty DEF AddIn
    <3>5. MatchInv'
      BY <3>1, <3>3, <3>4 DEF MatchInv
    <3>6. QED BY <3>2, <3>5
  <2>2. CASE Erase
    <3>1. /\ mapped # NoGroup /\ hlsSubs[mapped] = {} /\ mapped' = NoGroup
          /\ stale' = stale \cup {mapped} /\ UNCHANGED <<hlsSubs, sessVars, handler>>
      BY <2>2 DEF Erase
    <3>2. QED BY <3>1 DEF MatchInv, PairInv
  <2>3. ASSUME NEW s \in Sessions, NEW g \in Groups, CreateSubSession(s, g) PROVE MatchInv' /\ PairInv'
    <3>1. /\ mapped' = g /\ s \in fresh /\ s \notin sessionMap /\ s \notin raced
          /\ sessionMap' = sessionMap \cup {s} /\ fresh' = fresh \ {s}
          /\ joining' = {s} /\ joining = {} /\ g # NoGroup
          /\ handler' = [pc |-> "join", group |-> g, loop |-> "none"]
          /\ UNCHANGED <<stale, hlsSubs, raced, started, stopped>>
      BY <2>3 DEF CreateSubSession, MatchInv, HandlerFree
    <3>2. /\ sessionMap \ (joining \cup raced) = hlsSubs[g]
          /\ \A h \in Groups : h # g => hlsSubs[h] \subseteq raced
          /\ \A h \in Groups : h # g /\ h \notin stale => hlsSubs[h] = {}
      BY <2>3, LookupEmpty DEF CreateSubSession
    <3>3. handler'.pc = "join" /\ handler'.group = mapped'
      BY <3>1
    <3>4. MatchInv'
      BY <3>1, <3>2, <3>3 DEF MatchInv
    <3>5. PairInv'
      BY <3>1 DEF PairInv
    <3>6. QED BY <3>4, <3>5
  <2>4. ASSUME NEW s \in Sessions, JoinGroup(s) PROVE MatchInv' /\ PairInv'
    <3> DEFINE g == handler.group
    <3>1. /\ s \in joining /\ s \in sessionMap /\ s \notin raced /\ joining = {s} /\ joining' = {}
          /\ hlsSubs' = [hlsSubs EXCEPT ![g] = @ \cup {s}]
          /\ raced' = (IF g = mapped THEN raced ELSE raced \cup {s})
          /\ started' = [started EXCEPT ![s] = @ + 1] /\ handler' = Free
          /\ UNCHANGED <<mapped, stale, sessionMap, fresh, stopped>>
      BY <2>4 DEF JoinGroup, MatchInv
    <3>2. g \in Groups /\ (g = mapped \/ g \in stale) /\ g # NoGroup
      BY <2>4 DEF JoinGroup, HandInv, MatchInv
    <3>3. hlsSubs'[g] = hlsSubs[g] \cup {s} /\ \A h \in Groups : h # g => hlsSubs'[h] = hlsSubs[h]
      BY <3>1, <3>2 DEF TypeOK
    <3>4. handler'.pc = "free"
      BY <3>1 DEF Free
    <3>5. ASSUME g = mapped PROVE MatchInv'
      <4>1. raced' = raced /\ mapped # NoGroup /\ hlsSubs'[mapped] = hlsSubs[mapped] \cup {s}
        BY <3>1, <3>2, <3>3, <3>5
      <4>2. sessionMap' \ (joining' \cup raced') = hlsSubs'[mapped]
        BY <3>1, <4>1 DEF MatchInv
      <4>3. \A h \in Groups : h # mapped => hlsSubs'[h] = hlsSubs[h]
        BY <3>3, <3>5
      <4>4. joining' = {} /\ UNCHANGED <<mapped, stale, sessionMap, fresh>>
        BY <3>1
      <4>5. QED BY <3>4, <4>1, <4>2, <4>3, <4>4 DEF MatchInv
    <3>6. ASSUME g # mapped PROVE MatchInv'
      <4>1. g \in stale /\ raced' = raced \cup {s} /\ s \notin fresh
        BY <3>1, <3>2, <3>6 DEF MatchInv
      <4>2. mapped # NoGroup => mapped \in Groups /\ hlsSubs'[mapped] = hlsSubs[mapped]
        BY <3>3, <3>6 DEF TypeOK
      <4>3. sessionMap' \ (joining' \cup raced') = sessionMap \ (joining \cup raced)
        BY <3>1, <4>1
      <4>4. sessionMap' \ (joining' \cup raced') = IF mapped' = NoGroup THEN {} ELSE hlsSubs'[mapped']
        BY <3>1, <4>2, <4>3 DEF MatchInv
      <4>5. \A h \in Groups : h # mapped => hlsSubs'[h] \subseteq raced'
        BY <3>3, <4>1 DEF MatchInv
      <4>6. \A h \in Groups : h # mapped /\ h \notin stale => hlsSubs'[h] = {}
        BY <3>3, <4>1 DEF MatchInv
      <4>7. fresh' \cap (sessionMap' \cup raced') = {}
        BY <3>1, <4>1 DEF MatchInv
      <4>8. joining' = {} /\ UNCHANGED <<mapped, stale, sessionMap, fresh>>
        BY <3>1
      <4>9. QED BY <3>4, <4>4, <4>5, <4>6, <4>7, <4>8 DEF MatchInv
    <3>7. PairInv'
      <4>1. started[s] = stopped[s] /\ started'[s] = started[s] + 1
        BY <3>1 DEF PairInv, TypeOK
      <4>2. s \in sessionMap' \ joining' /\ started'[s] = stopped'[s] + 1
        BY <3>1, <4>1
      <4>3. ASSUME NEW t \in Sessions, t # s
            PROVE  /\ started'[t] = started[t] /\ (t \in raced => t \in raced')
                   /\ t \in sessionMap' \ joining' <=> t \in sessionMap \ joining
        BY <3>1, <4>3 DEF TypeOK
      <4>4. QED BY <3>1, <4>2, <4>3 DEF PairInv
    <3>8. QED BY <3>5, <3>6, <3>7
  <2>5. ASSUME NEW s \in Sessions, CloseSubSession(s) PROVE MatchInv' /\ PairInv'
    <3>1. s \in sessionMap /\ handler.pc # "join" /\ OnDelHlsSubSession(s, "none")
      BY <2>5 DEF CloseSubSession, HandlerFree
    <3>2. QED BY <3>1, OnDelMatch, OnDelPair
  <2>6. ASSUME NEW s \in Sessions, LoopVisits(s) PROVE MatchInv' /\ PairInv'
    <3>1. s \in sessionMap /\ handler.pc # "join" /\ OnDelHlsSubSession(s, handler.loop)
      BY <2>6 DEF LoopVisits, Due
    <3>2. QED BY <3>1, OnDelMatch, OnDelPair
  <2>7. ASSUME NEW g \in Groups, ForgetGroup(g) PROVE MatchInv' /\ PairInv'
    <3>1. /\ g \in stale /\ g # mapped /\ g # handler.group /\ stale' = stale \ {g}
          /\ hlsSubs' = [hlsSubs EXCEPT ![g] = {}] /\ UNCHANGED <<mapped, sessVars, handler>>
      BY <2>7 DEF ForgetGroup, TypeOK
    <3>2. hlsSubs'[g] = {} /\ \A h \in Groups : h # g => hlsSubs'[h] = hlsSubs[h]
      BY <3>1 DEF TypeOK
    <3>3. mapped # NoGroup => hlsSubs'[mapped] = hlsSubs[mapped]
      BY <3>1, <3>2 DEF TypeOK
    <3>4. MatchInv'
      BY <3>1, <3>2, <3>3 DEF MatchInv
    <3>5. PairInv'
      BY <3>1 DEF PairInv
    <3>6. QED BY <3>4, <3>5
  <2>8. ASSUME UNCHANGED <<mapped, stale, hlsSubs, sessVars>>,
               handler' = handler \/ (handler.pc # "join" /\ handler'.pc # "join")
        PROVE  MatchInv' /\ PairInv'
    BY <2>8 DEF MatchInv, PairInv
  <2>9. ASSUME NEW g \in Groups, DelIn(g) PROVE MatchInv' /\ PairInv'
    <3>1. UNCHANGED <<mapped, stale, hlsSubs, sessVars>> /\ handler' = handler
      BY <2>9 DEF DelIn
    <3>2. QED BY <3>1 DEF MatchInv, PairInv
  <2>10. CASE ClearExpireSession \/ Dispose \/ LoopEnds
    <3>1. handler.pc # "join" /\ handler'.pc # "join"
      <4>1. CASE ClearExpireSession
        BY <4>1 DEF ClearExpireSession, HandlerFree, Free
      <4>2. CASE Dispose
        BY <4>2 DEF Dispose, HandlerFree, Free
      <4>3. CASE LoopEnds
        BY <4>3 DEF LoopEnds, Free
      <4>4. QED BY <2>10, <4>1, <4>2, <4>3
    <3>2. UNCHANGED <<mapped, stale, hlsSubs, sessVars>>
      BY <2>10 DEF ClearExpireSession, Dispose, LoopEnds
    <3>3. QED BY <2>8, <3>1, <3>2
  <2>11. CASE AskGroup \/ StopFindsMuxer
    <3>1. handler.pc # "join" /\ handler'.pc # "join"
      BY <2>11 DEF AskGroup, StopFindsMuxer, Returned, Free, TypeOK
    <3>2. QED BY <2>8, <2>11, <3>1 DEF AskGroup, StopFindsMuxer
  <2>12. CASE StopClearsMuxer
    <3>1. handler.pc # "join" /\ handler'.pc # "join"
      BY <2>12 DEF StopClearsMuxer, Returned, Free, TypeOK
    <3>2. QED BY <2>8, <2>12, <3>1 DEF StopClearsMuxer
  <2>13. ASSUME NEW s \in Sessions, KeepSessionAlive(s) \/ Expires(s) \/ KickSession(s)
         PROVE  MatchInv' /\ PairInv'
    <3>1. UNCHANGED <<mapped, stale, hlsSubs, sessionMap, fresh, joining, raced, started, stopped, handler>>
      BY <2>13 DEF KeepSessionAlive, Expires, KickSession
    <3>2. QED BY <3>1 DEF MatchInv, PairInv
  <2>14. ASSUME NEW m \in 1..MaxMuxers, NEW who \in Stoppers, Cleanup(m, who)
         PROVE  MatchInv' /\ PairInv'
    <3>1. UNCHANGED <<mapped, stale, hlsSubs, sessVars>> /\ handler' = handler
      BY <2>14 DEF Cleanup, CleanupChecks, CleanupRemovesAll
    <3>2. QED BY <3>1 DEF MatchInv, PairInv
  <2>15. CASE UNCHANGED vars
    <3>1. UNCHANGED <<mapped, stale, hlsSubs, sessVars>> /\ handler' = handler
      BY <2>15 DEF vars
    <3>2. QED BY <3>1 DEF MatchInv, PairInv
  <2>16. QED
    BY <2>1, <2>2, <2>3, <2>4, <2>5, <2>6, <2>7, <2>9, <2>10, <2>11, <2>12, <2>13, <2>14, <2>15
    DEF Next, Deleting
<1>3. TypeOK /\ MatchInv /\ PairInv => HandlerMatchesGroup
  <2> SUFFICES ASSUME TypeOK, MatchInv, PairInv PROVE HandlerMatchesGroup
    OBVIOUS
  <2>1. \A g \in Groups \ {mapped} : hlsSubs[g] \subseteq raced
    BY DEF MatchInv
  <2>2. \A s \in Sessions : \/ started[s] - stopped[s] = IF s \in sessionMap \ joining THEN 1 ELSE 0
                            \/ s \in raced \ sessionMap /\ started[s] - stopped[s] = 1
    BY DEF PairInv, TypeOK
  <2>3. QED BY <2>1, <2>2 DEF MatchInv, HandlerMatchesGroup
<1>4. QED BY <1>1, <1>2, <1>3, Typing, PTL DEF Spec

=============================================================================
