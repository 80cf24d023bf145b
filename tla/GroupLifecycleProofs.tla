----------------------- MODULE GroupLifecycleProofs -----------------------
(* Machine-checked proofs about GroupLifecycle, for every value of its      *)
(* constants.                                                               *)
EXTENDS GroupLifecycle, TLAPS

USE GroupLifecycleAssumption DEF GroupLifecycleAssumption, Sessions

-----------------------------------------------------------------------------
(* Type correctness *)

\* A session that looked a group up remembers the name it used; OnDelSession
\* needs it to find a group at all.
Named == \A s \in Sessions : pc[s] # "idle" => name[s] \in Names

\* Every reachable state of the manager, the groups and the sessions is well
\* typed.
THEOREM Typing == Spec => [](TypeOK /\ Named)
<1>1. Init => TypeOK /\ Named
  BY DEF Init, TypeOK, Named, NotIterating
<1>2. TypeOK /\ Named /\ [Next]_vars => TypeOK'
  <2> SUFFICES ASSUME TypeOK, Named, [Next]_vars PROVE TypeOK'
    OBVIOUS
  <2> USE DEF managerVars, groupVars, sessVars
  <2>1. ASSUME NEW n \in Names, NEW g \in Groups, GetOrCreateGroup(n, g)
        PROVE  /\ groups' \in [Names -> Groups \cup {None}]
               /\ stage' \in [Groups -> {"unused", "live", "disposed"}]
               /\ looping' \in [Groups -> BOOLEAN]
    <3>1. groups' \in [Names -> Groups \cup {None}]
      BY <2>1 DEF GetOrCreateGroup, TypeOK
    <3>2. stage' \in [Groups -> {"unused", "live", "disposed"}]
      BY <2>1 DEF GetOrCreateGroup, TypeOK
    <3>3. looping' \in [Groups -> BOOLEAN]
      BY <2>1 DEF GetOrCreateGroup, TypeOK
    <3>4. QED BY <3>1, <3>2, <3>3
  <2>2. ASSUME NEW s \in Sessions, Session(s) PROVE TypeOK'
    <3>1. ASSUME NEW n \in Names, NEW g \in Groups, OnNewSession(s, n, g) PROVE TypeOK'
      BY <3>1, <2>1 DEF OnNewSession, TypeOK
    <3>2. CASE s \in Pubs /\ AddPubSession(s)
      BY <3>2 DEF AddPubSession, TypeOK
    <3>3. CASE s \in Subs /\ AddSubSession(s)
      BY <3>3 DEF AddSubSession, TypeOK
    <3>4. CASE SessionEnds(s)
      BY <3>4 DEF SessionEnds, TypeOK
    <3>5. CASE OnDelSession(s)
      <4>1. ptr' \in [Sessions -> Groups \cup {None}]
        BY <3>5 DEF OnDelSession, TypeOK, Named
      <4>2. QED BY <3>5, <4>1 DEF OnDelSession, TypeOK
    <3>6. CASE DelSession(s)
      BY <3>6 DEF DelSession, TypeOK
    <3>7. CASE Forget(s)
      BY <3>7 DEF Forget, TypeOK
    <3>8. QED BY <2>2, <3>1, <3>2, <3>3, <3>4, <3>5, <3>6, <3>7 DEF Session
  <2>3. CASE Api
    <3>1. ASSUME NEW n \in Names, NEW s \in Sessions, KickSession(n, s) PROVE TypeOK'
      BY <3>1 DEF KickSession, TypeOK
    <3>2. ASSUME NEW n \in Names, NEW g \in Groups, StartRelayPull(n, g) PROVE TypeOK'
      BY <3>2, <2>1 DEF StartRelayPull, TypeOK
    <3>3. ASSUME NEW g \in Groups, StopRelayPull(g) PROVE TypeOK'
      BY <3>3 DEF StopRelayPull, TypeOK
    <3>4. QED BY <2>3, <3>1, <3>2, <3>3 DEF Api
  <2>4. CASE Loops
    <3>1. ASSUME NEW who \in {"timer", "shutdown"}, IterateBegin(who) PROVE TypeOK'
      BY <3>1 DEF IterateBegin, NotIterating, TypeOK
    <3>2. ASSUME NEW n \in Names, VisitGroup(n) PROVE TypeOK'
      BY <3>2 DEF VisitGroup, TypeOK
    <3>3. CASE DisposeGroup
      <4>1. closed' \in [Sessions -> BOOLEAN]
        BY <3>3 DEF DisposeGroup, TypeOK
      <4>2. iter' \in [by : {"nobody", "timer", "shutdown"}, todo : SUBSET Names,
                       cond : Names \cup {None}, dead : SUBSET Names]
        BY <3>3 DEF DisposeGroup, TypeOK
      <4>3. stage' \in [Groups -> {"unused", "live", "disposed"}]
        BY <3>3 DEF DisposeGroup, TypeOK
      <4>4. input' \in [Groups -> Pubs \cup {None}] /\ subs' \in [Groups -> SUBSET Subs]
        BY <3>3 DEF DisposeGroup, TypeOK
      <4>5. exitMsgs' \in [Groups -> {0, 1}]
        BY <3>3 DEF DisposeGroup, TypeOK
      <4>6. QED BY <3>3, <4>1, <4>2, <4>3, <4>4, <4>5 DEF DisposeGroup, TypeOK
    <3>4. CASE IterateEnd
      BY <3>4 DEF IterateEnd, NotIterating, TypeOK
    <3>5. CASE RunLoopReturns
      BY <3>5 DEF RunLoopReturns, TypeOK
    <3>6. ASSUME NEW g \in Groups, GroupRunLoopReturns(g) PROVE TypeOK'
      BY <3>6 DEF GroupRunLoopReturns, TypeOK
    <3>7. ASSUME NEW g \in Groups, ForgetGroup(g) PROVE TypeOK'
      BY <3>7 DEF ForgetGroup, TypeOK
    <3>8. QED BY <2>4, <3>1, <3>2, <3>3, <3>4, <3>5, <3>6, <3>7 DEF Loops
  <2>5. CASE UNCHANGED vars
    BY <2>5 DEF vars, TypeOK
  <2>6. QED BY <2>2, <2>3, <2>4, <2>5 DEF Next
<1>3. TypeOK /\ Named /\ [Next]_vars => Named'
  <2> SUFFICES ASSUME TypeOK, Named, [Next]_vars PROVE Named'
    OBVIOUS
  <2> USE DEF managerVars, groupVars, sessVars
  <2>1. ASSUME NEW s \in Sessions, Session(s) PROVE Named'
    BY <2>1 DEF Session, OnNewSession, AddPubSession, AddSubSession, SessionEnds, OnDelSession,
                DelSession, Forget, TypeOK, Named
  <2>2. CASE Api \/ Loops \/ UNCHANGED vars
    <3>1. UNCHANGED <<pc, name>>
      BY <2>2 DEF Api, KickSession, StartRelayPull, StopRelayPull, Loops, IterateBegin, VisitGroup,
                  DisposeGroup, IterateEnd, RunLoopReturns, GroupRunLoopReturns, ForgetGroup, vars
    <3>2. QED BY <3>1 DEF Named
  <2>3. QED BY <2>1, <2>2 DEF Next
<1>4. QED BY <1>1, <1>2, <1>3, PTL DEF Spec

-----------------------------------------------------------------------------
(* No ghosts *)

Mapped(n) == groups[n] # None

\* Groups are in the map under one name, and an unused object is empty and not
\* in the map.
MapInv ==
    /\ \A m, n \in Names : groups[m] = groups[n] /\ Mapped(n) => m = n
    /\ \A n \in Names : Mapped(n) => stage[groups[n]] # "unused"
    /\ \A g \in Groups : stage[g] = "unused" => input[g] = None /\ subs[g] = {}

\* Between lookup and join a session holds a group that is, if it is still in
\* the map, the one of its name; between lookup and leave it holds the only
\* group of the map that it can be in.
HeldInv ==
    \A s \in Sessions :
      /\ pc[s] = "found" =>
           /\ ptr[s] \in Groups /\ stage[ptr[s]] # "unused"
           /\ \A n \in Names : groups[n] = ptr[s] => name[s] = n
      /\ pc[s] = "delete" =>
           /\ ptr[s] \in Groups
           /\ \A n \in Names : Mapped(n) /\ s \in Members(groups[n]) => groups[n] = ptr[s]

GhostInv == MapInv /\ HeldInv /\ NoGhostInMap

\* A lookup yields the group of its name; one it creates has no members, and
\* nobody holds it.
LEMMA LookupYields ==
    ASSUME TypeOK, GhostInv, NEW n \in Names, NEW g \in Groups, GetOrCreateGroup(n, g)
    PROVE  /\ groups' \in [Names -> Groups \cup {None}] /\ groups'[n] = g
           /\ \A m \in Names : m # n => groups'[m] = groups[m] /\ groups[m] # g
           /\ groups[n] # g => Members(g) = {}
           /\ stage' \in [Groups -> {"unused", "live", "disposed"}] /\ stage'[g] # "unused"
           /\ \A h \in Groups : h # g => stage'[h] = stage[h]
           /\ \A s \in Sessions : pc[s] = "found" /\ ptr[s] = g => groups[n] = g
<1>1. CASE Mapped(n)
  BY <1>1 DEF GetOrCreateGroup, TypeOK, GhostInv, MapInv, Mapped
<1>2. CASE ~Mapped(n)
  BY <1>2 DEF GetOrCreateGroup, TypeOK, GhostInv, MapInv, HeldInv, Mapped, Members
<1>3. QED BY <1>1, <1>2

\* The map and the stages after a lookup keep their invariant when the members
\* are the same.
LEMMA LookupMap ==
    ASSUME TypeOK, GhostInv, NEW n \in Names, NEW g \in Groups, GetOrCreateGroup(n, g),
           UNCHANGED <<input, subs>>
    PROVE  MapInv'
BY LookupYields DEF TypeOK, GhostInv, MapInv, Mapped

\* What a session that keeps its state and its group sees of a lookup.
LEMMA LookupHeld ==
    ASSUME TypeOK, GhostInv, NEW n \in Names, NEW g \in Groups, GetOrCreateGroup(n, g),
           UNCHANGED <<input, subs>>,
           NEW s \in Sessions, pc'[s] = pc[s], ptr'[s] = ptr[s], name'[s] = name[s]
    PROVE  /\ pc'[s] = "found" =>
                /\ ptr'[s] \in Groups /\ stage'[ptr'[s]] # "unused"
                /\ \A m \in Names : groups'[m] = ptr'[s] => name'[s] = m
           /\ pc'[s] = "delete" =>
                /\ ptr'[s] \in Groups
                /\ \A m \in Names : Mapped(m)' /\ s \in Members(groups[m])' => groups'[m] = ptr'[s]
           /\ \A m \in Names : Mapped(m)' /\ s \in Members(groups[m])' =>
                name'[s] = m /\ pc'[s] \in {"joined", "leaving", "delete"}
<1>1. CASE groups[n] = g
  <2>1. groups' = groups /\ stage' = stage
    BY <1>1 DEF GetOrCreateGroup
  <2>2. QED BY <2>1 DEF GhostInv, HeldInv, NoGhostInMap, Mapped, Members
<1>2. CASE groups[n] # g
  <2>1. \A m \in Names : Mapped(m)' /\ s \in Members(groups[m])'
           => m # n /\ groups[m] = groups'[m] /\ Mapped(m) /\ s \in Members(groups[m])
    <3> SUFFICES ASSUME NEW m \in Names, Mapped(m)', s \in Members(groups[m])'
                 PROVE  m # n /\ groups[m] = groups'[m] /\ Mapped(m) /\ s \in Members(groups[m])
      OBVIOUS
    <3>1. Members(groups[m])' = Members(groups'[m])
      BY DEF Members
    <3>2. m # n
      BY <1>2, <3>1, LookupYields
    <3>3. groups'[m] = groups[m]
      BY <3>2, LookupYields
    <3>4. QED BY <3>1, <3>2, <3>3 DEF Mapped
  <2>2. QED BY <1>2, <2>1, LookupYields DEF GhostInv, HeldInv, NoGhostInMap, Mapped
<1>3. QED BY <1>1, <1>2

\* A step that changes neither map, stages, members nor sessions keeps GhostInv.
LEMMA GhostFrame ==
    ASSUME GhostInv, UNCHANGED <<groups, stage, input, subs, pc, ptr, name>>
    PROVE  GhostInv'
BY DEF GhostInv, MapInv, HeldInv, NoGhostInMap, Mapped, Members

\* A session that joins the group it holds is where its name leads, if that
\* group is in the map at all.
LEMMA JoinedIsMember ==
    ASSUME TypeOK, GhostInv, NEW s \in Sessions, pc[s] = "found",
           pc' = [pc EXCEPT ![s] = "joined"], UNCHANGED <<groups, name>>,
           \A h \in Groups : \/ Members(h)' = Members(h)
                             \/ h = ptr[s] /\ Members(h)' = Members(h) \cup {s}
    PROVE  NoGhostInMap'
<1> SUFFICES ASSUME NEW n \in Names, groups[n] # None, NEW t \in Members(groups[n])'
             PROVE  name[t] = n /\ pc'[t] \in {"joined", "leaving", "delete"}
  BY DEF NoGhostInMap
<1>1. PICK h \in Groups : h = groups[n]
  BY DEF TypeOK
<1>2. t \in Members(h)'
  BY <1>1 DEF Members
<1>3. CASE t \in Members(groups[n])
  <2>1. name[t] = n /\ pc[t] \in {"joined", "leaving", "delete"}
    BY <1>3 DEF GhostInv, NoGhostInMap
  <2>2. QED BY <2>1 DEF TypeOK
<1>4. CASE t = s /\ groups[n] = ptr[s]
  BY <1>4 DEF GhostInv, HeldInv, TypeOK
<1>5. QED BY <1>1, <1>2, <1>3, <1>4

\* No step makes an ended session a member of a group in the map.
LEMMA GhostStep == TypeOK /\ Named /\ GhostInv /\ [Next]_vars => GhostInv'
<1> SUFFICES ASSUME TypeOK, Named, GhostInv, [Next]_vars PROVE GhostInv'
  OBVIOUS
<1> USE DEF managerVars, groupVars, sessVars
<1>1. ASSUME NEW s \in Sessions, NEW n \in Names, NEW g \in Groups, OnNewSession(s, n, g)
      PROVE  GhostInv'
  <2>1. GetOrCreateGroup(n, g) /\ UNCHANGED <<input, subs>>
    BY <1>1 DEF OnNewSession
  <2>2. /\ pc'[s] = "found" /\ ptr'[s] = g /\ name'[s] = n
        /\ \A t \in Sessions : t # s =>
              pc'[t] = pc[t] /\ ptr'[t] = ptr[t] /\ name'[t] = name[t]
    BY <1>1 DEF OnNewSession, TypeOK
  <2>3. \A m \in Names : Mapped(m)' => s \notin Members(groups[m])'
    <3> SUFFICES ASSUME NEW m \in Names, Mapped(m)', s \in Members(groups[m])' PROVE FALSE
      OBVIOUS
    <3>1. s \in Members(groups'[m])
      BY <2>1 DEF Members
    <3>2. Mapped(m) /\ groups'[m] = groups[m]
      BY <2>1, <3>1, LookupYields DEF Mapped
    <3>3. pc[s] \in {"joined", "leaving", "delete"}
      BY <3>1, <3>2 DEF GhostInv, NoGhostInMap, Mapped
    <3>4. QED BY <1>1, <3>3 DEF OnNewSession
  <2>4. HeldInv'
    BY <2>1, <2>2, LookupYields, LookupHeld DEF HeldInv, Mapped
  <2>5. NoGhostInMap'
    <3> SUFFICES ASSUME NEW m \in Names, Mapped(m)', NEW t \in Members(groups[m])'
                 PROVE  name'[t] = m /\ pc'[t] \in {"joined", "leaving", "delete"}
      BY DEF NoGhostInMap, Mapped
    <3>1. groups'[m] \in Groups
      BY <2>1, LookupYields DEF Mapped
    <3>2. t \in Sessions /\ t # s
      BY <2>1, <2>3, <3>1 DEF Members, TypeOK
    <3>3. QED BY <2>1, <2>2, <3>2, LookupHeld
  <2>6. QED BY <2>1, <2>4, <2>5, LookupMap DEF GhostInv
<1>2. ASSUME NEW n \in Names, NEW g \in Groups, StartRelayPull(n, g) PROVE GhostInv'
  <2>1. GetOrCreateGroup(n, g) /\ UNCHANGED <<input, subs, pc, ptr, name>>
    BY <1>2 DEF StartRelayPull
  <2>2. HeldInv'
    BY <2>1, LookupHeld DEF HeldInv, Mapped
  <2>3. NoGhostInMap'
    <3> SUFFICES ASSUME NEW m \in Names, Mapped(m)', NEW t \in Members(groups[m])'
                 PROVE  name'[t] = m /\ pc'[t] \in {"joined", "leaving", "delete"}
      BY DEF NoGhostInMap, Mapped
    <3>1. groups'[m] \in Groups
      BY <2>1, LookupYields DEF Mapped
    <3>2. t \in Sessions
      BY <2>1, <3>1 DEF Members, TypeOK
    <3>3. QED BY <2>1, <3>2, LookupHeld
  <2>4. QED BY <2>1, <2>2, <2>3, LookupMap DEF GhostInv
<1>3. ASSUME NEW s \in Sessions, s \in Pubs, AddPubSession(s) PROVE GhostInv'
  <2>1. CASE input[ptr[s]] # None
    BY <1>3, <2>1 DEF AddPubSession, TypeOK, GhostInv, MapInv, HeldInv, NoGhostInMap, Mapped, Members
  <2>2. CASE input[ptr[s]] = None
    <3>1. ptr[s] \in Groups /\ stage[ptr[s]] # "unused"
      BY <1>3 DEF AddPubSession, GhostInv, HeldInv
    <3>2. \A h \in Groups : Members(h)' = Members(h) \/ (h = ptr[s] /\ Members(h)' = Members(h) \cup {s})
      BY <1>3, <2>2, <3>1 DEF AddPubSession, TypeOK, Members
    <3>3. MapInv'
      BY <1>3, <2>2, <3>1 DEF AddPubSession, TypeOK, GhostInv, MapInv, Mapped
    <3>4. HeldInv'
      BY <1>3, <2>2, <3>1, <3>2 DEF AddPubSession, TypeOK, GhostInv, HeldInv, Mapped
    <3>5. NoGhostInMap'
      BY <1>3, <2>2, <3>2, JoinedIsMember DEF AddPubSession
    <3>6. QED BY <3>3, <3>4, <3>5 DEF GhostInv
  <2>3. QED BY <2>1, <2>2
<1>4. ASSUME NEW s \in Sessions, s \in Subs, AddSubSession(s) PROVE GhostInv'
  <2>1. CASE stage[ptr[s]] = "disposed"
    BY <1>4, <2>1 DEF AddSubSession, TypeOK, GhostInv, MapInv, HeldInv, NoGhostInMap, Mapped, Members
  <2>2. CASE stage[ptr[s]] # "disposed"
    <3>1. ptr[s] \in Groups /\ stage[ptr[s]] # "unused"
      BY <1>4 DEF AddSubSession, GhostInv, HeldInv
    <3>2. \A h \in Groups : Members(h)' = Members(h) \/ (h = ptr[s] /\ Members(h)' = Members(h) \cup {s})
      BY <1>4, <2>2, <3>1 DEF AddSubSession, TypeOK, Members
    <3>3. MapInv'
      BY <1>4, <2>2, <3>1 DEF AddSubSession, TypeOK, GhostInv, MapInv, Mapped
    <3>4. HeldInv'
      BY <1>4, <2>2, <3>1, <3>2 DEF AddSubSession, TypeOK, GhostInv, HeldInv, Mapped
    <3>5. NoGhostInMap'
      BY <1>4, <2>2, <3>2, JoinedIsMember DEF AddSubSession
    <3>6. QED BY <3>3, <3>4, <3>5 DEF GhostInv
  <2>3. QED BY <2>1, <2>2
<1>5. ASSUME NEW s \in Sessions, SessionEnds(s) PROVE GhostInv'
  BY <1>5 DEF SessionEnds, TypeOK, GhostInv, MapInv, HeldInv, NoGhostInMap, Mapped, Members
<1>6. ASSUME NEW s \in Sessions, OnDelSession(s) PROVE GhostInv'
  <2>1. name[s] \in Names
    BY <1>6 DEF OnDelSession, Named
  <2>2. \A m \in Names : Mapped(m) /\ s \in Members(groups[m]) => m = name[s]
    BY DEF GhostInv, NoGhostInMap, Mapped
  <2>3. HeldInv'
    BY <1>6, <2>1, <2>2 DEF OnDelSession, TypeOK, GhostInv, HeldInv, Mapped, Members
  <2>4. NoGhostInMap'
    BY <1>6, <2>1, <2>2 DEF OnDelSession, TypeOK, GhostInv, NoGhostInMap, Mapped, Members
  <2>5. QED BY <1>6, <2>3, <2>4 DEF OnDelSession, GhostInv, MapInv, Mapped
<1>7. ASSUME NEW s \in Sessions, DelSession(s) PROVE GhostInv'
  <2>1. ptr[s] \in Groups
    BY <1>7 DEF DelSession, GhostInv, HeldInv
  <2>2. \A h \in Groups : Members(h)' = IF h = ptr[s] THEN Members(h) \ {s} ELSE Members(h)
    BY <1>7, <2>1 DEF DelSession, TypeOK, Members
  <2>3. MapInv'
    BY <1>7, <2>1 DEF DelSession, TypeOK, GhostInv, MapInv, Mapped
  <2>4. HeldInv'
    BY <1>7, <2>1, <2>2 DEF DelSession, TypeOK, GhostInv, HeldInv, Mapped
  <2>5. NoGhostInMap'
    BY <1>7, <2>1, <2>2 DEF DelSession, TypeOK, GhostInv, HeldInv, NoGhostInMap, Mapped
  <2>6. QED BY <2>3, <2>4, <2>5 DEF GhostInv
<1>8. ASSUME NEW s \in Sessions, Forget(s) PROVE GhostInv'
  BY <1>8 DEF Forget, TypeOK, GhostInv, MapInv, HeldInv, NoGhostInMap, Mapped, Members
<1>9. CASE DisposeGroup
  <2>1. \A h \in Groups : Members(h)' = Members(h) \/ Members(h)' = {}
    BY <1>9 DEF DisposeGroup, TypeOK, Members
  <2>2. \A h \in Groups : stage'[h] = stage[h] \/ stage'[h] = "disposed"
    BY <1>9 DEF DisposeGroup, TypeOK
  <2>3. MapInv'
    BY <1>9, <2>2 DEF DisposeGroup, TypeOK, GhostInv, MapInv, Mapped
  <2>4. HeldInv'
    BY <1>9, <2>1, <2>2 DEF DisposeGroup, TypeOK, GhostInv, HeldInv, Mapped
  <2>5. NoGhostInMap'
    BY <1>9, <2>1 DEF DisposeGroup, TypeOK, GhostInv, NoGhostInMap, Mapped
  <2>6. QED BY <2>3, <2>4, <2>5 DEF GhostInv
<1>10. CASE IterateEnd
  <2>1. \A n \in Names : groups'[n] = groups[n] \/ groups'[n] = None
    BY <1>10 DEF IterateEnd
  <2>2. UNCHANGED <<stage, input, subs, pc, ptr, name>>
    BY <1>10 DEF IterateEnd
  <2>3. \A h : Members(h)' = Members(h)
    BY <2>2 DEF Members
  <2>4. MapInv'
    BY <2>1, <2>2 DEF GhostInv, MapInv, Mapped
  <2>5. HeldInv'
    BY <2>1, <2>2, <2>3 DEF GhostInv, HeldInv, Mapped, Members
  <2>6. NoGhostInMap'
    BY <2>1, <2>2, <2>3 DEF GhostInv, NoGhostInMap, Members
  <2>7. QED BY <2>4, <2>5, <2>6 DEF GhostInv
<1>11. ASSUME NEW g \in Groups, ForgetGroup(g) PROVE GhostInv'
  BY <1>11 DEF ForgetGroup, IsInactive, TypeOK, GhostInv, MapInv, HeldInv, NoGhostInMap, Mapped, Members
<1>12. CASE \/ \E n \in Names, s \in Sessions : KickSession(n, s)
            \/ \E g \in Groups : StopRelayPull(g) \/ GroupRunLoopReturns(g)
            \/ \E who \in {"timer", "shutdown"} : IterateBegin(who)
            \/ \E n \in Names : VisitGroup(n)
            \/ RunLoopReturns \/ UNCHANGED vars
  BY <1>12, GhostFrame DEF KickSession, StopRelayPull, GroupRunLoopReturns, IterateBegin, VisitGroup,
                           RunLoopReturns, vars
<1>13. QED
  BY <1>1, <1>2, <1>3, <1>4, <1>5, <1>6, <1>7, <1>8, <1>9, <1>10, <1>11, <1>12
  DEF Next, Api, Loops, Session

\* A session that ended is in no group a lookup can find, although nothing
\* covers a lookup and the join or leave after it.
THEOREM NoGhost == Spec => []NoGhostInMap
<1>1. Init => GhostInv
  BY DEF Init, GhostInv, MapInv, HeldInv, NoGhostInMap, Mapped
<1>2. GhostInv => NoGhostInMap
  BY DEF GhostInv
<1>3. QED BY <1>1, <1>2, GhostStep, Typing, PTL DEF Spec

-----------------------------------------------------------------------------
(* Dispose never blocks *)

\* A live group has a RunLoop and an empty exitChan, an unused object an empty
\* exitChan.
LoopInv ==
    \A g \in Groups :
      /\ stage[g] = "live" => looping[g] /\ exitMsgs[g] = 0
      /\ stage[g] = "unused" => exitMsgs[g] = 0

\* What Iterate has still to visit is in the map and not yet disposed by the
\* timer's Iterate, only the manager's Dispose leaves disposed groups in the map.
IterInv ==
    /\ iter.by = "nobody" => iter = NotIterating
    /\ iter.by = "shutdown" => server = "disposing" /\ iter.dead = {}
    /\ \A n \in iter.todo : Mapped(n) /\ n \notin iter.dead /\ n # iter.cond
    /\ iter.cond # None => Mapped(iter.cond) /\ iter.cond \notin iter.dead

\* The group of a name can take a message once more until the timer has disposed
\* it; it is still live while the server runs, and until Dispose of the manager
\* comes to it.
TakesMessage(n) ==
    /\ exitMsgs[groups[n]] = 0 \/ looping[groups[n]]
    /\ server = "running" => stage[groups[n]] = "live"
    /\ iter.by = "shutdown" /\ (n \in iter.todo \/ n = iter.cond) => stage[groups[n]] = "live"
MessageInv == \A n \in Names : Mapped(n) /\ n \notin iter.dead => TakesMessage(n)

BlockInv == LoopInv /\ IterInv /\ MessageInv

\* A lookup adds at most a live group with an empty exitChan.
LEMMA LookupBlock ==
    ASSUME TypeOK, GhostInv, BlockInv, NEW n \in Names, NEW g \in Groups,
           GetOrCreateGroup(n, g), UNCHANGED <<exitMsgs, server, iter>>
    PROVE  BlockInv'
<1>1. CASE Mapped(n)
  BY <1>1 DEF GetOrCreateGroup, BlockInv, LoopInv, IterInv, MessageInv, TakesMessage, Mapped
<1>2. CASE ~Mapped(n)
  <2>1. /\ stage[g] = "unused" /\ groups' = [groups EXCEPT ![n] = g]
        /\ stage' = [stage EXCEPT ![g] = "live"] /\ looping' = [looping EXCEPT ![g] = TRUE]
    BY <1>2 DEF GetOrCreateGroup, Mapped
  <2>2. iter = NotIterating
    BY DEF GetOrCreateGroup, ManagerFree, BlockInv, IterInv
  <2>3. LoopInv'
    BY <2>1 DEF BlockInv, LoopInv, TypeOK
  <2>4. IterInv'
    BY <2>2 DEF BlockInv, IterInv, NotIterating
  <2>5. MessageInv'
    <3> SUFFICES ASSUME NEW m \in Names, Mapped(m)', m \notin iter'.dead PROVE TakesMessage(m)'
      BY DEF MessageInv
    <3>1. CASE m = n
      BY <2>1, <2>2, <3>1 DEF TypeOK, BlockInv, LoopInv, TakesMessage, NotIterating
    <3>2. CASE m # n
      <4>1. groups'[m] = groups[m] /\ groups[m] \in Groups /\ groups[m] # g
        BY <2>1, <3>2 DEF TypeOK, GhostInv, MapInv, Mapped
      <4>2. TakesMessage(m)
        BY <4>1 DEF BlockInv, MessageInv, Mapped
      <4>3. QED BY <2>1, <4>1, <4>2 DEF TypeOK, TakesMessage
    <3>3. QED BY <3>1, <3>2
  <2>6. QED BY <2>3, <2>4, <2>5 DEF BlockInv
<1>3. QED BY <1>1, <1>2

\* A step that changes neither map, stages, RunLoops nor the iteration keeps
\* BlockInv.
LEMMA BlockFrame ==
    ASSUME BlockInv, UNCHANGED <<groups, stage, exitMsgs, looping, server, iter>>
    PROVE  BlockInv'
BY DEF BlockInv, LoopInv, IterInv, MessageInv, TakesMessage, Mapped

\* No step lets Dispose find a full exitChan that nobody reads.
LEMMA BlockStep == TypeOK /\ GhostInv /\ BlockInv /\ [Next]_vars => BlockInv'
<1> SUFFICES ASSUME TypeOK, GhostInv, BlockInv, [Next]_vars PROVE BlockInv'
  OBVIOUS
<1> USE DEF managerVars, groupVars, sessVars
<1>1. ASSUME NEW s \in Sessions, Session(s) PROVE BlockInv'
  <2>1. ASSUME NEW n \in Names, NEW g \in Groups, OnNewSession(s, n, g) PROVE BlockInv'
    BY <2>1, LookupBlock DEF OnNewSession
  <2>2. CASE \/ AddPubSession(s) \/ AddSubSession(s) \/ SessionEnds(s) \/ OnDelSession(s)
             \/ DelSession(s) \/ Forget(s)
    BY <2>2, BlockFrame DEF AddPubSession, AddSubSession, SessionEnds, OnDelSession, DelSession, Forget
  <2>3. QED BY <1>1, <2>1, <2>2 DEF Session
<1>2. CASE Api \/ UNCHANGED vars
  <2>1. ASSUME NEW n \in Names, NEW g \in Groups, StartRelayPull(n, g) PROVE BlockInv'
    BY <2>1, LookupBlock DEF StartRelayPull
  <2>2. CASE UNCHANGED <<groups, stage, exitMsgs, looping, server, iter>>
    BY <2>2, BlockFrame
  <2>3. QED BY <1>2, <2>1, <2>2 DEF Api, KickSession, StopRelayPull, vars
<1>3. ASSUME NEW who \in {"timer", "shutdown"}, IterateBegin(who) PROVE BlockInv'
  <2>1. iter = NotIterating
    BY <1>3 DEF IterateBegin, BlockInv, IterInv
  <2>2. /\ iter'.by = who /\ iter'.todo = {n \in Names : groups[n] # None}
        /\ iter'.cond = None /\ iter'.dead = {}
    BY <1>3 DEF IterateBegin, NotIterating
  <2>3. UNCHANGED <<groups, stage, exitMsgs, looping>>
    BY <1>3 DEF IterateBegin
  <2>4. LoopInv'
    BY <2>3 DEF BlockInv, LoopInv
  <2>5. IterInv'
    BY <1>3, <2>2, <2>3 DEF IterateBegin, IterInv, Mapped
  <2>6. MessageInv'
    BY <1>3, <2>1, <2>2, <2>3 DEF IterateBegin, NotIterating, BlockInv, MessageInv, TakesMessage, Mapped
  <2>7. QED BY <2>4, <2>5, <2>6 DEF BlockInv
<1>4. ASSUME NEW n \in Names, VisitGroup(n) PROVE BlockInv'
  <2>1. /\ n \in iter.todo /\ iter.cond = None
        /\ iter'.todo = iter.todo \ {n} /\ iter'.cond \in {None, n}
        /\ iter'.dead = iter.dead /\ iter'.by = iter.by
    BY <1>4 DEF VisitGroup, TypeOK
  <2>2. UNCHANGED <<groups, server, stage, exitMsgs, looping>>
    BY <1>4 DEF VisitGroup
  <2>3. iter.by # "nobody"
    BY <2>1 DEF BlockInv, IterInv, NotIterating
  <2>4. LoopInv'
    BY <2>2 DEF BlockInv, LoopInv
  <2>5. IterInv'
    BY <2>1, <2>2, <2>3 DEF BlockInv, IterInv, Mapped
  <2>6. MessageInv'
    BY <2>1, <2>2 DEF BlockInv, MessageInv, TakesMessage, Mapped
  <2>7. QED BY <2>4, <2>5, <2>6 DEF BlockInv
<1>5. CASE DisposeGroup
  <2> DEFINE c == iter.cond
             g == groups[c]
  <2>1. c # None /\ c \in Names /\ g \in Groups /\ c \notin iter.dead /\ c \notin iter.todo
    BY <1>5 DEF DisposeGroup, TypeOK, BlockInv, IterInv, Mapped
  <2>2. /\ exitMsgs[g] = 0
        /\ exitMsgs' = [exitMsgs EXCEPT ![g] = 1] /\ stage' = [stage EXCEPT ![g] = "disposed"]
        /\ UNCHANGED <<groups, server, looping>>
    BY <1>5 DEF DisposeGroup
  <2>3. /\ iter'.cond = None /\ iter'.todo = iter.todo /\ iter'.by = iter.by
        /\ iter'.dead = IF iter.by = "timer" THEN iter.dead \cup {c} ELSE iter.dead
    BY <1>5 DEF DisposeGroup, TypeOK
  <2>4. iter.by \in {"timer", "shutdown"}
    BY <2>1 DEF TypeOK, BlockInv, IterInv, NotIterating
  <2>5. LoopInv'
    BY <2>1, <2>2 DEF TypeOK, BlockInv, LoopInv
  <2>6. IterInv'
    BY <2>1, <2>2, <2>3, <2>4 DEF TypeOK, BlockInv, IterInv, Mapped
  <2>7. MessageInv'
    <3> SUFFICES ASSUME NEW m \in Names, Mapped(m)', m \notin iter'.dead PROVE TakesMessage(m)'
      BY DEF MessageInv
    <3>1. Mapped(m) /\ m \notin iter.dead /\ groups[m] \in Groups /\ TakesMessage(m)
      BY <2>2, <2>3 DEF TypeOK, BlockInv, MessageInv, Mapped
    <3>2. CASE m = c
      <4>1. iter.by = "shutdown" /\ server = "disposing"
        BY <2>3, <2>4, <3>2 DEF BlockInv, IterInv
      <4>2. looping[g]
        BY <2>1, <3>1, <3>2, <4>1 DEF TakesMessage, BlockInv, LoopInv
      <4>3. QED BY <2>1, <2>2, <2>3, <3>2, <4>1, <4>2 DEF TakesMessage
    <3>3. CASE m # c
      <4>1. groups[m] # g
        BY <2>1, <3>1, <3>3 DEF GhostInv, MapInv, Mapped
      <4>2. QED BY <2>1, <2>2, <2>3, <3>1, <3>3, <4>1 DEF TypeOK, TakesMessage
    <3>4. QED BY <3>2, <3>3
  <2>8. QED BY <2>5, <2>6, <2>7 DEF BlockInv
<1>6. CASE IterateEnd
  <2>1. /\ iter' = NotIterating /\ UNCHANGED <<stage, exitMsgs, looping>>
        /\ \A n \in Names : groups'[n] = IF n \in iter.dead THEN None ELSE groups[n]
        /\ server' = "running" => server = "running"
    BY <1>6 DEF IterateEnd
  <2>2. LoopInv'
    BY <2>1 DEF BlockInv, LoopInv
  <2>3. IterInv'
    BY <2>1 DEF IterInv, NotIterating
  <2>4. MessageInv'
    BY <2>1 DEF BlockInv, MessageInv, TakesMessage, Mapped, NotIterating
  <2>5. QED BY <2>2, <2>3, <2>4 DEF BlockInv
<1>7. CASE RunLoopReturns
  BY <1>7 DEF RunLoopReturns, BlockInv, LoopInv, IterInv, MessageInv, TakesMessage, Mapped
<1>8. ASSUME NEW g \in Groups, GroupRunLoopReturns(g) PROVE BlockInv'
  <2>1. /\ exitMsgs[g] = 1 /\ exitMsgs' = [exitMsgs EXCEPT ![g] = 0]
        /\ looping' = [looping EXCEPT ![g] = FALSE] /\ UNCHANGED <<groups, stage, server, iter>>
    BY <1>8 DEF GroupRunLoopReturns
  <2>2. stage[g] # "live"
    BY <2>1 DEF BlockInv, LoopInv
  <2>3. LoopInv'
    BY <2>1, <2>2 DEF TypeOK, BlockInv, LoopInv
  <2>4. IterInv'
    BY <2>1 DEF BlockInv, IterInv, Mapped
  <2>5. MessageInv'
    BY <2>1 DEF TypeOK, BlockInv, MessageInv, TakesMessage, Mapped
  <2>6. QED BY <2>3, <2>4, <2>5 DEF BlockInv
<1>9. ASSUME NEW g \in Groups, ForgetGroup(g) PROVE BlockInv'
  BY <1>9 DEF ForgetGroup, TypeOK, BlockInv, LoopInv, IterInv, MessageInv, TakesMessage, Mapped
<1>10. QED BY <1>1, <1>2, <1>3, <1>4, <1>5, <1>6, <1>7, <1>8, <1>9 DEF Next, Loops

\* Group.Dispose, called with the group manager locked, always finds room in
\* exitChan or a RunLoop that will make some: a shutdown and the timer together
\* send a group at most one message that nobody takes.
THEOREM NeverBlocks == Spec => []DisposeNeverBlocks
<1>1. Init => GhostInv /\ BlockInv
  BY DEF Init, GhostInv, MapInv, HeldInv, NoGhostInMap, BlockInv, LoopInv, IterInv, MessageInv,
         Mapped, NotIterating
<1>2. TypeOK /\ BlockInv => DisposeNeverBlocks
  BY DEF TypeOK, BlockInv, IterInv, MessageInv, TakesMessage, DisposeNeverBlocks
<1>3. QED BY <1>1, <1>2, GhostStep, BlockStep, Typing, PTL DEF Spec

=============================================================================
