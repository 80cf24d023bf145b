-------------------------- MODULE RelayPullProofs --------------------------
(* Machine-checked proofs about RelayPull, for every value of its constants. *)
EXTENDS RelayPull, FiniteSetTheorems, TLAPS

USE RelayPullAssumption DEF RelayPullAssumption

-----------------------------------------------------------------------------
(* Type correctness *)

\* Disposing sessions keeps the types of the fields it writes.
LEMMA DisposeTyping ==
    ASSUME TypeOK, NEW S, DisposeSessions(S)
    PROVE  /\ conn' \in [Attempts -> {"nil", "open", "closed"}]
           /\ disposed' \in [Attempts -> BOOLEAN]
           /\ waitErr' \in [Attempts -> {"none", "nil", "err", "half"}]
BY DEF TypeOK, DisposeSessions

\* Scheduling a backoff keeps it between 1 and its maximum.
LEMMA BackoffTyping ==
    ASSUME TypeOK, SchedulePullBackoff
    PROVE  backoffMs' \in 0..MaxBackoffMs /\ inBackoff' \in BOOLEAN
BY DEF TypeOK, SchedulePullBackoff

\* Clearing a backoff or an attempt mark leaves well-typed fields.
LEMMA ResetTyping ==
    ASSUME ResetPullBackoff
    PROVE  backoffMs' \in 0..MaxBackoffMs /\ inBackoff' \in BOOLEAN
<1>1. backoffMs' \in 0..MaxBackoffMs
  BY DEF ResetPullBackoff
<1>2. inBackoff' \in BOOLEAN
  BY Zenon DEF ResetPullBackoff
<1>3. QED BY <1>1, <1>2

\* Clearing the attempt mark keeps its types.
LEMMA ClearTyping ==
    ASSUME ClearAttempt
    PROVE  isSessionPulling' \in BOOLEAN /\ pullingSessionId' \in Attempts \cup {None}
BY Zenon DEF ClearAttempt

\* pullIfNeeded keeps the types of the fields it writes.
LEMMA PullIfNeededTyping ==
    ASSUME TypeOK, NEW t, NEW v, NEW w, t.url \in Kinds \cup {None}, PullIfNeeded(t, v, w)
    PROVE  /\ isSessionPulling' \in BOOLEAN
           /\ pullingSessionId' \in Attempts \cup {None}
           /\ pc' \in [Attempts -> PcValues]
           /\ kind' \in [Attempts -> Kinds \cup {None}]
BY ZenonT(40) DEF TypeOK, PullIfNeeded, PcValues

\* stopPull keeps the types of the fields it writes.
LEMMA StopPullTyping ==
    ASSUME TypeOK, StopPullBody
    PROVE  /\ startCount' \in 0..StartCap
           /\ isSessionPulling' \in BOOLEAN
           /\ pullingSessionId' \in Attempts \cup {None}
           /\ backoffMs' \in 0..MaxBackoffMs
           /\ inBackoff' \in BOOLEAN
           /\ conn' \in [Attempts -> {"nil", "open", "closed"}]
           /\ disposed' \in [Attempts -> BOOLEAN]
           /\ waitErr' \in [Attempts -> {"none", "nil", "err", "half"}]
<1>1. DisposeSessions({PullSessionUniqueKey} \ {None})
  BY DEF StopPullBody
<1>2. startCount' \in 0..StartCap
  BY DEF StopPullBody
<1>3. QED BY <1>1, <1>2, DisposeTyping, ClearTyping, ResetTyping DEF StopPullBody

\* Every reachable state of the group, its pull task and its pull sessions is
\* well typed.
THEOREM Typing == Spec => []TypeOK
<1>1. Init => TypeOK
  <2> SUFFICES ASSUME Init PROVE TypeOK
    OBVIOUS
  <2>1. task \in [apiEnable : BOOLEAN, url : Kinds \cup {None},
                 retryNum : RetryNums \cup {-1}, autoStop : AutoStops \cup {0}]
    BY DEF Init, Kinds
  <2>2. disposed \in [Attempts -> BOOLEAN]
    BY DEF Init
  <2>3. noOutExpired \in BOOLEAN /\ isSessionPulling \in BOOLEAN /\ inBackoff \in BOOLEAN
    BY Zenon DEF Init
  <2>4. QED BY <2>1, <2>2, <2>3 DEF Init, TypeOK, PcValues, NetValues, PubFields, PullFields
<1>2. TypeOK /\ [Next]_vars => TypeOK'
  <2> SUFFICES ASSUME TypeOK, [Next]_vars PROVE TypeOK'
    OBVIOUS
  <2> USE DEF groupVars, proxyVars, sessVars
  <2>1. ASSUME NEW u \in PullUrls, NEW n \in RetryNums, NEW o \in AutoStops, StartPull(u, n, o)
        PROVE  TypeOK'
    <3> DEFINE t == [apiEnable |-> TRUE, url |-> u, retryNum |-> n, autoStop |-> o]
    <3>1. PullIfNeeded(t, subs, FALSE) /\ t.url \in Kinds \cup {None}
      BY <2>1 DEF StartPull
    <3>2. task' \in [apiEnable : BOOLEAN, url : Kinds \cup {None},
                    retryNum : RetryNums \cup {-1}, autoStop : AutoStops \cup {0}]
      BY <2>1 DEF StartPull
    <3>3. /\ isSessionPulling' \in BOOLEAN /\ pullingSessionId' \in Attempts \cup {None}
          /\ pc' \in [Attempts -> PcValues] /\ kind' \in [Attempts -> Kinds \cup {None}]
      BY <3>1, PullIfNeededTyping
    <3>4. QED BY <2>1, <3>2, <3>3, ResetTyping DEF StartPull, TypeOK
  <2>2. CASE StopPull
    <3>1. task' \in [apiEnable : BOOLEAN, url : Kinds \cup {None},
                    retryNum : RetryNums \cup {-1}, autoStop : AutoStops \cup {0}]
      BY <2>2 DEF StopPull, TypeOK
    <3>2. QED BY <2>2, <3>1, StopPullTyping DEF StopPull, TypeOK
  <2>3. ASSUME NEW a \in Attempts, KickPull(a) PROVE TypeOK'
    <3>1. task' \in [apiEnable : BOOLEAN, url : Kinds \cup {None},
                    retryNum : RetryNums \cup {-1}, autoStop : AutoStops \cup {0}]
      BY <2>3 DEF KickPull, TypeOK
    <3>2. QED BY <2>3, <3>1, StopPullTyping DEF KickPull, TypeOK
  <2>4. ASSUME NEW s \in Subs, AddSub(s) PROVE TypeOK'
    <3>1. PullIfNeeded(task, subs', inBackoff) /\ task.url \in Kinds \cup {None}
      BY <2>4 DEF AddSub, TypeOK
    <3>2. QED BY <2>4, <3>1, PullIfNeededTyping DEF AddSub, TypeOK
  <2>5. ASSUME NEW s \in Subs, DelSub(s) PROVE TypeOK'
    BY <2>5 DEF DelSub, TypeOK
  <2>6. ASSUME NEW p \in Pubs, DelPub(p) PROVE TypeOK'
    BY <2>6 DEF DelPub, DelIn, TypeOK, PubFields, PullFields
  <2>7. ASSUME NEW p \in Pubs, NEW f \in PubFields, AddPub(p, f) PROVE TypeOK'
    BY <2>7 DEF AddPub, TypeOK, PubFields, PullFields
  <2>8. ASSUME NEW stale \in BOOLEAN, Tick(stale) PROVE TypeOK'
    <3>1. CASE ShouldAutoStopPull(task, subs)
      BY <2>8, <3>1, StopPullTyping DEF Tick, TypeOK
    <3>2. CASE ~ShouldAutoStopPull(task, subs)
      <4>1. PullIfNeeded(task, subs, inBackoff) /\ task.url \in Kinds \cup {None}
        BY <2>8, <3>2 DEF Tick, TypeOK
      <4>2. QED BY <2>8, <3>2, <4>1, PullIfNeededTyping, DisposeTyping DEF Tick, TypeOK
    <3>3. QED BY <3>1, <3>2
  <2>9. CASE FindInactive
    BY <2>9 DEF FindInactive, TypeOK
  <2>10. CASE DisposeGroup
    BY <2>10 DEF DisposeGroup, DelIn, TypeOK, PubFields, PullFields
  <2>11. CASE Time
    <3>1. CASE BackoffElapses
      BY <3>1 DEF BackoffElapses, TypeOK
    <3>2. CASE NoOutElapses
      BY <3>2 DEF NoOutElapses, TypeOK
    <3>3. QED BY <2>11, <3>1, <3>2 DEF Time
  <2>12. ASSUME NEW a \in Attempts, PullGoroutine(a) PROVE TypeOK'
    <3>1. CASE AcquireSlot(a)
      BY <3>1 DEF AcquireSlot, TypeOK, PcValues
    <3>2. CASE SlotTimeout(a)
      BY <3>2 DEF SlotTimeout, TypeOK, PcValues
    <3>3. CASE AbortQueued(a)
      <4>1. /\ isSessionPulling' \in BOOLEAN /\ pullingSessionId' \in Attempts \cup {None}
            /\ backoffMs' \in 0..MaxBackoffMs /\ inBackoff' \in BOOLEAN
        BY <3>3, BackoffTyping DEF AbortQueued, OnPullStartFailed, ClearAttempt, TypeOK
      <4>2. DisposeSessions({a})
        BY <3>3 DEF AbortQueued
      <4>3. QED BY <3>3, <4>1, <4>2, DisposeTyping DEF AbortQueued, TypeOK, PcValues, NetValues
    <3>4. CASE Recheck(a)
      <4>1. CASE IsCurrentAttempt(a)
        BY <3>4, <4>1 DEF Recheck, TypeOK, PcValues, NetValues
      <4>2. CASE ~IsCurrentAttempt(a)
        <5>1. DisposeSessions({a})
          BY <3>4, <4>2 DEF Recheck
        <5>2. QED
          BY <3>4, <4>2, <5>1, DisposeTyping DEF Recheck, Released, TypeOK, PcValues, NetValues
      <4>3. QED BY <4>1, <4>2
    <3>5. CASE StartOk(a)
      BY <3>5 DEF StartOk, Released, TypeOK, PcValues, NetValues
    <3>6. CASE StartErr(a)
      BY <3>6, DisposeTyping DEF StartErr, Released, TypeOK, PcValues
    <3>7. CASE StartTimeout(a)
      BY <3>7, DisposeTyping DEF StartTimeout, Released, TypeOK, PcValues
    <3>8. CASE StartFailed(a)
      BY <3>8, BackoffTyping, ZenonT(40)
         DEF StartFailed, OnPullStartFailed, ClearAttempt, TypeOK, PcValues
    <3>9. CASE SessionExited(a)
      <4>1. backoffMs' \in 0..MaxBackoffMs /\ inBackoff' \in BOOLEAN
        BY <3>9, BackoffTyping, ResetTyping DEF SessionExited, OnPullSessionExited, TypeOK
      <4>2. QED BY <3>9, <4>1 DEF SessionExited, TypeOK, PcValues
    <3>10. CASE DelPullSession(a)
      <4>1. isSessionPulling' \in BOOLEAN /\ pullingSessionId' \in Attempts \cup {None}
        BY <3>10, ClearTyping DEF DelPullSession, TypeOK
      <4>2. QED BY <3>10, <4>1 DEF DelPullSession, TypeOK, PcValues
    <3>11. QED
      BY <2>12, <3>1, <3>2, <3>3, <3>4, <3>5, <3>6, <3>7, <3>8, <3>9, <3>10 DEF PullGoroutine
  <2>13. ASSUME NEW a \in Attempts, ConnectGoroutine(a) PROVE TypeOK'
    <3>1. CASE DialOk(a)
      BY <3>1 DEF DialOk, TypeOK, NetValues
    <3>2. CASE ConnectErr(a)
      BY <3>2 DEF ConnectErr, TypeOK, NetValues
    <3>3. CASE ReadLoopErrBeforePlay(a)
      BY <3>3 DEF ReadLoopErrBeforePlay, TypeOK, NetValues
    <3>4. CASE Answered(a)
      BY <3>4 DEF Answered, TypeOK, NetValues
    <3>5. CASE AddPullSession(a)
      <4>1. inSession' \in [PubFields \cup PullFields -> Pubs \cup Attempts \cup {None}]
            /\ (\A f \in PubFields : inSession'[f] \in Pubs \cup {None})
            /\ (\A f \in PullFields : inSession'[f] \in Attempts \cup {None})
        BY <3>5 DEF AddPullSession, TypeOK, PullField, PubFields, PullFields
      <4>2. backoffMs' \in 0..MaxBackoffMs /\ inBackoff' \in BOOLEAN
            /\ isSessionPulling' \in BOOLEAN /\ pullingSessionId' \in Attempts \cup {None}
        BY <3>5, ClearTyping, ResetTyping DEF AddPullSession, TypeOK
      <4>3. /\ conn' \in [Attempts -> {"nil", "open", "closed"}]
            /\ disposed' \in [Attempts -> BOOLEAN]
            /\ waitErr' \in [Attempts -> {"none", "nil", "err", "half"}]
        <5>1. CASE HasInSession
          BY <3>5, <5>1, DisposeTyping DEF AddPullSession
        <5>2. CASE ~HasInSession
          BY <3>5, <5>2 DEF AddPullSession, TypeOK
        <5>3. QED BY <5>1, <5>2
      <4>4. net' \in [Attempts -> NetValues] /\ result' \in [Attempts -> {"none", "ok", "err"}]
        BY <3>5 DEF AddPullSession, TypeOK, NetValues
      <4>5. QED BY <3>5, <4>1, <4>2, <4>3, <4>4 DEF AddPullSession, TypeOK
    <3>6. CASE SetupOk(a)
      BY <3>6 DEF SetupOk, TypeOK, NetValues
    <3>7. CASE ReadErr(a)
      BY <3>7 DEF ReadErr, TypeOK, NetValues
    <3>8. CASE ProtocolErr(a)
      BY <3>8, DisposeTyping DEF ProtocolErr, TypeOK, NetValues
    <3>9. QED
      BY <2>13, <3>1, <3>2, <3>3, <3>4, <3>5, <3>6, <3>7, <3>8 DEF ConnectGoroutine
  <2>14. ASSUME NEW a \in Attempts, Forget(a) PROVE TypeOK'
    BY <2>14 DEF Forget, TypeOK, PcValues, NetValues
  <2>15. CASE UNCHANGED vars
    BY <2>15 DEF vars, TypeOK
  <2>16. QED
    BY <2>1, <2>2, <2>3, <2>4, <2>5, <2>6, <2>7, <2>8, <2>9, <2>10, <2>11, <2>12,
       <2>13, <2>14, <2>15 DEF Next, Api, Timer
<1>3. QED BY <1>1, <1>2, PTL DEF Spec

-----------------------------------------------------------------------------
(* One input at a time *)

Fields == PubFields \cup PullFields

\* A single non-nil field determines the abstract input.
LEMMA InputOfOne ==
    ASSUME NEW in, NEW f \in Fields, in[f] # None,
           \A g \in Fields : in[g] # None => g = f
    PROVE  InputOf(in) = in[f]
BY DEF InputOf, Fields

\* Without a set field there is no abstract input.
LEMMA InputOfNone ==
    ASSUME NEW in, \A g \in Fields : in[g] = None
    PROVE  InputOf(in) = None
BY DEF InputOf, Fields

\* hasInSession looks at all five fields; a pull session has one of two.
LEMMA InputFields ==
    /\ HasInSession <=> \E g \in Fields : inSession[g] # None
    /\ \A k : PullField(k) \in PullFields
BY DEF HasInSession, HasPubSession, HasPullSession, Fields, PullField, PullFields

\* What a step does to the input fields: nothing, the first input arrives, or
\* all fields are cleared but the pull fields of a group without input.
LEMMA InputStep ==
    ASSUME TypeOK, AtMostOneInput, [Next]_vars
    PROVE  \/ inSession' = inSession
           \/ /\ ~HasInSession
              /\ \E f \in Fields, s \in Pubs \cup Attempts :
                     inSession' = [inSession EXCEPT ![f] = s]
           \/ \A g \in Fields : inSession'[g] = None
           \/ inSession' = DelIn(inSession)
<1> USE DEF groupVars, proxyVars, sessVars, Fields
<1>1. ASSUME NEW p \in Pubs, NEW f \in PubFields, AddPub(p, f)
      PROVE  \/ inSession' = inSession
             \/ ~HasInSession /\ inSession' = [inSession EXCEPT ![f] = p]
  BY <1>1 DEF AddPub
<1>2. ASSUME NEW p \in Pubs, DelPub(p)
      PROVE  inSession' = inSession \/ inSession' = DelIn(inSession)
  BY <1>2 DEF DelPub
<1>3. ASSUME NEW a \in Attempts, DelPullSession(a)
      PROVE  inSession' = inSession \/ \A g \in Fields : inSession'[g] = None
  BY <1>3 DEF DelPullSession, TypeOK
<1>4. ASSUME NEW a \in Attempts, AddPullSession(a)
      PROVE  \/ inSession' = inSession
             \/ ~HasInSession /\ inSession' = [inSession EXCEPT ![PullField(kind[a])] = a]
  BY <1>4 DEF AddPullSession
<1>5. CASE DisposeGroup
  BY <1>5 DEF DisposeGroup
<1>6. ASSUME NEW a \in Attempts, PullGoroutine(a), ~DelPullSession(a) PROVE inSession' = inSession
  BY <1>6 DEF PullGoroutine, AcquireSlot, SlotTimeout, AbortQueued, Recheck, StartOk,
              StartErr, StartTimeout, StartFailed, SessionExited
<1>7. ASSUME NEW a \in Attempts, ConnectGoroutine(a), ~AddPullSession(a) PROVE inSession' = inSession
  BY <1>7 DEF ConnectGoroutine, DialOk, ConnectErr, ReadLoopErrBeforePlay, Answered,
              SetupOk, ReadErr, ProtocolErr
<1>8. CASE Time \/ FindInactive \/ \E stale \in BOOLEAN : Tick(stale)
  BY <1>8 DEF Time, BackoffElapses, NoOutElapses, FindInactive, Tick
<1>9. CASE \/ \E u \in PullUrls, n \in RetryNums, o \in AutoStops : StartPull(u, n, o)
           \/ StopPull \/ \E a \in Attempts : KickPull(a) \/ Forget(a)
           \/ \E s \in Subs : AddSub(s) \/ DelSub(s)
  BY <1>9 DEF StartPull, StopPull, KickPull, Forget, AddSub, DelSub
<1>10. CASE UNCHANGED vars
  BY <1>10 DEF vars
<1>11. QED
  BY <1>1, <1>2, <1>3, <1>4, <1>5, <1>6, <1>7, <1>8, <1>9, <1>10, InputFields
  DEF Next, Api, Timer

\* At most one of the five input fields is set, whatever is in flight.
THEOREM OneInput == Spec => []AtMostOneInput
<1>1. Init => AtMostOneInput
  BY DEF Init, AtMostOneInput
<1>2. TypeOK /\ AtMostOneInput /\ [Next]_vars => AtMostOneInput'
  <2> SUFFICES ASSUME TypeOK, AtMostOneInput, [Next]_vars PROVE AtMostOneInput'
    OBVIOUS
  <2>1. CASE inSession' = inSession
    BY <2>1 DEF AtMostOneInput
  <2>2. ASSUME ~HasInSession, NEW f \in Fields, NEW s \in Pubs \cup Attempts,
               inSession' = [inSession EXCEPT ![f] = s]
        PROVE  AtMostOneInput'
    BY <2>2, InputFields DEF AtMostOneInput, Fields, TypeOK
  <2>3. CASE \A g \in Fields : inSession'[g] = None
    BY <2>3 DEF AtMostOneInput, Fields
  <2>4. CASE inSession' = DelIn(inSession)
    BY <2>4 DEF AtMostOneInput, DelIn, TypeOK
  <2>5. QED BY <2>1, <2>2, <2>3, <2>4, InputStep
<1>3. QED BY <1>1, <1>2, Typing, PTL DEF Spec

\* The group implements the abstract input stream: a session becomes the
\* input only when there is none and stays it until it leaves.
THEOREM Refinement == Spec => ImplementsInStream
<1>1. Init => Abstract!Init
  BY InputOfNone DEF Init, Abstract!Init, Fields
<1>2. TypeOK /\ AtMostOneInput /\ AtMostOneInput' /\ [Next]_vars
        => [Abstract!Next]_(InputOf(inSession))
  <2> SUFFICES ASSUME TypeOK, AtMostOneInput, AtMostOneInput', [Next]_vars
               PROVE  Abstract!Next \/ InputOf(inSession)' = InputOf(inSession)
    OBVIOUS
  <2>1. CASE inSession' = inSession
    BY <2>1
  <2>2. ASSUME ~HasInSession, NEW f \in Fields, NEW s \in Pubs \cup Attempts,
               inSession' = [inSession EXCEPT ![f] = s]
        PROVE  Abstract!Next
    <3>1. InputOf(inSession) = None
      BY <2>2, InputFields, InputOfNone
    <3>2. InputOf(inSession') = s
      <4>1. inSession'[f] = s /\ s # None
        BY <2>2 DEF TypeOK, Fields
      <4>2. \A g \in Fields : inSession'[g] # None => g = f
        BY <2>2, InputFields DEF TypeOK, Fields
      <4>3. QED BY <4>1, <4>2, InputOfOne
    <3>3. QED BY <3>1, <3>2 DEF Abstract!Next, Abstract!Take
  <2>3. CASE \A g \in Fields : inSession'[g] = None
    <3>1. InputOf(inSession') = None
      BY <2>3, InputOfNone
    <3>2. QED BY <3>1 DEF Abstract!Next, Abstract!Leave
  <2>4. CASE inSession' = DelIn(inSession)
    <3>1. CASE \A g \in Fields : inSession'[g] = None
      BY <3>1, <2>3
    <3>2. CASE \E g \in Fields : inSession'[g] # None
      <4>1. PICK g \in Fields : inSession'[g] # None
        BY <3>2
      <4>2. inSession'[g] = inSession[g]
        BY <2>4, <4>1 DEF DelIn, TypeOK, Fields
      <4>3. InputOf(inSession) = inSession[g]
        BY <4>1, <4>2, InputOfOne DEF AtMostOneInput, Fields
      <4>4. InputOf(inSession') = inSession'[g]
        BY <4>1, InputOfOne DEF AtMostOneInput, Fields
      <4>5. QED BY <4>2, <4>3, <4>4
    <3>3. QED BY <3>1, <3>2
  <2>5. QED BY <2>1, <2>2, <2>3, <2>4, InputStep
<1>3. QED BY <1>1, <1>2, Typing, OneInput, PTL DEF Spec, ImplementsInStream, Abstract!Spec

-----------------------------------------------------------------------------
(* The attempt mark *)

BeforeStart == {"idle", "queued", "slotTimeout", "recheck"}

\* What makes the mark's half of AttemptsAccounted inductive: a goroutine that
\* has not called Start has no connect goroutine and no result, and as long as an
\* attempt is current its session has not passed AddPullSession, the point that
\* clears the mark before Start can return nil.
MarkInv ==
    /\ isSessionPulling <=> pullingSessionId # None
    /\ \A a \in Attempts : pc[a] \in BeforeStart => net[a] = "none" /\ result[a] = "none"
    /\ \A a \in Attempts : IsCurrentAttempt(a) =>
          /\ pc[a] \in Pending
          /\ result[a] # "ok" /\ net[a] \notin {"setup", "ready", "reading"}

\* pullIfNeeded marks only an attempt whose goroutine it starts.
LEMMA PullIfNeededMark ==
    ASSUME TypeOK, MarkInv, NEW t, NEW v, NEW w, PullIfNeeded(t, v, w),
           UNCHANGED <<net, result>>
    PROVE  MarkInv'
<1>1. CASE ShouldStartPull(t, v, w)
  <2>1. PICK a \in Attempts :
           /\ pc[a] = "idle" /\ isSessionPulling' = TRUE /\ pullingSessionId' = a
           /\ pc' = [pc EXCEPT ![a] = "queued"]
    BY <1>1 DEF PullIfNeeded
  <2>2. net[a] = "none" /\ result[a] = "none"
    BY <2>1 DEF MarkInv, BeforeStart
  <2>3. \A b \in Attempts : pc'[b] = IF b = a THEN "queued" ELSE pc[b]
    BY <2>1 DEF TypeOK
  <2>4. QED
    BY <2>1, <2>2, <2>3 DEF MarkInv, BeforeStart, IsCurrentAttempt, Pending
<1>2. CASE ~ShouldStartPull(t, v, w)
  BY <1>2 DEF PullIfNeeded, MarkInv, IsCurrentAttempt
<1>3. QED BY <1>1, <1>2

\* Clearing the mark cannot disturb it.
LEMMA ClearMark ==
    ASSUME MarkInv, ClearAttempt, UNCHANGED <<pc, net, result>>
    PROVE  MarkInv'
BY DEF MarkInv, ClearAttempt, IsCurrentAttempt

\* A failed start clears the mark if it is its own.
LEMMA StartFailedMark ==
    ASSUME MarkInv, NEW a \in Attempts, OnPullStartFailed(a)
    PROVE  /\ isSessionPulling' <=> pullingSessionId' # None
           /\ \A b \in Attempts : IsCurrentAttempt(b)' => b # a /\ IsCurrentAttempt(b)
BY DEF MarkInv, OnPullStartFailed, ClearAttempt, IsCurrentAttempt

\* No step leaves the mark behind.
LEMMA MarkStep == TypeOK /\ MarkInv /\ [Next]_vars => MarkInv'
<1> SUFFICES ASSUME TypeOK, MarkInv, [Next]_vars PROVE MarkInv'
  OBVIOUS
<1> USE DEF groupVars, proxyVars, sessVars
<1>1. ASSUME NEW u \in PullUrls, NEW n \in RetryNums, NEW o \in AutoStops, StartPull(u, n, o)
      PROVE  MarkInv'
  BY <1>1, PullIfNeededMark DEF StartPull
<1>2. CASE StopPull \/ \E a \in Attempts : KickPull(a)
  BY <1>2, ClearMark DEF StopPull, KickPull, StopPullBody
<1>3. ASSUME NEW s \in Subs, AddSub(s) PROVE MarkInv'
  BY <1>3, PullIfNeededMark DEF AddSub
<1>4. ASSUME NEW stale \in BOOLEAN, Tick(stale) PROVE MarkInv'
  <2>1. CASE ShouldAutoStopPull(task, subs)
    BY <1>4, <2>1, ClearMark DEF Tick, StopPullBody
  <2>2. CASE ~ShouldAutoStopPull(task, subs)
    BY <1>4, <2>2, PullIfNeededMark DEF Tick
  <2>3. QED BY <2>1, <2>2
<1>5. CASE \/ FindInactive \/ DisposeGroup \/ Time \/ UNCHANGED vars
           \/ \E s \in Subs : DelSub(s)
           \/ \E p \in Pubs : DelPub(p) \/ \E f \in PubFields : AddPub(p, f)
  <2>1. UNCHANGED <<isSessionPulling, pullingSessionId, pc, net, result>>
    BY <1>5 DEF FindInactive, DisposeGroup, Time, BackoffElapses, NoOutElapses, vars,
                DelSub, DelPub, AddPub
  <2>2. QED BY <2>1 DEF MarkInv, IsCurrentAttempt
<1>6. ASSUME NEW a \in Attempts, PullGoroutine(a) PROVE MarkInv'
  <2>1. CASE AcquireSlot(a) \/ SlotTimeout(a)
    BY <2>1 DEF AcquireSlot, SlotTimeout, TypeOK, MarkInv, IsCurrentAttempt, Pending, BeforeStart
  <2>2. CASE AbortQueued(a)
    BY <2>2, StartFailedMark DEF AbortQueued, TypeOK, MarkInv, Pending, BeforeStart
  <2>3. CASE Recheck(a)
    BY <2>3 DEF Recheck, TypeOK, MarkInv, IsCurrentAttempt, Pending, BeforeStart
  <2>4. CASE StartOk(a)
    <3>1. ~IsCurrentAttempt(a)
      BY <2>4 DEF StartOk, MarkInv
    <3>2. QED
      BY <2>4, <3>1 DEF StartOk, TypeOK, MarkInv, IsCurrentAttempt, Pending, BeforeStart
  <2>5. CASE StartErr(a) \/ StartTimeout(a)
    BY <2>5 DEF StartErr, StartTimeout, TypeOK, MarkInv, IsCurrentAttempt, Pending, BeforeStart
  <2>6. CASE StartFailed(a)
    BY <2>6, StartFailedMark DEF StartFailed, TypeOK, MarkInv, Pending, BeforeStart
  <2>7. CASE SessionExited(a)
    BY <2>7 DEF SessionExited, TypeOK, MarkInv, IsCurrentAttempt, Pending, BeforeStart
  <2>8. CASE DelPullSession(a)
    BY <2>8 DEF DelPullSession, ClearAttempt, TypeOK, MarkInv, IsCurrentAttempt, Pending,
                BeforeStart
  <2>9. QED
    BY <1>6, <2>1, <2>2, <2>3, <2>4, <2>5, <2>6, <2>7, <2>8 DEF PullGoroutine
<1>7. ASSUME NEW a \in Attempts, ConnectGoroutine(a) PROVE MarkInv'
  <2>1. CASE DialOk(a) \/ ConnectErr(a) \/ ReadLoopErrBeforePlay(a) \/ Answered(a)
    BY <2>1 DEF DialOk, ConnectErr, ReadLoopErrBeforePlay, Answered, TypeOK, MarkInv,
                IsCurrentAttempt
  <2>2. CASE AddPullSession(a)
    <3>1. /\ isSessionPulling' <=> pullingSessionId' # None
          /\ \A b \in Attempts : IsCurrentAttempt(b)' => b # a /\ IsCurrentAttempt(b)
      BY <2>2 DEF AddPullSession, ClearAttempt, IsCurrentAttempt, MarkInv
    <3>2. \A b \in Attempts : b # a => net'[b] = net[b] /\ result'[b] = result[b]
      BY <2>2 DEF AddPullSession, TypeOK
    <3>3. pc' = pc /\ pc[a] \notin BeforeStart
      BY <2>2 DEF AddPullSession, MarkInv
    <3>4. QED BY <3>1, <3>2, <3>3 DEF MarkInv
  <2>3. CASE SetupOk(a) \/ ReadErr(a) \/ ProtocolErr(a)
    BY <2>3 DEF SetupOk, ReadErr, ProtocolErr, TypeOK, MarkInv, IsCurrentAttempt
  <2>4. QED BY <1>7, <2>1, <2>2, <2>3 DEF ConnectGoroutine
<1>8. ASSUME NEW a \in Attempts, Forget(a) PROVE MarkInv'
  BY <1>8 DEF Forget, TypeOK, MarkInv, IsCurrentAttempt, Pending, BeforeStart
<1>9. QED
  BY <1>1, <1>2, <1>3, <1>4, <1>5, <1>6, <1>7, <1>8 DEF Next, Api, Timer

-----------------------------------------------------------------------------
(* The handshake semaphore *)

Holders == {a \in Attempts : HoldsSlot(a)}
SlotsInv == slots = Cardinality(Holders)

\* The goroutines that hold a slot are counted one by one.
LEMMA HoldersCount ==
    /\ IsFiniteSet(Holders) /\ Cardinality(Holders) \in Nat
    /\ \A a \in Attempts :
         /\ a \notin Holders => Cardinality(Holders \cup {a}) = Cardinality(Holders) + 1
         /\ a \in Holders => /\ Cardinality(Holders \ {a}) = Cardinality(Holders) - 1
                             /\ Cardinality(Holders) > 0
<1>1. IsFiniteSet(Holders)
  BY FS_Subset DEF Holders
<1>2. Cardinality(Holders) \in Nat
  BY <1>1, FS_CardinalityType
<1>3. ASSUME NEW a \in Attempts, a \in Holders
      PROVE  Cardinality(Holders \ {a}) = Cardinality(Holders) - 1 /\ Cardinality(Holders) > 0
  <2>1. Cardinality(Holders \ {a}) = Cardinality(Holders) - 1
    BY <1>1, <1>3, FS_RemoveElement
  <2>2. Cardinality(Holders) # 0
    BY <1>1, <1>3, FS_EmptySet
  <2>3. QED BY <1>2, <2>1, <2>2
<1>4. QED BY <1>1, <1>2, <1>3, FS_AddElement

\* A slot is taken when a goroutine begins to hold one and given back when it
\* ends: no step leaks one or releases it twice.
LEMMA SlotsStep ==
    TypeOK /\ SlotsInv /\ [Next]_vars => SlotsInv'
<1> SUFFICES ASSUME TypeOK, slots = Cardinality(Holders), [Next]_vars
             PROVE  slots' = Cardinality(Holders')
  BY DEF SlotsInv
<1> USE DEF groupVars, proxyVars, sessVars
<1>1. ASSUME NEW t, NEW v, NEW w, PullIfNeeded(t, v, w) PROVE Holders' = Holders
  BY <1>1 DEF PullIfNeeded, TypeOK, Holders, HoldsSlot
<1>2. CASE Api
  <2>1. slots' = slots
    BY <1>2 DEF Api, StartPull, StopPull, KickPull, AddSub, DelSub, AddPub, DelPub
  <2>2. pc' = pc \/ \E t, v, w : PullIfNeeded(t, v, w)
    BY <1>2 DEF Api, StartPull, StopPull, KickPull, AddSub, DelSub, AddPub, DelPub
  <2>3. QED BY <2>1, <2>2, <1>1 DEF Holders, HoldsSlot
<1>3. CASE Timer \/ Time \/ UNCHANGED vars
  <2>1. slots' = slots
    BY <1>3 DEF Timer, Tick, FindInactive, DisposeGroup, Time, BackoffElapses, NoOutElapses, vars
  <2>2. pc' = pc \/ \E t, v, w : PullIfNeeded(t, v, w)
    BY <1>3 DEF Timer, Tick, FindInactive, DisposeGroup, Time, BackoffElapses, NoOutElapses, vars
  <2>3. QED BY <2>1, <2>2, <1>1 DEF Holders, HoldsSlot
<1>4. ASSUME NEW a \in Attempts, AcquireSlot(a) PROVE slots' = Cardinality(Holders')
  <2>1. a \notin Holders /\ Holders' = Holders \cup {a}
    BY <1>4 DEF AcquireSlot, TypeOK, Holders, HoldsSlot
  <2>2. QED BY <1>4, <2>1, HoldersCount DEF AcquireSlot
<1>5. ASSUME NEW a \in Attempts, slots' = Released, HoldsSlot(a),
             pc'[a] \notin {"recheck", "starting"}, \A b \in Attempts \ {a} : pc'[b] = pc[b]
      PROVE  slots' = Cardinality(Holders')
  <2>1. a \in Holders /\ Holders' = Holders \ {a}
    BY <1>5 DEF Holders, HoldsSlot
  <2>2. QED BY <1>5, <2>1, HoldersCount DEF Released
<1>6. ASSUME NEW a \in Attempts, Recheck(a) PROVE slots' = Cardinality(Holders')
  <2>1. CASE IsCurrentAttempt(a)
    <3>1. Holders' = Holders /\ slots' = slots
      BY <1>6, <2>1 DEF Recheck, TypeOK, Holders, HoldsSlot
    <3>2. QED BY <3>1
  <2>2. CASE ~IsCurrentAttempt(a)
    BY <1>6, <2>2, <1>5 DEF Recheck, TypeOK, HoldsSlot
  <2>3. QED BY <2>1, <2>2
<1>7. ASSUME NEW a \in Attempts, StartOk(a) \/ StartErr(a) \/ StartTimeout(a)
      PROVE  slots' = Cardinality(Holders')
  BY <1>7, <1>5 DEF StartOk, StartErr, StartTimeout, TypeOK, HoldsSlot
<1>8. ASSUME NEW a \in Attempts, \/ SlotTimeout(a) \/ AbortQueued(a) \/ StartFailed(a)
                                 \/ SessionExited(a) \/ DelPullSession(a) \/ Forget(a)
      PROVE  slots' = Cardinality(Holders')
  <2>1. slots' = slots
    BY <1>8 DEF SlotTimeout, AbortQueued, StartFailed, SessionExited, DelPullSession, Forget
  <2>2. Holders' = Holders
    BY <1>8 DEF SlotTimeout, AbortQueued, StartFailed, SessionExited, DelPullSession, Forget,
                TypeOK, Holders, HoldsSlot
  <2>3. QED BY <2>1, <2>2
<1>9. ASSUME NEW a \in Attempts, ConnectGoroutine(a) PROVE slots' = Cardinality(Holders')
  <2>1. UNCHANGED <<slots, pc>>
    BY <1>9 DEF ConnectGoroutine, DialOk, ConnectErr, ReadLoopErrBeforePlay, Answered,
                AddPullSession, SetupOk, ReadErr, ProtocolErr
  <2>2. QED BY <2>1 DEF Holders, HoldsSlot
<1>10. QED
  BY <1>2, <1>3, <1>4, <1>6, <1>7, <1>8, <1>9 DEF Next, PullGoroutine

\* Whatever API calls, ticks, viewers, publishers and answers of servers come
\* between the steps of the goroutines, the attempt mark has a goroutine that
\* will clear it and every slot of the semaphore a handshake that holds it.
THEOREM Accounted == Spec => []AttemptsAccounted
<1>1. Init => MarkInv
  BY DEF Init, MarkInv, IsCurrentAttempt, BeforeStart
<1>2. Init => SlotsInv
  <2> SUFFICES ASSUME Init PROVE slots = Cardinality(Holders)
    BY DEF SlotsInv
  <2>1. Holders = {}
    BY DEF Init, Holders, HoldsSlot
  <2>2. QED BY <2>1, FS_EmptySet DEF Init
<1>3. TypeOK /\ MarkInv /\ SlotsInv => AttemptsAccounted
  BY DEF TypeOK, MarkInv, SlotsInv, AttemptsAccounted, Holders, IsCurrentAttempt
<1>4. QED BY <1>1, <1>2, <1>3, MarkStep, SlotsStep, Typing, PTL DEF Spec

=============================================================================
