----------------------------- MODULE RelayPull -----------------------------
(***************************************************************************)
(* One Group of pkg/logic: who may be its input stream, and the relay-pull *)
(* task that fills the group from a remote RTMP or RTSP server.            *)
(*                                                                         *)
(* Every pull attempt is a session (a model value for its unique key), a   *)
(* goroutine started by pullIfNeeded (pc), and the connect goroutine that  *)
(* Start spawns (net).  The steps of a goroutine are its critical sections *)
(* under group.mutex and the points where it blocks.                       *)
(*                                                                         *)
(* Abstractions: a pull URL is its protocol, the moments compared with     *)
(* time.Now() are Booleans that time passing may flip, a model value of    *)
(* Attempts is used again once nothing refers to the old session (Forget). *)
(***************************************************************************)
EXTENDS Integers, FiniteSets

CONSTANTS
    Attempts,       \* unique keys of pull sessions
    Pubs,           \* rtmp, rtsp and customize publishers
    Subs,           \* viewers of any protocol
    None,           \* nil
    MaxSlots,       \* capacity of pullStartSem
    MinBackoffMs,
    MaxBackoffMs,
    StaticEnable,   \* static_relay_pull.enable of the configuration
    PullUrls,       \* protocols a start_relay_pull request may name
    RetryNums,      \* pull_retry_num of requests, negative for "forever"
    AutoStops,      \* auto_stop_pull_after_no_out_ms of requests
    StartCap        \* bound: startCount saturates here

Kinds == {"rtmp", "rtsp"}
PullField(k) == IF k = "rtmp" THEN "rtmpPull" ELSE "rtspPull"
PullFields == {"rtmpPull", "rtspPull"}
PubFields == {"rtmpPub", "rtspPub", "customizePub"}

ASSUME RelayPullAssumption ==
    /\ IsFiniteSet(Attempts)
    /\ None \notin Attempts \cup Pubs \cup Kinds
    /\ Attempts \cap Pubs = {}
    /\ MaxSlots \in Nat \ {0}
    /\ MinBackoffMs \in Nat \ {0} /\ MaxBackoffMs \in Nat
    /\ MinBackoffMs <= MaxBackoffMs
    /\ StaticEnable \in BOOLEAN
    /\ PullUrls \subseteq Kinds
    /\ RetryNums \subseteq Int /\ AutoStops \subseteq Int
    /\ StartCap \in Nat /\ \A n \in RetryNums : n + 1 < StartCap

VARIABLES
    group,             \* "live", "condemned" (IsInactive said yes), "disposed"
    inSession,         \* the five input fields of Group and pullProxy
    pubOpen,           \* the field a publisher's connection asked for, or None
    subs,              \* the sub session sets
    task,              \* apiEnable, url, retryNum, autoStop of pullProxy
    startCount,
    noOutExpired,      \* now - lastHasOutTs >= autoStopPullAfterNoOutMs
    isSessionPulling,
    pullingSessionId,
    backoffMs,
    inBackoff,         \* nextPullTsMs is set and lies in the future
    slots,             \* tokens in pullStartSem
    pc,                \* where the pull goroutine of an attempt is
    kind,              \* rtPullUrl of the attempt
    net,               \* where the connect goroutine of its session is
    conn,              \* s.conn
    disposed,          \* disposeOnce was used
    result,            \* what errChan / doResultChan hold
    waitErr            \* what WaitChan delivers

groupVars == <<group, inSession, pubOpen, subs>>
proxyVars == <<task, startCount, noOutExpired, isSessionPulling,
               pullingSessionId, backoffMs, inBackoff>>
sessVars  == <<net, conn, disposed, result, waitErr>>
vars == <<groupVars, proxyVars, slots, pc, kind, sessVars>>

-----------------------------------------------------------------------------
(* Predicates of Group *)

HasPullSession == \E f \in PullFields : inSession[f] # None
HasPubSession  == \E f \in PubFields : inSession[f] # None
HasInSession   == HasPubSession \/ HasPullSession

PullSessionUniqueKey ==
    IF inSession["rtmpPull"] # None THEN inSession["rtmpPull"]
                                    ELSE inSession["rtspPull"]

IsCurrentAttempt(a) == isSessionPulling /\ pullingSessionId = a

Enabled(t) == StaticEnable \/ t.apiEnable

RetryLeft(t) == t.retryNum < 0 \/ startCount <= t.retryNum

ShouldAutoStopPull(t, viewers) ==
    /\ t.autoStop >= 0
    /\ viewers = {}
    /\ t.autoStop = 0 \/ noOutExpired

ShouldStartPull(t, viewers, waiting) ==
    /\ ~waiting
    /\ ~HasInSession
    /\ ~isSessionPulling
    /\ Enabled(t)
    /\ ~ShouldAutoStopPull(t, viewers)
    /\ RetryLeft(t)

ForgetsBackoff ==
    HasPullSession \/ isSessionPulling \/ ShouldStartPull(task, subs, inBackoff)

\* The URL is empty until the static configuration or a request names one.
IsPullModuleAlive ==
    \/ HasPullSession
    \/ isSessionPulling
    \/ /\ Enabled(task)
       /\ task.url # None
       /\ ~ShouldAutoStopPull(task, subs)
       /\ RetryLeft(task)
    \/ ShouldStartPull(task, subs, inBackoff)

IsInactive == ~HasInSession /\ subs = {} /\ ~IsPullModuleAlive

-----------------------------------------------------------------------------
(* Fragments of handlers *)

ResetPullBackoff == backoffMs' = 0 /\ inBackoff' = FALSE

SchedulePullBackoff ==
    /\ backoffMs' = IF backoffMs = 0 THEN MinBackoffMs
                    ELSE IF 2 * backoffMs > MaxBackoffMs THEN MaxBackoffMs
                    ELSE 2 * backoffMs
    /\ inBackoff' = TRUE

ClearAttempt == isSessionPulling' = FALSE /\ pullingSessionId' = None

\* dispose of the sessions S.  disposeOnce is used up even while s.conn is
\* still nil; WaitChan then never hears of it.
DisposeSessions(S) ==
    LET closing(b) == b \in S /\ ~disposed[b] /\ conn[b] = "open"
        waking(b)  == b \in S /\ ~disposed[b] /\ waitErr[b] = "half"
    IN  /\ conn' = [b \in Attempts |-> IF closing(b) THEN "closed" ELSE conn[b]]
        /\ waitErr' = [b \in Attempts |->
                         IF closing(b) \/ waking(b) THEN "nil" ELSE waitErr[b]]
        /\ disposed' = [b \in Attempts |-> disposed[b] \/ b \in S]

\* pullIfNeeded: at most one new attempt, its goroutine queues for a slot.
PullIfNeeded(t, viewers, waiting) ==
    IF ShouldStartPull(t, viewers, waiting)
    THEN \E a \in Attempts :
           /\ pc[a] = "idle"
           /\ isSessionPulling' = TRUE
           /\ pullingSessionId' = a
           /\ pc' = [pc EXCEPT ![a] = "queued"]
           /\ kind' = [kind EXCEPT ![a] = t.url]
    ELSE UNCHANGED <<isSessionPulling, pullingSessionId, pc, kind>>

StopPullBody ==
    /\ startCount' = 0
    /\ ClearAttempt
    /\ ResetPullBackoff
    /\ DisposeSessions({PullSessionUniqueKey} \ {None})

\* The whole effect of delIn on who is the input: the publishers' fields.
DelIn(in) == [f \in DOMAIN in |-> IF f \in PubFields THEN None ELSE in[f]]

KeepsMark(a) ==
    IF IsCurrentAttempt(a)
    THEN SchedulePullBackoff /\ UNCHANGED <<isSessionPulling, pullingSessionId>>
    ELSE UNCHANGED <<isSessionPulling, pullingSessionId, backoffMs, inBackoff>>

OnPullStartFailed(a) ==
    IF IsCurrentAttempt(a)
    THEN ClearAttempt /\ SchedulePullBackoff
    ELSE UNCHANGED <<isSessionPulling, pullingSessionId, backoffMs, inBackoff>>

OnPullSessionExited(a) ==
    IF a # PullSessionUniqueKey THEN UNCHANGED <<backoffMs, inBackoff>>
    ELSE IF waitErr[a] = "nil" THEN ResetPullBackoff
    ELSE SchedulePullBackoff

-----------------------------------------------------------------------------
Init ==
    /\ group = "live"
    /\ inSession = [f \in PubFields \cup PullFields |-> None]
    /\ pubOpen = [p \in Pubs |-> None]
    /\ subs = {}
    /\ task = [apiEnable |-> FALSE,
               url       |-> IF StaticEnable THEN "rtmp" ELSE None,
               retryNum  |-> -1,
               autoStop  |-> 0]
    /\ startCount = 0
    /\ noOutExpired = FALSE
    /\ isSessionPulling = FALSE
    /\ pullingSessionId = None
    /\ backoffMs = 0
    /\ inBackoff = FALSE
    /\ slots = 0
    /\ pc = [a \in Attempts |-> "idle"]
    /\ kind = [a \in Attempts |-> None]
    /\ net = [a \in Attempts |-> "none"]
    /\ conn = [a \in Attempts |-> "nil"]
    /\ disposed = [a \in Attempts |-> FALSE]
    /\ result = [a \in Attempts |-> "none"]
    /\ waitErr = [a \in Attempts |-> "none"]

-----------------------------------------------------------------------------
(* The API and the callbacks of other sessions.  They look the group up    *)
(* and lock it afterwards, so they may reach one that was disposed between. *)

StartPull(url, retryNum, autoStop) ==
    LET t == [apiEnable |-> TRUE, url |-> url,
              retryNum |-> retryNum, autoStop |-> autoStop]
    IN  /\ task' = t
        /\ ResetPullBackoff
        /\ PullIfNeeded(t, subs, FALSE)
        /\ UNCHANGED <<groupVars, startCount, noOutExpired, slots, sessVars>>

StopPull ==
    /\ task' = [task EXCEPT !.apiEnable = FALSE]
    /\ StopPullBody
    /\ UNCHANGED <<groupVars, noOutExpired, slots, pc, kind, net, result>>

KickPull(a) ==
    /\ \E f \in PullFields : inSession[f] = a
    /\ task' = [task EXCEPT !.apiEnable = FALSE]
    /\ StopPullBody
    /\ UNCHANGED <<groupVars, noOutExpired, slots, pc, kind, net, result>>

AddSub(s) ==
    /\ s \notin subs
    /\ subs' = subs \cup {s}
    /\ PullIfNeeded(task, subs', inBackoff)
    /\ UNCHANGED <<group, inSession, pubOpen, task, startCount, noOutExpired,
                   backoffMs, inBackoff, slots, sessVars>>

DelSub(s) ==
    /\ s \in subs
    /\ subs' = subs \ {s}
    /\ UNCHANGED <<group, inSession, pubOpen, proxyVars, slots, pc, kind, sessVars>>

AddPubUngated(p, f) ==
    /\ pubOpen[p] = None
    /\ pubOpen' = [pubOpen EXCEPT ![p] = f]
    /\ inSession' = [inSession EXCEPT ![f] = p]
    /\ UNCHANGED <<group, subs, proxyVars, slots, pc, kind, sessVars>>

\* AddRtmpPubSession, AddRtspPubSession, AddCustomizePubSession.  The group
\* manager keys groups by stream name, so a customize publisher never meets
\* one of another name and its replacement branch is not taken.
AddPub(p, f) ==
    /\ pubOpen[p] = None
    /\ pubOpen' = [pubOpen EXCEPT ![p] = f]
    /\ inSession' = IF HasInSession THEN inSession
                                    ELSE [inSession EXCEPT ![f] = p]
    /\ UNCHANGED <<group, subs, proxyVars, slots, pc, kind, sessVars>>

\* The connection of p ends; a refused publisher ends here as well.
DelPub(p) ==
    /\ pubOpen[p] # None
    /\ inSession' = IF inSession[pubOpen[p]] = p THEN DelIn(inSession) ELSE inSession
    /\ pubOpen' = [pubOpen EXCEPT ![p] = None]
    /\ UNCHANGED <<group, subs, proxyVars, slots, pc, kind, sessVars>>

-----------------------------------------------------------------------------
(* The timer of ServerManager.RunLoop and time itself *)

TickWithoutAliveCheck(stale) ==
    /\ group = "live"
    /\ stale => HasPullSession
    /\ noOutExpired' = (noOutExpired /\ subs = {})
    /\ \/ /\ ShouldAutoStopPull(task, subs)
          /\ StopPullBody
          /\ UNCHANGED <<pc, kind>>
       \/ /\ ~ShouldAutoStopPull(task, subs)
          /\ PullIfNeeded(task, subs, inBackoff)
          /\ UNCHANGED <<startCount, backoffMs, inBackoff, conn, disposed, waitErr>>
    /\ UNCHANGED <<groupVars, task, slots, net, result>>

\* Group.Tick; stale says that the alive check of this second found that the
\* pull session read nothing since the last check.
Tick(stale) ==
    /\ group = "live"
    /\ stale => HasPullSession
    /\ noOutExpired' = (noOutExpired /\ subs = {})
    /\ \/ /\ ShouldAutoStopPull(task, subs)
          /\ StopPullBody
          /\ UNCHANGED <<pc, kind>>
       \/ /\ ~ShouldAutoStopPull(task, subs)
          /\ PullIfNeeded(task, subs, inBackoff)
          /\ DisposeSessions(IF stale THEN {PullSessionUniqueKey} ELSE {})
          /\ UNCHANGED <<startCount, backoffMs, inBackoff>>
    /\ UNCHANGED <<groupVars, task, slots, net, result>>

\* RunLoop's callback: IsInactive and Dispose take the group's lock in turn.
FindInactive ==
    /\ group = "live"
    /\ IsInactive
    /\ group' = "condemned"
    /\ UNCHANGED <<inSession, pubOpen, subs, proxyVars, slots, pc, kind, sessVars>>

DisposeGroup ==
    /\ group = "condemned"
    /\ group' = "disposed"
    /\ subs' = {}
    /\ inSession' = DelIn(inSession)
    /\ UNCHANGED <<pubOpen, proxyVars, slots, pc, kind, sessVars>>

BackoffElapses ==
    /\ inBackoff
    /\ inBackoff' = FALSE
    /\ UNCHANGED <<groupVars, task, startCount, noOutExpired, isSessionPulling,
                   pullingSessionId, backoffMs, slots, pc, kind, sessVars>>

\* Only a positive threshold is ever compared with the clock.
NoOutElapses ==
    /\ ~noOutExpired
    /\ \E o \in AutoStops : o > 0
    /\ noOutExpired' = TRUE
    /\ UNCHANGED <<groupVars, task, startCount, isSessionPulling,
                   pullingSessionId, backoffMs, inBackoff, slots, pc, kind, sessVars>>

-----------------------------------------------------------------------------
(* The pull goroutine of attempt a *)

AcquireSlot(a) ==
    /\ pc[a] = "queued"
    /\ slots < MaxSlots
    /\ slots' = slots + 1
    /\ pc' = [pc EXCEPT ![a] = "recheck"]
    /\ UNCHANGED <<groupVars, proxyVars, kind, sessVars>>

\* The timer of acquirePullStartSlot can only win while the channel is full.
SlotTimeout(a) ==
    /\ pc[a] = "queued"
    /\ slots = MaxSlots
    /\ pc' = [pc EXCEPT ![a] = "slotTimeout"]
    /\ UNCHANGED <<groupVars, proxyVars, slots, kind, sessVars>>

AbortQueued(a) ==
    /\ pc[a] = "slotTimeout"
    /\ OnPullStartFailed(a)
    /\ DisposeSessions({a})
    /\ pc' = [pc EXCEPT ![a] = "done"]
    /\ net' = [net EXCEPT ![a] = "end"]
    /\ UNCHANGED <<groupVars, task, startCount, noOutExpired, slots, kind, result>>

\* releasePullStartSlot never blocks: an empty channel is left empty.
Released == IF slots > 0 THEN slots - 1 ELSE 0

Recheck(a) ==
    /\ pc[a] = "recheck"
    /\ IF IsCurrentAttempt(a)
       THEN /\ startCount' = IF startCount < StartCap THEN startCount + 1 ELSE StartCap
            /\ pc' = [pc EXCEPT ![a] = "starting"]
            /\ net' = [net EXCEPT ![a] = "dial"]
            /\ UNCHANGED <<slots, conn, disposed, waitErr>>
       ELSE /\ DisposeSessions({a})
            /\ slots' = Released
            /\ pc' = [pc EXCEPT ![a] = "done"]
            /\ net' = [net EXCEPT ![a] = "end"]
            /\ UNCHANGED startCount
    /\ UNCHANGED <<groupVars, task, noOutExpired, isSessionPulling,
                   pullingSessionId, backoffMs, inBackoff, kind, result>>

\* Start returned nil.  An rtsp session begins to read only now.
StartOk(a) ==
    /\ pc[a] = "starting"
    /\ result[a] = "ok"
    /\ slots' = Released
    /\ pc' = [pc EXCEPT ![a] = "running"]
    /\ net' = [net EXCEPT ![a] = "reading"]
    /\ UNCHANGED <<groupVars, proxyVars, kind, conn, disposed, result, waitErr>>

StartErrKeepsSlot(a) ==
    /\ pc[a] = "starting"
    /\ result[a] = "err"
    /\ DisposeSessions({a})
    /\ pc' = [pc EXCEPT ![a] = "failed"]
    /\ UNCHANGED <<groupVars, proxyVars, slots, kind, net, result>>

StartErr(a) ==
    /\ pc[a] = "starting"
    /\ result[a] = "err"
    /\ slots' = Released
    /\ DisposeSessions({a})
    /\ pc' = [pc EXCEPT ![a] = "failed"]
    /\ UNCHANGED <<groupVars, proxyVars, kind, net, result>>

\* pull_timeout_ms runs out; the connect goroutine is not told.
StartTimeout(a) ==
    /\ pc[a] = "starting"
    /\ slots' = Released
    /\ DisposeSessions({a})
    /\ pc' = [pc EXCEPT ![a] = "failed"]
    /\ UNCHANGED <<groupVars, proxyVars, kind, net, result>>

StartFailed(a) ==
    /\ pc[a] = "failed"
    /\ OnPullStartFailed(a)
    /\ pc' = [pc EXCEPT ![a] = "done"]
    /\ UNCHANGED <<groupVars, task, startCount, noOutExpired, slots, kind, sessVars>>

SessionExited(a) ==
    /\ pc[a] = "running"
    /\ waitErr[a] \in {"nil", "err"}
    /\ OnPullSessionExited(a)
    /\ pc' = [pc EXCEPT ![a] = "deleting"]
    /\ UNCHANGED <<groupVars, task, startCount, noOutExpired, isSessionPulling,
                   pullingSessionId, slots, kind, sessVars>>

\* DelRtmpPullSession, DelRtspPullSession: resetRelayPullSession and delIn
\* when a is the group's pull session, else only its attempt mark.
DelPullSession(a) ==
    /\ pc[a] = "deleting"
    /\ IF \E f \in PullFields : inSession[f] = a
       THEN /\ inSession' = [f \in DOMAIN inSession |-> None]
            /\ ClearAttempt
       ELSE /\ UNCHANGED inSession
            /\ IF IsCurrentAttempt(a) THEN ClearAttempt
               ELSE UNCHANGED <<isSessionPulling, pullingSessionId>>
    /\ pc' = [pc EXCEPT ![a] = "done"]
    /\ UNCHANGED <<group, pubOpen, subs, task, startCount, noOutExpired,
                   backoffMs, inBackoff, slots, kind, sessVars>>

-----------------------------------------------------------------------------
(* The connect goroutine of attempt a *)

DialOk(a) ==
    /\ net[a] = "dial"
    /\ net' = [net EXCEPT ![a] = "handshake"]
    /\ conn' = [conn EXCEPT ![a] = "open"]
    /\ UNCHANGED <<groupVars, proxyVars, slots, pc, kind, disposed, result, waitErr>>

\* An error that reaches errChan: dial, handshake, OPTIONS, DESCRIBE, SETUP
\* or PLAY.  On a closed connection this is all that can happen.
ConnectErr(a) ==
    /\ net[a] \in {"dial", "handshake", "setup"}
    /\ net' = [net EXCEPT ![a] = "end"]
    /\ result' = [result EXCEPT ![a] = "err"]
    /\ UNCHANGED <<groupVars, proxyVars, slots, pc, kind, conn, disposed, waitErr>>

\* The rtmp read loop ends before Play.Start: dispose, but no word to errChan.
ReadLoopErrBeforePlay(a) ==
    /\ net[a] = "handshake" /\ kind[a] = "rtmp"
    /\ net' = [net EXCEPT ![a] = "end"]
    /\ conn' = [conn EXCEPT ![a] = "closed"]
    /\ waitErr' = [waitErr EXCEPT ![a] = IF conn[a] = "open" THEN "err" ELSE @]
    /\ disposed' = [disposed EXCEPT ![a] = TRUE]
    /\ UNCHANGED <<groupVars, proxyVars, slots, pc, kind, result>>

\* NetStream.Play.Start, or the response to DESCRIBE, has been read.
Answered(a) ==
    /\ net[a] = "handshake" /\ conn[a] = "open"
    /\ net' = [net EXCEPT ![a] = "answered"]
    /\ UNCHANGED <<groupVars, proxyVars, slots, pc, kind, conn, disposed, result, waitErr>>

AddPullReplaces(a) ==
    /\ net[a] = "answered"
    /\ IF HasInSession /\ inSession[PullField(kind[a])] = None
       THEN /\ DisposeSessions({a})
            /\ UNCHANGED <<inSession, backoffMs, inBackoff>>
       ELSE /\ inSession' = [inSession EXCEPT ![PullField(kind[a])] = a]
            /\ IF IsCurrentAttempt(a) THEN ResetPullBackoff
               ELSE UNCHANGED <<backoffMs, inBackoff>>
            /\ UNCHANGED <<conn, disposed, waitErr>>
    /\ IF IsCurrentAttempt(a) THEN ClearAttempt
       ELSE UNCHANGED <<isSessionPulling, pullingSessionId>>
    /\ IF kind[a] = "rtmp"
       THEN /\ net' = [net EXCEPT ![a] = "reading"]
            /\ result' = [result EXCEPT ![a] = "ok"]
       ELSE /\ net' = [net EXCEPT ![a] = "setup"]
            /\ UNCHANGED result
    /\ UNCHANGED <<group, pubOpen, subs, task, startCount, noOutExpired,
                   slots, pc, kind>>

\* AddRtmpPullSession, AddRtspPullSession and the callback around them.  For
\* rtmp Start may now return; rtsp still has SETUP and PLAY to do.
AddPullSession(a) ==
    /\ net[a] = "answered"
    /\ IF HasInSession
       THEN /\ DisposeSessions({a})
            /\ UNCHANGED <<inSession, backoffMs, inBackoff>>
       ELSE /\ inSession' = [inSession EXCEPT ![PullField(kind[a])] = a]
            /\ IF IsCurrentAttempt(a) THEN ResetPullBackoff
               ELSE UNCHANGED <<backoffMs, inBackoff>>
            /\ UNCHANGED <<conn, disposed, waitErr>>
    /\ IF IsCurrentAttempt(a) THEN ClearAttempt
       ELSE UNCHANGED <<isSessionPulling, pullingSessionId>>
    /\ IF kind[a] = "rtmp"
       THEN /\ net' = [net EXCEPT ![a] = "reading"]
            /\ result' = [result EXCEPT ![a] = "ok"]
       ELSE /\ net' = [net EXCEPT ![a] = "setup"]
            /\ UNCHANGED result
    /\ UNCHANGED <<group, pubOpen, subs, task, startCount, noOutExpired,
                   slots, pc, kind>>

SetupOk(a) ==
    /\ net[a] = "setup" /\ conn[a] = "open"
    /\ net' = [net EXCEPT ![a] = "ready"]
    /\ result' = [result EXCEPT ![a] = "ok"]
    /\ UNCHANGED <<groupVars, proxyVars, slots, pc, kind, conn, disposed, waitErr>>

\* The peer goes away, or the read loop meets the closed connection.
ReadErr(a) ==
    /\ net[a] = "reading"
    /\ net' = [net EXCEPT ![a] = "end"]
    /\ conn' = [conn EXCEPT ![a] = "closed"]
    /\ waitErr' = [waitErr EXCEPT ![a] = IF conn[a] = "open" THEN "err" ELSE @]
    /\ disposed' = [disposed EXCEPT ![a] = TRUE]
    /\ UNCHANGED <<groupVars, proxyVars, slots, pc, kind, result>>

\* The peer sends what the read loop cannot use.  rtmp disposes the session;
\* the rtsp keep-alive closes only the command session, with a nil error, and
\* WaitChan goes on waiting for the other half.
ProtocolErr(a) ==
    /\ net[a] = "reading" /\ conn[a] = "open"
    /\ net' = [net EXCEPT ![a] = "end"]
    /\ IF kind[a] = "rtmp"
       THEN DisposeSessions({a})
       ELSE /\ conn' = [conn EXCEPT ![a] = "closed"]
            /\ waitErr' = [waitErr EXCEPT ![a] = "half"]
            /\ UNCHANGED disposed
    /\ UNCHANGED <<groupVars, proxyVars, slots, pc, kind, result>>

\* Nothing refers to the session any more.
Forget(a) ==
    /\ pc[a] = "done"
    /\ net[a] \in {"end", "ready"}
    /\ \A f \in PullFields : inSession[f] # a
    /\ pc' = [pc EXCEPT ![a] = "idle"]
    /\ kind' = [kind EXCEPT ![a] = None]
    /\ net' = [net EXCEPT ![a] = "none"]
    /\ conn' = [conn EXCEPT ![a] = "nil"]
    /\ disposed' = [disposed EXCEPT ![a] = FALSE]
    /\ result' = [result EXCEPT ![a] = "none"]
    /\ waitErr' = [waitErr EXCEPT ![a] = "none"]
    /\ UNCHANGED <<groupVars, proxyVars, slots>>

-----------------------------------------------------------------------------
Api ==
    \/ \E u \in PullUrls, n \in RetryNums, o \in AutoStops : StartPull(u, n, o)
    \/ StopPull
    \/ \E a \in Attempts : KickPull(a)
    \/ \E s \in Subs : AddSub(s) \/ DelSub(s)
    \/ \E p \in Pubs : DelPub(p) \/ \E f \in PubFields : AddPub(p, f)

Timer == (\E stale \in BOOLEAN : Tick(stale)) \/ FindInactive \/ DisposeGroup

Time == BackoffElapses \/ NoOutElapses

PullGoroutine(a) ==
    \/ AcquireSlot(a) \/ SlotTimeout(a) \/ AbortQueued(a) \/ Recheck(a)
    \/ StartOk(a) \/ StartErr(a) \/ StartTimeout(a) \/ StartFailed(a)
    \/ SessionExited(a) \/ DelPullSession(a)

ConnectGoroutine(a) ==
    \/ DialOk(a) \/ ConnectErr(a) \/ ReadLoopErrBeforePlay(a) \/ Answered(a)
    \/ AddPullSession(a) \/ SetupOk(a) \/ ReadErr(a) \/ ProtocolErr(a)

Next ==
    \/ Api \/ Timer \/ Time
    \/ \E a \in Attempts : PullGoroutine(a) \/ ConnectGoroutine(a) \/ Forget(a)

Spec == Init /\ [][Next]_vars

-----------------------------------------------------------------------------
(* Fairness: goroutines run, RunLoop ticks every second, timers fire.      *)
(* Nothing is assumed of the remote server.                                *)

\* The alive check of a tick when the connection can deliver nothing more.
TickDead == Tick(TRUE) /\ conn[PullSessionUniqueKey] = "closed"

FairSpec ==
    /\ Spec
    /\ \A a \in Attempts : WF_vars(PullGoroutine(a))
    /\ WF_vars(Tick(FALSE)) /\ WF_vars(TickDead)
    /\ WF_vars(BackoffElapses)

-----------------------------------------------------------------------------
(* Properties *)

PcValues == {"idle", "queued", "slotTimeout", "recheck", "starting", "failed",
             "running", "deleting", "done"}
NetValues == {"none", "dial", "handshake", "answered", "setup", "ready",
              "reading", "end"}

TypeOK ==
    /\ group \in {"live", "condemned", "disposed"}
    /\ inSession \in [PubFields \cup PullFields -> Pubs \cup Attempts \cup {None}]
    /\ \A f \in PubFields : inSession[f] \in Pubs \cup {None}
    /\ \A f \in PullFields : inSession[f] \in Attempts \cup {None}
    /\ pubOpen \in [Pubs -> PubFields \cup {None}]
    /\ subs \subseteq Subs
    /\ task \in [apiEnable : BOOLEAN, url : Kinds \cup {None},
                 retryNum : RetryNums \cup {-1}, autoStop : AutoStops \cup {0}]
    /\ startCount \in 0..StartCap
    /\ noOutExpired \in BOOLEAN
    /\ isSessionPulling \in BOOLEAN
    /\ pullingSessionId \in Attempts \cup {None}
    /\ backoffMs \in 0..MaxBackoffMs
    /\ inBackoff \in BOOLEAN
    /\ slots \in 0..MaxSlots
    /\ pc \in [Attempts -> PcValues]
    /\ kind \in [Attempts -> Kinds \cup {None}]
    /\ net \in [Attempts -> NetValues]
    /\ conn \in [Attempts -> {"nil", "open", "closed"}]
    /\ disposed \in [Attempts -> BOOLEAN]
    /\ result \in [Attempts -> {"none", "ok", "err"}]
    /\ waitErr \in [Attempts -> {"none", "nil", "err", "half"}]

\* A publisher and a pull, or two pulls, never feed the group together,
\* whatever was in flight when each of them asked (the hasInSession gates).
AtMostOneInput ==
    \A f, g \in PubFields \cup PullFields :
        inSession[f] # None /\ inSession[g] # None => f = g

\* The group implements the abstract input: no step swaps one input for
\* another or lets a second one in.
InputOf(in) ==
    LET set == {f \in PubFields \cup PullFields : in[f] # None}
    IN  IF set = {} THEN None ELSE in[CHOOSE f \in set : TRUE]
Abstract == INSTANCE InStream WITH Sessions <- Pubs \cup Attempts, in <- InputOf(inSession)
ImplementsInStream == Abstract!Spec

\* The attempt mark is never left behind and the handshake semaphore neither
\* leaked nor released twice: while isSessionPulling is set, the goroutine of
\* pullingSessionId has still to pass a point that clears it, and the tokens are
\* exactly the goroutines between acquire and Start's return.
Pending == {"queued", "slotTimeout", "recheck", "starting", "failed"}
HoldsSlot(a) == pc[a] \in {"recheck", "starting"}
AttemptsAccounted ==
    /\ isSessionPulling <=> pullingSessionId # None
    /\ isSessionPulling => pc[pullingSessionId] \in Pending
    /\ slots = Cardinality({a \in Attempts : HoldsSlot(a)})

\* No attempt stays current for ever: the group is not stuck "pulling".
AttemptResolves ==
    \A a \in Attempts : (pullingSessionId = a) ~> (pullingSessionId # a)

\* A pull session whose connection is gone leaves a live group, also when
\* only one half of an rtsp session noticed.
DeadSessionLeaves ==
    \A a \in Attempts :
        (/\ group = "live" /\ pc[a] = "running" /\ conn[a] = "closed"
         /\ \E f \in PullFields : inSession[f] = a)
          ~> (\A f \in PullFields : inSession[f] # a)

\* A live group whose task is enabled, has a retry left and no input, starts an
\* attempt within some ticks or stops wanting one.  The timer does not give the
\* group up meanwhile (the comment in isPullModuleAlive), although in a backoff
\* pause it has neither a session nor an attempt.
Wanted ==
    /\ Enabled(task) /\ ~HasInSession
    /\ ~ShouldAutoStopPull(task, subs)
    /\ task.retryNum < 0 \/ startCount <= task.retryNum
    /\ \E a \in Attempts : pc[a] = "idle"     \* a bound of the model
WantedPullStarts == (group = "live" /\ Wanted) ~> (isSessionPulling \/ ~Wanted)

\* The comment where pullIfNeeded records the attempt id: every error path
\* cleans up, so that the group is not stuck.  A goroutine that has returned
\* leaves no session in the group.
NoOrphanSession ==
    \A a \in Attempts :
        pc[a] = "done" => \A f \in PullFields : inSession[f] # a

=============================================================================
