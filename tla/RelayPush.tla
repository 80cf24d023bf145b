----------------------------- MODULE RelayPush -----------------------------
(***************************************************************************)
(* What one Group pushes to other servers: the static relay_push targets   *)
(* of the configuration, and the relay started through the HTTP API.  Both *)
(* keep their push sessions in url2PushProxy, where the stream core finds  *)
(* the sessions it forwards to.                                            *)
(*                                                                         *)
(* A static push runs in a goroutine that queues for a handshake slot,     *)
(* starts, waits for the session's end and deletes it.  The API starts its *)
(* push while it holds group.mutex, so that start is one step here, with   *)
(* either outcome; a goroutine then waits for the end and retries.         *)
(*                                                                         *)
(* Abstractions: a push session is a model value of Sessions, used again   *)
(* once its goroutine has returned; the relay's pull half is only its      *)
(* apiEnable flag here (module RelayPull has the rest).                    *)
(***************************************************************************)
EXTENDS Integers, FiniteSets

CONSTANTS
    Sessions,       \* push sessions and the goroutines that own them
    Chatty,         \* those whose peer keeps sending what the session answers by
                    \* itself (pings, data to acknowledge)
    StaticUrls,     \* targets of relay_push; not empty iff it is enabled
    ApiUrls,        \* push_url of requests
    RtspUrls,       \* those of ApiUrls that are rtsp://
    None,           \* nil
    MaxSlots,       \* capacity of pullStartSem
    RetryNums,      \* retry_num of requests
    MinBackoffMs,
    MaxBackoffMs,
    StartCap        \* bound: pushStartCount saturates here

Urls == StaticUrls \cup ApiUrls
PushEnable == StaticUrls # {}

ASSUME RelayPushAssumption ==
    /\ IsFiniteSet(Sessions) /\ Chatty \subseteq Sessions
    /\ None \notin Sessions \cup Urls
    /\ None \notin [isPushing : BOOLEAN, session : Sessions \cup {None}]
    /\ RtspUrls \subseteq ApiUrls /\ StaticUrls \cap RtspUrls = {}
    /\ MaxSlots \in Nat \ {0}
    /\ RetryNums \subseteq Int
    /\ MinBackoffMs \in Nat \ {0} /\ MaxBackoffMs \in Nat
    /\ MinBackoffMs <= MaxBackoffMs
    /\ StartCap \in Nat /\ \A n \in RetryNums : n + 1 < StartCap

VARIABLES
    input,      \* None, "pub" (rtmp or rtsp publisher), "other" input
    proxy,      \* url2PushProxy: absent, or isPushing and pushSession
    slots,      \* tokens in pullStartSem, which all groups share
    others,     \* how many of them pulls and other groups hold
    pc,         \* where the goroutine of a session is
    url,        \* the target of a session
    conn,       \* "none", "open", "closed"
    relay,      \* relayProxy without its session
    relaySession,   \* relayProxy.rtmpPushSession
    pullEnable, \* pullProxy.apiEnable
    crashed     \* a nil pushProxy was dereferenced in the recover handler

relayVars == <<relay, relaySession, pullEnable>>
vars == <<input, proxy, slots, others, pc, url, conn, relayVars, crashed>>

NoProxy == [isPushing |-> FALSE, session |-> None]
Pushing(s) == [isPushing |-> TRUE, session |-> s]
NoRelay == [isRelaying |-> FALSE, pushUrl |-> None, retryNum |-> 0,
            startCount |-> 0, backoffMs |-> 0, pulls |-> FALSE]

Targets == {u \in Urls : proxy[u] # None}

Idle == {s \in Sessions : pc[s] = "idle"}

\* Bound: the API uses a session only while one is left for every static
\* target that has no goroutine, so that startPushIfNeeded never lacks one.
Spare == IF Cardinality(Idle) > Cardinality({u \in StaticUrls : proxy[u] \in {None, NoProxy}})
         THEN Idle ELSE {}

-----------------------------------------------------------------------------
(* Fragments of handlers *)

StaticGoroutine == {"queued", "slotTimeout", "starting", "failed", "started", "wait", "ended"}

\* startPushIfNeeded: a goroutine for every target that has none.  in is the
\* input and prx url2PushProxy as the caller left them.
StartPushIfNeeded(in, prx) ==
    LET need == IF PushEnable /\ in = "pub"
                THEN {u \in Urls : prx[u] # None /\ ~prx[u].isPushing} ELSE {}
    IN  \E g \in [need -> Idle] :
          /\ \A u, v \in need : g[u] = g[v] => u = v
          /\ proxy' = [u \in Urls |-> IF u \in need
                                      THEN [prx[u] EXCEPT !.isPushing = TRUE]
                                      ELSE prx[u]]
          /\ pc' = [s \in Sessions |->
                      IF \E u \in need : g[u] = s THEN "queued" ELSE pc[s]]
          /\ url' = [s \in Sessions |->
                      IF \E u \in need : g[u] = s
                      THEN CHOOSE u \in need : g[u] = s ELSE url[s]]

Dispose(S) == [s \in Sessions |->
                 IF s \in S /\ conn[s] = "open" THEN "closed" ELSE conn[s]]

ForwardingSessions == {proxy[u].session : u \in Targets} \ {None}

ReleaseSlot == slots' = IF slots > 0 THEN slots - 1 ELSE 0

ExitGoroutine(s) ==
    /\ pc' = [pc EXCEPT ![s] = "idle"]
    /\ url' = [url EXCEPT ![s] = None]

\* pushStartCount is compared with retry_num when a session ended and again
\* before each retry; 0 means no retry.
RetryAllowed(r) ==
    r.retryNum < 0 \/ (r.retryNum > 0 /\ r.startCount <= r.retryNum)

NextBackoff(ms) ==
    IF ms <= 0 THEN MinBackoffMs
    ELSE IF 2 * ms > MaxBackoffMs THEN MaxBackoffMs ELSE 2 * ms

CountStart(r) ==
    [r EXCEPT !.startCount = IF @ < StartCap THEN @ + 1 ELSE StartCap]

-----------------------------------------------------------------------------
Init ==
    /\ input = None
    /\ proxy = [u \in Urls |-> IF u \in StaticUrls THEN NoProxy ELSE None]
    /\ slots = 0
    /\ others = 0
    /\ pc = [s \in Sessions |-> "idle"]
    /\ url = [s \in Sessions |-> None]
    /\ conn = [s \in Sessions |-> "none"]
    /\ relay = NoRelay
    /\ relaySession = None
    /\ pullEnable = FALSE
    /\ crashed = FALSE

-----------------------------------------------------------------------------
(* The input and the timer *)

\* addIn after a session became the input
AddIn(kind) ==
    /\ input = None
    /\ input' = kind
    /\ StartPushIfNeeded(kind, proxy)
    /\ UNCHANGED <<slots, conn, relayVars, crashed, others>>

StopPushResetsFlag ==
    /\ input # None
    /\ input' = None
    /\ proxy' = [u \in Urls |-> IF proxy[u] = None THEN None ELSE NoProxy]
    /\ conn' = Dispose(ForwardingSessions)
    /\ UNCHANGED <<slots, pc, url, relayVars, crashed, others>>

\* delIn: stopPushIfNeeded disposes the sessions and takes them out, but
\* leaves isPushing for their goroutines to reset.
DelIn ==
    /\ input # None
    /\ input' = None
    /\ IF PushEnable
       THEN /\ proxy' = [u \in Urls |-> IF proxy[u] = None THEN None
                                        ELSE [proxy[u] EXCEPT !.session = None]]
            /\ conn' = Dispose(ForwardingSessions)
       ELSE UNCHANGED <<proxy, conn>>
    /\ UNCHANGED <<slots, pc, url, relayVars, crashed, others>>

TickWithoutAliveCheck(stale) ==
    /\ StartPushIfNeeded(input, proxy)
    /\ UNCHANGED <<input, slots, conn, relayVars, crashed, others>>

TickWithoutStart(stale) ==
    /\ conn' = Dispose(stale)
    /\ UNCHANGED <<input, proxy, slots, pc, url, relayVars, crashed, others>>

\* Tick: new pushes, then dispose of the sessions that wrote nothing since
\* the last alive check.
Tick(stale) ==
    /\ StartPushIfNeeded(input, proxy)
    /\ conn' = Dispose(stale)
    /\ UNCHANGED <<input, slots, relayVars, crashed, others>>

-----------------------------------------------------------------------------
(* The goroutine of a static push *)

AcquireSlot(s) ==
    /\ pc[s] = "queued" /\ slots < MaxSlots
    /\ slots' = slots + 1
    /\ pc' = [pc EXCEPT ![s] = "starting"]
    /\ UNCHANGED <<input, proxy, url, conn, relayVars, crashed, others>>

\* The same, and the release, for a handshake of a pull or in another group
OthersAcquire ==
    /\ slots < MaxSlots
    /\ slots' = slots + 1 /\ others' = others + 1
    /\ UNCHANGED <<input, proxy, pc, url, conn, relayVars, crashed>>

OthersRelease ==
    /\ others > 0
    /\ ReleaseSlot /\ others' = others - 1
    /\ UNCHANGED <<input, proxy, pc, url, conn, relayVars, crashed>>

SlotTimeout(s) ==
    /\ pc[s] = "queued" /\ slots = MaxSlots
    /\ pc' = [pc EXCEPT ![s] = "slotTimeout"]
    /\ UNCHANGED <<input, proxy, slots, url, conn, relayVars, crashed, others>>

ClearPushingFlag(s) ==
    /\ pc[s] = "slotTimeout"
    /\ proxy' = IF proxy[url[s]] = None THEN proxy
                ELSE [proxy EXCEPT ![url[s]].isPushing = FALSE]
    /\ ExitGoroutine(s)
    /\ UNCHANGED <<input, slots, conn, relayVars, crashed, others>>

StartOk(s) ==
    /\ pc[s] = "starting"
    /\ ReleaseSlot
    /\ pc' = [pc EXCEPT ![s] = "started"]
    /\ conn' = [conn EXCEPT ![s] = "open"]
    /\ UNCHANGED <<input, proxy, url, relayVars, crashed, others>>

StartErrKeepsSlot(s) ==
    /\ pc[s] = "starting"
    /\ pc' = [pc EXCEPT ![s] = "failed"]
    /\ UNCHANGED <<input, proxy, slots, url, conn, relayVars, crashed, others>>

StartErr(s) ==
    /\ pc[s] = "starting"
    /\ ReleaseSlot
    /\ pc' = [pc EXCEPT ![s] = "failed"]
    /\ UNCHANGED <<input, proxy, url, conn, relayVars, crashed, others>>

\* AddRtmpPushSession.  Without an entry for the target it panics, and so
\* does the recover handler, which calls DelRtmpPushSession.
AddRtmpPushSession(s) ==
    /\ pc[s] = "started"
    /\ IF proxy[url[s]] = None
       THEN crashed' = TRUE /\ UNCHANGED proxy
       ELSE /\ proxy' = [proxy EXCEPT ![url[s]].session = s]
            /\ UNCHANGED crashed
    /\ pc' = [pc EXCEPT ![s] = "wait"]
    /\ UNCHANGED <<input, slots, url, conn, relayVars, others>>

\* WaitChan delivers: the peer closed, or someone disposed the session.
SessionEnds(s) ==
    /\ pc[s] = "wait"
    /\ pc' = [pc EXCEPT ![s] = "ended"]
    /\ conn' = [conn EXCEPT ![s] = "none"]
    /\ UNCHANGED <<input, proxy, slots, url, relayVars, crashed, others>>

DelRtmpPushSession(s) ==
    /\ pc[s] \in {"failed", "ended"}
    /\ IF proxy[url[s]] = None
       THEN crashed' = TRUE /\ UNCHANGED proxy
       ELSE /\ proxy' = [proxy EXCEPT ![url[s]] = NoProxy]
            /\ UNCHANGED crashed
    /\ ExitGoroutine(s)
    /\ UNCHANGED <<input, slots, conn, relayVars, others>>

-----------------------------------------------------------------------------
(* The relay of the HTTP API *)

\* startPushLocked with relayProxy r and, on success, what its caller sets.
\* An rtsp push is only prepared; a start that fails is counted as well.
StartPushLocked(r, u, s, ok) ==
    IF u \in RtspUrls
    THEN /\ ok
         /\ relay' = [r EXCEPT !.isRelaying = TRUE]
         /\ UNCHANGED <<proxy, pc, url, conn, relaySession>>
    ELSE IF ok
    THEN /\ relay' = [CountStart(r) EXCEPT !.isRelaying = TRUE]
         /\ relaySession' = s
         /\ proxy' = [proxy EXCEPT ![u] = Pushing(s)]
         /\ pc' = [pc EXCEPT ![s] = "relayWait"]
         /\ url' = [url EXCEPT ![s] = u]
         /\ conn' = [conn EXCEPT ![s] = "open"]
    ELSE /\ relay' = CountStart(r)
         /\ UNCHANGED <<proxy, pc, url, conn, relaySession>>

\* StartRelay.  A running relay is left as it is.  The pull half is refused when the
\* group has an input (ErrDupInStream), and may be for other reasons (a backoff
\* runs, no retries are left); then no push is started.
StartRelay(u, n, s, pullOk, pushOk) ==
    /\ ~relay.isRelaying
    /\ s \in Spare
    /\ pullOk => input = None
    /\ LET r == [NoRelay EXCEPT !.pushUrl = u, !.retryNum = n]
       IN  IF pullOk
           THEN /\ StartPushLocked([r EXCEPT !.pulls = TRUE], u, s, pushOk)
                /\ pullEnable' = pushOk
           ELSE /\ relay' = r
                /\ pullEnable' = TRUE
                /\ UNCHANGED <<proxy, pc, url, conn, relaySession>>
    /\ UNCHANGED <<input, slots, crashed, others>>

\* StartPushOnly: the same target of a running relay is left as it is;
\* another one takes the place of the former.
StartPushOnly(u, n, s, ok) ==
    /\ ~(relay.isRelaying /\ relay.pushUrl = u)
    /\ s \in Spare
    /\ StartPushLocked([relay EXCEPT !.pushUrl = u, !.retryNum = n,
                                     !.startCount = 0, !.backoffMs = 0], u, s, ok)
    /\ UNCHANGED <<input, slots, pullEnable, crashed, others>>

StopRelay ==
    /\ relay.isRelaying
    /\ pullEnable' = (pullEnable /\ ~relay.pulls)
    /\ conn' = Dispose({relaySession})
    /\ relaySession' = None
    /\ relay' = [relay EXCEPT !.isRelaying = FALSE, !.startCount = 0,
                              !.backoffMs = 0, !.pulls = FALSE]
    /\ UNCHANGED <<input, proxy, slots, pc, url, crashed, others>>

\* The goroutine of startRtmpPushLocked after WaitChan.
RelaySessionEnds(s) ==
    LET retry == relay.isRelaying /\ RetryAllowed(relay)
    IN  /\ pc[s] = "relayWait"
        /\ relaySession' = IF relaySession = s THEN None ELSE relaySession
        /\ proxy' = [proxy EXCEPT ![url[s]] = None]
        /\ relay' = [relay EXCEPT !.backoffMs = IF retry THEN NextBackoff(@) ELSE 0]
        /\ conn' = [conn EXCEPT ![s] = "none"]
        /\ IF retry THEN pc' = [pc EXCEPT ![s] = "relaySleep"] /\ UNCHANGED url
                    ELSE ExitGoroutine(s)
        /\ UNCHANGED <<input, slots, pullEnable, crashed, others>>

RelayAbortRetry(s) ==
    /\ pc[s] = "relaySleep"
    /\ ~(relay.isRelaying /\ RetryAllowed(relay))
    /\ ExitGoroutine(s)
    /\ UNCHANGED <<input, proxy, slots, conn, relayVars, crashed, others>>

\* One round of the retry loop: startRtmpPushLocked for the current pushUrl,
\* with a new session t; an rtsp target cannot be started this way.
RelayRetry(s, t, ok) ==
    /\ pc[s] = "relaySleep"
    /\ relay.isRelaying /\ RetryAllowed(relay)
    /\ t \in Spare
    /\ ok => relay.pushUrl \notin RtspUrls
    /\ IF ok
       THEN /\ relay' = [CountStart(relay) EXCEPT !.backoffMs = 0]
            /\ relaySession' = t
            /\ proxy' = [proxy EXCEPT ![relay.pushUrl] = Pushing(t)]
            /\ pc' = [pc EXCEPT ![s] = "idle", ![t] = "relayWait"]
            /\ url' = [url EXCEPT ![s] = None, ![t] = relay.pushUrl]
            /\ conn' = [conn EXCEPT ![t] = "open"]
       ELSE /\ relay' = [CountStart(relay) EXCEPT !.backoffMs = NextBackoff(@)]
            /\ UNCHANGED <<relaySession, proxy, pc, url, conn>>
    /\ UNCHANGED <<input, slots, pullEnable, crashed, others>>

-----------------------------------------------------------------------------
StaticPush(s) ==
    \/ AcquireSlot(s) \/ SlotTimeout(s) \/ ClearPushingFlag(s)
    \/ StartOk(s) \/ StartErr(s) \/ AddRtmpPushSession(s) \/ DelRtmpPushSession(s)
    \/ SessionEnds(s)

Relay ==
    \/ \E u \in ApiUrls, n \in RetryNums, s \in Sessions :
          \/ \E pullOk, pushOk \in BOOLEAN : StartRelay(u, n, s, pullOk, pushOk)
          \/ \E ok \in BOOLEAN : StartPushOnly(u, n, s, ok)
    \/ StopRelay
    \/ \E s \in Sessions :
          \/ RelaySessionEnds(s) \/ RelayAbortRetry(s)
          \/ \E t \in Sessions, ok \in BOOLEAN : RelayRetry(s, t, ok)

Next ==
    \/ DelIn \/ \E k \in {"pub", "other"} : AddIn(k)
    \/ \E stale \in SUBSET ForwardingSessions : Tick(stale)
    \/ Relay
    \/ \E s \in Sessions : StaticPush(s)
    \/ OthersAcquire \/ OthersRelease

Spec == Init /\ [][Next]_vars

(* Goroutines run, WaitChan delivers what a dispose caused, RunLoop ticks.  *)
(* Without an input a session writes only what its peer makes it answer, so *)
(* an alive check finds every push to a silent peer stale.                  *)
Wakes(s) ==
    \/ (SessionEnds(s) \/ RelaySessionEnds(s)) /\ conn[s] = "closed"
    \/ AcquireSlot(s) \/ SlotTimeout(s) \/ ClearPushingFlag(s)
    \/ StartOk(s) \/ StartErr(s) \/ AddRtmpPushSession(s) \/ DelRtmpPushSession(s)

TickIdle == input = None /\ Tick(ForwardingSessions \ Chatty)

FairSpec ==
    /\ Spec
    /\ \A s \in Sessions : WF_vars(Wakes(s))
    /\ WF_vars(Tick({})) /\ WF_vars(TickIdle)

-----------------------------------------------------------------------------
(* Properties *)

TypeOK ==
    /\ input \in {None, "pub", "other"}
    /\ proxy \in [Urls -> {None} \cup [isPushing : BOOLEAN, session : Sessions \cup {None}]]
    /\ slots \in 0..MaxSlots /\ others \in 0..MaxSlots
    /\ pc \in [Sessions -> StaticGoroutine \cup {"idle", "relayWait", "relaySleep"}]
    /\ url \in [Sessions -> Urls \cup {None}]
    /\ conn \in [Sessions -> {"none", "open", "closed"}]
    /\ relay \in [isRelaying : BOOLEAN, pushUrl : Urls \cup {None}, retryNum : RetryNums \cup {0},
                  startCount : 0..StartCap, backoffMs : 0..MaxBackoffMs,
                  pulls : BOOLEAN]
    /\ relaySession \in Sessions \cup {None}
    /\ pullEnable \in BOOLEAN
    /\ crashed \in BOOLEAN

\* isPushing is exactly "a goroutine works for this target": publishers that
\* come and go while a handshake is in flight neither start a second push to
\* a target nor leave the flag set with nobody to reset it.  The handshake slots
\* are the static pushes between acquire and Start, and what others hold.  And
\* retry_num holds for all goroutines of a relay together: pushStartCount never
\* passes it by more than the first start.
PushesAccounted ==
    /\ \A u \in StaticUrls :
         LET g == {s \in Sessions : pc[s] \in StaticGoroutine /\ url[s] = u}
         IN  IF proxy[u].isPushing THEN Cardinality(g) = 1 ELSE g = {}
    /\ slots = others + Cardinality({s \in Sessions : pc[s] = "starting"})
    /\ relay.retryNum >= 0 => relay.startCount <= relay.retryNum + 1

\* A push that finished its handshake after the publisher had left is taken
\* out again: without an input no push stays for ever, unless its peer keeps it
\* writing (the alive check counts answers to pings and acknowledgements as well).
PushFollowsInput ==
    \A s \in Sessions \ Chatty :
        (input = None /\ s \in ForwardingSessions)
            ~> (input # None \/ s \notin ForwardingSessions)

\* While a publisher stays, every target gets a push (the comment in
\* startPushIfNeeded: otherwise the target would never be pushed to again).
TargetPushed ==
    \A u \in StaticUrls :
        (input = "pub" /\ proxy[u].session = None)
            ~> (input # "pub" \/ \E s \in Sessions : url[s] = u)

\* A panic of a push goroutine is recovered and the target's flag is reset
\* (the comment above clearPushingFlag).
PanicsRecovered == ~crashed

=============================================================================
