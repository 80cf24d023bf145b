-------------------------- MODULE RelayPushProofs --------------------------
(* Machine-checked proofs about RelayPush, for every value of its constants. *)
EXTENDS RelayPush, FiniteSetTheorems, TLAPS

USE RelayPushAssumption DEF RelayPushAssumption

-----------------------------------------------------------------------------
(* Handshake slots and type correctness *)

Starting == {s \in Sessions : pc[s] = "starting"}
SlotsInv == slots = others + Cardinality(Starting)

Proxies == {None} \cup [isPushing : BOOLEAN, session : Sessions \cup {None}]
Relays == [isRelaying : BOOLEAN, pushUrl : Urls \cup {None}, retryNum : RetryNums \cup {0},
           startCount : 0..StartCap, backoffMs : 0..MaxBackoffMs, pulls : BOOLEAN]

\* The goroutines that queue after startPushIfNeeded: each was idle before, works
\* for a target whose flag was not set, and is the only new one for it; those
\* targets have their flag set now and nothing else changed.
LEMMA StartPushYields ==
    ASSUME TypeOK, NEW in, StartPushIfNeeded(in, proxy)
    PROVE  \E need \in SUBSET Urls : \E g \in [need -> Idle] :
             /\ \A u \in need : proxy[u] # None /\ ~proxy[u].isPushing
             /\ \A u, v \in need : g[u] = g[v] => u = v
             /\ proxy' = [u \in Urls |-> IF u \in need
                                         THEN [proxy[u] EXCEPT !.isPushing = TRUE]
                                         ELSE proxy[u]]
             /\ pc' = [s \in Sessions |->
                         IF \E u \in need : g[u] = s THEN "queued" ELSE pc[s]]
             /\ \A s \in Sessions : (~ \E u \in need : g[u] = s) => url'[s] = url[s]
             /\ \A u \in need : url'[g[u]] = u
<1> DEFINE N == IF PushEnable /\ in = "pub"
                THEN {u \in Urls : proxy[u] # None /\ ~proxy[u].isPushing} ELSE {}
<1>1. PICK g \in [N -> Idle] :
          /\ \A u, v \in N : g[u] = g[v] => u = v
          /\ proxy' = [u \in Urls |-> IF u \in N
                                      THEN [proxy[u] EXCEPT !.isPushing = TRUE]
                                      ELSE proxy[u]]
          /\ pc' = [s \in Sessions |->
                      IF \E u \in N : g[u] = s THEN "queued" ELSE pc[s]]
          /\ url' = [s \in Sessions |->
                      IF \E u \in N : g[u] = s
                      THEN CHOOSE u \in N : g[u] = s ELSE url[s]]
  BY DEF StartPushIfNeeded
<1>2. N \in SUBSET Urls /\ \A u \in N : proxy[u] # None /\ ~proxy[u].isPushing
  OBVIOUS
<1> HIDE DEF N
<1>3. \A u \in N : g[u] \in Sessions /\ g[u] \in Idle
  BY DEF Idle
<1>4. ASSUME NEW u \in N PROVE url'[g[u]] = u
  <2>1. g[u] \in Sessions
    BY <1>3
  <2>2. url'[g[u]] = CHOOSE v \in N : g[v] = g[u]
    BY <1>1, <2>1
  <2>3. \A v \in N : g[v] = g[u] => v = u
    BY <1>1
  <2>4. QED BY <2>2, <2>3
<1>5. \A s \in Sessions : (~ \E u \in N : g[u] = s) => url'[s] = url[s]
  BY <1>1
<1>6. QED BY <1>1, <1>2, <1>4, <1>5

\* startPushIfNeeded leaves everything well typed and nobody at a handshake.
LEMMA StartPushTyping ==
    ASSUME TypeOK, NEW in, StartPushIfNeeded(in, proxy)
    PROVE  /\ proxy' \in [Urls -> Proxies]
           /\ pc' \in [Sessions -> StaticGoroutine \cup {"idle", "relayWait", "relaySleep"}]
           /\ url' \in [Sessions -> Urls \cup {None}]
           /\ Starting' = Starting
<1>1. PICK need \in SUBSET Urls : \E g \in [need -> Idle] :
        /\ \A u \in need : proxy[u] # None /\ ~proxy[u].isPushing
        /\ proxy' = [u \in Urls |-> IF u \in need
                                    THEN [proxy[u] EXCEPT !.isPushing = TRUE]
                                    ELSE proxy[u]]
        /\ pc' = [s \in Sessions |-> IF \E u \in need : g[u] = s THEN "queued" ELSE pc[s]]
        /\ \A s \in Sessions : (~ \E u \in need : g[u] = s) => url'[s] = url[s]
        /\ \A u \in need : url'[g[u]] = u
  BY StartPushYields
<1>2. PICK g \in [need -> Idle] :
        /\ pc' = [s \in Sessions |-> IF \E u \in need : g[u] = s THEN "queued" ELSE pc[s]]
        /\ \A s \in Sessions : (~ \E u \in need : g[u] = s) => url'[s] = url[s]
        /\ \A u \in need : url'[g[u]] = u
  BY <1>1
<1>3. proxy' \in [Urls -> Proxies]
  <2>1. ASSUME NEW u \in need PROVE [proxy[u] EXCEPT !.isPushing = TRUE] \in Proxies
    <3>1. proxy[u] \in [isPushing : BOOLEAN, session : Sessions \cup {None}]
      BY <1>1 DEF TypeOK
    <3>2. QED BY <3>1 DEF Proxies
  <2>2. \A u \in Urls : proxy[u] \in Proxies
    BY DEF TypeOK, Proxies
  <2>3. \A u \in Urls : proxy'[u] \in Proxies
    BY <1>1, <2>1, <2>2
  <2>4. proxy' = [u \in Urls |-> proxy'[u]]
    BY <1>1
  <2>5. QED BY <2>3, <2>4
<1>4. pc' \in [Sessions -> StaticGoroutine \cup {"idle", "relayWait", "relaySleep"}]
  BY <1>2 DEF TypeOK, StaticGoroutine
<1>5. url' \in [Sessions -> Urls \cup {None}]
  <2>1. \A s \in Sessions : url'[s] \in Urls \cup {None}
    BY <1>2 DEF TypeOK
  <2>2. url' = [s \in Sessions |-> url'[s]]
    BY DEF StartPushIfNeeded
  <2>3. QED BY <2>1, <2>2
<1>6. \A s \in Sessions : pc'[s] = "starting" <=> pc[s] = "starting"
  BY <1>2 DEF Idle
<1>7. QED BY <1>3, <1>4, <1>5, <1>6 DEF Starting

\* Counting a start and the next backoff stay within their bounds.
LEMMA RelayTyping ==
    ASSUME NEW r \in Relays
    PROVE  /\ CountStart(r) \in Relays
           /\ CountStart(r).startCount = IF r.startCount < StartCap THEN r.startCount + 1
                                         ELSE StartCap
           /\ CountStart(r).retryNum = r.retryNum /\ CountStart(r).pushUrl = r.pushUrl
           /\ CountStart(r).isRelaying = r.isRelaying
           /\ CountStart(r).backoffMs = r.backoffMs
           /\ NextBackoff(r.backoffMs) \in 0..MaxBackoffMs
<1>1. r.startCount \in 0..StartCap /\ r.backoffMs \in 0..MaxBackoffMs
  BY DEF Relays
<1>2. (IF r.startCount < StartCap THEN r.startCount + 1 ELSE StartCap) \in 0..StartCap
  BY <1>1
<1>3. CountStart(r) \in Relays
  BY <1>2 DEF CountStart, Relays
<1>4. NextBackoff(r.backoffMs) \in 0..MaxBackoffMs
  BY <1>1 DEF NextBackoff
<1>5. QED BY <1>3, <1>4 DEF CountStart, Relays

\* retry_num is a number, also before the first request.
LEMMA RetryNumInt == ASSUME NEW r \in Relays PROVE r.retryNum \in Int
<1>1. r.retryNum \in RetryNums \cup {0}
  BY DEF Relays
<1>2. CASE r.retryNum \in RetryNums
  BY <1>2
<1>3. CASE r.retryNum = 0
  BY <1>3
<1>4. QED BY <1>1, <1>2, <1>3

FirstRelay(u, n) == [NoRelay EXCEPT !.pushUrl = u, !.retryNum = n]
Redirected(u, n) ==
    [relay EXCEPT !.pushUrl = u, !.retryNum = n, !.startCount = 0, !.backoffMs = 0]

\* relayProxy as StartRelay fills it.
LEMMA NewRelayTyping ==
    ASSUME NEW u \in ApiUrls, NEW n \in RetryNums
    PROVE  /\ FirstRelay(u, n) \in Relays /\ FirstRelay(u, n).pushUrl = u
           /\ FirstRelay(u, n).retryNum = n /\ FirstRelay(u, n).startCount = 0
<1>1. u \in Urls \cup {None} /\ n \in RetryNums \cup {0}
      /\ 0 \in 0..StartCap /\ 0 \in 0..MaxBackoffMs
  BY DEF Urls
<1>2. FirstRelay(u, n) \in Relays
  BY ONLY <1>1 DEF FirstRelay, NoRelay, Relays
<1>3. /\ FirstRelay(u, n).pushUrl = u /\ FirstRelay(u, n).retryNum = n
      /\ FirstRelay(u, n).startCount = 0
  BY ONLY TRUE DEF FirstRelay, NoRelay
<1>4. QED BY <1>2, <1>3

\* The same for StartPushOnly, which keeps the rest of a running relay.
LEMMA RedirectedTyping ==
    ASSUME relay \in Relays, NEW u \in ApiUrls, NEW n \in RetryNums
    PROVE  /\ Redirected(u, n) \in Relays /\ Redirected(u, n).pushUrl = u
           /\ Redirected(u, n).startCount = 0
<1>1. u \in Urls \cup {None} /\ n \in RetryNums \cup {0}
      /\ 0 \in 0..StartCap /\ 0 \in 0..MaxBackoffMs
  BY DEF Urls
<1>2. QED BY ONLY <1>1, relay \in Relays DEF Redirected, Relays

\* The number of handshakes in flight, and what adding or removing one does to it.
LEMMA StartingCount ==
    /\ IsFiniteSet(Starting) /\ Cardinality(Starting) \in Nat
    /\ \A s \in Sessions :
         /\ s \notin Starting => Cardinality(Starting \cup {s}) = Cardinality(Starting) + 1
         /\ s \in Starting => /\ Cardinality(Starting \ {s}) = Cardinality(Starting) - 1
                              /\ Cardinality(Starting) > 0
<1>1. IsFiniteSet(Starting)
  BY FS_Subset DEF Starting
<1>2. Cardinality(Starting) \in Nat
  BY <1>1, FS_CardinalityType
<1>3. ASSUME NEW s \in Sessions, s \in Starting
      PROVE  Cardinality(Starting \ {s}) = Cardinality(Starting) - 1 /\ Cardinality(Starting) > 0
  <2>1. Cardinality(Starting \ {s}) = Cardinality(Starting) - 1
    BY <1>1, <1>3, FS_RemoveElement
  <2>2. Cardinality(Starting) # 0
    BY <1>1, <1>3, FS_EmptySet
  <2>3. QED BY <1>2, <2>1, <2>2
<1>4. QED BY <1>1, <1>2, <1>3, FS_AddElement

PushState ==
    /\ proxy \in [Urls -> Proxies]
    /\ pc \in [Sessions -> StaticGoroutine \cup {"idle", "relayWait", "relaySleep"}]
    /\ url \in [Sessions -> Urls \cup {None}]
    /\ conn \in [Sessions -> {"none", "open", "closed"}]
    /\ relay \in Relays /\ relaySession \in Sessions \cup {None}

SlotState ==
    /\ slots \in 0..MaxSlots /\ others \in 0..MaxSlots
    /\ SlotsInv

\* TypeOK in two halves: the handshake slots need their count to stay in range.
LEMMA Halves ==
    TypeOK /\ SlotsInv <=> /\ PushState /\ SlotState
                           /\ input \in {None, "pub", "other"}
                           /\ pullEnable \in BOOLEAN /\ crashed \in BOOLEAN
BY DEF TypeOK, PushState, SlotState, Proxies, Relays

\* Disposing sessions keeps their connections well typed.
LEMMA DisposeTyping ==
    ASSUME PushState, NEW S
    PROVE  Dispose(S) \in [Sessions -> {"none", "open", "closed"}]
BY DEF Dispose, PushState

\* A start of the API, whatever its outcome, leaves the push state well typed
\* and takes no handshake slot.
LEMMA StartPushLockedTyping ==
    ASSUME PushState, NEW r \in Relays, NEW u \in ApiUrls, NEW s \in Idle, NEW ok \in BOOLEAN,
           StartPushLocked(r, u, s, ok)
    PROVE  PushState' /\ Starting' = Starting
<1>0. s \in Sessions /\ u \in Urls /\ pc[s] = "idle"
  BY DEF Idle, Urls
<1>1. [r EXCEPT !.isRelaying = TRUE] \in Relays
  BY DEF Relays
<1>2. CountStart(r) \in Relays
  BY RelayTyping
<1>3. [CountStart(r) EXCEPT !.isRelaying = TRUE] \in Relays
  BY <1>2 DEF Relays
<1>4. Pushing(s) \in Proxies
  BY <1>0 DEF Pushing, Proxies
<1>5. CASE u \in RtspUrls \/ ~ok
  BY <1>1, <1>2, <1>5 DEF StartPushLocked, PushState, Starting
<1>6. CASE u \notin RtspUrls /\ ok
  <2>1. /\ relay' = [CountStart(r) EXCEPT !.isRelaying = TRUE]
        /\ relaySession' = s
        /\ proxy' = [proxy EXCEPT ![u] = Pushing(s)]
        /\ pc' = [pc EXCEPT ![s] = "relayWait"]
        /\ url' = [url EXCEPT ![s] = u]
        /\ conn' = [conn EXCEPT ![s] = "open"]
    BY <1>6 DEF StartPushLocked
  <2>2. Starting' = Starting
    BY <1>0, <2>1 DEF Starting, PushState
  <2>3. proxy' \in [Urls -> Proxies]
    BY <1>4, <2>1 DEF PushState
  <2>4. QED BY <1>0, <1>3, <2>1, <2>2, <2>3 DEF PushState
<1>7. QED BY <1>5, <1>6

\* The API and the goroutines it starts.
LEMMA RelayTypes ==
    ASSUME PushState, Relay
    PROVE  PushState' /\ Starting' = Starting /\ UNCHANGED <<slots, others, input, crashed>>
<1> USE DEF relayVars
<1>1. UNCHANGED <<slots, others, input, crashed>>
  BY DEF Relay, StartRelay, StartPushOnly, StopRelay, RelaySessionEnds, RelayAbortRetry,
         RelayRetry
<1>2. Spare \subseteq Idle
  BY DEF Spare
<1>3. ASSUME NEW u \in ApiUrls, NEW n \in RetryNums, NEW s \in Sessions,
             NEW pullOk \in BOOLEAN, NEW pushOk \in BOOLEAN, StartRelay(u, n, s, pullOk, pushOk)
      PROVE  PushState' /\ Starting' = Starting
  <2>1. FirstRelay(u, n) \in Relays /\ [FirstRelay(u, n) EXCEPT !.pulls = TRUE] \in Relays
    <3>1. FirstRelay(u, n) \in Relays
      BY NewRelayTyping
    <3>2. QED BY ONLY <3>1 DEF Relays
  <2>2. CASE pullOk
    <3>1. StartPushLocked([FirstRelay(u, n) EXCEPT !.pulls = TRUE], u, s, pushOk) /\ s \in Idle
      BY <1>2, <1>3, <2>2 DEF StartRelay, FirstRelay
    <3>2. QED BY <2>1, <3>1, StartPushLockedTyping
  <2>3. CASE ~pullOk
    <3>1. relay' = FirstRelay(u, n) /\ UNCHANGED <<proxy, pc, url, conn, relaySession>>
      BY <1>3, <2>3 DEF StartRelay, FirstRelay
    <3>2. QED BY <2>1, <3>1 DEF PushState, Starting
  <2>4. QED BY <2>2, <2>3
<1>4. ASSUME NEW u \in ApiUrls, NEW n \in RetryNums, NEW s \in Sessions, NEW ok \in BOOLEAN,
             StartPushOnly(u, n, s, ok)
      PROVE  PushState' /\ Starting' = Starting
  <2>1. StartPushLocked(Redirected(u, n), u, s, ok) /\ s \in Idle
    BY <1>2, <1>4 DEF StartPushOnly, Redirected
  <2>2. Redirected(u, n) \in Relays
    BY RedirectedTyping DEF PushState
  <2>3. QED BY <2>1, <2>2, StartPushLockedTyping
<1>5. CASE StopRelay
  <2>1. relay' \in Relays
    <3>1. /\ relay.pushUrl \in Urls \cup {None} /\ relay.retryNum \in RetryNums \cup {0}
          /\ 0 \in 0..StartCap /\ 0 \in 0..MaxBackoffMs
      BY DEF PushState, Relays
    <3>2. relay' = [isRelaying |-> FALSE, pushUrl |-> relay.pushUrl, retryNum |-> relay.retryNum,
                    startCount |-> 0, backoffMs |-> 0, pulls |-> FALSE]
      BY <1>5 DEF StopRelay, PushState, Relays
    <3>3. QED BY <3>1, <3>2 DEF Relays
  <2>2. QED BY <1>5, <2>1, DisposeTyping DEF StopRelay, PushState, Starting
<1>6. ASSUME NEW s \in Sessions, RelaySessionEnds(s) PROVE PushState' /\ Starting' = Starting
  <2>1. relay' \in Relays
    <3>1. NextBackoff(relay.backoffMs) \in 0..MaxBackoffMs /\ 0 \in 0..MaxBackoffMs
      BY RelayTyping DEF PushState
    <3>2. QED BY <1>6, <3>1 DEF RelaySessionEnds, PushState, Relays
  <2>2. proxy' \in [Urls -> Proxies]
    BY <1>6 DEF RelaySessionEnds, PushState, Proxies
  <2>3. /\ pc' \in [Sessions -> StaticGoroutine \cup {"idle", "relayWait", "relaySleep"}]
        /\ url' \in [Sessions -> Urls \cup {None}] /\ Starting' = Starting
    BY <1>6 DEF RelaySessionEnds, ExitGoroutine, PushState, Starting
  <2>4. QED BY <1>6, <2>1, <2>2, <2>3 DEF RelaySessionEnds, PushState
<1>7. ASSUME NEW s \in Sessions, RelayAbortRetry(s) PROVE PushState' /\ Starting' = Starting
  BY <1>7 DEF RelayAbortRetry, ExitGoroutine, PushState, Starting
<1>8. ASSUME NEW s \in Sessions, NEW t \in Sessions, NEW ok \in BOOLEAN, RelayRetry(s, t, ok)
      PROVE  PushState' /\ Starting' = Starting
  <2>1. CountStart(relay) \in Relays /\ NextBackoff(relay.backoffMs) \in 0..MaxBackoffMs
        /\ 0 \in 0..MaxBackoffMs /\ CountStart(relay).backoffMs = relay.backoffMs
    BY RelayTyping DEF PushState
  <2>2. relay' \in Relays
    BY <1>8, <2>1 DEF RelayRetry, Relays
  <2>3. CASE ~ok
    BY <1>8, <2>2, <2>3 DEF RelayRetry, PushState, Starting
  <2>4. CASE ok
    <3>1. /\ relaySession' = t
          /\ proxy' = [proxy EXCEPT ![relay.pushUrl] = Pushing(t)]
          /\ pc' = [pc EXCEPT ![s] = "idle", ![t] = "relayWait"]
          /\ url' = [url EXCEPT ![s] = None, ![t] = relay.pushUrl]
          /\ conn' = [conn EXCEPT ![t] = "open"]
          /\ pc[s] = "relaySleep" /\ pc[t] = "idle"
      BY <1>2, <1>8, <2>4 DEF RelayRetry, Idle
    <3>2. relay.pushUrl \in Urls \cup {None}
      BY DEF PushState, Relays
    <3>3. Pushing(t) \in Proxies
      BY DEF Pushing, Proxies
    <3>4. proxy' \in [Urls -> Proxies]
      BY <3>1, <3>3 DEF PushState
    <3>5. /\ pc' \in [Sessions -> StaticGoroutine \cup {"idle", "relayWait", "relaySleep"}]
          /\ url' \in [Sessions -> Urls \cup {None}] /\ Starting' = Starting
      BY <3>1, <3>2 DEF PushState, Starting
    <3>6. QED BY <2>2, <3>1, <3>4, <3>5 DEF PushState
  <2>5. QED BY <2>3, <2>4
<1>9. QED BY <1>1, <1>3, <1>4, <1>5, <1>6, <1>7, <1>8 DEF Relay

\* The goroutine of a static push: a slot is taken when its handshake begins and
\* given back when it ends, whichever way.
LEMMA StaticTypes ==
    ASSUME PushState, SlotState, NEW s \in Sessions, StaticPush(s)
    PROVE  PushState' /\ SlotState' /\ UNCHANGED <<input, pullEnable>>
<1> USE DEF relayVars
<1>1. UNCHANGED <<input, pullEnable, others>>
  BY DEF StaticPush, AcquireSlot, SlotTimeout, ClearPushingFlag, StartOk, StartErr,
         AddRtmpPushSession, DelRtmpPushSession, SessionEnds
<1>2. CASE AcquireSlot(s)
  <2>1. s \notin Starting /\ Starting' = Starting \cup {s}
    BY <1>2 DEF AcquireSlot, PushState, Starting
  <2>2. slots' = slots + 1 /\ slots' \in 0..MaxSlots
    BY <1>2 DEF AcquireSlot, SlotState
  <2>3. SlotState'
    BY <1>1, <2>1, <2>2, StartingCount DEF SlotState, SlotsInv
  <2>4. QED BY <1>1, <1>2, <2>3 DEF AcquireSlot, PushState, StaticGoroutine
<1>3. CASE StartOk(s) \/ StartErr(s)
  <2>1. s \in Starting /\ Starting' = Starting \ {s} /\ ReleaseSlot
    BY <1>3 DEF StartOk, StartErr, PushState, Starting
  <2>2. slots > 0
    <3>1. Cardinality(Starting) \in Nat /\ Cardinality(Starting) > 0
      BY <2>1, StartingCount
    <3>2. QED BY <3>1 DEF SlotState, SlotsInv
  <2>3. slots' = slots - 1 /\ slots' \in 0..MaxSlots
    BY <2>1, <2>2 DEF ReleaseSlot, SlotState
  <2>4. SlotState'
    BY <1>1, <2>1, <2>3, StartingCount DEF SlotState, SlotsInv
  <2>5. PushState'
    <3>1. CASE StartOk(s)
      BY <3>1 DEF StartOk, PushState, StaticGoroutine
    <3>2. CASE StartErr(s)
      BY <3>2 DEF StartErr, PushState, StaticGoroutine
    <3>3. QED BY <1>3, <3>1, <3>2
  <2>6. QED BY <1>1, <2>4, <2>5
<1>4. ASSUME Starting' = Starting, slots' = slots PROVE SlotState'
  BY <1>1, <1>4 DEF SlotState, SlotsInv
<1>5. CASE SlotTimeout(s) \/ SessionEnds(s)
  <2>1. Starting' = Starting /\ slots' = slots
    BY <1>5 DEF SlotTimeout, SessionEnds, PushState, Starting
  <2>2. PushState'
    BY <1>5 DEF SlotTimeout, SessionEnds, PushState, StaticGoroutine
  <2>3. QED BY <1>1, <1>4, <2>1, <2>2
<1>6. CASE ClearPushingFlag(s)
  <2>1. Starting' = Starting /\ slots' = slots
    BY <1>6 DEF ClearPushingFlag, ExitGoroutine, PushState, Starting
  <2>2. proxy' \in [Urls -> Proxies]
    <3>1. CASE proxy[url[s]] = None \/ url[s] \notin Urls
      BY <1>6, <3>1 DEF ClearPushingFlag, PushState
    <3>2. CASE proxy[url[s]] # None /\ url[s] \in Urls
      <4>1. proxy[url[s]] \in [isPushing : BOOLEAN, session : Sessions \cup {None}]
        BY <3>2 DEF PushState, Proxies
      <4>2. [proxy[url[s]] EXCEPT !.isPushing = FALSE] \in Proxies
        BY <4>1 DEF Proxies
      <4>3. QED BY <1>6, <3>2, <4>2 DEF ClearPushingFlag, PushState
    <3>3. QED BY <3>1, <3>2
  <2>3. PushState'
    BY <1>6, <2>2 DEF ClearPushingFlag, ExitGoroutine, PushState
  <2>4. QED BY <1>1, <1>4, <2>1, <2>3
<1>7. CASE AddRtmpPushSession(s)
  <2>1. Starting' = Starting /\ slots' = slots
    BY <1>7 DEF AddRtmpPushSession, PushState, Starting
  <2>2. proxy' \in [Urls -> Proxies]
    <3>1. CASE proxy[url[s]] = None \/ url[s] \notin Urls
      BY <1>7, <3>1 DEF AddRtmpPushSession, PushState
    <3>2. CASE proxy[url[s]] # None /\ url[s] \in Urls
      <4>1. proxy[url[s]] \in [isPushing : BOOLEAN, session : Sessions \cup {None}]
        BY <3>2 DEF PushState, Proxies
      <4>2. [proxy[url[s]] EXCEPT !.session = s] \in Proxies
        BY <4>1 DEF Proxies
      <4>3. QED BY <1>7, <3>2, <4>2 DEF AddRtmpPushSession, PushState
    <3>3. QED BY <3>1, <3>2
  <2>3. PushState'
    BY <1>7, <2>2 DEF AddRtmpPushSession, PushState, StaticGoroutine
  <2>4. QED BY <1>1, <1>4, <2>1, <2>3
<1>8. CASE DelRtmpPushSession(s)
  <2>1. Starting' = Starting /\ slots' = slots
    BY <1>8 DEF DelRtmpPushSession, ExitGoroutine, PushState, Starting
  <2>2. NoProxy \in Proxies
    BY DEF NoProxy, Proxies
  <2>3. proxy' \in [Urls -> Proxies]
    BY <1>8, <2>2 DEF DelRtmpPushSession, PushState
  <2>4. PushState'
    BY <1>8, <2>3 DEF DelRtmpPushSession, ExitGoroutine, PushState
  <2>5. QED BY <1>1, <1>4, <2>1, <2>4
<1>9. QED BY <1>2, <1>3, <1>5, <1>6, <1>7, <1>8 DEF StaticPush

\* Every reachable state is well typed, and the handshake slots are those of the
\* static pushes in their handshake and of the others.
THEOREM Typing == Spec => [](TypeOK /\ SlotsInv)
<1>1. Init => TypeOK /\ SlotsInv
  <2> SUFFICES ASSUME Init PROVE TypeOK /\ SlotsInv
    OBVIOUS
  <2>1. Starting = {}
    BY DEF Init, Starting
  <2>2. SlotsInv
    BY <2>1, FS_EmptySet DEF Init, SlotsInv
  <2>3. relay \in Relays
    <3>1. None \in Urls \cup {None} /\ 0 \in RetryNums \cup {0}
          /\ 0 \in 0..StartCap /\ 0 \in 0..MaxBackoffMs
      OBVIOUS
    <3>2. QED BY ONLY <3>1, Init DEF Init, NoRelay, Relays
  <2>4. proxy \in [Urls -> Proxies]
    BY DEF Init, NoProxy, Proxies
  <2>5. PushState
    BY <2>3, <2>4 DEF Init, PushState
  <2>6. SlotState
    BY <2>2 DEF Init, SlotState
  <2>7. QED BY <2>5, <2>6, Halves DEF Init
<1>2. TypeOK /\ SlotsInv /\ [Next]_vars => (TypeOK /\ SlotsInv)'
  <2> SUFFICES ASSUME TypeOK, SlotsInv, [Next]_vars PROVE TypeOK' /\ SlotsInv'
    OBVIOUS
  <2> USE DEF relayVars
  <2>1. PushState /\ SlotState /\ input \in {None, "pub", "other"}
        /\ pullEnable \in BOOLEAN /\ crashed \in BOOLEAN
    BY Halves
  <2>2. ASSUME PushState', SlotState', input' \in {None, "pub", "other"},
               pullEnable' \in BOOLEAN, crashed' \in BOOLEAN
        PROVE  TypeOK' /\ SlotsInv'
    BY <2>2 DEF TypeOK, PushState, SlotState, Proxies, Relays
  <2>3. ASSUME Starting' = Starting, slots' = slots, others' = others PROVE SlotState'
    BY <2>1, <2>3 DEF SlotState, SlotsInv
  <2>4. CASE Relay
    <3>1. PushState' /\ SlotState' /\ UNCHANGED <<input, crashed>>
      BY <2>1, <2>3, <2>4, RelayTypes
    <3>2. pullEnable' \in BOOLEAN
      BY <2>1, <2>4, ZenonT(40) DEF Relay, StartRelay, StartPushOnly, StopRelay, RelaySessionEnds,
                        RelayAbortRetry, RelayRetry
    <3>3. QED BY <2>1, <2>2, <3>1, <3>2
  <2>5. ASSUME NEW s \in Sessions, StaticPush(s) PROVE TypeOK' /\ SlotsInv'
    <3>1. crashed' \in BOOLEAN
      BY <2>1, <2>5 DEF StaticPush, AcquireSlot, SlotTimeout, ClearPushingFlag, StartOk,
                        StartErr, AddRtmpPushSession, DelRtmpPushSession, SessionEnds
    <3>2. QED BY <2>1, <2>2, <2>5, <3>1, StaticTypes
  <2>6. ASSUME NEW k \in {"pub", "other"}, AddIn(k) PROVE TypeOK' /\ SlotsInv'
    <3>1. StartPushIfNeeded(k, proxy)
      BY <2>6 DEF AddIn
    <3>2. PushState' /\ SlotState'
      BY <2>1, <2>3, <2>6, <3>1, StartPushTyping DEF AddIn, PushState
    <3>3. QED BY <2>1, <2>2, <2>6, <3>2 DEF AddIn
  <2>7. ASSUME NEW stale, Tick(stale) PROVE TypeOK' /\ SlotsInv'
    <3>1. StartPushIfNeeded(input, proxy)
      BY <2>7 DEF Tick
    <3>2. PushState' /\ SlotState'
      BY <2>1, <2>3, <2>7, <3>1, StartPushTyping, DisposeTyping DEF Tick, PushState
    <3>3. QED BY <2>1, <2>2, <2>7, <3>2 DEF Tick
  <2>8. CASE DelIn
    <3>1. proxy' \in [Urls -> Proxies]
      <4>1. ASSUME NEW u \in Urls, proxy[u] # None
            PROVE  [proxy[u] EXCEPT !.session = None] \in Proxies
        BY <2>1, <4>1 DEF PushState, Proxies
      <4>2. None \in Proxies
        BY DEF Proxies
      <4>3. QED BY <2>1, <2>8, <4>1, <4>2 DEF DelIn, PushState
    <3>2. PushState' /\ SlotState'
      BY <2>1, <2>3, <2>8, <3>1, DisposeTyping DEF DelIn, PushState, Starting
    <3>3. QED BY <2>1, <2>2, <2>8, <3>2 DEF DelIn
  <2>9. CASE OthersAcquire \/ OthersRelease
    <3>1. Starting' = Starting /\ PushState'
      BY <2>1, <2>9 DEF OthersAcquire, OthersRelease, Starting, PushState
    <3>2. SlotState'
      <4>1. others <= slots
        BY <2>1, StartingCount DEF SlotState, SlotsInv
      <4>2. CASE OthersAcquire
        BY <2>1, <3>1, <4>1, <4>2, StartingCount DEF OthersAcquire, SlotState, SlotsInv
      <4>3. CASE OthersRelease
        BY <2>1, <3>1, <4>1, <4>3, StartingCount DEF OthersRelease, ReleaseSlot, SlotState, SlotsInv
      <4>4. QED BY <2>9, <4>2, <4>3
    <3>3. QED BY <2>1, <2>2, <2>9, <3>1, <3>2 DEF OthersAcquire, OthersRelease
  <2>10. CASE UNCHANGED vars
    BY <2>10 DEF vars, TypeOK, SlotsInv, Starting
  <2>11. QED
    BY <2>4, <2>5, <2>6, <2>7, <2>8, <2>9, <2>10 DEF Next
<1>3. QED BY <1>1, <1>2, PTL DEF Spec

-----------------------------------------------------------------------------
(* Retries *)

\* retry_num bounds the starts of a relay, those of all its goroutines together.
CountInv == relay.retryNum >= 0 => relay.startCount <= relay.retryNum + 1

\* A start that follows a reset of the counter, or that RetryAllowed permits,
\* stays within the bound.
LEMMA CountStartBound ==
    ASSUME NEW r \in Relays,
           r.startCount = 0 \/ RetryAllowed(r)
    PROVE  CountStart(r).retryNum >= 0 => CountStart(r).startCount <= CountStart(r).retryNum + 1
<1>1. r.startCount \in 0..StartCap /\ r.retryNum \in RetryNums \cup {0}
  BY DEF Relays
<1>2. r.retryNum \in Int
  BY RetryNumInt
<1>3. /\ CountStart(r).retryNum = r.retryNum
      /\ CountStart(r).startCount \in Int /\ CountStart(r).startCount <= r.startCount + 1
  BY <1>1, RelayTyping
<1>4. r.retryNum >= 0 => r.startCount <= r.retryNum
  BY <1>1, <1>2 DEF RetryAllowed
<1>5. QED BY <1>1, <1>2, <1>3, <1>4

\* A start of the API counts at most one from zero.
LEMMA LockedCount ==
    ASSUME NEW r \in Relays, r.startCount = 0, NEW u, NEW s, NEW ok,
           StartPushLocked(r, u, s, ok)
    PROVE  CountInv'
<1>1. r.retryNum \in Int
  BY RetryNumInt
<1>2. CASE relay' = [r EXCEPT !.isRelaying = TRUE]
  <2>1. relay'.retryNum = r.retryNum /\ relay'.startCount = 0
    BY <1>2 DEF Relays
  <2>2. QED BY <1>1, <2>1 DEF CountInv
<1>3. CASE relay' = CountStart(r)
  BY <1>3, CountStartBound DEF CountInv
<1>4. CASE relay' = [CountStart(r) EXCEPT !.isRelaying = TRUE]
  <2>1. CountStart(r) \in Relays
    BY RelayTyping
  <2>2. relay'.retryNum = CountStart(r).retryNum /\ relay'.startCount = CountStart(r).startCount
    BY <1>4, <2>1 DEF Relays
  <2>3. QED BY <2>2, CountStartBound DEF CountInv
<1>5. QED BY <1>2, <1>3, <1>4 DEF StartPushLocked

\* Stops, restarts and the retries of goroutines that overlap keep the bound.
LEMMA CountStep == TypeOK /\ SlotsInv /\ CountInv /\ [Next]_vars => CountInv'
<1> SUFFICES ASSUME TypeOK, CountInv, [Next]_vars PROVE CountInv'
  OBVIOUS
<1> USE DEF relayVars
<1>1. relay \in Relays /\ relay.retryNum \in Int
  <2>1. relay \in Relays
    BY DEF TypeOK, Relays
  <2>2. QED BY <2>1, RetryNumInt
<1>2. CASE relay' = relay
  BY <1>2 DEF CountInv
<1>3. ASSUME NEW u \in ApiUrls, NEW n \in RetryNums, NEW s \in Sessions,
             NEW pullOk \in BOOLEAN, NEW pushOk \in BOOLEAN, StartRelay(u, n, s, pullOk, pushOk)
      PROVE  CountInv'
  <2>1. /\ FirstRelay(u, n) \in Relays /\ FirstRelay(u, n).startCount = 0
        /\ FirstRelay(u, n).retryNum \in Int
    BY NewRelayTyping
  <2>2. CASE pullOk
    <3>1. StartPushLocked([FirstRelay(u, n) EXCEPT !.pulls = TRUE], u, s, pushOk)
      BY <1>3, <2>2 DEF StartRelay, FirstRelay
    <3>2. /\ [FirstRelay(u, n) EXCEPT !.pulls = TRUE] \in Relays
          /\ [FirstRelay(u, n) EXCEPT !.pulls = TRUE].startCount = 0
      BY <2>1 DEF Relays
    <3>3. QED BY <3>1, <3>2, LockedCount
  <2>3. CASE ~pullOk
    <3>1. relay' = FirstRelay(u, n)
      BY <1>3, <2>3 DEF StartRelay, FirstRelay
    <3>2. QED BY <2>1, <3>1 DEF CountInv
  <2>4. QED BY <2>2, <2>3
<1>4. ASSUME NEW u \in ApiUrls, NEW n \in RetryNums, NEW s \in Sessions, NEW ok \in BOOLEAN,
             StartPushOnly(u, n, s, ok)
      PROVE  CountInv'
  <2>1. StartPushLocked(Redirected(u, n), u, s, ok)
    BY <1>4 DEF StartPushOnly, Redirected
  <2>2. Redirected(u, n) \in Relays /\ Redirected(u, n).startCount = 0
    BY <1>1, RedirectedTyping
  <2>3. QED BY <2>1, <2>2, LockedCount
<1>5. CASE StopRelay
  <2>1. relay'.startCount = 0 /\ relay'.retryNum = relay.retryNum
    BY <1>1, <1>5 DEF StopRelay, Relays
  <2>2. QED BY <1>1, <2>1 DEF CountInv
<1>6. ASSUME NEW s \in Sessions, RelaySessionEnds(s) PROVE CountInv'
  <2>1. relay'.startCount = relay.startCount /\ relay'.retryNum = relay.retryNum
    BY <1>1, <1>6 DEF RelaySessionEnds, Relays
  <2>2. QED BY <2>1 DEF CountInv
<1>7. ASSUME NEW s \in Sessions, NEW t \in Sessions, NEW ok \in BOOLEAN, RelayRetry(s, t, ok)
      PROVE  CountInv'
  <2>1. CountStart(relay) \in Relays
    BY <1>1, RelayTyping
  <2>2. /\ relay'.retryNum = CountStart(relay).retryNum
        /\ relay'.startCount = CountStart(relay).startCount
    BY <1>7, <2>1 DEF RelayRetry, Relays
  <2>3. RetryAllowed(relay)
    BY <1>7 DEF RelayRetry
  <2>4. QED BY <1>1, <2>2, <2>3, CountStartBound DEF CountInv
<1>8. CASE Relay
  <2>1. ASSUME NEW s \in Sessions, RelayAbortRetry(s) PROVE CountInv'
    BY <1>2, <2>1 DEF RelayAbortRetry
  <2>2. QED BY <1>3, <1>4, <1>5, <1>6, <1>7, <1>8, <2>1 DEF Relay
<1>9. ASSUME NEW s \in Sessions, StaticPush(s) PROVE relay' = relay
  BY <1>9 DEF StaticPush, AcquireSlot, SlotTimeout, ClearPushingFlag, StartOk, StartErr,
              AddRtmpPushSession, DelRtmpPushSession, SessionEnds
<1>10. CASE \/ DelIn \/ OthersAcquire \/ OthersRelease \/ UNCHANGED vars
            \/ \E k \in {"pub", "other"} : AddIn(k)
            \/ \E stale \in SUBSET ForwardingSessions : Tick(stale)
  BY <1>2, <1>10 DEF DelIn, OthersAcquire, OthersRelease, AddIn, Tick, vars
<1>11. QED BY <1>2, <1>8, <1>9, <1>10 DEF Next

-----------------------------------------------------------------------------
(* Targets and their goroutines *)

Works(s) == pc[s] \in StaticGoroutine

\* A target of the configuration keeps its entry, and its flag says whether a
\* goroutine works for it, at most one; an entry the API made is there only while
\* its flag is set, so startPushIfNeeded never takes it for a target of its own,
\* and the goroutines of the API delete no other entry.
TargetInv ==
    /\ \A u \in StaticUrls : proxy[u] # None
    /\ \A u \in ApiUrls : proxy[u] # None => proxy[u].isPushing
    /\ \A s \in Sessions : Works(s) => url[s] \in StaticUrls /\ proxy[url[s]].isPushing
    /\ \A s, t \in Sessions : Works(s) /\ Works(t) /\ url[s] = url[t] => s = t
    /\ \A u \in StaticUrls : proxy[u].isPushing => \E s \in Sessions : Works(s) /\ url[s] = u
    /\ \A s \in Sessions : pc[s] = "relayWait" => url[s] \in ApiUrls
    /\ relay.isRelaying => relay.pushUrl \in ApiUrls

\* What TargetInv looks at: steps that change nothing of it preserve it.
LEMMA TargetFrame ==
    ASSUME TargetInv, DOMAIN proxy = Urls, DOMAIN proxy' = Urls,
           \A u \in Urls : (proxy'[u] = None <=> proxy[u] = None)
                          /\ (proxy[u] # None => proxy'[u].isPushing = proxy[u].isPushing),
           \A s \in Sessions : /\ Works(s)' <=> Works(s)
                               /\ url'[s] = url[s] \/ pc[s] \in {"relayWait", "relaySleep"}
                               /\ pc'[s] = "relayWait" => pc[s] = "relayWait" /\ url'[s] = url[s],
           relay'.isRelaying => relay'.pushUrl \in ApiUrls
    PROVE  TargetInv'
<1>1. \A s \in Sessions : Works(s) => url'[s] = url[s]
  BY DEF Works, StaticGoroutine
<1>2. \A u \in StaticUrls \cup ApiUrls : u \in Urls
  BY DEF Urls
<1>3. \A u \in StaticUrls : proxy'[u] # None
  BY <1>2 DEF TargetInv
<1>4. \A u \in ApiUrls : proxy'[u] # None => proxy'[u].isPushing
  BY <1>2 DEF TargetInv
<1>5. \A s \in Sessions : Works(s)' => url'[s] \in StaticUrls /\ proxy'[url'[s]].isPushing
  BY <1>1, <1>2 DEF TargetInv
<1>6. \A s, t \in Sessions : Works(s)' /\ Works(t)' /\ url'[s] = url'[t] => s = t
  BY <1>1 DEF TargetInv
<1>7. \A u \in StaticUrls : proxy'[u].isPushing => \E s \in Sessions : Works(s)' /\ url'[s] = u
  BY <1>1, <1>2 DEF TargetInv
<1>8. \A s \in Sessions : pc'[s] = "relayWait" => url'[s] \in ApiUrls
  BY DEF TargetInv
<1>9. QED BY <1>3, <1>4, <1>5, <1>6, <1>7, <1>8 DEF TargetInv

\* startPushIfNeeded makes one goroutine for each target of the configuration
\* that has none, and sets its flag.
LEMMA StartPushTargets ==
    ASSUME StaticUrls \cap ApiUrls = {}, TypeOK, TargetInv, relay' = relay,
           NEW in, StartPushIfNeeded(in, proxy)
    PROVE  TargetInv'
<1>1. PICK need \in SUBSET Urls : \E g \in [need -> Idle] :
        /\ \A u \in need : proxy[u] # None /\ ~proxy[u].isPushing
        /\ \A u, v \in need : g[u] = g[v] => u = v
        /\ proxy' = [u \in Urls |-> IF u \in need
                                    THEN [proxy[u] EXCEPT !.isPushing = TRUE]
                                    ELSE proxy[u]]
        /\ pc' = [s \in Sessions |-> IF \E u \in need : g[u] = s THEN "queued" ELSE pc[s]]
        /\ \A s \in Sessions : (~ \E u \in need : g[u] = s) => url'[s] = url[s]
        /\ \A u \in need : url'[g[u]] = u
  BY StartPushYields
<1>2. PICK g \in [need -> Idle] :
        /\ \A u, v \in need : g[u] = g[v] => u = v
        /\ pc' = [s \in Sessions |-> IF \E u \in need : g[u] = s THEN "queued" ELSE pc[s]]
        /\ \A s \in Sessions : (~ \E u \in need : g[u] = s) => url'[s] = url[s]
        /\ \A u \in need : url'[g[u]] = u
  BY <1>1
<1>3. need \subseteq StaticUrls
  BY <1>1 DEF TargetInv, Urls
<1>4. \A u \in Urls : /\ u \in need => proxy'[u] # None /\ proxy'[u].isPushing
                      /\ u \notin need => proxy'[u] = proxy[u]
  <2>1. ASSUME NEW u \in need PROVE proxy'[u] # None /\ proxy'[u].isPushing
    <3>1. proxy[u] \in [isPushing : BOOLEAN, session : Sessions \cup {None}]
      BY <1>1 DEF TypeOK
    <3>2. proxy'[u] = [proxy[u] EXCEPT !.isPushing = TRUE] /\ proxy'[u].isPushing
      BY <1>1, <3>1
    <3>3. proxy'[u] \in [isPushing : BOOLEAN, session : Sessions \cup {None}]
      BY <3>1, <3>2
    <3>4. QED BY <3>2, <3>3
  <2>2. ASSUME NEW u \in Urls, u \notin need PROVE proxy'[u] = proxy[u]
    BY <1>1, <2>2
  <2>3. QED BY <2>1, <2>2
<1>5. ASSUME NEW s \in Sessions
      PROVE  \/ /\ pc'[s] = pc[s] /\ url'[s] = url[s]
             \/ /\ pc[s] = "idle" /\ pc'[s] = "queued"
                /\ url'[s] \in need /\ g[url'[s]] = s
  <2>1. CASE \E u \in need : g[u] = s
    <3>1. PICK u \in need : g[u] = s
      BY <2>1
    <3>2. pc[s] = "idle"
      BY <3>1 DEF Idle
    <3>3. QED BY <1>2, <3>1, <3>2
  <2>2. CASE ~ \E u \in need : g[u] = s
    BY <1>2, <2>2
  <2>3. QED BY <2>1, <2>2
<1>6. \A s \in Sessions : Works(s) => /\ Works(s)' /\ url'[s] = url[s] /\ url[s] \notin need
                                      /\ url[s] \in StaticUrls
  <2>1. \A s \in Sessions : Works(s) => url[s] \in StaticUrls /\ proxy[url[s]].isPushing
    BY DEF TargetInv
  <2>2. QED BY <1>1, <1>5, <2>1 DEF Works, StaticGoroutine
<1>7. \A s \in Sessions : Works(s)' => Works(s) \/ (url'[s] \in need /\ g[url'[s]] = s)
  BY <1>5 DEF Works, StaticGoroutine
<1>8. \A u \in StaticUrls \cup ApiUrls : u \in Urls
  BY DEF Urls
<1>9. \A u \in StaticUrls : proxy'[u] # None
  BY <1>4, <1>8 DEF TargetInv
<1>10. \A u \in ApiUrls : proxy'[u] # None => proxy'[u].isPushing
  BY <1>4, <1>8 DEF TargetInv
<1>11. \A s \in Sessions : Works(s)' => url'[s] \in StaticUrls /\ proxy'[url'[s]].isPushing
  <2>1. \A s \in Sessions : Works(s) => proxy[url[s]].isPushing
    BY DEF TargetInv
  <2>2. QED BY <1>3, <1>4, <1>6, <1>7, <1>8, <2>1
<1>12. \A s, t \in Sessions : Works(s)' /\ Works(t)' /\ url'[s] = url'[t] => s = t
  <2>1. \A s, t \in Sessions : Works(s) /\ Works(t) /\ url[s] = url[t] => s = t
    BY DEF TargetInv
  <2>2. QED BY <1>6, <1>7, <2>1
<1>13. \A u \in StaticUrls : proxy'[u].isPushing => \E s \in Sessions : Works(s)' /\ url'[s] = u
  <2>1. ASSUME NEW u \in need PROVE \E s \in Sessions : Works(s)' /\ url'[s] = u
    <3>1. g[u] \in Sessions /\ url'[g[u]] = u
      BY <1>2 DEF Idle
    <3>2. pc'[g[u]] = "queued"
      BY <1>2, <3>1
    <3>3. Works(g[u])'
      BY <3>2 DEF Works, StaticGoroutine
    <3>4. QED BY <3>1, <3>3
  <2>2. ASSUME NEW u \in StaticUrls, u \notin need, proxy'[u].isPushing
        PROVE  \E s \in Sessions : Works(s)' /\ url'[s] = u
    <3>1. proxy[u].isPushing
      BY <1>4, <1>8, <2>2
    <3>2. PICK s \in Sessions : Works(s) /\ url[s] = u
      BY <2>2, <3>1 DEF TargetInv
    <3>3. QED BY <1>6, <3>2
  <2>3. QED BY <2>1, <2>2
<1>14. \A s \in Sessions : pc'[s] = "relayWait" => url'[s] \in ApiUrls
  BY <1>5 DEF TargetInv
<1>15. relay'.isRelaying => relay'.pushUrl \in ApiUrls
  BY DEF TargetInv
<1>16. QED BY <1>9, <1>10, <1>11, <1>12, <1>13, <1>14, <1>15 DEF TargetInv

\* The API touches only entries of its own targets and no goroutine of a static
\* push.
LEMMA RelayTargets ==
    ASSUME StaticUrls \cap ApiUrls = {}, TypeOK, TargetInv,
           NEW u \in ApiUrls, NEW e, e # None => e.isPushing,
           proxy' = [proxy EXCEPT ![u] = e],
           \A s \in Sessions : /\ Works(s)' <=> Works(s)
                               /\ Works(s) => url'[s] = url[s]
                               /\ pc'[s] = "relayWait" =>
                                    (url'[s] = u \/ (pc[s] = "relayWait" /\ url'[s] = url[s])),
           relay'.isRelaying => relay'.pushUrl \in ApiUrls
    PROVE  TargetInv'
<1>1. \A v \in StaticUrls : proxy'[v] = proxy[v]
  BY DEF TypeOK, Urls
<1>2. \A v \in ApiUrls : proxy'[v] = proxy[v] \/ proxy'[v] = e
  BY DEF TypeOK, Urls
<1>3. \A v \in ApiUrls : proxy'[v] # None => proxy'[v].isPushing
  BY <1>2 DEF TargetInv
<1>4. \A s \in Sessions : Works(s)' => url'[s] \in StaticUrls /\ proxy'[url'[s]].isPushing
  BY <1>1 DEF TargetInv
<1>5. \A s, t \in Sessions : Works(s)' /\ Works(t)' /\ url'[s] = url'[t] => s = t
  BY DEF TargetInv
<1>6. \A v \in StaticUrls : proxy'[v].isPushing => \E s \in Sessions : Works(s)' /\ url'[s] = v
  BY <1>1 DEF TargetInv
<1>7. \A s \in Sessions : pc'[s] = "relayWait" => url'[s] \in ApiUrls
  BY DEF TargetInv
<1>8. QED BY <1>1, <1>3, <1>4, <1>5, <1>6, <1>7 DEF TargetInv

\* A static push that ends takes its goroutine and the flag of its target away
\* together.
LEMMA ExitTargets ==
    ASSUME TypeOK, TargetInv, NEW s \in Sessions, Works(s), ExitGoroutine(s), relay' = relay,
           NEW e, e # None, ~e.isPushing, proxy' = [proxy EXCEPT ![url[s]] = e],
           StaticUrls \cap ApiUrls = {}
    PROVE  TargetInv'
<1>1. \A t \in Sessions : t # s => pc'[t] = pc[t] /\ url'[t] = url[t]
  BY DEF ExitGoroutine, TypeOK
<1>2. ~Works(s)' /\ pc'[s] = "idle"
  BY DEF ExitGoroutine, TypeOK, Works, StaticGoroutine
<1>3. \A t \in Sessions : /\ Works(t)' <=> Works(t) /\ t # s
                          /\ Works(t)' => url'[t] = url[t] /\ url[t] # url[s]
  <2>1. \A t \in Sessions : t # s => (Works(t)' <=> Works(t))
    BY <1>1 DEF Works
  <2>2. \A t \in Sessions : Works(t) /\ url[t] = url[s] => t = s
    BY DEF TargetInv
  <2>3. QED BY <1>1, <1>2, <2>1, <2>2
<1>4. url[s] \in StaticUrls /\ url[s] \in Urls
  BY DEF TargetInv, Urls
<1>5. proxy'[url[s]] = e /\ \A v \in Urls : v # url[s] => proxy'[v] = proxy[v]
  BY <1>4 DEF TypeOK
<1>6. \A v \in StaticUrls \cup ApiUrls : v \in Urls
  BY DEF Urls
<1>7. \A v \in StaticUrls : proxy'[v] # None
  BY <1>5, <1>6 DEF TargetInv
<1>8. \A v \in ApiUrls : proxy'[v] # None => proxy'[v].isPushing
  BY <1>4, <1>5, <1>6 DEF TargetInv
<1>9. \A t \in Sessions : Works(t)' => url'[t] \in StaticUrls /\ proxy'[url'[t]].isPushing
  BY <1>3, <1>5, <1>6 DEF TargetInv
<1>10. \A t, q \in Sessions : Works(t)' /\ Works(q)' /\ url'[t] = url'[q] => t = q
  BY <1>3 DEF TargetInv
<1>11. \A v \in StaticUrls : proxy'[v].isPushing => \E t \in Sessions : Works(t)' /\ url'[t] = v
  <2>1. ASSUME NEW v \in StaticUrls, proxy'[v].isPushing
        PROVE  \E t \in Sessions : Works(t)' /\ url'[t] = v
    <3>1. v # url[s] /\ proxy[v].isPushing
      BY <1>5, <1>6, <2>1
    <3>2. PICK t \in Sessions : Works(t) /\ url[t] = v
      BY <3>1 DEF TargetInv
    <3>3. QED BY <1>3, <3>1, <3>2
  <2>2. QED BY <2>1
<1>12. \A t \in Sessions : pc'[t] = "relayWait" => url'[t] \in ApiUrls
  BY <1>1, <1>2 DEF TargetInv
<1>13. relay'.isRelaying => relay'.pushUrl \in ApiUrls
  BY DEF TargetInv
<1>14. QED BY <1>7, <1>8, <1>9, <1>10, <1>11, <1>12, <1>13 DEF TargetInv

\* A start through the API.
LEMMA LockedTargets ==
    ASSUME StaticUrls \cap ApiUrls = {}, TypeOK, TargetInv, NEW u \in ApiUrls,
           NEW r \in Relays, r.pushUrl = u, NEW s \in Idle, NEW ok \in BOOLEAN,
           StartPushLocked(r, u, s, ok)
    PROVE  TargetInv'
<1>1. s \in Sessions /\ pc[s] = "idle"
  BY DEF Idle
<1>2. CountStart(r) \in Relays /\ CountStart(r).pushUrl = u
  BY RelayTyping
<1>3. relay'.pushUrl = u
  <2>1. [CountStart(r) EXCEPT !.isRelaying = TRUE].pushUrl = u
    BY <1>2 DEF Relays
  <2>2. [r EXCEPT !.isRelaying = TRUE].pushUrl = u
    BY DEF Relays
  <2>3. QED BY <1>2, <2>1, <2>2 DEF StartPushLocked
<1>4. CASE u \in RtspUrls \/ ~ok
  <2>1. UNCHANGED <<proxy, pc, url>>
    BY <1>4 DEF StartPushLocked
  <2>2. QED BY <1>3, <2>1, TargetFrame DEF TypeOK, Works
<1>5. CASE u \notin RtspUrls /\ ok
  <2>1. /\ proxy' = [proxy EXCEPT ![u] = Pushing(s)]
        /\ pc' = [pc EXCEPT ![s] = "relayWait"]
        /\ url' = [url EXCEPT ![s] = u]
    BY <1>5 DEF StartPushLocked
  <2>2. Pushing(s).isPushing
    BY DEF Pushing
  <2>3. \A t \in Sessions : /\ Works(t)' <=> Works(t)
                            /\ Works(t) => url'[t] = url[t]
                            /\ pc'[t] = "relayWait" =>
                                    (url'[t] = u \/ (pc[t] = "relayWait" /\ url'[t] = url[t]))
    <3>1. pc'[s] = "relayWait" /\ url'[s] = u
      BY <1>1, <2>1 DEF TypeOK
    <3>2. \A t \in Sessions : t # s => pc'[t] = pc[t] /\ url'[t] = url[t]
      BY <2>1 DEF TypeOK
    <3>3. QED BY <1>1, <3>1, <3>2 DEF Works, StaticGoroutine
  <2>4. PICK e : e = Pushing(s)
    OBVIOUS
  <2>5. proxy' = [proxy EXCEPT ![u] = e] /\ e.isPushing
    BY <2>1, <2>2, <2>4
  <2>6. relay'.isRelaying => relay'.pushUrl \in ApiUrls
    BY <1>3
  <2>7. QED BY <2>3, <2>5, <2>6, RelayTargets
<1>6. QED BY <1>4, <1>5

\* Every step of the goroutines, the API, the timer and the input keeps TargetInv.
LEMMA TargetStep ==
    ASSUME StaticUrls \cap ApiUrls = {}
    PROVE  TypeOK /\ SlotsInv /\ TargetInv /\ [Next]_vars => TargetInv'
<1> SUFFICES ASSUME TypeOK, TargetInv, [Next]_vars PROVE TargetInv'
  OBVIOUS
<1> USE DEF relayVars
<1>1. relay \in Relays /\ (relay.isRelaying => relay.pushUrl \in ApiUrls)
  BY DEF TypeOK, Relays, TargetInv
<1>2. Spare \subseteq Idle
  BY DEF Spare
<1>3. ASSUME NEW u \in ApiUrls, NEW n \in RetryNums, NEW s \in Sessions,
             NEW pullOk \in BOOLEAN, NEW pushOk \in BOOLEAN, StartRelay(u, n, s, pullOk, pushOk)
      PROVE  TargetInv'
  <2>1. FirstRelay(u, n) \in Relays /\ FirstRelay(u, n).pushUrl = u
    BY NewRelayTyping
  <2>2. CASE pullOk
    <3>1. StartPushLocked([FirstRelay(u, n) EXCEPT !.pulls = TRUE], u, s, pushOk) /\ s \in Idle
      BY <1>2, <1>3, <2>2 DEF StartRelay, FirstRelay
    <3>2. /\ [FirstRelay(u, n) EXCEPT !.pulls = TRUE] \in Relays
          /\ [FirstRelay(u, n) EXCEPT !.pulls = TRUE].pushUrl = u
      BY <2>1 DEF Relays
    <3>3. QED BY <3>1, <3>2, LockedTargets
  <2>3. CASE ~pullOk
    <3>1. relay' = FirstRelay(u, n) /\ UNCHANGED <<proxy, pc, url>>
      BY <1>3, <2>3 DEF StartRelay, FirstRelay
    <3>2. QED BY <2>1, <3>1, TargetFrame DEF TypeOK, Works
  <2>4. QED BY <2>2, <2>3
<1>4. ASSUME NEW u \in ApiUrls, NEW n \in RetryNums, NEW s \in Sessions, NEW ok \in BOOLEAN,
             StartPushOnly(u, n, s, ok)
      PROVE  TargetInv'
  <2>1. StartPushLocked(Redirected(u, n), u, s, ok) /\ s \in Idle
    BY <1>2, <1>4 DEF StartPushOnly, Redirected
  <2>2. Redirected(u, n) \in Relays /\ Redirected(u, n).pushUrl = u
    BY <1>1, RedirectedTyping
  <2>3. QED BY <2>1, <2>2, LockedTargets
<1>5. CASE StopRelay
  <2>1. ~relay'.isRelaying /\ UNCHANGED <<proxy, pc, url>>
    BY <1>1, <1>5 DEF StopRelay, Relays
  <2>2. QED BY <2>1, TargetFrame DEF TypeOK, Works
<1>6. ASSUME NEW s \in Sessions, RelaySessionEnds(s) PROVE TargetInv'
  <2>1. pc[s] = "relayWait" /\ url[s] \in ApiUrls /\ proxy' = [proxy EXCEPT ![url[s]] = None]
    BY <1>6 DEF RelaySessionEnds, TargetInv
  <2>2. relay'.isRelaying => relay'.pushUrl \in ApiUrls
    BY <1>1, <1>6 DEF RelaySessionEnds, Relays
  <2>3. \A t \in Sessions : /\ Works(t)' <=> Works(t)
                            /\ Works(t) => url'[t] = url[t]
                            /\ pc'[t] = "relayWait" => pc[t] = "relayWait" /\ url'[t] = url[t]
    BY <1>6, <2>1 DEF RelaySessionEnds, ExitGoroutine, Works, StaticGoroutine, TypeOK
  <2>4. QED BY <2>1, <2>2, <2>3, RelayTargets
<1>7. ASSUME NEW s \in Sessions, RelayAbortRetry(s) PROVE TargetInv'
  <2>1. UNCHANGED <<proxy, relay>>
    BY <1>7 DEF RelayAbortRetry
  <2>2. \A t \in Sessions : /\ Works(t)' <=> Works(t)
                            /\ url'[t] = url[t] \/ pc[t] \in {"relayWait", "relaySleep"}
                            /\ pc'[t] = "relayWait" => pc[t] = "relayWait" /\ url'[t] = url[t]
    BY <1>7 DEF RelayAbortRetry, ExitGoroutine, Works, StaticGoroutine, TypeOK
  <2>3. QED BY <1>1, <2>1, <2>2, TargetFrame DEF TypeOK
<1>8. ASSUME NEW s \in Sessions, NEW t \in Sessions, NEW ok \in BOOLEAN, RelayRetry(s, t, ok)
      PROVE  TargetInv'
  <2>1. /\ CountStart(relay) \in Relays /\ CountStart(relay).pushUrl = relay.pushUrl
        /\ relay.pushUrl \in ApiUrls
    BY <1>1, <1>8, RelayTyping DEF RelayRetry
  <2>2. relay'.pushUrl = relay.pushUrl
    <3>1. \/ relay' = [CountStart(relay) EXCEPT !.backoffMs = 0]
          \/ relay' = [CountStart(relay) EXCEPT !.backoffMs = NextBackoff(@)]
      BY <1>8 DEF RelayRetry
    <3>2. QED BY <2>1, <3>1 DEF Relays
  <2>3. CASE ~ok
    <3>1. UNCHANGED <<proxy, pc, url>>
      BY <1>8, <2>3 DEF RelayRetry
    <3>2. QED BY <2>1, <2>2, <3>1, TargetFrame DEF TypeOK, Works
  <2>4. CASE ok
    <3>1. /\ proxy' = [proxy EXCEPT ![relay.pushUrl] = Pushing(t)]
          /\ pc' = [pc EXCEPT ![s] = "idle", ![t] = "relayWait"]
          /\ url' = [url EXCEPT ![s] = None, ![t] = relay.pushUrl]
          /\ pc[s] = "relaySleep" /\ pc[t] = "idle"
      BY <1>2, <1>8, <2>4 DEF RelayRetry, Idle
    <3>2. Pushing(t).isPushing
      BY DEF Pushing
    <3>3. \A q \in Sessions : /\ Works(q)' <=> Works(q)
                              /\ Works(q) => url'[q] = url[q]
                              /\ pc'[q] = "relayWait" =>
                                    (url'[q] = relay.pushUrl \/ (pc[q] = "relayWait" /\ url'[q] = url[q]))
      BY <3>1 DEF Works, StaticGoroutine, TypeOK
    <3>4. PICK u \in ApiUrls : u = relay.pushUrl
      BY <2>1
    <3>5. PICK e : e = Pushing(t)
      OBVIOUS
    <3>6. proxy' = [proxy EXCEPT ![u] = e] /\ e.isPushing
      BY <3>1, <3>2, <3>4, <3>5
    <3>7. \A q \in Sessions : /\ Works(q)' <=> Works(q)
                              /\ Works(q) => url'[q] = url[q]
                              /\ pc'[q] = "relayWait" =>
                                    (url'[q] = u \/ (pc[q] = "relayWait" /\ url'[q] = url[q]))
      BY <3>3, <3>4
    <3>8. relay'.isRelaying => relay'.pushUrl \in ApiUrls
      BY <2>1, <2>2
    <3>9. QED BY <3>6, <3>7, <3>8, RelayTargets
  <2>5. QED BY <2>3, <2>4
<1>9. ASSUME NEW s \in Sessions, StaticPush(s) PROVE TargetInv'
  <2>1. relay' = relay
    BY <1>9 DEF StaticPush, AcquireSlot, SlotTimeout, ClearPushingFlag, StartOk, StartErr,
                AddRtmpPushSession, DelRtmpPushSession, SessionEnds
  <2>2. Works(s) /\ url[s] \in StaticUrls /\ url[s] \in Urls /\ proxy[url[s]] # None
    BY <1>9 DEF StaticPush, AcquireSlot, SlotTimeout, ClearPushingFlag, StartOk, StartErr,
                AddRtmpPushSession, DelRtmpPushSession, SessionEnds, Works, StaticGoroutine,
                TargetInv, Urls
  <2>3. proxy[url[s]] \in [isPushing : BOOLEAN, session : Sessions \cup {None}]
    BY <2>2 DEF TypeOK
  <2>4. CASE \/ AcquireSlot(s) \/ SlotTimeout(s) \/ StartOk(s) \/ StartErr(s) \/ SessionEnds(s)
    <3>1. UNCHANGED <<proxy, url>>
      BY <2>4 DEF AcquireSlot, SlotTimeout, StartOk, StartErr, SessionEnds
    <3>2. PICK p \in {"starting", "slotTimeout", "started", "failed", "ended"} :
            pc' = [pc EXCEPT ![s] = p]
      BY <2>4 DEF AcquireSlot, SlotTimeout, StartOk, StartErr, SessionEnds
    <3>3. \A t \in Sessions : /\ Works(t)' <=> Works(t)
                              /\ pc'[t] = "relayWait" => pc[t] = "relayWait"
      BY <2>2, <3>2 DEF Works, StaticGoroutine, TypeOK
    <3>4. QED BY <1>1, <2>1, <3>1, <3>3, TargetFrame DEF TypeOK
  <2>5. CASE AddRtmpPushSession(s)
    <3>1. /\ proxy' = [proxy EXCEPT ![url[s]].session = s] /\ pc' = [pc EXCEPT ![s] = "wait"]
          /\ url' = url
      BY <2>2, <2>5 DEF AddRtmpPushSession
    <3>2. proxy'[url[s]] = [proxy[url[s]] EXCEPT !.session = s]
      BY <2>2, <3>1 DEF TypeOK
    <3>3. /\ proxy'[url[s]] \in [isPushing : BOOLEAN, session : Sessions \cup {None}]
          /\ proxy'[url[s]].isPushing = proxy[url[s]].isPushing
      BY <2>3, <3>2
    <3>4. \A u \in Urls : (proxy'[u] = None <=> proxy[u] = None)
                          /\ (proxy[u] # None => proxy'[u].isPushing = proxy[u].isPushing)
      <4>1. \A u \in Urls : u # url[s] => proxy'[u] = proxy[u]
        BY <2>2, <3>1 DEF TypeOK
      <4>2. QED BY <2>2, <3>3, <4>1
    <3>5. \A t \in Sessions : /\ Works(t)' <=> Works(t)
                              /\ pc'[t] = "relayWait" => pc[t] = "relayWait"
      BY <2>2, <3>1 DEF Works, StaticGoroutine, TypeOK
    <3>6. DOMAIN proxy = Urls /\ DOMAIN proxy' = Urls
      BY <3>1 DEF TypeOK
    <3>7. QED BY <1>1, <2>1, <3>1, <3>4, <3>5, <3>6, TargetFrame
  <2>6. CASE ClearPushingFlag(s)
    <3>1. /\ proxy' = [proxy EXCEPT ![url[s]].isPushing = FALSE] /\ ExitGoroutine(s)
      BY <2>2, <2>6 DEF ClearPushingFlag
    <3>2. [proxy[url[s]] EXCEPT !.isPushing = FALSE] \in
             [isPushing : BOOLEAN, session : Sessions \cup {None}]
          /\ ~[proxy[url[s]] EXCEPT !.isPushing = FALSE].isPushing
      BY <2>3
    <3>3. proxy' = [proxy EXCEPT ![url[s]] = [proxy[url[s]] EXCEPT !.isPushing = FALSE]]
      BY <3>1
    <3>4. QED BY <2>1, <2>2, <3>1, <3>2, <3>3, ExitTargets
  <2>7. CASE DelRtmpPushSession(s)
    <3>1. proxy' = [proxy EXCEPT ![url[s]] = NoProxy] /\ ExitGoroutine(s)
      BY <2>2, <2>7 DEF DelRtmpPushSession
    <3>2. NoProxy \in [isPushing : BOOLEAN, session : Sessions \cup {None}] /\ ~NoProxy.isPushing
      BY DEF NoProxy
    <3>3. QED BY <2>1, <2>2, <3>1, <3>2, ExitTargets
  <2>8. QED BY <1>9, <2>4, <2>5, <2>6, <2>7 DEF StaticPush
<1>10. CASE DelIn
  <2>1. \A u \in Urls : (proxy'[u] = None <=> proxy[u] = None)
                        /\ (proxy[u] # None => proxy'[u].isPushing = proxy[u].isPushing)
    <3>1. ASSUME NEW u \in Urls, proxy[u] # None
          PROVE  /\ [proxy[u] EXCEPT !.session = None] # None
                 /\ [proxy[u] EXCEPT !.session = None].isPushing = proxy[u].isPushing
      <4>1. proxy[u] \in [isPushing : BOOLEAN, session : Sessions \cup {None}]
        BY <3>1 DEF TypeOK
      <4>2. [proxy[u] EXCEPT !.session = None] \in
               [isPushing : BOOLEAN, session : Sessions \cup {None}]
        BY <4>1
      <4>3. QED BY <4>1, <4>2
    <3>2. CASE PushEnable
      <4>1. \A u \in Urls : proxy'[u] = IF proxy[u] = None THEN None
                                        ELSE [proxy[u] EXCEPT !.session = None]
        BY <1>10, <3>2 DEF DelIn
      <4>2. QED BY <3>1, <4>1
    <3>3. CASE ~PushEnable
      BY <1>10, <3>3 DEF DelIn
    <3>4. QED BY <3>2, <3>3
  <2>2. DOMAIN proxy = Urls /\ DOMAIN proxy' = Urls /\ UNCHANGED <<pc, url, relay>>
    BY <1>10 DEF DelIn, TypeOK
  <2>3. QED BY <1>1, <2>1, <2>2, TargetFrame DEF Works
<1>11. ASSUME NEW k \in {"pub", "other"}, AddIn(k) PROVE TargetInv'
  BY <1>11, StartPushTargets DEF AddIn
<1>12. ASSUME NEW stale, Tick(stale) PROVE TargetInv'
  BY <1>12, StartPushTargets DEF Tick
<1>13. CASE OthersAcquire \/ OthersRelease \/ UNCHANGED vars
  <2>1. UNCHANGED <<proxy, pc, url, relay>>
    BY <1>13 DEF OthersAcquire, OthersRelease, vars
  <2>2. QED BY <2>1 DEF TargetInv, Works
<1>14. QED
  BY <1>3, <1>4, <1>5, <1>6, <1>7, <1>8, <1>9, <1>10, <1>11, <1>12, <1>13 DEF Next, Relay

\* While publishers come and go, handshakes last, time out or fail and the API
\* starts, redirects and stops its relay: isPushing of a target of the
\* configuration is exactly "one goroutine works for it", no slot leaks and
\* retry_num is kept.  The hypothesis cannot be dropped: a push_url that is also
\* a target of the configuration breaks the entry they share, which PanicsRecovered
\* shows.
THEOREM Accounted ==
    ASSUME StaticUrls \cap ApiUrls = {}
    PROVE  Spec => []PushesAccounted
<1>1. Init => TargetInv /\ CountInv
  <2> SUFFICES ASSUME Init PROVE TargetInv /\ CountInv
    OBVIOUS
  <2>1. ~relay.isRelaying /\ CountInv
    BY DEF Init, NoRelay, CountInv
  <2>2. \A s \in Sessions : pc[s] = "idle" /\ ~Works(s)
    BY DEF Init, Works, StaticGoroutine
  <2>3. NoProxy \in [isPushing : BOOLEAN, session : Sessions \cup {None}] /\ ~NoProxy.isPushing
    BY DEF NoProxy
  <2>4. /\ \A u \in StaticUrls : proxy[u] = NoProxy
        /\ \A u \in ApiUrls : proxy[u] = None
    BY DEF Init, Urls
  <2>5. QED BY <2>1, <2>2, <2>3, <2>4 DEF TargetInv
<1>2. TypeOK /\ SlotsInv /\ TargetInv /\ CountInv => PushesAccounted
  <2> SUFFICES ASSUME TypeOK, SlotsInv, TargetInv, CountInv PROVE PushesAccounted
    OBVIOUS
  <2>1. ASSUME NEW u \in StaticUrls
        PROVE  LET g == {s \in Sessions : pc[s] \in StaticGoroutine /\ url[s] = u}
               IN  IF proxy[u].isPushing THEN Cardinality(g) = 1 ELSE g = {}
    <3> DEFINE g == {s \in Sessions : pc[s] \in StaticGoroutine /\ url[s] = u}
    <3>1. CASE proxy[u].isPushing
      <4>1. PICK s \in Sessions : Works(s) /\ url[s] = u
        BY <3>1 DEF TargetInv
      <4>2. g = {s}
        BY <4>1 DEF TargetInv, Works
      <4>3. Cardinality(g) = 1
        BY <4>2, FS_Singleton
      <4>4. QED BY <3>1, <4>3
    <3>2. CASE ~proxy[u].isPushing
      <4>1. g = {}
        BY <3>2 DEF TargetInv, Works
      <4>2. QED BY <3>2, <4>1
    <3>3. QED BY <3>1, <3>2
  <2>2. QED BY <2>1 DEF PushesAccounted, SlotsInv, Starting, CountInv
<1>3. QED BY <1>1, <1>2, Typing, TargetStep, CountStep, PTL DEF Spec

=============================================================================
