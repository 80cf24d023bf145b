------------------------------ MODULE GbCascade ------------------------------
(***************************************************************************)
(* How a GB28181 server keeps itself registered with one upper platform    *)
(* and shows it its catalog (pkg/gb28181: runUpstreamLoop and what it      *)
(* calls, upstream_register_client.go, OnUpstreamMessage).                 *)
(*                                                                         *)
(* Every configured platform has a goroutine that wakes up every three     *)
(* seconds, registers, refreshes the registration after half its validity, *)
(* backs off after failures and sends keepalives.  A REGISTER waits five   *)
(* seconds for any datagram of the platform, other requests three.  Time   *)
(* is counted in periods of the ticker; computation takes none.  Messages  *)
(* are lost, delayed and answered late; the platform may restart.          *)
(***************************************************************************)
EXTENDS Integers, Sequences, FiniteSets, FiniteSetsExt

CONSTANTS
  CascadePlans,  \* what may happen outside: records of budgets and of the platform's kind
  Validity,      \* RegisterValidity
  KeepInterval,  \* KeepaliveInterval
  BackoffCap,    \* five minutes
  AuthFloor,     \* thirty seconds
  CatalogTtl,    \* upstreamCatalogCacheTTL
  UpStreams,     \* names of streams
  GbStreams,     \* those that are streams of a device's channel
  Tolerated      \* failures in a row that half the validity covers

ASSUME CascadeAssumption ==
  /\ {Validity, KeepInterval, BackoffCap, AuthFloor, CatalogTtl} \subseteq Nat \ {0}
  /\ GbStreams \subseteq UpStreams /\ Tolerated \in Nat

\* A plan: auth, password: the platform asks for a digest, and ours is right; lost,
\* restarts, reloads, changes, asks: how often something of that kind happens; disposes;
\* end: the last moment looked at

VARIABLES
  plan,      \* what is left of the plan
  now,       \* the time
  ups,       \* every upstreamServer there has been, with its goroutine
  listed,    \* the one in the upstreams map, 0 for none
  platform,  \* until when we are registered there, and its answers that are on their way
  upSubs,    \* the streams it is subscribed to
  media,     \* by stream: "none", "invited", or "active" (hasActiveMediaStream)
  devOnline, \* the device is online
  catalog,   \* upstreamCatalogCache
  query,     \* the handler of a catalog query: the streams left, when it began, the list;
             \* whether its upstreamServer is listed no more, and then its subscriptions
  shown,     \* the last catalog the platform got
  past       \* facts about the streams and when they last held: a history

cascadeVars == <<plan, now, ups, listed, platform, upSubs, media, devOnline, catalog, query,
                 shown, past>>

Never == -1

\* okAt: lastRegisterOKAt; keepAt: lastKeepaliveAt; retry: registerRetryCount; nextTry:
\* registerNextRetryAt; stop: stopCh; back: when it came back to its select; start: when
\* the iteration began; since: when the request was sent; heard: what the platform answered
NewUpstream ==
  [okAt |-> Never, keepAt |-> Never, retry |-> 0, nextTry |-> Never, stop |-> "open",
   pc |-> "select", back |-> now, start |-> Never, since |-> Never, heard |-> "no"]

NoCatalog == [list |-> {}, at |-> Never]
NoQuery == [pc |-> "idle", todo |-> {}, at |-> Never, list |-> {}, unlisted |-> FALSE,
            old |-> {}]

CascadeInit ==
  /\ plan \in CascadePlans
  /\ now = 0
  /\ ups = <<NewUpstream>> /\ listed = 1
  /\ platform = [until |-> Never, late |-> {}, forgot |-> FALSE, mistaken |-> FALSE]
  /\ upSubs = UpStreams
  /\ media = [n \in UpStreams |-> "active"] /\ devOnline = TRUE
  /\ catalog = NoCatalog /\ query = NoQuery
  /\ shown = NoCatalog /\ past = {}

CatalogUnchanged == UNCHANGED <<upSubs, media, devOnline, query, shown, past>>

Budget(kind) == plan[kind] > 0 /\ plan' = [plan EXCEPT ![kind] = @ - 1]

-----------------------------------------------------------------------------
(* The catalog                                                             *)

\* buildUpstreamCatalogBody, buildChannel: what the catalog says of a stream
Status(n) ==
  LET on == IF n \in GbStreams THEN devOnline /\ media[n] # "none" ELSE media[n] = "active"
  IN IF on THEN "on" ELSE "off"

\* up.subs.Range: the entries of those streams that are subscribed to
Listing(streams, subs) == {[n |-> n, says |-> Status(n)] : n \in streams \cap subs}

\* The subscriptions a query goes through are those of the upstreamServer it found
QuerySubs == IF query.unlisted THEN query.old ELSE upSubs

\* Within upstreamCatalogCacheTTL the cached list is used again
CatalogFresh(c) == c.at # Never /\ now - c.at < CatalogTtl

\* An empty list is not cached
Stored(list, at) == IF list = {} THEN catalog ELSE [list |-> list, at |-> at]

\* A MESSAGE with a catalog query (OnUpstreamMessage)
OnCatalogQuery ==
  /\ query.pc = "idle" /\ listed # 0 /\ Budget("asks")
  /\ IF CatalogFresh(catalog)
     THEN shown' = [list |-> catalog.list, at |-> now] /\ UNCHANGED query
     ELSE /\ query' = [NoQuery EXCEPT !.pc = "build", !.todo = UpStreams, !.at = now]
          /\ UNCHANGED shown
  /\ UNCHANGED <<now, ups, listed, platform, upSubs, media, devOnline, catalog, past>>

\* subs.Range, stream by stream
BuildEntry(n) ==
  /\ query.pc = "build" /\ n \in query.todo
  /\ query' = [query EXCEPT !.todo = @ \ {n}, !.list = @ \cup Listing({n}, QuerySubs)]
  /\ UNCHANGED <<plan, now, ups, listed, platform, upSubs, media, devOnline, catalog, shown, past>>

\* The list enters the cache, whatever has changed since, and is sent
AnswerCatalog ==
  /\ query.pc = "build" /\ query.todo = {}
  /\ catalog' = Stored(query.list, query.at)
  /\ shown' = [list |-> query.list, at |-> now]
  /\ query' = NoQuery
  /\ UNCHANGED <<plan, now, ups, listed, platform, upSubs, media, devOnline, past>>

\* What is true of the streams: whether they are subscribed to, and their status
Subscribed(n) == IF n \in upSubs THEN "subscribed" ELSE "absent"
Facts == {<<n, Subscribed(n)>> : n \in UpStreams} \cup {<<n, Status(n)>> : n \in UpStreams}

\* What was true of them until now
Superseded == past' = past \cup {[fact |-> f, until |-> now] : f \in Facts}

\* AddUpstreamSub, RemoveUpstreamSub: the table changes, then the cache is invalidated
ChangeSub(n) ==
  /\ listed # 0 /\ Budget("changes")
  /\ upSubs' = IF n \in upSubs THEN upSubs \ {n} ELSE upSubs \cup {n}
  /\ Superseded
  /\ query' = IF query.pc = "idle" THEN [NoQuery EXCEPT !.pc = "invalidate"] ELSE query
  /\ catalog' = IF query.pc = "idle" THEN catalog ELSE NoCatalog
  /\ UNCHANGED <<now, ups, listed, platform, media, devOnline, shown>>

InvalidateCatalog ==
  /\ query.pc = "invalidate"
  /\ catalog' = NoCatalog /\ query' = NoQuery
  /\ UNCHANGED <<plan, now, ups, listed, platform, upSubs, media, devOnline, shown, past>>

\* A stream or the device comes or goes; nothing invalidates the cache
StreamChanges ==
  /\ Budget("changes")
  /\ \/ /\ \E n \in UpStreams, m \in {"none", "invited", "active"} :
             m # media[n] /\ media' = [media EXCEPT ![n] = m]
        /\ UNCHANGED devOnline
     \/ devOnline' = ~devOnline /\ UNCHANGED media
  /\ Superseded
  /\ UNCHANGED <<now, ups, listed, platform, upSubs, catalog, query, shown>>

-----------------------------------------------------------------------------
(* The goroutine of a platform                                             *)

Go(l, u) == ups' = [ups EXCEPT ![l] = u]

Sending(u, pc) == [u EXCEPT !.pc = pc, !.since = now, !.heard = "no"]

Selecting(u) == [u EXCEPT !.pc = "select", !.back = now]

\* ensureUpstreamKeepalive
KeepaliveDue(u) == u.okAt # Never /\ (u.keepAt = Never \/ now - u.keepAt >= KeepInterval)
Keepalive(u) == IF KeepaliveDue(u) THEN Sending(u, "keepalive") ELSE Selecting(u)

\* The registration is in order: the first one is followed by the catalog
AfterRegister(u, first) ==
  LET u1 == [u EXCEPT !.retry = 0, !.nextTry = Never]
  IN IF first THEN [u1 EXCEPT !.pc = "catalog"] ELSE Keepalive(u1)

\* min, max: the jitter of 0.8 to 1.2, rounded outwards
Backoff(count, authFailed) ==
  LET doubled == 2 ^ Min({count, 10})
      b == Min({BackoffCap, IF authFailed THEN Max({doubled, AuthFloor}) ELSE doubled})
  IN (b * 8) \div 10 .. (b * 12 + 9) \div 10

\* A failed registration: the time of the next try is counted from the beginning
RegisterFailed(u, backoff) ==
  Selecting([u EXCEPT !.retry = @ + 1, !.nextTry = u.start + backoff])

\* ensureUpstreamRegister: there is no registration, or half its validity is over
RegisterDue(u) == u.okAt = Never \/ now - u.okAt >= Validity \div 2

\* The ticker: during a backoff nothing is sent at all, no keepalive either
WakeUp(l) ==
  LET u == [ups[l] EXCEPT !.start = now, !.stop = IF @ = "disposed" THEN "nil" ELSE @]
  IN /\ u.pc = "select" /\ now > u.back
     /\ Go(l, IF u.nextTry > now THEN Selecting(u)
              ELSE IF RegisterDue(u) THEN Sending(u, "register")
              ELSE AfterRegister(u, FALSE))
     /\ UNCHANGED <<plan, now, listed, platform, catalog>> /\ CatalogUnchanged

\* stopCh is closed, and its select sees it
Stops(l) ==
  /\ ups[l].pc = "select" /\ ups[l].stop \in {"closed", "disposed"}
  /\ Go(l, [ups[l] EXCEPT !.pc = "ended"])
  /\ UNCHANGED <<plan, now, listed, platform, catalog>> /\ CatalogUnchanged

\* sendUpstreamCatalog: from the cache or built, then sent
SendUpstreamCatalog(l) ==
  LET list == IF CatalogFresh(catalog) THEN catalog.list
              ELSE Listing(UpStreams, upSubs)
  IN /\ ups[l].pc = "catalog"
     /\ Go(l, Sending(ups[l], "catalog sent"))
     /\ catalog' = IF CatalogFresh(catalog) THEN catalog ELSE Stored(list, now)
     /\ shown' = [list |-> list, at |-> now]
     /\ UNCHANGED <<plan, now, listed, platform, upSubs, media, devOnline, query, past>>

Waiting(u) == u.pc \in {"register", "register auth", "catalog sent", "keepalive"}
Registering(u) == u.pc \in {"register", "register auth"}

\* Five seconds for a REGISTER, three for the others
Deadline(u) == u.since + IF Registering(u) THEN 2 ELSE 1

\* The platform receives a request and answers it
PlatformAnswers(l) ==
  LET u == ups[l]
      takes == (u.pc = "register" /\ ~plan.auth) \/ (u.pc = "register auth" /\ plan.password)
      answer == CASE takes -> "200"
                  [] Registering(u) -> "401"
                  [] u.pc = "keepalive" /\ platform.until <= now -> "error"
                  [] OTHER -> "200"
  IN /\ Waiting(u) /\ u.heard = "no"
     /\ Go(l, [u EXCEPT !.heard = answer])
     /\ platform' = IF takes THEN [platform EXCEPT !.until = now + Validity, !.forgot = FALSE]
                    ELSE platform
     /\ UNCHANGED <<plan, now, listed, catalog>> /\ CatalogUnchanged

\* buildUpstreamRawRegister with the digest of a 401's realm and nonce
RegisterAgain(u) == Sending(u, "register auth")

StampedAtAnswer(u, answer) ==
  IF answer = "200" THEN AfterRegister([u EXCEPT !.okAt = now], u.okAt = Never)
  ELSE RegisterAgain(u)

\* doUpstreamRegisterOnce, first and second call: the time of success is the time before
\* the exchange; 401 is answered by a second REGISTER, with a digest
Registered(u, answer) ==
  IF answer = "200" THEN AfterRegister([u EXCEPT !.okAt = u.start], u.okAt = Never)
  ELSE RegisterAgain(u)

\* What an answer does to the goroutine.  A REGISTER that is refused for its digest, or
\* gets another answer, has failed; the answers to a catalog and a keepalive are only
\* looked at.
Answers(l, answer) ==
  LET u == ups[l]
      authFailed == u.pc = "register auth" /\ answer = "401"
  IN CASE Registering(u) /\ (authFailed \/ answer = "error") ->
            \E b \in Backoff(u.retry + 1, authFailed) : Go(l, RegisterFailed(u, b))
       [] Registering(u) -> Go(l, Registered(u, answer))
       [] u.pc = "catalog sent" -> Go(l, Keepalive(u))
       [] OTHER -> Go(l, Selecting(IF answer = "200" THEN [u EXCEPT !.keepAt = u.since] ELSE u))

Receive(l) ==
  /\ Waiting(ups[l]) /\ ups[l].heard # "no"
  /\ Answers(l, ups[l].heard)
  /\ platform' = IF Registering(ups[l]) /\ ups[l].heard = "200"
                 THEN [platform EXCEPT !.mistaken = FALSE] ELSE platform
  /\ UNCHANGED <<plan, now, listed, catalog>> /\ CatalogUnchanged

\* A late answer to an earlier REGISTER: nothing tells it from the one waited for
ReceiveLate(l) ==
  /\ Registering(ups[l])
  /\ \E answer \in platform.late :
       /\ Answers(l, answer)
       /\ platform' = [platform EXCEPT !.late = @ \ {answer}, !.mistaken = TRUE]
  /\ UNCHANGED <<plan, now, listed, catalog>> /\ CatalogUnchanged

\* The deadline passes: the request or its answer was lost, or the answer is late
Deadlined(l) ==
  LET u == ups[l]
  IN /\ Waiting(u) /\ now = Deadline(u) /\ Budget("lost")
     /\ Answers(l, "error")
     /\ platform' = IF Registering(u) /\ u.heard # "no"
                    THEN [platform EXCEPT !.late = @ \cup {u.heard}] ELSE platform
     /\ UNCHANGED <<now, listed, catalog>> /\ CatalogUnchanged

-----------------------------------------------------------------------------
(* Around it                                                               *)

\* A query that is being answered goes on with the subscriptions it found
Detached(q) ==
  IF q.pc = "build" /\ ~q.unlisted THEN [q EXCEPT !.unlisted = TRUE, !.old = upSubs] ELSE q

\* BrutalReloadUpstreams with the same platform: a new goroutine; the old one ends when it
\* comes back to its select.  The subscriptions and the cache are gone.
Reload ==
  /\ listed # 0 /\ Budget("reloads")
  /\ ups' = Append([ups EXCEPT ![listed].stop = "closed"], NewUpstream)
  /\ listed' = Len(ups) + 1
  /\ upSubs' = {} /\ catalog' = NoCatalog
  /\ query' = Detached(query)
  /\ Superseded
  /\ UNCHANGED <<now, platform, media, devOnline, shown>>

\* Dispose: stopCh is closed and forgotten, so that only a goroutine that waits in its
\* select sees it
DisposeUpstreams ==
  /\ listed # 0 /\ Budget("disposes")
  /\ ups' = [ups EXCEPT ![listed].stop = IF ups[listed].pc = "select" THEN "disposed" ELSE "nil"]
  /\ listed' = 0 /\ query' = Detached(query)
  /\ UNCHANGED <<now, platform, catalog, upSubs, media, devOnline, shown, past>>

\* The platform restarts and knows nobody
PlatformRestarts ==
  /\ platform.until > now /\ Budget("restarts")
  /\ platform' = [platform EXCEPT !.until = Never, !.forgot = TRUE]
  /\ UNCHANGED <<now, ups, listed, catalog>> /\ CatalogUnchanged

\* Time passes when nothing is left to do now: no ticker has fired, no deadline is due
TimePasses ==
  /\ now < plan.end /\ query.pc = "idle"
  /\ \A l \in DOMAIN ups :
       /\ ups[l].pc = "select" => now = ups[l].back
       /\ ups[l].pc # "catalog"
       /\ Waiting(ups[l]) => now < Deadline(ups[l])
  /\ now' = now + 1
  /\ past' = {e \in past : e.until + CatalogTtl > now}
  /\ UNCHANGED <<plan, ups, listed, platform, upSubs, media, devOnline, catalog, query, shown>>

CascadeNext ==
  \/ \E l \in DOMAIN ups :
       \/ WakeUp(l) \/ Stops(l) \/ SendUpstreamCatalog(l)
       \/ PlatformAnswers(l) \/ Receive(l) \/ ReceiveLate(l) \/ Deadlined(l)
  \/ OnCatalogQuery \/ AnswerCatalog \/ InvalidateCatalog
  \/ \E n \in UpStreams : BuildEntry(n) \/ ChangeSub(n)
  \/ StreamChanges
  \/ Reload \/ DisposeUpstreams \/ PlatformRestarts \/ TimePasses

CascadeSpec == CascadeInit /\ [][CascadeNext]_cascadeVars

-----------------------------------------------------------------------------
(* Properties                                                              *)

\* ListUpstreamStatus
ReportsRegistered(u) == u.okAt # Never /\ now - u.okAt < Validity

\* What the status API reports is true of the platform: while it says that the server is
\* registered, it is, unless the platform restarted or a late answer was taken for that of
\* another REGISTER; and a registration that was there lapses only after more than
\* Tolerated failures in a row (runUpstreamLoop, ensureUpstreamRegister).
RegistrationKept ==
  listed # 0 =>
    LET u == ups[listed]
    IN platform.forgot \/ platform.mistaken \/
         /\ ReportsRegistered(u) => platform.until > now
         /\ u.okAt # Never /\ platform.until <= now => u.retry > Tolerated

Recent(fact) == fact \in Facts \/ \E p \in past : p.fact = fact /\ p.until + CatalogTtl > now

\* What the catalog says of a stream was true less than the lifetime of the cache before
\* the platform got it, whatever changes while it is built: that it is subscribed to, the
\* status it has, or, if it is left out, that it is not (buildUpstreamCatalogBody).
CatalogRecent ==
  shown.at = now =>
    /\ \A e \in shown.list : Recent(<<e.n, "subscribed">>) /\ Recent(<<e.n, e.says>>)
    /\ \A n \in UpStreams : (\A e \in shown.list : e.n # n) => Recent(<<n, "absent">>)

=============================================================================
