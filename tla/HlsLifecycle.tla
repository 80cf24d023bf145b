---------------------------- MODULE HlsLifecycle ----------------------------
(***************************************************************************)
(* Viewers, muxers and files of one HLS stream: the session map of         *)
(* hls.ServerHandler (one mutex), the groups that own the muxers (another  *)
(* mutex) and the deferred clean-up of the directory (no mutex).           *)
(*                                                                         *)
(* A handler operation holds the handler's mutex while it calls            *)
(* OnDelHlsSubSession, which locks the group once per question it asks and *)
(* calls stopHlsIfNeeded without any lock of the group.                    *)
(*                                                                         *)
(* Abstractions: a publisher looks its group up and joins it in one step   *)
(* (module GroupLifecycle has the gap between them; that of a viewer is    *)
(* here); the files of a muxer are one member of the directory; viewers of *)
(* other protocols are left out.                                           *)
(***************************************************************************)
EXTENDS Naturals, FiniteSets

CONSTANTS
    Sessions,          \* hls viewers
    Groups, NoGroup,   \* Group objects of the stream
    HttpEnable,        \* hls.enable; otherwise only hls.enable_https
    CleanupMode,       \* "never", "inTheEnd", "asap"
    MemoryAsDisk,      \* use_memory_as_disk_flag
    MaxMuxers          \* bound: publishers

ASSUME HlsLifecycleAssumption ==
    /\ NoGroup \notin Groups /\ MaxMuxers \in Nat
    /\ CleanupMode \in {"never", "inTheEnd", "asap"}
    /\ {HttpEnable, MemoryAsDisk} \subseteq BOOLEAN

VARIABLES
    mapped,      \* the group that lookups find
    stale,       \* groups erased from the map
    input,       \* groups with a publisher
    hlsSubs,     \* hlsSubSessionSet of a group
    muxer,       \* hlsMuxer of a group, 0 for nil
    muxers,      \* history: number of muxers made
    dir,         \* muxers whose files are in the output directory
    tasks,       \* deferred clean-ups: <<muxer, who stopped it, stage>>
    sessionMap,  \* the sessions the handler serves
    expired, disposed,   \* those of them that are
    fresh,       \* sessions not created yet
    joining,     \* the session whose createSubSession has found a group and not joined it
    raced,       \* history: sessions that joined a group erased meanwhile
    handler,     \* what runs under the handler's mutex
    up,          \* the handler's runLoop has not been told to end
    started, stopped   \* history: notifications per session

groupVars == <<mapped, stale, input, hlsSubs, muxer, muxers>>
fileVars == <<dir, tasks>>
sessVars == <<sessionMap, expired, disposed, fresh, joining, raced, started, stopped>>
vars == <<groupVars, fileVars, sessVars, handler, up>>

Free == [pc |-> "free", group |-> NoGroup, loop |-> "none"]
HandlerFree == handler.pc = "free"
Running == handler.pc # "panic"      \* the process

Init ==
    /\ mapped = NoGroup /\ stale = {} /\ input = {}
    /\ hlsSubs = [g \in Groups |-> {}]
    /\ muxer = [g \in Groups |-> 0] /\ muxers = 0
    /\ dir = {} /\ tasks = {}
    /\ sessionMap = {} /\ expired = {} /\ disposed = {} /\ fresh = Sessions
    /\ joining = {} /\ raced = {}
    /\ started = [s \in Sessions |-> 0] /\ stopped = [s \in Sessions |-> 0]
    /\ handler = Free /\ up = TRUE

-----------------------------------------------------------------------------
(* Group and publisher, under group.mutex *)

GetOrCreateGroup(g) ==
    IF mapped # NoGroup THEN g = mapped ELSE g \in Groups \ stale

StartHlsIfNeeded(g) ==
    /\ muxers < MaxMuxers
    /\ muxers' = muxers + 1
    /\ muxer' = [muxer EXCEPT ![g] = muxers + 1]
    /\ dir' = (IF muxer[g] = 0 /\ MemoryAsDisk THEN {} ELSE dir) \cup {muxers + 1}

AddIn(g) ==
    /\ Running
    /\ GetOrCreateGroup(g)
    /\ mapped' = g
    /\ g \notin input
    /\ input' = input \cup {g}
    /\ StartHlsIfNeeded(g)
    /\ UNCHANGED <<stale, hlsSubs, tasks, sessVars, handler, up>>

\* The tasks after muxer m was stopped.
CleanupHlsIfNeeded(m, who) ==
    IF HttpEnable /\ CleanupMode \in {"inTheEnd", "asap"}
    THEN tasks \cup {<<m, who, "waiting">>} ELSE tasks

\* delIn stops the muxer under the mutex of the group, with a clean-up to follow.
DelIn(g) ==
    /\ Running
    /\ g \in input
    /\ input' = input \ {g}
    /\ tasks' = IF muxer[g] = 0 THEN tasks ELSE CleanupHlsIfNeeded(muxer[g], "delIn")
    /\ muxer' = [muxer EXCEPT ![g] = 0]
    /\ UNCHANGED <<mapped, stale, hlsSubs, muxers, dir, sessVars, handler, up>>

EraseIgnoringHls ==
    /\ Running
    /\ mapped # NoGroup /\ mapped \notin input
    /\ mapped' = NoGroup
    /\ stale' = stale \cup {mapped}
    /\ UNCHANGED <<input, hlsSubs, muxer, muxers, fileVars, sessVars, handler, up>>

\* The timer of the server manager erases a group without input and viewers.
Erase ==
    /\ Running
    /\ mapped # NoGroup /\ mapped \notin input /\ hlsSubs[mapped] = {}
    /\ mapped' = NoGroup
    /\ stale' = stale \cup {mapped}
    /\ UNCHANGED <<input, hlsSubs, muxer, muxers, fileVars, sessVars, handler, up>>

\* Nothing refers to an erased group any more, and its object is used anew.
ForgetGroup(g) ==
    /\ Running
    /\ g \in stale /\ handler.group # g
    /\ stale' = stale \ {g}
    /\ hlsSubs' = [hlsSubs EXCEPT ![g] = {}]
    /\ UNCHANGED <<mapped, input, muxer, muxers, fileVars, sessVars, handler, up>>

-----------------------------------------------------------------------------
(* ServerHandler, under its mutex *)

\* createSubSession, until OnNewHlsSubSession has found a group.
CreateSubSession(s, g) ==
    /\ HandlerFree /\ s \in fresh
    /\ GetOrCreateGroup(g)
    /\ mapped' = g
    /\ sessionMap' = sessionMap \cup {s}
    /\ fresh' = fresh \ {s}
    /\ joining' = {s}
    /\ handler' = [pc |-> "join", group |-> g, loop |-> "none"]
    /\ UNCHANGED <<stale, input, hlsSubs, muxer, muxers, fileVars, expired, disposed, raced,
                   started, stopped, up>>

\* OnNewHlsSubSession joins the group it has in hand, which the timer may have
\* erased meanwhile, and notifies.
JoinGroup(s) ==
    /\ handler.pc = "join" /\ s \in joining
    /\ hlsSubs' = [hlsSubs EXCEPT ![handler.group] = @ \cup {s}]
    /\ joining' = {}
    /\ raced' = IF handler.group = mapped THEN raced ELSE raced \cup {s}
    /\ started' = [started EXCEPT ![s] = @ + 1]
    /\ handler' = Free
    /\ UNCHANGED <<mapped, stale, input, muxer, muxers, fileVars, sessionMap, expired, disposed,
                   fresh, stopped, up>>

KeepSessionAlive(s) ==
    /\ HandlerFree /\ s \in sessionMap
    /\ expired' = expired \ {s}
    /\ UNCHANGED <<groupVars, fileVars, sessionMap, disposed, fresh, joining, raced, started, stopped,
                   handler, up>>

\* The viewer has asked for nothing during subSessionTimeout.
Expires(s) ==
    /\ Running
    /\ s \in sessionMap \ expired
    /\ expired' = expired \cup {s}
    /\ UNCHANGED <<groupVars, fileVars, sessionMap, disposed, fresh, joining, raced, started, stopped,
                   handler, up>>

\* CtrlKickSession, by Group.KickSession.
KickSession(s) ==
    /\ Running
    /\ mapped # NoGroup /\ s \in hlsSubs[mapped] \ disposed
    /\ disposed' = disposed \cup {s}
    /\ UNCHANGED <<groupVars, fileVars, sessionMap, expired, fresh, joining, raced, started, stopped,
                   handler, up>>

\* OnDelHlsSubSession returns to the loop that called it, if one did.
Returned(loop) == IF loop = "none" THEN Free
                  ELSE [pc |-> "loop", group |-> NoGroup, loop |-> loop]

\* Takes s out of the map and out of its group and notifies; then, with the
\* group still in hand, asks whether the muxer is to be stopped.  Whether s has
\* expired or is disposed is not looked at again.
OnDelHlsSubSession(s, loop) ==
    /\ sessionMap' = sessionMap \ {s}
    /\ expired' = expired \ {s}
    /\ disposed' = disposed \ {s}
    /\ IF mapped = NoGroup
       THEN handler' = Returned(loop) /\ UNCHANGED <<hlsSubs, stopped>>
       ELSE /\ hlsSubs' = [hlsSubs EXCEPT ![mapped] = @ \ {s}]
            /\ stopped' = [stopped EXCEPT ![s] = @ + 1]
            /\ handler' = [pc |-> "ask", group |-> mapped, loop |-> loop]
    /\ UNCHANGED <<mapped, stale, input, muxer, muxers, fileVars, fresh, joining, raced, started, up>>

\* CloseSubSessionIfExist, for an address on the blacklist, and
\* CloseSubSessionByUniqueKey, which also disposes the session.
CloseSubSession(s) ==
    /\ HandlerFree /\ s \in sessionMap
    /\ OnDelHlsSubSession(s, "none")

\* clearExpireSession, once a second by runLoop.
ClearExpireSession ==
    /\ HandlerFree /\ up
    /\ sessionMap \cap (expired \cup disposed) # {}
    /\ handler' = [Free EXCEPT !.pc = "loop", !.loop = "expire"]
    /\ UNCHANGED <<groupVars, fileVars, sessVars, up>>

Dispose ==
    /\ HandlerFree /\ up
    /\ up' = FALSE
    /\ handler' = [Free EXCEPT !.pc = "loop", !.loop = "dispose"]
    /\ UNCHANGED <<groupVars, fileVars, sessVars>>

Due == IF handler.loop = "dispose" THEN sessionMap
       ELSE sessionMap \cap (expired \cup disposed)

LoopVisits(s) ==
    /\ handler.pc = "loop" /\ s \in Due
    /\ OnDelHlsSubSession(s, handler.loop)

LoopEnds ==
    /\ handler.pc = "loop" /\ Due = {}
    /\ handler' = Free
    /\ UNCHANGED <<groupVars, fileVars, sessVars, up>>

\* HasInSession, HasOutSession, HasHlsSubSession; viewers only come under the
\* mutex that is held.
AskGroup ==
    /\ handler.pc = "ask"
    /\ handler' = IF handler.group \notin input /\ hlsSubs[handler.group] = {}
                  THEN [handler EXCEPT !.pc = "stop"] ELSE Returned(handler.loop)
    /\ UNCHANGED <<groupVars, fileVars, sessVars, up>>

\* stopHlsIfNeeded, outside group.mutex: disposes what it finds, and reads
\* the field again for the directory.  There nil panics: the http server
\* recovers a request, but the panic of runLoop ends the process.
StopFindsMuxer ==
    /\ handler.pc = "stop"
    /\ handler' = IF muxer[handler.group] = 0 THEN Returned(handler.loop)
                  ELSE [handler EXCEPT !.pc = "clear"]
    /\ UNCHANGED <<groupVars, fileVars, sessVars, up>>

StopClearsMuxer ==
    LET g == handler.group
    IN  /\ handler.pc = "clear"
        /\ IF muxer[g] = 0
           THEN /\ handler' = IF handler.loop = "none" THEN Free
                              ELSE [handler EXCEPT !.pc = "panic"]
                /\ UNCHANGED tasks
           ELSE /\ tasks' = CleanupHlsIfNeeded(muxer[g], "viewer")
                /\ handler' = Returned(handler.loop)
        /\ muxer' = [muxer EXCEPT ![g] = 0]
        /\ UNCHANGED <<mapped, stale, input, hlsSubs, muxers, dir, sessVars, up>>

-----------------------------------------------------------------------------
(* Deferred clean-up, after FragmentDurationMs for each fragment kept *)

CancelWhenGroupExists(m, who) ==
    /\ Running
    /\ <<m, who, "waiting">> \in tasks
    /\ tasks' = (tasks \ {<<m, who, "waiting">>})
                   \cup (IF mapped # NoGroup THEN {} ELSE {<<m, who, "removing">>})
    /\ UNCHANGED <<groupVars, dir, sessVars, handler, up>>

CleanupChecks(m, who) ==
    /\ Running
    /\ <<m, who, "waiting">> \in tasks
    /\ tasks' = (tasks \ {<<m, who, "waiting">>})
                   \cup (IF mapped # NoGroup /\ muxer[mapped] # 0 THEN {}
                         ELSE {<<m, who, "removing">>})
    /\ UNCHANGED <<groupVars, dir, sessVars, handler, up>>

CleanupRemovesAll(m, who) ==
    /\ Running
    /\ <<m, who, "removing">> \in tasks
    /\ tasks' = tasks \ {<<m, who, "removing">>}
    /\ dir' = {}
    /\ UNCHANGED <<groupVars, sessVars, handler, up>>

-----------------------------------------------------------------------------
Cleanup(m, who) == CleanupChecks(m, who) \/ CleanupRemovesAll(m, who)
Stoppers == {"delIn", "viewer"}

Deleting ==
    \/ \E s \in Sessions : LoopVisits(s)
    \/ LoopEnds \/ AskGroup \/ StopFindsMuxer \/ StopClearsMuxer

Next ==
    \/ \E g \in Groups : AddIn(g) \/ DelIn(g) \/ ForgetGroup(g)
    \/ Erase \/ ClearExpireSession \/ Dispose \/ Deleting
    \/ \E s \in Sessions, g \in Groups : CreateSubSession(s, g)
    \/ \E s \in Sessions : JoinGroup(s) \/ CloseSubSession(s)
    \/ \E s \in Sessions : KeepSessionAlive(s) \/ Expires(s) \/ KickSession(s)
    \/ \E m \in 1..MaxMuxers, who \in Stoppers : Cleanup(m, who)

Spec == Init /\ [][Next]_vars

(* The ticker of runLoop and the thread of deferred tasks run; a mutex is   *)
(* not withheld for ever (sync.Mutex is starvation free).                   *)
FairSpec ==
    /\ Spec
    /\ SF_vars(ClearExpireSession) /\ WF_vars(Deleting)
    /\ WF_vars(\E s \in Sessions : JoinGroup(s))
    /\ \A m \in 1..MaxMuxers, who \in Stoppers : WF_vars(Cleanup(m, who))

-----------------------------------------------------------------------------
(* Properties *)

TypeOK ==
    /\ mapped \in (Groups \cup {NoGroup}) \ stale
    /\ stale \subseteq Groups /\ input \subseteq Groups
    /\ hlsSubs \in [Groups -> SUBSET Sessions]
    /\ muxer \in [Groups -> 0..MaxMuxers] /\ muxers \in 0..MaxMuxers
    /\ dir \subseteq 1..MaxMuxers
    /\ tasks \subseteq (1..MaxMuxers) \X Stoppers \X {"waiting", "removing"}
    /\ sessionMap \subseteq Sessions /\ fresh \subseteq Sessions
    /\ expired \subseteq Sessions /\ disposed \subseteq Sessions
    /\ joining \subseteq Sessions /\ raced \subseteq Sessions
    /\ started \in [Sessions -> Nat] /\ stopped \in [Sessions -> Nat]
    /\ handler \in [pc : {"free", "join", "loop", "ask", "stop", "clear", "panic"},
                    group : Groups \cup {NoGroup}, loop : {"none", "expire", "dispose"}]
    /\ up \in BOOLEAN

\* The session map and the groups agree: a viewer the handler serves is in the
\* group lookups find, one it dropped is in no group, and on_sub_stop is
\* notified exactly once for each on_sub_start.  Expiry, kicks, the blacklist
\* and shutdown all end sessions.  The only exception is a viewer whose group was
\* erased between OnNewHlsSubSession's lookup and its join (raced): it stays in that
\* group, and its on_sub_stop comes at most once, not at all when no group is found.
HandlerMatchesGroup ==
    /\ \A g \in Groups \ {mapped} : hlsSubs[g] \subseteq raced
    /\ sessionMap \ (joining \cup raced) = IF mapped = NoGroup THEN {} ELSE hlsSubs[mapped]
    /\ \A s \in Sessions : \/ started[s] - stopped[s] = IF s \in sessionMap \ joining THEN 1 ELSE 0
                           \/ s \in raced \ sessionMap /\ started[s] - stopped[s] = 1

\* What has ended is cleaned up.  A kicked viewer leaves the session map even if it
\* goes on requesting (clearExpireSession looks at disposed sessions too, which an
\* access does not revive); and, README: cleanup_mode 1 cleans up at the end, 2 as
\* soon as possible, so once nobody makes files any more the directory does not stay
\* filled (cleanupHlsIfNeeded).
EndedIsCleaned ==
    /\ \A s \in Sessions :
          (s \in disposed) ~> (s \notin sessionMap \/ ~up \/ ~Running)
    /\ CleanupMode # "never"
          => []<>(dir = {} \/ (\E g \in Groups : muxer[g] # 0) \/ ~Running)

=============================================================================
