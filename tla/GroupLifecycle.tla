--------------------------- MODULE GroupLifecycle ---------------------------
(***************************************************************************)
(* ServerManager, SimpleGroupManager and the life of Groups: sessions look *)
(* a group up by stream name (creating it), lock it and join; when they    *)
(* end they look it up again and leave.  The timer of RunLoop erases       *)
(* inactive groups, Dispose of the server manager disposes all of them.    *)
(*                                                                         *)
(* There are two locks.  The group manager's mutex covers a lookup, and a  *)
(* whole Iterate with all its callbacks; the mutex of a group covers one   *)
(* join, leave, IsInactive or Dispose.  Nothing covers a lookup and the    *)
(* join after it.                                                          *)
(*                                                                         *)
(* Abstractions: a group's pull task (module RelayPull) is one flag that   *)
(* keeps the group alive; authentication is a session that never comes.    *)
(***************************************************************************)
EXTENDS Naturals, FiniteSets

CONSTANTS
    Names,      \* stream names
    Groups,     \* identities of Group objects
    Pubs, Subs, \* sessions: publishers, and viewers other than hls
    None        \* nil

Sessions == Pubs \cup Subs

ASSUME GroupLifecycleAssumption ==
    /\ None \notin Groups \cup Sessions \cup Names
    /\ Pubs \cap Subs = {}

VARIABLES
    groups,     \* SimpleGroupManager.groups
    stage,      \* of a Group object: "unused", "live", "disposed"
    input,      \* the publisher of a group
    subs,       \* its viewers
    task,       \* its pull task is alive
    exitMsgs,   \* messages in its exitChan (capacity 1)
    looping,    \* its RunLoop has not returned
    server,     \* "running", "disposing", "exiting" (signalled), "stopped"
    iter,       \* an Iterate in progress: by whom, what it has to visit
    pc, ptr, name,   \* of a session: where it is, the group it holds
    closed      \* its connection was disposed from this side

groupVars == <<stage, input, subs, task, exitMsgs, looping>>
sessVars == <<pc, ptr, name, closed>>
managerVars == <<groups, server, iter>>
vars == <<managerVars, groupVars, sessVars>>

NotIterating == [by |-> "nobody", todo |-> {}, cond |-> None, dead |-> {}]
ManagerFree == iter.by = "nobody"

IsInactive(g) == input[g] = None /\ subs[g] = {} /\ ~task[g]

-----------------------------------------------------------------------------
Init ==
    /\ groups = [n \in Names |-> None]
    /\ stage = [g \in Groups |-> "unused"]
    /\ input = [g \in Groups |-> None]
    /\ subs = [g \in Groups |-> {}]
    /\ task = [g \in Groups |-> FALSE]
    /\ exitMsgs = [g \in Groups |-> 0]
    /\ looping = [g \in Groups |-> FALSE]
    /\ server = "running"
    /\ iter = NotIterating
    /\ pc = [s \in Sessions |-> "idle"]
    /\ ptr = [s \in Sessions |-> None]
    /\ name = [s \in Sessions |-> None]
    /\ closed = [s \in Sessions |-> FALSE]

-----------------------------------------------------------------------------
(* Sessions and API requests; a new group gets its goroutine at once.       *)

GetOrCreateGroup(n, g) ==
    /\ ManagerFree
    /\ IF groups[n] # None
       THEN g = groups[n] /\ UNCHANGED <<groups, stage, looping>>
       ELSE /\ stage[g] = "unused"
            /\ groups' = [groups EXCEPT ![n] = g]
            /\ stage' = [stage EXCEPT ![g] = "live"]
            /\ looping' = [looping EXCEPT ![g] = TRUE]

\* The first half of OnNewXxxSession.
OnNewSession(s, n, g) ==
    /\ pc[s] = "idle"
    /\ GetOrCreateGroup(n, g)
    /\ pc' = [pc EXCEPT ![s] = "found"]
    /\ ptr' = [ptr EXCEPT ![s] = g]
    /\ name' = [name EXCEPT ![s] = n]
    /\ UNCHANGED <<input, subs, task, exitMsgs, server, iter, closed>>

\* AddXxxPubSession: a second publisher is refused and disconnected.
AddPubSession(s) ==
    /\ pc[s] = "found"
    /\ IF input[ptr[s]] # None
       THEN pc' = [pc EXCEPT ![s] = "gone"] /\ UNCHANGED input
       ELSE /\ input' = [input EXCEPT ![ptr[s]] = s]
            /\ pc' = [pc EXCEPT ![s] = "joined"]
    /\ UNCHANGED <<groups, stage, subs, task, exitMsgs, looping, server, iter, ptr, name, closed>>

\* AddXxxSubSession.  Dispose has set the maps of viewers to nil: to join a
\* disposed group panics; the recovered handler ends the session.
AddSubSession(s) ==
    /\ pc[s] = "found"
    /\ IF stage[ptr[s]] = "disposed"
       THEN pc' = [pc EXCEPT ![s] = "leaving"] /\ UNCHANGED subs
       ELSE /\ subs' = [subs EXCEPT ![ptr[s]] = @ \cup {s}]
            /\ pc' = [pc EXCEPT ![s] = "joined"]
    /\ UNCHANGED <<groups, stage, input, task, exitMsgs, looping, server, iter, ptr, name, closed>>

\* The connection ends: the peer left, or it was closed from this side.
SessionEnds(s) ==
    /\ pc[s] = "joined"
    /\ pc' = [pc EXCEPT ![s] = "leaving"]
    /\ UNCHANGED <<managerVars, groupVars, ptr, name, closed>>

OnDelIfPeerLeft(s) ==
    /\ pc[s] = "leaving" /\ ~closed[s]
    /\ ManagerFree
    /\ ptr' = [ptr EXCEPT ![s] = groups[name[s]]]
    /\ pc' = [pc EXCEPT ![s] = IF groups[name[s]] = None THEN "gone" ELSE "delete"]
    /\ UNCHANGED <<managerVars, groupVars, name, closed>>

\* OnDelXxxSession looks the group up by name, it may be gone or another one.
OnDelSession(s) ==
    /\ pc[s] = "leaving"
    /\ ManagerFree
    /\ ptr' = [ptr EXCEPT ![s] = groups[name[s]]]
    /\ pc' = [pc EXCEPT ![s] = IF groups[name[s]] = None THEN "gone" ELSE "delete"]
    /\ UNCHANGED <<managerVars, groupVars, name, closed>>

DelSessionForgets(s) ==
    /\ pc[s] = "delete"
    /\ pc' = [pc EXCEPT ![s] = "gone"]
    /\ UNCHANGED <<managerVars, groupVars, ptr, name, closed>>

\* DelXxxSession, delIn for the publisher that is the input.
DelSession(s) ==
    /\ pc[s] = "delete"
    /\ input' = [input EXCEPT ![ptr[s]] = IF @ = s THEN None ELSE @]
    /\ subs' = [subs EXCEPT ![ptr[s]] = @ \ {s}]
    /\ pc' = [pc EXCEPT ![s] = "gone"]
    /\ UNCHANGED <<groups, stage, task, exitMsgs, looping, server, iter, ptr, name, closed>>

\* The session object is garbage; its model value stands for a new session.
Forget(s) ==
    /\ pc[s] = "gone"
    /\ \A g \in Groups : input[g] # s /\ s \notin subs[g]
    /\ pc' = [pc EXCEPT ![s] = "idle"]
    /\ ptr' = [ptr EXCEPT ![s] = None]
    /\ name' = [name EXCEPT ![s] = None]
    /\ closed' = [closed EXCEPT ![s] = FALSE]
    /\ UNCHANGED <<managerVars, groupVars>>

\* CtrlKickSession: KickSession disposes a member of the group.
KickSession(n, s) ==
    /\ ManagerFree
    /\ groups[n] # None
    /\ input[groups[n]] = s \/ s \in subs[groups[n]]
    /\ closed' = [closed EXCEPT ![s] = TRUE]
    /\ UNCHANGED <<managerVars, groupVars, pc, ptr, name>>

\* CtrlStartRelayPull and CtrlStopRelayPull; a pull may also end by itself.
StartRelayPull(n, g) ==
    /\ GetOrCreateGroup(n, g)
    /\ task' = [task EXCEPT ![g] = TRUE]
    /\ UNCHANGED <<input, subs, exitMsgs, server, iter, sessVars>>

StopRelayPull(g) ==
    /\ task[g]
    /\ task' = [task EXCEPT ![g] = FALSE]
    /\ UNCHANGED <<groups, stage, input, subs, exitMsgs, looping, server, iter, sessVars>>

-----------------------------------------------------------------------------
(* Iterate: once a second by the timer, once by Dispose of the manager.     *)

IterateBegin(who) ==
    /\ iter.by = "nobody"
    /\ \/ who = "timer" /\ server # "stopped" /\ UNCHANGED server
       \/ who = "shutdown" /\ server = "running" /\ server' = "disposing"
    /\ iter' = [NotIterating EXCEPT !.by = who,
                                    !.todo = {n \in Names : groups[n] # None}]
    /\ UNCHANGED <<groups, groupVars, sessVars>>

VisitWithoutCheck(n) ==
    /\ n \in iter.todo /\ iter.cond = None
    /\ iter' = IF iter.by = "shutdown"
               THEN [iter EXCEPT !.todo = @ \ {n}, !.cond = n]
               ELSE [iter EXCEPT !.todo = @ \ {n}]
    /\ UNCHANGED <<groups, server, groupVars, sessVars>>

\* The callback up to the call of Dispose; Dispose takes the lock again.
VisitGroup(n) ==
    /\ n \in iter.todo /\ iter.cond = None
    /\ iter' = IF iter.by = "shutdown" \/ IsInactive(groups[n])
               THEN [iter EXCEPT !.todo = @ \ {n}, !.cond = n]
               ELSE [iter EXCEPT !.todo = @ \ {n}]
    /\ UNCHANGED <<groups, server, groupVars, sessVars>>

\* Group.Dispose; it sends to exitChan before it takes the group's lock.
DisposeGroup ==
    LET g == groups[iter.cond]
    IN  /\ iter.cond # None
        /\ exitMsgs[g] = 0
        /\ exitMsgs' = [exitMsgs EXCEPT ![g] = 1]
        /\ stage' = [stage EXCEPT ![g] = "disposed"]
        /\ closed' = [s \in Sessions |-> closed[s] \/ s = input[g] \/ s \in subs[g]]
        /\ input' = [input EXCEPT ![g] = None]
        /\ subs' = [subs EXCEPT ![g] = {}]
        /\ iter' = [iter EXCEPT !.cond = None,
                                !.dead = IF iter.by = "timer" THEN @ \cup {iter.cond} ELSE @]
        /\ UNCHANGED <<groups, server, task, looping, pc, ptr, name>>

IterateKeepsGroups ==
    /\ iter.by # "nobody" /\ iter.todo = {} /\ iter.cond = None
    /\ iter' = NotIterating
    /\ server' = IF iter.by = "shutdown" THEN "exiting" ELSE server
    /\ UNCHANGED <<groups, groupVars, sessVars>>

\* What the timer disposed leaves the map.  Dispose of the manager keeps the
\* groups and signals RunLoop, which may still tick before it sees that.
IterateEnd ==
    /\ iter.by # "nobody" /\ iter.todo = {} /\ iter.cond = None
    /\ groups' = [n \in Names |-> IF n \in iter.dead THEN None ELSE groups[n]]
    /\ iter' = NotIterating
    /\ server' = IF iter.by = "shutdown" THEN "exiting" ELSE server
    /\ UNCHANGED <<groupVars, sessVars>>

RunLoopReturns ==
    /\ server = "exiting" /\ iter.by = "nobody"
    /\ server' = "stopped"
    /\ UNCHANGED <<groups, iter, groupVars, sessVars>>

GroupRunLoopReturns(g) ==
    /\ looping[g] /\ exitMsgs[g] = 1
    /\ exitMsgs' = [exitMsgs EXCEPT ![g] = 0]
    /\ looping' = [looping EXCEPT ![g] = FALSE]
    /\ UNCHANGED <<groups, stage, input, subs, task, server, iter, sessVars>>

\* Nothing refers to the Group object any more.
ForgetGroup(g) ==
    /\ stage[g] = "disposed" /\ ~looping[g] /\ IsInactive(g)
    /\ \A n \in Names : groups[n] # g
    /\ \A s \in Sessions : ptr[s] # g
    /\ stage' = [stage EXCEPT ![g] = "unused"]
    /\ exitMsgs' = [exitMsgs EXCEPT ![g] = 0]
    /\ UNCHANGED <<managerVars, input, subs, task, looping, sessVars>>

-----------------------------------------------------------------------------
Session(s) ==
    \/ \E n \in Names, g \in Groups : OnNewSession(s, n, g)
    \/ s \in Pubs /\ AddPubSession(s)
    \/ s \in Subs /\ AddSubSession(s)
    \/ SessionEnds(s) \/ OnDelSession(s) \/ DelSession(s) \/ Forget(s)

Api ==
    \/ \E n \in Names, s \in Sessions : KickSession(n, s)
    \/ \E n \in Names, g \in Groups : StartRelayPull(n, g)
    \/ \E g \in Groups : StopRelayPull(g)

Loops ==
    \/ \E who \in {"timer", "shutdown"} : IterateBegin(who)
    \/ \E n \in Names : VisitGroup(n)
    \/ DisposeGroup \/ IterateEnd \/ RunLoopReturns
    \/ \E g \in Groups : GroupRunLoopReturns(g) \/ ForgetGroup(g)

Next == Api \/ Loops \/ \E s \in Sessions : Session(s)

Spec == Init /\ [][Next]_vars

(* The timer and the goroutines run; a mutex is not withheld for ever from  *)
(* a session that asks for it again and again (sync.Mutex is starvation     *)
(* free); a closed connection ends its session.                             *)
FairSpec ==
    /\ Spec
    /\ WF_vars(IterateBegin("timer")) /\ WF_vars(\E n \in Names : VisitGroup(n))
    /\ WF_vars(DisposeGroup) /\ WF_vars(IterateEnd)
    /\ \A g \in Groups : WF_vars(GroupRunLoopReturns(g))
    /\ \A s \in Sessions :
          /\ SF_vars(OnDelSession(s))
          /\ WF_vars(DelSession(s)) /\ WF_vars(closed[s] /\ SessionEnds(s))

-----------------------------------------------------------------------------
(* Properties *)

TypeOK ==
    /\ groups \in [Names -> Groups \cup {None}]
    /\ stage \in [Groups -> {"unused", "live", "disposed"}]
    /\ input \in [Groups -> Pubs \cup {None}]
    /\ subs \in [Groups -> SUBSET Subs]
    /\ task \in [Groups -> BOOLEAN]
    /\ exitMsgs \in [Groups -> {0, 1}]
    /\ looping \in [Groups -> BOOLEAN]
    /\ server \in {"running", "disposing", "exiting", "stopped"}
    /\ iter \in [by : {"nobody", "timer", "shutdown"}, todo : SUBSET Names,
                 cond : Names \cup {None}, dead : SUBSET Names]
    /\ pc \in [Sessions -> {"idle", "found", "joined", "leaving", "delete", "gone"}]
    /\ ptr \in [Sessions -> Groups \cup {None}]
    /\ name \in [Sessions -> Names \cup {None}]
    /\ closed \in [Sessions -> BOOLEAN]

Members(g) == ({input[g]} \ {None}) \cup subs[g]

\* A session that has ended is in no group that lookups find, although the
\* group it leaves is looked up by name and may have been erased and created
\* anew since it joined.
NoGhostInMap ==
    \A n \in Names :
        groups[n] # None =>
            \A s \in Members(groups[n]) :
                name[s] = n /\ pc[s] \in {"joined", "leaving", "delete"}

\* Group.Dispose sends to a channel of capacity 1 with the group manager
\* locked.  The message always finds room or a RunLoop that will take it,
\* also when the timer ticks once more after the manager was disposed.
DisposeNeverBlocks ==
    iter.cond # None =>
        LET g == groups[iter.cond] IN exitMsgs[g] = 0 \/ looping[g]

\* A group nobody uses does not stay in the map.
IdleGroupErased ==
    \A n \in Names, g \in Groups :
        (groups[n] = g /\ IsInactive(g))
            ~> (groups[n] # g \/ ~IsInactive(g) \/ server # "running")

\* A session that was kicked, or whose group was disposed, leaves.
ClosedSessionLeaves ==
    \A s \in Sessions :
        (closed[s] /\ pc[s] = "joined") ~> (\A n \in Names :
            groups[n] # None => s \notin Members(groups[n]))

=============================================================================
