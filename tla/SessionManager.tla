--------------------------- MODULE SessionManager ---------------------------
(***************************************************************************)
(* The SessionManager of a device or a client (src/internal/tunnel/        *)
(* session.go) and the goroutines that meet in it: the handlers that open  *)
(* sessions, the handler of close messages, the sessions' own goroutines,  *)
(* CloseAll (connection lost or shutting down) and the stale cleanup.      *)
(*                                                                         *)
(* Add, Get, Remove and Touch are one critical section each.  CloseAll and *)
(* the stale cleanup collect sessions under the mutex, release it, and     *)
(* close what they collected; Close runs once per session (closeOnce, a    *)
(* second caller waits) and ends with the hook, Remove of the session's    *)
(* ID, which takes the mutex again.                                        *)
(***************************************************************************)
EXTENDS Naturals, FiniteSets, Functions

CONSTANTS Sessions,          \* session objects
          Ids,               \* session IDs
          IdChoices,         \* the IDs the session objects may be opened under
          OpenDuringCleanup, \* sessions are added while CloseAll runs
          LateDuplicates     \* an open is handled again after its session ended

ASSUME ManagerAssumption ==
    /\ IdChoices \subseteq [Sessions -> Ids]
    /\ OpenDuringCleanup \in BOOLEAN
    /\ LateDuplicates \in BOOLEAN
    /\ Sessions \cap {"peer", "stale", "all", "none", "done"} = {}

(* Who calls Close: the handler of a close message, the stale cleanup,     *)
(* CloseAll, and each session's own read loop when it ends.                *)
Threads == {"peer", "stale", "all"} \cup Sessions

VARIABLES idOf,      \* the ID of each session object
          sessions,  \* SessionManager.sessions: ID -> session
          lastSeen,  \* the keys of SessionManager.lastSeen (a key's time is left out)
          mu,        \* SessionManager.mu: "none", or the thread that holds it
          phase,     \* where each session's opening handler stands
          hook,      \* the sessions whose onClose is set
          once,      \* closeOnce: "none", the thread inside it, or "done"
          pc,        \* where each thread stands
          todo,      \* the sessions each thread still has to close
          peerId     \* the session ID of the close message being handled

vars == <<idOf, sessions, lastSeen, mu, phase, hook, once, pc, todo, peerId>>

maps == <<sessions, lastSeen>>

TypeOK ==
    /\ idOf \in IdChoices
    /\ sessions \in UNION {[D -> Sessions] : D \in SUBSET Ids}
    /\ lastSeen = DOMAIN sessions
    /\ mu \in {"none", "stale", "all"}
    /\ phase \in [Sessions -> {"new", "added", "hooked", "running", "ended"}]
    /\ hook \subseteq Sessions
    /\ once \in [Sessions -> {"none", "done"} \cup Threads]
    /\ pc \in [Threads -> {"idle", "locked", "close", "hook"}]
    /\ todo \in [Threads -> SUBSET Sessions]
    /\ peerId \in Ids \cup {"none"}

Init ==
    /\ idOf \in IdChoices
    /\ sessions = [i \in {} |-> "none"]
    /\ lastSeen = {}
    /\ mu = "none"
    /\ phase = [s \in Sessions |-> "new"]
    /\ hook = {}
    /\ once = [s \in Sessions |-> "none"]
    /\ pc = [t \in Threads |-> "idle"]
    /\ todo = [t \in Threads |-> {}]
    /\ peerId = "none"

-----------------------------------------------------------------------------
(* Operators named Mutant... are plausible bugs, kept for mutation testing *)
(* of the properties; the specification does not use them.                 *)
Registered(s) == idOf[s] \in DOMAIN sessions /\ sessions[idOf[s]] = s

Remove(id) ==
    /\ mu = "none"
    /\ sessions' = Restrict(sessions, DOMAIN sessions \ {id})
    /\ lastSeen' = lastSeen \ {id}

(* The opening handler: Add, SetOnClose, Start. *)
Add(s) ==
    /\ phase[s] = "new" /\ mu = "none"
    /\ OpenDuringCleanup \/ pc["all"] = "idle"
    /\ IF idOf[s] \in DOMAIN sessions
       THEN /\ phase' = [phase EXCEPT ![s] = "ended"]
            /\ UNCHANGED maps
       ELSE /\ LateDuplicates \/ \A r \in Sessions \ {s} : idOf[r] = idOf[s] => phase[r] = "new"
            /\ sessions' = [i \in DOMAIN sessions \cup {idOf[s]} |->
                              IF i = idOf[s] THEN s ELSE sessions[i]]
            /\ lastSeen' = lastSeen \cup {idOf[s]}
            /\ phase' = [phase EXCEPT ![s] = "added"]
    /\ UNCHANGED <<idOf, mu, hook, once, pc, todo, peerId>>

SetOnClose(s) ==
    /\ phase[s] = "added"
    /\ hook' = hook \cup {s}
    /\ phase' = [phase EXCEPT ![s] = "hooked"]
    /\ UNCHANGED <<idOf, maps, mu, once, pc, todo, peerId>>

Start(s) ==
    /\ phase[s] = "hooked"
    /\ phase' = [phase EXCEPT ![s] = "running"]
    /\ UNCHANGED <<idOf, maps, mu, hook, once, pc, todo, peerId>>

(* Start fails, or the client's open is refused or not answered in time. *)
GiveUp(s) ==
    /\ phase[s] = "hooked"
    /\ Remove(idOf[s])
    /\ phase' = [phase EXCEPT ![s] = "ended"]
    /\ UNCHANGED <<idOf, mu, hook, once, pc, todo, peerId>>

(* The handler of a frame or an ack found the session with Get and touches *)
(* it, by when it may have been removed.                                   *)
Handled(id) == mu = "none" /\ \E s \in Sessions : idOf[s] = id /\ phase[s] # "new"

MutantTouch(id) ==
    /\ Handled(id)
    /\ lastSeen' = lastSeen \cup {id}
    /\ UNCHANGED <<idOf, sessions, mu, phase, hook, once, pc, todo, peerId>>

Touch(id) ==
    /\ Handled(id)
    /\ lastSeen' = lastSeen \cup ({id} \cap DOMAIN sessions)
    /\ UNCHANGED <<idOf, sessions, mu, phase, hook, once, pc, todo, peerId>>

-----------------------------------------------------------------------------
(* The calls that close sessions. *)
PeerClose(id) ==
    /\ pc["peer"] = "idle" /\ mu = "none" /\ id \in DOMAIN sessions
    /\ peerId' = id
    /\ todo' = [todo EXCEPT !["peer"] = {sessions[id]}]
    /\ pc' = [pc EXCEPT !["peer"] = "close"]
    /\ UNCHANGED <<idOf, maps, mu, phase, hook, once>>

ReadLoopEnds(s) ==
    /\ pc[s] = "idle" /\ phase[s] = "running" /\ todo[s] = {} /\ once[s] = "none"
    /\ todo' = [todo EXCEPT ![s] = {s}]
    /\ pc' = [pc EXCEPT ![s] = "close"]
    /\ UNCHANGED <<idOf, maps, mu, phase, hook, once, peerId>>

CloseAllCollects ==
    /\ pc["all"] = "idle" /\ mu = "none"
    /\ mu' = "all"
    /\ todo' = [todo EXCEPT !["all"] = Range(sessions)]
    /\ pc' = [pc EXCEPT !["all"] = "locked"]
    /\ UNCHANGED <<idOf, maps, phase, hook, once, peerId>>

(* The entries are deleted before the sessions are looked up. *)
MutantCleanupCollects(stale) ==
    /\ pc["stale"] = "idle" /\ mu = "none" /\ stale # {}
    /\ mu' = "stale"
    /\ sessions' = Restrict(sessions, DOMAIN sessions \ stale)
    /\ lastSeen' = lastSeen \ stale
    /\ pc' = [pc EXCEPT !["stale"] = "locked"]
    /\ UNCHANGED <<idOf, todo, phase, hook, once, peerId>>

(* Any set of sessions may have been silent for StaleTimeout. *)
CleanupCollects(stale) ==
    /\ pc["stale"] = "idle" /\ mu = "none" /\ stale # {}
    /\ mu' = "stale"
    /\ todo' = [todo EXCEPT !["stale"] = {sessions[id] : id \in stale}]
    /\ sessions' = Restrict(sessions, DOMAIN sessions \ stale)
    /\ lastSeen' = lastSeen \ stale
    /\ pc' = [pc EXCEPT !["stale"] = "locked"]
    /\ UNCHANGED <<idOf, phase, hook, once, peerId>>

(* The sessions are closed under the mutex. *)
MutantUnlock(t) ==
    /\ pc[t] = "locked"
    /\ pc' = [pc EXCEPT ![t] = "close"]
    /\ UNCHANGED <<idOf, maps, mu, phase, hook, once, todo, peerId>>

Unlock(t) ==
    /\ pc[t] = "locked" /\ mu = t
    /\ mu' = "none"
    /\ pc' = [pc EXCEPT ![t] = "close"]
    /\ UNCHANGED <<idOf, maps, phase, hook, once, todo, peerId>>

(* Close, the first call: cancel the context and release what the session  *)
(* holds.  Before Start there is no context to cancel yet.                 *)
EnterClose(t, s) ==
    /\ pc[t] = "close" /\ s \in todo[t] /\ once[s] = "none"
    /\ once' = [once EXCEPT ![s] = t]
    /\ phase' = [phase EXCEPT ![s] = IF @ = "running" THEN "ended" ELSE @]
    /\ pc' = [pc EXCEPT ![t] = "hook"]
    /\ UNCHANGED <<idOf, maps, mu, hook, todo, peerId>>

After(t) == IF t \in Sessions THEN "idle" ELSE "close"

(* The hook is forgotten: Close leaves the session in the map. *)
MutantCallHook(t, s) ==
    /\ pc[t] = "hook" /\ once[s] = t
    /\ once' = [once EXCEPT ![s] = "done"]
    /\ todo' = [todo EXCEPT ![t] = @ \ {s}]
    /\ pc' = [pc EXCEPT ![t] = After(t)]
    /\ UNCHANGED <<idOf, maps, mu, phase, hook, peerId>>

CallHook(t, s) ==
    /\ pc[t] = "hook" /\ once[s] = t
    /\ IF s \in hook THEN Remove(idOf[s]) ELSE UNCHANGED maps
    /\ once' = [once EXCEPT ![s] = "done"]
    /\ todo' = [todo EXCEPT ![t] = @ \ {s}]
    /\ pc' = [pc EXCEPT ![t] = After(t)]
    /\ UNCHANGED <<idOf, mu, phase, hook, peerId>>

(* A second call of Close returns once the first is through. *)
AlreadyClosed(t, s) ==
    /\ pc[t] = "close" /\ s \in todo[t] /\ once[s] = "done"
    /\ todo' = [todo EXCEPT ![t] = @ \ {s}]
    /\ pc' = [pc EXCEPT ![t] = After(t)]
    /\ UNCHANGED <<idOf, maps, mu, phase, hook, once, peerId>>

(* What each caller does when its sessions are closed: a read loop ends    *)
(* with its Close (After), the stale cleanup returns, the handler of close *)
(* messages removes the ID once more, CloseAll replaces the maps.          *)
StaleReturns ==
    /\ pc["stale"] = "close" /\ todo["stale"] = {}
    /\ pc' = [pc EXCEPT !["stale"] = "idle"]
    /\ UNCHANGED <<idOf, maps, mu, phase, hook, once, todo, peerId>>

PeerReturns ==
    /\ pc["peer"] = "close" /\ todo["peer"] = {}
    /\ Remove(peerId)
    /\ peerId' = "none"
    /\ pc' = [pc EXCEPT !["peer"] = "idle"]
    /\ UNCHANGED <<idOf, mu, phase, hook, once, todo>>

CloseAllReturns ==
    /\ pc["all"] = "close" /\ todo["all"] = {} /\ mu = "none"
    /\ sessions' = [i \in {} |-> "none"]
    /\ lastSeen' = {}
    /\ pc' = [pc EXCEPT !["all"] = "idle"]
    /\ UNCHANGED <<idOf, mu, phase, hook, once, todo, peerId>>

CallStep(t) ==
    \/ Unlock(t)
    \/ \E s \in Sessions : EnterClose(t, s) \/ CallHook(t, s) \/ AlreadyClosed(t, s)
    \/ t = "stale" /\ StaleReturns
    \/ t = "peer" /\ PeerReturns
    \/ t = "all" /\ CloseAllReturns

Next ==
    \/ \E s \in Sessions : Add(s) \/ SetOnClose(s) \/ Start(s) \/ GiveUp(s) \/ ReadLoopEnds(s)
    \/ \E id \in Ids : Touch(id) \/ PeerClose(id)
    \/ CloseAllCollects
    \/ \E stale \in SUBSET lastSeen : CleanupCollects(stale)
    \/ \E t \in Threads : CallStep(t)

(* A call that has begun goes on whenever it can, also when it finds the   *)
(* mutex taken in between (Go's mutex hands over to a waiter).             *)
Fairness == \A t \in Threads : SF_vars(CallStep(t))

Spec == Init /\ [][Next]_vars /\ Fairness

-----------------------------------------------------------------------------
(* A running session can be reached: it is in the map (so that data, acks, *)
(* close messages, the stale cleanup and CloseAll find it), or some call   *)
(* has it on its list and is about to close it.                            *)
NoOrphan ==
    \A s \in Sessions :
        phase[s] = "running" /\ once[s] = "none" =>
            Registered(s) \/ \E t \in Threads : s \in todo[t]

(* A closed session leaves the map, whoever closed it and however many     *)
(* callers met in its Close, also when it was closed before its hook was   *)
(* set.                                                                    *)
ClosedIsForgotten ==
    \A s \in Sessions : once[s] = "done" ~> ~Registered(s)

(* Close calls Remove: no caller deadlocks on the manager's mutex, and two *)
(* callers that close the same sessions in different orders both return.   *)
CallsReturn ==
    \A t \in {"peer", "stale", "all"} : pc[t] # "idle" ~> pc[t] = "idle"
=============================================================================
