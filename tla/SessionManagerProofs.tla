------------------------ MODULE SessionManagerProofs ------------------------
(* Theorems of SessionManager for every set of sessions, of IDs and every  *)
(* way the sessions are opened under them: the types, that no session runs *)
(* out of reach, that no calls wait for each other in a circle, and that a *)
(* closed session leaves the map with the call that closed it.             *)
EXTENDS SessionManager, TLAPS

USE ManagerAssumption DEF ManagerAssumption

(* Only these three run Close for sessions other than their own.           *)
Callers == {"peer", "stale", "all"}

(* The session was in the map at some time.                                *)
Opened(s) == phase[s] = "added" \/ s \in hook

-----------------------------------------------------------------------------
(* The variables keep their types, and lastSeen has a key for exactly the  *)
(* sessions in the map: no Touch of a session just removed leaves one.     *)
LEMMA TypeStep ==
    ASSUME TypeOK, [Next]_vars
    PROVE  TypeOK'
<1> USE DEF TypeOK, Threads
<1>0. ASSUME NEW id, Remove(id)
      PROVE  /\ sessions' \in UNION {[D -> Sessions] : D \in SUBSET Ids}
             /\ lastSeen' = DOMAIN sessions'
  <2> DEFINE D == DOMAIN sessions \ {id}
  <2>1. sessions' = [i \in D |-> sessions[i]] /\ lastSeen' = D
    BY <1>0 DEF Remove, Restrict
  <2>2. D \in SUBSET Ids /\ sessions' \in [D -> Sessions]
    BY <2>1
  <2>3. lastSeen' = DOMAIN sessions'
    BY <2>1
  <2> HIDE DEF D
  <2> QED
    BY ONLY <2>2, <2>3
<1>1. ASSUME NEW s \in Sessions, Add(s) PROVE TypeOK'
  <2>1. CASE idOf[s] \in DOMAIN sessions
    BY <1>1, <2>1 DEF Add, maps
  <2>2. CASE idOf[s] \notin DOMAIN sessions
    <3> DEFINE D == DOMAIN sessions \cup {idOf[s]}
    <3>1. sessions' = [i \in D |-> IF i = idOf[s] THEN s ELSE sessions[i]] /\ lastSeen' = D
      BY <1>1, <2>2 DEF Add
    <3>2. D \in SUBSET Ids /\ sessions' \in [D -> Sessions]
      BY <3>1
    <3>3. /\ sessions' \in UNION {[E -> Sessions] : E \in SUBSET Ids}
          /\ lastSeen' = DOMAIN sessions'
      BY <3>1, <3>2
    <3> QED
      BY <1>1, <2>2, <3>3 DEF Add
  <2> QED
    BY <2>1, <2>2
<1>2. ASSUME NEW s \in Sessions, SetOnClose(s) \/ Start(s) \/ ReadLoopEnds(s) PROVE TypeOK'
  <2>1. CASE SetOnClose(s)
    BY <2>1 DEF SetOnClose, maps
  <2>2. CASE Start(s)
    BY <2>2 DEF Start, maps
  <2>3. CASE ReadLoopEnds(s)
    BY <2>3 DEF ReadLoopEnds, maps
  <2> QED
    BY <1>2, <2>1, <2>2, <2>3
<1>3. ASSUME NEW s \in Sessions, GiveUp(s) PROVE TypeOK'
  BY <1>0, <1>3 DEF GiveUp
<1>4. ASSUME NEW id \in Ids, Touch(id) PROVE TypeOK'
  BY <1>4 DEF Touch
<1>5. ASSUME NEW id \in Ids, PeerClose(id) PROVE TypeOK'
  BY <1>5 DEF PeerClose, maps
<1>6. CASE CloseAllCollects
  <2>1. Range(sessions) \subseteq Sessions
    BY DEF Range
  <2> QED
    BY <1>6, <2>1 DEF CloseAllCollects, maps
<1>7. ASSUME NEW stale \in SUBSET lastSeen, CleanupCollects(stale) PROVE TypeOK'
  <2> DEFINE D == DOMAIN sessions \ stale
  <2>1. sessions' = [i \in D |-> sessions[i]] /\ lastSeen' = D
    BY <1>7 DEF CleanupCollects, Restrict
  <2>2. D \in SUBSET Ids /\ sessions' \in [D -> Sessions]
    BY <2>1
  <2>3. {sessions[id] : id \in stale} \subseteq Sessions
    OBVIOUS
  <2>4. /\ sessions' \in UNION {[E -> Sessions] : E \in SUBSET Ids}
        /\ lastSeen' = DOMAIN sessions'
    BY <2>1, <2>2
  <2> QED
    BY <1>7, <2>3, <2>4 DEF CleanupCollects
<1>8. ASSUME NEW t \in Threads, Unlock(t) PROVE TypeOK'
  BY <1>8 DEF Unlock, maps
<1>9. ASSUME NEW t \in Threads, NEW s \in Sessions, EnterClose(t, s) \/ AlreadyClosed(t, s)
      PROVE  TypeOK'
  <2>1. CASE EnterClose(t, s)
    BY <2>1 DEF EnterClose, maps
  <2>2. CASE AlreadyClosed(t, s)
    BY <2>2 DEF AlreadyClosed, After, maps
  <2> QED
    BY <1>9, <2>1, <2>2
<1>10. ASSUME NEW t \in Threads, NEW s \in Sessions, CallHook(t, s) PROVE TypeOK'
  <2>1. /\ sessions' \in UNION {[D -> Sessions] : D \in SUBSET Ids}
        /\ lastSeen' = DOMAIN sessions'
    BY <1>0, <1>10 DEF CallHook, maps
  <2> QED
    BY <1>10, <2>1 DEF CallHook, After
<1>11. CASE StaleReturns
  BY <1>11 DEF StaleReturns, maps
<1>12. CASE PeerReturns
  BY <1>0, <1>12 DEF PeerReturns
<1>13. CASE CloseAllReturns
  <2>1. sessions' \in [{} -> Sessions] /\ lastSeen' = DOMAIN sessions'
    BY <1>13 DEF CloseAllReturns
  <2>2. sessions' \in UNION {[D -> Sessions] : D \in SUBSET Ids}
    BY <2>1
  <2> QED
    BY <1>13, <2>1, <2>2 DEF CloseAllReturns
<1>14. CASE UNCHANGED vars
  BY <1>14 DEF vars
<1> QED
  BY <1>1, <1>2, <1>3, <1>4, <1>5, <1>6, <1>7, <1>8, <1>9, <1>10, <1>11, <1>12, <1>13, <1>14
     DEF Next, CallStep

(* The variables keep their types, and lastSeen the keys of the map.       *)
THEOREM TypeCorrect == Spec => []TypeOK
<1>1. Init => TypeOK
  <2> SUFFICES ASSUME Init PROVE TypeOK
    OBVIOUS
  <2>1. sessions \in [{} -> Sessions] /\ lastSeen = DOMAIN sessions
    BY DEF Init
  <2>2. sessions \in UNION {[D -> Sessions] : D \in SUBSET Ids}
    BY <2>1
  <2> QED
    BY <2>1, <2>2 DEF Init, TypeOK, Threads
<1> QED
  BY <1>1, TypeStep, PTL DEF Spec

-----------------------------------------------------------------------------
(* What keeps a session in reach.                                          *)

(* While open messages are not handled again after their session ended,    *)
(* an ID is used by one session object only.                               *)
IdUsedOnce ==
    /\ \A s \in Sessions : phase[s] = "new" => s \notin hook
    /\ \A s \in Sessions : phase[s] \in {"hooked", "running"} => s \in hook
    /\ \A r, s \in Sessions : Opened(r) /\ Opened(s) /\ idOf[r] = idOf[s] => r = s

(* Only opened sessions are in the map, under their own ID, or closed.     *)
OnlyOpened ==
    /\ \A id \in DOMAIN sessions : Opened(sessions[id]) /\ idOf[sessions[id]] = id
    /\ \A t \in Threads : \A s \in todo[t] : Opened(s)
    /\ \A s \in Sessions : once[s] # "none" => Opened(s)

(* A caller that has returned has nothing left to close.                   *)
NothingLeft == \A t \in Callers : pc[t] = "idle" => todo[t] = {}

(* The handler of a close message removes, at its end, the ID of a session *)
(* that has been closed by then.                                           *)
PeerClosesFirst ==
    pc["peer"] # "idle" =>
        \E s \in Sessions : /\ Opened(s) /\ idOf[s] = peerId
                            /\ s \in todo["peer"] \/ once[s] = "done"

(* While CloseAll runs, all that is in the map is closed or on its list.   *)
AllCollected ==
    pc["all"] # "idle" =>
        \A id \in DOMAIN sessions :
            sessions[id] \in todo["all"] \/ once[sessions[id]] = "done"

(* NoOrphan, from the moment the session is added.                         *)
InReach ==
    \A s \in Sessions :
        phase[s] \in {"added", "hooked", "running"} /\ once[s] = "none" =>
            Registered(s) \/ \E t \in Threads : s \in todo[t]

ReachInv ==
    /\ IdUsedOnce /\ OnlyOpened /\ NothingLeft
    /\ PeerClosesFirst /\ AllCollected /\ InReach

(* Removing an ID leaves the other entries as they are; as an ID is used   *)
(* once, no session but the one opened under it loses its entry.           *)
LEMMA RemoveKeepsOthers ==
    ASSUME TypeOK, IdUsedOnce, OnlyOpened, UNCHANGED idOf,
           NEW s \in Sessions, Opened(s), Remove(idOf[s])
    PROVE  /\ DOMAIN sessions' \subseteq DOMAIN sessions
           /\ \A id \in DOMAIN sessions' : sessions'[id] = sessions[id]
           /\ \A r \in Sessions \ {s} : Registered(r) => Registered(r)'
<1> DEFINE D == DOMAIN sessions \ {idOf[s]}
<1>1. sessions' = [i \in D |-> sessions[i]]
  BY DEF Remove, Restrict
<1>2. DOMAIN sessions' = D /\ \A id \in D : sessions'[id] = sessions[id]
  BY <1>1
<1>3. ASSUME NEW r \in Sessions \ {s}, Registered(r) PROVE Registered(r)'
  <2>1. Opened(r)
    BY <1>3 DEF OnlyOpened, Registered
  <2>2. idOf[r] \in D
    BY <1>3, <2>1 DEF IdUsedOnce, Registered
  <2> QED
    BY <1>2, <1>3, <2>2 DEF Registered
<1> QED
  BY <1>2, <1>3

(* ReachInv is kept by every step, action by action.                       *)
LEMMA ReachStep ==
    ASSUME ~OpenDuringCleanup, ~LateDuplicates, TypeOK, TypeOK', ReachInv, [Next]_vars
    PROVE  ReachInv'
<1> USE DEF TypeOK, Threads, Callers
<1>1. ASSUME NEW s \in Sessions, Add(s) PROVE ReachInv'
  <2>1. CASE idOf[s] \in DOMAIN sessions
    <3>1. /\ phase' = [phase EXCEPT ![s] = "ended"] /\ phase[s] = "new"
          /\ UNCHANGED <<sessions, idOf, hook, once, pc, todo, peerId>>
      BY <1>1, <2>1 DEF Add, maps
    <3>2. \A r \in Sessions : Opened(r)' <=> Opened(r)
      BY <3>1 DEF Opened
    <3>3. IdUsedOnce'
      BY <3>1, <3>2 DEF ReachInv, IdUsedOnce
    <3>4. OnlyOpened'
      BY <3>1, <3>2 DEF ReachInv, OnlyOpened
    <3>5. NothingLeft' /\ AllCollected'
      BY <3>1 DEF ReachInv, NothingLeft, AllCollected
    <3>6. PeerClosesFirst'
      BY <3>1, <3>2 DEF ReachInv, PeerClosesFirst
    <3>7. InReach'
      BY <3>1 DEF ReachInv, InReach, Registered
    <3> QED
      BY <3>3, <3>4, <3>5, <3>6, <3>7 DEF ReachInv
  <2>2. CASE idOf[s] \notin DOMAIN sessions
    <3> DEFINE D == DOMAIN sessions \cup {idOf[s]}
    <3>1. /\ phase' = [phase EXCEPT ![s] = "added"] /\ phase[s] = "new"
          /\ pc["all"] = "idle"
          /\ \A r \in Sessions \ {s} : idOf[r] = idOf[s] => phase[r] = "new"
          /\ sessions' = [i \in D |-> IF i = idOf[s] THEN s ELSE sessions[i]]
          /\ UNCHANGED <<idOf, hook, once, pc, todo, peerId>>
      BY <1>1, <2>2 DEF Add
    <3>2. \A r \in Sessions : (Opened(r) \/ r = s) <=> Opened(r)'
      BY <3>1 DEF Opened
    <3>3. \A r \in Sessions : idOf[r] = idOf[s] /\ r # s => ~Opened(r)'
      BY <3>1 DEF Opened, ReachInv, IdUsedOnce
    <3>4. IdUsedOnce'
      BY <3>1, <3>2, <3>3 DEF ReachInv, IdUsedOnce
    <3>5. OnlyOpened'
      <4>1. ASSUME NEW id \in DOMAIN sessions'
            PROVE  \E r \in Sessions : sessions'[id] = r /\ Opened(r)' /\ idOf[r] = id
        <5>1. CASE id = idOf[s]
          BY <3>1, <3>2, <5>1
        <5>2. CASE id # idOf[s]
          <6>1. id \in DOMAIN sessions /\ sessions'[id] = sessions[id]
            BY <3>1, <5>2
          <6> QED
            BY <3>2, <6>1 DEF ReachInv, OnlyOpened
        <5> QED
          BY <5>1, <5>2
      <4> QED
        BY <3>1, <3>2, <4>1 DEF ReachInv, OnlyOpened
    <3>6. NothingLeft' /\ AllCollected'
      BY <3>1 DEF ReachInv, NothingLeft, AllCollected
    <3>7. PeerClosesFirst'
      BY <3>1, <3>2 DEF ReachInv, PeerClosesFirst
    <3>8. \A r \in Sessions : Registered(r) \/ r = s => Registered(r)'
      BY <2>2, <3>1 DEF Registered
    <3>9. InReach'
      BY <3>1, <3>8 DEF ReachInv, InReach
    <3> QED
      BY <3>4, <3>5, <3>6, <3>7, <3>9 DEF ReachInv
  <2> QED
    BY <2>1, <2>2
<1>2. ASSUME NEW s \in Sessions, SetOnClose(s) \/ Start(s) PROVE ReachInv'
  <2>1. /\ phase[s] \in {"added", "hooked"}
        /\ phase' = [phase EXCEPT ![s] = IF phase[s] = "added" THEN "hooked" ELSE "running"]
        /\ hook' = hook \cup {s}
        /\ UNCHANGED <<sessions, idOf, once, pc, todo, peerId>>
    BY <1>2 DEF SetOnClose, Start, maps, ReachInv, IdUsedOnce
  <2>2. \A r \in Sessions : Opened(r)' <=> Opened(r)
    BY <2>1 DEF Opened, ReachInv, IdUsedOnce
  <2>3. IdUsedOnce'
    BY <2>1, <2>2 DEF ReachInv, IdUsedOnce
  <2>4. OnlyOpened' /\ NothingLeft' /\ AllCollected'
    BY <2>1, <2>2 DEF ReachInv, OnlyOpened, NothingLeft, AllCollected
  <2>5. PeerClosesFirst'
    BY <2>1, <2>2 DEF ReachInv, PeerClosesFirst
  <2>6. InReach'
    BY <2>1 DEF ReachInv, InReach, Registered
  <2> QED
    BY <2>3, <2>4, <2>5, <2>6 DEF ReachInv
<1>3. ASSUME NEW s \in Sessions, GiveUp(s) PROVE ReachInv'
  <2>1. /\ phase[s] = "hooked" /\ s \in hook
        /\ phase' = [phase EXCEPT ![s] = "ended"]
        /\ UNCHANGED <<idOf, hook, once, pc, todo, peerId>>
    BY <1>3 DEF GiveUp, ReachInv, IdUsedOnce
  <2>2. /\ DOMAIN sessions' \subseteq DOMAIN sessions
        /\ \A id \in DOMAIN sessions' : sessions'[id] = sessions[id]
        /\ \A r \in Sessions \ {s} : Registered(r) => Registered(r)'
    BY <1>3, <2>1, RemoveKeepsOthers DEF GiveUp, Opened, ReachInv
  <2>3. \A r \in Sessions : Opened(r)' <=> Opened(r)
    BY <2>1 DEF Opened
  <2>4. IdUsedOnce'
    BY <2>1, <2>3 DEF ReachInv, IdUsedOnce
  <2>5. OnlyOpened' /\ NothingLeft' /\ AllCollected'
    BY <2>1, <2>2, <2>3 DEF ReachInv, OnlyOpened, NothingLeft, AllCollected
  <2>6. PeerClosesFirst'
    BY <2>1, <2>3 DEF ReachInv, PeerClosesFirst
  <2>7. InReach'
    BY <2>1, <2>2 DEF ReachInv, InReach
  <2> QED
    BY <2>4, <2>5, <2>6, <2>7 DEF ReachInv
<1>4. ASSUME NEW id \in Ids, Touch(id) PROVE ReachInv'
  BY <1>4 DEF Touch, ReachInv, IdUsedOnce, OnlyOpened, NothingLeft, PeerClosesFirst,
              AllCollected, InReach, Opened, Registered
<1>5. ASSUME NEW id \in Ids, PeerClose(id) PROVE ReachInv'
  <2> DEFINE r == sessions[id]
  <2>1. /\ id \in DOMAIN sessions /\ peerId' = id /\ pc["peer"] = "idle"
        /\ todo' = [todo EXCEPT !["peer"] = {r}]
        /\ pc' = [pc EXCEPT !["peer"] = "close"]
        /\ UNCHANGED <<idOf, sessions, phase, hook, once>>
    BY <1>5 DEF PeerClose, maps
  <2>2. r \in Sessions /\ Opened(r) /\ idOf[r] = id
    BY <2>1 DEF ReachInv, OnlyOpened
  <2>3. IdUsedOnce' /\ \A q \in Sessions : Opened(q)' <=> Opened(q)
    BY <2>1 DEF ReachInv, IdUsedOnce, Opened
  <2>4. OnlyOpened'
    BY <2>1, <2>2, <2>3 DEF ReachInv, OnlyOpened
  <2>5. NothingLeft' /\ AllCollected'
    BY <2>1 DEF ReachInv, NothingLeft, AllCollected
  <2>6. PeerClosesFirst'
    BY <2>1, <2>2, <2>3 DEF PeerClosesFirst
  <2>7. InReach'
    <3>1. todo["peer"] = {} /\ \A t \in Threads : todo[t] \subseteq todo'[t]
      BY <2>1 DEF ReachInv, NothingLeft
    <3> QED
      BY <2>1, <3>1 DEF ReachInv, InReach, Registered
  <2> QED
    BY <2>3, <2>4, <2>5, <2>6, <2>7 DEF ReachInv
<1>6. ASSUME NEW s \in Sessions, ReadLoopEnds(s) PROVE ReachInv'
  <2>1. /\ phase[s] = "running" /\ todo[s] = {}
        /\ todo' = [todo EXCEPT ![s] = {s}] /\ pc' = [pc EXCEPT ![s] = "close"]
        /\ UNCHANGED <<idOf, sessions, phase, hook, once, peerId>>
    BY <1>6 DEF ReadLoopEnds, maps
  <2>2. Opened(s) /\ s \notin Callers
    BY <2>1 DEF Opened, ReachInv, IdUsedOnce
  <2>3. IdUsedOnce' /\ \A q \in Sessions : Opened(q)' <=> Opened(q)
    BY <2>1 DEF ReachInv, IdUsedOnce, Opened
  <2>4. OnlyOpened'
    BY <2>1, <2>2, <2>3 DEF ReachInv, OnlyOpened
  <2>5. NothingLeft' /\ AllCollected' /\ PeerClosesFirst'
    BY <2>1, <2>2, <2>3 DEF ReachInv, NothingLeft, AllCollected, PeerClosesFirst
  <2>6. InReach'
    <3>1. \A t \in Threads : todo[t] \subseteq todo'[t]
      BY <2>1
    <3> QED
      BY <2>1, <3>1 DEF ReachInv, InReach, Registered
  <2> QED
    BY <2>3, <2>4, <2>5, <2>6 DEF ReachInv
<1>7. CASE CloseAllCollects
  <2>1. /\ pc["all"] = "idle" /\ pc' = [pc EXCEPT !["all"] = "locked"]
        /\ todo' = [todo EXCEPT !["all"] = Range(sessions)]
        /\ UNCHANGED <<idOf, sessions, phase, hook, once, peerId>>
    BY <1>7 DEF CloseAllCollects, maps
  <2>2. \A s \in Range(sessions) : s \in Sessions /\ Opened(s)
    BY DEF Range, ReachInv, OnlyOpened
  <2>3. IdUsedOnce' /\ \A q \in Sessions : Opened(q)' <=> Opened(q)
    BY <2>1 DEF ReachInv, IdUsedOnce, Opened
  <2>4. OnlyOpened'
    BY <2>1, <2>2, <2>3 DEF ReachInv, OnlyOpened
  <2>5. NothingLeft' /\ PeerClosesFirst'
    BY <2>1, <2>3 DEF ReachInv, NothingLeft, PeerClosesFirst
  <2>6. AllCollected'
    BY <2>1 DEF AllCollected, Range
  <2>7. InReach'
    <3>1. todo["all"] = {} /\ \A t \in Threads : todo[t] \subseteq todo'[t]
      BY <2>1 DEF ReachInv, NothingLeft
    <3> QED
      BY <2>1, <3>1 DEF ReachInv, InReach, Registered
  <2> QED
    BY <2>3, <2>4, <2>5, <2>6, <2>7 DEF ReachInv
<1>8. ASSUME NEW stale \in SUBSET lastSeen, CleanupCollects(stale) PROVE ReachInv'
  <2> DEFINE D == DOMAIN sessions \ stale
             collected == {sessions[id] : id \in stale}
  <2>1. /\ pc["stale"] = "idle" /\ pc' = [pc EXCEPT !["stale"] = "locked"]
        /\ todo' = [todo EXCEPT !["stale"] = collected]
        /\ sessions' = [i \in D |-> sessions[i]]
        /\ UNCHANGED <<idOf, phase, hook, once, peerId>>
    BY <1>8 DEF CleanupCollects, Restrict
  <2>2. \A s \in collected : s \in Sessions /\ Opened(s)
    BY DEF ReachInv, OnlyOpened
  <2>3. IdUsedOnce' /\ \A q \in Sessions : Opened(q)' <=> Opened(q)
    BY <2>1 DEF ReachInv, IdUsedOnce, Opened
  <2>4. OnlyOpened'
    BY <2>1, <2>2, <2>3 DEF ReachInv, OnlyOpened
  <2>5. NothingLeft' /\ PeerClosesFirst' /\ AllCollected'
    BY <2>1, <2>3 DEF ReachInv, NothingLeft, PeerClosesFirst, AllCollected
  <2>6. InReach'
    <3>1. todo["stale"] = {} /\ \A t \in Threads : todo[t] \subseteq todo'[t]
      BY <2>1 DEF ReachInv, NothingLeft
    <3>2. \A s \in Sessions : Registered(s) => Registered(s)' \/ s \in todo'["stale"]
      BY <2>1 DEF Registered
    <3> QED
      BY <2>1, <3>1, <3>2 DEF ReachInv, InReach
  <2> QED
    BY <2>3, <2>4, <2>5, <2>6 DEF ReachInv
<1>9. ASSUME NEW t \in Threads, Unlock(t) PROVE ReachInv'
  <2>1. /\ pc[t] # "idle" /\ pc' = [pc EXCEPT ![t] = "close"]
        /\ UNCHANGED <<idOf, sessions, phase, hook, once, todo, peerId>>
    BY <1>9 DEF Unlock, maps
  <2> QED
    BY <2>1 DEF ReachInv, IdUsedOnce, OnlyOpened, NothingLeft, PeerClosesFirst,
                AllCollected, InReach, Opened, Registered
<1>10. ASSUME NEW t \in Threads, NEW s \in Sessions, EnterClose(t, s) PROVE ReachInv'
  <2>1. /\ pc[t] = "close" /\ s \in todo[t] /\ once[s] = "none" /\ t # "none"
        /\ once' = [once EXCEPT ![s] = t] /\ pc' = [pc EXCEPT ![t] = "hook"]
        /\ phase' = [phase EXCEPT ![s] = IF phase[s] = "running" THEN "ended" ELSE phase[s]]
        /\ UNCHANGED <<idOf, sessions, hook, todo, peerId>>
    BY <1>10 DEF EnterClose, maps
  <2>2. Opened(s) /\ \A q \in Sessions : Opened(q)' <=> Opened(q)
    BY <2>1 DEF ReachInv, OnlyOpened, Opened
  <2>3. IdUsedOnce'
    BY <2>1, <2>2 DEF ReachInv, IdUsedOnce
  <2>4. OnlyOpened'
    BY <2>1, <2>2 DEF ReachInv, OnlyOpened
  <2>5. NothingLeft'
    BY <2>1 DEF ReachInv, NothingLeft
  <2>6. PeerClosesFirst' /\ AllCollected'
    BY <2>1, <2>2 DEF ReachInv, PeerClosesFirst, AllCollected
  <2>7. InReach'
    BY <2>1 DEF ReachInv, InReach, Registered
  <2> QED
    BY <2>3, <2>4, <2>5, <2>6, <2>7 DEF ReachInv
<1>11. ASSUME NEW t \in Threads, NEW s \in Sessions, CallHook(t, s) PROVE ReachInv'
  <2>1. /\ pc[t] = "hook" /\ once[s] = t /\ t # "none"
        /\ once' = [once EXCEPT ![s] = "done"]
        /\ todo' = [todo EXCEPT ![t] = todo[t] \ {s}]
        /\ pc' = [pc EXCEPT ![t] = After(t)]
        /\ UNCHANGED <<idOf, phase, hook, peerId>>
    BY <1>11 DEF CallHook
  <2>2. Opened(s) /\ \A q \in Sessions : Opened(q)' <=> Opened(q)
    BY <2>1 DEF ReachInv, OnlyOpened, Opened
  <2>3. /\ DOMAIN sessions' \subseteq DOMAIN sessions
        /\ \A id \in DOMAIN sessions' : sessions'[id] = sessions[id]
        /\ \A r \in Sessions \ {s} : Registered(r) => Registered(r)'
    <3>1. CASE s \in hook
      BY <1>11, <2>1, <2>2, <3>1, RemoveKeepsOthers DEF CallHook, ReachInv
    <3>2. CASE s \notin hook
      BY <1>11, <3>2 DEF CallHook, maps, Registered
    <3> QED
      BY <3>1, <3>2
  <2>4. t \in Callers => pc'[t] = "close"
    BY <2>1 DEF After
  <2>5. IdUsedOnce'
    BY <2>1, <2>2 DEF ReachInv, IdUsedOnce
  <2>6. OnlyOpened'
    BY <2>1, <2>2, <2>3 DEF ReachInv, OnlyOpened
  <2>7. NothingLeft'
    BY <2>1, <2>4 DEF ReachInv, NothingLeft
  <2>8. PeerClosesFirst'
    BY <2>1, <2>2, <2>4 DEF ReachInv, PeerClosesFirst
  <2>9. AllCollected'
    BY <2>1, <2>3, <2>4 DEF ReachInv, AllCollected
  <2>10. InReach'
    BY <2>1, <2>3 DEF ReachInv, InReach
  <2> QED
    BY <2>5, <2>6, <2>7, <2>8, <2>9, <2>10 DEF ReachInv
<1>12. ASSUME NEW t \in Threads, NEW s \in Sessions, AlreadyClosed(t, s) PROVE ReachInv'
  <2>1. /\ pc[t] = "close" /\ once[s] = "done"
        /\ todo' = [todo EXCEPT ![t] = todo[t] \ {s}]
        /\ pc' = [pc EXCEPT ![t] = After(t)]
        /\ UNCHANGED <<idOf, sessions, phase, hook, once, peerId>>
    BY <1>12 DEF AlreadyClosed, maps
  <2>2. \A q \in Sessions : Opened(q)' <=> Opened(q)
    BY <2>1 DEF Opened
  <2>3. t \in Callers => pc'[t] = "close"
    BY <2>1 DEF After
  <2>4. IdUsedOnce' /\ OnlyOpened'
    BY <2>1, <2>2 DEF ReachInv, IdUsedOnce, OnlyOpened
  <2>5. NothingLeft' /\ AllCollected'
    BY <2>1, <2>3 DEF ReachInv, NothingLeft, AllCollected
  <2>6. PeerClosesFirst'
    BY <2>1, <2>2, <2>3 DEF ReachInv, PeerClosesFirst
  <2>7. InReach'
    BY <2>1 DEF ReachInv, InReach, Registered
  <2> QED
    BY <2>4, <2>5, <2>6, <2>7 DEF ReachInv
<1>13. CASE StaleReturns
  <2>1. /\ todo["stale"] = {} /\ pc' = [pc EXCEPT !["stale"] = "idle"]
        /\ UNCHANGED <<idOf, sessions, phase, hook, once, todo, peerId>>
    BY <1>13 DEF StaleReturns, maps
  <2> QED
    BY <2>1 DEF ReachInv, IdUsedOnce, OnlyOpened, NothingLeft, PeerClosesFirst,
                AllCollected, InReach, Opened, Registered
<1>14. CASE PeerReturns
  <2>1. /\ pc["peer"] = "close" /\ todo["peer"] = {} /\ Remove(peerId)
        /\ pc' = [pc EXCEPT !["peer"] = "idle"]
        /\ UNCHANGED <<idOf, phase, hook, once, todo>>
    BY <1>14 DEF PeerReturns
  <2>2. PICK s \in Sessions : Opened(s) /\ idOf[s] = peerId /\ once[s] = "done"
    BY <2>1 DEF ReachInv, PeerClosesFirst
  <2>3. /\ DOMAIN sessions' \subseteq DOMAIN sessions
        /\ \A id \in DOMAIN sessions' : sessions'[id] = sessions[id]
        /\ \A r \in Sessions \ {s} : Registered(r) => Registered(r)'
    BY <2>1, <2>2, RemoveKeepsOthers DEF ReachInv
  <2>4. \A q \in Sessions : Opened(q)' <=> Opened(q)
    BY <2>1 DEF Opened
  <2>5. IdUsedOnce' /\ OnlyOpened'
    BY <2>1, <2>3, <2>4 DEF ReachInv, IdUsedOnce, OnlyOpened
  <2>6. NothingLeft' /\ PeerClosesFirst' /\ AllCollected'
    BY <2>1, <2>3 DEF ReachInv, NothingLeft, PeerClosesFirst, AllCollected
  <2>7. InReach'
    BY <2>1, <2>2, <2>3 DEF ReachInv, InReach
  <2> QED
    BY <2>5, <2>6, <2>7 DEF ReachInv
<1>15. CASE CloseAllReturns
  <2>1. /\ pc["all"] = "close" /\ todo["all"] = {} /\ DOMAIN sessions' = {}
        /\ pc' = [pc EXCEPT !["all"] = "idle"]
        /\ UNCHANGED <<idOf, phase, hook, once, todo, peerId>>
    BY <1>15 DEF CloseAllReturns
  <2>2. \A s \in Sessions : Registered(s) => once[s] = "done"
    BY <2>1 DEF ReachInv, AllCollected, Registered
  <2>3. \A q \in Sessions : Opened(q)' <=> Opened(q)
    BY <2>1 DEF Opened
  <2>4. IdUsedOnce' /\ OnlyOpened'
    BY <2>1, <2>3 DEF ReachInv, IdUsedOnce, OnlyOpened
  <2>5. NothingLeft' /\ PeerClosesFirst' /\ AllCollected'
    BY <2>1, <2>3 DEF ReachInv, NothingLeft, PeerClosesFirst, AllCollected
  <2>6. InReach'
    BY <2>1, <2>2 DEF ReachInv, InReach
  <2> QED
    BY <2>4, <2>5, <2>6 DEF ReachInv
<1>16. CASE UNCHANGED vars
  BY <1>16 DEF vars, ReachInv, IdUsedOnce, OnlyOpened, NothingLeft, PeerClosesFirst,
               AllCollected, InReach, Opened, Registered
<1> QED
  BY <1>1, <1>2, <1>3, <1>4, <1>5, <1>6, <1>7, <1>8, <1>9, <1>10, <1>11, <1>12, <1>13,
     <1>14, <1>15, <1>16
     DEF Next, CallStep

(* While CloseAll runs no session is added, and no open message is handled *)
(* again after its session ended: then no interleaving of openers, close   *)
(* messages, read loops, the stale cleanup and CloseAll loses a running    *)
(* session from the map.  (Run sessions_closeall: without the first of     *)
(* these, one is lost.)                                                    *)
THEOREM RunningSessionsAreReached ==
    ASSUME ~OpenDuringCleanup, ~LateDuplicates
    PROVE  Spec => []NoOrphan
<1>1. Init => ReachInv
  <2> SUFFICES ASSUME Init PROVE ReachInv
    OBVIOUS
  <2>1. \A s \in Sessions : ~Opened(s) /\ phase[s] = "new" /\ once[s] = "none"
    BY DEF Init, Opened
  <2>2. DOMAIN sessions = {} /\ \A t \in Threads : pc[t] = "idle" /\ todo[t] = {}
    BY DEF Init
  <2> QED
    BY <2>1, <2>2 DEF Init, ReachInv, IdUsedOnce, OnlyOpened, NothingLeft, PeerClosesFirst,
                      AllCollected, InReach, Threads, Callers
<1>2. TypeOK /\ TypeOK' /\ ReachInv /\ [Next]_vars => ReachInv'
  BY ReachStep
<1>3. ReachInv => NoOrphan
  BY DEF ReachInv, InReach, NoOrphan
<1> QED
  BY <1>1, <1>2, <1>3, TypeCorrect, PTL DEF Spec


-----------------------------------------------------------------------------
(* No call stands still for good.  Close calls its hook inside closeOnce,  *)
(* and the hook takes the manager's mutex; the calls that close sessions   *)
(* take the mutex first and meet in closeOnce afterwards.                  *)

(* The thread has a step to take: the guards of CallStep.                  *)
MayGo(t) ==
    \/ pc[t] = "locked" /\ mu = t
    \/ pc[t] = "close" /\ \E s \in todo[t] : once[s] \in {"none", "done"}
    \/ pc[t] = "hook" /\ \E s \in Sessions : once[s] = t /\ (s \in hook => mu = "none")
    \/ pc[t] = "close" /\ todo[t] = {} /\ (t = "stale" \/ mu = "none")

(* The thread waits for the mutex u holds, or for u to leave closeOnce.    *)
WaitsFor(t, u) ==
    \/ pc[t] = "hook" /\ mu = u
    \/ pc[t] = "close" /\ todo[t] = {} /\ mu = u
    \/ pc[t] = "close" /\ \E s \in todo[t] : once[s] = u

(* Every call that has begun has a step to take, or waits for one that     *)
(* has, or waits for one that waits for one that has: no circle of callers *)
(* ever waits, whatever sessions they close and in whatever order.         *)
NoCircle ==
    \A t \in Threads : pc[t] # "idle" =>
        \/ MayGo(t)
        \/ \E u \in Threads :
              WaitsFor(t, u) /\ (MayGo(u) \/ \E v \in Threads : WaitsFor(u, v) /\ MayGo(v))

(* The mutex is held by a thread that does nothing but collect; closeOnce  *)
(* of a session by one that is at the hook of that session and no other.   *)
LockInv ==
    /\ \A t \in Threads : pc[t] = "locked" => mu = t
    /\ mu # "none" => pc[mu] = "locked"
    /\ \A s \in Sessions : once[s] \in Threads =>
          pc[once[s]] = "hook" /\ s \in todo[once[s]]
    /\ \A t \in Threads : pc[t] = "hook" => \E s \in Sessions : once[s] = t
    /\ \A r, s \in Sessions : once[r] = once[s] /\ once[r] \in Threads => r = s
    /\ \A s \in Sessions : pc[s] = "close" => todo[s] # {}

LEMMA LockStep ==
    ASSUME TypeOK, LockInv, [Next]_vars
    PROVE  LockInv'
<1> USE DEF TypeOK, Threads
<1>1. ASSUME NEW s \in Sessions, Add(s) \/ SetOnClose(s) \/ Start(s) \/ GiveUp(s) PROVE LockInv'
  <2>1. UNCHANGED <<mu, once, pc, todo>>
    BY <1>1 DEF Add, SetOnClose, Start, GiveUp
  <2> QED
    BY <2>1 DEF LockInv
<1>2. ASSUME NEW id \in Ids, Touch(id) PROVE LockInv'
  BY <1>2 DEF Touch, LockInv
<1>3. ASSUME NEW id \in Ids, PeerClose(id) PROVE LockInv'
  <2>1. /\ pc["peer"] = "idle" /\ pc' = [pc EXCEPT !["peer"] = "close"]
        /\ todo' = [todo EXCEPT !["peer"] = {sessions[id]}]
        /\ UNCHANGED <<mu, once>>
    BY <1>3 DEF PeerClose
  <2> QED
    BY <2>1 DEF LockInv
<1>4. ASSUME NEW s \in Sessions, ReadLoopEnds(s) PROVE LockInv'
  <2>1. /\ pc[s] = "idle" /\ pc' = [pc EXCEPT ![s] = "close"]
        /\ todo' = [todo EXCEPT ![s] = {s}]
        /\ UNCHANGED <<mu, once>>
    BY <1>4 DEF ReadLoopEnds
  <2> QED
    BY <2>1 DEF LockInv
<1>5. CASE CloseAllCollects \/ \E stale \in SUBSET lastSeen : CleanupCollects(stale)
  <2>1. PICK t \in {"stale", "all"} :
           /\ pc[t] = "idle" /\ pc' = [pc EXCEPT ![t] = "locked"]
           /\ mu = "none" /\ mu' = t
           /\ \A u \in Threads \ {t} : todo'[u] = todo[u]
           /\ UNCHANGED once
    <3>1. CASE CloseAllCollects
      BY <3>1 DEF CloseAllCollects
    <3>2. ASSUME NEW stale \in SUBSET lastSeen, CleanupCollects(stale)
          PROVE  /\ pc["stale"] = "idle" /\ pc' = [pc EXCEPT !["stale"] = "locked"]
                 /\ mu = "none" /\ mu' = "stale"
                 /\ \A u \in Threads \ {"stale"} : todo'[u] = todo[u]
                 /\ UNCHANGED once
      BY <3>2 DEF CleanupCollects
    <3> QED
      BY <1>5, <3>1, <3>2
  <2>2. \A s \in Sessions : once[s] # t
    BY <2>1 DEF LockInv
  <2>3. t \in Threads /\ t \notin Sessions /\ \A u \in Threads : pc[u] # "locked"
    BY <2>1 DEF LockInv
  <2>4. \A u \in Threads : pc'[u] = IF u = t THEN "locked" ELSE pc[u]
    BY <2>1
  <2>5. /\ \A u \in Threads : pc'[u] = "locked" => mu' = u
        /\ mu' # "none" => pc'[mu'] = "locked"
    BY <2>1, <2>3, <2>4
  <2>6. \A s \in Sessions : once'[s] \in Threads =>
           pc'[once'[s]] = "hook" /\ s \in todo'[once'[s]]
    <3> SUFFICES ASSUME NEW s \in Sessions, once'[s] \in Threads
                 PROVE  pc'[once'[s]] = "hook" /\ s \in todo'[once'[s]]
      OBVIOUS
    <3>1. once'[s] = once[s] /\ once[s] \in Threads \ {t}
      BY <2>1, <2>2
    <3>2. pc[once[s]] = "hook" /\ s \in todo[once[s]]
      BY <3>1 DEF LockInv
    <3> QED
      BY <2>1, <2>4, <3>1, <3>2
  <2>7. \A u \in Threads : pc'[u] = "hook" => \E s \in Sessions : once'[s] = u
    <3> SUFFICES ASSUME NEW u \in Threads, pc'[u] = "hook"
                 PROVE  \E s \in Sessions : once'[s] = u
      OBVIOUS
    <3>1. pc[u] = "hook"
      BY <2>4
    <3> QED
      BY <2>1, <3>1 DEF LockInv
  <2>8. /\ \A r, s \in Sessions : once'[r] = once'[s] /\ once'[r] \in Threads => r = s
        /\ \A s \in Sessions : pc'[s] = "close" => todo'[s] # {}
    <3>1. \A r, s \in Sessions : once'[r] = once'[s] /\ once'[r] \in Threads => r = s
      BY <2>1 DEF LockInv
    <3>2. ASSUME NEW s \in Sessions, pc'[s] = "close" PROVE todo'[s] # {}
      <4>1. s # t /\ s \in Threads
        BY <2>3
      <4>2. pc[s] = "close" /\ todo'[s] = todo[s]
        BY <2>1, <2>4, <3>2, <4>1
      <4> QED
        BY <4>2 DEF LockInv
    <3> QED
      BY <3>1, <3>2
  <2> QED
    BY <2>5, <2>6, <2>7, <2>8 DEF LockInv
<1>6. ASSUME NEW t \in Threads, Unlock(t) PROVE LockInv'
  <2>1. /\ pc[t] = "locked" /\ pc' = [pc EXCEPT ![t] = "close"]
        /\ mu = t /\ mu' = "none" /\ UNCHANGED <<once, todo>>
    BY <1>6 DEF Unlock
  <2>2. t \notin Sessions /\ \A s \in Sessions : once[s] # t
    BY <2>1 DEF LockInv
  <2>3. \A u \in Threads \ {t} : pc[u] # "locked"
    BY <2>1 DEF LockInv
  <2> QED
    BY <2>1, <2>2, <2>3 DEF LockInv
<1>7. ASSUME NEW t \in Threads, NEW s \in Sessions, EnterClose(t, s) PROVE LockInv'
  <2>1. /\ pc[t] = "close" /\ pc' = [pc EXCEPT ![t] = "hook"]
        /\ s \in todo[t] /\ once[s] = "none" /\ once' = [once EXCEPT ![s] = t]
        /\ UNCHANGED <<mu, todo>>
    BY <1>7 DEF EnterClose
  <2>2. t # mu /\ \A r \in Sessions : once[r] # t
    BY <2>1 DEF LockInv
  <2>3. \A r \in Sessions : once'[r] = IF r = s THEN t ELSE once[r]
    BY <2>1
  <2>4. \A u \in Threads : pc'[u] = IF u = t THEN "hook" ELSE pc[u]
    BY <2>1
  <2>5. \A r \in Sessions : once'[r] \in Threads =>
           pc'[once'[r]] = "hook" /\ r \in todo'[once'[r]]
    BY <2>1, <2>3, <2>4 DEF LockInv
  <2>6. \A u \in Threads : pc'[u] = "hook" => \E r \in Sessions : once'[r] = u
    <3> TAKE u \in Threads
    <3>1. CASE u = t
      BY <2>3, <3>1
    <3>2. CASE u # t
      BY <2>1, <2>3, <2>4, <3>2 DEF LockInv
    <3> QED
      BY <3>1, <3>2
  <2>7. \A q, r \in Sessions : once'[q] = once'[r] /\ once'[q] \in Threads => q = r
    BY <2>2, <2>3 DEF LockInv
  <2>8. mu' # "none" => pc'[mu'] = "locked"
    BY <2>1, <2>2, <2>4 DEF LockInv
  <2>9. /\ \A u \in Threads : pc'[u] = "locked" => mu' = u
        /\ \A r \in Sessions : pc'[r] = "close" => todo'[r] # {}
    BY <2>1, <2>4 DEF LockInv
  <2> QED
    BY <2>5, <2>6, <2>7, <2>8, <2>9 DEF LockInv
<1>8. ASSUME NEW t \in Threads, NEW s \in Sessions, CallHook(t, s) PROVE LockInv'
  <2>1. /\ pc[t] = "hook" /\ pc' = [pc EXCEPT ![t] = After(t)]
        /\ todo' = [todo EXCEPT ![t] = todo[t] \ {s}]
        /\ once[s] = t /\ once' = [once EXCEPT ![s] = "done"]
        /\ UNCHANGED mu
    BY <1>8 DEF CallHook
  <2>2. t # mu /\ \A r \in Sessions \ {s} : once[r] # t
    BY <2>1 DEF LockInv
  <2>3. \A r \in Sessions : once'[r] = IF r = s THEN "done" ELSE once[r]
    BY <2>1
  <2>4. \A u \in Threads : /\ pc'[u] = IF u = t THEN After(t) ELSE pc[u]
                           /\ u # t => todo'[u] = todo[u]
    BY <2>1 DEF After
  <2>5. After(t) \in {"idle", "close"} /\ (t \in Sessions => After(t) = "idle")
    BY DEF After
  <2>6. \A r \in Sessions : once'[r] \in Threads =>
           pc'[once'[r]] = "hook" /\ r \in todo'[once'[r]]
    <3> SUFFICES ASSUME NEW r \in Sessions, once'[r] \in Threads
                 PROVE  pc'[once'[r]] = "hook" /\ r \in todo'[once'[r]]
      OBVIOUS
    <3>1. r # s /\ once'[r] = once[r] /\ once[r] \in Threads \ {t}
      BY <2>2, <2>3
    <3>2. pc[once[r]] = "hook" /\ r \in todo[once[r]]
      BY <3>1 DEF LockInv
    <3> QED
      BY <2>4, <3>1, <3>2
  <2>7. \A u \in Threads : pc'[u] = "hook" => \E r \in Sessions : once'[r] = u
    <3> SUFFICES ASSUME NEW u \in Threads, pc'[u] = "hook"
                 PROVE  \E r \in Sessions : once'[r] = u
      OBVIOUS
    <3>1. u # t /\ pc[u] = "hook"
      BY <2>4, <2>5
    <3>2. PICK r \in Sessions : once[r] = u
      BY <3>1 DEF LockInv
    <3> QED
      BY <2>1, <2>3, <3>1, <3>2
  <2>8. \A q, r \in Sessions : once'[q] = once'[r] /\ once'[q] \in Threads => q = r
    BY <2>3 DEF LockInv
  <2>9. mu' # "none" => pc'[mu'] = "locked"
    BY <2>1, <2>2, <2>4 DEF LockInv
  <2>10. /\ \A u \in Threads : pc'[u] = "locked" => mu' = u
         /\ \A r \in Sessions : pc'[r] = "close" => todo'[r] # {}
    BY <2>1, <2>4, <2>5 DEF LockInv
  <2> QED
    BY <2>6, <2>7, <2>8, <2>9, <2>10 DEF LockInv
<1>9. ASSUME NEW t \in Threads, NEW s \in Sessions, AlreadyClosed(t, s) PROVE LockInv'
  <2>1. /\ pc[t] = "close" /\ pc' = [pc EXCEPT ![t] = After(t)]
        /\ todo' = [todo EXCEPT ![t] = todo[t] \ {s}]
        /\ UNCHANGED <<mu, once>>
    BY <1>9 DEF AlreadyClosed
  <2>2. t # mu /\ \A r \in Sessions : once[r] # t
    BY <2>1 DEF LockInv
  <2>3. \A u \in Threads : /\ pc'[u] = IF u = t THEN After(t) ELSE pc[u]
                           /\ u # t => todo'[u] = todo[u]
    BY <2>1 DEF After
  <2>4. After(t) \in {"idle", "close"} /\ (t \in Sessions => After(t) = "idle")
    BY DEF After
  <2> HIDE DEF After
  <2> QED
    BY <2>1, <2>2, <2>3, <2>4 DEF LockInv
<1>10. CASE StaleReturns \/ PeerReturns \/ CloseAllReturns
  <2>1. PICK t \in Callers :
           /\ pc[t] = "close" /\ pc' = [pc EXCEPT ![t] = "idle"]
           /\ UNCHANGED <<mu, once, todo>>
    BY <1>10 DEF StaleReturns, PeerReturns, CloseAllReturns, Callers
  <2>2. t \in Threads /\ t # mu /\ \A r \in Sessions : once[r] # t
    BY <2>1 DEF LockInv, Callers
  <2>3. \A u \in Threads : pc'[u] = IF u = t THEN "idle" ELSE pc[u]
    BY <2>1
  <2> QED
    BY <2>1, <2>2, <2>3 DEF LockInv
<1>11. CASE UNCHANGED vars
  BY <1>11 DEF vars, LockInv
<1> QED
  BY <1>1, <1>2, <1>3, <1>4, <1>5, <1>6, <1>7, <1>8, <1>9, <1>10, <1>11 DEF Next, CallStep

(* Neither the order in which two callers close the same sessions, nor the *)
(* hook's call of Remove from inside Close, ever makes a circle of waiting *)
(* calls: the part of CallsReturn that does not depend on the scheduler,   *)
(* for any number of sessions, also when sessions are added during         *)
(* CloseAll or opened again.                                               *)
THEOREM NoCallDeadlocks == Spec => []NoCircle
<1>1. Init => LockInv
  <2> SUFFICES ASSUME Init PROVE LockInv
    OBVIOUS
  <2>1. \A t \in Threads : pc[t] = "idle"
    BY DEF Init
  <2>2. mu = "none" /\ \A s \in Sessions : once[s] = "none" /\ s \in Threads
    BY DEF Init, Threads
  <2> QED
    BY <2>1, <2>2 DEF LockInv, Threads
<1>2. TypeOK /\ LockInv /\ [Next]_vars => LockInv'
  BY LockStep
<1>3. TypeOK /\ LockInv => NoCircle
  <2> SUFFICES ASSUME TypeOK, LockInv, NEW t \in Threads, pc[t] # "idle"
               PROVE  \/ MayGo(t)
                      \/ \E u \in Threads :
                            /\ WaitsFor(t, u)
                            /\ MayGo(u) \/ \E v \in Threads : WaitsFor(u, v) /\ MayGo(v)
    BY DEF NoCircle
  <2>1. mu # "none" => mu \in Threads /\ MayGo(mu)
    BY DEF TypeOK, Threads, LockInv, MayGo
  <2>2. ASSUME NEW u \in Threads, pc[u] = "hook"
        PROVE  MayGo(u) \/ (mu # "none" /\ WaitsFor(u, mu))
    <3>1. PICK s \in Sessions : once[s] = u
      BY <2>2 DEF LockInv
    <3> QED
      BY <2>2, <3>1 DEF MayGo, WaitsFor
  <2>3. CASE pc[t] = "locked"
    BY <2>3 DEF LockInv, MayGo
  <2>4. CASE pc[t] = "hook"
    BY <2>1, <2>2, <2>4
  <2>5. CASE pc[t] = "close" /\ todo[t] = {}
    <3>1. CASE mu = "none"
      BY <2>5, <3>1 DEF MayGo
    <3>2. CASE mu # "none"
      BY <2>1, <2>5, <3>2 DEF WaitsFor
    <3> QED
      BY <3>1, <3>2
  <2>6. CASE pc[t] = "close" /\ todo[t] # {}
    <3>1. PICK s \in todo[t] : s \in Sessions /\ once[s] \in {"none", "done"} \cup Threads
      BY <2>6 DEF TypeOK
    <3>2. CASE once[s] \in {"none", "done"}
      BY <2>6, <3>1, <3>2 DEF MayGo
    <3>3. CASE once[s] \in Threads
      <4>1. WaitsFor(t, once[s]) /\ pc[once[s]] = "hook"
        BY <2>6, <3>1, <3>3 DEF WaitsFor, LockInv
      <4>2. MayGo(once[s]) \/ (mu # "none" /\ WaitsFor(once[s], mu))
        BY <2>2, <3>3, <4>1
      <4> QED
        BY <2>1, <3>3, <4>1, <4>2
    <3> QED
      BY <3>1, <3>2, <3>3
  <2>7. pc[t] \in {"locked", "hook", "close"}
    BY DEF TypeOK
  <2> QED
    BY <2>3, <2>4, <2>5, <2>6, <2>7
<1> QED
  BY <1>1, <1>2, <1>3, TypeCorrect, PTL DEF Spec


-----------------------------------------------------------------------------
(* A closed session leaves the map.                                        *)

(* A session that is closed and still in the map was closed before its     *)
(* hook was set, and one of the two calls that remove it afterwards is     *)
(* still to do so: the handler of its close message, with the ID at hand,  *)
(* or CloseAll.                                                            *)
LeavesWithTheCall ==
    \A s \in Sessions : once[s] = "done" /\ Registered(s) =>
        (pc["peer"] # "idle" /\ peerId = idOf[s]) \/ pc["all"] # "idle"

(* The map has sessions that were opened, under their own IDs; only the    *)
(* hooked close themselves; and what the stale cleanup is to close has     *)
(* left the map, what the handler of a close message is to close has the   *)
(* ID of the message.                                                      *)
ListsInv ==
    /\ \A id \in DOMAIN sessions : idOf[sessions[id]] = id /\ phase[sessions[id]] # "new"
    /\ \A t \in Threads : \A s \in todo[t] : phase[s] # "new"
    /\ \A s \in Sessions : phase[s] \in {"hooked", "running"} => s \in hook
    /\ \A s \in Sessions : \A r \in todo[s] : r = s /\ s \in hook
    /\ \A s \in todo["stale"] : ~Registered(s)
    /\ \A s \in todo["peer"] : idOf[s] = peerId
    /\ NothingLeft

(* Entries are only taken away.                                            *)
Shrinks ==
    /\ DOMAIN sessions' \subseteq DOMAIN sessions
    /\ \A id \in DOMAIN sessions' : sessions'[id] = sessions[id]

LEMMA RemoveShrinks ==
    ASSUME TypeOK, UNCHANGED idOf, NEW id, Remove(id)
    PROVE  /\ Shrinks
           /\ \A s \in Sessions : Registered(s)' => Registered(s) /\ idOf[s] # id
<1> DEFINE D == DOMAIN sessions \ {id}
<1>1. sessions' = [i \in D |-> sessions[i]]
  BY DEF Remove, Restrict
<1>2. DOMAIN sessions' = D /\ \A i \in D : sessions'[i] = sessions[i]
  BY <1>1
<1> QED
  BY <1>2 DEF Shrinks, Registered

LEMMA ListsKept ==
    ASSUME TypeOK, ListsInv, Shrinks, UNCHANGED <<idOf, peerId>>,
           \A s \in Sessions : phase[s] # "new" => phase'[s] # "new",
           \A s \in Sessions : phase'[s] \in {"hooked", "running"} => s \in hook',
           hook \subseteq hook',
           \A t \in Threads : todo'[t] \subseteq todo[t],
           \A t \in Callers : pc'[t] = "idle" => pc[t] = "idle" \/ todo[t] = {}
    PROVE  ListsInv'
<1>1. \A s \in Sessions : Registered(s)' => Registered(s)
  BY DEF Shrinks, Registered
<1>2. \A id \in DOMAIN sessions : sessions[id] \in Sessions
  BY DEF TypeOK
<1>3. \A id \in DOMAIN sessions' : idOf'[sessions'[id]] = id /\ phase'[sessions'[id]] # "new"
  BY <1>2 DEF Shrinks, ListsInv
<1>4. \A t \in Threads : \A s \in todo'[t] : s \in Sessions /\ phase'[s] # "new"
  BY DEF ListsInv, TypeOK
<1>5. \A s \in Sessions : \A r \in todo'[s] : r = s /\ s \in hook'
  BY DEF ListsInv, Threads
<1>6. \A s \in todo'["stale"] : s \in Sessions /\ ~Registered(s)'
  BY <1>1, <1>4 DEF ListsInv, Threads
<1>7. \A s \in todo'["peer"] : idOf'[s] = peerId'
  BY DEF ListsInv, Threads
<1>8. NothingLeft'
  BY DEF ListsInv, NothingLeft, Threads, Callers
<1> QED
  BY <1>3, <1>4, <1>5, <1>6, <1>7, <1>8 DEF ListsInv

LEMMA ListsStep ==
    ASSUME TypeOK, TypeOK', ListsInv, [Next]_vars
    PROVE  ListsInv'
<1> USE DEF TypeOK, Threads, Callers
<1>1. ASSUME NEW s \in Sessions, Add(s) PROVE ListsInv'
  <2>0. /\ phase[s] = "new" /\ UNCHANGED <<idOf, hook, pc, todo, peerId>>
        /\ phase' = [phase EXCEPT ![s] = phase'[s]] /\ phase'[s] \in {"added", "ended"}
    BY <1>1 DEF Add
  <2>1. CASE idOf[s] \in DOMAIN sessions
    <3>1. Shrinks
      BY <1>1, <2>1 DEF Add, maps, Shrinks
    <3> QED
      BY <2>0, <3>1, ListsKept DEF ListsInv
  <2>2. CASE idOf[s] \notin DOMAIN sessions
    <3> DEFINE D == DOMAIN sessions \cup {idOf[s]}
    <3>1. sessions' = [i \in D |-> IF i = idOf[s] THEN s ELSE sessions[i]]
      BY <1>1, <2>2 DEF Add
    <3>2. /\ DOMAIN sessions' = D /\ sessions'[idOf[s]] = s
          /\ \A id \in DOMAIN sessions : sessions'[id] = sessions[id]
      BY <2>2, <3>1
    <3>3. \A r \in Sessions : Registered(r)' => Registered(r) \/ r = s
      BY <2>0, <3>2 DEF Registered
    <3>4. \A id \in DOMAIN sessions' : idOf'[sessions'[id]] = id /\ phase'[sessions'[id]] # "new"
      BY <2>0, <3>2 DEF ListsInv
    <3>5. \A r \in todo'["stale"] : ~Registered(r)'
      <4>1. \A r \in todo["stale"] : r \in Sessions /\ r # s
        BY <2>0 DEF ListsInv
      <4> QED
        BY <2>0, <3>3, <4>1 DEF ListsInv
    <3>6. \A r \in Sessions : phase'[r] \in {"hooked", "running"} => r \in hook'
      BY <2>0 DEF ListsInv
    <3>7. \A t \in Threads : \A r \in todo'[t] : phase'[r] # "new"
      BY <2>0 DEF ListsInv
    <3> QED
      BY <2>0, <3>4, <3>5, <3>6, <3>7 DEF ListsInv, NothingLeft
  <2> QED
    BY <2>1, <2>2
<1>2. ASSUME NEW s \in Sessions, SetOnClose(s) \/ Start(s) PROVE ListsInv'
  <2>1. /\ phase[s] \in {"added", "hooked"}
        /\ phase' = [phase EXCEPT ![s] = IF phase[s] = "added" THEN "hooked" ELSE "running"]
        /\ hook' = hook \cup {s}
        /\ UNCHANGED <<sessions, idOf, pc, todo, peerId>>
    BY <1>2 DEF SetOnClose, Start, maps, ListsInv
  <2>2. Shrinks
    BY <2>1 DEF Shrinks
  <2> QED
    BY <2>1, <2>2, ListsKept DEF ListsInv
<1>3. ASSUME NEW s \in Sessions, GiveUp(s) PROVE ListsInv'
  <2>1. /\ phase' = [phase EXCEPT ![s] = "ended"] /\ Remove(idOf[s])
        /\ UNCHANGED <<idOf, hook, pc, todo, peerId>>
    BY <1>3 DEF GiveUp
  <2>2. Shrinks
    BY <2>1, RemoveShrinks
  <2> QED
    BY <2>1, <2>2, ListsKept DEF ListsInv
<1>4. ASSUME NEW id \in Ids, Touch(id) PROVE ListsInv'
  BY <1>4, ListsKept DEF Touch, ListsInv, Shrinks
<1>5. ASSUME NEW id \in Ids, PeerClose(id) PROVE ListsInv'
  <2>1. /\ id \in DOMAIN sessions /\ peerId' = id
        /\ todo' = [todo EXCEPT !["peer"] = {sessions[id]}]
        /\ pc' = [pc EXCEPT !["peer"] = "close"]
        /\ UNCHANGED <<idOf, sessions, phase, hook>>
    BY <1>5 DEF PeerClose, maps
  <2>2. sessions[id] \in Sessions /\ idOf[sessions[id]] = id /\ phase[sessions[id]] # "new"
    BY <2>1 DEF ListsInv
  <2> QED
    BY <2>1, <2>2 DEF ListsInv, Registered, NothingLeft
<1>6. ASSUME NEW s \in Sessions, ReadLoopEnds(s) PROVE ListsInv'
  <2>1. /\ phase[s] = "running" /\ todo' = [todo EXCEPT ![s] = {s}]
        /\ pc' = [pc EXCEPT ![s] = "close"]
        /\ UNCHANGED <<idOf, sessions, phase, hook, peerId>>
    BY <1>6 DEF ReadLoopEnds, maps
  <2>2. s \in hook /\ s \notin Callers
    BY <2>1 DEF ListsInv
  <2> QED
    BY <2>1, <2>2 DEF ListsInv, Registered, NothingLeft
<1>7. CASE CloseAllCollects
  <2>1. /\ todo' = [todo EXCEPT !["all"] = Range(sessions)]
        /\ pc' = [pc EXCEPT !["all"] = "locked"]
        /\ UNCHANGED <<idOf, sessions, phase, hook, peerId>>
    BY <1>7 DEF CloseAllCollects, maps
  <2>2. \A s \in Range(sessions) : phase[s] # "new"
    BY DEF ListsInv, Range
  <2> QED
    BY <2>1, <2>2 DEF ListsInv, Registered, NothingLeft
<1>8. ASSUME NEW stale \in SUBSET lastSeen, CleanupCollects(stale) PROVE ListsInv'
  <2> DEFINE D == DOMAIN sessions \ stale
             collected == {sessions[id] : id \in stale}
  <2>1. /\ todo' = [todo EXCEPT !["stale"] = collected]
        /\ pc' = [pc EXCEPT !["stale"] = "locked"]
        /\ sessions' = [i \in D |-> sessions[i]]
        /\ UNCHANGED <<idOf, phase, hook, peerId>>
    BY <1>8 DEF CleanupCollects, Restrict
  <2>2. DOMAIN sessions' = D /\ \A i \in D : sessions'[i] = sessions[i]
    BY <2>1
  <2>3. \A s \in collected : s \in Sessions /\ phase[s] # "new" /\ ~Registered(s)'
    <3> TAKE s \in collected
    <3>1. PICK id \in stale : s = sessions[id]
      OBVIOUS
    <3>2. id \in DOMAIN sessions /\ idOf[s] = id /\ s \in Sessions /\ phase[s] # "new"
      BY <3>1 DEF ListsInv
    <3> QED
      BY <2>1, <2>2, <3>2 DEF Registered
  <2>4. \A id \in DOMAIN sessions' : idOf'[sessions'[id]] = id /\ phase'[sessions'[id]] # "new"
    BY <2>1, <2>2 DEF ListsInv
  <2> QED
    BY <2>1, <2>3, <2>4 DEF ListsInv, NothingLeft
<1>9. ASSUME NEW t \in Threads, Unlock(t) PROVE ListsInv'
  <2>1. /\ pc' = [pc EXCEPT ![t] = "close"] /\ UNCHANGED <<idOf, sessions, phase, hook, todo, peerId>>
    BY <1>9 DEF Unlock, maps
  <2>2. Shrinks
    BY <2>1 DEF Shrinks
  <2> QED
    BY <2>1, <2>2, ListsKept DEF ListsInv
<1>10. ASSUME NEW t \in Threads, NEW s \in Sessions, EnterClose(t, s) PROVE ListsInv'
  <2>1. /\ pc' = [pc EXCEPT ![t] = "hook"]
        /\ phase' = [phase EXCEPT ![s] = IF phase[s] = "running" THEN "ended" ELSE phase[s]]
        /\ UNCHANGED <<idOf, sessions, hook, todo, peerId>>
    BY <1>10 DEF EnterClose, maps
  <2>2. Shrinks
    BY <2>1 DEF Shrinks
  <2> QED
    BY <2>1, <2>2, ListsKept DEF ListsInv
<1>11. ASSUME NEW t \in Threads, NEW s \in Sessions, CallHook(t, s) \/ AlreadyClosed(t, s)
       PROVE  ListsInv'
  <2>1. /\ pc' = [pc EXCEPT ![t] = After(t)]
        /\ todo' = [todo EXCEPT ![t] = todo[t] \ {s}]
        /\ UNCHANGED <<idOf, phase, hook, peerId>>
    BY <1>11 DEF CallHook, AlreadyClosed
  <2>2. t \in Callers => pc'[t] = "close"
    BY <2>1 DEF After
  <2>3. Shrinks
    <3>1. CASE UNCHANGED sessions
      BY <3>1 DEF Shrinks
    <3>2. CASE Remove(idOf[s])
      BY <2>1, <3>2, RemoveShrinks
    <3> QED
      BY <1>11, <3>1, <3>2 DEF CallHook, AlreadyClosed, maps
  <2>4. \A u \in Callers : pc'[u] = "idle" => pc[u] = "idle"
    BY <2>1, <2>2
  <2>5. \A u \in Threads : todo'[u] \subseteq todo[u]
    BY <2>1
  <2> QED
    BY <2>1, <2>3, <2>4, <2>5, ListsKept DEF ListsInv
<1>12. CASE StaleReturns
  <2>1. /\ todo["stale"] = {} /\ pc' = [pc EXCEPT !["stale"] = "idle"]
        /\ UNCHANGED <<idOf, sessions, phase, hook, todo, peerId>>
    BY <1>12 DEF StaleReturns, maps
  <2>2. Shrinks
    BY <2>1 DEF Shrinks
  <2> QED
    BY <2>1, <2>2, ListsKept DEF ListsInv
<1>13. CASE PeerReturns
  <2>1. /\ todo["peer"] = {} /\ pc' = [pc EXCEPT !["peer"] = "idle"] /\ Remove(peerId)
        /\ UNCHANGED <<idOf, phase, hook, todo>>
    BY <1>13 DEF PeerReturns
  <2>2. Shrinks /\ \A s \in Sessions : Registered(s)' => Registered(s)
    BY <2>1, RemoveShrinks
  <2>3. \A id \in DOMAIN sessions' : idOf'[sessions'[id]] = id /\ phase'[sessions'[id]] # "new"
    BY <2>1, <2>2 DEF ListsInv, Shrinks
  <2> QED
    BY <2>1, <2>2, <2>3 DEF ListsInv, NothingLeft
<1>14. CASE CloseAllReturns
  <2>1. /\ todo["all"] = {} /\ pc' = [pc EXCEPT !["all"] = "idle"] /\ DOMAIN sessions' = {}
        /\ UNCHANGED <<idOf, phase, hook, todo, peerId>>
    BY <1>14 DEF CloseAllReturns
  <2>2. Shrinks
    BY <2>1 DEF Shrinks
  <2> QED
    BY <2>1, <2>2, ListsKept DEF ListsInv
<1>15. CASE UNCHANGED vars
  BY <1>15, ListsKept DEF vars, ListsInv, Shrinks
<1> QED
  BY <1>1, <1>2, <1>3, <1>4, <1>5, <1>6, <1>7, <1>8, <1>9, <1>10, <1>11, <1>12, <1>13,
     <1>14, <1>15
     DEF Next, CallStep


LEMMA LeavesStep ==
    ASSUME TypeOK, LockInv, ListsInv, LeavesWithTheCall,
           \A s \in Sessions : once[s] = "done" => phase[s] # "new",
           [Next]_vars
    PROVE  /\ LeavesWithTheCall'
           /\ \A s \in Sessions : once'[s] = "done" => phase'[s] # "new"
<1> USE DEF TypeOK, Threads
<1> DEFINE Goal == LeavesWithTheCall' /\ \A s \in Sessions : once'[s] = "done" => phase'[s] # "new"
<1>0. ASSUME UNCHANGED <<idOf, once, peerId>>,
             \A s \in Sessions : phase[s] # "new" => phase'[s] # "new",
             \A s \in Sessions : Registered(s)' => Registered(s) \/ phase[s] = "new",
             pc["peer"] # "idle" => pc'["peer"] # "idle",
             pc["all"] # "idle" => pc'["all"] # "idle"
      PROVE  Goal
  BY <1>0 DEF LeavesWithTheCall
<1>1. ASSUME NEW s \in Sessions, Add(s) PROVE Goal
  <2>1. /\ phase[s] = "new" /\ \A r \in Sessions \ {s} : phase'[r] = phase[r]
        /\ UNCHANGED <<idOf, once, pc, peerId>>
    BY <1>1 DEF Add
  <2>2. \A r \in Sessions \ {s} : Registered(r)' => Registered(r)
    <3>1. CASE idOf[s] \in DOMAIN sessions
      BY <1>1, <3>1 DEF Add, maps, Registered
    <3>2. CASE idOf[s] \notin DOMAIN sessions
      <4>1. sessions' = [i \in DOMAIN sessions \cup {idOf[s]} |->
                            IF i = idOf[s] THEN s ELSE sessions[i]]
        BY <1>1, <3>2 DEF Add
      <4> QED
        BY <2>1, <4>1 DEF Registered
    <3> QED
      BY <3>1, <3>2
  <2> QED
    BY <1>0, <2>1, <2>2
<1>2. ASSUME NEW s \in Sessions, SetOnClose(s) \/ Start(s) \/ ReadLoopEnds(s) PROVE Goal
  <2>1. /\ UNCHANGED <<idOf, sessions, once, peerId>>
        /\ \A r \in Sessions : phase[r] # "new" => phase'[r] # "new"
        /\ pc' = pc \/ pc' = [pc EXCEPT ![s] = "close"]
    BY <1>2 DEF SetOnClose, Start, ReadLoopEnds, maps
  <2> QED
    BY <1>0, <2>1 DEF Registered
<1>3. ASSUME NEW s \in Sessions, GiveUp(s) PROVE Goal
  <2>1. /\ UNCHANGED <<idOf, once, pc, peerId>> /\ Remove(idOf[s])
        /\ phase' = [phase EXCEPT ![s] = "ended"]
    BY <1>3 DEF GiveUp
  <2> QED
    BY <1>0, <2>1, RemoveShrinks
<1>4. ASSUME NEW id \in Ids, Touch(id) PROVE Goal
  BY <1>0, <1>4 DEF Touch, Registered
<1>5. ASSUME NEW id \in Ids, PeerClose(id) PROVE Goal
  <2>1. /\ pc["peer"] = "idle" /\ pc' = [pc EXCEPT !["peer"] = "close"]
        /\ UNCHANGED <<idOf, sessions, phase, once>>
    BY <1>5 DEF PeerClose, maps
  <2> QED
    BY <2>1 DEF LeavesWithTheCall, Registered
<1>6. CASE CloseAllCollects
  <2>1. /\ pc' = [pc EXCEPT !["all"] = "locked"]
        /\ UNCHANGED <<idOf, sessions, phase, once, peerId>>
    BY <1>6 DEF CloseAllCollects, maps
  <2> QED
    BY <1>0, <2>1 DEF Registered
<1>7. ASSUME NEW stale \in SUBSET lastSeen, CleanupCollects(stale) PROVE Goal
  <2>1. /\ pc' = [pc EXCEPT !["stale"] = "locked"]
        /\ sessions' = [i \in DOMAIN sessions \ stale |-> sessions[i]]
        /\ UNCHANGED <<idOf, phase, once, peerId>>
    BY <1>7 DEF CleanupCollects, Restrict
  <2> QED
    BY <1>0, <2>1 DEF Registered
<1>8. ASSUME NEW t \in Threads, Unlock(t) PROVE Goal
  <2>1. /\ pc' = [pc EXCEPT ![t] = "close"] /\ UNCHANGED <<idOf, sessions, phase, once, peerId>>
    BY <1>8 DEF Unlock, maps
  <2> QED
    BY <1>0, <2>1 DEF Registered
<1>9. ASSUME NEW t \in Threads, NEW s \in Sessions, EnterClose(t, s) PROVE Goal
  <2>1. /\ pc' = [pc EXCEPT ![t] = "hook"] /\ once' = [once EXCEPT ![s] = t]
        /\ phase' = [phase EXCEPT ![s] = IF phase[s] = "running" THEN "ended" ELSE phase[s]]
        /\ UNCHANGED <<idOf, sessions, peerId>>
    BY <1>9 DEF EnterClose, maps
  <2>2. \A r \in Sessions : once'[r] = "done" => once[r] = "done"
    BY <2>1
  <2>3. \A r \in Sessions : Registered(r)' <=> Registered(r)
    BY <2>1 DEF Registered
  <2>4. \A r \in Sessions : phase[r] # "new" => phase'[r] # "new"
    BY <2>1
  <2>5. \A u \in Threads : pc[u] # "idle" => pc'[u] # "idle"
    BY <2>1
  <2> QED
    BY <2>1, <2>2, <2>3, <2>4, <2>5 DEF LeavesWithTheCall
<1>10. ASSUME NEW t \in Threads, NEW s \in Sessions, CallHook(t, s) PROVE Goal
  <2>1. /\ pc[t] = "hook" /\ pc' = [pc EXCEPT ![t] = After(t)]
        /\ once[s] = t /\ once' = [once EXCEPT ![s] = "done"]
        /\ UNCHANGED <<idOf, phase, hook, peerId>>
    BY <1>10 DEF CallHook
  <2>2. s \in todo[t] /\ phase[s] # "new"
    BY <2>1 DEF LockInv, ListsInv
  <2>3. \A u \in {"peer", "all"} : pc[u] # "idle" => pc'[u] # "idle"
    BY <2>1 DEF After
  <2>4. \A r \in Sessions : Registered(r)' => Registered(r)
    <3>1. CASE Remove(idOf[s])
      BY <2>1, <3>1, RemoveShrinks
    <3>2. CASE UNCHANGED maps
      BY <2>1, <3>2 DEF maps, Registered
    <3> QED
      BY <1>10, <3>1, <3>2 DEF CallHook
  <2>5. Registered(s)' => (pc'["peer"] # "idle" /\ peerId' = idOf'[s]) \/ pc'["all"] # "idle"
    <3> SUFFICES ASSUME Registered(s)'
                 PROVE  (pc'["peer"] # "idle" /\ peerId' = idOf'[s]) \/ pc'["all"] # "idle"
      OBVIOUS
    <3>1. s \notin hook
      BY <1>10, <2>1, RemoveShrinks DEF CallHook
    <3>2. t \notin Sessions /\ t # "stale"
      BY <2>2, <2>4, <3>1 DEF ListsInv
    <3>3. CASE t = "peer"
      BY <2>1, <2>2, <2>3, <3>3 DEF ListsInv
    <3>4. CASE t = "all"
      BY <2>1, <2>3, <3>4
    <3> QED
      BY <3>2, <3>3, <3>4
  <2>6. \A r \in Sessions : once'[r] = IF r = s THEN "done" ELSE once[r]
    BY <2>1
  <2> QED
    BY <2>1, <2>2, <2>3, <2>4, <2>5, <2>6 DEF LeavesWithTheCall
<1>11. ASSUME NEW t \in Threads, NEW s \in Sessions, AlreadyClosed(t, s) PROVE Goal
  <2>1. /\ pc' = [pc EXCEPT ![t] = After(t)]
        /\ UNCHANGED <<idOf, sessions, phase, once, peerId>>
    BY <1>11 DEF AlreadyClosed, maps
  <2>2. \A u \in {"peer", "all"} : pc[u] # "idle" => pc'[u] # "idle"
    BY <2>1 DEF After
  <2> QED
    BY <1>0, <2>1, <2>2 DEF Registered
<1>12. CASE StaleReturns
  <2>1. /\ pc' = [pc EXCEPT !["stale"] = "idle"]
        /\ UNCHANGED <<idOf, sessions, phase, once, peerId>>
    BY <1>12 DEF StaleReturns, maps
  <2> QED
    BY <1>0, <2>1 DEF Registered
<1>13. CASE PeerReturns
  <2>1. /\ pc' = [pc EXCEPT !["peer"] = "idle"] /\ Remove(peerId)
        /\ UNCHANGED <<idOf, phase, once>>
    BY <1>13 DEF PeerReturns
  <2>2. \A s \in Sessions : Registered(s)' => Registered(s) /\ idOf[s] # peerId
    BY <2>1, RemoveShrinks
  <2> QED
    BY <2>1, <2>2 DEF LeavesWithTheCall
<1>14. CASE CloseAllReturns
  <2>1. DOMAIN sessions' = {} /\ UNCHANGED <<idOf, phase, once>>
    BY <1>14 DEF CloseAllReturns
  <2> QED
    BY <2>1 DEF LeavesWithTheCall, Registered
<1>15. CASE UNCHANGED vars
  BY <1>0, <1>15 DEF vars, Registered
<1> QED
  BY <1>1, <1>2, <1>3, <1>4, <1>5, <1>6, <1>7, <1>8, <1>9, <1>10, <1>11, <1>12, <1>13,
     <1>14, <1>15
     DEF Next, CallStep

(* When a session is closed, whoever closed it and however many callers    *)
(* met in its Close, it has left the map, or a call still underway is the  *)
(* one that removes it: the safety part of ClosedIsForgotten.              *)
THEOREM ClosedSessionsLeave == Spec => []LeavesWithTheCall
<1> DEFINE Inv == /\ LockInv /\ ListsInv /\ LeavesWithTheCall
                  /\ \A s \in Sessions : once[s] = "done" => phase[s] # "new"
<1>1. Init => Inv
  <2> SUFFICES ASSUME Init PROVE Inv
    OBVIOUS
  <2>1. /\ \A t \in Threads : pc[t] = "idle" /\ todo[t] = {}
        /\ DOMAIN sessions = {} /\ mu = "none"
        /\ \A s \in Sessions : phase[s] = "new" /\ once[s] = "none"
    BY DEF Init
  <2>2. "none" \notin Threads /\ Sessions \subseteq Threads /\ Callers \subseteq Threads
    BY DEF Threads, Callers
  <2>3. LockInv
    BY <2>1, <2>2 DEF LockInv
  <2>4. ListsInv
    BY <2>1, <2>2 DEF ListsInv, NothingLeft, Callers
  <2> QED
    BY <2>1, <2>3, <2>4 DEF LeavesWithTheCall
<1>2. TypeOK /\ TypeOK' /\ Inv /\ [Next]_vars => Inv'
  BY LockStep, ListsStep, LeavesStep
<1>3. Inv => LeavesWithTheCall
  OBVIOUS
<1> HIDE DEF Inv
<1> QED
  BY <1>1, <1>2, <1>3, TypeCorrect, PTL DEF Spec

=============================================================================
