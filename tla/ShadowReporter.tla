--------------------------- MODULE ShadowReporter ---------------------------
(***************************************************************************)
(* The device's shadow reporter (src/internal/shadow/) with the start of   *)
(* the device that makes it (src/internal/cmd/cmd.go, device.go) and the   *)
(* shadow service of the broker, as far as the reporter uses it: a get is  *)
(* answered with the document, if there is one; an update is merged into   *)
(* it field by field.                                                      *)
(*                                                                         *)
(* A state that the reporter reports has two parts: the public addresses,  *)
(* which an update leaves out when their lookup failed, and the version    *)
(* and interfaces (one scalar), which it always contains.                  *)
(***************************************************************************)
EXTENDS Naturals

CONSTANTS Ips,        \* public addresses the device may have
          Interfaces, \* versions and interfaces the device may have
          Absent,     \* there is no document
          Foreign,    \* a document that does not decode (interfaces are an object)
          Replies,    \* replies to a get that may be under way or handled at a time
          MaxGets,    \* bound: gets under way
          MaxChanges, \* bound: changes of the device's network
          MaxFaults   \* bound: lost connections

ASSUME ReporterAssumption ==
    /\ "none" \notin Ips /\ Replies # {}
    /\ Absent # Foreign
    /\ {Absent, Foreign} \cap [ip : Ips \cup {"none"}, ifaces : Interfaces] = {}
    /\ MaxGets \in Nat \ {0} /\ MaxChanges \in Nat /\ MaxFaults \in Nat

VARIABLES net,     \* the device's addresses and interfaces
          lookup,  \* the lookup of the public addresses succeeds
          up,      \* the device is connected
          event,   \* the connected event was not handled yet
          main,    \* how far the device command has come
          trigger, \* tokens in Reporter.trigger
          gets,    \* requests for the document under way
          doc,     \* the reported section of the shadow document
          pc,      \* where each reply stands
          seen,    \* the document in each reply
          current, \* the state its handler read
          changes, faults

envVars == <<net, lookup, changes>>
connVars == <<up, event, faults>>
replyVars == <<pc, seen, current>>
vars == <<envVars, connVars, main, trigger, gets, doc, replyVars>>

States == [ip : Ips \cup {"none"}, ifaces : Interfaces]

Documents == States \cup {Absent, Foreign}

TypeOK ==
    /\ net \in [ip : Ips, ifaces : Interfaces] /\ lookup \in BOOLEAN
    /\ up \in BOOLEAN /\ event \in BOOLEAN
    /\ main \in {"dialing", "made", "running"}
    /\ trigger \in 0 .. 1
    /\ gets \in 0 .. MaxGets
    /\ doc \in Documents
    /\ pc \in [Replies -> {"idle", "arriving", "publishing"}]
    /\ seen \in [Replies -> Documents]
    /\ current \in [Replies -> States \cup {Absent}]
    /\ changes \in 0 .. MaxChanges /\ faults \in 0 .. MaxFaults

Init ==
    /\ net \in [ip : Ips, ifaces : Interfaces] /\ lookup \in BOOLEAN /\ changes = 0
    /\ up = FALSE /\ event = FALSE /\ faults = 0
    /\ main = "dialing" /\ trigger = 0 /\ gets = 0
    /\ doc \in Documents
    /\ pc = [r \in Replies |-> "idle"]
    /\ seen = [r \in Replies |-> Absent]
    /\ current = [r \in Replies |-> Absent]

-----------------------------------------------------------------------------
(* Operators named Mutant... are plausible bugs, kept for mutation testing *)
(* of the properties; the specification does not use them.                 *)

(* The connection is made or comes back; its event follows. *)
Connect ==
    /\ ~up
    /\ up' = TRUE /\ event' = TRUE
    /\ UNCHANGED <<envVars, faults, main, trigger, gets, doc, replyVars>>

(* A token that is there covers this request as well. *)
ReportNow == trigger' = 1

(* The handler of the event: before the device was made nobody is told. *)
Connected ==
    /\ event
    /\ event' = FALSE
    /\ IF main = "dialing" THEN UNCHANGED trigger ELSE ReportNow
    /\ UNCHANGED <<envVars, up, faults, main, gets, doc, replyVars>>

(* Dial returns; the device and its reporter are made. *)
MakeDevice ==
    /\ main = "dialing" /\ up
    /\ main' = "made"
    /\ UNCHANGED <<envVars, connVars, trigger, gets, doc, replyVars>>

(* Device.Run: subscribe, start the reporter's loop. *)
StartReporter ==
    /\ main = "made" /\ up
    /\ main' = "running"
    /\ UNCHANGED <<envVars, connVars, trigger, gets, doc, replyVars>>

(* requestShadow: what fails to be published is not tried again. *)
RequestShadow == gets' = IF up /\ gets < MaxGets THEN gets + 1 ELSE gets

Tick ==
    /\ main = "running"
    /\ RequestShadow
    /\ UNCHANGED <<envVars, connVars, main, trigger, doc, replyVars>>

Triggered ==
    /\ main = "running" /\ trigger = 1
    /\ trigger' = 0 /\ RequestShadow
    /\ UNCHANGED <<envVars, connVars, main, doc, replyVars>>

(* The service: without a document the get is rejected, which nobody       *)
(* subscribed to.                                                          *)
Reject ==
    /\ gets > 0 /\ up /\ doc = Absent
    /\ gets' = gets - 1
    /\ UNCHANGED <<envVars, connVars, main, trigger, doc, replyVars>>

Accept(r) ==
    /\ gets > 0 /\ up /\ doc # Absent /\ pc[r] = "idle"
    /\ gets' = gets - 1
    /\ pc' = [pc EXCEPT ![r] = "arriving"]
    /\ seen' = [seen EXCEPT ![r] = doc]
    /\ UNCHANGED <<envVars, connVars, main, trigger, doc, current>>

(* Merge: what an update leaves out stays. *)
Merged(s) == IF s.ip = "none" /\ doc \in States THEN [s EXCEPT !.ip = doc.ip] ELSE s

(* The version is a constant of the program, and always reported.  Both    *)
(* parts are read at one moment here; a change between the two readings of *)
(* the code is one that the next tick finds.                               *)
CurrentState == [net EXCEPT !.ip = IF lookup THEN @ ELSE "none"]

(* The interfaces are not compared. *)
MutantEqual(s, d) == s.ip = d.ip

(* The text is compared, which the service writes in its own way. *)
MutantSameText(s, d) == FALSE

Equal(s, d) == s = d

(* handleGetAccepted: a document that does not decode is left alone;       *)
(* otherwise the state is read now and compared with the reply.            *)
HandleGetAccepted(r) ==
    /\ pc[r] = "arriving"
    /\ IF seen[r] = Foreign
       THEN pc' = [pc EXCEPT ![r] = "idle"] /\ UNCHANGED current
       ELSE /\ current' = [current EXCEPT ![r] = CurrentState]
            /\ pc' = [pc EXCEPT ![r] = IF Equal(CurrentState, seen[r]) THEN "idle" ELSE "publishing"]
    /\ UNCHANGED <<envVars, connVars, main, trigger, gets, doc, seen>>

(* publishUpdate: not tried again either. *)
PublishUpdate(r) ==
    /\ pc[r] = "publishing"
    /\ pc' = [pc EXCEPT ![r] = "idle"]
    /\ doc' = IF up THEN Merged(current[r]) ELSE doc
    /\ UNCHANGED <<envVars, connVars, main, trigger, gets, seen, current>>

-----------------------------------------------------------------------------
(* The network changes, the lookup begins to fail or succeeds again. *)
NetworkChanges ==
    /\ changes < MaxChanges /\ changes' = changes + 1
    /\ net' \in [ip : Ips, ifaces : Interfaces] /\ lookup' \in BOOLEAN
    /\ UNCHANGED <<connVars, main, trigger, gets, doc, replyVars>>

(* Gets and replies under way may be lost. *)
Disconnect ==
    /\ up /\ faults < MaxFaults
    /\ up' = FALSE /\ faults' = faults + 1
    /\ \/ UNCHANGED <<gets, pc>>
       \/ /\ gets' = 0
          /\ pc' = [r \in Replies |-> IF pc[r] = "arriving" THEN "idle" ELSE pc[r]]
    /\ UNCHANGED <<envVars, event, main, trigger, doc, seen, current>>

Next ==
    \/ Connect \/ Connected \/ MakeDevice \/ StartReporter \/ Tick \/ Triggered \/ Reject
    \/ \E r \in Replies : Accept(r) \/ HandleGetAccepted(r) \/ PublishUpdate(r)
    \/ NetworkChanges \/ Disconnect

(* The ticker fires again and again, goroutines and the service go on, the *)
(* library reconnects without limit.                                       *)
Fairness ==
    /\ WF_vars(Connect) /\ WF_vars(Connected) /\ WF_vars(MakeDevice) /\ WF_vars(StartReporter)
    /\ WF_vars(Tick) /\ WF_vars(Triggered) /\ WF_vars(Reject)
    /\ WF_vars(\E r \in Replies : Accept(r))
    /\ \A r \in Replies : WF_vars(HandleGetAccepted(r)) /\ WF_vars(PublishUpdate(r))

Spec == Init /\ [][Next]_vars /\ Fairness

-----------------------------------------------------------------------------
(* A document that decodes agrees with the device for ever some time after *)
(* the last change of the network, whatever was lost and although a        *)
(* handler that was slow may have published an older state over a newer    *)
(* one.  Of the addresses this is so while their lookup succeeds.          *)
DriftReported ==
    doc \in States =>
        <>[](/\ doc \in States
             /\ doc.ifaces = net.ifaces
             /\ lookup => doc.ip = net.ip)

(* Some time after the last change no updates are published any more (the  *)
(* document's version does not climb with every check), provided that the  *)
(* lookup of the addresses succeeds.                                       *)
VersionSettles == <>[]lookup => <>[](\A r \in Replies : pc[r] # "publishing")
=============================================================================
