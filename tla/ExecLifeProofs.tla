--------------------------- MODULE ExecLifeProofs ---------------------------
(***************************************************************************)
(* Proofs about ExecLife for every value of its constants: its types, that *)
(* exit codes are not made up, that the output precedes them, that no      *)
(* command runs out of everybody's reach, and that its end is not lost.    *)
(*                                                                         *)
(* What RunExec returns is decided long after the process ended, from a    *)
(* message that was under way in between.  The proofs therefore follow a   *)
(* code from the process to the message, to the close channel and to the   *)
(* result, and need that a session has one process whose status is final   *)
(* (OneProcess), because its open message is handled once.                 *)
(***************************************************************************)
EXTENDS ExecLife, TLAPS

USE ExecAssumption DEF ExecAssumption

(* The parts of the type invariant. *)
Flags ==
    /\ ctxDone \in BOOLEAN /\ known \in BOOLEAN /\ acked \in BOOLEAN
    /\ serving \in BOOLEAN /\ touched \in BOOLEAN
    /\ cancelled \in BOOLEAN /\ signalled \in BOOLEAN /\ late \in BOOLEAN

Places ==
    /\ limit \in {"none", "short", "long"}
    /\ client \in {"idle", "opening", "running", "cancelled", "draining", "finishing", "returned"}
    /\ result \in Codes \cup {"none", "error", "exit130"}
    /\ closeCh \in CloseMessages \cup {"none"}
    /\ run \in {"none", "added", "starting", "spawned", "reading", "waiting", "closing", "ended"}
    /\ process \in Statuses \cup {"none", "running"}

Counts ==
    /\ sent \in 0 .. Window /\ arrived \in 0 .. sent /\ written \in 0 .. arrived
    /\ out \in sent .. MaxOut
    /\ faults \in 0 .. MaxFaults

Messages ==
    /\ toDevice \subseteq {"open", "close", "ack"}
    /\ toClient \subseteq CloseMessages \cup {"ok"}
    /\ up \subseteq {"client", "device"}

Types == Flags /\ Places /\ Counts /\ Messages

(* The open message is handled once, and starts one process. *)
OneProcess ==
    /\ client = "idle" => "open" \notin toDevice
    /\ client = "idle" \/ "open" \in toDevice => run = "none"
    /\ run \in {"none", "added", "starting"} => process = "none"

(* The process has ended with a status that is reported as m. *)
Real(m) ==
    /\ m = "exit0" => process \in {"ok", "int"}
    /\ m = "exitN" => process \in {"fail", "kill"}

(* A code under way or taken is the one of the process, which has ended. *)
CodesAreReal ==
    /\ \A m \in Codes : m \in toClient \/ closeCh = m =>
          Real(m) /\ run \in {"closing", "ended"}
    /\ client \in {"cancelled", "finishing"} => ctxDone
    /\ result = "exitN" => Real("exitN")
    /\ result = "exit0" => Real("exit0") \/ ctxDone
    /\ result \in Codes => client = "returned"

CodeInv == OneProcess /\ CodesAreReal

(* While nothing fails the connection is there, the client's session is    *)
(* open while RunExec runs, and what the loop of run has left is what the  *)
(* window holds back.                                                      *)
Drained ==
    /\ up = {"client", "device"}
    /\ client \in {"running", "cancelled", "draining", "finishing"} => known
    /\ client = "opening" => known
    /\ run \in {"waiting", "closing", "ended"} =>
          /\ process = "running" => sent = Window
          /\ process \in Statuses => sent = out \/ sent = Window

Inv == Types /\ CodeInv /\ (faults = 0 => Drained /\ (Prompt => OutputComplete))

-----------------------------------------------------------------------------
(* Every step keeps the types. *)
LEMMA TypesStep == ASSUME Types, [Next]_vars PROVE Types'
<1> USE DEF Types, Places, Codes, CloseMessages, Statuses, clientVars, sessionVars, runVars
<1>1. CASE ClientStep
  <2> USE <1>1 DEF ClientStep, Open, ClientSays, Return, ContextEnds, OpenFails,
              TakeAnswer, HearCancel, WriteData, TakeClose, DrainEnds, Outcome,
              CancelTimeout, AckArrives, CloseArrives, DataArrives
  <2>1. Flags'
    BY ZenonT(40) DEF Flags
  <2>2. Places'
    OBVIOUS
  <2>3. Counts'
    BY DEF Counts
  <2>4. Messages'
    <3>1. toDevice' \subseteq {"open", "close", "ack"}
      BY DEF Messages
    <3>2. toClient' \subseteq CloseMessages \cup {"ok"}
      BY DEF Messages
    <3>3. up' \subseteq {"client", "device"}
      BY DEF Messages
    <3> QED
      BY <3>1, <3>2, <3>3 DEF Messages
  <2> QED
    BY <2>1, <2>2, <2>3, <2>4
<1>2. CASE \/ AddSession \/ StartSession \/ StartFails \/ StartProcess \/ SetGroup \/ SendFrame
           \/ WriteFails \/ ReadEnds \/ Wait \/ RunEnds
  <2> USE <1>2 DEF AddSession, StartSession, DeviceSays, StartFails, StartProcess,
       SetGroup, SendFrame,
              WriteFails, ReadEnds, Wait, ExitCode, RunEnds, CloseSession
  <2>1. Flags'
    BY ZenonT(40) DEF Flags
  <2>2. Places'
    OBVIOUS
  <2>3. Counts'
    BY DEF Counts
  <2>4. Messages'
    <3>1. toDevice' \subseteq {"open", "close", "ack"}
      BY DEF Messages
    <3>2. toClient' \subseteq CloseMessages \cup {"ok"}
      BY DEF Messages
    <3>3. up' \subseteq {"client", "device"}
      BY DEF Messages
    <3> QED
      BY <3>1, <3>2, <3>3 DEF Messages
  <2> QED
    BY <2>1, <2>2, <2>3, <2>4
<1>3. CASE \/ Produce
           \/ \E status \in Statuses : ProcessEnds(status)
           \/ DeviceTimeout \/ DeviceCloseArrives \/ DeviceAckArrives
           \/ DeviceAges \/ DeviceStale
  <2> USE <1>3 DEF Produce, ProcessEnds, DeviceTimeout, TimerRuns, DeviceCloseArrives,
       CloseSession,
              DeviceAckArrives, DeviceSays, DeviceAges, DeviceStale
  <2>1. Flags'
    BY ZenonT(40) DEF Flags
  <2>2. Places'
    OBVIOUS
  <2>3. Counts'
    BY DEF Counts
  <2>4. Messages'
    <3>1. toDevice' \subseteq {"open", "close", "ack"}
      BY DEF Messages
    <3>2. toClient' \subseteq CloseMessages \cup {"ok"}
      BY DEF Messages
    <3>3. up' \subseteq {"client", "device"}
      BY DEF Messages
    <3> QED
      BY <3>1, <3>2, <3>3 DEF Messages
  <2> QED
    BY <2>1, <2>2, <2>3, <2>4
<1>4. CASE \/ ClientDisconnects \/ DeviceDisconnects
           \/ \E end \in {"client", "device"} : Reconnect(end)
  <2> USE <1>4 DEF ClientDisconnects, DeviceDisconnects, CloseSession, Reconnect
  <2>1. Flags'
    BY ZenonT(40) DEF Flags
  <2>2. Places'
    OBVIOUS
  <2>3. Counts'
    BY DEF Counts
  <2>4. Messages'
    <3>1. toDevice' \subseteq {"open", "close", "ack"}
      BY DEF Messages
    <3>2. toClient' \subseteq CloseMessages \cup {"ok"}
      BY DEF Messages
    <3>3. up' \subseteq {"client", "device"}
      BY DEF Messages
    <3> QED
      BY <3>1, <3>2, <3>3 DEF Messages
  <2> QED
    BY <2>1, <2>2, <2>3, <2>4
<1>5. CASE UNCHANGED vars
  BY <1>5 DEF vars, Flags, Counts, Messages
<1> QED
  BY <1>1, <1>2, <1>3, <1>4, <1>5 DEF Next, ClientStep, RunStep, DeviceStep

-----------------------------------------------------------------------------
(* The session has one process, whatever fails. *)
LEMMA OneProcessStep == ASSUME Types, OneProcess, [Next]_vars PROVE OneProcess'
<1> USE DEF Types, Places, OneProcess, Codes, CloseMessages, Statuses, clientVars, sessionVars,
            runVars
<1>1. CASE Open
  BY <1>1 DEF Open, ClientSays, Return
<1>2. CASE \/ ContextEnds \/ OpenFails \/ TakeAnswer \/ HearCancel \/ WriteData
           \/ TakeClose \/ DrainEnds \/ CancelTimeout \/ AckArrives
           \/ \E m \in CloseMessages : CloseArrives(m)
           \/ DataArrives
  BY <1>2 DEF ContextEnds, OpenFails, Return, TakeAnswer, HearCancel, ClientSays,
       WriteData, TakeClose, DrainEnds, Outcome, CancelTimeout, AckArrives,
       CloseArrives, DataArrives
<1>3. CASE AddSession \/ StartSession
  BY <1>3 DEF AddSession, StartSession, DeviceSays
<1>4. CASE StartProcess
  BY <1>4 DEF StartProcess
<1>5. CASE \/ StartFails \/ SetGroup \/ SendFrame \/ WriteFails \/ ReadEnds
           \/ Wait \/ RunEnds
  BY <1>5 DEF StartFails, DeviceSays, SetGroup, SendFrame, WriteFails, ReadEnds, Wait,
       ExitCode, RunEnds, CloseSession
<1>6. CASE \E status \in Statuses : ProcessEnds(status)
  BY <1>6 DEF ProcessEnds
<1>7. CASE \/ Produce \/ DeviceTimeout \/ DeviceCloseArrives \/ DeviceAckArrives
           \/ DeviceAges \/ DeviceStale
  BY <1>7 DEF Produce, DeviceTimeout, TimerRuns, DeviceCloseArrives, CloseSession,
       DeviceAckArrives, DeviceSays, DeviceAges, DeviceStale
<1>8. CASE \/ ClientDisconnects \/ DeviceDisconnects
           \/ \E end \in {"client", "device"} : Reconnect(end)
  BY <1>8 DEF ClientDisconnects, DeviceDisconnects, CloseSession, Reconnect
<1>9. CASE UNCHANGED vars
  BY <1>9 DEF vars
<1> QED
  BY <1>1, <1>2, <1>3, <1>4, <1>5, <1>6, <1>7, <1>8, <1>9 DEF Next, ClientStep,
     RunStep, DeviceStep

(* A code stays the one of the process, whatever fails. *)
LEMMA CodesStep == ASSUME Types, CodeInv, [Next]_vars PROVE CodesAreReal'
<1> USE DEF Types, Places, Messages, CodeInv, OneProcess, CodesAreReal, Real, Codes,
            CloseMessages, Statuses, clientVars, sessionVars, runVars
<1>1. CASE HearCancel
  BY <1>1 DEF HearCancel, ClientSays
<1>2. CASE TakeClose
  BY <1>2 DEF TakeClose
<1>3. CASE DrainEnds
  BY <1>3 DEF DrainEnds, Outcome, Return
<1>4. CASE \E m \in CloseMessages : CloseArrives(m)
  BY <1>4 DEF CloseArrives
<1>5. CASE \/ Open \/ ContextEnds \/ OpenFails \/ TakeAnswer \/ WriteData
           \/ CancelTimeout \/ AckArrives \/ DataArrives
  BY <1>5 DEF Open, ClientSays, Return, ContextEnds, OpenFails, TakeAnswer, WriteData,
       CancelTimeout, AckArrives, DataArrives
<1>6. CASE Wait
  BY <1>6 DEF Wait, ExitCode, DeviceSays
<1>7. CASE \/ AddSession \/ StartSession \/ StartFails \/ StartProcess \/ SetGroup \/ SendFrame
           \/ WriteFails \/ ReadEnds \/ RunEnds
  BY <1>7 DEF AddSession, StartSession, DeviceSays, StartFails, StartProcess, SetGroup,
       SendFrame,
       WriteFails, ReadEnds, RunEnds, CloseSession
<1>8. CASE \E status \in Statuses : ProcessEnds(status)
  BY <1>8 DEF ProcessEnds
<1>9. CASE DeviceAckArrives
  BY <1>9 DEF DeviceAckArrives, DeviceSays
<1>10. CASE \/ Produce \/ DeviceTimeout \/ DeviceCloseArrives \/ DeviceAges
            \/ DeviceStale
  BY <1>10 DEF Produce, DeviceTimeout, TimerRuns, DeviceCloseArrives, CloseSession, DeviceAges,
       DeviceStale
<1>11. CASE \/ ClientDisconnects \/ DeviceDisconnects
            \/ \E end \in {"client", "device"} : Reconnect(end)
  BY <1>11 DEF ClientDisconnects, DeviceDisconnects, CloseSession, Reconnect
<1>12. CASE UNCHANGED vars
  BY <1>12 DEF vars
<1> QED
  BY <1>1, <1>2, <1>3, <1>4, <1>5, <1>6, <1>7, <1>8, <1>9, <1>10, <1>11, <1>12 DEF
     Next, ClientStep, RunStep, DeviceStep

(* Faults are counted. *)
LEMMA FaultsGrow == ASSUME Types, faults' = 0, [Next]_vars PROVE faults = 0
<1> USE DEF Types, Counts, clientVars, sessionVars, runVars
<1>1. CASE ClientStep
  BY <1>1 DEF ClientStep, Open, ClientSays, Return, ContextEnds, OpenFails,
       TakeAnswer, HearCancel, WriteData, TakeClose, DrainEnds, Outcome,
       CancelTimeout, AckArrives, CloseArrives, DataArrives
<1>2. CASE \/ AddSession \/ StartSession \/ StartFails \/ StartProcess \/ SetGroup \/ SendFrame
           \/ WriteFails \/ ReadEnds \/ Wait \/ RunEnds
  BY <1>2 DEF AddSession, StartSession, DeviceSays, StartFails, StartProcess, SetGroup,
       SendFrame,
       WriteFails, ReadEnds, Wait, ExitCode, RunEnds, CloseSession
<1>3. CASE \/ Produce
           \/ \E status \in Statuses : ProcessEnds(status)
           \/ DeviceTimeout \/ DeviceCloseArrives \/ DeviceAckArrives
           \/ DeviceAges \/ DeviceStale
  BY <1>3 DEF Produce, ProcessEnds, DeviceTimeout, TimerRuns, DeviceCloseArrives, CloseSession,
       DeviceAckArrives, DeviceSays, DeviceAges, DeviceStale
<1>4. CASE \/ ClientDisconnects \/ DeviceDisconnects
           \/ \E end \in {"client", "device"} : Reconnect(end)
  BY <1>4 DEF ClientDisconnects, DeviceDisconnects, CloseSession, Reconnect
<1>5. CASE UNCHANGED vars
  BY <1>5 DEF vars
<1> QED
  BY <1>1, <1>2, <1>3, <1>4, <1>5 DEF Next, ClientStep, RunStep, DeviceStep

(* A step without a fault leaves nothing behind. *)
LEMMA DrainedStep ==
    ASSUME Types, OneProcess, Drained, faults' = 0, [Next]_vars
    PROVE  Drained'
<1> USE DEF Types, Places, Counts, OneProcess, Drained, Codes, CloseMessages, Statuses,
            clientVars, sessionVars, runVars
<1>1. CASE OpenFails
  BY <1>1 DEF OpenFails, Return
<1>2. CASE \/ Open \/ ContextEnds \/ TakeAnswer \/ HearCancel \/ WriteData
           \/ TakeClose \/ DrainEnds \/ CancelTimeout \/ AckArrives
           \/ \E m \in CloseMessages : CloseArrives(m)
           \/ DataArrives
  BY <1>2 DEF Open, ClientSays, Return, ContextEnds, TakeAnswer, HearCancel,
       WriteData, TakeClose, DrainEnds, Outcome, CancelTimeout, AckArrives,
       CloseArrives, DataArrives
<1>3. CASE WriteFails
  BY <1>3 DEF WriteFails
<1>4. CASE ReadEnds
  BY <1>4 DEF ReadEnds
<1>5. CASE \/ AddSession \/ StartSession \/ StartFails \/ StartProcess \/ SetGroup \/ SendFrame
           \/ Wait \/ RunEnds
  BY <1>5 DEF AddSession, StartSession, DeviceSays, StartFails, StartProcess, SetGroup,
       SendFrame, Wait,
       ExitCode, RunEnds, CloseSession
<1>6. CASE \E status \in Statuses : ProcessEnds(status)
  BY <1>6 DEF ProcessEnds
<1>7. CASE \/ Produce \/ DeviceTimeout \/ DeviceCloseArrives \/ DeviceAckArrives
           \/ DeviceAges \/ DeviceStale
  BY <1>7 DEF Produce, DeviceTimeout, TimerRuns, DeviceCloseArrives, CloseSession,
       DeviceAckArrives, DeviceSays, DeviceAges, DeviceStale
<1>8. CASE \/ ClientDisconnects \/ DeviceDisconnects
           \/ \E end \in {"client", "device"} : Reconnect(end)
  BY <1>8 DEF ClientDisconnects, DeviceDisconnects, CloseSession, Reconnect
<1>9. CASE UNCHANGED vars
  BY <1>9 DEF vars
<1> QED
  BY <1>1, <1>2, <1>3, <1>4, <1>5, <1>6, <1>7, <1>8, <1>9 DEF Next, ClientStep,
     RunStep, DeviceStep

(* Such a step keeps the output complete. *)
LEMMA OutputStep ==
    ASSUME Types, CodeInv, Drained, faults = 0, faults' = 0, Prompt, OutputComplete, [Next]_vars
    PROVE  OutputComplete'
<1> USE DEF Types, Places, Counts, Messages, CodeInv, OneProcess, CodesAreReal, Drained,
            OutputComplete, Real, Codes, CloseMessages, Statuses, clientVars, sessionVars,
            runVars
<1>1. CASE WriteData
  BY <1>1 DEF WriteData, ClientSays, Return
<1>2. CASE DrainEnds
  BY <1>2 DEF DrainEnds, Outcome, Return
<1>3. CASE \E m \in CloseMessages : CloseArrives(m)
  BY <1>3 DEF CloseArrives
<1>4. CASE \/ Open \/ ContextEnds \/ OpenFails \/ TakeAnswer \/ HearCancel
           \/ TakeClose \/ CancelTimeout \/ AckArrives \/ DataArrives
  BY <1>4 DEF Open, ClientSays, Return, ContextEnds, OpenFails, TakeAnswer,
       HearCancel, TakeClose, CancelTimeout, AckArrives, DataArrives
<1>5. CASE \/ AddSession \/ StartSession \/ StartFails \/ StartProcess \/ SetGroup \/ SendFrame
           \/ WriteFails \/ ReadEnds \/ Wait \/ RunEnds
  BY <1>5 DEF AddSession, StartSession, DeviceSays, StartFails, StartProcess, SetGroup,
       SendFrame,
       WriteFails, ReadEnds, Wait, ExitCode, RunEnds, CloseSession
<1>6. CASE \/ Produce
           \/ \E status \in Statuses : ProcessEnds(status)
           \/ DeviceTimeout \/ DeviceCloseArrives \/ DeviceAckArrives
           \/ DeviceAges \/ DeviceStale
  BY <1>6 DEF Produce, ProcessEnds, DeviceTimeout, TimerRuns, DeviceCloseArrives, CloseSession,
       DeviceAckArrives, DeviceSays, DeviceAges, DeviceStale
<1>7. CASE \/ ClientDisconnects \/ DeviceDisconnects
           \/ \E end \in {"client", "device"} : Reconnect(end)
  BY <1>7 DEF ClientDisconnects, DeviceDisconnects, CloseSession, Reconnect
<1>8. CASE UNCHANGED vars
  BY <1>8 DEF vars
<1> QED
  BY <1>1, <1>2, <1>3, <1>4, <1>5, <1>6, <1>7, <1>8 DEF Next, ClientStep, RunStep,
     DeviceStep

-----------------------------------------------------------------------------
(* Inv is inductive. *)
LEMMA Invariance == Spec => []Inv
<1>1. Init => Inv
  <2> SUFFICES ASSUME Init PROVE Inv
    OBVIOUS
  <2>1. Flags
    BY DEF Init, Flags
  <2>2. Places /\ Counts /\ Messages
    BY DEF Init, Places, Counts, Messages, Codes, CloseMessages, Statuses
  <2>3. CodeInv
    BY DEF Init, CodeInv, OneProcess, CodesAreReal, Real, Codes
  <2>4. Drained /\ OutputComplete
    BY DEF Init, Drained, OutputComplete, Codes
  <2> QED
    BY <2>1, <2>2, <2>3, <2>4 DEF Inv, Types
<1>2. Inv /\ [Next]_vars => Inv'
  <2> SUFFICES ASSUME Inv, [Next]_vars PROVE Inv'
    OBVIOUS
  <2>1. Types'
    BY TypesStep DEF Inv
  <2>2. CodeInv'
    BY OneProcessStep, CodesStep DEF Inv, CodeInv
  <2>3. ASSUME faults' = 0 PROVE faults = 0
    BY <2>3, FaultsGrow DEF Inv
  <2>4. ASSUME faults' = 0 PROVE Drained'
    BY <2>3, <2>4, DrainedStep DEF Inv, CodeInv
  <2>5. ASSUME faults' = 0, Prompt PROVE OutputComplete'
    BY <2>3, <2>5, OutputStep DEF Inv
  <2> QED
    BY <2>1, <2>2, <2>4, <2>5 DEF Inv
<1> QED
  BY <1>1, <1>2, PTL DEF Spec

(* Every reachable state is well typed: no more is written than arrived,   *)
(* no more arrived than was sent, no more was sent than the window.        *)
THEOREM TypeCorrect == Spec => []TypeOK
<1>1. Inv => TypeOK
  BY DEF Inv, Types, Flags, Places, Counts, Messages, TypeOK
<1> QED
  BY <1>1, Invariance, PTL

(* Whatever fails, a code that RunExec returns uncancelled is the one of   *)
(* the command.                                                            *)
THEOREM CodesAreNotMadeUp == Spec => []CodeIsReal
<1>1. Inv => CodeIsReal
  BY DEF Inv, CodeInv, CodesAreReal, Real, CodeIsReal
<1> QED
  BY <1>1, Invariance, PTL

(* If the drains are long enough for what was published to arrive, then    *)
(* without lost connections the output is complete when the code is        *)
(* returned, for every window and every amount of output.                  *)
THEOREM OutputPrecedesCode == Prompt /\ Spec => []OutputComplete
<1>1. Inv /\ Prompt => OutputComplete
  BY DEF Inv, OutputComplete
<1>2. CASE Prompt
  <2>1. Inv => OutputComplete
    BY <1>1, <1>2
  <2> QED
    BY <2>1, Invariance, PTL
<1>3. CASE ~Prompt
  BY <1>3
<1> QED
  BY <1>2, <1>3


-----------------------------------------------------------------------------
(* What the two liveness properties rest on, proved as invariants.         *)

(* A running command can still be ended by others than itself: the device  *)
(* has its session, which a close message, the stale cleanup or a lost     *)
(* connection closes, or SIGKILL or the end of the context is on its way.  *)
(* When its session was closed between Add and Start, it has none of these *)
(* for ever; but a timeout in the open message always ends its context.    *)
CommandInReach ==
    process = "running" =>
        /\ ~late => serving \/ signalled \/ cancelled
        /\ limit = "long" => cancelled \/ TimerRuns

(* While nothing fails, a client that waits for the end of a command whose *)
(* run is over has the close message, or the message is under way.         *)
EndIsKnown ==
    /\ faults = 0
    /\ client \in {"opening", "running", "cancelled"}
    /\ run \in {"closing", "ended"}
    => closeCh # "none" \/ \E m \in CloseMessages : m \in toClient

(* A session closed before its process started has its context ended, or   *)
(* was closed too early to have one; the process is over before run comes  *)
(* to its deferred Close.                                                  *)
InReach ==
    /\ run = "none" => ~serving
    /\ run = "added" /\ ~late => serving
    /\ run = "starting" /\ ~serving => cancelled \/ late
    /\ run \in {"closing", "ended"} => process # "running"
    /\ run \in {"spawned", "reading", "waiting"} => process # "none"
    /\ CommandInReach

LEMMA InReachStep == ASSUME Types, OneProcess, InReach, [Next]_vars PROVE InReach'
<1> USE DEF Types, Places, OneProcess, InReach, CommandInReach, TimerRuns, Codes,
       CloseMessages, Statuses,
            clientVars, sessionVars, runVars
<1>0. ASSUME CloseSession, UNCHANGED <<run, process>> PROVE InReach'
  BY <1>0 DEF CloseSession, HasGroup
<1>1. CASE ClientStep
  <2>1. UNCHANGED <<sessionVars, runVars>>
    BY <1>1 DEF ClientStep, Open, ContextEnds, OpenFails, TakeAnswer, HearCancel,
         WriteData, TakeClose, DrainEnds, CancelTimeout, AckArrives, CloseArrives, DataArrives
  <2> QED
    BY <2>1
<1>2. CASE AddSession \/ StartSession
  BY <1>2 DEF AddSession, StartSession
<1>3. CASE StartFails \/ StartProcess \/ SetGroup
  BY <1>3 DEF StartFails, StartProcess, SetGroup
<1>4. CASE SendFrame \/ WriteFails \/ ReadEnds \/ Wait
  BY <1>4 DEF SendFrame, WriteFails, ReadEnds, Wait
<1>5. CASE RunEnds
  BY <1>5 DEF RunEnds, CloseSession
<1>6. CASE Produce \/ DeviceTimeout \/ DeviceAckArrives \/ DeviceAges
  BY <1>6 DEF Produce, DeviceTimeout, TimerRuns, DeviceAckArrives, DeviceAges
<1>7. CASE \E status \in Statuses : ProcessEnds(status)
  BY <1>7 DEF ProcessEnds
<1>8. CASE DeviceCloseArrives \/ DeviceStale \/ DeviceDisconnects
  BY <1>0, <1>8 DEF DeviceCloseArrives, DeviceStale, DeviceDisconnects
<1>9. CASE ClientDisconnects \/ \E end \in {"client", "device"} : Reconnect(end)
  BY <1>9 DEF ClientDisconnects, Reconnect
<1>10. CASE UNCHANGED vars
  BY <1>10 DEF vars
<1> QED
  BY <1>1, <1>2, <1>3, <1>4, <1>5, <1>6, <1>7, <1>8, <1>9, <1>10 DEF Next, RunStep, DeviceStep

LEMMA EndStep ==
    ASSUME Types, OneProcess, Drained, EndIsKnown, faults = 0, faults' = 0, [Next]_vars
    PROVE  EndIsKnown'
<1> USE DEF Types, Places, Messages, OneProcess, EndIsKnown, Codes, CloseMessages, Statuses,
            clientVars, sessionVars, runVars
<1>0. ASSUME UNCHANGED run, closeCh # "none" => closeCh' # "none" \/ client' = "returned",
             \A m \in CloseMessages : m \in toClient => m \in toClient',
             client' \in {"opening", "running", "cancelled"} =>
                client \in {"opening", "running", "cancelled"} \/ run = "none"
      PROVE  EndIsKnown'
  BY <1>0
<1>1. CASE Open
  <2>1. run = "none" /\ UNCHANGED run
    BY <1>1 DEF Open
  <2> QED
    BY <2>1
<1>2. CASE \/ ContextEnds \/ OpenFails \/ TakeAnswer \/ HearCancel \/ WriteData
           \/ TakeClose \/ DrainEnds \/ CancelTimeout \/ AckArrives \/ DataArrives
  BY <1>0, <1>2 DEF ContextEnds, OpenFails, Return, TakeAnswer, HearCancel, WriteData,
       TakeClose, DrainEnds, CancelTimeout, AckArrives, DataArrives
<1>3. ASSUME NEW m \in CloseMessages, CloseArrives(m) PROVE EndIsKnown'
  <2>1. /\ UNCHANGED <<run, client>>
        /\ client # "returned" => closeCh' # "none"
    BY <1>3 DEF CloseArrives
  <2> QED
    BY <2>1
<1>4. CASE StartFails \/ Wait
  <2>1. \E m \in CloseMessages : m \in toClient'
    BY <1>4 DEF StartFails, Wait, DeviceSays, ExitCode, Drained
  <2> QED
    BY <2>1
<1>5. CASE \/ AddSession \/ StartSession \/ StartProcess \/ SetGroup \/ SendFrame
           \/ WriteFails \/ ReadEnds
  <2>1. run' \notin {"closing", "ended"}
    BY <1>5 DEF AddSession, StartSession, StartProcess, SetGroup, SendFrame, WriteFails,
       ReadEnds
  <2> QED
    BY <2>1
<1>6. CASE RunEnds
  BY <1>6 DEF RunEnds
<1>7. CASE \E status \in Statuses : ProcessEnds(status)
  BY <1>0, <1>7 DEF ProcessEnds
<1>8. CASE \/ Produce \/ DeviceTimeout \/ DeviceCloseArrives \/ DeviceAckArrives
           \/ DeviceAges \/ DeviceStale
  BY <1>0, <1>8 DEF Produce, DeviceTimeout, TimerRuns, DeviceCloseArrives,
       DeviceAckArrives, DeviceSays,
       DeviceAges, DeviceStale
<1>9. CASE \/ ClientDisconnects \/ DeviceDisconnects
           \/ \E end \in {"client", "device"} : Reconnect(end)
  <2>1. CASE \E end \in {"client", "device"} : Reconnect(end)
    BY <1>0, <2>1 DEF Reconnect
  <2>2. CASE ClientDisconnects \/ DeviceDisconnects
    BY <2>2 DEF ClientDisconnects, DeviceDisconnects
  <2> QED
    BY <1>9, <2>1, <2>2
<1>10. CASE UNCHANGED vars
  BY <1>0, <1>10 DEF vars
<1> QED
  BY <1>1, <1>2, <1>3, <1>4, <1>5, <1>6, <1>7, <1>8, <1>9, <1>10 DEF Next, ClientStep,
     RunStep, DeviceStep

(* No command is out of reach, in whatever step from Start on its session  *)
(* was closed, and whatever was lost; one whose session was closed before  *)
(* (device.go:232-249) is in reach of its timeout alone: the part of       *)
(* CommandEnds that does not depend on the scheduler.                      *)
THEOREM NoCommandOutOfReach == Spec => []CommandInReach
<1>1. Init => InReach
  BY DEF Init, InReach, CommandInReach
<1>2. Inv /\ InReach /\ [Next]_vars => InReach'
  BY InReachStep DEF Inv, CodeInv
<1>3. InReach => CommandInReach
  BY DEF InReach
<1> QED
  BY <1>1, <1>2, <1>3, Invariance, PTL DEF Spec

(* While nothing fails, the message that ends RunExec is never lost on the *)
(* way to it, also when the command ends before RunExec took the answer to *)
(* its open message: the part of EndIsReported that does not depend on the *)
(* scheduler.                                                              *)
THEOREM EndIsNeverLost == Spec => []EndIsKnown
<1>1. Init => EndIsKnown
  BY DEF Init, EndIsKnown
<1>2. Inv /\ EndIsKnown /\ Inv' /\ [Next]_vars => EndIsKnown'
  <2> SUFFICES ASSUME Inv, EndIsKnown, [Next]_vars PROVE EndIsKnown'
    OBVIOUS
  <2>1. CASE faults' = 0
    <3>1. faults = 0
      BY <2>1, FaultsGrow DEF Inv
    <3> QED
      BY <2>1, <3>1, EndStep DEF Inv, CodeInv
  <2>2. CASE faults' # 0
    BY <2>2 DEF EndIsKnown
  <2> QED
    BY <2>1, <2>2
<1> QED
  BY <1>1, <1>2, Invariance, PTL DEF Spec

=============================================================================
