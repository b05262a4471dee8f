------------------------------ MODULE ExecLife ------------------------------
(***************************************************************************)
(* One command executed on a device: RunExec at the client (src/internal/  *)
(* client/client.go), ExecSession and its process at the device            *)
(* (src/internal/tunnel/session_exec.go), and what passes between them, in *)
(* any order.                                                              *)
(*                                                                         *)
(* Output is counted in frames: their order is ReorderBuffer's concern,    *)
(* their window DataStream's.  Here the window matters in one respect: the *)
(* device ignores the acks of exec sessions, so that Window frames are all *)
(* it sends.  The open message comes once (see TunnelSession for copies).  *)
(***************************************************************************)
EXTENDS Naturals

CONSTANTS Window,    \* FlowControlWindow, in frames
          MaxOut,    \* bound: frames of output the command produces
          MaxFaults, \* bound: lost connections
          Prompt,    \* what was published arrives before a drain's timer fires
          Brief      \* no command outlives StaleTimeout while its client waits

ASSUME ExecAssumption ==
    /\ Window \in Nat \ {0} /\ MaxOut \in Nat /\ MaxFaults \in Nat
    /\ Prompt \in BOOLEAN /\ Brief \in BOOLEAN

VARIABLES client,    \* where RunExec stands
          result,    \* what RunExec returned
          limit,     \* the deadline of RunExec's context: none, or one that is so
                     \* short that the open message, which counts seconds, carries
                     \* no timeout, or a long one
          ctxDone,   \* RunExec's context has ended (deadline or signal)
          known,     \* the client's manager has the session, which is not closed
          acked,     \* ackChans holds the open_ack
          closeCh,   \* the close message that the close channel holds or held
          arrived,   \* frames put into the client's DataCh
          written,   \* frames written to stdout
          serving,   \* the device's manager has the session, which is not closed
          touched,   \* the device's lastSeen is within StaleTimeout
          run,       \* where ExecSession.run stands
          cancelled, \* the context of the device's session has ended
          signalled, \* Close sent SIGINT, SIGKILL follows
          late,      \* the session was closed between Add and Start
          process,   \* the process, or its exit status
          out,       \* frames of output the process produced
          sent,      \* frames the device published
          toDevice,  \* messages under way to the device
          toClient,  \* control messages under way to the client
          up,        \* who is connected to the broker
          faults     \* faults so far

clientVars == <<client, result, limit, ctxDone, known, acked, closeCh, arrived, written>>
sessionVars == <<serving, touched, cancelled, signalled, late>>
runVars == <<run, process, out, sent>>
vars == <<clientVars, sessionVars, runVars, toDevice, toClient, up, faults>>

Codes == {"exit0", "exitN"}
CloseMessages == Codes \cup {"failed", "unknown"}
Statuses == {"ok", "fail", "int", "kill"}

TypeOK ==
    /\ client \in {"idle", "opening", "running", "cancelled", "draining", "finishing", "returned"}
    /\ result \in Codes \cup {"none", "error", "exit130"}
    /\ limit \in {"none", "short", "long"}
    /\ ctxDone \in BOOLEAN /\ known \in BOOLEAN /\ acked \in BOOLEAN
    /\ closeCh \in CloseMessages \cup {"none"}
    /\ sent \in 0 .. Window /\ arrived \in 0 .. sent /\ written \in 0 .. arrived
    /\ serving \in BOOLEAN /\ touched \in BOOLEAN
    /\ cancelled \in BOOLEAN /\ signalled \in BOOLEAN /\ late \in BOOLEAN
    /\ run \in {"none", "added", "starting", "spawned", "reading", "waiting", "closing", "ended"}
    /\ process \in Statuses \cup {"none", "running"}
    /\ out \in sent .. MaxOut
    /\ toDevice \subseteq {"open", "close", "ack"}
    /\ toClient \subseteq CloseMessages \cup {"ok"}
    /\ up \subseteq {"client", "device"}
    /\ faults \in 0 .. MaxFaults

Init ==
    /\ client = "idle" /\ result = "none"
    /\ limit \in {"none", "short", "long"} /\ ctxDone = FALSE
    /\ known = FALSE /\ acked = FALSE /\ closeCh = "none" /\ arrived = 0 /\ written = 0
    /\ serving = FALSE /\ touched = FALSE
    /\ cancelled = FALSE /\ signalled = FALSE /\ late = FALSE
    /\ run = "none" /\ process = "none" /\ out = 0 /\ sent = 0
    /\ toDevice = {} /\ toClient = {}
    /\ up = {"client", "device"} /\ faults = 0

-----------------------------------------------------------------------------
(* Operators named Mutant... are plausible bugs, kept for mutation testing *)
(* of the properties; the specification does not use them.                 *)

(* What an end publishes is lost while it is not connected. *)
ClientSays(m) == toDevice' = IF "client" \in up THEN toDevice \cup {m} ELSE toDevice
DeviceSays(m) == toClient' = IF "device" \in up THEN toClient \cup {m} ELSE toClient

(* RunExec returns; the deferred calls close and remove the session. *)
Return(r) == client' = "returned" /\ result' = r /\ known' = FALSE

Open ==
    /\ client = "idle"
    /\ IF "client" \in up
       THEN client' = "opening" /\ known' = TRUE /\ UNCHANGED result
       ELSE Return("error")
    /\ ClientSays("open")
    /\ UNCHANGED <<limit, ctxDone, acked, closeCh, arrived, written, sessionVars, runVars,
                   toClient, up, faults>>

(* The deadline passes, or a signal cancels the context. *)
ContextEnds ==
    /\ ~ctxDone
    /\ ctxDone' = TRUE
    /\ UNCHANGED <<client, result, limit, known, acked, closeCh, arrived, written, sessionVars,
                   runVars, toDevice, toClient, up, faults>>

(* No open_ack within openAckTimeout, or the context ended: the device is  *)
(* not told.                                                               *)
OpenFails ==
    /\ client = "opening"
    /\ Return("error")
    /\ UNCHANGED <<limit, ctxDone, acked, closeCh, arrived, written, sessionVars, runVars,
                   toDevice, toClient, up, faults>>

TakeAnswer ==
    /\ client = "opening" /\ acked
    /\ client' = "running"
    /\ UNCHANGED <<result, limit, ctxDone, known, acked, closeCh, arrived, written, sessionVars,
                   runVars, toDevice, toClient, up, faults>>

(* The context's end goes unnoticed while there is nothing to read. *)
MutantHearCancel ==
    /\ client = "running" /\ ctxDone /\ written < arrived
    /\ client' = "cancelled"
    /\ ClientSays("close")
    /\ UNCHANGED <<result, limit, ctxDone, known, acked, closeCh, arrived, written, sessionVars,
                   runVars, toClient, up, faults>>

HearCancel ==
    /\ client = "running" /\ ctxDone
    /\ client' = "cancelled"
    /\ ClientSays("close")
    /\ UNCHANGED <<result, limit, ctxDone, known, acked, closeCh, arrived, written, sessionVars,
                   runVars, toClient, up, faults>>

(* Write a frame; the total may have to be acknowledged (ackState.record). *)
(* A failed write or a failed publish of the ack ends RunExec.             *)
WriteData ==
    /\ client \in {"running", "cancelled", "draining", "finishing"} /\ written < arrived
    /\ \/ Return("error") /\ UNCHANGED <<written, toDevice>>
       \/ /\ written' = written + 1
          /\ UNCHANGED <<client, result, known, toDevice>>
       \/ /\ written' = written + 1
          /\ ClientSays("ack")
          /\ IF "client" \in up THEN UNCHANGED <<client, result, known>> ELSE Return("error")
    /\ UNCHANGED <<limit, ctxDone, acked, closeCh, arrived, sessionVars, runVars, toClient, up,
                   faults>>

(* The close message is returned at once, nothing is drained. *)
MutantTakeClose ==
    /\ client \in {"running", "cancelled"} /\ closeCh # "none"
    /\ Return(IF closeCh \in Codes THEN closeCh ELSE "error")
    /\ UNCHANGED <<limit, ctxDone, acked, closeCh, arrived, written, sessionVars,
                   runVars, toDevice, toClient, up, faults>>

TakeClose ==
    /\ client \in {"running", "cancelled"} /\ closeCh # "none"
    /\ client' = IF client = "running" THEN "draining" ELSE "finishing"
    /\ UNCHANGED <<result, limit, ctxDone, known, acked, closeCh, arrived, written, sessionVars,
                   runVars, toDevice, toClient, up, faults>>

(* execCloseResult without its case for an error. *)
MutantOutcome == IF closeCh \in Codes THEN closeCh ELSE "exit0"

(* execCloseResult; after a cancellation a close message without exit code *)
(* counts as 0.                                                            *)
Outcome ==
    IF closeCh \in Codes THEN closeCh
    ELSE IF client = "finishing" THEN "exit0" ELSE "error"

(* The timer of drainSessionData fires. *)
DrainEnds ==
    /\ client \in {"draining", "finishing"}
    /\ Prompt => written = arrived /\ (known => arrived = sent)
    /\ Return(Outcome)
    /\ UNCHANGED <<limit, ctxDone, acked, closeCh, arrived, written, sessionVars, runVars,
                   toDevice, toClient, up, faults>>

CancelTimeout ==
    /\ client = "cancelled"
    /\ Return("exit130")
    /\ UNCHANGED <<limit, ctxDone, acked, closeCh, arrived, written, sessionVars, runVars,
                   toDevice, toClient, up, faults>>

(* Messages reach the client: the open_ack; a close message (the channel   *)
(* is registered before the open message is sent and holds the first one); *)
(* a frame.                                                                *)
AckArrives ==
    /\ "client" \in up /\ "ok" \in toClient
    /\ toClient' = toClient \ {"ok"}
    /\ acked' = (acked \/ client = "opening")
    /\ UNCHANGED <<client, result, limit, ctxDone, known, closeCh, arrived, written, sessionVars,
                   runVars, toDevice, up, faults>>

(* The channel is registered when the open_ack was taken. *)
MutantCloseArrives(m) ==
    /\ "client" \in up /\ m \in toClient
    /\ toClient' = toClient \ {m}
    /\ closeCh' = IF client \notin {"opening", "returned"} /\ closeCh = "none" THEN m ELSE closeCh
    /\ UNCHANGED <<client, result, limit, ctxDone, known, acked, arrived, written, sessionVars,
                   runVars, toDevice, up, faults>>

CloseArrives(m) ==
    /\ "client" \in up /\ m \in toClient
    /\ toClient' = toClient \ {m}
    /\ closeCh' = IF client # "returned" /\ closeCh = "none" THEN m ELSE closeCh
    /\ UNCHANGED <<client, result, limit, ctxDone, known, acked, arrived, written, sessionVars,
                   runVars, toDevice, up, faults>>

DataArrives ==
    /\ "client" \in up /\ known /\ arrived < sent
    /\ arrived' = arrived + 1
    /\ UNCHANGED <<client, result, limit, ctxDone, known, acked, closeCh, written, sessionVars,
                   runVars, toDevice, toClient, up, faults>>

-----------------------------------------------------------------------------
(* The device. *)

(* handleOpen: Add the session to the manager, ... *)
AddSession ==
    /\ "device" \in up /\ "open" \in toDevice
    /\ toDevice' = toDevice \ {"open"}
    /\ serving' = TRUE /\ touched' = TRUE /\ run' = "added"
    /\ UNCHANGED <<clientVars, cancelled, signalled, late, process, out, sent, toClient, up,
                   faults>>

(* ... Start it (make its context, go run), although it may have been      *)
(* closed since, and answer.                                               *)
StartSession ==
    /\ run = "added"
    /\ run' = "starting" /\ DeviceSays("ok")
    /\ UNCHANGED <<clientVars, sessionVars, process, out, sent, toDevice, up, faults>>

(* run has set the process group. *)
HasGroup == process # "none" /\ run # "spawned"

(* The context is not cancelled when there is no process group yet. *)
MutantCloseSession ==
    /\ serving' = FALSE
    /\ late' = (late \/ (serving /\ run = "added"))
    /\ signalled' = (signalled \/ (serving /\ HasGroup))
    /\ UNCHANGED cancelled

(* ExecSession.Close, once per session: signal the process group, or, when *)
(* there is none, cancel the context, which before Start there is not      *)
(* either: then nothing is done, and no later Close does anything.         *)
CloseSession ==
    /\ serving' = FALSE
    /\ late' = (late \/ (serving /\ run = "added"))
    /\ signalled' = (signalled \/ (serving /\ HasGroup))
    /\ cancelled' = (cancelled \/ (serving /\ run # "added" /\ ~HasGroup))

(* cmd.Start: fails when the context has ended, and perhaps otherwise. *)
StartFails ==
    /\ run = "starting"
    /\ run' = "closing" /\ DeviceSays("failed")
    /\ UNCHANGED <<clientVars, sessionVars, process, out, sent, toDevice, up, faults>>

StartProcess ==
    /\ run = "starting" /\ ~cancelled
    /\ run' = "spawned" /\ process' = "running"
    /\ UNCHANGED <<clientVars, sessionVars, out, sent, toDevice, toClient, up, faults>>

SetGroup ==
    /\ run = "spawned"
    /\ run' = "reading"
    /\ UNCHANGED <<clientVars, sessionVars, process, out, sent, toDevice, toClient, up, faults>>

(* The window is not looked at. *)
MutantSendFrame ==
    /\ run = "reading" /\ sent < out /\ "device" \in up
    /\ sent' = sent + 1
    /\ UNCHANGED <<clientVars, sessionVars, run, process, out, toDevice, toClient, up, faults>>

(* The loop of run: a frame is published, or Write fails (the publish      *)
(* does; the context ends while the writer waits for its window).          *)
SendFrame ==
    /\ run = "reading" /\ sent < out /\ sent < Window /\ "device" \in up
    /\ sent' = sent + 1
    /\ UNCHANGED <<clientVars, sessionVars, run, process, out, toDevice, toClient, up, faults>>

WriteFails ==
    /\ run = "reading" /\ sent < out
    /\ IF sent < Window THEN "device" \notin up ELSE cancelled
    /\ run' = "waiting" /\ cancelled' = TRUE
    /\ UNCHANGED <<clientVars, serving, touched, signalled, late, process, out, sent, toDevice,
                   toClient, up, faults>>

ReadEnds ==
    /\ run = "reading" /\ process \in Statuses /\ sent = out
    /\ run' = "waiting"
    /\ UNCHANGED <<clientVars, sessionVars, process, out, sent, toDevice, toClient, up, faults>>

(* signalExitCode: SIGINT and SIGTERM count as 0, SIGKILL as 137. *)
ExitCode == IF process \in {"ok", "int"} THEN "exit0" ELSE "exitN"

(* Wait prefers the context's error to a good exit. *)
Wait ==
    /\ run = "waiting" /\ process \in Statuses
    /\ run' = "closing"
    /\ \/ DeviceSays(ExitCode)
       \/ process = "ok" /\ cancelled /\ DeviceSays("failed")
    /\ UNCHANGED <<clientVars, sessionVars, process, out, sent, toDevice, up, faults>>

(* The deferred Close of run. *)
RunEnds ==
    /\ run = "closing"
    /\ run' = "ended" /\ CloseSession
    /\ UNCHANGED <<clientVars, touched, process, out, sent, toDevice, toClient, up, faults>>

(* The process: it writes, it exits (also upon SIGINT, which it may handle *)
(* or ignore), it is killed by SIGKILL or by the end of the context.       *)
Produce ==
    /\ process = "running" /\ out < MaxOut
    /\ out' = out + 1
    /\ UNCHANGED <<clientVars, sessionVars, run, process, sent, toDevice, toClient, up, faults>>

ProcessEnds(status) ==
    /\ process = "running"
    /\ status = "int" => signalled
    /\ status = "kill" => signalled \/ cancelled
    /\ process' = status
    /\ UNCHANGED <<clientVars, sessionVars, run, out, sent, toDevice, toClient, up, faults>>

(* The timeout of the open message, which runs from Start on. *)
TimerRuns == limit = "long" /\ run \notin {"none", "added", "ended"}

DeviceTimeout ==
    /\ TimerRuns /\ ~cancelled
    /\ cancelled' = TRUE
    /\ UNCHANGED <<clientVars, serving, touched, signalled, late, runVars, toDevice, toClient, up,
                   faults>>

DeviceCloseArrives ==
    /\ "device" \in up /\ "close" \in toDevice
    /\ toDevice' = toDevice \ {"close"}
    /\ CloseSession
    /\ UNCHANGED <<clientVars, touched, runVars, toClient, up, faults>>

(* An ack: a sign of life, whose total the device does not use; or one of  *)
(* a session that has ended, which is rejected unless that was done a      *)
(* moment ago.                                                             *)
DeviceAckArrives ==
    /\ "device" \in up /\ "ack" \in toDevice
    /\ toDevice' = toDevice \ {"ack"}
    /\ touched' = (touched \/ serving)
    /\ UNCHANGED toClient \/ (~serving /\ DeviceSays("unknown"))
    /\ UNCHANGED <<clientVars, serving, cancelled, signalled, late, runVars, up, faults>>

(* StaleTimeout passes without a message; the stale cleanup. *)
DeviceAges ==
    /\ serving /\ touched
    /\ Brief => client = "returned"
    /\ touched' = FALSE
    /\ UNCHANGED <<clientVars, serving, cancelled, signalled, late, runVars, toDevice, toClient, up,
                   faults>>

DeviceStale ==
    /\ serving /\ ~touched
    /\ CloseSession
    /\ UNCHANGED <<clientVars, touched, runVars, toDevice, toClient, up, faults>>

-----------------------------------------------------------------------------
(* Lost connections: CloseAll at the end that lost it. *)
ClientDisconnects ==
    /\ faults < MaxFaults /\ faults' = faults + 1
    /\ "client" \in up /\ up' = up \ {"client"}
    /\ known' = FALSE
    /\ toClient' \in {toClient, {}}
    /\ UNCHANGED <<client, result, limit, ctxDone, acked, closeCh, arrived, written, sessionVars,
                   runVars, toDevice>>

DeviceDisconnects ==
    /\ faults < MaxFaults /\ faults' = faults + 1
    /\ "device" \in up /\ up' = up \ {"device"}
    /\ CloseSession
    /\ toDevice' \in {toDevice, {}}
    /\ UNCHANGED <<clientVars, touched, runVars, toClient>>

Reconnect(end) ==
    /\ end \notin up
    /\ up' = up \cup {end}
    /\ UNCHANGED <<clientVars, sessionVars, runVars, toDevice, toClient, faults>>

ClientStep ==
    \/ Open \/ ContextEnds \/ OpenFails \/ TakeAnswer \/ HearCancel
    \/ WriteData \/ TakeClose \/ DrainEnds \/ CancelTimeout
    \/ AckArrives \/ DataArrives \/ \E m \in CloseMessages : CloseArrives(m)

RunStep ==
    StartFails \/ StartProcess \/ SetGroup \/ SendFrame \/ WriteFails \/ ReadEnds \/ Wait \/ RunEnds

DeviceStep ==
    \/ AddSession \/ StartSession \/ RunStep
    \/ Produce \/ \E status \in Statuses : ProcessEnds(status)
    \/ DeviceTimeout \/ DeviceCloseArrives \/ DeviceAckArrives \/ DeviceAges \/ DeviceStale

Next ==
    \/ ClientStep \/ DeviceStep
    \/ ClientDisconnects \/ DeviceDisconnects
    \/ \E end \in {"client", "device"} : Reconnect(end)

(* Goroutines go on, timers fire, SIGKILL kills, what is under way to a    *)
(* connected end arrives.  No command has to end or to write by itself.    *)
Fairness ==
    /\ WF_vars(ContextEnds /\ limit # "none")
    /\ WF_vars(OpenFails \/ TakeAnswer) /\ WF_vars(HearCancel) /\ WF_vars(WriteData)
    /\ WF_vars(TakeClose) /\ WF_vars(DrainEnds) /\ WF_vars(CancelTimeout)
    /\ WF_vars(StartSession) /\ WF_vars(RunStep) /\ WF_vars(ProcessEnds("kill"))
    /\ WF_vars(DeviceTimeout) /\ WF_vars(DeviceAges) /\ WF_vars(DeviceStale)
    /\ WF_vars(AckArrives) /\ WF_vars(DataArrives) /\ WF_vars(DeviceCloseArrives)
    /\ \A m \in CloseMessages : WF_vars(CloseArrives(m))

Spec == Init /\ [][Next]_vars /\ Fairness

-----------------------------------------------------------------------------
(* An exit code that RunExec returns without having been cancelled is the  *)
(* one of the command, as signalExitCode reports it: it is not made up of  *)
(* a close message without one, nor of a command that has not ended.       *)
CodeIsReal ==
    ~ctxDone =>
        /\ result = "exit0" => process \in {"ok", "int"}
        /\ result = "exitN" => process \in {"fail", "kill"}

(* When RunExec returns the exit code of a close message, all output that  *)
(* the command produced (and the window let out) was written before,       *)
(* though the close message may have overtaken it, or been picked first.   *)
OutputComplete ==
    faults = 0 /\ closeCh \in Codes /\ result \in Codes =>
        written = sent /\ (sent = out \/ sent = Window)

(* RunExec returns when it is cancelled or has a deadline, whatever is     *)
(* lost.                                                                   *)
ClientReturns == (limit # "none" \/ ctxDone) /\ client = "opening" ~> client = "returned"

(* No command runs on without its client: the close message, the stale     *)
(* cleanup or the timeout ends it, in whatever step from Start on its      *)
(* session is closed.  When it was closed before, between Add and Start,   *)
(* nobody can end the command that Start then runs but the timeout of the  *)
(* open message, if it has one.                                            *)
CommandEnds ==
    client = "returned" /\ process = "running" /\ (~late \/ limit = "long")
        ~> process # "running"

(* While nothing fails, the end of a command whose output fits the window  *)
(* ends RunExec, also without a deadline.                                  *)
EndIsReported ==
    [](faults = 0) =>
        (client = "running" /\ process \in Statuses /\ out <= Window ~> client = "returned")
=============================================================================
