--------------------------- MODULE TunnelSession ---------------------------
(***************************************************************************)
(* The life of one tunnel session across its two ends: the client that     *)
(* opens it (src/internal/client/client.go, client_shell.go), the device   *)
(* that serves it (src/internal/device/device.go), and the control and     *)
(* data messages between them, which arrive in any order.                  *)
(*                                                                         *)
(* The session is a TCP session, of RunTCPForwards ("tcp") or of RunSOCKS5 *)
(* ("socks"), with a stale cleanup at the client, or a shell, with         *)
(* keepalive pings instead.                                                *)
(* Bytes, acks and windows are left to DataStream, the goroutines that     *)
(* meet in a manager to SessionManager: "data" here is any frame or ack.   *)
(***************************************************************************)
EXTENDS Naturals

CONSTANTS Modes,      \* a subset of {"tcp", "socks", "shell"}
          MaxMisses,  \* sessionKeepaliveMaxMisses
          MaxCopies,  \* bound: copies of the open message under way
          MaxFaults   \* bound: lost connections, dead devices, repeated opens

ASSUME TunnelAssumption ==
    /\ Modes \subseteq {"tcp", "socks", "shell"}
    /\ MaxMisses \in Nat \ {0}
    /\ MaxCopies \in Nat \ {0}
    /\ MaxFaults \in Nat

VARIABLES mode,       \* the mode of the session
          client,     \* where the client stands
          known,      \* the client's manager has the session
          answer,     \* what the session's ackChans channel holds
          misses,     \* keepalive pings in a row without a pong
          heard,      \* the client's lastSeen is within StaleTimeout
          dialing,    \* open handlers of the device that are dialling
          serving,    \* the device's manager has the session, which runs
          touched,    \* the device's lastSeen is within StaleTimeout
          throttled,  \* the device rejected the session ID a moment ago
          opens,      \* copies of the open message under way
          toDevice,   \* other messages under way to the device
          toClient,   \* messages under way to the client
          up,         \* who is connected to the broker
          faults      \* faults so far

clientVars == <<client, known, answer, misses, heard>>
deviceVars == <<dialing, serving, touched, throttled>>
netVars == <<opens, toDevice, toClient>>
vars == <<mode, clientVars, deviceVars, netVars, up, faults>>

TypeOK ==
    /\ mode \in Modes
    /\ client \in {"idle", "opening", "running", "gone", "gaveUp"}
    /\ known \in BOOLEAN /\ heard \in BOOLEAN
    /\ answer \in {"none", "ok", "nack"}
    /\ misses \in 0 .. MaxMisses - 1
    /\ dialing \in 0 .. MaxCopies + MaxFaults
    /\ serving \in BOOLEAN /\ touched \in BOOLEAN /\ throttled \in BOOLEAN
    /\ opens \in 0 .. MaxCopies
    /\ toDevice \subseteq {"close", "data"}
    /\ toClient \subseteq {"ok", "nack", "close", "data"}
    /\ up \subseteq {"client", "device"}
    /\ faults \in 0 .. MaxFaults

Init ==
    /\ mode \in Modes
    /\ client = "idle" /\ known = FALSE /\ answer = "none"
    /\ misses = 0 /\ heard = FALSE
    /\ dialing = 0 /\ serving = FALSE /\ touched = FALSE /\ throttled = FALSE
    /\ opens = 0 /\ toDevice = {} /\ toClient = {}
    /\ up = {"client", "device"}
    /\ faults = 0

-----------------------------------------------------------------------------
(* Operators named Mutant... are plausible bugs, kept for mutation testing *)
(* of the properties; the specification does not use them.                 *)

(* What an end publishes is lost while it is not connected. *)
Sent(end, m) == IF end \in up THEN {m} ELSE {}
ClientSays(m) == toDevice' = toDevice \cup Sent("client", m)
DeviceSays(m) == toClient' = toClient \cup Sent("device", m)

(* The device is not told. *)
MutantTellDevice == UNCHANGED toDevice

(* Close at the client: TCPSession.Close tells the device,                 *)
(* ExecClientSession.Close (of shells) does not.                           *)
TellDevice == IF mode = "shell" THEN UNCHANGED toDevice ELSE ClientSays("close")

-----------------------------------------------------------------------------
(* The client. *)

(* Add and publish the open message; when that fails the handler gives up. *)
Open ==
    /\ client = "idle"
    /\ IF "client" \in up
       THEN client' = "opening" /\ known' = TRUE /\ heard' = TRUE /\ opens' = 1
       ELSE client' = "gaveUp" /\ UNCHANGED <<known, heard, opens>>
    /\ UNCHANGED <<mode, answer, misses, deviceVars, toDevice, toClient, up, faults>>

Gets(m) ==
    /\ m \in toClient /\ "client" \in up
    /\ toClient' = toClient \ {m}

(* The channel holds one answer, and is gone once the handler gave up. *)
AckArrives(m) ==
    /\ Gets(m)
    /\ answer' = IF client = "opening" /\ answer = "none" THEN m ELSE answer
    /\ UNCHANGED <<mode, client, known, misses, heard, deviceVars, opens, toDevice, up, faults>>

(* Start the session, or give it up; a session that was closed while it    *)
(* was opening ends as soon as it is started.                              *)
TakeAnswer ==
    /\ client = "opening" /\ answer # "none"
    /\ answer' = "none"
    /\ client' = IF answer = "ok" /\ known THEN "running" ELSE "gone"
    /\ known' = (answer = "ok" /\ known)
    /\ UNCHANGED <<mode, misses, heard, deviceVars, netVars, up, faults>>

(* The SOCKS client is gone when it shall be told of the success: the      *)
(* handler removes the session without closing it, and tells nobody.       *)
SuccessFails ==
    /\ mode = "socks" /\ client = "opening" /\ answer = "ok" /\ known
    /\ client' = "gaveUp" /\ known' = FALSE /\ answer' = "none"
    /\ UNCHANGED <<mode, misses, heard, deviceVars, netVars, up, faults>>

(* The device is not told. *)
OpenTimeout ==
    /\ client = "opening"
    /\ client' = "gaveUp" /\ known' = FALSE /\ answer' = "none"
    /\ UNCHANGED <<mode, misses, heard, deviceVars, netVars, up, faults>>

(* Close and forget the session; an open handler goes on waiting. *)
ClientCloses ==
    /\ known' = FALSE
    /\ client' = IF client = "running" THEN "gone" ELSE client

CloseArrives ==
    /\ Gets("close")
    /\ IF known THEN ClientCloses /\ TellDevice ELSE UNCHANGED <<client, known, toDevice>>
    /\ UNCHANGED <<mode, answer, misses, heard, deviceVars, opens, up, faults>>

DataArrives ==
    /\ Gets("data")
    /\ heard' = (heard \/ known)
    /\ UNCHANGED <<mode, client, known, answer, misses, deviceVars, opens, toDevice, up, faults>>

ClientSends ==
    /\ client = "running" /\ "client" \in up
    /\ ClientSays("data")
    /\ UNCHANGED <<mode, clientVars, deviceVars, opens, toClient, up, faults>>

(* The local connection ends, or the user leaves the shell. *)
ClientEnds ==
    /\ client = "running"
    /\ ClientCloses /\ TellDevice
    /\ UNCHANGED <<mode, answer, misses, heard, deviceVars, opens, toClient, up, faults>>

(* StaleTimeout passes without a message; the stale cleanup. *)
ClientAges ==
    /\ client = "running" /\ heard
    /\ heard' = FALSE
    /\ UNCHANGED <<mode, client, known, answer, misses, deviceVars, netVars, up, faults>>

ClientStale ==
    /\ mode # "shell" /\ client = "running" /\ ~heard
    /\ ClientCloses /\ TellDevice
    /\ UNCHANGED <<mode, answer, misses, heard, deviceVars, opens, toClient, up, faults>>

(* A keepalive ping of a shell: the device answers every ping, whether it  *)
(* knows the session or not.  A ping or pong may be lost or late.          *)
PingAnswered ==
    /\ mode = "shell" /\ client = "running" /\ up = {"client", "device"}
    /\ misses' = 0
    /\ UNCHANGED <<mode, client, known, answer, heard, deviceVars, netVars, up, faults>>

(* The misses are never counted up to the limit. *)
MutantPingMissed ==
    /\ mode = "shell" /\ client = "running"
    /\ misses' = (misses + 1) % MaxMisses
    /\ UNCHANGED <<mode, client, known, answer, heard, deviceVars, netVars, up, faults>>

(* One miss too many. *)
MutantPingLimit ==
    /\ mode = "shell" /\ client = "running"
    /\ IF misses + 1 > MaxMisses
       THEN ClientCloses /\ misses' = 0
       ELSE misses' = misses + 1 /\ UNCHANGED <<client, known>>
    /\ UNCHANGED <<mode, answer, heard, deviceVars, netVars, up, faults>>

PingMissed ==
    /\ mode = "shell" /\ client = "running"
    /\ IF misses + 1 >= MaxMisses
       THEN ClientCloses /\ misses' = 0
       ELSE misses' = misses + 1 /\ UNCHANGED <<client, known>>
    /\ UNCHANGED <<mode, answer, heard, deviceVars, netVars, up, faults>>

-----------------------------------------------------------------------------
(* The device. *)
OpenArrives ==
    /\ opens > 0 /\ "device" \in up
    /\ opens' = opens - 1 /\ dialing' = dialing + 1
    /\ UNCHANGED <<mode, clientVars, serving, touched, throttled, toDevice, toClient, up, faults>>

(* The dial fails, a PTY cannot be had. *)
Refuse ==
    /\ dialing > 0
    /\ dialing' = dialing - 1
    /\ DeviceSays("nack")
    /\ UNCHANGED <<mode, clientVars, serving, touched, throttled, opens, toDevice, up, faults>>

(* Add and Start the session; another copy of the open finds it there. *)
Serve ==
    /\ dialing > 0
    /\ dialing' = dialing - 1
    /\ IF serving THEN DeviceSays("nack") ELSE DeviceSays("ok")
    /\ serving' = TRUE /\ touched' = (touched \/ ~serving)
    /\ UNCHANGED <<mode, clientVars, throttled, opens, toDevice, up, faults>>

(* Close at the device; a shell's message is sent when its process is      *)
(* gone (waitForExit).                                                     *)
DeviceCloses == serving' = FALSE /\ DeviceSays("close")

DeviceGets(m) ==
    /\ m \in toDevice /\ "device" \in up
    /\ toDevice' = toDevice \ {m}

DeviceCloseArrives ==
    /\ DeviceGets("close")
    /\ IF serving THEN DeviceCloses ELSE UNCHANGED <<serving, toClient>>
    /\ UNCHANGED <<mode, clientVars, dialing, touched, throttled, opens, up, faults>>

(* No answer. *)
MutantReject == UNCHANGED <<throttled, toClient>>

(* A frame or ack of a session that is not known is answered with a close  *)
(* message, unless that was done a moment ago.                             *)
Reject ==
    IF throttled THEN UNCHANGED <<throttled, toClient>>
    ELSE throttled' = TRUE /\ DeviceSays("close")

DeviceDataArrives ==
    /\ DeviceGets("data")
    /\ IF serving THEN touched' = TRUE /\ UNCHANGED <<throttled, toClient>>
                  ELSE Reject /\ UNCHANGED touched
    /\ UNCHANGED <<mode, clientVars, dialing, serving, opens, up, faults>>

ThrottleExpires ==
    /\ throttled
    /\ throttled' = FALSE
    /\ UNCHANGED <<mode, clientVars, dialing, serving, touched, netVars, up, faults>>

(* Sending counts as a sign of life of the peer. *)
MutantDeviceSends ==
    /\ serving /\ "device" \in up
    /\ DeviceSays("data")
    /\ touched' = TRUE
    /\ UNCHANGED <<mode, clientVars, dialing, serving, throttled, opens, toDevice, up, faults>>

DeviceSends ==
    /\ serving /\ "device" \in up
    /\ DeviceSays("data")
    /\ UNCHANGED <<mode, clientVars, deviceVars, opens, toDevice, up, faults>>

(* The target closes its connection, the shell exits. *)
DeviceEnds ==
    /\ serving
    /\ DeviceCloses
    /\ UNCHANGED <<mode, clientVars, dialing, touched, throttled, opens, toDevice, up, faults>>

DeviceAges ==
    /\ serving /\ touched
    /\ touched' = FALSE
    /\ UNCHANGED <<mode, clientVars, dialing, serving, throttled, netVars, up, faults>>

DeviceStale ==
    /\ serving /\ ~touched
    /\ DeviceCloses
    /\ UNCHANGED <<mode, clientVars, dialing, touched, throttled, opens, toDevice, up, faults>>

-----------------------------------------------------------------------------
(* Faults. *)
Fault == faults < MaxFaults /\ faults' = faults + 1

(* QoS 1 delivers at least once: the open message comes once more. *)
RepeatOpen ==
    /\ Fault
    /\ opens \in 1 .. MaxCopies - 1
    /\ opens' = opens + 1
    /\ UNCHANGED <<mode, clientVars, deviceVars, toDevice, toClient, up>>

(* CloseAll; what it publishes is lost or comes through after the          *)
(* reconnect, what is under way to the client may be lost.                 *)
ClientDisconnects ==
    /\ Fault
    /\ "client" \in up /\ up' = up \ {"client"}
    /\ toClient' \in {toClient, {}}
    /\ ClientCloses
    /\ UNCHANGED toDevice \/ (known /\ TellDevice)
    /\ UNCHANGED <<mode, answer, misses, heard, deviceVars, opens>>

(* CloseAll at the device: the handlers that are dialling go on. *)
DeviceDisconnects ==
    /\ Fault
    /\ "device" \in up /\ up' = up \ {"device"}
    /\ \/ UNCHANGED <<opens, toDevice>>
       \/ opens' = 0 /\ toDevice' = {}
    /\ serving' = FALSE
    /\ UNCHANGED toClient \/ (serving /\ DeviceSays("close"))
    /\ UNCHANGED <<mode, clientVars, dialing, touched, throttled>>

DeviceDies ==
    /\ Fault
    /\ up' = up \ {"device"}
    /\ \/ UNCHANGED <<opens, toDevice>>
       \/ opens' = 0 /\ toDevice' = {}
    /\ serving' = FALSE /\ dialing' = 0 /\ throttled' = FALSE
    /\ UNCHANGED <<mode, clientVars, touched, toClient>>

(* A lost connection comes back; a device that died starts again. *)
Reconnect(end) ==
    /\ end \notin up
    /\ up' = up \cup {end}
    /\ UNCHANGED <<mode, clientVars, deviceVars, netVars, faults>>

-----------------------------------------------------------------------------
ClientStep ==
    \/ Open \/ TakeAnswer \/ SuccessFails \/ OpenTimeout \/ CloseArrives
    \/ DataArrives \/ \E m \in {"ok", "nack"} : AckArrives(m)
    \/ ClientSends \/ ClientEnds \/ ClientAges \/ ClientStale
    \/ PingAnswered \/ PingMissed

DeviceStep ==
    \/ OpenArrives \/ Refuse \/ Serve \/ DeviceCloseArrives \/ DeviceDataArrives
    \/ ThrottleExpires \/ DeviceSends \/ DeviceEnds \/ DeviceAges \/ DeviceStale

FaultStep ==
    \/ RepeatOpen \/ ClientDisconnects \/ DeviceDisconnects \/ DeviceDies
    \/ \E end \in {"client", "device"} : Reconnect(end)

Next == ClientStep \/ DeviceStep \/ FaultStep

(* Timers fire, started handlers go on, and what is under way to a         *)
(* connected end arrives.  Nobody has to send, to end or to reconnect.     *)
Timers ==
    /\ WF_vars(OpenTimeout) /\ WF_vars(TakeAnswer \/ SuccessFails)
    /\ WF_vars(ClientAges) /\ WF_vars(ClientStale)
    /\ WF_vars(PingAnswered \/ PingMissed)
    /\ WF_vars(Refuse \/ Serve)
    /\ WF_vars(DeviceAges) /\ WF_vars(DeviceStale) /\ WF_vars(ThrottleExpires)

Delivery == WF_vars(CloseArrives) /\ WF_vars(DeviceDataArrives)

Spec == Init /\ [][Next]_vars /\ Timers /\ Delivery

-----------------------------------------------------------------------------
ClientLeft == client \in {"gone", "gaveUp"}

(* While nothing fails, an end that closed the session is followed by the  *)
(* other: it has closed too or a close message is on its way.  Exempt are  *)
(* the ends that tell nobody ("gaveUp", and a shell's client): an open     *)
(* that timed out, and a SOCKS client that cannot be told of the success.  *)
CloseReachesPeer ==
    faults = 0 =>
        /\ mode # "shell" /\ client = "gone" /\ serving => "close" \in toDevice
        /\ client = "running" /\ ~serving => "close" \in toClient

(* No half-open session survives.  The device drops a session whose client *)
(* has left, however it left and whatever was lost, without the network's  *)
(* help: nothing the device does itself keeps such a session from its      *)
(* stale cleanup.  So does the client of a TCP session that the device     *)
(* does not serve any more (unless a late copy of the open message has it  *)
(* served again).                                                          *)
NoHalfOpen ==
    /\ ClientLeft /\ serving ~> ~serving
    /\ mode # "shell" /\ client = "running" /\ ~serving ~> client # "running" \/ serving

(* The keepalive of a shell detects that the device stays away.            *)
DeadRemoteDetected ==
    <>[]("device" \notin up) => (mode = "shell" => <>[](client # "running"))

(* A user who goes on typing into a shell that the device does not serve   *)
(* any more is told by the device's reject.                                *)
TypingIsRejected ==
    (<>[](up = {"client", "device"}) /\ []<>("data" \in toDevice))
        => (client = "running" /\ ~serving ~> client # "running" \/ serving)

(* The keepalive detects a device that restarted (comment at               *)
(* client.go:630), although the shell's user does not type.                *)
RestartDetected ==
    mode = "shell" /\ client = "running" /\ ~serving ~> client # "running" \/ serving
=============================================================================
