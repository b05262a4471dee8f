---------------------------- MODULE SessionLife ----------------------------
(***************************************************************************)
(* The life of one session object, from the goroutine that opens it to the *)
(* last of the goroutines it starts, at one end of the tunnel:             *)
(*                                                                         *)
(*   "dialled"   a TCPSession on a device (Device.handleOpen dials)        *)
(*   "shell"     a ShellSession on a device (a process on a terminal)      *)
(*   "accepted"  a TCPSession on a client (Client.handleTCPConn)           *)
(*   "socks"     the same behind a SOCKS5 handshake (handleSOCKS5Conn)     *)
(*                                                                         *)
(* The code is src/internal/tunnel/session_tcp.go and session_shell.go,    *)
(* src/internal/socks5/socks5.go and the openers in client.go and          *)
(* device.go.  Close may be called by every goroutine of the session and   *)
(* by a handler (a close message, CloseAll, the stale cleanup), at any     *)
(* time after the session was added to the manager, also before Start.     *)
(* The other end, the program at the near end and the connection to the    *)
(* broker do as they like.                                                 *)
(***************************************************************************)
EXTENDS Naturals, Sequences

CONSTANTS Kinds,      \* the kinds of session looked at
          MaxChunks,  \* reads the program at this end gives data for
          MaxIn,      \* payloads that come from the other end
          Window      \* chunks that may be unacknowledged

ASSUME SessionLifeAssumption ==
    /\ Kinds \subseteq {"dialled", "shell", "accepted", "socks"}
    /\ MaxChunks \in Nat /\ MaxIn \in Nat
    /\ Window \in Nat \ {0}

VARIABLES
    kind,
    opener,     \* where the goroutine that opens the session stands
    inMap,      \* the manager has the session
    hooked,     \* onClose is set
    ctx,        \* the session's context: "none" before Start, "live", "ended"
    cmd,        \* the client's command: its context is "live" or "ended"
    link,       \* the connection to the broker: "up", or "down" once lost
    once,       \* how far Close has come: it runs once
    endp,       \* the endpoint, a connection or a terminal: "none", "open", "closed"
    app,        \* the program at the endpoint: "none", "on", "eof" (it ended by
                \* itself), "reset" (its connection broke), "killed" (the shell)
    made, read, published, acked,  \* chunks the program wrote, the reader took,
                                   \* published, and the other end acknowledged
    sentIn, dataIn,                \* payloads sent to this end; those in dataCh
    toApp,      \* what was written to a SOCKS connection
    reader, writer, waiter,        \* the session's goroutines
    handler,    \* the handler that closes the session from outside
    told,       \* close messages published (or tried)
    late        \* Start came after Close had begun

opening == <<opener, inMap, hooked, late>>
data    == <<made, read, published, acked, sentIn, dataIn, toApp>>
world   == <<kind, cmd, link>>
vars    == <<kind, opener, inMap, hooked, ctx, cmd, link, once, endp, app, made, read,
             published, acked, sentIn, dataIn, toApp, reader, writer, waiter, handler,
             told, late>>

Shell  == kind = "shell"
Client == kind \in {"accepted", "socks"}

(* Each goroutine of a TCP session ends in its deferred Close; of a shell  *)
(* session only waitForExit does.                                          *)
AtEnd == IF Shell THEN "ended" ELSE "closing"

TypeOK ==
    /\ kind \in Kinds
    /\ opener \in {"greeting", "request", "dial", "add", "hook", "opening", "replying",
                   "start", "terminal", "process", "spawn", "ran", "gaveup", "refused"}
    /\ inMap \in BOOLEAN /\ hooked \in BOOLEAN /\ late \in BOOLEAN
    /\ ctx \in {"none", "live", "ended"}
    /\ cmd \in {"live", "ended"} /\ link \in {"up", "down"}
    /\ once \in {"no", "cancelled", "shut", "told", "done"}
    /\ endp \in {"none", "open", "closed"}
    /\ app \in {"none", "on", "eof", "reset", "killed"}
    /\ made \in 0..MaxChunks /\ read \in 0..made
    /\ published \in 0..read /\ acked \in 0..published
    /\ sentIn \in 0..MaxIn /\ dataIn \in 0..sentIn
    /\ toApp \in Seq({"method", "nomethod", "failure", "success", "data"})
    /\ reader \in {"none", "read", "write", "closing", "ended"}
    /\ writer \in {"none", "wait", "deliver", "closing", "ended"}
    /\ waiter \in {"none", "wait", "drain", "tell", "closing", "ended"}
    /\ handler \in {"idle", "closing", "ended"}
    /\ told \in 0..2

Init ==
    /\ kind \in Kinds
    /\ opener = CASE kind = "socks" -> "greeting" [] kind = "dialled" -> "dial"
                  [] OTHER -> "add"
    /\ endp = (IF Client THEN "open" ELSE "none")
    /\ app = (IF Client THEN "on" ELSE "none")
    /\ hooked = Client     \* the client sets the hook before Add
    /\ inMap = FALSE /\ late = FALSE
    /\ ctx = "none" /\ cmd = "live" /\ link = "up" /\ once = "no"
    /\ made = 0 /\ read = 0 /\ published = 0 /\ acked = 0
    /\ sentIn = 0 /\ dataIn = 0 /\ toApp = <<>>
    /\ reader = "none" /\ writer = "none" /\ waiter = "none"
    /\ handler = "idle" /\ told = 0

-----------------------------------------------------------------------------
(* Operators named Mutant... are plausible bugs, kept for mutation testing *)
(* of the properties; the specification does not use them.                 *)

(* The SOCKS5 handshake reads exactly the bytes of the greeting and of the *)
(* request, so what the program sends ahead stays in the connection.  It   *)
(* has no deadline: a program that says nothing keeps it waiting.          *)

ReplyTo(reply) == toApp' = (IF kind = "socks" THEN Append(toApp, reply) ELSE toApp)

(* The handler gives the connection up: it closes it, not the session.     *)
GiveUp ==
    /\ opener' = "gaveup"
    /\ endp' = (IF endp = "open" THEN "closed" ELSE endp)

Greeting ==
    /\ opener = "greeting"
    /\ \/ app # "reset" /\ opener' = "request" /\ ReplyTo("method") /\ UNCHANGED endp
       \/ app # "reset" /\ GiveUp /\ ReplyTo("nomethod")
       \/ GiveUp /\ UNCHANGED toApp      \* a wrong version, or the program has gone
    /\ UNCHANGED <<world, inMap, hooked, late, ctx, once, app, made, read, published,
                   acked, sentIn, dataIn, reader, writer, waiter, handler, told>>

Request ==
    /\ opener = "request"
    /\ \/ app # "reset" /\ opener' = "add" /\ UNCHANGED <<toApp, endp>>
       \/ app # "reset" /\ GiveUp /\ ReplyTo("failure")  \* no CONNECT, or an unknown address type
       \/ GiveUp /\ UNCHANGED toApp
    /\ UNCHANGED <<world, inMap, hooked, late, ctx, once, app, made, read, published,
                   acked, sentIn, dataIn, reader, writer, waiter, handler, told>>

-----------------------------------------------------------------------------
(* The openers.                                                            *)

Dial ==
    /\ opener = "dial"
    /\ \/ opener' = "add" /\ endp' = "open" /\ app' = "on"
       \/ opener' = "gaveup" /\ UNCHANGED <<endp, app>>
    /\ UNCHANGED <<world, inMap, hooked, late, ctx, once, data, reader, writer, waiter,
                   handler, told>>

(* Add fails only on a device, when the ID is taken (an open message that  *)
(* came twice).  The session that lost, and its connection, are dropped    *)
(* without being closed.                                                   *)
Add ==
    /\ opener = "add"
    /\ \/ inMap' = TRUE /\ opener' = (IF Client THEN "opening" ELSE "hook")
       \/ ~Client /\ opener' = "refused" /\ UNCHANGED inMap
    /\ UNCHANGED <<world, hooked, late, ctx, once, endp, app, data, reader, writer,
                   waiter, handler, told>>

SetHook ==
    /\ opener = "hook"
    /\ hooked' = TRUE /\ opener' = "start"
    /\ UNCHANGED <<world, inMap, late, ctx, once, endp, app, data, reader, writer,
                   waiter, handler, told>>

(* The success reply is forgotten.                                         *)
MutantAfterAck == "start"

(* What a client does with a successful open_ack.                          *)
AfterAck == IF kind = "socks" THEN "replying" ELSE "start"

(* sendOpen's outcome: the device agreed; or it refused, did not answer in *)
(* time, could not be asked, or the command ended.                         *)
Opened ==
    /\ opener = "opening"
    /\ \/ opener' = AfterAck /\ UNCHANGED <<inMap, endp, toApp>>
       \/ inMap' = FALSE /\ ReplyTo("failure") /\ GiveUp
    /\ UNCHANGED <<world, hooked, late, ctx, once, app, made, read, published, acked,
                   sentIn, dataIn, reader, writer, waiter, handler, told>>

(* The reply goes out before Start lets the tunnel's data through.         *)
Reply ==
    /\ opener = "replying"
    /\ \/ /\ endp = "open" /\ app # "reset"
          /\ ReplyTo("success") /\ opener' = "start"
          /\ UNCHANGED <<inMap, endp>>
       \/ /\ endp = "closed" \/ app = "reset"
          /\ inMap' = FALSE /\ GiveUp
          /\ UNCHANGED toApp
    /\ UNCHANGED <<world, hooked, late, ctx, once, app, made, read, published, acked,
                   sentIn, dataIn, reader, writer, waiter, handler, told>>

(* Start derives the session's context from the command's (client) or from *)
(* a context that never ends (device).  It does not ask whether the        *)
(* session was closed in the meantime.                                     *)
StartContext ==
    /\ opener = "start"
    /\ ctx' = (IF Client /\ cmd = "ended" THEN "ended" ELSE "live")
    /\ late' = (once # "no")
    /\ opener' = (IF Shell THEN "terminal" ELSE "spawn")
    /\ UNCHANGED <<world, inMap, hooked, once, endp, app, data, reader, writer, waiter,
                   handler, told>>

OpenTerminal ==
    /\ opener = "terminal"
    /\ \/ endp' = "open" /\ opener' = "process" /\ UNCHANGED inMap
       \/ inMap' = FALSE /\ opener' = "gaveup" /\ UNCHANGED endp
    /\ UNCHANGED <<world, hooked, late, ctx, once, app, data, reader, writer, waiter,
                   handler, told>>

(* The shell is started unless its context has ended or an error occurs;   *)
(* then Start closes the terminal and handleOpen removes the session.      *)
StartProcess ==
    /\ opener = "process"
    /\ \/ /\ ctx = "live" /\ app' = "on" /\ opener' = "spawn"
          /\ UNCHANGED <<inMap, endp>>
       \/ inMap' = FALSE /\ GiveUp /\ UNCHANGED app
    /\ UNCHANGED <<world, hooked, late, ctx, once, data, reader, writer, waiter,
                   handler, told>>

Spawn ==
    /\ opener = "spawn"
    /\ opener' = "ran"
    /\ reader' = "read" /\ writer' = "wait"
    /\ waiter' = (IF Shell THEN "wait" ELSE "none")
    /\ UNCHANGED <<world, inMap, hooked, late, ctx, once, endp, app, data, handler, told>>

-----------------------------------------------------------------------------
(* readFromConn and readFromPTY.                                           *)

(* A read that gave no bytes is passed on as well.                         *)
MutantRead ==
    /\ reader = "read"
    /\ endp = "open" /\ app # "reset" /\ read < MaxChunks
    /\ read' = read + 1 /\ reader' = "write"
    /\ UNCHANGED <<world, opening, ctx, once, endp, app, made, published, acked, sentIn,
                   dataIn, toApp, writer, waiter, handler, told>>

Read ==
    /\ reader = "read"
    /\ endp = "open" /\ app # "reset" /\ read < made
    /\ read' = read + 1 /\ reader' = "write"
    /\ UNCHANGED <<world, opening, ctx, once, endp, app, made, published, acked, sentIn,
                   dataIn, toApp, writer, waiter, handler, told>>

ReadEnds ==
    /\ reader = "read"
    /\ \/ endp = "closed" \/ app = "reset"
       \/ app \in {"eof", "killed"} /\ read = made
    /\ reader' = AtEnd
    /\ UNCHANGED <<world, opening, ctx, once, endp, app, data, writer, waiter, handler, told>>

HasWindow == published - acked < Window

(* SequenceWriter.Write looks at the window first: it publishes also when  *)
(* the context has ended.                                                  *)
Publish ==
    /\ reader = "write" /\ HasWindow
    /\ published' = published + 1 /\ reader' = "read"
    /\ UNCHANGED <<world, opening, ctx, once, endp, app, made, read, acked, sentIn, dataIn,
                   toApp, writer, waiter, handler, told>>

PublishFails ==
    /\ reader = "write"
    /\ \/ ~HasWindow /\ ctx = "ended"
       \/ HasWindow /\ link = "down"
    /\ reader' = AtEnd
    /\ UNCHANGED <<world, opening, ctx, once, endp, app, data, writer, waiter, handler, told>>

-----------------------------------------------------------------------------
(* writeToConn and writeToPTY.  The select takes either ready case.        *)

Take ==
    /\ writer = "wait" /\ dataIn > 0
    /\ dataIn' = dataIn - 1 /\ writer' = "deliver"
    /\ UNCHANGED <<world, opening, ctx, once, endp, app, made, read, published, acked,
                   sentIn, toApp, reader, waiter, handler, told>>

(* A TCP program that has closed its own sending side still reads; it may  *)
(* also not read at all, and keep the writer waiting.                      *)
Deliver ==
    /\ writer = "deliver"
    /\ endp = "open" /\ app \in (IF Shell THEN {"on"} ELSE {"on", "eof"})
    /\ ReplyTo("data") /\ writer' = "wait"
    /\ UNCHANGED <<world, opening, ctx, once, endp, app, made, read, published, acked,
                   sentIn, dataIn, reader, waiter, handler, told>>

DeliverFails ==
    /\ writer = "deliver"
    /\ endp = "closed" \/ app \in {"reset", "killed"} \/ (Shell /\ app = "eof")
    /\ writer' = AtEnd
    /\ UNCHANGED <<world, opening, ctx, once, endp, app, data, reader, waiter, handler, told>>

WriterStops ==
    /\ writer = "wait" /\ ctx = "ended"
    /\ writer' = AtEnd
    /\ UNCHANGED <<world, opening, ctx, once, endp, app, data, reader, waiter, handler, told>>

-----------------------------------------------------------------------------
(* waitForExit: the shell's exit code follows its last output.             *)

(* exec.CommandContext kills the shell when the session's context ends.    *)
Kill ==
    /\ Shell /\ app = "on" /\ ctx = "ended"
    /\ app' = "killed"
    /\ UNCHANGED <<world, opening, ctx, once, endp, data, reader, writer, waiter, handler, told>>

Reap ==
    /\ waiter = "wait" /\ app \in {"eof", "killed"}
    /\ waiter' = "drain"
    /\ UNCHANGED <<world, opening, ctx, once, endp, app, data, reader, writer, handler, told>>

(* waitForExit does not wait for readDone.                                 *)
MutantDrained == TRUE

Drained == reader = "ended"

AwaitReader ==
    /\ waiter = "drain" /\ Drained
    /\ waiter' = "tell"
    /\ UNCHANGED <<world, opening, ctx, once, endp, app, data, reader, writer, handler, told>>

TellExit ==
    /\ waiter = "tell"
    /\ told' = told + 1 /\ waiter' = "closing"
    /\ UNCHANGED <<world, opening, ctx, once, endp, app, data, reader, writer, handler>>

-----------------------------------------------------------------------------
(* Close.  The first caller runs it, the others wait until it has run.     *)

Closing == "closing" \in {reader, writer, waiter, handler}

(* Close leaves the context alone.                                         *)
MutantCancel == ctx

(* cancel is nil before Start.                                             *)
Cancel == IF ctx = "live" THEN "ended" ELSE ctx

CloseCancels ==
    /\ once = "no" /\ Closing
    /\ once' = "cancelled" /\ ctx' = Cancel
    /\ UNCHANGED <<world, opening, endp, app, data, reader, writer, waiter, handler, told>>

(* The reorder buffer takes nothing more, the endpoint is closed if there  *)
(* is one: ptmx is nil until Start has opened it.                          *)
CloseShuts ==
    /\ once = "cancelled"
    /\ once' = "shut"
    /\ endp' = (IF endp = "open" THEN "closed" ELSE endp)
    /\ UNCHANGED <<world, opening, ctx, app, data, reader, writer, waiter, handler, told>>

(* Close of a shell session tells the other end too.                       *)
MutantCloseMessages == 1

CloseMessages == IF Shell THEN 0 ELSE 1

CloseTells ==
    /\ once = "shut"
    /\ once' = "told" /\ told' = told + CloseMessages
    /\ UNCHANGED <<world, opening, ctx, endp, app, data, reader, writer, waiter, handler>>

CloseHook ==
    /\ once = "told"
    /\ once' = "done"
    /\ inMap' = (inMap /\ ~hooked)
    /\ UNCHANGED <<world, opener, hooked, late, ctx, endp, app, data, reader, writer,
                   waiter, handler, told>>

CloseReturns ==
    /\ once = "done"
    /\ \/ reader = "closing" /\ reader' = "ended" /\ UNCHANGED <<writer, waiter>>
       \/ writer = "closing" /\ writer' = "ended" /\ UNCHANGED <<reader, waiter>>
       \/ waiter = "closing" /\ waiter' = "ended" /\ UNCHANGED <<reader, writer>>
    /\ UNCHANGED <<world, opening, ctx, once, endp, app, data, handler, told>>

(* A close message, CloseAll or the stale cleanup, which takes the session *)
(* out of the map before it closes it; the others remove it afterwards.    *)
HandlerCloses ==
    /\ handler = "idle" /\ inMap
    /\ handler' = "closing"
    /\ inMap' \in BOOLEAN
    /\ UNCHANGED <<world, opener, hooked, late, ctx, once, endp, app, data, reader, writer,
                   waiter, told>>

HandlerReturns ==
    /\ handler = "closing" /\ once = "done"
    /\ handler' = "ended" /\ inMap' = FALSE
    /\ UNCHANGED <<world, opener, hooked, late, ctx, once, endp, app, data, reader, writer,
                   waiter, told>>

-----------------------------------------------------------------------------
(* The program, the other end, the command and the connection.             *)

AppWrites ==
    /\ app = "on" /\ made < MaxChunks
    /\ made' = made + 1
    /\ UNCHANGED <<world, opening, ctx, once, endp, app, read, published, acked, sentIn,
                   dataIn, toApp, reader, writer, waiter, handler, told>>

AppEnds ==
    /\ app = "on"
    /\ app' \in (IF Shell THEN {"eof"} ELSE {"eof", "reset"})
    /\ UNCHANGED <<world, opening, ctx, once, endp, data, reader, writer, waiter, handler, told>>

(* A payload reaches dataCh (Insert) while the session is known; once the  *)
(* buffer is closed its select may still pick dataCh.                      *)
Arrive ==
    /\ inMap /\ sentIn < MaxIn
    /\ sentIn' = sentIn + 1 /\ dataIn' = dataIn + 1
    /\ UNCHANGED <<world, opening, ctx, once, endp, app, made, read, published, acked,
                   toApp, reader, writer, waiter, handler, told>>

Ack ==
    /\ inMap /\ acked < published
    /\ acked' = acked + 1
    /\ UNCHANGED <<world, opening, ctx, once, endp, app, made, read, published, sentIn,
                   dataIn, toApp, reader, writer, waiter, handler, told>>

CommandEnds ==
    /\ Client /\ cmd = "live"
    /\ cmd' = "ended" /\ ctx' = (IF ctx = "none" THEN "none" ELSE "ended")
    /\ UNCHANGED <<kind, link, opening, once, endp, app, data, reader, writer, waiter,
                   handler, told>>

LinkLost ==
    /\ link = "up"
    /\ link' = "down"
    /\ UNCHANGED <<kind, cmd, opening, ctx, once, endp, app, data, reader, writer, waiter,
                   handler, told>>

Goroutines ==
    \/ Add \/ SetHook \/ Opened \/ Reply \/ StartContext \/ OpenTerminal \/ StartProcess \/ Spawn
    \/ Read \/ ReadEnds \/ Publish \/ PublishFails
    \/ Take \/ DeliverFails \/ WriterStops
    \/ Kill \/ Reap \/ AwaitReader \/ TellExit
    \/ CloseCancels \/ CloseShuts \/ CloseTells \/ CloseHook \/ CloseReturns \/ HandlerReturns

Others ==
    \/ Greeting \/ Request \/ Dial \/ Deliver
    \/ HandlerCloses \/ AppWrites \/ AppEnds \/ Arrive \/ Ack \/ CommandEnds \/ LinkLost

Next == Goroutines \/ Others

(* The goroutines run.  Of the others, only one thing is sure: the end     *)
(* that acknowledges nothing falls silent, and RunStaleCleanup closes a    *)
(* session that has not been heard of for StaleTimeout.                    *)
Fairness == WF_vars(Goroutines) /\ WF_vars(Ack \/ HandlerCloses)

Spec == Init /\ [][Next]_vars /\ Fairness

-----------------------------------------------------------------------------
Idle(g) == g \in {"none", "ended"}

Quiet ==
    /\ Idle(reader) /\ Idle(writer) /\ Idle(waiter)
    /\ endp # "open"
    /\ Shell => app # "on"

(* A session that was closed, that its opener gave up, or whose program    *)
(* has ended, ends for good: no goroutine is left, the endpoint is closed, *)
(* the shell process is gone.  The exceptions are the code's: where Start  *)
(* came after Close had begun, nothing cancels the context.  Then of a TCP *)
(* session the connection is closed but the writer loop stays, and the     *)
(* reader if it waits for the window; a shell stays until it exits.        *)
EverythingEnds ==
    [](\/ once = "done" \/ opener = "gaveup"
       \/ opener = "ran" /\ app \in {"eof", "reset"}
       => <>[](Quiet \/ (late /\ (Shell \/ endp # "open"))))

(* While nothing interferes (no failed publish, no close from outside, no  *)
(* end of the command), a close message follows all the program's output:  *)
(* readFromConn publishes before its deferred Close, waitForExit waits for *)
(* readDone.                                                               *)
Undisturbed == link = "up" /\ handler = "idle" /\ cmd = "live" /\ app = "eof"

TailBeforeClose == told > 0 /\ Undisturbed => published = made

(* The other end is told once that a started session has ended: by Close   *)
(* (TCP), or by waitForExit with the exit code (shell) and not by Close.   *)
ToldOnce ==
    /\ told <= 1
    /\ opener = "ran" /\ once = "done" /\ Idle(waiter) => told = 1

(* A SOCKS client gets one final reply, the success before the tunnel's    *)
(* data, and nothing follows a failure.                                    *)
ReplyFirst ==
    \A i, j \in DOMAIN toApp :
        i < j => /\ toApp[i] \in {"method", "success", "data"}
                 /\ toApp[j] # "method"
                 /\ toApp[i] = "success" => toApp[j] = "data"
                 /\ toApp[i] = "data" => toApp[j] = "data"
                 /\ toApp[j] = "data" => toApp[2] = "success"

=============================================================================
