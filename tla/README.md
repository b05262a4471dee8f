# mqtt-forward: TLA+ models and proofs

This directory holds a TLA+ development of [mqtt-forward](../src/README.md), a
program that tunnels TCP connections, shells and commands over an MQTT broker.
A *client* opens sessions on a *device*; data frames, acknowledgements and
control messages travel as MQTT messages in both directions.

The modules are checked with TLC on small instances, and the `*Proofs` modules
hold theorems checked by TLAPS for every value of the constants.
`PROJECT.json` lists the runs, the mutants, the code each definition stands for,
the hazards and the findings.

## 1. The system

| Component | State | Operations | Meets |
|---|---|---|---|
| `SequenceWriter`, `FlowControl` (`tunnel/session.go`) | `seq`; `sentBytes`, `ackedBytes`, `blockedNotify` (a channel of one token) | `Write` (cut into chunks, wait for window, number, count, publish), `UpdateAck`, `WaitForWindow` | the session's read loop writes; the handler of acks updates; closing cancels |
| `ReorderBuffer` (`tunnel/session.go`) | `buf`, `nextSeq`, `dataCh` (bounded), `closeCh` | `Insert` (mutex held while it pushes), `Close` | one handler goroutine per message inserts, one consumer receives |
| `SessionManager` (`tunnel/session.go`) | `sessions`, `lastSeen`, one mutex | `Add`, `Get`, `Remove`, `Touch`, `CloseAll`, `cleanupStale` | handlers, sessions' own goroutines, connection events, the cleanup ticker |
| `TCPSession` (`tunnel/session_tcp.go`) | context, `closeOnce`, hook, the three above | `Start`, two loops, `Close`, `HandleData`, `sendAck` | its socket, the transport, the manager (through the hook) |
| `ShellSession` (`tunnel/session_shell.go`) | the same, a PTY and a process | `Start`, two loops, `waitForExit`, `Resize`, `Close` | as above |
| `ExecSession`, `ExecClientSession` (`tunnel/session_exec.go`) | process group; the client's end has no writer | `run`, `Close`, `sendClose` | as above |
| `Device` (`device/device.go`) | manager, `lastRejectedAt` | handlers of `open`, `close`, `ack`, `resize`, `ping`, data; throttled reject of unknown sessions | the client, by messages |
| `Client` (`client/*.go`) | manager, `ackChans`, `closeChs` | TCP forwards, SOCKS5, shell with keepalive, exec, ping, status | the device, by messages |
| `Gateway` (`gateway/gateway.go`) | a client per device, a mutex | `New` (checks the routes), `Run` (a group of clients), `CloseAllSessions` | clients, which share the transport; the event handler |
| `Subscribe`, `SubscribeAll` (`tunnel/transport.go`) | the router's filters | register; subscribe everything registered | clients, the device |
| `Parse`, `ParseAll` (`forward/forward.go`), `mergeGatewayRoutes` (`cmd/cmd.go`) | none | texts and flags to forwards and routes | the commands |
| SOCKS5 handshake (`socks5/socks5.go`) | none | `HandleHandshake`, `SendReply` | the client's handler of a local connection |
| `Reporter` (`shadow/`) | a trigger channel | `ReportNow`, `Run`, `handleGetAccepted` | the AWS IoT shadow service |
| health server, systemd, configuration, commands | next to none | `Run` of the health server; the commands put the parts together | |

What is hard here: handlers run concurrently and in any order; QoS 1 repeats
messages; windows, buffers and channels are bounded and block; a session is
closed from five places at once; either end, or the connection, may disappear
at any moment and the other must notice. What would make the parts correct:

* writer and flow control: never more outstanding than the window, no lost
  wake-up, no ack clamped below what was consumed, cancellation always works;
* reorder buffer: in order, once, nothing dropped that should not be, bounded,
  no deadlock between inserts, consumer and close;
* a direction as a whole: what goes in comes out, the writer is never starved;
* manager: no running session out of reach, no closed session in the map,
  no deadlock through the hook;
* one session object: every goroutine it started ends, the endpoint is closed,
  the process is gone; its output comes before the message that it ended, which
  is sent once; a SOCKS client gets its reply before the tunnel's data;
* the gateway: what the user wrote is what is listened on and where it goes; no
  connection is accepted before the topics are subscribed; a lost connection
  cuts off the sessions of every client; one failure ends everything;
* the protocol between client and device: no half-open session survives;
* exec: the exit code is the command's, its output comes before the code, no
  command outlives its client, the client always returns;
* the reporter: the document agrees with the device in the end, and then the
  updates stop.

`PROJECT.json` ("hazards") lists each such place with its line and the
properties about it, or why there is none yet.

## 2. Modules

| Module | Models | Composed of |
|---|---|---|
| `SequenceWriter` | `SequenceWriter` with its `FlowControl` | |
| `ReorderBuffer` | `ReorderBuffer`, concurrent `Insert`s, the channel and its consumer | |
| `ByteStream` | abstract: what one direction of a session promises | |
| `DataStream` | one direction end to end: writer, network, buffer, consumer, acks, both closes | instances of `SequenceWriter` and `ReorderBuffer`; refines `ByteStream` |
| `SessionManager` | the map, the hook, `closeOnce`, the five callers of `Close` | |
| `TunnelSession` | one session's life at the client and the device, messages, faults, timers | |
| `ExecLife` | one executed command: `RunExec`, `ExecSession.run`, its process, the messages between them | the writer's window and the hook only by their effect |
| `SessionLife` | one session object: its opener, its goroutines, `Close` from inside and outside, the SOCKS5 handshake | the other end, window and channel only by their effect |
| `Forwards` | pure: `-L` texts, route flags, their merge with the configuration, the grouping by device | |
| `Gateway` | the gateway's process: command, group of clients over one transport, health server, lost connections | extends `Forwards` |
| `ShadowReporter` | the reporter, the start of the device that makes it, the shadow service | |
| `SequenceWriterProofs`, `ReorderBufferProofs`, `DataStreamProofs`, `SessionManagerProofs`, `TunnelSessionProofs`, `ExecLifeProofs`, `SessionLifeProofs`, `GatewayProofs` | theorems | extend the module they are about |
| `MCSequenceWriter`, `MCReorderBuffer`, `MCDataStream`, `MCSessionManager`, `MCGateway` | constants for TLC | |

Operators named `Mutant...` are plausible bugs of the definition that follows
them; no specification uses them. Every property of a passing run is violated
when one of them replaces its definition (`PROJECT.json`, "mutants").

### SequenceWriter

`Write` runs through `pc`: `CheckWindow` is `CanSend`, `EnterSelect`/`Wake`/
`WaitCancelled` the `select` of `WaitForWindow`, `EncodeAndAddSent` numbers the
chunk and counts it, `Publish` sends it. They are separate actions because an ack
(`UpdateAck`) or a cancellation may come between any two. Bytes are positions in
the stream (`frame.from`, `frame.to`), so that the order and the cut of frames can be
stated without their content. `seq` is taken modulo `SeqMod` (a `uint32`).

### ReorderBuffer

`Insert` is a sequence of steps under the mutex `lock`: drop (duplicate, too
early, already held), keep the frame, then `Pop` the next in order and `Push` it
into `dataCh`, which blocks while the channel is full, or `Abort` when the
buffer is closed; `Unlock` ends it. `hand` is the frame between map and
channel. Frames are delivered in any order and repeatedly. `Span` bounds how far
a sender runs ahead of the consumer, which is what the window does in bytes.

### DataStream

Instances of the two, with `inflight` (data frames) and `acks`/`newAcks` (ack
messages) as sets from which anything may be delivered next and again. `Receive`
and `WriteOut` are the consumer loop common to `TCPSession.writeToConn`,
`ShellSession.writeToPTY` and the client's output loop; an ack is due after a
quarter of the window. `AcksHonoured = FALSE` is a sending end whose ack handler
ignores the session, which is what `Device.handleAck` does with an exec session.

### SessionManager

Each critical section is one action, except `CloseAll` and `cleanupStale`, which
collect under the mutex (`mu`), release it, and close one session after the
other: `EnterClose` is the first call of `Close` (`closeOnce`), `CallHook` its
end, `AlreadyClosed` a second call, which waits for the first. Opening is `Add`,
`SetOnClose`, `Start` in the device's order (a client sets the hook before `Add`,
a special case). A session's time in `lastSeen` is left out: any set of sessions
may be stale. Two constants say what the environment does:
`OpenDuringCleanup` (sessions are added while `CloseAll` runs) and
`LateDuplicates` (a copy of an open message is handled after the session it
opened has ended).

### TunnelSession

One session of a TCP forward, of SOCKS or of a shell (`mode`). The client goes idle,
opening, running, gone, or gaveUp, which is an end that tells nobody: no answer came
(`OpenTimeout`), or the SOCKS client was gone when it should have been told of the
success (`SuccessFails`, client.go:335-340, after which the handler removes the session
and sends no close message). `known` is its entry in the client's manager and
`answer` its `ackChans` channel. The device may have several open handlers
`dialing`, serves the session or not, and throttles its rejects. `heard` and
`touched` are the two `lastSeen` times compared with `StaleTimeout`. Messages
other than opens are sets (a repetition changes nothing there), opens are
counted because a repeated open matters. What an end publishes while it is
disconnected is lost. `ClientDisconnects` and `DeviceDisconnects` are the
`onConnectionLost` callbacks with their `CloseAll`, atomic here because
`SessionManager` models it in detail; `DeviceDies` loses all state.

### ExecLife

`client` is where `RunExec` stands: waiting for its answer, in the `select` of
its loop, in the loop after a cancellation, in one of the two drains, returned.
`closeCh` is the close channel, registered before the open message is sent, with
room for one message (what was taken stays there to be reported by `Outcome`).
The device opens the session in two steps, `AddSession` (the manager's `Add`) and
`StartSession` (`Start`), between which `Close` finds neither a process group nor a
context: it does nothing and is used up, and `Start` then runs a command whose
session nobody can close (`late`). `limit` is the deadline of `RunExec`: none, a long
one, which the open message carries as the command's timeout (`TimerRuns`,
`DeviceTimeout`), or a short one, under a second, which it sends as 0, no timeout.
`run` is where `ExecSession.run` stands; `spawned` is the moment between
`cmd.Start` and the assignment of the process group, in which `Close` cancels
the context instead of sending a signal. `process` becomes its exit status;
`ExitCode` is `signalExitCode`.

Output is counted in frames. The device ignores acks of exec sessions (run
`stream_exec`), so `Window` frames are all it ever sends; the rest of
the output stays in the writer. Two constants name what the environment does:
`Prompt` (what was published arrives before a drain's timer fires; half a second
or less in the code) and `Brief` (no command outlives the 60 s of `StaleTimeout`
while its client waits). `process` is the command's own shell; what it has started
in the background and left behind is not followed. Left out: copies of the open
message, a device that dies, a grandchild that keeps the output pipe open, and the second close message
of the deferred `CloseSession` (it says nothing new).

### SessionLife

`kind` chooses among the four ways a session comes about; `opener` is where the
goroutine stands that opens it: the handshake (`Greeting`, `Request`), `Dial`,
`Add`, `SetHook`, `Opened` (the outcome of `sendOpen`), `Reply`, then `Start` in
pieces (`StartContext`, `OpenTerminal`, `StartProcess`, `Spawn`), because a close
may come between any two. `reader` is `readFromConn` or `readFromPTY`, `writer`
`writeToConn` or `writeToPTY`, `waiter` `waitForExit`. Any of them, and one
`handler` (a close message, `CloseAll`, the stale cleanup), may call `Close`;
`once` is how far the one that runs has come: `CloseCancels`, `CloseShuts`,
`CloseTells`, `CloseHook`; the others return when it is done (`closeOnce`).
`late` records that `Start` came after `Close` had begun.

The other direction is a count (`dataIn`), the window a count of chunks without
acknowledgement: `SequenceWriter`, `ReorderBuffer` and `DataStream` look inside.
The program at the endpoint (`app`) writes, ends or breaks its connection as it
likes and need not read. `toApp` is what a SOCKS connection was sent.

### Forwards and Gateway

`Forwards` has no variables. A text is a sequence of tokens, the marks `:`, `[`
and `]` and words, so that the cuts of `Parse` (`SplitPort`, `SplitHost`,
`SplitTarget`, `SplitListen`, named as in the code) are kept and the characters
of a name are not. An operator that may fail returns the set of its result,
empty on an error. `Merge`, `Override` and `Added` are `mergeGatewayRoutes`,
`Acceptable` the checks of `gateway.New`, `ForDevice` the grouping, as the set of
places of a device's routes, which `Listen` takes in their order. `InOrder` stands
where `SelectSeq` would, whose definition by recursion the provers cannot unfold.

`Gateway` takes them through one process. `stage` is how far the command has come,
`outer` the context of its group and `inner` that of the clients' group. Each
client goes through `RunTCPForwards` (`phase`): `Register` hands its two filters to
the shared `router`, `SubscribeAll` reads the whole router (`todo`), `Subscribe`
subscribes one filter after the other at the `broker`, `Listen` opens one address after the
other, `Accept`, `StopListening`, and `CloseAll` in its two steps, `CloseSessions` and
`Return`. Clients are appended to
`Gateway.clients` before they start (`AppendClient`, `StartClient`). A lost
connection to the broker is an `event` the handler gets later; `CloseAllSessions`
copies the clients (`toClose`) and takes them one by one, each in the two steps of
`SessionManager.CloseAll`: `CloseClient` closes the sessions that are in the map,
`EmptyClient` replaces the map, while new connections are accepted and added. `at` says
where a connection is: with its handler, in its client's `map`, or `nowhere`, when it was
added between the two steps and so thrown out of the map without being closed. It is `old`
when it was in the map at the last loss. Left out: the life of
a session (`SessionLife`), the cleanup and the mutex of the map (`SessionManager`), the
retries of the library.

### ShadowReporter

`main` is how far the device command has come: the event handler finds no device
before `MakeDevice`, and its event is lost then. `trigger` is the reporter's
channel of one token, `gets` the requests under way, and each member of
`Replies` a reply whose handler reads the state (`current`) and publishes it
in separate steps, so that handlers overlap. `doc` is the reported section of the
document: a state, none (`Absent`), or one that does not decode (`Foreign`, an
object where a string is expected). An update leaves out the addresses
whose lookup failed, and the service keeps what an update leaves out (`Merged`).

## 3. Runs

| Run | Shows |
|---|---|
| `writer` | Acks of any value between any two steps of a writer. What is outstanding stays between nothing and the window, and a window granted is still open when it is used (`WindowRespected`); a waiting writer has a token when there is room (`NoLostWakeup`); frames cut the stream without gap, and no ack for what was published is ever clamped (`FramesPartitionStream`); a writer that waits goes on when there is room and returns when cancelled (`Released`). |
| `reorder` | Frames in any order, repeated, more than the buffer holds, closed at any moment: frames leave in order, and only duplicates are ignored (`InOrder`); the memory held is bounded (`TypeOK`); every `Insert` returns (`InsertReturns`). |
| `stream` | Everything under way stays within one window, and nothing falls out of the buffer when window and slots match (`WindowEndToEnd`); the writer never waits for ever although an ack may be lost (`WriterGoesOn`); what was published is written out (`EverythingArrives`); the direction implements `ByteStream` (`ImplementsByteStream`). |
| `stream_exec` (violation) | `WriterGoesOn` for the output of exec, whose acks the device ignores. |
| `sessions` | `NoOrphan`, `ClosedIsForgotten`, `CallsReturn` with all callers of `Close` at once. |
| `sessions_closeall` (violation) | `NoOrphan` when a session is added while `CloseAll` runs. |
| `tunnel` | Without faults the close of an end that tells its peer reaches it (`CloseReachesPeer`); with them no half-open session survives at the device nor, for TCP, at the client (`NoHalfOpen`), the keepalive ends a shell whose device stays away (`DeadRemoteDetected`), and typing into a session the device lost ends it (`TypingIsRejected`). |
| `tunnel_restart` (violation) | `RestartDetected`: a device that restarted answers the keepalive pings of an idle shell whose session it no longer has. |
| `exec` | One command with a lost connection anywhere. The exit code returned is the command's (`CodeIsReal`) and comes after its output (`OutputComplete`), whichever message overtakes which; `RunExec` returns when cancelled or out of time (`ClientReturns`), no command runs on without its client (`CommandEnds`; one whose session was closed between `Add` and `Start` has only the timeout of its open message, if any), and while nothing fails the end of a command is reported (`EndIsReported`). |
| `session_life` | A session of each kind, closed from inside and outside at any moment, also before `Start`. The program's output is published before the other end is told that it ended (`TailBeforeClose`), which happens once (`ToldOnce`); a SOCKS client gets one reply, before any data (`ReplyFirst`); no goroutine, open endpoint or shell process is left behind (`EverythingEnds`, with the exceptions its comment names). |
| `gateway` | Configurations and flags that agree, replace, add, repeat and leave out. What the user wrote is what is listened on and where connections go (`RoutesServed`); nothing is accepted before its device's topics are subscribed, by whichever client (`ReadyBeforeAccept`); a lost connection ends the sessions in the map of every client, the second loss too (`CutOff`); one failure, or the signal to stop, ends the process (`EndsTogether`). `ForwardsRead` compares `Parse` with what a text means (`ReadAsMeant`), on every text of up to six tokens and every text of the documented form. |
| `shadow` | A network that changes, a lookup that fails, two handlers at a time, a lost connection: a document that exists and decodes agrees with the device in the end (`DriftReported`) and the updates stop (`VersionSettles`). |

`TypeOK` of `DataStream` and of `ShadowReporter`, and `NothingStranded` and
`NoStandstill` of `DataStream`, are stated in the modules and are not in a run's list;
they hold on the instances of `stream` and `shadow`, and those of `DataStream`
are theorems.

The violations are disagreements between the code and what its documents or
comments say; `PROJECT.json` ("findings") quotes both.

### Bounds

* `writer`: window 4, payload 2, 7 bytes, reads of several sizes, 4 sequence
  numbers. A chunk is smaller than, equal to and larger than what is left of the
  window, reads are cut, `seq` wraps. 
* `reorder`: 2 slots and a channel of 2, 5 frames outstanding: frames too early,
  a full channel, two inserts waiting, each with a close.
* `stream`: window 4 (acks after 1 byte), frames of 1 or 2 bytes, 4 slots, 5
  bytes, one failed ack: the window is used up and comes back more than once, a
  lost ack is made up for, frames and acks overtake each other. The real numbers
  (256 KB, 64 KB, 64 slots) keep the proportions that matter: a payload is a
  quarter of the window, as is the interval of acks.
* `sessions`: two session objects under two IDs, or under one; every caller of
  `Close` may run again and again.
* `tunnel`: one session (sessions share only the manager and the connection),
  three misses as in the code, two copies of the open, two faults: enough for a
  lost connection of each end, or a restart during the consequences of another
  fault.
* `exec`: three frames of output with a window of two, so that a command ends,
  is cut off by the window, or is cancelled while the writer waits; one lost
  connection at either end, also between `Add` and `Start`. With a long deadline, a
  short one, and without.
* `session_life`: two chunks from the program with a window of one, so that the
  reader waits for an ack while anything else happens; one payload from the
  other end, which a program that does not read leaves in the writer's hands;
  one handler from outside (further ones wait for the same `closeOnce`).
* `gateway`: two addresses and two devices, five configurations with six lists of
  flags, but for two of the combinations that come to the same as others; both devices'
  clients, or one with two addresses; one connection; two losses of the broker, so that
  a session that the first one's `CloseAll` threw out of the map is there at the second;
  with and without a health server. Six tokens are the shortest text with every part
  but a bind address; longer ones are checked in the documented form, with literals in brackets.
* `shadow`: two values for the addresses and for the interfaces, any document
  at the start, two replies handled at a time, one change of the network (with
  or without a failing lookup) and one lost connection after it or before it.

`CHECK_DEADLOCK FALSE` is set in every run: a stream that was written out, a
session that has ended, really stop.

### Fairness

Only what Go's scheduler, mutexes and timers give. `SequenceWriter`: a goroutine
that can take its next step takes it (weak fairness), and a `select` that is
offered cancellation again and again takes it (strong: `select` chooses at
random). `ReorderBuffer` and `DataStream`: the steps under the mutex and the
consumer weakly, and strongly a handler that waits for the mutex (Go's mutex
hands over to waiters that starve). Messages published are delivered in the end
(QoS 1 on a connection that lasts; its loss closes the session). The peer's
close message arrives. Nobody has to read, to write or to close.
`SessionManager`: a call that has begun goes on (strongly, it needs the mutex).
`TunnelSession`: timers fire, started handlers go on, close messages and data
reach an end that is connected; a SOCKS reply may fail but need not. Nobody has to
send, to end or to reconnect; where that matters the property says so (`DeadRemoteDetected`,
`TypingIsRejected`). `ExecLife`: each goroutine's next step, the device's handler
from `Add` to `Start` among them, timers, deadlines, the command's timeout,
SIGKILL and the end of a context, delivery to a connected end; a command need
neither write nor end by itself. `SessionLife`: the goroutines run, and an end
that acknowledges nothing more is found by the stale cleanup
(`WF(Ack \/ HandlerCloses)`); the program need neither write, read nor end.
`Gateway`: the command, the event handler, the health server's end of its
context and each client's goroutines; nobody need connect, and a session need
not end by itself. `ShadowReporter`: the ticker, the loop, the
handlers and the service go on, and the library reconnects without limit.

## 4. Theorems

All from the constants' named assumptions, and from the hypotheses named here
where a theorem has any. Every invariant below was checked by TLC on an instance of
its module before it was proved.

Liveness under fairness is out of the prover's reach, but what a liveness property
takes in each state or step is not. For most of them there is a theorem about that
safety core, for every value of the constants: that nothing is lost on the way to
the end, that somebody has a step to take, or that each step of the scheduler
brings the end nearer and none puts it off. What is left to TLC is that a fair
scheduler takes these steps.

| Liveness (run) | Its safety core, as a theorem |
|---|---|
| `Released` (`writer`) | `WakeupsAreNotLost`: a writer that waits with room has a token |
| `EverythingArrives` (`stream`) | `NoFrameIsStranded`: a frame not written out is on its way or in somebody's hands |
| `WriterGoesOn` (`stream`) | `WriterNeverWaitsInVain`: a blocked writer waits for something that is under way |
| `CallsReturn` (`sessions`) | `NoCallDeadlocks`: no circle of waiting callers |
| `ClosedIsForgotten` (`sessions`) | `ClosedSessionsLeave`: a closed session is gone, or a call under way removes it |
| `NoHalfOpen` (`tunnel`) | `HalfOpenFadesAtDevice`, `HalfOpenFadesAtClient`: each firing of a timer brings the end nearer |
| `DeadRemoteDetected` (`tunnel`) | `MissedPingsAddUp`: no step takes a missed ping back |
| `CommandEnds` (`exec`) | `NoCommandOutOfReach`: a running process can be ended by somebody, a `late` one by its timeout |
| `EndIsReported` (`exec`) | `EndIsNeverLost`: the close message is there or under way |
| `EverythingEnds` (`session_life`) | `CloseReleases`: after `Close`, what the goroutines wait for has happened |
| `EndsTogether` (`gateway`) | `GatewayEndsInOrder`: until the command has exited somebody has a step, and no address stays open |

**SequenceWriterProofs.** `TypeCorrect` carries `Progressing` (while `Write` runs
there is data left; the frame being published ends where the count of sent
bytes ends), because neither the type of `rest` nor the frame's bounds are
inductive alone. `WindowIsRespected`, by type and by the fact that between
`CanSend` and `AddSent` only acks happen, which can only lower what is
outstanding. `WakeupsAreNotLost`: a state in which the writer waits, has room
and finds no token is never entered, as every ack leaves one. `StreamIsPartitioned`
keeps the frames and `sentBytes` in step, with the number of a frame equal to its
index modulo `SeqMod`; a frame is counted before it is published, hence no ack
for published bytes is clamped.

**ReorderBufferProofs.** `BufferIsBounded`: a frame is kept only within `Size`
of `nextSeq`, and the keys of the map stay there as `nextSeq` moves; so the
memory bound is part of the type. `FramesInOrder`
assumes `MaxFrames < SeqMod` (fewer frames than sequence numbers; with more,
the comparison `seq < nextSeq` takes a new frame for a duplicate). Its invariant `OrderInv` says that key `t`
of the map holds frame `t + 1` and that what was passed on (taken by the consumer,
in the channel, in hand) is an increasing sequence, complete up to `nextSeq` while
the buffer is open; a frame below `nextSeq` is therefore one that was passed on.

**TunnelSessionProofs.** `CloseReachesPeer` is not inductive: it has to be known
that an open handler cannot serve the session again later (`UsedUp`: whatever
follows from the open message comes after its only copy was used up) and what an
answer under way says about the device (`Answered`). `QuietStep` proves these
action by action for steps without a fault; a fault makes the claim void. The ends
that tell nobody (`gaveUp`, the client of a shell) are exempt, as the code has nobody
tell the device; what becomes of their sessions is `HalfOpenFadesAtDevice`.
`FewCopies` bounds the open handlers, for `TypeCorrect`.

With faults, `NoHalfOpen` is the claim, and its core is a rank. `DeviceRank` counts
what may still keep the session of a client that has left: whether it is served
and young, a frame under way, copies of the open message, faults to come.
`HalfOpenFadesAtDevice` is an action property: no step raises the rank (a frame
that makes the session young again was counted for more than that; what the
device itself sends counts for nothing) and each `DeviceAges` and `DeviceStale` lowers
it, so they fire a bounded number of times, at most 4 + 3 for each copy of the open
and 4 for each fault to come. `HalfOpenFadesAtClient` is the same for the client of a TCP session
the device does not serve, `MissedPingsAddUp` for the keepalive of a shell.

**ExecLifeProofs.** What `RunExec` returns is decided long after the process
ended, from a message that was under way in between. `Inv` therefore follows a
code from the process to the message, to the close channel and to the result
(`CodesAreReal`); that rests on `OneProcess`, since a status must not change once
it was reported. `OutputPrecedesCode` adds `Drained`: while nothing fails, the loop
of `run` is left only when everything was sent or the window is used up, and the
client's session stays open until `RunExec` returns. It is proved under
`Prompt`; without it the drain's timer may cut the output off. `CodeIsReal` and
the types hold whatever fails.

`NoCommandOutOfReach` (whatever fails): between `Start` of the process and its end
the session is in the device's map, where a close message, the stale cleanup or a lost
connection finds it, or its signal or the end of its context is on the way. The
hard part is a session closed in the middle of `run`'s start. A session closed before
that, between `Add` and `Start`, is `late`: of its command the theorem says only that
the timer runs, or its context has ended, if the open message carried a timeout. Without one nothing
can end it, and the claim is made of no more than the code does (section 5). `EndIsNeverLost` (while
nothing fails): from the end of `run` the close message is under way until the
client has it, in whatever step of `sendOpen` it comes.

**DataStreamProofs.** Bytes: `WindowOfBytes` has no hypothesis. `WriterInv` is
the writer's own invariant with the bound `MaxBytes`, `AckInv` says that acks name
only what was written out (`ackedBytes <= lastAck <= written`), so whatever
acks are late, repeated or lost, one window bounds all that is under way. It holds
also when the sequence numbers wrap. Frames: `Cut` says that the published
frames cut the stream into pieces of at least a byte, `BufferInv` that the
receiving end holds published frames only. What is in order (`OrderInv`, the
invariant of `ReorderBufferProofs` with the consumer's frame) and what is written
(`WrittenInv`) need `MaxBytes < SeqMod`: no more frames than there are sequence
numbers, as in section 5. Under it

* `WindowHoldsEndToEnd` turns the window of bytes into a number of frames. `Spaced(m)`:
  between the ends of two frames lie at least `m` bytes for each frame. That
  needs reads of at least `m` bytes, and reads that fit one payload, as otherwise
  the rest of a read may be one byte (`m = 1` needs neither). If the window is at most
  `m * Size` no frame is out of the buffer's reach. For the code's 256 KB and 64 slots
  this is `m` = 4 KB, and for smaller reads the claim is false (section 5), so the
  condition is the code's own limit and not one of the proof.
* `ByteStreamIsImplemented`: the initial states are those of `ByteStream` and each
  step is one of its steps or a stutter, action by action. What the refinement
  maps to `delivered`, the end of the last frame taken, moves only with `Receive`.

`TypeCorrect` is the type invariant under the same hypothesis (a stream that is
written out twice after a wrap would exceed `MaxBytes`).

Progress, under the hypotheses of `WindowHoldsEndToEnd`: `NoFrameIsStranded` says
that with nothing under way all that was published was written out. Each published
frame is accounted for (on its way, buffered, passed on), so that a gap nobody fills
does not arise, and what was written is the end of the last frame taken.
`WriterNeverWaitsInVain` adds the acks: what was written but not acknowledged is
less than an interval and a payload for each ack that failed, and one more (`AckDebt`); if the window
is at least `(MaxAckFailures + 1) * (AckInterval - 1 + MaxPayload)`, a writer without
room has a byte or an ack under way. TLC finds a standstill when the window is one
byte smaller. What this means for the code's numbers is in section 5.

**SessionManagerProofs.** `TypeCorrect` includes that `lastSeen` and the map have
the same keys. `RunningSessionsAreReached` is `NoOrphan`
when nothing is opened while `CloseAll` runs and no late copy of an open message is
handled. Neither can be dropped: run `sessions_closeall` loses a session without the
first, and section 5 says what happens without the second. `ReachInv` needs
six parts. An ID is used once (`IdUsedOnce`), hence removing by ID removes no other
session (`RemoveKeepsOthers`); the map and the callers' lists hold opened sessions
(`OnlyOpened`); a caller that has returned has nothing left (`NothingLeft`); a close
message removes its ID only after it closed the session (`PeerClosesFirst`); and
while `CloseAll` runs, the map holds only what it collected (`AllCollected`), so that
emptying it at the end loses nobody. `InReach` is `NoOrphan` from the moment of `Add`.

`NoCallDeadlocks` needs neither hypothesis: callers of `Close` meet in the manager's mutex
and in each session's `closeOnce`, and `onClose` calls `Remove`, which takes the
mutex, from inside the `Once`. `LockInv` says who holds what: the mutex only a caller
that collects, a `Once` only a caller at that session's hook. A caller
therefore waits for one that may go on, or for one that waits for the mutex of one
that may (`NoCircle`). `MayGo` is a formula, since the provers do not reason about
`ENABLED`; TLC confirms that it is the enabledness of the call's step.
`ClosedSessionsLeave`: of a session closed before its hook was set, the call that
removes it afterwards is still under way (`ListsInv`).

**SessionLifeProofs.** No hypotheses. `Started` relates the goroutines to where the
opener stands, `Counted` the output published to where the reader stands, and the
close messages to who may send one. With them `OtherEndToldOnce`: only
the call that won `closeOnce` and `waitForExit` tell, and never both.
`TailComesBeforeClose` rests on `TailInv`: as long as nothing interferes
(`Calm`), each sign that the session is over, a goroutine that has ended, a
cancelled context, a closed endpoint, has one cause, an end of the program's output
that the reader has published. `OneFinalReply` follows the reply to a SOCKS client
through the opener's stations (`Replies`). `CloseReleases`: once `Close` has run, the
context has ended and the endpoint is closed, also when `Close` came in the middle of
`Start`; the one exception, a `Start` after `Close` had begun, is the known limit of
section 5, and `ReleaseInv` shows that there is no other.

**GatewayProofs.** No hypotheses: any inputs, any number of routes, devices,
connections and losses, where the run has two addresses, two devices, one
connection and two losses. The parts of `Inv`:

* `PlanInv`: the plan is made of the input, and clients exist only when
  `gateway.New` accepted it. Its addresses are then unique, so that no two
  clients own an address (`OwnAddresses`) and a connection belongs to the device
  of its route (`AcceptedByOwner`). This is used wherever a
  connection is spoken of.
* `StartInv`: a client starts once. `FilterInv`: whatever the other clients do to
  the router and the broker, what a client in `SubscribeAll` has not yet subscribed of
  its own filters is on its list. Hence `SubscribedBeforeAccept`.
* `ListenInv`, `ConnInv`: a client that serves listens on all its addresses, which no
  failing client closes; a connection's client got as far as serving. Hence
  `RoutesAreServed`, with lemma `PlanIsMeant` about the merge.
* `OldInv`: a session that was in its client's map at the last loss still has the event
  handler before it, and its client is on the handler's list once that was copied.
  `EventInv`: the client whose map is about to be replaced is off that list, so that what
  `EmptyClient` throws out came after the loss. `DrainInv`: the other `CloseAll`, of a
  client that stops, runs only when the clients' context has ended. `OrphanInv`: nothing
  else puts a session out of reach. Hence `OldSessionsAreCut`, whatever number of losses;
  it says nothing of a session that an earlier `CloseAll` threw out (section 5).

`PlanIsMeant` and `PlannedDevices` are about data of any length. The induction this
takes is `AllNaturals`, about sets of numbers instead of predicates, derived from the
well-foundedness of finite sets; with it `Max` and `InOrder` do what they should
(`GreatestExists`, `OrderExists`, `InOrderLists`), and `MergedRoutes` says which
routes a plan consists of. The theorems assume of the inputs only that they are
sequences of routes and of flags.

How the command ends (`EndInv`, on top of `Inv`): an address is listened on by a client
that is listening or serving, and closes it when it fails or stops; the gateway returns
only when no client is left; a client that failed ends the command's group when the
gateway returns its error. `GatewayEndsInOrder` follows.

What `-L` texts mean, for any length: `ForwardsRead` compares `Parse` with the
documented form and with the words of a text outside it, and TLC does so for all
texts up to six tokens. `NoWordIsLost` is about a text of any length: wherever `Parse`
cuts it, the words of the parts are the words of the whole (`WordsOfConcatenation`,
`WordsOfParts`), and what it drops are marks (`MarksAreNoWords`). `DocumentedFormIsRead`
computes `Parse` on every text of the documented form for arbitrary ports and names:
`PortIsRead`, `BareHostIsRead` and `BracketedHostIsRead` say where the last colon
and the last bracket are. `ForwardsReadAlways` is the run's property from both.

Only model-checked: that fair schedulers reach what the liveness properties
promise; `InsertReturns`, `TypingIsRejected` and `ClientReturns`, which have no
theorem about their core (who waits there has his own timer, or a consumer, to go by);
the types of `ShadowReporter`, whose promises are liveness. `NoOrphan`, the order of
frames, progress and `ByteStream` are proved under the hypotheses above only; outside
of them they do not hold.

## 5. Not modelled

* The MQTT library, broker and sockets: external, seen through Publish (succeeds,
  fails, is lost) and delivery (any order, repeated).
* Parsing and formatting: topics, JSON, the bytes of SOCKS5, tables of ping and
  status.
* The configuration: read once, before anything runs; its routes are an input of
  `Gateway`.
* `ping` and `status`: `ping` sends one request at a time and waits for its
  answer or a timeout, the pattern of `sendOpen` in `TunnelSession`; the rest is
  arithmetic and layout.
* Resize of a terminal, PTY system calls, systemd notifications, the resolver:
  one call each, without state in the program. Of the health server only `Run`;
  its handlers read one flag.
* The drain of 100 ms after a shell's close message at the client: it has the
  form of `RunExec`'s drain in `ExecLife`.
* The device subscribes its filters one after another when it starts; the models
  begin with a subscribed device. (For clients `Gateway` has this order.)

Known limits, where a property is stated for less than one might expect because
the code does not do more:

* `VersionSettles` needs the lookup to succeed in the end. While it fails, the
  update leaves the addresses out, the service keeps the old ones, and every
  check finds a difference and publishes again.
* A device without a shadow document never makes the first one (the rejection of
  its get is not subscribed to), and one whose interfaces are an object is never
  replaced. The report at startup may be lost, so the first one may come with the
  first tick.
* A copy of the open message that comes after its session has ended executes the
  command, or opens the session, again.
* A session closed between `Add` and `Start` is started all the same: `Close` finds
  no context to cancel and, on a device, no terminal to close. Its writer loop
  stays for good (the reader too, if it waits for the window), a shell until it
  exits by itself (`late` in `EverythingEnds`), a command until the timeout of its open
  message ends its context, or until it exits by itself when there is no timeout
  (device.go:232-249, session_exec.go:184-199; `late` in `CommandEnds`).
* The end of a command's context kills its shell alone (`exec.CommandContext`), where
  `Close` signals the process group; what the shell had started is left running.
* A SOCKS client that disconnects before it is told of the success leaves its session
  open at the device, which nobody tells, until the stale cleanup (`SuccessFails`).
* A session added to a client's map while `CloseAll` runs is closed by nobody: not by
  this loss of the connection (run `sessions_closeall`) and not by a later one, since it
  is in no map (`nowhere` in `Gateway`). It ends with its connection.
* An open message that comes twice on a device dials twice; the session that
  finds its ID taken is dropped without closing its connection (`Add` in
  `SessionLife`, outcome `refused`).
* `handleClose` and a failed `Start` remove by ID. With `LateDuplicates = TRUE` a
  new session under the same ID loses its entry without being closed.
* A program that closes only its sending side ends the session in both
  directions: the close message may overtake what the other end still has to
  send. `TailBeforeClose` is about the direction that ended.
* A gap that is wider than the 64 slots is logged and the frame is dropped
  (`ErrBufferFull`); the session then waits for a frame that nobody repeats.
  `WindowHoldsEndToEnd` shows that this needs frames smaller than window / slots.
* An ack is published once, and nobody looks at the result (`sendAck`,
  `session_tcp.go:159-175`). The receiver acknowledges again after 64 KB more, which
  a writer without room never sends. With the code's window of 256 KB, interval of 64 KB and
  payload of 64 KB, one failed ack is made up for; a second may leave the session
  standing still until its stale cleanup (`WriterNeverWaitsInVain`).
* `signalExitCode` reports a command that died of SIGINT with exit code 0. The
  stale cleanup (for a command silent for a minute) and `CloseAll` interrupt the
  command in this way, so its client sees a success. `CodeIsReal` counts 0 for a
  process that was interrupted as the code does.
* Where the documents say something else: the gateway does not stop when the connection
  is lost (docs/usage.md:60-61), it closes all sessions and goes on (cmd.go:188-194), and
  `EndsTogether` does not count a loss as a failure; no session is torn down because a
  gap persists (docs/protocol.md:158), there is no timer for gaps; and the stale timeout
  is 60 seconds (protocol.go:27), not 5 minutes (docs/protocol.md:176). No property
  is about these.
* `mergeGatewayRoutes` lets a later `--route` flag for an address of the
  configuration replace an earlier one without a word; two flags for a new
  address are refused by `gateway.New`. `RoutesServed` is stated accordingly.
* The gateway's `listen` is handed to `net.Listen` as it is, where `-L` reads an
  empty bind address as localhost.
* `Parse` accepts some texts beyond the documented form (an unbracketed IPv6 bind
  address, `8080[::1]:80`); `ForwardsRead` says that it loses and moves no word.
* An accept loop whose listener keeps failing spins, and the SOCKS5 handshake has
  no deadline: a connection that says nothing keeps its handler.
* A direction that carries 2^32 frames loses the ones that overtake the wrap.
* Without a deadline the client of a lost exec session waits for ever; the
  command line always sets one, `RunExec` itself does not.

## 6. Plan

1. Done: `SequenceWriter`, `ReorderBuffer`, `DataStream`/`ByteStream`,
   `SessionManager`, `TunnelSession`, `ExecLife`, `ShadowReporter`, `SessionLife`,
   `Forwards`, `Gateway`; theorems for all of them but `ShadowReporter`, which cover
   every safety property of the runs and the safety core of most liveness
   properties.
2. Left: `TypeOK` of `ShadowReporter` as a theorem; a theorem that the clients' subscriptions
   to the broker only grow; a model of the device's own subscriptions at its start
   (section 5).
