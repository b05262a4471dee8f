----------------------------- MODULE DataStream -----------------------------
(***************************************************************************)
(* One direction of a tunnel session, end to end: the SequenceWriter of    *)
(* the sending end, the broker, the ReorderBuffer and the consumer of the  *)
(* receiving end, and the acks that travel back.                           *)
(*                                                                         *)
(* The consumer is TCPSession.writeToConn, ShellSession.writeToPTY or the  *)
(* client's output loop with writeSessionData: the three do the same, take *)
(* a frame, write it out, and acknowledge the total written whenever a     *)
(* quarter of the window was written since the last ack.                   *)
(*                                                                         *)
(* Acks travel on the control topic and data on the data topic of the      *)
(* session, so they overtake each other; QoS 1 delivers each at least once *)
(* and keeps no order.  Closing either end publishes a close message that  *)
(* closes the other.                                                       *)
(***************************************************************************)
EXTENDS Integers, Sequences, FiniteSets

CONSTANTS SeqMod, Window, MaxPayload, ReadSizes, MaxBytes,  \* see SequenceWriter
          Size,          \* see ReorderBuffer
          AcksHonoured,  \* the sending end's ack handler reaches its FlowControl
          MaxAckFailures \* bound of the model: acks whose Publish fails

VARIABLES sentBytes, ackedBytes, notify, cancelled, pc, rest, seq, frame, published,
          buf, nextSeq, dataCh, closed, lock, hand, taken,
          inflight,    \* data frames not delivered yet
          consumer,    \* where the consumer stands
          written,     \* totalReceived: bytes it has written out
          lastAck,     \* the total it acknowledged last
          acks,        \* ack messages published
          newAcks,     \* those of them not delivered yet
          ackFailures  \* acks whose Publish failed

writerVars   == <<sentBytes, ackedBytes, notify, cancelled, pc, rest, seq, frame, published>>
bufferVars   == <<buf, nextSeq, dataCh, closed, lock, hand, taken>>
consumerVars == <<consumer, written, lastAck>>
ackVars      == <<acks, newAcks, ackFailures>>
vars == <<writerVars, bufferVars, inflight, consumerVars, ackVars>>

SW == INSTANCE SequenceWriter
RB == INSTANCE ReorderBuffer
        WITH Span <- MaxBytes, MaxFrames <- MaxBytes, sent <- Len(published)

AckInterval == Window \div 4

ASSUME StreamAssumption ==
    /\ SeqMod \in Nat \ {0} /\ MaxPayload \in Nat \ {0} /\ Size \in Nat \ {0}
    /\ ReadSizes \subseteq Nat \ {0} /\ MaxBytes \in Nat
    /\ Window \in Nat /\ AckInterval > 0
    /\ AcksHonoured \in BOOLEAN
    /\ MaxAckFailures \in Nat

TypeOK ==
    /\ SW!TypeOK
    /\ RB!TypeOK
    /\ consumer \in {"receive", "write", "stopped"}
    /\ written \in 0..MaxBytes
    /\ lastAck \in 0..written
    /\ newAcks \subseteq acks /\ acks \subseteq 1..MaxBytes
    /\ ackFailures \in 0..MaxAckFailures

Init ==
    /\ SW!Init
    /\ RB!Init
    /\ inflight = {}
    /\ consumer = "receive" /\ written = 0 /\ lastAck = 0
    /\ acks = {} /\ newAcks = {} /\ ackFailures = 0

-----------------------------------------------------------------------------
(* The sending end. *)
Write ==
    /\ \E n \in ReadSizes : SW!Read(n)
    /\ UNCHANGED <<bufferVars, inflight, consumerVars, ackVars>>

WriterStep ==
    /\ SW!CheckWindow \/ SW!EnterSelect \/ SW!Wake \/ SW!EncodeAndAddSent \/ SW!Publish
    /\ inflight' = inflight \cup (Len(published) + 1 .. Len(published'))
    /\ UNCHANGED <<bufferVars, consumerVars, ackVars>>

(* A cancelled context ends a wait for the window. *)
WaitCancelled ==
    /\ SW!WaitCancelled
    /\ UNCHANGED <<bufferVars, inflight, consumerVars, ackVars>>

(* The read loop ends, by end of file or by a failed Publish ... *)
WriterStops ==
    /\ SW!ReadFails \/ SW!PublishFails
    /\ UNCHANGED <<bufferVars, inflight, consumerVars, ackVars>>

(* ... which closes its session, as a close message, a write error of the  *)
(* session's other direction or CloseAll does at any moment.               *)
CloseSender ==
    /\ SW!Cancel
    /\ UNCHANGED <<bufferVars, inflight, consumerVars, ackVars>>

(* handleAck: UpdateFlowControl, for the sessions that have one. *)
HandleAck(a) ==
    /\ IF AcksHonoured THEN SW!UpdateAck(a) ELSE UNCHANGED writerVars
    /\ UNCHANGED <<bufferVars, inflight, consumerVars>>

AckArrives(a) ==
    /\ HandleAck(a)
    /\ newAcks' = newAcks \ {a}
    /\ UNCHANGED <<acks, ackFailures>>

-----------------------------------------------------------------------------
(* The receiving end: frames arrive, once or more often. *)
FrameArrives(i) ==
    /\ RB!Insert(i)
    /\ inflight' = inflight \ {i}
    /\ UNCHANGED <<writerVars, consumerVars, ackVars>>

InsertStep ==
    /\ RB!Pop \/ RB!Push \/ RB!Abort \/ RB!Unlock
    /\ UNCHANGED <<writerVars, inflight, consumerVars, ackVars>>

(* The frame is acknowledged as it is received, before it is written out. *)
MutantReceive ==
    /\ consumer = "receive"
    /\ RB!Receive
    /\ LET total == published[Head(dataCh)].to IN
         /\ lastAck' = total
         /\ acks' = acks \cup {total} /\ newAcks' = newAcks \cup {total}
    /\ consumer' = "write"
    /\ UNCHANGED <<writerVars, inflight, written, ackFailures>>

Receive ==
    /\ consumer = "receive"
    /\ RB!Receive
    /\ consumer' = "write"
    /\ UNCHANGED <<writerVars, inflight, written, lastAck, ackVars>>

LastTaken == published[taken[Len(taken)]]

(* An ack only once the window is all but used up. *)
MutantAckDue(total) == total - lastAck > Window - MaxPayload

AckDue(total) == total - lastAck >= AckInterval

(* The frame is written out and the total grows; when an ack is due it is  *)
(* published, and an error of that Publish is ignored, as at both ends of  *)
(* a TCP session; at the client of a shell or a command it ends the reader *)
(* (client.go:933-935; WriteData in ExecLife).                             *)
WriteOut ==
    /\ consumer = "write"
    /\ LET total == written + LastTaken.to - LastTaken.from IN
         /\ written' = total
         /\ IF AckDue(total)
            THEN /\ lastAck' = total
                 /\ \/ /\ acks' = acks \cup {total}
                       /\ newAcks' = newAcks \cup {total}
                       /\ UNCHANGED ackFailures
                    \/ /\ ackFailures < MaxAckFailures
                       /\ ackFailures' = ackFailures + 1
                       /\ UNCHANGED <<acks, newAcks>>
            ELSE UNCHANGED <<lastAck, acks, newAcks, ackFailures>>
    /\ consumer' = "receive"
    /\ UNCHANGED <<writerVars, bufferVars, inflight>>

(* The consumer of a closed session stops: its context is done, or its     *)
(* write fails.  Until then its select may still pick a frame.             *)
ConsumerStops ==
    /\ consumer # "stopped" /\ closed
    /\ consumer' = "stopped"
    /\ UNCHANGED <<writerVars, bufferVars, inflight, written, lastAck, ackVars>>

(* The receiving session is closed: its write failed, a close message or   *)
(* CloseAll.                                                               *)
CloseReceiver ==
    /\ RB!Close
    /\ UNCHANGED <<writerVars, inflight, consumerVars, ackVars>>

Next ==
    \/ Write \/ WriterStep \/ WaitCancelled \/ WriterStops \/ CloseSender
    \/ \E a \in acks : AckArrives(a)
    \/ \E i \in 1..Len(published) : FrameArrives(i)
    \/ InsertStep \/ Receive \/ WriteOut \/ ConsumerStops \/ CloseReceiver

(* Goroutines keep running and the consumer's writes return; the broker    *)
(* delivers what is published, the frames however often their handler      *)
(* finds the buffer's mutex held.  A read loop that ended closes its       *)
(* session, and the close message of one end reaches the other.            *)
Fairness ==
    /\ WF_vars(WriterStep)
    /\ WF_vars(InsertStep)
    /\ WF_vars(Receive) /\ WF_vars(WriteOut)
    /\ SF_vars(\E i \in inflight : FrameArrives(i))
    /\ WF_vars(\E a \in newAcks : AckArrives(a))
    /\ SF_vars(WaitCancelled)
    /\ WF_vars((pc = "stopped" \/ closed) /\ CloseSender)
    /\ WF_vars(cancelled /\ CloseReceiver)

Spec == Init /\ [][Next]_vars /\ Fairness

-----------------------------------------------------------------------------
(* The window holds end to end: what is acknowledged was written out, so   *)
(* all that lies between the two ends (in the network, in the reorder      *)
(* buffer, in dataCh) is at most one window, whatever becomes of the acks; *)
(* and a window of frames is within reach of the reorder buffer, so none   *)
(* is dropped as ErrBufferFull.                                            *)
WindowEndToEnd ==
    /\ ackedBytes <= written
    /\ sentBytes - written <= Window
    /\ ~closed => \A i \in 1..Len(published) : ~RB!TooFar(RB!WireSeq(i))

(* No deadlock of data and acks: a writer that waits for the window gets   *)
(* it, also when the acks come in late and out of order and MaxAckFailures *)
(* of them could not be published; or it stops, when an end is closed.     *)
WriterGoesOn == pc = "check" ~> pc \in {"publish", "stopped"}

(* Whatever was published is written out sooner or later, unless the       *)
(* receiving end is closed: no order of arrival, repetition or full dataCh *)
(* strands a frame.                                                        *)
EverythingArrives == []<>(closed \/ written = SW!PublishedBytes)

(* What these two rest on.  No frame is stranded: when nothing is under    *)
(* way and nobody holds a frame, all that was published has been written   *)
(* out.                                                                    *)
Busy == inflight # {} \/ lock \/ dataCh # <<>> \/ consumer = "write"

NothingStranded == ~closed /\ ~Busy => written = SW!PublishedBytes

(* And no standstill: a writer that finds no room waits for a frame that   *)
(* is still to be written out, or for an ack that is under way, not for an *)
(* ack that its peer sends only after more data.                           *)
NoStandstill ==
    AcksHonoured /\ ~closed /\ SW!Waiting /\ ~SW!CanSend(SW!Chunk) => Busy \/ newAcks # {}

(* The direction implements the byte stream it promises. *)
BS == INSTANCE ByteStream WITH
        produced  <- SW!PublishedBytes,
        delivered <- IF taken = <<>> THEN 0 ELSE LastTaken.to,
        whole     <- \A j \in DOMAIN taken : taken[j] = j,
        open      <- ~closed

ImplementsByteStream == BS!Spec
=============================================================================
