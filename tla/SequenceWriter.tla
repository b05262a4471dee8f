--------------------------- MODULE SequenceWriter ---------------------------
(***************************************************************************)
(* The sending half of a tunnel session: SequenceWriter.Write and the      *)
(* FlowControl it waits on (src/internal/tunnel/session.go).               *)
(*                                                                         *)
(* Two goroutines meet here.  The session's read loop (the writer, whose   *)
(* program counter is pc) cuts what it reads into frames of at most        *)
(* MaxPayload bytes, waits for the window, numbers the frame, counts it as *)
(* sent and publishes it.  The transport's handler goroutine calls         *)
(* UpdateAck, at any moment between two steps of the writer.               *)
(*                                                                         *)
(* A payload is the range of stream bytes it carries: a frame              *)
(* [seq, from, to] carries the bytes from+1 .. to of the stream.           *)
(***************************************************************************)
EXTENDS Integers, Sequences

CONSTANTS SeqMod,      \* wire sequence numbers are 0 .. SeqMod-1 (uint32)
          Window,      \* FlowControlWindow, in bytes
          MaxPayload,  \* MaxPayloadSize, in bytes
          ReadSizes,   \* the sizes one Read of the source may return
          MaxBytes     \* bound of the model: bytes the source produces

ASSUME WriterAssumption ==
    /\ SeqMod \in Nat \ {0}
    /\ Window \in Nat
    /\ MaxPayload \in Nat \ {0}
    /\ ReadSizes \subseteq Nat \ {0}
    /\ MaxBytes \in Nat

VARIABLES sentBytes,   \* FlowControl.sentBytes
          ackedBytes,  \* FlowControl.ackedBytes
          notify,      \* a token is buffered in blockedNotify (capacity 1)
          cancelled,   \* the session's context is done
          pc,          \* where the writer stands
          rest,        \* len(data): what Write still has to send
          seq,         \* SequenceWriter.seq
          frame,       \* the encoded frame, <<>> when there is none
          published    \* every frame handed to the transport, in order

vars == <<sentBytes, ackedBytes, notify, cancelled, pc, rest, seq, frame, published>>

Frame == [seq : 0..SeqMod-1, from : Nat, to : Nat]

PC == {"read", "check", "blocked", "select", "granted", "publish", "stopped"}

TypeOK ==
    /\ sentBytes \in Nat
    /\ ackedBytes \in Nat
    /\ notify \in BOOLEAN
    /\ cancelled \in BOOLEAN
    /\ pc \in PC
    /\ rest \in Nat
    /\ seq \in 0..SeqMod-1
    /\ frame \in Frame \cup {<<>>}
    /\ published \in Seq(Frame)

-----------------------------------------------------------------------------
(* Operators named Mutant... are plausible bugs, kept for mutation testing *)
(* of the properties; the specification does not use them.                 *)
MutantChunk == rest

MutantNextSeq(s) == s + 1

Chunk == IF rest > MaxPayload THEN MaxPayload ELSE rest

NextSeq(s) == IF s = SeqMod - 1 THEN 0 ELSE s + 1

Outstanding == IF sentBytes > ackedBytes THEN sentBytes - ackedBytes ELSE 0

CanSend(n) == Outstanding + n <= Window

Init ==
    /\ sentBytes = 0 /\ ackedBytes = 0
    /\ notify = FALSE /\ cancelled = FALSE
    /\ pc = "read" /\ rest = 0
    /\ seq = 0 /\ frame = <<>>
    /\ published = <<>>

(* The read loop got n bytes and calls Write.  The context is not looked   *)
(* at here: a cancelled session still sends what the window has room for.  *)
Read(n) ==
    /\ pc = "read"
    /\ sentBytes + n <= MaxBytes
    /\ rest' = n
    /\ pc' = "check"
    /\ UNCHANGED <<sentBytes, ackedBytes, notify, cancelled, seq, frame, published>>

(* End of file, or the source was closed under the reader. *)
ReadFails ==
    /\ pc = "read"
    /\ pc' = "stopped"
    /\ UNCHANGED <<sentBytes, ackedBytes, notify, cancelled, rest, seq, frame, published>>

(* WaitForWindow: the test, and the select it falls into. *)
CheckWindow ==
    /\ pc = "check"
    /\ pc' = IF CanSend(Chunk) THEN "granted" ELSE "blocked"
    /\ UNCHANGED <<sentBytes, ackedBytes, notify, cancelled, rest, seq, frame, published>>

EnterSelect ==
    /\ pc = "blocked"
    /\ pc' = "select"
    /\ UNCHANGED <<sentBytes, ackedBytes, notify, cancelled, rest, seq, frame, published>>

Wake ==
    /\ pc = "select" /\ notify
    /\ notify' = FALSE
    /\ pc' = "check"
    /\ UNCHANGED <<sentBytes, ackedBytes, cancelled, rest, seq, frame, published>>

WaitCancelled ==
    /\ pc = "select" /\ cancelled
    /\ pc' = "stopped"
    /\ UNCHANGED <<sentBytes, ackedBytes, notify, cancelled, rest, seq, frame, published>>

(* Number the frame (nothing else uses SequenceWriter.seq) and AddSent. *)
EncodeAndAddSent ==
    /\ pc = "granted"
    /\ frame' = [seq |-> seq, from |-> sentBytes, to |-> sentBytes + Chunk]
    /\ seq' = NextSeq(seq)
    /\ sentBytes' = sentBytes + Chunk
    /\ pc' = "publish"
    /\ UNCHANGED <<ackedBytes, notify, cancelled, rest, published>>

Publish ==
    /\ pc = "publish"
    /\ published' = Append(published, frame)
    /\ frame' = <<>>
    /\ rest' = rest - Chunk
    /\ pc' = IF rest = Chunk THEN "read" ELSE "check"
    /\ UNCHANGED <<sentBytes, ackedBytes, notify, cancelled, seq>>

(* Publish returns an error: Write returns it and the read loop ends. *)
PublishFails ==
    /\ pc = "publish"
    /\ frame' = <<>>
    /\ pc' = "stopped"
    /\ UNCHANGED <<sentBytes, ackedBytes, notify, cancelled, rest, seq, published>>

Writer ==
    \/ \E n \in ReadSizes : Read(n)
    \/ ReadFails
    \/ CheckWindow \/ EnterSelect \/ Wake \/ WaitCancelled
    \/ EncodeAndAddSent \/ Publish \/ PublishFails

(* The handler of an ack message, from the transport's goroutine. *)
Clamped(acked) == IF acked > sentBytes THEN sentBytes ELSE acked

(* The last ack wins, even one that a later ack has overtaken. *)
MutantLastAckWins(acked) ==
    /\ ackedBytes' = Clamped(acked)
    /\ notify' = TRUE
    /\ UNCHANGED <<sentBytes, cancelled, pc, rest, seq, frame, published>>

(* blockedNotify without its buffer: only a writer already in its select   *)
(* receives the token.                                                     *)
MutantUnbuffered(acked) ==
    /\ ackedBytes' = IF Clamped(acked) > ackedBytes THEN Clamped(acked) ELSE ackedBytes
    /\ notify' = (notify \/ pc = "select")
    /\ UNCHANGED <<sentBytes, cancelled, pc, rest, seq, frame, published>>

UpdateAck(acked) ==
    /\ ackedBytes' = IF Clamped(acked) > ackedBytes THEN Clamped(acked) ELSE ackedBytes
    /\ notify' = TRUE
    /\ UNCHANGED <<sentBytes, cancelled, pc, rest, seq, frame, published>>

(* Close cancels the context; so does the connection's own context. *)
Cancel ==
    /\ ~cancelled
    /\ cancelled' = TRUE
    /\ UNCHANGED <<sentBytes, ackedBytes, notify, pc, rest, seq, frame, published>>

(* An ack names any byte count: late, repeated, out of order, or beyond    *)
(* what was sent (the clamp of UpdateAck).                                 *)
Next ==
    \/ Writer
    \/ \E acked \in 0..MaxBytes+1 : UpdateAck(acked)
    \/ Cancel

(* The writer is a goroutine: a step it can take, it takes.  A select that *)
(* finds ctx.Done ready again and again picks it in the end (Go chooses    *)
(* among the ready cases at random), which is strong fairness.             *)
Fairness ==
    /\ WF_vars(CheckWindow) /\ WF_vars(EnterSelect) /\ WF_vars(Wake)
    /\ WF_vars(EncodeAndAddSent) /\ WF_vars(Publish)
    /\ SF_vars(WaitCancelled)

Spec == Init /\ [][Next]_vars /\ Fairness

-----------------------------------------------------------------------------
PublishedBytes == IF published = <<>> THEN 0 ELSE published[Len(published)].to

(* The bytes on their way never exceed the window.  WaitForWindow's test   *)
(* and AddSent are two critical sections: whatever acks arrive between     *)
(* them, late or out of order, a window granted to the writer is still     *)
(* open when it counts the frame, and no ack makes the acknowledged count  *)
(* overtake the sent one.                                                  *)
WindowRespected ==
    /\ ackedBytes <= sentBytes
    /\ sentBytes <= ackedBytes + Window
    /\ pc = "granted" => CanSend(Chunk)

(* A writer that found the window closed and is about to sleep, or asleep, *)
(* while an ack has opened it, has a wake-up pending in blockedNotify.     *)
NoLostWakeup ==
    pc \in {"blocked", "select"} /\ CanSend(Chunk) => notify

(* The frames are the stream cut in pieces: numbered in order, contiguous, *)
(* none empty, none larger than a payload may be, and none published       *)
(* before AddSent has counted it: a peer that acknowledges all it was sent *)
(* never sees its ack clamped (a clamped ack is not repeated, so the bytes *)
(* cut off would count against the window for ever).                       *)
FramesPartitionStream ==
    /\ PublishedBytes <= sentBytes
    /\ \A i \in DOMAIN published :
          /\ published[i].seq = (i - 1) % SeqMod
          /\ published[i].from = (IF i = 1 THEN 0 ELSE published[i-1].to)
          /\ published[i].to - published[i].from \in 1..MaxPayload

Waiting == pc \in {"check", "blocked", "select"}

(* A writer that waits goes on when an ack opens its window, and returns   *)
(* when its session is closed, however many acks that open nothing still   *)
(* arrive.                                                                 *)
Released == Waiting /\ (CanSend(Chunk) \/ cancelled) ~> ~Waiting
=============================================================================
