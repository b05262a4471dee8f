----------------------- MODULE SequenceWriterProofs -----------------------
(* Theorems of SequenceWriter for every window, payload size, sequence     *)
(* number space and read size.                                             *)
EXTENDS SequenceWriter, TLAPS

USE WriterAssumption DEF WriterAssumption

(* While Write runs there is data left; while a frame is being published it *)
(* ends where the stream sent so far ends.                                  *)
Progressing ==
    /\ pc \in {"check", "blocked", "select", "granted", "publish"} => rest > 0
    /\ pc = "publish" => /\ frame \in Frame
                         /\ frame.to = sentBytes
                         /\ frame.to - frame.from = Chunk

LEMMA ChunkBounds ==
    ASSUME TypeOK, rest > 0
    PROVE  Chunk \in 1..MaxPayload /\ Chunk <= rest
BY DEF TypeOK, Chunk

(* The variables keep their types. *)
THEOREM TypeCorrect == Spec => [](TypeOK /\ Progressing)
<1>1. Init => TypeOK /\ Progressing
  <2> SUFFICES ASSUME Init PROVE TypeOK /\ Progressing
    OBVIOUS
  <2>1. published \in Seq(Frame)
    BY DEF Init
  <2>2. frame \in Frame \cup {<<>>}
    BY DEF Init
  <2>3. notify \in BOOLEAN /\ cancelled \in BOOLEAN
    BY DEF Init
  <2>4. seq \in 0..SeqMod-1 /\ pc \in PC
    BY DEF Init, PC
  <2>5. Progressing
    BY DEF Init, Progressing
  <2> QED
    BY <2>1, <2>2, <2>3, <2>4, <2>5 DEF Init, TypeOK
<1>2. TypeOK /\ Progressing /\ [Next]_vars => (TypeOK /\ Progressing)'
  <2> SUFFICES ASSUME TypeOK, Progressing, [Next]_vars
               PROVE  (TypeOK /\ Progressing)'
    OBVIOUS
  <2> USE DEF TypeOK, Progressing, PC
  <2>1. ASSUME NEW n \in ReadSizes, Read(n) PROVE (TypeOK /\ Progressing)'
    <3>1. n \in Nat \ {0}
      BY WriterAssumption
    <3>2. rest' = n /\ pc' = "check"
      BY <2>1 DEF Read
    <3> QED
      BY <2>1, <3>1, <3>2 DEF Read
  <2>2. CASE ReadFails
    BY <2>2 DEF ReadFails
  <2>3. CASE CheckWindow
    BY <2>3 DEF CheckWindow
  <2>4. CASE EnterSelect
    BY <2>4 DEF EnterSelect
  <2>5. CASE Wake
    BY <2>5 DEF Wake
  <2>6. CASE WaitCancelled
    BY <2>6 DEF WaitCancelled
  <2>7. CASE EncodeAndAddSent
    <3>1. Chunk \in Nat \ {0} /\ Chunk' = Chunk
      BY <2>7, ChunkBounds DEF EncodeAndAddSent, Chunk
    <3>2. frame' \in Frame /\ frame'.to = sentBytes' /\ frame'.to - frame'.from = Chunk
      BY <2>7, <3>1 DEF EncodeAndAddSent, Frame
    <3>3. seq' \in 0..SeqMod-1
      BY <2>7 DEF EncodeAndAddSent, NextSeq
    <3> QED
      BY <2>7, <3>1, <3>2, <3>3 DEF EncodeAndAddSent
  <2>8. CASE Publish
    <3>1. rest - Chunk \in Nat /\ (rest # Chunk => rest - Chunk > 0)
      BY <2>8, ChunkBounds DEF Publish
    <3> QED
      BY <2>8, <3>1 DEF Publish
  <2>9. CASE PublishFails
    BY <2>9 DEF PublishFails
  <2>10. ASSUME NEW acked \in 0..MaxBytes+1, UpdateAck(acked)
         PROVE  (TypeOK /\ Progressing)'
    BY <2>10 DEF UpdateAck, Clamped, Chunk
  <2>11. CASE Cancel
    BY <2>11 DEF Cancel, Chunk
  <2>12. CASE UNCHANGED vars
    BY <2>12 DEF vars, Chunk
  <2> QED
    BY <2>1, <2>2, <2>3, <2>4, <2>5, <2>6, <2>7, <2>8, <2>9, <2>10, <2>11, <2>12
       DEF Next, Writer
<1> QED
  BY <1>1, <1>2, PTL DEF Spec

(* The window is respected by every interleaving of the writer with acks. *)
THEOREM WindowIsRespected == Spec => []WindowRespected
<1>1. Init => WindowRespected
  BY DEF Init, WindowRespected
<1>2. TypeOK /\ Progressing /\ WindowRespected /\ [Next]_vars => WindowRespected'
  <2> SUFFICES ASSUME TypeOK, Progressing, WindowRespected, [Next]_vars
               PROVE  WindowRespected'
    OBVIOUS
  <2> USE DEF TypeOK, WindowRespected, CanSend, Outstanding
  <2>1. ASSUME NEW n \in ReadSizes, Read(n) PROVE WindowRespected'
    BY <2>1 DEF Read
  <2>2. CASE ReadFails \/ EnterSelect \/ Wake \/ WaitCancelled \/ PublishFails \/ Cancel
    BY <2>2 DEF ReadFails, EnterSelect, Wake, WaitCancelled, PublishFails, Cancel, Chunk
  <2>3. CASE CheckWindow
    BY <2>3 DEF CheckWindow, Chunk
  <2>4. CASE EncodeAndAddSent
    <3>1. Chunk \in Nat
      BY <2>4, ChunkBounds DEF EncodeAndAddSent, Progressing
    <3> QED
      BY <2>4, <3>1 DEF EncodeAndAddSent
  <2>5. CASE Publish
    BY <2>5 DEF Publish
  <2>6. ASSUME NEW acked \in 0..MaxBytes+1, UpdateAck(acked) PROVE WindowRespected'
    <3>1. Chunk' = Chunk /\ (pc = "granted" => Chunk \in Nat)
      BY <2>6, ChunkBounds DEF UpdateAck, Progressing, Chunk
    <3>2. Clamped(acked) \in Nat /\ Clamped(acked) <= sentBytes
      BY DEF Clamped
    <3> QED
      BY <2>6, <3>1, <3>2 DEF UpdateAck
  <2>7. CASE UNCHANGED vars
    BY <2>7 DEF vars, Chunk
  <2> QED
    BY <2>1, <2>2, <2>3, <2>4, <2>5, <2>6, <2>7 DEF Next, Writer
<1> QED
  BY <1>1, <1>2, TypeCorrect, PTL DEF Spec

(* No wake-up is lost between the test of the window and the select. *)
THEOREM WakeupsAreNotLost == Spec => []NoLostWakeup
<1>1. Init => NoLostWakeup
  BY DEF Init, NoLostWakeup
<1>2. NoLostWakeup /\ [Next]_vars => NoLostWakeup'
  <2> SUFFICES ASSUME NoLostWakeup, [Next]_vars PROVE NoLostWakeup'
    OBVIOUS
  <2> USE DEF NoLostWakeup, CanSend, Outstanding, Chunk
  <2>1. ASSUME NEW n \in ReadSizes, Read(n) PROVE NoLostWakeup'
    BY <2>1 DEF Read
  <2>2. CASE ReadFails \/ Wake \/ WaitCancelled \/ EncodeAndAddSent \/ Publish \/ PublishFails
    BY <2>2 DEF ReadFails, Wake, WaitCancelled, EncodeAndAddSent, Publish, PublishFails
  <2>3. CASE CheckWindow
    BY <2>3 DEF CheckWindow
  <2>4. CASE EnterSelect \/ Cancel
    BY <2>4 DEF EnterSelect, Cancel
  <2>5. ASSUME NEW acked \in 0..MaxBytes+1, UpdateAck(acked) PROVE NoLostWakeup'
    BY <2>5 DEF UpdateAck
  <2>6. CASE UNCHANGED vars
    BY <2>6 DEF vars
  <2> QED
    BY <2>1, <2>2, <2>3, <2>4, <2>5, <2>6 DEF Next, Writer
<1> QED
  BY <1>1, <1>2, PTL DEF Spec

(* A remainder is unique. *)
LEMMA RemainderUnique ==
    ASSUME NEW M \in Nat \ {0}, NEW q \in Int, NEW p \in Int,
           NEW r \in 0..M-1, NEW s \in 0..M-1, M * q + r = M * p + s
    PROVE  r = s
<1> DEFINE d == q - p
<1>1. d \in Int /\ M * d = s - r
  OBVIOUS
<1>2. ASSUME NEW e \in Nat \ {0} PROVE M * e >= M
  <2>1. e - 1 \in Nat /\ M * e = M * (e - 1) + M
    OBVIOUS
  <2>2. M * (e - 1) >= 0
    BY <2>1
  <2> QED
    BY <2>1, <2>2
<1>3. CASE d >= 1
  BY <1>1, <1>2, <1>3
<1>4. CASE d <= -1
  <2>1. -d \in Nat \ {0} /\ M * (-d) = r - s
    BY <1>1, <1>4
  <2> QED
    BY <1>2, <2>1
<1>5. CASE d = 0
  BY <1>1, <1>5
<1> QED
  BY <1>1, <1>3, <1>4, <1>5

LEMMA Division ==
    ASSUME NEW M \in Nat \ {0}, NEW a \in Int
    PROVE  a % M \in 0..M-1 /\ a \div M \in Int /\ a = M * (a \div M) + (a % M)
OBVIOUS

(* Counting modulo SeqMod one step at a time, as the uint32 counter does. *)
LEMMA NextSeqIsModulo ==
    ASSUME NEW n \in Nat
    PROVE  NextSeq(n % SeqMod) = (n + 1) % SeqMod
<1> DEFINE r == n % SeqMod
           q == n \div SeqMod
<1>1. r \in 0..SeqMod-1 /\ q \in Int /\ n = SeqMod * q + r
  OBVIOUS
<1>4. /\ (n + 1) % SeqMod \in 0..SeqMod-1 /\ (n + 1) \div SeqMod \in Int
      /\ n + 1 = SeqMod * ((n + 1) \div SeqMod) + ((n + 1) % SeqMod)
  BY Division
<1>2. CASE r = SeqMod - 1
  <2>1. n + 1 = SeqMod * (q + 1) + 0 /\ q + 1 \in Int /\ 0 \in 0..SeqMod-1
    BY <1>1, <1>2
  <2>2. (n + 1) % SeqMod = 0
    BY <1>1, <1>4, <2>1, RemainderUnique
  <2> QED
    BY <1>2, <2>2 DEF NextSeq
<1>3. CASE r # SeqMod - 1
  <2>1. n + 1 = SeqMod * q + (r + 1) /\ r + 1 \in 0..SeqMod-1
    BY <1>1, <1>3
  <2>2. (n + 1) % SeqMod = r + 1
    BY <1>1, <1>4, <2>1, RemainderUnique
  <2> QED
    BY <1>3, <2>2 DEF NextSeq
<1> QED
  BY <1>2, <1>3

(* Where the writer stands in the stream it has published. *)
InStep ==
    /\ pc = "publish" =>
         /\ frame.from = PublishedBytes
         /\ frame.seq = Len(published) % SeqMod
         /\ seq = (Len(published) + 1) % SeqMod
    /\ pc \notin {"publish", "stopped"} =>
         /\ sentBytes = PublishedBytes
         /\ seq = Len(published) % SeqMod

StreamInv == FramesPartitionStream /\ InStep

(* The frames partition the stream, and an ack of all that was published   *)
(* is never clamped.                                                       *)
THEOREM StreamIsPartitioned == Spec => []FramesPartitionStream
<1>1. Init => StreamInv
  BY DEF Init, StreamInv, FramesPartitionStream, InStep, PublishedBytes
<1>2. TypeOK /\ Progressing /\ StreamInv /\ [Next]_vars => StreamInv'
  <2> SUFFICES ASSUME TypeOK, Progressing, StreamInv, [Next]_vars
               PROVE  StreamInv'
    OBVIOUS
  <2>0. PublishedBytes <= sentBytes
    BY DEF StreamInv, FramesPartitionStream
  <2>1. ASSUME UNCHANGED published, (sentBytes' >= PublishedBytes)
        PROVE  FramesPartitionStream' /\ PublishedBytes' = PublishedBytes
    BY <2>1 DEF StreamInv, FramesPartitionStream, PublishedBytes
  <2>2. ASSUME NEW n \in ReadSizes, Read(n) PROVE StreamInv'
    BY <2>0, <2>1, <2>2 DEF Read, StreamInv, InStep
  <2>3. CASE ReadFails \/ CheckWindow \/ EnterSelect \/ Wake \/ WaitCancelled
    BY <2>0, <2>1, <2>3 DEF ReadFails, CheckWindow, EnterSelect, Wake, WaitCancelled,
                      StreamInv, InStep
  <2>4. CASE EncodeAndAddSent
    <3>1. Chunk \in Nat
      BY <2>4, ChunkBounds DEF EncodeAndAddSent, Progressing
    <3>2. published \in Seq(Frame) /\ Len(published) \in Nat
      BY DEF TypeOK
    <3>3. seq' = (Len(published) + 1) % SeqMod
      BY <2>4, <3>2, NextSeqIsModulo DEF EncodeAndAddSent, StreamInv, InStep
    <3>4. FramesPartitionStream' /\ PublishedBytes' = PublishedBytes
      BY <2>1, <2>4, <3>1 DEF EncodeAndAddSent, StreamInv, InStep, TypeOK
    <3>5. InStep'
      BY <3>4, <2>4, <3>3 DEF EncodeAndAddSent, StreamInv, InStep
    <3> QED
      BY <3>4, <3>5 DEF StreamInv
  <2>5. CASE Publish
    <3>1. /\ published \in Seq(Frame) /\ frame \in Frame
          /\ published' = Append(published, frame)
      BY <2>5 DEF Publish, TypeOK, Progressing
    <3>2. /\ Len(published') = Len(published) + 1
          /\ published'[Len(published')] = frame
          /\ \A i \in 1..Len(published) : published'[i] = published[i]
      BY <3>1
    <3>3. frame.to - frame.from \in 1..MaxPayload
      BY <2>5, ChunkBounds DEF Publish, Progressing
    <3>4. \A i \in DOMAIN published' :
             /\ published'[i].seq = (i - 1) % SeqMod
             /\ published'[i].from = (IF i = 1 THEN 0 ELSE published'[i-1].to)
             /\ published'[i].to - published'[i].from \in 1..MaxPayload
      <4> SUFFICES ASSUME NEW i \in 1..Len(published) + 1
                   PROVE  /\ published'[i].seq = (i - 1) % SeqMod
                          /\ published'[i].from = (IF i = 1 THEN 0 ELSE published'[i-1].to)
                          /\ published'[i].to - published'[i].from \in 1..MaxPayload
        BY <3>1, <3>2
      <4>1. CASE i = Len(published) + 1
        <5>1. frame.seq = (i - 1) % SeqMod
          BY <2>5, <3>1, <4>1 DEF Publish, StreamInv, InStep
        <5>2. frame.from = (IF i = 1 THEN 0 ELSE published'[i-1].to)
          BY <2>5, <3>1, <3>2, <4>1 DEF Publish, StreamInv, InStep, PublishedBytes
        <5> QED
          BY <3>1, <3>2, <3>3, <4>1, <5>1, <5>2
      <4>2. CASE i \in 1..Len(published)
        <5>1. /\ published[i].seq = (i - 1) % SeqMod
              /\ published[i].from = (IF i = 1 THEN 0 ELSE published[i-1].to)
              /\ published[i].to - published[i].from \in 1..MaxPayload
          BY <3>1, <4>2 DEF StreamInv, FramesPartitionStream
        <5>2. published'[i] = published[i] /\ (i # 1 => published'[i-1] = published[i-1])
          BY <3>1, <3>2, <4>2
        <5> QED
          BY <5>1, <5>2
      <4> QED
        BY <3>1, <4>1, <4>2
    <3>5. PublishedBytes' = sentBytes
      <4>1. published' # <<>> /\ published'[Len(published')].to = sentBytes
        BY <2>5, <3>1, <3>2 DEF Publish, Progressing
      <4> QED
        BY <4>1 DEF PublishedBytes
    <3>6. FramesPartitionStream'
      BY <2>5, <3>4, <3>5 DEF Publish, FramesPartitionStream, TypeOK
    <3>7. InStep'
      BY <2>5, <3>2, <3>5 DEF Publish, StreamInv, InStep
    <3> QED
      BY <3>6, <3>7 DEF StreamInv
  <2>6. CASE PublishFails
    BY <2>0, <2>1, <2>6 DEF PublishFails, StreamInv, InStep
  <2>7. ASSUME NEW acked \in 0..MaxBytes+1, UpdateAck(acked) PROVE StreamInv'
    BY <2>0, <2>1, <2>7 DEF UpdateAck, StreamInv, InStep
  <2>8. CASE Cancel
    BY <2>0, <2>1, <2>8 DEF Cancel, StreamInv, InStep
  <2>9. CASE UNCHANGED vars
    BY <2>0, <2>1, <2>9 DEF vars, StreamInv, InStep
  <2> QED
    BY <2>2, <2>3, <2>4, <2>5, <2>6, <2>7, <2>8, <2>9 DEF Next, Writer
<1>3. StreamInv => FramesPartitionStream
  BY DEF StreamInv
<1> QED
  BY <1>1, <1>2, <1>3, TypeCorrect, PTL DEF Spec
=============================================================================
