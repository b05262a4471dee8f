-------------------------- MODULE DataStreamProofs --------------------------
(* Theorems of DataStream for every window, payload size, buffer size and  *)
(* bound: the window holds end to end, the direction implements its        *)
(* abstract specification ByteStream, and neither a frame nor the writer   *)
(* is left waiting for what does not come.                                 *)
EXTENDS DataStream, SequenceTheorems, TLAPS

USE StreamAssumption DEF StreamAssumption

-----------------------------------------------------------------------------
(* The writer never counts more than the source produced, and the window   *)
(* is respected (the invariant of SequenceWriterProofs, with the bound).   *)
WriterInv ==
    /\ SW!TypeOK
    /\ sentBytes <= MaxBytes
    /\ pc \in {"check", "blocked", "select", "granted"} =>
          rest > 0 /\ sentBytes + rest <= MaxBytes
    /\ pc = "publish" =>
          /\ rest > 0 /\ frame.from + rest <= MaxBytes
          /\ frame \in SW!Frame
          /\ frame.to = sentBytes /\ frame.to - frame.from = SW!Chunk
    /\ SW!WindowRespected

(* Acks name bytes that were written out, and come from nowhere else. *)
AckInv ==
    /\ consumer \in {"receive", "write", "stopped"}
    /\ written \in Nat /\ lastAck \in 0..written
    /\ acks \subseteq 1..lastAck /\ newAcks \subseteq acks
    /\ ackFailures \in 0..MaxAckFailures
    /\ ackedBytes <= lastAck

LEMMA ChunkBounds ==
    ASSUME rest \in Nat, rest > 0
    PROVE  SW!Chunk \in 1..MaxPayload /\ SW!Chunk <= rest
BY DEF SW!Chunk

LEMMA WriterStepInv ==
    ASSUME WriterInv, AckInv, [Next]_vars
    PROVE  WriterInv'
<1>a. \A a \in acks : a \in Nat
  <2>1. lastAck \in Nat
    BY DEF AckInv
  <2>2. acks \subseteq 1..lastAck
    BY DEF AckInv
  <2> QED
    BY <2>1, <2>2
<1> USE DEF WriterInv, SW!TypeOK, SW!PC, SW!WindowRespected, SW!CanSend, SW!Outstanding
<1>0. ASSUME UNCHANGED writerVars PROVE WriterInv'
  BY <1>0 DEF writerVars, SW!Chunk
<1>1. ASSUME NEW n \in ReadSizes, SW!Read(n) PROVE WriterInv'
  <2>1. n \in Nat \ {0}
    OBVIOUS
  <2> QED
    BY <1>1, <2>1 DEF SW!Read
<1>2. CASE SW!CheckWindow
  BY <1>2 DEF SW!CheckWindow, SW!Chunk
<1>3. CASE SW!EnterSelect
  BY <1>3 DEF SW!EnterSelect
<1>4. CASE SW!Wake
  BY <1>4 DEF SW!Wake
<1>5. CASE SW!WaitCancelled
  BY <1>5 DEF SW!WaitCancelled
<1>6. CASE SW!EncodeAndAddSent
  <2>1. SW!Chunk \in Nat \ {0} /\ SW!Chunk <= rest /\ SW!Chunk' = SW!Chunk
    BY <1>6, ChunkBounds DEF SW!EncodeAndAddSent, SW!Chunk
  <2>2. frame' \in SW!Frame /\ frame'.to = sentBytes' /\ frame'.to - frame'.from = SW!Chunk
        /\ frame'.from = sentBytes
    BY <1>6, <2>1 DEF SW!EncodeAndAddSent, SW!Frame
  <2>3. seq' \in 0..SeqMod-1
    BY <1>6 DEF SW!EncodeAndAddSent, SW!NextSeq
  <2> QED
    BY <1>6, <2>1, <2>2, <2>3 DEF SW!EncodeAndAddSent
<1>7. CASE SW!Publish
  <2>1. rest - SW!Chunk \in Nat /\ (rest # SW!Chunk => rest - SW!Chunk > 0)
    BY <1>7, ChunkBounds DEF SW!Publish
  <2>2. frame \in SW!Frame /\ frame.from + rest <= MaxBytes /\ frame.to - frame.from = SW!Chunk
    BY <1>7 DEF SW!Publish
  <2>3. sentBytes + (rest - SW!Chunk) <= MaxBytes
    <3>1. frame.from \in Nat /\ frame.to \in Nat /\ frame.to = sentBytes
      BY <1>7, <2>2 DEF SW!Publish, SW!Frame
    <3>2. rest \in Nat /\ SW!Chunk \in Nat
      BY <1>7, ChunkBounds DEF SW!Publish
    <3>3. SW!Chunk = sentBytes - frame.from
      BY <2>2, <3>1
    <3> QED
      BY <2>2, <3>1, <3>2, <3>3
  <2> QED
    BY <1>7, <2>1, <2>2, <2>3 DEF SW!Publish
<1>8. CASE SW!PublishFails
  BY <1>8 DEF SW!PublishFails
<1>9. CASE SW!ReadFails
  BY <1>9 DEF SW!ReadFails
<1>10. CASE SW!Cancel
  BY <1>10 DEF SW!Cancel, SW!Chunk
<1>11. ASSUME NEW a \in acks, SW!UpdateAck(a) PROVE WriterInv'
  <2>1. a \in Nat
    BY <1>a
  <2>2. SW!Chunk' = SW!Chunk /\ (pc = "granted" => SW!Chunk \in Nat)
    BY <1>11, ChunkBounds DEF SW!UpdateAck, SW!Chunk
  <2>3. SW!Clamped(a) \in Nat /\ SW!Clamped(a) <= sentBytes
    BY <2>1 DEF SW!Clamped
  <2> QED
    BY <1>11, <2>2, <2>3 DEF SW!UpdateAck
<1>12. CASE UNCHANGED vars
  BY <1>0, <1>12 DEF vars
<1> QED
  BY <1>0, <1>1, <1>2, <1>3, <1>4, <1>5, <1>6, <1>7, <1>8, <1>9, <1>10, <1>11, <1>12
     DEF Next, Write, WriterStep, WaitCancelled, WriterStops, CloseSender, AckArrives,
         HandleAck, FrameArrives, InsertStep, Receive, WriteOut, ConsumerStops, CloseReceiver

-----------------------------------------------------------------------------
(* The published frames cut the stream into pieces of at least one byte:   *)
(* between two frames lie at least as many bytes as frames, which is what  *)
(* makes a window of bytes a bound of frames.                              *)
Cut ==
    /\ \A i \in 1..Len(published) :
          /\ published[i].from < published[i].to
          /\ published[i].to <= published[i].from + MaxPayload
          /\ i <= published[i].from + 1
          /\ published[i].from = (IF i = 1 THEN 0 ELSE published[i-1].to)
    /\ \A i, j \in 1..Len(published) :
          i < j => published[i].to + (j - i - 1) <= published[j].from
    /\ Len(published) <= MaxBytes
    /\ SW!PublishedBytes <= sentBytes
    /\ pc = "publish" => frame.from = SW!PublishedBytes
    /\ pc \notin {"publish", "stopped"} => sentBytes = SW!PublishedBytes

LEMMA PublishedType ==
    ASSUME WriterInv
    PROVE  /\ published \in Seq(SW!Frame) /\ Len(published) \in Nat
           /\ DOMAIN published = 1..Len(published)
           /\ \A i \in 1..Len(published) :
                published[i].from \in Nat /\ published[i].to \in Nat
<1>1. published \in Seq(SW!Frame)
  BY DEF WriterInv, SW!TypeOK
<1>2. \A i \in 1..Len(published) : published[i] \in SW!Frame
  BY <1>1, ElementOfSeq
<1> QED
  BY <1>1, <1>2, LenProperties DEF SW!Frame

(* What follows a frame, to the end of what was published. *)
LEMMA BytesBehind ==
    ASSUME WriterInv, Cut
    PROVE  /\ SW!PublishedBytes \in Nat
           /\ Len(published) <= SW!PublishedBytes
           /\ \A i \in 1..Len(published) :
                published[i].to + (Len(published) - i) <= SW!PublishedBytes
<1> DEFINE n == Len(published)
<1>1. /\ published \in Seq(SW!Frame) /\ n \in Nat
      /\ \A i \in 1..n : published[i].from \in Nat /\ published[i].to \in Nat
  BY PublishedType
<1>2. CASE published = <<>>
  BY <1>1, <1>2 DEF SW!PublishedBytes
<1>3. CASE published # <<>>
  <2>1. n \in 1..n /\ SW!PublishedBytes = published[n].to
    BY <1>1, <1>3, EmptySeq DEF SW!PublishedBytes
  <2>2. published[n].from < published[n].to /\ n <= published[n].from + 1
    BY <2>1 DEF Cut
  <2>3. ASSUME NEW i \in 1..n PROVE published[i].to + (n - i) <= published[n].to
    <3>1. CASE i = n
      BY <1>1, <2>1, <3>1
    <3>2. CASE i < n
      <4>1. published[i].to + (n - i - 1) <= published[n].from
        BY <2>1, <3>2 DEF Cut
      <4> QED
        BY <1>1, <2>1, <2>2, <4>1
    <3> QED
      BY <1>1, <3>1, <3>2
  <2> QED
    BY <1>1, <2>1, <2>2, <2>3
<1> QED
  BY <1>2, <1>3

LEMMA PublishExtends ==
    ASSUME WriterInv, SW!Publish
    PROVE  /\ frame \in SW!Frame
           /\ Len(published') = Len(published) + 1
           /\ published'[Len(published) + 1] = frame
           /\ \A i \in 1..Len(published) : published'[i] = published[i]
           /\ SW!PublishedBytes' = frame.to
<1>1. published \in Seq(SW!Frame) /\ frame \in SW!Frame /\ published' = Append(published, frame)
  BY DEF WriterInv, SW!TypeOK, SW!Publish
<1>2. /\ Len(published') = Len(published) + 1
      /\ published'[Len(published) + 1] = frame
      /\ \A i \in 1..Len(published) : published'[i] = published[i]
  BY <1>1, AppendProperties
<1>3. published' # <<>>
  BY <1>1, AppendProperties
<1> QED
  BY <1>1, <1>2, <1>3 DEF SW!PublishedBytes

LEMMA CutStep ==
    ASSUME WriterInv, Cut, [Next]_vars
    PROVE  Cut'
<1>0. ASSUME UNCHANGED <<published, frame, sentBytes>>,
             pc' = "publish" => pc = "publish",
             pc' \notin {"publish", "stopped"} => pc \notin {"publish", "stopped"}
      PROVE  Cut'
  <2>1. SW!PublishedBytes' = SW!PublishedBytes
    BY <1>0 DEF SW!PublishedBytes
  <2> QED
    BY <1>0, <2>1 DEF Cut
<1>1. CASE UNCHANGED writerVars
  BY <1>0, <1>1 DEF writerVars
<1>2. ASSUME NEW n \in ReadSizes, SW!Read(n) PROVE Cut'
  BY <1>0, <1>2 DEF SW!Read
<1>3. CASE SW!CheckWindow \/ SW!EnterSelect \/ SW!Wake \/ SW!WaitCancelled
  BY <1>0, <1>3 DEF SW!CheckWindow, SW!EnterSelect, SW!Wake, SW!WaitCancelled
<1>4. CASE SW!ReadFails \/ SW!Cancel
  BY <1>0, <1>4 DEF SW!ReadFails, SW!Cancel
<1>5. ASSUME NEW a \in acks, SW!UpdateAck(a) PROVE Cut'
  BY <1>0, <1>5 DEF SW!UpdateAck
<1>6. CASE SW!PublishFails
  <2>1. pc' = "stopped" /\ UNCHANGED <<published, sentBytes>>
    BY <1>6 DEF SW!PublishFails
  <2>2. SW!PublishedBytes' = SW!PublishedBytes
    BY <2>1 DEF SW!PublishedBytes
  <2> QED
    BY <2>1, <2>2 DEF Cut
<1>7. CASE SW!EncodeAndAddSent
  <2>1. /\ pc = "granted" /\ pc' = "publish" /\ published' = published
        /\ frame'.from = sentBytes /\ sentBytes' = sentBytes + SW!Chunk
    BY <1>7 DEF SW!EncodeAndAddSent
  <2>2. SW!PublishedBytes' = SW!PublishedBytes
    BY <2>1 DEF SW!PublishedBytes
  <2>3. SW!Chunk \in Nat /\ sentBytes \in Nat
    BY <2>1, ChunkBounds DEF WriterInv, SW!TypeOK
  <2>4. sentBytes = SW!PublishedBytes
    BY <2>1 DEF Cut
  <2>5. SW!PublishedBytes' <= sentBytes' /\ frame'.from = SW!PublishedBytes'
    BY <2>1, <2>2, <2>3, <2>4
  <2> QED
    BY <2>1, <2>5 DEF Cut
<1>8. CASE SW!Publish
  <2> DEFINE n == Len(published)
  <2>1. /\ frame \in SW!Frame /\ frame.from \in Nat /\ frame.to \in Nat
        /\ Len(published') = n + 1 /\ published'[n + 1] = frame
        /\ \A i \in 1..n : published'[i] = published[i]
        /\ SW!PublishedBytes' = frame.to
    BY <1>8, PublishExtends DEF SW!Frame
  <2>2. /\ n \in Nat
        /\ \A i \in 1..n : published[i].from \in Nat /\ published[i].to \in Nat
    BY PublishedType
  <2>3. /\ frame.from = SW!PublishedBytes /\ frame.from < frame.to /\ frame.to = sentBytes
        /\ frame.to <= frame.from + MaxPayload
    <3>1. pc = "publish"
      BY <1>8 DEF SW!Publish
    <3>2. frame.from = SW!PublishedBytes
      BY <3>1 DEF Cut
    <3>3. frame.to = sentBytes /\ frame.to - frame.from = SW!Chunk /\ SW!Chunk \in 1..MaxPayload
      BY <3>1, ChunkBounds DEF WriterInv, SW!TypeOK
    <3> QED
      BY <2>1, <3>2, <3>3
  <2>4. n <= frame.from /\ \A i \in 1..n : published[i].to + (n - i) <= frame.from
    BY <2>3, BytesBehind
  <2>5. ASSUME NEW i \in 1..n + 1
        PROVE  /\ published'[i].from < published'[i].to
               /\ published'[i].to <= published'[i].from + MaxPayload
               /\ i <= published'[i].from + 1
               /\ published'[i].from = (IF i = 1 THEN 0 ELSE published'[i-1].to)
    <3>1. CASE i \in 1..n
      <4>1. published'[i] = published[i] /\ (i # 1 => published'[i-1] = published[i-1])
        BY <2>1, <2>2, <3>1
      <4> QED
        BY <3>1, <4>1 DEF Cut
    <3>2. CASE i = n + 1
      <4>1. frame.from = (IF i = 1 THEN 0 ELSE published'[i-1].to)
        <5>1. CASE n = 0
          <6>1. published = <<>>
            BY <5>1, PublishedType, EmptySeq
          <6> QED
            BY <2>3, <3>2, <5>1, <6>1 DEF SW!PublishedBytes
        <5>2. CASE n # 0
          <6>1. published # <<>> /\ i # 1 /\ i - 1 = n /\ n \in 1..n
            BY <2>2, <3>2, <5>2
          <6>2. published'[i-1] = published[n]
            BY <2>1, <6>1
          <6> QED
            BY <2>3, <6>1, <6>2 DEF SW!PublishedBytes
        <5> QED
          BY <5>1, <5>2
      <4> QED
        BY <2>1, <2>2, <2>3, <2>4, <3>2, <4>1
    <3> QED
      BY <2>2, <3>1, <3>2
  <2>6. ASSUME NEW i \in 1..n + 1, NEW j \in 1..n + 1, i < j
        PROVE  published'[i].to + (j - i - 1) <= published'[j].from
    <3>1. i \in 1..n /\ published'[i] = published[i]
      BY <2>1, <2>2, <2>6
    <3>2. CASE j \in 1..n
      BY <2>1, <2>6, <3>1, <3>2 DEF Cut
    <3>3. CASE j = n + 1
      <4>1. j - i - 1 = n - i
        BY <2>2, <3>3
      <4>2. published[i].to + (n - i) <= frame.from
        BY <2>4, <3>1
      <4> QED
        BY <2>1, <3>1, <3>3, <4>1, <4>2
    <3> QED
      BY <2>2, <3>2, <3>3
  <2>7. pc' \in {"read", "check"} /\ sentBytes' = sentBytes
    BY <1>8 DEF SW!Publish
  <2>8. SW!PublishedBytes' = sentBytes' /\ sentBytes' \in Nat
    BY <2>1, <2>3, <2>7
  <2>9. Len(published') <= MaxBytes
    BY <2>1, <2>2, <2>3, <2>4 DEF WriterInv
  <2> QED
    BY <2>1, <2>5, <2>6, <2>7, <2>8, <2>9 DEF Cut
<1>9. CASE UNCHANGED vars
  BY <1>1, <1>9 DEF vars
<1> QED
  BY <1>1, <1>2, <1>3, <1>4, <1>5, <1>6, <1>7, <1>8, <1>9
     DEF Next, Write, WriterStep, WaitCancelled, WriterStops, CloseSender, AckArrives,
         HandleAck, FrameArrives, InsertStep, Receive, WriteOut, ConsumerStops, CloseReceiver

-----------------------------------------------------------------------------
(* The receiving end keeps its types and its bound, and holds only frames  *)
(* that were published.                                                    *)
BufferInv ==
    /\ RB!TypeOK
    /\ \A j \in 1..Len(dataCh) : dataCh[j] \in 1..Len(published)
    /\ \A j \in 1..Len(taken) : taken[j] \in 1..Len(published)
    /\ consumer = "write" => taken # <<>>

(* Sequences of frame numbers, extended and shortened. *)
LEMMA AppendMember ==
    ASSUME NEW n \in Nat, NEW s \in Seq(Nat), NEW e \in 1..n,
           \A j \in 1..Len(s) : s[j] \in 1..n
    PROVE  /\ Append(s, e) \in Seq(Nat) /\ Append(s, e) # <<>>
           /\ Len(Append(s, e)) = Len(s) + 1
           /\ Append(s, e)[Len(s) + 1] = e
           /\ \A j \in 1..Len(s) : Append(s, e)[j] = s[j]
           /\ \A j \in 1..Len(s) + 1 : Append(s, e)[j] \in 1..n
<1>1. e \in Nat
  OBVIOUS
<1>2. /\ Append(s, e) \in Seq(Nat) /\ Append(s, e) # <<>>
      /\ Len(Append(s, e)) = Len(s) + 1
      /\ Append(s, e)[Len(s) + 1] = e
      /\ \A j \in 1..Len(s) : Append(s, e)[j] = s[j]
  BY <1>1, AppendProperties
<1>3. ASSUME NEW j \in 1..Len(s) + 1 PROVE Append(s, e)[j] \in 1..n
  <2>1. CASE j = Len(s) + 1
    BY <1>2, <2>1
  <2>2. CASE j # Len(s) + 1
    <3>1. Len(s) \in Nat
      BY LenProperties
    <3>2. j \in 1..Len(s)
      BY <2>2, <3>1
    <3> QED
      BY <1>2, <3>2
  <2> QED
    BY <2>1, <2>2
<1> QED
  BY <1>2, <1>3

LEMMA TailMember ==
    ASSUME NEW n \in Nat, NEW s \in Seq(Nat), s # <<>>,
           \A j \in 1..Len(s) : s[j] \in 1..n
    PROVE  /\ Head(s) = s[1] /\ Head(s) \in 1..n
           /\ Tail(s) \in Seq(Nat) /\ Len(Tail(s)) = Len(s) - 1
           /\ \A j \in 1..Len(Tail(s)) : Tail(s)[j] = s[j + 1]
           /\ \A j \in 1..Len(Tail(s)) : Tail(s)[j] \in 1..n
<1>1. Len(s) \in Nat /\ Len(s) >= 1
  BY LenProperties, EmptySeq
<1>2. /\ Head(s) = s[1]
      /\ Tail(s) \in Seq(Nat) /\ Len(Tail(s)) = Len(s) - 1
      /\ \A j \in 1..Len(Tail(s)) : Tail(s)[j] = s[j + 1]
  BY HeadTailProperties
<1>3. s[1] \in 1..n
  BY <1>1
<1>4. ASSUME NEW j \in 1..Len(Tail(s)) PROVE Tail(s)[j] \in 1..n
  <2>1. j + 1 \in 1..Len(s)
    BY <1>1, <1>2
  <2> QED
    BY <1>2, <2>1
<1> QED
  BY <1>2, <1>3, <1>4

LEMMA BufferMembers ==
    ASSUME RB!TypeOK
    PROVE  /\ dataCh \in Seq(Nat) /\ taken \in Seq(Nat) /\ hand \in Seq(Nat)
           /\ Len(dataCh) \in Nat /\ Len(taken) \in Nat
           /\ hand = <<>> \/ (hand = <<hand[1]>> /\ hand[1] \in 1..Len(published))
<1>1. CASE hand = <<>>
  BY <1>1, LenProperties DEF RB!TypeOK
<1>2. ASSUME NEW i \in 1..Len(published), hand = <<i>>
      PROVE  hand \in Seq(Nat) /\ hand = <<hand[1]>> /\ hand[1] \in 1..Len(published)
  <2>1. Len(published) \in Nat /\ i \in Nat
    BY DEF RB!TypeOK
  <2> QED
    BY <1>2, <2>1
<1> QED
  BY <1>1, <1>2, LenProperties DEF RB!TypeOK

LEMMA PublishedGrows ==
    ASSUME WriterInv, [Next]_vars
    PROVE  /\ Len(published) \in Nat /\ Len(published') \in Nat
           /\ Len(published') >= Len(published)
           /\ \A i \in 1..Len(published) : published'[i] = published[i]
<1>1. Len(published) \in Nat
  BY PublishedType
<1>2. CASE published' = published
  BY <1>1, <1>2
<1>3. CASE SW!Publish
  BY <1>1, <1>3, PublishExtends
<1>4. SW!Publish \/ published' = published
  BY DEF Next, Write, WriterStep, WaitCancelled, WriterStops, CloseSender, AckArrives,
         HandleAck, FrameArrives, InsertStep, Receive, WriteOut, ConsumerStops, CloseReceiver,
         SW!Read, SW!ReadFails, SW!CheckWindow, SW!EnterSelect, SW!Wake, SW!WaitCancelled,
         SW!EncodeAndAddSent, SW!PublishFails, SW!Cancel, SW!UpdateAck, writerVars, vars
<1> QED
  BY <1>2, <1>3, <1>4

LEMMA BufferStepInv ==
    ASSUME WriterInv, Cut', BufferInv, [Next]_vars
    PROVE  BufferInv'
<1> DEFINE n == Len(published)
<1>1. /\ n \in Nat /\ n' \in 0..MaxBytes /\ n' >= n
  BY PublishedGrows DEF Cut
<1>a. inflight \subseteq 1..n'
  <2>1. inflight \subseteq 1..n
    BY DEF BufferInv, RB!TypeOK
  <2> QED
    BY <1>1, <2>1
<1>b. /\ dataCh \in Seq(Nat) /\ taken \in Seq(Nat) /\ hand \in Seq(Nat)
      /\ Len(dataCh) \in Nat /\ Len(taken) \in Nat
      /\ hand = <<>> \/ (hand = <<hand[1]>> /\ hand[1] \in 1..n)
      /\ \A j \in 1..Len(dataCh) : dataCh[j] \in 1..n
      /\ \A j \in 1..Len(taken) : taken[j] \in 1..n
  BY BufferMembers DEF BufferInv
<1>2. ASSUME UNCHANGED bufferVars, inflight' \subseteq 1..n',
             consumer' = "write" => consumer = "write"
      PROVE  BufferInv'
  BY <1>1, <1>2, SMTT(30) DEF bufferVars, BufferInv, RB!TypeOK
<1>3. CASE Write \/ WaitCancelled \/ WriterStops \/ CloseSender \/ ConsumerStops
  BY <1>a, <1>2, <1>3
     DEF Write, WaitCancelled, WriterStops, CloseSender, ConsumerStops, consumerVars
<1>4. CASE WriterStep
  <2>1. inflight' \subseteq 1..n'
    <3>1. inflight' = inflight \cup (n + 1 .. n')
      BY <1>4 DEF WriterStep
    <3>2. n + 1 .. n' \subseteq 1..n'
      BY <1>1
    <3> QED
      BY <1>a, <3>1, <3>2
  <2> QED
    BY <1>2, <1>4, <2>1 DEF WriterStep, consumerVars
<1>5. ASSUME NEW a \in acks, AckArrives(a) PROVE BufferInv'
  BY <1>a, <1>2, <1>5 DEF AckArrives, HandleAck, consumerVars
<1>6. CASE WriteOut
  BY <1>a, <1>2, <1>6 DEF WriteOut
<1>7. CASE UNCHANGED vars
  BY <1>a, <1>2, <1>7 DEF vars, consumerVars
<1>8. ASSUME UNCHANGED published PROVE n' = n
  BY <1>8
<1>9. ASSUME NEW i \in 1..n, FrameArrives(i) PROVE BufferInv'
  <2>0. n' = n /\ inflight' \subseteq inflight /\ consumer' = consumer
    BY <1>8, <1>9 DEF FrameArrives, writerVars, consumerVars
  <2>1. CASE RB!InsertDropped(i)
    BY <1>a, <1>2, <2>0, <2>1 DEF RB!InsertDropped, RB!bufferVars, bufferVars
  <2>2. CASE RB!InsertAccepted(i)
    <3> DEFINE s == RB!WireSeq(i)
    <3>1. s \in 0..SeqMod-1
      BY DEF RB!WireSeq
    <3>2. s \in nextSeq .. nextSeq + Size - 1
      BY <2>2, <3>1 DEF RB!InsertAccepted, RB!Stale, RB!TooFar, BufferInv, RB!TypeOK
    <3>3. DOMAIN buf' = DOMAIN buf \cup {s} /\ \A t \in DOMAIN buf' : buf'[t] \in 1..n
      BY <2>2 DEF RB!InsertAccepted, BufferInv, RB!TypeOK
    <3> QED
      BY <2>0, <2>2, <3>1, <3>2, <3>3 DEF RB!InsertAccepted, BufferInv, RB!TypeOK
  <2> QED
    BY <1>9, <2>1, <2>2 DEF FrameArrives, RB!Insert
<1>10. CASE InsertStep
  <2>0. n' = n /\ inflight' = inflight /\ consumer' = consumer
    BY <1>8, <1>10 DEF InsertStep, writerVars, consumerVars
  <2>1. CASE RB!Pop
    <3>1. DOMAIN buf' = DOMAIN buf \ {nextSeq} /\ \A t \in DOMAIN buf' : buf'[t] = buf[t]
      BY <2>1 DEF RB!Pop
    <3>2. nextSeq' \in 0..SeqMod-1
      BY <2>1 DEF RB!Pop, RB!NextSeq, BufferInv, RB!TypeOK
    <3>3. DOMAIN buf' \subseteq nextSeq' .. nextSeq' + Size - 1
      BY <2>1, <3>1 DEF RB!Pop, RB!NextSeq, BufferInv, RB!TypeOK
    <3>4. buf[nextSeq] \in 1..n /\ hand' = <<buf[nextSeq]>>
      BY <2>1 DEF RB!Pop, BufferInv, RB!TypeOK
    <3>5. lock /\ UNCHANGED <<dataCh, closed, lock, taken>>
      BY <2>1 DEF RB!Pop
    <3> QED
      BY <2>0, <3>1, <3>2, <3>3, <3>4, <3>5 DEF BufferInv, RB!TypeOK
  <2>2. CASE RB!Push
    <3>1. hand = <<hand[1]>> /\ hand[1] \in 1..n /\ hand \in Seq(Nat)
      BY <2>2, <1>b DEF RB!Push
    <3> DEFINE i == hand[1]
    <3>2. i \in 1..n /\ i \in Nat
      BY <1>1, <3>1
    <3>3. dataCh' = Append(dataCh, i)
      <4>1. dataCh' = dataCh \o <<i>>
        BY <2>2, <3>1 DEF RB!Push
      <4> HIDE DEF i
      <4> QED
        BY <1>b, <3>2, <4>1, AppendIsConcat
    <3>4. /\ dataCh' \in Seq(Nat) /\ Len(dataCh') = Len(dataCh) + 1
          /\ \A j \in 1..Len(dataCh') : dataCh'[j] \in 1..n
      <4> HIDE DEF i, n
      <4> QED
        BY <1>1, <1>b, <3>2, <3>3, AppendMember
    <3>5. Len(dataCh') <= Size
      BY <2>2, <3>4, <1>b DEF RB!Push
    <3>6. hand' = <<>> /\ UNCHANGED <<buf, nextSeq, closed, lock, taken>>
      BY <2>2 DEF RB!Push
    <3> QED
      BY <2>0, <3>4, <3>5, <3>6 DEF BufferInv, RB!TypeOK
  <2>3. CASE RB!Abort \/ RB!Unlock
    BY <2>0, <2>3 DEF RB!Abort, RB!Unlock, BufferInv, RB!TypeOK
  <2> QED
    BY <1>10, <2>1, <2>2, <2>3 DEF InsertStep
<1>11. CASE Receive
  <2>0. n' = n /\ inflight' = inflight /\ RB!Receive
    BY <1>8, <1>11 DEF Receive, writerVars
  <2> DEFINE h == Head(dataCh)
  <2>1. /\ dataCh # <<>> /\ taken' = Append(taken, h) /\ dataCh' = Tail(dataCh)
        /\ UNCHANGED <<buf, nextSeq, closed, lock, hand>>
    BY <2>0 DEF RB!Receive
  <2>2. /\ h \in 1..n
        /\ dataCh' \in Seq(Nat) /\ Len(dataCh') = Len(dataCh) - 1
        /\ \A j \in 1..Len(dataCh') : dataCh'[j] \in 1..n
    <3> HIDE DEF n
    <3> QED
      BY <1>1, <1>b, <2>1, TailMember
  <2>3. /\ taken' \in Seq(Nat) /\ taken' # <<>>
        /\ \A j \in 1..Len(taken') : taken'[j] \in 1..n
    <3> HIDE DEF h, n
    <3>1. /\ Append(taken, h) \in Seq(Nat) /\ Append(taken, h) # <<>>
          /\ Len(Append(taken, h)) = Len(taken) + 1
          /\ \A j \in 1..Len(taken) + 1 : Append(taken, h)[j] \in 1..n
      <4>1. n \in Nat /\ taken \in Seq(Nat) /\ \A j \in 1..Len(taken) : taken[j] \in 1..n
        BY <1>1, <1>b
      <4>2. h \in 1..n
        BY <2>2
      <4> QED
        BY <4>1, <4>2, AppendMember
    <3> QED
      BY <2>1, <3>1
  <2>4. dataCh' \in Seq(Nat) /\ Len(dataCh') <= Size
    BY <1>b, <2>2 DEF BufferInv, RB!TypeOK
  <2>5. RB!TypeOK'
    BY <2>0, <2>1, <2>3, <2>4 DEF BufferInv, RB!TypeOK
  <2> QED
    BY <2>0, <2>2, <2>3, <2>5 DEF BufferInv
<1>12. CASE CloseReceiver
  <2>0. n' = n /\ inflight' = inflight /\ consumer' = consumer
    BY <1>8, <1>12 DEF CloseReceiver, writerVars, consumerVars
  <2> QED
    BY <1>12, <2>0 DEF CloseReceiver, RB!Close, BufferInv, RB!TypeOK
<1> QED
  BY <1>3, <1>4, <1>5, <1>6, <1>7, <1>9, <1>10, <1>11, <1>12 DEF Next

-----------------------------------------------------------------------------
LEMMA LastTakenIsFrame ==
    ASSUME WriterInv, Cut, BufferInv, taken # <<>>
    PROVE  /\ taken[Len(taken)] \in 1..Len(published)
           /\ LastTaken.from \in Nat /\ LastTaken.to \in Nat
           /\ LastTaken.from < LastTaken.to
           /\ LastTaken.to <= LastTaken.from + MaxPayload
           /\ LastTaken.to <= SW!PublishedBytes
<1>1. taken \in Seq(Nat) /\ Len(taken) \in Nat
  BY BufferMembers DEF BufferInv
<1>2. Len(taken) \in 1..Len(taken)
  BY <1>1, EmptySeq
<1>3. taken[Len(taken)] \in 1..Len(published)
  BY <1>2 DEF BufferInv
<1> DEFINE i == taken[Len(taken)]
<1>4. /\ Len(published) \in Nat
      /\ published[i].from \in Nat /\ published[i].to \in Nat
  BY <1>3, PublishedType
<1>5. published[i].from < published[i].to /\ published[i].to <= published[i].from + MaxPayload
  BY <1>3 DEF Cut
<1>6. /\ SW!PublishedBytes \in Nat
      /\ published[i].to + (Len(published) - i) <= SW!PublishedBytes
  BY <1>3, BytesBehind
<1>7. published[i].to <= SW!PublishedBytes
  BY <1>3, <1>4, <1>6
<1> QED
  BY <1>3, <1>4, <1>5, <1>7 DEF LastTaken

LEMMA AckStep ==
    ASSUME WriterInv, Cut, BufferInv, AckInv, [Next]_vars
    PROVE  AckInv'
<1>0. /\ written \in Nat /\ lastAck \in Nat /\ lastAck <= written
      /\ acks \subseteq 1..lastAck /\ newAcks \subseteq acks
      /\ ackedBytes \in Nat /\ sentBytes \in Nat /\ ackedBytes <= lastAck
  BY DEF AckInv, WriterInv, SW!TypeOK
<1>1. ASSUME UNCHANGED <<written, lastAck, acks, ackFailures>>,
             newAcks' \subseteq newAcks, ackedBytes' \in 0..lastAck,
             consumer' \in {"receive", "write", "stopped"}
      PROVE  AckInv'
  BY <1>1 DEF AckInv
<1>2. CASE Write \/ WaitCancelled \/ WriterStops \/ CloseSender
  BY <1>0, <1>1, <1>2
     DEF Write, WaitCancelled, WriterStops, CloseSender, consumerVars, ackVars, AckInv,
         SW!Read, SW!WaitCancelled, SW!ReadFails, SW!PublishFails, SW!Cancel
<1>3. CASE WriterStep
  BY <1>0, <1>1, <1>3
     DEF WriterStep, consumerVars, ackVars, AckInv,
         SW!CheckWindow, SW!EnterSelect, SW!Wake, SW!EncodeAndAddSent, SW!Publish
<1>4. ASSUME NEW a \in acks, AckArrives(a) PROVE AckInv'
  <2>1. a \in 1..lastAck /\ a \in Nat
    BY <1>0
  <2>2. CASE SW!UpdateAck(a)
    <3>1. SW!Clamped(a) \in Nat /\ SW!Clamped(a) <= lastAck
      BY <1>0, <2>1 DEF SW!Clamped
    <3>2. ackedBytes' \in 0..lastAck
      BY <1>0, <2>2, <3>1 DEF SW!UpdateAck
    <3> QED
      BY <1>1, <1>4, <3>2 DEF AckArrives, HandleAck, consumerVars, AckInv
  <2>3. CASE UNCHANGED writerVars
    BY <1>0, <1>1, <1>4, <2>3 DEF AckArrives, HandleAck, consumerVars, writerVars, AckInv
  <2> QED
    BY <1>4, <2>2, <2>3 DEF AckArrives, HandleAck
<1>5. CASE \E i \in 1..Len(published) : FrameArrives(i)
  BY <1>0, <1>1, <1>5 DEF FrameArrives, writerVars, consumerVars, ackVars, AckInv
<1>6. CASE InsertStep \/ CloseReceiver
  BY <1>0, <1>1, <1>6 DEF InsertStep, CloseReceiver, writerVars, consumerVars, ackVars, AckInv
<1>7. CASE Receive \/ ConsumerStops
  BY <1>0, <1>1, <1>7 DEF Receive, ConsumerStops, writerVars, ackVars, AckInv
<1>8. CASE WriteOut
  <2> DEFINE total == written + LastTaken.to - LastTaken.from
  <2>1. taken # <<>>
    BY <1>8 DEF WriteOut, BufferInv
  <2>2. total \in Nat /\ total > written
    BY <1>0, <2>1, LastTakenIsFrame
  <2>3. written' = total /\ consumer' = "receive" /\ ackedBytes' = ackedBytes
    BY <1>8 DEF WriteOut, writerVars
  <2>4. CASE AckDue(total)
    <3>1. lastAck' = total
      BY <1>8, <2>4 DEF WriteOut
    <3>2. \/ /\ acks' = acks \cup {total} /\ newAcks' = newAcks \cup {total}
             /\ ackFailures' = ackFailures
          \/ /\ ackFailures < MaxAckFailures /\ ackFailures' = ackFailures + 1
             /\ acks' = acks /\ newAcks' = newAcks
      BY <1>8, <2>4 DEF WriteOut
    <3>3. ackFailures' \in 0..MaxAckFailures
      BY <3>2 DEF AckInv
    <3>4. acks \subseteq 1..total /\ total \in 1..total
      BY <1>0, <2>2
    <3>5. acks' \subseteq 1..total /\ newAcks' \subseteq acks'
      BY <1>0, <3>2, <3>4
    <3> QED
      BY <1>0, <2>2, <2>3, <3>1, <3>3, <3>5 DEF AckInv
  <2>5. CASE ~AckDue(total)
    <3>1. UNCHANGED <<lastAck, acks, newAcks, ackFailures>>
      BY <1>8, <2>5 DEF WriteOut
    <3> QED
      BY <1>0, <2>2, <2>3, <3>1 DEF AckInv
  <2> QED
    BY <2>4, <2>5
<1>9. CASE UNCHANGED vars
  BY <1>0, <1>1, <1>9 DEF vars, writerVars, consumerVars, ackVars, AckInv
<1> QED
  BY <1>2, <1>3, <1>4, <1>5, <1>6, <1>7, <1>8, <1>9 DEF Next

(* The inductive invariant that holds whatever the sequence numbers do. *)
StreamInv == WriterInv /\ Cut /\ BufferInv /\ AckInv

LEMMA StreamInvInit == Init => StreamInv
<1> SUFFICES ASSUME Init PROVE StreamInv
  OBVIOUS
<1> USE DEF Init, SW!Init, RB!Init
<1>1. published = <<>> /\ Len(published) = 0 /\ SW!PublishedBytes = 0
  BY DEF SW!PublishedBytes
<1>2. SW!TypeOK
  <2>1. published \in Seq(SW!Frame) /\ frame \in SW!Frame \cup {<<>>}
    BY <1>1
  <2>2. notify \in BOOLEAN /\ cancelled \in BOOLEAN
    OBVIOUS
  <2>3. seq \in 0..SeqMod-1 /\ pc \in SW!PC
    BY DEF SW!PC
  <2> QED
    BY <2>1, <2>2, <2>3 DEF SW!TypeOK
<1>3. WriterInv
  BY <1>2 DEF WriterInv, SW!WindowRespected
<1>4. Cut
  BY <1>1 DEF Cut
<1>5. RB!TypeOK
  <2>1. DOMAIN buf = {} /\ Len(dataCh) = 0
    OBVIOUS
  <2>2. dataCh \in Seq(Nat) /\ taken \in Seq(Nat)
    OBVIOUS
  <2>3. closed \in BOOLEAN /\ lock \in BOOLEAN
    OBVIOUS
  <2> QED
    BY <1>1, <2>1, <2>2, <2>3 DEF RB!TypeOK
<1>6. BufferInv
  BY <1>1, <1>5 DEF BufferInv
<1>7. AckInv
  BY DEF AckInv
<1> QED
  BY <1>3, <1>4, <1>6, <1>7 DEF StreamInv

LEMMA StreamInvStep == StreamInv /\ [Next]_vars => StreamInv'
<1> SUFFICES ASSUME WriterInv, Cut, BufferInv, AckInv, [Next]_vars PROVE StreamInv'
  BY DEF StreamInv
<1>1. WriterInv' /\ Cut' /\ AckInv'
  BY WriterStepInv, CutStep, AckStep
<1>2. BufferInv'
  BY <1>1, BufferStepInv
<1> QED
  BY <1>1, <1>2 DEF StreamInv

(* What the sender takes for acknowledged was written out, and no more     *)
(* than one window lies between the two ends (in the network, the reorder  *)
(* buffer, dataCh and the acks): for every loss, delay and reordering of   *)
(* acks, for frames delivered any number of times, and also when the       *)
(* sequence numbers wrap.                                                  *)
THEOREM WindowOfBytes ==
    Spec => [](ackedBytes <= written /\ sentBytes - written <= Window)
<1>1. StreamInv => ackedBytes <= written /\ sentBytes - written <= Window
  <2> SUFFICES ASSUME StreamInv
               PROVE  ackedBytes <= written /\ sentBytes - written <= Window
    OBVIOUS
  <2>1. /\ ackedBytes \in Nat /\ sentBytes \in Nat /\ written \in Nat /\ lastAck \in Nat
        /\ ackedBytes <= lastAck /\ lastAck <= written
        /\ sentBytes <= ackedBytes + Window
    BY DEF StreamInv, WriterInv, SW!TypeOK, SW!WindowRespected, AckInv
  <2> QED
    BY <2>1
<1> QED
  BY <1>1, StreamInvInit, StreamInvStep, PTL DEF Spec

-----------------------------------------------------------------------------
(* The order of the frames passed on, as long as the sequence numbers do   *)
(* not wrap (the argument of ReorderBufferProofs, for the frames of this   *)
(* sender): a waiting frame stands under its own number, what was passed   *)
(* on lies before nextSeq, and while the session is open nothing before    *)
(* nextSeq is missing.                                                     *)
Increasing(p) == \A j, k \in DOMAIN p : j < k => p[j] < p[k]

OrderInv ==
    /\ \A t \in DOMAIN buf : buf[t] = t + 1
    /\ \A j \in DOMAIN RB!Passed : RB!Passed[j] \in 1..nextSeq
    /\ Increasing(RB!Passed)
    /\ ~closed => /\ Len(RB!Passed) = nextSeq
                  /\ \A j \in DOMAIN RB!Passed : RB!Passed[j] = j

LEMMA WireSeqWithoutWrap ==
    ASSUME MaxBytes < SeqMod, NEW i \in 1..MaxBytes
    PROVE  RB!WireSeq(i) = i - 1
<1>1. i - 1 \in 0..SeqMod-1
  OBVIOUS
<1> QED
  BY <1>1 DEF RB!WireSeq

LEMMA PassedType ==
    ASSUME RB!TypeOK
    PROVE  /\ hand \in Seq(Nat) /\ taken \o dataCh \in Seq(Nat)
           /\ RB!Passed \in Seq(Nat) /\ DOMAIN RB!Passed = 1..Len(RB!Passed)
<1>1. hand \in Seq(Nat)
  <2>1. CASE hand = <<>>
    BY <2>1
  <2>2. ASSUME NEW i \in 1..Len(published), hand = <<i>> PROVE hand \in Seq(Nat)
    <3>1. i \in Nat
      BY DEF RB!TypeOK
    <3> QED
      BY <2>2, <3>1
  <2> QED
    BY <2>1, <2>2 DEF RB!TypeOK
<1>2. taken \o dataCh \in Seq(Nat)
  BY ConcatProperties DEF RB!TypeOK
<1>3. RB!Passed \in Seq(Nat)
  BY <1>1, <1>2, ConcatProperties DEF RB!Passed
<1> QED
  BY <1>1, <1>2, <1>3, LenProperties

LEMMA Associative ==
    ASSUME NEW s \in Seq(Nat), NEW t \in Seq(Nat), NEW u \in Seq(Nat)
    PROVE  (s \o t) \o u = s \o (t \o u)
<1> DEFINE a == (s \o t) \o u
           b == s \o (t \o u)
<1>1. /\ s \o t \in Seq(Nat) /\ Len(s \o t) = Len(s) + Len(t)
      /\ \A i \in 1..Len(s) + Len(t) : (s \o t)[i] = IF i <= Len(s) THEN s[i] ELSE t[i - Len(s)]
  BY ConcatProperties
<1>2. /\ t \o u \in Seq(Nat) /\ Len(t \o u) = Len(t) + Len(u)
      /\ \A i \in 1..Len(t) + Len(u) : (t \o u)[i] = IF i <= Len(t) THEN t[i] ELSE u[i - Len(t)]
  BY ConcatProperties
<1>3. /\ a \in Seq(Nat) /\ Len(a) = Len(s \o t) + Len(u)
      /\ \A i \in 1..Len(s \o t) + Len(u) :
            a[i] = IF i <= Len(s \o t) THEN (s \o t)[i] ELSE u[i - Len(s \o t)]
  BY <1>1, ConcatProperties
<1>4. /\ b \in Seq(Nat) /\ Len(b) = Len(s) + Len(t \o u)
      /\ \A i \in 1..Len(s) + Len(t \o u) :
            b[i] = IF i <= Len(s) THEN s[i] ELSE (t \o u)[i - Len(s)]
  BY <1>2, ConcatProperties
<1>5. Len(s) \in Nat /\ Len(t) \in Nat /\ Len(u) \in Nat
  BY LenProperties
<1> HIDE DEF a, b
<1>6. ASSUME NEW i \in 1..Len(a) PROVE a[i] = b[i]
  <2>1. /\ i \in 1..Len(s) + Len(t) + Len(u) /\ i \in 1..Len(s \o t) + Len(u)
        /\ i \in 1..Len(s) + Len(t \o u) /\ i \in Nat
    BY <1>1, <1>2, <1>3, <1>5
  <2>2. /\ a[i] = IF i <= Len(s) + Len(t) THEN (s \o t)[i] ELSE u[i - (Len(s) + Len(t))]
        /\ b[i] = IF i <= Len(s) THEN s[i] ELSE (t \o u)[i - Len(s)]
    BY <1>1, <1>3, <1>4, <2>1
  <2>3. CASE i <= Len(s)
    <3>1. i \in 1..Len(s) + Len(t) /\ i <= Len(s) + Len(t)
      BY <1>5, <2>1, <2>3
    <3> QED
      BY <1>1, <2>2, <2>3, <3>1
  <2>4. CASE Len(s) < i /\ i <= Len(s) + Len(t)
    <3>1. i \in 1..Len(s) + Len(t) /\ ~(i <= Len(s))
          /\ i - Len(s) \in 1..Len(t) + Len(u) /\ i - Len(s) <= Len(t)
      BY <1>5, <2>1, <2>4
    <3>2. (t \o u)[i - Len(s)] = t[i - Len(s)]
      BY <1>2, <3>1
    <3>3. (s \o t)[i] = t[i - Len(s)]
      BY <1>1, <3>1
    <3> QED
      BY <2>2, <2>4, <3>1, <3>2, <3>3
  <2>5. CASE Len(s) + Len(t) < i
    <3>1. /\ i - Len(s) \in 1..Len(t) + Len(u) /\ ~(i - Len(s) <= Len(t))
          /\ ~(i <= Len(s)) /\ ~(i <= Len(s) + Len(t))
          /\ (i - Len(s)) - Len(t) = i - (Len(s) + Len(t))
      BY <1>5, <2>1, <2>5
    <3>2. (t \o u)[i - Len(s)] = u[i - (Len(s) + Len(t))]
      BY <1>2, <3>1
    <3> QED
      BY <2>2, <3>1, <3>2
  <2> QED
    BY <1>5, <2>1, <2>3, <2>4, <2>5
<1>7. Len(a) = Len(b)
  BY <1>1, <1>2, <1>3, <1>4, <1>5
<1>8. a = b
  BY <1>3, <1>4, <1>6, <1>7, SeqEqual
<1> QED
  BY <1>8 DEF a, b

(* Frames change hands without changing their order. *)
LEMMA PushKeepsPassed ==
    ASSUME RB!TypeOK, RB!Push
    PROVE  RB!Passed' = RB!Passed
<1>1. taken \in Seq(Nat) /\ dataCh \in Seq(Nat) /\ hand \in Seq(Nat) /\ RB!Passed \in Seq(Nat)
  BY PassedType DEF RB!TypeOK
<1>2. RB!Passed' = (taken \o (dataCh \o hand)) \o <<>>
  BY DEF RB!Push, RB!Passed
<1>3. taken \o (dataCh \o hand) = RB!Passed
  <2>1. RB!Passed = (taken \o dataCh) \o hand
    BY DEF RB!Passed
  <2>2. (taken \o dataCh) \o hand = taken \o (dataCh \o hand)
    <3>1. taken \in Seq(Nat) /\ dataCh \in Seq(Nat) /\ hand \in Seq(Nat)
      BY <1>1
    <3> QED
      BY <3>1, Associative
  <2> QED
    BY <2>1, <2>2
<1> QED
  BY <1>1, <1>2, <1>3, ConcatEmptySeq

LEMMA ReceiveKeepsPassed ==
    ASSUME RB!TypeOK, RB!Receive
    PROVE  RB!Passed' = RB!Passed
<1> DEFINE h == Head(dataCh)
           r == Tail(dataCh)
<1>1. /\ taken \in Seq(Nat) /\ dataCh \in Seq(Nat)
      /\ h \in Nat /\ r \in Seq(Nat) /\ <<h>> \in Seq(Nat)
  BY HeadTailProperties DEF RB!Receive, RB!TypeOK
<1>2. dataCh = <<h>> \o r
  <2>1. <<h>> \o r \in Seq(Nat) /\ Len(<<h>> \o r) = Len(dataCh)
    BY <1>1, ConcatProperties, HeadTailProperties DEF RB!Receive
  <2>2. ASSUME NEW i \in 1..Len(dataCh) PROVE (<<h>> \o r)[i] = dataCh[i]
    BY <1>1, ConcatProperties, HeadTailProperties DEF RB!Receive
  <2> QED
    BY <1>1, <2>1, <2>2, SeqEqual
<1>3. Append(taken, h) = taken \o <<h>>
  BY <1>1, AppendIsConcat
<1>4. (taken \o <<h>>) \o r = taken \o (<<h>> \o r)
  BY <1>1, ConcatAssociative
<1> QED
  BY <1>2, <1>3, <1>4 DEF RB!Receive, RB!Passed

LEMMA PopExtendsPassed ==
    ASSUME RB!TypeOK, RB!Pop
    PROVE  RB!Passed' = Append(RB!Passed, buf[nextSeq])
<1>1. buf[nextSeq] \in Nat
  BY DEF RB!Pop, RB!TypeOK
<1>2. RB!Passed = taken \o dataCh
  BY PassedType, ConcatEmptySeq DEF RB!Pop, RB!Passed
<1>3. RB!Passed' = (taken \o dataCh) \o <<buf[nextSeq]>>
  BY DEF RB!Pop, RB!Passed
<1> QED
  BY <1>1, <1>2, <1>3, PassedType, AppendIsConcat

(* RB!Abort takes the last frame away. *)
LEMMA AbortShortensPassed ==
    ASSUME RB!TypeOK, RB!Abort
    PROVE  /\ RB!Passed' = taken \o dataCh
           /\ DOMAIN RB!Passed' \subseteq DOMAIN RB!Passed
           /\ \A j \in DOMAIN RB!Passed' : RB!Passed'[j] = RB!Passed[j]
<1>1. taken \o dataCh \in Seq(Nat) /\ hand \in Seq(Nat) /\ DOMAIN RB!Passed = 1..Len(RB!Passed)
  BY PassedType
<1>2. RB!Passed' = taken \o dataCh
  BY <1>1, ConcatEmptySeq DEF RB!Abort, RB!Passed
<1>3. DOMAIN (taken \o dataCh) = 1..Len(taken \o dataCh)
  BY <1>1, LenProperties
<1>4. Len(RB!Passed) = Len(taken \o dataCh) + Len(hand) /\ Len(hand) \in Nat
  BY <1>1, ConcatProperties, LenProperties DEF RB!Passed
<1>5. \A j \in 1..Len(taken \o dataCh) : RB!Passed[j] = (taken \o dataCh)[j]
  BY <1>1, <1>4, ConcatProperties, LenProperties DEF RB!Passed
<1>6. Len(taken \o dataCh) \in Nat
  BY <1>1, LenProperties
<1> QED
  BY <1>1, <1>2, <1>3, <1>4, <1>5, <1>6

LEMMA OrderStep ==
    ASSUME MaxBytes < SeqMod, RB!TypeOK, OrderInv, [Next]_vars
    PROVE  OrderInv'
<1> USE DEF OrderInv, Increasing
<1>1. ASSUME UNCHANGED <<buf, nextSeq, closed>>, RB!Passed' = RB!Passed
      PROVE  OrderInv'
  BY <1>1
<1>2. CASE UNCHANGED bufferVars
  BY <1>1, <1>2 DEF bufferVars, RB!Passed
<1>3. ASSUME NEW i \in 1..Len(published), RB!InsertDropped(i) PROVE OrderInv'
  BY <1>1, <1>3 DEF RB!InsertDropped, RB!bufferVars, RB!Passed
<1>4. ASSUME NEW i \in 1..Len(published), RB!InsertAccepted(i) PROVE OrderInv'
  <2>1. RB!WireSeq(i) = i - 1
    BY WireSeqWithoutWrap DEF RB!TypeOK
  <2>2. \A t \in DOMAIN buf' : buf'[t] = t + 1
    BY <1>4, <2>1 DEF RB!InsertAccepted, RB!TypeOK
  <2>3. RB!Passed' = RB!Passed /\ UNCHANGED <<nextSeq, closed>>
    BY <1>4 DEF RB!InsertAccepted, RB!Passed
  <2> QED
    BY <2>2, <2>3
<1>5. CASE RB!Pop
  <2>0. nextSeq \in Nat
    BY DEF RB!TypeOK
  <2> DEFINE i == buf[nextSeq]
  <2>1. i = nextSeq + 1 /\ i \in 1..MaxBytes /\ nextSeq' = nextSeq + 1 /\ closed' = closed
    BY <1>5 DEF RB!Pop, RB!NextSeq, RB!TypeOK
  <2>2. RB!Passed' = Append(RB!Passed, i) /\ RB!Passed \in Seq(Nat) /\ i \in Nat
    BY <1>5, <2>1, PopExtendsPassed, PassedType
  <2>3. /\ Len(RB!Passed) \in Nat /\ DOMAIN RB!Passed = 1..Len(RB!Passed)
        /\ DOMAIN RB!Passed' = 1..Len(RB!Passed)+1
        /\ \A j \in 1..Len(RB!Passed) : RB!Passed'[j] = RB!Passed[j]
        /\ RB!Passed'[Len(RB!Passed)+1] = nextSeq + 1
    BY <2>1, <2>2, AppendProperties, LenProperties
  <2>4. \A t \in DOMAIN buf' : buf'[t] = t + 1
    BY <1>5 DEF RB!Pop, RB!TypeOK
  <2>5. \A j \in DOMAIN RB!Passed' : RB!Passed'[j] \in 1..nextSeq'
    <3>1. \A j \in 1..Len(RB!Passed) : RB!Passed[j] \in 1..nextSeq
      BY <2>3
    <3>2. ASSUME NEW j \in 1..Len(RB!Passed) PROVE RB!Passed'[j] \in 1..nextSeq'
      <4>1. RB!Passed'[j] = RB!Passed[j] /\ RB!Passed[j] \in 1..nextSeq
        BY <2>3, <3>1
      <4> QED
        BY <2>1, <4>1 DEF RB!TypeOK
    <3>3. RB!Passed'[Len(RB!Passed)+1] \in 1..nextSeq'
      <4>1. nextSeq + 1 \in 1..nextSeq + 1
        BY <2>0
      <4> QED
        BY <2>1, <2>3, <4>1
    <3> QED
      BY <2>3, <3>2, <3>3
  <2>6. Increasing(RB!Passed')
    <3> SUFFICES ASSUME NEW j \in 1..Len(RB!Passed)+1, NEW k \in 1..Len(RB!Passed)+1, j < k
                 PROVE  RB!Passed'[j] < RB!Passed'[k]
      BY <2>3
    <3>1. j \in 1..Len(RB!Passed) /\ RB!Passed'[j] = RB!Passed[j] /\ RB!Passed[j] \in 1..nextSeq
      BY <2>3
    <3>2. CASE k = Len(RB!Passed) + 1
      <4>1. RB!Passed'[k] = nextSeq + 1
        BY <2>3, <3>2
      <4> QED
        BY <2>0, <3>1, <4>1
    <3>3. CASE k \in 1..Len(RB!Passed)
      <4>1. RB!Passed'[k] = RB!Passed[k] /\ RB!Passed[j] < RB!Passed[k]
        BY <2>3, <3>1, <3>3
      <4> QED
        BY <3>1, <4>1
    <3> QED
      BY <2>3, <3>2, <3>3
  <2>7. ~closed' => Len(RB!Passed') = nextSeq' /\ \A j \in DOMAIN RB!Passed' : RB!Passed'[j] = j
    <3>1. Len(RB!Passed') = Len(RB!Passed) + 1
      BY <2>2, AppendProperties
    <3> QED
      BY <2>1, <2>3, <3>1
  <2> QED
    BY <2>4, <2>5, <2>6, <2>7
<1>6. CASE RB!Push
  BY <1>1, <1>6, PushKeepsPassed DEF RB!Push
<1>7. CASE RB!Abort
  <2>1. /\ DOMAIN RB!Passed' \subseteq DOMAIN RB!Passed
        /\ \A j \in DOMAIN RB!Passed' : RB!Passed'[j] = RB!Passed[j]
    BY <1>7, AbortShortensPassed
  <2>2. closed' /\ UNCHANGED <<buf, nextSeq>>
    BY <1>7 DEF RB!Abort
  <2> QED
    BY <2>1, <2>2
<1>8. CASE RB!Unlock
  BY <1>1, <1>8 DEF RB!Unlock, RB!Passed
<1>9. CASE RB!Receive
  BY <1>1, <1>9, ReceiveKeepsPassed DEF RB!Receive
<1>10. CASE RB!Close
  <2>1. RB!Passed' = RB!Passed /\ UNCHANGED <<buf, nextSeq>> /\ closed'
    BY <1>10 DEF RB!Close, RB!Passed
  <2> QED
    BY <2>1
<1>11. CASE UNCHANGED vars
  BY <1>2, <1>11 DEF vars
<1>12. CASE Write \/ WriterStep \/ WaitCancelled \/ WriterStops \/ CloseSender
            \/ WriteOut \/ ConsumerStops \/ (\E a \in acks : AckArrives(a))
  BY <1>2, <1>12 DEF Write, WriterStep, WaitCancelled, WriterStops, CloseSender, WriteOut,
                     ConsumerStops, AckArrives, HandleAck
<1>13. CASE \E i \in 1..Len(published) : FrameArrives(i)
  BY <1>3, <1>4, <1>13 DEF FrameArrives, RB!Insert
<1>14. CASE InsertStep
  BY <1>5, <1>6, <1>7, <1>8, <1>14 DEF InsertStep
<1>15. CASE Receive \/ CloseReceiver
  BY <1>9, <1>10, <1>15 DEF Receive, CloseReceiver
<1> QED
  BY <1>11, <1>12, <1>13, <1>14, <1>15 DEF Next

LEMMA TakenInPassed ==
    ASSUME RB!TypeOK
    PROVE  /\ Len(taken) \in Nat /\ Len(RB!Passed) \in Nat
           /\ DOMAIN RB!Passed = 1..Len(RB!Passed)
           /\ Len(taken) <= Len(RB!Passed)
           /\ \A j \in 1..Len(taken) : RB!Passed[j] = taken[j]
           /\ dataCh # <<>> => /\ Len(taken) + 1 <= Len(RB!Passed)
                               /\ RB!Passed[Len(taken) + 1] = Head(dataCh)
<1> DEFINE p == taken \o dataCh
<1>1. /\ taken \in Seq(Nat) /\ dataCh \in Seq(Nat) /\ hand \in Seq(Nat)
      /\ p \in Seq(Nat) /\ RB!Passed \in Seq(Nat)
      /\ DOMAIN RB!Passed = 1..Len(RB!Passed)
  BY PassedType, BufferMembers
<1>2. Len(taken) \in Nat /\ Len(dataCh) \in Nat /\ Len(hand) \in Nat /\ Len(p) \in Nat
      /\ Len(RB!Passed) \in Nat
  BY <1>1, LenProperties
<1>3. /\ Len(p) = Len(taken) + Len(dataCh)
      /\ \A j \in 1..Len(p) : p[j] = IF j <= Len(taken) THEN taken[j] ELSE dataCh[j - Len(taken)]
  BY <1>1, ConcatProperties
<1>4. /\ Len(RB!Passed) = Len(p) + Len(hand)
      /\ \A j \in 1..Len(p) : RB!Passed[j] = p[j]
  <2>1. RB!Passed = p \o hand
    BY DEF RB!Passed
  <2> HIDE DEF p
  <2> QED
    BY <1>1, <1>2, <2>1, ConcatProperties
<1>5. \A j \in 1..Len(taken) : RB!Passed[j] = taken[j]
  BY <1>2, <1>3, <1>4
<1>6. ASSUME dataCh # <<>>
      PROVE  Len(taken) + 1 <= Len(RB!Passed) /\ RB!Passed[Len(taken) + 1] = Head(dataCh)
  <2>1. Len(dataCh) >= 1 /\ Head(dataCh) = dataCh[1]
    BY <1>1, <1>2, <1>6, HeadTailProperties, EmptySeq
  <2>2. Len(taken) + 1 \in 1..Len(p) /\ p[Len(taken) + 1] = dataCh[1]
    BY <1>2, <1>3, <2>1
  <2> QED
    BY <1>2, <1>4, <2>1, <2>2
<1> QED
  BY <1>1, <1>2, <1>3, <1>4, <1>5, <1>6

(* The frame the consumer receives next lies behind the last it took, and  *)
(* in an open session right behind it.                                     *)
LEMMA NextTaken ==
    ASSUME WriterInv, Cut, BufferInv, OrderInv, dataCh # <<>>
    PROVE  /\ Head(dataCh) \in 1..Len(published)
           /\ taken # <<>> => /\ taken[Len(taken)] < Head(dataCh)
                              /\ LastTaken.to + (Head(dataCh) - taken[Len(taken)] - 1)
                                    <= published[Head(dataCh)].from
           /\ ~closed => /\ Head(dataCh) = Len(taken) + 1
                         /\ \A j \in 1..Len(taken) : taken[j] = j
<1> DEFINE h == Head(dataCh)
           L == Len(taken)
<1>1. /\ L \in Nat /\ Len(RB!Passed) \in Nat /\ DOMAIN RB!Passed = 1..Len(RB!Passed)
      /\ L + 1 <= Len(RB!Passed) /\ RB!Passed[L + 1] = h
      /\ \A j \in 1..L : RB!Passed[j] = taken[j]
  BY TakenInPassed DEF BufferInv
<1>2. L + 1 \in DOMAIN RB!Passed /\ \A j \in 1..L : j \in DOMAIN RB!Passed
  BY <1>1
<1>3. h \in 1..Len(published)
  <2>1. /\ dataCh \in Seq(Nat) /\ Len(published) \in Nat
        /\ \A j \in 1..Len(dataCh) : dataCh[j] \in 1..Len(published)
    BY PublishedType, BufferMembers DEF BufferInv
  <2> QED
    BY <2>1, TailMember
<1>4. ASSUME taken # <<>>
      PROVE  /\ taken[L] < h
             /\ LastTaken.to + (h - taken[L] - 1) <= published[h].from
  <2>1. L \in 1..L
    <3>1. taken \in Seq(Nat)
      BY BufferMembers DEF BufferInv
    <3> QED
      BY <1>1, <1>4, <3>1, EmptySeq
  <2>2. taken[L] \in 1..Len(published)
    BY <2>1 DEF BufferInv
  <2>3. RB!Passed[L] < RB!Passed[L + 1]
    BY <1>1, <1>2, <2>1 DEF OrderInv, Increasing
  <2>4. taken[L] < h
    BY <1>1, <2>1, <2>3
  <2> QED
    BY <1>3, <2>2, <2>4 DEF Cut, LastTaken
<1>5. ASSUME ~closed PROVE h = L + 1 /\ \A j \in 1..L : taken[j] = j
  <2>1. \A j \in DOMAIN RB!Passed : RB!Passed[j] = j
    BY <1>5 DEF OrderInv
  <2>2. h = L + 1
    BY <1>1, <1>2, <2>1
  <2>3. ASSUME NEW j \in 1..L PROVE taken[j] = j
    BY <1>1, <1>2, <2>1
  <2> QED
    BY <2>2, <2>3
<1> QED
  BY <1>3, <1>4, <1>5

(* The consumer has written out no more than it has taken. *)
WrittenInv ==
    /\ taken = <<>> => written = 0
    /\ taken # <<>> =>
         written <= (IF consumer = "write" THEN LastTaken.from ELSE LastTaken.to)

LEMMA LastTakenStays ==
    ASSUME StreamInv, [Next]_vars, taken' = taken, taken # <<>>
    PROVE  LastTaken' = LastTaken
<1>1. taken[Len(taken)] \in 1..Len(published)
  BY LastTakenIsFrame DEF StreamInv
<1> QED
  BY <1>1, PublishedGrows DEF LastTaken, StreamInv

LEMMA WrittenStep ==
    ASSUME StreamInv, OrderInv, WrittenInv, [Next]_vars
    PROVE  WrittenInv'
<1>0. written \in Nat
  BY DEF StreamInv, AckInv
<1>1. ASSUME UNCHANGED <<taken, written, consumer>> PROVE WrittenInv'
  BY <1>1, LastTakenStays DEF WrittenInv
<1>2. CASE Write \/ WriterStep \/ WaitCancelled \/ WriterStops \/ CloseSender
           \/ \E a \in acks : AckArrives(a)
  BY <1>1, <1>2 DEF Write, WriterStep, WaitCancelled, WriterStops, CloseSender,
                    AckArrives, HandleAck, bufferVars, consumerVars
<1>3. CASE (\E i \in 1..Len(published) : FrameArrives(i)) \/ CloseReceiver
  BY <1>1, <1>3 DEF FrameArrives, CloseReceiver, consumerVars,
                    RB!Insert, RB!InsertDropped, RB!InsertAccepted, RB!Close, RB!bufferVars
<1>4. CASE InsertStep
  BY <1>1, <1>4 DEF InsertStep, consumerVars, RB!Pop, RB!Push, RB!Abort, RB!Unlock
<1>5. CASE Receive
  <2> DEFINE h == Head(dataCh)
  <2>1. /\ consumer = "receive" /\ consumer' = "write" /\ dataCh # <<>>
        /\ taken' = Append(taken, h) /\ written' = written /\ published' = published
    BY <1>5 DEF Receive, RB!Receive, writerVars
  <2>2. h \in 1..Len(published) /\ h \in Nat /\ taken \in Seq(Nat) /\ published[h].from \in Nat
    <3>1. h \in 1..Len(published) /\ taken \in Seq(Nat) /\ Len(published) \in Nat
      BY <2>1, NextTaken, BufferMembers, PublishedType DEF StreamInv, BufferInv
    <3> QED
      BY <3>1, PublishedType DEF StreamInv
  <2>3. taken' # <<>> /\ taken'[Len(taken')] = h
    <3> HIDE DEF h
    <3>1. Append(taken, h) # <<>> /\ Append(taken, h)[Len(Append(taken, h))] = h
      BY <2>2, AppendProperties
    <3> QED
      BY <2>1, <3>1
  <2>4. LastTaken' = published[h]
    BY <2>1, <2>3 DEF LastTaken
  <2>5. written <= published[h].from
    <3>1. CASE taken = <<>>
      BY <2>2, <3>1 DEF WrittenInv
    <3>2. CASE taken # <<>>
      <4>1. written <= LastTaken.to /\ LastTaken.to \in Nat /\ taken[Len(taken)] \in Nat
        <5>1. taken[Len(taken)] \in 1..Len(published) /\ LastTaken.to \in Nat
          BY <3>2, LastTakenIsFrame DEF StreamInv
        <5> QED
          BY <2>1, <3>2, <5>1, PublishedType DEF WrittenInv, StreamInv
      <4>2. /\ taken[Len(taken)] < h
            /\ LastTaken.to + (h - taken[Len(taken)] - 1) <= published[h].from
        BY <2>1, <3>2, NextTaken DEF StreamInv
      <4> HIDE DEF h
      <4> QED
        BY <1>0, <2>2, <4>1, <4>2
    <3> QED
      BY <3>1, <3>2
  <2> QED
    BY <2>1, <2>3, <2>4, <2>5 DEF WrittenInv
<1>6. CASE WriteOut
  <2>1. /\ consumer = "write" /\ consumer' = "receive" /\ taken' = taken
        /\ written' = written + LastTaken.to - LastTaken.from
    BY <1>6 DEF WriteOut, bufferVars
  <2>2. taken # <<>>
    BY <2>1 DEF StreamInv, BufferInv
  <2>3. LastTaken' = LastTaken
    BY <2>1, <2>2, LastTakenStays
  <2>4. LastTaken.from \in Nat /\ LastTaken.to \in Nat /\ written <= LastTaken.from
    BY <2>1, <2>2, LastTakenIsFrame DEF StreamInv, WrittenInv
  <2> QED
    BY <1>0, <2>1, <2>2, <2>3, <2>4 DEF WrittenInv
<1>7. CASE ConsumerStops
  <2>1. consumer' = "stopped" /\ taken' = taken /\ written' = written
    BY <1>7 DEF ConsumerStops, bufferVars
  <2>2. ASSUME taken # <<>> PROVE written <= LastTaken.to /\ LastTaken' = LastTaken
    <3>1. LastTaken.from \in Nat /\ LastTaken.to \in Nat /\ LastTaken.from < LastTaken.to
      BY <2>2, LastTakenIsFrame DEF StreamInv
    <3> QED
      BY <1>0, <2>1, <2>2, <3>1, LastTakenStays DEF WrittenInv
  <2> QED
    BY <2>1, <2>2 DEF WrittenInv
<1>8. CASE UNCHANGED vars
  BY <1>1, <1>8 DEF vars, bufferVars, consumerVars
<1> QED
  BY <1>2, <1>3, <1>4, <1>5, <1>6, <1>7, <1>8 DEF Next

-----------------------------------------------------------------------------
(* The buffer holds frames, the window counts bytes: how many frames fit   *)
(* the window depends on how small they are.  When every read returns at   *)
(* least m bytes, and no read is cut or m is 1, every frame carries m      *)
(* bytes.                                                                  *)
ReadsOf(m) ==
    /\ m \in Nat \ {0}
    /\ \A n \in ReadSizes : n >= m /\ (n <= MaxPayload \/ m = 1)

Spaced(m) ==
    /\ pc \in {"check", "blocked", "select", "granted", "publish"} =>
          rest >= m /\ (rest <= MaxPayload \/ m = 1)
    /\ \A i \in 1..Len(published) :
          m * (i - 1) <= published[i].from /\ published[i].from + m <= published[i].to
    /\ \A i, j \in 1..Len(published) :
          i < j => published[i].to + m * (j - i - 1) <= published[j].from

LEMMA Distribute ==
    ASSUME NEW m \in Int, NEW k \in Int
    PROVE  m * k = m * (k - 1) + m
OBVIOUS

LEMMA Cancel ==
    ASSUME NEW m \in Nat \ {0}, NEW a \in Int, NEW b \in Int, m * a <= m * b
    PROVE  a <= b
<1> SUFFICES ASSUME a >= b + 1 PROVE FALSE
  OBVIOUS
<1> DEFINE d == a - b
<1>1. d \in Nat \ {0} /\ m * a = m * b + m * d
  OBVIOUS
<1>2. m * d >= m
  <2>1. d - 1 \in Nat /\ m * d = m * (d - 1) + m
    BY <1>1
  <2>2. m * (d - 1) >= 0
    BY <2>1
  <2> QED
    BY <2>1, <2>2
<1> QED
  BY <1>1, <1>2

LEMMA SpacedBehind ==
    ASSUME WriterInv, NEW m \in Nat \ {0}, Spaced(m)
    PROVE  /\ m * Len(published) <= SW!PublishedBytes
           /\ \A i \in 1..Len(published) :
                published[i].to + m * (Len(published) - i) <= SW!PublishedBytes
<1> DEFINE n == Len(published)
<1>1. /\ published \in Seq(SW!Frame) /\ n \in Nat
      /\ \A i \in 1..n : published[i].from \in Nat /\ published[i].to \in Nat
  BY PublishedType
<1>2. CASE published = <<>>
  <2>1. n = 0 /\ m * 0 = 0 /\ SW!PublishedBytes = 0
    BY <1>2 DEF SW!PublishedBytes
  <2> QED
    BY <2>1
<1>3. CASE published # <<>>
  <2>1. n \in 1..n /\ SW!PublishedBytes = published[n].to
    BY <1>1, <1>3, EmptySeq DEF SW!PublishedBytes
  <2>2. m * (n - 1) <= published[n].from /\ published[n].from + m <= published[n].to
    BY <2>1 DEF Spaced
  <2>3. m * n = m * (n - 1) + m /\ m * n \in Int /\ m * (n - 1) \in Int
    BY <1>1, Distribute
  <2>4. ASSUME NEW i \in 1..n PROVE published[i].to + m * (n - i) <= published[n].to
    <3>1. CASE i = n
      <4>1. m * (n - i) = 0
        BY <1>1, <3>1
      <4> QED
        BY <1>1, <2>1, <3>1, <4>1
    <3>2. CASE i < n
      <4>1. published[i].to + m * (n - i - 1) <= published[n].from
        BY <2>1, <3>2 DEF Spaced
      <4>2. m * (n - i) = m * (n - i - 1) + m /\ m * (n - i - 1) \in Int
        BY <1>1, Distribute
      <4> QED
        BY <1>1, <2>1, <2>2, <4>1, <4>2
    <3> QED
      BY <1>1, <3>1, <3>2
  <2> QED
    BY <1>1, <2>1, <2>2, <2>3, <2>4
<1> QED
  BY <1>2, <1>3

LEMMA SpacedStep ==
    ASSUME NEW m, ReadsOf(m), WriterInv, Cut, Spaced(m), [Next]_vars
    PROVE  Spaced(m)'
<1>m. m \in Nat \ {0}
  BY DEF ReadsOf
<1>r. rest \in Nat
  BY DEF WriterInv, SW!TypeOK
<1>0. ASSUME UNCHANGED <<published, rest>>,
             pc' \in {"check", "blocked", "select", "granted", "publish"} =>
               pc \in {"check", "blocked", "select", "granted", "publish"}
      PROVE  Spaced(m)'
  BY <1>0 DEF Spaced
<1>1. CASE UNCHANGED writerVars
  BY <1>0, <1>1 DEF writerVars
<1>2. ASSUME NEW n \in ReadSizes, SW!Read(n) PROVE Spaced(m)'
  BY <1>2 DEF SW!Read, Spaced, ReadsOf
<1>3. CASE SW!CheckWindow \/ SW!EnterSelect \/ SW!Wake \/ SW!WaitCancelled
  BY <1>0, <1>3 DEF SW!CheckWindow, SW!EnterSelect, SW!Wake, SW!WaitCancelled
<1>4. CASE SW!ReadFails \/ SW!Cancel
  BY <1>0, <1>4 DEF SW!ReadFails, SW!Cancel
<1>5. ASSUME NEW a \in acks, SW!UpdateAck(a) PROVE Spaced(m)'
  BY <1>0, <1>5 DEF SW!UpdateAck
<1>6. CASE SW!PublishFails \/ SW!EncodeAndAddSent
  BY <1>0, <1>6 DEF SW!PublishFails, SW!EncodeAndAddSent
<1>7. CASE SW!Publish
  <2> DEFINE n == Len(published)
  <2>1. /\ frame \in SW!Frame /\ frame.from \in Nat /\ frame.to \in Nat
        /\ Len(published') = n + 1 /\ published'[n + 1] = frame
        /\ \A i \in 1..n : published'[i] = published[i]
    BY <1>7, PublishExtends DEF SW!Frame
  <2>2. n \in Nat
    BY PublishedType
  <2>3. rest >= m /\ (rest <= MaxPayload \/ m = 1)
    BY <1>7 DEF SW!Publish, Spaced
  <2>4. frame.from = SW!PublishedBytes /\ frame.from + m <= frame.to
    <3>1. pc = "publish"
      BY <1>7 DEF SW!Publish
    <3>2. frame.from = SW!PublishedBytes
      BY <3>1 DEF Cut
    <3>3. frame.to - frame.from = SW!Chunk
      BY <3>1 DEF WriterInv
    <3>4. SW!Chunk \in Nat /\ SW!Chunk >= m
      BY <1>m, <1>r, <2>3 DEF SW!Chunk
    <3> QED
      BY <1>m, <2>1, <3>2, <3>3, <3>4
  <2>5. m * n <= frame.from /\ \A i \in 1..n : published[i].to + m * (n - i) <= frame.from
    BY <1>m, <2>4, SpacedBehind
  <2>6. ASSUME NEW i \in 1..n + 1
        PROVE  m * (i - 1) <= published'[i].from /\ published'[i].from + m <= published'[i].to
    <3>1. CASE i \in 1..n
      BY <2>1, <3>1 DEF Spaced
    <3>2. CASE i = n + 1
      <4>1. i - 1 = n
        BY <2>2, <3>2
      <4> QED
        BY <2>1, <2>4, <2>5, <3>2, <4>1
    <3> QED
      BY <2>2, <3>1, <3>2
  <2>7. ASSUME NEW i \in 1..n + 1, NEW j \in 1..n + 1, i < j
        PROVE  published'[i].to + m * (j - i - 1) <= published'[j].from
    <3>1. i \in 1..n /\ published'[i] = published[i]
      BY <2>1, <2>2, <2>7
    <3>2. CASE j \in 1..n
      BY <2>1, <2>7, <3>1, <3>2 DEF Spaced
    <3>3. CASE j = n + 1
      <4>1. j - i - 1 = n - i
        BY <2>2, <3>3
      <4> QED
        BY <2>1, <2>5, <3>1, <3>3, <4>1
    <3> QED
      BY <2>2, <3>2, <3>3
  <2>8. pc' = "check" => rest' >= m /\ (rest' <= MaxPayload \/ m = 1)
    <3> SUFFICES ASSUME pc' = "check"
                 PROVE  rest' >= m /\ (rest' <= MaxPayload \/ m = 1)
      OBVIOUS
    <3>1. rest' = rest - SW!Chunk /\ rest # SW!Chunk
      BY <1>7 DEF SW!Publish
    <3>2. rest > MaxPayload /\ SW!Chunk = MaxPayload /\ m = 1
      BY <1>r, <2>3, <3>1 DEF SW!Chunk
    <3> QED
      BY <1>r, <3>1, <3>2
  <2>9. pc' \in {"read", "check"}
    BY <1>7 DEF SW!Publish
  <2> QED
    BY <2>1, <2>6, <2>7, <2>8, <2>9 DEF Spaced
<1>8. CASE UNCHANGED vars
  BY <1>1, <1>8 DEF vars
<1> QED
  BY <1>1, <1>2, <1>3, <1>4, <1>5, <1>6, <1>7, <1>8
     DEF Next, Write, WriterStep, WaitCancelled, WriterStops, CloseSender, AckArrives,
         HandleAck, FrameArrives, InsertStep, Receive, WriteOut, ConsumerStops, CloseReceiver

(* Everything published and not yet passed on is within reach of the       *)
(* buffer.                                                                 *)
LEMMA WithinReach ==
    ASSUME MaxBytes < SeqMod, NEW m, ReadsOf(m), Window <= m * Size,
           StreamInv, OrderInv, WrittenInv, Spaced(m), ~closed,
           NEW i \in 1..Len(published)
    PROVE  ~RB!TooFar(RB!WireSeq(i))
<1> DEFINE n == Len(published)
           L == Len(taken)
           B == SW!PublishedBytes
<1>m. m \in Nat \ {0}
  BY DEF ReadsOf
<1>1. /\ n \in Nat /\ n <= MaxBytes /\ B \in Nat
      /\ \A k \in 1..n : published[k].from \in Nat /\ published[k].to \in Nat
  BY PublishedType, BytesBehind DEF StreamInv, Cut
<1>2. RB!WireSeq(i) = i - 1 /\ i \in 1..n
  BY <1>1, WireSeqWithoutWrap
<1>3. nextSeq \in Nat
  BY DEF StreamInv, BufferInv, RB!TypeOK
<1>4. B <= written + Window /\ written \in Nat
  BY <1>1 DEF StreamInv, Cut, AckInv, WriterInv, SW!TypeOK, SW!WindowRespected
<1>5. n - nextSeq <= Size
  <2>1. m * n <= B /\ \A k \in 1..n : published[k].to + m * (n - k) <= B
    BY <1>m, SpacedBehind DEF StreamInv
  <2>2. /\ L \in Nat /\ L <= nextSeq
        /\ \A j \in 1..L : taken[j] = j
    <3>1. /\ L \in Nat /\ DOMAIN RB!Passed = 1..Len(RB!Passed)
          /\ L <= Len(RB!Passed) /\ Len(RB!Passed) \in Nat
          /\ \A j \in 1..L : RB!Passed[j] = taken[j]
      BY TakenInPassed DEF StreamInv, BufferInv
    <3>2. Len(RB!Passed) = nextSeq /\ \A j \in DOMAIN RB!Passed : RB!Passed[j] = j
      BY DEF OrderInv
    <3> QED
      BY <3>1, <3>2
  <2>3. CASE L = 0
    <3>1. written = 0
      <4>1. taken = <<>>
        BY <2>3, BufferMembers, EmptySeq DEF StreamInv, BufferInv
      <4> QED
        BY <4>1 DEF WrittenInv
    <3>2. m * n <= m * Size /\ m * n \in Int /\ m * Size \in Int
      BY <1>m, <1>1, <1>4, <2>1, <3>1
    <3>3. n <= Size
      BY <1>m, <1>1, <3>2, Cancel
    <3> QED
      BY <1>1, <1>3, <3>3
  <2>4. CASE L # 0
    <3>1. taken # <<>> /\ L \in 1..L /\ taken[L] = L
      <4>1. taken # <<>>
        BY <2>4
      <4>2. L \in 1..L
        BY <2>2, <2>4
      <4> QED
        BY <2>2, <4>1, <4>2
    <3>2. L \in 1..n /\ LastTaken = published[L]
      BY <3>1, LastTakenIsFrame DEF StreamInv, LastTaken
    <3>3. written <= published[L].to
      <4>1. published[L].from < published[L].to
        BY <3>2 DEF StreamInv, Cut
      <4> QED
        BY <1>1, <1>4, <3>1, <3>2, <4>1 DEF WrittenInv
    <3>4. published[L].to + m * (n - L) <= B /\ published[L].to \in Nat
      BY <1>1, <2>1, <3>2
    <3>5. m * (n - L) <= m * Size /\ m * (n - L) \in Int /\ m * Size \in Int
      <4>1. m * (n - L) \in Int /\ m * Size \in Int
        BY <1>m, <1>1, <2>2
      <4>2. published[L].to + m * (n - L) <= written + Window
        BY <1>1, <1>4, <3>4, <4>1
      <4>3. m * (n - L) <= Window
        BY <1>4, <3>3, <3>4, <4>1, <4>2
      <4> QED
        BY <4>1, <4>3
    <3>6. n - L <= Size
      BY <1>m, <1>1, <2>2, <3>5, Cancel
    <3> QED
      BY <1>1, <1>3, <2>2, <3>6
  <2> QED
    BY <2>3, <2>4
<1> QED
  BY <1>1, <1>2, <1>3, <1>5 DEF RB!TooFar

OrderedInv == StreamInv /\ OrderInv /\ WrittenInv

LEMMA OrderedInvInit == Init => OrderedInv
<1> SUFFICES ASSUME Init PROVE OrderedInv
  OBVIOUS
<1>1. RB!Passed = <<>> /\ DOMAIN buf = {} /\ taken = <<>> /\ written = 0
  BY DEF Init, RB!Init, RB!Passed
<1>2. OrderInv
  BY <1>1 DEF Init, RB!Init, OrderInv, Increasing
<1> QED
  BY <1>1, <1>2, StreamInvInit DEF OrderedInv, WrittenInv

LEMMA OrderedInvStep ==
    ASSUME MaxBytes < SeqMod
    PROVE  OrderedInv /\ [Next]_vars => OrderedInv'
<1> SUFFICES ASSUME StreamInv, OrderInv, WrittenInv, [Next]_vars PROVE OrderedInv'
  BY DEF OrderedInv
<1>1. StreamInv'
  BY StreamInvStep
<1>2. OrderInv'
  BY OrderStep DEF StreamInv, BufferInv
<1>3. WrittenInv'
  BY WrittenStep
<1> QED
  BY <1>1, <1>2, <1>3 DEF OrderedInv

(* The types of the whole direction, the bound on what is written and      *)
(* acknowledged included: without a wrap nothing is written twice.         *)
THEOREM TypeCorrect ==
    ASSUME MaxBytes < SeqMod
    PROVE  Spec => []TypeOK
<1>1. OrderedInv => TypeOK
  <2> SUFFICES ASSUME OrderedInv PROVE TypeOK
    OBVIOUS
  <2>1. SW!TypeOK /\ RB!TypeOK
    BY DEF OrderedInv, StreamInv, WriterInv, BufferInv
  <2>2. /\ consumer \in {"receive", "write", "stopped"}
        /\ written \in Nat /\ lastAck \in 0..written
        /\ newAcks \subseteq acks /\ acks \subseteq 1..lastAck
        /\ ackFailures \in 0..MaxAckFailures
    BY DEF OrderedInv, StreamInv, AckInv
  <2>3. written <= MaxBytes
    <3>1. CASE taken = <<>>
      BY <3>1 DEF OrderedInv, WrittenInv
    <3>2. CASE taken # <<>>
      <4>1. /\ LastTaken.from \in Nat /\ LastTaken.to \in Nat
            /\ LastTaken.from < LastTaken.to /\ LastTaken.to <= SW!PublishedBytes
        BY <3>2, LastTakenIsFrame DEF OrderedInv, StreamInv
      <4>2. written <= LastTaken.to
        BY <2>2, <3>2, <4>1 DEF OrderedInv, WrittenInv
      <4>3. SW!PublishedBytes \in Nat /\ SW!PublishedBytes <= sentBytes
            /\ sentBytes \in Nat /\ sentBytes <= MaxBytes
        BY BytesBehind DEF OrderedInv, StreamInv, Cut, WriterInv, SW!TypeOK
      <4> QED
        BY <2>2, <4>1, <4>2, <4>3
    <3> QED
      BY <3>1, <3>2
  <2>4. acks \subseteq 1..MaxBytes /\ written \in 0..MaxBytes
    BY <2>2, <2>3
  <2> QED
    BY <2>1, <2>2, <2>4 DEF TypeOK
<1> QED
  BY <1>1, OrderedInvInit, OrderedInvStep, PTL DEF Spec

(* The window holds end to end, and no frame of an open session is dropped *)
(* as ErrBufferFull, when as many of the smallest frames as fill the       *)
(* window fit the reorder buffer (with the code's 256 KB and 64 slots:     *)
(* when the reads return 4 KB or more), for every order of delivery.       *)
THEOREM WindowHoldsEndToEnd ==
    ASSUME MaxBytes < SeqMod, NEW CONSTANT m, ReadsOf(m), Window <= m * Size
    PROVE  Spec => []WindowEndToEnd
<1>1. Init => OrderedInv /\ Spaced(m)
  <2> SUFFICES ASSUME Init PROVE Spaced(m)
    BY OrderedInvInit
  <2>1. Len(published) = 0 /\ pc = "read"
    BY DEF Init, SW!Init
  <2> QED
    BY <2>1 DEF Spaced
<1>2. OrderedInv /\ Spaced(m) /\ [Next]_vars => (OrderedInv /\ Spaced(m))'
  BY OrderedInvStep, SpacedStep DEF OrderedInv, StreamInv
<1>3. OrderedInv /\ Spaced(m) => WindowEndToEnd
  <2> SUFFICES ASSUME OrderedInv, Spaced(m) PROVE WindowEndToEnd
    OBVIOUS
  <2>1. /\ ackedBytes \in Nat /\ sentBytes \in Nat /\ written \in Nat /\ lastAck \in Nat
        /\ ackedBytes <= lastAck /\ lastAck <= written
        /\ sentBytes <= ackedBytes + Window
    BY DEF OrderedInv, StreamInv, WriterInv, SW!TypeOK, SW!WindowRespected, AckInv
  <2>2. ackedBytes <= written /\ sentBytes - written <= Window
    BY <2>1
  <2>3. ~closed => \A i \in 1..Len(published) : ~RB!TooFar(RB!WireSeq(i))
    BY WithinReach DEF OrderedInv
  <2> QED
    BY <2>2, <2>3 DEF WindowEndToEnd
<1> QED
  BY <1>1, <1>2, <1>3, PTL DEF Spec

-----------------------------------------------------------------------------
(* The refinement: publishing a frame produces its bytes, the consumer's   *)
(* receive delivers them, closing the receiving session closes the stream, *)
(* and every other step leaves the stream alone.                           *)
Delivered == IF taken = <<>> THEN 0 ELSE LastTaken.to
Whole     == \A j \in DOMAIN taken : taken[j] = j

(* Without a gap before it, a frame starts where the last one ended. *)
LEMMA StartsWhereLastEnded ==
    ASSUME OrderedInv, dataCh # <<>>
    PROVE  /\ Head(dataCh) \in 1..Len(published)
           /\ Delivered \in Nat
           /\ Delivered <= published[Head(dataCh)].from
           /\ published[Head(dataCh)].from < published[Head(dataCh)].to
           /\ published[Head(dataCh)].to <= SW!PublishedBytes
           /\ (\A j \in 1..Len(taken) : taken[j] = j) =>
                 (Head(dataCh) = Len(taken) + 1
                    <=> published[Head(dataCh)].from = Delivered)
<1> DEFINE h == Head(dataCh)
           L == Len(taken)
<1>1. /\ h \in 1..Len(published)
      /\ taken # <<>> => /\ taken[L] < h
                         /\ LastTaken.to + (h - taken[L] - 1) <= published[h].from
  BY NextTaken DEF OrderedInv, StreamInv
<1>2. /\ published[h].from \in Nat /\ published[h].to \in Nat /\ h \in Nat
      /\ Len(published) \in Nat /\ L \in Nat
  <2>1. /\ Len(published) \in Nat
        /\ \A k \in 1..Len(published) : published[k].from \in Nat /\ published[k].to \in Nat
    BY PublishedType DEF OrderedInv, StreamInv
  <2>2. L \in Nat
    BY BufferMembers DEF OrderedInv, StreamInv, BufferInv
  <2> HIDE DEF h
  <2> QED
    BY <1>1, <2>1, <2>2
<1>3. published[h].from < published[h].to /\ h <= published[h].from + 1
      /\ published[h].from = (IF h = 1 THEN 0 ELSE published[h-1].to)
  BY <1>1 DEF OrderedInv, StreamInv, Cut
<1>4. published[h].to <= SW!PublishedBytes
  <2>1. SW!PublishedBytes \in Nat
        /\ published[h].to + (Len(published) - h) <= SW!PublishedBytes
    BY <1>1, BytesBehind DEF OrderedInv, StreamInv
  <2> QED
    BY <1>1, <1>2, <2>1
<1>5. CASE taken = <<>>
  <2>1. Delivered = 0 /\ L = 0
    BY <1>5 DEF Delivered
  <2>2. h = 1 <=> published[h].from = 0
    BY <1>1, <1>2, <1>3
  <2> QED
    BY <1>1, <1>2, <1>3, <1>4, <2>1, <2>2
<1>6. CASE taken # <<>>
  <2>1. Delivered = LastTaken.to /\ LastTaken.to \in Nat /\ taken[L] \in 1..Len(published)
    BY <1>6, LastTakenIsFrame DEF OrderedInv, StreamInv, Delivered
  <2>2. Delivered <= published[h].from
    BY <1>1, <1>2, <1>6, <2>1
  <2>3. ASSUME taken[L] = L
        PROVE  h = L + 1 <=> published[h].from = Delivered
    <3>1. LastTaken.to = published[L].to
      BY <2>3 DEF LastTaken
    <3>2. ASSUME h = L + 1 PROVE published[h].from = Delivered
      <4>1. h # 1 /\ h - 1 = L
        BY <1>2, <2>1, <2>3, <3>2
      <4> QED
        BY <1>3, <2>1, <3>1, <4>1
    <3>3. ASSUME published[h].from = Delivered PROVE h = L + 1
      BY <1>1, <1>2, <1>6, <2>1, <2>3, <3>3
    <3> QED
      BY <3>2, <3>3
  <2>4. L \in 1..L
    <3>1. taken \in Seq(Nat)
      BY BufferMembers DEF OrderedInv, StreamInv, BufferInv
    <3> QED
      BY <1>2, <1>6, <3>1, EmptySeq
  <2> QED
    BY <1>1, <1>2, <1>3, <1>4, <2>1, <2>2, <2>3, <2>4
<1> QED
  BY <1>5, <1>6

LEMMA ProducedStays ==
    ASSUME published' = published
    PROVE  SW!PublishedBytes' = SW!PublishedBytes
BY DEF SW!PublishedBytes

LEMMA DeliveredStays ==
    ASSUME StreamInv, [Next]_vars, taken' = taken
    PROVE  Delivered' = Delivered /\ (Whole' <=> Whole)
BY LastTakenStays DEF Delivered, Whole

(* One step of the direction is one of the stream, or none. *)
LEMMA StreamStep ==
    ASSUME OrderedInv, [Next]_vars
    PROVE  \/ /\ SW!PublishedBytes' > SW!PublishedBytes
              /\ Delivered' = Delivered /\ (Whole' <=> Whole) /\ (closed' <=> closed)
           \/ /\ SW!PublishedBytes' = SW!PublishedBytes
              /\ \E from \in 0..SW!PublishedBytes :
                    /\ Delivered <= from /\ (~closed => from = Delivered)
                    /\ from < Delivered' /\ Delivered' <= SW!PublishedBytes
                    /\ (Whole' <=> Whole /\ from = Delivered)
              /\ (closed' <=> closed)
           \/ /\ ~closed /\ closed'
              /\ SW!PublishedBytes' = SW!PublishedBytes
              /\ Delivered' = Delivered /\ (Whole' <=> Whole)
           \/ /\ SW!PublishedBytes' = SW!PublishedBytes
              /\ Delivered' = Delivered /\ (Whole' <=> Whole) /\ (closed' <=> closed)
<1>0. StreamInv
  BY DEF OrderedInv
<1>s. ASSUME UNCHANGED <<published, taken, closed>>
      PROVE  /\ SW!PublishedBytes' = SW!PublishedBytes
             /\ Delivered' = Delivered /\ (Whole' <=> Whole) /\ (closed' <=> closed)
  BY <1>0, <1>s, ProducedStays, DeliveredStays
<1>1. CASE Write \/ WaitCancelled \/ WriterStops \/ CloseSender
  BY <1>s, <1>1 DEF Write, WaitCancelled, WriterStops, CloseSender, bufferVars,
       SW!Read, SW!WaitCancelled, SW!ReadFails, SW!PublishFails, SW!Cancel
<1>2. CASE WriterStep
  <2>1. CASE SW!CheckWindow \/ SW!EnterSelect \/ SW!Wake \/ SW!EncodeAndAddSent
    BY <1>s, <1>2, <2>1 DEF WriterStep, bufferVars,
         SW!CheckWindow, SW!EnterSelect, SW!Wake, SW!EncodeAndAddSent
  <2>2. CASE SW!Publish
    <3>1. SW!PublishedBytes' = frame.to /\ frame \in SW!Frame
      BY <1>0, <2>2, PublishExtends DEF StreamInv
    <3>2. /\ pc = "publish" /\ frame.from = SW!PublishedBytes
          /\ frame.to - frame.from = SW!Chunk /\ SW!Chunk \in 1..MaxPayload
      BY <1>0, <2>2, ChunkBounds DEF StreamInv, Cut, WriterInv, SW!TypeOK, SW!Publish
    <3>3. SW!PublishedBytes' > SW!PublishedBytes
      BY <3>1, <3>2 DEF SW!Frame
    <3>4. Delivered' = Delivered /\ (Whole' <=> Whole) /\ (closed' <=> closed)
      BY <1>0, <1>2, DeliveredStays DEF WriterStep, bufferVars
    <3> QED
      BY <3>3, <3>4
  <2> QED
    BY <1>2, <2>1, <2>2 DEF WriterStep
<1>3. CASE \E a \in acks : AckArrives(a)
  BY <1>s, <1>3 DEF AckArrives, HandleAck, bufferVars, writerVars, SW!UpdateAck
<1>4. CASE \E i \in 1..Len(published) : FrameArrives(i)
  BY <1>s, <1>4 DEF FrameArrives, writerVars,
       RB!Insert, RB!InsertDropped, RB!InsertAccepted, RB!bufferVars
<1>5. CASE InsertStep
  BY <1>s, <1>5 DEF InsertStep, writerVars, RB!Pop, RB!Push, RB!Abort, RB!Unlock
<1>6. CASE WriteOut \/ ConsumerStops \/ UNCHANGED vars
  BY <1>s, <1>6 DEF WriteOut, ConsumerStops, vars, writerVars, bufferVars
<1>7. CASE CloseReceiver
  <2>1. ~closed /\ closed' /\ published' = published /\ taken' = taken
    BY <1>7 DEF CloseReceiver, RB!Close, writerVars
  <2> QED
    BY <1>0, <2>1, ProducedStays, DeliveredStays
<1>8. CASE Receive
  <2> DEFINE h == Head(dataCh)
             f == published[h].from
  <2>1. /\ dataCh # <<>> /\ taken' = Append(taken, h)
        /\ published' = published /\ closed' = closed
    BY <1>8 DEF Receive, RB!Receive, writerVars
  <2>2. /\ h \in 1..Len(published) /\ Delivered \in Nat /\ Delivered <= f
        /\ f < published[h].to /\ published[h].to <= SW!PublishedBytes
        /\ (\A j \in 1..Len(taken) : taken[j] = j) => (h = Len(taken) + 1 <=> f = Delivered)
    BY <2>1, StartsWhereLastEnded
  <2>3. /\ f \in Nat /\ published[h].to \in Nat /\ h \in Nat /\ SW!PublishedBytes \in Nat
        /\ taken \in Seq(Nat) /\ Len(taken) \in Nat
    <3>1. /\ Len(published) \in Nat
          /\ \A k \in 1..Len(published) : published[k].from \in Nat /\ published[k].to \in Nat
      BY <1>0, PublishedType DEF StreamInv
    <3>2. SW!PublishedBytes \in Nat
      BY <1>0, BytesBehind DEF StreamInv
    <3>3. taken \in Seq(Nat) /\ Len(taken) \in Nat
      BY <1>0, BufferMembers DEF StreamInv, BufferInv
    <3>4. h \in 1..Len(published)
      BY <2>2
    <3> HIDE DEF h
    <3> QED
      BY <3>1, <3>2, <3>3, <3>4
  <2>4. /\ taken' # <<>> /\ taken' \in Seq(Nat) /\ Len(taken') = Len(taken) + 1
        /\ taken'[Len(taken) + 1] = h
        /\ \A j \in 1..Len(taken) : taken'[j] = taken[j]
        /\ DOMAIN taken' = 1..Len(taken')
    <3> HIDE DEF h
    <3>1. /\ Append(taken, h) \in Seq(Nat) /\ Append(taken, h) # <<>>
          /\ Len(Append(taken, h)) = Len(taken) + 1
          /\ Append(taken, h)[Len(taken) + 1] = h
          /\ \A j \in 1..Len(taken) : Append(taken, h)[j] = taken[j]
      BY <2>3, AppendProperties
    <3> QED
      BY <2>1, <3>1, LenProperties
  <2>5. Delivered' = published[h].to
    BY <2>1, <2>4 DEF Delivered, LastTaken
  <2>6. Whole <=> \A j \in 1..Len(taken) : taken[j] = j
    BY <2>3, LenProperties DEF Whole
  <2>7. Whole' <=> (Whole /\ h = Len(taken) + 1)
    <3>1. Whole' <=> \A j \in 1..Len(taken) + 1 : taken'[j] = j
      BY <2>4 DEF Whole
    <3>2. (\A j \in 1..Len(taken) + 1 : taken'[j] = j)
            <=> (\A j \in 1..Len(taken) : taken[j] = j) /\ h = Len(taken) + 1
      <4> HIDE DEF h, f
      <4>1. Len(taken) \in Nat /\ taken'[Len(taken) + 1] = h
            /\ \A j \in 1..Len(taken) : taken'[j] = taken[j]
        BY <2>3, <2>4
      <4>2. \A j : j \in 1..Len(taken) + 1 <=> j \in 1..Len(taken) \/ j = Len(taken) + 1
        BY <4>1
      <4> QED
        BY ONLY <4>1, <4>2, Zenon
    <3> QED
      BY <2>6, <3>1, <3>2
  <2>8. Whole' <=> Whole /\ f = Delivered
    BY <2>2, <2>6, <2>7
  <2>9. ~closed => f = Delivered
    <3> SUFFICES ASSUME ~closed PROVE f = Delivered
      OBVIOUS
    <3>1. h = Len(taken) + 1 /\ \A j \in 1..Len(taken) : taken[j] = j
      BY <2>1, NextTaken DEF OrderedInv, StreamInv
    <3> QED
      BY <2>2, <3>1
  <2>10. f \in 0..SW!PublishedBytes
    BY <2>2, <2>3
  <2>11. SW!PublishedBytes' = SW!PublishedBytes
    BY <2>1, ProducedStays
  <2> QED
    BY <2>1, <2>2, <2>5, <2>8, <2>9, <2>10, <2>11
<1> QED
  BY <1>1, <1>2, <1>3, <1>4, <1>5, <1>6, <1>7, <1>8 DEF Next

(* One direction of a session implements the byte stream it promises, for  *)
(* every window, buffer and order of delivery, as long as the sequence     *)
(* numbers do not wrap: in order, nothing twice, and nothing skipped while *)
(* the receiving session is open.                                          *)
THEOREM ByteStreamIsImplemented ==
    ASSUME MaxBytes < SeqMod
    PROVE  Spec => ImplementsByteStream
<1>1. Init => BS!Init
  <2> SUFFICES ASSUME Init PROVE BS!Init
    OBVIOUS
  <2>1. SW!PublishedBytes = 0 /\ taken = <<>> /\ DOMAIN taken = {} /\ closed = FALSE
    BY DEF Init, SW!Init, RB!Init, SW!PublishedBytes
  <2> QED
    BY <2>1 DEF BS!Init
<1>2. OrderedInv /\ [Next]_vars => [BS!Next]_(BS!vars)
  <2> SUFFICES ASSUME OrderedInv, [Next]_vars PROVE BS!Next \/ BS!vars' = BS!vars
    BY Zenon
  <2> QED
    BY StreamStep DEF BS!Next, BS!Produce, BS!Deliver, BS!Close, BS!vars, Delivered, Whole
<1> QED
  BY <1>1, <1>2, OrderedInvInit, OrderedInvStep, PTL DEF Spec, ImplementsByteStream, BS!Spec

-----------------------------------------------------------------------------
(* What the liveness of the direction rests on: no frame is stranded, and  *)
(* no writer waits for an ack that nobody owes it.                         *)

(* A frame that is published is on its way, waits in the buffer or has     *)
(* been passed on, and Insert leaves nothing behind that is due.           *)
Accounted ==
    ~closed =>
      /\ \A i \in 1..Len(published) : i \in inflight \/ i - 1 \in DOMAIN buf \/ i <= nextSeq
      /\ ~lock => nextSeq \notin DOMAIN buf

(* The consumer has written out all it took, but for the frame it writes.  *)
WrittenUp ==
    /\ consumer = "stopped" => closed
    /\ ~closed => written = (IF consumer = "write" THEN LastTaken.from ELSE Delivered)

LEMMA AccountedStep ==
    ASSUME MaxBytes < SeqMod, NEW m, ReadsOf(m), Window <= m * Size,
           OrderedInv, Spaced(m), Accounted, [Next]_vars
    PROVE  Accounted'
<1> DEFINE n == Len(published)
           Found(i) == i \in inflight \/ i - 1 \in DOMAIN buf \/ i <= nextSeq
<1>1. /\ n \in Nat /\ n <= MaxBytes /\ n' \in Nat /\ n' >= n
  BY PublishedGrows DEF OrderedInv, StreamInv, Cut
<1>2. nextSeq \in 0..SeqMod-1 /\ (hand # <<>> => lock) /\ \A t \in DOMAIN buf : t \in Nat
  BY DEF OrderedInv, StreamInv, BufferInv, RB!TypeOK
<1>3. CASE closed'
  BY <1>3 DEF Accounted
<1>4. ASSUME ~closed, UNCHANGED bufferVars, inflight \cup (n + 1 .. n') \subseteq inflight'
      PROVE  Accounted'
  <2>1. ASSUME NEW i \in 1..n' PROVE Found(i)'
    <3>1. CASE i \in 1..n
      BY <1>4, <3>1 DEF Accounted, bufferVars
    <3>2. CASE i \notin 1..n
      <4>1. i \in n + 1 .. n'
        BY <1>1, <3>2
      <4> QED
        BY <1>4, <4>1
    <3> QED
      BY <3>1, <3>2
  <2> QED
    BY <1>4, <2>1 DEF Accounted, bufferVars
<1>p. ASSUME published' = published PROVE n' = n /\ n + 1 .. n' = {}
  BY <1>1, <1>p
<1>5. CASE Write \/ WaitCancelled \/ WriterStops \/ CloseSender
  <2>1. published' = published /\ UNCHANGED <<bufferVars, inflight>>
    BY <1>5 DEF Write, WaitCancelled, WriterStops, CloseSender,
         SW!Read, SW!WaitCancelled, SW!ReadFails, SW!PublishFails, SW!Cancel
  <2> QED
    BY <1>3, <1>4, <1>p, <2>1 DEF bufferVars
<1>6. CASE WriterStep
  BY <1>3, <1>4, <1>6 DEF WriterStep, bufferVars
<1>7. CASE (\E a \in acks : AckArrives(a)) \/ WriteOut \/ ConsumerStops \/ UNCHANGED vars
  <2>1. published' = published /\ UNCHANGED <<bufferVars, inflight>>
    BY <1>7 DEF AckArrives, HandleAck, WriteOut, ConsumerStops, vars, writerVars, SW!UpdateAck
  <2> QED
    BY <1>3, <1>4, <1>p, <2>1 DEF bufferVars
<1>8. CASE CloseReceiver
  BY <1>3, <1>8 DEF CloseReceiver, RB!Close
<1>9. CASE Receive
  <2>1. UNCHANGED <<published, buf, nextSeq, lock, closed, inflight>>
    BY <1>9 DEF Receive, RB!Receive, writerVars
  <2> QED
    BY <2>1 DEF Accounted
<1>10. CASE InsertStep
  <2>1. published' = published /\ inflight' = inflight /\ n' = n
    BY <1>10, <1>p DEF InsertStep, writerVars
  <2>2. CASE RB!Push
    BY <2>1, <2>2, <1>2 DEF RB!Push, Accounted
  <2>3. CASE RB!Unlock
    BY <2>1, <2>3 DEF RB!Unlock, Accounted
  <2>4. CASE RB!Abort
    BY <1>3, <2>4 DEF RB!Abort
  <2>5. CASE RB!Pop
    <3>1. /\ lock' = lock /\ lock /\ closed' = closed
          /\ DOMAIN buf' = DOMAIN buf \ {nextSeq} /\ nextSeq \in DOMAIN buf
          /\ nextSeq' = RB!NextSeq(nextSeq)
      BY <2>5 DEF RB!Pop
    <3>2. nextSeq' = nextSeq + 1
      <4>1. buf[nextSeq] = nextSeq + 1 /\ buf[nextSeq] \in 1..n
        BY <3>1 DEF OrderedInv, OrderInv, StreamInv, BufferInv, RB!TypeOK
      <4> QED
        BY <1>1, <1>2, <3>1, <4>1 DEF RB!NextSeq
    <3>3. ASSUME ~closed, NEW i \in 1..n PROVE Found(i)'
      <4>1. Found(i)
        BY <3>3 DEF Accounted
      <4>2. i - 1 = nextSeq => i <= nextSeq + 1
        BY <1>1, <1>2
      <4> QED
        BY <1>1, <1>2, <2>1, <3>1, <3>2, <4>1, <4>2
    <3> QED
      BY <2>1, <3>1, <3>3 DEF Accounted
  <2> QED
    BY <1>10, <2>2, <2>3, <2>4, <2>5 DEF InsertStep
<1>11. ASSUME NEW k \in 1..n, FrameArrives(k) PROVE Accounted'
  <2>1. published' = published /\ inflight' = inflight \ {k} /\ n' = n /\ RB!Insert(k)
    BY <1>11, <1>p DEF FrameArrives, writerVars
  <2>2. RB!WireSeq(k) = k - 1 /\ k \in Nat
    BY <1>1, WireSeqWithoutWrap
  <2>3. CASE RB!InsertAccepted(k)
    <3>1. /\ lock' /\ DOMAIN buf' = DOMAIN buf \cup {k - 1}
          /\ nextSeq' = nextSeq /\ closed' = closed
      BY <2>2, <2>3 DEF RB!InsertAccepted
    <3> QED
      BY <2>1, <3>1 DEF Accounted
  <2>4. CASE RB!InsertDropped(k)
    <3>1. /\ UNCHANGED <<buf, nextSeq, closed, lock>>
          /\ RB!Stale(k - 1) \/ RB!TooFar(RB!WireSeq(k)) \/ k - 1 \in DOMAIN buf
      BY <2>2, <2>4 DEF RB!InsertDropped, RB!bufferVars
    <3>2. ASSUME ~closed PROVE k <= nextSeq \/ k - 1 \in DOMAIN buf
      <4>1. ~RB!TooFar(RB!WireSeq(k))
        BY <3>2, WithinReach DEF OrderedInv
      <4> QED
        BY <1>2, <2>2, <3>1, <4>1 DEF RB!Stale
    <3> QED
      BY <2>1, <3>1, <3>2 DEF Accounted
  <2> QED
    BY <2>1, <2>3, <2>4 DEF RB!Insert
<1> QED
  BY <1>5, <1>6, <1>7, <1>8, <1>9, <1>10, <1>11 DEF Next

LEMMA WrittenUpStep ==
    ASSUME OrderedInv, WrittenUp, [Next]_vars
    PROVE  WrittenUp'
<1>0. StreamInv
  BY DEF OrderedInv
<1>1. ASSUME UNCHANGED <<taken, written, consumer>>, closed => closed'
      PROVE  WrittenUp'
  <2>1. consumer = "write" => taken # <<>>
    BY <1>0 DEF StreamInv, BufferInv
  <2>2. Delivered' = Delivered
    BY <1>0, <1>1, DeliveredStays
  <2>3. consumer = "write" => LastTaken' = LastTaken
    BY <1>0, <1>1, <2>1, LastTakenStays
  <2> QED
    BY <1>1, <2>2, <2>3 DEF WrittenUp
<1>2. CASE Write \/ WriterStep \/ WaitCancelled \/ WriterStops \/ CloseSender
           \/ \E a \in acks : AckArrives(a)
  BY <1>1, <1>2 DEF Write, WriterStep, WaitCancelled, WriterStops, CloseSender,
                    AckArrives, HandleAck, bufferVars, consumerVars
<1>3. CASE (\E i \in 1..Len(published) : FrameArrives(i)) \/ CloseReceiver
  BY <1>1, <1>3 DEF FrameArrives, CloseReceiver, consumerVars,
                    RB!Insert, RB!InsertDropped, RB!InsertAccepted, RB!Close, RB!bufferVars
<1>4. CASE InsertStep \/ UNCHANGED vars
  BY <1>1, <1>4 DEF InsertStep, consumerVars, bufferVars, vars,
                    RB!Pop, RB!Push, RB!Abort, RB!Unlock
<1>5. CASE Receive
  <2> DEFINE h == Head(dataCh)
  <2>1. /\ consumer = "receive" /\ consumer' = "write" /\ dataCh # <<>>
        /\ taken' = Append(taken, h) /\ written' = written /\ published' = published
        /\ closed' = closed
    BY <1>5 DEF Receive, RB!Receive, writerVars
  <2>2. LastTaken' = published[h]
    <3>1. h \in 1..Len(published) /\ taken \in Seq(Nat) /\ Len(published) \in Nat
      BY <1>0, <2>1, NextTaken, BufferMembers, PublishedType DEF OrderedInv, StreamInv, BufferInv
    <3>2. h \in Nat
      BY <3>1
    <3> HIDE DEF h
    <3>3. Append(taken, h)[Len(Append(taken, h))] = h
      BY <3>1, <3>2, AppendProperties
    <3> QED
      BY <2>1, <3>3 DEF LastTaken
  <2>3. ASSUME ~closed PROVE published[h].from = Delivered
    BY <2>1, <2>3, StartsWhereLastEnded, NextTaken DEF OrderedInv, StreamInv
  <2> QED
    BY <2>1, <2>2, <2>3 DEF WrittenUp
<1>6. CASE WriteOut
  <2>1. /\ consumer = "write" /\ consumer' = "receive" /\ taken' = taken /\ closed' = closed
        /\ written' = written + LastTaken.to - LastTaken.from
    BY <1>6 DEF WriteOut, bufferVars
  <2>2. taken # <<>> /\ Delivered' = Delivered
    BY <1>0, <2>1, DeliveredStays DEF StreamInv, BufferInv
  <2>3. LastTaken.from \in Nat /\ LastTaken.to \in Nat /\ Delivered = LastTaken.to
    BY <1>0, <2>2, LastTakenIsFrame DEF StreamInv, Delivered
  <2> QED
    BY <2>1, <2>2, <2>3 DEF WrittenUp
<1>7. CASE ConsumerStops
  BY <1>7 DEF ConsumerStops, bufferVars, WrittenUp
<1> QED
  BY <1>2, <1>3, <1>4, <1>5, <1>6, <1>7 DEF Next

(* The consumer owes no ack for what it has written since its last one,    *)
(* and that one is no further ahead of an ack that was published than the  *)
(* failed ones reach.  Every ack that arrived counts.                      *)
Gap == AckInterval - 1 + MaxPayload

AckDebt ==
    /\ written - lastAck < AckInterval
    /\ \E a \in acks \cup {0} : lastAck - a <= Gap * ackFailures
    /\ AcksHonoured => \A a \in acks \ newAcks : a <= ackedBytes

LEMMA GapType == AckInterval \in Nat \ {0} /\ Gap \in Nat
BY DEF AckInterval, Gap

LEMMA WrittenWasSent ==
    ASSUME OrderedInv
    PROVE  /\ written \in Nat /\ sentBytes \in Nat
           /\ written <= sentBytes
<1>1. /\ SW!PublishedBytes \in Nat /\ SW!PublishedBytes <= sentBytes
      /\ sentBytes \in Nat /\ written \in Nat
  BY BytesBehind DEF OrderedInv, StreamInv, Cut, WriterInv, SW!TypeOK, AckInv
<1>2. CASE taken = <<>>
  BY <1>1, <1>2 DEF OrderedInv, WrittenInv
<1>3. CASE taken # <<>>
  <2>1. /\ LastTaken.from \in Nat /\ LastTaken.to \in Nat
        /\ LastTaken.from < LastTaken.to /\ LastTaken.to <= SW!PublishedBytes
    BY <1>3, LastTakenIsFrame DEF OrderedInv, StreamInv
  <2>2. written <= LastTaken.to
    BY <1>1, <1>3, <2>1 DEF OrderedInv, WrittenInv
  <2> QED
    BY <1>1, <2>1, <2>2
<1> QED
  BY <1>2, <1>3

LEMMA AckDebtStep ==
    ASSUME OrderedInv, AckDebt, [Next]_vars
    PROVE  AckDebt'
<1>0. /\ written \in Nat /\ lastAck \in Nat /\ lastAck <= written /\ written <= sentBytes
      /\ \A a \in acks : a \in Nat /\ a <= lastAck
      /\ ackedBytes \in Nat /\ sentBytes \in Nat /\ ackFailures \in Nat
  BY WrittenWasSent DEF OrderedInv, StreamInv, AckInv, WriterInv, SW!TypeOK
<1>1. ASSUME UNCHANGED <<written, lastAck, acks, ackFailures>>,
             AcksHonoured => \A a \in acks \ newAcks' : a <= ackedBytes'
      PROVE  AckDebt'
  BY <1>1 DEF AckDebt
<1>2. CASE Write \/ WaitCancelled \/ WriterStops \/ CloseSender
  <2>1. UNCHANGED <<written, lastAck, acks, newAcks, ackFailures, ackedBytes>>
    BY <1>2 DEF Write, WaitCancelled, WriterStops, CloseSender, consumerVars, ackVars,
         SW!Read, SW!WaitCancelled, SW!ReadFails, SW!PublishFails, SW!Cancel
  <2> QED
    BY <1>1, <2>1 DEF AckDebt
<1>3. CASE WriterStep
  <2>1. UNCHANGED <<written, lastAck, acks, newAcks, ackFailures, ackedBytes>>
    BY <1>3 DEF WriterStep, consumerVars, ackVars,
         SW!CheckWindow, SW!EnterSelect, SW!Wake, SW!EncodeAndAddSent, SW!Publish
  <2> QED
    BY <1>1, <2>1 DEF AckDebt
<1>4. ASSUME NEW b \in acks, AckArrives(b) PROVE AckDebt'
  <2>1. /\ newAcks' = newAcks \ {b} /\ UNCHANGED <<written, lastAck, acks, ackFailures>>
    BY <1>4 DEF AckArrives, HandleAck, consumerVars
  <2>2. ASSUME AcksHonoured, NEW a \in acks \ newAcks' PROVE a <= ackedBytes'
    <3>1. ackedBytes' = IF SW!Clamped(b) > ackedBytes THEN SW!Clamped(b) ELSE ackedBytes
      BY <1>4, <2>2 DEF AckArrives, HandleAck, SW!UpdateAck
    <3>2. SW!Clamped(b) = b /\ b \in Nat
      BY <1>0 DEF SW!Clamped
    <3>3. CASE a = b
      BY <1>0, <3>1, <3>2, <3>3
    <3>4. CASE a # b
      <4>1. a \in acks \ newAcks
        BY <2>1, <2>2, <3>4
      <4>2. a <= ackedBytes /\ a \in Nat
        BY <1>0, <2>2, <4>1 DEF AckDebt
      <4> QED
        BY <1>0, <3>1, <3>2, <4>2
    <3> QED
      BY <3>3, <3>4
  <2> QED
    BY <1>1, <2>1, <2>2
<1>5. CASE (\E i \in 1..Len(published) : FrameArrives(i)) \/ InsertStep \/ Receive
            \/ ConsumerStops \/ CloseReceiver \/ UNCHANGED vars
  <2>1. UNCHANGED <<written, lastAck, acks, newAcks, ackFailures, ackedBytes>>
    BY <1>5 DEF FrameArrives, InsertStep, Receive, ConsumerStops, CloseReceiver,
         writerVars, consumerVars, ackVars, vars
  <2> QED
    BY <1>1, <2>1 DEF AckDebt
<1>6. CASE WriteOut
  <2> DEFINE total == written + LastTaken.to - LastTaken.from
  <2>1. consumer = "write" /\ written' = total /\ ackedBytes' = ackedBytes
    BY <1>6 DEF WriteOut, writerVars
  <2>2. total \in Nat /\ total <= written + MaxPayload
    <3>1. taken # <<>>
      BY <2>1 DEF OrderedInv, StreamInv, BufferInv
    <3> QED
      BY <1>0, <3>1, LastTakenIsFrame DEF OrderedInv, StreamInv
  <2>3. CASE ~AckDue(total)
    <3>1. UNCHANGED <<lastAck, acks, newAcks, ackFailures>>
      BY <1>6, <2>3 DEF WriteOut
    <3>2. total - lastAck < AckInterval
      BY <1>0, <2>2, <2>3, GapType DEF AckDue
    <3> HIDE DEF total
    <3> QED
      BY <2>1, <3>1, <3>2 DEF AckDebt
  <2>4. CASE AckDue(total)
    <3>1. /\ lastAck' = total
          /\ \/ /\ acks' = acks \cup {total} /\ newAcks' = newAcks \cup {total}
                /\ ackFailures' = ackFailures
             \/ /\ ackFailures' = ackFailures + 1
                /\ acks' = acks /\ newAcks' = newAcks
      BY <1>6, <2>4 DEF WriteOut
    <3>2. written' - lastAck' < AckInterval
      BY <2>1, <2>2, <3>1, GapType
    <3>3. AcksHonoured => \A a \in acks' \ newAcks' : a <= ackedBytes'
      BY <2>1, <3>1 DEF AckDebt
    <3>4. total - lastAck <= Gap
      <4>1. written - lastAck < AckInterval
        BY DEF AckDebt
      <4> QED
        BY <1>0, <2>2, <4>1, GapType DEF Gap
    <3>5. \E a \in acks' \cup {0} : lastAck' - a <= Gap * ackFailures'
      <4> HIDE DEF total
      <4>1. CASE ackFailures' = ackFailures /\ acks' = acks \cup {total}
        <5>1. 0 <= Gap * ackFailures'
          BY <1>0, <4>1, GapType
        <5>2. lastAck' - total <= Gap * ackFailures'
          BY <2>2, <3>1, <5>1
        <5> QED
          BY <4>1, <5>2
      <4>2. CASE ackFailures' = ackFailures + 1 /\ acks' = acks
        <5>1. PICK a \in acks \cup {0} : lastAck - a <= Gap * ackFailures
          BY DEF AckDebt
        <5>2. Gap * ackFailures' = Gap * ackFailures + Gap /\ Gap * ackFailures \in Int
          BY <1>0, <4>2, GapType, Distribute
        <5>3. a \in Nat
          BY <1>0
        <5>4. lastAck' - a <= Gap * ackFailures'
          BY <1>0, <2>2, <3>1, <3>4, <5>1, <5>2, <5>3, GapType
        <5> QED
          BY <4>2, <5>4
      <4> QED
        BY <3>1, <4>1, <4>2
    <3> QED
      BY <3>2, <3>3, <3>5 DEF AckDebt
  <2> QED
    BY <2>3, <2>4
<1> QED
  BY <1>2, <1>3, <1>4, <1>5, <1>6 DEF Next

(* When nothing is under way, all that was published has been taken and    *)
(* written out.                                                            *)
LEMMA IdleIsComplete ==
    ASSUME OrderedInv, Accounted, WrittenUp, ~closed, ~Busy
    PROVE  written = SW!PublishedBytes
<1> DEFINE n == Len(published)
           L == Len(taken)
<1>1. inflight = {} /\ ~lock /\ dataCh = <<>> /\ consumer # "write"
  BY DEF Busy
<1>2. hand = <<>> /\ RB!TypeOK /\ nextSeq \in Nat
  BY <1>1 DEF OrderedInv, StreamInv, BufferInv, RB!TypeOK
<1>3. taken \in Seq(Nat) /\ L \in Nat /\ n \in Nat
  BY <1>2, BufferMembers, PublishedType DEF OrderedInv, StreamInv
<1>4. RB!Passed = taken
  BY <1>1, <1>2, <1>3, ConcatEmptySeq DEF RB!Passed
<1>5. L = nextSeq /\ \A j \in 1..L : taken[j] = j
  BY <1>3, <1>4, LenProperties DEF OrderedInv, OrderInv
<1>6. L = n
  <2>1. L <= n
    <3> SUFFICES ASSUME L > n PROVE FALSE
      BY <1>3
    <3>1. L \in 1..L
      BY <1>3
    <3>2. taken[L] = L /\ taken[L] \in 1..n
      BY <1>5, <3>1 DEF OrderedInv, StreamInv, BufferInv
    <3> QED
      BY <1>3, <3>2
  <2>2. ~(n > L)
    <3> SUFFICES ASSUME n > L PROVE FALSE
      OBVIOUS
    <3>1. L + 1 \in 1..n /\ (L + 1) - 1 = L
      BY <1>3
    <3>2. L + 1 \in inflight \/ (L + 1) - 1 \in DOMAIN buf \/ L + 1 <= nextSeq
      BY <3>1 DEF Accounted
    <3>3. L \notin DOMAIN buf
      BY <1>1, <1>5 DEF Accounted
    <3> QED
      BY <1>1, <1>3, <1>5, <3>1, <3>2, <3>3
  <2> QED
    BY <1>3, <2>1, <2>2
<1>7. written = Delivered
  BY <1>1 DEF WrittenUp
<1>8. CASE taken = <<>>
  <2>1. n = 0
    BY <1>6, <1>8
  <2>2. published = <<>>
    BY <2>1, PublishedType, EmptySeq DEF OrderedInv, StreamInv
  <2> QED
    BY <1>7, <1>8, <2>2 DEF Delivered, SW!PublishedBytes
<1>9. CASE taken # <<>>
  <2>1. L \in 1..L
    BY <1>3, <1>9, EmptySeq
  <2>2. taken[L] = n /\ n # 0
    BY <1>3, <1>5, <1>6, <2>1
  <2>3. published # <<>>
    BY <2>2
  <2> QED
    BY <1>7, <1>9, <2>2, <2>3 DEF Delivered, LastTaken, SW!PublishedBytes
<1> QED
  BY <1>8, <1>9

ProgressInv(m) == OrderedInv /\ Spaced(m) /\ Accounted /\ WrittenUp /\ AckDebt

LEMMA ProgressInvInit ==
    ASSUME NEW m
    PROVE  Init => ProgressInv(m)
<1> SUFFICES ASSUME Init PROVE ProgressInv(m)
  OBVIOUS
<1>1. Len(published) = 0 /\ pc = "read"
  BY DEF Init, SW!Init
<1>2. Spaced(m)
  BY <1>1 DEF Spaced
<1>3. Accounted
  <2>1. DOMAIN buf = {}
    BY DEF Init, RB!Init
  <2> QED
    BY <1>1, <2>1 DEF Accounted
<1>4. WrittenUp
  BY DEF Init, RB!Init, WrittenUp, Delivered
<1>5. AckDebt
  <2>1. written = 0 /\ lastAck = 0 /\ acks = {} /\ ackFailures = 0
    BY DEF Init
  <2>2. Gap * 0 = 0
    BY GapType
  <2> QED
    BY <2>1, <2>2, GapType DEF AckDebt
<1> QED
  BY <1>2, <1>3, <1>4, <1>5, OrderedInvInit DEF ProgressInv

LEMMA ProgressInvStep ==
    ASSUME MaxBytes < SeqMod, NEW m, ReadsOf(m), Window <= m * Size
    PROVE  ProgressInv(m) /\ [Next]_vars => ProgressInv(m)'
<1> SUFFICES ASSUME ProgressInv(m), [Next]_vars PROVE ProgressInv(m)'
  OBVIOUS
<1>1. OrderedInv /\ Spaced(m) /\ Accounted /\ WrittenUp /\ AckDebt
  BY DEF ProgressInv
<1>2. OrderedInv'
  BY <1>1, OrderedInvStep
<1>3. Spaced(m)'
  BY <1>1, SpacedStep DEF OrderedInv, StreamInv
<1>4. Accounted'
  BY <1>1, AccountedStep
<1>5. WrittenUp' /\ AckDebt'
  BY <1>1, WrittenUpStep, AckDebtStep
<1> QED
  BY <1>2, <1>3, <1>4, <1>5 DEF ProgressInv

(* No frame is stranded, however frames are delayed, repeated or reordered *)
(* on the way: an open direction with nothing under way has written out    *)
(* all that was published.  As above, the buffer must hold a window of the *)
(* smallest frames: one it drops (ErrBufferFull) is not sent again.        *)
THEOREM NoFrameIsStranded ==
    ASSUME MaxBytes < SeqMod, NEW CONSTANT m, ReadsOf(m), Window <= m * Size
    PROVE  Spec => []NothingStranded
<1>1. ProgressInv(m) => NothingStranded
  BY IdleIsComplete DEF ProgressInv, NothingStranded
<1> QED
  BY <1>1, ProgressInvInit, ProgressInvStep, PTL DEF Spec

(* No standstill, when the window has room for an ack interval and a       *)
(* payload, and for as much again for each ack whose Publish may fail: a   *)
(* writer that finds no room waits for a frame on its way or an ack on its *)
(* way.  The code has 256 KB, 64 KB and 64 KB, which allows one failed ack *)
(* and not two.                                                            *)
THEOREM WriterNeverWaitsInVain ==
    ASSUME MaxBytes < SeqMod, NEW CONSTANT m, ReadsOf(m), Window <= m * Size,
           (MaxAckFailures + 1) * (AckInterval - 1 + MaxPayload) <= Window
    PROVE  Spec => []NoStandstill
<1>1. ProgressInv(m) => NoStandstill
  <2> SUFFICES ASSUME ProgressInv(m), AcksHonoured, ~closed, SW!Waiting,
                      ~Busy, newAcks = {}
               PROVE  SW!CanSend(SW!Chunk)
    BY DEF NoStandstill
  <2>1. /\ written \in Nat /\ lastAck \in Nat /\ sentBytes \in Nat /\ ackedBytes \in Nat
        /\ ackFailures \in 0..MaxAckFailures
        /\ \A a \in acks \cup {0} : a \in Nat
    BY DEF ProgressInv, OrderedInv, StreamInv, AckInv, WriterInv, SW!TypeOK
  <2>2. sentBytes = written
    <3>1. written = SW!PublishedBytes
      BY IdleIsComplete DEF ProgressInv
    <3>2. sentBytes = SW!PublishedBytes
      BY DEF SW!Waiting, ProgressInv, OrderedInv, StreamInv, Cut
    <3> QED
      BY <3>1, <3>2
  <2>3. PICK a \in acks \cup {0} : lastAck - a <= Gap * ackFailures
    BY DEF ProgressInv, AckDebt
  <2>4. a <= ackedBytes /\ a \in Nat
    <3>1. CASE a = 0
      BY <2>1, <3>1
    <3>2. CASE a \in acks
      BY <2>1, <3>2 DEF ProgressInv, AckDebt
    <3> QED
      BY <3>1, <3>2
  <2>5. Gap * ackFailures <= Gap * MaxAckFailures
    <3>1. ackFailures <= MaxAckFailures /\ ackFailures \in Nat
      BY <2>1
    <3> QED
      BY <3>1, GapType
  <2>6. Gap * MaxAckFailures + Gap <= Window /\ Gap * MaxAckFailures \in Int
        /\ Gap * ackFailures \in Int
    <3>1. Gap * (MaxAckFailures + 1) = Gap * MaxAckFailures + Gap
      BY GapType, Distribute
    <3>2. Gap * (MaxAckFailures + 1) = (MaxAckFailures + 1) * Gap
      BY GapType
    <3> QED
      BY <2>1, <3>1, <3>2, GapType DEF Gap
  <2>7. written - lastAck < AckInterval
    BY DEF ProgressInv, AckDebt
  <2>8. SW!Chunk \in Nat /\ SW!Chunk <= MaxPayload
    <3>1. rest \in Nat
      BY DEF ProgressInv, OrderedInv, StreamInv, WriterInv, SW!TypeOK
    <3> QED
      BY <3>1 DEF SW!Chunk
  <2>9. sentBytes - ackedBytes + SW!Chunk <= Window
    <3>1. written - a <= AckInterval - 1 + Gap * MaxAckFailures
      BY <2>1, <2>3, <2>4, <2>5, <2>6, <2>7, GapType
    <3> QED
      BY <2>1, <2>2, <2>4, <2>6, <2>8, <3>1, GapType DEF Gap
  <2>10. SW!Chunk <= Window
    BY <2>1, <2>5, <2>6, <2>8, GapType DEF Gap
  <2> QED
    BY <2>1, <2>8, <2>9, <2>10 DEF SW!CanSend, SW!Outstanding
<1> QED
  BY <1>1, ProgressInvInit, ProgressInvStep, PTL DEF Spec
=============================================================================
