------------------------ MODULE ReorderBufferProofs ------------------------
(* Theorems of ReorderBuffer for every buffer size, sender and number of   *)
(* frames.                                                                 *)
EXTENDS ReorderBuffer, SequenceTheorems, TLAPS

USE BufferAssumption DEF BufferAssumption

(* The variables keep their types, and the memory the receiver holds is    *)
(* bounded, also across a wrap of the sequence numbers.                    *)
THEOREM BufferIsBounded == Spec => []TypeOK
<1>1. Init => TypeOK
  <2> SUFFICES ASSUME Init PROVE TypeOK
    OBVIOUS
  <2>1. DOMAIN buf = {} /\ Len(dataCh) = 0
    BY DEF Init
  <2>2. dataCh \in Seq(Nat) /\ taken \in Seq(Nat)
    BY DEF Init
  <2>3. closed \in BOOLEAN /\ lock \in BOOLEAN
    BY DEF Init
  <2> QED
    BY <2>1, <2>2, <2>3 DEF Init, TypeOK
<1>2. TypeOK /\ [Next]_vars => TypeOK'
  <2> SUFFICES ASSUME TypeOK, [Next]_vars
               PROVE  TypeOK'
    OBVIOUS
  <2> USE DEF TypeOK
  <2>1. CASE Send
    BY <2>1 DEF Send, bufferVars
  <2>2. ASSUME NEW i \in 1..sent, InsertDropped(i), sent' = sent, inflight' \subseteq inflight
        PROVE  TypeOK'
    BY <2>2 DEF InsertDropped, bufferVars
  <2>3. ASSUME NEW i \in 1..sent, InsertAccepted(i), sent' = sent, inflight' \subseteq inflight
        PROVE  TypeOK'
    <3> DEFINE s == WireSeq(i)
    <3>1. s \in 0..SeqMod-1
      BY DEF WireSeq
    <3>2. s \in nextSeq .. nextSeq + Size - 1
      BY <2>3, <3>1 DEF InsertAccepted, Stale, TooFar
    <3>3. DOMAIN buf' = DOMAIN buf \cup {s} /\ \A t \in DOMAIN buf' : buf'[t] \in 1..sent
      BY <2>3 DEF InsertAccepted
    <3> QED
      BY <2>3, <3>1, <3>2, <3>3 DEF InsertAccepted
  <2>4. CASE Pop /\ UNCHANGED <<sent, inflight>>
    <3>1. DOMAIN buf' = DOMAIN buf \ {nextSeq} /\ \A t \in DOMAIN buf' : buf'[t] = buf[t]
      BY <2>4 DEF Pop
    <3>2. nextSeq' \in 0..SeqMod-1
      BY <2>4 DEF Pop, NextSeq
    <3>3. DOMAIN buf' \subseteq nextSeq' .. nextSeq' + Size - 1
      BY <2>4, <3>1 DEF Pop, NextSeq
    <3>4. buf[nextSeq] \in 1..sent /\ hand' = <<buf[nextSeq]>>
      BY <2>4 DEF Pop
    <3>5. lock /\ UNCHANGED <<dataCh, closed, lock, taken>>
      BY <2>4 DEF Pop
    <3> QED
      BY <2>4, <3>1, <3>2, <3>3, <3>4, <3>5
  <2>5. CASE Push /\ UNCHANGED <<sent, inflight>>
    <3>1. hand \in Seq(Nat) /\ Len(hand) = 1
      <4>1. PICK i \in 1..sent : hand = <<i>>
        BY <2>5 DEF Push
      <4> QED
        BY <4>1
    <3>2. dataCh' \in Seq(Nat) /\ Len(dataCh') = Len(dataCh) + 1
      BY <2>5, <3>1, ConcatProperties DEF Push
    <3> QED
      BY <2>5, <3>2 DEF Push
  <2>6. CASE (Abort \/ Unlock) /\ UNCHANGED <<sent, inflight>>
    BY <2>6 DEF Abort, Unlock
  <2>7. CASE Consume
    <3>1. Head(dataCh) \in Nat /\ Tail(dataCh) \in Seq(Nat) /\ Len(Tail(dataCh)) = Len(dataCh) - 1
      BY <2>7, HeadTailProperties DEF Consume, Receive
    <3>2. taken' \in Seq(Nat)
      BY <2>7, <3>1, AppendProperties DEF Consume, Receive
    <3> QED
      BY <2>7, <3>1, <3>2 DEF Consume, Receive
  <2>8. CASE Close /\ UNCHANGED <<sent, inflight>>
    BY <2>8 DEF Close
  <2>9. CASE UNCHANGED vars
    BY <2>9 DEF vars
  <2> QED
    BY <2>1, <2>2, <2>3, <2>4, <2>5, <2>6, <2>7, <2>8, <2>9
       DEF Next, Deliver, Redeliver, Insert, InsertStep
<1> QED
  BY <1>1, <1>2, PTL DEF Spec

-----------------------------------------------------------------------------
(* The order of the frames passed on.  Without a wrap, a waiting frame     *)
(* stands under its own number, what was passed on lies before nextSeq,    *)
(* and as long as the session is open nothing before nextSeq is missing.   *)
Increasing(p) == \A j, k \in DOMAIN p : j < k => p[j] < p[k]

OrderInv ==
    /\ \A t \in DOMAIN buf : buf[t] = t + 1
    /\ \A j \in DOMAIN Passed : Passed[j] \in 1..nextSeq
    /\ Increasing(Passed)
    /\ ~closed => Len(Passed) = nextSeq /\ \A j \in DOMAIN Passed : Passed[j] = j

LEMMA WireSeqWithoutWrap ==
    ASSUME MaxFrames < SeqMod, NEW i \in 1..MaxFrames
    PROVE  WireSeq(i) = i - 1
<1>1. i - 1 \in 0..SeqMod-1
  OBVIOUS
<1> QED
  BY <1>1 DEF WireSeq

LEMMA PassedType ==
    ASSUME TypeOK
    PROVE  /\ hand \in Seq(Nat) /\ taken \o dataCh \in Seq(Nat)
           /\ Passed \in Seq(Nat) /\ DOMAIN Passed = 1..Len(Passed)
<1>1. hand \in Seq(Nat)
  <2>1. CASE hand = <<>>
    BY <2>1
  <2>2. ASSUME NEW i \in 1..sent, hand = <<i>> PROVE hand \in Seq(Nat)
    <3>1. i \in Nat
      BY DEF TypeOK
    <3> QED
      BY <2>2, <3>1
  <2> QED
    BY <2>1, <2>2 DEF TypeOK
<1>2. taken \o dataCh \in Seq(Nat)
  BY ConcatProperties DEF TypeOK
<1>3. Passed \in Seq(Nat)
  BY <1>1, <1>2, ConcatProperties DEF Passed
<1> QED
  BY <1>1, <1>2, <1>3, LenProperties

(* Frames change hands without changing their order. *)
LEMMA PushKeepsPassed ==
    ASSUME TypeOK, Push
    PROVE  Passed' = Passed
<1>1. taken \in Seq(Nat) /\ dataCh \in Seq(Nat) /\ hand \in Seq(Nat) /\ Passed \in Seq(Nat)
  BY PassedType DEF TypeOK
<1>2. Passed' = (taken \o (dataCh \o hand)) \o <<>>
  BY DEF Push, Passed
<1>3. taken \o (dataCh \o hand) = Passed
  BY <1>1, ConcatAssociative DEF Passed
<1> QED
  BY <1>1, <1>2, <1>3, ConcatEmptySeq

LEMMA ReceiveKeepsPassed ==
    ASSUME TypeOK, Receive
    PROVE  Passed' = Passed
<1> DEFINE h == Head(dataCh)
           r == Tail(dataCh)
<1>1. /\ taken \in Seq(Nat) /\ dataCh \in Seq(Nat)
      /\ h \in Nat /\ r \in Seq(Nat) /\ <<h>> \in Seq(Nat)
  BY HeadTailProperties DEF Receive, TypeOK
<1>2. dataCh = <<h>> \o r
  <2>1. <<h>> \o r \in Seq(Nat) /\ Len(<<h>> \o r) = Len(dataCh)
    BY <1>1, ConcatProperties, HeadTailProperties DEF Receive
  <2>2. ASSUME NEW i \in 1..Len(dataCh) PROVE (<<h>> \o r)[i] = dataCh[i]
    BY <1>1, ConcatProperties, HeadTailProperties DEF Receive
  <2> QED
    BY <1>1, <2>1, <2>2, SeqEqual
<1>3. Append(taken, h) = taken \o <<h>>
  BY <1>1, AppendIsConcat
<1>4. (taken \o <<h>>) \o r = taken \o (<<h>> \o r)
  BY <1>1, ConcatAssociative
<1> QED
  BY <1>2, <1>3, <1>4 DEF Receive, Passed

LEMMA PopExtendsPassed ==
    ASSUME TypeOK, Pop
    PROVE  Passed' = Append(Passed, buf[nextSeq])
<1>1. buf[nextSeq] \in Nat
  BY DEF Pop, TypeOK
<1>2. Passed = taken \o dataCh
  BY PassedType, ConcatEmptySeq DEF Pop, Passed
<1>3. Passed' = (taken \o dataCh) \o <<buf[nextSeq]>>
  BY DEF Pop, Passed
<1> QED
  BY <1>1, <1>2, <1>3, PassedType, AppendIsConcat

(* Abort takes the last frame away. *)
LEMMA AbortShortensPassed ==
    ASSUME TypeOK, Abort
    PROVE  /\ Passed' = taken \o dataCh
           /\ DOMAIN Passed' \subseteq DOMAIN Passed
           /\ \A j \in DOMAIN Passed' : Passed'[j] = Passed[j]
<1>1. taken \o dataCh \in Seq(Nat) /\ hand \in Seq(Nat) /\ DOMAIN Passed = 1..Len(Passed)
  BY PassedType
<1>2. Passed' = taken \o dataCh
  BY <1>1, ConcatEmptySeq DEF Abort, Passed
<1>3. DOMAIN (taken \o dataCh) = 1..Len(taken \o dataCh)
  BY <1>1, LenProperties
<1>4. Len(Passed) = Len(taken \o dataCh) + Len(hand) /\ Len(hand) \in Nat
  BY <1>1, ConcatProperties, LenProperties DEF Passed
<1>5. \A j \in 1..Len(taken \o dataCh) : Passed[j] = (taken \o dataCh)[j]
  BY <1>1, <1>4, ConcatProperties, LenProperties DEF Passed
<1>6. Len(taken \o dataCh) \in Nat
  BY <1>1, LenProperties
<1> QED
  BY <1>1, <1>2, <1>3, <1>4, <1>5, <1>6

LEMMA OrderStep ==
    ASSUME MaxFrames < SeqMod, TypeOK, OrderInv, [Next]_vars
    PROVE  OrderInv'
<1> USE DEF OrderInv, Increasing
<1>1. ASSUME UNCHANGED <<buf, nextSeq, closed>>, Passed' = Passed
      PROVE  OrderInv'
  BY <1>1
<1>2. CASE Send
  BY <1>1, <1>2 DEF Send, bufferVars, Passed
<1>3. ASSUME NEW i \in 1..sent, InsertDropped(i) PROVE OrderInv'
  BY <1>1, <1>3 DEF InsertDropped, bufferVars, Passed
<1>4. ASSUME NEW i \in 1..sent, InsertAccepted(i) PROVE OrderInv'
  <2>1. WireSeq(i) = i - 1
    BY WireSeqWithoutWrap DEF TypeOK
  <2>2. \A t \in DOMAIN buf' : buf'[t] = t + 1
    BY <1>4, <2>1 DEF InsertAccepted, TypeOK
  <2>3. Passed' = Passed /\ UNCHANGED <<nextSeq, closed>>
    BY <1>4 DEF InsertAccepted, Passed
  <2> QED
    BY <2>2, <2>3
<1>5. CASE Pop
  <2>0. nextSeq \in Nat
    BY DEF TypeOK
  <2> DEFINE i == buf[nextSeq]
  <2>1. i = nextSeq + 1 /\ i \in 1..MaxFrames /\ nextSeq' = nextSeq + 1 /\ closed' = closed
    BY <1>5 DEF Pop, NextSeq, TypeOK
  <2>2. Passed' = Append(Passed, i) /\ Passed \in Seq(Nat) /\ i \in Nat
    BY <1>5, <2>1, PopExtendsPassed, PassedType
  <2>3. /\ Len(Passed) \in Nat /\ DOMAIN Passed = 1..Len(Passed)
        /\ DOMAIN Passed' = 1..Len(Passed)+1
        /\ \A j \in 1..Len(Passed) : Passed'[j] = Passed[j]
        /\ Passed'[Len(Passed)+1] = nextSeq + 1
    BY <2>1, <2>2, AppendProperties, LenProperties
  <2>4. \A t \in DOMAIN buf' : buf'[t] = t + 1
    BY <1>5 DEF Pop, TypeOK
  <2>5. \A j \in DOMAIN Passed' : Passed'[j] \in 1..nextSeq'
    <3>1. \A j \in 1..Len(Passed) : Passed[j] \in 1..nextSeq
      BY <2>3
    <3>2. ASSUME NEW j \in 1..Len(Passed) PROVE Passed'[j] \in 1..nextSeq'
      <4>1. Passed'[j] = Passed[j] /\ Passed[j] \in 1..nextSeq
        BY <2>3, <3>1
      <4> QED
        BY <2>1, <4>1 DEF TypeOK
    <3>3. Passed'[Len(Passed)+1] \in 1..nextSeq'
      <4>1. nextSeq + 1 \in 1..nextSeq + 1
        BY <2>0
      <4> QED
        BY <2>1, <2>3, <4>1
    <3> QED
      BY <2>3, <3>2, <3>3
  <2>6. Increasing(Passed')
    <3> SUFFICES ASSUME NEW j \in 1..Len(Passed)+1, NEW k \in 1..Len(Passed)+1, j < k
                 PROVE  Passed'[j] < Passed'[k]
      BY <2>3
    <3>1. j \in 1..Len(Passed) /\ Passed'[j] = Passed[j] /\ Passed[j] \in 1..nextSeq
      BY <2>3
    <3>2. CASE k = Len(Passed) + 1
      <4>1. Passed'[k] = nextSeq + 1
        BY <2>3, <3>2
      <4> QED
        BY <2>0, <3>1, <4>1
    <3>3. CASE k \in 1..Len(Passed)
      <4>1. Passed'[k] = Passed[k] /\ Passed[j] < Passed[k]
        BY <2>3, <3>1, <3>3
      <4> QED
        BY <3>1, <4>1
    <3> QED
      BY <2>3, <3>2, <3>3
  <2>7. ~closed' => Len(Passed') = nextSeq' /\ \A j \in DOMAIN Passed' : Passed'[j] = j
    <3>1. Len(Passed') = Len(Passed) + 1
      BY <2>2, AppendProperties
    <3> QED
      BY <2>1, <2>3, <3>1
  <2> QED
    BY <2>4, <2>5, <2>6, <2>7
<1>6. CASE Push
  BY <1>1, <1>6, PushKeepsPassed DEF Push
<1>7. CASE Abort
  <2>1. /\ DOMAIN Passed' \subseteq DOMAIN Passed
        /\ \A j \in DOMAIN Passed' : Passed'[j] = Passed[j]
    BY <1>7, AbortShortensPassed
  <2>2. closed' /\ UNCHANGED <<buf, nextSeq>>
    BY <1>7 DEF Abort
  <2> QED
    BY <2>1, <2>2
<1>8. CASE Unlock
  BY <1>1, <1>8 DEF Unlock, Passed
<1>9. CASE Consume
  BY <1>1, <1>9, ReceiveKeepsPassed DEF Consume, Receive
<1>10. CASE Close
  <2>1. Passed' = Passed /\ UNCHANGED <<buf, nextSeq>> /\ closed'
    BY <1>10 DEF Close, Passed
  <2> QED
    BY <2>1
<1>11. CASE UNCHANGED vars
  BY <1>1, <1>11 DEF vars, Passed
<1> QED
  BY <1>2, <1>3, <1>4, <1>5, <1>6, <1>7, <1>8, <1>9, <1>10, <1>11
     DEF Next, Deliver, Redeliver, Insert, InsertStep

LEMMA OrderInvGivesInOrder ==
    ASSUME MaxFrames < SeqMod, TypeOK, OrderInv
    PROVE  InOrder
<1>1. ASSUME ~closed, NEW i \in 1..sent, Stale(WireSeq(i))
      PROVE  i \in 1..Len(Passed)
  <2>1. WireSeq(i) = i - 1
    BY WireSeqWithoutWrap DEF TypeOK
  <2> QED
    BY <1>1, <2>1 DEF Stale, OrderInv, TypeOK
<1> QED
  BY <1>1 DEF OrderInv, Increasing, InOrder

(* Without a wrap of the sequence numbers: the consumer of an open session *)
(* gets the stream in order without gap or repetition, and what Insert     *)
(* ignores as a duplicate is one.                                          *)
THEOREM FramesInOrder ==
    ASSUME MaxFrames < SeqMod
    PROVE  Spec => []InOrder
<1>1. Init => OrderInv
  <2> SUFFICES ASSUME Init PROVE OrderInv
    OBVIOUS
  <2>1. Passed = <<>> /\ DOMAIN buf = {}
    BY DEF Init, Passed
  <2> QED
    BY <2>1 DEF Init, OrderInv, Increasing
<1>2. TypeOK /\ OrderInv /\ [Next]_vars => OrderInv'
  BY OrderStep
<1>3. TypeOK /\ OrderInv => InOrder
  BY OrderInvGivesInOrder
<1> QED
  BY <1>1, <1>2, <1>3, BufferIsBounded, PTL DEF Spec
=============================================================================
