--------------------------- MODULE ReorderBuffer ---------------------------
(***************************************************************************)
(* The receiving half of a tunnel session: the ReorderBuffer that puts the *)
(* data frames of one direction back in order (src/internal/tunnel/        *)
(* session.go).                                                            *)
(*                                                                         *)
(* HandleData runs on a goroutine of the transport and calls Insert, which *)
(* holds rb.mu until it returns, also while it waits for room in dataCh.   *)
(* The session's consumer goroutine receives from dataCh.  Close may come  *)
(* from a third one at any moment.                                         *)
(*                                                                         *)
(* Frames are numbered 1, 2, ... in the order they were sent; frame i      *)
(* travels under the sequence number WireSeq(i).  The network delivers     *)
(* each frame at least once, in any order, and may deliver it again.       *)
(***************************************************************************)
EXTENDS Integers, Sequences, FiniteSets

CONSTANTS SeqMod,    \* wire sequence numbers are 0 .. SeqMod-1 (uint32)
          Size,      \* ReorderBufSize: the buffer's reach and dataCh's capacity
          Span,      \* frames the sender has outstanding beyond the consumer
          MaxFrames  \* bound of the model: frames sent

ASSUME BufferAssumption ==
    /\ SeqMod \in Nat \ {0}
    /\ Size \in Nat \ {0}
    /\ Span \in Nat
    /\ MaxFrames \in Nat

VARIABLES buf,      \* rb.buf: sequence number -> frame
          nextSeq,  \* rb.nextSeq
          dataCh,   \* rb.dataCh
          closed,   \* rb.closeCh is closed
          lock,     \* an accepting Insert is running: it holds rb.mu
          hand,     \* its `payload`: <<>>, or the frame it is about to pass on
          taken,    \* every frame the consumer received, in order
          sent,     \* environment: number of frames sent so far
          inflight  \* environment: frames not delivered yet

bufferVars == <<buf, nextSeq, dataCh, closed, lock, hand, taken>>
vars == <<buf, nextSeq, dataCh, closed, lock, hand, taken, sent, inflight>>

WireSeq(i) == (i - 1) % SeqMod

NextSeq(s) == IF s = SeqMod - 1 THEN 0 ELSE s + 1

(* The types, and with them the memory the receiver holds: the buffer      *)
(* keeps sequence numbers of one window only, dataCh its capacity.         *)
TypeOK ==
    /\ DOMAIN buf \subseteq 0..SeqMod-1
    /\ \A s \in DOMAIN buf : buf[s] \in 1..sent
    /\ DOMAIN buf \subseteq nextSeq .. nextSeq + Size - 1
    /\ nextSeq \in 0..SeqMod-1
    /\ dataCh \in Seq(Nat) /\ Len(dataCh) <= Size
    /\ closed \in BOOLEAN
    /\ lock \in BOOLEAN
    /\ hand = <<>> \/ \E i \in 1..sent : hand = <<i>>
    /\ hand # <<>> => lock
    /\ taken \in Seq(Nat)
    /\ sent \in 0..MaxFrames
    /\ inflight \subseteq 1..sent

Init ==
    /\ buf = [s \in {} |-> 0]
    /\ nextSeq = 0
    /\ dataCh = <<>>
    /\ closed = FALSE
    /\ lock = FALSE
    /\ hand = <<>>
    /\ taken = <<>>
    /\ sent = 0
    /\ inflight = {}

-----------------------------------------------------------------------------
(* Operators named Mutant... are plausible bugs, kept for mutation testing *)
(* of the properties; the specification does not use them.                 *)

(* A frame older than the one that is due. *)
Stale(s) == s < nextSeq

(* A frame too far ahead of the first gap: its distance leaves the buffer. *)
MutantTooFar(s) == s - nextSeq > Size

TooFar(s) == s - nextSeq >= Size

(* Insert of a frame it does not keep: a duplicate is ignored, a frame too *)
(* far ahead is ErrBufferFull, which HandleData logs and forgets, and of   *)
(* two copies of a waiting frame the first is kept.                        *)
InsertDropped(i) ==
    LET s == WireSeq(i) IN
    /\ ~lock
    /\ Stale(s) \/ TooFar(s) \/ s \in DOMAIN buf
    /\ UNCHANGED bufferVars

InsertAccepted(i) ==
    LET s == WireSeq(i) IN
    /\ ~lock
    /\ ~Stale(s) /\ ~TooFar(s) /\ s \notin DOMAIN buf
    /\ buf' = [t \in DOMAIN buf \cup {s} |-> IF t = s THEN i ELSE buf[t]]
    /\ lock' = TRUE
    /\ UNCHANGED <<nextSeq, dataCh, closed, hand, taken>>

Insert(i) == InsertDropped(i) \/ InsertAccepted(i)

(* nextSeq is not advanced: a repeated frame is due again. *)
MutantPop ==
    /\ lock /\ hand = <<>>
    /\ nextSeq \in DOMAIN buf
    /\ hand' = <<buf[nextSeq]>>
    /\ buf' = [t \in DOMAIN buf \ {nextSeq} |-> buf[t]]
    /\ UNCHANGED <<nextSeq, dataCh, closed, lock, taken>>

(* The loop of an accepting Insert: take the frame that is due, if there. *)
Pop ==
    /\ lock /\ hand = <<>>
    /\ nextSeq \in DOMAIN buf
    /\ hand' = <<buf[nextSeq]>>
    /\ buf' = [t \in DOMAIN buf \ {nextSeq} |-> buf[t]]
    /\ nextSeq' = NextSeq(nextSeq)
    /\ UNCHANGED <<dataCh, closed, lock, taken>>

(* The frame is dropped when dataCh has no room for it. *)
MutantPush ==
    /\ hand # <<>>
    /\ dataCh' = IF Len(dataCh) < Size THEN dataCh \o hand ELSE dataCh
    /\ hand' = <<>>
    /\ UNCHANGED <<buf, nextSeq, closed, lock, taken>>

(* The select: pass it to the consumer when dataCh has room ... *)
Push ==
    /\ hand # <<>>
    /\ Len(dataCh) < Size
    /\ dataCh' = dataCh \o hand
    /\ hand' = <<>>
    /\ UNCHANGED <<buf, nextSeq, closed, lock, taken>>

(* The select has no second case. *)
MutantAbort == FALSE /\ UNCHANGED bufferVars

(* ... or give up when the buffer is closed. *)
Abort ==
    /\ hand # <<>> /\ closed
    /\ hand' = <<>>
    /\ lock' = FALSE
    /\ UNCHANGED <<buf, nextSeq, dataCh, closed, taken>>

(* The mutex is released in the middle of the loop. *)
MutantUnlock ==
    /\ lock
    /\ lock' = FALSE
    /\ UNCHANGED <<buf, nextSeq, dataCh, closed, hand, taken>>

Unlock ==
    /\ lock /\ hand = <<>>
    /\ nextSeq \notin DOMAIN buf
    /\ lock' = FALSE
    /\ UNCHANGED <<buf, nextSeq, dataCh, closed, hand, taken>>

(* The consumer's receive from DataCh. *)
Receive ==
    /\ dataCh # <<>>
    /\ taken' = Append(taken, Head(dataCh))
    /\ dataCh' = Tail(dataCh)
    /\ UNCHANGED <<buf, nextSeq, closed, lock, hand>>

Close ==
    /\ ~closed
    /\ closed' = TRUE
    /\ UNCHANGED <<buf, nextSeq, dataCh, lock, hand, taken>>

-----------------------------------------------------------------------------
(* The environment: a sender that keeps at most Span frames outstanding    *)
(* and an at-least-once network (QoS 1).                                   *)
Send ==
    /\ sent < MaxFrames
    /\ sent - Len(taken) < Span
    /\ sent' = sent + 1
    /\ inflight' = inflight \cup {sent + 1}
    /\ UNCHANGED bufferVars

Deliver(i) ==
    /\ i \in inflight
    /\ Insert(i)
    /\ inflight' = inflight \ {i}
    /\ UNCHANGED sent

Redeliver(i) ==
    /\ i \notin inflight
    /\ Insert(i)
    /\ UNCHANGED <<sent, inflight>>

InsertStep ==
    /\ Pop \/ Push \/ Abort \/ Unlock
    /\ UNCHANGED <<sent, inflight>>

Consume == Receive /\ UNCHANGED <<sent, inflight>>

Next ==
    \/ Send
    \/ \E i \in 1..sent : Deliver(i) \/ Redeliver(i)
    \/ InsertStep
    \/ Consume
    \/ Close /\ UNCHANGED <<sent, inflight>>

(* The consumer of an open session receives; that of a closed one need     *)
(* not.  An Insert that runs finishes unless dataCh stays full.  The       *)
(* network delivers each frame in the end, however often the handler finds *)
(* the mutex held (strong fairness).                                       *)
Fairness ==
    /\ WF_vars(InsertStep)
    /\ WF_vars(~closed /\ Consume)
    /\ \A i \in 1..MaxFrames : SF_vars(Deliver(i))

Spec == Init /\ [][Next]_vars /\ Fairness

-----------------------------------------------------------------------------
(* What the buffer passed on: received, waiting in dataCh, in Insert's hand. *)
Passed == taken \o dataCh \o hand

(* While the session is open the consumer gets exactly the frames sent, in *)
(* order, without gap or repetition, and a frame that Insert ignores as a  *)
(* duplicate, older than nextSeq, has been passed on already.  Even the    *)
(* Inserts that run on after Close (which may lose a frame) never pass on  *)
(* an old one.                                                             *)
InOrder ==
    /\ ~closed => /\ \A j \in DOMAIN Passed : Passed[j] = j
                  /\ \A i \in 1..sent : Stale(WireSeq(i)) => i \in 1..Len(Passed)
    /\ \A j, k \in DOMAIN Passed : j < k => Passed[j] < Passed[k]

(* The handler goroutine comes back from Insert: a full dataCh holds it    *)
(* (and rb.mu) only until the consumer receives or the session is closed.  *)
InsertReturns == lock ~> ~lock
=============================================================================
