----------------------------- MODULE ByteStream -----------------------------
(***************************************************************************)
(* What one direction of a tunnel session promises to the two ends: the    *)
(* bytes come out in the order they went in, without gap or repetition     *)
(* while the receiving session is open.  Once it is closed the tail may be *)
(* lost, and what still comes out may skip bytes but never repeats one.    *)
(***************************************************************************)
EXTENDS Naturals

VARIABLES produced,   \* bytes that went in
          delivered,  \* the last byte that came out
          whole,      \* no byte before it was skipped
          open        \* the receiving session is open

vars == <<produced, delivered, whole, open>>

Init == produced = 0 /\ delivered = 0 /\ whole = TRUE /\ open = TRUE

Produce ==
    /\ produced' > produced
    /\ UNCHANGED <<delivered, whole, open>>

Deliver(from) ==
    /\ delivered <= from /\ (open => from = delivered)
    /\ from < delivered' /\ delivered' <= produced
    /\ whole' = (whole /\ from = delivered)
    /\ UNCHANGED <<produced, open>>

Close == open /\ open' = FALSE /\ UNCHANGED <<produced, delivered, whole>>

Next == Produce \/ (\E from \in 0..produced : Deliver(from)) \/ Close

Spec == Init /\ [][Next]_vars
=============================================================================
