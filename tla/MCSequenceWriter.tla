------------------------- MODULE MCSequenceWriter -------------------------
(* Model checking of SequenceWriter: a window of 4 bytes, payloads of at   *)
(* most 2, reads of 1, 2, 3 and 5 bytes (so that a read makes one, two and *)
(* three frames, and exceeds the window), sequence numbers modulo 4.       *)
EXTENDS SequenceWriter

MCReadSizes == {1, 2, 3, 5}
=============================================================================
