-------------------------- MODULE MCReorderBuffer --------------------------
(* Model checking of ReorderBuffer with a buffer of 2 and sequence numbers *)
(* that do not wrap within the run.  Five frames are sent, and the sender  *)
(* may be 5 ahead of the consumer, so that frames are too far ahead for    *)
(* the buffer and dataCh is full under an Insert.                          *)
EXTENDS ReorderBuffer

ASSUME NoWrap == MaxFrames < SeqMod
=============================================================================
