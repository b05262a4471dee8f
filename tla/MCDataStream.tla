---------------------------- MODULE MCDataStream ----------------------------
(* Model checking of DataStream: a window of 4 bytes, payloads of at most  *)
(* 2, an ack after every byte written, a reorder buffer of 4 frames, reads *)
(* of 1 and 3 bytes, 6 bytes in all.                                       *)
EXTENDS DataStream

MCReadSizes == {1, 3}
=============================================================================
