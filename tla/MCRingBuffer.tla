---------------------------- MODULE MCRingBuffer ----------------------------
(* The instance of RingBufferQuery for TLC. *)
EXTENDS RingBufferQuery
=============================================================================
