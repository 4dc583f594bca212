---------------------------- MODULE MCRingBuffer ----------------------------
(* Small instances of RingBuffer for TLC: one per cfg. *)
EXTENDS RingBuffer
=============================================================================
