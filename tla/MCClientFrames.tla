---------------------------- MODULE MCClientFrames ----------------------------
(* A small instance of ClientFrames for TLC. *)
EXTENDS ClientFrames
=============================================================================
