-------------------------------- MODULE MCTorK --------------------------------
(* A small instance of TorK for TLC. *)
EXTENDS TorK
=============================================================================
