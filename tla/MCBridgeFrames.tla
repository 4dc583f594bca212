---------------------------- MODULE MCBridgeFrames ----------------------------
(* Small instances of BridgeFrames for TLC. *)
EXTENDS BridgeFrames
=============================================================================
