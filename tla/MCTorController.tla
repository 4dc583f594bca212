-------------------------- MODULE MCTorController ---------------------------
(* Small instances of TorController for TLC: one per cfg. *)
EXTENDS TorController
=============================================================================
