-------------------------- MODULE MCControllerClient --------------------------
(* Small instances of ControllerClient for TLC: one per cfg. *)
EXTENDS ControllerClient

(* A client that has been misled remains so, and then nothing but TypeOK is  *)
(* said of it: TLC checks TypeOK there, and does not go on.                  *)
NotMisled == ~misled
=============================================================================
