-------------------------- MODULE MCTrafficShaper ---------------------------
(* Small instances of TrafficShaper for TLC: one per cfg. *)
EXTENDS TrafficShaper
=============================================================================
