---------------------------- MODULE MCRoundReuse ----------------------------
(* A small instance of RoundReuse for TLC. *)
EXTENDS RoundReuse
=============================================================================
