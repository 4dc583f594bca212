------------------------- MODULE MCControllerServer -------------------------
(* Small instances of ControllerServer for TLC. *)
EXTENDS ControllerServer, TLC

Symmetry == Permutations(Client)

(* Bound: no further than DATA of two clients in the reception queues. *)
FewData == \A c, d \in Client : recvQ[c] > 0 /\ recvQ[d] > 0 => c = d
=============================================================================
