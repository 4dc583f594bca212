--------------------------- MODULE MCSyncDelivery ---------------------------
(* Small instances of SyncDelivery for TLC. *)
EXTENDS SyncDelivery, TLC

Symmetry == Permutations(Client)

(* A client started without --k_min sends -1. *)
KMinWithDefault == {-1, 2}
=============================================================================
