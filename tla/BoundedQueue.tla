---------------------------- MODULE BoundedQueue ----------------------------
(***************************************************************************)
(* What the users of a RingBuffer get: a queue of bounded length in which  *)
(* nothing is reordered, and nothing lost until it is disabled - unless it *)
(* is put to when full, which may drop everything in it.                   *)
(***************************************************************************)
EXTENDS Naturals, Sequences

CONSTANTS Item, Capacity

VARIABLES queue, enabled

queueVars == <<queue, enabled>>

QInit == queue = <<>> /\ enabled = TRUE

QPut(item) ==
  /\ enabled
  /\ Len(queue) < Capacity
  /\ queue' = Append(queue, item)
  /\ UNCHANGED enabled

(* The one way to lose items: the new one goes too. *)
QOverrun ==
  /\ enabled
  /\ Len(queue) = Capacity
  /\ queue' = <<>>
  /\ UNCHANGED enabled

QGet ==
  /\ enabled
  /\ queue # <<>>
  /\ queue' = Tail(queue)
  /\ UNCHANGED enabled

QDisable ==
  /\ enabled
  /\ enabled' = FALSE
  /\ queue' = <<>>

QNext == (\E item \in Item : QPut(item)) \/ QOverrun \/ QGet \/ QDisable

QSpec == QInit /\ [][QNext]_queueVars
=============================================================================
