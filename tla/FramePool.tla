----------------------------- MODULE FramePool -----------------------------
(***************************************************************************)
(* The pool of frames that each program allocates at its start and grows   *)
(* on demand (FramePool).  A pool is a value: the queue of free frames and *)
(* the set of allocated ones.  A frame is named by the order in which the  *)
(* pool created it.                                                        *)
(***************************************************************************)
EXTENDS Integers, SequencesExt

CONSTANTS
  PoolSize, (* the frames of a new pool                                      *)
  PoolMax   (* FRAME_POOL_MAX_FRAMES                                         *)

ASSUME PoolAssumption == PoolMax \in Nat /\ PoolSize \in 1 .. PoolMax

Frame == 1 .. PoolMax

NewPool == [free |-> [i \in 1 .. PoolSize |-> i], alloc |-> {}]

Size(p) == Len(p.free) + Cardinality(p.alloc)

DoubledSize(n) == IF 2 * n <= PoolMax THEN 2 * n ELSE PoolMax

(* Otherwise allocFrame returns FRAME_POOL_ERR_FULL. *)
HasRoom(p) == p.free # <<>> \/ Size(p) < PoolMax

Grown(p) ==
  IF p.free # <<>> THEN p
  ELSE [p EXCEPT !.free = [i \in 1 .. DoubledSize(Size(p)) - Size(p) |-> Size(p) + i]]

(* The frame allocFrame hands out, and the pool it leaves. *)
NextFrame(p) == Head(Grown(p).free)

AllocFrame(p) ==
  [free |-> Tail(Grown(p).free), alloc |-> p.alloc \cup {NextFrame(p)}]

(* FRAME_POOL_ERR_INVALID leaves the pool as it is. *)
UnallocFrame(p, f) ==
  IF f \in p.alloc
  THEN [free |-> Append(p.free, f), alloc |-> p.alloc \ {f}]
  ELSE p

(* Frames released one after the other, in whatever order: the pools this   *)
(* may leave.                                                               *)
UnallocAll(p, frames) ==
  {[free |-> p.free \o q, alloc |-> p.alloc \ frames] : q \in SetToSeqs(frames \cap p.alloc)}
=============================================================================
