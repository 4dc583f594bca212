-------------------------------- MODULE Ring --------------------------------
(***************************************************************************)
(* The indices of RingBuffer: what put and get do to them and to the       *)
(* slots, between taking the lock and releasing it.  A ring of size n is a *)
(* record; Content reads it as the queue it stands for.                    *)
(***************************************************************************)
EXTENDS Integers, Sequences

(* The value of a slot that holds no item. *)
NoItem == 0

(* The % of C++: the remainder has the sign of the dividend. *)
CRem(a, n) == IF a >= 0 THEN a % n ELSE -((-a) % n)

EmptyRing(n) == [head |-> 0, tail |-> 0, slot |-> [i \in 0 .. n - 1 |-> NoItem]]

(* Faulty: full one slot too early. *)
RingFullOffByOne(r, n) == r.tail = CRem(r.head - 2, n)

(* The condition put waits on.  With head 0 the remainder is -1, which no   *)
(* tail equals.                                                             *)
RingFull(r, n) == r.tail = CRem(r.head - 1, n)

RingEmpty(r) == r.head = r.tail

(* Faulty: forgets to wrap around. *)
RingPutNoWrap(r, n, item) == [r EXCEPT !.slot[r.tail] = item, !.tail = r.tail + 1]

RingPut(r, n, item) ==
  [r EXCEPT !.slot[r.tail] = item, !.tail = CRem(r.tail + 1, n)]

RingNext(r) == r.slot[r.head]

(* Faulty: sticks at the last slot. *)
RingGetNoWrap(r, n) ==
  [r EXCEPT !.slot[r.head] = NoItem, !.head = IF r.head + 1 < n THEN r.head + 1 ELSE r.head]

RingGet(r, n) ==
  [r EXCEPT !.slot[r.head] = NoItem, !.head = CRem(r.head + 1, n)]

(* The items from head up to tail. *)
RingLength(r, n) == (r.tail - r.head) % n
Content(r, n) == [i \in 1 .. RingLength(r, n) |-> r.slot[(r.head + i - 1) % n]]
=============================================================================
