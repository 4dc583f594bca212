----------------------------- MODULE Ring_proofs -----------------------------
(***************************************************************************)
(* What put and get do to the queue that a ring stands for, for rings of   *)
(* every size, wherever its indices are.                                   *)
(***************************************************************************)
EXTENDS Ring, SequenceTheorems, TLAPS

(* A ring of n slots whose values are in S. *)
RingOf(n, S) == [head : 0 .. n - 1, tail : 0 .. n - 1, slot : [0 .. n - 1 -> S]]

(* Distances on the circle: from head to tail before and after a move.      *)
Between(h, t, n) == IF h <= t THEN t - h ELSE t - h + n

Next1(a, n) == IF a + 1 = n THEN 0 ELSE a + 1

(* The indices wrap around.                                                 *)
LEMMA Wrap ==
  ASSUME NEW n \in Nat, n > 1, NEW a \in 0 .. n - 1
  PROVE  /\ CRem(a, n) = a
         /\ CRem(a + 1, n) = Next1(a, n)
         /\ CRem(a + 1, n) \in 0 .. n - 1
<1>1. a % n = a
  OBVIOUS
<1>2. (a + 1) % n = IF a + 1 = n THEN 0 ELSE a + 1
  OBVIOUS
<1>3. QED
  BY <1>1, <1>2 DEF CRem, Next1

LEMMA WrapNegative ==
  ASSUME NEW n \in Nat, n > 1
  PROVE  CRem(-1, n) = -1
<1>1. 1 % n = 1
  OBVIOUS
<1>2. QED
  BY <1>1 DEF CRem

LEMMA WrapDifference ==
  ASSUME NEW n \in Nat, n > 1, NEW h \in 0 .. n - 1, NEW t \in 0 .. n - 1
  PROVE  /\ (t - h) % n = Between(h, t, n)
         /\ (t - h) % n \in 0 .. n - 1
BY DEF Between

(* The slot of the i-th item. *)
Nth(h, n, i) == IF h + i - 1 < n THEN h + i - 1 ELSE h + i - 1 - n

Index(r, n, i) == Nth(r.head, n, i)

LEMMA NthFacts ==
  ASSUME NEW n \in Nat, n > 1, NEW h \in 0 .. n - 1, NEW i \in 1 .. n
  PROVE  (h + i - 1) % n = Nth(h, n, i) /\ Nth(h, n, i) \in 0 .. n - 1
<1>1. CASE h + i - 1 < n
  BY <1>1 DEF Nth
<1>2. CASE h + i - 1 >= n
  <2>1. (h + i - 1) % n = h + i - 1 - n
    BY <1>2
  <2>2. QED
    BY <1>2, <2>1 DEF Nth
<1>3. QED
  BY <1>1, <1>2

LEMMA NthApart ==
  ASSUME NEW n \in Nat, NEW h \in 0 .. n - 1, NEW t \in 0 .. n - 1
  PROVE  /\ Between(h, t, n) \in 0 .. n - 1
         /\ Nth(h, n, Between(h, t, n) + 1) = t
         /\ Nth(h, n, 1) = h
BY DEF Nth, Between

LEMMA NthNotTail ==
  ASSUME NEW n \in Nat, NEW h \in 0 .. n - 1, NEW t \in 0 .. n - 1,
         NEW i \in 1 .. Between(h, t, n)
  PROVE  Nth(h, n, i) # t
BY DEF Nth, Between

LEMMA NthNotHead ==
  ASSUME NEW n \in Nat, NEW h \in 0 .. n - 1, NEW i \in 2 .. n
  PROVE  Nth(h, n, i) # h
BY DEF Nth

LEMMA NthNext ==
  ASSUME NEW n \in Nat, NEW h \in 0 .. n - 1, NEW i \in 1 .. n - 1
  PROVE  Nth(Next1(h, n), n, i) = Nth(h, n, i + 1)
BY DEF Nth, Next1

LEMMA BetweenMoves ==
  ASSUME NEW n \in Nat, n > 1, NEW h \in 0 .. n - 1, NEW t \in 0 .. n - 1
  PROVE  /\ Between(h, t, n) < n - 1 => Between(h, Next1(t, n), n) = Between(h, t, n) + 1
         /\ Between(h, t, n) = n - 1 => Between(h, Next1(t, n), n) = 0
         /\ h # t => Between(Next1(h, n), t, n) = Between(h, t, n) - 1
BY DEF Between, Next1

(* A sequence over a set is one over any larger set.                        *)
LEMMA SeqOfMore ==
  ASSUME NEW S, NEW T, S \subseteq T, NEW q \in Seq(S)
  PROVE  q \in Seq(T)
<1>1. \A i \in 1 .. Len(q) : q[i] \in T
  BY ElementOfSeq
<1>2. q \in [1 .. Len(q) -> T] /\ Len(q) \in Nat
  BY <1>1, LenProperties
<1>3. QED
  BY <1>2

(* How many items a ring holds.                                             *)
LEMMA LengthFacts ==
  ASSUME NEW n \in Nat, n > 1, NEW S, NEW r \in RingOf(n, S)
  PROVE  /\ RingLength(r, n) = Between(r.head, r.tail, n)
         /\ RingLength(r, n) \in 0 .. n - 1
         /\ RingEmpty(r) <=> RingLength(r, n) = 0
<1> DEFINE h == r.head
           t == r.tail
<1>1. h \in 0 .. n - 1 /\ t \in 0 .. n - 1
  BY DEF RingOf
<1>2. RingLength(r, n) = (t - h) % n /\ (RingEmpty(r) <=> h = t)
  BY DEF RingLength, RingEmpty
<1> HIDE DEF h, t
<1>3. /\ RingLength(r, n) = Between(h, t, n)
      /\ RingLength(r, n) \in 0 .. n - 1
  BY <1>1, <1>2, WrapDifference
<1>4. h = t <=> RingLength(r, n) = 0
  BY <1>1, <1>3 DEF Between
<1>5. QED
  BY <1>2, <1>3, <1>4 DEF h, t

LEMMA ContentFacts ==
  ASSUME NEW n \in Nat, n > 1, NEW S, NEW r \in RingOf(n, S)
  PROVE  /\ Content(r, n) \in Seq(S)
         /\ Len(Content(r, n)) = RingLength(r, n)
         /\ \A i \in 1 .. RingLength(r, n) :
              /\ Index(r, n, i) \in 0 .. n - 1
              /\ Content(r, n)[i] = r.slot[Index(r, n, i)]
<1>1. r.head \in 0 .. n - 1 /\ r.tail \in 0 .. n - 1 /\ r.slot \in [0 .. n - 1 -> S]
  BY DEF RingOf
<1>2. RingLength(r, n) \in 0 .. n - 1
  BY LengthFacts
<1>3. ASSUME NEW i \in 1 .. RingLength(r, n)
      PROVE  /\ Index(r, n, i) \in 0 .. n - 1
             /\ (r.head + i - 1) % n = Index(r, n, i)
  <2>1. i \in 1 .. n
    BY <1>2
  <2>2. QED
    BY <1>1, <2>1, NthFacts DEF Index
<1>4. Content(r, n) = [i \in 1 .. RingLength(r, n) |-> r.slot[Index(r, n, i)]]
  BY <1>3 DEF Content
<1>5. \A i \in 1 .. RingLength(r, n) : r.slot[Index(r, n, i)] \in S
  BY <1>1, <1>3
<1>6. QED
  BY <1>2, <1>3, <1>4, <1>5

LEMMA EmptyContent ==
  ASSUME NEW n \in Nat, n > 1, NEW S, NoItem \in S
  PROVE  /\ EmptyRing(n) \in RingOf(n, S)
         /\ RingLength(EmptyRing(n), n) = 0
         /\ Content(EmptyRing(n), n) = <<>>
<1>1. EmptyRing(n) \in RingOf(n, S)
  BY DEF EmptyRing, RingOf
<1>2. RingLength(EmptyRing(n), n) = 0
  BY <1>1, LengthFacts DEF EmptyRing, Between
<1>3. QED
  BY <1>1, <1>2, ContentFacts, EmptySeq

(* put appends, except to a ring that is full although put's condition does *)
(* not say so: the ring is empty then.                                      *)
LEMMA PutFacts ==
  ASSUME NEW n \in Nat, n > 1, NEW S, NEW r \in RingOf(n, S), NEW item \in S
  PROVE  /\ RingPut(r, n, item) \in RingOf(n, S)
         /\ RingLength(r, n) < n - 1 =>
              /\ RingLength(RingPut(r, n, item), n) = RingLength(r, n) + 1
              /\ Content(RingPut(r, n, item), n) = Append(Content(r, n), item)
         /\ RingLength(r, n) = n - 1 =>
              /\ RingLength(RingPut(r, n, item), n) = 0
              /\ Content(RingPut(r, n, item), n) = <<>>
<1> DEFINE p == RingPut(r, n, item)
           L == RingLength(r, n)
<1>1. /\ r.head \in 0 .. n - 1 /\ r.tail \in 0 .. n - 1
      /\ r.slot \in [0 .. n - 1 -> S]
  BY DEF RingOf
<1>2. /\ p.head = r.head
      /\ p.tail = Next1(r.tail, n)
      /\ p.slot = [r.slot EXCEPT ![r.tail] = item]
  BY <1>1, Wrap DEF RingPut, RingOf
<1>3. p \in RingOf(n, S)
  <2>1. CRem(r.tail + 1, n) \in 0 .. n - 1
    BY <1>1, Wrap
  <2>2. QED
    BY <1>1, <2>1 DEF RingPut, RingOf
<1> HIDE DEF p
<1>4. L = Between(r.head, r.tail, n) /\ L \in 0 .. n - 1
  BY LengthFacts
<1>5. RingLength(p, n) = Between(p.head, p.tail, n)
  BY <1>3, LengthFacts
<1>6. Content(r, n) \in Seq(S) /\ Len(Content(r, n)) = L
  BY ContentFacts
<1>7. Content(p, n) \in Seq(S) /\ Len(Content(p, n)) = RingLength(p, n)
  BY <1>3, ContentFacts
<1>8. CASE L < n - 1
  <2>1. RingLength(p, n) = L + 1
    BY <1>1, <1>2, <1>4, <1>5, <1>8, BetweenMoves
  <2>2. ASSUME NEW i \in 1 .. L + 1
        PROVE  Content(p, n)[i] = Append(Content(r, n), item)[i]
    <3>1. Content(p, n)[i] = p.slot[Index(p, n, i)] /\ Index(p, n, i) \in 0 .. n - 1
      BY <1>3, <2>1, ContentFacts
    <3>2. Index(p, n, i) = Index(r, n, i)
      BY <1>2 DEF Index
    <3>3. CASE i = L + 1
      <4>1. Index(r, n, i) = r.tail
        <5>1. Nth(r.head, n, Between(r.head, r.tail, n) + 1) = r.tail
          BY <1>1, NthApart
        <5>2. QED
          BY <1>4, <3>3, <5>1 DEF Index
      <4>2. QED
        BY <1>1, <1>2, <1>6, <3>1, <3>2, <3>3, <4>1
    <3>4. CASE i # L + 1
      <4>1. i \in 1 .. L
        BY <1>4, <3>4
      <4>2. Index(r, n, i) # r.tail /\ Content(r, n)[i] = r.slot[Index(r, n, i)]
        <5>1. i \in 1 .. Between(r.head, r.tail, n)
          BY <1>4, <4>1
        <5>2. Nth(r.head, n, i) # r.tail
          BY <1>1, <5>1, NthNotTail
        <5>3. QED
          BY <4>1, <5>2, ContentFacts DEF Index
      <4>3. p.slot[Index(r, n, i)] = r.slot[Index(r, n, i)]
        BY <1>1, <1>2, <3>1, <3>2, <4>2
      <4>4. QED
        BY <1>6, <3>1, <3>2, <4>1, <4>2, <4>3
    <3>5. QED
      BY <3>3, <3>4
  <2>3. /\ Append(Content(r, n), item) \in Seq(S)
        /\ Len(Append(Content(r, n), item)) = L + 1
    BY <1>6
  <2>4. Content(p, n) = Append(Content(r, n), item)
    BY <1>7, <2>1, <2>2, <2>3, SeqEqual
  <2>5. QED
    BY <1>3, <1>8, <2>1, <2>4 DEF p
<1>9. CASE L = n - 1
  <2>1. RingLength(p, n) = 0
    <3>1. Between(r.head, r.tail, n) = n - 1
      BY <1>4, <1>9
    <3>2. Between(r.head, Next1(r.tail, n), n) = 0
      BY <1>1, <3>1, BetweenMoves
    <3>3. QED
      BY <1>2, <1>5, <3>2
  <2>2. Content(p, n) = <<>>
    BY <1>7, <2>1, EmptySeq
  <2>3. QED
    BY <1>3, <1>9, <2>1, <2>2 DEF p
<1>10. QED
  BY <1>4, <1>8, <1>9

(* get takes the first item.                                                *)
LEMMA GetFacts ==
  ASSUME NEW n \in Nat, n > 1, NEW S, NoItem \in S, NEW r \in RingOf(n, S), ~RingEmpty(r)
  PROVE  /\ RingGet(r, n) \in RingOf(n, S)
         /\ RingLength(RingGet(r, n), n) = RingLength(r, n) - 1
         /\ Content(RingGet(r, n), n) = Tail(Content(r, n))
         /\ Content(r, n) # <<>>
         /\ RingNext(r) = Content(r, n)[1]
<1> DEFINE g == RingGet(r, n)
           L == RingLength(r, n)
<1>1. /\ r.head \in 0 .. n - 1 /\ r.tail \in 0 .. n - 1
      /\ r.slot \in [0 .. n - 1 -> S] /\ r.head # r.tail
  BY DEF RingOf, RingEmpty
<1>2. /\ g.tail = r.tail
      /\ g.head = Next1(r.head, n)
      /\ g.slot = [r.slot EXCEPT ![r.head] = NoItem]
  BY <1>1, Wrap DEF RingGet, RingOf
<1>3. g \in RingOf(n, S)
  <2>1. CRem(r.head + 1, n) \in 0 .. n - 1
    BY <1>1, Wrap
  <2>2. QED
    BY <1>1, <2>1 DEF RingGet, RingOf
<1> HIDE DEF g
<1>4. L = Between(r.head, r.tail, n) /\ L \in 1 .. n - 1
  <2>1. L = Between(r.head, r.tail, n) /\ L \in 0 .. n - 1 /\ L # 0
    BY LengthFacts
  <2>2. QED
    BY <2>1
<1>5. RingLength(g, n) = L - 1
  <2>1. RingLength(g, n) = Between(g.head, g.tail, n)
    BY <1>3, LengthFacts
  <2>2. QED
    BY <1>1, <1>2, <1>4, <2>1, BetweenMoves
<1>6. Content(r, n) \in Seq(S) /\ Len(Content(r, n)) = L
  BY ContentFacts
<1>7. Content(g, n) \in Seq(S) /\ Len(Content(g, n)) = L - 1
  BY <1>3, <1>5, ContentFacts
<1>8. Content(r, n) # <<>>
  BY <1>4, <1>6, EmptySeq
<1>9. RingNext(r) = Content(r, n)[1]
  <2>1. Content(r, n)[1] = r.slot[Index(r, n, 1)]
    BY <1>4, ContentFacts
  <2>2. Index(r, n, 1) = r.head
    BY <1>1, <1>4, NthApart DEF Index
  <2>3. QED
    BY <2>1, <2>2 DEF RingNext
<1>10. /\ Tail(Content(r, n)) \in Seq(S)
       /\ Len(Tail(Content(r, n))) = L - 1
       /\ \A i \in 1 .. L - 1 : Tail(Content(r, n))[i] = Content(r, n)[i + 1]
  BY <1>4, <1>6, <1>8, HeadTailProperties
<1>11. ASSUME NEW i \in 1 .. L - 1
       PROVE  Content(g, n)[i] = Tail(Content(r, n))[i]
  <2>1. Content(g, n)[i] = g.slot[Index(g, n, i)] /\ Index(g, n, i) \in 0 .. n - 1
    BY <1>3, <1>5, ContentFacts
  <2>2. i + 1 \in 1 .. L
    BY <1>4
  <2>3. Content(r, n)[i + 1] = r.slot[Index(r, n, i + 1)]
    BY <2>2, ContentFacts
  <2>4. Index(g, n, i) = Index(r, n, i + 1) /\ Index(g, n, i) # r.head
    <3>1. i \in 1 .. n - 1 /\ i + 1 \in 2 .. n
      BY <1>4
    <3>2. Nth(Next1(r.head, n), n, i) = Nth(r.head, n, i + 1)
      BY <1>1, <3>1, NthNext
    <3>3. Nth(r.head, n, i + 1) # r.head
      BY <1>1, <3>1, NthNotHead
    <3>4. QED
      BY <1>2, <3>2, <3>3 DEF Index
  <2>5. g.slot[Index(g, n, i)] = r.slot[Index(g, n, i)]
    BY <1>1, <1>2, <2>1, <2>4
  <2>6. QED
    BY <1>10, <2>1, <2>3, <2>4, <2>5
<1>12. Content(g, n) = Tail(Content(r, n))
  BY <1>7, <1>10, <1>11, SeqEqual
<1>13. QED
  BY <1>3, <1>5, <1>8, <1>9, <1>12 DEF g

-----------------------------------------------------------------------------
(* The condition that put waits on: a full ring is recognised unless its    *)
(* head is at slot 0, for rings of every size.                              *)
THEOREM FullUnlessHeadIsZero ==
  ASSUME NEW n \in Nat, n > 1, NEW S, NEW r \in RingOf(n, S)
  PROVE  RingFull(r, n) <=> RingLength(r, n) = n - 1 /\ r.head # 0
<1> DEFINE h == r.head
           t == r.tail
<1>1. h \in 0 .. n - 1 /\ t \in 0 .. n - 1
  BY DEF RingOf
<1>2. RingLength(r, n) = Between(h, t, n) /\ (RingFull(r, n) <=> t = CRem(h - 1, n))
  BY LengthFacts DEF RingFull
<1> HIDE DEF h, t
<1>3. CASE h = 0
  <2>1. h - 1 = -1
    BY <1>3
  <2>2. t # CRem(h - 1, n)
    BY <1>1, <2>1, WrapNegative
  <2>3. QED
    BY <1>2, <1>3, <2>2 DEF h
<1>4. CASE h # 0
  <2>1. h - 1 \in 0 .. n - 1
    BY <1>1, <1>4
  <2>2. CRem(h - 1, n) = h - 1
    BY <2>1, Wrap
  <2>3. t = h - 1 <=> Between(h, t, n) = n - 1
    BY <1>1, <1>4 DEF Between
  <2>4. QED
    BY <1>2, <1>4, <2>2, <2>3 DEF h
<1>5. QED
  BY <1>3, <1>4
=============================================================================
