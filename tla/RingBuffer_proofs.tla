-------------------------- MODULE RingBuffer_proofs --------------------------
(***************************************************************************)
(* RingBuffer implements BoundedQueue, and items leave it in the order in  *)
(* which they were put, for any number of threads and any size.  That no   *)
(* wake-up is lost is liveness, which TLC checks.                          *)
(***************************************************************************)
EXTENDS RingBuffer, Ring_proofs

(* The ring, and the items in it: numbered upwards, after the one returned  *)
(* last and up to the one accepted last.                                    *)
Items == Content(ring, Size)

Rising(q, low, high) ==
  /\ \A i \in 1 .. Len(q) : low < q[i] /\ q[i] <= high
  /\ \A i, j \in 1 .. Len(q) : i < j => q[i] < q[j]
  /\ low <= high

RingInv ==
  /\ TypeOK
  /\ Rising(Items, last, accepted)
  /\ got + Len(Items) <= accepted

LEMMA RisingEmpty ==
  ASSUME NEW low \in Nat, NEW high \in Nat, low <= high
  PROVE  Rising(<<>>, low, high)
BY DEF Rising

LEMMA RisingAppend ==
  ASSUME NEW q \in Seq(Nat), NEW low \in Nat, NEW high \in Nat, Rising(q, low, high)
  PROVE  Rising(Append(q, high + 1), low, high + 1)
<1> DEFINE r == Append(q, high + 1)
<1>1. /\ Len(r) = Len(q) + 1
      /\ \A i \in 1 .. Len(q) : r[i] = q[i] /\ q[i] \in Nat
      /\ r[Len(q) + 1] = high + 1
      /\ Len(q) \in Nat
  OBVIOUS
<1> HIDE DEF r
<1>2. QED
  BY <1>1 DEF Rising, r

LEMMA RisingTail ==
  ASSUME NEW q \in Seq(Nat), NEW low \in Nat, NEW high \in Nat, Rising(q, low, high), q # <<>>
  PROVE  /\ Rising(Tail(q), q[1], high)
         /\ Len(Tail(q)) = Len(q) - 1
         /\ q[1] \in Nat /\ low < q[1]
         /\ Len(q) \in Nat /\ Len(q) > 0
<1> DEFINE r == Tail(q)
<1>1. /\ Len(r) = Len(q) - 1
      /\ \A i \in 1 .. Len(q) - 1 : r[i] = q[i + 1]
      /\ \A i \in 1 .. Len(q) : q[i] \in Nat
      /\ Len(q) \in Nat /\ Len(q) > 0
  OBVIOUS
<1>2. 1 \in 1 .. Len(q)
  BY <1>1
<1> HIDE DEF r
<1>3. low < q[1] /\ q[1] <= high /\ q[1] \in Nat
  BY <1>1, <1>2 DEF Rising
<1>4. ASSUME NEW i \in 1 .. Len(r)
      PROVE  /\ i + 1 \in 1 .. Len(q)
             /\ r[i] = q[i + 1] /\ q[1] < r[i] /\ r[i] <= high
  <2>1. i + 1 \in 1 .. Len(q) /\ 1 < i + 1
    BY <1>1
  <2>2. QED
    BY <1>1, <1>2, <2>1 DEF Rising
<1>5. ASSUME NEW i \in 1 .. Len(r), NEW j \in 1 .. Len(r), i < j
      PROVE  r[i] < r[j]
  <2>1. i + 1 \in 1 .. Len(q) /\ j + 1 \in 1 .. Len(q) /\ i + 1 < j + 1
    BY <1>1, <1>5
  <2>2. QED
    BY <1>4, <2>1 DEF Rising
<1>6. Rising(r, q[1], high)
  BY <1>3, <1>4, <1>5 DEF Rising
<1>7. QED
  BY <1>1, <1>3, <1>6 DEF r

LEMMA SizeFacts ==
  /\ Size \in Nat /\ Size > 1
  /\ MaxItems \in Nat
  /\ NoItem \in 0 .. MaxItems
BY RingAssumption DEF NoItem

(* What Ring_proofs says of the ring of a state of the right type.          *)
LEMMA ItemsFacts ==
  ASSUME TypeOK
  PROVE  /\ ring \in RingOf(Size, 0 .. MaxItems)
         /\ Items \in Seq(0 .. MaxItems) /\ Items \in Seq(Nat)
         /\ Len(Items) = RingLength(ring, Size)
         /\ Len(Items) \in 0 .. Size - 1
<1>1. ring \in RingOf(Size, 0 .. MaxItems)
  BY DEF TypeOK, RingOf
<1>2. /\ Items \in Seq(0 .. MaxItems)
      /\ Len(Items) = RingLength(ring, Size)
      /\ Len(Items) \in 0 .. Size - 1
  BY <1>1, SizeFacts, ContentFacts, LengthFacts DEF Items
<1>3. Items \in Seq(Nat)
  <2>1. 0 .. MaxItems \subseteq Nat
    OBVIOUS
  <2>2. QED
    BY <1>2, <2>1, SeqOfMore
<1>4. QED
  BY <1>1, <1>2, <1>3

LEMMA PutItems ==
  ASSUME TypeOK, NEW p \in Producer, Put(p)
  PROVE  /\ ring' \in RingOf(Size, 0 .. MaxItems)
         /\ \/ /\ Len(Items) < Size - 1
               /\ Items' = Append(Items, accepted + 1)
            \/ /\ Len(Items) = Size - 1
               /\ Items' = <<>>
         /\ accepted + 1 \in 1 .. MaxItems
<1>1. /\ ring' = RingPut(ring, Size, accepted + 1)
      /\ accepted + 1 \in 1 .. MaxItems
  BY SizeFacts DEF Put, MayPut, TypeOK
<1>2. /\ ring \in RingOf(Size, 0 .. MaxItems)
      /\ Len(Items) = RingLength(ring, Size)
      /\ Len(Items) \in 0 .. Size - 1
  BY ItemsFacts
<1>3. accepted + 1 \in 0 .. MaxItems
  BY <1>1
<1>4. /\ ring' \in RingOf(Size, 0 .. MaxItems)
      /\ RingLength(ring, Size) < Size - 1 =>
           Content(ring', Size) = Append(Content(ring, Size), accepted + 1)
      /\ RingLength(ring, Size) = Size - 1 => Content(ring', Size) = <<>>
  BY <1>1, <1>2, <1>3, SizeFacts, PutFacts
<1>5. QED
  BY <1>1, <1>2, <1>4, SizeFacts DEF Items

LEMMA GetItems ==
  ASSUME TypeOK, NEW c \in Consumer, Get(c)
  PROVE  /\ ring' \in RingOf(Size, 0 .. MaxItems)
         /\ Items # <<>>
         /\ Items' = Tail(Items)
         /\ last' = Items[1]
<1>1. /\ ring' = RingGet(ring, Size) /\ ~RingEmpty(ring)
      /\ last' = RingNext(ring)
  BY DEF Get
<1>2. QED
  BY <1>1, ItemsFacts, SizeFacts, GetFacts DEF Items

LEMMA DisableItems ==
  ASSUME Disable
  PROVE  /\ ring' \in RingOf(Size, 0 .. MaxItems)
         /\ Items' = <<>>
BY SizeFacts, EmptyContent DEF Disable, Items

(* Every other step leaves the ring alone. *)
RingStep ==
  (\E p \in Producer : Put(p)) \/ (\E c \in Consumer : Get(c)) \/ Disable

LEMMA RingStays ==
  ASSUME [Next]_ringVars, ~RingStep
  PROVE  UNCHANGED <<ring, enabled, accepted, got, last>>
BY DEF Next, ringVars, RingStep, Produce, Consume, PutWaits, GetWaits, End, SpuriousWakeup,
   AllEnded

-----------------------------------------------------------------------------
LEMMA RingInit == Init => RingInv
<1> SUFFICES ASSUME Init PROVE RingInv
  OBVIOUS
<1>1. /\ EmptyRing(Size) \in RingOf(Size, 0 .. MaxItems)
      /\ Items = <<>>
  BY SizeFacts, EmptyContent DEF Init, Items
<1>2. TypeOK
  BY <1>1, SizeFacts DEF Init, TypeOK, RingOf
<1>3. Rising(Items, last, accepted) /\ Len(Items) = 0
  BY <1>1, RisingEmpty DEF Init
<1>4. QED
  BY <1>1, <1>2, <1>3, SizeFacts DEF Init, RingInv

LEMMA RingInvFacts ==
  ASSUME RingInv
  PROVE  /\ TypeOK /\ Rising(Items, last, accepted) /\ got + Len(Items) <= accepted
         /\ Items \in Seq(Nat) /\ Len(Items) \in Nat
         /\ accepted \in Nat /\ got \in Nat /\ last \in Nat
         /\ last <= accepted
<1>1. TypeOK /\ Rising(Items, last, accepted) /\ got + Len(Items) <= accepted
  BY DEF RingInv
<1>2. Items \in Seq(Nat)
  BY <1>1, ItemsFacts
<1>3. accepted \in Nat /\ got \in Nat /\ last \in Nat
  BY <1>1, SizeFacts DEF TypeOK
<1>4. last <= accepted
  BY <1>1 DEF Rising
<1>5. QED
  BY <1>1, <1>2, <1>3, <1>4

LEMMA RingTypeStep ==
  ASSUME RingInv, [Next]_ringVars
  PROVE  TypeOK'
<1>0. /\ TypeOK /\ Items \in Seq(Nat)
      /\ Rising(Items, last, accepted) /\ got + Len(Items) <= accepted
      /\ accepted \in Nat /\ got \in Nat /\ last \in Nat
  BY RingInvFacts
<1>1. /\ waiting' \subseteq Thread /\ ended' \subseteq Thread
  BY <1>0 DEF TypeOK, Next, ringVars, Produce, Consume, Put, PutWaits, Get, GetWaits, End, Disable,
     SpuriousWakeup, AllEnded, NotifyOne, Thread
<1>2. ASSUME NEW p \in Producer, Put(p)
      PROVE  TypeOK'
  <2>1. ring' \in RingOf(Size, 0 .. MaxItems) /\ accepted + 1 \in 1 .. MaxItems
    BY <1>0, <1>2, PutItems
  <2>2. QED
    BY <1>0, <1>1, <1>2, <2>1 DEF TypeOK, RingOf, Put
<1>3. ASSUME NEW c \in Consumer, Get(c)
      PROVE  TypeOK'
  <2>1. /\ ring' \in RingOf(Size, 0 .. MaxItems) /\ Items # <<>> /\ last' = Items[1]
    BY <1>0, <1>3, GetItems
  <2>2. Len(Items) \in Nat /\ Len(Items) > 0 /\ Items[1] \in Nat /\ Items[1] <= accepted
    BY <1>0, <2>1, RisingTail DEF Rising
  <2>3. last' \in 0 .. MaxItems /\ got + 1 \in 0 .. MaxItems
    BY <1>0, <2>1, <2>2, SizeFacts DEF TypeOK
  <2>4. QED
    BY <1>0, <1>1, <1>3, <2>1, <2>3 DEF TypeOK, RingOf, Get
<1>4. CASE Disable
  <2>1. ring' \in RingOf(Size, 0 .. MaxItems)
    BY <1>4, DisableItems
  <2>2. QED
    BY <1>0, <1>1, <1>4, <2>1 DEF TypeOK, RingOf, Disable
<1>5. CASE ~RingStep
  BY <1>0, <1>1, <1>5, RingStays DEF TypeOK
<1>6. QED
  BY <1>2, <1>3, <1>4, <1>5 DEF RingStep

LEMMA RingInvStep ==
  ASSUME RingInv, [Next]_ringVars
  PROVE  RingInv'
<1>1. TypeOK'
  BY RingTypeStep
<1>2. /\ Items \in Seq(Nat) /\ Len(Items) \in Nat
      /\ accepted \in Nat /\ got \in Nat /\ last \in Nat
      /\ TypeOK /\ Rising(Items, last, accepted) /\ got + Len(Items) <= accepted
      /\ last <= accepted
  BY RingInvFacts
<1>3. ASSUME NEW p \in Producer, Put(p)
      PROVE  RingInv'
  <2>1. accepted' = accepted + 1 /\ got' = got /\ last' = last
    BY <1>3 DEF Put
  <2>2. CASE Items' = Append(Items, accepted + 1)
    <3>1. Rising(Items', last', accepted')
      BY <1>2, <2>1, <2>2, RisingAppend
    <3>2. Len(Items') = Len(Items) + 1
      BY <1>2, <2>2, AppendProperties
    <3>3. QED
      BY <1>1, <1>2, <2>1, <3>1, <3>2 DEF RingInv
  <2>3. CASE Items' = <<>>
    <3>1. Rising(Items', last', accepted')
      BY <1>2, <2>1, <2>3, RisingEmpty
    <3>2. Len(Items') = 0
      BY <2>3
    <3>3. QED
      BY <1>1, <1>2, <2>1, <3>1, <3>2 DEF RingInv
  <2>4. QED
    BY <1>2, <1>3, <2>2, <2>3, PutItems
<1>4. ASSUME NEW c \in Consumer, Get(c)
      PROVE  RingInv'
  <2>1. /\ accepted' = accepted /\ got' = got + 1
        /\ Items # <<>> /\ Items' = Tail(Items) /\ last' = Items[1]
    BY <1>2, <1>4, GetItems DEF Get
  <2>2. /\ Rising(Tail(Items), Items[1], accepted)
        /\ Len(Tail(Items)) = Len(Items) - 1
    BY <1>2, <2>1, RisingTail
  <2>3. QED
    BY <1>1, <1>2, <2>1, <2>2 DEF RingInv
<1>5. CASE Disable
  <2>1. Items' = <<>> /\ UNCHANGED <<accepted, got, last>>
    BY <1>5, DisableItems DEF Disable
  <2>2. Rising(Items', last', accepted') /\ Len(Items') = 0
    BY <1>2, <2>1, RisingEmpty
  <2>3. QED
    BY <1>1, <1>2, <2>1, <2>2 DEF RingInv
<1>6. CASE ~RingStep
  <2>1. UNCHANGED <<accepted, got, last>> /\ Items' = Items
    BY <1>6, RingStays DEF Items
  <2>2. QED
    BY <1>1, <1>2, <2>1 DEF RingInv
<1>7. QED
  BY <1>3, <1>4, <1>5, <1>6 DEF RingStep

(* Every variable keeps its type: no index leaves the slots, and get has    *)
(* never returned more items than put has accepted.                         *)
THEOREM RingTypeCorrect == Spec => []TypeOK
<1>1. RingInv => TypeOK
  BY DEF RingInv
<1>2. QED
  BY <1>1, RingInit, RingInvStep, PTL DEF Spec

-----------------------------------------------------------------------------
(* Items leave in the order in which they were put, and none twice, though  *)
(* a ring that overruns itself forgets some.                                *)
LEMMA OrderStep ==
  ASSUME RingInv, [Next]_ringVars
  PROVE  got' # got => last' > last
<1>0. /\ TypeOK /\ Items \in Seq(Nat) /\ Rising(Items, last, accepted)
      /\ last \in Nat /\ accepted \in Nat
  <2>1. TypeOK /\ Items \in Seq(Nat) /\ Rising(Items, last, accepted)
    BY ItemsFacts DEF RingInv
  <2>2. QED
    BY <2>1, SizeFacts DEF TypeOK
<1>1. ASSUME NEW c \in Consumer, Get(c)
      PROVE  last' > last
  <2>1. Items # <<>> /\ last' = Items[1]
    BY <1>0, <1>1, GetItems
  <2>2. Items[1] \in Nat /\ last < Items[1]
    BY <1>0, <2>1, RisingTail
  <2>3. QED
    BY <1>0, <2>1, <2>2
<1>2. CASE (\E p \in Producer : Put(p)) \/ Disable
  BY <1>2 DEF Put, Disable
<1>3. CASE ~RingStep
  BY <1>3, RingStays
<1>4. QED
  BY <1>1, <1>2, <1>3 DEF RingStep

THEOREM OrderCorrect == Spec => TakenInOrder
<1>1. QED
  BY RingInit, RingInvStep, OrderStep, PTL DEF Spec, TakenInOrder

-----------------------------------------------------------------------------
(* The refinement: Items is the queue.                                      *)
LEMMA QueueInit == Init => Queue!QInit
BY SizeFacts, EmptyContent DEF Init, Queue!QInit

LEMMA QueueStep ==
  ASSUME RingInv, [Next]_ringVars
  PROVE  [Queue!QNext]_(Queue!queueVars)
<1>0. TypeOK /\ Items \in Seq(0 .. MaxItems)
  BY ItemsFacts DEF RingInv
<1>1. ASSUME NEW p \in Producer, Put(p)
      PROVE  Queue!QNext
  <2>1. accepted + 1 \in 1 .. MaxItems /\ enabled /\ enabled' = enabled
    BY <1>0, <1>1, PutItems DEF Put
  <2>2. CASE Len(Items) < Size - 1 /\ Items' = Append(Items, accepted + 1)
    <3>1. Queue!QPut(accepted + 1)
      BY <2>1, <2>2 DEF Queue!QPut, Items
    <3>2. QED
      BY <2>1, <3>1 DEF Queue!QNext
  <2>3. CASE Len(Items) = Size - 1 /\ Items' = <<>>
    <3>1. Queue!QOverrun
      BY <2>1, <2>3 DEF Queue!QOverrun, Items
    <3>2. QED
      BY <3>1 DEF Queue!QNext
  <2>4. QED
    BY <1>0, <1>1, <2>2, <2>3, PutItems
<1>2. ASSUME NEW c \in Consumer, Get(c)
      PROVE  Queue!QNext
  <2>1. Items # <<>> /\ Items' = Tail(Items) /\ enabled /\ enabled' = enabled
    BY <1>0, <1>2, GetItems DEF Get
  <2>2. Queue!QGet
    BY <2>1 DEF Queue!QGet, Items
  <2>3. QED
    BY <2>2 DEF Queue!QNext
<1>3. CASE Disable
  <2>1. Items' = <<>> /\ enabled /\ enabled' = FALSE
    BY <1>3, DisableItems DEF Disable
  <2>2. Queue!QDisable
    BY <2>1 DEF Queue!QDisable, Items
  <2>3. QED
    BY <2>2 DEF Queue!QNext
<1>4. CASE ~RingStep
  BY <1>4, RingStays DEF Queue!queueVars
<1>5. QED
  BY <1>1, <1>2, <1>3, <1>4 DEF RingStep

(* A RingBuffer is a bounded queue, whatever threads use it.                *)
THEOREM QueueCorrect == Spec => IsBoundedQueue
<1>1. QED
  BY RingInit, RingInvStep, QueueInit, QueueStep, PTL DEF Spec, IsBoundedQueue, Queue!QSpec
=============================================================================
