------------------------- MODULE BridgeFrames_proofs -------------------------
(***************************************************************************)
(* Every frame of the bridge has one holder, and what TLS is owed is what  *)
(* the traffic shaping thread offers next, for any number of connections,  *)
(* any size of the pool and of the frames, unless the CLI thread runs      *)
(* between a round and the handler's last look at its frame.               *)
(***************************************************************************)
EXTENDS BridgeFrames, SequenceTheorems, FiniteSetTheorems, TLAPS

(* The frames that the pool has made are the free ones and the allocated.   *)
PoolInv(p) ==
  /\ p \in [free : Seq(Frame), alloc : SUBSET Frame]
  /\ IsInjective(p.free)
  /\ ToSet(p.free) \cap p.alloc = {}
  /\ ToSet(p.free) \cup p.alloc = 1 .. Size(p)
  /\ Size(p) \in 1 .. PoolMax

(* Who may hold frames, and which of them each one holds.                   *)
Owner == ({"ctrl", "data", "recv", "read"} \X Conn) \cup {<<"handler">>}

Own(o) ==
  CASE o[1] = "ctrl" -> ToSet(ctrlQ[o[2]])
    [] o[1] = "data" -> ToSet(dataQ[o[2]])
    [] o[1] = "recv" -> ToSet(recvQ[o[2]])
    [] o[1] = "read" -> {f \in {tmp[o[2]]} : HalfRead(o[2])}
    [] o[1] = "handler" -> {f \in {proxy.frame} \ {NoFrame} : content[f] = 0}

Owned == [o \in Owner |-> Own(o)]

Exclusive(own) == \A o, p \in Owner : o # p => own[o] \cap own[p] = {}

OwnInv ==
  /\ PoolInv(pool)
  /\ Exclusive(Owned)
  /\ \A o \in Owner : Owned[o] \subseteq pool.alloc
  /\ \A c \in Conn : IsInjective(ctrlQ[c]) /\ IsInjective(dataQ[c]) /\ IsInjective(recvQ[c])

(* A half-read frame has chunks to come; a connection that is gone, none.   *)
ReadInv ==
  \A c \in Conn :
    /\ Resumed(c) => tmp[c] \in Frame
    /\ HalfRead(c) /\ tmpChunk[c] > 0 => tmpChunk[c] < content[tmp[c]]
    /\ c \notin conn => ~Resumed(c)

(* The handler's frame, until the round: not a DATA frame, or queued.       *)
HandlerInv ==
  /\ proxy.at \in {"select", "sweep"} => proxy.frame = NoFrame
  /\ proxy.at \in {"round", "look"} => proxy.frame # NoFrame
  /\ proxy.at # "orders" => proxy.due = {}
  /\ proxy.at = "orders" /\ proxy.frame # NoFrame => content[proxy.frame] = 0
  /\ proxy.at = "round" /\ content[proxy.frame] # 0 =>
       \E c \in Conn : proxy.frame \in ToSet(recvQ[c])

(* The chunk in hand heads its queue, and TLS is owed the one after it.     *)
SendInv ==
  sending # None =>
    /\ sending.of.type = "CTRL" => Heads(sending.of.frame, ctrlQ[sending.conn])
    /\ sending.of.type = "DATA" => Heads(sending.of.frame, dataQ[sending.conn])
    /\ wrType[sending.conn] = "NONE"
    /\ owed[sending.conn] # None =>
         /\ HasMore(sending.of)
         /\ owed[sending.conn] = ChunkOf("DATA", sending.of.frame, sending.of.chunk + 1)

(* What TLS is owed otherwise: whatever was refused, or the next chunk of   *)
(* the frame that heads the queue.                                          *)
OwesCtrl(c) ==
  /\ wrType[c] = "CTRL" /\ ~PartialDataFrame(c)
  /\ ctrlQ[c] # <<>> /\ owed[c] = ChunkOf("CTRL", Head(ctrlQ[c]), 0)

OwesData(c) ==
  /\ wrType[c] = "DATA" \/ (wrType[c] = "NONE" /\ lastChunk[c] > 0)
  /\ dataQ[c] # <<>> /\ owed[c] = ChunkOf("DATA", Head(dataQ[c]), lastChunk[c])

OwesChaff(c) == wrType[c] = "CHAFF" /\ owed[c] = ChunkOf("CHAFF", Chaff, 0)

OwedInv ==
  \A c \in Conn :
    /\ lastChunk[c] > 0 => dataQ[c] # <<>>
    /\ c \notin conn => owed[c] = None
    /\ owed[c] = None \/ (sending # None /\ sending.conn = c)
         \/ OwesCtrl(c) \/ OwesData(c) \/ OwesChaff(c)

FramesInv == TypeOK /\ OwnInv /\ ReadInv /\ HandlerInv /\ SendInv /\ OwedInv

-----------------------------------------------------------------------------
(* Queues without repetitions, and what is in them.                         *)
LEMMA SetOfEmpty == ToSet(<<>>) = {} /\ IsInjective(<<>>)
BY DEF ToSet, IsInjective

LEMMA SetOfSeq ==
  ASSUME NEW S, NEW q \in Seq(S)
  PROVE  /\ ToSet(q) = {q[i] : i \in 1 .. Len(q)}
         /\ ToSet(q) \subseteq S
         /\ Len(q) \in Nat /\ DOMAIN q = 1 .. Len(q)
         /\ q # <<>> => 1 \in 1 .. Len(q) /\ Head(q) = q[1] /\ Head(q) \in ToSet(q)
BY DEF ToSet

LEMMA AppendSet ==
  ASSUME NEW S, NEW q \in Seq(S), NEW e \in S
  PROVE  /\ Append(q, e) \in Seq(S)
         /\ ToSet(Append(q, e)) = ToSet(q) \cup {e}
         /\ Len(Append(q, e)) = Len(q) + 1
         /\ IsInjective(q) /\ e \notin ToSet(q) => IsInjective(Append(q, e))
<1> DEFINE r == Append(q, e)
           n == Len(q)
<1>1. /\ n \in Nat /\ Len(r) = n + 1 /\ r \in Seq(S) /\ r[n + 1] = e
      /\ \A i \in 1 .. n : r[i] = q[i]
  OBVIOUS
<1>2. /\ ToSet(q) = {q[i] : i \in 1 .. n} /\ DOMAIN q = 1 .. n
      /\ ToSet(r) = {r[i] : i \in 1 .. n + 1} /\ DOMAIN r = 1 .. n + 1
  BY <1>1, SetOfSeq
<1> HIDE DEF r
<1>3. 1 .. n + 1 = (1 .. n) \cup {n + 1} /\ n + 1 \notin 1 .. n
  BY <1>1
<1>4. ToSet(r) = ToSet(q) \cup {e}
  BY <1>1, <1>2, <1>3
<1>5. ASSUME IsInjective(q), e \notin ToSet(q)
      PROVE  IsInjective(r)
  <2>1. SUFFICES ASSUME NEW i \in 1 .. n + 1, NEW j \in 1 .. n + 1, r[i] = r[j]
                 PROVE  i = j
    BY <1>2 DEF IsInjective
  <2>2. CASE i \in 1 .. n /\ j \in 1 .. n
    BY <1>1, <1>2, <1>5, <2>1, <2>2 DEF IsInjective
  <2>3. CASE i = n + 1 \/ j = n + 1
    BY <1>1, <1>2, <1>3, <1>5, <2>1, <2>3
  <2>4. QED
    BY <1>3, <2>2, <2>3
<1>6. QED
  BY <1>1, <1>4, <1>5 DEF r

LEMMA TailSet ==
  ASSUME NEW S, NEW q \in Seq(S), q # <<>>
  PROVE  /\ Tail(q) \in Seq(S)
         /\ Len(Tail(q)) = Len(q) - 1
         /\ ToSet(Tail(q)) \subseteq ToSet(q)
         /\ ToSet(q) = ToSet(Tail(q)) \cup {Head(q)}
         /\ IsInjective(q) => IsInjective(Tail(q)) /\ ToSet(Tail(q)) = ToSet(q) \ {Head(q)}
<1> DEFINE r == Tail(q)
           n == Len(q)
<1>1. /\ n \in Nat /\ n > 0 /\ Len(r) = n - 1 /\ r \in Seq(S)
      /\ \A i \in 1 .. n - 1 : r[i] = q[i + 1]
      /\ Head(q) = q[1]
  OBVIOUS
<1>2. /\ ToSet(q) = {q[i] : i \in 1 .. n} /\ DOMAIN q = 1 .. n
      /\ ToSet(r) = {r[i] : i \in 1 .. n - 1} /\ DOMAIN r = 1 .. n - 1
  BY <1>1, SetOfSeq
<1> HIDE DEF r, n
<1>3. ToSet(r) = {q[i] : i \in 2 .. n}
  <2>1. \A i \in 1 .. n - 1 : i + 1 \in 2 .. n
    BY <1>1
  <2>2. \A i \in 2 .. n : i - 1 \in 1 .. n - 1 /\ q[i] = r[i - 1]
    BY <1>1
  <2>3. QED
    BY <1>1, <1>2, <2>1, <2>2
<1>4. 1 .. n = (2 .. n) \cup {1} /\ 1 \notin 2 .. n
  BY <1>1
<1>5. ToSet(q) = ToSet(r) \cup {Head(q)}
  BY <1>1, <1>2, <1>3, <1>4
<1>6. ASSUME IsInjective(q)
      PROVE  IsInjective(r) /\ Head(q) \notin ToSet(r)
  <2>1. IsInjective(r)
    <3>1. SUFFICES ASSUME NEW i \in 1 .. n - 1, NEW j \in 1 .. n - 1, r[i] = r[j]
                   PROVE  i = j
      BY <1>2 DEF IsInjective
    <3>2. i + 1 \in 1 .. n /\ j + 1 \in 1 .. n /\ q[i + 1] = q[j + 1]
      BY <1>1, <3>1
    <3>3. i + 1 = j + 1
      BY <1>2, <1>6, <3>2 DEF IsInjective
    <3>4. QED
      BY <3>3
  <2>2. Head(q) \notin ToSet(r)
    <3>1. \A i \in 2 .. n : i \in 1 .. n /\ 1 \in 1 .. n /\ i # 1
      BY <1>1
    <3>2. QED
      BY <1>1, <1>2, <1>3, <1>6, <3>1 DEF IsInjective
  <2>3. QED
    BY <2>1, <2>2
<1>7. QED
  BY <1>1, <1>5, <1>6 DEF r, n

LEMMA ConcatSet ==
  ASSUME NEW S, NEW q \in Seq(S), NEW r \in Seq(S)
  PROVE  /\ q \o r \in Seq(S)
         /\ Len(q \o r) = Len(q) + Len(r)
         /\ ToSet(q \o r) = ToSet(q) \cup ToSet(r)
         /\ IsInjective(q) /\ IsInjective(r) /\ ToSet(q) \cap ToSet(r) = {} =>
              IsInjective(q \o r)
<1> DEFINE s == q \o r
           n == Len(q)
           m == Len(r)
<1>1. /\ n \in Nat /\ m \in Nat /\ Len(s) = n + m /\ s \in Seq(S)
      /\ \A i \in 1 .. n : s[i] = q[i]
      /\ \A i \in n + 1 .. n + m : s[i] = r[i - n]
  OBVIOUS
<1>2. /\ ToSet(q) = {q[i] : i \in 1 .. n} /\ DOMAIN q = 1 .. n
      /\ ToSet(r) = {r[i] : i \in 1 .. m} /\ DOMAIN r = 1 .. m
      /\ ToSet(s) = {s[i] : i \in 1 .. n + m} /\ DOMAIN s = 1 .. n + m
  BY <1>1, SetOfSeq
<1> HIDE DEF s, n, m
<1>3. /\ 1 .. n + m = (1 .. n) \cup (n + 1 .. n + m)
      /\ \A i \in n + 1 .. n + m : i - n \in 1 .. m
      /\ \A i \in 1 .. m : n + i \in n + 1 .. n + m /\ (n + i) - n = i
  BY <1>1
<1>4. \A i \in 1 .. m : s[n + i] = r[i]
  BY <1>1, <1>3
<1>5. ToSet(s) = ToSet(q) \cup ToSet(r)
  BY <1>1, <1>2, <1>3, <1>4
<1>6. ASSUME IsInjective(q), IsInjective(r), ToSet(q) \cap ToSet(r) = {}
      PROVE  IsInjective(s)
  <2>1. SUFFICES ASSUME NEW i \in 1 .. n + m, NEW j \in 1 .. n + m, s[i] = s[j]
                 PROVE  i = j
    BY <1>2 DEF IsInjective
  <2>2. CASE i \in 1 .. n /\ j \in 1 .. n
    BY <1>1, <1>2, <1>6, <2>1, <2>2 DEF IsInjective
  <2>3. CASE i \in n + 1 .. n + m /\ j \in n + 1 .. n + m
    <3>1. i - n \in 1 .. m /\ j - n \in 1 .. m /\ r[i - n] = r[j - n]
      BY <1>1, <1>3, <2>1, <2>3
    <3>2. i - n = j - n
      BY <1>2, <1>6, <3>1 DEF IsInjective
    <3>3. QED
      BY <1>1, <2>1, <3>2
  <2>4. ASSUME NEW a \in 1 .. n, NEW b \in n + 1 .. n + m
        PROVE  s[a] # s[b]
    <3>1. s[a] \in ToSet(q)
      BY <1>1, <1>2
    <3>2. b - n \in 1 .. m /\ s[b] = r[b - n]
      BY <1>1, <1>3
    <3>3. s[b] \in ToSet(r)
      BY <1>2, <3>2
    <3>4. QED
      BY <1>6, <3>1, <3>3
  <2>5. QED
    BY <1>3, <2>1, <2>2, <2>3, <2>4
<1>7. QED
  BY <1>1, <1>5, <1>6 DEF s, n, m

-----------------------------------------------------------------------------
(* The pool.                                                                *)
LEMMA FrameFacts ==
  /\ PoolMax \in Nat /\ PoolSize \in Nat /\ 1 <= PoolSize /\ PoolSize <= PoolMax
  /\ Frame = 1 .. PoolMax /\ Frame \subseteq Nat /\ NoFrame \notin Frame
  /\ IsFiniteSet(Frame)
  /\ Chaff = 0
<1>1. PoolMax \in Nat /\ PoolSize \in Nat /\ 1 <= PoolSize /\ PoolSize <= PoolMax
  BY PoolAssumption
<1>2. IsFiniteSet(1 .. PoolMax)
  BY <1>1, FS_Interval
<1>3. QED
  BY <1>1, <1>2 DEF Frame, NoFrame, Chaff

LEMMA AllocFinite ==
  ASSUME NEW A \in SUBSET Frame
  PROVE  /\ IsFiniteSet(A) /\ Cardinality(A) \in Nat
         /\ \A f : /\ f \notin A => Cardinality(A \cup {f}) = Cardinality(A) + 1
                   /\ f \in A => Cardinality(A \ {f}) = Cardinality(A) - 1
<1>1. IsFiniteSet(A) /\ Cardinality(A) \in Nat
  BY FrameFacts, FS_Subset, FS_CardinalityType
<1>2. QED
  BY <1>1, FS_AddElement, FS_RemoveElement

(* What a pool is, for the steps below. *)
LEMMA PoolFacts ==
  ASSUME NEW free \in Seq(Frame), NEW A \in SUBSET Frame, NEW size \in 1 .. PoolMax,
         IsInjective(free), ToSet(free) \cap A = {}, ToSet(free) \cup A = 1 .. size,
         Len(free) + Cardinality(A) = size
  PROVE  PoolInv([free |-> free, alloc |-> A])
<1>1. Size([free |-> free, alloc |-> A]) = size
  BY DEF Size
<1>2. QED
  BY <1>1 DEF PoolInv

LEMMA NewPoolInv == PoolInv(NewPool) /\ NewPool.alloc = {}
<1> DEFINE free == [i \in 1 .. PoolSize |-> i]
<1>1. /\ free \in Seq(Frame) /\ Len(free) = PoolSize /\ DOMAIN free = 1 .. PoolSize
      /\ \A i \in 1 .. PoolSize : free[i] = i
  BY FrameFacts
<1>2. NewPool = [free |-> free, alloc |-> {}]
  BY DEF NewPool
<1> HIDE DEF free
<1>3. ToSet(free) = 1 .. PoolSize /\ IsInjective(free)
  BY <1>1 DEF ToSet, IsInjective
<1>4. Cardinality({}) = 0
  BY FS_EmptySet
<1>5. /\ ToSet(free) \cap {} = {} /\ ToSet(free) \cup {} = 1 .. PoolSize
      /\ {} \in SUBSET Frame /\ PoolSize \in 1 .. PoolMax
      /\ Len(free) + Cardinality({}) = PoolSize
  BY <1>1, <1>3, <1>4, FrameFacts
<1>6. PoolInv([free |-> free, alloc |-> {}])
  BY <1>1, <1>3, <1>5, PoolFacts
<1>7. QED
  BY <1>2, <1>6

LEMMA GrownFacts ==
  ASSUME NEW p, PoolInv(p), HasRoom(p)
  PROVE  PoolInv(Grown(p)) /\ Grown(p).free # <<>> /\ Grown(p).alloc = p.alloc
<1>1. CASE p.free # <<>>
  BY <1>1 DEF Grown
<1>2. CASE p.free = <<>>
  <2> DEFINE n == Size(p)
             d == DoubledSize(n) - n
             more == [i \in 1 .. d |-> n + i]
  <2>1. /\ n \in Nat /\ 1 <= n /\ n < PoolMax
        /\ p.alloc \in SUBSET Frame /\ p.alloc = 1 .. n /\ Cardinality(p.alloc) = n
    <3>1. /\ n \in 1 .. PoolMax /\ n < PoolMax /\ p.alloc \in SUBSET Frame
          /\ ToSet(<<>>) \cup p.alloc = 1 .. n
      BY <1>2 DEF PoolInv, HasRoom
    <3>2. n = Len(<<>>) + Cardinality(p.alloc) /\ Cardinality(p.alloc) \in Nat
      BY <1>2, <3>1, AllocFinite DEF Size
    <3>3. p.alloc = 1 .. n
      BY <3>1, SetOfEmpty
    <3>4. n = Cardinality(p.alloc)
      <4> HIDE DEF n
      <4>1. Len(<<>>) = 0
        OBVIOUS
      <4>2. QED
        BY <3>2, <4>1
    <3> HIDE DEF n
    <3>5. QED
      BY <3>1, <3>3, <3>4, FrameFacts
  <2>2. d \in Nat /\ 1 <= d /\ n + d <= PoolMax
    BY <2>1, FrameFacts DEF DoubledSize
  <2>3. Grown(p) = [free |-> more, alloc |-> p.alloc]
    BY <1>2 DEF Grown, PoolInv
  <2> HIDE DEF n, d
  <2>4. /\ more \in Seq(Frame) /\ Len(more) = d /\ DOMAIN more = 1 .. d
        /\ \A i \in 1 .. d : more[i] = n + i
    BY <2>1, <2>2, FrameFacts
  <2> HIDE DEF more
  <2>5. IsInjective(more)
    BY <2>1, <2>2, <2>4 DEF IsInjective
  <2>6. ToSet(more) = n + 1 .. n + d
    <3>1. \A i \in n + 1 .. n + d : i - n \in 1 .. d /\ n + (i - n) = i
      BY <2>1, <2>2
    <3>2. \A i \in 1 .. d : n + i \in n + 1 .. n + d
      BY <2>1, <2>2
    <3>3. \A i \in n + 1 .. n + d : i = more[i - n]
      BY <2>4, <3>1
    <3>4. QED
      BY <2>4, <3>1, <3>2, <3>3 DEF ToSet
  <2>7. ToSet(more) \cap p.alloc = {} /\ ToSet(more) \cup p.alloc = 1 .. n + d
    BY <2>1, <2>2, <2>6
  <2>8. n + d \in 1 .. PoolMax /\ Len(more) + Cardinality(p.alloc) = n + d
    BY <2>1, <2>2, <2>4, FrameFacts
  <2>9. PoolInv([free |-> more, alloc |-> p.alloc])
    BY <2>1, <2>4, <2>5, <2>7, <2>8, PoolFacts
  <2>10. more # <<>>
    BY <2>2, <2>4
  <2>11. QED
    BY <2>3, <2>9, <2>10
<1>3. QED
  BY <1>1, <1>2

LEMMA AllocFacts ==
  ASSUME NEW p, PoolInv(p), HasRoom(p)
  PROVE  /\ PoolInv(AllocFrame(p))
         /\ NextFrame(p) \in Frame /\ NextFrame(p) \notin p.alloc
         /\ AllocFrame(p).alloc = p.alloc \cup {NextFrame(p)}
<1> DEFINE g == Grown(p)
           f == Head(g.free)
           A == p.alloc
           q == g.free
<1>1. PoolInv(g) /\ q # <<>> /\ g.alloc = A
  BY GrownFacts
<1>2. NextFrame(p) = f /\ AllocFrame(p) = [free |-> Tail(q), alloc |-> A \cup {f}]
  BY DEF NextFrame, AllocFrame
<1> DEFINE n == Size(g)
<1>3. /\ q \in Seq(Frame) /\ A \in SUBSET Frame
      /\ IsInjective(q) /\ ToSet(q) \cap A = {} /\ ToSet(q) \cup A = 1 .. n
      /\ n \in 1 .. PoolMax /\ n = Len(q) + Cardinality(A)
  BY <1>1 DEF PoolInv, Size
<1> HIDE DEF g, q, n, A
<1>4. /\ Tail(q) \in Seq(Frame) /\ IsInjective(Tail(q)) /\ ToSet(Tail(q)) = ToSet(q) \ {f}
      /\ Len(Tail(q)) = Len(q) - 1
      /\ Len(q) \in Nat /\ f \in ToSet(q) /\ ToSet(q) \subseteq Frame
  BY <1>1, <1>3, TailSet, SetOfSeq DEF q
<1> DEFINE a == Cardinality(A)
<1>5. f \notin A /\ Cardinality(A \cup {f}) = a + 1 /\ a \in Nat
  BY <1>3, <1>4, AllocFinite
<1>6. /\ ToSet(Tail(q)) \cap (A \cup {f}) = {}
      /\ ToSet(Tail(q)) \cup (A \cup {f}) = 1 .. n
      /\ A \cup {f} \in SUBSET Frame
  BY <1>3, <1>4, <1>5
<1> HIDE DEF f, a
<1>7. Len(Tail(q)) + Cardinality(A \cup {f}) = n
  BY <1>3, <1>4, <1>5 DEF a
<1>8. PoolInv([free |-> Tail(q), alloc |-> A \cup {f}])
  BY <1>3, <1>4, <1>6, <1>7, PoolFacts
<1>9. QED
  BY <1>2, <1>4, <1>5, <1>8 DEF A

LEMMA UnallocFacts ==
  ASSUME NEW p, PoolInv(p), NEW f
  PROVE  /\ PoolInv(UnallocFrame(p, f))
         /\ UnallocFrame(p, f).alloc = p.alloc \ {f}
<1>1. CASE f \notin p.alloc
  BY <1>1 DEF UnallocFrame
<1>2. CASE f \in p.alloc
  <2> DEFINE n == Size(p)
             q == p.free
             A == p.alloc
             a == Cardinality(A)
  <2>1. /\ q \in Seq(Frame) /\ A \in SUBSET Frame /\ f \in A
        /\ IsInjective(q) /\ ToSet(q) \cap A = {} /\ ToSet(q) \cup A = 1 .. n
        /\ n \in 1 .. PoolMax /\ n = Len(q) + a
    BY <1>2 DEF PoolInv, Size
  <2>2. UnallocFrame(p, f) = [free |-> Append(q, f), alloc |-> A \ {f}]
    BY <1>2 DEF UnallocFrame
  <2> HIDE DEF n, q, A, a
  <2>3. /\ f \in Frame /\ f \notin ToSet(q)
        /\ Len(q) \in Nat /\ a \in Nat /\ Cardinality(A \ {f}) = a - 1
    BY <2>1, SetOfSeq, AllocFinite DEF a
  <2>4. /\ Append(q, f) \in Seq(Frame) /\ ToSet(Append(q, f)) = ToSet(q) \cup {f}
        /\ IsInjective(Append(q, f)) /\ Len(Append(q, f)) = Len(q) + 1
    BY <2>1, <2>3, AppendSet
  <2>5. /\ ToSet(Append(q, f)) \cap (A \ {f}) = {}
        /\ ToSet(Append(q, f)) \cup (A \ {f}) = 1 .. n
        /\ A \ {f} \in SUBSET Frame
    BY <2>1, <2>3, <2>4
  <2>6. Len(Append(q, f)) + Cardinality(A \ {f}) = n
    BY <2>1, <2>3, <2>4
  <2>7. PoolInv([free |-> Append(q, f), alloc |-> A \ {f}])
    BY <2>1, <2>4, <2>5, <2>6, PoolFacts
  <2>8. QED
    BY <2>2, <2>7 DEF A
<1>3. QED
  BY <1>1, <1>2

LEMMA UnallocAllFacts ==
  ASSUME NEW p, PoolInv(p), NEW frames, NEW later \in UnallocAll(p, frames)
  PROVE  /\ PoolInv(later)
         /\ later.alloc = p.alloc \ frames
<1> DEFINE n == Size(p)
           q == p.free
           A == p.alloc
           F == frames \cap A
           m == Cardinality(F)
           a == Cardinality(A)
<1>1. /\ q \in Seq(Frame) /\ A \in SUBSET Frame /\ F \in SUBSET A
      /\ IsInjective(q) /\ ToSet(q) \cap A = {} /\ ToSet(q) \cup A = 1 .. n
      /\ n \in 1 .. PoolMax /\ n = Len(q) + a
  BY DEF PoolInv, Size
<1>2. PICK r \in SetToSeqs(F) : later = [free |-> q \o r, alloc |-> A \ frames]
  BY DEF UnallocAll
<1>3. r \in [1 .. m -> F] /\ \A i, j \in 1 .. m : i # j => r[i] # r[j]
  BY <1>2 DEF SetToSeqs
<1>4. /\ IsFiniteSet(F) /\ m \in Nat /\ a \in Nat
      /\ Cardinality(A \ F) = a - m
  <2>1. IsFiniteSet(A) /\ IsFiniteSet(F) /\ a \in Nat /\ m \in Nat
    BY <1>1, AllocFinite
  <2>2. A \cap F = F
    OBVIOUS
  <2>3. QED
    BY <2>1, <2>2, FS_Difference
<1>5. A \ frames = A \ F
  OBVIOUS
<1> HIDE DEF n, q, A, F, m, a
<1>6. r \in Seq(Frame) /\ Len(r) = m /\ DOMAIN r = 1 .. m
  <2>1. r \in [1 .. m -> Frame]
    BY <1>1, <1>3
  <2>2. QED
    BY <1>4, <2>1
<1>7. IsInjective(r)
  BY <1>3, <1>6 DEF IsInjective
<1>8. ToSet(r) = F
  <2>1. r \in Injection(1 .. m, F)
    BY <1>3 DEF Injection, IsInjective
  <2>2. IsFiniteSet(1 .. m) /\ Cardinality(1 .. m) = m
    BY <1>4, FS_Interval
  <2>3. r \in Surjection(1 .. m, F)
    BY <1>4, <2>1, <2>2, FS_Injection DEF m
  <2>4. \A f \in F : \E i \in 1 .. m : r[i] = f
    BY <2>3 DEF Surjection
  <2>5. QED
    BY <1>3, <1>6, <2>4 DEF ToSet
<1>9. /\ q \o r \in Seq(Frame) /\ Len(q \o r) = Len(q) + m
      /\ ToSet(q \o r) = ToSet(q) \cup F /\ IsInjective(q \o r)
      /\ Len(q) \in Nat
  <2>1. ToSet(q) \cap ToSet(r) = {}
    BY <1>1, <1>8
  <2>2. /\ q \o r \in Seq(Frame) /\ Len(q \o r) = Len(q) + Len(r)
        /\ ToSet(q \o r) = ToSet(q) \cup ToSet(r) /\ IsInjective(q \o r)
    BY <1>1, <1>6, <1>7, <2>1, ConcatSet
  <2>3. QED
    BY <1>1, <1>6, <1>8, <2>2, LenProperties
<1>10. /\ ToSet(q \o r) \cap (A \ F) = {} /\ ToSet(q \o r) \cup (A \ F) = 1 .. n
       /\ A \ F \in SUBSET Frame
  BY <1>1, <1>9
<1>11. Len(q \o r) + Cardinality(A \ F) = n
  BY <1>1, <1>4, <1>9
<1>12. PoolInv([free |-> q \o r, alloc |-> A \ F])
  BY <1>1, <1>9, <1>10, <1>11, PoolFacts
<1>13. QED
  BY <1>2, <1>5, <1>12 DEF A

-----------------------------------------------------------------------------
(* Owners.                                                                  *)
LEMMA OwnerFacts ==
  /\ \A c \in Conn : /\ <<"ctrl", c>> \in Owner /\ <<"data", c>> \in Owner
                     /\ <<"recv", c>> \in Owner /\ <<"read", c>> \in Owner
  /\ <<"handler">> \in Owner
  /\ \A o \in Owner : \/ \E c \in Conn : o \in {<<"ctrl", c>>, <<"data", c>>, <<"recv", c>>,
                                              <<"read", c>>}
                      \/ o = <<"handler">>
BY DEF Owner

LEMMA OwnedFacts ==
  /\ \A c \in Conn : /\ Owned[<<"ctrl", c>>] = ToSet(ctrlQ[c])
                     /\ Owned[<<"data", c>>] = ToSet(dataQ[c])
                     /\ Owned[<<"recv", c>>] = ToSet(recvQ[c])
                     /\ Owned[<<"read", c>>] = {f \in {tmp[c]} : HalfRead(c)}
  /\ Owned[<<"handler">>] = {f \in {proxy.frame} \ {NoFrame} : content[f] = 0}
BY OwnerFacts DEF Owned, Own

LEMMA OwnedFactsNext ==
  /\ \A c \in Conn : /\ Owned'[<<"ctrl", c>>] = ToSet(ctrlQ'[c])
                     /\ Owned'[<<"data", c>>] = ToSet(dataQ'[c])
                     /\ Owned'[<<"recv", c>>] = ToSet(recvQ'[c])
                     /\ Owned'[<<"read", c>>] = {f \in {tmp'[c]} : HalfRead(c)'}
  /\ Owned'[<<"handler">>] = {f \in {proxy'.frame} \ {NoFrame} : content'[f] = 0}
BY OwnerFacts DEF Owned, Own

(* A step that gives owner o at most the frame f, which nobody else has     *)
(* then, and nobody else anything, keeps the owners apart.                  *)
LEMMA ExclusiveStep ==
  ASSUME NEW own, NEW later, Exclusive(own), NEW o \in Owner, NEW f,
         later[o] \subseteq own[o] \cup {f},
         \A p \in Owner \ {o} : later[p] \subseteq own[p] \ {f}
  PROVE  Exclusive(later)
BY DEF Exclusive

(* So does one that gives nobody anything.                                  *)
LEMMA ExclusiveLess ==
  ASSUME NEW own, NEW later, Exclusive(own),
         \A p \in Owner : later[p] \subseteq own[p]
  PROVE  Exclusive(later)
BY DEF Exclusive

-----------------------------------------------------------------------------
(* The chunks of a DATA frame.                                              *)
LEMMA MoreRows ==
  ASSUME NEW n \in Nat, NEW a \in Nat, NEW b \in Nat, a <= b
  PROVE  n * a <= n * b
<1>1. PICK d \in Nat : b = a + d
  <2>1. b - a \in Nat /\ b = a + (b - a)
    OBVIOUS
  <2>2. QED
    BY <2>1
<1>2. n * (a + d) = n * a + n * d /\ n * d \in Nat /\ n * a \in Nat
  OBVIOUS
<1>3. QED
  BY <1>1, <1>2

LEMMA ChunksBound ==
  ASSUME NEW n \in Nat, n > 0, NEW m \in Nat, NEW total \in Nat, total > 0, total <= n * m
  PROVE  /\ total \div n + (IF total % n > 0 THEN 1 ELSE 0) \in 1 .. m
<1> DEFINE q == total \div n
           r == total % n
<1>1. q \in Nat /\ r \in Nat /\ r < n /\ total = n * q + r
  OBVIOUS
<1> HIDE DEF q, r
<1>2. q <= m
  <2>1. SUFFICES ASSUME m + 1 <= q PROVE FALSE
    BY <1>1
  <2>2. n * (m + 1) <= n * q
    BY <1>1, <2>1, MoreRows
  <2>3. n * (m + 1) = n * m + n /\ n * m \in Nat /\ n * q \in Nat
    BY <1>1
  <2>4. QED
    BY <1>1, <2>2, <2>3
<1>3. r > 0 => q < m
  <2>1. SUFFICES ASSUME r > 0, q = m PROVE FALSE
    BY <1>1, <1>2
  <2>2. n * m \in Nat
    OBVIOUS
  <2>3. QED
    BY <1>1, <2>1, <2>2
<1>4. r = 0 => q > 0
  <2>1. SUFFICES ASSUME r = 0, q = 0 PROVE FALSE
    BY <1>1
  <2>2. n * 0 = 0
    OBVIOUS
  <2>3. QED
    BY <1>1, <2>1, <2>2
<1>5. q + (IF r > 0 THEN 1 ELSE 0) \in 1 .. m
  BY <1>1, <1>2, <1>3, <1>4
<1>6. QED
  BY <1>5 DEF q, r

LEMMA DataChunksFacts ==
  /\ DataChunks \subseteq 1 .. MaxChunks
  /\ MaxChunks \in Nat /\ 1 <= MaxChunks
<1>1. /\ MaxChunks \in Nat /\ 1 <= MaxChunks /\ MaxChunks <= 127
      /\ ChunkSize \in Nat /\ ChunkSize > 0
  BY CodecAssumption, SenderAssumption
<1>2. SUFFICES ASSUME NEW size \in DataSize
               PROVE  NumChunks(size) \in 1 .. MaxChunks
  BY <1>1 DEF DataChunks
<1> DEFINE total == size + HeaderSize
<1>3. MaxChunks * ChunkSize = ChunkSize * MaxChunks /\ MaxChunks * ChunkSize \in Nat
  BY <1>1
<1>4. total \in Nat /\ total > 0 /\ total <= ChunkSize * MaxChunks
  BY <1>1, <1>3 DEF DataSize, DataSpace, BufferSize, HeaderSize
<1> HIDE DEF total
<1>5. ChunksFor(total) \in 1 .. MaxChunks
  BY <1>1, <1>4, ChunksBound DEF ChunksFor
<1> DEFINE k == ChunksFor(total)
<1>6. k \in 1 .. 127 /\ k \in 1 .. MaxChunks
  BY <1>1, <1>5
<1> HIDE DEF k
<1>7. AsChar(k) = k
  BY <1>6 DEF AsChar
<1>8. QED
  BY <1>6, <1>7 DEF NumChunks, k, total

-----------------------------------------------------------------------------
(* Steps that leave parts of the invariant alone.                           *)
QueuesInjective ==
  \A c \in Conn : IsInjective(ctrlQ[c]) /\ IsInjective(dataQ[c]) /\ IsInjective(recvQ[c])

(* Owner o gets frame f, which may come from the pool.                      *)
LEMMA OwnGains ==
  ASSUME OwnInv, PoolInv(pool'), QueuesInjective', NEW o \in Owner, NEW f,
         pool'.alloc = pool.alloc \cup {f},
         Owned'[o] \subseteq Owned[o] \cup {f},
         \A p \in Owner \ {o} : Owned'[p] \subseteq Owned[p] \ {f}
  PROVE  OwnInv'
<1>1. Exclusive(Owned')
  BY ExclusiveStep DEF OwnInv
<1>2. \A p \in Owner : Owned'[p] \subseteq pool'.alloc
  BY DEF OwnInv
<1>3. QED
  BY <1>1, <1>2 DEF OwnInv, QueuesInjective

(* Frames go back to the pool.                                              *)
LEMMA OwnLoses ==
  ASSUME OwnInv, PoolInv(pool'), QueuesInjective', NEW F,
         pool'.alloc = pool.alloc \ F,
         \A p \in Owner : Owned'[p] \subseteq Owned[p] \ F
  PROVE  OwnInv'
<1>1. Exclusive(Owned')
  BY ExclusiveLess DEF OwnInv
<1>2. \A p \in Owner : Owned'[p] \subseteq pool'.alloc
  BY DEF OwnInv
<1>3. QED
  BY <1>1, <1>2 DEF OwnInv, QueuesInjective

(* What anybody but o has after a step.                                     *)
LEMMA OwnedElse ==
  ASSUME NEW o,
         \A d \in Conn : o # <<"ctrl", d>> => ToSet(ctrlQ'[d]) \subseteq ToSet(ctrlQ[d]),
         \A d \in Conn : o # <<"data", d>> => ToSet(dataQ'[d]) \subseteq ToSet(dataQ[d]),
         \A d \in Conn : o # <<"recv", d>> => ToSet(recvQ'[d]) \subseteq ToSet(recvQ[d]),
         \A d \in Conn : o # <<"read", d>> /\ HalfRead(d)' => HalfRead(d) /\ tmp'[d] = tmp[d],
         o # <<"handler">> /\ proxy'.frame # NoFrame /\ content'[proxy'.frame] = 0 =>
           proxy.frame = proxy'.frame /\ content[proxy.frame] = 0
  PROVE  \A p \in Owner \ {o} : Owned'[p] \subseteq Owned[p]
<1> SUFFICES ASSUME NEW p \in Owner, p # o
             PROVE  Owned'[p] \subseteq Owned[p]
  OBVIOUS
<1>1. CASE \E d \in Conn : p = <<"ctrl", d>>
  <2>1. PICK d \in Conn : p = <<"ctrl", d>>
    BY <1>1
  <2>2. Owned[p] = ToSet(ctrlQ[d]) /\ Owned'[p] = ToSet(ctrlQ'[d])
    BY <2>1, OwnedFacts, OwnedFactsNext
  <2>3. ToSet(ctrlQ'[d]) \subseteq ToSet(ctrlQ[d])
    BY <2>1
  <2>4. QED
    BY <2>2, <2>3
<1>2. CASE \E d \in Conn : p = <<"data", d>>
  <2>1. PICK d \in Conn : p = <<"data", d>>
    BY <1>2
  <2>2. Owned[p] = ToSet(dataQ[d]) /\ Owned'[p] = ToSet(dataQ'[d])
    BY <2>1, OwnedFacts, OwnedFactsNext
  <2>3. ToSet(dataQ'[d]) \subseteq ToSet(dataQ[d])
    BY <2>1
  <2>4. QED
    BY <2>2, <2>3
<1>3. CASE \E d \in Conn : p = <<"recv", d>>
  <2>1. PICK d \in Conn : p = <<"recv", d>>
    BY <1>3
  <2>2. Owned[p] = ToSet(recvQ[d]) /\ Owned'[p] = ToSet(recvQ'[d])
    BY <2>1, OwnedFacts, OwnedFactsNext
  <2>3. ToSet(recvQ'[d]) \subseteq ToSet(recvQ[d])
    BY <2>1
  <2>4. QED
    BY <2>2, <2>3
<1>4. CASE \E d \in Conn : p = <<"read", d>>
  BY <1>4, OwnedFacts, OwnedFactsNext
<1>5. CASE p = <<"handler">>
  BY <1>5, OwnedFacts, OwnedFactsNext
<1>6. QED
  BY <1>1, <1>2, <1>3, <1>4, <1>5, OwnerFacts

LEMMA ReadKeeps ==
  ASSUME ReadInv, UNCHANGED <<conn, closed, tmp, tmpChunk>>,
         \A c \in Conn : HalfRead(c) => content'[tmp[c]] = content[tmp[c]]
  PROVE  ReadInv'
BY DEF ReadInv, Resumed, HalfRead

(* Queues only grow, at their ends.                                         *)
LEMMA SenderKeeps ==
  ASSUME TypeOK, SendInv, OwedInv,
         UNCHANGED <<lastChunk, wrType, sending, owed>>,
         conn \subseteq conn',
         \A c \in Conn : \/ ctrlQ'[c] = ctrlQ[c]
                         \/ \E f \in Frame : ctrlQ'[c] = Append(ctrlQ[c], f),
         \A c \in Conn : \/ dataQ'[c] = dataQ[c]
                         \/ \E f \in Frame : dataQ'[c] = Append(dataQ[c], f),
         \A c \in Conn : \A f \in ToSet(dataQ[c]) : content'[f] = content[f]
  PROVE  SendInv' /\ OwedInv'
<1>1. ASSUME NEW q \in Seq(Frame), NEW f \in Frame, q # <<>>
      PROVE  Append(q, f) # <<>> /\ Head(Append(q, f)) = Head(q)
  BY <1>1
<1>2. \A c \in Conn : /\ ctrlQ[c] # <<>> => ctrlQ'[c] # <<>> /\ Head(ctrlQ'[c]) = Head(ctrlQ[c])
                      /\ dataQ[c] # <<>> => dataQ'[c] # <<>> /\ Head(dataQ'[c]) = Head(dataQ[c])
  <2>1. \A c \in Conn : ctrlQ[c] \in Seq(Frame) /\ dataQ[c] \in Seq(Frame)
    BY DEF TypeOK
  <2>2. QED
    BY <1>1, <2>1
<1>3. SendInv'
  <2>1. SUFFICES ASSUME sending # None
                 PROVE  SendInv'
    BY DEF SendInv
  <2>2. sending.conn \in Conn /\ sending' # None
    BY <2>1 DEF TypeOK
  <2>3. sending.of.type = "DATA" => HasMore(sending.of)' = HasMore(sending.of)
    <3>1. SUFFICES ASSUME sending.of.type = "DATA"
                   PROVE  content'[sending.of.frame] = content[sending.of.frame]
      BY DEF HasMore
    <3>2. Heads(sending.of.frame, dataQ[sending.conn])
      BY <2>1, <3>1 DEF SendInv
    <3>3. sending.of.frame \in ToSet(dataQ[sending.conn])
      BY <2>2, <3>2, SetOfSeq DEF Heads, TypeOK
    <3>4. QED
      BY <2>2, <3>3
  <2>4. HasMore(sending.of) => HasMore(sending.of)'
    BY <2>3 DEF HasMore
  <2>5. QED
    BY <1>2, <2>1, <2>2, <2>4 DEF SendInv, Heads
<1>4. OwedInv'
  <2>1. SUFFICES ASSUME NEW c \in Conn
                 PROVE  /\ lastChunk[c] > 0 => dataQ'[c] # <<>>
                        /\ c \notin conn' => owed[c] = None
                        /\ \/ owed[c] = None
                           \/ sending # None /\ sending.conn = c
                           \/ OwesCtrl(c)' \/ OwesData(c)' \/ OwesChaff(c)'
    BY DEF OwedInv
  <2>2. lastChunk[c] > 0 => dataQ[c] # <<>> /\ dataQ'[c] # <<>>
    BY <1>2 DEF OwedInv
  <2>3. OwesCtrl(c) => OwesCtrl(c)'
    BY <1>2, <2>2 DEF OwesCtrl, PartialDataFrame
  <2>4. OwesData(c) => OwesData(c)'
    BY <1>2 DEF OwesData
  <2>5. OwesChaff(c) => OwesChaff(c)'
    BY DEF OwesChaff
  <2>6. QED
    BY <2>2, <2>3, <2>4, <2>5 DEF OwedInv
<1>5. QED
  BY <1>3, <1>4

-----------------------------------------------------------------------------
(* The frame a read puts a chunk into: new, or half-read so far.            *)
LEMMA ReadFacts ==
  ASSUME FramesInv, NEW c \in Conn, MayRead(c)
  PROVE  /\ proxy = Idle /\ c \in conn /\ c \notin closed
         /\ ReadFrame(c) \in Frame
         /\ PoolInv(ReadPool(c))
         /\ ReadPool(c).alloc = pool.alloc \cup {ReadFrame(c)}
         /\ \A p \in Owner \ {<<"read", c>>} : ReadFrame(c) \notin Owned[p]
         /\ Owned[<<"read", c>>] \subseteq {ReadFrame(c)}
         /\ Resumed(c) => HalfRead(c) /\ ReadFrame(c) = tmp[c]
<1>1. /\ proxy = Idle /\ c \in conn /\ c \notin closed /\ PoolInv(pool)
      /\ \A p \in Owner : Owned[p] \subseteq pool.alloc
      /\ Exclusive(Owned) /\ ReadInv
      /\ Resumed(c) \/ HasRoom(pool)
  BY DEF FramesInv, OwnInv, MayRead
<1>2. Owned[<<"read", c>>] = {f \in {tmp[c]} : HalfRead(c)} /\ <<"read", c>> \in Owner
  BY OwnedFacts, OwnerFacts
<1>3. CASE Resumed(c)
  <2>1. HalfRead(c) /\ ReadFrame(c) = tmp[c] /\ ReadPool(c) = pool
    BY <1>1, <1>3 DEF HalfRead, ReadFrame, ReadPool
  <2>2. Owned[<<"read", c>>] = {tmp[c]} /\ tmp[c] \in Frame
    BY <1>1, <1>2, <1>3, <2>1 DEF ReadInv
  <2>3. pool.alloc = pool.alloc \cup {tmp[c]}
    BY <1>1, <1>2, <2>2
  <2>4. \A p \in Owner \ {<<"read", c>>} : tmp[c] \notin Owned[p]
    BY <1>1, <1>2, <2>2 DEF Exclusive
  <2>5. QED
    BY <1>1, <2>1, <2>2, <2>3, <2>4
<1>4. CASE ~Resumed(c)
  <2>1. HasRoom(pool) /\ ReadFrame(c) = NextFrame(pool) /\ ReadPool(c) = AllocFrame(pool)
    BY <1>1, <1>4 DEF ReadFrame, ReadPool
  <2>2. /\ NextFrame(pool) \in Frame /\ NextFrame(pool) \notin pool.alloc
        /\ PoolInv(AllocFrame(pool))
        /\ AllocFrame(pool).alloc = pool.alloc \cup {NextFrame(pool)}
    BY <1>1, <2>1, AllocFacts
  <2>3. Owned[<<"read", c>>] = {}
    BY <1>2, <1>4 DEF HalfRead
  <2>4. QED
    BY <1>1, <1>4, <2>1, <2>2, <2>3
<1>5. QED
  BY <1>3, <1>4

(* A frame from the pool is nobody's.                                       *)
LEMMA NextFacts ==
  ASSUME FramesInv, HasRoom(pool)
  PROVE  /\ NextFrame(pool) \in Frame /\ NextFrame(pool) \notin pool.alloc
         /\ PoolInv(AllocFrame(pool))
         /\ AllocFrame(pool).alloc = pool.alloc \cup {NextFrame(pool)}
         /\ \A p \in Owner : NextFrame(pool) \notin Owned[p]
BY AllocFacts DEF FramesInv, OwnInv

(* The frames of a queue, and half-read ones, are somebody's.               *)
LEMMA NotMine ==
  ASSUME NEW o \in Owner, NEW f, \A p \in Owner \ {o} : f \notin Owned[p]
  PROVE  \A c \in Conn : /\ o # <<"ctrl", c>> => f \notin ToSet(ctrlQ[c])
                         /\ o # <<"data", c>> => f \notin ToSet(dataQ[c])
                         /\ o # <<"recv", c>> => f \notin ToSet(recvQ[c])
                         /\ o # <<"read", c>> => ~(HalfRead(c) /\ tmp[c] = f)
<1> SUFFICES ASSUME NEW c \in Conn
             PROVE  /\ o # <<"ctrl", c>> => f \notin ToSet(ctrlQ[c])
                    /\ o # <<"data", c>> => f \notin ToSet(dataQ[c])
                    /\ o # <<"recv", c>> => f \notin ToSet(recvQ[c])
                    /\ o # <<"read", c>> => ~(HalfRead(c) /\ tmp[c] = f)
  OBVIOUS
<1>1. o # <<"ctrl", c>> => f \notin Owned[<<"ctrl", c>>]
  BY OwnerFacts
<1>2. o # <<"data", c>> => f \notin Owned[<<"data", c>>]
  BY OwnerFacts
<1>3. o # <<"recv", c>> => f \notin Owned[<<"recv", c>>]
  BY OwnerFacts
<1>4. o # <<"read", c>> => f \notin Owned[<<"read", c>>]
  BY OwnerFacts
<1>5. QED
  BY <1>1, <1>2, <1>3, <1>4, OwnedFacts

LEMMA NobodyHas ==
  ASSUME NEW f, \A p \in Owner : f \notin Owned[p]
  PROVE  /\ \A c \in Conn : /\ f \notin ToSet(ctrlQ[c]) /\ f \notin ToSet(dataQ[c])
                            /\ f \notin ToSet(recvQ[c]) /\ ~(HalfRead(c) /\ tmp[c] = f)
         /\ proxy.frame # NoFrame /\ content[proxy.frame] = 0 => proxy.frame # f
<1>1. ASSUME NEW c \in Conn
      PROVE  /\ f \notin ToSet(ctrlQ[c]) /\ f \notin ToSet(dataQ[c])
             /\ f \notin ToSet(recvQ[c]) /\ ~(HalfRead(c) /\ tmp[c] = f)
  <2>1. /\ f \notin Owned[<<"ctrl", c>>] /\ f \notin Owned[<<"data", c>>]
        /\ f \notin Owned[<<"recv", c>>] /\ f \notin Owned[<<"read", c>>]
    BY OwnerFacts
  <2>2. QED
    BY <2>1, OwnedFacts
<1>2. proxy.frame # NoFrame /\ content[proxy.frame] = 0 => proxy.frame # f
  BY OwnerFacts, OwnedFacts
<1>3. QED
  BY <1>1, <1>2

LEMMA IdleFacts ==
  /\ Idle.at = "select" /\ Idle.frame = NoFrame /\ Idle.due = {}
  /\ \A a, f, d : At(a, f, d).at = a /\ At(a, f, d).frame = f /\ At(a, f, d).due = d
BY DEF Idle, At

-----------------------------------------------------------------------------
(* The reads.                                                               *)
LEMMA ReadPartStep ==
  ASSUME FramesInv, NEW c \in Conn, ReadPart(c)
  PROVE  FramesInv'
<1> DEFINE f == ReadFrame(c)
           o == <<"read", c>>
<1>1. /\ MayRead(c) /\ pool' = ReadPool(c)
      /\ UNCHANGED <<ctrlQ, dataQ, lastChunk, wrType, sending, owed, conn, recvQ, zombies,
                     closed, proxy>>
  BY DEF ReadPart
<1>2. TypeOK /\ OwnInv /\ ReadInv /\ HandlerInv /\ SendInv /\ OwedInv
  BY DEF FramesInv
<1>3. /\ proxy = Idle /\ c \in conn /\ c \notin closed
      /\ f \in Frame /\ PoolInv(pool') /\ pool'.alloc = pool.alloc \cup {f}
      /\ \A p \in Owner \ {o} : f \notin Owned[p]
      /\ Owned[o] \subseteq {f}
      /\ Resumed(c) => HalfRead(c) /\ f = tmp[c]
  BY <1>1, ReadFacts
<1> HIDE DEF f
<1>4. PICK k \in 0 .. MaxChunks - 1 :
        /\ tmp' = [tmp EXCEPT ![c] = f] /\ tmpChunk' = [tmpChunk EXCEPT ![c] = k]
        /\ content' \in [Frame -> 0 .. MaxChunks]
        /\ \A g \in Frame \ {f} : content'[g] = content[g]
        /\ k > 0 => k < content'[f]
  <2>1. content \in [Frame -> 0 .. MaxChunks] /\ tmpChunk[c] \in -1 .. MaxChunks - 1
    BY <1>2 DEF TypeOK
  <2>2. CASE \E n \in DataChunks : \E k \in 1 .. n - 1 :
               SetTmp(c, f, k) /\ content' = [content EXCEPT ![f] = n]
    <3>1. PICK n \in DataChunks :
            \E k \in 1 .. n - 1 : SetTmp(c, f, k) /\ content' = [content EXCEPT ![f] = n]
      BY <2>2
    <3>2. PICK k \in 1 .. n - 1 : SetTmp(c, f, k) /\ content' = [content EXCEPT ![f] = n]
      BY <3>1
    <3>3. n \in 0 .. MaxChunks /\ k \in 0 .. MaxChunks - 1 /\ k < n
      BY DataChunksFacts
    <3>4. QED
      BY <1>3, <2>1, <3>2, <3>3 DEF SetTmp
  <2>3. CASE SetTmp(c, f, 0) /\ content' = content
    <3>1. 0 \in 0 .. MaxChunks - 1 /\ ~(0 > 0)
      BY DataChunksFacts
    <3>2. QED
      BY <1>3, <2>1, <2>3, <3>1 DEF SetTmp
  <2>4. CASE tmpChunk[c] > 0 /\ \E k \in tmpChunk[c] .. content[tmp[c]] - 1 :
               SetTmp(c, tmp[c], k) /\ content' = content
    <3>1. PICK k \in tmpChunk[c] .. content[tmp[c]] - 1 :
            SetTmp(c, tmp[c], k) /\ content' = content
      BY <2>4
    <3>2. f = tmp[c] /\ content[f] \in 0 .. MaxChunks
      BY <1>3, <2>1, <2>4 DEF Resumed
    <3>3. k \in 0 .. MaxChunks - 1 /\ k < content[f]
      BY <2>1, <2>4, <3>1, <3>2, DataChunksFacts
    <3>4. QED
      BY <1>3, <2>1, <3>1, <3>2, <3>3 DEF SetTmp
  <2>5. QED
    BY <2>2, <2>3, <2>4 DEF ReadPart, f
<1>5. TypeOK'
  <2>1. pool' \in [free : Seq(Frame), alloc : SUBSET Frame]
    BY <1>3 DEF PoolInv
  <2>2. k \in -1 .. MaxChunks - 1
    BY DataChunksFacts
  <2>3. QED
    BY <1>1, <1>2, <1>3, <1>4, <2>1, <2>2 DEF TypeOK
<1>6. OwnInv'
  <2>1. QueuesInjective'
    BY <1>1, <1>2 DEF OwnInv, QueuesInjective
  <2>2. o \in Owner
    BY OwnerFacts
  <2>3. Owned'[o] \subseteq {f}
    <3>1. tmp'[c] = f
      BY <1>2, <1>4 DEF TypeOK
    <3>2. QED
      BY <3>1, OwnedFactsNext
  <2>4. \A d \in Conn : o # <<"read", d>> /\ HalfRead(d)' => HalfRead(d) /\ tmp'[d] = tmp[d]
    <3>1. SUFFICES ASSUME NEW d \in Conn, d # c, HalfRead(d)'
                   PROVE  HalfRead(d) /\ tmp'[d] = tmp[d]
      OBVIOUS
    <3>2. QED
      BY <1>1, <1>2, <1>4, <3>1 DEF TypeOK, HalfRead, Resumed
  <2>5. \A p \in Owner \ {o} : Owned'[p] \subseteq Owned[p]
    BY <1>1, <1>3, <2>4, IdleFacts, OwnedElse
  <2>6. QED
    BY <1>2, <1>3, <2>1, <2>2, <2>3, <2>5, OwnGains
<1>7. ReadInv'
  <2>1. ASSUME NEW d \in Conn, d # c
        PROVE  /\ tmp'[d] = tmp[d] /\ tmpChunk'[d] = tmpChunk[d]
               /\ HalfRead(d) => content'[tmp[d]] = content[tmp[d]]
    <3>1. tmp'[d] = tmp[d] /\ tmpChunk'[d] = tmpChunk[d]
      BY <1>2, <1>4, <2>1 DEF TypeOK
    <3>2. HalfRead(d) => tmp[d] # f /\ tmp[d] \in Frame
      BY <1>2, <1>3, <2>1, NotMine, OwnerFacts DEF ReadInv, HalfRead
    <3>3. QED
      BY <1>4, <3>1, <3>2
  <2>2. tmp'[c] = f /\ tmpChunk'[c] = k
    BY <1>2, <1>4 DEF TypeOK
  <2>3. QED
    BY <1>1, <1>2, <1>3, <1>4, <2>1, <2>2 DEF ReadInv, Resumed, HalfRead
<1>8. HandlerInv'
  BY <1>1, <1>3, IdleFacts DEF HandlerInv
<1>9. SendInv' /\ OwedInv'
  <2>1. \A d \in Conn : \A g \in ToSet(dataQ[d]) : g \in Frame \ {f}
    <3>1. \A d \in Conn : f \notin ToSet(dataQ[d])
      BY <1>3, NotMine, OwnerFacts
    <3>2. \A d \in Conn : ToSet(dataQ[d]) \subseteq Frame
      BY <1>2, SetOfSeq DEF TypeOK
    <3>3. QED
      BY <3>1, <3>2
  <2>2. \A d \in Conn : \A g \in ToSet(dataQ[d]) : content'[g] = content[g]
    BY <1>4, <2>1
  <2>3. QED
    BY <1>1, <1>2, <2>2, SenderKeeps
<1>10. QED
  BY <1>5, <1>6, <1>7, <1>8, <1>9 DEF FramesInv

(* The frame goes back to the pool at once: nobody gains, and whoever still *)
(* names it does not count as its reader.                                   *)
LEMMA ReadFailsStep ==
  ASSUME FramesInv, NEW c \in Conn, ReadFails(c)
  PROVE  FramesInv'
<1> DEFINE f == ReadFrame(c)
           o == <<"read", c>>
<1>1. /\ MayRead(c) /\ pool' = UnallocFrame(ReadPool(c), f)
      /\ zombies' = zombies \cup {c} /\ closed' = closed \cup {c}
      /\ UNCHANGED <<content, ctrlQ, dataQ, lastChunk, wrType, sending, owed, conn, recvQ, tmp,
                     tmpChunk, proxy>>
  BY DEF ReadFails
<1>2. TypeOK /\ OwnInv /\ ReadInv /\ HandlerInv /\ SendInv /\ OwedInv
  BY DEF FramesInv
<1>3. /\ c \in conn /\ f \in Frame /\ PoolInv(ReadPool(c))
      /\ ReadPool(c).alloc = pool.alloc \cup {f}
      /\ \A p \in Owner \ {o} : f \notin Owned[p]
      /\ Owned[o] \subseteq {f}
  BY <1>1, ReadFacts
<1> HIDE DEF f
<1>4. PoolInv(pool') /\ pool'.alloc = pool.alloc \ {f}
  <2>1. PoolInv(pool') /\ pool'.alloc = ReadPool(c).alloc \ {f}
    BY <1>1, <1>3, UnallocFacts
  <2>2. QED
    BY <1>3, <2>1
<1>5. TypeOK'
  <2>1. pool' \in [free : Seq(Frame), alloc : SUBSET Frame]
    BY <1>4 DEF PoolInv
  <2>2. QED
    BY <1>1, <1>2, <1>3, <2>1 DEF TypeOK
<1>6. \A d \in Conn : HalfRead(d)' => HalfRead(d) /\ d # c
  BY <1>1 DEF HalfRead, Resumed
<1>7. OwnInv'
  <2>1. QueuesInjective'
    BY <1>1, <1>2 DEF OwnInv, QueuesInjective
  <2>2. Owned'[o] = {}
    BY <1>6, OwnedFactsNext
  <2>3. \A p \in Owner \ {o} : Owned'[p] \subseteq Owned[p]
    BY <1>1, <1>6, OwnedElse
  <2>4. \A p \in Owner : Owned'[p] \subseteq Owned[p] \ {f}
    BY <1>3, <2>2, <2>3
  <2>5. QED
    BY <1>2, <1>4, <2>1, <2>4, OwnLoses
<1>8. ReadInv'
  BY <1>1, <1>2, <1>6 DEF ReadInv, Resumed
<1>9. HandlerInv'
  BY <1>1, <1>2 DEF HandlerInv
<1>10. SendInv' /\ OwedInv'
  BY <1>1, <1>2, SenderKeeps
<1>11. QED
  BY <1>5, <1>7, <1>8, <1>9, <1>10 DEF FramesInv

(* A whole frame leaves its reader: for the queue of deliveries ...         *)
LEMMA ReadDataStep ==
  ASSUME FramesInv, NEW c \in Conn, ReadData(c)
  PROVE  FramesInv'
<1> DEFINE f == ReadFrame(c)
           o == <<"recv", c>>
<1>1. /\ MayRead(c) /\ pool' = ReadPool(c)
      /\ content' = [content EXCEPT ![f] = IF tmpChunk[c] > 0 THEN content[f] ELSE 1]
      /\ tmp' = [tmp EXCEPT ![c] = NoFrame] /\ tmpChunk' = [tmpChunk EXCEPT ![c] = -1]
      /\ recvQ' = [recvQ EXCEPT ![c] = Append(recvQ[c], f)]
      /\ proxy' = At("round", f, {})
      /\ UNCHANGED <<ctrlQ, dataQ, lastChunk, wrType, sending, owed, conn, zombies, closed>>
  BY DEF ReadData, ClearTmp, SetTmp
<1>2. TypeOK /\ OwnInv /\ ReadInv /\ HandlerInv /\ SendInv /\ OwedInv
  BY DEF FramesInv
<1>3. /\ c \in conn /\ c \notin closed
      /\ f \in Frame /\ PoolInv(pool') /\ pool'.alloc = pool.alloc \cup {f}
      /\ \A p \in Owner \ {<<"read", c>>} : f \notin Owned[p]
      /\ Owned[<<"read", c>>] \subseteq {f}
      /\ Resumed(c) => HalfRead(c) /\ f = tmp[c]
  BY <1>1, ReadFacts
<1>4. f \notin ToSet(recvQ[c]) /\ \A d \in Conn : f \notin ToSet(dataQ[d])
  BY <1>3, NotMine, OwnerFacts
<1> HIDE DEF f
<1>5. /\ content' \in [Frame -> 0 .. MaxChunks] /\ content'[f] # 0
      /\ \A g \in Frame \ {f} : content'[g] = content[g]
  <2>1. content \in [Frame -> 0 .. MaxChunks] /\ tmpChunk[c] \in -1 .. MaxChunks - 1
    BY <1>2 DEF TypeOK
  <2>2. tmpChunk[c] > 0 => content[f] \in 1 .. MaxChunks
    <3>1. SUFFICES ASSUME tmpChunk[c] > 0
                   PROVE  content[f] \in 1 .. MaxChunks
      OBVIOUS
    <3>2. Resumed(c)
      BY <2>1, <3>1 DEF Resumed
    <3>3. content[f] \in 0 .. MaxChunks /\ tmpChunk[c] < content[f]
      BY <1>2, <1>3, <2>1, <3>1, <3>2 DEF ReadInv
    <3>4. QED
      BY <2>1, <3>1, <3>3, DataChunksFacts
  <2>3. QED
    BY <1>1, <1>3, <2>1, <2>2, DataChunksFacts
<1>6. /\ recvQ' \in [Conn -> Seq(Frame)]
      /\ ToSet(recvQ'[c]) = ToSet(recvQ[c]) \cup {f} /\ IsInjective(recvQ'[c])
      /\ \A d \in Conn \ {c} : recvQ'[d] = recvQ[d]
  <2>1. recvQ \in [Conn -> Seq(Frame)] /\ IsInjective(recvQ[c])
    BY <1>2 DEF TypeOK, OwnInv
  <2>2. /\ Append(recvQ[c], f) \in Seq(Frame) /\ IsInjective(Append(recvQ[c], f))
        /\ ToSet(Append(recvQ[c], f)) = ToSet(recvQ[c]) \cup {f}
    BY <1>3, <1>4, <2>1, AppendSet
  <2>3. QED
    BY <1>1, <2>1, <2>2
<1>7. /\ tmp'[c] = NoFrame /\ tmpChunk'[c] = -1
      /\ \A d \in Conn \ {c} : tmp'[d] = tmp[d] /\ tmpChunk'[d] = tmpChunk[d]
      /\ tmp' \in [Conn -> Frame \cup {NoFrame}] /\ tmpChunk' \in [Conn -> -1 .. MaxChunks - 1]
  BY <1>1, <1>2, DataChunksFacts DEF TypeOK
<1>8. proxy'.at = "round" /\ proxy'.frame = f /\ proxy'.due = {}
  BY <1>1, IdleFacts
<1>9. TypeOK'
  <2>1. pool' \in [free : Seq(Frame), alloc : SUBSET Frame]
    BY <1>3 DEF PoolInv
  <2>2. proxy' \in [at : {"select", "orders", "round", "look", "sweep"},
                    frame : Frame \cup {NoFrame}, due : SUBSET Conn]
    BY <1>1, <1>3 DEF At
  <2>3. QED
    BY <1>1, <1>2, <1>5, <1>6, <1>7, <2>1, <2>2 DEF TypeOK
<1>10. \A d \in Conn : HalfRead(d)' => HalfRead(d) /\ d # c /\ tmp'[d] = tmp[d]
  BY <1>1, <1>7 DEF HalfRead, Resumed
<1>11. OwnInv'
  <2>1. QueuesInjective'
    BY <1>1, <1>2, <1>6 DEF OwnInv, QueuesInjective
  <2>2. o \in Owner /\ <<"read", c>> \in Owner
    BY OwnerFacts
  <2>3. \A p \in Owner \ {o} : Owned'[p] \subseteq Owned[p]
    BY <1>1, <1>5, <1>6, <1>8, <1>10, OwnedElse
  <2>4. Owned'[o] = Owned[o] \cup {f}
    BY <1>6, OwnedFacts, OwnedFactsNext
  <2>5. Owned'[<<"read", c>>] = {}
    BY <1>10, OwnedFactsNext
  <2>6. \A p \in Owner \ {o} : Owned'[p] \subseteq Owned[p] \ {f}
    BY <1>3, <2>3, <2>5
  <2>7. QED
    BY <1>2, <1>3, <2>1, <2>2, <2>4, <2>6, OwnGains
<1>12. ReadInv'
  <2>1. \A d \in Conn : HalfRead(d)' => content'[tmp[d]] = content[tmp[d]]
    <3>1. SUFFICES ASSUME NEW d \in Conn, d # c, HalfRead(d)
                   PROVE  tmp[d] \in Frame \ {f}
      BY <1>5, <1>10
    <3>2. tmp[d] # f
      BY <1>3, <3>1, NotMine, OwnerFacts
    <3>3. QED
      BY <1>2, <3>1, <3>2 DEF ReadInv, HalfRead
  <2>2. QED
    BY <1>1, <1>2, <1>7, <1>10, <2>1 DEF ReadInv, Resumed
<1>13. HandlerInv'
  <2>1. f # NoFrame
    BY <1>3, FrameFacts
  <2>2. QED
    BY <1>6, <1>8, <2>1 DEF HandlerInv
<1>14. SendInv' /\ OwedInv'
  <2>1. \A d \in Conn : \A g \in ToSet(dataQ[d]) : g \in Frame \ {f}
    BY <1>2, <1>4, SetOfSeq DEF TypeOK
  <2>2. \A d \in Conn : \A g \in ToSet(dataQ[d]) : content'[g] = content[g]
    BY <1>5, <2>1
  <2>3. QED
    BY <1>1, <1>2, <2>2, SenderKeeps
<1>15. QED
  BY <1>9, <1>11, <1>12, <1>13, <1>14 DEF FramesInv

(* ... or for its handler.                                                  *)
LEMMA ReadOtherStep ==
  ASSUME FramesInv, NEW c \in Conn, ReadOther(c)
  PROVE  FramesInv'
<1> DEFINE f == ReadFrame(c)
           o == <<"handler">>
<1>1. /\ MayRead(c) /\ pool' = ReadPool(c)
      /\ content' = [content EXCEPT ![f] = 0]
      /\ tmp' = [tmp EXCEPT ![c] = NoFrame] /\ tmpChunk' = [tmpChunk EXCEPT ![c] = -1]
      /\ \E due \in SUBSET conn : proxy' = At("orders", f, due)
      /\ UNCHANGED <<ctrlQ, dataQ, lastChunk, wrType, sending, owed, conn, recvQ, zombies,
                     closed>>
  BY DEF ReadOther, ClearTmp, SetTmp
<1>2. TypeOK /\ OwnInv /\ ReadInv /\ HandlerInv /\ SendInv /\ OwedInv
  BY DEF FramesInv
<1>3. /\ c \in conn /\ c \notin closed
      /\ f \in Frame /\ PoolInv(pool') /\ pool'.alloc = pool.alloc \cup {f}
      /\ \A p \in Owner \ {<<"read", c>>} : f \notin Owned[p]
      /\ Owned[<<"read", c>>] \subseteq {f}
  BY <1>1, ReadFacts
<1>4. \A d \in Conn : f \notin ToSet(dataQ[d])
  BY <1>3, NotMine, OwnerFacts
<1> HIDE DEF f
<1>5. /\ content' \in [Frame -> 0 .. MaxChunks] /\ content'[f] = 0
      /\ \A g \in Frame \ {f} : content'[g] = content[g]
  <2>1. 0 \in 0 .. MaxChunks
    BY DataChunksFacts
  <2>2. QED
    BY <1>1, <1>2, <1>3, <2>1 DEF TypeOK
<1>6. /\ tmp'[c] = NoFrame /\ tmpChunk'[c] = -1
      /\ \A d \in Conn \ {c} : tmp'[d] = tmp[d] /\ tmpChunk'[d] = tmpChunk[d]
      /\ tmp' \in [Conn -> Frame \cup {NoFrame}] /\ tmpChunk' \in [Conn -> -1 .. MaxChunks - 1]
  BY <1>1, <1>2, DataChunksFacts DEF TypeOK
<1>7. proxy'.at = "orders" /\ proxy'.frame = f /\ proxy'.due \subseteq conn
  BY <1>1, IdleFacts
<1>8. TypeOK'
  <2>1. pool' \in [free : Seq(Frame), alloc : SUBSET Frame]
    BY <1>3 DEF PoolInv
  <2>2. proxy' \in [at : {"select", "orders", "round", "look", "sweep"},
                    frame : Frame \cup {NoFrame}, due : SUBSET Conn]
    BY <1>1, <1>2, <1>3 DEF At, TypeOK
  <2>3. QED
    BY <1>1, <1>2, <1>5, <1>6, <2>1, <2>2 DEF TypeOK
<1>9. \A d \in Conn : HalfRead(d)' => HalfRead(d) /\ d # c /\ tmp'[d] = tmp[d]
  BY <1>1, <1>6 DEF HalfRead, Resumed
<1>10. OwnInv'
  <2>1. QueuesInjective'
    BY <1>1, <1>2 DEF OwnInv, QueuesInjective
  <2>2. o \in Owner /\ <<"read", c>> \in Owner
    BY OwnerFacts
  <2>3. \A p \in Owner \ {o} : Owned'[p] \subseteq Owned[p]
    BY <1>1, <1>9, OwnedElse
  <2>4. Owned'[o] \subseteq {f}
    BY <1>7, OwnedFactsNext
  <2>5. Owned'[<<"read", c>>] = {}
    BY <1>9, OwnedFactsNext
  <2>6. \A p \in Owner \ {o} : Owned'[p] \subseteq Owned[p] \ {f}
    BY <1>3, <2>3, <2>5
  <2>7. QED
    BY <1>2, <1>3, <2>1, <2>2, <2>4, <2>6, OwnGains
<1>11. ReadInv'
  <2>1. \A d \in Conn : HalfRead(d)' => content'[tmp[d]] = content[tmp[d]]
    <3>1. SUFFICES ASSUME NEW d \in Conn, d # c, HalfRead(d)
                   PROVE  tmp[d] \in Frame \ {f}
      BY <1>5, <1>9
    <3>2. tmp[d] # f
      BY <1>3, <3>1, NotMine, OwnerFacts
    <3>3. QED
      BY <1>2, <3>1, <3>2 DEF ReadInv, HalfRead
  <2>2. QED
    BY <1>1, <1>2, <1>6, <1>9, <2>1 DEF ReadInv, Resumed
<1>12. HandlerInv'
  BY <1>5, <1>7 DEF HandlerInv
<1>13. SendInv' /\ OwedInv'
  <2>1. \A d \in Conn : \A g \in ToSet(dataQ[d]) : g \in Frame \ {f}
    BY <1>2, <1>4, SetOfSeq DEF TypeOK
  <2>2. \A d \in Conn : \A g \in ToSet(dataQ[d]) : content'[g] = content[g]
    BY <1>5, <2>1
  <2>3. QED
    BY <1>1, <1>2, <2>2, SenderKeeps
<1>14. QED
  BY <1>8, <1>10, <1>11, <1>12, <1>13 DEF FramesInv

-----------------------------------------------------------------------------
(* Orders, of a handler or of the CLI thread: nobody has the new frame, and *)
(* no handler is about to look at it.                                       *)
LEMMA PushStep ==
  ASSUME FramesInv, NEW c \in Conn, PushCtrl(c), proxy.at # "look",
         UNCHANGED <<dataQ, lastChunk, wrType, sending, owed, conn, recvQ, tmp, tmpChunk,
                     zombies, closed>>,
         \E due \in SUBSET Conn : due \subseteq proxy.due /\ proxy' = [proxy EXCEPT !.due = due]
  PROVE  FramesInv'
<1> DEFINE f == NextFrame(pool)
           o == <<"ctrl", c>>
<1>1. /\ HasRoom(pool) /\ pool' = AllocFrame(pool)
      /\ content' = [content EXCEPT ![f] = 0]
      /\ ctrlQ' = [ctrlQ EXCEPT ![c] = Append(ctrlQ[c], f)]
      /\ UNCHANGED <<dataQ, lastChunk, wrType, sending, owed, conn, recvQ, tmp, tmpChunk,
                     zombies, closed>>
  BY DEF PushCtrl
<1>2. TypeOK /\ OwnInv /\ ReadInv /\ HandlerInv /\ SendInv /\ OwedInv
  BY DEF FramesInv
<1>3. /\ f \in Frame /\ PoolInv(pool') /\ pool'.alloc = pool.alloc \cup {f}
      /\ \A p \in Owner : f \notin Owned[p]
  BY <1>1, NextFacts
<1>4. /\ \A d \in Conn : /\ f \notin ToSet(ctrlQ[d]) /\ f \notin ToSet(dataQ[d])
                         /\ f \notin ToSet(recvQ[d]) /\ ~(HalfRead(d) /\ tmp[d] = f)
      /\ proxy.frame # NoFrame /\ content[proxy.frame] = 0 => proxy.frame # f
  BY <1>3, NobodyHas
<1> HIDE DEF f
<1>5. /\ content' \in [Frame -> 0 .. MaxChunks]
      /\ \A g \in Frame \ {f} : content'[g] = content[g]
  <2>1. 0 \in 0 .. MaxChunks
    BY DataChunksFacts
  <2>2. QED
    BY <1>1, <1>2, <1>3, <2>1 DEF TypeOK
<1>6. /\ ctrlQ' \in [Conn -> Seq(Frame)]
      /\ ToSet(ctrlQ'[c]) = ToSet(ctrlQ[c]) \cup {f} /\ IsInjective(ctrlQ'[c])
      /\ ctrlQ'[c] = Append(ctrlQ[c], f)
      /\ \A d \in Conn \ {c} : ctrlQ'[d] = ctrlQ[d]
  <2>1. ctrlQ \in [Conn -> Seq(Frame)] /\ IsInjective(ctrlQ[c])
    BY <1>2 DEF TypeOK, OwnInv
  <2>2. /\ Append(ctrlQ[c], f) \in Seq(Frame) /\ IsInjective(Append(ctrlQ[c], f))
        /\ ToSet(Append(ctrlQ[c], f)) = ToSet(ctrlQ[c]) \cup {f}
    BY <1>3, <1>4, <2>1, AppendSet
  <2>3. QED
    BY <1>1, <2>1, <2>2
<1>7. PICK due \in SUBSET Conn : due \subseteq proxy.due /\ proxy' = [proxy EXCEPT !.due = due]
  OBVIOUS
<1>8. /\ proxy'.at = proxy.at /\ proxy'.frame = proxy.frame /\ proxy'.due \subseteq proxy.due
      /\ proxy' \in [at : {"select", "orders", "round", "look", "sweep"},
                     frame : Frame \cup {NoFrame}, due : SUBSET Conn]
  BY <1>2, <1>7 DEF TypeOK
<1>9. proxy.frame # NoFrame => content'[proxy.frame] = content[proxy.frame]
  <2>1. SUFFICES ASSUME proxy.frame # NoFrame
                 PROVE  proxy.frame \in Frame \ {f}
    BY <1>5
  <2>2. proxy.frame \in Frame
    BY <1>2, <2>1 DEF TypeOK
  <2>3. content[proxy.frame] # 0 => \E d \in Conn : proxy.frame \in ToSet(recvQ[d])
    BY <1>2, <2>1 DEF HandlerInv, TypeOK
  <2>4. QED
    BY <1>4, <2>1, <2>2, <2>3
<1>10. TypeOK'
  <2>1. pool' \in [free : Seq(Frame), alloc : SUBSET Frame]
    BY <1>3 DEF PoolInv
  <2>2. QED
    BY <1>1, <1>2, <1>5, <1>6, <1>8, <2>1 DEF TypeOK
<1>11. \A d \in Conn : HalfRead(d)' = HalfRead(d)
  BY <1>1 DEF HalfRead, Resumed
<1>12. OwnInv'
  <2>1. QueuesInjective'
    BY <1>1, <1>2, <1>6 DEF OwnInv, QueuesInjective
  <2>2. o \in Owner
    BY OwnerFacts
  <2>3. \A p \in Owner \ {o} : Owned'[p] \subseteq Owned[p]
    <3>1. /\ \A d \in Conn : o # <<"ctrl", d>> => ToSet(ctrlQ'[d]) \subseteq ToSet(ctrlQ[d])
          /\ \A d \in Conn : dataQ'[d] = dataQ[d] /\ recvQ'[d] = recvQ[d]
      BY <1>1, <1>6
    <3>2. \A d \in Conn : HalfRead(d)' => HalfRead(d) /\ tmp'[d] = tmp[d]
      BY <1>1, <1>11
    <3>3. proxy'.frame # NoFrame /\ content'[proxy'.frame] = 0 =>
            proxy.frame = proxy'.frame /\ content[proxy.frame] = 0
      BY <1>8, <1>9
    <3> HIDE DEF o
    <3>4. QED
      BY <3>1, <3>2, <3>3, OwnedElse
  <2>4. Owned'[o] = Owned[o] \cup {f}
    BY <1>6, OwnedFacts, OwnedFactsNext
  <2>5. \A p \in Owner \ {o} : Owned'[p] \subseteq Owned[p] \ {f}
    BY <1>3, <2>3
  <2>6. QED
    BY <1>2, <1>3, <2>1, <2>2, <2>4, <2>5, OwnGains
<1>13. ReadInv'
  <2>1. \A d \in Conn : HalfRead(d) => tmp[d] \in Frame \ {f}
    BY <1>2, <1>4 DEF ReadInv, HalfRead
  <2>2. QED
    BY <1>1, <1>2, <1>5, <2>1, ReadKeeps
<1>14. HandlerInv'
  <2>1. /\ proxy'.at = proxy.at /\ proxy'.frame = proxy.frame
        /\ proxy.due = {} => proxy'.due = {}
        /\ recvQ' = recvQ
    BY <1>1, <1>8
  <2>2. QED
    BY <1>2, <1>9, <2>1 DEF HandlerInv
<1>15. SendInv' /\ OwedInv'
  <2>1. \A d \in Conn : \A g \in ToSet(dataQ[d]) : g \in Frame \ {f}
    BY <1>2, <1>4, SetOfSeq DEF TypeOK
  <2>2. \A d \in Conn : \A g \in ToSet(dataQ[d]) : content'[g] = content[g]
    BY <1>5, <2>1
  <2>3. \A d \in Conn : \/ ctrlQ'[d] = ctrlQ[d]
                        \/ \E g \in Frame : ctrlQ'[d] = Append(ctrlQ[d], g)
    BY <1>3, <1>6
  <2>4. QED
    BY <1>1, <1>2, <2>2, <2>3, SenderKeeps
<1>16. QED
  BY <1>10, <1>12, <1>13, <1>14, <1>15 DEF FramesInv

LEMMA OrderStep ==
  ASSUME FramesInv, NEW c \in Conn, Order(c)
  PROVE  FramesInv'
<1>1. proxy.at # "look"
  BY DEF FramesInv, HandlerInv, Order
<1>2. proxy.due \ {c} \in SUBSET Conn /\ proxy' = [proxy EXCEPT !.due = proxy.due \ {c}]
  BY DEF FramesInv, TypeOK, Order
<1>3. QED
  BY <1>1, <1>2, PushStep DEF Order

LEMMA CliTsRateStep ==
  ASSUME FramesInv, ~CliRaces, NEW c \in Conn, CliTsRate(c)
  PROVE  FramesInv'
<1>1. proxy.at # "look"
  BY DEF CliTsRate
<1>2. /\ proxy' = proxy /\ proxy.due \in SUBSET Conn
      /\ proxy = [proxy EXCEPT !.due = proxy.due]
  BY DEF FramesInv, TypeOK, CliTsRate, proxyVars
<1>3. \E due \in SUBSET Conn : due \subseteq proxy.due /\ proxy' = [proxy EXCEPT !.due = due]
  BY <1>2
<1>4. QED
  BY <1>1, <1>3, PushStep DEF CliTsRate, proxyVars

LEMMA LocalReadStep ==
  ASSUME FramesInv, NEW c \in Conn, LocalRead(c)
  PROVE  FramesInv'
<1> DEFINE f == NextFrame(pool)
           o == <<"data", c>>
<1>1. /\ HasRoom(pool) /\ pool' = AllocFrame(pool) /\ proxy = Idle
      /\ \E n \in DataChunks : content' = [content EXCEPT ![f] = n]
      /\ dataQ' = [dataQ EXCEPT ![c] = Append(dataQ[c], f)]
      /\ UNCHANGED <<ctrlQ, lastChunk, wrType, sending, owed, conn, recvQ, tmp, tmpChunk,
                     zombies, closed, proxy>>
  BY DEF LocalRead, proxyVars
<1>2. TypeOK /\ OwnInv /\ ReadInv /\ HandlerInv /\ SendInv /\ OwedInv
  BY DEF FramesInv
<1>3. /\ f \in Frame /\ PoolInv(pool') /\ pool'.alloc = pool.alloc \cup {f}
      /\ \A p \in Owner : f \notin Owned[p]
  BY <1>1, NextFacts
<1>4. \A d \in Conn : f \notin ToSet(dataQ[d]) /\ ~(HalfRead(d) /\ tmp[d] = f)
  BY <1>3, NobodyHas
<1> HIDE DEF f
<1>5. /\ content' \in [Frame -> 0 .. MaxChunks]
      /\ \A g \in Frame \ {f} : content'[g] = content[g]
  <2>1. PICK n \in DataChunks : content' = [content EXCEPT ![f] = n]
    BY <1>1
  <2>2. n \in 0 .. MaxChunks
    BY DataChunksFacts
  <2>3. QED
    BY <1>2, <1>3, <2>1, <2>2 DEF TypeOK
<1>6. /\ dataQ' \in [Conn -> Seq(Frame)]
      /\ ToSet(dataQ'[c]) = ToSet(dataQ[c]) \cup {f} /\ IsInjective(dataQ'[c])
      /\ dataQ'[c] = Append(dataQ[c], f)
      /\ \A d \in Conn \ {c} : dataQ'[d] = dataQ[d]
  <2>1. dataQ \in [Conn -> Seq(Frame)] /\ IsInjective(dataQ[c])
    BY <1>2 DEF TypeOK, OwnInv
  <2>2. /\ Append(dataQ[c], f) \in Seq(Frame) /\ IsInjective(Append(dataQ[c], f))
        /\ ToSet(Append(dataQ[c], f)) = ToSet(dataQ[c]) \cup {f}
    BY <1>3, <1>4, <2>1, AppendSet
  <2>3. QED
    BY <1>1, <2>1, <2>2
<1>7. TypeOK'
  <2>1. pool' \in [free : Seq(Frame), alloc : SUBSET Frame]
    BY <1>3 DEF PoolInv
  <2>2. QED
    BY <1>1, <1>2, <1>5, <1>6, <2>1 DEF TypeOK
<1>8. \A d \in Conn : HalfRead(d)' = HalfRead(d)
  BY <1>1 DEF HalfRead, Resumed
<1>9. OwnInv'
  <2>1. QueuesInjective'
    BY <1>1, <1>2, <1>6 DEF OwnInv, QueuesInjective
  <2>2. o \in Owner
    BY OwnerFacts
  <2>3. \A p \in Owner \ {o} : Owned'[p] \subseteq Owned[p]
    BY <1>1, <1>6, <1>8, IdleFacts, OwnedElse
  <2>4. Owned'[o] = Owned[o] \cup {f}
    BY <1>6, OwnedFacts, OwnedFactsNext
  <2>5. \A p \in Owner \ {o} : Owned'[p] \subseteq Owned[p] \ {f}
    BY <1>3, <2>3
  <2>6. QED
    BY <1>2, <1>3, <2>1, <2>2, <2>4, <2>5, OwnGains
<1>10. ReadInv'
  <2>1. \A d \in Conn : HalfRead(d) => tmp[d] \in Frame \ {f}
    BY <1>2, <1>4 DEF ReadInv, HalfRead
  <2>2. QED
    BY <1>1, <1>2, <1>5, <2>1, ReadKeeps
<1>11. HandlerInv'
  BY <1>1, <1>2, IdleFacts DEF HandlerInv
<1>12. SendInv' /\ OwedInv'
  <2>1. \A d \in Conn : \A g \in ToSet(dataQ[d]) : g \in Frame \ {f}
    BY <1>2, <1>4, SetOfSeq DEF TypeOK
  <2>2. \A d \in Conn : \A g \in ToSet(dataQ[d]) : content'[g] = content[g]
    BY <1>5, <2>1
  <2>3. \A d \in Conn : \/ dataQ'[d] = dataQ[d]
                        \/ \E g \in Frame : dataQ'[d] = Append(dataQ[d], g)
    BY <1>3, <1>6
  <2>4. QED
    BY <1>1, <1>2, <2>2, <2>3, SenderKeeps
<1>13. QED
  BY <1>7, <1>9, <1>10, <1>11, <1>12 DEF FramesInv

(* The frame comes back at once: at the other end of the free ones.         *)
LEMMA LocalReadsNothingStep ==
  ASSUME FramesInv, LocalReadsNothing
  PROVE  FramesInv'
<1> DEFINE f == NextFrame(pool)
<1>1. /\ HasRoom(pool) /\ pool' = UnallocFrame(AllocFrame(pool), f)
      /\ UNCHANGED <<content, ctrlQ, dataQ, lastChunk, wrType, sending, owed, conn, recvQ, tmp,
                     tmpChunk, zombies, closed, proxy>>
  BY DEF LocalReadsNothing, proxyVars
<1>2. TypeOK /\ OwnInv /\ ReadInv /\ HandlerInv /\ SendInv /\ OwedInv
  BY DEF FramesInv
<1>3. /\ PoolInv(AllocFrame(pool)) /\ AllocFrame(pool).alloc = pool.alloc \cup {f}
      /\ f \notin pool.alloc /\ \A p \in Owner : f \notin Owned[p]
  BY <1>1, NextFacts
<1> HIDE DEF f
<1>4. PoolInv(pool') /\ pool'.alloc = pool.alloc \ {f}
  <2>1. PoolInv(pool') /\ pool'.alloc = AllocFrame(pool).alloc \ {f}
    BY <1>1, <1>3, UnallocFacts
  <2>2. QED
    BY <1>3, <2>1
<1>5. TypeOK'
  <2>1. pool' \in [free : Seq(Frame), alloc : SUBSET Frame]
    BY <1>4 DEF PoolInv
  <2>2. QED
    BY <1>1, <1>2, <2>1 DEF TypeOK
<1>6. OwnInv'
  <2>1. QueuesInjective'
    BY <1>1, <1>2 DEF OwnInv, QueuesInjective
  <2>2. \A p \in Owner : Owned'[p] = Owned[p]
    BY <1>1 DEF Owned, Own, HalfRead, Resumed
  <2>3. \A p \in Owner : Owned'[p] \subseteq Owned[p] \ {f}
    BY <1>3, <2>2
  <2>4. QED
    BY <1>2, <1>4, <2>1, <2>3, OwnLoses
<1>7. ReadInv' /\ HandlerInv'
  BY <1>1, <1>2, ReadKeeps DEF HandlerInv
<1>8. SendInv' /\ OwedInv'
  BY <1>1, <1>2, SenderKeeps
<1>9. QED
  BY <1>5, <1>6, <1>7, <1>8 DEF FramesInv

-----------------------------------------------------------------------------
(* Connections come and go.                                                 *)
LEMMA NewConnectionStep ==
  ASSUME FramesInv, NEW c \in Conn, NewConnection(c)
  PROVE  FramesInv'
<1>1. /\ c \notin conn /\ conn' = conn \cup {c}
      /\ proxy'.at = "orders" /\ proxy'.frame = NoFrame /\ proxy'.due \in SUBSET Conn
      /\ proxy' \in [at : {"select", "orders", "round", "look", "sweep"},
                     frame : Frame \cup {NoFrame}, due : SUBSET Conn]
      /\ UNCHANGED <<pool, content, ctrlQ, dataQ, lastChunk, wrType, sending, owed, recvQ, tmp,
                     tmpChunk, zombies, closed>>
  <2>1. conn' \in SUBSET Conn
    BY DEF NewConnection, FramesInv, TypeOK
  <2>2. PICK due \in SUBSET Conn : proxy' = At("orders", NoFrame, due)
    BY <2>1 DEF NewConnection
  <2>3. QED
    BY <2>2 DEF NewConnection, At, senderVars
<1>2. TypeOK /\ OwnInv /\ ReadInv /\ HandlerInv /\ SendInv /\ OwedInv
  BY DEF FramesInv
<1>3. TypeOK'
  BY <1>1, <1>2 DEF TypeOK
<1>4. \A d \in Conn : HalfRead(d)' => HalfRead(d)
  BY <1>1, <1>2 DEF HalfRead, Resumed, ReadInv
<1>5. OwnInv'
  <2>1. QueuesInjective'
    BY <1>1, <1>2 DEF OwnInv, QueuesInjective
  <2>2. \A p \in Owner \ {<<>>} : Owned'[p] \subseteq Owned[p]
    BY <1>1, <1>4, OwnedElse
  <2>3. <<>> \notin Owner
    BY DEF Owner
  <2>4. PoolInv(pool') /\ pool'.alloc = pool.alloc \ {}
    BY <1>1, <1>2 DEF OwnInv
  <2>5. \A p \in Owner : Owned'[p] \subseteq Owned[p] \ {}
    BY <2>2, <2>3
  <2>6. QED
    BY <1>2, <2>1, <2>4, <2>5, OwnLoses
<1>6. ReadInv'
  BY <1>1, <1>2, <1>4 DEF ReadInv, Resumed
<1>7. HandlerInv'
  BY <1>1 DEF HandlerInv
<1>8. SendInv' /\ OwedInv'
  BY <1>1, <1>2, SenderKeeps
<1>9. QED
  BY <1>3, <1>5, <1>6, <1>7, <1>8 DEF FramesInv

(* What the queues of a connection hold goes back to the pool.              *)
LEMMA TerminatedStep ==
  ASSUME FramesInv, NEW c \in Conn, Terminated(c)
  PROVE  FramesInv'
<1> DEFINE F == Leftovers(c)
           mine == {<<"ctrl", c>>, <<"data", c>>, <<"recv", c>>}
<1>1. /\ c \in zombies /\ sending = None /\ sending' = None
      /\ pool' \in UnallocAll(pool, F)
      /\ conn' = conn \ {c} /\ zombies' = zombies \ {c} /\ closed' = closed \ {c}
      /\ content' = content
  BY DEF Terminated
<1>2. /\ ctrlQ' = [ctrlQ EXCEPT ![c] = <<>>] /\ dataQ' = [dataQ EXCEPT ![c] = <<>>]
      /\ recvQ' = [recvQ EXCEPT ![c] = <<>>]
      /\ lastChunk' = [lastChunk EXCEPT ![c] = 0] /\ wrType' = [wrType EXCEPT ![c] = "NONE"]
      /\ tmp' = [tmp EXCEPT ![c] = NoFrame] /\ tmpChunk' = [tmpChunk EXCEPT ![c] = -1]
      /\ owed' = [owed EXCEPT ![c] = None]
  BY DEF Terminated, ClearTmp, SetTmp
<1>3. TypeOK /\ OwnInv /\ ReadInv /\ HandlerInv /\ SendInv /\ OwedInv
  BY DEF FramesInv
<1>4. /\ proxy'.at = "orders" /\ proxy'.frame = NoFrame
      /\ proxy' \in [at : {"select", "orders", "round", "look", "sweep"},
                     frame : Frame \cup {NoFrame}, due : SUBSET Conn]
  <2>1. conn' \subseteq Conn
    BY <1>1, <1>3 DEF TypeOK
  <2>2. PICK due \in SUBSET Conn : proxy' = At("orders", NoFrame, due)
    BY <2>1 DEF Terminated
  <2>3. QED
    BY <2>2 DEF At
<1>5. PoolInv(pool') /\ pool'.alloc = pool.alloc \ F
  BY <1>1, <1>3, UnallocAllFacts DEF OwnInv
<1>6. /\ ctrlQ'[c] = <<>> /\ dataQ'[c] = <<>> /\ recvQ'[c] = <<>> /\ lastChunk'[c] = 0
      /\ tmpChunk'[c] = -1 /\ owed'[c] = None
  BY <1>2, <1>3 DEF TypeOK
<1>7. \A d \in Conn \ {c} :
        /\ ctrlQ'[d] = ctrlQ[d] /\ dataQ'[d] = dataQ[d] /\ recvQ'[d] = recvQ[d]
        /\ lastChunk'[d] = lastChunk[d] /\ wrType'[d] = wrType[d]
        /\ tmp'[d] = tmp[d] /\ tmpChunk'[d] = tmpChunk[d] /\ owed'[d] = owed[d]
  BY <1>2, <1>3 DEF TypeOK
<1>8. TypeOK'
  <2>1. pool' \in [free : Seq(Frame), alloc : SUBSET Frame]
    BY <1>5 DEF PoolInv
  <2>2. <<>> \in Seq(Frame) /\ 0 \in 0 .. MaxChunks - 1 /\ -1 \in -1 .. MaxChunks - 1
    BY DataChunksFacts
  <2>3. /\ ctrlQ' \in [Conn -> Seq(Frame)] /\ dataQ' \in [Conn -> Seq(Frame)]
        /\ recvQ' \in [Conn -> Seq(Frame)]
    BY <1>2, <1>3, <2>2 DEF TypeOK
  <2>4. /\ lastChunk' \in [Conn -> 0 .. MaxChunks - 1]
        /\ wrType' \in [Conn -> {"NONE", "CTRL", "DATA", "CHAFF"}]
        /\ tmp' \in [Conn -> Frame \cup {NoFrame}] /\ tmpChunk' \in [Conn -> -1 .. MaxChunks - 1]
    BY <1>2, <1>3, <2>2 DEF TypeOK
  <2>5. owed' \in [Conn -> {None} \cup Chunk]
    BY <1>2, <1>3 DEF TypeOK
  <2>6. conn' \subseteq Conn /\ zombies' \subseteq conn' /\ closed' \subseteq zombies'
    BY <1>1, <1>3 DEF TypeOK
  <2>7. /\ content' \in [Frame -> 0 .. MaxChunks]
        /\ sending' \in {None} \cup [conn : Conn, of : Chunk]
    BY <1>1, <1>3 DEF TypeOK
  <2>8. QED
    BY <1>4, <2>1, <2>3, <2>4, <2>5, <2>6, <2>7 DEF TypeOK
<1>9. \A d \in Conn : HalfRead(d)' => d # c /\ HalfRead(d) /\ tmp'[d] = tmp[d]
  BY <1>1, <1>6, <1>7 DEF HalfRead, Resumed
<1>10. OwnInv'
  <2>1. QueuesInjective'
    BY <1>3, <1>6, <1>7, SetOfEmpty DEF OwnInv, QueuesInjective
  <2>2. \A p \in Owner \ {<<>>} : Owned'[p] \subseteq Owned[p]
    <3>1. \A d \in Conn : /\ ToSet(ctrlQ'[d]) \subseteq ToSet(ctrlQ[d])
                          /\ ToSet(dataQ'[d]) \subseteq ToSet(dataQ[d])
                          /\ ToSet(recvQ'[d]) \subseteq ToSet(recvQ[d])
      BY <1>6, <1>7, SetOfEmpty
    <3>2. QED
      BY <1>4, <1>9, <3>1, OwnedElse
  <2>3. <<>> \notin Owner
    BY DEF Owner
  <2>4. \A p \in mine : Owned'[p] = {}
    BY <1>6, SetOfEmpty, OwnedFactsNext
  <2>5. \A p \in Owner \ mine : Owned[p] \cap F = {}
    <3>1. F = Owned[<<"ctrl", c>>] \cup Owned[<<"data", c>>] \cup Owned[<<"recv", c>>]
      BY OwnedFacts DEF Leftovers
    <3>2. ASSUME NEW p \in Owner \ mine, NEW o \in mine
          PROVE  Owned[p] \cap Owned[o] = {}
      <4>1. o \in Owner /\ o # p
        BY OwnerFacts
      <4>2. QED
        BY <1>3, <4>1 DEF OwnInv, Exclusive
    <3> HIDE DEF F
    <3>3. QED
      BY <3>1, <3>2
  <2>6. \A p \in Owner : Owned'[p] \subseteq Owned[p] \ F
    <3> HIDE DEF F, mine
    <3>1. QED
      BY <2>2, <2>3, <2>4, <2>5
  <2>7. QED
    BY <1>3, <1>5, <2>1, <2>6, OwnLoses
<1>11. ReadInv'
  <2>1. SUFFICES ASSUME NEW d \in Conn
                 PROVE  /\ Resumed(d)' => tmp'[d] \in Frame
                        /\ HalfRead(d)' /\ tmpChunk'[d] > 0 => tmpChunk'[d] < content[tmp'[d]]
                        /\ d \notin conn' => ~Resumed(d)'
    BY <1>1 DEF ReadInv
  <2>2. CASE d = c
    BY <1>6, <1>9, <2>2 DEF Resumed
  <2>3. CASE d # c
    <3>1. (Resumed(d)' <=> Resumed(d)) /\ (d \in conn' <=> d \in conn)
      BY <1>1, <1>7, <2>3 DEF Resumed
    <3>2. QED
      BY <1>3, <1>7, <1>9, <2>3, <3>1 DEF ReadInv
  <2>4. QED
    BY <2>2, <2>3
<1>12. HandlerInv'
  BY <1>4 DEF HandlerInv
<1>13. SendInv'
  BY <1>1 DEF SendInv
<1>14. OwedInv'
  <2>1. SUFFICES ASSUME NEW d \in Conn
                 PROVE  /\ lastChunk'[d] > 0 => dataQ'[d] # <<>>
                        /\ d \notin conn' => owed'[d] = None
                        /\ owed'[d] = None \/ OwesCtrl(d)' \/ OwesData(d)' \/ OwesChaff(d)'
    BY <1>1 DEF OwedInv
  <2>2. CASE d = c
    BY <1>6, <2>2
  <2>3. CASE d # c
    <3>1. /\ OwesCtrl(d)' <=> OwesCtrl(d)
          /\ OwesData(d)' <=> OwesData(d)
          /\ OwesChaff(d)' <=> OwesChaff(d)
      BY <1>7, <2>3 DEF OwesCtrl, OwesData, OwesChaff, PartialDataFrame
    <3>2. d \in conn' <=> d \in conn
      BY <1>1, <2>3
    <3>3. QED
      BY <1>1, <1>3, <1>7, <2>3, <3>1, <3>2 DEF OwedInv
  <2>4. QED
    BY <2>2, <2>3
<1>15. QED
  BY <1>8, <1>10, <1>11, <1>12, <1>13, <1>14 DEF FramesInv

-----------------------------------------------------------------------------
(* The rest of a handler.                                                   *)
LEMMA OrdersDoneStep ==
  ASSUME FramesInv, OrdersDone
  PROVE  FramesInv'
<1>1. /\ proxy.at = "orders" /\ proxy.due = {}
      /\ UNCHANGED <<pool, content, ctrlQ, dataQ, lastChunk, wrType, sending, owed, conn, recvQ,
                     tmp, tmpChunk, zombies, closed>>
  BY DEF OrdersDone, senderVars
<1>2. TypeOK /\ OwnInv /\ ReadInv /\ HandlerInv /\ SendInv /\ OwedInv
  BY DEF FramesInv
<1>3. /\ proxy' \in [at : {"select", "orders", "round", "look", "sweep"},
                     frame : Frame \cup {NoFrame}, due : SUBSET Conn]
      /\ proxy'.due = {} /\ proxy'.at # "orders"
      /\ proxy.frame # NoFrame => proxy'.at = "round" /\ proxy'.frame = proxy.frame
      /\ proxy.frame = NoFrame => proxy'.at \in {"select", "sweep"} /\ proxy'.frame = NoFrame
  <2>1. CASE proxy.frame # NoFrame
    <3>1. proxy' = [proxy EXCEPT !.at = "round"]
      BY <2>1 DEF OrdersDone
    <3>2. QED
      BY <1>1, <1>2, <2>1, <3>1 DEF TypeOK
  <2>2. CASE proxy.frame = NoFrame
    <3>1. proxy' = Idle \/ proxy' = At("sweep", NoFrame, {})
      BY <2>2 DEF OrdersDone
    <3>2. QED
      BY <2>2, <3>1 DEF Idle, At
  <2>3. QED
    BY <2>1, <2>2
<1>4. TypeOK'
  BY <1>1, <1>2, <1>3 DEF TypeOK
<1>5. \A d \in Conn : HalfRead(d)' => HalfRead(d) /\ tmp'[d] = tmp[d]
  BY <1>1 DEF HalfRead, Resumed
<1>6. OwnInv'
  <2>1. QueuesInjective'
    BY <1>1, <1>2 DEF OwnInv, QueuesInjective
  <2>2. \A p \in Owner \ {<<>>} : Owned'[p] \subseteq Owned[p]
    BY <1>1, <1>3, <1>5, OwnedElse
  <2>3. <<>> \notin Owner
    BY DEF Owner
  <2>4. PoolInv(pool') /\ pool'.alloc = pool.alloc \ {}
    BY <1>1, <1>2 DEF OwnInv
  <2>5. \A p \in Owner : Owned'[p] \subseteq Owned[p] \ {}
    BY <2>2, <2>3
  <2>6. QED
    BY <1>2, <2>1, <2>4, <2>5, OwnLoses
<1>7. ReadInv'
  BY <1>1, <1>2, ReadKeeps
<1>8. HandlerInv'
  BY <1>1, <1>2, <1>3 DEF HandlerInv
<1>9. SendInv' /\ OwedInv'
  BY <1>1, <1>2, SenderKeeps
<1>10. QED
  BY <1>4, <1>6, <1>7, <1>8, <1>9 DEF FramesInv

(* A round takes the heads of some queues of deliveries, and nobody else    *)
(* has those.                                                               *)
LEMMA RoundStep ==
  ASSUME FramesInv, Round
  PROVE  FramesInv'
<1>1. PICK served \in SUBSET {d \in conn : recvQ[d] # <<>>} :
        \E failed \in SUBSET served :
          /\ pool' \in UnallocAll(pool, {Head(recvQ[d]) : d \in served})
          /\ recvQ' = [d \in Conn |-> IF d \in served THEN Tail(recvQ[d]) ELSE recvQ[d]]
          /\ zombies' = zombies \cup failed
  BY DEF Round
<1> DEFINE F == {Head(recvQ[d]) : d \in served}
<1>2. /\ proxy.at = "round" /\ proxy' = [proxy EXCEPT !.at = "look"]
      /\ pool' \in UnallocAll(pool, F)
      /\ recvQ' = [d \in Conn |-> IF d \in served THEN Tail(recvQ[d]) ELSE recvQ[d]]
      /\ UNCHANGED <<content, ctrlQ, dataQ, lastChunk, wrType, sending, owed, conn, tmp,
                     tmpChunk, closed>>
  BY <1>1 DEF Round
<1>3. TypeOK /\ OwnInv /\ ReadInv /\ HandlerInv /\ SendInv /\ OwedInv
  BY DEF FramesInv
<1>4. zombies \subseteq zombies' /\ zombies' \subseteq conn /\ served \subseteq Conn
  BY <1>1, <1>3 DEF TypeOK
<1>5. PoolInv(pool') /\ pool'.alloc = pool.alloc \ F
  BY <1>2, <1>3, UnallocAllFacts DEF OwnInv
<1>6. /\ recvQ' \in [Conn -> Seq(Frame)]
      /\ \A d \in Conn : /\ IsInjective(recvQ'[d])
                         /\ d \notin served => recvQ'[d] = recvQ[d]
                         /\ d \in served => /\ Head(recvQ[d]) \in ToSet(recvQ[d])
                                            /\ ToSet(recvQ'[d]) = ToSet(recvQ[d]) \ {Head(recvQ[d])}
  <2>1. \A d \in Conn : /\ d \notin served => recvQ'[d] = recvQ[d]
                        /\ d \in served => recvQ'[d] = Tail(recvQ[d]) /\ recvQ[d] # <<>>
    BY <1>1, <1>2
  <2>2. \A d \in Conn : recvQ[d] \in Seq(Frame) /\ IsInjective(recvQ[d])
    BY <1>3 DEF TypeOK, OwnInv
  <2>3. ASSUME NEW d \in Conn, d \in served
        PROVE  /\ recvQ'[d] \in Seq(Frame) /\ IsInjective(recvQ'[d])
               /\ Head(recvQ[d]) \in ToSet(recvQ[d])
               /\ ToSet(recvQ'[d]) = ToSet(recvQ[d]) \ {Head(recvQ[d])}
    <3>1. /\ recvQ[d] \in Seq(Frame) /\ recvQ[d] # <<>> /\ IsInjective(recvQ[d])
          /\ recvQ'[d] = Tail(recvQ[d])
      BY <2>1, <2>2, <2>3
    <3>2. Head(recvQ[d]) \in ToSet(recvQ[d])
      BY <3>1, SetOfSeq
    <3>3. /\ Tail(recvQ[d]) \in Seq(Frame) /\ IsInjective(Tail(recvQ[d]))
          /\ ToSet(Tail(recvQ[d])) = ToSet(recvQ[d]) \ {Head(recvQ[d])}
      BY <3>1, TailSet
    <3>4. QED
      BY <3>1, <3>2, <3>3
  <2>4. \A d \in Conn : recvQ'[d] \in Seq(Frame) /\ IsInjective(recvQ'[d])
    BY <2>1, <2>2, <2>3
  <2>5. recvQ' \in [Conn -> Seq(Frame)]
    BY <1>2, <2>4
  <2>6. QED
    BY <2>1, <2>3, <2>4, <2>5
<1>7. /\ proxy'.at = "look" /\ proxy'.frame = proxy.frame /\ proxy'.due = proxy.due
      /\ proxy' \in [at : {"select", "orders", "round", "look", "sweep"},
                     frame : Frame \cup {NoFrame}, due : SUBSET Conn]
  BY <1>2, <1>3 DEF TypeOK
<1>8. TypeOK'
  <2>1. pool' \in [free : Seq(Frame), alloc : SUBSET Frame]
    BY <1>5 DEF PoolInv
  <2>2. QED
    BY <1>2, <1>3, <1>4, <1>6, <1>7, <2>1 DEF TypeOK
<1>9. \A d \in Conn : HalfRead(d)' => HalfRead(d) /\ tmp'[d] = tmp[d]
  BY <1>2 DEF HalfRead, Resumed
<1>10. OwnInv'
  <2>1. QueuesInjective'
    BY <1>2, <1>3, <1>6 DEF OwnInv, QueuesInjective
  <2>2. \A p \in Owner \ {<<>>} : Owned'[p] \subseteq Owned[p]
    <3>1. \A d \in Conn : ToSet(recvQ'[d]) \subseteq ToSet(recvQ[d])
      BY <1>6
    <3>2. QED
      BY <1>2, <1>7, <1>9, <3>1, OwnedElse
  <2>3. <<>> \notin Owner
    BY DEF Owner
  <2>4. ASSUME NEW p \in Owner, NEW d \in served
        PROVE  Head(recvQ[d]) \notin Owned'[p]
    <3> DEFINE o == <<"recv", d>>
               g == Head(recvQ[d])
    <3>1. o \in Owner /\ d \in Conn
      BY <1>4, OwnerFacts
    <3>2. Owned[o] = ToSet(recvQ[d]) /\ Owned'[o] = ToSet(recvQ'[d])
      BY <3>1, OwnedFacts, OwnedFactsNext
    <3>3. g \in Owned[o] /\ g \notin Owned'[o]
      BY <1>6, <3>1, <3>2
    <3>4. p # o => g \notin Owned[p]
      BY <1>3, <3>1, <3>3 DEF OwnInv, Exclusive
    <3>5. Owned'[p] \subseteq Owned[p]
      BY <2>2, <2>3
    <3>6. QED
      BY <3>3, <3>4, <3>5
  <2>5. \A p \in Owner : Owned'[p] \subseteq Owned[p] \ F
    BY <2>2, <2>3, <2>4
  <2>6. QED
    BY <1>3, <1>5, <2>1, <2>5, OwnLoses
<1>11. ReadInv'
  BY <1>2, <1>3, ReadKeeps
<1>12. HandlerInv'
  BY <1>2, <1>3, <1>7 DEF HandlerInv
<1>13. SendInv' /\ OwedInv'
  BY <1>2, <1>3, SenderKeeps
<1>14. QED
  BY <1>8, <1>10, <1>11, <1>12, <1>13 DEF FramesInv

(* The frame is the handler's, if it is not a DATA frame.                   *)
LEMMA LookStep ==
  ASSUME FramesInv, Look
  PROVE  FramesInv'
<1> DEFINE F == {g \in {proxy.frame} : content[g] = 0}
           o == <<"handler">>
<1>1. /\ proxy.at = "look" /\ proxy' = Idle
      /\ pool' = IF content[proxy.frame] = 0 THEN UnallocFrame(pool, proxy.frame) ELSE pool
      /\ UNCHANGED <<content, ctrlQ, dataQ, lastChunk, wrType, sending, owed, conn, recvQ, tmp,
                     tmpChunk, zombies, closed>>
  BY DEF Look
<1>2. TypeOK /\ OwnInv /\ ReadInv /\ HandlerInv /\ SendInv /\ OwedInv
  BY DEF FramesInv
<1>3. PoolInv(pool') /\ pool'.alloc = pool.alloc \ F
  <2>1. CASE content[proxy.frame] = 0
    BY <1>1, <1>2, <2>1, UnallocFacts DEF OwnInv
  <2>2. CASE content[proxy.frame] # 0
    BY <1>1, <1>2, <2>2 DEF OwnInv
  <2>3. QED
    BY <2>1, <2>2
<1>4. TypeOK'
  <2>1. pool' \in [free : Seq(Frame), alloc : SUBSET Frame]
    BY <1>3 DEF PoolInv
  <2>2. proxy' \in [at : {"select", "orders", "round", "look", "sweep"},
                    frame : Frame \cup {NoFrame}, due : SUBSET Conn]
    BY <1>1 DEF Idle, At
  <2>3. QED
    BY <1>1, <1>2, <2>1, <2>2 DEF TypeOK
<1>5. \A d \in Conn : HalfRead(d)' => HalfRead(d) /\ tmp'[d] = tmp[d]
  BY <1>1 DEF HalfRead, Resumed
<1>6. OwnInv'
  <2>1. QueuesInjective'
    BY <1>1, <1>2 DEF OwnInv, QueuesInjective
  <2>2. \A p \in Owner \ {o} : Owned'[p] \subseteq Owned[p]
    BY <1>1, <1>5, OwnedElse
  <2>3. Owned'[o] = {}
    BY <1>1, IdleFacts, OwnedFactsNext
  <2>4. Owned[o] = F
    BY <1>1, <1>2, OwnedFacts DEF HandlerInv
  <2>5. o \in Owner
    BY OwnerFacts
  <2>6. \A p \in Owner \ {o} : Owned[p] \cap F = {}
    BY <1>2, <2>4, <2>5 DEF OwnInv, Exclusive
  <2> HIDE DEF F, o
  <2>7. \A p \in Owner : Owned'[p] \subseteq Owned[p] \ F
    BY <2>2, <2>3, <2>6
  <2>8. QED
    BY <1>2, <1>3, <2>1, <2>7, OwnLoses
<1>7. ReadInv'
  BY <1>1, <1>2, ReadKeeps
<1>8. HandlerInv'
  BY <1>1, IdleFacts DEF HandlerInv
<1>9. SendInv' /\ OwedInv'
  BY <1>1, <1>2, SenderKeeps
<1>10. QED
  BY <1>4, <1>6, <1>7, <1>8, <1>9 DEF FramesInv

-----------------------------------------------------------------------------
(* The traffic shaping thread.                                              *)
LEMMA RecordFacts ==
  /\ \A c, k : [conn |-> c, of |-> k] # None
  /\ \A t, f, i : /\ ChunkOf(t, f, i).type = t /\ ChunkOf(t, f, i).frame = f
                  /\ ChunkOf(t, f, i).chunk = i
  /\ \A k \in Chunk : k # None /\ k = ChunkOf(k.type, k.frame, k.chunk)
  /\ None.type = "NONE"
<1>1. \A c, k : [conn |-> c, of |-> k] # None
  <2>1. \A c, k : "conn" \in DOMAIN [conn |-> c, of |-> k]
    OBVIOUS
  <2>2. "conn" \notin DOMAIN None
    BY DEF None
  <2>3. QED
    BY <2>1, <2>2
<1>2. \A k \in Chunk : k.type # "NONE" /\ k = ChunkOf(k.type, k.frame, k.chunk)
  BY DEF Chunk, ChunkOf
<1>3. QED
  BY <1>1, <1>2 DEF ChunkOf, None

(* What the thread picks heads its queue, and is what TLS is owed.          *)
LEMMA PickedFacts ==
  ASSUME FramesInv, NEW c \in Conn
  PROVE  /\ Picked(c) \in Chunk
         /\ \/ /\ PicksCtrl(c)
               /\ Picked(c) = ChunkOf("CTRL", Head(ctrlQ[c]), 0)
            \/ /\ wrType[c] \in {"NONE", "DATA"} /\ dataQ[c] # <<>>
               /\ Picked(c) = ChunkOf("DATA", Head(dataQ[c]), lastChunk[c])
            \/ Picked(c) = ChunkOf("CHAFF", Chaff, 0)
         /\ sending = None /\ owed[c] # None => Picked(c) = owed[c]
<1>1. TypeOK /\ OwedInv
  BY DEF FramesInv
<1>2. /\ PicksCtrl(c) => Picked(c) = ChunkOf("CTRL", Head(ctrlQ[c]), 0)
      /\ ~PicksCtrl(c) /\ wrType[c] \in {"NONE", "DATA"} /\ dataQ[c] # <<>> =>
           Picked(c) = ChunkOf("DATA", Head(dataQ[c]), lastChunk[c])
      /\ ~PicksCtrl(c) /\ ~(wrType[c] \in {"NONE", "DATA"} /\ dataQ[c] # <<>>) =>
           Picked(c) = ChunkOf("CHAFF", Chaff, 0)
  BY DEF Picked, PickedWhen
<1>3. /\ ctrlQ[c] \in Seq(Frame) /\ dataQ[c] \in Seq(Frame)
      /\ lastChunk[c] \in 0 .. MaxChunks - 1 /\ 0 \in 0 .. MaxChunks - 1
      /\ wrType[c] \in {"NONE", "CTRL", "DATA", "CHAFF"}
  BY <1>1, DataChunksFacts DEF TypeOK
<1>4. Picked(c) \in Chunk
  <2>1. PicksCtrl(c) => ctrlQ[c] # <<>>
    BY DEF PicksCtrl
  <2>2. /\ ctrlQ[c] # <<>> => Head(ctrlQ[c]) \in Frame
        /\ dataQ[c] # <<>> => Head(dataQ[c]) \in Frame
    BY <1>3
  <2>3. QED
    BY <1>2, <1>3, <2>1, <2>2 DEF Chunk, ChunkOf
<1>5. ASSUME sending = None, owed[c] # None
      PROVE  Picked(c) = owed[c]
  <2>1. OwesCtrl(c) \/ OwesData(c) \/ OwesChaff(c)
    BY <1>1, <1>5 DEF OwedInv
  <2>2. CASE OwesCtrl(c)
    BY <1>2, <2>2 DEF OwesCtrl, PicksCtrl
  <2>3. CASE OwesData(c)
    BY <1>2, <1>3, <2>3 DEF OwesData, PicksCtrl, PartialDataFrame
  <2>4. CASE OwesChaff(c)
    BY <1>2, <2>4 DEF OwesChaff, PicksCtrl
  <2>5. QED
    BY <2>1, <2>2, <2>3, <2>4
<1>6. QED
  BY <1>2, <1>4, <1>5

(* Steps of the thread that leave the frames where they are.                *)
LEMMA SenderOnly ==
  ASSUME FramesInv, TypeOK', SendInv', OwedInv',
         UNCHANGED <<pool, content, ctrlQ, dataQ, conn, recvQ, tmp, tmpChunk, closed, proxy>>
  PROVE  FramesInv'
<1>1. OwnInv /\ ReadInv /\ HandlerInv
  BY DEF FramesInv
<1>2. OwnInv'
  <2>1. QueuesInjective'
    BY <1>1 DEF OwnInv, QueuesInjective
  <2>2. \A p \in Owner : Owned'[p] = Owned[p]
    BY DEF Owned, Own, HalfRead, Resumed
  <2>3. PoolInv(pool') /\ pool'.alloc = pool.alloc \ {}
    BY <1>1 DEF OwnInv
  <2>4. \A p \in Owner : Owned'[p] \subseteq Owned[p] \ {}
    BY <2>2
  <2>5. QED
    BY <1>1, <2>1, <2>3, <2>4, OwnLoses
<1>3. ReadInv' /\ HandlerInv'
  BY <1>1, ReadKeeps DEF HandlerInv
<1>4. QED
  BY <1>2, <1>3 DEF FramesInv

LEMMA OwesKept ==
  ASSUME NEW c, UNCHANGED <<ctrlQ[c], dataQ[c], lastChunk[c], wrType[c], owed[c]>>
  PROVE  /\ OwesCtrl(c)' <=> OwesCtrl(c)
         /\ OwesData(c)' <=> OwesData(c)
         /\ OwesChaff(c)' <=> OwesChaff(c)
BY DEF OwesCtrl, OwesData, OwesChaff, PartialDataFrame

(* What SSL_write refuses is owed, and picked again.                        *)
LEMMA RefusedStep ==
  ASSUME FramesInv, NEW c \in Conn, Refused(c)
  PROVE  FramesInv'
<1> DEFINE k == Picked(c)
<1>1. /\ c \in conn /\ sending = None
      /\ wrType' = [wrType EXCEPT ![c] = k.type] /\ owed' = [owed EXCEPT ![c] = k]
      /\ UNCHANGED <<pool, content, ctrlQ, dataQ, lastChunk, sending, conn, recvQ, tmp, tmpChunk,
                     zombies, closed, proxy>>
  BY DEF Refused, WriteRefused, proxyVars
<1>2. TypeOK /\ OwedInv
  BY DEF FramesInv
<1>3. /\ k \in Chunk
      /\ \/ /\ PicksCtrl(c) /\ k = ChunkOf("CTRL", Head(ctrlQ[c]), 0)
         \/ /\ dataQ[c] # <<>> /\ k = ChunkOf("DATA", Head(dataQ[c]), lastChunk[c])
         \/ k = ChunkOf("CHAFF", Chaff, 0)
  BY PickedFacts
<1> HIDE DEF k
<1>4. k.type \in {"CTRL", "DATA", "CHAFF"}
  BY <1>3 DEF Chunk
<1>5. /\ wrType'[c] = k.type /\ owed'[c] = k
      /\ \A d \in Conn \ {c} : wrType'[d] = wrType[d] /\ owed'[d] = owed[d]
      /\ wrType' \in [Conn -> {"NONE", "CTRL", "DATA", "CHAFF"}]
      /\ owed' \in [Conn -> {None} \cup Chunk]
  BY <1>1, <1>2, <1>3, <1>4 DEF TypeOK
<1>6. TypeOK'
  BY <1>1, <1>2, <1>5 DEF TypeOK
<1>7. SendInv'
  BY <1>1 DEF SendInv
<1>8. OwedInv'
  <2>1. SUFFICES ASSUME NEW d \in Conn
                 PROVE  /\ lastChunk[d] > 0 => dataQ[d] # <<>>
                        /\ d \notin conn => owed'[d] = None
                        /\ owed'[d] = None \/ OwesCtrl(d)' \/ OwesData(d)' \/ OwesChaff(d)'
    BY <1>1 DEF OwedInv
  <2>2. CASE d = c
    <3>1. OwesCtrl(c)' \/ OwesData(c)' \/ OwesChaff(c)'
      <4>1. CASE PicksCtrl(c) /\ k = ChunkOf("CTRL", Head(ctrlQ[c]), 0)
        BY <1>1, <1>5, <4>1, RecordFacts DEF OwesCtrl, PicksCtrl, PartialDataFrame
      <4>2. CASE dataQ[c] # <<>> /\ k = ChunkOf("DATA", Head(dataQ[c]), lastChunk[c])
        BY <1>1, <1>5, <4>2, RecordFacts DEF OwesData
      <4>3. CASE k = ChunkOf("CHAFF", Chaff, 0)
        BY <1>1, <1>5, <4>3, RecordFacts DEF OwesChaff
      <4>4. QED
        BY <1>3, <4>1, <4>2, <4>3
    <3>2. QED
      BY <1>1, <1>2, <2>2, <3>1 DEF OwedInv
  <2>3. CASE d # c
    <3>1. UNCHANGED <<ctrlQ[d], dataQ[d], lastChunk[d], wrType[d], owed[d]>>
      BY <1>1, <1>5, <2>3
    <3>2. QED
      BY <1>1, <1>2, <3>1, OwesKept DEF OwedInv
  <2>4. QED
    BY <2>2, <2>3
<1>9. QED
  BY <1>1, <1>6, <1>7, <1>8, SenderOnly

(* A chunk that is taken, or whose write fails, is settled next.            *)
LEMMA OfferedStep ==
  ASSUME FramesInv, NEW c \in conn, sending = None,
         wrType' = [wrType EXCEPT ![c] = "NONE"],
         NEW k, k = Picked(c),
         NEW rest \in {None} \cup {[k EXCEPT !.chunk = k.chunk + 1]},
         rest # None => HasMore(k),
         owed' = [owed EXCEPT ![c] = rest],
         sending' = [conn |-> c, of |-> k],
         UNCHANGED <<pool, content, ctrlQ, dataQ, lastChunk, conn, recvQ, tmp, tmpChunk,
                     zombies, closed, proxy>>
  PROVE  FramesInv'
<1>1. TypeOK /\ OwedInv /\ c \in Conn
  BY DEF FramesInv, TypeOK
<1>2. /\ k \in Chunk
      /\ \/ /\ PicksCtrl(c) /\ k = ChunkOf("CTRL", Head(ctrlQ[c]), 0)
         \/ /\ dataQ[c] # <<>> /\ k = ChunkOf("DATA", Head(dataQ[c]), lastChunk[c])
         \/ k = ChunkOf("CHAFF", Chaff, 0)
  BY <1>1, PickedFacts
<1>3. k.type = "CTRL" => Heads(k.frame, ctrlQ[c])
  BY <1>2, RecordFacts DEF Heads, PicksCtrl
<1>4. k.type = "DATA" => Heads(k.frame, dataQ[c])
  BY <1>2, RecordFacts DEF Heads
<1>5. rest # None => rest = ChunkOf("DATA", k.frame, k.chunk + 1) /\ rest \in Chunk
  <2>1. SUFFICES ASSUME rest # None
                 PROVE  rest = ChunkOf("DATA", k.frame, k.chunk + 1) /\ rest \in Chunk
    OBVIOUS
  <2>2. HasMore(k) /\ rest = [k EXCEPT !.chunk = k.chunk + 1]
    BY <2>1
  <2>3. k.type = "DATA" /\ k.chunk + 1 < content[k.frame]
    BY <2>2 DEF HasMore
  <2>4. k.frame \in Frame
    <3>1. dataQ[c] \in Seq(Frame)
      BY <1>1 DEF TypeOK
    <3>2. QED
      BY <1>4, <2>3, <3>1 DEF Heads
  <2>5. content[k.frame] \in 0 .. MaxChunks
    BY <1>1, <2>4 DEF TypeOK
  <2>6. k.chunk \in 0 .. MaxChunks - 1
    BY <1>2 DEF Chunk
  <2>7. k.chunk + 1 \in 0 .. MaxChunks - 1
    BY <2>3, <2>5, <2>6, DataChunksFacts
  <2>8. rest = [type |-> "DATA", frame |-> k.frame, chunk |-> k.chunk + 1]
    BY <1>2, <2>2, <2>3 DEF Chunk
  <2>9. QED
    BY <2>4, <2>7, <2>8 DEF Chunk, ChunkOf
<1>6. /\ wrType'[c] = "NONE" /\ owed'[c] = rest
      /\ \A d \in Conn \ {c} : wrType'[d] = wrType[d] /\ owed'[d] = owed[d]
      /\ wrType' \in [Conn -> {"NONE", "CTRL", "DATA", "CHAFF"}]
      /\ owed' \in [Conn -> {None} \cup Chunk]
  BY <1>1, <1>5 DEF TypeOK
<1>7. sending'.conn = c /\ sending'.of = k /\ sending' # None
  BY RecordFacts
<1>8. TypeOK'
  <2>1. sending' \in {None} \cup [conn : Conn, of : Chunk]
    BY <1>1, <1>2
  <2>2. QED
    BY <1>1, <1>6, <2>1 DEF TypeOK
<1>9. SendInv'
  <2>1. HasMore(k)' <=> HasMore(k)
    BY DEF HasMore
  <2>2. rest # None => HasMore(k)'
    BY <2>1
  <2>3. /\ ctrlQ'[c] = ctrlQ[c] /\ dataQ'[c] = dataQ[c]
    OBVIOUS
  <2>4. QED
    BY <1>3, <1>4, <1>5, <1>6, <1>7, <2>2, <2>3 DEF SendInv
<1>10. OwedInv'
  <2>1. SUFFICES ASSUME NEW d \in Conn
                 PROVE  /\ lastChunk[d] > 0 => dataQ[d] # <<>>
                        /\ d \notin conn => owed'[d] = None
                        /\ \/ owed'[d] = None \/ d = c
                           \/ OwesCtrl(d)' \/ OwesData(d)' \/ OwesChaff(d)'
    BY <1>7 DEF OwedInv
  <2>2. CASE d = c
    BY <1>1, <2>2 DEF OwedInv
  <2>3. CASE d # c
    <3>1. UNCHANGED <<ctrlQ[d], dataQ[d], lastChunk[d], wrType[d], owed[d]>>
      BY <1>6, <2>3
    <3>2. QED
      BY <1>1, <3>1, OwesKept DEF OwedInv
  <2>4. QED
    BY <2>2, <2>3
<1>11. QED
  BY <1>8, <1>9, <1>10, SenderOnly

LEMMA TakenStep ==
  ASSUME FramesInv, NEW c \in Conn, Taken(c) \/ Fails(c)
  PROVE  FramesInv'
<1> DEFINE k == Picked(c)
           more == [k EXCEPT !.chunk = k.chunk + 1]
<1>1. /\ c \in conn /\ sending = None
      /\ wrType' = [wrType EXCEPT ![c] = "NONE"]
      /\ sending' = [conn |-> c, of |-> k]
      /\ UNCHANGED <<pool, content, ctrlQ, dataQ, lastChunk, conn, recvQ, tmp, tmpChunk, zombies,
                     closed, proxy>>
  BY DEF Taken, Fails, WriteTaken, WriteFails, proxyVars
<1>2. /\ Taken(c) => owed' = [owed EXCEPT ![c] = IF HasMore(k) THEN more ELSE None]
      /\ Fails(c) => owed' = [owed EXCEPT ![c] = None]
  BY DEF Taken, Fails, WriteTaken, WriteFails
<1> HIDE DEF k
<1>3. PICK rest \in {None} \cup {more} :
        (rest # None => HasMore(k)) /\ owed' = [owed EXCEPT ![c] = rest]
  <2>1. CASE HasMore(k) /\ Taken(c)
    BY <1>2, <2>1
  <2>2. CASE ~(HasMore(k) /\ Taken(c))
    BY <1>2, <2>2
  <2>3. QED
    BY <2>1, <2>2
<1>4. k = Picked(c)
  BY DEF k
<1>5. QED
  BY <1>1, <1>3, <1>4, OfferedStep

(* A frame that is done with leaves the head of its queue for the pool.     *)
LEMMA PopFacts ==
  ASSUME NEW q \in Seq(Frame), NEW f, Heads(f, q), IsInjective(q)
  PROVE  /\ Tail(q) \in Seq(Frame) /\ IsInjective(Tail(q))
         /\ f \in Frame /\ f \in ToSet(q) /\ ToSet(Tail(q)) = ToSet(q) \ {f}
<1>1. q # <<>> /\ Head(q) = f
  BY DEF Heads
<1>2. /\ Tail(q) \in Seq(Frame) /\ IsInjective(Tail(q))
      /\ ToSet(Tail(q)) = ToSet(q) \ {f}
  BY <1>1, TailSet
<1>3. f \in ToSet(q) /\ ToSet(q) \subseteq Frame
  BY <1>1, SetOfSeq
<1>4. QED
  BY <1>2, <1>3

(* What a frame leaves: its owner, and the pool's allocated ones.           *)
LEMMA OwnReleases ==
  ASSUME OwnInv, QueuesInjective', NEW o \in Owner, NEW f \in Owned[o],
         pool' = UnallocFrame(pool, f),
         \A p \in Owner \ {o} : Owned'[p] \subseteq Owned[p],
         Owned'[o] = Owned[o] \ {f}
  PROVE  OwnInv'
<1>1. PoolInv(pool') /\ pool'.alloc = pool.alloc \ {f}
  BY UnallocFacts DEF OwnInv
<1>2. \A p \in Owner \ {o} : f \notin Owned[p]
  BY DEF OwnInv, Exclusive
<1>3. \A p \in Owner : Owned'[p] \subseteq Owned[p] \ {f}
  BY <1>2
<1>4. QED
  BY <1>1, <1>3, OwnLoses

LEMMA SettledStep ==
  ASSUME FramesInv, Settled
  PROVE  FramesInv'
<1> DEFINE c == sending.conn
           k == sending.of
           f == k.frame
<1>1. /\ sending # None /\ sending' = None
      /\ ctrlQ' = IF k.type = "CTRL" THEN [ctrlQ EXCEPT ![c] = Tail(ctrlQ[c])] ELSE ctrlQ
      /\ dataQ' = IF k.type = "DATA" /\ ~HasMore(k) THEN [dataQ EXCEPT ![c] = Tail(dataQ[c])]
                  ELSE dataQ
      /\ lastChunk' = IF k.type = "DATA" THEN [lastChunk EXCEPT ![c] = ChunkAfter(k)]
                      ELSE lastChunk
      /\ pool' = IF k.type = "CHAFF" \/ HasMore(k) THEN pool ELSE UnallocFrame(pool, f)
      /\ UNCHANGED <<content, wrType, owed, conn, recvQ, tmp, tmpChunk, zombies, closed, proxy>>
  BY DEF Settled, Settle, proxyVars
<1>2. TypeOK /\ OwnInv /\ ReadInv /\ HandlerInv /\ SendInv /\ OwedInv
  BY DEF FramesInv
<1>3. /\ c \in Conn /\ k \in Chunk /\ k.type \in {"CTRL", "DATA", "CHAFF"}
      /\ k.type = "CTRL" => Heads(f, ctrlQ[c])
      /\ k.type = "DATA" => Heads(f, dataQ[c])
      /\ HasMore(k) => k.type = "DATA"
  <2>1. sending \in [conn : Conn, of : Chunk]
    BY <1>1, <1>2 DEF TypeOK
  <2>2. QED
    BY <1>1, <1>2, <2>1 DEF SendInv, HasMore, Chunk
<1>4. /\ owed[c] # None => HasMore(k) /\ owed[c] = ChunkOf("DATA", f, k.chunk + 1)
      /\ wrType[c] = "NONE"
  BY <1>1, <1>2 DEF SendInv
<1> HIDE DEF c, k, f
<1>5. /\ ctrlQ \in [Conn -> Seq(Frame)] /\ dataQ \in [Conn -> Seq(Frame)]
      /\ \A d \in Conn : IsInjective(ctrlQ[d]) /\ IsInjective(dataQ[d])
  BY <1>2 DEF TypeOK, OwnInv
<1>6. /\ ctrlQ' \in [Conn -> Seq(Frame)]
      /\ \A d \in Conn : IsInjective(ctrlQ'[d]) /\ ToSet(ctrlQ'[d]) \subseteq ToSet(ctrlQ[d])
      /\ \A d \in Conn \ {c} : ctrlQ'[d] = ctrlQ[d]
      /\ k.type = "CTRL" => f \in ToSet(ctrlQ[c]) /\ ToSet(ctrlQ'[c]) = ToSet(ctrlQ[c]) \ {f}
      /\ k.type # "CTRL" => ctrlQ' = ctrlQ
  <2>1. CASE k.type = "CTRL"
    <3>1. ctrlQ' = [ctrlQ EXCEPT ![c] = Tail(ctrlQ[c])] /\ Heads(f, ctrlQ[c])
      BY <1>1, <1>3, <2>1
    <3>2. /\ Tail(ctrlQ[c]) \in Seq(Frame) /\ IsInjective(Tail(ctrlQ[c]))
          /\ f \in ToSet(ctrlQ[c]) /\ ToSet(Tail(ctrlQ[c])) = ToSet(ctrlQ[c]) \ {f}
      BY <1>3, <1>5, <3>1, PopFacts
    <3>3. /\ ctrlQ' \in [Conn -> Seq(Frame)]
          /\ ctrlQ'[c] = Tail(ctrlQ[c]) /\ \A d \in Conn \ {c} : ctrlQ'[d] = ctrlQ[d]
      BY <1>3, <1>5, <3>1, <3>2
    <3>4. \A d \in Conn : IsInjective(ctrlQ'[d]) /\ ToSet(ctrlQ'[d]) \subseteq ToSet(ctrlQ[d])
      BY <1>5, <3>2, <3>3
    <3>5. QED
      BY <2>1, <3>2, <3>3, <3>4
  <2>2. CASE k.type # "CTRL"
    BY <1>1, <1>5, <2>2
  <2>3. QED
    BY <2>1, <2>2
<1>7. /\ dataQ' \in [Conn -> Seq(Frame)]
      /\ \A d \in Conn : IsInjective(dataQ'[d]) /\ ToSet(dataQ'[d]) \subseteq ToSet(dataQ[d])
      /\ \A d \in Conn \ {c} : dataQ'[d] = dataQ[d]
      /\ k.type = "DATA" /\ ~HasMore(k) =>
           f \in ToSet(dataQ[c]) /\ ToSet(dataQ'[c]) = ToSet(dataQ[c]) \ {f}
      /\ ~(k.type = "DATA" /\ ~HasMore(k)) => dataQ' = dataQ
  <2>1. CASE k.type = "DATA" /\ ~HasMore(k)
    <3>1. dataQ' = [dataQ EXCEPT ![c] = Tail(dataQ[c])] /\ Heads(f, dataQ[c])
      BY <1>1, <1>3, <2>1
    <3>2. /\ Tail(dataQ[c]) \in Seq(Frame) /\ IsInjective(Tail(dataQ[c]))
          /\ f \in ToSet(dataQ[c]) /\ ToSet(Tail(dataQ[c])) = ToSet(dataQ[c]) \ {f}
      BY <1>3, <1>5, <3>1, PopFacts
    <3>3. /\ dataQ' \in [Conn -> Seq(Frame)]
          /\ dataQ'[c] = Tail(dataQ[c]) /\ \A d \in Conn \ {c} : dataQ'[d] = dataQ[d]
      BY <1>3, <1>5, <3>1, <3>2
    <3>4. \A d \in Conn : IsInjective(dataQ'[d]) /\ ToSet(dataQ'[d]) \subseteq ToSet(dataQ[d])
      BY <1>5, <3>2, <3>3
    <3>5. QED
      BY <2>1, <3>2, <3>3, <3>4
  <2>2. CASE ~(k.type = "DATA" /\ ~HasMore(k))
    BY <1>1, <1>5, <2>2
  <2>3. QED
    BY <2>1, <2>2
<1>8. k.type = "DATA" => f \in Frame /\ dataQ[c] # <<>> /\ Head(dataQ[c]) = f
  BY <1>3, <1>5 DEF Heads
<1>9. HasMore(k) => k.chunk + 1 \in 0 .. MaxChunks - 1 /\ k.chunk + 1 > 0
  <2>1. HasMore(k) => content[f] \in 0 .. MaxChunks /\ k.chunk + 1 < content[f]
    BY <1>2, <1>3, <1>8 DEF TypeOK, HasMore, f
  <2>2. k.chunk \in 0 .. MaxChunks - 1
    BY <1>3 DEF Chunk
  <2>3. QED
    BY <2>1, <2>2, DataChunksFacts
<1>10. /\ lastChunk' \in [Conn -> 0 .. MaxChunks - 1]
       /\ \A d \in Conn \ {c} : lastChunk'[d] = lastChunk[d]
       /\ k.type = "DATA" => lastChunk'[c] = IF HasMore(k) THEN k.chunk + 1 ELSE 0
       /\ k.type # "DATA" => lastChunk' = lastChunk
  <2>1. lastChunk \in [Conn -> 0 .. MaxChunks - 1]
    BY <1>2 DEF TypeOK
  <2>2. ChunkAfter(k) = (IF HasMore(k) THEN k.chunk + 1 ELSE 0)
    BY DEF ChunkAfter
  <2>3. ChunkAfter(k) \in 0 .. MaxChunks - 1
    BY <1>9, <2>2, DataChunksFacts
  <2>4. QED
    BY <1>1, <1>3, <2>1, <2>2, <2>3
<1>11. QueuesInjective'
  BY <1>1, <1>2, <1>6, <1>7 DEF OwnInv, QueuesInjective
<1>12. \A d \in Conn : HalfRead(d)' => HalfRead(d) /\ tmp'[d] = tmp[d]
  BY <1>1 DEF HalfRead, Resumed
<1>13. \A p \in Owner : Owned'[p] \subseteq Owned[p]
  <2>1. \A p \in Owner \ {<<>>} : Owned'[p] \subseteq Owned[p]
    BY <1>1, <1>6, <1>7, <1>12, OwnedElse
  <2>2. <<>> \notin Owner
    BY DEF Owner
  <2>3. QED
    BY <2>1, <2>2
<1>14. OwnInv'
  <2>1. CASE k.type = "CTRL"
    <3>1. Owned[<<"ctrl", c>>] = ToSet(ctrlQ[c]) /\ Owned'[<<"ctrl", c>>] = ToSet(ctrlQ'[c])
      BY <1>3, OwnedFacts, OwnedFactsNext
    <3>2. f \in Owned[<<"ctrl", c>>] /\ Owned'[<<"ctrl", c>>] = Owned[<<"ctrl", c>>] \ {f}
      BY <1>6, <2>1, <3>1
    <3>3. pool' = UnallocFrame(pool, f) /\ <<"ctrl", c>> \in Owner
      BY <1>1, <1>3, <2>1, OwnerFacts
    <3>4. QED
      BY <1>2, <1>11, <1>13, <3>2, <3>3, OwnReleases
  <2>2. CASE k.type = "DATA" /\ ~HasMore(k)
    <3>1. Owned[<<"data", c>>] = ToSet(dataQ[c]) /\ Owned'[<<"data", c>>] = ToSet(dataQ'[c])
      BY <1>3, OwnedFacts, OwnedFactsNext
    <3>2. f \in Owned[<<"data", c>>] /\ Owned'[<<"data", c>>] = Owned[<<"data", c>>] \ {f}
      BY <1>7, <2>2, <3>1
    <3>3. pool' = UnallocFrame(pool, f) /\ <<"data", c>> \in Owner
      BY <1>1, <1>3, <2>2, OwnerFacts
    <3>4. QED
      BY <1>2, <1>11, <1>13, <3>2, <3>3, OwnReleases
  <2>3. CASE k.type = "CHAFF" \/ HasMore(k)
    <3>1. PoolInv(pool') /\ pool'.alloc = pool.alloc \ {}
      BY <1>1, <1>2, <2>3 DEF OwnInv
    <3>2. \A p \in Owner : Owned'[p] \subseteq Owned[p] \ {}
      BY <1>13
    <3>3. QED
      BY <1>2, <1>11, <3>1, <3>2, OwnLoses
  <2>4. QED
    BY <1>3, <2>1, <2>2, <2>3
<1>15. TypeOK'
  <2>1. pool' \in [free : Seq(Frame), alloc : SUBSET Frame]
    BY <1>14 DEF OwnInv, PoolInv
  <2>2. QED
    BY <1>1, <1>2, <1>6, <1>7, <1>10, <2>1 DEF TypeOK
<1>16. ReadInv' /\ HandlerInv'
  BY <1>1, <1>2, ReadKeeps DEF HandlerInv
<1>17. SendInv'
  BY <1>1 DEF SendInv
<1>18. OwedInv'
  <2>1. SUFFICES ASSUME NEW d \in Conn
                 PROVE  /\ lastChunk'[d] > 0 => dataQ'[d] # <<>>
                        /\ d \notin conn => owed[d] = None
                        /\ owed[d] = None \/ OwesCtrl(d)' \/ OwesData(d)' \/ OwesChaff(d)'
    BY <1>1 DEF OwedInv
  <2>2. CASE d = c
    <3>1. lastChunk'[c] > 0 => dataQ'[c] # <<>>
      <4>1. CASE k.type = "DATA"
        BY <1>7, <1>8, <1>10, <4>1
      <4>2. CASE k.type # "DATA"
        BY <1>2, <1>3, <1>7, <1>10, <4>2 DEF OwedInv
      <4>3. QED
        BY <4>1, <4>2
    <3>2. ASSUME owed[c] # None
          PROVE  OwesData(d)'
      <4>1. HasMore(k) /\ k.type = "DATA" /\ owed[c] = ChunkOf("DATA", f, k.chunk + 1)
        BY <1>3, <1>4, <3>2
      <4>2. lastChunk'[c] = k.chunk + 1 /\ lastChunk'[c] > 0 /\ dataQ'[c] = dataQ[c]
        BY <1>7, <1>9, <1>10, <4>1
      <4>3. /\ wrType'[d] = "NONE" /\ lastChunk'[d] > 0 /\ dataQ'[d] # <<>>
            /\ owed'[d] = ChunkOf("DATA", Head(dataQ'[d]), lastChunk'[d])
        BY <1>1, <1>4, <1>8, <2>2, <4>1, <4>2
      <4>4. QED
        BY <4>3 DEF OwesData
    <3>3. QED
      BY <1>2, <2>2, <3>1, <3>2 DEF OwedInv
  <2>3. CASE d # c
    <3>1. UNCHANGED <<ctrlQ[d], dataQ[d], lastChunk[d], wrType[d], owed[d]>>
      BY <1>1, <1>6, <1>7, <1>10, <2>3
    <3>2. sending.conn # d
      BY <2>3 DEF c
    <3>3. QED
      BY <1>2, <3>1, <3>2, OwesKept DEF OwedInv
  <2>4. QED
    BY <2>2, <2>3
<1>19. QED
  BY <1>14, <1>15, <1>16, <1>17, <1>18 DEF FramesInv

-----------------------------------------------------------------------------
(* The invariant.                                                           *)
LEMMA FramesInit ==
  ASSUME Init
  PROVE  FramesInv
<1>1. PoolInv(pool) /\ pool.alloc = {}
  BY NewPoolInv DEF Init
<1>2. \A c \in Conn : /\ ctrlQ[c] = <<>> /\ dataQ[c] = <<>> /\ recvQ[c] = <<>> /\ lastChunk[c] = 0
                      /\ owed[c] = None /\ tmpChunk[c] = -1
  BY DEF Init
<1>3. proxy.at = "select" /\ proxy.frame = NoFrame /\ proxy.due = {}
  BY IdleFacts DEF Init
<1>4. TypeOK
  <2>1. pool \in [free : Seq(Frame), alloc : SUBSET Frame]
    BY <1>1 DEF PoolInv
  <2>2. /\ <<>> \in Seq(Frame) /\ 0 \in 0 .. MaxChunks - 1 /\ -1 \in -1 .. MaxChunks - 1
        /\ 0 \in 0 .. MaxChunks
    BY DataChunksFacts
  <2>3. proxy \in [at : {"select", "orders", "round", "look", "sweep"},
                   frame : Frame \cup {NoFrame}, due : SUBSET Conn]
    BY DEF Init, Idle, At
  <2>4. QED
    BY <2>1, <2>2, <2>3 DEF Init, TypeOK
<1>5. OwnInv
  <2>1. QueuesInjective
    BY <1>2, SetOfEmpty DEF QueuesInjective
  <2>2. /\ \A c \in Conn : /\ Owned[<<"ctrl", c>>] = {} /\ Owned[<<"data", c>>] = {}
                           /\ Owned[<<"recv", c>>] = {} /\ Owned[<<"read", c>>] = {}
        /\ Owned[<<"handler">>] = {}
    BY <1>2, <1>3, SetOfEmpty, OwnedFacts DEF HalfRead, Resumed
  <2>3. \A o \in Owner : Owned[o] = {}
    BY <2>2, OwnerFacts
  <2>4. QED
    BY <1>1, <2>1, <2>3 DEF OwnInv, Exclusive, QueuesInjective
<1>6. ReadInv
  BY <1>2 DEF ReadInv, HalfRead, Resumed
<1>7. HandlerInv
  BY <1>3 DEF HandlerInv
<1>8. SendInv /\ OwedInv
  BY <1>2 DEF Init, SendInv, OwedInv
<1>9. QED
  BY <1>4, <1>5, <1>6, <1>7, <1>8 DEF FramesInv

LEMMA FramesStep ==
  ASSUME FramesInv, ~CliRaces, [Next]_vars
  PROVE  FramesInv'
<1>1. ASSUME NEW c \in Conn, Read(c)
      PROVE  FramesInv'
  BY <1>1, ReadPartStep, ReadFailsStep, ReadDataStep, ReadOtherStep DEF Read
<1>2. ASSUME NEW c \in Conn, LocalRead(c) \/ NewConnection(c) \/ Terminated(c) \/ Order(c)
      PROVE  FramesInv'
  BY <1>2, LocalReadStep, NewConnectionStep, TerminatedStep, OrderStep
<1>3. CASE OrdersDone \/ Round \/ Look \/ LocalReadsNothing
  BY <1>3, OrdersDoneStep, RoundStep, LookStep, LocalReadsNothingStep
<1>4. CASE Proxy
  BY <1>1, <1>2, <1>3, <1>4 DEF Proxy
<1>5. CASE Shaper
  BY <1>5, RefusedStep, TakenStep, SettledStep DEF Shaper
<1>6. ASSUME NEW c \in Conn, CliTsRate(c)
      PROVE  FramesInv'
  BY <1>6, CliTsRateStep
<1>7. CASE UNCHANGED vars
  <2>1. UNCHANGED <<pool, content, ctrlQ, dataQ, lastChunk, wrType, sending, owed, conn, recvQ,
                    tmp, tmpChunk, zombies, closed, proxy>>
    BY <1>7 DEF vars, senderVars, proxyVars
  <2>2. TypeOK /\ SendInv /\ OwedInv
    BY DEF FramesInv
  <2>3. TypeOK'
    BY <2>1, <2>2 DEF TypeOK
  <2>4. SendInv' /\ OwedInv'
    BY <2>1, <2>2, SenderKeeps
  <2>5. QED
    BY <2>1, <2>3, <2>4, SenderOnly
<1>8. QED
  BY <1>4, <1>5, <1>6, <1>7 DEF Next

(* The places of a frame that belong to owner o.                            *)
PlacesOf(o, f) ==
  CASE o[1] = "ctrl" -> {<<"ctrl", <<o[2], i>>>> : i \in {j \in DOMAIN ctrlQ[o[2]] : ctrlQ[o[2]][j] = f}}
    [] o[1] = "data" -> {<<"data", <<o[2], i>>>> : i \in {j \in DOMAIN dataQ[o[2]] : dataQ[o[2]][j] = f}}
    [] o[1] = "recv" -> {<<"recv", <<o[2], i>>>> : i \in {j \in DOMAIN recvQ[o[2]] : recvQ[o[2]][j] = f}}
    [] OTHER -> {o}

LEMMA PlacesFacts ==
  ASSUME NEW q, \A c \in Conn : q[c] \in Seq(Frame), NEW f, NEW x \in Places(q, f)
  PROVE  \E c \in Conn : \E i \in DOMAIN q[c] : x = <<c, i>> /\ q[c][i] = f /\ f \in ToSet(q[c])
<1>1. PICK c \in Conn : x \in {c} \X {i \in DOMAIN q[c] : q[c][i] = f}
  BY DEF Places
<1>2. PICK i \in DOMAIN q[c] : x = <<c, i>> /\ q[c][i] = f
  BY <1>1
<1>3. f \in ToSet(q[c])
  BY <1>2 DEF ToSet
<1>4. QED
  BY <1>2, <1>3

(* Who holds a frame in a place, owns it.                                   *)
LEMMA HolderFacts ==
  ASSUME TypeOK, NEW f \in Frame, NEW h \in Holders(f)
  PROVE  \E o \in Owner : f \in Owned[o] /\ h \in PlacesOf(o, f)
<1>1. /\ \A c \in Conn : ctrlQ[c] \in Seq(Frame) /\ dataQ[c] \in Seq(Frame) /\ recvQ[c] \in Seq(Frame)
  BY DEF TypeOK
<1>2. CASE h \in {"ctrl"} \X Places(ctrlQ, f)
  <2>1. PICK x \in Places(ctrlQ, f) : h = <<"ctrl", x>>
    BY <1>2
  <2>2. PICK c \in Conn : \E i \in DOMAIN ctrlQ[c] : x = <<c, i>> /\ ctrlQ[c][i] = f /\ f \in ToSet(ctrlQ[c])
    BY <1>1, PlacesFacts
  <2>3. f \in Owned[<<"ctrl", c>>] /\ <<"ctrl", c>> \in Owner
    BY <2>2, OwnerFacts, OwnedFacts
  <2>4. h \in PlacesOf(<<"ctrl", c>>, f)
    BY <2>1, <2>2 DEF PlacesOf
  <2>5. QED
    BY <2>3, <2>4
<1>3. CASE h \in {"data"} \X Places(dataQ, f)
  <2>1. PICK x \in Places(dataQ, f) : h = <<"data", x>>
    BY <1>3
  <2>2. PICK c \in Conn : \E i \in DOMAIN dataQ[c] : x = <<c, i>> /\ dataQ[c][i] = f /\ f \in ToSet(dataQ[c])
    BY <1>1, PlacesFacts
  <2>3. f \in Owned[<<"data", c>>] /\ <<"data", c>> \in Owner
    BY <2>2, OwnerFacts, OwnedFacts
  <2>4. h \in PlacesOf(<<"data", c>>, f)
    BY <2>1, <2>2 DEF PlacesOf
  <2>5. QED
    BY <2>3, <2>4
<1>4. CASE h \in {"recv"} \X Places(recvQ, f)
  <2>1. PICK x \in Places(recvQ, f) : h = <<"recv", x>>
    BY <1>4
  <2>2. PICK c \in Conn : \E i \in DOMAIN recvQ[c] : x = <<c, i>> /\ recvQ[c][i] = f /\ f \in ToSet(recvQ[c])
    BY <1>1, PlacesFacts
  <2>3. f \in Owned[<<"recv", c>>] /\ <<"recv", c>> \in Owner
    BY <2>2, OwnerFacts, OwnedFacts
  <2>4. h \in PlacesOf(<<"recv", c>>, f)
    BY <2>1, <2>2 DEF PlacesOf
  <2>5. QED
    BY <2>3, <2>4
<1>5. CASE h \in {"read"} \X {c \in Conn : HalfRead(c) /\ tmp[c] = f}
  <2>1. PICK c \in Conn : HalfRead(c) /\ tmp[c] = f /\ h = <<"read", c>>
    BY <1>5
  <2>2. f \in Owned[<<"read", c>>] /\ <<"read", c>> \in Owner
    BY <2>1, OwnerFacts, OwnedFacts
  <2>3. h \in PlacesOf(<<"read", c>>, f)
    BY <2>1 DEF PlacesOf
  <2>4. QED
    BY <2>2, <2>3
<1>6. CASE h \in {i \in {<<"handler">>} : InHandler(f)}
  <2>1. h = <<"handler">> /\ proxy.frame = f /\ content[f] = 0
    BY <1>6 DEF InHandler
  <2>2. f # NoFrame
    BY FrameFacts
  <2>3. f \in Owned[<<"handler">>] /\ <<"handler">> \in Owner
    BY <2>1, <2>2, OwnerFacts, OwnedFacts
  <2>4. h \in PlacesOf(<<"handler">>, f)
    BY <2>1 DEF PlacesOf
  <2>5. QED
    BY <2>3, <2>4
<1>7. QED
  BY <1>2, <1>3, <1>4, <1>5, <1>6 DEF Holders

(* A queue without repetitions has a frame in one place.                    *)
LEMMA OnePlace ==
  ASSUME OwnInv, NEW o \in Owner, NEW f, NEW h \in PlacesOf(o, f), NEW i \in PlacesOf(o, f)
  PROVE  h = i
<1>1. CASE \E c \in Conn : o = <<"ctrl", c>>
  <2>1. PICK c \in Conn : o = <<"ctrl", c>>
    BY <1>1
  <2>2. PlacesOf(o, f) = {<<"ctrl", <<c, j>>>> : j \in {k \in DOMAIN ctrlQ[c] : ctrlQ[c][k] = f}}
    BY <2>1 DEF PlacesOf
  <2>3. IsInjective(ctrlQ[c])
    BY DEF OwnInv
  <2>4. QED
    BY <2>2, <2>3 DEF IsInjective
<1>2. CASE \E c \in Conn : o = <<"data", c>>
  <2>1. PICK c \in Conn : o = <<"data", c>>
    BY <1>2
  <2>2. PlacesOf(o, f) = {<<"data", <<c, j>>>> : j \in {k \in DOMAIN dataQ[c] : dataQ[c][k] = f}}
    BY <2>1 DEF PlacesOf
  <2>3. IsInjective(dataQ[c])
    BY DEF OwnInv
  <2>4. QED
    BY <2>2, <2>3 DEF IsInjective
<1>3. CASE \E c \in Conn : o = <<"recv", c>>
  <2>1. PICK c \in Conn : o = <<"recv", c>>
    BY <1>3
  <2>2. PlacesOf(o, f) = {<<"recv", <<c, j>>>> : j \in {k \in DOMAIN recvQ[c] : recvQ[c][k] = f}}
    BY <2>1 DEF PlacesOf
  <2>3. IsInjective(recvQ[c])
    BY DEF OwnInv
  <2>4. QED
    BY <2>2, <2>3 DEF IsInjective
<1>4. CASE o = <<"handler">> \/ \E c \in Conn : o = <<"read", c>>
  <2>1. PlacesOf(o, f) = {o}
    BY <1>4 DEF PlacesOf
  <2>2. QED
    BY <2>1
<1>5. QED
  BY <1>1, <1>2, <1>3, <1>4, OwnerFacts

LEMMA HoldersFollow ==
  ASSUME FramesInv
  PROVE  FramesHaveOneHolder
<1>1. TypeOK /\ OwnInv /\ SendInv
  BY DEF FramesInv
<1>2. ASSUME NEW f \in Frame, NEW h \in Holders(f), NEW i \in Holders(f)
      PROVE  h = i /\ f \in pool.alloc
  <2>1. PICK o \in Owner : f \in Owned[o] /\ h \in PlacesOf(o, f)
    BY <1>1, HolderFacts
  <2>2. PICK p \in Owner : f \in Owned[p] /\ i \in PlacesOf(p, f)
    BY <1>1, HolderFacts
  <2>3. o = p
    BY <1>1, <2>1, <2>2 DEF OwnInv, Exclusive
  <2>4. h = i
    BY <1>1, <2>1, <2>2, <2>3, OnePlace
  <2>5. QED
    BY <1>1, <2>1, <2>4 DEF OwnInv
<1>3. QED
  BY <1>1, <1>2 DEF FramesHaveOneHolder, SendInv

LEMMA OwedFollows ==
  ASSUME FramesInv
  PROVE  OwedIsPicked
<1>1. SUFFICES ASSUME NEW c \in conn, owed[c] # None, sending = None
               PROVE  Picked(c) = owed[c]
  BY DEF OwedIsPicked
<1>2. c \in Conn
  BY DEF FramesInv, TypeOK
<1>3. QED
  BY <1>1, <1>2, PickedFacts

-----------------------------------------------------------------------------
LEMMA FramesAlways == ~CliRaces /\ Spec => []FramesInv
<1>1. Init => FramesInv
  BY FramesInit
<1>2. ~CliRaces /\ FramesInv /\ [Next]_vars => FramesInv'
  BY FramesStep
<1>3. CASE ~CliRaces
  <2>1. FramesInv /\ [Next]_vars => FramesInv'
    BY <1>2, <1>3
  <2>2. QED
    BY <1>1, <2>1, PTL DEF Spec
<1>4. CASE CliRaces
  BY <1>4
<1>5. QED
  BY <1>3, <1>4

(* The pool's frames, the queues, the reads and the chunks in hand keep     *)
(* their types: no queue of the bridge ever names a frame the pool has not  *)
(* made, and the place in a frame stays within it.                          *)
THEOREM FramesTypeCorrect == ~CliRaces /\ Spec => []TypeOK
<1>1. FramesInv => TypeOK
  BY DEF FramesInv
<1>2. QED
  BY <1>1, FramesAlways, PTL

(* A frame is in one place of the bridge at most and is not free then, and  *)
(* what the traffic shaping thread settles still heads its queue, as long   *)
(* as the CLI thread keeps out of the gap between a round and the last look *)
(* of the handler at its frame.                                             *)
THEOREM HolderCorrect == ~CliRaces /\ Spec => []FramesHaveOneHolder
BY FramesAlways, HoldersFollow, PTL

(* The thread offers TLS again what it has refused, and sends the chunks of *)
(* a frame one after the other, whatever is queued in between.              *)
THEOREM OwedCorrect == ~CliRaces /\ Spec => []OwedIsPicked
BY FramesAlways, OwedFollows, PTL

-----------------------------------------------------------------------------
(* Frames that nobody has any more: what a step takes from somebody goes    *)
(* back to the pool or to somebody else, but for the half-read frame of a   *)
(* connection that is removed.                                              *)
Held == UNION {Owned[o] : o \in Owner}

NoneLost ==
  \A f \in pool'.alloc \ Held' :
    \/ f \in pool.alloc \ Held
    \/ \E c \in zombies \ zombies' : tmp[c] = f

LEMMA OwnersHold ==
  ASSUME TypeOK, NEW f \in Frame
  PROVE  Holders(f) = {} <=> f \notin Held
<1>1. ASSUME Holders(f) # {}
      PROVE  f \in Held
  <2>1. PICK h \in Holders(f) : TRUE
    BY <1>1
  <2>2. QED
    BY <2>1, HolderFacts DEF Held
<1>2. ASSUME NEW o \in Owner, f \in Owned[o]
      PROVE  Holders(f) # {}
  <2>1. ASSUME NEW q, NEW c \in Conn, q[c] \in Seq(Frame), f \in ToSet(q[c])
        PROVE  Places(q, f) # {}
    <3>1. PICK i \in DOMAIN q[c] : q[c][i] = f
      BY <2>1 DEF ToSet
    <3>2. <<c, i>> \in Places(q, f)
      BY <3>1 DEF Places
    <3>3. QED
      BY <3>2
  <2>2. CASE \E c \in Conn : o = <<"ctrl", c>>
    <3>1. PICK c \in Conn : f \in ToSet(ctrlQ[c])
      BY <1>2, <2>2, OwnedFacts
    <3>2. PICK x \in Places(ctrlQ, f) : TRUE
      BY <2>1, <3>1 DEF TypeOK
    <3>3. <<"ctrl", x>> \in Holders(f)
      BY <3>2 DEF Holders
    <3>4. QED
      BY <3>3
  <2>3. CASE \E c \in Conn : o = <<"data", c>>
    <3>1. PICK c \in Conn : f \in ToSet(dataQ[c])
      BY <1>2, <2>3, OwnedFacts
    <3>2. PICK x \in Places(dataQ, f) : TRUE
      BY <2>1, <3>1 DEF TypeOK
    <3>3. <<"data", x>> \in Holders(f)
      BY <3>2 DEF Holders
    <3>4. QED
      BY <3>3
  <2>4. CASE \E c \in Conn : o = <<"recv", c>>
    <3>1. PICK c \in Conn : f \in ToSet(recvQ[c])
      BY <1>2, <2>4, OwnedFacts
    <3>2. PICK x \in Places(recvQ, f) : TRUE
      BY <2>1, <3>1 DEF TypeOK
    <3>3. <<"recv", x>> \in Holders(f)
      BY <3>2 DEF Holders
    <3>4. QED
      BY <3>3
  <2>5. CASE \E c \in Conn : o = <<"read", c>>
    <3>1. PICK c \in Conn : HalfRead(c) /\ tmp[c] = f
      BY <1>2, <2>5, OwnedFacts
    <3>2. <<"read", c>> \in Holders(f)
      BY <3>1 DEF Holders
    <3>3. QED
      BY <3>2
  <2>6. CASE o = <<"handler">>
    <3>1. InHandler(f)
      BY <1>2, <2>6, OwnedFacts DEF InHandler
    <3>2. <<"handler">> \in Holders(f)
      BY <3>1 DEF Holders
    <3>3. QED
      BY <3>2
  <2>7. QED
    BY <1>2, <2>2, <2>3, <2>4, <2>5, <2>6, OwnerFacts
<1>3. f \in Held => \E o \in Owner : f \in Owned[o]
  BY DEF Held
<1>4. QED
  BY <1>1, <1>2, <1>3

(* What everybody keeps in a step, the frames of F aside.                   *)
LEMMA KeptFacts ==
  ASSUME NEW F,
         \A d \in Conn : ToSet(ctrlQ[d]) \ F \subseteq ToSet(ctrlQ'[d]),
         \A d \in Conn : ToSet(dataQ[d]) \ F \subseteq ToSet(dataQ'[d]),
         \A d \in Conn : ToSet(recvQ[d]) \ F \subseteq ToSet(recvQ'[d]),
         \A d \in Conn : HalfRead(d) /\ tmp[d] \notin F => HalfRead(d)' /\ tmp'[d] = tmp[d],
         proxy.frame \notin F \cup {NoFrame} /\ content[proxy.frame] = 0 =>
           proxy'.frame = proxy.frame /\ content'[proxy.frame] = 0
  PROVE  \A p \in Owner : Owned[p] \ F \subseteq Owned'[p]
<1> SUFFICES ASSUME NEW p \in Owner
             PROVE  Owned[p] \ F \subseteq Owned'[p]
  OBVIOUS
<1>1. CASE \E d \in Conn : p = <<"ctrl", d>>
  <2>1. PICK d \in Conn : p = <<"ctrl", d>>
    BY <1>1
  <2>2. Owned[p] = ToSet(ctrlQ[d]) /\ Owned'[p] = ToSet(ctrlQ'[d])
    BY <2>1, OwnedFacts, OwnedFactsNext
  <2>3. QED
    BY <2>2
<1>2. CASE \E d \in Conn : p = <<"data", d>>
  <2>1. PICK d \in Conn : p = <<"data", d>>
    BY <1>2
  <2>2. Owned[p] = ToSet(dataQ[d]) /\ Owned'[p] = ToSet(dataQ'[d])
    BY <2>1, OwnedFacts, OwnedFactsNext
  <2>3. QED
    BY <2>2
<1>3. CASE \E d \in Conn : p = <<"recv", d>>
  <2>1. PICK d \in Conn : p = <<"recv", d>>
    BY <1>3
  <2>2. Owned[p] = ToSet(recvQ[d]) /\ Owned'[p] = ToSet(recvQ'[d])
    BY <2>1, OwnedFacts, OwnedFactsNext
  <2>3. QED
    BY <2>2
<1>4. CASE \E d \in Conn : p = <<"read", d>>
  <2>1. PICK d \in Conn : p = <<"read", d>>
    BY <1>4
  <2>2. /\ Owned[p] = {f \in {tmp[d]} : HalfRead(d)}
        /\ Owned'[p] = {f \in {tmp'[d]} : HalfRead(d)'}
    BY <2>1, OwnedFacts, OwnedFactsNext
  <2>3. QED
    BY <2>2
<1>5. CASE p = <<"handler">>
  BY <1>5, OwnedFacts, OwnedFactsNext
<1>6. QED
  BY <1>1, <1>2, <1>3, <1>4, <1>5, OwnerFacts

(* Nothing is lost when owner o has what is new and what F has still out.   *)
LEMMA NoneLostBy ==
  ASSUME NEW o \in Owner, NEW F,
         \A p \in Owner : Owned[p] \ F \subseteq Owned'[p],
         pool'.alloc \subseteq pool.alloc \cup Owned'[o],
         \A f \in F \cap pool'.alloc :
           f \in Owned'[o] \/ \E c \in zombies \ zombies' : tmp[c] = f
  PROVE  NoneLost
<1> SUFFICES ASSUME NEW f \in pool'.alloc \ Held'
             PROVE  f \in pool.alloc \ Held \/ \E c \in zombies \ zombies' : tmp[c] = f
  BY DEF NoneLost
<1>1. Held' = UNION {Owned'[p] : p \in Owner}
  BY DEF Held, Owner
<1>2. \A p \in Owner : f \notin Owned'[p]
  BY <1>1
<1>3. f \in pool.alloc
  BY <1>2
<1>4. CASE f \in F
  BY <1>2, <1>4
<1>5. CASE f \notin F
  BY <1>2, <1>3, <1>5 DEF Held
<1>6. QED
  BY <1>4, <1>5

LEMMA NoneLostReading ==
  ASSUME FramesInv, NEW c \in Conn, Read(c)
  PROVE  NoneLost
<1> DEFINE f == ReadFrame(c)
<1>1. /\ MayRead(c)
      /\ UNCHANGED <<ctrlQ, dataQ, conn>>
      /\ content \in [Frame -> 0 .. MaxChunks]
      /\ tmp \in [Conn -> Frame \cup {NoFrame}] /\ tmpChunk \in [Conn -> -1 .. MaxChunks - 1]
      /\ recvQ \in [Conn -> Seq(Frame)]
  BY DEF Read, ReadPart, ReadFails, ReadData, ReadOther, FramesInv, TypeOK
<1>2. /\ proxy.frame = NoFrame /\ c \in conn /\ c \notin closed
      /\ f \in Frame /\ PoolInv(ReadPool(c)) /\ ReadPool(c).alloc = pool.alloc \cup {f}
      /\ Owned[<<"read", c>>] \subseteq {f}
      /\ Resumed(c) => f = tmp[c]
  BY <1>1, ReadFacts, IdleFacts
<1>3. <<"read", c>> \in Owner /\ <<"recv", c>> \in Owner /\ <<"handler">> \in Owner
  BY OwnerFacts
<1>4. /\ \A d \in Conn : ToSet(ctrlQ[d]) \ {f} \subseteq ToSet(ctrlQ'[d])
      /\ \A d \in Conn : ToSet(dataQ[d]) \ {f} \subseteq ToSet(dataQ'[d])
  BY <1>1
<1>5. HalfRead(c) => tmp[c] = f
  BY <1>2 DEF HalfRead
<1>6. ASSUME UNCHANGED closed, \A d \in Conn \ {c} : tmp'[d] = tmp[d] /\ tmpChunk'[d] = tmpChunk[d]
      PROVE  \A d \in Conn : HalfRead(d) /\ tmp[d] \notin {f} => HalfRead(d)' /\ tmp'[d] = tmp[d]
  BY <1>1, <1>5, <1>6 DEF HalfRead, Resumed
<1>7. CASE ReadPart(c)
  <2>1. pool' = ReadPool(c) /\ UNCHANGED <<recvQ, closed, proxy>>
    BY <1>7 DEF ReadPart
  <2>2. \E k \in Nat : tmp' = [tmp EXCEPT ![c] = f] /\ tmpChunk' = [tmpChunk EXCEPT ![c] = k]
    <3>1. CASE \E n \in DataChunks : \E k \in 1 .. n - 1 : SetTmp(c, f, k)
      <4>1. PICK n \in DataChunks : \E k \in 1 .. n - 1 : SetTmp(c, f, k)
        BY <3>1
      <4>2. PICK k \in 1 .. n - 1 : SetTmp(c, f, k)
        BY <4>1
      <4>3. k \in Nat
        BY DataChunksFacts
      <4>4. QED
        BY <4>2, <4>3 DEF SetTmp
    <3>2. CASE SetTmp(c, f, 0)
      BY <3>2 DEF SetTmp
    <3>3. CASE tmpChunk[c] > 0 /\ \E k \in tmpChunk[c] .. content[tmp[c]] - 1 : SetTmp(c, tmp[c], k)
      <4>1. f = tmp[c] /\ tmpChunk[c] \in Nat /\ content[tmp[c]] \in 0 .. MaxChunks
        BY <1>1, <1>2, <3>3 DEF Resumed
      <4>2. PICK k \in tmpChunk[c] .. content[tmp[c]] - 1 : SetTmp(c, tmp[c], k)
        BY <3>3
      <4>3. k \in Nat
        BY <4>1, DataChunksFacts
      <4>4. QED
        BY <4>1, <4>2, <4>3 DEF SetTmp
    <3>4. QED
      BY <1>7, <3>1, <3>2, <3>3 DEF ReadPart
  <2>3. PICK k \in Nat : tmp' = [tmp EXCEPT ![c] = f] /\ tmpChunk' = [tmpChunk EXCEPT ![c] = k]
    BY <2>2
  <2> HIDE DEF f
  <2>4. /\ tmp'[c] = f /\ tmpChunk'[c] = k
        /\ \A d \in Conn \ {c} : tmp'[d] = tmp[d] /\ tmpChunk'[d] = tmpChunk[d]
    BY <1>1, <2>3
  <2>5. HalfRead(c)'
    BY <1>1, <1>2, <2>1, <2>4 DEF HalfRead, Resumed
  <2>6. f \in Owned'[<<"read", c>>]
    BY <2>4, <2>5, OwnedFactsNext
  <2>7. \A d \in Conn : HalfRead(d) /\ tmp[d] \notin {f} => HalfRead(d)' /\ tmp'[d] = tmp[d]
    BY <1>6, <2>1, <2>4
  <2>8. \A p \in Owner : Owned[p] \ {f} \subseteq Owned'[p]
    BY <1>2, <1>4, <2>1, <2>7, KeptFacts
  <2>9. QED
    BY <1>2, <1>3, <2>1, <2>6, <2>8, NoneLostBy
<1>8. CASE ReadFails(c)
  <2>1. /\ pool' = UnallocFrame(ReadPool(c), f) /\ closed' = closed \cup {c}
        /\ UNCHANGED <<recvQ, tmp, tmpChunk, proxy>>
    BY <1>8 DEF ReadFails
  <2>2. pool'.alloc = pool.alloc \ {f}
    <3> HIDE DEF f
    <3>1. pool'.alloc = ReadPool(c).alloc \ {f}
      BY <1>2, <2>1, UnallocFacts
    <3>2. QED
      BY <1>2, <3>1
  <2> HIDE DEF f
  <2>3. \A d \in Conn : HalfRead(d) /\ tmp[d] \notin {f} => HalfRead(d)' /\ tmp'[d] = tmp[d]
    BY <1>1, <1>5, <2>1 DEF HalfRead, Resumed
  <2>4. \A p \in Owner : Owned[p] \ {f} \subseteq Owned'[p]
    BY <1>2, <1>4, <2>1, <2>3, KeptFacts
  <2>5. QED
    BY <1>3, <2>2, <2>4, NoneLostBy
<1>9. CASE ReadData(c)
  <2>1. /\ pool' = ReadPool(c) /\ recvQ' = [recvQ EXCEPT ![c] = Append(recvQ[c], f)]
        /\ tmp' = [tmp EXCEPT ![c] = NoFrame] /\ tmpChunk' = [tmpChunk EXCEPT ![c] = -1]
        /\ closed' = closed
    BY <1>9 DEF ReadData, ClearTmp, SetTmp
  <2> HIDE DEF f
  <2>2. \A d \in Conn : HalfRead(d) /\ tmp[d] \notin {f} => HalfRead(d)' /\ tmp'[d] = tmp[d]
    BY <1>1, <1>6, <2>1
  <2>3. ToSet(Append(recvQ[c], f)) = ToSet(recvQ[c]) \cup {f}
    BY <1>1, <1>2, AppendSet
  <2>4. ToSet(recvQ'[c]) = ToSet(recvQ[c]) \cup {f} /\ \A d \in Conn \ {c} : recvQ'[d] = recvQ[d]
    BY <1>1, <2>1, <2>3
  <2>5. \A d \in Conn : ToSet(recvQ[d]) \ {f} \subseteq ToSet(recvQ'[d])
    BY <2>4
  <2>6. f \in Owned'[<<"recv", c>>]
    BY <2>4, OwnedFactsNext
  <2>7. \A p \in Owner : Owned[p] \ {f} \subseteq Owned'[p]
    BY <1>2, <1>4, <2>2, <2>5, KeptFacts
  <2>8. pool'.alloc = pool.alloc \cup {f}
    BY <1>2, <2>1
  <2>9. QED
    BY <1>3, <2>6, <2>7, <2>8, NoneLostBy
<1>10. CASE ReadOther(c)
  <2>1. /\ pool' = ReadPool(c) /\ content' = [content EXCEPT ![f] = 0]
        /\ tmp' = [tmp EXCEPT ![c] = NoFrame] /\ tmpChunk' = [tmpChunk EXCEPT ![c] = -1]
        /\ proxy'.frame = f
        /\ closed' = closed /\ recvQ' = recvQ
    BY <1>10, IdleFacts DEF ReadOther, ClearTmp, SetTmp
  <2> HIDE DEF f
  <2>2. \A d \in Conn : HalfRead(d) /\ tmp[d] \notin {f} => HalfRead(d)' /\ tmp'[d] = tmp[d]
    BY <1>1, <1>6, <2>1
  <2>3. f \in Owned'[<<"handler">>]
    <3>1. content'[f] = 0 /\ f # NoFrame
      BY <1>1, <1>2, <2>1, FrameFacts
    <3>2. QED
      BY <2>1, <3>1, OwnedFactsNext
  <2>4. \A p \in Owner : Owned[p] \ {f} \subseteq Owned'[p]
    BY <1>2, <1>4, <2>1, <2>2, KeptFacts
  <2>5. QED
    BY <1>2, <1>3, <2>1, <2>3, <2>4, NoneLostBy
<1>11. QED
  BY <1>7, <1>8, <1>9, <1>10 DEF Read

(* Orders and the data of Tor go to the end of a queue.                     *)
LEMMA NoneLostPushing ==
  ASSUME FramesInv, NEW c \in Conn, HasRoom(pool),
         pool' = AllocFrame(pool),
         NEW n, content' = [content EXCEPT ![NextFrame(pool)] = n],
         \/ /\ ctrlQ' = [ctrlQ EXCEPT ![c] = Append(ctrlQ[c], NextFrame(pool))]
            /\ dataQ' = dataQ
         \/ /\ dataQ' = [dataQ EXCEPT ![c] = Append(dataQ[c], NextFrame(pool))]
            /\ ctrlQ' = ctrlQ,
         proxy'.frame = proxy.frame,
         UNCHANGED <<conn, recvQ, tmp, tmpChunk, closed>>
  PROVE  NoneLost
<1> DEFINE f == NextFrame(pool)
<1>1. /\ f \in Frame /\ pool'.alloc = pool.alloc \cup {f}
      /\ \A p \in Owner : f \notin Owned[p]
  BY NextFacts
<1>2. proxy.frame # NoFrame /\ content[proxy.frame] = 0 => proxy.frame # f
  BY <1>1, NobodyHas
<1>3. /\ ctrlQ \in [Conn -> Seq(Frame)] /\ dataQ \in [Conn -> Seq(Frame)]
      /\ content \in [Frame -> 0 .. MaxChunks] /\ proxy.frame \in Frame \cup {NoFrame}
  BY DEF FramesInv, TypeOK
<1>4. \A r \in Seq(Frame) : ToSet(Append(r, f)) = ToSet(r) \cup {f}
  BY <1>1, AppendSet
<1>5. \/ /\ ctrlQ' = [ctrlQ EXCEPT ![c] = Append(ctrlQ[c], f)]
         /\ dataQ' = dataQ
      \/ /\ dataQ' = [dataQ EXCEPT ![c] = Append(dataQ[c], f)]
         /\ ctrlQ' = ctrlQ
  OBVIOUS
<1>6. content' = [content EXCEPT ![f] = n]
  OBVIOUS
<1> HIDE DEF f
<1>7. /\ \A d \in Conn : ToSet(ctrlQ[d]) \subseteq ToSet(ctrlQ'[d])
      /\ \A d \in Conn : ToSet(dataQ[d]) \subseteq ToSet(dataQ'[d])
      /\ f \in ToSet(ctrlQ'[c]) \/ f \in ToSet(dataQ'[c])
  <2>1. CASE ctrlQ' = [ctrlQ EXCEPT ![c] = Append(ctrlQ[c], f)] /\ dataQ' = dataQ
    <3>1. ctrlQ'[c] = Append(ctrlQ[c], f) /\ \A d \in Conn \ {c} : ctrlQ'[d] = ctrlQ[d]
      BY <1>3, <2>1
    <3>2. ToSet(ctrlQ'[c]) = ToSet(ctrlQ[c]) \cup {f}
      BY <1>3, <1>4, <3>1
    <3>3. QED
      BY <2>1, <3>1, <3>2
  <2>2. CASE dataQ' = [dataQ EXCEPT ![c] = Append(dataQ[c], f)] /\ ctrlQ' = ctrlQ
    <3>1. dataQ'[c] = Append(dataQ[c], f) /\ \A d \in Conn \ {c} : dataQ'[d] = dataQ[d]
      BY <1>3, <2>2
    <3>2. ToSet(dataQ'[c]) = ToSet(dataQ[c]) \cup {f}
      BY <1>3, <1>4, <3>1
    <3>3. QED
      BY <2>2, <3>1, <3>2
  <2>3. QED
    BY <1>5, <2>1, <2>2
<1>8. proxy.frame # NoFrame /\ content[proxy.frame] = 0 =>
        proxy'.frame = proxy.frame /\ content'[proxy.frame] = 0
  BY <1>2, <1>3, <1>6
<1>9. \A d \in Conn : HalfRead(d) => HalfRead(d)' /\ tmp'[d] = tmp[d]
  BY DEF HalfRead, Resumed
<1>10. \A p \in Owner : Owned[p] \ {} \subseteq Owned'[p]
  BY <1>7, <1>8, <1>9, KeptFacts
<1>11. \E o \in Owner : f \in Owned'[o]
  <2>1. Owned'[<<"ctrl", c>>] = ToSet(ctrlQ'[c]) /\ Owned'[<<"data", c>>] = ToSet(dataQ'[c])
    BY OwnedFactsNext
  <2>2. QED
    BY <1>7, <2>1, OwnerFacts
<1>12. PICK o \in Owner : f \in Owned'[o]
  BY <1>11
<1>13. pool'.alloc \subseteq pool.alloc \cup Owned'[o]
  BY <1>1, <1>12
<1>14. QED
  BY <1>10, <1>13, NoneLostBy

LEMMA NoneLostElse ==
  ASSUME FramesInv,
         \/ LocalReadsNothing \/ OrdersDone \/ UNCHANGED vars
         \/ \E c \in Conn : NewConnection(c) \/ Refused(c) \/ Taken(c) \/ Fails(c)
  PROVE  NoneLost
<1>1. UNCHANGED <<content, ctrlQ, dataQ, recvQ, tmp, tmpChunk, closed>> /\ conn \subseteq conn'
  BY DEF LocalReadsNothing, OrdersDone, NewConnection, Refused, WriteRefused, Taken, WriteTaken,
         Fails, WriteFails, vars, senderVars, proxyVars
<1>2. pool'.alloc \subseteq pool.alloc
  <2>1. CASE LocalReadsNothing
    <3>1. HasRoom(pool) /\ pool' = UnallocFrame(AllocFrame(pool), NextFrame(pool))
      BY <2>1 DEF LocalReadsNothing
    <3>2. PoolInv(AllocFrame(pool)) /\ AllocFrame(pool).alloc = pool.alloc \cup {NextFrame(pool)}
      BY <3>1, NextFacts
    <3>3. pool'.alloc = AllocFrame(pool).alloc \ {NextFrame(pool)}
      BY <3>1, <3>2, UnallocFacts
    <3>4. QED
      BY <3>2, <3>3
  <2>2. CASE ~LocalReadsNothing
    BY <2>2 DEF OrdersDone, NewConnection, Refused, WriteRefused, Taken, WriteTaken, Fails,
                WriteFails, vars, senderVars, proxyVars
  <2>3. QED
    BY <2>1, <2>2
<1>3. proxy'.frame = proxy.frame
  <2>1. CASE OrdersDone
    <3>1. CASE proxy.frame # NoFrame
      BY <2>1, <3>1 DEF OrdersDone, FramesInv, TypeOK
    <3>2. CASE proxy.frame = NoFrame
      BY <2>1, <3>2, IdleFacts DEF OrdersDone
    <3>3. QED
      BY <3>1, <3>2
  <2>2. CASE \E c \in Conn : NewConnection(c)
    BY <2>2, IdleFacts DEF NewConnection
  <2>3. CASE ~OrdersDone /\ ~\E c \in Conn : NewConnection(c)
    BY <2>3 DEF LocalReadsNothing, Refused, WriteRefused, Taken, WriteTaken, Fails, WriteFails,
                vars, senderVars, proxyVars
  <2>4. QED
    BY <2>1, <2>2, <2>3
<1>4. \A d \in Conn : HalfRead(d) => HalfRead(d)' /\ tmp'[d] = tmp[d]
  BY <1>1 DEF HalfRead, Resumed
<1>5. \A p \in Owner : Owned[p] \ {} \subseteq Owned'[p]
  BY <1>1, <1>3, <1>4, KeptFacts
<1>6. <<"handler">> \in Owner
  BY OwnerFacts
<1>7. QED
  BY <1>2, <1>5, <1>6, NoneLostBy

(* Who is removed may leave a half-read frame.                              *)
LEMMA NoneLostTerminated ==
  ASSUME FramesInv, NEW c \in Conn, Terminated(c)
  PROVE  NoneLost
<1> DEFINE F == Leftovers(c)
<1>1. /\ proxy.at \in {"select", "sweep"} /\ c \in zombies /\ zombies' = zombies \ {c}
      /\ pool' \in UnallocAll(pool, F)
      /\ conn' = conn \ {c} /\ closed' = closed \ {c}
      /\ ctrlQ' = [ctrlQ EXCEPT ![c] = <<>>] /\ dataQ' = [dataQ EXCEPT ![c] = <<>>]
      /\ recvQ' = [recvQ EXCEPT ![c] = <<>>]
      /\ tmp' = [tmp EXCEPT ![c] = NoFrame] /\ tmpChunk' = [tmpChunk EXCEPT ![c] = -1]
  BY DEF Terminated, ClearTmp, SetTmp
<1>2. TypeOK /\ PoolInv(pool) /\ proxy.frame = NoFrame
  BY <1>1 DEF FramesInv, OwnInv, HandlerInv
<1>3. pool'.alloc = pool.alloc \ F
  BY <1>1, <1>2, UnallocAllFacts
<1>4. /\ ToSet(ctrlQ[c]) \subseteq F /\ ToSet(dataQ[c]) \subseteq F /\ ToSet(recvQ[c]) \subseteq F
  BY DEF Leftovers
<1> HIDE DEF F
<1>5. \A d \in Conn \ {c} :
        /\ ctrlQ'[d] = ctrlQ[d] /\ dataQ'[d] = dataQ[d] /\ recvQ'[d] = recvQ[d]
        /\ tmp'[d] = tmp[d] /\ tmpChunk'[d] = tmpChunk[d]
  BY <1>1, <1>2 DEF TypeOK
<1> DEFINE G == F \cup {tmp[c]}
<1>6. /\ \A d \in Conn : ToSet(ctrlQ[d]) \ G \subseteq ToSet(ctrlQ'[d])
      /\ \A d \in Conn : ToSet(dataQ[d]) \ G \subseteq ToSet(dataQ'[d])
      /\ \A d \in Conn : ToSet(recvQ[d]) \ G \subseteq ToSet(recvQ'[d])
  BY <1>4, <1>5
<1>7. \A d \in Conn : HalfRead(d) /\ tmp[d] \notin G => HalfRead(d)' /\ tmp'[d] = tmp[d]
  BY <1>1, <1>5 DEF HalfRead, Resumed
<1>8. \A f \in G \cap pool'.alloc : \E d \in zombies \ zombies' : tmp[d] = f
  BY <1>1, <1>3
<1> HIDE DEF G
<1>9. \A p \in Owner : Owned[p] \ G \subseteq Owned'[p]
  BY <1>2, <1>6, <1>7, KeptFacts
<1>10. <<"handler">> \in Owner /\ pool'.alloc \subseteq pool.alloc
  BY <1>3, OwnerFacts
<1>11. QED
  BY <1>8, <1>9, <1>10, NoneLostBy

LEMMA NoneLostRound ==
  ASSUME FramesInv, Round
  PROVE  NoneLost
<1>1. PICK served \in SUBSET {d \in conn : recvQ[d] # <<>>} :
        /\ pool' \in UnallocAll(pool, {Head(recvQ[d]) : d \in served})
        /\ recvQ' = [d \in Conn |-> IF d \in served THEN Tail(recvQ[d]) ELSE recvQ[d]]
  BY DEF Round
<1> DEFINE F == {Head(recvQ[d]) : d \in served}
<1>2. /\ proxy' = [proxy EXCEPT !.at = "look"]
      /\ UNCHANGED <<content, ctrlQ, dataQ, conn, tmp, tmpChunk, closed>>
  BY DEF Round
<1>3. TypeOK /\ PoolInv(pool)
  BY DEF FramesInv, OwnInv
<1>4. pool'.alloc = pool.alloc \ F
  BY <1>1, <1>3, UnallocAllFacts
<1>5. \A d \in Conn : ToSet(recvQ[d]) \ F \subseteq ToSet(recvQ'[d])
  <2>1. SUFFICES ASSUME NEW d \in Conn, d \in served
                 PROVE  ToSet(recvQ[d]) \ F \subseteq ToSet(recvQ'[d])
    BY <1>1
  <2>2. recvQ[d] \in Seq(Frame) /\ recvQ[d] # <<>> /\ recvQ'[d] = Tail(recvQ[d])
    BY <1>1, <1>3, <2>1 DEF TypeOK
  <2>3. ToSet(recvQ[d]) = ToSet(recvQ'[d]) \cup {Head(recvQ[d])}
    BY <2>2, TailSet
  <2>4. QED
    BY <2>1, <2>3
<1> HIDE DEF F
<1>6. proxy'.frame = proxy.frame
  BY <1>2, <1>3 DEF TypeOK
<1>7. \A d \in Conn : HalfRead(d) => HalfRead(d)' /\ tmp'[d] = tmp[d]
  BY <1>2 DEF HalfRead, Resumed
<1>8. \A p \in Owner : Owned[p] \ F \subseteq Owned'[p]
  BY <1>2, <1>5, <1>6, <1>7, KeptFacts
<1>9. <<"handler">> \in Owner
  BY OwnerFacts
<1>10. QED
  BY <1>4, <1>8, <1>9, NoneLostBy

LEMMA NoneLostLook ==
  ASSUME FramesInv, Look
  PROVE  NoneLost
<1> DEFINE F == {g \in {proxy.frame} : content[g] = 0}
<1>1. /\ pool' = IF content[proxy.frame] = 0 THEN UnallocFrame(pool, proxy.frame) ELSE pool
      /\ UNCHANGED <<content, ctrlQ, dataQ, conn, recvQ, tmp, tmpChunk, closed>>
  BY DEF Look
<1>2. PoolInv(pool)
  BY DEF FramesInv, OwnInv
<1>3. pool'.alloc = pool.alloc \ F
  <2>1. CASE content[proxy.frame] = 0
    BY <1>1, <1>2, <2>1, UnallocFacts
  <2>2. CASE content[proxy.frame] # 0
    BY <1>1, <2>2
  <2>3. QED
    BY <2>1, <2>2
<1>4. content[proxy.frame] = 0 => proxy.frame \in F
  OBVIOUS
<1> HIDE DEF F
<1>5. \A d \in Conn : HalfRead(d) => HalfRead(d)' /\ tmp'[d] = tmp[d]
  BY <1>1 DEF HalfRead, Resumed
<1>6. \A p \in Owner : Owned[p] \ F \subseteq Owned'[p]
  BY <1>1, <1>4, <1>5, KeptFacts
<1>7. <<"handler">> \in Owner
  BY OwnerFacts
<1>8. QED
  BY <1>3, <1>6, <1>7, NoneLostBy

LEMMA NoneLostSettled ==
  ASSUME FramesInv, Settled
  PROVE  NoneLost
<1>1. TypeOK /\ SendInv /\ sending # None /\ PoolInv(pool)
  BY DEF FramesInv, OwnInv, Settled
<1> DEFINE c == sending.conn
           k == sending.of
           f == k.frame
<1>2. /\ ctrlQ' = IF k.type = "CTRL" THEN [ctrlQ EXCEPT ![c] = Tail(ctrlQ[c])] ELSE ctrlQ
      /\ dataQ' = IF k.type = "DATA" /\ ~HasMore(k) THEN [dataQ EXCEPT ![c] = Tail(dataQ[c])]
                  ELSE dataQ
      /\ pool' = IF k.type = "CHAFF" \/ HasMore(k) THEN pool ELSE UnallocFrame(pool, f)
      /\ UNCHANGED <<content, conn, recvQ, tmp, tmpChunk, closed, proxy>>
  BY DEF Settled, Settle, proxyVars
<1>3. /\ c \in Conn /\ k.type \in {"CTRL", "DATA", "CHAFF"}
      /\ k.type = "CTRL" => Heads(f, ctrlQ[c])
      /\ k.type = "DATA" => Heads(f, dataQ[c])
      /\ HasMore(k) => k.type = "DATA"
  <2>1. sending \in [conn : Conn, of : Chunk]
    BY <1>1 DEF TypeOK
  <2>2. QED
    BY <1>1, <2>1 DEF SendInv, HasMore, Chunk
<1> HIDE DEF c, k, f
<1> DEFINE F == {g \in {f} : ~(k.type = "CHAFF" \/ HasMore(k))}
<1>4. pool'.alloc = pool.alloc \ F
  <2>1. CASE k.type = "CHAFF" \/ HasMore(k)
    BY <1>2, <2>1
  <2>2. CASE ~(k.type = "CHAFF" \/ HasMore(k))
    BY <1>1, <1>2, <2>2, UnallocFacts
  <2>3. QED
    BY <2>1, <2>2
<1>5. \A d \in Conn : ToSet(ctrlQ[d]) \ F \subseteq ToSet(ctrlQ'[d])
  <2>1. CASE k.type = "CTRL"
    <3>1. ctrlQ[c] \in Seq(Frame) /\ ctrlQ[c] # <<>> /\ Head(ctrlQ[c]) = f /\ f \in F
      BY <1>1, <1>3, <2>1 DEF TypeOK, Heads
    <3>2. ToSet(ctrlQ[c]) = ToSet(Tail(ctrlQ[c])) \cup {f}
      BY <3>1, TailSet
    <3>3. ctrlQ'[c] = Tail(ctrlQ[c]) /\ \A d \in Conn \ {c} : ctrlQ'[d] = ctrlQ[d]
      BY <1>1, <1>2, <1>3, <2>1 DEF TypeOK
    <3> HIDE DEF F
    <3>4. QED
      BY <3>1, <3>2, <3>3
  <2>2. CASE k.type # "CTRL"
    BY <1>2, <2>2
  <2>3. QED
    BY <2>1, <2>2
<1>6. \A d \in Conn : ToSet(dataQ[d]) \ F \subseteq ToSet(dataQ'[d])
  <2>1. CASE k.type = "DATA" /\ ~HasMore(k)
    <3>1. dataQ[c] \in Seq(Frame) /\ dataQ[c] # <<>> /\ Head(dataQ[c]) = f /\ f \in F
      BY <1>1, <1>3, <2>1 DEF TypeOK, Heads
    <3>2. ToSet(dataQ[c]) = ToSet(Tail(dataQ[c])) \cup {f}
      BY <3>1, TailSet
    <3>3. dataQ'[c] = Tail(dataQ[c]) /\ \A d \in Conn \ {c} : dataQ'[d] = dataQ[d]
      BY <1>1, <1>2, <1>3, <2>1 DEF TypeOK
    <3> HIDE DEF F
    <3>4. QED
      BY <3>1, <3>2, <3>3
  <2>2. CASE ~(k.type = "DATA" /\ ~HasMore(k))
    BY <1>2, <2>2
  <2>3. QED
    BY <2>1, <2>2
<1> HIDE DEF F
<1>7. \A d \in Conn : HalfRead(d) => HalfRead(d)' /\ tmp'[d] = tmp[d]
  BY <1>2 DEF HalfRead, Resumed
<1>8. \A p \in Owner : Owned[p] \ F \subseteq Owned'[p]
  BY <1>2, <1>5, <1>6, <1>7, KeptFacts
<1>9. <<"handler">> \in Owner
  BY OwnerFacts
<1>10. QED
  BY <1>4, <1>8, <1>9, NoneLostBy

LEMMA LostStep ==
  ASSUME FramesInv, ~CliRaces, [Next]_vars
  PROVE  NoneLost
<1>1. ASSUME NEW c \in Conn, Order(c) \/ CliTsRate(c)
      PROVE  NoneLost
  <2>1. /\ HasRoom(pool) /\ pool' = AllocFrame(pool)
        /\ content' = [content EXCEPT ![NextFrame(pool)] = 0]
        /\ ctrlQ' = [ctrlQ EXCEPT ![c] = Append(ctrlQ[c], NextFrame(pool))]
        /\ UNCHANGED <<dataQ, conn, recvQ, tmp, tmpChunk, closed>>
    BY <1>1 DEF Order, CliTsRate, PushCtrl, proxyVars
  <2>2. proxy'.frame = proxy.frame
    BY <1>1 DEF Order, CliTsRate, proxyVars, FramesInv, TypeOK
  <2>3. QED
    BY <2>1, <2>2, NoneLostPushing
<1>2. ASSUME NEW c \in Conn, LocalRead(c)
      PROVE  NoneLost
  <2>1. /\ HasRoom(pool) /\ pool' = AllocFrame(pool)
        /\ dataQ' = [dataQ EXCEPT ![c] = Append(dataQ[c], NextFrame(pool))]
        /\ UNCHANGED <<ctrlQ, conn, recvQ, tmp, tmpChunk, closed, proxy>>
    BY <1>2 DEF LocalRead, proxyVars
  <2>2. PICK n \in DataChunks : content' = [content EXCEPT ![NextFrame(pool)] = n]
    BY <1>2 DEF LocalRead
  <2>3. QED
    BY <2>1, <2>2, NoneLostPushing
<1>3. ASSUME NEW c \in Conn, Read(c) \/ NewConnection(c) \/ Terminated(c)
      PROVE  NoneLost
  BY <1>3, NoneLostReading, NoneLostElse, NoneLostTerminated
<1>4. CASE OrdersDone \/ Round \/ Look \/ LocalReadsNothing \/ UNCHANGED vars
  BY <1>4, NoneLostElse, NoneLostRound, NoneLostLook
<1>5. CASE Shaper
  BY <1>5, NoneLostElse, NoneLostSettled DEF Shaper
<1>6. QED
  BY <1>1, <1>2, <1>3, <1>4, <1>5 DEF Next, Proxy

LostUnheld == Lost = pool.alloc \ Held

LEMMA LostIsUnheld == TypeOK => LostUnheld
BY OwnersHold DEF TypeOK, Lost, LostUnheld

(* Only the half-read frames of connections that are removed are lost to    *)
(* the pool: whatever else is taken from a queue, a read or a handler has   *)
(* gone back, or on to the next of them.                                    *)
THEOREM LossesCorrect == ~CliRaces /\ Spec => OnlyHalfReadFramesAreLost
<1>1. FramesInv => LostUnheld
  BY LostIsUnheld DEF FramesInv
<1>2. CASE ~CliRaces
  <2>1. FramesInv /\ LostUnheld /\ LostUnheld' /\ [Next]_vars =>
          [\A f \in Lost' : f \in Lost \/ \E c \in zombies \ zombies' : tmp[c] = f]_vars
    BY <1>2, LostStep DEF NoneLost, LostUnheld
  <2>2. QED
    BY <1>1, <1>2, <2>1, FramesAlways, PTL DEF Spec, OnlyHalfReadFramesAreLost
<1>3. CASE CliRaces
  BY <1>3
<1>4. QED
  BY <1>2, <1>3
=============================================================================
