----------------------------- MODULE TorK_proofs -----------------------------
(***************************************************************************)
(* Theorems about the bridge and its clients together, for every set of    *)
(* clients, every k_min and every number of commands: the composition      *)
(* implements the bridge, both ends of a channel come to agree, and no     *)
(* order is ignored by a client that has not crossed the bridge.           *)
(*                                                                         *)
(* One client is seen at a time, as four values: the bridge's state s for  *)
(* it, the queue q of frames for it, the state h of its own channel and    *)
(* the frames out that the bridge has not read.                            *)
(***************************************************************************)
EXTENDS TorK, ControllerServer_proofs

ClientFrame == {"HELLO", "ACTIVE", "INACTIVE", "SHUT", "CHANGE_OK", "GIVE_UP"}

(* A client that changes its circuit will be ACTIVE, on either side.        *)
Mirror(s) == IF s = "CHANGING" THEN "ACTIVE" ELSE s

(* The channels in which an order is obeyed, and what becomes of them.      *)
Accepts(type) ==
  CASE type = "HELLO_OK" -> {"HELLO"}
    [] type = "ACTIVE"   -> {"CONNECTED", "WAIT", "INACTIVE"}
    [] type = "WAIT"     -> {"CONNECTED", "ACTIVE", "INACTIVE"}
    [] type = "CHANGE"   -> {"ACTIVE"}
    [] OTHER             -> Channel

Effect(type) ==
  CASE type = "HELLO_OK" -> "CONNECTED"
    [] type = "ACTIVE"   -> "ACTIVE"
    [] type = "WAIT"     -> "WAIT"
    [] type = "CHANGE"   -> "ACTIVE"
    [] type = "INACTIVE" -> "INACTIVE"
    [] OTHER             -> "SHUT"

(* The state of a client that has declared something.                       *)
DeclaredState(type) ==
  CASE type = "HELLO" -> "HELLO"
    [] type = "SHUT"  -> "SHUT"
    [] OTHER          -> "INACTIVE"

NoOrder(q) == \A i \in 1 .. Len(q) : ~IsOrder(q[i])

NoDeclaration(out) == \A i \in 1 .. Len(out) : out[i] \notin Declaration

(* The order i is the last one before position j, or there is none.         *)
IsLastOrder(q, i, j) == IsOrder(q[i]) /\ \A m \in i + 1 .. j - 1 : ~IsOrder(q[m])

IsFirstOrder(q, j) == \A m \in 1 .. j - 1 : ~IsOrder(q[m])

(* Each order in the queue will find the channel as it accepts it.          *)
Obeyed(h, q) ==
  \A j \in 1 .. Len(q) :
    IsOrder(q[j]) =>
      /\ IsFirstOrder(q, j) => Mirror(h) \in Accepts(q[j])
      /\ \A i \in 1 .. j - 1 : IsLastOrder(q, i, j) => Effect(q[i]) \in Accepts(q[j])

(* A change of circuit has its order, its handler or its answer on the way. *)
Answered(s, q, h, out) ==
  s = "CHANGING" =>
    \/ h = "CHANGING"
    \/ \E i \in 1 .. Len(q) : q[i] = "CHANGE"
    \/ \E i \in 1 .. Len(out) : out[i] = "CHANGE_OK"

(* A client that gives up is ACTIVE on the bridge when this is read.        *)
GivesUpActive(s, out) ==
  \A i \in 1 .. Len(out) :
    out[i] = "GIVE_UP" =>
      s = "ACTIVE" \/ (s = "CHANGING" /\ \E j \in 1 .. i - 1 : out[j] = "CHANGE_OK")

(* The channel is as the newest declaration says.                           *)
IsNewestDeclaration(out, i) ==
  out[i] \in Declaration /\ \A j \in i + 1 .. Len(out) : out[j] \notin Declaration

Told(h, out) ==
  /\ ~NoDeclaration(out) => h \in {"HELLO", "SHUT", "INACTIVE"}
  /\ \A i \in 1 .. Len(out) : IsNewestDeclaration(out, i) => h = DeclaredState(out[i])

(* Both ends of a channel are in step: orders and declarations are not on   *)
(* their way together, and with neither both ends have the same state.      *)
InStep(s, q, h, out) ==
  /\ NoDeclaration(out) \/ (NoOrder(q) /\ h # "CHANGING")
  /\ NoOrder(q) /\ NoDeclaration(out) => Mirror(s) = Mirror(h)
  /\ Follows(s, q)
  /\ Obeyed(h, q)
  /\ Answered(s, q, h, out)
  /\ GivesUpActive(s, out)
  /\ Told(h, out)

AgreeInv ==
  \A c \in Client \ crossed :
    Connected(c) =>
      /\ c \in changing <=> chan[c] = "CHANGING"
      /\ InStep(state[c], ctrlQ[c], chan[c], sent[c])

(* Connections: who is there on one side is so on the other until it is     *)
(* swept, and without DATA no write to Tor fails.                           *)
LinkInv ==
  /\ chan \in [Client -> Channel \cup {"GONE"}]
  /\ changing \subseteq Client
  /\ sent \in [Client -> Seq(ClientFrame)]
  /\ \A c \in Client :
       /\ recvQ[c] = 0
       /\ Connected(c) => state[c] \in ClientState /\ c \notin zombies
       /\ ~Connected(c) => sent[c] = <<>> /\ c \notin changing

TorKInv == TypeOK /\ OrdersInv /\ LinkInv /\ AgreeInv

-----------------------------------------------------------------------------
(* Frames and states.                                                       *)
LEMMA Kinds ==
  /\ \A type \in CtrlType :
       IsOrder(type) <=> type \in {"HELLO_OK", "ACTIVE", "WAIT", "CHANGE", "INACTIVE", "SHUT_OK"}
  /\ \A type \in CtrlType : IsOrder(type) =>
       /\ OrderedState(type) \subseteq ClientState
       /\ Effect(type) # "CHANGING"
       /\ \A s \in OrderedState(type) : Mirror(s) = Effect(type)
BY DEF CtrlType, IsOrder, OrderedState, ClientState, Effect, Mirror

LEMMA QueueEnds ==
  ASSUME NEW S, NEW q \in Seq(S), NEW x \in S
  PROVE  /\ Append(q, x) \in Seq(S) /\ Len(Append(q, x)) = Len(q) + 1 /\ Len(q) \in Nat
         /\ Append(q, x)[Len(q) + 1] = x
         /\ \A i \in 1 .. Len(q) : Append(q, x)[i] = q[i] /\ q[i] \in S
         /\ q # <<>> => /\ Tail(q) \in Seq(S) /\ Len(q) = Len(Tail(q)) + 1
                        /\ Len(Tail(q)) \in Nat /\ Head(q) = q[1] /\ Head(q) \in S
                        /\ \A i \in 1 .. Len(Tail(q)) : Tail(q)[i] = q[i + 1]
OBVIOUS

-----------------------------------------------------------------------------
(* The bridge gives a client an order that it will accept.                  *)
LEMMA OrderObeyed ==
  ASSUME NEW q \in Seq(CtrlType), NEW type \in CtrlType, NEW s, NEW h,
         Obeyed(h, q), Follows(s, q), NoOrder(q) => Mirror(s) = Mirror(h),
         Mirror(s) \in Accepts(type)
  PROVE  Obeyed(h, Append(q, type))
<1> DEFINE r == Append(q, type)
<1>1. /\ Len(r) = Len(q) + 1 /\ Len(q) \in Nat /\ r[Len(q) + 1] = type
      /\ \A i \in 1 .. Len(q) : r[i] = q[i] /\ q[i] \in CtrlType
  BY QueueEnds
<1> HIDE DEF r
<1> SUFFICES ASSUME NEW j \in 1 .. Len(r), IsOrder(r[j])
             PROVE  /\ IsFirstOrder(r, j) => Mirror(h) \in Accepts(r[j])
                    /\ \A i \in 1 .. j - 1 :
                         IsLastOrder(r, i, j) => Effect(r[i]) \in Accepts(r[j])
  BY DEF Obeyed, r
<1>2. CASE j \in 1 .. Len(q)
  <2>1. \A i \in 1 .. j : r[i] = q[i]
    BY <1>1, <1>2
  <2>2. IsFirstOrder(r, j) => IsFirstOrder(q, j)
    BY <2>1, <1>2 DEF IsFirstOrder
  <2>3. \A i \in 1 .. j - 1 : IsLastOrder(r, i, j) => IsLastOrder(q, i, j)
    BY <2>1, <1>2 DEF IsLastOrder
  <2>4. QED
    BY <1>2, <2>1, <2>2, <2>3 DEF Obeyed
<1>3. CASE j = Len(q) + 1
  <2>1. IsFirstOrder(r, j) => NoOrder(q)
    BY <1>1, <1>3 DEF IsFirstOrder, NoOrder
  <2>2. ASSUME NEW i \in 1 .. j - 1, IsLastOrder(r, i, j)
        PROVE  Effect(r[i]) \in Accepts(r[j])
    <3>1. i \in 1 .. Len(q) /\ r[i] = q[i] /\ q[i] \in CtrlType
      BY <1>1, <1>3
    <3>2. IsNewestOrder(q, i)
      BY <1>1, <1>3, <2>2, <3>1 DEF IsLastOrder, IsNewestOrder
    <3>3. s \in OrderedState(q[i]) /\ IsOrder(q[i])
      BY <3>1, <3>2 DEF Follows, IsNewestOrder
    <3>4. Mirror(s) = Effect(q[i])
      BY <3>1, <3>3, Kinds
    <3>5. QED
      BY <1>1, <1>3, <3>1, <3>4
  <2>3. QED
    BY <1>1, <1>3, <2>1, <2>2
<1>4. QED
  BY <1>1, <1>2, <1>3

LEMMA NoticeObeyed ==
  ASSUME NEW q \in Seq(CtrlType), NEW type \in CtrlType, NEW h,
         Obeyed(h, q), ~IsOrder(type)
  PROVE  Obeyed(h, Append(q, type))
<1> DEFINE r == Append(q, type)
<1>1. /\ Len(r) = Len(q) + 1 /\ Len(q) \in Nat /\ r[Len(q) + 1] = type
      /\ \A i \in 1 .. Len(q) : r[i] = q[i]
  BY QueueEnds
<1> HIDE DEF r
<1> SUFFICES ASSUME NEW j \in 1 .. Len(r), IsOrder(r[j])
             PROVE  /\ IsFirstOrder(r, j) => Mirror(h) \in Accepts(r[j])
                    /\ \A i \in 1 .. j - 1 :
                         IsLastOrder(r, i, j) => Effect(r[i]) \in Accepts(r[j])
  BY DEF Obeyed, r
<1>2. j \in 1 .. Len(q) /\ \A i \in 1 .. j : r[i] = q[i]
  BY <1>1
<1>3. IsFirstOrder(r, j) => IsFirstOrder(q, j)
  BY <1>2 DEF IsFirstOrder
<1>4. \A i \in 1 .. j - 1 : IsLastOrder(r, i, j) => IsLastOrder(q, i, j)
  BY <1>2 DEF IsLastOrder
<1>5. QED
  BY <1>2, <1>3, <1>4 DEF Obeyed

(* The client hears the oldest frame.                                       *)
LEMMA HeardObeyed ==
  ASSUME NEW q \in Seq(CtrlType), q # <<>>, NEW h, NEW g, Obeyed(h, q),
         IF IsOrder(Head(q)) THEN Mirror(g) = Effect(Head(q)) ELSE g = h
  PROVE  Obeyed(g, Tail(q))
<1> DEFINE r == Tail(q)
<1>1. /\ Len(q) = Len(r) + 1 /\ Len(r) \in Nat /\ Head(q) = q[1]
      /\ \A i \in 1 .. Len(r) : r[i] = q[i + 1]
  BY QueueEnds
<1> HIDE DEF r
<1> SUFFICES ASSUME NEW j \in 1 .. Len(r), IsOrder(r[j])
             PROVE  /\ IsFirstOrder(r, j) => Mirror(g) \in Accepts(r[j])
                    /\ \A i \in 1 .. j - 1 :
                         IsLastOrder(r, i, j) => Effect(r[i]) \in Accepts(r[j])
  BY DEF Obeyed, r
<1>2. j + 1 \in 1 .. Len(q) /\ r[j] = q[j + 1] /\ IsOrder(q[j + 1])
  BY <1>1
<1>3. \A m \in 2 .. j : q[m] = r[m - 1] /\ m - 1 \in 1 .. j - 1
  BY <1>1
<1>4. ASSUME IsFirstOrder(r, j)
      PROVE  Mirror(g) \in Accepts(r[j])
  <2>1. \A m \in 2 .. j : ~IsOrder(q[m])
    BY <1>3, <1>4 DEF IsFirstOrder
  <2>2. CASE IsOrder(Head(q))
    <3>1. IsLastOrder(q, 1, j + 1)
      BY <1>1, <2>1, <2>2 DEF IsLastOrder
    <3>2. 1 \in 1 .. (j + 1) - 1
      OBVIOUS
    <3>3. Effect(q[1]) \in Accepts(q[j + 1])
      BY <1>2, <3>1, <3>2 DEF Obeyed
    <3>4. QED
      BY <1>1, <1>2, <2>2, <3>3
  <2>3. CASE ~IsOrder(Head(q))
    <3>1. IsFirstOrder(q, j + 1)
      BY <1>1, <2>1, <2>3 DEF IsFirstOrder
    <3>2. QED
      BY <1>2, <2>3, <3>1 DEF Obeyed
  <2>4. QED
    BY <2>2, <2>3
<1>5. ASSUME NEW i \in 1 .. j - 1, IsLastOrder(r, i, j)
      PROVE  Effect(r[i]) \in Accepts(r[j])
  <2>1. i + 1 \in 1 .. (j + 1) - 1 /\ r[i] = q[i + 1]
    BY <1>1
  <2>2. ASSUME NEW m \in (i + 1) + 1 .. (j + 1) - 1
        PROVE  ~IsOrder(q[m])
    <3>1. m - 1 \in i + 1 .. j - 1 /\ q[m] = r[m - 1]
      BY <1>3
    <3>2. QED
      BY <1>5, <3>1 DEF IsLastOrder
  <2>3. IsLastOrder(q, i + 1, j + 1)
    BY <1>5, <2>1, <2>2 DEF IsLastOrder
  <2>4. QED
    BY <1>2, <2>1, <2>3 DEF Obeyed
<1>6. QED
  BY <1>4, <1>5

LEMMA HeadAccepted ==
  ASSUME NEW q \in Seq(CtrlType), q # <<>>, NEW h, Obeyed(h, q), IsOrder(Head(q))
  PROVE  Mirror(h) \in Accepts(Head(q))
<1>1. 1 \in 1 .. Len(q) /\ q[1] = Head(q) /\ IsFirstOrder(q, 1)
  BY QueueEnds DEF IsFirstOrder
<1>2. QED
  BY <1>1 DEF Obeyed

-----------------------------------------------------------------------------
(* The frames that are no declarations say nothing of the channel.          *)
LEMMA Undeclared ==
  ASSUME NEW s, NEW h, NEW out, NoDeclaration(out)
  PROVE  GivesUpActive(s, out) /\ Told(h, out)
BY DEF NoDeclaration, Declaration, GivesUpActive, Told, IsNewestDeclaration

(* An order and a notice as they enter the queue.                           *)
LEMMA PushKinds ==
  ASSUME NEW q \in Seq(CtrlType), NEW type \in CtrlType
  PROVE  /\ NoOrder(Append(q, type)) <=> NoOrder(q) /\ ~IsOrder(type)
         /\ (\E i \in 1 .. Len(q) : q[i] = "CHANGE") \/ type = "CHANGE" =>
              \E i \in 1 .. Len(Append(q, type)) : Append(q, type)[i] = "CHANGE"
<1> DEFINE r == Append(q, type)
<1>1. /\ Len(r) = Len(q) + 1 /\ Len(q) \in Nat /\ r[Len(q) + 1] = type
      /\ \A i \in 1 .. Len(q) : r[i] = q[i]
  BY QueueEnds
<1> HIDE DEF r
<1>2. NoOrder(r) <=> NoOrder(q) /\ ~IsOrder(type)
  BY <1>1 DEF NoOrder
<1>3. ASSUME NEW i \in 1 .. Len(q), q[i] = "CHANGE"
      PROVE  i \in 1 .. Len(r) /\ r[i] = "CHANGE"
  BY <1>1, <1>3
<1>4. Len(q) + 1 \in 1 .. Len(r)
  BY <1>1
<1>5. QED
  BY <1>1, <1>2, <1>3, <1>4 DEF r

LEMMA NoticeKinds ==
  ASSUME NEW q \in Seq(CtrlType), NEW r,
         r = q \/ \E type \in CtrlType : ~IsOrder(type) /\ r = Append(q, type)
  PROVE  NoOrder(r) <=> NoOrder(q)
BY PushKinds

(* The bridge orders t, which a client in step accepts.                     *)
LEMMA PushOrder ==
  ASSUME NEW q \in Seq(CtrlType), NEW type \in CtrlType, NEW s, NEW t, NEW h, NEW out,
         InStep(s, q, h, out), NoDeclaration(out), IsOrder(type),
         Mirror(s) \in Accepts(type), t \in OrderedState(type),
         t = "CHANGING" => type = "CHANGE"
  PROVE  InStep(t, Append(q, type), h, out)
<1>1. ~NoOrder(Append(q, type)) /\ Follows(t, Append(q, type))
  BY PushKinds, OrderFollows
<1>2. Obeyed(h, Append(q, type))
  <2>1. /\ Obeyed(h, q) /\ Follows(s, q)
        /\ NoOrder(q) => Mirror(s) = Mirror(h)
    BY DEF InStep
  <2>2. QED
    BY <2>1, OrderObeyed
<1>3. Answered(t, Append(q, type), h, out)
  BY PushKinds DEF Answered
<1>4. QED
  BY <1>1, <1>2, <1>3, Undeclared DEF InStep

LEMMA PushNotice ==
  ASSUME NEW q \in Seq(CtrlType), NEW type \in CtrlType, NEW s, NEW h, NEW out,
         InStep(s, q, h, out), ~IsOrder(type)
  PROVE  InStep(s, Append(q, type), h, out)
<1>1. /\ NoOrder(Append(q, type)) <=> NoOrder(q)
      /\ Answered(s, q, h, out) => Answered(s, Append(q, type), h, out)
  BY PushKinds DEF Answered
<1>2. Follows(s, q) /\ Obeyed(h, q)
  BY DEF InStep
<1>3. Follows(s, Append(q, type)) /\ Obeyed(h, Append(q, type))
  BY <1>2, OtherFollows, NoticeObeyed
<1>4. QED
  BY <1>1, <1>3 DEF InStep

-----------------------------------------------------------------------------
(* The bridge reads the oldest frame of a client that says nothing of the   *)
(* channel.                                                                 *)
LEMMA TailSays ==
  ASSUME NEW out \in Seq(ClientFrame), out # <<>>, NEW h, Told(h, out)
  PROVE  /\ Told(h, Tail(out))
         /\ Head(out) \notin Declaration => (NoDeclaration(Tail(out)) <=> NoDeclaration(out))
         /\ Head(out) \in Declaration /\ NoDeclaration(Tail(out)) => h = DeclaredState(Head(out))
<1> DEFINE r == Tail(out)
<1>1. /\ Len(out) = Len(r) + 1 /\ Len(r) \in Nat /\ Head(out) = out[1]
      /\ \A i \in 1 .. Len(r) : r[i] = out[i + 1]
  BY QueueEnds
<1> HIDE DEF r
<1>2. \A j \in 2 .. Len(out) : out[j] = r[j - 1] /\ j - 1 \in 1 .. Len(r)
  BY <1>1
<1>3. NoDeclaration(out) => NoDeclaration(r)
  BY <1>1 DEF NoDeclaration
<1>4. Head(out) \notin Declaration /\ NoDeclaration(r) => NoDeclaration(out)
  BY <1>1, <1>2 DEF NoDeclaration
<1>5. ASSUME NEW i \in 1 .. Len(r), IsNewestDeclaration(r, i)
      PROVE  h = DeclaredState(r[i])
  <2>1. i + 1 \in 1 .. Len(out) /\ out[i + 1] = r[i]
    BY <1>1
  <2>2. ASSUME NEW j \in (i + 1) + 1 .. Len(out)
        PROVE  out[j] \notin Declaration
    <3>1. j - 1 \in i + 1 .. Len(r) /\ out[j] = r[j - 1]
      BY <1>1, <1>2
    <3>2. QED
      BY <1>5, <3>1 DEF IsNewestDeclaration
  <2>3. IsNewestDeclaration(out, i + 1)
    BY <1>5, <2>1, <2>2 DEF IsNewestDeclaration
  <2>4. QED
    BY <2>1, <2>3 DEF Told
<1>6. Told(h, r)
  BY <1>3, <1>5 DEF Told
<1>7. ASSUME Head(out) \in Declaration, NoDeclaration(r)
      PROVE  h = DeclaredState(Head(out))
  <2>1. IsNewestDeclaration(out, 1) /\ 1 \in 1 .. Len(out)
    BY <1>1, <1>2, <1>7 DEF IsNewestDeclaration, NoDeclaration
  <2>2. QED
    BY <1>1, <2>1 DEF Told
<1>8. QED
  BY <1>3, <1>4, <1>6, <1>7 DEF r

LEMMA ReadRequest ==
  ASSUME NEW q \in Seq(CtrlType), NEW s, NEW h, NEW out \in Seq(ClientFrame),
         out # <<>>, Head(out) \in {"ACTIVE", "INACTIVE"}, InStep(s, q, h, out)
  PROVE  InStep(s, q, h, Tail(out))
<1> DEFINE r == Tail(out)
<1>1. /\ Len(out) = Len(r) + 1 /\ Len(r) \in Nat /\ Head(out) = out[1]
      /\ \A i \in 1 .. Len(r) : r[i] = out[i + 1]
  BY QueueEnds
<1>2. Told(h, r) /\ (NoDeclaration(r) <=> NoDeclaration(out))
  BY TailSays DEF InStep, Declaration
<1> HIDE DEF r
<1>3. ASSUME NEW j \in 1 .. Len(out), out[j] = "CHANGE_OK"
      PROVE  j - 1 \in 1 .. Len(r) /\ r[j - 1] = "CHANGE_OK"
  BY <1>1, <1>3
<1>4. Answered(s, q, h, out) => Answered(s, q, h, r)
  BY <1>3 DEF Answered
<1>5. ASSUME NEW i \in 1 .. Len(r), r[i] = "GIVE_UP", GivesUpActive(s, out), s # "ACTIVE"
      PROVE  s = "CHANGING" /\ \E j \in 1 .. i - 1 : r[j] = "CHANGE_OK"
  <2>1. i + 1 \in 1 .. Len(out) /\ out[i + 1] = "GIVE_UP"
    BY <1>1, <1>5
  <2>2. PICK j \in 1 .. (i + 1) - 1 : out[j] = "CHANGE_OK" /\ s = "CHANGING"
    BY <1>5, <2>1 DEF GivesUpActive
  <2>3. j - 1 \in 1 .. i - 1 /\ r[j - 1] = "CHANGE_OK"
    BY <1>1, <1>3, <2>2
  <2>4. QED
    BY <2>2, <2>3
<1>6. GivesUpActive(s, out) => GivesUpActive(s, r)
  BY <1>5 DEF GivesUpActive
<1>7. QED
  BY <1>2, <1>4, <1>6 DEF InStep, r

LEMMA ReadChangeOk ==
  ASSUME NEW q \in Seq(CtrlType), NEW s, NEW h, NEW out \in Seq(ClientFrame),
         out # <<>>, Head(out) = "CHANGE_OK", InStep(s, q, h, out)
  PROVE  InStep(Mirror(s), q, h, Tail(out))
<1> DEFINE r == Tail(out)
<1>1. /\ Len(out) = Len(r) + 1 /\ Len(r) \in Nat
      /\ \A i \in 1 .. Len(r) : r[i] = out[i + 1]
  BY QueueEnds
<1>2. Told(h, r) /\ (NoDeclaration(r) <=> NoDeclaration(out))
  BY TailSays DEF InStep, Declaration
<1> HIDE DEF r
<1>3. Mirror(Mirror(s)) = Mirror(s) /\ Mirror(s) # "CHANGING"
  BY DEF Mirror
<1>4. Follows(Mirror(s), q)
  BY ChangeOkFollows DEF InStep, Mirror
<1>5. GivesUpActive(Mirror(s), r)
  <2>1. ASSUME NEW i \in 1 .. Len(r), r[i] = "GIVE_UP"
        PROVE  Mirror(s) = "ACTIVE"
    <3>1. i + 1 \in 1 .. Len(out) /\ out[i + 1] = "GIVE_UP"
      BY <1>1, <2>1
    <3>2. s = "ACTIVE" \/ s = "CHANGING"
      BY <3>1 DEF InStep, GivesUpActive
    <3>3. QED
      BY <3>2 DEF Mirror
  <2>2. QED
    BY <2>1 DEF GivesUpActive
<1>6. QED
  BY <1>2, <1>3, <1>4, <1>5 DEF InStep, Answered, r

(* The bridge reads what the client has made itself, and confirms it.       *)
LEMMA ReadDeclaration ==
  ASSUME NEW q \in Seq(CtrlType), NEW s, NEW h, NEW out \in Seq(ClientFrame),
         NEW type \in CtrlType, NEW t,
         out # <<>>, Head(out) \in Declaration, InStep(s, q, h, out),
         NoDeclaration(Tail(out)), IsOrder(type), t \in OrderedState(type),
         t # "CHANGING", DeclaredState(Head(out)) \in Accepts(type)
  PROVE  InStep(t, Append(q, type), h, Tail(out))
<1>1. h = DeclaredState(Head(out)) /\ h # "CHANGING"
  BY TailSays DEF InStep, DeclaredState
<1>2. ~NoDeclaration(out)
  BY QueueEnds DEF NoDeclaration
<1>3. NoOrder(q)
  BY <1>2 DEF InStep
<1>4. Follows(h, q) /\ Obeyed(h, q)
  BY <1>3 DEF NoOrder, Follows, IsNewestOrder, Obeyed
<1>5. Mirror(h) \in Accepts(type)
  BY <1>1 DEF Mirror
<1>6. Obeyed(h, Append(q, type)) /\ Follows(t, Append(q, type))
  BY <1>4, <1>5, OrderObeyed, OrderFollows
<1>7. ~NoOrder(Append(q, type)) /\ Answered(t, Append(q, type), h, Tail(out))
  BY PushKinds DEF Answered
<1>8. QED
  BY <1>6, <1>7, Undeclared DEF InStep

-----------------------------------------------------------------------------
(* The client hears the oldest frame for it.                                *)
LEMMA TailKinds ==
  ASSUME NEW q \in Seq(CtrlType), q # <<>>
  PROVE  /\ NoOrder(q) <=> NoOrder(Tail(q)) /\ ~IsOrder(Head(q))
         /\ Head(q) # "CHANGE" /\ (\E i \in 1 .. Len(q) : q[i] = "CHANGE") =>
              \E i \in 1 .. Len(Tail(q)) : Tail(q)[i] = "CHANGE"
         /\ NoOrder(Tail(q)) /\ IsOrder(Head(q)) => IsNewestOrder(q, 1) /\ 1 \in 1 .. Len(q)
         /\ Head(q) = q[1] /\ Head(q) \in CtrlType
<1> DEFINE r == Tail(q)
<1>1. /\ Len(q) = Len(r) + 1 /\ Len(r) \in Nat /\ Head(q) = q[1] /\ Head(q) \in CtrlType
      /\ \A i \in 1 .. Len(r) : r[i] = q[i + 1]
  BY QueueEnds
<1> HIDE DEF r
<1>2. \A j \in 2 .. Len(q) : q[j] = r[j - 1] /\ j - 1 \in 1 .. Len(r)
  BY <1>1
<1>3. NoOrder(q) => NoOrder(r) /\ ~IsOrder(Head(q))
  BY <1>1 DEF NoOrder
<1>4. ASSUME NoOrder(r)
      PROVE  \A j \in 2 .. Len(q) : ~IsOrder(q[j])
  BY <1>2, <1>4 DEF NoOrder
<1>5. NoOrder(r) /\ ~IsOrder(Head(q)) => NoOrder(q)
  BY <1>1, <1>4 DEF NoOrder
<1>6. ASSUME NEW i \in 1 .. Len(q), q[i] = "CHANGE", Head(q) # "CHANGE"
      PROVE  i - 1 \in 1 .. Len(r) /\ r[i - 1] = "CHANGE"
  BY <1>1, <1>2, <1>6
<1>7. NoOrder(r) /\ IsOrder(Head(q)) => IsNewestOrder(q, 1) /\ 1 \in 1 .. Len(q)
  BY <1>1, <1>4 DEF IsNewestOrder
<1>8. QED
  BY <1>1, <1>3, <1>5, <1>6, <1>7 DEF r

(* An order, which brings the channel to g.                                 *)
LEMMA HearOrder ==
  ASSUME NEW q \in Seq(CtrlType), NEW s, NEW h, NEW g, NEW out,
         q # <<>>, IsOrder(Head(q)), InStep(s, q, h, out), h # "CHANGING",
         Mirror(g) = Effect(Head(q)), Head(q) = "CHANGE" => g = "CHANGING"
  PROVE  InStep(s, Tail(q), g, out)
<1>1. ~NoOrder(q) /\ NoDeclaration(out)
  BY TailKinds DEF InStep
<1>2. Follows(s, Tail(q)) /\ Obeyed(g, Tail(q))
  BY TailFollows, HeardObeyed DEF InStep
<1>3. ASSUME NoOrder(Tail(q))
      PROVE  Mirror(s) = Mirror(g)
  <2>1. s \in OrderedState(q[1])
    BY <1>3, TailKinds DEF InStep, Follows
  <2>2. QED
    BY <2>1, TailKinds, Kinds
<1>4. Answered(s, Tail(q), g, out)
  BY TailKinds DEF InStep, Answered
<1>5. QED
  BY <1>1, <1>2, <1>3, <1>4, Undeclared DEF InStep

LEMMA HearNotice ==
  ASSUME NEW q \in Seq(CtrlType), NEW s, NEW h, NEW out,
         q # <<>>, ~IsOrder(Head(q)), InStep(s, q, h, out)
  PROVE  InStep(s, Tail(q), h, out)
<1>1. NoOrder(Tail(q)) <=> NoOrder(q)
  BY TailKinds
<1>2. Follows(s, Tail(q)) /\ Obeyed(h, Tail(q))
  BY TailFollows, HeardObeyed DEF InStep
<1>3. Head(q) # "CHANGE"
  BY DEF IsOrder
<1>4. Answered(s, q, h, out) => Answered(s, Tail(q), h, out)
  BY <1>3, TailKinds DEF Answered
<1>5. QED
  BY <1>1, <1>2, <1>4 DEF InStep

-----------------------------------------------------------------------------
(* The client sends something.                                              *)
LEMMA SendKinds ==
  ASSUME NEW out \in Seq(ClientFrame), NEW type \in ClientFrame
  PROVE  NoDeclaration(Append(out, type)) <=> NoDeclaration(out) /\ type \notin Declaration
BY QueueEnds DEF NoDeclaration

LEMMA SendSays ==
  ASSUME NEW out \in Seq(ClientFrame), NEW type \in ClientFrame, NEW s, NEW h
  PROVE  /\ (\E i \in 1 .. Len(out) : out[i] = "CHANGE_OK") \/ type = "CHANGE_OK" =>
              \E i \in 1 .. Len(Append(out, type)) : Append(out, type)[i] = "CHANGE_OK"
         /\ GivesUpActive(s, out) /\ type # "GIVE_UP" => GivesUpActive(s, Append(out, type))
         /\ /\ GivesUpActive(s, out)
            /\ \/ s = "ACTIVE"
               \/ s = "CHANGING" /\ \E i \in 1 .. Len(out) : out[i] = "CHANGE_OK"
            => GivesUpActive(s, Append(out, type))
         /\ type \notin Declaration /\ Told(h, out) => Told(h, Append(out, type))
         /\ type \in Declaration => Told(DeclaredState(type), Append(out, type))
<1> DEFINE r == Append(out, type)
<1>1. /\ Len(r) = Len(out) + 1 /\ Len(out) \in Nat /\ r[Len(out) + 1] = type
      /\ \A i \in 1 .. Len(out) : r[i] = out[i]
  BY QueueEnds
<1> HIDE DEF r
<1>2. NoDeclaration(r) <=> NoDeclaration(out) /\ type \notin Declaration
  BY SendKinds DEF r
<1>3. ASSUME NEW i \in 1 .. Len(out), out[i] = "CHANGE_OK"
      PROVE  i \in 1 .. Len(r) /\ r[i] = "CHANGE_OK"
  BY <1>1, <1>3
<1>4. Len(out) + 1 \in 1 .. Len(r)
  BY <1>1
<1>5. ASSUME GivesUpActive(s, out), NEW i \in 1 .. Len(out), r[i] = "GIVE_UP", s # "ACTIVE"
      PROVE  s = "CHANGING" /\ \E j \in 1 .. i - 1 : r[j] = "CHANGE_OK"
  <2>1. out[i] = "GIVE_UP"
    BY <1>1, <1>5
  <2>2. PICK j \in 1 .. i - 1 : out[j] = "CHANGE_OK" /\ s = "CHANGING"
    BY <1>5, <2>1 DEF GivesUpActive
  <2>3. r[j] = "CHANGE_OK"
    BY <1>1, <2>2
  <2>4. QED
    BY <2>2, <2>3
<1>6. ASSUME GivesUpActive(s, out), type # "GIVE_UP"
      PROVE  GivesUpActive(s, r)
  BY <1>1, <1>5, <1>6 DEF GivesUpActive
<1>7. ASSUME GivesUpActive(s, out),
             s = "ACTIVE" \/ (s = "CHANGING" /\ \E i \in 1 .. Len(out) : out[i] = "CHANGE_OK")
      PROVE  GivesUpActive(s, r)
  BY <1>1, <1>3, <1>5, <1>7 DEF GivesUpActive
<1>8. ASSUME type \notin Declaration, Told(h, out)
      PROVE  Told(h, r)
  <2>1. ASSUME NEW i \in 1 .. Len(r), IsNewestDeclaration(r, i)
        PROVE  h = DeclaredState(r[i])
    <3>1. i \in 1 .. Len(out) /\ r[i] = out[i]
      BY <1>1, <1>8, <2>1 DEF IsNewestDeclaration
    <3>2. IsNewestDeclaration(out, i)
      BY <1>1, <2>1, <3>1 DEF IsNewestDeclaration
    <3>3. QED
      BY <1>8, <3>1, <3>2 DEF Told
  <2>2. QED
    BY <1>2, <1>8, <2>1 DEF Told
<1>9. ASSUME type \in Declaration
      PROVE  Told(DeclaredState(type), r)
  <2>1. ASSUME NEW i \in 1 .. Len(r), IsNewestDeclaration(r, i)
        PROVE  r[i] = type
    BY <1>1, <1>4, <1>9, <2>1 DEF IsNewestDeclaration
  <2>2. DeclaredState(type) \in {"HELLO", "SHUT", "INACTIVE"}
    BY DEF DeclaredState
  <2>3. QED
    BY <2>1, <2>2 DEF Told
<1>10. QED
  BY <1>1, <1>3, <1>4, <1>6, <1>7, <1>8, <1>9 DEF r

LEMMA Request ==
  ASSUME NEW q, NEW s, NEW h, NEW out \in Seq(ClientFrame), NEW type \in ClientFrame,
         type \notin Declaration, InStep(s, q, h, out)
  PROVE  InStep(s, q, h, Append(out, type))
<1>1. NoDeclaration(Append(out, type)) <=> NoDeclaration(out)
  BY SendKinds
<1>2. Answered(s, q, h, out) => Answered(s, q, h, Append(out, type))
  BY SendSays DEF Answered
<1>3. GivesUpActive(s, out) => GivesUpActive(s, Append(out, type))
  BY SendSays DEF Declaration
<1>4. Told(h, out) => Told(h, Append(out, type))
  BY SendSays
<1>5. QED
  BY <1>1, <1>2, <1>3, <1>4 DEF InStep

(* The change of circuit is done.                                           *)
LEMMA ChangeDone ==
  ASSUME NEW q, NEW s, NEW out \in Seq(ClientFrame), InStep(s, q, "CHANGING", out)
  PROVE  InStep(s, q, "ACTIVE", Append(out, "CHANGE_OK"))
<1>1. NoDeclaration(out) /\ "CHANGE_OK" \in ClientFrame /\ "CHANGE_OK" \notin Declaration
  BY DEF InStep, ClientFrame, Declaration
<1>2. NoDeclaration(Append(out, "CHANGE_OK"))
  BY <1>1, SendKinds
<1>3. Answered(s, q, "ACTIVE", Append(out, "CHANGE_OK"))
  BY <1>1, SendSays DEF Answered
<1>4. Mirror("CHANGING") = Mirror("ACTIVE")
  BY DEF Mirror
<1>5. Obeyed("CHANGING", q) => Obeyed("ACTIVE", q)
  BY <1>4 DEF Obeyed
<1>6. QED
  BY <1>2, <1>3, <1>4, <1>5, Undeclared DEF InStep

(* The client sets its own state.                                           *)
LEMMA Declare ==
  ASSUME NEW q, NEW s, NEW h, NEW out \in Seq(ClientFrame), NEW type \in Declaration,
         InStep(s, q, h, out), NoOrder(q), h # "CHANGING", type = "GIVE_UP" => h = "ACTIVE"
  PROVE  InStep(s, q, DeclaredState(type), Append(out, type))
<1>1. type \in ClientFrame
  BY DEF ClientFrame, Declaration
<1>2. DeclaredState(type) # "CHANGING" /\ ~NoDeclaration(Append(out, type))
  BY <1>1, SendKinds DEF DeclaredState
<1>3. \A i \in 1 .. Len(q) : q[i] # "CHANGE"
  BY DEF NoOrder, IsOrder
<1>4. s = "CHANGING" => \E i \in 1 .. Len(out) : out[i] = "CHANGE_OK"
  BY <1>3 DEF InStep, Answered
<1>5. Answered(s, q, DeclaredState(type), Append(out, type))
  BY <1>1, <1>4, SendSays DEF Answered
<1>6. GivesUpActive(s, Append(out, type))
  <2>1. CASE type # "GIVE_UP"
    BY <1>1, <2>1, SendSays DEF InStep
  <2>2. CASE type = "GIVE_UP"
    <3>1. NoDeclaration(out)
      BY <2>2 DEF InStep, Told
    <3>2. s = "ACTIVE" \/ s = "CHANGING"
      BY <2>2, <3>1 DEF InStep, Mirror
    <3>3. QED
      BY <1>1, <1>4, <3>2, SendSays DEF InStep
  <2>3. QED
    BY <2>1, <2>2
<1>7. Told(DeclaredState(type), Append(out, type))
  BY <1>1, SendSays
<1>8. Follows(s, q) /\ Obeyed(DeclaredState(type), q)
  BY DEF InStep, NoOrder, Obeyed
<1>9. QED
  BY <1>2, <1>5, <1>6, <1>7, <1>8 DEF InStep

(* A client that has just connected.                                        *)
LEMMA Connect ==
  ASSUME NEW q \in Seq(CtrlType), NoOrder(q)
  PROVE  /\ InStep("UNDEF", q, "UNDEF", <<>>)
         /\ InStep("UNDEF", q, "HELLO", <<"HELLO">>)
<1>1. InStep("UNDEF", q, "UNDEF", <<>>)
  BY DEF InStep, NoOrder, NoDeclaration, Follows, IsNewestOrder, Obeyed, Answered,
         GivesUpActive, Told
<1>2. <<>> \in Seq(ClientFrame) /\ Append(<<>>, "HELLO") = <<"HELLO">>
  OBVIOUS
<1>3. InStep("UNDEF", q, DeclaredState("HELLO"), Append(<<>>, "HELLO"))
  BY <1>1, <1>2, Declare DEF Declaration
<1>4. QED
  BY <1>1, <1>2, <1>3 DEF DeclaredState

-----------------------------------------------------------------------------
(* The composition is the bridge with more conjuncts: each of its steps is  *)
(* one of the bridge, or leaves the bridge as it is.                        *)

(* A client takes a frame from its queue.                                   *)
HearsOne(c) ==
  \/ HearsHelloOk(c) \/ HearsActive(c) \/ HearsWait(c) \/ HearsChange(c)
  \/ HearsInactive(c) \/ HearsShutOk(c) \/ HearsOther(c)

LEMMA HearsSends ==
  ASSUME NEW c \in Client, HearsOne(c)
  PROVE  /\ Hears(c, Head(ctrlQ[c]))
         /\ Connected(c) /\ c \notin changing /\ ctrlQ[c] # <<>> /\ SendCtrl(c)
<1>1. PICK type : Hears(c, type)
  BY DEF HearsOne, HearsHelloOk, HearsActive, HearsWait, HearsChange, HearsInactive,
         HearsShutOk, HearsOther, Obeys
<1>2. QED
  BY <1>1 DEF Hears

LEMMA TorKCases ==
  ASSUME TorKNext
  PROVE  /\ WatchCrossings
         /\ \E c \in Client :
              \/ Connects(c) \/ Disconnects(c) \/ Sweeps(c)
              \/ HearsOne(c) \/ Changes(c) \/ Lost(c)
              \/ AsksChannel(c, "ACTIVE") \/ AsksChannel(c, "INACTIVE")
              \/ SetsK(c) \/ Shuts(c) \/ GivesUp(c)
              \/ ReadsHello(c) \/ ReadsActive(c) \/ ReadsInactive(c)
              \/ ReadsShut(c) \/ ReadsChangeOk(c)
<1>1. \A c \in Client : Handles(c) => HearsOne(c) \/ Changes(c) \/ Lost(c)
  BY DEF Handles, HearsOne
<1>2. \A c \in Client : User(c) =>
        \/ AsksChannel(c, "ACTIVE") \/ AsksChannel(c, "INACTIVE")
        \/ SetsK(c) \/ Shuts(c) \/ GivesUp(c)
  BY DEF User
<1>3. QED
  BY <1>1, <1>2 DEF TorKNext, Bridge

LEMMA BridgeStep ==
  ASSUME [TorKNext]_allVars
  PROVE  [Next]_vars
<1>1. CASE UNCHANGED allVars
  BY <1>1 DEF allVars
<1>2. ASSUME NEW c \in Client, Connects(c) \/ Disconnects(c) \/ Sweeps(c)
      PROVE  Next
  BY <1>2 DEF Connects, Disconnects, Sweeps, Next, Socket
<1>3. ASSUME NEW c \in Client, HearsOne(c) \/ Lost(c)
      PROVE  Next
  BY <1>3, HearsSends DEF Lost, Next
<1>4. ASSUME NEW c \in Client,
             \/ Changes(c) \/ AsksChannel(c, "ACTIVE") \/ AsksChannel(c, "INACTIVE")
             \/ SetsK(c) \/ Shuts(c) \/ GivesUp(c)
      PROVE  UNCHANGED vars
  BY <1>4 DEF Changes, AsksChannel, SetsK, Shuts, GivesUp, Declares, Asks
<1>5. ASSUME NEW c \in Client,
             \/ ReadsHello(c) \/ ReadsActive(c) \/ ReadsInactive(c)
             \/ ReadsShut(c) \/ ReadsChangeOk(c)
      PROVE  Next
  <2>1. RecvCtrl(c)
    BY <1>5 DEF ReadsHello, ReadsActive, ReadsInactive, ReadsShut, ReadsChangeOk, RecvCtrl
  <2>2. QED
    BY <2>1 DEF Next
<1>6. QED
  BY <1>1, <1>2, <1>3, <1>4, <1>5, TorKCases

(* Every behaviour of the bridge and its clients is one of the bridge       *)
(* alone: what ControllerServer's theorems say of a bridge that may receive *)
(* any frame at any time holds for the one that reads what clients send.    *)
THEOREM BridgeUnchanged == TorKSpec => Spec
<1>1. TorKInit => Init
  BY DEF TorKInit
<1>2. QED
  BY <1>1, BridgeStep, PTL DEF TorKSpec, Spec

-----------------------------------------------------------------------------
(* What a step of the bridge may do to a client whose frame it does not     *)
(* read, or whose frame is a request: an order that the client accepts, if  *)
(* the state changes, and a notice.                                         *)
OrderStep(s, q, t, r) ==
  \/ t = s /\ r = q
  \/ \E type \in CtrlType :
       /\ IsOrder(type) /\ Mirror(s) \in Accepts(type)
       /\ t \in OrderedState(type) /\ (t = "CHANGING" => type = "CHANGE")
       /\ r = Append(q, type)

NoticeStep(q, r) == r = q \/ \E type \in CtrlType : ~IsOrder(type) /\ r = Append(q, type)

BridgeSteps(s, q, t, r) == \E m \in Seq(CtrlType) : OrderStep(s, q, t, m) /\ NoticeStep(m, r)

LEMMA StepsKeepStep ==
  ASSUME NEW q \in Seq(CtrlType), NEW r, NEW s, NEW t, NEW h, NEW out,
         InStep(s, q, h, out), BridgeSteps(s, q, t, r), NoDeclaration(out) \/ NoOrder(r)
  PROVE  InStep(t, r, h, out)
<1>1. PICK m \in Seq(CtrlType) : OrderStep(s, q, t, m) /\ NoticeStep(m, r)
  BY DEF BridgeSteps
<1>2. NoOrder(r) => NoOrder(m)
  BY <1>1, PushKinds DEF NoticeStep
<1>3. InStep(t, m, h, out)
  <2>1. CASE t = s /\ m = q
    BY <2>1
  <2>2. ASSUME NEW type \in CtrlType,
               /\ IsOrder(type) /\ Mirror(s) \in Accepts(type)
               /\ t \in OrderedState(type) /\ (t = "CHANGING" => type = "CHANGE")
               /\ m = Append(q, type)
        PROVE  InStep(t, m, h, out)
    <3>1. NoDeclaration(out)
      BY <1>2, <2>2, PushKinds
    <3>2. QED
      BY <2>2, <3>1, PushOrder
  <2>3. QED
    BY <1>1, <2>1, <2>2 DEF OrderStep
<1>4. QED
  BY <1>1, <1>3, PushNotice DEF NoticeStep

LEMMA StepsFacts ==
  ASSUME NEW q \in Seq(CtrlType), NEW r, NEW s \in ClientState, NEW t, BridgeSteps(s, q, t, r)
  PROVE  t \in ClientState /\ ~(Len(r) < Len(q))
<1>1. PICK m \in Seq(CtrlType) : OrderStep(s, q, t, m) /\ NoticeStep(m, r)
  BY DEF BridgeSteps
<1>2. t \in ClientState /\ Len(q) <= Len(m)
  BY <1>1, QueueEnds, Kinds DEF OrderStep
<1>3. r \in Seq(CtrlType) /\ Len(m) <= Len(r)
  BY <1>1, QueueEnds DEF NoticeStep
<1>4. Len(q) \in Nat /\ Len(m) \in Nat /\ Len(r) \in Nat
  BY <1>1, <1>3
<1>5. QED
  BY <1>2, <1>3, <1>4

(* Nothing, one order or one notice.                                        *)
LEMMA StepKinds ==
  ASSUME NEW q \in Seq(CtrlType), NEW s, NEW t, NEW r,
         \/ t = s /\ r = q
         \/ OrderStep(s, q, t, r)
         \/ t = s /\ NoticeStep(q, r)
  PROVE  BridgeSteps(s, q, t, r)
<1>1. CASE t = s /\ NoticeStep(q, r)
  BY <1>1 DEF BridgeSteps, OrderStep
<1>2. CASE OrderStep(s, q, t, r)
  <2>1. r \in Seq(CtrlType)
    BY <1>2, QueueEnds DEF OrderStep
  <2>2. QED
    BY <1>2, <2>1 DEF BridgeSteps, NoticeStep
<1>3. QED
  BY <1>1, <1>2 DEF NoticeStep

LEMMA PushSteps ==
  ASSUME NEW q \in [Client -> Seq(CtrlType)], NEW S, NEW type \in CtrlType, NEW d \in Client
  PROVE  /\ d \notin S => Push(q, S, type)[d] = q[d]
         /\ d \in S => Push(q, S, type)[d] = Append(q[d], type)
         /\ ~IsOrder(type) => NoticeStep(q[d], Push(q, S, type)[d])
BY DEF Push, NoticeStep

LEMMA TsRateSteps ==
  ASSUME NEW t, NEW q \in [Client -> Seq(CtrlType)], TsRateUpdate(t, q), NEW d \in Client
  PROVE  NoticeStep(q[d], ctrlQ'[d])
<1>1. "TS_RATE" \in CtrlType /\ ~IsOrder("TS_RATE")
  BY DEF CtrlType, IsOrder
<1>2. CASE DisableDynamicRate
  BY <1>2 DEF TsRateUpdate, NoticeStep
<1>3. CASE ~DisableDynamicRate
  <2>1. ctrlQ' = Push(q, Registered(t), "TS_RATE")
    BY <1>3 DEF TsRateUpdate, OrderTsRate
  <2>2. QED
    BY <1>1, <2>1, PushSteps
<1>4. QED
  BY <1>2, <1>3

LEMMA AcceptedOrders ==
  /\ Mirror("ACTIVE") \in Accepts("WAIT") /\ Mirror("ACTIVE") \in Accepts("CHANGE")
  /\ Mirror("ACTIVE") \in Accepts("INACTIVE") /\ Mirror("WAIT") \in Accepts("INACTIVE")
  /\ \A s \in {"CONNECTED", "INACTIVE"} :
       Mirror(s) \in Accepts("ACTIVE") /\ Mirror(s) \in Accepts("WAIT")
  /\ Mirror("WAIT") \in Accepts("ACTIVE")
BY DEF Mirror, Accepts, Channel

LEMMA RegroupSteps ==
  ASSUME NEW s \in [Client -> ConnState], NEW k, NEW q \in [Client -> Seq(CtrlType)],
         NEW d \in Client
  PROVE  OrderStep(s[d], q[d], Regroup(s, k)[d], RegroupFrames(s, k, q)[d])
<1> DEFINE w      == OrderWait(s, k)
           broken == BrokenClients(s, k)
           change == ToChange(w, k)
           mid    == Push(q, broken, "WAIT")
<1>1. /\ w[d] = IF d \in broken THEN "WAIT" ELSE s[d]
      /\ Regroup(s, k)[d] = IF d \in change THEN "CHANGING" ELSE w[d]
  BY DEF OrderWait, Regroup, OrderChange, UpdateClientState
<1>2. /\ d \in broken => s[d] = "ACTIVE"
      /\ d \in change => w[d] = "ACTIVE"
  BY DEF BrokenClients, ToChange, FulfilledClients
<1>3. /\ RegroupFrames(s, k, q)[d] = IF d \in change THEN Append(mid[d], "CHANGE") ELSE mid[d]
      /\ mid[d] = IF d \in broken THEN Append(q[d], "WAIT") ELSE q[d]
  BY DEF RegroupFrames, Push
<1> HIDE DEF w, broken, change, mid
<1>4. CASE d \in broken
  <2>1. /\ s[d] = "ACTIVE" /\ d \notin change
        /\ Regroup(s, k)[d] = "WAIT" /\ RegroupFrames(s, k, q)[d] = Append(q[d], "WAIT")
    BY <1>1, <1>2, <1>3, <1>4
  <2>2. QED
    BY <2>1, AcceptedOrders, OrderTypes DEF OrderStep
<1>5. CASE d \in change
  <2>1. /\ s[d] = "ACTIVE" /\ d \notin broken
        /\ Regroup(s, k)[d] = "CHANGING" /\ RegroupFrames(s, k, q)[d] = Append(q[d], "CHANGE")
    BY <1>1, <1>2, <1>3, <1>5
  <2>2. QED
    BY <2>1, AcceptedOrders, OrderTypes DEF OrderStep
<1>6. CASE d \notin broken /\ d \notin change
  BY <1>1, <1>3, <1>6 DEF OrderStep
<1>7. QED
  BY <1>4, <1>5, <1>6

LEMMA RegroupRests ==
  ASSUME NEW s, NEW k, NEW q, NEW d \in Client, s[d] # "ACTIVE"
  PROVE  Regroup(s, k)[d] = s[d] /\ RegroupFrames(s, k, q)[d] = q[d]
<1>1. d \notin BrokenClients(s, k) /\ OrderWait(s, k)[d] = s[d]
  BY DEF BrokenClients, OrderWait, UpdateClientState
<1>2. d \notin ToChange(OrderWait(s, k), k)
  BY <1>1 DEF ToChange, FulfilledClients
<1>3. QED
  BY <1>1, <1>2 DEF Regroup, OrderChange, UpdateClientState, RegroupFrames, Push

(* What each handler does to a client: to any client that is not the one    *)
(* whose frame or connection it handles, and to that one too when the frame *)
(* is a request.                                                            *)
LEMMA OthersSteps ==
  ASSUME TypeOK, NEW c \in Client, NEW d \in Client, d # c,
         \/ NewConnection(c) \/ ClientClosed(c) \/ Terminated(c)
         \/ (\E k \in KMin : RecvHello(c, k)) \/ RecvShut(c) \/ RecvChangeOk(c)
  PROVE  BridgeSteps(state[d], ctrlQ[d], state'[d], ctrlQ'[d])
<1> USE DEF TypeOK
<1>0. ctrlQ[d] \in Seq(CtrlType)
  OBVIOUS
<1>1. CASE NewConnection(c)
  <2>1. state'[d] = state[d] /\ TsRateUpdate(state', ctrlQ)
    BY <1>1 DEF NewConnection
  <2>2. NoticeStep(ctrlQ[d], ctrlQ'[d])
    BY <2>1, TsRateSteps
  <2>3. QED
    BY <1>0, <2>1, <2>2, StepKinds
<1>2. CASE ClientClosed(c)
  BY <1>0, <1>2, StepKinds DEF ClientClosed
<1>3. CASE Terminated(c)
  <2> DEFINE left  == [state EXCEPT ![c] = "ABSENT"]
             queue == [ctrlQ EXCEPT ![c] = <<>>]
  <2>1. /\ left \in [Client -> ConnState] /\ queue \in [Client -> Seq(CtrlType)]
        /\ left[d] = state[d] /\ queue[d] = ctrlQ[d]
    BY DEF ConnState
  <2>2. CASE Registered(left) = {}
    <3>1. state' = left /\ ctrlQ' = queue
      BY <1>3, <2>2 DEF Terminated
    <3> HIDE DEF left, queue
    <3>2. QED
      BY <1>0, <2>1, <3>1, StepKinds
  <2>3. CASE Registered(left) # {}
    <3> DEFINE frames == RegroupFrames(left, kmin, queue)
    <3>1. state' = Regroup(left, kmin) /\ TsRateUpdate(left, frames)
      BY <1>3, <2>3 DEF Terminated
    <3> HIDE DEF left, queue
    <3>2. OrderStep(state[d], ctrlQ[d], state'[d], frames[d])
      BY <2>1, <3>1, RegroupSteps
    <3>3. frames \in [Client -> Seq(CtrlType)]
      BY <2>1, PushType, OrderTypes DEF RegroupFrames
    <3> HIDE DEF frames
    <3>4. NoticeStep(frames[d], ctrlQ'[d]) /\ frames[d] \in Seq(CtrlType)
      BY <3>1, <3>3, TsRateSteps
    <3>5. QED
      BY <3>2, <3>4 DEF BridgeSteps
  <2>4. QED
    BY <2>2, <2>3
<1>4. ASSUME NEW k \in KMin, RecvHello(c, k)
      PROVE  BridgeSteps(state[d], ctrlQ[d], state'[d], ctrlQ'[d])
  <2> DEFINE s     == [state EXCEPT ![c] = "CONNECTED"]
             woken == WaitingFulfilledClients(s, kmin')
             mid   == Push(ctrlQ, {c}, "HELLO_OK")
  <2>1. /\ state' = UpdateClientState(s, woken, "ACTIVE")
        /\ ctrlQ' = Push(mid, woken, "ACTIVE")
    BY <1>4 DEF RecvHello
  <2>2. /\ state'[d] = IF d \in woken THEN "ACTIVE" ELSE s[d]
        /\ d \in woken => s[d] = "WAIT"
        /\ s[d] = state[d]
    BY <2>1 DEF UpdateClientState, WaitingFulfilledClients
  <2>3. /\ mid[d] = ctrlQ[d]
        /\ ctrlQ'[d] = IF d \in woken THEN Append(mid[d], "ACTIVE") ELSE mid[d]
    BY <2>1 DEF Push
  <2> HIDE DEF s, woken, mid
  <2>4. OrderStep(state[d], ctrlQ[d], state'[d], ctrlQ'[d])
    BY <2>2, <2>3, AcceptedOrders, OrderTypes DEF OrderStep
  <2>5. QED
    BY <1>0, <2>4, StepKinds
<1>5. CASE RecvShut(c)
  <2> DEFINE s      == [state EXCEPT ![c] = "SHUT"]
             frames == RegroupFrames(s, kmin, ctrlQ)
  <2>1. state' = Regroup(s, kmin) /\ ctrlQ' = Push(frames, {c}, "SHUT_OK")
    BY <1>5 DEF RecvShut
  <2>2. s \in [Client -> ConnState] /\ s[d] = state[d]
    BY DEF ConnState, ClientState
  <2> HIDE DEF s
  <2>3. OrderStep(state[d], ctrlQ[d], state'[d], frames[d])
    BY <2>1, <2>2, RegroupSteps
  <2>4. ctrlQ'[d] = frames[d]
    BY <2>1 DEF Push
  <2>5. QED
    BY <1>0, <2>3, <2>4, StepKinds
<1>6. CASE RecvChangeOk(c)
  <2>1. state'[d] = state[d] /\ ctrlQ'[d] = ctrlQ[d]
    BY <1>6 DEF RecvChangeOk
  <2>2. QED
    BY <1>0, <2>1, StepKinds
<1>7. QED
  BY <1>1, <1>2, <1>3, <1>4, <1>5, <1>6

LEMMA RequestSteps ==
  ASSUME TypeOK, NEW c \in Client, NEW d \in Client,
         \/ RecvActiveRefused(c) \/ RecvActiveGranted(c) \/ RecvActiveDeferred(c)
         \/ RecvInactive(c) \/ RecvInactiveRefused(c)
  PROVE  BridgeSteps(state[d], ctrlQ[d], state'[d], ctrlQ'[d])
<1> USE DEF TypeOK
<1>0. ctrlQ[d] \in Seq(CtrlType)
  OBVIOUS
<1>1. CASE RecvActiveRefused(c) \/ RecvInactiveRefused(c)
  <2>1. PICK type \in {"ERR_ACTIVE", "ERR_INACTIVE"} : ctrlQ' = Push(ctrlQ, {c}, type)
    BY <1>1 DEF RecvActiveRefused, RecvInactiveRefused
  <2>2. state'[d] = state[d] /\ type \in CtrlType /\ ~IsOrder(type)
    BY <1>1, OrderTypes DEF RecvActiveRefused, RecvInactiveRefused
  <2>3. NoticeStep(ctrlQ[d], ctrlQ'[d])
    BY <2>1, <2>2, PushSteps
  <2>4. QED
    BY <1>0, <2>2, <2>3, StepKinds
<1>2. CASE RecvActiveGranted(c)
  <2> DEFINE changed == ToChange(state, kmin)
             s       == OrderChange(state, kmin)
             mid     == Push(ctrlQ, changed, "CHANGE")
  <2>1. /\ state[c] \in {"CONNECTED", "INACTIVE"}
        /\ state' = [s EXCEPT ![c] = "ACTIVE"]
        /\ ctrlQ' = Push(mid, {c}, "ACTIVE")
    BY <1>2 DEF RecvActiveGranted, MayActivate
  <2>2. s \in [Client -> ConnState] /\ s[d] = IF d \in changed THEN "CHANGING" ELSE state[d]
    BY OrderChangeFacts DEF OrderChange, UpdateClientState
  <2>3. d \in changed => state[d] = "ACTIVE"
    BY DEF ToChange, FulfilledClients
  <2>4. /\ mid[d] = IF d \in changed THEN Append(ctrlQ[d], "CHANGE") ELSE ctrlQ[d]
        /\ ctrlQ'[d] = IF d = c THEN Append(mid[d], "ACTIVE") ELSE mid[d]
    BY <2>1 DEF Push
  <2> HIDE DEF changed, s, mid
  <2>5. CASE d = c
    <3>1. /\ state[d] \in {"CONNECTED", "INACTIVE"} /\ state'[d] = "ACTIVE"
          /\ ctrlQ'[d] = Append(ctrlQ[d], "ACTIVE")
      BY <2>1, <2>2, <2>3, <2>4, <2>5
    <3>2. OrderStep(state[d], ctrlQ[d], state'[d], ctrlQ'[d])
      BY <3>1, AcceptedOrders, OrderTypes DEF OrderStep
    <3>3. QED
      BY <1>0, <3>2, StepKinds
  <2>6. CASE d # c
    <3>1. OrderStep(state[d], ctrlQ[d], state'[d], ctrlQ'[d])
      BY <2>1, <2>2, <2>3, <2>4, <2>6, AcceptedOrders, OrderTypes DEF OrderStep
    <3>2. QED
      BY <1>0, <3>1, StepKinds
  <2>7. QED
    BY <2>5, <2>6
<1>3. ASSUME NEW type \in CtrlType, NEW t,
             /\ state' = [state EXCEPT ![c] = t] /\ ctrlQ' = Push(ctrlQ, {c}, type)
             /\ IsOrder(type) /\ Mirror(state[c]) \in Accepts(type)
             /\ t \in OrderedState(type) /\ t # "CHANGING"
      PROVE  BridgeSteps(state[d], ctrlQ[d], state'[d], ctrlQ'[d])
  <2>1. OrderStep(state[d], ctrlQ[d], state'[d], ctrlQ'[d])
    BY <1>3 DEF OrderStep, Push
  <2>2. QED
    BY <1>0, <2>1, StepKinds
<1>4. CASE RecvActiveDeferred(c)
  <2>1. /\ state[c] \in {"CONNECTED", "INACTIVE"}
        /\ state' = [state EXCEPT ![c] = "WAIT"] /\ ctrlQ' = Push(ctrlQ, {c}, "WAIT")
    BY <1>4 DEF RecvActiveDeferred, MayActivate
  <2>2. QED
    BY <1>3, <2>1, AcceptedOrders, OrderTypes
<1>5. CASE RecvInactive(c)
  <2>1. /\ state[c] \in {"ACTIVE", "WAIT"}
        /\ state' = [state EXCEPT ![c] = "INACTIVE"] /\ ctrlQ' = Push(ctrlQ, {c}, "INACTIVE")
    BY <1>5 DEF RecvInactive
  <2>2. QED
    BY <1>3, <2>1, AcceptedOrders, OrderTypes
<1>6. QED
  BY <1>1, <1>2, <1>4, <1>5

-----------------------------------------------------------------------------
(* Without DATA a round of delivery writes nothing to Tor, so that no       *)
(* connection fails in it.                                                  *)
LEMMA QuietRound ==
  ASSUME TypeOK, \A d \in Client : recvQ[d] = 0, NEW c, NEW s, NEW opened,
         MarkAndDeliver(c, s, opened)
  PROVE  zombies' = zombies /\ \A d \in Client : recvQ'[d] = 0
<1> DEFINE marks == [mark EXCEPT ![c] = TRUE]
<1>1. HandleReceptionFrames(s, recvQ, marks, opened)
  BY DEF MarkAndDeliver
<1>2. ToDeliver(s, recvQ) = {}
  BY DEF ToDeliver
<1> HIDE DEF marks
<1>3. CASE ReceivedAll(s, recvQ, marks)
  <2>1. PICK blocked : \E failed \in SUBSET ({} \ blocked) :
          /\ recvQ' = [d \in Client |-> IF d \in Valid(s) \ blocked /\ recvQ[d] > 0
                                        THEN recvQ[d] - 1 ELSE recvQ[d]]
          /\ zombies' = zombies \cup failed
    BY <1>1, <1>2, <1>3 DEF HandleReceptionFrames
  <2>2. QED
    BY <2>1
<1>4. CASE ~ReceivedAll(s, recvQ, marks)
  BY <1>1, <1>4 DEF HandleReceptionFrames
<1>5. QED
  BY <1>3, <1>4

LEMMA QuietFrames ==
  ASSUME TypeOK, \A d \in Client : recvQ[d] = 0, NEW c \in Client,
         \/ (\E k \in KMin : RecvHello(c, k)) \/ RecvShut(c) \/ RecvChangeOk(c)
         \/ RecvActiveRefused(c) \/ RecvActiveGranted(c) \/ RecvActiveDeferred(c)
         \/ RecvInactive(c) \/ RecvInactiveRefused(c)
  PROVE  zombies' = zombies /\ \A d \in Client : recvQ'[d] = 0
<1>1. \E s, opened : MarkAndDeliver(c, s, opened)
  BY DEF RecvHello, RecvShut, RecvChangeOk, RecvActiveRefused, RecvActiveGranted,
         RecvActiveDeferred, RecvInactive, RecvInactiveRefused
<1>2. QED
  BY <1>1, QuietRound

-----------------------------------------------------------------------------
(* The invariant, as one client sees it.                                    *)
View(d) ==
  /\ recvQ[d] = 0
  /\ Connected(d) => state[d] \in ClientState /\ d \notin zombies
  /\ ~Connected(d) => sent[d] = <<>> /\ d \notin changing
  /\ Connected(d) /\ d \notin crossed =>
       /\ d \in changing <=> chan[d] = "CHANGING"
       /\ InStep(state[d], ctrlQ[d], chan[d], sent[d])

LinkTypes ==
  /\ chan \in [Client -> Channel \cup {"GONE"}]
  /\ changing \subseteq Client
  /\ sent \in [Client -> Seq(ClientFrame)]

LEMMA Views ==
  TorKInv <=> TypeOK /\ OrdersInv /\ LinkTypes /\ \A d \in Client : View(d)
BY DEF TorKInv, LinkInv, AgreeInv, LinkTypes, View

LEMMA LinkTypesStep ==
  ASSUME LinkTypes, TorKNext
  PROVE  LinkTypes'
<1> USE DEF LinkTypes
<1>1. Channel \cup {"GONE"} = {"UNDEF", "HELLO", "CONNECTED", "ACTIVE", "WAIT", "CHANGING",
                                "INACTIVE", "SHUT", "GONE"}
  BY DEF Channel
<1>2. PICK c \in Client :
        \/ Connects(c) \/ Disconnects(c) \/ Sweeps(c)
        \/ HearsOne(c) \/ Changes(c) \/ Lost(c)
        \/ AsksChannel(c, "ACTIVE") \/ AsksChannel(c, "INACTIVE")
        \/ SetsK(c) \/ Shuts(c) \/ GivesUp(c)
        \/ ReadsHello(c) \/ ReadsActive(c) \/ ReadsInactive(c)
        \/ ReadsShut(c) \/ ReadsChangeOk(c)
  BY TorKCases
<1>3. ASSUME NEW type \in ClientFrame, Send(c, type) \/ UNCHANGED sent
      PROVE  sent' \in [Client -> Seq(ClientFrame)]
  <2>1. Append(sent[c], type) \in Seq(ClientFrame)
    OBVIOUS
  <2>2. QED
    BY <1>3, <2>1 DEF Send
<1>4. ASSUME NEW s \in Channel \cup {"GONE"}, SetChan(c, s) \/ UNCHANGED chan
      PROVE  chan' \in [Client -> Channel \cup {"GONE"}]
  BY <1>4 DEF SetChan
<1>5. ClientFrame = {"HELLO", "ACTIVE", "INACTIVE", "SHUT", "CHANGE_OK", "GIVE_UP"}
  BY DEF ClientFrame
<1>6. CASE Connects(c)
  <2>1. chan' \in [Client -> Channel \cup {"GONE"}]
    BY <1>1, <1>4, <1>6 DEF Connects
  <2>2. sent' \in [Client -> Seq(ClientFrame)]
    BY <1>3, <1>5, <1>6 DEF Connects
  <2>3. QED
    BY <1>6, <2>1, <2>2 DEF Connects
<1>7. CASE Disconnects(c)
  <2>1. chan' \in [Client -> Channel \cup {"GONE"}]
    BY <1>1, <1>4, <1>7 DEF Disconnects
  <2>2. sent' \in [Client -> Seq(ClientFrame)]
    BY <1>7 DEF Disconnects
  <2>3. QED
    BY <1>7, <2>1, <2>2 DEF Disconnects
<1>8. CASE HearsOne(c)
  <2>1. chan' \in [Client -> Channel \cup {"GONE"}]
    BY <1>1, <1>4, <1>8 DEF HearsOne, HearsHelloOk, HearsActive, HearsWait, HearsChange,
       HearsInactive, HearsShutOk, HearsOther, Obeys, SetChan
  <2>2. sent' \in [Client -> Seq(ClientFrame)]
    BY <1>3, <1>5, <1>8 DEF HearsOne, HearsHelloOk, HearsActive, HearsWait, HearsChange,
       HearsInactive, HearsShutOk, HearsOther, Obeys
  <2>3. changing' \subseteq Client
    BY <1>8 DEF HearsOne, HearsHelloOk, HearsActive, HearsWait, HearsChange,
       HearsInactive, HearsShutOk, HearsOther, Obeys
  <2>4. QED
    BY <2>1, <2>2, <2>3
<1>9. CASE Changes(c)
  <2>1. chan' \in [Client -> Channel \cup {"GONE"}]
    BY <1>1, <1>4, <1>9 DEF Changes
  <2>2. sent' \in [Client -> Seq(ClientFrame)]
    BY <1>3, <1>5, <1>9 DEF Changes
  <2>3. QED
    BY <1>9, <2>1, <2>2 DEF Changes
<1>10. CASE \/ AsksChannel(c, "ACTIVE") \/ AsksChannel(c, "INACTIVE")
            \/ SetsK(c) \/ Shuts(c) \/ GivesUp(c)
  <2>1. chan' \in [Client -> Channel \cup {"GONE"}]
    BY <1>1, <1>4, <1>10 DEF AsksChannel, SetsK, Shuts, GivesUp, Declares
  <2>2. sent' \in [Client -> Seq(ClientFrame)]
    BY <1>3, <1>5, <1>10 DEF AsksChannel, SetsK, Shuts, GivesUp, Declares, Asks
  <2>3. UNCHANGED changing
    BY <1>10 DEF AsksChannel, SetsK, Shuts, GivesUp, Declares, Asks
  <2>4. QED
    BY <2>1, <2>2, <2>3
<1>11. CASE \/ ReadsHello(c) \/ ReadsActive(c) \/ ReadsInactive(c)
            \/ ReadsShut(c) \/ ReadsChangeOk(c)
  <2>1. PICK type : Reads(c, type)
    BY <1>11 DEF ReadsHello, ReadsActive, ReadsInactive, ReadsShut, ReadsChangeOk
  <2>2. sent' \in [Client -> Seq(ClientFrame)]
    BY <2>1 DEF Reads
  <2>3. QED
    BY <2>1, <2>2 DEF Reads
<1>12. CASE Sweeps(c) \/ Lost(c)
  BY <1>12 DEF Sweeps, Lost
<1>13. QED
  BY <1>2, <1>6, <1>7, <1>8, <1>9, <1>10, <1>11, <1>12

(* A client that stays uncrossed has nothing crossing now.                  *)
LEMMA Uncrossed ==
  ASSUME TypeOK', LinkTypes', WatchCrossings, NEW d \in Client,
         Connected(d)', d \notin crossed'
  PROVE  /\ d \notin crossed
         /\ NoDeclaration(sent'[d]) \/ (NoOrder(ctrlQ'[d]) /\ d \notin changing')
<1>1. d \notin crossed /\ ~(Ordered(d) /\ Declared(d))'
  BY DEF WatchCrossings
<1>2. DOMAIN ctrlQ'[d] = 1 .. Len(ctrlQ'[d]) /\ DOMAIN sent'[d] = 1 .. Len(sent'[d])
  <2>1. ctrlQ'[d] \in Seq(CtrlType) /\ sent'[d] \in Seq(ClientFrame)
    BY DEF TypeOK, LinkTypes
  <2>2. QED
    BY <2>1
<1>3. QED
  BY <1>1, <1>2 DEF Ordered, Declared, NoDeclaration, NoOrder

-----------------------------------------------------------------------------
(* What a step comes to for the client d: the invariant holds for it, and   *)
(* only itself takes frames from its queue.                                 *)
After(d) ==
  /\ View(d)'
  /\ Connected(d) /\ Len(ctrlQ'[d]) < Len(ctrlQ[d]) => HearsOne(d)

(* The client does nothing.                                                 *)
LEMMA Passive ==
  ASSUME TypeOK, TypeOK', LinkTypes', WatchCrossings, NEW d \in Client, View(d),
         chan'[d] = chan[d], d \in changing' <=> d \in changing, sent'[d] = sent[d],
         recvQ'[d] = 0, d \in zombies' => d \in zombies,
         ~Connected(d) \/ BridgeSteps(state[d], ctrlQ[d], state'[d], ctrlQ'[d])
  PROVE  After(d)
<1>1. Connected(d)' <=> Connected(d)
  BY DEF Connected
<1>2. CASE ~Connected(d)
  BY <1>1, <1>2 DEF After, View
<1>3. CASE Connected(d)
  <2>1. /\ state[d] \in ClientState /\ ctrlQ[d] \in Seq(CtrlType)
        /\ BridgeSteps(state[d], ctrlQ[d], state'[d], ctrlQ'[d])
    BY <1>3 DEF View, TypeOK
  <2>2. state'[d] \in ClientState /\ ~(Len(ctrlQ'[d]) < Len(ctrlQ[d]))
    BY <2>1, StepsFacts
  <2>3. ASSUME d \notin crossed'
        PROVE  /\ d \in changing' <=> chan'[d] = "CHANGING"
               /\ InStep(state'[d], ctrlQ'[d], chan'[d], sent'[d])
    <3>1. /\ d \notin crossed
          /\ NoDeclaration(sent[d]) \/ NoOrder(ctrlQ'[d])
      BY <1>1, <1>3, <2>3, Uncrossed
    <3>2. /\ d \in changing <=> chan[d] = "CHANGING"
          /\ InStep(state[d], ctrlQ[d], chan[d], sent[d])
      BY <1>3, <3>1 DEF View
    <3>3. InStep(state'[d], ctrlQ'[d], chan[d], sent[d])
      BY <2>1, <3>1, <3>2, StepsKeepStep
    <3>4. QED
      BY <3>2, <3>3
  <2>4. QED
    BY <1>1, <1>3, <2>2, <2>3 DEF After, View
<1>4. QED
  BY <1>2, <1>3

(* The client sends or changes something, while the bridge rests.           *)
LEMMA BridgeRests ==
  ASSUME TypeOK, NEW d \in Client, View(d), UNCHANGED vars
  PROVE  /\ recvQ'[d] = 0 /\ (d \in zombies' => d \in zombies)
         /\ state'[d] = state[d] /\ ctrlQ'[d] = ctrlQ[d]
         /\ BridgeSteps(state[d], ctrlQ[d], state'[d], ctrlQ'[d])
<1>1. /\ state'[d] = state[d] /\ ctrlQ'[d] = ctrlQ[d] /\ ctrlQ[d] \in Seq(CtrlType)
      /\ recvQ' = recvQ /\ zombies' = zombies
  BY DEF vars, TypeOK
<1>2. QED
  BY <1>1, StepKinds DEF View

(* A step of a client that stays connected, with all the bridge still has   *)
(* to do with it.                                                           *)
LEMMA Active ==
  ASSUME NEW d \in Client, View(d), Connected(d), Connected(d)', recvQ'[d] = 0,
         d \in zombies' => d \in zombies, state'[d] \in ClientState,
         Len(ctrlQ'[d]) < Len(ctrlQ[d]) => HearsOne(d),
         d \notin crossed' =>
           /\ d \in changing' <=> chan'[d] = "CHANGING"
           /\ InStep(state'[d], ctrlQ'[d], chan'[d], sent'[d])
  PROVE  After(d)
BY DEF After, View

(* What a client makes of the frame it hears, when it accepts it.           *)
LEMMA HearsObeys ==
  ASSUME LinkTypes, NEW c \in Client, HearsOne(c), chan[c] # "CHANGING",
         Head(ctrlQ[c]) \in CtrlType,
         IsOrder(Head(ctrlQ[c])) => Mirror(chan[c]) \in Accepts(Head(ctrlQ[c]))
  PROVE  /\ chan'[c] \in Channel
         /\ IF IsOrder(Head(ctrlQ[c]))
            THEN /\ Mirror(chan'[c]) = Effect(Head(ctrlQ[c]))
                 /\ chan'[c] \in OrderedState(Head(ctrlQ[c]))
                 /\ Head(ctrlQ[c]) = "CHANGE" => chan'[c] = "CHANGING"
            ELSE chan'[c] = chan[c]
         /\ c \in changing' <=> chan'[c] = "CHANGING"
         /\ sent'[c] = sent[c] \/ sent'[c] = Append(sent[c], "ACTIVE")
<1> USE DEF LinkTypes
<1>0. Connected(c) /\ chan[c] \in Channel /\ c \notin changing /\ Mirror(chan[c]) = chan[c]
  BY HearsSends DEF Connected, Mirror
<1>1. CASE HearsHelloOk(c)
  <2>1. Head(ctrlQ[c]) = "HELLO_OK"
    BY <1>1 DEF HearsHelloOk, Hears
  <2>2. chan[c] = "HELLO"
    BY <1>0, <2>1 DEF Accepts, IsOrder
  <2>3. /\ chan'[c] = "CONNECTED" /\ c \notin changing'
        /\ sent'[c] = sent[c] \/ sent'[c] = Append(sent[c], "ACTIVE")
    BY <1>0, <1>1, <2>2 DEF HearsHelloOk, SetChan, Send
  <2>4. QED
    BY <2>1, <2>3 DEF Channel, Mirror, Effect, OrderedState, IsOrder
<1>2. ASSUME NEW type \in {"ACTIVE", "WAIT", "INACTIVE", "SHUT_OK"},
             NEW from, Obeys(c, type, from, Effect(type)), Accepts(type) \subseteq from
      PROVE  /\ chan'[c] \in Channel
             /\ IF IsOrder(Head(ctrlQ[c]))
                THEN /\ Mirror(chan'[c]) = Effect(Head(ctrlQ[c]))
                     /\ chan'[c] \in OrderedState(Head(ctrlQ[c]))
                     /\ Head(ctrlQ[c]) = "CHANGE" => chan'[c] = "CHANGING"
                ELSE chan'[c] = chan[c]
             /\ c \in changing' <=> chan'[c] = "CHANGING"
             /\ sent'[c] = sent[c] \/ sent'[c] = Append(sent[c], "ACTIVE")
  <2>1. Head(ctrlQ[c]) = type /\ IsOrder(type)
    BY <1>2, OrderTypes DEF Obeys, Hears
  <2>2. chan'[c] = Effect(type) /\ c \notin changing' /\ sent'[c] = sent[c]
    BY <1>0, <1>2, <2>1 DEF Obeys
  <2>3. /\ Effect(type) \in Channel /\ Effect(type) # "CHANGING"
        /\ Mirror(Effect(type)) = Effect(type) /\ Effect(type) \in OrderedState(type)
    BY DEF Effect, Channel, Mirror, OrderedState
  <2>4. QED
    BY <2>1, <2>2, <2>3
<1>3. CASE HearsActive(c)
  BY <1>2, <1>3 DEF HearsActive, Effect, Accepts
<1>4. CASE HearsWait(c)
  BY <1>2, <1>4 DEF HearsWait, Effect, Accepts
<1>5. CASE HearsInactive(c)
  BY <1>2, <1>5 DEF HearsInactive, Effect, Accepts
<1>6. CASE HearsShutOk(c)
  BY <1>2, <1>6 DEF HearsShutOk, Effect, Accepts
<1>7. CASE HearsChange(c)
  <2>1. Head(ctrlQ[c]) = "CHANGE"
    BY <1>7 DEF HearsChange, Hears
  <2>2. chan[c] = "ACTIVE"
    BY <1>0, <2>1 DEF Accepts, IsOrder
  <2>3. chan'[c] = "CHANGING" /\ c \in changing' /\ sent'[c] = sent[c]
    BY <1>0, <1>7, <2>2 DEF HearsChange, SetChan
  <2>4. QED
    BY <2>1, <2>3 DEF Channel, Mirror, Effect, OrderedState, IsOrder
<1>8. CASE HearsOther(c)
  <2>1. PICK type \in {"TS_RATE", "ERR_ACTIVE", "ERR_INACTIVE"} : Obeys(c, type, {}, "UNDEF")
    BY <1>8 DEF HearsOther
  <2>2. Head(ctrlQ[c]) = type /\ ~IsOrder(type)
    BY <2>1, OrderTypes DEF Obeys, Hears
  <2>3. chan'[c] = chan[c] /\ c \notin changing' /\ sent'[c] = sent[c]
    BY <1>0, <2>1 DEF Obeys
  <2>4. QED
    BY <1>0, <2>2, <2>3
<1>9. QED
  BY <1>1, <1>3, <1>4, <1>5, <1>6, <1>7, <1>8 DEF HearsOne

-----------------------------------------------------------------------------
(* The steps, one lemma for those that open and close connections, one for  *)
(* the client's own, one for what it hears and one for what the bridge      *)
(* reads.                                                                   *)
Before ==
  /\ TypeOK /\ OrdersInv /\ LinkTypes
  /\ TypeOK' /\ LinkTypes' /\ WatchCrossings
  /\ \A d \in Client : View(d)

LEMMA LinkStep ==
  ASSUME Before, NEW c \in Client, Connects(c) \/ Disconnects(c) \/ Sweeps(c),
         NEW d \in Client
  PROVE  After(d)
<1> USE DEF Before
<1>1. CASE Connects(c)
  <2>1. /\ NewConnection(c) /\ ~Connected(c) /\ changing' = changing
        /\ recvQ' = recvQ /\ zombies' = zombies
    BY <1>1 DEF Connects, NewConnection, Connected, Channel
  <2>2. CASE d # c
    <3>1. chan'[d] = chan[d] /\ sent'[d] = sent[d]
      BY <1>1, <2>2 DEF Connects, SetChan, Send, LinkTypes
    <3>2. QED
      BY <2>1, <2>2, <3>1, OthersSteps, Passive DEF View
  <2>3. CASE d = c
    <3>1. ctrlQ[c] = <<>> /\ state'[c] = "UNDEF" /\ TsRateUpdate(state', ctrlQ)
      BY <2>1 DEF NewConnection, OrdersInv, ClientState, TypeOK
    <3>2. /\ ctrlQ'[c] \in Seq(CtrlType) /\ NoOrder(ctrlQ'[c])
      <4>1. ctrlQ[c] \in Seq(CtrlType) /\ NoOrder(ctrlQ[c])
        BY <3>1 DEF NoOrder
      <4>2. NoticeStep(ctrlQ[c], ctrlQ'[c])
        BY <3>1, TsRateSteps DEF TypeOK
      <4>3. NoOrder(ctrlQ'[c])
        BY <4>1, <4>2, NoticeKinds DEF NoticeStep
      <4>4. QED
        BY <4>3 DEF TypeOK
    <3>3. sent[c] = <<>> /\ c \notin changing
      BY <2>1 DEF View
    <3>4. \/ chan'[c] = "UNDEF" /\ sent'[c] = <<>>
          \/ chan'[c] = "HELLO" /\ sent'[c] = <<"HELLO">>
      BY <1>1, <3>3 DEF Connects, SetChan, Send, LinkTypes
    <3>5. InStep(state'[c], ctrlQ'[c], chan'[c], sent'[c])
      BY <3>1, <3>2, <3>4, Connect
    <3>6. c \notin zombies'
      BY <2>1 DEF NewConnection
    <3>7. Connected(c)' /\ chan'[c] # "CHANGING" /\ c \notin changing'
      BY <2>1, <3>3, <3>4 DEF Connected, Channel
    <3>8. View(c)'
      BY <2>1, <3>1, <3>5, <3>6, <3>7 DEF View, ClientState
    <3>9. QED
      BY <2>1, <2>3, <3>8 DEF After
  <2>4. QED
    BY <2>2, <2>3
<1>2. CASE Disconnects(c)
  <2>1. /\ ClientClosed(c) /\ changing' = changing \ {c}
        /\ recvQ' = recvQ /\ zombies' = zombies \cup {c} /\ ctrlQ' = ctrlQ
    BY <1>2 DEF Disconnects, ClientClosed
  <2>2. CASE d # c
    <3>1. chan'[d] = chan[d] /\ sent'[d] = sent[d]
      BY <1>2, <2>2 DEF Disconnects, SetChan, LinkTypes
    <3>2. QED
      BY <2>1, <2>2, <3>1, OthersSteps, Passive DEF View
  <2>3. CASE d = c
    <3>1. chan'[c] = "GONE" /\ sent'[c] = <<>> /\ c \notin changing' /\ recvQ'[c] = 0
      BY <1>2, <2>1 DEF Disconnects, SetChan, LinkTypes, View
    <3>2. ~Connected(c)'
      BY <3>1 DEF Connected, Channel
    <3>3. Len(ctrlQ[c]) \in Nat
      BY DEF TypeOK
    <3>4. QED
      BY <2>1, <2>3, <3>1, <3>2, <3>3 DEF After, View
  <2>4. QED
    BY <2>2, <2>3
<1>3. CASE Sweeps(c)
  <2>1. /\ Terminated(c) /\ c \in zombies /\ zombies' = zombies \ {c}
        /\ chan' = chan /\ changing' = changing /\ sent' = sent
    BY <1>3 DEF Sweeps, Terminated
  <2>2. recvQ'[d] = 0 /\ (d = c => ~Connected(d))
    BY <2>1 DEF Terminated, View, TypeOK
  <2>3. QED
    BY <2>1, <2>2, OthersSteps, Passive
<1>4. QED
  BY <1>1, <1>2, <1>3

LEMMA SendStep ==
  ASSUME Before, NEW c \in Client, NEW d \in Client,
         \/ Changes(c) \/ AsksChannel(c, "ACTIVE") \/ AsksChannel(c, "INACTIVE")
         \/ SetsK(c) \/ Shuts(c) \/ GivesUp(c)
  PROVE  After(d)
<1> USE DEF Before
<1>1. /\ UNCHANGED vars
      /\ d # c => chan'[d] = chan[d] /\ sent'[d] = sent[d] /\ (d \in changing' <=> d \in changing)
  BY DEF Changes, AsksChannel, SetsK, Shuts, GivesUp, Declares, Asks, SetChan, Send, LinkTypes
<1>2. /\ recvQ'[d] = 0 /\ (d \in zombies' => d \in zombies)
      /\ state'[d] = state[d] /\ ctrlQ'[d] = ctrlQ[d]
      /\ BridgeSteps(state[d], ctrlQ[d], state'[d], ctrlQ'[d])
  BY <1>1, BridgeRests
<1>3. CASE d # c
  BY <1>1, <1>2, <1>3, Passive
<1>4. CASE d = c
  <2>1. Connected(c)
    BY DEF Changes, AsksChannel, SetsK, Shuts, GivesUp, Declares, Asks, View
  <2>2. Connected(c)'
    BY <2>1 DEF Changes, AsksChannel, SetsK, Shuts, GivesUp, Declares, Asks, SetChan,
       LinkTypes, Connected, Channel
  <2>3. state'[c] \in ClientState /\ ~(Len(ctrlQ'[c]) < Len(ctrlQ[c]))
    <3>1. Len(ctrlQ[c]) \in Nat
      BY DEF TypeOK
    <3>2. QED
      BY <1>2, <1>4, <2>1, <3>1 DEF View
  <2>4. ASSUME c \notin crossed'
        PROVE  /\ c \in changing' <=> chan'[c] = "CHANGING"
               /\ InStep(state'[c], ctrlQ'[c], chan'[c], sent'[c])
    <3>1. /\ c \notin crossed /\ sent[c] \in Seq(ClientFrame)
          /\ NoDeclaration(sent'[c]) \/ (NoOrder(ctrlQ'[c]) /\ c \notin changing')
      BY <2>2, <2>4, Uncrossed DEF LinkTypes
    <3>2. /\ c \in changing <=> chan[c] = "CHANGING"
          /\ InStep(state[c], ctrlQ[c], chan[c], sent[c])
      BY <2>1, <3>1 DEF View
    <3>3. CASE Changes(c)
      <4>1. /\ chan[c] = "CHANGING" /\ c \notin changing' /\ chan'[c] = "ACTIVE"
            /\ sent'[c] = Append(sent[c], "CHANGE_OK")
        BY <3>2, <3>3 DEF Changes, SetChan, Send, LinkTypes
      <4>2. QED
        BY <1>2, <1>4, <3>1, <3>2, <4>1, ChangeDone
    <3>4. ASSUME NEW type \in {"ACTIVE", "INACTIVE"}, AsksChannel(c, type)
          PROVE  /\ c \in changing' <=> chan'[c] = "CHANGING"
                 /\ InStep(state'[c], ctrlQ'[c], chan'[c], sent'[c])
      <4>1. /\ changing' = changing /\ chan'[c] = chan[c]
            /\ sent'[c] = Append(sent[c], type)
            /\ type \in ClientFrame /\ type \notin Declaration
        BY <3>4 DEF AsksChannel, Asks, Send, LinkTypes, ClientFrame, Declaration
      <4>2. QED
        BY <1>2, <1>4, <3>1, <3>2, <4>1, Request
    <3>5. ASSUME NEW type \in Declaration, Declares(c, DeclaredState(type), type),
                 type = "GIVE_UP" => chan[c] = "ACTIVE"
          PROVE  /\ c \in changing' <=> chan'[c] = "CHANGING"
                 /\ InStep(state'[c], ctrlQ'[c], chan'[c], sent'[c])
      <4>1. /\ changing' = changing /\ chan'[c] = DeclaredState(type)
            /\ sent'[c] = Append(sent[c], type) /\ type \in ClientFrame
        BY <3>5 DEF Declares, Asks, SetChan, Send, LinkTypes, ClientFrame, Declaration
      <4>2. ~NoDeclaration(sent'[c])
        BY <3>1, <4>1, SendKinds
      <4>3. NoOrder(ctrlQ[c]) /\ c \notin changing /\ chan[c] # "CHANGING"
        BY <1>2, <1>4, <3>1, <3>2, <4>1, <4>2
      <4>4. DeclaredState(type) # "CHANGING"
        BY DEF DeclaredState
      <4>5. QED
        BY <1>2, <1>4, <3>1, <3>2, <3>5, <4>1, <4>3, <4>4, Declare
    <3>6. /\ SetsK(c) => Declares(c, DeclaredState("HELLO"), "HELLO")
          /\ Shuts(c) => Declares(c, DeclaredState("SHUT"), "SHUT")
          /\ GivesUp(c) => chan[c] = "ACTIVE" /\ Declares(c, DeclaredState("GIVE_UP"), "GIVE_UP")
          /\ {"HELLO", "SHUT", "GIVE_UP"} \subseteq Declaration
      BY DEF SetsK, Shuts, GivesUp, DeclaredState, Declaration
    <3>7. QED
      BY <3>3, <3>4, <3>5, <3>6
  <2>5. QED
    BY <1>2, <1>4, <2>1, <2>2, <2>3, <2>4, Active
<1>5. QED
  BY <1>3, <1>4

LEMMA HearStep ==
  ASSUME Before, NEW c \in Client, HearsOne(c) \/ Lost(c), NEW d \in Client
  PROVE  After(d)
<1> USE DEF Before
<1>1. SendCtrl(c) /\ ctrlQ[c] # <<>> /\ ctrlQ[c] \in Seq(CtrlType)
  BY HearsSends DEF Lost, SendCtrl, TypeOK
<1>2. /\ state' = state /\ recvQ' = recvQ /\ zombies' = zombies
      /\ ctrlQ'[c] = Tail(ctrlQ[c]) /\ (d # c => ctrlQ'[d] = ctrlQ[d])
  BY <1>1 DEF SendCtrl, TypeOK
<1>3. CASE d # c
  <2>1. chan'[d] = chan[d] /\ sent'[d] = sent[d] /\ (d \in changing' <=> d \in changing)
    BY <1>3 DEF Lost, HearsOne, HearsHelloOk, HearsActive, HearsWait, HearsChange,
       HearsInactive, HearsShutOk, HearsOther, Obeys, SetChan, Send, LinkTypes
  <2>2. ctrlQ[d] \in Seq(CtrlType)
    BY DEF TypeOK
  <2>3. BridgeSteps(state[d], ctrlQ[d], state'[d], ctrlQ'[d])
    BY <1>2, <1>3, <2>2, StepKinds
  <2>4. QED
    BY <1>2, <2>1, <2>3, Passive DEF View
<1>4. CASE d = c /\ Lost(c)
  <2>1. ~Connected(c) /\ chan' = chan /\ changing' = changing /\ sent' = sent
    BY <1>4 DEF Lost, Connected, Channel
  <2>2. QED
    BY <1>2, <1>4, <2>1, Passive DEF View
<1>5. CASE d = c /\ HearsOne(c)
  <2>1. Connected(c) /\ c \notin changing
    BY <1>5, HearsSends
  <2>2. Connected(c)'
    BY <2>1, <1>5 DEF HearsOne, HearsHelloOk, HearsActive, HearsWait, HearsChange,
       HearsInactive, HearsShutOk, HearsOther, Obeys, SetChan, LinkTypes, Connected, Channel
  <2>3. ASSUME c \notin crossed'
        PROVE  /\ c \in changing' <=> chan'[c] = "CHANGING"
               /\ InStep(state'[c], ctrlQ'[c], chan'[c], sent'[c])
    <3> DEFINE h == chan[c]
               q == ctrlQ[c]
    <3>1. c \notin crossed /\ sent[c] \in Seq(ClientFrame)
      BY <2>2, <2>3, Uncrossed DEF LinkTypes
    <3>2. InStep(state[c], q, h, sent[c]) /\ h # "CHANGING"
      BY <2>1, <3>1 DEF View
    <3>3. Head(q) \in CtrlType /\ (IsOrder(Head(q)) => Mirror(h) \in Accepts(Head(q)))
      BY <1>1, <3>2, TailKinds, HeadAccepted DEF InStep
    <3>4. /\ IF IsOrder(Head(q))
             THEN /\ Mirror(chan'[c]) = Effect(Head(q))
                  /\ Head(q) = "CHANGE" => chan'[c] = "CHANGING"
             ELSE chan'[c] = h
          /\ c \in changing' <=> chan'[c] = "CHANGING"
          /\ sent'[c] = sent[c] \/ sent'[c] = Append(sent[c], "ACTIVE")
      BY <1>5, <3>2, <3>3, HearsObeys
    <3>5. InStep(state[c], Tail(q), chan'[c], sent[c])
      <4> HIDE DEF h, q
      <4>1. CASE IsOrder(Head(q))
        BY <1>1, <3>2, <3>4, <4>1, HearOrder DEF q
      <4>2. CASE ~IsOrder(Head(q))
        BY <1>1, <3>2, <3>4, <4>2, HearNotice DEF q
      <4>3. QED
        BY <4>1, <4>2
    <3>6. "ACTIVE" \in ClientFrame /\ "ACTIVE" \notin Declaration
      BY DEF ClientFrame, Declaration
    <3>7. InStep(state[c], Tail(q), chan'[c], sent'[c])
      BY <3>1, <3>4, <3>5, <3>6, Request
    <3>8. QED
      BY <1>2, <3>4, <3>7
  <2>4. QED
    BY <1>2, <1>5, <2>1, <2>2, <2>3, Active DEF View
<1>6. QED
  BY <1>3, <1>4, <1>5

(* The bridge reads what the client has made itself: its answer is an order *)
(* the client accepts.                                                      *)
LEMMA ReadsDeclared ==
  ASSUME Before, NEW c \in Client, NEW type \in Declaration, Reads(c, type),
         NEW order \in CtrlType, NEW t, IsOrder(order), t \in OrderedState(order),
         t # "CHANGING", DeclaredState(type) \in Accepts(order),
         state'[c] = t, ctrlQ'[c] = Append(ctrlQ[c], order),
         Connected(c), Connected(c)', c \notin crossed'
  PROVE  InStep(state'[c], ctrlQ'[c], chan'[c], sent'[c])
<1> USE DEF Before
<1>1. /\ sent[c] \in Seq(ClientFrame) /\ sent[c] # <<>> /\ Head(sent[c]) = type
      /\ sent'[c] = Tail(sent[c]) /\ chan'[c] = chan[c]
      /\ ctrlQ[c] \in Seq(CtrlType)
  BY DEF Reads, LinkTypes, TypeOK
<1>2. ~NoOrder(ctrlQ'[c])
  BY <1>1, PushKinds
<1>3. c \notin crossed /\ NoDeclaration(sent'[c])
  BY <1>2, Uncrossed
<1>4. InStep(state[c], ctrlQ[c], chan[c], sent[c])
  BY <1>3 DEF View
<1>5. QED
  BY <1>1, <1>3, <1>4, ReadDeclaration

LEMMA ReadStep ==
  ASSUME Before, NEW c \in Client, NEW d \in Client,
         \/ ReadsHello(c) \/ ReadsActive(c) \/ ReadsInactive(c)
         \/ ReadsShut(c) \/ ReadsChangeOk(c)
  PROVE  After(d)
<1> USE DEF Before
<1>1. PICK type : Reads(c, type)
  BY DEF ReadsHello, ReadsActive, ReadsInactive, ReadsShut, ReadsChangeOk
<1>2. /\ sent[c] # <<>> /\ sent[c] \in Seq(ClientFrame) /\ Connected(c)
      /\ chan' = chan /\ changing' = changing /\ (d # c => sent'[d] = sent[d])
      /\ sent'[c] = Tail(sent[c])
  BY <1>1 DEF Reads, View, LinkTypes
<1>3. \/ (\E k \in KMin : RecvHello(c, k)) \/ RecvShut(c) \/ RecvChangeOk(c)
      \/ RecvActiveRefused(c) \/ RecvActiveGranted(c) \/ RecvActiveDeferred(c)
      \/ RecvInactive(c) \/ RecvInactiveRefused(c)
  BY DEF ReadsHello, ReadsActive, ReadsInactive, ReadsShut, ReadsChangeOk
<1>4. zombies' = zombies /\ recvQ'[d] = 0
  BY <1>3, QuietFrames DEF View
<1>5. CASE d # c
  BY <1>2, <1>3, <1>4, <1>5, OthersSteps, RequestSteps, Passive
<1>6. CASE d = c
  <2>1. Connected(c)' /\ ctrlQ[c] \in Seq(CtrlType) /\ state[c] \in ClientState
    BY <1>2 DEF Connected, TypeOK, View
  <2>2. ASSUME state'[c] \in ClientState, ~(Len(ctrlQ'[c]) < Len(ctrlQ[c])),
               c \notin crossed' => InStep(state'[c], ctrlQ'[c], chan'[c], sent'[c])
        PROVE  After(d)
    <3>1. ASSUME c \notin crossed'
          PROVE  c \in changing' <=> chan'[c] = "CHANGING"
      BY <1>2, <2>1, <3>1, Uncrossed DEF View
    <3>2. QED
      BY <1>2, <1>4, <1>6, <2>1, <2>2, <3>1, Active
  <2>3. ASSUME NEW order \in CtrlType, ctrlQ'[c] = Append(ctrlQ[c], order)
        PROVE  ~(Len(ctrlQ'[c]) < Len(ctrlQ[c]))
    BY <2>1, <2>3, QueueEnds
  <2>4. c \notin crossed' => InStep(state[c], ctrlQ[c], chan[c], sent[c])
    BY <1>2, <2>1, Uncrossed DEF View
  <2>5. CASE ReadsHello(c)
    <3>1. PICK k \in KMin : RecvHello(c, k)
      BY <2>5 DEF ReadsHello
    <3>2. state'[c] = "CONNECTED" /\ ctrlQ'[c] = Append(ctrlQ[c], "HELLO_OK")
      BY <3>1 DEF RecvHello, UpdateClientState, WaitingFulfilledClients, Push, TypeOK
    <3>3. /\ "HELLO" \in Declaration /\ "HELLO_OK" \in CtrlType /\ IsOrder("HELLO_OK")
          /\ "CONNECTED" \in OrderedState("HELLO_OK") /\ "CONNECTED" \in ClientState
          /\ DeclaredState("HELLO") \in Accepts("HELLO_OK")
      BY OrderTypes DEF Declaration, ClientState, DeclaredState, Accepts
    <3>4. c \notin crossed' => InStep(state'[c], ctrlQ'[c], chan'[c], sent'[c])
      BY <1>2, <2>1, <2>5, <3>2, <3>3, ReadsDeclared DEF ReadsHello
    <3>5. QED
      BY <2>2, <2>3, <3>2, <3>3, <3>4
  <2>6. CASE ReadsShut(c)
    <3>1. RecvShut(c)
      BY <2>6 DEF ReadsShut
    <3>2. state'[c] = "SHUT" /\ ctrlQ'[c] = Append(ctrlQ[c], "SHUT_OK")
      <4> DEFINE s == [state EXCEPT ![c] = "SHUT"]
      <4>1. s \in [Client -> ConnState] /\ s[c] = "SHUT"
        BY DEF TypeOK, ConnState, ClientState
      <4>2. /\ state' = Regroup(s, kmin)
            /\ ctrlQ' = Push(RegroupFrames(s, kmin, ctrlQ), {c}, "SHUT_OK")
        BY <3>1 DEF RecvShut
      <4> HIDE DEF s
      <4>3. Regroup(s, kmin)[c] = "SHUT" /\ RegroupFrames(s, kmin, ctrlQ)[c] = ctrlQ[c]
        BY <4>1, RegroupRests
      <4>4. QED
        BY <4>2, <4>3 DEF Push
    <3>3. /\ "SHUT" \in Declaration /\ "SHUT_OK" \in CtrlType /\ IsOrder("SHUT_OK")
          /\ "SHUT" \in OrderedState("SHUT_OK") /\ "SHUT" \in ClientState
          /\ DeclaredState("SHUT") \in Accepts("SHUT_OK")
      BY OrderTypes DEF Declaration, ClientState, DeclaredState, Accepts, Channel
    <3>4. c \notin crossed' => InStep(state'[c], ctrlQ'[c], chan'[c], sent'[c])
      BY <1>2, <2>1, <2>6, <3>2, <3>3, ReadsDeclared DEF ReadsShut
    <3>5. QED
      BY <2>2, <2>3, <3>2, <3>3, <3>4
  <2>7. CASE ReadsChangeOk(c)
    <3>1. RecvChangeOk(c) /\ Head(sent[c]) = "CHANGE_OK"
      BY <2>7 DEF ReadsChangeOk, Reads
    <3>2. state'[c] = Mirror(state[c]) /\ ctrlQ'[c] = ctrlQ[c]
      BY <3>1 DEF RecvChangeOk, Mirror, TypeOK
    <3>3. Mirror(state[c]) \in ClientState /\ Len(ctrlQ[c]) \in Nat
      BY <2>1 DEF Mirror, ClientState
    <3>4. c \notin crossed' => InStep(state'[c], ctrlQ'[c], chan'[c], sent'[c])
      BY <1>2, <2>1, <2>4, <3>1, <3>2, ReadChangeOk
    <3>5. QED
      BY <2>2, <3>2, <3>3, <3>4
  <2>8. ASSUME \/ RecvActiveRefused(c) \/ RecvActiveGranted(c) \/ RecvActiveDeferred(c)
               \/ RecvInactive(c) \/ RecvInactiveRefused(c),
               Head(sent[c]) \in {"ACTIVE", "INACTIVE"}
        PROVE  After(d)
    <3>1. BridgeSteps(state[c], ctrlQ[c], state'[c], ctrlQ'[c])
      BY <2>8, RequestSteps
    <3>2. state'[c] \in ClientState /\ ~(Len(ctrlQ'[c]) < Len(ctrlQ[c]))
      BY <2>1, <3>1, StepsFacts
    <3>3. ASSUME c \notin crossed'
          PROVE  InStep(state'[c], ctrlQ'[c], chan'[c], sent'[c])
      <4>1. InStep(state[c], ctrlQ[c], chan[c], sent'[c])
        BY <1>2, <2>1, <2>4, <2>8, <3>3, ReadRequest
      <4>2. NoDeclaration(sent'[c]) \/ NoOrder(ctrlQ'[c])
        BY <2>1, <3>3, Uncrossed
      <4>3. QED
        BY <1>2, <2>1, <3>1, <4>1, <4>2, StepsKeepStep
    <3>4. QED
      BY <2>2, <3>2, <3>3
  <2>9. CASE ReadsActive(c)
    BY <2>8, <2>9 DEF ReadsActive, Reads
  <2>10. CASE ReadsInactive(c)
    <3>1. CASE Reads(c, "INACTIVE")
      BY <2>8, <2>10, <3>1 DEF ReadsInactive, Reads
    <3>2. CASE Reads(c, "GIVE_UP") /\ RecvInactive(c)
      <4>1. state'[c] = "INACTIVE" /\ ctrlQ'[c] = Append(ctrlQ[c], "INACTIVE")
        BY <3>2 DEF RecvInactive, Push, TypeOK
      <4>2. /\ "GIVE_UP" \in Declaration /\ "INACTIVE" \in CtrlType /\ IsOrder("INACTIVE")
            /\ "INACTIVE" \in OrderedState("INACTIVE") /\ "INACTIVE" \in ClientState
            /\ DeclaredState("GIVE_UP") \in Accepts("INACTIVE")
        BY OrderTypes DEF Declaration, ClientState, DeclaredState, Accepts, Channel
      <4>3. c \notin crossed' => InStep(state'[c], ctrlQ'[c], chan'[c], sent'[c])
        BY <1>2, <2>1, <3>2, <4>1, <4>2, ReadsDeclared
      <4>4. QED
        BY <2>2, <2>3, <4>1, <4>2, <4>3
    <3>3. CASE Reads(c, "GIVE_UP") /\ RecvInactiveRefused(c)
      <4>1. BridgeSteps(state[c], ctrlQ[c], state'[c], ctrlQ'[c])
        BY <3>3, RequestSteps
      <4>2. state'[c] \in ClientState /\ ~(Len(ctrlQ'[c]) < Len(ctrlQ[c]))
        BY <2>1, <4>1, StepsFacts
      <4>3. ASSUME c \notin crossed'
            PROVE  FALSE
        <5>1. state[c] # "ACTIVE" /\ Head(sent[c]) = "GIVE_UP"
          BY <3>3 DEF RecvInactiveRefused, Reads
        <5>2. 1 \in 1 .. Len(sent[c]) /\ sent[c][1] = "GIVE_UP"
          BY <1>2, <5>1, QueueEnds
        <5>3. \A j \in 1 .. 1 - 1 : FALSE
          OBVIOUS
        <5>4. QED
          BY <2>4, <4>3, <5>1, <5>2, <5>3 DEF InStep, GivesUpActive
      <4>4. QED
        BY <2>2, <4>2, <4>3
    <3>4. QED
      BY <2>10, <3>1, <3>2, <3>3 DEF ReadsInactive
  <2>11. QED
    BY <2>5, <2>6, <2>7, <2>9, <2>10
<1>7. QED
  BY <1>5, <1>6

-----------------------------------------------------------------------------
(* The invariant holds.                                                     *)
LEMMA TorKInitially == TorKInit => TorKInv
<1> SUFFICES ASSUME TorKInit PROVE TorKInv
  OBVIOUS
<1>1. TypeOK /\ OrdersInv
  BY TypeInit, OrdersInit DEF TorKInit
<1>2. <<>> \in Seq(ClientFrame)
  OBVIOUS
<1>3. LinkTypes
  <2>1. sent \in [Client -> Seq(ClientFrame)]
    BY <1>2, Zenon DEF TorKInit
  <2>2. QED
    BY <2>1 DEF TorKInit, LinkTypes
<1>4. \A d \in Client : ~Connected(d)
  BY DEF TorKInit, Connected, Channel
<1>5. \A d \in Client : View(d)
  BY <1>4 DEF TorKInit, Init, View
<1>6. QED
  BY <1>1, <1>3, <1>5, Views

LEMMA TorKAfter ==
  ASSUME TorKInv, TorKNext
  PROVE  TypeOK' /\ OrdersInv' /\ LinkTypes' /\ \A d \in Client : After(d)
<1>1. TypeOK /\ OrdersInv /\ LinkTypes /\ \A d \in Client : View(d)
  BY Views
<1>2. TypeOK' /\ OrdersInv'
  BY <1>1, BridgeStep, TypeStep, OrdersStep
<1>3. LinkTypes'
  BY <1>1, LinkTypesStep
<1>4. Before
  BY <1>1, <1>2, <1>3, TorKCases DEF Before
<1>5. \A d \in Client : After(d)
  BY <1>4, TorKCases, LinkStep, SendStep, HearStep, ReadStep
<1>6. QED
  BY <1>2, <1>3, <1>5

LEMMA TorKStep ==
  ASSUME TorKInv, [TorKNext]_allVars
  PROVE  TorKInv'
<1>1. CASE TorKNext
  <2>1. TypeOK' /\ OrdersInv' /\ LinkTypes' /\ \A d \in Client : View(d)'
    BY <1>1, TorKAfter DEF After
  <2>2. QED
    BY <2>1 DEF TorKInv, LinkInv, AgreeInv, LinkTypes, View
<1>2. CASE UNCHANGED allVars
  BY <1>2 DEF allVars, clientVars, vars, TorKInv, TypeOK, OrdersInv, OrdersMatchState, LinkInv,
     AgreeInv, Connected
<1>3. QED
  BY <1>1, <1>2

(* Orders and declarations of a client that has not crossed the bridge are  *)
(* never on their way together, every order finds the channel as it accepts *)
(* it, and both ends come to the same state when all is heard and read.     *)
THEOREM TorKInvariant == TorKSpec => []TorKInv
<1>1. QED
  BY TorKInitially, TorKStep, PTL DEF TorKSpec

(* Once nothing is on its way between a client and the bridge, both give    *)
(* the channel the same state: however many clients there are and whatever  *)
(* they have asked for, granting, delaying and changing circuits for one    *)
(* client leaves none of the others with a state the bridge has not got,    *)
(* unless the client has set its own state while an order was on its way.   *)
THEOREM AgreeCorrect == TorKSpec => []AgreeWhenQuiet
<1>1. ASSUME TorKInv
      PROVE  AgreeWhenQuiet
  <2> SUFFICES ASSUME NEW c \in Client \ crossed, Connected(c), ~InFlight(c)
               PROVE  chan[c] = state[c]
    BY DEF AgreeWhenQuiet
  <2>1. /\ c \in changing <=> chan[c] = "CHANGING"
        /\ InStep(state[c], ctrlQ[c], chan[c], sent[c])
    BY <1>1 DEF TorKInv, AgreeInv
  <2>2. ctrlQ[c] = <<>> /\ sent[c] = <<>> /\ chan[c] # "CHANGING"
    BY <2>1 DEF InFlight
  <2>3. NoOrder(<<>>) /\ NoDeclaration(<<>>)
    BY DEF NoOrder, NoDeclaration
  <2>4. Mirror(state[c]) = Mirror(chan[c])
    BY <2>1, <2>2, <2>3 DEF InStep
  <2>5. state[c] # "CHANGING"
    BY <2>1, <2>2 DEF InStep, Answered
  <2>6. QED
    BY <2>2, <2>4, <2>5 DEF Mirror
<1>2. QED
  BY <1>1, TorKInvariant, PTL

(* For a client that the bridge has as CHANGING there is the order, the     *)
(* handler at work, or the answer.                                          *)
ChangeIsUnderWay ==
  \A c \in Client \ crossed :
    Connected(c) /\ state[c] = "CHANGING" =>
      \/ c \in changing
      \/ \E i \in 1 .. Len(ctrlQ[c]) : ctrlQ[c][i] = "CHANGE"
      \/ \E i \in 1 .. Len(sent[c]) : sent[c][i] = "CHANGE_OK"

(* Order, handler and answer of a change of circuit are never all missing:  *)
(* the bridge does not wait for a CHANGE_OK that nobody will send.  This is *)
(* the part of ChangeEnds that does not need fairness.                      *)
THEOREM ChangeCorrect == TorKSpec => []ChangeIsUnderWay
<1>1. TorKInv => ChangeIsUnderWay
  BY DEF TorKInv, AgreeInv, InStep, Answered, ChangeIsUnderWay
<1>2. QED
  BY <1>1, TorKInvariant, PTL

(* A client in step that takes an order from its queue obeys it.            *)
LEMMA ObeyedStep ==
  ASSUME TorKInv, [TorKNext]_allVars
  PROVE  [\A c \in Client \ crossed :
            Connected(c) /\ Len(ctrlQ'[c]) < Len(ctrlQ[c]) /\ IsOrder(Head(ctrlQ[c])) =>
              chan'[c] \in OrderedState(Head(ctrlQ[c]))]_allVars
<1> SUFFICES ASSUME TorKNext, NEW c \in Client \ crossed, Connected(c),
                    Len(ctrlQ'[c]) < Len(ctrlQ[c]), IsOrder(Head(ctrlQ[c]))
             PROVE  chan'[c] \in OrderedState(Head(ctrlQ[c]))
  OBVIOUS
<1>1. HearsOne(c)
  BY TorKAfter DEF After
<1>2. /\ c \in changing <=> chan[c] = "CHANGING"
      /\ InStep(state[c], ctrlQ[c], chan[c], sent[c])
      /\ LinkTypes /\ ctrlQ[c] \in Seq(CtrlType)
  BY DEF TorKInv, AgreeInv, LinkInv, LinkTypes, TypeOK
<1>3. chan[c] # "CHANGING" /\ ctrlQ[c] # <<>>
  BY <1>1, <1>2, HearsSends
<1>4. Head(ctrlQ[c]) \in CtrlType /\ Mirror(chan[c]) \in Accepts(Head(ctrlQ[c]))
  BY <1>2, <1>3, TailKinds, HeadAccepted DEF InStep
<1>5. QED
  BY <1>1, <1>2, <1>3, <1>4, HearsObeys

(* No order of the bridge is ignored by a client that has not crossed it:   *)
(* when the client takes an order from its queue, its channel accepts it    *)
(* and comes to the state for which the bridge has sent it.                 *)
THEOREM ObeyedCorrect == TorKSpec => OrdersAreObeyed
<1>1. QED
  BY TorKInitially, TorKStep, ObeyedStep, PTL DEF TorKSpec, OrdersAreObeyed
=============================================================================
