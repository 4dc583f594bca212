----------------------- MODULE ControllerServer_proofs -----------------------
(***************************************************************************)
(* Theorems about ControllerServer for every set of clients, every k_min   *)
(* and every setting of the two switches, with their proofs; at the end    *)
(* those about its rounds of delivery, for which SyncDelivery watches it.  *)
(***************************************************************************)
EXTENDS SyncDelivery, FiniteSetTheorems, TLAPS

-----------------------------------------------------------------------------
(* Facts about the operators the handlers are built from.                  *)

(* The group sizes are natural numbers, and they grow with the group.       *)
LEMMA GroupSizes ==
  ASSUME NEW s
  PROVE  /\ IsFiniteSet(Valid(s))
         /\ ConnectedClients(s) \in Nat
         /\ IsFiniteSet(Registered(s))
         /\ Cardinality(Registered(s)) \in Nat
<1>1. Valid(s) \in SUBSET Client /\ Registered(s) \in SUBSET Client
  BY DEF Valid, Registered
<1>2. IsFiniteSet(Valid(s)) /\ IsFiniteSet(Registered(s))
  BY <1>1, ConstantsAssumption, FS_Subset
<1>3. QED
  BY <1>2, FS_CardinalityType DEF ConnectedClients

LEMMA GroupGrows ==
  ASSUME NEW s, NEW t, Valid(s) \subseteq Valid(t)
  PROVE  ConnectedClients(s) <= ConnectedClients(t)
<1>1. IsFiniteSet(Valid(t)) /\ Valid(s) \in SUBSET Valid(t)
  BY GroupSizes
<1>2. QED
  BY <1>1, FS_Subset DEF ConnectedClients

(* RateFor computes a rate. *)
LEMMA RateForType ==
  ASSUME NEW n \in Nat
  PROVE  RateFor(n) \in Nat
<1>1. TsMin \in Nat /\ TsMax \in Nat
  BY ConstantsAssumption
<1>2. n * TsMin \in Nat
  BY <1>1, SMT
<1>3. QED
  BY <1>1, <1>2 DEF RateFor

(* Pushing frames keeps queues of CTRL frames. *)
LEMMA PushType ==
  ASSUME NEW q \in [Client -> Seq(CtrlType)], NEW S, NEW type \in CtrlType
  PROVE  Push(q, S, type) \in [Client -> Seq(CtrlType)]
BY DEF Push

LEMMA TsRateUpdateType ==
  ASSUME NEW s, NEW q \in [Client -> Seq(CtrlType)], rate \in Nat, TsRateUpdate(s, q)
  PROVE  ctrlQ' \in [Client -> Seq(CtrlType)] /\ rate' \in Nat
<1>1. CASE DisableDynamicRate
  BY <1>1 DEF TsRateUpdate
<1>2. CASE ~DisableDynamicRate
  <2>1. Push(q, Registered(s), "TS_RATE") \in [Client -> Seq(CtrlType)]
    BY PushType DEF CtrlType
  <2>2. RateFor(Cardinality(Registered(s))) \in Nat
    BY GroupSizes, RateForType
  <2>3. QED
    BY <1>2, <2>1, <2>2 DEF TsRateUpdate, OrderTsRate
<1>3. QED
  BY <1>1, <1>2

(* What order_WAIT and order_CHANGE do to each client, and that they move   *)
(* clients only between states that count in the group.                     *)
LEMMA OrderWaitFacts ==
  ASSUME NEW s \in [Client -> ConnState], NEW k
  PROVE  /\ OrderWait(s, k) \in [Client -> ConnState]
         /\ Valid(OrderWait(s, k)) = Valid(s)
         /\ \A d \in Client :
              OrderWait(s, k)[d] = IF s[d] = "ACTIVE" /\ IsClientBroken(s, k, d)
                                   THEN "WAIT" ELSE s[d]
BY DEF OrderWait, UpdateClientState, BrokenClients, Valid, ValidStates,
       ClientState, ConnState

LEMMA OrderChangeFacts ==
  ASSUME NEW s \in [Client -> ConnState], NEW k
  PROVE  /\ OrderChange(s, k) \in [Client -> ConnState]
         /\ Valid(OrderChange(s, k)) = Valid(s)
         /\ \A d \in Client :
              OrderChange(s, k)[d] =
                IF ~DisableCircChange /\ s[d] = "ACTIVE" /\ ~IsClientBroken(s, k, d)
                THEN "CHANGING" ELSE s[d]
BY DEF OrderChange, ToChange, UpdateClientState, FulfilledClients, Valid,
       ValidStates, ClientState, ConnState

LEMMA RegroupFacts ==
  ASSUME NEW s \in [Client -> ConnState], NEW k
  PROVE  /\ Regroup(s, k) \in [Client -> ConnState]
         /\ Valid(Regroup(s, k)) = Valid(s)
         /\ ConnectedClients(Regroup(s, k)) = ConnectedClients(s)
         /\ \A d \in Client :
              Regroup(s, k)[d] =
                IF s[d] # "ACTIVE" THEN s[d]
                ELSE IF IsClientBroken(s, k, d) THEN "WAIT"
                ELSE IF DisableCircChange THEN "ACTIVE" ELSE "CHANGING"
<1> DEFINE w == OrderWait(s, k)
<1>1. /\ w \in [Client -> ConnState]
      /\ Valid(w) = Valid(s)
      /\ \A d \in Client : w[d] = IF s[d] = "ACTIVE" /\ IsClientBroken(s, k, d)
                                  THEN "WAIT" ELSE s[d]
  BY OrderWaitFacts
<1>2. /\ OrderChange(w, k) \in [Client -> ConnState]
      /\ Valid(OrderChange(w, k)) = Valid(w)
      /\ \A d \in Client : OrderChange(w, k)[d] =
            IF ~DisableCircChange /\ w[d] = "ACTIVE" /\ ~IsClientBroken(w, k, d)
            THEN "CHANGING" ELSE w[d]
  BY <1>1, OrderChangeFacts
<1>3. ConnectedClients(w) = ConnectedClients(s)
  BY <1>1 DEF ConnectedClients
<1>4. ConnectedClients(OrderChange(w, k)) = ConnectedClients(s)
  BY <1>1, <1>2 DEF ConnectedClients
<1>5. \A d \in Client : IsClientBroken(w, k, d) <=> IsClientBroken(s, k, d)
  BY <1>3 DEF IsClientBroken
<1>6. Regroup(s, k) = OrderChange(w, k)
  BY DEF Regroup
<1> HIDE DEF w
<1>7. \A d \in Client :
        OrderChange(w, k)[d] =
          IF s[d] # "ACTIVE" THEN s[d]
          ELSE IF IsClientBroken(s, k, d) THEN "WAIT"
          ELSE IF DisableCircChange THEN "ACTIVE" ELSE "CHANGING"
  BY <1>1, <1>2, <1>5
<1>8. QED
  BY <1>1, <1>2, <1>4, <1>6, <1>7

(* The clients whose state a departure changes are those it cuts off.       *)
LEMMA RegroupCloses ==
  ASSUME NEW s \in [Client -> ConnState], NEW k, NEW d \in Client,
         d \notin RegroupClosed(s, k)
  PROVE  Regroup(s, k)[d] = s[d]
<1>1. d \notin BrokenClients(s, k) /\ d \notin ToChange(OrderWait(s, k), k)
  BY DEF RegroupClosed
<1>2. OrderWait(s, k)[d] = s[d]
  BY <1>1 DEF OrderWait, UpdateClientState
<1>3. QED
  BY <1>1, <1>2 DEF Regroup, OrderChange, UpdateClientState

(* A round keeps the reception queues within their bound, restores segments *)
(* only for ACTIVE clients, and closes none.                                *)
LEMMA RoundFacts ==
  ASSUME NEW s, NEW recv \in [Client -> 0 .. MaxRecv],
         NEW marks \in [Client -> BOOLEAN], NEW opened \in SUBSET Client,
         zombies \subseteq Client,
         HandleReceptionFrames(s, recv, marks, opened)
  PROVE  /\ recvQ' \in [Client -> 0 .. MaxRecv]
         /\ mark' \in [Client -> BOOLEAN]
         /\ open' \subseteq Client
         /\ zombies' \subseteq Client
         /\ \A d \in Client : d \in open' => d \in opened \/ s[d] = "ACTIVE"
<1>0. MaxRecv \in Nat
  BY ConstantsAssumption
<1>1. CASE ~ReceivedAll(s, recv, marks)
  BY <1>1 DEF HandleReceptionFrames
<1>2. CASE ReceivedAll(s, recv, marks)
  <2>1. PICK blocked \in SUBSET ToDeliver(s, recv) :
        \E failed \in SUBSET (ToDeliver(s, recv) \ blocked) :
         /\ recvQ' = [d \in Client |->
                        IF d \in Valid(s) \ blocked /\ recv[d] > 0
                        THEN recv[d] - 1 ELSE recv[d]]
         /\ mark' = [d \in Client |->
                        marks[d] /\ ~(d \in Valid(s) /\ recv[d] = 0)]
         /\ open' = opened \cup ToDeliver(s, recv)
         /\ zombies' = zombies \cup failed
    BY <1>2 DEF HandleReceptionFrames, MarksLeft
  <2>2. ToDeliver(s, recv) \subseteq Client
        /\ \A d \in ToDeliver(s, recv) : s[d] = "ACTIVE"
    BY DEF ToDeliver
  <2>3. recvQ' \in [Client -> 0 .. MaxRecv]
    BY <1>0, <2>1
  <2>4. mark' \in [Client -> BOOLEAN]
    BY <2>1
  <2>5. QED
    BY <2>1, <2>2, <2>3, <2>4
<1>3. QED
  BY <1>1, <1>2

LEMMA MarkFacts ==
  ASSUME TypeOK, NEW c \in Client, NEW s, NEW opened \in SUBSET Client,
         MarkAndDeliver(c, s, opened)
  PROVE  /\ recvQ' \in [Client -> 0 .. MaxRecv]
         /\ mark' \in [Client -> BOOLEAN]
         /\ open' \subseteq Client
         /\ zombies' \subseteq Client
         /\ \A d \in Client : d \in open' => d \in opened \/ s[d] = "ACTIVE"
<1>1. [mark EXCEPT ![c] = TRUE] \in [Client -> BOOLEAN]
  BY DEF TypeOK
<1>2. QED
  BY <1>1, RoundFacts DEF TypeOK, MarkAndDeliver

-----------------------------------------------------------------------------
(* The actions, one per handler, as Next combines them.                     *)
LEMMA NextCases ==
  ASSUME Next
  PROVE  \/ \E c \in Client :
              \/ AcceptPending(c) \/ NewConnection(c) \/ AcceptFails(c)
              \/ ClientClosed(c) \/ Terminated(c) \/ LocalError(c)
              \/ RecvIgnored(c) \/ RecvData(c)
              \/ (\E k \in KMin : RecvHello(c, k))
              \/ RecvActiveRefused(c) \/ RecvActiveGranted(c)
              \/ RecvActiveDeferred(c) \/ RecvChangeOk(c)
              \/ RecvInactive(c) \/ RecvInactiveRefused(c) \/ RecvShut(c)
              \/ SendCtrl(c)
         \/ CliTsRate
BY DEF Next, Socket, RecvCtrl

(* Type correctness is preserved by every step. *)
LEMMA TypeStep ==
  ASSUME TypeOK, [Next]_vars
  PROVE  TypeOK'
<1> USE DEF TypeOK
<1>1. CASE UNCHANGED vars
  BY <1>1 DEF vars
<1>2. ASSUME NEW c \in Client, AcceptPending(c)
      PROVE  TypeOK'
  BY <1>2 DEF AcceptPending, ConnState
<1>3. ASSUME NEW c \in Client, NewConnection(c)
      PROVE  TypeOK'
  <2>1. ctrlQ' \in [Client -> Seq(CtrlType)] /\ rate' \in Nat
    BY <1>3, TsRateUpdateType DEF NewConnection
  <2>2. state' \in [Client -> ConnState] /\ ts' \in {"IDLE", "ON"}
    BY <1>3 DEF NewConnection, ConnState, ClientState
  <2>3. QED
    BY <1>3, <2>1, <2>2 DEF NewConnection
<1>4. ASSUME NEW c \in Client, AcceptFails(c)
      PROVE  TypeOK'
  BY <1>4 DEF AcceptFails, ConnState
<1>5. ASSUME NEW c \in Client, ClientClosed(c)
      PROVE  TypeOK'
  BY <1>5 DEF ClientClosed
<1>6. ASSUME NEW c \in Client, Terminated(c)
      PROVE  TypeOK'
  <2> DEFINE left  == [state EXCEPT ![c] = "ABSENT"]
             queue == [ctrlQ EXCEPT ![c] = <<>>]
  <2>1. left \in [Client -> ConnState] /\ queue \in [Client -> Seq(CtrlType)]
    BY DEF ConnState
  <2>2. kmin' \in [Client -> Int]
    BY <1>6 DEF Terminated, KMinUndef
  <2>3. recvQ' \in [Client -> 0 .. MaxRecv]
    BY <1>6, ConstantsAssumption DEF Terminated
  <2>4. /\ mark' \in [Client -> BOOLEAN]
        /\ zombies' \subseteq Client
        /\ sweeping' \in BOOLEAN
    BY <1>6 DEF Terminated
  <2>5. CASE Registered(left) = {}
    <3>1. /\ state' = left /\ ctrlQ' = queue /\ open' = open \ {c}
          /\ ts' = "IDLE" /\ rate' = rate
      BY <1>6, <2>5 DEF Terminated
    <3> HIDE DEF left, queue
    <3>2. QED
      BY <3>1, <2>1, <2>2, <2>3, <2>4
  <2>6. CASE Registered(left) # {}
    <3>1. /\ state' = Regroup(left, kmin)
          /\ TsRateUpdate(left, RegroupFrames(left, kmin, queue))
          /\ open' = open \ ({c} \cup RegroupClosed(left, kmin))
          /\ ts' = ts
      BY <1>6, <2>6 DEF Terminated
    <3> HIDE DEF left, queue
    <3>2. RegroupFrames(left, kmin, queue) \in [Client -> Seq(CtrlType)]
      BY <2>1, PushType DEF RegroupFrames, CtrlType
    <3>3. ctrlQ' \in [Client -> Seq(CtrlType)] /\ rate' \in Nat
      BY <3>1, <3>2, TsRateUpdateType
    <3>4. state' \in [Client -> ConnState]
      BY <2>1, <3>1, RegroupFacts
    <3>5. QED
      BY <3>1, <3>3, <3>4, <2>2, <2>3, <2>4
  <2>7. QED
    BY <2>5, <2>6
<1>7. ASSUME NEW c \in Client, LocalError(c)
      PROVE  TypeOK'
  BY <1>7 DEF LocalError
<1>8. ASSUME NEW c \in Client, RecvIgnored(c)
      PROVE  TypeOK'
  <2>1. MarkAndDeliver(c, state, open)
    BY <1>8 DEF RecvIgnored
  <2>2. QED
    BY <1>8, <2>1, MarkFacts DEF RecvIgnored
<1>9. ASSUME NEW c \in Client, RecvData(c)
      PROVE  TypeOK'
  <2> DEFINE recv == [recvQ EXCEPT ![c] = @ + 1]
  <2>1. recv \in [Client -> 0 .. MaxRecv]
    BY <1>9, ConstantsAssumption DEF RecvData
  <2>2. HandleReceptionFrames(state, recv, mark, open)
    BY <1>9 DEF RecvData
  <2> HIDE DEF recv
  <2>3. QED
    BY <1>9, <2>1, <2>2, RoundFacts DEF RecvData
<1>10. ASSUME NEW c \in Client, NEW k \in KMin, RecvHello(c, k)
       PROVE  TypeOK'
  <2> DEFINE s     == [state EXCEPT ![c] = "CONNECTED"]
             woken == WaitingFulfilledClients(s, kmin')
  <2>1. /\ state' = UpdateClientState(s, woken, "ACTIVE")
        /\ ctrlQ' = Push(Push(ctrlQ, {c}, "HELLO_OK"), woken, "ACTIVE")
        /\ MarkAndDeliver(c, state', open \cup woken)
    BY <1>10 DEF RecvHello
  <2>2. s \in [Client -> ConnState] /\ woken \subseteq Client
    BY DEF ConnState, ClientState, WaitingFulfilledClients
  <2> HIDE DEF s, woken
  <2>3. state' \in [Client -> ConnState]
    BY <2>1, <2>2 DEF UpdateClientState, ConnState, ClientState
  <2>4. ctrlQ' \in [Client -> Seq(CtrlType)]
    BY <2>1, PushType DEF CtrlType
  <2>5. kmin' \in [Client -> Int]
    BY <1>10, ConstantsAssumption DEF RecvHello
  <2>6. open \cup woken \in SUBSET Client
    BY <2>2
  <2>7. QED
    BY <1>10, <2>1, <2>3, <2>4, <2>5, <2>6, MarkFacts DEF RecvHello
<1>11. ASSUME NEW c \in Client, RecvActiveRefused(c)
       PROVE  TypeOK'
  <2>1. ctrlQ' \in [Client -> Seq(CtrlType)]
    BY <1>11, PushType DEF RecvActiveRefused, CtrlType
  <2>2. QED
    BY <1>11, <2>1, MarkFacts DEF RecvActiveRefused
<1>12. ASSUME NEW c \in Client, RecvActiveGranted(c)
       PROVE  TypeOK'
  <2> DEFINE changed == ToChange(state, kmin)
  <2>1. /\ state' = [OrderChange(state, kmin) EXCEPT ![c] = "ACTIVE"]
        /\ ctrlQ' = Push(Push(ctrlQ, changed, "CHANGE"), {c}, "ACTIVE")
        /\ MarkAndDeliver(c, state', (open \ changed) \cup {c})
    BY <1>12 DEF RecvActiveGranted
  <2>2. state' \in [Client -> ConnState]
    BY <2>1, OrderChangeFacts DEF ConnState, ClientState
  <2> HIDE DEF changed
  <2>3. ctrlQ' \in [Client -> Seq(CtrlType)]
    BY <2>1, PushType DEF CtrlType
  <2>4. (open \ changed) \cup {c} \in SUBSET Client
    OBVIOUS
  <2>5. QED
    BY <1>12, <2>1, <2>2, <2>3, <2>4, MarkFacts DEF RecvActiveGranted
<1>13. ASSUME NEW c \in Client, RecvActiveDeferred(c)
       PROVE  TypeOK'
  <2>1. ctrlQ' \in [Client -> Seq(CtrlType)]
    BY <1>13, PushType DEF RecvActiveDeferred, CtrlType
  <2>2. state' \in [Client -> ConnState]
    BY <1>13 DEF RecvActiveDeferred, ConnState, ClientState
  <2>3. MarkAndDeliver(c, state', open \ {c}) /\ open \ {c} \in SUBSET Client
    BY <1>13 DEF RecvActiveDeferred
  <2>4. /\ recvQ' \in [Client -> 0 .. MaxRecv]
        /\ mark' \in [Client -> BOOLEAN]
        /\ open' \subseteq Client
        /\ zombies' \subseteq Client
    BY <2>3, MarkFacts
  <2>5. QED
    BY <1>13, <2>1, <2>2, <2>4 DEF RecvActiveDeferred
<1>14. ASSUME NEW c \in Client, RecvChangeOk(c)
       PROVE  TypeOK'
  <2>1. state' \in [Client -> ConnState]
    BY <1>14 DEF RecvChangeOk, ConnState, ClientState
  <2>2. PICK opened \in SUBSET Client : MarkAndDeliver(c, state', opened)
    BY <1>14 DEF RecvChangeOk
  <2>3. /\ recvQ' \in [Client -> 0 .. MaxRecv]
        /\ mark' \in [Client -> BOOLEAN]
        /\ open' \subseteq Client
        /\ zombies' \subseteq Client
    BY <2>2, MarkFacts
  <2>4. QED
    BY <1>14, <2>1, <2>3 DEF RecvChangeOk
<1>15. ASSUME NEW c \in Client, RecvInactive(c)
       PROVE  TypeOK'
  <2>1. ctrlQ' \in [Client -> Seq(CtrlType)]
    BY <1>15, PushType DEF RecvInactive, CtrlType
  <2>2. state' \in [Client -> ConnState]
    BY <1>15 DEF RecvInactive, ConnState, ClientState
  <2>3. MarkAndDeliver(c, state', open \ {c}) /\ open \ {c} \in SUBSET Client
    BY <1>15 DEF RecvInactive
  <2>4. /\ recvQ' \in [Client -> 0 .. MaxRecv]
        /\ mark' \in [Client -> BOOLEAN]
        /\ open' \subseteq Client
        /\ zombies' \subseteq Client
    BY <2>3, MarkFacts
  <2>5. QED
    BY <1>15, <2>1, <2>2, <2>4 DEF RecvInactive
<1>16. ASSUME NEW c \in Client, RecvInactiveRefused(c)
       PROVE  TypeOK'
  <2>1. ctrlQ' \in [Client -> Seq(CtrlType)]
    BY <1>16, PushType DEF RecvInactiveRefused, CtrlType
  <2>2. QED
    BY <1>16, <2>1, MarkFacts DEF RecvInactiveRefused
<1>17. ASSUME NEW c \in Client, RecvShut(c)
       PROVE  TypeOK'
  <2> DEFINE s == [state EXCEPT ![c] = "SHUT"]
  <2>1. /\ state' = Regroup(s, kmin)
        /\ ctrlQ' = Push(RegroupFrames(s, kmin, ctrlQ), {c}, "SHUT_OK")
        /\ MarkAndDeliver(c, state', open \ RegroupClosed(s, kmin))
    BY <1>17 DEF RecvShut
  <2>2. s \in [Client -> ConnState]
    BY DEF ConnState, ClientState
  <2> HIDE DEF s
  <2>3. state' \in [Client -> ConnState]
    BY <2>1, <2>2, RegroupFacts
  <2>4. ctrlQ' \in [Client -> Seq(CtrlType)]
    BY <2>1, PushType DEF RegroupFrames, CtrlType
  <2>5. QED
    BY <1>17, <2>1, <2>3, <2>4, MarkFacts DEF RecvShut
<1>18. ASSUME NEW c \in Client, SendCtrl(c)
       PROVE  TypeOK'
  BY <1>18 DEF SendCtrl
<1>19. CASE CliTsRate
  <2>1. ctrlQ' = Push(ctrlQ, Registered(state), "TS_RATE")
    BY <1>19 DEF CliTsRate, OrderTsRate
  <2>2. ctrlQ' \in [Client -> Seq(CtrlType)]
    BY <2>1, PushType DEF CtrlType
  <2>3. QED
    BY <1>19, <2>2 DEF CliTsRate
<1>20. QED
  BY <1>1, <1>2, <1>3, <1>4, <1>5, <1>6, <1>7, <1>8, <1>9, <1>10, <1>11, <1>12,
     <1>13, <1>14, <1>15, <1>16, <1>17, <1>18, <1>19, NextCases

LEMMA TypeInit == Init => TypeOK
<1> SUFFICES ASSUME Init PROVE TypeOK
  OBVIOUS
<1>1. state \in [Client -> ConnState]
  BY DEF Init, ConnState
<1>2. kmin \in [Client -> Int]
  BY DEF Init, KMinUndef
<1>3. <<>> \in Seq(CtrlType)
  OBVIOUS
<1>4. ctrlQ \in [Client -> Seq(CtrlType)]
  BY <1>3, Zenon DEF Init
<1>5. recvQ \in [Client -> 0 .. MaxRecv]
  BY ConstantsAssumption DEF Init
<1>6. mark \in [Client -> BOOLEAN]
  BY DEF Init
<1>7. /\ open \subseteq Client /\ zombies \subseteq Client
      /\ sweeping \in BOOLEAN /\ ts \in {"IDLE", "ON"} /\ rate \in Nat
  BY ConstantsAssumption DEF Init
<1>8. QED
  BY <1>1, <1>2, <1>4, <1>5, <1>6, <1>7 DEF TypeOK

(* Every variable keeps its type, and the reception queues their bound, for *)
(* any number of clients.                                                   *)
THEOREM TypeCorrect == Spec => []TypeOK
<1>1. QED
  BY TypeInit, TypeStep, PTL DEF Spec

-----------------------------------------------------------------------------
(* What one step may do to the states and to the size of the group, as the  *)
(* client d sees it.  A client that waits after the step is broken, or it   *)
(* waited before in a group no larger; one that is active after it is       *)
(* fulfilled, or was active before in a group no smaller, or was CHANGING.  *)
WaitsForCause(d) ==
  state'[d] = "WAIT" =>
    \/ IsClientBroken(state', kmin', d)
    \/ /\ state[d] = "WAIT" /\ kmin'[d] = kmin[d]
       /\ ConnectedClients(state') <= ConnectedClients(state)

ActsForCause(d) ==
  state'[d] = "ACTIVE" =>
    \/ ~IsClientBroken(state', kmin', d)
    \/ state[d] = "CHANGING"
    \/ /\ state[d] = "ACTIVE" /\ kmin'[d] = kmin[d]
       /\ ConnectedClients(state) <= ConnectedClients(state')

ChangesForCause(d) ==
  DisableCircChange /\ state'[d] = "CHANGING" => state[d] = "CHANGING"

(* A step that leaves the group and the values of k_min as they are, where  *)
(* every client that starts to wait is broken and every client that turns   *)
(* active is not, or was CHANGING.                                          *)
LEMMA SameGroup ==
  ASSUME Valid(state') = Valid(state), kmin' = kmin, NEW d \in Client,
         \/ state'[d] = state[d]
         \/ state'[d] \notin {"WAIT", "ACTIVE", "CHANGING"}
         \/ state'[d] = "WAIT" /\ IsClientBroken(state, kmin, d)
         \/ state'[d] = "ACTIVE" /\ ~IsClientBroken(state, kmin, d)
         \/ state'[d] = "ACTIVE" /\ state[d] = "CHANGING"
         \/ state'[d] = "CHANGING" /\ ~DisableCircChange
  PROVE  WaitsForCause(d) /\ ActsForCause(d) /\ ChangesForCause(d)
<1>1. ConnectedClients(state') = ConnectedClients(state)
  BY DEF ConnectedClients
<1>2. ConnectedClients(state) \in Nat
  BY GroupSizes
<1>3. IsClientBroken(state', kmin', d) <=> IsClientBroken(state, kmin, d)
  BY <1>1 DEF IsClientBroken
<1>4. QED
  BY <1>1, <1>2, <1>3 DEF WaitsForCause, ActsForCause, ChangesForCause

(* A departure: the states become those of left, which is state without c,  *)
(* and then the others are regrouped.                                       *)
LEMMA Departure ==
  ASSUME TypeOK, NEW c \in Client, NEW gone \in {"ABSENT", "SHUT"}, NEW d \in Client,
         state' = Regroup([state EXCEPT ![c] = gone], kmin),
         \A e \in Client : e # c => kmin'[e] = kmin[e]
  PROVE  WaitsForCause(d) /\ ActsForCause(d) /\ ChangesForCause(d)
<1> DEFINE left == [state EXCEPT ![c] = gone]
<1>1. left \in [Client -> ConnState]
  BY DEF TypeOK, ConnState, ClientState
<1>2. /\ ConnectedClients(state') = ConnectedClients(left)
      /\ \A e \in Client :
           state'[e] = IF left[e] # "ACTIVE" THEN left[e]
                       ELSE IF IsClientBroken(left, kmin, e) THEN "WAIT"
                       ELSE IF DisableCircChange THEN "ACTIVE" ELSE "CHANGING"
  BY <1>1, RegroupFacts
<1>3. Valid(left) \subseteq Valid(state)
  BY DEF Valid, ValidStates, ClientState, TypeOK
<1>4. ConnectedClients(left) <= ConnectedClients(state)
  BY <1>3, GroupGrows
<1>5. left[c] = gone /\ \A e \in Client : e # c => left[e] = state[e]
  BY DEF TypeOK
<1> HIDE DEF left
<1>6. CASE d = c
  BY <1>2, <1>5, <1>6 DEF WaitsForCause, ActsForCause, ChangesForCause
<1>7. CASE d # c
  <2>1. kmin'[d] = kmin[d] /\ left[d] = state[d]
    BY <1>5, <1>7
  <2>2. IsClientBroken(state', kmin', d) <=> IsClientBroken(left, kmin, d)
    BY <1>2, <2>1 DEF IsClientBroken
  <2>3. QED
    BY <1>2, <1>4, <2>1, <2>2 DEF WaitsForCause, ActsForCause, ChangesForCause
<1>8. QED
  BY <1>6, <1>7

(* A HELLO: the group grows by c at most, and whoever is fulfilled wakes.   *)
LEMMA Arrival ==
  ASSUME TypeOK, NEW c \in Client, NEW k \in KMin, RecvHello(c, k), NEW d \in Client
  PROVE  WaitsForCause(d) /\ ActsForCause(d) /\ ChangesForCause(d)
<1> DEFINE s     == [state EXCEPT ![c] = "CONNECTED"]
           woken == WaitingFulfilledClients(s, kmin')
<1>1. /\ s \in [Client -> ConnState]
      /\ s[c] = "CONNECTED"
      /\ \A e \in Client : e # c => s[e] = state[e] /\ kmin'[e] = kmin[e]
  BY DEF RecvHello, TypeOK, ConnState, ClientState
<1>2. Valid(state) \subseteq Valid(s)
  BY DEF Valid, ValidStates, ClientState, TypeOK
<1>3. state' = [e \in Client |-> IF e \in woken THEN "ACTIVE" ELSE s[e]]
  BY DEF RecvHello, UpdateClientState
<1>4. \A e \in Client : e \in woken <=> s[e] = "WAIT" /\ ~IsClientBroken(s, kmin', e)
  BY DEF WaitingFulfilledClients
<1> HIDE DEF s, woken
<1>5. Valid(state') = Valid(s)
  BY <1>1, <1>3, <1>4 DEF Valid, ValidStates, ClientState
<1>6. ConnectedClients(state') = ConnectedClients(s)
  BY <1>5 DEF ConnectedClients
<1>7. ConnectedClients(state) <= ConnectedClients(s)
  BY <1>2, GroupGrows
<1>8. IsClientBroken(state', kmin', d) <=> IsClientBroken(s, kmin', d)
  BY <1>6 DEF IsClientBroken
<1>9. state'[d] = IF d \in woken THEN "ACTIVE" ELSE s[d]
  BY <1>3
<1>10. QED
  BY <1>1, <1>4, <1>6, <1>7, <1>8, <1>9
  DEF WaitsForCause, ActsForCause, ChangesForCause

(* Every step has those three causes. *)
LEMMA GroupStep ==
  ASSUME TypeOK, [Next]_vars, NEW d \in Client
  PROVE  WaitsForCause(d) /\ ActsForCause(d) /\ ChangesForCause(d)
<1> DEFINE Goal == WaitsForCause(d) /\ ActsForCause(d) /\ ChangesForCause(d)
<1> USE DEF TypeOK
<1>1. CASE state' = state /\ kmin' = kmin
  BY <1>1, SameGroup
<1>2. ASSUME NEW c \in Client,
             AcceptPending(c) \/ NewConnection(c) \/ AcceptFails(c)
      PROVE  Goal
  <2>1. /\ kmin' = kmin
        /\ state[c] \in {"ABSENT", "ACCEPTING"}
        /\ state' = [state EXCEPT ![c] = state'[c]]
        /\ state'[c] \in {"ACCEPTING", "UNDEF"}
    BY <1>2 DEF AcceptPending, NewConnection, AcceptFails
  <2>2. Valid(state') = Valid(state)
    BY <2>1 DEF Valid, ValidStates, ClientState
  <2>3. QED
    BY <2>1, <2>2, SameGroup
<1>3. ASSUME NEW c \in Client, Terminated(c)
      PROVE  Goal
  <2> DEFINE left == [state EXCEPT ![c] = "ABSENT"]
  <2>1. \A e \in Client : e # c => kmin'[e] = kmin[e]
    BY <1>3 DEF Terminated
  <2>2. state' = Regroup(left, kmin)
    <3>1. CASE Registered(left) # {}
      BY <1>3, <3>1 DEF Terminated
    <3>2. CASE Registered(left) = {}
      <4>1. state' = left
        BY <1>3, <3>2 DEF Terminated
      <4>2. left \in [Client -> ConnState]
        BY DEF ConnState
      <4> HIDE DEF left
      <4>3. \A e \in Client : left[e] # "ACTIVE"
        BY <3>2 DEF Registered, ClientState
      <4>4. \A e \in Client : Regroup(left, kmin)[e] = left[e]
        BY <4>2, <4>3, RegroupFacts
      <4>5. Regroup(left, kmin) \in [Client -> ConnState]
        BY <4>2, RegroupFacts
      <4> DEFINE r == Regroup(left, kmin)
      <4> HIDE DEF r
      <4>6. r \in [Client -> ConnState] /\ \A e \in Client : r[e] = left[e]
        BY <4>4, <4>5 DEF r
      <4>7. r = left
        BY <4>2, <4>6
      <4>8. QED
        BY <4>1, <4>7 DEF r
    <3>3. QED
      BY <3>1, <3>2
  <2>3. QED
    BY <2>1, <2>2, Departure
<1>4. ASSUME NEW c \in Client, NEW k \in KMin, RecvHello(c, k)
      PROVE  Goal
  BY <1>4, Arrival
<1>5. ASSUME NEW c \in Client, RecvActiveGranted(c)
      PROVE  Goal
  <2>1. /\ kmin' = kmin
        /\ state[c] \in {"CONNECTED", "INACTIVE"}
        /\ ~IsClientBroken(state, kmin, c)
        /\ state' = [OrderChange(state, kmin) EXCEPT ![c] = "ACTIVE"]
    BY <1>5 DEF RecvActiveGranted, MayActivate
  <2>2. /\ OrderChange(state, kmin) \in [Client -> ConnState]
        /\ Valid(OrderChange(state, kmin)) = Valid(state)
        /\ \A e \in Client :
             OrderChange(state, kmin)[e] =
               IF ~DisableCircChange /\ state[e] = "ACTIVE"
                  /\ ~IsClientBroken(state, kmin, e)
               THEN "CHANGING" ELSE state[e]
    BY OrderChangeFacts
  <2>3. Valid(state') = Valid(OrderChange(state, kmin))
    BY <2>1, <2>2 DEF Valid, ValidStates, ClientState
  <2>4. QED
    BY <2>1, <2>2, <2>3, SameGroup
<1>6. ASSUME NEW c \in Client, RecvActiveDeferred(c)
      PROVE  Goal
  <2>1. /\ kmin' = kmin
        /\ state[c] \in {"CONNECTED", "INACTIVE"}
        /\ IsClientBroken(state, kmin, c)
        /\ state' = [state EXCEPT ![c] = "WAIT"]
    BY <1>6 DEF RecvActiveDeferred, MayActivate
  <2>2. Valid(state') = Valid(state)
    BY <2>1 DEF Valid, ValidStates, ClientState
  <2>3. QED
    BY <2>1, <2>2, SameGroup
<1>7. ASSUME NEW c \in Client, RecvChangeOk(c) \/ RecvInactive(c)
      PROVE  Goal
  <2>1. CASE state' = state
    BY <1>7, <1>1, <2>1 DEF RecvChangeOk, RecvInactive
  <2>2. CASE state' # state
    <3>1. /\ kmin' = kmin
          /\ \/ state[c] = "CHANGING" /\ state' = [state EXCEPT ![c] = "ACTIVE"]
             \/ /\ state[c] \in {"ACTIVE", "WAIT"}
                /\ state' = [state EXCEPT ![c] = "INACTIVE"]
      BY <1>7, <2>2 DEF RecvChangeOk, RecvInactive
    <3>2. Valid(state') = Valid(state)
      BY <3>1 DEF Valid, ValidStates, ClientState
    <3>3. QED
      BY <3>1, <3>2, SameGroup
  <2>3. QED
    BY <2>1, <2>2
<1>8. ASSUME NEW c \in Client, RecvShut(c)
      PROVE  Goal
  <2>1. state' = Regroup([state EXCEPT ![c] = "SHUT"], kmin) /\ kmin' = kmin
    BY <1>8 DEF RecvShut
  <2>2. QED
    BY <2>1, Departure
<1>9. CASE \/ UNCHANGED vars
           \/ CliTsRate
           \/ \E c \in Client :
                \/ ClientClosed(c) \/ LocalError(c) \/ RecvIgnored(c) \/ RecvData(c)
                \/ RecvActiveRefused(c) \/ RecvInactiveRefused(c) \/ SendCtrl(c)
  BY <1>9, <1>1 DEF vars, CliTsRate, ClientClosed, LocalError, RecvIgnored, RecvData,
     RecvActiveRefused, RecvInactiveRefused, SendCtrl
<1>10. QED
  BY <1>2, <1>3, <1>4, <1>5, <1>6, <1>7, <1>8, <1>9, NextCases

-----------------------------------------------------------------------------
(* The waiting of a client, for any number of clients and any k_min: no     *)
(* handler leaves a client in WAIT whose group is large enough.             *)
LEMMA WaitingInit == Init => WaitingIsBroken
BY DEF Init, WaitingIsBroken

LEMMA WaitingStep ==
  ASSUME TypeOK, WaitingIsBroken, [Next]_vars
  PROVE  WaitingIsBroken'
<1> SUFFICES ASSUME NEW d \in Client, state'[d] = "WAIT"
             PROVE  IsClientBroken(state', kmin', d)
  BY DEF WaitingIsBroken
<1>1. WaitsForCause(d)
  BY GroupStep
<1>2. CASE /\ state[d] = "WAIT" /\ kmin'[d] = kmin[d]
           /\ ConnectedClients(state') <= ConnectedClients(state)
  <2>1. ConnectedClients(state) < kmin[d]
    BY <1>2 DEF WaitingIsBroken, IsClientBroken
  <2>2. ConnectedClients(state) \in Nat /\ ConnectedClients(state') \in Nat
    BY GroupSizes
  <2>3. kmin[d] \in Int
    BY DEF TypeOK
  <2>4. QED
    BY <1>2, <2>1, <2>2, <2>3 DEF IsClientBroken
<1>3. QED
  BY <1>1, <1>2 DEF WaitsForCause

(* No handler leaves a client in WAIT whose group is large enough.          *)
THEOREM WaitingCorrect == Spec => []WaitingIsBroken
<1>1. QED
  BY TypeInit, TypeStep, WaitingInit, WaitingStep, PTL DEF Spec

(* Without circuit changes the KCircuit of an ACTIVE client is never too    *)
(* small.  The strengthening: then nobody is ever CHANGING, the one state   *)
(* from which a client turns ACTIVE without a look at its group.            *)
NobodyChanging == \A c \in Client : state[c] # "CHANGING"

KCircuitInv == DisableCircChange => ActiveIsFulfilled /\ NobodyChanging

LEMMA ActiveStays ==
  ASSUME TypeOK, NEW d \in Client, ~IsClientBroken(state, kmin, d),
         kmin'[d] = kmin[d], ConnectedClients(state) <= ConnectedClients(state')
  PROVE  ~IsClientBroken(state', kmin', d)
<1>1. ConnectedClients(state) \in Nat /\ ConnectedClients(state') \in Nat
  BY GroupSizes
<1>2. kmin[d] \in Int
  BY DEF TypeOK
<1>3. QED
  BY <1>1, <1>2 DEF IsClientBroken

LEMMA KCircuitInit == Init => KCircuitInv
BY DEF Init, KCircuitInv, ActiveIsFulfilled, NobodyChanging

LEMMA KCircuitStep ==
  ASSUME TypeOK, KCircuitInv, [Next]_vars
  PROVE  KCircuitInv'
<1> SUFFICES ASSUME DisableCircChange
             PROVE  ActiveIsFulfilled' /\ NobodyChanging'
  BY DEF KCircuitInv
<1>1. ActiveIsFulfilled /\ NobodyChanging
  BY DEF KCircuitInv
<1>2. ASSUME NEW d \in Client
      PROVE  state'[d] # "CHANGING"
  BY <1>1, GroupStep DEF ChangesForCause, NobodyChanging
<1>3. ASSUME NEW d \in Client, state'[d] = "ACTIVE"
      PROVE  ~IsClientBroken(state', kmin', d)
  <2>1. ActsForCause(d)
    BY GroupStep
  <2>2. QED
    BY <1>1, <1>3, <2>1, ActiveStays
    DEF ActsForCause, ActiveIsFulfilled, NobodyChanging
<1>4. QED
  BY <1>2, <1>3 DEF ActiveIsFulfilled, NobodyChanging

(* With --disable_circ_change no client is active in a group too small.     *)
THEOREM KCircuitCorrect ==
  ASSUME DisableCircChange PROVE Spec => []ActiveIsFulfilled
<1>1. KCircuitInv => ActiveIsFulfilled
  BY DEF KCircuitInv
<1>2. QED
  BY <1>1, TypeInit, TypeStep, KCircuitInit, KCircuitStep, PTL DEF Spec

(* With or without circuit changes: a client is left active in a group too  *)
(* small only by its CHANGE_OK.                                             *)
LEMMA ExposedStep ==
  ASSUME TypeOK, [Next]_vars
  PROVE  [\A c \in Client : ~Exposed(c) /\ Exposed(c)' => state[c] = "CHANGING"]_vars
<1> SUFFICES ASSUME NEW c \in Client, ~Exposed(c), Exposed(c)'
             PROVE  state[c] = "CHANGING"
  OBVIOUS
<1>1. state'[c] = "ACTIVE" /\ IsClientBroken(state', kmin', c)
  BY DEF Exposed, IsClientBroken, ConnectedClients, Valid
<1>2. ActsForCause(c)
  BY GroupStep
<1>3. QED
  BY <1>1, <1>2, ActiveStays DEF ActsForCause, Exposed

(* Only its own CHANGE_OK leaves a client active in a group too small.      *)
THEOREM ExposureCorrect == Spec => ExposedOnlyByChange
<1>1. QED
  BY TypeInit, TypeStep, ExposedStep, PTL DEF Spec, ExposedOnlyByChange

-----------------------------------------------------------------------------
(* Nothing of Tor reaches a client told to hold still.  The strengthening   *)
(* counts the connections that have no local segment yet, or no more.       *)
CutOff == {"ABSENT", "ACCEPTING", "UNDEF", "WAIT", "CHANGING", "INACTIVE"}

CutOffInv == \A c \in Client : state[c] \in CutOff => c \notin open

LEMMA CutOffInit == Init => CutOffInv
BY DEF Init, CutOffInv

(* A handler that ends in a round keeps CutOffInv if the segments it leaves *)
(* open before the round agree with the states it leaves.                   *)
LEMMA CutOffRound ==
  ASSUME TypeOK, NEW c \in Client, NEW opened \in SUBSET Client,
         MarkAndDeliver(c, state', opened),
         \A d \in Client : state'[d] \in CutOff => d \notin opened
  PROVE  CutOffInv'
<1>1. \A d \in Client : d \in open' => d \in opened \/ state'[d] = "ACTIVE"
  BY MarkFacts
<1>2. QED
  BY <1>1 DEF CutOffInv, CutOff

LEMMA CutOffStep ==
  ASSUME TypeOK, CutOffInv, [Next]_vars
  PROVE  CutOffInv'
<1> USE DEF CutOffInv, CutOff
<1>1. CASE \/ UNCHANGED vars
           \/ CliTsRate
           \/ \E c \in Client : ClientClosed(c) \/ LocalError(c) \/ SendCtrl(c)
  BY <1>1 DEF vars, CliTsRate, ClientClosed, LocalError, SendCtrl
<1>2. ASSUME NEW c \in Client,
             AcceptPending(c) \/ NewConnection(c) \/ AcceptFails(c)
      PROVE  CutOffInv'
  BY <1>2 DEF AcceptPending, NewConnection, AcceptFails, TypeOK
<1>3. ASSUME NEW c \in Client, Terminated(c)
      PROVE  CutOffInv'
  <2> DEFINE left == [state EXCEPT ![c] = "ABSENT"]
  <2>1. left \in [Client -> ConnState]
    BY DEF TypeOK, ConnState
  <2>2. left[c] = "ABSENT" /\ \A d \in Client : d # c => left[d] = state[d]
    BY DEF TypeOK
  <2>3. CASE Registered(left) = {}
    <3>1. state' = left /\ open' = open \ {c}
      BY <1>3, <2>3 DEF Terminated
    <3> HIDE DEF left
    <3>2. QED
      BY <2>2, <3>1
  <2>4. CASE Registered(left) # {}
    <3>1. /\ state' = Regroup(left, kmin)
          /\ open' = open \ ({c} \cup RegroupClosed(left, kmin))
      BY <1>3, <2>4 DEF Terminated
    <3> HIDE DEF left
    <3>2. \A d \in Client :
            d \notin RegroupClosed(left, kmin) => Regroup(left, kmin)[d] = left[d]
      BY <2>1, RegroupCloses
    <3>3. QED
      BY <2>2, <3>1, <3>2
  <2>5. QED
    BY <2>3, <2>4
<1>4. ASSUME NEW c \in Client, RecvIgnored(c) \/ RecvActiveRefused(c) \/ RecvInactiveRefused(c)
      PROVE  CutOffInv'
  <2>1. MarkAndDeliver(c, state', open) /\ state' = state /\ open \in SUBSET Client
    BY <1>4 DEF RecvIgnored, RecvActiveRefused, RecvInactiveRefused, TypeOK
  <2>2. QED
    BY <2>1, CutOffRound
<1>5. ASSUME NEW c \in Client, RecvData(c)
      PROVE  CutOffInv'
  <2> DEFINE recv == [recvQ EXCEPT ![c] = @ + 1]
  <2>1. recv \in [Client -> 0 .. MaxRecv]
    BY <1>5, ConstantsAssumption DEF RecvData, TypeOK
  <2>2. HandleReceptionFrames(state, recv, mark, open) /\ state' = state
    BY <1>5 DEF RecvData
  <2> HIDE DEF recv
  <2>3. \A d \in Client : d \in open' => d \in open \/ state[d] = "ACTIVE"
    BY <2>1, <2>2, RoundFacts DEF TypeOK
  <2>4. QED
    BY <2>2, <2>3
<1>6. ASSUME NEW c \in Client, NEW k \in KMin, RecvHello(c, k)
      PROVE  CutOffInv'
  <2> DEFINE s     == [state EXCEPT ![c] = "CONNECTED"]
             woken == WaitingFulfilledClients(s, kmin')
  <2>1. /\ state' = [d \in Client |-> IF d \in woken THEN "ACTIVE" ELSE s[d]]
        /\ MarkAndDeliver(c, state', open \cup woken)
    BY <1>6 DEF RecvHello, UpdateClientState
  <2>2. s[c] = "CONNECTED" /\ \A d \in Client : d # c => s[d] = state[d]
    BY DEF TypeOK
  <2>3. open \cup woken \in SUBSET Client
    BY DEF WaitingFulfilledClients, TypeOK
  <2> HIDE DEF s, woken
  <2>4. \A d \in Client : state'[d] \in CutOff => d \notin open \cup woken
    BY <2>1, <2>2
  <2>5. QED
    BY <2>1, <2>3, <2>4, CutOffRound
<1>7. ASSUME NEW c \in Client, RecvActiveGranted(c)
      PROVE  CutOffInv'
  <2> DEFINE changed == ToChange(state, kmin)
             opened  == (open \ changed) \cup {c}
  <2>1. /\ state' = [OrderChange(state, kmin) EXCEPT ![c] = "ACTIVE"]
        /\ MarkAndDeliver(c, state', opened)
    BY <1>7 DEF RecvActiveGranted
  <2>2. OrderChange(state, kmin) =
          [d \in Client |-> IF d \in changed THEN "CHANGING" ELSE state[d]]
    BY DEF OrderChange, UpdateClientState
  <2>3. opened \in SUBSET Client
    BY DEF TypeOK
  <2> HIDE DEF changed
  <2>4. \A d \in Client : state'[d] \in CutOff => d \notin opened
    BY <2>1, <2>2
  <2> HIDE DEF opened
  <2>5. QED
    BY <2>1, <2>3, <2>4, CutOffRound
<1>8. ASSUME NEW c \in Client, RecvActiveDeferred(c) \/ RecvInactive(c)
      PROVE  CutOffInv'
  <2>1. /\ MarkAndDeliver(c, state', open \ {c})
        /\ \A d \in Client : d # c => state'[d] = state[d]
    BY <1>8 DEF RecvActiveDeferred, RecvInactive, TypeOK
  <2>2. /\ open \ {c} \in SUBSET Client
        /\ \A d \in Client : state'[d] \in CutOff => d \notin open \ {c}
    BY <2>1 DEF TypeOK
  <2>3. QED
    BY <2>1, <2>2, CutOffRound
<1>9. ASSUME NEW c \in Client, RecvChangeOk(c)
      PROVE  CutOffInv'
  <2>1. CASE state[c] = "CHANGING"
    <3>1. /\ MarkAndDeliver(c, state', open \cup {c})
          /\ state' = [state EXCEPT ![c] = "ACTIVE"]
      BY <1>9, <2>1 DEF RecvChangeOk
    <3>2. /\ open \cup {c} \in SUBSET Client
          /\ \A d \in Client : state'[d] \in CutOff => d \notin open \cup {c}
      BY <3>1 DEF TypeOK
    <3>3. QED
      BY <3>1, <3>2, CutOffRound
  <2>2. CASE state[c] # "CHANGING"
    <3>1. MarkAndDeliver(c, state', open) /\ state' = state /\ open \in SUBSET Client
      BY <1>9, <2>2 DEF RecvChangeOk, TypeOK
    <3>2. QED
      BY <3>1, CutOffRound
  <2>3. QED
    BY <2>1, <2>2
<1>10. ASSUME NEW c \in Client, RecvShut(c)
       PROVE  CutOffInv'
  <2> DEFINE s      == [state EXCEPT ![c] = "SHUT"]
             opened == open \ RegroupClosed(s, kmin)
  <2>1. state' = Regroup(s, kmin) /\ MarkAndDeliver(c, state', opened)
    BY <1>10 DEF RecvShut
  <2>2. s \in [Client -> ConnState]
    BY DEF TypeOK, ConnState, ClientState
  <2>3. s[c] = "SHUT" /\ \A d \in Client : d # c => s[d] = state[d]
    BY DEF TypeOK
  <2>4. opened \in SUBSET Client
    BY DEF TypeOK
  <2> HIDE DEF s
  <2>5. \A d \in Client :
          d \notin RegroupClosed(s, kmin) => Regroup(s, kmin)[d] = s[d]
    BY <2>2, RegroupCloses
  <2>6. \A d \in Client : state'[d] \in CutOff => d \notin opened
    BY <2>1, <2>3, <2>5
  <2> HIDE DEF opened
  <2>7. QED
    BY <2>1, <2>4, <2>6, CutOffRound
<1>11. QED
  BY <1>1, <1>2, <1>3, <1>4, <1>5, <1>6, <1>7, <1>8, <1>9, <1>10, NextCases

(* A client that is held has no local Tor segment.                          *)
THEOREM CutOffCorrect == Spec => []HeldClientsAreCutOff
<1>1. CutOffInv => HeldClientsAreCutOff
  BY DEF CutOffInv, CutOff, HeldClientsAreCutOff
<1>2. QED
  BY <1>1, TypeInit, TypeStep, CutOffInit, CutOffStep, PTL DEF Spec

-----------------------------------------------------------------------------
(* The population of the table: who is registered, the traffic shaper's     *)
(* state and its rate.  Only the two handlers of connections move them.     *)
LEMMA RegroupKeepsTable ==
  ASSUME NEW s \in [Client -> ConnState], NEW k
  PROVE  Registered(Regroup(s, k)) = Registered(s)
BY RegroupFacts DEF Registered, ClientState

ConnectionStep == \E c \in Client : NewConnection(c) \/ Terminated(c)

LEMMA PopulationStays ==
  ASSUME TypeOK, [Next]_vars, ~ConnectionStep
  PROVE  Registered(state') = Registered(state) /\ ts' = ts /\ rate' = rate
<1> USE DEF TypeOK
<1>1. CASE state' = state /\ ts' = ts /\ rate' = rate
  BY <1>1
<1>2. ASSUME NEW c \in Client, AcceptPending(c) \/ AcceptFails(c)
      PROVE  Registered(state') = Registered(state) /\ ts' = ts /\ rate' = rate
  BY <1>2 DEF AcceptPending, AcceptFails, Registered, ClientState
<1>3. ASSUME NEW c \in Client, NEW k \in KMin, RecvHello(c, k)
      PROVE  Registered(state') = Registered(state) /\ ts' = ts /\ rate' = rate
  BY <1>3 DEF RecvHello, Reading, UpdateClientState, WaitingFulfilledClients, Registered,
     ClientState
<1>4. ASSUME NEW c \in Client, RecvActiveGranted(c)
      PROVE  Registered(state') = Registered(state) /\ ts' = ts /\ rate' = rate
  BY <1>4, OrderChangeFacts DEF RecvActiveGranted, Reading, Registered, ClientState
<1>5. ASSUME NEW c \in Client,
             RecvActiveDeferred(c) \/ RecvChangeOk(c) \/ RecvInactive(c)
      PROVE  Registered(state') = Registered(state) /\ ts' = ts /\ rate' = rate
  BY <1>5 DEF RecvActiveDeferred, RecvChangeOk, RecvInactive, Reading, Registered, ClientState
<1>6. ASSUME NEW c \in Client, RecvShut(c)
      PROVE  Registered(state') = Registered(state) /\ ts' = ts /\ rate' = rate
  <2> DEFINE s == [state EXCEPT ![c] = "SHUT"]
  <2>1. /\ state[c] \in ClientState /\ state' = Regroup(s, kmin)
        /\ ts' = ts /\ rate' = rate
    BY <1>6 DEF RecvShut, Reading
  <2>2. s \in [Client -> ConnState]
    BY DEF ConnState, ClientState
  <2>3. Registered(s) = Registered(state)
    BY <2>1 DEF Registered, ClientState
  <2>4. QED
    BY <2>1, <2>2, <2>3, RegroupKeepsTable
<1>7. CASE \/ UNCHANGED vars
           \/ CliTsRate
           \/ \E c \in Client :
                \/ ClientClosed(c) \/ LocalError(c) \/ RecvIgnored(c) \/ RecvData(c)
                \/ RecvActiveRefused(c) \/ RecvInactiveRefused(c) \/ SendCtrl(c)
  BY <1>7, <1>1 DEF vars, CliTsRate, ClientClosed, LocalError, RecvIgnored, RecvData,
     RecvActiveRefused, RecvInactiveRefused, SendCtrl
<1>8. QED
  BY <1>2, <1>3, <1>4, <1>5, <1>6, <1>7, NextCases DEF ConnectionStep

LEMMA Arrives ==
  ASSUME TypeOK, NEW c \in Client, NewConnection(c)
  PROVE  /\ Registered(state') = Registered(state) \cup {c}
         /\ c \notin Registered(state)
BY DEF TypeOK, NewConnection, Registered, ClientState

LEMMA Departs ==
  ASSUME TypeOK, NEW c \in Client, Terminated(c)
  PROVE  LET left == [state EXCEPT ![c] = "ABSENT"]
         IN /\ Registered(state') = Registered(left)
            /\ c \in Registered(state)
<1> DEFINE left == [state EXCEPT ![c] = "ABSENT"]
<1>1. left \in [Client -> ConnState]
  BY DEF TypeOK, ConnState
<1>2. state' = left \/ state' = Regroup(left, kmin)
  BY DEF Terminated
<1>3. c \in Registered(state)
  BY DEF Terminated, Registered
<1> HIDE DEF left
<1>4. Registered(state') = Registered(left)
  BY <1>1, <1>2, RegroupKeepsTable
<1>5. QED
  BY <1>3, <1>4 DEF left

(* The table and the two things that follow it, in one inductive invariant. *)
PopulationInv == ShaperRunsIffClients /\ RateFollowsClients

LEMMA PopulationInit == Init => PopulationInv
BY DEF Init, PopulationInv, ShaperRunsIffClients, RateFollowsClients, Registered, ClientState

LEMMA PopulationStep ==
  ASSUME TypeOK, PopulationInv, [Next]_vars
  PROVE  PopulationInv'
<1> USE DEF PopulationInv, ShaperRunsIffClients, RateFollowsClients
<1>1. CASE ~ConnectionStep
  BY <1>1, PopulationStays
<1>2. ASSUME NEW c \in Client, NewConnection(c)
      PROVE  PopulationInv'
  <2>1. Registered(state') = Registered(state) \cup {c} /\ c \notin Registered(state)
    BY <1>2, Arrives
  <2>2. TsRateUpdate(state', ctrlQ)
    BY <1>2 DEF NewConnection
  <2>3. ts' = IF Cardinality(Registered(state')) = 1 THEN "ON" ELSE ts
    BY <1>2 DEF NewConnection
  <2>4. Registered(state) = {} => Cardinality(Registered(state')) = 1
    BY <2>1, FS_Singleton
  <2>5. ts' = "ON"
    BY <2>3, <2>4
  <2>6. ~DisableDynamicRate =>
          rate' = RateFor(Cardinality(Registered(state'))) /\ rate' \in TsMin .. TsMax
    BY <2>2 DEF TsRateUpdate, OrderTsRate
  <2>7. QED
    BY <2>1, <2>5, <2>6
<1>3. ASSUME NEW c \in Client, Terminated(c)
      PROVE  PopulationInv'
  <2> DEFINE left == [state EXCEPT ![c] = "ABSENT"]
  <2>1. Registered(state') = Registered(left) /\ c \in Registered(state)
    BY <1>3, Departs
  <2>2. CASE Registered(left) = {}
    <3>1. ts' = "IDLE"
      BY <1>3, <2>2 DEF Terminated
    <3>2. QED
      BY <2>1, <2>2, <3>1
  <2>3. CASE Registered(left) # {}
    <3>1. /\ ts' = ts
          /\ \E q : TsRateUpdate(left, q)
      BY <1>3, <2>3 DEF Terminated
    <3> HIDE DEF left
    <3>2. ~DisableDynamicRate =>
            rate' = RateFor(Cardinality(Registered(left))) /\ rate' \in TsMin .. TsMax
      BY <3>1 DEF TsRateUpdate, OrderTsRate
    <3>3. QED
      BY <2>1, <2>3, <3>1, <3>2
  <2>4. QED
    BY <2>2, <2>3
<1>4. QED
  BY <1>1, <1>2, <1>3 DEF ConnectionStep

(* The traffic shaper is on exactly while a client is registered, for any   *)
(* number of connections that come and go.                                  *)
THEOREM ShaperCorrect == Spec => []ShaperRunsIffClients
<1>1. PopulationInv => ShaperRunsIffClients
  BY DEF PopulationInv
<1>2. QED
  BY <1>1, TypeInit, TypeStep, PopulationInit, PopulationStep, PTL DEF Spec

(* The rate of the bridge is the one of its present population, and one     *)
(* that order_TS_RATE allows: a population without one is never there.      *)
THEOREM RateCorrect == Spec => []RateFollowsClients
<1>1. PopulationInv => RateFollowsClients
  BY DEF PopulationInv
<1>2. QED
  BY <1>1, TypeInit, TypeStep, PopulationInit, PopulationStep, PTL DEF Spec

-----------------------------------------------------------------------------
(* The orders queued for a client.  An order that fits the new state may    *)
(* follow anything; what is no order changes nothing; sending removes the   *)
(* oldest.                                                                  *)
LEMMA OrderFollows ==
  ASSUME NEW q \in Seq(CtrlType), NEW type \in CtrlType, NEW s,
         IsOrder(type), s \in OrderedState(type)
  PROVE  Follows(s, Append(q, type))
<1> SUFFICES ASSUME NEW i \in 1 .. Len(Append(q, type)), IsNewestOrder(Append(q, type), i)
             PROVE  s \in OrderedState(Append(q, type)[i])
  BY DEF Follows
<1>1. Len(Append(q, type)) = Len(q) + 1 /\ Append(q, type)[Len(q) + 1] = type
  OBVIOUS
<1>2. i = Len(q) + 1
  <2>1. ASSUME i < Len(q) + 1
        PROVE  FALSE
    BY <1>1, <2>1 DEF IsNewestOrder
  <2>2. QED
    BY <1>1, <2>1
<1>3. QED
  BY <1>1, <1>2

LEMMA OtherFollows ==
  ASSUME NEW q \in Seq(CtrlType), NEW type \in CtrlType, NEW s,
         ~IsOrder(type), Follows(s, q)
  PROVE  Follows(s, Append(q, type))
<1> SUFFICES ASSUME NEW i \in 1 .. Len(Append(q, type)), IsNewestOrder(Append(q, type), i)
             PROVE  s \in OrderedState(Append(q, type)[i])
  BY DEF Follows
<1>1. /\ Len(Append(q, type)) = Len(q) + 1
      /\ Append(q, type)[Len(q) + 1] = type
      /\ \A j \in 1 .. Len(q) : Append(q, type)[j] = q[j]
  OBVIOUS
<1>2. i # Len(q) + 1
  BY <1>1 DEF IsNewestOrder
<1>3. i \in 1 .. Len(q) /\ IsNewestOrder(q, i)
  BY <1>1, <1>2 DEF IsNewestOrder
<1>4. QED
  BY <1>1, <1>3 DEF Follows

LEMMA TailFollows ==
  ASSUME NEW q \in Seq(CtrlType), NEW s, q # <<>>, Follows(s, q)
  PROVE  Follows(s, Tail(q))
<1> SUFFICES ASSUME NEW i \in 1 .. Len(Tail(q)), IsNewestOrder(Tail(q), i)
             PROVE  s \in OrderedState(Tail(q)[i])
  BY DEF Follows
<1>1. /\ Len(q) = Len(Tail(q)) + 1
      /\ \A j \in 1 .. Len(Tail(q)) : Tail(q)[j] = q[j + 1]
  OBVIOUS
<1>2. i + 1 \in 1 .. Len(q)
  BY <1>1
<1>3. ASSUME NEW j \in i + 2 .. Len(q)
      PROVE  ~IsOrder(q[j])
  <2>1. j - 1 \in i + 1 .. Len(Tail(q))
    BY <1>1
  <2>2. Tail(q)[j - 1] = q[j]
    BY <1>1, <2>1
  <2>3. QED
    BY <2>1, <2>2 DEF IsNewestOrder
<1>4. IsNewestOrder(q, i + 1)
  BY <1>1, <1>3 DEF IsNewestOrder
<1>5. QED
  BY <1>1, <1>2, <1>4 DEF Follows

LEMMA EmptyFollows ==
  ASSUME NEW s
  PROVE  Follows(s, <<>>)
BY DEF Follows

(* Push, as one client sees it. *)
LEMMA PushFollows ==
  ASSUME NEW q \in [Client -> Seq(CtrlType)], NEW S, NEW type \in CtrlType,
         NEW d \in Client, NEW s,
         \/ d \in S /\ IsOrder(type) /\ s \in OrderedState(type)
         \/ (d \notin S \/ ~IsOrder(type)) /\ Follows(s, q[d])
  PROVE  Follows(s, Push(q, S, type)[d])
<1>1. q[d] \in Seq(CtrlType)
  OBVIOUS
<1>2. Push(q, S, type)[d] = IF d \in S THEN Append(q[d], type) ELSE q[d]
  BY DEF Push
<1>3. CASE d \in S /\ IsOrder(type) /\ s \in OrderedState(type)
  BY <1>1, <1>2, <1>3, OrderFollows
<1>4. CASE (d \notin S \/ ~IsOrder(type)) /\ Follows(s, q[d])
  BY <1>1, <1>2, <1>4, OtherFollows
<1>5. QED
  BY <1>3, <1>4

LEMMA TsRateFollows ==
  ASSUME NEW t, NEW q \in [Client -> Seq(CtrlType)], TsRateUpdate(t, q),
         NEW d \in Client, NEW s, Follows(s, q[d])
  PROVE  Follows(s, ctrlQ'[d])
<1>1. "TS_RATE" \in CtrlType /\ ~IsOrder("TS_RATE")
  BY DEF CtrlType, IsOrder
<1>2. QED
  BY <1>1, PushFollows DEF TsRateUpdate, OrderTsRate

(* order_WAIT and order_CHANGE of a departure give each client at most one  *)
(* order, the one its new state follows from.                               *)
LEMMA RegroupFollows ==
  ASSUME NEW s \in [Client -> ConnState], NEW k,
         NEW q \in [Client -> Seq(CtrlType)],
         NEW d \in Client, Follows(s[d], q[d])
  PROVE  Follows(Regroup(s, k)[d], RegroupFrames(s, k, q)[d])
<1> DEFINE w      == OrderWait(s, k)
           broken == BrokenClients(s, k)
           change == ToChange(w, k)
           mid    == Push(q, broken, "WAIT")
<1>1. /\ w[d] = IF d \in broken THEN "WAIT" ELSE s[d]
      /\ Regroup(s, k)[d] = IF d \in change THEN "CHANGING" ELSE w[d]
  BY DEF OrderWait, Regroup, OrderChange, UpdateClientState
<1>2. mid \in [Client -> Seq(CtrlType)]
  BY PushType DEF CtrlType
<1>3. RegroupFrames(s, k, q) = Push(mid, change, "CHANGE")
  BY DEF RegroupFrames
<1>4. /\ {"WAIT", "CHANGE"} \subseteq CtrlType
      /\ IsOrder("WAIT") /\ IsOrder("CHANGE")
      /\ "WAIT" \in OrderedState("WAIT") /\ "CHANGING" \in OrderedState("CHANGE")
  BY DEF CtrlType, IsOrder, OrderedState
<1> HIDE DEF w, broken, change
<1>5. Follows(w[d], mid[d])
  BY <1>1, <1>4, PushFollows
<1> HIDE DEF mid
<1>6. QED
  BY <1>1, <1>2, <1>3, <1>4, <1>5, PushFollows

-----------------------------------------------------------------------------
(* The invariant: the newest order fits the state, and a connection without *)
(* a Client has no queue.                                                   *)
OrdersInv ==
  /\ OrdersMatchState
  /\ \A c \in Client : state[c] \notin ClientState => ctrlQ[c] = <<>>

LEMMA OrdersInit == Init => OrdersInv
BY EmptyFollows DEF Init, OrdersInv, OrdersMatchState

(* As one client sees a step. *)
FollowsAfter(d) ==
  /\ Follows(state'[d], ctrlQ'[d])
  /\ state'[d] \notin ClientState => ctrlQ'[d] = <<>>

(* Nothing of the client d moves. *)
LEMMA Untouched ==
  ASSUME OrdersInv, NEW d \in Client, state'[d] = state[d], ctrlQ'[d] = ctrlQ[d]
  PROVE  FollowsAfter(d)
BY DEF OrdersInv, OrdersMatchState, FollowsAfter

LEMMA OrderTypes ==
  /\ {"HELLO_OK", "ACTIVE", "WAIT", "CHANGE", "INACTIVE", "SHUT_OK",
      "TS_RATE", "ERR_ACTIVE", "ERR_INACTIVE"} \subseteq CtrlType
  /\ \A type \in {"HELLO_OK", "ACTIVE", "WAIT", "CHANGE", "INACTIVE", "SHUT_OK"} :
       IsOrder(type)
  /\ \A type \in {"TS_RATE", "ERR_ACTIVE", "ERR_INACTIVE"} : ~IsOrder(type)
  /\ "CONNECTED" \in OrderedState("HELLO_OK")
  /\ "ACTIVE" \in OrderedState("ACTIVE")
  /\ "WAIT" \in OrderedState("WAIT")
  /\ {"CHANGING", "ACTIVE"} \subseteq OrderedState("CHANGE")
  /\ "INACTIVE" \in OrderedState("INACTIVE")
  /\ "SHUT" \in OrderedState("SHUT_OK")
BY DEF CtrlType, IsOrder, OrderedState

(* A client that goes on being CHANGING or turns ACTIVE has no newer order. *)
LEMMA ChangeOkFollows ==
  ASSUME NEW q \in Seq(CtrlType), Follows("CHANGING", q)
  PROVE  Follows("ACTIVE", q)
<1> SUFFICES ASSUME NEW i \in 1 .. Len(q), IsNewestOrder(q, i)
             PROVE  "ACTIVE" \in OrderedState(q[i])
  BY DEF Follows
<1>1. "CHANGING" \in OrderedState(q[i]) /\ q[i] \in CtrlType /\ IsOrder(q[i])
  BY DEF Follows, IsNewestOrder
<1>2. QED
  BY <1>1 DEF OrderedState, CtrlType, IsOrder

LEMMA OrdersAfter ==
  ASSUME TypeOK, OrdersInv, [Next]_vars, NEW d \in Client
  PROVE  FollowsAfter(d)
<1> USE DEF TypeOK
<1>0. /\ Follows(state[d], ctrlQ[d])
      /\ state[d] \notin ClientState => ctrlQ[d] = <<>>
  BY DEF OrdersInv, OrdersMatchState
<1>1. CASE state' = state /\ ctrlQ' = ctrlQ
  BY <1>1, Untouched
<1>2. ASSUME NEW c \in Client, AcceptPending(c) \/ AcceptFails(c)
      PROVE  FollowsAfter(d)
  <2>1. /\ ctrlQ' = ctrlQ
        /\ state[c] \notin ClientState
        /\ state' = [state EXCEPT ![c] = "ACCEPTING"]
    BY <1>2 DEF AcceptPending, AcceptFails, ClientState
  <2>2. CASE d = c
    BY <1>0, <2>1, <2>2, EmptyFollows DEF FollowsAfter
  <2>3. CASE d # c
    BY <2>1, <2>3, Untouched
  <2>4. QED
    BY <2>2, <2>3
<1>3. ASSUME NEW c \in Client, NewConnection(c)
      PROVE  FollowsAfter(d)
  <2>1. /\ state[c] \notin ClientState
        /\ state' = [state EXCEPT ![c] = "UNDEF"]
        /\ TsRateUpdate(state', ctrlQ)
    BY <1>3 DEF NewConnection, ClientState
  <2>2. Follows(state'[d], ctrlQ[d])
    BY <1>0, <2>1, EmptyFollows
  <2>3. Follows(state'[d], ctrlQ'[d])
    BY <2>1, <2>2, TsRateFollows
  <2>4. state'[d] \notin ClientState => ctrlQ'[d] = <<>>
    BY <1>0, <2>1 DEF TsRateUpdate, OrderTsRate, Push, Registered, ClientState
  <2>5. QED
    BY <2>3, <2>4 DEF FollowsAfter
<1>4. ASSUME NEW c \in Client, Terminated(c)
      PROVE  FollowsAfter(d)
  <2> DEFINE left  == [state EXCEPT ![c] = "ABSENT"]
             queue == [ctrlQ EXCEPT ![c] = <<>>]
  <2>1. /\ left \in [Client -> ConnState]
        /\ queue \in [Client -> Seq(CtrlType)]
    BY DEF ConnState
  <2>2. /\ Follows(left[d], queue[d])
        /\ left[d] \notin ClientState => queue[d] = <<>>
    BY <1>0, EmptyFollows
  <2>3. CASE Registered(left) = {}
    <3>1. state' = left /\ ctrlQ' = queue
      BY <1>4, <2>3 DEF Terminated
    <3> HIDE DEF left, queue
    <3>2. QED
      BY <2>2, <3>1 DEF FollowsAfter
  <2>4. CASE Registered(left) # {}
    <3> DEFINE frames == RegroupFrames(left, kmin, queue)
    <3>1. state' = Regroup(left, kmin) /\ TsRateUpdate(left, frames)
      BY <1>4, <2>4 DEF Terminated
    <3> HIDE DEF left, queue
    <3>2. Follows(state'[d], frames[d])
      BY <2>1, <2>2, <3>1, RegroupFollows
    <3>3. frames \in [Client -> Seq(CtrlType)]
      BY <2>1, PushType, OrderTypes DEF RegroupFrames
    <3>4. state'[d] \notin ClientState => frames[d] = <<>> /\ d \notin Registered(left)
      <4>1. ASSUME state'[d] \notin ClientState
            PROVE  left[d] \notin ClientState
        BY <2>1, <3>1, <4>1, RegroupFacts DEF ClientState
      <4>2. ASSUME left[d] \notin ClientState
            PROVE  frames[d] = queue[d]
        <5>1. d \notin BrokenClients(left, kmin) /\ OrderWait(left, kmin)[d] = left[d]
          BY <4>2 DEF BrokenClients, OrderWait, UpdateClientState, ClientState
        <5>2. d \notin ToChange(OrderWait(left, kmin), kmin)
          BY <4>2, <5>1 DEF ToChange, FulfilledClients, ClientState
        <5>3. QED
          BY <5>1, <5>2 DEF RegroupFrames, Push
      <4>3. QED
        BY <2>2, <4>1, <4>2 DEF Registered
    <3> HIDE DEF frames
    <3>5. Follows(state'[d], ctrlQ'[d])
      BY <3>1, <3>2, <3>3, TsRateFollows
    <3>6. state'[d] \notin ClientState => ctrlQ'[d] = <<>>
      BY <3>1, <3>4 DEF TsRateUpdate, OrderTsRate, Push
    <3>7. QED
      BY <3>5, <3>6 DEF FollowsAfter
  <2>5. QED
    BY <2>3, <2>4
<1>5. ASSUME NEW c \in Client, NEW k \in KMin, RecvHello(c, k)
      PROVE  FollowsAfter(d)
  <2> DEFINE s     == [state EXCEPT ![c] = "CONNECTED"]
             woken == WaitingFulfilledClients(s, kmin')
             mid   == Push(ctrlQ, {c}, "HELLO_OK")
  <2>1. /\ state[c] \in ClientState
        /\ state' = UpdateClientState(s, woken, "ACTIVE")
        /\ ctrlQ' = Push(mid, woken, "ACTIVE")
    BY <1>5 DEF RecvHello, Reading
  <2>2. state'[d] = IF d \in woken THEN "ACTIVE" ELSE s[d]
    BY <2>1 DEF UpdateClientState
  <2>3. mid \in [Client -> Seq(CtrlType)]
    BY PushType, OrderTypes
  <2>4. d \in woken => s[d] = "WAIT"
    BY DEF WaitingFulfilledClients
  <2>5. s[d] = IF d = c THEN "CONNECTED" ELSE state[d]
    OBVIOUS
  <2> HIDE DEF woken, s
  <2>6. Follows(s[d], mid[d])
    BY <1>0, <2>5, PushFollows, OrderTypes
  <2>7. s[d] \notin ClientState => d \notin woken /\ mid[d] = <<>>
    BY <1>0, <2>1, <2>4, <2>5 DEF Push, ClientState
  <2> HIDE DEF mid
  <2>8. Follows(state'[d], ctrlQ'[d])
    BY <2>1, <2>2, <2>3, <2>6, PushFollows, OrderTypes
  <2>9. state'[d] \notin ClientState => ctrlQ'[d] = <<>>
    BY <2>1, <2>2, <2>7 DEF Push, ClientState
  <2>10. QED
    BY <2>8, <2>9 DEF FollowsAfter
<1>6. ASSUME NEW c \in Client, RecvActiveGranted(c)
      PROVE  FollowsAfter(d)
  <2> DEFINE changed == ToChange(state, kmin)
             s       == OrderChange(state, kmin)
             mid     == Push(ctrlQ, changed, "CHANGE")
  <2>1. /\ state[c] \in ClientState
        /\ state' = [s EXCEPT ![c] = "ACTIVE"]
        /\ ctrlQ' = Push(mid, {c}, "ACTIVE")
    BY <1>6 DEF RecvActiveGranted, Reading
  <2>2. s \in [Client -> ConnState] /\ s[d] = IF d \in changed THEN "CHANGING" ELSE state[d]
    BY OrderChangeFacts DEF OrderChange, UpdateClientState
  <2>3. mid \in [Client -> Seq(CtrlType)]
    BY PushType, OrderTypes
  <2>4. d \in changed => state[d] \in ClientState
    BY DEF ToChange, FulfilledClients, ClientState
  <2> HIDE DEF changed, s
  <2>5. Follows(s[d], mid[d])
    BY <1>0, <2>2, PushFollows, OrderTypes
  <2>6. state[d] \notin ClientState => mid[d] = <<>>
    BY <1>0, <2>4 DEF Push
  <2> HIDE DEF mid
  <2>7. Follows(state'[d], ctrlQ'[d])
    BY <2>1, <2>2, <2>3, <2>5, PushFollows, OrderTypes
  <2>8. state'[d] \notin ClientState => ctrlQ'[d] = <<>>
    BY <2>1, <2>2, <2>6 DEF Push, ClientState
  <2>9. QED
    BY <2>7, <2>8 DEF FollowsAfter
<1>7. ASSUME NEW c \in Client, NEW type \in CtrlType, NEW new \in ClientState,
             /\ state[c] \in ClientState
             /\ state' = [state EXCEPT ![c] = new]
             /\ ctrlQ' = Push(ctrlQ, {c}, type)
             /\ IF IsOrder(type) THEN new \in OrderedState(type) ELSE new = state[c]
      PROVE  FollowsAfter(d)
  <2>1. Follows(state'[d], ctrlQ'[d])
    BY <1>0, <1>7, PushFollows
  <2>2. state'[d] \notin ClientState => ctrlQ'[d] = <<>>
    BY <1>0, <1>7 DEF Push
  <2>3. QED
    BY <2>1, <2>2 DEF FollowsAfter
<1>8. ASSUME NEW c \in Client, RecvActiveRefused(c) \/ RecvInactiveRefused(c)
      PROVE  FollowsAfter(d)
  <2>1. PICK type \in {"ERR_ACTIVE", "ERR_INACTIVE"} : ctrlQ' = Push(ctrlQ, {c}, type)
    BY <1>8 DEF RecvActiveRefused, RecvInactiveRefused
  <2>2. state' = [state EXCEPT ![c] = state[c]] /\ state[c] \in ClientState
    BY <1>8 DEF RecvActiveRefused, RecvInactiveRefused, Reading
  <2>3. QED
    BY <1>7, <2>1, <2>2, OrderTypes
<1>9. ASSUME NEW c \in Client, RecvActiveDeferred(c)
      PROVE  FollowsAfter(d)
  <2>1. /\ state[c] \in ClientState /\ state' = [state EXCEPT ![c] = "WAIT"]
        /\ ctrlQ' = Push(ctrlQ, {c}, "WAIT") /\ "WAIT" \in ClientState
    BY <1>9 DEF RecvActiveDeferred, Reading, ClientState
  <2>2. QED
    BY <1>7, <2>1, OrderTypes
<1>10. ASSUME NEW c \in Client, RecvInactive(c)
       PROVE  FollowsAfter(d)
  <2>1. /\ state[c] \in ClientState /\ state' = [state EXCEPT ![c] = "INACTIVE"]
        /\ ctrlQ' = Push(ctrlQ, {c}, "INACTIVE") /\ "INACTIVE" \in ClientState
    BY <1>10 DEF RecvInactive, Reading, ClientState
  <2>2. QED
    BY <1>7, <2>1, OrderTypes
<1>11. ASSUME NEW c \in Client, RecvChangeOk(c)
       PROVE  FollowsAfter(d)
  <2>1. CASE state[c] # "CHANGING" \/ d # c
    BY <1>11, <2>1, Untouched DEF RecvChangeOk
  <2>2. CASE state[c] = "CHANGING" /\ d = c
    <3>1. /\ state'[d] = "ACTIVE" /\ ctrlQ'[d] = ctrlQ[d]
          /\ ctrlQ[d] \in Seq(CtrlType) /\ state[d] = "CHANGING"
      BY <1>11, <2>2 DEF RecvChangeOk
    <3>2. QED
      BY <1>0, <3>1, ChangeOkFollows DEF FollowsAfter, ClientState
  <2>3. QED
    BY <2>1, <2>2
<1>12. ASSUME NEW c \in Client, RecvShut(c)
       PROVE  FollowsAfter(d)
  <2> DEFINE s      == [state EXCEPT ![c] = "SHUT"]
             frames == RegroupFrames(s, kmin, ctrlQ)
  <2>1. /\ state[c] \in ClientState
        /\ state' = Regroup(s, kmin)
        /\ ctrlQ' = Push(frames, {c}, "SHUT_OK")
    BY <1>12 DEF RecvShut, Reading
  <2>2. s \in [Client -> ConnState]
    BY DEF ConnState, ClientState
  <2>3. state'[d] = IF s[d] # "ACTIVE" THEN s[d]
                    ELSE IF IsClientBroken(s, kmin, d) THEN "WAIT"
                    ELSE IF DisableCircChange THEN "ACTIVE" ELSE "CHANGING"
    BY <2>1, <2>2, RegroupFacts
  <2>4. s[d] = IF d = c THEN "SHUT" ELSE state[d]
    OBVIOUS
  <2>5. frames \in [Client -> Seq(CtrlType)]
    BY PushType, OrderTypes DEF RegroupFrames
  <2> HIDE DEF s
  <2>6. CASE d = c
    <3>1. state'[d] = "SHUT"
      BY <2>3, <2>4, <2>6
    <3> HIDE DEF frames
    <3>2. Follows(state'[d], ctrlQ'[d])
      BY <2>1, <2>5, <2>6, <3>1, PushFollows, OrderTypes
    <3>3. QED
      BY <3>1, <3>2 DEF FollowsAfter, ClientState
  <2>7. CASE d # c
    <3>1. Follows(state'[d], frames[d])
      BY <1>0, <2>1, <2>2, <2>4, <2>7, RegroupFollows
    <3>2. state'[d] \notin ClientState => frames[d] = <<>>
      <4>1. ASSUME state'[d] \notin ClientState
            PROVE  s[d] \notin ClientState /\ ctrlQ[d] = <<>>
        BY <1>0, <2>3, <2>4, <2>7, <4>1 DEF ClientState
      <4>2. ASSUME s[d] \notin ClientState
            PROVE  frames[d] = ctrlQ[d]
        <5>1. d \notin BrokenClients(s, kmin) /\ OrderWait(s, kmin)[d] = s[d]
          BY <4>2 DEF BrokenClients, OrderWait, UpdateClientState, ClientState
        <5>2. d \notin ToChange(OrderWait(s, kmin), kmin)
          BY <4>2, <5>1 DEF ToChange, FulfilledClients, ClientState
        <5>3. QED
          BY <5>1, <5>2 DEF RegroupFrames, Push
      <4>3. QED
        BY <4>1, <4>2
    <3> HIDE DEF frames
    <3>3. ctrlQ'[d] = frames[d]
      BY <2>1, <2>7 DEF Push
    <3>4. QED
      BY <3>1, <3>2, <3>3 DEF FollowsAfter
  <2>8. QED
    BY <2>6, <2>7
<1>13. ASSUME NEW c \in Client, SendCtrl(c)
       PROVE  FollowsAfter(d)
  <2>1. CASE d = c
    <3>1. /\ ctrlQ[d] \in Seq(CtrlType) /\ ctrlQ[d] # <<>>
          /\ ctrlQ'[d] = Tail(ctrlQ[d]) /\ state'[d] = state[d]
      BY <1>13, <2>1 DEF SendCtrl
    <3>2. QED
      BY <1>0, <3>1, TailFollows DEF FollowsAfter
  <2>2. CASE d # c
    BY <1>13, <2>2, Untouched DEF SendCtrl
  <2>3. QED
    BY <2>1, <2>2
<1>14. CASE CliTsRate
  <2>1. state' = state /\ ctrlQ' = Push(ctrlQ, Registered(state), "TS_RATE")
    BY <1>14 DEF CliTsRate, OrderTsRate
  <2>2. Follows(state'[d], ctrlQ'[d])
    BY <1>0, <2>1, PushFollows, OrderTypes
  <2>3. QED
    BY <1>0, <2>1, <2>2 DEF FollowsAfter, Push, Registered
<1>15. CASE \/ UNCHANGED vars
            \/ \E c \in Client :
                 ClientClosed(c) \/ LocalError(c) \/ RecvIgnored(c) \/ RecvData(c)
  BY <1>15, <1>1 DEF vars, ClientClosed, LocalError, RecvIgnored, RecvData
<1>16. QED
  BY <1>2, <1>3, <1>4, <1>5, <1>6, <1>8, <1>9, <1>10, <1>11, <1>12, <1>13, <1>14,
     <1>15, NextCases

LEMMA OrdersStep ==
  ASSUME TypeOK, OrdersInv, [Next]_vars
  PROVE  OrdersInv'
BY OrdersAfter DEF OrdersInv, OrdersMatchState, FollowsAfter

(* Whatever other clients do meanwhile, the newest order that waits for a   *)
(* client is the one its state follows from.                                *)
THEOREM OrdersCorrect == Spec => []OrdersMatchState
<1>1. OrdersInv => OrdersMatchState
  BY DEF OrdersInv
<1>2. QED
  BY <1>1, TypeInit, TypeStep, OrdersInit, OrdersStep, PTL DEF Spec

-----------------------------------------------------------------------------
(* Rounds of delivery. *)

(* The history variables only watch: every step is a step of the bridge.    *)
LEMMA SyncStep ==
  ASSUME [SyncNext]_syncVars
  PROVE  [Next]_vars
BY DEF SyncNext, syncVars, vars, Next, Socket

(* What holds of the bridge holds of the bridge that is watched.            *)
THEOREM HistoryOnlyWatches == SyncSpec => Spec
<1>1. SyncInit => Init
  BY DEF SyncInit
<1>2. [SyncNext]_syncVars => [Next]_vars
  BY SyncStep
<1>3. QED
  BY <1>1, <1>2, PTL DEF SyncSpec, Spec

-----------------------------------------------------------------------------
(* What the bridge has of a client: its queued DATA frames and its mark.    *)
Credit(n, m) == n + (IF m THEN 1 ELSE 0)

(* The ledger covers it.                                                    *)
LedgerInv ==
  /\ earned \in [Client -> Int]
  /\ \A d \in Client : Credit(recvQ[d], mark[d]) <= earned[d]

(* A round leaves a client no more than it had; one that takes a DATA frame *)
(* from some queue leaves each valid client whose own frame Tor has not     *)
(* refused less than it had.                                                *)
LEMMA RoundSpends ==
  ASSUME NEW s, NEW recv \in [Client -> Nat], NEW marks \in [Client -> BOOLEAN], NEW opened,
         HandleReceptionFrames(s, recv, marks, opened), NEW d \in Client
  PROVE  /\ Credit(recvQ'[d], mark'[d]) \in Nat
         /\ Credit(recvQ'[d], mark'[d]) <= Credit(recv[d], marks[d])
         /\ (/\ \E e \in Client : recvQ'[e] < recv[e]
             /\ d \in Valid(s)
             /\ ~(s[d] = "ACTIVE" /\ recv[d] > 0 /\ recvQ'[d] = recv[d]))
              => Credit(recvQ'[d], mark'[d]) <= Credit(recv[d], marks[d]) - 1
<1>0. recv[d] \in Nat /\ marks[d] \in BOOLEAN
  OBVIOUS
<1>1. CASE ~ReceivedAll(s, recv, marks)
  <2>1. recvQ' = recv /\ mark' = marks
    BY <1>1 DEF HandleReceptionFrames
  <2>2. \A e \in Client : ~(recvQ'[e] < recv[e])
    BY <2>1
  <2>3. QED
    BY <1>0, <2>1, <2>2 DEF Credit
<1>2. CASE ReceivedAll(s, recv, marks)
  <2>1. PICK blocked \in SUBSET ToDeliver(s, recv) :
          /\ recvQ' = [e \in Client |-> IF e \in Valid(s) \ blocked /\ recv[e] > 0
                                        THEN recv[e] - 1 ELSE recv[e]]
          /\ mark' = MarksLeft(s, recv, marks)
    BY <1>2 DEF HandleReceptionFrames
  <2>2. /\ recvQ'[d] = IF d \in Valid(s) \ blocked /\ recv[d] > 0
                       THEN recv[d] - 1 ELSE recv[d]
        /\ mark'[d] = (marks[d] /\ ~(d \in Valid(s) /\ recv[d] = 0))
    BY <2>1 DEF MarksLeft
  <2>3. d \in Valid(s) => recv[d] > 0 \/ marks[d]
    BY <1>2 DEF ReceivedAll
  <2>4. d \in blocked => s[d] = "ACTIVE" /\ recv[d] > 0
    BY <2>1 DEF ToDeliver
  <2>5. CASE d \notin Valid(s)
    BY <1>0, <2>2, <2>5 DEF Credit
  <2>6. CASE d \in Valid(s) /\ recv[d] = 0
    <3>1. ~(recv[d] > 0)
      BY <2>6
    <3>2. marks[d]
      BY <2>3, <2>6, <3>1
    <3>3. recvQ'[d] = 0
      BY <2>2, <2>6, <3>1
    <3>4. ~mark'[d]
      BY <2>2, <2>6, Zenon
    <3>5. QED
      BY <2>6, <3>2, <3>3, <3>4 DEF Credit
  <2>7. CASE d \in Valid(s) /\ recv[d] > 0 /\ d \notin blocked
    BY <1>0, <2>2, <2>7 DEF Credit
  <2>8. CASE d \in blocked
    BY <1>0, <2>2, <2>4, <2>8 DEF Credit
  <2>9. QED
    BY <1>0, <2>5, <2>6, <2>7, <2>8
<1>3. QED
  BY <1>1, <1>2

(* A frame that arrives adds at most one to what the bridge has, and what a *)
(* round is charged for is what it spends.                                  *)
LEMMA FrameIsEarned ==
  ASSUME TypeOK, LedgerInv, NEW c \in Client,
         NEW data \in SUBSET {c}, NEW marked \in SUBSET {c}, data \cap marked = {},
         NEW recv \in [Client -> Nat], NEW marks \in [Client -> BOOLEAN], NEW opened,
         \A d \in Client : /\ recv[d] = recvQ[d] + (IF d \in data THEN 1 ELSE 0)
                           /\ recv[d] <= MaxRecv
                           /\ marks[d] <=> mark[d] \/ d \in marked,
         HandleReceptionFrames(state', recv, marks, opened),
         Watch(data, marked)
  PROVE  LedgerInv'
<1> DEFINE came(d) == IF d \in data \cup marked /\ earned[d] < Keeps
                      THEN earned[d] + 1 ELSE earned[d]
           charged(d) == /\ \E e \in Client : recvQ'[e] < recv[e]
                         /\ d \in Valid(state')
                         /\ ~(state'[d] = "ACTIVE" /\ recv[d] > 0 /\ recvQ'[d] = recv[d])
<1>1. ASSUME NEW d \in Client
      PROVE  /\ earned'[d] = came(d) \/ earned'[d] = came(d) - 1
             /\ earned'[d] = came(d) - 1 => charged(d)
  <2>1. \A e \in Client : recv[e] = recvQ[e] + (IF e \in data THEN 1 ELSE 0)
    OBVIOUS
  <2>2. earned[d] \in Int
    BY DEF LedgerInv
  <2>3. came(d) \in Int
    BY <2>2
  <2>4. came(d) # came(d) - 1
    BY <2>3
  <2>5. QED
    BY <2>1, <2>4 DEF Watch
<1>2. ASSUME NEW d \in Client
      PROVE  came(d) \in Int /\ Credit(recv[d], marks[d]) <= came(d)
  <2>1. /\ earned[d] \in Int /\ recvQ[d] \in Nat /\ mark[d] \in BOOLEAN
        /\ Credit(recvQ[d], mark[d]) <= earned[d]
        /\ MaxRecv \in Nat
    BY ConstantsAssumption DEF LedgerInv, TypeOK
  <2>2. /\ recv[d] = recvQ[d] + (IF d \in data THEN 1 ELSE 0)
        /\ recv[d] <= MaxRecv
        /\ marks[d] <=> mark[d] \/ d \in marked
    OBVIOUS
  <2>3. CASE d \notin data \cup marked
    BY <2>1, <2>2, <2>3 DEF Credit
  <2>4. CASE d \in data \cup marked /\ earned[d] < Keeps
    <3>1. Credit(recv[d], marks[d]) <= Credit(recvQ[d], mark[d]) + 1
      <4>1. CASE d \in data
        <5>1. d \notin marked
          BY <4>1
        <5>2. QED
          BY <2>1, <2>2, <4>1, <5>1 DEF Credit
      <4>2. CASE d \notin data
        BY <2>1, <2>2, <4>2 DEF Credit
      <4>3. QED
        BY <4>1, <4>2
    <3>2. Credit(recvQ[d], mark[d]) \in Nat /\ Credit(recv[d], marks[d]) \in Nat
      BY <2>1, <2>2 DEF Credit
    <3>3. came(d) = earned[d] + 1
      BY <2>4
    <3> HIDE DEF came
    <3>4. QED
      BY <2>1, <3>1, <3>2, <3>3
  <2>5. CASE d \in data \cup marked /\ ~(earned[d] < Keeps)
    <3>1. Credit(recv[d], marks[d]) \in Nat /\ Credit(recv[d], marks[d]) <= MaxRecv + 1
      BY <2>1, <2>2 DEF Credit
    <3>2. came(d) = earned[d] /\ MaxRecv + 1 <= earned[d]
      BY <2>1, <2>5 DEF Keeps
    <3> HIDE DEF came
    <3>3. QED
      BY <2>1, <3>1, <3>2
  <2>6. QED
    BY <2>3, <2>4, <2>5
<1>3. earned' \in [Client -> Int]
  <2>1. earned' = [d \in Client |-> earned'[d]]
    BY DEF Watch
  <2> HIDE DEF came, charged
  <2>2. \A d \in Client : earned'[d] \in Int
    BY <1>1, <1>2
  <2>3. QED
    BY <2>1, <2>2
<1>4. ASSUME NEW d \in Client
      PROVE  Credit(recvQ'[d], mark'[d]) <= earned'[d]
  <2>1. /\ Credit(recvQ'[d], mark'[d]) \in Nat
        /\ Credit(recvQ'[d], mark'[d]) <= Credit(recv[d], marks[d])
        /\ charged(d) => Credit(recvQ'[d], mark'[d]) <= Credit(recv[d], marks[d]) - 1
    BY RoundSpends
  <2>2. Credit(recv[d], marks[d]) \in Nat
    BY DEF Credit
  <2> HIDE DEF came, charged
  <2>3. QED
    BY <1>1, <1>2, <2>1, <2>2
<1>5. QED
  BY <1>3, <1>4 DEF LedgerInv

(* Every handler of a frame other than DATA marks, and then delivers from   *)
(* the states it leaves.                                                    *)
LEMMA FrameMarks ==
  ASSUME NEW c \in Client, RecvIgnored(c) \/ RecvCtrl(c)
  PROVE  \E opened : MarkAndDeliver(c, state', opened)
<1>1. CASE \/ RecvIgnored(c) \/ RecvActiveRefused(c) \/ RecvInactiveRefused(c)
           \/ RecvActiveGranted(c) \/ RecvActiveDeferred(c)
  BY <1>1 DEF RecvIgnored, RecvActiveRefused, RecvInactiveRefused, RecvActiveGranted,
     RecvActiveDeferred
<1>2. CASE RecvChangeOk(c) \/ RecvInactive(c) \/ RecvShut(c)
  BY <1>2 DEF RecvChangeOk, RecvInactive, RecvShut
<1>3. ASSUME NEW k \in KMin, RecvHello(c, k)
      PROVE  \E opened : MarkAndDeliver(c, state', opened)
  BY <1>3 DEF RecvHello
<1>4. QED
  BY <1>1, <1>2, <1>3 DEF RecvCtrl

LEMMA LedgerInit == SyncInit => LedgerInv
BY DEF SyncInit, Init, LedgerInv, Credit

LEMMA LedgerStep ==
  ASSUME TypeOK, LedgerInv, [SyncNext]_syncVars
  PROVE  LedgerInv'
<1>1. ASSUME NEW c \in Client, RecvIgnored(c) \/ RecvCtrl(c), Watch({}, {c})
      PROVE  LedgerInv'
  <2>1. PICK opened : MarkAndDeliver(c, state', opened)
    BY <1>1, FrameMarks
  <2> DEFINE marks == [mark EXCEPT ![c] = TRUE]
  <2>2. /\ HandleReceptionFrames(state', recvQ, marks, opened)
        /\ recvQ \in [Client -> Nat] /\ marks \in [Client -> BOOLEAN]
    BY <2>1, ConstantsAssumption DEF MarkAndDeliver, TypeOK
  <2>3. \A d \in Client : /\ recvQ[d] = recvQ[d] + (IF d \in {} THEN 1 ELSE 0)
                          /\ recvQ[d] <= MaxRecv
                          /\ marks[d] <=> mark[d] \/ d \in {c}
    BY ConstantsAssumption DEF TypeOK
  <2> HIDE DEF marks
  <2>4. {} \in SUBSET {c} /\ {c} \in SUBSET {c} /\ {} \cap {c} = {}
    OBVIOUS
  <2>5. QED
    BY <1>1, <2>2, <2>3, <2>4, FrameIsEarned
<1>2. ASSUME NEW c \in Client, RecvData(c), Watch({c}, {})
      PROVE  LedgerInv'
  <2> DEFINE recv == [recvQ EXCEPT ![c] = @ + 1]
  <2>1. /\ HandleReceptionFrames(state', recv, mark, open)
        /\ recv \in [Client -> Nat] /\ mark \in [Client -> BOOLEAN]
    BY <1>2 DEF RecvData, TypeOK
  <2>2. \A d \in Client : /\ recv[d] = recvQ[d] + (IF d \in {c} THEN 1 ELSE 0)
                          /\ recv[d] <= MaxRecv
                          /\ mark[d] <=> mark[d] \/ d \in {}
    BY <1>2, ConstantsAssumption DEF RecvData, TypeOK
  <2> HIDE DEF recv
  <2>3. {c} \in SUBSET {c} /\ {} \in SUBSET {c} /\ {c} \cap {} = {}
    OBVIOUS
  <2>4. QED
    BY <1>2, <2>1, <2>2, <2>3, FrameIsEarned
<1>3. ASSUME NEW c \in Client, Terminated(c), earned' = [earned EXCEPT ![c] = 0]
      PROVE  LedgerInv'
  <2>1. /\ recvQ' = [recvQ EXCEPT ![c] = 0]
        /\ mark' = [mark EXCEPT ![c] = FALSE]
    BY <1>3 DEF Terminated
  <2>2. QED
    BY <1>3, <2>1 DEF LedgerInv, Credit, TypeOK
<1>4. CASE /\ UNCHANGED earned
           /\ \/ UNCHANGED vars
              \/ CliTsRate
              \/ \E c \in Client :
                   \/ AcceptPending(c) \/ NewConnection(c) \/ AcceptFails(c)
                   \/ ClientClosed(c) \/ LocalError(c) \/ SendCtrl(c)
  <2>1. recvQ' = recvQ /\ mark' = mark
    BY <1>4 DEF vars, CliTsRate, AcceptPending, NewConnection, AcceptFails, ClientClosed,
       LocalError, SendCtrl
  <2>2. QED
    BY <1>4, <2>1 DEF LedgerInv
<1>5. QED
  BY <1>1, <1>2, <1>3, <1>4 DEF SyncNext, syncVars

(* No client is used for more rounds of delivery than it has sent frames,   *)
(* for any number of clients and any refused or failed writes.              *)
THEOREM RoundsCorrect == SyncSpec => []RoundsAreEarned
<1>1. SyncSpec => []TypeOK
  BY HistoryOnlyWatches, TypeCorrect, PTL
<1>2. ASSUME TypeOK, LedgerInv
      PROVE  RoundsAreEarned
  <2>1. ASSUME NEW d \in Client
        PROVE  earned[d] >= 0
    <3>1. recvQ[d] \in Nat /\ earned[d] \in Int
      BY <1>2, ConstantsAssumption DEF TypeOK, LedgerInv
    <3>2. Credit(recvQ[d], mark[d]) >= 0
      BY <3>1 DEF Credit
    <3>3. Credit(recvQ[d], mark[d]) \in Int
      BY <3>1 DEF Credit
    <3>4. QED
      BY <1>2, <3>1, <3>2, <3>3 DEF LedgerInv
  <2>2. QED
    BY <2>1 DEF RoundsAreEarned
<1>3. QED
  BY <1>1, <1>2, LedgerInit, LedgerStep, PTL DEF SyncSpec
=============================================================================
