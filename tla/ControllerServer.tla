-------------------------- MODULE ControllerServer --------------------------
(***************************************************************************)
(* The bridge: the handlers of ControllerServer, the client table of       *)
(* ClientManager and the local Tor segments of SocksProxyServer.           *)
(*                                                                         *)
(* One action is one handler run to its end.  Every handler that changes   *)
(* the state of a client runs on the socks proxy thread, so handlers do    *)
(* not interleave with each other; the traffic shaping thread (SendCtrl)   *)
(* and the CLI thread (CliTsRate) touch only the queues of frames for the  *)
(* clients, and the proxy thread destroys shut-down connections only after *)
(* a pass over the sockets (Terminated).                                   *)
(*                                                                         *)
(* Left to other modules: the DATA frames for the clients, the chunks of a *)
(* frame, and the frames' memory.                                          *)
(***************************************************************************)
EXTENDS Integers, Sequences, FiniteSets

CONSTANTS
  Client,             (* the connections a client may open to the bridge     *)
  KMin,               (* the values of k_min a HELLO may carry               *)
  DisableCircChange,  (* --disable_circ_change                               *)
  DisableDynamicRate, (* --disable_dynamic_rate                              *)
  TsMin, TsMax,       (* --ts_min and --ts_max                               *)
  MaxListenUsers,     (* MAX_LISTEN_USERS                                    *)
  HandshakeMayFail,   (* may SSL_accept return an error?                     *)
  MaxRecv,            (* bound: DATA frames of one client waiting for Tor    *)
  MaxCtrl             (* bound: CTRL frames waiting for one client           *)

(***************************************************************************)
(* A handler appends at most MaxPush CTRL frames to one client's queue     *)
(* (WAIT or CHANGE, then TS_RATE, when a connection ends).                 *)
(***************************************************************************)
MaxPush == 2

ASSUME ConstantsAssumption ==
  /\ IsFiniteSet(Client)
  /\ KMin \subseteq Int
  /\ DisableCircChange \in BOOLEAN
  /\ DisableDynamicRate \in BOOLEAN
  /\ HandshakeMayFail \in BOOLEAN
  /\ TsMin \in Nat /\ TsMax \in Nat /\ MaxListenUsers \in Nat
  /\ MaxRecv \in Nat
  /\ MaxCtrl \in Nat /\ MaxCtrl >= MaxPush

VARIABLES
  state,     (* Client::_state, or where the connection is before / after    *)
  kmin,      (* Client::_k_min                                               *)
  open,      (* the clients whose FdPair has a local Tor segment (fd1)       *)
  ctrlQ,     (* Client::_ctrl_queue                                          *)
  recvQ,     (* the length of Client::_reception_queue                       *)
  mark,      (* Client::_reception_mark                                      *)
  zombies,   (* SocksProxyServer::_zombies                                   *)
  sweeping,  (* the proxy thread is in the loop over _zombies                *)
  ts,        (* TrafficShaper::_state                                        *)
  rate       (* TrafficShaper::_rate_microsec                                *)

vars == <<state, kmin, open, ctrlQ, recvQ, mark, zombies, sweeping, ts, rate>>

-----------------------------------------------------------------------------
(* ABSENT: no FdPair; ACCEPTING: in _fds, TLS handshake unfinished, not yet *)
(* in ClientManager::_clients.  The others are the CLIENT_STATE_ codes that *)
(* the bridge stores.                                                       *)
ClientState == {"UNDEF", "CONNECTED", "ACTIVE", "WAIT", "CHANGING",
                "INACTIVE", "SHUT"}
ConnState == ClientState \cup {"ABSENT", "ACCEPTING"}

CtrlType == {"HELLO_OK", "ACTIVE", "WAIT", "CHANGE", "INACTIVE", "SHUT_OK",
             "TS_RATE", "ERR_ACTIVE", "ERR_INACTIVE"}

(* CLIENT_K_MIN_UNDEF *)
KMinUndef == -1

(* VALID_CLIENT *)
ValidStates == ClientState \ {"UNDEF", "SHUT"}
Valid(s) == {d \in Client : s[d] \in ValidStates}

(* The entries of ClientManager::_clients. *)
Registered(s) == {d \in Client : s[d] \in ClientState}

ConnectedClients(s) == Cardinality(Valid(s))

IsClientBroken(s, k, c) == ConnectedClients(s) < k[c]

(* Faulty variants, each named for its fault, stand before the definition   *)
(* they vary; no definition of the model uses them.  This one spares a      *)
(* client that lacks a single companion.                                    *)
BrokenClientsOffByOne(s, k) ==
  {d \in Client : s[d] = "ACTIVE" /\ ConnectedClients(s) + 1 < k[d]}

BrokenClients(s, k) ==
  {d \in Client : s[d] = "ACTIVE" /\ IsClientBroken(s, k, d)}

FulfilledClients(s, k) ==
  {d \in Client : s[d] = "ACTIVE" /\ ~IsClientBroken(s, k, d)}

(* Faulty: wakes a client only when its group is larger than it asked for. *)
WaitingFulfilledStrict(s, k) ==
  {d \in Client : s[d] = "WAIT" /\ ConnectedClients(s) > k[d]}

WaitingFulfilledClients(s, k) ==
  {d \in Client : s[d] = "WAIT" /\ ~IsClientBroken(s, k, d)}

-----------------------------------------------------------------------------
UpdateClientState(s, S, new) == [d \in Client |-> IF d \in S THEN new ELSE s[d]]

Push(q, S, type) == [d \in Client |-> IF d \in S THEN Append(q[d], type) ELSE q[d]]

(* order_CHANGE does nothing when its callers skip it. *)
ToChange(s, k) == IF DisableCircChange THEN {} ELSE FulfilledClients(s, k)

(* order_WAIT, then order_CHANGE, as a departure runs them: the new states, *)
(* the queues and the clients whose local segment is shut down.             *)
OrderWait(s, k) == UpdateClientState(s, BrokenClients(s, k), "WAIT")

OrderChange(s, k) == UpdateClientState(s, ToChange(s, k), "CHANGING")

(* Faulty: a departure forgets order_WAIT. *)
RegroupWithoutWait(s, k) == OrderChange(s, k)

Regroup(s, k) == OrderChange(OrderWait(s, k), k)

RegroupFrames(s, k, q) ==
  Push(Push(q, BrokenClients(s, k), "WAIT"), ToChange(OrderWait(s, k), k), "CHANGE")

RegroupClosed(s, k) == BrokenClients(s, k) \cup ToChange(OrderWait(s, k), k)

(* ts_rate_update: the rate for n registered clients. *)
RateFor(n) == IF n <= MaxListenUsers THEN n * TsMin ELSE TsMax

(* order_TS_RATE, from the states s and queues q; the rate is left out of   *)
(* the frames.  Its assertion is the first conjunct: a handler that fails   *)
(* it does not return, and the process ends.                                *)
OrderTsRate(r, s, q) ==
  /\ r \in TsMin .. TsMax
  /\ ctrlQ' = Push(q, Registered(s), "TS_RATE")

(* Faulty: the clients are told, the bridge keeps its own rate. *)
TsRateUpdateOrdersOnly(s, q) ==
  IF DisableDynamicRate
  THEN ctrlQ' = q /\ rate' = rate
  ELSE OrderTsRate(RateFor(Cardinality(Registered(s))), s, q) /\ rate' = rate

(* ts_rate_update, as the handlers call it. *)
TsRateUpdate(s, q) ==
  IF DisableDynamicRate
  THEN ctrlQ' = q /\ rate' = rate
  ELSE /\ OrderTsRate(RateFor(Cardinality(Registered(s))), s, q)
       /\ rate' = RateFor(Cardinality(Registered(s)))

(* Room for the frames of one handler. *)
CtrlRoom == \A d \in Client : Len(ctrlQ[d]) + MaxPush <= MaxCtrl

-----------------------------------------------------------------------------
(* The last part of handleSocksClientDataReady: once every valid client has *)
(* a frame or a mark, each gives one up.  A DATA frame of an ACTIVE client  *)
(* is written to its local segment, which is restored if it is down; the    *)
(* write may be refused (the frame stays) or fail (the connection is shut   *)
(* down).  A DATA frame of any other valid client is dropped.  recv, marks  *)
(* and opened are the values the first part of the handler leaves.          *)
ReceivedAll(s, recv, marks) == \A d \in Valid(s) : recv[d] > 0 \/ marks[d]

(* Faulty: delivers without looking at the state. *)
ToDeliverUnchecked(s, recv) == {d \in Valid(s) : recv[d] > 0}

ToDeliver(s, recv) == {d \in Client : s[d] = "ACTIVE" /\ recv[d] > 0}

(* Faulty: a round leaves the marks it has used. *)
MarksLeftUnspent(s, recv, marks) == marks

(* clearReceivedFrame: a client that has brought no DATA gives up its mark. *)
MarksLeft(s, recv, marks) ==
  [d \in Client |-> marks[d] /\ ~(d \in Valid(s) /\ recv[d] = 0)]

(* Faulty: pops the reception queue of every client, empty or not. *)
HandleReceptionFramesPopAll(s, recv, marks, opened) ==
  /\ recvQ' = IF ReceivedAll(s, recv, marks)
              THEN [d \in Client |-> IF d \in Valid(s) THEN recv[d] - 1 ELSE recv[d]]
              ELSE recv
  /\ mark' = marks
  /\ open' = opened
  /\ zombies' = zombies

HandleReceptionFrames(s, recv, marks, opened) ==
  IF ReceivedAll(s, recv, marks)
  THEN \E blocked \in SUBSET ToDeliver(s, recv) :
       \E failed \in SUBSET (ToDeliver(s, recv) \ blocked) :
         /\ recvQ' = [d \in Client |->
                        IF d \in Valid(s) \ blocked /\ recv[d] > 0
                        THEN recv[d] - 1 ELSE recv[d]]
         /\ mark' = MarksLeft(s, recv, marks)
         /\ open' = opened \cup ToDeliver(s, recv)
         /\ zombies' = zombies \cup failed
  ELSE /\ recvQ' = recv
       /\ mark' = marks
       /\ open' = opened
       /\ zombies' = zombies

(* What every frame other than DATA does: set the mark, then deliver. *)
MarkAndDeliver(c, s, opened) ==
  HandleReceptionFrames(s, recvQ, [mark EXCEPT ![c] = TRUE], opened)

(* The proxy thread reads a frame of c. *)
Reading(c) == ~sweeping /\ state[c] \in ClientState

-----------------------------------------------------------------------------
(* accept() and a handshake that must go on in a later pass. *)
AcceptPending(c) ==
  /\ ~sweeping
  /\ state[c] = "ABSENT"
  /\ state' = [state EXCEPT ![c] = "ACCEPTING"]
  /\ UNCHANGED <<kmin, open, ctrlQ, recvQ, mark, zombies, sweeping, ts, rate>>

(* Faulty: looks at the size of the table before add_client. *)
NewConnectionEarlySize(c) ==
  /\ ~sweeping
  /\ state[c] \in {"ABSENT", "ACCEPTING"}
  /\ c \notin zombies
  /\ CtrlRoom
  /\ state' = [state EXCEPT ![c] = "UNDEF"]
  /\ TsRateUpdate(state', ctrlQ)
  /\ ts' = IF Cardinality(Registered(state)) = 1 THEN "ON" ELSE ts
  /\ UNCHANGED <<kmin, open, recvQ, mark, zombies, sweeping>>

(* The handshake ends: handleSocksNewConnection, with add_client's fresh    *)
(* Client.                                                                  *)
NewConnection(c) ==
  /\ ~sweeping
  /\ state[c] \in {"ABSENT", "ACCEPTING"}
  /\ c \notin zombies
  /\ CtrlRoom
  /\ state' = [state EXCEPT ![c] = "UNDEF"]
  /\ TsRateUpdate(state', ctrlQ)
  /\ ts' = IF Cardinality(Registered(state')) = 1 THEN "ON" ELSE ts
  /\ UNCHANGED <<kmin, open, recvQ, mark, zombies, sweeping>>

(* The handshake fails, at once or in a later pass. *)
AcceptFails(c) ==
  /\ HandshakeMayFail
  /\ ~sweeping
  /\ state[c] \in {"ABSENT", "ACCEPTING"}
  /\ state' = [state EXCEPT ![c] = "ACCEPTING"]
  /\ zombies' = zombies \cup {c}
  /\ UNCHANGED <<kmin, open, ctrlQ, recvQ, mark, sweeping, ts, rate>>

(* The read from the client fails: shutdown_connection. *)
ClientClosed(c) ==
  /\ Reading(c)
  /\ zombies' = zombies \cup {c}
  /\ UNCHANGED <<state, kmin, open, ctrlQ, recvQ, mark, sweeping, ts, rate>>

(* The loop over _zombies that ends a pass: remove_client, whose first      *)
(* assertion is the second conjunct, and handleSocksConnectionTerminated.   *)
Terminated(c) ==
  /\ c \in zombies
  /\ state[c] \in ClientState
  /\ CtrlRoom
  /\ zombies' = zombies \ {c}
  /\ sweeping' = (zombies' # {})
  /\ kmin' = [kmin EXCEPT ![c] = KMinUndef]
  /\ recvQ' = [recvQ EXCEPT ![c] = 0]
  /\ mark' = [mark EXCEPT ![c] = FALSE]
  /\ LET left  == [state EXCEPT ![c] = "ABSENT"]
         queue == [ctrlQ EXCEPT ![c] = <<>>]
     IN IF Registered(left) = {}
        THEN /\ state' = left
             /\ ctrlQ' = queue
             /\ open' = open \ {c}
             /\ ts' = "IDLE"
             /\ rate' = rate
        ELSE /\ state' = Regroup(left, kmin)
             /\ TsRateUpdate(left, RegroupFrames(left, kmin, queue))
             /\ open' = open \ ({c} \cup RegroupClosed(left, kmin))
             /\ ts' = ts

(* handleSocksBridgeDataReady on a read error: the local segment goes, the  *)
(* client stays.                                                            *)
LocalError(c) ==
  /\ Reading(c)
  /\ c \in open
  /\ open' = open \ {c}
  /\ UNCHANGED <<state, kmin, ctrlQ, recvQ, mark, zombies, sweeping, ts, rate>>

-----------------------------------------------------------------------------
(* CHAFF, and the CTRL types that the bridge only logs. *)
RecvIgnored(c) ==
  /\ Reading(c)
  /\ MarkAndDeliver(c, state, open)
  /\ UNCHANGED <<state, kmin, ctrlQ, sweeping, ts, rate>>

RecvData(c) ==
  /\ Reading(c)
  /\ recvQ[c] < MaxRecv
  /\ HandleReceptionFrames(state, [recvQ EXCEPT ![c] = @ + 1], mark, open)
  /\ UNCHANGED <<state, kmin, ctrlQ, sweeping, ts, rate>>

(* handleCtrlFrame_HELLO: the newcomer may complete the group of others. *)
RecvHello(c, k) ==
  /\ Reading(c)
  /\ CtrlRoom
  /\ kmin' = IF k < 0 THEN kmin ELSE [kmin EXCEPT ![c] = k]
  /\ LET s     == [state EXCEPT ![c] = "CONNECTED"]
         woken == WaitingFulfilledClients(s, kmin')
     IN /\ state' = UpdateClientState(s, woken, "ACTIVE")
        /\ ctrlQ' = Push(Push(ctrlQ, {c}, "HELLO_OK"), woken, "ACTIVE")
        /\ MarkAndDeliver(c, state', open \cup woken)
  /\ UNCHANGED <<sweeping, ts, rate>>

(* handleCtrlFrame_ACTIVE, its three outcomes. *)
MayActivate(c) == state[c] \in {"CONNECTED", "INACTIVE"}

RecvActiveRefused(c) ==
  /\ Reading(c)
  /\ CtrlRoom
  /\ ~MayActivate(c)
  /\ ctrlQ' = Push(ctrlQ, {c}, "ERR_ACTIVE")
  /\ MarkAndDeliver(c, state, open)
  /\ UNCHANGED <<state, kmin, sweeping, ts, rate>>

(* Faulty: order_CHANGE after the state of c has been updated. *)
RecvActiveGrantedThenChange(c) ==
  /\ Reading(c)
  /\ CtrlRoom
  /\ MayActivate(c)
  /\ ~IsClientBroken(state, kmin, c)
  /\ LET s       == [state EXCEPT ![c] = "ACTIVE"]
         changed == ToChange(s, kmin)
     IN /\ state' = OrderChange(s, kmin)
        /\ ctrlQ' = Push(Push(ctrlQ, changed, "CHANGE"), {c}, "ACTIVE")
        /\ MarkAndDeliver(c, state', open \ changed)
  /\ UNCHANGED <<kmin, sweeping, ts, rate>>

RecvActiveGranted(c) ==
  /\ Reading(c)
  /\ CtrlRoom
  /\ MayActivate(c)
  /\ ~IsClientBroken(state, kmin, c)
  /\ LET changed == ToChange(state, kmin)
     IN /\ state' = [OrderChange(state, kmin) EXCEPT ![c] = "ACTIVE"]
        /\ ctrlQ' = Push(Push(ctrlQ, changed, "CHANGE"), {c}, "ACTIVE")
        /\ MarkAndDeliver(c, state', (open \ changed) \cup {c})
  /\ UNCHANGED <<kmin, sweeping, ts, rate>>

RecvActiveDeferred(c) ==
  /\ Reading(c)
  /\ CtrlRoom
  /\ MayActivate(c)
  /\ IsClientBroken(state, kmin, c)
  /\ state' = [state EXCEPT ![c] = "WAIT"]
  /\ ctrlQ' = Push(ctrlQ, {c}, "WAIT")
  /\ MarkAndDeliver(c, state', open \ {c})
  /\ UNCHANGED <<kmin, sweeping, ts, rate>>

(* handleCtrlFrame_CHANGE_OK; from any other state it is only logged. *)
RecvChangeOk(c) ==
  /\ Reading(c)
  /\ state' = IF state[c] = "CHANGING" THEN [state EXCEPT ![c] = "ACTIVE"] ELSE state
  /\ MarkAndDeliver(c, state', IF state[c] = "CHANGING" THEN open \cup {c} ELSE open)
  /\ UNCHANGED <<kmin, ctrlQ, sweeping, ts, rate>>

(* handleCtrlFrame_INACTIVE, its two outcomes. *)
RecvInactive(c) ==
  /\ Reading(c)
  /\ CtrlRoom
  /\ state[c] \in {"ACTIVE", "WAIT"}
  /\ state' = [state EXCEPT ![c] = "INACTIVE"]
  /\ ctrlQ' = Push(ctrlQ, {c}, "INACTIVE")
  /\ MarkAndDeliver(c, state', open \ {c})
  /\ UNCHANGED <<kmin, sweeping, ts, rate>>

RecvInactiveRefused(c) ==
  /\ Reading(c)
  /\ CtrlRoom
  /\ state[c] \notin {"ACTIVE", "WAIT"}
  /\ ctrlQ' = Push(ctrlQ, {c}, "ERR_INACTIVE")
  /\ MarkAndDeliver(c, state, open)
  /\ UNCHANGED <<state, kmin, sweeping, ts, rate>>

(* handleCtrlFrame_SHUT: the leaver is not counted any more, the others are *)
(* regrouped, and SHUT_OK is queued last.                                   *)
RecvShut(c) ==
  /\ Reading(c)
  /\ CtrlRoom
  /\ LET s == [state EXCEPT ![c] = "SHUT"]
     IN /\ state' = Regroup(s, kmin)
        /\ ctrlQ' = Push(RegroupFrames(s, kmin, ctrlQ), {c}, "SHUT_OK")
        /\ MarkAndDeliver(c, state', open \ RegroupClosed(s, kmin))
  /\ UNCHANGED <<kmin, sweeping, ts, rate>>

-----------------------------------------------------------------------------
(* The traffic shaping thread sends the CTRL frame at the head of a queue. *)
SendCtrl(c) ==
  /\ ts = "ON"
  /\ ctrlQ[c] # <<>>
  /\ ctrlQ' = [ctrlQ EXCEPT ![c] = Tail(@)]
  /\ UNCHANGED <<state, kmin, open, recvQ, mark, zombies, sweeping, ts, rate>>

(* The CLI command ts_rate with a rate the assertion of order_TS_RATE       *)
(* accepts: the clients are told, the bridge keeps its own rate.            *)
CliTsRate ==
  /\ CtrlRoom
  /\ \E r \in TsMin .. TsMax : OrderTsRate(r, state, ctrlQ)
  /\ UNCHANGED <<state, kmin, open, recvQ, mark, zombies, sweeping, ts, rate>>

-----------------------------------------------------------------------------
Init ==
  /\ state = [c \in Client |-> "ABSENT"]
  /\ kmin = [c \in Client |-> KMinUndef]
  /\ open = {}
  /\ ctrlQ = [c \in Client |-> <<>>]
  /\ recvQ = [c \in Client |-> 0]
  /\ mark = [c \in Client |-> FALSE]
  /\ zombies = {}
  /\ sweeping = FALSE
  /\ ts = "IDLE"
  /\ rate = TsMax

RecvCtrl(c) ==
  \/ \E k \in KMin : RecvHello(c, k)
  \/ RecvActiveRefused(c)
  \/ RecvActiveGranted(c)
  \/ RecvActiveDeferred(c)
  \/ RecvChangeOk(c)
  \/ RecvInactive(c)
  \/ RecvInactiveRefused(c)
  \/ RecvShut(c)

Socket(c) ==
  \/ AcceptPending(c)
  \/ NewConnection(c)
  \/ AcceptFails(c)
  \/ ClientClosed(c)
  \/ Terminated(c)
  \/ LocalError(c)

Next ==
  \/ \E c \in Client : Socket(c) \/ RecvIgnored(c) \/ RecvData(c) \/ RecvCtrl(c)
  \/ \E c \in Client : SendCtrl(c)
  \/ CliTsRate

Spec == Init /\ [][Next]_vars

-----------------------------------------------------------------------------
(* Every variable has its type, and the bounds hold. *)
TypeOK ==
  /\ state \in [Client -> ConnState]
  /\ kmin \in [Client -> Int]
  /\ open \subseteq Client
  /\ ctrlQ \in [Client -> Seq(CtrlType)]
  /\ recvQ \in [Client -> 0 .. MaxRecv]
  /\ mark \in [Client -> BOOLEAN]
  /\ zombies \subseteq Client
  /\ sweeping \in BOOLEAN
  /\ ts \in {"IDLE", "ON"}
  /\ rate \in Nat

(* A client is made to wait only for as long as its group is too small:     *)
(* whoever completes the group wakes it in the same handler, whichever      *)
(* handler changes the size of the group (ClientManager::connectedClients)  *)
(* or its own k_min.  A client left in WAIT with its restriction fulfilled  *)
(* would stay there until somebody else says HELLO.                         *)
WaitingIsBroken ==
  \A c \in Client : state[c] = "WAIT" => IsClientBroken(state, kmin, c)

(* The K-anonymity of the KCircuit: an ACTIVE client, whose DATA frames go  *)
(* to Tor, shares the bridge with at least k_min - 1 others.                *)
ActiveIsFulfilled ==
  \A c \in Client : state[c] = "ACTIVE" => ~IsClientBroken(state, kmin, c)

(* What is left of it when the bridge also orders circuit changes: the only *)
(* way to be ACTIVE in a group too small is to have been CHANGING when the  *)
(* group shrank.                                                            *)
Exposed(c) == state[c] = "ACTIVE" /\ IsClientBroken(state, kmin, c)

ExposedOnlyByChange ==
  [][\A c \in Client : ~Exposed(c) /\ Exposed(c)' => state[c] = "CHANGING"]_vars

(* A client that has been told to hold still has no local segment, so that  *)
(* nothing of Tor reaches it: whatever closes or restores segments - other  *)
(* clients' handlers, a delivery, an error - agrees with the states.        *)
HeldClientsAreCutOff ==
  \A c \in Client :
    state[c] \in {"UNDEF", "WAIT", "CHANGING", "INACTIVE"} => c \notin open

(* The newest order still queued for a client is the one its state follows  *)
(* from, however many handlers, most of them of other clients' frames, have *)
(* queued orders for it since it was last sent one: none queues an order    *)
(* without the state it stands for, or changes the state without an order.  *)
OrderedState(type) ==
  CASE type = "HELLO_OK" -> {"CONNECTED"}
    [] type = "ACTIVE"   -> {"ACTIVE"}
    [] type = "WAIT"     -> {"WAIT"}
    [] type = "CHANGE"   -> {"CHANGING", "ACTIVE"}
    [] type = "INACTIVE" -> {"INACTIVE"}
    [] type = "SHUT_OK"  -> {"SHUT"}
    [] OTHER             -> ConnState

IsOrder(type) == type \notin {"TS_RATE", "ERR_ACTIVE", "ERR_INACTIVE"}

IsNewestOrder(q, i) == IsOrder(q[i]) /\ \A j \in i + 1 .. Len(q) : ~IsOrder(q[j])

Follows(s, q) == \A i \in 1 .. Len(q) : IsNewestOrder(q, i) => s \in OrderedState(q[i])

OrdersMatchState == \A c \in Client : Follows(state[c], ctrlQ[c])

(* The traffic shaper runs exactly while a client is registered: else the   *)
(* clients starve, or the thread spins over an empty table.                 *)
ShaperRunsIffClients == ts = "ON" <=> Registered(state) # {}

(* The rate of the bridge is the one of its present population, whichever   *)
(* way connections came and went; clients and bridge are to shape alike.    *)
(* It is a rate the command line allows: a population that has none is      *)
(* never reached, as the handler that would bring it about ends the bridge. *)
RateFollowsClients ==
  ts = "ON" /\ ~DisableDynamicRate =>
    /\ rate = RateFor(Cardinality(Registered(state)))
    /\ rate \in TsMin .. TsMax
=============================================================================
