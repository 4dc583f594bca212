----------------------------- MODULE ClientFrames -----------------------------
(***************************************************************************)
(* The frames a client queues for its bridge, and what an order of the     *)
(* bridge, or the user, does to those of them that are on their way: the   *)
(* proxy thread and the CLI thread beside the traffic shaping thread of    *)
(* FrameSender.  The reads of the bridge's own frames are left out; they   *)
(* are those of BridgeFrames.                                              *)
(***************************************************************************)
EXTENDS FrameSender

CONSTANT MaxQueued (* bound: frames in a queue                               *)

VARIABLES
  active,  (* the connections whose Client::_state is ACTIVE                 *)
  emptying (* the order for which shutdown_local_helper empties a data queue *)

ownVars == <<active, emptying>>

vars == <<senderVars, ownVars>>

(* handleSocksClientDataReady: data of the local application, in any state. *)
LocalRead(c) ==
  /\ emptying[c] = "NONE"
  /\ HasRoom(pool) /\ Len(dataQ[c]) < MaxQueued
  /\ pool' = AllocFrame(pool)
  /\ \E n \in DataChunks : content' = [content EXCEPT ![NextFrame(pool)] = n]
  /\ dataQ' = [dataQ EXCEPT ![c] = Append(@, NextFrame(pool))]
  /\ UNCHANGED <<ctrlQ, lastChunk, wrType, sending, owed, ownVars>>

PushCtrl(c) ==
  /\ HasRoom(pool) /\ Len(ctrlQ[c]) < MaxQueued
  /\ pool' = AllocFrame(pool)
  /\ content' = [content EXCEPT ![NextFrame(pool)] = 0]
  /\ ctrlQ' = [ctrlQ EXCEPT ![c] = Append(@, NextFrame(pool))]
  /\ UNCHANGED <<dataQ, lastChunk, wrType, sending, owed>>

(* A frame that leaves the state alone: set_channel_status. *)
Asks(c) == emptying[c] = "NONE" /\ PushCtrl(c) /\ UNCHANGED ownVars

(* Frames that do not: of the commands k and shut, and of the event thread  *)
(* that cannot build a circuit.                                             *)
Leaves(c) == PushCtrl(c) /\ active' = active \ {c} /\ UNCHANGED emptying

(* The bridge orders ACTIVE. *)
Activated(c) ==
  /\ emptying[c] = "NONE"
  /\ active' = active \cup {c}
  /\ UNCHANGED <<senderVars, emptying>>

(* It orders WAIT, INACTIVE or SHUT_OK. *)
Held(c) ==
  /\ emptying[c] = "NONE"
  /\ active' = active \ {c}
  /\ emptying' = [emptying EXCEPT ![c] = "HOLD"]
  /\ UNCHANGED senderVars

ChangeOrdered(c) ==
  /\ emptying[c] = "NONE"
  /\ c \in active
  /\ active' = active \ {c}
  /\ emptying' = [emptying EXCEPT ![c] = "CHANGE"]
  /\ UNCHANGED senderVars

(* The loop of shutdown_local_helper takes no notice of what the shaping    *)
(* thread is in the middle of.                                              *)
Emptied(c) ==
  /\ emptying[c] # "NONE"
  /\ dataQ[c] # <<>>
  /\ dataQ' = [dataQ EXCEPT ![c] = Tail(@)]
  /\ lastChunk' = [lastChunk EXCEPT ![c] = 0]
  /\ pool' = UnallocFrame(pool, Head(dataQ[c]))
  /\ UNCHANGED <<content, ctrlQ, wrType, sending, owed, ownVars>>

HoldDone(c) ==
  /\ emptying[c] = "HOLD"
  /\ dataQ[c] = <<>>
  /\ emptying' = [emptying EXCEPT ![c] = "NONE"]
  /\ UNCHANGED <<senderVars, active>>

(* The bridge gets its CHANGE_OK, and the client is ACTIVE again. *)
ChangeDone(c) ==
  /\ emptying[c] = "CHANGE"
  /\ dataQ[c] = <<>>
  /\ PushCtrl(c)
  /\ active' = active \cup {c}
  /\ emptying' = [emptying EXCEPT ![c] = "NONE"]

-----------------------------------------------------------------------------
(* A tick of the shaping thread: DATA goes out while the client is ACTIVE.  *)
Picked(c) == PickedWhen(c, c \in active)

Refused(c) == WriteRefused(c, Picked(c)) /\ UNCHANGED ownVars

Taken(c) == WriteTaken(c, Picked(c)) /\ UNCHANGED ownVars

(* A frame that has been emptied away meanwhile is popped all the same, from *)
(* an empty queue or in place of another one: what then happens is undefined, *)
(* and the model stops here.                                                *)
Settled ==
  /\ sending # None
  /\ sending.of.type = "DATA" =>
       dataQ[sending.conn] # <<>> /\ Head(dataQ[sending.conn]) = sending.of.frame
  /\ Settle(sending.conn, sending.of)
  /\ UNCHANGED ownVars

Init ==
  /\ pool = NewPool
  /\ content = [f \in Frame |-> 0]
  /\ ctrlQ = [c \in Conn |-> <<>>]
  /\ dataQ = [c \in Conn |-> <<>>]
  /\ lastChunk = [c \in Conn |-> 0]
  /\ wrType = [c \in Conn |-> "NONE"]
  /\ sending = None
  /\ owed = [c \in Conn |-> None]
  /\ active = {}
  /\ emptying = [c \in Conn |-> "NONE"]

Next ==
  \/ \E c \in Conn : LocalRead(c) \/ Asks(c) \/ Leaves(c)
  \/ \E c \in Conn : Activated(c) \/ Held(c) \/ ChangeOrdered(c)
  \/ \E c \in Conn : Emptied(c) \/ HoldDone(c) \/ ChangeDone(c)
  \/ \E c \in Conn : Refused(c) \/ Taken(c)
  \/ Settled

Spec == Init /\ [][Next]_vars

-----------------------------------------------------------------------------
(* What the comment in Client.hh says of OpenSSL: a chunk that SSL_write has *)
(* refused is the one it is offered next.                                   *)
RefusedIsRetried ==
  \A c \in Conn : wrType[c] # "NONE" /\ sending = None => Picked(c) = owed[c]
=============================================================================
