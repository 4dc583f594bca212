--------------------------------- MODULE TorK ---------------------------------
(***************************************************************************)
(* The bridge and its clients.  The bridge is ControllerServer, unchanged,  *)
(* but here it receives what a client has sent, in the order it was sent,  *)
(* and a client acts on the orders of the bridge, in their order: TLS      *)
(* connections lose and reorder nothing until they end.                    *)
(*                                                                         *)
(* A client is the channel of ControllerClient, without its circuits and   *)
(* its streams: that it gives up building circuits is a step it may take   *)
(* while it is ACTIVE.  A frame in the queue of its sender and one on the  *)
(* way are not told apart.                                                 *)
(***************************************************************************)
EXTENDS ControllerServer

CONSTANTS
  ChActive,   (* --ch_active                                                 *)
  MaxCommands (* bound: what users, or clients that give up, ask for         *)

ASSUME TorKAssumption == ChActive \in BOOLEAN /\ MaxCommands \in Nat

VARIABLES
  chan,      (* Client::_state on the side of the client                     *)
  changing,  (* the clients inside handleCtrlFrame_CHANGE                    *)
  sent,      (* the CTRL frames of a client the bridge has not read          *)
  commands,  (* how much has been asked for                                  *)
  crossed    (* history: the clients whose own new state and an order of the *)
             (* bridge have been on their way at the same time               *)

clientVars == <<chan, changing, sent, commands, crossed>>
allVars == <<vars, clientVars>>

(* GONE: there is no connection, not yet or not any more. *)
Channel == {"UNDEF", "HELLO", "CONNECTED", "ACTIVE", "WAIT", "CHANGING", "INACTIVE", "SHUT"}

Connected(c) == chan[c] \in Channel

(* GIVE_UP is the INACTIVE frame of a client that has made itself INACTIVE; *)
(* with HELLO and SHUT it tells the bridge what the client is already.      *)
Declaration == {"HELLO", "SHUT", "GIVE_UP"}

Ordered(c) == c \in changing \/ \E i \in DOMAIN ctrlQ[c] : IsOrder(ctrlQ[c][i])

Declared(c) == \E i \in DOMAIN sent[c] : sent[c][i] \in Declaration

InFlight(c) == ctrlQ[c] # <<>> \/ sent[c] # <<>> \/ c \in changing

WatchCrossings ==
  crossed' = {c \in Client : /\ Connected(c)'
                             /\ c \in crossed \/ (Ordered(c) /\ Declared(c))'}

SetChan(c, s) == chan' = [chan EXCEPT ![c] = s]

Send(c, type) == sent' = [sent EXCEPT ![c] = Append(@, type)]

-----------------------------------------------------------------------------
(* A client connects, with a k_min given on the command line or not; it may *)
(* be one that has been here before.                                        *)
Connects(c) ==
  /\ chan[c] = "GONE"
  /\ NewConnection(c)
  /\ \/ SetChan(c, "HELLO") /\ Send(c, "HELLO")
     \/ SetChan(c, "UNDEF") /\ UNCHANGED sent
  /\ UNCHANGED <<changing, commands>>

(* The connection is lost, with all that is on its way to the bridge. *)
Disconnects(c) ==
  /\ Connected(c)
  /\ ClientClosed(c)
  /\ SetChan(c, "GONE")
  /\ changing' = changing \ {c}
  /\ sent' = [sent EXCEPT ![c] = <<>>]
  /\ UNCHANGED commands

Sweeps(c) == Terminated(c) /\ UNCHANGED <<chan, changing, sent, commands>>

-----------------------------------------------------------------------------
(* The proxy thread of a client: the handlers of CTRL frames. *)
Hears(c, type) ==
  /\ Connected(c) /\ c \notin changing
  /\ ctrlQ[c] # <<>> /\ Head(ctrlQ[c]) = type
  /\ SendCtrl(c)
  /\ UNCHANGED commands

(* An order that changes the state of some states, and is ignored in others. *)
Obeys(c, type, from, to) ==
  /\ Hears(c, type)
  /\ chan' = IF chan[c] \in from THEN [chan EXCEPT ![c] = to] ELSE chan
  /\ UNCHANGED <<changing, sent>>

HearsHelloOk(c) ==
  /\ Hears(c, "HELLO_OK")
  /\ IF chan[c] = "HELLO"
     THEN /\ SetChan(c, "CONNECTED")
          /\ IF ChActive THEN Send(c, "ACTIVE") ELSE UNCHANGED sent
     ELSE UNCHANGED <<chan, sent>>
  /\ UNCHANGED changing

(* Faulty: a client goes on only when it has asked for it itself. *)
HearsActiveAsked(c) == Obeys(c, "ACTIVE", {"CONNECTED", "INACTIVE"}, "ACTIVE")

HearsActive(c) == Obeys(c, "ACTIVE", {"CONNECTED", "WAIT", "INACTIVE"}, "ACTIVE")

HearsWait(c) == Obeys(c, "WAIT", {"CONNECTED", "ACTIVE", "INACTIVE"}, "WAIT")

HearsInactive(c) == Obeys(c, "INACTIVE", Channel, "INACTIVE")

HearsShutOk(c) == Obeys(c, "SHUT_OK", Channel, "SHUT")

HearsOther(c) ==
  \E type \in {"TS_RATE", "ERR_ACTIVE", "ERR_INACTIVE"} : Obeys(c, type, {}, "UNDEF")

(* handleCtrlFrame_CHANGE goes on after a command to Tor. *)
HearsChange(c) ==
  /\ Hears(c, "CHANGE")
  /\ IF chan[c] = "ACTIVE"
     THEN SetChan(c, "CHANGING") /\ changing' = changing \cup {c}
     ELSE UNCHANGED <<chan, changing>>
  /\ UNCHANGED sent

(* Faulty: the bridge is not told. *)
ChangesSilently(c) ==
  /\ c \in changing
  /\ changing' = changing \ {c}
  /\ SetChan(c, "ACTIVE")
  /\ UNCHANGED <<vars, sent, commands>>

(* Whatever the user has asked for meanwhile. *)
Changes(c) ==
  /\ c \in changing
  /\ changing' = changing \ {c}
  /\ SetChan(c, "ACTIVE")
  /\ Send(c, "CHANGE_OK")
  /\ UNCHANGED <<vars, commands>>

(* What is sent to a client that has gone is lost. *)
Lost(c) ==
  /\ chan[c] = "GONE"
  /\ SendCtrl(c)
  /\ UNCHANGED <<chan, changing, sent, commands>>

Handles(c) ==
  \/ HearsHelloOk(c) \/ HearsActive(c) \/ HearsWait(c) \/ HearsChange(c)
  \/ HearsInactive(c) \/ HearsShutOk(c) \/ HearsOther(c)
  \/ Changes(c) \/ Lost(c)

-----------------------------------------------------------------------------
(* The CLI thread, and the event thread for GivesUp. *)
Asks(c, type) ==
  /\ Connected(c)
  /\ commands < MaxCommands
  /\ commands' = commands + 1
  /\ Send(c, type)
  /\ UNCHANGED <<vars, changing>>

(* The command ch. *)
AsksChannel(c, type) == Asks(c, type) /\ UNCHANGED chan

(* The commands k and shut set the state, and tell the bridge. *)
Declares(c, s, type) == Asks(c, type) /\ SetChan(c, s)

SetsK(c) == Declares(c, "HELLO", "HELLO")

Shuts(c) == Declares(c, "SHUT", "SHUT")

GivesUp(c) == chan[c] = "ACTIVE" /\ Declares(c, "INACTIVE", "GIVE_UP")

-----------------------------------------------------------------------------
(* The proxy thread of the bridge reads the next frame of a client. *)
Reads(c, type) ==
  /\ sent[c] # <<>> /\ Head(sent[c]) = type
  /\ sent' = [sent EXCEPT ![c] = Tail(@)]
  /\ UNCHANGED <<chan, changing, commands>>

ReadsHello(c) == Reads(c, "HELLO") /\ \E k \in KMin : RecvHello(c, k)

ReadsActive(c) ==
  /\ Reads(c, "ACTIVE")
  /\ RecvActiveRefused(c) \/ RecvActiveGranted(c) \/ RecvActiveDeferred(c)

ReadsInactive(c) ==
  /\ Reads(c, "INACTIVE") \/ Reads(c, "GIVE_UP")
  /\ RecvInactive(c) \/ RecvInactiveRefused(c)

ReadsShut(c) == Reads(c, "SHUT") /\ RecvShut(c)

ReadsChangeOk(c) == Reads(c, "CHANGE_OK") /\ RecvChangeOk(c)

Bridge(c) ==
  ReadsHello(c) \/ ReadsActive(c) \/ ReadsInactive(c) \/ ReadsShut(c) \/ ReadsChangeOk(c)

-----------------------------------------------------------------------------
TorKInit ==
  /\ Init
  /\ chan = [c \in Client |-> "GONE"]
  /\ changing = {}
  /\ sent = [c \in Client |-> <<>>]
  /\ commands = 0
  /\ crossed = {}

User(c) ==
  \/ \E type \in {"ACTIVE", "INACTIVE"} : AsksChannel(c, type)
  \/ SetsK(c) \/ Shuts(c) \/ GivesUp(c)

TorKNext ==
  /\ \E c \in Client :
       Connects(c) \/ Disconnects(c) \/ Sweeps(c) \/ Handles(c) \/ User(c) \/ Bridge(c)
  /\ WatchCrossings

(* Threads that have something to read go on. *)
TorKFairness ==
  \A c \in Client :
    /\ WF_allVars(Handles(c) /\ WatchCrossings)
    /\ WF_allVars(Bridge(c) /\ WatchCrossings)
    /\ WF_allVars(Sweeps(c) /\ WatchCrossings)

TorKSpec == TorKInit /\ [][TorKNext]_allVars /\ TorKFairness

-----------------------------------------------------------------------------
(* Once nothing is on its way between a client and the bridge, both give    *)
(* the channel the same state, whatever orders to wait, to change circuit   *)
(* and to go on the frames of other clients have brought about meanwhile;   *)
(* unless the client has set its own state and the two have crossed.        *)
AgreeWhenQuiet ==
  \A c \in Client \ crossed :
    Connected(c) /\ ~InFlight(c) /\ c \notin zombies => chan[c] = state[c]

(* A client whose own declarations and the orders of the bridge have not    *)
(* crossed never ignores an order: each finds the channel in a state the    *)
(* client accepts it in, whatever orders came before it, and brings it to   *)
(* the state the bridge has sent it for.                                    *)
OrdersAreObeyed ==
  [][\A c \in Client \ crossed :
       Connected(c) /\ Len(ctrlQ'[c]) < Len(ctrlQ[c]) /\ IsOrder(Head(ctrlQ[c])) =>
         chan'[c] \in OrderedState(Head(ctrlQ[c]))]_allVars

(* A client that is ordered to change its circuit is let in again, or ends  *)
(* the channel itself: its CHANGE_OK is never the one that is missing.      *)
ChangeEnds == \A c \in Client : state[c] = "CHANGING" ~> state[c] # "CHANGING" \/ c \in crossed
=============================================================================
