--------------------------- MODULE ControllerClient ---------------------------
(***************************************************************************)
(* The client: its channel to the bridge, its circuit and the streams that *)
(* wait for one.  Three threads run its handlers: the proxy thread those   *)
(* of the bridge's CTRL frames, the event thread those of Tor's events,    *)
(* the CLI thread those of the user's commands.  Nothing but Tor's command *)
(* lock orders them, so they interleave wherever a handler runs a command: *)
(* a handler is the code up to its first command, and then one step for    *)
(* each command with the code that follows it.  Where a handler writes     *)
(* _circ or _circ_state after a test that another thread may undo, the     *)
(* write is a step of its own.                                             *)
(*                                                                         *)
(* The bridge and Tor are external.  The bridge may send any CTRL frame at *)
(* any time.  The frames the client queues for the bridge and the DATA of  *)
(* its local connection are left to other modules.                         *)
(***************************************************************************)
EXTENDS Integers, Sequences, FiniteSets

CONSTANTS
  Stream,          (* Tor's streams                                          *)
  MaxCirc,         (* bound: circuits Tor builds                             *)
  MaxEvents,       (* bound: events of Tor waiting for the event thread      *)
  MaxCli,          (* bound: commands of the user                            *)
  CircRetryAtmps,  (* CIRC_RETRY_ATMPS                                       *)
  ChActive         (* --ch_active                                            *)

ASSUME ClientAssumption ==
  /\ MaxCirc \in Nat /\ MaxEvents \in Nat /\ MaxCli \in Nat
  /\ CircRetryAtmps \in Nat
  /\ ChActive \in BOOLEAN

VARIABLES
  cstate,    (* Client::_state of the connection to the bridge               *)
  circ,      (* _circ                                                        *)
  built,     (* _circ_state = CIRC_STATE_BUILT                               *)
  attempts,  (* _circ_attempts                                               *)
  dirInfo,   (* _dir_info                                                    *)
  pending,   (* _pending_streams                                             *)
  todo,      (* for each thread, the steps its handler has still to make     *)
  orders,    (* how many commands the user has given                         *)
  misled,    (* history: has a handler written after its test was undone, or *)
             (* has Tor kept from the client what it had not subscribed to?  *)
  circuit,   (* Tor: its circuits                                            *)
  stream,    (* Tor: its streams, and the circuits they are attached to      *)
  evt,       (* Tor: the events the event thread has not taken               *)
  dir,       (* Tor: it has enough directory information                     *)
  subscribed (* Tor: the kinds of events it reports                          *)

own == <<cstate, circ, built, attempts, dirInfo, pending>>
tor == <<circuit, stream, evt, dir, subscribed>>
ghost == <<orders, misled>>
clientVars == <<own, todo, ghost, tor>>

(* NOT_CONN: no connection yet; GONE: it has ended, and no other comes. *)
Channel == {"UNDEF", "HELLO", "CONNECTED", "ACTIVE", "WAIT", "CHANGING", "INACTIVE", "SHUT"}
CState == Channel \cup {"NOT_CONN", "GONE"}

NoCircuit == -1
ChangeCircuit == -2
WaitingDirInfo == -3
CircId == 1 .. MaxCirc
Circ == CircId \cup {NoCircuit, ChangeCircuit, WaitingDirInfo}

Thread == {"proxy", "event", "cli"}

(* The steps of handlers.  "signal": cmdSendSignal; "create" and "postpone": *)
(* the head of create_circuit; "extend": cmdExtendCircuit; "store": the     *)
(* code behind it when it has succeeded; "hear" and "drop": what is done    *)
(* with an event about _circ; "inactive": what follows a create_circuit     *)
(* that has returned FALSE; "attach": cmdAttachStream, with the pending     *)
(* streams still to come; "close": cmdCloseCircuit; "set": the new state a  *)
(* handler gives the channel after a command.                               *)
Do(what) == [do |-> what]
About(id, what) == [do |-> what, circ |-> id]
Attach(s, id, rest) == [do |-> "attach", stream |-> s, circ |-> id, rest |-> rest]
Set(s) == [do |-> "set", state |-> s]

Step ==
  [do : {"signal", "create", "postpone", "extend", "inactive", "close"}]
    \cup [do : {"store", "hear", "drop"}, circ : CircId]
    \cup [do : {"attach"}, stream : Stream, circ : Circ, rest : SUBSET Stream]
    \cup [do : {"set"}, state : Channel]

(* What Tor reports, and of which circuit or stream.  The handler of        *)
(* DETACHED knows two of Tor's reasons: TIMEOUT and END.                    *)
CircuitEvent == {"BUILT", "FAILED", "CLOSED"}
StreamEvent == {"STREAM_WAIT", "STREAM_CLOSED", "STREAM_DETACHED", "STREAM_DETACHED_OTHER"}

Event ==
  [type : CircuitEvent, of : CircId]
    \cup [type : StreamEvent, of : Stream]
    \cup [type : {"DIR_INFO"}, of : {0}]

(* The kinds of SETEVENTS. *)
Kind == {"CIRC", "STREAM", "STATUS_CLIENT"}
KindOf(type) ==
  IF type \in CircuitEvent THEN "CIRC"
  ELSE IF type \in StreamEvent THEN "STREAM" ELSE "STATUS_CLIENT"

Idle(t) == todo[t] = <<>>
Begin(t, steps) == todo' = [todo EXCEPT ![t] = steps]
At(t, what) == todo[t] # <<>> /\ Head(todo[t]).do = what
Continue(t, steps) == todo' = [todo EXCEPT ![t] = steps \o Tail(@)]

(* Whoever sets the state sets that of the one connection, if there is one. *)
SetChannel(s) == cstate' = IF cstate \in Channel THEN s ELSE cstate

-----------------------------------------------------------------------------
(* The steps that all threads share. *)
Signal(t) ==
  /\ At(t, "signal")
  /\ Continue(t, <<>>)
  /\ UNCHANGED <<own, ghost, tor>>

SetState(t) ==
  /\ At(t, "set")
  /\ SetChannel(Head(todo[t]).state)
  /\ Continue(t, <<>>)
  /\ UNCHANGED <<circ, built, attempts, dirInfo, pending, ghost, tor>>

(* create_circuit, up to the condition of its loop.  No command separates   *)
(* its test of _dir_info from what it does then, but no lock joins them.    *)
Create(t) ==
  /\ At(t, "create")
  /\ Continue(t, IF ~dirInfo THEN <<Do("postpone")>>
                 ELSE IF attempts <= CircRetryAtmps THEN <<Do("extend")>> ELSE <<>>)
  /\ UNCHANGED <<own, ghost, tor>>

Postpone(t) ==
  /\ At(t, "postpone")
  /\ circ' = WaitingDirInfo
  /\ misled' = (misled \/ dirInfo)
  /\ Continue(t, <<>>)
  /\ UNCHANGED <<cstate, built, attempts, dirInfo, pending, orders, tor>>

Extended(t) ==
  /\ At(t, "extend")
  /\ \E id \in CircId :
       /\ circuit[id] = "none" /\ (id > 1 => circuit[id - 1] # "none")
       /\ circuit' = [circuit EXCEPT ![id] = "building"]
       /\ Continue(t, <<About(id, "store")>>)
  /\ UNCHANGED <<own, ghost, stream, evt, dir, subscribed>>

(* Faulty: the number of attempts is not looked at again. *)
ExtendRefusedForever(t) ==
  /\ At(t, "extend")
  /\ circ' = NoCircuit /\ built' = FALSE
  /\ attempts' = attempts + 1
  /\ UNCHANGED <<cstate, dirInfo, pending, todo, ghost, tor>>

ExtendRefused(t) ==
  /\ At(t, "extend")
  /\ circ' = NoCircuit
  /\ built' = FALSE
  /\ attempts' = attempts + 1
  /\ Continue(t, IF attempts' <= CircRetryAtmps THEN <<Do("extend")>> ELSE <<>>)
  /\ UNCHANGED <<cstate, dirInfo, pending, ghost, tor>>

(* The event thread has taken what Tor said of a circuit nobody knew then. *)
Missed(id) ==
  /\ circuit[id] # "building"
  /\ \A i \in 1 .. Len(evt) : evt[i].type \in {"BUILT", "FAILED"} => evt[i].of # id

(* create_circuit returns TRUE, the last thing its caller does then: it does *)
(* not give up.                                                             *)
Stored(t) ==
  /\ At(t, "store")
  /\ circ' = Head(todo[t]).circ
  /\ misled' = (misled \/ Missed(circ'))
  /\ Begin(t, <<>>)
  /\ UNCHANGED <<cstate, attempts, dirInfo, pending, orders, tor>>

(* Faulty: the new circuit inherits the state of the old one. *)
StoreCircuitOnly(t) == Stored(t) /\ UNCHANGED built
StoreCircuit(t) == Stored(t) /\ built' = FALSE

-----------------------------------------------------------------------------
(* The proxy thread: the connection, and the CTRL frames of the bridge. *)
Drop == circ' = NoCircuit /\ built' = FALSE

(* handleSocksNewConnection, with a k_min given on the command line or not. *)
NewConnection ==
  /\ Idle("proxy") /\ cstate = "NOT_CONN"
  /\ cstate' = "UNDEF"
  /\ \/ Begin("proxy", <<Do("signal"), Set("HELLO")>>)
     \/ UNCHANGED todo
  /\ UNCHANGED <<circ, built, attempts, dirInfo, pending, ghost, tor>>

RecvHelloOk ==
  /\ Idle("proxy") /\ cstate = "HELLO"
  /\ cstate' = "CONNECTED"
  /\ Begin("proxy", IF ChActive THEN <<Do("signal")>> ELSE <<>>)
  /\ UNCHANGED <<circ, built, attempts, dirInfo, pending, ghost, tor>>

(* Faulty: a client that has been waiting keeps the circuit it has. *)
RecvActiveKeep ==
  /\ Idle("proxy") /\ cstate \in {"CONNECTED", "WAIT", "INACTIVE"}
  /\ cstate' = "ACTIVE"
  /\ Begin("proxy", IF cstate = "WAIT" THEN <<Do("signal")>> ELSE <<Do("signal"), Do("create")>>)
  /\ UNCHANGED <<circ, built, attempts, dirInfo, pending, ghost, tor>>

RecvActive ==
  /\ Idle("proxy") /\ cstate \in {"CONNECTED", "WAIT", "INACTIVE"}
  /\ cstate' = "ACTIVE"
  /\ Begin("proxy", <<Do("signal"), Do("create")>>)
  /\ UNCHANGED <<circ, built, attempts, dirInfo, pending, ghost, tor>>

RecvWait ==
  /\ Idle("proxy") /\ cstate \in {"CONNECTED", "ACTIVE", "INACTIVE"}
  /\ cstate' = "WAIT"
  /\ Drop
  /\ Begin("proxy", <<Do("signal")>>)
  /\ UNCHANGED <<attempts, dirInfo, pending, ghost, tor>>

RecvChange ==
  /\ Idle("proxy") /\ cstate = "ACTIVE"
  /\ cstate' = "CHANGING"
  /\ circ' = ChangeCircuit /\ built' = FALSE
  /\ Begin("proxy", <<Do("signal"), Set("ACTIVE"), Do("signal"), Do("create")>>)
  /\ UNCHANGED <<attempts, dirInfo, pending, ghost, tor>>

(* An order to stop: nothing is shut down unless there is a circuit. *)
Stop(s, from, steps) ==
  /\ Idle("proxy") /\ cstate \in Channel
  /\ cstate' = s
  /\ IF cstate \in from /\ circ > 0
     THEN Drop /\ Begin("proxy", <<Do("signal")>> \o steps)
     ELSE UNCHANGED <<circ, built>> /\ Begin("proxy", steps)
  /\ UNCHANGED <<attempts, dirInfo, pending, ghost, tor>>

RecvInactive == Stop("INACTIVE", {"ACTIVE", "WAIT"}, <<>>)
RecvShut == Stop("SHUT", Channel, <<>>)
RecvShutOk == Stop("SHUT", Channel, <<Do("signal")>>)

Terminated ==
  /\ Idle("proxy") /\ cstate \in Channel
  /\ cstate' = "GONE"
  /\ UNCHANGED <<circ, built, attempts, dirInfo, pending, todo, ghost, tor>>

-----------------------------------------------------------------------------
(* The event thread: handleTorCtlEventReceived. *)
Take(type) ==
  /\ Idle("event") /\ evt # <<>> /\ Head(evt).type = type
  /\ evt' = Tail(evt)
  /\ UNCHANGED <<cstate, ghost, circuit, stream, dir, subscribed>>

EvStreamWait ==
  /\ Take("STREAM_WAIT")
  /\ LET s == Head(evt).of
     IN IF built
        THEN UNCHANGED pending /\ Begin("event", <<Attach(s, circ, {})>>)
        ELSE pending' = pending \cup {s} /\ UNCHANGED todo
  /\ UNCHANGED <<circ, built, attempts, dirInfo>>

(* An event about _circ has a consequence, any other has none. *)
TakeCircuit(type, what, rest) ==
  /\ Take(type)
  /\ Begin("event", IF circ = Head(evt).of THEN <<About(circ, what)>> \o rest ELSE <<>>)
  /\ UNCHANGED <<circ, built, attempts, dirInfo, pending>>

EvBuilt == TakeCircuit("BUILT", "hear", <<>>)
EvFailed == TakeCircuit("FAILED", "drop", <<Do("create"), Do("inactive")>>)

(* A circuit that is closed is not replaced. *)
EvClosed == TakeCircuit("CLOSED", "drop", <<>>)

Stale == circ # Head(todo["event"]).circ

(* Faulty: only streams that come later are attached. *)
HearBuiltForgetful ==
  /\ At("event", "hear")
  /\ built' = TRUE /\ attempts' = 0
  /\ Continue("event", <<>>)
  /\ misled' = (misled \/ Stale)
  /\ UNCHANGED <<cstate, circ, dirInfo, pending, orders, tor>>

HearBuilt ==
  /\ At("event", "hear")
  /\ built' = TRUE /\ attempts' = 0
  /\ \/ pending = {} /\ Continue("event", <<>>)
     \/ \E s \in pending : Continue("event", <<Attach(s, circ, pending \ {s})>>)
  /\ misled' = (misled \/ Stale)
  /\ UNCHANGED <<cstate, circ, dirInfo, pending, orders, tor>>

DropCircuit ==
  /\ At("event", "drop")
  /\ Drop
  /\ Continue("event", <<>>)
  /\ misled' = (misled \/ Stale)
  /\ UNCHANGED <<cstate, attempts, dirInfo, pending, orders, tor>>

(* Every attempt has failed: the channel becomes INACTIVE. *)
GiveUp ==
  /\ At("event", "inactive")
  /\ SetChannel("INACTIVE")
  /\ Continue("event", <<>>)
  /\ UNCHANGED <<circ, built, attempts, dirInfo, pending, ghost, tor>>

EvStreamClosed ==
  /\ Take("STREAM_CLOSED")
  /\ pending' = pending \ {Head(evt).of}
  /\ UNCHANGED <<circ, built, attempts, dirInfo, todo>>

(* A stream detached for the reason TIMEOUT or END. *)
EvDetached ==
  /\ Take("STREAM_DETACHED")
  /\ pending' = pending \cup {Head(evt).of}
  /\ Begin("event", <<Do("close"), Do("create")>>)
  /\ UNCHANGED <<circ, built, attempts, dirInfo>>

(* A stream detached for any other reason, of which the client takes no note. *)
EvDetachedOther ==
  /\ Take("STREAM_DETACHED_OTHER")
  /\ UNCHANGED <<circ, built, attempts, dirInfo, pending, todo>>

(* Faulty: a circuit that has been put off stays put off. *)
EvDirInfoForgetful ==
  /\ Take("DIR_INFO")
  /\ dirInfo' = TRUE
  /\ UNCHANGED <<circ, built, attempts, pending, todo>>

EvDirInfo ==
  /\ Take("DIR_INFO")
  /\ dirInfo' = TRUE
  /\ Begin("event", IF circ = WaitingDirInfo THEN <<Do("create")>> ELSE <<>>)
  /\ UNCHANGED <<circ, built, attempts, pending>>

(* Tor attaches a stream that waits to a circuit that is built; whether it  *)
(* did is not looked at.  _circ may have changed since _circ_state was read. *)
AttachStream ==
  /\ At("event", "attach")
  /\ LET step == Head(todo["event"])
     IN /\ \E id \in {step.circ, circ} :
             stream' = IF /\ stream[step.stream] \in {"waiting", "detached"}
                          /\ id \in CircId /\ circuit[id] = "built"
                       THEN [stream EXCEPT ![step.stream] = "attached"] ELSE stream
        /\ \/ step.rest = {} /\ Continue("event", <<>>)
           \/ \E s \in step.rest : Continue("event", <<Attach(s, circ, step.rest \ {s})>>)
  /\ UNCHANGED <<own, ghost, circuit, evt, dir, subscribed>>

(* Tor tells the client, if it has subscribed to that kind of event. *)
Tell(type, of) ==
  IF KindOf(type) \in subscribed
  THEN evt' = Append(evt, [type |-> type, of |-> of]) /\ misled' = misled
  ELSE evt' = evt /\ misled' = TRUE

CloseCircuit ==
  /\ At("event", "close")
  /\ IF circ \in CircId /\ circuit[circ] \in {"building", "built"}
     THEN circuit' = [circuit EXCEPT ![circ] = "closed"] /\ Tell("CLOSED", circ)
     ELSE UNCHANGED <<circuit, evt, misled>>
  /\ Continue("event", <<>>)
  /\ UNCHANGED <<own, orders, stream, dir, subscribed>>

-----------------------------------------------------------------------------
(* The CLI thread: handleCliRequest. *)
Order ==
  /\ Idle("cli") /\ orders < MaxCli
  /\ orders' = orders + 1
  /\ UNCHANGED <<circ, built, attempts, dirInfo, pending, misled, circuit, stream, evt, dir>>

(* nym, whose signal cmdSendSignal takes for invalid and does not send; c. *)
CliCreate ==
  /\ Order
  /\ Begin("cli", <<Do("create")>>)
  /\ UNCHANGED <<cstate, subscribed>>

CliSetK ==
  /\ Order
  /\ Begin("cli", <<Do("signal"), Set("HELLO")>>)
  /\ UNCHANGED <<cstate, subscribed>>

CliShut ==
  /\ Order
  /\ SetChannel("SHUT")
  /\ UNCHANGED <<todo, subscribed>>

(* sec and ses: what SETEVENTS does not name is no longer reported. *)
CliSetEvents ==
  /\ Order
  /\ subscribed' \in {{"CIRC"}, {"STREAM"}}
  /\ UNCHANGED <<cstate, todo>>

-----------------------------------------------------------------------------
(* Tor.  It holds streams back until they are attached by a command. *)
Report(type, of) ==
  /\ Len(evt) < MaxEvents
  /\ Tell(type, of)
  /\ UNCHANGED <<own, todo, orders, subscribed>>

CircuitBuilt(id) ==
  /\ circuit[id] = "building"
  /\ circuit' = [circuit EXCEPT ![id] = "built"]
  /\ Report("BUILT", id)
  /\ UNCHANGED <<stream, dir>>

CircuitFails(id) ==
  /\ circuit[id] = "building"
  /\ circuit' = [circuit EXCEPT ![id] = "failed"]
  /\ Report("FAILED", id)
  /\ UNCHANGED <<stream, dir>>

CircuitCloses(id) ==
  /\ circuit[id] = "built"
  /\ circuit' = [circuit EXCEPT ![id] = "closed"]
  /\ Report("CLOSED", id)
  /\ UNCHANGED <<stream, dir>>

StreamWaits(s) ==
  /\ stream[s] = "none"
  /\ stream' = [stream EXCEPT ![s] = "waiting"]
  /\ Report("STREAM_WAIT", s)
  /\ UNCHANGED <<circuit, dir>>

StreamDetached(s) ==
  /\ stream[s] = "attached"
  /\ stream' = [stream EXCEPT ![s] = "waiting"]
  /\ Report("STREAM_DETACHED", s)
  /\ UNCHANGED <<circuit, dir>>

(* For any other reason: the stream waits again, but the client is not to know. *)
StreamDetachedOther(s) ==
  /\ stream[s] = "attached"
  /\ stream' = [stream EXCEPT ![s] = "detached"]
  /\ Report("STREAM_DETACHED_OTHER", s)
  /\ UNCHANGED <<circuit, dir>>

StreamCloses(s) ==
  /\ stream[s] \in {"waiting", "attached", "detached"}
  /\ stream' = [stream EXCEPT ![s] = "closed"]
  /\ Report("STREAM_CLOSED", s)
  /\ UNCHANGED <<circuit, dir>>

EnoughDirInfo ==
  /\ ~dir
  /\ dir' = TRUE
  /\ Report("DIR_INFO", 0)
  /\ UNCHANGED <<circuit, stream>>

-----------------------------------------------------------------------------
Init ==
  /\ cstate = "NOT_CONN"
  /\ circ = NoCircuit /\ built = FALSE /\ attempts = 0
  /\ dirInfo = FALSE
  /\ pending = {}
  /\ todo = [t \in Thread |-> <<>>]
  /\ orders = 0 /\ misled = FALSE
  /\ circuit = [id \in CircId |-> "none"]
  /\ stream = [s \in Stream |-> "none"]
  /\ evt = <<>>
  /\ dir = FALSE
  /\ subscribed = Kind

Shared(t) ==
  Signal(t) \/ SetState(t) \/ Create(t) \/ Postpone(t) \/ Extended(t) \/ ExtendRefused(t)
    \/ StoreCircuit(t)

Proxy ==
  \/ NewConnection \/ Terminated
  \/ RecvHelloOk \/ RecvActive \/ RecvWait \/ RecvChange
  \/ RecvInactive \/ RecvShut \/ RecvShutOk

Events ==
  \/ EvStreamWait \/ EvBuilt \/ EvFailed \/ EvClosed
  \/ EvStreamClosed \/ EvDetached \/ EvDetachedOther \/ EvDirInfo
  \/ HearBuilt \/ DropCircuit \/ GiveUp \/ AttachStream \/ CloseCircuit

Cli == CliCreate \/ CliSetK \/ CliShut \/ CliSetEvents

TorReports ==
  \/ \E id \in CircId : CircuitBuilt(id) \/ CircuitFails(id) \/ CircuitCloses(id)
  \/ \E s \in Stream :
       StreamWaits(s) \/ StreamDetached(s) \/ StreamDetachedOther(s) \/ StreamCloses(s)
  \/ EnoughDirInfo

Next == (\E t \in Thread : Shared(t)) \/ Proxy \/ Events \/ Cli \/ TorReports

Spec == Init /\ [][Next]_clientVars

-----------------------------------------------------------------------------
(* Every variable stays in its range; each thread may be in create_circuit's *)
(* loop when the last attempt fails, and then makes one more.               *)
TypeOK ==
  /\ cstate \in CState
  /\ circ \in Circ
  /\ built \in BOOLEAN /\ dirInfo \in BOOLEAN /\ dir \in BOOLEAN
  /\ attempts \in 0 .. CircRetryAtmps + Cardinality(Thread)
  /\ pending \subseteq Stream
  /\ todo \in [Thread -> Seq(Step)]
  /\ orders \in 0 .. MaxCli /\ misled \in BOOLEAN
  /\ circuit \in [CircId -> {"none", "building", "built", "failed", "closed"}]
  /\ stream \in [Stream -> {"none", "waiting", "attached", "detached", "closed"}]
  /\ evt \in Seq(Event) /\ subscribed \subseteq Kind

(* No handler has anything left to do and no event waits. *)
Quiet == evt = <<>> /\ \A t \in Thread : Idle(t)

(* Unless the client was misled, a circuit it takes for built is there, or   *)
(* the event that says otherwise is on its way.                             *)
BuiltIsBuilt ==
  built /\ ~misled =>
    /\ circ \in CircId
    /\ \/ circuit[circ] = "built"
       \/ \E i \in 1 .. Len(evt) : evt[i].type = "CLOSED" /\ evt[i].of = circ
       \/ At("event", "drop")

(* Unless the client was misled, once everything is handled a circuit that   *)
(* is there is known to be, and of the streams the client keeps for a        *)
(* circuit none waits but those that Tor has detached for a reason the       *)
(* client does not heed: these stay "detached" until the next circuit.       *)
PendingAreAttached ==
  Quiet /\ ~misled /\ circ \in CircId /\ circuit[circ] = "built" =>
    built /\ \A s \in pending : stream[s] # "waiting"

(* A circuit that is put off until Tor has enough directory information is  *)
(* not put off once it has: "Received ACTIVE and postpone circuit open      *)
(* after DIR INFO" - unless the client was misled, as it may be by the very *)
(* event: _dir_info is tested, the event finds nothing put off, and only    *)
(* then the circuit is.                                                     *)
PostponedIsOpened == Quiet /\ dirInfo /\ ~misled => circ # WaitingDirInfo

(* Once everything is handled an active channel has a live circuit, or none  *)
(* and waits for Tor to be ready, or has used up its attempts, or lost its   *)
(* circuit, which it never replaces: unless the client was misled.           *)
ActiveHasCircuit ==
  Quiet /\ ~misled /\ cstate = "ACTIVE" =>
    \/ circ \in CircId /\ circuit[circ] \in {"building", "built"}
    \/ circ = WaitingDirInfo /\ ~dirInfo
    \/ attempts > CircRetryAtmps
    \/ \E id \in CircId : circuit[id] = "closed"
=============================================================================
