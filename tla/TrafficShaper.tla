---------------------------- MODULE TrafficShaper ----------------------------
(***************************************************************************)
(* The traffic shaping thread of a bridge, with the threads that switch it *)
(* on, idle and off: the proxy thread, as connections come and go, and the *)
(* main thread, which starts both and ends the process.                    *)
(*                                                                         *)
(* One action is one critical section on TrafficShaper::_mtx, or one       *)
(* notification of TrafficShaper::_cv: both happen between the sections.   *)
(* The client is the instance that starts ON, with no switches (MaxClients *)
(* = 0): a client never calls on() or idle().                              *)
(***************************************************************************)
EXTENDS Naturals

CONSTANTS
  InitState,     (* init_state of initialize: "IDLE" or "ON"                 *)
  MaxClients,    (* bound: clients registered at the same time               *)
  EarlyClients,  (* may a client arrive before initialize?                   *)
  StdinCloses,   (* does Tor close stdin?                                    *)
  LateClients    (* may clients come and go then, and after it?              *)

ASSUME ShaperAssumption ==
  /\ InitState \in {"IDLE", "ON"}
  /\ MaxClients \in Nat
  /\ EarlyClients \in BOOLEAN
  /\ StdinCloses \in BOOLEAN
  /\ LateClients \in BOOLEAN

VARIABLES
  state,    (* TrafficShaper::_state                                         *)
  clients,  (* ClientManager::size(), as the proxy thread sees it            *)
  proxy,    (* the proxy thread, see ProxyStep                               *)
  main,     (* the main thread, see MainStep                                 *)
  shaper    (* the traffic shaping thread, see ShaperStep                    *)

shaperVars == <<state, clients, proxy, main, shaper>>

TsState == {"ON", "IDLE", "SHUTTING", "OFF"}

(* "on", "idle": the table has been changed and on() or idle() is next;     *)
(* "notify": before on()'s notify_one; "run": anywhere else.                *)
ProxyStep == {"run", "on", "notify", "idle"}

(* "starting": before initialize; "stdin": waitUntilStdinClose; "notify",   *)
(* "test" and "waiting": in terminate, before notify_one, before the test   *)
(* of _state, and in _cv.wait; "gone": terminate has returned, and with it  *)
(* the process.                                                             *)
MainStep == {"starting", "stdin", "notify", "test", "waiting", "gone"}

(* "none": before initialize; "top": at the head of the loop; "waiting": in *)
(* _cv.wait; "woken": behind it; "event": in handleTrafficShapingEvent and  *)
(* the sleep; "leaving": before notify_all; "ended".                        *)
ShaperStep == {"none", "top", "waiting", "woken", "event", "leaving", "ended"}

-----------------------------------------------------------------------------
(* A thread woken from _cv.wait tests its condition again. *)
WakeMain == IF main = "waiting" THEN "test" ELSE main

(* notify_one: one of the waiting threads goes on, if there is one.  The    *)
(* caller gives the values the two threads have otherwise.                  *)
NotifyOne(m) ==
  \/ shaper = "waiting" /\ shaper' = "woken" /\ main' = m
  \/ main = "waiting" /\ main' = "test" /\ UNCHANGED shaper
  \/ "waiting" \notin {shaper, main} /\ main' = m /\ UNCHANGED shaper

Running == main # "gone"

(* When the proxy thread may add or remove a client. *)
MayConnect ==
  /\ Running
  /\ proxy = "run"
  /\ main = "starting" => EarlyClients
  /\ main \in {"starting", "stdin"} \/ LateClients

(* handleSocksNewConnection: add_client, and on() for the first client. *)
Arrive ==
  /\ MayConnect
  /\ clients < MaxClients
  /\ clients' = clients + 1
  /\ proxy' = IF clients' = 1 THEN "on" ELSE "run"
  /\ UNCHANGED <<state, main, shaper>>

(* Faulty: a connection that never became a client departs like one. *)
DepartUnregistered ==
  /\ MayConnect
  /\ clients' = clients - 1
  /\ proxy' = IF clients' = 0 THEN "idle" ELSE "run"
  /\ UNCHANGED <<state, main, shaper>>

(* handleSocksConnectionTerminated: remove_client, and idle() after the last. *)
Depart ==
  /\ MayConnect
  /\ clients > 0
  /\ clients' = clients - 1
  /\ proxy' = IF clients' = 0 THEN "idle" ELSE "run"
  /\ UNCHANGED <<state, main, shaper>>

(* Faulty: on() without its notification. *)
OnWithoutNotify ==
  /\ Running
  /\ proxy = "on"
  /\ proxy' = "run"
  /\ state' = "ON"
  /\ UNCHANGED <<clients, main, shaper>>

On ==
  /\ Running
  /\ proxy = "on"
  /\ proxy' = "notify"
  /\ state' = "ON"
  /\ UNCHANGED <<clients, main, shaper>>

(* Faulty: the last departure leaves the thread running. *)
IdleForgotten ==
  /\ Running
  /\ proxy = "idle"
  /\ proxy' = "run"
  /\ UNCHANGED <<state, clients, main, shaper>>

Idle ==
  /\ Running
  /\ proxy = "idle"
  /\ proxy' = "run"
  /\ state' = "IDLE"
  /\ UNCHANGED <<clients, main, shaper>>

OnNotify ==
  /\ Running
  /\ proxy = "notify"
  /\ proxy' = "run"
  /\ NotifyOne(main)
  /\ UNCHANGED <<state, clients>>

-----------------------------------------------------------------------------
(* TrafficShaper::initialize, after the proxy thread has been started. *)
Initialize ==
  /\ main = "starting"
  /\ main' = "stdin"
  /\ state' = InitState
  /\ shaper' = "top"
  /\ UNCHANGED <<clients, proxy>>

(* terminate, up to its first unlock. *)
Terminate ==
  /\ StdinCloses
  /\ main = "stdin"
  /\ proxy \in {"run", "notify"} \/ LateClients
  /\ main' = "notify"
  /\ state' = "SHUTTING"
  /\ UNCHANGED <<clients, proxy, shaper>>

TerminateNotify ==
  /\ main = "notify"
  /\ NotifyOne("test")
  /\ UNCHANGED <<state, clients, proxy>>

(* terminate's loop; the process ends when it is left. *)
TerminateTest ==
  /\ main = "test"
  /\ main' = IF state = "OFF" THEN "gone" ELSE "waiting"
  /\ UNCHANGED <<state, clients, proxy, shaper>>

-----------------------------------------------------------------------------
(* The head of main_thread's loop. *)
ShaperTop ==
  /\ Running
  /\ shaper = "top"
  /\ \/ state = "SHUTTING" /\ state' = "OFF" /\ shaper' = "leaving"
     \/ state = "IDLE" /\ shaper' = "waiting" /\ UNCHANGED state
     \/ state \in {"ON", "OFF"} /\ shaper' = "event" /\ UNCHANGED state
  /\ UNCHANGED <<clients, proxy, main>>

(* Behind _cv.wait only IDLE is looked at again: whatever else the state    *)
(* has become, one event follows.                                           *)
ShaperWoken ==
  /\ Running
  /\ shaper = "woken"
  /\ shaper' = IF state = "IDLE" THEN "waiting" ELSE "event"
  /\ UNCHANGED <<state, clients, proxy, main>>

ShaperEvent ==
  /\ Running
  /\ shaper = "event"
  /\ shaper' = "top"
  /\ UNCHANGED <<state, clients, proxy, main>>

(* Faulty: the thread ends without notify_all. *)
ShaperLeaveSilently ==
  /\ Running
  /\ shaper = "leaving"
  /\ shaper' = "ended"
  /\ UNCHANGED <<state, clients, proxy, main>>

ShaperLeave ==
  /\ Running
  /\ shaper = "leaving"
  /\ shaper' = "ended"
  /\ main' = WakeMain
  /\ UNCHANGED <<state, clients, proxy>>

(* A condition variable may wake a thread for no reason. *)
SpuriousWakeup ==
  /\ Running
  /\ \/ shaper = "waiting" /\ shaper' = "woken" /\ UNCHANGED main
     \/ main = "waiting" /\ main' = "test" /\ UNCHANGED shaper
  /\ UNCHANGED <<state, clients, proxy>>

-----------------------------------------------------------------------------
(* _state is not initialised before initialize; nobody reads it till then. *)
Init ==
  /\ state \in TsState
  /\ clients = 0
  /\ proxy = "run"
  /\ main = "starting"
  /\ shaper = "none"

Proxy == Arrive \/ Depart \/ On \/ OnNotify \/ Idle
Main == Initialize \/ Terminate \/ TerminateNotify \/ TerminateTest
Shaper == ShaperTop \/ ShaperWoken \/ ShaperEvent \/ ShaperLeave

(* The process has ended. *)
Gone == ~Running /\ UNCHANGED shaperVars

Next == Proxy \/ Main \/ Shaper \/ SpuriousWakeup \/ Gone

(***************************************************************************)
(* Threads that can run go on; nothing makes clients come or go, Tor close *)
(* stdin, or a condition variable wake a thread without a notification.    *)
(***************************************************************************)
Fairness ==
  /\ WF_shaperVars(On \/ OnNotify \/ Idle)
  /\ WF_shaperVars(Initialize)
  /\ WF_shaperVars(TerminateNotify)
  /\ WF_shaperVars(TerminateTest)
  /\ WF_shaperVars(Shaper)

Spec == Init /\ [][Next]_shaperVars /\ Fairness

-----------------------------------------------------------------------------
(* Every variable has its type. *)
TypeOK ==
  /\ state \in TsState
  /\ clients \in 0 .. MaxClients
  /\ proxy \in ProxyStep
  /\ main \in MainStep
  /\ shaper \in ShaperStep

(* Clients are served: while one is registered and the bridge is not ending *)
(* traffic shaping events keep coming, however the clients before it came   *)
(* and went, and although on() notifies only after it has unlocked.         *)
Serving == main = "stdin" /\ clients > 0
ClientsAreServed == Serving ~> (shaper = "event" \/ ~Serving)

(* terminate returns: whichever of its tests, waits and notifications the   *)
(* thread's end falls between.                                              *)
TerminateReturns == main = "notify" ~> main = "gone"

(* No events over an empty client table: the thread enters one only for a   *)
(* client, while idle() is due, or on the way out.                          *)
EventsNeedClients ==
  [][shaper' = "event" /\ shaper # "event" =>
       clients > 0 \/ proxy = "idle" \/ main # "stdin"]_shaperVars
=============================================================================
