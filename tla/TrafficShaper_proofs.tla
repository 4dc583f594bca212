------------------------ MODULE TrafficShaper_proofs ------------------------
(***************************************************************************)
(* Safety of the traffic shaping thread, for any number of clients and any *)
(* behaviour of the environment.  That the clients are served and that     *)
(* terminate returns are liveness properties, which TLC checks.            *)
(***************************************************************************)
EXTENDS TrafficShaper, TLAPS

LEMMA ShaperTypeInit == Init => TypeOK
BY ShaperAssumption DEF Init, TypeOK, TsState, ProxyStep, MainStep, ShaperStep

LEMMA ShaperTypeStep ==
  ASSUME TypeOK, [Next]_shaperVars
  PROVE  TypeOK'
<1> USE ShaperAssumption DEF TypeOK, TsState, ProxyStep, MainStep, ShaperStep
<1>1. CASE UNCHANGED shaperVars
  BY <1>1 DEF shaperVars
<1>2. CASE Proxy
  BY <1>2 DEF Proxy, Arrive, Depart, On, OnNotify, Idle, NotifyOne
<1>3. CASE Main
  BY <1>3 DEF Main, Initialize, Terminate, TerminateNotify, TerminateTest, NotifyOne
<1>4. CASE Shaper
  BY <1>4 DEF Shaper, ShaperTop, ShaperWoken, ShaperEvent, ShaperLeave, WakeMain
<1>5. CASE SpuriousWakeup \/ Gone
  BY <1>5 DEF SpuriousWakeup, Gone, shaperVars
<1>6. QED
  BY <1>1, <1>2, <1>3, <1>4, <1>5 DEF Next

(* Every variable keeps its type. *)
THEOREM ShaperTypeCorrect == Spec => []TypeOK
<1>1. QED
  BY ShaperTypeInit, ShaperTypeStep, PTL DEF Spec

-----------------------------------------------------------------------------
(* The state of a bridge with an empty table: until the process ends it is  *)
(* IDLE, or about to be.  The second part says when on() is due.            *)
EmptyIsIdle ==
  /\ main = "stdin" /\ clients = 0 => proxy = "idle" \/ state = "IDLE"
  /\ proxy = "on" => clients > 0
  /\ proxy = "idle" => clients = 0

LEMMA EmptyInit == Init => EmptyIsIdle
BY DEF Init, EmptyIsIdle

LEMMA EmptyStep ==
  ASSUME InitState = "IDLE", TypeOK, EmptyIsIdle, [Next]_shaperVars
  PROVE  EmptyIsIdle'
<1> USE DEF TypeOK, EmptyIsIdle
<1>1. CASE UNCHANGED shaperVars
  BY <1>1 DEF shaperVars
<1>2. CASE Proxy
  BY <1>2 DEF Proxy, MayConnect, Arrive, Depart, On, OnNotify, Idle, NotifyOne
<1>3. CASE Main
  BY <1>3 DEF Main, Initialize, Terminate, TerminateNotify, TerminateTest, NotifyOne
<1>4. CASE Shaper
  BY <1>4 DEF Shaper, ShaperTop, ShaperWoken, ShaperEvent, ShaperLeave, WakeMain
<1>5. CASE SpuriousWakeup \/ Gone
  BY <1>5 DEF SpuriousWakeup, Gone, shaperVars
<1>6. QED
  BY <1>1, <1>2, <1>3, <1>4, <1>5 DEF Next

(* A step into an event is one of the thread's own two, and neither is      *)
(* taken from IDLE.                                                         *)
LEMMA EventStep ==
  ASSUME TypeOK, EmptyIsIdle, [Next]_shaperVars
  PROVE  [shaper' = "event" /\ shaper # "event" =>
            clients > 0 \/ proxy = "idle" \/ main # "stdin"]_shaperVars
<1> SUFFICES ASSUME Next, shaper' = "event", shaper # "event"
             PROVE  clients > 0 \/ proxy = "idle" \/ main # "stdin"
  BY DEF shaperVars
<1>1. ShaperTop \/ ShaperWoken
  BY DEF Next, Proxy, Main, Shaper, SpuriousWakeup, Gone, shaperVars, Arrive, Depart,
     On, OnNotify, Idle, Initialize, Terminate, TerminateNotify, TerminateTest,
     ShaperEvent, ShaperLeave, NotifyOne
<1>2. state # "IDLE"
  BY <1>1 DEF ShaperTop, ShaperWoken
<1>3. QED
  BY <1>2 DEF EmptyIsIdle, TypeOK

(* A bridge, which starts IDLE, enters a traffic shaping event only for a   *)
(* client, while idle() is due, or on its way out.                          *)
THEOREM EventsCorrect ==
  ASSUME InitState = "IDLE" PROVE Spec => EventsNeedClients
<1>1. QED
  BY ShaperTypeInit, ShaperTypeStep, EmptyInit, EmptyStep, EventStep, PTL
  DEF Spec, EventsNeedClients
=============================================================================
