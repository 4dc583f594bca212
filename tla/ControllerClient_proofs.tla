----------------------- MODULE ControllerClient_proofs -----------------------
(***************************************************************************)
(* The invariants of ControllerClient hold however many circuits, streams, *)
(* events and commands there are and however often a circuit is retried,   *)
(* in every interleaving of the three threads and of Tor.  Each is part of *)
(* an inductive invariant that says what a handler's next step and the     *)
(* events that wait say of Tor's circuits.                                 *)
(***************************************************************************)
EXTENDS ControllerClient, FiniteSetTheorems, TLAPS

USE DEF CircuitEvent, StreamEvent

(* Steps that follow others in a handler, and those of an attempt to open   *)
(* a circuit.                                                               *)
Later == {"signal", "set", "create", "inactive"}
Opening == {"create", "postpone", "extend", "store"}

Opens(q) == \E i \in 1 .. Len(q) : q[i].do \in Opening

(* A handler that makes the channel ACTIVE opens a circuit afterwards.      *)
Ordered(q) ==
  /\ \A i \in 2 .. Len(q) : q[i].do \in Later
  /\ \A i \in 1 .. Len(q) :
       q[i].do = "set" /\ q[i].state = "ACTIVE" => i < Len(q) /\ q[Len(q)].do = "create"

(* An event is among those in q; one that says a circuit is built is true,  *)
(* or another that says it is closed comes after it; the others are true.   *)
Says(q, type, of) == \E i \in 1 .. Len(q) : q[i].type = type /\ q[i].of = of

Truthful(q, c, s) ==
  \A i \in 1 .. Len(q) :
    /\ q[i].type = "BUILT" =>
         \/ c[q[i].of] = "built"
         \/ /\ c[q[i].of] = "closed"
            /\ \E j \in i + 1 .. Len(q) : q[j].type = "CLOSED" /\ q[j].of = q[i].of
    /\ q[i].type = "FAILED" => c[q[i].of] = "failed"
    /\ q[i].type = "CLOSED" => c[q[i].of] = "closed"
    /\ q[i].type \in StreamEvent => s[q[i].of] # "none"

(* How many threads are in create_circuit's loop.                           *)
InExtend(t) == IF At(t, "extend") THEN 1 ELSE 0
Loops == InExtend("proxy") + InExtend("event") + InExtend("cli")

(* The ranges of the variables, and why attempts stays in its own: what is  *)
(* left of a handler, and what the events say.                              *)
StepsInv ==
  /\ TypeOK
  /\ \A t \in Thread : Ordered(todo[t])
  /\ attempts + Loops <= CircRetryAtmps + Cardinality(Thread)
  /\ ~misled =>
       Truthful(evt, circuit, stream) /\ \A s \in pending : stream[s] # "none"

(* Before the directory information is there, no circuit has been opened.   *)
DirInv ==
  ~dirInfo =>
    /\ ~built /\ attempts = 0
    /\ \A id \in CircId : circuit[id] = "none"
    /\ \A t \in Thread : ~At(t, "extend") /\ ~At(t, "store")

(* What the event thread is about to do with a circuit is called for.       *)
HearInv ==
  /\ At("event", "hear") =>
       LET id == Head(todo["event"]).circ
       IN circuit[id] = "built" \/ (circuit[id] = "closed" /\ Says(evt, "CLOSED", id))
  /\ At("event", "drop") =>
       LET id == Head(todo["event"]).circ
       IN circuit[id] = "closed" \/ (circuit[id] = "failed" /\ Opens(todo["event"]))

(* The state of the circuit the client has: that it is built, that it is    *)
(* but the client has still to be told, that it has been put off.           *)
BuiltInv ==
  built =>
    /\ circ \in CircId
    /\ \/ circuit[circ] = "built"
       \/ Says(evt, "CLOSED", circ)
       \/ At("event", "drop") /\ Head(todo["event"]).circ = circ
    /\ At("event", "attach") => Head(todo["event"]).circ = circ

HeardInv ==
  ~built /\ circ \in CircId /\ circuit[circ] = "built" =>
    \/ Says(evt, "BUILT", circ)
    \/ At("event", "hear") /\ Head(todo["event"]).circ = circ

PostponedInv ==
  dirInfo /\ circ = WaitingDirInfo =>
    /\ attempts = 0
    /\ At("event", "create") \/ At("event", "extend") \/ At("event", "store")

(* A stream that is kept for the circuit and still waits is about to be     *)
(* attached, or the circuit about to be closed, unless Tor's event of the   *)
(* stream's detachment has yet to be taken.                                 *)
ToAttach(step) == {step.stream} \cup step.rest

PendingInv ==
  built /\ circuit[circ] = "built" =>
    \A s \in pending :
      stream[s] = "waiting" =>
        \/ Says(evt, "STREAM_DETACHED", s)
        \/ At("event", "close")
        \/ At("event", "attach") /\ s \in ToAttach(Head(todo["event"]))

(* An active channel has a circuit, opens one, will hear that it has lost   *)
(* it, or has none for one of the reasons ActiveHasCircuit allows.          *)
Excused ==
  \/ circ \in CircId /\ circuit[circ] \in {"building", "built"}
  \/ circ = WaitingDirInfo /\ ~dirInfo
  \/ attempts > CircRetryAtmps
  \/ \E id \in CircId : circuit[id] = "closed"

ActiveInv ==
  cstate = "ACTIVE" =>
    \/ Excused
    \/ circ \in CircId /\ Says(evt, "FAILED", circ)
    \/ \E t \in Thread : Opens(todo[t])

(* What the client knows, unless it has been misled.                        *)
KnowInv ==
  DirInv /\ HearInv /\ BuiltInv /\ HeardInv /\ PostponedInv /\ PendingInv /\ ActiveInv

ClientInv == StepsInv /\ (~misled => KnowInv)

-----------------------------------------------------------------------------
(* Steps and handlers.                                                      *)
LEMMA Steps ==
  /\ \A what \in {"signal", "create", "postpone", "extend", "inactive", "close"} :
       Do(what) \in Step /\ Do(what).do = what
  /\ \A what \in {"store", "hear", "drop"}, id \in CircId :
       /\ About(id, what) \in Step
       /\ About(id, what).do = what /\ About(id, what).circ = id
  /\ \A s \in Stream, c \in Circ, rest \in SUBSET Stream :
       /\ Attach(s, c, rest) \in Step
       /\ Attach(s, c, rest).do = "attach" /\ Attach(s, c, rest).circ = c
       /\ ToAttach(Attach(s, c, rest)) = {s} \cup rest
  /\ \A s \in Channel : Set(s) \in Step /\ Set(s).do = "set" /\ Set(s).state = s
BY DEF Step, Do, About, Attach, Set, ToAttach

LEMMA StepFields ==
  ASSUME NEW x \in Step
  PROVE  /\ x.do \in {"store", "hear", "drop"} => x.circ \in CircId
         /\ x.do = "attach" => x.stream \in Stream /\ x.circ \in Circ /\ x.rest \subseteq Stream
         /\ x.do = "set" => x.state \in Channel
BY DEF Step

LEMMA TailOf ==
  ASSUME NEW S, NEW q \in Seq(S), q # <<>>
  PROVE  /\ <<>> \o Tail(q) = Tail(q)
         /\ Tail(q) \in Seq(S)
         /\ Len(q) \in Nat /\ Len(q) > 0 /\ Len(Tail(q)) = Len(q) - 1
         /\ Head(q) = q[1] /\ q[1] \in S
         /\ \A i \in 1 .. Len(Tail(q)) : i + 1 \in 2 .. Len(q) /\ Tail(q)[i] = q[i + 1]
         /\ Tail(q) # <<>> => 1 \in 1 .. Len(Tail(q)) /\ Head(Tail(q)) = q[2]
OBVIOUS

(* A handler whose head is done.                                            *)
LEMMA Done ==
  ASSUME NEW q \in Seq(Step), q # <<>>, Ordered(q), NEW r, r = <<>> \o Tail(q)
  PROVE  /\ r \in Seq(Step) /\ Ordered(r)
         /\ r # <<>> => Head(r).do \in Later
         /\ Opens(q) /\ Head(q).do \notin Opening => Opens(r)
         /\ Head(q).do = "set" /\ Head(q).state = "ACTIVE" => Opens(r)
<1>1. /\ r \in Seq(Step)
      /\ Len(q) \in Nat /\ Len(q) > 0 /\ Len(r) = Len(q) - 1
      /\ Head(q) = q[1]
      /\ \A i \in 1 .. Len(r) : i + 1 \in 2 .. Len(q) /\ r[i] = q[i + 1]
      /\ r # <<>> => 1 \in 1 .. Len(r) /\ Head(r) = q[2]
  BY TailOf
<1>2. \A i \in 2 .. Len(q) : i - 1 \in 1 .. Len(r) /\ r[i - 1] = q[i]
  <2> TAKE i \in 2 .. Len(q)
  <2>1. i - 1 \in 1 .. Len(r)
    BY <1>1
  <2>2. r[i - 1] = q[(i - 1) + 1]
    BY <1>1, <2>1
  <2>3. QED
    BY <2>1, <2>2
<1>3. Ordered(r)
  <2>1. \A i \in 2 .. Len(r) : r[i].do \in Later
    BY <1>1 DEF Ordered
  <2>2. ASSUME NEW i \in 1 .. Len(r), r[i].do = "set" /\ r[i].state = "ACTIVE"
        PROVE  i < Len(r) /\ r[Len(r)].do = "create"
    <3>1. i + 1 \in 1 .. Len(q) /\ r[i] = q[i + 1]
      BY <1>1
    <3>2. i + 1 < Len(q) /\ q[Len(q)].do = "create"
      BY <2>2, <3>1 DEF Ordered
    <3>3. i < Len(r) /\ Len(r) \in 1 .. Len(r) /\ Len(r) + 1 = Len(q)
      BY <1>1, <3>2
    <3>4. QED
      BY <1>1, <3>2, <3>3
  <2>3. QED
    BY <2>1, <2>2 DEF Ordered
<1>4. r # <<>> => Head(r).do \in Later
  BY <1>1 DEF Ordered
<1>5. Opens(q) /\ Head(q).do \notin Opening => Opens(r)
  <2>1. SUFFICES ASSUME Head(q).do \notin Opening, NEW i \in 1 .. Len(q), q[i].do \in Opening
                 PROVE  Opens(r)
    BY DEF Opens
  <2>2. i \in 2 .. Len(q)
    BY <1>1, <2>1
  <2>3. QED
    BY <1>2, <2>1, <2>2 DEF Opens
<1>6. Head(q).do = "set" /\ Head(q).state = "ACTIVE" => Opens(r)
  <2>1. SUFFICES ASSUME Head(q).do = "set", Head(q).state = "ACTIVE"
                 PROVE  Opens(r)
    OBVIOUS
  <2>2. 1 < Len(q) /\ q[Len(q)].do = "create"
    BY <1>1, <2>1 DEF Ordered
  <2>3. Len(q) \in 2 .. Len(q)
    BY <1>1, <2>2
  <2>4. QED
    BY <1>2, <2>2, <2>3 DEF Opens, Opening
<1>7. QED
  BY <1>1, <1>3, <1>4, <1>5, <1>6

(* A handler whose head has made way for another step.                      *)
LEMMA Replaced ==
  ASSUME NEW q \in Seq(Step), q # <<>>, Ordered(q), NEW x \in Step, x.do # "set",
         NEW r, r = <<x>> \o Tail(q)
  PROVE  /\ r \in Seq(Step) /\ Ordered(r)
         /\ r # <<>> /\ Head(r) = x
         /\ Opens(q) /\ Head(q).do \notin Opening => Opens(r)
         /\ x.do \in Opening => Opens(r)
<1>1. /\ Tail(q) \in Seq(Step)
      /\ Len(q) \in Nat /\ Len(q) > 0 /\ Len(Tail(q)) = Len(q) - 1
      /\ Head(q) = q[1]
      /\ \A i \in 1 .. Len(Tail(q)) : Tail(q)[i] = q[i + 1]
  BY TailOf
<1>2. /\ r \in Seq(Step) /\ Len(r) = Len(q)
      /\ r # <<>> /\ Head(r) = x /\ r[1] = x
  BY <1>1
<1>3. ASSUME NEW i \in 2 .. Len(q)
      PROVE  r[i] = q[i]
  <2>1. r[i] = Tail(q)[i - 1]
    BY <1>1
  <2>2. i - 1 \in 1 .. Len(Tail(q)) /\ (i - 1) + 1 = i
    BY <1>1
  <2>3. QED
    BY <1>1, <2>1, <2>2
<1>4. Ordered(r)
  <2>1. \A i \in 2 .. Len(r) : r[i].do \in Later
    BY <1>2, <1>3 DEF Ordered
  <2>2. ASSUME NEW i \in 1 .. Len(r), r[i].do = "set" /\ r[i].state = "ACTIVE"
        PROVE  i < Len(r) /\ r[Len(r)].do = "create"
    <3>1. i \in 2 .. Len(q)
      BY <1>1, <1>2, <2>2
    <3>2. i < Len(q) /\ q[Len(q)].do = "create"
      BY <1>3, <2>2, <3>1 DEF Ordered
    <3>3. Len(q) \in 2 .. Len(q)
      BY <1>1, <3>1, <3>2
    <3>4. QED
      BY <1>2, <1>3, <3>2, <3>3
  <2>3. QED
    BY <2>1, <2>2 DEF Ordered
<1>5. Opens(q) /\ Head(q).do \notin Opening => Opens(r)
  <2>1. SUFFICES ASSUME Head(q).do \notin Opening, NEW i \in 1 .. Len(q), q[i].do \in Opening
                 PROVE  Opens(r)
    BY DEF Opens
  <2>2. i \in 2 .. Len(q)
    BY <1>1, <2>1
  <2>3. QED
    BY <1>2, <1>3, <2>1, <2>2 DEF Opens
<1>6. x.do \in Opening => Opens(r)
  <2>1. 1 \in 1 .. Len(r)
    BY <1>1, <1>2
  <2>2. QED
    BY <1>2, <2>1 DEF Opens
<1>7. QED
  BY <1>2, <1>4, <1>5, <1>6

(* What handlers begin with.                                                *)
LEMMA NothingToDo ==
  <<>> \in Seq(Step) /\ Ordered(<<>>) /\ ~Opens(<<>>)
BY DEF Ordered, Opens

LEMMA OneStep ==
  ASSUME NEW x \in Step, x.do = "set" => x.state # "ACTIVE"
  PROVE  /\ <<x>> \in Seq(Step) /\ Ordered(<<x>>)
         /\ <<x>> # <<>> /\ Head(<<x>>) = x
         /\ x.do \in Opening => Opens(<<x>>)
<1>1. /\ <<x>> \in Seq(Step) /\ Len(<<x>>) = 1 /\ <<x>>[1] = x
      /\ <<x>> # <<>> /\ Head(<<x>>) = x
      /\ 1 \in 1 .. 1
  OBVIOUS
<1>2. QED
  BY <1>1 DEF Ordered, Opens

LEMMA TwoSteps ==
  ASSUME NEW x \in Step, NEW y \in Step, x.do # "set", y.do \in Later,
         y.do = "set" => y.state # "ACTIVE"
  PROVE  /\ <<x, y>> \in Seq(Step) /\ Ordered(<<x, y>>)
         /\ <<x, y>> # <<>> /\ Head(<<x, y>>) = x
         /\ y.do \in Opening => Opens(<<x, y>>)
<1>1. /\ <<x, y>> \in Seq(Step) /\ Len(<<x, y>>) = 2
      /\ <<x, y>>[1] = x /\ <<x, y>>[2] = y
      /\ <<x, y>> # <<>> /\ Head(<<x, y>>) = x
      /\ 2 \in 1 .. 2
  OBVIOUS
<1>2. QED
  BY <1>1 DEF Ordered, Opens

LEMMA DropAndCreate ==
  ASSUME NEW x \in Step, NEW q, x.do # "set", q = <<x>> \o <<Do("create"), Do("inactive")>>
  PROVE  /\ q \in Seq(Step) /\ Ordered(q) /\ Opens(q)
         /\ q # <<>> /\ Head(q) = x
<1> DEFINE y == Do("create")
           z == Do("inactive")
<1>1. /\ y \in Step /\ y.do = "create" /\ z \in Step /\ z.do = "inactive"
  BY Steps
<1> HIDE DEF y, z
<1>2. /\ q \in Seq(Step) /\ Len(q) = 3
      /\ q[1] = x /\ q[2] = y /\ q[3] = z
      /\ q # <<>> /\ Head(q) = x
  BY <1>1 DEF y, z
<1>3. 2 \in 1 .. 3
  OBVIOUS
<1>4. QED
  BY <1>1, <1>2, <1>3 DEF Ordered, Opens, Later, Opening

LEMMA SignalTwice ==
  ASSUME NEW x \in Step, NEW q, x.do = "signal", q = <<x>> \o <<x>>
  PROVE  q \in Seq(Step) /\ Ordered(q) /\ Head(q) = x
<1>1. q \in Seq(Step) /\ Len(q) = 2 /\ q[1] = x /\ q[2] = x /\ Head(q) = x
  OBVIOUS
<1>2. QED
  BY <1>1 DEF Ordered, Later

LEMMA Change ==
  ASSUME NEW q, q = <<Do("signal"), Set("ACTIVE"), Do("signal"), Do("create")>>
  PROVE  /\ q \in Seq(Step) /\ Ordered(q) /\ Opens(q)
         /\ q # <<>> /\ Head(q) = Do("signal")
<1> DEFINE x == Do("signal")
           y == Set("ACTIVE")
           z == Do("create")
<1>1. /\ x \in Step /\ x.do = "signal" /\ y \in Step /\ y.do = "set"
      /\ z \in Step /\ z.do = "create"
  BY Steps DEF Channel
<1> HIDE DEF x, y, z
<1>2. q = <<x, y, x, z>>
  BY DEF x, y, z
<1>3. /\ q \in Seq(Step) /\ Len(q) = 4
      /\ q[1] = x /\ q[2] = y /\ q[3] = x /\ q[4] = z
      /\ q # <<>> /\ Head(q) = x
  BY <1>1, <1>2
<1>4. 4 \in 1 .. 4
  OBVIOUS
<1>5. Ordered(q) /\ Opens(q)
  BY <1>1, <1>3, <1>4 DEF Ordered, Opens, Later, Opening
<1>6. QED
  BY <1>3, <1>5 DEF x

-----------------------------------------------------------------------------
(* Events.                                                                  *)
LEMMA EventFields ==
  ASSUME NEW e \in Event
  PROVE  /\ e.type \in CircuitEvent => e.of \in CircId
         /\ e.type \in StreamEvent => e.of \in Stream
BY DEF Event

LEMMA AnEvent ==
  /\ \A type \in CircuitEvent, id \in CircId : [type |-> type, of |-> id] \in Event
  /\ \A type \in StreamEvent, s \in Stream :
       [type |-> type, of |-> s] \in Event
  /\ [type |-> "DIR_INFO", of |-> 0] \in Event
BY DEF Event

LEMMA SaysTail ==
  ASSUME NEW q \in Seq(Event), q # <<>>, NEW type, NEW of,
         ~(Head(q).type = type /\ Head(q).of = of)
  PROVE  Says(q, type, of) => Says(Tail(q), type, of)
<1>1. /\ Len(q) \in Nat /\ Len(q) > 0 /\ Len(Tail(q)) = Len(q) - 1
      /\ Head(q) = q[1]
      /\ \A i \in 1 .. Len(Tail(q)) : Tail(q)[i] = q[i + 1]
  BY TailOf
<1>2. SUFFICES ASSUME NEW i \in 1 .. Len(q), q[i].type = type, q[i].of = of
               PROVE  Says(Tail(q), type, of)
  BY DEF Says
<1>3. i # 1
  BY <1>1, <1>2
<1>4. i - 1 \in 1 .. Len(Tail(q)) /\ (i - 1) + 1 = i
  BY <1>1, <1>3
<1>5. Tail(q)[i - 1] = q[i]
  BY <1>1, <1>4
<1>6. QED
  BY <1>2, <1>4, <1>5 DEF Says

LEMMA SaysAppend ==
  ASSUME NEW q \in Seq(Event), NEW e \in Event
  PROVE  /\ \A type, of : Says(q, type, of) => Says(Append(q, e), type, of)
         /\ Says(Append(q, e), e.type, e.of)
<1>1. /\ Len(q) \in Nat /\ Len(Append(q, e)) = Len(q) + 1
      /\ Append(q, e)[Len(q) + 1] = e
      /\ \A i \in 1 .. Len(q) : Append(q, e)[i] = q[i]
      /\ Len(q) + 1 \in 1 .. Len(Append(q, e))
      /\ \A i \in 1 .. Len(q) : i \in 1 .. Len(Append(q, e))
  OBVIOUS
<1>2. QED
  BY <1>1 DEF Says

LEMMA TruthfulTail ==
  ASSUME NEW q \in Seq(Event), q # <<>>, NEW c, NEW s, Truthful(q, c, s)
  PROVE  /\ Tail(q) \in Seq(Event) /\ Truthful(Tail(q), c, s)
         /\ Head(q) \in Event
         /\ Head(q).type = "BUILT" =>
              \/ c[Head(q).of] = "built"
              \/ c[Head(q).of] = "closed" /\ Says(Tail(q), "CLOSED", Head(q).of)
         /\ Head(q).type = "FAILED" => c[Head(q).of] = "failed"
         /\ Head(q).type = "CLOSED" => c[Head(q).of] = "closed"
         /\ Head(q).type \in StreamEvent =>
              s[Head(q).of] # "none"
<1> DEFINE r == Tail(q)
<1>1. /\ r \in Seq(Event)
      /\ Len(q) \in Nat /\ Len(q) > 0 /\ Len(r) = Len(q) - 1
      /\ Head(q) = q[1] /\ q[1] \in Event
      /\ \A i \in 1 .. Len(r) : i + 1 \in 2 .. Len(q) /\ r[i] = q[i + 1]
      /\ 1 \in 1 .. Len(q)
  BY TailOf
<1> HIDE DEF r
<1>2. ASSUME NEW i \in 2 .. Len(q)
      PROVE  i - 1 \in 1 .. Len(r) /\ r[i - 1] = q[i]
  <2>1. i - 1 \in 1 .. Len(r) /\ (i - 1) + 1 = i
    BY <1>1
  <2>2. QED
    BY <1>1, <2>1
<1>3. Truthful(r, c, s)
  <2>1. SUFFICES ASSUME NEW i \in 1 .. Len(r)
                 PROVE  /\ r[i].type = "BUILT" =>
                             \/ c[r[i].of] = "built"
                             \/ /\ c[r[i].of] = "closed"
                                /\ \E j \in i + 1 .. Len(r) : r[j].type = "CLOSED" /\ r[j].of = r[i].of
                        /\ r[i].type = "FAILED" => c[r[i].of] = "failed"
                        /\ r[i].type = "CLOSED" => c[r[i].of] = "closed"
                        /\ r[i].type \in StreamEvent =>
                             s[r[i].of] # "none"
    BY DEF Truthful
  <2>2. i + 1 \in 1 .. Len(q) /\ r[i] = q[i + 1]
    BY <1>1
  <2>3. ASSUME NEW j \in (i + 1) + 1 .. Len(q), q[j].type = "CLOSED" /\ q[j].of = r[i].of
        PROVE  \E k \in i + 1 .. Len(r) : r[k].type = "CLOSED" /\ r[k].of = r[i].of
    <3>1. j \in 2 .. Len(q) /\ j - 1 \in i + 1 .. Len(r)
      BY <1>1
    <3>2. r[j - 1] = q[j]
      BY <1>2, <3>1
    <3>3. QED
      BY <2>3, <3>1, <3>2
  <2>4. QED
    BY <2>2, <2>3 DEF Truthful
<1>4. Head(q).type = "BUILT" =>
        \/ c[Head(q).of] = "built"
        \/ c[Head(q).of] = "closed" /\ Says(r, "CLOSED", Head(q).of)
  <2>1. SUFFICES ASSUME q[1].type = "BUILT", c[q[1].of] # "built"
                 PROVE  c[q[1].of] = "closed" /\ Says(r, "CLOSED", q[1].of)
    BY <1>1
  <2>2. c[q[1].of] = "closed"
    BY <1>1, <2>1 DEF Truthful
  <2>3. PICK j \in 1 + 1 .. Len(q) : q[j].type = "CLOSED" /\ q[j].of = q[1].of
    BY <1>1, <2>1 DEF Truthful
  <2>4. j - 1 \in 1 .. Len(r) /\ r[j - 1] = q[j]
    BY <1>2
  <2>5. QED
    BY <2>2, <2>3, <2>4 DEF Says
<1>5. /\ Head(q).type = "FAILED" => c[Head(q).of] = "failed"
      /\ Head(q).type = "CLOSED" => c[Head(q).of] = "closed"
      /\ Head(q).type \in StreamEvent =>
           s[Head(q).of] # "none"
  BY <1>1 DEF Truthful
<1>6. QED
  BY <1>1, <1>3, <1>4, <1>5 DEF r

(* Circuits that have not been reported on and streams that exist may       *)
(* change without making an event false.                                    *)
LEMMA TruthfulKept ==
  ASSUME NEW q \in Seq(Event), NEW c, NEW s, Truthful(q, c, s), NEW c2, NEW s2,
         \A id \in CircId : c2[id] # c[id] => c[id] \in {"none", "building"},
         \A x \in Stream : s[x] # "none" => s2[x] # "none"
  PROVE  Truthful(q, c2, s2)
<1>1. SUFFICES ASSUME NEW i \in 1 .. Len(q)
               PROVE  /\ q[i].type \in CircuitEvent => c2[q[i].of] = c[q[i].of]
                      /\ q[i].type \in StreamEvent =>
                           s2[q[i].of] # "none"
  BY DEF Truthful
<1>2. q[i] \in Event
  OBVIOUS
<1>3. /\ q[i].type \in CircuitEvent => q[i].of \in CircId
      /\ q[i].type \in StreamEvent => q[i].of \in Stream
  BY <1>2, EventFields
<1>4. /\ q[i].type \in CircuitEvent => c[q[i].of] \in {"built", "closed", "failed"}
      /\ q[i].type \in StreamEvent => s[q[i].of] # "none"
  BY DEF Truthful
<1>5. QED
  BY <1>3, <1>4

LEMMA TruthfulAppend ==
  ASSUME NEW q \in Seq(Event), NEW c, NEW s, Truthful(q, c, s), NEW e \in Event,
         e.type = "BUILT" => c[e.of] = "built",
         e.type = "FAILED" => c[e.of] = "failed",
         e.type = "CLOSED" => c[e.of] = "closed",
         e.type \in StreamEvent => s[e.of] # "none"
  PROVE  Truthful(Append(q, e), c, s)
<1> DEFINE r == Append(q, e)
           n == Len(q)
<1>1. /\ n \in Nat /\ Len(r) = n + 1 /\ r[n + 1] = e
      /\ \A i \in 1 .. n : r[i] = q[i]
      /\ \A i \in 1 .. Len(r) : i \in 1 .. n \/ i = n + 1
  OBVIOUS
<1> HIDE DEF r
<1>2. ASSUME NEW i \in 1 .. n, \E j \in i + 1 .. n : q[j].type = "CLOSED" /\ q[j].of = q[i].of
      PROVE  \E j \in i + 1 .. n + 1 : r[j].type = "CLOSED" /\ r[j].of = q[i].of
  <2>1. PICK j \in i + 1 .. n : q[j].type = "CLOSED" /\ q[j].of = q[i].of
    BY <1>2
  <2>2. j \in 1 .. n /\ j \in i + 1 .. n + 1
    BY <1>1
  <2>3. QED
    BY <1>1, <2>1, <2>2
<1>3. QED
  BY <1>1, <1>2 DEF Truthful, r

(* A circuit that is closed, when the event says so.                        *)
LEMMA TruthfulClosed ==
  ASSUME NEW q \in Seq(Event), NEW c, NEW s, Truthful(q, c, s), NEW id \in CircId,
         NEW c2, c2[id] = "closed", \A x \in CircId \ {id} : c2[x] = c[x],
         c[id] \in {"building", "built"},
         NEW e \in Event, e.type = "CLOSED", e.of = id
  PROVE  Truthful(Append(q, e), c2, s)
<1> DEFINE r == Append(q, e)
           n == Len(q)
<1>1. /\ n \in Nat /\ Len(r) = n + 1 /\ r[n + 1] = e
      /\ \A i \in 1 .. n : r[i] = q[i] /\ n + 1 \in i + 1 .. n + 1
      /\ \A i \in 1 .. Len(r) : i \in 1 .. n \/ i = n + 1
  OBVIOUS
<1> HIDE DEF r
<1>2. SUFFICES ASSUME NEW i \in 1 .. Len(r)
               PROVE  /\ r[i].type = "BUILT" =>
                           \/ c2[r[i].of] = "built"
                           \/ /\ c2[r[i].of] = "closed"
                              /\ \E j \in i + 1 .. Len(r) : r[j].type = "CLOSED" /\ r[j].of = r[i].of
                      /\ r[i].type = "FAILED" => c2[r[i].of] = "failed"
                      /\ r[i].type = "CLOSED" => c2[r[i].of] = "closed"
                      /\ r[i].type \in StreamEvent =>
                           s[r[i].of] # "none"
  BY DEF Truthful, r
<1>3. CASE i = n + 1
  BY <1>1, <1>3
<1>4. CASE i \in 1 .. n
  <2>1. q[i] \in Event /\ r[i] = q[i] /\ n + 1 \in i + 1 .. Len(r)
    BY <1>1, <1>4
  <2>2. q[i].type \in CircuitEvent => q[i].of \in CircId
    BY <2>1, EventFields
  <2>3. CASE q[i].of = id
    BY <1>1, <1>4, <2>1, <2>3 DEF Truthful
  <2>4. CASE q[i].of # id
    <3>1. q[i].type \in CircuitEvent => c2[q[i].of] = c[q[i].of]
      BY <2>2, <2>4
    <3>2. ASSUME NEW j \in i + 1 .. n, q[j].type = "CLOSED" /\ q[j].of = q[i].of
          PROVE  j \in i + 1 .. Len(r) /\ r[j].type = "CLOSED" /\ r[j].of = q[i].of
      <4>1. j \in 1 .. n
        BY <1>4
      <4>2. QED
        BY <1>1, <3>2, <4>1
    <3>3. QED
      BY <1>4, <2>1, <3>1, <3>2 DEF Truthful
  <2>5. QED
    BY <2>3, <2>4
<1>5. QED
  BY <1>1, <1>3, <1>4

-----------------------------------------------------------------------------
(* What an action does to the handlers.                                     *)
TodoInv == todo \in [Thread -> Seq(Step)] /\ \A t \in Thread : Ordered(todo[t])

LEMMA ContinueDone ==
  ASSUME TodoInv, NEW t \in Thread, todo[t] # <<>>, Continue(t, <<>>)
  PROVE  /\ TodoInv'
         /\ \A u \in Thread \ {t} : todo'[u] = todo[u]
         /\ todo'[t] # <<>> => Head(todo'[t]).do \in Later
         /\ Opens(todo[t]) /\ Head(todo[t]).do \notin Opening => Opens(todo'[t])
         /\ Head(todo[t]).do = "set" /\ Head(todo[t]).state = "ACTIVE" => Opens(todo'[t])
<1> DEFINE q == todo[t]
           r == todo'[t]
<1>1. q \in Seq(Step) /\ Ordered(q)
  BY DEF TodoInv
<1>2. /\ todo' = [todo EXCEPT ![t] = <<>> \o Tail(q)]
      /\ r = <<>> \o Tail(q)
      /\ \A u \in Thread \ {t} : todo'[u] = todo[u]
  BY DEF Continue, TodoInv
<1>3. /\ r \in Seq(Step) /\ Ordered(r)
      /\ r # <<>> => Head(r).do \in Later
      /\ Opens(q) /\ Head(q).do \notin Opening => Opens(r)
      /\ Head(q).do = "set" /\ Head(q).state = "ACTIVE" => Opens(r)
  <2> HIDE DEF q, r
  <2>1. QED
    BY <1>1, <1>2, Done DEF q
<1>4. todo' \in [Thread -> Seq(Step)]
  BY <1>2, <1>3 DEF TodoInv
<1>5. QED
  BY <1>2, <1>3, <1>4 DEF TodoInv

LEMMA ContinueWith ==
  ASSUME TodoInv, NEW t \in Thread, todo[t] # <<>>,
         NEW x \in Step, x.do # "set", Continue(t, <<x>>)
  PROVE  /\ TodoInv'
         /\ \A u \in Thread \ {t} : todo'[u] = todo[u]
         /\ todo'[t] # <<>> /\ Head(todo'[t]) = x
         /\ Opens(todo[t]) /\ Head(todo[t]).do \notin Opening => Opens(todo'[t])
         /\ x.do \in Opening => Opens(todo'[t])
<1> DEFINE q == todo[t]
           r == todo'[t]
<1>1. q \in Seq(Step) /\ q # <<>> /\ Ordered(q)
  BY DEF TodoInv
<1>2. /\ todo' = [todo EXCEPT ![t] = <<x>> \o Tail(q)]
      /\ r = <<x>> \o Tail(q)
      /\ \A u \in Thread \ {t} : todo'[u] = todo[u]
  BY DEF Continue, TodoInv
<1>3. /\ r \in Seq(Step) /\ Ordered(r)
      /\ r # <<>> /\ Head(r) = x
      /\ Opens(q) /\ Head(q).do \notin Opening => Opens(r)
      /\ x.do \in Opening => Opens(r)
  <2> HIDE DEF q, r
  <2>1. QED
    BY <1>1, <1>2, Replaced
<1>4. todo' \in [Thread -> Seq(Step)]
  BY <1>2, <1>3 DEF TodoInv
<1>5. QED
  BY <1>2, <1>3, <1>4 DEF TodoInv

LEMMA BeginWith ==
  ASSUME TodoInv, NEW t \in Thread, NEW q \in Seq(Step), Ordered(q), Begin(t, q)
  PROVE  /\ TodoInv'
         /\ todo'[t] = q
         /\ \A u \in Thread \ {t} : todo'[u] = todo[u]
BY DEF TodoInv, Begin

(* How a step gets to be a handler's next one.                              *)
Arrived(t, step) ==
  \/ step.do \in Later \cup {"postpone", "close"}
  \/ step.do = "extend" /\ (At(t, "extend") \/ (dirInfo /\ attempts <= CircRetryAtmps))
  \/ step.do = "store" /\ At(t, "extend")
  \/ step.do = "hear" /\ EvBuilt
  \/ step.do = "drop" /\ (EvFailed \/ EvClosed)
  \/ step.do = "attach" /\ (EvStreamWait \/ HearBuilt \/ AttachStream)

Moved(t) == todo'[t] = todo[t] \/ todo'[t] = <<>> \/ Arrived(t, Head(todo'[t]))

LEMMA TodoNext ==
  ASSUME StepsInv, Next
  PROVE  TodoInv' /\ \A t \in Thread : Moved(t)
<1> DEFINE Goal == TodoInv' /\ \A t \in Thread : Moved(t)
<1>1. TodoInv
  BY DEF StepsInv, TypeOK, TodoInv
<1>2. /\ circ \in Circ /\ pending \subseteq Stream /\ evt \in Seq(Event)
      /\ \A t \in Thread : todo[t] \in Seq(Step)
  BY DEF StepsInv, TypeOK
<1>3. /\ NoCircuit \in Circ /\ "proxy" \in Thread /\ "event" \in Thread /\ "cli" \in Thread
      /\ "HELLO" \in Channel
  BY DEF Circ, Thread, Channel
<1>4. UNCHANGED todo => Goal
  BY <1>1 DEF TodoInv, Moved
<1>5. ASSUME NEW t \in Thread, NEW q \in Seq(Step), Ordered(q), Begin(t, q),
             q # <<>> => Arrived(t, Head(q))
      PROVE  Goal
  BY <1>1, <1>5, BeginWith DEF Moved
<1>5a. \A t \in Thread : Begin(t, <<>>) => Goal
  BY <1>5, NothingToDo
<1>6. \A t \in Thread : \A what \in {"signal", "create"} : Begin(t, <<Do(what)>>) => Goal
  <2> TAKE t \in Thread, what \in {"signal", "create"}
  <2>1. Do(what) \in Step /\ Do(what).do = what
    BY Steps
  <2>2. <<Do(what)>> \in Seq(Step) /\ Ordered(<<Do(what)>>) /\ Head(<<Do(what)>>) = Do(what)
    BY <2>1, OneStep
  <2>3. Arrived(t, Do(what))
    BY <2>1 DEF Arrived, Later
  <2>4. QED
    BY <1>5, <2>2, <2>3
<1>7. \A t \in Thread : Begin(t, <<Do("signal"), Set("HELLO")>>) => Goal
  <2> TAKE t \in Thread
  <2>1. /\ Do("signal") \in Step /\ Do("signal").do = "signal"
        /\ Set("HELLO") \in Step /\ Set("HELLO").do = "set" /\ Set("HELLO").state = "HELLO"
    BY <1>3, Steps
  <2>2. /\ <<Do("signal"), Set("HELLO")>> \in Seq(Step) /\ Ordered(<<Do("signal"), Set("HELLO")>>)
        /\ Head(<<Do("signal"), Set("HELLO")>>) = Do("signal")
    <3>1. "set" \in Later
      BY DEF Later
    <3>2. QED
      BY <2>1, <3>1, TwoSteps
  <2>3. Arrived(t, Do("signal"))
    BY <2>1 DEF Arrived, Later
  <2>4. QED
    BY <1>5, <2>2, <2>3
<1>8. \A t \in Thread : \A what \in {"signal", "close"} :
        Begin(t, <<Do(what), Do("create")>>) => Goal
  <2> TAKE t \in Thread, what \in {"signal", "close"}
  <2>1. Do(what) \in Step /\ Do(what).do = what /\ Do("create") \in Step /\ Do("create").do = "create"
    BY Steps
  <2>2. /\ <<Do(what), Do("create")>> \in Seq(Step) /\ Ordered(<<Do(what), Do("create")>>)
        /\ Head(<<Do(what), Do("create")>>) = Do(what)
    <3>1. "create" \in Later
      BY DEF Later
    <3>2. QED
      BY <2>1, <3>1, TwoSteps
  <2>3. Arrived(t, Do(what))
    BY <2>1 DEF Arrived, Later
  <2>4. QED
    BY <1>5, <2>2, <2>3
<1>9. \A t \in Thread : todo[t] # <<>> /\ Continue(t, <<>>) => Goal
  <2>1. SUFFICES ASSUME NEW t \in Thread, todo[t] # <<>>, Continue(t, <<>>)
                 PROVE  Goal
    OBVIOUS
  <2>2. TodoInv' /\ \A u \in Thread \ {t} : todo'[u] = todo[u]
    BY <1>1, <2>1, ContinueDone
  <2>3. todo'[t] # <<>> => Head(todo'[t]).do \in Later
    BY <1>1, <2>1, ContinueDone
  <2>4. QED
    BY <2>2, <2>3 DEF Moved, Arrived
<1>10. \A t \in Thread : \A x \in Step :
         todo[t] # <<>> /\ x.do # "set" /\ Continue(t, <<x>>) /\ Arrived(t, x) => Goal
  BY <1>1, ContinueWith DEF Moved
<1>11. ASSUME NEW t \in Thread, Shared(t)
       PROVE  Goal
  <2>1. CASE Signal(t) \/ SetState(t) \/ Postpone(t)
    BY <1>9, <2>1 DEF Signal, SetState, Postpone, At
  <2>2. CASE Create(t)
    <3>1. \A what \in {"postpone", "extend"} : Do(what) \in Step /\ Do(what).do = what
      BY Steps
    <3>2. CASE ~dirInfo
      <4>1. Arrived(t, Do("postpone"))
        BY <3>1 DEF Arrived
      <4>2. QED
        BY <1>10, <2>2, <3>1, <3>2, <4>1 DEF Create, At
    <3>3. CASE dirInfo /\ attempts <= CircRetryAtmps
      <4>1. Arrived(t, Do("extend"))
        BY <3>1, <3>3 DEF Arrived
      <4>2. QED
        BY <1>10, <2>2, <3>1, <3>3, <4>1 DEF Create, At
    <3>4. QED
      BY <1>9, <2>2, <3>2, <3>3 DEF Create, At
  <2>3. CASE Extended(t)
    <3>1. PICK id \in CircId : Continue(t, <<About(id, "store")>>)
      BY <2>3 DEF Extended
    <3>2. About(id, "store") \in Step /\ About(id, "store").do = "store"
      BY Steps
    <3>3. Arrived(t, About(id, "store"))
      BY <2>3, <3>2 DEF Arrived, Extended
    <3>4. QED
      BY <1>10, <2>3, <3>1, <3>2, <3>3 DEF Extended, At
  <2>4. CASE ExtendRefused(t)
    <3>1. Do("extend") \in Step /\ Do("extend").do = "extend"
      BY Steps
    <3>2. Arrived(t, Do("extend"))
      BY <2>4, <3>1 DEF Arrived, ExtendRefused
    <3>3. QED
      BY <1>9, <1>10, <2>4, <3>1, <3>2 DEF ExtendRefused, At
  <2>5. CASE StoreCircuit(t)
    BY <1>5a, <2>5 DEF StoreCircuit, Stored
  <2>6. QED
    BY <1>11, <2>1, <2>2, <2>3, <2>4, <2>5 DEF Shared
<1>12. ASSUME Proxy
       PROVE  Goal
  <2>1. CASE NewConnection
    BY <1>3, <1>4, <1>7, <2>1 DEF NewConnection
  <2>2. CASE RecvHelloOk
    BY <1>3, <1>5a, <1>6, <2>2 DEF RecvHelloOk
  <2>3. CASE RecvActive
    BY <1>3, <1>8, <2>3 DEF RecvActive
  <2>4. CASE RecvWait
    BY <1>3, <1>6, <2>4 DEF RecvWait
  <2>5. CASE RecvChange
    <3>1. Begin("proxy", <<Do("signal"), Set("ACTIVE"), Do("signal"), Do("create")>>)
      BY <2>5 DEF RecvChange
    <3>2. Do("signal") \in Step /\ Do("signal").do = "signal"
      BY Steps
    <3>3. Arrived("proxy", Do("signal"))
      BY <3>2 DEF Arrived, Later
    <3>4. QED
      BY <1>3, <1>5, <3>1, <3>3, Change
  <2>6. CASE RecvInactive \/ RecvShut
    <3>1. <<Do("signal")>> \o <<>> = <<Do("signal")>>
      OBVIOUS
    <3>2. Begin("proxy", <<>>) \/ Begin("proxy", <<Do("signal")>>)
      BY <2>6, <3>1 DEF RecvInactive, RecvShut, Stop
    <3>3. QED
      BY <1>3, <1>5a, <1>6, <3>2
  <2>7. CASE RecvShutOk
    <3>1. \/ Begin("proxy", <<Do("signal")>>)
          \/ Begin("proxy", <<Do("signal")>> \o <<Do("signal")>>)
      BY <2>7 DEF RecvShutOk, Stop
    <3>2. ASSUME NEW q, q = <<Do("signal")>> \o <<Do("signal")>>
          PROVE  q \in Seq(Step) /\ Ordered(q) /\ Arrived("proxy", Head(q))
      <4>1. Do("signal") \in Step /\ Do("signal").do = "signal"
        BY Steps
      <4>2. q \in Seq(Step) /\ Ordered(q) /\ Head(q) = Do("signal")
        BY <3>2, <4>1, SignalTwice
      <4>3. QED
        BY <4>1, <4>2 DEF Arrived, Later
    <3>3. QED
      BY <1>3, <1>5, <1>6, <3>1, <3>2
  <2>8. CASE Terminated
    BY <1>4, <2>8 DEF Terminated
  <2>9. QED
    BY <1>12, <2>1, <2>2, <2>3, <2>4, <2>5, <2>6, <2>7, <2>8 DEF Proxy
<1>13. ASSUME Events
       PROVE  Goal
  <2>1. CASE EvStreamWait
    <3>1. Head(evt) \in Event /\ Head(evt).type = "STREAM_WAIT"
      BY <1>2, <2>1, TailOf DEF EvStreamWait, Take
    <3>2. Head(evt).of \in Stream
      BY <3>1, EventFields
    <3>3. UNCHANGED todo \/ Begin("event", <<Attach(Head(evt).of, circ, {})>>)
      BY <2>1 DEF EvStreamWait
    <3>4. ASSUME NEW s \in Stream, Begin("event", <<Attach(s, circ, {})>>)
          PROVE  Goal
      <4>1. Attach(s, circ, {}) \in Step /\ Attach(s, circ, {}).do = "attach"
        BY <1>2, Steps
      <4>2. /\ <<Attach(s, circ, {})>> \in Seq(Step) /\ Ordered(<<Attach(s, circ, {})>>)
            /\ Head(<<Attach(s, circ, {})>>) = Attach(s, circ, {})
        BY <4>1, OneStep
      <4>3. Arrived("event", Attach(s, circ, {}))
        BY <2>1, <4>1 DEF Arrived
      <4>4. QED
        BY <1>3, <1>5, <3>4, <4>2, <4>3
    <3>5. QED
      BY <1>4, <3>2, <3>3, <3>4
  <2>2. CASE EvBuilt \/ EvClosed
    <3>1. PICK what \in {"hear", "drop"} :
            /\ Begin("event", IF circ = Head(evt).of THEN <<About(circ, what)>> \o <<>> ELSE <<>>)
            /\ (what = "hear" /\ EvBuilt) \/ (what = "drop" /\ EvClosed)
      BY <2>2 DEF EvBuilt, EvClosed, TakeCircuit
    <3>2. Head(evt) \in Event /\ Head(evt).type \in {"BUILT", "CLOSED"}
      BY <1>2, <2>2, TailOf DEF EvBuilt, EvClosed, TakeCircuit, Take
    <3>3. Head(evt).of \in CircId
      BY <3>2, EventFields
    <3>4. ASSUME circ = Head(evt).of, NEW x, x = About(circ, what)
          PROVE  /\ <<x>> \o <<>> \in Seq(Step) /\ Ordered(<<x>> \o <<>>)
                 /\ Arrived("event", Head(<<x>> \o <<>>))
      <4>1. x \in Step /\ x.do = what
        BY <3>3, <3>4, Steps
      <4>2. <<x>> \o <<>> = <<x>>
        OBVIOUS
      <4>3. Arrived("event", x)
        BY <3>1, <4>1 DEF Arrived
      <4>4. QED
        BY <4>1, <4>2, <4>3, OneStep
    <3>5. QED
      BY <1>3, <1>5, <1>5a, <3>1, <3>4
  <2>3. CASE EvFailed
    <3>1. Begin("event", IF circ = Head(evt).of
                         THEN <<About(circ, "drop")>> \o <<Do("create"), Do("inactive")>> ELSE <<>>)
      BY <2>3 DEF EvFailed, TakeCircuit
    <3>2. Head(evt) \in Event /\ Head(evt).type = "FAILED"
      BY <1>2, <2>3, TailOf DEF EvFailed, TakeCircuit, Take
    <3>3. Head(evt).of \in CircId
      BY <3>2, EventFields
    <3>4. ASSUME circ = Head(evt).of, NEW q, q = <<About(circ, "drop")>> \o <<Do("create"), Do("inactive")>>
          PROVE  q \in Seq(Step) /\ Ordered(q) /\ Arrived("event", Head(q))
      <4>1. About(circ, "drop") \in Step /\ About(circ, "drop").do = "drop"
        BY <3>3, <3>4, Steps
      <4>2. q \in Seq(Step) /\ Ordered(q) /\ Head(q) = About(circ, "drop")
        BY <3>4, <4>1, DropAndCreate
      <4>3. QED
        BY <2>3, <4>1, <4>2 DEF Arrived
    <3>5. QED
      BY <1>3, <1>5, <1>5a, <3>1, <3>4
  <2>4. CASE EvStreamClosed
    BY <1>4, <2>4 DEF EvStreamClosed
  <2>5. CASE EvDetached \/ EvDetachedOther
    BY <1>3, <1>4, <1>8, <2>5 DEF EvDetached, EvDetachedOther
  <2>6. CASE EvDirInfo
    BY <1>3, <1>5a, <1>6, <2>6 DEF EvDirInfo
  <2>7. CASE HearBuilt
    <3>1. \A s \in pending : LET x == Attach(s, circ, pending \ {s})
                             IN x \in Step /\ x.do = "attach"
      BY <1>2, Steps
    <3>2. \A x \in Step : x.do = "attach" => Arrived("event", x)
      BY <2>7 DEF Arrived
    <3>3. QED
      BY <1>3, <1>9, <1>10, <2>7, <3>1, <3>2 DEF HearBuilt, At
  <2>8. CASE DropCircuit \/ GiveUp \/ CloseCircuit
    BY <1>3, <1>9, <2>8 DEF DropCircuit, GiveUp, CloseCircuit, At
  <2>9. CASE AttachStream
    <3> DEFINE step == Head(todo["event"])
    <3>1. step \in Step /\ step.do = "attach" /\ todo["event"] # <<>>
      BY <1>2, <1>3, <2>9, TailOf DEF AttachStream, At
    <3>2. step.rest \subseteq Stream
      BY <3>1, StepFields
    <3>3. \A s \in step.rest : LET x == Attach(s, circ, step.rest \ {s})
                               IN x \in Step /\ x.do = "attach"
      BY <1>2, <3>2, Steps
    <3>3a. \A x \in Step : x.do = "attach" => Arrived("event", x)
      BY <2>9 DEF Arrived
    <3>4. \/ Continue("event", <<>>)
          \/ \E s \in step.rest : Continue("event", <<Attach(s, circ, step.rest \ {s})>>)
      BY <2>9 DEF AttachStream
    <3>5. QED
      BY <1>3, <1>9, <1>10, <3>1, <3>3, <3>3a, <3>4
  <2>10. QED
    BY <1>13, <2>1, <2>2, <2>3, <2>4, <2>5, <2>6, <2>7, <2>8, <2>9 DEF Events
<1>14. ASSUME Cli
       PROVE  Goal
  BY <1>3, <1>4, <1>6, <1>7, <1>14 DEF Cli, CliCreate, CliSetK, CliShut, CliSetEvents
<1>15. ASSUME TorReports
       PROVE  Goal
  BY <1>4, <1>15 DEF TorReports, Report, Tell, CircuitBuilt, CircuitFails, CircuitCloses,
                     StreamWaits, StreamDetached, StreamDetachedOther, StreamCloses, EnoughDirInfo
<1>16. QED
  BY <1>11, <1>12, <1>13, <1>14, <1>15 DEF Next

-----------------------------------------------------------------------------
(* What an action does to Tor and to what Tor says.                         *)
CircuitState == {"none", "building", "built", "failed", "closed"}
StreamState == {"none", "waiting", "attached", "detached", "closed"}

TorInv ==
  /\ circuit \in [CircId -> CircuitState] /\ stream \in [Stream -> StreamState]
  /\ evt \in Seq(Event)
  /\ Truthful(evt, circuit, stream)

LEMMA MisledRemains ==
  ASSUME Next, ~misled'
  PROVE  ~misled
BY DEF Next, Shared, Signal, SetState, Create, Postpone, Extended, ExtendRefused, StoreCircuit,
       Stored, Proxy, NewConnection, Terminated, RecvHelloOk, RecvActive, RecvWait, RecvChange,
       RecvInactive, RecvShut, RecvShutOk, Stop, Events, EvStreamWait, EvBuilt, EvFailed,
       EvClosed, EvStreamClosed, EvDetached, EvDetachedOther, EvDirInfo, TakeCircuit, Take,
       HearBuilt, DropCircuit, GiveUp, AttachStream, CloseCircuit, Cli, CliCreate, CliSetK,
       CliShut, CliSetEvents, Order, TorReports, Report, Tell, CircuitBuilt, CircuitFails,
       CircuitCloses, StreamWaits, StreamDetached, StreamDetachedOther, StreamCloses,
       EnoughDirInfo, own, ghost

LEMMA TorTyped ==
  ASSUME StepsInv, Next
  PROVE  /\ circuit' \in [CircId -> CircuitState] /\ stream' \in [Stream -> StreamState]
         /\ evt' \in Seq(Event)
<1> DEFINE Goal == /\ circuit' \in [CircId -> CircuitState] /\ stream' \in [Stream -> StreamState]
                   /\ evt' \in Seq(Event)
<1>1. /\ circuit \in [CircId -> CircuitState] /\ stream \in [Stream -> StreamState]
      /\ evt \in Seq(Event)
  BY DEF StepsInv, TypeOK, CircuitState, StreamState
<1>2. UNCHANGED <<circuit, stream, evt>> => Goal
  BY <1>1
<1>3. evt # <<>> /\ evt' = Tail(evt) /\ UNCHANGED <<circuit, stream>> => Goal
  BY <1>1, TailOf
<1>4. ASSUME NEW type, NEW of, [type |-> type, of |-> of] \in Event, Tell(type, of)
      PROVE  evt' \in Seq(Event)
  BY <1>1, <1>4 DEF Tell
<1>5. \A id \in CircId, x \in CircuitState :
        [circuit EXCEPT ![id] = x] \in [CircId -> CircuitState]
  BY <1>1
<1>6. \A s, x : x \in StreamState => [stream EXCEPT ![s] = x] \in [Stream -> StreamState]
  BY <1>1
<1>7. ASSUME NEW t \in Thread, Shared(t)
      PROVE  Goal
  BY <1>1, <1>5, <1>7 DEF Shared, Signal, SetState, Create, Postpone, Extended, ExtendRefused,
                          StoreCircuit, Stored, CircuitState, tor
<1>8. ASSUME Proxy
      PROVE  Goal
  BY <1>2, <1>8 DEF Proxy, NewConnection, Terminated, RecvHelloOk, RecvActive, RecvWait, RecvChange,
                    RecvInactive, RecvShut, RecvShutOk, Stop, tor
<1>9. ASSUME Events
      PROVE  Goal
  <2>1. CASE \/ EvStreamWait \/ EvBuilt \/ EvFailed \/ EvClosed
             \/ EvStreamClosed \/ EvDetached \/ EvDetachedOther \/ EvDirInfo
    BY <1>3, <2>1 DEF EvStreamWait, EvBuilt, EvFailed, EvClosed, EvStreamClosed, EvDetached,
                      EvDetachedOther, EvDirInfo, TakeCircuit, Take
  <2>2. CASE HearBuilt \/ DropCircuit \/ GiveUp
    BY <1>2, <2>2 DEF HearBuilt, DropCircuit, GiveUp, tor
  <2>3. CASE AttachStream
    <3>1. /\ stream' = stream \/ \E x : stream' = [stream EXCEPT ![x] = "attached"]
          /\ UNCHANGED <<circuit, evt>>
      BY <2>3 DEF AttachStream
    <3>2. QED
      BY <1>1, <1>6, <3>1 DEF StreamState
  <2>4. CASE CloseCircuit
    <3>1. CASE circ \in CircId /\ circuit[circ] \in {"building", "built"}
      <4>1. /\ circuit' = [circuit EXCEPT ![circ] = "closed"] /\ Tell("CLOSED", circ)
            /\ stream' = stream
        BY <2>4, <3>1 DEF CloseCircuit
      <4>2. [type |-> "CLOSED", of |-> circ] \in Event
        BY <3>1, AnEvent DEF CircuitEvent
      <4>3. QED
        BY <1>1, <1>4, <1>5, <3>1, <4>1, <4>2 DEF CircuitState
    <3>2. QED
      BY <1>2, <2>4, <3>1 DEF CloseCircuit
  <2>5. QED
    BY <1>9, <2>1, <2>2, <2>3, <2>4 DEF Events
<1>10. ASSUME Cli
       PROVE  Goal
  BY <1>2, <1>10 DEF Cli, CliCreate, CliSetK, CliShut, CliSetEvents, Order
<1>11. ASSUME TorReports
       PROVE  Goal
  <2>1. ASSUME NEW id \in CircId, CircuitBuilt(id) \/ CircuitFails(id) \/ CircuitCloses(id)
        PROVE  Goal
    <3>1. PICK type \in CircuitEvent, x \in {"built", "failed", "closed"} :
            circuit' = [circuit EXCEPT ![id] = x] /\ Tell(type, id) /\ stream' = stream
      BY <2>1 DEF CircuitBuilt, CircuitFails, CircuitCloses, Report, CircuitEvent
    <3>2. QED
      BY <1>1, <1>4, <1>5, <3>1, AnEvent DEF CircuitState
  <2>2. ASSUME NEW s \in Stream,
               StreamWaits(s) \/ StreamDetached(s) \/ StreamDetachedOther(s) \/ StreamCloses(s)
        PROVE  Goal
    <3>1. PICK type \in StreamEvent, x \in {"waiting", "detached", "closed"} :
            stream' = [stream EXCEPT ![s] = x] /\ Tell(type, s) /\ circuit' = circuit
      BY <2>2 DEF StreamWaits, StreamDetached, StreamDetachedOther, StreamCloses, Report,
                  StreamEvent
    <3>2. QED
      BY <1>1, <1>4, <1>6, <3>1, AnEvent DEF StreamState
  <2>3. CASE EnoughDirInfo
    BY <1>1, <1>4, <2>3, AnEvent DEF EnoughDirInfo, Report
  <2>4. QED
    BY <1>11, <2>1, <2>2, <2>3 DEF TorReports
<1>12. QED
  BY <1>7, <1>8, <1>9, <1>10, <1>11 DEF Next

LEMMA TorNext ==
  ASSUME StepsInv, Next, ~misled'
  PROVE  TorInv'
<1>1. TorInv
  BY MisledRemains DEF StepsInv, TypeOK, TorInv, CircuitState, StreamState
<1>2. UNCHANGED <<circuit, stream, evt>> => TorInv'
  BY <1>1 DEF TorInv
<1>3. ASSUME evt # <<>>, evt' = Tail(evt), UNCHANGED <<circuit, stream>>
      PROVE  TorInv'
  BY <1>1, <1>3, TruthfulTail DEF TorInv
<1>4. ASSUME NEW t \in Thread, Shared(t)
      PROVE  TorInv'
  <2>1. CASE Signal(t) \/ SetState(t) \/ Create(t) \/ Postpone(t) \/ ExtendRefused(t) \/ StoreCircuit(t)
    BY <1>2, <2>1 DEF Signal, SetState, Create, Postpone, ExtendRefused, StoreCircuit, Stored, tor
  <2>2. CASE Extended(t)
    <3>1. PICK id \in CircId : circuit[id] = "none" /\ circuit' = [circuit EXCEPT ![id] = "building"]
      BY <2>2 DEF Extended
    <3>2. UNCHANGED <<stream, evt>>
      BY <2>2 DEF Extended
    <3>3. \A x \in CircId : circuit'[x] # circuit[x] => circuit[x] \in {"none", "building"}
      BY <1>1, <3>1 DEF TorInv
    <3>4. Truthful(evt, circuit', stream)
      BY <1>1, <3>3, TruthfulKept DEF TorInv
    <3>5. circuit' \in [CircId -> CircuitState]
      BY <1>1, <3>1 DEF TorInv, CircuitState
    <3>6. QED
      BY <1>1, <3>2, <3>4, <3>5 DEF TorInv
  <2>3. QED
    BY <1>4, <2>1, <2>2 DEF Shared
<1>5. ASSUME Proxy
      PROVE  TorInv'
  BY <1>2, <1>5 DEF Proxy, NewConnection, Terminated, RecvHelloOk, RecvActive, RecvWait, RecvChange,
                    RecvInactive, RecvShut, RecvShutOk, Stop, tor
<1>6. ASSUME Events
      PROVE  TorInv'
  <2>1. CASE \/ EvStreamWait \/ EvBuilt \/ EvFailed \/ EvClosed
             \/ EvStreamClosed \/ EvDetached \/ EvDetachedOther \/ EvDirInfo
    BY <1>3, <2>1 DEF EvStreamWait, EvBuilt, EvFailed, EvClosed, EvStreamClosed, EvDetached,
                      EvDetachedOther, EvDirInfo, TakeCircuit, Take
  <2>2. CASE HearBuilt \/ DropCircuit \/ GiveUp
    BY <1>2, <2>2 DEF HearBuilt, DropCircuit, GiveUp, tor
  <2>3. CASE AttachStream
    <3>1. \/ stream' = stream
          \/ \E x : /\ stream[x] \in {"waiting", "detached"}
                    /\ stream' = [stream EXCEPT ![x] = "attached"]
      BY <2>3 DEF AttachStream
    <3>2. UNCHANGED <<circuit, evt>>
      BY <2>3 DEF AttachStream
    <3>3. ASSUME NEW x, stream[x] \in {"waiting", "detached"},
                 stream' = [stream EXCEPT ![x] = "attached"]
          PROVE  TorInv'
      <4>1. \A s \in Stream : stream[s] # "none" => stream'[s] # "none"
        BY <1>1, <3>3 DEF TorInv
      <4>2. Truthful(evt, circuit, stream')
        BY <1>1, <4>1, TruthfulKept DEF TorInv
      <4>3. stream' \in [Stream -> StreamState]
        BY <1>1, <3>3 DEF TorInv, StreamState
      <4>4. QED
        BY <1>1, <3>2, <4>2, <4>3 DEF TorInv
    <3>4. QED
      BY <1>2, <3>1, <3>2, <3>3
  <2>4. CASE CloseCircuit
    <3>1. CASE circ \in CircId /\ circuit[circ] \in {"building", "built"}
      <4> DEFINE e == [type |-> "CLOSED", of |-> circ]
      <4>1. circuit' = [circuit EXCEPT ![circ] = "closed"] /\ evt' = Append(evt, e) /\ stream' = stream
        BY <2>4, <3>1 DEF CloseCircuit, Tell
      <4>2. e \in Event /\ e.type = "CLOSED" /\ e.of = circ
        BY <3>1, AnEvent
      <4>3. circuit'[circ] = "closed" /\ \A x \in CircId \ {circ} : circuit'[x] = circuit[x]
        BY <1>1, <3>1, <4>1 DEF TorInv
      <4> HIDE DEF e
      <4>4. Truthful(Append(evt, e), circuit', stream)
        BY <1>1, <3>1, <4>2, <4>3, TruthfulClosed DEF TorInv
      <4>5. circuit' \in [CircId -> CircuitState] /\ Append(evt, e) \in Seq(Event)
        BY <1>1, <3>1, <4>1, <4>2 DEF TorInv, CircuitState
      <4>6. QED
        BY <1>1, <4>1, <4>4, <4>5 DEF TorInv
    <3>2. QED
      BY <1>2, <2>4, <3>1 DEF CloseCircuit
  <2>5. QED
    BY <1>6, <2>1, <2>2, <2>3, <2>4 DEF Events
<1>7. ASSUME Cli
      PROVE  TorInv'
  BY <1>2, <1>7 DEF Cli, CliCreate, CliSetK, CliShut, CliSetEvents, Order, tor
<1>8. ASSUME TorReports
      PROVE  TorInv'
  <2>1. ASSUME NEW id \in CircId, CircuitBuilt(id) \/ CircuitFails(id)
        PROVE  TorInv'
    <3>1. PICK new \in {"BUILT", "FAILED"}, s \in {"built", "failed"} :
            /\ circuit[id] = "building" /\ circuit' = [circuit EXCEPT ![id] = s]
            /\ evt' = Append(evt, [type |-> new, of |-> id])
            /\ stream' = stream
            /\ new = "BUILT" => s = "built"
            /\ new = "FAILED" => s = "failed"
      BY <2>1 DEF CircuitBuilt, CircuitFails, Report, Tell
    <3> DEFINE e == [type |-> new, of |-> id]
    <3>2. e \in Event /\ e.type = new /\ e.of = id
      BY AnEvent
    <3>3. circuit'[id] = s /\ \A x \in CircId : circuit'[x] # circuit[x] => circuit[x] = "building"
      BY <1>1, <3>1 DEF TorInv
    <3>4. Truthful(evt, circuit', stream)
      BY <1>1, <3>3, TruthfulKept DEF TorInv
    <3>5. circuit' \in [CircId -> CircuitState] /\ Append(evt, e) \in Seq(Event)
      BY <1>1, <3>1, <3>2 DEF TorInv, CircuitState
    <3>6. evt' = Append(evt, e) /\ evt \in Seq(Event)
      BY <1>1, <3>1 DEF TorInv
    <3> HIDE DEF e
    <3>7. Truthful(Append(evt, e), circuit', stream)
      BY <3>1, <3>2, <3>3, <3>4, <3>6, TruthfulAppend
    <3>8. QED
      BY <1>1, <3>1, <3>5, <3>6, <3>7 DEF TorInv
  <2>2. ASSUME NEW id \in CircId, CircuitCloses(id)
        PROVE  TorInv'
    <3> DEFINE e == [type |-> "CLOSED", of |-> id]
    <3>1. /\ circuit[id] = "built" /\ circuit' = [circuit EXCEPT ![id] = "closed"]
          /\ evt' = Append(evt, e) /\ stream' = stream
      BY <2>2 DEF CircuitCloses, Report, Tell
    <3>2. e \in Event /\ e.type = "CLOSED" /\ e.of = id
      BY AnEvent
    <3>3. circuit'[id] = "closed" /\ \A x \in CircId \ {id} : circuit'[x] = circuit[x]
      BY <1>1, <3>1 DEF TorInv
    <3> HIDE DEF e
    <3>4. Truthful(Append(evt, e), circuit', stream)
      BY <1>1, <3>1, <3>2, <3>3, TruthfulClosed DEF TorInv
    <3>5. circuit' \in [CircId -> CircuitState] /\ Append(evt, e) \in Seq(Event)
      BY <1>1, <3>1, <3>2 DEF TorInv, CircuitState
    <3>6. QED
      BY <1>1, <3>1, <3>4, <3>5 DEF TorInv
  <2>3. ASSUME NEW x \in Stream,
               StreamWaits(x) \/ StreamDetached(x) \/ StreamDetachedOther(x) \/ StreamCloses(x)
        PROVE  TorInv'
    <3>1. PICK new \in StreamEvent, s \in {"waiting", "detached", "closed"} :
            /\ stream' = [stream EXCEPT ![x] = s]
            /\ evt' = Append(evt, [type |-> new, of |-> x])
            /\ circuit' = circuit
      BY <2>3 DEF StreamWaits, StreamDetached, StreamDetachedOther, StreamCloses, Report, Tell,
                  StreamEvent
    <3> DEFINE e == [type |-> new, of |-> x]
    <3>2. e \in Event /\ e.type = new /\ e.of = x
      BY AnEvent
    <3>3. stream'[x] # "none" /\ \A y \in Stream : stream[y] # "none" => stream'[y] # "none"
      BY <1>1, <3>1 DEF TorInv
    <3>4. Truthful(evt, circuit, stream')
      BY <1>1, <3>3, TruthfulKept DEF TorInv
    <3>5. stream' \in [Stream -> StreamState] /\ Append(evt, e) \in Seq(Event)
      BY <1>1, <3>1, <3>2 DEF TorInv, StreamState
    <3>6. evt' = Append(evt, e) /\ evt \in Seq(Event)
      BY <1>1, <3>1 DEF TorInv
    <3> HIDE DEF e
    <3>7. Truthful(Append(evt, e), circuit, stream')
      BY <3>1, <3>2, <3>3, <3>4, <3>6, TruthfulAppend
    <3>8. QED
      BY <1>1, <3>1, <3>5, <3>6, <3>7 DEF TorInv
  <2>4. CASE EnoughDirInfo
    <3> DEFINE e == [type |-> "DIR_INFO", of |-> 0]
    <3>1. evt' = Append(evt, e) /\ UNCHANGED <<circuit, stream>>
      BY <2>4 DEF EnoughDirInfo, Report, Tell
    <3>2. e \in Event /\ e.type = "DIR_INFO"
      BY AnEvent
    <3> HIDE DEF e
    <3>3. Truthful(Append(evt, e), circuit, stream) /\ Append(evt, e) \in Seq(Event)
      BY <1>1, <3>2, TruthfulAppend DEF TorInv
    <3>4. QED
      BY <1>1, <3>1, <3>3 DEF TorInv
  <2>5. QED
    BY <1>8, <2>1, <2>2, <2>3, <2>4 DEF TorReports
<1>9. QED
  BY <1>4, <1>5, <1>6, <1>7, <1>8 DEF Next

-----------------------------------------------------------------------------
(* However many threads are in create_circuit's loop, attempts is bounded.  *)
LEMMA ThreeThreads ==
  Cardinality(Thread) = 3
<1>1. IsFiniteSet({"proxy"}) /\ Cardinality({"proxy"}) = 1
  BY FS_Singleton
<1>2. /\ IsFiniteSet({"proxy"} \cup {"event"})
      /\ Cardinality({"proxy"} \cup {"event"}) = 2
  BY <1>1, FS_AddElement
<1>3. Cardinality(({"proxy"} \cup {"event"}) \cup {"cli"}) = 3
  BY <1>2, FS_AddElement
<1>4. Thread = ({"proxy"} \cup {"event"}) \cup {"cli"}
  BY DEF Thread
<1>5. QED
  BY <1>3, <1>4

LEMMA AttemptsEvolve ==
  ASSUME Next
  PROVE  attempts' = attempts \/ HearBuilt \/ \E t \in Thread : ExtendRefused(t)
BY DEF Next, Shared, Signal, SetState, Create, Postpone, Extended, StoreCircuit, Stored, Proxy,
       NewConnection, Terminated, RecvHelloOk, RecvActive, RecvWait, RecvChange, RecvInactive,
       RecvShut, RecvShutOk, Stop, Events, EvStreamWait, EvBuilt, EvFailed, EvClosed,
       EvStreamClosed, EvDetached, EvDetachedOther, EvDirInfo, TakeCircuit, DropCircuit, GiveUp,
       AttachStream, CloseCircuit, Cli, CliCreate, CliSetK, CliShut, CliSetEvents, Order,
       TorReports, Report, Tell, CircuitBuilt, CircuitFails, CircuitCloses, StreamWaits,
       StreamDetached, StreamDetachedOther, StreamCloses, EnoughDirInfo, own

LEMMA AttemptsNext ==
  ASSUME StepsInv, Next
  PROVE  attempts' \in Nat /\ attempts' + Loops' <= CircRetryAtmps + 3
<1>1. /\ attempts \in Nat /\ CircRetryAtmps \in Nat /\ attempts + Loops <= CircRetryAtmps + 3
      /\ todo \in [Thread -> Seq(Step)]
  <2>1. CircRetryAtmps \in Nat
    BY ClientAssumption
  <2>2. attempts \in 0 .. CircRetryAtmps + 3 /\ todo \in [Thread -> Seq(Step)]
    BY ThreeThreads DEF StepsInv, TypeOK
  <2>3. attempts + Loops <= CircRetryAtmps + 3
    BY ThreeThreads DEF StepsInv
  <2>4. QED
    BY <2>1, <2>2, <2>3
<1>2. "proxy" \in Thread /\ "event" \in Thread /\ "cli" \in Thread
  BY DEF Thread
<1>3. \A t \in Thread : InExtend(t) \in 0 .. 1 /\ InExtend(t)' \in 0 .. 1
  BY DEF InExtend
<1>4. \A t \in Thread : Moved(t)
  BY TodoNext
<1>5. CASE ~(attempts <= CircRetryAtmps) /\ attempts' = attempts
  <2>1. ASSUME NEW t \in Thread
        PROVE  InExtend(t)' <= InExtend(t)
    <3>1. Moved(t)
      BY <1>4
    <3>2. At(t, "extend")' => At(t, "extend")
      BY <1>5, <3>1 DEF Moved, Arrived, At, Later
    <3>3. QED
      BY <3>2 DEF InExtend
  <2>2. InExtend("proxy")' <= InExtend("proxy") /\ InExtend("event")' <= InExtend("event")
        /\ InExtend("cli")' <= InExtend("cli")
    BY <1>2, <2>1
  <2>3. /\ InExtend("proxy") \in Int /\ InExtend("proxy")' \in Int
        /\ InExtend("event") \in Int /\ InExtend("event")' \in Int
        /\ InExtend("cli") \in Int /\ InExtend("cli")' \in Int
    BY <1>2, <1>3
  <2>4. Loops \in Int /\ Loops' \in Int /\ Loops' <= Loops
    BY <2>2, <2>3 DEF Loops
  <2>5. \A a, r \in Nat, m, n \in Int : a + m <= r + 3 /\ n <= m => a + n <= r + 3
    OBVIOUS
  <2>6. attempts \in Nat /\ CircRetryAtmps \in Nat /\ attempts + Loops <= CircRetryAtmps + 3
    BY <1>1
  <2>7. attempts + Loops' <= CircRetryAtmps + 3
    BY <2>4, <2>5, <2>6
  <2>8. QED
    BY <1>5, <2>6, <2>7
<1>6. CASE attempts' \in Nat /\ attempts' <= CircRetryAtmps
  BY <1>1, <1>2, <1>3, <1>6 DEF Loops
<1>7. ASSUME NEW t \in Thread, ExtendRefused(t)
      PROVE  attempts' \in Nat /\ attempts' + Loops' <= CircRetryAtmps + 3
  <2>1. attempts' = attempts + 1 /\ At(t, "extend")
    BY <1>7 DEF ExtendRefused
  <2>2. CASE ~(attempts' <= CircRetryAtmps)
    <3>1. Continue(t, <<>>) /\ todo[t] # <<>>
      BY <1>7, <2>2 DEF ExtendRefused, At
    <3>2. TodoInv
      BY DEF StepsInv, TypeOK, TodoInv
    <3>3. /\ \A u \in Thread \ {t} : todo'[u] = todo[u]
          /\ todo'[t] # <<>> => Head(todo'[t]).do \in Later
      BY <3>1, <3>2, ContinueDone
    <3>4. InExtend(t) = 1 /\ InExtend(t)' = 0
      BY <2>1, <3>3 DEF InExtend, At, Later
    <3>5. \A u \in Thread \ {t} : InExtend(u)' = InExtend(u)
      BY <3>3 DEF InExtend, At
    <3>6. Loops' = Loops - 1
      <4>1. t = "proxy" \/ t = "event" \/ t = "cli"
        BY DEF Thread
      <4>2. QED
        BY <1>2, <1>3, <3>4, <3>5, <4>1 DEF Loops
    <3>7. Loops \in Nat
      BY <1>2, <1>3 DEF Loops
    <3>8. QED
      BY <1>1, <2>1, <3>6, <3>7
  <2>3. QED
    BY <1>1, <1>6, <2>1, <2>2
<1>8. CASE HearBuilt
  BY <1>1, <1>6, <1>8 DEF HearBuilt
<1>9. attempts' = attempts \/ HearBuilt \/ \E t \in Thread : ExtendRefused(t)
  BY AttemptsEvolve
<1>10. QED
  BY <1>1, <1>5, <1>6, <1>7, <1>8, <1>9

(* The other variables.                                                     *)
LEMMA SetChannelTyped ==
  ASSUME cstate \in CState, NEW s \in Channel, SetChannel(s)
  PROVE  cstate' \in CState
BY DEF SetChannel, CState

LEMMA OwnNext ==
  ASSUME StepsInv, Next
  PROVE  /\ cstate' \in CState /\ circ' \in Circ
         /\ built' \in BOOLEAN /\ dirInfo' \in BOOLEAN /\ dir' \in BOOLEAN
         /\ orders' \in 0 .. MaxCli /\ misled' \in BOOLEAN /\ subscribed' \subseteq Kind
<1> DEFINE Goal == /\ cstate' \in CState /\ circ' \in Circ
                   /\ built' \in BOOLEAN /\ dirInfo' \in BOOLEAN /\ dir' \in BOOLEAN
                   /\ orders' \in 0 .. MaxCli /\ misled' \in BOOLEAN /\ subscribed' \subseteq Kind
<1>1. /\ cstate \in CState /\ circ \in Circ
      /\ built \in BOOLEAN /\ dirInfo \in BOOLEAN /\ dir \in BOOLEAN
      /\ orders \in 0 .. MaxCli /\ misled \in BOOLEAN /\ subscribed \subseteq Kind
      /\ MaxCli \in Nat
  BY ClientAssumption DEF StepsInv, TypeOK
<1>2. /\ \A t \in Thread : todo[t] \in Seq(Step)
      /\ evt \in Seq(Event) /\ Thread = {"proxy", "event", "cli"}
  BY DEF StepsInv, TypeOK, Thread
<1>3. /\ NoCircuit \in Circ /\ ChangeCircuit \in Circ /\ WaitingDirInfo \in Circ
      /\ CircId \subseteq Circ /\ Channel \subseteq CState
      /\ {"UNDEF", "HELLO", "CONNECTED", "ACTIVE", "WAIT", "CHANGING", "INACTIVE", "SHUT"} = Channel
      /\ "GONE" \in CState
  BY DEF Circ, CState, Channel
<1>4. \A t \in Thread : todo[t] # <<>> => Head(todo[t]) \in Step
  BY <1>2, TailOf
<1>5. ASSUME NEW t \in Thread, Shared(t)
      PROVE  Goal
  <2>1. CASE Signal(t) \/ Create(t) \/ Extended(t)
    BY <1>1, <2>1 DEF Signal, Create, Extended, own, ghost, tor
  <2>2. CASE SetState(t)
    <3>1. Head(todo[t]).state \in Channel
      BY <1>4, <2>2, StepFields DEF SetState, At
    <3>2. cstate' \in CState
      BY <1>1, <2>2, <3>1, SetChannelTyped DEF SetState
    <3>3. QED
      BY <1>1, <2>2, <3>2 DEF SetState, ghost, tor
  <2>3. CASE Postpone(t) \/ ExtendRefused(t)
    BY <1>1, <1>3, <2>3 DEF Postpone, ExtendRefused, tor, ghost
  <2>4. CASE StoreCircuit(t)
    <3>1. Head(todo[t]).circ \in CircId
      BY <1>4, <2>4, StepFields DEF StoreCircuit, Stored, At
    <3>2. misled' \in BOOLEAN
      BY <1>1, <2>4 DEF StoreCircuit, Stored
    <3>3. QED
      BY <1>1, <1>3, <2>4, <3>1, <3>2 DEF StoreCircuit, Stored, tor
  <2>5. QED
    BY <1>5, <2>1, <2>2, <2>3, <2>4 DEF Shared
<1>6. ASSUME Proxy
      PROVE  Goal
  BY <1>1, <1>3, <1>6 DEF Proxy, NewConnection, Terminated, RecvHelloOk, RecvActive, RecvWait,
       RecvChange, RecvInactive, RecvShut, RecvShutOk, Stop, Drop, ghost, tor
<1>7. ASSUME Events
      PROVE  Goal
  <2>1. CASE \/ EvStreamWait \/ EvBuilt \/ EvFailed \/ EvClosed
             \/ EvStreamClosed \/ EvDetached \/ EvDetachedOther \/ EvDirInfo
    BY <1>1, <2>1 DEF EvStreamWait, EvBuilt, EvFailed, EvClosed, EvStreamClosed, EvDetached,
                      EvDetachedOther, EvDirInfo, TakeCircuit, Take, ghost
  <2>2. CASE HearBuilt \/ DropCircuit
    <3>1. misled' \in BOOLEAN
      BY <1>1, <2>2 DEF HearBuilt, DropCircuit
    <3>2. QED
      BY <1>1, <1>3, <2>2, <3>1 DEF HearBuilt, DropCircuit, Drop, tor
  <2>3. CASE GiveUp
    <3>1. cstate' \in CState
      BY <1>1, <1>3, <2>3, SetChannelTyped DEF GiveUp
    <3>2. QED
      BY <1>1, <2>3, <3>1 DEF GiveUp, ghost, tor
  <2>4. CASE AttachStream \/ CloseCircuit
    BY <1>1, <2>4 DEF AttachStream, CloseCircuit, Tell, own, ghost
  <2>5. QED
    BY <1>7, <2>1, <2>2, <2>3, <2>4 DEF Events
<1>8. ASSUME Cli
      PROVE  Goal
  <2>1. Order
    BY <1>8 DEF Cli, CliCreate, CliSetK, CliShut, CliSetEvents
  <2>2. orders' \in 0 .. MaxCli
    BY <1>1, <2>1 DEF Order
  <2>3. cstate' \in CState
    BY <1>1, <1>3, <1>8, SetChannelTyped DEF Cli, CliCreate, CliSetK, CliShut, CliSetEvents
  <2>4. subscribed' \subseteq Kind
    BY <1>1, <1>8 DEF Cli, CliCreate, CliSetK, CliShut, CliSetEvents, Kind
  <2>5. QED
    BY <1>1, <2>1, <2>2, <2>3, <2>4 DEF Order
<1>9. ASSUME TorReports
      PROVE  Goal
  BY <1>1, <1>9 DEF TorReports, Report, Tell, CircuitBuilt, CircuitFails, CircuitCloses,
                    StreamWaits, StreamDetached, StreamDetachedOther, StreamCloses, EnoughDirInfo,
                    own, ghost
<1>10. QED
  BY <1>5, <1>6, <1>7, <1>8, <1>9 DEF Next

LEMMA PendingNext ==
  ASSUME StepsInv, Next
  PROVE  /\ pending' \subseteq Stream
         /\ ~misled' => \A s \in pending' : stream'[s] # "none"
<1>1. /\ pending \subseteq Stream
      /\ stream \in [Stream -> StreamState] /\ evt \in Seq(Event)
      /\ ~misled => /\ \A s \in pending : stream[s] # "none"
                    /\ Truthful(evt, circuit, stream)
  BY DEF StepsInv, TypeOK, StreamState
<1>1a. ~misled' => ~misled
  BY MisledRemains
<1>2. ASSUME evt # <<>>, Head(evt).type \in {"STREAM_WAIT", "STREAM_DETACHED"}
      PROVE  /\ Head(evt).of \in Stream
             /\ ~misled => stream[Head(evt).of] # "none"
  <2>1. Head(evt) \in Event /\ Head(evt).type \in StreamEvent
    BY <1>1, <1>2, TailOf DEF StreamEvent
  <2>2. ~misled => stream[Head(evt).of] # "none"
    BY <1>1, <1>2, <2>1, TruthfulTail
  <2>3. QED
    BY <2>1, <2>2, EventFields
<1>3. CASE EvStreamWait \/ EvDetached
  <2>1. evt # <<>> /\ Head(evt).type \in {"STREAM_WAIT", "STREAM_DETACHED"} /\ stream' = stream
    BY <1>3 DEF EvStreamWait, EvDetached, Take
  <2>2. pending' \subseteq pending \cup {Head(evt).of}
    BY <1>3 DEF EvStreamWait, EvDetached
  <2>3. QED
    BY <1>1, <1>1a, <1>2, <2>1, <2>2
<1>4. CASE EvStreamClosed
  BY <1>1, <1>1a, <1>4 DEF EvStreamClosed, Take
<1>5. \/ pending' = pending \/ EvStreamWait \/ EvDetached \/ EvStreamClosed
  BY DEF Next, Shared, Signal, SetState, Create, Postpone, Extended, ExtendRefused, StoreCircuit,
         Stored, Proxy, NewConnection, Terminated, RecvHelloOk, RecvActive, RecvWait, RecvChange,
         RecvInactive, RecvShut, RecvShutOk, Stop, Events, EvBuilt, EvFailed, EvClosed,
         EvDetachedOther, EvDirInfo, TakeCircuit, HearBuilt, DropCircuit, GiveUp, AttachStream,
         CloseCircuit, Cli, CliCreate, CliSetK, CliShut, CliSetEvents, Order, TorReports, Report,
         Tell, CircuitBuilt, CircuitFails, CircuitCloses, StreamWaits, StreamDetached,
         StreamDetachedOther, StreamCloses, EnoughDirInfo, own
<1>6. \/ UNCHANGED stream \/ AttachStream
      \/ \E s \in Stream :
           StreamWaits(s) \/ StreamDetached(s) \/ StreamDetachedOther(s) \/ StreamCloses(s)
  BY DEF Next, Shared, Signal, SetState, Create, Postpone, Extended, ExtendRefused, StoreCircuit,
         Stored, Proxy, NewConnection, Terminated, RecvHelloOk, RecvActive, RecvWait, RecvChange,
         RecvInactive, RecvShut, RecvShutOk, Stop, Events, EvStreamWait, EvBuilt, EvFailed,
         EvClosed, EvStreamClosed, EvDetached, EvDetachedOther, EvDirInfo, TakeCircuit, Take,
         HearBuilt, DropCircuit, GiveUp, CloseCircuit, Cli, CliCreate, CliSetK, CliShut,
         CliSetEvents, Order, TorReports, CircuitBuilt, CircuitFails, CircuitCloses,
         EnoughDirInfo, tor
<1>7. \A s \in Stream : stream[s] # "none" => stream'[s] # "none"
  <2>1. CASE UNCHANGED stream
    BY <2>1
  <2>2. CASE AttachStream
    <3>1. \/ stream' = stream
          \/ \E x : stream' = [stream EXCEPT ![x] = "attached"]
      BY <2>2 DEF AttachStream
    <3>2. QED
      BY <1>1, <3>1
  <2>3. CASE \E s \in Stream :
               StreamWaits(s) \/ StreamDetached(s) \/ StreamDetachedOther(s) \/ StreamCloses(s)
    BY <1>1, <2>3 DEF StreamWaits, StreamDetached, StreamDetachedOther, StreamCloses
  <2>4. QED
    BY <1>6, <2>1, <2>2, <2>3
<1>8. CASE pending' = pending
  BY <1>1, <1>1a, <1>7, <1>8
<1>9. QED
  BY <1>3, <1>4, <1>5, <1>8

LEMMA StepsNext ==
  ASSUME StepsInv, [Next]_clientVars
  PROVE  StepsInv'
<1>1. CASE Next
  <2>1. /\ todo' \in [Thread -> Seq(Step)] /\ \A t \in Thread : Ordered(todo'[t])
    BY <1>1, TodoNext DEF TodoInv
  <2>2. /\ circuit' \in [CircId -> CircuitState] /\ stream' \in [Stream -> StreamState]
        /\ evt' \in Seq(Event)
    BY <1>1, TorTyped
  <2>3. attempts' \in Nat /\ attempts' + Loops' <= CircRetryAtmps + 3
    BY <1>1, AttemptsNext
  <2>4. Loops' \in Nat
    <3>1. \A t \in Thread : InExtend(t)' \in Nat
      BY DEF InExtend
    <3>2. QED
      BY <3>1 DEF Loops, Thread
  <2>5. attempts' \in 0 .. CircRetryAtmps + Cardinality(Thread)
    <3>1. CircRetryAtmps \in Nat
      BY ClientAssumption
    <3>2. attempts' \in 0 .. CircRetryAtmps + 3
      <4>1. \A a, l, n \in Nat : a + l <= n + 3 => a \in 0 .. n + 3
        OBVIOUS
      <4>2. QED
        BY <2>3, <2>4, <3>1, <4>1
    <3>3. QED
      BY <3>2, ThreeThreads
  <2>6. /\ cstate' \in CState /\ circ' \in Circ
        /\ built' \in BOOLEAN /\ dirInfo' \in BOOLEAN /\ dir' \in BOOLEAN
        /\ orders' \in 0 .. MaxCli /\ misled' \in BOOLEAN /\ subscribed' \subseteq Kind
    BY <1>1, OwnNext
  <2>7. /\ pending' \subseteq Stream
        /\ ~misled' => \A s \in pending' : stream'[s] # "none"
    BY <1>1, PendingNext
  <2>7a. ~misled' => Truthful(evt', circuit', stream')
    BY <1>1, TorNext DEF TorInv
  <2>8. TypeOK'
    BY <2>1, <2>2, <2>5, <2>6, <2>7 DEF TypeOK, CircuitState, StreamState
  <2>9. attempts' + Loops' <= CircRetryAtmps + Cardinality(Thread)
    BY <2>3, ThreeThreads
  <2>10. QED
    BY <2>1, <2>7, <2>7a, <2>8, <2>9 DEF StepsInv
<1>2. CASE UNCHANGED clientVars
  BY <1>2 DEF clientVars, own, ghost, tor, StepsInv, TypeOK, Loops, InExtend, At
<1>3. QED
  BY <1>1, <1>2

-----------------------------------------------------------------------------
(* How the variables the other parts are about evolve.                      *)
LEMMA EventThreadSteps ==
  ASSUME StepsInv, Next
  PROVE  \/ todo'["event"] = todo["event"] /\ ~Events /\ ~Shared("event")
         \/ Events
         \/ Shared("event")
<1>1. todo \in [Thread -> Seq(Step)] /\ Thread = {"proxy", "event", "cli"}
  BY DEF StepsInv, TypeOK, Thread
<1>2. ASSUME NEW t \in Thread, t # "event", Shared(t)
      PROVE  todo'["event"] = todo["event"]
  BY <1>1, <1>2 DEF Shared, Signal, SetState, Create, Postpone, Extended, ExtendRefused,
                    StoreCircuit, Stored, Continue, Begin
<1>3. Proxy => todo'["event"] = todo["event"]
  BY <1>1 DEF Proxy, NewConnection, Terminated, RecvHelloOk, RecvActive, RecvWait, RecvChange,
              RecvInactive, RecvShut, RecvShutOk, Stop, Begin
<1>4. Cli => todo'["event"] = todo["event"]
  BY <1>1 DEF Cli, CliCreate, CliSetK, CliShut, CliSetEvents, Begin
<1>5. TorReports => todo'["event"] = todo["event"]
  BY DEF TorReports, Report, Tell, CircuitBuilt, CircuitFails, CircuitCloses, StreamWaits,
         StreamDetached, StreamDetachedOther, StreamCloses, EnoughDirInfo
<1>6. QED
  BY <1>2, <1>3, <1>4, <1>5 DEF Next

(* While a handler runs on the event thread only its own step changes what  *)
(* is left of it.                                                           *)
LEMMA EventThreadWaits ==
  ASSUME StepsInv, Next
  PROVE  /\ At("event", "drop") => DropCircuit \/ todo'["event"] = todo["event"]
         /\ At("event", "hear") => HearBuilt \/ todo'["event"] = todo["event"]
         /\ At("event", "close") => CloseCircuit \/ todo'["event"] = todo["event"]
         /\ At("event", "attach") => AttachStream \/ todo'["event"] = todo["event"]
         /\ At("event", "create") => Create("event") \/ todo'["event"] = todo["event"]
         /\ At("event", "extend") =>
              \/ Extended("event") \/ ExtendRefused("event")
              \/ todo'["event"] = todo["event"]
         /\ At("event", "store") => StoreCircuit("event") \/ todo'["event"] = todo["event"]
<1>1. CASE Shared("event")
  BY <1>1 DEF Shared, Signal, SetState, Create, Postpone, Extended, ExtendRefused, StoreCircuit,
              Stored, At
<1>2. CASE Events
  BY <1>2 DEF Events, EvStreamWait, EvBuilt, EvFailed, EvClosed, EvStreamClosed, EvDetached,
              EvDetachedOther, EvDirInfo, TakeCircuit, Take, Idle, HearBuilt, DropCircuit, GiveUp,
              AttachStream, CloseCircuit, At
<1>3. QED
  BY <1>1, <1>2, EventThreadSteps

LEMMA EvtEvolves ==
  ASSUME StepsInv, Next
  PROVE  \/ evt' = evt
         \/ /\ todo["event"] = <<>> /\ evt # <<>> /\ evt' = Tail(evt)
            /\ \/ EvStreamWait \/ EvBuilt \/ EvFailed \/ EvClosed
               \/ EvStreamClosed \/ EvDetached \/ EvDetachedOther \/ EvDirInfo
            /\ Head(evt).type = "BUILT" => EvBuilt
            /\ Head(evt).type = "FAILED" => EvFailed
            /\ Head(evt).type = "CLOSED" => EvClosed
            /\ Head(evt).type = "STREAM_DETACHED" => EvDetached
         \/ \E e \in Event : evt' = Append(evt, e)
<1>1. ASSUME NEW t \in Thread, Shared(t)
      PROVE  evt' = evt
  BY <1>1 DEF Shared, Signal, SetState, Create, Postpone, Extended, ExtendRefused, StoreCircuit,
              Stored, tor
<1>2. Proxy => evt' = evt
  BY DEF Proxy, NewConnection, Terminated, RecvHelloOk, RecvActive, RecvWait, RecvChange,
         RecvInactive, RecvShut, RecvShutOk, Stop, tor
<1>3. Cli => evt' = evt
  BY DEF Cli, CliCreate, CliSetK, CliShut, CliSetEvents, Order, tor
<1>4. HearBuilt \/ DropCircuit \/ GiveUp \/ AttachStream => evt' = evt
  BY DEF HearBuilt, DropCircuit, GiveUp, AttachStream, tor
<1>5. CloseCircuit => evt' = evt \/ \E e \in Event : evt' = Append(evt, e)
  BY AnEvent DEF CloseCircuit, Tell, CircuitEvent
<1>6. TorReports => evt' = evt \/ \E e \in Event : evt' = Append(evt, e)
  BY AnEvent DEF TorReports, Report, Tell, CircuitBuilt, CircuitFails, CircuitCloses, StreamWaits,
                 StreamDetached, StreamDetachedOther, StreamCloses, EnoughDirInfo
<1>7. CASE \/ EvStreamWait \/ EvBuilt \/ EvFailed \/ EvClosed
           \/ EvStreamClosed \/ EvDetached \/ EvDetachedOther \/ EvDirInfo
  BY <1>7 DEF EvStreamWait, EvBuilt, EvFailed, EvClosed, EvStreamClosed, EvDetached,
              EvDetachedOther, EvDirInfo, TakeCircuit, Take, Idle
<1>8. QED
  BY <1>1, <1>2, <1>3, <1>4, <1>5, <1>6, <1>7 DEF Next, Events

LEMMA SaysEvolves ==
  ASSUME StepsInv, Next, NEW type, NEW of, Says(evt, type, of)
  PROVE  \/ Says(evt', type, of)
         \/ /\ todo["event"] = <<>> /\ evt # <<>>
            /\ Head(evt).type = type /\ Head(evt).of = of
            /\ type = "BUILT" => EvBuilt
            /\ type = "FAILED" => EvFailed
            /\ type = "CLOSED" => EvClosed
            /\ type = "STREAM_DETACHED" => EvDetached
<1>1. evt \in Seq(Event)
  BY DEF StepsInv, TypeOK
<1>2. CASE evt' = evt
  BY <1>2
<1>3. CASE \E e \in Event : evt' = Append(evt, e)
  BY <1>1, <1>3, SaysAppend
<1>4. ASSUME evt # <<>>, evt' = Tail(evt), ~(Head(evt).type = type /\ Head(evt).of = of)
      PROVE  Says(evt', type, of)
  BY <1>1, <1>4, SaysTail
<1>5. QED
  BY <1>2, <1>3, <1>4, EvtEvolves

LEMMA CircuitEvolves ==
  ASSUME StepsInv, Next, ~misled', NEW id \in CircId
  PROVE  \/ circuit'[id] = circuit[id]
         \/ /\ circuit[id] = "none" /\ circuit'[id] = "building"
            /\ \E t \in Thread : At(t, "extend")
         \/ circuit[id] = "building" /\ circuit'[id] = "built" /\ Says(evt', "BUILT", id)
         \/ circuit[id] = "building" /\ circuit'[id] = "failed" /\ Says(evt', "FAILED", id)
         \/ /\ circuit[id] \in {"building", "built"} /\ circuit'[id] = "closed"
            /\ Says(evt', "CLOSED", id)
<1>1. circuit \in [CircId -> CircuitState] /\ evt \in Seq(Event)
  BY DEF StepsInv, TypeOK, CircuitState
<1>2. CASE UNCHANGED circuit
  BY <1>2
<1>3. CASE \E t \in Thread : Extended(t)
  <2>1. PICK t \in Thread : Extended(t)
    BY <1>3
  <2>2. PICK x \in CircId : circuit[x] = "none" /\ circuit' = [circuit EXCEPT ![x] = "building"]
    BY <2>1 DEF Extended
  <2>3. At(t, "extend")
    BY <2>1 DEF Extended
  <2>4. QED
    BY <1>1, <2>2, <2>3
<1>4. ASSUME NEW x \in CircId, NEW type \in CircuitEvent, NEW s,
             circuit' = [circuit EXCEPT ![x] = s], evt' = Append(evt, [type |-> type, of |-> x])
      PROVE  Says(evt', type, x) /\ circuit'[x] = s /\ (x # id => circuit'[id] = circuit[id])
  <2>1. [type |-> type, of |-> x] \in Event
    BY AnEvent
  <2>2. Says(evt', type, x)
    BY <1>1, <1>4, <2>1, SaysAppend
  <2>3. QED
    BY <1>1, <1>4, <2>2
<1>5. CASE CloseCircuit
  <2>1. \/ UNCHANGED circuit
        \/ /\ circ \in CircId /\ circuit[circ] \in {"building", "built"}
           /\ circuit' = [circuit EXCEPT ![circ] = "closed"]
           /\ evt' = Append(evt, [type |-> "CLOSED", of |-> circ])
    BY <1>5 DEF CloseCircuit, Tell
  <2>2. QED
    BY <1>2, <1>4, <2>1 DEF CircuitEvent
<1>6. ASSUME NEW x \in CircId, CircuitBuilt(x) \/ CircuitFails(x) \/ CircuitCloses(x)
      PROVE  \/ circuit'[id] = circuit[id]
             \/ circuit[id] = "building" /\ circuit'[id] = "built" /\ Says(evt', "BUILT", id)
             \/ circuit[id] = "building" /\ circuit'[id] = "failed" /\ Says(evt', "FAILED", id)
             \/ /\ circuit[id] \in {"building", "built"} /\ circuit'[id] = "closed"
                /\ Says(evt', "CLOSED", id)
  BY <1>4, <1>6 DEF CircuitBuilt, CircuitFails, CircuitCloses, Report, Tell
<1>7. \/ UNCHANGED circuit \/ CloseCircuit
      \/ \E t \in Thread : Extended(t)
      \/ \E x \in CircId : CircuitBuilt(x) \/ CircuitFails(x) \/ CircuitCloses(x)
  BY DEF Next, Shared, Signal, SetState, Create, Postpone, ExtendRefused, StoreCircuit, Stored,
         Proxy, NewConnection, Terminated, RecvHelloOk, RecvActive, RecvWait, RecvChange,
         RecvInactive, RecvShut, RecvShutOk, Stop, Events, EvStreamWait, EvBuilt, EvFailed,
         EvClosed, EvStreamClosed, EvDetached, EvDetachedOther, EvDirInfo, TakeCircuit, Take,
         HearBuilt, DropCircuit, GiveUp, AttachStream, Cli, CliCreate, CliSetK, CliShut,
         CliSetEvents, Order, TorReports, StreamWaits, StreamDetached, StreamDetachedOther,
         StreamCloses, EnoughDirInfo, tor
<1>8. QED
  BY <1>2, <1>3, <1>5, <1>6, <1>7

LEMMA StreamEvolves ==
  ASSUME StepsInv, Next, ~misled', NEW s \in Stream, stream'[s] = "waiting"
  PROVE  \/ stream[s] = "waiting"
         \/ stream[s] = "none"
         \/ stream[s] = "attached" /\ Says(evt', "STREAM_DETACHED", s)
<1>1. stream \in [Stream -> StreamState] /\ evt \in Seq(Event)
  BY DEF StepsInv, TypeOK, StreamState
<1>2. CASE AttachStream
  <2>1. \/ stream' = stream
        \/ \E x : stream' = [stream EXCEPT ![x] = "attached"]
    BY <1>2 DEF AttachStream
  <2>2. QED
    BY <1>1, <2>1
<1>3. ASSUME NEW x \in Stream, StreamDetached(x)
      PROVE  \/ stream[s] = "waiting"
             \/ stream[s] = "attached" /\ Says(evt', "STREAM_DETACHED", s)
  <2>1. /\ stream[x] = "attached" /\ stream' = [stream EXCEPT ![x] = "waiting"]
        /\ evt' = Append(evt, [type |-> "STREAM_DETACHED", of |-> x])
    BY <1>3 DEF StreamDetached, StreamDetachedOther, Report, Tell
  <2>2. [type |-> "STREAM_DETACHED", of |-> x] \in Event
    BY AnEvent
  <2>3. Says(evt', "STREAM_DETACHED", x)
    BY <1>1, <2>1, <2>2, SaysAppend
  <2>4. QED
    BY <1>1, <2>1, <2>3
<1>4. ASSUME NEW x \in Stream, StreamWaits(x) \/ StreamDetachedOther(x) \/ StreamCloses(x)
      PROVE  stream[s] = "waiting" \/ stream[s] = "none"
  BY <1>1, <1>4 DEF StreamWaits, StreamDetachedOther, StreamCloses
<1>5. \/ UNCHANGED stream \/ AttachStream
      \/ \E x \in Stream :
           StreamWaits(x) \/ StreamDetached(x) \/ StreamDetachedOther(x) \/ StreamCloses(x)
  BY DEF Next, Shared, Signal, SetState, Create, Postpone, Extended, ExtendRefused, StoreCircuit,
         Stored, Proxy, NewConnection, Terminated, RecvHelloOk, RecvActive, RecvWait, RecvChange,
         RecvInactive, RecvShut, RecvShutOk, Stop, Events, EvStreamWait, EvBuilt, EvFailed,
         EvClosed, EvStreamClosed, EvDetached, EvDetachedOther, EvDirInfo, TakeCircuit, Take,
         HearBuilt, DropCircuit, GiveUp, CloseCircuit, Cli, CliCreate, CliSetK, CliShut,
         CliSetEvents, Order, TorReports, CircuitBuilt, CircuitFails, CircuitCloses,
         EnoughDirInfo, tor
<1>6. QED
  BY <1>2, <1>3, <1>4, <1>5

LEMMA OwnEvolves ==
  ASSUME Next
  PROVE  /\ misled => misled'
         /\ \/ UNCHANGED <<circ, built>>
            \/ built' = FALSE /\ circ' \in {NoCircuit, ChangeCircuit}
            \/ HearBuilt
            \/ \E t \in Thread : Postpone(t) \/ StoreCircuit(t)
<1>1. misled => misled'
  BY MisledRemains
<1>2. \/ UNCHANGED <<circ, built>>
      \/ built' = FALSE /\ circ' \in {NoCircuit, ChangeCircuit}
      \/ HearBuilt
      \/ \E t \in Thread : Postpone(t) \/ StoreCircuit(t)
  BY DEF Next, Shared, Signal, SetState, Create, Extended, ExtendRefused, Proxy, NewConnection,
         Terminated, RecvHelloOk, RecvActive, RecvWait, RecvChange, RecvInactive, RecvShut,
         RecvShutOk, Stop, Drop, Events, EvStreamWait, EvBuilt, EvFailed, EvClosed,
         EvStreamClosed, EvDetached, EvDetachedOther, EvDirInfo, TakeCircuit, Take, DropCircuit,
         GiveUp, AttachStream, CloseCircuit, Cli, CliCreate, CliSetK, CliShut, CliSetEvents,
         Order, TorReports, Report, Tell, CircuitBuilt, CircuitFails, CircuitCloses, StreamWaits,
         StreamDetached, StreamDetachedOther, StreamCloses, EnoughDirInfo, own
<1>3. QED
  BY <1>1, <1>2

LEMMA DirInfoEvolves ==
  ASSUME Next
  PROVE  dirInfo' = dirInfo \/ EvDirInfo
BY DEF Next, Shared, Signal, SetState, Create, Postpone, Extended, ExtendRefused, StoreCircuit,
       Stored, Proxy, NewConnection, Terminated, RecvHelloOk, RecvActive, RecvWait, RecvChange,
       RecvInactive, RecvShut, RecvShutOk, Stop, Events, EvStreamWait, EvBuilt, EvFailed,
       EvClosed, EvStreamClosed, EvDetached, EvDetachedOther, TakeCircuit, Take, HearBuilt,
       DropCircuit, GiveUp, AttachStream, CloseCircuit, Cli, CliCreate, CliSetK, CliShut,
       CliSetEvents, Order, TorReports, Report, Tell, CircuitBuilt, CircuitFails, CircuitCloses,
       StreamWaits, StreamDetached, StreamDetachedOther, StreamCloses, EnoughDirInfo, own

-----------------------------------------------------------------------------
(* The parts of the invariant that say what the client knows.               *)
LEMMA EventStep ==
  ASSUME StepsInv, todo["event"] # <<>>
  PROVE  /\ Head(todo["event"]) \in Step
         /\ At("event", "hear") \/ At("event", "drop") => Head(todo["event"]).circ \in CircId
         /\ At("event", "attach") =>
              /\ Head(todo["event"]).stream \in Stream
              /\ Head(todo["event"]).rest \subseteq Stream
<1>1. todo["event"] \in Seq(Step)
  BY DEF StepsInv, TypeOK, Thread
<1>2. Head(todo["event"]) \in Step
  BY <1>1, TailOf
<1>3. QED
  BY <1>2, StepFields DEF At

LEMMA DirNext ==
  ASSUME StepsInv, HearInv, DirInv, Next, ~misled'
  PROVE  DirInv'
<1>1. SUFFICES ASSUME ~dirInfo'
               PROVE  /\ ~built' /\ attempts' = 0
                      /\ \A id \in CircId : circuit'[id] = "none"
                      /\ \A t \in Thread : ~At(t, "extend")' /\ ~At(t, "store")'
  BY DEF DirInv
<1>2. ~dirInfo
  BY <1>1, DirInfoEvolves DEF EvDirInfo
<1>3. /\ ~built /\ attempts = 0
      /\ \A id \in CircId : circuit[id] = "none"
      /\ \A t \in Thread : ~At(t, "extend") /\ ~At(t, "store")
  BY <1>2 DEF DirInv
<1>4. ~At("event", "hear")
  BY <1>3, EventStep DEF HearInv, At
<1>5. ~HearBuilt
  BY <1>4 DEF HearBuilt
<1>6. \A t \in Thread : ~ExtendRefused(t) /\ ~StoreCircuit(t)
  BY <1>3 DEF ExtendRefused, StoreCircuit, Stored
<1>7. attempts' = 0
  BY <1>3, <1>5, <1>6, AttemptsEvolve
<1>8. ~built'
  BY <1>3, <1>5, <1>6, OwnEvolves DEF Postpone
<1>9. \A id \in CircId : circuit'[id] = "none"
  BY <1>3, CircuitEvolves
<1>10. ASSUME NEW t \in Thread
       PROVE  ~At(t, "extend")' /\ ~At(t, "store")'
  <2>1. Moved(t)
    BY TodoNext
  <2>2. QED
    BY <1>2, <1>3, <2>1 DEF Moved, Arrived, At, Later
<1>11. QED
  BY <1>7, <1>8, <1>9, <1>10

(* What the event thread makes of an event about the circuit it has.        *)
LEMMA EventAboutCircuit ==
  ASSUME StepsInv, EvBuilt \/ EvFailed \/ EvClosed,
         todo'["event"] # <<>>
  PROVE  /\ evt # <<>> /\ evt' = Tail(evt) /\ UNCHANGED <<circ, circuit>>
         /\ circ = Head(evt).of /\ circ \in CircId
         /\ Head(todo'["event"]).circ = circ
         /\ EvBuilt => Head(todo'["event"]).do = "hear" /\ Head(evt).type = "BUILT"
         /\ EvFailed => /\ Head(todo'["event"]).do = "drop" /\ Head(evt).type = "FAILED"
                        /\ Opens(todo'["event"])
         /\ EvClosed => Head(todo'["event"]).do = "drop" /\ Head(evt).type = "CLOSED"
<1>1. todo \in [Thread -> Seq(Step)] /\ "event" \in Thread /\ evt \in Seq(Event)
  BY DEF StepsInv, TypeOK, Thread
<1>2. evt # <<>> /\ evt' = Tail(evt) /\ UNCHANGED <<circ, circuit>>
  BY DEF EvBuilt, EvFailed, EvClosed, TakeCircuit, Take
<1>3. Head(evt).type \in CircuitEvent
  BY DEF EvBuilt, EvFailed, EvClosed, TakeCircuit, Take
<1>4. /\ EvBuilt => Head(evt).type = "BUILT"
      /\ EvFailed => Head(evt).type = "FAILED"
      /\ EvClosed => Head(evt).type = "CLOSED"
  BY DEF EvBuilt, EvFailed, EvClosed, TakeCircuit, Take
<1>5. Head(evt) \in Event
  BY <1>1, <1>2, TailOf
<1>6. circ = Head(evt).of
  <2>1. circ # Head(evt).of => Begin("event", <<>>)
    BY DEF EvBuilt, EvFailed, EvClosed, TakeCircuit
  <2>2. QED
    BY <1>1, <2>1 DEF Begin
<1>7. circ \in CircId
  BY <1>3, <1>5, <1>6, EventFields
<1>8. /\ EvBuilt => todo'["event"] = <<About(circ, "hear")>> \o <<>>
      /\ EvFailed => todo'["event"] = <<About(circ, "drop")>> \o <<Do("create"), Do("inactive")>>
      /\ EvClosed => todo'["event"] = <<About(circ, "drop")>> \o <<>>
  BY <1>1, <1>6 DEF EvBuilt, EvFailed, EvClosed, TakeCircuit, Begin
<1>9. \A what \in {"hear", "drop"} :
        /\ About(circ, what) \in Step
        /\ About(circ, what).do = what /\ About(circ, what).circ = circ
        /\ Head(<<About(circ, what)>> \o <<>>) = About(circ, what)
  <2>1. \A x \in Step : Head(<<x>> \o <<>>) = x
    OBVIOUS
  <2>2. QED
    BY <1>7, <2>1, Steps
<1>10. EvFailed => /\ Head(todo'["event"]) = About(circ, "drop")
                   /\ Opens(todo'["event"])
  BY <1>8, <1>9, DropAndCreate
<1>11. QED
  BY <1>2, <1>4, <1>6, <1>7, <1>8, <1>9, <1>10

LEMMA HearNext ==
  ASSUME StepsInv, HearInv, Next, ~misled'
  PROVE  HearInv'
<1>1. Moved("event") /\ Truthful(evt, circuit, stream) /\ evt \in Seq(Event)
  BY TodoNext, MisledRemains DEF Thread, StepsInv, TypeOK
<1>2. ASSUME At("event", "hear")', NEW id, id = Head(todo'["event"]).circ
      PROVE  circuit'[id] = "built" \/ (circuit'[id] = "closed" /\ Says(evt', "CLOSED", id))
  <2>1. CASE todo'["event"] = todo["event"]
    <3>1. At("event", "hear") /\ id = Head(todo["event"]).circ /\ todo["event"] # <<>>
      BY <1>2, <2>1 DEF At
    <3>2. id \in CircId
      BY <3>1, EventStep
    <3>3. circuit[id] = "built" \/ (circuit[id] = "closed" /\ Says(evt, "CLOSED", id))
      BY <3>1 DEF HearInv
    <3>4. Says(evt, "CLOSED", id) => Says(evt', "CLOSED", id)
      BY <3>1, SaysEvolves
    <3>5. QED
      BY <3>2, <3>3, <3>4, CircuitEvolves
  <2>2. CASE EvBuilt
    <3>1. /\ evt # <<>> /\ evt' = Tail(evt) /\ circuit' = circuit
          /\ id = Head(evt).of /\ Head(evt).type = "BUILT"
      BY <1>2, <2>2, EventAboutCircuit DEF At
    <3>2. QED
      BY <1>1, <3>1, TruthfulTail
  <2>3. QED
    BY <1>1, <1>2, <2>1, <2>2 DEF Moved, Arrived, At, Later
<1>3. ASSUME At("event", "drop")', NEW id, id = Head(todo'["event"]).circ
      PROVE  circuit'[id] = "closed" \/ (circuit'[id] = "failed" /\ Opens(todo'["event"]))
  <2>1. CASE todo'["event"] = todo["event"]
    <3>1. At("event", "drop") /\ id = Head(todo["event"]).circ /\ todo["event"] # <<>>
      BY <1>3, <2>1 DEF At
    <3>2. id \in CircId
      BY <3>1, EventStep
    <3>3. circuit[id] = "closed" \/ (circuit[id] = "failed" /\ Opens(todo["event"]))
      BY <3>1 DEF HearInv
    <3>4. QED
      BY <2>1, <3>2, <3>3, CircuitEvolves
  <2>2. CASE EvFailed \/ EvClosed
    <3>1. /\ evt # <<>> /\ evt' = Tail(evt) /\ circuit' = circuit
          /\ id = Head(evt).of
          /\ (EvFailed /\ Head(evt).type = "FAILED" /\ Opens(todo'["event"]))
               \/ (EvClosed /\ Head(evt).type = "CLOSED")
      BY <1>3, <2>2, EventAboutCircuit DEF At
    <3>2. QED
      BY <1>1, <3>1, TruthfulTail
  <2>3. QED
    BY <1>1, <1>3, <2>1, <2>2 DEF Moved, Arrived, At, Later
<1>4. QED
  BY <1>2, <1>3 DEF HearInv

(* Streams are attached one after the other, to the circuit of the moment.  *)
LEMMA AttachArrives ==
  ASSUME StepsInv, NEW streams \in SUBSET Stream, todo["event"] # <<>>,
         \/ streams = {} /\ Continue("event", <<>>)
         \/ \E s \in streams : Continue("event", <<Attach(s, circ, streams \ {s})>>)
  PROVE  /\ At("event", "attach")' => Head(todo'["event"]).circ = circ
         /\ \A s \in streams :
              At("event", "attach")' /\ s \in ToAttach(Head(todo'["event"]))
<1>1. TodoInv /\ "event" \in Thread /\ circ \in Circ
  BY DEF StepsInv, TypeOK, TodoInv, Thread
<1>2. CASE streams = {} /\ Continue("event", <<>>)
  <2>1. todo'["event"] # <<>> => Head(todo'["event"]).do \in Later
    BY <1>1, <1>2, ContinueDone
  <2>2. QED
    BY <1>2, <2>1 DEF At, Later
<1>3. ASSUME NEW s \in streams, Continue("event", <<Attach(s, circ, streams \ {s})>>)
      PROVE  /\ At("event", "attach")' /\ Head(todo'["event"]).circ = circ
             /\ ToAttach(Head(todo'["event"])) = streams
  <2> DEFINE x == Attach(s, circ, streams \ {s})
  <2>1. /\ x \in Step /\ x.do = "attach" /\ x.circ = circ
        /\ ToAttach(x) = {s} \cup (streams \ {s})
    BY <1>1, Steps
  <2>2. todo'["event"] # <<>> /\ Head(todo'["event"]) = x
    <3>1. x.do # "set"
      BY <2>1
    <3>2. Continue("event", <<x>>)
      BY <1>3
    <3> HIDE DEF x
    <3>3. QED
      BY <1>1, <2>1, <3>1, <3>2, ContinueWith
  <2>3. QED
    BY <2>1, <2>2 DEF At
<1>4. QED
  BY <1>2, <1>3

LEMMA BuiltNext ==
  ASSUME StepsInv, DirInv, HearInv, BuiltInv, Next, ~misled'
  PROVE  BuiltInv'
<1>1. SUFFICES ASSUME built'
               PROVE  /\ circ' \in CircId
                      /\ \/ circuit'[circ'] = "built"
                         \/ Says(evt', "CLOSED", circ')
                         \/ At("event", "drop")' /\ Head(todo'["event"]).circ = circ'
                      /\ At("event", "attach")' => Head(todo'["event"]).circ = circ'
  BY DEF BuiltInv
<1>2. ~misled
  BY OwnEvolves
<1>3. CASE HearBuilt
  <2>1. /\ At("event", "hear") /\ todo["event"] # <<>>
        /\ circ = Head(todo["event"]).circ
        /\ UNCHANGED <<circ, circuit, evt>>
    BY <1>1, <1>3 DEF HearBuilt, Stale, At, tor
  <2>2. circ \in CircId
    BY <2>1, EventStep
  <2>3. circuit[circ] = "built" \/ Says(evt, "CLOSED", circ)
    BY <2>1 DEF HearInv
  <2>4. \/ pending = {} /\ Continue("event", <<>>)
        \/ \E s \in pending : Continue("event", <<Attach(s, circ, pending \ {s})>>)
    BY <1>3 DEF HearBuilt
  <2>5. pending \in SUBSET Stream
    BY DEF StepsInv, TypeOK
  <2>6. At("event", "attach")' => Head(todo'["event"]).circ = circ
    BY <2>1, <2>4, <2>5, AttachArrives
  <2>7. QED
    BY <2>1, <2>2, <2>3, <2>6
<1>4. CASE UNCHANGED <<circ, built>> /\ ~HearBuilt
  <2>1. built
    BY <1>1, <1>4
  <2>2. /\ circ \in CircId
        /\ \/ circuit[circ] = "built"
           \/ Says(evt, "CLOSED", circ)
           \/ At("event", "drop") /\ Head(todo["event"]).circ = circ
        /\ At("event", "attach") => Head(todo["event"]).circ = circ
    BY <1>2, <2>1 DEF BuiltInv
  <2>3. \/ circuit'[circ'] = "built"
        \/ Says(evt', "CLOSED", circ')
        \/ At("event", "drop")' /\ Head(todo'["event"]).circ = circ'
    <3>1. CASE circuit[circ] = "built"
      BY <1>4, <2>2, <3>1, CircuitEvolves
    <3>2. CASE Says(evt, "CLOSED", circ)
      <4>1. CASE Says(evt', "CLOSED", circ)
        BY <1>4, <4>1
      <4>2. CASE EvClosed /\ Head(evt).of = circ
        <5>1. todo'["event"] = <<About(circ, "drop")>> \o <<>>
          BY <4>2 DEF EvClosed, TakeCircuit, Begin, StepsInv, TypeOK, Thread
        <5>2. \A x \in Step : <<x>> \o <<>> # <<>> /\ Head(<<x>> \o <<>>) = x
          OBVIOUS
        <5>3. /\ About(circ, "drop") \in Step /\ About(circ, "drop").do = "drop"
              /\ About(circ, "drop").circ = circ
          BY <2>2, Steps
        <5>4. QED
          BY <1>4, <5>1, <5>2, <5>3 DEF At
      <4>3. QED
        BY <3>2, <4>1, <4>2, SaysEvolves
    <3>3. CASE At("event", "drop") /\ Head(todo["event"]).circ = circ
      <4>1. ~DropCircuit
        BY <1>1 DEF DropCircuit, Drop
      <4>2. todo'["event"] = todo["event"]
        BY <3>3, <4>1, EventThreadWaits
      <4>3. QED
        BY <1>4, <3>3, <4>2 DEF At
    <3>4. QED
      BY <2>2, <3>1, <3>2, <3>3
  <2>4. ASSUME At("event", "attach")'
        PROVE  Head(todo'["event"]).circ = circ
    <3>1. Moved("event")
      BY TodoNext DEF Thread
    <3>2. \/ todo'["event"] = todo["event"] \/ EvStreamWait \/ AttachStream
      BY <1>4, <2>4, <3>1 DEF Moved, Arrived, At, Later
    <3>3. CASE todo'["event"] = todo["event"]
      BY <2>2, <2>4, <3>3 DEF At
    <3>4. CASE EvStreamWait
      <4>1. evt # <<>> /\ Head(evt).type = "STREAM_WAIT" /\ evt \in Seq(Event)
            /\ todo["event"] = <<>> /\ todo \in [Thread -> Seq(Step)] /\ circ \in Circ
        BY <3>4 DEF EvStreamWait, Take, Idle, StepsInv, TypeOK
      <4>2. Head(evt) \in Event
        BY <4>1, TailOf
      <4>3. Head(evt).of \in Stream
        BY <4>1, <4>2, EventFields
      <4>4. todo'["event"] = <<Attach(Head(evt).of, circ, {})>>
        BY <2>1, <3>4, <4>1 DEF EvStreamWait, Begin, Thread
      <4>5. /\ Attach(Head(evt).of, circ, {}) \in Step
            /\ Attach(Head(evt).of, circ, {}).circ = circ
        BY <4>1, <4>3, Steps
      <4>6. \A x \in Step : Head(<<x>>) = x
        OBVIOUS
      <4>7. QED
        BY <4>4, <4>5, <4>6
    <3>5. CASE AttachStream
      <4>1. At("event", "attach") /\ todo["event"] # <<>>
        BY <3>5 DEF AttachStream, At
      <4>2. Head(todo["event"]).rest \in SUBSET Stream
        BY <4>1, EventStep
      <4>3. LET rest == Head(todo["event"]).rest
            IN \/ rest = {} /\ Continue("event", <<>>)
               \/ \E s \in rest : Continue("event", <<Attach(s, circ, rest \ {s})>>)
        BY <3>5 DEF AttachStream
      <4>4. QED
        BY <2>4, <4>1, <4>2, <4>3, AttachArrives
    <3>6. QED
      BY <3>2, <3>3, <3>4, <3>5
  <2>5. QED
    BY <1>4, <2>2, <2>3, <2>4
<1>5. ASSUME NEW t \in Thread, Postpone(t)
      PROVE  FALSE
  <2>1. ~dirInfo /\ built
    BY <1>1, <1>5 DEF Postpone
  <2>2. QED
    BY <2>1 DEF DirInv
<1>6. ASSUME NEW t \in Thread, StoreCircuit(t)
      PROVE  FALSE
  BY <1>1, <1>6 DEF StoreCircuit
<1>7. QED
  BY <1>1, <1>3, <1>4, <1>5, <1>6, OwnEvolves

LEMMA HeardNext ==
  ASSUME StepsInv, HearInv, HeardInv, Next, ~misled'
  PROVE  HeardInv'
<1>1. SUFFICES ASSUME ~built', circ' \in CircId, circuit'[circ'] = "built"
               PROVE  \/ Says(evt', "BUILT", circ')
                      \/ At("event", "hear")' /\ Head(todo'["event"]).circ = circ'
  BY DEF HeardInv
<1>2. ~misled
  BY OwnEvolves
<1>3. CASE UNCHANGED <<circ, built>>
  <2>1. CASE circuit[circ] = "built"
    <3>1. \/ Says(evt, "BUILT", circ)
          \/ At("event", "hear") /\ Head(todo["event"]).circ = circ
      BY <1>1, <1>2, <1>3, <2>1 DEF HeardInv
    <3>2. CASE Says(evt, "BUILT", circ)
      <4>1. CASE Says(evt', "BUILT", circ)
        BY <1>3, <4>1
      <4>2. CASE EvBuilt /\ Head(evt).of = circ
        <5>1. todo'["event"] = <<About(circ, "hear")>> \o <<>>
          BY <4>2 DEF EvBuilt, TakeCircuit, Begin, StepsInv, TypeOK, Thread
        <5>2. \A x \in Step : <<x>> \o <<>> # <<>> /\ Head(<<x>> \o <<>>) = x
          OBVIOUS
        <5>3. /\ About(circ, "hear") \in Step /\ About(circ, "hear").do = "hear"
              /\ About(circ, "hear").circ = circ
          BY <1>1, <1>3, Steps
        <5>4. QED
          BY <1>3, <5>1, <5>2, <5>3 DEF At
      <4>3. QED
        BY <3>2, <4>1, <4>2, SaysEvolves
    <3>3. CASE At("event", "hear") /\ Head(todo["event"]).circ = circ
      <4>1. ~HearBuilt
        BY <1>1 DEF HearBuilt
      <4>2. todo'["event"] = todo["event"]
        BY <3>3, <4>1, EventThreadWaits
      <4>3. QED
        BY <1>3, <3>3, <4>2 DEF At
    <3>4. QED
      BY <3>1, <3>2, <3>3
  <2>2. CASE circuit[circ] # "built"
    BY <1>1, <1>3, <2>2, CircuitEvolves
  <2>3. QED
    BY <2>1, <2>2
<1>4. ASSUME NEW t \in Thread, StoreCircuit(t)
      PROVE  Says(evt', "BUILT", circ')
  <2>1. UNCHANGED <<circuit, evt>> /\ ~Missed(circ')
    BY <1>1, <1>4 DEF StoreCircuit, Stored, tor
  <2>2. circuit[circ'] = "built"
    BY <1>1, <2>1
  <2>3. PICK i \in 1 .. Len(evt) : evt[i].type \in {"BUILT", "FAILED"} /\ evt[i].of = circ'
    BY <2>1, <2>2 DEF Missed
  <2>4. evt[i].type # "FAILED"
    BY <1>2, <2>2, <2>3 DEF StepsInv, Truthful
  <2>5. QED
    BY <2>1, <2>3, <2>4 DEF Says
<1>5. ~HearBuilt
  BY <1>1 DEF HearBuilt
<1>6. NoCircuit \notin CircId /\ ChangeCircuit \notin CircId /\ WaitingDirInfo \notin CircId
  BY DEF NoCircuit, ChangeCircuit, WaitingDirInfo, CircId
<1>7. \A t \in Thread : ~Postpone(t)
  BY <1>1, <1>6 DEF Postpone
<1>8. QED
  BY <1>1, <1>3, <1>4, <1>5, <1>6, <1>7, OwnEvolves

LEMMA PostponedNext ==
  ASSUME StepsInv, DirInv, PostponedInv, Next, ~misled'
  PROVE  PostponedInv'
<1>1. SUFFICES ASSUME dirInfo', circ' = WaitingDirInfo
               PROVE  /\ attempts' = 0
                      /\ At("event", "create")' \/ At("event", "extend")' \/ At("event", "store")'
  BY DEF PostponedInv
<1>2. ~misled
  BY OwnEvolves
<1>3. /\ WaitingDirInfo \notin CircId
      /\ WaitingDirInfo \notin {NoCircuit, ChangeCircuit}
      /\ NoCircuit # WaitingDirInfo
  BY DEF NoCircuit, ChangeCircuit, WaitingDirInfo, CircId
<1>4. \A t \in Thread : todo[t] \in Seq(Step)
  BY DEF StepsInv, TypeOK
<1>5. \A t \in Thread : ~StoreCircuit(t)
  <2>1. ASSUME NEW t \in Thread, StoreCircuit(t)
        PROVE  FALSE
    <3>1. circ' = Head(todo[t]).circ /\ todo[t] # <<>> /\ Head(todo[t]).do = "store"
      BY <2>1 DEF StoreCircuit, Stored, At
    <3>2. Head(todo[t]).circ \in CircId
      BY <1>4, <3>1, TailOf, StepFields
    <3>3. QED
      BY <1>1, <1>3, <3>1, <3>2
  <2>2. QED
    BY <2>1
<1>6. \A t \in Thread : ~Postpone(t)
  BY <1>1, DirInfoEvolves DEF Postpone
<1>7. ~HearBuilt
  <2>1. ASSUME HearBuilt
        PROVE  FALSE
    <3>1. At("event", "hear") /\ todo["event"] # <<>> /\ circ' = Head(todo["event"]).circ
      BY <1>1, <2>1 DEF HearBuilt, Stale, At
    <3>2. QED
      BY <1>1, <1>3, <3>1, EventStep
  <2>2. QED
    BY <2>1
<1>8. \A t \in Thread : ~ExtendRefused(t)
  BY <1>1, <1>3 DEF ExtendRefused
<1>9. UNCHANGED <<circ, attempts>>
  BY <1>1, <1>3, <1>5, <1>6, <1>7, <1>8, OwnEvolves, AttemptsEvolve
<1>10. CASE ~dirInfo
  <2>1. attempts = 0
    BY <1>10 DEF DirInv
  <2>2. EvDirInfo
    BY <1>1, <1>10, DirInfoEvolves
  <2>3. todo'["event"] = <<Do("create")>>
    BY <1>1, <1>9, <2>2 DEF EvDirInfo, Begin, StepsInv, TypeOK, Thread
  <2>4. Do("create").do = "create" /\ <<Do("create")>> # <<>> /\ Head(<<Do("create")>>) = Do("create")
    BY Steps, OneStep
  <2>5. QED
    BY <1>9, <2>1, <2>3, <2>4 DEF At
<1>11. CASE dirInfo
  <2>1. /\ attempts = 0
        /\ At("event", "create") \/ At("event", "extend") \/ At("event", "store")
    BY <1>1, <1>2, <1>9, <1>11 DEF PostponedInv
  <2>2. CASE todo'["event"] = todo["event"]
    BY <1>9, <2>1, <2>2 DEF At
  <2>3. TodoInv /\ "event" \in Thread
    BY DEF StepsInv, TypeOK, TodoInv, Thread
  <2>4. CASE Create("event")
    <3>1. attempts <= CircRetryAtmps
      BY <2>1, ClientAssumption
    <3>2. Continue("event", <<Do("extend")>>) /\ todo["event"] # <<>>
      BY <1>11, <2>4, <3>1 DEF Create, At
    <3>3. Do("extend") \in Step /\ Do("extend").do = "extend"
      BY Steps
    <3>4. QED
      BY <1>9, <2>1, <2>3, <3>2, <3>3, ContinueWith DEF At
  <2>5. CASE Extended("event")
    <3>1. PICK id \in CircId : Continue("event", <<About(id, "store")>>)
      BY <2>5 DEF Extended
    <3>2. About(id, "store") \in Step /\ About(id, "store").do = "store" /\ todo["event"] # <<>>
      BY <2>5, Steps DEF Extended, At
    <3>3. QED
      BY <1>9, <2>1, <2>3, <3>1, <3>2, ContinueWith DEF At
  <2>6. QED
    BY <1>5, <1>8, <2>1, <2>2, <2>3, <2>4, <2>5, EventThreadWaits
<1>12. QED
  BY <1>10, <1>11

LEMMA StreamsNext ==
  ASSUME StepsInv, DirInv, HearInv, BuiltInv, PendingInv, Next, ~misled'
  PROVE  PendingInv'
<1>1. SUFFICES ASSUME built', circuit'[circ'] = "built",
                      NEW s \in pending', stream'[s] = "waiting"
               PROVE  \/ Says(evt', "STREAM_DETACHED", s)
                      \/ At("event", "close")'
                      \/ At("event", "attach")' /\ s \in ToAttach(Head(todo'["event"]))
  BY DEF PendingInv
<1>2. ~misled /\ TodoInv /\ "event" \in Thread /\ pending \subseteq Stream
  BY OwnEvolves DEF StepsInv, TypeOK, TodoInv, Thread
<1>3. CASE HearBuilt
  <2>1. s \in pending /\ todo["event"] # <<>>
    BY <1>1, <1>3 DEF HearBuilt, At
  <2>2. \/ pending = {} /\ Continue("event", <<>>)
        \/ \E x \in pending : Continue("event", <<Attach(x, circ, pending \ {x})>>)
    BY <1>3 DEF HearBuilt
  <2>3. QED
    BY <1>2, <2>1, <2>2, AttachArrives
<1>4. CASE UNCHANGED <<circ, built>> /\ ~HearBuilt
  <2>1. built /\ circ' = circ
    BY <1>1, <1>4
  <2>2. /\ circ \in CircId
        /\ \/ circuit[circ] = "built"
           \/ Says(evt, "CLOSED", circ)
           \/ At("event", "drop") /\ Head(todo["event"]).circ = circ
        /\ At("event", "attach") => Head(todo["event"]).circ = circ
    BY <1>2, <2>1 DEF BuiltInv
  <2>3. circuit[circ] = "built"
    <3>1. Says(evt, "CLOSED", circ) => circuit[circ] = "closed"
      BY <1>2 DEF StepsInv, Truthful, Says
    <3>2. circuit[circ] # "building"
      BY <2>2, <3>1 DEF HearInv
    <3>3. circuit'[circ] = "built"
      BY <1>1, <2>1
    <3>4. QED
      BY <2>2, <3>2, <3>3, CircuitEvolves
  <2>4. EvDetached => At("event", "close")'
    <3>1. ASSUME EvDetached
          PROVE  todo'["event"] = <<Do("close"), Do("create")>>
      BY <1>2, <3>1 DEF EvDetached, Begin, TodoInv
    <3>2. Do("close") \in Step /\ Do("create") \in Step /\ Do("close").do = "close"
      BY Steps
    <3>3. \A x, y \in Step : <<x, y>> # <<>> /\ Head(<<x, y>>) = x
      OBVIOUS
    <3>4. QED
      BY <3>1, <3>2, <3>3 DEF At
  <2>5. CASE s \notin pending
    <3>1. EvDetached
      BY <1>1, <2>1, <2>5
         DEF Next, Shared, Signal, SetState, Create, Postpone, Extended, ExtendRefused,
             StoreCircuit, Stored, Proxy, NewConnection, Terminated, RecvHelloOk, RecvActive,
             RecvWait, RecvChange, RecvInactive, RecvShut, RecvShutOk, Stop, Events, EvStreamWait,
             EvBuilt, EvFailed, EvClosed, EvStreamClosed, EvDetachedOther, EvDirInfo, TakeCircuit,
             HearBuilt, DropCircuit, GiveUp, AttachStream, CloseCircuit, Cli, CliCreate, CliSetK,
             CliShut, CliSetEvents, Order, TorReports, Report, Tell, CircuitBuilt, CircuitFails,
             CircuitCloses, StreamWaits, StreamDetached, StreamDetachedOther, StreamCloses,
             EnoughDirInfo, own
    <3>2. QED
      BY <2>4, <3>1
  <2>6. CASE s \in pending
    <3>1. s \in Stream /\ stream[s] # "none"
      BY <1>2, <2>6 DEF StepsInv
    <3>2. CASE stream[s] # "waiting"
      BY <1>1, <3>1, <3>2, StreamEvolves
    <3>3. CASE stream[s] = "waiting"
      <4>1. \/ Says(evt, "STREAM_DETACHED", s)
            \/ At("event", "close")
            \/ At("event", "attach") /\ s \in ToAttach(Head(todo["event"]))
        BY <1>2, <2>1, <2>3, <2>6, <3>3 DEF PendingInv
      <4>2. CASE Says(evt, "STREAM_DETACHED", s)
        BY <2>4, <4>2, SaysEvolves
      <4>3. CASE At("event", "close")
        <5>1. ~CloseCircuit
          <6>1. CloseCircuit => circuit' = [circuit EXCEPT ![circ] = "closed"]
            BY <2>2, <2>3 DEF CloseCircuit
          <6>2. circuit \in [CircId -> CircuitState]
            BY DEF StepsInv, TypeOK, CircuitState
          <6>3. QED
            BY <1>1, <2>1, <2>2, <6>1, <6>2
        <5>2. todo'["event"] = todo["event"]
          BY <4>3, <5>1, EventThreadWaits
        <5>3. QED
          BY <4>3, <5>2 DEF At
      <4>4. CASE At("event", "attach") /\ s \in ToAttach(Head(todo["event"]))
        <5>1. CASE todo'["event"] = todo["event"]
          BY <4>4, <5>1 DEF At
        <5>2. CASE AttachStream
          <6> DEFINE step == Head(todo["event"])
          <6>1. todo["event"] # <<>> /\ step.rest \in SUBSET Stream /\ step.circ = circ
            BY <2>2, <4>4, EventStep DEF At
          <6>2. s # step.stream
            <7>1. stream \in [Stream -> StreamState]
              BY DEF StepsInv, TypeOK, StreamState
            <7>2. stream[step.stream] = "waiting" => stream' = [stream EXCEPT ![step.stream] = "attached"]
              BY <2>2, <2>3, <5>2, <6>1 DEF AttachStream
            <7>3. QED
              BY <1>1, <3>1, <3>3, <7>1, <7>2
          <6>3. s \in step.rest
            BY <4>4, <6>2 DEF ToAttach
          <6>4. \/ step.rest = {} /\ Continue("event", <<>>)
                \/ \E x \in step.rest : Continue("event", <<Attach(x, circ, step.rest \ {x})>>)
            BY <5>2 DEF AttachStream
          <6> HIDE DEF step
          <6>5. QED
            BY <6>1, <6>3, <6>4, AttachArrives
        <5>3. QED
          BY <4>4, <5>1, <5>2, EventThreadWaits
      <4>5. QED
        BY <4>1, <4>2, <4>3, <4>4
    <3>4. QED
      BY <3>2, <3>3
  <2>7. QED
    BY <2>5, <2>6
<1>5. ASSUME NEW t \in Thread, Postpone(t)
      PROVE  FALSE
  <2>1. ~dirInfo /\ built
    BY <1>1, <1>5 DEF Postpone
  <2>2. QED
    BY <2>1 DEF DirInv
<1>6. ASSUME NEW t \in Thread, StoreCircuit(t)
      PROVE  FALSE
  BY <1>1, <1>6 DEF StoreCircuit
<1>7. QED
  BY <1>1, <1>3, <1>4, <1>5, <1>6, OwnEvolves

(* A handler that is to open a circuit still is, or has just tried.         *)
LEMMA OpensNext ==
  ASSUME StepsInv, Next, NEW t \in Thread, Opens(todo[t]),
         ~Create(t), ~Postpone(t), ~ExtendRefused(t), ~StoreCircuit(t)
  PROVE  Opens(todo'[t])
<1>1. TodoInv /\ circ \in Circ /\ pending \subseteq Stream
  BY DEF StepsInv, TypeOK, TodoInv
<1>2. todo[t] # <<>>
  BY NothingToDo
<1>3. CASE todo'[t] = todo[t]
  BY <1>3
<1>4. CASE Head(todo[t]).do \notin Opening /\ Continue(t, <<>>)
  BY <1>1, <1>2, <1>4, ContinueDone
<1>5. ASSUME Head(todo[t]).do \notin Opening, NEW x \in Step, x.do = "attach", Continue(t, <<x>>)
      PROVE  Opens(todo'[t])
  BY <1>1, <1>2, <1>5, ContinueWith
<1>6. ASSUME NEW u \in Thread, Shared(u)
      PROVE  Opens(todo'[t])
  <2>1. CASE u # t
    BY <1>1, <1>3, <1>6, <2>1 DEF Shared, Signal, SetState, Create, Postpone, Extended,
          ExtendRefused, StoreCircuit, Stored, Continue, Begin, TodoInv
  <2>2. CASE Signal(t) \/ SetState(t)
    BY <1>4, <2>2 DEF Signal, SetState, At, Opening
  <2>3. CASE Extended(t)
    <3>1. PICK id \in CircId : Continue(t, <<About(id, "store")>>)
      BY <2>3 DEF Extended
    <3>2. About(id, "store") \in Step /\ About(id, "store").do = "store"
      BY Steps
    <3>3. QED
      BY <1>1, <1>2, <3>1, <3>2, ContinueWith DEF Opening
  <2>4. QED
    BY <1>6, <2>1, <2>2, <2>3 DEF Shared
<1>7. ASSUME Proxy
      PROVE  Opens(todo'[t])
  <2>1. todo'[t] = todo[t] \/ (t = "proxy" /\ Idle("proxy"))
    BY <1>1, <1>7 DEF Proxy, NewConnection, Terminated, RecvHelloOk, RecvActive, RecvWait,
                      RecvChange, RecvInactive, RecvShut, RecvShutOk, Stop, Begin, TodoInv
  <2>2. QED
    BY <1>2, <1>3, <2>1 DEF Idle
<1>8. ASSUME Events
      PROVE  Opens(todo'[t])
  <2>1. CASE t # "event"
    BY <1>1, <1>3, <1>8, <2>1 DEF Events, EvStreamWait, EvBuilt, EvFailed, EvClosed,
          EvStreamClosed, EvDetached, EvDetachedOther, EvDirInfo, TakeCircuit, HearBuilt,
          DropCircuit, GiveUp, AttachStream, CloseCircuit, Continue, Begin, TodoInv
  <2>2. CASE t = "event"
    <3>1. CASE \/ EvStreamWait \/ EvBuilt \/ EvFailed \/ EvClosed
               \/ EvStreamClosed \/ EvDetached \/ EvDetachedOther \/ EvDirInfo
      BY <1>2, <2>2, <3>1 DEF EvStreamWait, EvBuilt, EvFailed, EvClosed, EvStreamClosed,
                              EvDetached, EvDetachedOther, EvDirInfo, TakeCircuit, Take, Idle
    <3>2. CASE DropCircuit \/ CloseCircuit
      BY <1>4, <2>2, <3>2 DEF DropCircuit, CloseCircuit, At, Opening
    <3>3. CASE GiveUp
      BY <1>4, <2>2, <3>3 DEF GiveUp, At, Opening
    <3>4. CASE HearBuilt
      <4>1. \A s \in pending : LET x == Attach(s, circ, pending \ {s})
                               IN x \in Step /\ x.do = "attach"
        BY <1>1, Steps
      <4>2. Head(todo[t]).do \notin Opening
        BY <2>2, <3>4 DEF HearBuilt, At, Opening
      <4>3. QED
        BY <1>4, <1>5, <2>2, <3>4, <4>1, <4>2 DEF HearBuilt
    <3>5. CASE AttachStream
      <4> DEFINE rest == Head(todo["event"]).rest
      <4>1. rest \subseteq Stream
        BY <3>5, EventStep DEF AttachStream, At
      <4>2. \A s \in rest : LET x == Attach(s, circ, rest \ {s})
                            IN x \in Step /\ x.do = "attach"
        BY <1>1, <4>1, Steps
      <4>3. Head(todo[t]).do \notin Opening
        BY <2>2, <3>5 DEF AttachStream, At, Opening
      <4>4. \/ Continue("event", <<>>)
            \/ \E s \in rest : Continue("event", <<Attach(s, circ, rest \ {s})>>)
        BY <3>5 DEF AttachStream
      <4>5. QED
        BY <1>4, <1>5, <2>2, <4>2, <4>3, <4>4
    <3>6. QED
      BY <1>8, <3>1, <3>2, <3>3, <3>4, <3>5 DEF Events
  <2>3. QED
    BY <2>1, <2>2
<1>9. ASSUME Cli
      PROVE  Opens(todo'[t])
  <2>1. todo'[t] = todo[t] \/ (t = "cli" /\ Idle("cli"))
    BY <1>1, <1>9 DEF Cli, CliCreate, CliSetK, CliShut, CliSetEvents, Order, Begin, TodoInv
  <2>2. QED
    BY <1>2, <1>3, <2>1 DEF Idle
<1>10. TorReports => todo' = todo
  BY DEF TorReports, Report, Tell, CircuitBuilt, CircuitFails, CircuitCloses, StreamWaits,
         StreamDetached, StreamDetachedOther, StreamCloses, EnoughDirInfo
<1>11. QED
  BY <1>3, <1>6, <1>7, <1>8, <1>9, <1>10 DEF Next

LEMMA ActiveNext ==
  ASSUME StepsInv, HearInv, ActiveInv, Next, ~misled'
  PROVE  ActiveInv'
<1> DEFINE Goal == \/ Excused'
                   \/ circ' \in CircId /\ Says(evt', "FAILED", circ')
                   \/ \E t \in Thread : Opens(todo'[t])
<1>1. SUFFICES ASSUME cstate' = "ACTIVE"
               PROVE  Goal
  BY DEF ActiveInv
<1>2. ~misled /\ TodoInv /\ "event" \in Thread /\ evt \in Seq(Event)
  BY OwnEvolves DEF StepsInv, TypeOK, TodoInv, Thread
<1>3. /\ attempts \in Int /\ attempts' \in Int /\ CircRetryAtmps \in Int
  BY StepsNext, ThreeThreads, ClientAssumption DEF StepsInv, TypeOK
<1>4. ASSUME NEW id \in CircId, circuit[id] = "closed"
      PROVE  Goal
  BY <1>4, CircuitEvolves DEF Excused
<1>5. ASSUME NEW t \in Thread, Create(t)
      PROVE  Goal
  <2>1. \A what \in {"postpone", "extend"} :
          Do(what) \in Step /\ Do(what).do = what /\ todo[t] # <<>>
    BY <1>5, Steps DEF Create, At
  <2>2. CASE ~dirInfo \/ attempts <= CircRetryAtmps
    <3>1. Continue(t, <<Do("postpone")>>) \/ Continue(t, <<Do("extend")>>)
      BY <1>5, <2>2 DEF Create
    <3>2. QED
      BY <1>2, <2>1, <3>1, ContinueWith DEF Opening
  <2>3. CASE attempts > CircRetryAtmps
    BY <1>5, <2>3 DEF Create, own, Excused
  <2>4. QED
    BY <1>3, <2>2, <2>3
<1>6. ASSUME NEW t \in Thread, Postpone(t)
      PROVE  Goal
  BY <1>1, <1>6 DEF Postpone, Excused
<1>7. ASSUME NEW t \in Thread, ExtendRefused(t)
      PROVE  Goal
  <2>1. CASE attempts' <= CircRetryAtmps
    <3>1. Opens(todo[t]) /\ todo' = [todo EXCEPT ![t] = <<Do("extend")>> \o Tail(@)] /\ todo[t] # <<>>
      <4>1. todo[t] # <<>> /\ Head(todo[t]).do = "extend" /\ todo[t] \in Seq(Step)
        BY <1>2, <1>7 DEF ExtendRefused, At, TodoInv
      <4>2. 1 \in 1 .. Len(todo[t]) /\ Head(todo[t]) = todo[t][1]
        BY <4>1, TailOf
      <4>3. QED
        BY <1>7, <2>1, <4>1, <4>2 DEF ExtendRefused, Continue, Opens, Opening
    <3>2. Do("extend") \in Step /\ Do("extend").do = "extend"
      BY Steps
    <3>3. Continue(t, <<Do("extend")>>)
      BY <3>1 DEF Continue
    <3>4. QED
      BY <1>2, <3>1, <3>2, <3>3, ContinueWith DEF Opening
  <2>2. CASE attempts' > CircRetryAtmps
    BY <2>2 DEF Excused
  <2>3. QED
    BY <1>3, <2>1, <2>2
<1>8. ASSUME NEW t \in Thread, StoreCircuit(t)
      PROVE  Goal
  <2>1. /\ circ' = Head(todo[t]).circ /\ todo[t] # <<>> /\ Head(todo[t]).do = "store"
        /\ ~Missed(circ') /\ UNCHANGED <<circuit, evt>>
    BY <1>1, <1>8 DEF StoreCircuit, Stored, At, tor
  <2>2. circ' \in CircId
    BY <1>2, <2>1, TailOf, StepFields DEF TodoInv
  <2>3. CASE circuit[circ'] = "building"
    BY <2>1, <2>2, <2>3 DEF Excused
  <2>4. CASE circuit[circ'] # "building"
    <3>1. PICK i \in 1 .. Len(evt) : evt[i].type \in {"BUILT", "FAILED"} /\ evt[i].of = circ'
      BY <2>1, <2>4 DEF Missed
    <3>2. evt[i].type = "BUILT" => circuit[circ'] \in {"built", "closed"}
      BY <1>2, <3>1 DEF StepsInv, Truthful
    <3>3. evt[i].type = "FAILED" => Says(evt, "FAILED", circ')
      BY <3>1 DEF Says
    <3>4. QED
      BY <2>1, <2>2, <3>1, <3>2, <3>3 DEF Excused
  <2>5. QED
    BY <2>3, <2>4
<1>9. CASE HearBuilt
  <2>1. /\ At("event", "hear") /\ todo["event"] # <<>>
        /\ circ = Head(todo["event"]).circ
        /\ UNCHANGED <<circ, circuit>>
    BY <1>1, <1>9 DEF HearBuilt, Stale, At, tor
  <2>2. circ \in CircId /\ circuit[circ] \in {"built", "closed"}
    BY <2>1, EventStep DEF HearInv
  <2>3. QED
    BY <2>1, <2>2 DEF Excused
<1>10. CASE DropCircuit
  <2>1. At("event", "drop") /\ todo["event"] # <<>> /\ Continue("event", <<>>)
    BY <1>10 DEF DropCircuit, At
  <2>2. CASE Opens(todo["event"])
    BY <1>2, <2>1, <2>2, ContinueDone DEF At, Opening
  <2>3. CASE ~Opens(todo["event"])
    <3>1. Head(todo["event"]).circ \in CircId /\ circuit[Head(todo["event"]).circ] = "closed"
      BY <2>1, <2>3, EventStep DEF HearInv
    <3>2. QED
      BY <1>4, <3>1
  <2>4. QED
    BY <2>2, <2>3
<1>11. CASE RecvActive
  <2>1. todo'["proxy"] = <<Do("signal"), Do("create")>>
    BY <1>2, <1>11 DEF RecvActive, Begin, TodoInv, Thread
  <2>2. /\ Do("signal") \in Step /\ Do("signal").do = "signal"
        /\ Do("create") \in Step /\ Do("create").do = "create"
    BY Steps
  <2>3. Opens(<<Do("signal"), Do("create")>>)
    BY <2>2, TwoSteps DEF Later, Opening
  <2>4. QED
    BY <2>1, <2>3 DEF Thread
<1>12. ASSUME NEW t \in Thread, SetState(t), cstate # "ACTIVE"
       PROVE  Goal
  <2>1. /\ todo[t] # <<>> /\ Head(todo[t]).do = "set" /\ Continue(t, <<>>)
        /\ Head(todo[t]).state = "ACTIVE"
    BY <1>1, <1>12 DEF SetState, SetChannel, At
  <2>2. QED
    BY <1>2, <2>1, ContinueDone
<1>13. CASE /\ \A t \in Thread : ~(Create(t) \/ Postpone(t) \/ ExtendRefused(t) \/ StoreCircuit(t))
            /\ cstate = "ACTIVE" /\ UNCHANGED <<circ, attempts>>
  <2>1. \/ Excused
        \/ circ \in CircId /\ Says(evt, "FAILED", circ)
        \/ \E t \in Thread : Opens(todo[t])
    BY <1>2, <1>13 DEF ActiveInv
  <2>2. CASE circ \in CircId /\ circuit[circ] \in {"building", "built"}
    BY <1>13, <2>2, CircuitEvolves DEF Excused
  <2>3. CASE circ = WaitingDirInfo /\ ~dirInfo
    <3>1. CASE dirInfo' = dirInfo
      BY <1>13, <2>3, <3>1 DEF Excused
    <3>2. CASE EvDirInfo
      <4>1. todo'["event"] = <<Do("create")>>
        BY <1>2, <2>3, <3>2 DEF EvDirInfo, Begin, TodoInv
      <4>2. Opens(<<Do("create")>>)
        BY Steps, OneStep DEF Opening
      <4>3. QED
        BY <1>2, <4>1, <4>2
    <3>3. QED
      BY <3>1, <3>2, DirInfoEvolves
  <2>4. CASE attempts > CircRetryAtmps
    BY <1>13, <2>4 DEF Excused
  <2>5. CASE \E id \in CircId : circuit[id] = "closed"
    BY <1>4, <2>5
  <2>6. CASE circ \in CircId /\ Says(evt, "FAILED", circ)
    <3>1. CASE Says(evt', "FAILED", circ)
      BY <1>13, <2>6, <3>1
    <3>2. CASE EvFailed /\ Head(evt).of = circ
      <4>1. todo'["event"] = <<About(circ, "drop")>> \o <<Do("create"), Do("inactive")>>
        BY <1>2, <3>2 DEF EvFailed, TakeCircuit, Begin, TodoInv
      <4>2. About(circ, "drop") \in Step /\ About(circ, "drop").do = "drop"
        BY <2>6, Steps
      <4>3. Opens(todo'["event"])
        BY <4>1, <4>2, DropAndCreate
      <4>4. QED
        BY <1>2, <4>3
    <3>3. QED
      BY <2>6, <3>1, <3>2, SaysEvolves
  <2>7. CASE \E t \in Thread : Opens(todo[t])
    BY <1>13, <2>7, OpensNext
  <2>8. QED
    BY <2>1, <2>2, <2>3, <2>4, <2>5, <2>6, <2>7 DEF Excused
<1>14. \/ HearBuilt \/ DropCircuit \/ RecvActive
       \/ \E t \in Thread : SetState(t) /\ cstate # "ACTIVE"
       \/ \E t \in Thread : Create(t) \/ Postpone(t) \/ ExtendRefused(t) \/ StoreCircuit(t)
       \/ cstate = "ACTIVE" /\ UNCHANGED <<circ, attempts>>
  BY <1>1 DEF Next, Shared, Signal, SetState, Extended, Proxy, NewConnection, Terminated,
       RecvHelloOk, RecvWait, RecvChange, RecvInactive, RecvShut, RecvShutOk, Stop, SetChannel,
       Events, EvStreamWait, EvBuilt, EvFailed, EvClosed, EvStreamClosed, EvDetached,
       EvDetachedOther, EvDirInfo, TakeCircuit, Take, GiveUp, AttachStream, CloseCircuit, Cli,
       CliCreate, CliSetK, CliShut, CliSetEvents, Order, TorReports, Report, Tell, CircuitBuilt,
       CircuitFails, CircuitCloses, StreamWaits, StreamDetached, StreamDetachedOther,
       StreamCloses, EnoughDirInfo, own
<1>15. QED
  BY <1>5, <1>6, <1>7, <1>8, <1>9, <1>10, <1>11, <1>12, <1>13, <1>14

-----------------------------------------------------------------------------
(* The inductive invariant, and what it implies.                            *)
LEMMA InitClient ==
  Init => ClientInv
<1>1. SUFFICES ASSUME Init PROVE ClientInv
  OBVIOUS
<1>2. /\ MaxCirc \in Nat /\ MaxCli \in Nat /\ CircRetryAtmps \in Nat
      /\ NoCircuit \in Circ /\ NoCircuit \notin CircId /\ NoCircuit # WaitingDirInfo
  BY ClientAssumption DEF Circ, CircId, NoCircuit, WaitingDirInfo
<1>3. /\ todo \in [Thread -> Seq(Step)] /\ \A t \in Thread : todo[t] = <<>>
      /\ "event" \in Thread
  BY <1>1 DEF Init, Thread
<1>4. \A t \in Thread : Ordered(todo[t]) /\ \A what : ~At(t, what)
  BY <1>3, NothingToDo DEF At
<1>5. TypeOK
  <2>1. attempts \in 0 .. CircRetryAtmps + Cardinality(Thread)
    BY <1>1, <1>2, ThreeThreads DEF Init
  <2>2. evt \in Seq(Event) /\ orders \in 0 .. MaxCli
    BY <1>1, <1>2 DEF Init
  <2>3. QED
    BY <1>1, <1>2, <1>3, <2>1, <2>2 DEF Init, TypeOK, CState
<1>6. StepsInv
  <2>1. Loops = 0
    BY <1>4 DEF Loops, InExtend, Thread
  <2>2. attempts + Loops <= CircRetryAtmps + Cardinality(Thread)
    BY <1>1, <1>2, <2>1, ThreeThreads DEF Init
  <2>3. Truthful(evt, circuit, stream)
    BY <1>1 DEF Init, Truthful
  <2>4. QED
    BY <1>1, <1>4, <1>5, <2>2, <2>3 DEF Init, StepsInv
<1>7. DirInv /\ HearInv /\ BuiltInv /\ PendingInv
  BY <1>1, <1>3, <1>4 DEF Init, DirInv, HearInv, BuiltInv, PendingInv
<1>8. HeardInv /\ PostponedInv /\ ActiveInv
  BY <1>1, <1>2 DEF Init, HeardInv, PostponedInv, ActiveInv
<1>9. QED
  BY <1>6, <1>7, <1>8 DEF ClientInv, KnowInv

LEMMA NextClient ==
  ClientInv /\ [Next]_clientVars => ClientInv'
<1>1. SUFFICES ASSUME ClientInv, [Next]_clientVars PROVE ClientInv'
  OBVIOUS
<1>2. StepsInv'
  BY <1>1, StepsNext DEF ClientInv
<1>3. CASE Next
  <2>1. SUFFICES ASSUME ~misled'
                 PROVE  KnowInv'
    BY <1>2 DEF ClientInv
  <2>2. KnowInv
    BY <1>1, <1>3, <2>1, MisledRemains DEF ClientInv
  <2>3. QED
    BY <1>1, <1>3, <2>1, <2>2, DirNext, HearNext, BuiltNext, HeardNext, PostponedNext, StreamsNext,
       ActiveNext DEF ClientInv, KnowInv
<1>4. CASE UNCHANGED clientVars
  <2>1. KnowInv => DirInv' /\ HearInv' /\ BuiltInv' /\ HeardInv'
    BY <1>1, <1>4 DEF clientVars, own, ghost, tor, KnowInv, DirInv, HearInv, BuiltInv, HeardInv, At
  <2>2. KnowInv => PostponedInv' /\ PendingInv' /\ ActiveInv'
    BY <1>1, <1>4 DEF clientVars, own, ghost, tor, KnowInv, PostponedInv, PendingInv, ActiveInv,
                      Excused, At
  <2>3. misled' = misled
    BY <1>4 DEF clientVars, ghost
  <2>4. QED
    BY <1>1, <1>2, <2>1, <2>2, <2>3 DEF ClientInv, KnowInv
<1>5. QED
  BY <1>1, <1>3, <1>4

LEMMA ClientInvariant ==
  Spec => []ClientInv
<1>1. Init => ClientInv
  BY InitClient
<1>2. ClientInv /\ [Next]_clientVars => ClientInv'
  BY NextClient
<1>3. QED
  BY <1>1, <1>2, PTL DEF Spec

(* Every variable of the client and of what it knows of Tor stays in its    *)
(* range; _circ_attempts passes CIRC_RETRY_ATMPS by at most one for each    *)
(* thread that can be in create_circuit's loop.                             *)
THEOREM ClientTypeCorrect == Spec => []TypeOK
<1>1. ClientInv => TypeOK
  BY DEF ClientInv, StepsInv
<1>2. QED
  BY <1>1, ClientInvariant, PTL

(* Unless the client has been misled, by a write after a test that was      *)
(* undone or by an event that Tor kept to itself, a circuit whose state is  *)
(* CIRC_STATE_BUILT is Tor's, or Tor's event that it is gone has yet to be  *)
(* handled.                                                                 *)
THEOREM BuiltCorrect == Spec => []BuiltIsBuilt
<1>1. ClientInv => BuiltIsBuilt
  BY DEF ClientInv, KnowInv, BuiltInv, BuiltIsBuilt, Says
<1>2. QED
  BY <1>1, ClientInvariant, PTL

(* Unless the client has been misled, a circuit that Tor has built is known *)
(* to be when everything is handled, and every stream that is kept for it   *)
(* is attached, closed, or one that Tor detached for a reason that          *)
(* handleTorCtlEventReceived does not heed.                                 *)
THEOREM PendingCorrect == Spec => []PendingAreAttached
<1>1. ASSUME ClientInv, Quiet, ~misled, circ \in CircId, circuit[circ] = "built"
      PROVE  built /\ \A s \in pending : stream[s] # "waiting"
  <2>1. evt = <<>> /\ todo["event"] = <<>>
    BY <1>1 DEF Quiet, Idle, Thread
  <2>2. \A type, of : ~Says(evt, type, of)
    BY <2>1 DEF Says
  <2>3. \A what : ~At("event", what)
    BY <2>1 DEF At
  <2>4. built
    BY <1>1, <2>2, <2>3 DEF ClientInv, KnowInv, StepsInv, TypeOK, HeardInv
  <2>5. QED
    BY <1>1, <2>2, <2>3, <2>4 DEF ClientInv, KnowInv, PendingInv
<1>2. ClientInv => PendingAreAttached
  BY <1>1 DEF PendingAreAttached
<1>3. QED
  BY <1>2, ClientInvariant, PTL

(* Unless the client has been misled, no circuit stays put off once the     *)
(* client has heard that Tor has its directory information.                 *)
THEOREM PostponedCorrect == Spec => []PostponedIsOpened
<1>1. ClientInv => PostponedIsOpened
  BY DEF ClientInv, KnowInv, PostponedInv, PostponedIsOpened, Quiet, Idle, At, Thread
<1>2. QED
  BY <1>1, ClientInvariant, PTL

(* Unless the client has been misled, a client the bridge has made active   *)
(* has a live circuit when everything is handled, but for the reasons the   *)
(* property names.                                                          *)
THEOREM ActiveCorrect == Spec => []ActiveHasCircuit
<1>1. ASSUME ClientInv, Quiet, ~misled, cstate = "ACTIVE"
      PROVE  Excused
  <2>1. evt = <<>> /\ \A t \in Thread : todo[t] = <<>>
    BY <1>1 DEF Quiet, Idle
  <2>2. ~Says(evt, "FAILED", circ)
    BY <2>1 DEF Says
  <2>3. \A t \in Thread : ~Opens(todo[t])
    BY <2>1, NothingToDo
  <2>4. QED
    BY <1>1, <2>2, <2>3 DEF ClientInv, KnowInv, ActiveInv
<1>2. ClientInv => ActiveHasCircuit
  BY <1>1 DEF ActiveHasCircuit, Excused
<1>3. QED
  BY <1>2, ClientInvariant, PTL
=============================================================================
