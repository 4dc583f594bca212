----------------------------- MODULE RingBuffer -----------------------------
(***************************************************************************)
(* RingBuffer with the threads that use it: put and get under the mutex,   *)
(* the two condition variables, and disable.  An action is what a thread   *)
(* does from taking the lock to releasing it or to waiting; a thread that  *)
(* has been woken does the same again.  A thread that is told the buffer   *)
(* is disabled ends, as the threads of test.cc do.  Nobody enables a       *)
(* buffer again.                                                           *)
(***************************************************************************)
EXTENDS Ring, FiniteSets

CONSTANTS
  Producer, Consumer,  (* the threads                                        *)
  Size,                (* max_size                                           *)
  MaxItems             (* bound: items put                                   *)

ASSUME RingAssumption ==
  /\ Producer \cap Consumer = {}
  /\ Size \in Nat /\ Size > 1
  /\ MaxItems \in Nat

VARIABLES
  ring,      (* buffer_, head_, tail_                                        *)
  enabled,   (* state_ = RINGBUFFER_ENABLED                                  *)
  waiting,   (* the threads in cv_producers_.wait and cv_consumers_.wait     *)
  ended,     (* the threads told RINGBUFFER_STATUS_DISABLED                  *)
  accepted,  (* history: how many items put has answered OK for              *)
  got,       (* history: how many items get has returned                     *)
  last       (* history: the number of the item returned last                *)

ringVars == <<ring, enabled, waiting, ended, accepted, got, last>>

Thread == Producer \cup Consumer
Awake(t) == t \notin waiting \cup ended

NotifyOne(threads) ==
  \/ \E t \in waiting \cap threads : waiting' = waiting \ {t}
  \/ waiting \cap threads = {} /\ UNCHANGED waiting

-----------------------------------------------------------------------------
(* The items are numbered in the order in which they are accepted. *)
MayPut(p) == Awake(p) /\ accepted < MaxItems

(* Faulty: put tells nobody that there is an item. *)
PutSilently(p) ==
  /\ MayPut(p)
  /\ enabled
  /\ ~RingFull(ring, Size)
  /\ ring' = RingPut(ring, Size, accepted + 1)
  /\ accepted' = accepted + 1
  /\ UNCHANGED <<enabled, waiting, ended, got, last>>

Put(p) ==
  /\ MayPut(p)
  /\ enabled
  /\ ~RingFull(ring, Size)
  /\ ring' = RingPut(ring, Size, accepted + 1)
  /\ accepted' = accepted + 1
  /\ NotifyOne(Consumer)
  /\ UNCHANGED <<enabled, ended, got, last>>

PutWaits(p) ==
  /\ MayPut(p)
  /\ enabled
  /\ RingFull(ring, Size)
  /\ waiting' = waiting \cup {p}
  /\ UNCHANGED <<ring, enabled, ended, accepted, got, last>>

(* Faulty: get tells nobody that there is room. *)
GetSilently(c) ==
  /\ Awake(c)
  /\ enabled
  /\ ~RingEmpty(ring)
  /\ ring' = RingGet(ring, Size)
  /\ got' = got + 1
  /\ last' = RingNext(ring)
  /\ UNCHANGED <<enabled, waiting, ended, accepted>>

Get(c) ==
  /\ Awake(c)
  /\ enabled
  /\ ~RingEmpty(ring)
  /\ ring' = RingGet(ring, Size)
  /\ got' = got + 1
  /\ last' = RingNext(ring)
  /\ NotifyOne(Producer)
  /\ UNCHANGED <<enabled, ended, accepted>>

GetWaits(c) ==
  /\ Awake(c)
  /\ enabled
  /\ RingEmpty(ring)
  /\ waiting' = waiting \cup {c}
  /\ UNCHANGED <<ring, enabled, ended, accepted, got, last>>

(* Put or get find the buffer disabled. *)
End(t) ==
  /\ Awake(t)
  /\ ~enabled
  /\ ended' = ended \cup {t}
  /\ UNCHANGED <<ring, enabled, waiting, accepted, got, last>>

(* Faulty: wakes one thread of each kind, as put and get do. *)
DisableNotifyOne ==
  /\ enabled
  /\ enabled' = FALSE
  /\ ring' = EmptyRing(Size)
  /\ NotifyOne(Thread)
  /\ UNCHANGED <<ended, accepted, got, last>>

Disable ==
  /\ enabled
  /\ enabled' = FALSE
  /\ ring' = EmptyRing(Size)
  /\ waiting' = {}
  /\ UNCHANGED <<ended, accepted, got, last>>

(* A condition variable may wake a thread for no reason. *)
SpuriousWakeup(t) ==
  /\ t \in waiting
  /\ waiting' = waiting \ {t}
  /\ UNCHANGED <<ring, enabled, ended, accepted, got, last>>

-----------------------------------------------------------------------------
Init ==
  /\ ring = EmptyRing(Size)
  /\ enabled = TRUE
  /\ waiting = {}
  /\ ended = {}
  /\ accepted = 0
  /\ got = 0
  /\ last = 0

Produce(p) == Put(p) \/ PutWaits(p)
Consume(c) == Get(c) \/ GetWaits(c)

(* Every thread has ended. *)
AllEnded == ended = Thread /\ UNCHANGED ringVars

Next ==
  \/ \E p \in Producer : Produce(p)
  \/ \E c \in Consumer : Consume(c)
  \/ \E t \in Thread : End(t) \/ SpuriousWakeup(t)
  \/ Disable
  \/ AllEnded

(* Consumers call get for ever, and a thread that finds the buffer disabled *)
(* ends.  Nothing makes anybody call put or disable, or a condition         *)
(* variable wake a thread for no reason.                                    *)
Fairness ==
  /\ \A c \in Consumer : WF_ringVars(Consume(c))
  /\ \A t \in Thread : WF_ringVars(End(t))

Spec == Init /\ [][Next]_ringVars /\ Fairness

-----------------------------------------------------------------------------
(* Every variable has its type. *)
TypeOK ==
  /\ ring \in [head : 0 .. Size - 1, tail : 0 .. Size - 1,
               slot : [0 .. Size - 1 -> 0 .. MaxItems]]
  /\ enabled \in BOOLEAN
  /\ waiting \subseteq Thread
  /\ ended \subseteq Thread
  /\ accepted \in 0 .. MaxItems
  /\ got \in 0 .. MaxItems
  /\ last \in 0 .. MaxItems

(* Whoever takes an item, and although a buffer may overrun itself, items   *)
(* come out in the order in which they went in, and none twice.             *)
TakenInOrder == [][got' # got => last' > last]_ringVars

Pending == RingLength(ring, Size)

(* No wake-up is lost: a consumer does not wait for ever on a buffer that   *)
(* holds an item, nor a producer on one with room.                          *)
ConsumersGoOn == enabled /\ Pending > 0 ~> Pending = 0 \/ ~enabled
ProducersGoOn ==
  \A p \in Producer : p \in waiting ~> p \notin waiting

(* The join of test.cc: once the buffer is disabled every thread ends.      *)
DisableEndsAll == ~enabled ~> ended = Thread

(* The buffer is a bounded queue, whatever its threads do: items leave it   *)
(* at its head or all at once, the latter only when it is disabled or is    *)
(* put to while it is full.                                                 *)
Queue == INSTANCE BoundedQueue
           WITH queue <- Content(ring, Size), Item <- 1 .. MaxItems, Capacity <- Size - 1
IsBoundedQueue == Queue!QSpec
=============================================================================
