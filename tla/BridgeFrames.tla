----------------------------- MODULE BridgeFrames -----------------------------
(***************************************************************************)
(* Who holds which frame on the bridge: the reads of the proxy thread, the *)
(* rounds of delivery, the orders that handlers queue, the traffic shaping *)
(* thread of FrameSender, the removal of a connection and the CLI thread,  *)
(* over one pool.                                                          *)
(*                                                                         *)
(* What the handlers decide is in ControllerServer; here a CTRL frame has  *)
(* orders queued for some clients, and a round serves some of those with a *)
(* frame.  A handler that finds no frame for an order fails an assertion   *)
(* that ends the bridge; here it waits, which only adds behaviours.        *)
(***************************************************************************)
EXTENDS FrameSender

CONSTANT CliRaces (* may the CLI thread run between a round and the last look? *)

ASSUME BridgeFramesAssumption == CliRaces \in BOOLEAN

VARIABLES
  conn,     (* the connections in the client table                           *)
  recvQ,    (* Client::_reception_queue                                      *)
  tmp,      (* Client::_tmp_frame, or NoFrame                                *)
  tmpChunk, (* Client::_tmp_chunk                                            *)
  zombies,  (* SocksProxyServer::_zombies                                    *)
  closed,   (* those of them whose read has failed in this pass              *)
  proxy     (* what the proxy thread is in the middle of                     *)

proxyVars == <<conn, recvQ, tmp, tmpChunk, zombies, closed, proxy>>

vars == <<senderVars, proxyVars>>

NoFrame == 0

(* at: between handlers, queueing orders for the clients in due, before the *)
(* round, before the last look at the frame, and in the loop over _zombies. *)
At(at, frame, due) == [at |-> at, frame |-> frame, due |-> due]

Idle == At("select", NoFrame, {})

-----------------------------------------------------------------------------
(* A read goes on with _tmp_frame or takes a frame from the pool; it is put *)
(* off when the pool is full.  A pass reads a connection once, so not again *)
(* after a read that has failed.                                            *)
Resumed(c) == tmpChunk[c] # -1

MayRead(c) ==
  /\ proxy = Idle
  /\ c \in conn \ closed
  /\ Resumed(c) \/ HasRoom(pool)

ReadFrame(c) == IF Resumed(c) THEN tmp[c] ELSE NextFrame(pool)

ReadPool(c) == IF Resumed(c) THEN pool ELSE AllocFrame(pool)

SetTmp(c, f, k) ==
  /\ tmp' = [tmp EXCEPT ![c] = f]
  /\ tmpChunk' = [tmpChunk EXCEPT ![c] = k]

(* The frame is whole. *)
ClearTmp(c) == SetTmp(c, NoFrame, -1)

(* SSL wants the read of chunk k to be tried again.  The first chunk says   *)
(* how many there are.                                                      *)
ReadPart(c) ==
  /\ MayRead(c)
  /\ \/ /\ tmpChunk[c] <= 0
        /\ \E n \in DataChunks : \E k \in 1 .. n - 1 :
             SetTmp(c, ReadFrame(c), k) /\ content' = [content EXCEPT ![ReadFrame(c)] = n]
     \/ /\ tmpChunk[c] <= 0
        /\ SetTmp(c, ReadFrame(c), 0)
        /\ content' = content
     \/ /\ tmpChunk[c] > 0
        /\ \E k \in tmpChunk[c] .. content[tmp[c]] - 1 : SetTmp(c, tmp[c], k)
        /\ content' = content
  /\ pool' = ReadPool(c)
  /\ UNCHANGED <<ctrlQ, dataQ, lastChunk, wrType, sending, owed, conn, recvQ,
                 zombies, closed, proxy>>

(* The read fails: the connection is shut down and the frame released,      *)
(* though _tmp_frame may still name it.                                     *)
ReadFails(c) ==
  /\ MayRead(c)
  /\ pool' = UnallocFrame(ReadPool(c), ReadFrame(c))
  /\ zombies' = zombies \cup {c}
  /\ closed' = closed \cup {c}
  /\ UNCHANGED <<content, ctrlQ, dataQ, lastChunk, wrType, sending, owed, conn,
                 recvQ, tmp, tmpChunk, proxy>>

(* A whole DATA frame; read in one go, its number of chunks is immaterial. *)
ReadData(c) ==
  /\ MayRead(c)
  /\ content' = [content EXCEPT ![ReadFrame(c)] = IF tmpChunk[c] > 0 THEN @ ELSE 1]
  /\ ClearTmp(c)
  /\ pool' = ReadPool(c)
  /\ recvQ' = [recvQ EXCEPT ![c] = Append(@, ReadFrame(c))]
  /\ proxy' = At("round", ReadFrame(c), {})
  /\ UNCHANGED <<ctrlQ, dataQ, lastChunk, wrType, sending, owed, conn, zombies, closed>>

(* A CHAFF or CTRL frame, which has one chunk. *)
ReadOther(c) ==
  /\ MayRead(c)
  /\ tmpChunk[c] <= 0
  /\ content' = [content EXCEPT ![ReadFrame(c)] = 0]
  /\ ClearTmp(c)
  /\ pool' = ReadPool(c)
  /\ \E due \in SUBSET conn : proxy' = At("orders", ReadFrame(c), due)
  /\ UNCHANGED <<ctrlQ, dataQ, lastChunk, wrType, sending, owed, conn, recvQ,
                 zombies, closed>>

-----------------------------------------------------------------------------
(* One order: a frame from the pool on the CTRL queue of d. *)
PushCtrl(d) ==
  /\ HasRoom(pool)
  /\ pool' = AllocFrame(pool)
  /\ content' = [content EXCEPT ![NextFrame(pool)] = 0]
  /\ ctrlQ' = [ctrlQ EXCEPT ![d] = Append(@, NextFrame(pool))]

Order(d) ==
  /\ d \in proxy.due
  /\ PushCtrl(d)
  /\ proxy' = [proxy EXCEPT !.due = @ \ {d}]
  /\ UNCHANGED <<dataQ, lastChunk, wrType, sending, owed, conn, recvQ, tmp,
                 tmpChunk, zombies, closed>>

OrdersDone ==
  /\ proxy.at = "orders" /\ proxy.due = {}
  /\ proxy' = CASE proxy.frame # NoFrame -> [proxy EXCEPT !.at = "round"]
                [] proxy.frame = NoFrame /\ zombies = {} -> Idle
                [] OTHER -> At("sweep", NoFrame, {})
  /\ UNCHANGED <<senderVars, conn, recvQ, tmp, tmpChunk, zombies, closed>>

(* handleReceptionFrames: a client that is served gives up its first frame, *)
(* delivered or dropped; the write to Tor may fail, and the connection is   *)
(* shut down.                                                               *)
Round ==
  /\ proxy.at = "round"
  /\ \E served \in SUBSET {d \in conn : recvQ[d] # <<>>} :
     \E failed \in SUBSET served :
       /\ pool' \in UnallocAll(pool, {Head(recvQ[d]) : d \in served})
       /\ recvQ' = [d \in Conn |-> IF d \in served THEN Tail(recvQ[d]) ELSE recvQ[d]]
       /\ zombies' = zombies \cup failed
  /\ proxy' = [proxy EXCEPT !.at = "look"]
  /\ UNCHANGED <<content, ctrlQ, dataQ, lastChunk, wrType, sending, owed, conn,
                 tmp, tmpChunk, closed>>

(* Faulty: whatever the frame is, it is released. *)
LookNot ==
  /\ proxy.at = "look"
  /\ pool' = UnallocFrame(pool, proxy.frame)
  /\ proxy' = Idle
  /\ UNCHANGED <<content, ctrlQ, dataQ, lastChunk, wrType, sending, owed, conn,
                 recvQ, tmp, tmpChunk, zombies, closed>>

(* The handler ends with a look at the type of the frame it has read, which *)
(* for a DATA frame the round may have released by now.                     *)
Look ==
  /\ proxy.at = "look"
  /\ pool' = IF content[proxy.frame] = 0 THEN UnallocFrame(pool, proxy.frame) ELSE pool
  /\ proxy' = Idle
  /\ UNCHANGED <<content, ctrlQ, dataQ, lastChunk, wrType, sending, owed, conn,
                 recvQ, tmp, tmpChunk, zombies, closed>>

-----------------------------------------------------------------------------
(* handleSocksBridgeDataReady: data of Tor for c, or nothing. *)
LocalRead(c) ==
  /\ proxy = Idle
  /\ c \in conn
  /\ HasRoom(pool)
  /\ pool' = AllocFrame(pool)
  /\ \E n \in DataChunks : content' = [content EXCEPT ![NextFrame(pool)] = n]
  /\ dataQ' = [dataQ EXCEPT ![c] = Append(@, NextFrame(pool))]
  /\ UNCHANGED <<ctrlQ, lastChunk, wrType, sending, owed, proxyVars>>

LocalReadsNothing ==
  /\ proxy = Idle
  /\ conn # {}
  /\ HasRoom(pool)
  /\ pool' = UnallocFrame(AllocFrame(pool), NextFrame(pool))
  /\ UNCHANGED <<content, ctrlQ, dataQ, lastChunk, wrType, sending, owed, proxyVars>>

(* handleSocksNewConnection, with TS_RATE for all or, when rates are fixed, *)
(* for nobody.  add_client waits for the iteration of the shaping thread.   *)
NewConnection(c) ==
  /\ proxy = Idle
  /\ sending = None
  /\ c \notin conn
  /\ conn' = conn \cup {c}
  /\ \E due \in {{}, conn'} : proxy' = At("orders", NoFrame, due)
  /\ UNCHANGED <<senderVars, recvQ, tmp, tmpChunk, zombies, closed>>

(* Faulty: the frames still to be delivered are forgotten. *)
LeftoversButReceived(c) == ToSet(ctrlQ[c]) \cup ToSet(dataQ[c])

(* unallocFramesFromClient: what remove_client gives back. *)
Leftovers(c) == ToSet(ctrlQ[c]) \cup ToSet(dataQ[c]) \cup ToSet(recvQ[c])

(* remove_client, whose lock keeps the shaping thread out, and then orders  *)
(* to the others.                                                           *)
Terminated(c) ==
  /\ proxy.at \in {"select", "sweep"}
  /\ c \in zombies
  /\ sending = None
  /\ pool' \in UnallocAll(pool, Leftovers(c))
  /\ conn' = conn \ {c}
  /\ ctrlQ' = [ctrlQ EXCEPT ![c] = <<>>]
  /\ dataQ' = [dataQ EXCEPT ![c] = <<>>]
  /\ recvQ' = [recvQ EXCEPT ![c] = <<>>]
  /\ lastChunk' = [lastChunk EXCEPT ![c] = 0]
  /\ wrType' = [wrType EXCEPT ![c] = "NONE"]
  /\ ClearTmp(c)
  /\ owed' = [owed EXCEPT ![c] = None]
  /\ zombies' = zombies \ {c}
  /\ closed' = closed \ {c}
  /\ \E due \in SUBSET conn' : proxy' = At("orders", NoFrame, due)
  /\ UNCHANGED <<content, sending>>

-----------------------------------------------------------------------------
(* The CLI thread, inside order_TS_RATE. *)
CliTsRate(d) ==
  /\ proxy.at = "look" => CliRaces
  /\ d \in conn
  /\ PushCtrl(d)
  /\ UNCHANGED <<dataQ, lastChunk, wrType, sending, owed, proxyVars>>

(* A tick of the shaping thread: the bridge lets DATA go out in any state.  *)
Picked(c) == PickedWhen(c, TRUE)

Refused(c) == c \in conn /\ WriteRefused(c, Picked(c)) /\ UNCHANGED proxyVars

Taken(c) == c \in conn /\ WriteTaken(c, Picked(c)) /\ UNCHANGED proxyVars

Fails(c) == c \in conn /\ WriteFails(c, Picked(c)) /\ UNCHANGED proxyVars

Settled == sending # None /\ Settle(sending.conn, sending.of) /\ UNCHANGED proxyVars

-----------------------------------------------------------------------------
Init ==
  /\ pool = NewPool
  /\ content = [f \in Frame |-> 0]
  /\ ctrlQ = [c \in Conn |-> <<>>]
  /\ dataQ = [c \in Conn |-> <<>>]
  /\ lastChunk = [c \in Conn |-> 0]
  /\ wrType = [c \in Conn |-> "NONE"]
  /\ sending = None
  /\ owed = [c \in Conn |-> None]
  /\ conn = {} /\ zombies = {} /\ closed = {}
  /\ recvQ = [c \in Conn |-> <<>>]
  /\ tmp = [c \in Conn |-> NoFrame]
  /\ tmpChunk = [c \in Conn |-> -1]
  /\ proxy = Idle

Read(c) == ReadPart(c) \/ ReadFails(c) \/ ReadData(c) \/ ReadOther(c)

Proxy ==
  \/ \E c \in Conn : Read(c) \/ LocalRead(c) \/ NewConnection(c) \/ Terminated(c)
  \/ \E c \in Conn : Order(c)
  \/ OrdersDone \/ Round \/ Look \/ LocalReadsNothing

Shaper == (\E c \in Conn : Refused(c) \/ Taken(c) \/ Fails(c)) \/ Settled

Next == Proxy \/ Shaper \/ \E c \in Conn : CliTsRate(c)

(* The shaping thread goes on, and a connection takes a chunk again and     *)
(* again, or fails.                                                         *)
Fairness == WF_vars(Settled) /\ \A c \in Conn : SF_vars(Taken(c) \/ Fails(c))

Spec == Init /\ [][Next]_vars /\ Fairness

-----------------------------------------------------------------------------
(* Every variable has its type. *)
TypeOK ==
  /\ pool \in [free : Seq(Frame), alloc : SUBSET Frame]
  /\ content \in [Frame -> 0 .. MaxChunks]
  /\ ctrlQ \in [Conn -> Seq(Frame)] /\ dataQ \in [Conn -> Seq(Frame)]
  /\ recvQ \in [Conn -> Seq(Frame)]
  /\ lastChunk \in [Conn -> 0 .. MaxChunks - 1]
  /\ wrType \in [Conn -> {"NONE", "CTRL", "DATA", "CHAFF"}]
  /\ sending \in {None} \cup [conn : Conn, of : Chunk]
  /\ owed \in [Conn -> {None} \cup Chunk]
  /\ conn \subseteq Conn /\ zombies \subseteq conn /\ closed \subseteq zombies
  /\ tmp \in [Conn -> Frame \cup {NoFrame}]
  /\ tmpChunk \in [Conn -> -1 .. MaxChunks - 1]
  /\ proxy \in [at : {"select", "orders", "round", "look", "sweep"},
                frame : Frame \cup {NoFrame}, due : SUBSET Conn]

(* The places that hold a frame: positions of queues, half-read frames that *)
(* a read will still go on with, and the running handler, unless its frame  *)
(* is queued for delivery.                                                  *)
Places(q, f) == UNION {{c} \X {i \in DOMAIN q[c] : q[c][i] = f} : c \in Conn}

HalfRead(c) == c \in conn \ closed /\ Resumed(c)

InHandler(f) == proxy.frame = f /\ content[f] = 0

Holders(f) ==
  ({"ctrl"} \X Places(ctrlQ, f)) \cup ({"data"} \X Places(dataQ, f))
  \cup ({"recv"} \X Places(recvQ, f))
  \cup ({"read"} \X {c \in Conn : HalfRead(c) /\ tmp[c] = f})
  \cup {h \in {<<"handler">>} : InHandler(f)}

Heads(f, q) == q # <<>> /\ Head(q) = f

(* A frame is in one place at most, and only allocated frames are: nobody   *)
(* releases a frame that somebody else goes on with, so that the assertion  *)
(* of remove_client holds, and what the shaping thread settles still heads  *)
(* its queue.                                                               *)
FramesHaveOneHolder ==
  /\ \A f \in Frame : \A h, i \in Holders(f) : h = i /\ f \in pool.alloc
  /\ sending # None /\ sending.of.type = "CTRL" =>
       Heads(sending.of.frame, ctrlQ[sending.conn])
  /\ sending # None /\ sending.of.type = "DATA" =>
       Heads(sending.of.frame, dataQ[sending.conn])

(* An allocated frame that nobody holds never comes back to the pool.  The  *)
(* only frames lost this way are the half-read ones of connections that are *)
(* removed: remove_client does not give them back.                          *)
Lost == {f \in pool.alloc : Holders(f) = {}}

OnlyHalfReadFramesAreLost ==
  [][\A f \in Lost' : f \in Lost \/ \E c \in zombies \ zombies' : tmp[c] = f]_vars

(* What SSL_write refused is what it is offered next, and the chunks of a   *)
(* frame follow each other, whatever has been queued in between: OpenSSL    *)
(* asks for the first, the reader of the peer counts on the second.         *)
OwedIsPicked ==
  \A c \in conn : owed[c] # None /\ sending = None => Picked(c) = owed[c]

(* An order gets out, though DATA frames for the same client never end: it  *)
(* waits for the rest of one frame.                                         *)
SendsOrder(c) == sending # None /\ sending.conn = c /\ sending.of.type = "CTRL"

OrdersGetOut == \A c \in Conn : ctrlQ[c] # <<>> ~> SendsOrder(c) \/ ctrlQ[c] = <<>>

(* A pool at its limit gets room again, unless all it has is held for a     *)
(* round, half-read, or lost: then no client can be read, and no round can  *)
(* come.                                                                    *)
NothingToSend == \A c \in conn : ctrlQ[c] = <<>> /\ dataQ[c] = <<>>

FullPoolGetsRoom == ~HasRoom(pool) ~> HasRoom(pool) \/ NothingToSend
=============================================================================
