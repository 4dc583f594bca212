----------------------------- MODULE FrameSender -----------------------------
(***************************************************************************)
(* The traffic shaping thread of either end: handleTrafficShapingEvent,    *)
(* which ControllerServer and ControllerClient write alike, over the       *)
(* queues of frames of its connections (FrameQueue, Client).               *)
(*                                                                         *)
(* At each tick and for each connection the thread picks a chunk, offers   *)
(* it to SSL_write (one action) and settles the frame (another): other     *)
(* threads may run in between, for the queues and the pool are locked call *)
(* by call.                                                                *)
(***************************************************************************)
EXTENDS FramePool, FrameCodec

CONSTANT Conn (* the connections                                             *)

(* The frames of either end are in the range of a char, and a CTRL frame is  *)
(* one chunk: the thread sends no second one.                               *)
ASSUME SenderAssumption ==
  /\ IsFiniteSet(Conn)
  /\ MaxChunks <= 127
  /\ ChunkSize >= CtrlFrameSize

VARIABLES
  pool,      (* _frame_pool                                                  *)
  content,   (* the chunks of a DATA frame; 0 for a frame of another type    *)
  ctrlQ,     (* Client::_ctrl_queue                                          *)
  dataQ,     (* Client::_data_queue                                          *)
  lastChunk, (* FrameQueue::_last_chunk of dataQ                             *)
  wrType,    (* Client::_wr_tmp_frame_type                                   *)
  sending,   (* the chunk the thread has offered and not settled yet         *)
  owed       (* history: the chunk the TLS stream needs next, if any         *)

senderVars == <<pool, content, ctrlQ, dataQ, lastChunk, wrType, sending, owed>>

(* _chaff_frame does not come from the pool. *)
Chaff == 0

ChunkOf(type, frame, chunk) == [type |-> type, frame |-> frame, chunk |-> chunk]

Chunk == [type : {"CTRL", "DATA", "CHAFF"},
          frame : Frame \cup {Chaff}, chunk : 0 .. MaxChunks - 1]

None == [type |-> "NONE"]

PartialDataFrame(c) == dataQ[c] # <<>> /\ lastChunk[c] > 0

(* Faulty: CTRL frames have priority over the rest of a DATA frame, too. *)
PicksCtrlAlways(c) == wrType[c] \in {"NONE", "CTRL"} /\ ctrlQ[c] # <<>>

(* Faulty: CTRL frames wait for a moment without DATA frames. *)
PicksCtrlAfterData(c) == wrType[c] \in {"NONE", "CTRL"} /\ dataQ[c] = <<>> /\ ctrlQ[c] # <<>>

PicksCtrl(c) ==
  /\ wrType[c] \in {"NONE", "CTRL"}
  /\ ~PartialDataFrame(c)
  /\ ctrlQ[c] # <<>>

(* The chunk of this tick; allowed says whether DATA frames may go out. *)
PickedWhen(c, allowed) ==
  CASE PicksCtrl(c) -> ChunkOf("CTRL", Head(ctrlQ[c]), 0)
    [] ~PicksCtrl(c) /\ wrType[c] \in {"NONE", "DATA"} /\ dataQ[c] # <<>> /\ allowed
         -> ChunkOf("DATA", Head(dataQ[c]), lastChunk[c])
    [] OTHER -> ChunkOf("CHAFF", Chaff, 0)

(* Faulty: one chunk too many. *)
HasMoreOffByOne(k) == k.type = "DATA" /\ k.chunk < content[k.frame]

HasMore(k) == k.type = "DATA" /\ k.chunk + 1 < content[k.frame]

(* SSL_write wants to be called again, with the same chunk. *)
WriteRefused(c, k) ==
  /\ sending = None
  /\ wrType' = [wrType EXCEPT ![c] = k.type]
  /\ owed' = [owed EXCEPT ![c] = k]
  /\ UNCHANGED <<pool, content, ctrlQ, dataQ, lastChunk, sending>>

(* SSL_write takes the chunk; the peer waits for the rest of the frame. *)
WriteTaken(c, k) ==
  /\ sending = None
  /\ wrType' = [wrType EXCEPT ![c] = "NONE"]
  /\ owed' = [owed EXCEPT ![c] = IF HasMore(k) THEN [k EXCEPT !.chunk = @ + 1] ELSE None]
  /\ sending' = [conn |-> c, of |-> k]
  /\ UNCHANGED <<pool, content, ctrlQ, dataQ, lastChunk>>

(* It fails: the thread settles the frame as if it had been taken. *)
WriteFails(c, k) ==
  /\ sending = None
  /\ wrType' = [wrType EXCEPT ![c] = "NONE"]
  /\ owed' = [owed EXCEPT ![c] = None]
  /\ sending' = [conn |-> c, of |-> k]
  /\ UNCHANGED <<pool, content, ctrlQ, dataQ, lastChunk>>

(* Faulty: setLastChunk is not called. *)
ChunkAfterForgotten(k) == 0

ChunkAfter(k) == IF HasMore(k) THEN k.chunk + 1 ELSE 0

(* The next chunk of the frame is due, or the frame is popped - which sets  *)
(* _last_chunk back - and released.                                         *)
Settle(c, k) ==
  /\ sending = [conn |-> c, of |-> k]
  /\ sending' = None
  /\ ctrlQ' = IF k.type = "CTRL" THEN [ctrlQ EXCEPT ![c] = Tail(@)] ELSE ctrlQ
  /\ dataQ' = IF k.type = "DATA" /\ ~HasMore(k) THEN [dataQ EXCEPT ![c] = Tail(@)] ELSE dataQ
  /\ lastChunk' = IF k.type = "DATA" THEN [lastChunk EXCEPT ![c] = ChunkAfter(k)] ELSE lastChunk
  /\ pool' = IF k.type = "CHAFF" \/ HasMore(k) THEN pool ELSE UnallocFrame(pool, k.frame)
  /\ UNCHANGED <<content, wrType, owed>>
=============================================================================
