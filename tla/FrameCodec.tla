------------------------------ MODULE FrameCodec ------------------------------
(***************************************************************************)
(* The sizes of a frame (Frame): how many bytes of data it takes, and over *)
(* how many chunks a header and its data are spread.  The bytes themselves *)
(* are left out.                                                           *)
(***************************************************************************)
EXTENDS Integers

CONSTANTS
  ChunkSize, (* --chunk_size                                                 *)
  MaxChunks  (* --max_chunks                                                 *)

(* The assertion of Frame's constructor. *)
ASSUME CodecAssumption == ChunkSize \in Nat \ {0} /\ MaxChunks \in 1 .. 255

(* DATA_FRAME_HEADER_SIZE and CTRL_FRAME_HEADER_SIZE *)
HeaderSize == 6

(* The longest CTRL frames carry one number: HELLO and TS_RATE. *)
CtrlFrameSize == HeaderSize + 4

BufferSize == MaxChunks * ChunkSize

(* getDataFrameSpace *)
DataSpace == BufferSize - HeaderSize

(* The sizes setDataFrameSize takes; a read of nothing is no frame. *)
DataSize == 1 .. DataSpace

(* A header and data of total bytes, in whole chunks. *)
ChunksFor(total) == (total \div ChunkSize) + (IF total % ChunkSize > 0 THEN 1 ELSE 0)

(* _buffer[FRAME_CHUNKS_FIELD] is a char, and a char has a sign. *)
AsChar(n) == IF n % 256 < 128 THEN n % 256 ELSE (n % 256) - 256

(* getNumChunks of a DATA frame *)
NumChunks(size) == AsChar(ChunksFor(size + HeaderSize))

DataChunks == {NumChunks(size) : size \in DataSize}
=============================================================================
