------------------------------ MODULE Pipeline ------------------------------
(***************************************************************************)
(* The image's way from the SPI bus to the console: spi_read_image, the    *)
(* slicing loop and rb_push of camera_MSN2_main on one side, hello_main on *)
(* the other, and the ring buffer between them.  rb_write and rb_read are  *)
(* the atomic operations of ChunkFifo, which ring_buffer.c implements      *)
(* (RingBufferFifoProofs); rb_init has returned before hello's first read. *)
(*                                                                         *)
(* A byte stands for its place in the JPEG file, so that any loss,         *)
(* repetition or exchange of bytes shows.                                  *)
(***************************************************************************)
EXTENDS Integers, Sequences

CONSTANTS
  CHUNK_SIZE,      \* payload bytes of a chunk, and of an SPI block
  RB_DEPTH,        \* slots of the ring buffer
  IMG_BUF_SIZE,    \* bytes of image_buf
  META_BUF_SIZE,   \* bytes of meta_buf
  SPI_SYNC_BYTES,  \* zero bytes OpenMV sends before the JPEG
  WordMod,         \* uint32_t arithmetic is modulo WordMod (2^32)
  Zero,            \* a byte cleared by memset, or a sync byte
  MetaByte         \* a byte of the metadata string

ASSUME PipelineAssumption ==
  /\ CHUNK_SIZE \in Nat \ {0}
  /\ RB_DEPTH \in Nat \ {0}
  /\ IMG_BUF_SIZE \in Nat \ {0}
  /\ META_BUF_SIZE \in 2 .. CHUNK_SIZE + 1
  /\ SPI_SYNC_BYTES \in Nat
  /\ WordMod \in Nat /\ WordMod > IMG_BUF_SIZE + CHUNK_SIZE
  /\ Zero \notin Nat /\ MetaByte \notin Nat

VARIABLES
  img_size,   \* the size OpenMV announced, checked against IMG_BUF_SIZE
  meta_len,   \* the length of the metadata, checked against META_BUF_SIZE
  cam,        \* the camera task: "sync", "jpeg", "check", "meta", "slice", "done"
  clocked,    \* bytes clocked out of OpenMV since SPI_SELECT
  remaining,  \* local of spi_read_image
  offset,     \* local of spi_read_image
  image_buf,
  ci,         \* index of the next data chunk to push
  queue,      \* the ring buffer
  hello,      \* the hello task: "read", "print", "done"
  chunk,      \* hello's local chunk
  printed     \* the bytes hello printed in hex

vars == <<img_size, meta_len, cam, clocked, remaining, offset, image_buf, ci,
          queue, hello, chunk, printed>>

BufIndex == 0 .. IMG_BUF_SIZE - 1
Payload  == 0 .. CHUNK_SIZE - 1

\* OpenMV sends SPI_SYNC_BYTES zeros, then the JPEG.
SpiByte(n) == IF n < SPI_SYNC_BYTES THEN Zero ELSE n - SPI_SYNC_BYTES

\* (remaining < SPI_XFER_SIZE) ? remaining : SPI_XFER_SIZE
Xfer == IF remaining < CHUNK_SIZE THEN remaining ELSE CHUNK_SIZE

EmptyChunk ==
  [data |-> [i \in Payload |-> Zero], len |-> 0, is_last |-> FALSE, is_meta |-> FALSE]

\* Any header the camera accepts: the sizes have passed its checks.
Init ==
  /\ img_size \in 1 .. IMG_BUF_SIZE
  /\ meta_len \in 1 .. META_BUF_SIZE - 1
  /\ cam = "sync"
  /\ clocked = 0
  /\ remaining = SPI_SYNC_BYTES
  /\ offset = 0
  /\ image_buf = [i \in BufIndex |-> Zero]
  /\ ci = 0
  /\ queue = <<>>
  /\ hello = "read"
  /\ chunk = EmptyChunk
  /\ printed = <<>>

-----------------------------------------------------------------------------
(* spi_read_image                                                          *)

SpiSync ==
  /\ cam = "sync"
  /\ remaining > 0
  /\ clocked' = clocked + Xfer
  /\ remaining' = remaining - Xfer
  /\ UNCHANGED <<img_size, meta_len, cam, offset, image_buf, ci, queue,
                 hello, chunk, printed>>

\* Mutant of SpiSyncDone: the last block of zeros is not discarded.
SpiSyncDoneEarly ==
  /\ cam = "sync"
  /\ remaining <= CHUNK_SIZE
  /\ cam' = "jpeg"
  /\ remaining' = img_size
  /\ offset' = 0
  /\ UNCHANGED <<img_size, meta_len, clocked, image_buf, ci, queue,
                 hello, chunk, printed>>

SpiSyncDone ==
  /\ cam = "sync"
  /\ remaining = 0
  /\ cam' = "jpeg"
  /\ remaining' = img_size
  /\ offset' = 0
  /\ UNCHANGED <<img_size, meta_len, clocked, image_buf, ci, queue,
                 hello, chunk, printed>>

\* SPI_EXCHANGE into spi_rx, then memcpy of n bytes to &buf[offset].
CopyBlock(n) ==
  /\ clocked' = clocked + n
  /\ image_buf' = [i \in BufIndex |->
                     IF i \in offset .. offset + n - 1
                     THEN SpiByte(clocked + (i - offset)) ELSE image_buf[i]]
  /\ offset' = offset + n
  /\ remaining' = (remaining - n) % WordMod

\* Mutant of SpiData: the last block is read at its full size.
SpiDataWholeBlocks ==
  /\ cam = "jpeg"
  /\ remaining > 0
  /\ CopyBlock(CHUNK_SIZE)
  /\ UNCHANGED <<img_size, meta_len, cam, ci, queue, hello, chunk, printed>>

SpiData ==
  /\ cam = "jpeg"
  /\ remaining > 0
  /\ CopyBlock(Xfer)
  /\ UNCHANGED <<img_size, meta_len, cam, ci, queue, hello, chunk, printed>>

SpiDone ==
  /\ cam = "jpeg"
  /\ remaining = 0
  /\ cam' = "check"
  /\ UNCHANGED <<img_size, meta_len, clocked, remaining, offset, image_buf, ci,
                 queue, hello, chunk, printed>>

\* The indices of image_buf the JPEG marker check reads: bytes 0 to 2, and
\* the last two, for trl_ok when img_size >= 2 and otherwise for the warning.
MarkerReads == {0, 1, 2, (img_size - 2) % WordMod, img_size - 1}

CheckMarkers ==
  /\ cam = "check"
  /\ cam' = "meta"
  /\ UNCHANGED <<img_size, meta_len, clocked, remaining, offset, image_buf, ci,
                 queue, hello, chunk, printed>>

-----------------------------------------------------------------------------
(* The chunks                                                              *)

\* rb_push retries every 500 us while the ring is full: the retries change
\* nothing, so it waits for a free slot.
RbPush(c) ==
  /\ Len(queue) < RB_DEPTH
  /\ queue' = Append(queue, c)

MetaChunk ==
  [data    |-> [i \in Payload |-> IF i < meta_len THEN MetaByte ELSE Zero],
   len     |-> meta_len,
   is_last |-> FALSE,
   is_meta |-> TRUE]

\* Mutant of Total: the division rounds down.
TotalRoundedDown == img_size \div CHUNK_SIZE

Total == (img_size + CHUNK_SIZE - 1) \div CHUNK_SIZE

\* Mutant of DataChunk: the last chunk is taken to be number total.
DataChunkLastMissed(c) ==
  LET off == c * CHUNK_SIZE
      len == IF img_size - off > CHUNK_SIZE THEN CHUNK_SIZE ELSE img_size - off
  IN  [data    |-> [i \in Payload |-> IF i < len THEN image_buf[off + i] ELSE Zero],
       len     |-> len,
       is_last |-> c = Total,
       is_meta |-> FALSE]

DataChunk(c) ==
  LET off == c * CHUNK_SIZE
      len == IF img_size - off > CHUNK_SIZE THEN CHUNK_SIZE ELSE img_size - off
  IN  [data    |-> [i \in Payload |-> IF i < len THEN image_buf[off + i] ELSE Zero],
       len     |-> len,
       is_last |-> c = Total - 1,
       is_meta |-> FALSE]

PushMeta ==
  /\ cam = "meta"
  /\ RbPush(MetaChunk)
  /\ cam' = "slice"
  /\ UNCHANGED <<img_size, meta_len, clocked, remaining, offset, image_buf, ci,
                 hello, chunk, printed>>

PushData ==
  /\ cam = "slice"
  /\ ci < Total
  /\ RbPush(DataChunk(ci))
  /\ ci' = ci + 1
  /\ UNCHANGED <<img_size, meta_len, cam, clocked, remaining, offset, image_buf,
                 hello, chunk, printed>>

CamDone ==
  /\ cam = "slice"
  /\ ci = Total
  /\ cam' = "done"
  /\ UNCHANGED <<img_size, meta_len, clocked, remaining, offset, image_buf, ci,
                 queue, hello, chunk, printed>>

-----------------------------------------------------------------------------
(* hello_main.  An empty ring makes it sleep and try again.                *)

HelloRead ==
  /\ hello = "read"
  /\ queue # <<>>
  /\ chunk' = Head(queue)
  /\ queue' = Tail(queue)
  /\ hello' = IF Head(queue).is_meta THEN "read" ELSE "print"
  /\ UNCHANGED <<img_size, meta_len, cam, clocked, remaining, offset, image_buf,
                 ci, printed>>

HexOf(c) == [i \in 1 .. c.len |-> c.data[i - 1]]

HelloPrint ==
  /\ hello = "print"
  /\ printed' = printed \o HexOf(chunk)
  /\ hello' = IF chunk.is_last THEN "done" ELSE "read"
  /\ UNCHANGED <<img_size, meta_len, cam, clocked, remaining, offset, image_buf,
                 ci, queue, chunk>>

-----------------------------------------------------------------------------
Camera == SpiSync \/ SpiSyncDone \/ SpiData \/ SpiDone \/ CheckMarkers
            \/ PushMeta \/ PushData \/ CamDone
Hello  == HelloRead \/ HelloPrint

Next == Camera \/ Hello

Spec == Init /\ [][Next]_vars

(* Both tasks have priority 100 and are scheduled round robin, and both    *)
(* sleep when they cannot go on: each is run again and again.              *)
FairSpec == Spec /\ WF_vars(Camera) /\ WF_vars(Hello)

-----------------------------------------------------------------------------
(* Properties                                                              *)

Bytes     == BufIndex \cup {Zero, MetaByte}
ChunkType == [data : [Payload -> Bytes], len : 0 .. CHUNK_SIZE,
              is_last : BOOLEAN, is_meta : BOOLEAN]

\* Type invariant: remaining and offset never leave the image although they
\* are unsigned, every len fits the payload, the ring holds at most RB_DEPTH.
TypeOK ==
  /\ img_size \in 1 .. IMG_BUF_SIZE
  /\ meta_len \in 1 .. META_BUF_SIZE - 1
  /\ cam \in {"sync", "jpeg", "check", "meta", "slice", "done"}
  /\ clocked \in 0 .. SPI_SYNC_BYTES + IMG_BUF_SIZE
  /\ remaining \in 0 .. SPI_SYNC_BYTES + IMG_BUF_SIZE
  /\ offset \in 0 .. IMG_BUF_SIZE
  /\ image_buf \in [BufIndex -> Bytes]
  /\ ci \in 0 .. Total
  /\ queue \in Seq(ChunkType) /\ Len(queue) <= RB_DEPTH
  /\ hello \in {"read", "print", "done"}
  /\ chunk \in ChunkType
  /\ printed \in Seq(Bytes)

\* What hello has printed at any instant is a prefix of the JPEG file: no
\* byte lost, repeated or exchanged, no metadata and no padding in between.
PrintedIsPrefix ==
  /\ Len(printed) <= img_size
  /\ \A i \in 1 .. Len(printed) : printed[i] = i - 1

\* hello stops exactly when the whole image is out: the chunk marked is_last
\* is the last one, and no chunk is left in the ring for the next launch.
StopsAtTheEnd ==
  hello = "done" => Len(printed) = img_size /\ ci = Total /\ queue = <<>>

\* The image arrives: hello prints it and both tasks end.
ImageDelivered == <>(hello = "done" /\ cam = "done")

\* README: the marker check "Reports header/trailer status": the bytes it
\* reports are bytes of image_buf.
MarkersInBounds == cam = "check" => MarkerReads \subseteq BufIndex
=============================================================================
