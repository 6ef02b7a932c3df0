--------------------------- MODULE PipelineProofs ---------------------------
(***************************************************************************)
(* Proofs about Pipeline for every size of the image, of a chunk, of the   *)
(* ring and of the sync prefix: what hello prints is a prefix of the JPEG  *)
(* file, and hello stops exactly at its end.                               *)
(***************************************************************************)
EXTENDS Pipeline, SequenceTheorems, TLAPS

\* The chunk pushed at place k: the metadata, then the data from 0 on.
ChunkAt(k) == IF k = -1 THEN MetaChunk ELSE DataChunk(k)

\* The place of the next chunk hello will read.
NextRead == ci - Len(queue)

\* The part of spi_read_image: what has been clocked, what is left, and the
\* bytes of the file that are in image_buf.
ImageInStep ==
  /\ cam = "sync" => clocked + remaining = SPI_SYNC_BYTES
  /\ cam = "jpeg" => /\ clocked = SPI_SYNC_BYTES + offset
                     /\ offset + remaining = img_size
                     /\ \A i \in BufIndex : i < offset => image_buf[i] = i
  /\ cam \notin {"sync", "jpeg"} => \A i \in BufIndex : i < img_size => image_buf[i] = i

\* Before the metadata chunk is pushed, nothing has reached hello.
NothingPushed ==
  ci = 0 /\ queue = <<>> /\ hello = "read" /\ printed = <<>>

\* The ring holds consecutive chunks, the newest pushed last.
QueueInStep ==
  /\ NextRead >= -1
  /\ \A i \in 1 .. Len(queue) : queue[i] = ChunkAt(NextRead + i - 1)

\* What hello has printed, by the place of the next chunk.
HelloInStep ==
  /\ hello = "read"  => /\ NextRead < Total
                        /\ Len(printed) = IF NextRead <= 0 THEN 0 ELSE NextRead * CHUNK_SIZE
  /\ hello = "print" => /\ NextRead >= 1
                        /\ chunk = DataChunk(NextRead - 1)
                        /\ Len(printed) = (NextRead - 1) * CHUNK_SIZE
  /\ hello = "done"  => NextRead = Total /\ Len(printed) = img_size

\* The inductive invariant.
PipeInv ==
  /\ TypeOK
  /\ ImageInStep
  /\ cam \in {"sync", "jpeg", "check", "meta"} => NothingPushed
  /\ cam \in {"slice", "done"} => QueueInStep /\ HelloInStep
  /\ \A i \in 1 .. Len(printed) : printed[i] = i - 1

-----------------------------------------------------------------------------
(* The chunks.                                                             *)

\* The last of Total chunks begins before the end of the image and reaches it.
LEMMA TotalBounds ==
  ASSUME img_size \in 1 .. IMG_BUF_SIZE
  PROVE  /\ Total \in Nat \ {0}
         /\ (Total - 1) * CHUNK_SIZE < img_size
         /\ img_size <= Total * CHUNK_SIZE
<1> DEFINE n == img_size + CHUNK_SIZE - 1
           q == n \div CHUNK_SIZE
           r == n % CHUNK_SIZE
<1>1. CHUNK_SIZE \in Nat \ {0} /\ img_size \in Nat \ {0}
  BY PipelineAssumption
<1>2. q \in Nat /\ r \in 0 .. CHUNK_SIZE - 1 /\ n = q * CHUNK_SIZE + r
  BY <1>1, SMT
<1>3. q = Total
  BY DEF Total
<1> HIDE DEF q, r
<1>4. q # 0
  BY <1>1, <1>2
<1>5. (q - 1) * CHUNK_SIZE = q * CHUNK_SIZE - CHUNK_SIZE
  BY <1>1, <1>2
<1> QED
  BY <1>1, <1>2, <1>3, <1>4, <1>5

\* A chunk begins within the image.
LEMMA ChunkBegins ==
  ASSUME img_size \in 1 .. IMG_BUF_SIZE, NEW c \in 0 .. Total - 1
  PROVE  /\ c * CHUNK_SIZE \in 0 .. img_size - 1
         /\ c # Total - 1 => (c + 1) * CHUNK_SIZE < img_size
<1> DEFINE m == Total - 1
<1>1. CHUNK_SIZE \in Nat \ {0} /\ img_size \in Nat \ {0}
      /\ m \in Nat /\ c \in 0 .. m /\ m * CHUNK_SIZE < img_size
  BY PipelineAssumption, TotalBounds
<1> HIDE DEF m
<1>2. c * CHUNK_SIZE \in Nat /\ c * CHUNK_SIZE <= m * CHUNK_SIZE
  BY <1>1
<1>3. c # m => (c + 1) * CHUNK_SIZE <= m * CHUNK_SIZE
  BY <1>1
<1> QED
  BY <1>1, <1>2, <1>3 DEF m

\* The length and the flags of a chunk; all but the last are full.
LEMMA DataChunkLen ==
  ASSUME img_size \in 1 .. IMG_BUF_SIZE, NEW c \in 0 .. Total - 1
  PROVE  /\ DataChunk(c).len \in 1 .. CHUNK_SIZE
         /\ c * CHUNK_SIZE + DataChunk(c).len
              = IF c = Total - 1 THEN img_size ELSE (c + 1) * CHUNK_SIZE
         /\ c * CHUNK_SIZE + DataChunk(c).len <= img_size
         /\ DataChunk(c).is_last <=> c = Total - 1
         /\ DataChunk(c).is_meta = FALSE
<1> DEFINE off == c * CHUNK_SIZE
           m == Total - 1
<1>1. CHUNK_SIZE \in Nat \ {0} /\ img_size \in Nat \ {0} /\ off \in 0 .. img_size - 1
      /\ (c # m => (c + 1) * CHUNK_SIZE < img_size) /\ c \in Nat
  BY PipelineAssumption, ChunkBegins
<1>2. (c + 1) * CHUNK_SIZE = off + CHUNK_SIZE
  BY <1>1
<1>3. c = m => img_size <= off + CHUNK_SIZE
  <2> SUFFICES ASSUME c = m PROVE img_size <= off + CHUNK_SIZE
    OBVIOUS
  <2>1. Total \in Nat /\ Total = c + 1 /\ img_size <= Total * CHUNK_SIZE
    BY TotalBounds
  <2> QED
    BY <1>2, <2>1
<1>4. DataChunk(c).len = IF img_size - off > CHUNK_SIZE THEN CHUNK_SIZE ELSE img_size - off
  BY DEF DataChunk
<1>5. (DataChunk(c).is_last <=> c = m) /\ DataChunk(c).is_meta = FALSE
  BY DEF DataChunk
<1> HIDE DEF off, m
<1>6. DataChunk(c).len \in 1 .. CHUNK_SIZE
      /\ off + DataChunk(c).len = (IF c = m THEN img_size ELSE off + CHUNK_SIZE)
      /\ off + DataChunk(c).len <= img_size
  BY <1>1, <1>2, <1>3, <1>4
<1> QED
  BY <1>2, <1>5, <1>6 DEF off, m

LEMMA DataChunkType ==
  ASSUME TypeOK, NEW c \in 0 .. Total - 1
  PROVE  DataChunk(c) \in ChunkType
<1> DEFINE off == c * CHUNK_SIZE
           len == DataChunk(c).len
           data == [i \in Payload |-> IF i < len THEN image_buf[off + i] ELSE Zero]
<1>1. img_size \in 1 .. IMG_BUF_SIZE /\ image_buf \in [BufIndex -> Bytes]
  BY DEF TypeOK
<1>2. CHUNK_SIZE \in Nat \ {0} /\ IMG_BUF_SIZE \in Nat \ {0}
  BY PipelineAssumption
<1>3. off \in 0 .. img_size - 1 /\ len \in 1 .. CHUNK_SIZE
  BY <1>1, ChunkBegins, DataChunkLen
<1>4. off + len <= img_size
  BY <1>1, <1>2, <1>3, ChunkBegins, DataChunkLen
<1>5. DataChunk(c) = [data |-> data, len |-> len, is_last |-> c = Total - 1, is_meta |-> FALSE]
  BY DEF DataChunk
<1> HIDE DEF off, len
<1>6. data \in [Payload -> Bytes]
  BY <1>1, <1>2, <1>3, <1>4 DEF Payload, BufIndex, Bytes
<1> HIDE DEF data
<1>7. len \in 0 .. CHUNK_SIZE
  BY <1>2, <1>3
<1> QED
  BY <1>5, <1>6, <1>7 DEF ChunkType

LEMMA MetaChunkType ==
  ASSUME TypeOK
  PROVE  MetaChunk \in ChunkType /\ MetaChunk.is_meta
<1>1. meta_len \in 0 .. CHUNK_SIZE
  BY PipelineAssumption DEF TypeOK
<1> QED
  BY <1>1 DEF MetaChunk, ChunkType, Bytes

\* A chunk cut from a complete image holds the bytes at their places.
LEMMA DataChunkBytes ==
  ASSUME img_size \in 1 .. IMG_BUF_SIZE, NEW c \in 0 .. Total - 1,
         \A i \in BufIndex : i < img_size => image_buf[i] = i,
         NEW j \in 0 .. DataChunk(c).len - 1
  PROVE  DataChunk(c).data[j] = c * CHUNK_SIZE + j
<1> DEFINE off == c * CHUNK_SIZE
           len == DataChunk(c).len
<1>1. CHUNK_SIZE \in Nat \ {0} /\ IMG_BUF_SIZE \in Nat \ {0}
  BY PipelineAssumption
<1>2. off \in 0 .. img_size - 1 /\ len \in 1 .. CHUNK_SIZE /\ off + len <= img_size
  BY <1>1, ChunkBegins, DataChunkLen
<1>3. DataChunk(c).data = [i \in Payload |-> IF i < len THEN image_buf[off + i] ELSE Zero]
  BY DEF DataChunk
<1> HIDE DEF off, len
<1>4. j \in Payload /\ j < len /\ off + j \in BufIndex /\ off + j < img_size
  BY <1>1, <1>2 DEF Payload, BufIndex, len
<1> QED
  BY <1>3, <1>4 DEF off

\* The chunks do not change once the image is in image_buf.
LEMMA SameChunks ==
  ASSUME UNCHANGED <<img_size, meta_len, image_buf>>
  PROVE  Total' = Total /\ \A k : ChunkAt(k)' = ChunkAt(k) /\ DataChunk(k)' = DataChunk(k)
  BY DEF Total, ChunkAt, DataChunk, MetaChunk

-----------------------------------------------------------------------------
(* spi_read_image.                                                         *)

LEMMA InitPipeInv == Init => PipeInv
<1> SUFFICES ASSUME Init PROVE PipeInv
  OBVIOUS
<1>1. EmptyChunk \in ChunkType
  BY PipelineAssumption DEF EmptyChunk, ChunkType, Bytes
<1>2. img_size \in 1 .. IMG_BUF_SIZE
  BY DEF Init
<1>3. ci \in 0 .. Total
  BY <1>2, TotalBounds DEF Init
<1>4. image_buf \in [BufIndex -> Bytes]
  BY DEF Init, Bytes
<1>5. queue \in Seq(ChunkType) /\ Len(queue) = 0 /\ printed \in Seq(Bytes)
  BY DEF Init
<1>6. {clocked, remaining} \subseteq 0 .. SPI_SYNC_BYTES + IMG_BUF_SIZE /\ offset \in 0 .. IMG_BUF_SIZE
      /\ Len(queue) <= RB_DEPTH
  BY <1>5, PipelineAssumption DEF Init
<1>7. TypeOK
  BY <1>1, <1>3, <1>4, <1>5, <1>6 DEF Init, TypeOK
<1> QED
  BY <1>7, PipelineAssumption DEF Init, PipeInv, ImageInStep, NothingPushed

\* A block is not empty and not larger than what remains.
LEMMA XferRange ==
  ASSUME TypeOK, remaining > 0
  PROVE  Xfer \in 1 .. remaining
  BY PipelineAssumption DEF TypeOK, Xfer

LEMMA SpiSyncInv ==
  ASSUME PipeInv, SpiSync
  PROVE  PipeInv'
<1>1. TypeOK /\ cam = "sync" /\ clocked + remaining = SPI_SYNC_BYTES /\ NothingPushed
  BY DEF PipeInv, SpiSync, ImageInStep
<1>2. Xfer \in 1 .. remaining
  BY <1>1, XferRange DEF SpiSync
<1>3. clocked' \in 0 .. SPI_SYNC_BYTES /\ remaining' \in 0 .. SPI_SYNC_BYTES
      /\ clocked' + remaining' = SPI_SYNC_BYTES
  BY <1>1, <1>2, PipelineAssumption DEF SpiSync, TypeOK
<1>4. TypeOK'
  BY <1>1, <1>3, PipelineAssumption DEF SpiSync, TypeOK, Total
<1> QED
  BY <1>1, <1>3, <1>4 DEF PipeInv, SpiSync, ImageInStep, NothingPushed

LEMMA SpiSyncDoneInv ==
  ASSUME PipeInv, SpiSyncDone
  PROVE  PipeInv'
<1>1. TypeOK /\ cam = "sync" /\ clocked = SPI_SYNC_BYTES /\ NothingPushed
  BY PipelineAssumption DEF PipeInv, SpiSyncDone, ImageInStep, TypeOK
<1>2. TypeOK'
  BY <1>1, PipelineAssumption DEF SpiSyncDone, TypeOK, Total
<1> QED
  BY <1>1, <1>2, PipelineAssumption
     DEF PipeInv, SpiSyncDone, ImageInStep, NothingPushed, TypeOK, BufIndex

LEMMA SpiDataInv ==
  ASSUME PipeInv, SpiData
  PROVE  PipeInv'
<1> DEFINE n == Xfer
<1>1. TypeOK /\ cam = "jpeg" /\ NothingPushed /\ clocked = SPI_SYNC_BYTES + offset
      /\ offset + remaining = img_size
      /\ \A i \in BufIndex : i < offset => image_buf[i] = i
  BY DEF PipeInv, SpiData, ImageInStep
<1>2. n \in 1 .. remaining /\ remaining \in Nat /\ offset \in Nat /\ img_size \in 1 .. IMG_BUF_SIZE
      /\ IMG_BUF_SIZE \in Nat /\ SPI_SYNC_BYTES \in Nat /\ WordMod \in Nat /\ WordMod > IMG_BUF_SIZE
  BY <1>1, XferRange, PipelineAssumption DEF SpiData, TypeOK
<1>3. clocked' = clocked + n /\ offset' = offset + n /\ remaining' = (remaining - n) % WordMod
      /\ image_buf' = [i \in BufIndex |-> IF i \in offset .. offset + n - 1
                         THEN SpiByte(clocked + (i - offset)) ELSE image_buf[i]]
  BY DEF SpiData, CopyBlock
<1> HIDE DEF n
<1>4. remaining' = remaining - n
  <2>1. remaining - n \in 0 .. WordMod - 1 /\ WordMod \in Nat \ {0}
    BY <1>1, <1>2
  <2> QED
    BY <1>3, <2>1
<1>5. \A i \in BufIndex : i \in offset .. offset + n - 1 => SpiByte(clocked + (i - offset)) = i
  BY <1>1, <1>2 DEF SpiByte, BufIndex
<1>6. \A i \in BufIndex : image_buf'[i] = IF i \in offset .. offset + n - 1 THEN i ELSE image_buf[i]
  BY <1>3, <1>5
<1>7. image_buf' \in [BufIndex -> Bytes]
  <2>1. \A i \in BufIndex : image_buf'[i] \in Bytes
    BY <1>1, <1>6 DEF TypeOK, Bytes
  <2> QED
    BY <1>3, <2>1
<1>8. \A i \in BufIndex : i < offset' => image_buf'[i] = i
  BY <1>1, <1>2, <1>3, <1>6 DEF BufIndex
<1>9. clocked' \in 0 .. SPI_SYNC_BYTES + IMG_BUF_SIZE /\ offset' \in 0 .. IMG_BUF_SIZE
      /\ remaining' \in 0 .. SPI_SYNC_BYTES + IMG_BUF_SIZE
      /\ clocked' = SPI_SYNC_BYTES + offset' /\ offset' + remaining' = img_size
  BY <1>1, <1>2, <1>3, <1>4
<1>10. TypeOK'
  BY <1>1, <1>7, <1>9 DEF SpiData, TypeOK, Total
<1> QED
  BY <1>1, <1>8, <1>9, <1>10 DEF PipeInv, SpiData, ImageInStep, NothingPushed

LEMMA SpiDoneInv ==
  ASSUME PipeInv, SpiDone
  PROVE  PipeInv'
<1>1. TypeOK /\ NothingPushed /\ cam = "jpeg" /\ offset = img_size
      /\ \A i \in BufIndex : i < offset => image_buf[i] = i
  BY PipelineAssumption DEF PipeInv, SpiDone, ImageInStep, TypeOK
<1>2. TypeOK'
  BY <1>1 DEF SpiDone, TypeOK, Total
<1> QED
  BY <1>1, <1>2 DEF PipeInv, SpiDone, ImageInStep, NothingPushed

LEMMA CheckMarkersInv ==
  ASSUME PipeInv, CheckMarkers
  PROVE  PipeInv'
<1>1. TypeOK'
  BY DEF PipeInv, CheckMarkers, TypeOK, Total
<1> QED
  BY <1>1 DEF PipeInv, CheckMarkers, ImageInStep, NothingPushed

-----------------------------------------------------------------------------
(* rb_push and hello.                                                      *)

LEMMA PushMetaInv ==
  ASSUME PipeInv, PushMeta
  PROVE  PipeInv'
<1>1. TypeOK /\ NothingPushed /\ cam = "meta" /\ printed = <<>>
      /\ \A i \in BufIndex : i < img_size => image_buf[i] = i
  BY DEF PipeInv, PushMeta, ImageInStep, NothingPushed
<1>2. MetaChunk \in ChunkType
  BY <1>1, MetaChunkType
<1>3. queue' = <<MetaChunk>> /\ Len(queue') = 1 /\ queue'[1] = MetaChunk /\ queue' \in Seq(ChunkType)
  BY <1>1, <1>2 DEF PushMeta, RbPush, NothingPushed
<1>4. TypeOK'
  BY <1>1, <1>3, PipelineAssumption DEF PushMeta, TypeOK, Total
<1>5. NextRead' = -1 /\ Len(printed') = 0 /\ hello' = "read"
  BY <1>1, <1>3 DEF PushMeta, NothingPushed, NextRead
<1>6. \A k : ChunkAt(k)' = ChunkAt(k)
  BY SameChunks DEF PushMeta
<1>7. QueueInStep'
  <2>1. ChunkAt(-1) = MetaChunk
    BY DEF ChunkAt
  <2> QED
    BY <1>3, <1>5, <1>6, <2>1 DEF QueueInStep
<1>8. HelloInStep'
  <2>1. Total' \in Nat \ {0}
    BY <1>1, TotalBounds, SameChunks DEF PushMeta, TypeOK
  <2> QED
    BY <1>5, <2>1 DEF HelloInStep
<1> QED
  BY <1>1, <1>4, <1>7, <1>8 DEF PipeInv, PushMeta, ImageInStep

\* What the invariant says while the chunks are on their way.
LEMMA SliceFacts ==
  ASSUME PipeInv, cam \in {"slice", "done"}
  PROVE  /\ TypeOK /\ QueueInStep /\ HelloInStep
         /\ \A i \in BufIndex : i < img_size => image_buf[i] = i
         /\ Total \in Nat \ {0} /\ ci \in 0 .. Total
         /\ Len(queue) \in Nat /\ NextRead \in -1 .. ci /\ CHUNK_SIZE \in Nat \ {0}
         /\ img_size \in 1 .. IMG_BUF_SIZE
<1>1. TypeOK /\ QueueInStep /\ HelloInStep /\ \A i \in BufIndex : i < img_size => image_buf[i] = i
  BY DEF PipeInv, ImageInStep
<1>2. Total \in Nat \ {0} /\ ci \in 0 .. Total /\ Len(queue) \in Nat
  BY <1>1, TotalBounds, LenProperties DEF TypeOK
<1>3. NextRead \in -1 .. ci
  BY <1>1, <1>2 DEF QueueInStep, NextRead
<1> QED
  BY <1>1, <1>2, <1>3, PipelineAssumption DEF TypeOK

LEMMA PushDataInv ==
  ASSUME PipeInv, PushData
  PROVE  PipeInv'
<1>1. /\ TypeOK /\ QueueInStep /\ HelloInStep
      /\ \A i \in BufIndex : i < img_size => image_buf[i] = i
      /\ Total \in Nat \ {0} /\ ci \in 0 .. Total
      /\ Len(queue) \in Nat /\ NextRead \in -1 .. ci
  BY SliceFacts DEF PushData
<1>2. ci \in 0 .. Total - 1 /\ ci' = ci + 1
  BY <1>1 DEF PushData
<1>3. DataChunk(ci) \in ChunkType
  BY <1>1, <1>2, DataChunkType
<1>4. queue' = Append(queue, DataChunk(ci)) /\ queue' \in Seq(ChunkType)
      /\ Len(queue') = Len(queue) + 1 /\ Len(queue') <= RB_DEPTH
      /\ queue'[Len(queue) + 1] = DataChunk(ci)
      /\ \A i \in 1 .. Len(queue) : queue'[i] = queue[i]
  BY <1>1, <1>3, AppendProperties, PipelineAssumption DEF PushData, RbPush, TypeOK
<1>5. Total' = Total /\ \A k : ChunkAt(k)' = ChunkAt(k) /\ DataChunk(k)' = DataChunk(k)
  BY SameChunks DEF PushData
<1>6. TypeOK'
  BY <1>1, <1>2, <1>4, <1>5 DEF PushData, TypeOK
<1>7. NextRead' = NextRead /\ NextRead + Len(queue) = ci
  BY <1>1, <1>2, <1>4 DEF NextRead
<1>8. QueueInStep'
  <2>1. ASSUME NEW i \in 1 .. Len(queue) + 1 PROVE queue'[i] = ChunkAt(NextRead + i - 1)
    <3>1. CASE i = Len(queue) + 1
      <4>1. NextRead + i - 1 = ci /\ ci # -1
        BY <1>1, <1>2, <1>7, <3>1
      <4> QED
        BY <1>4, <3>1, <4>1 DEF ChunkAt
    <3>2. CASE i # Len(queue) + 1
      <4>1. i \in 1 .. Len(queue)
        BY <1>1, <3>2
      <4> QED
        BY <1>1, <1>4, <4>1 DEF QueueInStep
    <3> QED
      BY <3>1, <3>2
  <2> QED
    BY <1>1, <1>4, <1>5, <1>7, <2>1 DEF QueueInStep
<1>9. HelloInStep'
  BY <1>1, <1>5, <1>7 DEF HelloInStep, PushData
<1> QED
  BY <1>1, <1>6, <1>8, <1>9 DEF PipeInv, PushData, ImageInStep

LEMMA CamDoneInv ==
  ASSUME PipeInv, CamDone
  PROVE  PipeInv'
<1>1. TypeOK /\ QueueInStep /\ HelloInStep
      /\ \A i \in BufIndex : i < img_size => image_buf[i] = i
  BY SliceFacts DEF CamDone
<1>2. Total' = Total /\ (\A k : ChunkAt(k)' = ChunkAt(k) /\ DataChunk(k)' = DataChunk(k))
      /\ NextRead' = NextRead
  BY SameChunks DEF CamDone, NextRead
<1>3. TypeOK'
  BY <1>1, <1>2 DEF CamDone, TypeOK
<1>4. QueueInStep' /\ HelloInStep'
  BY <1>1, <1>2 DEF CamDone, QueueInStep, HelloInStep
<1> QED
  BY <1>1, <1>3, <1>4 DEF PipeInv, CamDone, ImageInStep

LEMMA HelloReadInv ==
  ASSUME PipeInv, HelloRead
  PROVE  PipeInv'
<1>0. cam \in {"slice", "done"}
  BY DEF PipeInv, HelloRead, NothingPushed, TypeOK
<1>1. /\ TypeOK /\ QueueInStep /\ HelloInStep
      /\ \A i \in BufIndex : i < img_size => image_buf[i] = i
      /\ Total \in Nat \ {0} /\ ci \in 0 .. Total
      /\ Len(queue) \in Nat /\ NextRead \in -1 .. ci
      /\ CHUNK_SIZE \in Nat \ {0} /\ img_size \in 1 .. IMG_BUF_SIZE
  BY <1>0, SliceFacts
<1>2. queue # <<>> /\ hello = "read" /\ chunk' = Head(queue) /\ queue' = Tail(queue)
  BY DEF HelloRead
<1>3. Head(queue) = queue[1] /\ Head(queue) \in ChunkType
      /\ queue' \in Seq(ChunkType) /\ Len(queue') = Len(queue) - 1 /\ Len(queue) >= 1
      /\ \A i \in 1 .. Len(queue) - 1 : queue'[i] = queue[i + 1]
  BY <1>1, <1>2, HeadTailProperties, EmptySeq DEF TypeOK
<1>4. Total' = Total /\ \A k : ChunkAt(k)' = ChunkAt(k) /\ DataChunk(k)' = DataChunk(k)
  BY SameChunks DEF HelloRead
<1>5. NextRead' = NextRead + 1
  BY <1>1, <1>3 DEF NextRead, HelloRead
<1>6. Head(queue) = ChunkAt(NextRead)
  <2>1. NextRead + 1 - 1 = NextRead /\ 1 \in 1 .. Len(queue)
    BY <1>1, <1>3
  <2> QED
    BY <1>1, <1>3, <2>1 DEF QueueInStep
<1>7. NextRead < Total /\ Len(printed) = IF NextRead <= 0 THEN 0 ELSE NextRead * CHUNK_SIZE
  BY <1>1, <1>2 DEF HelloInStep
<1>8. hello' = IF NextRead = -1 THEN "read" ELSE "print"
  <2>1. CASE NextRead = -1
    BY <1>1, <1>6, <2>1, MetaChunkType DEF ChunkAt, HelloRead
  <2>2. CASE NextRead # -1
    <3>1. NextRead \in 0 .. Total - 1
      BY <1>1, <1>7, <2>2
    <3> QED
      BY <1>1, <1>6, <2>2, <3>1, DataChunkLen DEF ChunkAt, HelloRead
  <2> QED
    BY <2>1, <2>2
<1>9. TypeOK'
  BY <1>1, <1>2, <1>3, <1>4, <1>8, PipelineAssumption DEF HelloRead, TypeOK
<1>10. QueueInStep'
  <2>1. ASSUME NEW i \in 1 .. Len(queue') PROVE queue'[i] = ChunkAt(NextRead' + i - 1)
    <3>1. i + 1 \in 1 .. Len(queue) /\ NextRead + (i + 1) - 1 = NextRead' + i - 1
          /\ queue'[i] = queue[i + 1]
      BY <1>1, <1>3, <1>5
    <3> QED
      BY <1>1, <3>1 DEF QueueInStep
  <2> QED
    BY <1>1, <1>4, <1>5, <2>1 DEF QueueInStep
<1>11. HelloInStep'
  <2>1. printed' = printed
    BY DEF HelloRead
  <2>2. CASE NextRead = -1
    BY <1>1, <1>4, <1>5, <1>7, <1>8, <2>1, <2>2 DEF HelloInStep
  <2>3. CASE NextRead # -1
    <3>1. NextRead' >= 1 /\ NextRead' - 1 = NextRead /\ hello' = "print"
          /\ chunk' = DataChunk(NextRead) /\ Len(printed) = NextRead * CHUNK_SIZE
      BY <1>1, <1>2, <1>5, <1>6, <1>7, <1>8, <2>3 DEF ChunkAt
    <3> QED
      BY <1>4, <2>1, <3>1 DEF HelloInStep
  <2> QED
    BY <2>2, <2>3
<1> QED
  BY <1>0, <1>1, <1>9, <1>10, <1>11 DEF PipeInv, HelloRead, ImageInStep

LEMMA HelloPrintInv ==
  ASSUME PipeInv, HelloPrint
  PROVE  PipeInv'
<1>0. cam \in {"slice", "done"}
  BY DEF PipeInv, HelloPrint, NothingPushed, TypeOK
<1>1. /\ TypeOK /\ QueueInStep /\ HelloInStep
      /\ \A i \in BufIndex : i < img_size => image_buf[i] = i
      /\ Total \in Nat \ {0} /\ ci \in 0 .. Total
      /\ Len(queue) \in Nat /\ NextRead \in -1 .. ci
      /\ CHUNK_SIZE \in Nat \ {0} /\ img_size \in 1 .. IMG_BUF_SIZE
  BY <1>0, SliceFacts
<1> DEFINE c == NextRead - 1
           off == c * CHUNK_SIZE
           hex == HexOf(chunk)
<1>2. c \in 0 .. Total - 1 /\ NextRead = c + 1 /\ chunk = DataChunk(c) /\ Len(printed) = off
      /\ hello = "print"
  BY <1>1 DEF HelloInStep, HelloPrint
<1> HIDE DEF c
<1>3. chunk.len \in 1 .. CHUNK_SIZE /\ chunk \in ChunkType
      /\ off + chunk.len = (IF c = Total - 1 THEN img_size ELSE (c + 1) * CHUNK_SIZE)
      /\ (chunk.is_last <=> c = Total - 1)
      /\ off \in 0 .. img_size - 1
  BY <1>1, <1>2, DataChunkLen, ChunkBegins DEF TypeOK
<1>4. \A j \in 0 .. chunk.len - 1 : chunk.data[j] = off + j
  BY <1>1, <1>2, DataChunkBytes
<1>5. hex \in Seq(Bytes) /\ Len(hex) = chunk.len /\ \A i \in 1 .. chunk.len : hex[i] = off + i - 1
  <2>1. chunk.len \in Nat /\ chunk.data \in [Payload -> Bytes]
        /\ \A i \in 1 .. chunk.len : i - 1 \in Payload /\ i - 1 \in 0 .. chunk.len - 1
    BY <1>1, <1>3 DEF ChunkType, Payload
  <2>2. hex = [i \in 1 .. chunk.len |-> chunk.data[i - 1]]
    BY DEF HexOf
  <2>3. \A i \in 1 .. chunk.len : chunk.data[i - 1] \in Bytes
    BY <2>1
  <2>4. hex \in Seq(Bytes) /\ Len(hex) = chunk.len
    BY <2>1, <2>2, <2>3
  <2>5. \A i \in 1 .. chunk.len : hex[i] = off + i - 1
    BY <1>3, <1>4, <2>1, <2>2
  <2> QED
    BY <2>4, <2>5
<1> HIDE DEF hex, off
<1>6. printed' = printed \o hex
  BY DEF HelloPrint, hex
<1>7. printed' \in Seq(Bytes) /\ Len(printed') = off + chunk.len
      /\ \A i \in 1 .. off + chunk.len :
           printed'[i] = IF i <= off THEN printed[i] ELSE hex[i - off]
  <2>1. printed \in Seq(Bytes) /\ chunk.len \in Nat /\ off \in Nat
    BY <1>1, <1>3 DEF TypeOK
  <2>2. /\ printed \o hex \in Seq(Bytes)
        /\ Len(printed \o hex) = Len(printed) + Len(hex)
        /\ \A i \in 1 .. Len(printed) + Len(hex) : (printed \o hex)[i] =
              IF i <= Len(printed) THEN printed[i] ELSE hex[i - Len(printed)]
    BY <1>5, <2>1, ConcatProperties
  <2> QED
    BY <1>2, <1>5, <1>6, <2>1, <2>2
<1>8. \A i \in 1 .. Len(printed') : printed'[i] = i - 1
  <2>1. \A i \in 1 .. off : printed[i] = i - 1
    BY <1>2 DEF PipeInv
  <2> QED
    BY <1>1, <1>3, <1>5, <1>7, <2>1
<1>9. Total' = Total /\ (\A k : ChunkAt(k)' = ChunkAt(k) /\ DataChunk(k)' = DataChunk(k))
      /\ NextRead' = NextRead /\ img_size' = img_size /\ chunk' = chunk
  BY SameChunks DEF HelloPrint, NextRead
<1>10. TypeOK'
  BY <1>1, <1>7, <1>9 DEF HelloPrint, TypeOK
<1>11. QueueInStep'
  BY <1>1, <1>9 DEF HelloPrint, QueueInStep
<1>12. HelloInStep'
  <2>1. CASE c = Total - 1
    <3>1. hello' = "done" /\ NextRead' = Total' /\ Len(printed') = img_size'
      BY <1>1, <1>2, <1>3, <1>7, <1>9, <2>1 DEF HelloPrint
    <3> QED
      BY <3>1 DEF HelloInStep
  <2>2. CASE c # Total - 1
    <3>1. hello' = "read" /\ NextRead' < Total' /\ NextRead' > 0
          /\ Len(printed') = NextRead' * CHUNK_SIZE
      BY <1>1, <1>2, <1>3, <1>7, <1>9, <2>2 DEF HelloPrint
    <3> QED
      BY <1>1, <1>9, <3>1 DEF HelloInStep
  <2> QED
    BY <2>1, <2>2
<1> QED
  BY <1>0, <1>1, <1>8, <1>10, <1>11, <1>12 DEF PipeInv, HelloPrint, ImageInStep

-----------------------------------------------------------------------------
(* The theorems.                                                           *)

LEMMA NextPipeInv ==
  ASSUME PipeInv, [Next]_vars
  PROVE  PipeInv'
<1>1. CASE Camera
  BY <1>1, SpiSyncInv, SpiSyncDoneInv, SpiDataInv, SpiDoneInv, CheckMarkersInv,
     PushMetaInv, PushDataInv, CamDoneInv DEF Camera
<1>2. CASE Hello
  BY <1>2, HelloReadInv, HelloPrintInv DEF Hello
<1>3. CASE UNCHANGED vars
  <2>1. Total' = Total /\ (\A k : ChunkAt(k)' = ChunkAt(k) /\ DataChunk(k)' = DataChunk(k))
        /\ NextRead' = NextRead
    BY <1>3, SameChunks DEF vars, NextRead
  <2>2. TypeOK' <=> TypeOK
    BY <1>3, <2>1 DEF vars, TypeOK
  <2>3. (QueueInStep' <=> QueueInStep) /\ (HelloInStep' <=> HelloInStep)
    BY <1>3, <2>1 DEF vars, QueueInStep, HelloInStep
  <2> QED
    BY <1>3, <2>2, <2>3 DEF vars, PipeInv, ImageInStep, NothingPushed
<1> QED
  BY <1>1, <1>2, <1>3 DEF Next

\* The inductive invariant of the way from the SPI bus to the console.
THEOREM PipeInvariant == Spec => []PipeInv
<1>1. Init => PipeInv
  BY InitPipeInv
<1>2. PipeInv /\ [Next]_vars => PipeInv'
  BY NextPipeInv
<1> QED
  BY <1>1, <1>2, PTL DEF Spec

\* No index of spi_read_image or of the slicing loop leaves its buffer, although
\* remaining is unsigned, and no length exceeds the payload of a chunk.
THEOREM PipeTypeCorrect == Spec => []TypeOK
<1>1. PipeInv => TypeOK
  BY DEF PipeInv
<1> QED
  BY <1>1, PipeInvariant, PTL

\* hello's output is at every instant a prefix of the file.
THEOREM OutputIsPrefix == Spec => []PrintedIsPrefix
<1>1. ASSUME PipeInv PROVE PrintedIsPrefix
  <2>1. TypeOK /\ img_size \in 1 .. IMG_BUF_SIZE /\ IMG_BUF_SIZE \in Nat
    BY <1>1, PipelineAssumption DEF PipeInv, TypeOK
  <2>2. Len(printed) <= img_size
    <3>1. CASE cam \in {"sync", "jpeg", "check", "meta"}
      BY <1>1, <2>1, <3>1 DEF PipeInv, NothingPushed
    <3>2. CASE cam \in {"slice", "done"}
      <4>1. HelloInStep /\ Total \in Nat \ {0} /\ ci \in 0 .. Total /\ NextRead \in -1 .. ci
        BY <1>1, <3>2, SliceFacts
      <4>2. \A k \in 0 .. Total - 1 : k * CHUNK_SIZE \in 0 .. img_size - 1
        BY <2>1, ChunkBegins
      <4>3. CASE hello = "read"
        BY <2>1, <4>1, <4>2, <4>3 DEF HelloInStep
      <4>4. CASE hello = "print"
        <5>1. NextRead - 1 \in 0 .. Total - 1
          BY <4>1, <4>4 DEF HelloInStep
        <5> QED
          BY <2>1, <4>1, <4>2, <4>4, <5>1 DEF HelloInStep
      <4>5. CASE hello = "done"
        BY <2>1, <4>1, <4>5 DEF HelloInStep
      <4> QED
        BY <2>1, <4>3, <4>4, <4>5 DEF TypeOK
    <3> QED
      BY <2>1, <3>1, <3>2 DEF TypeOK
  <2> QED
    BY <1>1, <2>2 DEF PipeInv, PrintedIsPrefix
<1> QED
  BY <1>1, PipeInvariant, PTL

\* hello stops with the whole image printed and the ring empty.
THEOREM HelloStopsAtTheEnd == Spec => []StopsAtTheEnd
<1>1. ASSUME PipeInv PROVE StopsAtTheEnd
  <2> SUFFICES ASSUME hello = "done" PROVE Len(printed) = img_size /\ ci = Total /\ queue = <<>>
    BY DEF StopsAtTheEnd
  <2>1. cam \in {"slice", "done"}
    BY <1>1 DEF PipeInv, NothingPushed, TypeOK
  <2>2. /\ TypeOK /\ NextRead = Total /\ Len(printed) = img_size
        /\ Total \in Nat \ {0} /\ ci \in 0 .. Total /\ Len(queue) \in Nat
    BY <1>1, <2>1, SliceFacts DEF HelloInStep
  <2>3. ci = Total /\ Len(queue) = 0
    BY <2>2 DEF NextRead
  <2> QED
    BY <2>2, <2>3, EmptySeq DEF TypeOK
<1> QED
  BY <1>1, PipeInvariant, PTL
=============================================================================
