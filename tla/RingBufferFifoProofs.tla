------------------------ MODULE RingBufferFifoProofs ------------------------
(***************************************************************************)
(* ring_buffer.c implements ChunkFifo: every statement of every task maps  *)
(* to a step of the bounded FIFO or to none.  The call takes effect at the *)
(* update of count, at the check that makes it fail, or at the read of     *)
(* count by rb_count, rb_full and rb_empty.                                *)
(***************************************************************************)
EXTENDS RingBufferProofs, SequenceTheorems

\* The queue is the sequence of the chunks between the pointers.
LEMMA QueueType ==
  ASSUME RingInv
  PROVE  /\ Queue \in Seq(Chunks) /\ Len(Queue) = count
         /\ count \in Nat
         /\ \A i \in 1 .. count : Queue[i] = slots[SlotOf(i)].lo
<1>1. count \in Nat
  BY RingAssumption DEF RingInv, TypeOK
<1>2. \A i \in 1 .. count : slots[SlotOf(i)].lo \in Chunks
  BY DEF RingInv, HeldChunksWhole
<1> QED
  BY <1>1, <1>2 DEF Queue

\* A step that keeps the held slots keeps the queue.
LEMMA SameQueue ==
  ASSUME count' = count,
         \A i \in 1 .. count : slots'[SlotOf(i)'].lo = slots[SlotOf(i)].lo
  PROVE  Queue' = Queue
BY DEF Queue

\* The mapped control point and result of a task, one at a time.
LEMMA CtlGot ==
  ASSUME NEW t \in Tasks
  PROVE  /\ Ctl[t] = CASE pc[t] = "idle"   -> "idle"
                       [] pc[t] = "unlock" -> "done"
                       [] OTHER            -> "pending"
         /\ Got[t] = IF ReadDone(t) THEN buf[t].lo ELSE Zero
BY DEF Ctl, Got

-----------------------------------------------------------------------------
(* The statements the abstract queue does not see.                         *)

\* Between the call and its linearization point, and no slot that holds a
\* chunk touched: a stuttering step of the queue.
LEMMA PendingStutter ==
  ASSUME RingInv, NEW t \in Tasks,
         pc[t] \notin {"idle", "unlock"},
         NEW l \in PCs \ {"idle", "unlock"}, pc' = [pc EXCEPT ![t] = l],
         UNCHANGED <<count, op, ret>>,
         \A u \in Tasks \ {t} : buf'[u] = buf[u],
         RdBase' = RdBase,
         \A i \in 1 .. count : slots'[SlotOf(i)].lo = slots[SlotOf(i)].lo
  PROVE  UNCHANGED <<Queue, Ctl, op, ret, Got>>
<1>1. pc \in [Tasks -> PCs]
  BY DEF RingInv, TypeOK
<1>2. pc'[t] = l /\ \A u \in Tasks \ {t} : pc'[u] = pc[u]
  BY <1>1
<1>3. Ctl' = Ctl
  <2>1. \A u \in Tasks : Ctl'[u] = Ctl[u]
    BY <1>2 DEF Ctl
  <2> QED
    BY <2>1 DEF Ctl
<1>4. Got' = Got
  <2>1. \A u \in Tasks : Got'[u] = Got[u]
    BY <1>2 DEF Got, ReadDone
  <2> QED
    BY <2>1 DEF Got
<1>5. \A i \in 1 .. count : SlotOf(i)' = SlotOf(i)
  BY DEF SlotOf
<1>6. Queue' = Queue
  BY <1>5, SameQueue
<1> QED
  BY <1>3, <1>4, <1>6

\* Obtaining the lock changes nothing the abstract queue shows.
LEMMA LockStutters ==
  ASSUME RingInv, NEW t \in Tasks, Lock(t)
  PROVE  UNCHANGED <<Queue, Ctl, op, ret, Got>>
<1> USE DEF Lock, Goto
<1>1. pc \in [Tasks -> PCs] /\ op[t] \in Ops
  BY DEF RingInv, TypeOK
<1>2. Entry(op[t].fn) \in {"w_check", "r_check", "query"}
  BY <1>1 DEF Entry
<1>3. Entry(op[t].fn) \in PCs \ {"idle", "unlock"}
  BY <1>2 DEF PCs
<1>4. RdBase' = RdBase
  BY <1>1, <1>2 DEF RdBase, HolderAt
<1> QED
  BY <1>3, <1>4, PendingStutter

\* The statements of rb_write before count++ are stuttering steps.
LEMMA WriteStutters ==
  ASSUME RingInv, NEW t \in Tasks,
         WriteSlot(t) \/ WriteCopyLo(t) \/ WriteCopyHi(t) \/ WritePtr(t)
  PROVE  UNCHANGED <<Queue, Ctl, op, ret, Got>>
<1> DEFINE l == pc'[t]
<1>1. /\ pc[t] \in {"w_check", "w_lo", "w_hi", "w_ptr"}
      /\ l \in {"w_lo", "w_hi", "w_ptr", "w_count"}
      /\ pc' = [pc EXCEPT ![t] = l]
      /\ UNCHANGED <<count, op, ret, rd_ptr, holder, buf>>
  BY DEF WriteSlot, WriteCopyLo, WriteCopyHi, WritePtr, Goto, RingInv, TypeOK
<1> HIDE DEF l
<1>2. InCS(t) /\ l \in PCs \ {"idle", "lock"} /\ l \in PCs \ {"idle", "unlock"}
  BY <1>1 DEF InCS, PCs
<1>3. RdBase' = RdBase
  BY <1>1, <1>2, Alone, InsideFrame
<1>4. ASSUME NEW i \in 1 .. count
      PROVE  slots'[SlotOf(i)].lo = slots[SlotOf(i)].lo
  <2>1. CASE slots' = slots
    BY <2>1
  <2>2. CASE WriteCopyLo(t) \/ WriteCopyHi(t)
    <3>1. slot[t] = WrBase % RB_DEPTH /\ count < RB_DEPTH
      BY <2>2 DEF WriteCopyLo, WriteCopyHi, Goto, RingInv, CallInStep, Writing
    <3>2. SlotOf(i) \in Index /\ SlotOf(i) # slot[t]
      BY <3>1, SlotOfType, FreeSlot DEF RingInv
    <3> QED
      BY <2>2, <3>2 DEF WriteCopyLo, WriteCopyHi, RingInv, TypeOK
  <2> QED
    BY <2>1, <2>2 DEF WriteSlot, WritePtr
<1> QED
  BY <1>1, <1>2, <1>3, <1>4, PendingStutter

\* The statements of rb_read before count-- are stuttering steps.
LEMMA ReadStutters ==
  ASSUME RingInv, NEW t \in Tasks,
         ReadSlot(t) \/ ReadCopyLo(t) \/ ReadCopyHi(t) \/ ReadPtr(t)
  PROVE  UNCHANGED <<Queue, Ctl, op, ret, Got>>
<1> DEFINE l == pc'[t]
<1>1. /\ pc[t] \in {"r_check", "r_lo", "r_hi", "r_ptr"}
      /\ l \in {"r_lo", "r_hi", "r_ptr", "r_count"}
      /\ pc' = [pc EXCEPT ![t] = l]
      /\ UNCHANGED <<count, op, ret, slots, holder>>
      /\ l = "r_count" => rd_ptr' = (rd_ptr + 1) % PtrMod
      /\ l # "r_count" => rd_ptr' = rd_ptr
      /\ \A u \in Tasks \ {t} : buf'[u] = buf[u]
  BY DEF ReadSlot, ReadCopyLo, ReadCopyHi, ReadPtr, Goto, RingInv, TypeOK
<1> HIDE DEF l
<1>2. InCS(t) /\ l \in PCs \ {"idle", "lock"} /\ l \in PCs \ {"idle", "unlock"}
  BY <1>1 DEF InCS, PCs
<1>3. RdBase = rd_ptr
      /\ RdBase' = IF l = "r_count" THEN (rd_ptr' - 1) % PtrMod ELSE rd_ptr'
  BY <1>1, <1>2, Alone, InsideFrame
<1>4. (((rd_ptr + 1) % PtrMod) - 1) % PtrMod = rd_ptr
  BY DepthBound, ModBack DEF RingInv, TypeOK
<1>5. RdBase' = RdBase
  BY <1>1, <1>3, <1>4
<1> QED
  BY <1>1, <1>2, <1>5, PendingStutter

-----------------------------------------------------------------------------
(* The statements at which a call starts, takes effect and returns.        *)

\* A step of t at a label l leaves the other tasks' view of the queue alone.
LEMMA OthersView ==
  ASSUME RingInv, NEW t \in Tasks,
         NEW l \in PCs, pc' = [pc EXCEPT ![t] = l],
         \A u \in Tasks \ {t} :
           buf'[u] = buf[u] /\ ret'[u] = ret[u] /\ op'[u] = op[u]
  PROVE  /\ Ctl' = [Ctl EXCEPT ![t] = CASE l = "idle"   -> "idle"
                                        [] l = "unlock" -> "done"
                                        [] OTHER        -> "pending"]
         /\ Got' = [Got EXCEPT ![t] = IF ReadDone(t)' THEN buf'[t].lo ELSE Zero]
<1>1. pc \in [Tasks -> PCs]
  BY DEF RingInv, TypeOK
<1>2. pc'[t] = l /\ \A u \in Tasks \ {t} : pc'[u] = pc[u]
  BY <1>1
<1>3. \A u \in Tasks \ {t} : ReadDone(u)' <=> ReadDone(u)
  BY <1>2 DEF ReadDone
<1> QED
  BY <1>2, <1>3 DEF Ctl, Got

\* A call is a FifoCall.
LEMMA CallMaps ==
  ASSUME RingInv, NEW t \in Tasks, NEW o \in Ops, Call(t, o)
  PROVE  Fifo!FifoCall(t, o)
<1> USE DEF Call, Goto
<1>1. /\ pc \in [Tasks -> PCs] /\ "lock" \in PCs
      /\ holder # t
      /\ \A u \in Tasks \ {t} : buf'[u] = buf[u] /\ op'[u] = op[u]
  BY DEF RingInv, TypeOK, PCs, InCS
<1>2. Ctl' = [Ctl EXCEPT ![t] = "pending"]
      /\ Got' = [Got EXCEPT ![t] = IF ReadDone(t)' THEN buf'[t].lo ELSE Zero]
  BY <1>1, OthersView
<1>3. ~ReadDone(t)'
  BY <1>1 DEF ReadDone
<1>4. RdBase' = RdBase
  BY <1>1 DEF RdBase, HolderAt, RingInv, TypeOK
<1>5. Queue' = Queue
  BY <1>4, SameQueue DEF SlotOf
<1> QED
  BY <1>2, <1>3, <1>5, CtlGot DEF Fifo!FifoCall

\* A call with a NULL pointer is a FifoNull.
LEMMA CallNullMaps ==
  ASSUME RingInv, NEW t \in Tasks, CallNull(t)
  PROVE  Fifo!FifoNull(t)
<1> USE DEF CallNull, Return
<1>1. pc \in [Tasks -> PCs] /\ ret \in [Tasks -> -1 .. RB_DEPTH]
  BY DEF RingInv, TypeOK
<1>2. Ctl' = Ctl
  BY DEF Ctl
<1>3. ~ReadDone(t)' /\ \A u \in Tasks \ {t} : ReadDone(u)' <=> ReadDone(u)
  BY <1>1 DEF ReadDone
<1>4. Got' = [Got EXCEPT ![t] = Zero]
  BY <1>3 DEF Got
<1>5. Queue' = Queue
  BY SameQueue DEF SlotOf, RdBase, HolderAt
<1> QED
  BY <1>2, <1>4, <1>5, CtlGot DEF Fifo!FifoNull

\* Releasing the lock is the return of the call.
LEMMA UnlockMaps ==
  ASSUME RingInv, NEW t \in Tasks, Unlock(t)
  PROVE  Fifo!FifoReturn(t)
<1> USE DEF Unlock, Goto
<1>1. /\ pc \in [Tasks -> PCs] /\ "idle" \in PCs /\ InCS(t)
  BY DEF RingInv, TypeOK, PCs, InCS
<1>2. Ctl' = [Ctl EXCEPT ![t] = "idle"]
      /\ Got' = [Got EXCEPT ![t] = IF ReadDone(t)' THEN buf'[t].lo ELSE Zero]
  BY <1>1, OthersView
<1>3. ReadDone(t)' <=> ReadDone(t)
  BY <1>1 DEF ReadDone
<1>4. Got' = Got
  BY <1>2, <1>3, CtlGot DEF Got
<1>5. RdBase' = RdBase
  BY <1>1, Alone DEF RdBase, HolderAt
<1>6. Queue' = Queue
  BY <1>5, SameQueue DEF SlotOf
<1> QED
  BY <1>2, <1>4, <1>6, CtlGot DEF Fifo!FifoReturn

\* The failing checks and the queries: the queue is looked at, not changed.
LEMMA QueueLookedAt ==
  ASSUME RingInv, NEW t \in Tasks, pc[t] \in {"w_check", "r_check", "query"},
         NEW r \in Int,
         pc' = [pc EXCEPT ![t] = "unlock"], ret' = [ret EXCEPT ![t] = r],
         UNCHANGED <<slots, rd_ptr, count, holder, op, buf>>,
         op[t].fn = "rb_read" => r = -1
  PROVE  Queue' = Queue /\ Got' = Got /\ Fifo!Finish(t, r)
<1>1. /\ pc \in [Tasks -> PCs] /\ "unlock" \in PCs /\ InCS(t)
      /\ ret \in [Tasks -> -1 .. RB_DEPTH]
  BY DEF RingInv, TypeOK, PCs, InCS
<1>2. Ctl' = [Ctl EXCEPT ![t] = "done"]
      /\ Got' = [Got EXCEPT ![t] = IF ReadDone(t)' THEN buf'[t].lo ELSE Zero]
  BY <1>1, OthersView
<1>3. ~ReadDone(t)' /\ ~ReadDone(t)
  BY <1>1 DEF ReadDone
<1>4. Got' = Got
  BY <1>2, <1>3, CtlGot DEF Got
<1>5. RdBase' = RdBase
  BY <1>1, Alone DEF RdBase, HolderAt
<1>6. Queue' = Queue
  BY <1>5, SameQueue DEF SlotOf
<1> QED
  BY <1>2, <1>4, <1>6, CtlGot DEF Fifo!Finish

\* The early return of rb_write on a full ring is a FifoWriteFull.
LEMMA WriteFullMaps ==
  ASSUME RingInv, NEW t \in Tasks, WriteFull(t)
  PROVE  Fifo!FifoWriteFull(t)
<1> USE DEF WriteFull, Goto, Return
<1>1. op[t].fn = "rb_write"
  BY DEF RingInv, CallInStep, Writing
<1>2. Queue' = Queue /\ Got' = Got /\ Fifo!Finish(t, -1)
  <2> DEFINE r == -1
  <2>1. r \in Int /\ ret' = [ret EXCEPT ![t] = r]
    OBVIOUS
  <2> HIDE DEF r
  <2>2. Queue' = Queue /\ Got' = Got /\ Fifo!Finish(t, r)
    BY <1>1, <2>1, QueueLookedAt
  <2> QED
    BY <2>2 DEF r
<1>3. Len(Queue) = RB_DEPTH
  BY QueueType, RingAssumption DEF RingInv, TypeOK
<1> QED
  BY <1>1, <1>2, <1>3 DEF Fifo!FifoWriteFull

\* The early return of rb_read on an empty ring is a FifoReadEmpty.
LEMMA ReadEmptyMaps ==
  ASSUME RingInv, NEW t \in Tasks, ReadEmpty(t)
  PROVE  Fifo!FifoReadEmpty(t)
<1> USE DEF ReadEmpty, Goto, Return
<1>1. op[t].fn = "rb_read"
  BY DEF RingInv, CallInStep, Reading
<1>2. Queue' = Queue /\ Got' = Got /\ Fifo!Finish(t, -1)
  <2> DEFINE r == -1
  <2>1. r \in Int /\ ret' = [ret EXCEPT ![t] = r] /\ r = -1
    OBVIOUS
  <2> HIDE DEF r
  <2>2. Queue' = Queue /\ Got' = Got /\ Fifo!Finish(t, r)
    BY <2>1, QueueLookedAt
  <2> QED
    BY <2>2 DEF r
<1>3. Queue = <<>>
  BY QueueType
<1> QED
  BY <1>1, <1>2, <1>3 DEF Fifo!FifoReadEmpty

\* rb_count, rb_full and rb_empty answer for the queue of that instant.
LEMMA QueryMaps ==
  ASSUME RingInv, NEW t \in Tasks, Query(t)
  PROVE  Fifo!FifoQuery(t)
<1> USE DEF Query, Goto, Return
<1>1. op[t].fn \in Queries
  BY DEF RingInv, CallInStep
<1>2. count \in 0 .. RB_DEPTH /\ Len(Queue) = count
  BY QueueType DEF RingInv, TypeOK
<1>3. QueryResult(op[t].fn) \in Int
  BY <1>1, <1>2, RingAssumption DEF QueryResult, Queries
<1>4. QueryResult(op[t].fn) = Fifo!Answer(op[t].fn, Len(Queue))
  BY <1>1, <1>2, RingAssumption DEF QueryResult, Queries, Fifo!Answer
<1>5. Queue' = Queue /\ Got' = Got /\ Fifo!Finish(t, QueryResult(op[t].fn))
  BY <1>1, <1>3, QueueLookedAt DEF Queries
<1> QED
  BY <1>1, <1>4, <1>5 DEF Fifo!FifoQuery, Queries

\* rb_write takes effect when it counts its chunk.
LEMMA WriteCountMaps ==
  ASSUME RingInv, RingInv', NEW t \in Tasks, WriteCount(t)
  PROVE  Fifo!FifoWrite(t)
<1>1. /\ count' = count + 1 /\ count' \in 0 .. RB_DEPTH
      /\ \A i \in 1 .. count : SlotOf(i)' = SlotOf(i)
      /\ SlotOf(count)' = slot[t]
  BY WriteCountEffect
<1> USE DEF WriteCount, Goto, Return
<1>2. /\ op[t].fn = "rb_write" /\ slots[slot[t]].lo = op[t].chunk
      /\ pc \in [Tasks -> PCs] /\ "unlock" \in PCs
      /\ ret \in [Tasks -> -1 .. RB_DEPTH]
  BY DEF RingInv, CallInStep, Writing, TypeOK, PCs
<1>3. /\ Queue \in Seq(Chunks) /\ Len(Queue) = count /\ count \in Nat
      /\ \A i \in 1 .. count : Queue[i] = slots[SlotOf(i)].lo
  BY QueueType
<1>4. Len(Queue) < RB_DEPTH
  BY <1>1, <1>3, RingAssumption
<1>5. Queue' = Append(Queue, op[t].chunk)
  <2>1. Queue' = [i \in 1 .. count + 1 |-> slots[SlotOf(i)'].lo]
    BY <1>1 DEF Queue
  <2>2. \A i \in 1 .. count : slots[SlotOf(i)'].lo = Queue[i]
    BY <1>1, <1>3
  <2>3. ASSUME NEW i \in 1 .. count + 1, i = count + 1
        PROVE  slots[SlotOf(i)'].lo = op[t].chunk
    <3>1. SlotOf(i)' = SlotOf(count)'
      BY <2>3, <1>1 DEF SlotOf
    <3> QED
      BY <3>1, <1>1, <1>2
  <2> QED
    BY <2>1, <2>2, <2>3, <1>3
<1>6. Ctl' = [Ctl EXCEPT ![t] = "done"]
      /\ Got' = [Got EXCEPT ![t] = IF ReadDone(t)' THEN buf'[t].lo ELSE Zero]
  BY <1>2, OthersView
<1>7. ~ReadDone(t)' /\ ~ReadDone(t)
  BY <1>2 DEF ReadDone
<1>8. Got' = Got
  BY <1>6, <1>7, CtlGot DEF Got
<1> QED
  BY <1>2, <1>4, <1>5, <1>6, <1>8, CtlGot DEF Fifo!FifoWrite, Fifo!Finish

\* rb_read takes effect when it uncounts the chunk it copied: the oldest one.
LEMMA ReadCountMaps ==
  ASSUME RingInv, RingInv', NEW t \in Tasks, ReadCount(t)
  PROVE  Fifo!FifoRead(t)
<1>1. /\ count' = count - 1 /\ count > 0
      /\ \A i \in 1 .. count' : SlotOf(i)' = SlotOf(i + 1)
      /\ SlotOf(1) = slot[t]
  BY ReadCountEffect
<1> USE DEF ReadCount, Goto, Return
<1>2. /\ op[t].fn = "rb_read" /\ buf[t].lo = slots[slot[t]].lo
      /\ pc \in [Tasks -> PCs] /\ "unlock" \in PCs
      /\ ret \in [Tasks -> -1 .. RB_DEPTH]
  BY DEF RingInv, CallInStep, Reading, TypeOK, PCs
<1>3. /\ Queue \in Seq(Chunks) /\ Len(Queue) = count /\ count \in Nat
      /\ \A i \in 1 .. count : Queue[i] = slots[SlotOf(i)].lo
  BY QueueType
<1>4. Queue # <<>> /\ Head(Queue) = buf[t].lo
  BY <1>1, <1>2, <1>3
<1>5. Queue' = Tail(Queue)
  <2> DEFINE T == Tail(Queue)
  <2>1. /\ T \in Seq(Chunks) /\ Len(T) = count - 1
        /\ \A i \in 1 .. Len(T) : T[i] = Queue[i + 1]
    BY <1>3, <1>4, HeadTailProperties
  <2> HIDE DEF T
  <2>2. DOMAIN T = 1 .. count - 1 /\ T = [i \in DOMAIN T |-> T[i]]
    <3>1. T \in [1 .. Len(T) -> Chunks]
      BY <2>1, LenProperties
    <3> QED
      BY <2>1, <3>1
  <2>3. Queue' = [i \in 1 .. count - 1 |-> slots[SlotOf(i)'].lo]
    BY <1>1 DEF Queue
  <2>4. \A i \in 1 .. count - 1 : slots[SlotOf(i)'].lo = T[i]
    BY <1>1, <1>3, <2>1
  <2> QED
    BY <2>2, <2>3, <2>4 DEF T
<1>6. Ctl' = [Ctl EXCEPT ![t] = "done"]
      /\ Got' = [Got EXCEPT ![t] = IF ReadDone(t)' THEN buf'[t].lo ELSE Zero]
  BY <1>2, OthersView
<1>7. ReadDone(t)'
  BY <1>2 DEF ReadDone
<1> QED
  BY <1>2, <1>4, <1>5, <1>6, <1>7, CtlGot DEF Fifo!FifoRead, Fifo!Finish

-----------------------------------------------------------------------------
\* rb_init maps to the empty queue.
LEMMA InitMaps ==
  ASSUME Init
  PROVE  Fifo!FifoInit
<1>1. Queue = <<>>
  BY DEF Init, Queue
<1>2. Ctl = [t \in Tasks |-> "idle"] /\ Got = [t \in Tasks |-> Zero]
  BY DEF Init, Ctl, Got, ReadDone
<1> QED
  BY <1>1, <1>2 DEF Init, Fifo!FifoInit

\* Every step of ring_buffer.c is a step of the queue or none.
LEMMA NextMaps ==
  ASSUME RingInv, RingInv', [Next]_vars
  PROVE  [Fifo!FifoNext]_(Fifo!fifoVars)
<1>1. CASE UNCHANGED vars
  BY <1>1 DEF vars, Fifo!fifoVars, Queue, Ctl, Got, ReadDone, SlotOf, RdBase, HolderAt
<1>2. CASE Next
  <2>1. PICK t \in Tasks :
           \/ \E o \in Ops : Call(t, o)
           \/ CallNull(t)
           \/ Lock(t)
           \/ Body(t)
           \/ Unlock(t)
    BY <1>2 DEF Next
  <2>2. CASE \E o \in Ops : Call(t, o)
    <3>1. PICK o \in Ops : Call(t, o)
      BY <2>2
    <3>2. o \in Fifo!Ops
      BY DEF Ops, Queries, Fifo!Ops
    <3> QED
      BY <3>1, <3>2, CallMaps DEF Fifo!FifoNext
  <2>3. CASE Lock(t) \/ WriteSlot(t) \/ WriteCopyLo(t) \/ WriteCopyHi(t)
               \/ WritePtr(t) \/ ReadSlot(t) \/ ReadCopyLo(t) \/ ReadCopyHi(t)
               \/ ReadPtr(t)
    BY <2>3, LockStutters, WriteStutters, ReadStutters DEF Fifo!fifoVars
  <2>4. CASE CallNull(t) \/ Unlock(t) \/ Query(t)
    BY <2>4, CallNullMaps, UnlockMaps, QueryMaps DEF Fifo!FifoNext
  <2>5. CASE WriteFull(t) \/ WriteCount(t)
    BY <2>5, WriteFullMaps, WriteCountMaps DEF Fifo!FifoNext
  <2>6. CASE ReadEmpty(t) \/ ReadCount(t)
    BY <2>6, ReadEmptyMaps, ReadCountMaps DEF Fifo!FifoNext
  <2> QED
    BY <2>1, <2>2, <2>3, <2>4, <2>5, <2>6 DEF Body, Write, Read
<1> QED
  BY <1>1, <1>2

\* ring_buffer.c is a linearizable bounded FIFO, for any number of tasks, any
\* depth and any width of the pointers.
THEOREM RingImplementsFifo == Spec => ImplementsFifo
<1>1. Init => Fifo!FifoInit
  BY InitMaps
<1>2. RingInv /\ RingInv' /\ [Next]_vars => [Fifo!FifoNext]_(Fifo!fifoVars)
  BY NextMaps
<1> QED
  BY <1>1, <1>2, RingInvariant, PTL DEF Spec, ImplementsFifo, Fifo!FifoSpec

=============================================================================
