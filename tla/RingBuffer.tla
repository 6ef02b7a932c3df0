----------------------------- MODULE RingBuffer -----------------------------
(***************************************************************************)
(* ring_buffer.c of camera_MSN2, statement by statement.  Any number of    *)
(* tasks call rb_write, rb_read, rb_count, rb_full and rb_empty on the one *)
(* static g_rb; the scheduler may switch tasks between any two statements, *)
(* and in the middle of the memcpy of a chunk.  rb_init is the initial     *)
(* state: it has returned before the first call (module NxMutex shows what *)
(* happens when it has not).                                               *)
(***************************************************************************)
EXTENDS Integers, Sequences

CONSTANTS
  Tasks,     \* the tasks that call the ring buffer
  Chunks,    \* the chunks they write
  Zero,      \* a chunk cleared by memset
  RB_DEPTH,  \* the number of slots
  PtrMod,    \* wr_ptr, rd_ptr and count are unsigned, modulo PtrMod (2^32)
  NoTask     \* the holder of a free lock

\* ring_buffer.h: "must be power-of-2".  What the code needs of it is that
\* RB_DEPTH divides the modulus at which the ever-increasing pointers wrap.
ASSUME RingAssumption ==
  /\ RB_DEPTH \in Nat \ {0}
  /\ PtrMod \in Nat \ {0}
  /\ \E k \in 2 .. PtrMod : PtrMod = k * RB_DEPTH
  /\ NoTask \notin Tasks
  /\ Zero \notin Chunks

VARIABLES
  slots,     \* g_rb.slots: a chunk is copied in two halves, lo then hi
  wr_ptr,    \* g_rb.wr_ptr
  rd_ptr,    \* g_rb.rd_ptr
  count,     \* g_rb.count
  holder,    \* g_rb_lock: the task that holds it
  pc,        \* pc[t]: the next statement of t
  op,        \* op[t]: the function t called and the chunk it passed
  slot,      \* slot[t]: the local variable slot
  buf,       \* buf[t]: the struct image_chunk_s the argument c points to
  ret        \* ret[t]: the value the last completed call returned

vars == <<slots, wr_ptr, rd_ptr, count, holder, pc, op, slot, buf, ret>>

Index    == 0 .. RB_DEPTH - 1
Content  == Chunks \cup {Zero}
Whole(c) == [lo |-> c, hi |-> c]
Queries  == {"rb_count", "rb_full", "rb_empty"}

Ops == [fn : {"rb_write"}, chunk : Chunks]
         \cup [fn : {"rb_read"} \cup Queries, chunk : {Zero}]

\* rb_init: everything zero, the lock free.
Init ==
  /\ slots  = [i \in Index |-> Whole(Zero)]
  /\ wr_ptr = 0
  /\ rd_ptr = 0
  /\ count  = 0
  /\ holder = NoTask
  /\ pc   = [t \in Tasks |-> "idle"]
  /\ op   = [t \in Tasks |-> [fn |-> "rb_count", chunk |-> Zero]]
  /\ slot = [t \in Tasks |-> 0]
  /\ buf  = [t \in Tasks |-> Whole(Zero)]
  /\ ret  = [t \in Tasks |-> 0]

Goto(t, from, to) ==
  /\ pc[t] = from
  /\ pc' = [pc EXCEPT ![t] = to]

Return(t, r) == ret' = [ret EXCEPT ![t] = r]

-----------------------------------------------------------------------------
(* Calls, the lock and the return, common to all five functions.           *)

Call(t, o) ==
  /\ Goto(t, "idle", "lock")
  /\ op'  = [op EXCEPT ![t] = o]
  /\ buf' = IF o.fn = "rb_write" THEN [buf EXCEPT ![t] = Whole(o.chunk)] ELSE buf
  /\ UNCHANGED <<slots, wr_ptr, rd_ptr, count, holder, slot, ret>>

\* if (!c) return -1;
CallNull(t) ==
  /\ pc[t] = "idle"
  /\ Return(t, -1)
  /\ UNCHANGED <<slots, wr_ptr, rd_ptr, count, holder, pc, op, slot, buf>>

Entry(fn) ==
  CASE fn = "rb_write" -> "w_check"
    [] fn = "rb_read"  -> "r_check"
    [] OTHER           -> "query"

\* Mutant of Lock: the caller goes on although the lock was not obtained.
LockIgnored(t) ==
  /\ Goto(t, "lock", Entry(op[t].fn))
  /\ holder' = t
  /\ UNCHANGED <<slots, wr_ptr, rd_ptr, count, op, slot, buf, ret>>

Lock(t) ==
  /\ Goto(t, "lock", Entry(op[t].fn))
  /\ holder = NoTask
  /\ holder' = t
  /\ UNCHANGED <<slots, wr_ptr, rd_ptr, count, op, slot, buf, ret>>

Unlock(t) ==
  /\ Goto(t, "unlock", "idle")
  /\ holder' = NoTask
  /\ UNCHANGED <<slots, wr_ptr, rd_ptr, count, op, slot, buf, ret>>

-----------------------------------------------------------------------------
(* rb_write                                                                *)

\* Mutant of WriteFull: the early return forgets nxmutex_unlock.
WriteFullKeepsLock(t) ==
  /\ Goto(t, "w_check", "idle")
  /\ count >= RB_DEPTH
  /\ Return(t, -1)
  /\ UNCHANGED <<slots, wr_ptr, rd_ptr, count, holder, op, slot, buf>>

WriteFull(t) ==
  /\ Goto(t, "w_check", "unlock")
  /\ count >= RB_DEPTH
  /\ Return(t, -1)
  /\ UNCHANGED <<slots, wr_ptr, rd_ptr, count, holder, op, slot, buf>>

\* Mutant of WriteSlot: the check for a full buffer is off by one.
WriteSlotOffByOne(t) ==
  /\ Goto(t, "w_check", "w_lo")
  /\ count <= RB_DEPTH
  /\ slot' = [slot EXCEPT ![t] = wr_ptr % RB_DEPTH]
  /\ UNCHANGED <<slots, wr_ptr, rd_ptr, count, holder, op, buf, ret>>

WriteSlot(t) ==
  /\ Goto(t, "w_check", "w_lo")
  /\ count < RB_DEPTH
  /\ slot' = [slot EXCEPT ![t] = wr_ptr % RB_DEPTH]
  /\ UNCHANGED <<slots, wr_ptr, rd_ptr, count, holder, op, buf, ret>>

WriteCopyLo(t) ==
  /\ Goto(t, "w_lo", "w_hi")
  /\ slots' = [slots EXCEPT ![slot[t]].lo = buf[t].lo]
  /\ UNCHANGED <<wr_ptr, rd_ptr, count, holder, op, slot, buf, ret>>

\* Mutant of WriteCopyHi: memcpy with sizeof(c) instead of sizeof(*c).
WriteCopyShort(t) ==
  /\ Goto(t, "w_hi", "w_ptr")
  /\ UNCHANGED <<slots, wr_ptr, rd_ptr, count, holder, op, slot, buf, ret>>

WriteCopyHi(t) ==
  /\ Goto(t, "w_hi", "w_ptr")
  /\ slots' = [slots EXCEPT ![slot[t]].hi = buf[t].hi]
  /\ UNCHANGED <<wr_ptr, rd_ptr, count, holder, op, slot, buf, ret>>

\* Mutant of WritePtr: the write pointer is kept reduced, the read one not.
WritePtrReduced(t) ==
  /\ Goto(t, "w_ptr", "w_count")
  /\ wr_ptr' = (wr_ptr + 1) % RB_DEPTH
  /\ UNCHANGED <<slots, rd_ptr, count, holder, op, slot, buf, ret>>

WritePtr(t) ==
  /\ Goto(t, "w_ptr", "w_count")
  /\ wr_ptr' = (wr_ptr + 1) % PtrMod
  /\ UNCHANGED <<slots, rd_ptr, count, holder, op, slot, buf, ret>>

WriteCount(t) ==
  /\ Goto(t, "w_count", "unlock")
  /\ count' = (count + 1) % PtrMod
  /\ Return(t, 0)
  /\ UNCHANGED <<slots, wr_ptr, rd_ptr, holder, op, slot, buf>>

-----------------------------------------------------------------------------
(* rb_read                                                                 *)

ReadEmpty(t) ==
  /\ Goto(t, "r_check", "unlock")
  /\ count = 0
  /\ Return(t, -1)
  /\ UNCHANGED <<slots, wr_ptr, rd_ptr, count, holder, op, slot, buf>>

ReadSlot(t) ==
  /\ Goto(t, "r_check", "r_lo")
  /\ count # 0
  /\ slot' = [slot EXCEPT ![t] = rd_ptr % RB_DEPTH]
  /\ UNCHANGED <<slots, wr_ptr, rd_ptr, count, holder, op, buf, ret>>

ReadCopyLo(t) ==
  /\ Goto(t, "r_lo", "r_hi")
  /\ buf' = [buf EXCEPT ![t].lo = slots[slot[t]].lo]
  /\ UNCHANGED <<slots, wr_ptr, rd_ptr, count, holder, op, slot, ret>>

ReadCopyHi(t) ==
  /\ Goto(t, "r_hi", "r_ptr")
  /\ buf' = [buf EXCEPT ![t].hi = slots[slot[t]].hi]
  /\ UNCHANGED <<slots, wr_ptr, rd_ptr, count, holder, op, slot, ret>>

ReadPtr(t) ==
  /\ Goto(t, "r_ptr", "r_count")
  /\ rd_ptr' = (rd_ptr + 1) % PtrMod
  /\ UNCHANGED <<slots, wr_ptr, count, holder, op, slot, buf, ret>>

ReadCount(t) ==
  /\ Goto(t, "r_count", "unlock")
  /\ count' = (count - 1) % PtrMod
  /\ Return(t, 0)
  /\ UNCHANGED <<slots, wr_ptr, rd_ptr, holder, op, slot, buf>>

-----------------------------------------------------------------------------
(* rb_count, rb_full and rb_empty                                          *)

\* Mutant of QueryResult: rb_full is one chunk late.
QueryResultLate(fn) ==
  CASE fn = "rb_count" -> count
    [] fn = "rb_full"  -> IF count > RB_DEPTH THEN 1 ELSE 0
    [] fn = "rb_empty" -> IF count = 0 THEN 1 ELSE 0

QueryResult(fn) ==
  CASE fn = "rb_count" -> count
    [] fn = "rb_full"  -> IF count >= RB_DEPTH THEN 1 ELSE 0
    [] fn = "rb_empty" -> IF count = 0 THEN 1 ELSE 0

Query(t) ==
  /\ Goto(t, "query", "unlock")
  /\ Return(t, QueryResult(op[t].fn))
  /\ UNCHANGED <<slots, wr_ptr, rd_ptr, count, holder, op, slot, buf>>

-----------------------------------------------------------------------------
Write(t) == WriteFull(t) \/ WriteSlot(t) \/ WriteCopyLo(t) \/ WriteCopyHi(t)
              \/ WritePtr(t) \/ WriteCount(t)
Read(t)  == ReadEmpty(t) \/ ReadSlot(t) \/ ReadCopyLo(t) \/ ReadCopyHi(t)
              \/ ReadPtr(t) \/ ReadCount(t)
Body(t)  == Write(t) \/ Read(t) \/ Query(t)

Next ==
  \E t \in Tasks :
    \/ \E o \in Ops : Call(t, o)
    \/ CallNull(t)
    \/ Lock(t)
    \/ Body(t)
    \/ Unlock(t)

Spec == Init /\ [][Next]_vars

-----------------------------------------------------------------------------
(* Properties                                                              *)

PCs == {"idle", "lock", "query", "unlock",
        "w_check", "w_lo", "w_hi", "w_ptr", "w_count",
        "r_check", "r_lo", "r_hi", "r_ptr", "r_count"}

\* Type invariant of g_rb, its lock and the calls in progress; the occupancy
\* never leaves 0..RB_DEPTH although count is a plain unsigned word.
TypeOK ==
  /\ slots  \in [Index -> [lo : Content, hi : Content]]
  /\ wr_ptr \in 0 .. PtrMod - 1
  /\ rd_ptr \in 0 .. PtrMod - 1
  /\ count  \in 0 .. RB_DEPTH
  /\ holder \in Tasks \cup {NoTask}
  /\ pc   \in [Tasks -> PCs]
  /\ op   \in [Tasks -> Ops]
  /\ slot \in [Tasks -> Index]
  /\ buf  \in [Tasks -> [lo : Content, hi : Content]]
  /\ ret  \in [Tasks -> -1 .. RB_DEPTH]

\* The task between nxmutex_lock and nxmutex_unlock, if any, is at label l.
HolderAt(l) == holder # NoTask /\ pc[holder] = l

\* The pointers as of the last completed operation: rb_write and rb_read
\* advance their pointer one statement before they update count.
RdBase == IF HolderAt("r_count") THEN (rd_ptr - 1) % PtrMod ELSE rd_ptr
WrBase == IF HolderAt("w_count") THEN (wr_ptr - 1) % PtrMod ELSE wr_ptr

\* The three registers of the "Verilog mirror" agree at every instant, also
\* across the wrap of the pointers: wr_ptr is rd_ptr plus count.
PtrsInStep == WrBase = (RdBase + count) % PtrMod

\* The slot that holds the i-th oldest chunk.
SlotOf(i) == (RdBase + i - 1) % RB_DEPTH

\* Every slot between rd_ptr and wr_ptr holds one whole chunk, never a mix of
\* two memcpys and never a slot rb_write has not filled.
HeldChunksWhole ==
  \A i \in 1 .. count :
    /\ slots[SlotOf(i)].lo = slots[SlotOf(i)].hi
    /\ slots[SlotOf(i)].lo \in Chunks

\* A read that returned 0 handed its caller one whole chunk.
ReadDone(t) ==
  /\ pc[t] \in {"unlock", "idle"}
  /\ op[t].fn = "rb_read"
  /\ ret[t] = 0
NoTornRead ==
  \A t \in Tasks : ReadDone(t) => buf[t].lo = buf[t].hi /\ buf[t].lo \in Chunks

\* The critical section: from nxmutex_lock to nxmutex_unlock.
InCS(t) == pc[t] \notin {"idle", "lock"}

Writing == {"w_check", "w_lo", "w_hi", "w_ptr", "w_count"}
Reading == {"r_check", "r_lo", "r_hi", "r_ptr", "r_count"}

\* What the locals of a call in progress say of the buffer: the chunk copied
\* so far is in the first free slot (rb_write), or comes from the oldest
\* occupied one (rb_read), and the check for full or empty is still true.
CallInStep(t) ==
  /\ pc[t] \in Writing => op[t].fn = "rb_write"
  /\ pc[t] \in Writing \cup {"lock"} /\ op[t].fn = "rb_write"
       => buf[t] = Whole(op[t].chunk)
  /\ pc[t] \in Writing \ {"w_check"} => /\ count < RB_DEPTH
                                        /\ slot[t] = WrBase % RB_DEPTH
  /\ pc[t] \in {"w_hi", "w_ptr", "w_count"} => slots[slot[t]].lo = op[t].chunk
  /\ pc[t] \in {"w_ptr", "w_count"} => slots[slot[t]].hi = op[t].chunk
  /\ pc[t] \in Reading => op[t].fn = "rb_read"
  /\ pc[t] \in Reading \ {"r_check"} => /\ count > 0
                                        /\ slot[t] = RdBase % RB_DEPTH
  /\ pc[t] \in {"r_hi", "r_ptr", "r_count"} => buf[t].lo = slots[slot[t]].lo
  /\ pc[t] \in {"r_ptr", "r_count"} => buf[t].hi = slots[slot[t]].hi
  /\ pc[t] = "query" => op[t].fn \in Queries

\* The inductive invariant: the lock excludes, the registers agree, the held
\* chunks are whole, and what every call has read of g_rb before a task
\* switch is still true after it.
RingInv ==
  /\ TypeOK
  /\ \A t \in Tasks : InCS(t) <=> holder = t
  /\ PtrsInStep
  /\ HeldChunksWhole
  /\ \A t \in Tasks : CallInStep(t)
  /\ NoTornRead

\* ring_buffer.c is a linearizable bounded FIFO: with the chunks between the
\* pointers as the queue, each call takes effect at one statement (the update
\* of count, or the check that makes it fail).
Queue == [i \in 1 .. count |-> slots[SlotOf(i)].lo]
Ctl   == [t \in Tasks |-> CASE pc[t] = "idle"   -> "idle"
                            [] pc[t] = "unlock" -> "done"
                            [] OTHER            -> "pending"]
Got   == [t \in Tasks |-> IF ReadDone(t) THEN buf[t].lo ELSE Zero]
Fifo  == INSTANCE ChunkFifo WITH queue <- Queue, ctl <- Ctl, got <- Got
ImplementsFifo == Fifo!FifoSpec
=============================================================================
