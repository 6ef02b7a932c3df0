-------------------------- MODULE RingBufferProofs --------------------------
(***************************************************************************)
(* Proofs about RingBuffer for every set of tasks and chunks, every depth  *)
(* and every pointer width the depth divides.                              *)
(***************************************************************************)
EXTENDS RingBuffer, TLAPS

-----------------------------------------------------------------------------
(* Arithmetic of the wrapped pointers.                                     *)

\* A remainder lies below its modulus.
LEMMA ModRange ==
  ASSUME NEW M \in Nat \ {0}, NEW x \in Int
  PROVE  x % M \in 0 .. M - 1
  BY SMT

\* Below the modulus the remainder is the number itself.
LEMMA ModSmall ==
  ASSUME NEW M \in Nat \ {0}, NEW x \in 0 .. M - 1
  PROVE  x % M = x
  BY SMT

\* Between the modulus and its double, one subtraction is the remainder.
LEMMA ModOnce ==
  ASSUME NEW M \in Nat \ {0}, NEW x \in M .. 2 * M - 1
  PROVE  x % M = x - M
  BY SMT

\* Stepping back from zero wraps to the top.
LEMMA ModMinusOne ==
  ASSUME NEW M \in Nat \ {0}
  PROVE  (-1) % M = M - 1
  BY SMT

\* The remainder of k * D + r is r.
LEMMA ModMult ==
  ASSUME NEW D \in Nat \ {0}, NEW k \in Nat, NEW r \in 0 .. D - 1
  PROVE  (k * D + r) % D = r
  BY SMT

\* Adding a multiple of the modulus does not change the remainder.
LEMMA ModShift ==
  ASSUME NEW D \in Nat \ {0}, NEW k \in Nat, NEW j \in Nat
  PROVE  (k * D + j) % D = j % D
<1> DEFINE q == j \div D
           r == j % D
<1>1. q \in Nat /\ r \in 0 .. D - 1 /\ j = q * D + r
  BY SMT
<1> HIDE DEF q, r
<1>2. k + q \in Nat /\ k * D + j = (k + q) * D + r
  BY <1>1, SMT
<1>3. (k * D + j) % D = r
  BY <1>1, <1>2, ModMult
<1> QED
  BY <1>3 DEF r

\* Two numbers less than D apart have different remainders modulo D.
LEMMA ModDistinct ==
  ASSUME NEW D \in Nat \ {0}, NEW p \in Nat, NEW i \in Nat, NEW j \in Nat,
         i < j, j - i < D
  PROVE  (p + i) % D # (p + j) % D
<1> DEFINE a == (p + i) \div D
           b == (p + j) \div D
           r == (p + i) % D
<1>1. a \in Nat /\ r \in 0 .. D - 1 /\ p + i = a * D + r
  BY SMT
<1>2. b \in Nat /\ p + j = b * D + ((p + j) % D)
  BY SMT
<1> HIDE DEF a, b, r
<1> SUFFICES ASSUME (p + j) % D = r PROVE FALSE
  BY DEF r
<1>3. j - i = (b - a) * D
  BY <1>1, <1>2, SMT
<1>4. b - a >= 1
  BY <1>1, <1>2, <1>3, SMT
<1>5. (b - a) * D >= D
  BY <1>1, <1>2, <1>4, SMT
<1> QED
  BY <1>3, <1>5

\* The pointers may be reduced modulo PtrMod before they are reduced modulo
\* RB_DEPTH, and before or after they are advanced.
LEMMA ModMod ==
  ASSUME NEW D \in Nat \ {0}, NEW k \in Nat \ {0}, NEW x \in Nat
  PROVE  (x % (k * D)) % D = x % D
<1> DEFINE M == k * D
           q == x \div M
           r == x % M
<1>0. M \in Nat \ {0}
  BY SMT
<1> HIDE DEF M
<1>1. q \in Nat /\ r \in 0 .. M - 1 /\ x = q * M + r
  BY <1>0, SMT
<1> HIDE DEF q, r
<1> DEFINE n == q * k
<1>2. n \in Nat /\ r \in Nat /\ x = n * D + r
  BY <1>0, <1>1, SMT DEF M
<1> HIDE DEF n
<1>3. (n * D + r) % D = r % D
  BY <1>2, ModShift
<1>4. x % D = r % D
  BY <1>2, <1>3
<1> QED
  BY <1>4 DEF r, M

\* A sum may be reduced before or after the addition.
LEMMA ModAdd ==
  ASSUME NEW M \in Nat \ {0}, NEW x \in Nat, NEW y \in Nat
  PROVE  ((x % M) + y) % M = (x + y) % M
<1> DEFINE q == x \div M
           r == x % M
<1>1. q \in Nat /\ r \in 0 .. M - 1 /\ x = q * M + r
  BY SMT
<1> HIDE DEF q, r
<1> DEFINE z == r + y
<1>2. z \in Nat /\ x + y = q * M + z
  BY <1>1, SMT
<1> HIDE DEF z
<1>3. (q * M + z) % M = z % M
  BY <1>1, <1>2, ModShift
<1>4. (x + y) % M = (r + y) % M
  BY <1>2, <1>3 DEF z
<1> QED
  BY <1>4 DEF r

\* One step forward and one step back cancel out.
LEMMA ModBack ==
  ASSUME NEW M \in Nat \ {0, 1}, NEW p \in 0 .. M - 1
  PROVE  /\ (p + 1) % M \in 0 .. M - 1
         /\ (((p + 1) % M) - 1) % M = p
         /\ (p - 1) % M \in 0 .. M - 1
         /\ (((p - 1) % M) + 1) % M = p
<1>1. CASE p = 0
  <2>1. (p + 1) % M = 1 /\ (p - 1) % M = M - 1
    BY <1>1, SMT
  <2> QED
    BY <1>1, <2>1, SMT
<1>2. CASE p = M - 1
  BY <1>2, SMT
<1>3. CASE p # 0 /\ p # M - 1
  <2>1. (p + 1) % M = p + 1 /\ (p - 1) % M = p - 1
    BY <1>3, ModSmall
  <2> QED
    BY <1>3, <2>1, ModSmall
<1> QED
  BY <1>1, <1>2, <1>3

\* The depth is less than the modulus of the pointers.
LEMMA DepthBound ==
  /\ RB_DEPTH \in Nat \ {0}
  /\ PtrMod \in Nat \ {0, 1}
  /\ RB_DEPTH < PtrMod
<1>1. PICK k \in 2 .. PtrMod : PtrMod = k * RB_DEPTH
  BY RingAssumption
<1> QED
  BY <1>1, RingAssumption, SMT

\* A wrapped pointer names the slot the unwrapped one does.
LEMMA SlotOfWrapped ==
  ASSUME NEW x \in Nat
  PROVE  (x % PtrMod) % RB_DEPTH = x % RB_DEPTH
<1>1. PICK k \in 2 .. PtrMod : PtrMod = k * RB_DEPTH
  BY RingAssumption
<1>2. k \in Nat \ {0} /\ RB_DEPTH \in Nat \ {0}
  BY <1>1, RingAssumption
<1> QED
  BY <1>1, <1>2, ModMod

\* A wrapped pointer plus an offset names the slot the unwrapped sum does.
LEMMA SlotAfterWrapped ==
  ASSUME NEW x \in Nat, NEW j \in Nat
  PROVE  ((x % PtrMod) + j) % RB_DEPTH = (x + j) % RB_DEPTH
<1>1. x % PtrMod \in Nat
  BY RingAssumption, ModRange
<1> DEFINE y == (x % PtrMod) + j
<1>2. y \in Nat /\ y % PtrMod = (x + j) % PtrMod
  <2>1. y \in Nat
    BY <1>1
  <2>2. ((x % PtrMod) + j) % PtrMod = (x + j) % PtrMod
    BY RingAssumption, ModAdd
  <2> QED
    BY <2>1, <2>2
<1> HIDE DEF y
<1>3. y % RB_DEPTH = (y % PtrMod) % RB_DEPTH
  BY <1>2, SlotOfWrapped
<1>4. ((x + j) % PtrMod) % RB_DEPTH = (x + j) % RB_DEPTH
  BY SlotOfWrapped
<1> QED
  BY <1>2, <1>3, <1>4 DEF y

-----------------------------------------------------------------------------
(* Facts about states of the invariant.                                    *)

\* The pointers of the last completed operation are words too.
LEMMA BaseTypes ==
  ASSUME TypeOK
  PROVE  RdBase \in 0 .. PtrMod - 1 /\ WrBase \in 0 .. PtrMod - 1
BY DepthBound, ModBack DEF TypeOK, RdBase, WrBase

\* Every slot index the properties use exists.
LEMMA SlotOfType ==
  ASSUME TypeOK, NEW i \in 1 .. count
  PROVE  SlotOf(i) \in Index
<1>1. RdBase + i - 1 \in Int
  BY BaseTypes DEF TypeOK
<1> QED
  BY <1>1, RingAssumption, ModRange DEF SlotOf, Index

\* rb_write's slot is not one of the slots that hold a chunk.
LEMMA FreeSlot ==
  ASSUME TypeOK, PtrsInStep, count < RB_DEPTH, NEW i \in 1 .. count
  PROVE  SlotOf(i) # WrBase % RB_DEPTH
<1>1. RdBase \in Nat /\ count \in Nat /\ i - 1 \in Nat
  BY BaseTypes DEF TypeOK
<1>2. WrBase % RB_DEPTH = (RdBase + count) % RB_DEPTH
  BY <1>1, SlotOfWrapped DEF PtrsInStep
<1>3. i - 1 < count /\ count - (i - 1) < RB_DEPTH
  BY <1>1, RingAssumption
<1>4. (RdBase + (i - 1)) % RB_DEPTH # (RdBase + count) % RB_DEPTH
  BY <1>1, <1>3, RingAssumption, ModDistinct
<1>5. RdBase + i - 1 = RdBase + (i - 1)
  BY <1>1
<1> QED
  BY <1>2, <1>4, <1>5 DEF SlotOf

\* A step that keeps the registers and the slots keeps what is said of them.
LEMMA RingFrame ==
  ASSUME PtrsInStep, HeldChunksWhole, RdBase' = RdBase, WrBase' = WrBase,
         UNCHANGED <<count, slots>>
  PROVE  PtrsInStep' /\ HeldChunksWhole'
BY DEF PtrsInStep, HeldChunksWhole, SlotOf

\* A task past nxmutex_lock holds the lock, and every other task is outside.
LEMMA Alone ==
  ASSUME RingInv, NEW t \in Tasks, InCS(t)
  PROVE  /\ holder = t /\ t # NoTask
         /\ RdBase = IF pc[t] = "r_count" THEN (rd_ptr - 1) % PtrMod ELSE rd_ptr
         /\ WrBase = IF pc[t] = "w_count" THEN (wr_ptr - 1) % PtrMod ELSE wr_ptr
         /\ \A u \in Tasks \ {t} : pc[u] \in {"idle", "lock"}
BY RingAssumption DEF RingInv, InCS, RdBase, WrBase, HolderAt

\* What a step of the task inside the critical section leaves alone.
LEMMA InsideFrame ==
  ASSUME RingInv, NEW t \in Tasks, InCS(t),
         NEW l \in PCs \ {"idle", "lock"}, pc' = [pc EXCEPT ![t] = l],
         UNCHANGED <<holder, op>>,
         \A u \in Tasks \ {t} : buf'[u] = buf[u] /\ ret'[u] = ret[u]
  PROVE  /\ \A u \in Tasks : InCS(u)' <=> holder' = u
         /\ \A u \in Tasks \ {t} : CallInStep(u)'
         /\ (ReadDone(t)' => buf'[t].lo = buf'[t].hi /\ buf'[t].lo \in Chunks)
               => NoTornRead'
         /\ RdBase' = IF l = "r_count" THEN (rd_ptr' - 1) % PtrMod ELSE rd_ptr'
         /\ WrBase' = IF l = "w_count" THEN (wr_ptr' - 1) % PtrMod ELSE wr_ptr'
<1>1. /\ holder = t /\ t # NoTask
      /\ \A u \in Tasks \ {t} : pc[u] \in {"idle", "lock"}
  BY Alone
<1>2. pc \in [Tasks -> PCs]
  BY DEF RingInv, TypeOK
<1>3. pc'[t] = l /\ \A u \in Tasks \ {t} : pc'[u] = pc[u]
  BY <1>2
<1>4. \A u \in Tasks : InCS(u)' <=> holder' = u
  BY <1>1, <1>3 DEF InCS
<1>5. \A u \in Tasks \ {t} : CallInStep(u)'
  BY <1>1, <1>3 DEF RingInv, CallInStep, Writing, Reading
<1>6. ASSUME ReadDone(t)' => buf'[t].lo = buf'[t].hi /\ buf'[t].lo \in Chunks
      PROVE  NoTornRead'
  <2>1. \A u \in Tasks \ {t} : ReadDone(u)' => ReadDone(u)
    BY <1>3 DEF ReadDone
  <2> QED
    BY <2>1, <1>6 DEF NoTornRead, RingInv
<1>7. /\ RdBase' = IF l = "r_count" THEN (rd_ptr' - 1) % PtrMod ELSE rd_ptr'
      /\ WrBase' = IF l = "w_count" THEN (wr_ptr' - 1) % PtrMod ELSE wr_ptr'
  BY <1>1, <1>3 DEF RdBase, WrBase, HolderAt
<1> QED
  BY <1>4, <1>5, <1>6, <1>7

-----------------------------------------------------------------------------
(* Every action preserves the invariant.                                   *)

\* Outside the critical section nothing of g_rb is touched.
LEMMA CallPreserves ==
  ASSUME RingInv, NEW t \in Tasks, NEW o \in Ops, Call(t, o)
  PROVE  RingInv'
<1> USE DEF Call, Goto
<1>1. TypeOK'
  BY DEF RingInv, TypeOK, PCs, Ops, Whole, Content
<1>2. /\ pc \in [Tasks -> PCs] /\ op \in [Tasks -> Ops] /\ holder # t
      /\ \A u \in Tasks \ {t} : pc'[u] = pc[u] /\ op'[u] = op[u] /\ buf'[u] = buf[u]
      /\ pc'[t] = "lock" /\ pc[t] = "idle"
  BY DEF RingInv, TypeOK, InCS
<1>3. \A u \in Tasks : InCS(u)' <=> holder' = u
  BY <1>2 DEF RingInv, InCS
<1>4. RdBase' = RdBase /\ WrBase' = WrBase
  BY <1>2 DEF RdBase, WrBase, HolderAt, RingInv, TypeOK
<1>5. PtrsInStep' /\ HeldChunksWhole'
  BY <1>4, RingFrame DEF RingInv
<1>6. \A u \in Tasks : CallInStep(u)'
  <2>1. op'[t] = o /\ (o.fn = "rb_write" => buf'[t] = Whole(o.chunk))
    BY <1>2 DEF RingInv, TypeOK
  <2>2. CallInStep(t)'
    BY <1>2, <2>1 DEF CallInStep, Writing, Reading
  <2>3. \A u \in Tasks \ {t} : CallInStep(u)'
    BY <1>2, <1>4 DEF RingInv, CallInStep
  <2> QED
    BY <2>2, <2>3
<1>7. NoTornRead'
  BY <1>2 DEF RingInv, NoTornRead, ReadDone
<1> QED
  BY <1>1, <1>3, <1>5, <1>6, <1>7 DEF RingInv

\* A call with a NULL pointer returns at once and keeps the invariant.
LEMMA CallNullPreserves ==
  ASSUME RingInv, NEW t \in Tasks, CallNull(t)
  PROVE  RingInv'
<1> USE DEF CallNull, Return
<1>1. TypeOK'
  BY RingAssumption DEF RingInv, TypeOK
<1>2. ret \in [Tasks -> -1 .. RB_DEPTH]
  BY DEF RingInv, TypeOK
<1>3. RdBase' = RdBase /\ WrBase' = WrBase
  BY DEF RdBase, WrBase, HolderAt
<1>4. PtrsInStep' /\ HeldChunksWhole'
  BY <1>3, RingFrame DEF RingInv
<1>5. \A u \in Tasks : (InCS(u)' <=> holder' = u) /\ CallInStep(u)'
  BY <1>3 DEF RingInv, InCS, CallInStep
<1>6. NoTornRead'
  BY <1>2 DEF RingInv, NoTornRead, ReadDone
<1> QED
  BY <1>1, <1>4, <1>5, <1>6 DEF RingInv

\* Obtaining the free lock keeps the invariant: no task is inside.
LEMMA LockPreserves ==
  ASSUME RingInv, NEW t \in Tasks, Lock(t)
  PROVE  RingInv'
<1> USE DEF Lock, Goto
<1>1. TypeOK'
  BY DEF RingInv, TypeOK, PCs, Entry
<1>2. /\ pc \in [Tasks -> PCs] /\ op[t] \in Ops /\ t # NoTask
      /\ \A u \in Tasks \ {t} : pc'[u] = pc[u]
      /\ pc'[t] = Entry(op[t].fn) /\ pc[t] = "lock"
      /\ \A u \in Tasks : pc[u] \in {"idle", "lock"}
  BY RingAssumption DEF RingInv, TypeOK, InCS
<1>3. /\ op[t].fn \in {"rb_write", "rb_read"} \cup Queries
      /\ pc'[t] \in {"w_check", "r_check", "query"}
      /\ pc'[t] = "w_check" => op[t].fn = "rb_write"
      /\ pc'[t] = "r_check" => op[t].fn = "rb_read"
      /\ pc'[t] = "query" => op[t].fn \in Queries
  BY <1>2 DEF Ops, Entry, Queries
<1>4. \A u \in Tasks : InCS(u)' <=> holder' = u
  BY <1>2, <1>3 DEF InCS
<1>5. RdBase' = RdBase /\ WrBase' = WrBase
  BY <1>2, <1>3 DEF RdBase, WrBase, HolderAt
<1>6. PtrsInStep' /\ HeldChunksWhole'
  BY <1>5, RingFrame DEF RingInv
<1>7. \A u \in Tasks : CallInStep(u)'
  BY <1>2, <1>3 DEF RingInv, CallInStep, Writing, Reading
<1>8. NoTornRead'
  BY <1>2, <1>3 DEF RingInv, NoTornRead, ReadDone
<1> QED
  BY <1>1, <1>4, <1>6, <1>7, <1>8 DEF RingInv

\* Releasing the lock keeps the invariant: the caller has left g_rb in step.
LEMMA UnlockPreserves ==
  ASSUME RingInv, NEW t \in Tasks, Unlock(t)
  PROVE  RingInv'
<1> USE DEF Unlock, Goto
<1>1. TypeOK'
  BY DEF RingInv, TypeOK, PCs
<1>2. InCS(t) /\ pc \in [Tasks -> PCs]
  BY DEF InCS, RingInv, TypeOK
<1>3. /\ holder = t /\ RdBase = rd_ptr /\ WrBase = wr_ptr
      /\ \A u \in Tasks \ {t} : pc[u] \in {"idle", "lock"}
  BY <1>2, Alone
<1>4. pc'[t] = "idle" /\ \A u \in Tasks \ {t} : pc'[u] = pc[u]
  BY <1>2
<1>5. \A u \in Tasks : InCS(u)' <=> holder' = u
  BY <1>3, <1>4, RingAssumption DEF InCS
<1>6. RdBase' = RdBase /\ WrBase' = WrBase
  BY <1>3 DEF RdBase, WrBase, HolderAt
<1>7. PtrsInStep' /\ HeldChunksWhole'
  BY <1>6, RingFrame DEF RingInv
<1>8. \A u \in Tasks : CallInStep(u)'
  BY <1>3, <1>4 DEF RingInv, CallInStep, Writing, Reading
<1>9. NoTornRead'
  BY <1>4 DEF RingInv, NoTornRead, ReadDone
<1> QED
  BY <1>1, <1>5, <1>7, <1>8, <1>9 DEF RingInv

\* The checks, and rb_count, rb_full and rb_empty: g_rb is only read.
LEMMA WriteFullPreserves ==
  ASSUME RingInv, NEW t \in Tasks, WriteFull(t)
  PROVE  RingInv'
<1> USE DEF WriteFull, Goto, Return
<1>1. TypeOK'
  BY RingAssumption DEF RingInv, TypeOK, PCs
<1>2. /\ InCS(t) /\ "unlock" \in PCs \ {"idle", "lock"}
      /\ ret \in [Tasks -> -1 .. RB_DEPTH] /\ pc \in [Tasks -> PCs]
  BY DEF InCS, RingInv, TypeOK, PCs
<1>3. holder = t /\ RdBase = rd_ptr /\ WrBase = wr_ptr
  BY <1>2, Alone
<1>4. /\ \A u \in Tasks : InCS(u)' <=> holder' = u
      /\ \A u \in Tasks \ {t} : CallInStep(u)'
      /\ (ReadDone(t)' => buf'[t].lo = buf'[t].hi /\ buf'[t].lo \in Chunks)
            => NoTornRead'
      /\ RdBase' = rd_ptr /\ WrBase' = wr_ptr
  BY <1>2, InsideFrame
<1>5. PtrsInStep' /\ HeldChunksWhole'
  BY <1>3, <1>4, RingFrame DEF RingInv
<1>6. CallInStep(t)'
  BY <1>2 DEF CallInStep, Writing, Reading
<1>7. NoTornRead'
  BY <1>2, <1>4 DEF ReadDone
<1> QED
  BY <1>1, <1>4, <1>5, <1>6, <1>7 DEF RingInv

\* rb_read on an empty ring keeps the invariant.
LEMMA ReadEmptyPreserves ==
  ASSUME RingInv, NEW t \in Tasks, ReadEmpty(t)
  PROVE  RingInv'
<1> USE DEF ReadEmpty, Goto, Return
<1>1. TypeOK'
  BY RingAssumption DEF RingInv, TypeOK, PCs
<1>2. /\ InCS(t) /\ "unlock" \in PCs \ {"idle", "lock"}
      /\ ret \in [Tasks -> -1 .. RB_DEPTH] /\ pc \in [Tasks -> PCs]
  BY DEF InCS, RingInv, TypeOK, PCs
<1>3. holder = t /\ RdBase = rd_ptr /\ WrBase = wr_ptr
  BY <1>2, Alone
<1>4. /\ \A u \in Tasks : InCS(u)' <=> holder' = u
      /\ \A u \in Tasks \ {t} : CallInStep(u)'
      /\ (ReadDone(t)' => buf'[t].lo = buf'[t].hi /\ buf'[t].lo \in Chunks)
            => NoTornRead'
      /\ RdBase' = rd_ptr /\ WrBase' = wr_ptr
  BY <1>2, InsideFrame
<1>5. PtrsInStep' /\ HeldChunksWhole'
  BY <1>3, <1>4, RingFrame DEF RingInv
<1>6. CallInStep(t)'
  BY <1>2 DEF CallInStep, Writing, Reading
<1>7. NoTornRead'
  BY <1>2, <1>4 DEF ReadDone
<1> QED
  BY <1>1, <1>4, <1>5, <1>6, <1>7 DEF RingInv

\* rb_count, rb_full and rb_empty keep the invariant.
LEMMA QueryPreserves ==
  ASSUME RingInv, NEW t \in Tasks, Query(t)
  PROVE  RingInv'
<1> USE DEF Query, Goto, Return
<1>1. /\ InCS(t) /\ "unlock" \in PCs \ {"idle", "lock"}
      /\ ret \in [Tasks -> -1 .. RB_DEPTH] /\ pc \in [Tasks -> PCs]
  BY DEF InCS, RingInv, TypeOK, PCs
<1>2. holder = t /\ RdBase = rd_ptr /\ WrBase = wr_ptr
  BY <1>1, Alone
<1>3. op[t].fn \in Queries
  BY DEF RingInv, CallInStep
<1>4. QueryResult(op[t].fn) \in -1 .. RB_DEPTH
  BY <1>3, RingAssumption DEF QueryResult, Queries, RingInv, TypeOK
<1>5. TypeOK'
  BY <1>4 DEF RingInv, TypeOK, PCs
<1>6. /\ \A u \in Tasks : InCS(u)' <=> holder' = u
      /\ \A u \in Tasks \ {t} : CallInStep(u)'
      /\ (ReadDone(t)' => buf'[t].lo = buf'[t].hi /\ buf'[t].lo \in Chunks)
            => NoTornRead'
      /\ RdBase' = rd_ptr /\ WrBase' = wr_ptr
  BY <1>1, InsideFrame
<1>7. PtrsInStep' /\ HeldChunksWhole'
  BY <1>2, <1>6, RingFrame DEF RingInv
<1>8. CallInStep(t)'
  BY <1>1 DEF CallInStep, Writing, Reading
<1>9. NoTornRead'
  BY <1>3, <1>6 DEF ReadDone, Queries
<1> QED
  BY <1>5, <1>6, <1>7, <1>8, <1>9 DEF RingInv

\* rb_write and rb_read compute their slot: still only local state changes.
LEMMA WriteSlotPreserves ==
  ASSUME RingInv, NEW t \in Tasks, WriteSlot(t)
  PROVE  RingInv'
<1> USE DEF WriteSlot, Goto
<1>1. wr_ptr % RB_DEPTH \in Index
  BY RingAssumption, ModRange DEF RingInv, TypeOK, Index
<1>2. TypeOK'
  BY <1>1 DEF RingInv, TypeOK, PCs
<1>3. /\ InCS(t) /\ "w_lo" \in PCs \ {"idle", "lock"}
      /\ pc \in [Tasks -> PCs] /\ slot \in [Tasks -> Index]
  BY DEF InCS, RingInv, TypeOK, PCs
<1>4. holder = t /\ RdBase = rd_ptr /\ WrBase = wr_ptr
  BY <1>3, Alone
<1>5. /\ \A u \in Tasks : InCS(u)' <=> holder' = u
      /\ \A u \in Tasks \ {t} : CallInStep(u)'
      /\ (ReadDone(t)' => buf'[t].lo = buf'[t].hi /\ buf'[t].lo \in Chunks)
            => NoTornRead'
      /\ RdBase' = rd_ptr /\ WrBase' = wr_ptr
  BY <1>3, InsideFrame
<1>6. PtrsInStep' /\ HeldChunksWhole'
  BY <1>4, <1>5, RingFrame DEF RingInv
<1>7. CallInStep(t)'
  BY <1>3, <1>5 DEF RingInv, CallInStep, Writing, Reading
<1>8. NoTornRead'
  BY <1>3, <1>5 DEF ReadDone
<1> QED
  BY <1>2, <1>5, <1>6, <1>7, <1>8 DEF RingInv

\* rb_read finds the oldest occupied slot.
LEMMA ReadSlotPreserves ==
  ASSUME RingInv, NEW t \in Tasks, ReadSlot(t)
  PROVE  RingInv'
<1> USE DEF ReadSlot, Goto
<1>1. rd_ptr % RB_DEPTH \in Index
  BY RingAssumption, ModRange DEF RingInv, TypeOK, Index
<1>2. TypeOK'
  BY <1>1 DEF RingInv, TypeOK, PCs
<1>3. /\ InCS(t) /\ "r_lo" \in PCs \ {"idle", "lock"}
      /\ pc \in [Tasks -> PCs] /\ slot \in [Tasks -> Index]
      /\ count \in 0 .. RB_DEPTH
  BY DEF InCS, RingInv, TypeOK, PCs
<1>4. holder = t /\ RdBase = rd_ptr /\ WrBase = wr_ptr
  BY <1>3, Alone
<1>5. /\ \A u \in Tasks : InCS(u)' <=> holder' = u
      /\ \A u \in Tasks \ {t} : CallInStep(u)'
      /\ (ReadDone(t)' => buf'[t].lo = buf'[t].hi /\ buf'[t].lo \in Chunks)
            => NoTornRead'
      /\ RdBase' = rd_ptr /\ WrBase' = wr_ptr
  BY <1>3, InsideFrame
<1>6. PtrsInStep' /\ HeldChunksWhole'
  BY <1>4, <1>5, RingFrame DEF RingInv
<1>7. CallInStep(t)'
  <2>1. count' > 0
    BY <1>3, RingAssumption
  <2> QED
    BY <2>1, <1>3, <1>5 DEF RingInv, CallInStep, Writing, Reading
<1>8. NoTornRead'
  BY <1>3, <1>5 DEF ReadDone
<1> QED
  BY <1>2, <1>5, <1>6, <1>7, <1>8 DEF RingInv

\* The two halves of rb_write's memcpy go to a slot that holds no chunk.
LEMMA WriteCopyLoPreserves ==
  ASSUME RingInv, NEW t \in Tasks, WriteCopyLo(t)
  PROVE  RingInv'
<1> USE DEF WriteCopyLo, Goto
<1>1. TypeOK'
  BY DEF RingInv, TypeOK, PCs
<1>2. /\ InCS(t) /\ "w_hi" \in PCs \ {"idle", "lock"}
      /\ pc \in [Tasks -> PCs] /\ slot[t] \in Index
      /\ slots \in [Index -> [lo : Content, hi : Content]]
  BY DEF InCS, RingInv, TypeOK, PCs
<1>3. holder = t /\ RdBase = rd_ptr /\ WrBase = wr_ptr
  BY <1>2, Alone
<1>4. /\ \A u \in Tasks : InCS(u)' <=> holder' = u
      /\ \A u \in Tasks \ {t} : CallInStep(u)'
      /\ (ReadDone(t)' => buf'[t].lo = buf'[t].hi /\ buf'[t].lo \in Chunks)
            => NoTornRead'
      /\ RdBase' = rd_ptr /\ WrBase' = wr_ptr
  BY <1>2, InsideFrame
<1>5. count < RB_DEPTH /\ slot[t] = WrBase % RB_DEPTH
      /\ op[t].fn = "rb_write" /\ buf[t] = Whole(op[t].chunk)
  BY DEF RingInv, CallInStep, Writing
<1>6. \A i \in 1 .. count : SlotOf(i) \in Index /\ SlotOf(i) # slot[t]
  BY <1>5, SlotOfType, FreeSlot DEF RingInv
<1>7. \A i \in 1 .. count : SlotOf(i)' = SlotOf(i)
  BY <1>3, <1>4 DEF SlotOf
<1>8. \A i \in 1 .. count : slots'[SlotOf(i)] = slots[SlotOf(i)]
  BY <1>2, <1>6
<1>9. PtrsInStep' /\ HeldChunksWhole'
  BY <1>3, <1>4, <1>7, <1>8 DEF RingInv, PtrsInStep, HeldChunksWhole
<1>10. CallInStep(t)'
  <2>1. slots'[slot[t]].lo = op[t].chunk
    BY <1>2, <1>5 DEF Whole
  <2> QED
    BY <2>1, <1>2, <1>3, <1>4, <1>5 DEF CallInStep, Writing, Reading
<1>11. NoTornRead'
  BY <1>2, <1>4 DEF ReadDone
<1> QED
  BY <1>1, <1>4, <1>9, <1>10, <1>11 DEF RingInv

\* The second half of the memcpy of rb_write goes to a free slot.
LEMMA WriteCopyHiPreserves ==
  ASSUME RingInv, NEW t \in Tasks, WriteCopyHi(t)
  PROVE  RingInv'
<1> USE DEF WriteCopyHi, Goto
<1>1. TypeOK'
  BY DEF RingInv, TypeOK, PCs
<1>2. /\ InCS(t) /\ "w_ptr" \in PCs \ {"idle", "lock"}
      /\ pc \in [Tasks -> PCs] /\ slot[t] \in Index
      /\ slots \in [Index -> [lo : Content, hi : Content]]
  BY DEF InCS, RingInv, TypeOK, PCs
<1>3. holder = t /\ RdBase = rd_ptr /\ WrBase = wr_ptr
  BY <1>2, Alone
<1>4. /\ \A u \in Tasks : InCS(u)' <=> holder' = u
      /\ \A u \in Tasks \ {t} : CallInStep(u)'
      /\ (ReadDone(t)' => buf'[t].lo = buf'[t].hi /\ buf'[t].lo \in Chunks)
            => NoTornRead'
      /\ RdBase' = rd_ptr /\ WrBase' = wr_ptr
  BY <1>2, InsideFrame
<1>5. count < RB_DEPTH /\ slot[t] = WrBase % RB_DEPTH
      /\ op[t].fn = "rb_write" /\ buf[t] = Whole(op[t].chunk)
      /\ slots[slot[t]].lo = op[t].chunk
  BY DEF RingInv, CallInStep, Writing
<1>6. \A i \in 1 .. count : SlotOf(i) \in Index /\ SlotOf(i) # slot[t]
  BY <1>5, SlotOfType, FreeSlot DEF RingInv
<1>7. \A i \in 1 .. count : SlotOf(i)' = SlotOf(i)
  BY <1>3, <1>4 DEF SlotOf
<1>8. \A i \in 1 .. count : slots'[SlotOf(i)] = slots[SlotOf(i)]
  BY <1>2, <1>6
<1>9. PtrsInStep' /\ HeldChunksWhole'
  BY <1>3, <1>4, <1>7, <1>8 DEF RingInv, PtrsInStep, HeldChunksWhole
<1>10. CallInStep(t)'
  <2>1. slots'[slot[t]].lo = op[t].chunk /\ slots'[slot[t]].hi = op[t].chunk
    BY <1>2, <1>5 DEF Whole
  <2> QED
    BY <2>1, <1>2, <1>3, <1>4, <1>5 DEF CallInStep, Writing, Reading
<1>11. NoTornRead'
  BY <1>2, <1>4 DEF ReadDone
<1> QED
  BY <1>1, <1>4, <1>9, <1>10, <1>11 DEF RingInv

\* The two halves of rb_read's memcpy fill the caller's struct.
LEMMA ReadCopyLoPreserves ==
  ASSUME RingInv, NEW t \in Tasks, ReadCopyLo(t)
  PROVE  RingInv'
<1> USE DEF ReadCopyLo, Goto
<1>1. TypeOK'
  BY DEF RingInv, TypeOK, PCs
<1>2. /\ InCS(t) /\ "r_hi" \in PCs \ {"idle", "lock"}
      /\ pc \in [Tasks -> PCs] /\ slot[t] \in Index
      /\ buf \in [Tasks -> [lo : Content, hi : Content]]
  BY DEF InCS, RingInv, TypeOK, PCs
<1>3. holder = t /\ RdBase = rd_ptr /\ WrBase = wr_ptr
  BY <1>2, Alone
<1>4. /\ \A u \in Tasks : InCS(u)' <=> holder' = u
      /\ \A u \in Tasks \ {t} : CallInStep(u)'
      /\ (ReadDone(t)' => buf'[t].lo = buf'[t].hi /\ buf'[t].lo \in Chunks)
            => NoTornRead'
      /\ RdBase' = rd_ptr /\ WrBase' = wr_ptr
  BY <1>2, InsideFrame
<1>5. PtrsInStep' /\ HeldChunksWhole'
  BY <1>3, <1>4, RingFrame DEF RingInv
<1>6. CallInStep(t)'
  BY <1>2, <1>3, <1>4 DEF RingInv, CallInStep, Writing, Reading
<1>7. NoTornRead'
  BY <1>2, <1>4 DEF ReadDone
<1> QED
  BY <1>1, <1>4, <1>5, <1>6, <1>7 DEF RingInv

\* The second half of the memcpy of rb_read keeps the invariant.
LEMMA ReadCopyHiPreserves ==
  ASSUME RingInv, NEW t \in Tasks, ReadCopyHi(t)
  PROVE  RingInv'
<1> USE DEF ReadCopyHi, Goto
<1>1. TypeOK'
  BY DEF RingInv, TypeOK, PCs
<1>2. /\ InCS(t) /\ "r_ptr" \in PCs \ {"idle", "lock"}
      /\ pc \in [Tasks -> PCs] /\ slot[t] \in Index
      /\ buf \in [Tasks -> [lo : Content, hi : Content]]
  BY DEF InCS, RingInv, TypeOK, PCs
<1>3. holder = t /\ RdBase = rd_ptr /\ WrBase = wr_ptr
  BY <1>2, Alone
<1>4. /\ \A u \in Tasks : InCS(u)' <=> holder' = u
      /\ \A u \in Tasks \ {t} : CallInStep(u)'
      /\ (ReadDone(t)' => buf'[t].lo = buf'[t].hi /\ buf'[t].lo \in Chunks)
            => NoTornRead'
      /\ RdBase' = rd_ptr /\ WrBase' = wr_ptr
  BY <1>2, InsideFrame
<1>5. PtrsInStep' /\ HeldChunksWhole'
  BY <1>3, <1>4, RingFrame DEF RingInv
<1>6. CallInStep(t)'
  BY <1>2, <1>3, <1>4 DEF RingInv, CallInStep, Writing, Reading
<1>7. NoTornRead'
  BY <1>2, <1>4 DEF ReadDone
<1> QED
  BY <1>1, <1>4, <1>5, <1>6, <1>7 DEF RingInv

\* The pointer moves before count does: the bases stay where they are.
LEMMA WritePtrPreserves ==
  ASSUME RingInv, NEW t \in Tasks, WritePtr(t)
  PROVE  RingInv'
<1> USE DEF WritePtr, Goto
<1>1. /\ InCS(t) /\ "w_count" \in PCs \ {"idle", "lock"}
      /\ pc \in [Tasks -> PCs] /\ wr_ptr \in 0 .. PtrMod - 1
  BY DEF InCS, RingInv, TypeOK, PCs
<1>2. (wr_ptr + 1) % PtrMod \in 0 .. PtrMod - 1
      /\ (((wr_ptr + 1) % PtrMod) - 1) % PtrMod = wr_ptr
  BY <1>1, DepthBound, ModBack
<1>3. TypeOK'
  BY <1>2 DEF RingInv, TypeOK, PCs
<1>4. holder = t /\ RdBase = rd_ptr /\ WrBase = wr_ptr
  BY <1>1, Alone
<1>5. /\ \A u \in Tasks : InCS(u)' <=> holder' = u
      /\ \A u \in Tasks \ {t} : CallInStep(u)'
      /\ (ReadDone(t)' => buf'[t].lo = buf'[t].hi /\ buf'[t].lo \in Chunks)
            => NoTornRead'
      /\ RdBase' = rd_ptr' /\ WrBase' = (wr_ptr' - 1) % PtrMod
  BY <1>1, InsideFrame
<1>6. RdBase' = RdBase /\ WrBase' = WrBase
  BY <1>2, <1>4, <1>5
<1>7. PtrsInStep' /\ HeldChunksWhole'
  BY <1>6, RingFrame DEF RingInv
<1>8. CallInStep(t)'
  BY <1>1, <1>6 DEF RingInv, CallInStep, Writing, Reading
<1>9. NoTornRead'
  BY <1>1, <1>5 DEF ReadDone
<1> QED
  BY <1>3, <1>5, <1>7, <1>8, <1>9 DEF RingInv

\* rd_ptr++ of rb_read keeps the invariant: RdBase does not move.
LEMMA ReadPtrPreserves ==
  ASSUME RingInv, NEW t \in Tasks, ReadPtr(t)
  PROVE  RingInv'
<1> USE DEF ReadPtr, Goto
<1>1. /\ InCS(t) /\ "r_count" \in PCs \ {"idle", "lock"}
      /\ pc \in [Tasks -> PCs] /\ rd_ptr \in 0 .. PtrMod - 1
  BY DEF InCS, RingInv, TypeOK, PCs
<1>2. (rd_ptr + 1) % PtrMod \in 0 .. PtrMod - 1
      /\ (((rd_ptr + 1) % PtrMod) - 1) % PtrMod = rd_ptr
  BY <1>1, DepthBound, ModBack
<1>3. TypeOK'
  BY <1>2 DEF RingInv, TypeOK, PCs
<1>4. holder = t /\ RdBase = rd_ptr /\ WrBase = wr_ptr
  BY <1>1, Alone
<1>5. /\ \A u \in Tasks : InCS(u)' <=> holder' = u
      /\ \A u \in Tasks \ {t} : CallInStep(u)'
      /\ (ReadDone(t)' => buf'[t].lo = buf'[t].hi /\ buf'[t].lo \in Chunks)
            => NoTornRead'
      /\ RdBase' = (rd_ptr' - 1) % PtrMod /\ WrBase' = wr_ptr'
  BY <1>1, InsideFrame
<1>6. RdBase' = RdBase /\ WrBase' = WrBase
  BY <1>2, <1>4, <1>5
<1>7. PtrsInStep' /\ HeldChunksWhole'
  BY <1>6, RingFrame DEF RingInv
<1>8. CallInStep(t)'
  BY <1>1, <1>6 DEF RingInv, CallInStep, Writing, Reading
<1>9. NoTornRead'
  BY <1>1, <1>5 DEF ReadDone
<1> QED
  BY <1>3, <1>5, <1>7, <1>8, <1>9 DEF RingInv

\* What the update of count does to the registers: rb_write appends the slot
\* it has filled, rb_read drops the oldest one.
LEMMA WriteCountEffect ==
  ASSUME RingInv, NEW t \in Tasks, WriteCount(t)
  PROVE  /\ count' = count + 1 /\ count' \in 0 .. RB_DEPTH
         /\ PtrsInStep'
         /\ \A i \in 1 .. count : SlotOf(i)' = SlotOf(i)
         /\ SlotOf(count)' = slot[t]
<1> USE DEF WriteCount, Goto, Return
<1>1. /\ InCS(t) /\ "unlock" \in PCs \ {"idle", "lock"}
      /\ rd_ptr \in 0 .. PtrMod - 1 /\ wr_ptr \in 0 .. PtrMod - 1
      /\ count \in 0 .. RB_DEPTH /\ ret \in [Tasks -> -1 .. RB_DEPTH]
  BY DEF InCS, RingInv, TypeOK, PCs
<1>2. RdBase = rd_ptr /\ WrBase = (wr_ptr - 1) % PtrMod
  BY <1>1, Alone
<1>3. RdBase' = rd_ptr /\ WrBase' = wr_ptr
  BY <1>1, InsideFrame
<1>4. count < RB_DEPTH /\ slot[t] = WrBase % RB_DEPTH
  BY DEF RingInv, CallInStep, Writing
<1>5. count' = count + 1 /\ count' \in 0 .. RB_DEPTH
  <2>1. count + 1 \in 0 .. RB_DEPTH /\ count + 1 \in 0 .. PtrMod - 1
    BY <1>1, <1>4, DepthBound
  <2>2. (count + 1) % PtrMod = count + 1
    BY <2>1, DepthBound, ModSmall
  <2> QED
    BY <2>1, <2>2
<1>6. PtrsInStep'
  <2>1. (rd_ptr + count) % PtrMod = (wr_ptr - 1) % PtrMod
    BY <1>2 DEF RingInv, PtrsInStep
  <2>2. (((wr_ptr - 1) % PtrMod) + 1) % PtrMod = wr_ptr
    BY <1>1, DepthBound, ModBack
  <2>3. (((rd_ptr + count) % PtrMod) + 1) % PtrMod = ((rd_ptr + count) + 1) % PtrMod
    BY <1>1, DepthBound, ModAdd
  <2>4. (rd_ptr + count) + 1 = rd_ptr + (count + 1)
    BY <1>1, DepthBound
  <2> QED
    BY <2>1, <2>2, <2>3, <2>4, <1>3, <1>5 DEF PtrsInStep
<1>7. \A i \in 1 .. count : SlotOf(i)' = SlotOf(i)
  BY <1>2, <1>3 DEF SlotOf
<1>8. SlotOf(count)' = slot[t]
  <2>1. ((rd_ptr + count) % PtrMod) % RB_DEPTH = (rd_ptr + count) % RB_DEPTH
    <3>1. rd_ptr + count \in Nat
      BY <1>1, DepthBound
    <3> QED
      BY <3>1, SlotOfWrapped
  <2>2. rd_ptr + count' - 1 = rd_ptr + count
    BY <1>1, <1>5, DepthBound
  <2>3. SlotOf(count)' = (rd_ptr + count) % RB_DEPTH
    BY <1>3, <2>2 DEF SlotOf
  <2> QED
    BY <2>1, <2>3, <1>2, <1>4 DEF RingInv, PtrsInStep
<1> QED
  BY <1>5, <1>6, <1>7, <1>8

\* count-- of rb_read removes the oldest chunk and moves the others up.
LEMMA ReadCountEffect ==
  ASSUME RingInv, NEW t \in Tasks, ReadCount(t)
  PROVE  /\ count' = count - 1 /\ count > 0 /\ count' \in 0 .. RB_DEPTH
         /\ PtrsInStep'
         /\ \A i \in 1 .. count' : SlotOf(i)' = SlotOf(i + 1)
         /\ SlotOf(1) = slot[t]
<1> USE DEF ReadCount, Goto, Return
<1>1. /\ InCS(t) /\ "unlock" \in PCs \ {"idle", "lock"}
      /\ rd_ptr \in 0 .. PtrMod - 1 /\ wr_ptr \in 0 .. PtrMod - 1
      /\ count \in 0 .. RB_DEPTH /\ ret \in [Tasks -> -1 .. RB_DEPTH]
  BY DEF InCS, RingInv, TypeOK, PCs
<1>2. RdBase = (rd_ptr - 1) % PtrMod /\ WrBase = wr_ptr
  BY <1>1, Alone
<1>3. RdBase' = rd_ptr /\ WrBase' = wr_ptr
  BY <1>1, InsideFrame
<1>4. count > 0 /\ slot[t] = RdBase % RB_DEPTH
  BY DEF RingInv, CallInStep, Reading
<1>5. count' = count - 1 /\ count' \in 0 .. RB_DEPTH
  <2>1. count - 1 \in 0 .. RB_DEPTH /\ count - 1 \in 0 .. PtrMod - 1
    BY <1>1, <1>4, DepthBound
  <2>2. (count - 1) % PtrMod = count - 1
    BY <2>1, DepthBound, ModSmall
  <2> QED
    BY <2>1, <2>2
<1>6. RdBase \in Nat /\ rd_ptr = (RdBase + 1) % PtrMod
  <2>1. (rd_ptr - 1) % PtrMod \in 0 .. PtrMod - 1
        /\ (((rd_ptr - 1) % PtrMod) + 1) % PtrMod = rd_ptr
    BY <1>1, DepthBound, ModBack
  <2> QED
    BY <2>1, <1>2, DepthBound
<1>7. PtrsInStep'
  <2>1. (((RdBase + 1) % PtrMod) + (count - 1)) % PtrMod
          = ((RdBase + 1) + (count - 1)) % PtrMod
    <3>1. RdBase + 1 \in Nat /\ count - 1 \in Nat /\ PtrMod \in Nat \ {0}
      BY <1>1, <1>4, <1>6, DepthBound
    <3> QED
      BY <3>1, ModAdd
  <2>2. (RdBase + 1) + (count - 1) = RdBase + count
    BY <1>1, <1>6, DepthBound
  <2> QED
    BY <2>1, <2>2, <1>2, <1>3, <1>5, <1>6 DEF RingInv, PtrsInStep
<1>8. ASSUME NEW i \in 1 .. count' PROVE SlotOf(i)' = SlotOf(i + 1)
  <2>1. i \in Int /\ i - 1 \in Nat
    BY <1>1, <1>5, DepthBound
  <2>2. (((RdBase + 1) % PtrMod) + (i - 1)) % RB_DEPTH
          = ((RdBase + 1) + (i - 1)) % RB_DEPTH
    BY <1>6, <2>1, SlotAfterWrapped
  <2>3. (RdBase + 1) + (i - 1) = RdBase + (i + 1) - 1
    BY <1>6, <2>1
  <2>4. rd_ptr + i - 1 = rd_ptr + (i - 1)
    BY <1>1, <2>1, DepthBound
  <2> QED
    BY <2>2, <2>3, <2>4, <1>3, <1>6 DEF SlotOf
<1>9. SlotOf(1) = slot[t]
  BY <1>4, <1>6 DEF SlotOf
<1> QED
  BY <1>4, <1>5, <1>7, <1>8, <1>9

\* count++ of rb_write keeps the invariant: the new chunk is whole.
LEMMA WriteCountPreserves ==
  ASSUME RingInv, NEW t \in Tasks, WriteCount(t)
  PROVE  RingInv'
<1>1. /\ count' = count + 1 /\ count' \in 0 .. RB_DEPTH
      /\ PtrsInStep'
      /\ \A i \in 1 .. count : SlotOf(i)' = SlotOf(i)
      /\ SlotOf(count)' = slot[t]
  BY WriteCountEffect
<1> USE DEF WriteCount, Goto, Return
<1>2. /\ InCS(t) /\ "unlock" \in PCs \ {"idle", "lock"}
      /\ pc \in [Tasks -> PCs] /\ ret \in [Tasks -> -1 .. RB_DEPTH]
      /\ count \in 0 .. RB_DEPTH /\ op[t] \in Ops
  BY DEF InCS, RingInv, TypeOK, PCs
<1>3. TypeOK'
  BY <1>1, RingAssumption DEF RingInv, TypeOK, PCs
<1>4. /\ \A u \in Tasks : InCS(u)' <=> holder' = u
      /\ \A u \in Tasks \ {t} : CallInStep(u)'
      /\ (ReadDone(t)' => buf'[t].lo = buf'[t].hi /\ buf'[t].lo \in Chunks)
            => NoTornRead'
  BY <1>2, InsideFrame
<1>5. /\ op[t].fn = "rb_write"
      /\ slots[slot[t]].lo = op[t].chunk /\ slots[slot[t]].hi = op[t].chunk
  BY DEF RingInv, CallInStep, Writing
<1>6. op[t].chunk \in Chunks
  BY <1>2, <1>5 DEF Ops, Queries
<1>7. HeldChunksWhole'
  <2>1. SUFFICES ASSUME NEW i \in 1 .. count'
                 PROVE  /\ slots[SlotOf(i)'].lo = slots[SlotOf(i)'].hi
                        /\ slots[SlotOf(i)'].lo \in Chunks
    BY DEF HeldChunksWhole
  <2>2. CASE i \in 1 .. count
    BY <2>2, <1>1 DEF RingInv, HeldChunksWhole
  <2>3. CASE i = count'
    <3>1. SlotOf(i)' = SlotOf(count)'
      BY <2>3 DEF SlotOf
    <3> QED
      BY <3>1, <1>1, <1>5, <1>6
  <2> QED
    BY <2>2, <2>3, <1>1, <1>2, RingAssumption
<1>8. CallInStep(t)'
  BY <1>2 DEF CallInStep, Writing, Reading
<1>9. NoTornRead'
  BY <1>4, <1>5 DEF ReadDone
<1> QED
  BY <1>1, <1>3, <1>4, <1>7, <1>8, <1>9 DEF RingInv

\* This is where rb_read succeeds: the chunk it copied was whole.
LEMMA ReadCountPreserves ==
  ASSUME RingInv, NEW t \in Tasks, ReadCount(t)
  PROVE  RingInv'
<1>1. /\ count' = count - 1 /\ count > 0 /\ count' \in 0 .. RB_DEPTH
      /\ PtrsInStep'
      /\ \A i \in 1 .. count' : SlotOf(i)' = SlotOf(i + 1)
      /\ SlotOf(1) = slot[t]
  BY ReadCountEffect
<1> USE DEF ReadCount, Goto, Return
<1>2. /\ InCS(t) /\ "unlock" \in PCs \ {"idle", "lock"}
      /\ pc \in [Tasks -> PCs] /\ ret \in [Tasks -> -1 .. RB_DEPTH]
      /\ count \in 0 .. RB_DEPTH
  BY DEF InCS, RingInv, TypeOK, PCs
<1>3. TypeOK'
  BY <1>1, RingAssumption DEF RingInv, TypeOK, PCs
<1>4. /\ \A u \in Tasks : InCS(u)' <=> holder' = u
      /\ \A u \in Tasks \ {t} : CallInStep(u)'
      /\ (ReadDone(t)' => buf'[t].lo = buf'[t].hi /\ buf'[t].lo \in Chunks)
            => NoTornRead'
  BY <1>2, InsideFrame
<1>5. HeldChunksWhole'
  <2>1. SUFFICES ASSUME NEW i \in 1 .. count'
                 PROVE  /\ slots[SlotOf(i)'].lo = slots[SlotOf(i)'].hi
                        /\ slots[SlotOf(i)'].lo \in Chunks
    BY DEF HeldChunksWhole
  <2>2. i + 1 \in 1 .. count
    BY <1>1, <1>2, RingAssumption
  <2> QED
    BY <2>2, <1>1 DEF RingInv, HeldChunksWhole
<1>6. CallInStep(t)'
  BY <1>2 DEF CallInStep, Writing, Reading
<1>7. NoTornRead'
  <2>1. buf[t].lo = slots[slot[t]].lo /\ buf[t].hi = slots[slot[t]].hi
    BY DEF RingInv, CallInStep
  <2>2. 1 \in 1 .. count
    BY <1>1, <1>2, RingAssumption
  <2>3. slots[slot[t]].lo = slots[slot[t]].hi /\ slots[slot[t]].lo \in Chunks
    BY <2>2, <1>1 DEF RingInv, HeldChunksWhole
  <2> QED
    BY <1>4, <2>1, <2>3
<1> QED
  BY <1>1, <1>3, <1>4, <1>5, <1>6, <1>7 DEF RingInv

-----------------------------------------------------------------------------
(* The theorems.                                                           *)

\* rb_init establishes the invariant.
LEMMA InitInv ==
  ASSUME Init
  PROVE  RingInv
<1>1. TypeOK
  BY DepthBound DEF Init, TypeOK, Index, Content, Whole, PCs, Ops, Queries
<1>2. \A t \in Tasks : (InCS(t) <=> holder = t) /\ CallInStep(t)
  BY RingAssumption DEF Init, InCS, CallInStep, Writing, Reading
<1>3. PtrsInStep
  <2>1. RdBase = 0 /\ WrBase = 0
    BY DEF Init, RdBase, WrBase, HolderAt
  <2> QED
    BY <2>1, DepthBound, ModSmall DEF Init, PtrsInStep
<1>4. HeldChunksWhole /\ NoTornRead
  BY DEF Init, HeldChunksWhole, NoTornRead, ReadDone
<1> QED
  BY <1>1, <1>2, <1>3, <1>4 DEF RingInv

\* No step of any task, in whatever order the scheduler runs them, breaks it.
LEMMA NextInv ==
  ASSUME RingInv, [Next]_vars
  PROVE  RingInv'
<1>1. CASE UNCHANGED vars
  BY <1>1 DEF vars, RingInv, TypeOK, InCS, PtrsInStep, RdBase, WrBase, HolderAt,
              HeldChunksWhole, SlotOf, CallInStep, NoTornRead, ReadDone
<1>2. CASE Next
  <2>1. PICK t \in Tasks :
           \/ \E o \in Ops : Call(t, o)
           \/ CallNull(t)
           \/ Lock(t)
           \/ Body(t)
           \/ Unlock(t)
    BY <1>2 DEF Next
  <2>2. CASE Write(t)
    BY <2>2, WriteFullPreserves, WriteSlotPreserves, WriteCopyLoPreserves,
       WriteCopyHiPreserves, WritePtrPreserves, WriteCountPreserves DEF Write
  <2>3. CASE Read(t)
    BY <2>3, ReadEmptyPreserves, ReadSlotPreserves, ReadCopyLoPreserves,
       ReadCopyHiPreserves, ReadPtrPreserves, ReadCountPreserves DEF Read
  <2> QED
    BY <2>1, <2>2, <2>3, CallPreserves, CallNullPreserves, LockPreserves,
       QueryPreserves, UnlockPreserves DEF Body
<1> QED
  BY <1>1, <1>2

\* The inductive invariant of ring_buffer.c holds in every reachable state.
THEOREM RingInvariant == Spec => []RingInv
<1>1. Init => RingInv
  BY InitInv
<1>2. RingInv /\ [Next]_vars => RingInv'
  BY NextInv
<1> QED
  BY <1>1, <1>2, PTL DEF Spec

\* Type correctness: count never leaves 0..RB_DEPTH, although it is a plain
\* unsigned word that is incremented and decremented without a check.
THEOREM TypeCorrect == Spec => []TypeOK
<1>1. RingInv => TypeOK
  BY DEF RingInv
<1> QED
  BY <1>1, RingInvariant, PTL

\* wr_ptr, rd_ptr and count agree at every instant, across every wrap.
THEOREM PointersAgree == Spec => []PtrsInStep
<1>1. RingInv => PtrsInStep
  BY DEF RingInv
<1> QED
  BY <1>1, RingInvariant, PTL

\* The slots between the pointers hold whole chunks that a task wrote.
THEOREM ChunksWhole == Spec => []HeldChunksWhole
<1>1. RingInv => HeldChunksWhole
  BY DEF RingInv
<1> QED
  BY <1>1, RingInvariant, PTL

\* rb_read never returns 0 with a torn chunk or one that was never written.
THEOREM ReadsNotTorn == Spec => []NoTornRead
<1>1. RingInv => NoTornRead
  BY DEF RingInv
<1> QED
  BY <1>1, RingInvariant, PTL

=============================================================================
