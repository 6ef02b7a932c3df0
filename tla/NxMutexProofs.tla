--------------------------- MODULE NxMutexProofs ----------------------------
(***************************************************************************)
(* Proofs about NxMutex for every set of tasks, every assignment of pids   *)
(* and every width of the word: when the mutex is initialised once and     *)
(* before its first use, it excludes, loses no wake-up, and implements the *)
(* first-come lock of FifoLock.                                            *)
(***************************************************************************)
EXTENDS NxMutex, SequenceTheorems, TLAPS

\* nxmutex_init runs once, and no task locks before it has returned.  Without
\* this the theorems are false: see the runs mutex_startup and mutex_relaunch.
InitOnce ==
  \/ Initialised /\ Initialisers = {}
  \/ ~Initialised /\ InitFirst /\ \A c, d \in Initialisers : c = d

InitPCs == {"i_val", "i_list", "i_flags", "i_proto"}

\* Until nxmutex_init has returned its caller is alone.
BeforeReady ==
  /\ waitlist = <<>>
  /\ \A t \in Tasks : pc[t] = "out" \/ (t \in Initialisers /\ pc[t] \in InitPCs)
  /\ \A t \in Initialisers : pc[t] \in InitPCs
  /\ \A t \in Tasks : pc[t] \in {"i_list", "i_flags", "i_proto"} => val = NO_MHOLDER

\* What a call has read and still relies on: the type of the semaphore, a word
\* that was free, a word without the blocking bit.
CallInStep(t) ==
  /\ pc[t] \notin InitPCs
  /\ pc[t] # "out" => mutex[t]
  /\ pc[t] = "w_cas" => old[t] = NO_MHOLDER
  /\ pc[t] = "p_cas" => ~NXSEM_MBLOCKING(old[t])

\* The word names the holder, and carries the blocking bit exactly while a task
\* is on the wait list; without a holder it says so, and nobody waits.
WordInStep ==
  /\ \A t \in Tasks : Holding(t) => val = HolderWord(t, waitlist)
  /\ (\A t \in Tasks : ~Holding(t)) => val = NO_MHOLDER /\ waitlist = <<>>

\* The tasks on the wait list are the blocked ones, each once.
ListInStep ==
  /\ \A t \in Tasks : pc[t] = "blocked" <=> \E i \in DOMAIN waitlist : waitlist[i] = t
  /\ \A i, j \in DOMAIN waitlist : waitlist[i] = waitlist[j] => i = j

\* The inductive invariant.
LockInv ==
  /\ TypeOK
  /\ Initialised => ready
  /\ ~ready => BeforeReady
  /\ ready => /\ flags
              /\ \A t \in Tasks : CallInStep(t)
              /\ MutualExclusion
              /\ WordInStep
              /\ ListInStep

-----------------------------------------------------------------------------
(* The word.                                                               *)

\* A word that names a task, with or without the blocking bit, is not free.
LEMMA TaskWord ==
  ASSUME NEW t \in Tasks, NEW v \in {Pid[t], Pid[t] + MBLOCK}
  PROVE  /\ v \in Word /\ v # NO_MHOLDER /\ v # MRESET
         /\ HolderExists(v)
         /\ v % MBLOCK = Pid[t]
<1>1. MBLOCK \in Nat /\ MBLOCK > 3 /\ Pid[t] \in 1 .. MBLOCK - 3
  BY NxAssumption
<1>2. v % MBLOCK = Pid[t]
  BY <1>1
<1> QED
  BY <1>1, <1>2 DEF Word, NO_MHOLDER, MRESET, HolderExists, NXSEM_MACQUIRED

\* The blocking bit is the top bit of the word.
LEMMA BlockingBit ==
  ASSUME NEW t \in Tasks
  PROVE  /\ ~NXSEM_MBLOCKING(Pid[t])
         /\ NXSEM_MBLOCKING(Pid[t] + MBLOCK)
         /\ FetchOr(Pid[t]) = Pid[t] + MBLOCK
         /\ FetchOr(Pid[t] + MBLOCK) = Pid[t] + MBLOCK
  BY NxAssumption DEF NXSEM_MBLOCKING, FetchOr

\* NXSEM_NO_MHOLDER names nobody.
LEMMA FreeWord ==
  /\ NO_MHOLDER \in Word
  /\ ~HolderExists(NO_MHOLDER)
  /\ ~NXSEM_MBLOCKING(NO_MHOLDER)
<1>1. MBLOCK \in Nat /\ MBLOCK > 3
  BY NxAssumption
<1>2. NO_MHOLDER % MBLOCK = NO_MHOLDER
  BY <1>1 DEF NO_MHOLDER
<1> QED
  BY <1>1, <1>2 DEF Word, NO_MHOLDER, HolderExists, NXSEM_MACQUIRED, NXSEM_MBLOCKING

\* The word of a holder names it.
LEMMA HolderWordNames ==
  ASSUME NEW t \in Tasks, NEW list
  PROVE  HolderWord(t, list) \in {Pid[t], Pid[t] + MBLOCK}
  BY DEF HolderWord

-----------------------------------------------------------------------------
(* The initial state, and nxmutex_init.                                    *)

LEMMA InitLockInv ==
  ASSUME InitOnce, Init
  PROVE  LockInv
<1>1. 0 \in Word /\ NO_MHOLDER \in Word
  BY NxAssumption, FreeWord DEF Word
<1>2. TypeOK
  BY <1>1, NxAssumption DEF Init, TypeOK, PCs
<1>3. CASE Initialised
  BY <1>2, <1>3 DEF InitOnce, Init, LockInv, CallInStep, InitPCs, MutualExclusion,
     WordInStep, ListInStep, Holding
<1>4. CASE ~Initialised
  BY <1>2, <1>4, NxAssumption DEF Init, LockInv, BeforeReady, InitPCs
<1> QED
  BY <1>3, <1>4

\* Every statement of nxmutex_init preserves the invariant; the last one turns
\* the quiet zeroed word into a free mutex.
LEMMA InitStepInv ==
  ASSUME InitOnce, LockInv, NEW t \in Tasks, InitStep(t)
  PROVE  LockInv'
<1>1. TypeOK /\ pc[t] \in InitPCs
  BY DEF LockInv, InitStep, InitVal, InitList, InitFlags, InitProtocol, Goto, InitPCs
<1>2. ~ready /\ BeforeReady
  BY <1>1 DEF LockInv, CallInStep
<1>3. t \in Initialisers /\ \A u \in Initialisers : u = t
  BY <1>1, <1>2 DEF BeforeReady, InitOnce, InitPCs
<1>4. NO_MHOLDER \in Word
  BY FreeWord
<1>5. CASE InitVal(t)
  BY <1>1, <1>2, <1>3, <1>4, <1>5
     DEF InitVal, Goto, LockInv, TypeOK, PCs, BeforeReady, InitPCs
<1>6. CASE InitList(t)
  BY <1>1, <1>2, <1>3, <1>4, <1>6
     DEF InitList, Goto, LockInv, TypeOK, PCs, BeforeReady, InitPCs
<1>7. CASE InitFlags(t)
  BY <1>1, <1>2, <1>3, <1>4, <1>7
     DEF InitFlags, Goto, LockInv, TypeOK, PCs, BeforeReady, InitPCs
<1>8. CASE InitProtocol(t)
  <2>1. \A u \in Tasks : pc'[u] = "out"
    BY <1>1, <1>2, <1>3, <1>8 DEF InitProtocol, Goto, BeforeReady, TypeOK
  <2>2. val' = NO_MHOLDER /\ waitlist' = <<>> /\ ready' /\ flags'
    BY <1>2, <1>8 DEF InitProtocol, Goto, BeforeReady
  <2>3. TypeOK'
    BY <1>1, <1>8 DEF InitProtocol, Goto, TypeOK, PCs
  <2> QED
    BY <2>1, <2>2, <2>3 DEF LockInv, CallInStep, InitPCs, MutualExclusion,
       WordInStep, ListInStep, Holding
<1> QED
  BY <1>5, <1>6, <1>7, <1>8 DEF InitStep

-----------------------------------------------------------------------------
(* nxsem_wait and nxsem_post on the initialised mutex.                     *)

\* The invariant of an initialised mutex, in one piece.
Ready ==
  /\ TypeOK /\ ready /\ flags
  /\ \A t \in Tasks : CallInStep(t)
  /\ MutualExclusion
  /\ WordInStep
  /\ ListInStep

\* A task calls only when nxmutex_init has returned.
LEMMA CallsWhenReady ==
  ASSUME InitOnce, LockInv, NEW t \in Tasks, WaitCall(t) \/ WaitStep(t) \/ PostStep(t)
  PROVE  Ready
<1>1. CASE WaitCall(t)
  BY <1>1 DEF InitOnce, LockInv, Ready, WaitCall
<1>2. CASE ~WaitCall(t)
  <2>1. pc[t] \notin InitPCs \cup {"out"}
    BY <1>2 DEF WaitStep, PostStep, WaitRead, WaitCas, WaitCasFails, WaitSlow, WaitAcquire,
       WaitBlock, WaitWoken, PostCall, PostRead, PostCas, PostCasFails, PostSlow,
       PostCrit, Goto, InitPCs
  <2> QED
    BY <2>1 DEF LockInv, BeforeReady, Ready
<1> QED
  BY <1>1, <1>2

LEMMA ReadyIsInv == Ready => LockInv
  BY DEF Ready, LockInv

\* A step within a call that touches neither the word nor the wait list: only
\* what the call itself relies on has to be shown.
LEMMA LocalStep ==
  ASSUME Ready, NEW t \in Tasks, NEW p \in PCs,
         pc' = [pc EXCEPT ![t] = p],
         UNCHANGED <<val, flags, waitlist, ready>>,
         mutex' \in [Tasks -> BOOLEAN], old' \in [Tasks -> Word],
         \A u \in Tasks \ {t} : mutex'[u] = mutex[u] /\ old'[u] = old[u],
         CallInStep(t)', Holding(t)' <=> Holding(t),
         pc[t] # "blocked", p # "blocked"
  PROVE  LockInv'
<1>1. TypeOK'
  BY DEF Ready, TypeOK
<1>2. pc'[t] = p /\ \A u \in Tasks \ {t} : pc'[u] = pc[u]
  BY DEF Ready, TypeOK
<1>3. \A u \in Tasks : CallInStep(u)'
  BY <1>2 DEF Ready, CallInStep
<1>4. \A u \in Tasks : Holding(u)' <=> Holding(u)
  BY <1>2 DEF Holding
<1>5. MutualExclusion'
  BY <1>4 DEF Ready, MutualExclusion
<1>6. WordInStep'
  BY <1>4 DEF Ready, WordInStep, HolderWord
<1>7. ListInStep'
  BY <1>2 DEF Ready, ListInStep
<1> QED
  BY <1>1, <1>3, <1>5, <1>6, <1>7 DEF Ready, LockInv

LEMMA WaitCallInv ==
  ASSUME Ready, NEW t \in Tasks, WaitCall(t)
  PROVE  LockInv'
  BY LocalStep DEF Ready, WaitCall, Goto, TypeOK, PCs, CallInStep, Holding, InitPCs

LEMMA WaitReadInv ==
  ASSUME Ready, NEW t \in Tasks, WaitRead(t)
  PROVE  LockInv'
<1>1. mutex[t]
  BY DEF Ready, CallInStep, WaitRead
<1> DEFINE p == IF WaitFree(t, val) THEN "w_cas" ELSE "w_slow"
<1>2. p \in PCs /\ pc' = [pc EXCEPT ![t] = p] /\ pc[t] = "w_read"
  BY DEF WaitRead, PCs
<1>3. CallInStep(t)'
  BY <1>1, <1>2 DEF Ready, WaitRead, TypeOK, CallInStep, WaitFree, InitPCs
<1> QED
  BY <1>2, <1>3, LocalStep DEF Ready, WaitRead, TypeOK, Holding

LEMMA WaitCasFailsInv ==
  ASSUME Ready, NEW t \in Tasks, WaitCasFails(t)
  PROVE  LockInv'
  BY LocalStep DEF Ready, WaitCasFails, Goto, TypeOK, PCs, CallInStep, Holding, InitPCs

LEMMA WaitSlowInv ==
  ASSUME Ready, NEW t \in Tasks, WaitSlow(t)
  PROVE  LockInv'
  BY LocalStep DEF Ready, WaitSlow, Goto, TypeOK, PCs, CallInStep, Holding, InitPCs

LEMMA PostCallInv ==
  ASSUME Ready, NEW t \in Tasks, PostCall(t)
  PROVE  LockInv'
  BY LocalStep DEF Ready, PostCall, Goto, TypeOK, PCs, CallInStep, Holding, InitPCs

LEMMA PostReadInv ==
  ASSUME Ready, NEW t \in Tasks, PostRead(t)
  PROVE  LockInv'
<1> DEFINE p == IF NXSEM_MBLOCKING(val) THEN "p_slow" ELSE "p_cas"
<1>1. p \in PCs /\ pc' = [pc EXCEPT ![t] = p] /\ pc[t] = "p_read"
  BY DEF PostRead, PCs
<1>2. CallInStep(t)'
  BY <1>1 DEF Ready, PostRead, TypeOK, CallInStep, InitPCs
<1> QED
  BY <1>1, <1>2, LocalStep DEF Ready, PostRead, TypeOK, Holding

LEMMA PostCasFailsInv ==
  ASSUME Ready, NEW t \in Tasks, PostCasFails(t)
  PROVE  LockInv'
  BY LocalStep DEF Ready, PostCasFails, Goto, TypeOK, PCs, CallInStep, Holding, InitPCs

LEMMA PostSlowInv ==
  ASSUME Ready, NEW t \in Tasks, PostSlow(t)
  PROVE  LockInv'
  BY LocalStep DEF Ready, PostSlow, Goto, TypeOK, PCs, CallInStep, Holding, InitPCs

-----------------------------------------------------------------------------
(* The steps that take, hand over or release the lock, or join the list.   *)

\* A free word has no holder and nobody waits.
LEMMA FreeMeansNobody ==
  ASSUME Ready, ~HolderExists(val)
  PROVE  (\A u \in Tasks : ~Holding(u)) /\ val = NO_MHOLDER /\ waitlist = <<>>
  BY TaskWord, HolderWordNames DEF Ready, WordInStep

\* Whoever finds the lock free and writes itself into the word is the holder.
LEMMA TakeInv ==
  ASSUME Ready, NEW t \in Tasks, ~HolderExists(val),
         pc[t] \in {"w_cas", "w_crit"}, pc' = [pc EXCEPT ![t] = "cs"],
         val' = Pid[t], UNCHANGED <<flags, waitlist, ready, mutex, old>>
  PROVE  LockInv'
<1>1. (\A u \in Tasks : ~Holding(u)) /\ waitlist = <<>>
  BY FreeMeansNobody
<1>2. TypeOK'
  BY TaskWord DEF Ready, TypeOK, PCs
<1>3. pc'[t] = "cs" /\ \A u \in Tasks \ {t} : pc'[u] = pc[u]
  BY DEF Ready, TypeOK
<1>4. Holding(t)' /\ \A u \in Tasks \ {t} : ~Holding(u)'
  BY <1>1, <1>3 DEF Holding
<1>5. \A u \in Tasks : CallInStep(u)'
  BY <1>3 DEF Ready, CallInStep, InitPCs
<1>6. MutualExclusion'
  BY <1>4 DEF MutualExclusion
<1>7. WordInStep'
  BY <1>1, <1>4 DEF WordInStep, HolderWord
<1>8. ListInStep'
  BY <1>1, <1>3 DEF Ready, ListInStep
<1> QED
  BY <1>2, <1>5, <1>6, <1>7, <1>8 DEF Ready, LockInv

LEMMA WaitCasInv ==
  ASSUME Ready, NEW t \in Tasks, WaitCas(t)
  PROVE  LockInv'
<1>1. mutex[t] /\ val = NO_MHOLDER
  BY DEF Ready, CallInStep, WaitCas, Goto
<1> QED
  BY <1>1, FreeWord, TakeInv DEF WaitCas, Goto

LEMMA WaitAcquireInv ==
  ASSUME Ready, NEW t \in Tasks, WaitAcquire(t)
  PROVE  LockInv'
<1>1. mutex[t] /\ ~HolderExists(val)
  BY DEF Ready, CallInStep, WaitAcquire, Goto, Unlocked
<1>2. val' = Pid[t]
  BY <1>1, FreeMeansNobody DEF WaitAcquire, HolderWord
<1> QED
  BY <1>1, <1>2, TakeInv DEF WaitAcquire, Goto

\* A word that is not free names the one holder.
LEMMA HeldBySomebody ==
  ASSUME Ready, HolderExists(val)
  PROVE  \E u \in Tasks : Holding(u) /\ val = HolderWord(u, waitlist)
  BY FreeWord DEF Ready, WordInStep

LEMMA WaitBlockInv ==
  ASSUME Ready, NEW t \in Tasks, WaitBlock(t)
  PROVE  LockInv'
<1>1. mutex[t] /\ HolderExists(val) /\ pc[t] = "w_crit"
  BY DEF Ready, CallInStep, WaitBlock, Goto, Unlocked
<1>2. PICK h \in Tasks : Holding(h) /\ val = HolderWord(h, waitlist)
  BY <1>1, HeldBySomebody
<1>3. waitlist' = Append(waitlist, t) /\ waitlist' # <<>> /\ waitlist' \in Seq(Tasks)
      /\ Len(waitlist') = Len(waitlist) + 1 /\ Len(waitlist) \in Nat
      /\ waitlist'[Len(waitlist) + 1] = t
      /\ \A i \in 1 .. Len(waitlist) : waitlist'[i] = waitlist[i]
  BY AppendProperties, LenProperties DEF Ready, TypeOK, WaitBlock
<1>4. val' = Pid[h] + MBLOCK /\ val' \in Word
  BY <1>1, <1>2, BlockingBit, TaskWord DEF WaitBlock, HolderWord
<1>5. pc'[t] = "blocked" /\ \A u \in Tasks \ {t} : pc'[u] = pc[u]
  BY DEF Ready, TypeOK, WaitBlock, Goto
<1>6. TypeOK'
  BY <1>3, <1>4 DEF Ready, TypeOK, PCs, WaitBlock, Goto
<1>7. \A u \in Tasks : Holding(u)' <=> Holding(u)
  BY <1>1, <1>5 DEF Holding
<1>8. \A u \in Tasks : CallInStep(u)'
  BY <1>1, <1>5 DEF Ready, CallInStep, InitPCs, WaitBlock
<1>9. MutualExclusion'
  BY <1>7 DEF Ready, MutualExclusion
<1>10. WordInStep'
  <2>1. \A u \in Tasks : Holding(u)' => u = h
    BY <1>2, <1>7 DEF Ready, MutualExclusion
  <2> QED
    BY <1>2, <1>3, <1>4, <1>7, <2>1 DEF WordInStep, HolderWord
<1>11. ListInStep'
  <2>1. DOMAIN waitlist = 1 .. Len(waitlist) /\ DOMAIN waitlist' = 1 .. Len(waitlist) + 1
    BY <1>3, LenProperties DEF Ready, TypeOK
  <2>2. \A i \in DOMAIN waitlist : waitlist[i] # t
    BY <1>1 DEF Ready, ListInStep
  <2>3. \A i, j \in DOMAIN waitlist' : waitlist'[i] = waitlist'[j] => i = j
    BY <1>3, <2>1, <2>2 DEF Ready, ListInStep
  <2>4. ASSUME NEW u \in Tasks
        PROVE  (pc'[u] = "blocked") <=> \E i \in DOMAIN waitlist' : waitlist'[i] = u
    <3>1. CASE u = t
      BY <1>3, <1>5, <2>1, <3>1
    <3>2. CASE u # t
      BY <1>3, <1>5, <2>1, <3>2 DEF Ready, ListInStep
    <3> QED
      BY <3>1, <3>2
  <2> QED
    BY <2>3, <2>4 DEF ListInStep
<1> QED
  BY <1>6, <1>8, <1>9, <1>10, <1>11 DEF Ready, LockInv, WaitBlock

LEMMA WaitWokenInv ==
  ASSUME Ready, NEW t \in Tasks, WaitWoken(t)
  PROVE  LockInv'
<1>1. Holding(t) /\ mutex[t] /\ pc[t] = "woken"
  BY DEF Ready, CallInStep, WaitWoken, Goto, Holding
<1>2. val' = val
  BY <1>1 DEF Ready, WordInStep, WaitWoken
<1> QED
  BY <1>1, <1>2, LocalStep DEF Ready, WaitWoken, Goto, TypeOK, PCs, CallInStep, Holding, InitPCs

\* The holder releases a lock nobody waits for.
LEMMA ReleaseInv ==
  ASSUME Ready, NEW t \in Tasks, Holding(t), waitlist = <<>>,
         pc' = [pc EXCEPT ![t] = "out"], val' = NO_MHOLDER,
         UNCHANGED <<flags, waitlist, ready, mutex, old>>
  PROVE  LockInv'
<1>1. TypeOK'
  BY FreeWord DEF Ready, TypeOK, PCs
<1>2. pc'[t] = "out" /\ \A u \in Tasks \ {t} : pc'[u] = pc[u]
  BY DEF Ready, TypeOK
<1>3. \A u \in Tasks : ~Holding(u)'
  BY <1>2 DEF Ready, MutualExclusion, Holding
<1>4. \A u \in Tasks : CallInStep(u)'
  BY <1>2 DEF Ready, CallInStep, InitPCs
<1>5. MutualExclusion' /\ WordInStep'
  BY <1>3 DEF MutualExclusion, WordInStep
<1>6. ListInStep'
  BY <1>2 DEF Ready, ListInStep, Holding
<1> QED
  BY <1>1, <1>4, <1>5, <1>6 DEF Ready, LockInv

LEMMA PostCasInv ==
  ASSUME Ready, NEW t \in Tasks, PostCas(t)
  PROVE  LockInv'
<1>1. Holding(t) /\ mutex[t] /\ ~NXSEM_MBLOCKING(val)
  BY DEF Ready, CallInStep, PostCas, Goto, Holding
<1>2. waitlist = <<>>
  BY <1>1, BlockingBit DEF Ready, WordInStep, HolderWord
<1> QED
  BY <1>1, <1>2, ReleaseInv DEF PostCas, Goto

\* The slow unlock hands the lock to the first waiter.
LEMMA HandOverInv ==
  ASSUME Ready, NEW t \in Tasks, pc[t] = "p_crit", waitlist # <<>>,
         pc' = [pc EXCEPT ![t] = "out", ![Head(waitlist)] = "woken"],
         waitlist' = Tail(waitlist),
         val' = HolderWord(Head(waitlist), Tail(waitlist)),
         UNCHANGED <<flags, ready, mutex, old>>
  PROVE  LockInv'
<1> DEFINE w == Head(waitlist)
<1>1. w \in Tasks /\ w = waitlist[1] /\ waitlist' \in Seq(Tasks)
      /\ Len(waitlist) \in Nat \ {0} /\ Len(waitlist') = Len(waitlist) - 1
      /\ DOMAIN waitlist = 1 .. Len(waitlist) /\ DOMAIN waitlist' = 1 .. Len(waitlist) - 1
      /\ \A i \in 1 .. Len(waitlist) - 1 : waitlist'[i] = waitlist[i + 1]
  BY HeadTailProperties, LenProperties, EmptySeq DEF Ready, TypeOK
<1> HIDE DEF w
<1>2. pc[w] = "blocked" /\ w # t
  BY <1>1 DEF Ready, ListInStep
<1>3. pc'[t] = "out" /\ pc'[w] = "woken" /\ \A u \in Tasks \ {t, w} : pc'[u] = pc[u]
  BY <1>1, <1>2 DEF Ready, TypeOK, w
<1>4. val' = HolderWord(w, waitlist') /\ val' \in Word
  BY <1>1, TaskWord, HolderWordNames DEF w
<1>5. TypeOK'
  BY <1>1, <1>4 DEF Ready, TypeOK, PCs, w
<1>6. \A u \in Tasks : Holding(u)' <=> u = w
  BY <1>2, <1>3 DEF Ready, MutualExclusion, Holding
<1>7. \A u \in Tasks : CallInStep(u)'
  BY <1>2, <1>3 DEF Ready, CallInStep, InitPCs
<1>8. MutualExclusion' /\ WordInStep'
  BY <1>1, <1>4, <1>6 DEF MutualExclusion, WordInStep, HolderWord
<1>9. ListInStep'
  <2>1. \A i, j \in DOMAIN waitlist' : waitlist'[i] = waitlist'[j] => i = j
    BY <1>1 DEF Ready, ListInStep
  <2>2. ASSUME NEW u \in Tasks
        PROVE  (pc'[u] = "blocked") <=> \E i \in DOMAIN waitlist' : waitlist'[i] = u
    <3>1. ASSUME pc'[u] = "blocked" PROVE \E i \in DOMAIN waitlist' : waitlist'[i] = u
      <4>1. u # w /\ pc[u] = "blocked"
        BY <1>2, <1>3, <3>1
      <4>2. PICK i \in DOMAIN waitlist : waitlist[i] = u
        BY <4>1 DEF Ready, ListInStep
      <4>3. i # 1 /\ i - 1 \in DOMAIN waitlist' /\ waitlist'[i - 1] = u
        BY <1>1, <4>1, <4>2
      <4> QED
        BY <4>3
    <3>2. ASSUME NEW i \in DOMAIN waitlist', waitlist'[i] = u PROVE pc'[u] = "blocked"
      <4>1. i + 1 \in DOMAIN waitlist /\ waitlist[i + 1] = u /\ i + 1 # 1 /\ 1 \in DOMAIN waitlist
        BY <1>1, <3>2
      <4>2. u # w /\ pc[u] = "blocked"
        BY <1>1, <4>1 DEF Ready, ListInStep
      <4> QED
        BY <1>3, <4>2
    <3> QED
      BY <3>1, <3>2
  <2> QED
    BY <2>1, <2>2 DEF ListInStep
<1> QED
  BY <1>5, <1>7, <1>8, <1>9 DEF Ready, LockInv

\* What PostCrit does to an initialised mutex.
LEMMA PostCritCases ==
  ASSUME Ready, NEW t \in Tasks, PostCrit(t)
  PROVE  /\ mutex[t] /\ Holding(t) /\ pc[t] = "p_crit"
         /\ waitlist = <<>> => /\ pc' = [pc EXCEPT ![t] = "out"]
                               /\ waitlist' = waitlist /\ val' = NO_MHOLDER
         /\ waitlist # <<>> => /\ pc' = [pc EXCEPT ![t] = "out", ![Head(waitlist)] = "woken"]
                               /\ waitlist' = Tail(waitlist)
                               /\ val' = HolderWord(Head(waitlist), Tail(waitlist))
<1>1. mutex[t] /\ Holding(t) /\ pc[t] = "p_crit"
  BY DEF Ready, CallInStep, PostCrit, Holding
<1>2. val = HolderWord(t, waitlist)
  BY <1>1 DEF Ready, WordInStep
<1>3. CASE waitlist = <<>>
  <2>1. ~Blocking(t) /\ ~Wakes(t) /\ val # MRESET
    BY <1>1, <1>2, <1>3, BlockingBit, TaskWord DEF Blocking, Wakes, HolderWord
  <2> QED
    BY <1>1, <1>3, <2>1 DEF PostCrit, PostVal
<1>4. CASE waitlist # <<>>
  <2>1. Blocking(t) /\ Wakes(t)
    BY <1>1, <1>2, <1>4, BlockingBit DEF Blocking, Wakes, HolderWord
  <2> QED
    BY <1>1, <1>4, <2>1 DEF PostCrit, PostVal
<1> QED
  BY <1>1, <1>3, <1>4

LEMMA PostCritInv ==
  ASSUME Ready, NEW t \in Tasks, PostCrit(t)
  PROVE  LockInv'
<1>1. UNCHANGED <<flags, ready, mutex, old>>
  BY DEF PostCrit
<1>2. CASE waitlist = <<>>
  BY <1>1, <1>2, PostCritCases, ReleaseInv
<1>3. CASE waitlist # <<>>
  BY <1>1, <1>3, PostCritCases, HandOverInv
<1> QED
  BY <1>2, <1>3

-----------------------------------------------------------------------------
(* The theorems.                                                           *)

LEMMA NextLockInv ==
  ASSUME InitOnce, LockInv, [Next]_vars
  PROVE  LockInv'
<1>1. ASSUME NEW t \in Tasks, InitStep(t) PROVE LockInv'
  BY <1>1, InitStepInv
<1>2. ASSUME NEW t \in Tasks, WaitCall(t) PROVE LockInv'
  BY <1>2, CallsWhenReady, WaitCallInv
<1>3. ASSUME NEW t \in Tasks, WaitStep(t) PROVE LockInv'
  <2>1. Ready
    BY <1>3, CallsWhenReady
  <2> QED
    BY <1>3, <2>1, WaitReadInv, WaitCasInv, WaitCasFailsInv, WaitSlowInv,
       WaitAcquireInv, WaitBlockInv, WaitWokenInv DEF WaitStep
<1>4. ASSUME NEW t \in Tasks, PostStep(t) PROVE LockInv'
  <2>1. Ready
    BY <1>4, CallsWhenReady
  <2> QED
    BY <1>4, <2>1, PostCallInv, PostReadInv, PostCasInv, PostCasFailsInv,
       PostSlowInv, PostCritInv DEF PostStep
<1>5. CASE UNCHANGED vars
  BY <1>5 DEF vars, LockInv, TypeOK, BeforeReady, CallInStep, MutualExclusion,
     WordInStep, ListInStep, Holding, HolderWord, InitPCs, NXSEM_MBLOCKING
<1> QED
  BY <1>1, <1>2, <1>3, <1>4, <1>5 DEF Next

\* The inductive invariant of nxsem_wait and nxsem_post on a mutex that is
\* initialised once, whatever the tasks do.
THEOREM MutexInvariant ==
  ASSUME InitOnce
  PROVE  Spec => []LockInv
<1>1. Init => LockInv
  BY InitLockInv
<1>2. LockInv /\ [Next]_vars => LockInv'
  BY NextLockInv
<1> QED
  BY <1>1, <1>2, PTL DEF Spec

\* The word stays a word: no pid, count or blocking bit runs out of it.
THEOREM MutexTypeCorrect ==
  ASSUME InitOnce
  PROVE  Spec => []TypeOK
<1>1. LockInv => TypeOK
  BY DEF LockInv
<1> QED
  BY <1>1, MutexInvariant, PTL

\* Fast path, slow path and hand-off never let two tasks in.
THEOREM MutexExcludes ==
  ASSUME InitOnce
  PROVE  Spec => []MutualExclusion
<1>1. LockInv => MutualExclusion
  BY DEF LockInv, BeforeReady, InitPCs, MutualExclusion, Holding
<1> QED
  BY <1>1, MutexInvariant, PTL

\* No unlock overlooks a blocked task.
THEOREM MutexLosesNoWakeup ==
  ASSUME InitOnce
  PROVE  Spec => []NoLostWakeup
<1>1. LockInv => NoLostWakeup
  <2>1. ASSUME LockInv, ~ready PROVE NoLostWakeup
    BY <2>1 DEF LockInv, BeforeReady, InitPCs, NoLostWakeup
  <2>2. ASSUME LockInv, ready PROVE NoLostWakeup
    <3>1. WordInStep /\ ListInStep
      BY <2>2 DEF LockInv
    <3>2. ASSUME waitlist # <<>> PROVE NXSEM_MBLOCKING(val) /\ \E t \in Tasks : Holding(t)
      <4>1. PICK t \in Tasks : Holding(t)
        BY <3>1, <3>2 DEF WordInStep
      <4> QED
        BY <3>1, <3>2, <4>1, BlockingBit DEF WordInStep, HolderWord
    <3> QED
      BY <3>1, <3>2 DEF ListInStep, NoLostWakeup
  <2> QED
    BY <2>1, <2>2
<1> QED
  BY <1>1, MutexInvariant, PTL

-----------------------------------------------------------------------------
(* The refinement of FifoLock.                                             *)

Holders == {t \in Tasks : Holding(t)}

\* A step that changes no task's hold and not the wait list is a stutter.
LEMMA SameLock ==
  ASSUME \A u \in Tasks : Holding(u)' <=> Holding(u), UNCHANGED waitlist
  PROVE  UNCHANGED <<Holders, waitlist>>
  BY DEF Holders

LEMMA InitStepMaps ==
  ASSUME LockInv, NEW t \in Tasks, InitStep(t)
  PROVE  UNCHANGED <<Holders, waitlist>>
<1>1. TypeOK /\ pc[t] \in InitPCs
  BY DEF LockInv, InitStep, InitVal, InitList, InitFlags, InitProtocol, Goto, InitPCs
<1>2. waitlist = <<>>
  BY <1>1 DEF LockInv, CallInStep, BeforeReady
<1>3. waitlist' = waitlist /\ \A u \in Tasks : Holding(u)' <=> Holding(u)
  BY <1>1, <1>2 DEF InitStep, InitVal, InitList, InitFlags, InitProtocol, Goto, TypeOK, Holding
<1> QED
  BY <1>3, SameLock

\* The steps of a call that neither take nor release nor wait.
LocalMove(t) ==
  \/ WaitCall(t) \/ WaitRead(t) \/ WaitCasFails(t) \/ WaitSlow(t) \/ WaitWoken(t)
  \/ PostCall(t) \/ PostRead(t) \/ PostCasFails(t) \/ PostSlow(t)

LEMMA LocalMoveMaps ==
  ASSUME Ready, NEW t \in Tasks, LocalMove(t)
  PROVE  UNCHANGED <<Holders, waitlist>>
<1>1. waitlist' = waitlist /\ \A u \in Tasks : Holding(u)' <=> Holding(u)
  BY DEF LocalMove, Ready, TypeOK, WaitCall, WaitRead, WaitCasFails, WaitSlow, WaitWoken,
     PostCall, PostRead, PostCasFails, PostSlow, Goto, Holding
<1> QED
  BY <1>1, SameLock

\* Both ways into the lock are FifoLock's Take: nobody holds it, nobody waits.
LEMMA TakeMaps ==
  ASSUME Ready, NEW t \in Tasks, WaitCas(t) \/ WaitAcquire(t)
  PROVE  Holders = {} /\ waitlist = <<>> /\ Holders' = {t} /\ waitlist' = waitlist
<1>1. ~HolderExists(val)
  BY FreeWord DEF Ready, CallInStep, WaitCas, WaitAcquire, Goto, Unlocked
<1>2. (\A u \in Tasks : ~Holding(u)) /\ waitlist = <<>>
  BY <1>1, FreeMeansNobody
<1>3. pc'[t] = "cs" /\ (\A u \in Tasks \ {t} : pc'[u] = pc[u]) /\ waitlist' = waitlist
  BY DEF Ready, TypeOK, WaitCas, WaitAcquire, Goto
<1>4. \A u \in Tasks : Holding(u)' <=> u = t
  BY <1>2, <1>3 DEF Holding
<1> QED
  BY <1>2, <1>3, <1>4 DEF Holders

\* Blocking is FifoLock's Wait: another task holds the lock, and the waiter goes
\* to the end of the queue.
LEMMA BlockMaps ==
  ASSUME Ready, NEW t \in Tasks, WaitBlock(t)
  PROVE  /\ Holders \notin {{}, {t}} /\ \A i \in DOMAIN waitlist : waitlist[i] # t
         /\ waitlist' = Append(waitlist, t) /\ Holders' = Holders
<1>1. mutex[t] /\ HolderExists(val) /\ pc[t] = "w_crit" /\ waitlist' = Append(waitlist, t)
  BY DEF Ready, CallInStep, WaitBlock, Goto, Unlocked
<1>2. PICK h \in Tasks : Holding(h)
  BY <1>1, HeldBySomebody
<1>3. ~Holding(t)
  BY <1>1 DEF Holding
<1>4. \A i \in DOMAIN waitlist : waitlist[i] # t
  BY <1>1 DEF Ready, ListInStep
<1>5. \A u \in Tasks : Holding(u)' <=> Holding(u)
  BY <1>1 DEF Ready, TypeOK, WaitBlock, Goto, Holding
<1> QED
  BY <1>1, <1>2, <1>3, <1>4, <1>5 DEF Holders

\* Both ways out of the lock are FifoLock's Release.
LEMMA ReleaseMaps ==
  ASSUME Ready, NEW t \in Tasks, PostCas(t) \/ PostCrit(t)
  PROVE  /\ Holders = {t}
         /\ waitlist = <<>> => Holders' = {} /\ waitlist' = waitlist
         /\ waitlist # <<>> => Holders' = {Head(waitlist)} /\ waitlist' = Tail(waitlist)
<1>1. Holding(t) /\ \A u \in Tasks : Holding(u) => u = t
  BY DEF Ready, MutualExclusion, PostCas, PostCrit, Goto, Holding
<1>2. Holders = {t}
  BY <1>1 DEF Holders
<1>3. CASE PostCas(t)
  <2>1. waitlist = <<>> /\ waitlist' = waitlist
    BY <1>1, <1>3, BlockingBit DEF Ready, CallInStep, PostCas, Goto, WordInStep, HolderWord
  <2>2. \A u \in Tasks : ~Holding(u)'
    BY <1>1, <1>3 DEF Ready, TypeOK, PostCas, Goto, Holding
  <2> QED
    BY <1>2, <2>1, <2>2 DEF Holders
<1>4. CASE PostCrit(t)
  <2>1. CASE waitlist = <<>>
    <3>1. pc' = [pc EXCEPT ![t] = "out"] /\ waitlist' = waitlist
      BY <1>4, <2>1, PostCritCases
    <3>2. \A u \in Tasks : ~Holding(u)'
      BY <1>1, <3>1 DEF Ready, TypeOK, Holding
    <3> QED
      BY <1>2, <2>1, <3>1, <3>2 DEF Holders
  <2>2. CASE waitlist # <<>>
    <3>1. pc' = [pc EXCEPT ![t] = "out", ![Head(waitlist)] = "woken"] /\ waitlist' = Tail(waitlist)
      BY <1>4, <2>2, PostCritCases
    <3>2. Head(waitlist) \in Tasks /\ pc[Head(waitlist)] = "blocked"
      <4>1. Head(waitlist) \in Tasks /\ Head(waitlist) = waitlist[1] /\ 1 \in DOMAIN waitlist
        BY <2>2, HeadTailProperties, LenProperties, EmptySeq DEF Ready, TypeOK
      <4> QED
        BY <4>1 DEF Ready, ListInStep
    <3>3. \A u \in Tasks : Holding(u)' <=> u = Head(waitlist)
      BY <1>1, <1>4, <3>1, <3>2 DEF Ready, TypeOK, PostCrit, Holding
    <3> QED
      BY <1>2, <2>2, <3>1, <3>2, <3>3 DEF Holders
  <2> QED
    BY <2>1, <2>2
<1> QED
  BY <1>3, <1>4

LEMMA NextMaps ==
  ASSUME InitOnce, LockInv, [Next]_vars
  PROVE  [Lock!LockNext]_(Lock!lockVars)
<1> USE DEF Lock!lockVars
<1>1. ASSUME NEW t \in Tasks, InitStep(t) PROVE UNCHANGED Lock!lockVars
  BY <1>1, InitStepMaps DEF Holders
<1>2. ASSUME NEW t \in Tasks, LocalMove(t) PROVE UNCHANGED Lock!lockVars
  <2>1. Ready
    BY <1>2, CallsWhenReady DEF LocalMove, WaitStep, PostStep
  <2> QED
    BY <1>2, <2>1, LocalMoveMaps DEF Holders
<1>3. ASSUME NEW t \in Tasks, WaitCas(t) \/ WaitAcquire(t) PROVE Lock!Take(t)
  <2>1. Ready
    BY <1>3, CallsWhenReady DEF WaitStep
  <2> QED
    BY <1>3, <2>1, TakeMaps DEF Holders, Lock!Take
<1>4. ASSUME NEW t \in Tasks, WaitBlock(t) PROVE Lock!Wait(t)
  <2>1. Ready
    BY <1>4, CallsWhenReady DEF WaitStep
  <2> QED
    BY <1>4, <2>1, BlockMaps DEF Holders, Lock!Wait
<1>5. ASSUME NEW t \in Tasks, PostCas(t) \/ PostCrit(t) PROVE Lock!Release(t)
  <2>1. Ready
    BY <1>5, CallsWhenReady DEF PostStep
  <2> QED
    BY <1>5, <2>1, ReleaseMaps DEF Holders, Lock!Release
<1>6. CASE UNCHANGED vars
  BY <1>6 DEF vars, Holding
<1>7. ASSUME NEW t \in Tasks, InitStep(t) \/ WaitCall(t) \/ WaitStep(t) \/ PostStep(t)
      PROVE  [Lock!LockNext]_(Lock!lockVars)
  BY <1>1, <1>2, <1>3, <1>4, <1>5, <1>7 DEF WaitStep, PostStep, LocalMove, Lock!LockNext
<1> QED
  BY <1>6, <1>7 DEF Next

\* nxmutex_lock and nxmutex_unlock implement the first-come lock: no task gets
\* past one that waits, on the fast path or in the hand-off.
THEOREM MutexImplementsLock ==
  ASSUME InitOnce
  PROVE  Spec => ImplementsLock
<1>1. Init => Lock!LockInit
  BY DEF Init, Lock!LockInit, Holding
<1>2. LockInv /\ [Next]_vars => [Lock!LockNext]_(Lock!lockVars)
  BY NextMaps
<1> QED
  BY <1>1, <1>2, MutexInvariant, PTL DEF Spec, ImplementsLock, Lock!LockSpec
=============================================================================
