------------------------------ MODULE NxMutex ------------------------------
(***************************************************************************)
(* g_rb_lock: the NuttX mutex under the ring buffer, at the level of its   *)
(* atomic operations.  nxmutex_lock is nxsem_wait and nxmutex_unlock is    *)
(* nxsem_post: a fast path of one atomic read and one compare-and-swap,    *)
(* and a slow path with interrupts disabled, in one step on this           *)
(* single-core part.  The word val is at once the holder of a mutex (with  *)
(* a blocking bit) and the count of a counting semaphore; which one it is  *)
(* depends on flags, which is zero until nxmutex_init has run.             *)
(***************************************************************************)
EXTENDS Integers, Sequences

CONSTANTS
  Tasks,         \* the tasks that lock and unlock
  Initialisers,  \* the tasks that call nxmutex_init first (the cameras)
  Pid,           \* Pid[t]: the pid of t
  MBLOCK,        \* NXSEM_MBLOCKING_BIT, the top bit of the word (2^31)
  Initialised,   \* TRUE: the mutex was initialised before the tasks start
  InitFirst      \* TRUE: a task locks only after some nxmutex_init returned

NO_MHOLDER == MBLOCK - 2
MRESET     == MBLOCK - 1

\* Pids lie well below NXSEM_NO_MHOLDER, and 0 is the idle task's.
ASSUME NxAssumption ==
  /\ MBLOCK \in Nat /\ MBLOCK > 3
  /\ Initialisers \subseteq Tasks
  /\ Pid \in [Tasks -> 1 .. MBLOCK - 3]
  /\ \A t, u \in Tasks : Pid[t] = Pid[u] => t = u
  /\ Initialised \in BOOLEAN /\ InitFirst \in BOOLEAN

VARIABLES
  val,       \* sem->val
  flags,     \* sem->flags: TRUE when SEM_TYPE_MUTEX is set
  waitlist,  \* sem->waitlist: first in, first out at equal priority
  ready,     \* some nxmutex_init has returned
  pc,        \* pc[t]: where t is
  mutex,     \* mutex[t]: the local variable mutex
  old        \* old[t]: the local variable old

vars == <<val, flags, waitlist, ready, pc, mutex, old>>

Word      == 0 .. 2 * MBLOCK - 1
Signed(v) == IF v >= MBLOCK THEN v - 2 * MBLOCK ELSE v
NXSEM_MBLOCKING(v) == v >= MBLOCK
NXSEM_MACQUIRED(v) == v % MBLOCK \notin {NO_MHOLDER, MRESET}

\* Mutant of FetchOr: the bit is added, even when it is set.
FetchAdd(v) == v + MBLOCK

\* atomic_fetch_or(NXSEM_MHOLDER(sem), NXSEM_MBLOCKING_BIT)
FetchOr(v) == IF v >= MBLOCK THEN v ELSE v + MBLOCK

\* g_rb_lock is a static: all zero, a counting semaphore without a count.
Init ==
  /\ val      = IF Initialised THEN NO_MHOLDER ELSE 0
  /\ flags    = Initialised
  /\ waitlist = <<>>
  /\ ready    = Initialised
  /\ pc    = [t \in Tasks |-> IF t \in Initialisers THEN "i_val" ELSE "out"]
  /\ mutex = [t \in Tasks |-> FALSE]
  /\ old   = [t \in Tasks |-> 0]

Goto(t, from, to) ==
  /\ pc[t] = from
  /\ pc' = [pc EXCEPT ![t] = to]

-----------------------------------------------------------------------------
(* nxmutex_init: nxsem_init(sem, 0, NXSEM_NO_MHOLDER), then the protocol.  *)

InitVal(t) ==
  /\ Goto(t, "i_val", "i_list")
  /\ val' = NO_MHOLDER
  /\ UNCHANGED <<flags, waitlist, ready, mutex, old>>

InitList(t) ==
  /\ Goto(t, "i_list", "i_flags")
  /\ waitlist' = <<>>
  /\ UNCHANGED <<val, flags, ready, mutex, old>>

InitFlags(t) ==
  /\ Goto(t, "i_flags", "i_proto")
  /\ flags' = FALSE
  /\ UNCHANGED <<val, waitlist, ready, mutex, old>>

InitProtocol(t) ==
  /\ Goto(t, "i_proto", "out")
  /\ flags' = TRUE
  /\ ready' = TRUE
  /\ UNCHANGED <<val, waitlist, mutex, old>>

-----------------------------------------------------------------------------
(* nxsem_wait                                                              *)

WaitCall(t) ==
  /\ InitFirst => ready
  /\ Goto(t, "out", "w_read")
  /\ mutex' = [mutex EXCEPT ![t] = flags]
  /\ UNCHANGED <<val, flags, waitlist, ready, old>>

\* The fast path is taken when the word says the lock is free.
WaitFree(t, v) == IF mutex[t] THEN v = NO_MHOLDER ELSE Signed(v) >= 1

WaitRead(t) ==
  /\ pc[t] = "w_read"
  /\ old' = [old EXCEPT ![t] = val]
  /\ pc'  = [pc EXCEPT ![t] = IF WaitFree(t, val) THEN "w_cas" ELSE "w_slow"]
  /\ UNCHANGED <<val, flags, waitlist, ready, mutex>>

\* Mutant of WaitCas: a plain store instead of the compare-and-swap.
WaitStore(t) ==
  /\ Goto(t, "w_cas", "cs")
  /\ val' = IF mutex[t] THEN Pid[t] ELSE old[t] - 1
  /\ UNCHANGED <<flags, waitlist, ready, mutex, old>>

WaitCas(t) ==
  /\ Goto(t, "w_cas", "cs")
  /\ val = old[t]
  /\ val' = IF mutex[t] THEN Pid[t] ELSE old[t] - 1
  /\ UNCHANGED <<flags, waitlist, ready, mutex, old>>

WaitCasFails(t) ==
  /\ Goto(t, "w_cas", "w_read")
  /\ val # old[t]
  /\ UNCHANGED <<val, flags, waitlist, ready, mutex, old>>

\* nxsem_wait_slow reads the type again before it disables interrupts.
WaitSlow(t) ==
  /\ Goto(t, "w_slow", "w_crit")
  /\ mutex' = [mutex EXCEPT ![t] = flags]
  /\ UNCHANGED <<val, flags, waitlist, ready, old>>

\* nxsched_get_tcb finds these tasks and the idle task, whose pid is 0; a word
\* that counted down from NO_MHOLDER is nobody's pid.
HolderExists(v) == NXSEM_MACQUIRED(v) /\ v % MBLOCK \in {0} \cup {Pid[u] : u \in Tasks}

Unlocked(t) == IF mutex[t] THEN ~HolderExists(val) ELSE Signed(val) > 0

HolderWord(t, list) == IF list = <<>> THEN Pid[t] ELSE Pid[t] + MBLOCK

WaitAcquire(t) ==
  /\ Goto(t, "w_crit", "cs")
  /\ Unlocked(t)
  /\ val' = IF mutex[t] THEN HolderWord(t, waitlist) ELSE (val - 1) % (2 * MBLOCK)
  /\ UNCHANGED <<flags, waitlist, ready, mutex, old>>

\* Mutant of WaitBlock: the blocking bit is not set.
WaitBlockNoBit(t) ==
  /\ Goto(t, "w_crit", "blocked")
  /\ ~Unlocked(t)
  /\ waitlist' = Append(waitlist, t)
  /\ UNCHANGED <<val, flags, ready, mutex, old>>

\* Mutant of WaitBlock: the waiter is put in front of the others.
WaitBlockFront(t) ==
  /\ Goto(t, "w_crit", "blocked")
  /\ ~Unlocked(t)
  /\ val' = IF mutex[t] THEN FetchOr(val) ELSE (val - 1) % (2 * MBLOCK)
  /\ waitlist' = <<t>> \o waitlist
  /\ UNCHANGED <<flags, ready, mutex, old>>

WaitBlock(t) ==
  /\ Goto(t, "w_crit", "blocked")
  /\ ~Unlocked(t)
  /\ val' = IF mutex[t] THEN FetchOr(val) ELSE (val - 1) % (2 * MBLOCK)
  /\ waitlist' = Append(waitlist, t)
  /\ UNCHANGED <<flags, ready, mutex, old>>

\* The woken task writes itself into the word, although the poster has.
WaitWoken(t) ==
  /\ Goto(t, "woken", "cs")
  /\ val' = IF mutex[t] THEN HolderWord(t, waitlist) ELSE val
  /\ UNCHANGED <<flags, waitlist, ready, mutex, old>>

-----------------------------------------------------------------------------
(* nxsem_post                                                              *)

PostCall(t) ==
  /\ Goto(t, "cs", "p_read")
  /\ mutex' = [mutex EXCEPT ![t] = flags]
  /\ UNCHANGED <<val, flags, waitlist, ready, old>>

PostRead(t) ==
  /\ pc[t] = "p_read"
  /\ old' = [old EXCEPT ![t] = val]
  /\ pc'  = [pc EXCEPT ![t] = IF NXSEM_MBLOCKING(val) THEN "p_slow" ELSE "p_cas"]
  /\ UNCHANGED <<val, flags, waitlist, ready, mutex>>

PostCas(t) ==
  /\ Goto(t, "p_cas", "out")
  /\ val = old[t]
  /\ val' = IF mutex[t] THEN NO_MHOLDER ELSE (old[t] + 1) % (2 * MBLOCK)
  /\ UNCHANGED <<flags, waitlist, ready, mutex, old>>

PostCasFails(t) ==
  /\ Goto(t, "p_cas", "p_read")
  /\ val # old[t]
  /\ UNCHANGED <<val, flags, waitlist, ready, mutex, old>>

PostSlow(t) ==
  /\ Goto(t, "p_slow", "p_crit")
  /\ mutex' = [mutex EXCEPT ![t] = flags]
  /\ UNCHANGED <<val, flags, waitlist, ready, old>>

\* nxsem_post_slow: the lock goes straight to the first waiter, so it is never
\* free while a task waits.
Blocking(t) == IF mutex[t] THEN NXSEM_MBLOCKING(val) ELSE Signed(val) < 0
Wakes(t)    == Blocking(t) /\ waitlist # <<>>

PostVal(t) ==
  CASE mutex[t] /\ Wakes(t)     -> HolderWord(Head(waitlist), Tail(waitlist))
    [] mutex[t] /\ ~Blocking(t) -> IF val = MRESET THEN MRESET ELSE NO_MHOLDER
    [] mutex[t] /\ Blocking(t) /\ ~Wakes(t) -> val
    [] OTHER -> IF val = MRESET THEN val ELSE (val + 1) % (2 * MBLOCK)

PostCrit(t) ==
  /\ pc[t] = "p_crit"
  /\ pc' = IF Wakes(t)
           THEN [pc EXCEPT ![t] = "out", ![Head(waitlist)] = "woken"]
           ELSE [pc EXCEPT ![t] = "out"]
  /\ waitlist' = IF Wakes(t) THEN Tail(waitlist) ELSE waitlist
  /\ val' = PostVal(t)
  /\ UNCHANGED <<flags, ready, mutex, old>>

-----------------------------------------------------------------------------
InitStep(t) == InitVal(t) \/ InitList(t) \/ InitFlags(t) \/ InitProtocol(t)
WaitStep(t) == WaitRead(t) \/ WaitCas(t) \/ WaitCasFails(t) \/ WaitSlow(t)
                 \/ WaitAcquire(t) \/ WaitBlock(t) \/ WaitWoken(t)
PostStep(t) == PostCall(t) \/ PostRead(t) \/ PostCas(t) \/ PostCasFails(t)
                 \/ PostSlow(t) \/ PostCrit(t)

Next == \E t \in Tasks : InitStep(t) \/ WaitCall(t) \/ WaitStep(t) \/ PostStep(t)

Spec == Init /\ [][Next]_vars

(* A task that is ready to run is run again and again.  WaitCas needs      *)
(* strong fairness: a task whose compare-and-swap meets another task's     *)
(* lock reads the word again, and could meet a locked word at every try;   *)
(* the retry is a few instructions in a time slice of 200 ms.              *)
FairSpec ==
  /\ Spec
  /\ \A t \in Tasks :
       WF_vars(InitStep(t) \/ WaitStep(t) \/ PostStep(t)) /\ SF_vars(WaitCas(t))

-----------------------------------------------------------------------------
(* Properties                                                              *)

PCs == {"i_val", "i_list", "i_flags", "i_proto", "out", "w_read", "w_cas",
        "w_slow", "w_crit", "blocked", "woken", "cs",
        "p_read", "p_cas", "p_slow", "p_crit"}

\* Type invariant of the semaphore and of the calls in progress.
TypeOK ==
  /\ val \in Word
  /\ flags \in BOOLEAN
  /\ waitlist \in Seq(Tasks)
  /\ ready \in BOOLEAN
  /\ pc \in [Tasks -> PCs]
  /\ mutex \in [Tasks -> BOOLEAN]
  /\ old \in [Tasks -> Word]

\* The task holds the lock: from the return of nxsem_wait, or from the moment
\* another task handed the lock to it, to the atomic operation of nxsem_post.
Holding(t) == pc[t] \in {"woken", "cs", "p_read", "p_cas", "p_slow", "p_crit"}

\* At most one task is between nxmutex_lock and nxmutex_unlock, the hand-off
\* to a waiter and the barging on the fast path included.
MutualExclusion == \A t, u \in Tasks : Holding(t) /\ Holding(u) => t = u

\* No wake-up can be lost: the tasks blocked are the ones on the wait list,
\* each once, and while there is one the word carries the blocking bit, so
\* the holder's fast-path unlock cannot overlook it.
NoLostWakeup ==
  /\ \A t \in Tasks : pc[t] = "blocked" <=> \E i \in DOMAIN waitlist : waitlist[i] = t
  /\ \A i, j \in DOMAIN waitlist : waitlist[i] = waitlist[j] => i = j
  /\ waitlist # <<>> => NXSEM_MBLOCKING(val) /\ \E t \in Tasks : Holding(t)

\* The mutex implements the lock that ring_buffer.c is modelled with: fast path,
\* slow path and hand-off together serve the tasks in the order in which they
\* came, and no compare-and-swap gets past a task that waits.
Lock == INSTANCE FifoLock WITH holders <- {t \in Tasks : Holding(t)}, queue <- waitlist
ImplementsLock == Lock!LockSpec

\* Every nxmutex_lock returns.
EveryLockReturns ==
  \A t \in Tasks : pc[t] \in {"w_read", "w_cas", "w_slow", "w_crit", "blocked", "woken"}
                     ~> pc[t] = "cs"
=============================================================================
