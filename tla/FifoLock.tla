------------------------------ MODULE FifoLock ------------------------------
(***************************************************************************)
(* What a NuttX mutex promises its users, here ring_buffer.c: a task that  *)
(* finds the lock free takes it; the others wait in the order in which     *)
(* they came, and the lock goes straight from its holder to the first of   *)
(* them.  No task takes the lock past one that waits.                      *)
(***************************************************************************)
EXTENDS Sequences

CONSTANT Tasks

VARIABLES
  holders,  \* the tasks that hold the lock: none or one
  queue     \* the tasks that wait, first come first

lockVars == <<holders, queue>>

LockInit == holders = {} /\ queue = <<>>

Take(t) ==
  /\ holders = {} /\ queue = <<>>
  /\ holders' = {t}
  /\ UNCHANGED queue

Wait(t) ==
  /\ holders \notin {{}, {t}}
  /\ \A i \in DOMAIN queue : queue[i] # t
  /\ queue' = Append(queue, t)
  /\ UNCHANGED holders

Release(t) ==
  /\ holders = {t}
  /\ IF queue = <<>>
     THEN holders' = {} /\ UNCHANGED queue
     ELSE holders' = {Head(queue)} /\ queue' = Tail(queue)

LockNext == \E t \in Tasks : Take(t) \/ Wait(t) \/ Release(t)

LockSpec == LockInit /\ [][LockNext]_lockVars
=============================================================================
