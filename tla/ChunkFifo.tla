----------------------------- MODULE ChunkFifo -----------------------------
(***************************************************************************)
(* What the ring buffer of camera_MSN2 promises its callers: a bounded     *)
(* FIFO of chunks whose operations take effect at one instant between the  *)
(* call and the return.  Writing to a full queue and reading from an empty *)
(* one fail with -1 and leave the queue alone; rb_count, rb_full and       *)
(* rb_empty report the queue of that instant.                              *)
(***************************************************************************)
EXTENDS Integers, Sequences

CONSTANTS
  Tasks,     \* the tasks that call the ring buffer
  Chunks,    \* the chunks they write
  Zero,      \* the contents of a struct image_chunk_s cleared by memset
  RB_DEPTH   \* the number of slots

VARIABLES
  queue,     \* the chunks held, oldest first
  ctl,       \* ctl[t]: where t is in its call ("idle", "pending", "done")
  op,        \* op[t]: the last operation t called, and what it writes
  ret,       \* ret[t]: the return value of t's last completed operation
  got        \* got[t]: the chunk t's last read returned, Zero if none

fifoVars == <<queue, ctl, op, ret, got>>

Ops == [fn : {"rb_write"}, chunk : Chunks]
         \cup [fn : {"rb_read", "rb_count", "rb_full", "rb_empty"}, chunk : {Zero}]

FifoInit ==
  /\ queue = <<>>
  /\ ctl = [t \in Tasks |-> "idle"]
  /\ op  = [t \in Tasks |-> [fn |-> "rb_count", chunk |-> Zero]]
  /\ ret = [t \in Tasks |-> 0]
  /\ got = [t \in Tasks |-> Zero]

FifoCall(t, o) ==
  /\ ctl[t] = "idle"
  /\ ctl' = [ctl EXCEPT ![t] = "pending"]
  /\ op'  = [op EXCEPT ![t] = o]
  /\ got' = [got EXCEPT ![t] = Zero]
  /\ UNCHANGED <<queue, ret>>

\* A call with a NULL chunk pointer fails at once and touches nothing.
FifoNull(t) ==
  /\ ctl[t] = "idle"
  /\ ret' = [ret EXCEPT ![t] = -1]
  /\ got' = [got EXCEPT ![t] = Zero]
  /\ UNCHANGED <<queue, ctl, op>>

Finish(t, r) ==
  /\ ctl[t] = "pending"
  /\ ctl' = [ctl EXCEPT ![t] = "done"]
  /\ ret' = [ret EXCEPT ![t] = r]
  /\ UNCHANGED op

FifoWrite(t) ==
  /\ op[t].fn = "rb_write"
  /\ Len(queue) < RB_DEPTH
  /\ queue' = Append(queue, op[t].chunk)
  /\ Finish(t, 0)
  /\ UNCHANGED got

FifoWriteFull(t) ==
  /\ op[t].fn = "rb_write"
  /\ Len(queue) = RB_DEPTH
  /\ Finish(t, -1)
  /\ UNCHANGED <<queue, got>>

FifoRead(t) ==
  /\ op[t].fn = "rb_read"
  /\ queue # <<>>
  /\ got' = [got EXCEPT ![t] = Head(queue)]
  /\ queue' = Tail(queue)
  /\ Finish(t, 0)

FifoReadEmpty(t) ==
  /\ op[t].fn = "rb_read"
  /\ queue = <<>>
  /\ Finish(t, -1)
  /\ UNCHANGED <<queue, got>>

\* What rb_count, rb_full and rb_empty answer when n chunks are held.
Answer(fn, n) ==
  CASE fn = "rb_count" -> n
    [] fn = "rb_full"  -> IF n = RB_DEPTH THEN 1 ELSE 0
    [] fn = "rb_empty" -> IF n = 0 THEN 1 ELSE 0

FifoQuery(t) ==
  /\ op[t].fn \in {"rb_count", "rb_full", "rb_empty"}
  /\ Finish(t, Answer(op[t].fn, Len(queue)))
  /\ UNCHANGED <<queue, got>>

FifoReturn(t) ==
  /\ ctl[t] = "done"
  /\ ctl' = [ctl EXCEPT ![t] = "idle"]
  /\ UNCHANGED <<queue, op, ret, got>>

FifoNext ==
  \E t \in Tasks :
    \/ \E o \in Ops : FifoCall(t, o)
    \/ FifoNull(t)
    \/ FifoWrite(t)
    \/ FifoWriteFull(t)
    \/ FifoRead(t)
    \/ FifoReadEmpty(t)
    \/ FifoQuery(t)
    \/ FifoReturn(t)

FifoSpec == FifoInit /\ [][FifoNext]_fifoVars
=============================================================================
