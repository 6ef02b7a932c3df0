-------------------------------- MODULE Uart --------------------------------
(***************************************************************************)
(* One serial port of the board: the NuttX upper half (serial.c,           *)
(* serial_io.c) over the STM32 lower half without DMA (stm32_serial.c).    *)
(* Tasks call write and read; the interrupt handler moves bytes between    *)
(* the two circular buffers and the one-byte data registers.  A buffer has *)
(* no lock between task and handler: a task owns one index, the handler    *)
(* the other.  A task may lose the CPU between any two steps; a critical   *)
(* section and the handler are one step each on this single core.          *)
(*                                                                         *)
(* The same code serves the console, on which the camera task, hello and   *)
(* nsh write, and ttyS1, which the camera opens with O_NONBLOCK.  Echo of  *)
(* typed characters is left out: nobody types.                             *)
(***************************************************************************)
EXTENDS Integers, Sequences

CONSTANTS
  Writers, Readers,  \* the tasks
  XmitSize,          \* dev->xmit.size
  RecvSize,          \* dev->recv.size
  NL, CR,            \* the characters '\n' and '\r'
  Chars,             \* the characters the tasks write
  Loads,             \* the workloads, see Load
  MaxSignals         \* bound: signals delivered to blocked tasks

Tasks == Writers \cup Readers
Nobody == "nobody"

\* A workload: the string each writer writes, the number of bytes that arrive,
\* the reads and flushes of each reader, and the flags of the open file and of
\* the device (O_NONBLOCK, ONLCR).
Load == [strings  : [Writers -> Seq(Chars)], arrivals : Nat,
         reads    : [Readers -> Nat], flushes : [Readers -> Nat],
         nonblock : BOOLEAN, onlcr : BOOLEAN]

ASSUME UartAssumption ==
  /\ XmitSize \in Nat /\ XmitSize > 1
  /\ RecvSize \in Nat /\ RecvSize > 1
  /\ Writers \cap Readers = {} /\ Nobody \notin Tasks
  /\ Loads \subseteq Load
  /\ NL # CR
  /\ MaxSignals \in Nat

VARIABLES
  load,      \* the workload of this behaviour
  pc,        \* pc[t]: where the call of task t is
  xmit,      \* dev->xmit: head, tail, buffer
  xlock,     \* dev->xmit.lock: its holder
  xmitsem,   \* dev->xmitsem: its count
  txint,     \* USART_CR1_TXEIE
  txe,       \* USART_SR_TXE: the transmit data register is empty
  nexthead,  \* nexthead[t]: local of uart_putxmitchar
  left,      \* left[t]: what uart_writev has still to put
  cr,        \* cr[t]: the '\r' of the newline at the head of left[t] is put
  ret,       \* ret[t]: what write or the last read returned
  recv,      \* dev->recv: head, tail, buffer
  rlock,     \* dev->recv.lock: its holder
  recvsem,   \* dev->recvsem: its count
  rxint,     \* USART_CR1_RXNEIE
  rdr,       \* the receive data register; 0 while RXNE is clear
  ore,       \* USART_SR_ORE
  tail,      \* tail[t]: local of uart_readv
  arrived,   \* bytes that have come over the line
  signals,   \* signals delivered
  accepted, wire, stored, taken   \* history: see NoByteLost and RxInOrder

writeVars == <<nexthead, left, cr>>
txVars    == <<xmit, xlock, xmitsem, txint, txe, writeVars, accepted, wire>>
rxVars    == <<recv, rlock, recvsem, rxint, rdr, ore, tail, arrived, stored, taken>>
vars      == <<load, pc, ret, signals, txVars, rxVars>>

\* Mutant of Succ: the index wraps one too late.
SuccLate(i, size) == IF i + 1 > size THEN 0 ELSE i + 1

\* The next index of a circular buffer.
Succ(i, size) == IF i + 1 >= size THEN 0 ELSE i + 1

\* Bytes in a circular buffer, and the bytes themselves from tail to head.
Held(b, size)     == (b.head - b.tail) % size
Contents(b, size) == [i \in 1 .. Held(b, size) |-> b.buffer[(b.tail + i - 1) % size]]

EmptyBuffer(size, byte) == [head |-> 0, tail |-> 0, buffer |-> [i \in 0 .. size - 1 |-> byte]]

Init ==
  /\ load \in Loads
  /\ pc = [t \in Tasks |-> IF t \in Writers THEN "w_lock" ELSE "r_idle"]
  /\ ret = [t \in Tasks |-> 0]
  /\ signals = 0
  /\ xmit = EmptyBuffer(XmitSize, <<>>)
  /\ xlock = Nobody /\ xmitsem = 0 /\ txint = FALSE /\ txe = TRUE
  /\ nexthead = [t \in Writers |-> 0]
  /\ left = load.strings
  /\ cr = [t \in Writers |-> FALSE]
  /\ accepted = <<>> /\ wire = <<>>
  /\ recv = EmptyBuffer(RecvSize, 0)
  /\ rlock = Nobody /\ recvsem = 0 /\ rxint = TRUE /\ rdr = 0 /\ ore = FALSE
  /\ tail = [t \in Readers |-> 0]
  /\ arrived = 0 /\ stored = <<>> /\ taken = <<>>

Goto(t, from, to) ==
  /\ pc[t] = from
  /\ pc' = [pc EXCEPT ![t] = to]

-----------------------------------------------------------------------------
(* uart_writev and uart_putxmitchar                                        *)

\* Mutant of WriteLock: xmit.lock is not taken.
WriteLockIgnored(t) ==
  /\ left[t] # <<>>
  /\ Goto(t, "w_lock", "w_start")
  /\ UNCHANGED <<load, ret, signals, txVars, rxVars>>

WriteLock(t) ==
  /\ left[t] # <<>>
  /\ Goto(t, "w_lock", "w_start")
  /\ xlock = Nobody
  /\ xlock' = t
  /\ UNCHANGED <<load, ret, signals, xmit, xmitsem, txint, txe, writeVars,
                 accepted, wire, rxVars>>

WriteStart(t) ==
  /\ Goto(t, "w_start", "w_put")
  /\ txint' = FALSE
  /\ UNCHANGED <<load, ret, signals, xmit, xlock, xmitsem, txe, writeVars,
                 accepted, wire, rxVars>>

\* The character to put: with ONLCR a newline is preceded by '\r'.
NextChar(t) == IF Head(left[t]) = NL /\ load.onlcr /\ ~cr[t] THEN CR ELSE Head(left[t])

PutCheck(t) ==
  /\ pc[t] = "w_put"
  /\ nexthead' = [nexthead EXCEPT ![t] = Succ(xmit.head, XmitSize)]
  /\ pc' = [pc EXCEPT ![t] = IF nexthead'[t] # xmit.tail THEN "w_store"
                             ELSE IF load.nonblock THEN "w_end" ELSE "w_crit"]
  /\ UNCHANGED <<load, ret, signals, xmit, xlock, xmitsem, txint, txe, left, cr,
                 accepted, wire, rxVars>>

PutStore(t) ==
  /\ Goto(t, "w_store", "w_head")
  /\ xmit' = [xmit EXCEPT !.buffer[xmit.head] = <<t, NextChar(t)>>]
  /\ UNCHANGED <<load, ret, signals, xlock, xmitsem, txint, txe, writeVars,
                 accepted, wire, rxVars>>

\* The new head publishes the character; then the next one, if any.
PutHead(t) ==
  /\ pc[t] = "w_head"
  /\ xmit' = [xmit EXCEPT !.head = nexthead[t]]
  /\ accepted' = Append(accepted, <<t, NextChar(t)>>)
  /\ IF NextChar(t) # Head(left[t])
     THEN cr' = [cr EXCEPT ![t] = TRUE]  /\ left' = left
     ELSE cr' = [cr EXCEPT ![t] = FALSE] /\ left' = [left EXCEPT ![t] = Tail(@)]
  /\ pc' = [pc EXCEPT ![t] = IF left'[t] = <<>> THEN "w_end" ELSE "w_put"]
  /\ UNCHANGED <<load, ret, signals, xlock, xmitsem, txint, txe, nexthead, wire, rxVars>>

\* Mutant of PutWait: the task waits without enabling the interrupt.
PutWaitSilent(t) ==
  /\ pc[t] = "w_crit"
  /\ IF nexthead[t] # xmit.tail
     THEN pc' = [pc EXCEPT ![t] = "w_put"] /\ xmitsem' = xmitsem
     ELSE /\ xmitsem' = 0
          /\ pc' = [pc EXCEPT ![t] = IF xmitsem > 0 THEN "w_woken" ELSE "w_wait"]
  /\ UNCHANGED <<load, ret, signals, xmit, xlock, txint, txe, writeVars, accepted, wire, rxVars>>

\* In a critical section: test again, else enable the interrupt and wait.
PutWait(t) ==
  /\ pc[t] = "w_crit"
  /\ IF nexthead[t] # xmit.tail
     THEN /\ pc' = [pc EXCEPT ![t] = "w_put"]
          /\ UNCHANGED <<txint, xmitsem>>
     ELSE /\ txint' = TRUE
          /\ xmitsem' = 0
          /\ pc' = [pc EXCEPT ![t] = IF xmitsem > 0 THEN "w_woken" ELSE "w_wait"]
  /\ UNCHANGED <<load, ret, signals, xmit, xlock, txe, writeVars, accepted, wire, rxVars>>

\* nxsem_wait has returned: uart_disabletxint, and round the loop.
PutWoken(t) ==
  /\ Goto(t, "w_woken", "w_put")
  /\ txint' = FALSE
  /\ UNCHANGED <<load, ret, signals, xmit, xlock, xmitsem, txe, writeVars,
                 accepted, wire, rxVars>>

\* nxsem_wait_irq: a signal ends the wait.
PutInterrupted(t) ==
  /\ Goto(t, "w_wait", "w_eintr")
  /\ signals < MaxSignals
  /\ signals' = signals + 1
  /\ UNCHANGED <<load, ret, txVars, rxVars>>

\* Mutant of PutAbort: the character that was not put is counted.
PutAbortCounts(t) ==
  /\ Goto(t, "w_eintr", "w_end")
  /\ txint' = FALSE
  /\ left' = [left EXCEPT ![t] = Tail(@)]
  /\ UNCHANGED <<load, ret, signals, xmit, xlock, xmitsem, txe, nexthead, cr,
                 accepted, wire, rxVars>>

\* nxsem_wait has returned -EINTR: uart_disabletxint, no more characters.
PutAbort(t) ==
  /\ Goto(t, "w_eintr", "w_end")
  /\ txint' = FALSE
  /\ UNCHANGED <<load, ret, signals, xmit, xlock, xmitsem, txe, writeVars,
                 accepted, wire, rxVars>>

\* Mutant of WriteEnd: the interrupt stays disabled.
WriteEndSilent(t) ==
  /\ Goto(t, "w_end", "w_unlock")
  /\ UNCHANGED <<load, ret, signals, txVars, rxVars>>

WriteEnd(t) ==
  /\ Goto(t, "w_end", "w_unlock")
  /\ txint' = (txint \/ xmit.head # xmit.tail)
  /\ UNCHANGED <<load, ret, signals, xmit, xlock, xmitsem, txe, writeVars,
                 accepted, wire, rxVars>>

Written(t) == Len(load.strings[t]) - Len(left[t])

\* The count, or -1 for an error before the first character.
WriteReturn(t) ==
  /\ Goto(t, "w_unlock", "w_done")
  /\ xlock' = Nobody
  /\ ret' = [ret EXCEPT ![t] = IF Written(t) > 0 THEN Written(t) ELSE -1]
  /\ UNCHANGED <<load, signals, xmit, xmitsem, txint, txe, writeVars,
                 accepted, wire, rxVars>>

-----------------------------------------------------------------------------
(* uart_readv, for one byte without echo or line editing, and TCIFLUSH     *)

ReadLock(t) ==
  /\ load.reads[t] > 0
  /\ Goto(t, "r_idle", "r_check")
  /\ rlock = Nobody
  /\ rlock' = t
  /\ load' = [load EXCEPT !.reads[t] = @ - 1]
  /\ UNCHANGED <<ret, signals, txVars, recv, recvsem, rxint, rdr, ore, tail,
                 arrived, stored, taken>>

ReadCheck(t) ==
  /\ pc[t] = "r_check"
  /\ tail' = [tail EXCEPT ![t] = recv.tail]
  /\ pc' = [pc EXCEPT ![t] = IF recv.head # recv.tail THEN "r_take" ELSE "r_crit"]
  /\ UNCHANGED <<load, ret, signals, txVars, recv, rlock, recvsem, rxint, rdr, ore,
                 arrived, stored, taken>>

ReadTake(t) ==
  /\ Goto(t, "r_take", "r_tail")
  /\ ret' = [ret EXCEPT ![t] = recv.buffer[tail[t]]]
  /\ UNCHANGED <<load, signals, txVars, rxVars>>

ReadTail(t) ==
  /\ Goto(t, "r_tail", "r_exit")
  /\ recv' = [recv EXCEPT !.tail = Succ(tail[t], RecvSize)]
  /\ taken' = Append(taken, ret[t])
  /\ UNCHANGED <<load, ret, signals, txVars, rlock, recvsem, rxint, rdr, ore, tail,
                 arrived, stored>>

\* In a critical section with the RX interrupt disabled: test again.  If the
\* buffer is still empty, enable it and give up (O_NONBLOCK) or release
\* recv.lock and wait.
ReadWait(t) ==
  /\ pc[t] = "r_crit"
  /\ IF recv.head # recv.tail
     THEN /\ pc' = [pc EXCEPT ![t] = "r_enable"]
          /\ rxint' = FALSE
          /\ UNCHANGED <<ret, rlock, recvsem>>
     ELSE /\ rxint' = TRUE
          /\ IF load.nonblock
             THEN /\ pc' = [pc EXCEPT ![t] = "r_exit"]
                  /\ ret' = [ret EXCEPT ![t] = -1]
                  /\ UNCHANGED <<rlock, recvsem>>
             ELSE /\ rlock' = Nobody
                  /\ recvsem' = 0
                  /\ pc' = [pc EXCEPT ![t] = IF recvsem > 0 THEN "r_relock" ELSE "r_wait"]
                  /\ UNCHANGED ret
  /\ UNCHANGED <<load, signals, txVars, recv, rdr, ore, tail, arrived, stored, taken>>

\* Data came in the meantime: the RX interrupt, after the critical section.
ReadEnable(t) ==
  /\ Goto(t, "r_enable", "r_check")
  /\ rxint' = TRUE
  /\ UNCHANGED <<load, ret, signals, txVars, recv, rlock, recvsem, rdr, ore, tail,
                 arrived, stored, taken>>

ReadRelock(t) ==
  /\ Goto(t, "r_relock", "r_check")
  /\ rlock = Nobody
  /\ rlock' = t
  /\ UNCHANGED <<load, ret, signals, txVars, recv, recvsem, rxint, rdr, ore, tail,
                 arrived, stored, taken>>

ReadInterrupted(t) ==
  /\ Goto(t, "r_wait", "r_eintr")
  /\ signals < MaxSignals
  /\ signals' = signals + 1
  /\ UNCHANGED <<load, ret, txVars, rxVars>>

ReadAbort(t) ==
  /\ Goto(t, "r_eintr", "r_exit")
  /\ rlock = Nobody
  /\ rlock' = t
  /\ ret' = [ret EXCEPT ![t] = -1]
  /\ UNCHANGED <<load, signals, txVars, recv, recvsem, rxint, rdr, ore, tail,
                 arrived, stored, taken>>

\* Mutant of ReadReturn: recv.lock is not released.
ReadReturnLocked(t) ==
  /\ Goto(t, "r_exit", "r_idle")
  /\ rxint' = TRUE
  /\ UNCHANGED <<load, ret, signals, txVars, recv, rlock, recvsem, rdr, ore, tail,
                 arrived, stored, taken>>

ReadReturn(t) ==
  /\ Goto(t, "r_exit", "r_idle")
  /\ rxint' = TRUE
  /\ rlock' = Nobody
  /\ UNCHANGED <<load, ret, signals, txVars, recv, recvsem, rdr, ore, tail,
                 arrived, stored, taken>>

\* tcflush(fd, TCIFLUSH), in a critical section and without recv.lock.
Flush(t) ==
  /\ pc[t] = "r_idle"
  /\ load.flushes[t] > 0
  /\ load' = [load EXCEPT !.flushes[t] = @ - 1]
  /\ recv' = [recv EXCEPT !.tail = recv.head]
  /\ taken' = taken \o Contents(recv, RecvSize)
  /\ UNCHANGED <<pc, ret, signals, txVars, rlock, recvsem, rxint, rdr, ore, tail,
                 arrived, stored>>

-----------------------------------------------------------------------------
(* up_interrupt: uart_recvchars and uart_xmitchars                         *)

\* uart_wakeup posts until the count is 1, so it wakes every waiter and leaves
\* one count more.
Wakeup(from, to) == pc' = [t \in Tasks |-> IF pc[t] = from THEN to ELSE pc[t]]

\* Mutant of Received: a byte too many overwrites the oldest one.
ReceivedOver(b) ==
  /\ recv' = [recv EXCEPT !.head = Succ(recv.head, RecvSize), !.buffer[recv.head] = b]
  /\ stored' = Append(stored, b)

\* A byte is discarded when the buffer is full.
Received(b) ==
  IF Succ(recv.head, RecvSize) = recv.tail
  THEN UNCHANGED <<recv, stored>>
  ELSE /\ recv' = [recv EXCEPT !.head = Succ(recv.head, RecvSize), !.buffer[recv.head] = b]
       /\ stored' = Append(stored, b)

\* Mutant of RecvInterrupt: the semaphore is set without waking the waiters.
RecvInterruptNoWake ==
  /\ rxint /\ rdr # 0
  /\ Received(rdr)
  /\ rdr' = 0 /\ ore' = FALSE
  /\ recvsem' = 1
  /\ UNCHANGED <<load, pc, ret, signals, txVars, rlock, rxint, tail, arrived, taken>>

RecvInterrupt ==
  /\ rxint /\ rdr # 0
  /\ Received(rdr)
  /\ rdr' = 0 /\ ore' = FALSE
  /\ Wakeup("r_wait", "r_relock")
  /\ recvsem' = 1
  /\ UNCHANGED <<load, ret, signals, txVars, rlock, rxint, tail, arrived, taken>>

\* Mutant of Sent: the tail does not wrap with the end of the buffer.
SentPast(n) ==
  /\ wire' = wire \o SubSeq(Contents(xmit, XmitSize), 1, n)
  /\ xmit' = [xmit EXCEPT !.tail = IF xmit.tail + n > XmitSize THEN 0 ELSE (xmit.tail + n) % XmitSize]

\* n bytes go from the tail of the buffer to the data register.
Sent(n) ==
  /\ wire' = wire \o SubSeq(Contents(xmit, XmitSize), 1, n)
  /\ xmit' = [xmit EXCEPT !.tail = (xmit.tail + n) % XmitSize]

\* The TX interrupt is disabled when the buffer is empty, and writers are woken
\* if a byte has left it.
DataSent(n) ==
  /\ txint' = (xmit'.head # xmit'.tail)
  /\ IF n > 0
     THEN Wakeup("w_wait", "w_woken") /\ xmitsem' = 1
     ELSE UNCHANGED <<pc, xmitsem>>

\* As many bytes as the data register takes, at least one; it is still empty
\* only if all are sent.  With RXNEIE clear an overrun is cleared by reading the
\* receive register, and its byte is lost.
XmitInterrupt ==
  /\ txint /\ txe
  /\ \E n \in 0 .. Held(xmit, XmitSize) :
       /\ n = 0 => xmit.head = xmit.tail
       /\ Sent(n)
       /\ txe' \in IF n = Held(xmit, XmitSize) THEN BOOLEAN ELSE {FALSE}
       /\ DataSent(n)
  /\ IF ore /\ ~rxint
     THEN rdr' = 0 /\ ore' = FALSE
     ELSE UNCHANGED <<rdr, ore>>
  /\ UNCHANGED <<load, ret, signals, xlock, writeVars, accepted,
                 recv, rlock, recvsem, rxint, tail, arrived, stored, taken>>

\* The hardware: the shift register takes the byte of the data register.
Shift ==
  /\ ~txe
  /\ txe' = TRUE
  /\ UNCHANGED <<load, pc, ret, signals, xmit, xlock, xmitsem, txint, writeVars,
                 accepted, wire, rxVars>>

\* A byte arrives; if the last one has not been read, it is lost.
Arrive ==
  /\ arrived < load.arrivals
  /\ arrived' = arrived + 1
  /\ IF rdr = 0 THEN rdr' = arrived' /\ ore' = ore
                   ELSE rdr' = rdr /\ ore' = TRUE
  /\ UNCHANGED <<load, pc, ret, signals, txVars, recv, rlock, recvsem, rxint, tail,
                 stored, taken>>

-----------------------------------------------------------------------------
WriteStep(t) ==
  \/ WriteLock(t) \/ WriteStart(t) \/ PutCheck(t) \/ PutStore(t) \/ PutHead(t)
  \/ PutWait(t) \/ PutWoken(t) \/ PutAbort(t) \/ WriteEnd(t) \/ WriteReturn(t)
ReadStep(t) ==
  \/ ReadCheck(t) \/ ReadTake(t) \/ ReadTail(t) \/ ReadWait(t) \/ ReadEnable(t)
  \/ ReadRelock(t) \/ ReadAbort(t) \/ ReadReturn(t)
Hardware == RecvInterrupt \/ XmitInterrupt \/ Shift

Next ==
  \/ \E t \in Writers : WriteStep(t) \/ PutInterrupted(t)
  \/ \E t \in Readers : ReadStep(t) \/ ReadLock(t) \/ Flush(t) \/ ReadInterrupted(t)
  \/ Hardware \/ Arrive

Spec == Init /\ [][Next]_vars

(* Ready tasks are scheduled round robin, an enabled interrupt whose flag  *)
(* is set is taken, and the transmitter sends.  Nothing need arrive, and   *)
(* no task need read.                                                      *)
FairSpec ==
  /\ Spec
  /\ \A t \in Writers : WF_vars(WriteStep(t))
  /\ \A t \in Readers : WF_vars(ReadStep(t))
  /\ WF_vars(RecvInterrupt) /\ WF_vars(XmitInterrupt) /\ WF_vars(Shift)

-----------------------------------------------------------------------------
(* Properties                                                              *)

\* Type invariant: the indices stay in their buffers.
TypeOK ==
  /\ {xmit.head, xmit.tail} \subseteq 0 .. XmitSize - 1
  /\ {recv.head, recv.tail} \subseteq 0 .. RecvSize - 1
  /\ xlock \in Writers \cup {Nobody} /\ rlock \in Readers \cup {Nobody}
  /\ xmitsem \in 0 .. 1 /\ recvsem \in 0 .. 1
  /\ {txint, txe, rxint, ore} \subseteq BOOLEAN
  /\ nexthead \in [Writers -> 0 .. XmitSize - 1]
  /\ tail \in [Readers -> 0 .. RecvSize - 1]
  /\ signals \in 0 .. MaxSignals

\* The line carries exactly the characters put, in order: what is sent and what
\* the buffer holds are the accepted characters, although uart_putxmitchar and
\* uart_xmitchars share the buffer without a lock.
NoByteLost == wire \o Contents(xmit, XmitSize) = accepted

\* One write at a time is on the line: the characters of a write that blocks in
\* its middle are not mixed with another task's.
WritesWhole ==
  \A i, j, k \in 1 .. Len(accepted) :
    i < j /\ j < k /\ accepted[i][1] = accepted[k][1] => accepted[j][1] = accepted[i][1]

\* The question of the comment in uart_xmitchars ("Potential bug? ... Can that
\* happen?"): a task never waits for room with nothing left to send or with the
\* TX interrupt disabled, and the interrupt is never enabled over an empty
\* buffer.
NoStalledWriter ==
  /\ txint => xmit.head # xmit.tail
  /\ \A t \in Writers : pc[t] = "w_wait" => txint /\ xmitsem = 0

\* What is put for a character, and for the first n characters of s: with ONLCR a
\* newline is preceded by '\r'.
Cook(c, onlcr)   == IF c = NL /\ onlcr THEN <<CR, NL>> ELSE <<c>>
Cooked(s, onlcr) ==
  LET put[n \in 0 .. Len(s)] == IF n = 0 THEN <<>> ELSE put[n - 1] \o Cook(s[n], onlcr)
  IN  put

\* The characters of task t that are on their way are q, in one piece.
OnTheWay(t, q) ==
  \E k \in 0 .. Len(accepted) :
    /\ k + Len(q) <= Len(accepted)
    /\ \A i \in 1 .. Len(accepted) : IF i - k \in 1 .. Len(q) THEN accepted[i] = <<t, q[i - k]>>
                                                         ELSE accepted[i][1] # t

\* A write cut short by a signal or by O_NONBLOCK returns the number of
\* characters that are on their way; the caller may write the rest and lose or
\* repeat nothing but the '\r' of a newline that was cut off.
ShortWriteExact ==
  \A t \in Writers : pc[t] = "w_done" =>
    LET s    == load.strings[t]
        n    == IF ret[t] = -1 THEN 0 ELSE ret[t]
        head == Cooked(s, load.onlcr)[n]
    IN  \/ OnTheWay(t, head)
        \/ n < Len(s) /\ s[n + 1] = NL /\ load.onlcr /\ OnTheWay(t, Append(head, CR))

\* The task that flushes is the only one that reads, as on ttyS1: TCIFLUSH takes
\* no lock, and a flush within another task's read moves the tail under it.
LoneFlusher(l) ==
  \A f \in Readers : l.flushes[f] > 0 => \A t \in Readers \ {f} : l.reads[t] = 0

FlushesAlone == \A l \in Loads : LoneFlusher(l)

\* Readers get the bytes in the order in which the interrupt stored them, each
\* once; TCIFLUSH takes them all.
RxInOrder ==
  taken \o Contents(recv, RecvSize) = stored

\* A reader never sleeps on a byte: while one waits the buffer is empty, the RX
\* interrupt is enabled and no wake-up is outstanding.
NoStalledReader ==
  \A t \in Readers : pc[t] = "r_wait" => recv.head = recv.tail /\ rxint /\ recvsem = 0

\* Every write returns and everything accepted goes out.
OutputDrains ==
  <>[](wire = accepted /\ \A t \in Writers : load.strings[t] = <<>> \/ pc[t] = "w_done")

\* A byte in the receive register wakes a waiting reader, and a read that is not
\* waiting for a byte returns or comes to wait for one.
ReaderServed ==
  \A t \in Readers :
    /\ pc[t] = "r_wait" /\ rdr # 0 ~> pc[t] # "r_wait"
    /\ pc[t] \notin {"r_idle", "r_wait"} ~> pc[t] \in {"r_idle", "r_wait"}
=============================================================================
