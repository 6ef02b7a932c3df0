----------------------------- MODULE UartProofs -----------------------------
(***************************************************************************)
(* Proofs about Uart for every number of tasks, size of the two circular   *)
(* buffers and workload: the task side and the interrupt side of a buffer, *)
(* which share no lock, neither lose nor reorder a byte, and no task waits *)
(* for an interrupt that does not come.                                    *)
(***************************************************************************)
EXTENDS Uart, SequenceTheorems, WellFoundedInduction, TLAPS

\* The places of a write that still has a character to put, of one that holds
\* xmit.lock, and of a read that holds recv.lock.
Putting == {"w_start", "w_put", "w_store", "w_head", "w_crit", "w_wait", "w_woken", "w_eintr"}
Writing == Putting \cup {"w_end", "w_unlock"}
Reading == {"r_check", "r_take", "r_tail", "r_crit", "r_enable", "r_exit"}

WritePC == Writing \cup {"w_lock", "w_done"}
ReadPC  == Reading \cup {"r_idle", "r_wait", "r_relock", "r_eintr"}

\* A circular buffer of bytes in S, and what the transmit buffer holds.
Buffer(size, S) == [head : 0 .. size - 1, tail : 0 .. size - 1, buffer : [0 .. size - 1 -> S]]
TxByte == (Writers \X (Chars \cup {CR})) \cup {<<>>}

\* The calls.
CallsInStep ==
  /\ load \in Load
  /\ pc \in [Tasks -> WritePC \cup ReadPC]
  /\ \A t \in Writers : pc[t] \in WritePC
  /\ \A t \in Readers : pc[t] \in ReadPC
  /\ ret \in [Tasks -> Int]
  /\ signals \in 0 .. MaxSignals

-----------------------------------------------------------------------------
(* The transmit side                                                       *)

TxTypes ==
  /\ xmit \in Buffer(XmitSize, TxByte)
  /\ xlock \in Writers \cup {Nobody}
  /\ xmitsem \in 0 .. 1
  /\ txint \in BOOLEAN /\ txe \in BOOLEAN
  /\ nexthead \in [Writers -> 0 .. XmitSize - 1]
  /\ left \in [Writers -> Seq(Chars)] /\ cr \in [Writers -> BOOLEAN]
  /\ accepted \in Seq(TxByte) /\ wire \in Seq(TxByte)

\* One writer at a time is between the lock and the unlock; while it puts a
\* character the TX interrupt is disabled, and the place it has found free stays
\* free although the interrupt handler may still be moving the tail.
WriterInStep(t) ==
  /\ pc[t] \in Writing <=> xlock = t
  /\ pc[t] \in Putting => left[t] # <<>>
  /\ pc[t] \in {"w_put", "w_store", "w_head", "w_crit"} => ~txint
  /\ pc[t] \in {"w_store", "w_head", "w_crit"} => nexthead[t] = Succ(xmit.head, XmitSize)
  /\ pc[t] \in {"w_store", "w_head"} => nexthead[t] # xmit.tail
  /\ pc[t] = "w_head" => xmit.buffer[xmit.head] = <<t, NextChar(t)>>

\* A writer that has not begun has put nothing, and what the writer that holds
\* the lock has put is the end of what was accepted.
WritesInStep ==
  /\ \A t \in Writers : pc[t] = "w_lock" =>
       \A i \in 1 .. Len(accepted) : accepted[i][1] # t
  /\ \A t \in Writers : xlock = t =>
       \A i, j \in 1 .. Len(accepted) :
         i < j /\ accepted[i][1] = t => accepted[j][1] = t

\* The inductive invariant of the transmit side.
TxInv ==
  /\ TxTypes
  /\ \A t \in Writers : WriterInStep(t)
  /\ NoStalledWriter
  /\ NoByteLost
  /\ WritesInStep
  /\ WritesWhole

-----------------------------------------------------------------------------
(* The receive side                                                        *)

RxTypes ==
  /\ recv \in Buffer(RecvSize, Int)
  /\ rlock \in Readers \cup {Nobody}
  /\ recvsem \in 0 .. 1
  /\ rxint \in BOOLEAN /\ ore \in BOOLEAN
  /\ rdr \in Nat /\ arrived \in Nat
  /\ tail \in [Readers -> 0 .. RecvSize - 1]
  /\ stored \in Seq(Int) /\ taken \in Seq(Int)

\* One reader at a time holds the lock, and nobody waits while one takes a byte.
ReaderInStep(t) ==
  /\ pc[t] \in Reading <=> rlock = t
  /\ pc[t] \in {"r_take", "r_tail"} => \A u \in Readers : pc[u] # "r_wait"

\* The inductive invariant of the receive side.
RxInv ==
  /\ RxTypes
  /\ \A t \in Readers : ReaderInStep(t)
  /\ NoStalledReader

\* Nobody reads while another task may flush.
FlushInStep ==
  /\ LoneFlusher(load)
  /\ \A f \in Readers : load.flushes[f] > 0 => \A t \in Readers \ {f} : pc[t] = "r_idle"

\* The local copy of the tail is the tail, and the byte read is the first one.
TakeInStep(t) ==
  /\ pc[t] \in {"r_take", "r_tail"} => tail[t] = recv.tail /\ recv.head # recv.tail
  /\ pc[t] = "r_tail" => ret[t] = recv.buffer[recv.tail]

\* The strengthening of RxInOrder.
RxOrder ==
  /\ FlushInStep
  /\ \A t \in Readers : TakeInStep(t)
  /\ RxInOrder

-----------------------------------------------------------------------------
(* The circular buffer                                                     *)

\* One wrap either way.
LEMMA Wrap ==
  ASSUME NEW N \in Nat \ {0}, NEW x \in Int, -N < x, x < 2 * N
  PROVE  x % N = IF x < 0 THEN x + N ELSE IF x < N THEN x ELSE x - N
<1>1. CASE x < 0
  BY <1>1, SMT
<1>2. CASE 0 <= x /\ x < N
  BY <1>2, SMT
<1>3. CASE N <= x
  BY <1>3, SMT
<1> QED
  BY <1>1, <1>2, <1>3

LEMMA WrapUp ==
  ASSUME NEW N \in Nat \ {0}, NEW x \in Nat, x < 2 * N
  PROVE  x % N = IF x < N THEN x ELSE x - N
<1>1. x \in Int /\ -N < x /\ ~(x < 0)
  OBVIOUS
<1> QED
  BY <1>1, Wrap

LEMMA SuccIs ==
  ASSUME NEW N \in Nat \ {0}, NEW i \in 0 .. N - 1
  PROVE  /\ Succ(i, N) \in 0 .. N - 1
         /\ Succ(i, N) = (i + 1) % N
         /\ Succ(i, N) = IF i = N - 1 THEN 0 ELSE i + 1
<1>1. i + 1 \in Nat /\ i + 1 < 2 * N
  OBVIOUS
<1>2. (i + 1) % N = IF i + 1 < N THEN i + 1 ELSE i + 1 - N
  <2> DEFINE x == i + 1
  <2> HIDE DEF x
  <2>1. x \in Nat /\ x < 2 * N
    BY <1>1 DEF x
  <2>2. x % N = IF x < N THEN x ELSE x - N
    BY <2>1, WrapUp
  <2> QED
    BY <2>2 DEF x
<1> QED
  BY <1>2 DEF Succ

LEMMA HeldIs ==
  ASSUME NEW N \in Nat \ {0}, NEW S, NEW b \in Buffer(N, S)
  PROVE  /\ Held(b, N) = IF b.head >= b.tail THEN b.head - b.tail ELSE b.head - b.tail + N
         /\ Held(b, N) \in 0 .. N - 1
         /\ Held(b, N) = 0 <=> b.head = b.tail
<1>1. b.head \in 0 .. N - 1 /\ b.tail \in 0 .. N - 1
  BY DEF Buffer
<1>2. (b.head - b.tail) % N = IF b.head - b.tail < 0 THEN b.head - b.tail + N ELSE b.head - b.tail
  <2>1. b.head - b.tail \in Int /\ -N < b.head - b.tail /\ b.head - b.tail < N /\ b.head - b.tail < 2 * N
    BY <1>1
  <2> QED
    BY <2>1, Wrap
<1> QED
  BY <1>1, <1>2 DEF Held

\* The place of a byte the buffer holds is never that of the head.
LEMMA PlaceIs ==
  ASSUME NEW N \in Nat \ {0}, NEW S, NEW b \in Buffer(N, S), NEW i \in 1 .. Held(b, N)
  PROVE  /\ (b.tail + i - 1) % N = IF b.tail + i - 1 < N THEN b.tail + i - 1 ELSE b.tail + i - 1 - N
         /\ (b.tail + i - 1) % N \in 0 .. N - 1
         /\ (b.tail + i - 1) % N # b.head
<1>1. b.head \in 0 .. N - 1 /\ b.tail \in 0 .. N - 1
  BY DEF Buffer
<1>2. /\ Held(b, N) = IF b.head >= b.tail THEN b.head - b.tail ELSE b.head - b.tail + N
      /\ Held(b, N) \in 0 .. N - 1
  BY HeldIs
<1>3. b.tail + i - 1 \in Nat /\ b.tail + i - 1 < 2 * N
  BY <1>1, <1>2
<1>4. (b.tail + i - 1) % N = IF b.tail + i - 1 < N THEN b.tail + i - 1 ELSE b.tail + i - 1 - N
  <2> DEFINE x == b.tail + i - 1
  <2> HIDE DEF x
  <2>1. x \in Nat /\ x < 2 * N
    BY <1>3 DEF x
  <2>2. x % N = IF x < N THEN x ELSE x - N
    BY <2>1, WrapUp
  <2> QED
    BY <1>1, <2>2 DEF x
<1> QED
  BY <1>1, <1>2, <1>3, <1>4

LEMMA ContentsIs ==
  ASSUME NEW N \in Nat \ {0}, NEW S, NEW b \in Buffer(N, S)
  PROVE  /\ Contents(b, N) \in Seq(S)
         /\ Len(Contents(b, N)) = Held(b, N)
         /\ \A i \in 1 .. Held(b, N) : Contents(b, N)[i] = b.buffer[(b.tail + i - 1) % N]
<1>1. Held(b, N) \in Nat
  BY HeldIs
<1>2. \A i \in 1 .. Held(b, N) : b.buffer[(b.tail + i - 1) % N] \in S
  BY PlaceIs DEF Buffer
<1> QED
  BY <1>1, <1>2 DEF Contents

\* A byte stored at the head, before the head moves, is not seen.
LEMMA StoreUnseen ==
  ASSUME NEW N \in Nat \ {0}, NEW S, NEW b \in Buffer(N, S), NEW c \in Buffer(N, S),
         c.head = b.head, c.tail = b.tail,
         \A p \in 0 .. N - 1 : p # b.head => c.buffer[p] = b.buffer[p]
  PROVE  Contents(c, N) = Contents(b, N)
<1>1. Held(c, N) = Held(b, N)
  BY DEF Held
<1>2. \A i \in 1 .. Held(b, N) : c.buffer[(c.tail + i - 1) % N] = b.buffer[(b.tail + i - 1) % N]
  BY PlaceIs
<1> QED
  BY <1>1, <1>2 DEF Contents

\* The moved head publishes one byte.
LEMMA HeadAppends ==
  ASSUME NEW N \in Nat \ {0}, NEW S, NEW b \in Buffer(N, S), NEW c \in Buffer(N, S),
         c.head = Succ(b.head, N), c.tail = b.tail, c.buffer = b.buffer,
         Succ(b.head, N) # b.tail
  PROVE  Contents(c, N) = Append(Contents(b, N), b.buffer[b.head])
<1> DEFINE h == Held(b, N)
           k == Held(c, N)
           s == Contents(b, N)
           d == Contents(c, N)
           a == Append(s, b.buffer[b.head])
<1>1. /\ b.head \in 0 .. N - 1 /\ b.tail \in 0 .. N - 1
      /\ b.buffer[b.head] \in S
  BY DEF Buffer
<1>2. Succ(b.head, N) = IF b.head = N - 1 THEN 0 ELSE b.head + 1
  BY <1>1, SuccIs
<1>3. /\ h = IF b.head >= b.tail THEN b.head - b.tail ELSE b.head - b.tail + N
      /\ h \in 0 .. N - 1
  BY HeldIs
<1>4. k = IF c.head >= c.tail THEN c.head - c.tail ELSE c.head - c.tail + N
  BY HeldIs
<1>5. s \in Seq(S) /\ Len(s) = h /\ \A i \in 1 .. h : s[i] = b.buffer[(b.tail + i - 1) % N]
  BY ContentsIs
<1>6. d \in Seq(S) /\ Len(d) = k /\ \A i \in 1 .. k : d[i] = c.buffer[(c.tail + i - 1) % N]
  BY ContentsIs
<1>7. k \in 1 .. k => (c.tail + k - 1) % N
                         = IF c.tail + k - 1 < N THEN c.tail + k - 1 ELSE c.tail + k - 1 - N
  BY PlaceIs
<1>8. Len(a) = Len(s) + 1 /\ a \in Seq(S)
      /\ (\A i \in 1 .. Len(s) : a[i] = s[i]) /\ a[Len(s) + 1] = b.buffer[b.head]
  BY <1>1, <1>5, AppendProperties
<1> HIDE DEF h, k, s, d, a
<1>9. k = h + 1 /\ k \in 1 .. k /\ h \in Nat
  BY <1>1, <1>2, <1>3, <1>4
<1>10. (c.tail + k - 1) % N = b.head
  <2>1. (IF c.tail + k - 1 < N THEN c.tail + k - 1 ELSE c.tail + k - 1 - N) = b.head
    BY <1>1, <1>2, <1>3, <1>9
  <2> QED
    BY <1>7, <1>9, <2>1
<1>11. \A i \in 1 .. h + 1 : d[i] = a[i]
  <2> TAKE i \in 1 .. h + 1
  <2>1. CASE i = h + 1
    <3>1. d[k] = b.buffer[b.head]
      BY <1>6, <1>9, <1>10
    <3> QED
      BY <1>5, <1>8, <1>9, <2>1, <3>1
  <2>2. CASE i \in 1 .. h
    <3>1. i \in 1 .. k
      BY <1>9, <2>2
    <3> QED
      <4>1. d[i] = c.buffer[(c.tail + i - 1) % N]
        BY <1>6, <3>1
      <4>2. s[i] = c.buffer[(c.tail + i - 1) % N]
        BY <1>5, <2>2
      <4>3. a[i] = s[i]
        BY <1>5, <1>8, <2>2
      <4> QED
        BY <4>1, <4>2, <4>3
  <2> QED
    BY <1>9, <2>1, <2>2
<1>12. Len(d) = h + 1 /\ Len(a) = h + 1
  BY <1>5, <1>6, <1>8, <1>9
<1>13. d = a
  BY <1>6, <1>8, <1>11, <1>12, SeqEqual
<1> QED
  BY <1>13 DEF d, a, s

\* Moving the tail by n takes the first n bytes; a place behind the head that was
\* free stays free.
LEMMA TailTakes ==
  ASSUME NEW N \in Nat \ {0}, NEW S, NEW b \in Buffer(N, S), NEW n \in 0 .. Held(b, N),
         NEW c \in Buffer(N, S),
         c.head = b.head, c.tail = (b.tail + n) % N, c.buffer = b.buffer
  PROVE  /\ c.head = c.tail <=> n = Held(b, N)
         /\ Succ(b.head, N) # b.tail => Succ(b.head, N) # c.tail
         /\ SubSeq(Contents(b, N), 1, n) \in Seq(S)
         /\ SubSeq(Contents(b, N), 1, n) \o Contents(c, N) = Contents(b, N)
<1> DEFINE h == Held(b, N)
           k == Held(c, N)
           s == Contents(b, N)
           d == Contents(c, N)
<1>1. b.head \in 0 .. N - 1 /\ b.tail \in 0 .. N - 1 /\ c.tail \in 0 .. N - 1
  BY DEF Buffer
<1>2. h \in 0 .. N - 1 /\ h = IF b.head >= b.tail THEN b.head - b.tail ELSE b.head - b.tail + N
  BY HeldIs
<1>3. /\ k = IF c.head >= c.tail THEN c.head - c.tail ELSE c.head - c.tail + N
      /\ k = 0 <=> c.head = c.tail
  BY HeldIs
<1>4. n \in 0 .. h
  OBVIOUS
<1>5. s \in Seq(S) /\ Len(s) = h /\ \A i \in 1 .. h : s[i] = b.buffer[(b.tail + i - 1) % N]
  BY ContentsIs
<1>6. d \in Seq(S) /\ Len(d) = k /\ \A i \in 1 .. k : d[i] = c.buffer[(c.tail + i - 1) % N]
  BY ContentsIs
<1>7. \A i \in 1 .. k :
        (c.tail + i - 1) % N = IF c.tail + i - 1 < N THEN c.tail + i - 1 ELSE c.tail + i - 1 - N
  BY PlaceIs
<1>8. \A i \in 1 .. h :
        (b.tail + i - 1) % N = IF b.tail + i - 1 < N THEN b.tail + i - 1 ELSE b.tail + i - 1 - N
  BY PlaceIs
<1>9. Succ(b.head, N) = IF b.head = N - 1 THEN 0 ELSE b.head + 1
  BY <1>1, SuccIs
<1> HIDE DEF h, k, s, d
<1>10. c.tail = IF b.tail + n < N THEN b.tail + n ELSE b.tail + n - N
  <2>1. b.tail + n \in Nat /\ b.tail + n < 2 * N
    BY <1>1, <1>2, <1>4
  <2> DEFINE x == b.tail + n
  <2> HIDE DEF x
  <2>2. x \in Nat /\ x < 2 * N
    BY <2>1 DEF x
  <2>3. x % N = IF x < N THEN x ELSE x - N
    BY <2>2, WrapUp
  <2> QED
    BY <1>1, <2>3 DEF x
<1>11. k = h - n /\ k \in Nat /\ h \in Nat /\ n \in Nat
  BY <1>1, <1>2, <1>3, <1>4, <1>10
<1>12. c.head = c.tail <=> n = h
  BY <1>3, <1>11
<1>13. Succ(b.head, N) # b.tail => Succ(b.head, N) # c.tail
  BY <1>1, <1>2, <1>4, <1>9, <1>10
<1>14. \A i \in 1 .. k : d[i] = s[n + i]
  <2> TAKE i \in 1 .. k
  <2> DEFINE j == n + i
             p == (c.tail + i - 1) % N
             q == (b.tail + j - 1) % N
  <2>1. j \in 1 .. h
    BY <1>11
  <2>2. p = IF c.tail + i - 1 < N THEN c.tail + i - 1 ELSE c.tail + i - 1 - N
    BY <1>7
  <2>3. q = IF b.tail + j - 1 < N THEN b.tail + j - 1 ELSE b.tail + j - 1 - N
    BY <1>8, <2>1
  <2>4. d[i] = b.buffer[p]
    BY <1>6
  <2>5. s[j] = b.buffer[q]
    BY <1>5, <2>1
  <2>6. j = n + i
    OBVIOUS
  <2> HIDE DEF j, p, q
  <2>7. p = q
    BY <1>1, <1>2, <1>10, <1>11, <2>1, <2>2, <2>3, <2>6
  <2> QED
    BY <2>4, <2>5, <2>6, <2>7
<1>15. \A i \in 1 .. h : s[i] \in S
  BY <1>5, ElementOfSeq
<1> DEFINE u == SubSeq(s, n + 1, h)
           v == SubSeq(s, 1, n)
<1>16. u \in Seq(S) /\ Len(u) = k /\ \A i \in 1 .. k : u[i] = s[n + i]
  <2>1. \A i \in n + 1 .. h : s[i] \in S
    BY <1>11, <1>15
  <2>2. n + 1 \in Int /\ h \in Int
    BY <1>11
  <2>3. /\ u \in Seq(S)
        /\ Len(u) = IF n + 1 <= h THEN h - (n + 1) + 1 ELSE 0
        /\ \A i \in 1 .. h - (n + 1) + 1 : u[i] = s[n + 1 + i - 1]
    BY <2>1, <2>2, SubSeqProperties
  <2> HIDE DEF u
  <2>4. h - (n + 1) + 1 = k /\ (n + 1 <= h \/ k = 0)
    BY <1>4, <1>11
  <2>5. \A i \in 1 .. k : n + 1 + i - 1 = n + i
    BY <1>11
  <2> QED
    BY <1>4, <1>11, <2>3, <2>4, <2>5
<1>17. v \in Seq(S)
  <2>1. \A i \in 1 .. n : s[i] \in S
    BY <1>4, <1>11, <1>15
  <2>2. 1 \in Int /\ n \in Int
    BY <1>11
  <2> QED
    BY <2>1, <2>2, SubSeqProperties
<1>18. v \o u = s
  <2>1. 1 \in 1 .. Len(s) + 1 /\ n \in 1 - 1 .. Len(s) /\ h \in n .. Len(s)
    BY <1>4, <1>5, <1>11
  <2>2. v \o u = SubSeq(s, 1, h)
    BY <1>5, <2>1, ConcatAdjacentSubSeq
  <2>3. SubSeq(s, 1, h) = s
    BY <1>5, SubSeqFull
  <2> QED
    BY <2>2, <2>3
<1> HIDE DEF u
<1>19. u = d
  <2>1. Len(u) = Len(d) /\ \A i \in 1 .. Len(u) : u[i] = d[i]
    BY <1>6, <1>14, <1>16
  <2> QED
    BY <1>6, <1>16, <2>1, SeqEqual
<1> QED
  BY <1>12, <1>13, <1>17, <1>18, <1>19 DEF h, s, d

\* The writer moves the head.
LEMMA MoveHead ==
  ASSUME NEW N \in Nat \ {0}, NEW S, NEW b \in Buffer(N, S), NEW c,
         c = [b EXCEPT !.head = Succ(b.head, N)]
  PROVE  /\ c \in Buffer(N, S)
         /\ c.head = Succ(b.head, N) /\ c.tail = b.tail /\ c.buffer = b.buffer
<1>1. Succ(b.head, N) \in 0 .. N - 1
  BY SuccIs DEF Buffer
<1> QED
  BY <1>1 DEF Buffer

\* The handler's: n bytes leave at the tail.
LEMMA MoveTail ==
  ASSUME NEW N \in Nat \ {0}, NEW S, NEW b \in Buffer(N, S), NEW n \in Nat, NEW c,
         c = [b EXCEPT !.tail = (b.tail + n) % N]
  PROVE  /\ c \in Buffer(N, S)
         /\ c.head = b.head /\ c.tail = (b.tail + n) % N /\ c.buffer = b.buffer
<1> DEFINE y == b.tail + n
<1>1. y \in Int
  BY DEF Buffer
<1> HIDE DEF y
<1>2. y % N \in 0 .. N - 1
  BY <1>1
<1>3. (b.tail + n) % N \in 0 .. N - 1
  BY <1>2 DEF y
<1> QED
  BY <1>3 DEF Buffer

LEMMA AppendIs ==
  ASSUME NEW S, NEW s \in Seq(S), NEW x \in S, NEW a, a = Append(s, x)
  PROVE  /\ a \in Seq(S) /\ Len(a) = Len(s) + 1 /\ Len(s) \in Nat
         /\ \A i \in 1 .. Len(s) : a[i] = s[i]
         /\ a[Len(s) + 1] = x
  BY AppendProperties, LenProperties

\* A byte that comes at the end, and bytes that move from one part to the other.
LEMMA AppendInside ==
  ASSUME NEW S, NEW w \in Seq(S), NEW s \in Seq(S), NEW x \in S
  PROVE  w \o Append(s, x) = Append(w \o s, x)
<1>1. Append(s, x) = s \o <<x>> /\ w \o s \in Seq(S) /\ <<x>> \in Seq(S)
  BY AppendIsConcat, ConcatProperties
<1>2. Append(w \o s, x) = (w \o s) \o <<x>>
  BY <1>1, AppendIsConcat
<1>3. (w \o s) \o <<x>> = w \o (s \o <<x>>)
  BY <1>1, ConcatAssociative
<1> QED
  BY <1>1, <1>2, <1>3

LEMMA FirstTaken ==
  ASSUME NEW S, NEW s \in Seq(S), Len(s) >= 1
  PROVE  SubSeq(s, 1, 1) = <<s[1]>>
<1> DEFINE v == SubSeq(s, 1, 1)
           w == <<s[1]>>
<1>1. Len(s) \in Nat /\ \A i \in 1 .. 1 : s[i] \in S
  BY LenProperties, ElementOfSeq
<1>2. v \in Seq(S) /\ Len(v) = 1 /\ v[1] = s[1]
  BY <1>1, SubSeqProperties
<1>3. w \in Seq(S) /\ Len(w) = 1 /\ w[1] = s[1]
  BY <1>1
<1> HIDE DEF v, w
<1>4. v = w
  BY <1>2, <1>3, SeqEqual
<1> QED
  BY <1>4 DEF v, w

LEMMA MoveAcross ==
  ASSUME NEW S, NEW w \in Seq(S), NEW v \in Seq(S), NEW d \in Seq(S)
  PROVE  w \o v \in Seq(S) /\ (w \o v) \o d = w \o (v \o d)
  BY ConcatAssociative, ConcatProperties

-----------------------------------------------------------------------------
(* The calls                                                               *)

LEMMA Sizes ==
  /\ XmitSize \in Nat \ {0} /\ XmitSize > 1
  /\ RecvSize \in Nat \ {0} /\ RecvSize > 1
  /\ Nobody \notin Writers /\ Nobody \notin Readers
  /\ \A t \in Writers : t \in Tasks /\ t \notin Readers
  /\ \A t \in Readers : t \in Tasks /\ t \notin Writers
  BY UartAssumption DEF Tasks

\* One task moves within its own places.
LEMMA OneMoves ==
  ASSUME CallsInStep, NEW t \in Tasks, NEW l,
         t \in Writers => l \in WritePC, t \in Readers => l \in ReadPC,
         pc' = [pc EXCEPT ![t] = l],
         load' \in Load, ret' \in [Tasks -> Int], signals' \in 0 .. MaxSignals
  PROVE  /\ CallsInStep'
         /\ pc'[t] = l
         /\ \A u \in Tasks : u # t => pc'[u] = pc[u]
<1>1. pc \in [Tasks -> WritePC \cup ReadPC]
  BY DEF CallsInStep
<1>2. l \in WritePC \cup ReadPC
  BY DEF Tasks
<1>3. /\ pc' \in [Tasks -> WritePC \cup ReadPC] /\ pc'[t] = l
      /\ \A u \in Tasks : u # t => pc'[u] = pc[u]
  BY <1>1, <1>2
<1>4. \A u \in Writers : pc'[u] \in WritePC
  BY <1>3, Sizes DEF CallsInStep
<1>5. \A u \in Readers : pc'[u] \in ReadPC
  BY <1>3, Sizes DEF CallsInStep
<1> QED
  BY <1>3, <1>4, <1>5 DEF CallsInStep

\* uart_wakeup moves only waiters, each within its own places.
LEMMA WakeupMoves ==
  ASSUME CallsInStep, NEW from, NEW to, Wakeup(from, to),
         from \in WritePC => to \in WritePC, from \in ReadPC => to \in ReadPC,
         load' = load, ret' = ret, signals' = signals
  PROVE  /\ CallsInStep'
         /\ \A u \in Tasks : pc'[u] = IF pc[u] = from THEN to ELSE pc[u]
<1>1. \A u \in Tasks : pc'[u] = IF pc[u] = from THEN to ELSE pc[u]
  BY DEF Wakeup
<1>2. \A u \in Writers : pc'[u] \in WritePC
  BY <1>1, Sizes DEF CallsInStep
<1>3. \A u \in Readers : pc'[u] \in ReadPC
  BY <1>1, Sizes DEF CallsInStep
<1>4. pc' \in [Tasks -> WritePC \cup ReadPC]
  BY <1>1, <1>2, <1>3 DEF Wakeup, Tasks
<1> QED
  BY <1>1, <1>2, <1>3, <1>4 DEF CallsInStep

-----------------------------------------------------------------------------
(* The transmit side, action by action                                     *)

\* What the other side does leaves the transmit side alone.
LEMMA TxFrame ==
  ASSUME TxInv, UNCHANGED txVars, load'.onlcr = load.onlcr,
         \A t \in Writers : pc'[t] = pc[t]
  PROVE  TxInv'
<1> USE DEF txVars, writeVars
<1>1. TxTypes'
  BY DEF TxInv, TxTypes
<1>2. \A t \in Writers : WriterInStep(t)'
  BY DEF TxInv, WriterInStep, NextChar
<1>3. NoStalledWriter' /\ NoByteLost'
  BY DEF TxInv, NoStalledWriter, NoByteLost
<1>4. WritesInStep' /\ WritesWhole'
  BY DEF TxInv, WritesInStep, WritesWhole
<1> QED
  BY <1>1, <1>2, <1>3, <1>4 DEF TxInv

\* While t holds xmit.lock every other writer is before its call or behind it.
LEMMA OthersOut ==
  ASSUME CallsInStep, TxInv, NEW t \in Writers, xlock = t, NEW u \in Writers, u # t
  PROVE  pc[u] \in {"w_lock", "w_done"}
  BY DEF CallsInStep, TxInv, WriterInStep, WritePC

LEMMA OthersKeep ==
  ASSUME CallsInStep, TxInv, NEW t \in Writers, xlock = t, xlock' = t \/ xlock' = Nobody,
         NEW u \in Writers, u # t, pc'[u] = pc[u]
  PROVE  WriterInStep(u)'
<1>1. pc'[u] \in {"w_lock", "w_done"}
  BY OthersOut
<1>2. xlock' # u
  BY Sizes
<1> QED
  BY <1>1, <1>2 DEF WriterInStep, Writing, Putting

\* A step of the writer that touches neither the buffer nor the string.
LEMMA QuietStep ==
  ASSUME CallsInStep, TxInv, NEW t \in Writers, xlock = t, pc'[t] # "w_lock",
         \A u \in Writers : u # t => pc'[u] = pc[u],
         UNCHANGED <<xmit, xlock, txe, left, cr, accepted, wire>>,
         txint' \in BOOLEAN, xmitsem' \in 0 .. 1,
         nexthead' \in [Writers -> 0 .. XmitSize - 1],
         WriterInStep(t)',
         txint' => xmit.head # xmit.tail,
         pc'[t] = "w_wait" => txint' /\ xmitsem' = 0
  PROVE  TxInv'
<1>1. TxTypes'
  BY DEF TxInv, TxTypes
<1>2. \A u \in Writers : WriterInStep(u)'
  BY OthersKeep
<1>3. NoStalledWriter'
  <2> SUFFICES ASSUME NEW u \in Writers, pc'[u] = "w_wait"
               PROVE  txint' /\ xmitsem' = 0
    BY DEF NoStalledWriter
  <2>1. u = t
    BY OthersOut
  <2> QED
    BY <2>1
<1>4. NoByteLost'
  BY DEF TxInv, NoByteLost
<1>5. WritesInStep' /\ WritesWhole'
  BY DEF TxInv, WritesInStep, WritesWhole
<1> QED
  BY <1>1, <1>2, <1>3, <1>4, <1>5 DEF TxInv

\* The character to put is a character of the string, or the '\r' before it.
LEMMA NextCharType ==
  ASSUME TxTypes, NEW t \in Writers, left[t] # <<>>
  PROVE  <<t, NextChar(t)>> \in TxByte
<1>1. left[t] \in Seq(Chars)
  BY DEF TxTypes
<1>2. Head(left[t]) \in Chars
  BY <1>1, HeadTailProperties
<1>3. NextChar(t) \in Chars \cup {CR}
  BY <1>2 DEF NextChar
<1> QED
  BY <1>3 DEF TxByte

LEMMA WriteLockInv ==
  ASSUME CallsInStep, TxInv, NEW t \in Writers, WriteLock(t)
  PROVE  CallsInStep' /\ TxInv'
<1> USE DEF WriteLock, Goto, writeVars
<1>1. CallsInStep' /\ pc'[t] = "w_start" /\ \A u \in Tasks : u # t => pc'[u] = pc[u]
  <2>1. "w_start" \in WritePC /\ t \in Tasks /\ t \notin Readers
    BY Sizes DEF WritePC, Writing, Putting
  <2> QED
    BY <2>1, OneMoves DEF CallsInStep
<1>2. \A u \in Writers : u # t => pc'[u] = pc[u] /\ pc[u] \in {"w_lock", "w_done"}
  <2>1. \A u \in Writers : pc[u] \notin Writing
    BY Sizes DEF TxInv, WriterInStep
  <2> QED
    BY <1>1, <2>1, Sizes DEF CallsInStep, WritePC
<1>3. TxTypes'
  BY DEF TxInv, TxTypes
<1>4. \A u \in Writers : WriterInStep(u)'
  <2>1. WriterInStep(t)'
    BY <1>1 DEF WriterInStep, Writing, Putting
  <2>2. ASSUME NEW u \in Writers, u # t
        PROVE  WriterInStep(u)'
    BY <1>2, <2>2 DEF WriterInStep, Writing, Putting
  <2> QED
    BY <2>1, <2>2
<1>5. NoStalledWriter' /\ NoByteLost'
  <2>1. \A u \in Writers : pc'[u] # "w_wait"
    BY <1>1, <1>2
  <2> QED
    BY <2>1 DEF TxInv, NoStalledWriter, NoByteLost
<1>6. WritesInStep' /\ WritesWhole'
  <2>1. \A i \in 1 .. Len(accepted) : accepted[i][1] # t
    BY DEF TxInv, WritesInStep
  <2>2. \A u \in Writers : pc'[u] = "w_lock" => pc[u] = "w_lock"
    BY <1>1, <1>2
  <2> QED
    BY <2>1, <2>2 DEF TxInv, WritesInStep, WritesWhole
<1> QED
  BY <1>1, <1>3, <1>4, <1>5, <1>6 DEF TxInv

LEMMA WriteReturnInv ==
  ASSUME CallsInStep, TxInv, NEW t \in Writers, WriteReturn(t)
  PROVE  CallsInStep' /\ TxInv'
<1> USE DEF WriteReturn, Goto, writeVars
<1>1. CallsInStep' /\ pc'[t] = "w_done" /\ \A u \in Tasks : u # t => pc'[u] = pc[u]
  <2>1. "w_done" \in WritePC /\ t \in Tasks /\ t \notin Readers
    BY Sizes DEF WritePC
  <2>2. Written(t) \in Int
    <3>1. load.strings[t] \in Seq(Chars) /\ left[t] \in Seq(Chars)
      BY DEF CallsInStep, Load, TxInv, TxTypes
    <3>2. Len(load.strings[t]) \in Nat /\ Len(left[t]) \in Nat
      BY <3>1, LenProperties
    <3> QED
      BY <3>2 DEF Written
  <2>3. ret' \in [Tasks -> Int]
    <3>1. (IF Written(t) > 0 THEN Written(t) ELSE -1) \in Int
      BY <2>2
    <3> HIDE DEF Written
    <3> QED
      BY <2>1, <3>1 DEF CallsInStep
  <2> QED
    BY <2>1, <2>3, OneMoves DEF CallsInStep
<1>2. xlock = t
  BY DEF TxInv, WriterInStep, Writing
<1>3. TxTypes'
  BY DEF TxInv, TxTypes
<1>4. \A u \in Writers : WriterInStep(u)'
  <2>1. WriterInStep(t)'
    BY <1>1, Sizes DEF WriterInStep, Writing, Putting
  <2> QED
    BY <1>1, <1>2, <2>1, OthersKeep, Sizes
<1>5. NoStalledWriter' /\ NoByteLost'
  BY <1>1, Sizes DEF TxInv, NoStalledWriter, NoByteLost
<1>6. WritesInStep' /\ WritesWhole'
  <2>1. \A u \in Writers : xlock' # u
    BY Sizes
  <2>2. \A u \in Writers : pc'[u] = "w_lock" => pc[u] = "w_lock"
    BY <1>1, Sizes
  <2> QED
    BY <2>1, <2>2 DEF TxInv, WritesInStep, WritesWhole
<1> QED
  BY <1>1, <1>3, <1>4, <1>5, <1>6 DEF TxInv

\* The steps that touch neither the buffer nor the string.
LEMMA WriteStartInv ==
  ASSUME CallsInStep, TxInv, NEW t \in Writers, WriteStart(t)
  PROVE  CallsInStep' /\ TxInv'
<1> USE DEF WriteStart, Goto, writeVars
<1>1. CallsInStep' /\ pc'[t] = "w_put" /\ \A u \in Tasks : u # t => pc'[u] = pc[u]
  <2>1. "w_put" \in WritePC /\ t \in Tasks /\ t \notin Readers
    BY Sizes DEF WritePC, Writing, Putting
  <2> QED
    BY <2>1, OneMoves DEF CallsInStep
<1>2. xlock = t /\ left[t] # <<>>
  BY DEF TxInv, WriterInStep, Writing, Putting
<1>3. WriterInStep(t)'
  BY <1>1, <1>2 DEF WriterInStep, Writing, Putting
<1> QED
  BY <1>1, <1>2, <1>3, QuietStep, Sizes DEF TxInv, TxTypes

LEMMA PutCheckInv ==
  ASSUME CallsInStep, TxInv, NEW t \in Writers, PutCheck(t)
  PROVE  CallsInStep' /\ TxInv'
<1> USE DEF PutCheck
<1> DEFINE l == IF nexthead'[t] # xmit.tail THEN "w_store"
                ELSE IF load.nonblock THEN "w_end" ELSE "w_crit"
<1>1. CallsInStep' /\ pc'[t] = l /\ \A u \in Tasks : u # t => pc'[u] = pc[u]
  <2>1. l \in WritePC /\ t \in Tasks /\ t \notin Readers
    BY Sizes DEF WritePC, Writing, Putting
  <2> HIDE DEF l
  <2>2. pc' = [pc EXCEPT ![t] = l]
    BY DEF l
  <2> QED
    BY <2>1, <2>2, OneMoves DEF CallsInStep
<1>2. xlock = t /\ left[t] # <<>> /\ ~txint
  BY DEF TxInv, WriterInStep, Writing, Putting
<1>3. /\ nexthead' \in [Writers -> 0 .. XmitSize - 1]
      /\ nexthead'[t] = Succ(xmit.head, XmitSize)
  <2>1. Succ(xmit.head, XmitSize) \in 0 .. XmitSize - 1
    BY SuccIs, Sizes DEF TxInv, TxTypes, Buffer
  <2> QED
    BY <2>1 DEF TxInv, TxTypes
<1>4. WriterInStep(t)'
  BY <1>1, <1>2, <1>3 DEF WriterInStep, Writing, Putting
<1> QED
  BY <1>1, <1>2, <1>3, <1>4, QuietStep, Sizes DEF TxInv, TxTypes

\* The full buffer: the interrupt is enabled over something to send.
LEMMA PutWaitInv ==
  ASSUME CallsInStep, TxInv, NEW t \in Writers, PutWait(t)
  PROVE  CallsInStep' /\ TxInv'
<1> USE DEF PutWait, writeVars
<1> DEFINE l == IF nexthead[t] # xmit.tail THEN "w_put"
                ELSE IF xmitsem > 0 THEN "w_woken" ELSE "w_wait"
<1>1. CallsInStep' /\ pc'[t] = l /\ \A u \in Tasks : u # t => pc'[u] = pc[u]
  <2>1. l \in WritePC /\ t \in Tasks /\ t \notin Readers
    BY Sizes DEF WritePC, Writing, Putting
  <2>2. pc' = [pc EXCEPT ![t] = l]
    OBVIOUS
  <2> HIDE DEF l
  <2> QED
    BY <2>1, <2>2, OneMoves DEF CallsInStep
<1>2. /\ xlock = t /\ left[t] # <<>> /\ ~txint
      /\ nexthead[t] = Succ(xmit.head, XmitSize)
  BY DEF TxInv, WriterInStep, Writing, Putting
<1>3. nexthead[t] = xmit.tail => xmit.head # xmit.tail
  <2>1. xmit.head \in 0 .. XmitSize - 1
    BY DEF TxInv, TxTypes, Buffer
  <2> QED
    BY <1>2, <2>1, Sizes DEF Succ
<1>4. txint' \in BOOLEAN /\ xmitsem' \in 0 .. 1
  <2>1. txint \in BOOLEAN /\ xmitsem \in 0 .. 1
    BY DEF TxInv, TxTypes
  <2>2. CASE nexthead[t] # xmit.tail
    BY <2>1, <2>2
  <2>3. CASE nexthead[t] = xmit.tail
    BY <2>3
  <2> QED
    BY <2>2, <2>3
<1>5. WriterInStep(t)'
  BY <1>1, <1>2 DEF WriterInStep, Writing, Putting
<1>6. (txint' => xmit.head # xmit.tail) /\ (l = "w_wait" => txint' /\ xmitsem' = 0)
  BY <1>2, <1>3
<1>7. l # "w_lock"
  OBVIOUS
<1> HIDE DEF l
<1> QED
  BY <1>1, <1>2, <1>4, <1>5, <1>6, <1>7, QuietStep, Sizes DEF TxInv, TxTypes

LEMMA PutWokenInv ==
  ASSUME CallsInStep, TxInv, NEW t \in Writers, PutWoken(t)
  PROVE  CallsInStep' /\ TxInv'
<1> USE DEF PutWoken, Goto, writeVars
<1>1. CallsInStep' /\ pc'[t] = "w_put" /\ \A u \in Tasks : u # t => pc'[u] = pc[u]
  <2>1. "w_put" \in WritePC /\ t \in Tasks /\ t \notin Readers
    BY Sizes DEF WritePC, Writing, Putting
  <2> QED
    BY <2>1, OneMoves DEF CallsInStep
<1>2. xlock = t /\ left[t] # <<>>
  BY DEF TxInv, WriterInStep, Writing, Putting
<1>3. WriterInStep(t)'
  BY <1>1, <1>2 DEF WriterInStep, Writing, Putting
<1> QED
  BY <1>1, <1>2, <1>3, QuietStep, Sizes DEF TxInv, TxTypes

LEMMA PutInterruptedInv ==
  ASSUME CallsInStep, TxInv, NEW t \in Writers, PutInterrupted(t)
  PROVE  CallsInStep' /\ TxInv'
<1> USE DEF PutInterrupted, Goto, txVars, writeVars
<1>1. CallsInStep' /\ pc'[t] = "w_eintr" /\ \A u \in Tasks : u # t => pc'[u] = pc[u]
  <2>1. "w_eintr" \in WritePC /\ t \in Tasks /\ t \notin Readers
    BY Sizes DEF WritePC, Writing, Putting
  <2>2. signals' \in 0 .. MaxSignals
    BY UartAssumption DEF CallsInStep
  <2> QED
    BY <2>1, <2>2, OneMoves DEF CallsInStep
<1>2. xlock = t /\ left[t] # <<>> /\ (txint => xmit.head # xmit.tail)
  BY DEF TxInv, WriterInStep, Writing, Putting, NoStalledWriter
<1>3. WriterInStep(t)'
  BY <1>1, <1>2 DEF WriterInStep, Writing, Putting
<1> QED
  BY <1>1, <1>2, <1>3, QuietStep, Sizes DEF TxInv, TxTypes

LEMMA PutAbortInv ==
  ASSUME CallsInStep, TxInv, NEW t \in Writers, PutAbort(t)
  PROVE  CallsInStep' /\ TxInv'
<1> USE DEF PutAbort, Goto, writeVars
<1>1. CallsInStep' /\ pc'[t] = "w_end" /\ \A u \in Tasks : u # t => pc'[u] = pc[u]
  <2>1. "w_end" \in WritePC /\ t \in Tasks /\ t \notin Readers
    BY Sizes DEF WritePC, Writing, Putting
  <2> QED
    BY <2>1, OneMoves DEF CallsInStep
<1>2. xlock = t
  BY DEF TxInv, WriterInStep, Writing, Putting
<1>3. WriterInStep(t)'
  BY <1>1, <1>2 DEF WriterInStep, Writing, Putting
<1> QED
  BY <1>1, <1>2, <1>3, QuietStep, Sizes DEF TxInv, TxTypes

LEMMA WriteEndInv ==
  ASSUME CallsInStep, TxInv, NEW t \in Writers, WriteEnd(t)
  PROVE  CallsInStep' /\ TxInv'
<1> USE DEF WriteEnd, Goto, writeVars
<1>1. CallsInStep' /\ pc'[t] = "w_unlock" /\ \A u \in Tasks : u # t => pc'[u] = pc[u]
  <2>1. "w_unlock" \in WritePC /\ t \in Tasks /\ t \notin Readers
    BY Sizes DEF WritePC, Writing, Putting
  <2> QED
    BY <2>1, OneMoves DEF CallsInStep
<1>2. xlock = t /\ (txint => xmit.head # xmit.tail)
  BY DEF TxInv, WriterInStep, Writing, Putting, NoStalledWriter
<1>3. txint' \in BOOLEAN /\ (txint' => xmit.head # xmit.tail)
  BY <1>2
<1>4. WriterInStep(t)'
  BY <1>1, <1>2 DEF WriterInStep, Writing, Putting
<1> QED
  BY <1>1, <1>2, <1>3, <1>4, QuietStep, Sizes DEF TxInv, TxTypes

\* The character is stored where the handler does not look yet.
LEMMA PutStoreInv ==
  ASSUME CallsInStep, TxInv, NEW t \in Writers, PutStore(t)
  PROVE  CallsInStep' /\ TxInv'
<1> USE DEF PutStore, Goto, writeVars
<1>1. CallsInStep' /\ pc'[t] = "w_head" /\ \A u \in Tasks : u # t => pc'[u] = pc[u]
  <2>1. "w_head" \in WritePC /\ t \in Tasks /\ t \notin Readers
    BY Sizes DEF WritePC, Writing, Putting
  <2> QED
    BY <2>1, OneMoves DEF CallsInStep
<1>2. /\ xlock = t /\ left[t] # <<>> /\ ~txint
      /\ nexthead[t] = Succ(xmit.head, XmitSize) /\ nexthead[t] # xmit.tail
  BY DEF TxInv, WriterInStep, Writing, Putting
<1>3. <<t, NextChar(t)>> \in TxByte /\ NextChar(t)' = NextChar(t)
  BY <1>2, NextCharType DEF TxInv, NextChar
<1>4. xmit \in Buffer(XmitSize, TxByte)
  BY DEF TxInv, TxTypes
<1>5. /\ xmit' \in Buffer(XmitSize, TxByte)
      /\ xmit'.head = xmit.head /\ xmit'.tail = xmit.tail
      /\ xmit'.buffer[xmit'.head] = <<t, NextChar(t)>>
      /\ \A p \in 0 .. XmitSize - 1 : p # xmit.head => xmit'.buffer[p] = xmit.buffer[p]
  <2> DEFINE x == <<t, NextChar(t)>>
  <2>1. x \in TxByte /\ xmit' = [xmit EXCEPT !.buffer[xmit.head] = x]
    BY <1>3
  <2> HIDE DEF x, PutStore, Goto, writeVars
  <2>2. /\ xmit' \in Buffer(XmitSize, TxByte)
        /\ xmit'.head = xmit.head /\ xmit'.tail = xmit.tail /\ xmit'.buffer[xmit.head] = x
        /\ \A p \in 0 .. XmitSize - 1 : p # xmit.head => xmit'.buffer[p] = xmit.buffer[p]
    <3>1. /\ xmit.head \in 0 .. XmitSize - 1 /\ xmit.tail \in 0 .. XmitSize - 1
          /\ xmit.buffer \in [0 .. XmitSize - 1 -> TxByte]
      BY <1>4 DEF Buffer
    <3>2. /\ xmit'.head = xmit.head /\ xmit'.tail = xmit.tail
          /\ xmit'.buffer = [xmit.buffer EXCEPT ![xmit.head] = x]
      BY <1>4, <2>1 DEF Buffer
    <3>3. xmit' \in Buffer(XmitSize, TxByte)
      BY <1>4, <2>1, <3>1 DEF Buffer
    <3> QED
      BY <2>1, <3>1, <3>2, <3>3
  <2> QED
    BY <2>2 DEF x
<1>6. Contents(xmit', XmitSize) = Contents(xmit, XmitSize)
  BY <1>4, <1>5, StoreUnseen, Sizes
<1>7. TxTypes'
  BY <1>5 DEF TxInv, TxTypes
<1>8. \A u \in Writers : WriterInStep(u)'
  <2>1. WriterInStep(t)'
    BY <1>1, <1>2, <1>3, <1>5 DEF WriterInStep, Writing, Putting
  <2> QED
    BY <1>1, <1>2, <2>1, OthersKeep, Sizes
<1>9. NoStalledWriter'
  <2>1. \A u \in Writers : pc'[u] # "w_wait"
    BY <1>1, <1>2, OthersOut, Sizes
  <2> QED
    BY <1>2, <2>1 DEF NoStalledWriter
<1>10. NoByteLost'
  BY <1>6 DEF TxInv, NoByteLost
<1>11. WritesInStep' /\ WritesWhole'
  BY <1>1, Sizes DEF TxInv, WritesInStep, WritesWhole
<1> QED
  BY <1>1, <1>7, <1>8, <1>9, <1>10, <1>11 DEF TxInv

\* The moved head publishes the character stored before.
LEMMA PutHeadInv ==
  ASSUME CallsInStep, TxInv, NEW t \in Writers, PutHead(t)
  PROVE  CallsInStep' /\ TxInv'
<1> USE DEF PutHead
<1> DEFINE x == <<t, NextChar(t)>>
<1>1. /\ xlock = t /\ left[t] # <<>> /\ ~txint
      /\ nexthead[t] = Succ(xmit.head, XmitSize) /\ nexthead[t] # xmit.tail
      /\ xmit.buffer[xmit.head] = x
  BY DEF TxInv, WriterInStep, Writing, Putting
<1>2. x \in TxByte /\ x[1] = t
  BY <1>1, NextCharType DEF TxInv
<1>3. /\ xmit' = [xmit EXCEPT !.head = Succ(xmit.head, XmitSize)]
      /\ accepted' = Append(accepted, x)
  BY <1>1
<1>4. left' \in [Writers -> Seq(Chars)] /\ cr' \in [Writers -> BOOLEAN]
  <2>1. left \in [Writers -> Seq(Chars)] /\ cr \in [Writers -> BOOLEAN]
    BY DEF TxInv, TxTypes
  <2>2. left[t] \in Seq(Chars)
    BY <2>1
  <2>3. Tail(left[t]) \in Seq(Chars)
    BY <1>1, <2>2, HeadTailProperties
  <2>4. /\ cr' = [cr EXCEPT ![t] = TRUE] \/ cr' = [cr EXCEPT ![t] = FALSE]
        /\ left' = left \/ left' = [left EXCEPT ![t] = Tail(left[t])]
    BY Zenon
  <2> QED
    BY <2>1, <2>3, <2>4
<1> DEFINE l == IF left'[t] = <<>> THEN "w_end" ELSE "w_put"
<1>5. CallsInStep' /\ pc'[t] = l /\ \A u \in Tasks : u # t => pc'[u] = pc[u]
  <2>1. l \in WritePC /\ t \in Tasks /\ t \notin Readers
    BY Sizes DEF WritePC, Writing, Putting
  <2>2. pc' = [pc EXCEPT ![t] = l]
    OBVIOUS
  <2> HIDE DEF l
  <2> QED
    BY <2>1, <2>2, OneMoves DEF CallsInStep
<1> HIDE DEF x
<1>6. xmit \in Buffer(XmitSize, TxByte) /\ accepted \in Seq(TxByte) /\ wire \in Seq(TxByte)
  BY DEF TxInv, TxTypes
<1>7. /\ xmit' \in Buffer(XmitSize, TxByte)
      /\ xmit'.head = Succ(xmit.head, XmitSize) /\ xmit'.tail = xmit.tail
      /\ xmit'.buffer = xmit.buffer
  <2> HIDE DEF PutHead
  <2> QED
    BY <1>3, <1>6, MoveHead, Sizes
<1>8. /\ accepted' \in Seq(TxByte) /\ Len(accepted') = Len(accepted) + 1
      /\ Len(accepted) \in Nat
      /\ \A i \in 1 .. Len(accepted) : accepted'[i] = accepted[i]
      /\ accepted'[Len(accepted) + 1] = x
  <2> HIDE DEF PutHead
  <2> QED
    BY <1>2, <1>3, <1>6, AppendIs
<1>9. TxTypes'
  BY <1>4, <1>7, <1>8 DEF TxInv, TxTypes
<1>10. \A u \in Writers : WriterInStep(u)'
  <2>1. WriterInStep(t)'
    BY <1>1, <1>5 DEF WriterInStep, Writing, Putting
  <2> QED
    BY <1>1, <1>5, <2>1, OthersKeep, Sizes
<1>11. NoStalledWriter'
  <2>1. \A u \in Writers : pc'[u] # "w_wait"
    BY <1>1, <1>5, OthersOut, Sizes
  <2> QED
    BY <1>1, <2>1 DEF NoStalledWriter
<1>12. NoByteLost'
  <2> DEFINE s == Contents(xmit, XmitSize)
  <2>1. s \in Seq(TxByte)
    BY <1>6, ContentsIs, Sizes
  <2>2. Contents(xmit', XmitSize) = Append(s, xmit.buffer[xmit.head])
    <3>1. Succ(xmit.head, XmitSize) # xmit.tail
      BY <1>1
    <3> HIDE DEF PutHead
    <3> QED
      BY <1>6, <1>7, <3>1, HeadAppends, Sizes
  <2>3. wire \o s = accepted
    BY DEF TxInv, NoByteLost
  <2> HIDE DEF s
  <2>4. wire \o Append(s, x) = Append(wire \o s, x)
    BY <1>2, <1>6, <2>1, AppendInside
  <2> QED
    BY <1>1, <1>3, <2>2, <2>3, <2>4 DEF NoByteLost
<1>13. WritesInStep'
  <2>1. ASSUME NEW u \in Writers, pc'[u] = "w_lock", NEW i \in 1 .. Len(accepted')
        PROVE  accepted'[i][1] # u
    <3>1. u # t /\ pc[u] = "w_lock"
      BY <1>5, <2>1, Sizes
    <3> QED
      BY <1>2, <1>8, <3>1 DEF TxInv, WritesInStep
  <2>2. ASSUME NEW i \in 1 .. Len(accepted'), NEW j \in 1 .. Len(accepted'),
               i < j, accepted'[i][1] = t
        PROVE  accepted'[j][1] = t
    <3>1. CASE j = Len(accepted) + 1
      BY <1>2, <1>8, <3>1
    <3>2. CASE j \in 1 .. Len(accepted)
      <4>1. i \in 1 .. Len(accepted)
        BY <1>8, <2>2, <3>2
      <4> QED
        BY <1>1, <1>8, <2>2, <3>2, <4>1 DEF TxInv, WritesInStep
    <3> QED
      BY <1>8, <3>1, <3>2
  <2>3. xlock' = t
    BY <1>1
  <2> QED
    BY <2>1, <2>2, <2>3 DEF WritesInStep
<1>14. WritesWhole'
  <2> SUFFICES ASSUME NEW i \in 1 .. Len(accepted'), NEW j \in 1 .. Len(accepted'),
                      NEW k \in 1 .. Len(accepted'),
                      i < j, j < k, accepted'[i][1] = accepted'[k][1]
               PROVE  accepted'[j][1] = accepted'[i][1]
    BY DEF WritesWhole
  <2>1. i \in 1 .. Len(accepted) /\ j \in 1 .. Len(accepted)
    BY <1>8
  <2>2. CASE k = Len(accepted) + 1
    <3>1. accepted[i][1] = t
      BY <1>2, <1>8, <2>1, <2>2
    <3> QED
      BY <1>1, <1>8, <2>1, <3>1 DEF TxInv, WritesInStep
  <2>3. CASE k \in 1 .. Len(accepted)
    BY <1>8, <2>1, <2>3 DEF TxInv, WritesWhole
  <2> QED
    BY <1>8, <2>2, <2>3
<1> QED
  BY <1>5, <1>9, <1>10, <1>11, <1>12, <1>13, <1>14 DEF TxInv

\* The handler sends from the tail: a place the writer has found free stays free,
\* and a writer that waits is woken, as there is something to send.
LEMMA XmitInterruptInv ==
  ASSUME CallsInStep, TxInv, XmitInterrupt
  PROVE  CallsInStep' /\ TxInv'
<1> USE DEF XmitInterrupt, DataSent, writeVars
<1>1. PICK n \in 0 .. Held(xmit, XmitSize) :
        /\ n = 0 => xmit.head = xmit.tail
        /\ Sent(n)
        /\ txe' \in IF n = Held(xmit, XmitSize) THEN BOOLEAN ELSE {FALSE}
        /\ txint' = (xmit'.head # xmit'.tail)
        /\ IF n > 0
           THEN Wakeup("w_wait", "w_woken") /\ xmitsem' = 1
           ELSE UNCHANGED <<pc, xmitsem>>
  OBVIOUS
<1>2. xmit.head # xmit.tail
  BY DEF TxInv, NoStalledWriter
<1>3. xmit \in Buffer(XmitSize, TxByte) /\ accepted \in Seq(TxByte) /\ wire \in Seq(TxByte)
  BY DEF TxInv, TxTypes
<1>4. n > 0 /\ Wakeup("w_wait", "w_woken") /\ xmitsem' = 1
  <2>1. Held(xmit, XmitSize) \in 0 .. XmitSize - 1
    BY <1>3, HeldIs, Sizes
  <2>2. n > 0
    BY <1>1, <1>2, <2>1
  <2> QED
    BY <1>1, <2>2
<1>5. CallsInStep' /\ \A u \in Tasks : pc'[u] = IF pc[u] = "w_wait" THEN "w_woken" ELSE pc[u]
  <2>1. "w_woken" \in WritePC /\ "w_wait" \notin ReadPC
    BY DEF WritePC, ReadPC, Reading, Writing, Putting
  <2> QED
    BY <1>4, <2>1, WakeupMoves
<1> DEFINE s == Contents(xmit, XmitSize)
           v == SubSeq(s, 1, n)
<1>6. /\ xmit' \in Buffer(XmitSize, TxByte)
      /\ xmit'.head = xmit.head /\ xmit'.buffer = xmit.buffer
      /\ xmit'.tail = (xmit.tail + n) % XmitSize
  <2>1. xmit' = [xmit EXCEPT !.tail = (xmit.tail + n) % XmitSize]
    BY <1>1 DEF Sent
  <2>2. n \in Nat
    BY <1>3, HeldIs, Sizes
  <2> QED
    BY <1>3, <2>1, <2>2, MoveTail, Sizes
<1>7. /\ Succ(xmit.head, XmitSize) # xmit.tail => Succ(xmit.head, XmitSize) # xmit'.tail
      /\ v \in Seq(TxByte)
      /\ v \o Contents(xmit', XmitSize) = s
  BY <1>3, <1>6, TailTakes, Sizes
<1>8. wire' = wire \o v
  BY <1>1 DEF Sent
<1>9. TxTypes'
  <2>1. wire' \in Seq(TxByte)
    BY <1>3, <1>7, <1>8, MoveAcross
  <2>2. txe' \in BOOLEAN /\ txint' \in BOOLEAN
    BY <1>1
  <2> QED
    BY <1>4, <1>6, <2>1, <2>2 DEF TxInv, TxTypes
<1>10. ASSUME NEW u \in Writers
       PROVE  WriterInStep(u)'
  <2>1. WriterInStep(u) /\ txint
    BY DEF TxInv
  <2>2. pc'[u] = IF pc[u] = "w_wait" THEN "w_woken" ELSE pc[u]
    BY <1>5, Sizes
  <2>3. pc'[u] \notin {"w_put", "w_store", "w_head", "w_crit"}
    BY <2>1, <2>2 DEF WriterInStep
  <2>4. pc'[u] \in Writing <=> pc[u] \in Writing
    BY <2>2 DEF Writing, Putting
  <2>5. pc'[u] \in Putting <=> pc[u] \in Putting
    BY <2>2 DEF Putting
  <2> QED
    BY <2>1, <2>3, <2>4, <2>5 DEF WriterInStep
<1>11. NoStalledWriter'
  <2>1. \A u \in Writers : pc'[u] # "w_wait"
    BY <1>5, Sizes
  <2> QED
    BY <1>1, <2>1 DEF NoStalledWriter
<1>12. NoByteLost'
  <2> DEFINE d == Contents(xmit', XmitSize)
  <2>1. d \in Seq(TxByte)
    BY <1>6, ContentsIs, Sizes
  <2>2. wire \o s = accepted
    BY DEF TxInv, NoByteLost
  <2>3. v \o d = s
    BY <1>7
  <2>4. wire \in Seq(TxByte) /\ v \in Seq(TxByte)
    BY <1>3, <1>7
  <2> HIDE DEF s, v, d, XmitInterrupt, DataSent, writeVars
  <2>5. (wire \o v) \o d = wire \o (v \o d)
    BY <2>1, <2>4, MoveAcross
  <2>6. accepted' = accepted
    BY DEF XmitInterrupt
  <2>7. wire' \o d = accepted'
    BY <1>8, <2>2, <2>3, <2>5, <2>6
  <2> QED
    BY <2>7 DEF NoByteLost, d
<1>13. WritesInStep' /\ WritesWhole'
  <2>1. \A u \in Writers : pc'[u] = "w_lock" => pc[u] = "w_lock"
    BY <1>5, Sizes
  <2> QED
    BY <2>1 DEF TxInv, WritesInStep, WritesWhole
<1> QED
  BY <1>5, <1>9, <1>10, <1>11, <1>12, <1>13 DEF TxInv

LEMMA ShiftInv ==
  ASSUME CallsInStep, TxInv, Shift
  PROVE  CallsInStep' /\ TxInv'
<1> USE DEF Shift, writeVars
<1>1. CallsInStep'
  BY DEF CallsInStep
<1>2. TxTypes'
  BY DEF TxInv, TxTypes
<1>3. \A t \in Writers : WriterInStep(t)'
  BY DEF TxInv, WriterInStep, NextChar
<1>4. NoStalledWriter' /\ NoByteLost'
  BY DEF TxInv, NoStalledWriter, NoByteLost
<1>5. WritesInStep' /\ WritesWhole'
  BY DEF TxInv, WritesInStep, WritesWhole
<1> QED
  BY <1>1, <1>2, <1>3, <1>4, <1>5 DEF TxInv

-----------------------------------------------------------------------------
(* The receive side, action by action                                      *)

\* What the other side does leaves the receive side alone; an interrupt may
\* discard the byte in the receive register.
LEMMA RxFrame ==
  ASSUME RxInv, UNCHANGED <<recv, rlock, recvsem, rxint, tail, stored, taken>>,
         rdr' \in Nat, arrived' \in Nat, ore' \in BOOLEAN,
         \A t \in Readers : pc'[t] = pc[t]
  PROVE  RxInv'
<1>1. RxTypes'
  BY DEF RxInv, RxTypes
<1>2. \A t \in Readers : ReaderInStep(t)'
  BY DEF RxInv, ReaderInStep
<1>3. NoStalledReader'
  BY DEF RxInv, NoStalledReader
<1> QED
  BY <1>1, <1>2, <1>3 DEF RxInv

\* The receive side after a step of reader t, from what t may change: its place,
\* the lock it takes or gives back, and a tail it moves while nobody waits.
LEMMA ReaderStep ==
  ASSUME CallsInStep, RxInv, NEW t \in Readers,
         \A u \in Readers : u # t => pc'[u] = pc[u],
         rlock = t \/ rlock = Nobody,
         rlock' = t \/ rlock' = Nobody,
         pc'[t] \in Reading <=> rlock' = t,
         pc'[t] \in {"r_take", "r_tail"} => \A u \in Readers : pc[u] # "r_wait",
         pc'[t] = "r_wait" => recv'.head = recv'.tail /\ rxint' /\ recvsem' = 0,
         \A u \in Readers : u # t /\ pc[u] = "r_wait" =>
           recv'.head = recv'.tail /\ rxint' /\ recvsem' = 0,
         RxTypes'
  PROVE  RxInv'
<1>1. \A u \in Readers : u # t => pc'[u] \notin Reading
  BY Sizes DEF RxInv, ReaderInStep
<1>2. ReaderInStep(t)'
  <2>1. pc'[t] \in {"r_take", "r_tail"} => \A u \in Readers : pc'[u] # "r_wait"
    BY Zenon
  <2> QED
    BY <2>1 DEF ReaderInStep
<1>3. ASSUME NEW u \in Readers, u # t
      PROVE  ReaderInStep(u)'
  <2>1. pc'[u] \notin Reading /\ rlock' # u
    BY <1>1, <1>3, Sizes
  <2> QED
    BY <2>1 DEF ReaderInStep, Reading
<1>4. NoStalledReader'
  BY DEF NoStalledReader
<1> QED
  BY <1>2, <1>3, <1>4 DEF RxInv

\* A reader between lock and unlock holds the lock.
LEMMA ReaderHolds ==
  ASSUME RxInv, NEW t \in Readers, pc[t] \in Reading
  PROVE  rlock = t
  BY DEF RxInv, ReaderInStep

\* A read or a flush less to do.
LEMMA LoadCounts ==
  ASSUME NEW l \in Load, NEW t \in Readers
  PROVE  /\ l.reads[t] > 0 =>
              /\ [l EXCEPT !.reads[t] = @ - 1] \in Load
              /\ [l EXCEPT !.reads[t] = @ - 1].onlcr = l.onlcr
              /\ [l EXCEPT !.reads[t] = @ - 1].flushes = l.flushes
              /\ [l EXCEPT !.reads[t] = @ - 1].reads = [l.reads EXCEPT ![t] = @ - 1]
         /\ l.flushes[t] > 0 =>
              /\ [l EXCEPT !.flushes[t] = @ - 1] \in Load
              /\ [l EXCEPT !.flushes[t] = @ - 1].onlcr = l.onlcr
              /\ [l EXCEPT !.flushes[t] = @ - 1].reads = l.reads
              /\ [l EXCEPT !.flushes[t] = @ - 1].flushes = [l.flushes EXCEPT ![t] = @ - 1]
<1> DEFINE S == [Writers -> Seq(Chars)]
           C == [Readers -> Nat]
           r == [l.reads EXCEPT ![t] = @ - 1]
           f == [l.flushes EXCEPT ![t] = @ - 1]
<1> HIDE DEF S
<1>1. l.reads \in C /\ l.flushes \in C
  BY DEF Load
<1>2. (l.reads[t] > 0 => r \in C) /\ (l.flushes[t] > 0 => f \in C)
  BY <1>1
<1>3. /\ [l EXCEPT !.reads[t] = @ - 1] = [l EXCEPT !.reads = r]
      /\ [l EXCEPT !.flushes[t] = @ - 1] = [l EXCEPT !.flushes = f]
  OBVIOUS
<1>4. Load = [strings : S, arrivals : Nat, reads : C, flushes : C,
              nonblock : BOOLEAN, onlcr : BOOLEAN]
  BY DEF Load, S
<1> HIDE DEF C, r, f
<1>5. ASSUME r \in C
      PROVE  /\ [l EXCEPT !.reads = r] \in Load
             /\ [l EXCEPT !.reads = r].onlcr = l.onlcr
             /\ [l EXCEPT !.reads = r].flushes = l.flushes
             /\ [l EXCEPT !.reads = r].reads = r
  BY <1>4, <1>5
<1>6. ASSUME f \in C
      PROVE  /\ [l EXCEPT !.flushes = f] \in Load
             /\ [l EXCEPT !.flushes = f].onlcr = l.onlcr
             /\ [l EXCEPT !.flushes = f].reads = l.reads
             /\ [l EXCEPT !.flushes = f].flushes = f
  BY <1>4, <1>6
<1> QED
  BY <1>2, <1>3, <1>5, <1>6 DEF r, f

LEMMA ReadLockInv ==
  ASSUME CallsInStep, RxInv, NEW t \in Readers, ReadLock(t)
  PROVE  CallsInStep' /\ RxInv'
<1> USE DEF ReadLock, Goto
<1>1. load' \in Load
  BY LoadCounts DEF CallsInStep
<1>2. CallsInStep' /\ pc'[t] = "r_check" /\ \A u \in Tasks : u # t => pc'[u] = pc[u]
  <2>1. "r_check" \in ReadPC /\ t \in Tasks /\ t \notin Writers
    BY Sizes DEF ReadPC, Reading
  <2> QED
    BY <1>1, <2>1, OneMoves DEF CallsInStep
<1>3. RxTypes'
  BY DEF RxInv, RxTypes
<1>4. \A u \in Readers : u # t => pc'[u] = pc[u]
  BY <1>2, Sizes
<1>5. \A u \in Readers : pc[u] = "r_wait" => recv'.head = recv'.tail /\ rxint' /\ recvsem' = 0
  BY DEF RxInv, NoStalledReader
<1>6. "r_check" \in Reading
  BY DEF Reading
<1> QED
  BY <1>2, <1>3, <1>4, <1>5, <1>6, ReaderStep

LEMMA ReadRelockInv ==
  ASSUME CallsInStep, RxInv, NEW t \in Readers, ReadRelock(t)
  PROVE  CallsInStep' /\ RxInv'
<1> USE DEF ReadRelock, Goto
<1>1. CallsInStep' /\ pc'[t] = "r_check" /\ \A u \in Tasks : u # t => pc'[u] = pc[u]
  <2>1. "r_check" \in ReadPC /\ t \in Tasks /\ t \notin Writers
    BY Sizes DEF ReadPC, Reading
  <2> QED
    BY <2>1, OneMoves DEF CallsInStep
<1>2. RxTypes'
  BY DEF RxInv, RxTypes
<1>3. \A u \in Readers : u # t => pc'[u] = pc[u]
  BY <1>1, Sizes
<1>4. \A u \in Readers : pc[u] = "r_wait" => recv'.head = recv'.tail /\ rxint' /\ recvsem' = 0
  BY DEF RxInv, NoStalledReader
<1>5. "r_check" \in Reading
  BY DEF Reading
<1> QED
  BY <1>1, <1>2, <1>3, <1>4, <1>5, ReaderStep

LEMMA ReadAbortInv ==
  ASSUME CallsInStep, RxInv, NEW t \in Readers, ReadAbort(t)
  PROVE  CallsInStep' /\ RxInv'
<1> USE DEF ReadAbort, Goto
<1>1. CallsInStep' /\ pc'[t] = "r_exit" /\ \A u \in Tasks : u # t => pc'[u] = pc[u]
  <2>1. "r_exit" \in ReadPC /\ t \in Tasks /\ t \notin Writers
    BY Sizes DEF ReadPC, Reading
  <2>2. ret' \in [Tasks -> Int]
    <3>1. ret \in [Tasks -> Int] /\ -1 \in Int /\ ret' = [ret EXCEPT ![t] = -1]
      BY DEF CallsInStep
    <3> QED
      BY <3>1
  <2> QED
    BY <2>1, <2>2, OneMoves DEF CallsInStep
<1>2. RxTypes'
  BY DEF RxInv, RxTypes
<1>3. \A u \in Readers : u # t => pc'[u] = pc[u]
  BY <1>1, Sizes
<1>4. \A u \in Readers : pc[u] = "r_wait" => recv'.head = recv'.tail /\ rxint' /\ recvsem' = 0
  BY DEF RxInv, NoStalledReader
<1>5. "r_exit" \in Reading
  BY DEF Reading
<1> QED
  BY <1>1, <1>2, <1>3, <1>4, <1>5, ReaderStep

LEMMA ReadReturnInv ==
  ASSUME CallsInStep, RxInv, NEW t \in Readers, ReadReturn(t)
  PROVE  CallsInStep' /\ RxInv'
<1> USE DEF ReadReturn, Goto
<1>1. CallsInStep' /\ pc'[t] = "r_idle" /\ \A u \in Tasks : u # t => pc'[u] = pc[u]
  <2>1. "r_idle" \in ReadPC /\ t \in Tasks /\ t \notin Writers
    BY Sizes DEF ReadPC, Reading
  <2> QED
    BY <2>1, OneMoves DEF CallsInStep
<1>2. RxTypes'
  BY DEF RxInv, RxTypes
<1>3. \A u \in Readers : u # t => pc'[u] = pc[u]
  BY <1>1, Sizes
<1>4. \A u \in Readers : pc[u] = "r_wait" => recv'.head = recv'.tail /\ rxint' /\ recvsem' = 0
  BY DEF RxInv, NoStalledReader
<1>5. "r_idle" \notin Reading /\ rlock' # t
  BY Sizes DEF Reading
<1>6. rlock = t
  BY ReaderHolds DEF Reading
<1> QED
  BY <1>1, <1>2, <1>3, <1>4, <1>5, <1>6, ReaderStep

\* A buffer that is not empty: nobody waits.
LEMMA ReadCheckInv ==
  ASSUME CallsInStep, RxInv, NEW t \in Readers, ReadCheck(t)
  PROVE  CallsInStep' /\ RxInv'
<1> USE DEF ReadCheck
<1> DEFINE l == IF recv.head # recv.tail THEN "r_take" ELSE "r_crit"
<1>1. CallsInStep' /\ pc'[t] = l /\ \A u \in Tasks : u # t => pc'[u] = pc[u]
  <2>1. l \in ReadPC /\ t \in Tasks /\ t \notin Writers
    BY Sizes DEF ReadPC, Reading
  <2>2. pc' = [pc EXCEPT ![t] = l]
    OBVIOUS
  <2> HIDE DEF l
  <2> QED
    BY <2>1, <2>2, OneMoves DEF CallsInStep
<1>2. RxTypes'
  <2>1. recv.tail \in 0 .. RecvSize - 1
    BY DEF RxInv, RxTypes, Buffer
  <2> QED
    BY <2>1 DEF RxInv, RxTypes
<1>3. \A u \in Readers : u # t => pc'[u] = pc[u]
  BY <1>1, Sizes
<1>4. \A u \in Readers : pc[u] = "r_wait" => recv'.head = recv'.tail /\ rxint' /\ recvsem' = 0
  BY DEF RxInv, NoStalledReader
<1>5. l \in Reading /\ l # "r_wait"
  BY DEF Reading
<1>6. rlock = t /\ rlock' = t
  BY ReaderHolds DEF Reading
<1>7. l \in {"r_take", "r_tail"} => \A u \in Readers : pc[u] # "r_wait"
  BY DEF RxInv, NoStalledReader
<1> HIDE DEF l
<1> QED
  BY <1>1, <1>2, <1>3, <1>4, <1>5, <1>6, <1>7, ReaderStep

LEMMA ReadTakeInv ==
  ASSUME CallsInStep, RxInv, NEW t \in Readers, ReadTake(t)
  PROVE  CallsInStep' /\ RxInv'
<1> USE DEF ReadTake, Goto, rxVars
<1>1. CallsInStep' /\ pc'[t] = "r_tail" /\ \A u \in Tasks : u # t => pc'[u] = pc[u]
  <2>1. "r_tail" \in ReadPC /\ t \in Tasks /\ t \notin Writers
    BY Sizes DEF ReadPC, Reading
  <2>2. recv.buffer[tail[t]] \in Int
    BY DEF RxInv, RxTypes, Buffer
  <2>3. ret' \in [Tasks -> Int]
    BY <2>2 DEF CallsInStep
  <2> QED
    BY <2>1, <2>3, OneMoves DEF CallsInStep
<1>2. RxTypes'
  BY DEF RxInv, RxTypes
<1>3. \A u \in Readers : u # t => pc'[u] = pc[u]
  BY <1>1, Sizes
<1>4. \A u \in Readers : pc[u] # "r_wait"
  BY DEF RxInv, ReaderInStep
<1>5. "r_tail" \in Reading
  BY DEF Reading
<1>6. rlock = t /\ rlock' = t
  BY ReaderHolds DEF Reading
<1> QED
  BY <1>1, <1>2, <1>3, <1>4, <1>5, <1>6, ReaderStep

\* The tail moves while nobody waits, whatever it was.
LEMMA ReadTailInv ==
  ASSUME CallsInStep, RxInv, NEW t \in Readers, ReadTail(t)
  PROVE  CallsInStep' /\ RxInv'
<1> USE DEF ReadTail, Goto
<1>1. CallsInStep' /\ pc'[t] = "r_exit" /\ \A u \in Tasks : u # t => pc'[u] = pc[u]
  <2>1. "r_exit" \in ReadPC /\ t \in Tasks /\ t \notin Writers
    BY Sizes DEF ReadPC, Reading
  <2> QED
    BY <2>1, OneMoves DEF CallsInStep
<1>2. RxTypes'
  <2>1. Succ(tail[t], RecvSize) \in 0 .. RecvSize - 1
    BY SuccIs, Sizes DEF RxInv, RxTypes
  <2>2. recv \in Buffer(RecvSize, Int) /\ taken \in Seq(Int)
    BY DEF RxInv, RxTypes
  <2>3. recv' \in Buffer(RecvSize, Int)
    BY <2>1, <2>2 DEF Buffer
  <2>4. taken' \in Seq(Int)
    <3>1. ret[t] \in Int
      BY Sizes DEF CallsInStep
    <3> QED
      BY <2>2, <3>1, AppendProperties
  <2> QED
    BY <2>3, <2>4 DEF RxInv, RxTypes
<1>3. \A u \in Readers : u # t => pc'[u] = pc[u]
  BY <1>1, Sizes
<1>4. \A u \in Readers : pc[u] # "r_wait"
  BY DEF RxInv, ReaderInStep
<1>5. "r_exit" \in Reading
  BY DEF Reading
<1>6. rlock = t /\ rlock' = t
  BY ReaderHolds DEF Reading
<1> QED
  BY <1>1, <1>2, <1>3, <1>4, <1>5, <1>6, ReaderStep

\* The test in the critical section: a reader comes to wait only over an empty
\* buffer with the interrupt enabled and no count left.
LEMMA ReadWaitInv ==
  ASSUME CallsInStep, RxInv, NEW t \in Readers, ReadWait(t)
  PROVE  CallsInStep' /\ RxInv'
<1> USE DEF ReadWait
<1>1. rlock = t /\ t \in Tasks /\ t \notin Writers
  BY ReaderHolds, Sizes DEF Reading
<1>2. \A u \in Readers : pc[u] = "r_wait" => recv.head = recv.tail /\ rxint /\ recvsem = 0
  BY DEF RxInv, NoStalledReader
<1>3. CASE recv.head # recv.tail
  <2>1. CallsInStep' /\ pc'[t] = "r_enable" /\ \A u \in Tasks : u # t => pc'[u] = pc[u]
    <3>1. "r_enable" \in ReadPC /\ pc' = [pc EXCEPT ![t] = "r_enable"] /\ ret' = ret
      BY <1>3 DEF ReadPC, Reading
    <3> QED
      BY <1>1, <3>1, OneMoves DEF CallsInStep
  <2>2. RxTypes' /\ rlock' = t
    BY <1>1, <1>3 DEF RxInv, RxTypes
  <2>3. \A u \in Readers : u # t => pc'[u] = pc[u]
    BY <2>1, Sizes
  <2>4. "r_enable" \in Reading
    BY DEF Reading
  <2> QED
    BY <1>1, <1>2, <1>3, <2>1, <2>2, <2>3, <2>4, ReaderStep
<1>4. CASE recv.head = recv.tail /\ load.nonblock
  <2>1. CallsInStep' /\ pc'[t] = "r_exit" /\ \A u \in Tasks : u # t => pc'[u] = pc[u]
    <3>1. "r_exit" \in ReadPC /\ pc' = [pc EXCEPT ![t] = "r_exit"] /\ ret' = [ret EXCEPT ![t] = -1]
      BY <1>4 DEF ReadPC, Reading
    <3>2. ret' \in [Tasks -> Int]
      BY <1>1, <3>1 DEF CallsInStep
    <3> QED
      BY <1>1, <3>1, <3>2, OneMoves DEF CallsInStep
  <2>2. RxTypes' /\ rlock' = t /\ rxint' /\ recvsem' = recvsem /\ recv' = recv
    BY <1>1, <1>4 DEF RxInv, RxTypes
  <2>3. \A u \in Readers : u # t => pc'[u] = pc[u]
    BY <2>1, Sizes
  <2>4. "r_exit" \in Reading
    BY DEF Reading
  <2> QED
    BY <1>1, <1>2, <1>4, <2>1, <2>2, <2>3, <2>4, ReaderStep
<1>5. CASE recv.head = recv.tail /\ ~load.nonblock
  <2> DEFINE l == IF recvsem > 0 THEN "r_relock" ELSE "r_wait"
  <2>1. CallsInStep' /\ pc'[t] = l /\ \A u \in Tasks : u # t => pc'[u] = pc[u]
    <3>1. l \in ReadPC /\ pc' = [pc EXCEPT ![t] = l] /\ ret' = ret
      BY <1>5 DEF ReadPC, Reading
    <3> HIDE DEF l
    <3> QED
      BY <1>1, <3>1, OneMoves DEF CallsInStep
  <2>2. RxTypes' /\ rlock' = Nobody /\ rxint' /\ recvsem' = 0 /\ recv' = recv
    BY <1>1, <1>5 DEF RxInv, RxTypes
  <2>3. \A u \in Readers : u # t => pc'[u] = pc[u]
    BY <2>1, Sizes
  <2>4. l \notin Reading /\ rlock' # t /\ l \notin {"r_take", "r_tail"}
    BY <2>2, Sizes DEF Reading
  <2> HIDE DEF l
  <2> QED
    BY <1>1, <1>2, <1>5, <2>1, <2>2, <2>3, <2>4, ReaderStep
<1> QED
  BY <1>3, <1>4, <1>5

LEMMA ReadEnableInv ==
  ASSUME CallsInStep, RxInv, NEW t \in Readers, ReadEnable(t)
  PROVE  CallsInStep' /\ RxInv'
<1> USE DEF ReadEnable, Goto
<1>1. CallsInStep' /\ pc'[t] = "r_check" /\ \A u \in Tasks : u # t => pc'[u] = pc[u]
  <2>1. "r_check" \in ReadPC /\ t \in Tasks /\ t \notin Writers
    BY Sizes DEF ReadPC, Reading
  <2> QED
    BY <2>1, OneMoves DEF CallsInStep
<1>2. RxTypes'
  BY DEF RxInv, RxTypes
<1>3. \A u \in Readers : u # t => pc'[u] = pc[u]
  BY <1>1, Sizes
<1>4. \A u \in Readers : pc[u] = "r_wait" => recv'.head = recv'.tail /\ rxint' /\ recvsem' = 0
  BY DEF RxInv, NoStalledReader
<1>5. "r_check" \in Reading
  BY DEF Reading
<1>6. rlock = t /\ rlock' = t
  BY ReaderHolds DEF Reading
<1> QED
  BY <1>1, <1>2, <1>3, <1>4, <1>5, <1>6, ReaderStep

LEMMA ReadInterruptedInv ==
  ASSUME CallsInStep, RxInv, NEW t \in Readers, ReadInterrupted(t)
  PROVE  CallsInStep' /\ RxInv'
<1> USE DEF ReadInterrupted, Goto, rxVars
<1>1. CallsInStep' /\ pc'[t] = "r_eintr" /\ \A u \in Tasks : u # t => pc'[u] = pc[u]
  <2>1. "r_eintr" \in ReadPC /\ t \in Tasks /\ t \notin Writers
    BY Sizes DEF ReadPC, Reading
  <2>2. signals' \in 0 .. MaxSignals
    BY UartAssumption DEF CallsInStep
  <2> QED
    BY <2>1, <2>2, OneMoves DEF CallsInStep
<1>2. RxTypes'
  BY DEF RxInv, RxTypes
<1>3. \A u \in Readers : u # t => pc'[u] = pc[u]
  BY <1>1, Sizes
<1>4. \A u \in Readers : ReaderInStep(u)'
  <2> TAKE u \in Readers
  <2>1. ReaderInStep(u)
    BY DEF RxInv
  <2>2. pc'[u] \in Reading <=> pc[u] \in Reading
    BY <1>1, <1>3 DEF Reading
  <2>3. pc'[u] \in {"r_take", "r_tail"} => \A v \in Readers : pc'[v] # "r_wait"
    BY <1>1, <1>3, <2>1 DEF ReaderInStep
  <2> QED
    BY <2>1, <2>2, <2>3 DEF ReaderInStep
<1>5. NoStalledReader'
  BY <1>1, <1>3 DEF RxInv, NoStalledReader
<1> QED
  BY <1>1, <1>2, <1>4, <1>5 DEF RxInv

LEMMA FlushInv ==
  ASSUME CallsInStep, RxInv, NEW t \in Readers, Flush(t)
  PROVE  CallsInStep' /\ RxInv'
<1> USE DEF Flush
<1>1. CallsInStep'
  <2>1. load' \in Load
    BY LoadCounts DEF CallsInStep
  <2> QED
    BY <2>1 DEF CallsInStep
<1>2. /\ recv' \in Buffer(RecvSize, Int)
      /\ recv'.head = recv.head /\ recv'.tail = recv.head /\ recv'.buffer = recv.buffer
  BY DEF RxInv, RxTypes, Buffer
<1>3. RxTypes'
  <2>1. recv \in Buffer(RecvSize, Int) /\ taken \in Seq(Int)
    BY DEF RxInv, RxTypes
  <2>2. Contents(recv, RecvSize) \in Seq(Int)
    BY <2>1, ContentsIs, Sizes
  <2>3. taken' \in Seq(Int)
    BY <2>1, <2>2, ConcatProperties
  <2> QED
    BY <1>2, <2>3 DEF RxInv, RxTypes
<1>4. \A u \in Readers : ReaderInStep(u)'
  BY DEF RxInv, ReaderInStep
<1>5. NoStalledReader'
  BY <1>2 DEF RxInv, NoStalledReader
<1> QED
  BY <1>1, <1>3, <1>4, <1>5 DEF RxInv

\* uart_recvchars: everybody who waits is woken.
LEMMA RecvInterruptInv ==
  ASSUME CallsInStep, RxInv, RecvInterrupt
  PROVE  CallsInStep' /\ RxInv'
<1> USE DEF RecvInterrupt
<1>1. CallsInStep' /\ \A u \in Tasks : pc'[u] = IF pc[u] = "r_wait" THEN "r_relock" ELSE pc[u]
  <2>1. "r_relock" \in ReadPC /\ "r_wait" \notin WritePC
    BY DEF WritePC, ReadPC, Reading, Writing, Putting
  <2> QED
    BY <2>1, WakeupMoves
<1>2. RxTypes'
  <2>1. recv \in Buffer(RecvSize, Int) /\ stored \in Seq(Int) /\ rdr \in Int
    BY DEF RxInv, RxTypes
  <2>2. recv' \in Buffer(RecvSize, Int) /\ stored' \in Seq(Int)
    <3>1. CASE Succ(recv.head, RecvSize) = recv.tail
      BY <2>1, <3>1 DEF Received
    <3>2. CASE Succ(recv.head, RecvSize) # recv.tail
      <4>1. Succ(recv.head, RecvSize) \in 0 .. RecvSize - 1
        BY <2>1, SuccIs, Sizes DEF Buffer
      <4>2. /\ recv' = [recv EXCEPT !.head = Succ(recv.head, RecvSize), !.buffer[recv.head] = rdr]
            /\ stored' = Append(stored, rdr)
        BY <3>2 DEF Received
      <4>3. recv' \in Buffer(RecvSize, Int)
        BY <2>1, <4>1, <4>2 DEF Buffer
      <4>4. stored' \in Seq(Int)
        BY <2>1, <4>2, AppendProperties
      <4> QED
        BY <4>3, <4>4
    <3> QED
      BY <3>1, <3>2
  <2>3. /\ rdr' = 0 /\ ore' = FALSE /\ recvsem' = 1
        /\ UNCHANGED <<rlock, rxint, tail, arrived, taken>>
    OBVIOUS
  <2> HIDE DEF RecvInterrupt
  <2>4. /\ rlock' \in Readers \cup {Nobody} /\ rxint' \in BOOLEAN /\ arrived' \in Nat
        /\ tail' \in [Readers -> 0 .. RecvSize - 1] /\ taken' \in Seq(Int)
    BY <2>3 DEF RxInv, RxTypes
  <2>5. recvsem' \in 0 .. 1 /\ rdr' \in Nat
    BY <2>3, SMT
  <2>6. ore' \in BOOLEAN
    BY <2>3, Zenon
  <2> QED
    BY <2>2, <2>4, <2>5, <2>6 DEF RxTypes
<1>3. \A u \in Readers : pc'[u] # "r_wait"
  BY <1>1, Sizes
<1>4. \A u \in Readers : ReaderInStep(u)'
  <2> TAKE u \in Readers
  <2>1. ReaderInStep(u)
    BY DEF RxInv
  <2>2. pc'[u] \in Reading <=> pc[u] \in Reading
    BY <1>1, Sizes DEF Reading
  <2> QED
    BY <1>3, <2>1, <2>2 DEF ReaderInStep
<1>5. NoStalledReader'
  BY <1>3 DEF NoStalledReader
<1> QED
  BY <1>1, <1>2, <1>4, <1>5 DEF RxInv

LEMMA ArriveInv ==
  ASSUME CallsInStep, RxInv, Arrive
  PROVE  CallsInStep' /\ RxInv'
<1> USE DEF Arrive
<1>1. CallsInStep'
  BY DEF CallsInStep
<1>2. rdr' \in Nat /\ arrived' \in Nat
  BY DEF RxInv, RxTypes
<1>3. ore' \in BOOLEAN
  <2>1. ore \in BOOLEAN /\ (ore' = ore \/ ore' = TRUE)
    BY DEF RxInv, RxTypes
  <2> QED
    BY <2>1, Zenon
<1>4. UNCHANGED <<recv, rlock, recvsem, rxint, tail, stored, taken>> /\ pc' = pc
  OBVIOUS
<1> HIDE DEF Arrive
<1> QED
  BY <1>1, <1>2, <1>3, <1>4, RxFrame

-----------------------------------------------------------------------------
(* The two sides together                                                  *)

\* A writer leaves the receive side alone, and so does the TX interrupt, but for
\* the byte in the receive register.
LEMMA WriterElsewhere ==
  ASSUME CallsInStep, NEW t \in Writers, WriteStep(t) \/ PutInterrupted(t)
  PROVE  /\ UNCHANGED rxVars /\ load' = load
         /\ \A u \in Readers : pc'[u] = pc[u] /\ ret'[u] = ret[u]
<1>1. UNCHANGED rxVars /\ load' = load
  BY DEF WriteStep, WriteLock, WriteStart, PutCheck, PutStore, PutHead, PutWait, PutWoken,
         PutInterrupted, PutAbort, WriteEnd, WriteReturn
<1>2. \E l : pc' = [pc EXCEPT ![t] = l]
  <2>1. CASE WriteLock(t) \/ WriteStart(t) \/ PutStore(t) \/ PutWoken(t) \/ PutInterrupted(t)
             \/ PutAbort(t) \/ WriteEnd(t) \/ WriteReturn(t)
    BY <2>1 DEF WriteLock, WriteStart, PutStore, PutWoken, PutInterrupted, PutAbort, WriteEnd,
                WriteReturn, Goto
  <2>2. CASE PutCheck(t) \/ PutHead(t)
    BY <2>2 DEF PutCheck, PutHead
  <2>3. CASE PutWait(t)
    BY <2>3 DEF PutWait
  <2> QED
    BY <2>1, <2>2, <2>3 DEF WriteStep
<1>3. \E x : ret' = ret \/ ret' = [ret EXCEPT ![t] = x]
  BY DEF WriteStep, WriteLock, WriteStart, PutCheck, PutStore, PutHead, PutWait, PutWoken,
         PutInterrupted, PutAbort, WriteEnd, WriteReturn
<1>4. \A u \in Readers : u # t /\ u \in Tasks
  BY Sizes
<1>5. pc \in [Tasks -> WritePC \cup ReadPC] /\ ret \in [Tasks -> Int]
  BY DEF CallsInStep
<1> QED
  BY <1>1, <1>2, <1>3, <1>4, <1>5

\* A reader leaves the transmit side alone.
LEMMA ReaderElsewhere ==
  ASSUME CallsInStep, NEW t \in Readers,
         ReadStep(t) \/ ReadLock(t) \/ Flush(t) \/ ReadInterrupted(t)
  PROVE  /\ UNCHANGED txVars /\ load'.onlcr = load.onlcr
         /\ \A u \in Writers : pc'[u] = pc[u]
<1>1. UNCHANGED txVars
  BY DEF ReadStep, ReadCheck, ReadTake, ReadTail, ReadWait, ReadEnable, ReadRelock, ReadAbort,
         ReadReturn, ReadLock, Flush, ReadInterrupted
<1>2. load'.onlcr = load.onlcr
  <2>1. load \in Load
    BY DEF CallsInStep
  <2>2. CASE ReadLock(t)
    <3>1. load.reads[t] > 0 /\ load' = [load EXCEPT !.reads[t] = @ - 1]
      BY <2>2 DEF ReadLock
    <3> QED
      BY <2>1, <3>1, LoadCounts
  <2>3. CASE Flush(t)
    <3>1. load.flushes[t] > 0 /\ load' = [load EXCEPT !.flushes[t] = @ - 1]
      BY <2>3 DEF Flush
    <3> QED
      BY <2>1, <3>1, LoadCounts
  <2>4. CASE ReadStep(t) \/ ReadInterrupted(t)
    <3>1. load' = load
      BY <2>4 DEF ReadStep, ReadCheck, ReadTake, ReadTail, ReadWait, ReadEnable, ReadRelock,
                  ReadAbort, ReadReturn, ReadInterrupted
    <3> QED
      BY <3>1
  <2> QED
    BY <2>2, <2>3, <2>4
<1>3. pc' = pc \/ \E l : pc' = [pc EXCEPT ![t] = l]
  <2>1. CASE Flush(t)
    BY <2>1 DEF Flush
  <2>2. CASE ReadCheck(t)
    BY <2>2 DEF ReadCheck
  <2>3. CASE ReadWait(t)
    BY <2>3 DEF ReadWait
  <2>4. CASE ReadTake(t) \/ ReadTail(t) \/ ReadEnable(t) \/ ReadRelock(t) \/ ReadAbort(t)
             \/ ReadReturn(t) \/ ReadLock(t) \/ ReadInterrupted(t)
    BY <2>4 DEF ReadTake, ReadTail, ReadEnable, ReadRelock, ReadAbort, ReadReturn, ReadLock,
                ReadInterrupted, Goto
  <2> QED
    BY <2>1, <2>2, <2>3, <2>4 DEF ReadStep
<1>4. \A u \in Writers : u # t /\ u \in Tasks
  BY Sizes
<1>5. pc \in [Tasks -> WritePC \cup ReadPC]
  BY DEF CallsInStep
<1> QED
  BY <1>1, <1>2, <1>3, <1>4, <1>5

\* An interrupt wakes only the waiters of its own side.
LEMMA InterruptsElsewhere ==
  ASSUME CallsInStep
  PROVE  /\ XmitInterrupt => /\ UNCHANGED <<load, ret, recv, rlock, recvsem, rxint, tail,
                                            arrived, stored, taken>>
                             /\ \A u \in Readers : pc'[u] = pc[u]
         /\ Shift => UNCHANGED rxVars /\ UNCHANGED <<load, pc, ret>>
         /\ RecvInterrupt => UNCHANGED <<load, txVars>> /\ \A u \in Writers : pc'[u] = pc[u]
         /\ Arrive => UNCHANGED <<load, pc, ret, txVars>>
<1>1. \A u \in Readers : u \in Tasks /\ pc[u] # "w_wait"
  BY Sizes DEF CallsInStep, ReadPC, Reading
<1>2. \A u \in Writers : u \in Tasks /\ pc[u] # "r_wait"
  BY Sizes DEF CallsInStep, WritePC, Writing, Putting
<1>3. ASSUME XmitInterrupt
      PROVE  \A u \in Readers : pc'[u] = pc[u]
  <2>1. Wakeup("w_wait", "w_woken") \/ pc' = pc
    BY <1>3 DEF XmitInterrupt, DataSent
  <2> QED
    BY <1>1, <2>1 DEF Wakeup
<1>4. ASSUME RecvInterrupt
      PROVE  \A u \in Writers : pc'[u] = pc[u]
  BY <1>2, <1>4 DEF RecvInterrupt, Wakeup
<1>5. XmitInterrupt => UNCHANGED <<load, ret, recv, rlock, recvsem, rxint, tail, arrived,
                                   stored, taken>>
  BY DEF XmitInterrupt
<1>6. /\ Shift => UNCHANGED rxVars /\ UNCHANGED <<load, pc, ret>>
      /\ Arrive => UNCHANGED <<load, pc, ret, txVars>>
      /\ RecvInterrupt => UNCHANGED <<load, txVars>>
  BY DEF Shift, Arrive, RecvInterrupt
<1> QED
  BY <1>3, <1>4, <1>5, <1>6

\* The inductive invariant.
UartInv == CallsInStep /\ TxInv /\ RxInv

LEMMA EmptyIs ==
  ASSUME NEW N \in Nat \ {0}, NEW S, NEW x \in S
  PROVE  /\ EmptyBuffer(N, x) \in Buffer(N, S)
         /\ EmptyBuffer(N, x).head = EmptyBuffer(N, x).tail
         /\ Contents(EmptyBuffer(N, x), N) = <<>>
<1>1. EmptyBuffer(N, x) \in Buffer(N, S) /\ EmptyBuffer(N, x).head = EmptyBuffer(N, x).tail
  BY DEF EmptyBuffer, Buffer
<1> DEFINE b == EmptyBuffer(N, x)
<1> HIDE DEF b
<1>2. b \in Buffer(N, S) /\ b.head = b.tail
  BY <1>1 DEF b
<1>3. Held(b, N) = 0
  BY <1>2, HeldIs
<1>4. Contents(b, N) \in Seq(S) /\ Len(Contents(b, N)) = 0
  BY <1>2, <1>3, ContentsIs
<1>5. Contents(b, N) = <<>>
  BY <1>4, EmptySeq
<1> QED
  BY <1>1, <1>5 DEF b

LEMMA InitInv ==
  ASSUME Init
  PROVE  UartInv
<1> USE DEF Init
<1>1. CallsInStep
  <2>1. load \in Load /\ 0 \in 0 .. MaxSignals
    BY UartAssumption
  <2>2. \A t \in Writers : pc[t] = "w_lock"
    BY Sizes
  <2>3. \A t \in Readers : pc[t] = "r_idle"
    BY Sizes
  <2>4. "w_lock" \in WritePC /\ "r_idle" \in ReadPC
    BY DEF WritePC, ReadPC
  <2>5. pc \in [Tasks -> WritePC \cup ReadPC]
    BY <2>4
  <2>6. ret \in [Tasks -> Int]
    OBVIOUS
  <2> QED
    BY <2>1, <2>2, <2>3, <2>4, <2>5, <2>6 DEF CallsInStep
<1>2. \A t \in Writers : pc[t] = "w_lock"
  BY Sizes
<1>3. \A t \in Readers : pc[t] = "r_idle"
  BY Sizes
<1>4. TxInv
  <2>1. /\ xmit \in Buffer(XmitSize, TxByte) /\ xmit.head = xmit.tail
        /\ Contents(xmit, XmitSize) = <<>>
    <3>1. <<>> \in TxByte
      BY DEF TxByte
    <3> QED
      BY <3>1, EmptyIs, Sizes
  <2>2. left \in [Writers -> Seq(Chars)]
    BY UartAssumption DEF Load
  <2>3. accepted \in Seq(TxByte) /\ wire \in Seq(TxByte) /\ Len(accepted) = 0
    BY EmptySeq
  <2>4. txint = FALSE /\ txint \in BOOLEAN /\ txe \in BOOLEAN /\ cr \in [Writers -> BOOLEAN]
    BY Zenon
  <2>5. nexthead \in [Writers -> 0 .. XmitSize - 1] /\ xmitsem \in 0 .. 1
    BY Sizes
  <2>6. TxTypes
    BY <2>1, <2>2, <2>3, <2>4, <2>5 DEF TxTypes
  <2>7. \A t \in Writers : WriterInStep(t)
    BY <1>2, Sizes DEF WriterInStep, Writing, Putting
  <2>8. NoStalledWriter
    BY <1>2 DEF NoStalledWriter
  <2>9. NoByteLost
    <3>1. wire \o Contents(xmit, XmitSize) = <<>>
      BY <2>1
    <3> QED
      BY <3>1 DEF NoByteLost
  <2>10. WritesInStep /\ WritesWhole
    BY <2>3 DEF WritesInStep, WritesWhole
  <2> QED
    BY <2>6, <2>7, <2>8, <2>9, <2>10 DEF TxInv
<1>5. RxInv
  <2>1. recv \in Buffer(RecvSize, Int)
    BY EmptyIs, Sizes
  <2>2. stored \in Seq(Int) /\ taken \in Seq(Int)
    BY EmptySeq
  <2>3. rxint \in BOOLEAN /\ ore \in BOOLEAN
    BY Zenon
  <2>4. tail \in [Readers -> 0 .. RecvSize - 1] /\ recvsem \in 0 .. 1 /\ rdr \in Nat /\ arrived \in Nat
    BY Sizes
  <2>5. RxTypes
    BY <2>1, <2>2, <2>3, <2>4 DEF RxTypes
  <2>6. \A t \in Readers : ReaderInStep(t)
    BY <1>3, Sizes DEF ReaderInStep, Reading
  <2>7. NoStalledReader
    BY <1>3 DEF NoStalledReader
  <2> QED
    BY <2>5, <2>6, <2>7 DEF RxInv
<1> QED
  BY <1>1, <1>4, <1>5 DEF UartInv

LEMMA WriterInv ==
  ASSUME UartInv, NEW t \in Writers, WriteStep(t) \/ PutInterrupted(t)
  PROVE  UartInv'
<1>1. CallsInStep /\ TxInv /\ RxInv
  BY DEF UartInv
<1>2. CallsInStep' /\ TxInv'
  BY <1>1, WriteLockInv, WriteStartInv, PutCheckInv, PutStoreInv, PutHeadInv, PutWaitInv,
     PutWokenInv, PutInterruptedInv, PutAbortInv, WriteEndInv, WriteReturnInv DEF WriteStep
<1>3. RxInv'
  <2>1. UNCHANGED rxVars /\ \A u \in Readers : pc'[u] = pc[u]
    BY <1>1, WriterElsewhere
  <2>2. rdr' \in Nat /\ arrived' \in Nat /\ ore' \in BOOLEAN
    BY <1>1, <2>1 DEF RxInv, RxTypes, rxVars
  <2> QED
    BY <1>1, <2>1, <2>2, RxFrame DEF rxVars
<1> QED
  BY <1>2, <1>3 DEF UartInv

LEMMA ReaderInv ==
  ASSUME UartInv, NEW t \in Readers,
         ReadStep(t) \/ ReadLock(t) \/ Flush(t) \/ ReadInterrupted(t)
  PROVE  UartInv'
<1>1. CallsInStep /\ TxInv /\ RxInv
  BY DEF UartInv
<1>2. CallsInStep' /\ RxInv'
  BY <1>1, ReadLockInv, ReadCheckInv, ReadTakeInv, ReadTailInv, ReadWaitInv, ReadEnableInv,
     ReadRelockInv, ReadInterruptedInv, ReadAbortInv, ReadReturnInv, FlushInv DEF ReadStep
<1>3. TxInv'
  BY <1>1, ReaderElsewhere, TxFrame
<1> QED
  BY <1>2, <1>3 DEF UartInv

LEMMA HardwareInv ==
  ASSUME UartInv, Hardware \/ Arrive
  PROVE  UartInv'
<1>1. CallsInStep /\ TxInv /\ RxInv
  BY DEF UartInv
<1>2. CASE RecvInterrupt
  <2>1. CallsInStep' /\ RxInv'
    BY <1>1, <1>2, RecvInterruptInv
  <2>2. UNCHANGED txVars /\ load'.onlcr = load.onlcr /\ \A u \in Writers : pc'[u] = pc[u]
    BY <1>1, <1>2, InterruptsElsewhere
  <2>3. TxInv'
    BY <1>1, <2>2, TxFrame
  <2> QED
    BY <2>1, <2>3 DEF UartInv
<1>3. CASE Arrive
  <2>1. CallsInStep' /\ RxInv'
    BY <1>1, <1>3, ArriveInv
  <2>2. UNCHANGED txVars /\ load'.onlcr = load.onlcr /\ \A u \in Writers : pc'[u] = pc[u]
    BY <1>1, <1>3, InterruptsElsewhere
  <2>3. TxInv'
    BY <1>1, <2>2, TxFrame
  <2> QED
    BY <2>1, <2>3 DEF UartInv
<1>4. CASE Shift
  <2>1. CallsInStep' /\ TxInv'
    BY <1>1, <1>4, ShiftInv
  <2>2. UNCHANGED rxVars /\ pc' = pc
    BY <1>1, <1>4, InterruptsElsewhere
  <2>3. rdr' \in Nat /\ arrived' \in Nat /\ ore' \in BOOLEAN
    BY <1>1, <2>2 DEF RxInv, RxTypes, rxVars
  <2>4. RxInv'
    BY <1>1, <2>2, <2>3, RxFrame DEF rxVars
  <2> QED
    BY <2>1, <2>4 DEF UartInv
<1>5. CASE XmitInterrupt
  <2>1. CallsInStep' /\ TxInv'
    BY <1>1, <1>5, XmitInterruptInv
  <2>2. /\ UNCHANGED <<recv, rlock, recvsem, rxint, tail, arrived, stored, taken>>
        /\ \A u \in Readers : pc'[u] = pc[u]
    BY <1>1, <1>5, InterruptsElsewhere
  <2>3. rdr' = rdr \/ rdr' = 0
    BY <1>5 DEF XmitInterrupt
  <2>4. ore' = ore \/ ore' = FALSE
    BY <1>5 DEF XmitInterrupt
  <2>5. rdr \in Nat /\ arrived \in Nat /\ ore \in BOOLEAN
    BY <1>1 DEF RxInv, RxTypes
  <2>6. rdr' \in Nat /\ arrived' \in Nat
    BY <2>2, <2>3, <2>5
  <2>7. ore' \in BOOLEAN
    BY <2>4, <2>5, Zenon
  <2>8. RxInv'
    BY <1>1, <2>2, <2>6, <2>7, RxFrame
  <2> QED
    BY <2>1, <2>8 DEF UartInv
<1> QED
  BY <1>2, <1>3, <1>4, <1>5 DEF Hardware

LEMMA StutterInv ==
  ASSUME UartInv, UNCHANGED vars
  PROVE  UartInv'
<1>1. CallsInStep'
  BY DEF UartInv, CallsInStep, vars
<1>2. TxInv'
  BY TxFrame DEF UartInv, vars
<1>3. RxInv'
  <2>1. rdr' \in Nat /\ arrived' \in Nat /\ ore' \in BOOLEAN
    BY DEF UartInv, RxInv, RxTypes, vars, rxVars
  <2> QED
    BY <2>1, RxFrame DEF UartInv, vars, rxVars
<1> QED
  BY <1>1, <1>2, <1>3 DEF UartInv

LEMMA StepInv ==
  ASSUME UartInv, [Next]_vars
  PROVE  UartInv'
  BY WriterInv, ReaderInv, HardwareInv, StutterInv DEF Next

-----------------------------------------------------------------------------
(* The order of the bytes received                                         *)

\* What leaves the buffer and the reads alone.
LEMMA OrderFrame ==
  ASSUME RxOrder, UNCHANGED <<load, recv, tail, stored, taken>>,
         \A u \in Readers : pc'[u] = pc[u] /\ ret'[u] = ret[u]
  PROVE  RxOrder'
<1>1. FlushInStep'
  BY DEF RxOrder, FlushInStep, LoneFlusher
<1>2. \A u \in Readers : TakeInStep(u)'
  BY DEF RxOrder, TakeInStep
<1>3. RxInOrder'
  BY DEF RxOrder, RxInOrder
<1> QED
  BY <1>1, <1>2, <1>3 DEF RxOrder

\* A read in progress: nobody else flushes.
LEMMA ReadKeepsFlush ==
  ASSUME FlushInStep, NEW t \in Readers, pc[t] # "r_idle", load' = load,
         \A u \in Readers : u # t => pc'[u] = pc[u]
  PROVE  FlushInStep'
<1>1. LoneFlusher(load)'
  BY DEF FlushInStep, LoneFlusher
<1>2. ASSUME NEW f \in Readers, load'.flushes[f] > 0, NEW u \in Readers \ {f}
      PROVE  pc'[u] = "r_idle"
  <2>1. pc[u] = "r_idle"
    BY <1>2 DEF FlushInStep
  <2> QED
    BY <2>1
<1> QED
  BY <1>1, <1>2 DEF FlushInStep

\* A step of reader t that takes nothing from the buffer.
LEMMA OrderStep ==
  ASSUME RxOrder, NEW t \in Readers, FlushInStep',
         UNCHANGED <<recv, stored, taken>>,
         \A u \in Readers : u # t => pc'[u] = pc[u] /\ ret'[u] = ret[u] /\ tail'[u] = tail[u],
         TakeInStep(t)'
  PROVE  RxOrder'
<1>1. \A u \in Readers : TakeInStep(u)'
  <2> TAKE u \in Readers
  <2>1. CASE u # t
    BY <2>1 DEF RxOrder, TakeInStep
  <2> QED
    BY <2>1
<1>2. RxInOrder'
  BY DEF RxOrder, RxInOrder
<1> QED
  BY <1>1, <1>2 DEF RxOrder

LEMMA ReadLockOrder ==
  ASSUME CallsInStep, RxOrder, NEW t \in Readers, ReadLock(t)
  PROVE  RxOrder'
<1>1. /\ load.reads[t] > 0 /\ load' = [load EXCEPT !.reads[t] = @ - 1]
      /\ UNCHANGED <<recv, stored, taken, ret, tail>>
      /\ pc[t] = "r_idle" /\ pc' = [pc EXCEPT ![t] = "r_check"]
  BY DEF ReadLock, Goto
<1>2. pc'[t] = "r_check" /\ \A u \in Readers : u # t => pc'[u] = pc[u]
  BY <1>1, Sizes DEF CallsInStep
<1>3. load'.flushes = load.flushes /\ load'.reads = [load.reads EXCEPT ![t] = @ - 1]
      /\ load.reads \in [Readers -> Nat]
  BY <1>1, LoadCounts DEF CallsInStep, Load
<1>4. ASSUME NEW f \in Readers, load'.flushes[f] > 0
      PROVE  f = t /\ \A u \in Readers \ {f} : load'.reads[u] = 0 /\ pc'[u] = "r_idle"
  <2>1. \A u \in Readers \ {f} : load.reads[u] = 0 /\ pc[u] = "r_idle"
    BY <1>3, <1>4 DEF RxOrder, FlushInStep, LoneFlusher
  <2>2. f = t
    BY <1>1, <2>1
  <2> QED
    BY <1>2, <1>3, <2>1, <2>2
<1>5. FlushInStep'
  BY <1>4 DEF FlushInStep, LoneFlusher
<1>6. TakeInStep(t)'
  BY <1>2 DEF TakeInStep
<1> QED
  BY <1>1, <1>2, <1>5, <1>6, OrderStep

\* The steps of a read that take nothing, but for the copy and the test.
LEMMA ReadQuietOrder ==
  ASSUME CallsInStep, RxOrder, NEW t \in Readers,
         ReadWait(t) \/ ReadEnable(t) \/ ReadRelock(t) \/ ReadAbort(t) \/ ReadReturn(t)
         \/ ReadInterrupted(t)
  PROVE  RxOrder'
<1>1. /\ pc \in [Tasks -> WritePC \cup ReadPC] /\ ret \in [Tasks -> Int]
      /\ \A u \in Readers : u \in Tasks
  BY Sizes DEF CallsInStep
<1>2. /\ pc[t] # "r_idle" /\ load' = load /\ UNCHANGED <<recv, stored, taken, tail>>
      /\ \E l \in {"r_check", "r_enable", "r_exit", "r_wait", "r_relock", "r_eintr", "r_idle"} :
           pc' = [pc EXCEPT ![t] = l]
  <2>1. CASE ReadWait(t)
    BY <2>1 DEF ReadWait
  <2>2. CASE ~ReadWait(t)
    BY <2>2 DEF ReadEnable, ReadRelock, ReadAbort, ReadReturn, ReadInterrupted, Goto, rxVars
  <2> QED
    BY <2>1, <2>2
<1>3. ret' = ret \/ ret' = [ret EXCEPT ![t] = -1]
  BY DEF ReadWait, ReadEnable, ReadRelock, ReadAbort, ReadReturn, ReadInterrupted
<1>4. /\ pc'[t] \notin {"r_take", "r_tail"}
      /\ \A u \in Readers : u # t => pc'[u] = pc[u]
  BY <1>1, <1>2
<1>5. \A u \in Readers : u # t => ret'[u] = ret[u] /\ tail'[u] = tail[u]
  BY <1>1, <1>2, <1>3
<1>6. FlushInStep'
  BY <1>2, <1>4, ReadKeepsFlush DEF RxOrder
<1>7. TakeInStep(t)'
  BY <1>4 DEF TakeInStep
<1> QED
  BY <1>2, <1>4, <1>5, <1>6, <1>7, OrderStep

LEMMA ReadCheckOrder ==
  ASSUME CallsInStep, RxInv, RxOrder, NEW t \in Readers, ReadCheck(t)
  PROVE  RxOrder'
<1>1. /\ pc[t] = "r_check" /\ load' = load /\ ret' = ret
      /\ tail' = [tail EXCEPT ![t] = recv.tail]
      /\ pc' = [pc EXCEPT ![t] = IF recv.head # recv.tail THEN "r_take" ELSE "r_crit"]
      /\ UNCHANGED <<recv, stored, taken>>
  BY DEF ReadCheck
<1>2. /\ pc \in [Tasks -> WritePC \cup ReadPC] /\ tail \in [Readers -> 0 .. RecvSize - 1]
      /\ \A u \in Readers : u \in Tasks
  BY Sizes DEF CallsInStep, RxInv, RxTypes
<1>3. \A u \in Readers : u # t => pc'[u] = pc[u] /\ ret'[u] = ret[u] /\ tail'[u] = tail[u]
  BY <1>1, <1>2
<1>4. FlushInStep'
  BY <1>1, <1>3, ReadKeepsFlush DEF RxOrder
<1>5. TakeInStep(t)'
  BY <1>1, <1>2 DEF TakeInStep
<1> QED
  BY <1>1, <1>3, <1>4, <1>5, OrderStep

LEMMA ReadTakeOrder ==
  ASSUME CallsInStep, RxOrder, NEW t \in Readers, ReadTake(t)
  PROVE  RxOrder'
<1>1. /\ pc[t] = "r_take" /\ load' = load /\ ret' = [ret EXCEPT ![t] = recv.buffer[tail[t]]]
      /\ pc' = [pc EXCEPT ![t] = "r_tail"]
      /\ UNCHANGED <<recv, stored, taken, tail>>
  BY DEF ReadTake, Goto, rxVars
<1>2. /\ pc \in [Tasks -> WritePC \cup ReadPC] /\ ret \in [Tasks -> Int]
      /\ \A u \in Readers : u \in Tasks
  BY Sizes DEF CallsInStep
<1>3. \A u \in Readers : u # t => pc'[u] = pc[u] /\ ret'[u] = ret[u] /\ tail'[u] = tail[u]
  BY <1>1, <1>2
<1>4. FlushInStep'
  BY <1>1, <1>3, ReadKeepsFlush DEF RxOrder
<1>5. TakeInStep(t)'
  <2>1. tail[t] = recv.tail /\ recv.head # recv.tail
    BY <1>1 DEF RxOrder, TakeInStep
  <2>2. ret'[t] = recv.buffer[recv.tail]
    BY <1>1, <1>2, <2>1
  <2> QED
    BY <1>1, <2>1, <2>2 DEF TakeInStep
<1> QED
  BY <1>1, <1>3, <1>4, <1>5, OrderStep

\* The tail moves over the byte that was read.
LEMMA ReadTailOrder ==
  ASSUME CallsInStep, RxInv, RxOrder, NEW t \in Readers, ReadTail(t)
  PROVE  RxOrder'
<1> DEFINE s == Contents(recv, RecvSize)
           d == Contents(recv', RecvSize)
<1>1. /\ pc[t] = "r_tail" /\ load' = load /\ pc' = [pc EXCEPT ![t] = "r_exit"]
      /\ recv' = [recv EXCEPT !.tail = Succ(tail[t], RecvSize)]
      /\ taken' = Append(taken, ret[t]) /\ stored' = stored
  BY DEF ReadTail, Goto
<1>2. /\ pc \in [Tasks -> WritePC \cup ReadPC]
      /\ \A u \in Readers : u \in Tasks
  BY Sizes DEF CallsInStep
<1>3. pc'[t] = "r_exit" /\ \A u \in Readers : u # t => pc'[u] = pc[u]
  BY <1>1, <1>2
<1>4. /\ recv \in Buffer(RecvSize, Int) /\ taken \in Seq(Int)
      /\ tail[t] = recv.tail /\ recv.head # recv.tail /\ ret[t] = recv.buffer[recv.tail]
  BY <1>1 DEF RxInv, RxTypes, RxOrder, TakeInStep
<1>5. recv.tail \in 0 .. RecvSize - 1 /\ RecvSize \in Nat \ {0}
  BY <1>4, Sizes DEF Buffer
<1>6. /\ Succ(recv.tail, RecvSize) = (recv.tail + 1) % RecvSize
      /\ Succ(recv.tail, RecvSize) \in 0 .. RecvSize - 1
  BY <1>5, SuccIs
<1>7. /\ recv' \in Buffer(RecvSize, Int)
      /\ recv'.head = recv.head /\ recv'.tail = (recv.tail + 1) % RecvSize
      /\ recv'.buffer = recv.buffer
  <2>1. recv' = [recv EXCEPT !.tail = Succ(recv.tail, RecvSize)]
    BY <1>1, <1>4
  <2>2. /\ recv' \in Buffer(RecvSize, Int) /\ recv'.tail = Succ(recv.tail, RecvSize)
        /\ recv'.head = recv.head /\ recv'.buffer = recv.buffer
    BY <1>4, <1>6, <2>1 DEF Buffer
  <2> QED
    BY <1>6, <2>2
<1>8. Held(recv, RecvSize) \in Nat /\ 1 \in 1 .. Held(recv, RecvSize) /\ 1 \in 0 .. Held(recv, RecvSize)
  BY <1>4, <1>5, HeldIs
<1>9. s \in Seq(Int) /\ Len(s) = Held(recv, RecvSize) /\ s[1] = ret[t]
  <2>1. s \in Seq(Int) /\ Len(s) = Held(recv, RecvSize)
        /\ s[1] = recv.buffer[(recv.tail + 1 - 1) % RecvSize]
    BY <1>4, <1>5, <1>8, ContentsIs
  <2>2. (recv.tail + 1 - 1) % RecvSize = recv.tail
    BY <1>5
  <2> QED
    BY <1>4, <2>1, <2>2
<1>10. SubSeq(s, 1, 1) \in Seq(Int) /\ SubSeq(s, 1, 1) \o d = s
  BY <1>4, <1>5, <1>7, <1>8, TailTakes
<1>11. d \in Seq(Int)
  BY <1>5, <1>7, ContentsIs
<1> HIDE DEF s, d
<1>12. SubSeq(s, 1, 1) = <<ret[t]>> /\ ret[t] \in Int
  <2>1. ret[t] \in Int
    BY <1>2 DEF CallsInStep
  <2>2. Len(s) \in Nat /\ Len(s) >= 1
    BY <1>8, <1>9
  <2> QED
    BY <1>9, <2>1, <2>2, FirstTaken
<1>13. taken' = taken \o <<ret[t]>>
  BY <1>1, <1>4, <1>12, AppendIsConcat
<1>14. RxInOrder'
  <2>1. taken \o s = stored
    BY DEF RxOrder, RxInOrder, s
  <2>2. <<ret[t]>> \in Seq(Int) /\ <<ret[t]>> \o d = s
    BY <1>10, <1>12
  <2>3. (taken \o <<ret[t]>>) \o d = taken \o (<<ret[t]>> \o d)
    BY <1>4, <1>11, <2>2, MoveAcross
  <2>4. taken' \o d = stored'
    BY <1>1, <1>13, <2>1, <2>2, <2>3
  <2> QED
    BY <2>4 DEF RxInOrder, d
<1>15. FlushInStep'
  BY <1>1, <1>3, ReadKeepsFlush DEF RxOrder
<1>16. \A u \in Readers : TakeInStep(u)'
  <2> TAKE u \in Readers
  <2>1. CASE u # t
    <3>1. rlock = t
      BY <1>1, ReaderHolds DEF Reading
    <3>2. pc[u] \notin Reading
      BY <2>1, <3>1 DEF RxInv, ReaderInStep
    <3> QED
      BY <1>3, <2>1, <3>2 DEF TakeInStep, Reading
  <2>2. CASE u = t
    BY <1>3, <2>2 DEF TakeInStep
  <2> QED
    BY <2>1, <2>2
<1> QED
  BY <1>14, <1>15, <1>16 DEF RxOrder

\* The lone reader flushes between its reads: it takes everything.
LEMMA FlushOrder ==
  ASSUME CallsInStep, RxInv, RxOrder, NEW t \in Readers, Flush(t)
  PROVE  RxOrder'
<1> DEFINE s == Contents(recv, RecvSize)
           d == Contents(recv', RecvSize)
<1>1. /\ pc[t] = "r_idle" /\ load.flushes[t] > 0 /\ pc' = pc
      /\ load' = [load EXCEPT !.flushes[t] = @ - 1]
      /\ recv' = [recv EXCEPT !.tail = recv.head]
      /\ taken' = taken \o s /\ stored' = stored
  BY DEF Flush
<1>2. recv \in Buffer(RecvSize, Int) /\ taken \in Seq(Int) /\ RecvSize \in Nat \ {0}
  BY Sizes DEF RxInv, RxTypes
<1>3. recv' \in Buffer(RecvSize, Int) /\ recv'.head = recv'.tail
  BY <1>1, <1>2 DEF Buffer
<1>4. d = <<>>
  <2>1. Held(recv', RecvSize) = 0
    BY <1>2, <1>3, HeldIs
  <2>2. d \in Seq(Int) /\ Len(d) = 0
    BY <1>2, <1>3, <2>1, ContentsIs
  <2> QED
    BY <2>2, EmptySeq
<1>5. s \in Seq(Int)
  BY <1>2, ContentsIs
<1>6. RxInOrder'
  <2>1. taken \o s = stored
    BY DEF RxOrder, RxInOrder
  <2> HIDE DEF s, d
  <2>2. taken' \o d = taken'
    <3>1. taken' \in Seq(Int)
      BY <1>1, <1>2, <1>5, ConcatProperties
    <3> QED
      BY <1>4, <3>1, ConcatEmptySeq
  <2> QED
    BY <1>1, <2>1, <2>2 DEF RxInOrder, d
<1>7. \A u \in Readers : pc[u] = "r_idle"
  BY <1>1 DEF RxOrder, FlushInStep
<1>8. FlushInStep'
  <2>1. load'.reads = load.reads /\ load'.flushes = [load.flushes EXCEPT ![t] = @ - 1]
        /\ load.flushes \in [Readers -> Nat]
    BY <1>1, LoadCounts DEF CallsInStep, Load
  <2>2. \A f \in Readers : load'.flushes[f] > 0 => load.flushes[f] > 0
    BY <1>1, <2>1
  <2>3. LoneFlusher(load)'
    BY <2>1, <2>2 DEF RxOrder, FlushInStep, LoneFlusher
  <2> QED
    BY <1>1, <1>7, <2>3 DEF FlushInStep
<1>9. \A u \in Readers : TakeInStep(u)'
  BY <1>1, <1>7 DEF TakeInStep
<1> QED
  BY <1>6, <1>8, <1>9 DEF RxOrder

\* A byte stored is the last one, and not where the next one is read.
LEMMA RecvInterruptOrder ==
  ASSUME CallsInStep, RxInv, RxOrder, RecvInterrupt
  PROVE  RxOrder'
<1>1. /\ UNCHANGED <<load, ret, tail, taken>> /\ Received(rdr)
      /\ Wakeup("r_wait", "r_relock")
  BY DEF RecvInterrupt
<1>2. \A u \in Readers : pc'[u] = IF pc[u] = "r_wait" THEN "r_relock" ELSE pc[u]
  BY <1>1, Sizes DEF Wakeup
<1>3. FlushInStep'
  BY <1>1, <1>2 DEF RxOrder, FlushInStep, LoneFlusher
<1>4. /\ recv \in Buffer(RecvSize, Int) /\ taken \in Seq(Int) /\ RecvSize \in Nat \ {0}
      /\ rdr \in Int
  BY Sizes DEF RxInv, RxTypes
<1>5. CASE Succ(recv.head, RecvSize) = recv.tail
  <2>1. UNCHANGED <<recv, stored>>
    BY <1>1, <1>5 DEF Received
  <2>2. \A u \in Readers : TakeInStep(u)'
    BY <1>1, <1>2, <2>1 DEF RxOrder, TakeInStep
  <2>3. RxInOrder'
    BY <1>1, <2>1 DEF RxOrder, RxInOrder
  <2> QED
    BY <1>3, <2>2, <2>3 DEF RxOrder
<1>6. CASE Succ(recv.head, RecvSize) # recv.tail
  <2> DEFINE b == [recv EXCEPT !.buffer[recv.head] = rdr]
             s == Contents(recv, RecvSize)
             d == Contents(recv', RecvSize)
  <2>1. /\ recv' = [recv EXCEPT !.head = Succ(recv.head, RecvSize), !.buffer[recv.head] = rdr]
        /\ stored' = Append(stored, rdr)
    BY <1>1, <1>6 DEF Received
  <2>2. recv.head \in 0 .. RecvSize - 1 /\ recv.tail \in 0 .. RecvSize - 1
    BY <1>4 DEF Buffer
  <2>3. Succ(recv.head, RecvSize) \in 0 .. RecvSize - 1
    BY <1>4, <2>2, SuccIs
  <2>4. /\ b \in Buffer(RecvSize, Int) /\ b.head = recv.head /\ b.tail = recv.tail
        /\ b.buffer[recv.head] = rdr
        /\ \A p \in 0 .. RecvSize - 1 : p # recv.head => b.buffer[p] = recv.buffer[p]
    BY <1>4, <2>2 DEF Buffer
  <2>5. /\ recv' \in Buffer(RecvSize, Int) /\ recv'.head = Succ(recv.head, RecvSize)
        /\ recv'.tail = recv.tail /\ recv'.buffer = b.buffer
    BY <1>4, <2>1, <2>2, <2>3 DEF Buffer
  <2> HIDE DEF b
  <2>6. Contents(b, RecvSize) = s
    BY <1>4, <2>4, StoreUnseen
  <2>7. d = Append(s, rdr)
    <3>1. d = Append(Contents(b, RecvSize), b.buffer[b.head])
      BY <1>4, <1>6, <2>4, <2>5, HeadAppends
    <3> QED
      BY <2>4, <2>6, <3>1
  <2>8. s \in Seq(Int)
    BY <1>4, ContentsIs
  <2>9. RxInOrder'
    <3>1. taken \o s = stored
      BY DEF RxOrder, RxInOrder
    <3> HIDE DEF s, d
    <3>2. taken \o Append(s, rdr) = Append(taken \o s, rdr)
      BY <1>4, <2>8, AppendInside
    <3>3. taken' \o d = stored'
      BY <1>1, <2>1, <2>7, <3>1, <3>2
    <3> QED
      BY <3>3 DEF RxInOrder, d
  <2>10. \A u \in Readers : TakeInStep(u)'
    <3> TAKE u \in Readers
    <3>1. pc'[u] \in {"r_take", "r_tail"} => pc[u] = pc'[u]
      BY <1>2
    <3>2. recv.head # recv.tail => recv'.buffer[recv'.tail] = recv.buffer[recv.tail]
      BY <2>2, <2>4, <2>5
    <3>3. recv'.head # recv'.tail
      BY <1>6, <2>5
    <3>4. TakeInStep(u)
      BY DEF RxOrder
    <3> QED
      BY <1>1, <2>5, <3>1, <3>2, <3>3, <3>4 DEF TakeInStep
  <2> QED
    BY <1>3, <2>9, <2>10 DEF RxOrder
<1> QED
  BY <1>5, <1>6

LEMMA StepOrder ==
  ASSUME UartInv, RxOrder, [Next]_vars
  PROVE  RxOrder'
<1>1. CallsInStep /\ RxInv
  BY DEF UartInv
<1>2. ASSUME NEW t \in Writers, WriteStep(t) \/ PutInterrupted(t)
      PROVE  RxOrder'
  BY <1>1, <1>2, WriterElsewhere, OrderFrame DEF rxVars
<1>3. ASSUME NEW t \in Readers, ReadStep(t) \/ ReadLock(t) \/ Flush(t) \/ ReadInterrupted(t)
      PROVE  RxOrder'
  BY <1>1, <1>3, ReadLockOrder, ReadQuietOrder, ReadCheckOrder, ReadTakeOrder, ReadTailOrder,
     FlushOrder DEF ReadStep
<1>4. CASE XmitInterrupt \/ Shift \/ Arrive
  <2>1. /\ UNCHANGED <<load, recv, tail, stored, taken>>
        /\ \A u \in Readers : pc'[u] = pc[u] /\ ret'[u] = ret[u]
    <3>1. CASE XmitInterrupt
      BY <1>1, <3>1, InterruptsElsewhere
    <3>2. CASE Shift \/ Arrive
      BY <3>2 DEF Shift, Arrive, rxVars
    <3> QED
      BY <1>4, <3>1, <3>2
  <2> QED
    BY <2>1, OrderFrame
<1>5. CASE RecvInterrupt
  BY <1>1, <1>5, RecvInterruptOrder
<1>6. CASE UNCHANGED vars
  BY <1>6, OrderFrame DEF vars, rxVars
<1> QED
  BY <1>2, <1>3, <1>4, <1>5, <1>6 DEF Next, Hardware

-----------------------------------------------------------------------------
(* The count that a write returns                                          *)

\* A set of numbers that is not empty has a least one.
LEMMA Least ==
  ASSUME NEW T, T \subseteq Nat, T # {}
  PROVE  \E x \in T : \A y \in T : ~(y < x)
<1>1. PICK x \in T : \A y \in T : ~(<<y, x>> \in OpToRel(<, Nat))
  BY NatLessThanWellFounded, WFMin, Zenon
<1>2. \A y \in T : y < x => <<y, x>> \in OpToRel(<, Nat)
  BY DEF OpToRel
<1> QED
  BY <1>1, <1>2, Zenon

\* The function that puts the first n characters, for strings up to length m.
Puts(g, s, onlcr, m) ==
  g = [n \in 0 .. m |-> IF n = 0 THEN <<>> ELSE g[n - 1] \o Cook(s[n], onlcr)]

\* The two cases of the definition.
LEMMA PutsIs ==
  ASSUME NEW s, NEW onlcr, NEW m \in Nat, NEW g, Puts(g, s, onlcr, m)
  PROVE  g[0] = <<>> /\ \A n \in 1 .. m : g[n] = g[n - 1] \o Cook(s[n], onlcr)
<1>1. \A n \in 0 .. m : g[n] = IF n = 0 THEN <<>> ELSE g[n - 1] \o Cook(s[n], onlcr)
  BY DEF Puts
<1>2. 0 \in 0 .. m
  OBVIOUS
<1>3. ASSUME NEW n \in 1 .. m
      PROVE  g[n] = g[n - 1] \o Cook(s[n], onlcr)
  <2>1. n \in 0 .. m /\ n # 0
    OBVIOUS
  <2> DEFINE x == g[n - 1] \o Cook(s[n], onlcr)
  <2>2. g[n] = IF n = 0 THEN <<>> ELSE x
    BY <1>1, <2>1
  <2> HIDE DEF x
  <2>3. g[n] = x
    BY <2>1, <2>2
  <2> QED
    BY <2>3 DEF x
<1> QED
  BY <1>1, <1>2, <1>3

LEMMA PutsLonger ==
  ASSUME NEW s, NEW onlcr, NEW m \in Nat, NEW g, Puts(g, s, onlcr, m)
  PROVE  \E h : Puts(h, s, onlcr, m + 1)
<1> DEFINE h == [n \in 0 .. m + 1 |-> IF n = m + 1 THEN g[m] \o Cook(s[m + 1], onlcr) ELSE g[n]]
           f == [n \in 0 .. m + 1 |-> IF n = 0 THEN <<>> ELSE h[n - 1] \o Cook(s[n], onlcr)]
<1>1. ASSUME NEW n \in 0 .. m + 1
      PROVE  h[n] = f[n]
  <2>1. CASE n = m + 1
    <3>1. h[n] = g[m] \o Cook(s[m + 1], onlcr)
      BY <2>1
    <3>2. f[n] = h[n - 1] \o Cook(s[n], onlcr)
      BY <2>1
    <3>3. n - 1 = m /\ h[m] = g[m]
      BY <2>1
    <3> QED
      BY <2>1, <3>1, <3>2, <3>3
  <2>2. CASE n \in 1 .. m
    <3>1. h[n] = g[n] /\ n - 1 \in 0 .. m /\ n - 1 # m + 1
      BY <2>2
    <3>2. f[n] = h[n - 1] \o Cook(s[n], onlcr) /\ h[n - 1] = g[n - 1]
      BY <2>2, <3>1
    <3>3. g[n] = g[n - 1] \o Cook(s[n], onlcr)
      BY <2>2, PutsIs
    <3> QED
      BY <3>1, <3>2, <3>3
  <2>3. CASE n = 0
    <3>1. h[n] = g[0] /\ f[n] = <<>>
      BY <2>3
    <3>2. g[0] = <<>>
      BY DEF Puts
    <3> QED
      BY <3>1, <3>2
  <2> QED
    BY <2>1, <2>2, <2>3
<1>2. h = f
  <2> HIDE DEF h
  <2>1. h = [n \in 0 .. m + 1 |-> h[n]]
    BY DEF h
  <2>2. f = [n \in 0 .. m + 1 |-> f[n]]
    OBVIOUS
  <2> HIDE DEF f
  <2> QED
    BY <1>1, <2>1, <2>2
<1> QED
  BY <1>2 DEF Puts

LEMMA PutsExists ==
  ASSUME NEW s, NEW onlcr, NEW m \in Nat
  PROVE  \E g : Puts(g, s, onlcr, m)
<1> DEFINE T == {n \in Nat : ~ \E g : Puts(g, s, onlcr, n)}
<1>1. ASSUME T # {}
      PROVE  FALSE
  <2>1. PICK x \in T : \A y \in T : ~(y < x)
    BY <1>1, Least
  <2>2. CASE x = 0
    <3> DEFINE g == [n \in 0 .. 0 |-> <<>>]
    <3>1. Puts(g, s, onlcr, 0)
      BY DEF Puts
    <3> QED
      BY <2>2, <3>1
  <2>3. CASE x # 0
    <3>1. x - 1 \in Nat /\ x - 1 < x /\ (x - 1) + 1 = x
      BY <2>3
    <3>2. PICK g : Puts(g, s, onlcr, x - 1)
      BY <2>1, <3>1
    <3>3. \E h : Puts(h, s, onlcr, (x - 1) + 1)
      BY <3>1, <3>2, PutsLonger
    <3> QED
      BY <3>1, <3>3
  <2> QED
    BY <2>2, <2>3
<1> QED
  BY <1>1

\* What the recursive function computes.
LEMMA CookedIs ==
  ASSUME NEW s, NEW onlcr, Len(s) \in Nat
  PROVE  /\ Cooked(s, onlcr)[0] = <<>>
         /\ \A n \in 1 .. Len(s) :
              Cooked(s, onlcr)[n] = Cooked(s, onlcr)[n - 1] \o Cook(s[n], onlcr)
<1> DEFINE c == Cooked(s, onlcr)
<1>1. c = CHOOSE g : Puts(g, s, onlcr, Len(s))
  BY DEF Cooked, Puts
<1>2. Puts(c, s, onlcr, Len(s))
  BY <1>1, PutsExists
<1> HIDE DEF c
<1>3. c[0] = <<>> /\ \A n \in 1 .. Len(s) : c[n] = c[n - 1] \o Cook(s[n], onlcr)
  BY <1>2, PutsIs
<1> QED
  BY <1>3 DEF c

\* What t has put so far, and the strengthening of ShortWriteExact: left is the
\* rest of the string, what has been put is on its way, and the '\r' is put only
\* before a newline.
Whole(t) == Cooked(load.strings[t], load.onlcr)[Written(t)]
Put(t)   == IF cr[t] THEN Append(Whole(t), CR) ELSE Whole(t)

CountInStep(t) ==
  /\ Written(t) \in Nat
  /\ \A i \in 1 .. Len(left[t]) : left[t][i] = load.strings[t][Written(t) + i]
  /\ cr[t] => load.onlcr /\ left[t] # <<>> /\ Head(left[t]) = NL
  /\ Whole(t) \in Seq(Chars \cup {CR})
  /\ OnTheWay(t, Put(t))
  /\ pc[t] = "w_done" => ret[t] = IF Written(t) > 0 THEN Written(t) ELSE -1

CountInv == \A t \in Writers : CountInStep(t)

\* The writer's next character, and one of another writer.
LEMMA OwnGrows ==
  ASSUME NEW t, NEW c, NEW S, NEW q \in Seq(S), c \in S, OnTheWay(t, q),
         Len(accepted) \in Nat, Len(accepted') = Len(accepted) + 1,
         \A i \in 1 .. Len(accepted) : accepted'[i] = accepted[i],
         accepted'[Len(accepted) + 1] = <<t, c>>,
         \A i, j \in 1 .. Len(accepted) :
           i < j /\ accepted[i][1] = t => accepted[j][1] = t
  PROVE  OnTheWay(t, Append(q, c))'
<1> DEFINE n == Len(accepted)
           a == Append(q, c)
           m == Len(q)
<1>1. PICK k \in 0 .. n : /\ k + m <= n
                          /\ \A i \in 1 .. n : IF i - k \in 1 .. m THEN accepted[i] = <<t, q[i - k]>>
                                                                   ELSE accepted[i][1] # t
  BY DEF OnTheWay
<1>2. m \in Nat /\ Len(a) = m + 1 /\ a[m + 1] = c /\ \A i \in 1 .. m : a[i] = q[i]
  BY AppendIs
<1> HIDE DEF a, m
<1>3. m = 0 \/ k + m = n
  <2> SUFFICES ASSUME m # 0, k + m < n PROVE FALSE
    BY <1>1, <1>2
  <2> DEFINE e == k + m
  <2>1. /\ e \in 1 .. n /\ e - k \in 1 .. m
        /\ e + 1 \in 1 .. n /\ e + 1 - k \notin 1 .. m /\ e < e + 1
    BY <1>1, <1>2
  <2> HIDE DEF e
  <2>2. accepted[e] = <<t, q[e - k]>>
    BY <1>1, <2>1
  <2>3. accepted[e + 1][1] # t
    BY <1>1, <2>1
  <2>4. accepted[e][1] = t
    BY <2>2
  <2> QED
    BY <2>1, <2>3, <2>4
<1> DEFINE k2 == IF m = 0 THEN n ELSE k
<1>4. k2 \in 0 .. n /\ k2 + m = n
  BY <1>1, <1>2, <1>3
<1>5. \A i \in 1 .. n : IF i - k2 \in 1 .. m THEN accepted[i] = <<t, q[i - k2]>>
                                            ELSE accepted[i][1] # t
  <2>1. CASE m = 0
    BY <1>1, <1>2, <2>1
  <2>2. CASE m # 0
    BY <1>1, <2>2
  <2> QED
    BY <2>1, <2>2
<1> HIDE DEF k2, n
<1>6. ASSUME NEW i \in 1 .. n + 1
      PROVE  i - k2 \in 1 .. m + 1 => accepted'[i] = <<t, a[i - k2]>>
  <2>1. CASE i = n + 1
    <3>1. i - k2 = m + 1
      BY <1>2, <1>4, <2>1
    <3>2. accepted'[i] = <<t, c>>
      BY <2>1 DEF n
    <3> QED
      BY <1>2, <3>1, <3>2
  <2>2. CASE i \in 1 .. n
    <3>1. accepted'[i] = accepted[i]
      BY <2>2 DEF n
    <3>2. i - k2 \in 1 .. m + 1 => i - k2 \in 1 .. m
      BY <1>2, <1>4, <2>2
    <3> QED
      BY <1>2, <1>5, <2>2, <3>1, <3>2
  <2>3. n \in Nat
    BY DEF n
  <2> QED
    BY <2>1, <2>2, <2>3
<1>7. ASSUME NEW i \in 1 .. n + 1
      PROVE  i - k2 \notin 1 .. m + 1 => accepted'[i][1] # t
  <2>1. n \in Nat
    BY DEF n
  <2>2. CASE i = n + 1
    BY <1>2, <1>4, <2>1, <2>2
  <2>3. CASE i \in 1 .. n
    <3>1. accepted'[i] = accepted[i]
      BY <2>3 DEF n
    <3>2. i - k2 \notin 1 .. m + 1 => i - k2 \notin 1 .. m
      BY <1>2, <1>4, <2>1, <2>3
    <3> QED
      BY <1>5, <2>3, <3>1, <3>2
  <2> QED
    BY <2>1, <2>2, <2>3
<1>8. k2 \in 0 .. n + 1 /\ k2 + (m + 1) <= n + 1
  BY <1>2, <1>4 DEF n
<1>9. Len(accepted') = n + 1 /\ Len(a) = m + 1
  BY <1>2 DEF n
<1>10. OnTheWay(t, a)'
  BY <1>6, <1>7, <1>8, <1>9 DEF OnTheWay
<1> QED
  BY <1>10 DEF a

LEMMA OtherGrows ==
  ASSUME NEW t, NEW u, u # t, NEW c, NEW q, Len(q) \in Nat, OnTheWay(u, q),
         Len(accepted) \in Nat, Len(accepted') = Len(accepted) + 1,
         \A i \in 1 .. Len(accepted) : accepted'[i] = accepted[i],
         accepted'[Len(accepted) + 1] = <<t, c>>
  PROVE  OnTheWay(u, q)'
<1> DEFINE n == Len(accepted)
           m == Len(q)
<1>1. PICK k \in 0 .. n : /\ k + m <= n
                          /\ \A i \in 1 .. n : IF i - k \in 1 .. m THEN accepted[i] = <<u, q[i - k]>>
                                                                   ELSE accepted[i][1] # u
  BY DEF OnTheWay
<1> HIDE DEF m
<1>2. m \in Nat
  BY DEF m
<1>3. ASSUME NEW i \in 1 .. n + 1
      PROVE  IF i - k \in 1 .. m THEN accepted'[i] = <<u, q[i - k]>> ELSE accepted'[i][1] # u
  <2>1. CASE i = n + 1
    <3>1. i - k \notin 1 .. m
      BY <1>1, <1>2, <2>1
    <3>2. accepted'[i][1] = t
      BY <2>1
    <3> QED
      BY <3>1, <3>2
  <2>2. CASE i \in 1 .. n
    BY <1>1, <2>2
  <2> QED
    BY <2>1, <2>2
<1>4. k \in 0 .. n + 1 /\ k + m <= n + 1
  BY <1>1, <1>2
<1> QED
  BY <1>3, <1>4 DEF OnTheWay, m

LEMMA StillOnTheWay ==
  ASSUME NEW t, NEW q, OnTheWay(t, q), accepted' = accepted
  PROVE  OnTheWay(t, q)'
  BY DEF OnTheWay

\* What leaves the writes and what they have put alone.
LEMMA CountFrame ==
  ASSUME CountInv, UNCHANGED <<left, cr, accepted>>,
         load'.strings = load.strings, load'.onlcr = load.onlcr,
         \A t \in Writers : pc'[t] = "w_done" => pc[t] = "w_done" /\ ret'[t] = ret[t]
  PROVE  CountInv'
<1> SUFFICES ASSUME NEW t \in Writers
             PROVE  CountInStep(t)'
  BY DEF CountInv
<1>1. CountInStep(t)
  BY DEF CountInv
<1>2. Written(t)' = Written(t)
  BY DEF Written
<1>3. Whole(t)' = Whole(t) /\ Put(t)' = Put(t)
  BY <1>2 DEF Put, Whole
<1>4. OnTheWay(t, Put(t))'
  BY <1>1, <1>3, StillOnTheWay DEF CountInStep
<1> QED
  BY <1>1, <1>2, <1>3, <1>4 DEF CountInStep

LEMMA TwoMore ==
  ASSUME NEW S, NEW q \in Seq(S), NEW a \in S, NEW b \in S
  PROVE  q \o <<a, b>> = Append(Append(q, a), b)
<1>1. Append(q, a) = q \o <<a>> /\ q \o <<a>> \in Seq(S)
  BY AppendIsConcat, ConcatProperties
<1>2. Append(q \o <<a>>, b) = (q \o <<a>>) \o <<b>>
  BY <1>1, AppendIsConcat
<1>3. (q \o <<a>>) \o <<b>> = q \o (<<a>> \o <<b>>)
  BY ConcatAssociative
<1>4. <<a>> \o <<b>> = <<a, b>>
  <2>1. Append(<<a>>, b) = <<a>> \o <<b>>
    BY AppendIsConcat
  <2> DEFINE p == Append(<<a>>, b)
             d == <<a, b>>
             e == <<a>>
  <2>2. d \in Seq(S) /\ Len(d) = 2 /\ d[1] = a /\ d[2] = b
    OBVIOUS
  <2>3. e \in Seq(S) /\ Len(e) = 1 /\ e[1] = a
    OBVIOUS
  <2> HIDE DEF d, e
  <2>4. p = Append(e, b)
    BY DEF e
  <2> HIDE DEF p
  <2>5. p \in Seq(S) /\ Len(p) = 2 /\ p[1] = a /\ p[2] = b
    BY <2>3, <2>4, AppendIs
  <2>6. \A i \in 1 .. Len(p) : p[i] = d[i]
    BY <2>2, <2>5
  <2>7. p = d
    BY <2>2, <2>5, <2>6, SeqEqual
  <2> QED
    BY <2>1, <2>7 DEF p, d
<1> QED
  BY <1>1, <1>2, <1>3, <1>4

\* Each character put adds itself to what the call has put.
LEMMA PutHeadPuts ==
  ASSUME CallsInStep, TxInv, NEW t \in Writers, CountInStep(t), PutHead(t)
  PROVE  /\ NextChar(t) \in Chars \cup {CR}
         /\ Written(t)' \in Nat
         /\ \A i \in 1 .. Len(left'[t]) : left'[t][i] = load.strings[t][Written(t)' + i]
         /\ cr'[t] => load.onlcr /\ left'[t] # <<>> /\ Head(left'[t]) = NL
         /\ Whole(t)' \in Seq(Chars \cup {CR})
         /\ Put(t)' = Append(Put(t), NextChar(t))
<1> DEFINE s == load.strings[t]
           c == Cooked(s, load.onlcr)
           n == Written(t)
           l == left[t]
           S == Chars \cup {CR}
<1>1. /\ l # <<>> /\ l \in Seq(Chars) /\ left \in [Writers -> Seq(Chars)]
      /\ cr \in [Writers -> BOOLEAN] /\ load' = load
  BY DEF TxInv, TxTypes, WriterInStep, Putting, PutHead
<1>2. /\ Len(l) \in Nat \ {0} /\ Len(Tail(l)) = Len(l) - 1 /\ Tail(l) \in Seq(Chars)
      /\ Head(l) = l[1] /\ Head(l) \in Chars
      /\ \A i \in 1 .. Len(l) - 1 : Tail(l)[i] = l[i + 1]
  <2>1. Len(l) \in Nat \ {0}
    BY <1>1, EmptySeq
  <2> QED
    BY <1>1, <2>1, HeadTailProperties
<1>3. /\ n \in Nat /\ n = Len(s) - Len(l)
      /\ \A i \in 1 .. Len(l) : l[i] = s[n + i]
      /\ cr[t] => load.onlcr /\ Head(l) = NL
      /\ c[n] \in Seq(S)
  BY DEF CountInStep, Written, Whole
<1>4. s \in Seq(Chars) /\ Len(s) \in Nat
  <2>1. s \in Seq(Chars)
    BY DEF CallsInStep, Load
  <2> QED
    BY <2>1, LenProperties
<1>5. NextChar(t) \in S /\ CR \in S /\ Head(l) \in S
  BY <1>2 DEF NextChar
<1>6. /\ Put(t) = IF cr[t] THEN Append(c[n], CR) ELSE c[n]
      /\ Put(t)' = IF cr'[t] THEN Append(c[Written(t)'], CR) ELSE c[Written(t)']
      /\ Whole(t)' = c[Written(t)']
  BY <1>1 DEF Put, Whole
<1>7. Written(t)' = Len(s) - Len(left'[t])
  BY <1>1 DEF Written
<1>8. CASE NextChar(t) # Head(l)
  <2>1. Head(l) = NL /\ load.onlcr /\ ~cr[t] /\ NextChar(t) = CR
    BY <1>8 DEF NextChar
  <2>2. left' = left /\ cr'[t] = TRUE
    BY <1>1, <1>8 DEF PutHead
  <2>3. Written(t)' = n
    BY <1>7, <2>2 DEF Written
  <2>4. Put(t)' = Append(Put(t), NextChar(t)) /\ Whole(t)' \in Seq(S)
    BY <1>3, <1>6, <2>1, <2>2, <2>3
  <2>5. \A i \in 1 .. Len(left'[t]) : left'[t][i] = s[Written(t)' + i]
    BY <1>3, <2>2, <2>3
  <2> QED
    BY <1>1, <1>3, <1>5, <2>1, <2>2, <2>3, <2>4, <2>5
<1>9. CASE NextChar(t) = Head(l)
  <2>1. left'[t] = Tail(l) /\ cr'[t] = FALSE
    BY <1>1, <1>9 DEF PutHead
  <2> DEFINE x == Head(l)
             r == Tail(l)
             o == load.onlcr
             p == Put(t)
  <2>2. cr[t] => Cook(x, o) = <<CR, x>> /\ p = Append(c[n], CR)
    BY <1>3, <1>6 DEF Cook
  <2>3. ~cr[t] => Cook(x, o) = <<x>> /\ p = c[n]
    <3>1. ~cr[t] => ~(x = NL /\ o)
      BY <1>9, UartAssumption DEF NextChar
    <3> QED
      BY <1>6, <3>1 DEF Cook
  <2>4. \A k \in 1 .. Len(s) : c[k] = c[k - 1] \o Cook(s[k], o)
    BY <1>4, CookedIs
  <2>5. Written(t)' = Len(s) - Len(r)
    BY <1>7, <2>1
  <2> HIDE DEF s, c, n, l, S, x, r, o, p
  <2>6. /\ Len(l) \in Nat \ {0} /\ Len(r) = Len(l) - 1 /\ x = l[1]
        /\ \A i \in 1 .. Len(l) - 1 : r[i] = l[i + 1]
    BY <1>2 DEF x, r
  <2>7. n + 1 \in 1 .. Len(s) /\ s[n + 1] = x /\ (n + 1) - 1 = n /\ Written(t)' = n + 1
    BY <1>3, <1>4, <2>5, <2>6
  <2>8. ASSUME NEW i \in 1 .. Len(r)
        PROVE  r[i] = s[(n + 1) + i]
    <3>1. i \in 1 .. Len(l) - 1 /\ i + 1 \in 1 .. Len(l) /\ n + (i + 1) = (n + 1) + i
      BY <1>3, <2>6
    <3>2. r[i] = l[i + 1]
      BY <2>6, <3>1
    <3>3. l[i + 1] = s[n + (i + 1)]
      BY <1>3, <3>1
    <3> QED
      BY <3>1, <3>2, <3>3
  <2>9. c[n + 1] = c[n] \o Cook(x, o)
    BY <2>4, <2>7
  <2>10. x \in S /\ CR \in S
    BY <1>5 DEF x
  <2>11. c[n] \in Seq(S)
    BY <1>3
  <2>12. c[n + 1] = Append(p, x)
    <3>1. CASE cr[t]
      <4> DEFINE d == <<CR, x>>
                 q == c[n]
      <4>1. c[n + 1] = q \o d /\ p = Append(q, CR) /\ q \in Seq(S)
        BY <2>2, <2>9, <2>11, <3>1
      <4> HIDE DEF q
      <4>2. q \o d = Append(Append(q, CR), x)
        BY <2>10, <4>1, TwoMore
      <4> HIDE DEF d
      <4> QED
        BY <4>1, <4>2
    <3>2. CASE ~cr[t]
      BY <2>3, <2>9, <2>10, <2>11, <3>2, AppendIsConcat
    <3> QED
      BY <3>1, <3>2
  <2>13. c[n + 1] \in Seq(S)
    <3>1. p \in Seq(S)
      BY <2>2, <2>3, <2>10, <2>11, AppendProperties
    <3> QED
      BY <2>10, <2>12, <3>1, AppendProperties
  <2>14. Put(t)' = c[n + 1] /\ Whole(t)' = c[n + 1]
    BY <1>6, <2>1, <2>7
  <2>15. n + 1 \in Nat
    BY <1>3
  <2> QED
    BY <1>5, <1>9, <2>1, <2>7, <2>8, <2>12, <2>13, <2>14, <2>15 DEF x, r, p, s, S, l
<1> QED
  BY <1>8, <1>9

LEMMA PutHeadCount ==
  ASSUME CallsInStep, TxInv, CountInv, NEW t \in Writers, PutHead(t)
  PROVE  CountInv'
<1> DEFINE c == NextChar(t)
           n == Len(accepted)
<1>1. /\ c \in Chars \cup {CR}
      /\ Written(t)' \in Nat
      /\ \A i \in 1 .. Len(left'[t]) : left'[t][i] = load.strings[t][Written(t)' + i]
      /\ cr'[t] => load.onlcr /\ left'[t] # <<>> /\ Head(left'[t]) = NL
      /\ Whole(t)' \in Seq(Chars \cup {CR})
      /\ Put(t)' = Append(Put(t), c)
  BY PutHeadPuts DEF CountInv
<1>2. /\ accepted' = Append(accepted, <<t, c>>) /\ load' = load /\ ret' = ret
      /\ left \in [Writers -> Seq(Chars)] /\ cr \in [Writers -> BOOLEAN]
      /\ accepted \in Seq(TxByte) /\ left[t] # <<>> /\ xlock = t
  BY DEF PutHead, TxInv, TxTypes, WriterInStep, Putting, Writing
<1>3. /\ \A u \in Writers : u # t => left'[u] = left[u] /\ cr'[u] = cr[u]
      /\ pc'[t] # "w_done" /\ \A u \in Writers : u # t => pc'[u] = pc[u]
  <2>1. \A u \in Writers : u # t => left'[u] = left[u] /\ cr'[u] = cr[u]
    BY <1>2 DEF PutHead
  <2>2. pc \in [Tasks -> WritePC \cup ReadPC] /\ \A u \in Writers : u \in Tasks
    BY Sizes DEF CallsInStep
  <2> QED
    BY <2>1, <2>2 DEF PutHead
<1>4. /\ n \in Nat /\ Len(accepted') = n + 1 /\ accepted'[n + 1] = <<t, c>>
      /\ \A i \in 1 .. n : accepted'[i] = accepted[i]
  <2>1. <<t, c>> \in TxByte
    BY <1>1 DEF TxByte
  <2> HIDE DEF c
  <2> QED
    BY <1>2, <2>1, AppendIs
<1>5. \A u \in Writers : Put(u) \in Seq(Chars \cup {CR}) /\ Len(Put(u)) \in Nat
  <2> SUFFICES ASSUME NEW u \in Writers
               PROVE  Put(u) \in Seq(Chars \cup {CR})
    BY LenProperties
  <2>1. Whole(u) \in Seq(Chars \cup {CR})
    BY DEF CountInv, CountInStep
  <2> QED
    BY <2>1, AppendProperties DEF Put
<1>6. CountInStep(t)'
  <2>1. OnTheWay(t, Put(t))
    BY DEF CountInv, CountInStep
  <2>2. \A i, j \in 1 .. n : i < j /\ accepted[i][1] = t => accepted[j][1] = t
    BY <1>2 DEF TxInv, WritesInStep
  <2>3. OnTheWay(t, Put(t))'
    <3> DEFINE S == Chars \cup {CR}
    <3>1. c \in S /\ Put(t) \in Seq(S)
      BY <1>1, <1>5
    <3> HIDE DEF c, S
    <3>2. Put(t)' = Append(Put(t), c)
      BY <1>1
    <3> QED
      BY <1>4, <2>1, <2>2, <3>1, <3>2, OwnGrows
  <2> QED
    BY <1>1, <1>2, <1>3, <2>3 DEF CountInStep
<1>7. ASSUME NEW u \in Writers, u # t
      PROVE  CountInStep(u)'
  <2>1. CountInStep(u)
    BY DEF CountInv
  <2>2. Written(u)' = Written(u)
    BY <1>2, <1>3, <1>7 DEF Written
  <2>3. Whole(u)' = Whole(u) /\ Put(u)' = Put(u)
    BY <1>2, <1>3, <1>7, <2>2 DEF Whole, Put
  <2>4. OnTheWay(u, Put(u))'
    BY <1>4, <1>5, <1>7, <2>1, <2>3, OtherGrows DEF CountInStep
  <2> QED
    BY <1>2, <1>3, <1>7, <2>1, <2>2, <2>3, <2>4 DEF CountInStep
<1> QED
  BY <1>6, <1>7 DEF CountInv

LEMMA WriteReturnCount ==
  ASSUME CallsInStep, TxInv, CountInv, NEW t \in Writers, WriteReturn(t)
  PROVE  CountInv'
<1>1. /\ UNCHANGED <<load, left, cr, accepted>>
      /\ ret'[t] = IF Written(t) > 0 THEN Written(t) ELSE -1
      /\ \A u \in Writers : u # t => pc'[u] = pc[u] /\ ret'[u] = ret[u]
  <2>1. /\ pc \in [Tasks -> WritePC \cup ReadPC] /\ ret \in [Tasks -> Int]
        /\ \A u \in Writers : u \in Tasks
    BY Sizes DEF CallsInStep
  <2> QED
    BY <2>1 DEF WriteReturn, Goto, writeVars
<1> SUFFICES ASSUME NEW u \in Writers
             PROVE  CountInStep(u)'
  BY DEF CountInv
<1>2. CountInStep(u)
  BY DEF CountInv
<1>3. Written(u)' = Written(u)
  BY <1>1 DEF Written
<1>4. Whole(u)' = Whole(u) /\ Put(u)' = Put(u)
  BY <1>1, <1>3 DEF Whole, Put
<1>5. OnTheWay(u, Put(u))'
  BY <1>1, <1>2, <1>4, StillOnTheWay DEF CountInStep
<1>6. pc'[u] = "w_done" => ret'[u] = IF Written(u) > 0 THEN Written(u) ELSE -1
  <2>1. CASE u = t
    BY <1>1, <2>1
  <2>2. CASE u # t
    BY <1>1, <1>2, <2>2 DEF CountInStep
  <2> QED
    BY <2>1, <2>2
<1> QED
  BY <1>1, <1>2, <1>3, <1>4, <1>5, <1>6 DEF CountInStep

LEMMA QuietCount ==
  ASSUME CallsInStep, CountInv, NEW t \in Writers,
         WriteLock(t) \/ WriteStart(t) \/ PutCheck(t) \/ PutStore(t) \/ PutWait(t) \/ PutWoken(t)
           \/ PutInterrupted(t) \/ PutAbort(t) \/ WriteEnd(t)
  PROVE  CountInv'
<1>1. UNCHANGED <<load, ret, left, cr, accepted>>
  BY DEF WriteLock, WriteStart, PutCheck, PutStore, PutWait, PutWoken, PutInterrupted, PutAbort,
         WriteEnd, txVars, writeVars
<1>2. \E l : l # "w_done" /\ pc' = [pc EXCEPT ![t] = l]
  <2>1. CASE WriteLock(t) \/ WriteStart(t) \/ PutStore(t) \/ PutWoken(t) \/ PutInterrupted(t)
             \/ PutAbort(t) \/ WriteEnd(t)
    BY <2>1 DEF WriteLock, WriteStart, PutStore, PutWoken, PutInterrupted, PutAbort, WriteEnd, Goto
  <2>2. CASE PutCheck(t)
    BY <2>2 DEF PutCheck
  <2>3. CASE PutWait(t)
    BY <2>3 DEF PutWait
  <2> QED
    BY <2>1, <2>2, <2>3
<1>3. \A u \in Writers : pc'[u] = "w_done" => pc[u] = "w_done"
  <2>1. pc \in [Tasks -> WritePC \cup ReadPC] /\ \A u \in Writers : u \in Tasks
    BY Sizes DEF CallsInStep
  <2> QED
    BY <1>2, <2>1
<1> QED
  BY <1>1, <1>3, CountFrame

\* A reader changes its own counts of the workload and its own result.
LEMMA ReaderCount ==
  ASSUME CallsInStep, CountInv, NEW t \in Readers,
         ReadStep(t) \/ ReadLock(t) \/ Flush(t) \/ ReadInterrupted(t)
  PROVE  CountInv'
<1>1. /\ UNCHANGED <<left, cr, accepted>> /\ load'.onlcr = load.onlcr
      /\ \A u \in Writers : pc'[u] = pc[u]
  BY ReaderElsewhere DEF txVars, writeVars
<1>2. \A u \in Writers : ret'[u] = ret[u]
  <2>1. ret' = ret \/ \E x : ret' = [ret EXCEPT ![t] = x]
    <3>1. CASE ReadWait(t)
      BY <3>1 DEF ReadWait
    <3>2. CASE ~ReadWait(t)
      BY <3>2 DEF ReadStep, ReadCheck, ReadTake, ReadTail, ReadEnable, ReadRelock, ReadAbort,
                  ReadReturn, ReadLock, Flush, ReadInterrupted
    <3> QED
      BY <3>1, <3>2
  <2>2. ret \in [Tasks -> Int] /\ \A u \in Writers : u \in Tasks /\ u # t
    BY Sizes DEF CallsInStep
  <2> QED
    BY <2>1, <2>2
<1>3. load'.strings = load.strings
  <2>1. load' = load \/ load' = [load EXCEPT !.reads[t] = @ - 1]
        \/ load' = [load EXCEPT !.flushes[t] = @ - 1]
    BY DEF ReadStep, ReadCheck, ReadTake, ReadTail, ReadWait, ReadEnable, ReadRelock, ReadAbort,
           ReadReturn, ReadLock, Flush, ReadInterrupted
  <2>2. load \in Load
    BY DEF CallsInStep
  <2> QED
    BY <2>1, <2>2 DEF Load
<1> QED
  BY <1>1, <1>2, <1>3, CountFrame

LEMMA StepCount ==
  ASSUME UartInv, CountInv, [Next]_vars
  PROVE  CountInv'
<1>1. CallsInStep /\ TxInv
  BY DEF UartInv
<1>2. ASSUME NEW t \in Writers, WriteStep(t) \/ PutInterrupted(t)
      PROVE  CountInv'
  BY <1>1, <1>2, PutHeadCount, WriteReturnCount, QuietCount DEF WriteStep
<1>3. ASSUME NEW t \in Readers, ReadStep(t) \/ ReadLock(t) \/ Flush(t) \/ ReadInterrupted(t)
      PROVE  CountInv'
  BY <1>1, <1>3, ReaderCount
<1>4. CASE XmitInterrupt
  <2>1. UNCHANGED <<load, ret, left, cr, accepted>>
    BY <1>4 DEF XmitInterrupt, writeVars
  <2>2. Wakeup("w_wait", "w_woken") \/ pc' = pc
    BY <1>4 DEF XmitInterrupt, DataSent
  <2>3. \A u \in Writers : pc'[u] = "w_done" => pc[u] = "w_done"
    BY <2>2, Sizes DEF Wakeup
  <2> QED
    BY <2>1, <2>3, CountFrame
<1>5. CASE RecvInterrupt
  <2>1. UNCHANGED <<load, ret, left, cr, accepted>> /\ \A u \in Writers : pc'[u] = pc[u]
    BY <1>1, <1>5, InterruptsElsewhere DEF RecvInterrupt, txVars, writeVars
  <2> QED
    BY <2>1, CountFrame
<1>6. CASE Shift \/ Arrive \/ UNCHANGED vars
  <2>1. UNCHANGED <<load, pc, ret, left, cr, accepted>>
    BY <1>6 DEF Shift, Arrive, vars, txVars, writeVars
  <2> QED
    BY <2>1, CountFrame
<1> QED
  BY <1>2, <1>3, <1>4, <1>5, <1>6 DEF Next, Hardware

LEMMA InitCount ==
  ASSUME Init
  PROVE  CountInv
<1> SUFFICES ASSUME NEW t \in Writers
             PROVE  CountInStep(t)
  BY DEF CountInv
<1>1. /\ left[t] = load.strings[t] /\ cr[t] = FALSE /\ pc[t] = "w_lock" /\ accepted = <<>>
      /\ load \in Load
  BY UartAssumption, Sizes DEF Init
<1>2. load.strings[t] \in Seq(Chars) /\ Len(load.strings[t]) \in Nat
  <2>1. load.strings[t] \in Seq(Chars)
    BY <1>1 DEF Load
  <2> QED
    BY <2>1, LenProperties
<1>3. Written(t) = 0
  BY <1>1, <1>2 DEF Written
<1>4. Whole(t) = <<>> /\ Put(t) = <<>>
  <2>1. Cooked(load.strings[t], load.onlcr)[0] = <<>>
    BY <1>2, CookedIs
  <2>2. Whole(t) = <<>>
    BY <1>3, <2>1 DEF Whole
  <2> QED
    BY <1>1, <2>2 DEF Put
<1>5. OnTheWay(t, <<>>)
  BY <1>1 DEF OnTheWay
<1>6. \A i \in 1 .. Len(left[t]) : left[t][i] = load.strings[t][Written(t) + i]
  BY <1>1, <1>2, <1>3
<1> QED
  BY <1>1, <1>3, <1>4, <1>5, <1>6 DEF CountInStep

-----------------------------------------------------------------------------
(* The theorems                                                            *)

\* The invariant that holds the port together: one writer and one reader at a
\* time, the place a writer has found free stays free under the interrupt, and
\* nobody waits for an interrupt that is disabled (serial.c, serial_io.c,
\* stm32_serial.c).
THEOREM UartInvariant == Spec => []UartInv
<1>1. Init => UartInv
  BY InitInv
<1>2. UartInv /\ [Next]_vars => UartInv'
  BY StepInv
<1> QED
  BY <1>1, <1>2, PTL DEF Spec

\* Type correctness: the indices that uart_putxmitchar, uart_readv and the
\* interrupt handler move never leave their buffers.
THEOREM UartTypeCorrect == Spec => []TypeOK
<1>1. UartInv => TypeOK
  <2> SUFFICES ASSUME UartInv
               PROVE  TypeOK
    OBVIOUS
  <2>1. /\ {xmit.head, xmit.tail} \subseteq 0 .. XmitSize - 1
        /\ {recv.head, recv.tail} \subseteq 0 .. RecvSize - 1
    BY DEF UartInv, TxInv, TxTypes, RxInv, RxTypes, Buffer
  <2>2. {txint, txe, rxint, ore} \subseteq BOOLEAN
    <3>1. txint \in BOOLEAN /\ txe \in BOOLEAN /\ rxint \in BOOLEAN /\ ore \in BOOLEAN
      BY DEF UartInv, TxInv, TxTypes, RxInv, RxTypes
    <3> QED
      BY <3>1, Zenon
  <2> QED
    BY <2>1, <2>2 DEF UartInv, TxInv, TxTypes, RxInv, RxTypes, CallsInStep, TypeOK
<1> QED
  BY <1>1, UartInvariant, PTL

\* uart_putxmitchar and uart_xmitchars share the transmit buffer without a lock,
\* and yet what is sent and what is held are exactly the characters put, in order.
THEOREM LineCarriesEveryByte == Spec => []NoByteLost
<1>1. UartInv => NoByteLost
  BY DEF UartInv, TxInv
<1> QED
  BY <1>1, UartInvariant, PTL

\* xmit.lock keeps a write in one piece, although uart_writev sleeps in its
\* middle when the buffer is full.
THEOREM WritesStayWhole == Spec => []WritesWhole
<1>1. UartInv => WritesWhole
  BY DEF UartInv, TxInv
<1> QED
  BY <1>1, UartInvariant, PTL

\* The answer to the "Potential bug?" comment of uart_xmitchars: a writer never
\* waits over an empty buffer or with the TX interrupt disabled.
THEOREM WriterNeverStalls == Spec => []NoStalledWriter
<1>1. UartInv => NoStalledWriter
  BY DEF UartInv, TxInv
<1> QED
  BY <1>1, UartInvariant, PTL

\* A write that a signal or O_NONBLOCK cuts short returns exactly the number of
\* characters that uart_writev has put, whatever ONLCR has made of them: nothing is
\* lost or repeated by a caller that writes the rest, but for the '\r' of a newline
\* that was cut off.
THEOREM ShortWritesExact == Spec => []ShortWriteExact
<1>1. Init => CountInv
  BY InitCount
<1>2. UartInv /\ CountInv /\ [Next]_vars => CountInv'
  BY StepCount
<1>3. UartInv /\ CountInv => ShortWriteExact
  <2> SUFFICES ASSUME UartInv, CountInv, NEW t \in Writers, pc[t] = "w_done"
               PROVE  LET s    == load.strings[t]
                          n    == IF ret[t] = -1 THEN 0 ELSE ret[t]
                          head == Cooked(s, load.onlcr)[n]
                      IN  \/ OnTheWay(t, head)
                          \/ /\ n < Len(s) /\ s[n + 1] = NL /\ load.onlcr
                             /\ OnTheWay(t, Append(head, CR))
    BY DEF ShortWriteExact
  <2> DEFINE s == load.strings[t]
             n == IF ret[t] = -1 THEN 0 ELSE ret[t]
             w == Written(t)
             l == left[t]
  <2>1. /\ w \in Nat /\ \A i \in 1 .. Len(l) : l[i] = s[w + i]
        /\ cr[t] => load.onlcr /\ l # <<>> /\ Head(l) = NL
        /\ OnTheWay(t, Put(t))
        /\ ret[t] = IF w > 0 THEN w ELSE -1
    BY DEF CountInv, CountInStep
  <2>2. n = w
    <3> HIDE DEF w
    <3> QED
      BY <2>1
  <2>3. Put(t) = IF cr[t] THEN Append(Cooked(s, load.onlcr)[n], CR) ELSE Cooked(s, load.onlcr)[n]
    BY <2>2 DEF Put, Whole
  <2>4. ASSUME cr[t]
        PROVE  n < Len(s) /\ s[n + 1] = NL /\ load.onlcr
    <3>1. l \in Seq(Chars) /\ s \in Seq(Chars)
      BY DEF UartInv, CallsInStep, Load, TxInv, TxTypes
    <3>2. Len(s) \in Nat /\ Len(l) \in Nat \ {0} /\ Head(l) = l[1]
      BY <2>1, <2>4, <3>1, EmptySeq, LenProperties
    <3>3. w = Len(s) - Len(l)
      BY DEF Written
    <3> HIDE DEF w, s, l, n
    <3> QED
      BY <2>1, <2>2, <2>4, <3>2, <3>3
  <2> HIDE DEF n, s
  <2>5. \/ OnTheWay(t, Cooked(s, load.onlcr)[n])
        \/ /\ n < Len(s) /\ s[n + 1] = NL /\ load.onlcr
           /\ OnTheWay(t, Append(Cooked(s, load.onlcr)[n], CR))
    BY <2>1, <2>3, <2>4
  <2> QED
    BY <2>5 DEF n, s
<1> QED
  BY <1>1, <1>2, <1>3, UartInvariant, PTL DEF Spec

\* uart_readv tests the buffer again in its critical section: a reader never
\* sleeps while the buffer holds a byte, not even when TCIFLUSH moves the tail
\* under another reader.
THEOREM ReaderNeverStalls == Spec => []NoStalledReader
<1>1. UartInv => NoStalledReader
  BY DEF UartInv, RxInv
<1> QED
  BY <1>1, UartInvariant, PTL

\* Readers get the bytes in the order in which uart_recvchars stored them, each
\* once, although uart_readv works on a local copy of the tail: as long as the
\* task that flushes with TCIFLUSH, which takes no lock, is the only reader.
THEOREM ReadsInOrder ==
  ASSUME FlushesAlone
  PROVE  Spec => []RxInOrder
<1>1. Init => RxOrder
  <2> SUFFICES ASSUME Init
               PROVE  RxOrder
    OBVIOUS
  <2>1. \A t \in Readers : pc[t] = "r_idle"
    BY Sizes DEF Init
  <2>2. FlushInStep
    BY <2>1 DEF Init, FlushesAlone, FlushInStep
  <2>3. RxInOrder
    <3>1. Contents(recv, RecvSize) = <<>> /\ taken = <<>> /\ stored = <<>>
      BY EmptyIs, Sizes DEF Init
    <3> QED
      BY <3>1 DEF RxInOrder
  <2> QED
    BY <2>1, <2>2, <2>3 DEF RxOrder, TakeInStep
<1>2. UartInv /\ RxOrder /\ [Next]_vars => RxOrder'
  BY StepOrder
<1>3. RxOrder => RxInOrder
  BY DEF RxOrder
<1> QED
  BY <1>1, <1>2, <1>3, UartInvariant, PTL DEF Spec
=============================================================================
