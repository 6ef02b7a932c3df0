-------------------------- MODULE SpiWindowProofs ---------------------------
(***************************************************************************)
(* Proofs about SpiWindow for every tick, delay, timeout, scheduling lag   *)
(* and length of the answer.  The conditions under which CS falls into     *)
(* OpenMV's window and a slow byte is accepted are WindowFits and PollsFit; *)
(* neither is written down in the code.                                    *)
(***************************************************************************)
EXTENDS SpiWindow, SequenceTheorems, TLAPS

\* OpenMV's phases, by the time since its last byte.
OmvInStep ==
  /\ omv = "write" <=> Len(arrived) < Bytes
  /\ \A i \in 1 .. Len(arrived) : arrived[i] <= now
  /\ omv = "delay" => Since <= OmvDelay
  /\ omv = "gone"  => Since >= OmvDelay + OmvTimeout

\* The camera reads no further than the bytes and no longer than its polls, and
\* runs within MaxLag once it is ready.
CamInStep ==
  /\ got <= Len(arrived)
  /\ cam \in {"read", "sleep", "failed"} => got < Bytes
  /\ cam \in {"delay", "select", "selected"} => got = Bytes
  /\ ready <= now
  /\ cam \in {"read", "select"} => now <= ready + MaxLag
  /\ cam = "read" => polls < SIZE_POLLS
  /\ cam = "failed" => polls = SIZE_POLLS /\ wake <= now

\* How late the read of the last byte, and CS, can be.
LatencyInStep ==
  /\ cam = "sleep" => wake <= now + PollSleep
  /\ cam = "sleep" /\ omv # "write" => wake <= LastArrival + PollSleep
  /\ cam = "read" /\ omv # "write" =>
       ready + (Bytes - got) * MaxLag <= LastArrival + ReadLatency
  /\ cam = "delay" =>
       wake \in LastArrival + (CsDelay - Tick) + 1 .. LastArrival + ReadLatency + CsDelay
  /\ cam = "select" =>
       ready \in LastArrival + (CsDelay - Tick) + 1 .. LastArrival + ReadLatency + CsDelay

\* The start of the tick in which polls sleeps have passed since the first read
\* of a byte.
PollTime == (asked \div Tick + polls * (PollTicks + 1)) * Tick

\* How early the sleeps of the current byte can end, and what can have arrived
\* since the last read.
PollsInStep ==
  /\ cam = "read" /\ polls > 0 => now >= PollTime
  /\ cam \in {"sleep", "failed"} =>
       /\ wake >= PollTime
       /\ Len(arrived) > got => arrived[got + 1] >= wake - PollSleep

\* The inductive invariant; it needs neither condition.
WindowInv ==
  /\ TypeOK
  /\ OmvInStep
  /\ CamInStep
  /\ LatencyInStep
  /\ PollsInStep

-----------------------------------------------------------------------------
(* Ticks                                                                   *)

\* The tick a time lies in.
LEMMA TickOf ==
  ASSUME NEW n \in Nat
  PROVE  /\ n \div Tick \in Nat
         /\ (n \div Tick) * Tick <= n
         /\ n < (n \div Tick) * Tick + Tick
<1>1. Tick \in Nat /\ Tick > 0
  BY WindowAssumption
<1> QED
  BY <1>1

\* Products of naturals, for steps the solvers cannot take with definitions in
\* the way.
LEMMA TimesNat ==
  ASSUME NEW a \in Nat, NEW b \in Nat
  PROVE  /\ a * b \in Nat
         /\ (a + 1) * b = a * b + b
  OBVIOUS

LEMMA TimesMonotone ==
  ASSUME NEW a \in Nat, NEW b \in Nat, NEW c \in Nat, a <= b
  PROVE  a * c <= b * c
<1>1. PICK d \in Nat : b = a + d
  <2> WITNESS b - a \in Nat
  <2> QED OBVIOUS
<1>2. b * c = a * c + d * c /\ d * c \in Nat
  BY <1>1
<1> QED
  BY <1>2

\* clock_time2ticks and the lengths made of it are naturals.
LEMMA LengthsNat ==
  /\ Tick \in Nat /\ Tick > 0
  /\ PollTicks \in Nat /\ DelayTicks \in Nat
  /\ PollSleep \in Nat
  /\ CsDelay \in Nat /\ CsDelay = DelayTicks * Tick + Tick
  /\ ReadLatency \in Nat /\ ReadLatency = PollSleep + Bytes * MaxLag
  /\ Bytes * MaxLag \in Nat
<1>1. /\ Tick \in Nat /\ Tick > 0 /\ Bytes \in Nat /\ MaxLag \in Nat
      /\ SIZE_POLL + Tick - 1 \in Nat /\ SPI_CS_DELAY + Tick - 1 \in Nat
  BY WindowAssumption
<1>2. PollTicks \in Nat /\ DelayTicks \in Nat
  BY <1>1, TickOf DEF PollTicks, DelayTicks, Ticks
<1>3. /\ PollSleep \in Nat
      /\ CsDelay \in Nat /\ CsDelay = DelayTicks * Tick + Tick
  BY <1>1, <1>2, TimesNat DEF PollSleep, CsDelay
<1>4. Bytes * MaxLag \in Nat
  BY <1>1, TimesNat
<1>5. ReadLatency = PollSleep + Bytes * MaxLag
  BY DEF ReadLatency
<1> QED
  BY <1>1, <1>2, <1>3, <1>4, <1>5

\* clock_delay2abstick: a sleep of n ticks takes more than n ticks and at most
\* one more, whatever the phase of the timer.
LEMMA ExpiresRange ==
  ASSUME now \in Nat, NEW ms \in Nat, Ticks(ms) \in Nat
  PROVE  /\ Expires(ms) \in Nat
         /\ Expires(ms) = (now \div Tick) * Tick + (Ticks(ms) + 1) * Tick
         /\ Expires(ms) > now + (Ticks(ms) + 1) * Tick - Tick
         /\ Expires(ms) <= now + (Ticks(ms) + 1) * Tick
<1> DEFINE q == now \div Tick
           n == Ticks(ms)
<1>1. Tick \in Nat /\ Tick > 0
  BY LengthsNat
<1>2. q \in Nat /\ q * Tick <= now /\ now < q * Tick + Tick
  BY TickOf
<1>3. Expires(ms) = (q + n + 1) * Tick
  BY DEF Expires
<1> n \in Nat
  OBVIOUS
<1> HIDE DEF q, n
<1>4. (q + n + 1) * Tick = q * Tick + (n + 1) * Tick /\ (n + 1) * Tick \in Nat /\ q * Tick \in Nat
  BY <1>1, <1>2
<1>5. (n + 1) * Tick = (Ticks(ms) + 1) * Tick
  BY DEF n
<1>6. /\ Expires(ms) \in Nat
      /\ Expires(ms) = q * Tick + (n + 1) * Tick
      /\ Expires(ms) > now + (n + 1) * Tick - Tick
      /\ Expires(ms) <= now + (n + 1) * Tick
  BY <1>1, <1>2, <1>3, <1>4
<1> QED
  BY <1>6 DEF q, n

\* The two sleeps of the camera.
LEMMA PollExpires ==
  ASSUME now \in Nat
  PROVE  /\ Expires(SIZE_POLL) \in Nat
         /\ Expires(SIZE_POLL) = (now \div Tick) * Tick + PollSleep
         /\ Expires(SIZE_POLL) > now
         /\ Expires(SIZE_POLL) <= now + PollSleep
<1>1. SIZE_POLL \in Nat /\ PollTicks \in Nat /\ Tick \in Nat
  BY WindowAssumption, LengthsNat
<1>2. PollTicks * Tick \in Nat /\ PollSleep = PollTicks * Tick + Tick
  BY <1>1, TimesNat DEF PollSleep
<1>3. /\ Expires(SIZE_POLL) \in Nat
      /\ Expires(SIZE_POLL) = (now \div Tick) * Tick + PollSleep
      /\ Expires(SIZE_POLL) > now + PollSleep - Tick
      /\ Expires(SIZE_POLL) <= now + PollSleep
  BY <1>1, ExpiresRange DEF PollTicks, PollSleep
<1> QED
  BY <1>1, <1>2, <1>3

LEMMA CsDelayExpires ==
  ASSUME now \in Nat
  PROVE  /\ Expires(SPI_CS_DELAY) \in Nat
         /\ Expires(SPI_CS_DELAY) > now + (CsDelay - Tick)
         /\ Expires(SPI_CS_DELAY) <= now + CsDelay
         /\ CsDelay - Tick \in Nat
<1>1. /\ SPI_CS_DELAY \in Nat /\ DelayTicks \in Nat /\ Tick \in Nat /\ CsDelay \in Nat
      /\ CsDelay = DelayTicks * Tick + Tick
  BY WindowAssumption, LengthsNat
<1>2. DelayTicks * Tick \in Nat
  BY <1>1, TimesNat
<1>3. /\ Expires(SPI_CS_DELAY) \in Nat
      /\ Expires(SPI_CS_DELAY) > now + CsDelay - Tick
      /\ Expires(SPI_CS_DELAY) <= now + CsDelay
  BY <1>1, ExpiresRange DEF DelayTicks, CsDelay
<1> QED
  BY <1>1, <1>2, <1>3

-----------------------------------------------------------------------------
(* The inductive invariant, action by action                               *)

\* The constants and the types, one by one.
LEMMA Types ==
  ASSUME TypeOK
  PROVE  /\ now \in Nat /\ ready \in Nat /\ wake \in Nat /\ asked \in Nat
         /\ polls \in Nat /\ got \in Nat
         /\ arrived \in Seq(Nat) /\ Len(arrived) \in Nat
         /\ \A i \in 1 .. Len(arrived) : arrived[i] \in Nat
         /\ SIZE_POLLS \in Nat /\ SIZE_POLLS > 0 /\ SIZE_POLL \in Nat
         /\ Bytes \in Nat /\ Bytes > 0
         /\ OmvDelay \in Nat /\ OmvTimeout \in Nat /\ MaxLag \in Nat
<1>1. arrived \in Seq(Nat) /\ Len(arrived) \in Nat
      /\ \A i \in 1 .. Len(arrived) : arrived[i] \in Nat
  BY DEF TypeOK
<1> QED
  BY <1>1, WindowAssumption DEF TypeOK

\* The last byte lies in the past, once there is one.
LEMMA LastIsPast ==
  ASSUME TypeOK, OmvInStep, omv # "write"
  PROVE  /\ Len(arrived) = Bytes
         /\ LastArrival \in Nat /\ LastArrival <= now
         /\ Since \in Nat
<1>1. Len(arrived) \in 1 .. Len(arrived) /\ Len(arrived) = Bytes
  BY Types DEF TypeOK, OmvInStep
<1> QED
  BY <1>1, Types DEF OmvInStep, LastArrival, Since

LEMMA InitWindowInv ==
  ASSUME Init
  PROVE  WindowInv
<1> USE DEF Init
<1>1. /\ Bytes \in Nat /\ Bytes > 0 /\ SIZE_POLLS \in Nat /\ SIZE_POLLS > 0 /\ MaxLag \in Nat
      /\ now \in Nat /\ Tick \in Nat
  BY WindowAssumption
<1>2. TypeOK
  BY <1>1 DEF TypeOK
<1>3. OmvInStep /\ CamInStep
  BY <1>1 DEF OmvInStep, CamInStep
<1>4. LatencyInStep
  BY DEF LatencyInStep
<1>5. PollsInStep
  BY DEF PollsInStep
<1> QED
  BY <1>2, <1>3, <1>4, <1>5 DEF WindowInv

\* read finds nothing: the sleep ends in the future and within PollSleep, and in
\* the tick that polls + 1 sleeps reach at the earliest.
LEMMA ReadNothingWindowInv ==
  ASSUME WindowInv, ReadNothing
  PROVE  WindowInv'
<1> USE DEF WindowInv, ReadNothing, Usleep
<1>1. /\ wake' \in Nat /\ wake' > now /\ wake' <= now + PollSleep
      /\ wake' = (now \div Tick) * Tick + PollSleep
  BY Types, PollExpires
<1>2. polls < SIZE_POLLS /\ got < Bytes /\ omv = "write"
  BY Types DEF CamInStep, OmvInStep
<1>3. TypeOK'
  BY <1>1, <1>2, Types DEF TypeOK
<1>4. OmvInStep'
  BY DEF OmvInStep, Since, LastArrival
<1>5. CamInStep'
  BY <1>2 DEF CamInStep
<1>6. LatencyInStep'
  BY <1>1, <1>2 DEF LatencyInStep, PollSleep, PollTicks, Ticks
<1>7. wake' >= PollTime'
  <2> DEFINE q == now \div Tick
             a == asked \div Tick
             k == PollTicks + 1
  <2>1. Tick \in Nat /\ Tick > 0 /\ k \in Nat
    BY LengthsNat
  <2>2. /\ q \in Nat /\ q * Tick <= now /\ now < q * Tick + Tick
        /\ a \in Nat
    BY TickOf, Types
  <2>3. CASE polls = 0
    <3>1. PollTime' = (q + 1 * k) * Tick
      BY <2>3 DEF PollTime, PollTicks, Ticks
    <3>2. wake' = q * Tick + k * Tick
      BY <1>1 DEF PollSleep
    <3> HIDE DEF q, k
    <3>3. (q + 1 * k) * Tick = q * Tick + k * Tick /\ (q + 1 * k) * Tick \in Nat
      BY <2>1, <2>2
    <3> QED
      BY <3>1, <3>2, <3>3
  <2>4. CASE polls > 0
    <3>1. PollTime' = (a + (polls + 1) * k) * Tick
      BY <2>4 DEF PollTime, PollTicks, Ticks
    <3>2. wake' = q * Tick + k * Tick
      BY <1>1 DEF PollSleep
    <3>3. now >= (a + polls * k) * Tick
      BY <2>4 DEF PollsInStep, PollTime
    <3>4. polls \in Nat /\ now \in Nat
      BY Types
    <3> HIDE DEF q, a, k
    <3> DEFINE m == a + polls * k
    <3>5. m \in Nat /\ a + (polls + 1) * k = m + k
      BY <2>1, <2>2, <3>4
    <3>6. now >= m * Tick
      BY <3>3
    <3> HIDE DEF m
    <3>7. m <= q
      <4> SUFFICES ASSUME q + 1 <= m PROVE FALSE
        BY <2>2, <3>5
      <4>1. (q + 1) * Tick <= m * Tick
        BY <2>1, <2>2, <3>5, TimesMonotone
      <4>2. (q + 1) * Tick = q * Tick + Tick /\ q * Tick \in Nat /\ m * Tick \in Nat
        BY <2>1, <2>2, <3>5, TimesNat
      <4> QED
        BY <4>1, <4>2, <2>1, <2>2, <3>4, <3>6
    <3>8. m * Tick <= q * Tick
      BY <2>1, <2>2, <3>5, <3>7, TimesMonotone
    <3>9. (m + k) * Tick = m * Tick + k * Tick /\ m * Tick \in Nat /\ k * Tick \in Nat /\ q * Tick \in Nat
      BY <2>1, <2>2, <3>5
    <3> QED
      BY <3>1, <3>2, <3>5, <3>8, <3>9
  <2> QED
    BY <2>3, <2>4, Types
<1>8. PollsInStep'
  BY <1>7, Types DEF PollsInStep
<1> QED
  BY <1>3, <1>4, <1>5, <1>6, <1>8

\* read finds a byte: each read of a byte that waits costs MaxLag at most, and
\* the last one starts the delay before CS.
LEMMA ReadByteWindowInv ==
  ASSUME WindowInv, ReadByte
  PROVE  WindowInv'
<1> USE DEF WindowInv, ReadByte, Usleep
<1>1. /\ Expires(SPI_CS_DELAY) \in Nat
      /\ Expires(SPI_CS_DELAY) > now + (CsDelay - Tick)
      /\ Expires(SPI_CS_DELAY) <= now + CsDelay
      /\ CsDelay - Tick \in Nat /\ CsDelay \in Nat /\ Tick \in Nat
  BY Types, CsDelayExpires, LengthsNat
<1>2. got < Bytes /\ got' <= Len(arrived) /\ got' \in Nat
  <2>1. got \in Nat /\ Len(arrived) \in Nat /\ Bytes \in Nat
    BY Types
  <2>2. got < Bytes
    BY DEF CamInStep
  <2> QED
    BY <2>1, <2>2
<1>3. wake' \in Nat /\ (cam' = "delay" => now <= wake')
  <2>1. wake' = wake \/ wake' = Expires(SPI_CS_DELAY)
    OBVIOUS
  <2>2. cam' = "delay" => wake' = Expires(SPI_CS_DELAY)
    OBVIOUS
  <2>3. now \in Nat /\ wake \in Nat
    BY Types
  <2> QED
    BY <1>1, <2>1, <2>2, <2>3
<1>4. TypeOK'
  <2>1. UNCHANGED <<now, arrived, omv>> /\ (ready' = ready \/ ready' = now) /\ asked' = now
        /\ polls' = 0 /\ got' = got + 1 /\ cam' \in {"read", "delay"}
    OBVIOUS
  <2>2. got' \in 0 .. Bytes
    <3>1. got \in Nat /\ Bytes \in Nat
      BY Types
    <3> QED
      BY <1>2, <2>1, <3>1
  <2>3. now' \in Nat /\ ready' \in Nat /\ asked' \in Nat
    BY <2>1, Types
  <2>4. polls' \in 0 .. SIZE_POLLS
    BY <2>1, Types
  <2> HIDE DEF ReadByte
  <2> QED
    BY <1>3, <2>1, <2>2, <2>3, <2>4 DEF TypeOK
<1>5. OmvInStep'
  BY DEF OmvInStep, Since, LastArrival
<1>6. CamInStep'
  <2>1. now \in Nat /\ MaxLag \in Nat /\ SIZE_POLLS > 0 /\ got \in Nat /\ Bytes \in Nat
    BY Types
  <2>2. CASE got' = Bytes
    BY <1>2, <2>2 DEF CamInStep
  <2>3. CASE got' # Bytes
    BY <1>2, <2>1, <2>3 DEF CamInStep
  <2> QED
    BY <2>2, <2>3
<1>7. omv # "write" =>
        /\ now + (Bytes - got') * MaxLag <= LastArrival + ReadLatency
        /\ LastArrival <= now /\ LastArrival \in Nat
  <2> SUFFICES ASSUME omv # "write"
               PROVE  /\ now + (Bytes - got') * MaxLag <= LastArrival + ReadLatency
                      /\ LastArrival <= now /\ LastArrival \in Nat
    OBVIOUS
  <2> DEFINE b == Bytes - got'
  <2>1. /\ now <= ready + MaxLag
        /\ ready + (Bytes - got) * MaxLag <= LastArrival + ReadLatency
    BY DEF CamInStep, LatencyInStep
  <2>2. LastArrival <= now /\ LastArrival \in Nat
    BY LastIsPast
  <2>3. b \in Nat /\ Bytes - got = b + 1 /\ MaxLag \in Nat /\ now \in Nat /\ ready \in Nat
    <3>1. /\ got \in Nat /\ Bytes \in Nat /\ MaxLag \in Nat /\ now \in Nat /\ ready \in Nat
          /\ got' = got + 1
      BY Types
    <3> QED
      BY <1>2, <3>1
  <2>4. ReadLatency \in Nat
    BY LengthsNat
  <2>5. ready + (b + 1) * MaxLag <= LastArrival + ReadLatency
    BY <2>1, <2>3
  <2> HIDE DEF b
  <2>6. (b + 1) * MaxLag = b * MaxLag + MaxLag /\ b * MaxLag \in Nat
    BY <2>3, TimesNat
  <2>7. now + b * MaxLag <= LastArrival + ReadLatency
    BY <2>1, <2>2, <2>3, <2>4, <2>5, <2>6
  <2> QED
    BY <2>2, <2>7 DEF b
<1>8. LatencyInStep'
  <2>1. /\ LastArrival' = LastArrival /\ ReadLatency' = ReadLatency
        /\ CsDelay' = CsDelay /\ PollSleep' = PollSleep
    BY DEF LastArrival, ReadLatency, CsDelay, PollSleep, PollTicks, DelayTicks, Ticks
  <2>2. CASE got' = Bytes
    <3>1. omv # "write" /\ cam' = "delay" /\ wake' = Expires(SPI_CS_DELAY)
      BY <2>2, <1>2, Types DEF OmvInStep, TypeOK
    <3>2. Bytes - got' = 0 /\ MaxLag \in Nat /\ (Bytes - got') * MaxLag = 0 /\ now \in Nat
      BY <2>2, Types
    <3>3. now <= LastArrival + ReadLatency /\ LastArrival <= now /\ LastArrival \in Nat
      BY <1>7, <3>1, <3>2
    <3>4. ReadLatency \in Nat
      BY LengthsNat
    <3>5. wake' \in LastArrival + (CsDelay - Tick) + 1 .. LastArrival + ReadLatency + CsDelay
      BY <1>1, <3>1, <3>2, <3>3, <3>4
    <3> QED
      BY <2>1, <3>1, <3>5 DEF LatencyInStep
  <2>3. CASE got' # Bytes
    <3>1. cam' = "read" /\ ready' = now /\ omv' = omv
      BY <2>3
    <3> QED
      BY <2>1, <3>1, <1>7 DEF LatencyInStep
  <2> QED
    BY <2>2, <2>3
<1>9. PollsInStep'
  BY DEF PollsInStep
<1> QED
  BY <1>4, <1>5, <1>6, <1>8, <1>9

\* The usleep ends: what bounded the wake-up time bounds the time.
LEMMA WakeupWindowInv ==
  ASSUME WindowInv, Wakeup
  PROVE  WindowInv'
<1> USE DEF WindowInv, Wakeup
<1>1. TypeOK'
  BY Types DEF TypeOK
<1>2. OmvInStep'
  BY DEF OmvInStep, Since, LastArrival
<1>3. CamInStep'
  BY Types DEF CamInStep, TypeOK
<1>4. /\ LastArrival' = LastArrival /\ ReadLatency' = ReadLatency
      /\ CsDelay' = CsDelay /\ PollSleep' = PollSleep /\ PollTime' = PollTime
  BY DEF LastArrival, ReadLatency, CsDelay, PollSleep, PollTicks, DelayTicks, Ticks, PollTime
<1>5. LatencyInStep'
  <2>1. CASE cam = "delay"
    BY <1>4, <2>1 DEF LatencyInStep
  <2>2. CASE cam = "sleep" /\ cam' = "read" /\ omv # "write"
    <3>1. now <= LastArrival + PollSleep /\ ready' = now
      BY <2>2 DEF LatencyInStep
    <3>2. LastArrival \in Nat /\ now \in Nat
      BY <2>2, LastIsPast, Types
    <3>3. /\ ReadLatency = PollSleep + Bytes * MaxLag
          /\ PollSleep \in Nat /\ Bytes * MaxLag \in Nat
      BY LengthsNat
    <3>4. (Bytes - got) * MaxLag <= Bytes * MaxLag /\ (Bytes - got) * MaxLag \in Nat
      <4>1. Bytes - got \in Nat /\ Bytes \in Nat /\ MaxLag \in Nat /\ Bytes - got <= Bytes
        BY Types DEF TypeOK
      <4> QED
        BY <4>1, TimesMonotone, TimesNat
    <3>5. ready' + (Bytes - got') * MaxLag <= LastArrival + ReadLatency
      BY <3>1, <3>2, <3>3, <3>4
    <3> QED
      BY <1>4, <2>2, <3>5 DEF LatencyInStep
  <2>3. CASE cam = "sleep" /\ (cam' = "failed" \/ omv = "write")
    BY <2>3 DEF LatencyInStep
  <2> QED
    BY <2>1, <2>2, <2>3
<1>6. PollsInStep'
  BY <1>4 DEF PollsInStep
<1> QED
  BY <1>1, <1>2, <1>3, <1>5, <1>6

LEMMA SelectWindowInv ==
  ASSUME WindowInv, Select
  PROVE  WindowInv'
<1> USE DEF WindowInv, Select
<1>1. TypeOK'
  BY DEF TypeOK
<1>2. OmvInStep'
  BY DEF OmvInStep, Since, LastArrival
<1>3. CamInStep'
  BY DEF CamInStep
<1>4. LatencyInStep' /\ PollsInStep'
  BY DEF LatencyInStep, PollsInStep
<1> QED
  BY <1>1, <1>2, <1>3, <1>4

\* A byte arrives: it is the one the camera waits for only if it comes after the
\* read that found nothing, less than PollSleep before the next one.
LEMMA OmvWriteWindowInv ==
  ASSUME WindowInv, OmvWrite
  PROVE  WindowInv'
<1> USE DEF WindowInv, OmvWrite
<1>1. /\ Len(arrived) < Bytes
      /\ arrived' \in Seq(Nat) /\ Len(arrived') = Len(arrived) + 1
      /\ arrived'[Len(arrived) + 1] = now
      /\ \A i \in 1 .. Len(arrived) : arrived'[i] = arrived[i]
      /\ Len(arrived') <= Bytes
  BY Types DEF OmvInStep
<1>2. LastArrival' = now
  BY <1>1 DEF LastArrival
<1>3. TypeOK'
  BY <1>1 DEF TypeOK
<1>4. OmvInStep'
  <2>1. omv' = "write" <=> Len(arrived') < Bytes
    BY <1>1, Types
  <2>2. \A i \in 1 .. Len(arrived') : arrived'[i] <= now'
    BY <1>1, Types DEF OmvInStep
  <2>3. omv' # "gone" /\ Since' <= OmvDelay
    BY <1>2, Types DEF Since
  <2> QED
    BY <2>1, <2>2, <2>3 DEF OmvInStep
<1>5. CamInStep'
  BY <1>1, Types DEF CamInStep
<1>6. /\ ReadLatency' = ReadLatency
      /\ CsDelay' = CsDelay /\ PollSleep' = PollSleep /\ PollTime' = PollTime
  BY DEF ReadLatency, CsDelay, PollSleep, PollTicks, DelayTicks, Ticks, PollTime
<1>7. LatencyInStep'
  <2>1. cam \notin {"delay", "select"}
    BY <1>1, Types DEF CamInStep
  <2>2. cam = "sleep" => wake <= now + PollSleep
    BY DEF LatencyInStep
  <2>3. cam = "read" => ready + (Bytes - got) * MaxLag <= now + ReadLatency
    <3>1. Bytes - got \in Nat /\ Bytes \in Nat /\ MaxLag \in Nat /\ Bytes - got <= Bytes
      BY Types DEF TypeOK
    <3>2. (Bytes - got) * MaxLag <= Bytes * MaxLag /\ (Bytes - got) * MaxLag \in Nat
      BY <3>1, TimesMonotone, TimesNat
    <3>3. /\ ReadLatency = PollSleep + Bytes * MaxLag
          /\ PollSleep \in Nat /\ Bytes * MaxLag \in Nat
      BY LengthsNat
    <3>4. ready <= now /\ ready \in Nat /\ now \in Nat
      BY Types DEF CamInStep
    <3> QED
      BY <3>2, <3>3, <3>4
  <2> QED
    BY <1>2, <1>6, <2>1, <2>2, <2>3 DEF LatencyInStep
<1>8. PollsInStep'
  <2> SUFFICES ASSUME cam \in {"sleep", "failed"}
               PROVE  arrived'[got + 1] >= wake - PollSleep
    BY <1>6 DEF PollsInStep
  <2>1. CASE Len(arrived) > got
    <3>1. got + 1 \in 1 .. Len(arrived)
      <4>1. got \in Nat /\ Len(arrived) \in Nat
        BY Types
      <4> QED
        BY <2>1, <4>1
    <3> QED
      BY <1>1, <2>1, <3>1 DEF PollsInStep
  <2>2. CASE Len(arrived) = got
    <3>1. arrived'[got + 1] = now
      BY <1>1, <2>2
    <3>2. now \in Nat /\ wake \in Nat /\ PollSleep \in Nat
      BY Types, LengthsNat
    <3>3. wake <= now + PollSleep
      <4>1. CASE cam = "sleep"
        BY <4>1 DEF LatencyInStep
      <4>2. CASE cam = "failed"
        BY <4>2, <3>2 DEF CamInStep
      <4> QED
        BY <4>1, <4>2
    <3> QED
      BY <3>1, <3>2, <3>3
  <2>3. got <= Len(arrived) /\ got \in Nat /\ Len(arrived) \in Nat
    BY Types DEF CamInStep
  <2> QED
    BY <2>1, <2>2, <2>3
<1> QED
  BY <1>3, <1>4, <1>5, <1>7, <1>8

LEMMA OmvEnterWindowInv ==
  ASSUME WindowInv, OmvEnter
  PROVE  WindowInv'
<1> USE DEF WindowInv, OmvEnter
<1>1. TypeOK'
  BY DEF TypeOK
<1>2. OmvInStep'
  BY DEF OmvInStep, Since, LastArrival
<1>3. CamInStep'
  BY DEF CamInStep
<1>4. /\ LastArrival' = LastArrival /\ ReadLatency' = ReadLatency
      /\ CsDelay' = CsDelay /\ PollSleep' = PollSleep /\ PollTime' = PollTime
  BY DEF LastArrival, ReadLatency, CsDelay, PollSleep, PollTicks, DelayTicks, Ticks, PollTime
<1>5. LatencyInStep' /\ PollsInStep'
  BY <1>4 DEF LatencyInStep, PollsInStep
<1> QED
  BY <1>1, <1>2, <1>3, <1>5

LEMMA OmvGoneWindowInv ==
  ASSUME WindowInv, OmvGone
  PROVE  WindowInv'
<1> USE DEF WindowInv, OmvGone
<1>1. TypeOK'
  BY DEF TypeOK
<1>2. OmvInStep'
  BY LastIsPast, Types DEF OmvInStep, Since, LastArrival
<1>3. CamInStep'
  BY DEF CamInStep
<1>4. /\ LastArrival' = LastArrival /\ ReadLatency' = ReadLatency
      /\ CsDelay' = CsDelay /\ PollSleep' = PollSleep /\ PollTime' = PollTime
  BY DEF LastArrival, ReadLatency, CsDelay, PollSleep, PollTicks, DelayTicks, Ticks, PollTime
<1>5. LatencyInStep' /\ PollsInStep'
  BY <1>4 DEF LatencyInStep, PollsInStep
<1> QED
  BY <1>1, <1>2, <1>3, <1>5

\* Time stops at the wake-up time and at the deadlines.
LEMMA AdvanceWindowInv ==
  ASSUME WindowInv, Advance
  PROVE  WindowInv'
<1> USE DEF WindowInv, Advance
<1>1. TypeOK'
  BY Types DEF TypeOK
<1>2. OmvInStep'
  <2>1. omv' = "write" <=> Len(arrived') < Bytes
    BY DEF OmvInStep
  <2>2. \A i \in 1 .. Len(arrived') : arrived'[i] <= now'
    <3> TAKE i \in 1 .. Len(arrived')
    <3>1. arrived[i] \in Nat /\ arrived[i] <= now /\ now \in Nat
      BY Types DEF OmvInStep
    <3> QED
      BY <3>1
  <2>3. omv # "write" => Since' = Since + 1 /\ Since \in Nat
    <3>1. omv # "write" => LastArrival \in Nat /\ LastArrival <= now
      BY LastIsPast
    <3>2. LastArrival' = LastArrival /\ now' = now + 1 /\ now \in Nat
      BY Types DEF LastArrival
    <3> QED
      BY <3>1, <3>2 DEF Since
  <2>4. OmvDelay \in Nat /\ OmvTimeout \in Nat
    BY Types
  <2>5. omv' = "delay" => Since' <= OmvDelay
    BY <2>3, <2>4
  <2>6. omv' = "gone" => Since' >= OmvDelay + OmvTimeout
    BY <2>3, <2>4 DEF OmvInStep
  <2> QED
    BY <2>1, <2>2, <2>5, <2>6 DEF OmvInStep
<1>3. CamInStep'
  BY Types DEF CamInStep
<1>4. /\ LastArrival' = LastArrival /\ ReadLatency' = ReadLatency
      /\ CsDelay' = CsDelay /\ PollSleep' = PollSleep /\ PollTime' = PollTime
  BY DEF LastArrival, ReadLatency, CsDelay, PollSleep, PollTicks, DelayTicks, Ticks, PollTime
<1>5. LatencyInStep'
  <2>1. cam = "sleep" => wake <= now' + PollSleep
    <3>1. now \in Nat /\ wake \in Nat /\ PollSleep \in Nat
      BY Types, LengthsNat
    <3> QED
      BY <3>1 DEF LatencyInStep
  <2> QED
    BY <1>4, <2>1 DEF LatencyInStep
<1>6. PollsInStep'
  <2>1. cam = "read" /\ polls > 0 => now' >= PollTime
    <3>1. PollTime \in Nat
      <4>1. asked \div Tick \in Nat /\ Tick \in Nat /\ polls \in Nat /\ PollTicks + 1 \in Nat
        <5>1. asked \in Nat /\ polls \in Nat
          BY Types
        <5>2. Tick \in Nat /\ PollTicks + 1 \in Nat
          BY LengthsNat
        <5> QED
          BY <5>1, <5>2, TickOf
      <4> QED
        BY <4>1, TimesNat DEF PollTime
    <3> QED
      BY <3>1, Types DEF PollsInStep
  <2> QED
    BY <1>4, <2>1 DEF PollsInStep
<1> QED
  BY <1>1, <1>2, <1>3, <1>5, <1>6

LEMMA StutterWindowInv ==
  ASSUME WindowInv, UNCHANGED vars
  PROVE  WindowInv'
<1> USE DEF WindowInv, vars
<1>1. TypeOK'
  BY DEF TypeOK
<1>2. OmvInStep'
  BY DEF OmvInStep, Since, LastArrival
<1>3. CamInStep'
  BY DEF CamInStep
<1>4. /\ LastArrival' = LastArrival /\ ReadLatency' = ReadLatency
      /\ CsDelay' = CsDelay /\ PollSleep' = PollSleep /\ PollTime' = PollTime
  BY DEF LastArrival, ReadLatency, CsDelay, PollSleep, PollTicks, DelayTicks, Ticks, PollTime
<1>5. LatencyInStep' /\ PollsInStep'
  BY <1>4 DEF LatencyInStep, PollsInStep
<1> QED
  BY <1>1, <1>2, <1>3, <1>5

LEMMA StepWindowInv ==
  ASSUME WindowInv, [Next]_vars
  PROVE  WindowInv'
  BY ReadNothingWindowInv, ReadByteWindowInv, WakeupWindowInv, SelectWindowInv,
     OmvWriteWindowInv, OmvEnterWindowInv, OmvGoneWindowInv, AdvanceWindowInv,
     StutterWindowInv DEF Next, Camera

-----------------------------------------------------------------------------
(* The theorems                                                            *)

\* However the timer's phase, the bytes and the scheduling fall, the camera's
\* waits and OpenMV's phases stay within WindowInv.
THEOREM WindowInvariant ==
  Spec => []WindowInv
<1>1. Init => WindowInv
  BY InitWindowInv
<1>2. WindowInv /\ [Next]_vars => WindowInv'
  BY StepWindowInv
<1> QED
  BY <1>1, <1>2, PTL DEF Spec

\* TypeOK of SpiWindow: in particular a sleeping camera is woken in time, and it
\* polls no byte more than SIZE_POLLS times.
THEOREM SpiTypeCorrect ==
  Spec => []TypeOK
<1>1. WindowInv => TypeOK
  BY DEF WindowInv
<1> QED
  BY <1>1, WindowInvariant, PTL

\* A camera that is ready to select does so after OpenMV's delay and before its
\* timeout.
LEMMA SelectInWindow ==
  ASSUME WindowFits, WindowInv, cam = "select"
  PROVE  omv = "spi"
<1>1. omv # "write"
  BY Types DEF WindowInv, CamInStep, OmvInStep
<1>2. LastArrival \in Nat /\ Since = now - LastArrival
  BY <1>1, LastIsPast DEF WindowInv, Since
<1>3. /\ LastArrival + (CsDelay - Tick) + 1 <= ready
      /\ ready <= LastArrival + ReadLatency + CsDelay
      /\ ready <= now /\ now <= ready + MaxLag
      /\ now \in Nat /\ ready \in Nat
  <2>1. ready \in LastArrival + (CsDelay - Tick) + 1 .. LastArrival + ReadLatency + CsDelay
    BY DEF WindowInv, LatencyInStep
  <2> QED
    BY <2>1, Types DEF WindowInv, CamInStep
<1>4. /\ OmvDelay <= CsDelay - Tick
      /\ ReadLatency + CsDelay + MaxLag < OmvDelay + OmvTimeout
  <2>1. DelayTicks * Tick \in Nat /\ Tick \in Nat /\ CsDelay = DelayTicks * Tick + Tick
    BY LengthsNat, TimesNat
  <2>2. OmvDelay <= DelayTicks * Tick
    BY DEF WindowFits
  <2>3. ReadLatency + CsDelay + MaxLag < OmvDelay + OmvTimeout
    BY DEF WindowFits
  <2> QED
    BY <2>1, <2>2, <2>3
<1>5. /\ OmvDelay \in Nat /\ OmvTimeout \in Nat /\ MaxLag \in Nat
      /\ ReadLatency \in Nat /\ CsDelay \in Nat /\ Tick \in Nat
  BY LengthsNat, Types DEF WindowInv
<1>6. Since > OmvDelay /\ Since < OmvDelay + OmvTimeout
  BY <1>2, <1>3, <1>4, <1>5
<1>7. omv # "delay" /\ omv # "gone"
  BY <1>2, <1>3, <1>5, <1>6 DEF WindowInv, OmvInStep
<1> QED
  BY <1>1, <1>7 DEF WindowInv, TypeOK

\* CsInWindow of SpiWindow, from WindowFits: the usleep before SPI_SELECT is
\* long enough, and the polls before it short enough, for CS to fall while
\* OpenMV is in spi.send_recv, and nothing moves OpenMV out of it afterwards.
THEOREM CsFallsInWindow ==
  ASSUME WindowFits
  PROVE  Spec => []CsInWindow
<1>1. Init => CsInWindow
  BY DEF Init, CsInWindow
<1>2. WindowInv /\ CsInWindow /\ [Next]_vars => CsInWindow'
  <2> SUFFICES ASSUME WindowInv, CsInWindow, [Next]_vars, cam' = "selected"
               PROVE  omv' = "spi"
    BY DEF CsInWindow
  <2>1. CASE Select
    BY <2>1, SelectInWindow DEF Select
  <2>2. CASE OmvWrite \/ OmvEnter \/ OmvGone
    BY <2>2 DEF OmvWrite, OmvEnter, OmvGone, CsInWindow
  <2>3. CASE Advance \/ UNCHANGED vars
    BY <2>3 DEF Advance, vars, CsInWindow
  <2>4. CASE ReadNothing \/ ReadByte \/ Wakeup
    BY <2>4 DEF ReadNothing, ReadByte, Wakeup
  <2> QED
    BY <2>1, <2>2, <2>3, <2>4 DEF Next, Camera
<1> QED
  BY <1>1, <1>2, WindowInvariant, PTL DEF Spec

\* A byte that waits when the polls are used up came after the last read, and the
\* sleeps before that one cover the time the polls stand for.
LEMMA FailedTooLate ==
  ASSUME PollsFit, WindowInv
  PROVE  SlowByteAccepted
<1> SUFFICES ASSUME cam = "failed", Len(arrived) > got
             PROVE  arrived[got + 1] > asked + SIZE_POLLS * SIZE_POLL
  BY DEF SlowByteAccepted
<1> DEFINE a == asked \div Tick
           k == PollTicks + 1
           x == arrived[got + 1]
           n == SIZE_POLLS
           c == SIZE_POLLS * SIZE_POLL
<1>1. /\ asked \in Nat /\ Tick \in Nat /\ n \in Nat /\ n - 1 \in Nat /\ wake \in Nat
      /\ k \in Nat /\ PollSleep \in Nat /\ SIZE_POLL \in Nat
  <2>1. asked \in Nat /\ n \in Nat /\ n - 1 \in Nat /\ wake \in Nat /\ SIZE_POLL \in Nat
    BY Types DEF WindowInv
  <2>2. Tick \in Nat /\ k \in Nat /\ PollSleep \in Nat
    BY LengthsNat
  <2> QED
    BY <2>1, <2>2
<1>2. a \in Nat /\ asked < a * Tick + Tick
  BY <1>1, TickOf
<1>3. x \in Nat /\ x >= wake - PollSleep
  <2>1. TypeOK
    BY DEF WindowInv
  <2>2. got \in Nat /\ Len(arrived) \in Nat /\ arrived \in Seq(Nat)
    BY <2>1, Types
  <2>3. got + 1 \in 1 .. Len(arrived)
    BY <2>2
  <2>4. x \in Nat
    BY <2>2, <2>3, ElementOfSeq
  <2>5. x >= wake - PollSleep
    BY DEF WindowInv, PollsInStep
  <2> QED
    BY <2>4, <2>5
<1>4. wake >= (a + n * k) * Tick /\ PollSleep = k * Tick
  BY DEF WindowInv, PollsInStep, CamInStep, PollTime, PollSleep
<1>5. c + Tick <= (n - 1) * PollSleep /\ c \in Nat
  BY <1>1, TimesNat DEF PollsFit
<1> HIDE DEF a, k, x, n, c
<1>6. PICK p \in Nat : n = p + 1 /\ p = n - 1
  BY <1>1
<1>7. /\ (a + (p + 1) * k) * Tick = a * Tick + p * (k * Tick) + k * Tick
      /\ a * Tick \in Nat /\ p * (k * Tick) \in Nat /\ k * Tick \in Nat
  BY <1>1, <1>2
<1>8. wake >= a * Tick + p * (k * Tick) + k * Tick
  BY <1>4, <1>6, <1>7
<1>9. c + Tick <= p * (k * Tick)
  BY <1>4, <1>5, <1>6
<1>10. x > asked + c
  BY <1>1, <1>2, <1>3, <1>4, <1>5, <1>7, <1>8, <1>9
<1> QED
  BY <1>10 DEF x, c

\* SlowByteAccepted of SpiWindow, from PollsFit: the camera gives up a byte only
\* if it arrives later than SIZE_POLLS times SIZE_POLL after the first read, as
\* the comment at the polling loop has it.
THEOREM SlowByteIsAccepted ==
  ASSUME PollsFit
  PROVE  Spec => []SlowByteAccepted
<1>1. WindowInv => SlowByteAccepted
  BY FailedTooLate
<1> QED
  BY <1>1, WindowInvariant, PTL
=============================================================================
