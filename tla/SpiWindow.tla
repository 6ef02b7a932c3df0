----------------------------- MODULE SpiWindow ------------------------------
(***************************************************************************)
(* The camera task's waits in real time.  OpenMV writes its answer over    *)
(* UART, pauses, and sits in spi.send_recv until it times out; the camera  *)
(* polls for each byte with usleep between the polls, sleeps SPI_CS_DELAY  *)
(* after the last one, and selects.  There is no other synchronisation:    *)
(* whether CS falls into OpenMV's window, and whether a slow byte is still *)
(* accepted, depends on how long usleep really lasts, and that depends on  *)
(* the phase of the system timer.                                          *)
(*                                                                         *)
(* Time is in milliseconds.  The system timer ticks at the multiples of    *)
(* Tick.  A task that is ready runs within MaxLag.                         *)
(***************************************************************************)
EXTENDS Integers, Sequences

CONSTANTS
  Tick,          \* USEC_PER_TICK, in ms
  SIZE_POLLS,    \* reads of one byte before the camera gives up
  SIZE_POLL,     \* SIZE_POLL_US, in ms
  SPI_CS_DELAY,  \* SPI_CS_DELAY_US, in ms
  OmvDelay,      \* OpenMV's pyb.delay between its last byte and send_recv
  OmvTimeout,    \* the timeout of OpenMV's spi.send_recv
  MaxLag,        \* bound: ms a ready task may wait for the processor
  Bytes,         \* bound: bytes of the answer
  MaxGap         \* bound: ms between two bytes of the answer

ASSUME WindowAssumption ==
  /\ {Tick, SIZE_POLLS, SIZE_POLL, Bytes} \subseteq Nat \ {0}
  /\ {SPI_CS_DELAY, OmvDelay, OmvTimeout, MaxLag, MaxGap} \subseteq Nat

VARIABLES
  now,      \* the time
  cam,      \* "read", "sleep", "delay", "select", "selected", "failed"
  ready,    \* the time at which the camera was last ready to run
  wake,     \* the time at which its usleep ends
  polls,    \* reads of the current byte that found nothing
  asked,    \* the time of the first read of the current byte
  got,      \* bytes read
  arrived,  \* arrived[i]: the time at which byte i arrived
  omv       \* "write", "delay", "spi", "gone"

vars == <<now, cam, ready, wake, polls, asked, got, arrived, omv>>

Init ==
  /\ now \in 0 .. Tick - 1
  /\ cam = "read" /\ ready = now /\ wake = now
  /\ polls = 0 /\ asked = now /\ got = 0
  /\ arrived = <<>> /\ omv = "write"

-----------------------------------------------------------------------------
(* usleep: clock_nanosleep, nxsig_clockwait, the watchdog                  *)

\* clock_time2ticks rounds up.
Ticks(ms) == (ms + Tick - 1) \div Tick

\* Mutant of Expires: without the tick clock_delay2abstick adds.
ExpiresEarly(ms) == (now \div Tick + Ticks(ms)) * Tick

\* clock_delay2abstick: one tick more, as the current one has partly passed.
Expires(ms) == (now \div Tick + Ticks(ms) + 1) * Tick

Usleep(ms) == wake' = Expires(ms)

\* Mutant of Wakeup: one poll too many.
WakeupOneMore ==
  /\ cam \in {"sleep", "delay"}
  /\ now = wake
  /\ cam' = IF cam = "delay" THEN "select"
            ELSE IF polls > SIZE_POLLS THEN "failed" ELSE "read"
  /\ ready' = now
  /\ UNCHANGED <<now, wake, polls, asked, got, arrived, omv>>

\* nxsig_timeout, from the timer interrupt.
Wakeup ==
  /\ cam \in {"sleep", "delay"}
  /\ now = wake
  /\ cam' = IF cam = "delay" THEN "select"
            ELSE IF polls = SIZE_POLLS THEN "failed" ELSE "read"
  /\ ready' = now
  /\ UNCHANGED <<now, wake, polls, asked, got, arrived, omv>>

-----------------------------------------------------------------------------
(* camera_MSN2_main                                                        *)

\* read finds nothing: one poll more, and sleep.
ReadNothing ==
  /\ cam = "read"
  /\ Len(arrived) = got
  /\ cam' = "sleep"
  /\ polls' = polls + 1
  /\ asked' = IF polls = 0 THEN now ELSE asked
  /\ Usleep(SIZE_POLL)
  /\ UNCHANGED <<now, ready, got, arrived, omv>>

\* Mutant of ReadByte: the polls are those of the whole field.
ReadByteKeepsPolls ==
  /\ cam = "read"
  /\ Len(arrived) > got
  /\ got' = got + 1
  /\ asked' = now
  /\ IF got' = Bytes
     THEN cam' = "delay" /\ Usleep(SPI_CS_DELAY) /\ ready' = ready
     ELSE cam' = "read" /\ ready' = now /\ wake' = wake
  /\ UNCHANGED <<now, polls, arrived, omv>>

\* read finds a byte: the next one, with its own polls, or the delay before CS.
ReadByte ==
  /\ cam = "read"
  /\ Len(arrived) > got
  /\ got' = got + 1
  /\ polls' = 0
  /\ asked' = now
  /\ IF got' = Bytes
     THEN cam' = "delay" /\ Usleep(SPI_CS_DELAY) /\ ready' = ready
     ELSE cam' = "read" /\ ready' = now /\ wake' = wake
  /\ UNCHANGED <<now, arrived, omv>>

\* SPI_SELECT
Select ==
  /\ cam = "select"
  /\ cam' = "selected"
  /\ UNCHANGED <<now, ready, wake, polls, asked, got, arrived, omv>>

-----------------------------------------------------------------------------
(* OpenMV, external.  It may also stop writing.                            *)

LastArrival == arrived[Len(arrived)]
Since == now - LastArrival

OmvWrite ==
  /\ omv = "write"
  /\ arrived # <<>> => Since <= MaxGap
  /\ arrived' = Append(arrived, now)
  /\ omv' = IF Len(arrived') = Bytes THEN "delay" ELSE "write"
  /\ UNCHANGED <<now, cam, ready, wake, polls, asked, got>>

OmvEnter ==
  /\ omv = "delay"
  /\ Since = OmvDelay
  /\ omv' = "spi"
  /\ UNCHANGED <<now, cam, ready, wake, polls, asked, got, arrived>>

OmvGone ==
  /\ omv = "spi"
  /\ Since = OmvDelay + OmvTimeout
  /\ cam # "selected"
  /\ omv' = "gone"
  /\ UNCHANGED <<now, cam, ready, wake, polls, asked, got, arrived>>

-----------------------------------------------------------------------------
\* Time passes up to the next thing that is due.
Advance ==
  /\ cam # "selected"
  /\ cam = "failed" => omv \in {"delay", "spi"}
  /\ cam \in {"sleep", "delay"} => now < wake
  /\ cam \in {"read", "select"} => now < ready + MaxLag
  /\ omv = "delay" => Since < OmvDelay
  /\ omv = "spi" => Since < OmvDelay + OmvTimeout
  /\ now' = now + 1
  /\ UNCHANGED <<cam, ready, wake, polls, asked, got, arrived, omv>>

Camera == ReadNothing \/ ReadByte \/ Wakeup \/ Select

Next == Camera \/ OmvWrite \/ OmvEnter \/ OmvGone \/ Advance

Spec == Init /\ [][Next]_vars

-----------------------------------------------------------------------------
(* What the properties ask of the constants                                *)

PollTicks  == Ticks(SIZE_POLL)
DelayTicks == Ticks(SPI_CS_DELAY)

\* The length of a sleep between two polls, and of the delay before CS, from the
\* start of the tick they begin in.
PollSleep == (PollTicks + 1) * Tick
CsDelay   == (DelayTicks + 1) * Tick

\* From the arrival of the last byte to the read that finds it.
ReadLatency == PollSleep + Bytes * MaxLag

\* The delay before CS, in whole ticks, is no shorter than OpenMV's, and the
\* longest way from the last byte to CS ends before OpenMV's timeout.
WindowFits ==
  /\ OmvDelay <= DelayTicks * Tick
  /\ ReadLatency + CsDelay + MaxLag < OmvDelay + OmvTimeout

\* All sleeps but the last one cover the time the polls stand for, although the
\* first may begin at the end of a tick.
PollsFit ==
  SIZE_POLLS * SIZE_POLL + Tick <= (SIZE_POLLS - 1) * PollSleep

-----------------------------------------------------------------------------
(* Properties                                                              *)

\* Type invariant; the wake-up time of a sleeping camera has not passed.
TypeOK ==
  /\ {now, ready, wake, asked} \subseteq Nat
  /\ cam \in {"read", "sleep", "delay", "select", "selected", "failed"}
  /\ polls \in 0 .. SIZE_POLLS /\ got \in 0 .. Bytes
  /\ arrived \in Seq(Nat) /\ Len(arrived) <= Bytes
  /\ omv \in {"write", "delay", "spi", "gone"}
  /\ cam \in {"sleep", "delay"} => now <= wake

\* README: "Asserting CS too early results in a missed SPI window."  When the
\* camera selects, OpenMV is in spi.send_recv: the 25 ms asked for, which are
\* fewer than OpenMV's 30, last more than 30 in ticks of 10 ms whatever the
\* phase, and the polls before them do not outlast OpenMV's timeout.
CsInWindow == cam = "selected" => omv = "spi"

\* The comment "x 10 ms = 500 ms total": a byte that arrives within SIZE_POLLS
\* times SIZE_POLL of the camera's first read is accepted; a timeout does not
\* race it, although the last sleep is followed by no read.
SlowByteAccepted ==
  cam = "failed" /\ Len(arrived) > got => arrived[got + 1] > asked + SIZE_POLLS * SIZE_POLL
=============================================================================
