----------------------------- MODULE CameraLink -----------------------------
(***************************************************************************)
(* The UART dialogue of camera_MSN2_main with the OpenMV camera, byte by   *)
(* byte: the handshake with its retries, CMD_CAPTURE, and the header (ACK, *)
(* size, metadata length, metadata) up to the point where the SPI transfer *)
(* starts.  The app may be started again after it returned, while OpenMV   *)
(* still answers the earlier run.                                          *)
(*                                                                         *)
(* OpenMV is external (its script is not in the repository): it answers    *)
(* the commands in the order received, each answer at any later time, and  *)
(* the line may lose bytes in both directions.  A byte carries the command *)
(* it answers; the code only sees its value.                               *)
(***************************************************************************)
EXTENDS Integers, Sequences

CONSTANTS
  HANDSHAKE_TRIES,  \* handshake attempts
  HANDSHAKE_POLLS,  \* polls per attempt
  ACK_POLLS,        \* polls for the ACK of CMD_CAPTURE
  SIZE_POLLS,       \* polls for each byte of the header
  IMG_BUF_SIZE,     \* the largest image accepted
  META_BUF_SIZE,    \* the metadata must be shorter than this
  Frames,           \* the images OpenMV may capture: size and metadata
  Bounds            \* bound: pairs of bytes lost and times the app is started

CMD_HANDSHAKE == 1
CMD_CAPTURE   == 2
ACK_BYTE      == 170
Byte          == 0 .. 255

\* The low byte of a number, and the rest.
Low(n)  == n % 256
High(n) == n \div 256

ASSUME LinkAssumption ==
  /\ {HANDSHAKE_TRIES, HANDSHAKE_POLLS, ACK_POLLS, SIZE_POLLS} \subseteq Nat \ {0}
  /\ {IMG_BUF_SIZE, META_BUF_SIZE} \subseteq Nat
  /\ Bounds \subseteq Nat \X (Nat \ {0}) /\ <<0, 1>> \in Bounds
  /\ \A f \in Frames : /\ f.size \in Nat /\ High(High(High(f.size))) \in Byte
                       /\ f.meta \in Seq(Byte) /\ High(Len(f.meta)) \in Byte

\* What the absence of framing relies on.  A size whose second byte is ACK_BYTE
\* and a length whose second byte is not zero are refused; the metadata is text
\* (the app prints meta_buf as a string), and its length takes one byte.
BuffersFit == IMG_BUF_SIZE < 256 * ACK_BYTE /\ META_BUF_SIZE <= 256
MetaIsText == \A f \in Frames : /\ Len(f.meta) \in 1 .. 255
                                /\ \A i \in 1 .. Len(f.meta) : f.meta[i] # 0
\* Bytes are lost, or the app is started again, not both.
OneFault   == \A b \in Bounds : b[1] = 0 \/ b[2] = 1

VARIABLES
  cam,       \* where camera_MSN2_main is
  attempt,   \* handshake attempts made
  polls,     \* polls made in the current wait
  got,       \* bytes the current uart_read_exact has stored
  img_size, meta_len, meta_buf,
  rx,        \* bytes received and not read: the driver's RX buffer
  cmds,      \* commands sent and not yet read by OpenMV
  omv,       \* OpenMV: "wait", "answer" or "spi" (blocked in spi.send_recv)
  out,       \* bytes OpenMV has still to write
  frame,     \* the image of OpenMV's last header
  ackOf,     \* the command that the ACK taken for CMD_CAPTURE's answers
  lost, session

waitVars   == <<attempt, polls, got>>
headerVars == <<img_size, meta_len, meta_buf, ackOf>>
omvVars    == <<omv, out, frame>>
vars == <<cam, waitVars, headerVars, rx, cmds, omvVars, lost, session>>

NoFrame == [size |-> 0, meta |-> <<>>]

Init ==
  /\ cam = "start" /\ attempt = 0 /\ polls = 0 /\ got = <<>>
  /\ img_size = 0 /\ meta_len = 0 /\ meta_buf = <<>> /\ ackOf = "none"
  /\ rx = <<>> /\ cmds = <<>>
  /\ omv = "wait" /\ out = <<>> /\ frame = NoFrame
  /\ lost = 0 /\ session = 1

-----------------------------------------------------------------------------
(* Opening the devices, and uart_handshake                                 *)

UartFlush        == rx' = <<>>
UartWriteByte(v) == cmds' = Append(cmds, v)

OpenFails ==
  /\ cam = "start"
  /\ cam' = "failed"
  /\ UNCHANGED <<waitVars, headerVars, rx, cmds, omvVars, lost, session>>

\* open, uart_configure, uart_flush; then SPI may fail to initialise.
Open ==
  /\ cam = "start"
  /\ UartFlush
  /\ cam' \in {"attempt", "failed"}
  /\ UNCHANGED <<waitVars, headerVars, cmds, omvVars, lost, session>>

\* uart_flush, then CMD_HANDSHAKE.
HandshakeSend ==
  /\ cam = "attempt"
  /\ attempt < HANDSHAKE_TRIES
  /\ UartFlush
  /\ UartWriteByte(CMD_HANDSHAKE)
  /\ cam' = "poll" /\ attempt' = attempt + 1 /\ polls' = 0
  /\ UNCHANGED <<got, headerVars, omvVars, lost, session>>

HandshakeFailed ==
  /\ cam = "attempt"
  /\ attempt = HANDSHAKE_TRIES
  /\ cam' = "failed"
  /\ UNCHANGED <<waitVars, headerVars, rx, cmds, omvVars, lost, session>>

AckReceived == IF rx = <<>> THEN FALSE ELSE Head(rx).v = ACK_BYTE

HandshakeOk ==
  /\ cam = "poll"
  /\ AckReceived
  /\ UartFlush
  /\ cam' = "capture"
  /\ UNCHANGED <<waitVars, headerVars, cmds, omvVars, lost, session>>

\* No byte, or one that is not an ACK and is dropped: sleep and poll again.
HandshakePoll ==
  /\ cam = "poll"
  /\ ~AckReceived
  /\ rx' = IF rx = <<>> THEN rx ELSE Tail(rx)
  /\ polls' = polls + 1
  /\ cam' = IF polls' = HANDSHAKE_POLLS THEN "attempt" ELSE "poll"
  /\ UNCHANGED <<attempt, got, headerVars, cmds, omvVars, lost, session>>

-----------------------------------------------------------------------------
(* CMD_CAPTURE and the header                                              *)

Capture ==
  /\ cam = "capture"
  /\ UartFlush
  /\ UartWriteByte(CMD_CAPTURE)
  /\ cam' = "ack" /\ polls' = 0
  /\ UNCHANGED <<attempt, got, headerVars, omvVars, lost, session>>

ReadAck ==
  /\ cam = "ack"
  /\ rx # <<>>
  /\ rx' = Tail(rx)
  /\ cam' = IF AckReceived THEN "size" ELSE "failed"
  /\ ackOf' = Head(rx).re
  /\ polls' = 0 /\ got' = <<>>
  /\ UNCHANGED <<attempt, img_size, meta_len, meta_buf, cmds, omvVars, lost, session>>

Waiting   == cam \in {"ack", "size", "mlen", "meta"} /\ rx = <<>>
PollLimit == IF cam = "ack" THEN ACK_POLLS ELSE SIZE_POLLS

\* Mutant of ReadPoll: the retries are not counted.
ReadPollForever ==
  /\ Waiting
  /\ UNCHANGED vars

\* Mutant of ReadPoll: one retry more than the limit.
ReadPollOneMore ==
  /\ Waiting
  /\ polls' = polls + 1
  /\ cam' = IF polls' > PollLimit THEN "failed" ELSE cam
  /\ UNCHANGED <<attempt, got, headerVars, rx, cmds, omvVars, lost, session>>

\* Mutant of ReadPoll: the timeout of the metadata is taken for its end.
ReadPollEndsMeta ==
  /\ Waiting
  /\ polls' = polls + 1
  /\ meta_buf' = IF cam = "meta" THEN got ELSE meta_buf
  /\ cam' = IF polls' < PollLimit THEN cam ELSE IF cam = "meta" THEN "spi" ELSE "failed"
  /\ UNCHANGED <<attempt, got, img_size, meta_len, ackOf, rx, cmds, omvVars, lost, session>>

\* uart_read_byte finds nothing: sleep, and give up after the last retry.
ReadPoll ==
  /\ Waiting
  /\ polls' = polls + 1
  /\ cam' = IF polls' = PollLimit THEN "failed" ELSE cam
  /\ UNCHANGED <<attempt, got, headerVars, rx, cmds, omvVars, lost, session>>

\* Little-endian bytes to a number; a fourth byte that is not zero makes the
\* size too large whatever its value, and is not multiplied out.
Le2(s) == s[1] + 256 * s[2]
Le4(s) == s[1] + 256 * (s[2] + 256 * (s[3] + (IF s[4] = 0 THEN 0 ELSE 256)))

SizeOk(n) == n # 0 /\ n <= IMG_BUF_SIZE

MetaOk(n) == n # 0 /\ n < META_BUF_SIZE

\* The bytes of the field being read, with the one at the head of rx.
Field == Append(got, Head(rx).v)

\* uart_read_exact stores the next byte of a field of n bytes; the retries
\* start again for every byte.
ReadMore(n) ==
  /\ rx # <<>>
  /\ rx' = Tail(rx)
  /\ polls' = 0
  /\ Len(Field) < n
  /\ got' = Field
  /\ UNCHANGED <<cam, attempt, headerVars, cmds, omvVars, lost, session>>

\* The last byte of the field.
ReadLast(n) ==
  /\ rx # <<>>
  /\ rx' = Tail(rx)
  /\ polls' = 0
  /\ Len(Field) = n
  /\ got' = <<>>
  /\ UNCHANGED <<attempt, ackOf, cmds, omvVars, lost, session>>

ReadSize ==
  /\ cam = "size"
  /\ \/ ReadMore(4)
     \/ /\ ReadLast(4)
        /\ img_size' = Le4(Field)
        /\ cam' = IF SizeOk(img_size') THEN "mlen" ELSE "failed"
        /\ UNCHANGED <<meta_len, meta_buf>>

ReadMetaLen ==
  /\ cam = "mlen"
  /\ \/ ReadMore(2)
     \/ /\ ReadLast(2)
        /\ meta_len' = Le2(Field)
        /\ cam' = IF MetaOk(meta_len') THEN "meta" ELSE "failed"
        /\ UNCHANGED <<img_size, meta_buf>>

ReadMeta ==
  /\ cam = "meta"
  /\ \/ ReadMore(meta_len)
     \/ /\ ReadLast(meta_len)
        /\ meta_buf' = Field
        /\ cam' = "spi"
        /\ UNCHANGED <<img_size, meta_len>>

\* The SPI transfer (module Pipeline): OpenMV leaves spi.send_recv, if it is
\* there, and the app returns.
SpiTransfer ==
  /\ cam = "spi"
  /\ cam' = "returned"
  /\ omv' = IF omv = "spi" THEN "wait" ELSE omv
  /\ UNCHANGED <<waitVars, headerVars, rx, cmds, out, frame, lost, session>>

\* The app is started again, while OpenMV still answers the earlier run.
Restart ==
  /\ cam \in {"failed", "returned"}
  /\ <<lost, session + 1>> \in Bounds
  /\ session' = session + 1
  /\ cam' = "start" /\ attempt' = 0 /\ polls' = 0 /\ got' = <<>>
  /\ img_size' = 0 /\ meta_len' = 0 /\ meta_buf' = <<>> /\ ackOf' = "none"
  /\ UNCHANGED <<rx, cmds, omvVars, lost>>

-----------------------------------------------------------------------------
(* OpenMV and the line                                                     *)

Bytes2(n) == <<Low(n), High(n)>>
Bytes4(n) == <<Low(n), Low(High(n)), Low(High(High(n))), High(High(High(n)))>>

Header(f) == <<ACK_BYTE>> \o Bytes4(f.size) \o Bytes2(Len(f.meta)) \o f.meta
Tagged(s, cmd) == [i \in 1 .. Len(s) |-> [v |-> s[i], re |-> cmd]]

OmvHandshake ==
  /\ omv = "wait"
  /\ cmds # <<>> /\ Head(cmds) = CMD_HANDSHAKE
  /\ cmds' = Tail(cmds)
  /\ omv' = "answer"
  /\ out' = Tagged(<<ACK_BYTE>>, "handshake")
  /\ UNCHANGED <<cam, waitVars, headerVars, rx, frame, lost, session>>

OmvCapture ==
  /\ omv = "wait"
  /\ cmds # <<>> /\ Head(cmds) = CMD_CAPTURE
  /\ cmds' = Tail(cmds)
  /\ omv' = "answer"
  /\ \E f \in Frames : frame' = f /\ out' = Tagged(Header(f), "capture")
  /\ UNCHANGED <<cam, waitVars, headerVars, rx, lost, session>>

\* After the last byte of a header OpenMV goes to spi.send_recv.
AfterByte ==
  IF Tail(out) # <<>> THEN "answer"
  ELSE IF Head(out).re = "capture" THEN "spi" ELSE "wait"

OmvWrite ==
  /\ out # <<>>
  /\ out' = Tail(out)
  /\ omv' = AfterByte
  /\ rx' = Append(rx, Head(out))
  /\ UNCHANGED <<cam, waitVars, headerVars, cmds, frame, lost, session>>

LoseByte ==
  /\ out # <<>>
  /\ <<lost + 1, session>> \in Bounds
  /\ lost' = lost + 1
  /\ out' = Tail(out)
  /\ omv' = AfterByte
  /\ UNCHANGED <<cam, waitVars, headerVars, rx, cmds, frame, session>>

LoseCommand ==
  /\ cmds # <<>>
  /\ <<lost + 1, session>> \in Bounds
  /\ lost' = lost + 1
  /\ cmds' = Tail(cmds)
  /\ UNCHANGED <<cam, waitVars, headerVars, rx, omvVars, session>>

\* spi.send_recv gives up after seconds: the camera, which reads what it has
\* received at once and selects 25 ms after the last byte, is not about to.
OmvSpiTimeout ==
  /\ omv = "spi"
  /\ rx = <<>> /\ cam # "spi"
  /\ omv' = "wait"
  /\ UNCHANGED <<cam, waitVars, headerVars, rx, cmds, out, frame, lost, session>>

-----------------------------------------------------------------------------
Camera == OpenFails \/ Open \/ HandshakeSend \/ HandshakeFailed \/ HandshakeOk \/ HandshakePoll
            \/ Capture \/ ReadAck \/ ReadPoll \/ ReadSize \/ ReadMetaLen \/ ReadMeta \/ SpiTransfer
OpenMV == OmvHandshake \/ OmvCapture \/ OmvWrite \/ LoseByte \/ LoseCommand \/ OmvSpiTimeout

Next == Camera \/ Restart \/ OpenMV

Spec == Init /\ [][Next]_vars

(* The camera task is run again and again; OpenMV need not answer at all.  *)
FairSpec == Spec /\ WF_vars(Camera)

-----------------------------------------------------------------------------
(* Properties                                                              *)

TaggedByte == [v : Byte, re : {"handshake", "capture"}]

\* Type invariant; every wait stays within its number of polls.
TypeOK ==
  /\ cam \in {"start", "attempt", "poll", "capture", "ack", "size", "mlen", "meta", "spi",
              "failed", "returned"}
  /\ attempt \in 0 .. HANDSHAKE_TRIES
  /\ polls \in Nat
  /\ cam \in {"size", "mlen", "meta"} => polls < SIZE_POLLS
  /\ got \in Seq(Byte)
  /\ img_size \in Nat /\ meta_len \in Nat /\ meta_buf \in Seq(Byte)
  /\ rx \in Seq(TaggedByte) /\ out \in Seq(TaggedByte)
  /\ cmds \in Seq({CMD_HANDSHAKE, CMD_CAPTURE})
  /\ omv \in {"wait", "answer", "spi"}
  /\ frame \in Frames \cup {NoFrame}
  /\ ackOf \in {"none", "handshake", "capture"}
  /\ <<lost, session>> \in Bounds

\* The UART has no framing and no checksum.  Still a header from which bytes are
\* missing, or which a stale ACK has shifted, is never accepted: when the SPI
\* transfer starts, the size, the length and the metadata are the ones of the
\* image OpenMV is about to send, and OpenMV has no byte left to write.  Only a
\* stale ACK and a lost byte together, which cancel out, can pass for a header.
HeaderIntegrity ==
  cam = "spi" /\ (ackOf = "capture" \/ lost = 0) =>
    /\ img_size = frame.size
    /\ meta_len = Len(frame.meta)
    /\ meta_buf = frame.meta
    /\ out = <<>>

\* The app returns, whatever OpenMV does or does not answer.
AppReturns == cam \notin {"failed", "returned"} ~> cam \in {"failed", "returned"}

\* README: "The UART RX buffer is flushed before each attempt to discard stale
\* bytes": the ACK that CMD_CAPTURE is taken to have is not an earlier one.
AckAnswersCapture == cam \in {"size", "mlen", "meta", "spi"} => ackOf = "capture"
=============================================================================
