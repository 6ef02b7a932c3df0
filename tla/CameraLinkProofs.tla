-------------------------- MODULE CameraLinkProofs --------------------------
(***************************************************************************)
(* Proofs about CameraLink for every number of attempts and polls, every   *)
(* set of images and every number of faults: the types, and that a header  *)
(* is accepted only if it is the one OpenMV has sent.                      *)
(***************************************************************************)
EXTENDS CameraLink, SequenceTheorems, TLAPS

-----------------------------------------------------------------------------
(* Bytes, sequences and the header                                         *)

LEMMA TailIs ==
  ASSUME NEW S, NEW s \in Seq(S), s # <<>>
  PROVE  /\ Head(s) \in S /\ Head(s) = s[1] /\ Tail(s) \in Seq(S)
         /\ Len(s) \in Nat \ {0} /\ Len(Tail(s)) = Len(s) - 1
         /\ \A i \in 1 .. Len(s) - 1 : Tail(s)[i] = s[i + 1]
<1>1. Len(s) \in Nat \ {0}
  BY EmptySeq
<1> QED
  BY <1>1, HeadTailProperties

LEMMA ConstantTypes ==
  /\ HANDSHAKE_TRIES \in Nat \ {0} /\ HANDSHAKE_POLLS \in Nat \ {0}
  /\ ACK_POLLS \in Nat \ {0} /\ SIZE_POLLS \in Nat \ {0}
  /\ IMG_BUF_SIZE \in Nat /\ META_BUF_SIZE \in Nat
  /\ Bounds \subseteq Nat \X (Nat \ {0}) /\ <<0, 1>> \in Bounds
  BY LinkAssumption

LEMMA ByteIs ==
  ASSUME NEW x \in Byte
  PROVE  x \in Nat /\ x < 256
  BY DEF Byte

\* The bytes struct.pack makes of a number.
LEMMA PackIs ==
  ASSUME NEW n \in Nat
  PROVE  Low(n) \in Byte /\ High(n) \in Nat /\ n = Low(n) + 256 * High(n)
  BY DEF Byte, Low, High

LEMMA FrameIs ==
  ASSUME NEW f \in Frames
  PROVE  /\ f.size \in Nat /\ High(High(High(f.size))) \in Byte
         /\ f.meta \in Seq(Byte) /\ Len(f.meta) \in Nat /\ High(Len(f.meta)) \in Byte
<1>1. /\ f.size \in Nat /\ High(High(High(f.size))) \in Byte
      /\ f.meta \in Seq(Byte) /\ High(Len(f.meta)) \in Byte
  BY LinkAssumption
<1> QED
  BY <1>1, LenProperties

LEMMA AckAndSize ==
  ASSUME NEW S, NEW a \in S, NEW b1 \in S, NEW b2 \in S, NEW b3 \in S, NEW b4 \in S
  PROVE  LET d == <<a>> \o <<b1, b2, b3, b4>>
         IN  /\ d \in Seq(S) /\ Len(d) = 5
             /\ d[1] = a /\ d[2] = b1 /\ d[3] = b2 /\ d[4] = b3 /\ d[5] = b4
  OBVIOUS

LEMMA ThenPair ==
  ASSUME NEW S, NEW d \in Seq(S), Len(d) = 5, NEW c1 \in S, NEW c2 \in S
  PROVE  LET e == d \o <<c1, c2>>
         IN  /\ e \in Seq(S) /\ Len(e) = 7
             /\ e[1] = d[1] /\ e[2] = d[2] /\ e[3] = d[3] /\ e[4] = d[4] /\ e[5] = d[5]
             /\ e[6] = c1 /\ e[7] = c2
<1> DEFINE c == <<c1, c2>>
           e == d \o c
<1>1. c \in Seq(S) /\ Len(c) = 2 /\ c[1] = c1 /\ c[2] = c2
  OBVIOUS
<1> HIDE DEF c
<1>2. /\ e \in Seq(S) /\ Len(e) = Len(d) + Len(c)
      /\ \A i \in 1 .. Len(d) + Len(c) : e[i] = IF i <= Len(d) THEN d[i] ELSE c[i - Len(d)]
  BY <1>1, ConcatProperties
<1> HIDE DEF e
<1>3. /\ e \in Seq(S) /\ Len(e) = 7
      /\ e[1] = d[1] /\ e[2] = d[2] /\ e[3] = d[3] /\ e[4] = d[4] /\ e[5] = d[5]
      /\ e[6] = c[1] /\ e[7] = c[2]
  BY <1>1, <1>2
<1> QED
  BY <1>1, <1>3 DEF e, c

LEMMA HeaderIs ==
  ASSUME NEW f \in Frames
  PROVE  /\ Header(f) \in Seq(Byte)
         /\ Len(Header(f)) = 7 + Len(f.meta)
         /\ Header(f)[1] = ACK_BYTE
         /\ Header(f)[2] = Low(f.size)
         /\ Header(f)[3] = Low(High(f.size))
         /\ Header(f)[4] = Low(High(High(f.size)))
         /\ Header(f)[5] = High(High(High(f.size)))
         /\ Header(f)[6] = Low(Len(f.meta))
         /\ Header(f)[7] = High(Len(f.meta))
         /\ \A j \in 8 .. 7 + Len(f.meta) : Header(f)[j] = f.meta[j - 7]
<1> DEFINE m  == f.meta
           b1 == Low(f.size)
           b2 == Low(High(f.size))
           b3 == Low(High(High(f.size)))
           b4 == High(High(High(f.size)))
           c1 == Low(Len(m))
           c2 == High(Len(m))
           d  == <<ACK_BYTE>> \o <<b1, b2, b3, b4>>
           e  == d \o <<c1, c2>>
           h  == e \o m
<1>1. m \in Seq(Byte) /\ b4 \in Byte /\ c2 \in Byte
  BY FrameIs
<1>2. b1 \in Byte /\ b2 \in Byte /\ b3 \in Byte /\ c1 \in Byte
  BY FrameIs, PackIs
<1>3. ACK_BYTE \in Byte
  BY DEF ACK_BYTE, Byte
<1>4. Header(f) = h
  BY DEF Header, Bytes4, Bytes2
<1> HIDE DEF b1, b2, b3, b4, c1, c2, m
<1>5. /\ d \in Seq(Byte) /\ Len(d) = 5
      /\ d[1] = ACK_BYTE /\ d[2] = b1 /\ d[3] = b2 /\ d[4] = b3 /\ d[5] = b4
  BY <1>1, <1>2, <1>3, AckAndSize
<1> HIDE DEF d
<1>6. /\ e \in Seq(Byte) /\ Len(e) = 7
      /\ e[1] = d[1] /\ e[2] = d[2] /\ e[3] = d[3] /\ e[4] = d[4] /\ e[5] = d[5]
      /\ e[6] = c1 /\ e[7] = c2
  BY <1>1, <1>2, <1>5, ThenPair
<1> HIDE DEF e
<1>7. h = e \o m
  OBVIOUS
<1> HIDE DEF h
<1>8. /\ h \in Seq(Byte) /\ Len(h) = Len(e) + Len(m)
      /\ \A i \in 1 .. Len(e) + Len(m) : h[i] = IF i <= Len(e) THEN e[i] ELSE m[i - Len(e)]
  BY <1>1, <1>6, <1>7, ConcatProperties
<1>9. Len(m) \in Nat
  BY <1>1, LenProperties
<1>10. /\ h \in Seq(Byte) /\ Len(h) = 7 + Len(m)
      /\ h[1] = ACK_BYTE /\ h[2] = b1 /\ h[3] = b2 /\ h[4] = b3 /\ h[5] = b4
      /\ h[6] = c1 /\ h[7] = c2
      /\ \A j \in 8 .. 7 + Len(m) : h[j] = m[j - 7]
  <2>1. Len(h) = 7 + Len(m) /\ \A j \in 8 .. 7 + Len(m) : h[j] = m[j - 7]
    BY <1>6, <1>8, <1>9
  <2>2. /\ h[1] = e[1] /\ h[2] = e[2] /\ h[3] = e[3] /\ h[4] = e[4] /\ h[5] = e[5]
        /\ h[6] = e[6] /\ h[7] = e[7]
    BY <1>6, <1>8, <1>9
  <2> QED
    BY <1>5, <1>6, <1>8, <2>1, <2>2
<1> QED
  BY <1>4, <1>10 DEF b1, b2, b3, b4, c1, c2, m

LEMMA TaggedIs ==
  ASSUME NEW s \in Seq(Byte), NEW cmd \in {"handshake", "capture"}
  PROVE  /\ Tagged(s, cmd) \in Seq(TaggedByte) /\ Len(Tagged(s, cmd)) = Len(s)
         /\ \A i \in 1 .. Len(s) : Tagged(s, cmd)[i] = [v |-> s[i], re |-> cmd]
<1>1. Len(s) \in Nat /\ \A i \in 1 .. Len(s) : s[i] \in Byte
  BY LenProperties, ElementOfSeq
<1>2. \A i \in 1 .. Len(s) : [v |-> s[i], re |-> cmd] \in TaggedByte
  BY <1>1 DEF TaggedByte
<1> QED
  BY <1>1, <1>2 DEF Tagged

-----------------------------------------------------------------------------
(* The types                                                               *)

\* The byte at the head of rx.
LEMMA NextByte ==
  ASSUME TypeOK, rx # <<>>
  PROVE  /\ Head(rx).v \in Byte /\ Head(rx).re \in {"handshake", "capture"}
         /\ Tail(rx) \in Seq(TaggedByte)
         /\ Field \in Seq(Byte) /\ Len(Field) = Len(got) + 1
         /\ Len(got) \in Nat
         /\ \A i \in 1 .. Len(got) : Field[i] = got[i]
         /\ Field[Len(got) + 1] = Head(rx).v
<1>1. rx \in Seq(TaggedByte) /\ got \in Seq(Byte)
  BY DEF TypeOK
<1>2. Head(rx) \in TaggedByte /\ Tail(rx) \in Seq(TaggedByte)
  BY <1>1, TailIs
<1>3. Head(rx).v \in Byte /\ Head(rx).re \in {"handshake", "capture"}
  BY <1>2 DEF TaggedByte
<1>4. Len(got) \in Nat
  BY <1>1, LenProperties
<1> QED
  BY <1>1, <1>2, <1>3, <1>4, AppendProperties DEF Field

LEMMA SomeCommand ==
  ASSUME TypeOK, cmds # <<>>
  PROVE  Tail(cmds) \in Seq({CMD_HANDSHAKE, CMD_CAPTURE})
  BY TailIs DEF TypeOK

LEMMA NextOut ==
  ASSUME TypeOK, out # <<>>
  PROVE  /\ Head(out) \in TaggedByte /\ Tail(out) \in Seq(TaggedByte)
         /\ AfterByte \in {"answer", "spi", "wait"}
  BY TailIs DEF TypeOK, AfterByte

LEMMA InitTypes == Init => TypeOK
<1> SUFFICES ASSUME Init PROVE TypeOK
  OBVIOUS
<1>1. 0 \in 0 .. HANDSHAKE_TRIES /\ <<0, 1>> \in Bounds
  BY ConstantTypes
<1>2. <<>> \in Seq(Byte) /\ <<>> \in Seq(TaggedByte) /\ <<>> \in Seq({CMD_HANDSHAKE, CMD_CAPTURE})
  OBVIOUS
<1> QED
  BY <1>1, <1>2 DEF Init, TypeOK, NoFrame

\* The steps of the dialogue that read no byte of the header.
LEMMA SetupTypes ==
  ASSUME TypeOK, OpenFails \/ Open \/ HandshakeFailed \/ HandshakeOk \/ SpiTransfer
  PROVE  TypeOK'
<1>1. <<>> \in Seq(TaggedByte)
  OBVIOUS
<1> QED
  BY <1>1 DEF TypeOK, OpenFails, Open, HandshakeFailed, HandshakeOk, SpiTransfer, UartFlush,
    waitVars, headerVars, omvVars

LEMMA SendTypes ==
  ASSUME TypeOK, HandshakeSend \/ Capture
  PROVE  TypeOK'
<1>1. /\ <<>> \in Seq(TaggedByte)
      /\ Append(cmds, CMD_HANDSHAKE) \in Seq({CMD_HANDSHAKE, CMD_CAPTURE})
      /\ Append(cmds, CMD_CAPTURE) \in Seq({CMD_HANDSHAKE, CMD_CAPTURE})
  BY AppendProperties DEF TypeOK
<1>2. attempt < HANDSHAKE_TRIES => attempt + 1 \in 0 .. HANDSHAKE_TRIES
  BY ConstantTypes DEF TypeOK
<1>3. CASE HandshakeSend
  BY <1>1, <1>2, <1>3 DEF TypeOK, HandshakeSend, UartFlush, UartWriteByte, headerVars, omvVars
<1>4. CASE Capture
  BY <1>1, <1>4 DEF TypeOK, Capture, UartFlush, UartWriteByte, headerVars, omvVars
<1> QED
  BY <1>3, <1>4

LEMMA PollTypes ==
  ASSUME TypeOK, HandshakePoll \/ ReadPoll
  PROVE  TypeOK'
<1>1. CASE HandshakePoll
  <2>1. rx' \in Seq(TaggedByte)
    BY <1>1, TailIs DEF HandshakePoll, TypeOK
  <2> QED
    BY <1>1, <2>1 DEF TypeOK, HandshakePoll, headerVars, omvVars
<1>2. CASE ReadPoll
  <2>1. polls' \in Nat /\ (cam' \in {"size", "mlen", "meta"} => polls' < SIZE_POLLS)
    BY <1>2, ConstantTypes DEF ReadPoll, Waiting, PollLimit, TypeOK
  <2> QED
    BY <1>2, <2>1 DEF TypeOK, ReadPoll, Waiting, headerVars, omvVars
<1> QED
  BY <1>1, <1>2

LEMMA ReadAckTypes ==
  ASSUME TypeOK, ReadAck
  PROVE  TypeOK'
<1>1. rx' \in Seq(TaggedByte) /\ ackOf' \in {"handshake", "capture"}
  BY NextByte DEF ReadAck
<1>2. <<>> \in Seq(Byte)
  OBVIOUS
<1> QED
  BY <1>1, <1>2, ConstantTypes DEF TypeOK, ReadAck, omvVars

\* The numbers the code makes of the bytes.
LEMMA Le4Is ==
  ASSUME NEW s \in Seq(Byte), Len(s) = 4
  PROVE  /\ s[1] \in Byte /\ s[2] \in Byte /\ s[3] \in Byte /\ s[4] \in Byte
         /\ Le4(s) \in Nat
<1>1. s[1] \in Byte /\ s[2] \in Byte /\ s[3] \in Byte /\ s[4] \in Byte
  BY ElementOfSeq
<1> QED
  <2>1. s[1] \in Nat /\ s[2] \in Nat /\ s[3] \in Nat
    BY <1>1, ByteIs
  <2> DEFINE u == IF s[4] = 0 THEN 0 ELSE 256
  <2>2. Le4(s) = s[1] + 256 * (s[2] + 256 * (s[3] + u))
    BY DEF Le4
  <2>3. u \in Nat
    OBVIOUS
  <2> HIDE DEF u
  <2>4. s[1] + 256 * (s[2] + 256 * (s[3] + u)) \in Nat
    BY <2>1, <2>3
  <2>5. Le4(s) \in Nat
    BY <2>2, <2>4
  <2> QED
    BY <1>1, <2>5

LEMMA Le2Is ==
  ASSUME NEW s \in Seq(Byte), Len(s) = 2
  PROVE  s[1] \in Byte /\ s[2] \in Byte /\ Le2(s) \in Nat
<1>1. s[1] \in Byte /\ s[2] \in Byte
  BY ElementOfSeq
<1> QED
  <2>1. s[1] \in Nat /\ s[2] \in Nat
    BY <1>1, ByteIs
  <2>2. \A x, y \in Nat : x + 256 * y \in Nat
    OBVIOUS
  <2>3. Le2(s) \in Nat
    BY <2>1, <2>2 DEF Le2
  <2> QED
    BY <1>1, <2>3

LEMMA ReadTypes ==
  ASSUME TypeOK, ReadSize \/ ReadMetaLen \/ ReadMeta
  PROVE  TypeOK'
<1>1. rx # <<>> /\ rx' = Tail(rx) /\ polls' = 0
  BY DEF ReadSize, ReadMetaLen, ReadMeta, ReadMore, ReadLast
<1>2. Tail(rx) \in Seq(TaggedByte) /\ Field \in Seq(Byte)
  BY <1>1, NextByte
<1>3. <<>> \in Seq(Byte)
  OBVIOUS
<1>4. polls' \in Nat /\ polls' < SIZE_POLLS
  BY <1>1, ConstantTypes
<1>5. CASE ReadSize
  <2>1. img_size' \in Nat
    BY <1>2, <1>5, Le4Is DEF ReadSize, ReadMore, ReadLast, TypeOK, headerVars
  <2> QED
    BY <1>1, <1>2, <1>3, <1>4, <1>5, <2>1
      DEF ReadSize, ReadMore, ReadLast, TypeOK, headerVars, omvVars
<1>6. CASE ReadMetaLen
  <2>1. meta_len' \in Nat
    BY <1>2, <1>6, Le2Is DEF ReadMetaLen, ReadMore, ReadLast, TypeOK, headerVars
  <2> QED
    BY <1>1, <1>2, <1>3, <1>4, <1>6, <2>1
      DEF ReadMetaLen, ReadMore, ReadLast, TypeOK, headerVars, omvVars
<1>7. CASE ReadMeta
  BY <1>1, <1>2, <1>3, <1>4, <1>7
    DEF ReadMeta, ReadMore, ReadLast, TypeOK, headerVars, omvVars
<1> QED
  BY <1>5, <1>6, <1>7

LEMMA RestartTypes ==
  ASSUME TypeOK, Restart
  PROVE  TypeOK'
<1>1. <<>> \in Seq(Byte) /\ 0 \in 0 .. HANDSHAKE_TRIES
  BY ConstantTypes
<1> QED
  BY <1>1 DEF TypeOK, Restart, omvVars

LEMMA AnswerTypes ==
  ASSUME TypeOK, OmvHandshake \/ OmvCapture
  PROVE  TypeOK'
<1>1. Tail(cmds) \in Seq({CMD_HANDSHAKE, CMD_CAPTURE})
  BY SomeCommand DEF OmvHandshake, OmvCapture
<1>2. out' \in Seq(TaggedByte) /\ frame' \in Frames \cup {NoFrame}
  <2>1. <<ACK_BYTE>> \in Seq(Byte)
    BY DEF ACK_BYTE, Byte
  <2>2. CASE OmvHandshake
    BY <2>1, <2>2, TaggedIs DEF OmvHandshake, TypeOK
  <2>3. CASE OmvCapture
    <3>1. PICK f \in Frames : frame' = f /\ out' = Tagged(Header(f), "capture")
      BY <2>3 DEF OmvCapture
    <3> QED
      BY <3>1, HeaderIs, TaggedIs
  <2> QED
    BY <2>2, <2>3
<1> QED
  BY <1>1, <1>2 DEF TypeOK, OmvHandshake, OmvCapture, waitVars, headerVars

LEMMA LineTypes ==
  ASSUME TypeOK, OmvWrite \/ LoseByte \/ LoseCommand \/ OmvSpiTimeout
  PROVE  TypeOK'
<1>1. CASE OmvWrite
  <2>1. rx' \in Seq(TaggedByte)
    BY <1>1, NextOut, AppendProperties DEF OmvWrite, TypeOK
  <2> QED
    BY <1>1, <2>1, NextOut DEF TypeOK, OmvWrite, waitVars, headerVars
<1>2. CASE LoseByte
  BY <1>2, NextOut DEF TypeOK, LoseByte, waitVars, headerVars
<1>3. CASE LoseCommand
  BY <1>3, SomeCommand DEF TypeOK, LoseCommand, waitVars, headerVars, omvVars
<1>4. CASE OmvSpiTimeout
  BY <1>4 DEF TypeOK, OmvSpiTimeout, waitVars, headerVars
<1> QED
  BY <1>1, <1>2, <1>3, <1>4

LEMMA NextTypes ==
  ASSUME TypeOK, [Next]_vars
  PROVE  TypeOK'
<1>1. CASE UNCHANGED vars
  BY <1>1 DEF TypeOK, vars, waitVars, headerVars, omvVars
<1>2. CASE Camera
  BY <1>2, SetupTypes, SendTypes, PollTypes, ReadAckTypes, ReadTypes DEF Camera
<1>3. CASE Restart
  BY <1>3, RestartTypes
<1>4. CASE OpenMV
  BY <1>4, AnswerTypes, LineTypes DEF OpenMV
<1> QED
  BY <1>1, <1>2, <1>3, <1>4 DEF Next

\* Every variable keeps its type, no wait for a byte of the header exceeds its
\* polls, no run exceeds its handshakes: whatever OpenMV writes and however often
\* bytes are lost and the app is started again.
THEOREM LinkTypeCorrect == Spec => []TypeOK
<1>1. Init => TypeOK
  BY InitTypes
<1>2. TypeOK /\ [Next]_vars => TypeOK'
  BY NextTypes
<1> QED
  BY <1>1, <1>2, PTL DEF Spec

-----------------------------------------------------------------------------
(* The inductive invariant                                                 *)

\* OpenMV writes a header, or has written one and waits in spi.send_recv.
Live == omv = "spi" \/ (out # <<>> /\ Head(out).re = "capture")

\* The bytes of the header by their places, from 1; the places before the header
\* are those of the ACKs of earlier handshakes.
StaleAck == [v |-> ACK_BYTE, re |-> "handshake"]
At(f, p) == IF p < 1 THEN StaleAck ELSE [v |-> Header(f)[p], re |-> "capture"]

\* The place of the byte that OpenMV writes next.
Here == Len(Header(frame)) - Len(out) + 1

\* Where the bytes g of the field being read and the bytes r not read yet come
\* from, when the next place of header f is h: from increasing places, and from
\* consecutive ones if no byte has been lost.
Placed(ps, g, r, f, h, ls) ==
  LET w == Len(g) + Len(r)
  IN  /\ \A i \in 1 .. w : ps[i] \in Int /\ ps[i] < h
      /\ \A i, j \in 1 .. w : i < j => ps[j] - ps[i] >= j - i
      /\ \A i \in 1 .. Len(g) : ps[i] >= 1 => g[i] = Header(f)[ps[i]]
      /\ \A i \in 1 .. Len(r) : r[i] = At(f, ps[Len(g) + i])
      /\ ls = 0 => \A i \in 1 .. w : ps[i] = h - w + i - 1

\* The number of bytes in the window, and its first place if nothing is missing.
Window == Len(got) + Len(rx)
First  == Here - Window

Beyond(ps, k) == Here >= k /\ \A i \in 1 .. Window : ps[i] >= k

\* In the first run the fields read after an ACK of CMD_CAPTURE lie behind it.
Ordered(ps) ==
  session = 1 /\ ackOf = "capture" =>
    /\ cam = "size" => Beyond(ps, 2)
    /\ cam = "mlen" => (img_size = frame.size /\ Beyond(ps, 6)) \/ Beyond(ps, 8)
    /\ cam = "meta" => /\ img_size = frame.size /\ meta_len = Len(frame.meta)
                       /\ Beyond(ps, 8)

\* What OpenMV has still to write.
OutInStep ==
  /\ omv = "answer" <=> out # <<>>
  /\ Live => /\ frame \in Frames
             /\ Here >= 1
             /\ \A i \in 1 .. Len(out) : out[i] = At(frame, Here + i - 1)
  /\ ~Live => \A i \in 1 .. Len(out) : out[i] = StaleAck

\* What has been received.
RxInStep ==
  /\ Live => \E ps : Placed(ps, got, rx, frame, Here, lost) /\ Ordered(ps)
  /\ ~Live /\ (lost = 0 \/ cam # "returned") => \A i \in 1 .. Len(rx) : rx[i] = StaleAck

\* The first run sends CMD_CAPTURE once, as its last command.
CmdsInStep ==
  session = 1 =>
    /\ \A i \in 1 .. Len(cmds) : cmds[i] = CMD_CAPTURE => i = Len(cmds)
    /\ cam \in {"start", "attempt", "poll", "capture"} =>
         ~Live /\ \A i \in 1 .. Len(cmds) : cmds[i] = CMD_HANDSHAKE
    /\ Live \/ cam \in {"mlen", "meta", "spi", "returned"} => cmds = <<>>
    /\ cam \in {"size", "mlen", "meta"} /\ ackOf = "capture" /\ ~Live
         => rx = <<>> /\ cmds = <<>> /\ out = <<>>

\* The field being read is not complete.
GotInStep ==
  /\ cam \notin {"size", "mlen", "meta", "failed"} => got = <<>>
  /\ cam = "size" => Len(got) < 4
  /\ cam = "mlen" => Len(got) < 2
  /\ cam = "meta" => Len(got) < meta_len

\* What has been accepted of the header when nothing was lost.  A size that is the
\* header's own ACK and the first three bytes of the size gets as far as the
\* length of the metadata.
WholeInStep ==
  lost = 0 =>
    /\ cam \in {"mlen", "meta"} => Live
    /\ cam = "mlen" => First \in {5, 6} /\ (First = 6 => img_size = frame.size)
    /\ cam = "meta" => First = 8 /\ img_size = frame.size /\ meta_len = Len(frame.meta)

\* What has been accepted when the SPI transfer starts.
SpiInStep ==
  cam = "spi" /\ (lost = 0 \/ ackOf = "capture") =>
    /\ omv = "spi" /\ rx = <<>>
    /\ img_size = frame.size /\ meta_len = Len(frame.meta) /\ meta_buf = frame.meta

LinkInv ==
  /\ TypeOK
  /\ OutInStep
  /\ RxInStep
  /\ CmdsInStep
  /\ GotInStep
  /\ WholeInStep
  /\ SpiInStep

-----------------------------------------------------------------------------
(* The places of the bytes as the window moves                             *)

\* The field is given up or complete, and the first bytes of r are taken.
LEMMA DropPlaces ==
  ASSUME NEW ps, NEW g, NEW r, NEW f, NEW h \in Int, NEW ls,
         Len(g) \in Nat, Len(r) \in Nat, Placed(ps, g, r, f, h, ls),
         NEW r2, Len(r2) \in Nat, Len(r2) <= Len(r),
         \A i \in 1 .. Len(r2) : r2[i] = r[Len(r) - Len(r2) + i]
  PROVE  \E qs : /\ Placed(qs, <<>>, r2, f, h, ls)
                 /\ \A i \in 1 .. Len(r2) : qs[i] = ps[Len(g) + Len(r) - Len(r2) + i]
<1> DEFINE n == Len(r2)
           w == Len(g) + Len(r)
           k == w - n
           qs == [i \in 1 .. n |-> ps[k + i]]
<1>1. n \in Nat /\ w \in Nat /\ k \in Nat /\ k + n = w /\ k = Len(g) + (Len(r) - n)
  OBVIOUS
<1>2. /\ \A i \in 1 .. w : ps[i] \in Int /\ ps[i] < h
      /\ \A i, j \in 1 .. w : i < j => ps[j] - ps[i] >= j - i
      /\ \A i \in 1 .. Len(r) : r[i] = At(f, ps[Len(g) + i])
      /\ ls = 0 => \A i \in 1 .. w : ps[i] = h - w + i - 1
  BY DEF Placed
<1>3. \A i \in 1 .. n : qs[i] = ps[k + i] /\ k + i \in 1 .. w
  BY <1>1
<1>4. \A i \in 1 .. n : r2[i] = At(f, qs[i])
  <2> SUFFICES ASSUME NEW i \in 1 .. n PROVE r2[i] = At(f, qs[i])
    OBVIOUS
  <2> DEFINE j == Len(r) - n + i
  <2>1. j \in 1 .. Len(r) /\ Len(g) + j = k + i /\ r2[i] = r[j]
    BY <1>1
  <2> HIDE DEF j
  <2> QED
    BY <1>2, <1>3, <2>1
<1> HIDE DEF qs, k, w
<1>5. \A i \in 1 .. n : qs[i] \in Int /\ qs[i] < h
  BY <1>2, <1>3
<1>6. \A i, j \in 1 .. n : i < j => qs[j] - qs[i] >= j - i
  <2> SUFFICES ASSUME NEW i \in 1 .. n, NEW j \in 1 .. n, i < j PROVE qs[j] - qs[i] >= j - i
    OBVIOUS
  <2>1. k + i \in 1 .. w /\ k + j \in 1 .. w /\ k + i < k + j /\ (k + j) - (k + i) = j - i
    BY <1>1, <1>3
  <2>2. ps[k + j] - ps[k + i] >= (k + j) - (k + i)
    BY <1>2, <2>1
  <2> QED
    BY <1>3, <2>1, <2>2
<1>7. ASSUME ls = 0, NEW i \in 1 .. n
      PROVE  qs[i] = h - n + i - 1
  <2>1. ps[k + i] = h - w + (k + i) - 1
    BY <1>2, <1>3, <1>7
  <2>2. i \in Int /\ k \in Int /\ n \in Int /\ w \in Int /\ k + n = w
    BY <1>1
  <2>3. h - w + (k + i) - 1 = h - n + i - 1
    <3> HIDE DEF n
    <3> QED
      BY <2>2
  <2> QED
    BY <1>3, <2>1, <2>3
<1>8. Len(<<>>) = 0
  OBVIOUS
<1>9. 0 + Len(r2) = n /\ \A i \in 1 .. n : 0 + i = i
  BY <1>1
<1>10. Placed(qs, <<>>, r2, f, h, ls)
  BY <1>4, <1>5, <1>6, <1>7, <1>8, <1>9 DEF Placed
<1> QED
  BY <1>3, <1>10 DEF k, w

\* A byte of the field is stored.
LEMMA MorePlaces ==
  ASSUME NEW ps, NEW g \in Seq(Byte), NEW r \in Seq(TaggedByte), r # <<>>, NEW f, NEW h \in Int,
         NEW ls, Placed(ps, g, r, f, h, ls)
  PROVE  Placed(ps, Append(g, Head(r).v), Tail(r), f, h, ls)
<1> DEFINE g2 == Append(g, Head(r).v)
           n  == Len(g)
           w  == Len(g) + Len(r)
<1>1. /\ n \in Nat /\ Len(r) \in Nat \ {0} /\ Len(Tail(r)) = Len(r) - 1
      /\ Head(r) = r[1] /\ \A i \in 1 .. Len(r) - 1 : Tail(r)[i] = r[i + 1]
  BY TailIs, LenProperties
<1>2. Head(r).v \in Byte
  <2>1. Head(r) \in TaggedByte
    BY TailIs
  <2> QED
    BY <2>1 DEF TaggedByte
<1>3. /\ Len(g2) = n + 1 /\ g2[n + 1] = r[1].v
      /\ \A i \in 1 .. n : g2[i] = g[i]
  BY <1>1, <1>2, AppendProperties
<1> HIDE DEF g2
<1>4. /\ \A i \in 1 .. w : ps[i] \in Int /\ ps[i] < h
      /\ \A i, j \in 1 .. w : i < j => ps[j] - ps[i] >= j - i
      /\ \A i \in 1 .. n : ps[i] >= 1 => g[i] = Header(f)[ps[i]]
      /\ \A i \in 1 .. Len(r) : r[i] = At(f, ps[n + i])
      /\ ls = 0 => \A i \in 1 .. w : ps[i] = h - w + i - 1
  BY DEF Placed
<1>5. Len(g2) + Len(Tail(r)) = w
  BY <1>1, <1>3
<1>6. ASSUME NEW i \in 1 .. Len(g2), ps[i] >= 1
      PROVE  g2[i] = Header(f)[ps[i]]
  <2>1. CASE i = n + 1
    <3>1. r[1] = At(f, ps[i])
      BY <1>1, <1>4, <2>1
    <3>2. ps[i] \in Int
      BY <1>1, <1>4, <2>1
    <3> QED
      BY <1>3, <1>6, <2>1, <3>1, <3>2 DEF At
  <2>2. CASE i \in 1 .. n
    BY <1>3, <1>4, <1>6, <2>2
  <2> QED
    BY <1>1, <1>3, <2>1, <2>2
<1>7. ASSUME NEW i \in 1 .. Len(Tail(r))
      PROVE  Tail(r)[i] = At(f, ps[Len(g2) + i])
  <2>1. i + 1 \in 1 .. Len(r) /\ n + (i + 1) = Len(g2) + i /\ i \in 1 .. Len(r) - 1
    BY <1>1, <1>3
  <2>2. r[i + 1] = At(f, ps[n + (i + 1)])
    BY <1>4, <2>1
  <2> QED
    BY <1>1, <2>1, <2>2
<1>8. Placed(ps, g2, Tail(r), f, h, ls)
  <2> HIDE DEF w
  <2> QED
    BY <1>4, <1>5, <1>6, <1>7 DEF Placed
<1> QED
  BY <1>8 DEF g2

\* The places of the bytes with b, of place h, appended to the ones in the driver.
Grown(ps, g, r, f, h, ls, b) ==
  \E qs : /\ Placed(qs, g, Append(r, b), f, h + 1, ls)
          /\ \A i \in 1 .. Len(g) + Len(r) + 1 :
               qs[i] = h \/ (i \in 1 .. Len(g) + Len(r) /\ qs[i] = ps[i])

\* OpenMV's next byte arrives.
LEMMA WritePlaces ==
  ASSUME NEW ps, NEW g \in Seq(Byte), NEW r \in Seq(TaggedByte), NEW f, NEW h \in Int, NEW ls,
         Placed(ps, g, r, f, h, ls), NEW b \in TaggedByte, b = At(f, h)
  PROVE  Grown(ps, g, r, f, h, ls, b)
<1> DEFINE n == Len(g)
           w == Len(g) + Len(r)
           r2 == Append(r, b)
           qs == [i \in 1 .. w + 1 |-> IF i = w + 1 THEN h ELSE ps[i]]
<1>1. n \in Nat /\ Len(r) \in Nat /\ w \in Nat
  BY LenProperties
<1>2. Len(r2) = Len(r) + 1 /\ r2[Len(r) + 1] = b /\ \A i \in 1 .. Len(r) : r2[i] = r[i]
  BY AppendProperties
<1>3. /\ \A i \in 1 .. w : ps[i] \in Int /\ ps[i] < h
      /\ \A i, j \in 1 .. w : i < j => ps[j] - ps[i] >= j - i
      /\ \A i \in 1 .. n : ps[i] >= 1 => g[i] = Header(f)[ps[i]]
      /\ \A i \in 1 .. Len(r) : r[i] = At(f, ps[n + i])
      /\ ls = 0 => \A i \in 1 .. w : ps[i] = h - w + i - 1
  BY DEF Placed
<1>4. qs[w + 1] = h /\ \A i \in 1 .. w : qs[i] = ps[i]
  BY <1>1
<1>5. n + Len(r2) = w + 1 /\ n <= w
  BY <1>1, <1>2
<1> HIDE DEF qs, r2
<1>6. ASSUME NEW i \in 1 .. w + 1
      PROVE  qs[i] \in Int /\ qs[i] < h + 1
  <2>1. CASE i = w + 1
    BY <1>4, <2>1
  <2>2. CASE i \in 1 .. w
    BY <1>3, <1>4, <2>2
  <2> QED
    BY <1>1, <2>1, <2>2
<1>7. ASSUME NEW i \in 1 .. w + 1, NEW j \in 1 .. w + 1, i < j
      PROVE  qs[j] - qs[i] >= j - i
  <2>1. i \in 1 .. w /\ qs[i] = ps[i] /\ ps[i] \in Int
    BY <1>1, <1>3, <1>4, <1>7
  <2>2. CASE j \in 1 .. w
    BY <1>3, <1>4, <1>7, <2>1, <2>2
  <2>3. CASE j = w + 1
    <3>1. w \in 1 .. w /\ ps[w] < h /\ ps[w] \in Int
      BY <1>1, <1>3, <2>1
    <3>2. ps[w] - ps[i] >= w - i
      <4>1. CASE i = w
        BY <4>1, <3>1
      <4>2. CASE i < w
        BY <1>3, <2>1, <3>1, <4>2
      <4> QED
        BY <1>1, <2>1, <4>1, <4>2
    <3>3. qs[j] = h
      BY <1>4, <2>3
    <3> QED
      BY <1>1, <2>1, <2>3, <3>1, <3>2, <3>3
  <2> QED
    BY <1>1, <2>2, <2>3
<1>8. ASSUME NEW i \in 1 .. n, qs[i] >= 1
      PROVE  g[i] = Header(f)[qs[i]]
  BY <1>1, <1>3, <1>4, <1>5, <1>8
<1>9. ASSUME NEW i \in 1 .. Len(r2)
      PROVE  r2[i] = At(f, qs[n + i])
  <2>1. CASE i = Len(r) + 1
    <3>1. n + i = w + 1
      BY <1>1, <2>1
    <3> QED
      BY <1>2, <1>4, <2>1, <3>1
  <2>2. CASE i \in 1 .. Len(r)
    <3>1. n + i \in 1 .. w
      BY <1>1, <2>2
    <3> QED
      BY <1>2, <1>3, <1>4, <2>2, <3>1
  <2> QED
    BY <1>1, <1>2, <2>1, <2>2
<1>10. ASSUME ls = 0, NEW i \in 1 .. w + 1
       PROVE  qs[i] = h + 1 - (w + 1) + i - 1
  <2>1. CASE i = w + 1
    <3>1. h + 1 - (w + 1) + i - 1 = h
      BY <1>1, <2>1
    <3> QED
      BY <1>4, <2>1, <3>1
  <2>2. CASE i \in 1 .. w
    <3>1. h + 1 - (w + 1) + i - 1 = h - w + i - 1
      BY <1>1
    <3> QED
      BY <1>3, <1>4, <1>10, <2>2, <3>1
  <2> QED
    BY <1>1, <2>1, <2>2
<1>11. Placed(qs, g, r2, f, h + 1, ls)
  <2> DEFINE w2 == w + 1
  <2>1. n + Len(r2) = w2
    BY <1>5
  <2>2. /\ \A i \in 1 .. w2 : qs[i] \in Int /\ qs[i] < h + 1
        /\ \A i, j \in 1 .. w2 : i < j => qs[j] - qs[i] >= j - i
        /\ ls = 0 => \A i \in 1 .. w2 : qs[i] = h + 1 - w2 + i - 1
    BY <1>6, <1>7, <1>10
  <2> HIDE DEF w2, w
  <2> QED
    BY <1>8, <1>9, <2>1, <2>2 DEF Placed
<1>12. ASSUME NEW i \in 1 .. w + 1
       PROVE  qs[i] = h \/ (i \in 1 .. w /\ qs[i] = ps[i])
  <2>1. i = w + 1 \/ i \in 1 .. w
    BY <1>1
  <2> QED
    BY <1>4, <2>1
<1> QED
  BY <1>11, <1>12 DEF r2, Grown

\* OpenMV's next byte is lost.
LEMMA LosePlaces ==
  ASSUME NEW ps, NEW g, NEW r, NEW f, NEW h \in Int, NEW ls, NEW ls2, ls2 # 0,
         Placed(ps, g, r, f, h, ls)
  PROVE  Placed(ps, g, r, f, h + 1, ls2)
<1> DEFINE w == Len(g) + Len(r)
<1>1. /\ \A i \in 1 .. w : ps[i] \in Int /\ ps[i] < h
      /\ \A i, j \in 1 .. w : i < j => ps[j] - ps[i] >= j - i
      /\ \A i \in 1 .. Len(g) : ps[i] >= 1 => g[i] = Header(f)[ps[i]]
      /\ \A i \in 1 .. Len(r) : r[i] = At(f, ps[Len(g) + i])
  BY DEF Placed
<1>2. \A i \in 1 .. w : ps[i] < h + 1
  BY <1>1
<1> HIDE DEF w
<1> QED
  BY <1>1, <1>2 DEF Placed, w

\* OpenMV starts a header: what it wrote before are ACKs of handshakes.
LEMMA StartPlaces ==
  ASSUME NEW g, NEW r, NEW f, NEW ls, Len(g) \in Nat, Len(r) \in Nat,
         \A i \in 1 .. Len(r) : r[i] = StaleAck
  PROVE  \E ps : Placed(ps, g, r, f, 1, ls)
<1> DEFINE n == Len(g)
           w == Len(g) + Len(r)
           ps == [i \in 1 .. w |-> i - w]
<1>1. w \in Nat /\ \A i \in 1 .. w : ps[i] = i - w /\ ps[i] \in Int /\ ps[i] < 1
  OBVIOUS
<1>2. \A i \in 1 .. Len(r) : n + i \in 1 .. w
  OBVIOUS
<1> HIDE DEF ps
<1>3. \A i \in 1 .. Len(r) : r[i] = At(f, ps[n + i])
  BY <1>1, <1>2 DEF At
<1>4. \A i, j \in 1 .. w : i < j => ps[j] - ps[i] >= j - i
  BY <1>1
<1>5. \A i \in 1 .. n : ~(ps[i] >= 1)
  BY <1>1
<1>6. \A i \in 1 .. w : ps[i] = 1 - w + i - 1
  BY <1>1
<1>7. Placed(ps, g, r, f, 1, ls)
  <2> HIDE DEF w
  <2> QED
    BY <1>1, <1>3, <1>4, <1>5, <1>6 DEF Placed, w
<1> QED
  BY <1>7

-----------------------------------------------------------------------------
(* The bytes that pass for a size and for a length                         *)

LEMMA AckIs == ACK_BYTE \in Byte /\ ACK_BYTE \in Nat /\ ACK_BYTE # 0
  BY DEF ACK_BYTE, Byte

\* An accepted size has no third and no fourth byte, and its second is no ACK.
LEMMA SizeAccepted ==
  ASSUME BuffersFit, NEW s \in Seq(Byte), Len(s) = 4, SizeOk(Le4(s))
  PROVE  s[4] = 0 /\ s[3] = 0 /\ s[2] # ACK_BYTE /\ Le4(s) = s[1] + 256 * s[2]
<1> DEFINE u == IF s[4] = 0 THEN 0 ELSE 256
<1>1. Le4(s) = s[1] + 256 * (s[2] + 256 * (s[3] + u)) /\ (s[4] # 0 => u = 256) /\ (s[4] = 0 => u = 0)
  BY DEF Le4
<1> HIDE DEF u
<1>2. u \in Nat
  BY <1>1
<1>3. s[1] \in Nat /\ s[2] \in Nat /\ s[3] \in Nat
  BY Le4Is, ByteIs
<1>4. Le4(s) < 256 * ACK_BYTE /\ ACK_BYTE \in Nat /\ ACK_BYTE < 256
  BY AckIs, ByteIs, ConstantTypes, Le4Is DEF SizeOk, BuffersFit
<1>5. s[3] + u < 1
  BY <1>1, <1>2, <1>3, <1>4
<1>6. u = 0 /\ s[3] = 0
  BY <1>2, <1>3, <1>5
<1>7. Le4(s) = s[1] + 256 * s[2]
  BY <1>1, <1>3, <1>6
<1>8. s[2] < ACK_BYTE
  BY <1>3, <1>4, <1>7
<1> QED
  BY <1>1, <1>3, <1>4, <1>6, <1>7, <1>8

\* An accepted length has no second byte.
LEMMA LengthAccepted ==
  ASSUME BuffersFit, NEW s \in Seq(Byte), Len(s) = 2, MetaOk(Le2(s))
  PROVE  s[2] = 0 /\ Le2(s) = s[1]
<1>1. s[1] \in Nat /\ s[2] \in Nat
  BY Le2Is, ByteIs
<1>2. Le2(s) = s[1] + 256 * s[2] /\ Le2(s) < 256
  BY ConstantTypes, Le2Is DEF Le2, MetaOk, BuffersFit
<1> QED
  BY <1>1, <1>2

\* Where a header has zeros.
LEMMA HeaderText ==
  ASSUME MetaIsText, NEW f \in Frames
  PROVE  /\ Len(f.meta) \in Nat \ {0} /\ Len(Header(f)) = 7 + Len(f.meta)
         /\ Header(f)[1] = ACK_BYTE
         /\ Header(f)[6] = Len(f.meta)
         /\ Header(f)[7] = 0
         /\ \A j \in 8 .. 7 + Len(f.meta) : Header(f)[j] = f.meta[j - 7] /\ Header(f)[j] # 0
<1>1. /\ Len(f.meta) \in Nat /\ Len(f.meta) >= 1 /\ Len(f.meta) <= 255
      /\ \A i \in 1 .. Len(f.meta) : f.meta[i] # 0
  <2>1. Len(f.meta) \in 1 .. 255 /\ \A i \in 1 .. Len(f.meta) : f.meta[i] # 0
    BY DEF MetaIsText
  <2> DEFINE n == Len(f.meta)
  <2>2. n \in 1 .. 255
    BY <2>1
  <2> HIDE DEF n
  <2>3. n \in Nat /\ n >= 1 /\ n <= 255
    BY <2>2
  <2> QED
    BY <2>1, <2>3 DEF n
<1>2. Low(Len(f.meta)) = Len(f.meta) /\ High(Len(f.meta)) = 0
  <2>1. /\ Low(Len(f.meta)) \in Nat /\ Low(Len(f.meta)) < 256 /\ High(Len(f.meta)) \in Nat
        /\ Len(f.meta) = Low(Len(f.meta)) + 256 * High(Len(f.meta))
    BY <1>1, PackIs, ByteIs
  <2> QED
    BY <1>1, <2>1
<1>3. /\ Header(f)[1] = ACK_BYTE
      /\ Header(f)[6] = Low(Len(f.meta)) /\ Header(f)[7] = High(Len(f.meta))
      /\ Len(Header(f)) = 7 + Len(f.meta)
      /\ \A j \in 8 .. 7 + Len(f.meta) : Header(f)[j] = f.meta[j - 7]
  BY HeaderIs
<1>4. \A j \in 8 .. 7 + Len(f.meta) : j - 7 \in 1 .. Len(f.meta)
  BY <1>1
<1> QED
  BY <1>1, <1>2, <1>3, <1>4

\* A size whose last two bytes are zero.
LEMMA SizeOfTwo ==
  ASSUME NEW f \in Frames, Header(f)[4] = 0, Header(f)[5] = 0
  PROVE  f.size = Header(f)[2] + 256 * Header(f)[3]
<1> DEFINE n == f.size
<1>1. n \in Nat
  BY FrameIs
<1> HIDE DEF n
<1>2. Low(n) \in Byte /\ High(n) \in Nat /\ n = Low(n) + 256 * High(n)
  BY <1>1, PackIs
<1>3. /\ Low(High(n)) \in Byte /\ High(High(n)) \in Nat
      /\ High(n) = Low(High(n)) + 256 * High(High(n))
  BY <1>2, PackIs
<1>4. High(High(n)) = Low(High(High(n))) + 256 * High(High(High(n)))
  BY <1>3, PackIs
<1>5. /\ Header(f)[2] = Low(n) /\ Header(f)[3] = Low(High(n))
      /\ Low(High(High(n))) = 0 /\ High(High(High(n))) = 0
  BY HeaderIs DEF n
<1>6. High(High(n)) = 0
  BY <1>4, <1>5
<1>7. High(n) = Low(High(n)) /\ Low(High(n)) \in Nat
  BY <1>3, <1>6, ByteIs
<1>8. n = Header(f)[2] + 256 * Header(f)[3]
  BY <1>2, <1>5, <1>7
<1> QED
  BY <1>8 DEF n

LEMMA Sizes ==
  ASSUME TypeOK
  PROVE  Len(got) \in Nat /\ Len(rx) \in Nat /\ Len(out) \in Nat /\ Len(cmds) \in Nat /\ Window \in Nat
<1>1. Len(got) \in Nat /\ Len(rx) \in Nat /\ Len(out) \in Nat /\ Len(cmds) \in Nat
  BY LenProperties DEF TypeOK
<1> QED
  BY <1>1 DEF Window

\* The header OpenMV is writing or has written.
LEMMA LiveIs ==
  ASSUME TypeOK, OutInStep, MetaIsText, Live
  PROVE  /\ frame \in Frames /\ Len(frame.meta) \in Nat \ {0}
         /\ Here \in Int /\ Here >= 1 /\ Here = 8 + Len(frame.meta) - Len(out)
         /\ Here <= 8 + Len(frame.meta) /\ First \in Int
<1>1. frame \in Frames /\ Here >= 1
  BY DEF OutInStep
<1>2. Len(frame.meta) \in Nat \ {0} /\ Len(Header(frame)) = 7 + Len(frame.meta)
  BY <1>1, HeaderText
<1>3. Here = 8 + Len(frame.meta) - Len(out)
  BY <1>2, Sizes DEF Here
<1>4. Len(out) \in Nat /\ Window \in Nat
  BY Sizes
<1> HIDE DEF Here
<1>5. Here \in Int /\ Here <= 8 + Len(frame.meta)
  BY <1>2, <1>3, <1>4
<1>6. First \in Int
  BY <1>4, <1>5 DEF First
<1> QED
  BY <1>1, <1>2, <1>3, <1>5, <1>6

\* The bytes of the field by their places, the one at the head of rx included.
LEMMA FieldPlaced ==
  ASSUME TypeOK, OutInStep, MetaIsText, Live, rx # <<>>,
         NEW ps, Placed(ps, got, rx, frame, Here, lost)
  PROVE  LET n == Len(got) + 1
         IN  /\ n <= Window
             /\ \A i \in 1 .. Window : ps[i] \in Int /\ ps[i] < Here
             /\ \A i, j \in 1 .. Window : i < j => ps[j] - ps[i] >= j - i
             /\ \A i \in 1 .. n : ps[i] >= 1 => Field[i] = Header(frame)[ps[i]]
             /\ ps[n] < 1 => Field[n] = ACK_BYTE
             /\ lost = 0 => \A i \in 1 .. Window : ps[i] = First + i - 1
<1> DEFINE n == Len(got) + 1
<1>1. Here \in Int
  BY LiveIs
<1>2. Placed(ps, Field, Tail(rx), frame, Here, lost)
  BY <1>1, MorePlaces DEF TypeOK, Field
<1>3. /\ Len(Field) = n /\ Len(rx) \in Nat \ {0} /\ Len(Tail(rx)) = Len(rx) - 1 /\ Head(rx) = rx[1]
      /\ Field[n] = Head(rx).v /\ n \in Nat
  BY NextByte, TailIs DEF TypeOK
<1>4. Len(Field) + Len(Tail(rx)) = Window /\ n <= Window
  BY <1>3, Sizes DEF Window
<1>5. /\ \A i \in 1 .. Window : ps[i] \in Int /\ ps[i] < Here
      /\ \A i, j \in 1 .. Window : i < j => ps[j] - ps[i] >= j - i
      /\ \A i \in 1 .. n : ps[i] >= 1 => Field[i] = Header(frame)[ps[i]]
      /\ lost = 0 => \A i \in 1 .. Window : ps[i] = Here - Window + i - 1
  BY <1>2, <1>3, <1>4 DEF Placed
<1>6. rx[1] = At(frame, ps[n])
  BY <1>3 DEF Placed
<1>7. ps[n] < 1 => Field[n] = ACK_BYTE
  BY <1>3, <1>6 DEF At, StaleAck
<1> QED
  BY <1>4, <1>5, <1>7 DEF First

\* Nothing lost: an accepted size is the header's, or is its ACK and the first
\* three bytes of the size.
LEMMA SizeWhole ==
  ASSUME TypeOK, OutInStep, BuffersFit, MetaIsText, Live, rx # <<>>, lost = 0, Len(got) = 3,
         NEW ps, Placed(ps, got, rx, frame, Here, lost), SizeOk(Le4(Field))
  PROVE  First \in {1, 2} /\ (First = 2 => Le4(Field) = frame.size)
<1>1. Field \in Seq(Byte) /\ Len(Field) = 4
  BY NextByte
<1>2. /\ Field[4] = 0 /\ Field[3] = 0 /\ Field[2] # ACK_BYTE
      /\ Le4(Field) = Field[1] + 256 * Field[2]
  BY <1>1, SizeAccepted
<1>3. /\ frame \in Frames /\ First \in Int /\ Here <= 8 + Len(frame.meta)
      /\ Len(frame.meta) \in Nat \ {0} /\ Here \in Int
  BY LiveIs
<1>4. /\ ps[1] = First /\ ps[2] = First + 1 /\ ps[3] = First + 2 /\ ps[4] = First + 3
      /\ ps[4] < Here
      /\ \A i \in 1 .. 4 : ps[i] >= 1 => Field[i] = Header(frame)[ps[i]]
      /\ ps[4] < 1 => Field[4] = ACK_BYTE
  <2>1. /\ 4 <= Window
        /\ \A i \in 1 .. Window : ps[i] < Here
        /\ \A i \in 1 .. 4 : ps[i] >= 1 => Field[i] = Header(frame)[ps[i]]
        /\ ps[4] < 1 => Field[4] = ACK_BYTE
        /\ \A i \in 1 .. Window : ps[i] = First + i - 1
    BY FieldPlaced
  <2>2. Window \in Nat
    BY Sizes
  <2> QED
    BY <1>3, <2>1, <2>2
<1>5. /\ Header(frame)[1] # 0 /\ Header(frame)[1] = ACK_BYTE
      /\ Header(frame)[6] # 0
      /\ \A j \in 8 .. 7 + Len(frame.meta) : Header(frame)[j] # 0
  BY <1>3, HeaderText, AckIs
<1>6. ps[4] >= 4
  <2>1. ps[4] >= 1
    BY <1>2, <1>3, <1>4, AckIs
  <2>2. ps[4] # 1
    BY <1>2, <1>4, <1>5, <2>1
  <2>3. ps[4] # 2
    BY <1>2, <1>3, <1>4, <1>5
  <2>4. ps[4] # 3
    BY <1>2, <1>3, <1>4, <1>5
  <2> QED
    BY <1>3, <1>4, <2>1, <2>2, <2>3, <2>4
<1>7. ps[4] # 6
  BY <1>2, <1>4, <1>5, <1>6
<1>8. ps[4] # 7
  BY <1>2, <1>3, <1>4, <1>5
<1>9. ~(ps[4] >= 8)
  BY <1>2, <1>3, <1>4, <1>5, <1>6
<1>10. First \in {1, 2}
  BY <1>3, <1>4, <1>6, <1>7, <1>8, <1>9
<1>11. ASSUME First = 2
       PROVE  Le4(Field) = frame.size
  <2>1. ps[1] = 2 /\ ps[2] = 3 /\ ps[3] = 4 /\ ps[4] = 5
    BY <1>4, <1>11
  <2>2. /\ Field[1] = Header(frame)[2] /\ Field[2] = Header(frame)[3]
        /\ Field[3] = Header(frame)[4] /\ Field[4] = Header(frame)[5]
    BY <1>4, <2>1
  <2> QED
    BY <1>2, <1>3, <2>2, SizeOfTwo
<1> QED
  BY <1>10, <1>11

\* Bytes lost, but the ACK is the header's: the size is the header's or ends in
\* the second byte of the length.
LEMMA SizeOrdered ==
  ASSUME TypeOK, OutInStep, BuffersFit, MetaIsText, Live, rx # <<>>, Len(got) = 3,
         NEW ps, Placed(ps, got, rx, frame, Here, lost), Beyond(ps, 2), SizeOk(Le4(Field))
  PROVE  (ps[4] = 5 /\ Le4(Field) = frame.size) \/ ps[4] = 7
<1>1. Field \in Seq(Byte) /\ Len(Field) = 4
  BY NextByte
<1>2. Field[4] = 0 /\ Field[3] = 0 /\ Le4(Field) = Field[1] + 256 * Field[2]
  BY <1>1, SizeAccepted
<1>3. /\ frame \in Frames /\ Here <= 8 + Len(frame.meta)
      /\ Len(frame.meta) \in Nat \ {0} /\ Here \in Int
  BY LiveIs
<1>4. /\ 4 <= Window /\ Window \in Nat
      /\ \A i \in 1 .. Window : ps[i] \in Int /\ ps[i] < Here
      /\ \A i, j \in 1 .. Window : i < j => ps[j] - ps[i] >= j - i
      /\ \A i \in 1 .. 4 : ps[i] >= 1 => Field[i] = Header(frame)[ps[i]]
  <2>1. Len(got) + 1 = 4 /\ Window \in Nat
    BY Sizes
  <2> QED
    BY <2>1, FieldPlaced
<1>5. /\ Header(frame)[6] # 0
      /\ \A j \in 8 .. 7 + Len(frame.meta) : Header(frame)[j] # 0
  BY <1>3, HeaderText
<1>6. /\ ps[1] \in Int /\ ps[2] \in Int /\ ps[3] \in Int /\ ps[4] \in Int /\ ps[4] < Here
      /\ ps[1] >= 2 /\ ps[2] - ps[1] >= 1 /\ ps[3] - ps[2] >= 1 /\ ps[4] - ps[3] >= 1
  <2>1. 1 \in 1 .. Window /\ 2 \in 1 .. Window /\ 3 \in 1 .. Window /\ 4 \in 1 .. Window
    BY <1>4
  <2>2. ps[1] >= 2
    BY <2>1 DEF Beyond
  <2>3. ps[2] - ps[1] >= 2 - 1 /\ ps[3] - ps[2] >= 3 - 2 /\ ps[4] - ps[3] >= 4 - 3
    BY <1>4, <2>1
  <2> QED
    BY <1>4, <2>1, <2>2, <2>3
<1>7. /\ Field[1] = Header(frame)[ps[1]] /\ Field[2] = Header(frame)[ps[2]]
      /\ Field[3] = Header(frame)[ps[3]] /\ Field[4] = Header(frame)[ps[4]]
  <2>1. ps[1] >= 1 /\ ps[2] >= 1 /\ ps[3] >= 1 /\ ps[4] >= 1
    BY <1>6
  <2> QED
    BY <1>4, <2>1
<1>8. ps[4] \in {5, 7}
  <2>1. ps[4] >= 5
    BY <1>6
  <2>2. ps[4] # 6
    BY <1>2, <1>5, <1>7
  <2>3. ~(ps[4] >= 8)
    <3>1. ps[4] >= 8 => ps[4] \in 8 .. 7 + Len(frame.meta)
      <4> DEFINE p == ps[4]
                 n == Len(frame.meta)
                 h == Here
      <4>1. p \in Int /\ n \in Nat /\ h \in Int /\ p < h /\ h <= 8 + n
        BY <1>3, <1>6
      <4> HIDE DEF p, n, h
      <4>2. p >= 8 => p \in 8 .. 7 + n
        BY <4>1
      <4> QED
        BY <4>2 DEF p, n
    <3>2. Header(frame)[ps[4]] = 0
      BY <1>2, <1>7
    <3>3. ps[4] \notin 8 .. 7 + Len(frame.meta)
      BY <1>5, <3>2
    <3> QED
      BY <3>1, <3>3
  <2>4. \A p \in Int : p >= 5 /\ p # 6 /\ ~(p >= 8) => p \in {5, 7}
    OBVIOUS
  <2> QED
    BY <1>6, <2>1, <2>2, <2>3, <2>4
<1>9. ASSUME ps[4] = 5
      PROVE  Le4(Field) = frame.size
  <2>1. ps[1] = 2 /\ ps[2] = 3 /\ ps[3] = 4
    BY <1>6, <1>9
  <2> QED
    BY <1>2, <1>3, <1>7, <1>9, <2>1, SizeOfTwo
<1> QED
  BY <1>8, <1>9

\* Nothing lost: an accepted length is the header's.
LEMMA LengthWhole ==
  ASSUME TypeOK, OutInStep, BuffersFit, MetaIsText, Live, rx # <<>>, lost = 0, Len(got) = 1,
         NEW ps, Placed(ps, got, rx, frame, Here, lost), First \in {5, 6}, MetaOk(Le2(Field))
  PROVE  First = 6 /\ Le2(Field) = Len(frame.meta)
<1>1. Field \in Seq(Byte) /\ Len(Field) = 2
  BY NextByte
<1>2. Field[2] = 0 /\ Le2(Field) = Field[1]
  BY <1>1, LengthAccepted
<1>3. Len(got) + 1 = 2 /\ Window \in Nat
  BY Sizes
<1>4. /\ 2 <= Window
      /\ \A i \in 1 .. 2 : ps[i] >= 1 => Field[i] = Header(frame)[ps[i]]
      /\ \A i \in 1 .. Window : ps[i] = First + i - 1
  BY <1>3, FieldPlaced
<1>5. ps[1] = First /\ ps[2] = First + 1
  BY <1>3, <1>4
<1>6. Field[1] = Header(frame)[First] /\ Field[2] = Header(frame)[First + 1]
  BY <1>4, <1>5
<1>7. Header(frame)[6] = Len(frame.meta) /\ Header(frame)[6] # 0
  BY LiveIs, HeaderText
<1> QED
  BY <1>2, <1>6, <1>7

\* Bytes lost, but the ACK is the header's: an accepted length is the header's.
LEMMA LengthOrdered ==
  ASSUME TypeOK, OutInStep, BuffersFit, MetaIsText, Live, rx # <<>>, Len(got) = 1,
         NEW ps, Placed(ps, got, rx, frame, Here, lost),
         \A i \in 1 .. Window : ps[i] >= 6, MetaOk(Le2(Field))
  PROVE  ps[1] = 6 /\ ps[2] = 7 /\ Le2(Field) = Len(frame.meta)
<1>1. Field \in Seq(Byte) /\ Len(Field) = 2
  BY NextByte
<1>2. Field[2] = 0 /\ Le2(Field) = Field[1]
  BY <1>1, LengthAccepted
<1>3. Len(got) + 1 = 2 /\ Window \in Nat
  BY Sizes
<1>4. /\ 2 <= Window
      /\ \A i \in 1 .. Window : ps[i] \in Int /\ ps[i] < Here
      /\ \A i, j \in 1 .. Window : i < j => ps[j] - ps[i] >= j - i
      /\ \A i \in 1 .. 2 : ps[i] >= 1 => Field[i] = Header(frame)[ps[i]]
  BY <1>3, FieldPlaced
<1>5. 1 \in 1 .. Window /\ 2 \in 1 .. Window
  BY <1>3, <1>4
<1>6. /\ ps[1] \in Int /\ ps[2] \in Int /\ ps[1] >= 6 /\ ps[2] - ps[1] >= 2 - 1 /\ ps[2] < Here
  BY <1>4, <1>5
<1>7. Field[1] = Header(frame)[ps[1]] /\ Field[2] = Header(frame)[ps[2]]
  <2>1. ps[1] >= 1 /\ ps[2] >= 1
    BY <1>6
  <2> QED
    BY <1>4, <2>1
<1>8. /\ Here <= 8 + Len(frame.meta) /\ Len(frame.meta) \in Nat /\ Here \in Int
      /\ Header(frame)[6] = Len(frame.meta)
      /\ \A j \in 8 .. 7 + Len(frame.meta) : Header(frame)[j] # 0
  BY LiveIs, HeaderText
<1>9. ~(ps[2] >= 8)
  <2>1. ps[2] >= 8 => ps[2] \in 8 .. 7 + Len(frame.meta)
    BY <1>6, <1>8
  <2> QED
    BY <1>2, <1>7, <1>8, <2>1
<1>10. ps[2] = 7 /\ ps[1] = 6
  BY <1>6, <1>9
<1> QED
  BY <1>2, <1>7, <1>8, <1>10

\* The last byte of the metadata: every byte is in its place and was written.
LEMMA TextExact ==
  ASSUME TypeOK, OutInStep, MetaIsText, Live, rx # <<>>, Len(got) + 1 = Len(frame.meta),
         NEW ps, Placed(ps, got, rx, frame, Here, lost),
         \A i \in 1 .. Window : ps[i] >= 8
  PROVE  Field = frame.meta /\ Len(rx) = 1 /\ Len(out) = 0
<1> DEFINE L == Len(frame.meta)
<1>1. /\ frame \in Frames /\ L \in Nat \ {0} /\ Here \in Int
      /\ Here = 8 + L - Len(out) /\ Here <= 8 + L
  BY LiveIs
<1>2. /\ Window \in Nat /\ Len(rx) \in Nat /\ Len(out) \in Nat /\ Window = Len(got) + Len(rx)
      /\ Len(got) \in Nat
  BY Sizes DEF Window
<1>3. /\ L <= Window
      /\ \A i \in 1 .. Window : ps[i] \in Int /\ ps[i] < Here
      /\ \A i, j \in 1 .. Window : i < j => ps[j] - ps[i] >= j - i
      /\ \A i \in 1 .. L : ps[i] >= 1 => Field[i] = Header(frame)[ps[i]]
  BY FieldPlaced
<1>4. Field \in Seq(Byte) /\ Len(Field) = L /\ frame.meta \in Seq(Byte)
  BY <1>1, NextByte, FrameIs
<1>5. \A j \in 8 .. 7 + L : Header(frame)[j] = frame.meta[j - 7]
  BY <1>1, HeaderText
<1> HIDE DEF L
<1>6. \A i \in 1 .. Window : ps[i] >= 7 + i
  <2> SUFFICES ASSUME NEW i \in 1 .. Window PROVE ps[i] >= 7 + i
    OBVIOUS
  <2>1. 1 \in 1 .. Window /\ ps[1] >= 8 /\ ps[1] \in Int /\ ps[i] \in Int
    BY <1>1, <1>2, <1>3
  <2>2. CASE i = 1
    BY <2>1, <2>2
  <2>3. CASE 1 < i
    <3>1. ps[i] - ps[1] >= i - 1
      BY <1>3, <2>1, <2>3
    <3> QED
      BY <2>1, <3>1
  <2> QED
    BY <1>2, <2>2, <2>3
<1>7. Window = L /\ Here = 8 + L
  <2>1. Window \in 1 .. Window /\ ps[Window] < Here /\ ps[Window] \in Int
    BY <1>1, <1>2, <1>3
  <2>2. ps[Window] >= 7 + Window
    BY <1>6, <2>1
  <2> QED
    BY <1>1, <1>2, <1>3, <2>1, <2>2
<1>8. ASSUME NEW i \in 1 .. L
      PROVE  Field[i] = frame.meta[i]
  <2>1. L \in 1 .. Window /\ i \in 1 .. Window /\ ps[i] \in Int /\ ps[L] \in Int
    BY <1>1, <1>2, <1>3, <1>7
  <2>2. ps[L] < Here /\ ps[i] >= 7 + i
    BY <1>3, <1>6, <2>1
  <2>3. ps[L] - ps[i] >= L - i
    <3>1. CASE i = L
      BY <2>1, <3>1
    <3>2. CASE i < L
      BY <1>3, <2>1, <3>2
    <3> QED
      BY <1>1, <3>1, <3>2
  <2>4. ps[i] = 7 + i
    BY <1>1, <1>7, <2>1, <2>2, <2>3
  <2>5. Field[i] = Header(frame)[7 + i]
    BY <1>3, <2>4
  <2> DEFINE j == 7 + i
  <2>6. j \in 8 .. 7 + L /\ j - 7 = i
    BY <1>1
  <2> HIDE DEF j
  <2>7. Header(frame)[j] = frame.meta[i]
    BY <1>5, <2>6
  <2> QED
    BY <2>5, <2>7 DEF j
<1>9. Field = frame.meta
  BY <1>4, <1>8, SeqEqual DEF L
<1>10. Len(got) + 1 = L
  BY DEF L
<1>11. Len(rx) = 1
  <2>1. \A a, b, c \in Nat : a + 1 = c /\ a + b = c => b = 1
    OBVIOUS
  <2> QED
    BY <1>1, <1>2, <1>7, <1>10, <2>1
<1>12. Len(out) = 0
  <2>1. \A a \in Nat : \A b \in Nat : 8 + a = 8 + a - b => b = 0
    OBVIOUS
  <2> QED
    BY <1>1, <1>2, <1>7, <2>1
<1> QED
  BY <1>9, <1>11, <1>12

-----------------------------------------------------------------------------
(* The steps of the camera task that leave OpenMV alone                    *)

\* r2 is what is left of r.
Rest(r2, r) == Len(r2) <= Len(r) /\ \A i \in 1 .. Len(r2) : r2[i] = r[Len(r) - Len(r2) + i]

LEMMA RestIs ==
  ASSUME NEW S, NEW r \in Seq(S)
  PROVE  Rest(r, r) /\ Rest(<<>>, r) /\ (r # <<>> => Rest(Tail(r), r))
<1>1. Len(r) \in Nat
  BY LenProperties
<1>2. Rest(r, r)
  BY <1>1 DEF Rest
<1>3. Rest(<<>>, r)
  BY <1>1 DEF Rest
<1>4. ASSUME r # <<>>
      PROVE  Rest(Tail(r), r)
  <2> DEFINE t == Tail(r)
             n == Len(r)
             k == Len(t)
  <2>1. n \in Nat /\ k = n - 1 /\ \A i \in 1 .. n - 1 : t[i] = r[i + 1]
    BY <1>1, <1>4, TailIs
  <2> HIDE DEF t, n, k
  <2>2. ASSUME NEW i \in 1 .. k
        PROVE  t[i] = r[n - k + i]
    <3>1. n - k + i = i + 1 /\ i \in 1 .. n - 1
      BY <2>1
    <3> QED
      BY <2>1, <3>1
  <2>3. k <= n
    BY <2>1
  <2> QED
    BY <2>2, <2>3 DEF Rest, t, n, k
<1> QED
  BY <1>2, <1>3, <1>4

LEMMA SameLine ==
  ASSUME OutInStep, UNCHANGED omvVars
  PROVE  OutInStep' /\ (Live' <=> Live) /\ Here' = Here /\ frame' = frame
  BY DEF OutInStep, omvVars, Live, Here

\* The places of what is left when the field is given up or complete.
LEMMA LeftPlaces ==
  ASSUME LinkInv, MetaIsText, TypeOK', UNCHANGED <<omvVars, lost>>, Live, got' = <<>>, Rest(rx', rx),
         NEW ps, Placed(ps, got, rx, frame, Here, lost)
  PROVE  \E qs : /\ Placed(qs, got', rx', frame', Here', lost')
                 /\ Window' = Len(rx')
                 /\ \A i \in 1 .. Len(rx') : qs[i] = ps[Window - Len(rx') + i]
<1>1. /\ Len(got) \in Nat /\ Len(rx) \in Nat /\ Len(rx') \in Nat
      /\ Window = Len(got) + Len(rx) /\ Window' = Len(rx')
  <2>1. Len(got) \in Nat /\ Len(rx) \in Nat
    BY Sizes DEF LinkInv
  <2>2. Len(rx') \in Nat
    BY LenProperties DEF TypeOK
  <2>3. Len(got') = 0
    OBVIOUS
  <2> QED
    BY <2>1, <2>2, <2>3 DEF Window
<1>2. Here \in Int
  BY LiveIs DEF LinkInv
<1>3. \E qs : /\ Placed(qs, <<>>, rx', frame, Here, lost)
              /\ \A i \in 1 .. Len(rx') : qs[i] = ps[Len(got) + Len(rx) - Len(rx') + i]
  BY <1>1, <1>2, DropPlaces DEF Rest
<1>4. frame' = frame /\ Here' = Here /\ lost' = lost
  BY SameLine DEF LinkInv
<1> QED
  BY <1>1, <1>3, <1>4

LEMMA LeftStale ==
  ASSUME LinkInv, TypeOK', ~Live, lost = 0 \/ cam # "returned", Rest(rx', rx)
  PROVE  \A i \in 1 .. Len(rx') : rx'[i] = StaleAck
<1>1. \A i \in 1 .. Len(rx) : rx[i] = StaleAck
  BY DEF LinkInv, RxInStep
<1>2. Len(rx) \in Nat /\ Len(rx') \in Nat
  BY Sizes, LenProperties DEF LinkInv, TypeOK
<1>3. \A i \in 1 .. Len(rx') : Len(rx) - Len(rx') + i \in 1 .. Len(rx)
  BY <1>2 DEF Rest
<1> QED
  BY <1>1, <1>3 DEF Rest

\* A step after which no field of the header is being read.
LEMMA QuietStep ==
  ASSUME LinkInv, MetaIsText, TypeOK', UNCHANGED <<omvVars, lost>>, got' = <<>>, Rest(rx', rx),
         cam' \in {"start", "attempt", "poll", "capture", "ack", "failed"},
         lost = 0 \/ cam # "returned"
  PROVE  OutInStep' /\ RxInStep' /\ GotInStep' /\ WholeInStep' /\ SpiInStep'
<1>1. OutInStep' /\ (Live' <=> Live) /\ Here' = Here /\ frame' = frame
  BY SameLine DEF LinkInv
<1>2. GotInStep' /\ WholeInStep' /\ SpiInStep'
  BY DEF GotInStep, WholeInStep, SpiInStep
<1>3. ASSUME Live
      PROVE  \E qs : Placed(qs, got', rx', frame', Here', lost') /\ Ordered(qs)'
  <2>1. PICK ps : Placed(ps, got, rx, frame, Here, lost)
    BY <1>3 DEF LinkInv, RxInStep
  <2>2. PICK qs : Placed(qs, got', rx', frame', Here', lost')
    BY <1>3, <2>1, LeftPlaces
  <2>3. Ordered(qs)'
    BY DEF Ordered
  <2> QED
    BY <2>2, <2>3
<1>4. ASSUME ~Live
      PROVE  \A i \in 1 .. Len(rx') : rx'[i] = StaleAck
  BY <1>4, LeftStale
<1>5. RxInStep'
  BY <1>1, <1>3, <1>4 DEF RxInStep
<1> QED
  BY <1>1, <1>2, <1>5

LEMMA RxRest ==
  ASSUME LinkInv
  PROVE  Rest(rx, rx) /\ Rest(<<>>, rx) /\ (rx # <<>> => Rest(Tail(rx), rx))
  BY RestIs DEF LinkInv, TypeOK

LEMMA SetupStep ==
  ASSUME LinkInv, MetaIsText, TypeOK',
         OpenFails \/ Open \/ HandshakeFailed \/ HandshakeOk \/ HandshakePoll
  PROVE  LinkInv'
<1>1. /\ UNCHANGED <<omvVars, lost, session, cmds, got>>
      /\ cam \in {"start", "attempt", "poll"}
      /\ cam' \in {"attempt", "poll", "capture", "failed"}
  BY DEF OpenFails, Open, HandshakeFailed, HandshakeOk, HandshakePoll, waitVars
<1>2. Rest(rx', rx)
  BY RxRest DEF OpenFails, Open, HandshakeFailed, HandshakeOk, HandshakePoll, UartFlush
<1>3. got' = <<>>
  BY <1>1 DEF LinkInv, GotInStep
<1>4. OutInStep' /\ RxInStep' /\ GotInStep' /\ WholeInStep' /\ SpiInStep'
  BY <1>1, <1>2, <1>3, QuietStep
<1>5. CmdsInStep'
  <2>1. Live' <=> Live
    BY <1>1, SameLine DEF LinkInv
  <2> QED
    BY <1>1, <2>1 DEF LinkInv, CmdsInStep
<1> QED
  BY <1>4, <1>5 DEF LinkInv

\* A command joins the ones OpenMV has not read.
LEMMA SendStep ==
  ASSUME LinkInv, MetaIsText, TypeOK', HandshakeSend \/ Capture
  PROVE  LinkInv'
<1>1. /\ UNCHANGED <<omvVars, lost, session, got>>
      /\ cam \in {"attempt", "capture"} /\ cam' \in {"poll", "ack"} /\ rx' = <<>>
  BY DEF HandshakeSend, Capture, UartFlush
<1>2. Rest(rx', rx)
  BY <1>1, RxRest
<1>3. got' = <<>>
  BY <1>1 DEF LinkInv, GotInStep
<1>4. OutInStep' /\ RxInStep' /\ GotInStep' /\ WholeInStep' /\ SpiInStep'
  BY <1>1, <1>2, <1>3, QuietStep
<1>5. Live' <=> Live
  BY <1>1, SameLine DEF LinkInv
<1>6. cmds \in Seq({CMD_HANDSHAKE, CMD_CAPTURE}) /\ Len(cmds) \in Nat
  BY Sizes DEF LinkInv, TypeOK
<1>7. ASSUME session = 1
      PROVE  ~Live /\ \A i \in 1 .. Len(cmds) : cmds[i] = CMD_HANDSHAKE
  BY <1>1, <1>7 DEF LinkInv, CmdsInStep
<1>8. CMD_HANDSHAKE # CMD_CAPTURE
  BY DEF CMD_HANDSHAKE, CMD_CAPTURE
<1>9. ASSUME NEW c \in {CMD_HANDSHAKE, CMD_CAPTURE}, cmds' = Append(cmds, c)
      PROVE  /\ Len(cmds') = Len(cmds) + 1 /\ cmds'[Len(cmds) + 1] = c
             /\ \A i \in 1 .. Len(cmds) : cmds'[i] = cmds[i]
  BY <1>6, <1>9, AppendProperties
<1>10. CASE HandshakeSend
  <2>1. cmds' = Append(cmds, CMD_HANDSHAKE) /\ cam' = "poll"
    BY <1>10 DEF HandshakeSend, UartWriteByte
  <2>2. session = 1 => \A i \in 1 .. Len(cmds') : cmds'[i] = CMD_HANDSHAKE
    BY <1>6, <1>7, <1>9, <2>1
  <2>3. CmdsInStep'
    BY <1>1, <1>5, <1>7, <1>8, <2>1, <2>2 DEF CmdsInStep
  <2> QED
    BY <1>4, <2>3 DEF LinkInv
<1>11. CASE Capture
  <2>1. cmds' = Append(cmds, CMD_CAPTURE) /\ cam' = "ack"
    BY <1>11 DEF Capture, UartWriteByte
  <2>2. session = 1 => \A i \in 1 .. Len(cmds') : cmds'[i] = CMD_CAPTURE => i = Len(cmds')
    BY <1>6, <1>7, <1>8, <1>9, <2>1
  <2>3. CmdsInStep'
    BY <1>1, <1>5, <1>7, <2>1, <2>2 DEF CmdsInStep
  <2> QED
    BY <1>4, <2>3 DEF LinkInv
<1> QED
  BY <1>10, <1>11

LEMMA RestartStep ==
  ASSUME LinkInv, MetaIsText, OneFault, TypeOK', Restart
  PROVE  LinkInv'
<1>1. /\ UNCHANGED <<omvVars, lost, rx>> /\ got' = <<>> /\ cam' = "start"
      /\ session' = session + 1 /\ <<lost, session + 1>> \in Bounds
  BY DEF Restart
<1>2. session \in Nat \ {0} /\ <<lost, session>> \in Bounds
  BY ConstantTypes DEF LinkInv, TypeOK
<1>3. lost = 0
  BY <1>1, <1>2 DEF OneFault
<1>4. Rest(rx', rx)
  BY <1>1, RxRest
<1>5. OutInStep' /\ RxInStep' /\ GotInStep' /\ WholeInStep' /\ SpiInStep'
  BY <1>1, <1>3, <1>4, QuietStep
<1>6. CmdsInStep'
  BY <1>1, <1>2 DEF CmdsInStep
<1> QED
  BY <1>5, <1>6 DEF LinkInv

\* The wait for a byte goes on, or the app gives up.
LEMMA ReadPollStep ==
  ASSUME LinkInv, TypeOK', ReadPoll
  PROVE  LinkInv'
<1>1. /\ UNCHANGED <<omvVars, headerVars, lost, session, cmds, got, rx>>
      /\ cam \in {"ack", "size", "mlen", "meta"} /\ (cam' = cam \/ cam' = "failed")
  BY DEF ReadPoll, Waiting
<1>2. OutInStep' /\ (Live' <=> Live) /\ Here' = Here /\ frame' = frame
  BY <1>1, SameLine DEF LinkInv
<1>3. Window' = Window /\ First' = First
  BY <1>1, <1>2 DEF Window, First
<1>4. RxInStep'
  <2>1. \A ps : Ordered(ps) => Ordered(ps)'
    BY <1>1, <1>2, <1>3 DEF Ordered, Beyond, headerVars
  <2> QED
    BY <1>1, <1>2, <2>1 DEF LinkInv, RxInStep
<1>5. CmdsInStep'
  BY <1>1, <1>2 DEF LinkInv, CmdsInStep, headerVars, omvVars
<1>6. GotInStep' /\ WholeInStep' /\ SpiInStep'
  BY <1>1, <1>2, <1>3 DEF LinkInv, GotInStep, WholeInStep, SpiInStep, headerVars
<1> QED
  BY <1>2, <1>4, <1>5, <1>6 DEF LinkInv

-----------------------------------------------------------------------------
(* The steps that read the ACK and the header                              *)

\* The m-th byte of the window is the last one taken: what is left lies behind it.
LEMMA LeftBeyond ==
  ASSUME LinkInv, MetaIsText, TypeOK', UNCHANGED <<omvVars, lost>>, Live, got' = <<>>, Rest(rx', rx),
         NEW ps, Placed(ps, got, rx, frame, Here, lost),
         NEW m \in Nat \ {0}, Len(rx') = Window - m
  PROVE  \E qs : Placed(qs, got', rx', frame', Here', lost') /\ Beyond(qs, ps[m] + 1)'
<1>1. PICK qs : /\ Placed(qs, got', rx', frame', Here', lost')
                /\ Window' = Len(rx')
                /\ \A i \in 1 .. Len(rx') : qs[i] = ps[Window - Len(rx') + i]
  BY LeftPlaces
<1>2. Window \in Nat /\ Len(rx') \in Nat /\ Here \in Int /\ Here' = Here
  BY Sizes, LenProperties, LiveIs, SameLine DEF LinkInv, TypeOK
<1>3. /\ \A i \in 1 .. Window : ps[i] \in Int /\ ps[i] < Here
      /\ \A i, j \in 1 .. Window : i < j => ps[j] - ps[i] >= j - i
  BY DEF Placed, Window
<1>4. m \in 1 .. Window /\ ps[m] \in Int /\ ps[m] < Here
  BY <1>2, <1>3
<1>5. Here' >= ps[m] + 1
  BY <1>2, <1>4
<1>6. ASSUME NEW i \in 1 .. Len(rx')
      PROVE  qs[i] >= ps[m] + 1
  <2> DEFINE j == m + i
  <2>1. j \in 1 .. Window /\ m < j /\ j - m = i /\ Window - Len(rx') + i = j /\ i >= 1
    BY <1>2
  <2> HIDE DEF j
  <2>2. ps[j] - ps[m] >= j - m /\ ps[j] \in Int
    BY <1>3, <1>4, <2>1
  <2>3. qs[i] = ps[j]
    BY <1>1, <2>1
  <2> QED
    BY <1>4, <2>1, <2>2, <2>3
<1>7. Beyond(qs, ps[m] + 1)'
  BY <1>1, <1>5, <1>6 DEF Beyond
<1> QED
  BY <1>1, <1>7

\* Before OpenMV starts a header only ACKs can be read.
LEMMA StaleHead ==
  ASSUME LinkInv, rx # <<>>, ~Live, cam # "returned"
  PROVE  Head(rx) = StaleAck /\ Field[Len(got) + 1] = ACK_BYTE
<1>1. Head(rx) = rx[1] /\ Len(rx) \in Nat \ {0}
  BY TailIs DEF LinkInv, TypeOK
<1>2. rx[1] = StaleAck
  BY <1>1 DEF LinkInv, RxInStep
<1>3. Field[Len(got) + 1] = Head(rx).v
  BY NextByte DEF LinkInv
<1> QED
  BY <1>1, <1>2, <1>3 DEF StaleAck

LEMMA ReadAckStep ==
  ASSUME LinkInv, MetaIsText, TypeOK', ReadAck
  PROVE  LinkInv'
<1>1. /\ UNCHANGED <<omvVars, lost, session, cmds>> /\ cam = "ack" /\ cam' \in {"size", "failed"}
      /\ got' = <<>> /\ rx # <<>> /\ rx' = Tail(rx) /\ ackOf' = Head(rx).re
  BY DEF ReadAck
<1>2. Rest(rx', rx)
  BY <1>1, RxRest
<1>3. OutInStep' /\ (Live' <=> Live) /\ Here' = Here /\ frame' = frame
  BY <1>1, SameLine DEF LinkInv
<1>4. ~Live => ackOf' = "handshake"
  BY <1>1, StaleHead DEF StaleAck
<1>5. CmdsInStep'
  BY <1>1, <1>3, <1>4 DEF LinkInv, CmdsInStep
<1>6. CASE cam' = "failed"
  BY <1>1, <1>2, <1>5, <1>6, QuietStep DEF LinkInv
<1>7. CASE cam' = "size"
  <2>1. GotInStep' /\ WholeInStep' /\ SpiInStep'
    BY <1>1, <1>7 DEF GotInStep, WholeInStep, SpiInStep
  <2>2. ASSUME Live
        PROVE  \E qs : Placed(qs, got', rx', frame', Here', lost') /\ Ordered(qs)'
    <3>1. PICK ps : Placed(ps, got, rx, frame, Here, lost)
      BY <2>2 DEF LinkInv, RxInStep
    <3>2. /\ Len(got) = 0 /\ Len(rx) \in Nat \ {0} /\ Len(rx') = Len(rx) - 1 /\ Head(rx) = rx[1]
          /\ Window = Len(rx)
      <4>1. got = <<>>
        BY <1>1 DEF LinkInv, GotInStep
      <4>2. Len(rx) \in Nat \ {0} /\ Len(rx') = Len(rx) - 1 /\ Head(rx) = rx[1]
        BY <1>1, TailIs DEF LinkInv, TypeOK
      <4> QED
        BY <4>1, <4>2 DEF Window
    <3>3. PICK qs : Placed(qs, got', rx', frame', Here', lost') /\ Beyond(qs, ps[1] + 1)'
      BY <1>1, <1>2, <2>2, <3>1, <3>2, LeftBeyond
    <3>4. ps[1] \in Int /\ rx[1] = At(frame, ps[1])
      BY <3>1, <3>2 DEF Placed
    <3>5. ackOf' = "capture" => ps[1] >= 1
      BY <1>1, <3>2, <3>4 DEF At, StaleAck
    <3>6. /\ \A i \in 1 .. Window' : qs[i] \in Int
          /\ Here' \in Int
      BY <1>3, <2>2, <3>3, LiveIs DEF LinkInv, Placed, Window
    <3>7. ps[1] >= 1 => Beyond(qs, 2)'
      BY <3>3, <3>4, <3>6 DEF Beyond
    <3>8. Ordered(qs)'
      BY <1>7, <3>5, <3>7 DEF Ordered
    <3> QED
      BY <3>3, <3>8
  <2>3. RxInStep'
    BY <1>1, <1>2, <1>3, <2>2, LeftStale DEF RxInStep
  <2> QED
    BY <1>3, <1>5, <2>1, <2>3 DEF LinkInv
<1> QED
  BY <1>1, <1>6, <1>7

\* A byte that does not complete its field.
LEMMA ReadMoreStep ==
  ASSUME LinkInv, MetaIsText, TypeOK', NEW n, ReadMore(n),
         \/ cam = "size" /\ n = 4
         \/ cam = "mlen" /\ n = 2
         \/ cam = "meta" /\ n = meta_len
  PROVE  LinkInv'
<1>1. /\ UNCHANGED <<cam, headerVars, omvVars, lost, session, cmds>>
      /\ rx # <<>> /\ rx' = Tail(rx) /\ got' = Field /\ Len(Field) < n
  BY DEF ReadMore
<1>2. Rest(rx', rx)
  BY <1>1, RxRest
<1>3. OutInStep' /\ (Live' <=> Live) /\ Here' = Here /\ frame' = frame
  BY <1>1, SameLine DEF LinkInv
<1>4. Window' = Window /\ First' = First
  <2>1. /\ Len(got) \in Nat /\ Len(got') = Len(got) + 1
        /\ Len(rx) \in Nat /\ Len(rx') = Len(rx) - 1
    BY <1>1, NextByte, TailIs DEF LinkInv, TypeOK
  <2>2. Window' = Window
    BY <2>1 DEF Window
  <2> QED
    BY <1>3, <2>2 DEF First
<1>5. GotInStep'
  BY <1>1 DEF GotInStep, headerVars
<1>6. WholeInStep' /\ SpiInStep'
  BY <1>1, <1>3, <1>4 DEF LinkInv, WholeInStep, SpiInStep, headerVars
<1>7. CmdsInStep'
  BY <1>1, <1>3 DEF LinkInv, CmdsInStep, headerVars
<1>8. ASSUME Live
      PROVE  \E qs : Placed(qs, got', rx', frame', Here', lost') /\ Ordered(qs)'
  <2>1. PICK ps : Placed(ps, got, rx, frame, Here, lost) /\ Ordered(ps)
    BY <1>8 DEF LinkInv, RxInStep
  <2>2. Here \in Int
    BY <1>8, LiveIs DEF LinkInv
  <2>3. Placed(ps, Field, Tail(rx), frame, Here, lost)
    BY <1>1, <2>1, <2>2, MorePlaces DEF LinkInv, TypeOK, Field
  <2>4. Ordered(ps)'
    BY <1>1, <1>3, <1>4, <2>1 DEF Ordered, Beyond, headerVars
  <2> QED
    BY <1>1, <1>3, <2>3, <2>4
<1>9. RxInStep'
  BY <1>1, <1>2, <1>3, <1>8, LeftStale DEF RxInStep
<1> QED
  BY <1>3, <1>5, <1>6, <1>7, <1>9 DEF LinkInv

\* The last byte of a field, whatever comes of it.
LEMMA LastIs ==
  ASSUME LinkInv, NEW n, ReadLast(n), cam \in {"size", "mlen", "meta"}
  PROVE  /\ UNCHANGED <<omvVars, lost, session, cmds, ackOf>>
         /\ rx # <<>> /\ rx' = Tail(rx) /\ got' = <<>> /\ Rest(rx', rx)
         /\ Len(Field) = n /\ n = Len(got) + 1 /\ n \in Nat \ {0}
         /\ Len(rx') = Window - n /\ Window' = Window - n
<1>1. /\ UNCHANGED <<omvVars, lost, session, cmds, ackOf>>
      /\ rx # <<>> /\ rx' = Tail(rx) /\ got' = <<>> /\ Len(Field) = n
  BY DEF ReadLast
<1>2. Len(Field) = Len(got) + 1 /\ Len(got) \in Nat
  BY <1>1, NextByte DEF LinkInv
<1>3. Len(rx) \in Nat /\ Len(rx') = Len(rx) - 1
  BY <1>1, TailIs DEF LinkInv, TypeOK
<1>4. Len(got') = 0
  BY <1>1
<1>5. Len(rx') = Window - n /\ Window' = Window - n
  BY <1>1, <1>2, <1>3, <1>4 DEF Window
<1>6. n = Len(got) + 1 /\ n \in Nat \ {0}
  BY <1>1, <1>2
<1>7. Rest(rx', rx)
  BY <1>1, RxRest
<1> QED
  BY <1>1, <1>5, <1>6, <1>7

\* A field that is refused.
LEMMA RefuseStep ==
  ASSUME LinkInv, MetaIsText, TypeOK', NEW n, ReadLast(n), cam \in {"size", "mlen", "meta"},
         cam' = "failed"
  PROVE  LinkInv'
<1>1. /\ UNCHANGED <<omvVars, lost, session, cmds>> /\ got' = <<>> /\ Rest(rx', rx)
  BY LastIs
<1>2. OutInStep' /\ RxInStep' /\ GotInStep' /\ WholeInStep' /\ SpiInStep'
  BY <1>1, QuietStep
<1>3. CmdsInStep'
  <2>1. Live' <=> Live
    BY <1>1, SameLine DEF LinkInv
  <2> QED
    BY <1>1, <2>1 DEF LinkInv, CmdsInStep
<1> QED
  BY <1>2, <1>3 DEF LinkInv

\* A size that is accepted.
LEMMA SizeStep ==
  ASSUME LinkInv, BuffersFit, MetaIsText, TypeOK', cam = "size", ReadLast(4),
         img_size' = Le4(Field), SizeOk(Le4(Field)), cam' = "mlen", UNCHANGED <<meta_len, meta_buf>>
  PROVE  LinkInv'
<1>1. /\ UNCHANGED <<omvVars, lost, session, cmds, ackOf>>
      /\ rx # <<>> /\ got' = <<>> /\ Rest(rx', rx) /\ Len(got) + 1 = 4
      /\ Len(rx') = Window - 4 /\ Window' = Window - 4
  BY LastIs
<1>2. Len(got) = 3 /\ Len(Field) = 4 /\ Field \in Seq(Byte)
  <2>1. Len(got) \in Nat /\ Len(Field) = Len(got) + 1 /\ Field \in Seq(Byte)
    BY <1>1, NextByte DEF LinkInv
  <2> DEFINE k == Len(got)
  <2>2. k \in Nat /\ k + 1 = 4 /\ Len(Field) = k + 1
    BY <1>1, <2>1
  <2> HIDE DEF k
  <2>3. k = 3 /\ Len(Field) = 4
    BY <2>2
  <2> QED
    BY <2>1, <2>3 DEF k
<1>3. Live
  <2>1. Field[4] = 0
    BY <1>2, SizeAccepted
  <2> QED
    BY <1>1, <2>1, StaleHead, AckIs
<1>4. OutInStep' /\ Live' /\ Here' = Here /\ frame' = frame
  BY <1>1, <1>3, SameLine DEF LinkInv
<1>5. PICK ps : Placed(ps, got, rx, frame, Here, lost) /\ Ordered(ps)
  BY <1>3 DEF LinkInv, RxInStep
<1>6. GotInStep' /\ SpiInStep'
  BY <1>1 DEF GotInStep, SpiInStep
<1>7. WholeInStep'
  <2>1. ASSUME lost = 0
        PROVE  First' \in {5, 6} /\ (First' = 6 => img_size' = frame.size)
    <3>1. First \in {1, 2} /\ (First = 2 => Le4(Field) = frame.size)
      BY <1>1, <1>2, <1>3, <1>5, <2>1, SizeWhole DEF LinkInv
    <3>2. First' = First + 4
      <4>1. Window \in Nat /\ Here \in Int
        BY <1>3, Sizes, LiveIs DEF LinkInv
      <4> QED
        BY <1>1, <1>4, <4>1 DEF First
    <3> QED
      BY <3>1, <3>2
  <2> QED
    BY <1>1, <1>4, <2>1 DEF WholeInStep
<1>8. CmdsInStep'
  BY <1>1, <1>3, <1>4 DEF LinkInv, CmdsInStep
<1>9. PICK qs : Placed(qs, got', rx', frame', Here', lost') /\ Beyond(qs, ps[4] + 1)'
  BY <1>1, <1>3, <1>5, LeftBeyond
<1>10. ASSUME session = 1, ackOf = "capture"
       PROVE  (img_size' = frame'.size /\ Beyond(qs, 6)') \/ Beyond(qs, 8)'
  <2>1. Beyond(ps, 2)
    BY <1>5, <1>10 DEF Ordered
  <2>2. (ps[4] = 5 /\ Le4(Field) = frame.size) \/ ps[4] = 7
    BY <1>1, <1>2, <1>3, <1>5, <2>1, SizeOrdered DEF LinkInv
  <2>3. (5 + 1 = 6) /\ (7 + 1 = 8)
    OBVIOUS
  <2> QED
    BY <1>4, <1>9, <2>2, <2>3
<1>11. Ordered(qs)'
  BY <1>1, <1>10 DEF Ordered
<1>12. RxInStep'
  BY <1>4, <1>9, <1>11 DEF RxInStep
<1> QED
  BY <1>4, <1>6, <1>7, <1>8, <1>12 DEF LinkInv

\* A length that is accepted.
LEMMA LengthStep ==
  ASSUME LinkInv, BuffersFit, MetaIsText, TypeOK', cam = "mlen", ReadLast(2),
         meta_len' = Le2(Field), MetaOk(Le2(Field)), cam' = "meta", UNCHANGED <<img_size, meta_buf>>
  PROVE  LinkInv'
<1>1. /\ UNCHANGED <<omvVars, lost, session, cmds, ackOf>>
      /\ rx # <<>> /\ got' = <<>> /\ Rest(rx', rx) /\ Len(got) + 1 = 2
      /\ Len(rx') = Window - 2 /\ Window' = Window - 2
  BY LastIs
<1>2. Len(got) = 1 /\ Len(Field) = 2 /\ Field \in Seq(Byte)
  <2>1. Len(got) \in Nat /\ Len(Field) = Len(got) + 1 /\ Field \in Seq(Byte)
    BY <1>1, NextByte DEF LinkInv
  <2> DEFINE k == Len(got)
  <2>2. k \in Nat /\ k + 1 = 2 /\ Len(Field) = k + 1
    BY <1>1, <2>1
  <2> HIDE DEF k
  <2>3. k = 1 /\ Len(Field) = 2
    BY <2>2
  <2> QED
    BY <2>1, <2>3 DEF k
<1>3. Live
  <2>1. Field[2] = 0
    BY <1>2, LengthAccepted
  <2> QED
    BY <1>1, <2>1, StaleHead, AckIs
<1>4. OutInStep' /\ Live' /\ Here' = Here /\ frame' = frame
  BY <1>1, <1>3, SameLine DEF LinkInv
<1>5. PICK ps : Placed(ps, got, rx, frame, Here, lost) /\ Ordered(ps)
  BY <1>3 DEF LinkInv, RxInStep
<1>6. SpiInStep' /\ GotInStep'
  <2>1. Len(got') = 0 /\ meta_len' \in Nat /\ meta_len' # 0
    BY <1>1, <1>2, Le2Is DEF MetaOk
  <2> QED
    BY <1>1, <2>1 DEF GotInStep, SpiInStep
<1>7. WholeInStep'
  <2>1. ASSUME lost = 0
        PROVE  First' = 8 /\ img_size' = frame.size /\ meta_len' = Len(frame.meta)
    <3>1. First \in {5, 6} /\ (First = 6 => img_size = frame.size)
      BY <2>1 DEF LinkInv, WholeInStep
    <3>2. First = 6 /\ Le2(Field) = Len(frame.meta)
      BY <1>1, <1>2, <1>3, <1>5, <2>1, <3>1, LengthWhole DEF LinkInv
    <3>3. First' = First + 2
      <4>1. Window \in Nat /\ Here \in Int
        BY <1>3, Sizes, LiveIs DEF LinkInv
      <4> QED
        BY <1>1, <1>4, <4>1 DEF First
    <3> QED
      BY <3>1, <3>2, <3>3
  <2> QED
    BY <1>1, <1>4, <2>1 DEF WholeInStep
<1>8. CmdsInStep'
  BY <1>1, <1>3, <1>4 DEF LinkInv, CmdsInStep
<1>9. PICK qs : Placed(qs, got', rx', frame', Here', lost') /\ Beyond(qs, ps[2] + 1)'
  BY <1>1, <1>3, <1>5, LeftBeyond
<1>10. ASSUME session = 1, ackOf = "capture"
       PROVE  /\ img_size' = frame'.size /\ meta_len' = Len(frame'.meta)
              /\ Beyond(qs, 8)'
  <2>1. (img_size = frame.size /\ Beyond(ps, 6)) \/ Beyond(ps, 8)
    BY <1>5, <1>10 DEF Ordered
  <2>2. /\ \A i \in 1 .. Window : ps[i] \in Int
        /\ 1 \in 1 .. Window
    <3>1. Window \in Nat /\ Len(rx') \in Nat
      BY Sizes, LenProperties DEF LinkInv, TypeOK
    <3> QED
      BY <1>1, <1>5, <3>1 DEF Placed, Window
  <2>3. \A i \in 1 .. Window : ps[i] >= 6
    BY <2>1, <2>2 DEF Beyond
  <2>4. ps[1] = 6 /\ ps[2] = 7 /\ Le2(Field) = Len(frame.meta)
    BY <1>1, <1>2, <1>3, <1>5, <2>3, LengthOrdered DEF LinkInv
  <2>5. img_size = frame.size
    BY <2>1, <2>2, <2>4 DEF Beyond
  <2>6. 7 + 1 = 8
    OBVIOUS
  <2> QED
    BY <1>4, <1>9, <2>4, <2>5, <2>6
<1>11. Ordered(qs)'
  BY <1>1, <1>10 DEF Ordered
<1>12. RxInStep'
  BY <1>4, <1>9, <1>11 DEF RxInStep
<1> QED
  BY <1>4, <1>6, <1>7, <1>8, <1>12 DEF LinkInv

\* The metadata is complete.
LEMMA TextStep ==
  ASSUME LinkInv, MetaIsText, OneFault, TypeOK', cam = "meta", ReadLast(meta_len),
         meta_buf' = Field, cam' = "spi", UNCHANGED <<img_size, meta_len>>
  PROVE  LinkInv'
<1>1. /\ UNCHANGED <<omvVars, lost, session, cmds, ackOf>>
      /\ rx # <<>> /\ rx' = Tail(rx) /\ got' = <<>> /\ Rest(rx', rx) /\ meta_len = Len(got) + 1
  BY LastIs
<1>2. OutInStep' /\ (Live' <=> Live) /\ Here' = Here /\ frame' = frame
  BY <1>1, SameLine DEF LinkInv
<1>3. GotInStep' /\ WholeInStep'
  BY <1>1 DEF GotInStep, WholeInStep
<1>4. CmdsInStep'
  BY <1>1, <1>2 DEF LinkInv, CmdsInStep
<1>5. ASSUME Live
      PROVE  \E qs : Placed(qs, got', rx', frame', Here', lost') /\ Ordered(qs)'
  <2>1. PICK ps : Placed(ps, got, rx, frame, Here, lost)
    BY <1>5 DEF LinkInv, RxInStep
  <2>2. PICK qs : Placed(qs, got', rx', frame', Here', lost')
    BY <1>1, <1>5, <2>1, LeftPlaces
  <2>3. Ordered(qs)'
    BY DEF Ordered
  <2> QED
    BY <2>2, <2>3
<1>6. RxInStep'
  BY <1>1, <1>2, <1>5, LeftStale DEF RxInStep
<1>7. ASSUME lost = 0 \/ ackOf = "capture"
      PROVE  /\ omv = "spi" /\ rx' = <<>> /\ img_size = frame.size
             /\ meta_len = Len(frame.meta) /\ Field = frame.meta
  <2>1. <<lost, session>> \in Bounds
    BY DEF LinkInv, TypeOK
  <2>2. lost = 0 \/ (session = 1 /\ ackOf = "capture")
    BY <1>7, <2>1 DEF OneFault
  <2>3. Live
    BY <1>1, <2>2 DEF LinkInv, WholeInStep, CmdsInStep
  <2>4. PICK ps : Placed(ps, got, rx, frame, Here, lost) /\ Ordered(ps)
    BY <2>3 DEF LinkInv, RxInStep
  <2>5. /\ img_size = frame.size /\ meta_len = Len(frame.meta)
        /\ \A i \in 1 .. Window : ps[i] >= 8
    <3>1. CASE lost = 0
      <4>1. First = 8 /\ img_size = frame.size /\ meta_len = Len(frame.meta)
        BY <3>1 DEF LinkInv, WholeInStep
      <4>2. \A i \in 1 .. Window : ps[i] = 8 + i - 1
        BY <2>4, <3>1, <4>1 DEF Placed, Window, First
      <4> QED
        BY <4>1, <4>2
    <3>2. CASE session = 1 /\ ackOf = "capture"
      BY <2>4, <3>2 DEF Ordered, Beyond
    <3> QED
      BY <2>2, <3>1, <3>2
  <2>6. Field = frame.meta /\ Len(rx) = 1 /\ Len(out) = 0
    BY <1>1, <2>3, <2>4, <2>5, TextExact DEF LinkInv
  <2>7. rx' = <<>> /\ out = <<>>
    <3>1. Len(rx') = 0 /\ rx' \in Seq(TaggedByte)
      BY <1>1, <2>6, TailIs DEF LinkInv, TypeOK
    <3> QED
      BY <2>6, <3>1, EmptySeq DEF LinkInv, TypeOK
  <2>8. omv = "spi"
    BY <2>3, <2>7 DEF Live
  <2> QED
    BY <2>5, <2>6, <2>7, <2>8
<1>8. SpiInStep'
  BY <1>1, <1>2, <1>7 DEF SpiInStep, omvVars
<1> QED
  BY <1>2, <1>3, <1>4, <1>6, <1>8 DEF LinkInv

LEMMA ReadStep ==
  ASSUME LinkInv, BuffersFit, MetaIsText, OneFault, TypeOK', ReadSize \/ ReadMetaLen \/ ReadMeta
  PROVE  LinkInv'
<1>1. CASE ReadSize
  <2>1. CASE ReadMore(4)
    BY <1>1, <2>1, ReadMoreStep DEF ReadSize
  <2>2. CASE /\ ReadLast(4) /\ img_size' = Le4(Field) /\ UNCHANGED <<meta_len, meta_buf>>
             /\ cam' = IF SizeOk(img_size') THEN "mlen" ELSE "failed"
    <3>1. cam = "size"
      BY <1>1 DEF ReadSize
    <3>2. CASE SizeOk(Le4(Field))
      BY <2>2, <3>1, <3>2, SizeStep
    <3>3. CASE ~SizeOk(Le4(Field))
      BY <2>2, <3>1, <3>3, RefuseStep
    <3> QED
      BY <3>2, <3>3
  <2> QED
    BY <1>1, <2>1, <2>2 DEF ReadSize
<1>2. CASE ReadMetaLen
  <2>1. CASE ReadMore(2)
    BY <1>2, <2>1, ReadMoreStep DEF ReadMetaLen
  <2>2. CASE /\ ReadLast(2) /\ meta_len' = Le2(Field) /\ UNCHANGED <<img_size, meta_buf>>
             /\ cam' = IF MetaOk(meta_len') THEN "meta" ELSE "failed"
    <3>1. cam = "mlen"
      BY <1>2 DEF ReadMetaLen
    <3>2. CASE MetaOk(Le2(Field))
      BY <2>2, <3>1, <3>2, LengthStep
    <3>3. CASE ~MetaOk(Le2(Field))
      BY <2>2, <3>1, <3>3, RefuseStep
    <3> QED
      BY <3>2, <3>3
  <2> QED
    BY <1>2, <2>1, <2>2 DEF ReadMetaLen
<1>3. CASE ReadMeta
  <2>1. CASE ReadMore(meta_len)
    BY <1>3, <2>1, ReadMoreStep DEF ReadMeta
  <2>2. CASE ReadLast(meta_len) /\ meta_buf' = Field /\ cam' = "spi" /\ UNCHANGED <<img_size, meta_len>>
    BY <1>3, <2>2, TextStep DEF ReadMeta
  <2> QED
    BY <1>3, <2>1, <2>2 DEF ReadMeta
<1> QED
  BY <1>1, <1>2, <1>3

-----------------------------------------------------------------------------
(* The steps of OpenMV and of the line                                     *)

\* OpenMV leaves spi.send_recv, if it is there, and the app returns.
LEMMA SpiTransferStep ==
  ASSUME LinkInv, TypeOK', SpiTransfer
  PROVE  LinkInv'
<1>1. /\ cam = "spi" /\ cam' = "returned" /\ omv' = (IF omv = "spi" THEN "wait" ELSE omv)
      /\ UNCHANGED <<got, headerVars, rx, cmds, out, frame, lost, session>>
  BY DEF SpiTransfer, waitVars
<1>2. (omv = "answer" <=> out # <<>>) /\ (omv = "spi" => out = <<>>)
  BY DEF LinkInv, OutInStep
<1>3. Here' = Here
  BY <1>1 DEF Here
<1>4. GotInStep' /\ WholeInStep' /\ SpiInStep'
  BY <1>1 DEF LinkInv, GotInStep, WholeInStep, SpiInStep
<1>5. CASE omv = "spi"
  <2>1. ~Live' /\ out' = <<>> /\ omv' = "wait"
    BY <1>1, <1>2, <1>5 DEF Live
  <2>2. OutInStep'
    BY <2>1 DEF OutInStep
  <2>3. lost = 0 => rx = <<>>
    BY <1>1 DEF LinkInv, SpiInStep
  <2>4. RxInStep'
    BY <1>1, <2>1, <2>3 DEF RxInStep
  <2>5. CmdsInStep'
    BY <1>1, <2>1 DEF LinkInv, CmdsInStep
  <2> QED
    BY <1>4, <2>2, <2>4, <2>5 DEF LinkInv
<1>6. CASE omv # "spi"
  <2>1. UNCHANGED omvVars
    BY <1>1, <1>6 DEF omvVars
  <2>2. OutInStep' /\ (Live' <=> Live) /\ frame' = frame
    BY <2>1, SameLine DEF LinkInv
  <2>3. RxInStep'
    <3>1. \A ps : Ordered(ps)'
      BY <1>1 DEF Ordered
    <3> QED
      BY <1>1, <1>3, <2>2, <3>1 DEF LinkInv, RxInStep
  <2>4. CmdsInStep'
    BY <1>1, <2>2 DEF LinkInv, CmdsInStep
  <2> QED
    BY <1>4, <2>2, <2>3, <2>4 DEF LinkInv
<1> QED
  BY <1>5, <1>6

LEMMA OmvHandshakeStep ==
  ASSUME LinkInv, TypeOK', OmvHandshake
  PROVE  LinkInv'
<1>1. /\ omv = "wait" /\ cmds # <<>> /\ Head(cmds) = CMD_HANDSHAKE /\ cmds' = Tail(cmds)
      /\ omv' = "answer" /\ out' = Tagged(<<ACK_BYTE>>, "handshake")
      /\ UNCHANGED <<cam, got, headerVars, rx, frame, lost, session>>
  BY DEF OmvHandshake, waitVars
<1>2. ~Live
  BY <1>1 DEF LinkInv, OutInStep, Live
<1>3. Len(out') = 1 /\ out'[1] = StaleAck /\ out' \in Seq(TaggedByte)
  <2> DEFINE a == <<ACK_BYTE>>
  <2>1. a \in Seq(Byte) /\ Len(a) = 1 /\ a[1] = ACK_BYTE
    BY AckIs
  <2> HIDE DEF a
  <2>2. /\ Tagged(a, "handshake") \in Seq(TaggedByte) /\ Len(Tagged(a, "handshake")) = 1
        /\ Tagged(a, "handshake")[1] = [v |-> a[1], re |-> "handshake"]
    BY <2>1, TaggedIs
  <2>3. out' = Tagged(a, "handshake")
    BY <1>1 DEF a
  <2> QED
    BY <2>1, <2>2, <2>3 DEF StaleAck
<1>4. out' # <<>> /\ Head(out') = StaleAck
  BY <1>3, TailIs, EmptySeq
<1>5. ~Live'
  BY <1>1, <1>4 DEF Live, StaleAck
<1>6. OutInStep'
  BY <1>1, <1>3, <1>4, <1>5 DEF OutInStep
<1>7. RxInStep'
  BY <1>1, <1>2, <1>5 DEF LinkInv, RxInStep
<1>8. GotInStep' /\ SpiInStep' /\ WholeInStep'
  BY <1>1, <1>2 DEF LinkInv, GotInStep, SpiInStep, WholeInStep, headerVars
<1>9. CmdsInStep'
  <2>1. /\ Len(cmds) \in Nat \ {0} /\ Len(cmds') = Len(cmds) - 1
        /\ \A i \in 1 .. Len(cmds) - 1 : cmds'[i] = cmds[i + 1]
    BY <1>1, TailIs DEF LinkInv, TypeOK
  <2>2. session = 1 => \A i \in 1 .. Len(cmds') : cmds'[i] = CMD_CAPTURE => i = Len(cmds')
    BY <2>1 DEF LinkInv, CmdsInStep
  <2>3. session = 1 /\ cam \in {"start", "attempt", "poll", "capture"} =>
          \A i \in 1 .. Len(cmds') : cmds'[i] = CMD_HANDSHAKE
    BY <2>1 DEF LinkInv, CmdsInStep
  <2> QED
    BY <1>1, <1>2, <1>5, <2>2, <2>3 DEF LinkInv, CmdsInStep, headerVars
<1> QED
  BY <1>6, <1>7, <1>8, <1>9 DEF LinkInv

LEMMA OmvCaptureStep ==
  ASSUME LinkInv, MetaIsText, OneFault, TypeOK', OmvCapture
  PROVE  LinkInv'
<1>1. /\ omv = "wait" /\ cmds # <<>> /\ Head(cmds) = CMD_CAPTURE /\ cmds' = Tail(cmds)
      /\ omv' = "answer"
      /\ UNCHANGED <<cam, got, headerVars, rx, lost, session>>
  BY DEF OmvCapture, waitVars
<1>2. PICK f \in Frames : frame' = f /\ out' = Tagged(Header(f), "capture")
  BY DEF OmvCapture
<1>3. ~Live
  BY <1>1 DEF LinkInv, OutInStep, Live
<1>4. Len(f.meta) \in Nat \ {0} /\ Len(Header(f)) = 7 + Len(f.meta) /\ Header(f) \in Seq(Byte)
  BY HeaderText, HeaderIs
<1>5. /\ out' \in Seq(TaggedByte) /\ Len(out') = Len(Header(f))
      /\ \A i \in 1 .. Len(out') : out'[i] = [v |-> Header(f)[i], re |-> "capture"]
  BY <1>2, <1>4, TaggedIs
<1>6. Len(out') \in Nat \ {0} /\ out' # <<>>
  BY <1>4, <1>5, EmptySeq
<1>7. Head(out').re = "capture"
  <2>1. Head(out') = out'[1] /\ 1 \in 1 .. Len(out')
    BY <1>5, <1>6, TailIs
  <2>2. Head(out') = [v |-> Header(f)[1], re |-> "capture"]
    BY <1>5, <2>1
  <2> QED
    BY <2>2
<1>8. Live'
  BY <1>6, <1>7 DEF Live
<1>9. Here' = 1
  <2>1. Here' = Len(out') - Len(out') + 1
    BY <1>2, <1>5 DEF Here
  <2> QED
    BY <1>6, <2>1
<1>10. OutInStep'
  <2>1. \A i \in 1 .. Len(out') : Here' + i - 1 = i /\ ~(i < 1) /\ i \in Int
    BY <1>6, <1>9
  <2>2. \A i \in 1 .. Len(out') : out'[i] = At(frame', Here' + i - 1)
    BY <1>2, <1>5, <2>1 DEF At
  <2> QED
    BY <1>1, <1>2, <1>6, <1>8, <1>9, <2>2 DEF OutInStep
<1>11. lost = 0 \/ session = 1
  BY DEF LinkInv, TypeOK, OneFault
<1>12. \A i \in 1 .. Len(rx) : rx[i] = StaleAck
  BY <1>1, <1>3, <1>11 DEF LinkInv, RxInStep, CmdsInStep
<1>13. PICK ps : Placed(ps, got, rx, f, 1, lost)
  BY <1>12, StartPlaces, Sizes DEF LinkInv
<1>14. Ordered(ps)'
  <2>1. ~(session = 1 /\ ackOf = "capture" /\ cam \in {"size", "mlen", "meta"})
    BY <1>1, <1>3 DEF LinkInv, CmdsInStep
  <2> QED
    BY <1>1, <2>1 DEF Ordered, headerVars
<1>15. RxInStep'
  BY <1>1, <1>2, <1>8, <1>9, <1>13, <1>14 DEF RxInStep
<1>16. GotInStep' /\ SpiInStep' /\ WholeInStep'
  BY <1>1, <1>3 DEF LinkInv, GotInStep, SpiInStep, WholeInStep, headerVars
<1>17. CmdsInStep'
  <2>1. ASSUME session = 1
        PROVE  cmds' = <<>> /\ cam \notin {"start", "attempt", "poll", "capture"}
    <3>1. /\ Len(cmds) \in Nat \ {0} /\ cmds[1] = CMD_CAPTURE /\ Tail(cmds) \in Seq({CMD_HANDSHAKE, CMD_CAPTURE})
          /\ Len(Tail(cmds)) = Len(cmds) - 1
      BY <1>1, TailIs DEF LinkInv, TypeOK
    <3>2. Len(cmds) = 1
      <4>1. \A i \in 1 .. Len(cmds) : cmds[i] = CMD_CAPTURE => i = Len(cmds)
        BY <2>1 DEF LinkInv, CmdsInStep
      <4>2. 1 \in 1 .. Len(cmds)
        BY <3>1
      <4> QED
        BY <3>1, <4>1, <4>2
    <3>3. CMD_HANDSHAKE # CMD_CAPTURE
      BY DEF CMD_HANDSHAKE, CMD_CAPTURE
    <3>4. cam \notin {"start", "attempt", "poll", "capture"}
      <4>1. cam \in {"start", "attempt", "poll", "capture"} =>
              \A i \in 1 .. Len(cmds) : cmds[i] = CMD_HANDSHAKE
        BY <2>1 DEF LinkInv, CmdsInStep
      <4> QED
        BY <3>1, <3>3, <4>1
    <3> QED
      BY <1>1, <3>1, <3>2, <3>4, EmptySeq
  <2>2. cmds' = <<>> => \A i \in 1 .. Len(cmds') : FALSE
    OBVIOUS
  <2>3. session' = session /\ cam' = cam
    BY <1>1
  <2> QED
    BY <1>8, <2>1, <2>2, <2>3 DEF CmdsInStep
<1> QED
  BY <1>10, <1>15, <1>16, <1>17 DEF LinkInv

\* The byte OpenMV writes next, and the place after it.
LEMMA NextPlace ==
  ASSUME LinkInv, MetaIsText, out # <<>>, out' = Tail(out), omv' = AfterByte, frame' = frame
  PROVE  /\ OutInStep' /\ (Live' <=> Live)
         /\ Head(out) \in TaggedByte
         /\ Live => Here' = Here + 1 /\ Head(out) = At(frame, Here)
         /\ ~Live => Head(out) = StaleAck
<1>1. /\ Head(out) \in TaggedByte /\ Head(out) = out[1] /\ Tail(out) \in Seq(TaggedByte)
      /\ Len(out) \in Nat \ {0} /\ Len(Tail(out)) = Len(out) - 1
      /\ \A i \in 1 .. Len(out) - 1 : Tail(out)[i] = out[i + 1]
  BY TailIs DEF LinkInv, TypeOK
<1>2. omv = "answer" /\ 1 \in 1 .. Len(out)
  BY <1>1 DEF LinkInv, OutInStep
<1>3. Live <=> Head(out).re = "capture"
  BY <1>2 DEF Live
<1>4. omv' = "answer" <=> out' # <<>>
  BY DEF AfterByte
<1>5. out' # <<>> => Head(out') = out[2] /\ 2 \in 1 .. Len(out)
  <2> SUFFICES ASSUME out' # <<>> PROVE Head(out') = out[2] /\ 2 \in 1 .. Len(out)
    OBVIOUS
  <2>1. Head(out') = out'[1] /\ Len(out') \in Nat \ {0}
    BY <1>1, TailIs
  <2> QED
    BY <1>1, <2>1
<1>6. CASE Live
  <2>1. /\ frame \in Frames /\ Here >= 1 /\ Here \in Int
        /\ \A i \in 1 .. Len(out) : out[i] = At(frame, Here + i - 1)
    BY <1>6, LiveIs DEF LinkInv, OutInStep
  <2>2. Head(out) = At(frame, Here)
    <3>1. Here + 1 - 1 = Here
      BY <2>1
    <3> QED
      BY <1>1, <1>2, <2>1, <3>1
  <2>3. Here' = Here + 1
    <3>1. Len(Header(frame)) \in Nat
      BY <2>1, HeaderIs, LenProperties
    <3> QED
      BY <1>1, <3>1 DEF Here
  <2>4. \A i \in 1 .. Len(out') : out'[i] = At(frame, Here' + i - 1)
    <3> SUFFICES ASSUME NEW i \in 1 .. Len(out') PROVE out'[i] = At(frame, Here' + i - 1)
      OBVIOUS
    <3>1. i \in 1 .. Len(out) - 1 /\ i + 1 \in 1 .. Len(out) /\ Here + (i + 1) - 1 = Here' + i - 1
      BY <1>1, <2>1, <2>3
    <3>2. out[i + 1] = At(frame, Here + (i + 1) - 1)
      BY <2>1, <3>1
    <3> QED
      BY <1>1, <3>1, <3>2
  <2>5. Live'
    <3>1. CASE out' = <<>>
      BY <1>3, <1>6, <3>1 DEF Live, AfterByte
    <3>2. CASE out' # <<>>
      <4>1. Head(out') = At(frame, Here + 2 - 1) /\ ~(Here + 2 - 1 < 1)
        BY <1>5, <2>1, <3>2
      <4> DEFINE b == Header(frame)[Here + 2 - 1]
      <4>2. Head(out') = [v |-> b, re |-> "capture"]
        BY <4>1 DEF At
      <4> HIDE DEF b
      <4>3. [v |-> b, re |-> "capture"].re = "capture"
        OBVIOUS
      <4> QED
        BY <3>2, <4>2, <4>3 DEF Live
    <3> QED
      BY <3>1, <3>2
  <2>6. Here' >= 1 /\ frame' \in Frames
    BY <2>1, <2>3
  <2>7. OutInStep'
    BY <1>4, <2>4, <2>5, <2>6 DEF OutInStep
  <2> QED
    BY <1>1, <1>6, <2>2, <2>3, <2>5, <2>7
<1>7. CASE ~Live
  <2>1. \A i \in 1 .. Len(out) : out[i] = StaleAck
    BY <1>7 DEF LinkInv, OutInStep
  <2>2. Head(out) = StaleAck
    BY <1>1, <1>2, <2>1
  <2>3. \A i \in 1 .. Len(out') : out'[i] = StaleAck
    <3> SUFFICES ASSUME NEW i \in 1 .. Len(out') PROVE out'[i] = StaleAck
      OBVIOUS
    <3>1. i \in 1 .. Len(out) - 1 /\ i + 1 \in 1 .. Len(out)
      BY <1>1
    <3> QED
      BY <1>1, <2>1, <3>1
  <2>4. ~Live'
    <3>1. omv' # "spi"
      BY <2>2 DEF AfterByte, StaleAck
    <3>2. out' # <<>> => Head(out').re # "capture"
      BY <1>5, <2>1 DEF StaleAck
    <3> QED
      BY <3>1, <3>2 DEF Live
  <2>5. OutInStep'
    BY <1>4, <2>3, <2>4 DEF OutInStep
  <2> QED
    BY <1>1, <1>7, <2>2, <2>4, <2>5
<1> QED
  BY <1>6, <1>7

LEMMA OmvWriteStep ==
  ASSUME LinkInv, MetaIsText, TypeOK', OmvWrite
  PROVE  LinkInv'
<1>1. /\ out # <<>> /\ out' = Tail(out) /\ omv' = AfterByte /\ rx' = Append(rx, Head(out))
      /\ UNCHANGED <<cam, got, headerVars, cmds, frame, lost, session>>
  BY DEF OmvWrite, waitVars
<1>2. /\ OutInStep' /\ (Live' <=> Live) /\ Head(out) \in TaggedByte
      /\ Live => Here' = Here + 1 /\ Head(out) = At(frame, Here)
      /\ ~Live => Head(out) = StaleAck
  BY <1>1, NextPlace
<1>3. omv # "spi"
  BY <1>1 DEF LinkInv, OutInStep
<1>4. /\ rx \in Seq(TaggedByte) /\ got \in Seq(Byte) /\ Len(rx) \in Nat /\ Len(got) \in Nat
      /\ Len(rx') = Len(rx) + 1 /\ rx'[Len(rx) + 1] = Head(out)
      /\ \A i \in 1 .. Len(rx) : rx'[i] = rx[i]
  BY <1>1, <1>2, Sizes, AppendProperties DEF LinkInv, TypeOK
<1>5. Window \in Nat /\ Window = Len(got) + Len(rx) /\ Window' = Window + 1
  BY <1>1, <1>4 DEF Window
<1>6. Live => First' = First
  <2>1. Live => Here \in Int
    BY LiveIs DEF LinkInv
  <2> QED
    BY <1>2, <1>5, <2>1 DEF First
<1>7. GotInStep' /\ SpiInStep' /\ WholeInStep'
  BY <1>1, <1>2, <1>3, <1>6 DEF LinkInv, GotInStep, SpiInStep, WholeInStep, headerVars
<1>8. CmdsInStep'
  <2>1. ~(session = 1 /\ cam \in {"size", "mlen", "meta"} /\ ackOf = "capture" /\ ~Live)
    BY <1>1 DEF LinkInv, CmdsInStep
  <2> QED
    BY <1>1, <1>2, <2>1 DEF LinkInv, CmdsInStep, headerVars
<1>9. ASSUME Live
      PROVE  \E qs : Placed(qs, got', rx', frame', Here', lost') /\ Ordered(qs)'
  <2>1. PICK ps : Placed(ps, got, rx, frame, Here, lost) /\ Ordered(ps)
    BY <1>9 DEF LinkInv, RxInStep
  <2>2. Here \in Int
    BY <1>9, LiveIs DEF LinkInv
  <2>3. PICK qs : /\ Placed(qs, got, rx', frame, Here', lost)
                  /\ \A i \in 1 .. Window + 1 : qs[i] = Here \/ (i \in 1 .. Window /\ qs[i] = ps[i])
    <3> DEFINE b == Head(out)
               h == Here
    <3>1. b = At(frame, h) /\ b \in TaggedByte /\ rx' = Append(rx, b) /\ Here' = h + 1
      BY <1>1, <1>2, <1>9
    <3>2. rx \in Seq(TaggedByte) /\ got \in Seq(Byte) /\ h \in Int /\ Window = Len(got) + Len(rx)
      BY <1>4, <1>5, <2>2
    <3>3. Placed(ps, got, rx, frame, h, lost)
      BY <2>1
    <3> HIDE DEF b, h
    <3>4. Grown(ps, got, rx, frame, h, lost, b)
      BY <3>1, <3>2, <3>3, WritePlaces
    <3> QED
      BY <3>1, <3>2, <3>4 DEF h, Grown
  <2>4. ASSUME NEW k \in Int, Beyond(ps, k)
        PROVE  Beyond(qs, k)'
    <3>1. Here' >= k
      BY <1>2, <1>9, <2>2, <2>4 DEF Beyond
    <3>2. \A i \in 1 .. Window' : qs[i] >= k
      BY <1>5, <2>3, <2>4 DEF Beyond
    <3> QED
      BY <3>1, <3>2 DEF Beyond
  <2>5. Ordered(qs)'
    <3>1. /\ Beyond(ps, 2) => Beyond(qs, 2)'
          /\ Beyond(ps, 6) => Beyond(qs, 6)'
          /\ Beyond(ps, 8) => Beyond(qs, 8)'
      BY <2>4
    <3> QED
      BY <1>1, <2>1, <3>1 DEF Ordered, headerVars
  <2> QED
    BY <1>1, <1>2, <1>9, <2>3, <2>5
<1>10. ASSUME ~Live, lost = 0 \/ cam # "returned"
       PROVE  \A i \in 1 .. Len(rx') : rx'[i] = StaleAck
  <2>1. \A i \in 1 .. Len(rx) : rx[i] = StaleAck
    BY <1>10 DEF LinkInv, RxInStep
  <2> QED
    BY <1>2, <1>4, <1>10, <2>1
<1>11. RxInStep'
  BY <1>1, <1>2, <1>9, <1>10 DEF RxInStep
<1> QED
  BY <1>2, <1>7, <1>8, <1>11 DEF LinkInv

LEMMA LoseByteStep ==
  ASSUME LinkInv, MetaIsText, TypeOK', LoseByte
  PROVE  LinkInv'
<1>1. /\ out # <<>> /\ out' = Tail(out) /\ omv' = AfterByte /\ lost' = lost + 1
      /\ UNCHANGED <<cam, got, headerVars, rx, cmds, frame, session>>
  BY DEF LoseByte, waitVars
<1>2. /\ OutInStep' /\ (Live' <=> Live) /\ (Live => Here' = Here + 1)
  BY <1>1, NextPlace
<1>3. omv # "spi"
  BY <1>1 DEF LinkInv, OutInStep
<1>4. lost' # 0 /\ Window' = Window
  <2>1. lost \in Nat
    BY ConstantTypes DEF LinkInv, TypeOK
  <2> QED
    BY <1>1, <2>1 DEF Window
<1>5. GotInStep' /\ WholeInStep'
  BY <1>1, <1>4 DEF LinkInv, GotInStep, WholeInStep, headerVars
<1>6. SpiInStep'
  BY <1>1, <1>3, <1>4 DEF LinkInv, SpiInStep, headerVars
<1>7. CmdsInStep'
  BY <1>1, <1>2 DEF LinkInv, CmdsInStep, headerVars
<1>8. ASSUME Live
      PROVE  \E qs : Placed(qs, got', rx', frame', Here', lost') /\ Ordered(qs)'
  <2>1. PICK ps : Placed(ps, got, rx, frame, Here, lost) /\ Ordered(ps)
    BY <1>8 DEF LinkInv, RxInStep
  <2>2. Here \in Int
    BY <1>8, LiveIs DEF LinkInv
  <2>3. Placed(ps, got, rx, frame, Here + 1, lost')
    BY <1>4, <2>1, <2>2, LosePlaces
  <2>4. /\ Beyond(ps, 2) => Beyond(ps, 2)'
        /\ Beyond(ps, 6) => Beyond(ps, 6)'
        /\ Beyond(ps, 8) => Beyond(ps, 8)'
    BY <1>2, <1>4, <1>8, <2>2 DEF Beyond
  <2>5. Ordered(ps)'
    BY <1>1, <2>1, <2>4 DEF Ordered, headerVars
  <2> QED
    BY <1>1, <1>2, <1>8, <2>3, <2>5
<1>9. RxInStep'
  BY <1>1, <1>2, <1>4, <1>8 DEF LinkInv, RxInStep
<1> QED
  BY <1>2, <1>5, <1>6, <1>7, <1>9 DEF LinkInv

LEMMA LoseCommandStep ==
  ASSUME LinkInv, MetaIsText, TypeOK', LoseCommand
  PROVE  LinkInv'
<1>1. /\ cmds # <<>> /\ cmds' = Tail(cmds) /\ lost' = lost + 1
      /\ UNCHANGED <<cam, got, headerVars, rx, omvVars, session>>
  BY DEF LoseCommand, waitVars
<1>2. OutInStep' /\ (Live' <=> Live) /\ Here' = Here /\ frame' = frame
  BY <1>1, SameLine DEF LinkInv
<1>3. lost' # 0
  <2>1. lost \in Nat
    BY ConstantTypes DEF LinkInv, TypeOK
  <2> QED
    BY <1>1, <2>1
<1>4. Window' = Window
  BY <1>1 DEF Window
<1>5. GotInStep' /\ WholeInStep'
  BY <1>1, <1>3 DEF LinkInv, GotInStep, WholeInStep, headerVars
<1>6. SpiInStep'
  BY <1>1, <1>2, <1>3 DEF LinkInv, SpiInStep, headerVars, omvVars
<1>7. CmdsInStep'
  <2>1. /\ Len(cmds) \in Nat \ {0} /\ Len(cmds') = Len(cmds) - 1
        /\ \A i \in 1 .. Len(cmds) - 1 : cmds'[i] = cmds[i + 1]
    BY <1>1, TailIs DEF LinkInv, TypeOK
  <2>2. session = 1 => \A i \in 1 .. Len(cmds') : cmds'[i] = CMD_CAPTURE => i = Len(cmds')
    BY <2>1 DEF LinkInv, CmdsInStep
  <2>3. session = 1 /\ cam \in {"start", "attempt", "poll", "capture"} =>
          \A i \in 1 .. Len(cmds') : cmds'[i] = CMD_HANDSHAKE
    BY <2>1 DEF LinkInv, CmdsInStep
  <2> QED
    BY <1>1, <1>2, <2>2, <2>3 DEF LinkInv, CmdsInStep, headerVars
<1>8. ASSUME Live
      PROVE  \E qs : Placed(qs, got', rx', frame', Here', lost') /\ Ordered(qs)'
  <2>1. PICK ps : Placed(ps, got, rx, frame, Here, lost) /\ Ordered(ps)
    BY <1>8 DEF LinkInv, RxInStep
  <2>2. Placed(ps, got, rx, frame, Here, lost')
    BY <1>3, <2>1 DEF Placed
  <2>3. Ordered(ps)'
    BY <1>1, <1>2, <1>4, <2>1 DEF Ordered, Beyond, headerVars
  <2> QED
    BY <1>1, <1>2, <2>2, <2>3
<1>9. RxInStep'
  BY <1>1, <1>2, <1>3, <1>8 DEF LinkInv, RxInStep
<1> QED
  BY <1>2, <1>5, <1>6, <1>7, <1>9 DEF LinkInv

\* OpenMV gives up waiting for the SPI transfer: no byte of its header is unread.
LEMMA OmvSpiTimeoutStep ==
  ASSUME LinkInv, MetaIsText, TypeOK', OmvSpiTimeout
  PROVE  LinkInv'
<1>1. /\ omv = "spi" /\ rx = <<>> /\ cam # "spi" /\ omv' = "wait"
      /\ UNCHANGED <<cam, got, headerVars, rx, cmds, out, frame, lost, session>>
  BY DEF OmvSpiTimeout, waitVars
<1>2. out = <<>> /\ Live
  BY <1>1 DEF LinkInv, OutInStep, Live
<1>3. ~Live'
  BY <1>1, <1>2 DEF Live
<1>4. OutInStep'
  BY <1>1, <1>2, <1>3 DEF OutInStep
<1>5. RxInStep'
  BY <1>1, <1>3 DEF RxInStep
<1>6. GotInStep' /\ SpiInStep'
  BY <1>1 DEF LinkInv, GotInStep, SpiInStep, headerVars
<1>7. CmdsInStep'
  BY <1>1, <1>2, <1>3 DEF LinkInv, CmdsInStep, headerVars
<1>8. ~(lost = 0 /\ cam \in {"mlen", "meta"})
  <2> SUFFICES ASSUME lost = 0, cam \in {"mlen", "meta"} PROVE FALSE
    OBVIOUS
  <2>1. /\ Len(frame.meta) \in Nat \ {0} /\ Here = 8 + Len(frame.meta) - Len(out)
    BY <1>2, LiveIs DEF LinkInv
  <2>2. Len(got) \in Nat /\ Len(rx) = 0 /\ Len(out) = 0
    BY <1>1, <1>2, Sizes DEF LinkInv
  <2>3. First = 8 + Len(frame.meta) - Len(got)
    BY <2>1, <2>2 DEF First, Window
  <2>4. cam = "mlen" => First \in {5, 6} /\ Len(got) < 2
    BY DEF LinkInv, WholeInStep, GotInStep
  <2>5. cam = "meta" => First = 8 /\ Len(got) < Len(frame.meta)
    BY DEF LinkInv, WholeInStep, GotInStep
  <2> QED
    BY <2>1, <2>2, <2>3, <2>4, <2>5
<1>9. WholeInStep'
  BY <1>1, <1>8 DEF WholeInStep
<1> QED
  BY <1>4, <1>5, <1>6, <1>7, <1>9 DEF LinkInv

LEMMA StutterStep ==
  ASSUME LinkInv, TypeOK', UNCHANGED vars
  PROVE  LinkInv'
  BY DEF LinkInv, vars, waitVars, headerVars, omvVars, OutInStep, RxInStep, CmdsInStep, GotInStep,
    WholeInStep, SpiInStep, Live, Here, Ordered, Beyond, Window, First

-----------------------------------------------------------------------------
(* The theorems                                                            *)

LEMMA LinkInvInit ==
  ASSUME Init
  PROVE  LinkInv
<1>1. TypeOK
  BY InitTypes
<1>2. ~Live /\ Len(rx) = 0 /\ Len(out) = 0 /\ Len(cmds) = 0
  BY DEF Init, Live
<1> QED
  BY <1>1, <1>2 DEF Init, LinkInv, OutInStep, RxInStep, CmdsInStep, GotInStep, WholeInStep, SpiInStep

LEMMA LinkInvNext ==
  ASSUME BuffersFit, MetaIsText, OneFault, LinkInv, [Next]_vars
  PROVE  LinkInv'
<1>1. TypeOK'
  BY NextTypes DEF LinkInv
<1>2. CASE UNCHANGED vars
  BY <1>1, <1>2, StutterStep
<1>3. CASE Camera
  BY <1>1, <1>3, SetupStep, SendStep, ReadAckStep, ReadPollStep, ReadStep, SpiTransferStep DEF Camera
<1>4. CASE Restart
  BY <1>1, <1>4, RestartStep
<1>5. CASE OpenMV
  BY <1>1, <1>5, OmvHandshakeStep, OmvCaptureStep, OmvWriteStep, LoseByteStep, LoseCommandStep,
    OmvSpiTimeoutStep DEF OpenMV
<1> QED
  BY <1>2, <1>3, <1>4, <1>5 DEF Next

\* What the app has received and accepted stays in step with what OpenMV writes,
\* for any number of polls and attempts and any set of images that have text as
\* metadata, when bytes and commands are lost in one run, any number of them, or
\* the app is started any number of times and nothing is lost.
THEOREM LinkInvariant ==
  ASSUME BuffersFit, MetaIsText, OneFault
  PROVE  Spec => []LinkInv
<1>1. Init => LinkInv
  BY LinkInvInit
<1>2. LinkInv /\ [Next]_vars => LinkInv'
  BY LinkInvNext
<1> QED
  BY <1>1, <1>2, PTL DEF Spec

\* When the SPI transfer starts, the size, the length and the metadata are the
\* ones of the image OpenMV is about to send, and OpenMV has nothing left to write:
\* whatever was lost, if the ACK taken for CMD_CAPTURE's is its own, and whatever
\* ACK was taken, if nothing was lost.
THEOREM AcceptedHeaderIsOpenMVs ==
  ASSUME BuffersFit, MetaIsText, OneFault
  PROVE  Spec => []HeaderIntegrity
<1>1. LinkInv => HeaderIntegrity
  <2> SUFFICES ASSUME LinkInv PROVE HeaderIntegrity
    OBVIOUS
  <2>1. omv = "spi" => out = <<>>
    BY DEF LinkInv, OutInStep
  <2> QED
    BY <2>1 DEF LinkInv, SpiInStep, HeaderIntegrity
<1>2. Spec => []LinkInv
  BY LinkInvariant
<1> QED
  BY <1>1, <1>2, PTL
=============================================================================
