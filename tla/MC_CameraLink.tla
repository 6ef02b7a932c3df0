--------------------------- MODULE MC_CameraLink ---------------------------
(* Instances of CameraLink for TLC: real byte values and real buffer sizes.*)
EXTENDS CameraLink

\* An image so small that 256 * size + 0xAA, which a stale ACK makes of it, is
\* a size the app accepts; two whose size begins with the byte ACK; the largest
\* accepted, and one more.  The metadata is printable ASCII.
Images ==
  {[size |-> 100,   meta |-> <<119, 58>>],
   [size |-> 170,   meta |-> <<119>>],
   [size |-> 426,   meta |-> <<104, 58>>],
   [size |-> 40000, meta |-> <<119>>],
   [size |-> 40001, meta |-> <<119>>]}

TwoImages ==
  {[size |-> 170,   meta |-> <<119>>],
   [size |-> 40000, meta |-> <<119, 58>>]}
\* One run with two losses; two runs without a loss.  One run, nothing lost.
LossOrRestart == {<<0, 1>>, <<1, 1>>, <<2, 1>>, <<0, 2>>}
NoFault       == {<<0, 1>>}

\* The buffers, images and faults of the runs are as the proofs assume.
ASSUME RunsFit == BuffersFit /\ MetaIsText /\ OneFault
=============================================================================
