--------------------------- MODULE MC_RingBuffer ---------------------------
(* Instances of RingBuffer for TLC.                                        *)
EXTENDS RingBuffer

CONSTANTS cam, hello, c1, c2
=============================================================================
