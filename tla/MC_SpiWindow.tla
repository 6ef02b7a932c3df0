---------------------------- MODULE MC_SpiWindow ----------------------------
(* Instances of SpiWindow for TLC.                                         *)
EXTENDS SpiWindow

\* The board's values meet the conditions of SpiWindowProofs.
ASSUME BoardFits == WindowFits /\ PollsFit
=============================================================================
