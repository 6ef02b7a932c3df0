---------------------------- MODULE MC_Pipeline ----------------------------
(* Instances of Pipeline for TLC.                                          *)
EXTENDS Pipeline
=============================================================================
