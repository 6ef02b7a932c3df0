---------------------------- MODULE MC_NxMutex -----------------------------
(* Instances of NxMutex for TLC: pids 1, 2, 3 in a word of five bits.      *)
EXTENDS NxMutex, TLC

CONSTANTS cam, cam2, hello

MCPid == (cam :> 1) @@ (hello :> 2) @@ (cam2 :> 3)
PidOf == [t \in Tasks |-> MCPid[t]]
=============================================================================
