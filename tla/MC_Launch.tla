----------------------------- MODULE MC_Launch ------------------------------
(* Instances of Launch for TLC.                                            *)
EXTENDS Launch

CamOf   == [l \in Launches |-> <<"camera", l>>]
HelloOf == [l \in Launches |-> <<"hello", l>>]
AllTasks  == {CamOf[l] : l \in Launches} \cup {HelloOf[l] : l \in Launches}
AllChunks == {Chunk(l, i) : l \in Launches, i \in 0 .. Last}
=============================================================================
