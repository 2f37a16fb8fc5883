------------------------- MODULE MCNodeGroupService -------------------------
(* Instances of NodeGroupService for TLC.                                  *)
EXTENDS NodeGroupService

CONSTANTS n1, n2, n3

All == {n1, n2, n3}

(* A group of three with a request that fails or a node that crashes, a    *)
(* node that joins a group of two, and two hosts that form a group while   *)
(* requests fail and a node may crash.                                     *)
JoinsAndFaults ==
    {[hosts |-> All, members |-> All, mayCrash |-> {}, failures |-> 1],
     [hosts |-> All, members |-> All, mayCrash |-> {n3}, failures |-> 0],
     [hosts |-> All, members |-> {n1, n2}, mayCrash |-> {}, failures |-> 0],
     [hosts |-> {n1, n2}, members |-> {n1}, mayCrash |-> {}, failures |-> 2],
     [hosts |-> {n1, n2}, members |-> {n1}, mayCrash |-> {n1}, failures |-> 0]}
=============================================================================
