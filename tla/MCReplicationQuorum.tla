------------------------ MODULE MCReplicationQuorum -------------------------
(* Instances of ReplicationQuorum: four nodes in two locations, one of     *)
(* which may join late.                                                    *)
EXTENDS ReplicationQuorum

CONSTANTS n1, n2, n3, n4

TwoLocations == [n \in {n1, n2, n3, n4} |-> IF n \in {n1, n2, n4} THEN "L1" ELSE "L2"]
AllThreeJoined == {n1, n2, n3}
WithAllHeader == {NoHeader, AllHeader, 2, 4}
=============================================================================
