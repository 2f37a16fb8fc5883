SPECIFICATION Spec
CONSTANTS
    n1 = n1
    n2 = n2
    n3 = n3
    n4 = n4
    Nodes = {n1, n2, n3, n4}
    Self = n1
    InitialMembers <- AllThreeJoined
    LocationOf <- TwoLocations
    MayObserve = {n4}
    LocationAwareness = {TRUE, FALSE}
    OwnerSelections = {TRUE, FALSE}
    ReplicationFactors = {0, 2}
    ReplicationQuorums = {0, 2}
    LocationQuorums = {1, 2}
    Headers <- WithAllHeader
    MaxUpdates = 2
INVARIANTS
    TypeOK
    QuorumAccepted
    FailureIsCertain
    UpdateDecided
    LocalQuorumAccepted
