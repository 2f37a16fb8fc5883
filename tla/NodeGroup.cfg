SPECIFICATION Spec
CONSTANTS
    n1 = n1
    n2 = n2
    n3 = n3
    Nodes = {n1, n2, n3}
    None = None
    Scenarios <- JoinsAndFaults
INVARIANTS
    TypeOK
    NeverUnavailableToItself
    OnlyMarkingsRunAhead
PROPERTIES
    GossipConverges
CHECK_DEADLOCK FALSE
