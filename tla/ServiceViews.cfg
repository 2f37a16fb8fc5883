SPECIFICATION Spec
CONSTANTS
    many = many
    one = one
    Nodes = {n1, n2}
    HostNode = n1
    Factories = {many, one}
    Children = {c1, c2}
    None = None
    PagesOf <- ThreePagesAndOne
    MaxRequests = 6
SYMMETRY ChildrenSymmetry
INVARIANTS
    TypeOK
    DialogsMatchView
    PagesShownOnce
    SettledViewIsLatest
CHECK_DEADLOCK FALSE
