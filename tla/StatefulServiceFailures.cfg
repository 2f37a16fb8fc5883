SPECIFICATION Spec
CONSTANTS
  Ops = {o1, o2, o3}
  o1 = o1
  o2 = o2
  o3 = o3
  Actions = {"PATCH", "SYNCH", "STOP"}
  OperationQueueLimit = 2
  SynchQueueLimit = 1
  Persistence = TRUE
  OwnerSelection = TRUE
  IndexCanFail = TRUE
  OwnershipCanMove = TRUE
  MaxVersion = 1
SYMMETRY OpsSymmetry
INVARIANTS
  NoStrandedRequest
