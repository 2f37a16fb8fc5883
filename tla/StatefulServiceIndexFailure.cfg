SPECIFICATION Spec
CONSTANTS
  Ops = {o1, o2, o3}
  o1 = o1
  o2 = o2
  o3 = o3
  Actions = {"PATCH"}
  OperationQueueLimit = 2
  SynchQueueLimit = 1
  Persistence = TRUE
  OwnerSelection = FALSE
  IndexCanFail = TRUE
  OwnershipCanMove = FALSE
  MaxVersion = 0
SYMMETRY OpsSymmetry
INVARIANTS
  UpdateExclusion
