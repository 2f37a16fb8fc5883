SPECIFICATION Spec
CONSTANTS
  Ops = {o1, o2, o3}
  o1 = o1
  o2 = o2
  o3 = o3
  Actions = {"GET", "PATCH", "SYNCH", "DELETE", "STOP"}
  OperationQueueLimit <- LifoOfTwo
  SynchQueueLimit = 1
  Persistence = FALSE
  OwnerSelection = TRUE
  IndexCanFail = FALSE
  OwnershipCanMove = FALSE
  MaxVersion = 1
INVARIANTS
  UpdateExclusion
  GetsAreCounted
PROPERTIES
  EveryRequestAnswered
