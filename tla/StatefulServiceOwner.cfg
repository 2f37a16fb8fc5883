SPECIFICATION Spec
CONSTANTS
  Ops = {o1, o2, o3, o4}
  o1 = o1
  o2 = o2
  o3 = o3
  o4 = o4
  Actions = {"GET", "PATCH", "SYNCH", "DELETE"}
  OperationQueueLimit = 2
  SynchQueueLimit = 1
  Persistence = TRUE
  OwnerSelection = TRUE
  IndexCanFail = FALSE
  OwnershipCanMove = FALSE
  MaxVersion = 2
SYMMETRY OpsSymmetry
INVARIANTS
  TypeOK
  AcknowledgedUpdatesKept
  CacheServesHighestVersion
  IndexedVersionsUnique
  ReadsSeeAcknowledged
PROPERTIES
  ImplementsAtomicDocument
