CONSTANTS
  Paths = {a, b, c}
  None = None
  MaxId = 3
  MaxTail = 2
  Bodies = {1}
  Chunk = 1
  MaxBursts = 1
  MaxCrashes = 1
  MayExpire = TRUE
  MetaBursts = FALSE
SPECIFICATION Spec
SYMMETRY Symmetry
INVARIANTS RefCountCoversForks ForkInheritance DeletedStaysDeleted LiveIsIntact DeletionResumable
CHECK_DEADLOCK FALSE
