CONSTANTS
  WordSize = 6
  PageSize = 2
  Byte = {0, 1}
  Widths = {1, 2}
  InBounds = TRUE
  MaxData = 1
SPECIFICATION Spec
INVARIANTS
  TypeOK
  AddressableHeap
  GrownPagesAreZero
PROPERTIES
  MaximumRespected
  MemoryNeverShrinks
  ImplementsMemory
CHECK_DEADLOCK FALSE
