SPECIFICATION Spec
CONSTANTS
  GroupBits = 2
  IntBits = 5
  LongBits = 9
  IntBytes = 3
  LongBytes = 5
  FloatBytes = 2
  MaxBytes = 5
INVARIANTS SignIsExtended
CHECK_DEADLOCK FALSE
