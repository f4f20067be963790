SPECIFICATION Spec
CONSTANTS
  GroupBits = 2
  IntBits = 5
  LongBits = 9
  IntBytes = 3
  LongBytes = 5
  FloatBytes = 2
  MaxBytes = 6
INVARIANTS TypeOK NumbersMeanTheirBytes FieldsAreWhole CallerFollows
CHECK_DEADLOCK FALSE
