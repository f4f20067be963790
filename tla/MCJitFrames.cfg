CONSTANTS
  Values = {0, 1, 2}
  NoValue = NoValue
  Apply <- MCApply
  Junk = 99
  Constructs = {}
  MaxArgs = 2
  MaxCells = 5
  MaxBlocks = 3
SPECIFICATION Spec
INVARIANTS
  TypeOK
  FramesNest
  ReturnIsBalanced
PROPERTIES
  ImplementsWasm
CHECK_DEADLOCK FALSE
