CONSTANTS
  Values = {0, 1, 2}
  NoValue = NoValue
  Apply <- MCApply
  Junk = 99
  Constructs = {"store", "void_else", "value_loop", "mixed_table", "f64_compare"}
  MaxArgs = 2
  MaxCells = 4
  MaxBlocks = 3
SPECIFICATION Spec
INVARIANTS
  FramesNest
  ReturnIsBalanced
CHECK_DEADLOCK FALSE
