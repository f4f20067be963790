CONSTANTS
  Values = {0, 1, 2}
  NoValue = NoValue
  Apply <- MCApply
  Junk = 99
  Constructs = {"store"}
  MaxArgs = 2
  MaxCells = 5
  MaxBlocks = 3
SPECIFICATION Spec
PROPERTIES
  LeavesMachineValid
CHECK_DEADLOCK FALSE
