SPECIFICATION Spec
CONSTANTS
  Value = {v1, v2}
  NoValue = NoValue
  Syntax = {}
  MaxDepth = 4
INVARIANTS TypeOK CommandsAreBlocks AssertionsAreTrue EndsCleanly
CHECK_DEADLOCK FALSE
