SPECIFICATION Spec
CONSTANTS
  fn1 = fn1
  fn2 = fn2
  imp1 = imp1
  Fn <- MCFn
  Import <- MCImport
  Cparams <- MCCparams
  Clocals <- MCClocals
  Returns <- MCReturns
  Reads <- MCReads
  Value = {0, 1}
  Junk = Junk
  OperandCells = 5
  LocalCells = 5
  MaxArgs = 2
  MaxDepth = 3
INVARIANTS TypeOK FramesAreDisjoint
PROPERTY ImplementsActivations
CHECK_DEADLOCK FALSE
