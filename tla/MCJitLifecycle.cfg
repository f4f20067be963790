CONSTANTS
  NImports = 1
  NFn = 4
  TypeOf <- MCTypeOf
  Table <- MCTable
  Types = {"s", "t"}
  Indices = {0, 1, 2, 3, 4}
  Bodies <- MCBodies
  Exports = {0, 1, 2}
  PlaneMax = 9
  Page <- MCPage
  MaxDepth = 3
SPECIFICATION Spec
INVARIANTS
  TypeOK
  WriteXorExecute
  RunningCodeIsLinked
  CodeIsContiguous
PROPERTIES
  SlotsAreFilledOnce
  CompilerDescends
  CompilationEnds
  ImplementsCalls
CHECK_DEADLOCK FALSE
