SPECIFICATION Spec
CONSTANTS
  WordSize = 4
  PageSize = 2
  Byte <- MCByte
  Signature = {s1, s2}
  BuiltinNames <- MCBuiltinNames
  ImportName <- MCImportName
  ExportName <- MCExportName
  MaxSegment = 1
  MaxEntries = 1
INVARIANTS LoadedWhole
CHECK_DEADLOCK FALSE
