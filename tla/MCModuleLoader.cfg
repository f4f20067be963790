SPECIFICATION Spec
CONSTANTS
  WordSize = 4
  PageSize = 2
  Byte <- MCByte
  Signature = {s1, s2}
  BuiltinNames <- MCBuiltinNames
  ImportName <- MCImportName
  ExportName <- MCExportName
  MaxSegment = 2
  MaxEntries = 4
INVARIANTS TypeOK EntriesNameTypes NothingRunsBeforeLinking ImportsComeFirst SegmentsAreKept
SYMMETRY Renaming
CHECK_DEADLOCK FALSE
