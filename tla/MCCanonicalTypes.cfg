CONSTANTS
  NTypes = 4
  NEntries = 2
  Signatures <- MCSignatures
SPECIFICATION Spec
INVARIANTS
  TypeOK
  PrefixCanonical
  IndexEqualityIsTypeEquality
PROPERTIES
  Terminates
CHECK_DEADLOCK FALSE
