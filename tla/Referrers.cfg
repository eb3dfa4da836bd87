CONSTANTS
  Span = 64
  RecordWords = 2
  RefWords = 1
  CodeBits <- MCCodeBits
  Discs <- MCDiscs
  NewStrings <- MCNewStrings
  MaxBuilds = 2
SPECIFICATION Spec
CHECK_DEADLOCK FALSE
INVARIANTS StoredKept HiddenKept CarriersAgree
