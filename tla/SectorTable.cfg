CONSTANTS
  N = 4
  LbaSpan = 8
  LenSpan = 4
  FlagBit = 32
  ArchiveBase = 1
  NSectors = 6
  FlaggedIndexes = {3}
  Bases <- MCBases
  NewLengths <- MCNewLengths
  NewLbas <- MCNewLbas
  MaxEdits = 3
SPECIFICATION TableSpec
CHECK_DEADLOCK FALSE
INVARIANTS RepackCarriesFlag LoadsDisjoint NoRelocationMissed GatesAgree
