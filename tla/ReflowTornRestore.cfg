CONSTANTS
  g1 = g1
  g1A = g1A
  g1B = g1B
  g2 = g2
  g2B = g2B
  damaged = damaged
  A = A
  B = B
  Valid <- MCValid
  Cards <- MCCards
  Reflowed <- MCReflowed
  NoGlossary = NoGlossary
  Torn = Torn
  Absent = Absent
  MaxInvocations = 2
  MaxGameSaves = 0
SPECIFICATION RunSpec
CHECK_DEADLOCK FALSE
INVARIANT RestoredIsWhole
