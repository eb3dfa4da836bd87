CONSTANTS
  Gens <- MCGens
  Writes <- MCWrites
  MaxRuns = 3
  NoGen = NoGen
SPECIFICATION Spec
CHECK_DEADLOCK FALSE
INVARIANTS RollupsAreOfTheRun RollupsSeparate EveryTextHasItsFile
