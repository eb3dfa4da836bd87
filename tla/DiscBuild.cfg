CONSTANTS
  Base <- MCBase
  Cells <- MCCells
  User = 2
  Off = Off
  Absent = Absent
  Directory = 1
  Extent <- MCExtent
  Payloads <- MCPayloads
  Jobs <- MCJobs
  MaxBuilds = 2
SPECIFICATION Spec
CHECK_DEADLOCK FALSE
INVARIANTS BuildIsExact VerdictIsOfTheHash WaitedCheckIsOfTheBuild
PROPERTY CheckEnds
