CONSTANTS
  ja = ja
  jb = jb
  wa = wa
  wb = wb
  ws = ws
  a = a
  b = b
  s = s
  zero = zero
  unreadable = unreadable
  state = state
  Blocks = {1, 2}
  NChunks = 4
  ChunkData = 4
  RecordBase = 5
  RecordStride = 5
  NRecords = 2
  NameLen = 3
  PlaceLen = 3
  Fullwidth <- MCFullwidth
  Ascii <- MCAscii
  Zero = zero
  FwSpace = ws
  Unreadable = unreadable
  Cells <- MCCells
  Saves <- MCSaves
  GlossaryFiles <- MCGlossaryFiles
  Renames <- MCRenames
  Options <- MCOptions
  MaxRuns = 2
SPECIFICATION Spec
CHECK_DEADLOCK FALSE
INVARIANTS Sealed OnlyNamesChange Settled
