CONSTANTS
  Sector = 64
  Header = 16
  Page = 4
  TextHeader = 24
  MaxA = 1000
  MaxId = 7
  Tables <- MCTables
  MaxRows = 2
  Discs <- MCDiscs
SPECIFICATION LocateSpec
CHECK_DEADLOCK FALSE
INVARIANTS OverlayTextFound ExeRefsOnce
