CONSTANTS
  Half = 4
  Window = 2
  Regs <- MCRegs
  Zero = 0
  Ra = 31
  Instructions <- MCInstructions
  Span = 8
  Tid = 1
  Starts <- MCStarts
  Unknown = Unknown
  MaxWords = 4
SPECIFICATION Spec
CHECK_DEADLOCK FALSE
INVARIANTS TypeOK SplitIsReal Complete OrphanIsLoaded OneSitePerHalf ReadWriteAgreement
