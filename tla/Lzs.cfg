CONSTANTS
  Bits = 2
  Byte = 4
  LenSpan = 2
  Threshold = 2
  MaxChain = 2
  Datas <- MCDatas
  Streams <- MCStreams
SPECIFICATION Spec
CHECK_DEADLOCK FALSE
INVARIANTS RoundTrip RingIsWindow
