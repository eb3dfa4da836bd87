CONSTANTS
  Page = 2
  NodeBit = 16
  Order <- MCOrder
  Frequencies <- MCFrequencies
  MinDepths = {1, 2}
  Byte = 2
  Texts <- MCTexts
  MaxBytes = 3
SPECIFICATION Spec
CHECK_DEADLOCK FALSE
INVARIANTS AsTheEngineWalks Optimal TextComesBack RoundTrip StartsAreStrings StartsKept
