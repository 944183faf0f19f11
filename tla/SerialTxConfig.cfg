SPECIFICATION Spec
CONSTANTS
  TX_BUFFER_SIZE = 4
  MaxLen = 2
  MaxChars = 4
  WindowChars = 1
  ConfigWhileSending = TRUE
INVARIANT NothingStale
