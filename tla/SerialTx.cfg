SPECIFICATION FairSpec
CONSTANTS
  TX_BUFFER_SIZE = 4
  MaxLen = 4
  MaxChars = 8
  WindowChars = 1
  ConfigWhileSending = FALSE
INVARIANTS NothingStale InOrder
PROPERTIES ImplementsTxQueue NothingCut RingDrains
