SPECIFICATION FairSpec
CONSTANTS
  RX_BUFFER_SIZE = 4
  MaxBytes = 5
  MaxCancels = 1
  CancelRaces = FALSE
  Overruns = FALSE
INVARIANT TypeOK
PROPERTIES ImplementsRxQueue FreeIsHonest InterruptIsAnswered
