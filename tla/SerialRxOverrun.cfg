SPECIFICATION FairSpec
CONSTANTS
  RX_BUFFER_SIZE = 4
  MaxBytes = 3
  MaxCancels = 1
  CancelRaces = FALSE
  Overruns = TRUE
PROPERTY InterruptIsAnswered
