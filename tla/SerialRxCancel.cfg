SPECIFICATION Spec
CONSTANTS
  RX_BUFFER_SIZE = 4
  MaxBytes = 3
  MaxCancels = 1
  CancelRaces = TRUE
  Overruns = FALSE
PROPERTY ImplementsRxQueue
