SPECIFICATION Spec
CONSTANTS
  Delays = {0, 2}
  MaxCalls = 2
  MICROS = 3
  f_mcu = 1
  WIDTH = 11
  CallCycles = 4
  CyclesRecorded = TRUE
INVARIANT TypeOK
