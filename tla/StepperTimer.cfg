SPECIFICATION FairSpec
CONSTANTS
  Axes = {x}
  T_OFF = 2
  T_OFF_MIN = 2
  T_ON = 1
  T_MIN_PERIOD = 4
  Periods = {1, 6}
  WAKE = 6
  LATENCY = 3
  WakeEarly = FALSE
INVARIANT TypeOK
PROPERTIES PulseEnds CoreIsCalled PulseWidth PulseGap DirIsStable
