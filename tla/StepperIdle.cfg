SPECIFICATION Spec
CONSTANTS
  Axes = {x}
  T_OFF = 2
  T_OFF_MIN = 1
  T_ON = 2
  T_MIN_PERIOD = 3
  Periods = {1, 5}
  WAKE = 5
  LATENCY = 1
  WakeEarly = FALSE
PROPERTY StaysClear
