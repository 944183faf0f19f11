SPECIFICATION FairSpec
CONSTANTS
  Axis <- MCAxis
  First = "x"
  Pin <- MCPin
  Bit <- MCBit
  ShiftedInput = TRUE
  PullupSettings <- MCPullups
INVARIANT AlarmIsTrue
PROPERTIES QuietWhenMasked FirstLimitFires
