SPECIFICATION Spec
CONSTANTS
  Axis <- MCAxis
  First = "x"
  Pin <- MCPin
  Bit <- MCBit
  ShiftedInput = TRUE
  PullupSettings <- MCPullups
INVARIANT StateNamesAxes
