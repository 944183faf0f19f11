SPECIFICATION Spec
CONSTANTS
  TX_BUFFER_SIZE = 3
  MaxLen = 7
  MaxChars = 7
  WindowChars = 1
  ConfigWhileSending = FALSE
PROPERTY StringsHaveNoHoles
