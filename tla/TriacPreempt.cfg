SPECIFICATION Spec
CONSTANTS
  Temps <- MCTemps
  PWords <- MCPWords
  NoPWord <- MCNoPWord
  TickMod = 5
  SENSOR_UPDATE_MS = 2
  MaxAge = 3
  ResetPreempts = TRUE
PROPERTY SentWhenEnabled
