SPECIFICATION FairSpec
CONSTANTS
  Temps <- MCTemps
  PWords <- MCPWords
  NoPWord <- MCNoPWord
  TickMod = 5
  SENSOR_UPDATE_MS = 2
  MaxAge = 3
  ResetPreempts = TRUE
INVARIANTS TypeOK DimmerFollows
PROPERTIES OverheatStops OnlyCommandsRaise SamplesApart HotIsNoticed
