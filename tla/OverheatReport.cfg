SPECIFICATION FairSpec
CONSTANTS
  TX_BUFFER_SIZE = 3
  MaxChars = 9
  WindowChars = 1
  Temps = {1000, 2480}
  PWords = {}
  NoPWord = 1001
  TickMod = 4
  SENSOR_UPDATE_MS = 3
  MaxAge = 3
  Codes = {814}
  Lengths = {5}
  ReportLen = 2
  CharsPerTick = 3
INVARIANT OneMessageInside
PROPERTY WriterGoesOn
