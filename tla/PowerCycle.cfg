SPECIFICATION FairLife
CONSTANTS
  Delays = {0, 2}
  MaxCalls = 0
  SetupDelay = 2
  SettingsVersions = {22, 23}
  Bytes = {FF, aa}
  FF = FF
  TORN = TORN
  PageSize = 6
  NvsSize = 3
  Quad = 2
INVARIANTS LifeTypeOK ClockedBeforeUse OneHolder
PROPERTIES BootEnds SavedIsRead ErasedFirst SaveEnds
