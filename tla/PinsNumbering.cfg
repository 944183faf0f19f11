SPECIFICATION ReportSpec
CONSTANTS
  Boards <- MCBoards
  Function <- MCFunction
  None = None
  Main <- MCLateMain
  Probe <- MCProbe
  MotorFault <- MCEarlyFault
  Input_Aux0 = 6
  Outputs <- MCOutputs
  PluginPins <- MCPluginPins
  Descriptions = {text}
  MaxEvents = 3
  MaxReports = 2
INVARIANT OneOwner
CONSTRAINT MCShortReport
CHECK_DEADLOCK FALSE
