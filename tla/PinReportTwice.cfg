SPECIFICATION ReportSpec
CONSTANTS
  Boards <- MCBoards
  Function <- MCFunction
  None = None
  Main <- MCMain
  Probe <- MCProbe
  MotorFault <- MCMotorFault
  Input_Aux0 = 6
  Outputs <- MCOutputs
  PluginPins <- MCPluginPins
  Descriptions = {text}
  MaxEvents = 3
  MaxReports = 2
INVARIANT InputsAreInputs
CONSTRAINT MCShortReport
CHECK_DEADLOCK FALSE
