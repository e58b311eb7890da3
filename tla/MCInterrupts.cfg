SPECIFICATION InterruptSpec
CONSTANTS
  Handlers <- MCHandlers
  NumberOf <- MCNumberOf
  Lines <- MCLines
  Devices <- MCDevices
  LineOf <- MCLineOf
  DriverOf <- MCDriverOf
  Exceptions <- MCExceptions
  SysCalls <- MCSysCalls
  HitWords = {2, 4, 12}
  MaxEvents = 3
  MaxSwitches = 2
  MaxBuilds = 2
  MaxDepth = 2
CHECK_DEADLOCK FALSE
INVARIANTS
  InServiceIsInProgress
  RegisteredIsYoungest
  PrintedAsAsked
PROPERTIES
  ResumesAsInterrupted
  DevicesAreServed
