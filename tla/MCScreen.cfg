CONSTANTS
  DesktopHeight = 5
  PointerHeight = 1
  Children <- MCChildren
  Parts <- MCParts
  Windows <- MCWindows
  Buttons = {"time"}
  Height <- MCHeight
  Start <- MCStart
  None = "none"
  Movements <- MCMovements
  ButtonStates = {0, 1}
  ScanCodes = {30, 1, 158}
  Letters = {30}
  TimeButton <- MCTimeButton
  Mornings <- MCMornings
  MaxEvents = 3
SPECIFICATION ScreenSpec
INVARIANTS
  ClickGoesWhereShown
  ClockShowsTime
  DragFollowsHand
  KeysGoToLastClicked
CHECK_DEADLOCK FALSE
