CONSTANTS
  Rows = 4
  Columns = 3
  Colors = {red, yellow}
  MaxPath = 3
  MaxTurn = 2
  red = red
  yellow = yellow
  Boards <- MCBoards
  Desktops <- MCDesktops
  Windows <- MCWindows
  Pixels <- MCPixels
SPECIFICATION ViewSpec
CHECK_DEADLOCK FALSE
INVARIANTS
  ConfirmedIsValid
  DrawnWhereClicked
PROPERTIES
  FallsTowardsPlayer
