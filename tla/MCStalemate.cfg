CONSTANTS
  Rows = 10
  Columns = 5
  Colors = {0, 1, 2, 3}
  MaxPath = 5
  MaxTurn = 3
SPECIFICATION DealtSpec
CHECK_DEADLOCK FALSE
INVARIANTS
  MoverCanMove
