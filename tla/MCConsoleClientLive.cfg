CONSTANTS
  FirstPlayer = 0
  TowerMaxHp = 1
  MaxTurn = 1
  Clients = {c1, c2}
  Consoles = {c1}
  NoClient = NoClient
  Frames <- OpeningMove
  MaxFrames = 1
  MayStop = TRUE
SPECIFICATION FairConsoleSpec
CHECK_DEADLOCK FALSE
PROPERTIES
  ClientEnds
