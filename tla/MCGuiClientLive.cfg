CONSTANTS
  FirstPlayer = 0
  TowerMaxHp = 1
  MaxTurn = 1
  Clients = {c1, c2}
  Guis = {c1}
  NoClient = NoClient
  Frames <- OpeningMove
  MaxFrames = 1
  MayStop = TRUE
SPECIFICATION FairGuiSpec
CHECK_DEADLOCK FALSE
PROPERTIES
  PendingResolved
  CatchUp
