CONSTANTS
  FirstPlayer = 0
  TowerMaxHp = 1
  MaxTurn = 2
  Clients = {c1, c2}
  Consoles = {c1}
  NoClient = NoClient
  Frames <- AllMoves
  MaxFrames = 2
  MayStop = FALSE
SPECIFICATION ConsoleSpec
CHECK_DEADLOCK FALSE
INVARIANTS
  SentForOwnTurn
