CONSTANTS
  FirstPlayer = 0
  TowerMaxHp = 1
  MaxTurn = 2
  Clients = {c1, c2}
  Guis = {c1, c2}
  NoClient = NoClient
  Frames <- AllMoves
  MaxFrames = 3
  MayStop = FALSE
SPECIFICATION GuiSpec
SYMMETRY Connections
CHECK_DEADLOCK FALSE
INVARIANTS
  PathOnShownBoard
  NoRefusal
  RequestsRationed
  GameOverIsReal
  JoinReturns
PROPERTIES
  ShownMovesOn
