CONSTANTS
  FirstPlayer = 0
  TowerMaxHp = 1
  MaxTurn = 2
  Clients = {c1, c2}
  NoClient = NoClient
  Frames <- PlayFrames
  MaxFrames = 3
  MayStop = FALSE
SPECIFICATION Spec
SYMMETRY Connections
CHECK_DEADLOCK FALSE
INVARIANTS
  OneHistory
  SuccessPerAcceptedRequest
PROPERTIES
  LateRequestIgnored
