CONSTANTS
  FirstPlayer = 0
  TowerMaxHp = 1
  MaxTurn = 2
  Clients = {c1, c2, c3}
  NoClient = NoClient
  Frames <- SeatFrames
  MaxFrames = 1
  MayStop = TRUE
SPECIFICATION FairSpec
CHECK_DEADLOCK FALSE
INVARIANTS
  SeatsMatchSession
  StreamsInOrder
PROPERTIES
  SurvivorTold
  SeatsFreed
