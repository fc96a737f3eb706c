CONSTANTS
  Rows = 4
  Columns = 2
  FirstPlayer = 0
  TowerMaxHp = 60
  Kinds = {"IronFighter", "SilentHunter", "Regent", "ChickenPot"}
  MaxPath = 3
  MaxTurn = 4
SPECIFICATION LogSpec
CHECK_DEADLOCK FALSE
INVARIANTS
  TypeOK
  DamageAccounted
  WeakUntilItStrikes
  SidesAlike
  ReplayGivesField
  QuietAfterTheEnd
PROPERTIES
  OnlyDefenderPays
  EachStrikesOnce
  ImplementsTurnGame
