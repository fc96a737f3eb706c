CONSTANTS
  FirstPlayer = 1
  TowerMaxHp = 3
  MaxTurn = 7
SPECIFICATION SessionSpec
INVARIANTS
  WinnerIffTowerDown
  OneRequestPerTurn
PROPERTIES
  ImplementsTurnGame
