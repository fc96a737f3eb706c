CONSTANTS
  Rows = 4
  Columns = 2
  Colors = {red, yellow}
  MaxPath = 3
  MaxTurn = 3
SPECIFICATION Spec
SYMMETRY ColorSymmetry
CHECK_DEADLOCK FALSE
INVARIANTS
  PositionsInSync
  HeroIdsUnique
PROPERTIES
  NoHeroHandedOver
  CollapseKeepsHeroes
