\* A lone ambient animal whose flee leg cannot be closed.
SPECIFICATION Spec
CONSTANTS
  Herds <- PigOnly
  MaxAfraid = 3
  Stuck = 2
INVARIANTS LegsTurn
