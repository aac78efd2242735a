\* A deer beside a hunter who has died.
SPECIFICATION Spec
CONSTANTS
  Herds <- DeerOnly
  MaxAfraid = 3
  Stuck = 2
INVARIANTS ScaredDeerFlees
