\* Packs of two and single animals of five families; reactions of three frames.
SPECIFICATION Spec
CONSTANTS
  Herds <- AllHerds
  MaxAfraid = 3
  Stuck = 2
INVARIANTS TypeOK PursuitRemembers FleeAgreement HuntableLegsTurn
PROPERTIES QuietCalms
