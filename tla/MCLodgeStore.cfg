\* Machines with and without power cuts: racing sessions and orphan generations, or two kinds of edits.
SPECIFICATION Spec
CONSTANTS
  Procs = {p1, p2}
  Edits = {imp, edit}
  Managed = imp
  Sessions = {s1, s2}
  Gens = {g1, g2, g3}
  Import = import
  None = none
  PowerCuts = {TRUE, FALSE}
SYMMETRY Symmetry
CONSTRAINT OneStory
INVARIANTS TypeOK SnapshotsBacked ToldDurable ReceiptNotAhead
PROPERTIES PreviousRetained ImplementsHistory
