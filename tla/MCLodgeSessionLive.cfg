\* Liveness: no symmetry, one file that may only go missing.
SPECIFICATION Spec
CONSTANTS
  Procs = {p1, p2}
  Sessions = {s1}
  Members = {sav}
  Values = {v0}
  Original = v0
  Unreadable = {}
  Missing = missing
  NoCapture = nocapture
  KillOnClose = FALSE
INVARIANTS CommandSteps
PROPERTIES CommandsEnd
