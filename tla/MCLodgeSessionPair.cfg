\* Windows: the SAV and SAB pair; the job object kills the whole family.
SPECIFICATION Spec
CONSTANTS
  Procs = {p1, p2}
  Sessions = {s1}
  Members = {sav, sab}
  Values = {v0, bad}
  Original = v0
  Unreadable = {bad}
  Missing = missing
  NoCapture = nocapture
  KillOnClose = TRUE
SYMMETRY Symmetry
INVARIANTS CandidateSound CaptureStands
