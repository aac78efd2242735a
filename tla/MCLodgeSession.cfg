\* POSIX: one state file, changed readably or damaged; descendants outlive the child.
SPECIFICATION Spec
CONSTANTS
  Procs = {p1, p2}
  Sessions = {s1}
  Members = {sav}
  Values = {v0, v1, bad}
  Original = v0
  Unreadable = {bad}
  Missing = missing
  NoCapture = nocapture
  KillOnClose = FALSE
SYMMETRY Symmetry
INVARIANTS TypeOK WriterAlone LaunchedOnce ReturnedMeansReaped CandidateSound
PROPERTIES HistoryGrows EvidenceKept
