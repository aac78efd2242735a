SPECIFICATION Spec
CONSTANTS
  NoJob = nojob
  Expeditions = {}
  Names = {hunter, blank}
  Folders <- MCFewFolders
  Trimmed <- MCTrimmed
  Plain = plain
  Padded = padded
  Blank = blank
  Default = hunter
  None = none
  MaxRequests = 2
  MaxDialogs = 1
  MaxVersion = 0
  MaxQueue = 1
  LastLoad = 1
PROPERTIES RequestsSettle CloseEnds
CHECK_DEADLOCK FALSE
