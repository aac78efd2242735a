SPECIFICATION Spec
CONSTANTS
  NoJob = nojob
  Expeditions = {}
  Names = {hunter, blank}
  Folders <- MCFewFolders
  Trimmed <- MCTrimmed
  Plain = plain
  Padded = padded
  Blank = blank
  Default = hunter
  None = none
  MaxRequests = 1
  MaxDialogs = 0
  MaxVersion = 0
  MaxQueue = 1
  LastLoad = 0
INVARIANT ConfirmedNameGiven
CHECK_DEADLOCK FALSE
