\* Setup with two requests and a dialog, or three overlapping loads while the store changes.
SPECIFICATION Spec
CONSTANTS
  NoJob = nojob
  Expeditions = {e1}
  Names = {hunter, blank}
  Folders <- MCFolders
  Trimmed <- MCTrimmed
  Plain = plain
  Padded = padded
  Blank = blank
  Default = hunter
  None = none
  MaxRequests = 3
  MaxDialogs = 1
  MaxVersion = 1
  MaxQueue = 1
  LastLoad = 3
CONSTRAINT OneStory
INVARIANTS TypeOK FolderChecked PostsToLiveApp ShownIsFresh PreviewBacked
PROPERTIES CommitWasConfirmed
CHECK_DEADLOCK FALSE
