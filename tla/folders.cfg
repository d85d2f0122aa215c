SPECIFICATION Spec
CONSTANTS
  Words <- MCWords
  Pictures <- MCPictures
  Choices <- MCChoices
  WorkingDir <- MCWorkingDir
  Excluded <- MCExcluded
INVARIANTS TypeOK OwnPlace SyncThorough
PROPERTIES GoesWithPicture
