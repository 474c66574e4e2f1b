\* Edits, signals, invalid files, I/O errors and a watch that fails, between any two
\* steps of a load.
SPECIFICATION Spec
CONSTANTS
  None = None
  Versions = {"v1"}
  Ids <- BaselineAndTwo
  MaxRules = 3
  IoMayFail = TRUE
  WatchMayFail = TRUE
  MaxUnseen = 1
  MaxEdits = 2
  MaxSignals = 1
PROPERTIES
  InstallsWhatWasThere
  SeedsOnlyMissing
  EditsBecomeLive
  SighupServed
  ReloadsSettle
CHECK_DEADLOCK FALSE
