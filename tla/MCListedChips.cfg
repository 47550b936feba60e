SPECIFICATION Spec
CONSTANTS
  Versions <- MCVersions
  Files <- MCSa1Files
INVARIANT ListedChipState
CHECK_DEADLOCK FALSE
