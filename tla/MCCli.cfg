SPECIFICATION Spec
CONSTANTS
  Run <- MCRun
  Path <- MCPath
  Slot <- MCSlot
  Source <- MCSource
  Target <- MCTarget
  Saves <- MCSaves
  Chunks = 2
  MaxChanges = 1
INVARIANTS
  TypeOK
  OutputsWhole
  NoRefusedData
  VerdictStands
  SoundSavesDetected
PROPERTIES
  TouchedOnlyWithResult
  ConvertsSnapshots
  EveryRunEnds
CHECK_DEADLOCK FALSE
