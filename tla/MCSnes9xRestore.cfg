SPECIFICATION RSpec
CONSTANTS
  MaxBlocks = 2
  Saves <- MCSaves
  Files <- MCFiles
INVARIANTS
  InStep
  ReadsSurvivors
  RefusedOnlyWithoutHeader
PROPERTIES
  Replays
CHECK_DEADLOCK FALSE
