SPECIFICATION Spec
CONSTANTS
  SramSizes <- MCSramSizes
  ChipSizes <- MCChipSizes
  Cuts <- NoCut
INVARIANT DocumentedSramExact
CHECK_DEADLOCK FALSE
