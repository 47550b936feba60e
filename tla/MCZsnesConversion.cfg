SPECIFICATION CSpec
CONSTANTS
  SramSizes <- MCSramSizes
  ChipSizes <- MCChipSizes
  Cuts <- MCFieldCuts
INVARIANTS
  TypeOK
  CoreInPlace
  SramExact
  CutIsNoticed
  CutSramIsTail
  NumbersWhole
  SoundWhole
CHECK_DEADLOCK FALSE
