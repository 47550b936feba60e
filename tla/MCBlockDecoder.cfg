SPECIFICATION Spec
CONSTANTS
  Blocks <- MCBlocks
  Versions = {6, 7, 8, 9, 10, 11, 12}
  Lengths <- MCLengths
INVARIANTS
  TypeOK
  RaisesBelowNeeded
  ShortOnlyBehind
  WholeWhenLong
  ReadsItsVersion
CHECK_DEADLOCK FALSE
