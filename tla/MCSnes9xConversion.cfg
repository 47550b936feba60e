SPECIFICATION Spec
CONSTANTS
  Versions <- MCVersions
  Files <- MCFiles
INVARIANTS
  TypeOK
  FailsOnDamageOnly
  RightChip
  CartridgeTogether
  ChipRamKept
  NumbersKept
  Msu1InPlace
CHECK_DEADLOCK FALSE
