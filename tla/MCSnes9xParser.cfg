SPECIFICATION Spec
CONSTANTS
  Changes = {0, 10, 43, 45, 48, 49, 57, 58, 84, 95, 200}
  Files <- MCFiles
INVARIANTS
  TypeOK
  Attribution
PROPERTIES
  LoopAdvances
  Terminates
CHECK_DEADLOCK FALSE
