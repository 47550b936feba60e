SPECIFICATION Spec
CONSTANT Moments <- MCMoments
INVARIANTS
  TypeOK
  OneMoment
  NmiFlagTrue
  Snes9xFrame
  RegistersKept
CHECK_DEADLOCK FALSE
