SPECIFICATION Spec
CONSTANT Moments <- BlankMoment
INVARIANT Snes9xAsDocumented
CHECK_DEADLOCK FALSE
