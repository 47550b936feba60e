SPECIFICATION Spec
CONSTANT Moments <- LateMoment
INVARIANT ZsnesAsDocumented
CHECK_DEADLOCK FALSE
