SPECIFICATION Spec
CONSTANTS
  Changes = {45}
  Files <- EndlessFiles
PROPERTIES
  EndsOnEveryFile
CHECK_DEADLOCK FALSE
