SPECIFICATION Spec
CONSTANT
  TurnsMax = 1
PROPERTY
  MalformedIsDefaulted
CHECK_DEADLOCK FALSE
