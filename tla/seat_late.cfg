SPECIFICATION Spec
CONSTANTS
  Windows = 2
  Calls = 1
  Depth = 3
  Policies = {"native"}
  Strays = 0
INVARIANT
  LateIsOnlyDefaulted
CHECK_DEADLOCK FALSE
