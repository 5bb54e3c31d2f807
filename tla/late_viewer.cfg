SPECIFICATION Spec
CONSTANTS
  Viewers = {v1}
  Events = 2
INVARIANT
  LogThenLive
CHECK_DEADLOCK FALSE
