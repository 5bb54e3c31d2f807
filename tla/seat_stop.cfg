SPECIFICATION FairSpec
CONSTANTS
  Windows = 1
  Calls = 2
  Depth = 2
  Policies = {"opus", "scripted"}
  Strays = 0
INVARIANT
  SettledIsWhole
PROPERTIES
  StopResolves
  WindowsClose
  StoppedPlayerLeaves
CHECK_DEADLOCK FALSE
