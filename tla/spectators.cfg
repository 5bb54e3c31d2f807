SPECIFICATION FairSpec
CONSTANTS
  Viewers = {v1, v2}
  Events = 2
INVARIANT
  NothingMissed
PROPERTIES
  BroadcastsEnd
  NobodyCutOff
CHECK_DEADLOCK FALSE
