SPECIFICATION FairSpec
CONSTANT
  TurnsMax = 2
INVARIANTS
  SameStory
  HiddenUntilAllClosed
  DoneIsWhole
PROPERTIES
  SealedStands
  EveryStepShortens
  TakesTheCourse
  EpisodeEnds
CHECK_DEADLOCK FALSE
