SPECIFICATION FairSpec
CONSTANT
  Seats = {0, 1, 2}
INVARIANTS
  CompletedIsJoined
  ListedIsSealed
  RecordKept
PROPERTIES
  SignalEnds
