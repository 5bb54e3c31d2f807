SPECIFICATION Spec
CONSTANTS
  Windows = 2
  Calls = 1
  Depth = 3
  Policies = {"haiku", "native", "foreign"}
  Strays = 2
INVARIANTS
  AnswersAreOwn
  AckMeansJoined
  RecordFollowsJournal
  CompletedIsExact
  BreaksLate
PROPERTIES
  EndsAsPromised
CHECK_DEADLOCK FALSE
