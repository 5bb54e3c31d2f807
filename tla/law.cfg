SPECIFICATION MCSpec
CONSTANTS
  ProtectedCount = 1
  MutableCount = 1
  MaxRules = 6
  MaxOps = 3
  MaxProposerSequence = 3
  VictoryPoints = 6
  FateModes = {"random", "proposer"}
  Texts <- AllTexts
  Founding = founding
  Unusable = Unusable
  founding = founding
  amended = amended
  TurnsMax = 4
  Proposals <- AllProposals
  ScalarOps <- AllScalars
  OrderOps <- AllWrites
  Declared <- AllDeclared
  Judges = {"model", "certification"}
  Entropy = {0, 5}
INVARIANTS
  RulebookSound
  RulebookNeverFull
  RotationFollowsOrder
  NoMissedVictory
  ProjectionIsExact
  CertifiedFailsOnProposal
PROPERTIES
  LawFollowsAdoption
  ProtectedOnlyTransmuted
  AllOrNothing
  TakesTheCourse
