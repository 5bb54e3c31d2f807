SPECIFICATION FairSpec
CONSTANT
  Seats = {0, 1, 2}
INVARIANT
  PartialIsRetained
