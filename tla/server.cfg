SPECIFICATION FairSpec
CONSTANTS
  s1 = s1
  s2 = s2
  c1 = c1
  c2 = c2
  c3 = c3
  Seats <- TwoSeats
  Conns <- ThreeConns
  SeatOf <- Slots
INVARIANTS
  CompletedIsWhole
  ExitsSealed
PROPERTIES
  KeepsItsPromise
  ConnectionsEnd
  ServerAdvances
  AlwaysExits
CHECK_DEADLOCK FALSE
