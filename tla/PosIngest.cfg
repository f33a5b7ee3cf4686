SPECIFICATION FairSpec
CONSTANTS
  s1 = s1
  s2 = s2
  i1 = i1
  i2 = i2
  p1 = p1
  p2 = p2
  r1 = r1
  r2 = r2
  Sale = {s1, s2}
  Item = {i1, i2}
  Lines <- MCLines
  Usage <- MCUsage
  Request = {p1, p2}
  Replayer = {r1, r2}
  Opening = 1
  MaxStock = 2
  MaxFaults = 1
INVARIANTS
  TypeOK
  EventTellsOutcome
  StockIsAccounted
PROPERTY EventuallyIngested
