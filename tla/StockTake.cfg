SPECIFICATION Spec
CONSTANTS
  Product = {p1}
  k1 = k1
  k2 = k2
  Take <- MCTake
  Stock <- MCStock
  Limit = 1
  None = None
  Blank = Blank
  MaxUsed = 1
  MaxLost = 1
  MaxOpen <- MCMaxOpen
  Recounted = {}
INVARIANTS TypeOK LeakageTellsLoss
PROPERTIES CountCorrectsBalance
