SPECIFICATION Spec
CONSTANTS
  Request = {r1, r2}
  None = None
  MaxVersion = 2
  MaxDate = 3
  MaxOrders = 1
CHECK_DEADLOCK FALSE
SYMMETRY Symmetry
INVARIANTS
  TypeOK
  WindowsAreDisjoint
  OrdersKeepRecipe
PROPERTY LiveUntilDate
