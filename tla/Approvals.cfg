SPECIFICATION MCSpec
CONSTANTS
  Doc = {transfer, take, wastage, budget}
  Approval = {a1, a2}
  Request = {r1, r2}
  None = None
  KindOf <- MCKindOf
  Scope <- MCScope
  ScopeOf <- MCScopeOf
  Value = {0, 2}
  Amount = {1}
  transfer = transfer
  take = take
  wastage = wastage
  budget = budget
SYMMETRY Interchangeable
INVARIANTS
  TypeOK
  PostedWithClearance
  StockFollowsDecisions
  StatusMatchesQueue
PROPERTY FinalUnlessRaced
