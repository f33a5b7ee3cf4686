SPECIFICATION Spec
CONSTANTS
  o1 = o1
  l1 = l1
  l2 = l2
  p1 = p1
  p2 = p2
  d1 = d1
  d2 = d2
  i1 = i1
  r1 = r1
  r2 = r2
  PO = {o1}
  POLine = {l1, l2}
  POOf <- MCPOOf
  Product = {p1, p2}
  ProductOf <- MCProductOf
  Ordered <- MCOrdered
  Delivery = {d1, d2}
  LinesOf <- MCLinesOf
  Worth <- MCWorth
  Estimate <- MCEstimate
  Invoice = {i1}
  Amount = {2}
  Request = {r1, r2}
  None = None
  MaxGRNs = 2
  MaxSends = 2
  MaxSold = 2
CHECK_DEADLOCK FALSE
SYMMETRY Requests
INVARIANTS
  TypeOK
  ReceiptsAddUp
  CostsAreDelivered
  EmailsAreOnRecord
