SPECIFICATION MCSpec
CONSTANTS
  Doc = {issue, transfer, wastage, sale, emptyTransfer, crumbSale, receipt, take}
  MadeToPost = {receipt}
  Txn = {t1, t2}
  MaxInvolved = 3
  Key <- MCKey
  None = None
  StatusGuarded <- MCStatusGuarded
  LinesOf <- MCLinesOf
  AllowNegativeOf <- MCAllowNegativeOf
  Opening <- MCOpening
  KindOf <- MCKindOf
  Code <- MCCode
  PastelCode <- MCPastelCode
  issue = issue
  sale = sale
  yeast = yeast
  transfer = transfer
  wastage = wastage
  emptyTransfer = emptyTransfer
  crumbSale = crumbSale
  receipt = receipt
  take = take
  flour = flour
  stores = stores
  kitchen = kitchen
INVARIANTS
  TypeOK
  BalanceIsLedger
  PostingIsWhole
  RepeatNeedsOverlap
  
PROPERTY Serializable RequestsEnd
