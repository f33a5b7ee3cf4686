--------------------------- MODULE MCStockLedger ---------------------------
(***************************************************************************)
(* A small inventory for StockLedger and its Reports: flour in Stores and  *)
(* in the Kitchen, documents whose lines lock its two rows in either       *)
(* order, and yeast, which is delivered with it and Pastel does not know.  *)
(***************************************************************************)
EXTENDS Reports, StockDocuments, TLC

CONSTANTS
  issue,         \* Stores -> Kitchen
  transfer,      \* Kitchen -> Stores: the rows of issue in opposite order
  wastage,       \* more than the Kitchen holds; may always go negative
  sale,          \* a recipe deduction of 4.5 g; may always go negative
  emptyTransfer, \* a transfer saved without lines (the admin allows it)
  crumbSale,     \* 0.4 g of flour: less than the column can store
  receipt,       \* a GRN for flour, into the Stores
  take,          \* a count of the Kitchen that finds flour missing
  flour, yeast, stores, kitchen,
  MaxInvolved    \* bound: documents that a behaviour is about

MCKey == {flour, yeast} \X {stores, kitchen}
MCOpening == <<flour, stores>> :> 30 @@ <<flour, kitchen>> :> 10
               @@ <<yeast, stores>> :> 7 @@ <<yeast, kitchen>> :> 0
MCStatusGuarded == Doc \ {sale, crumbSale}

FlourLine(qty) == <<[product |-> flour, qty |-> qty]>>

MCLines ==
  issue :> IssueLines([source |-> stores, destination |-> kitchen,
                       lines |-> FlourLine(20)])
  @@ transfer :> TransferLines([source |-> kitchen, destination |-> stores,
                                lines |-> FlourLine(10)])
  @@ wastage :> WastageLines([product |-> flour, location |-> kitchen, qty |-> 20])
  @@ sale :> <<[key |-> <<flour, kitchen>>, delta |-> -45]>>
  @@ emptyTransfer :> TransferLines([source |-> kitchen, destination |-> stores,
                                     lines |-> <<>>])
  @@ receipt :> GRNLines([stores |-> stores, lines |->
                  <<[product |-> flour, qty_received |-> 15], [product |-> yeast, qty_received |-> 5]>>])
  @@ take :> StockTakeLines([location |-> kitchen, lines |->
               <<[product |-> flour, counted |-> TRUE, counted_qty |-> 4, system_qty |-> 10],
                 [product |-> yeast, counted |-> FALSE, counted_qty |-> 0, system_qty |-> 0]>>])
  @@ crumbSale :> <<[key |-> <<flour, stores>>, delta |-> -4]>>
MCLinesOf == [d \in Doc |-> MCLines[d]]

(* Issues and transfers are posted without override here, and a GRN has    *)
(* none; the others may always go negative.                                *)
MCAllowNegativeOf == [d \in Doc |-> {d \notin {issue, transfer, emptyTransfer, receipt}}]

MCKindOf ==
  [d \in Doc |-> CASE d = issue -> "issue"
                   [] d = wastage -> "wastage"
                   [] d \in {sale, crumbSale} -> "sale"
                   [] d = receipt -> "grn"
                   [] d = take -> "take"
                   [] OTHER -> "transfer"]

(* A bound: a behaviour is about MaxInvolved documents, posted or under    *)
(* way, whichever they are, and repeats them without limit; those that     *)
(* leave nothing behind, and a GRN, a stock take or a sale, count twice.   *)
(* It holds back LoadDocument only, which is not fair.                     *)
Involved == ({d \in Doc : postings[d] > 0} \cup {doc[t] : t \in Txn}) \ {None}
CountTwice == {emptyTransfer, crumbSale, receipt, take, sale}
FewInvolved ==
  Cardinality(Involved') + Cardinality(Involved' \cap CountTwice) <= MaxInvolved

MCSpec == Init /\ [][Next /\ FewInvolved]_vars /\ Fairness

MCCode == flour :> "F1" @@ yeast :> "Y1"
MCPastelCode == flour :> "P1" @@ yeast :> None
=============================================================================
