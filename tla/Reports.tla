------------------------------- MODULE Reports -------------------------------
(***************************************************************************)
(* What the reports say of the stock (backend/apps/reports/selectors.py)   *)
(* and what the nightly reconciliation with Pastel finds                   *)
(* (backend/apps/pastel), as functions of the tables that StockLedger's    *)
(* transactions write: reports read StockBalance, StockMovement and the    *)
(* documents, each committed by then, and write nothing.                   *)
(*                                                                         *)
(* A StockBalance row is the pair <<product, location>>.  The windows of   *)
(* dates that reports take hold everything that happened; values are       *)
(* quantities at a unit cost of 1.                                         *)
(***************************************************************************)
EXTENDS StockLedger, FiniteSetsExt

CONSTANTS
  KindOf,        \* the service that posts each document
  Code,          \* Product.code, unique
  PastelCode     \* Product.pastel_code; None if it is blank

Product == {k[1] : k \in Key}
Location == {k[2] : k \in Key}

Kind == {"issue", "transfer", "wastage", "sale", "grn", "take"}

(* OutAndIn: what leaves by a line of odd number enters by the next line.  *)
Counterpart(i) == IF i % 2 = 1 THEN i + 1 ELSE i - 1

ASSUME ReportConstants ==
  /\ IsFiniteSet(Key) /\ IsFiniteSet(Doc)
  /\ \A k \in Key : k = <<k[1], k[2]>>
  /\ KindOf \in [Doc -> Kind]
  /\ \A d \in Doc : KindOf[d] = "grn" => d \in MadeToPost
  /\ \A d \in Doc : KindOf[d] \in {"issue", "transfer"} =>
       \A i \in DOMAIN LinesOf[d] :
         LET line == LinesOf[d][i]
             other == LinesOf[d][Counterpart(i)]
         IN  /\ Counterpart(i) \in DOMAIN LinesOf[d]
             /\ other.key[1] = line.key[1] /\ other.delta = -line.delta
  /\ DOMAIN Code = Product /\ DOMAIN PastelCode = Product
  /\ \A p, q \in Product : Code[p] = Code[q] => p = q
  /\ None \notin {Code[p] : p \in Product}

(* StockMovement.movement_type of a document's line: all the types that a  *)
(* service posts with.                                                     *)
Type == {"ISSUE_OUT", "ISSUE_IN", "TRANSFER_OUT", "TRANSFER_IN", "WASTAGE",
         "SALE_DEDUCTION", "GRN_RECEIPT", "STOCKTAKE_ADJ"}
MovementType(d, line) ==
  CASE KindOf[d] = "issue" -> IF line.delta < 0 THEN "ISSUE_OUT" ELSE "ISSUE_IN"
    [] KindOf[d] = "transfer" -> IF line.delta < 0 THEN "TRANSFER_OUT" ELSE "TRANSFER_IN"
    [] KindOf[d] = "wastage" -> "WASTAGE"
    [] KindOf[d] = "sale" -> "SALE_DEDUCTION"
    [] KindOf[d] = "grn" -> "GRN_RECEIPT"
    [] KindOf[d] = "take" -> "STOCKTAKE_ADJ"

(* The ledger: a document's lines are in it once for every posting.        *)
AllLines == UNION {{d} \X DOMAIN LinesOf[d] : d \in Doc}
LineAt(r) == LinesOf[r[1]][r[2]]
LinesOfType == [type \in Type |-> {r \in AllLines : MovementType(r[1], LineAt(r)) = type}]
LinesFor ==
  [type \in Type |-> [p \in Product |-> {r \in LinesOfType[type] : LineAt(r).key[1] = p}]]

Movements == [r \in AllLines |-> postings[r[1]]]
QtyDelta == [r \in AllLines |-> Stored(LineAt(r).delta)]

Taken(type, p) ==
  SumFunctionOnSet([r \in AllLines |-> -(Movements[r] * QtyDelta[r])],
                   LinesFor[type][p])
-----------------------------------------------------------------------------
(* The products sold, and how much of each. *)
Movers ==
  [p \in {LineAt(r).key[1] : r \in {q \in LinesOfType["SALE_DEDUCTION"] : postings[q[1]] > 0}}
     |-> Taken("SALE_DEDUCTION", p)]
Sold(p) == IF p \in DOMAIN Movers THEN Movers[p] ELSE 0

(* Sales, wastage and stock-take adjustments of a product: its row of the  *)
(* leakage report, zero if it has none.                                    *)
ActualQty(p) ==
  Taken("SALE_DEDUCTION", p) + Taken("WASTAGE", p) + Taken("STOCKTAKE_ADJ", p)

(* ISSUE_IN rows are counted per destination. *)
IssuesByDestination ==
  [l \in Location |->
     SumFunctionOnSet(Movements, {r \in LinesOfType["ISSUE_IN"] : LineAt(r).key[2] = l})]

(* Other pages add up the lines of the POSTED documents themselves:        *)
(* GRNLine in the GRN register, WastageEntry in the wastage report and     *)
(* StockTakeLine.variance on the stock take's page.                        *)
Posted == {d \in Doc : status[d] = "POSTED"}
Recorded(documents, type, p) ==
  SumFunctionOnSet(QtyDelta,
                   {r \in LinesFor[type][p] : r[1] \in documents})

GrnRegister == [p \in Product |-> Recorded(Posted, "GRN_RECEIPT", p)]
WastageReportAll ==  \* mutant: entries of any status
  [p \in Product |-> -Recorded(Doc, "WASTAGE", p)]
WastageReport == [p \in Product |-> -Recorded(Posted, "WASTAGE", p)]
Variances == [p \in Product |-> Recorded(Posted, "STOCKTAKE_ADJ", p)]
-----------------------------------------------------------------------------
(* PastelStub.get_on_hand: the product is looked up by its Pastel code,    *)
(* and the answer is its balance here.                                     *)
PastelOnHand(code, location) ==
  LET known == {p \in Product : PastelCode[p] = code}
  IN  IF known = {} THEN 0
      ELSE LET p == CHOOSE q \in known : TRUE
           IN  IF <<p, location>> \in Key THEN qtyOnHand[<<p, location>>] ELSE 0

(* run_reconciliation_now asks by the product's own code if there is no    *)
(* other.                                                                  *)
Divergence(k) ==
  qtyOnHand[k]
    - PastelOnHand(IF PastelCode[k[1]] = None THEN Code[k[1]] ELSE PastelCode[k[1]], k[2])

(* One line per balance; the page shows the run's divergent ones.          *)
ReconciliationLines ==
  {[key |-> k, ourOnHand |-> qtyOnHand[k], divergence |-> Divergence(k)] : k \in Key}

DivergentLines == {l \in ReconciliationLines : l.divergence # 0}
-----------------------------------------------------------------------------
RowsOf(p) == {k \in Key : k[1] = p}
SumOf(f, p) == SumFunctionOnSet(f, RowsOf(p))

Twice(kinds) == \E d \in overlapped : KindOf[d] \in kinds

(* StockBalance: what is on hand of a product, over all locations, is what *)
(* there was and what the GRNs brought (GRNLine), less what the leakage    *)
(* report says is gone (StockMovement), but for halves of a thousandth.    *)
(* Issues and transfers only move it.                                      *)
OnHandIsExplained(p) ==
  Within(SumOf(qtyOnHand, p) - (SumOf(Opening, p) + GrnRegister[p] - ActualQty(p)),
         SumOf(halved, p))

(* What is gone beyond the movers (StockMovement) is what the wastage      *)
(* report (WastageEntry) shows and the stock takes (StockTakeLine) missed. *)
GapIsExplained(p) == ActualQty(p) - Sold(p) = WastageReport[p] - Variances[p]

Issued(l) ==
  {r \in AllLines : /\ KindOf[r[1]] = "issue" /\ status[r[1]] = "POSTED"
                    /\ LineAt(r).key[2] = l /\ LineAt(r).delta >= 0}

Unknown(p) ==
  PastelCode[p] = None \/ \E q \in Product \ {p} : PastelCode[q] = PastelCode[p]

(* Reports made from different tables tell one story of the stock,         *)
(* whatever failed or crashed while the documents of any kind were posted: *)
(* the two equations above; a destination was issued to as often as its    *)
(* POSTED notes have lines; and a balance that diverges is of a product    *)
(* that Pastel cannot tell by its code.  A wastage entry, stock take or    *)
(* issue that two requests posted at once is in the ledger twice and in    *)
(* its own table once, and the reports that set the two against each other *)
(* then differ (selectors.py:202-340, 412-535).                            *)
ReportsAgree ==
  /\ \A p \in Product : OnHandIsExplained(p)
  /\ Twice({"wastage", "take"}) \/ \A p \in Product : GapIsExplained(p)
  /\ Twice({"issue"})
       \/ \A l \in Location : IssuesByDestination[l] = Cardinality(Issued(l))
  /\ \A l \in DivergentLines : Unknown(l.key[1])
=============================================================================
