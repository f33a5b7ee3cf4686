--------------------------- MODULE StockDocuments ---------------------------
(***************************************************************************)
(* The MovementLines each stock service builds for post_movements.  A      *)
(* document is a record of the fields its service reads; a StockBalance    *)
(* row is the pair <<product, location>>.  The quantities of documents are *)
(* columns of three decimals, in thousandths; those of MovementLines are   *)
(* in ten-thousandths.                                                     *)
(***************************************************************************)
EXTENDS Integers, Sequences, SequencesExt

MovementLine(product, location, qty) ==
  [key |-> <<product, location>>, delta |-> 10 * qty]

(* post_issue_note and post_transfer: each line leaves the source and      *)
(* enters the destination, one after the other.                            *)
OutAndIn(document) ==
  FlattenSeq([i \in DOMAIN document.lines |->
    LET l == document.lines[i]
    IN  << MovementLine(l.product, document.source, -l.qty),
           MovementLine(l.product, document.destination, l.qty) >>])

IssueLines(note) == OutAndIn(note)
TransferLines(transfer) == OutAndIn(transfer)

(* post_wastage_entry: one line leaves the entry's location. *)
WastageLines(entry) ==
  << MovementLine(entry.product, entry.location, -entry.qty) >>

(* post_stock_take: the counted lines that vary, by how much they vary     *)
(* from the quantity frozen when the count was opened.                     *)
Variance(line) == line.counted_qty - line.system_qty
StockTakeLines(take) ==
  LET variant == SelectSeq(take.lines, LAMBDA l : l.counted /\ Variance(l) # 0)
  IN  [i \in DOMAIN variant |->
        MovementLine(variant[i].product, take.location, Variance(variant[i]))]

(* post_grn: one line enters the Restaurant Stores for every GRNLine. *)
GRNLines(grn) ==
  [i \in DOMAIN grn.lines |->
    MovementLine(grn.lines[i].product, grn.stores, grn.lines[i].qty_received)]
=============================================================================
