----------------------------- MODULE StockTake -----------------------------
(***************************************************************************)
(* Counting a location: the stock-take screen (WastagePage.tsx), its views *)
(* and open_stock_take and post_stock_take (backend/apps/inventory), with  *)
(* sales, wastage and losses going on meanwhile, and the leakage report.   *)
(*                                                                         *)
(* A take belongs to the browser tab that opened it.  The tab posts it, or *)
(* a manager's approval does; both read the take, its lines and the ledger *)
(* before post_movements locks the balances, and their transaction becomes *)
(* visible when it commits.  One location, a unit cost of 1.               *)
(*                                                                         *)
(* The shelf itself is part of the model: physical is what a count finds.  *)
(***************************************************************************)
EXTENDS Integers, FiniteSetsExt

CONSTANTS
  Product,
  Take,
  Stock,     \* [Product -> Nat], on the shelf and on record at the beginning
  Limit,     \* ThresholdConfig.amount of scope ADJUSTMENT
  None,      \* no quantity: NULL, or a box of the screen nobody touched
  Blank,     \* the quantity saved for a box nobody touched
  MaxUsed,   \* bound: units sold or thrown away, per product
  MaxLost,   \* bound: units that disappear, per product
  MaxOpen,   \* bound: [Take -> Nat], undecided approvals of a take
  Recounted  \* bound: the takes whose filled boxes are counted again

ASSUME TakeConstants ==
  /\ Stock \in [Product -> Nat]
  /\ {Limit, MaxUsed, MaxLost} \subseteq Nat /\ MaxOpen \in [Take -> Nat]
  /\ Recounted \subseteq Take
  /\ None # Blank

VARIABLES
  physical,    \* units on the shelf
  lost,        \* units that disappeared from it
  onHand,      \* StockBalance.qty_on_hand
  moved,       \* per movement type, the sum of StockMovement.qty_delta
  status,      \* StockTake.status; ABSENT before it is opened
  systemQty,   \* StockTakeLine.system_qty
  countedQty,  \* StockTakeLine.counted_qty
  rows,        \* how often the take's adjustment is in the ledger
  open,        \* how many approvals of the take are undecided
  typed,       \* the boxes of the screen
  shownPosted, \* the take is POSTED as the screen fetched it
  pc,          \* where the tab's and the manager's posting of a take are
  seen,        \* the status they loaded
  sheet,       \* the counted quantities they read
  found        \* they found rows of the take in the ledger

shelf == <<physical, lost>>
ledger == <<onHand, moved>>
lines == <<systemQty, countedQty>>
takes == <<status, lines, rows, open>>
screens == <<typed, shownPosted>>
postings == <<pc, seen, sheet, found>>
vars == <<shelf, ledger, takes, screens, postings>>

Actor == {"tab", "manager"}
Usage == {"SALE_DEDUCTION", "WASTAGE"}
Types == Usage \cup {"STOCKTAKE_ADJ"}

(* A count, with what was on record when it was made (history). *)
Counts == [qty : Nat, onHand : Int, lost : Nat, adjusted : Int]
Quantity(c) == IF c = Blank THEN 0 ELSE c.qty
IsCount(c) == c \notin {None, Blank}

IsSheet(s) == DOMAIN s = Product /\ \A p \in Product : IsCount(s[p]) => s[p] \in Counts

TypeOK ==
  /\ physical \in [Product -> Nat] /\ lost \in [Product -> Nat]
  /\ onHand \in [Product -> Int]
  /\ moved \in [Types -> [Product -> Int]]
  /\ \A p \in Product :
       onHand[p] = Stock[p] + moved["SALE_DEDUCTION"][p] + moved["WASTAGE"][p]
                            + moved["STOCKTAKE_ADJ"][p]
  /\ status \in [Take -> {"ABSENT", "IN_PROGRESS", "PENDING_APPROVAL", "POSTED"}]
  /\ systemQty \in [Take -> [Product -> Int]]
  /\ \A k \in Take :
       /\ IsSheet(countedQty[k]) /\ IsSheet(typed[k])
       /\ \A a \in Actor : IsSheet(sheet[k][a])
  /\ rows \in [Take -> Nat] /\ open \in [Take -> Nat]
  /\ shownPosted \in [Take -> BOOLEAN]
  /\ pc \in [Take -> [Actor -> {"idle", "loaded", "read", "posting"}]]
  /\ found \in [Take -> [Actor -> BOOLEAN]]

Empty == [p \in Product |-> None]

Init ==
  /\ physical = Stock /\ lost = [p \in Product |-> 0]
  /\ onHand = Stock
  /\ moved = [t \in Types |-> [p \in Product |-> 0]]
  /\ status = [k \in Take |-> "ABSENT"]
  /\ systemQty = [k \in Take |-> [p \in Product |-> 0]]
  /\ countedQty = [k \in Take |-> Empty] /\ typed = [k \in Take |-> Empty]
  /\ rows = [k \in Take |-> 0] /\ open = [k \in Take |-> 0]
  /\ shownPosted = [k \in Take |-> FALSE]
  /\ pc = [k \in Take |-> [a \in Actor |-> "idle"]]
  /\ seen = [k \in Take |-> [a \in Actor |-> "ABSENT"]]
  /\ sheet = [k \in Take |-> [a \in Actor |-> Empty]]
  /\ found = [k \in Take |-> [a \in Actor |-> FALSE]]
-----------------------------------------------------------------------------
(* Sales and logged wastage leave the shelf and the books; what is lost    *)
(* leaves the shelf only.                                                  *)
Use(p, t) ==
  /\ physical[p] > 0
  /\ -(moved["SALE_DEDUCTION"][p] + moved["WASTAGE"][p]) < MaxUsed
  /\ physical' = [physical EXCEPT ![p] = @ - 1]
  /\ onHand' = [onHand EXCEPT ![p] = @ - 1]
  /\ moved' = [moved EXCEPT ![t][p] = @ - 1]
  /\ UNCHANGED <<lost, takes, screens, postings>>

Lose(p) ==
  /\ physical[p] > 0 /\ lost[p] < MaxLost
  /\ physical' = [physical EXCEPT ![p] = @ - 1]
  /\ lost' = [lost EXCEPT ![p] = @ + 1]
  /\ UNCHANGED <<ledger, takes, screens, postings>>
-----------------------------------------------------------------------------
(* open_stock_take freezes the balances of every active product. *)
Open(k) ==
  /\ status[k] = "ABSENT"
  /\ status' = [status EXCEPT ![k] = "IN_PROGRESS"]
  /\ systemQty' = [systemQty EXCEPT ![k] = onHand]
  /\ UNCHANGED <<shelf, ledger, countedQty, rows, open, screens, postings>>

(* Somebody counts a product and types what is there into its box, which   *)
(* is open until the screen knows the take as POSTED.                      *)
Count(k, p) ==
  /\ status[k] # "ABSENT" /\ ~shownPosted[k]
  /\ typed[k][p] # None => k \in Recounted
  /\ typed' = [typed EXCEPT ![k][p] =
                 [qty |-> physical[p], onHand |-> onHand[p], lost |-> lost[p],
                  adjusted |-> moved["STOCKTAKE_ADJ"][p]]]
  /\ UNCHANGED <<shelf, ledger, takes, shownPosted, postings>>

(* Save counts sends every line, 0 for a box nobody touched, and the view  *)
(* writes them whatever the status of the take.                            *)
SaveCounts(k) ==
  /\ status[k] # "ABSENT" /\ ~shownPosted[k]
  /\ countedQty' = [countedQty EXCEPT ![k] =
       [p \in Product |-> IF typed[k][p] = None THEN Blank ELSE typed[k][p]]]
  /\ UNCHANGED <<shelf, ledger, status, systemQty, rows, open, screens, postings>>

Refresh(k) ==
  /\ status[k] # "ABSENT"
  /\ shownPosted' = [shownPosted EXCEPT ![k] = status[k] = "POSTED"]
  /\ UNCHANGED <<shelf, ledger, takes, typed, postings>>
-----------------------------------------------------------------------------
(* StockTakeLine.variance, the lines that have one, and what they are      *)
(* worth; abs, since surplus and shortage both count.                      *)
VarianceNow(k, s, p) == Quantity(s[p]) - onHand[p]  \* mutant: not the frozen quantity
Variance(k, s, p) == Quantity(s[p]) - systemQty[k][p]
Variant(k, s) == {p \in Product : s[p] # None /\ Variance(k, s, p) # 0}
Magnitude(x) == IF x < 0 THEN -x ELSE x
Value(k, s) == MapThenSumSet(LAMBDA p : Magnitude(Variance(k, s, p)), Variant(k, s))

Finish(k, a) ==
  /\ pc' = [pc EXCEPT ![k][a] = "idle"]
  /\ seen' = [seen EXCEPT ![k][a] = "ABSENT"]
  /\ sheet' = [sheet EXCEPT ![k][a] = Empty]
  /\ found' = [found EXCEPT ![k][a] = FALSE]

(* An approval that led to a post is decided with it. *)
Decide(k, a) ==
  open' = [open EXCEPT ![k] = IF a = "tab" THEN @ ELSE @ - 1]

(* Post stock-take: the button is there unless the screen knows the take   *)
(* as POSTED or a post is under way.  The manager decides one approval at  *)
(* a time.                                                                 *)
LoadTake(k, a) ==
  /\ pc[k][a] = "idle" /\ status[k] # "ABSENT"
  /\ IF a = "tab" THEN ~shownPosted[k]
     ELSE open[k] > 0 /\ \A q \in Take : pc[q]["manager"] = "idle"
  /\ pc' = [pc EXCEPT ![k][a] = "loaded"]
  /\ seen' = [seen EXCEPT ![k][a] = status[k]]
  /\ UNCHANGED <<shelf, ledger, takes, screens, sheet, found>>

ReturnPosted(k, a) ==
  /\ pc[k][a] = "loaded" /\ seen[k][a] = "POSTED"
  /\ Decide(k, a) /\ Finish(k, a)
  /\ UNCHANGED <<shelf, ledger, status, lines, rows, screens>>

ReadLines(k, a) ==
  /\ pc[k][a] = "loaded" /\ seen[k][a] # "POSTED"
  /\ pc' = [pc EXCEPT ![k][a] = "read"]
  /\ sheet' = [sheet EXCEPT ![k][a] = countedQty[k]]
  /\ UNCHANGED <<shelf, ledger, takes, screens, seen, found>>

(* Nothing varies: the take is POSTED without an adjustment. *)
PostNothing(k, a) ==
  /\ pc[k][a] = "read" /\ Variant(k, sheet[k][a]) = {}
  /\ status' = [status EXCEPT ![k] = "POSTED"]
  /\ Decide(k, a) /\ Finish(k, a)
  /\ UNCHANGED <<shelf, ledger, lines, rows, screens>>

RequiresApproval(k, a) == a = "tab" /\ Value(k, sheet[k][a]) > Limit

Submit(k) ==
  /\ pc[k]["tab"] = "read" /\ Variant(k, sheet[k]["tab"]) # {}
  /\ RequiresApproval(k, "tab") /\ open[k] < MaxOpen[k]
  /\ status' = [status EXCEPT ![k] = "PENDING_APPROVAL"]
  /\ open' = [open EXCEPT ![k] = @ + 1]
  /\ Finish(k, "tab")
  /\ UNCHANGED <<shelf, ledger, lines, rows, screens>>

(* post_movements looks for rows of the take before it locks anything. *)
LookForRows(k, a) ==
  /\ pc[k][a] = "read" /\ Variant(k, sheet[k][a]) # {}
  /\ ~RequiresApproval(k, a)
  /\ pc' = [pc EXCEPT ![k][a] = "posting"]
  /\ found' = [found EXCEPT ![k][a] = rows[k] > 0]
  /\ UNCHANGED <<shelf, ledger, takes, screens, seen, sheet>>

PostUnrecorded(k, a) ==  \* mutant: the balance changes without a movement
  /\ pc[k][a] = "posting"
  /\ onHand' = [p \in Product |-> onHand[p] + Variance(k, sheet[k][a], p)]
  /\ rows' = [rows EXCEPT ![k] = IF found[k][a] THEN @ ELSE @ + 1]
  /\ status' = [status EXCEPT ![k] = "POSTED"]
  /\ Decide(k, a) /\ Finish(k, a)
  /\ UNCHANGED <<shelf, moved, lines, screens>>

PostAdjustment(k, a) ==
  /\ pc[k][a] = "posting"
  /\ LET delta(p) == IF found[k][a] \/ p \notin Variant(k, sheet[k][a]) THEN 0
                     ELSE Variance(k, sheet[k][a], p)
     IN  /\ onHand' = [p \in Product |-> onHand[p] + delta(p)]
         /\ moved' = [moved EXCEPT !["STOCKTAKE_ADJ"] = [p \in Product |-> @[p] + delta(p)]]
  /\ rows' = [rows EXCEPT ![k] = IF found[k][a] THEN @ ELSE @ + 1]
  /\ status' = [status EXCEPT ![k] = "POSTED"]
  /\ Decide(k, a) /\ Finish(k, a)
  /\ UNCHANGED <<shelf, lines, screens>>

(* A rejection leaves the take as it is: it has no callback for one. *)
Reject(k) ==
  /\ open[k] > 0 /\ pc[k]["manager"] = "idle"
  /\ open' = [open EXCEPT ![k] = @ - 1]
  /\ UNCHANGED <<shelf, ledger, status, lines, rows, screens, postings>>

(* A failure rolls the transaction back. *)
Fail(k, a) ==
  /\ pc[k][a] # "idle"
  /\ Finish(k, a)
  /\ UNCHANGED <<shelf, ledger, takes, screens>>

Posting(k, a) ==
  \/ LoadTake(k, a) \/ ReturnPosted(k, a) \/ ReadLines(k, a) \/ PostNothing(k, a)
  \/ LookForRows(k, a) \/ PostAdjustment(k, a) \/ Fail(k, a)

Next ==
  \/ \E p \in Product : Lose(p) \/ \E t \in Usage : Use(p, t)
  \/ \E k \in Take :
       \/ Open(k) \/ SaveCounts(k) \/ Refresh(k) \/ Submit(k) \/ Reject(k)
       \/ \E p \in Product : Count(k, p)
       \/ \E a \in Actor : Posting(k, a)

Spec == Init /\ [][Next]_vars
-----------------------------------------------------------------------------
(* The leakage report (reports/selectors.py): consumption by sales, and by *)
(* everything that takes stock away; both as positive quantities.          *)
Theoretical(p) == -moved["SALE_DEDUCTION"][p]
ActualUnwasted(p) ==  \* mutant: WASTAGE is not among the types
  -(moved["SALE_DEDUCTION"][p] + moved["STOCKTAKE_ADJ"][p])
Actual(p) ==
  -(moved["SALE_DEDUCTION"][p] + moved["WASTAGE"][p] + moved["STOCKTAKE_ADJ"][p])
Gap(p) == Actual(p) - Theoretical(p)

(* Posting a take makes the record of a counted product agree with its     *)
(* shelf, although sales and wastage went on between the count and the     *)
(* post, provided the balance had not moved between the opening of the     *)
(* take and the count, nothing was lost since, and no other adjustment of  *)
(* the product came in between (post_stock_take posts the difference to    *)
(* the frozen quantity and never sets the balance).                        *)
Undisturbed(k, c, p) ==
  /\ IsCount(c) /\ c.onHand = systemQty[k][p] /\ c.lost = lost[p]
  /\ c.adjusted = moved["STOCKTAKE_ADJ"][p]

CountCorrectsBalance ==
  [][\A k \in Take, a \in Actor, p \in Product :
       (/\ PostNothing(k, a) \/ PostAdjustment(k, a)
        /\ ~found[k][a] /\ Undisturbed(k, sheet[k][a][p], p))
       => onHand'[p] = physical'[p]]_vars

(* Where the books agree with the shelf, the gap the leakage report shows  *)
(* is what was logged as wastage and what was lost, no matter how many     *)
(* takes, and repeated posts of one, led there.                            *)
LeakageTellsLoss ==
  \A p \in Product :
    onHand[p] = physical[p] => Gap(p) = lost[p] - moved["WASTAGE"][p]
=============================================================================
