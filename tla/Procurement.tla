----------------------------- MODULE Procurement -----------------------------
(***************************************************************************)
(* From an approved budget to a matched invoice (backend/apps/procurement) *)
(* with the receiving screen that submits Goods Received Notes.            *)
(*                                                                         *)
(* Each request is one transaction under READ COMMITTED.  What a GRN adds  *)
(* becomes visible when it commits; until then it holds the StockBalance   *)
(* rows of its products.  It locks the PO lines as well, but only a GRN    *)
(* that holds the product of a line touches the line, so those locks never *)
(* wait.  A delivery brings one unit of each of its lines.                 *)
(***************************************************************************)
EXTENDS Integers, Sequences, FiniteSets, FiniteSetsExt, SequencesExt

CONSTANTS
  PO,           \* purchase orders, raised against one budget
  POLine,       \* their lines
  POOf,         \* [POLine -> PO]
  Product,
  ProductOf,    \* [POLine -> Product]; a PO has a product once
  Ordered,      \* [POLine -> Nat], qty at a unit price of 1
  Delivery,     \* deliveries, each entered as the lines of one GRN
  LinesOf,      \* [Delivery -> Seq(POLine)], in the order they are entered
  Worth,        \* [Delivery -> Nat], qty_received * unit_cost of all lines
  Estimate,     \* [Product -> Nat], qty * est_unit_cost of the budget's lines
  Invoice,      \* supplier and invoice_ref, which are unique together
  Amount,       \* amounts of invoices
  Request,      \* requests that may run at the same time
  None,
  MaxGRNs,      \* bound: GRNs for one delivery, under way or POSTED
  MaxSends,     \* bound: sends of one PO that are e-mailed or logged
  MaxSold       \* bound: units that sales take from the Stores

ASSUME ProcurementConstants ==
  /\ POOf \in [POLine -> PO] /\ ProductOf \in [POLine -> Product]
  /\ \A l, m \in POLine : POOf[l] = POOf[m] /\ ProductOf[l] = ProductOf[m] => l = m
  /\ Ordered \in [POLine -> Nat \ {0}] /\ Estimate \in [Product -> Nat]
  /\ LinesOf \in [Delivery -> Seq(POLine)] /\ Worth \in [Delivery -> Nat]
  /\ \A d \in Delivery : /\ LinesOf[d] # <<>> /\ IsInjective(LinesOf[d])
                         /\ \A l, m \in ToSet(LinesOf[d]) : POOf[l] = POOf[m]
  /\ None \notin Request \cup Delivery \cup PO
  /\ \A S \in {PO, POLine, Delivery, Request} : IsFiniteSet(S)
  /\ Amount \subseteq Nat /\ {MaxGRNs, MaxSends, MaxSold} \subseteq Nat

VARIABLES
  budget,     \* PurchaseBudget.status; ABSENT before it is created
  poStatus,   \* PurchaseOrder.status; ABSENT before create_po
  fulfilled,  \* POLine.fulfilled_qty
  onHand,     \* StockBalance.qty_on_hand in the Stores
  grns,       \* POSTED GRNs a delivery was entered as
  sendLogs,   \* POSendLogs of a PO
  withEmail,  \* the POs whose supplier has an e-mail address
  emails,     \* e-mails the supplier of a PO got
  billed,     \* InvoiceMatch.invoice.amount
  billedPO,   \* InvoiceMatch.po
  match,      \* InvoiceMatch.status; NONE before the invoice is entered
  rowLock,    \* the request that holds a product's balance row
  pc,         \* where a request is
  po,         \* the PO it loaded
  delivery,   \* the delivery it enters
  next,       \* the GRN line it posts next
  newStatus,  \* the status it will give the PO
  awaited,    \* the request whose answer the form of a delivery awaits
  entered,    \* deliveries whose form got a 201 and closed
  sold,       \* history: units sales took from a product
  unsure,     \* history: deliveries whose form lost a connection
  raced,      \* history: POs read for their status while another GRN ran
  resent,     \* history: POs sent after goods had been received
  cut          \* history: POs whose sending failed after the e-mail was out

purchase == <<poStatus, fulfilled, sendLogs>>
receipts == <<onHand, grns>>
documents == <<budget, purchase, receipts>>
mail == <<withEmail, emails>>
invoices == <<billed, billedPO, match>>
requests == <<rowLock, pc, po, delivery, next, newStatus>>
form == <<awaited, entered>>
history == <<sold, unsure, raced, resent, cut>>
vars == <<documents, mail, invoices, requests, form, history>>

POStatus == {"ABSENT", "CREATED", "SENT", "MANUAL_CONTACT_REQUIRED", "PARTIALLY_RECEIVED", "RECEIVED"}
MatchStatus == {"NONE", "MATCHED", "DISCREPANCY", "DISPUTED", "ESCALATED", "RESOLVED"}

(* Every variable has the type its column or local has in the code, and    *)
(* only a GRN that is being posted holds rows, those of its lines so far.  *)
TypeOK ==
  /\ budget \in {"ABSENT", "DRAFT", "SUBMITTED", "APPROVED", "REJECTED"}
  /\ poStatus \in [PO -> POStatus]
  /\ fulfilled \in [POLine -> Nat]
  /\ onHand \in [Product -> Int]
  /\ grns \in [Delivery -> Nat]
  /\ sendLogs \in [PO -> Nat]
  /\ withEmail \in SUBSET PO
  /\ emails \in [PO -> Nat]
  /\ billed \in [Invoice -> Nat] /\ billedPO \in [Invoice -> PO \cup {None}]
  /\ match \in [Invoice -> MatchStatus]
  /\ rowLock \in [Product -> Request \cup {None}]
  /\ pc \in [Request -> {"idle", "sending", "emailed", "receiving", "read"}]
  /\ po \in [Request -> PO \cup {None}]
  /\ delivery \in [Request -> Delivery \cup {None}]
  /\ next \in [Request -> Nat \ {0}]
  /\ newStatus \in [Request -> POStatus]
  /\ \A r \in Request :
       /\ pc[r] = "idle" <=> po[r] = None
       /\ pc[r] \in {"receiving", "read"} <=> delivery[r] # None
       /\ {p \in Product : rowLock[p] = r} =
            IF delivery[r] = None THEN {}
            ELSE {ProductOf[LinesOf[delivery[r]][i]] : i \in 1..(next[r] - 1)}
  /\ awaited \in [Delivery -> Request \cup {None}]
  /\ entered \in SUBSET Delivery /\ unsure \in SUBSET Delivery
  /\ sold \in [Product -> Nat]
  /\ raced \in SUBSET PO /\ resent \in SUBSET PO /\ cut \in SUBSET PO

Init ==
  /\ budget = "ABSENT"
  /\ poStatus = [o \in PO |-> "ABSENT"]
  /\ fulfilled = [l \in POLine |-> 0]
  /\ onHand = [p \in Product |-> 0]
  /\ grns = [d \in Delivery |-> 0]
  /\ sendLogs = [o \in PO |-> 0]
  /\ withEmail \in SUBSET PO
  /\ emails = [o \in PO |-> 0]
  /\ billed = [i \in Invoice |-> 0]
  /\ billedPO = [i \in Invoice |-> None]
  /\ match = [i \in Invoice |-> "NONE"]
  /\ rowLock = [p \in Product |-> None]
  /\ pc = [r \in Request |-> "idle"]
  /\ po = [r \in Request |-> None]
  /\ delivery = [r \in Request |-> None]
  /\ next = [r \in Request |-> 1]
  /\ newStatus = [r \in Request |-> "ABSENT"]
  /\ awaited = [d \in Delivery |-> None]
  /\ entered = {}
  /\ sold = [p \in Product |-> 0]
  /\ unsure = {} /\ raced = {} /\ resent = {} /\ cut = {}

-----------------------------------------------------------------------------
POOfDelivery(d) == POOf[LinesOf[d][1]]
LinesOfPO(o) == {l \in POLine : POOf[l] = o}
DeliveriesOf(o) == {d \in Delivery : POOfDelivery(d) = o}
POValue(o) == MapThenSumSet(LAMBDA l : Ordered[l], LinesOfPO(o))
GRNValue(o) == MapThenSumSet(LAMBDA d : grns[d] * Worth[d], DeliveriesOf(o))

(* A request ends and, with its transaction, its locks. *)
End(r) ==
  /\ rowLock' = [p \in Product |-> IF rowLock[p] = r THEN None ELSE rowLock[p]]
  /\ pc' = [pc EXCEPT ![r] = "idle"]
  /\ po' = [po EXCEPT ![r] = None]
  /\ delivery' = [delivery EXCEPT ![r] = None]
  /\ next' = [next EXCEPT ![r] = 1]
  /\ newStatus' = [newStatus EXCEPT ![r] = "ABSENT"]

(* A budget is created as a DRAFT and submitted; a manager decides         *)
(* (module Approvals).                                                     *)
CreateBudget ==
  /\ budget = "ABSENT"
  /\ budget' = "DRAFT"
  /\ UNCHANGED <<poStatus, fulfilled, onHand, grns, sendLogs, mail, invoices, requests, form, history>>

SubmitBudget ==
  /\ budget = "DRAFT"
  /\ budget' = "SUBMITTED"
  /\ UNCHANGED <<poStatus, fulfilled, onHand, grns, sendLogs, mail, invoices, requests, form, history>>

(* BudgetSubmitView: an unknown budget is a 404. *)
BudgetSubmit == budget # "ABSENT" /\ SubmitBudget

BudgetDecided(decision) ==
  /\ budget = "SUBMITTED"
  /\ budget' = decision
  /\ UNCHANGED <<poStatus, fulfilled, onHand, grns, sendLogs, mail, invoices, requests, form, history>>

(* create_po asks whether the budget is approved. *)
CreatePO(o) ==
  /\ budget = "APPROVED"
  /\ poStatus' = [poStatus EXCEPT ![o] = "CREATED"]
  /\ UNCHANGED <<budget, fulfilled, onHand, grns, sendLogs, mail, invoices, requests, form, history>>

(* PurchaseOrderCreateView, for a budget that exists; the lines are those  *)
(* of POLine.                                                              *)
PurchaseOrderCreate(o) == poStatus[o] = "ABSENT" /\ budget # "ABSENT" /\ CreatePO(o)

(* Sales post with allow_negative: they may take more than there is.       *)
Sell(p, qty) ==
  /\ rowLock[p] = None
  /\ MapThenSumSet(LAMBDA q : sold[q], Product) + qty <= MaxSold
  /\ onHand' = [onHand EXCEPT ![p] = @ - qty]
  /\ sold' = [sold EXCEPT ![p] = @ + qty]
  /\ UNCHANGED <<budget, poStatus, fulfilled, grns, sendLogs, mail, invoices, requests, form,
                 unsure, raced, resent, cut>>

-----------------------------------------------------------------------------
(* send_po may be asked for at any time: no status is looked at. *)
StartSend(r, o) ==
  /\ pc[r] = "idle"
  /\ poStatus[o] # "ABSENT"
  /\ pc' = [pc EXCEPT ![r] = "sending"]
  /\ po' = [po EXCEPT ![r] = o]
  /\ UNCHANGED <<documents, mail, invoices, rowLock, delivery, next, newStatus, form, history>>

(* The e-mail leaves before the transaction commits. *)
Email(r) ==
  /\ pc[r] = "sending"
  /\ po[r] \in withEmail
  /\ emails[po[r]] < MaxSends
  /\ emails' = [emails EXCEPT ![po[r]] = @ + 1]
  /\ pc' = [pc EXCEPT ![r] = "emailed"]
  /\ UNCHANGED <<documents, withEmail, invoices, rowLock, po, delivery, next, newStatus, form, history>>

(* The status is overwritten, the POSendLog written, COMMIT. *)
SaveSendUnlogged(r) ==  \* mutant: no POSendLog for an e-mail
  /\ \/ pc[r] = "emailed"
     \/ pc[r] = "sending" /\ po[r] \notin withEmail
  /\ poStatus' = [poStatus EXCEPT ![po[r]] =
                    IF pc[r] = "emailed" THEN "SENT" ELSE "MANUAL_CONTACT_REQUIRED"]
  /\ sendLogs' = IF pc[r] = "emailed" THEN sendLogs ELSE [sendLogs EXCEPT ![po[r]] = @ + 1]
  /\ resent' = IF \E d \in DeliveriesOf(po[r]) : grns[d] > 0 THEN resent \cup {po[r]} ELSE resent
  /\ End(r)
  /\ UNCHANGED <<budget, fulfilled, onHand, grns, mail, invoices, form, sold, unsure, raced, cut>>
SaveSend(r) ==
  /\ \/ pc[r] = "emailed"
     \/ pc[r] = "sending" /\ po[r] \notin withEmail /\ sendLogs[po[r]] < MaxSends
  /\ poStatus' = [poStatus EXCEPT ![po[r]] =
                    IF pc[r] = "emailed" THEN "SENT" ELSE "MANUAL_CONTACT_REQUIRED"]
  /\ sendLogs' = [sendLogs EXCEPT ![po[r]] = @ + 1]
  /\ resent' = IF \E d \in DeliveriesOf(po[r]) : grns[d] > 0 THEN resent \cup {po[r]} ELSE resent
  /\ End(r)
  /\ UNCHANGED <<budget, fulfilled, onHand, grns, mail, invoices, form, sold, unsure, raced, cut>>

-----------------------------------------------------------------------------
(* The form of d is submitted; its button is off while it awaits an answer *)
(* and it closes when it gets one that is not an error.                    *)
SubmitGRNTwice(r, d) ==  \* mutant: the button is on while the form waits
  /\ d \notin entered
  /\ grns[d] + Cardinality({q \in Request : delivery[q] = d}) < MaxGRNs
  /\ pc[r] = "idle"
  /\ poStatus[POOfDelivery(d)] # "ABSENT"
  /\ awaited' = [awaited EXCEPT ![d] = r]
  /\ pc' = [pc EXCEPT ![r] = "receiving"]
  /\ po' = [po EXCEPT ![r] = POOfDelivery(d)]
  /\ delivery' = [delivery EXCEPT ![r] = d]
  /\ UNCHANGED <<documents, mail, invoices, rowLock, next, newStatus, entered, history>>
SubmitGRN(r, d) ==
  /\ awaited[d] = None
  /\ d \notin entered
  /\ grns[d] + Cardinality({q \in Request : delivery[q] = d}) < MaxGRNs
  /\ pc[r] = "idle"
  /\ poStatus[POOfDelivery(d)] # "ABSENT"
  /\ awaited' = [awaited EXCEPT ![d] = r]
  /\ pc' = [pc EXCEPT ![r] = "receiving"]
  /\ po' = [po EXCEPT ![r] = POOfDelivery(d)]
  /\ delivery' = [delivery EXCEPT ![r] = d]
  /\ UNCHANGED <<documents, mail, invoices, rowLock, next, newStatus, entered, history>>

(* The connection is lost; the request, if it arrived, goes on. *)
LoseConnection(d) ==
  /\ awaited[d] # None
  /\ awaited' = [awaited EXCEPT ![d] = None]
  /\ unsure' = unsure \cup {d}
  /\ UNCHANGED <<documents, mail, invoices, requests, entered, sold, raced, resent, cut>>

(* The form hears of r's error, if it still awaits r. *)
Forget(r) == awaited' = [d \in Delivery |-> IF awaited[d] = r THEN None ELSE awaited[d]]

GRNLines(r) == LinesOf[delivery[r]]
MoreLines(r) == pc[r] = "receiving" /\ next[r] <= Len(GRNLines(r))
NextProduct(r) == ProductOf[GRNLines(r)[next[r]]]

(* post_movements' guard, which a receipt has to pass as well. *)
Sufficient(p) == onHand[p] + 1 >= 0

(* post_movements locks the balance of the next line.                      *)
PostLineUnlocked(r) ==  \* mutant: get_or_create without select_for_update
  /\ MoreLines(r)
  /\ Sufficient(NextProduct(r))
  /\ next' = [next EXCEPT ![r] = @ + 1]
  /\ UNCHANGED <<documents, mail, invoices, rowLock, pc, po, delivery, newStatus, form, history>>
PostLine(r) ==
  /\ MoreLines(r)
  /\ rowLock[NextProduct(r)] = None
  /\ Sufficient(NextProduct(r))
  /\ rowLock' = [rowLock EXCEPT ![NextProduct(r)] = r]
  /\ next' = [next EXCEPT ![r] = @ + 1]
  /\ UNCHANGED <<documents, mail, invoices, pc, po, delivery, newStatus, form, history>>

RaiseInsufficient(r) ==
  /\ MoreLines(r)
  /\ rowLock[NextProduct(r)] = None
  /\ ~Sufficient(NextProduct(r))
  /\ Forget(r)
  /\ End(r)
  /\ UNCHANGED <<documents, mail, invoices, entered, sold, unsure, raced, resent, cut>>

(* The fulfilled quantities r sees: its own, and what others committed.    *)
Seen(r, l) == fulfilled[l] + IF l \in ToSet(GRNLines(r)) THEN 1 ELSE 0

(* all(line.fulfilled_qty >= line.qty) decides the status. *)
AllReceived(r) == \A l \in LinesOfPO(po[r]) : Seen(r, l) >= Ordered[l]

ReadLines(r) ==
  /\ pc[r] = "receiving"
  /\ ~MoreLines(r)
  /\ newStatus' = [newStatus EXCEPT ![r] =
                     IF AllReceived(r) THEN "RECEIVED" ELSE "PARTIALLY_RECEIVED"]
  /\ pc' = [pc EXCEPT ![r] = "read"]
  /\ raced' = IF \E q \in Request \ {r} : delivery[q] # None /\ po[q] = po[r]
              THEN raced \cup {po[r]}
              ELSE raced
  /\ UNCHANGED <<documents, mail, invoices, rowLock, po, delivery, next, form,
                 sold, unsure, resent, cut>>

(* The PO's status and the GRN's are saved, COMMIT; a form that still      *)
(* waits closes.                                                           *)
PostGRNLast(r) ==  \* mutant: the quantity is added outside the loop
  /\ pc[r] = "read"
  /\ LET d == delivery[r]
         last == Last(GRNLines(r))
         lines == ToSet(GRNLines(r))
     IN  /\ fulfilled' = [l \in POLine |-> IF l = last THEN fulfilled[l] + 1 ELSE fulfilled[l]]
         /\ onHand' = [p \in Product |-> onHand[p] + IF \E l \in lines : ProductOf[l] = p THEN 1 ELSE 0]
         /\ grns' = [grns EXCEPT ![d] = @ + 1]
         /\ entered' = IF awaited[d] = r THEN entered \cup {d} ELSE entered
  /\ poStatus' = [poStatus EXCEPT ![po[r]] = newStatus[r]]
  /\ Forget(r)
  /\ End(r)
  /\ UNCHANGED <<budget, sendLogs, mail, invoices, history>>
PostGRN(r) ==
  /\ pc[r] = "read"
  /\ LET d == delivery[r]
         lines == ToSet(GRNLines(r))
     IN  /\ fulfilled' = [l \in POLine |-> IF l \in lines THEN fulfilled[l] + 1 ELSE fulfilled[l]]
         /\ onHand' = [p \in Product |-> onHand[p] + IF \E l \in lines : ProductOf[l] = p THEN 1 ELSE 0]
         /\ grns' = [grns EXCEPT ![d] = @ + 1]
         /\ entered' = IF awaited[d] = r THEN entered \cup {d} ELSE entered
  /\ poStatus' = [poStatus EXCEPT ![po[r]] = newStatus[r]]
  /\ Forget(r)
  /\ End(r)
  /\ UNCHANGED <<budget, sendLogs, mail, invoices, history>>

(* A request fails: a refused connection to the mail server, a deadlock, a *)
(* crash.  Everything but an e-mail that is out is undone.                 *)
Abort(r) ==
  /\ pc[r] # "idle"
  /\ cut' = IF pc[r] = "emailed" THEN cut \cup {po[r]} ELSE cut
  /\ Forget(r)
  /\ End(r)
  /\ UNCHANGED <<documents, mail, invoices, entered, sold, unsure, raced, resent>>

-----------------------------------------------------------------------------
(* match_invoice: the three-way match is made once, when the invoice is    *)
(* entered, against the GRNs that are POSTED by then.                      *)
Agrees(o, amount) == amount = POValue(o) /\ amount = GRNValue(o)

MatchInvoice(i, o, amount) ==
  /\ billed' = [billed EXCEPT ![i] = amount]
  /\ billedPO' = [billedPO EXCEPT ![i] = o]
  /\ match' = [match EXCEPT ![i] = IF Agrees(o, amount) THEN "MATCHED" ELSE "DISCREPANCY"]
  /\ UNCHANGED <<documents, mail, requests, form, history>>

(* An invoice of a supplier has its own reference. *)
EnterInvoice(i) ==
  /\ match[i] = "NONE"
  /\ \E o \in PO, amount \in Amount : poStatus[o] # "ABSENT" /\ MatchInvoice(i, o, amount)

(* resolve_match, dispute_match and escalate_match: from any status. *)
SetMatch(i, new) ==
  /\ match' = [match EXCEPT ![i] = new]
  /\ UNCHANGED <<documents, mail, billed, billedPO, requests, form, history>>

ActOnMatch(i) ==
  /\ match[i] # "NONE"
  /\ \E new \in {"RESOLVED", "DISPUTED", "ESCALATED"} : SetMatch(i, new)

Step(r) ==
  \/ Email(r) \/ SaveSend(r)
  \/ PostLine(r) \/ RaiseInsufficient(r) \/ ReadLines(r) \/ PostGRN(r)

Next ==
  \/ CreateBudget \/ BudgetSubmit
  \/ \E decision \in {"APPROVED", "REJECTED"} : BudgetDecided(decision)
  \/ \E o \in PO : PurchaseOrderCreate(o) \/ \E r \in Request : StartSend(r, o)
  \/ \E p \in Product, qty \in 1..MaxSold : Sell(p, qty)
  \/ \E r \in Request : Step(r) \/ Abort(r) \/ \E d \in Delivery : SubmitGRN(r, d)
  \/ \E d \in Delivery : LoseConnection(d)
  \/ \E i \in Invoice : EnterInvoice(i) \/ ActOnMatch(i)

Spec == Init /\ [][Next]_vars
-----------------------------------------------------------------------------
(* The registers and histories a screen or a report shows; their filters   *)
(* of dates and suppliers let everything through.  A GRN is listed once    *)
(* for every time its delivery was entered.                                *)
PORegister ==
  [o \in {q \in PO : poStatus[q] # "ABSENT"} |-> [status |-> poStatus[o], total |-> POValue(o)]]

GRNRegister ==
  UNION {{[delivery |-> d, copy |-> n, po |-> POOfDelivery(d), value |-> Worth[d]] :
            n \in 1..grns[d]} : d \in Delivery}

(* A supplier's orders, GRNs and invoices; all POs go to one supplier.     *)
SupplierHistory ==
  [pos |-> DOMAIN PORegister,
   grns |-> {g \in GRNRegister : g.po \in DOMAIN PORegister},
   invoices |-> {i \in Invoice : match[i] # "NONE"}]

(* The cost of a budget: the POSTED GRNs of the POs raised against it.     *)
ActualCost == MapThenSumSet(GRNValue, DOMAIN PORegister)

BudgetVsActual ==
  LET estimated == MapThenSumSet(LAMBDA p : Estimate[p], Product)
  IN  [status |-> budget, budget |-> estimated, grnActual |-> ActualCost,
       variance |-> estimated - ActualCost]
-----------------------------------------------------------------------------
Received(l) == MapThenSumSet(LAMBDA d : grns[d], {d \in Delivery : l \in ToSet(LinesOf[d])})

(* What the POSTED GRNs say was received is what the PO lines are credited *)
(* with and what the Stores gained, whatever overlapped, failed or was     *)
(* entered again.  The PO is RECEIVED only if every line is; one that is   *)
(* fully received says so unless two GRNs overlapped, and one that         *)
(* received anything does unless it was sent once more                     *)
(* (services.py:170, 277-309).                                             *)
ReceiptsAreWhole ==
  /\ \A l \in POLine : fulfilled[l] = Received(l)
  /\ \A p \in Product :
       onHand[p] + sold[p] = MapThenSumSet(Received, {l \in POLine : ProductOf[l] = p})

StatusTellsReceipt ==
  \A o \in PO :
    LET full == \A l \in LinesOfPO(o) : fulfilled[l] >= Ordered[l]
        some == \E d \in DeliveriesOf(o) : grns[d] > 0
    IN  /\ poStatus[o] = "RECEIVED" => full
        /\ poStatus[o] = "PARTIALLY_RECEIVED" => some /\ (full => o \in raced)
        /\ some => poStatus[o] \in {"PARTIALLY_RECEIVED", "RECEIVED"} \/ o \in resent

ReceiptsAddUp == ReceiptsAreWhole /\ StatusTellsReceipt

(* The money follows the goods.  A delivery whose form closed is among the *)
(* GRNs, and it is there twice only if its form lost a connection: neither *)
(* an error nor a double tap receives goods twice.  So a budget's actual   *)
(* cost is the worth of the deliveries entered, unless a connection was    *)
(* lost; it is what the GRN register and the supplier's history add up to, *)
(* and covers every invoice that matched (PurchaseOrdersTab.tsx:214-264,   *)
(* services.py:348-376, selectors.py:35-40).                               *)
Total(rows) == MapThenSumSet(LAMBDA g : g.value, rows)
SecondReceiptNeedsSilence ==
  /\ \A d \in entered : grns[d] > 0
  /\ \A d \in Delivery : grns[d] > 1 => d \in unsure

MatchedWasReceived ==
  \A i \in Invoice :
    match[i] = "MATCHED" =>
      /\ billed[i] = PORegister[billedPO[i]].total
      /\ billed[i] <= ActualCost

CostsAreDelivered ==
  /\ SecondReceiptNeedsSilence /\ MatchedWasReceived
  /\ BudgetVsActual.grnActual = Total(GRNRegister)
  /\ Total(SupplierHistory.grns) = Total(GRNRegister)
  /\ unsure = {} =>
       ActualCost = MapThenSumSet(LAMBDA d : Worth[d], {d \in Delivery : grns[d] > 0})

(* An e-mail to a supplier is on record or still being recorded, unless    *)
(* its transaction failed after it had left (services.py:168-177).         *)
EmailsAreOnRecord ==
  \A o \in withEmail \ cut :
    emails[o] = sendLogs[o] + Cardinality({r \in Request : pc[r] = "emailed" /\ po[r] = o})
=============================================================================
