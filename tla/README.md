# Flying Foods: TLA+ models, model checks and proofs

Flying Foods is the stock, purchasing and service system of a restaurant: a
Django/PostgreSQL backend (`src/backend`), Celery workers that mirror every stock
movement to the Pastel accounting package, and a React frontend
(`src/frontend`) for the stores, the kitchen, the waiters and the managers.

This directory holds TLA+ modules translated from that code, configurations that
check them with TLC on small instances, and theorems about twelve of them that the TLA+
proof system checks for every value of the constants. Paths below are relative to
`src/backend/apps` unless they start with `src/`.

    tlc -config StockLedger.cfg MCStockLedger     # one of the runs below
    tlapm InventoryProofs.tla                     # the proofs

## 1. The system

Every HTTP request runs in a web process of its own, every Celery task in a worker
process; they share nothing but the PostgreSQL database, at its default isolation
level, READ COMMITTED. A service function is normally one transaction
(`@transaction.atomic`), but the **view loads the row it works on before** the
transaction starts and passes the instance in, so nearly every service acts on a copy
that other requests may have made stale. Only `post_movements` (stock balances),
`post_grn` (PO lines) and the unique constraints make requests wait for each other.
That combination, stale copies plus few locks, is what makes this system hard to test
and is what the models are about.

### Inventory of components

**Stock ledger** (`inventory/services.py`, `inventory/models.py`).
State: `StockMovement` (append-only ledger), `StockBalance` (cached `qty_on_hand` per
product and location), one `OutboxRecord` per posting, the status of the document.
Operations: `post_movements`, called by issues, transfers, stock takes, wastage,
GRNs and sales. Hard: lost updates of a balance, deadlocks between row locks taken
in line order, partial failure of a document of several lines, repeated and
overlapping posts of one document, rounding of recipe quantities to the column.
Correct when: the balance is the sum of the ledger, a document is appended whole or
not at all, its status and outbox agree with the ledger, a repeat is a no-op, and
stock becomes negative only where a caller allowed it.

**Approval engine** (`core/services.py`, and the `on_approval_decided` callbacks of
transfers, stock takes, wastage entries and budgets). State: `ThresholdConfig`,
`Approval` (a generic subject and a status), the statuses of the documents.
Operations: route a document (queue it or post it), decide an approval, whose callback
posts the document in the same transaction. Hard: thresholds and values change
between routing and decision, two managers decide at once, the same document is
submitted twice, callbacks fail after the decision was saved. Correct when: nothing
above its threshold moves stock without an approval; decisions, statuses and stock
agree; the managers' queue shows everything that waits.

**Pastel outbox** (`pastel/tasks.py`, `pastel/views.py`, `pastel/adapter.py`,
`src/backend/config/celery.py`). State: `OutboxRecord` (status, attempts,
next_attempt_at), `PastelSyncLog`, the administrators' notifications. Operations: a drain
every 30 s, a nightly sweep, re-send by an administrator, the notification of an abandoned
record, the integration health page. Hard: drains overlap because nothing is locked,
records are saved from copies, workers die between two saves, and between the save and
the notification. Correct when: SENT means delivered, attempts are real failures, a
record is sent twice only for a reason, no PENDING record is left behind, and a record
that goes astray shows somewhere.

**POS ingestion** (`pos_ingest/`). State: `SaleEvent` (unique `pos_sale_id`), `Order`
and its lines with their recipe version. Operations: ingest a sale (create order and
deduct stock), replay a sale with unknown items after its recipes were published.
Hard: the same sale is pushed and pulled at once (the loser hits the unique constraint
and answers with the winner's event), the deduction is tried under a savepoint and
repeated with negative stock allowed, replays overlap, and one looks for the order's movements
before it posts them. Correct when: a sale is deducted once however often it is sent or replayed,
its status tells whether it was deducted, and it always arrives.

**Kitchen and waiter service** (`kitchen/`). State: `Order.status` and its append-only
`OrderStatusEvent`s, extra-usage wastage entries with their approval. Operations: start,
ready, served, return, log extra usage. Hard: displays and waiters act on lists that are
out of date; the view's read and the service's write are separate. Correct when: a
served order is served once and stays served, and an order with an unresolved extra
usage is not marked READY.

**Waiter device queue** (`src/frontend/src/features/waiter`,
`src/frontend/src/lib/apiClient.ts`). State: the persisted queue of actions in the
browser, the flushes of the React effect, the session's tokens. Operations: tap, flush,
answer, 409, network failure, expired token and its refresh. Hard: flushes overlap
and are cancelled in the middle of a request; requests or answers are lost. Correct
when: no tap disappears, none counts twice, and the queue drains.

**Session** (`src/frontend/src/lib/apiClient.ts`, `store/authStore.ts`, `RequireAuth.tsx`,
`users/views.py`). State: the access token in the page, the refresh token in the cookie,
the server's blacklist, the store's status. Operations: sign in and out, bootstrap, 401
and the one retry after it, refresh with rotation, deactivation, reload. Hard: every
request refreshes on its own and a refresh token is good for one; an answer that is
lost has blacklisted the token the cookie still holds. Correct when: nobody loses a session
without a reason, who signed out stays out, and no request waits for ever.

**Issue desk** (`src/frontend/src/features/issues`, `inventory/views.py`,
`core/idempotency.py`). State: notes and their lines, the table on the screen, the dialog,
the `IdempotencyKey` rows. Operations: create a note (header and lines in two commits,
no key), list, post (a key per click), re-send, and for a transfer above its threshold the
submission for approval and a manager's decision. Hard: the process dies between the two
commits, or between the commit and the storing of the key; the table is out of date; a
request that the page gave up goes on at the server; a transfer can be submitted twice, and
rejected after it moved. Correct when: what the screen reports as done is done (or, for a transfer,
waits for a manager), and a note moves once unless two requests were posting it at the same time.

**Procurement** (`procurement/`, and the receiving dialog of
`PurchaseOrdersTab.tsx`). State: budgets, purchase orders and lines, send logs,
GRNs, invoices and their three-way match. Operations: submit and approve a budget,
create and e-mail a PO, receive goods (which posts stock), match an invoice, resolve or
dispute a match. Hard: a GRN has no idempotency key, two GRNs of one PO overlap, the
e-mail leaves before the commit, sending overwrites the status. Correct when: lines,
stock and GRNs agree, the status tells what was received, what the supplier got is on
record, an invoice matches only what was received, and the registers and the budget report
(`procurement/selectors.py`, `reports/selectors.py`) add up to the goods that came.

**Menu and recipe versions** (`menu/`). State: `MenuItem.status`, `RecipeVersion`
(number, status, `effective_from`, `effective_to`). Operations: create and edit an item, deactivate
and delete it, draft a version, submit it for review, publish it from a date on, which
retires the version in force, and the look-up of the version active on a day. Hard: two
administrators overlap, `save` tests a row it does not lock, sales arrive late and are resolved
for their own day. Correct when: one version at most is in force on a day, a publication
changes no day before its date, and orders keep the recipe of their day.

**Stock takes** (`inventory/`, the counting tab of `WastagePage.tsx`, the leakage report of
`reports/selectors.py`). State: `StockTake.status`, the frozen `system_qty` and the `counted_qty` of its
lines, the boxes of the screen. Operations: open, count, save, post, approve or reject. Hard: stock
moves between opening, counting and posting; counts are saved again while a manager
decides; two posts of one take overlap. Correct when: posting a count makes the record agree with
the shelf, a waiting take has somebody to decide it, and the report tells what was lost.

**Reports and reconciliation** (`reports/selectors.py`, `pastel/tasks.py`, `pastel/stub.py`).
No state of their own: queries over balances, movements, documents, orders and GRNs, which
other requests write. Hard: each report reads another table, so a posting that is repeated,
half done or rolled back makes them tell different stories. Correct when: on hand, movers,
wastage, issues, leakage, costing, registers and reconciliation agree.

**Not modelled, or in part** (each is listed with its reason in `PROJECT.json`): wastage
photos and valuation, realtime broadcast (a client may refetch at any time in the
models), notifications other than that of an abandoned record, the service time report and
the rendering of reports as CSV, Excel and PDF, master data, the role checks in front of
the views, audit rows, the remaining screens, settings and demo data, the Django admin.
They are stateless, read-only, or write rows that no modelled code reads back.

### How they interact

    POS --> pos_ingest --+                        +--> pastel outbox --> Pastel
    procurement (GRN) ---+--> post_movements -----+
    inventory documents -+        ^   (balances, ledger, outbox record)
    wastage / extra usage+        |
            |                     | on_approval_decided, same transaction
            +--> approval engine -+
    pos_ingest --> kitchen orders <--> kitchen display, waiter device queue
    menu (published recipes) --> pos_ingest
    counting tab --> stock takes --> approval engine, post_movements --> leakage report
    issue desk (in a session) --> issues, transfers --> post_movements
    balances, movements, documents --> reports, reconciliation with Pastel

## 2. The modules

| module | models | notes |
|---|---|---|
| `StockDocuments` | how issues, transfers, stock takes and wastage entries become movement lines | pure operators |
| `StockLedger` | `post_movements` and the services around it | one action per step between two points where another process can run |
| `Reports` | the reports on stock, and reconciliation, extending `StockLedger` | functions of its tables |
| `AbstractLedger` | what `post_movements` promises: a document in one atomic step | `StockLedger` implements it (`Serializable`) |
| `InventoryProofs` | ten theorems: seven about `StockLedger` and `Reports`, three about `IssueDesk` and `Session` | begins with the lemmas on sums |
| `Approvals` | thresholds, routing, decisions, callbacks | stock is reduced to who posted what |
| `ApprovalsProofs` | five theorems | |
| `Outbox`, `OutboxProofs` | drains, sweep, re-send, notification, health card | Pastel accepts, refuses or times out at will |
| `Delivery` | what the outbox promises, whoever works on it | `Outbox` implements it (`Delivers`) |
| `PosIngest`, `PosIngestProofs` | ingestion, replay, health card | recipes are published, and other stock is posted, at any time |
| `Kitchen` | orders and the services that move them | a client shows the list it fetched last |
| `WaiterQueue` | the device's queue, extending `Kitchen` | the flushes are `Kitchen`'s waiter requests |
| `KitchenProofs` | four theorems, two about each of the two | |
| `Procurement`, `ProcurementProofs` | budgets to invoices, with the receiving form, the registers and budget against actual | |
| `RecipeVersions`, `RecipeVersionsProofs` | a menu item, its versions, the version active on a day, recipe costing | the date is part of the state, sales come for any past day |
| `StockTake`, `StockTakeProofs` | counting: the screen, its views, opening, posting, approval, and the leakage report | the shelf is part of the state, beside what is on record |
| `Session` | the tokens of a page and of the server, every way to gain and lose a session | |
| `IssueDesk` | the screen of issues and transfers, extending `Session` | its requests are the session's |
| `MC*` | the instances TLC checks | constants, symmetry, bounds on what users and faults do, and the fairness a run makes do with |

`PROJECT.json` maps every definition to its source lines. The correspondence of the
steps, module by module:

**StockLedger.** A request is `LoadDocument` (the view's read), then either
`ReturnExisting` (the document is POSTED in the copy, or the ledger already has rows of
it) or `BeginPosting`, then one `PostLine` per line: lock the balance row
(`SELECT ... FOR UPDATE`, wait if another transaction has it), test the guard on the
unrounded result, append the row, rewrite the balance. `Commit` makes ledger,
balances, outbox record and status visible together. `RaiseInsufficient`, an empty
document, a violated CHECK, `Crash` and PostgreSQL's `DeadlockVictim` roll everything
back. Quantities are integers: thousandths as the `NUMERIC(12,3)` columns keep them,
ten-thousandths for the `Decimal` before it is stored (`Stored` rounds half away from
zero as PostgreSQL does). Balance and ledger row are rounded each on its own, and differ when the
quantity was half-way between two thousandths: `halved` and `halving` count those rows, and bound the
drift. The ledger is kept per row as its sum: no property tells two
ledgers with the same sums and the same documents apart.

**Approvals.** `LoadDocument`/`LoadApproval` are the views' reads. `Route` computes the
value and reads the threshold, which `SetThreshold` and `Revalue` may change at any
moment. `SubmitForApproval` queues, `BeginPosting` and `Post` post. `SaveDecision` updates the
`Approval` row, and so locks it until the end of the transaction; one of the
`Callback...` actions follows, and only then is anything visible. `Fail` is any failure.

**Outbox.** A worker reads its records with their attempts (`StartDrain`, `StartSweep`)
and handles them in order from that copy: `MarkSending`, then Pastel's `Accept` or
`Refuse`, then `SaveSent` or `SaveFailed`, each its own transaction. A record that `SaveFailed`
abandons is saved first and told of afterwards (`NotifyAdmins`); `untold` remembers those a worker died
in between. `Fail` is the exception that the loop swallows; `Crash` kills the worker with its
whole copy. `Delivery` knows statuses and counts only; a record two workers had in hand, or one dropped
half-way, is what it excuses (`excused <- overlapped \cup interrupted`).

**PosIngest.** `Lookup`, then the insert that the unique constraint may refuse or make
wait, one step per line that resolves a recipe, the deduction under its savepoint,
and the second deduction that may go negative. A replay reads its lines one by one while
recipes are published, and then looks for the order's movements without a lock: if there are any the
sale is marked REPLAYED and nothing is posted (`ReplayExisting`), otherwise `BeginDeduction` and
`ReplayDone` are the look-up and the posting, with room for another replay between them. `Abort` is a
crash or a database error; `Reject` is the CHECK
that refuses a deduction rounded to zero.

**Kitchen, WaiterQueue.** `Tap` shows only the buttons of the list fetched last; `Serve`
is first the view's read, then the service's write. In `WaiterQueue` a flush is a
sequence of such requests; a 409 removes the action, a network error breaks the flush
off, a 401 leads to a token refresh whose refusal clears the session and the queue.

**Procurement.** A GRN is `SubmitGRN` (created, uncommitted), a `PostLine` per line that
locks the balance row, `ReadLines` (which reads the PO's lines, the committed ones and
its own) and `PostGRN` (status and commit). Sending is `StartSend`, `Email`, `SaveSend`;
the e-mail cannot be rolled back, the rest can. The receiving form is part of the model: it
waits for its answer, keeps its lines after an error, and forgets on 201.

**RecipeVersions.** `LoadForReview`/`LoadForPublish` are the views' reads, `Refuse` the guards on the
loaded status. `CheckReview` and `CheckPublish` are the look of `RecipeVersion.save` at the committed
row, `SaveReview` and `Publish` the update and the commit; in between, `ChooseCurrent` reads the
version in force and `RetireCurrent` updates it, which holds its row (`Updated`). `Sell` resolves a
day with `ActiveFor`.

**StockTake.** `Open` freezes the balances; `Count` fills a box of the screen, `SaveCounts` writes
all lines, `Blank` (that is, 0) for a box nobody touched. A post is `LoadTake` (the view), `ReadLines`,
and then `PostNothing`, `Submit`, or `LookForRows` and `PostAdjustment`, for the tab and for the
manager whose approval calls `post_stock_take` again. A count remembers what was on record, lost and
adjusted when it was made, so that the property can say which counts are undisturbed. `Use` stands for
sales and logged wastage, which leave shelf and books together; the steps inside `post_movements`
are `StockLedger`'s.

**Reports.** Documents are of the six kinds that `post_movements` is called with: issue, transfer,
wastage, sale, GRN and stock take, with their eight types of movement. Each report is a function of the
committed tables: `Movers`, `ActualQty` (the leakage report) and `IssuesByDestination` of the
movements, `GrnRegister`, `WastageReport` and `Variances` (the stock take's page) of the POSTED documents,
`ReconciliationLines` of the balances and Pastel's stub. The ledger's
rows are the lines of the documents (`AllLines`), each as often as its document was posted. A report
reads them at one moment. On hand and the reorder suggestions are the balances themselves, and have no
operator. Under READ COMMITTED a report of several queries may mix two moments,
which is left out, as is a reconciliation that reads its balances one by one.

**Session, IssueDesk.** A request is `Call` (the token goes into the header), its view, and the step
that takes the answer; on the way `StartRefresh`, `CheckRefresh`, `Rotate` and `Refreshed` or
`AuthLost`. `PageSlot` is a place of the page that has one request at a time. `CreateHeader` and
`InsertLines` are the two commits of a new note, `BeginPost`, `CommitPost` and `StoreKey` the view of a
posting between its transaction and its key. Where `CommitPost` posts, `AskApproval` may leave a transfer
PENDING_APPROVAL instead: thresholds and values change, so either may happen at any posting of one.
Both are answered 200 and have their answer stored. `Approve` and `Reject` are the manager's, at any
later time. A key is kept while a click uses it. A sign-in that carries a left-over token in its
header is answered 401 if that token is not valid, as any request is ("tokenLogin").
`Disconnect`, `LoadAgain`, `DieCreating`, `DiePosting` and `Resend` are the faults: the server
goes on with what the page no longer awaits. `harmed`, `left`, `told`, `unsure`, `raced` and `sought` are
histories that the properties use as reasons.

## 3. The runs

| run | module | what it shows |
|---|---|---|
| `stock_ledger` | MCStockLedger | balances are the ledger but for rounded halves (so no update is lost), postings are whole, repeats are no-ops unless they overlapped, the reports tell one story; the concurrent transactions implement `AbstractLedger`, guard included; every request ends |
| `approvals` | MCApprovals | posting needs clearance; decisions, statuses and stock agree; the queue is complete; final decisions are replaced only by racing ones |
| `outbox` | MCOutbox | the outbox implements `Delivery` though every save comes from a stale copy; no record goes astray unnoticed; a PENDING one is taken up |
| `outbox_settled` | MCOutbox | *violation*: a FAILED record is never tried again |
| `pos_ingest` | MCPosIngest | a sale is ingested once and in the end, and deducted once however often it is replayed one after another; its status, its recipes, the health card and the balance agree |
| `kitchen` | MCKitchen | when an order can be served twice, and when it stays served |
| `kitchen_ready` | MCKitchen | *violation*: READY while an extra usage awaits approval |
| `waiter_queue` | MCWaiterQueue | no tap is lost or counts twice without a reason, the queue drains |
| `procurement` | MCProcurement | receipts, statuses, e-mails, matches, registers and the budget report agree |
| `recipes` | MCRecipeVersions | windows of versions are disjoint, the costing report prices the version that is in force last, a publication reaches no day before its date, orders keep their recipe, unless requests overlapped |
| `stock_take` | MCStockTake | when a count makes the record right, and that the leakage report then tells the loss |
| `issue_desk` | MCIssueDesk | nobody is signed out without a reason; what is shown as posted has moved or, for a transfer, was submitted for approval; a note moves twice only when two requests post it at once; every request ends |

Every property of a passing run has a mutant in `PROJECT.json`: a plausible bug in one
mapped definition (a lock not taken, a guard dropped, a write out of order) under which
the same run fails. The mutants stand beside the definitions they replace.

### Bounds, and why they are enough

- `stock_ledger`: two concurrent requests, repeated without limit, over eight documents: an issue and a
  transfer that lock the two rows of flour in opposite order (deadlock), a wastage larger than the stock, a
  sale of four and a half thousandths (the balance is sometimes rounded with it and sometimes against it), a
  GRN of flour and of yeast, a product that Pastel does not know, a stock take of the Kitchen that finds
  flour missing, a document without lines and a sale that rounds to zero. Issues, transfers and the GRN are
  posted without `allow_negative`, the others with it. Two transactions suffice for every pairwise race,
  and each hazard in the code is pairwise. No counter needs a bound: a guarded document is appended at most
  twice by two overlapping requests. A behaviour is about three documents (`MaxInvolved`), whichever they
  are. The empty document, the one that rounds to zero, the sale, the GRN and the stock take count twice
  (`CountTwice`): each of them meets any one that counts once, and they do not meet one another.
  The bound holds back `LoadDocument` only.
- `approvals`: two requests, two approvals, values and limits that are small or large and
  change at any time. `MCApprovals` splits the instance by `Group`: a behaviour concerns a
  transfer and a budget, or a stock take, or a wastage entry. Documents interact only
  through the thresholds and the identity of approvals, which the first group covers; two
  requests and two approvals meet at one document in each group. Requests and approvals are
  symmetric.
- `outbox`: one record (a drain does not relate two, but for the order it takes them in),
  two overlapping drains, an administrator, two attempts (`MaxAttempts` is 5 in the code; nothing
  depends on its value but the comparison), and counters that stop at `Cap` = 2: "twice" is what
  the properties tell from "once". `PendingIsTaken` is checked under `LessFairness`, which
  `Fairness` implies.
- `pos_ingest`: two sales with a shared item, one of which rounds to nothing, two
  pushes, two replays; `MaxStock` stops what other postings add, `MaxFaults` the transactions that fail.
  Deductions need no bound: a replay that finds the order's movements posts nothing.
- `kitchen`: one order (the services never relate two), a kitchen display and two waiters
  with lists of any age, one extra usage; event counters stop at `MaxEvents` = 2, which still
  tells "once" from "more than once".
- `waiter_queue`: two taps on two orders, two flushes, one fault of any kind
  (a lost request, a lost answer or a refused refresh), with the token expired or not at the
  beginning. The displays of the kitchen are absent: the device only meets orders that
  became READY. Orders and actions get their names in the order in which they come into play
  (`InTurn`): a symmetry reduction that liveness allows.
- `procurement`: one PO of two lines on two products, two deliveries of which one completes
  what the other began, two requests, at most two GRNs of one delivery, two sends and two
  units sold; one invoice. Two requests are symmetric.

- `recipes`: two versions, two requests, three days and one order. Two versions and two requests
  give every pair of overlapping reviews and publications, three days a past, a present and a
  future for a window; one order suffices because orders never meet. A third version would be
  needed only for two retirements in a row, which the second repeats.
- `stock_take`: one product (the lines of a take do not interact but through its value), two takes
  of one location in two tabs, one of which may go to a manager (`MaxOpen`), two units on the shelf,
  a limit of one unit, one unit used and one lost. A box is filled once (`Recounted` is empty), but
  a take can be saved before it is counted, which gives it two different sheets. A single
  take with recounts (`Take = {k1}`, `Recounted = {k1}`, `MaxUsed = 2`) holds as well.
- `issue_desk`: an issue and a transfer to be made, of which a behaviour has one (`OneWish`: notes
  of different wishes do not meet, and everything the user does about one may repeat it), two notes, two
  posting requests at the server, one fault of any kind; the second note and the second
  request are what a repetition leaves. A note is posted again while less than `MaxApprovals` = 1 approval of it
  is open; two requests under way at once still make two. Keys are
  interchangeable, and a click has the first that nobody uses (`FirstKey`).
  Users sign in and out when no click of theirs is under way
  (`Quiet`); a deactivation or an expiry comes at any time, but a behaviour has either the
  deactivation or the fault (`OneMishap`).

Deadlock checking is off in the Outbox runs, where the system rests once every record is settled
and nothing is due, in the procurement run, where a rejected budget ends everything, and in
the recipes run, where a deleted item does.

### Fairness, and why the code justifies it

- `StockLedger`: strong fairness of `Step`, since a transaction may wait for a row
  again and again but PostgreSQL grants queued row locks in turn, and weak fairness of
  `DeadlockVictim`, since the deadlock detector runs until it has broken every cycle.
  No fairness of `LoadDocument` or `Crash`.
- `Outbox`: weak fairness of `StartDrain` (Celery Beat's 30 s schedule) and of `NotifyAdmins`, and strong
  fairness of the other steps of a drain: crashes happen, but a worker does not die for ever at the same
  step. Pastel accepts again and again. Nothing is assumed of the sweep or of
  administrators. `outbox_settled` fails even so. `PendingIsTaken` needs less: that a drain starts,
  does not die for ever before it marks its record, and then goes on (`LessFairness`).
- `PosIngest`: weak fairness of a running request and strong fairness of `Lookup`: the POS
  repeats a sale until it is answered. Nothing is assumed of replays or publications.
- `WaiterQueue`: weak fairness of rendering, of a request under way and of the eight-second
  timer. Faults and expiries are bounded by `MaxFaults`: a network that never
  comes back drains nothing.
- `IssueDesk`: weak fairness of what goes on by itself: the store, the step each slot is at,
  the insertion of lines and the jobs of the server. Nothing is assumed of users, and faults stop at
  `MaxFaults`.

## 4. What is proved

`InventoryProofs`, first part, about `StockLedger`: for any documents, lines, balance rows and
concurrent transactions, from the type of the constants (`LedgerConstants`) and nothing else:

- `TypeCorrect`: `TypeOK` is inductive.
- `BalancesAreTheLedger`: `qty_on_hand` is the sum of the ledger, to within a thousandth for every
  committed row whose quantity was half-way between two. The balance alone is not inductive: a
  transaction that will overwrite a row must hold the right value. The invariant adds
  `NoLostUpdate`: what a transaction will write is the committed balance plus its own rows, within the
  halves among them, and it has rows only where it holds the lock. That makes the row lock the
  heart of the argument: another transaction's commit cannot touch a held row. `StoredNear` is the
  arithmetic: rounding before or after an addition differs by one at most, and only for a half.
- `NegativeGuard`: a negative balance was written by a posting that was allowed to. Rounding
  never turns a sufficient quantity negative (`StoredType`).
- `PostingsAreWhole`: status, ledger and outbox of a document agree at every commit.
- `RepeatsAreNoOps`: a document is appended twice only by overlapping transactions. The
  invariant: of two transactions that post one document, at least one looked for its
  rows while the other was running.
- `PostingsAreAtomic` (`Serializable`): `StockLedger` implements `AbstractLedger`. A commit is one
  `Post`, every other step a stutter. `StepsInv` says how far a transaction has come: what it will
  write into a row it holds is the committed balance and the lines it has posted there, off by at
  most half a thousandth for each of them that is rounded (`OffByGrows`), and it has posted no line on
  a row it does not hold. With the end of the lines reached, that is the effect of the document; with
  `GuardInv`, what it writes keeps to the guard. `AbstractLedger` states no fairness, so this is the
  whole refinement.

Second part, about `Reports`, for any products and locations and any documents of all six kinds, from
`ReportConstants`: rows and documents are finitely many, codes are unique, the lines of an issue or
a transfer come in pairs, out and in, of one product (`post_issue_note` and `post_transfer` build
them so), and a GRN is created by the request that posts it (`MadeToPost`):

- `ReportsTellOneStory` (`ReportsAgree`). The invariant `SumInv` is new: the ledger of a row is what it
  was and the sum of the documents' lines on it, each as often as it was posted (`LedgerIsSum`), which
  needs that what a transaction has appended is the sum of the lines before the next (`Progress`). A
  product's stock then is a sum of sums by location and document (`ProductIsSum`), which splits by type of
  movement (`OneKind`, `KindFor`), and in which issues and transfers cancel pair by pair (`OutIsIn`). What is
  left is sales, wastage and adjustments, as the leakage report takes them (`OnHandIsExplained`), and
  the GRNs, each posted once (`MadeOnce`). A posted entry or take without overlap is posted once
  (`PostedOnce`), so what was lost beside the sales is what the wastage report and the takes' pages
  add up (`GapIsExplained`). The other theorems do the rest: balances are the ledger but for halves, POSTED
  means posted.

Third part, about `Session` and `IssueDesk`, for any forms, notes, jobs and numbers of faults, from
`SessionConstants` and `DeskConstants`, whose `PageSlot = {"list", "click"}` is what the screen has:

- `SessionsAreExplained` (`SessionIsExplained`). `UnharmedLives`: while nothing has harmed the
  session, one slot at most refreshes, it carries the cookie's token, and that token, or the one it was
  granted, is live. `LeftIsOut`: after signing out no token is left to refresh with and none is under
  way. `StoreInStep` ties the auth store to the phases of its slot. That there always is a new token is
  a matter of counting those held (`NewTokenExists`).
- `DeskTypeCorrect` (`DeskTypeOK`) and `NotesTellTheTruth` (`NotesAreTrue`). `ClickInStep` says which
  note or job a click awaits and what an answer is worth, `TablesInStep` how notes, movements and the
  server's jobs and open approvals stand to each other, `RacesKnown` that a note which moved while a job
  was posting it, or which two are posting, is `raced`, and that no other moves twice.
  What was answered 200 has moved or was submitted, and stays so (`Handled`, `StaysHandled`). `CreationsKnown`
  accounts for the notes: a wish that is filled was reported or is about to be. The rest is `unsure`, and only
  the faults make it so.

`ApprovalsProofs`, for any documents of any kinds, approvals, thresholds and requests:

- `TypeCorrect`. Here `TypeOK` alone is not inductive; `Inv` adds what the locals of a
  request mean at each step (`AboutDocument`, `DecidesOpen`, `WithinLimit`, `PostsStock`), that locks
  of approvals are held by requests that decide, and that only existing approvals are decided.
- `ClearanceRequired`: nothing above its threshold is posted without an approval. It
  follows from `WithinLimit` and `DecidesOpen`.
- `StockFollows`, `QueueComplete`: what is POSTED or APPROVED has moved its stock, and what waits
  has an open approval; both by looking at what a commit and a queueing change (`CommitEffect`,
  `QueueEffect`, `StepEffect`).
- `DecisionsStick`: the action property, from `Inv`: whoever overwrites a decision holds the
  lock of the row and had loaded an open copy.

`OutboxProofs`, for any records, tasks and requests, any limit of attempts and any `Cap` above it:

- `TypeCorrect`, and `NothingGoesAstray` (`TroubleShows`). `TroubleHasCause` says of each status what
  must be true outside the workers: a record is SENDING only in somebody's hand or after an
  interruption, ABANDONED only when an administrator was or will be told, or is `untold`.
- `OutboxDelivers`: `Outbox` implements `Delivery`, each action being one of its steps or a stutter.
  `Delivery` states no fairness, so the whole refinement is proved. What it needs is what a stale copy
  may say: `CopiesLagBehind` (a copy's attempts are never more than the failures on record, so a
  save cannot abandon a record that failed too seldom) and `DeliveredOnce` (a record which two workers
  may still send is `overlapped`).
- `StatusEarned`: SENT and ABANDONED tell what happened. It follows from `Delivery` alone.

`PosIngestProofs`, for any finite set of sales (one at least), any recipes and any stock:

- `TypeCorrect`, `EventsAreTrue` (`EventTellsOutcome`) and `ShortagesAreFlagged` from `IngestInv`: one
  conjunct per sale (no trace before the insert, deductions as the event says), one per
  request and one per replay (what its locals mean at each step). A replay that is about to deduct found
  no movements: there are none still, or it overlapped another that made them. The unique constraint appears
  as: a sale is inserted by one transaction at a time, before it is here.
- `StockAccounted` (`StockIsAccounted`): the balance is the opening stock, what other documents moved
  and the deductions of all sales, a sum over a set.

`KitchenProofs`, for any clients, orders, taps, flushes and faults:

- `LateWaitersAreHarmless` (`ServesAreExplained`) from `ServedOnceMore`, the exact balance of SERVED
  and RETURNED events: a writer that read a status before another changed it is `raced`.
- `QueueTypeCorrect` and `TapsCountOnce` (`TapCountsOnce`) for `WaiterQueue`. `QueueInv` says which
  action an awaited answer belongs to; `TapInv` adds `AppliedServed` (an applied "served" left its
  order a SERVED event), `RecordTells` (an order with such an event and without a return still is
  SERVED, but for a race) and `Knows`, what a flush has read and was answered. The properties of a tap hold for every bound of the faults.

`ProcurementProofs`, for any orders, lines, deliveries, invoices and requests:

- `TypeCorrect` (a request holds the rows of the lines it has posted and no others) and
  `EmailsRecorded` (`EmailsAreOnRecord`).
- `ReceiptsTold` (`ReceiptsAddUp`) from `OrderInv`: `WholeWith` ties the credit of each line, and the
  stock of each product, to the POSTED GRNs, summed; `Recorded` says what a request knows of its PO
  and its delivery, `FormsKnow` how an open or closed form stands to the GRNs, `ReadsKnow` what a GRN
  that has read the lines has missed, `StatusesTell` what the status of a PO is then worth.
- `CostsTold` (`CostsAreDelivered`): closed forms are among the GRNs, a MATCHED invoice is covered, and
  the three ways to add up a budget's goods give one number. A match survives later receipts because
  GRNs are not taken back (`MatchesCover`).

`RecipeVersionsProofs`, for any number of versions, days, orders and requests:

- `NoDayHasTwoRecipes` (`WindowsAreDisjoint`), `LiveServiceUnaffected` (the action property
  `LiveUntilDate`) and `OrdersStayResolved` (`OrdersKeepRecipe`). Two invariants carry them:
  `FreshIsTrue`, what a request has read is still so unless another one committed meanwhile, and
  `HistoryIsOrdered`, the published versions follow one another without overlap. `TypeCorrect` needs
  that the numbers in use have no gap (`NumbersHaveNoGap`).

`StockTakeProofs`, for any products, takes and limits:

- `LeakageIsLoss` (`LeakageTellsLoss`) and `PostsCorrect` (the action property `CountCorrectsBalance`)
  from `ShelfIsKnown` (the shelf is the opening stock less what was sold, logged and lost) and
  `CountsAreTrue` (a count differs from the record of its moment by what was lost, or adjusted,
  before it). `DecidesOneOpen` gives the manager an approval to decide.

The constants are assumed to be what each module's `...Constants` says: sets of the right
kind, one delivery, sale, order or tap at least, finite where the code counts or adds, `MaxDate`,
`MaxEvents` at least one, and what the database guarantees (a product occurs once
in a PO, `procurement/models.py:153`; keys of different tables are different). TLC evaluates them in every run.

Sums over sets and greatest members are not proved by induction, whose theorem takes an operator:
they use `WFMin` of `WellFoundedInduction`, the least size of a counterexample. The lemmas on sums
stand in `PosIngestProofs`, in `ProcurementProofs`, where two sets are added over, and in
`InventoryProofs`, for `SumFunctionOnSet` as the reports use it. The queue
of `WaiterQueue` is a sequence without repetitions, and takes an action out with `RemoveFirst`,
of which the provers can be told what it returns.

Proved and not run by themselves: `NegativeGuard`, `StatusEarned`, and `ShortagesAreFlagged`, which
is one conjunct of `StockIsAccounted`.

Every invariant, action property and refinement of a passing run is thus a theorem. Only
model-checked:

- the liveness properties: `RequestsEnd`, `PendingIsTaken`, `EventuallyIngested`, `TapsAreFlushed` and
  `RequestsSettle`. They rest on fairness, and so on `ENABLED`, which is beyond the prover;
- the two properties that the code violates.

## 5. Where the code and its documents disagree

Shown by a run:

1. A FAILED or orphaned SENDING outbox record is never retried (`pastel/tasks.py:111`
   selects PENDING only), against `src/docs/SYSTEM_OVERVIEW.md:80`. `outbox_settled`
2. `mark_ready` looks for approvals of the order (`kitchen/services.py:38`), but an extra
   usage's approval is about its wastage entry, so the guard of data-model.md:244 never
   holds. `kitchen_ready`

Known from the same models. A property with such an exception does not rule the case out: it says
that nothing else leads there.

3. Two overlapping posts of a document append it twice (`inventory/services.py:86`, no lock),
   against "posting the same document twice is a no-op" (line 81): `RepeatNeedsOverlap`.
4. A GRN onto a negative balance is refused unless it brings it to zero
   (`inventory/services.py:105`), though it does not drive stock below zero (docstring, line 79):
   the guard `Sufficient` of `Procurement`.
5. A final decision is overwritten by a request that loaded the approval while open
   (`core/services.py:88`, docstring 82-83): `FinalUnlessRaced`.
6. Pastel receives a record twice after an overlap or a crash (`pastel/tasks.py:35`; SC-008,
   spec.md:294): `excused` in `Delivers`.
7. Two replays of one sale that overlap can both find no movements and both deduct it
   (`inventory/services.py:86`, no lock; replays one after another move nothing), and one that read
   a line before its recipe was published writes FLAGGED over the other's REPLAYED: `overlapped`
   in `EventTellsOutcome`.
8. Two waiters can both be told that they served an order (`kitchen/services.py:50`;
   spec.md:171): `raced` in `ServesAreExplained`. `start` and `ready` have no guard at all
   (data-model.md:244): `revived` in the same property.
9. A GRN submitted again after a lost answer is received twice (FR-041, spec.md:257:
   `procurement/services.py:261` has no key): `unsure` in `CostsAreDelivered`.
10. A transfer that waits for approval is posted by a second request after the threshold was
    raised (`inventory/services.py:251`; SYSTEM_OVERVIEW.md:78): `PostedWithClearance` counts the
    threshold of the posting, not of the submission.
11. A waiter's action whose answer was lost is applied again: the views ignore its
    `Idempotency-Key` (`actionQueue.ts:6-7`); one that meets a refused token refresh is dropped
    (`useWaiterService.ts:63`): `repeated` and `dropped` in `TapCountsOnce`.
12. Two overlapping publications, or a publication and a submission, leave two versions in force or
    none (`menu/services.py:68`, `menu/models.py:83`; docstring of `publish_version`: "never
    overlaps"): `raced` in `WindowsAreDisjoint`, `OrdersKeepRecipe` and `LiveUntilDate`.
13. What moves between the opening of a take and the count is taken for a variance, and so deducted
    twice (`inventory/services.py:296`; spec.md:173 wants concurrent movements flagged), two open
    takes of a location adjust twice, and counts saved after the decision change what was
    decided (`inventory/views.py:290`): the conditions of `CountCorrectsBalance` (`Undisturbed`).
14. Saving counts writes 0 for every box nobody touched (`WastagePage.tsx:243-246`), so a product
    that was not counted is adjusted to nothing, although the backend keeps NULL for "not
    counted" (`inventory/services.py:323`): `Blank` in `StockTake`.
15. A key is made for each click (`src/frontend/src/features/issues`), so the guard of
    `core/idempotency.py` sees a repetition only when the transport repeats a request: a user who
    clicks again after a lost answer comes with a new key. A note that was posted by then is only
    answered, but two requests under way at once both post it (`inventory/services.py:86`): `raced` in
    `NotesAreTrue`. Creating a note has no key at all: `unsure` there. Two lines of one product leave a draft without lines
    (`inventory/services.py:185-191`: header and lines are two commits).
16. Two requests of a page that refresh at once cost the session, since the second presents a
    token that the first has used up (`apiClient.ts:85-97`); a network failure during bootstrap leaves
    the page on its spinner until it is loaded again (`authStore.ts:43-56`): `harmed` in
    `SessionIsExplained`, "stuck" in `RequestsSettle`.
17. The card of the integration page counts FAILED records only (`core/views.py`): an ABANDONED
    one shows by a notification that no screen displays and that is lost if the worker dies before it
    writes it, one left SENDING shows nowhere: `TroubleShows`. The POS card's FAILED is a status no event gets.
18. `PastelStub.get_on_hand` promises zero divergence (docstring, `pastel/stub.py:61`), but a product
    without a Pastel code diverges by its whole balance, and one that shares its Pastel code with another
    (the column is not unique) may be answered the other's: `Unknown`, the last conjunct of `ReportsAgree`.
19. "Transfer posted" (`IssuesPage.tsx:375`) is shown for every answer 200, also that of a transfer which
    is left PENDING_APPROVAL and has moved nothing (`inventory/services.py:252-261`): `Handled` in
    `NotesAreTrue`. The button stays, so a transfer can be submitted twice, and rejecting an approval
    marks it REJECTED although it has moved meanwhile (`inventory/models.py:195`): why
    `WishMovesOnce` says "what has moved is POSTED" of issues only.

Seen in the code and not in a model: the recipe dialog reads `results` of an endpoint that answers
with a plain list (`src/frontend/src/features/menu/api.ts`, `menu/views.py:75`) and shows no version,
and it offers Publish for statuses no version has but not for REVIEW (`MenuPage.tsx:154`); publishing
from the current version's own date or an earlier one fails on a CHECK; `MenuItem.status` is read
by nobody; the Send button
(`PurchaseOrdersTab.tsx:59`) is shown for a status no PO has; a rejected stock take stays
PENDING_APPROVAL (`inventory/models.py:247`); the Pastel report imports a module that does not exist and is
always empty (`reports/views.py:310`); budget against actual takes all GRNs of the budget's orders, not those
"posted within the date range" (`procurement/selectors.py:19`), and repeats one wastage total on
each row; issues by destination has no value, as issues carry no cost; a product with no stock and
no reorder level is flagged with a suggestion of 0; an order that was returned is timed to its last
start (`reports/selectors.py:371`); recipe costing prices every PUBLISHED version, those not yet in force
included.

## 6. Plan

Done, in this order: `StockLedger` with its abstract specification and proofs, `Approvals` with
proofs, `Outbox`, `PosIngest`, `Kitchen` and `WaiterQueue`, `Procurement`, `RecipeVersions`,
`StockTake`, `Session` and `IssueDesk`, `Delivery` and the refinement from `Outbox`, `Reports`, the
registers of `Procurement`, and the rounding drift in `StockLedger` and its proof.

Then the proofs: `Outbox` with its refinement, `RecipeVersions`, `Kitchen` and `WaiterQueue`,
`StockTake`, `PosIngest`, `Procurement`, and last `Session` with `IssueDesk`, `Reports`, and the
refinement from `StockLedger` to `AbstractLedger`. Nothing of the plan is left.

Not planned: what "Not modelled" lists. The reads of a report that mix two moments, and a
reconciliation that runs while postings commit, would be worth a model if a report were ever
used to correct stock.
