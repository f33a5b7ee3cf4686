---------------------------- MODULE StockLedger ----------------------------
(***************************************************************************)
(* The choke point of the inventory: post_movements, the only writer of    *)
(* the stock ledger (backend/apps/inventory/services.py).                  *)
(*                                                                         *)
(* Stock documents are posted the same way: a request loads the document,  *)
(* a transaction looks for ledger rows of the document, locks one          *)
(* StockBalance row per line (SELECT ... FOR UPDATE, in line order),       *)
(* appends the ledger row and rewrites the balance, writes one             *)
(* OutboxRecord, marks the document POSTED and commits.  Requests run in   *)
(* several web and Celery processes on PostgreSQL at READ COMMITTED: a     *)
(* transaction reads committed rows and its own writes, and waits for a    *)
(* row another transaction has locked.                                     *)
(*                                                                         *)
(* The database's ledger is kept per StockBalance row as the sum of its    *)
(* qty_delta column: no property tells two ledgers of the same sums and    *)
(* the same documents apart.                                               *)
(*                                                                         *)
(* Quantities: qty_on_hand and qty_delta are NUMERIC(12, 3) columns, in    *)
(* thousandths here; the Decimal of a MovementLine has more digits (a      *)
(* recipe quantity times a conversion factor of six decimals) and is in    *)
(* ten-thousandths here, one digit more than the column keeps.             *)
(***************************************************************************)
EXTENDS Integers, Sequences, FiniteSets

CONSTANTS
  Doc,             \* stock documents: (document_type, document_id)
  Key,             \* StockBalance rows: (product, location)
  Txn,             \* requests and tasks that may post at the same time
  None,            \* no transaction, no document
  StatusGuarded,   \* documents whose service returns early once POSTED
  MadeToPost,      \* documents created by the transaction that posts them
  LinesOf,         \* LinesOf[d]: the MovementLines the service builds for d
  AllowNegativeOf, \* the values of allow_negative d may be posted with
  Opening          \* quantity on hand, per row, when the behaviour begins

Line == [key : Key, delta : Int]

ASSUME LedgerConstants ==
  /\ None \notin Txn
  /\ None \notin Doc
  /\ StatusGuarded \subseteq Doc
  /\ MadeToPost \subseteq Doc
  /\ LinesOf \in [Doc -> Seq(Line)]
  /\ AllowNegativeOf \in [Doc -> SUBSET BOOLEAN]
  /\ Opening \in [Key -> Int]

VARIABLES
  qtyOnHand,     \* StockBalance.qty_on_hand, as committed
  ledger,        \* per row, the sum of the committed StockMovement.qty_delta
  postings,      \* per document, how often its lines were appended
  outbox,        \* per document, the number of its OutboxRecords
  status,        \* per document, DRAFT (any unposted status) or POSTED
  rowLock,       \* the transaction that holds each StockBalance row, or None
  pc,            \* idle, loaded (document read) or posting (in transaction)
  doc,           \* the document each request posts
  seenStatus,    \* the status of that document when the view loaded it
  allowNegative, \* the argument of the same name
  next,          \* the line to post next
  newQty,        \* uncommitted qty_on_hand of the rows a transaction holds
  appended,      \* per row, the sum of its uncommitted ledger rows
  halving,       \* history: per row, how many of those were rounded from a half
  halved,        \* history: the same of the committed ledger rows
  overdrawn,     \* history: rows some posting with allow_negative wrote
  overlapped     \* history: documents that two transactions posted at once

database == <<qtyOnHand, ledger, postings, outbox, status>>
request == <<doc, seenStatus, allowNegative>>
work == <<next, newQty, appended, halving>>
history == <<halved, overdrawn, overlapped>>
vars == <<database, rowLock, pc, request, work, history>>

Status == {"DRAFT", "POSTED"}

(* What a NUMERIC(12, 3) column keeps of a Decimal: PostgreSQL rounds to   *)
(* the nearest thousandth, halves away from zero.                          *)
Stored(q) == IF q >= 0 THEN (q + 5) \div 10 ELSE -((5 - q) \div 10)

(* Whether a quantity is half-way between two thousandths, counted: only   *)
(* the rounding of such a one depends on the balance that it is added to.  *)
Half(q) == IF q % 10 = 5 THEN 1 ELSE 0

NoRows == [k \in Key |-> 0]

(* Every variable has the type its column or local has in the code. *)
TypeOK ==
  /\ qtyOnHand \in [Key -> Int]
  /\ ledger \in [Key -> Int]
  /\ postings \in [Doc -> Nat]
  /\ outbox \in [Doc -> Nat]
  /\ status \in [Doc -> Status]
  /\ rowLock \in [Key -> Txn \cup {None}]
  /\ pc \in [Txn -> {"idle", "loaded", "posting"}]
  /\ doc \in [Txn -> Doc \cup {None}]
  /\ \A t \in Txn : pc[t] # "idle" => doc[t] \in Doc
  /\ seenStatus \in [Txn -> Status]
  /\ allowNegative \in [Txn -> BOOLEAN]
  /\ next \in [Txn -> Nat \ {0}]
  /\ newQty \in [Txn -> [Key -> Int]]
  /\ appended \in [Txn -> [Key -> Int]]
  /\ halving \in [Txn -> [Key -> Nat]]
  /\ halved \in [Key -> Nat]
  /\ overdrawn \in SUBSET Key
  /\ overlapped \in SUBSET Doc

Init ==
  /\ qtyOnHand = Opening
  /\ ledger = Opening
  /\ postings = [d \in Doc |-> 0]
  /\ outbox = [d \in Doc |-> 0]
  /\ status = [d \in Doc |-> "DRAFT"]
  /\ rowLock = [k \in Key |-> None]
  /\ pc = [t \in Txn |-> "idle"]
  /\ doc = [t \in Txn |-> None]
  /\ seenStatus = [t \in Txn |-> "DRAFT"]
  /\ allowNegative = [t \in Txn |-> FALSE]
  /\ next = [t \in Txn |-> 1]
  /\ newQty = [t \in Txn |-> NoRows]
  /\ appended = [t \in Txn |-> NoRows]
  /\ halving = [t \in Txn |-> NoRows]
  /\ halved = NoRows
  /\ overdrawn = {k \in Key : Opening[k] < 0}
  /\ overlapped = {}

(* The line a posting transaction executes next. *)
Lines(t) == LinesOf[doc[t]]
CurrentLine(t) == Lines(t)[next[t]]

EndOfLinesEarly(t) == next[t] >= Len(Lines(t))  \* mutant: the last line is lost
EndOfLines(t) == next[t] > Len(Lines(t))
HasLine(t) == pc[t] = "posting" /\ ~EndOfLines(t)
Held(t) == {k \in Key : rowLock[k] = t}

(* SELECT ... FOR UPDATE returns the transaction's own version of a row it *)
(* already holds, else the latest committed version.                       *)
LockedQty(t) ==
  LET k == CurrentLine(t).key
  IN  IF rowLock[k] = t THEN newQty[t][k] ELSE qtyOnHand[k]

(* The guard of post_movements, on the quantity before it is rounded. *)
Sufficient(t) ==
  10 * LockedQty(t) + CurrentLine(t).delta >= 0 \/ allowNegative[t]

RowFreeUnlocked(t) == TRUE  \* mutant: get_or_create without select_for_update
RowFree(t) == rowLock[CurrentLine(t).key] \in {t, None}

Blocked(t) == HasLine(t) /\ CurrentLine(t).delta # 0 /\ ~RowFree(t)
Blocker(t) == rowLock[CurrentLine(t).key]

(* Transactions that wait for each other in a ring. *)
Deadlocked(t) ==
  \E ring \in SUBSET Txn :
    /\ t \in ring
    /\ \A u \in ring : Blocked(u)
    /\ ring = {Blocker(u) : u \in ring}

(* A request ends: its locals are gone and, in the database, its locks. *)
EndRequest(t) ==
  /\ pc' = [pc EXCEPT ![t] = "idle"]
  /\ doc' = [doc EXCEPT ![t] = None]
  /\ seenStatus' = [seenStatus EXCEPT ![t] = "DRAFT"]
  /\ allowNegative' = [allowNegative EXCEPT ![t] = FALSE]
  /\ next' = [next EXCEPT ![t] = 1]
  /\ newQty' = [newQty EXCEPT ![t] = NoRows]
  /\ appended' = [appended EXCEPT ![t] = NoRows]
  /\ halving' = [halving EXCEPT ![t] = NoRows]
  /\ rowLock' = [k \in Key |-> IF rowLock[k] = t THEN None ELSE rowLock[k]]

RollbackLeaking(t) ==  \* mutant: the connection is reused, its locks are kept
  /\ pc' = [pc EXCEPT ![t] = "idle"]
  /\ UNCHANGED <<database, rowLock, request, work, history>>
Rollback(t) == EndRequest(t) /\ UNCHANGED <<database, history>>

(* The last write of a service: status POSTED on the document it holds. *)
MarkPostedUnsaved(t) == status  \* mutant: no save after the assignment
MarkPosted(t) == [status EXCEPT ![doc[t]] = "POSTED"]

(* Committed ledger rows of the document, which post_movements looks for. *)
HasRowsUnseen(t) == FALSE  \* mutant: no look-up before posting
HasRows(t) == postings[doc[t]] > 0

(* The view reads the document, outside any transaction.  A document that  *)
(* is made to be posted (a GRN) is its own request's alone, until POSTED.  *)
LoadDocumentAbsent(t) ==  \* mutant: filter(pk=pk).first() for get_object_or_404
  /\ pc[t] = "idle"
  /\ pc' = [pc EXCEPT ![t] = "loaded"]
  /\ UNCHANGED <<database, rowLock, request, work, history>>
LoadDocument(t) ==
  /\ pc[t] = "idle"
  /\ \E d \in Doc : \E allow \in AllowNegativeOf[d] :
       /\ d \in MadeToPost => status[d] = "DRAFT" /\ \A u \in Txn : doc[u] # d
       /\ pc' = [pc EXCEPT ![t] = "loaded"]
       /\ doc' = [doc EXCEPT ![t] = d]
       /\ seenStatus' = [seenStatus EXCEPT ![t] = status[d]]
       /\ allowNegative' = [allowNegative EXCEPT ![t] = allow]
  /\ UNCHANGED <<database, rowLock, work, history>>

(* The service returns early when the loaded document is POSTED; replaying *)
(* a sale has no such test.                                                *)
SeenPosted(t) == doc[t] \in StatusGuarded /\ seenStatus[t] = "POSTED"

AlreadyPosted(t) ==
  /\ pc[t] = "loaded"
  /\ SeenPosted(t)
  /\ Rollback(t)

(* post_movements refuses a document without lines. *)
RefuseEmpty(t) ==
  /\ pc[t] = "loaded"
  /\ ~SeenPosted(t)
  /\ Lines(t) = <<>>
  /\ Rollback(t)

(* post_movements finds committed rows of the document and returns them;   *)
(* the service then marks the document POSTED.                             *)
ReturnExisting(t) ==
  /\ pc[t] = "loaded"
  /\ ~SeenPosted(t)
  /\ Lines(t) # <<>>
  /\ HasRows(t)
  /\ status' = MarkPosted(t)
  /\ EndRequest(t)
  /\ UNCHANGED <<qtyOnHand, ledger, postings, outbox, history>>

(* post_movements finds no committed rows: the posting begins.  The read   *)
(* takes no lock, so a second transaction may find none either.            *)
BeginPosting(t) ==
  /\ pc[t] = "loaded"
  /\ ~SeenPosted(t)
  /\ Lines(t) # <<>>
  /\ ~HasRows(t)
  /\ pc' = [pc EXCEPT ![t] = "posting"]
  /\ overlapped' = IF \E u \in Txn \ {t} : pc[u] = "posting" /\ doc[u] = doc[t]
                   THEN overlapped \cup {doc[t]}
                   ELSE overlapped
  /\ UNCHANGED <<database, rowLock, request, work, halved, overdrawn>>

(* One turn of the loop: lock the balance row, check it, append the ledger *)
(* row and write the new balance, all inside the transaction.              *)
PostLine(t) ==
  /\ HasLine(t)
  /\ RowFree(t)
  /\ Sufficient(t)
  /\ LET l == CurrentLine(t)
         qty == 10 * LockedQty(t) + l.delta
     IN  /\ Stored(l.delta) # 0
         /\ rowLock' = [rowLock EXCEPT ![l.key] = t]
         /\ newQty' = [newQty EXCEPT ![t][l.key] = Stored(qty)]
         /\ appended' = [appended EXCEPT ![t][l.key] = @ + Stored(l.delta)]
         /\ halving' = [halving EXCEPT ![t][l.key] = @ + Half(l.delta)]
  /\ next' = [next EXCEPT ![t] = @ + 1]
  /\ UNCHANGED <<database, pc, request, history>>

(* InsufficientStockError: the whole transaction is rolled back. *)
RaiseInsufficient(t) ==
  /\ HasLine(t)
  /\ CurrentLine(t).delta # 0
  /\ RowFree(t)
  /\ ~Sufficient(t)
  /\ Rollback(t)

(* A line of quantity zero is a ValidationError; one that the column would *)
(* round to zero violates the CHECK constraint of StockMovement.           *)
RefuseZero(t) ==
  /\ HasLine(t)
  /\ Stored(CurrentLine(t).delta) = 0
  /\ ~Blocked(t)
  /\ Rollback(t)

(* After the last line: the OutboxRecord, the document's status, COMMIT. *)
Commit(t) ==
  /\ pc[t] = "posting"
  /\ EndOfLines(t)
  /\ qtyOnHand' = [k \in Key |-> IF rowLock[k] = t THEN newQty[t][k] ELSE qtyOnHand[k]]
  /\ ledger' = [k \in Key |-> ledger[k] + appended[t][k]]
  /\ halved' = [k \in Key |-> halved[k] + halving[t][k]]
  /\ postings' = [postings EXCEPT ![doc[t]] = @ + 1]
  /\ outbox' = [outbox EXCEPT ![doc[t]] = @ + 1]
  /\ status' = MarkPosted(t)
  /\ overdrawn' = IF allowNegative[t] THEN overdrawn \cup Held(t) ELSE overdrawn
  /\ EndRequest(t)
  /\ UNCHANGED overlapped

(* PostgreSQL aborts one transaction of a ring of waiting ones. *)
DeadlockVictim(t) == Deadlocked(t) /\ Rollback(t)

(* The process dies, or its connection does: the transaction is undone. *)
Crash(t) == pc[t] # "idle" /\ Rollback(t)

Step(t) ==
  \/ AlreadyPosted(t) \/ RefuseEmpty(t) \/ ReturnExisting(t) \/ BeginPosting(t)
  \/ PostLine(t) \/ RaiseInsufficient(t) \/ RefuseZero(t) \/ Commit(t)

Next == \E t \in Txn : LoadDocument(t) \/ Step(t) \/ DeadlockVictim(t) \/ Crash(t)

Spec == Init /\ [][Next]_vars

(* A process that runs keeps running; a waiter for a row lock is served    *)
(* when the row is free again (the queue of a row is first come, first     *)
(* served); the deadlock detector fires after deadlock_timeout.            *)
Fairness ==
  /\ \A t \in Txn : SF_vars(Step(t))
  /\ \A t \in Txn : WF_vars(DeadlockVictim(t))

FairSpec == Spec /\ Fairness
Abstract == INSTANCE AbstractLedger WITH qtyOnHand <- qtyOnHand, postings <- postings
-----------------------------------------------------------------------------
(* The cached balance is the ledger: qty_on_hand of every row is the sum   *)
(* of its movements, although it is rewritten from a value read earlier    *)
(* while other transactions post.  The two are rounded separately, and     *)
(* drift apart by no more than a thousandth for every movement whose       *)
(* quantity was half-way between two (services.py, lines 100-122).         *)
Within(q, n) == -n <= q /\ q <= n

BalanceIsLedger == \A k \in Key : Within(qtyOnHand[k] - ledger[k], halved[k])

(* A row is negative only when a posting with allow_negative wrote it: the *)
(* guard of post_movements tests the value the row has when it is written. *)
NegativeOnlyIfAllowed ==
  \A k \in Key : qtyOnHand[k] < 0 => k \in overdrawn

(* The ledger, the outbox and the document's status never disagree,        *)
(* whatever crashes, errors and re-posts happened in between: a document   *)
(* with lines to post is POSTED exactly when it has movements, and every   *)
(* posting is mirrored by one OutboxRecord.  A stock take without variance *)
(* never comes to post_movements: it is POSTED without any (services.py,   *)
(* lines 323-328; PostNoVariance of StockTake).                            *)
PostingIsWhole ==
  \A d \in Doc :
    /\ outbox[d] = postings[d]
    /\ status[d] = "POSTED" <=> postings[d] > 0

(* A document is appended twice only when two transactions looked for its  *)
(* rows before either had committed any: a repeated request that arrives   *)
(* after the first one ended moves nothing.                                *)
RepeatNeedsOverlap == \A d \in Doc : postings[d] > 1 => d \in overlapped

(* No lost update: what a transaction will write into a row it holds is    *)
(* the committed balance plus its own ledger rows, but for their halves,   *)
(* and it has ledger rows only where it holds the balance.                 *)
NoLostUpdate ==
  \A t \in Txn : \A k \in Key :
    IF rowLock[k] = t
      THEN Within(newQty[t][k] - qtyOnHand[k] - appended[t][k], halving[t][k])
      ELSE appended[t][k] = 0 /\ halving[t][k] = 0

(* Why these hold (the inductive invariants of InventoryProofs): only a    *)
(* posting transaction holds rows, what it will write respects the guard,  *)
(* and two postings of one document in progress, or one in progress of a   *)
(* document already posted, are an overlap.                                *)
LocksArePostings ==
  \A k \in Key : rowLock[k] # None => pc[rowLock[k]] = "posting"

HeldWithinGuard ==
  \A t \in Txn : \A k \in Key :
    rowLock[k] = t /\ ~allowNegative[t] => newQty[t][k] >= 0

OverlapRecorded ==
  \A t \in Txn : pc[t] = "posting" =>
    /\ postings[doc[t]] > 0 => doc[t] \in overlapped
    /\ \A u \in Txn \ {t} :
         pc[u] = "posting" /\ doc[u] = doc[t] => doc[t] \in overlapped

GuardInv == LocksArePostings /\ HeldWithinGuard /\ NegativeOnlyIfAllowed
BalanceInv == BalanceIsLedger /\ NoLostUpdate
RepeatInv == OverlapRecorded /\ RepeatNeedsOverlap

(* The interleaved, locking, crashing transactions implement the atomic    *)
(* postings of AbstractLedger.                                             *)
Serializable == Abstract!Spec

(* Every request that posts a document ends, however the row locks of      *)
(* concurrent postings interleave.                                         *)
RequestsEnd == \A t \in Txn : pc[t] # "idle" ~> pc[t] = "idle"
=============================================================================
