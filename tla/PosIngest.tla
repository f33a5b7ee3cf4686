------------------------------ MODULE PosIngest ------------------------------
(***************************************************************************)
(* Sales reported by the POS (backend/apps/pos_ingest/services.py and      *)
(* views.py): ingestion, which the POS may push and repeat, and the        *)
(* administrator's replay of a sale whose menu items were not known.       *)
(*                                                                         *)
(* Each call is one READ COMMITTED transaction: what it has written is     *)
(* local to its worker until it commits, and an INSERT of a pos_sale_id    *)
(* another transaction has inserted waits for that transaction.            *)
(*                                                                         *)
(* Every menu item draws on one ingredient.  Usage is in thousandths of    *)
(* its stock unit, rounded as the column rounds; a sale that uses less     *)
(* than half a thousandth has usage 0, which StockMovement's CHECK refuses.*)
(***************************************************************************)
EXTENDS Integers, FiniteSets, FiniteSetsExt

CONSTANTS
  Sale,         \* pos_sale_ids
  Item,         \* pos_codes on the lines of sales
  Lines,        \* the items of each sale
  Usage,        \* what the deduction of each sale amounts to
  Request,      \* ingestion requests that may run at the same time
  Replayer,     \* replay requests that may run at the same time
  Opening,      \* the ingredient's balance at the start
  MaxStock,     \* bound: other postings leave at most this much
  MaxFaults     \* bound: transactions that fail

Worker == Request \cup Replayer

ASSUME PosConstants ==
  /\ Sale # {} /\ IsFiniteSet(Sale)
  /\ Lines \in [Sale -> (SUBSET Item) \ {{}}]
  /\ Usage \in [Sale -> Nat]
  /\ Request \cap Replayer = {}
  /\ Opening \in Nat
  /\ MaxStock \in Nat
  /\ MaxFaults \in Nat

VARIABLES
  menu,        \* items with a menu item and a published recipe
  onHand,      \* StockBalance of the ingredient at Restaurant Stores
  moved,       \* history: what other postings have added to it
  event,       \* SaleEvent.status; ABSENT before it is ingested
  recipe,      \* the lines of its order that have a recipe_version
  short,       \* Order.flagged_insufficient_stock
  deductions,  \* how often the movements of its order were posted
  late,        \* history: sales a replay has deducted
  answered,    \* history: whether a request for it was answered
  pc,          \* where a worker is
  sale,        \* the sale it works on
  todo,        \* the lines it has still to resolve
  mine,        \* the lines whose recipe_version it has set, uncommitted
  missed,      \* whether it met a line it could not resolve
  faults,      \* transactions that failed
  overlapped   \* history: sales two replays worked on at once

stock == <<onHand, moved>>
order == <<recipe, short>>
sales == <<event, order, deductions, late, answered>>
locals == <<pc, sale, todo, mine, missed>>
vars == <<menu, stock, sales, locals, faults, overlapped>>

Status == {"ABSENT", "INGESTED", "FLAGGED_UNKNOWN_ITEM", "REPLAYED"}

(* Every variable has the type its column or local has in the code, a line *)
(* is resolved at most once, and an idle worker holds nothing.             *)
TypeOK ==
  /\ menu \in SUBSET Item
  /\ onHand \in Int
  /\ moved \in Int
  /\ event \in [Sale -> Status]
  /\ recipe \in [Sale -> SUBSET Item]
  /\ short \in [Sale -> BOOLEAN]
  /\ deductions \in [Sale -> Nat]
  /\ late \in SUBSET Sale
  /\ answered \in SUBSET Sale
  /\ pc \in [Worker -> {"idle", "inserting", "resolving", "short", "replaying", "deducting"}]
  /\ sale \in [Worker -> Sale]
  /\ todo \in [Worker -> SUBSET Item]
  /\ mine \in [Worker -> SUBSET Item]
  /\ missed \in [Worker -> BOOLEAN]
  /\ \A w \in Worker : /\ todo[w] \cup mine[w] \subseteq Lines[sale[w]]
                       /\ todo[w] \cap mine[w] = {}
                       /\ pc[w] = "idle" => todo[w] = {} /\ mine[w] = {}
  /\ faults \in 0..MaxFaults
  /\ overlapped \in SUBSET Sale

Init ==
  /\ menu \in SUBSET Item
  /\ onHand = Opening
  /\ moved = 0
  /\ event = [s \in Sale |-> "ABSENT"]
  /\ recipe = [s \in Sale |-> {}]
  /\ short = [s \in Sale |-> FALSE]
  /\ deductions = [s \in Sale |-> 0]
  /\ late = {}
  /\ answered = {}
  /\ pc = [w \in Worker |-> "idle"]
  /\ sale = [w \in Worker |-> CHOOSE s \in Sale : TRUE]
  /\ todo = [w \in Worker |-> {}]
  /\ mine = [w \in Worker |-> {}]
  /\ missed = [w \in Worker |-> FALSE]
  /\ faults = 0
  /\ overlapped = {}

-----------------------------------------------------------------------------
(* w's transaction is over. *)
ReleaseKeeps(w) ==  \* mutant: what a transaction has set outlives it
  /\ pc' = [pc EXCEPT ![w] = "idle"]
  /\ missed' = [missed EXCEPT ![w] = FALSE]
  /\ UNCHANGED <<sale, todo, mine>>
Release(w) ==
  /\ pc' = [pc EXCEPT ![w] = "idle"]
  /\ todo' = [todo EXCEPT ![w] = {}]
  /\ mine' = [mine EXCEPT ![w] = {}]
  /\ missed' = [missed EXCEPT ![w] = FALSE]
  /\ UNCHANGED sale

(* The POS is told that its sale s is here. *)
Return(w, s) ==
  /\ answered' = answered \cup {s}
  /\ Release(w)
  /\ UNCHANGED <<menu, stock, event, order, deductions, late, faults, overlapped>>

(* ingest_sale_event looks the sale up and returns it if it is there. *)
Lookup(w, s) ==
  /\ pc[w] = "idle"
  /\ \/ /\ event[s] # "ABSENT"
        /\ Return(w, s)
     \/ /\ event[s] = "ABSENT"
        /\ pc' = [pc EXCEPT ![w] = "inserting"]
        /\ sale' = [sale EXCEPT ![w] = s]
        /\ UNCHANGED <<menu, stock, sales, todo, mine, missed, faults, overlapped>>

(* A transaction that has inserted s and not ended. *)
Inserted(s) ==
  \E w \in Request : sale[w] = s /\ pc[w] \in {"resolving", "short"}

(* The savepoint: the insert waits for any transaction that inserted the   *)
(* same pos_sale_id, and returns its event if that one committed.          *)
InsertUnchecked(w) ==  \* mutant: pos_sale_id is not unique
  LET s == sale[w]
  IN  /\ pc[w] = "inserting"
      /\ pc' = [pc EXCEPT ![w] = "resolving"]
      /\ todo' = [todo EXCEPT ![w] = Lines[s]]
      /\ UNCHANGED <<menu, stock, sales, sale, mine, missed, faults, overlapped>>
Insert(w) ==
  LET s == sale[w]
  IN  /\ pc[w] = "inserting"
      /\ ~Inserted(s)
      /\ \/ /\ event[s] # "ABSENT"
            /\ Return(w, s)
         \/ /\ event[s] = "ABSENT"
            /\ pc' = [pc EXCEPT ![w] = "resolving"]
            /\ todo' = [todo EXCEPT ![w] = Lines[s]]
            /\ UNCHANGED <<menu, stock, sales, sale, mine, missed, faults, overlapped>>

(* The next line of its order takes the recipe that is active now, if any. *)
Resolve(w, i) ==
  /\ i \in todo[w]
  /\ todo' = [todo EXCEPT ![w] = @ \ {i}]
  /\ IF i \in menu
     THEN mine' = [mine EXCEPT ![w] = @ \cup {i}] /\ UNCHANGED missed
     ELSE missed' = [missed EXCEPT ![w] = TRUE] /\ UNCHANGED mine
  /\ UNCHANGED <<menu, stock, sales, pc, sale, faults, overlapped>>

ResolveItem(w, i) ==
  /\ pc[w] = "resolving"
  /\ Resolve(w, i)

(* The order commits with the lines w resolved. *)
Commit(w, status) ==
  LET s == sale[w]
  IN  /\ event' = [event EXCEPT ![s] = status]
      /\ recipe' = [recipe EXCEPT ![s] = @ \cup mine[w]]
      /\ Release(w)

(* The movements of the deduction: none of them is zero. *)
Deduct(s) ==
  /\ Usage[s] > 0
  /\ onHand' = onHand - Usage[s]
  /\ deductions' = [deductions EXCEPT ![s] = @ + 1]

Resolved(w) == pc[w] = "resolving" /\ todo[w] = {}

(* A line has no recipe: the event is flagged and nothing is deducted.     *)
FlagUnknown(w) ==
  LET s == sale[w]
  IN  /\ Resolved(w)
      /\ missed[w]
      /\ Commit(w, "FLAGGED_UNKNOWN_ITEM")
      /\ answered' = answered \cup {s}
      /\ UNCHANGED <<menu, stock, short, deductions, late, faults, overlapped>>

(* Every line has a recipe and the stock covers it. *)
Ingest(w) ==
  LET s == sale[w]
  IN  /\ Resolved(w)
      /\ ~missed[w]
      /\ onHand - Usage[s] >= 0
      /\ Deduct(s)
      /\ Commit(w, "INGESTED")
      /\ answered' = answered \cup {s}
      /\ UNCHANGED <<menu, moved, short, late, faults, overlapped>>

(* It does not: InsufficientStockError rolls the posting back, and the     *)
(* balance is free again until the second posting.                         *)
FallShortNever(w) ==  \* mutant: the shortage is not caught
  /\ Resolved(w)
  /\ onHand - Usage[sale[w]] < 0
  /\ Release(w)
  /\ UNCHANGED <<menu, stock, sales, faults, overlapped>>
FallShortKeeps(w) ==  \* mutant: the posting is not rolled back
  /\ Resolved(w)
  /\ ~missed[w]
  /\ onHand - Usage[sale[w]] < 0
  /\ pc' = [pc EXCEPT ![w] = "short"]
  /\ onHand' = onHand - Usage[sale[w]]
  /\ UNCHANGED <<menu, moved, sales, sale, todo, mine, missed, faults, overlapped>>
FallShort(w) ==
  /\ Resolved(w)
  /\ ~missed[w]
  /\ onHand - Usage[sale[w]] < 0
  /\ pc' = [pc EXCEPT ![w] = "short"]
  /\ UNCHANGED <<menu, stock, sales, sale, todo, mine, missed, faults, overlapped>>

(* The order is flagged and deducted whatever the stock is now. *)
IngestShort(w) ==
  LET s == sale[w]
  IN  /\ pc[w] = "short"
      /\ Deduct(s)
      /\ Commit(w, "INGESTED")
      /\ short' = [short EXCEPT ![s] = TRUE]
      /\ answered' = answered \cup {s}
      /\ UNCHANGED <<menu, moved, late, faults, overlapped>>

-----------------------------------------------------------------------------
(* A replay of s that has not ended. *)
Replays(w, s) == pc[w] \in {"replaying", "deducting"} /\ sale[w] = s

(* replay_sale_event reads the order's lines; it asks for no status and    *)
(* locks neither the event nor the order.                                  *)
StartReplay(w, s) ==
  /\ pc[w] = "idle"
  /\ event[s] # "ABSENT"
  /\ pc' = [pc EXCEPT ![w] = "replaying"]
  /\ sale' = [sale EXCEPT ![w] = s]
  /\ todo' = [todo EXCEPT ![w] = Lines[s] \ recipe[s]]
  /\ overlapped' = overlapped \cup {s2 \in {s} : \E v \in Replayer \ {w} : Replays(v, s)}
  /\ UNCHANGED <<menu, stock, sales, mine, missed, faults>>

(* A line that now has a recipe is saved; the save waits for another       *)
(* replay that has saved the line and not ended.                           *)
ReplayItem(w, i) ==
  /\ pc[w] = "replaying"
  /\ \/ i \notin menu
     \/ \A v \in Replayer \ {w} : sale[v] = sale[w] => i \notin mine[v]
  /\ Resolve(w, i)

AllResolved(w) == pc[w] = "replaying" /\ todo[w] = {} /\ ~missed[w]

(* Every line has a recipe, so the deduction has lines (a recipe version   *)
(* has at least one).  post_movements looks for movements of the order,    *)
(* without a lock: if it has any they are returned and nothing is posted.  *)
ReplayExistingNever(w) ==  \* mutant: the look-up is not made
  /\ AllResolved(w)
  /\ pc' = [pc EXCEPT ![w] = "deducting"]
  /\ UNCHANGED <<menu, stock, sales, sale, todo, mine, missed, faults, overlapped>>
ReplayExisting(w) ==
  /\ AllResolved(w)
  /\ deductions[sale[w]] > 0
  /\ Commit(w, "REPLAYED")
  /\ UNCHANGED <<menu, stock, short, deductions, late, answered, faults, overlapped>>

BeginDeduction(w) ==
  /\ AllResolved(w)
  /\ deductions[sale[w]] = 0
  /\ pc' = [pc EXCEPT ![w] = "deducting"]
  /\ UNCHANGED <<menu, stock, sales, sale, todo, mine, missed, faults, overlapped>>

(* It had none when it was asked: the sale is deducted whatever the stock  *)
(* is, and no flag is set.                                                 *)
ReplayDone(w) ==
  LET s == sale[w]
  IN  /\ pc[w] = "deducting"
      /\ Deduct(s)
      /\ Commit(w, "REPLAYED")
      /\ late' = late \cup {s}
      /\ UNCHANGED <<menu, moved, short, answered, faults, overlapped>>

(* A line still has none. *)
ReplayFlagged(w) ==
  /\ pc[w] = "replaying"
  /\ todo[w] = {}
  /\ missed[w]
  /\ Commit(w, "FLAGGED_UNKNOWN_ITEM")
  /\ UNCHANGED <<menu, stock, short, deductions, late, answered, faults, overlapped>>

-----------------------------------------------------------------------------
(* A transaction fails or its process dies: nothing of it remains.         *)
Abort(w) ==
  /\ pc[w] # "idle"
  /\ faults < MaxFaults
  /\ faults' = faults + 1
  /\ Release(w)
  /\ UNCHANGED <<menu, stock, sales, overlapped>>

(* A deduction that rounds to zero raises IntegrityError, every time. *)
Reject(w) ==
  /\ \/ Resolved(w) /\ ~missed[w] /\ onHand - Usage[sale[w]] >= 0
     \/ pc[w] = "short"
     \/ pc[w] = "deducting"
  /\ Usage[sale[w]] = 0
  /\ Release(w)
  /\ UNCHANGED <<menu, stock, sales, faults, overlapped>>

(* A recipe is published for a menu item. *)
Publish(i) ==
  /\ i \notin menu
  /\ menu' = menu \cup {i}
  /\ UNCHANGED <<stock, sales, locals, faults, overlapped>>

(* Another document is posted, within the guard on negative stock. *)
Post(n) ==
  /\ onHand + n <= MaxStock
  /\ n > 0 \/ onHand + n >= 0
  /\ onHand' = onHand + n
  /\ moved' = moved + n
  /\ UNCHANGED <<menu, sales, locals, faults, overlapped>>

IngestStep(w) ==
  \/ Insert(w)
  \/ \E i \in Item : ResolveItem(w, i)
  \/ FlagUnknown(w)
  \/ Ingest(w)
  \/ FallShort(w)
  \/ IngestShort(w)

ReplayStep(w) ==
  \/ \E i \in Item : ReplayItem(w, i)
  \/ ReplayExisting(w)
  \/ BeginDeduction(w)
  \/ ReplayDone(w)
  \/ ReplayFlagged(w)

Next ==
  \/ \E w \in Request : IngestStep(w) \/ \E s \in Sale : Lookup(w, s)
  \/ \E w \in Replayer : ReplayStep(w) \/ \E s \in Sale : StartReplay(w, s)
  \/ \E w \in Worker : Abort(w) \/ Reject(w)
  \/ \E i \in Item : Publish(i)
  \/ \E n \in {-1, 1} : Post(n)

(* A transaction goes on to its end, and the POS does not leave out a sale *)
(* it has not had an answer for, whatever becomes of its other sales.      *)
Fairness ==
  /\ \A w \in Request : WF_vars(IngestStep(w) \/ Reject(w))
  /\ \A w \in Request, s \in Sale : SF_vars(Lookup(w, s))

Spec == Init /\ [][Next]_vars
FairSpec == Spec /\ Fairness

-----------------------------------------------------------------------------
(* The card an administrator sees.  It counts FAILED events too, a status  *)
(* that SaleEvent does not have.                                           *)
PosHealth ==
  IF \E s \in Sale : event[s] = "FLAGGED_UNKNOWN_ITEM" THEN "DEGRADED" ELSE "OK"

(* What an event says is so.  What the POS was told is here is here, with  *)
(* its order: no answer is given for an event whose transaction then       *)
(* fails.  An INGESTED sale was deducted once; a REPLAYED one too, however *)
(* often it is replayed, and a FLAGGED one never.  Only two replays of one *)
(* sale that overlap can break that: one that had read a line before its   *)
(* recipe was published writes FLAGGED over the other's REPLAYED, and two  *)
(* that both find no movements both post them.  A deduction is only made   *)
(* from a complete set of recipes (FR-PI-05; services.py:115-151,          *)
(* 171-200), and while a sale the POS has done with is not deducted, the   *)
(* administrator's card says so.  So a sale is deducted once, however      *)
(* often and concurrently it is sent (FR-PI-03).                           *)
EventTellsOutcome ==
  \A s \in Sale :
    /\ s \in answered \/ recipe[s] # {} \/ short[s] \/ deductions[s] > 0 => event[s] # "ABSENT"
    /\ event[s] = "INGESTED" => deductions[s] = 1 /\ s \notin late
    /\ event[s] = "REPLAYED" => deductions[s] > 0
    /\ event[s] = "FLAGGED_UNKNOWN_ITEM" /\ s \notin overlapped => deductions[s] = 0
    /\ deductions[s] > 1 => s \in overlapped /\ s \in late
    /\ deductions[s] > 0 => recipe[s] = Lines[s]
    /\ s \in answered /\ deductions[s] = 0 => PosHealth = "DEGRADED"

(* Stores is what other documents and the deductions of the sales made it, *)
(* and if the sales drove it below zero, one of them was flagged for the   *)
(* Storekeeper, or a replay deducted it, which flags nothing (FR-KD-05;    *)
(* services.py:124-155, 186-197).                                          *)
Deducted == MapThenSumSet(LAMBDA s : deductions[s] * Usage[s], Sale)
BalanceAddsUp == onHand = Opening + moved - Deducted
ShortageIsFlagged ==
  onHand < 0 => \E s \in Sale : short[s] \/ s \in late

StockIsAccounted == BalanceAddsUp /\ ShortageIsFlagged

(* A sale that uses a measurable quantity is ingested in the end, whatever *)
(* the stock and the menu are: neither blocks the kitchen's ticket         *)
(* (ingest_sale_event's docstring).                                        *)
EventuallyIngested ==
  \A s \in Sale : Usage[s] > 0 => <>(event[s] # "ABSENT")
=============================================================================
