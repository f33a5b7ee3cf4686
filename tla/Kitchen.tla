------------------------------- MODULE Kitchen -------------------------------
(***************************************************************************)
(* Orders between the kitchen and the table (backend/apps/kitchen).        *)
(*                                                                         *)
(* A request is a view's two steps: it reads the order without a lock, and *)
(* its service then writes the status blindly.  The buttons a client shows *)
(* are those of the list it fetched last.                                  *)
(*                                                                         *)
(* Counters of status events are saturating: they stop at MaxEvents.       *)
(***************************************************************************)
EXTENDS Integers, FiniteSets

CONSTANTS
  Order,       \* orders
  Chef,        \* kitchen displays; one request at a time each
  Waiter,      \* requests waiters may have under way at the same time
  Entry,       \* extra-usage WastageEntries
  MaxEvents    \* bound: where the counters stop

Client == Chef \cup Waiter

ASSUME KitchenConstants ==
  /\ Chef \cap Waiter = {}
  /\ Entry \cap Order = {}  \* primary keys are UUIDs
  /\ MaxEvents \in Nat \ {0}
  /\ Order # {}

VARIABLES
  status,    \* Order.status
  serves,    \* its SERVED OrderStatusEvents
  returns,   \* its RETURNED OrderStatusEvents
  entry,     \* the order an extra-usage entry is for
  approval,  \* the status of an entry's Approval; NONE if it needs none
  board,     \* the orders a client lists, with their statuses
  op,        \* what a client's request asks for
  order,     \* of which order
  seen,      \* the status the request read
  outcome,   \* the answer it will have
  raced,     \* history: orders that changed between a read and its write
  revived    \* history: served orders that a kitchen display moved again

events == <<serves, returns>>
orders == <<status, events>>
extra == <<entry, approval>>
request == <<op, order, seen, outcome>>
history == <<raced, revived>>
vars == <<orders, extra, board, request, history>>

Status == {"INGESTED", "IN_PREPARATION", "READY", "SERVED"}

(* Every variable has the type its column or local has in the code, and a  *)
(* request is answered only after it was read.                             *)
TypeOK ==
  /\ status \in [Order -> Status]
  /\ serves \in [Order -> 0..MaxEvents]
  /\ returns \in [Order -> 0..MaxEvents]
  /\ entry \in [Entry -> Order \cup {"NONE"}]
  /\ approval \in [Entry -> {"NONE", "PENDING", "INVESTIGATION", "APPROVED", "REJECTED"}]
  /\ board \in [Client -> [Order -> Status]]
  /\ op \in [Client -> {"none", "start", "ready", "served", "return"}]
  /\ order \in [Client -> Order]
  /\ seen \in [Client -> Status \cup {"unread"}]
  /\ outcome \in [Client -> {"none", "ok", "conflict"}]
  /\ \A c \in Client : /\ op[c] = "none" => seen[c] = "unread"
                       /\ seen[c] = "unread" => outcome[c] = "none"
  /\ raced \in SUBSET Order
  /\ revived \in SUBSET Order

Init ==
  /\ status = [o \in Order |-> "INGESTED"]
  /\ serves = [o \in Order |-> 0]
  /\ returns = [o \in Order |-> 0]
  /\ entry = [e \in Entry |-> "NONE"]
  /\ approval = [e \in Entry |-> "NONE"]
  /\ board = [c \in Client |-> status]
  /\ op = [c \in Client |-> "none"]
  /\ order = [c \in Client |-> CHOOSE o \in Order : TRUE]
  /\ seen = [c \in Client |-> "unread"]
  /\ outcome = [c \in Client |-> "none"]
  /\ raced = {}
  /\ revived = {}

Plus1(n) == IF n < MaxEvents THEN n + 1 ELSE n

-----------------------------------------------------------------------------
(* A client fetches its list: on a timer, on a socket event, or when a     *)
(* request succeeds.                                                       *)
Refresh(c) ==
  /\ board' = [board EXCEPT ![c] = status]
  /\ UNCHANGED <<orders, extra, request, history>>

(* c sends a request. *)
Ask(c, k, o) ==
  /\ op[c] = "none"
  /\ op' = [op EXCEPT ![c] = k]
  /\ order' = [order EXCEPT ![c] = o]
  /\ UNCHANGED <<orders, extra, board, seen, outcome, history>>

(* The buttons of a ticket and of the waiter's list. *)
Button(c, o) ==
  CASE c \in Chef /\ board[c][o] = "INGESTED" -> {"start"}
    [] c \in Chef /\ board[c][o] = "IN_PREPARATION" -> {"ready"}
    [] c \in Waiter /\ board[c][o] = "READY" -> {"served", "return"}
    [] OTHER -> {}

Tap(c, o) == \E k \in Button(c, o) : Ask(c, k, o)

(* The view reads the order. *)
Read(c) ==
  /\ op[c] # "none"
  /\ seen[c] = "unread"
  /\ seen' = [seen EXCEPT ![c] = status[order[c]]]
  /\ UNCHANGED <<orders, extra, board, op, order, outcome, history>>

(* c's request has been read and not answered, and asks for k. *)
Serving(c, k) == op[c] = k /\ seen[c] # "unread" /\ outcome[c] = "none"

(* The order's status is written, whatever it is now, and c answered. *)
Record(c, new) ==
  LET o == order[c]
  IN  /\ status' = [status EXCEPT ![o] = new]
      /\ outcome' = [outcome EXCEPT ![c] = "ok"]
      /\ raced' = IF seen[c] = status[o] THEN raced ELSE raced \cup {o}

(* A kitchen display moves an order that was served. *)
Revive(c) ==
  revived' = IF status[order[c]] = "SERVED" THEN revived \cup {order[c]} ELSE revived

(* start_order: any order moves to In Preparation. *)
StartOrder(c) ==
  /\ Serving(c, "start")
  /\ Record(c, "IN_PREPARATION")
  /\ Revive(c)
  /\ UNCHANGED <<serves, returns, extra, board, op, order, seen>>

(* Approvals of extra usage whose subject is s; the subject is the entry.  *)
PendingOn(s) == {e \in Entry : approval[e] = "PENDING" /\ e = s}

Refuse(c) ==
  /\ outcome' = [outcome EXCEPT ![c] = "conflict"]
  /\ UNCHANGED <<status, history>>

(* mark_ready looks for one whose subject is the order. *)
MarkReady(c) ==
  /\ Serving(c, "ready")
  /\ IF PendingOn(order[c]) = {}
     THEN Record(c, "READY") /\ Revive(c)
     ELSE Refuse(c)
  /\ UNCHANGED <<serves, returns, extra, board, op, order, seen>>

(* mark_served: any order is served that was not when it was read.         *)
MarkServedAgain(c) ==  \* mutant: no guard against serving again
  /\ Serving(c, "served")
  /\ Record(c, "SERVED")
  /\ serves' = [serves EXCEPT ![order[c]] = Plus1(@)]
  /\ UNCHANGED <<returns, extra, board, op, order, seen, revived>>
MarkServed(c) ==
  /\ Serving(c, "served")
  /\ seen[c] # "SERVED"
  /\ Record(c, "SERVED")
  /\ serves' = [serves EXCEPT ![order[c]] = Plus1(@)]
  /\ UNCHANGED <<returns, extra, board, op, order, seen, revived>>

AlreadyServed(c) ==
  /\ Serving(c, "served")
  /\ seen[c] = "SERVED"
  /\ Refuse(c)
  /\ UNCHANGED <<serves, returns, extra, board, op, order, seen>>

(* return_order: a RETURNED event, and back to In Preparation. *)
ReturnUnrecorded(c) ==  \* mutant: no RETURNED event
  /\ Serving(c, "return")
  /\ Record(c, "IN_PREPARATION")
  /\ UNCHANGED <<serves, returns, extra, board, op, order, seen, revived>>
ReturnOrder(c) ==
  /\ Serving(c, "return")
  /\ Record(c, "IN_PREPARATION")
  /\ returns' = [returns EXCEPT ![order[c]] = Plus1(@)]
  /\ UNCHANGED <<serves, extra, board, op, order, seen, revived>>

(* The answer arrives; a client that succeeded fetches its list again. *)
ReceiveStale(c) ==  \* mutant: the next request uses the order this one read
  /\ outcome[c] # "none"
  /\ op' = [op EXCEPT ![c] = "none"]
  /\ outcome' = [outcome EXCEPT ![c] = "none"]
  /\ UNCHANGED <<orders, extra, board, order, seen, history>>
Receive(c) ==
  /\ outcome[c] # "none"
  /\ op' = [op EXCEPT ![c] = "none"]
  /\ seen' = [seen EXCEPT ![c] = "unread"]
  /\ outcome' = [outcome EXCEPT ![c] = "none"]
  /\ UNCHANGED <<orders, extra, board, order, history>>

(* Extra usage is logged against an order a display lists; above the       *)
(* threshold it opens an Approval.                                         *)
LogExtraUsage(c, e) ==
  /\ entry[e] = "NONE"
  /\ \E o \in Order, above \in BOOLEAN :
       /\ board[c][o] # "SERVED"
       /\ entry' = [entry EXCEPT ![e] = o]
       /\ approval' = IF above THEN [approval EXCEPT ![e] = "PENDING"] ELSE approval
  /\ UNCHANGED <<orders, board, request, history>>

(* A manager decides. *)
Decide(e, decision) ==
  /\ \/ approval[e] = "PENDING"
     \/ approval[e] = "INVESTIGATION" /\ decision # "INVESTIGATION"
  /\ approval' = [approval EXCEPT ![e] = decision]
  /\ UNCHANGED <<orders, entry, board, request, history>>

Serve(c) ==
  \/ Read(c)
  \/ StartOrder(c)
  \/ MarkReady(c)
  \/ MarkServed(c)
  \/ AlreadyServed(c)
  \/ ReturnOrder(c)

Managing ==
  \/ \E c \in Chef, e \in Entry : LogExtraUsage(c, e)
  \/ \E e \in Entry, d \in {"APPROVED", "REJECTED", "INVESTIGATION"} : Decide(e, d)

Next ==
  \/ \E c \in Client : Refresh(c) \/ Serve(c) \/ Receive(c) \/ \E o \in Order : Tap(c, o)
  \/ Managing

Spec == Init /\ [][Next]_vars

-----------------------------------------------------------------------------
(* An order is recorded SERVED once more than it was returned, and one     *)
(* that was served loses its status without a RETURNED event, only if two  *)
(* requests raced for it or a display moved it after it was served: the    *)
(* guard of mark_served holds against a waiter who is merely late          *)
(* (services.py:20-26, 47-66).                                             *)
ServesAreExplained ==
  \A o \in Order \ (raced \cup revived) :
    /\ serves[o] <= returns[o] + 1
    /\ serves[o] > 0 /\ returns[o] = 0 => status[o] = "SERVED"

(* "cannot mark READY with unresolved above-threshold extra-usage          *)
(* approval" (data-model.md, State machines).                              *)
ReadyIsCleared ==
  [][\A o \in Order :
       status[o] = "IN_PREPARATION" /\ status'[o] = "READY"
       => \A e \in Entry : entry[e] = o => approval[e] \notin {"PENDING", "INVESTIGATION"}]_vars
=============================================================================
