----------------------------- MODULE WaiterQueue -----------------------------
(***************************************************************************)
(* A waiter's device and its action queue (frontend/src/features/waiter),  *)
(* with the services of Kitchen at the other end of the network.           *)
(*                                                                         *)
(* A tap queues an action.  A flush sends the actions of the queue as it   *)
(* was when the component rendered last, one after the other; the effect   *)
(* starts one after every change of the queue, every 8 seconds and when    *)
(* the device comes online, and marks the flushes before it cancelled, but *)
(* does not take their requests back.  The flushes that may be under way   *)
(* at once are Kitchen's Waiter clients.  JavaScript runs a flush to its   *)
(* next await before anything else happens on the device.                  *)
(***************************************************************************)
EXTENDS Kitchen, Sequences, SequencesExt

CONSTANTS
  PendingAction, \* the ids of the actions the waiter may queue
  MaxFaults      \* bound: network failures, expiries and refused refreshes

ASSUME QueueConstants == PendingAction # {} /\ MaxFaults \in Nat

VARIABLES
  pending,   \* the queue, oldest first
  kind,      \* PendingAction.kind; "none" before it is queued
  orderId,   \* PendingAction.orderId
  listed,    \* the READY orders of the list fetched last
  dirty,     \* whether the queue changed since the last render
  batch,     \* what a flush has still to send
  key,       \* the id its last request carried, as Idempotency-Key
  awaiting,  \* whether it awaits an answer
  cancelled, \* its effect's flag
  expired,   \* whether the access token has expired
  faults,    \* failures so far
  applied,   \* history: actions the server applied
  repeated,  \* history: actions it applied more than once
  refused,   \* history: actions answered ALREADY_SERVED
  dropped    \* history: actions removed because the session was lost

device == <<pending, kind, orderId, listed, dirty>>
flushes == <<batch, key, awaiting, cancelled>>
past == <<applied, repeated, refused, dropped>>
kitchen == <<orders, extra, board, request, history>>
queueVars == <<device, flushes, expired, faults, past>>
allVars == <<kitchen, queueVars>>

(* Every variable has the type its state or local has in the code; an      *)
(* action is queued once, and an awaited answer is to a request under way. *)
QueueTypeOK ==
  /\ pending \in Seq(PendingAction) /\ IsInjective(pending)
  /\ kind \in [PendingAction -> {"none", "served", "return"}]
  /\ orderId \in [PendingAction -> Order]
  /\ listed \in SUBSET Order
  /\ dirty \in BOOLEAN
  /\ batch \in [Waiter -> Seq(PendingAction)]
  /\ key \in [Waiter -> PendingAction]
  /\ awaiting \in [Waiter -> BOOLEAN]
  /\ cancelled \in [Waiter -> BOOLEAN]
  /\ \A f \in Waiter :
       /\ awaiting[f] => batch[f] # <<>> /\ key[f] = Head(batch[f])
       /\ op[f] # "none" => op[f] = kind[key[f]] /\ order[f] = orderId[key[f]]
  /\ expired \in BOOLEAN
  /\ faults \in 0..MaxFaults
  /\ applied \in SUBSET PendingAction /\ repeated \in SUBSET applied
  /\ refused \in SUBSET PendingAction
  /\ dropped \in SUBSET PendingAction

QueueInit ==
  /\ Init
  /\ pending = <<>>
  /\ kind = [a \in PendingAction |-> "none"]
  /\ orderId = [a \in PendingAction |-> CHOOSE o \in Order : TRUE]
  /\ listed = {}
  /\ dirty = FALSE
  /\ batch = [f \in Waiter |-> <<>>]
  /\ key = [f \in Waiter |-> CHOOSE a \in PendingAction : TRUE]
  /\ awaiting = [f \in Waiter |-> FALSE]
  /\ cancelled = [f \in Waiter |-> FALSE]
  /\ expired \in BOOLEAN  \* a page that was loaded again has no token
  /\ faults = 0
  /\ applied = {} /\ repeated = {}
  /\ refused = {}
  /\ dropped = {}

-----------------------------------------------------------------------------
Settled == \A f \in Waiter : batch[f] # <<>> => awaiting[f]
Free(f) == batch[f] = <<>> /\ op[f] = "none"

(* The chef makes an order READY, with the screen up to date. *)
Cook(o) ==
  /\ status[o] \in {"INGESTED", "IN_PREPARATION"}
  /\ status' = [status EXCEPT ![o] = "READY"]
  /\ UNCHANGED <<serves, returns, extra, board, request, history, queueVars>>

(* The waiter's list is fetched. *)
FetchReady ==
  /\ Settled
  /\ listed' = {o \in Order : status[o] = "READY"}
  /\ UNCHANGED <<kitchen, pending, kind, orderId, dirty, flushes, expired, faults, past>>

(* The waiter taps Served or Return on an order of the list that has no    *)
(* queued action.                                                          *)
Enqueue(a, k, o) ==
  /\ Settled
  /\ kind[a] = "none"
  /\ o \in listed
  /\ \A b \in ToSet(pending) : orderId[b] # o
  /\ pending' = Append(pending, a)
  /\ kind' = [kind EXCEPT ![a] = k]
  /\ orderId' = [orderId EXCEPT ![a] = o]
  /\ dirty' = TRUE
  /\ UNCHANGED <<kitchen, listed, flushes, expired, faults, past>>

(* The queue changed: the effect cancels its flushes and starts one. *)
Rerender ==
  /\ Settled
  /\ dirty
  /\ dirty' = FALSE
  /\ \/ /\ pending = <<>>
        /\ cancelled' = [f \in Waiter |-> TRUE]
        /\ UNCHANGED batch
     \/ \E f \in Waiter :
          /\ pending # <<>>
          /\ Free(f)
          /\ cancelled' = [g \in Waiter |-> g # f]
          /\ batch' = [batch EXCEPT ![f] = pending]
  /\ UNCHANGED <<kitchen, pending, kind, orderId, listed, key, awaiting, expired, faults, past>>

(* The timer fires, or the device comes online. *)
NoTimer(f) ==  \* mutant: no timer
  /\ FALSE
  /\ Free(f)
  /\ UNCHANGED allVars
Timer(f) ==
  /\ Settled
  /\ ~dirty
  /\ pending # <<>>
  /\ Free(f)
  /\ batch' = [batch EXCEPT ![f] = pending]
  /\ cancelled' = [cancelled EXCEPT ![f] = FALSE]
  /\ UNCHANGED <<kitchen, device, key, awaiting, expired, faults, past>>

(* A flush sends its next action, or finds that it was cancelled.          *)
Send(f) ==
  /\ batch[f] # <<>>
  /\ ~awaiting[f]
  /\ IF cancelled[f]
     THEN batch' = [batch EXCEPT ![f] = <<>>] /\ UNCHANGED <<kitchen, key, awaiting>>
     ELSE LET a == Head(batch[f])
          IN  /\ Ask(f, kind[a], orderId[a])
              /\ key' = [key EXCEPT ![f] = a]
              /\ awaiting' = [awaiting EXCEPT ![f] = TRUE]
              /\ UNCHANGED batch
  /\ UNCHANGED <<device, cancelled, expired, faults, past>>

(* A request reaches the server with a token that is valid. *)
Arrive(f) ==
  /\ ~expired
  /\ Read(f)
  /\ UNCHANGED queueVars

(* The server applies an action: the views ignore the Idempotency-Key.     *)
Apply(f) ==
  /\ MarkServed(f) \/ ReturnOrder(f)
  /\ applied' = applied \cup {key[f]}
  /\ repeated' = repeated \cup ({key[f]} \cap applied)
  /\ UNCHANGED <<device, flushes, expired, faults, refused, dropped>>

Conflict(f) == AlreadyServed(f) /\ UNCHANGED queueVars

(* remove(action.id), and on to the next action; ids are unique in the     *)
(* queue, so that its filter takes out one action at most.                 *)
DequeueAwaiting(f) ==  \* mutant: the loop does not go on
  /\ pending' = RemoveFirst(pending, Head(batch[f]))
  /\ dirty' = TRUE
  /\ batch' = [batch EXCEPT ![f] = Tail(@)]
  /\ UNCHANGED <<kind, orderId, listed, key, awaiting, cancelled>>
Dequeue(f) ==
  /\ pending' = RemoveFirst(pending, Head(batch[f]))
  /\ dirty' = TRUE
  /\ batch' = [batch EXCEPT ![f] = Tail(@)]
  /\ awaiting' = [awaiting EXCEPT ![f] = FALSE]
  /\ UNCHANGED <<kind, orderId, listed, key, cancelled>>

(* The answer, 200 or 409. *)
Answer(f) ==
  /\ awaiting[f]
  /\ Receive(f)
  /\ refused' = IF outcome[f] = "conflict" THEN refused \cup {Head(batch[f])} ELSE refused
  /\ Dequeue(f)
  /\ UNCHANGED <<expired, faults, applied, repeated, dropped>>

(* The token expires. *)
Expire ==
  /\ ~expired
  /\ faults < MaxFaults
  /\ expired' = TRUE
  /\ faults' = faults + 1
  /\ UNCHANGED <<kitchen, device, flushes, past>>

(* The request ends without an answer for anyone.                          *)
Vanish(f) ==
  /\ op' = [op EXCEPT ![f] = "none"]
  /\ seen' = [seen EXCEPT ![f] = "unread"]
  /\ outcome' = [outcome EXCEPT ![f] = "none"]
  /\ UNCHANGED <<orders, extra, board, order, history>>

(* 401: apiClient refreshes the token and calls again; if the refresh is   *)
(* answered with an error, the action gets AUTH_REQUIRED, a 4xx.           *)
Unauthorized(f) ==
  /\ expired
  /\ awaiting[f]
  /\ seen[f] = "unread"
  /\ \/ /\ expired' = FALSE
        /\ UNCHANGED <<kitchen, device, flushes, faults, past>>
     \/ /\ faults < MaxFaults
        /\ faults' = faults + 1
        /\ dropped' = dropped \cup {Head(batch[f])}
        /\ Vanish(f)
        /\ Dequeue(f)
        /\ UNCHANGED <<expired, applied, repeated, refused>>

(* The network fails, or the server answers 5xx: the flush breaks off and  *)
(* keeps its actions, and the request, if it arrived, goes on.             *)
NetworkFails(f) ==
  /\ awaiting[f]
  /\ faults < MaxFaults
  /\ faults' = faults + 1
  /\ batch' = [batch EXCEPT ![f] = <<>>]
  /\ awaiting' = [awaiting EXCEPT ![f] = FALSE]
  /\ \/ UNCHANGED kitchen
     \/ Vanish(f)
  /\ UNCHANGED <<device, key, cancelled, expired, past>>

(* The answer to a request nobody awaits, or a 401 to one. *)
Discard(f) ==
  /\ ~awaiting[f]
  /\ op[f] # "none"
  /\ outcome[f] # "none" \/ (expired /\ seen[f] = "unread")
  /\ Vanish(f)
  /\ UNCHANGED queueVars

Step(f) ==
  \/ Send(f)
  \/ Arrive(f)
  \/ Apply(f)
  \/ Conflict(f)
  \/ Answer(f)
  \/ Unauthorized(f)
  \/ Discard(f)

QueueNext ==
  \/ \E o \in Order : Cook(o)
  \/ FetchReady
  \/ \E a \in PendingAction, k \in {"served", "return"}, o \in Order : Enqueue(a, k, o)
  \/ Rerender
  \/ Expire
  \/ \E f \in Waiter : Timer(f) \/ Step(f) \/ NetworkFails(f)

(* The event loop runs, the timer is armed, and requests are answered.     *)
QueueFairness ==
  /\ WF_allVars(Rerender)
  /\ \A f \in Waiter : WF_allVars(Step(f)) /\ WF_allVars(Timer(f))

QueueSpec == QueueInit /\ [][QueueNext]_allVars
FairQueueSpec == QueueSpec /\ QueueFairness

-----------------------------------------------------------------------------
(* A tap is not lost to the network: it is queued, or was applied, or was  *)
(* refused because its order had been served, or its session was lost; and *)
(* sending it again does not serve an order again, unless the two requests *)
(* raced or the order was returned in between (useWaiterService.ts:55-75,  *)
(* services.py:47-56).  A Return that is sent again is recorded again.     *)
Kept(a) ==
  \/ a \in ToSet(pending)
  \/ a \in applied
  \/ a \in refused /\ serves[orderId[a]] > 0
  \/ a \in dropped

CountedOnce(a) ==
  a \in repeated => kind[a] = "return" \/ orderId[a] \in raced \/ returns[orderId[a]] > 0

TapCountsOnce == \A a \in PendingAction : kind[a] # "none" => Kept(a) /\ CountedOnce(a)

(* The queue drains, however often it is added to: a flush that broke off  *)
(* or was cancelled is followed by another (useWaiterService.ts:50-81).    *)
TapsAreFlushed == []<>(pending = <<>>)
=============================================================================
