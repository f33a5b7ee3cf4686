---------------------------- MODULE KitchenProofs ----------------------------
(***************************************************************************)
(* Proofs about Kitchen and WaiterQueue, for any number of orders,         *)
(* displays, waiters, entries, taps, flushes and faults, and any bound of  *)
(* the counters.                                                           *)
(***************************************************************************)
EXTENDS WaiterQueue, SequenceTheorems, TLAPS

USE KitchenConstants

Ops == {"none", "start", "ready", "served", "return"}

(* A saturating counter stays in its range and does not go back. *)
LEMMA Plus1Type ==
  ASSUME NEW n \in 0..MaxEvents
  PROVE  Plus1(n) \in 0..MaxEvents /\ n <= Plus1(n) /\ Plus1(n) <= n + 1
  BY DEF Plus1

(* Answering a request that wrote keeps the types of what was written. *)
LEMMA RecordType ==
  ASSUME TypeOK, NEW c \in Client, NEW new \in Status, NEW k \in Ops,
         Serving(c, k), Record(c, new)
  PROVE  /\ order[c] \in Order
         /\ status' \in [Order -> Status]
         /\ outcome' \in [Client -> {"none", "ok", "conflict"}]
         /\ raced' \in SUBSET Order
         /\ \A d \in Client : seen[d] = "unread" => outcome'[d] = "none"
         /\ status'[order[c]] = new
         /\ \A o \in Order \ {order[c]} : status'[o] = status[o]
         /\ raced \subseteq raced'
         /\ order[c] \notin raced' => seen[c] = status[order[c]]
  BY DEF TypeOK, Record, Serving

(* The types hold when the behaviour begins.                               *)
LEMMA InitType == Init => TypeOK
  BY DEF Init, TypeOK, Status

(* A step of a request keeps every variable in its type. *)
LEMMA RequestType ==
  ASSUME TypeOK, NEW c \in Client, Serve(c) \/ Refresh(c) \/ Receive(c)
  PROVE  TypeOK'
  <1>1. ASSUME Refresh(c) PROVE TypeOK'
    BY <1>1 DEF Refresh, TypeOK, orders, events, extra, request, history
  <1>2. ASSUME Read(c) PROVE TypeOK'
    <2>1. /\ seen' \in [Client -> Status \cup {"unread"}]
          /\ \A d \in Client : /\ op[d] = "none" => seen'[d] = "unread"
                               /\ seen'[d] = "unread" => outcome[d] = "none"
      BY <1>2 DEF Read, TypeOK, Status
    <2>2. UNCHANGED <<orders, extra, board, op, order, outcome, history>>
      BY <1>2 DEF Read
    <2>3. QED
      BY <2>1, <2>2 DEF TypeOK, orders, events, extra, history
  <1>3. ASSUME StartOrder(c) PROVE TypeOK'
    <2>1. Serving(c, "start") /\ Record(c, "IN_PREPARATION") /\ Revive(c)
          /\ UNCHANGED <<serves, returns, extra, board, op, order, seen>>
      BY <1>3 DEF StartOrder
    <2>2. revived' \in SUBSET Order
      BY <2>1 DEF Revive, TypeOK
    <2>3. QED
      BY <2>1, <2>2, RecordType DEF TypeOK, extra, Status, Ops
  <1>4. ASSUME MarkReady(c) PROVE TypeOK'
    <2>1. CASE PendingOn(order[c]) = {}
      <3>1. Serving(c, "ready") /\ Record(c, "READY") /\ Revive(c)
            /\ UNCHANGED <<serves, returns, extra, board, op, order, seen>>
        BY <1>4, <2>1 DEF MarkReady
      <3>2. revived' \in SUBSET Order
        BY <3>1 DEF Revive, TypeOK
      <3>3. QED
        BY <3>1, <3>2, RecordType DEF TypeOK, extra, Status, Ops
    <2>2. CASE PendingOn(order[c]) # {}
      BY <1>4, <2>2 DEF MarkReady, Serving, Refuse, TypeOK, extra, history
    <2>3. QED
      BY <2>1, <2>2
  <1>5. ASSUME MarkServed(c) PROVE TypeOK'
    <2>1. Serving(c, "served") /\ Record(c, "SERVED")
          /\ UNCHANGED <<returns, extra, board, op, order, seen, revived>>
      BY <1>5 DEF MarkServed
    <2>2. serves' \in [Order -> 0..MaxEvents]
      BY <1>5, Plus1Type DEF MarkServed, TypeOK
    <2>3. QED
      BY <2>1, <2>2, RecordType DEF TypeOK, extra, Status, Ops
  <1>6. ASSUME AlreadyServed(c) PROVE TypeOK'
    BY <1>6 DEF AlreadyServed, Serving, Refuse, TypeOK, extra, history
  <1>7. ASSUME ReturnOrder(c) PROVE TypeOK'
    <2>1. Serving(c, "return") /\ Record(c, "IN_PREPARATION")
          /\ UNCHANGED <<serves, extra, board, op, order, seen, revived>>
      BY <1>7 DEF ReturnOrder
    <2>2. returns' \in [Order -> 0..MaxEvents]
      BY <1>7, Plus1Type DEF ReturnOrder, TypeOK
    <2>3. QED
      BY <2>1, <2>2, RecordType DEF TypeOK, extra, Status, Ops
  <1>8. ASSUME Receive(c) PROVE TypeOK'
    BY <1>8 DEF Receive, TypeOK, orders, events, extra, history
  <1>9. QED
    BY <1>1, <1>2, <1>3, <1>4, <1>5, <1>6, <1>7, <1>8 DEF Serve

(* So does the sending of one. *)
LEMMA AskType ==
  ASSUME TypeOK, NEW c \in Client, NEW k \in Ops \ {"none"}, NEW o \in Order, Ask(c, k, o)
  PROVE  TypeOK'
  <1>1. /\ op' \in [Client -> Ops] /\ order' \in [Client -> Order]
        /\ \A d \in Client : op'[d] = "none" => seen[d] = "unread"
    BY DEF Ask, TypeOK, Ops
  <1>2. UNCHANGED <<orders, extra, board, seen, outcome, history>>
    BY DEF Ask
  <1>3. QED
    BY <1>1, <1>2 DEF TypeOK, Ops, orders, events, extra, history

(* Every variable keeps its type. *)
THEOREM TypeCorrect == Spec => []TypeOK
  <1>1. TypeOK /\ [Next]_vars => TypeOK'
    <2> SUFFICES ASSUME TypeOK, [Next]_vars PROVE TypeOK'
      OBVIOUS
    <2>1. ASSUME NEW c \in Client, NEW o \in Order, Tap(c, o) PROVE TypeOK'
      <3>1. PICK k \in Ops \ {"none"} : Ask(c, k, o)
        BY <2>1 DEF Tap, Button, Ops
      <3>2. QED
        BY <3>1, AskType
    <2>2. ASSUME NEW c \in Client, NEW e \in Entry, LogExtraUsage(c, e) PROVE TypeOK'
      BY <2>2 DEF LogExtraUsage, TypeOK, orders, events, request, history
    <2>3. ASSUME NEW e \in Entry, NEW d \in {"APPROVED", "REJECTED", "INVESTIGATION"}, Decide(e, d)
          PROVE  TypeOK'
      BY <2>3 DEF Decide, TypeOK, orders, events, request, history
    <2>4. CASE UNCHANGED vars
      BY <2>4 DEF vars, orders, events, extra, request, history, TypeOK
    <2>5. Chef \subseteq Client
      BY DEF Client
    <2>6. QED
      BY <2>1, <2>2, <2>3, <2>4, <2>5, RequestType DEF Next, Managing
  <1>2. QED
    BY <1>1, InitType, PTL DEF Spec
-----------------------------------------------------------------------------
(* As long as nobody raced for an order, and no display moved it after it  *)
(* was served, it has been served as often as it was returned, and once    *)
(* more while it is SERVED.                                                *)
ServedOnceMore ==
  \A o \in Order \ (raced \cup revived) :
    /\ serves[o] <= returns[o] + 1
    /\ status[o] # "SERVED" => serves[o] <= returns[o]

(* What a step does to the orders: it leaves them alone, or moves one to a *)
(* status.                                                                 *)
LEMMA ServedStep == TypeOK /\ ServedOnceMore /\ [Next]_vars => ServedOnceMore'
  <1> SUFFICES ASSUME TypeOK, ServedOnceMore, [Next]_vars PROVE ServedOnceMore'
    OBVIOUS
  <1>1. ASSUME UNCHANGED <<orders, history>> PROVE ServedOnceMore'
    BY <1>1 DEF ServedOnceMore, orders, events, history
  <1>2. ASSUME NEW c \in Client, NEW k \in {"start", "ready"},
               NEW new \in {"IN_PREPARATION", "READY"},
               Serving(c, k), Record(c, new), Revive(c), UNCHANGED <<serves, returns>>
        PROVE  ServedOnceMore'
    <2>1. /\ order[c] \in Order
          /\ status'[order[c]] = new /\ raced \subseteq raced'
          /\ \A o \in Order \ {order[c]} : status'[o] = status[o]
      BY <1>2, RecordType DEF Status, Ops
    <2>2. /\ revived \subseteq revived'
          /\ order[c] \notin revived' => status[order[c]] # "SERVED"
      BY <1>2 DEF Revive
    <2>3. QED
      BY <1>2, <2>1, <2>2 DEF ServedOnceMore
  <1>3. ASSUME NEW c \in Client, MarkServed(c) PROVE ServedOnceMore'
    <2> DEFINE o == order[c]
    <2>1. /\ Serving(c, "served") /\ Record(c, "SERVED") /\ seen[c] # "SERVED"
          /\ serves' = [serves EXCEPT ![o] = Plus1(@)]
          /\ UNCHANGED <<returns, revived>>
      BY <1>3 DEF MarkServed
    <2>2. /\ o \in Order /\ status'[o] = "SERVED" /\ raced \subseteq raced'
          /\ \A p \in Order \ {o} : status'[p] = status[p]
          /\ o \notin raced' => status[o] # "SERVED"
      BY <2>1, RecordType DEF Status, Ops
    <2>3. /\ serves'[o] = Plus1(serves[o])
          /\ \A p \in Order \ {o} : serves'[p] = serves[p]
          /\ serves[o] \in 0..MaxEvents /\ returns[o] \in 0..MaxEvents
      BY <2>1, <2>2 DEF TypeOK
    <2> HIDE DEF o
    <2>4. o \notin raced' \cup revived' => serves[o] <= returns[o]
      BY <2>1, <2>2 DEF ServedOnceMore
    <2>5. Plus1(serves[o]) \in 0..MaxEvents /\ Plus1(serves[o]) <= serves[o] + 1
      BY <2>3, Plus1Type
    <2>6. o \notin raced' \cup revived' => serves'[o] <= returns[o] + 1
      BY <2>3, <2>4, <2>5
    <2>7. QED
      BY <2>1, <2>2, <2>3, <2>6 DEF ServedOnceMore
  <1>4. ASSUME NEW c \in Client, ReturnOrder(c) PROVE ServedOnceMore'
    <2> DEFINE o == order[c]
    <2>1. /\ Serving(c, "return") /\ Record(c, "IN_PREPARATION")
          /\ returns' = [returns EXCEPT ![o] = Plus1(@)]
          /\ UNCHANGED <<serves, revived>>
      BY <1>4 DEF ReturnOrder
    <2>2. /\ o \in Order /\ raced \subseteq raced'
          /\ \A p \in Order \ {o} : status'[p] = status[p]
      BY <2>1, RecordType DEF Status, Ops
    <2>3. /\ returns'[o] = Plus1(returns[o])
          /\ \A p \in Order \ {o} : returns'[p] = returns[p]
          /\ serves[o] \in 0..MaxEvents /\ returns[o] \in 0..MaxEvents
      BY <2>1, <2>2 DEF TypeOK
    <2> HIDE DEF o
    <2>4. serves[o] <= returns[o] + 1 => serves[o] <= Plus1(returns[o])
      BY <2>3 DEF Plus1
    <2>5. Plus1(returns[o]) \in 0..MaxEvents
      BY <2>3, Plus1Type
    <2>6. o \notin raced' \cup revived' =>
            serves'[o] <= returns'[o] /\ serves'[o] <= returns'[o] + 1
      BY <2>1, <2>2, <2>3, <2>4, <2>5 DEF ServedOnceMore
    <2>7. QED
      BY <2>1, <2>2, <2>3, <2>6 DEF ServedOnceMore
  <1>5. ASSUME NEW c \in Client, StartOrder(c) PROVE ServedOnceMore'
    BY <1>2, <1>5 DEF StartOrder
  <1>6. ASSUME NEW c \in Client, MarkReady(c) PROVE ServedOnceMore'
    <2>1. CASE PendingOn(order[c]) = {}
      BY <1>2, <1>6, <2>1 DEF MarkReady
    <2>2. CASE PendingOn(order[c]) # {}
      BY <1>1, <1>6, <2>2 DEF MarkReady, Refuse, orders, events
    <2>3. QED
      BY <2>1, <2>2
  <1>7. ASSUME NEW c \in Client,
               Refresh(c) \/ Read(c) \/ AlreadyServed(c) \/ Receive(c) \/ \E o \in Order : Tap(c, o)
        PROVE  UNCHANGED <<orders, history>>
    BY <1>7 DEF Refresh, Read, AlreadyServed, Refuse, Receive, Tap, Ask, orders, events
  <1>8. ASSUME Managing PROVE UNCHANGED <<orders, history>>
    BY <1>8 DEF Managing, LogExtraUsage, Decide
  <1>9. CASE UNCHANGED vars
    BY <1>1, <1>9 DEF vars
  <1>10. QED
    BY <1>1, <1>3, <1>4, <1>5, <1>6, <1>7, <1>8, <1>9 DEF Next, Serve

(* An order is recorded SERVED once more than it was returned, and loses   *)
(* the status without a RETURNED event, only after a race or when a        *)
(* display moved it: a waiter who is merely late does no harm.             *)
THEOREM LateWaitersAreHarmless == Spec => []ServesAreExplained
  <1>1. Init => ServedOnceMore
    BY DEF Init, ServedOnceMore
  <1>2. TypeOK /\ ServedOnceMore => ServesAreExplained
    <2> SUFFICES ASSUME TypeOK, ServedOnceMore, NEW o \in Order \ (raced \cup revived)
                 PROVE  /\ serves[o] <= returns[o] + 1
                        /\ serves[o] > 0 /\ returns[o] = 0 => status[o] = "SERVED"
      BY DEF ServesAreExplained
    <2>1. serves[o] \in 0..MaxEvents /\ returns[o] \in 0..MaxEvents
      BY DEF TypeOK
    <2>2. QED
      BY <2>1 DEF ServedOnceMore
  <1>3. QED
    BY <1>1, <1>2, ServedStep, TypeCorrect, PTL DEF Spec
-----------------------------------------------------------------------------
(* A queue of distinct ids stays one when an id is appended or removed.    *)
LEMMA AppendIs ==
  ASSUME NEW T, NEW s \in Seq(T), IsInjective(s), NEW e \in T, e \notin ToSet(s)
  PROVE  /\ Append(s, e) \in Seq(T) /\ IsInjective(Append(s, e))
         /\ ToSet(Append(s, e)) = ToSet(s) \cup {e}
  BY DEF IsInjective, ToSet

(* The head and the tail of a sequence are made of its members.            *)
LEMMA TailIs ==
  ASSUME NEW T, NEW s \in Seq(T), s # <<>>
  PROVE  Head(s) \in T /\ Head(s) \in ToSet(s) /\ Tail(s) \in Seq(T) /\ ToSet(Tail(s)) \subseteq ToSet(s)
  BY DEF ToSet

(* The place of an id in a queue. *)
LEMMA SelectIs ==
  ASSUME NEW T, NEW s \in Seq(T), IsInjective(s), NEW e, NEW i \in 1..Len(s), s[i] = e
  PROVE  RemoveFirst(s, e) = RemoveAt(s, i)
  <1> DEFINE I == {j \in 1..Len(s) : s[j] = e}
  <1>1. RemoveFirst(s, e) =
          IF \E j \in 1..Len(s) : s[j] = e THEN RemoveAt(s, IF I # {} THEN Min(I) ELSE 0) ELSE s
    BY DEF RemoveFirst, SelectInSeq
  <1>2. I = {i}
    BY DEF IsInjective
  <1> HIDE DEF I
  <1>3. Min(I) = i
    BY <1>2 DEF Min
  <1>4. QED
    BY <1>1, <1>2, <1>3

(* What is left when the n-th member is removed.                           *)
LEMMA RemoveAtIs ==
  ASSUME NEW T, NEW s \in Seq(T), NEW n \in 1..Len(s)
  PROVE  /\ RemoveAt(s, n) \in Seq(T) /\ Len(RemoveAt(s, n)) = Len(s) - 1
         /\ \A i \in 1..(Len(s) - 1) : RemoveAt(s, n)[i] = IF i < n THEN s[i] ELSE s[i + 1]
  <1> DEFINE a == SubSeq(s, 1, n - 1)
             b == SubSeq(s, n + 1, Len(s))
  <1>1. a \in Seq(T) /\ Len(a) = n - 1 /\ \A i \in 1..(n - 1) : a[i] = s[i]
    OBVIOUS
  <1>2. b \in Seq(T) /\ Len(b) = Len(s) - n /\ \A i \in 1..(Len(s) - n) : b[i] = s[n + i]
    OBVIOUS
  <1>3. RemoveAt(s, n) = a \o b
    BY DEF RemoveAt
  <1> HIDE DEF a, b
  <1>4. /\ a \o b \in Seq(T) /\ Len(a \o b) = Len(a) + Len(b)
        /\ \A i \in 1..(Len(a) + Len(b)) : (a \o b)[i] = IF i <= Len(a) THEN a[i] ELSE b[i - Len(a)]
    <2>1. a \in Seq(T) /\ b \in Seq(T)
      BY <1>1, <1>2
    <2>2. QED
      BY <2>1, ConcatProperties
  <1>5. ASSUME NEW i \in 1..(Len(s) - 1)
        PROVE  (a \o b)[i] = IF i < n THEN s[i] ELSE s[i + 1]
    <2>1. CASE i < n
      BY <1>1, <1>2, <1>4, <2>1
    <2>2. CASE ~(i < n)
      <3>1. i - (n - 1) \in 1..(Len(s) - n) /\ n + (i - (n - 1)) = i + 1
        BY <2>2
      <3>2. b[i - (n - 1)] = s[i + 1]
        BY <1>2, <3>1
      <3>3. i \in 1..(Len(a) + Len(b)) /\ ~(i <= Len(a))
        BY <1>1, <1>2, <2>2
      <3>4. QED
        BY <1>1, <1>4, <2>2, <3>2, <3>3
    <2>3. QED
      BY <2>1, <2>2
  <1>6. QED
    BY <1>1, <1>2, <1>3, <1>4, <1>5

(* Without repetitions, removing a member leaves the others.               *)
LEMMA RemoveIs ==
  ASSUME NEW T, NEW s \in Seq(T), IsInjective(s), NEW e
  PROVE  /\ RemoveFirst(s, e) \in Seq(T) /\ IsInjective(RemoveFirst(s, e))
         /\ ToSet(RemoveFirst(s, e)) = ToSet(s) \ {e}
  <1>1. CASE \E i \in 1..Len(s) : s[i] = e
    <2>1. PICK n \in 1..Len(s) : s[n] = e
      BY <1>1
    <2> DEFINE t == RemoveAt(s, n)
    <2> DEFINE At(i) == IF i < n THEN i ELSE i + 1
    <2>2. RemoveFirst(s, e) = t
      BY <2>1, SelectIs
    <2>3. t \in Seq(T) /\ Len(t) = Len(s) - 1 /\ \A i \in 1..(Len(s) - 1) : t[i] = s[At(i)]
      BY RemoveAtIs
    <2> HIDE DEF t
    <2>4. \A i, j \in 1..Len(s) : s[i] = s[j] => i = j
      BY DEF IsInjective
    <2>5. \A i \in 1..(Len(s) - 1) : At(i) \in 1..Len(s) /\ At(i) # n
      OBVIOUS
    <2>6. \A i, j \in 1..(Len(s) - 1) : At(i) = At(j) => i = j
      OBVIOUS
    <2>7. \A j \in 1..Len(s) : j # n => \E i \in 1..(Len(s) - 1) : At(i) = j
      <3> SUFFICES ASSUME NEW j \in 1..Len(s), j # n PROVE \E i \in 1..(Len(s) - 1) : At(i) = j
        OBVIOUS
      <3>1. CASE j < n
        BY <3>1
      <3>2. CASE j > n
        <4>1. PICK i \in 1..(Len(s) - 1) : i = j - 1
          BY <3>2
        <4>2. At(i) = j
          BY <3>2, <4>1
        <4>3. QED
          BY <4>2
      <3>3. QED
        BY <3>1, <3>2
    <2> HIDE DEF At
    <2>8. IsInjective(t)
      <3>1. DOMAIN t = 1..(Len(s) - 1)
        BY <2>3
      <3>2. ASSUME NEW i \in 1..(Len(s) - 1), NEW j \in 1..(Len(s) - 1), t[i] = t[j] PROVE i = j
        BY <2>3, <2>4, <2>5, <2>6, <3>2
      <3>3. QED
        BY <3>1, <3>2 DEF IsInjective
    <2>9. ToSet(t) = ToSet(s) \ {e}
      <3>1. DOMAIN t = 1..(Len(s) - 1) /\ DOMAIN s = 1..Len(s)
        BY <2>3
      <3>2. ASSUME NEW x \in ToSet(t) PROVE x \in ToSet(s) \ {e}
        <4>1. PICK i \in 1..(Len(s) - 1) : x = s[At(i)]
          BY <2>3, <3>1, <3>2 DEF ToSet
        <4>2. At(i) \in 1..Len(s) /\ At(i) # n
          BY <2>5
        <4>3. QED
          BY <2>1, <2>4, <3>1, <4>1, <4>2 DEF ToSet
      <3>3. ASSUME NEW x \in ToSet(s) \ {e} PROVE x \in ToSet(t)
        <4>1. PICK j \in 1..Len(s) : x = s[j] /\ j # n
          BY <2>1, <3>1, <3>3 DEF ToSet
        <4>2. PICK i \in 1..(Len(s) - 1) : At(i) = j
          BY <2>7, <4>1
        <4>3. QED
          BY <2>3, <3>1, <4>1, <4>2 DEF ToSet
      <3>4. QED
        BY <3>2, <3>3
    <2>10. QED
      BY <2>2, <2>3, <2>8, <2>9
  <1>2. CASE ~\E i \in 1..Len(s) : s[i] = e
    BY <1>2 DEF RemoveFirst, ToSet
  <1>3. QED
    BY <1>1, <1>2
-----------------------------------------------------------------------------
(* The kitchen's part of a step on the device: what a request does, a      *)
(* chef, or nothing.                                                       *)
LEMMA KitchenSteps ==
  ASSUME [QueueNext]_allVars
  PROVE  \/ \E o \in Order : Cook(o)
         \/ \E f \in Waiter : Send(f) \/ Arrive(f) \/ Apply(f) \/ Conflict(f) \/ Answer(f)
         \/ \E f \in Waiter : Vanish(f)
         \/ UNCHANGED kitchen
  BY DEF QueueNext, Step, FetchReady, Enqueue, Rerender, Expire, Timer, Unauthorized, NetworkFails,
     Discard, allVars

(* A request that ends without an answer keeps the types. *)
LEMMA VanishType ==
  ASSUME TypeOK, NEW f \in Waiter, Vanish(f)
  PROVE  TypeOK'
  <1>1. /\ op' \in [Client -> Ops] /\ seen' \in [Client -> Status \cup {"unread"}]
        /\ outcome' \in [Client -> {"none", "ok", "conflict"}]
        /\ \A c \in Client : /\ op'[c] = "none" => seen'[c] = "unread"
                             /\ seen'[c] = "unread" => outcome'[c] = "none"
    BY DEF Vanish, TypeOK, Ops, Client
  <1>2. UNCHANGED <<orders, extra, board, order, history>>
    BY DEF Vanish
  <1>3. QED
    BY <1>1, <1>2 DEF TypeOK, Ops, orders, events, extra, history

(* What is queued, or under way, or was applied, was tapped.               *)
Tapped ==
  /\ \A a \in ToSet(pending) : kind[a] # "none"
  /\ \A f \in Waiter : \A a \in ToSet(batch[f]) : kind[a] # "none"
  /\ \A a \in applied : kind[a] # "none"

(* What the device does keeps the kitchen's types. *)
LEMMA KitchenType ==
  ASSUME TypeOK, QueueTypeOK, Tapped, [QueueNext]_allVars
  PROVE  TypeOK'
  <1>1. Waiter \subseteq Client
    BY DEF Client
  <1>2. ASSUME NEW o \in Order, Cook(o) PROVE TypeOK'
    <2>1. status' \in [Order -> Status] /\ UNCHANGED <<serves, returns, extra, board, request, history>>
      BY <1>2 DEF Cook, TypeOK, Status
    <2>2. QED
      BY <2>1 DEF TypeOK, extra, request, history
  <1>3. ASSUME NEW f \in Waiter, Send(f) PROVE TypeOK'
    <2>1. CASE UNCHANGED kitchen
      BY <2>1 DEF kitchen, orders, events, extra, request, history, TypeOK
    <2>2. CASE ~UNCHANGED kitchen
      <3> DEFINE a == Head(batch[f])
      <3>1. batch[f] # <<>> /\ Ask(f, kind[a], orderId[a])
        BY <1>3, <2>2 DEF Send
      <3>2. a \in PendingAction /\ kind[a] # "none"
        <4>1. batch[f] \in Seq(PendingAction)
          BY DEF QueueTypeOK
        <4>2. a \in PendingAction /\ a \in ToSet(batch[f])
          BY <3>1, <4>1, TailIs
        <4>3. QED
          BY <4>2 DEF Tapped
      <3>3. kind[a] \in Ops \ {"none"} /\ orderId[a] \in Order
        BY <3>2 DEF QueueTypeOK, Ops
      <3>4. QED
        BY <1>1, <3>1, <3>3, AskType
    <2>3. QED
      BY <2>1, <2>2
  <1>4. ASSUME NEW f \in Waiter, Arrive(f) \/ Apply(f) \/ Conflict(f) \/ Answer(f) PROVE TypeOK'
    <2>1. Serve(f) \/ Receive(f)
      BY <1>4 DEF Arrive, Apply, Conflict, Answer, Serve
    <2>2. QED
      BY <1>1, <2>1, RequestType
  <1>5. CASE UNCHANGED kitchen
    BY <1>5 DEF kitchen, orders, events, extra, request, history, TypeOK
  <1>6. QED
    BY <1>2, <1>3, <1>4, <1>5, VanishType, KitchenSteps

(* The two halves of QueueTypeOK: the types, and what a flush holds.       *)
QueueTypes ==
  /\ pending \in Seq(PendingAction) /\ IsInjective(pending)
  /\ kind \in [PendingAction -> {"none", "served", "return"}]
  /\ orderId \in [PendingAction -> Order]
  /\ listed \in SUBSET Order
  /\ dirty \in BOOLEAN
  /\ batch \in [Waiter -> Seq(PendingAction)]
  /\ key \in [Waiter -> PendingAction]
  /\ awaiting \in [Waiter -> BOOLEAN]
  /\ cancelled \in [Waiter -> BOOLEAN]
  /\ expired \in BOOLEAN
  /\ faults \in 0..MaxFaults
  /\ applied \in SUBSET PendingAction /\ repeated \in SUBSET applied
  /\ refused \in SUBSET PendingAction
  /\ dropped \in SUBSET PendingAction

Holds(f) ==
  /\ awaiting[f] => batch[f] # <<>> /\ key[f] = Head(batch[f])
  /\ op[f] # "none" => op[f] = kind[key[f]] /\ order[f] = orderId[key[f]]

(* The types of the queue, the device apart from its flushes.              *)
LEMMA QueueHalves == QueueTypeOK <=> QueueTypes /\ \A f \in Waiter : Holds(f)
  BY DEF QueueTypeOK, QueueTypes, Holds

(* What happens to the queue when a flush goes on to its next action.      *)
LEMMA DequeueEffect ==
  ASSUME QueueTypeOK, Tapped, NEW f \in Waiter, awaiting[f], Dequeue(f)
  PROVE  /\ key[f] \in PendingAction
         /\ pending' \in Seq(PendingAction) /\ IsInjective(pending')
         /\ ToSet(pending') = ToSet(pending) \ {key[f]}
         /\ batch' \in [Waiter -> Seq(PendingAction)]
         /\ ToSet(batch'[f]) \subseteq ToSet(batch[f])
         /\ \A g \in Waiter \ {f} : batch'[g] = batch[g]
         /\ awaiting' = [awaiting EXCEPT ![f] = FALSE] /\ dirty' = TRUE
         /\ UNCHANGED <<kind, orderId, listed, key, cancelled>>
  <1>1. batch[f] \in Seq(PendingAction) /\ batch[f] # <<>> /\ key[f] = Head(batch[f])
    BY DEF QueueTypeOK
  <1>2. pending \in Seq(PendingAction) /\ IsInjective(pending)
    BY DEF QueueTypeOK
  <1>3. pending' = RemoveFirst(pending, key[f]) /\ batch' = [batch EXCEPT ![f] = Tail(@)]
    BY <1>1 DEF Dequeue
  <1>4. /\ pending' \in Seq(PendingAction) /\ IsInjective(pending')
        /\ ToSet(pending') = ToSet(pending) \ {key[f]}
    BY <1>2, <1>3, RemoveIs
  <1>5. /\ Head(batch[f]) \in PendingAction /\ Tail(batch[f]) \in Seq(PendingAction)
        /\ ToSet(Tail(batch[f])) \subseteq ToSet(batch[f])
    BY <1>1, TailIs
  <1>6. batch \in [Waiter -> Seq(PendingAction)]
    BY DEF QueueTypeOK
  <1>7. /\ batch' \in [Waiter -> Seq(PendingAction)] /\ batch'[f] = Tail(batch[f])
        /\ \A g \in Waiter \ {f} : batch'[g] = batch[g]
    BY <1>3, <1>5, <1>6
  <1>8. UNCHANGED <<kind, orderId, listed, key, cancelled>> /\ dirty' = TRUE
        /\ awaiting' = [awaiting EXCEPT ![f] = FALSE]
    BY DEF Dequeue
  <1>9. QED
    BY <1>1, <1>4, <1>5, <1>7, <1>8

(* A flush that starts takes the whole queue.                              *)
LEMMA StartTypes ==
  ASSUME QueueTypes, NEW f \in Waiter, batch' = [batch EXCEPT ![f] = pending]
  PROVE  /\ batch' \in [Waiter -> Seq(PendingAction)] /\ batch'[f] = pending
         /\ \A g \in Waiter \ {f} : batch'[g] = batch[g]
  BY DEF QueueTypes

(* An empty batch has no members.                                          *)
LEMMA NoneInBatch == ToSet(<<>>) = {}
  BY DEF ToSet

(* The queue and the flushes hold ids that were tapped, each once.         *)
LEMMA QueueTypesStep ==
  ASSUME TypeOK, QueueTypeOK, Tapped, [QueueNext]_allVars
  PROVE  QueueTypes' /\ Tapped'
  <1>1. QueueTypes
    BY QueueHalves
  <1>2. ASSUME UNCHANGED <<device, flushes, expired, faults, past>> PROVE QueueTypes' /\ Tapped'
    BY <1>1, <1>2 DEF QueueTypes, Tapped, device, flushes, past
  <1>3. ASSUME NEW o \in Order, Cook(o) PROVE QueueTypes' /\ Tapped'
    BY <1>2, <1>3 DEF Cook, queueVars
  <1>4. CASE FetchReady
    <2>1. listed' \in SUBSET Order
          /\ UNCHANGED <<pending, kind, orderId, dirty, flushes, expired, faults, past>>
      BY <1>4 DEF FetchReady
    <2>2. QED
      BY <1>1, <2>1 DEF QueueTypes, Tapped, flushes, past
  <1>5. ASSUME NEW a \in PendingAction, NEW k \in {"served", "return"}, NEW o \in Order, Enqueue(a, k, o)
        PROVE  QueueTypes' /\ Tapped'
    <2>1. /\ kind[a] = "none" /\ pending' = Append(pending, a)
          /\ kind' = [kind EXCEPT ![a] = k] /\ orderId' = [orderId EXCEPT ![a] = o] /\ dirty' = TRUE
          /\ UNCHANGED <<listed, flushes, expired, faults, past>>
      BY <1>5 DEF Enqueue
    <2>2. pending \in Seq(PendingAction) /\ IsInjective(pending) /\ a \notin ToSet(pending)
      BY <1>1, <2>1 DEF QueueTypes, Tapped
    <2>3. /\ pending' \in Seq(PendingAction) /\ IsInjective(pending')
          /\ ToSet(pending') = ToSet(pending) \cup {a}
      BY <2>1, <2>2, AppendIs
    <2>4. /\ kind' \in [PendingAction -> {"none", "served", "return"}]
          /\ orderId' \in [PendingAction -> Order]
          /\ kind'[a] # "none" /\ \A b \in PendingAction : kind[b] # "none" => kind'[b] # "none"
      BY <1>1, <2>1 DEF QueueTypes
    <2>5. QueueTypes'
      BY <1>1, <2>1, <2>3, <2>4 DEF QueueTypes, flushes, past
    <2>6. ToSet(pending) \subseteq PendingAction
      BY <2>2 DEF ToSet
    <2>7. \A f \in Waiter : ToSet(batch[f]) \subseteq PendingAction
      BY <1>1 DEF QueueTypes, ToSet
    <2>8. applied \subseteq PendingAction /\ batch' = batch /\ applied' = applied
      BY <1>1, <2>1 DEF QueueTypes, flushes, past
    <2>9. Tapped'
      BY <2>3, <2>4, <2>6, <2>7, <2>8 DEF Tapped
    <2>10. QED
      BY <2>5, <2>9
  <1>6. ASSUME NEW f \in Waiter, batch' = [batch EXCEPT ![f] = pending],
               cancelled' \in [Waiter -> BOOLEAN], dirty' \in BOOLEAN,
               UNCHANGED <<pending, kind, orderId, listed, key, awaiting, expired, faults, past>>
        PROVE  QueueTypes' /\ Tapped'
    <2>1. /\ batch' \in [Waiter -> Seq(PendingAction)] /\ batch'[f] = pending
          /\ \A g \in Waiter \ {f} : batch'[g] = batch[g]
      BY <1>1, <1>6, StartTypes
    <2>2. QED
      BY <1>1, <1>6, <2>1 DEF QueueTypes, Tapped, past
  <1>7. CASE Rerender
    <2>1. CASE \E f \in Waiter : cancelled' = [g \in Waiter |-> g # f] /\ batch' = [batch EXCEPT ![f] = pending]
      BY <1>6, <1>7, <2>1 DEF Rerender
    <2>2. CASE cancelled' = [f \in Waiter |-> TRUE] /\ UNCHANGED batch
      BY <1>1, <1>7, <2>2 DEF Rerender, QueueTypes, Tapped, past
    <2>3. QED
      BY <1>7, <2>1, <2>2 DEF Rerender
  <1>8. ASSUME NEW f \in Waiter, Timer(f) PROVE QueueTypes' /\ Tapped'
    <2>1. cancelled' \in [Waiter -> BOOLEAN] /\ dirty' \in BOOLEAN
      BY <1>1, <1>8 DEF Timer, QueueTypes, device
    <2>2. QED
      BY <1>6, <1>8, <2>1 DEF Timer, device
  <1>9. ASSUME NEW f \in Waiter, batch' = [batch EXCEPT ![f] = <<>>],
               awaiting' \in [Waiter -> BOOLEAN], key' \in [Waiter -> PendingAction], faults' \in 0..MaxFaults,
               UNCHANGED <<device, cancelled, expired, past>>
        PROVE  QueueTypes' /\ Tapped'
    <2>1. /\ batch' \in [Waiter -> Seq(PendingAction)] /\ batch'[f] = <<>>
          /\ \A g \in Waiter \ {f} : batch'[g] = batch[g]
      BY <1>1, <1>9 DEF QueueTypes
    <2>2. QED
      BY <1>1, <1>9, <2>1, NoneInBatch DEF QueueTypes, Tapped, device, past
  <1>10. ASSUME NEW f \in Waiter, Send(f) PROVE QueueTypes' /\ Tapped'
    <2>1. CASE cancelled[f]
      BY <1>1, <1>9, <1>10, <2>1 DEF Send, QueueTypes
    <2>2. CASE ~cancelled[f]
      <3>1. Head(batch[f]) \in PendingAction
        BY <1>1, <1>10, TailIs DEF Send, QueueTypes
      <3>2. /\ key' \in [Waiter -> PendingAction] /\ awaiting' \in [Waiter -> BOOLEAN]
            /\ UNCHANGED <<device, batch, cancelled, expired, faults, past>>
        BY <1>1, <1>10, <2>2, <3>1 DEF Send, QueueTypes
      <3>3. QED
        BY <1>1, <3>2 DEF QueueTypes, Tapped, device, past
    <2>3. QED
      BY <2>1, <2>2
  <1>11. ASSUME NEW f \in Waiter, Arrive(f) \/ Conflict(f) \/ Discard(f) PROVE QueueTypes' /\ Tapped'
    BY <1>2, <1>11 DEF Arrive, Conflict, Discard, queueVars
  <1>12. ASSUME NEW f \in Waiter, Apply(f) PROVE QueueTypes' /\ Tapped'
    <2>1. op[f] # "none"
      BY <1>12 DEF Apply, MarkServed, ReturnOrder, Serving
    <2>2. key[f] \in PendingAction /\ kind[key[f]] # "none"
      BY <1>1, <2>1, QueueHalves DEF QueueTypes, Holds
    <2>3. /\ applied' = applied \cup {key[f]} /\ repeated' = repeated \cup ({key[f]} \cap applied)
          /\ UNCHANGED <<device, flushes, expired, faults, refused, dropped>>
      BY <1>12 DEF Apply
    <2>4. QED
      BY <1>1, <2>2, <2>3 DEF QueueTypes, Tapped, device, flushes
  <1>13. ASSUME NEW f \in Waiter, awaiting[f], Dequeue(f), expired' \in BOOLEAN, faults' \in 0..MaxFaults,
                refused' \in SUBSET PendingAction, dropped' \in SUBSET PendingAction,
                UNCHANGED <<applied, repeated>>
         PROVE  QueueTypes' /\ Tapped'
    <2>1. QueueTypes'
      BY <1>1, <1>13, DequeueEffect DEF QueueTypes
    <2>2. \A g \in Waiter : ToSet(batch'[g]) \subseteq ToSet(batch[g])
      BY <1>13, DequeueEffect
    <2>3. ToSet(pending') \subseteq ToSet(pending) /\ UNCHANGED <<kind, applied>>
      BY <1>13, DequeueEffect
    <2>4. QED
      BY <2>1, <2>2, <2>3 DEF Tapped
  <1>14. ASSUME NEW f \in Waiter, awaiting[f] PROVE Head(batch[f]) \in PendingAction
    BY <1>14, TailIs DEF QueueTypeOK
  <1>15. ASSUME NEW f \in Waiter, Answer(f) PROVE QueueTypes' /\ Tapped'
    <2>1. awaiting[f] /\ Dequeue(f) /\ UNCHANGED <<expired, faults, applied, repeated, dropped>>
      BY <1>15 DEF Answer
    <2>2. refused' \in SUBSET PendingAction
      BY <1>1, <1>14, <1>15 DEF Answer, QueueTypes
    <2>3. QED
      BY <1>1, <1>13, <2>1, <2>2 DEF QueueTypes
  <1>16. ASSUME NEW f \in Waiter, Unauthorized(f) PROVE QueueTypes' /\ Tapped'
    <2>1. CASE expired' = FALSE /\ UNCHANGED <<kitchen, device, flushes, faults, past>>
      BY <1>1, <2>1 DEF QueueTypes, Tapped, device, flushes, past
    <2>2. CASE ~(expired' = FALSE /\ UNCHANGED <<kitchen, device, flushes, faults, past>>)
      <3>1. /\ awaiting[f] /\ faults < MaxFaults /\ faults' = faults + 1
            /\ dropped' = dropped \cup {Head(batch[f])} /\ Dequeue(f)
            /\ UNCHANGED <<expired, applied, repeated, refused>>
        BY <1>16, <2>2 DEF Unauthorized
      <3>2. faults' \in 0..MaxFaults /\ dropped' \in SUBSET PendingAction
        BY <1>1, <1>14, <3>1, QueueConstants DEF QueueTypes
      <3>3. QED
        BY <1>1, <1>13, <3>1, <3>2 DEF QueueTypes
    <2>3. QED
      BY <2>1, <2>2
  <1>17. ASSUME NEW f \in Waiter, NetworkFails(f) PROVE QueueTypes' /\ Tapped'
    <2>1. /\ batch' = [batch EXCEPT ![f] = <<>>] /\ awaiting' = [awaiting EXCEPT ![f] = FALSE]
          /\ faults < MaxFaults /\ faults' = faults + 1
          /\ UNCHANGED <<device, key, cancelled, expired, past>>
      BY <1>17 DEF NetworkFails
    <2>2. awaiting' \in [Waiter -> BOOLEAN] /\ key' \in [Waiter -> PendingAction] /\ faults' \in 0..MaxFaults
      BY <1>1, <2>1, QueueConstants DEF QueueTypes
    <2>3. QED
      BY <1>9, <2>1, <2>2
  <1>18. CASE Expire
    BY <1>1, <1>18, QueueConstants DEF Expire, QueueTypes, Tapped, device, flushes, past
  <1>19. CASE UNCHANGED allVars
    BY <1>2, <1>19 DEF allVars, queueVars
  <1>20. QED
    BY <1>3, <1>4, <1>5, <1>7, <1>8, <1>10, <1>11, <1>12, <1>15, <1>16, <1>17, <1>18, <1>19
    DEF QueueNext, Step

(* A request under way is for the action its flush has at its head.        *)
LEMMA HoldsStep ==
  ASSUME TypeOK, QueueTypeOK, Tapped, [QueueNext]_allVars, NEW g \in Waiter
  PROVE  Holds(g)'
  <1> DEFINE Same(h) == /\ batch'[h] = batch[h] /\ key'[h] = key[h] /\ awaiting'[h] = awaiting[h]
                        /\ op'[h] = op[h] /\ order'[h] = order[h]
  <1>1. QueueTypes /\ Holds(g)
    BY QueueHalves
  <1>2. /\ op \in [Client -> Ops] /\ order \in [Client -> Order] /\ Waiter \subseteq Client
        /\ batch \in [Waiter -> Seq(PendingAction)] /\ key \in [Waiter -> PendingAction]
        /\ awaiting \in [Waiter -> BOOLEAN]
    BY <1>1 DEF TypeOK, QueueTypes, Ops, Client
  <1>3. ASSUME Same(g), UNCHANGED <<kind, orderId>> PROVE Holds(g)'
    BY <1>1, <1>3 DEF Holds
  <1>4. ASSUME UNCHANGED <<kind, orderId, flushes, op, order>> PROVE Holds(g)'
    BY <1>1, <1>4 DEF Holds, flushes
  <1>5. ASSUME NEW a \in PendingAction, NEW k \in {"served", "return"}, NEW o \in Order, Enqueue(a, k, o)
        PROVE  Holds(g)'
    <2>1. /\ kind[a] = "none" /\ kind' = [kind EXCEPT ![a] = k] /\ orderId' = [orderId EXCEPT ![a] = o]
          /\ UNCHANGED <<batch, key, awaiting, op, order>>
      BY <1>5 DEF Enqueue, flushes, kitchen, request
    <2>2. op[g] # "none" => key[g] # a
      BY <1>1, <2>1 DEF Holds
    <2>3. QED
      BY <1>1, <1>2, <2>1, <2>2 DEF Holds, QueueTypes
  <1>6. ASSUME NEW f \in Waiter, Free(f), batch' = [batch EXCEPT ![f] = pending],
               UNCHANGED <<kind, orderId, key, awaiting, op, order>>
        PROVE  Holds(g)'
    <2>1. CASE g = f
      <3>1. ~awaiting[g] /\ op[g] = "none"
        BY <1>1, <1>6, <2>1 DEF Holds, Free
      <3>2. ~awaiting'[g] /\ op'[g] = "none"
        BY <1>6, <3>1
      <3>3. QED
        BY <3>2 DEF Holds
    <2>2. CASE g # f
      BY <1>2, <1>3, <1>6, <2>2
    <2>3. QED
      BY <2>1, <2>2
  <1>7. CASE Rerender
    <2>1. UNCHANGED <<kind, orderId, key, awaiting, op, order>>
      BY <1>7 DEF Rerender, kitchen, request
    <2>2. CASE UNCHANGED batch
      BY <1>3, <2>1, <2>2
    <2>3. CASE \E f \in Waiter : Free(f) /\ batch' = [batch EXCEPT ![f] = pending]
      BY <1>6, <2>1, <2>3
    <2>4. QED
      BY <1>7, <2>2, <2>3 DEF Rerender
  <1>8. ASSUME NEW f \in Waiter, Timer(f) PROVE Holds(g)'
    BY <1>6, <1>8 DEF Timer, device, kitchen, request
  <1>9. ASSUME NEW f \in Waiter, Send(f) PROVE Holds(g)'
    <2>1. CASE cancelled[f]
      BY <1>1, <1>2, <1>9, <2>1 DEF Send, Holds, device, kitchen, request
    <2>2. CASE ~cancelled[f]
      <3> DEFINE a == Head(batch[f])
      <3>1. /\ batch[f] # <<>> /\ Ask(f, kind[a], orderId[a])
            /\ key' = [key EXCEPT ![f] = a] /\ awaiting' = [awaiting EXCEPT ![f] = TRUE]
            /\ UNCHANGED <<batch, kind, orderId>>
        BY <1>9, <2>2 DEF Send, device
      <3> HIDE DEF a
      <3>2. op' = [op EXCEPT ![f] = kind[a]] /\ order' = [order EXCEPT ![f] = orderId[a]]
        BY <3>1 DEF Ask
      <3>3. CASE g = f
        BY <1>2, <3>1, <3>2, <3>3 DEF Holds, a
      <3>4. CASE g # f
        BY <1>2, <1>3, <3>1, <3>2, <3>4
      <3>5. QED
        BY <3>3, <3>4
    <2>3. QED
      BY <2>1, <2>2
  <1>10. ASSUME NEW f \in Waiter, Arrive(f) \/ Apply(f) \/ Conflict(f) PROVE Holds(g)'
    BY <1>4, <1>10 DEF Arrive, Read, Apply, MarkServed, ReturnOrder, Conflict, AlreadyServed, queueVars, device
  <1>11. ASSUME NEW f \in Waiter, op' = [op EXCEPT ![f] = "none"], UNCHANGED <<kind, orderId, order>>,
                \/ /\ UNCHANGED <<batch, key, awaiting>>
                \/ /\ \A h \in Waiter \ {f} : batch'[h] = batch[h]
                   /\ awaiting' = [awaiting EXCEPT ![f] = FALSE] /\ UNCHANGED key
         PROVE  Holds(g)'
    BY <1>1, <1>2, <1>11 DEF Holds
  <1>12. ASSUME NEW f \in Waiter, awaiting[f], Dequeue(f)
         PROVE  /\ \A h \in Waiter \ {f} : batch'[h] = batch[h]
                /\ awaiting' = [awaiting EXCEPT ![f] = FALSE] /\ UNCHANGED <<key, kind, orderId>>
    BY <1>12, DequeueEffect
  <1>13. ASSUME NEW f \in Waiter, Answer(f) PROVE Holds(g)'
    <2>1. awaiting[f] /\ Receive(f) /\ Dequeue(f)
      BY <1>13 DEF Answer
    <2>2. op' = [op EXCEPT ![f] = "none"] /\ UNCHANGED order
      BY <2>1 DEF Receive
    <2>3. QED
      BY <1>11, <1>12, <2>1, <2>2
  <1>14. ASSUME NEW f \in Waiter, Unauthorized(f) PROVE Holds(g)'
    <2>1. CASE UNCHANGED <<kitchen, device, flushes>>
      BY <1>4, <2>1 DEF kitchen, device, request
    <2>2. CASE awaiting[f] /\ Vanish(f) /\ Dequeue(f)
      BY <1>11, <1>12, <2>2 DEF Vanish
    <2>3. QED
      BY <1>14, <2>1, <2>2 DEF Unauthorized
  <1>15. ASSUME NEW f \in Waiter, NetworkFails(f) PROVE Holds(g)'
    <2>1. /\ batch' = [batch EXCEPT ![f] = <<>>] /\ awaiting' = [awaiting EXCEPT ![f] = FALSE]
          /\ UNCHANGED <<kind, orderId, key>> /\ (UNCHANGED kitchen \/ Vanish(f))
      BY <1>15 DEF NetworkFails, device
    <2>2. CASE UNCHANGED kitchen
      BY <1>1, <1>2, <2>1, <2>2 DEF Holds, kitchen, request
    <2>3. CASE Vanish(f)
      BY <1>2, <1>11, <2>1, <2>3 DEF Vanish
    <2>4. QED
      BY <2>1, <2>2, <2>3
  <1>16. ASSUME NEW f \in Waiter, Discard(f) PROVE Holds(g)'
    BY <1>11, <1>16 DEF Discard, Vanish, queueVars, device, flushes
  <1>17. CASE FetchReady \/ Expire \/ UNCHANGED allVars \/ \E o \in Order : Cook(o)
    BY <1>4, <1>17 DEF FetchReady, Expire, Cook, allVars, queueVars, device, kitchen, request
  <1>18. QED
    BY <1>5, <1>7, <1>8, <1>9, <1>10, <1>13, <1>14, <1>15, <1>16, <1>17 DEF QueueNext, Step

-----------------------------------------------------------------------------
QueueInv == TypeOK /\ QueueTypeOK /\ Tapped

(* The invariant holds when the behaviour begins.                          *)
LEMMA QueueInvInit == QueueInit => QueueInv
  <1> SUFFICES ASSUME QueueInit PROVE QueueInv
    OBVIOUS
  <1>1. TypeOK
    BY InitType DEF QueueInit
  <1>2. /\ pending = <<>> /\ kind = [a \in PendingAction |-> "none"]
        /\ orderId = [a \in PendingAction |-> CHOOSE o \in Order : TRUE]
        /\ batch = [f \in Waiter |-> <<>>] /\ key = [f \in Waiter |-> CHOOSE a \in PendingAction : TRUE]
        /\ awaiting = [f \in Waiter |-> FALSE] /\ cancelled = [f \in Waiter |-> FALSE]
        /\ listed = {} /\ dirty = FALSE /\ expired \in BOOLEAN /\ faults = 0
        /\ applied = {} /\ repeated = {} /\ refused = {} /\ dropped = {}
    BY DEF QueueInit
  <1>3. (CHOOSE o \in Order : TRUE) \in Order /\ (CHOOSE a \in PendingAction : TRUE) \in PendingAction
    BY QueueConstants
  <1>4. <<>> \in Seq(PendingAction) /\ IsInjective(<<>>)
    BY DEF IsInjective
  <1>5. QueueTypes
    <2> HIDE KitchenConstants
    <2>1. orderId \in [PendingAction -> Order] /\ key \in [Waiter -> PendingAction]
      BY <1>2, <1>3
    <2>2. kind \in [PendingAction -> {"none", "served", "return"}] /\ batch \in [Waiter -> Seq(PendingAction)]
      BY <1>2, <1>4
    <2>3. awaiting \in [Waiter -> BOOLEAN] /\ cancelled \in [Waiter -> BOOLEAN]
      BY <1>2
    <2>4. /\ pending \in Seq(PendingAction) /\ IsInjective(pending)
          /\ listed \in SUBSET Order /\ dirty \in BOOLEAN /\ expired \in BOOLEAN
          /\ applied \in SUBSET PendingAction /\ repeated \in SUBSET applied
          /\ refused \in SUBSET PendingAction /\ dropped \in SUBSET PendingAction
      BY <1>2, <1>4
    <2>5. faults \in 0..MaxFaults
      BY <1>2, QueueConstants
    <2>6. QED
      BY <2>1, <2>2, <2>3, <2>4, <2>5 DEF QueueTypes
  <1>6. \A f \in Waiter : Holds(f)
    BY <1>2 DEF Holds, QueueInit, Init, Client
  <1>7. Tapped
    BY <1>2, NoneInBatch DEF Tapped
  <1>8. QED
    BY <1>1, <1>5, <1>6, <1>7, QueueHalves DEF QueueInv

(* Every step keeps the invariant of the queue.                            *)
LEMMA QueueInvStep == QueueInv /\ [QueueNext]_allVars => QueueInv'
  <1> SUFFICES ASSUME QueueInv, [QueueNext]_allVars PROVE QueueInv'
    OBVIOUS
  <1>1. TypeOK /\ QueueTypeOK /\ Tapped
    BY DEF QueueInv
  <1>2. TypeOK' /\ QueueTypes' /\ Tapped' /\ \A f \in Waiter : Holds(f)'
    BY <1>1, KitchenType, QueueTypesStep, HoldsStep
  <1>3. QueueTypeOK'
    BY <1>2, QueueHalves DEF QueueTypeOK, QueueTypes, Holds
  <1>4. QED
    BY <1>2, <1>3 DEF QueueInv

(* What the device keeps has its type at every moment, an action is queued *)
(* once, and an awaited answer is to the request of the action at the head *)
(* (actionQueue.ts:15-34, useWaiterService.ts:50-81).                      *)
THEOREM QueueTypeCorrect == QueueSpec => []QueueTypeOK
  <1>1. QueueInv => QueueTypeOK
    BY DEF QueueInv
  <1>2. QED
    BY <1>1, QueueInvInit, QueueInvStep, PTL DEF QueueSpec

-----------------------------------------------------------------------------
(* What the kitchen's record tells of the orders: a SERVED order has a     *)
(* SERVED event, and one that was served and not returned stays SERVED,    *)
(* unless requests raced for it.                                           *)
RecordTells ==
  \A o \in Order :
    /\ status[o] = "SERVED" => serves[o] > 0
    /\ o \notin raced /\ serves[o] > 0 /\ returns[o] = 0 => status[o] = "SERVED"

(* What a request knows: its order was served if it was read SERVED, its   *)
(* action is applied if its answer says so, and a conflict was read.       *)
Knows(f) ==
  /\ seen[f] = "SERVED" => serves[order[f]] > 0
  /\ outcome[f] = "ok" => key[f] \in applied
  /\ outcome[f] = "conflict" => seen[f] = "SERVED"

AppliedServed == \A a \in applied : kind[a] = "served" => serves[orderId[a]] > 0

(* The server applies an action: its order is moved and counted.           *)
LEMMA ApplyEffect ==
  ASSUME TypeOK, NEW f \in Waiter, Apply(f)
  PROVE  /\ order[f] \in Order /\ op[f] \in {"served", "return"}
         /\ \A o \in Order \ {order[f]} :
              status'[o] = status[o] /\ serves'[o] = serves[o] /\ returns'[o] = returns[o]
         /\ serves[order[f]] <= serves'[order[f]] /\ returns[order[f]] <= returns'[order[f]]
         /\ raced \subseteq raced'
         /\ order[f] \notin raced' => seen[f] = status[order[f]]
         /\ op[f] = "served" => /\ seen[f] # "SERVED" /\ serves'[order[f]] > 0
                                /\ status'[order[f]] = "SERVED" /\ returns'[order[f]] = returns[order[f]]
         /\ op[f] = "return" => /\ returns'[order[f]] > 0 /\ status'[order[f]] = "IN_PREPARATION"
                                /\ serves'[order[f]] = serves[order[f]]
         /\ applied' = applied \cup {key[f]} /\ repeated' = repeated \cup ({key[f]} \cap applied)
         /\ outcome' = [outcome EXCEPT ![f] = "ok"]
         /\ UNCHANGED <<op, order, seen, device, flushes, expired, faults, refused, dropped>>
  <1> DEFINE o == order[f]
  <1>1. f \in Client /\ o \in Order /\ serves[o] \in 0..MaxEvents /\ returns[o] \in 0..MaxEvents
    BY DEF TypeOK, Client
  <1>2. \A n \in 0..MaxEvents : Plus1(n) \in 0..MaxEvents /\ n <= Plus1(n) /\ Plus1(n) > 0
    BY DEF Plus1
  <1>3. /\ applied' = applied \cup {key[f]} /\ repeated' = repeated \cup ({key[f]} \cap applied)
        /\ UNCHANGED <<device, flushes, expired, faults, refused, dropped>>
    BY DEF Apply
  <1>4. CASE MarkServed(f)
    <2>1. /\ Serving(f, "served") /\ seen[f] # "SERVED" /\ Record(f, "SERVED")
          /\ serves' = [serves EXCEPT ![o] = Plus1(@)]
          /\ UNCHANGED <<returns, op, order, seen>>
      BY <1>4 DEF MarkServed
    <2>2. /\ status'[o] = "SERVED" /\ \A p \in Order \ {o} : status'[p] = status[p]
          /\ raced \subseteq raced' /\ (o \notin raced' => seen[f] = status[o])
      BY <1>1, <2>1, RecordType DEF Status, Ops
    <2>3. /\ serves'[o] = Plus1(serves[o]) /\ \A p \in Order \ {o} : serves'[p] = serves[p]
      BY <1>1, <2>1 DEF TypeOK
    <2>4. op[f] = "served" /\ outcome' = [outcome EXCEPT ![f] = "ok"]
      BY <2>1 DEF Serving, Record
    <2> HIDE DEF o
    <2>5. serves[o] <= serves'[o] /\ serves'[o] > 0 /\ returns[o] <= returns'[o]
      BY <1>1, <1>2, <2>1, <2>3
    <2>6. QED
      BY <1>1, <1>3, <2>1, <2>2, <2>3, <2>4, <2>5 DEF o
  <1>5. CASE ReturnOrder(f)
    <2>1. /\ Serving(f, "return") /\ Record(f, "IN_PREPARATION")
          /\ returns' = [returns EXCEPT ![o] = Plus1(@)]
          /\ UNCHANGED <<serves, op, order, seen>>
      BY <1>5 DEF ReturnOrder
    <2>2. /\ status'[o] = "IN_PREPARATION" /\ \A p \in Order \ {o} : status'[p] = status[p]
          /\ raced \subseteq raced' /\ (o \notin raced' => seen[f] = status[o])
      BY <1>1, <2>1, RecordType DEF Status, Ops
    <2>3. /\ returns'[o] = Plus1(returns[o]) /\ \A p \in Order \ {o} : returns'[p] = returns[p]
      BY <1>1, <2>1 DEF TypeOK
    <2>4. op[f] = "return" /\ outcome' = [outcome EXCEPT ![f] = "ok"]
      BY <2>1 DEF Serving, Record
    <2> HIDE DEF o
    <2>5. returns[o] <= returns'[o] /\ returns'[o] > 0 /\ serves[o] <= serves'[o]
      BY <1>1, <1>2, <2>1, <2>3
    <2>6. QED
      BY <1>1, <1>3, <2>1, <2>2, <2>3, <2>4, <2>5 DEF o
  <1>6. QED
    BY <1>4, <1>5 DEF Apply

(* Nobody else writes an order but the chef.                               *)
LEMMA OthersWrite ==
  ASSUME [QueueNext]_allVars
  PROVE  \/ \E o \in Order : Cook(o)
         \/ \E f \in Waiter : Apply(f)
         \/ UNCHANGED <<orders, history, applied, repeated>>
  <1>1. ASSUME NEW f \in Waiter, Send(f) \/ Arrive(f) \/ Conflict(f) \/ Answer(f) \/ Unauthorized(f)
                                  \/ Discard(f) \/ NetworkFails(f) \/ Timer(f)
        PROVE  UNCHANGED <<orders, history, applied, repeated>>
    BY <1>1 DEF Send, Ask, Arrive, Read, Conflict, AlreadyServed, Refuse, Answer, Receive, Unauthorized, Vanish,
       Discard, NetworkFails, Timer, kitchen, queueVars, past, orders, events
  <1>2. CASE FetchReady \/ Rerender \/ Expire \/ UNCHANGED allVars
             \/ \E a \in PendingAction, k \in {"served", "return"}, o \in Order : Enqueue(a, k, o)
    BY <1>2 DEF FetchReady, Rerender, Expire, Enqueue, allVars, kitchen, queueVars, past
  <1>3. QED
    BY <1>1, <1>2 DEF QueueNext, Step

(* Only a tap gives an action its kind and its order, once.                *)
LEMMA TapsStay ==
  ASSUME QueueInv, [QueueNext]_allVars, NEW a \in PendingAction, kind[a] # "none"
  PROVE  kind'[a] = kind[a] /\ orderId'[a] = orderId[a]
  <1>1. ASSUME NEW b \in PendingAction, NEW k \in {"served", "return"}, NEW o \in Order, Enqueue(b, k, o)
        PROVE  kind'[a] = kind[a] /\ orderId'[a] = orderId[a]
    BY <1>1 DEF Enqueue, QueueInv, QueueTypeOK
  <1>2. ASSUME ~\E b \in PendingAction, k \in {"served", "return"}, o \in Order : Enqueue(b, k, o)
        PROVE  UNCHANGED <<kind, orderId>>
    BY <1>2 DEF QueueNext, Step, Cook, FetchReady, Rerender, Expire, Timer, Send, Arrive, Apply, Conflict,
       Answer, Dequeue, Unauthorized, Discard, NetworkFails, allVars, queueVars, device
  <1>3. QED
    BY <1>1, <1>2

(* The counters and the histories grow.                                    *)
LEMMA RecordGrows ==
  ASSUME QueueInv, [QueueNext]_allVars, NEW o \in Order
  PROVE  /\ serves[o] \in Nat /\ serves'[o] \in Nat /\ serves[o] <= serves'[o]
         /\ returns[o] \in Nat /\ returns'[o] \in Nat /\ returns[o] <= returns'[o]
         /\ raced \subseteq raced' /\ applied \subseteq applied'
  <1>1. /\ serves[o] \in Nat /\ serves'[o] \in Nat /\ returns[o] \in Nat /\ returns'[o] \in Nat
    <2>1. TypeOK /\ TypeOK'
      BY QueueInvStep DEF QueueInv
    <2>2. QED
      BY <2>1 DEF TypeOK
  <1>2. ASSUME NEW p \in Order, Cook(p)
        PROVE  UNCHANGED <<serves, returns, raced, applied>>
    BY <1>2 DEF Cook, history, queueVars, past
  <1>3. ASSUME NEW f \in Waiter, Apply(f)
        PROVE  serves[o] <= serves'[o] /\ returns[o] <= returns'[o] /\ raced \subseteq raced'
               /\ applied \subseteq applied'
    <2>1. TypeOK
      BY DEF QueueInv
    <2>2. QED
      BY <1>1, <1>3, <2>1, ApplyEffect
  <1>4. CASE UNCHANGED <<orders, history, applied, repeated>>
    BY <1>1, <1>4 DEF orders, events, history
  <1>5. QED
    BY <1>1, <1>2, <1>3, <1>4, OthersWrite

(* Every step keeps the record of an order telling.                        *)
LEMMA RecordTellsStep ==
  ASSUME QueueInv, RecordTells, [QueueNext]_allVars
  PROVE  RecordTells'
  <1>1. TypeOK
    BY DEF QueueInv
  <1>2. ASSUME NEW p \in Order, Cook(p) PROVE RecordTells'
    BY <1>1, <1>2 DEF RecordTells, Cook, history, TypeOK, Status
  <1>3. ASSUME NEW f \in Waiter, Apply(f) PROVE RecordTells'
    <2> SUFFICES ASSUME NEW o \in Order
                 PROVE  /\ status'[o] = "SERVED" => serves'[o] > 0
                        /\ o \notin raced' /\ serves'[o] > 0 /\ returns'[o] = 0 => status'[o] = "SERVED"
      BY DEF RecordTells
    <2>1. CASE o # order[f]
      BY <1>1, <1>3, <2>1, ApplyEffect DEF RecordTells
    <2>2. CASE o = order[f] /\ op[f] = "served"
      BY <1>1, <1>3, <2>2, ApplyEffect
    <2>3. CASE o = order[f] /\ op[f] = "return"
      <3>1. returns'[o] > 0 /\ status'[o] = "IN_PREPARATION" /\ returns'[o] \in Nat
        BY <1>1, <1>3, <2>3, ApplyEffect, RecordGrows
      <3>2. QED
        BY <3>1
    <2>4. QED
      BY <1>1, <1>3, <2>1, <2>2, <2>3, ApplyEffect
  <1>4. CASE UNCHANGED <<orders, history, applied, repeated>>
    BY <1>4 DEF RecordTells, orders, events, history
  <1>5. QED
    BY <1>2, <1>3, <1>4, OthersWrite

(* What a flush has read, and was answered, stays true.                    *)
LEMMA KnowsStep ==
  ASSUME QueueInv, RecordTells, [QueueNext]_allVars, NEW g \in Waiter, Knows(g)
  PROVE  Knows(g)'
  <1>1. TypeOK /\ QueueTypeOK /\ Tapped
    BY DEF QueueInv
  <1>2. /\ op \in [Client -> Ops] /\ seen \in [Client -> Status \cup {"unread"}]
        /\ outcome \in [Client -> {"none", "ok", "conflict"}] /\ order \in [Client -> Order]
        /\ key \in [Waiter -> PendingAction] /\ Waiter \subseteq Client
        /\ \A c \in Client : /\ op[c] = "none" => seen[c] = "unread"
                             /\ seen[c] = "unread" => outcome[c] = "none"
    BY <1>1 DEF TypeOK, QueueTypeOK, Ops, Client
  <1>3. \A o \in Order : serves[o] \in Nat /\ serves'[o] \in Nat /\ serves[o] <= serves'[o]
    BY RecordGrows
  <1>4. applied \subseteq applied'
    BY <1>2, RecordGrows
  <1>5. order[g] \in Order
    BY <1>2
  <1>6. serves[order[g]] > 0 => serves'[order[g]] > 0
    BY <1>3, <1>5
  <1>7. ASSUME seen'[g] = seen[g], outcome'[g] = outcome[g], key'[g] = key[g], order'[g] = order[g]
        PROVE  Knows(g)'
    BY <1>4, <1>6, <1>7 DEF Knows
  <1>8. ASSUME seen'[g] = "unread", outcome'[g] = "none"
        PROVE  Knows(g)'
    BY <1>8 DEF Knows
  <1>9. ASSUME UNCHANGED <<request, key>> PROVE Knows(g)'
    BY <1>7, <1>9 DEF request
  <1>10. ASSUME NEW f \in Waiter, Send(f) PROVE Knows(g)'
    <2>1. CASE UNCHANGED <<kitchen, key>>
      BY <1>9, <2>1 DEF kitchen
    <2>2. CASE ~UNCHANGED <<kitchen, key>>
      <3>1. /\ op[f] = "none" /\ order' = [order EXCEPT ![f] = orderId[Head(batch[f])]]
            /\ key' = [key EXCEPT ![f] = Head(batch[f])] /\ UNCHANGED <<seen, outcome>>
        BY <1>10, <2>2 DEF Send, Ask
      <3>2. CASE g = f
        BY <1>2, <1>8, <3>1, <3>2
      <3>3. CASE g # f
        BY <1>2, <1>7, <3>1, <3>3
      <3>4. QED
        BY <3>2, <3>3
    <2>3. QED
      BY <2>1, <2>2
  <1>11. ASSUME NEW f \in Waiter, Arrive(f) PROVE Knows(g)'
    <2>1. /\ seen[f] = "unread" /\ seen' = [seen EXCEPT ![f] = status[order[f]]]
          /\ UNCHANGED <<op, order, outcome, orders, key>>
      BY <1>11 DEF Arrive, Read, queueVars, flushes
    <2>2. CASE g = f
      <3>1. outcome'[g] = "none" /\ seen'[g] = status[order[g]] /\ order'[g] = order[g]
        BY <1>2, <2>1, <2>2
      <3>2. status[order[g]] = "SERVED" => serves'[order[g]] > 0
        BY <1>5, <1>6 DEF RecordTells
      <3>3. QED
        BY <3>1, <3>2 DEF Knows
    <2>3. CASE g # f
      BY <1>2, <1>7, <2>1, <2>3
    <2>4. QED
      BY <2>2, <2>3
  <1>12. ASSUME NEW f \in Waiter, Apply(f) PROVE Knows(g)'
    <2>1. /\ outcome' = [outcome EXCEPT ![f] = "ok"] /\ applied' = applied \cup {key[f]}
          /\ UNCHANGED <<op, order, seen, key>>
      BY <1>1, <1>12, ApplyEffect DEF flushes
    <2>2. CASE g = f
      BY <1>2, <1>6, <2>1, <2>2 DEF Knows
    <2>3. CASE g # f
      BY <1>2, <1>7, <2>1, <2>3
    <2>4. QED
      BY <2>2, <2>3
  <1>13. ASSUME NEW f \in Waiter, Conflict(f) PROVE Knows(g)'
    <2>1. /\ seen[f] = "SERVED" /\ outcome' = [outcome EXCEPT ![f] = "conflict"]
          /\ UNCHANGED <<op, order, seen, key>>
      BY <1>13 DEF Conflict, AlreadyServed, Refuse, queueVars, flushes
    <2>2. CASE g = f
      BY <1>2, <1>6, <2>1, <2>2 DEF Knows
    <2>3. CASE g # f
      BY <1>2, <1>7, <2>1, <2>3
    <2>4. QED
      BY <2>2, <2>3
  <1>14. ASSUME NEW f \in Waiter, seen' = [seen EXCEPT ![f] = "unread"],
                outcome' = [outcome EXCEPT ![f] = "none"], UNCHANGED <<order, key>>
         PROVE  Knows(g)'
    <2>1. CASE g = f
      BY <1>2, <1>8, <1>14, <2>1
    <2>2. CASE g # f
      BY <1>2, <1>7, <1>14, <2>2
    <2>3. QED
      BY <2>1, <2>2
  <1>15. ASSUME NEW f \in Waiter, Answer(f) PROVE Knows(g)'
    BY <1>14, <1>15 DEF Answer, Receive, Dequeue
  <1>16. ASSUME NEW f \in Waiter, Vanish(f), UNCHANGED key PROVE Knows(g)'
    BY <1>14, <1>16 DEF Vanish
  <1>17. ASSUME NEW f \in Waiter, Unauthorized(f) \/ NetworkFails(f) \/ Discard(f) PROVE Knows(g)'
    <2>1. UNCHANGED key /\ (UNCHANGED kitchen \/ Vanish(f))
      BY <1>17 DEF Unauthorized, NetworkFails, Discard, Dequeue, flushes, queueVars
    <2>2. QED
      BY <1>9, <1>16, <2>1 DEF kitchen
  <1>18. ASSUME NEW f \in Waiter, Timer(f) PROVE Knows(g)'
    BY <1>9, <1>18 DEF Timer, kitchen
  <1>19. CASE FetchReady \/ Rerender \/ Expire \/ UNCHANGED allVars \/ (\E o \in Order : Cook(o))
              \/ \E a \in PendingAction, k \in {"served", "return"}, o \in Order : Enqueue(a, k, o)
    BY <1>9, <1>19 DEF FetchReady, Rerender, Expire, Cook, Enqueue, allVars, kitchen, queueVars, flushes
  <1>20. QED
    BY <1>10, <1>11, <1>12, <1>13, <1>15, <1>17, <1>18, <1>19 DEF QueueNext, Step

(* An applied tap has left its order an event.                             *)
LEMMA AppliedServedStep ==
  ASSUME QueueInv, AppliedServed, [QueueNext]_allVars
  PROVE  AppliedServed'
  <1>1. TypeOK /\ QueueTypes /\ Tapped /\ \A f \in Waiter : Holds(f)
    BY QueueHalves DEF QueueInv
  <1>2. ASSUME NEW a \in applied, kind'[a] = "served" PROVE serves'[orderId'[a]] > 0
    <2>1. a \in PendingAction /\ kind[a] # "none"
      BY <1>1 DEF QueueTypes, Tapped
    <2>2. kind'[a] = kind[a] /\ orderId'[a] = orderId[a]
      BY <2>1, TapsStay
    <2>3. orderId[a] \in Order /\ serves[orderId[a]] > 0
      BY <1>1, <1>2, <2>1, <2>2 DEF AppliedServed, QueueTypes
    <2>4. serves'[orderId[a]] > 0
      BY <2>3, RecordGrows
    <2>5. QED
      BY <2>2, <2>4
  <1>3. ASSUME NEW f \in Waiter, Apply(f), kind[key[f]] = "served"
        PROVE  serves'[orderId'[key[f]]] > 0
    <2>1. op[f] \in {"served", "return"}
      BY <1>1, <1>3, ApplyEffect
    <2>2. op[f] = "served" /\ order[f] = orderId[key[f]]
      BY <1>1, <1>3, <2>1 DEF Holds
    <2>3. serves'[order[f]] > 0 /\ UNCHANGED device
      BY <1>1, <1>3, <2>2, ApplyEffect
    <2>4. QED
      BY <2>2, <2>3 DEF device
  <1>4. ASSUME NEW f \in Waiter, Apply(f) PROVE AppliedServed'
    <2>1. applied' = applied \cup {key[f]} /\ kind' = kind
      BY <1>1, <1>4, ApplyEffect DEF device
    <2>2. QED
      BY <1>2, <1>3, <1>4, <2>1 DEF AppliedServed
  <1>5. CASE applied' = applied
    BY <1>2, <1>5 DEF AppliedServed
  <1>6. CASE \E o \in Order : Cook(o)
    BY <1>5, <1>6 DEF Cook, queueVars, past
  <1>7. QED
    BY <1>4, <1>5, <1>6, OthersWrite

-----------------------------------------------------------------------------
(* An action leaves the queue when it is answered, or its session is lost. *)
LEMMA LeavesQueue ==
  ASSUME QueueInv, \A f \in Waiter : Knows(f), [QueueNext]_allVars,
         NEW a \in PendingAction, a \in ToSet(pending), a \notin ToSet(pending')
  PROVE  a \in applied' \/ (a \in refused' /\ serves'[orderId'[a]] > 0) \/ a \in dropped'
  <1>1. TypeOK /\ QueueTypeOK /\ QueueTypes /\ Tapped /\ \A f \in Waiter : Holds(f)
    BY QueueHalves DEF QueueInv
  <1>2. ASSUME NEW f \in Waiter, awaiting[f], Dequeue(f) PROVE a = key[f] /\ key[f] = Head(batch[f])
    <2>1. Holds(f)
      BY <1>1
    <2>2. ToSet(pending') = ToSet(pending) \ {key[f]}
      BY <1>1, <1>2, DequeueEffect
    <2>3. key[f] = Head(batch[f])
      BY <1>2, <2>1 DEF Holds
    <2>4. QED
      BY <2>2, <2>3
  <1>3. ASSUME NEW f \in Waiter, Answer(f)
        PROVE  a \in applied' \/ (a \in refused' /\ serves'[orderId'[a]] > 0)
    <2>1. /\ awaiting[f] /\ Dequeue(f) /\ Receive(f) /\ UNCHANGED applied
          /\ refused' = IF outcome[f] = "conflict" THEN refused \cup {Head(batch[f])} ELSE refused
      BY <1>3 DEF Answer
    <2>2. a = key[f] /\ a = Head(batch[f])
      BY <1>2, <2>1
    <2>3. f \in Client /\ outcome[f] \in {"ok", "conflict"}
      BY <1>1, <2>1 DEF TypeOK, Client, Receive
    <2>4. CASE outcome[f] = "ok"
      BY <2>1, <2>2, <2>4 DEF Knows
    <2>5. CASE outcome[f] = "conflict"
      <3>1. seen[f] = "SERVED" /\ serves[order[f]] > 0
        BY <2>5 DEF Knows
      <3>2. op[f] # "none"
        BY <1>1, <2>3, <3>1 DEF TypeOK
      <3>3. order[f] = orderId[a] /\ kind[a] # "none" /\ orderId[a] \in Order
        BY <1>1, <2>2, <3>2 DEF Holds, QueueTypes
      <3>4. orderId'[a] = orderId[a] /\ UNCHANGED serves
        BY <2>1, <3>3, TapsStay DEF Receive, orders, events
      <3>5. QED
        BY <2>1, <2>2, <2>5, <3>1, <3>3, <3>4
    <2>6. QED
      BY <2>3, <2>4, <2>5
  <1>4. ASSUME NEW f \in Waiter, Unauthorized(f) PROVE a \in dropped'
    <2>1. CASE UNCHANGED device
      BY <2>1 DEF device
    <2>2. CASE awaiting[f] /\ dropped' = dropped \cup {Head(batch[f])} /\ Dequeue(f)
      BY <1>2, <2>2
    <2>3. QED
      BY <1>4, <2>1, <2>2 DEF Unauthorized
  <1>5. ASSUME NEW b \in PendingAction, NEW k \in {"served", "return"}, NEW o \in Order, Enqueue(b, k, o)
        PROVE  FALSE
    <2>1. /\ pending' = Append(pending, b) /\ kind[b] = "none"
          /\ pending \in Seq(PendingAction) /\ IsInjective(pending)
      BY <1>1, <1>5 DEF Enqueue, QueueTypes
    <2>2. b \notin ToSet(pending)
      BY <1>1, <2>1 DEF Tapped
    <2>3. ToSet(pending') = ToSet(pending) \cup {b}
      BY <2>1, <2>2, AppendIs
    <2>4. QED
      BY <2>3
  <1>6. CASE UNCHANGED pending
    BY <1>6
  <1>7. ASSUME NEW f \in Waiter, Send(f) \/ Arrive(f) \/ Apply(f) \/ Conflict(f) \/ Discard(f)
                                  \/ NetworkFails(f) \/ Timer(f)
        PROVE  UNCHANGED pending
    BY <1>7 DEF Send, Arrive, Apply, Conflict, Discard, NetworkFails, Timer, queueVars, device
  <1>8. ASSUME FetchReady \/ Rerender \/ Expire \/ UNCHANGED allVars \/ \E o \in Order : Cook(o)
        PROVE  UNCHANGED pending
    BY <1>8 DEF FetchReady, Rerender, Expire, Cook, allVars, queueVars, device
  <1>9. QED
    BY <1>3, <1>4, <1>5, <1>6, <1>7, <1>8 DEF QueueNext, Step

(* What was refused or dropped stays so.                                   *)
LEMMA PastGrows ==
  ASSUME [QueueNext]_allVars
  PROVE  refused \subseteq refused' /\ dropped \subseteq dropped'
  <1>1. ASSUME NEW f \in Waiter, Answer(f) \/ Unauthorized(f)
        PROVE  refused \subseteq refused' /\ dropped \subseteq dropped'
    BY <1>1 DEF Answer, Unauthorized, past
  <1>2. ASSUME NEW f \in Waiter, Send(f) \/ Arrive(f) \/ Apply(f) \/ Conflict(f) \/ Discard(f)
                                  \/ NetworkFails(f) \/ Timer(f)
        PROVE  UNCHANGED <<refused, dropped>>
    BY <1>2 DEF Send, Arrive, Apply, Conflict, Discard, NetworkFails, Timer, queueVars, past
  <1>3. CASE FetchReady \/ Rerender \/ Expire \/ UNCHANGED allVars \/ (\E o \in Order : Cook(o))
             \/ \E a \in PendingAction, k \in {"served", "return"}, o \in Order : Enqueue(a, k, o)
    BY <1>3 DEF FetchReady, Rerender, Expire, Cook, Enqueue, allVars, queueVars, past
  <1>4. QED
    BY <1>1, <1>2, <1>3 DEF QueueNext, Step

(* A tap waits, was applied, refused with its order served, or dropped.    *)
LEMMA KeptStep ==
  ASSUME QueueInv, \A f \in Waiter : Knows(f), [QueueNext]_allVars,
         NEW a \in PendingAction, kind[a] # "none" => Kept(a), kind'[a] # "none"
  PROVE  Kept(a)'
  <1>1. CASE kind[a] = "none"
    <2>1. PICK b \in PendingAction, k \in {"served", "return"}, o \in Order : Enqueue(b, k, o)
      <3>1. ASSUME ~\E b \in PendingAction, k \in {"served", "return"}, o \in Order : Enqueue(b, k, o)
            PROVE  UNCHANGED kind
        BY <3>1 DEF QueueNext, Step, Cook, FetchReady, Rerender, Expire, Timer, Send, Arrive, Apply, Conflict,
           Answer, Dequeue, Unauthorized, Discard, NetworkFails, allVars, queueVars, device
      <3>2. QED
        BY <1>1, <3>1
    <2>2. /\ kind' = [kind EXCEPT ![b] = k] /\ pending' = Append(pending, b)
          /\ kind[b] = "none"
      BY <2>1 DEF Enqueue
    <2>3. pending \in Seq(PendingAction) /\ IsInjective(pending) /\ b \notin ToSet(pending)
      BY <2>2 DEF QueueInv, QueueTypeOK, Tapped
    <2>4. a = b
      BY <1>1, <2>2 DEF QueueInv, QueueTypeOK
    <2>5. a \in ToSet(pending')
      BY <2>2, <2>3, <2>4, AppendIs
    <2>6. QED
      BY <2>5 DEF Kept
  <1>2. CASE kind[a] # "none"
    <2>1. orderId'[a] = orderId[a] /\ orderId[a] \in Order
      BY <1>2, TapsStay DEF QueueInv, QueueTypeOK
    <2>2. /\ applied \subseteq applied' /\ refused \subseteq refused' /\ dropped \subseteq dropped'
          /\ serves[orderId[a]] > 0 => serves'[orderId[a]] > 0
      BY <2>1, RecordGrows, PastGrows
    <2>3. CASE a \in ToSet(pending)
      BY <2>3, LeavesQueue DEF Kept
    <2>4. CASE a \notin ToSet(pending)
      BY <1>2, <2>1, <2>2, <2>4 DEF Kept
    <2>5. QED
      BY <2>3, <2>4
  <1>3. QED
    BY <1>1, <1>2

(* A tap counts once, or there is a reason.                                *)
LEMMA CountedStep ==
  ASSUME QueueInv, RecordTells, AppliedServed, [QueueNext]_allVars,
         NEW a \in PendingAction, CountedOnce(a)
  PROVE  CountedOnce(a)'
  <1>1. TypeOK /\ QueueTypes /\ Tapped /\ \A f \in Waiter : Holds(f)
    BY QueueHalves DEF QueueInv
  <1> SUFFICES ASSUME a \in repeated'
               PROVE  kind'[a] = "return" \/ orderId'[a] \in raced' \/ returns'[orderId'[a]] > 0
    BY DEF CountedOnce
  <1>2. CASE a \in repeated
    <2>1. kind[a] # "none"
      BY <1>1, <1>2 DEF QueueTypes, Tapped
    <2>2. kind'[a] = kind[a] /\ orderId'[a] = orderId[a] /\ orderId[a] \in Order
      BY <1>1, <2>1, TapsStay DEF QueueTypes
    <2>3. /\ raced \subseteq raced'
          /\ returns[orderId[a]] > 0 => returns'[orderId[a]] > 0
      BY <2>2, RecordGrows
    <2>4. QED
      BY <1>2, <2>2, <2>3 DEF CountedOnce
  <1>3. ASSUME NEW f \in Waiter, Apply(f), a = key[f], a \in applied
        PROVE  kind'[a] = "return" \/ orderId'[a] \in raced' \/ returns'[orderId'[a]] > 0
    <2>1. /\ op[f] \in {"served", "return"} /\ UNCHANGED device /\ order[f] \in Order
          /\ op[f] = "served" => seen[f] # "SERVED" /\ returns'[order[f]] = returns[order[f]]
          /\ order[f] \notin raced' => seen[f] = status[order[f]]
          /\ raced \subseteq raced'
      BY <1>1, <1>3, ApplyEffect
    <2>2. op[f] = kind[a] /\ order[f] = orderId[a]
      BY <1>1, <1>3, <2>1 DEF Holds
    <2>3. kind'[a] = kind[a] /\ orderId'[a] = order[f]
      BY <2>1, <2>2 DEF device
    <2>4. CASE op[f] = "return"
      BY <2>2, <2>3, <2>4
    <2>5. CASE op[f] = "served" /\ order[f] \notin raced'
      <3>1. serves[order[f]] > 0 /\ status[order[f]] # "SERVED" /\ order[f] \notin raced
        BY <1>3, <2>1, <2>2, <2>5 DEF AppliedServed
      <3>2. returns[order[f]] # 0
        BY <2>1, <3>1 DEF RecordTells
      <3>3. returns'[order[f]] > 0
        BY <2>1, <2>5, <3>2, RecordGrows
      <3>4. QED
        BY <2>3, <3>3
    <2>6. QED
      BY <2>1, <2>3, <2>4, <2>5
  <1>4. ASSUME NEW f \in Waiter, Apply(f)
        PROVE  a \in repeated \/ (a = key[f] /\ a \in applied)
    BY <1>1, <1>4, ApplyEffect
  <1>5. CASE repeated' = repeated
    BY <1>2, <1>5
  <1>6. CASE \E o \in Order : Cook(o)
    BY <1>5, <1>6 DEF Cook, queueVars, past
  <1>7. QED
    BY <1>2, <1>3, <1>4, <1>5, <1>6, OthersWrite

TapInv ==
  /\ QueueInv /\ RecordTells /\ AppliedServed
  /\ \A f \in Waiter : Knows(f)
  /\ TapCountsOnce

(* A tap is queued, applied, refused because its order had been served, or *)
(* lost with its session; sending it again serves no order twice unless    *)
(* two requests raced for it or it was returned in between, whatever       *)
(* flushes overlap and whatever the network loses                          *)
(* (useWaiterService.ts:50-81, services.py:47-66).                         *)
THEOREM TapsCountOnce == QueueSpec => []TapCountsOnce
  <1>1. QueueInit => TapInv
    <2> SUFFICES ASSUME QueueInit PROVE TapInv
      OBVIOUS
    <2>1. /\ status = [o \in Order |-> "INGESTED"] /\ serves = [o \in Order |-> 0]
          /\ seen = [c \in Client |-> "unread"] /\ outcome = [c \in Client |-> "none"]
          /\ applied = {} /\ kind = [a \in PendingAction |-> "none"]
      BY DEF QueueInit, Init
    <2>2. RecordTells
      BY <2>1 DEF RecordTells
    <2>3. AppliedServed /\ TapCountsOnce
      BY <2>1 DEF AppliedServed, TapCountsOnce
    <2>4. \A f \in Waiter : Knows(f)
      BY <2>1 DEF Knows, Client
    <2>5. QED
      BY <2>2, <2>3, <2>4, QueueInvInit DEF TapInv
  <1>2. TapInv /\ [QueueNext]_allVars => TapInv'
    <2> SUFFICES ASSUME TapInv, [QueueNext]_allVars PROVE TapInv'
      OBVIOUS
    <2>1. QueueInv /\ RecordTells /\ AppliedServed /\ \A f \in Waiter : Knows(f)
      BY DEF TapInv
    <2>2. QueueInv' /\ RecordTells' /\ AppliedServed' /\ \A f \in Waiter : Knows(f)'
      BY <2>1, QueueInvStep, RecordTellsStep, AppliedServedStep, KnowsStep
    <2>3. ASSUME NEW a \in PendingAction, kind'[a] # "none" PROVE Kept(a)' /\ CountedOnce(a)'
      <3>1. kind[a] # "none" => Kept(a) /\ CountedOnce(a)
        BY DEF TapInv, TapCountsOnce
      <3>2. CountedOnce(a)
        BY <2>1, <3>1 DEF CountedOnce, QueueInv, QueueTypeOK, Tapped
      <3>3. QED
        BY <2>1, <2>3, <3>1, <3>2, KeptStep, CountedStep
    <2>4. TapCountsOnce'
      BY <2>3 DEF TapCountsOnce
    <2>5. QED
      BY <2>2, <2>4 DEF TapInv
  <1>3. TapInv => TapCountsOnce
    BY DEF TapInv
  <1>4. QED
    BY <1>1, <1>2, <1>3, PTL DEF QueueSpec
=============================================================================
