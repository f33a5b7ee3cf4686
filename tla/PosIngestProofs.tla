--------------------------- MODULE PosIngestProofs ---------------------------
(***************************************************************************)
(* Proofs about PosIngest, for any sales, requests and replays, any recipe *)
(* and any stock: what an event tells, and that a shortage is flagged.     *)
(***************************************************************************)
EXTENDS PosIngest, FiniteSetTheorems, WellFoundedInduction, TLAPS

USE PosConstants

-----------------------------------------------------------------------------
(* A sale that is not here has left no trace; one that is has been         *)
(* deducted as its event says, unless two replays of it overlapped, and    *)
(* only from a complete set of recipes.                                    *)
SaleInv(s) ==
  /\ recipe[s] \subseteq Lines[s]
  /\ event[s] = "ABSENT" =>
       /\ recipe[s] = {} /\ ~short[s] /\ deductions[s] = 0
       /\ s \notin answered /\ s \notin overlapped /\ s \notin late
  /\ s \in late => deductions[s] > 0
  /\ deductions[s] > 1 => s \in overlapped /\ s \in late
  /\ event[s] = "INGESTED" => deductions[s] = 1 /\ s \notin late
  /\ event[s] = "REPLAYED" => deductions[s] > 0
  /\ event[s] = "FLAGGED_UNKNOWN_ITEM" /\ s \notin overlapped => deductions[s] = 0
  /\ deductions[s] > 0 => recipe[s] = Lines[s]

InsertedBy(w) == pc[w] \in {"resolving", "short"}

(* A sale is inserted by one transaction at a time, before it is here; a   *)
(* request that has met no unknown item has or will resolve every line.    *)
RequestInv(w) ==
  /\ pc[w] \notin {"replaying", "deducting"}
  /\ pc[w] \in {"idle", "inserting"} => todo[w] = {} /\ mine[w] = {} /\ ~missed[w]
  /\ pc[w] = "short" => todo[w] = {} /\ ~missed[w]
  /\ InsertedBy(w) =>
       /\ event[sale[w]] = "ABSENT"
       /\ ~missed[w] => todo[w] \cup mine[w] = Lines[sale[w]]
       /\ \A v \in Request : sale[v] = sale[w] /\ InsertedBy(v) => v = w

(* A replay works on a sale that is here.  If no other replay worked on it *)
(* at the same time, the lines it has to resolve are still unresolved, so  *)
(* that one that meets an unknown item, or has found no movements, has a   *)
(* sale never deducted.                                                    *)
Replaying(w) == pc[w] \in {"replaying", "deducting"}

ReplayInv(w) ==
  /\ pc[w] \in {"idle", "replaying", "deducting"}
  /\ pc[w] = "idle" => todo[w] = {} /\ mine[w] = {} /\ ~missed[w]
  /\ pc[w] = "deducting" => todo[w] = {} /\ ~missed[w]
  /\ Replaying(w) =>
       /\ event[sale[w]] # "ABSENT"
       /\ ~missed[w] => recipe[sale[w]] \cup todo[w] \cup mine[w] = Lines[sale[w]]
       /\ sale[w] \notin overlapped =>
            /\ \A v \in Replayer : sale[v] = sale[w] /\ Replaying(v) => v = w
            /\ todo[w] \cap recipe[sale[w]] = {}
            /\ missed[w] \/ pc[w] = "deducting" => deductions[sale[w]] = 0

AllSales == \A s \in Sale : SaleInv(s)
AllRequests == \A w \in Request : RequestInv(w)
AllReplays == \A w \in Replayer : ReplayInv(w)

IngestInv == TypeOK /\ AllSales /\ AllRequests /\ AllReplays /\ ShortageIsFlagged

-----------------------------------------------------------------------------
PC == {"idle", "inserting", "resolving", "short", "replaying", "deducting"}

(* The locals of w are well typed: what TypeOK says of one worker.         *)
LocalType(w) ==
  /\ pc[w] \in PC /\ sale[w] \in Sale /\ missed[w] \in BOOLEAN
  /\ todo[w] \in SUBSET Item /\ mine[w] \in SUBSET Item
  /\ todo[w] \cup mine[w] \subseteq Lines[sale[w]]
  /\ todo[w] \cap mine[w] = {}
  /\ pc[w] = "idle" => todo[w] = {} /\ mine[w] = {}

(* The locals are functions of the workers, and only w's change.           *)
Alone(w) ==
  /\ \E p \in PC : pc' = [pc EXCEPT ![w] = p]
  /\ \E s \in Sale : sale' = [sale EXCEPT ![w] = s]
  /\ \E S \in SUBSET Item : todo' = [todo EXCEPT ![w] = S]
  /\ \E S \in SUBSET Item : mine' = [mine EXCEPT ![w] = S]
  /\ \E b \in BOOLEAN : missed' = [missed EXCEPT ![w] = b]

(* The locals of a worker have their types.                                *)
LEMMA LocalTypes ==
  ASSUME TypeOK, NEW w \in Worker
  PROVE  LocalType(w)
  BY DEF TypeOK, LocalType, PC

(* A step of one worker leaves the locals of the others alone.             *)
LEMMA AloneEffect ==
  ASSUME TypeOK, NEW w \in Worker, Alone(w)
  PROVE  \A v \in Worker \ {w} : /\ pc'[v] = pc[v] /\ sale'[v] = sale[v] /\ todo'[v] = todo[v]
                                 /\ mine'[v] = mine[v] /\ missed'[v] = missed[v]
  BY DEF TypeOK, Alone

(* A step of w alone keeps the types of the locals if it keeps w's.        *)
LEMMA AloneTypes ==
  ASSUME TypeOK, NEW w \in Worker, Alone(w), LocalType(w)'
  PROVE  /\ pc' \in [Worker -> PC] /\ sale' \in [Worker -> Sale]
         /\ todo' \in [Worker -> SUBSET Item] /\ mine' \in [Worker -> SUBSET Item]
         /\ missed' \in [Worker -> BOOLEAN]
         /\ \A v \in Worker : LocalType(v)'
  <1>1. /\ pc' \in [Worker -> PC] /\ sale' \in [Worker -> Sale]
        /\ todo' \in [Worker -> SUBSET Item] /\ mine' \in [Worker -> SUBSET Item]
        /\ missed' \in [Worker -> BOOLEAN]
    BY DEF TypeOK, Alone, PC
  <1>2. ASSUME NEW v \in Worker \ {w} PROVE LocalType(v)'
    BY LocalTypes, AloneEffect DEF LocalType
  <1>3. QED
    BY <1>1, <1>2

(* What is not a local of w stays in its type.                             *)
LEMMA TypesFrom ==
  ASSUME TypeOK, NEW w \in Worker, Alone(w), LocalType(w)',
         menu' = menu, onHand' \in Int, moved' = moved,
         event' \in [Sale -> Status], recipe' \in [Sale -> SUBSET Item],
         short' \in [Sale -> BOOLEAN], deductions' \in [Sale -> Nat], late' \in SUBSET Sale,
         answered' \in SUBSET Sale, faults' \in 0..MaxFaults, overlapped' \in SUBSET Sale
  PROVE  TypeOK'
  <1>1. menu' \in SUBSET Item /\ moved' \in Int
    BY DEF TypeOK
  <1>2. QED
    BY <1>1, AloneTypes DEF TypeOK, LocalType, PC

(* The end of a transaction.                                               *)
LEMMA ReleaseEffect ==
  ASSUME TypeOK, NEW w \in Worker, Release(w)
  PROVE  /\ Alone(w) /\ LocalType(w)'
         /\ pc'[w] = "idle" /\ todo'[w] = {} /\ mine'[w] = {} /\ missed'[w] = FALSE
         /\ sale' = sale
  <1>1. /\ pc'[w] = "idle" /\ todo'[w] = {} /\ mine'[w] = {} /\ missed'[w] = FALSE
        /\ sale' = sale /\ sale[w] \in Sale
    BY DEF TypeOK, Release
  <1>2. /\ \E p \in PC : pc' = [pc EXCEPT ![w] = p]
        /\ \E S \in SUBSET Item : todo' = [todo EXCEPT ![w] = S]
        /\ \E S \in SUBSET Item : mine' = [mine EXCEPT ![w] = S]
        /\ \E b \in BOOLEAN : missed' = [missed EXCEPT ![w] = b]
    BY DEF Release, PC
  <1>3. sale' = [sale EXCEPT ![w] = sale[w]]
    BY <1>1 DEF TypeOK
  <1>4. LocalType(w)'
    BY <1>1 DEF LocalType, PC
  <1>5. QED
    BY <1>1, <1>2, <1>3, <1>4 DEF Alone

(* A line is resolved: it is set, or it was unknown.                       *)
LEMMA ResolveEffect ==
  ASSUME TypeOK, NEW w \in Worker, NEW i \in Item, pc[w] # "idle", Resolve(w, i)
  PROVE  /\ Alone(w) /\ LocalType(w)'
         /\ i \in todo[w] /\ todo'[w] = todo[w] \ {i}
         /\ \/ mine'[w] = mine[w] \cup {i} /\ missed'[w] = missed[w]
            \/ mine'[w] = mine[w] /\ missed'[w]
         /\ pc' = pc /\ sale' = sale
         /\ UNCHANGED <<menu, stock, sales, faults, overlapped>>
  <1>1. /\ i \in todo[w] /\ todo'[w] = todo[w] \ {i}
        /\ pc' = pc /\ sale' = sale
        /\ UNCHANGED <<menu, stock, sales, faults, overlapped>>
    BY DEF TypeOK, Resolve
  <1>2. \/ mine'[w] = mine[w] \cup {i} /\ missed'[w] = missed[w]
        \/ mine'[w] = mine[w] /\ missed'[w]
    BY DEF TypeOK, Resolve
  <1>3. LocalType(w) /\ missed'[w] \in BOOLEAN
    <2>1. LocalType(w)
      BY LocalTypes
    <2>2. missed'[w] = missed[w] \/ missed'[w] = TRUE
      BY <1>2 DEF TypeOK, Resolve
    <2>3. QED
      BY <2>1, <2>2 DEF LocalType
  <1>4. LocalType(w)'
    BY <1>1, <1>2, <1>3 DEF LocalType
  <1>5. pc' = [pc EXCEPT ![w] = pc[w]] /\ sale' = [sale EXCEPT ![w] = sale[w]]
    BY <1>1 DEF TypeOK
  <1>6. todo' = [todo EXCEPT ![w] = todo[w] \ {i}] /\ todo[w] \ {i} \in SUBSET Item
    BY <1>3 DEF Resolve, LocalType
  <1>7. /\ \E S \in SUBSET Item : mine' = [mine EXCEPT ![w] = S]
        /\ \E b \in BOOLEAN : missed' = [missed EXCEPT ![w] = b]
    <2>1. CASE i \in menu
      <3>1. mine' = [mine EXCEPT ![w] = mine[w] \cup {i}] /\ mine[w] \cup {i} \in SUBSET Item
        BY <1>3, <2>1 DEF Resolve, LocalType
      <3>2. missed' = [missed EXCEPT ![w] = missed[w]] /\ missed[w] \in BOOLEAN
        BY <1>3, <2>1 DEF Resolve, LocalType, TypeOK
      <3>3. QED
        BY <3>1, <3>2
    <2>2. CASE i \notin menu
      <3>1. mine' = [mine EXCEPT ![w] = mine[w]] /\ mine[w] \in SUBSET Item
        BY <1>3, <2>2 DEF Resolve, LocalType, TypeOK
      <3>2. missed' = [missed EXCEPT ![w] = TRUE]
        BY <2>2 DEF Resolve
      <3>3. QED
        BY <3>1, <3>2
    <2>3. QED
      BY <2>1, <2>2
  <1>8. QED
    BY <1>1, <1>2, <1>3, <1>4, <1>5, <1>6, <1>7 DEF Alone, LocalType
-----------------------------------------------------------------------------
(* What the invariant says of the workers, one by one.                     *)
WorkerInv(w) ==
  /\ w \in Request => RequestInv(w)
  /\ w \in Replayer => ReplayInv(w)

(* A step that writes nothing but w's locals, answers for sales that are   *)
(* here and overlaps on them, keeps the invariant if w keeps its part.     *)
LEMMA OverlapStep ==
  ASSUME IngestInv, NEW w \in Worker, Alone(w), LocalType(w)', WorkerInv(w)',
         UNCHANGED <<menu, stock, event, order, deductions, late>>,
         overlapped \subseteq overlapped', overlapped' \in SUBSET Sale,
         \A s \in overlapped' : s \in overlapped \/ event[s] # "ABSENT",
         answered \subseteq answered', answered' \in SUBSET Sale,
         \A s \in answered' : s \in answered \/ event[s] # "ABSENT",
         faults' \in 0..MaxFaults
  PROVE  IngestInv'
  <1> USE DEF IngestInv
  <1>1. UNCHANGED <<menu, onHand, moved, event, recipe, short, deductions, late>>
    BY DEF stock, order
  <1>2. TypeOK'
    <2>1. /\ onHand' \in Int /\ event' \in [Sale -> Status] /\ recipe' \in [Sale -> SUBSET Item]
          /\ short' \in [Sale -> BOOLEAN] /\ deductions' \in [Sale -> Nat] /\ late' \in SUBSET Sale
      BY <1>1 DEF TypeOK
    <2>2. QED
      BY <1>1, <2>1, TypesFrom
  <1>3. AllSales'
    BY <1>1 DEF AllSales, SaleInv
  <1>4. ShortageIsFlagged'
    BY <1>1 DEF ShortageIsFlagged
  <1>5. \A v \in Worker \ {w} : /\ pc'[v] = pc[v] /\ sale'[v] = sale[v] /\ todo'[v] = todo[v]
                                /\ mine'[v] = mine[v] /\ missed'[v] = missed[v]
    BY AloneEffect
  <1>6. ASSUME NEW v \in Request PROVE RequestInv(v)'
    <2>1. CASE v = w
      BY <2>1, <1>6 DEF WorkerInv
    <2>2. CASE v # w
      <3>1. v \in Worker /\ RequestInv(v)
        BY DEF Worker, AllRequests
      <3>2. InsertedBy(v)' => InsertedBy(v) /\ event'[sale'[v]] = "ABSENT"
        BY <1>1, <1>5, <2>2, <3>1 DEF RequestInv, InsertedBy
      <3>3. ASSUME NEW u \in Request, InsertedBy(v)', sale'[u] = sale'[v], InsertedBy(u)'
            PROVE  u = v
        <4>1. CASE u = w
          <5>1. RequestInv(w)'
            BY <4>1 DEF WorkerInv
          <5>2. QED
            BY <3>3, <4>1, <5>1 DEF RequestInv
        <4>2. CASE u # w
          <5>1. u \in Worker
            BY DEF Worker
          <5>2. QED
            BY <1>5, <2>2, <3>1, <3>3, <4>2, <5>1 DEF RequestInv, InsertedBy
        <4>3. QED
          BY <4>1, <4>2
      <3>4. QED
        BY <1>1, <1>5, <2>2, <3>1, <3>2, <3>3 DEF RequestInv, InsertedBy
    <2>3. QED
      BY <2>1, <2>2
  <1>7. ASSUME NEW v \in Replayer PROVE ReplayInv(v)'
    <2>1. CASE v = w
      BY <2>1, <1>7 DEF WorkerInv
    <2>2. CASE v # w
      <3>1. v \in Worker /\ ReplayInv(v)
        BY DEF Worker, AllReplays
      <3>2. ASSUME NEW u \in Replayer, Replaying(v)', sale'[v] \notin overlapped',
                   sale'[u] = sale'[v], Replaying(u)'
            PROVE  u = v
        <4>1. CASE u = w
          <5>1. ReplayInv(w)'
            BY <4>1 DEF WorkerInv
          <5>2. QED
            BY <3>2, <4>1, <5>1 DEF ReplayInv
        <4>2. CASE u # w
          <5>1. u \in Worker
            BY DEF Worker
          <5>2. QED
            BY <1>1, <1>5, <2>2, <3>1, <3>2, <4>2, <5>1 DEF ReplayInv, Replaying
        <4>3. QED
          BY <4>1, <4>2
      <3>3. QED
        BY <1>1, <1>5, <2>2, <3>1, <3>2 DEF ReplayInv, Replaying
    <2>3. QED
      BY <2>1, <2>2
  <1>8. QED
    BY <1>2, <1>3, <1>4, <1>6, <1>7 DEF AllRequests, AllReplays

(* The same when nothing overlaps.                                         *)
LEMMA LocalStep ==
  ASSUME IngestInv, NEW w \in Worker, Alone(w), LocalType(w)', WorkerInv(w)',
         UNCHANGED <<menu, stock, event, order, deductions, late, overlapped>>,
         answered \subseteq answered', answered' \in SUBSET Sale,
         \A s \in answered' : s \in answered \/ event[s] # "ABSENT",
         faults' \in 0..MaxFaults
  PROVE  IngestInv'
  <1>1. overlapped \in SUBSET Sale
    BY DEF IngestInv, TypeOK
  <1>2. QED
    BY <1>1, OverlapStep

(* A commit keeps the invariant if the sale it writes keeps its part: no   *)
(* other request has inserted the sale, and if another replay works on it, *)
(* the two overlap.                                                        *)
LEMMA CommitStep ==
  ASSUME IngestInv, NEW w \in Worker, NEW status \in Status, Commit(w, status),
         status # "ABSENT",
         w \in Request => InsertedBy(w),
         w \in Replayer => Replaying(w),
         UNCHANGED <<menu, moved, overlapped, faults>>,
         onHand' \in Int, short' \in [Sale -> BOOLEAN], deductions' \in [Sale -> Nat],
         answered \subseteq answered', answered' \subseteq answered \cup {sale[w]},
         late \subseteq late', late' \subseteq late \cup {sale[w]},
         \A s \in Sale : s # sale[w] => short'[s] = short[s] /\ deductions'[s] = deductions[s],
         SaleInv(sale[w])', ShortageIsFlagged'
  PROVE  IngestInv'
  <1> USE DEF IngestInv
  <1> DEFINE s == sale[w]
  <1>0. s \in Sale /\ LocalType(w)
    BY LocalTypes DEF LocalType
  <1>1. /\ event' = [event EXCEPT ![s] = status]
        /\ recipe' = [recipe EXCEPT ![s] = @ \cup mine[w]]
        /\ Release(w)
    BY DEF Commit
  <1>2. /\ Alone(w) /\ LocalType(w)'
        /\ pc'[w] = "idle" /\ todo'[w] = {} /\ mine'[w] = {} /\ missed'[w] = FALSE
        /\ sale' = sale
    BY <1>1, ReleaseEffect
  <1>3. event' \in [Sale -> Status] /\ recipe' \in [Sale -> SUBSET Item]
    BY <1>0, <1>1 DEF TypeOK, LocalType
  <1>4. TypeOK'
    <2>1. answered' \in SUBSET Sale /\ late' \in SUBSET Sale
      BY <1>0 DEF TypeOK
    <2>2. faults' \in 0..MaxFaults /\ overlapped' \in SUBSET Sale
      BY DEF TypeOK
    <2>3. QED
      BY <1>2, <1>3, <2>1, <2>2, TypesFrom
  <1>5. /\ event'[s] # "ABSENT" /\ recipe'[s] = recipe[s] \cup mine[w]
        /\ \A t \in Sale : t # s => event'[t] = event[t] /\ recipe'[t] = recipe[t]
    BY <1>0, <1>1 DEF TypeOK
  <1>6. AllSales'
    <2>1. ASSUME NEW t \in Sale, t # s PROVE SaleInv(t)'
      <3>1. SaleInv(t)
        BY DEF AllSales
      <3>2. (t \in answered' <=> t \in answered) /\ (t \in late' <=> t \in late)
        BY <2>1
      <3>3. QED
        BY <1>5, <2>1, <3>1, <3>2 DEF SaleInv
    <2>2. ASSUME NEW t \in Sale, t = s PROVE SaleInv(t)'
      BY <1>2, <2>2 DEF SaleInv
    <2>3. QED
      BY <2>1, <2>2 DEF AllSales
  <1>7. \A v \in Worker \ {w} : /\ pc'[v] = pc[v] /\ sale'[v] = sale[v] /\ todo'[v] = todo[v]
                                /\ mine'[v] = mine[v] /\ missed'[v] = missed[v]
    BY <1>2, AloneEffect
  <1>8. w \in Replayer => event[s] # "ABSENT"
    BY DEF AllReplays, ReplayInv
  <1>9. ASSUME NEW v \in Request PROVE RequestInv(v)'
    <2>1. CASE v = w
      BY <1>2, <2>1 DEF RequestInv, InsertedBy
    <2>2. CASE v # w
      <3>1. v \in Worker /\ RequestInv(v)
        BY DEF Worker, AllRequests
      <3>2. InsertedBy(v) => sale[v] # s
        <4>1. CASE w \in Request
          BY <2>2, <4>1, <1>9 DEF AllRequests, RequestInv
        <4>2. CASE w \in Replayer
          BY <4>2, <1>8, <3>1 DEF RequestInv
        <4>3. QED
          BY <4>1, <4>2 DEF Worker
      <3>3. sale[v] \in Sale
        BY <3>1 DEF TypeOK
      <3>4. InsertedBy(v)' => InsertedBy(v) /\ event'[sale'[v]] = "ABSENT"
        BY <1>5, <1>7, <2>2, <3>1, <3>2, <3>3 DEF RequestInv, InsertedBy
      <3>5. ASSUME NEW u \in Request, InsertedBy(v)', sale'[u] = sale'[v], InsertedBy(u)'
            PROVE  u = v
        <4>1. u # w /\ u \in Worker
          BY <1>2, <3>5 DEF Worker, InsertedBy
        <4>2. QED
          BY <1>7, <2>2, <3>1, <3>5, <4>1 DEF RequestInv, InsertedBy
      <3>6. QED
        BY <1>7, <2>2, <3>1, <3>4, <3>5 DEF RequestInv, InsertedBy
    <2>3. QED
      BY <2>1, <2>2
  <1>10. ASSUME NEW v \in Replayer PROVE ReplayInv(v)'
    <2>1. CASE v = w
      BY <1>2, <2>1 DEF ReplayInv, Replaying
    <2>2. CASE v # w
      <3>1. v \in Worker /\ ReplayInv(v) /\ sale[v] \in Sale
        BY DEF Worker, AllReplays, TypeOK
      <3>2. Replaying(v) /\ sale[v] = s => s \in overlapped
        <4>1. CASE w \in Request
          <5>1. event[s] = "ABSENT"
            BY <4>1 DEF AllRequests, RequestInv
          <5>2. QED
            BY <3>1, <5>1 DEF ReplayInv
        <4>2. CASE w \in Replayer
          BY <2>2, <3>1, <4>2 DEF ReplayInv
        <4>3. QED
          BY <4>1, <4>2 DEF Worker
      <3>3. Replaying(v) => event'[sale[v]] # "ABSENT"
        BY <1>5, <3>1 DEF ReplayInv
      <3>4. Replaying(v) /\ ~missed[v] =>
              recipe'[sale[v]] \cup todo[v] \cup mine[v] = Lines[sale[v]]
        <4>1. recipe[sale[v]] \subseteq recipe'[sale[v]]
          BY <1>5, <3>1
        <4>2. recipe'[sale[v]] \subseteq Lines[sale[v]]
          BY <1>6, <3>1 DEF AllSales, SaleInv
        <4>3. todo[v] \cup mine[v] \subseteq Lines[sale[v]]
          BY <3>1 DEF TypeOK
        <4>4. QED
          BY <3>1, <4>1, <4>2, <4>3 DEF ReplayInv
      <3>5. ASSUME NEW u \in Replayer, Replaying(v)', sale'[v] \notin overlapped',
                   sale'[u] = sale'[v], Replaying(u)'
            PROVE  u = v
        <4>1. u # w /\ u \in Worker
          BY <1>2, <3>5 DEF Worker, Replaying
        <4>2. QED
          BY <1>7, <2>2, <3>1, <3>5, <4>1 DEF ReplayInv, Replaying
      <3>6. Replaying(v) /\ sale[v] \notin overlapped =>
              /\ recipe'[sale[v]] = recipe[sale[v]] /\ deductions'[sale[v]] = deductions[sale[v]]
        BY <1>5, <3>1, <3>2
      <3>7. QED
        BY <1>7, <2>2, <3>1, <3>3, <3>4, <3>5, <3>6 DEF ReplayInv, Replaying
    <2>3. QED
      BY <2>1, <2>2
  <1>11. QED
    BY <1>4, <1>6, <1>9, <1>10 DEF AllRequests, AllReplays

(* A worker whose transaction is over holds nothing.                       *)
LEMMA ReleasedInv ==
  ASSUME TypeOK, NEW w \in Worker, Release(w)
  PROVE  WorkerInv(w)'
  BY ReleaseEffect DEF WorkerInv, RequestInv, ReplayInv, InsertedBy, Replaying

(* A transaction that ends without writing anything, whoever is answered.  *)
LEMMA EndStep ==
  ASSUME IngestInv, NEW w \in Worker, Release(w),
         UNCHANGED <<menu, stock, event, order, deductions, late, overlapped>>,
         answered \subseteq answered', answered' \in SUBSET Sale,
         \A s \in answered' : s \in answered \/ event[s] # "ABSENT",
         faults' \in 0..MaxFaults
  PROVE  IngestInv'
  BY ReleaseEffect, ReleasedInv, LocalStep DEF IngestInv

(* A request that finds its sale returns it.                               *)
LEMMA ReturnStep ==
  ASSUME IngestInv, NEW w \in Worker, NEW s \in Sale, event[s] # "ABSENT", Return(w, s)
  PROVE  IngestInv'
  <1>1. /\ answered' = answered \cup {s} /\ answered \in SUBSET Sale /\ faults' \in 0..MaxFaults
        /\ Release(w) /\ UNCHANGED <<menu, stock, event, order, deductions, late, overlapped>>
    BY DEF Return, IngestInv, TypeOK, order
  <1>2. QED
    BY <1>1, EndStep

(* The types of w's locals and of the sale it works on.                    *)
LEMMA SaleTypes ==
  ASSUME TypeOK, NEW w \in Worker
  PROVE  /\ sale[w] \in Sale /\ Lines[sale[w]] \in SUBSET Item /\ Usage[sale[w]] \in Nat
         /\ recipe[sale[w]] \in SUBSET Item /\ deductions[sale[w]] \in Nat
         /\ event[sale[w]] \in Status /\ onHand \in Int /\ moved \in Int
         /\ answered \in SUBSET Sale /\ faults \in 0..MaxFaults
  BY DEF TypeOK

(* The first insert of a sale that is not here.                            *)
LEMMA InsertStep ==
  ASSUME IngestInv, NEW w \in Request, Insert(w)
  PROVE  IngestInv'
  <1> USE DEF IngestInv
  <1>0. w \in Worker /\ w \notin Replayer /\ RequestInv(w) /\ LocalType(w)
    BY LocalTypes DEF Worker, AllRequests
  <1> DEFINE s == sale[w]
  <1>1. s \in Sale /\ Lines[s] \in SUBSET Item /\ answered \in SUBSET Sale /\ faults \in 0..MaxFaults
    BY <1>0, SaleTypes
  <1>2. CASE event[s] # "ABSENT" /\ Return(w, s)
    BY <1>0, <1>1, <1>2, ReturnStep
  <1>3. CASE /\ event[s] = "ABSENT"
             /\ pc' = [pc EXCEPT ![w] = "resolving"]
             /\ todo' = [todo EXCEPT ![w] = Lines[s]]
             /\ UNCHANGED <<menu, stock, sales, sale, mine, missed, faults, overlapped>>
    <2>1. pc[w] = "inserting" /\ ~Inserted(s)
      BY DEF Insert
    <2>2. /\ pc'[w] = "resolving" /\ todo'[w] = Lines[s] /\ sale' = sale /\ mine' = mine
          /\ missed' = missed /\ mine[w] = {} /\ ~missed[w]
          /\ \A v \in Worker : pc'[v] = IF v = w THEN "resolving" ELSE pc[v]
      BY <1>0, <1>3, <2>1 DEF TypeOK, RequestInv
    <2>3. LocalType(w)'
      BY <1>0, <1>1, <2>2 DEF LocalType, PC
    <2>4. Alone(w)
      <3>1. sale' = [sale EXCEPT ![w] = s] /\ mine' = [mine EXCEPT ![w] = mine[w]]
            /\ missed' = [missed EXCEPT ![w] = missed[w]]
        BY <1>0, <2>2 DEF TypeOK
      <3>2. mine[w] \in SUBSET Item /\ missed[w] \in BOOLEAN
        BY <1>0 DEF LocalType
      <3>3. QED
        BY <1>1, <1>3, <3>1, <3>2 DEF Alone, PC
    <2>5. \A v \in Request : sale[v] = s /\ InsertedBy(v)' => v = w
      BY <2>1, <2>2 DEF Inserted, InsertedBy, Worker
    <2>6. event' = event
      BY <1>3 DEF sales
    <2>7. RequestInv(w)'
      BY <1>3, <2>2, <2>5, <2>6 DEF RequestInv, InsertedBy
    <2>8. WorkerInv(w)'
      BY <1>0, <2>7 DEF WorkerInv
    <2>9. UNCHANGED <<menu, stock, event, order, deductions, late, overlapped>> /\ answered' = answered
          /\ faults' = faults
      BY <1>3 DEF sales
    <2>10. QED
      BY <1>0, <1>1, <2>3, <2>4, <2>8, <2>9, LocalStep
  <1>4. QED
    BY <1>2, <1>3 DEF Insert

(* A request looks its sale up, and waits for the insert if it is not here.*)
LEMMA LookupStep ==
  ASSUME IngestInv, NEW w \in Request, NEW s \in Sale, Lookup(w, s)
  PROVE  IngestInv'
  <1> USE DEF IngestInv
  <1>0. w \in Worker /\ w \notin Replayer /\ RequestInv(w) /\ LocalType(w)
    BY LocalTypes DEF Worker, AllRequests
  <1>1. CASE event[s] # "ABSENT" /\ Return(w, s)
    BY <1>0, <1>1, ReturnStep
  <1>2. CASE /\ event[s] = "ABSENT"
             /\ pc' = [pc EXCEPT ![w] = "inserting"]
             /\ sale' = [sale EXCEPT ![w] = s]
             /\ UNCHANGED <<menu, stock, sales, todo, mine, missed, faults, overlapped>>
    <2>1. pc[w] = "idle"
      BY DEF Lookup
    <2>2. /\ pc'[w] = "inserting" /\ sale'[w] = s /\ todo' = todo /\ mine' = mine /\ missed' = missed
          /\ todo[w] = {} /\ mine[w] = {} /\ ~missed[w]
      BY <1>0, <1>2, <2>1 DEF TypeOK, RequestInv
    <2>3. LocalType(w)'
      BY <1>0, <2>2 DEF LocalType, PC
    <2>4. Alone(w)
      <3>1. /\ todo' = [todo EXCEPT ![w] = todo[w]] /\ mine' = [mine EXCEPT ![w] = mine[w]]
            /\ missed' = [missed EXCEPT ![w] = missed[w]]
        BY <1>0, <2>2 DEF TypeOK
      <3>2. todo[w] \in SUBSET Item /\ mine[w] \in SUBSET Item /\ missed[w] \in BOOLEAN
        BY <1>0 DEF LocalType
      <3>3. QED
        BY <1>2, <3>1, <3>2 DEF Alone, PC
    <2>5. WorkerInv(w)'
      BY <1>0, <2>2 DEF WorkerInv, RequestInv, InsertedBy
    <2>6. UNCHANGED <<menu, stock, event, order, deductions, late, overlapped>> /\ answered' = answered
          /\ faults' = faults /\ faults \in 0..MaxFaults /\ answered \in SUBSET Sale
      BY <1>0, <1>2, SaleTypes DEF sales
    <2>7. QED
      BY <1>0, <2>3, <2>4, <2>5, <2>6, LocalStep
  <1>3. QED
    BY <1>1, <1>2 DEF Lookup

(* A request resolves a line.                                              *)
LEMMA ResolveStep ==
  ASSUME IngestInv, NEW w \in Request, NEW i \in Item, ResolveItem(w, i)
  PROVE  IngestInv'
  <1> USE DEF IngestInv
  <1>0. w \in Worker /\ w \notin Replayer /\ RequestInv(w)
    BY DEF Worker, AllRequests
  <1>1. pc[w] = "resolving" /\ Resolve(w, i)
    BY DEF ResolveItem
  <1>2. /\ Alone(w) /\ LocalType(w)'
        /\ i \in todo[w] /\ todo'[w] = todo[w] \ {i}
        /\ \/ mine'[w] = mine[w] \cup {i} /\ missed'[w] = missed[w]
           \/ mine'[w] = mine[w] /\ missed'[w]
        /\ pc' = pc /\ sale' = sale
        /\ UNCHANGED <<menu, stock, sales, faults, overlapped>>
    BY <1>0, <1>1, ResolveEffect
  <1>3. ~missed'[w] => todo'[w] \cup mine'[w] = todo[w] \cup mine[w] /\ ~missed[w]
    BY <1>2
  <1>4. RequestInv(w)'
    BY <1>0, <1>1, <1>2, <1>3 DEF RequestInv, InsertedBy, sales
  <1>5. WorkerInv(w)'
    BY <1>0, <1>4 DEF WorkerInv
  <1>6. UNCHANGED <<menu, stock, event, order, deductions, late, overlapped>> /\ answered' = answered
        /\ faults' = faults /\ faults \in 0..MaxFaults /\ answered \in SUBSET Sale
    BY <1>0, <1>2, SaleTypes DEF sales
  <1>7. QED
    BY <1>0, <1>2, <1>5, <1>6, LocalStep

(* A request that falls short comes back with the same locals.             *)
LEMMA FallShortStep ==
  ASSUME IngestInv, NEW w \in Request, FallShort(w)
  PROVE  IngestInv'
  <1> USE DEF IngestInv
  <1>0. w \in Worker /\ w \notin Replayer /\ RequestInv(w) /\ LocalType(w)
    BY LocalTypes DEF Worker, AllRequests
  <1>1. /\ pc[w] = "resolving" /\ todo[w] = {} /\ ~missed[w]
        /\ pc' = [pc EXCEPT ![w] = "short"]
        /\ UNCHANGED <<menu, stock, sales, sale, todo, mine, missed, faults, overlapped>>
    BY DEF FallShort, Resolved
  <1>2. pc'[w] = "short" /\ \A v \in Worker : v # w => pc'[v] = pc[v]
    BY <1>0, <1>1 DEF TypeOK
  <1>3. LocalType(w)'
    BY <1>0, <1>1, <1>2 DEF LocalType, PC
  <1>4. Alone(w)
    <2>1. /\ sale' = [sale EXCEPT ![w] = sale[w]] /\ todo' = [todo EXCEPT ![w] = todo[w]]
          /\ mine' = [mine EXCEPT ![w] = mine[w]] /\ missed' = [missed EXCEPT ![w] = missed[w]]
      BY <1>0, <1>1 DEF TypeOK
    <2>2. QED
      BY <1>0, <1>1, <2>1 DEF Alone, LocalType, PC
  <1>5. RequestInv(w)'
    BY <1>0, <1>1, <1>2 DEF RequestInv, InsertedBy, sales, Worker
  <1>6. WorkerInv(w)'
    BY <1>0, <1>5 DEF WorkerInv
  <1>7. UNCHANGED <<menu, stock, event, order, deductions, late, overlapped>> /\ answered' = answered
        /\ faults' = faults /\ faults \in 0..MaxFaults /\ answered \in SUBSET Sale
    BY <1>0, <1>1, SaleTypes DEF sales
  <1>8. QED
    BY <1>0, <1>3, <1>4, <1>6, <1>7, LocalStep

(* An unknown item: the event is flagged, nothing is deducted.             *)
LEMMA FlagStep ==
  ASSUME IngestInv, NEW w \in Request, FlagUnknown(w)
  PROVE  IngestInv'
  <1> USE DEF IngestInv
  <1> DEFINE s == sale[w]
  <1>0. w \in Worker /\ w \notin Replayer /\ RequestInv(w) /\ s \in Sale /\ SaleInv(s) /\ InsertedBy(w)
    BY SaleTypes DEF Worker, AllRequests, AllSales, FlagUnknown, Resolved, InsertedBy
  <1>1. event[s] = "ABSENT" /\ deductions[s] = 0 /\ recipe[s] = {} /\ s \notin late
    BY <1>0 DEF RequestInv, SaleInv
  <1>2. /\ Commit(w, "FLAGGED_UNKNOWN_ITEM") /\ answered' = answered \cup {s}
        /\ UNCHANGED <<menu, stock, short, deductions, late, faults, overlapped>>
    BY DEF FlagUnknown
  <1>3. /\ event'[s] = "FLAGGED_UNKNOWN_ITEM" /\ recipe'[s] = recipe[s] \cup mine[w] /\ sale' = sale
        /\ \A t \in Sale : t # s => event'[t] = event[t]
    BY <1>0, <1>2 DEF Commit, Release, TypeOK
  <1>4. mine[w] \subseteq Lines[s]
    BY <1>0 DEF TypeOK
  <1>5. SaleInv(sale[w])'
    BY <1>1, <1>2, <1>3, <1>4 DEF SaleInv
  <1>6. ShortageIsFlagged'
    BY <1>1, <1>2, <1>3 DEF ShortageIsFlagged, stock
  <1>7. onHand' \in Int /\ short' \in [Sale -> BOOLEAN] /\ deductions' \in [Sale -> Nat]
    BY <1>2 DEF TypeOK, stock
  <1>8. QED
    BY <1>0, <1>2, <1>5, <1>6, <1>7, CommitStep DEF Status, stock

(* What a deduction does to the balance and to its sale.                   *)
LEMMA DeductEffect ==
  ASSUME TypeOK, NEW s \in Sale, Deduct(s)
  PROVE  /\ onHand' = onHand - Usage[s] /\ onHand' \in Int
         /\ deductions' \in [Sale -> Nat]
         /\ deductions'[s] = deductions[s] + 1
         /\ \A t \in Sale : t # s => deductions'[t] = deductions[t]
  <1>1. onHand \in Int /\ Usage[s] \in Nat /\ deductions[s] \in Nat
    BY DEF TypeOK
  <1>2. deductions[s] + 1 \in Nat
    BY <1>1
  <1>3. deductions' = [deductions EXCEPT ![s] = deductions[s] + 1]
    BY DEF Deduct
  <1>4. QED
    BY <1>1, <1>2, <1>3 DEF Deduct, TypeOK

(* A sale is ingested with every line: with the stock, or flagged.         *)
LEMMA IngestedStep ==
  ASSUME IngestInv, NEW w \in Request, Ingest(w) \/ IngestShort(w)
  PROVE  IngestInv'
  <1> USE DEF IngestInv
  <1> DEFINE s == sale[w]
  <1>0. w \in Worker /\ w \notin Replayer /\ RequestInv(w) /\ s \in Sale /\ SaleInv(s) /\ InsertedBy(w)
    BY SaleTypes DEF Worker, AllRequests, AllSales, Ingest, IngestShort, Resolved, InsertedBy
  <1>1. event[s] = "ABSENT" /\ deductions[s] = 0 /\ recipe[s] = {} /\ mine[w] = Lines[s] /\ s \notin late
    <2>1. todo[w] = {} /\ ~missed[w]
      BY <1>0 DEF Ingest, IngestShort, Resolved, RequestInv
    <2>2. QED
      BY <1>0, <2>1 DEF RequestInv, SaleInv
  <1>2. /\ Commit(w, "INGESTED") /\ Deduct(s) /\ answered' = answered \cup {s}
        /\ UNCHANGED <<menu, moved, late, faults, overlapped>>
    BY DEF Ingest, IngestShort
  <1>3. /\ event'[s] = "INGESTED" /\ recipe'[s] = Lines[s] /\ sale' = sale
        /\ \A t \in Sale : t # s => event'[t] = event[t]
    BY <1>0, <1>1, <1>2 DEF Commit, Release, TypeOK
  <1>4. /\ onHand' = onHand - Usage[s] /\ onHand' \in Int
        /\ deductions' \in [Sale -> Nat]
        /\ deductions'[s] = 1
        /\ \A t \in Sale : t # s => deductions'[t] = deductions[t]
    BY <1>0, <1>1, <1>2, DeductEffect
  <1>5. SaleInv(sale[w])'
    BY <1>1, <1>2, <1>3, <1>4 DEF SaleInv
  <1>6. /\ short' \in [Sale -> BOOLEAN]
        /\ \A t \in Sale : t # s => short'[t] = short[t]
        /\ \A t \in Sale : short[t] => short'[t]
        /\ Ingest(w) \/ short'[s]
    <2>1. short \in [Sale -> BOOLEAN]
      BY DEF TypeOK
    <2>2. CASE Ingest(w)
      <3>1. short' = short
        BY <2>2 DEF Ingest
      <3>2. QED
        BY <2>1, <2>2, <3>1
    <2>3. CASE IngestShort(w)
      <3>1. short' = [short EXCEPT ![s] = TRUE]
        BY <2>3 DEF IngestShort
      <3>2. QED
        BY <1>0, <2>1, <3>1
    <2>4. QED
      BY <2>2, <2>3
  <1>7. ShortageIsFlagged'
    <2>1. CASE Ingest(w)
      BY <1>4, <2>1 DEF Ingest, ShortageIsFlagged
    <2>2. CASE short'[s]
      BY <1>0, <2>2 DEF ShortageIsFlagged
    <2>3. QED
      BY <1>6, <2>1, <2>2
  <1>8. QED
    BY <1>0, <1>2, <1>4, <1>5, <1>6, <1>7, CommitStep DEF Status

(* A replay begins with the lines that have no recipe; if another replay   *)
(* works on the sale, the two overlap.                                     *)
LEMMA StartReplayStep ==
  ASSUME IngestInv, NEW w \in Replayer, NEW s \in Sale, StartReplay(w, s)
  PROVE  IngestInv'
  <1> USE DEF IngestInv
  <1>0. w \in Worker /\ w \notin Request /\ ReplayInv(w) /\ SaleInv(s)
    BY DEF Worker, AllReplays, AllSales
  <1>1. /\ pc[w] = "idle" /\ event[s] # "ABSENT"
        /\ pc' = [pc EXCEPT ![w] = "replaying"]
        /\ sale' = [sale EXCEPT ![w] = s]
        /\ todo' = [todo EXCEPT ![w] = Lines[s] \ recipe[s]]
        /\ overlapped' = overlapped \cup
             {s2 \in {s} : \E v \in Replayer \ {w} : Replaying(v) /\ sale[v] = s}
        /\ UNCHANGED <<menu, stock, sales, mine, missed, faults>>
    BY DEF StartReplay, Replays, Replaying
  <1>2. /\ pc'[w] = "replaying" /\ sale'[w] = s /\ todo'[w] = Lines[s] \ recipe[s]
        /\ mine' = mine /\ missed' = missed /\ mine[w] = {} /\ ~missed[w]
        /\ \A v \in Worker : v # w => pc'[v] = pc[v] /\ sale'[v] = sale[v]
    BY <1>0, <1>1 DEF TypeOK, ReplayInv
  <1>3. LocalType(w) /\ Lines[s] \in SUBSET Item
    BY <1>0, LocalTypes
  <1>4. LocalType(w)'
    BY <1>2, <1>3 DEF LocalType, PC
  <1>5. Alone(w)
    <2>1. /\ mine' = [mine EXCEPT ![w] = mine[w]] /\ missed' = [missed EXCEPT ![w] = missed[w]]
      BY <1>0, <1>2 DEF TypeOK
    <2>2. QED
      BY <1>1, <1>3, <2>1 DEF Alone, LocalType, PC
  <1>6. \A v \in Replayer : sale'[v] = s /\ Replaying(v)' /\ v # w => s \in overlapped'
    BY <1>1, <1>2 DEF Worker, Replaying
  <1>7. recipe' = recipe /\ event' = event /\ deductions' = deductions
    BY <1>1 DEF sales, order
  <1>8. recipe[s] \cup (Lines[s] \ recipe[s]) = Lines[s]
    BY <1>0 DEF SaleInv
  <1>9. ReplayInv(w)'
    BY <1>1, <1>2, <1>6, <1>7, <1>8 DEF ReplayInv, Replaying
  <1>10. WorkerInv(w)'
    BY <1>0, <1>9 DEF WorkerInv
  <1>11. UNCHANGED <<menu, stock, event, order, deductions, late>> /\ answered' = answered
         /\ faults' = faults /\ faults \in 0..MaxFaults /\ answered \in SUBSET Sale
    BY <1>0, <1>1, SaleTypes DEF sales
  <1>12. /\ overlapped \subseteq overlapped' /\ overlapped' \in SUBSET Sale
         /\ \A t \in overlapped' : t \in overlapped \/ event[t] # "ABSENT"
    BY <1>1 DEF TypeOK
  <1>13. QED
    BY <1>0, <1>4, <1>5, <1>10, <1>11, <1>12, OverlapStep

(* A replay saves a line, or passes over one that is still unknown.        *)
LEMMA ReplayItemStep ==
  ASSUME IngestInv, NEW w \in Replayer, NEW i \in Item, ReplayItem(w, i)
  PROVE  IngestInv'
  <1> USE DEF IngestInv
  <1> DEFINE s == sale[w]
  <1>0. w \in Worker /\ w \notin Request /\ ReplayInv(w) /\ s \in Sale /\ SaleInv(s)
    BY SaleTypes DEF Worker, AllReplays, AllSales
  <1>1. pc[w] = "replaying" /\ Resolve(w, i)
    BY DEF ReplayItem
  <1>2. /\ Alone(w) /\ LocalType(w)'
        /\ i \in todo[w] /\ todo'[w] = todo[w] \ {i}
        /\ \/ mine'[w] = mine[w] \cup {i} /\ missed'[w] = missed[w]
           \/ mine'[w] = mine[w] /\ missed'[w]
        /\ pc' = pc /\ sale' = sale
        /\ UNCHANGED <<menu, stock, sales, faults, overlapped>>
    BY <1>0, <1>1, ResolveEffect
  <1>3. recipe' = recipe /\ event' = event /\ deductions' = deductions /\ overlapped' = overlapped
    BY <1>2 DEF sales, order
  <1>4. ~missed'[w] => todo'[w] \cup mine'[w] = todo[w] \cup mine[w] /\ ~missed[w]
    BY <1>2
  <1>5. ~missed'[w] => recipe[s] \cup todo'[w] \cup mine'[w] = Lines[s]
    BY <1>0, <1>1, <1>4 DEF ReplayInv, Replaying
  <1>6. s \notin overlapped => todo'[w] \cap recipe[s] = {} /\ deductions[s] = 0
    <2>1. s \notin overlapped => todo[w] \cap recipe[s] = {}
      BY <1>0, <1>1 DEF ReplayInv, Replaying
    <2>2. todo[w] \subseteq Lines[s] /\ deductions[s] \in Nat
      BY <1>0 DEF TypeOK
    <2>3. s \notin overlapped => recipe[s] # Lines[s]
      BY <1>2, <2>1, <2>2
    <2>4. s \notin overlapped => deductions[s] = 0
      BY <1>0, <2>2, <2>3 DEF SaleInv
    <2>5. QED
      BY <1>2, <2>1, <2>4
  <1>7. ReplayInv(w)'
    BY <1>0, <1>1, <1>2, <1>3, <1>5, <1>6 DEF ReplayInv, Replaying
  <1>8. WorkerInv(w)'
    BY <1>0, <1>7 DEF WorkerInv
  <1>9. UNCHANGED <<menu, stock, event, order, deductions, late, overlapped>> /\ answered' = answered
        /\ faults' = faults /\ faults \in 0..MaxFaults /\ answered \in SUBSET Sale
    BY <1>0, <1>2, SaleTypes DEF sales
  <1>10. QED
    BY <1>0, <1>2, <1>8, <1>9, LocalStep

(* A replay that found no movements of its sale goes on to post them.      *)
LEMMA BeginDeductionStep ==
  ASSUME IngestInv, NEW w \in Replayer, BeginDeduction(w)
  PROVE  IngestInv'
  <1> USE DEF IngestInv
  <1> DEFINE s == sale[w]
  <1>0. w \in Worker /\ w \notin Request /\ ReplayInv(w) /\ LocalType(w)
    BY LocalTypes DEF Worker, AllReplays
  <1>1. /\ pc[w] = "replaying" /\ todo[w] = {} /\ ~missed[w] /\ deductions[s] = 0
        /\ pc' = [pc EXCEPT ![w] = "deducting"]
        /\ UNCHANGED <<menu, stock, sales, sale, todo, mine, missed, faults, overlapped>>
    BY DEF BeginDeduction, AllResolved
  <1>2. pc'[w] = "deducting" /\ \A v \in Worker : v # w => pc'[v] = pc[v]
    BY <1>0, <1>1 DEF TypeOK
  <1>3. LocalType(w)'
    BY <1>0, <1>1, <1>2 DEF LocalType, PC
  <1>4. Alone(w)
    <2>1. /\ sale' = [sale EXCEPT ![w] = sale[w]] /\ todo' = [todo EXCEPT ![w] = todo[w]]
          /\ mine' = [mine EXCEPT ![w] = mine[w]] /\ missed' = [missed EXCEPT ![w] = missed[w]]
      BY <1>0, <1>1 DEF TypeOK
    <2>2. QED
      BY <1>0, <1>1, <2>1 DEF Alone, LocalType, PC
  <1>5. UNCHANGED <<menu, stock, event, order, deductions, late, overlapped>> /\ answered' = answered
        /\ faults' = faults /\ faults \in 0..MaxFaults /\ answered \in SUBSET Sale
    BY <1>0, <1>1, SaleTypes DEF sales
  <1>6. ReplayInv(w)'
    <2>1. \A v \in Replayer : Replaying(v)' => Replaying(v)
      BY <1>1, <1>2 DEF Replaying, Worker
    <2>2. recipe' = recipe
      BY <1>5 DEF order
    <2>3. Replaying(w)
      BY <1>1 DEF Replaying
    <2>4. QED
      BY <1>0, <1>1, <1>2, <1>5, <2>1, <2>2, <2>3 DEF ReplayInv
  <1>7. WorkerInv(w)'
    BY <1>0, <1>6 DEF WorkerInv
  <1>8. QED
    BY <1>0, <1>3, <1>4, <1>5, <1>7, LocalStep

(* A replay that found every recipe deducts the sale.                      *)
LEMMA ReplayDoneStep ==
  ASSUME IngestInv, NEW w \in Replayer, ReplayDone(w)
  PROVE  IngestInv'
  <1> USE DEF IngestInv
  <1> DEFINE s == sale[w]
  <1>0. w \in Worker /\ w \notin Request /\ ReplayInv(w) /\ s \in Sale /\ SaleInv(s)
    BY SaleTypes DEF Worker, AllReplays, AllSales
  <1>1. /\ pc[w] = "deducting" /\ Replaying(w) /\ late' = late \cup {s}
        /\ Deduct(s) /\ Commit(w, "REPLAYED")
        /\ UNCHANGED <<menu, moved, short, answered, faults, overlapped>>
    BY DEF ReplayDone, Replaying
  <1>2. /\ recipe[s] \cup mine[w] = Lines[s] /\ event[s] # "ABSENT"
        /\ s \notin overlapped => deductions[s] = 0
    BY <1>0, <1>1 DEF ReplayInv
  <1>3. /\ event'[s] = "REPLAYED" /\ recipe'[s] = Lines[s] /\ sale' = sale
        /\ \A t \in Sale : t # s => event'[t] = event[t]
    BY <1>0, <1>1, <1>2 DEF Commit, Release, TypeOK
  <1>4. /\ onHand' \in Int /\ deductions' \in [Sale -> Nat]
        /\ deductions'[s] = deductions[s] + 1
        /\ \A t \in Sale : t # s => deductions'[t] = deductions[t]
    BY <1>0, <1>1, DeductEffect
  <1>5. deductions[s] \in Nat
    BY <1>0 DEF TypeOK
  <1>6. SaleInv(sale[w])'
    BY <1>1, <1>2, <1>3, <1>4, <1>5 DEF SaleInv
  <1>7. ShortageIsFlagged'
    BY <1>0, <1>1 DEF ShortageIsFlagged
  <1>8. short' \in [Sale -> BOOLEAN] /\ answered \subseteq answered'
    BY <1>1 DEF TypeOK
  <1>9. QED
    BY <1>0, <1>1, <1>4, <1>6, <1>7, <1>8, CommitStep DEF Status

(* A replay of a sale that has its movements deducts nothing.              *)
LEMMA ReplayExistingStep ==
  ASSUME IngestInv, NEW w \in Replayer, ReplayExisting(w)
  PROVE  IngestInv'
  <1> USE DEF IngestInv
  <1> DEFINE s == sale[w]
  <1>0. w \in Worker /\ w \notin Request /\ ReplayInv(w) /\ s \in Sale /\ SaleInv(s)
    BY SaleTypes DEF Worker, AllReplays, AllSales
  <1>1. /\ pc[w] = "replaying" /\ Replaying(w) /\ ~missed[w] /\ todo[w] = {}
        /\ deductions[s] > 0 /\ Commit(w, "REPLAYED")
        /\ UNCHANGED <<menu, stock, short, deductions, late, answered, faults, overlapped>>
    BY DEF ReplayExisting, AllResolved, Replaying
  <1>2. recipe[s] \cup mine[w] = Lines[s] /\ event[s] # "ABSENT"
    BY <1>0, <1>1 DEF ReplayInv
  <1>3. /\ event'[s] = "REPLAYED" /\ recipe'[s] = Lines[s] /\ sale' = sale
        /\ \A t \in Sale : t # s => event'[t] = event[t]
    BY <1>0, <1>1, <1>2 DEF Commit, Release, TypeOK
  <1>4. SaleInv(sale[w])'
    BY <1>0, <1>1, <1>3 DEF SaleInv
  <1>5. ShortageIsFlagged'
    BY <1>1 DEF ShortageIsFlagged, stock
  <1>6. /\ onHand' \in Int /\ short' \in [Sale -> BOOLEAN] /\ deductions' \in [Sale -> Nat]
        /\ answered \subseteq answered' /\ moved' = moved
    BY <1>1 DEF TypeOK, stock
  <1>7. QED
    BY <1>0, <1>1, <1>4, <1>5, <1>6, CommitStep DEF Status

(* A replay that met an unknown item flags the sale again.                 *)
LEMMA ReplayFlaggedStep ==
  ASSUME IngestInv, NEW w \in Replayer, ReplayFlagged(w)
  PROVE  IngestInv'
  <1> USE DEF IngestInv
  <1> DEFINE s == sale[w]
  <1>0. w \in Worker /\ w \notin Request /\ ReplayInv(w) /\ s \in Sale /\ SaleInv(s)
    BY SaleTypes DEF Worker, AllReplays, AllSales
  <1>1. /\ pc[w] = "replaying" /\ Replaying(w) /\ missed[w] /\ Commit(w, "FLAGGED_UNKNOWN_ITEM")
        /\ UNCHANGED <<menu, stock, short, deductions, late, answered, faults, overlapped>>
    BY DEF ReplayFlagged, Replaying
  <1>2. /\ event[s] # "ABSENT"
        /\ s \notin overlapped => deductions[s] = 0
    BY <1>0, <1>1 DEF ReplayInv
  <1>3. /\ event'[s] = "FLAGGED_UNKNOWN_ITEM" /\ recipe'[s] = recipe[s] \cup mine[w] /\ sale' = sale
        /\ \A t \in Sale : t # s => event'[t] = event[t]
    BY <1>0, <1>1 DEF Commit, Release, TypeOK
  <1>4. mine[w] \subseteq Lines[s]
    BY <1>0 DEF TypeOK
  <1>5. SaleInv(sale[w])'
    BY <1>0, <1>1, <1>2, <1>3, <1>4 DEF SaleInv
  <1>6. ShortageIsFlagged'
    BY <1>1 DEF ShortageIsFlagged, stock
  <1>7. onHand' \in Int /\ short' \in [Sale -> BOOLEAN] /\ deductions' \in [Sale -> Nat]
        /\ answered \subseteq answered'
    BY <1>1 DEF TypeOK, stock
  <1>8. QED
    BY <1>0, <1>1, <1>5, <1>6, <1>7, CommitStep DEF Status, stock

(* A transaction fails or is refused.                                      *)
LEMMA AbandonStep ==
  ASSUME IngestInv, NEW w \in Worker,
         Abort(w) \/ Reject(w)
  PROVE  IngestInv'
  <1>1. /\ Release(w) /\ UNCHANGED <<menu, stock, sales, overlapped>>
        /\ faults' = faults \/ (faults < MaxFaults /\ faults' = faults + 1)
    BY DEF Abort, Reject
  <1>2. faults \in 0..MaxFaults /\ answered \in SUBSET Sale
    BY DEF IngestInv, TypeOK
  <1>3. faults' \in 0..MaxFaults
    BY <1>1, <1>2
  <1>4. UNCHANGED <<menu, stock, event, order, deductions, late, overlapped>> /\ answered' = answered
    BY <1>1 DEF sales
  <1>5. QED
    BY <1>1, <1>2, <1>3, <1>4, EndStep

(* What the workers do not see keeps what is said of them and the sales.   *)
LEMMA OutsideStep ==
  ASSUME IngestInv, UNCHANGED <<sales, locals, faults, overlapped>>,
         menu' \in SUBSET Item, onHand' \in Int, moved' \in Int, onHand < 0 \/ onHand' >= onHand \/ onHand' >= 0
  PROVE  IngestInv'
  <1> USE DEF IngestInv
  <1>1. UNCHANGED <<event, recipe, short, deductions, late, answered, pc, sale, todo, mine, missed,
                    faults, overlapped>>
    BY DEF sales, order, locals
  <1>2. TypeOK'
    BY <1>1 DEF TypeOK
  <1>3. AllSales'
    BY <1>1 DEF AllSales, SaleInv
  <1>4. AllRequests'
    BY <1>1 DEF AllRequests, RequestInv, InsertedBy
  <1>5. AllReplays'
    BY <1>1 DEF AllReplays, ReplayInv, Replaying
  <1>6. ShortageIsFlagged'
    <2>1. onHand \in Int
      BY DEF TypeOK
    <2>2. onHand' < 0 => onHand < 0
      BY <2>1
    <2>3. QED
      BY <1>1, <2>2 DEF ShortageIsFlagged
  <1>7. QED
    BY <1>2, <1>3, <1>4, <1>5, <1>6

(* Every step keeps the invariant.                                         *)
LEMMA IngestInvStep == IngestInv /\ [Next]_vars => IngestInv'
  <1> SUFFICES ASSUME IngestInv, [Next]_vars PROVE IngestInv'
    OBVIOUS
  <1>0. /\ onHand \in Int /\ moved \in Int /\ menu \in SUBSET Item
        /\ Request \subseteq Worker /\ Replayer \subseteq Worker
    BY DEF IngestInv, TypeOK, Worker
  <1>1. ASSUME NEW w \in Request, IngestStep(w) PROVE IngestInv'
    BY <1>1, InsertStep, ResolveStep, FlagStep, IngestedStep, FallShortStep DEF IngestStep
  <1>2. ASSUME NEW w \in Replayer, ReplayStep(w) PROVE IngestInv'
    BY <1>2, ReplayItemStep, ReplayExistingStep, BeginDeductionStep, ReplayDoneStep, ReplayFlaggedStep
    DEF ReplayStep
  <1>3. ASSUME NEW i \in Item, Publish(i) PROVE IngestInv'
    <2>1. menu' = menu \cup {i} /\ onHand' = onHand /\ moved' = moved
          /\ UNCHANGED <<sales, locals, faults, overlapped>>
      BY <1>3 DEF Publish, stock
    <2>2. QED
      BY <1>0, <2>1, OutsideStep
  <1>4. ASSUME NEW n \in {-1, 1}, Post(n) PROVE IngestInv'
    <2>1. /\ menu' = menu /\ onHand' = onHand + n /\ moved' = moved + n /\ n \in Int
          /\ n > 0 \/ onHand + n >= 0
          /\ UNCHANGED <<sales, locals, faults, overlapped>>
      BY <1>4 DEF Post
    <2>2. onHand' \in Int /\ moved' \in Int /\ (onHand' >= onHand \/ onHand' >= 0)
      BY <1>0, <2>1
    <2>3. QED
      BY <1>0, <2>1, <2>2, OutsideStep
  <1>5. CASE UNCHANGED vars
    BY <1>0, <1>5, OutsideStep DEF vars, stock
  <1>6. QED
    BY <1>0, <1>1, <1>2, <1>3, <1>4, <1>5, LookupStep, StartReplayStep, AbandonStep DEF Next

(* So the invariant always holds.                                          *)
LEMMA IngestInvAlways == Spec => []IngestInv
  <1>1. ASSUME Init PROVE IngestInv
    <2>1. (CHOOSE s \in Sale : TRUE) \in Sale
      OBVIOUS
    <2>2. TypeOK
      BY <1>1, <2>1 DEF Init, TypeOK, Status
    <2>3. AllSales
      BY <1>1 DEF Init, AllSales, SaleInv
    <2>4. AllRequests
      BY <1>1 DEF Init, AllRequests, RequestInv, InsertedBy, Worker
    <2>5. AllReplays
      BY <1>1 DEF Init, AllReplays, ReplayInv, Replaying, Worker
    <2>6. ShortageIsFlagged
      BY <1>1 DEF Init, ShortageIsFlagged
    <2>7. QED
      BY <2>2, <2>3, <2>4, <2>5, <2>6 DEF IngestInv
  <1>2. QED
    BY <1>1, IngestInvStep, PTL DEF Spec

-----------------------------------------------------------------------------
(* Every variable keeps its type, a line is resolved at most once, and an  *)
(* idle worker holds nothing.                                              *)
THEOREM TypeCorrect == Spec => []TypeOK
  <1>1. IngestInv => TypeOK
    BY DEF IngestInv
  <1>2. QED
    BY <1>1, IngestInvAlways, PTL

(* What an event says is so: a sale the POS was told is here is here, it   *)
(* was deducted as its event says, once unless two replays of it           *)
(* overlapped, from a complete set of recipes, and while it is not         *)
(* deducted the administrator's card says so.                              *)
THEOREM EventsAreTrue == Spec => []EventTellsOutcome
  <1>1. ASSUME IngestInv PROVE EventTellsOutcome
    <2> SUFFICES ASSUME NEW s \in Sale
                 PROVE  /\ s \in answered \/ recipe[s] # {} \/ short[s] \/ deductions[s] > 0
                             => event[s] # "ABSENT"
                        /\ event[s] = "INGESTED" => deductions[s] = 1 /\ s \notin late
                        /\ event[s] = "REPLAYED" => deductions[s] > 0
                        /\ event[s] = "FLAGGED_UNKNOWN_ITEM" /\ s \notin overlapped => deductions[s] = 0
                        /\ deductions[s] > 1 => s \in overlapped /\ s \in late
                        /\ deductions[s] > 0 => recipe[s] = Lines[s]
                        /\ s \in answered /\ deductions[s] = 0 => PosHealth = "DEGRADED"
      BY DEF EventTellsOutcome
    <2>1. SaleInv(s) /\ event[s] \in Status
      BY <1>1 DEF IngestInv, AllSales, TypeOK
    <2>2. s \in answered /\ deductions[s] = 0 => event[s] = "FLAGGED_UNKNOWN_ITEM"
      BY <2>1 DEF SaleInv, Status
    <2>3. s \in answered /\ deductions[s] = 0 => PosHealth = "DEGRADED"
      BY <2>2 DEF PosHealth
    <2>4. QED
      BY <2>1, <2>3 DEF SaleInv
  <1>2. QED
    BY <1>1, IngestInvAlways, PTL

(* If the sales drove the Stores below zero, one of them was flagged for   *)
(* the Storekeeper, or a replay deducted it.                               *)
THEOREM ShortagesAreFlagged == Spec => []ShortageIsFlagged
  <1>1. IngestInv => ShortageIsFlagged
    BY DEF IngestInv
  <1>2. QED
    BY <1>1, IngestInvAlways, PTL
-----------------------------------------------------------------------------
HIDE PosConstants

(* Sums over finite sets.  g is the sum of f over every subset of S, one   *)
(* member after the other.                                                 *)
Pick(R) == CHOOSE x \in R : TRUE
Adds(g, f, S) ==
  g = [R \in SUBSET S |-> IF R = {} THEN 0 ELSE f[Pick(R)] + g[R \ {Pick(R)}]]
Total(f, S) == MapThenSumSet(LAMBDA x : f[x], S)

(* MapThenSumSet is such a sum, if there is one.                           *)
LEMMA SumIter ==
  ASSUME NEW S, NEW f, \E g : Adds(g, f, S)
  PROVE  \E g : Adds(g, f, S) /\ Total(f, S) = g[S]
  <1> DEFINE it == CHOOSE g : g = [R \in SUBSET S |-> IF R = {} THEN 0 ELSE f[CHOOSE x \in R : TRUE] + g[R \ {CHOOSE x \in R : TRUE}]]
  <1>1. Adds(it, f, S)
    BY DEF Adds, Pick
  <1>2. Total(f, S) = it[S]
    BY DEF Total, MapThenSumSet, MapThenFoldSet
  <1>3. QED
    BY <1>1, <1>2

(* A non-empty set of naturals has a least member.                         *)
LEMMA LeastExists ==
  ASSUME NEW B \in SUBSET Nat, B # {}
  PROVE  \E n \in B : \A m \in B : n <= m
  <1> DEFINE R == {ss \in Nat \X Nat : ss[1] < ss[2]}
  <1>1. R = OpToRel(<, Nat)
    BY Zenon DEF OpToRel
  <1>2. IsWellFoundedOn(R, Nat)
    BY <1>1, NatLessThanWellFounded, Zenon
  <1>3. \A x, y \in Nat : <<y, x>> \in R <=> y < x
    OBVIOUS
  <1> HIDE DEF R
  <1>4. PICK n \in B : \A m \in B : ~ (<<m, n>> \in R)
    BY <1>2, WFMin
  <1>5. ASSUME NEW m \in B PROVE n <= m
    <2>1. m \in Nat /\ n \in Nat /\ ~(m < n)
      BY <1>3, <1>4
    <2>2. QED
      BY <2>1
  <1>6. QED
    BY <1>5

(* The sums of the subsets, built up from those with fewer members.        *)
LEMMA SumDefined ==
  ASSUME NEW S, IsFiniteSet(S), NEW f, \A x \in S : f[x] \in Int
  PROVE  \E g : Adds(g, f, S)
  <1> DEFINE Level(n) == {R \in SUBSET S : Cardinality(R) <= n}
             Step(g, R) == IF R = {} THEN 0 ELSE f[Pick(R)] + g[R \ {Pick(R)}]
             Built(n) == \E g : g = [R \in Level(n) |-> Step(g, R)]
             Bad == {n \in Nat : ~Built(n)}
  <1>1. \A R \in SUBSET S : Cardinality(R) \in Nat /\ Cardinality(R) <= Cardinality(S) /\ IsFiniteSet(R)
    BY FS_Subset, FS_CardinalityType
  <1>2. \A R \in SUBSET S : R # {} =>
          Pick(R) \in R /\ Cardinality(R \ {Pick(R)}) = Cardinality(R) - 1
    BY <1>1, FS_RemoveElement DEF Pick
  <1>3. Built(0)
    <2> DEFINE g == [R \in Level(0) |-> 0]
    <2>1. \A R \in Level(0) : R = {}
      BY <1>1, FS_EmptySet
    <2>2. g = [R \in Level(0) |-> Step(g, R)]
      BY <2>1
    <2>3. QED
      BY <2>2
  <1>4. ASSUME NEW n \in Nat, Built(n) PROVE Built(n + 1)
    <2>1. PICK g : g = [R \in Level(n) |-> Step(g, R)]
      BY <1>4
    <2> DEFINE h == [R \in Level(n + 1) |-> Step(g, R)]
    <2>2. ASSUME NEW R \in Level(n + 1), R # {} PROVE h[R \ {Pick(R)}] = g[R \ {Pick(R)}]
      <3>1. R \ {Pick(R)} \in Level(n)
        BY <1>1, <1>2, <2>2
      <3>2. R \ {Pick(R)} \in Level(n + 1)
        BY <3>1, <1>1
      <3>3. g[R \ {Pick(R)}] = Step(g, R \ {Pick(R)})
        BY <2>1, <3>1
      <3>4. h[R \ {Pick(R)}] = Step(g, R \ {Pick(R)})
        BY <3>2
      <3>5. QED
        BY <3>3, <3>4
    <2>3. \A R \in Level(n + 1) : Step(g, R) = Step(h, R)
      BY <2>2
    <2>4. h = [R \in Level(n + 1) |-> Step(h, R)]
      BY <2>3
    <2>5. QED
      BY <2>4
  <1>5. Bad = {}
    <2> SUFFICES ASSUME Bad # {} PROVE FALSE
      OBVIOUS
    <2> HIDE DEF Built
    <2>1. PICK n \in Bad : \A m \in Bad : n <= m
      BY LeastExists
    <2>2. n # 0 /\ n \in Nat /\ ~Built(n)
      BY <1>3
    <2>3. n - 1 \in Nat /\ Built(n - 1)
      BY <2>1, <2>2
    <2>4. Built((n - 1) + 1)
      BY <1>4, <2>3
    <2>5. QED
      BY <2>2, <2>4
  <1>6. Level(Cardinality(S)) = SUBSET S
    BY <1>1
  <1>7. Built(Cardinality(S))
    <2> HIDE DEF Built
    <2>1. Cardinality(S) \in Nat
      BY <1>1
    <2>2. QED
      BY <1>5, <2>1
  <1>8. QED
    BY <1>6, <1>7 DEF Adds

(* Two sums over a set where the terms are the same, but for one that      *)
(* differs by d.                                                           *)
LEMMA AddsChange ==
  ASSUME NEW S, IsFiniteSet(S), NEW f, NEW h, NEW g, NEW k,
         Adds(g, f, S), Adds(k, h, S), NEW a, NEW d \in Int,
         \A x \in S : f[x] \in Int /\ h[x] = f[x] + (IF x = a THEN d ELSE 0)
  PROVE  \A R \in SUBSET S : g[R] \in Int /\ k[R] = g[R] + (IF a \in R THEN d ELSE 0)
  <1> DEFINE P(R) == g[R] \in Int /\ k[R] = g[R] + (IF a \in R THEN d ELSE 0)
             Bad == {n \in Nat : \E R \in SUBSET S : Cardinality(R) = n /\ ~P(R)}
  <1>1. \A R \in SUBSET S : Cardinality(R) \in Nat /\ IsFiniteSet(R)
    BY FS_Subset, FS_CardinalityType
  <1>2. SUFFICES ASSUME Bad # {} PROVE FALSE
    BY <1>1
  <1>3. PICK n \in Bad : \A m \in Bad : n <= m
    BY <1>2, LeastExists
  <1>4. PICK R \in SUBSET S : Cardinality(R) = n /\ ~P(R)
    BY <1>3
  <1>5. CASE R = {}
    <2>1. g[R] = 0 /\ k[R] = 0
      BY <1>5 DEF Adds
    <2>2. QED
      BY <1>4, <1>5, <2>1
  <1>6. CASE R # {}
    <2> DEFINE x == Pick(R)
               Q == R \ {x}
    <2>1. x \in R /\ x \in S
      BY <1>6 DEF Pick
    <2>2. Cardinality(Q) = Cardinality(R) - 1 /\ Q \in SUBSET S
      BY <1>1, <2>1, FS_RemoveElement
    <2>3. P(Q)
      <3> HIDE DEF P, Q
      <3>1. Cardinality(Q) \in Nat /\ Cardinality(Q) < n
        BY <1>1, <1>4, <2>2
      <3>2. QED
        BY <1>3, <2>2, <3>1
    <2>4. g[R] = f[x] + g[Q]
      BY <1>6 DEF Adds
    <2>5. k[R] = h[x] + k[Q]
      BY <1>6 DEF Adds
    <2>6. a \in R <=> a \in Q \/ x = a
      BY <2>1
    <2>7. a = x => a \notin Q
      OBVIOUS
    <2> HIDE DEF x, Q
    <2>8. f[x] \in Int /\ h[x] = f[x] + (IF x = a THEN d ELSE 0)
      BY <2>1
    <2>9. P(R)
      BY <2>3, <2>4, <2>5, <2>6, <2>7, <2>8
    <2>10. QED
      BY <1>4, <2>9
  <1>7. QED
    BY <1>5, <1>6

(* A sum of integers is one, and changes with its terms.                   *)
LEMMA SumChange ==
  ASSUME NEW S, IsFiniteSet(S), NEW f, NEW h, NEW a, NEW d \in Int,
         \A x \in S : f[x] \in Int /\ h[x] = f[x] + (IF x = a THEN d ELSE 0)
  PROVE  Total(f, S) \in Int /\ Total(h, S) = Total(f, S) + (IF a \in S THEN d ELSE 0)
  <1>1. \A x \in S : h[x] \in Int
    OBVIOUS
  <1>2. PICK g : Adds(g, f, S) /\ Total(f, S) = g[S]
    BY SumDefined, SumIter
  <1>3. PICK k : Adds(k, h, S) /\ Total(h, S) = k[S]
    BY <1>1, SumDefined, SumIter
  <1>4. \A R \in SUBSET S : g[R] \in Int /\ k[R] = g[R] + (IF a \in R THEN d ELSE 0)
    BY <1>2, <1>3, AddsChange
  <1>5. QED
    BY <1>2, <1>3, <1>4

(* The terms determine the sum.                                            *)
LEMMA AddsSame ==
  ASSUME NEW S, IsFiniteSet(S), NEW f, NEW g, NEW k, Adds(g, f, S), Adds(k, f, S),
         \A x \in S : f[x] \in Int
  PROVE  g[S] \in Int /\ k[S] = g[S]
  <1>1. ASSUME NEW a, NEW d \in Int, d = 0 PROVE g[S] \in Int /\ k[S] = g[S]
    <2>1. \A x \in S : f[x] \in Int /\ f[x] = f[x] + (IF x = a THEN d ELSE 0)
      BY <1>1
    <2>2. \A R \in SUBSET S : g[R] \in Int /\ k[R] = g[R] + (IF a \in R THEN d ELSE 0)
      BY <2>1, AddsChange
    <2>3. S \in SUBSET S
      OBVIOUS
    <2>4. QED
      BY <1>1, <2>2, <2>3
  <1>2. QED
    BY <1>1

(* A sum of zeros is zero.                                                 *)
LEMMA SumZero ==
  ASSUME NEW S, IsFiniteSet(S), NEW f, \A x \in S : f[x] = 0
  PROVE  Total(f, S) = 0
  <1> DEFINE zero == [R \in SUBSET S |-> 0]
  <1>1. ASSUME NEW R \in SUBSET S, R # {} PROVE f[Pick(R)] + zero[R \ {Pick(R)}] = 0
    <2>1. Pick(R) \in S
      BY <1>1 DEF Pick
    <2>2. f[Pick(R)] = 0 /\ zero[R \ {Pick(R)}] = 0
      BY <2>1
    <2>3. QED
      BY <2>2
  <1>2. Adds(zero, f, S)
    <2>1. \A R \in SUBSET S :
            0 = IF R = {} THEN 0 ELSE f[Pick(R)] + zero[R \ {Pick(R)}]
      BY <1>1
    <2> DEFINE other == [R \in SUBSET S |-> IF R = {} THEN 0 ELSE f[Pick(R)] + zero[R \ {Pick(R)}]]
    <2>2. zero = other
      BY <2>1
    <2>3. QED
      BY <2>2 DEF Adds
  <1> HIDE DEF zero
  <1>3. PICK k : Adds(k, f, S) /\ Total(f, S) = k[S]
    BY SumDefined, SumIter
  <1>4. k[S] = zero[S]
    BY <1>2, <1>3, AddsSame
  <1>5. zero[S] = 0
    BY DEF zero
  <1>6. QED
    BY <1>3, <1>4, <1>5

USE PosConstants

(* What the sales amount to when d says how often each was deducted.       *)
Amounts(d) == [s \in Sale |-> d[s] * Usage[s]]

DeductedBy(d) == MapThenSumSet(LAMBDA s : d[s] * Usage[s], Sale)

(* What the model sums is the sum that the lemmas are about.               *)
LEMMA DeductedIsTotal ==
  ASSUME NEW d \in [Sale -> Int]
  PROVE  DeductedBy(d) = Total(Amounts(d), Sale)
  <1> DEFINE f == Amounts(d)
             Sums(g) == g = [R \in SUBSET Sale |->
                     IF R = {} THEN 0
                     ELSE d[CHOOSE x \in R : TRUE] * Usage[CHOOSE x \in R : TRUE]
                            + g[R \ {CHOOSE x \in R : TRUE}]]
             it == CHOOSE g : Sums(g)
  <1>1. DeductedBy(d) = it[Sale]
    BY DEF DeductedBy, MapThenSumSet, MapThenFoldSet
  <1>2. \A s \in Sale : f[s] = d[s] * Usage[s] /\ f[s] \in Int
    BY DEF Amounts
  <1>3. ASSUME NEW g PROVE Sums(g) <=> Adds(g, f, Sale)
    <2>1. \A R \in SUBSET Sale : R # {} => Pick(R) \in Sale
      BY DEF Pick
    <2> HIDE DEF f
    <2>2. \A R \in SUBSET Sale : R # {} => f[Pick(R)] = d[Pick(R)] * Usage[Pick(R)]
      BY <1>2, <2>1
    <2>3. QED
      BY <2>2 DEF Adds, Pick
  <1> HIDE DEF f, Sums
  <1>4. PICK g : Adds(g, f, Sale) /\ Total(f, Sale) = g[Sale]
    BY <1>2, SumDefined, SumIter
  <1>5. Adds(it, f, Sale)
    BY <1>3, <1>4
  <1>6. it[Sale] = g[Sale]
    BY <1>2, <1>4, <1>5, AddsSame
  <1>7. QED
    BY <1>1, <1>4, <1>6 DEF f

(* One more deduction of s adds what s uses.                               *)
LEMMA DeductedStep ==
  ASSUME NEW d \in [Sale -> Int], NEW e \in [Sale -> Int], NEW s \in Sale, NEW n \in Int,
         e[s] = d[s] + n, \A t \in Sale : t # s => e[t] = d[t]
  PROVE  Total(Amounts(d), Sale) \in Int
         /\ Total(Amounts(e), Sale) = Total(Amounts(d), Sale) + n * Usage[s]
  <1>1. n * Usage[s] \in Int
    OBVIOUS
  <1>2. \A x \in Sale : /\ Amounts(d)[x] \in Int
                        /\ Amounts(e)[x] = Amounts(d)[x] + (IF x = s THEN n * Usage[s] ELSE 0)
    BY DEF Amounts
  <1> DEFINE f == Amounts(d)
             h == Amounts(e)
  <1>3. Total(f, Sale) \in Int /\ Total(h, Sale) = Total(f, Sale) + (IF s \in Sale THEN n * Usage[s] ELSE 0)
    <2> DEFINE more == n * Usage[s]
    <2>1. more \in Int /\ \A x \in Sale : f[x] \in Int /\ h[x] = f[x] + (IF x = s THEN more ELSE 0)
      BY <1>1, <1>2
    <2> HIDE DEF f, h, more
    <2>2. Total(f, Sale) \in Int /\ Total(h, Sale) = Total(f, Sale) + (IF s \in Sale THEN more ELSE 0)
      BY <2>1, SumChange
    <2>3. QED
      BY <2>2 DEF more
  <1>4. QED
    BY <1>3

(* The balance of the Stores is what the opening, the other documents and  *)
(* the deductions of the sales make it.                                    *)
LEMMA BalanceStep == IngestInv /\ BalanceAddsUp /\ [Next]_vars => BalanceAddsUp'
  <1> SUFFICES ASSUME IngestInv, BalanceAddsUp, [Next]_vars PROVE BalanceAddsUp'
    OBVIOUS
  <1>0. /\ TypeOK /\ TypeOK'
        /\ deductions \in [Sale -> Int] /\ deductions' \in [Sale -> Int]
        /\ onHand \in Int /\ moved \in Int /\ Opening \in Int
    <2>1. IngestInv'
      BY IngestInvStep
    <2>2. QED
      BY <2>1 DEF IngestInv, TypeOK
  <1>1. /\ Deducted = Total(Amounts(deductions), Sale)
        /\ Deducted' = Total(Amounts(deductions'), Sale)
    <2>1. Deducted = DeductedBy(deductions) /\ Deducted' = DeductedBy(deductions')
      BY DEF Deducted, DeductedBy, MapThenSumSet, MapThenFoldSet
    <2>2. QED
      BY <1>0, <2>1, DeductedIsTotal
  <1>2. ASSUME deductions' = deductions, NEW n \in Int, onHand' = onHand + n, moved' = moved + n
        PROVE  BalanceAddsUp'
    <2>1. Total(Amounts(deductions), Sale) \in Int
      BY <1>0, DeductedStep
    <2>2. QED
      BY <1>0, <1>1, <1>2, <2>1 DEF BalanceAddsUp
  <1>3. ASSUME NEW s \in Sale, Deduct(s), moved' = moved PROVE BalanceAddsUp'
    <2>1. /\ onHand' = onHand - Usage[s]
          /\ deductions'[s] = deductions[s] + 1
          /\ \A t \in Sale : t # s => deductions'[t] = deductions[t]
      BY <1>0, <1>3 DEF Deduct
    <2>2. /\ Total(Amounts(deductions), Sale) \in Int
          /\ Total(Amounts(deductions'), Sale) = Total(Amounts(deductions), Sale) + 1 * Usage[s]
      BY <1>0, <2>1, DeductedStep
    <2>3. QED
      BY <1>0, <1>1, <1>3, <2>1, <2>2 DEF BalanceAddsUp
  <1>4. ASSUME UNCHANGED <<stock, deductions>> PROVE BalanceAddsUp'
    <2>1. onHand' = onHand + 0 /\ moved' = moved + 0
      BY <1>0, <1>4 DEF stock
    <2>2. QED
      BY <1>2, <1>4, <2>1
  <1>5. ASSUME NEW w \in Request, IngestStep(w) PROVE BalanceAddsUp'
    <2>1. sale[w] \in Sale
      BY <1>0, SaleTypes DEF Worker
    <2>2. CASE Ingest(w) \/ IngestShort(w)
      BY <1>3, <2>1, <2>2 DEF Ingest, IngestShort
    <2>3. CASE ~(Ingest(w) \/ IngestShort(w))
      BY <1>4, <1>5, <2>3
      DEF IngestStep, Insert, Return, ResolveItem, Resolve, FlagUnknown, FallShort, sales
    <2>4. QED
      BY <2>2, <2>3
  <1>6. ASSUME NEW w \in Replayer, ReplayStep(w) PROVE BalanceAddsUp'
    <2>1. sale[w] \in Sale
      BY <1>0, SaleTypes DEF Worker
    <2>2. CASE ReplayDone(w)
      BY <1>3, <2>1, <2>2 DEF ReplayDone
    <2>3. CASE ~ReplayDone(w)
      BY <1>4, <1>6, <2>3
      DEF ReplayStep, ReplayItem, Resolve, ReplayExisting, BeginDeduction, ReplayFlagged, sales
    <2>4. QED
      BY <2>2, <2>3
  <1>7. ASSUME NEW n \in {-1, 1}, Post(n) PROVE BalanceAddsUp'
    <2>1. onHand' = onHand + n /\ moved' = moved + n /\ deductions' = deductions /\ n \in Int
      BY <1>7 DEF Post, sales
    <2>2. QED
      BY <1>2, <2>1
  <1>8. ASSUME \/ \E w \in Request, s \in Sale : Lookup(w, s)
               \/ \E w \in Replayer, s \in Sale : StartReplay(w, s)
               \/ \E w \in Worker : Abort(w) \/ Reject(w)
               \/ \E i \in Item : Publish(i)
               \/ UNCHANGED vars
        PROVE  BalanceAddsUp'
    BY <1>4, <1>8 DEF Lookup, Return, StartReplay, Abort, Reject, Publish, sales, vars
  <1>9. QED
    BY <1>5, <1>6, <1>7, <1>8 DEF Next

(* Stores is what other documents and the deductions of the sales made it, *)
(* and a shortage is flagged.                                              *)
THEOREM StockAccounted == Spec => []StockIsAccounted
  <1>1. Init => BalanceAddsUp
    <2> SUFFICES ASSUME Init PROVE BalanceAddsUp
      OBVIOUS
    <2>1. deductions \in [Sale -> Int] /\ \A s \in Sale : Amounts(deductions)[s] = 0
      BY DEF Init, Amounts
    <2>2. Total(Amounts(deductions), Sale) = 0
      BY <2>1, SumZero
    <2>3. Deducted = DeductedBy(deductions)
      BY DEF Deducted, DeductedBy, MapThenSumSet, MapThenFoldSet
    <2>4. Deducted = 0
      BY <2>1, <2>2, <2>3, DeductedIsTotal
    <2>5. QED
      BY <2>4 DEF Init, BalanceAddsUp
  <1>2. IngestInv /\ BalanceAddsUp => StockIsAccounted
    BY DEF IngestInv, StockIsAccounted
  <1>3. QED
    BY <1>1, <1>2, BalanceStep, IngestInvAlways, PTL DEF Spec
=============================================================================
