---------------------------- MODULE MCApprovals ----------------------------
(***************************************************************************)
(* Small instances of Approvals: one or two documents, whose values and    *)
(* thresholds are 0 (nothing), 1 (small) or 2 (large).                     *)
(***************************************************************************)
EXTENDS Approvals, TLC

CONSTANTS transfer, take, wastage, budget

MCKind ==
  transfer :> "transfer" @@ take :> "take" @@ wastage :> "wastage" @@ budget :> "budget"
MCKindOf == [d \in Doc |-> MCKind[d]]

(* Each kind of document has a threshold of its own; budgets have none.    *)
MCScope == Doc \ {budget}
MCScopeOf == [d \in Doc |-> IF d = budget THEN CHOOSE s \in MCScope : TRUE ELSE d]

(* A bound: one behaviour handles a transfer and a budget, or a stock take,  *)
(* or a wastage entry, and nothing else about documents and thresholds       *)
(* changes.  What the budget and the transfer are worth, which does not      *)
(* change, tells which.                                                      *)
Group == IF value[budget] > 0 THEN {transfer, budget}
         ELSE IF value[transfer] > 0 THEN {take} ELSE {wastage}
MCInit ==
  /\ Init
  /\ value[budget] > 0 => value[transfer] > 0
  /\ \A d \in Doc \ {transfer, budget} : value[d] = IF d \in Group THEN 2 ELSE 0
  /\ \A s, t \in Scope : limit[s] = limit[t]
MCNext ==
  /\ Next
  /\ \A r \in Request : doc'[r] \in Group \cup {None}
  /\ \A d \in Doc \ Group : value'[d] = value[d] /\ (d \in Scope => limit'[d] = limit[d])
MCSpec == MCInit /\ [][MCNext]_vars

Interchangeable == Permutations(Request) \cup Permutations(Approval)
=============================================================================
