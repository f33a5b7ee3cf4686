---------------------------- MODULE MCWaiterQueue ----------------------------
(* Instances of WaiterQueue for TLC. *)
EXTENDS WaiterQueue, TLC

CONSTANTS o1, o2, f1, f2, a1, a2

(* Orders and actions are interchangeable: o1 is the name of the one that  *)
(* is READY first, a1 of the one that is queued first.  This leaves out no *)
(* behaviour but for the names, and unlike TLC's SYMMETRY it is sound for  *)
(* liveness.                                                               *)
InTurn ==
  /\ status'[o2] # "INGESTED" => status'[o1] # "INGESTED"
  /\ kind'[a2] # "none" => kind'[a1] # "none"

MCSpec == QueueInit /\ [][QueueNext /\ InTurn]_allVars /\ QueueFairness
=============================================================================
