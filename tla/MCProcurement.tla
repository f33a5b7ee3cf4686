---------------------------- MODULE MCProcurement ----------------------------
(***************************************************************************)
(* A small instance of Procurement: a PO of two lines, of which one is     *)
(* delivered twice, and its invoice.                                       *)
(***************************************************************************)
EXTENDS Procurement, TLC

CONSTANTS o1, l1, l2, p1, p2, d1, d2, i1, r1, r2

MCPOOf == l1 :> o1 @@ l2 :> o1
MCProductOf == l1 :> p1 @@ l2 :> p2
MCOrdered == l1 :> 1 @@ l2 :> 1
MCLinesOf == d1 :> <<l1>> @@ d2 :> <<l2, l1>>
MCWorth == d1 :> 1 @@ d2 :> 1
MCEstimate == p1 :> 2 @@ p2 :> 1

Requests == Permutations(Request)
=============================================================================
