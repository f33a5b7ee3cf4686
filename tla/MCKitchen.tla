----------------------------- MODULE MCKitchen -----------------------------
(* Instances of Kitchen for TLC. *)
EXTENDS Kitchen, TLC

CONSTANTS o1, e1, c1, w1, w2

Symmetry == Permutations(Waiter)
=============================================================================
