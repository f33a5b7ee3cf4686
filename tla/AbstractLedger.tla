--------------------------- MODULE AbstractLedger ---------------------------
(***************************************************************************)
(* What post_movements promises its callers: a document is appended to the *)
(* ledger whole or not at all, as if no other posting were in progress.    *)
(* One step adds the effect of all its lines to the balances, but for what *)
(* the rounding of each to thousandths may add or take, and no balance it  *)
(* touches becomes negative unless the caller allowed it.                  *)
(***************************************************************************)
EXTENDS Integers, Sequences, FiniteSetsExt

CONSTANTS Doc, Key, LinesOf, AllowNegativeOf, Opening

VARIABLES qtyOnHand, postings

(* The lines of a document on a row, what they add to it, in               *)
(* ten-thousandths, how many of them are rounded, and the document's rows. *)
LinesAt(d, k) == {i \in DOMAIN LinesOf[d] : LinesOf[d][i].key = k}
Effect(d, k) ==
  SumFunctionOnSet([i \in DOMAIN LinesOf[d] |-> LinesOf[d][i].delta], LinesAt(d, k))
Roundings(d, k) == Cardinality({i \in LinesAt(d, k) : LinesOf[d][i].delta % 10 # 0})
Touched(d) == {LinesOf[d][i].key : i \in DOMAIN LinesOf[d]}

Init == qtyOnHand = Opening /\ postings = [d \in Doc |-> 0]

Post(d) ==
  /\ LinesOf[d] # <<>>
  /\ postings' = [postings EXCEPT ![d] = @ + 1]
  /\ DOMAIN qtyOnHand' = Key
  /\ \A k \in Key :
       10 * (qtyOnHand'[k] - qtyOnHand[k]) - Effect(d, k)
         \in (-5 * Roundings(d, k))..(5 * Roundings(d, k))
  /\ TRUE \in AllowNegativeOf[d] \/ \A k \in Touched(d) : qtyOnHand'[k] >= 0

Next == \E d \in Doc : Post(d)
Spec == Init /\ [][Next]_<<qtyOnHand, postings>>
=============================================================================
