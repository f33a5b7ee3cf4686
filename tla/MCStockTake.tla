---------------------------- MODULE MCStockTake ----------------------------
(* Two takes of one location, opened in two tabs; one may go to a manager. *)
EXTENDS StockTake

CONSTANTS k1, k2

MCTake == {k1, k2}
MCStock == [p \in Product |-> 2]
MCMaxOpen == [k \in MCTake |-> IF k = k1 THEN 1 ELSE 0]
=============================================================================
