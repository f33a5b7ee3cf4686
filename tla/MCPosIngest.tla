----------------------------- MODULE MCPosIngest -----------------------------
(***************************************************************************)
(* A small instance of PosIngest: s1 sells two items whose recipes use a   *)
(* whole unit of stock each or more, s2 one whose recipe rounds to zero.   *)
(***************************************************************************)
EXTENDS PosIngest, TLC

CONSTANTS s1, s2, i1, i2, p1, p2, r1, r2

MCLines == s1 :> {i1, i2} @@ s2 :> {i2}
MCUsage == s1 :> 2 @@ s2 :> 0
=============================================================================
