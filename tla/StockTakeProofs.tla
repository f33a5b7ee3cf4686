--------------------------- MODULE StockTakeProofs ---------------------------
(***************************************************************************)
(* Proofs about StockTake, for any products, takes and limits: what the    *)
(* leakage report tells, and when a post makes the books agree with the    *)
(* shelf.                                                                  *)
(***************************************************************************)
EXTENDS StockTake, TLAPS

USE TakeConstants

(* What a box of the screen or a line of a take can hold. *)
Box == Counts \cup {None, Blank}

Boxes ==
  /\ typed \in [Take -> [Product -> Box]]
  /\ countedQty \in [Take -> [Product -> Box]]
  /\ sheet \in [Take -> [Actor -> [Product -> Box]]]

(* The manager decides an approval of the take he posts. *)
DecidesOneOpen == \A k \in Take : pc[k]["manager"] # "idle" => open[k] > 0

TypeInv == TypeOK /\ Boxes /\ DecidesOneOpen

(* The sheets of TypeOK are those with such boxes. *)
LEMMA SheetType == \A s \in [Product -> Box] : IsSheet(s)
  BY DEF IsSheet, IsCount, Box

(* The end of a posting leaves the actor's locals as they were at first,   *)
(* and those of the others alone.                                          *)
LEMMA FinishType ==
  ASSUME TypeInv, NEW k \in Take, NEW a \in Actor, Finish(k, a)
  PROVE  /\ pc' \in [Take -> [Actor -> {"idle", "loaded", "read", "posting"}]]
         /\ sheet' \in [Take -> [Actor -> [Product -> Box]]]
         /\ found' \in [Take -> [Actor -> BOOLEAN]]
         /\ \A q \in Take : pc'[q]["manager"] # "idle"
              => pc[q]["manager"] # "idle" /\ ~(q = k /\ a = "manager")
         /\ \A q \in Take, b \in Actor, p \in Product :
              sheet'[q][b][p] = sheet[q][b][p] \/ sheet'[q][b][p] = None
  <1> USE DEF TypeInv, TypeOK, Boxes, Actor
  <1>1. Empty \in [Product -> Box]
    BY DEF Empty, Box
  <1>2. /\ pc' \in [Take -> [Actor -> {"idle", "loaded", "read", "posting"}]]
        /\ found' \in [Take -> [Actor -> BOOLEAN]]
    BY DEF Finish
  <1>3. \A q \in Take : pc'[q]["manager"] # "idle"
          => pc[q]["manager"] # "idle" /\ ~(q = k /\ a = "manager")
    BY DEF Finish
  <1>4. sheet' \in [Take -> [Actor -> [Product -> Box]]]
    BY <1>1 DEF Finish
  <1>5. \A q \in Take, b \in Actor, p \in Product :
          sheet'[q][b][p] = sheet[q][b][p] \/ sheet'[q][b][p] = None
    BY DEF Finish, Empty
  <1>6. QED
    BY <1>2, <1>3, <1>4, <1>5

(* Deciding the approval keeps the count of the undecided ones. *)
LEMMA DecideType ==
  ASSUME TypeInv, NEW k \in Take, NEW a \in Actor, pc[k][a] # "idle", Decide(k, a), Finish(k, a)
  PROVE  /\ open' \in [Take -> Nat]
         /\ DecidesOneOpen'
  <1>1. open[k] \in Nat /\ (a = "manager" => open[k] > 0)
    BY DEF TypeInv, TypeOK, DecidesOneOpen
  <1>2. a # "tab" => a = "manager"
    BY DEF Actor
  <1>3. open' \in [Take -> Nat]
    BY <1>1, <1>2 DEF Decide, TypeInv, TypeOK
  <1>4. \A q \in Take : open'[q] = open[q] \/ (q = k /\ a = "manager")
    BY <1>2 DEF Decide, TypeInv, TypeOK
  <1>5. QED
    BY <1>3, <1>4, FinishType DEF TypeInv, DecidesOneOpen

(* What a post adds to the ledger: to the balance of each product as much  *)
(* as to its adjustments.                                                  *)
Delta(k, a, p) ==
  IF found[k][a] \/ p \notin Variant(k, sheet[k][a]) THEN 0 ELSE Variance(k, sheet[k][a], p)

(* A posting moves each product by its variance, and nothing else.         *)
LEMMA PostEffect ==
  ASSUME TypeInv, NEW k \in Take, NEW a \in Actor, PostAdjustment(k, a)
  PROVE  /\ onHand' \in [Product -> Int]
         /\ moved' \in [Types -> [Product -> Int]]
         /\ \A p \in Product :
              /\ onHand'[p] = onHand[p] + Delta(k, a, p)
              /\ moved'["STOCKTAKE_ADJ"][p] = moved["STOCKTAKE_ADJ"][p] + Delta(k, a, p)
              /\ moved'["SALE_DEDUCTION"][p] = moved["SALE_DEDUCTION"][p]
              /\ moved'["WASTAGE"][p] = moved["WASTAGE"][p]
              /\ Delta(k, a, p) \in Int
  <1>1. ASSUME NEW p \in Product PROVE Delta(k, a, p) \in Int
    <2>1. sheet[k][a] \in [Product -> Box]
      BY DEF TypeInv, Boxes
    <2>2. sheet[k][a][p] \in Box
      BY <2>1
    <2>3. p \in Variant(k, sheet[k][a]) => Quantity(sheet[k][a][p]) \in Nat
      BY <2>2 DEF Variant, Quantity, Box, Counts
    <2>4. systemQty[k][p] \in Int
      BY DEF TypeInv, TypeOK
    <2>5. QED
      BY <2>3, <2>4 DEF Delta, Variance
  <1>2. onHand' = [p \in Product |-> onHand[p] + Delta(k, a, p)]
    BY DEF PostAdjustment, Delta
  <1>3. moved' = [moved EXCEPT !["STOCKTAKE_ADJ"] = [p \in Product |-> @[p] + Delta(k, a, p)]]
    BY DEF PostAdjustment, Delta
  <1>4. moved \in [Types -> [Product -> Int]] /\ onHand \in [Product -> Int]
    BY DEF TypeInv, TypeOK
  <1>5. {"STOCKTAKE_ADJ", "SALE_DEDUCTION", "WASTAGE"} = Types
    BY DEF Types, Usage
  <1>6. [p \in Product |-> moved["STOCKTAKE_ADJ"][p] + Delta(k, a, p)] \in [Product -> Int]
    BY <1>1, <1>4, <1>5
  <1>7. moved' \in [Types -> [Product -> Int]]
    BY <1>3, <1>4, <1>6
  <1>8. QED
    BY <1>1, <1>2, <1>3, <1>4, <1>5, <1>7

(* A unit that is used or thrown away leaves the shelf and the books. *)
LEMMA UseEffect ==
  ASSUME TypeInv, NEW q \in Product, NEW t \in Usage, Use(q, t)
  PROVE  /\ physical' \in [Product -> Nat] /\ onHand' \in [Product -> Int]
         /\ moved' \in [Types -> [Product -> Int]]
         /\ \A p \in Product :
              LET used == IF p = q THEN 1 ELSE 0
              IN  /\ onHand'[p] = onHand[p] - used
                  /\ physical'[p] = physical[p] - used
                  /\ moved'["STOCKTAKE_ADJ"][p] = moved["STOCKTAKE_ADJ"][p]
                  /\ moved'["SALE_DEDUCTION"][p] + moved'["WASTAGE"][p]
                       = moved["SALE_DEDUCTION"][p] + moved["WASTAGE"][p] - used
  <1>1. /\ physical \in [Product -> Nat] /\ onHand \in [Product -> Int]
        /\ moved \in [Types -> [Product -> Int]]
    BY DEF TypeInv, TypeOK
  <1>2. /\ {"STOCKTAKE_ADJ", "SALE_DEDUCTION", "WASTAGE"} = Types
        /\ t \in {"SALE_DEDUCTION", "WASTAGE"}
    BY DEF Types, Usage
  <1>3. /\ physical[q] > 0
        /\ physical' = [physical EXCEPT ![q] = @ - 1]
        /\ onHand' = [onHand EXCEPT ![q] = @ - 1]
        /\ moved' = [moved EXCEPT ![t][q] = @ - 1]
    BY DEF Use
  <1>4. physical' \in [Product -> Nat] /\ onHand' \in [Product -> Int]
    BY <1>1, <1>3
  <1>5. moved' \in [Types -> [Product -> Int]]
    BY <1>1, <1>2, <1>3
  <1>6. \A p \in Product, u \in Types :
          moved'[u][p] = moved[u][p] - (IF u = t /\ p = q THEN 1 ELSE 0)
    BY <1>1, <1>2, <1>3
  <1>7. ASSUME NEW p \in Product
        PROVE  LET used == IF p = q THEN 1 ELSE 0
               IN  /\ moved'["STOCKTAKE_ADJ"][p] = moved["STOCKTAKE_ADJ"][p]
                   /\ moved'["SALE_DEDUCTION"][p] + moved'["WASTAGE"][p]
                        = moved["SALE_DEDUCTION"][p] + moved["WASTAGE"][p] - used
    <2>1. \A u \in Types : moved[u][p] \in Int
      BY <1>1
    <2>2. CASE t = "SALE_DEDUCTION"
      BY <1>2, <1>6, <2>1, <2>2
    <2>3. CASE t = "WASTAGE"
      BY <1>2, <1>6, <2>1, <2>3
    <2>4. QED
      BY <1>2, <2>2, <2>3
  <1>8. QED
    BY <1>1, <1>3, <1>4, <1>5, <1>7

(* A take exists before anything happens to it, and every variable has its *)
(* type.                                                                   *)
LEMMA TypeStep == TypeInv /\ [Next]_vars => TypeInv'
  <1> SUFFICES ASSUME TypeInv, [Next]_vars PROVE TypeInv'
    OBVIOUS
  <1> USE DEF TypeInv
  <1>0. /\ onHand \in [Product -> Int] /\ physical \in [Product -> Nat]
        /\ moved \in [Types -> [Product -> Int]]
        /\ open \in [Take -> Nat] /\ rows \in [Take -> Nat]
        /\ Boxes
    BY DEF TypeOK
  <1>a. ASSUME Boxes' PROVE \A k \in Take : /\ IsSheet(countedQty[k])' /\ IsSheet(typed[k])'
                                            /\ \A a \in Actor : IsSheet(sheet[k][a])'
    <2>1. /\ \A k \in Take : typed'[k] \in [Product -> Box] /\ countedQty'[k] \in [Product -> Box]
          /\ \A k \in Take, a \in Actor : sheet'[k][a] \in [Product -> Box]
      BY <1>a DEF Boxes, Box, Counts
    <2>2. QED
      BY <2>1, SheetType
  <1>1. ASSUME NEW p \in Product, Lose(p) PROVE TypeInv'
    BY <1>1 DEF Lose, TypeOK, Boxes, DecidesOneOpen, ledger, takes, lines, screens, postings, IsSheet
  <1>2. ASSUME NEW p \in Product, NEW t \in Usage, Use(p, t) PROVE TypeInv'
    <2>1. UNCHANGED <<lost, takes, screens, postings>>
      BY <1>2 DEF Use
    <2>2. Boxes' /\ DecidesOneOpen'
      BY <2>1 DEF Boxes, DecidesOneOpen, takes, lines, screens, postings, Box
    <2>3. \A q \in Product :
            onHand'[q] = Stock[q] + moved'["SALE_DEDUCTION"][q] + moved'["WASTAGE"][q]
                                  + moved'["STOCKTAKE_ADJ"][q]
      <3> SUFFICES ASSUME NEW q \in Product
                   PROVE  onHand'[q] = Stock[q] + moved'["SALE_DEDUCTION"][q] + moved'["WASTAGE"][q]
                                                + moved'["STOCKTAKE_ADJ"][q]
        OBVIOUS
      <3> DEFINE sale == moved["SALE_DEDUCTION"][q]
                 waste == moved["WASTAGE"][q]
                 adj == moved["STOCKTAKE_ADJ"][q]
      <3>1. {"STOCKTAKE_ADJ", "SALE_DEDUCTION", "WASTAGE"} = Types
        BY DEF Types, Usage
      <3>2. sale \in Int /\ waste \in Int /\ adj \in Int /\ onHand[q] \in Int /\ Stock[q] \in Int
            /\ moved'["SALE_DEDUCTION"][q] \in Int /\ moved'["WASTAGE"][q] \in Int
        BY <1>0, <3>1, <1>2, UseEffect
      <3>3. onHand[q] = Stock[q] + sale + waste + adj
        BY DEF TypeOK
      <3>4. PICK used \in Int : /\ onHand'[q] = onHand[q] - used
                                /\ moved'["STOCKTAKE_ADJ"][q] = adj
                                /\ moved'["SALE_DEDUCTION"][q] + moved'["WASTAGE"][q] = sale + waste - used
        BY <1>2, UseEffect
      <3>5. QED
        BY <3>2, <3>3, <3>4
    <2>4. TypeOK'
      BY <1>2, <2>1, <2>2, <2>3, <1>a, UseEffect DEF TypeOK, takes, lines, screens, postings
    <2>5. QED
      BY <2>2, <2>4
  <1>3. ASSUME NEW k \in Take, Open(k) PROVE TypeInv'
    BY <1>3 DEF Open, TypeOK, Boxes, DecidesOneOpen, shelf, ledger, screens, postings, IsSheet
  <1>4. ASSUME NEW k \in Take, NEW p \in Product, Count(k, p) PROVE TypeInv'
    <2>1. UNCHANGED <<shelf, ledger, takes, shownPosted, postings>>
      BY <1>4 DEF Count
    <2> DEFINE c == [qty |-> physical[p], onHand |-> onHand[p], lost |-> lost[p],
                     adjusted |-> moved["STOCKTAKE_ADJ"][p]]
    <2>2. c \in Box
      BY <1>0 DEF Box, Counts, TypeOK, Types
    <2>3. typed' = [typed EXCEPT ![k][p] = c]
      BY <1>4 DEF Count
    <2> HIDE DEF c
    <2>4. typed' \in [Take -> [Product -> Box]]
      BY <1>0, <2>2, <2>3 DEF Boxes
    <2>5. Boxes' /\ DecidesOneOpen'
      BY <2>1, <2>4 DEF Boxes, DecidesOneOpen, takes, lines, postings, Box
    <2>6. QED
      BY <2>1, <2>5, <1>a DEF TypeOK, shelf, ledger, takes, lines, postings
  <1>5. ASSUME NEW k \in Take, SaveCounts(k) PROVE TypeInv'
    <2>1. UNCHANGED <<shelf, ledger, status, systemQty, rows, open, screens, postings>>
      BY <1>5 DEF SaveCounts
    <2> DEFINE new == [p \in Product |-> IF typed[k][p] = None THEN Blank ELSE typed[k][p]]
    <2>2. new \in [Product -> Box]
      BY <1>0 DEF Boxes, Box
    <2>3. countedQty' = [countedQty EXCEPT ![k] = new]
      BY <1>5 DEF SaveCounts
    <2> HIDE DEF new
    <2>4. countedQty' \in [Take -> [Product -> Box]]
      BY <1>0, <2>2, <2>3 DEF Boxes
    <2>5. Boxes' /\ DecidesOneOpen'
      BY <2>1, <2>4 DEF Boxes, DecidesOneOpen, screens, postings, Box
    <2>6. QED
      BY <2>1, <2>5, <1>a DEF TypeOK, shelf, ledger, screens, postings
  <1>6. ASSUME NEW k \in Take, Refresh(k) PROVE TypeInv'
    BY <1>6 DEF Refresh, TypeOK, Boxes, DecidesOneOpen, shelf, ledger, takes, lines, postings, IsSheet
  <1>7. ASSUME NEW k \in Take, NEW a \in Actor, LoadTake(k, a) PROVE TypeInv'
    <2>1. UNCHANGED <<shelf, ledger, takes, screens, sheet, found>>
          /\ pc' = [pc EXCEPT ![k][a] = "loaded"]
          /\ (a = "manager" => open[k] > 0)
      BY <1>7 DEF LoadTake, Actor
    <2>2. pc' \in [Take -> [Actor -> {"idle", "loaded", "read", "posting"}]]
      BY <2>1 DEF TypeOK
    <2>3. \A q \in Take : pc'[q]["manager"] # "idle" => pc[q]["manager"] # "idle" \/ (q = k /\ a = "manager")
      BY <2>1 DEF TypeOK, Actor
    <2>4. Boxes' /\ DecidesOneOpen'
      BY <2>1, <2>3 DEF Boxes, DecidesOneOpen, takes, lines, screens, Box
    <2>5. QED
      BY <2>1, <2>2, <2>4, <1>a DEF TypeOK, shelf, ledger, takes, lines, screens
  <1>8. ASSUME NEW k \in Take, NEW a \in Actor, ReadLines(k, a) PROVE TypeInv'
    <2>1. UNCHANGED <<shelf, ledger, takes, screens, seen, found>>
          /\ pc' = [pc EXCEPT ![k][a] = "read"] /\ pc[k][a] = "loaded"
          /\ sheet' = [sheet EXCEPT ![k][a] = countedQty[k]]
      BY <1>8 DEF ReadLines
    <2>2. pc' \in [Take -> [Actor -> {"idle", "loaded", "read", "posting"}]]
      BY <2>1 DEF TypeOK
    <2>3. \A q \in Take : pc'[q]["manager"] # "idle" => pc[q]["manager"] # "idle"
      BY <2>1 DEF TypeOK, Actor
    <2>4. countedQty[k] \in [Product -> Box]
      BY <1>0 DEF Boxes
    <2>5. sheet' \in [Take -> [Actor -> [Product -> Box]]]
      BY <1>0, <2>1, <2>4 DEF Boxes
    <2>6. Boxes' /\ DecidesOneOpen'
      BY <2>1, <2>3, <2>5 DEF Boxes, DecidesOneOpen, takes, lines, screens, Box
    <2>7. QED
      BY <2>1, <2>2, <2>6, <1>a DEF TypeOK, shelf, ledger, takes, lines, screens
  <1>9. ASSUME NEW k \in Take, NEW a \in Actor, LookForRows(k, a) PROVE TypeInv'
    <2>1. UNCHANGED <<shelf, ledger, takes, screens, seen, sheet>>
          /\ pc' = [pc EXCEPT ![k][a] = "posting"] /\ pc[k][a] = "read"
          /\ found' = [found EXCEPT ![k][a] = rows[k] > 0]
      BY <1>9 DEF LookForRows
    <2>2. pc' \in [Take -> [Actor -> {"idle", "loaded", "read", "posting"}]]
          /\ found' \in [Take -> [Actor -> BOOLEAN]]
      BY <2>1 DEF TypeOK
    <2>3. \A q \in Take : pc'[q]["manager"] # "idle" => pc[q]["manager"] # "idle"
      BY <2>1 DEF TypeOK, Actor
    <2>4. Boxes' /\ DecidesOneOpen'
      BY <2>1, <2>3 DEF Boxes, DecidesOneOpen, takes, lines, screens, Box
    <2>5. QED
      BY <2>1, <2>2, <2>4, <1>a DEF TypeOK, shelf, ledger, takes, lines, screens
  <1>10. ASSUME NEW k \in Take, NEW a \in Actor, pc[k][a] # "idle", Finish(k, a), Decide(k, a),
                UNCHANGED <<shelf, ledger, lines, rows, screens>>,
                status' = status \/ status' = [status EXCEPT ![k] = "POSTED"]
         PROVE  TypeInv'
    <2>1. Boxes' /\ DecidesOneOpen'
      BY <1>10, FinishType, DecideType DEF Boxes, lines, screens, Box
    <2>2. QED
      BY <1>10, <2>1, <1>a, FinishType, DecideType DEF TypeOK, shelf, ledger, lines, screens
  <1>11. ASSUME NEW k \in Take, Submit(k) PROVE TypeInv'
    <2>1. /\ Finish(k, "tab") /\ "tab" \in Actor
          /\ status' = [status EXCEPT ![k] = "PENDING_APPROVAL"]
          /\ open' = [open EXCEPT ![k] = @ + 1]
          /\ UNCHANGED <<shelf, ledger, lines, rows, screens>>
      BY <1>11 DEF Submit, Actor
    <2>2. open' \in [Take -> Nat] /\ \A q \in Take : open'[q] >= open[q]
      BY <1>0, <2>1
    <2>3. \A q \in Take : pc'[q]["manager"] # "idle" => pc[q]["manager"] # "idle"
      BY <2>1, FinishType
    <2>4. DecidesOneOpen'
      <3> SUFFICES ASSUME NEW q \in Take, pc'[q]["manager"] # "idle" PROVE open'[q] > 0
        BY DEF DecidesOneOpen
      <3>1. open[q] > 0 /\ open'[q] >= open[q] /\ open[q] \in Nat /\ open'[q] \in Nat
        BY <1>0, <2>2, <2>3 DEF DecidesOneOpen
      <3>2. QED
        BY <3>1
    <2>5. Boxes'
      BY <1>0, <2>1, FinishType DEF Boxes, lines, screens, Box
    <2>6. QED
      BY <2>1, <2>2, <2>4, <2>5, <1>a, FinishType DEF TypeOK, shelf, ledger, lines, screens
  <1>12. ASSUME NEW k \in Take, NEW a \in Actor, PostAdjustment(k, a) PROVE TypeInv'
    <2>1. /\ pc[k][a] = "posting" /\ Decide(k, a) /\ Finish(k, a)
          /\ status' = [status EXCEPT ![k] = "POSTED"]
          /\ rows' = [rows EXCEPT ![k] = IF found[k][a] THEN @ ELSE @ + 1]
          /\ UNCHANGED <<shelf, lines, screens>>
      BY <1>12 DEF PostAdjustment
    <2>2. rows' \in [Take -> Nat]
      BY <1>0, <2>1
    <2>3. Boxes' /\ DecidesOneOpen'
      BY <1>0, <2>1, FinishType, DecideType DEF Boxes, lines, screens, Box
    <2>4. \A q \in Product :
            onHand'[q] = Stock[q] + moved'["SALE_DEDUCTION"][q] + moved'["WASTAGE"][q]
                                  + moved'["STOCKTAKE_ADJ"][q]
      <3> SUFFICES ASSUME NEW q \in Product
                   PROVE  onHand'[q] = Stock[q] + moved'["SALE_DEDUCTION"][q] + moved'["WASTAGE"][q]
                                                + moved'["STOCKTAKE_ADJ"][q]
        OBVIOUS
      <3>1. {"STOCKTAKE_ADJ", "SALE_DEDUCTION", "WASTAGE"} = Types
        BY DEF Types, Usage
      <3>2. /\ moved["STOCKTAKE_ADJ"][q] \in Int /\ moved["SALE_DEDUCTION"][q] \in Int
            /\ moved["WASTAGE"][q] \in Int /\ onHand[q] \in Int /\ Stock[q] \in Int
        BY <1>0, <3>1
      <3>3. PICK d \in Int : /\ onHand'[q] = onHand[q] + d
                             /\ moved'["STOCKTAKE_ADJ"][q] = moved["STOCKTAKE_ADJ"][q] + d
                             /\ moved'["SALE_DEDUCTION"][q] = moved["SALE_DEDUCTION"][q]
                             /\ moved'["WASTAGE"][q] = moved["WASTAGE"][q]
        BY <1>12, PostEffect
      <3>4. onHand[q] = Stock[q] + moved["SALE_DEDUCTION"][q] + moved["WASTAGE"][q]
                                 + moved["STOCKTAKE_ADJ"][q]
        BY DEF TypeOK
      <3>5. QED
        BY <3>2, <3>3, <3>4
    <2>5. QED
      BY <1>12, <2>1, <2>2, <2>3, <2>4, <1>a, PostEffect, FinishType, DecideType
      DEF TypeOK, shelf, lines, screens
  <1>13. ASSUME NEW k \in Take, Reject(k) PROVE TypeInv'
    <2>1. /\ open[k] > 0 /\ pc[k]["manager"] = "idle" /\ open[k] \in Nat
          /\ open' = [open EXCEPT ![k] = @ - 1]
          /\ UNCHANGED <<shelf, ledger, status, lines, rows, screens, postings>>
      BY <1>0, <1>13 DEF Reject
    <2>2. open' \in [Take -> Nat]
      BY <1>0, <2>1
    <2>3. \A q \in Take : q # k => open'[q] = open[q]
      BY <1>0, <2>1
    <2>4. Boxes' /\ DecidesOneOpen'
      BY <1>0, <2>1, <2>3 DEF Boxes, DecidesOneOpen, lines, screens, postings, Box
    <2>5. QED
      BY <2>1, <2>2, <2>4, <1>a DEF TypeOK, shelf, ledger, lines, screens, postings
  <1>14. ASSUME NEW k \in Take, NEW a \in Actor, Fail(k, a) PROVE TypeInv'
    <2>1. pc[k][a] # "idle" /\ Finish(k, a) /\ UNCHANGED <<shelf, ledger, takes, screens>>
      BY <1>14 DEF Fail
    <2>2. Boxes' /\ DecidesOneOpen'
      BY <1>0, <2>1, FinishType DEF Boxes, DecidesOneOpen, takes, lines, screens, Box
    <2>3. QED
      BY <2>1, <2>2, <1>a, FinishType DEF TypeOK, shelf, ledger, takes, lines, screens
  <1>15. ASSUME NEW k \in Take, NEW a \in Actor, ReturnPosted(k, a) PROVE TypeInv'
    <2>1. /\ pc[k][a] # "idle" /\ Decide(k, a) /\ Finish(k, a) /\ status' = status
          /\ UNCHANGED <<shelf, ledger, lines, rows, screens>>
      BY <1>15 DEF ReturnPosted
    <2>2. QED
      BY <2>1, <1>10
  <1>16. ASSUME NEW k \in Take, NEW a \in Actor, PostNothing(k, a) PROVE TypeInv'
    <2>1. /\ pc[k][a] # "idle" /\ Decide(k, a) /\ Finish(k, a)
          /\ status' = [status EXCEPT ![k] = "POSTED"]
          /\ UNCHANGED <<shelf, ledger, lines, rows, screens>>
      BY <1>16 DEF PostNothing
    <2>2. QED
      BY <2>1, <1>10
  <1>17. CASE UNCHANGED vars
    BY <1>17, <1>0, <1>a DEF vars, TypeOK, Boxes, DecidesOneOpen, shelf, ledger, takes, lines,
       screens, postings, Box
  <1>18. QED
    BY <1>1, <1>2, <1>3, <1>4, <1>5, <1>6, <1>7, <1>8, <1>9, <1>11, <1>12, <1>13, <1>14, <1>15,
       <1>16, <1>17
    DEF Next, Posting

(* What Init gives the screens and the postings. *)
LEMMA TypeInit == Init => TypeInv
  <1> SUFFICES ASSUME Init PROVE TypeInv
    OBVIOUS
  <1>1. Empty \in [Product -> Box]
    BY DEF Empty, Box
  <1>2. Boxes
    BY <1>1 DEF Init, Boxes
  <1>3. \A k \in Take : /\ IsSheet(countedQty[k]) /\ IsSheet(typed[k])
                        /\ \A a \in Actor : IsSheet(sheet[k][a])
    BY <1>1, SheetType DEF Init
  <1>4. DecidesOneOpen
    BY DEF Init, DecidesOneOpen, Actor
  <1>5. \A p \in Product :
          onHand[p] = Stock[p] + moved["SALE_DEDUCTION"][p] + moved["WASTAGE"][p]
                               + moved["STOCKTAKE_ADJ"][p]
    BY DEF Init, Types, Usage
  <1>6. onHand \in [Product -> Int]
    BY DEF Init
  <1>7. moved \in [Types -> [Product -> Int]]
    BY DEF Init
  <1>8. pc \in [Take -> [Actor -> {"idle", "loaded", "read", "posting"}]]
        /\ found \in [Take -> [Actor -> BOOLEAN]]
    BY DEF Init
  <1>9. systemQty \in [Take -> [Product -> Int]]
    BY DEF Init
  <1>10. QED
    BY <1>2, <1>3, <1>4, <1>5, <1>6, <1>7, <1>8, <1>9 DEF Init, TypeInv, TypeOK

(* So the types always hold.                                               *)
LEMMA TypeInvAlways == Spec => []TypeInv
  BY TypeInit, TypeStep, PTL DEF Spec

(* Every variable keeps its type; the balance of a product is what its     *)
(* movements add up to.                                                    *)
THEOREM TypeCorrect == Spec => []TypeOK
  <1>1. TypeInv => TypeOK
    BY DEF TypeInv
  <1>2. QED
    BY <1>1, TypeInvAlways, PTL
-----------------------------------------------------------------------------
(* What is on the shelf is what was there, without what was sold, thrown   *)
(* away or lost.                                                           *)
ShelfIsKnown ==
  \A p \in Product :
    physical[p] = Stock[p] + moved["SALE_DEDUCTION"][p] + moved["WASTAGE"][p] - lost[p]

(* A count found what was on the shelf: it differs from the record of the  *)
(* time by what had been lost or adjusted.                                 *)
TrueCount(c) == IsCount(c) => c.qty - c.onHand = -(c.lost + c.adjusted)

CountsAreTrue ==
  \A k \in Take, p \in Product :
    /\ TrueCount(typed[k][p]) /\ TrueCount(countedQty[k][p])
    /\ \A a \in Actor : TrueCount(sheet[k][a][p])

ShelfInv == ShelfIsKnown /\ CountsAreTrue

(* The types of what the shelf is reckoned from. *)
LEMMA ShelfTypes ==
  ASSUME TypeOK, NEW p \in Product
  PROVE  /\ physical[p] \in Nat /\ lost[p] \in Nat /\ onHand[p] \in Int /\ Stock[p] \in Nat
         /\ moved["SALE_DEDUCTION"][p] \in Int /\ moved["WASTAGE"][p] \in Int
         /\ moved["STOCKTAKE_ADJ"][p] \in Int
         /\ onHand[p] = Stock[p] + moved["SALE_DEDUCTION"][p] + moved["WASTAGE"][p]
                                 + moved["STOCKTAKE_ADJ"][p]
  BY DEF TypeOK, Types, Usage

(* Only what is used or lost changes the shelf: the other steps leave the  *)
(* shelf, and what was used of it, alone.                                  *)
LEMMA ShelfKept ==
  ASSUME TypeInv, ShelfIsKnown, UNCHANGED shelf,
         \/ UNCHANGED ledger
         \/ \E k \in Take, a \in Actor : PostAdjustment(k, a)
  PROVE  ShelfIsKnown'
  <1>1. physical' = physical /\ lost' = lost
    BY DEF shelf
  <1>2. ASSUME NEW p \in Product
        PROVE  /\ moved'["SALE_DEDUCTION"][p] = moved["SALE_DEDUCTION"][p]
               /\ moved'["WASTAGE"][p] = moved["WASTAGE"][p]
    BY PostEffect DEF ledger
  <1>3. QED
    BY <1>1, <1>2 DEF ShelfIsKnown

(* Nobody counts: what a box, a line or a sheet holds comes from another.  *)
LEMMA CountsKept ==
  ASSUME TypeInv, CountsAreTrue,
         \A k \in Take, p \in Product :
           /\ typed'[k][p] = typed[k][p]
           /\ countedQty'[k][p] \in {countedQty[k][p], typed[k][p], Blank}
           /\ \A a \in Actor : sheet'[k][a][p] \in {sheet[k][a][p], countedQty[k][p], None}
  PROVE  CountsAreTrue'
  <1>1. TrueCount(None) /\ TrueCount(Blank)
    BY DEF TrueCount, IsCount
  <1> SUFFICES ASSUME NEW k \in Take, NEW p \in Product
               PROVE  /\ TrueCount(typed'[k][p]) /\ TrueCount(countedQty'[k][p])
                      /\ \A a \in Actor : TrueCount(sheet'[k][a][p])
    BY DEF CountsAreTrue, TrueCount, IsCount
  <1>2. /\ TrueCount(typed[k][p]) /\ TrueCount(countedQty[k][p])
        /\ \A a \in Actor : TrueCount(sheet[k][a][p])
    BY DEF CountsAreTrue
  <1>3. QED
    BY <1>1, <1>2

(* Every step keeps shelf, balance and ledger in step.                     *)
LEMMA ShelfStep == TypeInv /\ ShelfInv /\ [Next]_vars => ShelfInv'
  <1> SUFFICES ASSUME TypeInv, ShelfIsKnown, CountsAreTrue, [Next]_vars
               PROVE  ShelfIsKnown' /\ CountsAreTrue'
    BY DEF ShelfInv
  <1>0. TypeOK /\ Boxes
    BY DEF TypeInv
  <1>1. ASSUME UNCHANGED <<typed, countedQty, sheet>> PROVE CountsAreTrue'
    BY <1>1, CountsKept
  <1>2. ASSUME NEW k \in Take, NEW a \in Actor, Finish(k, a), UNCHANGED <<typed, countedQty>>
        PROVE  CountsAreTrue'
    BY <1>2, FinishType, CountsKept
  <1>3. ASSUME NEW p \in Product, Lose(p) PROVE ShelfIsKnown' /\ CountsAreTrue'
    <2>1. /\ physical' = [physical EXCEPT ![p] = @ - 1] /\ lost' = [lost EXCEPT ![p] = @ + 1]
          /\ moved' = moved /\ UNCHANGED <<typed, countedQty, sheet>>
      BY <1>3 DEF Lose, ledger, takes, lines, screens, postings
    <2>2. physical \in [Product -> Nat] /\ lost \in [Product -> Nat]
      BY <1>0 DEF TypeOK
    <2>3. \A q \in Product : /\ physical'[q] = IF q = p THEN physical[q] - 1 ELSE physical[q]
                             /\ lost'[q] = IF q = p THEN lost[q] + 1 ELSE lost[q]
      BY <2>1, <2>2
    <2>4. ShelfIsKnown'
      BY <1>0, <2>1, <2>3, ShelfTypes DEF ShelfIsKnown
    <2>5. QED
      BY <1>1, <2>1, <2>4
  <1>4. ASSUME NEW p \in Product, NEW t \in Usage, Use(p, t) PROVE ShelfIsKnown' /\ CountsAreTrue'
    <2>1. lost' = lost /\ UNCHANGED <<typed, countedQty, sheet>>
      BY <1>4 DEF Use, takes, lines, screens, postings
    <2>2. ASSUME NEW q \in Product
          PROVE  physical'[q] = Stock[q] + moved'["SALE_DEDUCTION"][q] + moved'["WASTAGE"][q] - lost'[q]
      <3>1. /\ moved'["SALE_DEDUCTION"][q] \in Int /\ moved'["WASTAGE"][q] \in Int
        BY <1>4, UseEffect DEF Types, Usage
      <3>2. PICK used \in Int :
              /\ physical'[q] = physical[q] - used
              /\ moved'["SALE_DEDUCTION"][q] + moved'["WASTAGE"][q]
                   = moved["SALE_DEDUCTION"][q] + moved["WASTAGE"][q] - used
        BY <1>4, UseEffect
      <3>3. /\ physical[q] = Stock[q] + moved["SALE_DEDUCTION"][q] + moved["WASTAGE"][q] - lost[q]
            /\ moved["SALE_DEDUCTION"][q] \in Int /\ moved["WASTAGE"][q] \in Int
            /\ Stock[q] \in Int /\ lost[q] \in Int /\ lost'[q] = lost[q]
        BY <1>0, <2>1, ShelfTypes DEF ShelfIsKnown
      <3>4. QED
        BY <3>1, <3>2, <3>3
    <2>3. QED
      BY <1>1, <2>1, <2>2 DEF ShelfIsKnown
  <1>5. ASSUME NEW k \in Take, NEW p \in Product, Count(k, p) PROVE ShelfIsKnown' /\ CountsAreTrue'
    <2> DEFINE c == [qty |-> physical[p], onHand |-> onHand[p], lost |-> lost[p],
                     adjusted |-> moved["STOCKTAKE_ADJ"][p]]
    <2>1. TrueCount(c)
      BY <1>0, ShelfTypes DEF TrueCount, ShelfIsKnown
    <2>2. typed' = [typed EXCEPT ![k][p] = c]
      BY <1>5 DEF Count
    <2> HIDE DEF c
    <2>3. typed \in [Take -> [Product -> Box]]
      BY <1>0 DEF Boxes
    <2>4. \A m \in Take, q \in Product : typed'[m][q] = typed[m][q] \/ typed'[m][q] = c
      BY <2>2, <2>3
    <2>5. UNCHANGED <<shelf, ledger, countedQty, sheet>>
      BY <1>5 DEF Count, takes, lines, postings
    <2>6. \A m \in Take, q \in Product : TrueCount(typed'[m][q])
      BY <2>1, <2>4 DEF CountsAreTrue
    <2>7. CountsAreTrue'
      BY <2>5, <2>6 DEF CountsAreTrue, TrueCount, IsCount
    <2>8. QED
      BY <2>5, <2>7, ShelfKept
  <1>6. ASSUME NEW k \in Take, SaveCounts(k) PROVE ShelfIsKnown' /\ CountsAreTrue'
    <2>1. /\ countedQty' = [countedQty EXCEPT ![k] =
                [p \in Product |-> IF typed[k][p] = None THEN Blank ELSE typed[k][p]]]
          /\ UNCHANGED <<shelf, ledger, typed, sheet>>
      BY <1>6 DEF SaveCounts, screens, postings
    <2>2. \A m \in Take, q \in Product : countedQty'[m][q] \in {countedQty[m][q], typed[m][q], Blank}
      BY <1>0, <2>1 DEF Boxes
    <2>3. QED
      BY <2>1, <2>2, ShelfKept, CountsKept
  <1>7. ASSUME NEW k \in Take, NEW a \in Actor, ReadLines(k, a) PROVE ShelfIsKnown' /\ CountsAreTrue'
    <2>1. /\ sheet' = [sheet EXCEPT ![k][a] = countedQty[k]]
          /\ UNCHANGED <<shelf, ledger, typed, countedQty>>
      BY <1>7 DEF ReadLines, takes, lines, screens
    <2>2. \A m \in Take, b \in Actor, q \in Product :
            sheet'[m][b][q] \in {sheet[m][b][q], countedQty[m][q], None}
      BY <1>0, <2>1 DEF Boxes
    <2>3. QED
      BY <2>1, <2>2, ShelfKept, CountsKept
  <1>8. ASSUME NEW k \in Take, NEW a \in Actor, PostAdjustment(k, a) PROVE ShelfIsKnown' /\ CountsAreTrue'
    BY <1>8, <1>2, ShelfKept DEF PostAdjustment, lines, screens
  <1>9. ASSUME NEW k \in Take, NEW a \in Actor,
               ReturnPosted(k, a) \/ PostNothing(k, a) \/ Fail(k, a)
        PROVE  ShelfIsKnown' /\ CountsAreTrue'
    BY <1>9, <1>2, ShelfKept DEF ReturnPosted, PostNothing, Fail, takes, lines, screens
  <1>10. ASSUME NEW k \in Take, Submit(k) PROVE ShelfIsKnown' /\ CountsAreTrue'
    BY <1>10, <1>2, ShelfKept DEF Submit, Actor, lines, screens
  <1>11. ASSUME NEW k \in Take,
                \/ Open(k) \/ Refresh(k) \/ Reject(k)
                \/ \E a \in Actor : LoadTake(k, a) \/ LookForRows(k, a)
         PROVE  ShelfIsKnown' /\ CountsAreTrue'
    BY <1>11, <1>1, ShelfKept
    DEF Open, Refresh, Reject, LoadTake, LookForRows, takes, lines, screens, postings
  <1>12. CASE UNCHANGED vars
    BY <1>12, <1>1, ShelfKept DEF vars, takes, lines, screens, postings
  <1>13. QED
    BY <1>3, <1>4, <1>5, <1>6, <1>7, <1>8, <1>9, <1>10, <1>11, <1>12 DEF Next, Posting

(* So they always are.                                                     *)
LEMMA ShelfInvAlways == Spec => []ShelfInv
  <1>1. Init => ShelfInv
    BY DEF Init, ShelfInv, ShelfIsKnown, CountsAreTrue, TrueCount, IsCount, Empty, Types, Usage
  <1>2. QED
    BY <1>1, ShelfStep, TypeInvAlways, PTL DEF Spec

(* Where the books agree with the shelf, the gap of the leakage report is  *)
(* what was logged as wastage and what was lost.                           *)
THEOREM LeakageIsLoss == Spec => []LeakageTellsLoss
  <1>1. ASSUME TypeInv, ShelfInv PROVE LeakageTellsLoss
    <2> SUFFICES ASSUME NEW p \in Product, onHand[p] = physical[p]
                 PROVE  Gap(p) = lost[p] - moved["WASTAGE"][p]
      BY DEF LeakageTellsLoss
    <2>1. physical[p] = Stock[p] + moved["SALE_DEDUCTION"][p] + moved["WASTAGE"][p] - lost[p]
      BY <1>1 DEF ShelfInv, ShelfIsKnown
    <2>2. /\ moved["SALE_DEDUCTION"][p] \in Int /\ moved["WASTAGE"][p] \in Int
          /\ moved["STOCKTAKE_ADJ"][p] \in Int /\ lost[p] \in Int
          /\ Stock[p] \in Int /\ onHand[p] \in Int
          /\ onHand[p] = Stock[p] + moved["SALE_DEDUCTION"][p] + moved["WASTAGE"][p]
                                  + moved["STOCKTAKE_ADJ"][p]
      BY <1>1, ShelfTypes DEF TypeInv
    <2>3. moved["STOCKTAKE_ADJ"][p] = -lost[p]
      BY <2>1, <2>2
    <2>4. QED
      BY <2>2, <2>3 DEF Gap, Actual, Theoretical
  <1>2. QED
    BY <1>1, TypeInvAlways, ShelfInvAlways, PTL

(* Posting a take makes the record of a counted product agree with its     *)
(* shelf, unless something disturbed the count.                            *)
THEOREM PostsCorrect == Spec => CountCorrectsBalance
  <1> DEFINE Correct ==
        \A k \in Take, a \in Actor, p \in Product :
          (/\ PostNothing(k, a) \/ PostAdjustment(k, a)
           /\ ~found[k][a] /\ Undisturbed(k, sheet[k][a][p], p))
          => onHand'[p] = physical'[p]
  <1>1. ASSUME TypeInv, ShelfInv, [Next]_vars PROVE Correct
    <2> SUFFICES ASSUME NEW k \in Take, NEW a \in Actor, NEW p \in Product,
                        PostNothing(k, a) \/ PostAdjustment(k, a),
                        ~found[k][a], Undisturbed(k, sheet[k][a][p], p)
                 PROVE  onHand'[p] = physical'[p]
      OBVIOUS
    <2> DEFINE c == sheet[k][a][p]
    <2>1. c \in Counts /\ c # None /\ c # Blank
      BY <1>1 DEF Undisturbed, IsCount, TypeInv, Boxes, Box
    <2>2. /\ c.qty - c.onHand = -(c.lost + c.adjusted)
          /\ c.onHand = systemQty[k][p] /\ c.lost = lost[p]
          /\ c.adjusted = moved["STOCKTAKE_ADJ"][p]
      BY <1>1, <2>1 DEF ShelfInv, CountsAreTrue, TrueCount, IsCount, Undisturbed
    <2>3. /\ c.qty \in Nat /\ c.onHand \in Int
          /\ Variance(k, sheet[k][a], p) = c.qty - c.onHand
      BY <2>1, <2>2 DEF Counts, Variance, Quantity
    <2>4. physical[p] = onHand[p] + Variance(k, sheet[k][a], p)
      BY <1>1, <2>2, <2>3, ShelfTypes DEF TypeInv, ShelfInv, ShelfIsKnown
    <2>5. physical' = physical
      BY DEF PostNothing, PostAdjustment, shelf
    <2>6. CASE PostNothing(k, a)
      <3>1. Variance(k, sheet[k][a], p) = 0 /\ onHand' = onHand
        BY <2>1, <2>6 DEF PostNothing, Variant, ledger
      <3>2. QED
        BY <1>1, <2>4, <2>5, <3>1, ShelfTypes DEF TypeInv
    <2>7. CASE PostAdjustment(k, a)
      <3>1. onHand'[p] = onHand[p] + Delta(k, a, p)
        BY <1>1, <2>7, PostEffect
      <3>2. Delta(k, a, p) = Variance(k, sheet[k][a], p)
        BY <2>1 DEF Delta, Variant
      <3>3. QED
        BY <2>4, <2>5, <3>1, <3>2
    <2>8. QED
      BY <2>6, <2>7
  <1>2. TypeInv /\ ShelfInv /\ [Next]_vars => [Correct]_vars
    BY <1>1
  <1>3. QED
    BY <1>2, TypeInvAlways, ShelfInvAlways, PTL DEF Spec, CountCorrectsBalance
==============================================================================
