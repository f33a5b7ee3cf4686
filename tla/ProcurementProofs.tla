-------------------------- MODULE ProcurementProofs --------------------------
(***************************************************************************)
(* Proofs about Procurement, for any orders, lines, deliveries, invoices   *)
(* and requests: what the receipts add up to, what an e-mail and a status  *)
(* tell, and what a budget costs.                                          *)
(***************************************************************************)
EXTENDS Procurement, FiniteSetTheorems, WellFoundedInduction, TLAPS

(* Sums over finite sets.  g is the sum of f over every subset of S, one   *)
(* member after the other.                                                 *)
Pick(R) == CHOOSE x \in R : TRUE
Adds(g, f, S) ==
  g = [R \in SUBSET S |-> IF R = {} THEN 0 ELSE f[Pick(R)] + g[R \ {Pick(R)}]]
SumOf(f, S) == MapThenSumSet(LAMBDA x : f[x], S)

(* MapThenSumSet is such a sum, if there is one.                           *)
LEMMA SumIter ==
  ASSUME NEW S, NEW f, \E g : Adds(g, f, S)
  PROVE  \E g : Adds(g, f, S) /\ SumOf(f, S) = g[S]
  <1> DEFINE it == CHOOSE g : g = [R \in SUBSET S |-> IF R = {} THEN 0 ELSE f[CHOOSE x \in R : TRUE] + g[R \ {CHOOSE x \in R : TRUE}]]
  <1>1. Adds(it, f, S)
    BY DEF Adds, Pick
  <1>2. SumOf(f, S) = it[S]
    BY DEF SumOf, MapThenSumSet, MapThenFoldSet
  <1>3. QED
    BY <1>1, <1>2

(* A non-empty set of naturals has a least member.                         *)
LEMMA LeastExists ==
  ASSUME NEW B \in SUBSET Nat, B # {}
  PROVE  \E n \in B : \A m \in B : n <= m
  <1> DEFINE R == {ss \in Nat \X Nat : ss[1] < ss[2]}
  <1>1. R = OpToRel(<, Nat)
    BY Zenon DEF OpToRel
  <1>2. IsWellFoundedOn(R, Nat)
    BY <1>1, NatLessThanWellFounded, Zenon
  <1>3. \A x, y \in Nat : <<y, x>> \in R <=> y < x
    OBVIOUS
  <1> HIDE DEF R
  <1>4. PICK n \in B : \A m \in B : ~ (<<m, n>> \in R)
    BY <1>2, WFMin
  <1>5. ASSUME NEW m \in B PROVE n <= m
    <2>1. m \in Nat /\ n \in Nat /\ ~(m < n)
      BY <1>3, <1>4
    <2>2. QED
      BY <2>1
  <1>6. QED
    BY <1>5

(* The sums of the subsets, built up from those with fewer members.        *)
LEMMA SumDefined ==
  ASSUME NEW S, IsFiniteSet(S), NEW f, \A x \in S : f[x] \in Int
  PROVE  \E g : Adds(g, f, S)
  <1> DEFINE Level(n) == {R \in SUBSET S : Cardinality(R) <= n}
             Term(g, R) == IF R = {} THEN 0 ELSE f[Pick(R)] + g[R \ {Pick(R)}]
             Built(n) == \E g : g = [R \in Level(n) |-> Term(g, R)]
             Bad == {n \in Nat : ~Built(n)}
  <1>1. \A R \in SUBSET S : Cardinality(R) \in Nat /\ Cardinality(R) <= Cardinality(S) /\ IsFiniteSet(R)
    BY FS_Subset, FS_CardinalityType
  <1>2. \A R \in SUBSET S : R # {} =>
          Pick(R) \in R /\ Cardinality(R \ {Pick(R)}) = Cardinality(R) - 1
    BY <1>1, FS_RemoveElement DEF Pick
  <1>3. Built(0)
    <2> DEFINE g == [R \in Level(0) |-> 0]
    <2>1. \A R \in Level(0) : R = {}
      BY <1>1, FS_EmptySet
    <2>2. g = [R \in Level(0) |-> Term(g, R)]
      BY <2>1
    <2>3. QED
      BY <2>2
  <1>4. ASSUME NEW n \in Nat, Built(n) PROVE Built(n + 1)
    <2>1. PICK g : g = [R \in Level(n) |-> Term(g, R)]
      BY <1>4
    <2> DEFINE h == [R \in Level(n + 1) |-> Term(g, R)]
    <2>2. ASSUME NEW R \in Level(n + 1), R # {} PROVE h[R \ {Pick(R)}] = g[R \ {Pick(R)}]
      <3>1. R \ {Pick(R)} \in Level(n)
        BY <1>1, <1>2, <2>2
      <3>2. R \ {Pick(R)} \in Level(n + 1)
        BY <3>1, <1>1
      <3>3. g[R \ {Pick(R)}] = Term(g, R \ {Pick(R)})
        BY <2>1, <3>1
      <3>4. h[R \ {Pick(R)}] = Term(g, R \ {Pick(R)})
        BY <3>2
      <3>5. QED
        BY <3>3, <3>4
    <2>3. \A R \in Level(n + 1) : Term(g, R) = Term(h, R)
      BY <2>2
    <2>4. h = [R \in Level(n + 1) |-> Term(h, R)]
      BY <2>3
    <2>5. QED
      BY <2>4
  <1>5. Bad = {}
    <2> SUFFICES ASSUME Bad # {} PROVE FALSE
      OBVIOUS
    <2> HIDE DEF Built
    <2>1. PICK n \in Bad : \A m \in Bad : n <= m
      BY LeastExists
    <2>2. n # 0 /\ n \in Nat /\ ~Built(n)
      BY <1>3
    <2>3. n - 1 \in Nat /\ Built(n - 1)
      BY <2>1, <2>2
    <2>4. Built((n - 1) + 1)
      BY <1>4, <2>3
    <2>5. QED
      BY <2>2, <2>4
  <1>6. Level(Cardinality(S)) = SUBSET S
    BY <1>1
  <1>7. Built(Cardinality(S))
    <2> HIDE DEF Built
    <2>1. Cardinality(S) \in Nat
      BY <1>1
    <2>2. QED
      BY <1>5, <2>1
  <1>8. QED
    BY <1>6, <1>7 DEF Adds

(* Two sums over sets where the terms are the same, but for one that       *)
(* differs by d.                                                           *)
LEMMA AddsChange ==
  ASSUME NEW S, IsFiniteSet(S), NEW T, S \subseteq T, NEW f, NEW h, NEW g, NEW k,
         Adds(g, f, S), Adds(k, h, T), NEW a, NEW d \in Int,
         \A x \in S : f[x] \in Int /\ h[x] = f[x] + (IF x = a THEN d ELSE 0)
  PROVE  \A R \in SUBSET S : g[R] \in Int /\ k[R] = g[R] + (IF a \in R THEN d ELSE 0)
  <1> DEFINE P(R) == g[R] \in Int /\ k[R] = g[R] + (IF a \in R THEN d ELSE 0)
             Bad == {n \in Nat : \E R \in SUBSET S : Cardinality(R) = n /\ ~P(R)}
  <1>1. \A R \in SUBSET S : Cardinality(R) \in Nat /\ IsFiniteSet(R)
    BY FS_Subset, FS_CardinalityType
  <1>2. SUFFICES ASSUME Bad # {} PROVE FALSE
    BY <1>1
  <1>3. PICK n \in Bad : \A m \in Bad : n <= m
    BY <1>2, LeastExists
  <1>4. PICK R \in SUBSET S : Cardinality(R) = n /\ ~P(R)
    BY <1>3
  <1>5. CASE R = {}
    <2>1. g[R] = 0 /\ k[R] = 0
      BY <1>5 DEF Adds
    <2>2. QED
      BY <1>4, <1>5, <2>1
  <1>6. CASE R # {}
    <2> DEFINE x == Pick(R)
               Q == R \ {x}
    <2>1. x \in R /\ x \in S
      BY <1>6 DEF Pick
    <2>2. Cardinality(Q) = Cardinality(R) - 1 /\ Q \in SUBSET S
      BY <1>1, <2>1, FS_RemoveElement
    <2>3. P(Q)
      <3> HIDE DEF P, Q
      <3>1. Cardinality(Q) \in Nat /\ Cardinality(Q) < n
        BY <1>1, <1>4, <2>2
      <3>2. QED
        BY <1>3, <2>2, <3>1
    <2>4. g[R] = f[x] + g[Q]
      BY <1>6 DEF Adds
    <2>5. k[R] = h[x] + k[Q]
      BY <1>6 DEF Adds
    <2>6. a \in R <=> a \in Q \/ x = a
      BY <2>1
    <2>7. a = x => a \notin Q
      OBVIOUS
    <2> HIDE DEF x, Q
    <2>8. f[x] \in Int /\ h[x] = f[x] + (IF x = a THEN d ELSE 0)
      BY <2>1
    <2>9. P(R)
      BY <2>3, <2>4, <2>5, <2>6, <2>7, <2>8
    <2>10. QED
      BY <1>4, <2>9
  <1>7. QED
    BY <1>5, <1>6

(* A sum of integers is one, and changes with its terms.                   *)
LEMMA SumChange ==
  ASSUME NEW S, IsFiniteSet(S), NEW f, NEW h, NEW a, NEW d \in Int,
         \A x \in S : f[x] \in Int /\ h[x] = f[x] + (IF x = a THEN d ELSE 0)
  PROVE  SumOf(f, S) \in Int /\ SumOf(h, S) = SumOf(f, S) + (IF a \in S THEN d ELSE 0)
  <1>1. \A x \in S : h[x] \in Int
    OBVIOUS
  <1>2. PICK g : Adds(g, f, S) /\ SumOf(f, S) = g[S]
    BY SumDefined, SumIter
  <1>3. PICK k : Adds(k, h, S) /\ SumOf(h, S) = k[S]
    BY <1>1, SumDefined, SumIter
  <1>4. \A R \in SUBSET S : g[R] \in Int /\ k[R] = g[R] + (IF a \in R THEN d ELSE 0)
    BY <1>2, <1>3, AddsChange
  <1>5. QED
    BY <1>2, <1>3, <1>4

(* The terms determine the sum.                                            *)
LEMMA AddsSame ==
  ASSUME NEW S, IsFiniteSet(S), NEW f, NEW g, NEW k, Adds(g, f, S), Adds(k, f, S),
         \A x \in S : f[x] \in Int
  PROVE  \A R \in SUBSET S : g[R] \in Int /\ k[R] = g[R]
  <1>1. \A x \in S : f[x] \in Int /\ f[x] = f[x] + (IF x = 0 THEN 0 ELSE 0)
    OBVIOUS
  <1>2. \A R \in SUBSET S : g[R] \in Int /\ k[R] = g[R] + (IF 0 \in R THEN 0 ELSE 0)
    BY <1>1, AddsChange
  <1>3. QED
    BY <1>2

(* What adds up f over a set adds it up over its subsets.                  *)
LEMMA AddsPart ==
  ASSUME NEW T, NEW S, S \subseteq T, NEW f, NEW k, Adds(k, f, T)
  PROVE  Adds([R \in SUBSET S |-> k[R]], f, S)
  <1> DEFINE j == [R \in SUBSET S |-> k[R]]
             i == [R \in SUBSET S |-> IF R = {} THEN 0 ELSE f[Pick(R)] + j[R \ {Pick(R)}]]
  <1>1. \A R \in SUBSET S : k[R] = IF R = {} THEN 0 ELSE f[Pick(R)] + k[R \ {Pick(R)}]
    BY DEF Adds
  <1>2. \A R \in SUBSET S : k[R \ {Pick(R)}] = j[R \ {Pick(R)}]
    OBVIOUS
  <1>3. ASSUME NEW R \in SUBSET S PROVE j[R] = i[R]
    BY <1>1, <1>2
  <1>4. j = i
    BY <1>3
  <1>5. QED
    BY <1>4 DEF Adds

(* The same terms have the same sum, and one more in a term is one more.   *)
LEMMA SumInt ==
  ASSUME NEW S, IsFiniteSet(S), NEW f, \A x \in S : f[x] \in Int
  PROVE  /\ SumOf(f, S) \in Int
         /\ \A h : (\A x \in S : h[x] = f[x]) => SumOf(h, S) = SumOf(f, S)
  <1>1. PICK d \in Int : d = 0
    OBVIOUS
  <1>2. ASSUME NEW h, \A x \in S : h[x] = f[x] PROVE SumOf(f, S) \in Int /\ SumOf(h, S) = SumOf(f, S)
    <2>1. \A x \in S : f[x] \in Int /\ h[x] = f[x] + (IF x = d THEN d ELSE 0)
      BY <1>1, <1>2
    <2>2. SumOf(f, S) \in Int /\ SumOf(h, S) = SumOf(f, S) + (IF d \in S THEN d ELSE 0)
      BY <2>1, SumChange
    <2>3. QED
      BY <1>1, <2>2
  <1>3. QED
    BY <1>2

(* A sum grows by one where one of its terms does.                         *)
LEMMA SumOneMore ==
  ASSUME NEW S, IsFiniteSet(S), NEW f, NEW h, NEW a,
         \A x \in S : f[x] \in Int /\ h[x] = f[x] + (IF x = a THEN 1 ELSE 0)
  PROVE  SumOf(f, S) \in Int /\ SumOf(h, S) = SumOf(f, S) + (IF a \in S THEN 1 ELSE 0)
  <1>1. PICK d \in Int : d = 1
    OBVIOUS
  <1>2. \A x \in S : f[x] \in Int /\ h[x] = f[x] + (IF x = a THEN d ELSE 0)
    BY <1>1
  <1>3. SumOf(f, S) \in Int /\ SumOf(h, S) = SumOf(f, S) + (IF a \in S THEN d ELSE 0)
    BY <1>2, SumChange
  <1>4. QED
    BY <1>1, <1>3

(* A sum of zeros is zero.                                                 *)
LEMMA SumZero ==
  ASSUME NEW S, IsFiniteSet(S), NEW f, \A x \in S : f[x] = 0
  PROVE  SumOf(f, S) = 0
  <1> DEFINE zero == [R \in SUBSET S |-> 0]
  <1>1. ASSUME NEW R \in SUBSET S, R # {} PROVE f[Pick(R)] + zero[R \ {Pick(R)}] = 0
    <2>1. Pick(R) \in S
      BY <1>1 DEF Pick
    <2>2. f[Pick(R)] = 0 /\ zero[R \ {Pick(R)}] = 0
      BY <2>1
    <2>3. QED
      BY <2>2
  <1>2. Adds(zero, f, S)
    <2>1. \A R \in SUBSET S :
            0 = IF R = {} THEN 0 ELSE f[Pick(R)] + zero[R \ {Pick(R)}]
      BY <1>1
    <2> DEFINE other == [R \in SUBSET S |-> IF R = {} THEN 0 ELSE f[Pick(R)] + zero[R \ {Pick(R)}]]
    <2>2. zero = other
      BY <2>1
    <2>3. QED
      BY <2>2 DEF Adds
  <1> HIDE DEF zero
  <1>3. PICK k : Adds(k, f, S) /\ SumOf(f, S) = k[S]
    BY SumDefined, SumIter
  <1>4. k[S] = zero[S]
    BY <1>2, <1>3, AddsSame
  <1>5. zero[S] = 0
    BY DEF zero
  <1>6. QED
    BY <1>3, <1>4, <1>5

(* A function that adds up f over S gives MapThenSumSet's value.           *)
LEMMA SumIs ==
  ASSUME NEW S, IsFiniteSet(S), NEW f, \A x \in S : f[x] \in Int, NEW g, Adds(g, f, S)
  PROVE  g[S] = SumOf(f, S)
  <1>1. PICK k : Adds(k, f, S) /\ SumOf(f, S) = k[S]
    BY SumDefined, SumIter
  <1>2. QED
    BY <1>1, AddsSame

(* A set of subsets of S that has the empty set, and with a set every one  *)
(* with one member more, has S.                                            *)
LEMMA GrowSet ==
  ASSUME NEW S, IsFiniteSet(S), NEW Good, {} \in Good,
         \A R \in SUBSET S, x \in S : R \in Good /\ x \notin R => R \cup {x} \in Good
  PROVE  S \in Good
  <1> DEFINE Bad == {n \in Nat : \E R \in SUBSET S : Cardinality(R) = n /\ R \notin Good}
  <1>1. \A R \in SUBSET S : Cardinality(R) \in Nat /\ IsFiniteSet(R)
    BY FS_Subset, FS_CardinalityType
  <1>2. SUFFICES ASSUME Bad # {} PROVE FALSE
    BY <1>1
  <1>3. PICK n \in Bad : \A m \in Bad : n <= m
    BY <1>2, LeastExists
  <1>4. PICK R \in SUBSET S : Cardinality(R) = n /\ R \notin Good
    BY <1>3
  <1>5. PICK x \in R : TRUE
    BY <1>4
  <1> DEFINE Q == R \ {x}
  <1>6. Q \in SUBSET S /\ x \in S /\ x \notin Q /\ Q \cup {x} = R
    BY <1>5
  <1>7. Cardinality(Q) = Cardinality(R) - 1
    BY <1>1, <1>5, FS_RemoveElement
  <1>8. Q \in Good
    <2> HIDE DEF Q
    <2>1. Cardinality(Q) \in Nat /\ Cardinality(Q) < n
      BY <1>1, <1>4, <1>6, <1>7
    <2>2. Cardinality(Q) \notin Bad
      BY <1>3, <2>1
    <2>3. QED
      BY <1>6, <2>1, <2>2
  <1>9. QED
    BY <1>4, <1>6, <1>8

(* A sum over a set is that over the set without any one member and the    *)
(* term of that member, not only of the member that is picked first.       *)
LEMMA AddsRemove ==
  ASSUME NEW S, IsFiniteSet(S), NEW f, \A x \in S : f[x] \in Int, NEW g, Adds(g, f, S)
  PROVE  \A R \in SUBSET S : /\ g[R] \in Int
                             /\ \A x \in R : g[R] = f[x] + g[R \ {x}]
  <1> DEFINE P(R) == \A x \in R : g[R] = f[x] + g[R \ {x}]
             Bad == {n \in Nat : \E R \in SUBSET S : Cardinality(R) = n /\ ~P(R)}
  <1>1. \A R \in SUBSET S : Cardinality(R) \in Nat /\ IsFiniteSet(R)
    BY FS_Subset, FS_CardinalityType
  <1>2. \A R \in SUBSET S : g[R] \in Int
    BY AddsSame
  <1>3. SUFFICES ASSUME Bad # {} PROVE FALSE
    BY <1>1, <1>2
  <1>4. PICK n \in Bad : \A m \in Bad : n <= m
    BY <1>3, LeastExists
  <1>5. PICK R \in SUBSET S : Cardinality(R) = n /\ ~P(R)
    BY <1>4
  <1>6. PICK x \in R : ~(g[R] = f[x] + g[R \ {x}])
    BY <1>5
  <1> DEFINE y == Pick(R)
  <1>7. y \in R
    BY <1>6 DEF Pick
  <1>8. g[R] = f[y] + g[R \ {y}]
    BY <1>6 DEF Adds
  <1> HIDE DEF y
  <1>9. y # x
    BY <1>6, <1>8
  <1>10. \A z \in R : P(R \ {z})
    <2> SUFFICES ASSUME NEW z \in R PROVE P(R \ {z})
      OBVIOUS
    <2>1. Cardinality(R \ {z}) = n - 1 /\ R \ {z} \in SUBSET S
      BY <1>1, <1>5, FS_RemoveElement
    <2> HIDE DEF P
    <2>2. Cardinality(R \ {z}) \in Nat /\ Cardinality(R \ {z}) < n
      BY <1>1, <2>1
    <2>3. QED
      BY <1>4, <2>1, <2>2
  <1>11. g[R \ {y}] = f[x] + g[(R \ {y}) \ {x}]
    BY <1>7, <1>9, <1>10
  <1>12. g[R \ {x}] = f[y] + g[(R \ {x}) \ {y}]
    BY <1>7, <1>9, <1>10
  <1>13. (R \ {x}) \ {y} = (R \ {y}) \ {x}
    OBVIOUS
  <1>14. f[x] \in Int /\ f[y] \in Int /\ g[(R \ {y}) \ {x}] \in Int
    BY <1>2, <1>7
  <1>15. g[R] = f[x] + g[R \ {x}]
    <2> DEFINE a == g[(R \ {y}) \ {x}]
    <2>1. g[R \ {y}] = f[x] + a /\ g[R \ {x}] = f[y] + a /\ a \in Int
      BY <1>11, <1>12, <1>13, <1>14
    <2> HIDE DEF a
    <2>2. QED
      BY <1>8, <1>14, <2>1
  <1>16. QED
    BY <1>6, <1>15

(* The sum over a set with one member more.                                *)
LEMMA SumInsert ==
  ASSUME NEW S, IsFiniteSet(S), NEW f, NEW x, x \notin S, \A y \in S \cup {x} : f[y] \in Int
  PROVE  SumOf(f, S) \in Int /\ SumOf(f, S \cup {x}) = f[x] + SumOf(f, S)
  <1> DEFINE T == S \cup {x}
  <1>1. IsFiniteSet(T)
    BY FS_AddElement
  <1>2. PICK g : Adds(g, f, S) /\ SumOf(f, S) = g[S]
    BY SumDefined, SumIter
  <1>3. PICK k : Adds(k, f, T) /\ SumOf(f, T) = k[T]
    BY <1>1, SumDefined, SumIter
  <1>4. S \subseteq T /\ x \in T /\ T \ {x} = S
    OBVIOUS
  <1>5. k[T] = f[x] + k[T \ {x}]
    <2> HIDE DEF T
    <2>1. \A y \in T : f[y] \in Int
      BY DEF T
    <2>2. QED
      BY <1>1, <1>3, <1>4, <2>1, AddsRemove
  <1>6. g[S] \in Int /\ k[S] = g[S]
    <2> DEFINE j == [R \in SUBSET S |-> k[R]]
    <2> HIDE DEF T
    <2>1. Adds(j, f, S)
      BY <1>3, <1>4, AddsPart
    <2> HIDE DEF j
    <2>2. \A y \in S : f[y] \in Int
      OBVIOUS
    <2>3. \A R \in SUBSET S : g[R] \in Int /\ j[R] = g[R]
      BY <1>2, <2>1, <2>2, AddsSame
    <2>4. g[S] \in Int /\ j[S] = g[S]
      BY <2>3
    <2>5. QED
      BY <2>4 DEF j
  <1>7. QED
    BY <1>2, <1>3, <1>4, <1>5, <1>6

(* The sum over two sets with nothing in common.                           *)
LEMMA SumUnion ==
  ASSUME NEW A, IsFiniteSet(A), NEW B, IsFiniteSet(B), A \cap B = {}, NEW f, \A x \in A \cup B : f[x] \in Int
  PROVE  SumOf(f, A \cup B) = SumOf(f, A) + SumOf(f, B)
  <1> DEFINE Good == {R \in SUBSET B : SumOf(f, A \cup R) = SumOf(f, A) + SumOf(f, R)}
  <1>1. {} \in Good
    <2>1. SumOf(f, A) \in Int /\ SumOf(f, {}) = 0 /\ A \cup {} = A
      BY FS_EmptySet, SumInt, SumZero
    <2>2. SumOf(f, A \cup {}) = SumOf(f, A) + SumOf(f, {})
      BY <2>1
    <2>3. QED
      BY <2>2
  <1>2. ASSUME NEW R \in SUBSET B, NEW x \in B, R \in Good, x \notin R PROVE R \cup {x} \in Good
    <2>1. IsFiniteSet(R) /\ IsFiniteSet(A \cup R) /\ x \notin A \cup R
      BY <1>2, FS_Subset, FS_Union
    <2>2. /\ \A y \in R \cup {x} : f[y] \in Int
          /\ \A y \in (A \cup R) \cup {x} : f[y] \in Int
      OBVIOUS
    <2>3. SumOf(f, R) \in Int /\ SumOf(f, R \cup {x}) = f[x] + SumOf(f, R)
      BY <1>2, <2>1, <2>2, SumInsert
    <2>4. SumOf(f, A \cup R) \in Int /\ SumOf(f, (A \cup R) \cup {x}) = f[x] + SumOf(f, A \cup R)
      BY <2>1, <2>2, SumInsert
    <2>5. (A \cup R) \cup {x} = A \cup (R \cup {x})
      OBVIOUS
    <2>6. SumOf(f, A) \in Int /\ f[x] \in Int
      BY SumInt
    <2>7. SumOf(f, A \cup R) = SumOf(f, A) + SumOf(f, R)
      BY <1>2
    <2>8. SumOf(f, A \cup (R \cup {x})) = SumOf(f, A) + SumOf(f, R \cup {x})
      <3>1. \A a, b, c \in Int : b + (a + c) = a + (b + c)
        OBVIOUS
      <3>2. SumOf(f, A \cup (R \cup {x})) = f[x] + (SumOf(f, A) + SumOf(f, R))
        BY <2>4, <2>5, <2>7
      <3>3. f[x] + (SumOf(f, A) + SumOf(f, R)) = SumOf(f, A) + (f[x] + SumOf(f, R))
        BY <2>3, <2>6, <3>1
      <3>4. QED
        BY <2>3, <3>2, <3>3
    <2>9. QED
      BY <2>8
  <1>3. B \in Good
    <2> HIDE DEF Good
    <2>1. QED
      BY <1>1, <1>2, GrowSet
  <1>4. QED
    BY <1>3

(* Greater terms have the greater sum.                                     *)
LEMMA SumLess ==
  ASSUME NEW S, IsFiniteSet(S), NEW f, NEW h, \A x \in S : f[x] \in Int /\ h[x] \in Int /\ f[x] <= h[x]
  PROVE  SumOf(f, S) \in Int /\ SumOf(h, S) \in Int /\ SumOf(f, S) <= SumOf(h, S)
  <1> DEFINE Good == {R \in SUBSET S : SumOf(f, R) <= SumOf(h, R)}
  <1>1. {} \in Good
    <2>1. SumOf(f, {}) = 0 /\ SumOf(h, {}) = 0
      BY FS_EmptySet, SumZero
    <2>2. QED
      BY <2>1
  <1>2. ASSUME NEW R \in SUBSET S, NEW x \in S, R \in Good, x \notin R PROVE R \cup {x} \in Good
    <2>1. IsFiniteSet(R) /\ \A y \in R \cup {x} : f[y] \in Int /\ h[y] \in Int
      BY FS_Subset
    <2>2. SumOf(f, R) \in Int /\ SumOf(f, R \cup {x}) = f[x] + SumOf(f, R)
      BY <1>2, <2>1, SumInsert
    <2>3. SumOf(h, R) \in Int /\ SumOf(h, R \cup {x}) = h[x] + SumOf(h, R)
      BY <1>2, <2>1, SumInsert
    <2>4. f[x] \in Int /\ h[x] \in Int /\ f[x] <= h[x] /\ SumOf(f, R) <= SumOf(h, R)
      BY <1>2
    <2>5. SumOf(f, R \cup {x}) <= SumOf(h, R \cup {x})
      BY <2>2, <2>3, <2>4
    <2>6. QED
      BY <2>5
  <1>3. S \in Good
    <2> HIDE DEF Good
    <2>1. QED
      BY <1>1, <1>2, GrowSet
  <1>4. QED
    BY <1>3, SumInt

(* A sum of naturals is not less than any of its terms.                    *)
LEMMA SumMember ==
  ASSUME NEW S, IsFiniteSet(S), NEW f, \A x \in S : f[x] \in Nat, NEW x \in S
  PROVE  f[x] <= SumOf(f, S)
  <1> DEFINE T == S \ {x}
             zero == [y \in T |-> 0]
  <1>1. IsFiniteSet(T) /\ x \notin T /\ T \cup {x} = S
    BY FS_RemoveElement
  <1>2. \A y \in T : zero[y] \in Int /\ f[y] \in Int /\ zero[y] <= f[y]
    OBVIOUS
  <1>3. \A y \in T : zero[y] = 0
    OBVIOUS
  <1> HIDE DEF T, zero
  <1>4. SumOf(zero, T) = 0 /\ SumOf(zero, T) <= SumOf(f, T) /\ SumOf(f, T) \in Int
    BY <1>1, <1>2, <1>3, SumZero, SumLess
  <1>5. SumOf(f, T \cup {x}) = f[x] + SumOf(f, T)
    <2>1. \A y \in T \cup {x} : f[y] \in Int
      BY <1>1
    <2>2. QED
      BY <1>1, <2>1, SumInsert
  <1>6. f[x] \in Int
    OBVIOUS
  <1> DEFINE rest == SumOf(f, T)
             all == SumOf(f, S)
  <1>7. 0 <= rest /\ rest \in Int /\ all = f[x] + rest
    BY <1>1, <1>4, <1>5
  <1> HIDE DEF rest, all
  <1>8. f[x] <= all
    BY <1>6, <1>7
  <1>9. QED
    BY <1>8 DEF all

-----------------------------------------------------------------------------
USE ProcurementConstants

PC == {"idle", "sending", "emailed", "receiving", "read"}

(* The rows r holds: those of the lines it has posted.                     *)
Rows(r) ==
  IF delivery[r] = None THEN {} ELSE {ProductOf[LinesOf[delivery[r]][i]] : i \in 1..(next[r] - 1)}

(* What TypeOK says of one request.                                        *)
RequestType(r) ==
  /\ pc[r] \in PC /\ po[r] \in PO \cup {None} /\ delivery[r] \in Delivery \cup {None}
  /\ next[r] \in Nat \ {0} /\ newStatus[r] \in POStatus
  /\ pc[r] = "idle" <=> po[r] = None
  /\ pc[r] \in {"receiving", "read"} <=> delivery[r] # None
  /\ {p \in Product : rowLock[p] = r} = Rows(r)

(* A request that enters no delivery starts with the first line.           *)
FirstLine(r) == delivery[r] = None => next[r] = 1

(* The requests, well typed; the rest is as TypeOK says.                   *)
RequestsTyped ==
  /\ rowLock \in [Product -> Request \cup {None}]
  /\ pc \in [Request -> PC] /\ po \in [Request -> PO \cup {None}]
  /\ delivery \in [Request -> Delivery \cup {None}]
  /\ next \in [Request -> Nat \ {0}] /\ newStatus \in [Request -> POStatus]
  /\ \A r \in Request : RequestType(r) /\ FirstLine(r)

OthersTyped ==
  /\ budget \in {"ABSENT", "DRAFT", "SUBMITTED", "APPROVED", "REJECTED"}
  /\ poStatus \in [PO -> POStatus]
  /\ fulfilled \in [POLine -> Nat] /\ onHand \in [Product -> Int]
  /\ grns \in [Delivery -> Nat] /\ sendLogs \in [PO -> Nat]
  /\ withEmail \in SUBSET PO /\ emails \in [PO -> Nat]
  /\ billed \in [Invoice -> Nat] /\ billedPO \in [Invoice -> PO \cup {None}]
  /\ match \in [Invoice -> MatchStatus]
  /\ awaited \in [Delivery -> Request \cup {None}]
  /\ entered \in SUBSET Delivery /\ unsure \in SUBSET Delivery
  /\ sold \in [Product -> Nat]
  /\ raced \in SUBSET PO /\ resent \in SUBSET PO /\ cut \in SUBSET PO

TypeInv == RequestsTyped /\ OthersTyped

(* Only r's locals change.                                                 *)
Alone(r) ==
  /\ \E x \in PC : pc' = [pc EXCEPT ![r] = x]
  /\ \E x \in PO \cup {None} : po' = [po EXCEPT ![r] = x]
  /\ \E x \in Delivery \cup {None} : delivery' = [delivery EXCEPT ![r] = x]
  /\ \E x \in Nat \ {0} : next' = [next EXCEPT ![r] = x]
  /\ \E x \in POStatus : newStatus' = [newStatus EXCEPT ![r] = x]

(* The strengthened types are types.                                       *)
LEMMA TypeInvIsTypeOK ==
  ASSUME TypeInv
  PROVE  TypeOK
  <1>1. RequestsTyped /\ OthersTyped
    BY DEF TypeInv
  <1>2. QED
    BY <1>1 DEF RequestsTyped, OthersTyped, TypeOK, RequestType, Rows, PC

(* The locals of one request have their types.                             *)
LEMMA RequestTypes ==
  ASSUME TypeInv, NEW r \in Request
  PROVE  RequestType(r) /\ FirstLine(r)
  BY DEF TypeInv, RequestsTyped

(* A delivery has lines, all of one PO.                                    *)
LEMMA DeliveryTypes ==
  ASSUME NEW d \in Delivery
  PROVE  /\ LinesOf[d] \in Seq(POLine) /\ Len(LinesOf[d]) > 0
         /\ \A i \in 1..Len(LinesOf[d]) : LinesOf[d][i] \in POLine
         /\ ToSet(LinesOf[d]) \subseteq POLine
         /\ POOfDelivery(d) \in PO
         /\ \A l \in ToSet(LinesOf[d]) : POOf[l] = POOfDelivery(d)
  <1>1. LinesOf[d] \in Seq(POLine) /\ LinesOf[d] # <<>>
    OBVIOUS
  <1>2. Len(LinesOf[d]) > 0 /\ Len(LinesOf[d]) \in Nat
    BY <1>1
  <1>3. \A i \in 1..Len(LinesOf[d]) : LinesOf[d][i] \in POLine
    BY <1>1
  <1>4. ToSet(LinesOf[d]) = {LinesOf[d][i] : i \in 1..Len(LinesOf[d])}
    BY <1>1 DEF ToSet
  <1>5. LinesOf[d][1] \in ToSet(LinesOf[d]) /\ ToSet(LinesOf[d]) \subseteq POLine
    BY <1>2, <1>3, <1>4
  <1>6. \A l, m \in ToSet(LinesOf[d]) : POOf[l] = POOf[m]
    OBVIOUS
  <1>7. QED
    BY <1>1, <1>2, <1>3, <1>5, <1>6 DEF POOfDelivery

(* A step of one request leaves the locals of the others alone.            *)
LEMMA AloneEffect ==
  ASSUME TypeOK, NEW r \in Request, Alone(r)
  PROVE  /\ pc' \in [Request -> PC] /\ po' \in [Request -> PO \cup {None}]
         /\ delivery' \in [Request -> Delivery \cup {None}]
         /\ next' \in [Request -> Nat \ {0}] /\ newStatus' \in [Request -> POStatus]
         /\ \A q \in Request \ {r} :
              /\ pc'[q] = pc[q] /\ po'[q] = po[q] /\ delivery'[q] = delivery[q]
              /\ next'[q] = next[q] /\ newStatus'[q] = newStatus[q]
  <1>1. pc' \in [Request -> PC] /\ \A q \in Request \ {r} : pc'[q] = pc[q]
    BY DEF TypeOK, Alone, PC
  <1>2. po' \in [Request -> PO \cup {None}] /\ \A q \in Request \ {r} : po'[q] = po[q]
    BY DEF TypeOK, Alone
  <1>3. delivery' \in [Request -> Delivery \cup {None}] /\ \A q \in Request \ {r} : delivery'[q] = delivery[q]
    BY DEF TypeOK, Alone
  <1>4. next' \in [Request -> Nat \ {0}] /\ \A q \in Request \ {r} : next'[q] = next[q]
    BY DEF TypeOK, Alone
  <1>5. newStatus' \in [Request -> POStatus] /\ \A q \in Request \ {r} : newStatus'[q] = newStatus[q]
    BY DEF TypeOK, Alone
  <1>6. QED
    BY <1>1, <1>2, <1>3, <1>4, <1>5

(* A step of r alone keeps the types if it keeps r's, and takes or gives   *)
(* up no row of another request.                                           *)
LEMMA AloneTypes ==
  ASSUME TypeInv, NEW r \in Request, Alone(r),
         rowLock' \in [Product -> Request \cup {None}],
         \A p \in Product : rowLock'[p] = rowLock[p] \/ {rowLock[p], rowLock'[p]} \subseteq {r, None},
         RequestType(r)', FirstLine(r)'
  PROVE  /\ pc' \in [Request -> PC] /\ po' \in [Request -> PO \cup {None}]
         /\ delivery' \in [Request -> Delivery \cup {None}]
         /\ next' \in [Request -> Nat \ {0}] /\ newStatus' \in [Request -> POStatus]
         /\ \A q \in Request : RequestType(q)' /\ FirstLine(q)'
  <1>1. TypeOK
    BY TypeInvIsTypeOK
  <1>2. ASSUME NEW q \in Request \ {r} PROVE RequestType(q)' /\ FirstLine(q)'
    <2>1. RequestType(q) /\ FirstLine(q)
      BY RequestTypes
    <2>2. \A p \in Product : rowLock'[p] = q <=> rowLock[p] = q
      BY <1>2
    <2>3. /\ pc'[q] = pc[q] /\ po'[q] = po[q] /\ delivery'[q] = delivery[q]
          /\ next'[q] = next[q] /\ newStatus'[q] = newStatus[q]
      BY <1>1, <1>2, AloneEffect
    <2>4. Rows(q)' = Rows(q)
      BY <2>3 DEF Rows
    <2>5. {p \in Product : rowLock'[p] = q} = {p \in Product : rowLock[p] = q}
      BY <2>2
    <2>6. QED
      BY <2>1, <2>3, <2>4, <2>5 DEF RequestType, FirstLine
  <1>3. QED
    BY <1>1, <1>2, AloneEffect

(* Requests that nothing changes keep their types.                         *)
LEMMA RequestsKept ==
  ASSUME RequestsTyped, UNCHANGED requests
  PROVE  RequestsTyped'
  BY DEF requests, RequestsTyped, RequestType, FirstLine, Rows

(* The end of a request gives its rows back.                               *)
LEMMA EndEffect ==
  ASSUME TypeInv, NEW r \in Request, End(r)
  PROVE  /\ RequestsTyped'
         /\ pc'[r] = "idle" /\ po'[r] = None /\ delivery'[r] = None
         /\ \A q \in Request \ {r} :
              /\ pc'[q] = pc[q] /\ po'[q] = po[q] /\ delivery'[q] = delivery[q]
              /\ next'[q] = next[q] /\ newStatus'[q] = newStatus[q]
  <1>1. TypeOK
    BY TypeInvIsTypeOK
  <1>2. Alone(r)
    <2>1. /\ "idle" \in PC /\ None \in PO \cup {None} /\ None \in Delivery \cup {None}
          /\ 1 \in Nat \ {0} /\ "ABSENT" \in POStatus
      BY DEF PC, POStatus
    <2>2. \E x \in PC : pc' = [pc EXCEPT ![r] = x]
      BY <2>1 DEF End
    <2>3. \E x \in PO \cup {None} : po' = [po EXCEPT ![r] = x]
      BY <2>1 DEF End
    <2>4. \E x \in Delivery \cup {None} : delivery' = [delivery EXCEPT ![r] = x]
      BY <2>1 DEF End
    <2>5. \E x \in Nat \ {0} : next' = [next EXCEPT ![r] = x]
      BY <2>1 DEF End
    <2>6. \E x \in POStatus : newStatus' = [newStatus EXCEPT ![r] = x]
      BY <2>1 DEF End
    <2>7. QED
      BY <2>2, <2>3, <2>4, <2>5, <2>6 DEF Alone
  <1>3. /\ rowLock' \in [Product -> Request \cup {None}]
        /\ \A p \in Product : rowLock'[p] = IF rowLock[p] = r THEN None ELSE rowLock[p]
    BY <1>1 DEF End, TypeOK
  <1>4. pc'[r] = "idle" /\ po'[r] = None /\ delivery'[r] = None /\ next'[r] = 1 /\ newStatus'[r] = "ABSENT"
    BY <1>1 DEF End, TypeOK
  <1>5. {p \in Product : rowLock'[p] = r} = Rows(r)'
    <2>1. None # r
      OBVIOUS
    <2>2. \A p \in Product : rowLock'[p] # r
      BY <1>3, <2>1
    <2>3. Rows(r)' = {}
      BY <1>4 DEF Rows
    <2>4. QED
      BY <2>2, <2>3
  <1>6. RequestType(r)' /\ FirstLine(r)'
    BY <1>4, <1>5 DEF RequestType, FirstLine, PC, POStatus
  <1>7. QED
    BY <1>1, <1>2, <1>3, <1>4, <1>6, AloneTypes, AloneEffect DEF RequestsTyped

(* The end of r alone keeps the types, whatever its answer tells the form. *)
LEMMA ForgetTypes ==
  ASSUME TypeInv, NEW r \in Request, Forget(r)
  PROVE  awaited' \in [Delivery -> Request \cup {None}]
  BY DEF TypeInv, OthersTyped, Forget

(* The types hold when the behaviour begins.                               *)
LEMMA InitTypes ==
  ASSUME Init
  PROVE  TypeInv
  <1>1. OthersTyped
    BY DEF Init, OthersTyped, POStatus, MatchStatus
  <1>2. /\ rowLock \in [Product -> Request \cup {None}]
        /\ pc \in [Request -> PC] /\ po \in [Request -> PO \cup {None}]
        /\ delivery \in [Request -> Delivery \cup {None}]
        /\ next \in [Request -> Nat \ {0}] /\ newStatus \in [Request -> POStatus]
    BY DEF Init, PC, POStatus
  <1>3. ASSUME NEW r \in Request PROVE RequestType(r) /\ FirstLine(r)
    <2>1. /\ pc[r] = "idle" /\ po[r] = None /\ delivery[r] = None
          /\ next[r] = 1 /\ newStatus[r] = "ABSENT"
      BY DEF Init
    <2>2. None # r
      OBVIOUS
    <2>3. \A p \in Product : rowLock[p] # r
      BY <2>2 DEF Init
    <2>4. {p \in Product : rowLock[p] = r} = Rows(r)
      BY <2>1, <2>3 DEF Rows
    <2>5. QED
      BY <2>1, <2>4 DEF RequestType, FirstLine, PC, POStatus
  <1>4. QED
    BY <1>1, <1>2, <1>3 DEF TypeInv, RequestsTyped

(* The steps that leave the requests alone.                                *)
LEMMA OfficeTypes ==
  ASSUME TypeInv,
         \/ CreateBudget \/ BudgetSubmit
         \/ \E decision \in {"APPROVED", "REJECTED"} : BudgetDecided(decision)
         \/ \E o \in PO : PurchaseOrderCreate(o)
         \/ \E d \in Delivery : LoseConnection(d)
  PROVE  TypeInv'
  <1>1. RequestsTyped /\ OthersTyped
    BY DEF TypeInv
  <1>2. CASE CreateBudget \/ BudgetSubmit \/ \E decision \in {"APPROVED", "REJECTED"} : BudgetDecided(decision)
    <2>1. /\ budget' \in {"ABSENT", "DRAFT", "SUBMITTED", "APPROVED", "REJECTED"}
          /\ UNCHANGED <<poStatus, fulfilled, onHand, grns, sendLogs, mail, invoices, requests, form, history>>
      BY <1>2 DEF CreateBudget, BudgetSubmit, SubmitBudget, BudgetDecided
    <2>2. OthersTyped'
      BY <1>1, <2>1 DEF OthersTyped, mail, invoices, form, history
    <2>3. QED
      BY <1>1, <2>1, <2>2, RequestsKept DEF TypeInv
  <1>3. ASSUME NEW o \in PO, PurchaseOrderCreate(o) PROVE TypeInv'
    <2>1. /\ poStatus' = [poStatus EXCEPT ![o] = "CREATED"]
          /\ UNCHANGED <<budget, fulfilled, onHand, grns, sendLogs, mail, invoices, requests, form, history>>
      BY <1>3 DEF PurchaseOrderCreate, CreatePO
    <2>2. poStatus' \in [PO -> POStatus]
      BY <1>1, <2>1 DEF OthersTyped, POStatus
    <2>3. OthersTyped'
      BY <1>1, <2>1, <2>2 DEF OthersTyped, mail, invoices, form, history
    <2>4. QED
      BY <1>1, <2>1, <2>3, RequestsKept DEF TypeInv
  <1>4. ASSUME NEW d \in Delivery, LoseConnection(d) PROVE TypeInv'
    <2>1. /\ awaited' = [awaited EXCEPT ![d] = None] /\ unsure' = unsure \cup {d}
          /\ UNCHANGED <<documents, mail, invoices, requests, entered, sold, raced, resent, cut>>
      BY <1>4 DEF LoseConnection
    <2>2. awaited' \in [Delivery -> Request \cup {None}] /\ unsure' \in SUBSET Delivery
      BY <1>1, <2>1 DEF OthersTyped
    <2>3. OthersTyped'
      BY <1>1, <2>1, <2>2 DEF OthersTyped, documents, purchase, receipts, mail, invoices
    <2>4. QED
      BY <1>1, <2>1, <2>3, RequestsKept DEF TypeInv
  <1>5. QED
    BY <1>2, <1>3, <1>4

(* A sale keeps the types.                                                 *)
LEMMA SellTypes ==
  ASSUME TypeInv, NEW p \in Product, NEW qty \in 1..MaxSold, Sell(p, qty)
  PROVE  TypeInv'
  <1>1. RequestsTyped /\ OthersTyped /\ qty \in Nat
    BY DEF TypeInv
  <1>2. /\ onHand' = [onHand EXCEPT ![p] = @ - qty] /\ sold' = [sold EXCEPT ![p] = @ + qty]
        /\ UNCHANGED <<budget, poStatus, fulfilled, grns, sendLogs, mail, invoices, requests, form,
                       unsure, raced, resent, cut>>
    BY DEF Sell
  <1>3. onHand' \in [Product -> Int] /\ sold' \in [Product -> Nat]
    BY <1>1, <1>2 DEF OthersTyped
  <1>4. OthersTyped'
    BY <1>1, <1>2, <1>3 DEF OthersTyped, mail, invoices, form
  <1>5. QED
    BY <1>1, <1>2, <1>4, RequestsKept DEF TypeInv

(* An invoice and a decision on its match keep the types.                  *)
LEMMA InvoiceTypes ==
  ASSUME TypeInv, NEW i \in Invoice, EnterInvoice(i) \/ ActOnMatch(i)
  PROVE  TypeInv'
  <1>1. RequestsTyped /\ OthersTyped
    BY DEF TypeInv
  <1>2. CASE EnterInvoice(i)
    <2>1. PICK o \in PO, amount \in Amount : MatchInvoice(i, o, amount)
      BY <1>2 DEF EnterInvoice
    <2>2. amount \in Nat
      OBVIOUS
    <2>3. /\ billed' = [billed EXCEPT ![i] = amount] /\ billedPO' = [billedPO EXCEPT ![i] = o]
          /\ match' = [match EXCEPT ![i] = IF Agrees(o, amount) THEN "MATCHED" ELSE "DISCREPANCY"]
          /\ UNCHANGED <<documents, mail, requests, form, history>>
      BY <2>1 DEF MatchInvoice
    <2>4. billed' \in [Invoice -> Nat]
      BY <1>1, <2>2, <2>3 DEF OthersTyped
    <2>5. billedPO' \in [Invoice -> PO \cup {None}]
      BY <1>1, <2>3 DEF OthersTyped
    <2>6. match' \in [Invoice -> MatchStatus]
      BY <1>1, <2>3 DEF OthersTyped, MatchStatus
    <2>7. OthersTyped'
      BY <1>1, <2>3, <2>4, <2>5, <2>6 DEF OthersTyped, documents, purchase, receipts, mail, form, history
    <2>8. QED
      BY <1>1, <2>3, <2>7, RequestsKept DEF TypeInv
  <1>3. CASE ActOnMatch(i)
    <2>1. PICK new \in {"RESOLVED", "DISPUTED", "ESCALATED"} : SetMatch(i, new)
      BY <1>3 DEF ActOnMatch
    <2>2. /\ match' = [match EXCEPT ![i] = new]
          /\ UNCHANGED <<documents, mail, billed, billedPO, requests, form, history>>
      BY <2>1 DEF SetMatch
    <2>3. match' \in [Invoice -> MatchStatus]
      BY <1>1, <2>2 DEF OthersTyped, MatchStatus
    <2>4. OthersTyped'
      BY <1>1, <2>2, <2>3 DEF OthersTyped, documents, purchase, receipts, mail, form, history
    <2>5. QED
      BY <1>1, <2>2, <2>4, RequestsKept DEF TypeInv
  <1>4. QED
    BY <1>2, <1>3

(* A local that does not change has the value it had.                      *)
LEMMA RestOfLocals ==
  ASSUME TypeInv, NEW r \in Request
  PROVE  /\ UNCHANGED pc => \E x \in PC : pc' = [pc EXCEPT ![r] = x]
         /\ UNCHANGED po => \E x \in PO \cup {None} : po' = [po EXCEPT ![r] = x]
         /\ UNCHANGED delivery => \E x \in Delivery \cup {None} : delivery' = [delivery EXCEPT ![r] = x]
         /\ UNCHANGED next => \E x \in Nat \ {0} : next' = [next EXCEPT ![r] = x]
         /\ UNCHANGED newStatus => \E x \in POStatus : newStatus' = [newStatus EXCEPT ![r] = x]
  <1>1. RequestsTyped
    BY DEF TypeInv
  <1>2. /\ pc[r] \in PC /\ po[r] \in PO \cup {None} /\ delivery[r] \in Delivery \cup {None}
        /\ next[r] \in Nat \ {0} /\ newStatus[r] \in POStatus
    BY <1>1 DEF RequestsTyped
  <1>3. /\ pc = [pc EXCEPT ![r] = pc[r]] /\ po = [po EXCEPT ![r] = po[r]]
        /\ delivery = [delivery EXCEPT ![r] = delivery[r]] /\ next = [next EXCEPT ![r] = next[r]]
        /\ newStatus = [newStatus EXCEPT ![r] = newStatus[r]]
    BY <1>1 DEF RequestsTyped
  <1>4. QED
    BY <1>2, <1>3

(* A request that is started, or goes on, without a change of its rows.    *)
LEMMA RowsKeptTypes ==
  ASSUME TypeInv, NEW r \in Request, Alone(r), UNCHANGED rowLock,
         next'[r] = next[r], delivery'[r] = delivery[r] \/ delivery[r] = None,
         pc'[r] = "idle" <=> po'[r] = None,
         pc'[r] \in {"receiving", "read"} <=> delivery'[r] # None
  PROVE  RequestsTyped'
  <1>1. TypeOK /\ RequestType(r) /\ FirstLine(r)
    BY TypeInvIsTypeOK, RequestTypes
  <1>2. /\ pc' \in [Request -> PC] /\ po' \in [Request -> PO \cup {None}]
        /\ delivery' \in [Request -> Delivery \cup {None}]
        /\ next' \in [Request -> Nat \ {0}] /\ newStatus' \in [Request -> POStatus]
    BY <1>1, AloneEffect
  <1>3. rowLock \in [Product -> Request \cup {None}]
    BY DEF TypeInv, RequestsTyped
  <1>4. Rows(r)' = Rows(r)
    <2>1. CASE delivery'[r] = delivery[r]
      BY <2>1 DEF Rows
    <2>2. CASE delivery[r] = None
      <3>1. next'[r] = 1
        BY <1>1, <2>2 DEF FirstLine
      <3>2. 1..(next'[r] - 1) = {}
        BY <3>1
      <3>3. QED
        BY <2>2, <3>2 DEF Rows
    <2>3. QED
      BY <2>1, <2>2
  <1>5. {p \in Product : rowLock'[p] = r} = Rows(r)'
    BY <1>1, <1>4 DEF RequestType
  <1>6. RequestType(r)' /\ FirstLine(r)'
    BY <1>1, <1>2, <1>5 DEF RequestType, FirstLine
  <1>7. QED
    BY <1>1, <1>3, <1>6, AloneTypes DEF RequestsTyped

(* The beginning of a send keeps the types.                                *)
LEMMA StartSendTypes ==
  ASSUME TypeInv, NEW r \in Request, NEW o \in PO, StartSend(r, o)
  PROVE  TypeInv'
  <1>1. RequestsTyped /\ OthersTyped /\ TypeOK /\ RequestType(r)
    BY TypeInvIsTypeOK, RequestTypes DEF TypeInv
  <1>2. /\ pc[r] = "idle" /\ pc' = [pc EXCEPT ![r] = "sending"] /\ po' = [po EXCEPT ![r] = o]
        /\ UNCHANGED <<documents, mail, invoices, rowLock, delivery, next, newStatus, form, history>>
    BY DEF StartSend
  <1>3. pc'[r] = "sending" /\ po'[r] = o /\ delivery[r] = None /\ o # None
    BY <1>1, <1>2 DEF RequestsTyped, RequestType
  <1>4. Alone(r)
    <2>1. \E x \in PC : pc' = [pc EXCEPT ![r] = x]
      BY <1>2 DEF PC
    <2>2. \E x \in PO \cup {None} : po' = [po EXCEPT ![r] = x]
      BY <1>2
    <2>3. QED
      BY <1>1, <1>2, <2>1, <2>2, RestOfLocals DEF Alone
  <1>5. RequestsTyped'
    BY <1>2, <1>3, <1>4, RowsKeptTypes
  <1>6. OthersTyped'
    BY <1>1, <1>2 DEF OthersTyped, documents, purchase, receipts, mail, invoices, form, history
  <1>7. QED
    BY <1>5, <1>6 DEF TypeInv

(* An e-mail keeps the types.                                              *)
LEMMA EmailTypes ==
  ASSUME TypeInv, NEW r \in Request, Email(r)
  PROVE  TypeInv'
  <1>1. RequestsTyped /\ OthersTyped /\ TypeOK /\ RequestType(r)
    BY TypeInvIsTypeOK, RequestTypes DEF TypeInv
  <1>2. /\ pc[r] = "sending" /\ po[r] \in withEmail /\ pc' = [pc EXCEPT ![r] = "emailed"]
        /\ emails' = [emails EXCEPT ![po[r]] = @ + 1]
        /\ UNCHANGED <<documents, withEmail, invoices, rowLock, po, delivery, next, newStatus, form, history>>
    BY DEF Email
  <1>3. pc'[r] = "emailed" /\ delivery[r] = None /\ po[r] # None
    BY <1>1, <1>2 DEF RequestsTyped, RequestType
  <1>4. Alone(r)
    <2>1. \E x \in PC : pc' = [pc EXCEPT ![r] = x]
      BY <1>2 DEF PC
    <2>2. QED
      BY <1>1, <1>2, <2>1, RestOfLocals DEF Alone
  <1>5. RequestsTyped'
    BY <1>2, <1>3, <1>4, RowsKeptTypes
  <1>6. emails' \in [PO -> Nat]
    BY <1>1, <1>2 DEF OthersTyped
  <1>7. OthersTyped'
    BY <1>1, <1>2, <1>6 DEF OthersTyped, documents, purchase, receipts, mail, invoices, form, history
  <1>8. QED
    BY <1>5, <1>7 DEF TypeInv

(* Saving a send keeps the types.                                          *)
LEMMA SaveSendTypes ==
  ASSUME TypeInv, NEW r \in Request, SaveSend(r)
  PROVE  TypeInv'
  <1>1. RequestsTyped /\ OthersTyped /\ RequestType(r)
    BY RequestTypes DEF TypeInv
  <1>2. /\ \E s \in {"SENT", "MANUAL_CONTACT_REQUIRED"} : poStatus' = [poStatus EXCEPT ![po[r]] = s]
        /\ sendLogs' = [sendLogs EXCEPT ![po[r]] = @ + 1]
        /\ resent' \in {resent, resent \cup {po[r]}}
        /\ End(r) /\ pc[r] # "idle"
        /\ UNCHANGED <<budget, fulfilled, onHand, grns, mail, invoices, form, sold, unsure, raced, cut>>
    BY DEF SaveSend
  <1>3. po[r] \in PO
    BY <1>1, <1>2 DEF RequestType
  <1>4. poStatus' \in [PO -> POStatus]
    BY <1>1, <1>2 DEF OthersTyped, POStatus
  <1>5. sendLogs' \in [PO -> Nat] /\ resent' \in SUBSET PO
    BY <1>1, <1>2, <1>3 DEF OthersTyped
  <1>6. OthersTyped'
    BY <1>1, <1>2, <1>4, <1>5 DEF OthersTyped, mail, invoices, form
  <1>7. QED
    BY <1>2, <1>6, EndEffect DEF TypeInv

(* A GRN that is created keeps the types.                                  *)
LEMMA SubmitTypes ==
  ASSUME TypeInv, NEW r \in Request, NEW d \in Delivery, SubmitGRN(r, d)
  PROVE  TypeInv'
  <1>1. RequestsTyped /\ OthersTyped /\ TypeOK /\ RequestType(r)
    BY TypeInvIsTypeOK, RequestTypes DEF TypeInv
  <1>2. /\ pc[r] = "idle" /\ pc' = [pc EXCEPT ![r] = "receiving"]
        /\ po' = [po EXCEPT ![r] = POOfDelivery(d)]
        /\ delivery' = [delivery EXCEPT ![r] = d]
        /\ awaited' = [awaited EXCEPT ![d] = r]
        /\ UNCHANGED <<documents, mail, invoices, rowLock, next, newStatus, entered, history>>
    BY DEF SubmitGRN
  <1>3. POOfDelivery(d) \in PO /\ d # None /\ POOfDelivery(d) # None
    BY DeliveryTypes
  <1>4. pc'[r] = "receiving" /\ po'[r] = POOfDelivery(d) /\ delivery'[r] = d /\ delivery[r] = None
    BY <1>1, <1>2 DEF RequestsTyped, RequestType
  <1>5. Alone(r)
    <2>1. \E x \in PC : pc' = [pc EXCEPT ![r] = x]
      BY <1>2 DEF PC
    <2>2. \E x \in PO \cup {None} : po' = [po EXCEPT ![r] = x]
      BY <1>2, <1>3
    <2>3. \E x \in Delivery \cup {None} : delivery' = [delivery EXCEPT ![r] = x]
      BY <1>2
    <2>4. QED
      BY <1>1, <1>2, <2>1, <2>2, <2>3, RestOfLocals DEF Alone
  <1>6. RequestsTyped'
    BY <1>2, <1>3, <1>4, <1>5, RowsKeptTypes
  <1>7. awaited' \in [Delivery -> Request \cup {None}]
    BY <1>1, <1>2 DEF OthersTyped
  <1>8. OthersTyped'
    BY <1>1, <1>2, <1>7 DEF OthersTyped, documents, purchase, receipts, mail, invoices, history
  <1>9. QED
    BY <1>6, <1>8 DEF TypeInv

(* A GRN that reads the lines of its PO keeps the types.                   *)
LEMMA ReadTypes ==
  ASSUME TypeInv, NEW r \in Request, ReadLines(r)
  PROVE  TypeInv'
  <1>1. RequestsTyped /\ OthersTyped /\ TypeOK /\ RequestType(r)
    BY TypeInvIsTypeOK, RequestTypes DEF TypeInv
  <1>2. /\ pc[r] = "receiving" /\ pc' = [pc EXCEPT ![r] = "read"]
        /\ newStatus' = [newStatus EXCEPT ![r] = IF AllReceived(r) THEN "RECEIVED" ELSE "PARTIALLY_RECEIVED"]
        /\ raced' \in {raced, raced \cup {po[r]}}
        /\ UNCHANGED <<documents, mail, invoices, rowLock, po, delivery, next, form,
                       sold, unsure, resent, cut>>
    BY DEF ReadLines
  <1>3. pc'[r] = "read" /\ delivery[r] # None /\ po[r] # None /\ po[r] \in PO
    BY <1>1, <1>2 DEF RequestsTyped, RequestType
  <1>4. Alone(r)
    <2>1. \E x \in PC : pc' = [pc EXCEPT ![r] = x]
      BY <1>2 DEF PC
    <2>2. \E x \in POStatus : newStatus' = [newStatus EXCEPT ![r] = x]
      BY <1>2 DEF POStatus
    <2>3. QED
      BY <1>1, <1>2, <2>1, <2>2, RestOfLocals DEF Alone
  <1>5. RequestsTyped'
    BY <1>2, <1>3, <1>4, RowsKeptTypes
  <1>6. raced' \in SUBSET PO
    BY <1>1, <1>2, <1>3 DEF OthersTyped
  <1>7. OthersTyped'
    BY <1>1, <1>2, <1>6 DEF OthersTyped, documents, purchase, receipts, mail, invoices, form
  <1>8. QED
    BY <1>5, <1>7 DEF TypeInv

(* What PostLine works on.                                                 *)
LEMMA NextLine ==
  ASSUME TypeInv, NEW r \in Request, MoreLines(r)
  PROVE  /\ delivery[r] \in Delivery /\ delivery[r] # None
         /\ next[r] \in 1..Len(GRNLines(r))
         /\ GRNLines(r)[next[r]] \in POLine /\ NextProduct(r) \in Product
  <1>1. RequestType(r)
    BY RequestTypes
  <1>2. delivery[r] \in Delivery /\ delivery[r] # None
    BY <1>1 DEF RequestType, MoreLines
  <1>3. next[r] \in 1..Len(GRNLines(r))
    <2>1. GRNLines(r) \in Seq(POLine)
      BY <1>2, DeliveryTypes DEF GRNLines
    <2>2. Len(GRNLines(r)) \in Nat /\ next[r] \in Nat \ {0} /\ next[r] <= Len(GRNLines(r))
      BY <1>1, <2>1 DEF RequestType, MoreLines
    <2>3. QED
      BY <2>2
  <1>4. GRNLines(r)[next[r]] \in POLine
    BY <1>2, <1>3, DeliveryTypes DEF GRNLines
  <1>5. NextProduct(r) \in Product
    BY <1>4 DEF NextProduct
  <1>6. QED
    BY <1>2, <1>3, <1>4, <1>5

(* The products of some lines and one more.                                *)
LEMMA ImageOfUnion ==
  ASSUME NEW S, NEW n, NEW L
  PROVE  {ProductOf[L[i]] : i \in S \cup {n}} = {ProductOf[L[i]] : i \in S} \cup {ProductOf[L[n]]}
  OBVIOUS

(* A GRN that posts a line holds the row of its product from then on.      *)
LEMMA PostLineTypes ==
  ASSUME TypeInv, NEW r \in Request, PostLine(r)
  PROVE  TypeInv'
  <1>1. RequestsTyped /\ OthersTyped /\ TypeOK /\ RequestType(r)
    BY TypeInvIsTypeOK, RequestTypes DEF TypeInv
  <1>2. /\ MoreLines(r) /\ rowLock[NextProduct(r)] = None
        /\ rowLock' = [rowLock EXCEPT ![NextProduct(r)] = r]
        /\ next' = [next EXCEPT ![r] = @ + 1]
        /\ UNCHANGED <<documents, mail, invoices, pc, po, delivery, newStatus, form, history>>
    BY DEF PostLine
  <1>3. /\ delivery[r] \in Delivery /\ delivery[r] # None
        /\ next[r] \in 1..Len(GRNLines(r)) /\ NextProduct(r) \in Product
    BY <1>2, NextLine
  <1>4. Alone(r)
    <2>1. next[r] + 1 \in Nat \ {0} /\ next' = [next EXCEPT ![r] = next[r] + 1]
      BY <1>1, <1>2 DEF RequestType
    <2>2. \E x \in Nat \ {0} : next' = [next EXCEPT ![r] = x]
      BY <2>1
    <2>3. QED
      BY <1>1, <1>2, <2>2, RestOfLocals DEF Alone
  <1>5. /\ rowLock' \in [Product -> Request \cup {None}]
        /\ \A p \in Product : rowLock'[p] = IF p = NextProduct(r) THEN r ELSE rowLock[p]
    BY <1>1, <1>2, <1>3 DEF RequestsTyped
  <1>6. \A p \in Product : rowLock'[p] = rowLock[p] \/ {rowLock[p], rowLock'[p]} \subseteq {r, None}
    BY <1>2, <1>5
  <1>7. /\ pc'[r] = pc[r] /\ po'[r] = po[r] /\ delivery'[r] = delivery[r] /\ newStatus'[r] = newStatus[r]
        /\ next'[r] = next[r] + 1 /\ next[r] \in Nat \ {0}
    BY <1>1, <1>2 DEF RequestsTyped
  <1>8. {p \in Product : rowLock'[p] = r} = Rows(r)'
    <2> DEFINE D == delivery[r]
               n == next[r]
               Lines(k) == {ProductOf[LinesOf[D][i]] : i \in 1..k}
    <2>1. Rows(r) = Lines(n - 1) /\ Rows(r)' = Lines(n)
      <3>1. next'[r] - 1 = n
        BY <1>7
      <3>2. Rows(r) = Lines(next[r] - 1)
        BY <1>3 DEF Rows
      <3>3. Rows(r)' = {ProductOf[LinesOf[delivery'[r]][i]] : i \in 1..(next'[r] - 1)}
        BY <1>3, <1>7 DEF Rows
      <3>4. Rows(r)' = {ProductOf[LinesOf[D][i]] : i \in 1..n}
        <4>1. delivery'[r] = D /\ next'[r] - 1 = n
          BY <1>7, <3>1
        <4>2. QED
          BY <3>3, <4>1
      <3>5. QED
        BY <3>2, <3>4
    <2>2. 1..n = 1..(n - 1) \cup {n}
      BY <1>7
    <2>3. Lines(n) = Lines(n - 1) \cup {NextProduct(r)}
      <3>1. NextProduct(r) = ProductOf[LinesOf[D][n]]
        BY DEF NextProduct, GRNLines
      <3>2. Lines(n) = {ProductOf[LinesOf[D][i]] : i \in 1..(n - 1) \cup {n}}
        BY <2>2
      <3>3. {ProductOf[LinesOf[D][i]] : i \in 1..(n - 1) \cup {n}} = Lines(n - 1) \cup {ProductOf[LinesOf[D][n]]}
        <4> DEFINE L == LinesOf[D]
                   S == 1..(n - 1)
        <4> HIDE DEF L, S
        <4>1. {ProductOf[L[i]] : i \in S \cup {n}} = {ProductOf[L[i]] : i \in S} \cup {ProductOf[L[n]]}
          BY ImageOfUnion
        <4>2. QED
          BY <4>1 DEF L, S
      <3>4. QED
        BY <3>1, <3>2, <3>3
    <2>4. {p \in Product : rowLock[p] = r} = Rows(r)
      BY <1>1 DEF RequestType
    <2>5. {p \in Product : rowLock'[p] = r} = {p \in Product : rowLock[p] = r} \cup {NextProduct(r)}
      BY <1>3, <1>5
    <2>6. QED
      BY <2>1, <2>3, <2>4, <2>5
  <1>9. RequestType(r)' /\ FirstLine(r)'
    <2>1. next'[r] \in Nat \ {0}
      BY <1>7
    <2>2. QED
      BY <1>1, <1>3, <1>7, <1>8, <2>1 DEF RequestType, FirstLine
  <1>10. RequestsTyped'
    BY <1>4, <1>5, <1>6, <1>9, AloneTypes DEF RequestsTyped
  <1>11. OthersTyped'
    BY <1>1, <1>2 DEF OthersTyped, documents, purchase, receipts, mail, invoices, form, history
  <1>12. QED
    BY <1>10, <1>11 DEF TypeInv

(* A GRN that fails holds no row any more.                                 *)
LEMMA FailTypes ==
  ASSUME TypeInv, NEW r \in Request, RaiseInsufficient(r) \/ Abort(r)
  PROVE  TypeInv'
  <1>1. RequestsTyped /\ OthersTyped /\ RequestType(r)
    BY RequestTypes DEF TypeInv
  <1>2. /\ Forget(r) /\ End(r) /\ pc[r] # "idle"
        /\ cut' \in {cut, cut \cup {po[r]}}
        /\ UNCHANGED <<documents, mail, invoices, entered, sold, unsure, raced, resent>>
    BY DEF RaiseInsufficient, Abort, MoreLines
  <1>3. po[r] \in PO
    BY <1>1, <1>2 DEF RequestType
  <1>4. cut' \in SUBSET PO
    BY <1>1, <1>2, <1>3 DEF OthersTyped
  <1>5. awaited' \in [Delivery -> Request \cup {None}]
    BY <1>2, ForgetTypes
  <1>6. OthersTyped'
    BY <1>1, <1>2, <1>4, <1>5 DEF OthersTyped, documents, purchase, receipts, mail, invoices
  <1>7. QED
    BY <1>2, <1>6, EndEffect DEF TypeInv

(* A GRN that commits holds no row any more.                               *)
LEMMA PostGRNTypes ==
  ASSUME TypeInv, NEW r \in Request, PostGRN(r)
  PROVE  TypeInv'
  <1>1. RequestsTyped /\ OthersTyped /\ RequestType(r)
    BY RequestTypes DEF TypeInv
  <1>2. /\ pc[r] = "read" /\ Forget(r) /\ End(r)
        /\ fulfilled' = [l \in POLine |-> IF l \in ToSet(GRNLines(r)) THEN fulfilled[l] + 1 ELSE fulfilled[l]]
        /\ onHand' = [p \in Product |->
                        onHand[p] + IF \E l \in ToSet(GRNLines(r)) : ProductOf[l] = p THEN 1 ELSE 0]
        /\ grns' = [grns EXCEPT ![delivery[r]] = @ + 1]
        /\ entered' = IF awaited[delivery[r]] = r THEN entered \cup {delivery[r]} ELSE entered
        /\ poStatus' = [poStatus EXCEPT ![po[r]] = newStatus[r]]
        /\ UNCHANGED <<budget, sendLogs, mail, invoices, history>>
    BY DEF PostGRN
  <1>3. delivery[r] \in Delivery /\ po[r] \in PO /\ newStatus[r] \in POStatus
    BY <1>1, <1>2 DEF RequestType
  <1>4. poStatus' \in [PO -> POStatus] /\ entered' \in SUBSET Delivery
    BY <1>1, <1>2, <1>3 DEF OthersTyped
  <1>5. fulfilled' \in [POLine -> Nat]
    <2>1. \A l \in POLine : fulfilled[l] \in Nat /\ fulfilled[l] + 1 \in Nat
      BY <1>1 DEF OthersTyped
    <2>2. QED
      BY <1>2, <2>1
  <1>6. onHand' \in [Product -> Int]
    <2> DEFINE gain(p) == IF \E l \in ToSet(GRNLines(r)) : ProductOf[l] = p THEN 1 ELSE 0
    <2>1. \A p \in Product : onHand[p] \in Int /\ gain(p) \in Int
      BY <1>1 DEF OthersTyped
    <2>2. onHand' = [p \in Product |-> onHand[p] + gain(p)]
      BY <1>2
    <2> HIDE DEF gain
    <2>3. QED
      BY <2>1, <2>2
  <1>7. grns' \in [Delivery -> Nat]
    <2>1. grns[delivery[r]] + 1 \in Nat
      <3>1. \A d \in Delivery : grns[d] \in Nat
        BY <1>1 DEF OthersTyped
      <3>2. grns[delivery[r]] \in Nat
        BY <1>3, <3>1
      <3>3. QED
        BY <3>2
    <2>2. QED
      BY <1>1, <1>2, <2>1 DEF OthersTyped
  <1>8. awaited' \in [Delivery -> Request \cup {None}]
    BY <1>2, ForgetTypes
  <1>9. OthersTyped'
    BY <1>1, <1>2, <1>4, <1>5, <1>6, <1>7, <1>8 DEF OthersTyped, mail, invoices, history
  <1>10. QED
    BY <1>2, <1>9, EndEffect DEF TypeInv

(* Every step keeps the types.                                             *)
LEMMA TypeStep ==
  ASSUME TypeInv, [Next]_vars
  PROVE  TypeInv'
  <1>1. CASE UNCHANGED vars
    <2>1. RequestsTyped /\ OthersTyped
      BY DEF TypeInv
    <2>2. UNCHANGED <<documents, mail, invoices, requests, form, history>>
      BY <1>1 DEF vars
    <2>3. OthersTyped'
      BY <2>1, <2>2 DEF OthersTyped, documents, purchase, receipts, mail, invoices, form, history
    <2>4. QED
      BY <2>1, <2>2, <2>3, RequestsKept DEF TypeInv
  <1>2. CASE Next
    <2>1. CASE \/ CreateBudget \/ BudgetSubmit
               \/ \E decision \in {"APPROVED", "REJECTED"} : BudgetDecided(decision)
               \/ \E o \in PO : PurchaseOrderCreate(o)
               \/ \E d \in Delivery : LoseConnection(d)
      BY <2>1, OfficeTypes
    <2>2. CASE \E p \in Product, qty \in 1..MaxSold : Sell(p, qty)
      BY <2>2, SellTypes
    <2>3. CASE \E i \in Invoice : EnterInvoice(i) \/ ActOnMatch(i)
      BY <2>3, InvoiceTypes
    <2>4. CASE \E r \in Request, o \in PO : StartSend(r, o)
      BY <2>4, StartSendTypes
    <2>5. CASE \E r \in Request, d \in Delivery : SubmitGRN(r, d)
      BY <2>5, SubmitTypes
    <2>6. CASE \E r \in Request : Step(r) \/ Abort(r)
      BY <2>6, EmailTypes, SaveSendTypes, PostLineTypes, FailTypes, ReadTypes, PostGRNTypes DEF Step
    <2>7. QED
      BY <1>2, <2>1, <2>2, <2>3, <2>4, <2>5, <2>6 DEF Next
  <1>3. QED
    BY <1>1, <1>2

(* Every variable has its type, and a request holds the rows of the lines  *)
(* it has posted, no more (post_movements' select_for_update).             *)
THEOREM TypeCorrect == Spec => []TypeOK
  <1>1. Init => TypeInv
    BY InitTypes
  <1>2. TypeInv /\ [Next]_vars => TypeInv'
    BY TypeStep
  <1>3. TypeInv => TypeOK
    BY TypeInvIsTypeOK
  <1>4. QED
    BY <1>1, <1>2, <1>3, PTL DEF Spec

-----------------------------------------------------------------------------
(* A step of one request.                                                  *)
RequestStep(r) ==
  \/ \E o \in PO : StartSend(r, o) \/ \E d \in Delivery : SubmitGRN(r, d)
  \/ Step(r) \/ Abort(r)

(* It leaves the locals of the others alone.                               *)
LEMMA OneRequest ==
  ASSUME TypeInv, NEW r \in Request, RequestStep(r)
  PROVE  \A q \in Request \ {r} :
           /\ pc'[q] = pc[q] /\ po'[q] = po[q] /\ delivery'[q] = delivery[q]
           /\ next'[q] = next[q] /\ newStatus'[q] = newStatus[q]
  <1>1. /\ pc \in [Request -> PC] /\ po \in [Request -> PO \cup {None}]
        /\ delivery \in [Request -> Delivery \cup {None}]
        /\ next \in [Request -> Nat \ {0}] /\ newStatus \in [Request -> POStatus]
    BY DEF TypeInv, RequestsTyped
  <1>2. CASE \E o \in PO : StartSend(r, o)
    BY <1>1, <1>2 DEF StartSend
  <1>3. CASE \E d \in Delivery : SubmitGRN(r, d)
    BY <1>1, <1>3 DEF SubmitGRN
  <1>4. CASE Email(r)
    BY <1>1, <1>4 DEF Email
  <1>5. CASE PostLine(r)
    BY <1>1, <1>5 DEF PostLine
  <1>6. CASE ReadLines(r)
    BY <1>1, <1>6 DEF ReadLines
  <1>7. CASE SaveSend(r) \/ RaiseInsufficient(r) \/ PostGRN(r) \/ Abort(r)
    <2>1. End(r)
      BY <1>7 DEF SaveSend, RaiseInsufficient, PostGRN, Abort
    <2>2. QED
      BY <2>1, EndEffect
  <1>8. QED
    BY <1>2, <1>3, <1>4, <1>5, <1>6, <1>7 DEF RequestStep, Step

(* What the step is, by what the request does.                             *)
LEMMA StepKinds ==
  ASSUME [Next]_vars
  PROVE  \/ UNCHANGED vars
         \/ \E r \in Request : RequestStep(r)
         \/ CreateBudget \/ BudgetSubmit
         \/ \E decision \in {"APPROVED", "REJECTED"} : BudgetDecided(decision)
         \/ \E o \in PO : PurchaseOrderCreate(o)
         \/ \E d \in Delivery : LoseConnection(d)
         \/ \E p \in Product, qty \in 1..MaxSold : Sell(p, qty)
         \/ \E i \in Invoice : EnterInvoice(i) \/ ActOnMatch(i)
  BY DEF Next, RequestStep

(* The requests whose e-mail about o is out and not yet on record.         *)
Emailed(o) == {r \in Request : pc[r] = "emailed" /\ po[r] = o}

(* A step of one request adds or takes one to the e-mails under way.       *)
LEMMA EmailedSteps ==
  ASSUME TypeInv, NEW r \in Request, NEW o,
         \A q \in Request \ {r} : pc'[q] = pc[q] /\ po'[q] = po[q]
  PROVE  /\ IsFiniteSet(Emailed(o)) /\ Cardinality(Emailed(o)) \in Nat
         /\ (r \in Emailed(o) <=> r \in Emailed(o)') => Cardinality(Emailed(o))' = Cardinality(Emailed(o))
         /\ r \notin Emailed(o) /\ r \in Emailed(o)' =>
              Cardinality(Emailed(o))' = Cardinality(Emailed(o)) + 1
         /\ r \in Emailed(o) /\ r \notin Emailed(o)' =>
              Cardinality(Emailed(o))' = Cardinality(Emailed(o)) - 1
  <1>1. Emailed(o) \subseteq Request /\ IsFiniteSet(Request)
    BY DEF Emailed
  <1>2. IsFiniteSet(Emailed(o)) /\ Cardinality(Emailed(o)) \in Nat
    BY <1>1, FS_Subset, FS_CardinalityType
  <1>3. \A q \in Request \ {r} : q \in Emailed(o) <=> q \in Emailed(o)'
    BY DEF Emailed
  <1>4. Emailed(o)' \subseteq Request
    BY DEF Emailed
  <1>5. CASE r \in Emailed(o) <=> r \in Emailed(o)'
    <2>1. \A q \in Request : q \in Emailed(o) <=> q \in Emailed(o)'
      BY <1>3, <1>5
    <2>2. Emailed(o)' = Emailed(o)
      BY <1>1, <1>4, <2>1
    <2>3. QED
      BY <1>2, <1>5, <2>2
  <1>6. CASE r \notin Emailed(o) /\ r \in Emailed(o)'
    <2>1. Emailed(o)' = Emailed(o) \cup {r}
      BY <1>1, <1>3, <1>4, <1>6
    <2>2. Cardinality(Emailed(o) \cup {r}) = Cardinality(Emailed(o)) + 1
      BY <1>2, <1>6, FS_AddElement
    <2>3. QED
      BY <1>2, <1>6, <2>1, <2>2
  <1>7. CASE r \in Emailed(o) /\ r \notin Emailed(o)'
    <2>1. Emailed(o)' = Emailed(o) \ {r}
      BY <1>1, <1>3, <1>4, <1>7
    <2>2. Cardinality(Emailed(o) \ {r}) = Cardinality(Emailed(o)) - 1
      BY <1>2, <1>7, FS_RemoveElement
    <2>3. QED
      BY <1>2, <1>7, <2>1, <2>2
  <1>8. QED
    BY <1>2, <1>5, <1>6, <1>7

(* No e-mail is under way when the behaviour begins.                       *)
LEMMA EmailInit ==
  ASSUME Init
  PROVE  EmailsAreOnRecord
  <1> SUFFICES ASSUME NEW o \in withEmail \ cut
               PROVE  emails[o] = sendLogs[o] + Cardinality(Emailed(o))
    BY DEF EmailsAreOnRecord, Emailed
  <1>1. emails[o] = 0 /\ sendLogs[o] = 0 /\ Emailed(o) = {}
    BY DEF Init, Emailed
  <1>2. Cardinality({}) = 0
    BY FS_EmptySet
  <1>3. QED
    BY <1>1, <1>2

(* Every step keeps the e-mails on record, or under way.                   *)
LEMMA EmailStep ==
  ASSUME TypeInv, EmailsAreOnRecord, [Next]_vars
  PROVE  EmailsAreOnRecord'
  <1>1. OthersTyped
    BY DEF TypeInv
  <1> SUFFICES ASSUME NEW o \in withEmail', o \notin cut'
               PROVE  emails'[o] = sendLogs'[o] + Cardinality(Emailed(o))'
    BY DEF EmailsAreOnRecord, Emailed
  <1>2. withEmail' = withEmail /\ cut \subseteq cut'
    BY StepKinds DEF vars, RequestStep, Step, StartSend, SubmitGRN, Email, SaveSend, PostLine,
         RaiseInsufficient, ReadLines, PostGRN, Abort, CreateBudget, BudgetSubmit, SubmitBudget,
         BudgetDecided, PurchaseOrderCreate, CreatePO, LoseConnection, Sell, EnterInvoice, MatchInvoice,
         ActOnMatch, SetMatch, mail, history
  <1>3. /\ o \in PO /\ o \in withEmail /\ o \notin cut
        /\ emails[o] = sendLogs[o] + Cardinality(Emailed(o))
        /\ emails[o] \in Nat /\ sendLogs[o] \in Nat
    BY <1>1, <1>2 DEF OthersTyped, EmailsAreOnRecord, Emailed
  <1>4. CASE UNCHANGED <<pc, po, emails, sendLogs>>
    BY <1>3, <1>4 DEF Emailed
  <1>5. ASSUME NEW r \in Request, RequestStep(r)
        PROVE  emails'[o] = sendLogs'[o] + Cardinality(Emailed(o))'
    <2>1. /\ pc \in [Request -> PC] /\ po \in [Request -> PO \cup {None}] /\ po[r] \in PO \cup {None}
          /\ emails \in [PO -> Nat] /\ sendLogs \in [PO -> Nat]
      BY <1>1 DEF TypeInv, RequestsTyped, OthersTyped
    <2>2. /\ Cardinality(Emailed(o)) \in Nat
          /\ (r \in Emailed(o) <=> r \in Emailed(o)') => Cardinality(Emailed(o))' = Cardinality(Emailed(o))
          /\ r \notin Emailed(o) /\ r \in Emailed(o)' =>
               Cardinality(Emailed(o))' = Cardinality(Emailed(o)) + 1
          /\ r \in Emailed(o) /\ r \notin Emailed(o)' =>
               Cardinality(Emailed(o))' = Cardinality(Emailed(o)) - 1
      BY <1>5, OneRequest, EmailedSteps
    <2>3. /\ r \in Emailed(o) <=> pc[r] = "emailed" /\ po[r] = o
          /\ r \in Emailed(o)' <=> pc'[r] = "emailed" /\ po'[r] = o
      BY DEF Emailed
    <2>4. CASE Email(r)
      <3>1. /\ pc[r] = "sending" /\ pc'[r] = "emailed" /\ po' = po /\ sendLogs' = sendLogs
            /\ emails'[o] = IF po[r] = o THEN emails[o] + 1 ELSE emails[o]
        BY <1>3, <2>1, <2>4 DEF Email, documents, purchase
      <3>2. CASE po[r] = o
        <4>1. emails'[o] = emails[o] + 1 /\ Cardinality(Emailed(o))' = Cardinality(Emailed(o)) + 1
          BY <2>2, <2>3, <3>1, <3>2
        <4>2. sendLogs'[o] = sendLogs[o]
          BY <3>1
        <4>3. /\ Cardinality(Emailed(o)) \in Nat /\ sendLogs[o] \in Nat
              /\ emails[o] = sendLogs[o] + Cardinality(Emailed(o))
          BY <1>3, <2>2
        <4> DEFINE c == Cardinality(Emailed(o))
                   n == Cardinality(Emailed(o))'
        <4> HIDE DEF c, n
        <4>4. /\ emails'[o] = emails[o] + 1 /\ n = c + 1 /\ sendLogs'[o] = sendLogs[o]
              /\ c \in Nat /\ sendLogs[o] \in Nat /\ emails[o] = sendLogs[o] + c
          BY <4>1, <4>2, <4>3 DEF c, n
        <4>5. emails'[o] = sendLogs[o] + (c + 1)
          <5>1. \A a, b \in Nat : (a + b) + 1 = a + (b + 1)
            OBVIOUS
          <5>2. emails'[o] = (sendLogs[o] + c) + 1
            BY <4>4
          <5>3. QED
            BY <4>4, <5>1, <5>2
        <4>6. emails'[o] = sendLogs'[o] + n
          BY <4>4, <4>5
        <4>7. QED
          BY <4>6 DEF n
      <3>3. CASE po[r] # o
        <4>1. emails'[o] = emails[o] /\ Cardinality(Emailed(o))' = Cardinality(Emailed(o))
          BY <2>2, <2>3, <3>1, <3>3
        <4>2. QED
          BY <1>3, <3>1, <4>1
      <3>4. QED
        BY <3>2, <3>3
    <2>5. CASE SaveSend(r)
      <3>1. /\ pc[r] = "emailed" \/ (pc[r] = "sending" /\ po[r] \notin withEmail)
            /\ emails' = emails /\ End(r)
            /\ sendLogs' = [sendLogs EXCEPT ![po[r]] = @ + 1]
        <4>1. UNCHANGED mail
          BY <2>5 DEF SaveSend
        <4>2. pc[r] = "emailed" \/ (pc[r] = "sending" /\ po[r] \notin withEmail)
          BY <2>5 DEF SaveSend
        <4>3. End(r) /\ sendLogs' = [sendLogs EXCEPT ![po[r]] = @ + 1]
          BY <2>5 DEF SaveSend
        <4>4. QED
          BY <4>1, <4>2, <4>3 DEF mail
      <3>2. pc'[r] = "idle"
        BY <3>1, EndEffect
      <3>3. sendLogs'[o] = IF po[r] = o THEN sendLogs[o] + 1 ELSE sendLogs[o]
        BY <1>3, <2>1, <3>1
      <3>4. CASE po[r] = o
        <4>1. pc[r] = "emailed"
          BY <1>3, <3>1, <3>4
        <4>2. sendLogs'[o] = sendLogs[o] + 1 /\ Cardinality(Emailed(o))' = Cardinality(Emailed(o)) - 1
          BY <2>2, <2>3, <3>2, <3>3, <3>4, <4>1
        <4>3. QED
          BY <1>3, <2>2, <3>1, <4>2
      <3>5. CASE po[r] # o
        <4>1. sendLogs'[o] = sendLogs[o] /\ Cardinality(Emailed(o))' = Cardinality(Emailed(o))
          BY <2>2, <2>3, <3>2, <3>3, <3>5
        <4>2. QED
          BY <1>3, <3>1, <4>1
      <3>6. QED
        BY <3>4, <3>5
    <2>6. CASE Abort(r)
      <3>1. End(r) /\ UNCHANGED <<emails, sendLogs>> /\ (pc[r] = "emailed" => po[r] \in cut')
        BY <2>6 DEF Abort, documents, purchase, mail
      <3>2. pc'[r] = "idle"
        BY <3>1, EndEffect
      <3>3. r \notin Emailed(o) /\ r \notin Emailed(o)'
        BY <2>3, <3>1, <3>2
      <3>4. QED
        BY <1>3, <2>2, <3>1, <3>3
    <2>7. CASE \/ \E q \in PO : StartSend(r, q) \/ \E d \in Delivery : SubmitGRN(r, d)
               \/ PostLine(r) \/ RaiseInsufficient(r) \/ ReadLines(r) \/ PostGRN(r)
      <3>1. UNCHANGED <<emails, sendLogs>>
        BY <2>7 DEF StartSend, SubmitGRN, PostLine, RaiseInsufficient, ReadLines, PostGRN,
             documents, purchase, mail
      <3>2. pc[r] # "emailed"
        BY <2>7 DEF StartSend, SubmitGRN, PostLine, RaiseInsufficient, ReadLines, PostGRN, MoreLines
      <3>3. pc'[r] # "emailed"
        <4>1. CASE RaiseInsufficient(r) \/ PostGRN(r)
          <5>1. End(r)
            BY <4>1 DEF RaiseInsufficient, PostGRN
          <5>2. QED
            BY <5>1, EndEffect
        <4>2. CASE \/ \E q \in PO : StartSend(r, q) \/ \E d \in Delivery : SubmitGRN(r, d)
                   \/ PostLine(r) \/ ReadLines(r)
          BY <2>1, <3>2, <4>2 DEF StartSend, SubmitGRN, PostLine, ReadLines
        <4>3. QED
          BY <2>7, <4>1, <4>2
      <3>4. QED
        BY <1>3, <2>2, <2>3, <3>1, <3>2, <3>3
    <2>8. QED
      BY <1>5, <2>4, <2>5, <2>6, <2>7 DEF RequestStep, Step
  <1>6. CASE ~\E r \in Request : RequestStep(r)
    <2>1. UNCHANGED <<pc, po, emails, sendLogs>>
      BY <1>6, StepKinds DEF vars, CreateBudget, BudgetSubmit, SubmitBudget,
         BudgetDecided, PurchaseOrderCreate, CreatePO, LoseConnection, Sell, EnterInvoice, MatchInvoice,
         ActOnMatch, SetMatch, mail, requests, documents, purchase
    <2>2. QED
      BY <1>4, <2>1
  <1>7. QED
    BY <1>5, <1>6

(* An e-mail to a supplier is on record, or a request is still recording   *)
(* it, unless a transaction of its PO failed after its e-mail had left     *)
(* (send_po, services.py:168-177).                                         *)
THEOREM EmailsRecorded == Spec => []EmailsAreOnRecord
  <1>1. Init => TypeInv /\ EmailsAreOnRecord
    BY InitTypes, EmailInit
  <1>2. TypeInv /\ EmailsAreOnRecord /\ [Next]_vars => TypeInv' /\ EmailsAreOnRecord'
    BY TypeStep, EmailStep
  <1>3. QED
    BY <1>1, <1>2, PTL DEF Spec

-----------------------------------------------------------------------------
(* What a step makes of its request.                                       *)
LEMMA OwnLocals ==
  ASSUME TypeInv, NEW r \in Request, RequestStep(r)
  PROVE  \/ pc'[r] = "idle" /\ po'[r] = None /\ delivery'[r] = None
         \/ /\ pc'[r] = "sending" /\ delivery'[r] = None
            /\ po'[r] \in PO /\ poStatus[po'[r]] # "ABSENT"
         \/ /\ pc'[r] = "emailed" /\ delivery'[r] = None
            /\ pc[r] = "sending" /\ po'[r] = po[r]
         \/ \E d \in Delivery :
              /\ SubmitGRN(r, d) /\ pc'[r] = "receiving" /\ delivery'[r] = d
              /\ po'[r] = POOfDelivery(d) /\ poStatus[po'[r]] # "ABSENT"
         \/ /\ pc'[r] = "receiving" /\ pc[r] = "receiving"
            /\ po'[r] = po[r] /\ delivery'[r] = delivery[r]
         \/ /\ ReadLines(r) /\ pc'[r] = "read" /\ pc[r] = "receiving"
            /\ po'[r] = po[r] /\ delivery'[r] = delivery[r]
            /\ newStatus'[r] = IF AllReceived(r) THEN "RECEIVED" ELSE "PARTIALLY_RECEIVED"
  <1>1. /\ pc \in [Request -> PC] /\ po \in [Request -> PO \cup {None}]
        /\ delivery \in [Request -> Delivery \cup {None}]
        /\ next \in [Request -> Nat \ {0}] /\ newStatus \in [Request -> POStatus]
    BY DEF TypeInv, RequestsTyped
  <1>2. RequestType(r)
    BY RequestTypes
  <1>3. ASSUME NEW o \in PO, StartSend(r, o)
        PROVE  /\ pc'[r] = "sending" /\ delivery'[r] = None
               /\ po'[r] \in PO /\ poStatus[po'[r]] # "ABSENT"
    BY <1>1, <1>2, <1>3 DEF StartSend, RequestType
  <1>4. ASSUME NEW d \in Delivery, SubmitGRN(r, d)
        PROVE  /\ SubmitGRN(r, d) /\ pc'[r] = "receiving" /\ delivery'[r] = d
               /\ po'[r] = POOfDelivery(d) /\ poStatus[po'[r]] # "ABSENT"
    BY <1>1, <1>4, DeliveryTypes DEF SubmitGRN
  <1>5. CASE Email(r)
    BY <1>1, <1>2, <1>5 DEF Email, RequestType
  <1>6. CASE PostLine(r)
    BY <1>1, <1>6 DEF PostLine, MoreLines
  <1>7. CASE ReadLines(r)
    BY <1>1, <1>7 DEF ReadLines
  <1>8. CASE SaveSend(r) \/ RaiseInsufficient(r) \/ PostGRN(r) \/ Abort(r)
    <2>1. End(r)
      BY <1>8 DEF SaveSend, RaiseInsufficient, PostGRN, Abort
    <2>2. QED
      BY <2>1, EndEffect
  <1>9. QED
    BY <1>3, <1>4, <1>5, <1>6, <1>7, <1>8 DEF RequestStep, Step

(* The locals of the requests stay as they are in the other steps.         *)
LEMMA OtherSteps ==
  ASSUME [Next]_vars, ~\E r \in Request : RequestStep(r)
  PROVE  UNCHANGED <<requests, fulfilled, grns, entered, raced, resent>>
  BY StepKinds DEF vars, CreateBudget, BudgetSubmit, SubmitBudget, BudgetDecided, PurchaseOrderCreate,
     CreatePO, LoseConnection, Sell, EnterInvoice, MatchInvoice, ActOnMatch, SetMatch,
     documents, purchase, receipts, form, history

(* Only a GRN that is posted changes what was received.                    *)
LEMMA OnlyPostGRN ==
  ASSUME [Next]_vars, ~\E r \in Request : PostGRN(r)
  PROVE  UNCHANGED <<fulfilled, grns, entered>>
  <1>1. ASSUME NEW r \in Request, RequestStep(r) PROVE UNCHANGED <<fulfilled, grns, entered>>
    BY <1>1 DEF RequestStep, Step, StartSend, SubmitGRN, Email, SaveSend, PostLine, RaiseInsufficient,
       ReadLines, Abort, documents, purchase, receipts, form
  <1>2. QED
    BY <1>1, OtherSteps

(* The status changes when the PO is created or sent, or goods come in.    *)
LEMMA OnlyStatus ==
  ASSUME [Next]_vars
  PROVE  \/ UNCHANGED poStatus
         \/ \E o \in PO : PurchaseOrderCreate(o)
         \/ \E r \in Request : SaveSend(r) \/ PostGRN(r)
  <1>1. ASSUME NEW r \in Request, RequestStep(r)
        PROVE  UNCHANGED poStatus \/ SaveSend(r) \/ PostGRN(r)
    BY <1>1 DEF RequestStep, Step, StartSend, SubmitGRN, Email, PostLine, RaiseInsufficient,
       ReadLines, Abort, documents, purchase
  <1>2. QED
    BY <1>1, StepKinds DEF vars, CreateBudget, BudgetSubmit, SubmitBudget, BudgetDecided,
     LoseConnection, Sell, EnterInvoice, MatchInvoice, ActOnMatch, SetMatch, documents, purchase

(* What PostGRN does to the documents.                                     *)
LEMMA PostGRNEffect ==
  ASSUME TypeInv, NEW r \in Request, PostGRN(r)
  PROVE  /\ pc[r] = "read" /\ delivery[r] \in Delivery /\ po[r] \in PO
         /\ grns'[delivery[r]] = grns[delivery[r]] + 1 /\ grns[delivery[r]] \in Nat
         /\ \A d \in Delivery : d # delivery[r] => grns'[d] = grns[d]
         /\ poStatus'[po[r]] = newStatus[r]
         /\ \A o \in PO : o # po[r] => poStatus'[o] = poStatus[o]
         /\ \A l \in POLine :
              fulfilled'[l] = IF l \in ToSet(GRNLines(r)) THEN fulfilled[l] + 1 ELSE fulfilled[l]
         /\ entered' = IF awaited[delivery[r]] = r THEN entered \cup {delivery[r]} ELSE entered
         /\ Forget(r) /\ End(r) /\ UNCHANGED <<raced, resent, sold, unsure>>
  <1>1. RequestType(r) /\ OthersTyped
    BY RequestTypes DEF TypeInv
  <1>2. /\ pc[r] = "read" /\ Forget(r) /\ End(r)
        /\ fulfilled' = [l \in POLine |-> IF l \in ToSet(GRNLines(r)) THEN fulfilled[l] + 1 ELSE fulfilled[l]]
        /\ grns' = [grns EXCEPT ![delivery[r]] = @ + 1]
        /\ entered' = IF awaited[delivery[r]] = r THEN entered \cup {delivery[r]} ELSE entered
        /\ poStatus' = [poStatus EXCEPT ![po[r]] = newStatus[r]]
        /\ UNCHANGED <<raced, resent, sold, unsure>>
    BY DEF PostGRN, history
  <1>3. delivery[r] \in Delivery /\ po[r] \in PO
    BY <1>1, <1>2 DEF RequestType
  <1>4. grns \in [Delivery -> Nat] /\ poStatus \in [PO -> POStatus]
    BY <1>1 DEF OthersTyped
  <1>5. /\ grns'[delivery[r]] = grns[delivery[r]] + 1
        /\ \A d \in Delivery : d # delivery[r] => grns'[d] = grns[d]
    BY <1>2, <1>3, <1>4
  <1>6. grns[delivery[r]] \in Nat
    BY <1>3, <1>4
  <1>7. /\ poStatus'[po[r]] = newStatus[r]
        /\ \A o \in PO : o # po[r] => poStatus'[o] = poStatus[o]
    BY <1>2, <1>3, <1>4
  <1>8. QED
    BY <1>2, <1>3, <1>5, <1>6, <1>7

-----------------------------------------------------------------------------
(* A request works on a PO that exists, that of its delivery, and goods    *)
(* come in for a PO that exists.                                           *)
RequestKnown(r) ==
  /\ pc[r] # "idle" => poStatus[po[r]] # "ABSENT"
  /\ delivery[r] # None => po[r] = POOfDelivery(delivery[r])
  /\ pc[r] = "read" => newStatus[r] \in {"RECEIVED", "PARTIALLY_RECEIVED"}

Recorded ==
  /\ \A r \in Request : RequestKnown(r)
  /\ \A d \in Delivery : grns[d] > 0 => poStatus[POOfDelivery(d)] # "ABSENT"

(* No request knows anything when the behaviour begins.                    *)
LEMMA RecordedInit == Init => Recorded
  BY DeliveryTypes DEF Init, Recorded, RequestKnown

(* A PO that exists goes on existing.                                      *)
LEMMA StaysRecorded ==
  ASSUME TypeInv, Recorded, [Next]_vars, NEW o \in PO, poStatus[o] # "ABSENT"
  PROVE  poStatus'[o] # "ABSENT"
  <1>1. poStatus \in [PO -> POStatus]
    BY DEF TypeInv, OthersTyped
  <1>2. CASE UNCHANGED poStatus
    BY <1>2
  <1>3. ASSUME NEW q \in PO, PurchaseOrderCreate(q) PROVE poStatus'[o] # "ABSENT"
    BY <1>1, <1>3 DEF PurchaseOrderCreate, CreatePO
  <1>4. ASSUME NEW r \in Request, SaveSend(r) PROVE poStatus'[o] # "ABSENT"
    BY <1>1, <1>4 DEF SaveSend
  <1>5. ASSUME NEW r \in Request, PostGRN(r) PROVE poStatus'[o] # "ABSENT"
    <2>1. newStatus[r] \in {"RECEIVED", "PARTIALLY_RECEIVED"}
      BY <1>5, PostGRNEffect DEF Recorded, RequestKnown
    <2>2. QED
      BY <1>5, <2>1, PostGRNEffect
  <1>6. QED
    BY <1>2, <1>3, <1>4, <1>5, OnlyStatus

(* What a request knows of its PO and its delivery stays true.             *)
LEMMA RecordedStep ==
  ASSUME TypeInv, Recorded, [Next]_vars
  PROVE  Recorded'
  <1>1. ASSUME NEW r \in Request, pc'[r] = pc[r], po'[r] = po[r], delivery'[r] = delivery[r],
               newStatus'[r] = newStatus[r]
        PROVE  RequestKnown(r)'
    <2>1. RequestType(r) /\ RequestKnown(r)
      BY RequestTypes DEF Recorded
    <2>2. pc[r] # "idle" => po[r] \in PO /\ poStatus'[po[r]] # "ABSENT"
      BY <2>1, StaysRecorded DEF RequestKnown, RequestType
    <2>3. QED
      BY <1>1, <2>1, <2>2 DEF RequestKnown
  <1>2. ASSUME NEW r \in Request, RequestStep(r) PROVE RequestKnown(r)'
    <2>1. RequestType(r) /\ RequestKnown(r)
      BY RequestTypes DEF Recorded
    <2>2. pc[r] # "idle" => po[r] \in PO /\ poStatus'[po[r]] # "ABSENT"
      BY <2>1, StaysRecorded DEF RequestKnown, RequestType
    <2>3. CASE pc'[r] = "idle" /\ po'[r] = None /\ delivery'[r] = None
      BY <2>3 DEF RequestKnown
    <2>4. CASE /\ pc'[r] = "sending" /\ delivery'[r] = None
               /\ po'[r] \in PO /\ poStatus[po'[r]] # "ABSENT"
      <3>1. poStatus'[po'[r]] # "ABSENT"
        BY <2>4, StaysRecorded
      <3>2. QED
        BY <2>4, <3>1 DEF RequestKnown
    <2>5. CASE /\ pc'[r] = "emailed" /\ delivery'[r] = None
               /\ pc[r] = "sending" /\ po'[r] = po[r]
      BY <2>2, <2>5 DEF RequestKnown
    <2>6. CASE \E d \in Delivery :
                 /\ SubmitGRN(r, d) /\ pc'[r] = "receiving" /\ delivery'[r] = d
                 /\ po'[r] = POOfDelivery(d) /\ poStatus[po'[r]] # "ABSENT"
      <3>1. PICK d \in Delivery : /\ pc'[r] = "receiving" /\ delivery'[r] = d
                                  /\ po'[r] = POOfDelivery(d) /\ poStatus[po'[r]] # "ABSENT"
        BY <2>6
      <3>2. po'[r] \in PO
        BY <3>1, DeliveryTypes
      <3>3. poStatus'[po'[r]] # "ABSENT"
        BY <3>1, <3>2, StaysRecorded
      <3>4. po'[r] = POOfDelivery(delivery'[r])
        BY <3>1
      <3>5. QED
        BY <3>1, <3>3, <3>4 DEF RequestKnown, POOfDelivery
    <2>7. CASE /\ pc'[r] = "receiving" /\ pc[r] = "receiving"
               /\ po'[r] = po[r] /\ delivery'[r] = delivery[r]
      BY <2>1, <2>2, <2>7 DEF RequestKnown, POOfDelivery
    <2>8. CASE /\ ReadLines(r) /\ pc'[r] = "read" /\ pc[r] = "receiving"
               /\ po'[r] = po[r] /\ delivery'[r] = delivery[r]
               /\ newStatus'[r] = IF AllReceived(r) THEN "RECEIVED" ELSE "PARTIALLY_RECEIVED"
      <3>1. newStatus'[r] \in {"RECEIVED", "PARTIALLY_RECEIVED"}
        BY <2>8
      <3>2. QED
        BY <2>1, <2>2, <2>8, <3>1 DEF RequestKnown, POOfDelivery
    <2>9. QED
      BY <1>2, <2>3, <2>4, <2>5, <2>6, <2>7, <2>8, OwnLocals
  <1>3. \A r \in Request : RequestKnown(r)'
    <2>1. ASSUME NEW r \in Request, RequestStep(r), NEW q \in Request PROVE RequestKnown(q)'
      <3>1. CASE q = r
        BY <1>2, <2>1, <3>1
      <3>2. CASE q # r
        <4>1. /\ pc'[q] = pc[q] /\ po'[q] = po[q] /\ delivery'[q] = delivery[q]
              /\ newStatus'[q] = newStatus[q]
          BY <2>1, <3>2, OneRequest
        <4>2. QED
          BY <1>1, <4>1
      <3>3. QED
        BY <3>1, <3>2
    <2>2. CASE ~\E r \in Request : RequestStep(r)
      BY <1>1, <2>2, OtherSteps DEF requests
    <2>3. QED
      BY <2>1, <2>2
  <1>4. ASSUME NEW d \in Delivery, grns'[d] > 0 PROVE poStatus'[POOfDelivery(d)] # "ABSENT"
    <2>1. POOfDelivery(d) \in PO
      BY DeliveryTypes
    <2>2. CASE grns[d] > 0
      BY <2>1, <2>2, StaysRecorded DEF Recorded
    <2>3. CASE ~(grns[d] > 0)
      <3>1. PICK r \in Request : PostGRN(r)
        BY <1>4, <2>3, OnlyPostGRN
      <3>2. delivery[r] = d
        BY <1>4, <2>3, <3>1, PostGRNEffect
      <3>3. poStatus[POOfDelivery(d)] # "ABSENT"
        <4>1. RequestKnown(r) /\ pc[r] = "read" /\ delivery[r] # None
          BY <3>1, <3>2, PostGRNEffect DEF Recorded
        <4>2. QED
          BY <3>2, <4>1 DEF RequestKnown
      <3>4. QED
        BY <2>1, <3>3, StaysRecorded
    <2>4. QED
      BY <2>2, <2>3
  <1>5. QED
    <2>1. \A d \in Delivery : (grns[d] > 0 => poStatus[POOfDelivery(d)] # "ABSENT")'
      BY <1>4 DEF POOfDelivery
    <2>2. QED
      BY <1>3, <2>1 DEF Recorded

-----------------------------------------------------------------------------
(* A delivery whose form closed was received, and while no connection of   *)
(* its form was lost, it is entered by the one request the form awaits,    *)
(* and received when the form closes, not before.                          *)
FormKnows(d) ==
  /\ d \in entered => grns[d] > 0
  /\ d \notin unsure =>
       /\ grns[d] > 0 => grns[d] = 1 /\ d \in entered
       /\ \A r \in Request : delivery[r] = d => awaited[d] = r /\ d \notin entered

FormsKnow == \A d \in Delivery : FormKnows(d)

(* All forms are unused when the behaviour begins.                         *)
LEMMA FormsInit == Init => FormsKnow
  <1> SUFFICES ASSUME Init, NEW d \in Delivery PROVE FormKnows(d)
    BY DEF FormsKnow
  <1>1. d # None
    OBVIOUS
  <1>2. \A r \in Request : delivery[r] # d
    BY <1>1 DEF Init
  <1>3. grns[d] = 0 /\ entered = {}
    BY DEF Init
  <1>4. QED
    BY <1>2, <1>3 DEF FormKnows

(* Every step keeps the forms in step with the GRNs.                       *)
LEMMA FormsStep ==
  ASSUME TypeInv, FormsKnow, [Next]_vars
  PROVE  FormsKnow'
  <1> SUFFICES ASSUME NEW d \in Delivery PROVE FormKnows(d)'
    BY DEF FormsKnow
  <1>1. FormKnows(d) /\ d # None
    BY DEF FormsKnow
  <1>2. /\ delivery \in [Request -> Delivery \cup {None}] /\ awaited \in [Delivery -> Request \cup {None}]
        /\ grns \in [Delivery -> Nat] /\ grns[d] \in Nat
    BY DEF TypeInv, RequestsTyped, OthersTyped
  <1>3. CASE UNCHANGED <<grns, delivery, awaited, entered, unsure>>
    BY <1>1, <1>3 DEF FormKnows
  <1>4. ASSUME NEW e \in Delivery, LoseConnection(e) PROVE FormKnows(d)'
    <2>1. /\ grns' = grns /\ delivery' = delivery /\ entered' = entered
          /\ unsure' = unsure \cup {e} /\ (d # e => awaited'[d] = awaited[d])
      BY <1>2, <1>4 DEF LoseConnection, documents, receipts, requests
    <2>2. QED
      BY <1>1, <2>1 DEF FormKnows
  <1>5. ASSUME NEW r \in Request, NEW e \in Delivery, SubmitGRN(r, e) PROVE FormKnows(d)'
    <2>1. /\ awaited[e] = None /\ e \notin entered
          /\ grns' = grns /\ entered' = entered /\ unsure' = unsure
          /\ delivery' = [delivery EXCEPT ![r] = e] /\ awaited' = [awaited EXCEPT ![e] = r]
      BY <1>5 DEF SubmitGRN, documents, receipts, history
    <2>2. CASE d = e
      <3>1. ASSUME d \notin unsure, NEW q \in Request, delivery'[q] = d PROVE awaited'[d] = q
        <4>1. \A x \in Request : delivery[x] # d
          BY <1>1, <2>1, <2>2, <3>1 DEF FormKnows
        <4>2. q = r
          BY <1>2, <2>1, <3>1, <4>1
        <4>3. QED
          BY <1>2, <2>1, <2>2, <4>2
      <3>2. QED
        BY <1>1, <2>1, <2>2, <3>1 DEF FormKnows
    <2>3. CASE d # e
      <3>1. awaited'[d] = awaited[d]
        BY <1>2, <2>1, <2>3
      <3>2. \A q \in Request : delivery'[q] = d => delivery[q] = d
        BY <1>2, <2>1, <2>3
      <3>3. QED
        BY <1>1, <2>1, <3>1, <3>2 DEF FormKnows
    <2>4. QED
      BY <2>2, <2>3
  <1>6. ASSUME NEW r \in Request, Forget(r), End(r), UNCHANGED <<grns, entered, unsure>>
        PROVE  FormKnows(d)'
    <2>1. /\ delivery'[r] = None
          /\ \A q \in Request \ {r} : delivery'[q] = delivery[q]
          /\ awaited'[d] = IF awaited[d] = r THEN None ELSE awaited[d]
      BY <1>6, EndEffect DEF Forget
    <2>2. ASSUME d \notin unsure, NEW q \in Request, delivery'[q] = d
          PROVE  awaited'[d] = q /\ d \notin entered
      <3>1. q # r /\ delivery[q] = d
        BY <1>1, <2>1, <2>2
      <3>2. awaited[d] = q /\ d \notin entered
        BY <1>1, <2>2, <3>1 DEF FormKnows
      <3>3. QED
        BY <2>1, <3>1, <3>2
    <2>3. QED
      BY <1>1, <1>6, <2>2 DEF FormKnows
  <1>7. ASSUME NEW r \in Request, PostGRN(r) PROVE FormKnows(d)'
    <2>1. /\ Forget(r) /\ End(r) /\ unsure' = unsure /\ delivery[r] \in Delivery
          /\ grns'[delivery[r]] = grns[delivery[r]] + 1
          /\ \A e \in Delivery : e # delivery[r] => grns'[e] = grns[e]
          /\ entered' = IF awaited[delivery[r]] = r THEN entered \cup {delivery[r]} ELSE entered
      BY <1>7, PostGRNEffect
    <2>2. /\ delivery'[r] = None
          /\ \A q \in Request \ {r} : delivery'[q] = delivery[q]
          /\ awaited'[d] = IF awaited[d] = r THEN None ELSE awaited[d]
      BY <2>1, EndEffect DEF Forget
    <2>3. CASE delivery[r] # d
      <3>1. grns'[d] = grns[d] /\ (d \in entered' <=> d \in entered)
        BY <2>1, <2>3
      <3>2. ASSUME d \notin unsure, NEW q \in Request, delivery'[q] = d
            PROVE  awaited'[d] = q /\ d \notin entered
        <4>1. q # r /\ delivery[q] = d
          BY <1>1, <2>2, <3>2
        <4>2. awaited[d] = q /\ d \notin entered
          BY <1>1, <3>2, <4>1 DEF FormKnows
        <4>3. QED
          BY <2>2, <4>1, <4>2
      <3>3. QED
        BY <1>1, <2>1, <3>1, <3>2 DEF FormKnows
    <2>4. CASE delivery[r] = d
      <3>1. grns'[d] = grns[d] + 1 /\ grns'[d] > 0
        BY <1>2, <2>1, <2>4
      <3>2. CASE d \in unsure
        BY <2>1, <3>1, <3>2 DEF FormKnows
      <3>3. CASE d \notin unsure
        <4>1. awaited[d] = r /\ d \notin entered /\ grns[d] = 0
          BY <1>1, <1>2, <2>4, <3>3 DEF FormKnows
        <4>2. grns'[d] = 1 /\ d \in entered'
          BY <2>1, <2>4, <3>1, <4>1
        <4>3. ASSUME NEW q \in Request PROVE delivery'[q] # d
          <5>1. CASE q = r
            BY <1>1, <2>2, <5>1
          <5>2. CASE q # r
            <6>1. delivery[q] # d
              BY <1>1, <3>3, <4>1, <5>2 DEF FormKnows
            <6>2. QED
              BY <2>2, <5>2, <6>1
          <5>3. QED
            BY <5>1, <5>2
        <4>4. QED
          BY <2>1, <3>1, <3>3, <4>2, <4>3 DEF FormKnows
      <3>4. QED
        BY <3>2, <3>3
    <2>5. QED
      BY <2>3, <2>4
  <1>8. ASSUME NEW r \in Request, RequestStep(r) PROVE FormKnows(d)'
    <2>1. CASE \/ \E o \in PO : StartSend(r, o)
               \/ Email(r) \/ PostLine(r) \/ ReadLines(r)
      <3>1. UNCHANGED <<grns, delivery, awaited, entered, unsure>>
        BY <2>1 DEF StartSend, Email, PostLine, ReadLines, documents, receipts, form, history
      <3>2. QED
        BY <1>3, <3>1
    <2>2. CASE SaveSend(r)
      <3>1. End(r) /\ UNCHANGED <<grns, awaited, entered, unsure>>
        BY <2>2 DEF SaveSend, form
      <3>2. delivery'[r] = None /\ \A q \in Request \ {r} : delivery'[q] = delivery[q]
        BY <3>1, EndEffect
      <3>3. \A q \in Request : delivery'[q] = d => delivery[q] = d
        BY <1>1, <3>2
      <3>4. QED
        BY <1>1, <3>1, <3>3 DEF FormKnows
    <2>3. CASE RaiseInsufficient(r) \/ Abort(r)
      <3>1. Forget(r) /\ End(r) /\ UNCHANGED <<grns, entered, unsure>>
        BY <2>3 DEF RaiseInsufficient, Abort, documents, receipts
      <3>2. QED
        BY <1>6, <3>1
    <2>4. QED
      BY <1>5, <1>7, <1>8, <2>1, <2>2, <2>3 DEF RequestStep, Step
  <1>9. CASE ~\E r \in Request : RequestStep(r)
    <2>1. (\E e \in Delivery : LoseConnection(e)) \/ UNCHANGED <<grns, delivery, awaited, entered, unsure>>
      BY <1>9, StepKinds DEF vars, CreateBudget, BudgetSubmit, SubmitBudget, BudgetDecided,
         PurchaseOrderCreate, CreatePO, Sell, EnterInvoice, MatchInvoice, ActOnMatch, SetMatch,
         documents, receipts, requests, form, history
    <2>2. QED
      BY <1>3, <1>4, <2>1
  <1>10. QED
    BY <1>8, <1>9

-----------------------------------------------------------------------------
(* What a GRN has read of its PO's lines stays true until it is posted,    *)
(* unless the reading raced with another GRN of the PO.                    *)
ReadKnows(r) ==
  pc[r] = "read" =>
    /\ newStatus[r] = "RECEIVED" => AllReceived(r)
    /\ newStatus[r] = "PARTIALLY_RECEIVED" => ~AllReceived(r) \/ po[r] \in raced
    /\ \A q \in Request \ {r} : pc[q] = "read" /\ po[q] = po[r] => po[r] \in raced

Full(o) == \A l \in LinesOfPO(o) : fulfilled[l] >= Ordered[l]
Some(o) == \E d \in DeliveriesOf(o) : grns[d] > 0

StatusTells(o) ==
  /\ poStatus[o] = "RECEIVED" => Full(o)
  /\ poStatus[o] = "PARTIALLY_RECEIVED" => Some(o) /\ (Full(o) => o \in raced)
  /\ Some(o) => poStatus[o] \in {"PARTIALLY_RECEIVED", "RECEIVED"} \/ o \in resent

ReadsKnow == \A r \in Request : ReadKnows(r)
StatusesTell == \A o \in PO : StatusTells(o)

(* A GRN adds to lines of its own PO only.                                 *)
LEMMA OwnLines ==
  ASSUME TypeInv, Recorded, NEW r \in Request, PostGRN(r)
  PROVE  /\ POOfDelivery(delivery[r]) = po[r]
         /\ \A l \in POLine : POOf[l] # po[r] => fulfilled'[l] = fulfilled[l]
         /\ \A l \in POLine : fulfilled[l] \in Nat /\ fulfilled'[l] \in Nat /\ fulfilled'[l] >= fulfilled[l]
         /\ \A l \in POLine : fulfilled'[l] = Seen(r, l)
  <1>1. pc[r] = "read" /\ delivery[r] \in Delivery /\ delivery[r] # None
    BY PostGRNEffect
  <1>2. POOfDelivery(delivery[r]) = po[r]
    BY <1>1 DEF Recorded, RequestKnown
  <1>3. \A l \in ToSet(GRNLines(r)) : POOf[l] = po[r]
    BY <1>1, <1>2, DeliveryTypes DEF GRNLines
  <1>4. \A l \in POLine : fulfilled[l] \in Nat
    BY DEF TypeInv, OthersTyped
  <1>5. \A l \in POLine : fulfilled'[l] = IF l \in ToSet(GRNLines(r)) THEN fulfilled[l] + 1 ELSE fulfilled[l]
    BY PostGRNEffect
  <1>6. ASSUME NEW l \in POLine PROVE fulfilled'[l] \in Nat /\ fulfilled'[l] >= fulfilled[l]
    <2>1. fulfilled[l] \in Nat
      BY <1>4
    <2>2. fulfilled'[l] = fulfilled[l] \/ fulfilled'[l] = fulfilled[l] + 1
      BY <1>5
    <2>3. QED
      BY <2>1, <2>2
  <1>7. \A l \in POLine : fulfilled'[l] = Seen(r, l)
    BY <1>4, <1>5 DEF Seen
  <1>8. \A l \in POLine : POOf[l] # po[r] => fulfilled'[l] = fulfilled[l]
    BY <1>3, <1>5
  <1>9. QED
    BY <1>2, <1>4, <1>6, <1>7, <1>8

(* The histories only grow.                                                *)
LEMMA HistoryGrows ==
  ASSUME [Next]_vars
  PROVE  raced \subseteq raced' /\ resent \subseteq resent'
  <1>1. ASSUME NEW r \in Request, RequestStep(r) PROVE raced \subseteq raced' /\ resent \subseteq resent'
    <2>1. CASE \/ \E o \in PO : StartSend(r, o) \/ \E d \in Delivery : SubmitGRN(r, d)
               \/ Email(r) \/ PostLine(r) \/ RaiseInsufficient(r) \/ PostGRN(r) \/ Abort(r)
      BY <2>1 DEF StartSend, SubmitGRN, Email, PostLine, RaiseInsufficient, PostGRN, Abort, history
    <2>2. CASE SaveSend(r)
      BY <2>2 DEF SaveSend
    <2>3. CASE ReadLines(r)
      BY <2>3 DEF ReadLines
    <2>4. QED
      BY <1>1, <2>1, <2>2, <2>3 DEF RequestStep, Step
  <1>2. QED
    BY <1>1, OtherSteps

(* Nothing has been read when the behaviour begins.                        *)
LEMMA ReadsInit == Init => ReadsKnow
  BY DEF Init, ReadsKnow, ReadKnows

(* A request that has read, and that the step leaves alone, knows what it  *)
(* knew.                                                                   *)
LEMMA ReadKept ==
  ASSUME TypeInv, Recorded, ReadsKnow, [Next]_vars, NEW r \in Request, pc[r] = "read",
         po'[r] = po[r], delivery'[r] = delivery[r], newStatus'[r] = newStatus[r]
  PROVE  /\ newStatus'[r] = "RECEIVED" => AllReceived(r)'
         /\ ~(\E q \in Request : q # r /\ po[q] = po[r] /\ PostGRN(q)) =>
              (newStatus'[r] = "PARTIALLY_RECEIVED" => ~AllReceived(r)' \/ po[r] \in raced)
         /\ (\E q \in Request : q # r /\ po[q] = po[r] /\ PostGRN(q)) => po[r] \in raced
  <1>1. ReadKnows(r)
    BY DEF ReadsKnow
  <1>2. \A l \in POLine : fulfilled[l] \in Nat /\ Ordered[l] \in Nat
    BY DEF TypeInv, OthersTyped
  <1>3. ASSUME NEW q \in Request, PostGRN(q), q # r, po[q] = po[r] PROVE po[r] \in raced
    <2>1. pc[q] = "read"
      BY <1>3 DEF PostGRN
    <2>2. QED
      BY <1>1, <1>3, <2>1 DEF ReadKnows
  <1>4. \A l \in POLine : fulfilled'[l] \in Nat /\ fulfilled'[l] >= fulfilled[l]
    <2>1. CASE \E q \in Request : PostGRN(q)
      BY <2>1, OwnLines
    <2>2. CASE ~\E q \in Request : PostGRN(q)
      BY <1>2, <2>2, OnlyPostGRN
    <2>3. QED
      BY <2>1, <2>2
  <1>5. ASSUME newStatus[r] = "RECEIVED" PROVE AllReceived(r)'
    <2> SUFFICES ASSUME NEW l \in LinesOfPO(po[r])
                 PROVE  fulfilled'[l] + (IF l \in ToSet(LinesOf[delivery[r]]) THEN 1 ELSE 0) >= Ordered[l]
      BY DEF AllReceived, Seen, GRNLines, LinesOfPO
    <2>1. l \in POLine
      BY DEF LinesOfPO
    <2>2. fulfilled[l] + (IF l \in ToSet(LinesOf[delivery[r]]) THEN 1 ELSE 0) >= Ordered[l]
      BY <1>1, <1>5 DEF ReadKnows, AllReceived, Seen, GRNLines
    <2>3. /\ fulfilled[l] \in Nat /\ Ordered[l] \in Nat /\ fulfilled'[l] \in Nat
          /\ fulfilled'[l] >= fulfilled[l]
      BY <1>2, <1>4, <2>1
    <2>4. QED
      BY <2>2, <2>3
  <1>6. ASSUME \A q \in Request : q # r /\ po[q] = po[r] => ~PostGRN(q),
               newStatus[r] = "PARTIALLY_RECEIVED", po[r] \notin raced
        PROVE  ~AllReceived(r)'
    <2>1. PICK l \in LinesOfPO(po[r]) : ~(Seen(r, l) >= Ordered[l])
      BY <1>1, <1>6 DEF ReadKnows, AllReceived
    <2>2. l \in POLine /\ POOf[l] = po[r]
      BY DEF LinesOfPO
    <2>3. ~PostGRN(r)
      <3>1. CASE PostGRN(r)
        <4>1. pc'[r] = "idle" /\ po'[r] = None
          BY <3>1, PostGRNEffect, EndEffect
        <4>2. po[r] # None
          BY RequestTypes DEF RequestType
        <4>3. QED
          BY <4>1, <4>2
      <3>2. QED
        BY <3>1
    <2>4. fulfilled'[l] = fulfilled[l]
      <3>1. CASE \E q \in Request : PostGRN(q)
        <4>1. PICK q \in Request : PostGRN(q)
          BY <3>1
        <4>2. po[q] # po[r]
          BY <1>6, <2>3, <4>1
        <4>3. QED
          BY <2>2, <4>1, <4>2, OwnLines
      <3>2. CASE ~\E q \in Request : PostGRN(q)
        BY <3>2, OnlyPostGRN
      <3>3. QED
        BY <3>1, <3>2
    <2>5. Seen(r, l)' = Seen(r, l)
      BY <2>4 DEF Seen, GRNLines
    <2>6. l \in LinesOfPO(po'[r])
      OBVIOUS
    <2>7. QED
      BY <2>1, <2>5, <2>6 DEF AllReceived, LinesOfPO
  <1>7. QED
    BY <1>3, <1>5, <1>6

(* Every step keeps what a GRN may have missed accounted for.              *)
LEMMA ReadsStep ==
  ASSUME TypeInv, Recorded, ReadsKnow, [Next]_vars
  PROVE  ReadsKnow'
  <1> SUFFICES ASSUME NEW r \in Request, pc'[r] = "read"
               PROVE  /\ newStatus'[r] = "RECEIVED" => AllReceived(r)'
                      /\ newStatus'[r] = "PARTIALLY_RECEIVED" => ~AllReceived(r)' \/ po'[r] \in raced'
                      /\ \A q \in Request \ {r} : pc'[q] = "read" /\ po'[q] = po'[r] => po'[r] \in raced'
    BY DEF ReadsKnow, ReadKnows
  <1>1. raced \subseteq raced'
    BY HistoryGrows
  <1>2. ReadKnows(r) /\ \A q \in Request : ReadKnows(q)
    BY DEF ReadsKnow
  <1>3. CASE ReadLines(r)
    <2>1. RequestStep(r)
      BY <1>3 DEF RequestStep, Step
    <2>2. /\ pc[r] = "receiving" /\ po'[r] = po[r] /\ delivery'[r] = delivery[r]
          /\ newStatus'[r] = IF AllReceived(r) THEN "RECEIVED" ELSE "PARTIALLY_RECEIVED"
      BY <1>3, <2>1, OwnLocals DEF SubmitGRN, ReadLines
    <2>3. fulfilled' = fulfilled
      BY <1>3 DEF ReadLines, documents, purchase
    <2>4. AllReceived(r)' <=> AllReceived(r)
      BY <2>2, <2>3 DEF AllReceived, Seen, GRNLines, LinesOfPO
    <2>5. ASSUME NEW q \in Request \ {r}, pc'[q] = "read", po'[q] = po'[r] PROVE po'[r] \in raced'
      <3>1. pc[q] = "read" /\ po[q] = po[r]
        BY <2>1, <2>2, <2>5, OneRequest
      <3>2. delivery[q] # None
        BY <3>1, RequestTypes DEF RequestType
      <3>3. raced' = raced \cup {po[r]}
        BY <1>3, <3>1, <3>2 DEF ReadLines
      <3>4. QED
        BY <2>2, <3>3
    <2>6. QED
      BY <2>2, <2>4, <2>5
  <1>4. CASE ~ReadLines(r)
    <2>1. /\ pc[r] = "read" /\ po'[r] = po[r] /\ delivery'[r] = delivery[r]
          /\ newStatus'[r] = newStatus[r] /\ ~RequestStep(r)
      <3>1. ~RequestStep(r)
        <4>1. CASE RequestStep(r)
          BY <1>4, <4>1, OwnLocals
        <4>2. QED
          BY <4>1
      <3>2. CASE \E q \in Request : RequestStep(q)
        <4>1. PICK q \in Request : RequestStep(q)
          BY <3>2
        <4>2. r \in Request \ {q}
          BY <3>1, <4>1
        <4>3. QED
          BY <3>1, <4>1, <4>2, OneRequest
      <3>3. CASE ~\E q \in Request : RequestStep(q)
        <4>1. UNCHANGED requests
          BY <3>3, OtherSteps
        <4>2. QED
          BY <3>1, <4>1 DEF requests
      <3>4. QED
        BY <3>2, <3>3
    <2>2. /\ newStatus'[r] = "RECEIVED" => AllReceived(r)'
          /\ ~(\E q \in Request : q # r /\ po[q] = po[r] /\ PostGRN(q)) =>
               (newStatus'[r] = "PARTIALLY_RECEIVED" => ~AllReceived(r)' \/ po[r] \in raced)
          /\ (\E q \in Request : q # r /\ po[q] = po[r] /\ PostGRN(q)) => po[r] \in raced
      BY <2>1, ReadKept
    <2>3. ASSUME NEW q \in Request \ {r}, pc'[q] = "read", po'[q] = po'[r] PROVE po'[r] \in raced'
      <3>1. CASE RequestStep(q)
        <4>1. ReadLines(q) \/ pc'[q] # "read"
          BY <3>1, OwnLocals
        <4>2. ReadLines(q) /\ po'[q] = po[q]
          BY <2>3, <4>1 DEF ReadLines
        <4>3. po[r] = po[q] /\ r # q
          BY <2>1, <2>3, <4>2
        <4>4. delivery[r] # None
          BY <2>1, RequestTypes DEF RequestType
        <4>5. raced' = raced \cup {po[q]}
          BY <4>2, <4>3, <4>4 DEF ReadLines
        <4>6. QED
          BY <2>1, <4>3, <4>5
      <3>2. CASE ~RequestStep(q)
        <4>1. pc[q] = "read" /\ po[q] = po[r]
          <5>1. CASE \E x \in Request : RequestStep(x)
            <6>1. PICK x \in Request : RequestStep(x)
              BY <5>1
            <6>2. q \in Request \ {x}
              BY <3>2, <6>1
            <6>3. QED
              BY <2>1, <2>3, <6>1, <6>2, OneRequest
          <5>2. CASE ~\E x \in Request : RequestStep(x)
            <6>1. UNCHANGED requests
              BY <5>2, OtherSteps
            <6>2. QED
              BY <2>1, <2>3, <6>1 DEF requests
          <5>3. QED
            BY <5>1, <5>2
        <4>2. po[r] \in raced
          BY <1>2, <2>1, <4>1 DEF ReadKnows
        <4>3. QED
          BY <1>1, <2>1, <4>2
      <3>3. QED
        BY <3>1, <3>2
    <2>4. newStatus'[r] = "PARTIALLY_RECEIVED" => ~AllReceived(r)' \/ po'[r] \in raced'
      BY <1>1, <2>1, <2>2
    <2>5. QED
      BY <2>2, <2>3, <2>4
  <1>5. QED
    BY <1>3, <1>4

(* No PO has been received when the behaviour begins.                      *)
LEMMA StatusesInit == Init => StatusesTell
  BY DEF Init, StatusesTell, StatusTells, Some, DeliveriesOf

(* Every step keeps the statuses telling.                                  *)
LEMMA StatusesStep ==
  ASSUME TypeInv, Recorded, ReadsKnow, StatusesTell, [Next]_vars
  PROVE  StatusesTell'
  <1> SUFFICES ASSUME NEW o \in PO PROVE StatusTells(o)'
    BY DEF StatusesTell
  <1>1. StatusTells(o) /\ raced \subseteq raced' /\ resent \subseteq resent'
    BY HistoryGrows DEF StatusesTell
  <1>2. poStatus \in [PO -> POStatus] /\ grns \in [Delivery -> Nat]
    BY DEF TypeInv, OthersTyped
  <1>3. ASSUME \A l \in LinesOfPO(o) : fulfilled'[l] = fulfilled[l],
               \A d \in DeliveriesOf(o) : grns'[d] = grns[d]
        PROVE  (Full(o)' <=> Full(o)) /\ (Some(o)' <=> Some(o))
    BY <1>3 DEF Full, Some, LinesOfPO, DeliveriesOf, POOfDelivery
  <1>4. ASSUME NEW r \in Request, PostGRN(r) PROVE StatusTells(o)'
    <2>1. /\ delivery[r] \in Delivery /\ po[r] \in PO /\ pc[r] = "read"
          /\ grns'[delivery[r]] = grns[delivery[r]] + 1 /\ grns[delivery[r]] \in Nat
          /\ \A d \in Delivery : d # delivery[r] => grns'[d] = grns[d]
          /\ poStatus'[po[r]] = newStatus[r]
          /\ \A q \in PO : q # po[r] => poStatus'[q] = poStatus[q]
      BY <1>4, PostGRNEffect
    <2>2. /\ POOfDelivery(delivery[r]) = po[r]
          /\ \A l \in POLine : POOf[l] # po[r] => fulfilled'[l] = fulfilled[l]
          /\ \A l \in POLine : fulfilled'[l] = Seen(r, l)
      BY <1>4, OwnLines
    <2>3. CASE o # po[r]
      <3>1. \A l \in LinesOfPO(o) : fulfilled'[l] = fulfilled[l]
        BY <2>2, <2>3 DEF LinesOfPO
      <3>2. \A d \in DeliveriesOf(o) : grns'[d] = grns[d]
        BY <2>1, <2>2, <2>3 DEF DeliveriesOf
      <3>3. (Full(o)' <=> Full(o)) /\ (Some(o)' <=> Some(o))
        BY <1>3, <3>1, <3>2
      <3>4. poStatus'[o] = poStatus[o]
        BY <2>1, <2>3
      <3>5. QED
        BY <1>1, <3>3, <3>4 DEF StatusTells
    <2>4. CASE o = po[r]
      <3>1. Full(o)' <=> AllReceived(r)
        <4>1. Full(o)' <=> \A l \in LinesOfPO(o) : fulfilled'[l] >= Ordered[l]
          BY DEF Full, LinesOfPO
        <4>2. \A l \in LinesOfPO(o) : fulfilled'[l] = Seen(r, l)
          BY <2>2 DEF LinesOfPO
        <4>3. AllReceived(r) <=> \A l \in LinesOfPO(o) : Seen(r, l) >= Ordered[l]
          BY <2>4 DEF AllReceived
        <4>4. QED
          BY <4>1, <4>2, <4>3
      <3>2. Some(o)'
        <4>1. grns'[delivery[r]] > 0
          BY <2>1
        <4>2. delivery[r] \in DeliveriesOf(o)'
          BY <2>1, <2>2, <2>4 DEF DeliveriesOf, POOfDelivery
        <4>3. QED
          BY <4>1, <4>2 DEF Some
      <3>3. ReadKnows(r) /\ newStatus[r] \in {"RECEIVED", "PARTIALLY_RECEIVED"}
        BY <2>1 DEF ReadsKnow, Recorded, RequestKnown
      <3>4. newStatus[r] = "RECEIVED" => AllReceived(r)
        BY <2>1, <3>3 DEF ReadKnows
      <3>5. newStatus[r] = "PARTIALLY_RECEIVED" => ~AllReceived(r) \/ o \in raced'
        BY <1>1, <2>1, <2>4, <3>3 DEF ReadKnows
      <3>6. poStatus'[o] = newStatus[r]
        BY <2>1, <2>4
      <3>7. QED
        BY <3>1, <3>2, <3>3, <3>4, <3>5, <3>6 DEF StatusTells
    <2>5. QED
      BY <2>3, <2>4
  <1>5. CASE ~\E r \in Request : PostGRN(r)
    <2>1. UNCHANGED <<fulfilled, grns>>
      BY <1>5, OnlyPostGRN
    <2>2. (Full(o)' <=> Full(o)) /\ (Some(o)' <=> Some(o))
      BY <1>3, <2>1
    <2>3. CASE UNCHANGED poStatus
      BY <1>1, <2>2, <2>3 DEF StatusTells
    <2>4. ASSUME NEW q \in PO, PurchaseOrderCreate(q) PROVE StatusTells(o)'
      <3>1. poStatus[q] = "ABSENT" /\ poStatus' = [poStatus EXCEPT ![q] = "CREATED"]
        BY <2>4 DEF PurchaseOrderCreate, CreatePO
      <3>2. CASE q = o
        <4>1. ~Some(o)
          BY <3>1, <3>2 DEF Recorded, Some, DeliveriesOf
        <4>2. poStatus'[o] = "CREATED"
          BY <1>2, <3>1, <3>2
        <4>3. QED
          BY <2>2, <4>1, <4>2 DEF StatusTells
      <3>3. CASE q # o
        <4>1. poStatus'[o] = poStatus[o]
          BY <1>2, <3>1, <3>3
        <4>2. QED
          BY <1>1, <2>2, <4>1 DEF StatusTells
      <3>4. QED
        BY <3>2, <3>3
    <2>5. ASSUME NEW r \in Request, SaveSend(r) PROVE StatusTells(o)'
      <3>1. /\ \E s \in {"SENT", "MANUAL_CONTACT_REQUIRED"} : poStatus' = [poStatus EXCEPT ![po[r]] = s]
            /\ resent' = IF Some(po[r]) THEN resent \cup {po[r]} ELSE resent
        BY <2>5 DEF SaveSend, Some
      <3>2. CASE po[r] = o
        <4>1. poStatus'[o] \in {"SENT", "MANUAL_CONTACT_REQUIRED"}
          BY <1>2, <3>1, <3>2
        <4>2. Some(o) => o \in resent'
          BY <3>1, <3>2
        <4>3. QED
          BY <2>2, <4>1, <4>2 DEF StatusTells
      <3>3. CASE po[r] # o
        <4>1. poStatus'[o] = poStatus[o]
          BY <1>2, <3>1, <3>3
        <4>2. QED
          BY <1>1, <2>2, <4>1 DEF StatusTells
      <3>4. QED
        BY <3>2, <3>3
    <2>6. QED
      BY <1>5, <2>3, <2>4, <2>5, OnlyStatus
  <1>6. QED
    BY <1>4, <1>5

-----------------------------------------------------------------------------
HIDE ProcurementConstants

(* What was received of a line and of a product, when the deliveries were  *)
(* entered as often as n says.                                             *)
With(l) == {d \in Delivery : l \in ToSet(LinesOf[d])}
LinesFor(p) == {l \in POLine : ProductOf[l] = p}
Lots(n) == [l \in POLine |-> SumOf(n, With(l))]
ReceiptsFor(n, p) == MapThenSumSet(LAMBDA l : SumOf(n, With(l)), LinesFor(p))

(* Everything that is added over is finite.                                *)
LEMMA Finite ==
  /\ \A l : IsFiniteSet(With(l))
  /\ \A p : IsFiniteSet(LinesFor(p))
  /\ \A o : IsFiniteSet(LinesOfPO(o)) /\ IsFiniteSet(DeliveriesOf(o))
  /\ IsFiniteSet(PO) /\ IsFiniteSet(Delivery)
  <1>1. IsFiniteSet(PO) /\ IsFiniteSet(POLine) /\ IsFiniteSet(Delivery)
    BY ProcurementConstants
  <1>2. \A S : S \subseteq Delivery => IsFiniteSet(S)
    BY <1>1, FS_Subset
  <1>3. \A S : S \subseteq POLine => IsFiniteSet(S)
    BY <1>1, FS_Subset
  <1>4. /\ \A l : With(l) \subseteq Delivery
        /\ \A p : LinesFor(p) \subseteq POLine
        /\ \A o : LinesOfPO(o) \subseteq POLine /\ DeliveriesOf(o) \subseteq Delivery
    BY DEF With, LinesFor, LinesOfPO, DeliveriesOf
  <1>5. QED
    BY <1>1, <1>2, <1>3, <1>4

(* The lots that the model adds up are a sum over deliveries.              *)
LEMMA LotsAre ==
  ASSUME NEW n, \A d \in Delivery : n[d] \in Int, NEW l \in POLine
  PROVE  Lots(n)[l] = SumOf(n, With(l)) /\ Lots(n)[l] \in Int
  <1>1. \A d \in With(l) : n[d] \in Int
    BY DEF With
  <1>2. SumOf(n, With(l)) \in Int
    BY <1>1, Finite, SumInt
  <1>3. QED
    BY <1>2 DEF Lots

(* The receipts of a product are a sum over lines.                         *)
LEMMA ReceiptsAre ==
  ASSUME NEW n, \A d \in Delivery : n[d] \in Int, NEW p
  PROVE  ReceiptsFor(n, p) = SumOf(Lots(n), LinesFor(p))
  <1> DEFINE f == Lots(n)
             S == LinesFor(p)
             Sums(g) == g = [R \in SUBSET S |->
                     IF R = {} THEN 0
                     ELSE SumOf(n, With(CHOOSE x \in R : TRUE)) + g[R \ {CHOOSE x \in R : TRUE}]]
             it == CHOOSE g : Sums(g)
  <1>1. ReceiptsFor(n, p) = it[S]
    BY DEF ReceiptsFor, MapThenSumSet, MapThenFoldSet
  <1>2. \A l \in S : f[l] = SumOf(n, With(l)) /\ f[l] \in Int
    BY LotsAre DEF LinesFor
  <1>3. IsFiniteSet(S)
    BY Finite
  <1> HIDE DEF f, S
  <1>4. ASSUME NEW g PROVE Sums(g) <=> Adds(g, f, S)
    <2>1. \A R \in SUBSET S : R # {} => Pick(R) \in S
      BY DEF Pick
    <2>2. \A R \in SUBSET S : R # {} => f[Pick(R)] = SumOf(n, With(Pick(R)))
      BY <1>2, <2>1
    <2>3. [R \in SUBSET S |-> IF R = {} THEN 0 ELSE SumOf(n, With(Pick(R))) + g[R \ {Pick(R)}]]
            = [R \in SUBSET S |-> IF R = {} THEN 0 ELSE f[Pick(R)] + g[R \ {Pick(R)}]]
      BY <2>2
    <2>4. QED
      BY <2>3 DEF Adds, Pick
  <1> HIDE DEF Sums
  <1>5. \E g : Adds(g, f, S)
    BY <1>2, <1>3, SumDefined
  <1>6. Adds(it, f, S)
    BY <1>4, <1>5
  <1> HIDE DEF it
  <1>7. it[S] = SumOf(f, S)
    BY <1>2, <1>3, <1>6, SumIs
  <1>8. QED
    BY <1>1, <1>7 DEF f, S

(* One more entry of d is one more of each of its lines, and of each of    *)
(* their products.                                                         *)
OneEntryMore(n, m, d) == \A e \in Delivery : n[e] \in Int /\ m[e] = n[e] + (IF e = d THEN 1 ELSE 0)
OneLotMore(n, m, d) ==
  /\ \A l \in POLine :
       /\ Lots(n)[l] \in Int /\ Lots(m)[l] \in Int
       /\ Lots(m)[l] = Lots(n)[l] + (IF l \in ToSet(LinesOf[d]) THEN 1 ELSE 0)
  /\ \A p \in Product :
       /\ SumOf(Lots(n), LinesFor(p)) \in Int
       /\ SumOf(Lots(m), LinesFor(p)) = SumOf(Lots(n), LinesFor(p))
            + (IF \E l \in ToSet(LinesOf[d]) : ProductOf[l] = p THEN 1 ELSE 0)

(* One GRN more of a delivery is one lot more on each of its lines.        *)
LEMMA OneMore ==
  ASSUME NEW n, NEW m, NEW d \in Delivery, OneEntryMore(n, m, d)
  PROVE  OneLotMore(n, m, d)
  <1>0. \A e \in Delivery : n[e] \in Int /\ m[e] = n[e] + (IF e = d THEN 1 ELSE 0)
    BY DEF OneEntryMore
  <1>1. \A e \in Delivery : n[e] \in Int /\ m[e] \in Int
    BY <1>0
  <1>2. ASSUME NEW l \in POLine
        PROVE  /\ Lots(n)[l] \in Int /\ Lots(m)[l] \in Int
               /\ Lots(m)[l] = Lots(n)[l] + (IF l \in ToSet(LinesOf[d]) THEN 1 ELSE 0)
    <2>1. /\ Lots(n)[l] = SumOf(n, With(l)) /\ Lots(n)[l] \in Int
          /\ Lots(m)[l] = SumOf(m, With(l)) /\ Lots(m)[l] \in Int
      BY <1>1, LotsAre
    <2>2. \A e \in With(l) : n[e] \in Int /\ m[e] = n[e] + (IF e = d THEN 1 ELSE 0)
      BY <1>0 DEF With
    <2>3. SumOf(m, With(l)) = SumOf(n, With(l)) + (IF d \in With(l) THEN 1 ELSE 0)
      BY <2>2, Finite, SumOneMore
    <2>4. d \in With(l) <=> l \in ToSet(LinesOf[d])
      BY DEF With
    <2>5. QED
      BY <2>1, <2>3, <2>4
  <1>3. ASSUME NEW p \in Product
        PROVE  /\ SumOf(Lots(n), LinesFor(p)) \in Int
               /\ SumOf(Lots(m), LinesFor(p)) = SumOf(Lots(n), LinesFor(p))
                    + (IF \E l \in ToSet(LinesOf[d]) : ProductOf[l] = p THEN 1 ELSE 0)
    <2> DEFINE f == Lots(n)
               h == Lots(m)
               S == LinesFor(p)
    <2>1. IsFiniteSet(S)
      BY Finite
    <2>2. CASE \E l \in ToSet(LinesOf[d]) : ProductOf[l] = p
      <3>1. PICK a \in ToSet(LinesOf[d]) : ProductOf[a] = p
        BY <2>2
      <3>2. a \in S
        BY <3>1, DeliveryTypes DEF LinesFor
      <3>3. \A x \in S : x \in POLine /\ (x \in ToSet(LinesOf[d]) <=> x = a)
        BY <3>1, DeliveryTypes, ProcurementConstants DEF LinesFor
      <3>4. \A x \in S : f[x] \in Int /\ h[x] = f[x] + (IF x = a THEN 1 ELSE 0)
        BY <1>2, <3>3
      <3> HIDE DEF f, h, S
      <3>5. SumOf(f, S) \in Int /\ SumOf(h, S) = SumOf(f, S) + (IF a \in S THEN 1 ELSE 0)
        BY <2>1, <3>4, SumOneMore
      <3>6. SumOf(f, S) \in Int /\ SumOf(h, S) = SumOf(f, S) + 1
        BY <3>2, <3>5
      <3>7. QED
        BY <2>2, <3>6 DEF f, h, S
    <2>3. CASE ~\E l \in ToSet(LinesOf[d]) : ProductOf[l] = p
      <3>1. \A x \in S : x \in POLine /\ x \notin ToSet(LinesOf[d])
        BY <2>3 DEF LinesFor
      <3>2. \A x \in S : f[x] \in Int /\ h[x] = f[x]
        BY <1>2, <3>1
      <3> HIDE DEF f, h, S
      <3>3. SumOf(f, S) \in Int /\ SumOf(h, S) = SumOf(f, S)
        BY <2>1, <3>2, SumInt
      <3>4. SumOf(f, S) \in Int /\ SumOf(h, S) = SumOf(f, S) + 0
        BY <3>3
      <3>5. QED
        BY <2>3, <3>4 DEF f, h, S
    <2>4. QED
      BY <2>2, <2>3
  <1>4. QED
    BY <1>2, <1>3 DEF OneLotMore

(* ReceiptsAreWhole, in these sums.                                        *)
WholeWith(f, h, s, n) ==
  /\ \A l \in POLine : f[l] = Lots(n)[l]
  /\ \A p \in Product : h[p] + s[p] = SumOf(Lots(n), LinesFor(p))

(* Receipts are whole in the terms of the sums.                            *)
LEMMA WholeIs ==
  ASSUME TypeInv
  PROVE  ReceiptsAreWhole <=> WholeWith(fulfilled, onHand, sold, grns)
  <1>1. \A d \in Delivery : grns[d] \in Int
    BY DEF TypeInv, OthersTyped
  <1>2. ASSUME NEW l \in POLine PROVE Received(l) = Lots(grns)[l]
    <2>1. Received(l) = SumOf(grns, With(l))
      BY DEF Received, SumOf, With, MapThenSumSet, MapThenFoldSet
    <2>2. QED
      BY <1>1, <2>1, LotsAre
  <1>3. ASSUME NEW p \in Product
        PROVE  MapThenSumSet(Received, {l \in POLine : ProductOf[l] = p}) = SumOf(Lots(grns), LinesFor(p))
    <2>1. MapThenSumSet(Received, {l \in POLine : ProductOf[l] = p}) = ReceiptsFor(grns, p)
      BY DEF Received, ReceiptsFor, SumOf, With, LinesFor, MapThenSumSet, MapThenFoldSet
    <2>2. QED
      BY <1>1, <2>1, ReceiptsAre
  <1>4. QED
    BY <1>2, <1>3 DEF ReceiptsAreWhole, WholeWith

(* Nothing was received when the behaviour begins.                         *)
LEMMA WholeInit ==
  ASSUME Init
  PROVE  WholeWith(fulfilled, onHand, sold, grns)
  <1>1. \A d \in Delivery : grns[d] = 0
    BY DEF Init
  <1>2. \A l \in POLine : Lots(grns)[l] = 0
    <2> SUFFICES ASSUME NEW l \in POLine PROVE SumOf(grns, With(l)) = 0
      BY DEF Lots
    <2>1. \A d \in With(l) : grns[d] = 0
      BY <1>1 DEF With
    <2>2. QED
      BY <2>1, Finite, SumZero
  <1>3. \A p \in Product : SumOf(Lots(grns), LinesFor(p)) = 0
    <2> SUFFICES ASSUME NEW p \in Product PROVE SumOf(Lots(grns), LinesFor(p)) = 0
      OBVIOUS
    <2>1. \A l \in LinesFor(p) : Lots(grns)[l] = 0
      BY <1>2 DEF LinesFor
    <2>2. QED
      BY <2>1, Finite, SumZero
  <1>4. \A l \in POLine : fulfilled[l] = 0
    BY DEF Init
  <1>5. \A p \in Product : onHand[p] + sold[p] = 0
    BY DEF Init
  <1>6. QED
    BY <1>2, <1>3, <1>4, <1>5 DEF WholeWith

(* Only a receipt and a sale move the stock.                               *)
LEMMA OnlyMoves ==
  ASSUME [Next]_vars, ~\E r \in Request : PostGRN(r), ~\E p \in Product, qty \in 1..MaxSold : Sell(p, qty)
  PROVE  UNCHANGED <<onHand, sold>>
  <1>1. ASSUME NEW r \in Request, RequestStep(r) PROVE UNCHANGED <<onHand, sold>>
    BY <1>1 DEF RequestStep, Step, StartSend, SubmitGRN, Email, SaveSend, PostLine, RaiseInsufficient,
       ReadLines, Abort, documents, receipts, history
  <1>2. QED
    BY <1>1, StepKinds DEF vars, CreateBudget, BudgetSubmit, SubmitBudget, BudgetDecided,
     PurchaseOrderCreate, CreatePO, LoseConnection, EnterInvoice, MatchInvoice, ActOnMatch, SetMatch,
     documents, receipts, history

(* Every step keeps credit, stock and GRNs together.                       *)
LEMMA WholeStep ==
  ASSUME TypeInv, WholeWith(fulfilled, onHand, sold, grns), [Next]_vars
  PROVE  WholeWith(fulfilled', onHand', sold', grns')
  <1>1. /\ \A d \in Delivery : grns[d] \in Nat
        /\ onHand \in [Product -> Int] /\ sold \in [Product -> Nat]
        /\ \A p \in Product : onHand[p] \in Int /\ sold[p] \in Int
    BY DEF TypeInv, OthersTyped
  <1>2. ASSUME NEW r \in Request, PostGRN(r) PROVE WholeWith(fulfilled', onHand', sold', grns')
    <2> DEFINE d == delivery[r]
    <2>1. /\ d \in Delivery /\ grns'[d] = grns[d] + 1 /\ sold' = sold
          /\ \A e \in Delivery : e # d => grns'[e] = grns[e]
          /\ \A l \in POLine :
               fulfilled'[l] = IF l \in ToSet(LinesOf[d]) THEN fulfilled[l] + 1 ELSE fulfilled[l]
      BY <1>2, PostGRNEffect DEF GRNLines
    <2>2. \A p \in Product :
            onHand'[p] = onHand[p] + (IF \E l \in ToSet(LinesOf[d]) : ProductOf[l] = p THEN 1 ELSE 0)
      <3>1. onHand' = [p \in Product |->
                        onHand[p] + IF \E l \in ToSet(GRNLines(r)) : ProductOf[l] = p THEN 1 ELSE 0]
        BY <1>2 DEF PostGRN
      <3>2. QED
        BY <3>1 DEF GRNLines
    <2> HIDE DEF d
    <2>3. \A e \in Delivery : grns[e] \in Int /\ grns'[e] = grns[e] + (IF e = d THEN 1 ELSE 0)
      BY <1>1, <2>1
    <2>4. OneLotMore(grns, grns', d)
      <3>1. OneEntryMore(grns, grns', d) /\ d \in Delivery
        BY <2>1, <2>3 DEF OneEntryMore
      <3>2. QED
        BY <3>1, OneMore
    <2>5. ASSUME NEW l \in POLine PROVE fulfilled'[l] = Lots(grns')[l]
      <3>1. fulfilled[l] = Lots(grns)[l] /\ Lots(grns)[l] \in Int
        BY <2>4 DEF WholeWith, OneLotMore
      <3>2. /\ fulfilled'[l] = IF l \in ToSet(LinesOf[d]) THEN fulfilled[l] + 1 ELSE fulfilled[l]
            /\ Lots(grns')[l] = Lots(grns)[l] + (IF l \in ToSet(LinesOf[d]) THEN 1 ELSE 0)
        BY <2>1, <2>4 DEF OneLotMore
      <3>3. QED
        BY <3>1, <3>2
    <2>6. ASSUME NEW p \in Product PROVE onHand'[p] + sold'[p] = SumOf(Lots(grns'), LinesFor(p))
      <3> DEFINE x == SumOf(Lots(grns), LinesFor(p))
                 y == SumOf(Lots(grns'), LinesFor(p))
                 gain == IF \E l \in ToSet(LinesOf[d]) : ProductOf[l] = p THEN 1 ELSE 0
      <3>1. onHand[p] + sold[p] = x /\ y = x + gain /\ onHand'[p] = onHand[p] + gain
        BY <2>2, <2>4 DEF WholeWith, OneLotMore
      <3>2. sold'[p] = sold[p] /\ onHand[p] \in Int /\ sold[p] \in Int /\ gain \in Int
        BY <1>1, <2>1
      <3> HIDE DEF x, y, gain
      <3>3. onHand'[p] + sold'[p] = y
        BY <3>1, <3>2
      <3>4. QED
        BY <3>3 DEF y
    <2>7. QED
      BY <2>5, <2>6 DEF WholeWith
  <1>3. ASSUME NEW p \in Product, NEW qty \in 1..MaxSold, Sell(p, qty)
        PROVE  WholeWith(fulfilled', onHand', sold', grns')
    <2>1. /\ onHand' = [onHand EXCEPT ![p] = @ - qty] /\ sold' = [sold EXCEPT ![p] = @ + qty]
          /\ fulfilled' = fulfilled /\ grns' = grns
      BY <1>3 DEF Sell
    <2>2. qty \in Int
      BY ProcurementConstants
    <2>3. ASSUME NEW q \in Product PROVE onHand'[q] + sold'[q] = onHand[q] + sold[q]
      <3>1. onHand[q] \in Int /\ sold[q] \in Int
        BY <1>1
      <3>2. CASE q = p
        <4>1. onHand'[q] = onHand[q] - qty /\ sold'[q] = sold[q] + qty
          BY <1>1, <2>1, <3>2
        <4>2. QED
          BY <2>2, <3>1, <4>1
      <3>3. CASE q # p
        BY <1>1, <2>1, <3>3
      <3>4. QED
        BY <3>2, <3>3
    <2>4. QED
      BY <2>1, <2>3 DEF WholeWith
  <1>4. CASE /\ ~\E r \in Request : PostGRN(r)
             /\ ~\E p \in Product, qty \in 1..MaxSold : Sell(p, qty)
    <2>1. UNCHANGED <<fulfilled, onHand, sold, grns>>
      BY <1>4, OnlyPostGRN, OnlyMoves
    <2>2. QED
      BY <2>1 DEF WholeWith
  <1>5. QED
    BY <1>2, <1>3, <1>4

-----------------------------------------------------------------------------
(* What the requests, the forms and the statuses know, together.           *)
OrderInv ==
  /\ TypeInv /\ Recorded /\ FormsKnow /\ ReadsKnow /\ StatusesTell
  /\ WholeWith(fulfilled, onHand, sold, grns)

(* Every step keeps all parts of the invariant.                            *)
LEMMA OrderInvStep == OrderInv /\ [Next]_vars => OrderInv'
  <1> SUFFICES ASSUME OrderInv, [Next]_vars PROVE OrderInv'
    OBVIOUS
  <1>1. TypeInv' /\ Recorded' /\ FormsKnow' /\ ReadsKnow' /\ StatusesTell'
    BY TypeStep, RecordedStep, FormsStep, ReadsStep, StatusesStep DEF OrderInv
  <1>2. WholeWith(fulfilled', onHand', sold', grns')
    BY WholeStep DEF OrderInv
  <1>3. WholeWith(fulfilled, onHand, sold, grns)'
    BY <1>2 DEF WholeWith, Lots, LinesFor, SumOf, With, MapThenSumSet, MapThenFoldSet
  <1>4. QED
    BY <1>1, <1>3 DEF OrderInv

(* They hold when the behaviour begins.                                    *)
LEMMA OrderInvInit == Init => OrderInv
  BY InitTypes, RecordedInit, FormsInit, ReadsInit, StatusesInit, WholeInit DEF OrderInv

(* What the POSTED GRNs say was received is what the lines are credited    *)
(* with and what the Stores gained, and the status of a PO tells it:       *)
(* RECEIVED when every line is full, PARTIALLY_RECEIVED when some goods    *)
(* came, unless two GRNs overlapped or the PO was sent once more           *)
(* (post_grn, services.py:277-309; send_po, 170).                          *)
THEOREM ReceiptsTold == Spec => []ReceiptsAddUp
  <1>1. OrderInv => ReceiptsAddUp
    <2> SUFFICES ASSUME OrderInv PROVE ReceiptsAddUp
      OBVIOUS
    <2>1. ReceiptsAreWhole
      BY WholeIs DEF OrderInv
    <2>2. StatusTellsReceipt
      BY DEF OrderInv, StatusesTell, StatusTells, StatusTellsReceipt, Full, Some
    <2>3. QED
      BY <2>1, <2>2 DEF ReceiptsAddUp
  <1>2. QED
    BY <1>1, OrderInvInit, OrderInvStep, PTL DEF Spec

-----------------------------------------------------------------------------
(* What the deliveries cost, entered as often as n says, by delivery and   *)
(* by PO.                                                                  *)
Costs(n) == [d \in Delivery |-> n[d] * Worth[d]]
ValueBy(n, o) == MapThenSumSet(LAMBDA d : n[d] * Worth[d], DeliveriesOf(o))

(* What the GRNs of a delivery cost is a number.                           *)
LEMMA CostsAre ==
  ASSUME NEW n, \A d \in Delivery : n[d] \in Nat, NEW d \in Delivery
  PROVE  Costs(n)[d] = n[d] * Worth[d] /\ Costs(n)[d] \in Nat /\ Worth[d] \in Nat
  <1>1. Worth[d] \in Nat /\ n[d] \in Nat
    BY ProcurementConstants
  <1>2. \A a, b \in Nat : a * b \in Nat
    OBVIOUS
  <1>3. n[d] * Worth[d] \in Nat
    BY <1>1, <1>2
  <1>4. QED
    BY <1>1, <1>3 DEF Costs

(* The value of an order is a sum over its deliveries, and a number.       *)
LEMMA ValuesAre ==
  ASSUME NEW n, \A d \in Delivery : n[d] \in Nat, NEW o
  PROVE  ValueBy(n, o) = SumOf(Costs(n), DeliveriesOf(o)) /\ ValueBy(n, o) \in Nat
  <1> DEFINE f == Costs(n)
             S == DeliveriesOf(o)
             Sums(g) == g = [R \in SUBSET S |->
                     IF R = {} THEN 0
                     ELSE n[CHOOSE x \in R : TRUE] * Worth[CHOOSE x \in R : TRUE]
                            + g[R \ {CHOOSE x \in R : TRUE}]]
             it == CHOOSE g : Sums(g)
  <1>1. ValueBy(n, o) = it[S]
    BY DEF ValueBy, MapThenSumSet, MapThenFoldSet
  <1>2. \A d \in S : f[d] = n[d] * Worth[d] /\ f[d] \in Nat
    BY CostsAre DEF DeliveriesOf
  <1>3. IsFiniteSet(S) /\ \A d \in S : f[d] \in Int
    BY <1>2, Finite
  <1> HIDE DEF f, S
  <1>4. ASSUME NEW g PROVE Sums(g) <=> Adds(g, f, S)
    <2>1. \A R \in SUBSET S : R # {} => Pick(R) \in S
      BY DEF Pick
    <2>2. \A R \in SUBSET S : R # {} => f[Pick(R)] = n[Pick(R)] * Worth[Pick(R)]
      BY <1>2, <2>1
    <2>3. [R \in SUBSET S |-> IF R = {} THEN 0 ELSE n[Pick(R)] * Worth[Pick(R)] + g[R \ {Pick(R)}]]
            = [R \in SUBSET S |-> IF R = {} THEN 0 ELSE f[Pick(R)] + g[R \ {Pick(R)}]]
      BY <2>2
    <2>4. QED
      BY <2>3 DEF Adds, Pick
  <1> HIDE DEF Sums
  <1>5. \E g : Adds(g, f, S)
    BY <1>3, SumDefined
  <1>6. Adds(it, f, S)
    BY <1>4, <1>5
  <1> HIDE DEF it
  <1>7. it[S] = SumOf(f, S)
    BY <1>3, <1>6, SumIs
  <1>8. SumOf(f, S) \in Nat
    <2> DEFINE zero == [x \in S |-> 0]
    <2>1. \A x \in S : zero[x] = 0 /\ zero[x] \in Int /\ f[x] \in Int /\ zero[x] <= f[x]
      BY <1>2
    <2> HIDE DEF zero
    <2>2. SumOf(zero, S) = 0 /\ SumOf(f, S) \in Int /\ SumOf(zero, S) <= SumOf(f, S)
      BY <1>3, <2>1, SumZero, SumLess
    <2>3. QED
      BY <2>2
  <1>9. QED
    BY <1>1, <1>7, <1>8 DEF f, S

(* The costs of the POs in Q, by PO and by delivery.                       *)
Registered == {o \in PO : poStatus[o] # "ABSENT"}
Values(n) == [o \in PO |-> ValueBy(n, o)]
Ordering(Q) == {d \in Delivery : POOfDelivery(d) \in Q}

(* The costs by order add up to the costs by delivery.                     *)
LEMMA CostsByPO ==
  ASSUME NEW n, \A d \in Delivery : n[d] \in Nat, NEW Q, Q \subseteq PO
  PROVE  SumOf(Values(n), Q) = SumOf(Costs(n), Ordering(Q))
  <1> DEFINE Good == {R \in SUBSET Q : SumOf(Values(n), R) = SumOf(Costs(n), Ordering(R))}
  <1>1. IsFiniteSet(Q)
    BY Finite, FS_Subset
  <1>2. \A R : IsFiniteSet(Ordering(R)) /\ \A d \in Ordering(R) : Costs(n)[d] \in Int
    <2>1. \A R : Ordering(R) \subseteq Delivery
      BY DEF Ordering
    <2>2. \A d \in Delivery : Costs(n)[d] \in Int
      BY CostsAre
    <2>3. QED
      BY <2>1, <2>2, Finite, FS_Subset
  <1>3. {} \in Good
    <2>1. Ordering({}) = {}
      BY DEF Ordering
    <2>2. SumOf(Values(n), {}) = 0 /\ SumOf(Costs(n), {}) = 0
      BY FS_EmptySet, SumZero
    <2>3. QED
      BY <2>1, <2>2
  <1>4. ASSUME NEW R \in SUBSET Q, NEW o \in Q, R \in Good, o \notin R PROVE R \cup {o} \in Good
    <2> DEFINE v == Values(n)
               c == Costs(n)
    <2>1. \A q \in R \cup {o} : v[q] \in Int
      BY ValuesAre DEF Values
    <2>2. v[o] = SumOf(c, DeliveriesOf(o))
      BY ValuesAre DEF Values
    <2>3. /\ Ordering(R \cup {o}) = DeliveriesOf(o) \cup Ordering(R)
          /\ DeliveriesOf(o) \cap Ordering(R) = {}
      BY <1>4 DEF Ordering, DeliveriesOf
    <2>4. \A d \in DeliveriesOf(o) \cup Ordering(R) : c[d] \in Int
      <3>1. \A d \in DeliveriesOf(o) : d \in Ordering({o})
        BY DEF DeliveriesOf, Ordering
      <3>2. QED
        BY <1>2, <3>1
    <2>5. IsFiniteSet(R) /\ IsFiniteSet(DeliveriesOf(o)) /\ IsFiniteSet(Ordering(R))
      BY <1>1, <1>2, Finite, FS_Subset
    <2>6. SumOf(v, R) = SumOf(c, Ordering(R))
      BY <1>4
    <2> HIDE DEF v, c
    <2>7. SumOf(v, R \cup {o}) = v[o] + SumOf(v, R)
      BY <1>4, <2>1, <2>5, SumInsert
    <2>8. SumOf(c, DeliveriesOf(o) \cup Ordering(R)) = SumOf(c, DeliveriesOf(o)) + SumOf(c, Ordering(R))
      BY <2>3, <2>4, <2>5, SumUnion
    <2>9. SumOf(v, R \cup {o}) = SumOf(c, Ordering(R \cup {o}))
      BY <2>2, <2>3, <2>6, <2>7, <2>8
    <2>10. QED
      BY <2>9 DEF v, c
  <1>5. Q \in Good
    <2> HIDE DEF Good
    <2>1. QED
      BY <1>1, <1>3, <1>4, GrowSet
  <1>6. QED
    BY <1>5

(* The rows of the GRN register, and what they add up to.                  *)
Row(d, k) == [delivery |-> d, copy |-> k, po |-> POOfDelivery(d), value |-> Worth[d]]
AllRows == {Row(d, k) : d \in Delivery, k \in Nat}
RowValue == [g \in AllRows |-> g.value]
RowsOf(d, n) == {Row(d, k) : k \in 1..n}
RegisterBy(n, D) == UNION {RowsOf(d, n[d]) : d \in D}

(* A row of the register has the worth of its delivery.                    *)
LEMMA RowTypes ==
  ASSUME NEW d \in Delivery, NEW k \in Nat
  PROVE  /\ Row(d, k) \in AllRows /\ RowValue[Row(d, k)] = Worth[d]
         /\ Row(d, k).delivery = d /\ Row(d, k).copy = k /\ Row(d, k).po = POOfDelivery(d)
  <1>1. Row(d, k) \in AllRows
    BY DEF AllRows
  <1>2. RowValue[Row(d, k)] = Row(d, k).value
    BY <1>1 DEF RowValue
  <1>3. /\ Row(d, k).delivery = d /\ Row(d, k).copy = k /\ Row(d, k).po = POOfDelivery(d)
        /\ Row(d, k).value = Worth[d]
    BY DEF Row
  <1>4. QED
    BY <1>1, <1>2, <1>3

(* The rows of one delivery.                                               *)
LEMMA RowsCost ==
  ASSUME NEW d \in Delivery, NEW n \in Nat
  PROVE  IsFiniteSet(RowsOf(d, n)) /\ SumOf(RowValue, RowsOf(d, n)) = n * Worth[d]
  <1> DEFINE P(m) == IsFiniteSet(RowsOf(d, m)) /\ SumOf(RowValue, RowsOf(d, m)) = m * Worth[d]
             Bad == {m \in Nat : ~P(m)}
  <1>1. Worth[d] \in Nat
    BY ProcurementConstants
  <1>2. P(0)
    <2>1. RowsOf(d, 0) = {}
      BY DEF RowsOf
    <2>2. IsFiniteSet({}) /\ SumOf(RowValue, {}) = 0
      BY FS_EmptySet, SumZero
    <2>3. QED
      BY <1>1, <2>1, <2>2
  <1>3. ASSUME NEW m \in Nat, P(m) PROVE P(m + 1)
    <2> DEFINE A == RowsOf(d, m)
               x == Row(d, m + 1)
               v == RowValue
    <2>1. RowsOf(d, m + 1) = A \cup {x}
      <3>1. 1..(m + 1) = 1..m \cup {m + 1}
        OBVIOUS
      <3>2. QED
        BY <3>1 DEF RowsOf
    <2>2. \A k \in 1..m : Row(d, k) # x
      <3>1. \A k \in 1..m : k \in Nat /\ k # m + 1
        OBVIOUS
      <3>2. \A k \in 1..m : Row(d, k).copy = k
        BY <3>1, RowTypes
      <3>3. x.copy = m + 1
        BY RowTypes
      <3>4. QED
        BY <3>1, <3>2, <3>3
    <2>3. x \notin A
      BY <2>2 DEF RowsOf
    <2>4. v[x] = Worth[d]
      BY RowTypes
    <2>5. \A g \in A : v[g] = Worth[d]
      <3>1. \A k \in 1..m : RowValue[Row(d, k)] = Worth[d]
        BY RowTypes
      <3>2. QED
        BY <3>1 DEF RowsOf
    <2>6. IsFiniteSet(A) /\ SumOf(v, A) = m * Worth[d]
      BY <1>3
    <2> HIDE DEF A, x, v
    <2>7. \A g \in A \cup {x} : v[g] \in Int
      BY <1>1, <2>4, <2>5
    <2>8. IsFiniteSet(A \cup {x})
      BY <2>6, FS_AddElement
    <2>9. SumOf(v, A \cup {x}) = v[x] + SumOf(v, A)
      BY <2>3, <2>6, <2>7, SumInsert
    <2>10. SumOf(v, A \cup {x}) = (m + 1) * Worth[d]
      <3>1. \A a \in Nat : a + m * a = (m + 1) * a
        OBVIOUS
      <3>2. QED
        BY <1>1, <2>4, <2>6, <2>9, <3>1
    <2>11. QED
      BY <2>1, <2>8, <2>10 DEF v
  <1>4. Bad = {}
    <2> SUFFICES ASSUME Bad # {} PROVE FALSE
      OBVIOUS
    <2> HIDE DEF P
    <2>1. PICK m \in Bad : \A k \in Bad : m <= k
      BY LeastExists
    <2>2. m # 0 /\ m \in Nat /\ ~P(m)
      BY <1>2
    <2>3. m - 1 \in Nat /\ P(m - 1)
      BY <2>1, <2>2
    <2>4. P((m - 1) + 1)
      BY <1>3, <2>3
    <2>5. QED
      BY <2>2, <2>4
  <1>5. QED
    BY <1>4

(* The rows of the deliveries.                                             *)
LEMMA RegisterCost ==
  ASSUME NEW n, \A d \in Delivery : n[d] \in Nat
  PROVE  /\ IsFiniteSet(RegisterBy(n, Delivery))
         /\ SumOf(RowValue, RegisterBy(n, Delivery)) = SumOf(Costs(n), Delivery)
  <1> DEFINE c == Costs(n)
             Good == {R \in SUBSET Delivery : /\ IsFiniteSet(RegisterBy(n, R))
                                              /\ SumOf(RowValue, RegisterBy(n, R)) = SumOf(c, R)}
  <1>1. \A R \in SUBSET Delivery : \A g \in RegisterBy(n, R) :
          RowValue[g] \in Int /\ g.delivery \in R
    <2>1. \A d \in Delivery : \A k \in 1..n[d] :
            RowValue[Row(d, k)] \in Int /\ Row(d, k).delivery = d
      <3>1. \A d \in Delivery : Worth[d] \in Int
        BY ProcurementConstants
      <3>2. \A d \in Delivery, k \in Nat : RowValue[Row(d, k)] = Worth[d] /\ Row(d, k).delivery = d
        BY RowTypes
      <3>3. \A d \in Delivery : \A k \in 1..n[d] : k \in Nat
        OBVIOUS
      <3>4. QED
        BY <3>1, <3>2, <3>3
    <2>2. QED
      BY <2>1 DEF RegisterBy, RowsOf
  <1>2. {} \in Good
    <2>1. RegisterBy(n, {}) = {}
      BY DEF RegisterBy
    <2>2. IsFiniteSet({}) /\ SumOf(RowValue, {}) = 0 /\ SumOf(c, {}) = 0
      BY FS_EmptySet, SumZero
    <2>3. QED
      BY <2>1, <2>2
  <1>3. ASSUME NEW R \in SUBSET Delivery, NEW d \in Delivery, R \in Good, d \notin R PROVE R \cup {d} \in Good
    <2> DEFINE A == RowsOf(d, n[d])
               B == RegisterBy(n, R)
    <2>1. RegisterBy(n, R \cup {d}) = A \cup B
      BY DEF RegisterBy
    <2>2. A = RegisterBy(n, {d})
      BY DEF RegisterBy
    <2>3. \A g \in A : RowValue[g] \in Int /\ g.delivery = d
      BY <1>1, <2>2
    <2>4. \A g \in B : RowValue[g] \in Int /\ g.delivery \in R
      BY <1>1
    <2>5. A \cap B = {}
      BY <1>3, <2>3, <2>4
    <2>6. IsFiniteSet(A) /\ SumOf(RowValue, A) = n[d] * Worth[d]
      BY RowsCost
    <2>7. IsFiniteSet(B) /\ SumOf(RowValue, B) = SumOf(c, R)
      BY <1>3
    <2>8. IsFiniteSet(R) /\ \A e \in R \cup {d} : c[e] \in Int
      BY Finite, FS_Subset, CostsAre
    <2>9. c[d] = n[d] * Worth[d]
      BY CostsAre
    <2> HIDE DEF A, B, c
    <2>10. SumOf(RowValue, A \cup B) = SumOf(RowValue, A) + SumOf(RowValue, B)
      BY <2>3, <2>4, <2>5, <2>6, <2>7, SumUnion
    <2>11. SumOf(c, R \cup {d}) = c[d] + SumOf(c, R)
      BY <1>3, <2>8, SumInsert
    <2>12. IsFiniteSet(A \cup B)
      BY <2>6, <2>7, FS_Union
    <2>13. SumOf(RowValue, A \cup B) = SumOf(c, R \cup {d})
      BY <2>6, <2>7, <2>9, <2>10, <2>11
    <2>14. QED
      BY <2>1, <2>12, <2>13 DEF c
  <1>4. Delivery \in Good
    <2> HIDE DEF Good
    <2>1. QED
      BY <1>2, <1>3, Finite, GrowSet
  <1>5. QED
    BY <1>4

(* Total adds up the values of rows.                                       *)
LEMMA TotalIs ==
  ASSUME NEW S, IsFiniteSet(S), S \subseteq AllRows
  PROVE  Total(S) = SumOf(RowValue, S)
  <1> DEFINE f == RowValue
             Sums(g) == g = [R \in SUBSET S |->
                     IF R = {} THEN 0
                     ELSE (CHOOSE x \in R : TRUE).value + g[R \ {CHOOSE x \in R : TRUE}]]
             it == CHOOSE g : Sums(g)
  <1>1. Total(S) = it[S]
    BY DEF Total, MapThenSumSet, MapThenFoldSet
  <1>2. \A x \in S : f[x] = x.value /\ f[x] \in Int
    <2>1. \A d \in Delivery, k \in Nat : RowValue[Row(d, k)] = Worth[d] /\ Worth[d] \in Int
      BY RowTypes, ProcurementConstants
    <2>2. \A x \in S : RowValue[x] \in Int
      BY <2>1 DEF AllRows
    <2>3. \A x \in S : RowValue[x] = x.value
      BY DEF RowValue
    <2>4. QED
      BY <2>2, <2>3
  <1> HIDE DEF f
  <1>3. ASSUME NEW g PROVE Sums(g) <=> Adds(g, f, S)
    <2>1. \A R \in SUBSET S : R # {} => Pick(R) \in S
      BY DEF Pick
    <2>2. \A R \in SUBSET S : R # {} => f[Pick(R)] = Pick(R).value
      BY <1>2, <2>1
    <2>3. [R \in SUBSET S |-> IF R = {} THEN 0 ELSE Pick(R).value + g[R \ {Pick(R)}]]
            = [R \in SUBSET S |-> IF R = {} THEN 0 ELSE f[Pick(R)] + g[R \ {Pick(R)}]]
      BY <2>2
    <2>4. QED
      BY <2>3 DEF Adds, Pick
  <1> HIDE DEF Sums
  <1>4. \E g : Adds(g, f, S)
    BY <1>2, SumDefined
  <1>5. Adds(it, f, S)
    BY <1>3, <1>4
  <1> HIDE DEF it
  <1>6. it[S] = SumOf(f, S)
    BY <1>2, <1>5, SumIs
  <1>7. QED
    BY <1>1, <1>6 DEF f

(* The actual cost of the budget is what the deliveries cost: goods come   *)
(* in for POs that exist only.                                             *)
LEMMA ActualCostIs ==
  ASSUME OrderInv
  PROVE  /\ ActualCost = SumOf(Values(grns), Registered)
         /\ ActualCost = SumOf(Costs(grns), Delivery)
         /\ \A o \in Registered : ValueBy(grns, o) <= ActualCost
  <1>1. \A d \in Delivery : grns[d] \in Nat
    BY DEF OrderInv, TypeInv, OthersTyped
  <1> DEFINE f == Values(grns)
             S == Registered
             Sums(g) == g = [R \in SUBSET S |->
                     IF R = {} THEN 0
                     ELSE ValueBy(grns, CHOOSE x \in R : TRUE) + g[R \ {CHOOSE x \in R : TRUE}]]
             it == CHOOSE g : Sums(g)
  <1>2. DOMAIN PORegister = S
    BY DEF PORegister, Registered
  <1>3. ActualCost = it[S]
    BY <1>2 DEF ActualCost, GRNValue, ValueBy, MapThenSumSet, MapThenFoldSet
  <1>4. \A o \in S : f[o] = ValueBy(grns, o) /\ f[o] \in Nat
    BY <1>1, ValuesAre DEF Values, Registered
  <1>5. S \subseteq PO /\ IsFiniteSet(S) /\ \A o \in S : f[o] \in Int
    BY <1>4, Finite, FS_Subset DEF Registered
  <1>6. SumOf(f, S) = SumOf(Costs(grns), Ordering(S))
    BY <1>1, <1>5, CostsByPO
  <1> HIDE DEF f, S
  <1>7. ASSUME NEW g PROVE Sums(g) <=> Adds(g, f, S)
    <2>1. \A R \in SUBSET S : R # {} => Pick(R) \in S
      BY DEF Pick
    <2>2. \A R \in SUBSET S : R # {} => f[Pick(R)] = ValueBy(grns, Pick(R))
      BY <1>4, <2>1
    <2>3. [R \in SUBSET S |-> IF R = {} THEN 0 ELSE ValueBy(grns, Pick(R)) + g[R \ {Pick(R)}]]
            = [R \in SUBSET S |-> IF R = {} THEN 0 ELSE f[Pick(R)] + g[R \ {Pick(R)}]]
      BY <2>2
    <2>4. QED
      BY <2>3 DEF Adds, Pick
  <1> HIDE DEF Sums
  <1>8. \E g : Adds(g, f, S)
    BY <1>5, SumDefined
  <1>9. Adds(it, f, S)
    BY <1>7, <1>8
  <1> HIDE DEF it
  <1>10. it[S] = SumOf(f, S)
    BY <1>5, <1>9, SumIs
  <1>11. \A o \in S : f[o] <= SumOf(f, S)
    BY <1>4, <1>5, SumMember
  <1>12. SumOf(Costs(grns), Delivery) = SumOf(Costs(grns), Ordering(S))
    <2> DEFINE A == Ordering(S)
               B == Delivery \ Ordering(S)
               c == Costs(grns)
    <2>1. A \cup B = Delivery /\ A \cap B = {}
      BY DEF Ordering
    <2>2. IsFiniteSet(A) /\ IsFiniteSet(B)
      <3>1. A \subseteq Delivery /\ B \subseteq Delivery
        BY DEF Ordering
      <3>2. QED
        BY <3>1, Finite, FS_Subset
    <2>3. \A d \in Delivery : c[d] \in Int
      BY <1>1, CostsAre
    <2>4. ASSUME NEW d \in B PROVE c[d] = 0
      <3>1. d \in Delivery /\ POOfDelivery(d) \in PO /\ POOfDelivery(d) \notin S
        BY DeliveryTypes DEF Ordering
      <3>2. poStatus[POOfDelivery(d)] = "ABSENT"
        BY <3>1 DEF S, Registered
      <3>3. ~(grns[d] > 0)
        BY <3>1, <3>2 DEF OrderInv, Recorded
      <3>4. grns[d] = 0
        BY <1>1, <3>1, <3>3
      <3>5. c[d] = 0 * Worth[d] /\ Worth[d] \in Nat
        BY <1>1, <3>1, <3>4, CostsAre
      <3>6. QED
        BY <3>5
    <2> HIDE DEF A, B, c
    <2>5. SumOf(c, B) = 0
      BY <2>2, <2>4, SumZero
    <2>6. SumOf(c, A) \in Int
      BY <2>1, <2>2, <2>3, SumInt
    <2>7. SumOf(c, A \cup B) = SumOf(c, A) + SumOf(c, B)
      <3>1. \A d \in A \cup B : c[d] \in Int
        BY <2>1, <2>3
      <3>2. QED
        BY <2>1, <2>2, <3>1, SumUnion
    <2>8. SumOf(c, Delivery) = SumOf(c, A)
      <3>1. SumOf(c, Delivery) = SumOf(c, A) + SumOf(c, B)
        <4>1. A \cup B = Delivery
          BY <2>1
        <4>2. QED
          BY <2>7, <4>1, Zenon
      <3>2. SumOf(c, Delivery) = SumOf(c, A) + 0
        BY <2>5, <3>1, Zenon
      <3>3. \A x \in Int : x + 0 = x
        OBVIOUS
      <3>4. QED
        BY <2>6, <3>2, <3>3, Zenon
    <2>9. QED
      BY <2>8 DEF A, c
  <1>13. ActualCost = SumOf(f, S)
    BY <1>3, <1>10
  <1>14. \A o \in S : ValueBy(grns, o) <= ActualCost
    BY <1>4, <1>11, <1>13
  <1>15. QED
    BY <1>6, <1>12, <1>13, <1>14 DEF f, S

-----------------------------------------------------------------------------
(* An invoice that matched is for a PO that exists, over what was ordered, *)
(* and over no more than what has come in for it.                          *)
CoveredBy(i, ps, n, m, b, bp) ==
  m[i] = "MATCHED" =>
    /\ bp[i] \in PO /\ ps[bp[i]] # "ABSENT" /\ b[i] = POValue(bp[i])
    /\ b[i] <= ValueBy(n, bp[i])

MatchesCover == \A i \in Invoice : CoveredBy(i, poStatus, grns, match, billed, billedPO)

(* No invoice is matched when the behaviour begins.                        *)
LEMMA MatchesInit == Init => MatchesCover
  BY DEF Init, MatchesCover, CoveredBy

(* Deliveries are not taken back.                                          *)
LEMMA ValueGrows ==
  ASSUME TypeInv, [Next]_vars, NEW o
  PROVE  ValueBy(grns, o) \in Nat /\ ValueBy(grns', o) \in Nat /\ ValueBy(grns, o) <= ValueBy(grns', o)
  <1>1. \A d \in Delivery : grns[d] \in Nat
    BY DEF TypeInv, OthersTyped
  <1>2. ASSUME NEW d \in Delivery PROVE grns'[d] \in Nat /\ grns[d] <= grns'[d]
    <2>1. grns[d] \in Nat
      BY <1>1
    <2>2. grns'[d] = grns[d] \/ grns'[d] = grns[d] + 1
      <3>1. CASE \E r \in Request : PostGRN(r)
        BY <3>1, PostGRNEffect
      <3>2. CASE ~\E r \in Request : PostGRN(r)
        BY <3>2, OnlyPostGRN
      <3>3. QED
        BY <3>1, <3>2
    <2>3. QED
      BY <2>1, <2>2
  <1>3. ASSUME NEW d \in DeliveriesOf(o)
        PROVE  Costs(grns)[d] \in Int /\ Costs(grns')[d] \in Int /\ Costs(grns)[d] <= Costs(grns')[d]
    <2>1. d \in Delivery
      BY DEF DeliveriesOf
    <2>2. /\ Costs(grns)[d] = grns[d] * Worth[d] /\ Costs(grns)[d] \in Nat /\ Worth[d] \in Nat
          /\ Costs(grns')[d] = grns'[d] * Worth[d] /\ Costs(grns')[d] \in Nat
      BY <1>1, <1>2, <2>1, CostsAre
    <2>3. \A a, b, w \in Nat : a <= b => a * w <= b * w
      OBVIOUS
    <2>4. grns[d] \in Nat /\ grns'[d] \in Nat /\ grns[d] <= grns'[d]
      BY <1>1, <1>2, <2>1
    <2>5. grns[d] * Worth[d] <= grns'[d] * Worth[d]
      BY <2>2, <2>3, <2>4
    <2>6. QED
      BY <2>2, <2>5
  <1>4. SumOf(Costs(grns), DeliveriesOf(o)) <= SumOf(Costs(grns'), DeliveriesOf(o))
    <2> DEFINE f == Costs(grns)
               h == Costs(grns')
               S == DeliveriesOf(o)
    <2>1. IsFiniteSet(S) /\ \A d \in S : f[d] \in Int /\ h[d] \in Int /\ f[d] <= h[d]
      BY <1>3, Finite
    <2> HIDE DEF f, h, S
    <2>2. SumOf(f, S) <= SumOf(h, S)
      BY <2>1, SumLess
    <2>3. QED
      BY <2>2 DEF f, h, S
  <1>5. /\ ValueBy(grns, o) = SumOf(Costs(grns), DeliveriesOf(o)) /\ ValueBy(grns, o) \in Nat
        /\ ValueBy(grns', o) = SumOf(Costs(grns'), DeliveriesOf(o)) /\ ValueBy(grns', o) \in Nat
    BY <1>1, <1>2, ValuesAre
  <1>6. QED
    BY <1>4, <1>5

(* Only an invoice that is entered matches.                                *)
LEMMA OnlyEntered ==
  ASSUME TypeInv, [Next]_vars, NEW i \in Invoice, match'[i] = "MATCHED"
  PROVE  \/ match[i] = "MATCHED" /\ billed'[i] = billed[i] /\ billedPO'[i] = billedPO[i]
         \/ \E o \in PO, amount \in Amount :
              /\ poStatus[o] # "ABSENT" /\ Agrees(o, amount) /\ UNCHANGED <<poStatus, grns>>
              /\ billed'[i] = amount /\ billedPO'[i] = o
  <1>1. match \in [Invoice -> MatchStatus] /\ billed \in [Invoice -> Nat] /\ billedPO \in [Invoice -> PO \cup {None}]
    BY DEF TypeInv, OthersTyped
  <1>2. CASE UNCHANGED invoices
    BY <1>2 DEF invoices
  <1>3. ASSUME NEW j \in Invoice, EnterInvoice(j)
        PROVE  \/ match[i] = "MATCHED" /\ billed'[i] = billed[i] /\ billedPO'[i] = billedPO[i]
               \/ \E o \in PO, amount \in Amount :
                    /\ poStatus[o] # "ABSENT" /\ Agrees(o, amount) /\ UNCHANGED <<poStatus, grns>>
                    /\ billed'[i] = amount /\ billedPO'[i] = o
    <2>1. PICK o \in PO, amount \in Amount : poStatus[o] # "ABSENT" /\ MatchInvoice(j, o, amount)
      BY <1>3 DEF EnterInvoice
    <2>2. /\ billed' = [billed EXCEPT ![j] = amount] /\ billedPO' = [billedPO EXCEPT ![j] = o]
          /\ match' = [match EXCEPT ![j] = IF Agrees(o, amount) THEN "MATCHED" ELSE "DISCREPANCY"]
          /\ UNCHANGED <<poStatus, grns>>
      BY <2>1 DEF MatchInvoice, documents, purchase, receipts
    <2>3. CASE j # i
      BY <1>1, <2>2, <2>3
    <2>4. CASE j = i
      <3>1. Agrees(o, amount) /\ billed'[i] = amount /\ billedPO'[i] = o
        BY <1>1, <2>2, <2>4
      <3>2. QED
        BY <2>1, <2>2, <3>1
    <2>5. QED
      BY <2>3, <2>4
  <1>4. ASSUME NEW j \in Invoice, ActOnMatch(j)
        PROVE  match[i] = "MATCHED" /\ billed'[i] = billed[i] /\ billedPO'[i] = billedPO[i]
    <2>1. PICK new \in {"RESOLVED", "DISPUTED", "ESCALATED"} : SetMatch(j, new)
      BY <1>4 DEF ActOnMatch
    <2>2. match' = [match EXCEPT ![j] = new] /\ UNCHANGED <<billed, billedPO>>
      BY <2>1 DEF SetMatch
    <2>3. j # i
      BY <1>1, <2>2
    <2>4. QED
      BY <1>1, <2>2, <2>3
  <1>5. CASE ~\E j \in Invoice : EnterInvoice(j) \/ ActOnMatch(j)
    <2>1. ASSUME NEW r \in Request, RequestStep(r) PROVE UNCHANGED invoices
      BY <2>1 DEF RequestStep, Step, StartSend, SubmitGRN, Email, SaveSend, PostLine, RaiseInsufficient,
         ReadLines, PostGRN, Abort
    <2>2. UNCHANGED invoices
      BY <1>5, <2>1, StepKinds DEF vars, CreateBudget, BudgetSubmit, SubmitBudget, BudgetDecided,
         PurchaseOrderCreate, CreatePO, LoseConnection, Sell
    <2>3. QED
      BY <1>2, <2>2
  <1>6. QED
    BY <1>3, <1>4, <1>5

(* A match stays covered by what was received.                             *)
LEMMA MatchesStep ==
  ASSUME TypeInv, Recorded, MatchesCover, [Next]_vars
  PROVE  MatchesCover'
  <1> SUFFICES ASSUME NEW i \in Invoice, match'[i] = "MATCHED"
               PROVE  /\ billedPO'[i] \in Registered' /\ billed'[i] = POValue(billedPO'[i])
                      /\ billed'[i] <= ValueBy(grns', billedPO'[i])
    <2>1. \A i \in Invoice : CoveredBy(i, poStatus', grns', match', billed', billedPO')
      <3> SUFFICES ASSUME NEW i \in Invoice, match'[i] = "MATCHED"
                   PROVE  /\ billedPO'[i] \in PO /\ poStatus'[billedPO'[i]] # "ABSENT"
                          /\ billed'[i] = POValue(billedPO'[i])
                          /\ billed'[i] <= ValueBy(grns', billedPO'[i])
        BY DEF CoveredBy
      <3>1. billedPO'[i] \in Registered'
        OBVIOUS
      <3>2. QED
        BY <3>1 DEF Registered
    <2>2. QED
      BY <2>1 DEF MatchesCover
  <1>1. billed \in [Invoice -> Nat]
    BY DEF TypeInv, OthersTyped
  <1>2. CASE match[i] = "MATCHED" /\ billed'[i] = billed[i] /\ billedPO'[i] = billedPO[i]
    <2> DEFINE o == billedPO[i]
    <2>1. o \in Registered /\ billed[i] = POValue(o) /\ billed[i] <= ValueBy(grns, o)
      BY <1>2 DEF MatchesCover, CoveredBy, Registered
    <2>2. o \in Registered'
      BY <2>1, StaysRecorded DEF Registered
    <2> HIDE DEF o
    <2>3. ValueBy(grns, o) \in Nat /\ ValueBy(grns', o) \in Nat /\ ValueBy(grns, o) <= ValueBy(grns', o)
      BY ValueGrows
    <2>4. billed[i] \in Nat
      BY <1>1
    <2>5. billed[i] <= ValueBy(grns', o)
      BY <2>1, <2>3, <2>4
    <2>6. QED
      BY <1>2, <2>1, <2>2, <2>5 DEF o
  <1>3. ASSUME NEW o \in PO, NEW amount \in Amount,
               poStatus[o] # "ABSENT", Agrees(o, amount), UNCHANGED <<poStatus, grns>>,
               billed'[i] = amount, billedPO'[i] = o
        PROVE  /\ billedPO'[i] \in Registered' /\ billed'[i] = POValue(billedPO'[i])
               /\ billed'[i] <= ValueBy(grns', billedPO'[i])
    <2>1. o \in Registered'
      BY <1>3 DEF Registered
    <2>2. amount = POValue(o) /\ amount = ValueBy(grns, o)
      BY <1>3 DEF Agrees, GRNValue, ValueBy
    <2>3. amount \in Nat
      BY ProcurementConstants
    <2>4. ValueBy(grns', o) = ValueBy(grns, o)
      BY <1>3
    <2>5. amount <= ValueBy(grns', o)
      BY <2>2, <2>3, <2>4
    <2>6. QED
      BY <1>3, <2>1, <2>2, <2>5
  <1>4. QED
    BY <1>2, <1>3, OnlyEntered

(* The money follows the goods: a delivery whose form closed is among the  *)
(* GRNs, twice only if its form lost a connection; an invoice that matched *)
(* is covered by what was ordered and by what came in; and a budget's      *)
(* actual cost is what the GRN register and the supplier's history add up  *)
(* to, once for each delivery while no connection was lost                 *)
(* (PurchaseOrdersTab.tsx:214-264, services.py:348-376,                    *)
(* selectors.py:35-40).                                                    *)
THEOREM CostsTold == Spec => []CostsAreDelivered
  <1>1. Init => OrderInv /\ MatchesCover
    BY OrderInvInit, MatchesInit
  <1>2. OrderInv /\ MatchesCover /\ [Next]_vars => OrderInv' /\ MatchesCover'
    BY OrderInvStep, MatchesStep DEF OrderInv
  <1>3. OrderInv /\ MatchesCover => CostsAreDelivered
    <2> SUFFICES ASSUME OrderInv, MatchesCover PROVE CostsAreDelivered
      OBVIOUS
    <2>1. /\ \A d \in Delivery : grns[d] \in Nat
          /\ entered \subseteq Delivery
      BY DEF OrderInv, TypeInv, OthersTyped
    <2>2. SecondReceiptNeedsSilence
      <3>1. \A d \in Delivery : FormKnows(d) /\ grns[d] \in Nat
        BY <2>1 DEF OrderInv, FormsKnow
      <3>2. \A d \in Delivery : grns[d] > 1 => d \in unsure
        BY <3>1 DEF FormKnows
      <3>3. \A d \in entered : grns[d] > 0
        BY <2>1, <3>1 DEF FormKnows
      <3>4. QED
        BY <3>2, <3>3 DEF SecondReceiptNeedsSilence
    <2>3. MatchedWasReceived
      <3> SUFFICES ASSUME NEW i \in Invoice, match[i] = "MATCHED"
                   PROVE  billed[i] = PORegister[billedPO[i]].total /\ billed[i] <= ActualCost
        BY DEF MatchedWasReceived
      <3>1. /\ billedPO[i] \in Registered /\ billed[i] = POValue(billedPO[i])
            /\ billed[i] <= ValueBy(grns, billedPO[i])
        BY DEF MatchesCover, CoveredBy, Registered
      <3>2. PORegister[billedPO[i]].total = POValue(billedPO[i])
        BY <3>1 DEF PORegister, Registered
      <3>3. ValueBy(grns, billedPO[i]) <= ActualCost
        BY <3>1, ActualCostIs
      <3>4. billed[i] \in Int /\ ValueBy(grns, billedPO[i]) \in Int /\ ActualCost \in Int
        <4>1. billed[i] \in Int
          BY DEF OrderInv, TypeInv, OthersTyped
        <4>2. ValueBy(grns, billedPO[i]) \in Int
          BY <2>1, ValuesAre
        <4>3. \A d \in Delivery : Costs(grns)[d] \in Int
          BY <2>1, CostsAre
        <4>4. ActualCost \in Int
          BY <4>3, ActualCostIs, Finite, SumInt
        <4>5. QED
          BY <4>1, <4>2, <4>4
      <3>5. billed[i] <= ActualCost
        BY <3>1, <3>3, <3>4
      <3>6. QED
        BY <3>1, <3>2, <3>5
    <2>4. GRNRegister = RegisterBy(grns, Delivery)
      BY DEF GRNRegister, RegisterBy, RowsOf, Row
    <2>5. \A g \in GRNRegister : g \in AllRows /\ g.po \in DOMAIN PORegister
      <3> SUFFICES ASSUME NEW d \in Delivery, NEW k \in 1..grns[d]
                   PROVE  Row(d, k) \in AllRows /\ Row(d, k).po \in DOMAIN PORegister
        BY <2>4 DEF RegisterBy, RowsOf
      <3>1. grns[d] \in Nat /\ k \in Nat /\ grns[d] > 0
        BY <2>1
      <3>2. Row(d, k) \in AllRows /\ Row(d, k).po = POOfDelivery(d)
        BY <3>1, RowTypes
      <3>3. POOfDelivery(d) \in PO /\ poStatus[POOfDelivery(d)] # "ABSENT"
        BY <3>1, DeliveryTypes DEF OrderInv, Recorded
      <3>4. QED
        BY <3>2, <3>3 DEF PORegister
    <2>6. BudgetVsActual.grnActual = Total(GRNRegister)
      <3>1. BudgetVsActual.grnActual = ActualCost
        BY DEF BudgetVsActual
      <3>2. /\ IsFiniteSet(RegisterBy(grns, Delivery))
            /\ SumOf(RowValue, RegisterBy(grns, Delivery)) = SumOf(Costs(grns), Delivery)
        BY <2>1, RegisterCost
      <3>3. Total(GRNRegister) = SumOf(RowValue, GRNRegister)
        BY <2>4, <2>5, <3>2, TotalIs
      <3>4. QED
        BY <2>4, <3>1, <3>2, <3>3, ActualCostIs
    <2>7. Total(SupplierHistory.grns) = Total(GRNRegister)
      <3>1. SupplierHistory.grns = GRNRegister
        BY <2>5 DEF SupplierHistory
      <3>2. QED
        BY <3>1
    <2>8. ASSUME unsure = {}
          PROVE  ActualCost = MapThenSumSet(LAMBDA d : Worth[d], {d \in Delivery : grns[d] > 0})
      <3> DEFINE A == {d \in Delivery : grns[d] > 0}
                 B == Delivery \ A
                 c == Costs(grns)
      <3>1. A \cup B = Delivery /\ A \cap B = {} /\ A \subseteq Delivery /\ B \subseteq Delivery
        OBVIOUS
      <3>2. IsFiniteSet(A) /\ IsFiniteSet(B)
        BY <3>1, Finite, FS_Subset
      <3>3. ASSUME NEW d \in Delivery
            PROVE  c[d] = grns[d] * Worth[d] /\ c[d] \in Int /\ Worth[d] \in Nat
        <4>1. c[d] = grns[d] * Worth[d] /\ c[d] \in Nat /\ Worth[d] \in Nat
          BY <2>1, CostsAre
        <4>2. QED
          BY <4>1
      <3>4. ASSUME NEW d \in B PROVE c[d] = 0
        <4>1. grns[d] = 0
          BY <2>1
        <4>2. QED
          BY <3>3, <4>1
      <3>5. ASSUME NEW d \in A PROVE Worth[d] = c[d]
        <4>1. grns[d] = 1
          BY <2>8 DEF OrderInv, FormsKnow, FormKnows
        <4>2. QED
          BY <3>3, <4>1
      <3>6. MapThenSumSet(LAMBDA d : Worth[d], {d \in Delivery : grns[d] > 0}) = SumOf(Worth, A)
        BY DEF SumOf
      <3>7. ActualCost = SumOf(c, Delivery)
        BY ActualCostIs
      <3> HIDE DEF A, B, c
      <3>8. SumOf(c, A) \in Int /\ SumOf(Worth, A) = SumOf(c, A)
        BY <3>1, <3>2, <3>3, <3>5, SumInt
      <3>9. SumOf(c, B) = 0
        BY <3>2, <3>4, SumZero
      <3>10. SumOf(c, A \cup B) = SumOf(c, A) + SumOf(c, B)
        BY <3>1, <3>2, <3>3, SumUnion
      <3>11. SumOf(c, Delivery) = SumOf(c, A) + 0
        <4>1. A \cup B = Delivery
          BY <3>1
        <4>2. SumOf(c, Delivery) = SumOf(c, A) + SumOf(c, B)
          BY <3>10, <4>1, Zenon
        <4>3. QED
          BY <3>9, <4>2, Zenon
      <3>12. \A x \in Int : x + 0 = x
        OBVIOUS
      <3>13. ActualCost = SumOf(Worth, A)
        BY <3>7, <3>8, <3>11, <3>12, Zenon
      <3>14. QED
        BY <3>6, <3>13, Zenon
    <2>9. QED
      BY <2>2, <2>3, <2>6, <2>7, <2>8 DEF CostsAreDelivered
  <1>4. QED
    BY <1>1, <1>2, <1>3, PTL DEF Spec
=============================================================================
