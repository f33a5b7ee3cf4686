-------------------------- MODULE InventoryProofs --------------------------
(***************************************************************************)
(* Proofs about StockLedger and the Reports made of it, for any number of  *)
(* documents, lines, balance rows and concurrent transactions, and about   *)
(* the IssueDesk in its Session, for any number of notes, jobs and faults. *)
(***************************************************************************)
EXTENDS Reports, IssueDesk, FiniteSetTheorems, WellFoundedInduction, TLAPS

(* Sums over finite sets.  g is the sum of f over every subset of S, one   *)
(* member after the other.                                                 *)
Pick(R) == CHOOSE x \in R : TRUE
Adds(g, f, S) ==
  g = [R \in SUBSET S |-> IF R = {} THEN 0 ELSE f[Pick(R)] + g[R \ {Pick(R)}]]

(* SumFunctionOnSet is such a sum, if there is one.                           *)
LEMMA SumIter ==
  ASSUME NEW S, NEW f, \E g : Adds(g, f, S)
  PROVE  \E g : Adds(g, f, S) /\ SumFunctionOnSet(f, S) = g[S]
  <1> DEFINE it == CHOOSE g : g = [R \in SUBSET S |-> IF R = {} THEN 0 ELSE f[CHOOSE x \in R : TRUE] + g[R \ {CHOOSE x \in R : TRUE}]]
  <1>1. Adds(it, f, S)
    BY DEF Adds, Pick
  <1>2. SumFunctionOnSet(f, S) = it[S]
    BY DEF SumFunctionOnSet, FoldFunctionOnSet, MapThenFoldSet
  <1>3. QED
    BY <1>1, <1>2

(* A non-empty set of naturals has a least member.                         *)
LEMMA LeastMember ==
  ASSUME NEW B \in SUBSET Nat, B # {}
  PROVE  \E n \in B : \A m \in B : n <= m
  <1> DEFINE R == {ss \in Nat \X Nat : ss[1] < ss[2]}
  <1>1. R = OpToRel(<, Nat)
    BY Zenon DEF OpToRel
  <1>2. IsWellFoundedOn(R, Nat)
    BY <1>1, NatLessThanWellFounded, Zenon
  <1>3. \A x, y \in Nat : <<y, x>> \in R <=> y < x
    OBVIOUS
  <1> HIDE DEF R
  <1>4. PICK n \in B : \A m \in B : ~ (<<m, n>> \in R)
    BY <1>2, WFMin
  <1>5. ASSUME NEW m \in B PROVE n <= m
    <2>1. m \in Nat /\ n \in Nat /\ ~(m < n)
      BY <1>3, <1>4
    <2>2. QED
      BY <2>1
  <1>6. QED
    BY <1>5

(* The sums of the subsets, built up from those with fewer members.        *)
LEMMA SumDefined ==
  ASSUME NEW S, IsFiniteSet(S), NEW f, \A x \in S : f[x] \in Int
  PROVE  \E g : Adds(g, f, S)
  <1> DEFINE Level(n) == {R \in SUBSET S : Cardinality(R) <= n}
             Term(g, R) == IF R = {} THEN 0 ELSE f[Pick(R)] + g[R \ {Pick(R)}]
             Built(n) == \E g : g = [R \in Level(n) |-> Term(g, R)]
             Bad == {n \in Nat : ~Built(n)}
  <1>1. \A R \in SUBSET S : Cardinality(R) \in Nat /\ Cardinality(R) <= Cardinality(S) /\ IsFiniteSet(R)
    BY FS_Subset, FS_CardinalityType
  <1>2. \A R \in SUBSET S : R # {} =>
          Pick(R) \in R /\ Cardinality(R \ {Pick(R)}) = Cardinality(R) - 1
    BY <1>1, FS_RemoveElement DEF Pick
  <1>3. Built(0)
    <2> DEFINE g == [R \in Level(0) |-> 0]
    <2>1. \A R \in Level(0) : R = {}
      BY <1>1, FS_EmptySet
    <2>2. g = [R \in Level(0) |-> Term(g, R)]
      BY <2>1
    <2>3. QED
      BY <2>2
  <1>4. ASSUME NEW n \in Nat, Built(n) PROVE Built(n + 1)
    <2>1. PICK g : g = [R \in Level(n) |-> Term(g, R)]
      BY <1>4
    <2> DEFINE h == [R \in Level(n + 1) |-> Term(g, R)]
    <2>2. ASSUME NEW R \in Level(n + 1), R # {} PROVE h[R \ {Pick(R)}] = g[R \ {Pick(R)}]
      <3>1. R \ {Pick(R)} \in Level(n)
        BY <1>1, <1>2, <2>2
      <3>2. R \ {Pick(R)} \in Level(n + 1)
        BY <3>1, <1>1
      <3>3. g[R \ {Pick(R)}] = Term(g, R \ {Pick(R)})
        BY <2>1, <3>1
      <3>4. h[R \ {Pick(R)}] = Term(g, R \ {Pick(R)})
        BY <3>2
      <3>5. QED
        BY <3>3, <3>4
    <2>3. \A R \in Level(n + 1) : Term(g, R) = Term(h, R)
      BY <2>2
    <2>4. h = [R \in Level(n + 1) |-> Term(h, R)]
      BY <2>3
    <2>5. QED
      BY <2>4
  <1>5. Bad = {}
    <2> SUFFICES ASSUME Bad # {} PROVE FALSE
      OBVIOUS
    <2> HIDE DEF Built
    <2>1. PICK n \in Bad : \A m \in Bad : n <= m
      BY LeastMember
    <2>2. n # 0 /\ n \in Nat /\ ~Built(n)
      BY <1>3
    <2>3. n - 1 \in Nat /\ Built(n - 1)
      BY <2>1, <2>2
    <2>4. Built((n - 1) + 1)
      BY <1>4, <2>3
    <2>5. QED
      BY <2>2, <2>4
  <1>6. Level(Cardinality(S)) = SUBSET S
    BY <1>1
  <1>7. Built(Cardinality(S))
    <2> HIDE DEF Built
    <2>1. Cardinality(S) \in Nat
      BY <1>1
    <2>2. QED
      BY <1>5, <2>1
  <1>8. QED
    BY <1>6, <1>7 DEF Adds

(* The terms determine the sums of the parts, whatever else is added up.   *)
SameTerms(f, h, S) == IsFiniteSet(S) /\ \A x \in S : f[x] \in Int /\ h[x] = f[x]

(* Two sums of the same terms are the same.                                *)
LEMMA AddsSame ==
  ASSUME NEW S, NEW f, NEW h, SameTerms(f, h, S), NEW T, S \subseteq T,
         NEW g, NEW k, Adds(g, f, S), Adds(k, h, T)
  PROVE  \A R \in SUBSET S : g[R] \in Int /\ k[R] = g[R]
  <1> DEFINE P(R) == g[R] \in Int /\ k[R] = g[R]
             Bad == {n \in Nat : \E R \in SUBSET S : Cardinality(R) = n /\ ~P(R)}
  <1> USE DEF SameTerms
  <1>1. \A R \in SUBSET S : Cardinality(R) \in Nat /\ IsFiniteSet(R)
    BY FS_Subset, FS_CardinalityType
  <1>2. SUFFICES ASSUME Bad # {} PROVE FALSE
    BY <1>1
  <1>3. PICK n \in Bad : \A m \in Bad : n <= m
    BY <1>2, LeastMember
  <1>4. PICK R \in SUBSET S : Cardinality(R) = n /\ ~P(R)
    BY <1>3
  <1>5. CASE R = {}
    <2>1. g[R] = 0 /\ k[R] = 0
      BY <1>5 DEF Adds
    <2>2. QED
      BY <1>4, <1>5, <2>1
  <1>6. CASE R # {}
    <2> DEFINE x == Pick(R)
               Q == R \ {x}
    <2>1. x \in R /\ x \in S
      BY <1>6 DEF Pick
    <2>2. Cardinality(Q) = Cardinality(R) - 1 /\ Q \in SUBSET S
      BY <1>1, <2>1, FS_RemoveElement
    <2>3. P(Q)
      <3> HIDE DEF P, Q
      <3>1. Cardinality(Q) \in Nat /\ Cardinality(Q) < n
        BY <1>1, <1>4, <2>2
      <3>2. QED
        BY <1>3, <2>2, <3>1
    <2>4. g[R] = f[x] + g[Q]
      BY <1>6 DEF Adds
    <2>5. k[R] = h[x] + k[Q]
      BY <1>6 DEF Adds
    <2> HIDE DEF x, Q
    <2>6. f[x] \in Int /\ h[x] = f[x]
      BY <2>1
    <2>7. P(R)
      BY <2>3, <2>4, <2>5, <2>6
    <2>8. QED
      BY <1>4, <2>7
  <1>7. QED
    BY <1>5, <1>6

(* A sum of integers is one, and the same terms have the same sum.         *)
LEMMA SumInt ==
  ASSUME NEW S, IsFiniteSet(S), NEW f, \A x \in S : f[x] \in Int
  PROVE  /\ SumFunctionOnSet(f, S) \in Int
         /\ \A h : (\A x \in S : h[x] = f[x]) => SumFunctionOnSet(h, S) = SumFunctionOnSet(f, S)
  <1>1. PICK g : Adds(g, f, S) /\ SumFunctionOnSet(f, S) = g[S]
    BY SumDefined, SumIter
  <1>2. ASSUME NEW h, \A x \in S : h[x] = f[x]
        PROVE  SumFunctionOnSet(f, S) \in Int /\ SumFunctionOnSet(h, S) = SumFunctionOnSet(f, S)
    <2>1. PICK k : Adds(k, h, S) /\ SumFunctionOnSet(h, S) = k[S]
      <3>1. \A x \in S : h[x] \in Int
        BY <1>2
      <3>2. QED
        BY <3>1, SumDefined, SumIter
    <2>2. SameTerms(f, h, S)
      BY <1>2 DEF SameTerms
    <2>3. \A R \in SUBSET S : g[R] \in Int /\ k[R] = g[R]
      BY <1>1, <2>1, <2>2, AddsSame
    <2>4. QED
      BY <1>1, <2>1, <2>3
  <1>3. QED
    BY <1>2

(* A sum of zeros is zero.                                                 *)
LEMMA SumZero ==
  ASSUME NEW S, IsFiniteSet(S), NEW f, \A x \in S : f[x] = 0
  PROVE  SumFunctionOnSet(f, S) = 0
  <1> DEFINE zero == [R \in SUBSET S |-> 0]
  <1>1. ASSUME NEW R \in SUBSET S, R # {} PROVE f[Pick(R)] + zero[R \ {Pick(R)}] = 0
    <2>1. Pick(R) \in S
      BY <1>1 DEF Pick
    <2>2. f[Pick(R)] = 0 /\ zero[R \ {Pick(R)}] = 0
      BY <2>1
    <2>3. QED
      BY <2>2
  <1>2. Adds(zero, f, S)
    <2>1. \A R \in SUBSET S :
            0 = IF R = {} THEN 0 ELSE f[Pick(R)] + zero[R \ {Pick(R)}]
      BY <1>1
    <2> DEFINE other == [R \in SUBSET S |-> IF R = {} THEN 0 ELSE f[Pick(R)] + zero[R \ {Pick(R)}]]
    <2>2. zero = other
      BY <2>1
    <2>3. QED
      BY <2>2 DEF Adds
  <1> HIDE DEF zero
  <1>3. PICK k : Adds(k, f, S) /\ SumFunctionOnSet(f, S) = k[S]
    BY SumDefined, SumIter
  <1>4. SameTerms(f, f, S)
    BY DEF SameTerms
  <1>5. \A R \in SUBSET S : k[R] \in Int /\ zero[R] = k[R]
    BY <1>2, <1>3, <1>4, AddsSame
  <1>6. k[S] = zero[S]
    BY <1>5
  <1>7. zero[S] = 0
    BY DEF zero
  <1>8. QED
    BY <1>3, <1>6, <1>7

(* A set of subsets of S that has the empty set, and with a set every one  *)
(* with one member more, has S.                                            *)
LEMMA GrowSet ==
  ASSUME NEW S, IsFiniteSet(S), NEW Good, {} \in Good,
         \A R \in SUBSET S, x \in S : R \in Good /\ x \notin R => R \cup {x} \in Good
  PROVE  S \in Good
  <1> DEFINE Bad == {n \in Nat : \E R \in SUBSET S : Cardinality(R) = n /\ R \notin Good}
  <1>1. \A R \in SUBSET S : Cardinality(R) \in Nat /\ IsFiniteSet(R)
    BY FS_Subset, FS_CardinalityType
  <1>2. SUFFICES ASSUME Bad # {} PROVE FALSE
    BY <1>1
  <1>3. PICK n \in Bad : \A m \in Bad : n <= m
    BY <1>2, LeastMember
  <1>4. PICK R \in SUBSET S : Cardinality(R) = n /\ R \notin Good
    BY <1>3
  <1>5. PICK x \in R : TRUE
    BY <1>4
  <1> DEFINE Q == R \ {x}
  <1>6. Q \in SUBSET S /\ x \in S /\ x \notin Q /\ Q \cup {x} = R
    BY <1>5
  <1>7. Cardinality(Q) = Cardinality(R) - 1
    BY <1>1, <1>5, FS_RemoveElement
  <1>8. Q \in Good
    <2> HIDE DEF Q
    <2>1. Cardinality(Q) \in Nat /\ Cardinality(Q) < n
      BY <1>1, <1>4, <1>6, <1>7
    <2>2. Cardinality(Q) \notin Bad
      BY <1>3, <2>1
    <2>3. QED
      BY <1>6, <2>1, <2>2
  <1>9. QED
    BY <1>4, <1>6, <1>8

(* A sum over a set is that over the set without any one member and the    *)
(* term of that member, not only of the member that is picked first.       *)
LEMMA AddsRemove ==
  ASSUME NEW S, IsFiniteSet(S), NEW f, \A x \in S : f[x] \in Int, NEW g, Adds(g, f, S)
  PROVE  \A R \in SUBSET S : /\ g[R] \in Int
                             /\ \A x \in R : g[R] = f[x] + g[R \ {x}]
  <1> DEFINE P(R) == \A x \in R : g[R] = f[x] + g[R \ {x}]
             Bad == {n \in Nat : \E R \in SUBSET S : Cardinality(R) = n /\ ~P(R)}
  <1>1. \A R \in SUBSET S : Cardinality(R) \in Nat /\ IsFiniteSet(R)
    BY FS_Subset, FS_CardinalityType
  <1>2. \A R \in SUBSET S : g[R] \in Int
    <2>1. SameTerms(f, f, S)
      BY DEF SameTerms
    <2>2. \A R \in SUBSET S : g[R] \in Int /\ g[R] = g[R]
      BY <2>1, AddsSame
    <2>3. QED
      BY <2>2
  <1>3. SUFFICES ASSUME Bad # {} PROVE FALSE
    BY <1>1, <1>2
  <1>4. PICK n \in Bad : \A m \in Bad : n <= m
    BY <1>3, LeastMember
  <1>5. PICK R \in SUBSET S : Cardinality(R) = n /\ ~P(R)
    BY <1>4
  <1>6. PICK x \in R : ~(g[R] = f[x] + g[R \ {x}])
    BY <1>5
  <1> DEFINE y == Pick(R)
  <1>7. y \in R
    BY <1>6 DEF Pick
  <1>8. g[R] = f[y] + g[R \ {y}]
    BY <1>6 DEF Adds
  <1> HIDE DEF y
  <1>9. y # x
    BY <1>6, <1>8
  <1>10. \A z \in R : P(R \ {z})
    <2> SUFFICES ASSUME NEW z \in R PROVE P(R \ {z})
      OBVIOUS
    <2>1. Cardinality(R \ {z}) = n - 1 /\ R \ {z} \in SUBSET S
      BY <1>1, <1>5, FS_RemoveElement
    <2> HIDE DEF P
    <2>2. Cardinality(R \ {z}) \in Nat /\ Cardinality(R \ {z}) < n
      BY <1>1, <2>1
    <2>3. QED
      BY <1>4, <2>1, <2>2
  <1>11. g[R \ {y}] = f[x] + g[(R \ {y}) \ {x}]
    BY <1>7, <1>9, <1>10
  <1>12. g[R \ {x}] = f[y] + g[(R \ {x}) \ {y}]
    BY <1>7, <1>9, <1>10
  <1>13. (R \ {x}) \ {y} = (R \ {y}) \ {x}
    OBVIOUS
  <1>14. f[x] \in Int /\ f[y] \in Int /\ g[(R \ {y}) \ {x}] \in Int
    BY <1>2, <1>7
  <1>15. g[R] = f[x] + g[R \ {x}]
    <2> DEFINE a == g[(R \ {y}) \ {x}]
    <2>1. g[R \ {y}] = f[x] + a /\ g[R \ {x}] = f[y] + a /\ a \in Int
      BY <1>11, <1>12, <1>13, <1>14
    <2> HIDE DEF a
    <2>2. QED
      BY <1>8, <1>14, <2>1
  <1>16. QED
    BY <1>6, <1>15

(* So the sum of a set is any member and the sum of the others.            *)
LEMMA AddsAll ==
  ASSUME NEW T, IsFiniteSet(T), NEW f, \A y \in T : f[y] \in Int, NEW k, Adds(k, f, T)
  PROVE  \A x \in T : k[T] = f[x] + k[T \ {x}]
  <1>1. \A R \in SUBSET T : k[R] \in Int /\ \A y \in R : k[R] = f[y] + k[R \ {y}]
    BY AddsRemove
  <1>2. QED
    BY <1>1

(* The sum over a set with one member more.                                *)
LEMMA SumInsert ==
  ASSUME NEW S, IsFiniteSet(S), NEW f, NEW x, x \notin S, \A y \in S \cup {x} : f[y] \in Int
  PROVE  SumFunctionOnSet(f, S) \in Int /\ SumFunctionOnSet(f, S \cup {x}) = f[x] + SumFunctionOnSet(f, S)
  <1> DEFINE T == S \cup {x}
  <1>1. IsFiniteSet(T)
    BY FS_AddElement
  <1>2. PICK g : Adds(g, f, S) /\ SumFunctionOnSet(f, S) = g[S]
    BY SumDefined, SumIter
  <1>3. PICK k : Adds(k, f, T) /\ SumFunctionOnSet(f, T) = k[T]
    BY <1>1, SumDefined, SumIter
  <1>4. S \subseteq T /\ x \in T /\ T \ {x} = S
    OBVIOUS
  <1> HIDE DEF T
  <1>5. \A y \in T : f[y] \in Int
    BY DEF T
  <1>6. k[T] = f[x] + k[T \ {x}] /\ g[S] \in Int /\ k[S] = g[S]
    <2>1. \A y \in T : k[T] = f[y] + k[T \ {y}]
      BY <1>1, <1>3, <1>5, AddsAll
    <2>2. S \subseteq T /\ SameTerms(f, f, S)
      BY <1>4 DEF SameTerms
    <2>3. \A R \in SUBSET S : g[R] \in Int /\ k[R] = g[R]
      BY <1>2, <1>3, <2>2, AddsSame
    <2>4. QED
      BY <1>4, <2>1, <2>3
  <1>7. QED
    BY <1>2, <1>3, <1>4, <1>6 DEF T

(* The sum over two sets with nothing in common.                           *)
LEMMA SumUnion ==
  ASSUME NEW A, IsFiniteSet(A), NEW B, IsFiniteSet(B), A \cap B = {}, NEW f, \A x \in A \cup B : f[x] \in Int
  PROVE  SumFunctionOnSet(f, A \cup B) = SumFunctionOnSet(f, A) + SumFunctionOnSet(f, B)
  <1> DEFINE Good == {R \in SUBSET B : SumFunctionOnSet(f, A \cup R) = SumFunctionOnSet(f, A) + SumFunctionOnSet(f, R)}
  <1>1. {} \in Good
    <2>1. SumFunctionOnSet(f, A) \in Int /\ SumFunctionOnSet(f, {}) = 0 /\ A \cup {} = A
      BY FS_EmptySet, SumInt, SumZero
    <2>2. SumFunctionOnSet(f, A \cup {}) = SumFunctionOnSet(f, A) + SumFunctionOnSet(f, {})
      BY <2>1
    <2>3. QED
      BY <2>2
  <1>2. ASSUME NEW R \in SUBSET B, NEW x \in B, R \in Good, x \notin R PROVE R \cup {x} \in Good
    <2>1. IsFiniteSet(R) /\ IsFiniteSet(A \cup R) /\ x \notin A \cup R
      BY <1>2, FS_Subset, FS_Union
    <2>2. /\ \A y \in R \cup {x} : f[y] \in Int
          /\ \A y \in (A \cup R) \cup {x} : f[y] \in Int
      OBVIOUS
    <2>3. SumFunctionOnSet(f, R) \in Int /\ SumFunctionOnSet(f, R \cup {x}) = f[x] + SumFunctionOnSet(f, R)
      BY <1>2, <2>1, <2>2, SumInsert
    <2>4. SumFunctionOnSet(f, A \cup R) \in Int /\ SumFunctionOnSet(f, (A \cup R) \cup {x}) = f[x] + SumFunctionOnSet(f, A \cup R)
      BY <2>1, <2>2, SumInsert
    <2>5. (A \cup R) \cup {x} = A \cup (R \cup {x})
      OBVIOUS
    <2>6. SumFunctionOnSet(f, A) \in Int /\ f[x] \in Int
      BY SumInt
    <2>7. SumFunctionOnSet(f, A \cup R) = SumFunctionOnSet(f, A) + SumFunctionOnSet(f, R)
      BY <1>2
    <2>8. SumFunctionOnSet(f, A \cup (R \cup {x})) = SumFunctionOnSet(f, A) + SumFunctionOnSet(f, R \cup {x})
      <3>1. \A a, b, c \in Int : b + (a + c) = a + (b + c)
        OBVIOUS
      <3>2. SumFunctionOnSet(f, A \cup (R \cup {x})) = f[x] + (SumFunctionOnSet(f, A) + SumFunctionOnSet(f, R))
        BY <2>4, <2>5, <2>7
      <3>3. f[x] + (SumFunctionOnSet(f, A) + SumFunctionOnSet(f, R)) = SumFunctionOnSet(f, A) + (f[x] + SumFunctionOnSet(f, R))
        BY <2>3, <2>6, <3>1
      <3>4. QED
        BY <2>3, <3>2, <3>3
    <2>9. QED
      BY <2>8
  <1>3. B \in Good
    <2> HIDE DEF Good
    <2>1. QED
      BY <1>1, <1>2, GrowSet
  <1>4. QED
    BY <1>3

(* Greater terms have the greater sum.                                     *)
LEMMA SumLess ==
  ASSUME NEW S, IsFiniteSet(S), NEW f, NEW h, \A x \in S : f[x] \in Int /\ h[x] \in Int /\ f[x] <= h[x]
  PROVE  SumFunctionOnSet(f, S) \in Int /\ SumFunctionOnSet(h, S) \in Int /\ SumFunctionOnSet(f, S) <= SumFunctionOnSet(h, S)
  <1> DEFINE Good == {R \in SUBSET S : SumFunctionOnSet(f, R) <= SumFunctionOnSet(h, R)}
  <1>1. {} \in Good
    <2>1. SumFunctionOnSet(f, {}) = 0 /\ SumFunctionOnSet(h, {}) = 0
      BY FS_EmptySet, SumZero
    <2>2. QED
      BY <2>1
  <1>2. ASSUME NEW R \in SUBSET S, NEW x \in S, R \in Good, x \notin R PROVE R \cup {x} \in Good
    <2>1. IsFiniteSet(R) /\ \A y \in R \cup {x} : f[y] \in Int /\ h[y] \in Int
      BY FS_Subset
    <2>2. SumFunctionOnSet(f, R) \in Int /\ SumFunctionOnSet(f, R \cup {x}) = f[x] + SumFunctionOnSet(f, R)
      BY <1>2, <2>1, SumInsert
    <2>3. SumFunctionOnSet(h, R) \in Int /\ SumFunctionOnSet(h, R \cup {x}) = h[x] + SumFunctionOnSet(h, R)
      BY <1>2, <2>1, SumInsert
    <2>4. f[x] \in Int /\ h[x] \in Int /\ f[x] <= h[x] /\ SumFunctionOnSet(f, R) <= SumFunctionOnSet(h, R)
      BY <1>2
    <2>5. SumFunctionOnSet(f, R \cup {x}) <= SumFunctionOnSet(h, R \cup {x})
      BY <2>2, <2>3, <2>4
    <2>6. QED
      BY <2>5
  <1>3. S \in Good
    <2> HIDE DEF Good
    <2>1. QED
      BY <1>1, <1>2, GrowSet
  <1>4. QED
    BY <1>3, SumInt

(* What is added to the terms is added to the sum.                         *)
LEMMA SumPlus ==
  ASSUME NEW S, IsFiniteSet(S), NEW f, NEW g, NEW h,
         \A x \in S : f[x] \in Int /\ g[x] \in Int /\ h[x] = f[x] + g[x]
  PROVE  SumFunctionOnSet(h, S) = SumFunctionOnSet(f, S) + SumFunctionOnSet(g, S)
  <1> DEFINE Good == {R \in SUBSET S :
                        SumFunctionOnSet(h, R) = SumFunctionOnSet(f, R) + SumFunctionOnSet(g, R)}
  <1>1. {} \in Good
    <2>1. SumFunctionOnSet(f, {}) = 0 /\ SumFunctionOnSet(g, {}) = 0 /\ SumFunctionOnSet(h, {}) = 0
      BY FS_EmptySet, SumZero
    <2>2. QED
      BY <2>1
  <1>2. ASSUME NEW R \in SUBSET S, NEW x \in S, R \in Good, x \notin R PROVE R \cup {x} \in Good
    <2>1. IsFiniteSet(R) /\ \A y \in R \cup {x} : f[y] \in Int /\ g[y] \in Int /\ h[y] \in Int
      BY FS_Subset
    <2>2. SumFunctionOnSet(f, R) \in Int /\ SumFunctionOnSet(f, R \cup {x}) = f[x] + SumFunctionOnSet(f, R)
      BY <1>2, <2>1, SumInsert
    <2>3. SumFunctionOnSet(g, R) \in Int /\ SumFunctionOnSet(g, R \cup {x}) = g[x] + SumFunctionOnSet(g, R)
      BY <1>2, <2>1, SumInsert
    <2>4. SumFunctionOnSet(h, R) \in Int /\ SumFunctionOnSet(h, R \cup {x}) = h[x] + SumFunctionOnSet(h, R)
      BY <1>2, <2>1, SumInsert
    <2>5. /\ f[x] \in Int /\ g[x] \in Int /\ h[x] = f[x] + g[x]
          /\ SumFunctionOnSet(h, R) = SumFunctionOnSet(f, R) + SumFunctionOnSet(g, R)
      BY <1>2
    <2>6. SumFunctionOnSet(h, R \cup {x}) = SumFunctionOnSet(f, R \cup {x}) + SumFunctionOnSet(g, R \cup {x})
      BY <2>2, <2>3, <2>4, <2>5
    <2>7. QED
      BY <2>6
  <1>3. S \in Good
    <2> HIDE DEF Good
    <2>1. QED
      BY <1>1, <1>2, GrowSet
  <1>4. QED
    BY <1>3

(* The opposite terms have the opposite sum.                               *)
LEMMA SumMinus ==
  ASSUME NEW S, IsFiniteSet(S), NEW f, NEW h, \A x \in S : f[x] \in Int /\ h[x] = -f[x]
  PROVE  SumFunctionOnSet(h, S) = -SumFunctionOnSet(f, S)
  <1> DEFINE zero == [x \in S |-> 0]
  <1>1. \A x \in S : zero[x] = 0 /\ f[x] \in Int /\ h[x] \in Int /\ zero[x] = f[x] + h[x]
    OBVIOUS
  <1> HIDE DEF zero
  <1>2. SumFunctionOnSet(zero, S) = SumFunctionOnSet(f, S) + SumFunctionOnSet(h, S)
    BY <1>1, SumPlus
  <1>3. SumFunctionOnSet(zero, S) = 0
    BY <1>1, SumZero
  <1>4. SumFunctionOnSet(f, S) \in Int /\ SumFunctionOnSet(h, S) \in Int
    BY <1>1, SumInt
  <1>5. QED
    BY <1>2, <1>3, <1>4

(* Terms that are off by a little have a sum that is off by their bounds.  *)
LEMMA SumWithin ==
  ASSUME NEW S, IsFiniteSet(S), NEW f, NEW n, \A x \in S : f[x] \in Int /\ n[x] \in Nat /\ Within(f[x], n[x])
  PROVE  Within(SumFunctionOnSet(f, S), SumFunctionOnSet(n, S))
  <1> DEFINE m == [x \in S |-> -n[x]]
  <1>1. \A x \in S : f[x] \in Int /\ n[x] \in Int /\ m[x] \in Int /\ m[x] = -n[x] /\ m[x] <= f[x] /\ f[x] <= n[x]
    BY DEF Within
  <1> HIDE DEF m
  <1>2. SumFunctionOnSet(m, S) = -SumFunctionOnSet(n, S)
    BY <1>1, SumMinus
  <1>3. SumFunctionOnSet(m, S) <= SumFunctionOnSet(f, S) /\ SumFunctionOnSet(f, S) <= SumFunctionOnSet(n, S)
    BY <1>1, SumLess
  <1>4. QED
    BY <1>2, <1>3 DEF Within

(* Terms of zero may be left out.                                          *)
LEMMA SumPart ==
  ASSUME NEW S, IsFiniteSet(S), NEW T, T \subseteq S, NEW f, \A x \in S : f[x] \in Int,
         \A x \in S \ T : f[x] = 0
  PROVE  SumFunctionOnSet(f, S) = SumFunctionOnSet(f, T)
  <1> DEFINE R == S \ T
  <1>1. IsFiniteSet(T) /\ IsFiniteSet(R) /\ T \cap R = {} /\ T \cup R = S
    BY FS_Subset
  <1>2. \A x \in R : f[x] = 0
    OBVIOUS
  <1>3. \A x \in T : f[x] \in Int
    OBVIOUS
  <1> HIDE DEF R
  <1>4. \A x \in T \cup R : f[x] \in Int
    BY <1>1
  <1>5. SumFunctionOnSet(f, T \cup R) = SumFunctionOnSet(f, T) + SumFunctionOnSet(f, R)
    BY <1>1, <1>4, SumUnion
  <1>6. SumFunctionOnSet(f, R) = 0 /\ SumFunctionOnSet(f, T) \in Int
    BY <1>1, <1>2, <1>3, SumZero, SumInt
  <1>7. SumFunctionOnSet(f, S) = SumFunctionOnSet(f, T) + 0
    BY <1>1, <1>5, <1>6, Zenon
  <1>8. QED
    BY <1>6, <1>7

(* A sum of ones counts.                                                   *)
LEMMA SumCounts ==
  ASSUME NEW S, IsFiniteSet(S), NEW f, \A x \in S : f[x] = 1
  PROVE  SumFunctionOnSet(f, S) = Cardinality(S)
  <1> DEFINE Good == {R \in SUBSET S : SumFunctionOnSet(f, R) = Cardinality(R)}
  <1>1. {} \in Good
    <2>1. SumFunctionOnSet(f, {}) = 0 /\ Cardinality({}) = 0
      BY FS_EmptySet, SumZero
    <2>2. QED
      BY <2>1
  <1>2. ASSUME NEW R \in SUBSET S, NEW x \in S, R \in Good, x \notin R PROVE R \cup {x} \in Good
    <2>1. IsFiniteSet(R) /\ \A y \in R \cup {x} : f[y] \in Int
      BY FS_Subset
    <2>2. SumFunctionOnSet(f, R \cup {x}) = f[x] + SumFunctionOnSet(f, R)
      BY <1>2, <2>1, SumInsert
    <2>3. Cardinality(R \cup {x}) = Cardinality(R) + 1 /\ Cardinality(R) \in Nat
      BY <1>2, <2>1, FS_AddElement, FS_CardinalityType
    <2>4. SumFunctionOnSet(f, R) = Cardinality(R) /\ f[x] = 1
      BY <1>2
    <2>5. SumFunctionOnSet(f, R \cup {x}) = Cardinality(R \cup {x})
      BY <2>2, <2>3, <2>4
    <2>6. QED
      BY <2>5
  <1>3. S \in Good
    <2> HIDE DEF Good
    <2>1. QED
      BY <1>1, <1>2, GrowSet
  <1>4. QED
    BY <1>3

(* The sum of the sums of the parts that a function splits a set into.     *)
Splits(part, S, f, parts, F, K, All) ==
  /\ IsFiniteSet(K) /\ IsFiniteSet(S) /\ \A x \in S : f[x] \in Int
  /\ \A k \in K : /\ parts[k] \subseteq S /\ F[k] = SumFunctionOnSet(f, parts[k])
                   /\ \A x \in S : x \in parts[k] <=> part[x] = k
  /\ All \subseteq S /\ \A x \in S : x \in All <=> part[x] \in K

(* A sum over groups of the sums of each is the sum of them all.           *)
LEMMA SumOfSums ==
  ASSUME NEW part, NEW S, NEW f, NEW parts, NEW F, NEW K, NEW All,
         Splits(part, S, f, parts, F, K, All)
  PROVE  SumFunctionOnSet(F, K) = SumFunctionOnSet(f, All)
  <1> USE DEF Splits
  <1> DEFINE Of(L) == {x \in S : part[x] \in L}
             One(k) == parts[k]
             Good == {L \in SUBSET K : SumFunctionOnSet(F, L) = SumFunctionOnSet(f, Of(L))}
  <1>1. \A T \in SUBSET S : IsFiniteSet(T) /\ \A x \in T : f[x] \in Int
    BY FS_Subset
  <1>2. \A T \in SUBSET S : SumFunctionOnSet(f, T) \in Int
    BY <1>1, SumInt
  <1>3. \A k \in K : F[k] \in Int
    BY <1>2
  <1>4. {} \in Good
    <2>1. Of({}) = {}
      OBVIOUS
    <2>2. SumFunctionOnSet(F, {}) = 0 /\ SumFunctionOnSet(f, {}) = 0
      BY FS_EmptySet, SumZero
    <2>3. QED
      BY <2>1, <2>2
  <1>5. ASSUME NEW L \in SUBSET K, NEW k \in K, L \in Good, k \notin L PROVE L \cup {k} \in Good
    <2>1. IsFiniteSet(L) /\ \A y \in L \cup {k} : F[y] \in Int
      BY <1>3, FS_Subset
    <2>2. SumFunctionOnSet(F, L) \in Int /\ SumFunctionOnSet(F, L \cup {k}) = F[k] + SumFunctionOnSet(F, L)
      BY <1>5, <2>1, SumInsert
    <2>3. /\ Of(L) \in SUBSET S /\ One(k) \in SUBSET S /\ Of(L) \cap One(k) = {}
          /\ Of(L) \cup One(k) = Of(L \cup {k})
      BY <1>5
    <2>4. F[k] = SumFunctionOnSet(f, One(k)) /\ SumFunctionOnSet(F, L) = SumFunctionOnSet(f, Of(L))
      BY <1>5
    <2> HIDE DEF Of, One
    <2>5. IsFiniteSet(Of(L)) /\ IsFiniteSet(One(k)) /\ \A x \in Of(L) \cup One(k) : f[x] \in Int
      BY <1>1, <2>3
    <2>6. SumFunctionOnSet(f, Of(L) \cup One(k)) = SumFunctionOnSet(f, Of(L)) + SumFunctionOnSet(f, One(k))
      BY <2>3, <2>5, SumUnion
    <2>7. SumFunctionOnSet(f, Of(L)) \in Int /\ SumFunctionOnSet(f, One(k)) \in Int
      BY <1>2, <2>3
    <2>8. SumFunctionOnSet(F, L \cup {k}) = SumFunctionOnSet(f, Of(L \cup {k}))
      <3>1. SumFunctionOnSet(F, L \cup {k}) = SumFunctionOnSet(f, One(k)) + SumFunctionOnSet(f, Of(L))
        BY <2>2, <2>4, Zenon
      <3>2. SumFunctionOnSet(f, Of(L \cup {k})) = SumFunctionOnSet(f, Of(L)) + SumFunctionOnSet(f, One(k))
        BY <2>3, <2>6, Zenon
      <3>3. QED
        BY <2>7, <3>1, <3>2
    <2>9. QED
      BY <2>8
  <1>6. K \in Good
    <2> HIDE DEF Good
    <2>1. QED
      BY <1>4, <1>5, GrowSet
  <1>7. Of(K) = All
    OBVIOUS
  <1>8. QED
    BY <1>6, <1>7

(* Terms that cancel pairwise add up to nothing.                           *)
Cancels(f, S, A, other) ==
  /\ IsFiniteSet(S) /\ \A x \in S : f[x] \in Int
  /\ A \subseteq S /\ \A x \in A : other[x] \in S \ A /\ f[other[x]] = -f[x]
  /\ \A x, y \in A : other[x] = other[y] => x = y
  /\ \A y \in S \ A : \E x \in A : other[x] = y

(* Terms that come in pairs of opposites add up to nothing.                *)
LEMMA SumCancels ==
  ASSUME NEW f, NEW S, NEW A, NEW other, Cancels(f, S, A, other)
  PROVE  SumFunctionOnSet(f, S) = 0
  <1> USE DEF Cancels
  <1> DEFINE Both(R) == R \cup {other[x] : x \in R}
             Good == {R \in SUBSET A : SumFunctionOnSet(f, Both(R)) = 0}
  <1>1. {} \in Good
    <2>1. SumFunctionOnSet(f, {}) = 0
      BY FS_EmptySet, SumZero
    <2>2. Both({}) = {}
      OBVIOUS
    <2>3. QED
      BY <2>1, <2>2
  <1>2. ASSUME NEW R \in SUBSET A, NEW x \in A, R \in Good, x \notin R PROVE R \cup {x} \in Good
    <2> DEFINE y == other[x]
               T == Both(R)
    <2>1. y \in S \ A /\ f[y] = -f[x] /\ f[x] \in Int /\ f[y] \in Int
      OBVIOUS
    <2>2. T \subseteq S /\ x \notin T /\ y \notin T \cup {x}
      BY <1>2
    <2>3. Both(R \cup {x}) = (T \cup {x}) \cup {y}
      OBVIOUS
    <2>4. SumFunctionOnSet(f, T) = 0
      BY <1>2
    <2> HIDE DEF T, y
    <2>5. IsFiniteSet(T) /\ T \cup {x} \subseteq S /\ IsFiniteSet(T \cup {x})
      BY <2>2, FS_Subset
    <2>6. \A z \in (T \cup {x}) \cup {y} : f[z] \in Int
      BY <2>1, <2>5
    <2>7. SumFunctionOnSet(f, T \cup {x}) = f[x] + 0
      BY <2>2, <2>4, <2>5, <2>6, SumInsert
    <2>8. SumFunctionOnSet(f, (T \cup {x}) \cup {y}) = f[y] + SumFunctionOnSet(f, T \cup {x})
      BY <2>2, <2>5, <2>6, SumInsert
    <2>9. SumFunctionOnSet(f, (T \cup {x}) \cup {y}) = 0
      BY <2>1, <2>7, <2>8
    <2>10. QED
      BY <2>3, <2>9
  <1>3. A \in Good
    <2>1. IsFiniteSet(A)
      BY FS_Subset
    <2> HIDE DEF Good
    <2>2. QED
      BY <1>1, <1>2, <2>1, GrowSet
  <1>4. Both(A) = S
    OBVIOUS
  <1>5. QED
    BY <1>3, <1>4
-----------------------------------------------------------------------------
USE LedgerConstants

(* A line a transaction is about to post is a line of its document. *)
LEMMA CurrentLineType ==
  ASSUME TypeOK, NEW t \in Txn, HasLine(t)
  PROVE  /\ doc[t] \in Doc
         /\ next[t] \in 1..Len(LinesOf[doc[t]])
         /\ CurrentLine(t) \in Line
         /\ CurrentLine(t).key \in Key
         /\ CurrentLine(t).delta \in Int
  <1>1. doc[t] \in Doc /\ next[t] \in 1..Len(LinesOf[doc[t]])
    BY DEF TypeOK, HasLine, EndOfLines, Lines
  <1>2. LinesOf[doc[t]] \in Seq(Line)
    BY <1>1
  <1>3. CurrentLine(t) \in Line
    BY <1>1, <1>2 DEF CurrentLine, Lines
  <1>4. QED
    BY <1>1, <1>3 DEF Line

(* A stored quantity is a whole number of thousandths, and of the same     *)
(* sign as the quantity before rounding, or zero.                          *)
LEMMA StoredType ==
  ASSUME NEW q \in Int
  PROVE  /\ Stored(q) \in Int
         /\ q >= 0 => Stored(q) >= 0
  BY DEF Stored

(* What two steps may be off by adds up. *)
LEMMA WithinSum ==
  ASSUME NEW x \in Int, NEW y \in Int, NEW m \in Nat, NEW n \in Nat, Within(x, m), Within(y, n)
  PROVE  Within(x + y, m + n)
  BY DEF Within

(* A balance differs from what is committed by what it differed before and *)
(* by the line just written.                                               *)
LEMMA Regroup ==
  \A new, before, qty, sum, row \in Int :
    new - qty - (sum + row) = (before - qty - sum) + (new - before - row)
  OBVIOUS

(* Rounding before or after an addition differs by a thousandth at most,  *)
(* and only for a half.                                                    *)
LEMMA StoredNear ==
  ASSUME NEW b \in Int, NEW q \in Int
  PROVE  Half(q) \in Nat /\ Within(Stored(10 * b + q) - b - Stored(q), Half(q))
  <1> DEFINE m == q \div 10
             r == q % 10
  <1>1. m \in Int /\ r \in 0..9 /\ q = 10 * m + r
    BY Z3
  <1> HIDE DEF m
  <1>2. Stored(q) = IF q >= 0 THEN (IF r >= 5 THEN m + 1 ELSE m)
                              ELSE (IF r > 5 THEN m + 1 ELSE m)
    BY <1>1 DEF Stored
  <1>3. Stored(10 * b + q) = IF 10 * b + q >= 0 THEN (IF r >= 5 THEN b + m + 1 ELSE b + m)
                                                 ELSE (IF r > 5 THEN b + m + 1 ELSE b + m)
    BY <1>1 DEF Stored
  <1>4. QED
    BY <1>1, <1>2, <1>3 DEF Half, Within
-----------------------------------------------------------------------------
(* Ending a request keeps every local of its type. *)
LEMMA EndRequestType ==
  ASSUME TypeOK, NEW t \in Txn, EndRequest(t)
  PROVE  /\ rowLock' \in [Key -> Txn \cup {None}]
         /\ pc' \in [Txn -> {"idle", "loaded", "posting"}]
         /\ doc' \in [Txn -> Doc \cup {None}]
         /\ \A u \in Txn : pc'[u] # "idle" => doc'[u] \in Doc
         /\ seenStatus' \in [Txn -> Status]
         /\ allowNegative' \in [Txn -> BOOLEAN]
         /\ next' \in [Txn -> Nat \ {0}]
         /\ newQty' \in [Txn -> [Key -> Int]]
         /\ appended' \in [Txn -> [Key -> Int]]
         /\ halving' \in [Txn -> [Key -> Nat]]
  BY DEF TypeOK, EndRequest, Status, NoRows

(* A rollback keeps the types.                                             *)
LEMMA RollbackType ==
  ASSUME TypeOK, NEW t \in Txn, Rollback(t)
  PROVE  TypeOK'
  BY EndRequestType DEF TypeOK, Rollback, database, history

(* Every variable keeps its type. *)
THEOREM TypeCorrect == Spec => []TypeOK
  <1>1. Init => TypeOK
    BY DEF Init, TypeOK, Status, NoRows
  <1>2. TypeOK /\ [Next]_vars => TypeOK'
    <2> SUFFICES ASSUME TypeOK, [Next]_vars PROVE TypeOK'
      OBVIOUS
    <2>1. ASSUME NEW t \in Txn, LoadDocument(t) PROVE TypeOK'
      BY <2>1 DEF LoadDocument, TypeOK, database, work, history
    <2>2. ASSUME NEW t \in Txn, AlreadyPosted(t) PROVE TypeOK'
      BY <2>2, RollbackType DEF AlreadyPosted
    <2>3. ASSUME NEW t \in Txn, RefuseEmpty(t) PROVE TypeOK'
      BY <2>3, RollbackType DEF RefuseEmpty
    <2>4. ASSUME NEW t \in Txn, ReturnExisting(t) PROVE TypeOK'
      BY <2>4, EndRequestType DEF ReturnExisting, MarkPosted, TypeOK, history, Status
    <2>5. ASSUME NEW t \in Txn, BeginPosting(t) PROVE TypeOK'
      BY <2>5 DEF BeginPosting, TypeOK, database, request, work
    <2>6. ASSUME NEW t \in Txn, PostLine(t) PROVE TypeOK'
      <3> DEFINE l == CurrentLine(t)
      <3>1. l.key \in Key /\ l.delta \in Int
        BY <2>6, CurrentLineType DEF PostLine
      <3>2. LockedQty(t) \in Int
        BY <3>1 DEF LockedQty, TypeOK
      <3>3. Stored(10 * LockedQty(t) + l.delta) \in Int /\ Stored(l.delta) \in Int
        BY <3>1, <3>2, StoredType
      <3>4. Half(l.delta) \in Nat
        BY DEF Half
      <3> HIDE DEF l
      <3>5. newQty' \in [Txn -> [Key -> Int]] /\ appended' \in [Txn -> [Key -> Int]]
        <4> DEFINE written == [newQty[t] EXCEPT ![l.key] = Stored(10 * LockedQty(t) + l.delta)]
                   sums == [appended[t] EXCEPT ![l.key] = @ + Stored(l.delta)]
        <4>1. newQty' = [newQty EXCEPT ![t] = written] /\ appended' = [appended EXCEPT ![t] = sums]
          BY <2>6, <3>1 DEF PostLine, TypeOK, l
        <4>2. written \in [Key -> Int]
          BY <3>1, <3>3 DEF TypeOK
        <4>3. sums \in [Key -> Int]
          <5>1. appended[t] \in [Key -> Int] /\ appended[t][l.key] + Stored(l.delta) \in Int
            BY <3>1, <3>3 DEF TypeOK
          <5>2. QED
            BY <3>1, <5>1
        <4> HIDE DEF written, sums
        <4>4. QED
          BY <4>1, <4>2, <4>3 DEF TypeOK
      <3>6. halving' \in [Txn -> [Key -> Nat]]
        <4> DEFINE more == [halving[t] EXCEPT ![l.key] = @ + Half(l.delta)]
        <4>1. halving' = [halving EXCEPT ![t] = more]
          BY <2>6, <3>1 DEF PostLine, TypeOK, l
        <4>2. more \in [Key -> Nat]
          BY <3>1, <3>4 DEF TypeOK
        <4> HIDE DEF more
        <4>3. QED
          BY <4>1, <4>2 DEF TypeOK
      <3>7. rowLock' \in [Key -> Txn \cup {None}] /\ next' \in [Txn -> Nat \ {0}]
        BY <2>6, <3>1 DEF PostLine, TypeOK, l
      <3>8. QED
        BY <2>6, <3>5, <3>6, <3>7 DEF PostLine, TypeOK, database, request, history
    <2>7. ASSUME NEW t \in Txn, RaiseInsufficient(t) PROVE TypeOK'
      BY <2>7, RollbackType DEF RaiseInsufficient
    <2>8. ASSUME NEW t \in Txn, RefuseZero(t) PROVE TypeOK'
      BY <2>8, RollbackType DEF RefuseZero
    <2>9. ASSUME NEW t \in Txn, Commit(t) PROVE TypeOK'
      <3>1. doc[t] \in Doc
        BY <2>9 DEF Commit, TypeOK
      <3>2. /\ qtyOnHand' \in [Key -> Int] /\ ledger' \in [Key -> Int]
            /\ postings' \in [Doc -> Nat] /\ outbox' \in [Doc -> Nat]
            /\ status' \in [Doc -> Status] /\ halved' \in [Key -> Nat]
        <4>1. qtyOnHand' \in [Key -> Int]
          BY <2>9 DEF Commit, TypeOK
        <4>2. ledger' \in [Key -> Int] /\ halved' \in [Key -> Nat]
          <5>1. /\ ledger' = [k \in Key |-> ledger[k] + appended[t][k]]
                /\ halved' = [k \in Key |-> halved[k] + halving[t][k]]
            BY <2>9 DEF Commit
          <5>2. \A k \in Key : ledger[k] + appended[t][k] \in Int /\ halved[k] + halving[t][k] \in Nat
            BY DEF TypeOK
          <5>3. QED
            BY <5>1, <5>2
        <4>3. postings' \in [Doc -> Nat] /\ outbox' \in [Doc -> Nat]
          <5>1. /\ postings' = [postings EXCEPT ![doc[t]] = @ + 1]
                /\ outbox' = [outbox EXCEPT ![doc[t]] = @ + 1]
            BY <2>9 DEF Commit
          <5>2. postings[doc[t]] + 1 \in Nat /\ outbox[doc[t]] + 1 \in Nat
            BY <3>1 DEF TypeOK
          <5>3. QED
            BY <3>1, <5>1, <5>2 DEF TypeOK
        <4>4. status' \in [Doc -> Status]
          BY <2>9, <3>1 DEF Commit, MarkPosted, TypeOK, Status
        <4>5. QED
          BY <4>1, <4>2, <4>3, <4>4
      <3>3. overdrawn' \in SUBSET Key /\ overlapped' \in SUBSET Doc
        BY <2>9 DEF Commit, TypeOK, Held
      <3>4. EndRequest(t)
        BY <2>9 DEF Commit
      <3>5. QED
        BY <3>2, <3>3, <3>4, EndRequestType DEF TypeOK
    <2>10. ASSUME NEW t \in Txn, DeadlockVictim(t) PROVE TypeOK'
      BY <2>10, RollbackType DEF DeadlockVictim
    <2>11. ASSUME NEW t \in Txn, Crash(t) PROVE TypeOK'
      BY <2>11, RollbackType DEF Crash
    <2>12. CASE UNCHANGED vars
      BY <2>12 DEF vars, database, request, work, history, TypeOK
    <2>13. QED
      BY <2>1, <2>2, <2>3, <2>4, <2>5, <2>6, <2>7, <2>8, <2>9, <2>10, <2>11, <2>12
      DEF Next, Step
  <1>3. QED
    BY <1>1, <1>2, PTL DEF Spec
-----------------------------------------------------------------------------
(* Ending a request releases its rows and no others. *)
LEMMA EndRequestLocks ==
  ASSUME TypeOK, NEW t \in Txn, EndRequest(t)
  PROVE  /\ \A k \in Key : rowLock'[k] = IF rowLock[k] = t THEN None ELSE rowLock[k]
         /\ \A u \in Txn \ {t} :
              /\ pc'[u] = pc[u] /\ doc'[u] = doc[u]
              /\ allowNegative'[u] = allowNegative[u]
              /\ newQty'[u] = newQty[u] /\ appended'[u] = appended[u]
              /\ halving'[u] = halving[u]
         /\ pc'[t] = "idle"
         /\ \A k \in Key : appended'[t][k] = 0 /\ halving'[t][k] = 0
  BY DEF TypeOK, EndRequest, NoRows

(* Ending a request leaves the rows of the other transactions guarded. *)
LEMMA EndRequestGuard ==
  ASSUME TypeOK, LocksArePostings, HeldWithinGuard, NEW t \in Txn, EndRequest(t)
  PROVE  LocksArePostings' /\ HeldWithinGuard'
  <1>1. ASSUME NEW k \in Key, rowLock'[k] # None
        PROVE  rowLock'[k] = rowLock[k] /\ rowLock[k] \in Txn \ {t}
    BY <1>1, EndRequestLocks DEF TypeOK
  <1>2. LocksArePostings'
    <2> SUFFICES ASSUME NEW k \in Key, rowLock'[k] # None
                 PROVE  pc'[rowLock'[k]] = "posting"
      BY DEF LocksArePostings
    <2>1. QED
      BY <1>1, EndRequestLocks DEF LocksArePostings
  <1>3. HeldWithinGuard'
    <2> SUFFICES ASSUME NEW u \in Txn, NEW k \in Key,
                        rowLock'[k] = u, ~allowNegative'[u]
                 PROVE  newQty'[u][k] >= 0
      BY DEF HeldWithinGuard
    <2>1. rowLock[k] = u /\ u \in Txn \ {t}
      BY <1>1
    <2>2. QED
      BY <2>1, EndRequestLocks DEF HeldWithinGuard
  <1>4. QED
    BY <1>2, <1>3

(* So does a rollback.                                                     *)
LEMMA RollbackGuard ==
  ASSUME TypeOK, GuardInv, NEW t \in Txn, Rollback(t)
  PROVE  GuardInv'
  <1>1. LocksArePostings' /\ HeldWithinGuard'
    BY EndRequestGuard DEF Rollback, GuardInv
  <1>2. NegativeOnlyIfAllowed'
    BY DEF Rollback, GuardInv, NegativeOnlyIfAllowed, database, history
  <1>3. QED
    BY <1>1, <1>2 DEF GuardInv

(* Only postings hold rows, and what they will write there and what was    *)
(* written keeps to the guard.                                             *)
LEMMA GuardInvariant == Spec => []GuardInv
  <1>1. Init => GuardInv
    BY DEF Init, GuardInv, LocksArePostings, HeldWithinGuard, NegativeOnlyIfAllowed
  <1>2. TypeOK /\ GuardInv /\ [Next]_vars => GuardInv'
    <2> SUFFICES ASSUME TypeOK, GuardInv, [Next]_vars PROVE GuardInv'
      OBVIOUS
    <2>1. ASSUME NEW t \in Txn, LoadDocument(t) PROVE GuardInv'
      <3>1. /\ pc[t] # "posting" /\ \A u \in Txn \ {t} : pc'[u] = pc[u] /\ allowNegative'[u] = allowNegative[u]
            /\ UNCHANGED <<rowLock, newQty, qtyOnHand, overdrawn>>
        BY <2>1 DEF LoadDocument, TypeOK, database, work, history
      <3>2. \A k \in Key : rowLock[k] # t
        BY <3>1 DEF GuardInv, LocksArePostings
      <3>3. \A k \in Key : rowLock[k] \in (Txn \ {t}) \cup {None}
        BY <3>2 DEF TypeOK
      <3>4. LocksArePostings'
        BY <3>1, <3>3 DEF GuardInv, LocksArePostings
      <3>5. HeldWithinGuard'
        BY <3>1, <3>2 DEF GuardInv, HeldWithinGuard
      <3>6. QED
        BY <3>1, <3>4, <3>5 DEF GuardInv, NegativeOnlyIfAllowed
    <2>2. ASSUME NEW t \in Txn, Rollback(t) PROVE GuardInv'
      BY <2>2, RollbackGuard
    <2>3. ASSUME NEW t \in Txn, ReturnExisting(t) PROVE GuardInv'
      <3>1. EndRequest(t) /\ qtyOnHand' = qtyOnHand /\ overdrawn' = overdrawn
        BY <2>3 DEF ReturnExisting, history
      <3>2. LocksArePostings' /\ HeldWithinGuard'
        BY <3>1, EndRequestGuard DEF GuardInv
      <3>3. NegativeOnlyIfAllowed'
        BY <3>1 DEF GuardInv, NegativeOnlyIfAllowed
      <3>4. QED
        BY <3>2, <3>3 DEF GuardInv
    <2>4. ASSUME NEW t \in Txn, BeginPosting(t) PROVE GuardInv'
      <3>1. /\ pc'[t] = "posting" /\ \A u \in Txn \ {t} : pc'[u] = pc[u]
            /\ UNCHANGED <<rowLock, allowNegative, newQty, qtyOnHand, overdrawn>>
        BY <2>4 DEF BeginPosting, TypeOK, database, request, work
      <3>2. \A k \in Key : rowLock[k] \in Txn \cup {None}
        BY DEF TypeOK
      <3>3. LocksArePostings'
        BY <3>1, <3>2 DEF GuardInv, LocksArePostings
      <3>4. QED
        BY <3>1, <3>3 DEF GuardInv, HeldWithinGuard, NegativeOnlyIfAllowed
    <2>5. ASSUME NEW t \in Txn, PostLine(t) PROVE GuardInv'
      <3> DEFINE l == CurrentLine(t)
                 qty == 10 * LockedQty(t) + l.delta
      <3>1. l.key \in Key /\ l.delta \in Int
        BY <2>5, CurrentLineType DEF PostLine
      <3>2. qty \in Int
        <4>1. LockedQty(t) \in Int
          BY <3>1 DEF LockedQty, TypeOK
        <4>2. QED
          BY <3>1, <4>1
      <3>3. ~allowNegative[t] => Stored(qty) >= 0
        BY <2>5, <3>2, StoredType DEF PostLine, Sufficient
      <3> HIDE DEF l, qty
      <3>4. /\ rowLock' = [rowLock EXCEPT ![l.key] = t]
            /\ newQty' = [newQty EXCEPT ![t][l.key] = Stored(qty)]
            /\ rowLock[l.key] \in {t, None}
            /\ pc[t] = "posting"
            /\ UNCHANGED <<pc, allowNegative, qtyOnHand, overdrawn>>
        BY <2>5 DEF PostLine, HasLine, RowFree, database, request, history, l, qty
      <3>5. LocksArePostings'
        BY <3>1, <3>4 DEF GuardInv, LocksArePostings, TypeOK
      <3>6. HeldWithinGuard'
        BY <3>1, <3>3, <3>4 DEF GuardInv, HeldWithinGuard, TypeOK
      <3>7. NegativeOnlyIfAllowed'
        BY <3>4 DEF GuardInv, NegativeOnlyIfAllowed
      <3>8. QED
        BY <3>5, <3>6, <3>7 DEF GuardInv
    <2>6. ASSUME NEW t \in Txn, Commit(t) PROVE GuardInv'
      <3>1. EndRequest(t)
        BY <2>6 DEF Commit
      <3>2. LocksArePostings' /\ HeldWithinGuard'
        BY <3>1, EndRequestGuard DEF GuardInv
      <3>3. NegativeOnlyIfAllowed'
        BY <2>6 DEF Commit, GuardInv, HeldWithinGuard, NegativeOnlyIfAllowed, TypeOK, Held
      <3>4. QED
        BY <3>2, <3>3 DEF GuardInv
    <2>7. CASE UNCHANGED vars
      BY <2>7 DEF vars, database, request, work, history, GuardInv, LocksArePostings,
                  HeldWithinGuard, NegativeOnlyIfAllowed
    <2>8. QED
      BY <2>1, <2>2, <2>3, <2>4, <2>5, <2>6, <2>7
      DEF Next, Step, AlreadyPosted, RefuseEmpty, RaiseInsufficient, RefuseZero,
          DeadlockVictim, Crash
  <1>3. QED
    BY <1>1, <1>2, TypeCorrect, PTL DEF Spec

(* A balance is negative only when a posting with allow_negative wrote it, *)
(* although the guard of post_movements and the write are steps of         *)
(* transactions that interleave with any number of others.                 *)
THEOREM NegativeGuard == Spec => []NegativeOnlyIfAllowed
  <1>1. GuardInv => NegativeOnlyIfAllowed
    BY DEF GuardInv
  <1>2. QED
    BY <1>1, GuardInvariant, PTL
-----------------------------------------------------------------------------
(* What NoLostUpdate says of one transaction and one row. *)
Kept(t, k) ==
  IF rowLock[k] = t
    THEN Within(newQty[t][k] - qtyOnHand[k] - appended[t][k], halving[t][k])
    ELSE appended[t][k] = 0 /\ halving[t][k] = 0

(* Ending a request loses no update of the transactions still posting. *)
LEMMA EndRequestUpdates ==
  ASSUME TypeOK, NoLostUpdate, NEW t \in Txn, EndRequest(t),
         \A k \in Key : rowLock[k] # t => qtyOnHand'[k] = qtyOnHand[k]
  PROVE  NoLostUpdate'
  <1> SUFFICES ASSUME NEW u \in Txn, NEW k \in Key PROVE Kept(u, k)'
    BY DEF NoLostUpdate, Kept
  <1>1. CASE u = t
    BY <1>1, EndRequestLocks DEF Kept
  <1>2. CASE u # t
    <2>1. /\ newQty'[u] = newQty[u] /\ appended'[u] = appended[u]
          /\ halving'[u] = halving[u]
          /\ rowLock'[k] = u <=> rowLock[k] = u
      BY <1>2, EndRequestLocks
    <2>2. rowLock[k] = u => qtyOnHand'[k] = qtyOnHand[k]
      BY <1>2
    <2>3. QED
      BY <2>1, <2>2 DEF NoLostUpdate, Kept
  <1>3. QED
    BY <1>1, <1>2

(* A rollback leaves balances and ledger in step.                          *)
LEMMA RollbackBalance ==
  ASSUME TypeOK, BalanceInv, NEW t \in Txn, EndRequest(t),
         UNCHANGED <<qtyOnHand, ledger, halved>>
  PROVE  BalanceInv'
  <1>1. NoLostUpdate'
    BY EndRequestUpdates DEF BalanceInv
  <1>2. BalanceIsLedger'
    BY DEF BalanceInv, BalanceIsLedger
  <1>3. QED
    BY <1>1, <1>2 DEF BalanceInv

(* The cached balances are the ledger, however many postings interleave,   *)
(* fail or crash, but for a thousandth per movement rounded from a half.   *)
THEOREM BalancesAreTheLedger == Spec => []BalanceIsLedger
  <1>1. Init => BalanceInv
    BY DEF Init, BalanceInv, BalanceIsLedger, NoLostUpdate, NoRows, Within
  <1>2. TypeOK /\ BalanceInv /\ [Next]_vars => BalanceInv'
    <2> SUFFICES ASSUME TypeOK, BalanceInv, [Next]_vars PROVE BalanceInv'
      OBVIOUS
    <2>1. ASSUME NEW t \in Txn, LoadDocument(t) PROVE BalanceInv'
      BY <2>1 DEF LoadDocument, BalanceInv, BalanceIsLedger, NoLostUpdate, database, work,
                  history
    <2>2. ASSUME NEW t \in Txn, Rollback(t) PROVE BalanceInv'
      BY <2>2, RollbackBalance DEF Rollback, database, history
    <2>3. ASSUME NEW t \in Txn, ReturnExisting(t) PROVE BalanceInv'
      BY <2>3, RollbackBalance DEF ReturnExisting, history
    <2>4. ASSUME NEW t \in Txn, BeginPosting(t) PROVE BalanceInv'
      BY <2>4 DEF BeginPosting, BalanceInv, BalanceIsLedger, NoLostUpdate, database, work
    <2>5. ASSUME NEW t \in Txn, PostLine(t) PROVE BalanceInv'
      <3> DEFINE l == CurrentLine(t)
                 b == LockedQty(t)
                 new == Stored(10 * b + l.delta)
                 row == Stored(l.delta)
                 half == Half(l.delta)
      <3>1. l.key \in Key /\ l.delta \in Int
        BY <2>5, CurrentLineType DEF PostLine
      <3>2. b \in Int
        BY <3>1 DEF LockedQty, TypeOK
      <3>3. new \in Int /\ row \in Int /\ half \in Nat /\ Within(new - b - row, half)
        <4>1. 10 * b + l.delta \in Int
          BY <3>1, <3>2
        <4>2. QED
          BY <3>1, <3>2, <4>1, StoredNear, StoredType
      <3>4. /\ rowLock' = [rowLock EXCEPT ![l.key] = t]
            /\ newQty' = [newQty EXCEPT ![t][l.key] = new]
            /\ appended' = [appended EXCEPT ![t][l.key] = @ + row]
            /\ rowLock[l.key] \in {t, None}
            /\ UNCHANGED <<qtyOnHand, ledger, halved>>
        BY <2>5 DEF PostLine, RowFree, database, history
      <3>5. halving' = [halving EXCEPT ![t][l.key] = @ + half]
        BY <2>5 DEF PostLine
      <3>6. b = IF rowLock[l.key] = t THEN newQty[t][l.key] ELSE qtyOnHand[l.key]
        BY DEF LockedQty
      <3>7. Within(b - qtyOnHand[l.key] - appended[t][l.key], halving[t][l.key])
        BY <3>1, <3>6 DEF BalanceInv, NoLostUpdate, TypeOK, Within
      <3> HIDE DEF l, b, new, row, half
      <3>8. NoLostUpdate'
        <4> SUFFICES ASSUME NEW u \in Txn, NEW k \in Key PROVE Kept(u, k)'
          BY DEF NoLostUpdate, Kept
        <4>1. CASE u = t /\ k = l.key
          <5>1. /\ rowLock'[k] = u
                /\ newQty'[u][k] = new
                /\ appended'[u][k] = appended[u][k] + row
                /\ halving'[u][k] = halving[u][k] + half
            BY <3>4, <3>5, <4>1 DEF TypeOK
          <5>2. qtyOnHand[k] \in Int /\ appended[u][k] \in Int /\ halving[u][k] \in Nat
            BY DEF TypeOK
          <5>3. Within((b - qtyOnHand[k] - appended[u][k]) + (new - b - row),
                       halving[u][k] + half)
            <6> DEFINE before == b - qtyOnHand[k] - appended[u][k]
                       line == new - b - row
            <6>1. before \in Int /\ line \in Int
              BY <5>2, <3>2, <3>3
            <6>2. Within(before, halving[u][k]) /\ Within(line, half)
              BY <4>1, <3>3, <3>7
            <6> HIDE DEF before, line
            <6>3. Within(before + line, halving[u][k] + half)
              BY <6>1, <6>2, <5>2, <3>3, WithinSum
            <6>4. QED
              BY <6>3 DEF before, line
          <5>4. newQty'[u][k] - qtyOnHand'[k] - appended'[u][k]
                  = (b - qtyOnHand[k] - appended[u][k]) + (new - b - row)
            <6>1. qtyOnHand'[k] = qtyOnHand[k]
              BY <3>4
            <6>2. QED
              BY <5>1, <5>2, <6>1, <3>2, <3>3, Regroup
          <5>5. QED
            BY <5>1, <5>3, <5>4 DEF Kept
        <4>2. CASE ~(u = t /\ k = l.key)
          <5>1. /\ newQty'[u][k] = newQty[u][k] /\ appended'[u][k] = appended[u][k]
                /\ halving'[u][k] = halving[u][k]
            BY <3>4, <3>5, <4>2 DEF TypeOK
          <5>2. rowLock'[k] = u <=> rowLock[k] = u
            BY <3>1, <3>4, <4>2 DEF TypeOK
          <5>3. QED
            BY <5>1, <5>2, <3>4 DEF BalanceInv, NoLostUpdate, Kept
        <4>3. QED
          BY <4>1, <4>2
      <3>9. BalanceIsLedger'
        BY <3>4 DEF BalanceInv, BalanceIsLedger
      <3>10. QED
        BY <3>8, <3>9 DEF BalanceInv
    <2>6. ASSUME NEW t \in Txn, Commit(t) PROVE BalanceInv'
      <3>1. /\ EndRequest(t)
            /\ qtyOnHand' = [k \in Key |-> IF rowLock[k] = t THEN newQty[t][k]
                                           ELSE qtyOnHand[k]]
            /\ ledger' = [k \in Key |-> ledger[k] + appended[t][k]]
            /\ halved' = [k \in Key |-> halved[k] + halving[t][k]]
        BY <2>6 DEF Commit
      <3>2. NoLostUpdate'
        BY <3>1, EndRequestUpdates DEF BalanceInv
      <3>3. ASSUME NEW k \in Key PROVE Within(qtyOnHand'[k] - ledger'[k], halved'[k])
        <4>1. /\ qtyOnHand[k] \in Int /\ ledger[k] \in Int /\ halved[k] \in Nat
              /\ newQty[t][k] \in Int /\ appended[t][k] \in Int /\ halving[t][k] \in Nat
          BY DEF TypeOK
        <4>2. Within(qtyOnHand[k] - ledger[k], halved[k]) /\ Kept(t, k)
          BY DEF BalanceInv, BalanceIsLedger, NoLostUpdate, Kept
        <4>3. CASE rowLock[k] = t
          <5>1. Within((qtyOnHand[k] - ledger[k])
                         + (newQty[t][k] - qtyOnHand[k] - appended[t][k]),
                       halved[k] + halving[t][k])
            <6> DEFINE before == qtyOnHand[k] - ledger[k]
                       more == newQty[t][k] - qtyOnHand[k] - appended[t][k]
            <6>1. before \in Int /\ more \in Int
              BY <4>1
            <6>2. Within(before, halved[k]) /\ Within(more, halving[t][k])
              BY <4>2, <4>3 DEF Kept
            <6> HIDE DEF before, more
            <6>3. Within(before + more, halved[k] + halving[t][k])
              BY <4>1, <6>1, <6>2, WithinSum
            <6>4. QED
              BY <6>3 DEF before, more
          <5>2. qtyOnHand'[k] - ledger'[k]
                  = (qtyOnHand[k] - ledger[k])
                      + (newQty[t][k] - qtyOnHand[k] - appended[t][k])
            BY <3>1, <4>1, <4>3
          <5>3. QED
            BY <3>1, <5>1, <5>2
        <4>4. CASE rowLock[k] # t
          BY <3>1, <4>1, <4>2, <4>4 DEF Kept
        <4>5. QED
          BY <4>3, <4>4
      <3>4. BalanceIsLedger'
        BY <3>3 DEF BalanceIsLedger
      <3>5. QED
        BY <3>2, <3>4 DEF BalanceInv
    <2>7. CASE UNCHANGED vars
      BY <2>7 DEF vars, database, request, work, history, BalanceInv, BalanceIsLedger,
                  NoLostUpdate
    <2>8. QED
      BY <2>1, <2>2, <2>3, <2>4, <2>5, <2>6, <2>7
      DEF Next, Step, AlreadyPosted, RefuseEmpty, RaiseInsufficient, RefuseZero,
          DeadlockVictim, Crash
  <1>3. BalanceInv => BalanceIsLedger
    BY DEF BalanceInv
  <1>4. QED
    BY <1>1, <1>2, <1>3, TypeCorrect, PTL DEF Spec
-----------------------------------------------------------------------------
(* The ledger, the outbox and the status of a document never disagree. *)
THEOREM PostingsAreWhole == Spec => []PostingIsWhole
  <1>1. Init => PostingIsWhole
    BY DEF Init, PostingIsWhole
  <1>2. TypeOK /\ PostingIsWhole /\ [Next]_vars => PostingIsWhole'
    <2> SUFFICES ASSUME TypeOK, PostingIsWhole, [Next]_vars PROVE PostingIsWhole'
      OBVIOUS
    <2>1. CASE UNCHANGED <<postings, outbox, status>>
      BY <2>1 DEF PostingIsWhole
    <2>2. ASSUME NEW t \in Txn, ReturnExisting(t) PROVE PostingIsWhole'
      BY <2>2 DEF ReturnExisting, HasRows, MarkPosted, PostingIsWhole, TypeOK
    <2>3. ASSUME NEW t \in Txn, Commit(t) PROVE PostingIsWhole'
      <3>1. doc[t] \in Doc
        BY <2>3 DEF Commit, TypeOK
      <3>2. QED
        BY <2>3, <3>1 DEF Commit, MarkPosted, PostingIsWhole, TypeOK
    <2>4. QED
      BY <2>1, <2>2, <2>3
      DEF Next, Step, vars, database, LoadDocument, BeginPosting, PostLine, Rollback,
          AlreadyPosted, RefuseEmpty, RaiseInsufficient, RefuseZero, DeadlockVictim, Crash
  <1>3. QED
    BY <1>1, <1>2, TypeCorrect, PTL DEF Spec

(* A request that ends creates no overlap. *)
LEMMA EndRequestOverlap ==
  ASSUME TypeOK, RepeatInv, NEW t \in Txn, EndRequest(t),
         postings' = postings, overlapped' = overlapped
  PROVE  RepeatInv'
  <1>1. \A u \in Txn : pc'[u] = "posting" =>
          u # t /\ pc[u] = "posting" /\ doc'[u] = doc[u]
    BY EndRequestLocks
  <1>2. OverlapRecorded'
    BY <1>1 DEF RepeatInv, OverlapRecorded
  <1>3. QED
    BY <1>2 DEF RepeatInv, RepeatNeedsOverlap

(* A document is appended twice only when two transactions were posting it *)
(* at the same time: post_movements is idempotent for requests that do not *)
(* overlap, whatever fails or crashes in between.                          *)
THEOREM RepeatsAreNoOps == Spec => []RepeatNeedsOverlap
  <1>1. Init => RepeatInv
    BY DEF Init, RepeatInv, OverlapRecorded, RepeatNeedsOverlap
  <1>2. TypeOK /\ RepeatInv /\ [Next]_vars => RepeatInv'
    <2> SUFFICES ASSUME TypeOK, RepeatInv, [Next]_vars PROVE RepeatInv'
      OBVIOUS
    <2>1. ASSUME NEW t \in Txn, LoadDocument(t) PROVE RepeatInv'
      BY <2>1 DEF LoadDocument, TypeOK, RepeatInv, OverlapRecorded, RepeatNeedsOverlap,
                  database, history
    <2>2. ASSUME NEW t \in Txn, Rollback(t) PROVE RepeatInv'
      BY <2>2, EndRequestOverlap DEF Rollback, database, history
    <2>3. ASSUME NEW t \in Txn, ReturnExisting(t) PROVE RepeatInv'
      BY <2>3, EndRequestOverlap DEF ReturnExisting, history
    <2>4. ASSUME NEW t \in Txn, BeginPosting(t) PROVE RepeatInv'
      <3>1. /\ pc' = [pc EXCEPT ![t] = "posting"]
            /\ UNCHANGED <<doc, postings>>
            /\ postings[doc[t]] = 0
            /\ doc[t] \in Doc
            /\ overlapped \subseteq overlapped'
            /\ (\E u \in Txn \ {t} : pc[u] = "posting" /\ doc[u] = doc[t])
                 => doc[t] \in overlapped'
        BY <2>4 DEF BeginPosting, HasRows, database, request, TypeOK
      <3>2. RepeatNeedsOverlap'
        BY <3>1 DEF RepeatInv, RepeatNeedsOverlap
      <3>3. ASSUME NEW u \in Txn, pc'[u] = "posting"
            PROVE  /\ postings'[doc'[u]] > 0 => doc'[u] \in overlapped'
                   /\ \A v \in Txn \ {u} :
                        pc'[v] = "posting" /\ doc'[v] = doc'[u] => doc'[u] \in overlapped'
        <4>1. CASE u = t
          BY <3>1, <4>1 DEF TypeOK
        <4>2. CASE u # t
          <5>1. pc[u] = "posting"
            BY <3>1, <3>3, <4>2 DEF TypeOK
          <5>2. \A v \in Txn \ {u, t} : pc'[v] = pc[v]
            BY <3>1 DEF TypeOK
          <5>3. QED
            BY <3>1, <5>1, <5>2, <4>2 DEF RepeatInv, OverlapRecorded
        <4>3. QED
          BY <4>1, <4>2
      <3>4. QED
        BY <3>2, <3>3 DEF RepeatInv, OverlapRecorded
    <2>5. ASSUME NEW t \in Txn, PostLine(t) PROVE RepeatInv'
      BY <2>5 DEF PostLine, RepeatInv, OverlapRecorded, RepeatNeedsOverlap, database,
                  request, history
    <2>6. ASSUME NEW t \in Txn, Commit(t) PROVE RepeatInv'
      <3>1. /\ EndRequest(t)
            /\ pc[t] = "posting" /\ doc[t] \in Doc
            /\ postings' = [postings EXCEPT ![doc[t]] = @ + 1]
            /\ overlapped' = overlapped
        BY <2>6 DEF Commit, TypeOK
      <3>2. \A u \in Txn : pc'[u] = "posting" =>
              u # t /\ pc[u] = "posting" /\ doc'[u] = doc[u]
        BY <3>1, EndRequestLocks
      <3>3. \A d \in Doc : postings'[d] = IF d = doc[t] THEN postings[d] + 1 ELSE postings[d]
        BY <3>1 DEF TypeOK
      <3>4. OverlapRecorded'
        <4> SUFFICES ASSUME NEW u \in Txn, pc'[u] = "posting"
              PROVE  /\ postings'[doc'[u]] > 0 => doc'[u] \in overlapped'
                     /\ \A v \in Txn \ {u} :
                          pc'[v] = "posting" /\ doc'[v] = doc'[u] => doc'[u] \in overlapped'
          BY DEF OverlapRecorded
        <4>1. u # t /\ pc[u] = "posting" /\ doc'[u] = doc[u] /\ doc[u] \in Doc
          BY <3>2 DEF TypeOK
        <4>2. doc[u] = doc[t] => doc[u] \in overlapped
          BY <3>1, <4>1 DEF RepeatInv, OverlapRecorded
        <4>3. QED
          BY <3>1, <3>2, <3>3, <4>1, <4>2 DEF RepeatInv, OverlapRecorded
      <3>5. RepeatNeedsOverlap'
        <4> SUFFICES ASSUME NEW d \in Doc, postings'[d] > 1 PROVE d \in overlapped'
          BY DEF RepeatNeedsOverlap
        <4>1. CASE d = doc[t]
          BY <3>1, <3>3, <4>1 DEF RepeatInv, OverlapRecorded, TypeOK
        <4>2. CASE d # doc[t]
          BY <3>1, <3>3, <4>2 DEF RepeatInv, RepeatNeedsOverlap
        <4>3. QED
          BY <4>1, <4>2
      <3>6. QED
        BY <3>4, <3>5 DEF RepeatInv
    <2>7. CASE UNCHANGED vars
      BY <2>7 DEF vars, database, request, work, history, RepeatInv, OverlapRecorded,
                  RepeatNeedsOverlap
    <2>8. QED
      BY <2>1, <2>2, <2>3, <2>4, <2>5, <2>6, <2>7
      DEF Next, Step, AlreadyPosted, RefuseEmpty, RaiseInsufficient, RefuseZero,
          DeadlockVictim, Crash
  <1>3. RepeatInv => RepeatNeedsOverlap
    BY DEF RepeatInv
  <1>4. QED
    BY <1>1, <1>2, <1>3, TypeCorrect, PTL DEF Spec
-----------------------------------------------------------------------------
(* The lines of the documents: a row is a document and the number of one   *)
(* of its lines.                                                           *)
LEMMA RowType ==
  ASSUME NEW r \in AllLines
  PROVE  /\ r[1] \in Doc /\ r[2] \in Nat \ {0} /\ r = <<r[1], r[2]>>
         /\ r[2] <= Len(LinesOf[r[1]]) /\ r[2] \in DOMAIN LinesOf[r[1]]
         /\ LineAt(r).key \in Key /\ LineAt(r).delta \in Int
         /\ QtyDelta[r] \in Int /\ QtyDelta[r] = Stored(LineAt(r).delta)
  <1>1. PICK d \in Doc : r \in {d} \X DOMAIN LinesOf[d]
    BY DEF AllLines
  <1>2. r[1] = d /\ r[2] \in DOMAIN LinesOf[d] /\ r = <<r[1], r[2]>>
    BY <1>1
  <1>3. LinesOf[d] \in Seq(Line)
    OBVIOUS
  <1>4. DOMAIN LinesOf[d] = 1..Len(LinesOf[d]) /\ Len(LinesOf[d]) \in Nat
    BY <1>3
  <1>5. LineAt(r) \in Line
    BY <1>2, <1>3, <1>4 DEF LineAt
  <1>6. LineAt(r).key \in Key /\ LineAt(r).delta \in Int
    BY <1>5 DEF Line
  <1>7. QtyDelta[r] = Stored(LineAt(r).delta) /\ Stored(LineAt(r).delta) \in Int
    BY <1>6, StoredType DEF QtyDelta
  <1>8. QED
    BY <1>2, <1>4, <1>6, <1>7

(* Every line of a document is a row.                                      *)
LEMMA RowOfLine ==
  ASSUME NEW d \in Doc, NEW i \in DOMAIN LinesOf[d]
  PROVE  <<d, i>> \in AllLines /\ LineAt(<<d, i>>) = LinesOf[d][i]
  <1>1. <<d, i>> \in {d} \X DOMAIN LinesOf[d]
    OBVIOUS
  <1>2. QED
    BY <1>1 DEF AllLines, LineAt

(* There are finitely many rows.                                           *)
LEMMA RowsFinite == IsFiniteSet(AllLines)
  <1> DEFINE Of(D) == {r \in AllLines : r[1] \in D}
             Good == {D \in SUBSET Doc : IsFiniteSet(Of(D))}
  <1>1. {} \in Good
    <2>1. Of({}) = {}
      OBVIOUS
    <2>2. QED
      BY <2>1, FS_EmptySet
  <1>2. ASSUME NEW D \in SUBSET Doc, NEW d \in Doc, D \in Good, d \notin D PROVE D \cup {d} \in Good
    <2> DEFINE lines == {d} \X DOMAIN LinesOf[d]
    <2>1. Of(D \cup {d}) \subseteq Of(D) \cup lines
      <3> SUFFICES ASSUME NEW r \in AllLines, r[1] = d PROVE r \in lines
        OBVIOUS
      <3>1. r = <<r[1], r[2]>> /\ r[2] \in DOMAIN LinesOf[r[1]]
        BY RowType
      <3>2. QED
        BY <3>1
    <2>2. IsFiniteSet(lines)
      <3>1. DOMAIN LinesOf[d] = 1..Len(LinesOf[d]) /\ Len(LinesOf[d]) \in Nat
        <4>1. LinesOf[d] \in Seq(Line)
          OBVIOUS
        <4>2. QED
          BY <4>1
      <3>2. 1 \in Int /\ Len(LinesOf[d]) \in Int
        BY <3>1
      <3>3. IsFiniteSet(1..Len(LinesOf[d]))
        BY <3>2, FS_Interval
      <3>4. IsFiniteSet({d})
        BY FS_Singleton
      <3>5. QED
        BY <3>1, <3>3, <3>4, FS_Product
    <2>3. IsFiniteSet(Of(D)) /\ D \cup {d} \in SUBSET Doc
      BY <1>2
    <2> HIDE DEF Of, lines
    <2>4. IsFiniteSet(Of(D) \cup lines)
      BY <2>2, <2>3, FS_Union
    <2>5. IsFiniteSet(Of(D \cup {d}))
      BY <2>1, <2>4, FS_Subset
    <2>6. QED
      BY <2>3, <2>5
  <1>3. Doc \in Good
    <2>1. IsFiniteSet(Doc)
      BY ReportConstants
    <2> HIDE DEF Good
    <2>2. QED
      BY <1>1, <1>2, <2>1, GrowSet
  <1>4. Of(Doc) = AllLines
    BY RowType
  <1>5. QED
    BY <1>3, <1>4

(* So a sum over rows is a whole quantity.                                 *)
LEMMA RowSets ==
  \A S : S \subseteq AllLines => IsFiniteSet(S) /\ SumFunctionOnSet(QtyDelta, S) \in Int
  <1> SUFFICES ASSUME NEW S, S \subseteq AllLines
               PROVE  IsFiniteSet(S) /\ SumFunctionOnSet(QtyDelta, S) \in Int
    OBVIOUS
  <1>1. IsFiniteSet(S) /\ \A r \in S : QtyDelta[r] \in Int
    BY RowsFinite, RowType, FS_Subset
  <1>2. QED
    BY <1>1, SumInt

(* What the ledger holds is what it held and the lines of the documents,   *)
(* as often as each was posted.                                            *)
RowsAt(k) == {r \in AllLines : LineAt(r).key = k}
Moved == [r \in AllLines |-> Movements[r] * QtyDelta[r]]
LedgerIsSum ==
  \A k \in Key : ledger[k] = Opening[k] + SumFunctionOnSet(Moved, RowsAt(k))

(* A posting transaction has appended the lines up to the next.            *)
Done(t) == {r \in AllLines : r[1] = doc[t] /\ r[2] < next[t]}
Progress(t) ==
  IF pc[t] = "posting"
    THEN /\ next[t] <= Len(Lines(t)) + 1
         /\ \A k \in Key : appended[t][k] = SumFunctionOnSet(QtyDelta, Done(t) \cap RowsAt(k))
    ELSE next[t] = 1 /\ appended[t] = NoRows

SumInv == LedgerIsSum /\ \A t \in Txn : Progress(t)

(* What a row moved, as often as it was posted, is a whole quantity.       *)
LEMMA MovedType ==
  ASSUME TypeOK
  PROVE  /\ \A r \in AllLines : /\ Movements[r] = postings[r[1]] /\ Movements[r] \in Nat
                                /\ Moved[r] = Movements[r] * QtyDelta[r] /\ Moved[r] \in Int
         /\ \A S : S \subseteq AllLines => SumFunctionOnSet(Moved, S) \in Int
  <1>1. ASSUME NEW r \in AllLines
        PROVE  /\ Movements[r] = postings[r[1]] /\ Movements[r] \in Nat
               /\ Moved[r] = Movements[r] * QtyDelta[r]
    BY RowType DEF Movements, Moved, TypeOK
  <1>2. ASSUME NEW r \in AllLines PROVE Moved[r] \in Int
    <2>1. \A m \in Nat, q \in Int : m * q \in Int
      OBVIOUS
    <2>2. Movements[r] \in Nat /\ QtyDelta[r] \in Int
      BY <1>1, RowType
    <2>3. Movements[r] * QtyDelta[r] \in Int
      BY <2>1, <2>2
    <2>4. QED
      BY <1>1, <2>3
  <1>3. ASSUME NEW S, S \subseteq AllLines PROVE SumFunctionOnSet(Moved, S) \in Int
    <2>1. IsFiniteSet(S) /\ \A r \in S : Moved[r] \in Int
      BY <1>2, <1>3, RowSets
    <2>2. QED
      BY <2>1, SumInt
  <1>4. QED
    BY <1>1, <1>2, <1>3

(* Nothing is posted when the behaviour begins.                            *)
LEMMA SumInit == Init => SumInv
  <1> SUFFICES ASSUME Init PROVE SumInv
    OBVIOUS
  <1>1. ASSUME NEW k \in Key PROVE ledger[k] = Opening[k] + SumFunctionOnSet(Moved, RowsAt(k))
    <2>1. \A r \in RowsAt(k) : Moved[r] = 0
      <3> SUFFICES ASSUME NEW r \in AllLines PROVE Moved[r] = 0
        BY DEF RowsAt
      <3>1. r[1] \in Doc /\ QtyDelta[r] \in Int
        BY RowType
      <3>2. postings[r[1]] = 0
        BY <3>1 DEF Init
      <3>3. QED
        BY <3>1, <3>2 DEF Moved, Movements
    <2>2. IsFiniteSet(RowsAt(k))
      BY RowSets DEF RowsAt
    <2>3. SumFunctionOnSet(Moved, RowsAt(k)) = 0
      BY <2>1, <2>2, SumZero
    <2>4. ledger[k] = Opening[k] /\ Opening[k] \in Int
      BY DEF Init
    <2>5. QED
      BY <2>3, <2>4
  <1>2. ASSUME NEW t \in Txn PROVE Progress(t)
    BY DEF Init, Progress
  <1>3. QED
    BY <1>1, <1>2 DEF SumInv, LedgerIsSum

(* The ledger grows by what a transaction that commits has appended.       *)
LEMMA CommitSum ==
  ASSUME TypeOK, SumInv, NEW t \in Txn, Commit(t)
  PROVE  LedgerIsSum'
  <1> DEFINE d == doc[t]
             more == [r \in AllLines |-> IF r[1] = d THEN QtyDelta[r] ELSE 0]
  <1>1. /\ pc[t] = "posting" /\ next[t] > Len(LinesOf[d]) /\ d \in Doc
        /\ ledger' = [k \in Key |-> ledger[k] + appended[t][k]]
        /\ postings' = [postings EXCEPT ![d] = @ + 1]
    BY DEF Commit, EndOfLines, Lines, TypeOK
  <1>2. next[t] = Len(LinesOf[d]) + 1
    <2>1. next[t] <= Len(LinesOf[d]) + 1
      BY <1>1 DEF SumInv, Progress, Lines
    <2>2. next[t] \in Nat /\ Len(LinesOf[d]) \in Nat
      <3>1. LinesOf[d] \in Seq(Line)
        BY <1>1
      <3>2. QED
        BY <3>1 DEF TypeOK
    <2>3. QED
      BY <1>1, <2>1, <2>2
  <1>3. Done(t) = {r \in AllLines : r[1] = d}
    <2> SUFFICES ASSUME NEW r \in AllLines, r[1] = d PROVE r[2] < next[t]
      BY DEF Done
    <2>1. r[2] \in Nat /\ r[2] <= Len(LinesOf[d])
      BY RowType
    <2>2. Len(LinesOf[d]) \in Nat
      <3>1. LinesOf[d] \in Seq(Line)
        BY <1>1
      <3>2. QED
        BY <3>1
    <2>3. QED
      BY <1>2, <2>1, <2>2
  <1>4. \A r \in AllLines : /\ Moved[r] \in Int /\ more[r] \in Int /\ Moved'[r] = Moved[r] + more[r]
    <2> SUFFICES ASSUME NEW r \in AllLines
                 PROVE  Moved[r] \in Int /\ more[r] \in Int /\ Moved'[r] = Moved[r] + more[r]
      OBVIOUS
    <2>1. /\ Movements[r] = postings[r[1]] /\ Movements[r] \in Nat
          /\ Moved[r] = Movements[r] * QtyDelta[r] /\ Moved[r] \in Int
      BY MovedType
    <2>2. Moved'[r] = postings'[r[1]] * QtyDelta[r]
      BY DEF Moved, Movements
    <2>3. QtyDelta[r] \in Int /\ r[1] \in Doc
      BY RowType
    <2>4. postings'[r[1]] = postings[r[1]] + (IF r[1] = d THEN 1 ELSE 0)
      BY <1>1, <2>3 DEF TypeOK
    <2>5. more[r] = IF r[1] = d THEN QtyDelta[r] ELSE 0
      OBVIOUS
    <2>6. \A m \in Nat, q \in Int : (m + 1) * q = m * q + q /\ (m + 0) * q = m * q + 0
      OBVIOUS
    <2> HIDE DEF more, d
    <2>7. CASE r[1] = d
      <3>1. Moved'[r] = (Movements[r] + 1) * QtyDelta[r] /\ more[r] = QtyDelta[r]
        BY <2>1, <2>2, <2>4, <2>5, <2>7
      <3>2. (Movements[r] + 1) * QtyDelta[r] = Movements[r] * QtyDelta[r] + QtyDelta[r]
        BY <2>1, <2>3, <2>6
      <3>3. QED
        BY <2>1, <2>3, <3>1, <3>2
    <2>8. CASE r[1] # d
      <3>1. Moved'[r] = (Movements[r] + 0) * QtyDelta[r] /\ more[r] = 0
        BY <2>1, <2>2, <2>4, <2>5, <2>8
      <3>2. (Movements[r] + 0) * QtyDelta[r] = Movements[r] * QtyDelta[r] + 0
        BY <2>1, <2>3, <2>6
      <3>3. QED
        BY <2>1, <2>3, <3>1, <3>2
    <2>9. QED
      BY <2>7, <2>8
  <1> SUFFICES ASSUME NEW k \in Key PROVE ledger'[k] = Opening[k] + SumFunctionOnSet(Moved', RowsAt(k))
    BY DEF LedgerIsSum
  <1> DEFINE S == RowsAt(k)
             T == Done(t) \cap S
  <1>5. S \subseteq AllLines /\ IsFiniteSet(S) /\ T \subseteq S /\ T \subseteq AllLines /\ IsFiniteSet(T)
    BY RowSets DEF RowsAt, Done
  <1>6. /\ \A r \in S \ T : more[r] = 0
        /\ \A r \in T : more[r] = QtyDelta[r] /\ QtyDelta[r] \in Int
    BY <1>3, <1>5, RowType
  <1>7. appended[t][k] = SumFunctionOnSet(QtyDelta, T)
    BY <1>1 DEF SumInv, Progress
  <1>8. ledger[k] = Opening[k] + SumFunctionOnSet(Moved, S)
    BY DEF SumInv, LedgerIsSum
  <1>9. ledger'[k] = ledger[k] + appended[t][k]
    BY <1>1
  <1> HIDE DEF more, S, T, d
  <1>10. SumFunctionOnSet(Moved', S) = SumFunctionOnSet(Moved, S) + SumFunctionOnSet(more, S)
    <2>1. \A r \in S : Moved[r] \in Int /\ more[r] \in Int /\ Moved'[r] = Moved[r] + more[r]
      BY <1>4, <1>5
    <2>2. QED
      BY <1>5, <2>1, SumPlus
  <1>11. SumFunctionOnSet(more, S) = SumFunctionOnSet(more, T)
    <2>1. \A r \in S : more[r] \in Int
      BY <1>4, <1>5
    <2>2. QED
      BY <1>5, <1>6, <2>1, SumPart
  <1>12. SumFunctionOnSet(more, T) = SumFunctionOnSet(QtyDelta, T)
    BY <1>5, <1>6, SumInt
  <1>13. Opening[k] \in Int /\ SumFunctionOnSet(Moved, S) \in Int /\ appended[t][k] \in Int
    BY <1>5, MovedType DEF TypeOK
  <1>14. SumFunctionOnSet(Moved', S) = SumFunctionOnSet(Moved, S) + appended[t][k]
    BY <1>7, <1>10, <1>11, <1>12, Zenon
  <1>15. ledger'[k] = Opening[k] + SumFunctionOnSet(Moved', S)
    <2> DEFINE a == SumFunctionOnSet(Moved, S)
               b == appended[t][k]
    <2>1. ledger'[k] = (Opening[k] + a) + b /\ SumFunctionOnSet(Moved', S) = a + b
      BY <1>8, <1>9, <1>14
    <2>2. a \in Int /\ b \in Int /\ Opening[k] \in Int
      BY <1>13
    <2> HIDE DEF a, b
    <2>3. (Opening[k] + a) + b = Opening[k] + (a + b)
      BY <2>2
    <2>4. QED
      BY <2>1, <2>3
  <1>16. QED
    BY <1>15 DEF S

(* A request that does not move has appended what it had.                  *)
LEMMA ProgressKept ==
  ASSUME NEW u \in Txn, Progress(u),
         pc'[u] = pc[u], doc'[u] = doc[u], next'[u] = next[u], appended'[u] = appended[u]
  PROVE  Progress(u)'
  BY DEF Progress, Done, Lines

(* A request that ends has appended nothing, and the others what they had. *)
LEMMA EndRequestProgress ==
  ASSUME TypeOK, NEW t \in Txn, EndRequest(t), \A u \in Txn : Progress(u)
  PROVE  \A u \in Txn : Progress(u)'
  <1> SUFFICES ASSUME NEW u \in Txn PROVE Progress(u)'
    OBVIOUS
  <1>1. CASE u = t
    <2>1. pc'[t] = "idle" /\ next'[t] = 1 /\ appended'[t] = NoRows
      BY DEF EndRequest, TypeOK
    <2>2. NoRows' = NoRows
      BY DEF NoRows
    <2>3. QED
      BY <1>1, <2>1, <2>2 DEF Progress
  <1>2. CASE u # t
    <2>1. pc'[u] = pc[u] /\ doc'[u] = doc[u] /\ next'[u] = next[u] /\ appended'[u] = appended[u]
      BY <1>2 DEF EndRequest, TypeOK
    <2>2. Progress(u)
      OBVIOUS
    <2>3. QED
      BY <2>1, <2>2, ProgressKept
  <1>3. QED
    BY <1>1, <1>2

(* One turn of the loop appends the next line.                             *)
LEMMA PostLineProgress ==
  ASSUME TypeOK, NEW t \in Txn, PostLine(t), \A u \in Txn : Progress(u)
  PROVE  \A u \in Txn : Progress(u)'
  <1> DEFINE l == CurrentLine(t)
             d == doc[t]
             r0 == <<d, next[t]>>
  <1>1. /\ pc[t] = "posting" /\ pc' = pc /\ doc' = doc
        /\ next' = [next EXCEPT ![t] = @ + 1]
        /\ appended' = [appended EXCEPT ![t][l.key] = @ + Stored(l.delta)]
    BY DEF PostLine, HasLine, request
  <1>2. d \in Doc /\ next[t] \in 1..Len(LinesOf[d]) /\ l.key \in Key /\ l.delta \in Int
    BY CurrentLineType DEF PostLine
  <1>3. next[t] \in DOMAIN LinesOf[d] /\ Len(LinesOf[d]) \in Nat /\ next[t] \in Nat
    <2>1. LinesOf[d] \in Seq(Line)
      BY <1>2
    <2>2. QED
      BY <1>2, <2>1
  <1>4. r0 \in AllLines /\ LineAt(r0) = l /\ QtyDelta[r0] = Stored(l.delta) /\ QtyDelta[r0] \in Int
    <2>1. r0 \in AllLines /\ LineAt(r0) = l
      BY <1>2, <1>3, RowOfLine DEF CurrentLine, Lines
    <2>2. QED
      BY <2>1, RowType
  <1> SUFFICES ASSUME NEW u \in Txn PROVE Progress(u)'
    OBVIOUS
  <1>5. CASE u # t
    <2>1. pc'[u] = pc[u] /\ doc'[u] = doc[u] /\ next'[u] = next[u] /\ appended'[u] = appended[u]
      BY <1>1, <1>5 DEF TypeOK
    <2>2. Progress(u)
      OBVIOUS
    <2>3. QED
      BY <2>1, <2>2, ProgressKept
  <1>6. CASE u = t
    <2>1. next'[t] = next[t] + 1 /\ pc'[t] = "posting" /\ doc'[t] = d
      BY <1>1 DEF TypeOK
    <2>2. next'[t] <= Len(Lines(t)') + 1
      BY <1>2, <1>3, <2>1 DEF Lines
    <2>3. Done(t)' = Done(t) \cup {r0} /\ r0 \notin Done(t)
      <3>1. \A r \in AllLines : r = <<r[1], r[2]>> /\ r[2] \in Nat
        BY RowType
      <3>2. \A i \in Nat : i < next[t] + 1 <=> (i < next[t] \/ i = next[t])
        BY <1>3
      <3>3. \A r \in AllLines : r[1] = d /\ r[2] = next[t] => r = r0
        BY <3>1
      <3>4. r0[1] = d /\ r0[2] = next[t]
        OBVIOUS
      <3>5. \A r \in AllLines : r \in Done(t)' <=> r \in Done(t) \/ r = r0
        BY <2>1, <3>1, <3>2, <3>3, <3>4 DEF Done
      <3>6. Done(t)' \subseteq AllLines /\ Done(t) \subseteq AllLines
        BY DEF Done
      <3>7. r0 \notin Done(t)
        BY <1>3, <3>4 DEF Done
      <3>8. QED
        BY <1>4, <3>5, <3>6, <3>7
    <2>4. ASSUME NEW k \in Key
          PROVE  appended'[t][k] = SumFunctionOnSet(QtyDelta, Done(t)' \cap RowsAt(k))
      <3> DEFINE S == Done(t) \cap RowsAt(k)
      <3>1. IsFiniteSet(S) /\ \A r \in S \cup {r0} : QtyDelta[r] \in Int
        <4>1. S \subseteq AllLines
          BY DEF RowsAt
        <4>2. QED
          BY <1>4, <4>1, RowSets, RowType
      <3>2. appended[t][k] = SumFunctionOnSet(QtyDelta, S)
        BY <1>1 DEF Progress
      <3>3. appended[t][k] \in Int
        BY DEF TypeOK
      <3>4. CASE k = l.key
        <4>1. Done(t)' \cap RowsAt(k) = S \cup {r0} /\ r0 \notin S
          BY <1>4, <2>3, <3>4 DEF RowsAt
        <4>2. appended'[t][k] = appended[t][k] + QtyDelta[r0]
          BY <1>1, <1>4, <3>4 DEF TypeOK
        <4> HIDE DEF S, r0
        <4>3. SumFunctionOnSet(QtyDelta, S \cup {r0}) = QtyDelta[r0] + SumFunctionOnSet(QtyDelta, S)
          BY <3>1, <4>1, SumInsert
        <4>4. appended[t][k] + QtyDelta[r0] = QtyDelta[r0] + appended[t][k]
          BY <1>4, <3>3
        <4>5. QED
          BY <3>2, <4>1, <4>2, <4>3, <4>4
      <3>5. CASE k # l.key
        <4>1. Done(t)' \cap RowsAt(k) = S
          BY <1>4, <2>3, <3>5 DEF RowsAt
        <4>2. appended'[t][k] = appended[t][k]
          BY <1>1, <1>2, <3>5 DEF TypeOK
        <4>3. QED
          BY <3>2, <4>1, <4>2
      <3>6. QED
        BY <3>4, <3>5
    <2>5. RowsAt(1)' = RowsAt(1) /\ QtyDelta' = QtyDelta
      BY DEF RowsAt, QtyDelta
    <2>6. \A k \in Key : appended'[t][k] = SumFunctionOnSet(QtyDelta, Done(t) \cap RowsAt(k))'
      BY <2>4
    <2>7. QED
      BY <1>6, <2>1, <2>2, <2>6 DEF Progress
  <1>7. QED
    BY <1>5, <1>6

(* Every step keeps the ledger the sum of the lines posted.                *)
LEMMA SumStep == TypeOK /\ SumInv /\ [Next]_vars => SumInv'
  <1> SUFFICES ASSUME TypeOK, SumInv, [Next]_vars PROVE SumInv'
    OBVIOUS
  <1>1. ASSUME ledger' = ledger, postings' = postings PROVE LedgerIsSum'
    <2>1. Moved' = Moved
      BY <1>1 DEF Moved, Movements
    <2>2. LedgerIsSum
      BY DEF SumInv
    <2>3. QED
      BY <1>1, <2>1, <2>2 DEF LedgerIsSum
  <1>2. ASSUME NEW t \in Txn, EndRequest(t) PROVE \A u \in Txn : Progress(u)'
    BY <1>2, EndRequestProgress DEF SumInv
  <1>3. ASSUME NEW t \in Txn, LoadDocument(t) PROVE SumInv'
    <2>1. ledger' = ledger /\ postings' = postings /\ pc[t] = "idle" /\ next' = next /\ appended' = appended
      BY <1>3 DEF LoadDocument, database, work
    <2>2. pc'[t] = "loaded" /\ \A u \in Txn \ {t} : pc'[u] = pc[u] /\ doc'[u] = doc[u]
      BY <1>3 DEF LoadDocument, TypeOK
    <2>3. ASSUME NEW u \in Txn PROVE Progress(u)'
      <3>1. Progress(u)
        BY DEF SumInv
      <3>2. CASE u = t
        BY <2>1, <2>2, <3>1, <3>2 DEF Progress, NoRows
      <3>3. CASE u # t
        BY <2>1, <2>2, <3>1, <3>3, ProgressKept
      <3>4. QED
        BY <3>2, <3>3
    <2>4. QED
      BY <1>1, <2>1, <2>3 DEF SumInv
  <1>4. ASSUME NEW t \in Txn, Rollback(t) PROVE SumInv'
    BY <1>1, <1>2, <1>4 DEF Rollback, database, SumInv
  <1>5. ASSUME NEW t \in Txn, ReturnExisting(t) PROVE SumInv'
    BY <1>1, <1>2, <1>5 DEF ReturnExisting, SumInv
  <1>6. ASSUME NEW t \in Txn, BeginPosting(t) PROVE SumInv'
    <2>1. /\ ledger' = ledger /\ postings' = postings /\ pc[t] = "loaded" /\ next' = next
          /\ appended' = appended /\ doc' = doc
      BY <1>6 DEF BeginPosting, database, work, request
    <2>2. \A u \in Txn \ {t} : pc'[u] = pc[u]
      BY <1>6 DEF BeginPosting, TypeOK
    <2>3. doc[t] \in Doc
      BY <2>1 DEF TypeOK
    <2>4. Progress(t)'
      <3>1. next[t] = 1 /\ appended[t] = NoRows
        BY <2>1 DEF SumInv, Progress
      <3>2. Len(Lines(t)) \in Nat
        <4>1. LinesOf[doc[t]] \in Seq(Line)
          BY <2>3
        <4>2. QED
          BY <4>1 DEF Lines
      <3>3. Done(t)' = {}
        <4>1. \A r \in AllLines : ~(r[2] < 1)
          BY RowType
        <4>2. QED
          BY <2>1, <3>1, <4>1 DEF Done
      <3>4. SumFunctionOnSet(QtyDelta, {}) = 0
        BY FS_EmptySet, SumZero
      <3>5. \A k \in Key : appended'[t][k] = SumFunctionOnSet(QtyDelta, Done(t) \cap RowsAt(k))'
        <4> SUFFICES ASSUME NEW k \in Key
                     PROVE  appended'[t][k] = SumFunctionOnSet(QtyDelta, Done(t)' \cap RowsAt(k))
          BY DEF QtyDelta, RowsAt
        <4>1. Done(t)' \cap RowsAt(k) = {}
          BY <3>3
        <4>2. appended'[t][k] = 0
          BY <2>1, <3>1 DEF NoRows
        <4>3. QED
          BY <3>4, <4>1, <4>2
      <3>6. next'[t] <= Len(Lines(t)') + 1
        BY <2>1, <3>1, <3>2 DEF Lines
      <3>7. next'[t] = 1 /\ appended'[t] = NoRows'
        BY <2>1, <3>1 DEF NoRows
      <3>8. QED
        BY <3>5, <3>6, <3>7 DEF Progress
    <2>5. ASSUME NEW u \in Txn \ {t} PROVE Progress(u)'
      <3>1. Progress(u)
        BY DEF SumInv
      <3>2. QED
        BY <2>1, <2>2, <3>1, ProgressKept
    <2>6. QED
      BY <1>1, <2>1, <2>4, <2>5 DEF SumInv
  <1>7. ASSUME NEW t \in Txn, PostLine(t) PROVE SumInv'
    <2>1. ledger' = ledger /\ postings' = postings
      BY <1>7 DEF PostLine, database
    <2>2. QED
      BY <1>1, <1>7, <2>1, PostLineProgress DEF SumInv
  <1>8. ASSUME NEW t \in Txn, Commit(t) PROVE SumInv'
    <2>1. EndRequest(t)
      BY <1>8 DEF Commit
    <2>2. QED
      BY <1>2, <1>8, <2>1, CommitSum DEF SumInv
  <1>9. CASE UNCHANGED vars
    <2>1. /\ ledger' = ledger /\ postings' = postings /\ pc' = pc /\ next' = next
          /\ appended' = appended /\ doc' = doc
      BY <1>9 DEF vars, database, work, request
    <2>2. ASSUME NEW u \in Txn PROVE Progress(u)'
      <3>1. Progress(u)
        BY DEF SumInv
      <3>2. QED
        BY <2>1, <3>1, ProgressKept
    <2>3. QED
      BY <1>1, <2>1, <2>2 DEF SumInv
  <1>10. QED
    BY <1>3, <1>4, <1>5, <1>6, <1>7, <1>8, <1>9
    DEF Next, Step, AlreadyPosted, RefuseEmpty, RaiseInsufficient, RefuseZero, DeadlockVictim, Crash

(* Which kinds of document write which movements.                          *)
KindFor(type) ==
  CASE type = "WASTAGE" -> "wastage"
    [] type = "SALE_DEDUCTION" -> "sale"
    [] type = "GRN_RECEIPT" -> "grn"
    [] type = "STOCKTAKE_ADJ" -> "take"
OneKind == {"WASTAGE", "SALE_DEDUCTION", "GRN_RECEIPT", "STOCKTAKE_ADJ"}

LEMMA TypesOfKinds ==
  \A r \in AllLines :
    /\ \A type \in OneKind : r \in LinesOfType[type] <=> KindOf[r[1]] = KindFor(type)
    /\ r \in LinesOfType["ISSUE_IN"] <=> KindOf[r[1]] = "issue" /\ LineAt(r).delta >= 0
    /\ KindOf[r[1]] \in Kind
  <1> SUFFICES ASSUME NEW r \in AllLines
               PROVE  /\ \A type \in OneKind : r \in LinesOfType[type] <=> KindOf[r[1]] = KindFor(type)
                      /\ r \in LinesOfType["ISSUE_IN"] <=> KindOf[r[1]] = "issue" /\ LineAt(r).delta >= 0
                      /\ KindOf[r[1]] \in Kind
    OBVIOUS
  <1>1. r[1] \in Doc /\ LineAt(r).delta \in Int
    BY RowType
  <1>2. KindOf[r[1]] \in Kind
    BY <1>1, ReportConstants
  <1>3. \A type \in Type : r \in LinesOfType[type] <=> MovementType(r[1], LineAt(r)) = type
    BY DEF LinesOfType
  <1>4. LineAt(r).delta < 0 <=> ~(LineAt(r).delta >= 0)
    BY <1>1
  <1>5. ASSUME NEW type \in OneKind PROVE r \in LinesOfType[type] <=> KindOf[r[1]] = KindFor(type)
    <2>1. type \in Type
      BY DEF OneKind, Type
    <2>2. MovementType(r[1], LineAt(r)) = type <=> KindOf[r[1]] = KindFor(type)
      BY <1>2 DEF OneKind, Kind, KindFor, MovementType
    <2>3. QED
      BY <1>3, <2>1, <2>2
  <1>6. r \in LinesOfType["ISSUE_IN"] <=> KindOf[r[1]] = "issue" /\ LineAt(r).delta >= 0
    BY <1>2, <1>3, <1>4 DEF Kind, Type, MovementType
  <1>7. QED
    BY <1>2, <1>5, <1>6

(* A product's lines of one of these types are those of one kind.          *)
OfProduct(p) == {r \in AllLines : LineAt(r).key[1] = p}

LEMMA LinesOfKind ==
  ASSUME NEW p \in Product, NEW type \in OneKind
  PROVE  /\ LinesFor[type][p] = {r \in OfProduct(p) : KindOf[r[1]] = KindFor(type)}
         /\ LinesFor[type][p] \subseteq AllLines /\ IsFiniteSet(LinesFor[type][p])
  <1>1. type \in Type
    BY DEF OneKind, Type
  <1>2. LinesOfType[type] \subseteq AllLines
    BY <1>1 DEF LinesOfType
  <1>3. LinesFor[type][p] = {r \in LinesOfType[type] : LineAt(r).key[1] = p}
    BY <1>1 DEF LinesFor
  <1>4. \A r \in AllLines : r \in LinesOfType[type] <=> KindOf[r[1]] = KindFor(type)
    BY TypesOfKinds
  <1>5. LinesFor[type][p] = {r \in OfProduct(p) : KindOf[r[1]] = KindFor(type)}
    BY <1>2, <1>3, <1>4 DEF OfProduct
  <1>6. LinesFor[type][p] \subseteq AllLines
    BY <1>2, <1>3
  <1>7. QED
    BY <1>5, <1>6, RowSets

(* A document that no two requests posted at once is in the ledger once,   *)
(* if it is POSTED.                                                        *)
LEMMA PostedOnce ==
  ASSUME TypeOK, PostingIsWhole, RepeatNeedsOverlap, NEW d \in Doc, d \notin overlapped
  PROVE  postings[d] = IF status[d] = "POSTED" THEN 1 ELSE 0
  <1>1. postings[d] \in Nat /\ ~(postings[d] > 1)
    BY DEF TypeOK, RepeatNeedsOverlap
  <1>2. status[d] = "POSTED" <=> postings[d] > 0
    BY DEF PostingIsWhole
  <1>3. QED
    BY <1>1, <1>2

(* The counterpart of a line of odd number has an even one, and back.      *)
LEMMA Parity ==
  ASSUME NEW i \in Nat \ {0}
  PROVE  /\ i % 2 = 1 => (i + 1) % 2 # 1
         /\ i % 2 # 1 => (i - 1) % 2 = 1
  <1> HIDE LedgerConstants
  <1>1. QED
    OBVIOUS

(* Opposite quantities are stored as opposite ones.                        *)
LEMMA StoredOpposite ==
  ASSUME NEW q \in Int
  PROVE  Stored(-q) = -Stored(q)
  <1> HIDE LedgerConstants
  <1>1. QED
    BY DEF Stored

(* Issues and transfers bring in what they take out.                       *)
MovedLines(p) == {r \in OfProduct(p) : KindOf[r[1]] \in {"issue", "transfer"}}

(* What issues and transfers take of a product they put back elsewhere.    *)
LEMMA OutIsIn ==
  ASSUME TypeOK, NEW p
  PROVE  SumFunctionOnSet(Moved, MovedLines(p)) = 0
  <1> DEFINE S == MovedLines(p)
             A == {r \in S : r[2] % 2 = 1}
             other == [r \in A |-> <<r[1], r[2] + 1>>]
             peer(r) == <<r[1], Counterpart(r[2])>>
  <1>1. S \subseteq AllLines /\ IsFiniteSet(S) /\ \A r \in S : Moved[r] \in Int
    BY RowSets, MovedType DEF MovedLines, OfProduct
  <1>2. ASSUME NEW r \in S PROVE peer(r) \in S /\ Moved[peer(r)] = -Moved[r]
    <2> DEFINE line == LinesOf[r[1]][r[2]]
               opposite == LinesOf[r[1]][Counterpart(r[2])]
    <2>1. /\ r \in AllLines /\ r[1] \in Doc /\ r[2] \in DOMAIN LinesOf[r[1]] /\ LineAt(r) = line
          /\ line.key[1] = p /\ KindOf[r[1]] \in {"issue", "transfer"} /\ line.delta \in Int
      BY <1>1, RowType DEF MovedLines, OfProduct, LineAt
    <2>2. /\ Counterpart(r[2]) \in DOMAIN LinesOf[r[1]]
          /\ opposite.key[1] = line.key[1] /\ opposite.delta = -line.delta
      BY <2>1, ReportConstants
    <2>3. peer(r) \in AllLines /\ LineAt(peer(r)) = opposite /\ peer(r)[1] = r[1]
      BY <2>1, <2>2, RowOfLine
    <2>4. peer(r) \in S
      BY <2>1, <2>2, <2>3 DEF MovedLines, OfProduct
    <2>5. QtyDelta[peer(r)] = -QtyDelta[r] /\ QtyDelta[r] \in Int
      <3>1. QtyDelta[peer(r)] = Stored(opposite.delta) /\ QtyDelta[r] = Stored(line.delta) /\ QtyDelta[r] \in Int
        BY <2>1, <2>3, RowType
      <3>2. Stored(-line.delta) = -Stored(line.delta)
        BY <2>1, StoredOpposite
      <3>3. QED
        BY <2>2, <3>1, <3>2
    <2>6. Moved[peer(r)] = postings[r[1]] * QtyDelta[peer(r)] /\ Moved[r] = postings[r[1]] * QtyDelta[r]
      BY <2>1, <2>3, MovedType
    <2>7. postings[r[1]] \in Int
      BY <2>1 DEF TypeOK
    <2>8. \A m, q \in Int : m * (-q) = -(m * q)
      OBVIOUS
    <2>9. Moved[peer(r)] = -Moved[r]
      <3> HIDE DEF peer
      <3>1. QED
        BY <2>5, <2>6, <2>7, <2>8
    <2>10. QED
      BY <2>4, <2>9
  <1>3. \A r \in S : r[2] \in Nat \ {0} /\ r = <<r[1], r[2]>>
    BY <1>1, RowType
  <1>4. ASSUME NEW r \in A PROVE other[r] \in S \ A /\ Moved[other[r]] = -Moved[r]
    <2>1. other[r] = peer(r) /\ other[r][2] = r[2] + 1
      BY DEF Counterpart
    <2>2. (r[2] + 1) % 2 # 1
      BY <1>3, Parity
    <2>3. QED
      BY <1>2, <2>1, <2>2
  <1>5. ASSUME NEW r \in A, NEW q \in A, other[r] = other[q] PROVE r = q
    <2>1. r[1] = q[1] /\ r[2] + 1 = q[2] + 1
      BY <1>5
    <2>2. r[2] = q[2]
      BY <1>3, <2>1
    <2>3. QED
      BY <1>3, <2>1, <2>2
  <1>6. ASSUME NEW q \in S \ A PROVE \E r \in A : other[r] = q
    <2>1. q[2] \in Nat \ {0} /\ q = <<q[1], q[2]>> /\ q[2] % 2 # 1
      BY <1>3
    <2>2. peer(q) = <<q[1], q[2] - 1>> /\ (q[2] - 1) % 2 = 1
      BY <2>1, Parity DEF Counterpart
    <2>3. peer(q) \in A
      BY <1>2, <2>2
    <2>4. (q[2] - 1) + 1 = q[2]
      BY <2>1
    <2>5. other[peer(q)] = q
      BY <2>1, <2>2, <2>3, <2>4
    <2>6. QED
      BY <2>3, <2>5
  <1>7. A \subseteq S
    OBVIOUS
  <1> HIDE DEF S, A, other
  <1>8. SumFunctionOnSet(Moved, S) = 0
    <2>1. Cancels(Moved, S, A, other)
      BY <1>1, <1>4, <1>5, <1>6, <1>7 DEF Cancels
    <2>2. QED
      BY <2>1, SumCancels
  <1>9. QED
    BY <1>8 DEF S

(* The pages that add up the lines of documents say what the ledger says,  *)
(* if no document of the kind was posted by two requests at once.          *)
LEMMA RecordedIsMoved ==
  ASSUME TypeOK, PostingIsWhole, RepeatNeedsOverlap, NEW p \in Product, NEW type \in OneKind,
         \A d \in overlapped : KindOf[d] # KindFor(type)
  PROVE  Recorded(Posted, type, p) = SumFunctionOnSet(Moved, LinesFor[type][p])
  <1> DEFINE S == LinesFor[type][p]
             T == {r \in S : r[1] \in Posted}
  <1>1. Recorded(Posted, type, p) = SumFunctionOnSet(QtyDelta, T)
    BY DEF Recorded
  <1>2. S \subseteq AllLines /\ T \subseteq S /\ IsFiniteSet(S) /\ IsFiniteSet(T)
    BY LinesOfKind, FS_Subset
  <1>3. ASSUME NEW r \in S
        PROVE  /\ Moved[r] \in Int
               /\ r \in T => QtyDelta[r] = Moved[r]
               /\ r \notin T => Moved[r] = 0
    <2>1. r \in AllLines /\ r[1] \in Doc /\ QtyDelta[r] \in Int /\ KindOf[r[1]] = KindFor(type)
      BY <1>2, RowType, LinesOfKind
    <2>2. postings[r[1]] = IF status[r[1]] = "POSTED" THEN 1 ELSE 0
      BY <2>1, PostedOnce
    <2>3. Moved[r] = postings[r[1]] * QtyDelta[r] /\ Moved[r] \in Int
      BY <2>1, MovedType
    <2>4. r \in T <=> status[r[1]] = "POSTED"
      BY <2>1 DEF Posted
    <2>5. 1 * QtyDelta[r] = QtyDelta[r] /\ 0 * QtyDelta[r] = 0
      BY <2>1
    <2> HIDE DEF T
    <2>6. QED
      BY <2>2, <2>3, <2>4, <2>5
  <1> HIDE DEF S, T
  <1>4. SumFunctionOnSet(QtyDelta, T) = SumFunctionOnSet(Moved, T)
    <2>1. \A r \in T : Moved[r] \in Int /\ QtyDelta[r] = Moved[r]
      BY <1>2, <1>3
    <2>2. QED
      BY <1>2, <2>1, SumInt
  <1>5. SumFunctionOnSet(Moved, S) = SumFunctionOnSet(Moved, T)
    <2>1. (\A r \in S : Moved[r] \in Int) /\ \A r \in S \ T : Moved[r] = 0
      BY <1>3
    <2>2. QED
      BY <1>2, <2>1, SumPart
  <1>6. QED
    BY <1>1, <1>4, <1>5 DEF S

(* What the leakage report takes from the ledger is what the lines moved.  *)
LEMMA TakenIsMoved ==
  ASSUME TypeOK, NEW p \in Product, NEW type \in OneKind
  PROVE  Taken(type, p) = -SumFunctionOnSet(Moved, LinesFor[type][p])
  <1> DEFINE S == LinesFor[type][p]
             gone == [r \in AllLines |-> -(Movements[r] * QtyDelta[r])]
  <1>1. Taken(type, p) = SumFunctionOnSet(gone, S)
    BY DEF Taken
  <1>2. S \subseteq AllLines /\ IsFiniteSet(S)
    BY LinesOfKind
  <1>3. \A r \in S : Moved[r] \in Int /\ gone[r] = -Moved[r]
    BY <1>2, MovedType
  <1> HIDE DEF S, gone
  <1>4. SumFunctionOnSet(gone, S) = -SumFunctionOnSet(Moved, S)
    BY <1>2, <1>3, SumMinus
  <1>5. QED
    BY <1>1, <1>4 DEF S

(* A product that is no mover was not sold.                                *)
LEMMA SoldIsTaken ==
  ASSUME TypeOK, NEW p \in Product
  PROVE  Sold(p) = Taken("SALE_DEDUCTION", p)
  <1> DEFINE S == LinesFor["SALE_DEDUCTION"][p]
             sold == {LineAt(r).key[1] : r \in {q \in LinesOfType["SALE_DEDUCTION"] : postings[q[1]] > 0}}
  <1>1. "SALE_DEDUCTION" \in OneKind /\ "SALE_DEDUCTION" \in Type
    BY DEF OneKind, Type
  <1>2. CASE p \in sold
    BY <1>2 DEF Sold, Movers
  <1>3. CASE p \notin sold
    <2>1. Sold(p) = 0
      BY <1>3 DEF Sold, Movers
    <2>2. ASSUME NEW r \in S PROVE Moved[r] = 0
      <3>1. r \in AllLines /\ r \in LinesOfType["SALE_DEDUCTION"] /\ LineAt(r).key[1] = p
        BY <1>1, LinesOfKind DEF LinesFor
      <3>2. postings[r[1]] \in Nat /\ QtyDelta[r] \in Int /\ Moved[r] = postings[r[1]] * QtyDelta[r]
        BY <3>1, RowType, MovedType
      <3>3. postings[r[1]] = 0
        BY <1>3, <3>1, <3>2
      <3>4. 0 * QtyDelta[r] = 0
        BY <3>2
      <3>5. QED
        BY <3>2, <3>3, <3>4
    <2>3. IsFiniteSet(S)
      BY <1>1, LinesOfKind
    <2> HIDE DEF S, sold
    <2>4. SumFunctionOnSet(Moved, S) = 0
      BY <2>2, <2>3, SumZero
    <2>5. Taken("SALE_DEDUCTION", p) = -SumFunctionOnSet(Moved, S)
      BY <1>1, TakenIsMoved DEF S
    <2>6. QED
      BY <2>1, <2>4, <2>5
  <1>4. QED
    BY <1>2, <1>3

(* Over all locations, the ledger of a product is what there was and the   *)
(* lines posted of it.                                                     *)
LEMMA ProductIsSum ==
  ASSUME TypeOK, LedgerIsSum, NEW p
  PROVE  /\ SumOf(ledger, p) = SumOf(Opening, p) + SumFunctionOnSet(Moved, OfProduct(p))
         /\ SumOf(ledger, p) \in Int /\ SumOf(Opening, p) \in Int
  <1> DEFINE K == RowsOf(p)
             F == [k \in Key |-> SumFunctionOnSet(Moved, RowsAt(k))]
             part == [r \in AllLines |-> LineAt(r).key]
             parts == [k \in Key |-> RowsAt(k)]
             All == OfProduct(p)
  <1>1. K \subseteq Key /\ IsFiniteSet(K)
    BY FS_Subset, ReportConstants DEF RowsOf
  <1>2. \A k \in K : F[k] \in Int /\ ledger[k] = Opening[k] + F[k] /\ Opening[k] \in Int /\ ledger[k] \in Int
    <2> SUFFICES ASSUME NEW k \in K
                 PROVE  /\ F[k] \in Int /\ ledger[k] = Opening[k] + F[k] /\ Opening[k] \in Int
                        /\ ledger[k] \in Int
      OBVIOUS
    <2>1. k \in Key /\ F[k] = SumFunctionOnSet(Moved, RowsAt(k)) /\ RowsAt(k) \subseteq AllLines
      BY <1>1 DEF RowsAt
    <2> HIDE DEF F
    <2>2. QED
      BY <2>1, MovedType DEF LedgerIsSum, TypeOK
  <1>3. /\ \A k \in K : F[k] = SumFunctionOnSet(Moved, parts[k]) /\ parts[k] \subseteq AllLines
        /\ \A k \in K : \A r \in AllLines : r \in parts[k] <=> part[r] = k
    <2> SUFFICES ASSUME NEW k \in K
                 PROVE  /\ F[k] = SumFunctionOnSet(Moved, parts[k]) /\ parts[k] \subseteq AllLines
                        /\ \A r \in AllLines : r \in parts[k] <=> part[r] = k
      OBVIOUS
    <2>1. parts[k] = RowsAt(k) /\ F[k] = SumFunctionOnSet(Moved, RowsAt(k))
      BY <1>1
    <2>2. RowsAt(k) \subseteq AllLines /\ \A r \in AllLines : r \in RowsAt(k) <=> part[r] = k
      BY DEF RowsAt
    <2> HIDE DEF F, parts
    <2>3. QED
      BY <2>1, <2>2
  <1>4. All \subseteq AllLines /\ \A r \in AllLines : r \in All <=> part[r] \in K
    <2>1. \A r \in AllLines : part[r] = LineAt(r).key /\ LineAt(r).key \in Key
      BY RowType
    <2>2. \A k \in Key : k \in K <=> k[1] = p
      BY DEF RowsOf
    <2> HIDE DEF part, K
    <2>3. QED
      BY <2>1, <2>2 DEF OfProduct
  <1>5. \A r \in AllLines : Moved[r] \in Int
    BY MovedType
  <1> HIDE DEF K, F, part, parts, All
  <1>6. SumFunctionOnSet(F, K) = SumFunctionOnSet(Moved, All)
    <2>1. Splits(part, AllLines, Moved, parts, F, K, All)
      BY <1>1, <1>3, <1>4, <1>5, RowsFinite DEF Splits
    <2>2. QED
      BY <2>1, SumOfSums
  <1>7. SumFunctionOnSet(ledger, K) = SumFunctionOnSet(Opening, K) + SumFunctionOnSet(F, K)
    BY <1>1, <1>2, SumPlus
  <1>8. SumFunctionOnSet(ledger, K) \in Int /\ SumFunctionOnSet(Opening, K) \in Int
    BY <1>1, <1>2, SumInt
  <1>9. QED
    BY <1>6, <1>7, <1>8 DEF SumOf, K, All

(* Over all locations, the balances are the ledger, but for the halves.    *)
LEMMA ProductBalance ==
  ASSUME TypeOK, BalanceIsLedger, NEW p
  PROVE  /\ Within(SumOf(qtyOnHand, p) - SumOf(ledger, p), SumOf(halved, p))
         /\ SumOf(qtyOnHand, p) \in Int
  <1> DEFINE K == RowsOf(p)
             off == [k \in Key |-> qtyOnHand[k] - ledger[k]]
  <1>1. K \subseteq Key /\ IsFiniteSet(K)
    BY FS_Subset, ReportConstants DEF RowsOf
  <1>2. \A k \in K : /\ off[k] \in Int /\ ledger[k] \in Int /\ qtyOnHand[k] \in Int
                     /\ qtyOnHand[k] = ledger[k] + off[k]
                     /\ halved[k] \in Nat /\ Within(off[k], halved[k])
    BY <1>1 DEF TypeOK, BalanceIsLedger
  <1> HIDE DEF K, off
  <1>3. SumFunctionOnSet(qtyOnHand, K) = SumFunctionOnSet(ledger, K) + SumFunctionOnSet(off, K)
    BY <1>1, <1>2, SumPlus
  <1>4. Within(SumFunctionOnSet(off, K), SumFunctionOnSet(halved, K))
    BY <1>1, <1>2, SumWithin
  <1>5. /\ SumFunctionOnSet(qtyOnHand, K) \in Int /\ SumFunctionOnSet(ledger, K) \in Int
        /\ SumFunctionOnSet(off, K) \in Int
    BY <1>1, <1>2, SumInt
  <1>6. SumFunctionOnSet(qtyOnHand, K) - SumFunctionOnSet(ledger, K) = SumFunctionOnSet(off, K)
    BY <1>3, <1>5
  <1>7. QED
    BY <1>4, <1>5, <1>6 DEF SumOf, K

(* A document that is created by the transaction that posts it belongs to  *)
(* one request and is never posted by two at once.                         *)
MadeOnce ==
  \A d \in MadeToPost :
    d \notin overlapped /\ \A t, u \in Txn : doc[t] = d /\ doc[u] = d => t = u

(* What a product's lines moved, by the kinds of their documents.          *)
LEMMA MovedByKind ==
  ASSUME TypeOK, NEW p \in Product
  PROVE  /\ \A type \in OneKind : SumFunctionOnSet(Moved, LinesFor[type][p]) \in Int
         /\ SumFunctionOnSet(Moved, OfProduct(p)) =
              SumFunctionOnSet(Moved, LinesFor["WASTAGE"][p])
              + SumFunctionOnSet(Moved, LinesFor["SALE_DEDUCTION"][p])
              + SumFunctionOnSet(Moved, LinesFor["STOCKTAKE_ADJ"][p])
              + SumFunctionOnSet(Moved, LinesFor["GRN_RECEIPT"][p])
  <1> DEFINE M == MovedLines(p)
             W == LinesFor["WASTAGE"][p]
             D == LinesFor["SALE_DEDUCTION"][p]
             V == LinesFor["STOCKTAKE_ADJ"][p]
             G == LinesFor["GRN_RECEIPT"][p]
             All == OfProduct(p)
             sum(X) == SumFunctionOnSet(Moved, X)
  <1>1. /\ "WASTAGE" \in OneKind /\ "SALE_DEDUCTION" \in OneKind
        /\ "STOCKTAKE_ADJ" \in OneKind /\ "GRN_RECEIPT" \in OneKind
    BY DEF OneKind
  <1>2. \A type \in OneKind : LinesFor[type][p] \subseteq AllLines /\ sum(LinesFor[type][p]) \in Int
    BY LinesOfKind, MovedType
  <1>3. \A r \in All :
          /\ r \in M <=> KindOf[r[1]] \in {"issue", "transfer"}
          /\ r \in W <=> KindOf[r[1]] = "wastage"
          /\ r \in D <=> KindOf[r[1]] = "sale"
          /\ r \in V <=> KindOf[r[1]] = "take"
          /\ r \in G <=> KindOf[r[1]] = "grn"
    BY <1>1, LinesOfKind DEF MovedLines, KindFor
  <1>4. M \subseteq All /\ W \subseteq All /\ D \subseteq All /\ V \subseteq All /\ G \subseteq All
    BY <1>1, LinesOfKind DEF MovedLines
  <1>5. All \subseteq AllLines /\ \A r \in All : KindOf[r[1]] \in Kind
    BY TypesOfKinds DEF OfProduct
  <1>6. sum(M) = 0
    BY OutIsIn
  <1>7. \A r \in AllLines : Moved[r] \in Int
    BY MovedType
  <1> HIDE DEF M, W, D, V, G, All
  <1>8. All = ((W \cup D) \cup (V \cup G)) \cup M
    BY <1>3, <1>4, <1>5 DEF Kind
  <1>9. /\ W \cap D = {} /\ V \cap G = {} /\ (W \cup D) \cap (V \cup G) = {}
        /\ ((W \cup D) \cup (V \cup G)) \cap M = {}
    BY <1>3, <1>4
  <1>10. \A X : X \subseteq All => IsFiniteSet(X) /\ \A r \in X : Moved[r] \in Int
    BY <1>5, <1>7, RowSets
  <1>11. ASSUME NEW X, NEW Y, X \subseteq All, Y \subseteq All, X \cap Y = {}
         PROVE  sum(X \cup Y) = sum(X) + sum(Y)
    <2>1. IsFiniteSet(X) /\ IsFiniteSet(Y) /\ \A r \in X \cup Y : Moved[r] \in Int
      BY <1>10, <1>11
    <2>2. QED
      BY <1>11, <2>1, SumUnion
  <1>12. sum(W \cup D) = sum(W) + sum(D) /\ sum(V \cup G) = sum(V) + sum(G)
    BY <1>4, <1>9, <1>11
  <1>13. sum((W \cup D) \cup (V \cup G)) = sum(W \cup D) + sum(V \cup G)
    BY <1>4, <1>9, <1>11
  <1>14. sum(All) = sum((W \cup D) \cup (V \cup G)) + sum(M)
    BY <1>4, <1>8, <1>9, <1>11
  <1>15. sum(W) \in Int /\ sum(D) \in Int /\ sum(V) \in Int /\ sum(G) \in Int
    BY <1>1, <1>2 DEF W, D, V, G
  <1> HIDE DEF sum
  <1>16. sum(All) = sum(W) + sum(D) + sum(V) + sum(G)
    BY <1>6, <1>12, <1>13, <1>14, <1>15
  <1>17. QED
    BY <1>2, <1>16 DEF sum, W, D, V, G, All

(* What is on hand of a product is what was there and what was received,   *)
(* less what is gone: no GRN is posted twice.                              *)
LEMMA StoryHolds ==
  ASSUME TypeOK, SumInv, BalanceIsLedger, PostingIsWhole, RepeatNeedsOverlap, MadeOnce,
         NEW p \in Product
  PROVE  OnHandIsExplained(p)
  <1> DEFINE w == SumFunctionOnSet(Moved, LinesFor["WASTAGE"][p])
             s == SumFunctionOnSet(Moved, LinesFor["SALE_DEDUCTION"][p])
             v == SumFunctionOnSet(Moved, LinesFor["STOCKTAKE_ADJ"][p])
             g == SumFunctionOnSet(Moved, LinesFor["GRN_RECEIPT"][p])
             opening == SumOf(Opening, p)
             had == SumOf(ledger, p)
             has == SumOf(qtyOnHand, p)
  <1>1. /\ "WASTAGE" \in OneKind /\ "SALE_DEDUCTION" \in OneKind
        /\ "STOCKTAKE_ADJ" \in OneKind /\ "GRN_RECEIPT" \in OneKind
    BY DEF OneKind
  <1>2. ActualQty(p) = (-s) + (-w) + (-v)
    BY <1>1, TakenIsMoved DEF ActualQty
  <1>3. GrnRegister[p] = g
    <2>1. \A d \in overlapped : KindOf[d] # KindFor("GRN_RECEIPT")
      BY ReportConstants DEF MadeOnce, KindFor, TypeOK
    <2>2. QED
      BY <1>1, <2>1, RecordedIsMoved DEF GrnRegister
  <1>4. /\ w \in Int /\ s \in Int /\ v \in Int /\ g \in Int
        /\ SumFunctionOnSet(Moved, OfProduct(p)) = w + s + v + g
    BY <1>1, MovedByKind
  <1>5. had = opening + SumFunctionOnSet(Moved, OfProduct(p)) /\ had \in Int /\ opening \in Int
    BY ProductIsSum DEF SumInv
  <1>6. Within(has - had, SumOf(halved, p)) /\ has \in Int
    BY ProductBalance
  <1> HIDE DEF w, s, v, g, opening, had, has
  <1>7. had = opening + g - ((-s) + (-w) + (-v))
    BY <1>4, <1>5
  <1>8. Within(has - (opening + GrnRegister[p] - ActualQty(p)), SumOf(halved, p))
    BY <1>2, <1>3, <1>6, <1>7
  <1>9. QED
    BY <1>8 DEF OnHandIsExplained, has, opening

(* What is gone and was not sold is wasted or was missed by a count.       *)
LEMMA GapHolds ==
  ASSUME TypeOK, PostingIsWhole, RepeatNeedsOverlap, NEW p \in Product,
         \A d \in overlapped : KindOf[d] \notin {"wastage", "take"}
  PROVE  GapIsExplained(p)
  <1> DEFINE w == SumFunctionOnSet(Moved, LinesFor["WASTAGE"][p])
             s == SumFunctionOnSet(Moved, LinesFor["SALE_DEDUCTION"][p])
             v == SumFunctionOnSet(Moved, LinesFor["STOCKTAKE_ADJ"][p])
  <1>1. "WASTAGE" \in OneKind /\ "SALE_DEDUCTION" \in OneKind /\ "STOCKTAKE_ADJ" \in OneKind
    BY DEF OneKind
  <1>2. ActualQty(p) = (-s) + (-w) + (-v) /\ Sold(p) = -s
    BY <1>1, TakenIsMoved, SoldIsTaken DEF ActualQty
  <1>3. Recorded(Posted, "WASTAGE", p) = w /\ Recorded(Posted, "STOCKTAKE_ADJ", p) = v
    BY <1>1, RecordedIsMoved DEF KindFor
  <1>4. WastageReport[p] = -w /\ Variances[p] = v
    BY <1>3 DEF WastageReport, Variances
  <1>5. w \in Int /\ s \in Int /\ v \in Int
    BY <1>1, MovedByKind
  <1> HIDE DEF w, s, v
  <1>6. QED
    BY <1>2, <1>4, <1>5 DEF GapIsExplained

(* A destination is issued to once per line of a POSTED note.              *)
LEMMA IssuesCounted ==
  ASSUME TypeOK, PostingIsWhole, RepeatNeedsOverlap, NEW l \in Location,
         \A d \in overlapped : KindOf[d] # "issue"
  PROVE  IssuesByDestination[l] = Cardinality(Issued(l))
  <1> DEFINE S == {r \in LinesOfType["ISSUE_IN"] : LineAt(r).key[2] = l}
             T == Issued(l)
  <1>1. IssuesByDestination[l] = SumFunctionOnSet(Movements, S)
    BY DEF IssuesByDestination
  <1>2. S \subseteq AllLines /\ T \subseteq S
    <2>1. S \subseteq AllLines /\ T \subseteq AllLines
      BY DEF LinesOfType, Type, Issued
    <2>2. \A r \in T : r \in LinesOfType["ISSUE_IN"] /\ LineAt(r).key[2] = l
      BY TypesOfKinds DEF Issued
    <2>3. QED
      BY <2>1, <2>2
  <1>3. ASSUME NEW r \in S
        PROVE  /\ Movements[r] \in Int
               /\ r \in T => Movements[r] = 1
               /\ r \notin T => Movements[r] = 0
    <2>1. /\ r \in AllLines /\ r[1] \in Doc /\ KindOf[r[1]] = "issue" /\ LineAt(r).delta >= 0
          /\ LineAt(r).key[2] = l
      BY <1>2, RowType, TypesOfKinds
    <2>2. postings[r[1]] = IF status[r[1]] = "POSTED" THEN 1 ELSE 0
      BY <2>1, PostedOnce
    <2>3. Movements[r] = postings[r[1]]
      BY <2>1, MovedType
    <2>4. r \in T <=> status[r[1]] = "POSTED"
      BY <2>1 DEF Issued
    <2> HIDE DEF T
    <2>5. QED
      BY <2>2, <2>3, <2>4
  <1>4. IsFiniteSet(S) /\ IsFiniteSet(T)
    BY <1>2, RowSets, FS_Subset
  <1> HIDE DEF S, T
  <1>5. SumFunctionOnSet(Movements, S) = SumFunctionOnSet(Movements, T)
    <2>1. (\A r \in S : Movements[r] \in Int) /\ \A r \in S \ T : Movements[r] = 0
      BY <1>3
    <2>2. QED
      BY <1>2, <1>4, <2>1, SumPart
  <1>6. SumFunctionOnSet(Movements, T) = Cardinality(T)
    <2>1. \A r \in T : Movements[r] = 1
      BY <1>2, <1>3
    <2>2. QED
      BY <1>4, <2>1, SumCounts
  <1>7. QED
    BY <1>1, <1>5, <1>6 DEF T

(* Pastel answers for the product that is asked for, if its code is its    *)
(* own: nothing diverges.                                                  *)
LEMMA KnownAgrees ==
  ASSUME NEW k \in Key, ~Unknown(k[1]), TypeOK
  PROVE  Divergence(k) = 0
  <1> DEFINE p == k[1]
             known == {q \in Product : PastelCode[q] = PastelCode[p]}
  <1>1. p \in Product /\ k = <<p, k[2]>>
    BY ReportConstants DEF Product
  <1>2. PastelCode[p] # None /\ known = {p}
    BY <1>1 DEF Unknown
  <1>3. (CHOOSE q \in known : TRUE) = p /\ known # {}
    BY <1>2
  <1> HIDE DEF p
  <1>4. <<p, k[2]>> \in Key /\ qtyOnHand[<<p, k[2]>>] = qtyOnHand[k]
    BY <1>1
  <1>5. PastelOnHand(PastelCode[p], k[2]) = qtyOnHand[k]
    BY <1>3, <1>4 DEF PastelOnHand
  <1>6. Divergence(k) = qtyOnHand[k] - PastelOnHand(PastelCode[p], k[2])
    BY <1>2 DEF Divergence, p
  <1>7. qtyOnHand[k] \in Int
    BY DEF TypeOK
  <1>8. QED
    BY <1>5, <1>6, <1>7

(* So the ledger always is that sum.                                       *)
LEMMA SumInvariant == Spec => []SumInv
  <1>1. QED
    BY SumInit, SumStep, TypeCorrect, PTL DEF Spec

(* It stays so. *)
LEMMA MadeOnceInvariant == Spec => []MadeOnce
  <1>1. Init => MadeOnce
    BY DEF Init, MadeOnce
  <1>2. TypeOK /\ MadeOnce /\ [Next]_vars => MadeOnce'
    <2> SUFFICES ASSUME TypeOK, MadeOnce, [Next]_vars PROVE MadeOnce'
      OBVIOUS
    <2>1. ASSUME NEW t \in Txn, LoadDocument(t) PROVE MadeOnce'
      <3>1. PICK e \in Doc : /\ e \in MadeToPost => \A u \in Txn : doc[u] # e
                             /\ doc' = [doc EXCEPT ![t] = e]
        BY <2>1 DEF LoadDocument
      <3>2. overlapped' = overlapped
        BY <2>1 DEF LoadDocument, history
      <3>3. QED
        BY <3>1, <3>2 DEF MadeOnce, TypeOK
    <2>2. ASSUME NEW t \in Txn, EndRequest(t), overlapped' = overlapped PROVE MadeOnce'
      BY <2>2 DEF EndRequest, MadeOnce, TypeOK
    <2>3. ASSUME NEW t \in Txn, BeginPosting(t) PROVE MadeOnce'
      <3>1. /\ doc' = doc
            /\ overlapped' # overlapped => \E u \in Txn \ {t} : doc[u] = doc[t]
            /\ overlapped' \subseteq overlapped \cup {doc[t]}
        BY <2>3 DEF BeginPosting, request
      <3>2. QED
        BY <3>1 DEF MadeOnce
    <2>4. CASE UNCHANGED <<doc, overlapped>>
      BY <2>4 DEF MadeOnce
    <2>5. QED
      BY <2>1, <2>2, <2>3, <2>4
      DEF Next, Step, vars, request, history, PostLine, Rollback, Commit, ReturnExisting,
          AlreadyPosted, RefuseEmpty, RaiseInsufficient, RefuseZero, DeadlockVictim, Crash
  <1>3. QED
    BY <1>1, <1>2, TypeCorrect, PTL DEF Spec

(* Whatever ran, failed or crashed, and for any documents of the six kinds *)
(* that the services post, lines, products and locations, the reports tell *)
(* one story: but for rounded halves, what is on hand of a product is what *)
(* there was and what GRNs brought, less what the leakage report says is   *)
(* gone; the gap is wastage and count variances and each destination has   *)
(* its issues, unless a wastage entry, stock take or issue was posted by   *)
(* two requests at once; and only products unknown to Pastel diverge.      *)
THEOREM ReportsTellOneStory == Spec => []ReportsAgree
  <1>1. ASSUME TypeOK, SumInv, BalanceIsLedger, PostingIsWhole, RepeatNeedsOverlap, MadeOnce
        PROVE  ReportsAgree
    <2>1. ASSUME NEW p \in Product PROVE OnHandIsExplained(p)
      BY <1>1, StoryHolds
    <2>2. ASSUME NEW p \in Product, ~Twice({"wastage", "take"}) PROVE GapIsExplained(p)
      <3>1. \A d \in overlapped : KindOf[d] \notin {"wastage", "take"}
        BY <2>2 DEF Twice
      <3>2. QED
        BY <1>1, <3>1, GapHolds
    <2>3. ASSUME NEW l \in Location, ~Twice({"issue"})
          PROVE  IssuesByDestination[l] = Cardinality(Issued(l))
      <3>1. \A d \in overlapped : KindOf[d] # "issue"
        BY <2>3 DEF Twice
      <3>2. QED
        BY <1>1, <3>1, IssuesCounted
    <2>4. ASSUME NEW l \in DivergentLines PROVE Unknown(l.key[1])
      <3>1. PICK k \in Key : l.key = k /\ l.divergence = Divergence(k)
        BY DEF DivergentLines, ReconciliationLines
      <3>2. l.divergence # 0
        BY DEF DivergentLines
      <3>3. QED
        BY <1>1, <3>1, <3>2, KnownAgrees
    <2>5. QED
      BY <2>1, <2>2, <2>3, <2>4 DEF ReportsAgree
  <1>2. QED
    BY <1>1, SumInvariant, MadeOnceInvariant, TypeCorrect, BalancesAreTheLedger, PostingsAreWhole,
       RepeatsAreNoOps, PTL
-----------------------------------------------------------------------------
(* What post_movements promises, step by step: a transaction that has      *)
(* posted some lines will write, into each row it holds, what they add to  *)
(* the committed balance but for their roundings, and holds every row that *)
(* they touch.                                                             *)
Deltas(d) == [i \in DOMAIN LinesOf[d] |-> LinesOf[d][i].delta]
Rounded(d, S) == {i \in S : LinesOf[d][i].delta % 10 # 0}
OffBy(d, S, q) ==
  Within(10 * q - SumFunctionOnSet(Deltas(d), S), 5 * Cardinality(Rounded(d, S)))
Before(t, k) == {i \in DOMAIN LinesOf[doc[t]] : i < next[t] /\ LinesOf[doc[t]][i].key = k}
RowInStep(t, k) ==
  IF rowLock[k] = t THEN OffBy(doc[t], Before(t, k), newQty[t][k] - qtyOnHand[k])
                    ELSE Before(t, k) = {}
InStep(t) ==
  /\ pc[t] # "idle" => allowNegative[t] \in AllowNegativeOf[doc[t]]
  /\ pc[t] = "posting" => Lines(t) # <<>> /\ \A k \in Key : RowInStep(t, k)
StepsInv == \A t \in Txn : InStep(t)

(* The sums and sizes of the abstract ledger are those of the proofs.      *)
LEMMA AbstractSum ==
  ASSUME NEW f, NEW S
  PROVE  Abstract!SumFunctionOnSet(f, S) = SumFunctionOnSet(f, S)
  BY DEF Abstract!SumFunctionOnSet, Abstract!FoldFunctionOnSet, Abstract!MapThenFoldSet,
         SumFunctionOnSet, FoldFunctionOnSet, MapThenFoldSet

(* The same of sizes.                                                      *)
LEMMA AbstractSize ==
  ASSUME NEW S
  PROVE  Abstract!Cardinality(S) = Cardinality(S)
  BY DEF Abstract!Cardinality, Cardinality

(* A quantity is rounded by half a thousandth at most, if at all.          *)
LEMMA StoredError ==
  ASSUME NEW q \in Int
  PROVE  Stored(q) \in Int /\ Within(10 * Stored(q) - q, IF q % 10 # 0 THEN 5 ELSE 0)
  <1> DEFINE m == q \div 10
             r == q % 10
  <1>1. m \in Int /\ r \in 0..9 /\ q = 10 * m + r
    BY Z3
  <1> HIDE DEF m, r
  <1>2. Stored(q) = IF q >= 0 THEN (IF r >= 5 THEN m + 1 ELSE m)
                              ELSE (IF r > 5 THEN m + 1 ELSE m)
    BY <1>1 DEF Stored
  <1>3. r = q % 10
    BY DEF r
  <1>4. Stored(q) \in Int /\ Within(10 * Stored(q) - q, IF r # 0 THEN 5 ELSE 0)
    BY <1>1, <1>2 DEF Within
  <1>5. QED
    BY <1>3, <1>4

(* The lines of a document are finitely many whole quantities.             *)
LEMMA LineType ==
  ASSUME NEW d \in Doc
  PROVE  /\ DOMAIN LinesOf[d] = 1..Len(LinesOf[d]) /\ Len(LinesOf[d]) \in Nat
         /\ \A i \in DOMAIN LinesOf[d] :
              /\ i \in Nat \ {0} /\ LinesOf[d][i].key \in Key /\ LinesOf[d][i].delta \in Int
              /\ Deltas(d)[i] = LinesOf[d][i].delta
  <1>1. LinesOf[d] \in Seq(Line)
    OBVIOUS
  <1>2. DOMAIN LinesOf[d] = 1..Len(LinesOf[d]) /\ Len(LinesOf[d]) \in Nat
    BY <1>1
  <1>3. ASSUME NEW i \in DOMAIN LinesOf[d]
        PROVE  /\ i \in Nat \ {0} /\ LinesOf[d][i].key \in Key /\ LinesOf[d][i].delta \in Int
               /\ Deltas(d)[i] = LinesOf[d][i].delta
    <2>1. LinesOf[d][i] \in Line /\ i \in Nat \ {0}
      BY <1>1, <1>2
    <2>2. Deltas(d)[i] = LinesOf[d][i].delta
      BY DEF Deltas
    <2>3. QED
      BY <2>1, <2>2 DEF Line
  <1>4. QED
    BY <1>2, <1>3

(* So is any set of them.                                                 *)
LEMMA LineSets ==
  ASSUME NEW d \in Doc, NEW S \in SUBSET DOMAIN LinesOf[d]
  PROVE  /\ IsFiniteSet(S) /\ SumFunctionOnSet(Deltas(d), S) \in Int
         /\ IsFiniteSet(Rounded(d, S)) /\ Cardinality(Rounded(d, S)) \in Nat
  <1>1. 1 \in Int /\ Len(LinesOf[d]) \in Int
    BY LineType
  <1>2. IsFiniteSet(DOMAIN LinesOf[d])
    BY <1>1, LineType, FS_Interval
  <1>3. IsFiniteSet(S)
    BY <1>2, FS_Subset
  <1>4. IsFiniteSet(Rounded(d, S)) /\ Cardinality(Rounded(d, S)) \in Nat
    <2>1. Rounded(d, S) \subseteq S
      BY DEF Rounded
    <2>2. IsFiniteSet(Rounded(d, S))
      BY <1>3, <2>1, FS_Subset
    <2>3. QED
      BY <2>2, FS_CardinalityType
  <1>5. \A i \in S : Deltas(d)[i] \in Int
    BY LineType
  <1>6. SumFunctionOnSet(Deltas(d), S) \in Int
    BY <1>3, <1>5, SumInt
  <1>7. QED
    BY <1>3, <1>4, <1>6

(* Nothing posted adds nothing.                                            *)
LEMMA OffByNothing ==
  ASSUME NEW d \in Doc
  PROVE  OffBy(d, {}, 0)
  <1>1. IsFiniteSet({}) /\ \A i \in {} : Deltas(d)[i] = 0
    BY FS_EmptySet
  <1>2. SumFunctionOnSet(Deltas(d), {}) = 0
    BY <1>1, SumZero
  <1>3. Cardinality(Rounded(d, {})) = 0
    <2>1. Rounded(d, {}) = {}
      BY DEF Rounded
    <2>2. QED
      BY <2>1, FS_EmptySet
  <1>4. 10 * 0 - 0 = 0 /\ 5 * 0 = 0 /\ Within(0, 0)
    BY DEF Within
  <1>5. QED
    BY <1>2, <1>3, <1>4 DEF OffBy

(* One line more is off by one rounding more, if it is rounded.            *)
LEMMA OffByGrows ==
  ASSUME NEW d \in Doc, NEW S \in SUBSET DOMAIN LinesOf[d], NEW i \in DOMAIN LinesOf[d], i \notin S,
         NEW b \in Int, NEW c \in Int, OffBy(d, S, b - c)
  PROVE  OffBy(d, S \cup {i}, Stored(10 * b + LinesOf[d][i].delta) - c)
  <1> DEFINE x == LinesOf[d][i].delta
             s == SumFunctionOnSet(Deltas(d), S)
             n == Cardinality(Rounded(d, S))
             e == IF x % 10 # 0 THEN 5 ELSE 0
             new == Stored(10 * b + x)
  <1>1. x \in Int /\ s \in Int /\ n \in Nat /\ Deltas(d)[i] = x
    BY LineType, LineSets
  <1>2. SumFunctionOnSet(Deltas(d), S \cup {i}) = x + s
    <2>1. IsFiniteSet(S) /\ \A j \in S \cup {i} : Deltas(d)[j] \in Int
      <3>1. \A j \in DOMAIN LinesOf[d] : Deltas(d)[j] \in Int
        BY LineType
      <3>2. IsFiniteSet(S)
        BY LineSets
      <3>3. QED
        BY <3>1, <3>2
    <2>2. SumFunctionOnSet(Deltas(d), S \cup {i}) = Deltas(d)[i] + SumFunctionOnSet(Deltas(d), S)
      BY <2>1, SumInsert
    <2>3. QED
      BY <1>1, <2>2
  <1>3. 5 * Cardinality(Rounded(d, S \cup {i})) = 5 * n + e
    <2>1. IsFiniteSet(Rounded(d, S)) /\ i \notin Rounded(d, S)
      BY LineSets DEF Rounded
    <2>2. CASE x % 10 # 0
      <3>1. Rounded(d, S \cup {i}) = Rounded(d, S) \cup {i}
        BY <2>2 DEF Rounded
      <3>2. Cardinality(Rounded(d, S) \cup {i}) = n + 1
        BY <2>1, FS_AddElement
      <3> HIDE DEF x, n
      <3>3. e = 5
        BY <2>2
      <3> HIDE DEF e
      <3>4. Cardinality(Rounded(d, S \cup {i})) = n + 1
        BY <3>1, <3>2
      <3>5. 5 * (n + 1) = 5 * n + 5
        BY <1>1
      <3>6. QED
        BY <3>3, <3>4, <3>5
    <2>3. CASE ~(x % 10 # 0)
      <3>1. Rounded(d, S \cup {i}) = Rounded(d, S)
        BY <2>3 DEF Rounded
      <3> HIDE DEF x
      <3>2. e = 0
        BY <2>3
      <3>3. QED
        BY <1>1, <3>1, <3>2
    <2>4. QED
      BY <2>2, <2>3
  <1>4. new \in Int /\ Within(10 * new - (10 * b + x), e) /\ e \in Nat
    <2>1. 10 * b + x \in Int
      BY <1>1
    <2>2. (10 * b + x) % 10 = x % 10
      <3> HIDE DEF x
      <3>1. QED
        BY <1>1, Z3
    <2>3. new \in Int /\ Within(10 * new - (10 * b + x), IF (10 * b + x) % 10 # 0 THEN 5 ELSE 0)
      BY <2>1, StoredError
    <2>4. QED
      BY <2>2, <2>3
  <1>5. Within(10 * (b - c) - s, 5 * n)
    BY DEF OffBy
  <1> HIDE DEF x, s, n, e, new
  <1>6. Within(10 * (new - c) - (x + s), 5 * n + e)
    <2>1. 10 * (b - c) - s \in Int /\ 10 * new - (10 * b + x) \in Int /\ 5 * n \in Nat
      BY <1>1, <1>4
    <2>2. Within((10 * (b - c) - s) + (10 * new - (10 * b + x)), 5 * n + e)
      BY <1>4, <1>5, <2>1, WithinSum
    <2>3. (10 * (b - c) - s) + (10 * new - (10 * b + x)) = 10 * (new - c) - (x + s)
      BY <1>1, <1>4
    <2>4. QED
      BY <2>2, <2>3
  <1>7. QED
    BY <1>2, <1>3, <1>6 DEF OffBy, new, x

(* A request that a step leaves alone, with the rows it holds, stays in    *)
(* step.                                                                   *)
LEMMA InStepKept ==
  ASSUME NEW u \in Txn, InStep(u),
         pc'[u] = pc[u], doc'[u] = doc[u], next'[u] = next[u],
         allowNegative'[u] = allowNegative[u], newQty'[u] = newQty[u],
         \A k \in Key : /\ rowLock'[k] = u <=> rowLock[k] = u
                        /\ rowLock[k] = u => qtyOnHand'[k] = qtyOnHand[k]
  PROVE  InStep(u)'
  <1>1. Lines(u)' = Lines(u) /\ \A k \in Key : Before(u, k)' = Before(u, k)
    BY DEF Lines, Before
  <1>2. ASSUME NEW k \in Key, RowInStep(u, k) PROVE RowInStep(u, k)'
    <2>1. CASE rowLock[k] = u
      <3>1. OffBy(doc[u], Before(u, k), newQty[u][k] - qtyOnHand[k])
        BY <1>2, <2>1 DEF RowInStep
      <3>2. OffBy(doc[u], Before(u, k), newQty[u][k] - qtyOnHand[k])'
              = OffBy(doc[u], Before(u, k), newQty[u][k] - qtyOnHand[k])
        BY <1>1, <2>1 DEF OffBy, Deltas, Rounded
      <3>3. rowLock'[k] = u
        BY <2>1
      <3>4. QED
        BY <3>1, <3>2, <3>3 DEF RowInStep
    <2>2. CASE rowLock[k] # u
      BY <1>1, <1>2, <2>2 DEF RowInStep
    <2>3. QED
      BY <2>1, <2>2
  <1>3. \A k \in Key : RowInStep(u, k) => RowInStep(u, k)'
    BY <1>2
  <1>4. QED
    BY <1>1, <1>3 DEF InStep

(* A request that ends has nothing in progress, and the others what they   *)
(* had.                                                                    *)
LEMMA EndRequestInStep ==
  ASSUME TypeOK, StepsInv, NEW t \in Txn, EndRequest(t),
         \A k \in Key : rowLock[k] # t => qtyOnHand'[k] = qtyOnHand[k]
  PROVE  StepsInv'
  <1> SUFFICES ASSUME NEW u \in Txn PROVE InStep(u)'
    BY DEF StepsInv
  <1>1. CASE u = t
    <2>1. pc'[t] = "idle"
      BY EndRequestLocks
    <2>2. QED
      BY <1>1, <2>1 DEF InStep
  <1>2. CASE u # t
    <2>1. pc'[u] = pc[u] /\ doc'[u] = doc[u] /\ allowNegative'[u] = allowNegative[u] /\ newQty'[u] = newQty[u]
      BY <1>2, EndRequestLocks
    <2>2. next'[u] = next[u]
      BY <1>2 DEF EndRequest, TypeOK
    <2>3. ASSUME NEW k \in Key PROVE /\ rowLock'[k] = u <=> rowLock[k] = u
                                     /\ rowLock[k] = u => qtyOnHand'[k] = qtyOnHand[k]
      <3>1. rowLock'[k] = IF rowLock[k] = t THEN None ELSE rowLock[k]
        BY EndRequestLocks
      <3>2. u # None
        OBVIOUS
      <3>3. QED
        BY <1>2, <3>1, <3>2
    <2>4. InStep(u)
      BY DEF StepsInv
    <2>5. QED
      BY <2>1, <2>2, <2>3, <2>4, InStepKept
  <1>3. QED
    BY <1>1, <1>2

(* The line posted next is in the row it locks, and was not there before.  *)
LEMMA PostLineInStep ==
  ASSUME TypeOK, StepsInv, NEW t \in Txn, PostLine(t)
  PROVE  StepsInv'
  <1> DEFINE d == doc[t]
             i == next[t]
             l == CurrentLine(t)
  <1>1. d \in Doc /\ i \in DOMAIN LinesOf[d] /\ l = LinesOf[d][i] /\ l.key \in Key /\ l.delta \in Int
    <2>1. HasLine(t)
      BY DEF PostLine
    <2>2. d \in Doc /\ i \in 1..Len(LinesOf[d]) /\ l.key \in Key /\ l.delta \in Int
      BY <2>1, CurrentLineType
    <2>3. DOMAIN LinesOf[d] = 1..Len(LinesOf[d])
      BY <2>2, LineType
    <2>4. QED
      BY <2>2, <2>3 DEF CurrentLine, Lines
  <1> HIDE DEF l
  <1>2. /\ pc[t] = "posting" /\ pc' = pc /\ doc' = doc /\ allowNegative' = allowNegative
        /\ qtyOnHand' = qtyOnHand /\ next' = [next EXCEPT ![t] = @ + 1]
        /\ rowLock' = [rowLock EXCEPT ![l.key] = t] /\ rowLock[l.key] \in {t, None}
        /\ newQty' = [newQty EXCEPT ![t][l.key] = Stored(10 * LockedQty(t) + l.delta)]
    BY DEF PostLine, HasLine, RowFree, database, request, l
  <1>3. /\ rowLock'[l.key] = t /\ \A k \in Key \ {l.key} : rowLock'[k] = rowLock[k]
        /\ newQty'[t][l.key] = Stored(10 * LockedQty(t) + l.delta)
        /\ \A k \in Key \ {l.key} : newQty'[t][k] = newQty[t][k]
        /\ next'[t] = i + 1 /\ i \in Nat
    BY <1>1, <1>2 DEF TypeOK
  <1> SUFFICES ASSUME NEW u \in Txn PROVE InStep(u)'
    BY DEF StepsInv
  <1>4. CASE u # t
    <2>1. pc'[u] = pc[u] /\ doc'[u] = doc[u] /\ allowNegative'[u] = allowNegative[u]
      BY <1>2
    <2>2. next'[u] = next[u] /\ newQty'[u] = newQty[u]
      BY <1>2, <1>4 DEF TypeOK
    <2>3. ASSUME NEW k \in Key PROVE /\ rowLock'[k] = u <=> rowLock[k] = u
                                     /\ rowLock[k] = u => qtyOnHand'[k] = qtyOnHand[k]
      <3>1. u # None
        OBVIOUS
      <3>2. QED
        BY <1>2, <1>3, <1>4, <3>1
    <2>4. InStep(u)
      BY DEF StepsInv
    <2>5. QED
      BY <2>1, <2>2, <2>3, <2>4, InStepKept
  <1>5. CASE u = t
    <2>1. /\ allowNegative[t] \in AllowNegativeOf[d] /\ Lines(t) # <<>>
          /\ \A k \in Key : RowInStep(t, k)
      BY <1>2 DEF StepsInv, InStep
    <2>2. ASSUME NEW k \in Key
          PROVE  /\ Before(t, k) \in SUBSET DOMAIN LinesOf[d] /\ i \notin Before(t, k)
                 /\ Before(t, k)' = IF k = l.key THEN Before(t, k) \cup {i} ELSE Before(t, k)
      <3>1. \A j \in DOMAIN LinesOf[d] : j < i + 1 <=> (j < i \/ j = i)
        BY <1>1, <1>3, LineType
      <3>2. ~(i < i)
        BY <1>3
      <3>3. Before(t, k)' = {j \in DOMAIN LinesOf[d] : j < i + 1 /\ LinesOf[d][j].key = k}
        BY <1>2, <1>3 DEF Before
      <3>4. Before(t, k) = {j \in DOMAIN LinesOf[d] : j < i /\ LinesOf[d][j].key = k}
        BY DEF Before
      <3> HIDE DEF i
      <3>5. CASE k = l.key
        BY <1>1, <3>1, <3>2, <3>3, <3>4, <3>5
      <3>6. CASE k # l.key
        BY <1>1, <3>1, <3>2, <3>3, <3>4, <3>6
      <3>7. QED
        BY <3>5, <3>6
    <2>3. ASSUME NEW k \in Key PROVE RowInStep(t, k)'
      <3>1. CASE k = l.key
        <4>1. LockedQty(t) = (IF rowLock[k] = t THEN newQty[t][k] ELSE qtyOnHand[k])
              /\ LockedQty(t) \in Int /\ qtyOnHand[k] \in Int
          BY <3>1 DEF LockedQty, l, TypeOK
        <4>2. OffBy(d, Before(t, k), LockedQty(t) - qtyOnHand[k])
          <5>1. CASE rowLock[k] = t
            BY <2>1, <4>1, <5>1 DEF RowInStep
          <5>2. CASE rowLock[k] # t
            <6>1. Before(t, k) = {} /\ LockedQty(t) - qtyOnHand[k] = 0
              BY <2>1, <4>1, <5>2 DEF RowInStep
            <6>2. QED
              BY <1>1, <6>1, OffByNothing
          <5>3. QED
            BY <5>1, <5>2
        <4>3. OffBy(d, Before(t, k) \cup {i}, Stored(10 * LockedQty(t) + LinesOf[d][i].delta) - qtyOnHand[k])
          BY <1>1, <2>2, <4>1, <4>2, OffByGrows
        <4>4. OffBy(d, Before(t, k), newQty[t][k] - qtyOnHand[k])'
                = OffBy(d, Before(t, k) \cup {i}, Stored(10 * LockedQty(t) + LinesOf[d][i].delta) - qtyOnHand[k])
          <5>1. Before(t, k)' = Before(t, k) \cup {i}
            BY <2>2, <3>1
          <5>2. newQty'[t][k] = Stored(10 * LockedQty(t) + LinesOf[d][i].delta)
            BY <1>1, <1>3, <3>1
          <5>3. QED
            BY <1>2, <5>1, <5>2 DEF OffBy, Deltas, Rounded
        <4>5. rowLock'[k] = t
          BY <1>3, <3>1
        <4>6. QED
          BY <4>3, <4>4, <4>5 DEF RowInStep
      <3>2. CASE k # l.key
        <4>1. Before(t, k)' = Before(t, k) /\ rowLock'[k] = rowLock[k] /\ newQty'[t][k] = newQty[t][k]
          BY <1>3, <2>2, <3>2
        <4>2. OffBy(d, Before(t, k), newQty[t][k] - qtyOnHand[k])'
                = OffBy(d, Before(t, k), newQty[t][k] - qtyOnHand[k])
          BY <1>2, <4>1 DEF OffBy, Deltas, Rounded
        <4>3. RowInStep(t, k)
          BY <2>1
        <4>4. QED
          BY <4>1, <4>2, <4>3 DEF RowInStep
      <3>3. QED
        BY <3>1, <3>2
    <2>4. (allowNegative[t] \in AllowNegativeOf[doc[t]] /\ Lines(t) # <<>>)'
      BY <1>2, <2>1 DEF Lines
    <2>5. QED
      BY <1>5, <2>3, <2>4 DEF InStep
  <1>6. QED
    BY <1>4, <1>5

(* Nothing is in progress when the behaviour begins.                       *)
LEMMA StepsInit == Init => StepsInv
  BY DEF Init, StepsInv, InStep

(* Every step keeps every transaction in step.                             *)
LEMMA StepsStep ==
  ASSUME TypeOK, GuardInv, SumInv, StepsInv, [Next]_vars
  PROVE  StepsInv'
  <1>1. ASSUME NEW t \in Txn, LoadDocument(t) PROVE StepsInv'
    <2>1. /\ \A u \in Txn \ {t} : /\ pc'[u] = pc[u] /\ doc'[u] = doc[u]
                                  /\ allowNegative'[u] = allowNegative[u]
          /\ UNCHANGED <<next, newQty, rowLock, qtyOnHand>>
      BY <1>1 DEF LoadDocument, TypeOK, database, work
    <2>2. pc'[t] = "loaded" /\ allowNegative'[t] \in AllowNegativeOf[doc'[t]]
      BY <1>1 DEF LoadDocument, TypeOK
    <2> SUFFICES ASSUME NEW u \in Txn PROVE InStep(u)'
      BY DEF StepsInv
    <2>3. CASE u = t
      BY <2>2, <2>3 DEF InStep
    <2>4. CASE u # t
      <3>1. InStep(u)
        BY DEF StepsInv
      <3>2. QED
        BY <2>1, <2>4, <3>1, InStepKept
    <2>5. QED
      BY <2>3, <2>4
  <1>2. ASSUME NEW t \in Txn, Rollback(t) PROVE StepsInv'
    <2>1. EndRequest(t) /\ qtyOnHand' = qtyOnHand
      BY <1>2 DEF Rollback, database
    <2>2. QED
      BY <2>1, EndRequestInStep
  <1>3. ASSUME NEW t \in Txn, ReturnExisting(t) PROVE StepsInv'
    <2>1. EndRequest(t) /\ qtyOnHand' = qtyOnHand
      BY <1>3 DEF ReturnExisting
    <2>2. QED
      BY <2>1, EndRequestInStep
  <1>4. ASSUME NEW t \in Txn, BeginPosting(t) PROVE StepsInv'
    <2>1. /\ pc[t] = "loaded" /\ Lines(t) # <<>> /\ pc' = [pc EXCEPT ![t] = "posting"]
          /\ UNCHANGED <<doc, allowNegative, next, newQty, rowLock, qtyOnHand>>
      BY <1>4 DEF BeginPosting, database, request, work
    <2> SUFFICES ASSUME NEW u \in Txn PROVE InStep(u)'
      BY DEF StepsInv
    <2>2. CASE u # t
      <3>1. InStep(u) /\ pc'[u] = pc[u]
        BY <2>1, <2>2 DEF StepsInv, TypeOK
      <3>2. QED
        BY <2>1, <3>1, InStepKept
    <2>3. CASE u = t
      <3>1. (allowNegative[t] \in AllowNegativeOf[doc[t]] /\ Lines(t) # <<>>)'
        BY <2>1 DEF StepsInv, InStep, Lines
      <3>2. ASSUME NEW k \in Key PROVE RowInStep(t, k)'
        <4>1. rowLock[k] # t
          BY <2>1 DEF GuardInv, LocksArePostings
        <4>2. next[t] = 1 /\ doc[t] \in Doc
          BY <2>1 DEF SumInv, Progress, TypeOK
        <4>3. \A i \in DOMAIN LinesOf[doc[t]] : ~(i < 1)
          BY <4>2, LineType
        <4>4. Before(t, k)' = {}
          BY <2>1, <4>2, <4>3 DEF Before
        <4>5. QED
          BY <2>1, <4>1, <4>4 DEF RowInStep
      <3>3. QED
        BY <2>3, <3>1, <3>2 DEF InStep
    <2>4. QED
      BY <2>2, <2>3
  <1>5. ASSUME NEW t \in Txn, Commit(t) PROVE StepsInv'
    <2>1. EndRequest(t) /\ \A k \in Key : rowLock[k] # t => qtyOnHand'[k] = qtyOnHand[k]
      BY <1>5 DEF Commit
    <2>2. QED
      BY <2>1, EndRequestInStep
  <1>6. CASE UNCHANGED vars
    <2>1. UNCHANGED <<pc, doc, allowNegative, next, newQty, rowLock, qtyOnHand>>
      BY <1>6 DEF vars, database, request, work
    <2> SUFFICES ASSUME NEW u \in Txn PROVE InStep(u)'
      BY DEF StepsInv
    <2>2. InStep(u)
      BY DEF StepsInv
    <2>3. QED
      BY <2>1, <2>2, InStepKept
  <1>7. QED
    BY <1>1, <1>2, <1>3, <1>4, <1>5, <1>6, PostLineInStep
    DEF Next, Step, AlreadyPosted, RefuseEmpty, RaiseInsufficient, RefuseZero, DeadlockVictim, Crash

(* So they always are.                                                     *)
LEMMA StepsInvariant == Spec => []StepsInv
  <1>1. QED
    BY StepsInit, StepsStep, TypeCorrect, GuardInvariant, SumInvariant, PTL DEF Spec

(* A transaction that commits appends the whole document at once.          *)
LEMMA CommitPosts ==
  ASSUME TypeOK, GuardInv, SumInv, StepsInv, NEW t \in Txn, Commit(t)
  PROVE  Abstract!Next
  <1> DEFINE d == doc[t]
  <1>1. /\ pc[t] = "posting" /\ next[t] > Len(LinesOf[d]) /\ d \in Doc /\ next[t] \in Nat
        /\ qtyOnHand' = [k \in Key |-> IF rowLock[k] = t THEN newQty[t][k] ELSE qtyOnHand[k]]
        /\ postings' = [postings EXCEPT ![d] = @ + 1]
    BY DEF Commit, EndOfLines, Lines, TypeOK
  <1>2. /\ allowNegative[t] \in AllowNegativeOf[d] /\ LinesOf[d] # <<>>
        /\ \A k \in Key : RowInStep(t, k)
    BY <1>1 DEF StepsInv, InStep, Lines
  <1>3. ASSUME NEW k \in Key PROVE Before(t, k) = Abstract!LinesAt(d, k)
    <2>1. \A i \in DOMAIN LinesOf[d] : i < next[t]
      BY <1>1, LineType
    <2>2. QED
      BY <2>1 DEF Before, Abstract!LinesAt
  <1>4. ASSUME NEW k \in Key
        PROVE  10 * (qtyOnHand'[k] - qtyOnHand[k]) - Abstract!Effect(d, k)
                 \in (-5 * Abstract!Roundings(d, k))..(5 * Abstract!Roundings(d, k))
    <2> DEFINE S == Before(t, k)
               q == qtyOnHand'[k] - qtyOnHand[k]
               s == SumFunctionOnSet(Deltas(d), S)
               n == Cardinality(Rounded(d, S))
    <2>1. S \in SUBSET DOMAIN LinesOf[d]
      BY DEF Before
    <2>2. s \in Int /\ n \in Nat
      BY <1>1, <2>1, LineSets
    <2>3. qtyOnHand'[k] \in Int /\ qtyOnHand[k] \in Int
      BY <1>1 DEF TypeOK
    <2>4. Abstract!Effect(d, k) = s
      BY <1>3, AbstractSum DEF Abstract!Effect, Deltas
    <2>5. Abstract!Roundings(d, k) = n
      BY <1>3, AbstractSize DEF Abstract!Roundings, Rounded
    <2>6. OffBy(d, S, q)
      <3>1. CASE rowLock[k] = t
        BY <1>1, <1>2, <3>1 DEF RowInStep
      <3>2. CASE rowLock[k] # t
        <4>1. S = {} /\ q = 0
          <5>1. S = {}
            BY <1>2, <3>2 DEF RowInStep
          <5>2. qtyOnHand'[k] = qtyOnHand[k]
            BY <1>1, <3>2
          <5>3. QED
            BY <2>3, <5>1, <5>2
        <4>2. QED
          BY <1>1, <4>1, OffByNothing
      <3>3. QED
        BY <3>1, <3>2
    <2>7. Within(10 * q - s, 5 * n)
      BY <2>6 DEF OffBy
    <2> HIDE DEF s, n
    <2>8. 10 * q - s \in (-5 * n)..(5 * n)
      BY <2>2, <2>3, <2>7 DEF Within
    <2>9. QED
      BY <2>4, <2>5, <2>8
  <1>5. TRUE \in AllowNegativeOf[d] \/ \A k \in Abstract!Touched(d) : qtyOnHand'[k] >= 0
    <2> SUFFICES ASSUME TRUE \notin AllowNegativeOf[d], NEW i \in DOMAIN LinesOf[d]
                 PROVE  qtyOnHand'[LinesOf[d][i].key] >= 0
      BY DEF Abstract!Touched
    <2>1. ~allowNegative[t]
      BY <1>2, Zenon DEF TypeOK
    <2> DEFINE k == LinesOf[d][i].key
    <2>2. k \in Key /\ i < next[t]
      BY <1>1, LineType
    <2>3. i \in Before(t, k)
      BY <2>2 DEF Before
    <2>4. rowLock[k] = t
      BY <1>2, <2>2, <2>3 DEF RowInStep
    <2>5. newQty[t][k] >= 0
      BY <2>1, <2>2, <2>4 DEF GuardInv, HeldWithinGuard
    <2>6. qtyOnHand'[k] = newQty[t][k]
      BY <1>1, <2>2, <2>4
    <2>7. QED
      BY <2>5, <2>6
  <1>6. DOMAIN qtyOnHand' = Key
    BY <1>1
  <1>7. Abstract!Post(d)
    BY <1>1, <1>2, <1>4, <1>5, <1>6 DEF Abstract!Post
  <1>8. QED
    BY <1>1, <1>7 DEF Abstract!Next

(* The interleaved, locking, crashing transactions append documents as if  *)
(* one at a time, for any documents, lines and transactions: a commit is   *)
(* an atomic posting, and nothing else is seen from outside.               *)
THEOREM PostingsAreAtomic == Spec => Serializable
  <1>1. Init => Abstract!Init
    BY DEF Init, Abstract!Init
  <1>2. ASSUME TypeOK, GuardInv, SumInv, StepsInv, [Next]_vars
        PROVE  [Abstract!Next]_<<qtyOnHand, postings>>
    <2>1. ASSUME NEW t \in Txn, LoadDocument(t) PROVE UNCHANGED <<qtyOnHand, postings>>
      BY <2>1 DEF LoadDocument, database
    <2>2. ASSUME NEW t \in Txn, Rollback(t) PROVE UNCHANGED <<qtyOnHand, postings>>
      BY <2>2 DEF Rollback, database
    <2>3. ASSUME NEW t \in Txn, ReturnExisting(t) PROVE UNCHANGED <<qtyOnHand, postings>>
      BY <2>3 DEF ReturnExisting
    <2>4. ASSUME NEW t \in Txn, BeginPosting(t) PROVE UNCHANGED <<qtyOnHand, postings>>
      BY <2>4 DEF BeginPosting, database
    <2>5. ASSUME NEW t \in Txn, PostLine(t) PROVE UNCHANGED <<qtyOnHand, postings>>
      BY <2>5 DEF PostLine, database
    <2>6. ASSUME NEW t \in Txn, Commit(t) PROVE Abstract!Next
      BY <1>2, <2>6, CommitPosts
    <2>7. CASE UNCHANGED vars
      BY <2>7 DEF vars, database
    <2>8. QED
      BY <1>2, <2>1, <2>2, <2>3, <2>4, <2>5, <2>6, <2>7
      DEF Next, Step, AlreadyPosted, RefuseEmpty, RaiseInsufficient, RefuseZero,
          DeadlockVictim, Crash
  <1>3. QED
    BY <1>1, <1>2, TypeCorrect, GuardInvariant, SumInvariant, StepsInvariant,
       PTL DEF Spec, Serializable, Abstract!Spec
-----------------------------------------------------------------------------
HIDE LedgerConstants
USE SessionConstants, DeskConstants DEF LoggingIn

(* The least of a set of numbers is one of them. *)
LEMMA LeastExists ==
  ASSUME NEW S, S \subseteq Nat, S # {}
  PROVE  Min(S) \in S
  <1>1. PICK x \in S : \A y \in S : x <= y
    BY LeastMember
  <1>2. QED
    BY <1>1 DEF Min

(* The slots are finitely many. *)
LEMMA SlotsFinite == IsFiniteSet(Slot) /\ Cardinality(Slot) \in Nat
  <1>1. IsFiniteSet(Slot)
    BY FS_AddElement DEF Slot
  <1>2. QED
    BY <1>1, FS_CardinalityType

(* There is always a token that nobody holds: the server has one to issue. *)
LEMMA NewTokenExists ==
  ASSUME SessionTypeOK
  PROVE  NewToken \in Token /\ NewToken \notin HeldTokens
  <1> DEFINE n == Cardinality(Slot)
             carriedTokens == {token[s] : s \in Slot}
  <1>1. IsFiniteSet(Slot) /\ n \in Nat
    BY SlotsFinite
  <1>2. IsFiniteSet(carriedTokens) /\ Cardinality(carriedTokens) <= n
    <2> DEFINE f == [s \in Slot |-> token[s]]
    <2>1. f \in Surjection(Slot, carriedTokens)
      BY DEF Surjection
    <2>2. QED
      BY <1>1, <2>1, FS_Surjection
  <1>3. IsFiniteSet(HeldTokens) /\ Cardinality(HeldTokens) <= n + 1
    <2>1. HeldTokens = carriedTokens \cup {cookie}
      BY DEF HeldTokens
    <2>2. Cardinality(carriedTokens) \in Nat
      BY <1>2, FS_CardinalityType
    <2>3. /\ IsFiniteSet(HeldTokens)
          /\ Cardinality(HeldTokens) \in {Cardinality(carriedTokens), Cardinality(carriedTokens) + 1}
      <3> HIDE DEF carriedTokens
      <3>1. QED
        BY <1>2, <2>1, FS_AddElement
    <2> HIDE DEF carriedTokens, n
    <2>4. QED
      BY <1>1, <1>2, <2>2, <2>3
  <1>4. Cardinality(Token) = n + 2 /\ IsFiniteSet(Token) /\ Token \subseteq Nat
    BY <1>1, FS_Interval DEF Token
  <1>5. Token \ HeldTokens # {}
    <2> SUFFICES ASSUME Token \subseteq HeldTokens PROVE FALSE
      OBVIOUS
    <2>1. Cardinality(Token) <= Cardinality(HeldTokens)
      BY <1>3, FS_Subset
    <2>2. Cardinality(HeldTokens) \in Nat
      BY <1>3, FS_CardinalityType
    <2> HIDE DEF n
    <2>3. QED
      BY <1>1, <1>3, <1>4, <2>1, <2>2
  <1>6. QED
    BY <1>4, <1>5, LeastExists DEF NewToken
-----------------------------------------------------------------------------

(* The store and its request are at the same point: bootstrap is a refresh *)
(* and comes before any request of the screen, signing in never refreshes, *)
(* and the token that its answer brings is nobody else's.                  *)
StoreInStep ==
  /\ phase["auth"] # "serving"
  /\ auth = "boot" => phase["auth"] \in Refreshing
  /\ auth \in LoggingIn => phase["auth"] \in {"calling", "answered"}
  /\ auth \in LoggingIn /\ phase["auth"] = "answered" =>
       /\ token["auth"] \in live /\ token["auth"] # cookie
       /\ \A s \in PageSlot : token[s] # token["auth"]
  /\ auth \in {"boot", "me", "stuck"} => screen = "loading"
  /\ screen = "loading" => \A s \in PageSlot : phase[s] = "idle"
  /\ screen = "authenticated" \/ auth = "me" => access # "none"

(* A session that nothing has harmed: one request at most refreshes, it    *)
(* holds the cookie's token, and that or the one it is granted is live.    *)
UnharmedLives ==
  ~harmed =>
    /\ active /\ screen # "anonymous" /\ auth \in {"none", "boot", "me"}
    /\ \A s \in Slot :
         /\ phase[s] # "refused"
         /\ phase[s] \in {"refreshing", "checked"} => token[s] = cookie
         /\ phase[s] \in Refreshing => ~OtherRefreshes(s)
         /\ phase[s] = "granted" => token[s] \in live
    /\ (\A s \in Slot : phase[s] # "granted") => cookie \in live

(* After signing out there is no token to refresh with, and none comes.    *)
LeftIsOut ==
  left =>
    /\ cookie = Null /\ access = "none" /\ screen # "authenticated"
    /\ auth \in {"none", "boot", "login", "stuck"}
    /\ \A s \in Slot :
         /\ phase[s] \notin {"checked", "granted"}
         /\ phase[s] = "refreshing" => token[s] = Null

SessionInv == SessionTypeOK /\ StoreInStep /\ UnharmedLives /\ LeftIsOut

(* What a request of the screen does to the session: it moves between the  *)
(* phases that refresh nothing, and starts on an open screen only.         *)
Plain == {"idle", "calling", "serving", "answered"}
PageMoves(s) ==
  /\ s \in PageSlot /\ phase[s] \in Plain
  /\ \E there \in Plain : Go(s, there)
  /\ phase[s] = "idle" => screen = "authenticated"
  /\ \E c \in BOOLEAN : carried' = [carried EXCEPT ![s] = c]
  /\ token' \in {token, [token EXCEPT ![s] = Null]}
  /\ \E r \in BOOLEAN : retried' = [retried EXCEPT ![s] = r]
  /\ UNCHANGED <<server, page, past>>

(* Everything that happens to a session, whichever screen is open. *)
SessionStep ==
  \/ \E s \in Slot : Proceed(s)
  \/ Bootstrap \/ ServeAuth \/ SignedIn \/ Identified \/ SignedOut \/ AuthRefused \/ AuthFails
  \/ Ask("login") \/ Ask("logout")
  \/ ExpireAccess \/ ExpireRefresh \/ Deactivate \/ Reload
  \/ \E s \in PageSlot : LoseConnection(s) \/ PageMoves(s)
  \/ Fault /\ UNCHANGED <<server, page, promises, harmed, left>>

(* The slots of the page and that of the store. *)
LEMMA SlotFacts == "auth" \in Slot /\ PageSlot \subseteq Slot /\ Slot \ {"auth"} = PageSlot
  BY DEF Slot

(* A promise that is settled keeps every local of its type, and leaves the *)
(* other slots alone.                                                      *)
LEMMA SettleType ==
  ASSUME SessionTypeOK, NEW s \in Slot, Settle(s)
  PROVE  /\ phase' \in [Slot -> Phase] /\ carried' \in [Slot -> BOOLEAN]
         /\ token' \in [Slot -> Token \cup {Null}] /\ retried' \in [Slot -> BOOLEAN]
         /\ phase'[s] = "idle" /\ \A o \in Slot \ {s} : phase'[o] = phase[o] /\ token'[o] = token[o]
         /\ token'[s] = Null
  BY DEF SessionTypeOK, Settle, Go, Phase

(* Faults stay within their bound. *)
LEMMA FaultType == SessionTypeOK /\ Fault => faults' \in 0..MaxFaults
  BY DEF SessionTypeOK, Fault

(* Every step of the session keeps its variables of their types. *)
LEMMA SessionTypeStep ==
  ASSUME SessionTypeOK, StoreInStep, SessionStep
  PROVE  SessionTypeOK'
  <1> USE SlotFacts
  <1>1. ASSUME NEW s \in Slot, StartRefresh(s) PROVE SessionTypeOK'
    BY <1>1 DEF StartRefresh, SendRefresh, Go, Harm, Unauthorized, SessionTypeOK,
         Phase, Refreshing, server, page, OtherRefreshes
  <1>2. ASSUME NEW s \in Slot, CheckRefresh(s) PROVE SessionTypeOK'
    BY <1>2 DEF CheckRefresh, Go, SessionTypeOK, Phase, Refreshing, server, page, past
  <1>3. ASSUME NEW s \in Slot, Rotate(s) PROVE SessionTypeOK'
    BY <1>3, NewTokenExists DEF Rotate, Go, SessionTypeOK, Phase, Refreshing, page, past
  <1>4. ASSUME NEW s \in Slot, Refreshed(s) PROVE SessionTypeOK'
    BY <1>4 DEF Refreshed, Go, SessionTypeOK, Phase, Refreshing, server, past
  <1>5. ASSUME NEW s \in Slot, AuthLost(s) PROVE SessionTypeOK'
    BY <1>5, SettleType DEF AuthLost, SessionTypeOK, server, past
  <1>6. ASSUME NEW s \in Slot, RefusedAgain(s) PROVE SessionTypeOK'
    BY <1>6, SettleType DEF RefusedAgain, SessionTypeOK, server, page, past
  <1>7. ASSUME Bootstrap PROVE SessionTypeOK'
    BY <1>7 DEF Bootstrap, SendRefresh, Go, Harm, SessionTypeOK, Phase, Refreshing,
         server, OtherRefreshes
  <1>8. ASSUME ServeAuth PROVE SessionTypeOK'
    BY <1>8, NewTokenExists DEF ServeAuth, Reach, Go, SessionTypeOK, Phase, page, past
  <1>9. ASSUME SignedIn PROVE SessionTypeOK'
    BY <1>9, SettleType DEF SignedIn, SessionTypeOK, StoreInStep, server, OtherRefreshes
  <1>10. ASSUME Identified PROVE SessionTypeOK'
    BY <1>10, SettleType DEF Identified, SessionTypeOK, server, past
  <1>11. ASSUME SignedOut PROVE SessionTypeOK'
    BY <1>11, SettleType DEF SignedOut, SessionTypeOK, server, OtherRefreshes
  <1>12. ASSUME AuthRefused PROVE SessionTypeOK'
    BY <1>12, SettleType DEF AuthRefused, StoreFails, Harm, Given, SessionTypeOK
  <1>13. ASSUME AuthFails PROVE SessionTypeOK'
    BY <1>13, SettleType, FaultType DEF AuthFails, StoreFails, Harm, Given, SessionTypeOK
  <1>14. ASSUME NEW what \in {"login", "logout"}, Ask(what) PROVE SessionTypeOK'
    BY <1>14 DEF Ask, Call, Go, Harm, SessionTypeOK, Phase, server
  <1>15. ASSUME ExpireAccess PROVE SessionTypeOK'
    BY <1>15, FaultType DEF ExpireAccess, SessionTypeOK, server
  <1>16. ASSUME ExpireRefresh PROVE SessionTypeOK'
    BY <1>16, FaultType DEF ExpireRefresh, Harm, SessionTypeOK, page, promises
  <1>17. ASSUME Deactivate PROVE SessionTypeOK'
    BY <1>17 DEF Deactivate, Harm, SessionTypeOK, page, promises
  <1>18. ASSUME Reload PROVE SessionTypeOK'
    BY <1>18, FaultType DEF Reload, Harm, Given, SessionTypeOK, Phase, Loss
  <1>19. ASSUME NEW s \in PageSlot, LoseConnection(s) PROVE SessionTypeOK'
    BY <1>19, SettleType, FaultType DEF LoseConnection, Harm, Given, Loss,
         SessionTypeOK, page
  <1>20. ASSUME NEW s \in PageSlot, PageMoves(s) PROVE SessionTypeOK'
    BY <1>20 DEF PageMoves, Go, Plain, SessionTypeOK, Phase, server, page, past
  <1>21. ASSUME Fault, UNCHANGED <<server, page, promises, harmed, left>> PROVE SessionTypeOK'
    BY <1>21, FaultType DEF SessionTypeOK, server, page, promises
  <1>22. QED
    BY <1>1, <1>2, <1>3, <1>4, <1>5, <1>6, <1>7, <1>8, <1>9, <1>10, <1>11, <1>12, <1>13,
       <1>14, <1>15, <1>16, <1>17, <1>18, <1>19, <1>20, <1>21 DEF SessionStep, Proceed

(* What the store is doing stays in step with its request. *)
LEMMA StoreInStepStep ==
  ASSUME SessionTypeOK, StoreInStep, SessionStep
  PROVE  StoreInStep'
  <1> USE SlotFacts
  <1>1. ASSUME NEW s \in Slot, StartRefresh(s) PROVE StoreInStep'
    BY <1>1 DEF StartRefresh, SendRefresh, Go, Unauthorized, SessionTypeOK,
         StoreInStep, Refreshing, server, page
  <1>2. ASSUME NEW s \in Slot, CheckRefresh(s) PROVE StoreInStep'
    BY <1>2 DEF CheckRefresh, Go, SessionTypeOK, StoreInStep, Refreshing, server, page
  <1>3. ASSUME NEW s \in Slot, Rotate(s) PROVE StoreInStep'
    BY <1>3, NewTokenExists DEF Rotate, Go, SessionTypeOK, StoreInStep, Refreshing,
         page, HeldTokens
  <1>4. ASSUME NEW s \in Slot, Refreshed(s) PROVE StoreInStep'
    BY <1>4 DEF Refreshed, Go, SessionTypeOK, StoreInStep, Refreshing, server
  <1>5. ASSUME NEW s \in Slot, AuthLost(s) PROVE StoreInStep'
    BY <1>5, SettleType DEF AuthLost, SessionTypeOK, StoreInStep, server
  <1>6. ASSUME NEW s \in Slot, RefusedAgain(s) PROVE StoreInStep'
    BY <1>6, SettleType DEF RefusedAgain, SessionTypeOK, StoreInStep, server, page
  <1>7. ASSUME Bootstrap PROVE StoreInStep'
    BY <1>7 DEF Bootstrap, SendRefresh, Go, SessionTypeOK, StoreInStep, Refreshing, server
  <1>8. ASSUME ServeAuth PROVE StoreInStep'
    BY <1>8, NewTokenExists DEF ServeAuth, Reach, Go, SessionTypeOK, StoreInStep,
         Refreshing, page, HeldTokens
  <1>9. ASSUME SignedIn PROVE StoreInStep'
    BY <1>9, SettleType DEF SignedIn, SessionTypeOK, StoreInStep, server
  <1>10. ASSUME Identified PROVE StoreInStep'
    BY <1>10, SettleType DEF Identified, SessionTypeOK, StoreInStep, server
  <1>11. ASSUME SignedOut PROVE StoreInStep'
    BY <1>11, SettleType DEF SignedOut, SessionTypeOK, StoreInStep, server
  <1>12. ASSUME StoreFails PROVE StoreInStep'
    BY <1>12, SettleType DEF StoreFails, SessionTypeOK, StoreInStep
  <1>13. ASSUME NEW what \in {"login", "logout"}, Ask(what) PROVE StoreInStep'
    BY <1>13 DEF Ask, Call, Go, SessionTypeOK, StoreInStep, server
  <1>14. ASSUME ExpireAccess PROVE StoreInStep'
    BY <1>14 DEF ExpireAccess, SessionTypeOK, StoreInStep, server
  <1>15. ASSUME ExpireRefresh PROVE StoreInStep'
    BY <1>15 DEF ExpireRefresh, SessionTypeOK, StoreInStep, page, promises
  <1>16. ASSUME Deactivate PROVE StoreInStep'
    BY <1>16 DEF Deactivate, SessionTypeOK, StoreInStep, page, promises
  <1>17. ASSUME Reload PROVE StoreInStep'
    BY <1>17 DEF Reload, SessionTypeOK, StoreInStep
  <1>18. ASSUME NEW s \in PageSlot, LoseConnection(s) PROVE StoreInStep'
    BY <1>18, SettleType DEF LoseConnection, Given, SessionTypeOK, StoreInStep, page
  <1>19. ASSUME NEW s \in PageSlot, PageMoves(s) PROVE StoreInStep'
    BY <1>19 DEF PageMoves, Go, Plain, SessionTypeOK, StoreInStep, server, page
  <1>20. ASSUME UNCHANGED <<server, page, promises>> PROVE StoreInStep'
    BY <1>20 DEF StoreInStep, server, page, promises
  <1>21. QED
    BY <1>1, <1>2, <1>3, <1>4, <1>5, <1>6, <1>7, <1>8, <1>9, <1>10, <1>11, <1>12, <1>13,
       <1>14, <1>15, <1>16, <1>17, <1>18, <1>19, <1>20
    DEF SessionStep, Proceed, AuthRefused, AuthFails

(* While nothing harmed the session, it stays one that can be refreshed. *)
LEMMA UnharmedStep ==
  ASSUME SessionTypeOK, StoreInStep, UnharmedLives, SessionStep
  PROVE  UnharmedLives'
  <1> USE SlotFacts
  <1>1. ASSUME NEW s \in Slot, StartRefresh(s) PROVE UnharmedLives'
    BY <1>1 DEF StartRefresh, SendRefresh, Go, Harm, Unauthorized, SessionTypeOK,
         UnharmedLives, Refreshing, server, page, OtherRefreshes
  <1>2. ASSUME NEW s \in Slot, CheckRefresh(s) PROVE UnharmedLives'
    BY <1>2 DEF CheckRefresh, Go, SessionTypeOK, UnharmedLives, Refreshing, server,
         page, OtherRefreshes, past
  <1>3. ASSUME NEW s \in Slot, Rotate(s) PROVE UnharmedLives'
    BY <1>3, NewTokenExists DEF Rotate, Go, SessionTypeOK, UnharmedLives, Refreshing,
         page, HeldTokens, OtherRefreshes, past
  <1>4. ASSUME NEW s \in Slot, Refreshed(s) PROVE UnharmedLives'
    BY <1>4 DEF Refreshed, Go, SessionTypeOK, UnharmedLives, Refreshing, server,
         OtherRefreshes, past
  <1>5. ASSUME NEW s \in Slot, AuthLost(s) PROVE UnharmedLives'
    BY <1>5 DEF AuthLost, SessionTypeOK, UnharmedLives, server, past
  <1>6. ASSUME NEW s \in Slot, RefusedAgain(s) PROVE UnharmedLives'
    BY <1>6, SettleType DEF RefusedAgain, SessionTypeOK, UnharmedLives, server, page,
         past, Unauthorized, OtherRefreshes, Refreshing
  <1>7. ASSUME Bootstrap PROVE UnharmedLives'
    BY <1>7 DEF Bootstrap, SendRefresh, Go, Harm, SessionTypeOK, UnharmedLives,
         Refreshing, server, OtherRefreshes
  <1>8. ASSUME ServeAuth PROVE UnharmedLives'
    BY <1>8 DEF ServeAuth, Reach, Go, SessionTypeOK, UnharmedLives, Refreshing, page,
         past, OtherRefreshes
  <1>9. ASSUME SignedIn PROVE UnharmedLives'
    BY <1>9, SettleType DEF SignedIn, SessionTypeOK, StoreInStep, UnharmedLives,
         server, OtherRefreshes, Refreshing
  <1>10. ASSUME Identified PROVE UnharmedLives'
    BY <1>10, SettleType DEF Identified, SessionTypeOK, UnharmedLives, server, past,
         OtherRefreshes, Refreshing
  <1>11. ASSUME SignedOut PROVE UnharmedLives'
    BY <1>11, SettleType DEF SignedOut, SessionTypeOK, UnharmedLives, server
  <1>12. ASSUME StoreFails PROVE UnharmedLives'
    BY <1>12 DEF StoreFails, Harm, SessionTypeOK, UnharmedLives
  <1>13. ASSUME NEW what \in {"login", "logout"}, Ask(what) PROVE UnharmedLives'
    BY <1>13 DEF Ask, Harm, SessionTypeOK, UnharmedLives, server
  <1>14. ASSUME ExpireAccess PROVE UnharmedLives'
    BY <1>14 DEF ExpireAccess, SessionTypeOK, UnharmedLives, server, OtherRefreshes
  <1>15. ASSUME ExpireRefresh PROVE UnharmedLives'
    BY <1>15 DEF ExpireRefresh, Harm, UnharmedLives
  <1>16. ASSUME Deactivate PROVE UnharmedLives'
    BY <1>16 DEF Deactivate, Harm, UnharmedLives
  <1>17. ASSUME Reload PROVE UnharmedLives'
    BY <1>17 DEF Reload, Harm, Loss, Given, SessionTypeOK, UnharmedLives,
         OtherRefreshes, Refreshing
  <1>18. ASSUME NEW s \in PageSlot, LoseConnection(s) PROVE UnharmedLives'
    BY <1>18, SettleType DEF LoseConnection, Harm, Loss, Given, SessionTypeOK,
         UnharmedLives, page, OtherRefreshes, Refreshing
  <1>19. ASSUME NEW s \in PageSlot, PageMoves(s) PROVE UnharmedLives'
    BY <1>19 DEF PageMoves, Go, Plain, SessionTypeOK, UnharmedLives, server, page,
         past, OtherRefreshes, Refreshing
  <1>20. ASSUME UNCHANGED <<server, page, promises, harmed>> PROVE UnharmedLives'
    BY <1>20 DEF UnharmedLives, server, page, promises, OtherRefreshes
  <1>21. QED
    BY <1>1, <1>2, <1>3, <1>4, <1>5, <1>6, <1>7, <1>8, <1>9, <1>10, <1>11, <1>12, <1>13,
       <1>14, <1>15, <1>16, <1>17, <1>18, <1>19, <1>20
    DEF SessionStep, Proceed, AuthRefused, AuthFails

(* Nothing brings back a session whose user signed out. *)
LEMMA LeftStep ==
  ASSUME SessionTypeOK, StoreInStep, LeftIsOut, SessionStep
  PROVE  LeftIsOut'
  <1> USE SlotFacts
  <1>1. ASSUME NEW s \in Slot, StartRefresh(s) PROVE LeftIsOut'
    BY <1>1 DEF StartRefresh, SendRefresh, Go, SessionTypeOK, LeftIsOut, server, page
  <1>2. ASSUME NEW s \in Slot, CheckRefresh(s) PROVE LeftIsOut'
    BY <1>2 DEF CheckRefresh, Go, SessionTypeOK, LeftIsOut, server, page, past
  <1>3. ASSUME NEW s \in Slot, Rotate(s) PROVE LeftIsOut'
    BY <1>3 DEF Rotate, SessionTypeOK, LeftIsOut, past
  <1>4. ASSUME NEW s \in Slot, Refreshed(s) PROVE LeftIsOut'
    BY <1>4 DEF Refreshed, SessionTypeOK, LeftIsOut, past
  <1>5. ASSUME NEW s \in Slot, AuthLost(s) PROVE LeftIsOut'
    BY <1>5, SettleType DEF AuthLost, SessionTypeOK, LeftIsOut, server, past
  <1>6. ASSUME NEW s \in Slot, RefusedAgain(s) PROVE LeftIsOut'
    BY <1>6, SettleType DEF RefusedAgain, SessionTypeOK, LeftIsOut, server, page, past
  <1>7. ASSUME Bootstrap PROVE LeftIsOut'
    BY <1>7 DEF Bootstrap, SendRefresh, Go, SessionTypeOK, LeftIsOut, server
  <1>8. ASSUME ServeAuth PROVE LeftIsOut'
    BY <1>8 DEF ServeAuth, Reach, Go, SessionTypeOK, LeftIsOut, page, past
  <1>9. ASSUME SignedIn PROVE LeftIsOut'
    BY <1>9 DEF SignedIn, LeftIsOut
  <1>10. ASSUME Identified PROVE LeftIsOut'
    BY <1>10 DEF Identified, LeftIsOut, past
  <1>11. ASSUME SignedOut PROVE LeftIsOut'
    BY <1>11, SettleType DEF SignedOut, SessionTypeOK, LeftIsOut, OtherRefreshes,
         Refreshing
  <1>12. ASSUME StoreFails PROVE LeftIsOut'
    BY <1>12, SettleType DEF StoreFails, SessionTypeOK, LeftIsOut
  <1>13. ASSUME NEW what \in {"login", "logout"}, Ask(what) PROVE LeftIsOut'
    BY <1>13 DEF Ask, Call, Go, SessionTypeOK, LeftIsOut, server
  <1>14. ASSUME ExpireAccess PROVE LeftIsOut'
    BY <1>14 DEF ExpireAccess, LeftIsOut, server
  <1>15. ASSUME ExpireRefresh PROVE LeftIsOut'
    BY <1>15 DEF ExpireRefresh, LeftIsOut, page, promises
  <1>16. ASSUME Deactivate PROVE LeftIsOut'
    BY <1>16 DEF Deactivate, LeftIsOut, page, promises
  <1>17. ASSUME Reload PROVE LeftIsOut'
    BY <1>17 DEF Reload, LeftIsOut
  <1>18. ASSUME NEW s \in PageSlot, LoseConnection(s) PROVE LeftIsOut'
    BY <1>18, SettleType DEF LoseConnection, SessionTypeOK, LeftIsOut, page
  <1>19. ASSUME NEW s \in PageSlot, PageMoves(s) PROVE LeftIsOut'
    BY <1>19 DEF PageMoves, Go, Plain, SessionTypeOK, LeftIsOut, server, page, past
  <1>20. ASSUME UNCHANGED <<server, page, promises, harmed, left>> PROVE LeftIsOut'
    BY <1>20 DEF LeftIsOut, server, page, promises
  <1>21. QED
    BY <1>1, <1>2, <1>3, <1>4, <1>5, <1>6, <1>7, <1>8, <1>9, <1>10, <1>11, <1>12, <1>13,
       <1>14, <1>15, <1>16, <1>17, <1>18, <1>19, <1>20
    DEF SessionStep, Proceed, AuthRefused, AuthFails

(* The session part of the invariant: where every request and every token  *)
(* of a session can be.                                                    *)
LEMMA SessionInvStep == SessionInv /\ (SessionStep \/ UNCHANGED sessionVars) => SessionInv'
  <1>1. SessionInv /\ SessionStep => SessionInv'
    BY SessionTypeStep, StoreInStepStep, UnharmedStep, LeftStep DEF SessionInv
  <1>2. SessionInv /\ UNCHANGED sessionVars => SessionInv'
    BY DEF SessionInv, sessionVars, server, page, promises, past, SessionTypeOK,
         StoreInStep,
           UnharmedLives, LeftIsOut, OtherRefreshes
  <1>3. QED
    BY <1>1, <1>2

(* A page that is loaded satisfies the invariant of the session. *)
LEMMA SessionInvInit == SessionInit => SessionInv
  <1> SUFFICES ASSUME SessionInit PROVE SessionInv
    OBVIOUS
  <1>1. 1 \in Token
    BY SlotsFinite DEF Token
  <1>2. SessionTypeOK
    <2>1. live \subseteq Token /\ cookie \in Token \cup {Null}
      BY <1>1 DEF SessionInit
    <2>2. active \in BOOLEAN /\ harmed \in BOOLEAN /\ left \in BOOLEAN
      BY Zenon DEF SessionInit
    <2>3. /\ phase \in [Slot -> Phase] /\ carried \in [Slot -> BOOLEAN]
          /\ token \in [Slot -> Token \cup {Null}] /\ retried \in [Slot -> BOOLEAN]
      BY DEF SessionInit, Phase
    <2>4. QED
      BY <2>1, <2>2, <2>3, SlotFacts DEF SessionInit, SessionTypeOK
  <1>3. StoreInStep /\ LeftIsOut
    BY SlotFacts DEF SessionInit, StoreInStep, LeftIsOut, Refreshing
  <1>4. UnharmedLives
    BY <1>1, SlotFacts DEF SessionInit, UnharmedLives, OtherRefreshes, Refreshing
  <1>5. QED
    BY <1>2, <1>3, <1>4 DEF SessionInv

(* The invariant of the session explains what the user sees. *)
LEMMA InvExplains == SessionInv => SessionIsExplained
  BY SlotFacts DEF SessionInv, SessionIsExplained, StoreInStep, UnharmedLives, LeftIsOut

(* The click and what answers it: the note or the job it awaits is its own *)
(* and not finished, and an answer is there exactly when it was answered.  *)
ClickInStep ==
  /\ phase["click"] = "serving" <=> awaited # Null
  /\ phase["click"] = "answered" <=> verdict # "none"
  /\ phase["list"] # "serving"
  /\ Asks("form") =>
       /\ asked.form.wish \notin told
       /\ awaited # Null => awaited \in inserting /\ formOf[awaited] = asked.form
       /\ phase["click"] \notin {"serving", "answered"} => Unused # {}
       /\ verdict = "ok" => \E n \in filled : formOf[n].wish = asked.form.wish
  /\ Asks("note") =>
       /\ awaited # Null => awaited \in Job /\ job[awaited] # Free
       /\ awaited # Null => job[awaited].note = asked.note
       /\ \A j \in Job : job[j].key = asked.key => job[j].note = asked.note
       /\ verdict = "ok" \/ asked.key \in stored => Handled(asked.note)

(* The tables and the server's jobs: only what has lines moves, is posted  *)
(* or waits for approval, only transfers need approval, what is POSTED has *)
(* moved, and a job that is done has moved its note or asked for approval. *)
TablesInStep ==
  /\ inserting \cup filled \subseteq Note \ Unused
  /\ posted \subseteq filled
  /\ \A n \in Note :
       /\ moved[n] > 0 => n \in filled
       /\ n \in posted => moved[n] > 0
       /\ moved[n] > 0 /\ ~IsTransfer(n) => n \in posted
       /\ approvals[n] > 0 => n \in sought
       /\ n \in sought => n \in filled /\ IsTransfer(n)
  /\ \A j \in Job : job[j] # Free =>
       /\ job[j].note \in filled
       /\ job[j].pc = "repeating" => moved[job[j].note] > 0
       /\ job[j].pc = "committed" => Handled(job[j].note)
  /\ \A w \in told : \E n \in filled : formOf[n].wish = w

(* A note that moved while a job was posting it, or that two jobs post, is *)
(* in a race; no other note moves twice.                                   *)
RacesKnown ==
  /\ \A j \in Job : job[j].pc = "posting" /\ moved[job[j].note] > 0 => job[j].note \in raced
  /\ \A i, j \in Job :
       i # j /\ job[i].pc = "posting" /\ job[j].pc = "posting" /\ job[i].note = job[j].note
         => job[j].note \in raced
  /\ \A n \in Note : moved[n] > 1 => n \in raced

(* A wish whose answers all came: its note is being inserted for the click *)
(* that awaits it, or was reported, or is about to be.                     *)
Created(n) ==
  LET w == formOf[n].wish
  IN  \/ w \in unsure \/ w \in told
      \/ Asks("form") /\ asked.form.wish = w /\ verdict = "ok"

CreationsKnown ==
  /\ \A n \in inserting : formOf[n].wish \in unsure \/ Awaits("form", n)
  /\ \A n \in filled : Created(n)
  /\ \A m, n \in filled : m # n /\ formOf[m].wish = formOf[n].wish => formOf[m].wish \in unsure

(* What a click can be: nothing, a note to create, or a note to post. *)
AskedIsTyped ==
  /\ Asks("form") => /\ asked.form \in Form /\ asked.note = Null /\ asked.key = Null
                     /\ ~Asks("note") /\ asked = Creation(asked.form)
  /\ Asks("note") => /\ asked.note \in Note /\ asked.key \in PostKey /\ ~Asks("form")
                     /\ asked = Posting(asked.note, asked.key)
  /\ asked = Nothing \/ Asks("form") \/ Asks("note")
  /\ asked = Nothing => ~Asks("form") /\ ~Asks("note") /\ asked.key = Null

(* What the click asks for is a form or a note, as its type says. *)
LEMMA AskedType == DeskTypeOK => AskedIsTyped
  <1> SUFFICES ASSUME DeskTypeOK PROVE AskedIsTyped
    OBVIOUS
  <1>1. CASE asked = Nothing
    BY <1>1 DEF Asks, AskedIsTyped, Nothing
  <1>2. ASSUME NEW f \in Form, asked = Creation(f) PROVE AskedIsTyped
    BY <1>2 DEF Asks, AskedIsTyped, Creation, Nothing
  <1>3. ASSUME NEW n \in Note, NEW k \in PostKey, asked = Posting(n, k) PROVE AskedIsTyped
    BY <1>3 DEF Asks, AskedIsTyped, PostKey, Posting, Nothing
  <1>4. QED
    BY <1>1, <1>2, <1>3 DEF DeskTypeOK

(* A click that creates asks for its form only. *)
LEMMA Creations ==
  ASSUME NEW f \in Form, asked' = Creation(f)
  PROVE  /\ asked'.form = f /\ asked'.key = Null /\ asked' # Nothing
         /\ Asks("form")' /\ ~Asks("note")'
  BY DEF Asks, Nothing, Creation

(* A click that posts asks for its note, under its key. *)
LEMMA Postings ==
  ASSUME NEW n \in Note, NEW k \in PostKey, asked' = Posting(n, k)
  PROVE  /\ asked'.note = n /\ asked'.key = k /\ asked' # Nothing
         /\ Asks("note")' /\ ~Asks("form")'
  BY DEF Asks, Nothing, Posting

(* No click asks for nothing. *)
LEMMA NothingAsked ==
  ASSUME asked' = Nothing
  PROVE  ~Asks("form")' /\ ~Asks("note")' /\ asked'.key = Null
  BY DEF Asks, Nothing

(* A job that is not free posts a note under a key. *)
LEMMA JobType ==
  ASSUME DeskTypeOK, NEW j \in Job
  PROVE  /\ job[j] # Free => job[j].note \in Note /\ job[j].key \in PostKey
                               /\ job[j].pc \in {"posting", "repeating", "committed"}
         /\ job[j] = Free => job[j].note = Null /\ job[j].key = Null /\ job[j].pc = "free"
         /\ job[j].pc # "free" => job[j] # Free
  BY DEF DeskTypeOK, Posts, Free

(* The invariant of the desk, beside its session. *)
DeskPart == ClickInStep /\ TablesInStep /\ RacesKnown /\ CreationsKnown

ClickPhase(p) == IF p \in Refreshing THEN "calling" ELSE p

(* Steps of the store, of the table and of a click's refresh leave notes,  *)
(* jobs and the click as they are.                                         *)
LEMMA ClickUnmoved ==
  ASSUME DeskTypeOK, DeskPart, SessionTypeOK',
         UNCHANGED <<tables, job, click, histories>>, shown' \cup fetched' \subseteq Note,
         ClickPhase(phase'["click"]) = ClickPhase(phase["click"]), phase'["list"] # "serving"
  PROVE  DeskTypeOK' /\ DeskPart'
  <1>1. /\ phase'["click"] = "idle" <=> phase["click"] = "idle"
        /\ phase'["click"] = "serving" <=> phase["click"] = "serving"
        /\ phase'["click"] = "answered" <=> phase["click"] = "answered"
    BY DEF ClickPhase, Refreshing
  <1>2. DeskTypeOK'
    BY <1>1 DEF DeskTypeOK, tables, click, histories
  <1>3. ClickInStep'
    BY <1>1 DEF DeskPart, ClickInStep, Asks, Unused, IsTransfer, Handled, tables, click, histories
  <1>4. TablesInStep' /\ RacesKnown' /\ CreationsKnown'
    BY DEF DeskPart, TablesInStep, RacesKnown, CreationsKnown, Created,
         Awaits, Asks, Unused, IsTransfer, Handled, tables, click, histories
  <1>5. QED
    BY <1>2, <1>3, <1>4 DEF DeskPart

(* What has moved or was sought for approval stays so. *)
LEMMA StaysHandled ==
  ASSUME NEW n \in Note, Handled(n), formOf'[n] = formOf[n],
         moved[n] > 0 => moved'[n] > 0, sought \subseteq sought'
  PROVE  Handled(n)'
  BY DEF Handled, IsTransfer

(* The tables are in step when only jobs end. *)
LEMMA FewerJobs ==
  ASSUME DeskTypeOK, TablesInStep, RacesKnown,
         UNCHANGED <<formOf, filled, posted, moved, approvals, sought, told, raced>>,
         inserting' \subseteq inserting, \A j \in Job : job'[j] \in {job[j], Free}
  PROVE  TablesInStep' /\ RacesKnown'
  <1>1. Free.pc = "free"
    BY DEF Free
  <1>2. TablesInStep'
    BY DEF TablesInStep, Unused, Handled, IsTransfer
  <1>3. RacesKnown'
    BY <1>1 DEF RacesKnown
  <1>4. QED
    BY <1>2, <1>3

(* What the page gives up, it may have caused: the wish is unsure from     *)
(* then on.                                                                *)
LEMMA Abandoned ==
  ASSUME DeskTypeOK, DeskPart, SessionTypeOK', NEW gone, Forget(gone), "click" \in gone,
         UNCHANGED <<formOf, filled, posted, moved, approvals, sought, told, raced>>, shown' \subseteq Note,
         inserting' \subseteq inserting, \A j \in Job : job'[j] \in {job[j], Free},
         job' \in [Job -> {Free} \cup Posts],
         phase'["click"] = "idle", phase'["list"] # "serving"
  PROVE  DeskTypeOK' /\ DeskPart'
  <1>1. /\ asked' = Nothing /\ awaited' = Null /\ verdict' = "none" /\ stored' = {}
        /\ fetched' \subseteq fetched
        /\ unsure \subseteq unsure'
        /\ phase["click"] \in {"serving", "answered"} => unsure' = unsure \cup Doubtful
    BY DEF Forget
  <1>2. ~Asks("form")' /\ ~Asks("note")' /\ asked'.key = Null
    BY <1>1, NothingAsked
  <1>3. unsure' \subseteq Wish
    BY AskedType DEF Forget, Doubtful, AskedIsTyped, Form, DeskTypeOK
  <1>4. DeskTypeOK'
    <2>1. formOf' \in [Note -> Form \cup {Null}] /\ moved' \in [Note -> Nat] /\ approvals' \in [Note -> Nat]
      BY DEF DeskTypeOK
    <2>2. inserting' \cup filled' \cup posted' \subseteq Note /\ shown' \cup fetched' \subseteq Note
      BY <1>1 DEF DeskTypeOK
    <2>3. told' \subseteq Wish /\ raced' \subseteq Note /\ sought' \subseteq Note /\ asked' = Nothing /\ stored' = {}
      BY <1>1 DEF DeskTypeOK
    <2>4. QED
      BY <1>1, <1>3, <2>1, <2>2, <2>3 DEF DeskTypeOK
  <1>5. ClickInStep'
    BY <1>1, <1>2 DEF ClickInStep
  <1>6. TablesInStep' /\ RacesKnown'
    BY FewerJobs DEF DeskPart
  <1>7. ASSUME NEW n \in Note, Awaits("form", n) PROVE formOf[n].wish \in unsure'
    <2>1. awaited = n /\ Asks("form") /\ awaited # Null
      BY <1>7 DEF Awaits
    <2>2. phase["click"] = "serving" /\ formOf[n] = asked.form
      BY <2>1 DEF DeskPart, ClickInStep
    <2>3. QED
      BY <1>1, <2>1, <2>2 DEF Doubtful
  <1>8. ASSUME Asks("form"), verdict = "ok" PROVE asked.form.wish \in unsure'
    BY <1>1, <1>8 DEF DeskPart, ClickInStep, Doubtful
  <1>9. CreationsKnown'
    <2>1. ASSUME NEW n \in inserting' PROVE formOf'[n].wish \in unsure'
      BY <1>1, <1>7, <2>1 DEF DeskPart, CreationsKnown, DeskTypeOK
    <2>2. ASSUME NEW n \in filled' PROVE Created(n)'
      BY <1>1, <1>8, <2>2 DEF DeskPart, CreationsKnown, Created
    <2>3. QED
      BY <1>1, <2>1, <2>2 DEF DeskPart, CreationsKnown
  <1>10. QED
    BY <1>4, <1>5, <1>6, <1>9 DEF DeskPart
-----------------------------------------------------------------------------
(* Two clicks: a dialog that is submitted, a row that is posted. *)
LEMMA Sent ==
  ASSUME SessionTypeOK, NEW s \in PageSlot, Send(s)
  PROVE  /\ phase[s] = "idle" /\ phase'[s] = "calling"
         /\ \A o \in Slot \ {s} : phase'[o] = phase[o]
         /\ PageMoves(s)
  BY DEF Send, Call, Go, SessionTypeOK, Slot, PageMoves, Open, Plain

(* A dialog is submitted. *)
LEMMA ClickCreateStep ==
  ASSUME DeskTypeOK, DeskPart, SessionTypeOK', ClickCreate
  PROVE  DeskTypeOK' /\ DeskPart'
  <1>1. /\ phase["click"] = "idle" /\ phase'["click"] = "calling" /\ phase'["list"] = phase["list"]
        /\ asked = Nothing /\ Unused # {}
    <2>1. Send("click") /\ Unused # {}
      BY DEF ClickCreate
    <2>2. QED
      BY <2>1, Sent DEF DeskTypeOK, Slot
  <1>2. PICK f \in Form : asked' = Creation(f) /\ f.wish \notin told
    BY DEF ClickCreate
  <1>3. UNCHANGED <<tables, job, shown, fetched, awaited, verdict, stored, histories>>
    BY DEF ClickCreate
  <1>4. awaited = Null /\ verdict = "none" /\ stored = {} /\ ~Asks("form") /\ ~Asks("note")
    BY <1>1, AskedType DEF DeskPart, ClickInStep, AskedIsTyped, DeskTypeOK, PostKey
  <1>5. /\ asked'.form = f /\ asked'.key = Null /\ asked' # Nothing
        /\ Asks("form")' /\ ~Asks("note")'
    BY <1>2, Creations
  <1>6. DeskTypeOK'
    BY <1>1, <1>2, <1>3, <1>4, <1>5 DEF DeskTypeOK, tables, histories
  <1>7. ClickInStep'
    BY <1>1, <1>2, <1>3, <1>4, <1>5 DEF DeskPart, ClickInStep, tables, histories, Unused
  <1>8. TablesInStep' /\ RacesKnown' /\ CreationsKnown'
    BY <1>1, <1>3, <1>4, <1>5 DEF DeskPart, TablesInStep, RacesKnown,
         CreationsKnown, Created,
         Awaits, Unused, IsTransfer, Handled, tables, histories
  <1>9. QED
    BY <1>6, <1>7, <1>8 DEF DeskPart

(* A Post button is clicked, under a key that no job has. *)
LEMMA ClickPostStep ==
  ASSUME DeskTypeOK, DeskPart, SessionTypeOK', NEW n \in Note, ClickPost(n)
  PROVE  DeskTypeOK' /\ DeskPart'
  <1>1. /\ phase["click"] = "idle" /\ phase'["click"] = "calling" /\ phase'["list"] = phase["list"]
        /\ asked = Nothing
    <2>1. Send("click")
      BY DEF ClickPost
    <2>2. QED
      BY <2>1, Sent DEF DeskTypeOK, Slot
  <1>2. PICK k \in PostKey : asked' = Posting(n, k) /\ \A j \in Job : job[j].key # k
    BY DEF ClickPost
  <1>3. UNCHANGED <<tables, job, rows, awaited, verdict, stored, histories>>
    BY DEF ClickPost
  <1>4. awaited = Null /\ verdict = "none" /\ stored = {} /\ ~Asks("form") /\ ~Asks("note")
    BY <1>1, AskedType DEF DeskPart, ClickInStep, AskedIsTyped, DeskTypeOK, PostKey
  <1>5. /\ asked'.note = n /\ asked'.key = k /\ asked' # Nothing
        /\ Asks("note")' /\ ~Asks("form")'
    BY <1>2, Postings
  <1>6. DeskTypeOK'
    BY <1>1, <1>2, <1>3, <1>4, <1>5 DEF DeskTypeOK, tables, rows, histories
  <1>7. ClickInStep'
    BY <1>1, <1>2, <1>3, <1>4, <1>5 DEF DeskPart, ClickInStep, tables, rows, histories, PostKey
  <1>8. TablesInStep' /\ RacesKnown' /\ CreationsKnown'
    BY <1>1, <1>3, <1>4, <1>5 DEF DeskPart, TablesInStep, RacesKnown,
         CreationsKnown, Created,
         Awaits, Unused, IsTransfer, Handled, tables, histories
  <1>9. QED
    BY <1>6, <1>7, <1>8 DEF DeskPart

(* A request of the page reaches its view, or is answered. *)
LEMMA Served ==
  ASSUME SessionTypeOK, NEW s \in PageSlot, NEW there \in {"serving", "answered"}, Serve(s, there)
  PROVE  /\ phase[s] = "calling" /\ phase'[s] = there
         /\ \A o \in Slot \ {s} : phase'[o] = phase[o]
         /\ PageMoves(s)
  BY DEF Serve, Authorized, Reach, Go, SessionTypeOK, Slot, PageMoves, Plain

(* What answering the click does to its slot. *)
LEMMA Answers ==
  ASSUME SessionTypeOK, NEW v, Answer(v)
  PROVE  /\ phase'["click"] = "answered" /\ phase'["list"] = phase["list"]
         /\ verdict' = v /\ awaited' = Null /\ asked' = asked
         /\ phase["click"] \in {"calling", "serving", "answered"} => PageMoves("click")
  BY DEF Answer, Reach, Go, SessionTypeOK, Slot, PageMoves, Plain

(* What taking an answer does to its slot. *)
LEMMA AnswerTaken ==
  ASSUME SessionTypeOK, NEW s \in PageSlot, Take(s)
  PROVE  /\ phase[s] = "answered" /\ phase'[s] = "idle"
         /\ \A o \in Slot \ {s} : phase'[o] = phase[o]
         /\ PageMoves(s)
  BY DEF Take, Settle, Go, SessionTypeOK, Slot, PageMoves, Plain

(* The two slots of this screen. *)
LEMMA SlotNames == "click" \in PageSlot /\ "list" \in PageSlot /\ PageSlot \subseteq Slot
                   /\ "list" # "click"
  BY DEF Slot

(* An answer that comes at once finds nothing under way for the click. *)
LEMMA AnsweredAtOnce ==
  ASSUME DeskTypeOK, DeskPart, SessionTypeOK', NEW v \in {"ok", "refused"}, Answer(v),
         phase["click"] = "calling", UNCHANGED <<tables, job, rows, stored, histories>>,
         v = "ok" => Asks("note") /\ Handled(asked.note)
  PROVE  DeskTypeOK' /\ DeskPart'
  <1>1. /\ phase'["click"] = "answered" /\ phase'["list"] = phase["list"]
        /\ verdict' = v /\ awaited' = Null /\ asked' = asked
    BY Answers DEF DeskTypeOK
  <1>2. awaited = Null /\ verdict = "none"
    BY DEF DeskPart, ClickInStep, DeskTypeOK
  <1>3. DeskTypeOK'
    BY <1>1 DEF DeskTypeOK, tables, rows, histories
  <1>4. ClickInStep'
    BY <1>1, <1>2, AskedType DEF DeskPart, ClickInStep, tables, rows, histories, Asks,
         Unused, AskedIsTyped, Handled, IsTransfer
  <1>5. TablesInStep' /\ RacesKnown' /\ CreationsKnown'
    BY <1>1, <1>2 DEF DeskPart, TablesInStep, RacesKnown, CreationsKnown, Created,
         Awaits, Asks, Unused, IsTransfer, Handled, tables, histories
  <1>6. QED
    BY <1>3, <1>4, <1>5 DEF DeskPart

(* A form is refused before anything is stored. *)
LEMMA RefuseCreateStep ==
  ASSUME DeskTypeOK, DeskPart, SessionTypeOK', RefuseCreate
  PROVE  DeskTypeOK' /\ DeskPart'
  BY AnsweredAtOnce DEF RefuseCreate, Authorized

(* A posting is answered from its key, or refused for want of lines. *)
LEMMA AnswerAtOnceStep ==
  ASSUME DeskTypeOK, DeskPart, SessionTypeOK', AnswerAtOnce
  PROVE  DeskTypeOK' /\ DeskPart'
  <1>1. asked.key \in stored => Handled(asked.note)
    BY DEF AnswerAtOnce, DeskPart, ClickInStep
  <1>2. QED
    BY <1>1, AnsweredAtOnce DEF AnswerAtOnce, Authorized

(* A note gets its header: its number was free, and the click awaits it. *)
LEMMA CreateHeaderStep ==
  ASSUME DeskTypeOK, DeskPart, SessionTypeOK', CreateHeader
  PROVE  DeskTypeOK' /\ DeskPart'
  <1> DEFINE n == Min(Unused)
  <1>1. /\ phase["click"] = "calling" /\ phase'["click"] = "serving" /\ phase'["list"] = phase["list"]
    BY Served, SlotNames DEF CreateHeader, DeskTypeOK
  <1>2. /\ Asks("form") /\ ~Asks("note") /\ asked.form \in Form /\ awaited = Null /\ verdict = "none"
        /\ asked.key = Null
    BY <1>1, AskedType DEF CreateHeader, DeskPart, ClickInStep, DeskTypeOK, AskedIsTyped
  <1>3. n \in Unused /\ n \in Note
    <2>1. Unused # {} /\ Unused \subseteq Nat
      BY <1>1, <1>2 DEF DeskPart, ClickInStep, Unused, Note
    <2>2. QED
      BY <2>1, LeastExists DEF Unused
  <1> HIDE DEF n
  <1>4. /\ formOf' = [formOf EXCEPT ![n] = asked.form]
        /\ inserting' = inserting \cup {n} /\ awaited' = n
        /\ UNCHANGED <<filled, posted, moved, approvals, sought, job, rows, asked, verdict, stored, histories>>
    BY DEF CreateHeader, n
  <1>5. /\ n \notin inserting /\ n \notin filled /\ n # Null
        /\ formOf'[n] = asked.form /\ \A m \in Note \ {n} : formOf'[m] = formOf[m]
    BY <1>3, <1>4 DEF DeskPart, TablesInStep, DeskTypeOK
  <1>6. DeskTypeOK'
    BY <1>1, <1>2, <1>3, <1>4 DEF DeskTypeOK, rows, histories
  <1>7. Unused' \subseteq Unused \ {n} /\ Note \ Unused' = (Note \ Unused) \cup {n}
    BY <1>2, <1>3, <1>5 DEF Unused
  <1>8. ClickInStep'
    BY <1>1, <1>2, <1>3, <1>4, <1>5 DEF DeskPart, ClickInStep, rows, histories, Asks
  <1>9. TablesInStep'
    <2>1. inserting' \cup filled' \subseteq Note \ Unused'
      BY <1>3, <1>4, <1>7 DEF DeskPart, TablesInStep
    <2>2. \A m \in filled : formOf'[m] = formOf[m]
      BY <1>5 DEF DeskTypeOK
    <2>3. \A w \in told' : \E m \in filled' : formOf'[m].wish = w
      BY <1>4, <2>2 DEF DeskPart, TablesInStep, histories
    <2>4. ASSUME NEW m \in filled PROVE (IsTransfer(m)' <=> IsTransfer(m)) /\ (Handled(m)' <=> Handled(m))
      BY <1>4, <2>2 DEF IsTransfer, Handled
    <2>5. ASSUME NEW m \in Note
          PROVE  /\ moved'[m] > 0 => m \in filled'
                 /\ m \in posted' => moved'[m] > 0
                 /\ moved'[m] > 0 /\ ~IsTransfer(m)' => m \in posted'
                 /\ approvals'[m] > 0 => m \in sought'
                 /\ m \in sought' => m \in filled' /\ IsTransfer(m)'
      BY <1>4, <2>4 DEF DeskPart, TablesInStep
    <2>6. \A j \in Job : job'[j] # Free =>
            /\ job'[j].note \in filled'
            /\ job'[j].pc = "repeating" => moved'[job'[j].note] > 0
            /\ job'[j].pc = "committed" => Handled(job[j].note)'
      BY <1>4, <2>4 DEF DeskPart, TablesInStep
    <2>7. posted' \subseteq filled'
      BY <1>4 DEF DeskPart, TablesInStep
    <2>8. QED
      BY <2>1, <2>3, <2>5, <2>6, <2>7 DEF TablesInStep
  <1>10. RacesKnown'
    BY <1>4 DEF DeskPart, RacesKnown, histories
  <1>11. CreationsKnown'
    <2>1. \A m \in filled \cup inserting : formOf'[m] = formOf[m] /\ m # n
      BY <1>5 DEF DeskTypeOK
    <2>2. ASSUME NEW m \in inserting' PROVE formOf'[m].wish \in unsure' \/ Awaits("form", m)'
      <3>1. CASE m = n
        BY <3>1, <1>2, <1>4 DEF Awaits, Asks
      <3>2. CASE m # n
        BY <3>2, <1>2, <1>3, <1>4, <2>1 DEF DeskPart, CreationsKnown, Awaits,
             histories, DeskTypeOK
      <3>3. QED
        BY <3>1, <3>2
    <2>3. ASSUME NEW m \in filled' PROVE Created(m)'
      BY <1>2, <1>4, <2>1 DEF DeskPart, CreationsKnown, Created, histories, Asks
    <2>4. QED
      BY <2>1, <2>2, <2>3, <1>4 DEF DeskPart, CreationsKnown, histories
  <1>12. QED
    BY <1>6, <1>8, <1>9, <1>10, <1>11 DEF DeskPart

(* The page takes the answer, and reports a creation that succeeded. *)
LEMMA TakeAnswerStep ==
  ASSUME DeskTypeOK, DeskPart, SessionTypeOK', TakeAnswer
  PROVE  DeskTypeOK' /\ DeskPart'
  <1> DEFINE news == IF Asks("form") /\ verdict = "ok" THEN {asked.form.wish} ELSE {}
  <1>1. phase["click"] = "answered" /\ phase'["click"] = "idle" /\ phase'["list"] = phase["list"]
    BY AnswerTaken, SlotNames DEF TakeAnswer, DeskTypeOK
  <1>2. /\ told' = told \cup news /\ verdict' = "none" /\ asked' = Nothing /\ stored' = {}
        /\ UNCHANGED <<tables, job, shown, fetched, awaited, unsure, raced>>
    BY DEF TakeAnswer
  <1>3. awaited = Null
    BY <1>1 DEF DeskPart, ClickInStep
  <1>4. ~Asks("form")' /\ ~Asks("note")' /\ asked'.key = Null
    BY <1>2, NothingAsked
  <1>5. news \subseteq Wish /\ \A w \in news : \E n \in filled : formOf[n].wish = w
    BY AskedType DEF AskedIsTyped, DeskPart, ClickInStep, Form
  <1> HIDE DEF news
  <1>6. DeskTypeOK'
    BY <1>1, <1>2, <1>5 DEF DeskTypeOK, tables
  <1>7. ClickInStep'
    BY <1>1, <1>2, <1>3, <1>4 DEF DeskPart, ClickInStep
  <1>8. TablesInStep'
    BY <1>2, <1>5 DEF DeskPart, TablesInStep, IsTransfer, Handled, tables, Unused
  <1>9. RacesKnown'
    BY <1>2 DEF DeskPart, RacesKnown, tables
  <1>10. CreationsKnown'
    <2>1. \A n \in Note : ~Awaits("form", n)
      BY <1>3 DEF Awaits
    <2>2. \A n \in inserting : formOf[n].wish \in unsure
      BY <2>1 DEF DeskPart, CreationsKnown, DeskTypeOK
    <2>3. \A n \in filled : formOf[n].wish \in unsure \/ formOf[n].wish \in told'
      BY <1>2 DEF DeskPart, CreationsKnown, Created, news
    <2>4. QED
      BY <1>2, <2>2, <2>3 DEF DeskPart, CreationsKnown, Created, tables
  <1>11. QED
    BY <1>6, <1>7, <1>8, <1>9, <1>10 DEF DeskPart

(* A note gets its lines, or is left without any, and the click its        *)
(* answer.                                                                 *)
LEMMA InsertLinesStep ==
  ASSUME DeskTypeOK, DeskPart, SessionTypeOK', NEW n \in Note, InsertLines(n)
  PROVE  DeskTypeOK' /\ DeskPart'
  <1> DEFINE fits == formOf[n].flaw # "product twice"
             v == IF fits THEN "ok" ELSE "refused"
  <1>1. /\ n \in inserting /\ inserting' = inserting \ {n}
        /\ filled' = IF fits THEN filled \cup {n} ELSE filled
        /\ UNCHANGED <<formOf, posted, moved, approvals, sought, job, rows, stored, histories>>
    BY DEF InsertLines
  <1>0. /\ inserting' \cup filled' \cup posted' \subseteq Note
        /\ UNCHANGED <<formOf, moved, approvals, sought, job, shown, fetched, stored, told, unsure, raced>>
    <2>1. filled' \subseteq filled \cup {n} /\ inserting' \subseteq inserting /\ posted' = posted
      BY <1>1
    <2>2. inserting' \cup filled' \cup posted' \subseteq Note
      BY <2>1 DEF DeskTypeOK
    <2>3. UNCHANGED <<formOf, moved, approvals, sought, job, shown, fetched, stored, told, unsure, raced>>
      BY <1>1 DEF rows, histories
    <2>4. QED
      BY <2>2, <2>3
  <1>2. n \in Note \ Unused /\ filled' \subseteq Note /\ v \in {"ok", "refused"}
    BY <1>1 DEF DeskPart, TablesInStep, DeskTypeOK
  <1>3. TablesInStep'
    <2>1. Unused' = Unused
      BY <1>1 DEF Unused
    <2>2. inserting' \cup filled' \subseteq Note \ Unused' /\ filled \subseteq filled'
      BY <1>1, <1>2, <2>1 DEF DeskPart, TablesInStep
    <2>3. QED
      BY <1>1, <2>2 DEF DeskPart, TablesInStep, IsTransfer, Handled, histories
  <1>4. CASE Awaits("form", n)
    <2>1. Answer(v)
      BY <1>4 DEF InsertLines
    <2>2. /\ Asks("form") /\ ~Asks("note") /\ awaited = n /\ awaited # Null /\ formOf[n] = asked.form
          /\ phase["click"] = "serving" /\ verdict = "none" /\ asked.form.wish \notin told
          /\ asked.key = Null
      BY <1>4, AskedType DEF Awaits, DeskPart, ClickInStep, AskedIsTyped, DeskTypeOK
    <2>3. /\ phase'["click"] = "answered" /\ phase'["list"] = phase["list"]
          /\ verdict' = v /\ awaited' = Null /\ asked' = asked
      <3> HIDE DEF v
      <3>1. QED
        BY <2>1, Answers DEF DeskTypeOK
    <2>4. Asks("form")' /\ ~Asks("note")'
      BY <2>2, <2>3 DEF Asks
    <2>5. DeskTypeOK'
      <3> HIDE DEF v
      <3>1. QED
        BY <1>0, <1>2, <2>2, <2>3 DEF DeskTypeOK
    <2>6. ClickInStep'
      BY <1>1, <2>2, <2>3, <2>4 DEF DeskPart, ClickInStep, histories
    <2>7. RacesKnown'
      BY <1>1 DEF DeskPart, RacesKnown, histories
    <2>8. CreationsKnown'
      <3>1. ASSUME NEW m \in inserting' PROVE formOf'[m].wish \in unsure'
        BY <1>1, <2>2, <3>1 DEF DeskPart, CreationsKnown, Awaits, histories
      <3>2. ASSUME NEW m \in filled, formOf[m].wish \notin unsure
            PROVE  formOf[m].wish \in told
        BY <2>2, <3>2 DEF DeskPart, CreationsKnown, Created
      <3>3. ASSUME NEW m \in filled' PROVE Created(m)'
        <4>1. CASE m \in filled
          BY <1>1, <3>2, <4>1 DEF Created, histories
        <4>2. CASE m = n /\ fits
          BY <2>2, <2>3, <2>4, <4>2, <1>1 DEF Created
        <4>3. QED
          BY <1>1, <4>1, <4>2
      <3>4. ASSUME NEW k \in filled', NEW m \in filled', k # m, formOf'[k].wish = formOf'[m].wish,
                   formOf[k].wish \notin unsure
            PROVE  FALSE
        <4>1. CASE k \in filled /\ m \in filled
          BY <1>1, <3>4, <4>1 DEF DeskPart, CreationsKnown
        <4>2. CASE k \in filled /\ m = n
          BY <1>1, <2>2, <3>2, <3>4, <4>2
        <4>3. CASE m \in filled /\ k = n
          BY <1>1, <2>2, <3>2, <3>4, <4>3
        <4>4. QED
          BY <1>1, <3>4, <4>1, <4>2, <4>3
      <3>5. QED
        BY <1>1, <3>1, <3>3, <3>4 DEF CreationsKnown, histories
    <2>9. QED
      BY <1>3, <2>5, <2>6, <2>7, <2>8 DEF DeskPart
  <1>5. CASE ~Awaits("form", n)
    <2>1. UNCHANGED <<sessionVars, asked, awaited, verdict>>
      BY <1>5 DEF InsertLines, NoAnswer
    <2>2. formOf[n].wish \in unsure
      BY <1>1, <1>5 DEF DeskPart, CreationsKnown
    <2>3. phase' = phase
      BY <2>1 DEF sessionVars, promises
    <2>4. DeskTypeOK'
      BY <1>0, <2>1, <2>3 DEF DeskTypeOK
    <2>5. ClickInStep'
      <3>1. Unused' = Unused /\ filled \subseteq filled'
        BY <1>1 DEF Unused
      <3>2. Asks("form") /\ awaited # Null => awaited \in inserting' /\ formOf'[awaited] = asked.form
        BY <1>1, <1>5 DEF DeskPart, ClickInStep, Awaits
      <3>3. Asks("form") /\ verdict = "ok" => \E m \in filled' : formOf'[m].wish = asked.form.wish
        BY <1>1, <3>1 DEF DeskPart, ClickInStep
      <3>4. QED
        BY <1>1, <2>1, <2>3, <3>1, <3>2, <3>3
        DEF DeskPart, ClickInStep, Asks, Handled, IsTransfer, histories
    <2>6. RacesKnown'
      BY <1>1 DEF DeskPart, RacesKnown, histories
    <2>7. CreationsKnown'
      <3>1. ASSUME NEW m \in inserting' PROVE formOf'[m].wish \in unsure' \/ Awaits("form", m)'
        BY <1>1, <2>1, <3>1 DEF DeskPart, CreationsKnown, Awaits, Asks, histories
      <3>2. ASSUME NEW m \in filled' PROVE Created(m)'
        BY <1>1, <2>1, <2>2, <3>2 DEF DeskPart, CreationsKnown, Created, Asks, histories
      <3>3. ASSUME NEW k \in filled', NEW m \in filled', k # m, formOf'[k].wish = formOf'[m].wish
            PROVE  formOf'[k].wish \in unsure'
        BY <1>1, <2>2, <3>3 DEF DeskPart, CreationsKnown, histories
      <3>4. QED
        BY <3>1, <3>2, <3>3 DEF CreationsKnown
    <2>8. QED
      BY <1>3, <2>4, <2>5, <2>6, <2>7 DEF DeskPart
  <1>6. QED
    BY <1>4, <1>5
-----------------------------------------------------------------------------
(* A posting that begins: what it will do is true of its note, and if      *)
(* somebody else has got as far the note is in a race.                     *)
LEMMA BeginsTables ==
  ASSUME DeskTypeOK, TablesInStep, RacesKnown, NEW j \in Job, Begins(j), Asks("note"),
         UNCHANGED <<tables, told>>
  PROVE  /\ TablesInStep' /\ RacesKnown'
         /\ job' \in [Job -> {Free} \cup Posts] /\ raced' \subseteq Note
         /\ job[j] = Free /\ \A i \in Job \ {j} : job'[i] = job[i]
         /\ job'[j].note = asked.note /\ job'[j].key = asked.key /\ job'[j] # Free
  <1> DEFINE new == job'[j]
             n == asked.note
  <1>1. n \in Note /\ asked.key \in PostKey
    BY AskedType DEF AskedIsTyped
  <1>2. /\ job[j] = Free /\ n \in filled
        /\ raced' = raced \cup IF UnderWay(n) THEN {n} ELSE {}
    BY DEF Begins, Races
  <1>3. /\ \A i \in Job \ {j} : job'[i] = job[i]
        /\ new.note = n /\ new.key = asked.key
        /\ new.pc \in {"posting", "repeating", "committed"}
        /\ new \in Posts /\ new # Free /\ job' \in [Job -> {Free} \cup Posts]
        /\ new.pc = "committed" => n \in posted
        /\ new.pc = "repeating" => moved[n] > 0
        /\ new.pc = "posting" => n \notin posted /\ ~(moved[n] > 0)
    BY <1>1 DEF Begins, DeskTypeOK, Posts, Free
  <1> HIDE DEF new
  <1>4. n \in posted => Handled(n)
    BY <1>1 DEF TablesInStep, Handled
  <1>5. \A m \in Note : (Handled(m)' <=> Handled(m)) /\ (IsTransfer(m)' <=> IsTransfer(m))
    BY DEF Handled, IsTransfer, tables
  <1>6. \A i \in Job : job'[i] # Free =>
          /\ job'[i].note \in filled'
          /\ job'[i].pc = "repeating" => moved'[job'[i].note] > 0
          /\ job'[i].pc = "committed" => Handled(job[i].note)'
    BY <1>1, <1>2, <1>3, <1>4, <1>5, JobType DEF TablesInStep, tables, new
  <1>7. TablesInStep'
    BY <1>5, <1>6 DEF TablesInStep, tables, Unused
  <1>8. RacesKnown'
    <2>1. \A i \in Job \ {j} : job[i].pc = "posting" /\ job[i].note = n => n \in raced'
      BY <1>2 DEF UnderWay
    <2>2. raced \subseteq raced' /\ moved' = moved
      BY <1>2 DEF tables
    <2>3. \A i \in Job : job'[i].pc = "posting" /\ moved'[job'[i].note] > 0 => job'[i].note \in raced'
      BY <1>3, <2>2 DEF RacesKnown, new
    <2>4. ASSUME NEW i \in Job, NEW k \in Job, i # k, job'[i].pc = "posting", job'[k].pc = "posting",
                 job'[i].note = job'[k].note
          PROVE  job'[k].note \in raced'
      <3>1. CASE i = j
        BY <1>3, <2>1, <2>4, <3>1 DEF new
      <3>2. CASE k = j
        BY <1>3, <2>1, <2>4, <3>2 DEF new
      <3>3. CASE i # j /\ k # j
        BY <1>3, <2>2, <2>4, <3>3 DEF RacesKnown
      <3>4. QED
        BY <3>1, <3>2, <3>3
    <2>5. QED
      BY <2>2, <2>3, <2>4 DEF RacesKnown
  <1>9. QED
    BY <1>1, <1>2, <1>3, <1>7, <1>8 DEF new, DeskTypeOK

(* A job begins, and the click awaits it. *)
LEMMA BeginPostStep ==
  ASSUME DeskTypeOK, DeskPart, SessionTypeOK', NEW j \in Job, BeginPost(j)
  PROVE  DeskTypeOK' /\ DeskPart'
  <1>1. /\ phase["click"] = "calling" /\ phase'["click"] = "serving" /\ phase'["list"] = phase["list"]
    BY Served, SlotNames DEF BeginPost, DeskTypeOK
  <1>2. /\ Asks("note") /\ ~Asks("form") /\ awaited = Null /\ verdict = "none" /\ j # Null
        /\ awaited' = j /\ UNCHANGED <<tables, rows, asked, verdict, stored, told, unsure>>
    BY <1>1, AskedType DEF BeginPost, DeskPart, ClickInStep, DeskTypeOK, AskedIsTyped, Job
  <1>3. Asks("note")' /\ ~Asks("form")'
    BY <1>2 DEF Asks
  <1>4. /\ TablesInStep' /\ RacesKnown'
        /\ job' \in [Job -> {Free} \cup Posts] /\ raced' \subseteq Note
        /\ job[j] = Free /\ \A i \in Job \ {j} : job'[i] = job[i]
        /\ job'[j].note = asked.note /\ job'[j].key = asked.key /\ job'[j] # Free
    <2>1. Begins(j) /\ TablesInStep /\ RacesKnown
      BY DEF BeginPost, DeskPart
    <2>2. QED
      BY <1>2, <2>1, BeginsTables
  <1>5. DeskTypeOK'
    BY <1>1, <1>2, <1>4 DEF DeskTypeOK, tables, rows
  <1>6. ClickInStep'
    <2>1. asked.key \in stored => Handled(asked.note)'
      BY <1>2 DEF DeskPart, ClickInStep, Handled, IsTransfer, tables
    <2>2. QED
      BY <1>1, <1>2, <1>3, <1>4, <2>1 DEF DeskPart, ClickInStep
  <1>7. CreationsKnown'
    BY <1>2, <1>3 DEF DeskPart, CreationsKnown, Created, Awaits, tables
  <1>8. QED
    BY <1>4, <1>5, <1>6, <1>7 DEF DeskPart

(* A second delivery of the request begins a job that nobody awaits. *)
LEMMA ResendStep ==
  ASSUME DeskTypeOK, DeskPart, SessionTypeOK', NEW j \in Job, Resend(j)
  PROVE  DeskTypeOK' /\ DeskPart'
  <1>1. /\ Asks("note") /\ ~Asks("form") /\ asked.note \in Note /\ phase' = phase
        /\ UNCHANGED <<tables, rows, click, told, unsure>>
    BY AskedType DEF Resend, AskedIsTyped, promises
  <1>2. asked' = asked /\ awaited' = awaited /\ verdict' = verdict /\ stored' = stored
    BY <1>1 DEF click
  <1>3. Asks("note")' /\ ~Asks("form")'
    BY <1>1, <1>2 DEF Asks
  <1>4. /\ TablesInStep' /\ RacesKnown'
        /\ job' \in [Job -> {Free} \cup Posts] /\ raced' \subseteq Note
        /\ job[j] = Free /\ \A i \in Job \ {j} : job'[i] = job[i]
        /\ job'[j].note = asked.note /\ job'[j].key = asked.key /\ job'[j] # Free
    <2>1. Begins(j) /\ TablesInStep /\ RacesKnown
      BY DEF Resend, DeskPart
    <2>2. QED
      BY <1>1, <2>1, BeginsTables
  <1>5. DeskTypeOK'
    BY <1>1, <1>2, <1>4 DEF DeskTypeOK, tables, rows
  <1>6. ClickInStep'
    <2>1. Handled(asked.note) => Handled(asked.note)'
      BY <1>1, <1>2 DEF Handled, IsTransfer, tables
    <2>2. QED
      BY <1>1, <1>2, <1>3, <1>4, <2>1 DEF DeskPart, ClickInStep
  <1>7. CreationsKnown'
    BY <1>1, <1>3 DEF DeskPart, CreationsKnown, Created, Awaits, tables
  <1>8. QED
    BY <1>4, <1>5, <1>6, <1>7 DEF DeskPart

-----------------------------------------------------------------------------
(* What posts, submits or decides a note leaves the click as it is: the    *)
(* note of every job stays, what was moved or asked for stays so.          *)
LEMMA ClickStays ==
  ASSUME DeskTypeOK, DeskPart, TablesInStep', RacesKnown',
         UNCHANGED <<sessionVars, formOf, inserting, filled, rows, click, told, unsure>>,
         moved' \in [Note -> Nat], approvals' \in [Note -> Nat], posted' \subseteq Note,
         sought \subseteq sought', sought' \subseteq Note, raced' \subseteq Note,
         \A m \in Note : moved[m] > 0 => moved'[m] > 0,
         job' \in [Job -> {Free} \cup Posts],
         \A i \in Job : /\ job'[i].note = job[i].note /\ job'[i].key = job[i].key
                        /\ job[i] # Free => job'[i] # Free
  PROVE  DeskTypeOK' /\ DeskPart'
  <1>1. phase' = phase /\ asked' = asked /\ awaited' = awaited /\ verdict' = verdict /\ stored' = stored
    BY DEF sessionVars, promises, click
  <1>2. SessionTypeOK'
    BY DEF DeskTypeOK, SessionTypeOK, sessionVars, server, page, promises, past
  <1>3. DeskTypeOK'
    BY <1>1, <1>2 DEF DeskTypeOK, rows
  <1>4. Unused' = Unused /\ (Asks("form")' <=> Asks("form")) /\ (Asks("note")' <=> Asks("note"))
    BY <1>1 DEF Unused, Asks
  <1>5. Asks("note") /\ Handled(asked.note) => Handled(asked.note)'
    BY <1>1, AskedType DEF AskedIsTyped, Handled, IsTransfer
  <1>6. ClickInStep'
    BY <1>1, <1>4, <1>5 DEF DeskPart, ClickInStep
  <1>7. CreationsKnown'
    BY <1>1, <1>4 DEF DeskPart, CreationsKnown, Created, Awaits
  <1>8. QED
    BY <1>3, <1>6, <1>7 DEF DeskPart

(* A job that is under way takes its last step: it is done then, and the   *)
(* note it posts has lines.                                                *)
LEMMA JobDone ==
  ASSUME DeskTypeOK, DeskPart, NEW j \in Job, job[j].pc \in {"posting", "repeating"},
         job' = [job EXCEPT ![j].pc = "committed"]
  PROVE  /\ job[j].note \in Note /\ job[j].note \in filled /\ job[j] # Free
         /\ job' \in [Job -> {Free} \cup Posts]
         /\ job'[j].note = job[j].note /\ job'[j].key = job[j].key
         /\ job'[j].pc = "committed" /\ job'[j] # Free
         /\ \A i \in Job \ {j} : job'[i] = job[i]
  <1>1. job[j] # Free /\ job[j] \in Posts
    BY DEF DeskTypeOK, Free
  <1>2. job[j].note \in Note /\ job[j].note \in filled
    BY <1>1, JobType DEF DeskPart, TablesInStep
  <1>3. [job[j] EXCEPT !.pc = "committed"] \in Posts
    BY <1>1 DEF Posts
  <1>4. /\ job'[j] = [job[j] EXCEPT !.pc = "committed"]
        /\ \A i \in Job \ {j} : job'[i] = job[i]
    BY DEF DeskTypeOK
  <1>5. /\ job'[j].note = job[j].note /\ job'[j].key = job[j].key /\ job'[j].pc = "committed"
        /\ job'[j] # Free
    BY <1>1, <1>4 DEF Posts, Free
  <1>6. job' \in [Job -> {Free} \cup Posts]
    <2>1. job' = [job EXCEPT ![j] = [job[j] EXCEPT !.pc = "committed"]]
      OBVIOUS
    <2>2. QED
      BY <1>3, <2>1 DEF DeskTypeOK
  <1>7. QED
    BY <1>1, <1>2, <1>4, <1>5, <1>6

(* The movements, the status and the end of the transaction. *)
LEMMA CommitPostStep ==
  ASSUME DeskTypeOK, DeskPart, NEW j \in Job, CommitPost(j)
  PROVE  DeskTypeOK' /\ DeskPart'
  <1> DEFINE n == job[j].note
  <1>1. /\ job[j].pc \in {"posting", "repeating"} /\ job' = [job EXCEPT ![j].pc = "committed"]
        /\ moved' = IF job[j].pc = "posting" THEN [moved EXCEPT ![n] = @ + 1] ELSE moved
        /\ posted' = posted \cup {n}
        /\ UNCHANGED <<sessionVars, formOf, inserting, filled, approvals, sought, rows, click, histories>>
    BY DEF CommitPost
  <1>2. /\ n \in Note /\ n \in filled /\ job[j] # Free
        /\ job' \in [Job -> {Free} \cup Posts]
        /\ job'[j].note = n /\ job'[j].key = job[j].key
        /\ job'[j].pc = "committed" /\ job'[j] # Free
        /\ \A i \in Job \ {j} : job'[i] = job[i]
    BY <1>1, JobDone
  <1>3. job[j].pc = "repeating" => moved[n] > 0
    BY <1>2 DEF DeskPart, TablesInStep
  <1> HIDE DEF n
  <1>4. /\ moved' \in [Note -> Nat] /\ moved'[n] > 0 /\ \A m \in Note \ {n} : moved'[m] = moved[m]
        /\ \A m \in Note : moved[m] > 0 => moved'[m] > 0
        /\ moved'[n] = moved[n] \/ (job[j].pc = "posting" /\ moved'[n] = moved[n] + 1)
    BY <1>1, <1>2, <1>3 DEF DeskTypeOK
  <1>5. /\ UNCHANGED <<formOf, inserting, filled, approvals, sought, told, unsure, raced>>
        /\ Unused' = Unused
    BY <1>1 DEF histories, Unused
  <1>6. \A m \in Note : /\ IsTransfer(m)' <=> IsTransfer(m)
                        /\ Handled(m) => Handled(m)'
    BY <1>4, <1>5, StaysHandled DEF IsTransfer
  <1>7. TablesInStep'
    <2>1. ASSUME NEW m \in Note
          PROVE  /\ moved'[m] > 0 => m \in filled'
                 /\ m \in posted' => moved'[m] > 0
                 /\ moved'[m] > 0 /\ ~IsTransfer(m)' => m \in posted'
                 /\ approvals'[m] > 0 => m \in sought'
                 /\ m \in sought' => m \in filled' /\ IsTransfer(m)'
      BY <1>1, <1>2, <1>4, <1>5, <1>6 DEF DeskPart, TablesInStep
    <2>2. ASSUME NEW i \in Job, job'[i] # Free
          PROVE  /\ job'[i].note \in filled'
                 /\ job'[i].pc = "repeating" => moved'[job'[i].note] > 0
                 /\ job'[i].pc = "committed" => Handled(job[i].note)'
      <3>1. CASE i = j
        BY <1>2, <1>4, <1>5, <3>1 DEF Handled
      <3>2. CASE i # j
        BY <1>2, <1>4, <1>5, <2>2, <3>2, JobType DEF DeskPart, TablesInStep, Handled, IsTransfer
      <3>3. QED
        BY <3>1, <3>2
    <2>3. posted' \subseteq filled'
      BY <1>1, <1>2, <1>5 DEF DeskPart, TablesInStep
    <2>4. QED
      BY <1>5, <2>1, <2>2, <2>3 DEF DeskPart, TablesInStep
  <1>8. RacesKnown'
    <2>1. ASSUME NEW i \in Job, job'[i].pc = "posting", moved'[job'[i].note] > 0
          PROVE  job'[i].note \in raced'
      <3>1. i # j /\ job'[i] = job[i]
        BY <1>2, <2>1
      <3>2. CASE job[i].note = n /\ job[j].pc = "posting"
        BY <1>5, <2>1, <3>1, <3>2 DEF DeskPart, RacesKnown, n
      <3>3. CASE job[i].note # n \/ job[j].pc # "posting"
        <4>1. job[i].note \in Note
          BY <2>1, <3>1, JobType
        <4>2. moved[job[i].note] > 0
          BY <1>1, <1>4, <2>1, <3>1, <3>3, <4>1
        <4>3. QED
          BY <1>5, <2>1, <3>1, <4>2 DEF DeskPart, RacesKnown
      <3>4. QED
        BY <3>2, <3>3
    <2>2. ASSUME NEW m \in Note, moved'[m] > 1 PROVE m \in raced'
      <3>1. CASE m = n /\ job[j].pc = "posting"
        <4>1. moved[n] > 0
          BY <1>2, <1>4, <2>2, <3>1 DEF DeskTypeOK
        <4>2. QED
          BY <1>5, <3>1, <4>1 DEF DeskPart, RacesKnown, n
      <3>2. CASE m # n \/ job[j].pc # "posting"
        BY <1>1, <1>4, <1>5, <2>2, <3>2 DEF DeskPart, RacesKnown
      <3>3. QED
        BY <3>1, <3>2
    <2>3. QED
      BY <1>2, <1>5, <2>1, <2>2 DEF DeskPart, RacesKnown
  <1>9. \A i \in Job : /\ job'[i].note = job[i].note /\ job'[i].key = job[i].key
                        /\ job[i] # Free => job'[i] # Free
    BY <1>2 DEF n
  <1>10. approvals' \in [Note -> Nat] /\ sought' \subseteq Note /\ raced' \subseteq Note /\ posted' \subseteq Note
    BY <1>1, <1>2, <1>5 DEF DeskTypeOK
  <1>11. QED
    BY <1>1, <1>2, <1>4, <1>5, <1>7, <1>8, <1>9, <1>10, ClickStays

(* A transfer above its threshold: an approval, and no movement. *)
LEMMA AskApprovalStep ==
  ASSUME DeskTypeOK, DeskPart, NEW j \in Job, AskApproval(j)
  PROVE  DeskTypeOK' /\ DeskPart'
  <1> DEFINE n == job[j].note
  <1>1. /\ job[j].pc \in {"posting", "repeating"} /\ job' = [job EXCEPT ![j].pc = "committed"]
        /\ IsTransfer(n) /\ approvals' = [approvals EXCEPT ![n] = @ + 1]
        /\ sought' = sought \cup {n} /\ posted' = posted \ {n}
        /\ UNCHANGED <<sessionVars, formOf, inserting, filled, moved, rows, click, histories>>
    BY DEF AskApproval
  <1>2. /\ n \in Note /\ n \in filled /\ job[j] # Free
        /\ job' \in [Job -> {Free} \cup Posts]
        /\ job'[j].note = n /\ job'[j].key = job[j].key
        /\ job'[j].pc = "committed" /\ job'[j] # Free
        /\ \A i \in Job \ {j} : job'[i] = job[i]
    BY <1>1, JobDone
  <1> HIDE DEF n
  <1>3. /\ UNCHANGED <<formOf, inserting, filled, moved, told, unsure, raced>> /\ Unused' = Unused
        /\ sought \subseteq sought'
    BY <1>1 DEF histories, Unused
  <1>4. /\ approvals' \in [Note -> Nat] /\ sought' \subseteq Note /\ raced' \subseteq Note
        /\ posted' \subseteq Note /\ moved' \in [Note -> Nat]
        /\ \A m \in Note \ {n} : approvals'[m] = approvals[m]
    BY <1>1, <1>2, <1>3 DEF DeskTypeOK
  <1>5. \A m \in Note : /\ IsTransfer(m)' <=> IsTransfer(m)
                        /\ Handled(m) => Handled(m)'
    BY <1>3, StaysHandled DEF IsTransfer
  <1>6. TablesInStep'
    <2>1. ASSUME NEW m \in Note
          PROVE  /\ moved'[m] > 0 => m \in filled'
                 /\ m \in posted' => moved'[m] > 0
                 /\ moved'[m] > 0 /\ ~IsTransfer(m)' => m \in posted'
                 /\ approvals'[m] > 0 => m \in sought'
                 /\ m \in sought' => m \in filled' /\ IsTransfer(m)'
      BY <1>1, <1>2, <1>3, <1>4, <1>5 DEF DeskPart, TablesInStep
    <2>2. ASSUME NEW i \in Job, job'[i] # Free
          PROVE  /\ job'[i].note \in filled'
                 /\ job'[i].pc = "repeating" => moved'[job'[i].note] > 0
                 /\ job'[i].pc = "committed" => Handled(job[i].note)'
      <3>1. CASE i = j
        BY <1>1, <1>2, <1>3, <3>1 DEF Handled, IsTransfer
      <3>2. CASE i # j
        BY <1>2, <1>3, <2>2, <3>2, JobType DEF DeskPart, TablesInStep, Handled, IsTransfer
      <3>3. QED
        BY <3>1, <3>2
    <2>3. posted' \subseteq filled'
      BY <1>1, <1>3 DEF DeskPart, TablesInStep
    <2>4. QED
      BY <1>3, <2>1, <2>2, <2>3 DEF DeskPart, TablesInStep
  <1>7. RacesKnown'
    BY <1>2, <1>3 DEF DeskPart, RacesKnown
  <1>8. \A i \in Job : /\ job'[i].note = job[i].note /\ job'[i].key = job[i].key
                       /\ job[i] # Free => job'[i] # Free
    BY <1>2 DEF n
  <1>9. QED
    BY <1>1, <1>2, <1>3, <1>4, <1>6, <1>7, <1>8, ClickStays

(* A manager's decision keeps what is true of every note: only a transfer  *)
(* has approvals, and it moves only if it had not.                         *)
LEMMA DecisionStep ==
  ASSUME DeskTypeOK, DeskPart, NEW n \in Note, Approve(n) \/ Reject(n)
  PROVE  DeskTypeOK' /\ DeskPart'
  <1>1. /\ approvals[n] > 0 /\ approvals' = [approvals EXCEPT ![n] = @ - 1]
        /\ UNCHANGED <<sessionVars, formOf, inserting, filled, sought, job, rows, click, told, unsure>>
    BY DEF Approve, Reject, Decides
  <1>2. IsTransfer(n) /\ n \in filled /\ n \in sought
    BY <1>1 DEF DeskPart, TablesInStep
  <1>3. /\ approvals' \in [Note -> Nat] /\ \A m \in Note : approvals'[m] > 0 => approvals[m] > 0
    BY <1>1 DEF DeskTypeOK
  <1>4. /\ moved' \in [Note -> Nat] /\ \A m \in Note \ {n} : moved'[m] = moved[m]
        /\ moved'[n] = moved[n] \/ (moved[n] = 0 /\ moved'[n] = 1 /\ Approve(n))
        /\ \A m \in Note : moved[m] > 0 => moved'[m] > 0
    BY DEF Approve, Reject, DeskTypeOK
  <1>5. /\ posted' \subseteq posted \cup {n} /\ posted \ {n} \subseteq posted'
        /\ n \in posted' => moved'[n] > 0
    <2>1. CASE Approve(n)
      <3>1. n \in posted => moved[n] > 0
        BY DEF DeskPart, TablesInStep
      <3>2. QED
        BY <2>1, <3>1 DEF Approve, DeskTypeOK
    <2>2. CASE Reject(n)
      BY <2>2 DEF Reject
    <2>3. QED
      BY <2>1, <2>2
  <1>6. /\ raced \subseteq raced' /\ raced' \subseteq Note
        /\ Approve(n) /\ UnderWay(n) => n \in raced'
    BY DEF Approve, Reject, Races, DeskTypeOK
  <1>7. \A m \in Note : /\ IsTransfer(m)' <=> IsTransfer(m)
                        /\ Handled(m) => Handled(m)'
    BY <1>1, <1>4, StaysHandled DEF IsTransfer
  <1>8. TablesInStep'
    <2>1. ASSUME NEW m \in Note
          PROVE  /\ moved'[m] > 0 => m \in filled'
                 /\ m \in posted' => moved'[m] > 0
                 /\ moved'[m] > 0 /\ ~IsTransfer(m)' => m \in posted'
                 /\ approvals'[m] > 0 => m \in sought'
                 /\ m \in sought' => m \in filled' /\ IsTransfer(m)'
      BY <1>1, <1>2, <1>3, <1>4, <1>5, <1>7 DEF DeskPart, TablesInStep
    <2>2. ASSUME NEW i \in Job, job'[i] # Free
          PROVE  /\ job'[i].note \in filled'
                 /\ job'[i].pc = "repeating" => moved'[job'[i].note] > 0
                 /\ job'[i].pc = "committed" => Handled(job[i].note)'
      BY <1>1, <1>4, <1>7, <2>2, JobType DEF DeskPart, TablesInStep
    <2>3. posted' \subseteq filled' /\ Unused' = Unused
      BY <1>1, <1>2, <1>5 DEF DeskPart, TablesInStep, Unused
    <2>4. QED
      BY <1>1, <2>1, <2>2, <2>3 DEF DeskPart, TablesInStep
  <1>9. RacesKnown'
    <2>1. ASSUME NEW i \in Job, job[i].pc = "posting", moved'[job[i].note] > 0
          PROVE  job[i].note \in raced'
      <3>1. job[i].note \in Note
        BY <2>1, JobType
      <3>2. CASE job[i].note = n /\ Approve(n)
        BY <1>6, <2>1, <3>2 DEF UnderWay
      <3>3. CASE ~(job[i].note = n /\ Approve(n))
        BY <1>4, <1>6, <2>1, <3>1, <3>3 DEF DeskPart, RacesKnown
      <3>4. QED
        BY <3>2, <3>3
    <2>2. ASSUME NEW m \in Note, moved'[m] > 1 PROVE m \in raced'
      BY <1>4, <1>6, <2>2 DEF DeskPart, RacesKnown, DeskTypeOK
    <2>3. QED
      BY <1>1, <1>6, <2>1, <2>2 DEF DeskPart, RacesKnown
  <1>10. posted' \subseteq Note /\ job' \in [Job -> {Free} \cup Posts] /\ sought' \subseteq Note
    BY <1>1, <1>5 DEF DeskTypeOK
  <1>11. QED
    BY <1>1, <1>3, <1>4, <1>6, <1>8, <1>9, <1>10, ClickStays

(* A job that ends answers the click that awaits it. *)
LEMMA EndJobStep ==
  ASSUME DeskTypeOK, DeskPart, SessionTypeOK', NEW j \in Job, NEW v \in {"ok", "refused"},
         EndJob(j, v), job[j] # Free, UNCHANGED <<tables, rows, histories>>,
         v = "ok" => Handled(job[j].note),
         stored' = IF v = "ok" THEN stored \cup ({job[j].key} \cap {asked.key}) ELSE stored
  PROVE  DeskTypeOK' /\ DeskPart'
  <1>1. /\ job' = [job EXCEPT ![j] = Free]
        /\ job' \in [Job -> {Free} \cup Posts]
        /\ job'[j] = Free /\ \A i \in Job \ {j} : job'[i] = job[i]
    BY DEF EndJob, DeskTypeOK
  <1>2. job[j].key \in PostKey /\ job[j].note \in Note
    BY JobType
  <1>3. TablesInStep' /\ RacesKnown'
    <2>1. /\ UNCHANGED <<formOf, inserting, filled, posted, moved, approvals, sought, told, raced>>
          /\ \A i \in Job : job'[i] \in {job[i], Free}
      BY <1>1 DEF tables, histories
    <2>2. QED
      BY <2>1, FewerJobs DEF DeskPart
  <1>4. /\ asked' = asked
        /\ Awaits("note", j) => /\ phase'["click"] = "answered" /\ verdict' = v /\ awaited' = Null
                                /\ phase'["list"] = phase["list"]
        /\ ~Awaits("note", j) => phase' = phase /\ verdict' = verdict /\ awaited' = awaited
    BY Answers DEF EndJob, NoAnswer, sessionVars, promises, DeskTypeOK
  <1>5. /\ (Asks("note")' <=> Asks("note")) /\ (Asks("form")' <=> Asks("form"))
        /\ ~(Asks("note") /\ Asks("form"))
    BY <1>4, AskedType DEF Asks, AskedIsTyped
  <1>6. stored' \subseteq {asked.key} \cap PostKey
    BY <1>2 DEF DeskTypeOK
  <1>7. Awaits("note", j) => /\ phase["click"] = "serving" /\ asked.note = job[j].note /\ awaited # Null
                             /\ verdict = "none"
    BY DEF Awaits, DeskPart, ClickInStep, Job, DeskTypeOK
  <1>8. asked.key \in stored' => Asks("note") /\ Handled(asked.note)
    <2>1. asked.key \in stored' => asked.key \in PostKey /\ Asks("note")
      <3>1. asked.key \in PostKey => Asks("note")
        BY AskedType DEF AskedIsTyped, PostKey
      <3>2. QED
        BY <1>6, <3>1
    <2>2. asked.key = job[j].key /\ Asks("note") => asked.note = job[j].note
      BY DEF DeskPart, ClickInStep
    <2>3. QED
      BY <2>1, <2>2 DEF DeskPart, ClickInStep
  <1>9. DeskTypeOK'
    BY <1>1, <1>4, <1>6, <1>7 DEF DeskTypeOK, tables, rows, histories
  <1>10. ClickInStep'
    <2>0. \A n : Handled(n)' <=> Handled(n)
      BY DEF Handled, IsTransfer, tables
    <2>1. CASE Awaits("note", j)
      <3>1. Asks("note") /\ ~Asks("form")
        BY <1>5, <2>1 DEF Awaits
      <3>2. Asks("note")' => \A i \in Job : job'[i].key = asked'.key => job'[i].note = asked'.note
        <4>1. asked.key # Null
          BY <3>1, AskedType DEF AskedIsTyped, PostKey
        <4>2. QED
          BY <1>1, <1>4, <3>1, <4>1 DEF DeskPart, ClickInStep, Free
      <3>3. QED
        BY <1>4, <1>5, <1>7, <1>8, <2>0, <2>1, <3>1, <3>2 DEF DeskPart, ClickInStep, tables
    <2>2. CASE ~Awaits("note", j)
      <3>1. Asks("note") /\ awaited # Null => awaited \in Job \ {j}
        BY <2>2 DEF Awaits, DeskPart, ClickInStep
      <3>2. Asks("note") => \A i \in Job : job'[i].key = asked.key => job'[i].note = asked.note
        <4>1. Asks("note") => asked.key # Null
          BY AskedType DEF AskedIsTyped, PostKey
        <4>2. QED
          BY <1>1, <4>1 DEF DeskPart, ClickInStep, Free
      <3>3. Unused' = Unused
        BY DEF Unused, tables
      <3>4. QED
        BY <1>1, <1>4, <1>5, <1>8, <2>0, <2>2, <3>1, <3>2, <3>3
        DEF DeskPart, ClickInStep, tables, histories
    <2>3. QED
      BY <2>1, <2>2
  <1>11. CreationsKnown'
    BY <1>4, <1>5 DEF DeskPart, CreationsKnown, Created, Awaits, tables, histories
  <1>13. QED
    BY <1>3, <1>9, <1>10, <1>11, <1>11 DEF DeskPart

(* A posting is refused: nothing is stored under its key. *)
LEMMA RefusePostStep ==
  ASSUME DeskTypeOK, DeskPart, SessionTypeOK', NEW j \in Job, RefusePost(j)
  PROVE  DeskTypeOK' /\ DeskPart'
  <1>1. job[j] # Free /\ EndJob(j, "refused") /\ UNCHANGED <<tables, rows, stored, histories>>
    BY JobType DEF RefusePost
  <1>2. QED
    BY <1>1, EndJobStep

(* The answer of a posting is stored under its key. *)
LEMMA StoreKeyStep ==
  ASSUME DeskTypeOK, DeskPart, SessionTypeOK', NEW j \in Job, StoreKey(j)
  PROVE  DeskTypeOK' /\ DeskPart'
  <1>1. /\ job[j] # Free /\ EndJob(j, "ok") /\ UNCHANGED <<tables, rows, histories>>
        /\ job[j].pc = "committed"
        /\ stored' = stored \cup ({job[j].key} \cap {asked.key})
    BY JobType DEF StoreKey
  <1>2. Handled(job[j].note)
    BY <1>1 DEF DeskPart, TablesInStep
  <1>3. QED
    BY <1>1, <1>2, EndJobStep

-----------------------------------------------------------------------------
(* Faults: a process that dies, a connection, the page. *)
LEMMA LostConnection ==
  ASSUME SessionTypeOK, NEW s \in PageSlot, LoseConnection(s)
  PROVE  phase'[s] = "idle" /\ \A o \in Slot \ {s} : phase'[o] = phase[o]
  BY SettleType, SlotNames DEF LoseConnection

(* The process dies before a note has its lines. *)
LEMMA DieCreatingStep ==
  ASSUME DeskTypeOK, DeskPart, SessionTypeOK', NEW n \in Note, DieCreating(n)
  PROVE  DeskTypeOK' /\ DeskPart'
  <1>1. /\ inserting' = inserting \ {n} /\ inserting' \subseteq inserting
        /\ UNCHANGED <<formOf, filled, posted, moved, approvals, sought, shown, told, raced, job>>
    BY DEF DieCreating, Dies
  <1>2. CASE Awaits("form", n)
    <2>1. LoseConnection("click") /\ Forget({"click"})
      BY <1>2 DEF DieCreating, Dies
    <2>2. phase'["click"] = "idle" /\ phase'["list"] # "serving"
      BY <2>1, LostConnection, SlotNames DEF DeskTypeOK, DeskPart, ClickInStep
    <2>3. /\ shown' \subseteq Note
          /\ job' \in [Job -> {Free} \cup Posts]
      BY <1>1 DEF DeskTypeOK
    <2>4. QED
      BY <1>1, <2>1, <2>2, <2>3, Abandoned
  <1>3. CASE ~Awaits("form", n)
    <2>1. phase' = phase /\ UNCHANGED <<fetched, asked, awaited, verdict, stored, unsure>>
      BY <1>3 DEF DieCreating, Dies, promises, click
    <2>2. DeskTypeOK'
      BY <1>1, <2>1 DEF DeskTypeOK
    <2>3. Unused' = Unused /\ (Asks("form")' <=> Asks("form")) /\ (Asks("note")' <=> Asks("note"))
      BY <1>1, <2>1 DEF Unused, Asks
    <2>4. ClickInStep'
      BY <1>1, <1>3, <2>1, <2>3 DEF DeskPart, ClickInStep, Awaits, Handled, IsTransfer
    <2>5. TablesInStep' /\ RacesKnown'
      BY <1>1, FewerJobs DEF DeskPart
    <2>6. CreationsKnown'
      BY <1>1, <2>1, <2>3 DEF DeskPart, CreationsKnown, Created, Awaits
    <2>7. QED
      BY <2>2, <2>4, <2>5, <2>6 DEF DeskPart
  <1>4. QED
    BY <1>2, <1>3

(* The process dies before a job has answered. *)
LEMMA DiePostingStep ==
  ASSUME DeskTypeOK, DeskPart, SessionTypeOK', NEW j \in Job, DiePosting(j)
  PROVE  DeskTypeOK' /\ DeskPart'
  <1>1. /\ job' = [job EXCEPT ![j] = Free]
        /\ UNCHANGED <<formOf, filled, posted, moved, approvals, sought, shown, told, raced, inserting>>
    BY DEF DiePosting, Dies
  <1>2. /\ job' \in [Job -> {Free} \cup Posts]
        /\ job'[j] = Free /\ \A i \in Job \ {j} : job'[i] = job[i]
        /\ \A i \in Job : job'[i] \in {job[i], Free}
    BY <1>1 DEF DeskTypeOK
  <1>3. CASE Awaits("note", j)
    <2>1. LoseConnection("click") /\ Forget({"click"})
      BY <1>3 DEF DiePosting, Dies
    <2>2. phase'["click"] = "idle" /\ phase'["list"] # "serving"
      BY <2>1, LostConnection, SlotNames DEF DeskTypeOK, DeskPart, ClickInStep
    <2>3. shown' \subseteq Note
      BY <1>1 DEF DeskTypeOK
    <2>4. QED
      BY <1>1, <1>2, <2>1, <2>2, <2>3, Abandoned
  <1>4. CASE ~Awaits("note", j)
    <2>1. phase' = phase /\ UNCHANGED <<fetched, asked, awaited, verdict, stored, unsure>>
      BY <1>4 DEF DiePosting, Dies, promises, click
    <2>2. DeskTypeOK'
      BY <1>1, <1>2, <2>1 DEF DeskTypeOK
    <2>3. Unused' = Unused /\ (Asks("form")' <=> Asks("form")) /\ (Asks("note")' <=> Asks("note"))
      BY <1>1, <2>1 DEF Unused, Asks
    <2>4. ClickInStep'
      <3>1. Asks("note") /\ awaited # Null => awaited \in Job \ {j}
        BY <1>4 DEF Awaits, DeskPart, ClickInStep
      <3>2. Asks("note") => asked.key # Null
        BY AskedType DEF AskedIsTyped, PostKey
      <3>3. QED
        BY <1>1, <1>2, <2>1, <2>3, <3>1, <3>2
        DEF DeskPart, ClickInStep, Handled, IsTransfer, Free
    <2>5. TablesInStep' /\ RacesKnown'
      BY <1>1, <1>2, FewerJobs DEF DeskPart
    <2>6. CreationsKnown'
      BY <1>1, <2>1, <2>3 DEF DeskPart, CreationsKnown, Created, Awaits
    <2>7. QED
      BY <2>2, <2>4, <2>5, <2>6 DEF DeskPart
  <1>5. QED
    BY <1>3, <1>4

(* A slot gives up, and the screen may close: for the table nothing is     *)
(* unsure.                                                                 *)
LEMMA SlotGone ==
  ASSUME DeskTypeOK, DeskPart, SessionTypeOK', NEW s \in PageSlot, Forget({s}),
         UNCHANGED <<tables, job, told, raced>>, shown' \subseteq Note,
         phase'[s] = "idle", \A o \in Slot \ {s} : phase'[o] = phase[o]
  PROVE  DeskTypeOK' /\ DeskPart'
  <1>1. CASE s = "click"
    <2>1. phase'["click"] = "idle" /\ phase'["list"] # "serving"
      BY <1>1, SlotNames DEF DeskPart, ClickInStep
    <2>2. /\ "click" \in {s} /\ UNCHANGED <<formOf, filled, posted, moved, approvals, sought, told, raced>>
          /\ inserting' \subseteq inserting /\ \A j \in Job : job'[j] \in {job[j], Free}
          /\ job' \in [Job -> {Free} \cup Posts]
      BY <1>1 DEF tables, DeskTypeOK
    <2>3. QED
      BY <2>1, <2>2, Abandoned
  <1>2. CASE s = "list"
    <2>1. fetched' \subseteq Note /\ UNCHANGED <<click, histories>>
      BY <1>2, SlotNames DEF Forget, histories, DeskTypeOK
    <2>2. phase'["click"] = phase["click"] /\ phase'["list"] # "serving"
      BY <1>2, SlotNames
    <2>3. QED
      BY <2>1, <2>2, ClickUnmoved
  <1>3. QED
    BY <1>1, <1>2

(* A request of the page comes to its end without an answer. *)
LEMMA FailsStep ==
  ASSUME DeskTypeOK, DeskPart, SessionTypeOK', NEW s \in PageSlot, Fails(s) \/ Disconnect(s)
  PROVE  DeskTypeOK' /\ DeskPart'
  <1>1. phase'[s] = "idle" /\ \A o \in Slot \ {s} : phase'[o] = phase[o]
    <2>1. SessionTypeOK /\ s \in Slot
      BY SlotNames DEF DeskTypeOK
    <2>2. CASE Fails(s)
      BY <2>1, <2>2, SettleType DEF Fails, AuthLost, RefusedAgain
    <2>3. CASE Disconnect(s)
      BY <2>1, <2>3, LostConnection DEF Disconnect
    <2>4. QED
      BY <2>2, <2>3
  <1>2. Forget({s}) /\ UNCHANGED <<tables, job, told, raced>> /\ shown' \subseteq Note
    BY DEF Fails, Disconnect, Closes, DeskTypeOK
  <1>3. QED
    BY <1>1, <1>2, SlotGone

(* The page is loaded again: no answer is awaited any more. *)
LEMMA LoadAgainStep ==
  ASSUME DeskTypeOK, DeskPart, SessionTypeOK', LoadAgain
  PROVE  DeskTypeOK' /\ DeskPart'
  <1>1. phase'["click"] = "idle" /\ phase'["list"] = "idle"
    BY SlotNames DEF LoadAgain, Reload
  <1>2. /\ Forget(PageSlot) /\ "click" \in PageSlot /\ UNCHANGED <<formOf, filled, posted, moved, approvals, sought, told, raced>>
        /\ inserting' \subseteq inserting /\ \A j \in Job : job'[j] \in {job[j], Free}
        /\ job' \in [Job -> {Free} \cup Posts]
        /\ shown' \subseteq Note
    BY DEF LoadAgain, tables, DeskTypeOK
  <1>3. QED
    BY <1>1, <1>2, Abandoned

(* The steps of the session that are none of the desk's requests. *)
LEMMA ElsewhereStep ==
  ASSUME DeskTypeOK, DeskPart, SessionTypeOK',
         \/ Store
         \/ AuthFails /\ Follows
         \/ Elapse /\ UNCHANGED deskVars
         \/ (\E what \in {"login", "logout"} : Ask(what)) /\ UNCHANGED deskVars
  PROVE  DeskTypeOK' /\ DeskPart'
  <1>1. ASSUME StoreProceeds \/ AuthFails \/ Elapse \/ Ask("login") \/ Ask("logout")
        PROVE  phase'["click"] = phase["click"] /\ phase'["list"] = phase["list"]
    <2> "auth" # "click" /\ "auth" # "list" /\ "auth" \in Slot
      BY DEF Slot
    <2> USE SlotNames
    <2>1. CASE Proceed("auth")
      BY <2>1, SettleType DEF Proceed, StartRefresh, SendRefresh, CheckRefresh, Rotate,
           Refreshed,
           AuthLost, RefusedAgain, Go, DeskTypeOK, SessionTypeOK
    <2>2. CASE Bootstrap \/ ServeAuth \/ Ask("login") \/ Ask("logout")
      BY <2>2 DEF Bootstrap, SendRefresh, ServeAuth, Reach, Ask, Call, Go, DeskTypeOK,
           SessionTypeOK
    <2>3. CASE SignedIn \/ Identified \/ SignedOut \/ AuthRefused \/ AuthFails
      BY <2>3, SettleType DEF SignedIn, Identified, SignedOut, AuthRefused, AuthFails,
           StoreFails,
           DeskTypeOK
    <2>4. CASE Elapse
      BY <2>4 DEF Elapse, ExpireAccess, ExpireRefresh, Deactivate, promises
    <2>5. QED
      BY <1>1, <2>1, <2>2, <2>3, <2>4 DEF StoreProceeds
  <1>2. phase'["click"] = phase["click"] /\ phase'["list"] = phase["list"]
    BY <1>1 DEF Store
  <1>3. UNCHANGED <<tables, job, click, histories>> /\ shown' \cup fetched' \subseteq Note
    BY DEF Store, Follows, Closes, deskVars, rows, DeskTypeOK
  <1>4. QED
    BY <1>2, <1>3, ClickUnmoved DEF DeskPart, ClickInStep

(* A request refreshes the session on its way. *)
LEMMA ResumeStep ==
  ASSUME DeskTypeOK, DeskPart, SessionTypeOK', NEW s \in PageSlot, Resume(s)
  PROVE  DeskTypeOK' /\ DeskPart'
  <1>1. /\ ClickPhase(phase'[s]) = ClickPhase(phase[s]) /\ phase'[s] # "serving"
        /\ \A o \in Slot \ {s} : phase'[o] = phase[o]
    BY SlotNames DEF Resume, StartRefresh, SendRefresh, Unauthorized, CheckRefresh,
         Rotate, Refreshed,
       Go, ClickPhase, Refreshing, DeskTypeOK, SessionTypeOK
  <1>2. ClickPhase(phase'["click"]) = ClickPhase(phase["click"]) /\ phase'["list"] # "serving"
    BY <1>1, SlotNames DEF DeskPart, ClickInStep
  <1>3. UNCHANGED <<tables, job, click, histories>> /\ shown' \cup fetched' \subseteq Note
    BY DEF Resume, deskVars, rows, DeskTypeOK
  <1>4. QED
    BY <1>2, <1>3, ClickUnmoved

(* The table is fetched. *)
LEMMA ListStep ==
  ASSUME DeskTypeOK, DeskPart, SessionTypeOK', FetchList \/ ServeList \/ ShowList
  PROVE  DeskTypeOK' /\ DeskPart'
  <1>1. phase'["click"] = phase["click"] /\ phase'["list"] # "serving"
    BY SlotNames, Sent, Served, AnswerTaken DEF FetchList, ServeList, ShowList, DeskTypeOK
  <1>2. UNCHANGED <<tables, job, click, histories>> /\ shown' \cup fetched' \subseteq Note
    BY DEF FetchList, ServeList, ShowList, deskVars, rows, DeskTypeOK, Unposted
  <1>3. QED
    BY <1>1, <1>2, ClickUnmoved

-----------------------------------------------------------------------------
(* Whatever the desk does is a step of its session, or leaves that alone. *)
LEMMA DeskIsInSession ==
  ASSUME DeskTypeOK, DeskPart, [DeskNext]_allVars
  PROVE  SessionStep \/ UNCHANGED sessionVars
  <1> USE SlotNames
  <1>0. SessionTypeOK
    BY DEF DeskTypeOK
  <1>1. CASE Store \/ \E what \in {"login", "logout"} : Ask(what)
    BY <1>1, SlotFacts DEF Store, StoreProceeds, SessionStep
  <1>2. CASE Elapse \/ AuthFails \/ LoadAgain \/ (\E s \in PageSlot : Disconnect(s))
    BY <1>2 DEF Elapse, LoadAgain, Disconnect, SessionStep
  <1>3. ASSUME NEW what, NEW x, Dies(what, x) PROVE SessionStep
    BY <1>3 DEF Dies, SessionStep
  <1>4. CASE \E j \in Job : Resend(j)
    BY <1>4 DEF Resend, SessionStep
  <1>5. CASE (\E s \in PageSlot : Send(s)) \/ FetchList \/ ClickCreate \/ \E n \in Note : ClickPost(n)
    BY <1>0, <1>5, Sent DEF FetchList, ClickCreate, ClickPost, SessionStep
  <1>6. CASE \E s \in PageSlot : Resume(s) \/ Fails(s)
    BY <1>6 DEF Resume, Fails, SessionStep, Proceed
  <1>7. CASE \/ ServeList \/ ShowList \/ CreateHeader \/ TakeAnswer \/ \E j \in Job : BeginPost(j)
    BY <1>0, <1>7, Served, AnswerTaken DEF ServeList, ShowList, CreateHeader,
         TakeAnswer, BeginPost,
       SessionStep
  <1>8. CASE RefuseCreate \/ AnswerAtOnce
    BY <1>0, <1>8, Answers DEF RefuseCreate, AnswerAtOnce, Authorized, SessionStep
  <1>9. ASSUME NEW n \in Note, InsertLines(n) PROVE SessionStep \/ UNCHANGED sessionVars
    <2>1. Awaits("form", n) => phase["click"] = "serving"
      BY DEF Awaits, DeskPart, ClickInStep
    <2>2. QED
      BY <1>0, <1>9, <2>1, Answers DEF InsertLines, NoAnswer, SessionStep
  <1>10. ASSUME NEW j \in Job, JobStep(j) PROVE SessionStep \/ UNCHANGED sessionVars
    <2>1. Awaits("note", j) => phase["click"] = "serving"
      BY DEF Awaits, DeskPart, ClickInStep, Job
    <2>2. QED
      BY <1>0, <1>10, <2>1, Answers
      DEF JobStep, CommitPost, AskApproval, RefusePost, StoreKey, EndJob, NoAnswer, SessionStep
  <1>11. CASE Manager
    BY <1>11 DEF Manager, Approve, Reject, Decides
  <1>12. CASE UNCHANGED allVars
    BY <1>12 DEF allVars
  <1>13. QED
    BY <1>1, <1>2, <1>3, <1>4, <1>5, <1>6, <1>7, <1>8, <1>9, <1>10, <1>11, <1>12
    DEF DeskNext, User, Faults, SlotStep, DieCreating, DiePosting

(* The invariant of the desk and its session. *)
DeskInv == SessionInv /\ DeskTypeOK /\ DeskPart

(* The desk opens in its invariant. *)
LEMMA DeskInvInit == DeskInit => DeskInv
  <1> SUFFICES ASSUME DeskInit PROVE DeskInv
    OBVIOUS
  <1>1. SessionInv
    BY SessionInvInit DEF DeskInit
  <1>2. asked = Nothing /\ asked.key = Null /\ ~Asks("form") /\ ~Asks("note")
    BY DEF DeskInit, Asks, Nothing
  <1>3. phase["click"] = "idle" /\ phase["list"] = "idle"
    BY SlotNames DEF DeskInit, SessionInit
  <1>4. \A j \in Job : job[j] = Free /\ job[j].pc = "free" /\ job[j].key = Null
    BY DEF DeskInit, Free
  <1>5. DeskTypeOK
    BY <1>1, <1>2, <1>3 DEF DeskInit, DeskTypeOK, SessionInv
  <1>6. ClickInStep /\ CreationsKnown
    BY <1>2, <1>3, <1>4 DEF DeskInit, ClickInStep, CreationsKnown
  <1>7. TablesInStep /\ RacesKnown
    BY <1>4 DEF DeskInit, TablesInStep, RacesKnown
  <1>8. QED
    BY <1>1, <1>5, <1>6, <1>7 DEF DeskInv, DeskPart

(* Every step of the desk keeps its invariant. *)
LEMMA DeskInvStep == DeskInv /\ [DeskNext]_allVars => DeskInv'
  <1> SUFFICES ASSUME DeskInv, [DeskNext]_allVars PROVE DeskInv'
    OBVIOUS
  <1>1. DeskTypeOK /\ DeskPart /\ SessionInv
    BY DEF DeskInv
  <1>2. SessionInv' /\ SessionTypeOK'
    BY <1>1, DeskIsInSession, SessionInvStep DEF SessionInv
  <1> USE <1>1, <1>2
  <1>3. CASE Store
    BY <1>3, ElsewhereStep DEF DeskInv
  <1>4. CASE User
    BY <1>4, ElsewhereStep, ListStep, ClickCreateStep, ClickPostStep DEF User, DeskInv
  <1>5. CASE Faults
    BY <1>5, ElsewhereStep, LoadAgainStep, FailsStep, DieCreatingStep, DiePostingStep,
         ResendStep
    DEF Faults, DeskInv
  <1>6. ASSUME NEW s \in PageSlot, SlotStep(s) PROVE DeskInv'
    BY <1>6, ResumeStep, FailsStep, ListStep, RefuseCreateStep, CreateHeaderStep,
         AnswerAtOnceStep,
       TakeAnswerStep, BeginPostStep
    DEF SlotStep, DeskInv
  <1>7. ASSUME NEW n \in Note, InsertLines(n) PROVE DeskInv'
    BY <1>7, InsertLinesStep DEF DeskInv
  <1>8. ASSUME NEW j \in Job, JobStep(j) PROVE DeskInv'
    BY <1>8, CommitPostStep, AskApprovalStep, RefusePostStep, StoreKeyStep DEF JobStep, DeskInv
  <1>9. CASE UNCHANGED allVars
    <2>1. /\ UNCHANGED <<tables, job, rows, click, histories>> /\ phase' = phase
      BY <1>9 DEF allVars, deskVars, sessionVars, promises
    <2>2. shown' \cup fetched' \subseteq Note
      BY <2>1 DEF rows, DeskTypeOK
    <2>3. phase'["list"] # "serving"
      BY <2>1 DEF DeskPart, ClickInStep
    <2>4. QED
      BY <2>1, <2>2, <2>3, ClickUnmoved DEF DeskInv
  <1>10. CASE Manager
    BY <1>10, DecisionStep DEF Manager, DeskInv
  <1>11. QED
    BY <1>3, <1>4, <1>5, <1>6, <1>7, <1>8, <1>9, <1>10 DEF DeskNext

(* The invariant of the desk, of every reachable state. *)
LEMMA DeskInvariant == DeskSpec => []DeskInv
  BY DeskInvInit, DeskInvStep, PTL DEF DeskSpec

(* The desk and its session are of their types: every note a click makes   *)
(* has a number, every decision takes an approval that is open.            *)
THEOREM DeskTypeCorrect == DeskSpec => []DeskTypeOK
  <1>1. DeskInv => DeskTypeOK
    BY DEF DeskInv
  <1>2. QED
    BY <1>1, DeskInvariant, PTL

(* Nobody is sent to the login page without a reason, and who signed out   *)
(* stays out, whatever the requests of the screen, the store and the       *)
(* faults do in between.                                                   *)
THEOREM SessionsAreExplained == DeskSpec => []SessionIsExplained
  <1>1. DeskInv => SessionIsExplained
    BY InvExplains DEF DeskInv
  <1>2. QED
    BY <1>1, DeskInvariant, PTL

(* What the screen reports as done is done, but for a transfer that has    *)
(* only been submitted for approval; and what the user wanted once moves   *)
(* stock once, unless two were posting it at the same time or the answer   *)
(* to a creation never came.                                               *)
THEOREM NotesTellTheTruth == DeskSpec => []NotesAreTrue
  <1>1. DeskInv => NotesAreTrue
    <2> SUFFICES ASSUME DeskInv PROVE NotesAreTrue
      OBVIOUS
    <2>1. WishMovesOnce
      BY DEF DeskInv, DeskPart, TablesInStep, RacesKnown, CreationsKnown, WishMovesOnce
    <2>2. Asks("note") /\ verdict = "ok" => Handled(asked.note)
      BY DEF DeskInv, DeskPart, ClickInStep
    <2>3. asked.key \in stored => Handled(asked.note)
      <3>1. asked.key \in stored => Asks("note")
        BY AskedType DEF AskedIsTyped, DeskInv, DeskTypeOK, PostKey
      <3>2. QED
        BY <3>1 DEF DeskInv, DeskPart, ClickInStep
    <2>4. QED
      BY <2>1, <2>2, <2>3 DEF NotesAreTrue, SuccessIsTrue, DeskInv, DeskPart, TablesInStep
  <1>2. QED
    BY <1>1, DeskInvariant, PTL
=============================================================================
