------------------------ MODULE RecipeVersionsProofs ------------------------
(***************************************************************************)
(* Proofs about RecipeVersions, for any number of versions, days, orders   *)
(* and concurrent requests.                                                *)
(***************************************************************************)
EXTENDS RecipeVersions, FiniteSetTheorems, WellFoundedInduction, TLAPS

USE RecipeConstants

(* A set of numbers up to n that has a member has a greatest one. *)
LEMMA GreatestExists ==
  ASSUME NEW n \in Nat, NEW S, S \subseteq 1..n, S # {}
  PROVE  Max(S) \in S /\ \A y \in S : y <= Max(S)
  <1> DEFINE R == {ss \in Nat \X Nat : ss[1] < ss[2]}
             T == {n - x : x \in S}
  <1>1. R = OpToRel(<, Nat)
    BY Zenon DEF OpToRel
  <1>2. IsWellFoundedOn(R, Nat)
    BY <1>1, NatLessThanWellFounded, Zenon
  <1>3. \A x, y \in Nat : <<y, x>> \in R <=> y < x
    OBVIOUS
  <1>4. T \subseteq Nat /\ T # {}
    <2>1. \A x \in S : x \in 1..n /\ n - x \in Nat
      OBVIOUS
    <2>2. T \subseteq Nat
      BY <2>1
    <2>3. PICK x \in S : TRUE
      OBVIOUS
    <2>4. n - x \in T
      BY <2>3
    <2>5. QED
      BY <2>2, <2>4
  <1> HIDE DEF R
  <1>5. PICK t \in T : \A y \in T : ~ (<<y, t>> \in R)
    BY <1>2, <1>4, WFMin
  <1>6. PICK x \in S : t = n - x
    OBVIOUS
  <1>7. ASSUME NEW y \in S PROVE y <= x
    <2>1. x \in Nat /\ y \in Nat /\ n - x \in Nat /\ n - y \in T /\ n - y \in Nat
      BY <1>4
    <2>2. ~(n - y < n - x)
      BY <2>1, <1>3, <1>5, <1>6
    <2>3. QED
      BY <2>1, <2>2
  <1>8. \E z \in S : \A y \in S : z >= y
    <2>1. \A y \in S : x \in Int /\ y \in Int
      OBVIOUS
    <2>2. \A y \in S : x >= y
      BY <1>7, <2>1
    <2>3. QED
      BY <2>2
  <1>9. Max(S) \in S /\ \A y \in S : Max(S) >= y
    BY <1>8 DEF Max
  <1>10. QED
    BY <1>9

(* Newest picks the highest number of a set of versions, if it has one. *)
LEMMA NewestType ==
  ASSUME NEW S, S \subseteq Version
  PROVE  /\ S = {} => Newest(S) = None
         /\ S # {} => Newest(S) \in S /\ \A y \in S : y <= Newest(S)
         /\ \A x \in S : (\A y \in S : y = x) => Newest(S) = x
         /\ Newest(S) \in Version \cup {None}
  <1>1. S # {} => Max(S) \in S /\ \A y \in S : y <= Max(S)
    BY GreatestExists DEF Version
  <1>2. QED
    BY <1>1 DEF Newest
-----------------------------------------------------------------------------
Working == {"submitting", "submitted", "publishing", "chosen", "retired", "checked"}
Publishing == {"publishing", "chosen", "retired", "checked"}

(* Versions are numbered without a gap, and a request works on versions    *)
(* that exist.                                                             *)
NumbersHaveNoGap ==
  /\ \A v \in Existing : 1..v \subseteq Existing
  /\ \A r \in Request :
       /\ pc[r] = "numbered" =>
            /\ target[r] \in Version
            /\ \A v \in Version : v < target[r] => v \in Existing
       /\ pc[r] \in Working => target[r] \in Existing
       /\ pc[r] \in Publishing => date[r] \in Date
       /\ current[r] # None => current[r] \in Existing

(* A request during which nobody else committed has read what is still     *)
(* true, and retires the published version before its own date.            *)
FreshIsTrue ==
  \A r \in Request \ stale :
    /\ pc[r] \in Working => seen[r] = status[target[r]]
    /\ pc[r] = "submitted" => seen[r] = "DRAFT"
    /\ pc[r] \in {"chosen", "retired", "checked"} =>
         /\ seen[r] \in {"DRAFT", "REVIEW"}
         /\ \/ current[r] = None /\ Published = {}
            \/ current[r] \in Published
    /\ pc[r] \in {"retired", "checked"} /\ current[r] # None =>
         effectiveFrom[current[r]] < date[r]

(* There is one published version at most, and the retired ones follow one *)
(* another up to its date.                                                 *)
HistoryIsOrdered ==
  ~raced =>
    /\ \A v, u \in Published : v = u
    /\ \A v \in Version : status[v] = "RETIRED" =>
         /\ effectiveFrom[v] \in Date /\ effectiveTo[v] \in Date
         /\ effectiveFrom[v] < effectiveTo[v]
         /\ \E u \in Published : effectiveTo[v] <= effectiveFrom[u]
         /\ \A u \in Version : u # v /\ status[u] = "RETIRED" =>
              effectiveTo[v] <= effectiveFrom[u] \/ effectiveTo[u] <= effectiveFrom[v]

TypeInv == TypeOK /\ NumbersHaveNoGap

(* A request that ends forgets what it worked on, and leaves the others    *)
(* alone.                                                                  *)
LEMMA ForgetEffect ==
  ASSUME TypeOK, NEW r \in Request, Forget(r)
  PROVE  /\ pc' \in [Request -> {"idle", "numbered", "submitting", "submitted",
                                 "publishing", "chosen", "retired", "checked"}]
         /\ target' \in [Request -> Version \cup {None}]
         /\ seen' \in [Request -> Statuses \cup {None}]
         /\ date' \in [Request -> Date \cup {None}]
         /\ current' \in [Request -> Version \cup {None}]
         /\ pc'[r] = "idle" /\ current'[r] = None
         /\ \A q \in Request \ {r} :
              /\ pc'[q] = pc[q] /\ target'[q] = target[q] /\ seen'[q] = seen[q]
              /\ date'[q] = date[q] /\ current'[q] = current[q]
  BY DEF Forget, Go, TypeOK

(* It leaves no gap either, if the versions there are stay. *)
LEMMA ForgetGaps ==
  ASSUME TypeInv, NEW r \in Request, Forget(r), UNCHANGED Existing
  PROVE  NumbersHaveNoGap'
  <1>1. /\ pc'[r] = "idle" /\ current'[r] = None
        /\ \A q \in Request \ {r} :
              /\ pc'[q] = pc[q] /\ target'[q] = target[q]
              /\ date'[q] = date[q] /\ current'[q] = current[q]
    BY ForgetEffect DEF TypeInv
  <1>2. QED
    BY <1>1 DEF TypeInv, NumbersHaveNoGap, Working, Publishing

(* The next number is one more than the last: with a version to spare it   *)
(* is a number a version can have.                                         *)
LEMMA NextNumber ==
  ASSUME TypeInv, Cardinality(Existing) < MaxVersion,
         NEW n, n = IF Existing = {} THEN 1 ELSE Newest(Existing) + 1
  PROVE  n \in Version /\ \A v \in Version : v < n => v \in Existing
  <1>1. Existing \subseteq Version
    BY DEF Existing
  <1>2. Existing # Version
    <2>1. Cardinality(1..MaxVersion) = MaxVersion
      BY FS_Interval
    <2>2. QED
      BY <2>1 DEF Version
  <1>3. CASE Existing = {}
    <2>1. MaxVersion > 0
      BY <1>2, <1>3 DEF Version
    <2>2. QED
      BY <1>3, <2>1 DEF Version
  <1>4. CASE Existing # {}
    <2> DEFINE last == Newest(Existing)
    <2>1. last \in Existing /\ last \in 1..MaxVersion /\ n = last + 1
      BY <1>1, <1>4, NewestType DEF Version
    <2>2. 1..last \subseteq Existing
      BY <2>1 DEF TypeInv, NumbersHaveNoGap
    <2> HIDE DEF last
    <2>3. last # MaxVersion
      BY <1>1, <1>2, <2>2 DEF Version
    <2>4. n \in Version
      BY <2>1, <2>3 DEF Version
    <2>5. ASSUME NEW v \in Version, v < n PROVE v \in Existing
      <3>1. v \in 1..last
        BY <2>1, <2>5 DEF Version
      <3>2. QED
        BY <2>2, <3>1
    <2>6. QED
      BY <2>4, <2>5
  <1>5. QED
    BY <1>3, <1>4

(* Locals of a request that reads a version, or moves on, keep their types. *)
LEMMA LoadType ==
  ASSUME TypeOK, NEW r \in Request, NEW v \in Version, LoadVersion(r, v)
  PROVE  /\ target' \in [Request -> Version \cup {None}]
         /\ seen' \in [Request -> Statuses \cup {None}]
         /\ v \in Existing /\ pc[r] = "idle"
         /\ target'[r] = v /\ seen'[r] = status[v]
         /\ \A q \in Request \ {r} : target'[q] = target[q] /\ seen'[q] = seen[q]
  BY DEF LoadVersion, TypeOK

(* A request that goes on keeps the types of all.                          *)
LEMMA GoType ==
  ASSUME TypeOK, NEW r \in Request,
         NEW there \in {"idle", "numbered", "submitting", "submitted",
                        "publishing", "chosen", "retired", "checked"},
         Go(r, there)
  PROVE  /\ pc' \in [Request -> {"idle", "numbered", "submitting", "submitted",
                                 "publishing", "chosen", "retired", "checked"}]
         /\ pc'[r] = there
         /\ \A q \in Request \ {r} : pc'[q] = pc[q]
  BY DEF Go, TypeOK

(* Every step keeps the types, a published version has a date and an open  *)
(* window, and a menu item that is gone has no version.                    *)
LEMMA TypeStep == TypeInv /\ [Next]_vars => TypeInv'
  <1> SUFFICES ASSUME TypeInv, [Next]_vars PROVE TypeInv'
    OBVIOUS
  <1>0. TypeOK /\ NumbersHaveNoGap
    BY DEF TypeInv
  <1>1. ASSUME CreateItem \/ DeleteItem \/ \E s \in {"ACTIVE", "INACTIVE"} : EditItem(s)
        PROVE  TypeInv'
    <2>1. /\ item' \in {"ACTIVE", "INACTIVE", "DELETED"}
          /\ item' = "DELETED" => Existing = {}
          /\ UNCHANGED <<status, effectiveFrom, effectiveTo, orders, today, locals, stale,
                         raced, overtaken>>
      BY <1>1 DEF CreateItem, DeleteItem, EditItem
    <2>2. \A v \in Version : status[v] # "ABSENT" => item' \notin {"ABSENT", "DELETED"}
      BY <2>1 DEF Existing
    <2>3. TypeOK'
      BY <1>0, <2>1, <2>2 DEF TypeOK, locals
    <2>4. NumbersHaveNoGap'
      BY <1>0, <2>1 DEF NumbersHaveNoGap, Existing, locals
    <2>5. QED
      BY <2>3, <2>4 DEF TypeInv
  <1>2. ASSUME NEW r \in Request, NumberVersion(r) PROVE TypeInv'
    <2> DEFINE n == IF Existing = {} THEN 1 ELSE Newest(Existing) + 1
    <2>1. n \in Version /\ \A v \in Version : v < n => v \in Existing
      BY <1>2, NextNumber DEF NumberVersion
    <2>2. /\ target' = [target EXCEPT ![r] = n] /\ Go(r, "numbered") /\ pc[r] = "idle"
          /\ UNCHANGED <<recipes, orders, today, seen, date, current, stale, raced, overtaken>>
      BY <1>2 DEF NumberVersion
    <2> HIDE DEF n
    <2>3. /\ target' \in [Request -> Version \cup {None}] /\ target'[r] = n
          /\ \A q \in Request \ {r} : target'[q] = target[q]
      BY <1>0, <2>1, <2>2 DEF TypeOK
    <2>4. TypeOK'
      BY <1>0, <2>2, <2>3, GoType DEF TypeOK, recipes
    <2>5. NumbersHaveNoGap'
      BY <1>0, <2>1, <2>2, <2>3, GoType
      DEF NumbersHaveNoGap, Existing, recipes, Working, Publishing
    <2>6. QED
      BY <2>4, <2>5 DEF TypeInv
  <1>3. ASSUME NEW r \in Request, InsertVersion(r) PROVE TypeInv'
    <2>1. /\ pc[r] = "numbered" /\ Forget(r) /\ stale' = stale \ {r}
          /\ target[r] \in Version
          /\ status' = [status EXCEPT ![target[r]] = "DRAFT"]
          /\ item \in {"ACTIVE", "INACTIVE"}
          /\ UNCHANGED <<item, effectiveFrom, effectiveTo, orders, today, raced, overtaken>>
      BY <1>0, <1>3 DEF InsertVersion, Finish, NumbersHaveNoGap
    <2>2. /\ status' \in [Version -> Statuses]
          /\ \A v \in Version : status'[v] = IF v = target[r] THEN "DRAFT" ELSE status[v]
      BY <1>0, <2>1 DEF TypeOK, Statuses
    <2>3. TypeOK'
      BY <1>0, <2>1, <2>2, ForgetEffect DEF TypeOK
    <2>4. Existing' = Existing \cup {target[r]}
      BY <2>1, <2>2 DEF Existing
    <2>5. \A v \in Version : v < target[r] => v \in Existing
      BY <1>0, <2>1 DEF NumbersHaveNoGap
    <2>6. ASSUME NEW v \in Existing' PROVE 1..v \subseteq Existing'
      <3>1. CASE v = target[r]
        BY <2>1, <2>4, <2>5, <3>1 DEF Version
      <3>2. CASE v # target[r]
        BY <1>0, <2>4, <2>6, <3>2 DEF NumbersHaveNoGap
      <3>3. QED
        BY <3>1, <3>2
    <2>7. NumbersHaveNoGap'
      BY <1>0, <2>1, <2>4, <2>6, ForgetEffect DEF NumbersHaveNoGap, Working, Publishing
    <2>8. QED
      BY <2>3, <2>7 DEF TypeInv
  <1>4. ASSUME NEW r \in Request, NEW v \in Version, LoadForReview(r, v) PROVE TypeInv'
    <2>1. /\ LoadVersion(r, v) /\ Go(r, "submitting")
          /\ UNCHANGED <<recipes, orders, today, date, current, stale, raced, overtaken>>
      BY <1>4 DEF LoadForReview
    <2>2. TypeOK'
      BY <1>0, <2>1, LoadType, GoType DEF TypeOK, recipes
    <2>3. NumbersHaveNoGap'
      BY <1>0, <2>1, LoadType, GoType DEF NumbersHaveNoGap, Existing, recipes, Working, Publishing
    <2>4. QED
      BY <2>2, <2>3 DEF TypeInv
  <1>5. ASSUME NEW r \in Request, NEW v \in Version, NEW d \in Date, LoadForPublish(r, v, d)
        PROVE  TypeInv'
    <2>1. /\ LoadVersion(r, v) /\ Go(r, "publishing")
          /\ date' = [date EXCEPT ![r] = d]
          /\ UNCHANGED <<recipes, orders, today, current, stale, raced, overtaken>>
      BY <1>5 DEF LoadForPublish
    <2>2. /\ date' \in [Request -> Date \cup {None}] /\ date'[r] = d
          /\ \A q \in Request \ {r} : date'[q] = date[q]
      BY <1>0, <2>1 DEF TypeOK
    <2>3. TypeOK'
      BY <1>0, <2>1, <2>2, LoadType, GoType DEF TypeOK, recipes
    <2>4. NumbersHaveNoGap'
      BY <1>0, <2>1, <2>2, LoadType, GoType
      DEF NumbersHaveNoGap, Existing, recipes, Working, Publishing
    <2>5. QED
      BY <2>3, <2>4 DEF TypeInv
  <1>6. ASSUME NEW r \in Request, Refuse(r) \/ Fail(r) PROVE TypeInv'
    <2>1. /\ Forget(r) /\ stale' = stale \ {r}
          /\ UNCHANGED <<recipes, orders, today, raced, overtaken>>
      BY <1>6 DEF Refuse, Fail, Finish
    <2>2. TypeOK'
      BY <1>0, <2>1, ForgetEffect DEF TypeOK, recipes
    <2>3. NumbersHaveNoGap'
      BY <2>1, ForgetGaps DEF Existing, recipes
    <2>4. QED
      BY <2>2, <2>3 DEF TypeInv
  <1>7. ASSUME NEW r \in Request, CheckReview(r) \/ RetireCurrent(r) \/ CheckPublish(r)
        PROVE  TypeInv'
    <2>1. PICK there \in {"submitted", "retired", "checked"} :
            /\ Go(r, there)
            /\ pc[r] \in Working
            /\ there # "submitted" => pc[r] \in Publishing
            /\ UNCHANGED <<recipes, orders, today, target, seen, date, current, stale, raced, overtaken>>
      BY <1>7 DEF CheckReview, RetireCurrent, CheckPublish, Working, Publishing
    <2>2. TypeOK'
      BY <1>0, <2>1, GoType DEF TypeOK, recipes
    <2>3. NumbersHaveNoGap'
      BY <1>0, <2>1, GoType DEF NumbersHaveNoGap, Existing, recipes, Working, Publishing
    <2>4. QED
      BY <2>2, <2>3 DEF TypeInv
  <1>8. ASSUME NEW r \in Request, ChooseCurrent(r) PROVE TypeInv'
    <2> DEFINE c == Newest(Published \ {target[r]})
    <2>1. /\ pc[r] = "publishing" /\ Go(r, "chosen")
          /\ current' = [current EXCEPT ![r] = c]
          /\ UNCHANGED <<recipes, orders, today, target, seen, date, stale, raced, overtaken>>
      BY <1>8 DEF ChooseCurrent
    <2>2. Published \ {target[r]} \subseteq Version
      BY DEF Published
    <2>3. c \in Version \cup {None} /\ (c # None => c \in Published)
      BY <2>2, NewestType
    <2> HIDE DEF c
    <2>4. /\ current' \in [Request -> Version \cup {None}] /\ current'[r] = c
          /\ \A q \in Request \ {r} : current'[q] = current[q]
      BY <1>0, <2>1, <2>3 DEF TypeOK
    <2>5. TypeOK'
      BY <1>0, <2>1, <2>4, GoType DEF TypeOK, recipes
    <2>6. c # None => c \in Existing
      BY <2>3 DEF Published, Existing
    <2>7. NumbersHaveNoGap'
      BY <1>0, <2>1, <2>4, <2>6, GoType
      DEF NumbersHaveNoGap, Existing, recipes, Working, Publishing
    <2>8. QED
      BY <2>5, <2>7 DEF TypeInv
  <1>9. ASSUME NEW r \in Request, SaveReview(r) PROVE TypeInv'
    <2>1. /\ pc[r] = "submitted" /\ Forget(r)
          /\ target[r] \in Existing
          /\ status' = [status EXCEPT ![target[r]] = "REVIEW"]
          /\ stale' \subseteq Request /\ raced' \in BOOLEAN
          /\ UNCHANGED <<item, effectiveFrom, effectiveTo, orders, today, overtaken>>
      BY <1>0, <1>9 DEF SaveReview, Commit, NumbersHaveNoGap, Working, TypeOK
    <2>2. /\ status' \in [Version -> Statuses]
          /\ \A v \in Version : status'[v] = IF v = target[r] THEN "REVIEW" ELSE status[v]
      BY <1>0, <2>1 DEF TypeOK, Statuses
    <2>3. UNCHANGED Existing
      BY <2>1, <2>2 DEF Existing
    <2>4. \A v \in Version : status'[v] # "ABSENT" => item \notin {"ABSENT", "DELETED"}
      BY <1>0, <2>1, <2>2 DEF TypeOK, Existing
    <2>5. TypeOK'
      BY <1>0, <2>1, <2>2, <2>4, ForgetEffect DEF TypeOK
    <2>6. QED
      BY <2>1, <2>3, <2>5, ForgetGaps DEF TypeInv
  <1>10. ASSUME NEW r \in Request, Publish(r) PROVE TypeInv'
    <2>1. /\ pc[r] = "checked" /\ Forget(r)
          /\ target[r] \in Existing /\ target[r] \in Version
          /\ date[r] \in Date
          /\ current[r] # None => current[r] \in Existing
          /\ stale' \subseteq Request /\ raced' \in BOOLEAN
          /\ UNCHANGED <<item, orders, today>>
          /\ overtaken' = overtaken \cup {o \in orders : date[r] <= o[1]}
      BY <1>0, <1>10 DEF Publish, Commit, NumbersHaveNoGap, Working, Publishing, TypeOK, Existing
    <2>2. /\ status' \in [Version -> Statuses]
          /\ \A v \in Version : status'[v] = IF v = target[r] THEN "PUBLISHED"
                                             ELSE IF v = current[r] THEN "RETIRED" ELSE status[v]
      BY <1>0, <1>10 DEF Publish, TypeOK, Statuses
    <2>3. /\ effectiveFrom' \in [Version -> Date \cup {None}]
          /\ \A v \in Version : effectiveFrom'[v] = IF v = target[r] THEN date[r] ELSE effectiveFrom[v]
      BY <1>0, <1>10, <2>1 DEF Publish, TypeOK
    <2>4. /\ effectiveTo' \in [Version -> Date \cup {None}]
          /\ \A v \in Version : effectiveTo'[v] = IF v = target[r] THEN None
                                  ELSE IF v = current[r] THEN date[r] ELSE effectiveTo[v]
      BY <1>0, <1>10, <2>1 DEF Publish, TypeOK
    <2>5. UNCHANGED Existing
      <3>1. ASSUME NEW v \in Version PROVE status'[v] # "ABSENT" <=> status[v] # "ABSENT"
        <4>1. v # None
          BY DEF Version
        <4>2. QED
          BY <2>1, <2>2, <4>1 DEF Existing
      <3>2. QED
        BY <3>1 DEF Existing
    <2>6. \A v \in Version :
            /\ status'[v] = "PUBLISHED" => effectiveFrom'[v] # None /\ effectiveTo'[v] = None
            /\ status'[v] # "ABSENT" => item \notin {"ABSENT", "DELETED"}
      <3>1. None \notin Date /\ date[r] # None
        BY <2>1 DEF Date
      <3>2. item \notin {"ABSENT", "DELETED"}
        BY <1>0, <2>1 DEF TypeOK, Existing
      <3>3. QED
        BY <1>0, <2>1, <2>2, <2>3, <2>4, <3>1, <3>2 DEF TypeOK
    <2>7. overtaken' \subseteq orders
      BY <1>0, <2>1 DEF TypeOK
    <2>8. TypeOK'
      BY <1>0, <2>1, <2>2, <2>3, <2>4, <2>6, <2>7, ForgetEffect DEF TypeOK
    <2>9. QED
      BY <2>1, <2>5, <2>8, ForgetGaps DEF TypeInv
  <1>11. ASSUME NEW day \in Date, Sell(day) PROVE TypeInv'
    <2>1. InForce(day) \subseteq Version
      BY DEF InForce
    <2>2. ActiveFor(day) \in Version
      BY <1>11, <2>1, NewestType DEF Sell, ActiveFor
    <2>3. orders' \subseteq Date \X Version /\ overtaken' \subseteq orders'
      BY <1>0, <1>11, <2>2 DEF Sell, TypeOK
    <2>4. UNCHANGED <<recipes, today, locals, stale, raced>>
      BY <1>11 DEF Sell
    <2>5. TypeOK'
      BY <1>0, <2>3, <2>4 DEF TypeOK, recipes, locals
    <2>6. NumbersHaveNoGap'
      BY <1>0, <2>4 DEF NumbersHaveNoGap, Existing, recipes, locals
    <2>7. QED
      BY <2>5, <2>6 DEF TypeInv
  <1>12. ASSUME Midnight \/ UNCHANGED vars PROVE TypeInv'
    <2>1. /\ today' \in Date
          /\ UNCHANGED <<recipes, orders, locals, stale, raced, overtaken>>
      BY <1>0, <1>12 DEF Midnight, vars, TypeOK, Date
    <2>2. TypeOK'
      BY <1>0, <2>1 DEF TypeOK, recipes, locals
    <2>3. NumbersHaveNoGap'
      BY <1>0, <2>1 DEF NumbersHaveNoGap, Existing, recipes, locals
    <2>4. QED
      BY <2>2, <2>3 DEF TypeInv
  <1>13. QED
    BY <1>1, <1>2, <1>3, <1>4, <1>5, <1>6, <1>7, <1>8, <1>9, <1>10, <1>11, <1>12
    DEF Next, Review, PublishSteps

(* So the types, and what goes with them, always hold.                     *)
LEMMA TypeInvAlways == Spec => []TypeInv
  <1>1. Init => TypeInv
    <2> SUFFICES ASSUME Init PROVE TypeInv
      OBVIOUS
    <2>1. today \in Date
      BY DEF Init, Date
    <2>2. TypeOK
      BY <2>1 DEF Init, TypeOK, Statuses
    <2>3. NumbersHaveNoGap
      BY DEF Init, NumbersHaveNoGap, Existing, Working, Publishing
    <2>4. QED
      BY <2>2, <2>3 DEF TypeInv
  <1>2. QED
    BY <1>1, TypeStep, PTL DEF Spec

(* Every variable keeps its type.  That a new version has a number at all  *)
(* needs that the numbers in use have no gap.                              *)
THEOREM TypeCorrect == Spec => []TypeOK
  <1>1. TypeInv => TypeOK
    BY DEF TypeInv
  <1>2. QED
    BY <1>1, TypeInvAlways, PTL
-----------------------------------------------------------------------------
(* What a request has read stays true until somebody commits, which makes  *)
(* the request stale.                                                      *)
LEMMA FreshStep == TypeInv /\ FreshIsTrue /\ [Next]_vars => FreshIsTrue'
  <1> SUFFICES ASSUME TypeInv, FreshIsTrue, [Next]_vars PROVE FreshIsTrue'
    OBVIOUS
  <1>0. TypeOK /\ NumbersHaveNoGap
    BY DEF TypeInv
  <1> USE DEF Working
  <1>1. ASSUME UNCHANGED <<status, effectiveFrom, locals, stale>> PROVE FreshIsTrue'
    BY <1>1 DEF FreshIsTrue, Published, locals
  <1>2. ASSUME NEW r \in Request, NumberVersion(r) PROVE FreshIsTrue'
    <2>1. /\ Go(r, "numbered") /\ UNCHANGED <<recipes, seen, date, current, stale>>
          /\ \A q \in Request \ {r} : target'[q] = target[q]
      BY <1>0, <1>2 DEF NumberVersion, TypeOK
    <2>2. QED
      BY <1>0, <2>1, GoType DEF FreshIsTrue, Published, recipes
  <1>3. ASSUME NEW r \in Request, InsertVersion(r) PROVE FreshIsTrue'
    <2>1. /\ Forget(r) /\ stale' = stale \ {r} /\ target[r] \notin Existing
          /\ status' = [status EXCEPT ![target[r]] = "DRAFT"]
          /\ UNCHANGED effectiveFrom
      BY <1>3 DEF InsertVersion, Finish
    <2>2. \A v \in Existing : status'[v] = status[v]
      BY <1>0, <2>1 DEF Existing, TypeOK
    <2>3. Published' = Published
      BY <1>0, <2>1 DEF Existing, Published, TypeOK
    <2>4. \A q \in Request \ {r} : pc[q] \in Working => status'[target[q]] = status[target[q]]
      BY <1>0, <2>2 DEF NumbersHaveNoGap
    <2>5. QED
      BY <1>0, <2>1, <2>3, <2>4, ForgetEffect DEF FreshIsTrue
  <1>4. ASSUME NEW r \in Request, NEW v \in Version,
               LoadForReview(r, v) \/ \E d \in Date : LoadForPublish(r, v, d)
        PROVE  FreshIsTrue'
    <2>1. PICK there \in {"submitting", "publishing"} :
            /\ Go(r, there) /\ LoadVersion(r, v)
            /\ UNCHANGED <<status, effectiveFrom, current, stale>>
            /\ \A q \in Request \ {r} : date'[q] = date[q]
      BY <1>0, <1>4 DEF LoadForReview, LoadForPublish, recipes, TypeOK
    <2>2. QED
      BY <1>0, <2>1, GoType, LoadType DEF FreshIsTrue, Published
  <1>5. ASSUME NEW r \in Request, Refuse(r) \/ Fail(r) PROVE FreshIsTrue'
    <2>1. Forget(r) /\ stale' = stale \ {r} /\ UNCHANGED <<status, effectiveFrom>>
      BY <1>5 DEF Refuse, Fail, Finish, recipes
    <2>2. QED
      BY <1>0, <2>1, ForgetEffect DEF FreshIsTrue, Published
  <1>6. ASSUME NEW r \in Request, CheckReview(r) PROVE FreshIsTrue'
    <2>1. /\ Go(r, "submitted") /\ pc[r] = "submitting" /\ seen[r] = "DRAFT"
          /\ UNCHANGED <<status, effectiveFrom, target, seen, date, current, stale>>
      BY <1>6 DEF CheckReview, recipes
    <2>2. QED
      BY <1>0, <2>1, GoType DEF FreshIsTrue, Published
  <1>7. ASSUME NEW r \in Request, ChooseCurrent(r) PROVE FreshIsTrue'
    <2> DEFINE others == Published \ {target[r]}
    <2>1. /\ Go(r, "chosen") /\ pc[r] = "publishing" /\ seen[r] \in {"DRAFT", "REVIEW"}
          /\ current' = [current EXCEPT ![r] = Newest(others)]
          /\ UNCHANGED <<status, effectiveFrom, target, seen, date, stale>>
      BY <1>7 DEF ChooseCurrent, recipes
    <2>2. /\ current'[r] = Newest(others)
          /\ \A q \in Request \ {r} : current'[q] = current[q]
      BY <1>0, <2>1 DEF TypeOK
    <2>3. others \subseteq Version
      BY DEF Published
    <2>4. r \notin stale => others = Published
      BY <2>1 DEF FreshIsTrue, Published
    <2> HIDE DEF others
    <2>5. r \notin stale => \/ current'[r] = None /\ Published = {}
                            \/ current'[r] \in Published
      BY <2>2, <2>3, <2>4, NewestType
    <2>6. QED
      BY <1>0, <2>1, <2>2, <2>5, GoType DEF FreshIsTrue, Published
  <1>8. ASSUME NEW r \in Request, RetireCurrent(r) PROVE FreshIsTrue'
    <2>1. /\ Go(r, "retired") /\ pc[r] = "chosen"
          /\ current[r] # None => WindowValid(current[r], date[r])
          /\ UNCHANGED <<status, effectiveFrom, target, seen, date, current, stale>>
      BY <1>8 DEF RetireCurrent, recipes
    <2>2. r \notin stale /\ current[r] # None => effectiveFrom[current[r]] < date[r]
      <3> SUFFICES ASSUME r \notin stale, current[r] # None
                   PROVE  effectiveFrom[current[r]] < date[r]
        OBVIOUS
      <3>1. current[r] \in Published
        BY <2>1 DEF FreshIsTrue
      <3>2. effectiveFrom[current[r]] \in Date /\ date[r] \in Date
        BY <1>0, <2>1, <3>1 DEF Published, TypeOK, NumbersHaveNoGap, Publishing
      <3>3. date[r] > effectiveFrom[current[r]]
        BY <2>1, <3>2 DEF WindowValid, Date
      <3>4. QED
        BY <3>2, <3>3 DEF Date
    <2>3. QED
      BY <1>0, <2>1, <2>2, GoType DEF FreshIsTrue, Published
  <1>9. ASSUME NEW r \in Request, CheckPublish(r) PROVE FreshIsTrue'
    <2>1. /\ Go(r, "checked") /\ pc[r] = "retired"
          /\ UNCHANGED <<status, effectiveFrom, target, seen, date, current, stale>>
      BY <1>9 DEF CheckPublish, recipes
    <2>2. QED
      BY <1>0, <2>1, GoType DEF FreshIsTrue, Published
  <1>10. ASSUME NEW r \in Request, SaveReview(r) \/ Publish(r) PROVE FreshIsTrue'
    <2>1. /\ Forget(r)
          /\ \A q \in Request \ stale' : q = r \/ pc[q] \in {"idle", "numbered"}
      BY <1>10 DEF SaveReview, Publish, Commit
    <2>2. \A q \in Request \ stale' : pc'[q] \in {"idle", "numbered"}
      BY <1>0, <2>1, ForgetEffect
    <2>3. QED
      BY <2>2 DEF FreshIsTrue
  <1>11. CreateItem \/ DeleteItem \/ (\E s \in {"ACTIVE", "INACTIVE"} : EditItem(s))
           \/ (\E day \in Date : Sell(day)) \/ Midnight \/ UNCHANGED vars
         => UNCHANGED <<status, effectiveFrom, locals, stale>>
    BY DEF CreateItem, DeleteItem, EditItem, Sell, Midnight, vars, recipes
  <1>12. QED
    BY <1>1, <1>2, <1>3, <1>4, <1>5, <1>6, <1>7, <1>8, <1>9, <1>10, <1>11
    DEF Next, Review, PublishSteps
-----------------------------------------------------------------------------
(* No version comes into a window, or out of it. *)
Quiet ==
  \A v \in Version :
    status[v] \in {"PUBLISHED", "RETIRED"} \/ status'[v] \in {"PUBLISHED", "RETIRED"} =>
      /\ status'[v] = status[v]
      /\ effectiveFrom'[v] = effectiveFrom[v] /\ effectiveTo'[v] = effectiveTo[v]

(* A request publishes its version from its date on, and closes the window *)
(* of the one that was published, if there was one, on that date.          *)
Replaces(r) ==
  /\ target[r] \in Version /\ date[r] \in Date
  /\ status[target[r]] \in {"DRAFT", "REVIEW"}
  /\ \/ current[r] = None /\ Published = {}
     \/ /\ current[r] \in Published /\ current[r] # target[r]
        /\ effectiveFrom[current[r]] < date[r]
  /\ \A v \in Version :
       /\ status'[v] = IF v = target[r] THEN "PUBLISHED"
                       ELSE IF v = current[r] THEN "RETIRED" ELSE status[v]
       /\ effectiveFrom'[v] = IF v = target[r] THEN date[r] ELSE effectiveFrom[v]
       /\ effectiveTo'[v] = IF v = target[r] THEN None
                            ELSE IF v = current[r] THEN date[r] ELSE effectiveTo[v]

(* Unless a race has happened, these are the only things that happen to    *)
(* versions.                                                               *)
LEMMA StepEffect ==
  ASSUME TypeInv, FreshIsTrue, [Next]_vars, ~raced'
  PROVE  /\ ~raced
         /\ \/ Quiet
            \/ \E r \in Request : /\ pc[r] = "checked" /\ Replaces(r)
                                  /\ orders' = orders
                                  /\ overtaken' = overtaken \cup {o \in orders : date[r] <= o[1]}
  <1>0. TypeOK /\ NumbersHaveNoGap
    BY DEF TypeInv
  <1>1. ASSUME UNCHANGED <<status, effectiveFrom, effectiveTo, raced>> PROVE Quiet /\ ~raced
    BY <1>1 DEF Quiet
  <1>2. ASSUME NEW r \in Request, InsertVersion(r) PROVE Quiet /\ ~raced
    BY <1>0, <1>2 DEF InsertVersion, Quiet, Existing, TypeOK
  <1>3. ASSUME NEW r \in Request, SaveReview(r) PROVE Quiet /\ ~raced
    <2>1. /\ pc[r] = "submitted" /\ r \notin stale /\ ~raced
          /\ status' = [status EXCEPT ![target[r]] = "REVIEW"]
          /\ UNCHANGED <<effectiveFrom, effectiveTo>>
      BY <1>3 DEF SaveReview, Commit
    <2>2. status[target[r]] = "DRAFT"
      BY <2>1 DEF FreshIsTrue, Working
    <2>3. QED
      BY <1>0, <2>1, <2>2 DEF Quiet, TypeOK
  <1>4. ASSUME NEW r \in Request, Publish(r)
        PROVE  /\ ~raced
               /\ pc[r] = "checked" /\ Replaces(r)
               /\ orders' = orders
               /\ overtaken' = overtaken \cup {o \in orders : date[r] <= o[1]}
    <2>1. /\ pc[r] = "checked" /\ r \notin stale /\ ~raced
          /\ orders' = orders
          /\ overtaken' = overtaken \cup {o \in orders : date[r] <= o[1]}
      BY <1>4 DEF Publish, Commit
    <2>2. /\ status[target[r]] \in {"DRAFT", "REVIEW"}
          /\ \/ current[r] = None /\ Published = {}
             \/ current[r] \in Published
          /\ current[r] # None => effectiveFrom[current[r]] < date[r]
      BY <2>1 DEF FreshIsTrue, Working
    <2>3. target[r] \in Version /\ date[r] \in Date
      BY <1>0, <2>1 DEF NumbersHaveNoGap, Working, Publishing, Existing
    <2>4. None \notin Version
      BY DEF Version
    <2>5. \A v \in Version : effectiveFrom'[v] = IF v = target[r] THEN date[r] ELSE effectiveFrom[v]
      BY <1>0, <1>4, <2>3 DEF Publish, TypeOK
    <2>6. \A v \in Version :
            /\ status'[v] = IF v = target[r] THEN "PUBLISHED"
                            ELSE IF v = current[r] THEN "RETIRED" ELSE status[v]
            /\ effectiveTo'[v] = IF v = target[r] THEN None
                                 ELSE IF v = current[r] THEN date[r] ELSE effectiveTo[v]
      BY <1>4 DEF Publish
    <2>7. QED
      BY <2>1, <2>2, <2>3, <2>4, <2>5, <2>6 DEF Replaces, Published
  <1>5. (CreateItem \/ DeleteItem \/ (\E s \in {"ACTIVE", "INACTIVE"} : EditItem(s))
           \/ (\E day \in Date : Sell(day)) \/ Midnight \/ UNCHANGED vars
           \/ \E r \in Request :
                \/ NumberVersion(r) \/ Refuse(r) \/ Fail(r) \/ CheckReview(r) \/ ChooseCurrent(r)
                \/ RetireCurrent(r) \/ CheckPublish(r)
                \/ \E v \in Version : LoadForReview(r, v) \/ \E d \in Date : LoadForPublish(r, v, d))
         => UNCHANGED <<status, effectiveFrom, effectiveTo, raced>>
    BY DEF CreateItem, DeleteItem, EditItem, Sell, Midnight, vars, recipes, NumberVersion, Refuse,
           Fail, CheckReview, ChooseCurrent, RetireCurrent, CheckPublish, LoadForReview,
           LoadForPublish
  <1>6. QED
    BY <1>1, <1>2, <1>3, <1>4, <1>5 DEF Next, Review, PublishSteps

(* Nothing of this moves the recipe of a day before the date of the new    *)
(* version.                                                                *)
LEMMA QuietDays ==
  ASSUME Quiet, NEW day \in Date
  PROVE  InForce(day)' = InForce(day) /\ ActiveFor(day)' = ActiveFor(day)
  <1>1. InForce(day)' = InForce(day)
    BY DEF Quiet, InForce
  <1>2. QED
    BY <1>1 DEF ActiveFor

(* A publication leaves the days before its date alone.                    *)
LEMMA EarlierDays ==
  ASSUME TypeInv, NEW r \in Request, Replaces(r), NEW day \in Date, day < date[r]
  PROVE  InForce(day)' = InForce(day) /\ ActiveFor(day)' = ActiveFor(day)
  <1>0. TypeOK
    BY DEF TypeInv
  <1>1. ASSUME NEW v \in Version PROVE v \in InForce(day)' <=> v \in InForce(day)
    <2>1. CASE v = target[r]
      <3>1. v \notin InForce(day)
        BY <2>1 DEF Replaces, InForce
      <3>2. effectiveFrom'[v] = date[r] /\ date[r] # None /\ ~(date[r] <= day)
        BY <2>1 DEF Replaces, Date
      <3>3. v \notin InForce(day)'
        BY <3>2 DEF InForce
      <3>4. QED
        BY <3>1, <3>3
    <2>2. CASE v # target[r] /\ v = current[r]
      <3>1. v # None
        BY DEF Version
      <3>2. status[v] = "PUBLISHED" /\ effectiveTo[v] = None
        BY <1>0, <2>2, <3>1 DEF Replaces, Published, TypeOK
      <3>3. /\ status'[v] = "RETIRED" /\ effectiveTo'[v] = date[r] /\ date[r] > day
            /\ effectiveFrom'[v] = effectiveFrom[v]
        BY <2>2 DEF Replaces, Date
      <3>4. QED
        BY <3>2, <3>3 DEF InForce
    <2>3. CASE v # target[r] /\ v # current[r]
      BY <2>3 DEF Replaces, InForce
    <2>4. QED
      BY <2>1, <2>2, <2>3
  <1>2. InForce(day)' = InForce(day)
    BY <1>1 DEF InForce
  <1>3. QED
    BY <1>2 DEF ActiveFor
-----------------------------------------------------------------------------
(* The published version is the last of a line of retired ones. *)
LEMMA HistoryStep ==
  TypeInv /\ FreshIsTrue /\ HistoryIsOrdered /\ [Next]_vars => HistoryIsOrdered'
  <1> SUFFICES ASSUME TypeInv, FreshIsTrue, HistoryIsOrdered, [Next]_vars, ~raced'
               PROVE  HistoryIsOrdered'
    BY DEF HistoryIsOrdered
  <1>0. ~raced /\ TypeOK
    BY StepEffect DEF TypeInv
  <1>1. CASE Quiet
    <2>1. /\ Published' = Published
          /\ \A v \in Version : status'[v] = "RETIRED" =>
               /\ status[v] = "RETIRED"
               /\ effectiveFrom'[v] = effectiveFrom[v] /\ effectiveTo'[v] = effectiveTo[v]
          /\ \A v \in Published : effectiveFrom'[v] = effectiveFrom[v]
      BY <1>1 DEF Quiet, Published
    <2>2. QED
      BY <1>0, <2>1 DEF HistoryIsOrdered
  <1>2. ASSUME NEW r \in Request, Replaces(r) PROVE HistoryIsOrdered'
    <2> DEFINE t == target[r]
               c == current[r]
               d == date[r]
    <2>1. /\ t \in Version /\ d \in Date
          /\ status'[t] = "PUBLISHED" /\ effectiveFrom'[t] = d
          /\ \A v \in Version : v # None
      BY <1>2 DEF Replaces, Version
    <2>2. \A v \in Published : v = c
      BY <1>0, <1>2 DEF Replaces, HistoryIsOrdered
    <2>3. \A v \in Version : v # t => status'[v] # "PUBLISHED"
      BY <1>2, <2>2 DEF Replaces, Published
    <2>4. Published' = {t}
      BY <2>1, <2>3 DEF Published
    <2>5. ASSUME NEW v \in Version, status'[v] = "RETIRED"
          PROVE  \/ /\ v = c /\ v \in Published /\ effectiveFrom[v] < d
                    /\ effectiveFrom'[v] = effectiveFrom[v] /\ effectiveTo'[v] = d
                 \/ /\ v # c /\ status[v] = "RETIRED"
                    /\ effectiveFrom'[v] = effectiveFrom[v] /\ effectiveTo'[v] = effectiveTo[v]
      BY <1>2, <2>1, <2>5 DEF Replaces, Published
    <2>6. ASSUME NEW v \in Version, status[v] = "RETIRED"
          PROVE  /\ effectiveFrom[v] \in Date /\ effectiveTo[v] \in Date
                 /\ effectiveFrom[v] < effectiveTo[v]
                 /\ c \in Published /\ effectiveTo[v] <= effectiveFrom[c] /\ effectiveFrom[c] < d
      <3>1. PICK u \in Published : effectiveTo[v] <= effectiveFrom[u]
        BY <1>0, <2>6 DEF HistoryIsOrdered
      <3>2. u = c
        BY <2>2
      <3>3. c \in Version /\ c # None
        BY <3>2, <2>1 DEF Published
      <3>4. QED
        BY <1>0, <1>2, <2>6, <3>1, <3>2, <3>3 DEF HistoryIsOrdered, Replaces
    <2>7. c \in Published => effectiveFrom[c] \in Date
      BY <1>0 DEF Published, TypeOK
    <2>8. ASSUME NEW v \in Version, status'[v] = "RETIRED"
          PROVE  /\ effectiveFrom'[v] \in Date /\ effectiveTo'[v] \in Date
                 /\ effectiveFrom'[v] < effectiveTo'[v]
                 /\ effectiveTo'[v] <= d
      <3>1. CASE v = c
        BY <2>1, <2>5, <2>7, <2>8, <3>1 DEF Date
      <3>2. CASE v # c
        <4>1. /\ status[v] = "RETIRED"
              /\ effectiveFrom'[v] = effectiveFrom[v] /\ effectiveTo'[v] = effectiveTo[v]
          BY <2>5, <2>8, <3>2
        <4>2. QED
          BY <2>1, <2>6, <2>7, <4>1 DEF Date
      <3>3. QED
        BY <3>1, <3>2
    <2>9. ASSUME NEW v \in Version, NEW u \in Version, u # v,
                 status'[v] = "RETIRED", status'[u] = "RETIRED"
          PROVE  effectiveTo'[v] <= effectiveFrom'[u] \/ effectiveTo'[u] <= effectiveFrom'[v]
      <3>1. CASE v = c
        BY <2>5, <2>6, <2>9, <3>1
      <3>2. CASE u = c
        BY <2>5, <2>6, <2>9, <3>2
      <3>3. CASE v # c /\ u # c
        <4>1. /\ status[v] = "RETIRED" /\ status[u] = "RETIRED"
              /\ effectiveFrom'[v] = effectiveFrom[v] /\ effectiveTo'[v] = effectiveTo[v]
              /\ effectiveFrom'[u] = effectiveFrom[u] /\ effectiveTo'[u] = effectiveTo[u]
          BY <2>5, <2>9, <3>3
        <4>2. QED
          BY <1>0, <2>9, <4>1 DEF HistoryIsOrdered
      <3>4. QED
        BY <3>1, <3>2, <3>3
    <2> HIDE DEF t, c, d
    <2>10. QED
      BY <2>1, <2>4, <2>8, <2>9 DEF HistoryIsOrdered
  <1>3. QED
    BY <1>1, <1>2, StepEffect

VersionsInv == TypeInv /\ FreshIsTrue /\ HistoryIsOrdered

(* So the invariant always holds.                                          *)
LEMMA VersionsInvAlways == Spec => []VersionsInv
  <1>1. Init => FreshIsTrue /\ HistoryIsOrdered
    BY DEF Init, FreshIsTrue, HistoryIsOrdered, Working, Published
  <1>2. TypeInv /\ FreshIsTrue /\ HistoryIsOrdered /\ [Next]_vars => FreshIsTrue' /\ HistoryIsOrdered'
    BY FreshStep, HistoryStep
  <1>3. QED
    BY <1>1, <1>2, TypeInvAlways, PTL DEF Spec, VersionsInv

(* The windows of the versions never overlap: no day has two recipes, and  *)
(* the costing report has the one of the last day, unless a request        *)
(* committed what it had read before another one committed.                *)
THEOREM NoDayHasTwoRecipes == Spec => []WindowsAreDisjoint
  <1>1. VersionsInv => WindowsAreDisjoint
    <2> SUFFICES ASSUME TypeOK, HistoryIsOrdered, ~raced
                 PROVE  /\ \A day \in Date : Cardinality(InForce(day)) <= 1
                        /\ RecipeCosting = {v \in Version : v = ActiveFor(MaxDate)}
      BY DEF VersionsInv, TypeInv, WindowsAreDisjoint
    <2>1. ASSUME NEW v \in Published
          PROVE  v \in Version /\ effectiveFrom[v] \in Date /\ effectiveTo[v] = None
      BY DEF Published, TypeOK
    <2>2. ASSUME NEW v \in Version, status[v] = "RETIRED"
          PROVE  /\ effectiveFrom[v] \in Date /\ effectiveTo[v] \in Date /\ effectiveTo[v] # None
                 /\ \E u \in Published : effectiveTo[v] <= effectiveFrom[u]
                 /\ \A u \in Version : u # v /\ status[u] = "RETIRED" =>
                      effectiveTo[v] <= effectiveFrom[u] \/ effectiveTo[u] <= effectiveFrom[v]
      BY <2>2 DEF HistoryIsOrdered, Date
    <2>3. ASSUME NEW day \in Date, NEW v \in InForce(day), NEW u \in InForce(day) PROVE v = u
      <3>1. /\ v \in Version /\ u \in Version
            /\ v \in Published \/ status[v] = "RETIRED"
            /\ u \in Published \/ status[u] = "RETIRED"
            /\ effectiveFrom[v] <= day /\ effectiveFrom[u] <= day
            /\ effectiveTo[v] = None \/ effectiveTo[v] > day
            /\ effectiveTo[u] = None \/ effectiveTo[u] > day
        BY DEF InForce, Published
      <3>2. CASE v \in Published /\ u \in Published
        BY <3>2 DEF HistoryIsOrdered
      <3>3. ASSUME NEW x \in Version, NEW y \in Published, status[x] = "RETIRED",
                   effectiveFrom[y] <= day, effectiveTo[x] > day
            PROVE  FALSE
        <4>1. effectiveTo[x] <= effectiveFrom[y]
          BY <2>2, <3>3 DEF HistoryIsOrdered
        <4>2. QED
          BY <2>1, <2>2, <3>3, <4>1 DEF Date
      <3>4. CASE status[v] = "RETIRED" /\ status[u] = "RETIRED"
        <4> SUFFICES ASSUME v # u PROVE FALSE
          OBVIOUS
        <4>1. effectiveTo[v] <= effectiveFrom[u] \/ effectiveTo[u] <= effectiveFrom[v]
          BY <2>2, <3>1, <3>4
        <4>2. /\ effectiveFrom[v] \in Date /\ effectiveTo[v] \in Date /\ effectiveTo[v] > day
              /\ effectiveFrom[u] \in Date /\ effectiveTo[u] \in Date /\ effectiveTo[u] > day
          BY <2>2, <3>1, <3>4
        <4>3. QED
          BY <3>1, <4>1, <4>2 DEF Date
      <3>5. QED
        BY <2>2, <3>1, <3>2, <3>3, <3>4
    <2>4. ASSUME NEW day \in Date PROVE Cardinality(InForce(day)) <= 1
      <3>1. CASE InForce(day) = {}
        BY <3>1, FS_EmptySet
      <3>2. CASE InForce(day) # {}
        <4>1. PICK v \in InForce(day) : InForce(day) = {v}
          BY <2>3, <3>2
        <4>2. Cardinality({v}) = 1
          BY FS_Singleton
        <4>3. QED
          BY <4>1, <4>2
      <3>3. QED
        BY <3>1, <3>2
    <2>5. InForce(MaxDate) = Published
      <3>1. \A v \in Version : v \in InForce(MaxDate) => v \in Published
        BY <2>2 DEF InForce, Published, Date
      <3>2. \A v \in Published : v \in InForce(MaxDate)
        BY <2>1 DEF InForce, Published, Date
      <3>3. QED
        BY <3>1, <3>2 DEF InForce, Published
    <2>6. Published = {v \in Version : v = Newest(Published)}
      <3>1. Published \subseteq Version /\ \A v, u \in Published : v = u
        BY DEF Published, HistoryIsOrdered
      <3>2. CASE Published = {}
        <4>1. Newest(Published) = None /\ None \notin Version
          BY <3>1, <3>2, NewestType DEF Version
        <4>2. QED
          BY <3>2, <4>1
      <3>3. CASE Published # {}
        BY <3>1, <3>3, NewestType
      <3>4. QED
        BY <3>2, <3>3
    <2>7. QED
      BY <2>4, <2>5, <2>6 DEF RecipeCosting, ActiveFor
  <1>2. QED
    BY <1>1, VersionsInvAlways, PTL

(* The recipe of a day changes only when a request publishes from that day *)
(* on, or from an earlier one.                                             *)
THEOREM LiveServiceUnaffected == Spec => LiveUntilDate
  <1>1. VersionsInv /\ [Next]_vars =>
          (~raced' => \A day \in Date :
             ActiveFor(day)' # ActiveFor(day) =>
               \E r \in Request : pc[r] = "checked" /\ date[r] <= day)
    <2> SUFFICES ASSUME VersionsInv, [Next]_vars, ~raced', NEW day \in Date,
                        ActiveFor(day)' # ActiveFor(day)
                 PROVE  \E r \in Request : pc[r] = "checked" /\ date[r] <= day
      OBVIOUS
    <2>1. ~Quiet
      BY QuietDays
    <2>2. PICK r \in Request : pc[r] = "checked" /\ Replaces(r)
      BY <2>1, StepEffect DEF VersionsInv
    <2>3. ~(day < date[r])
      BY <2>2, EarlierDays DEF VersionsInv
    <2>4. day \in Nat /\ date[r] \in Nat
      BY <2>2 DEF Replaces, Date
    <2>5. QED
      BY <2>2, <2>3, <2>4
  <1>2. QED
    BY <1>1, VersionsInvAlways, PTL DEF Spec, LiveUntilDate

(* An order keeps the recipe that was in force on its day: looking its day *)
(* up again finds the same version, unless somebody published from that    *)
(* day or an earlier one on afterwards.                                    *)
THEOREM OrdersStayResolved == Spec => []OrdersKeepRecipe
  <1>1. Init => OrdersKeepRecipe
    BY DEF Init, OrdersKeepRecipe
  <1>2. VersionsInv /\ OrdersKeepRecipe /\ [Next]_vars => OrdersKeepRecipe'
    <2> SUFFICES ASSUME VersionsInv, OrdersKeepRecipe, [Next]_vars, ~raced',
                        NEW o \in orders', o \notin overtaken'
                 PROVE  ActiveFor(o[1])' = o[2]
      BY DEF OrdersKeepRecipe
    <2>1. ~raced /\ TypeOK
      BY StepEffect DEF VersionsInv, TypeInv
    <2>2. \A p \in orders : p[1] \in Date
      BY <2>1 DEF TypeOK
    <2>3. ASSUME NEW day \in Date, Sell(day) PROVE ActiveFor(o[1])' = o[2]
      <3>1. /\ orders' = orders \cup {<<day, ActiveFor(day)>>}
            /\ overtaken' = overtaken \ {<<day, ActiveFor(day)>>}
            /\ UNCHANGED recipes
        BY <2>3 DEF Sell
      <3>2. ActiveFor(o[1])' = ActiveFor(o[1])
        BY <3>1 DEF ActiveFor, InForce, recipes
      <3>3. ActiveFor(o[1]) = o[2]
        BY <2>1, <3>1 DEF OrdersKeepRecipe
      <3>4. QED
        BY <3>2, <3>3
    <2>4. CASE ~ \E day \in Date : Sell(day)
      <3>1. orders' = orders /\ overtaken \subseteq overtaken'
        BY <2>4 DEF Next, vars, locals, recipes, Review, PublishSteps, CreateItem, DeleteItem, EditItem,
              NumberVersion, InsertVersion, LoadForReview, LoadForPublish, Refuse, CheckReview,
              SaveReview, ChooseCurrent, RetireCurrent, CheckPublish, Publish, Fail, Midnight
      <3>2. ActiveFor(o[1]) = o[2] /\ o[1] \in Date
        BY <2>1, <2>2, <3>1 DEF OrdersKeepRecipe
      <3>3. CASE Quiet
        BY <3>2, <3>3, QuietDays
      <3>4. CASE ~Quiet
        <4>1. PICK r \in Request :
                /\ Replaces(r)
                /\ overtaken' = overtaken \cup {p \in orders : date[r] <= p[1]}
          BY <3>4, StepEffect DEF VersionsInv
        <4>2. ~(date[r] <= o[1]) /\ o[1] \in Nat /\ date[r] \in Nat
          BY <3>1, <3>2, <4>1 DEF Replaces, Date
        <4>3. o[1] < date[r]
          BY <4>2
        <4>4. QED
          BY <3>2, <4>1, <4>3, EarlierDays DEF VersionsInv
      <3>5. QED
        BY <3>3, <3>4
    <2>5. QED
      BY <2>3, <2>4
  <1>3. QED
    BY <1>1, <1>2, VersionsInvAlways, PTL DEF Spec
=============================================================================
