--------------------------- MODULE RecipeVersions ---------------------------
(***************************************************************************)
(* The recipe versions of one menu item (backend/apps/menu): drafts,       *)
(* review, publication with an effective date, and the orders that keep    *)
(* the version in force on their day.                                      *)
(*                                                                         *)
(* The views read the version before the transaction of the service        *)
(* starts; RecipeVersion.save looks at the row once more, without locking  *)
(* it, and then updates it.  An UPDATE waits for a transaction that has    *)
(* updated the row, and goes through when that one has committed.  A       *)
(* version is its version_no, a date a number, and what a transaction      *)
(* wrote becomes visible when it commits.                                  *)
(***************************************************************************)
EXTENDS Naturals, FiniteSets, FiniteSetsExt

CONSTANTS
  Request,     \* requests that may run at the same time
  None,
  MaxVersion,  \* bound: versions of the item
  MaxDate,     \* bound: days
  MaxOrders    \* bound: orders that tell their day and version apart

ASSUME RecipeConstants ==
  /\ {MaxVersion, MaxDate, MaxOrders} \subseteq Nat /\ None \notin Nat
  /\ MaxDate > 0

Version == 1..MaxVersion
Date == 1..MaxDate

VARIABLES
  item,           \* MenuItem.status; ABSENT and DELETED without a row
  status,         \* RecipeVersion.status; ABSENT without a row
  effectiveFrom,  \* RecipeVersion.effective_from
  effectiveTo,    \* RecipeVersion.effective_to
  orders,         \* order items: the day of the sale and the recipe_version
  today,
  pc,             \* where a request is
  target,         \* the version it is about
  seen,           \* the status it loaded
  date,           \* the effective_from it publishes with
  current,        \* the published version it retires
  stale,          \* history: requests during which another one committed
  raced,          \* history: such a request has committed
  overtaken       \* history: orders of days a later publication reached

recipes == <<item, status, effectiveFrom, effectiveTo>>
locals == <<pc, target, seen, date, current>>
vars == <<recipes, orders, today, locals, stale, raced, overtaken>>

Statuses == {"ABSENT", "DRAFT", "REVIEW", "PUBLISHED", "RETIRED"}

TypeOK ==
  /\ item \in {"ABSENT", "ACTIVE", "INACTIVE", "DELETED"}
  /\ status \in [Version -> Statuses]
  /\ effectiveFrom \in [Version -> Date \cup {None}]
  /\ effectiveTo \in [Version -> Date \cup {None}]
  /\ \A v \in Version :
       /\ status[v] = "PUBLISHED" => effectiveFrom[v] # None /\ effectiveTo[v] = None
       /\ status[v] # "ABSENT" => item \notin {"ABSENT", "DELETED"}
  /\ orders \subseteq Date \X Version /\ overtaken \subseteq orders
  /\ today \in Date
  /\ pc \in [Request -> {"idle", "numbered", "submitting", "submitted",
                         "publishing", "chosen", "retired", "checked"}]
  /\ target \in [Request -> Version \cup {None}]
  /\ seen \in [Request -> Statuses \cup {None}]
  /\ date \in [Request -> Date \cup {None}]
  /\ current \in [Request -> Version \cup {None}]
  /\ stale \subseteq Request /\ raced \in BOOLEAN

Init ==
  /\ item = "ABSENT"
  /\ status = [v \in Version |-> "ABSENT"]
  /\ effectiveFrom = [v \in Version |-> None]
  /\ effectiveTo = [v \in Version |-> None]
  /\ orders = {} /\ today = 1
  /\ pc = [r \in Request |-> "idle"]
  /\ target = [r \in Request |-> None] /\ seen = [r \in Request |-> None]
  /\ date = [r \in Request |-> None] /\ current = [r \in Request |-> None]
  /\ stale = {} /\ raced = FALSE /\ overtaken = {}
-----------------------------------------------------------------------------
Existing == {v \in Version : status[v] # "ABSENT"}
Published == {v \in Version : status[v] = "PUBLISHED"}
Newest(versions) == IF versions = {} THEN None ELSE Max(versions)

(* The versions whose window [effective_from, effective_to) has the day,   *)
(* and the one that active_for picks among them.                           *)
InForce(day) ==
  {v \in Version :
     /\ status[v] \in {"PUBLISHED", "RETIRED"}
     /\ effectiveFrom[v] # None /\ effectiveFrom[v] <= day
     /\ effectiveTo[v] = None \/ effectiveTo[v] > day}

ActiveFor(day) == Newest(InForce(day))

(* RecipeVersion.save refuses to update a PUBLISHED row unless it retires  *)
(* it, that is, changes its effective_to.                                  *)
Immutable(v, to) == status[v] = "PUBLISHED" /\ effectiveTo[v] = to

(* The constraint recipe_effective_window_valid. *)
WindowValid(v, to) == effectiveFrom[v] = None \/ to > effectiveFrom[v]

(* The rows a request has updated and not committed yet. *)
Updated(r) == IF pc[r] \in {"retired", "checked"} THEN {current[r]} ELSE {}
Unlocked(r, v) == \A q \in Request \ {r} : v \notin Updated(q)

Go(r, there) == pc' = [pc EXCEPT ![r] = there]

Forget(r) ==
  /\ Go(r, "idle")
  /\ target' = [target EXCEPT ![r] = None] /\ seen' = [seen EXCEPT ![r] = None]
  /\ date' = [date EXCEPT ![r] = None] /\ current' = [current EXCEPT ![r] = None]

Finish(r) == Forget(r) /\ stale' = stale \ {r}

(* The end of a transaction that changed a version: whoever is at work on  *)
(* one has read something older.                                           *)
Commit(r) ==
  /\ Forget(r)
  /\ stale' = (stale \cup {q \in Request : pc[q] \notin {"idle", "numbered"}}) \ {r}
  /\ raced' = (raced \/ r \in stale)
-----------------------------------------------------------------------------
(* The menu item itself. *)
CreateItem ==
  /\ item = "ABSENT"
  /\ item' = "ACTIVE"
  /\ UNCHANGED <<status, effectiveFrom, effectiveTo, orders, today, locals, stale, raced, overtaken>>

(* PATCH writes either status, deactivate the second one; both whatever    *)
(* the history.                                                            *)
EditItem(s) ==
  /\ item \in {"ACTIVE", "INACTIVE"}
  /\ item' = s
  /\ UNCHANGED <<status, effectiveFrom, effectiveTo, orders, today, locals, stale, raced, overtaken>>

(* DELETE is refused with orders (guard_delete) and with versions, which   *)
(* are foreign keys under PROTECT.                                         *)
DeleteItemUnprotected ==
  /\ item \in {"ACTIVE", "INACTIVE"}
  /\ orders = {}
  /\ item' = "DELETED"
  /\ UNCHANGED <<status, effectiveFrom, effectiveTo, orders, today, locals, stale, raced, overtaken>>

DeleteItem ==
  /\ item \in {"ACTIVE", "INACTIVE"}
  /\ orders = {} /\ Existing = {}
  /\ item' = "DELETED"
  /\ UNCHANGED <<status, effectiveFrom, effectiveTo, orders, today, locals, stale, raced, overtaken>>

(* A new version takes the number after the last one it can see; the       *)
(* unique constraint refuses a number somebody else inserted meanwhile.    *)
NumberVersion(r) ==
  /\ pc[r] = "idle" /\ item \in {"ACTIVE", "INACTIVE"}
  /\ Cardinality(Existing) < MaxVersion
  /\ Go(r, "numbered")
  /\ target' = [target EXCEPT ![r] = IF Existing = {} THEN 1 ELSE Newest(Existing) + 1]
  /\ UNCHANGED <<recipes, orders, today, seen, date, current, stale, raced, overtaken>>

InsertVersion(r) ==
  /\ pc[r] = "numbered"
  /\ target[r] \notin Existing /\ item \in {"ACTIVE", "INACTIVE"}
  /\ status' = [status EXCEPT ![target[r]] = "DRAFT"]
  /\ Finish(r)
  /\ UNCHANGED <<item, effectiveFrom, effectiveTo, orders, today, raced, overtaken>>
-----------------------------------------------------------------------------
LoadVersion(r, v) ==
  /\ pc[r] = "idle" /\ v \in Existing
  /\ target' = [target EXCEPT ![r] = v]
  /\ seen' = [seen EXCEPT ![r] = status[v]]

LoadForReview(r, v) ==
  /\ LoadVersion(r, v)
  /\ Go(r, "submitting")
  /\ UNCHANGED <<recipes, orders, today, date, current, stale, raced, overtaken>>

LoadForPublish(r, v, d) ==
  /\ LoadVersion(r, v)
  /\ Go(r, "publishing")
  /\ date' = [date EXCEPT ![r] = d]
  /\ UNCHANGED <<recipes, orders, today, current, stale, raced, overtaken>>

(* "Only draft versions can enter review", "Only draft or review versions  *)
(* can be published": by the status that was loaded.                       *)
Refuse(r) ==
  /\ \/ pc[r] = "submitting" /\ seen[r] # "DRAFT"
     \/ pc[r] = "publishing" /\ seen[r] \notin {"DRAFT", "REVIEW"}
  /\ Finish(r)
  /\ UNCHANGED <<recipes, orders, today, raced, overtaken>>

(* submit_for_review: save looks at the row, then updates it. *)
CheckReviewOfAny(r) ==
  /\ pc[r] = "submitting"
  /\ ~Immutable(target[r], None)
  /\ Go(r, "submitted")
  /\ UNCHANGED <<recipes, orders, today, target, seen, date, current, stale, raced, overtaken>>

CheckReview(r) ==
  /\ pc[r] = "submitting" /\ seen[r] = "DRAFT"
  /\ ~Immutable(target[r], None)
  /\ Go(r, "submitted")
  /\ UNCHANGED <<recipes, orders, today, target, seen, date, current, stale, raced, overtaken>>

SaveReview(r) ==
  /\ pc[r] = "submitted" /\ Unlocked(r, target[r])
  /\ status' = [status EXCEPT ![target[r]] = "REVIEW"]
  /\ Commit(r)
  /\ UNCHANGED <<item, effectiveFrom, effectiveTo, orders, today, overtaken>>

(* publish_version: choose the newest other PUBLISHED version, ...         *)
ChooseCurrent(r) ==
  /\ pc[r] = "publishing" /\ seen[r] \in {"DRAFT", "REVIEW"}
  /\ Go(r, "chosen")
  /\ current' = [current EXCEPT ![r] = Newest(Published \ {target[r]})]
  /\ UNCHANGED <<recipes, orders, today, target, seen, date, stale, raced, overtaken>>

(* ... retire it, if there is one, ...                                     *)
RetireCurrent(r) ==
  /\ pc[r] = "chosen"
  /\ current[r] # None => /\ Unlocked(r, current[r])
                          /\ WindowValid(current[r], date[r])
  /\ Go(r, "retired")
  /\ UNCHANGED <<recipes, orders, today, target, seen, date, current, stale, raced, overtaken>>

(* ... and save the version, which first looks at its row.                 *)
CheckPublish(r) ==
  /\ pc[r] = "retired"
  /\ ~Immutable(target[r], None)
  /\ Go(r, "checked")
  /\ UNCHANGED <<recipes, orders, today, target, seen, date, current, stale, raced, overtaken>>

PublishLeavingWindow(r) ==
  /\ pc[r] = "checked" /\ Unlocked(r, target[r])
  /\ status' = [v \in Version |-> IF v = target[r] THEN "PUBLISHED"
                                  ELSE IF v = current[r] THEN "RETIRED" ELSE status[v]]
  /\ effectiveFrom' = [effectiveFrom EXCEPT ![target[r]] = date[r]]
  /\ effectiveTo' = [effectiveTo EXCEPT ![target[r]] = None]
  /\ overtaken' = overtaken \cup {o \in orders : date[r] <= o[1]}
  /\ Commit(r)
  /\ UNCHANGED <<item, orders, today>>

Publish(r) ==
  /\ pc[r] = "checked" /\ Unlocked(r, target[r])
  /\ status' = [v \in Version |-> IF v = target[r] THEN "PUBLISHED"
                                  ELSE IF v = current[r] THEN "RETIRED" ELSE status[v]]
  /\ effectiveFrom' = [effectiveFrom EXCEPT ![target[r]] = date[r]]
  /\ effectiveTo' = [v \in Version |-> IF v = target[r] THEN None
                                       ELSE IF v = current[r] THEN date[r] ELSE effectiveTo[v]]
  /\ overtaken' = overtaken \cup {o \in orders : date[r] <= o[1]}
  /\ Commit(r)
  /\ UNCHANGED <<item, orders, today>>

(* An exception rolls the request back: a violated constraint, an          *)
(* ImmutableVersionError, a deadlock, a crash.                             *)
Fail(r) ==
  /\ pc[r] \notin {"idle", "submitting", "publishing"}
  /\ Finish(r)
  /\ UNCHANGED <<recipes, orders, today, raced, overtaken>>
-----------------------------------------------------------------------------
(* A sale of today or of a day before becomes an order item with the       *)
(* version active on its day.                                              *)
SellNewest(day) ==
  /\ item \in {"ACTIVE", "INACTIVE"} /\ day <= today
  /\ Published # {} /\ Cardinality(orders) < MaxOrders
  /\ orders' = orders \cup {<<day, Newest(Published)>>}
  /\ overtaken' = overtaken \ {<<day, Newest(Published)>>}
  /\ UNCHANGED <<recipes, today, locals, stale, raced>>

Sell(day) ==
  /\ item \in {"ACTIVE", "INACTIVE"} /\ day <= today
  /\ ActiveFor(day) # None /\ Cardinality(orders) < MaxOrders
  /\ orders' = orders \cup {<<day, ActiveFor(day)>>}
  /\ overtaken' = overtaken \ {<<day, ActiveFor(day)>>}
  /\ UNCHANGED <<recipes, today, locals, stale, raced>>

Midnight ==
  /\ today < MaxDate
  /\ today' = today + 1
  /\ UNCHANGED <<recipes, orders, locals, stale, raced, overtaken>>

Review(r) == CheckReview(r) \/ SaveReview(r)
PublishSteps(r) == ChooseCurrent(r) \/ RetireCurrent(r) \/ CheckPublish(r) \/ Publish(r)

Next ==
  \/ CreateItem \/ DeleteItem
  \/ \E s \in {"ACTIVE", "INACTIVE"} : EditItem(s)
  \/ \E r \in Request :
       \/ NumberVersion(r) \/ InsertVersion(r)
       \/ \E v \in Version : LoadForReview(r, v) \/ \E d \in Date : LoadForPublish(r, v, d)
       \/ Refuse(r) \/ Review(r) \/ PublishSteps(r) \/ Fail(r)
  \/ \E day \in Date : Sell(day)
  \/ Midnight

Spec == Init /\ [][Next]_vars
-----------------------------------------------------------------------------
(* The recipe costing report prices every PUBLISHED version, whatever its  *)
(* date; the price of a version is data.                                   *)
RecipeCosting == Published
-----------------------------------------------------------------------------
(* "The outgoing version's effective_to is closed at the new version's     *)
(* effective_from, so date-based resolution never overlaps" (publish_version): *)
(* no day has two versions in force, and the costing report has one row    *)
(* per item, for the version that the last day resolves to, unless a       *)
(* request committed what it had read before another one committed.        *)
WindowsAreDisjoint ==
  ~raced =>
    /\ \A day \in Date : Cardinality(InForce(day)) <= 1
    /\ RecipeCosting = {v \in Version : v = ActiveFor(MaxDate)}

(* An order keeps the version in force on its day: resolving the day again *)
(* gives what the order got, for ever, unless somebody published from that *)
(* day or an earlier one on afterwards.                                    *)
OrdersKeepRecipe ==
  ~raced => \A o \in orders \ overtaken : ActiveFor(o[1]) = o[2]

(* "live service is unaffected until that date" (spec.md): a step changes  *)
(* the recipe of a day only by publishing from that day or before on.      *)
LiveUntilDate ==
  [][~raced' => \A day \in Date :
        ActiveFor(day)' # ActiveFor(day) =>
          \E r \in Request : pc[r] = "checked" /\ date[r] <= day]_vars
=============================================================================
