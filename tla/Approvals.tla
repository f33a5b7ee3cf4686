----------------------------- MODULE Approvals -----------------------------
(***************************************************************************)
(* The approval engine (backend/apps/core/services.py) and the documents   *)
(* that go through it: transfers, stock takes, wastage entries and         *)
(* purchase budgets.                                                       *)
(*                                                                         *)
(* A request loads its document, or its Approval, outside any transaction; *)
(* the service then works on that copy.  A posting compares the document's *)
(* value with the active threshold of its scope and either queues the      *)
(* document (PENDING_APPROVAL plus a new Approval) or posts it.  A         *)
(* decision updates the Approval, which locks its row until the commit,    *)
(* reads the subject afresh and calls its on_approval_decided: everything  *)
(* the callback does commits with the decision or not at all.              *)
(*                                                                         *)
(* Stock is abstracted to who posted what: post_movements itself, with its *)
(* row locks, is StockLedger.  The threshold_snapshot of an Approval is    *)
(* left out: it is written once and nothing reads it.                      *)
(***************************************************************************)
EXTENDS Integers

CONSTANTS
  Doc,       \* documents that may need an approval
  Approval,  \* primary keys of Approval rows; their number is a bound
  Request,   \* requests that run at the same time
  None,      \* no document, no approval, no active threshold
  KindOf,    \* "transfer", "take" (StockTake), "wastage" or "budget"
  Scope, ScopeOf, \* ThresholdConfig.Scope, and the scope of a document
  Value,     \* monetary values of documents
  Amount     \* amounts a threshold is set to

Limit == Amount \cup {None}
Kind == {"transfer", "take", "wastage", "budget"}

ASSUME ApprovalConstants ==
  /\ None \notin Doc \cup Approval \cup Request \cup Amount
  /\ KindOf \in [Doc -> Kind]
  /\ ScopeOf \in [Doc -> Scope]
  /\ Value \subseteq Nat
  /\ Amount \subseteq Nat

VARIABLES
  limit,          \* the active ThresholdConfig amount of each scope, or None
  value,          \* what a document is worth now
  docStatus,      \* its status; ABSENT until a wastage entry is committed
  posted,         \* the postings in the ledger: who moved which document
  subject,        \* the document an Approval is about; None: no such row yet
  approvalStatus, \* Approval.status
  approvalLock,   \* the request whose transaction updated the Approval
  pc, doc, approval, decision, \* the request: where it is, what it is about
  seen,           \* the status of its document or Approval as it was loaded
  amount,         \* the value it computed
  seenLimit       \* the threshold it compared that value with

database == <<limit, value, docStatus, posted, subject, approvalStatus>>
locals == <<doc, approval, decision, seen, amount, seenLimit>>
vars == <<database, approvalLock, pc, locals>>

Open == {"PENDING", "INVESTIGATION"}
Decision == {"APPROVED", "REJECTED", "INVESTIGATION"}

(* DRAFT is IN_PROGRESS for a stock take; PENDING_APPROVAL is SUBMITTED    *)
(* and POSTED is APPROVED for a budget.                                    *)
DocStatus == {"ABSENT", "DRAFT", "PENDING_APPROVAL", "POSTED", "REJECTED"}

(* What the properties tell apart of a posting: whether it was worth more  *)
(* than the threshold its transaction read, and the decision it was made   *)
(* under.                                                                  *)
Posting == [doc : Doc, above : BOOLEAN, under : Decision \cup {"NONE"}]

(* Every variable has the type its column or local has in the code. *)
TypeOK ==
  /\ limit \in [Scope -> Limit]
  /\ value \in [Doc -> Value]
  /\ docStatus \in [Doc -> DocStatus]
  /\ posted \in SUBSET Posting
  /\ subject \in [Approval -> Doc \cup {None}]
  /\ approvalStatus \in [Approval -> {"PENDING"} \cup Decision]
  /\ approvalLock \in [Approval -> Request \cup {None}]
  /\ pc \in [Request -> {"idle", "loaded", "routed", "decided", "cleared", "posting"}]
  /\ doc \in [Request -> Doc \cup {None}]
  /\ approval \in [Request -> Approval \cup {None}]
  /\ decision \in [Request -> Decision \cup {"NONE"}]
  /\ seen \in [Request -> DocStatus \cup {"PENDING"} \cup Decision]
  /\ amount \in [Request -> Value \cup {0}]
  /\ seenLimit \in [Request -> Limit]

Init ==
  /\ limit \in [Scope -> Limit]
  /\ value \in [Doc -> Value]
  /\ docStatus = [d \in Doc |-> IF KindOf[d] = "wastage" THEN "ABSENT" ELSE "DRAFT"]
  /\ posted = {}
  /\ subject = [a \in Approval |-> None]
  /\ approvalStatus = [a \in Approval |-> "PENDING"]
  /\ approvalLock = [a \in Approval |-> None]
  /\ pc = [r \in Request |-> "idle"]
  /\ doc = [r \in Request |-> None]
  /\ approval = [r \in Request |-> None]
  /\ decision = [r \in Request |-> "NONE"]
  /\ seen = [r \in Request |-> "ABSENT"]
  /\ amount = [r \in Request |-> 0]
  /\ seenLimit = [r \in Request |-> None]

IsPosting(r) == approval[r] = None
IsDecision(r) == approval[r] # None
KindIs(r, kinds) == KindOf[doc[r]] \in kinds

RequiresApprovalBelow(v, l) == l # None /\ v < l  \* mutant: compared the wrong way
RequiresApproval(v, l) == l # None /\ v > l

HasRows(d) == \E p \in posted : p.doc = d

-----------------------------------------------------------------------------
(* The end of a request, and of its transaction.                           *)
EndRequest(r) ==
  /\ pc' = [pc EXCEPT ![r] = "idle"]
  /\ doc' = [doc EXCEPT ![r] = None]
  /\ approval' = [approval EXCEPT ![r] = None]
  /\ decision' = [decision EXCEPT ![r] = "NONE"]
  /\ seen' = [seen EXCEPT ![r] = "ABSENT"]
  /\ amount' = [amount EXCEPT ![r] = 0]
  /\ seenLimit' = [seenLimit EXCEPT ![r] = None]
  /\ approvalLock' = [a \in Approval |-> IF approvalLock[a] = r THEN None
                                                                ELSE approvalLock[a]]

(* What decide_approval has saved by the end of r: the decision.           *)
DecidedRaw(r) ==  \* mutant: saves the word of the URL, not Approval.Status
  [a \in Approval |-> IF a = approval[r] /\ approvalLock[a] = r THEN "approve"
                                                               ELSE approvalStatus[a]]
Decided(r) ==
  [a \in Approval |-> IF a = approval[r] /\ approvalLock[a] = r THEN decision[r]
                                                               ELSE approvalStatus[a]]

RollbackKeepsDecision(r) ==  \* mutant: the decision commits before the callback
  /\ approvalStatus' = Decided(r)
  /\ EndRequest(r)
  /\ UNCHANGED <<limit, value, docStatus, posted, subject>>
Rollback(r) == EndRequest(r) /\ UNCHANGED database

(* r commits: its document's new status, new ledger rows if any, and, when *)
(* r decides, the decision.                                                *)
Commit(r, newStatus, newPosted) ==
  /\ docStatus' = [docStatus EXCEPT ![doc[r]] = newStatus]
  /\ posted' = newPosted
  /\ approvalStatus' = Decided(r)
  /\ EndRequest(r)
  /\ UNCHANGED <<limit, value, subject>>

(* The row submit_for_approval creates, and its commit with the document.  *)
SubmitUnqueued(r) ==  \* mutant: PENDING_APPROVAL is saved, nothing submitted
  /\ docStatus' = [docStatus EXCEPT ![doc[r]] = "PENDING_APPROVAL"]
  /\ EndRequest(r)
  /\ UNCHANGED <<limit, value, posted, subject, approvalStatus>>
Submit(r) ==
  /\ \E a \in Approval :
       /\ subject[a] = None
       /\ subject' = [subject EXCEPT ![a] = doc[r]]
  /\ docStatus' = [docStatus EXCEPT ![doc[r]] = "PENDING_APPROVAL"]
  /\ EndRequest(r)
  /\ UNCHANGED <<limit, value, posted, approvalStatus>>

-----------------------------------------------------------------------------
(* An administrator changes, sets or deactivates a threshold. *)
SetThreshold(s) ==
  /\ \E l \in Limit \ {limit[s]} : limit' = [limit EXCEPT ![s] = l]
  /\ UNCHANGED <<value, docStatus, posted, subject, approvalStatus,
                 approvalLock, pc, locals>>

(* The worth of a transfer or of a stock take's variances changes: a GRN   *)
(* sets a new latest cost, or counts are edited, whatever the status.      *)
Revalue(d) ==
  /\ KindOf[d] \in {"transfer", "take"}
  /\ \E v \in Value \ {value[d]} : value' = [value EXCEPT ![d] = v]
  /\ UNCHANGED <<limit, docStatus, posted, subject, approvalStatus,
                 approvalLock, pc, locals>>

(* A view loads the document it is asked to post or submit.                *)
LoadDocument(r) ==
  /\ pc[r] = "idle"
  /\ \E d \in Doc :
       /\ KindOf[d] # "wastage"
       /\ doc' = [doc EXCEPT ![r] = d]
       /\ seen' = [seen EXCEPT ![r] = docStatus[d]]
  /\ pc' = [pc EXCEPT ![r] = "loaded"]
  /\ UNCHANGED <<database, approvalLock, approval, decision, amount, seenLimit>>

(* A wastage entry is created, routed and posted in one transaction: no    *)
(* other request sees it before the commit.                                *)
CreateWastage(r) ==
  /\ pc[r] = "idle"
  /\ \E d \in Doc :
       /\ KindOf[d] = "wastage"
       /\ docStatus[d] = "ABSENT"
       /\ \A q \in Request : doc[q] # d
       /\ doc' = [doc EXCEPT ![r] = d]
  /\ seen' = [seen EXCEPT ![r] = "DRAFT"]
  /\ pc' = [pc EXCEPT ![r] = "loaded"]
  /\ UNCHANGED <<database, approvalLock, approval, decision, amount, seenLimit>>

(* A manager's request loads the Approval it decides.                      *)
LoadApproval(r) ==
  /\ pc[r] = "idle"
  /\ \E a \in Approval, dec \in Decision :
       /\ subject[a] # None
       /\ approval' = [approval EXCEPT ![r] = a]
       /\ doc' = [doc EXCEPT ![r] = subject[a]]
       /\ seen' = [seen EXCEPT ![r] = approvalStatus[a]]
       /\ decision' = [decision EXCEPT ![r] = dec]
  /\ pc' = [pc EXCEPT ![r] = "loaded"]
  /\ UNCHANGED <<database, approvalLock, amount, seenLimit>>

-----------------------------------------------------------------------------
(* Posting and submitting.                                                 *)

(* The service returns at once: a POSTED document is not posted again, and *)
(* only a DRAFT budget is submitted.                                       *)
ReturnAtOnce(r) ==
  /\ pc[r] = "loaded" /\ IsPosting(r)
  /\ IF KindIs(r, {"budget"}) THEN seen[r] # "DRAFT" ELSE seen[r] = "POSTED"
  /\ Rollback(r)

SubmitBudget(r) ==
  /\ pc[r] = "loaded" /\ IsPosting(r)
  /\ KindIs(r, {"budget"}) /\ seen[r] = "DRAFT"
  /\ Submit(r)

(* requires_approval: the value, computed now, against the threshold that  *)
(* is active now.  PENDING_APPROVAL and REJECTED documents get here too.   *)
Route(r) ==
  /\ pc[r] = "loaded" /\ IsPosting(r)
  /\ ~KindIs(r, {"budget"}) /\ seen[r] # "POSTED"
  /\ LET l == limit[ScopeOf[doc[r]]]
         v == value[doc[r]]
     IN  /\ amount' = [amount EXCEPT ![r] = v]
         /\ seenLimit' = [seenLimit EXCEPT ![r] = l]
         /\ pc' = [pc EXCEPT ![r] = IF RequiresApproval(v, l) THEN "routed" ELSE "cleared"]
  /\ UNCHANGED <<database, approvalLock, doc, approval, decision, seen>>

SubmitForApproval(r) == pc[r] = "routed" /\ Submit(r)

(* A stock take without a variance is POSTED without movements.            *)
PostNoVariance(r) ==
  /\ pc[r] = "cleared"
  /\ KindIs(r, {"take"}) /\ amount[r] = 0
  /\ Commit(r, "POSTED", posted)

(* post_movements finds rows of the document, or begins to append them; it *)
(* does not see those another transaction is about to commit.              *)
ReturnExisting(r) ==
  /\ pc[r] = "cleared"
  /\ HasRows(doc[r])
  /\ Commit(r, "POSTED", posted)

BeginPosting(r) ==
  /\ pc[r] = "cleared"
  /\ ~HasRows(doc[r])
  /\ pc' = [pc EXCEPT ![r] = "posting"]
  /\ UNCHANGED <<database, approvalLock, locals>>

Post(r) ==
  /\ pc[r] = "posting"
  /\ Commit(r, "POSTED",
            posted \cup {[doc |-> doc[r],
                          above |-> seenLimit[r] # None /\ amount[r] > seenLimit[r],
                          under |-> decision[r]]})

-----------------------------------------------------------------------------
(* Deciding.                                                               *)

MayDecideRejected(s) == s # "APPROVED"  \* mutant: a rejection may be decided again
MayDecide(s) == s \in Open

(* The request is refused: the loaded Approval was finalised, or a         *)
(* rejection has no reason.                                                *)
RefuseDecision(r) ==
  /\ pc[r] = "loaded" /\ IsDecision(r)
  /\ ~MayDecide(seen[r]) \/ decision[r] = "REJECTED"
  /\ Rollback(r)

(* The UPDATE of the Approval waits for another decision on the same row;  *)
(* the status is not tested again.                                         *)
SaveDecision(r) ==
  /\ pc[r] = "loaded" /\ IsDecision(r)
  /\ MayDecide(seen[r])
  /\ approvalLock[approval[r]] = None
  /\ approvalLock' = [approvalLock EXCEPT ![approval[r]] = r]
  /\ pc' = [pc EXCEPT ![r] = "decided"]
  /\ UNCHANGED <<database, locals>>

(* on_approval_decided posts an approved stock document that is not POSTED *)
(* yet, without comparing its value with a threshold again.                *)
CallbackPosts(r) ==
  /\ pc[r] = "decided"
  /\ decision[r] = "APPROVED"
  /\ ~KindIs(r, {"budget"}) /\ docStatus[doc[r]] # "POSTED"
  /\ amount' = [amount EXCEPT ![r] = value[doc[r]]]
  /\ pc' = [pc EXCEPT ![r] = "cleared"]
  /\ UNCHANGED <<database, approvalLock, doc, approval, decision, seen, seenLimit>>

CallbackApproves(r) ==
  /\ pc[r] = "decided"
  /\ decision[r] = "APPROVED"
  /\ KindIs(r, {"budget"})
  /\ Commit(r, "POSTED", posted)

(* A rejected transfer, wastage entry or budget is marked so, whatever its *)
(* status is by then.                                                      *)
CallbackRejects(r) ==
  /\ pc[r] = "decided"
  /\ decision[r] = "REJECTED" /\ ~KindIs(r, {"take"})
  /\ Commit(r, "REJECTED", posted)

(* The callback does nothing: the document is POSTED already, the decision *)
(* is an investigation, or a stock take was rejected.                      *)
CallbackIgnores(r) ==
  /\ pc[r] = "decided"
  /\ \/ decision[r] = "APPROVED" /\ ~KindIs(r, {"budget"}) /\ docStatus[doc[r]] = "POSTED"
     \/ decision[r] = "REJECTED" /\ KindIs(r, {"take"})
     \/ decision[r] = "INVESTIGATION"
  /\ Commit(r, docStatus[doc[r]], posted)

(* A transfer finds too little stock, or the process or its connection     *)
(* dies: the transaction is rolled back, a decision included.              *)
Fail(r) == pc[r] # "idle" /\ Rollback(r)

Next ==
  \/ \E s \in Scope : SetThreshold(s)
  \/ \E d \in Doc : Revalue(d)
  \/ \E r \in Request :
       \/ LoadDocument(r) \/ CreateWastage(r) \/ LoadApproval(r)
       \/ ReturnAtOnce(r) \/ SubmitBudget(r) \/ Route(r) \/ SubmitForApproval(r)
       \/ PostNoVariance(r) \/ ReturnExisting(r) \/ BeginPosting(r) \/ Post(r)
       \/ RefuseDecision(r) \/ SaveDecision(r)
       \/ CallbackPosts(r) \/ CallbackApproves(r) \/ CallbackRejects(r) \/ CallbackIgnores(r)
       \/ Fail(r)

Spec == Init /\ [][Next]_vars
-----------------------------------------------------------------------------
(* Nothing above its threshold is posted unless a manager approved it      *)
(* (SC-012): the threshold is the one the posting transaction read, and no *)
(* other decision than an approval ever posts.                             *)
PostedWithClearance ==
  \A p \in posted : p.under = "APPROVED" \/ (p.under = "NONE" /\ ~p.above)

(* Decisions, statuses and stock agree: a transfer or wastage entry that   *)
(* is POSTED, or has an APPROVED Approval, has moved its stock, whatever   *)
(* failed on the way and whoever else posted or decided it.                *)
StockFollowsDecisions ==
  \A d \in Doc :
    (/\ KindOf[d] \in {"transfer", "wastage"}
     /\ \/ docStatus[d] = "POSTED"
        \/ \E a \in Approval : subject[a] = d /\ approvalStatus[a] = "APPROVED")
    => HasRows(d)

(* The managers' queue is complete: a document that waits for an approval  *)
(* has an open one (a rejected stock take is left waiting), and a rejected *)
(* one has a rejection to show, unless a stale request put that Approval   *)
(* under investigation, although every status is written from a copy read  *)
(* earlier.                                                                *)
StatusMatchesQueue ==
  LET Has(d, statuses) ==
        \E a \in Approval : subject[a] = d /\ approvalStatus[a] \in statuses
  IN  \A d \in Doc :
        /\ docStatus[d] = "PENDING_APPROVAL" =>
             Has(d, Open \cup IF KindOf[d] = "take" THEN {"REJECTED"} ELSE {})
        /\ docStatus[d] = "REJECTED" => Has(d, {"REJECTED", "INVESTIGATION"})

(* A final decision is replaced only by a manager whose request had loaded *)
(* the Approval while it was still open.                                   *)
FinalUnlessRaced ==
  [][\A a \in Approval :
       (subject[a] # None /\ approvalStatus[a] \notin Open
         /\ approvalStatus'[a] # approvalStatus[a])
       => \E r \in Request : approval[r] = a /\ seen[r] \in Open /\ approvalLock[a] = r]_vars
=============================================================================
