-------------------------- MODULE ApprovalsProofs --------------------------
(***************************************************************************)
(* Proofs about Approvals, for any number of documents of any kinds,       *)
(* approvals, thresholds and concurrent requests.                          *)
(***************************************************************************)
EXTENDS Approvals, TLAPS

USE ApprovalConstants

(* A request that ends keeps the types of its locals and locks.            *)
LEMMA EndRequestType ==
  ASSUME TypeOK, NEW r \in Request, EndRequest(r)
  PROVE  /\ approvalLock' \in [Approval -> Request \cup {None}]
         /\ pc' \in [Request -> {"idle", "loaded", "routed", "decided", "cleared", "posting"}]
         /\ doc' \in [Request -> Doc \cup {None}]
         /\ approval' \in [Request -> Approval \cup {None}]
         /\ decision' \in [Request -> Decision \cup {"NONE"}]
         /\ seen' \in [Request -> DocStatus \cup {"PENDING"} \cup Decision]
         /\ amount' \in [Request -> Value \cup {0}]
         /\ seenLimit' \in [Request -> Limit]
  BY DEF TypeOK, EndRequest, DocStatus, Limit

(* A rollback keeps the types.                                             *)
LEMMA RollbackType ==
  ASSUME TypeOK, NEW r \in Request, Rollback(r)
  PROVE  TypeOK'
  BY EndRequestType DEF TypeOK, Rollback, database

(* The decision a commit saves is one: a request that holds the lock of    *)
(* its approval has a decision.                                            *)
LEMMA DecidedType ==
  ASSUME TypeOK, NEW r \in Request,
         \A a \in Approval : approvalLock[a] = r => decision[r] \in Decision
  PROVE  Decided(r) \in [Approval -> {"PENDING"} \cup Decision]
  BY DEF TypeOK, Decided

(* A commit keeps the types.                                               *)
LEMMA CommitType ==
  ASSUME TypeOK, NEW r \in Request, NEW s \in DocStatus, NEW p \in SUBSET Posting,
         \A a \in Approval : approvalLock[a] = r => decision[r] \in Decision,
         Commit(r, s, p)
  PROVE  TypeOK'
  <1>1. approvalStatus' \in [Approval -> {"PENDING"} \cup Decision]
    BY DecidedType DEF Commit
  <1>2. docStatus' \in [Doc -> DocStatus]
    BY DEF Commit, TypeOK
  <1>3. EndRequest(r) /\ posted' = p /\ UNCHANGED <<limit, value, subject>>
    BY DEF Commit
  <1>4. QED
    BY <1>1, <1>2, <1>3, EndRequestType DEF TypeOK

(* A submission keeps the types.                                           *)
LEMMA SubmitType ==
  ASSUME TypeOK, NEW r \in Request, Submit(r), doc[r] \in Doc
  PROVE  TypeOK'
  <1>1. docStatus' \in [Doc -> DocStatus] /\ subject' \in [Approval -> Doc \cup {None}]
    BY DEF Submit, TypeOK, DocStatus
  <1>2. EndRequest(r) /\ UNCHANGED <<limit, value, posted, approvalStatus>>
    BY DEF Submit
  <1>3. QED
    BY <1>1, <1>2, EndRequestType DEF TypeOK

-----------------------------------------------------------------------------
(* What the locals of a request mean at each step of it.                   *)

(* A request is about a document; one that decides is about an Approval of *)
(* that document.                                                          *)
AboutDocument(r) ==
  /\ pc[r] # "idle" => doc[r] \in Doc
  /\ pc[r] = "idle" => approval[r] = None
  /\ approval[r] = None => decision[r] = "NONE"
  /\ approval[r] # None => /\ decision[r] \in Decision
                           /\ subject[approval[r]] = doc[r]
                           /\ doc[r] \in Doc

(* A request that decided saw an open Approval and holds the lock of its   *)
(* row; only an approval goes on to post.                                  *)
DecidesOpen(r) ==
  /\ pc[r] \in {"routed"} => approval[r] = None
  /\ pc[r] = "decided" => approval[r] # None
  /\ (pc[r] \in {"decided", "cleared", "posting"} /\ approval[r] # None)
       => approvalLock[approval[r]] = r /\ seen[r] \in Open
  /\ (pc[r] \in {"cleared", "posting"} /\ approval[r] # None) => decision[r] = "APPROVED"

(* A request that posts without a decision is within the threshold.        *)
WithinLimit(r) ==
  (pc[r] \in {"cleared", "posting"} /\ approval[r] = None)
    => ~RequiresApproval(amount[r], seenLimit[r])

(* Budgets are never posted to the ledger. *)
PostsStock(r) == pc[r] \in {"routed", "cleared", "posting"} => KindOf[doc[r]] # "budget"

(* Locks are held by requests that decide. *)
LocksHeld ==
  \A a \in Approval, r \in Request :
    approvalLock[a] = r => approval[r] = a /\ pc[r] \in {"decided", "cleared", "posting"}

(* Only an Approval that exists is decided. *)
DecidedExist == \A a \in Approval : approvalStatus[a] # "PENDING" => subject[a] # None

RequestInv ==
  /\ \A r \in Request :
       AboutDocument(r) /\ DecidesOpen(r) /\ WithinLimit(r) /\ PostsStock(r)
  /\ LocksHeld
  /\ DecidedExist

Inv == TypeOK /\ RequestInv

(* The invariant holds when the behaviour begins.                          *)
LEMMA InitInv == Init => Inv
  <1> SUFFICES ASSUME Init PROVE Inv
    OBVIOUS
  <1>1. TypeOK
    BY DEF Init, TypeOK, DocStatus, Limit
  <1>2. ASSUME NEW r \in Request
        PROVE  AboutDocument(r) /\ DecidesOpen(r) /\ WithinLimit(r) /\ PostsStock(r)
    <2>1. pc[r] = "idle" /\ approval[r] = None /\ decision[r] = "NONE"
      BY DEF Init
    <2>2. QED
      BY <2>1 DEF AboutDocument, DecidesOpen, WithinLimit, PostsStock
  <1>3. LocksHeld
    BY DEF Init, LocksHeld
  <1>4. DecidedExist
    BY DEF Init, DecidedExist
  <1>5. QED
    BY <1>1, <1>2, <1>3, <1>4 DEF Inv, RequestInv

(* A request that ends leaves the others as they were. *)
LEMMA EndRequestInv ==
  ASSUME Inv, NEW r \in Request, EndRequest(r),
         \A a \in Approval : subject[a] # None => subject'[a] = subject[a]
  PROVE  /\ \A q \in Request :
              AboutDocument(q)' /\ DecidesOpen(q)' /\ WithinLimit(q)' /\ PostsStock(q)'
         /\ LocksHeld'
  <1> USE DEF Inv
  <1>1. \A q \in Request \ {r} :
          /\ pc'[q] = pc[q] /\ doc'[q] = doc[q] /\ approval'[q] = approval[q]
          /\ decision'[q] = decision[q] /\ seen'[q] = seen[q]
          /\ amount'[q] = amount[q] /\ seenLimit'[q] = seenLimit[q]
    BY DEF EndRequest, TypeOK
  <1>2. /\ pc'[r] = "idle" /\ approval'[r] = None /\ decision'[r] = "NONE"
    BY DEF EndRequest, TypeOK
  <1>3. \A a \in Approval : approvalLock'[a] = IF approvalLock[a] = r THEN None
                                                                     ELSE approvalLock[a]
    BY DEF EndRequest
  <1>4. ASSUME NEW q \in Request \ {r}
        PROVE  AboutDocument(q)' /\ DecidesOpen(q)' /\ WithinLimit(q)' /\ PostsStock(q)'
    <2>1. AboutDocument(q) /\ DecidesOpen(q) /\ WithinLimit(q) /\ PostsStock(q)
      BY DEF RequestInv
    <2>2. approval[q] \in Approval \cup {None}
      BY DEF TypeOK
    <2>3. AboutDocument(q)'
      BY <1>1, <2>1, <2>2 DEF AboutDocument
    <2>4. DecidesOpen(q)'
      BY <1>1, <1>3, <2>1, <2>2 DEF DecidesOpen
    <2>5. WithinLimit(q)' /\ PostsStock(q)'
      BY <1>1, <2>1 DEF WithinLimit, PostsStock, RequiresApproval
    <2>6. QED
      BY <2>3, <2>4, <2>5
  <1>5. AboutDocument(r)' /\ DecidesOpen(r)' /\ WithinLimit(r)' /\ PostsStock(r)'
    BY <1>2 DEF AboutDocument, DecidesOpen, WithinLimit, PostsStock
  <1>6. LocksHeld'
    BY <1>1, <1>3 DEF LocksHeld, RequestInv
  <1>7. QED
    BY <1>4, <1>5, <1>6

(* A rollback keeps the invariant, since nobody else sees it.              *)
LEMMA RollbackInv ==
  ASSUME Inv, NEW r \in Request, Rollback(r)
  PROVE  Inv'
  <1>1. TypeOK'
    BY RollbackType DEF Inv
  <1>2. DecidedExist'
    BY DEF Inv, RequestInv, DecidedExist, Rollback, database
  <1>3. QED
    BY <1>1, <1>2, EndRequestInv DEF Rollback, database, Inv, RequestInv

(* A commit keeps the invariant.                                           *)
LEMMA CommitInv ==
  ASSUME Inv, NEW r \in Request, NEW s \in DocStatus, NEW p \in SUBSET Posting,
         Commit(r, s, p)
  PROVE  Inv'
  <1>1. \A a \in Approval : approvalLock[a] = r =>
          approval[r] = a /\ decision[r] \in Decision /\ subject[a] \in Doc
    BY DEF Inv, RequestInv, LocksHeld, AboutDocument
  <1>2. TypeOK'
    BY <1>1, CommitType DEF Inv
  <1>3. DecidedExist'
    BY <1>1 DEF Inv, RequestInv, DecidedExist, Commit, Decided
  <1>4. QED
    BY <1>2, <1>3, EndRequestInv DEF Commit, Inv, RequestInv

(* A submission keeps the invariant: nobody knows its approval yet.        *)
LEMMA SubmitInv ==
  ASSUME Inv, NEW r \in Request, pc[r] # "idle", Submit(r)
  PROVE  Inv'
  <1>1. doc[r] \in Doc
    BY DEF Inv, RequestInv, AboutDocument
  <1>2. TypeOK'
    BY <1>1, SubmitType DEF Inv
  <1>3. \A a \in Approval : subject[a] # None => subject'[a] = subject[a]
    BY DEF Submit, Inv, TypeOK
  <1>4. DecidedExist'
    BY <1>3 DEF Inv, RequestInv, DecidedExist, Submit, TypeOK
  <1>5. QED
    BY <1>2, <1>3, <1>4, EndRequestInv DEF Submit, Inv, RequestInv

(* A request that moves on without writing the database: only its own      *)
(* conditions have to be shown.                                            *)
LEMMA MoveInv ==
  ASSUME Inv, NEW r \in Request, UNCHANGED database, TypeOK',
         \A q \in Request \ {r} :
           /\ pc'[q] = pc[q] /\ doc'[q] = doc[q] /\ approval'[q] = approval[q]
           /\ decision'[q] = decision[q] /\ seen'[q] = seen[q]
           /\ amount'[q] = amount[q] /\ seenLimit'[q] = seenLimit[q],
         \A a \in Approval : approvalLock'[a] = approvalLock[a]
                            \/ (approvalLock[a] = None /\ approvalLock'[a] = r),
         \A a \in Approval : approvalLock'[a] = r =>
             approval'[r] = a /\ pc'[r] \in {"decided", "cleared", "posting"},
         AboutDocument(r)', DecidesOpen(r)', WithinLimit(r)', PostsStock(r)'
  PROVE  Inv'
  <1>1. ASSUME NEW q \in Request \ {r}
        PROVE  AboutDocument(q)' /\ DecidesOpen(q)' /\ WithinLimit(q)' /\ PostsStock(q)'
    <2>1. AboutDocument(q) /\ DecidesOpen(q) /\ WithinLimit(q) /\ PostsStock(q)
      BY DEF Inv, RequestInv
    <2>2. approval[q] \in Approval \cup {None} /\ subject' = subject
      BY DEF Inv, TypeOK, database
    <2>3. AboutDocument(q)' /\ PostsStock(q)'
      BY <2>1, <2>2 DEF AboutDocument, PostsStock
    <2>4. DecidesOpen(q)'
      BY <2>1, <2>2 DEF DecidesOpen
    <2>5. WithinLimit(q)'
      BY <2>1 DEF WithinLimit, RequiresApproval
    <2>6. QED
      BY <2>3, <2>4, <2>5
  <1>2. LocksHeld'
    BY DEF Inv, RequestInv, LocksHeld
  <1>3. DecidedExist'
    BY DEF Inv, RequestInv, DecidedExist, database
  <1>4. QED
    BY <1>1, <1>2, <1>3 DEF Inv, RequestInv

(* A request reaches these commits with a document; what it posts is one   *)
(* more posting of that document.                                          *)
LEMMA PostedType ==
  ASSUME Inv, NEW r \in Request, pc[r] = "posting"
  PROVE  posted \cup {[doc |-> doc[r],
                      above |-> seenLimit[r] # None /\ amount[r] > seenLimit[r],
                      under |-> decision[r]]} \in SUBSET Posting
  <1>1. doc[r] \in Doc /\ decision[r] \in Decision \cup {"NONE"} /\ posted \in SUBSET Posting
    BY DEF Inv, TypeOK, RequestInv, AboutDocument
  <1> DEFINE above == seenLimit[r] # None /\ amount[r] > seenLimit[r]
  <1>2. above \in BOOLEAN
    OBVIOUS
  <1> HIDE DEF above
  <1>3. [doc |-> doc[r], above |-> above, under |-> decision[r]] \in Posting
    BY <1>1, <1>2 DEF Posting
  <1>4. QED
    BY <1>1, <1>3 DEF above

(* Every step keeps the invariant.                                         *)
LEMMA NextInv == Inv /\ [Next]_vars => Inv'
  <1> SUFFICES ASSUME Inv, [Next]_vars PROVE Inv'
    OBVIOUS
  <1>1. ASSUME NEW s \in Scope, SetThreshold(s) PROVE Inv'
    <2>1. TypeOK'
      BY <1>1 DEF SetThreshold, Inv, TypeOK, locals
    <2>2. RequestInv'
      BY <1>1 DEF SetThreshold, locals, Inv, RequestInv, AboutDocument, DecidesOpen,
                  WithinLimit, PostsStock, LocksHeld, DecidedExist
    <2>3. QED
      BY <2>1, <2>2 DEF Inv
  <1>2. ASSUME NEW d \in Doc, Revalue(d) PROVE Inv'
    <2>1. TypeOK'
      BY <1>2 DEF Revalue, Inv, TypeOK, locals
    <2>2. RequestInv'
      BY <1>2 DEF Revalue, locals, Inv, RequestInv, AboutDocument, DecidesOpen,
                  WithinLimit, PostsStock, LocksHeld, DecidedExist
    <2>3. QED
      BY <2>1, <2>2 DEF Inv
  <1>3. ASSUME NEW r \in Request, LoadDocument(r) PROVE Inv'
    <2>1. TypeOK'
      BY <1>3 DEF LoadDocument, Inv, TypeOK, database
    <2>2. AboutDocument(r) /\ DecidesOpen(r) /\ WithinLimit(r) /\ PostsStock(r) /\ LocksHeld
      BY DEF Inv, RequestInv
    <2>3. AboutDocument(r)' /\ DecidesOpen(r)' /\ WithinLimit(r)' /\ PostsStock(r)'
      BY <1>3, <2>2 DEF LoadDocument, Inv, TypeOK, database, AboutDocument, DecidesOpen,
                    WithinLimit, PostsStock, LocksHeld, IsPosting
    <2>4. /\ UNCHANGED database
          /\ \A q \in Request \ {r} :
               /\ pc'[q] = pc[q] /\ doc'[q] = doc[q] /\ approval'[q] = approval[q]
               /\ decision'[q] = decision[q] /\ seen'[q] = seen[q]
               /\ amount'[q] = amount[q] /\ seenLimit'[q] = seenLimit[q]
      BY <1>3 DEF LoadDocument, Inv, TypeOK, locals
    <2>5. \A a \in Approval : approvalLock'[a] = approvalLock[a]
                              \/ (approvalLock[a] = None /\ approvalLock'[a] = r)
      BY <1>3 DEF LoadDocument, Inv, TypeOK, locals
    <2>6. \A a \in Approval : approvalLock[a] = r =>
            approval[r] = a /\ pc[r] \in {"decided", "cleared", "posting"}
      BY <2>2 DEF LocksHeld
    <2>7. \A a \in Approval : approvalLock'[a] = r =>
            approval'[r] = a /\ pc'[r] \in {"decided", "cleared", "posting"}
      BY <1>3, <2>5, <2>6 DEF LoadDocument, Inv, TypeOK, locals
    <2>8. QED
      BY <2>1, <2>3, <2>4, <2>5, <2>7, MoveInv
  <1>4. ASSUME NEW r \in Request, CreateWastage(r) PROVE Inv'
    <2>1. TypeOK'
      BY <1>4 DEF CreateWastage, Inv, TypeOK, database, DocStatus
    <2>2. AboutDocument(r) /\ DecidesOpen(r) /\ WithinLimit(r) /\ PostsStock(r) /\ LocksHeld
      BY DEF Inv, RequestInv
    <2>3. AboutDocument(r)' /\ DecidesOpen(r)' /\ WithinLimit(r)' /\ PostsStock(r)'
      BY <1>4, <2>2 DEF CreateWastage, Inv, TypeOK, database, DocStatus, AboutDocument, DecidesOpen,
                    WithinLimit, PostsStock, LocksHeld, IsPosting
    <2>4. /\ UNCHANGED database
          /\ \A q \in Request \ {r} :
               /\ pc'[q] = pc[q] /\ doc'[q] = doc[q] /\ approval'[q] = approval[q]
               /\ decision'[q] = decision[q] /\ seen'[q] = seen[q]
               /\ amount'[q] = amount[q] /\ seenLimit'[q] = seenLimit[q]
      BY <1>4 DEF CreateWastage, Inv, TypeOK, locals
    <2>5. \A a \in Approval : approvalLock'[a] = approvalLock[a]
                              \/ (approvalLock[a] = None /\ approvalLock'[a] = r)
      BY <1>4 DEF CreateWastage, Inv, TypeOK, locals
    <2>6. \A a \in Approval : approvalLock[a] = r =>
            approval[r] = a /\ pc[r] \in {"decided", "cleared", "posting"}
      BY <2>2 DEF LocksHeld
    <2>7. \A a \in Approval : approvalLock'[a] = r =>
            approval'[r] = a /\ pc'[r] \in {"decided", "cleared", "posting"}
      BY <1>4, <2>5, <2>6 DEF CreateWastage, Inv, TypeOK, locals
    <2>8. QED
      BY <2>1, <2>3, <2>4, <2>5, <2>7, MoveInv
  <1>5. ASSUME NEW r \in Request, LoadApproval(r) PROVE Inv'
    <2>1. TypeOK'
      BY <1>5 DEF LoadApproval, Inv, TypeOK, database
    <2>2. AboutDocument(r) /\ DecidesOpen(r) /\ WithinLimit(r) /\ PostsStock(r) /\ LocksHeld
      BY DEF Inv, RequestInv
    <2>3. AboutDocument(r)' /\ DecidesOpen(r)' /\ WithinLimit(r)' /\ PostsStock(r)'
      BY <1>5, <2>2 DEF LoadApproval, Inv, TypeOK, database, AboutDocument, DecidesOpen,
                    WithinLimit, PostsStock, LocksHeld
    <2>4. /\ UNCHANGED database
          /\ \A q \in Request \ {r} :
               /\ pc'[q] = pc[q] /\ doc'[q] = doc[q] /\ approval'[q] = approval[q]
               /\ decision'[q] = decision[q] /\ seen'[q] = seen[q]
               /\ amount'[q] = amount[q] /\ seenLimit'[q] = seenLimit[q]
      BY <1>5 DEF LoadApproval, Inv, TypeOK, locals
    <2>5. \A a \in Approval : approvalLock'[a] = approvalLock[a]
                              \/ (approvalLock[a] = None /\ approvalLock'[a] = r)
      BY <1>5 DEF LoadApproval, Inv, TypeOK, locals
    <2>6. \A a \in Approval : approvalLock[a] = r =>
            approval[r] = a /\ pc[r] \in {"decided", "cleared", "posting"}
      BY <2>2 DEF LocksHeld
    <2>7. \A a \in Approval : approvalLock'[a] = r =>
            approval'[r] = a /\ pc'[r] \in {"decided", "cleared", "posting"}
      BY <1>5, <2>5, <2>6 DEF LoadApproval, Inv, TypeOK, locals
    <2>8. QED
      BY <2>1, <2>3, <2>4, <2>5, <2>7, MoveInv
  <1>6. ASSUME NEW r \in Request, Route(r) PROVE Inv'
    <2>1. TypeOK'
      <3>1. doc[r] \in Doc
        BY <1>6 DEF Route, Inv, RequestInv, AboutDocument
      <3>2. value[doc[r]] \in Value /\ limit[ScopeOf[doc[r]]] \in Limit
        BY <3>1 DEF Inv, TypeOK
      <3>3. QED
        BY <1>6, <3>2 DEF Route, Inv, TypeOK, database
    <2>2. AboutDocument(r) /\ DecidesOpen(r) /\ WithinLimit(r) /\ PostsStock(r) /\ LocksHeld
      BY DEF Inv, RequestInv
    <2>3. AboutDocument(r)' /\ DecidesOpen(r)' /\ WithinLimit(r)' /\ PostsStock(r)'
      BY <1>6, <2>2 DEF Route, Inv, TypeOK, database, Limit, AboutDocument, DecidesOpen,
                    WithinLimit, PostsStock, LocksHeld, RequiresApproval, IsPosting, KindIs
    <2>4. /\ UNCHANGED database
          /\ \A q \in Request \ {r} :
               /\ pc'[q] = pc[q] /\ doc'[q] = doc[q] /\ approval'[q] = approval[q]
               /\ decision'[q] = decision[q] /\ seen'[q] = seen[q]
               /\ amount'[q] = amount[q] /\ seenLimit'[q] = seenLimit[q]
      BY <1>6 DEF Route, Inv, TypeOK, locals
    <2>5. \A a \in Approval : approvalLock'[a] = approvalLock[a]
                              \/ (approvalLock[a] = None /\ approvalLock'[a] = r)
      BY <1>6 DEF Route, Inv, TypeOK, locals
    <2>6. \A a \in Approval : approvalLock[a] = r =>
            approval[r] = a /\ pc[r] \in {"decided", "cleared", "posting"}
      BY <2>2 DEF LocksHeld
    <2>7. \A a \in Approval : approvalLock'[a] = r =>
            approval'[r] = a /\ pc'[r] \in {"decided", "cleared", "posting"}
      BY <1>6, <2>5, <2>6 DEF Route, Inv, TypeOK, locals
    <2>8. QED
      BY <2>1, <2>3, <2>4, <2>5, <2>7, MoveInv
  <1>7. ASSUME NEW r \in Request, BeginPosting(r) PROVE Inv'
    <2>1. TypeOK'
      BY <1>7 DEF BeginPosting, Inv, TypeOK, database, locals
    <2>2. AboutDocument(r) /\ DecidesOpen(r) /\ WithinLimit(r) /\ PostsStock(r) /\ LocksHeld
      BY DEF Inv, RequestInv
    <2>3. AboutDocument(r)' /\ DecidesOpen(r)' /\ WithinLimit(r)' /\ PostsStock(r)'
      BY <1>7, <2>2 DEF BeginPosting, Inv, TypeOK, database, locals, AboutDocument, DecidesOpen,
                    WithinLimit, PostsStock, LocksHeld, RequiresApproval
    <2>4. /\ UNCHANGED database
          /\ \A q \in Request \ {r} :
               /\ pc'[q] = pc[q] /\ doc'[q] = doc[q] /\ approval'[q] = approval[q]
               /\ decision'[q] = decision[q] /\ seen'[q] = seen[q]
               /\ amount'[q] = amount[q] /\ seenLimit'[q] = seenLimit[q]
      BY <1>7 DEF BeginPosting, Inv, TypeOK, locals
    <2>5. \A a \in Approval : approvalLock'[a] = approvalLock[a]
                              \/ (approvalLock[a] = None /\ approvalLock'[a] = r)
      BY <1>7 DEF BeginPosting, Inv, TypeOK, locals
    <2>6. \A a \in Approval : approvalLock[a] = r =>
            approval[r] = a /\ pc[r] \in {"decided", "cleared", "posting"}
      BY <2>2 DEF LocksHeld
    <2>7. \A a \in Approval : approvalLock'[a] = r =>
            approval'[r] = a /\ pc'[r] \in {"decided", "cleared", "posting"}
      BY <1>7, <2>5, <2>6 DEF BeginPosting, Inv, TypeOK, locals
    <2>8. QED
      BY <2>1, <2>3, <2>4, <2>5, <2>7, MoveInv
  <1>8. ASSUME NEW r \in Request, SaveDecision(r) PROVE Inv'
    <2>1. TypeOK'
      BY <1>8 DEF SaveDecision, Inv, TypeOK, database, locals
    <2>2. AboutDocument(r) /\ DecidesOpen(r) /\ WithinLimit(r) /\ PostsStock(r) /\ LocksHeld
      BY DEF Inv, RequestInv
    <2>3. AboutDocument(r)' /\ DecidesOpen(r)' /\ WithinLimit(r)' /\ PostsStock(r)'
      BY <1>8, <2>2 DEF SaveDecision, Inv, TypeOK, database, locals, AboutDocument, DecidesOpen,
                    WithinLimit, PostsStock, LocksHeld, MayDecide, IsDecision, Open
    <2>4. /\ UNCHANGED database
          /\ \A q \in Request \ {r} :
               /\ pc'[q] = pc[q] /\ doc'[q] = doc[q] /\ approval'[q] = approval[q]
               /\ decision'[q] = decision[q] /\ seen'[q] = seen[q]
               /\ amount'[q] = amount[q] /\ seenLimit'[q] = seenLimit[q]
      BY <1>8 DEF SaveDecision, Inv, TypeOK, locals
    <2>5. \A a \in Approval : approvalLock'[a] = approvalLock[a]
                              \/ (approvalLock[a] = None /\ approvalLock'[a] = r)
      BY <1>8 DEF SaveDecision, Inv, TypeOK, locals
    <2>6. \A a \in Approval : approvalLock[a] = r =>
            approval[r] = a /\ pc[r] \in {"decided", "cleared", "posting"}
      BY <2>2 DEF LocksHeld
    <2>7. \A a \in Approval : approvalLock'[a] = r =>
            approval'[r] = a /\ pc'[r] \in {"decided", "cleared", "posting"}
      BY <1>8, <2>5, <2>6 DEF SaveDecision, Inv, TypeOK, locals
    <2>8. QED
      BY <2>1, <2>3, <2>4, <2>5, <2>7, MoveInv
  <1>9. ASSUME NEW r \in Request, CallbackPosts(r) PROVE Inv'
    <2>1. TypeOK'
      <3>1. doc[r] \in Doc
        BY <1>9 DEF CallbackPosts, Inv, RequestInv, AboutDocument
      <3>2. value[doc[r]] \in Value /\ limit[ScopeOf[doc[r]]] \in Limit
        BY <3>1 DEF Inv, TypeOK
      <3>3. QED
        BY <1>9, <3>2 DEF CallbackPosts, Inv, TypeOK, database
    <2>2. AboutDocument(r) /\ DecidesOpen(r) /\ WithinLimit(r) /\ PostsStock(r) /\ LocksHeld
      BY DEF Inv, RequestInv
    <2>3. AboutDocument(r)' /\ DecidesOpen(r)' /\ WithinLimit(r)' /\ PostsStock(r)'
      BY <1>9, <2>2 DEF CallbackPosts, Inv, TypeOK, database, AboutDocument, DecidesOpen,
                    WithinLimit, PostsStock, LocksHeld, RequiresApproval, KindIs
    <2>4. /\ UNCHANGED database
          /\ \A q \in Request \ {r} :
               /\ pc'[q] = pc[q] /\ doc'[q] = doc[q] /\ approval'[q] = approval[q]
               /\ decision'[q] = decision[q] /\ seen'[q] = seen[q]
               /\ amount'[q] = amount[q] /\ seenLimit'[q] = seenLimit[q]
      BY <1>9 DEF CallbackPosts, Inv, TypeOK, locals
    <2>5. \A a \in Approval : approvalLock'[a] = approvalLock[a]
                              \/ (approvalLock[a] = None /\ approvalLock'[a] = r)
      BY <1>9 DEF CallbackPosts, Inv, TypeOK, locals
    <2>6. \A a \in Approval : approvalLock[a] = r =>
            approval[r] = a /\ pc[r] \in {"decided", "cleared", "posting"}
      BY <2>2 DEF LocksHeld
    <2>7. \A a \in Approval : approvalLock'[a] = r =>
            approval'[r] = a /\ pc'[r] \in {"decided", "cleared", "posting"}
      BY <1>9, <2>5, <2>6 DEF CallbackPosts, Inv, TypeOK, locals
    <2>8. QED
      BY <2>1, <2>3, <2>4, <2>5, <2>7, MoveInv
  <1>10. ASSUME NEW r \in Request, ReturnAtOnce(r) PROVE Inv'
    BY <1>10, RollbackInv DEF ReturnAtOnce
  <1>11. ASSUME NEW r \in Request, RefuseDecision(r) PROVE Inv'
    BY <1>11, RollbackInv DEF RefuseDecision
  <1>12. ASSUME NEW r \in Request, Fail(r) PROVE Inv'
    BY <1>12, RollbackInv DEF Fail
  <1>13. ASSUME NEW r \in Request, SubmitBudget(r) PROVE Inv'
    BY <1>13, SubmitInv DEF SubmitBudget
  <1>14. ASSUME NEW r \in Request, SubmitForApproval(r) PROVE Inv'
    BY <1>14, SubmitInv DEF SubmitForApproval
  <1>15. ASSUME NEW r \in Request, PostNoVariance(r) PROVE Inv'
    BY <1>15, CommitInv DEF PostNoVariance, Inv, TypeOK, DocStatus
  <1>16. ASSUME NEW r \in Request, ReturnExisting(r) PROVE Inv'
    BY <1>16, CommitInv DEF ReturnExisting, Inv, TypeOK, DocStatus
  <1>17. ASSUME NEW r \in Request, CallbackApproves(r) PROVE Inv'
    BY <1>17, CommitInv DEF CallbackApproves, Inv, TypeOK, DocStatus
  <1>18. ASSUME NEW r \in Request, CallbackRejects(r) PROVE Inv'
    BY <1>18, CommitInv DEF CallbackRejects, Inv, TypeOK, DocStatus
  <1>19. ASSUME NEW r \in Request, Post(r) PROVE Inv'
    BY <1>19, PostedType, CommitInv DEF Post, DocStatus
  <1>20. ASSUME NEW r \in Request, CallbackIgnores(r) PROVE Inv'
    <2>1. doc[r] \in Doc /\ docStatus[doc[r]] \in DocStatus /\ posted \in SUBSET Posting
      BY <1>20 DEF CallbackIgnores, Inv, TypeOK, RequestInv, AboutDocument
    <2>2. QED
      BY <1>20, <2>1, CommitInv DEF CallbackIgnores
  <1>21. ASSUME UNCHANGED vars PROVE Inv'
    BY <1>21 DEF vars, database, locals, Inv, TypeOK, RequestInv, AboutDocument, DecidesOpen,
              WithinLimit, PostsStock, LocksHeld, DecidedExist, RequiresApproval
  <1>22. QED
    BY <1>1, <1>2, <1>3, <1>4, <1>5, <1>6, <1>7, <1>8, <1>9, <1>10, <1>11, <1>12, <1>13, <1>14, <1>15, <1>16, <1>17, <1>18, <1>19, <1>20, <1>21 DEF Next

(* Every variable keeps its type, and every request its meaning.           *)
LEMMA InvAlways == Spec => []Inv
  BY InitInv, NextInv, PTL DEF Spec

(* Every variable keeps its type, and the locals their meaning.            *)
THEOREM TypeCorrect == Spec => []TypeOK
  <1>1. Inv => TypeOK
    BY DEF Inv
  <1>2. QED
    BY <1>1, InvAlways, PTL
-----------------------------------------------------------------------------
(* What a step can do to the ledger, to the Approvals and to the statuses  *)
(* of the documents, whoever takes it.                                     *)

(* A commit of r: its document gets status s; an Approval changes only if  *)
(* r holds it, and then to its decision.                                   *)
Commits(r, s) ==
  /\ doc[r] \in Doc
  /\ docStatus' = [docStatus EXCEPT ![doc[r]] = s]
  /\ subject' = subject
  /\ \A a \in Approval :
       approvalStatus'[a] = IF approvalLock[a] = r THEN decision[r] ELSE approvalStatus[a]
  /\ \A a \in Approval : approvalLock[a] = r => subject[a] = doc[r] /\ approval[r] = a

(* r queues its document under a new Approval.                             *)
Queues(r) ==
  /\ doc[r] \in Doc
  /\ docStatus' = [docStatus EXCEPT ![doc[r]] = "PENDING_APPROVAL"]
  /\ approvalStatus' = approvalStatus
  /\ \E a \in Approval :
       /\ subject[a] = None
       /\ subject' = [subject EXCEPT ![a] = doc[r]]

Ignored(r) ==
  \/ decision[r] = "APPROVED" /\ docStatus[doc[r]] = "POSTED"
  \/ decision[r] = "REJECTED" /\ KindOf[doc[r]] = "take"
  \/ decision[r] = "INVESTIGATION"

(* A commit changes one document, and decides the approvals it holds.      *)
LEMMA CommitEffect ==
  ASSUME Inv, NEW r \in Request, NEW s, NEW p, pc[r] # "idle", Commit(r, s, p)
  PROVE  Commits(r, s) /\ posted' = p
  <1>1. doc[r] \in Doc
    BY DEF Inv, RequestInv, AboutDocument
  <1>2. \A a \in Approval : approvalLock[a] = r => subject[a] = doc[r] /\ approval[r] = a
    BY DEF Inv, RequestInv, LocksHeld, AboutDocument
  <1>3. \A a \in Approval :
          approvalStatus'[a] = IF approvalLock[a] = r THEN decision[r] ELSE approvalStatus[a]
    BY <1>2 DEF Commit, Decided
  <1>4. QED
    BY <1>1, <1>2, <1>3 DEF Commits, Commit

(* A document that is queued gets an approval that is new and open.        *)
LEMMA QueueEffect ==
  ASSUME Inv, NEW r \in Request, pc[r] # "idle", Submit(r)
  PROVE  Queues(r) /\ posted' = posted
  BY DEF Inv, RequestInv, AboutDocument, Submit, Queues

(* Every step of a request leaves the documents alone, queues one, posts   *)
(* one that is or becomes part of the ledger, or applies a decision.       *)
LEMMA StepEffect ==
  ASSUME Inv, [Next]_vars
  PROVE  \/ UNCHANGED <<docStatus, posted, subject, approvalStatus>>
         \/ (\E r \in Request : Queues(r) /\ posted' = posted)
         \/ \E r \in Request :
              /\ Commits(r, "POSTED")
              /\ \/ (posted' = posted /\ KindOf[doc[r]] \in {"take", "budget"})
                 \/ (posted' = posted /\ HasRows(doc[r]))
                 \/ (Post(r) /\ posted \subseteq posted' /\ \E q \in posted' : q.doc = doc[r])
         \/ \E r \in Request :
              /\ Commits(r, "REJECTED") /\ posted' = posted
              /\ decision[r] = "REJECTED" /\ approval[r] # None
              /\ approvalLock[approval[r]] = r
         \/ \E r \in Request :
              Commits(r, docStatus[doc[r]]) /\ posted' = posted /\ Ignored(r)
  <1>1. ASSUME NEW s \in Scope, SetThreshold(s)
        PROVE  UNCHANGED <<docStatus, posted, subject, approvalStatus>>
    BY <1>1 DEF SetThreshold
  <1>2. ASSUME NEW d \in Doc, Revalue(d)
        PROVE  UNCHANGED <<docStatus, posted, subject, approvalStatus>>
    BY <1>2 DEF Revalue
  <1>3. ASSUME NEW r \in Request,
               \/ LoadDocument(r) \/ CreateWastage(r) \/ LoadApproval(r) \/ Route(r)
               \/ BeginPosting(r) \/ SaveDecision(r) \/ CallbackPosts(r)
               \/ ReturnAtOnce(r) \/ RefuseDecision(r) \/ Fail(r)
        PROVE  UNCHANGED <<docStatus, posted, subject, approvalStatus>>
    BY <1>3 DEF LoadDocument, CreateWastage, LoadApproval, Route, BeginPosting, SaveDecision,
                CallbackPosts, ReturnAtOnce, RefuseDecision, Fail, Rollback, database
  <1>4. ASSUME NEW r \in Request, SubmitBudget(r) \/ SubmitForApproval(r)
        PROVE  Queues(r) /\ posted' = posted
    BY <1>4, QueueEffect DEF SubmitBudget, SubmitForApproval
  <1>5. ASSUME NEW r \in Request, PostNoVariance(r) \/ CallbackApproves(r)
        PROVE  Commits(r, "POSTED") /\ posted' = posted /\ KindOf[doc[r]] \in {"take", "budget"}
    BY <1>5, CommitEffect DEF PostNoVariance, CallbackApproves, KindIs
  <1>6. ASSUME NEW r \in Request, ReturnExisting(r)
        PROVE  Commits(r, "POSTED") /\ posted' = posted /\ HasRows(doc[r])
    BY <1>6, CommitEffect DEF ReturnExisting
  <1>7. ASSUME NEW r \in Request, Post(r)
        PROVE  /\ Commits(r, "POSTED") /\ posted \subseteq posted'
               /\ \E q \in posted' : q.doc = doc[r]
    <2> DEFINE p == [doc |-> doc[r],
                     above |-> seenLimit[r] # None /\ amount[r] > seenLimit[r],
                     under |-> decision[r]]
    <2>1. Commits(r, "POSTED") /\ posted' = posted \cup {p}
      BY <1>7, CommitEffect DEF Post
    <2>2. p.doc = doc[r]
      OBVIOUS
    <2>3. \E q \in posted' : q.doc = doc[r]
      BY <2>1, <2>2
    <2>4. QED
      BY <2>1, <2>3
  <1>8. ASSUME NEW r \in Request, CallbackRejects(r)
        PROVE  /\ Commits(r, "REJECTED") /\ posted' = posted
               /\ decision[r] = "REJECTED" /\ approval[r] # None
               /\ approvalLock[approval[r]] = r
    <2>1. Commits(r, "REJECTED") /\ posted' = posted
      BY <1>8, CommitEffect DEF CallbackRejects
    <2>2. approval[r] # None /\ approvalLock[approval[r]] = r
      BY <1>8 DEF CallbackRejects, Inv, RequestInv, DecidesOpen
    <2>3. QED
      BY <1>8, <2>1, <2>2 DEF CallbackRejects
  <1>9. ASSUME NEW r \in Request, CallbackIgnores(r)
        PROVE  Commits(r, docStatus[doc[r]]) /\ posted' = posted /\ Ignored(r)
    BY <1>9, CommitEffect DEF CallbackIgnores, Ignored, KindIs
  <1>10. CASE UNCHANGED vars
    BY <1>10 DEF vars, database
  <1>11. QED
    BY <1>1, <1>2, <1>3, <1>4, <1>5, <1>6, <1>7, <1>8, <1>9, <1>10 DEF Next
-----------------------------------------------------------------------------
(* Nothing above its threshold is posted without a manager's approval.     *)
THEOREM ClearanceRequired == Spec => []PostedWithClearance
  <1>1. Init => PostedWithClearance
    BY DEF Init, PostedWithClearance
  <1>2. Inv /\ PostedWithClearance /\ [Next]_vars => PostedWithClearance'
    <2> SUFFICES ASSUME Inv, PostedWithClearance, [Next]_vars PROVE PostedWithClearance'
      OBVIOUS
    <2>1. CASE posted' = posted
      BY <2>1 DEF PostedWithClearance
    <2>2. ASSUME NEW r \in Request, Post(r) PROVE PostedWithClearance'
      <3> DEFINE above == seenLimit[r] # None /\ amount[r] > seenLimit[r]
      <3> DEFINE p == [doc |-> doc[r], above |-> above, under |-> decision[r]]
      <3>1. posted' = posted \cup {p}
        BY <2>2 DEF Post, Commit
      <3>2. decision[r] = "APPROVED" \/ (decision[r] = "NONE" /\ ~above)
        BY <2>2 DEF Post, Inv, RequestInv, AboutDocument, DecidesOpen, WithinLimit,
                    RequiresApproval
      <3> HIDE DEF above
      <3>3. p.under = decision[r] /\ p.above = above
        OBVIOUS
      <3>4. p.under = "APPROVED" \/ (p.under = "NONE" /\ ~p.above)
        BY <3>2, <3>3
      <3> HIDE DEF p
      <3>5. QED
        BY <3>1, <3>4 DEF PostedWithClearance
    <2>3. QED
      BY <2>1, <2>2, StepEffect
  <1>3. QED
    BY <1>1, <1>2, InvAlways, PTL DEF Spec

(* What is POSTED or approved has moved its stock. *)
THEOREM StockFollows == Spec => []StockFollowsDecisions
  <1> DEFINE Moves(d) == KindOf[d] \in {"transfer", "wastage"}
  <1>1. Init => StockFollowsDecisions
    BY DEF Init, StockFollowsDecisions
  <1>2. Inv /\ StockFollowsDecisions /\ [Next]_vars => StockFollowsDecisions'
    <2> SUFFICES ASSUME Inv, StockFollowsDecisions, [Next]_vars,
                        NEW d \in Doc, Moves(d),
                        \/ docStatus'[d] = "POSTED"
                        \/ \E a \in Approval : subject'[a] = d /\ approvalStatus'[a] = "APPROVED"
                 PROVE  \E q \in posted' : q.doc = d
      BY DEF StockFollowsDecisions, HasRows
    <2>0. docStatus \in [Doc -> DocStatus] /\ DecidedExist
      BY DEF Inv, TypeOK, RequestInv
    <2>1. (\/ docStatus[d] = "POSTED"
           \/ \E a \in Approval : subject[a] = d /\ approvalStatus[a] = "APPROVED")
          => \E q \in posted : q.doc = d
      BY DEF StockFollowsDecisions, HasRows
    <2>2. CASE UNCHANGED <<docStatus, posted, subject, approvalStatus>>
      BY <2>1, <2>2
    <2>3. ASSUME NEW r \in Request, Queues(r), posted' = posted
          PROVE  \E q \in posted' : q.doc = d
      <3>1. docStatus'[d] = "POSTED" => docStatus[d] = "POSTED"
        BY <2>0, <2>3 DEF Queues
      <3>2. \A a \in Approval : approvalStatus'[a] = "APPROVED" => subject'[a] = subject[a]
        BY <2>0, <2>3 DEF Queues, DecidedExist, Inv, TypeOK
      <3>3. QED
        BY <2>1, <2>3, <3>1, <3>2 DEF Queues
    <2>4. ASSUME NEW r \in Request, Commits(r, "POSTED"), posted \subseteq posted',
                 Moves(doc[r]) => \E q \in posted' : q.doc = doc[r]
          PROVE  \E q \in posted' : q.doc = d
      <3>1. CASE doc[r] = d
        BY <2>4, <3>1
      <3>2. CASE doc[r] # d
        <4>1. docStatus'[d] = docStatus[d]
          BY <2>0, <2>4, <3>2 DEF Commits
        <4>2. \A a \in Approval : subject'[a] = d => approvalStatus'[a] = approvalStatus[a]
          BY <2>4, <3>2 DEF Commits
        <4>3. QED
          BY <2>1, <2>4, <4>1, <4>2 DEF Commits
      <3>3. QED
        BY <3>1, <3>2
    <2>5. ASSUME NEW r \in Request, Commits(r, "REJECTED"), posted' = posted,
                 decision[r] = "REJECTED"
          PROVE  \E q \in posted' : q.doc = d
      <3>1. docStatus'[d] = "POSTED" => docStatus[d] = "POSTED"
        BY <2>0, <2>5 DEF Commits
      <3>2. \A a \in Approval : approvalStatus'[a] = "APPROVED" => approvalStatus[a] = "APPROVED"
        BY <2>5 DEF Commits
      <3>3. QED
        BY <2>1, <2>5, <3>1, <3>2 DEF Commits
    <2>6. ASSUME NEW r \in Request, Commits(r, docStatus[doc[r]]), posted' = posted, Ignored(r)
          PROVE  \E q \in posted' : q.doc = d
      <3>1. docStatus'[d] = docStatus[d]
        BY <2>0, <2>6 DEF Commits
      <3>2. \A a \in Approval : (subject[a] = d /\ approvalStatus'[a] = "APPROVED")
              => approvalStatus[a] = "APPROVED" \/ docStatus[d] = "POSTED"
        BY <2>6 DEF Commits, Ignored
      <3>3. QED
        BY <2>1, <2>6, <3>1, <3>2 DEF Commits
    <2>7. QED
      BY <2>2, <2>3, <2>4, <2>5, <2>6, StepEffect DEF HasRows
  <1>3. QED
    BY <1>1, <1>2, InvAlways, PTL DEF Spec

(* The managers' queue is complete. *)
THEOREM QueueComplete == Spec => []StatusMatchesQueue
  <1> DEFINE Waits(d) == Open \cup IF KindOf[d] = "take" THEN {"REJECTED"} ELSE {}
             Rejected == {"REJECTED", "INVESTIGATION"}
  <1>1. Init => StatusMatchesQueue
    BY DEF Init, StatusMatchesQueue
  <1>2. Inv /\ StatusMatchesQueue /\ [Next]_vars => StatusMatchesQueue'
    <2> SUFFICES ASSUME Inv, StatusMatchesQueue, [Next]_vars, NEW d \in Doc
                 PROVE  /\ docStatus'[d] = "PENDING_APPROVAL" =>
                             \E a \in Approval : subject'[a] = d /\ approvalStatus'[a] \in Waits(d)
                        /\ docStatus'[d] = "REJECTED" =>
                             \E a \in Approval : subject'[a] = d /\ approvalStatus'[a] \in Rejected
      BY DEF StatusMatchesQueue
    <2> DEFINE Queued == \E a \in Approval : subject[a] = d /\ approvalStatus[a] \in Waits(d)
               Refused == \E a \in Approval : subject[a] = d /\ approvalStatus[a] \in Rejected
               Goal == /\ docStatus'[d] = "PENDING_APPROVAL" =>
                             \E a \in Approval : subject'[a] = d /\ approvalStatus'[a] \in Waits(d)
                       /\ docStatus'[d] = "REJECTED" =>
                             \E a \in Approval : subject'[a] = d /\ approvalStatus'[a] \in Rejected
    <2>0. docStatus \in [Doc -> DocStatus] /\ subject \in [Approval -> Doc \cup {None}] /\ DecidedExist
      BY DEF Inv, TypeOK, RequestInv
    <2>1. (docStatus[d] = "PENDING_APPROVAL" => Queued) /\ (docStatus[d] = "REJECTED" => Refused)
      BY DEF StatusMatchesQueue
    <2>2. CASE UNCHANGED <<docStatus, posted, subject, approvalStatus>>
      BY <2>1, <2>2
    <2>3. ASSUME NEW r \in Request, Queues(r)
          PROVE  Goal
      <3>1. PICK a \in Approval : subject[a] = None /\ subject' = [subject EXCEPT ![a] = doc[r]]
        BY <2>3 DEF Queues
      <3>2. subject'[a] = doc[r] /\ approvalStatus'[a] = "PENDING"
        BY <2>0, <2>3, <3>1 DEF Queues, DecidedExist
      <3>3. \A b \in Approval : subject[b] = d => subject'[b] = d
        BY <2>0, <3>1
      <3>4. CASE doc[r] = d
        BY <2>0, <2>3, <3>2, <3>4 DEF Queues, Open
      <3>5. CASE doc[r] # d
        BY <2>0, <2>1, <2>3, <3>3, <3>5 DEF Queues
      <3>6. QED
        BY <3>4, <3>5
    <2>4. ASSUME NEW r \in Request, NEW s, Commits(r, s), doc[r] # d
          PROVE  Goal
      <3>1. docStatus'[d] = docStatus[d]
        BY <2>0, <2>4 DEF Commits
      <3>2. \A a \in Approval : subject[a] = d => approvalStatus'[a] = approvalStatus[a]
        BY <2>4 DEF Commits
      <3>3. QED
        BY <2>1, <2>4, <3>1, <3>2 DEF Commits
    <2>5. ASSUME NEW r \in Request, Commits(r, "POSTED"), doc[r] = d
          PROVE  Goal
      BY <2>0, <2>5 DEF Commits
    <2>6. ASSUME NEW r \in Request, Commits(r, "REJECTED"), doc[r] = d,
                 decision[r] = "REJECTED", approval[r] # None, approvalLock[approval[r]] = r
          PROVE  Goal
      <3>1. approval[r] \in Approval
        BY <2>6 DEF Inv, TypeOK
      <3>2. subject'[approval[r]] = d /\ approvalStatus'[approval[r]] = "REJECTED"
        BY <2>6, <3>1 DEF Commits
      <3>3. docStatus'[d] = "REJECTED"
        BY <2>0, <2>6 DEF Commits
      <3>4. QED
        BY <3>1, <3>2, <3>3
    <2>7. ASSUME NEW r \in Request, Commits(r, docStatus[doc[r]]), Ignored(r), doc[r] = d
          PROVE  Goal
      <3>1. docStatus'[d] = docStatus[d]
        BY <2>0, <2>7 DEF Commits
      <3>2. CASE docStatus[d] = "POSTED"
        BY <3>1, <3>2
      <3>3. CASE decision[r] = "REJECTED" /\ KindOf[d] = "take"
        BY <2>1, <2>7, <3>1, <3>3 DEF Commits
      <3>4. CASE decision[r] = "INVESTIGATION"
        BY <2>1, <2>7, <3>1, <3>4 DEF Commits, Open
      <3>5. QED
        BY <2>7, <3>2, <3>3, <3>4 DEF Ignored
    <2>8. QED
      BY <2>2, <2>3, <2>4, <2>5, <2>6, <2>7, StepEffect
  <1>3. QED
    BY <1>1, <1>2, InvAlways, PTL DEF Spec

(* A final decision is only replaced by a request that raced it. *)
THEOREM DecisionsStick == Spec => FinalUnlessRaced
  <1> DEFINE Sticks ==
        \A a \in Approval :
          (subject[a] # None /\ approvalStatus[a] \notin Open
            /\ approvalStatus'[a] # approvalStatus[a])
          => \E r \in Request : approval[r] = a /\ seen[r] \in Open /\ approvalLock[a] = r
  <1>1. Inv /\ [Next]_vars => Sticks
    <2> SUFFICES ASSUME Inv, [Next]_vars, NEW a \in Approval,
                        approvalStatus'[a] # approvalStatus[a]
                 PROVE  \E r \in Request : approval[r] = a /\ seen[r] \in Open
                                           /\ approvalLock[a] = r
      OBVIOUS
    <2>1. PICK r \in Request : approvalLock[a] = r
      BY StepEffect DEF Queues, Commits
    <2>2. approval[r] = a /\ pc[r] \in {"decided", "cleared", "posting"}
      BY <2>1 DEF Inv, RequestInv, LocksHeld
    <2>3. seen[r] \in Open
      BY <2>2 DEF Inv, RequestInv, DecidesOpen
    <2>4. QED
      BY <2>1, <2>2, <2>3
  <1>2. Inv /\ [Next]_vars => [Sticks]_vars
    BY <1>1
  <1>3. Spec => [][Sticks]_vars
    BY <1>2, InvAlways, PTL DEF Spec
  <1>4. QED
    BY <1>3 DEF FinalUnlessRaced
=============================================================================
