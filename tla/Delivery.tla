------------------------------ MODULE Delivery ------------------------------
(***************************************************************************)
(* What the outbox promises, whoever works on it: the status of a record   *)
(* says no more than what has happened to it, an attempt is counted only   *)
(* after it failed, and nothing is delivered twice without an excuse.      *)
(***************************************************************************)
EXTENDS Naturals

CONSTANTS Record, MaxAttempts, Cap

VARIABLES
  status,     \* of a record, as in OutboxRecord
  attempts,   \* counted against it
  delivered,  \* how often it reached Pastel
  failures,   \* how often it did not
  excused     \* records that were shared, or dropped half-way

Absent == [o \in Record |-> "ABSENT"]
Zero == [o \in Record |-> 0]
OneMore(f, o) == [f EXCEPT ![o] = IF @ < Cap THEN @ + 1 ELSE @]

Init ==
  status = Absent /\ attempts = Zero /\ delivered = Zero /\ failures = Zero /\ excused = {}

(* It is handed over, or taken up, or given back to be taken up.           *)
Queue(o) ==
  /\ status' = [status EXCEPT ![o] = "PENDING"]
  /\ UNCHANGED <<attempts, delivered, failures, excused>>

TakeUp(o) ==
  /\ status[o] # "ABSENT"
  /\ status' = [status EXCEPT ![o] = "SENDING"]
  /\ UNCHANGED <<attempts, delivered, failures, excused>>

Deliver(o) ==
  /\ delivered[o] = 0 \/ o \in excused
  /\ delivered' = OneMore(delivered, o)
  /\ UNCHANGED <<status, attempts, failures, excused>>

Miss(o) ==
  /\ failures' = OneMore(failures, o)
  /\ UNCHANGED <<status, attempts, delivered, excused>>

(* The outcome is recorded, perhaps from an old copy. *)
Conclude(o) ==
  /\ \/ delivered[o] > 0 /\ status' = [status EXCEPT ![o] = "SENT"]
     \/ failures[o] > 0 /\ status' = [status EXCEPT ![o] = "FAILED"]
     \/ failures[o] >= MaxAttempts /\ status' = [status EXCEPT ![o] = "ABANDONED"]
  /\ \E n \in 0..failures[o] : attempts' = [attempts EXCEPT ![o] = n]
  /\ UNCHANGED <<delivered, failures, excused>>

Excuse ==
  /\ \E more \in SUBSET Record : excused' = excused \cup more
  /\ UNCHANGED <<status, attempts, delivered, failures>>

Next ==
  Excuse \/ \E o \in Record : Queue(o) \/ TakeUp(o) \/ Deliver(o) \/ Miss(o) \/ Conclude(o)

Spec == Init /\ [][Next]_<<status, attempts, delivered, failures, excused>>
=============================================================================
