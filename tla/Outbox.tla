------------------------------- MODULE Outbox -------------------------------
(***************************************************************************)
(* Delivery of the outbox to Pastel (backend/apps/pastel/tasks.py,         *)
(* views.py and adapter.py).                                               *)
(*                                                                         *)
(* Every posting leaves one PENDING OutboxRecord.  Celery starts a drain   *)
(* every 30 seconds, whether or not the last one has ended, and a sweep    *)
(* every night; an administrator can re-send a record.  A drain reads its  *)
(* records once, with their attempts, and works through that copy; nothing *)
(* is locked and every save is a transaction of its own; so is the         *)
(* notification that follows when a record is abandoned.                   *)
(*                                                                         *)
(* Counters are saturating: they stop at Cap.                              *)
(***************************************************************************)
EXTENDS Integers, FiniteSets, FiniteSetsExt

CONSTANTS
  Record,      \* OutboxRecords, numbered in the order they are created
  Task,        \* Celery worker processes that drain
  Admin,       \* re-send requests that may run at the same time
  MaxAttempts, \* failures after which a drain abandons a record (5)
  Cap          \* bound: where the counters stop

Worker == Task \cup Admin

ASSUME OutboxConstants ==
  /\ Record \subseteq Nat
  /\ IsFiniteSet(Record)
  /\ Task \cap Admin = {}
  /\ MaxAttempts \in Nat \ {0}
  /\ Cap \in Nat
  /\ Cap >= MaxAttempts

VARIABLES
  status,      \* OutboxRecord.status; ABSENT before its posting commits
  attempts,    \* OutboxRecord.attempts
  due,         \* whether next_attempt_at has passed
  failures,    \* its PastelSyncLog rows with status FAILED
  delivered,   \* how often Pastel accepted it
  notified,    \* the records admins got a Notification about
  pc,          \* where a worker is
  hand,        \* the records a worker has read and not finished
  copy,        \* their attempts, as the worker read them
  overlapped,  \* history: records two workers had in hand at once
  interrupted, \* history: records a worker died or failed on
  untold       \* history: abandoned ones nobody was told of for it

records == <<status, attempts, due>>
history == <<overlapped, interrupted, untold>>
vars == <<records, failures, delivered, notified, pc, hand, copy, history>>

Status == {"ABSENT", "PENDING", "SENDING", "SENT", "FAILED", "ABANDONED"}

(* Every variable has the type its column or local has in the code. *)
TypeOK ==
  /\ status \in [Record -> Status]
  /\ attempts \in [Record -> 0..Cap]
  /\ due \in [Record -> BOOLEAN]
  /\ failures \in [Record -> 0..Cap]
  /\ delivered \in [Record -> 0..Cap]
  /\ pc \in [Worker -> {"idle", "ready", "sending", "accepted", "refused", "abandoned"}]
  /\ hand \in [Worker -> SUBSET Record]
  /\ \A w \in Worker : pc[w] = "idle" <=> hand[w] = {}
  /\ copy \in [Worker -> [Record -> 0..Cap]]
  /\ overlapped \in SUBSET Record
  /\ interrupted \in SUBSET Record
  /\ notified \in SUBSET Record /\ untold \in SUBSET (Record \ notified)

Nothing == [o \in Record |-> 0]

Init ==
  /\ status = [o \in Record |-> "ABSENT"]
  /\ attempts = Nothing
  /\ due = [o \in Record |-> TRUE]
  /\ failures = Nothing
  /\ delivered = Nothing
  /\ notified = {}
  /\ pc = [w \in Worker |-> "idle"]
  /\ hand = [w \in Worker |-> {}]
  /\ copy = [w \in Worker |-> Nothing]
  /\ overlapped = {}
  /\ interrupted = {}
  /\ untold = {}

Plus1(n) == IF n < Cap THEN n + 1 ELSE n

(* Records are drained in the order they were created. *)
Current(w) == Min(hand[w])

(* The records w may still send or save. *)
Busy(w) == IF pc[w] = "abandoned" THEN hand[w] \ {Current(w)} ELSE hand[w]

-----------------------------------------------------------------------------
(* w reads a set of records with their attempts. *)
Read(w, set) ==
  /\ pc' = [pc EXCEPT ![w] = "ready"]
  /\ hand' = [hand EXCEPT ![w] = set]
  /\ copy' = [copy EXCEPT ![w] = [o \in Record |-> IF o \in set THEN attempts[o] ELSE 0]]
  /\ overlapped' = overlapped \cup
       {o \in set : \E v \in Worker \ {w} : o \in Busy(v)}
  /\ UNCHANGED <<records, failures, delivered, notified, interrupted, untold>>

(* w is done with its record and goes on to the next, if it has one.       *)
FinishAll(w) ==  \* mutant: the loop ends with the first record
  /\ pc' = [pc EXCEPT ![w] = "idle"]
  /\ UNCHANGED <<hand, copy>>
Finish(w) ==
  LET rest == hand[w] \ {Current(w)}
  IN  /\ pc' = [pc EXCEPT ![w] = IF rest = {} THEN "idle" ELSE "ready"]
      /\ hand' = [hand EXCEPT ![w] = rest]
      /\ copy' = [copy EXCEPT ![w][Current(w)] = 0]

(* A posting commits its OutboxRecord; auto_now_add makes it due at once.  *)
Create(o) ==
  /\ status[o] = "ABSENT"
  /\ status' = [status EXCEPT ![o] = "PENDING"]
  /\ UNCHANGED <<attempts, due, failures, delivered, notified, pc, hand, copy, history>>

(* next_attempt_at passes. *)
BackoffEnds(o) ==
  /\ ~due[o]
  /\ due' = [due EXCEPT ![o] = TRUE]
  /\ UNCHANGED <<status, attempts, failures, delivered, notified, pc, hand, copy, history>>

DueLater == {o \in Record : status[o] = "PENDING" /\ ~due[o]}  \* mutant: __gte for __lte
Due == {o \in Record : status[o] = "PENDING" /\ due[o]}
Pending == {o \in Record : status[o] = "PENDING"}

Drainable == Due

(* drain_outbox, every 30 seconds; without due records it does nothing.    *)
StartDrain(w) ==
  /\ pc[w] = "idle"
  /\ Drainable # {}
  /\ Read(w, Drainable)

(* daily_batch_sync: the backoff is not looked at.                         *)
StartSweep(w) ==
  /\ pc[w] = "idle"
  /\ Pending # {}
  /\ Read(w, Pending)

MarkSending(w) ==
  /\ pc[w] = "ready"
  /\ status' = [status EXCEPT ![Current(w)] = "SENDING"]
  /\ pc' = [pc EXCEPT ![w] = "sending"]
  /\ UNCHANGED <<attempts, due, failures, delivered, notified, hand, copy, history>>

(* An administrator re-sends a record that is not SENT: failed, abandoned, *)
(* stuck in SENDING or just being sent.                                    *)
LoadForResend(w) ==
  /\ pc[w] = "idle"
  /\ \E o \in Record : status[o] \notin {"ABSENT", "SENT"} /\ Read(w, {o})

ResetRecord(w) ==
  /\ pc[w] = "ready"
  /\ status' = [status EXCEPT ![Current(w)] = "PENDING"]
  /\ due' = [due EXCEPT ![Current(w)] = TRUE]
  /\ pc' = [pc EXCEPT ![w] = "sending"]
  /\ UNCHANGED <<attempts, failures, delivered, notified, hand, copy, history>>

(* send_to_pastel: Pastel takes the payload, or PastelError is raised; the *)
(* attempt is logged.                                                      *)
Accept(w) ==
  /\ pc[w] = "sending"
  /\ delivered' = [delivered EXCEPT ![Current(w)] = Plus1(@)]
  /\ pc' = [pc EXCEPT ![w] = "accepted"]
  /\ UNCHANGED <<records, failures, notified, hand, copy, history>>

Refuse(w) ==
  /\ pc[w] = "sending"
  /\ failures' = [failures EXCEPT ![Current(w)] = Plus1(@)]
  /\ pc' = [pc EXCEPT ![w] = "refused"]
  /\ UNCHANGED <<records, delivered, notified, hand, copy, history>>

(* A drain saves SENT, or one more attempt and FAILED or ABANDONED.        *)
SaveSentEarly(w) ==  \* mutant: does not look at what send_to_pastel returned
  /\ pc[w] \in {"accepted", "refused"}
  /\ status' = [status EXCEPT ![Current(w)] = "SENT"]
  /\ Finish(w)
  /\ UNCHANGED <<attempts, due, failures, delivered, notified, history>>
SaveSent(w) ==
  /\ pc[w] = "accepted"
  /\ status' = [status EXCEPT ![Current(w)] = "SENT"]
  /\ Finish(w)
  /\ UNCHANGED <<attempts, due, failures, delivered, notified, history>>

SaveFailedInTime(w) ==  \* mutant: abandons without saying so
  /\ pc[w] = "refused"
  /\ LET n == Plus1(copy[w][Current(w)])
     IN  /\ attempts' = [attempts EXCEPT ![Current(w)] = n]
         /\ status' = [status EXCEPT ![Current(w)] =
                         IF n >= MaxAttempts THEN "ABANDONED" ELSE "FAILED"]
  /\ due' = [due EXCEPT ![Current(w)] = FALSE]
  /\ Finish(w)
  /\ UNCHANGED <<failures, delivered, notified, history>>
SaveFailed(w) ==
  /\ pc[w] = "refused"
  /\ LET n == Plus1(copy[w][Current(w)])
     IN  /\ attempts' = [attempts EXCEPT ![Current(w)] = n]
         /\ IF n >= MaxAttempts
            THEN /\ status' = [status EXCEPT ![Current(w)] = "ABANDONED"]
                 /\ pc' = [pc EXCEPT ![w] = "abandoned"] /\ UNCHANGED <<hand, copy>>
            ELSE /\ status' = [status EXCEPT ![Current(w)] = "FAILED"]
                 /\ Finish(w)
  /\ due' = [due EXCEPT ![Current(w)] = FALSE]
  /\ UNCHANGED <<failures, delivered, notified, history>>

(* notify_role, after the record was saved: a notification for every       *)
(* active administrator.                                                   *)
NotifyAdmins(w) ==
  /\ pc[w] = "abandoned"
  /\ notified' = notified \cup {Current(w)}
  /\ untold' = untold \ {Current(w)}
  /\ Finish(w)
  /\ UNCHANGED <<records, failures, delivered, overlapped, interrupted>>

(* A re-send saves SENT or FAILED, and its copy of attempts either way; it *)
(* neither abandons nor backs off.                                         *)
SaveResent(w) ==
  /\ pc[w] \in {"accepted", "refused"}
  /\ LET sent == pc[w] = "accepted"
         n == copy[w][Current(w)]
     IN  /\ status' = [status EXCEPT ![Current(w)] = IF sent THEN "SENT" ELSE "FAILED"]
         /\ attempts' = [attempts EXCEPT ![Current(w)] = IF sent THEN n ELSE Plus1(n)]
  /\ Finish(w)
  /\ UNCHANGED <<due, failures, delivered, notified, history>>

(* w leaves its record half-way. *)
Interrupt(w) ==
  /\ interrupted' = interrupted \cup IF pc[w] \in {"ready", "abandoned"} THEN {} ELSE {Current(w)}
  /\ untold' = untold \cup IF pc[w] = "abandoned" THEN {Current(w)} \ notified ELSE {}

(* An unexpected exception: a drain logs it and goes on with its next      *)
(* record, a request ends; the record keeps the status it has.             *)
Fail(w) ==
  /\ pc[w] \notin {"idle", "ready"}
  /\ Interrupt(w)
  /\ Finish(w)
  /\ UNCHANGED <<records, failures, delivered, notified, overlapped>>

(* The process dies.  Celery acknowledges a task before it runs it, so the *)
(* task is not started again.                                              *)
Crash(w) ==
  /\ pc[w] # "idle"
  /\ Interrupt(w)
  /\ pc' = [pc EXCEPT ![w] = "idle"]
  /\ hand' = [hand EXCEPT ![w] = {}]
  /\ copy' = [copy EXCEPT ![w] = Nothing]
  /\ UNCHANGED <<records, failures, delivered, notified, overlapped>>

Drain(w) == MarkSending(w) \/ SaveSent(w) \/ SaveFailed(w) \/ NotifyAdmins(w)
Resend(w) == ResetRecord(w) \/ SaveResent(w)

Next ==
  \/ \E o \in Record : Create(o) \/ BackoffEnds(o)
  \/ \E w \in Task : StartDrain(w) \/ StartSweep(w) \/ Drain(w)
  \/ \E w \in Admin : LoadForResend(w) \/ Resend(w)
  \/ \E w \in Worker : Accept(w) \/ Refuse(w) \/ Fail(w) \/ Crash(w)

Spec == Init /\ [][Next]_vars

(* Beat starts a drain every 30 seconds in a free worker; a worker does    *)
(* not die at the same step for ever, nor always before the same record;   *)
(* Pastel does not refuse for ever.  Nobody has to re-send anything.       *)
Fairness ==
  /\ \A w \in Task :
       /\ WF_vars(StartDrain(w))
       /\ \A o \in Record : SF_vars(MarkSending(w) /\ Current(w) = o)
       /\ SF_vars(Accept(w))
       /\ SF_vars(SaveSent(w) \/ SaveFailed(w))
       /\ WF_vars(NotifyAdmins(w))

FairSpec == Spec /\ Fairness
-----------------------------------------------------------------------------
(* The Pastel card of the integration health page counts FAILED records.   *)
PastelHealth == IF \E o \in Record : status[o] = "FAILED" THEN "FAILED" ELSE "OK"

(* No record goes astray unnoticed.  One that nobody has in hand is due to *)
(* be sent or was, or shows: FAILED on the card, which is blind to an      *)
(* ABANDONED one, and the latter by its notification.  Only a worker that  *)
(* dies or fails half-way leaves one SENDING, or ABANDONED and nobody told *)
(* (_process_outbox_record, ResendOutboxView, _pastel_health).             *)
TroubleShows ==
  \A o \in Record :
    \/ \E w \in Worker : o \in hand[w]
    \/ status[o] \in {"ABSENT", "PENDING", "SENT"}
    \/ status[o] = "FAILED" /\ PastelHealth = "FAILED"
    \/ status[o] = "SENDING" /\ o \in interrupted
    \/ status[o] = "ABANDONED" /\ o \in notified \cup untold

(* The outbox does what it promises although every save is made from a     *)
(* stale copy: a SENT record reached Pastel, an ABANDONED one failed       *)
(* MaxAttempts times, attempts never exceeds the failures in the log, and  *)
(* Pastel gets a record twice only if two workers had it in hand at once   *)
(* or one was interrupted with it (_process_outbox_record,                 *)
(* ResendOutboxView).                                                      *)
Promise == INSTANCE Delivery WITH excused <- overlapped \cup interrupted
Delivers == Promise!Spec

(* Every record that was created is taken up by a drain or a re-send.      *)
PendingIsTaken ==
  \A o \in Record : status[o] = "PENDING" ~> status[o] # "PENDING"

(* "they retry with exponential backoff" (spec.md, line 125): with Pastel  *)
(* back, every record ends up SENT or ABANDONED.                           *)
EventuallySettled ==
  \A o \in Record : status[o] # "ABSENT" ~> status[o] \in {"SENT", "ABANDONED"}
=============================================================================
