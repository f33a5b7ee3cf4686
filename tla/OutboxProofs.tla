---------------------------- MODULE OutboxProofs ----------------------------
(***************************************************************************)
(* Proofs about Outbox, for any number of records, tasks and requests, any *)
(* limit of attempts and any bound of the counters above it.               *)
(***************************************************************************)
EXTENDS Outbox, WellFoundedInduction, TLAPS

USE OutboxConstants

(* A set of numbers that has a member has a least one: a drain that has    *)
(* records has one to work on.                                             *)
LEMMA LeastExists ==
  ASSUME NEW S, S \subseteq Nat, S # {}
  PROVE  Min(S) \in S
  <1> DEFINE R == {ss \in Nat \X Nat : ss[1] < ss[2]}
  <1>1. R = OpToRel(<, Nat)
    BY Zenon DEF OpToRel
  <1>2. IsWellFoundedOn(R, Nat)
    BY <1>1, NatLessThanWellFounded, Zenon
  <1>3. \A x, y \in Nat : <<y, x>> \in R <=> y < x
    OBVIOUS
  <1> HIDE DEF R
  <1>4. PICK x \in S : \A y \in S : ~ (<<y, x>> \in R)
    BY <1>2, WFMin
  <1>5. ASSUME NEW y \in S PROVE x <= y
    <2>1. x \in Nat /\ y \in Nat /\ ~(y < x)
      BY <1>3, <1>4
    <2>2. QED
      BY <2>1
  <1>6. QED
    BY <1>5 DEF Min

(* The record a worker is at is one of those it has in hand. *)
LEMMA CurrentType ==
  ASSUME TypeOK, NEW w \in Worker, pc[w] # "idle"
  PROVE  Current(w) \in hand[w] /\ Current(w) \in Record
  <1>1. hand[w] \in SUBSET Record /\ hand[w] # {}
    BY DEF TypeOK
  <1>2. QED
    BY <1>1, LeastExists DEF Current

(* A saturating counter stays in its range, does not go back, and orders   *)
(* what it counts.                                                         *)
LEMMA Plus1Type ==
  ASSUME NEW n \in 0..Cap
  PROVE  /\ Plus1(n) \in 0..Cap
         /\ n <= Plus1(n)
         /\ \A m \in 0..Cap : m <= n => Plus1(m) <= Plus1(n)
         /\ n = 0 => Plus1(n) > 0
  BY DEF Plus1

(* The attempts a worker counts from, and what it may save. *)
LEMMA CopyType ==
  ASSUME TypeOK, NEW w \in Worker, pc[w] # "idle"
  PROVE  /\ copy[w][Current(w)] \in 0..Cap
         /\ Plus1(copy[w][Current(w)]) \in 0..Cap
  <1>1. copy[w] \in [Record -> 0..Cap]
    BY DEF TypeOK
  <1>2. copy[w][Current(w)] \in 0..Cap
    BY <1>1, CurrentType
  <1>3. QED
    BY <1>2, Plus1Type
-----------------------------------------------------------------------------
(* What is left in hand when a worker is done with its record. *)
LEMMA FinishEffect ==
  ASSUME TypeOK, NEW w \in Worker, pc[w] # "idle", Finish(w)
  PROVE  /\ pc' \in [Worker -> {"idle", "ready", "sending", "accepted", "refused", "abandoned"}]
         /\ hand' \in [Worker -> SUBSET Record]
         /\ copy' \in [Worker -> [Record -> 0..Cap]]
         /\ \A v \in Worker : pc'[v] = "idle" <=> hand'[v] = {}
         /\ \A v \in Worker \ {w} : pc'[v] = pc[v] /\ hand'[v] = hand[v] /\ copy'[v] = copy[v]
         /\ pc'[w] \in {"idle", "ready"}
         /\ hand'[w] = hand[w] \ {Current(w)}
         /\ \A o \in hand'[w] : copy'[w][o] = copy[w][o]
  <1> DEFINE c == Current(w)
             rest == hand[w] \ {c}
             less == [copy[w] EXCEPT ![c] = 0]
  <1>1. c \in Record /\ rest \in SUBSET Record
    BY CurrentType DEF TypeOK
  <1>2. copy[w] \in [Record -> 0..Cap]
    BY DEF TypeOK
  <1>3. less \in [Record -> 0..Cap] /\ \A o \in rest : less[o] = copy[w][o]
    BY <1>1, <1>2
  <1>4. /\ pc' = [pc EXCEPT ![w] = IF rest = {} THEN "idle" ELSE "ready"]
        /\ hand' = [hand EXCEPT ![w] = rest]
        /\ copy' = [copy EXCEPT ![w] = less]
    BY DEF Finish
  <1> HIDE DEF c, rest, less
  <1>5. /\ copy' \in [Worker -> [Record -> 0..Cap]]
        /\ copy'[w] = less
        /\ \A v \in Worker \ {w} : copy'[v] = copy[v]
    BY <1>3, <1>4 DEF TypeOK
  <1>6. /\ pc' \in [Worker -> {"idle", "ready", "sending", "accepted", "refused", "abandoned"}]
        /\ hand' \in [Worker -> SUBSET Record]
        /\ \A v \in Worker : pc'[v] = "idle" <=> hand'[v] = {}
        /\ \A v \in Worker \ {w} : pc'[v] = pc[v] /\ hand'[v] = hand[v]
        /\ pc'[w] \in {"idle", "ready"}
        /\ hand'[w] = rest
    BY <1>1, <1>4 DEF TypeOK
  <1>7. QED
    BY <1>3, <1>5, <1>6 DEF c, rest

(* What a worker has in hand when it has read a set of records. *)
LEMMA ReadEffect ==
  ASSUME TypeOK, NEW w \in Worker, NEW set \in SUBSET Record, set # {}, Read(w, set)
  PROVE  /\ pc' \in [Worker -> {"idle", "ready", "sending", "accepted", "refused", "abandoned"}]
         /\ hand' \in [Worker -> SUBSET Record]
         /\ copy' \in [Worker -> [Record -> 0..Cap]]
         /\ \A v \in Worker : pc'[v] = "idle" <=> hand'[v] = {}
         /\ \A v \in Worker \ {w} : pc'[v] = pc[v] /\ hand'[v] = hand[v] /\ copy'[v] = copy[v]
         /\ pc'[w] = "ready"
         /\ hand'[w] = set
         /\ \A o \in set : copy'[w][o] = attempts[o]
  <1> DEFINE read == [o \in Record |-> IF o \in set THEN attempts[o] ELSE 0]
  <1>1. read \in [Record -> 0..Cap] /\ \A o \in set : read[o] = attempts[o]
    BY DEF TypeOK
  <1>2. /\ pc' = [pc EXCEPT ![w] = "ready"]
        /\ hand' = [hand EXCEPT ![w] = set]
        /\ copy' = [copy EXCEPT ![w] = read]
    BY DEF Read
  <1> HIDE DEF read
  <1>3. /\ copy' \in [Worker -> [Record -> 0..Cap]]
        /\ copy'[w] = read
        /\ \A v \in Worker \ {w} : copy'[v] = copy[v]
    BY <1>1, <1>2 DEF TypeOK
  <1>4. QED
    BY <1>1, <1>2, <1>3 DEF TypeOK

(* Whatever it had in hand, a worker that dies has nothing. *)
LEMMA CrashEffect ==
  ASSUME TypeOK, NEW w \in Worker, Crash(w)
  PROVE  /\ pc' \in [Worker -> {"idle", "ready", "sending", "accepted", "refused", "abandoned"}]
         /\ hand' \in [Worker -> SUBSET Record]
         /\ copy' \in [Worker -> [Record -> 0..Cap]]
         /\ \A v \in Worker : pc'[v] = "idle" <=> hand'[v] = {}
         /\ \A v \in Worker \ {w} : pc'[v] = pc[v] /\ hand'[v] = hand[v] /\ copy'[v] = copy[v]
         /\ pc'[w] = "idle" /\ hand'[w] = {}
  <1>1. Nothing \in [Record -> 0..Cap]
    BY DEF Nothing
  <1>2. QED
    BY <1>1 DEF Crash, TypeOK

(* Every step keeps the types: no counter leaves its range, and nobody is  *)
(* untold of a record that was notified.                                   *)
THEOREM TypeCorrect == Spec => []TypeOK
  <1>1. Init => TypeOK
    BY DEF Init, TypeOK, Nothing, Status
  <1>2. TypeOK /\ [Next]_vars => TypeOK'
    <2> SUFFICES ASSUME TypeOK, [Next]_vars PROVE TypeOK'
      OBVIOUS
    <2>1. ASSUME NEW o \in Record, Create(o) \/ BackoffEnds(o) PROVE TypeOK'
      <3>1. CASE Create(o)
        BY <3>1 DEF Create, TypeOK, Status, history
      <3>2. CASE BackoffEnds(o)
        BY <3>2 DEF BackoffEnds, TypeOK, history
      <3>3. QED
        BY <2>1, <3>1, <3>2
    <2>2. ASSUME NEW w \in Worker, NEW set \in SUBSET Record, set # {}, Read(w, set)
          PROVE  TypeOK'
      <3>1. overlapped' \in SUBSET Record
        BY <2>2 DEF Read, TypeOK
      <3>2. QED
        BY <2>2, <3>1, ReadEffect DEF Read, TypeOK, records
    <2>3. ASSUME NEW w \in Worker, MarkSending(w) PROVE TypeOK'
      BY <2>3, CurrentType DEF MarkSending, TypeOK, Status, history
    <2>4. ASSUME NEW w \in Worker, ResetRecord(w) PROVE TypeOK'
      BY <2>4, CurrentType DEF ResetRecord, TypeOK, Status, history
    <2>5. ASSUME NEW w \in Worker, Accept(w) PROVE TypeOK'
      <3>1. delivered' \in [Record -> 0..Cap]
        BY <2>5, CurrentType, Plus1Type DEF Accept, TypeOK
      <3>2. QED
        BY <2>5, <3>1 DEF Accept, TypeOK, records, history
    <2>6. ASSUME NEW w \in Worker, Refuse(w) PROVE TypeOK'
      <3>1. failures' \in [Record -> 0..Cap]
        BY <2>6, CurrentType, Plus1Type DEF Refuse, TypeOK
      <3>2. QED
        BY <2>6, <3>1 DEF Refuse, TypeOK, records, history
    <2>7. ASSUME NEW w \in Worker, SaveSent(w) PROVE TypeOK'
      <3>1. status' \in [Record -> Status]
        BY <2>7, CurrentType DEF SaveSent, TypeOK, Status
      <3>2. pc[w] # "idle" /\ Finish(w)
        BY <2>7 DEF SaveSent
      <3>3. QED
        BY <2>7, <3>1, <3>2, FinishEffect DEF SaveSent, TypeOK, history
    <2>8. ASSUME NEW w \in Worker, SaveFailed(w) PROVE TypeOK'
      <3> DEFINE n == Plus1(copy[w][Current(w)])
      <3>1. Current(w) \in Record /\ n \in 0..Cap
        BY <2>8, CurrentType, CopyType DEF SaveFailed
      <3> HIDE DEF n
      <3>2. attempts' \in [Record -> 0..Cap] /\ due' \in [Record -> BOOLEAN]
            /\ status' \in [Record -> Status]
        BY <2>8, <3>1 DEF SaveFailed, TypeOK, Status, n
      <3>3. CASE n >= MaxAttempts
        <4>1. /\ pc' = [pc EXCEPT ![w] = "abandoned"]
              /\ UNCHANGED <<failures, delivered, hand, copy, notified, history>>
          BY <2>8, <3>3 DEF SaveFailed, n
        <4>2. pc' \in [Worker -> {"idle", "ready", "sending", "accepted", "refused", "abandoned"}]
          BY <4>1 DEF TypeOK
        <4>3. \A v \in Worker : pc'[v] = "idle" <=> hand'[v] = {}
          <5>1. pc[w] = "refused"
            BY <2>8 DEF SaveFailed
          <5>2. pc[w] # "idle" /\ pc'[w] # "idle" /\ hand' = hand /\ \A v \in Worker \ {w} : pc'[v] = pc[v]
            BY <4>1, <5>1 DEF TypeOK
          <5>3. QED
            BY <5>2 DEF TypeOK
        <4>4. QED
          BY <3>2, <4>1, <4>2, <4>3 DEF TypeOK, history
      <3>4. CASE ~(n >= MaxAttempts)
        <4>1. pc[w] # "idle" /\ Finish(w)
          BY <2>8, <3>4 DEF SaveFailed, n
        <4>2. QED
          BY <2>8, <3>2, <4>1, FinishEffect DEF SaveFailed, TypeOK, history
      <3>5. QED
        BY <3>3, <3>4
    <2>9. ASSUME NEW w \in Worker, NotifyAdmins(w) PROVE TypeOK'
      <3>1. pc[w] # "idle" /\ Finish(w)
        BY <2>9 DEF NotifyAdmins
      <3>2. notified' \in SUBSET Record /\ untold' \in SUBSET (Record \ notified')
        BY <2>9, <3>1, CurrentType DEF NotifyAdmins, TypeOK
      <3>3. QED
        BY <2>9, <3>1, <3>2, FinishEffect DEF NotifyAdmins, TypeOK, records
    <2>10. ASSUME NEW w \in Worker, SaveResent(w) PROVE TypeOK'
      <3> DEFINE n == copy[w][Current(w)]
                 m == IF pc[w] = "accepted" THEN n ELSE Plus1(n)
      <3>1. pc[w] # "idle" /\ Finish(w)
        BY <2>10 DEF SaveResent
      <3>2. Current(w) \in Record /\ m \in 0..Cap
        BY <3>1, CurrentType, CopyType
      <3> HIDE DEF n, m
      <3>3. status' \in [Record -> Status] /\ attempts' \in [Record -> 0..Cap]
        BY <2>10, <3>2 DEF SaveResent, TypeOK, Status, n, m
      <3>4. QED
        BY <2>10, <3>1, <3>3, FinishEffect DEF SaveResent, TypeOK, history
    <2>11. ASSUME NEW w \in Worker, pc[w] # "idle", Interrupt(w)
           PROVE  /\ interrupted' \in SUBSET Record
                  /\ untold' \in SUBSET (Record \ notified)
      BY <2>11, CurrentType DEF Interrupt, TypeOK
    <2>12. ASSUME NEW w \in Worker, Fail(w) PROVE TypeOK'
      <3>1. pc[w] # "idle" /\ Finish(w) /\ Interrupt(w)
        BY <2>12 DEF Fail
      <3>2. QED
        BY <2>11, <2>12, <3>1, FinishEffect DEF Fail, TypeOK, records
    <2>13. ASSUME NEW w \in Worker, Crash(w) PROVE TypeOK'
      <3>1. pc[w] # "idle" /\ Interrupt(w)
        BY <2>13 DEF Crash
      <3>2. QED
        BY <2>11, <2>13, <3>1, CrashEffect DEF Crash, TypeOK, records
    <2>14. CASE UNCHANGED vars
      BY <2>14 DEF vars, records, history, TypeOK
    <2>15. \A o \in Record : {o} \in SUBSET Record /\ {o} # {}
      OBVIOUS
    <2>16. Due \in SUBSET Record /\ Pending \in SUBSET Record
      BY DEF Due, Pending
    <2>17. QED
      BY <2>1, <2>2, <2>3, <2>4, <2>5, <2>6, <2>7, <2>8, <2>9, <2>10, <2>12, <2>13,
         <2>14, <2>15, <2>16
      DEF Next, StartDrain, StartSweep, Drainable, Drain, LoadForResend, Resend, Worker
  <1>3. QED
    BY <1>1, <1>2, PTL DEF Spec
-----------------------------------------------------------------------------
(* A record that looks stuck is in the hands of a worker that has yet to   *)
(* save it, or to tell of it; or there is a history that says why not.     *)
TroubleHasCause ==
  \A o \in Record :
    /\ status[o] = "SENDING" =>
         \/ o \in interrupted
         \/ \E w \in Worker : pc[w] \in {"sending", "accepted", "refused"} /\ Current(w) = o
    /\ status[o] = "ABANDONED" =>
         \/ o \in notified \cup untold
         \/ \E w \in Worker : pc[w] = "abandoned" /\ Current(w) = o

(* The copies workers save from are old, and never ahead of the log.       *)
CopiesLagBehind ==
  /\ \A o \in Record : attempts[o] <= failures[o]
  /\ \A w \in Worker : \A o \in hand[w] : status[o] # "ABSENT" /\ copy[w][o] <= failures[o]
  /\ \A w \in Worker : pc[w] = "accepted" => delivered[Current(w)] > 0
  /\ \A w \in Worker :
       pc[w] = "refused" => Plus1(copy[w][Current(w)]) <= failures[Current(w)]

(* Two workers that may still send the same record are on record for it,   *)
(* and so is whoever may send a delivered one again.                       *)
DeliveredOnce ==
  /\ \A v, w \in Worker : \A o \in Record :
       o \in Busy(v) /\ o \in Busy(w) => v = w \/ o \in overlapped
  /\ \A o \in Record \ (overlapped \cup interrupted) : delivered[o] > 0 =>
       /\ status[o] = "SENT" \/ \E w \in Worker : pc[w] = "accepted" /\ Current(w) = o
       /\ \A w \in Worker : o \in Busy(w) => pc[w] = "accepted" /\ Current(w) = o

(* A worker whose hand does not change stays at its record. *)
LEMMA SameHand ==
  ASSUME NEW v \in Worker, hand'[v] = hand[v]
  PROVE  Current(v)' = Current(v) /\ (pc'[v] = pc[v] => Busy(v)' = Busy(v))
  BY DEF Current, Busy

(* A worker that stays at its record, or leaves a trace of it, keeps the   *)
(* cause.                                                                  *)
LEMMA TroubleKept ==
  ASSUME TroubleHasCause, interrupted \subseteq interrupted',
         \A o : o \in notified \cup untold => o \in notified' \cup untold',
         \A o \in Record : status'[o] \in {"SENDING", "ABANDONED"} => status'[o] = status[o],
         \A v \in Worker : pc[v] \in {"sending", "accepted", "refused"} =>
           (pc'[v] = pc[v] /\ Current(v)' = Current(v)) \/ Current(v) \in interrupted',
         \A v \in Worker : pc[v] = "abandoned" =>
           (pc'[v] = pc[v] /\ Current(v)' = Current(v)) \/ Current(v) \in notified' \cup untold'
  PROVE  TroubleHasCause'
  <1>1. ASSUME NEW o \in Record, status'[o] = "SENDING"
        PROVE  \/ o \in interrupted'
               \/ \E v \in Worker : pc'[v] \in {"sending", "accepted", "refused"} /\ Current(v)' = o
    <2>1. status[o] = "SENDING"
      BY <1>1
    <2>2. ASSUME NEW v \in Worker, pc[v] \in {"sending", "accepted", "refused"}, Current(v) = o,
                 o \notin interrupted'
          PROVE  pc'[v] \in {"sending", "accepted", "refused"} /\ Current(v)' = o
      BY <2>2
    <2>3. o \in interrupted
          \/ \E v \in Worker : pc[v] \in {"sending", "accepted", "refused"} /\ Current(v) = o
      BY <2>1 DEF TroubleHasCause
    <2>4. QED
      BY <2>2, <2>3
  <1>2. ASSUME NEW o \in Record, status'[o] = "ABANDONED"
        PROVE  \/ o \in notified' \cup untold'
               \/ \E v \in Worker : pc'[v] = "abandoned" /\ Current(v)' = o
    <2>1. status[o] = "ABANDONED"
      BY <1>2
    <2>2. ASSUME NEW v \in Worker, pc[v] = "abandoned", Current(v) = o,
                 o \notin notified' \cup untold'
          PROVE  pc'[v] = "abandoned" /\ Current(v)' = o
      BY <2>2
    <2>3. o \in notified \cup untold \/ \E v \in Worker : pc[v] = "abandoned" /\ Current(v) = o
      BY <2>1 DEF TroubleHasCause
    <2>4. QED
      BY <2>2, <2>3
  <1>3. QED
    BY <1>1, <1>2 DEF TroubleHasCause

(* What a step that saves the status of one record must do for it. *)
LEMMA SavedTrouble ==
  ASSUME TypeOK, TroubleHasCause, NEW w \in Worker, pc[w] \in {"accepted", "refused"},
         NEW s \in Status, status' = [status EXCEPT ![Current(w)] = s], Finish(w),
         s \notin {"SENDING", "ABANDONED"},
         UNCHANGED <<interrupted, notified, untold>>
  PROVE  TroubleHasCause'
  <1>1. Current(w) \in Record
    BY CurrentType
  <1>2. ASSUME NEW o \in Record, o # Current(w)
        PROVE  /\ status'[o] = status[o]
               /\ \A v \in Worker : Current(v) = o =>
                    v # w /\ pc'[v] = pc[v] /\ Current(v)' = Current(v)
    BY <1>1, <1>2, FinishEffect, SameHand DEF TypeOK
  <1>3. status'[Current(w)] = s
    BY <1>1 DEF TypeOK
  <1>4. QED
    BY <1>2, <1>3 DEF TroubleHasCause

(* A record that nobody has in hand is due to be sent, was sent, or shows  *)
(* somewhere, whatever dies or fails half-way.                             *)
THEOREM NothingGoesAstray == Spec => []TroubleShows
  <1>1. Init => TroubleHasCause
    BY DEF Init, TroubleHasCause
  <1>2. TypeOK /\ TroubleHasCause /\ [Next]_vars => TroubleHasCause'
    <2> SUFFICES ASSUME TypeOK, TroubleHasCause, [Next]_vars PROVE TroubleHasCause'
      OBVIOUS
    <2>1. ASSUME NEW o \in Record, Create(o) \/ BackoffEnds(o) PROVE TroubleHasCause'
      BY <2>1, SameHand DEF Create, BackoffEnds, TypeOK, TroubleHasCause, history
    <2>2. ASSUME NEW w \in Worker, NEW set \in SUBSET Record, set # {}, pc[w] = "idle", Read(w, set)
          PROVE  TroubleHasCause'
      <3>1. UNCHANGED <<status, interrupted, notified, untold>>
        BY <2>2 DEF Read, records
      <3>2. \A v \in Worker : pc[v] # "idle" => pc'[v] = pc[v] /\ Current(v)' = Current(v)
        BY <2>2, ReadEffect, SameHand
      <3>3. \A v \in Worker : pc[v] \in {"sending", "accepted", "refused", "abandoned"} =>
              pc'[v] = pc[v] /\ Current(v)' = Current(v)
        BY <3>2
      <3>4. QED
        BY <3>1, <3>3, TroubleKept
    <2>3. ASSUME NEW w \in Worker, MarkSending(w) \/ ResetRecord(w) PROVE TroubleHasCause'
      <3>1. /\ Current(w) \in Record
            /\ pc[w] = "ready" /\ pc' = [pc EXCEPT ![w] = "sending"]
            /\ UNCHANGED <<hand, interrupted, notified, untold>>
            /\ status'[Current(w)] \in {"SENDING", "PENDING"}
            /\ \A o \in Record \ {Current(w)} : status'[o] = status[o]
        BY <2>3, CurrentType DEF MarkSending, ResetRecord, TypeOK, history
      <3>2. \A v \in Worker : Current(v)' = Current(v) /\ (v # w => pc'[v] = pc[v])
        BY <3>1, SameHand DEF TypeOK
      <3>3. pc'[w] = "sending"
        BY <3>1 DEF TypeOK
      <3>4. ASSUME NEW o \in Record, o = Current(w), status'[o] = "SENDING"
            PROVE  pc'[w] \in {"sending", "accepted", "refused"} /\ Current(w)' = o
        BY <3>2, <3>3, <3>4
      <3>5. ASSUME NEW o \in Record, o # Current(w), NEW v \in Worker, Current(v) = o
            PROVE  pc'[v] = pc[v] /\ Current(v)' = o
        BY <3>2, <3>5
      <3>6. QED
        BY <3>1, <3>4, <3>5 DEF TroubleHasCause
    <2>4. ASSUME NEW w \in Worker, Accept(w) \/ Refuse(w) PROVE TroubleHasCause'
      <3>1. /\ pc[w] = "sending" /\ pc'[w] \in {"accepted", "refused"}
            /\ \A v \in Worker \ {w} : pc'[v] = pc[v]
            /\ UNCHANGED <<status, hand, interrupted, notified, untold>>
        BY <2>4 DEF Accept, Refuse, TypeOK, records, history
      <3>2. \A v \in Worker : Current(v)' = Current(v)
        BY <3>1, SameHand
      <3>3. QED
        BY <3>1, <3>2 DEF TroubleHasCause
    <2>5. ASSUME NEW w \in Worker, SaveSent(w) PROVE TroubleHasCause'
      BY <2>5, SavedTrouble DEF SaveSent, Status, history
    <2>6. ASSUME NEW w \in Worker, SaveFailed(w) PROVE TroubleHasCause'
      <3> DEFINE n == Plus1(copy[w][Current(w)])
      <3>1. CASE n >= MaxAttempts
        <4>1. /\ Current(w) \in Record
              /\ pc[w] = "refused" /\ pc'[w] = "abandoned"
              /\ \A v \in Worker \ {w} : pc'[v] = pc[v]
              /\ UNCHANGED <<hand, interrupted, notified, untold>>
              /\ status'[Current(w)] = "ABANDONED"
              /\ \A o \in Record \ {Current(w)} : status'[o] = status[o]
          BY <2>6, <3>1, CurrentType DEF SaveFailed, TypeOK, history
        <4>2. \A v \in Worker : Current(v)' = Current(v)
          BY <4>1, SameHand
        <4>3. QED
          BY <4>1, <4>2 DEF TroubleHasCause
      <3>2. CASE ~(n >= MaxAttempts)
        BY <2>6, <3>2, SavedTrouble DEF SaveFailed, Status, history
      <3>3. QED
        BY <3>1, <3>2
    <2>7. ASSUME NEW w \in Worker, NotifyAdmins(w) PROVE TroubleHasCause'
      <3>1. /\ pc[w] = "abandoned" /\ Finish(w)
            /\ \A o : o \in notified \cup untold \/ o = Current(w) => o \in notified' \cup untold'
            /\ UNCHANGED <<status, interrupted>>
        BY <2>7 DEF NotifyAdmins, records
      <3>2. \A v \in Worker \ {w} : pc'[v] = pc[v] /\ Current(v)' = Current(v)
        BY <3>1, FinishEffect, SameHand
      <3>3. QED
        BY <3>1, <3>2, TroubleKept
    <2>8. ASSUME NEW w \in Worker, SaveResent(w) PROVE TroubleHasCause'
      BY <2>8, SavedTrouble DEF SaveResent, Status, history
    <2>9. ASSUME NEW w \in Worker, Fail(w) \/ Crash(w) PROVE TroubleHasCause'
      <3>1. pc[w] # "idle" /\ Interrupt(w) /\ UNCHANGED <<status, notified>>
        BY <2>9 DEF Fail, Crash, records
      <3>2. \A v \in Worker \ {w} : pc'[v] = pc[v] /\ Current(v)' = Current(v)
        BY <2>9, <3>1, FinishEffect, CrashEffect, SameHand DEF Fail
      <3>3. /\ interrupted \subseteq interrupted' /\ untold \subseteq untold'
            /\ pc[w] \in {"sending", "accepted", "refused"} => Current(w) \in interrupted'
            /\ pc[w] = "abandoned" => Current(w) \in notified \cup untold'
        BY <3>1 DEF Interrupt
      <3>4. QED
        BY <3>1, <3>2, <3>3, TroubleKept
    <2>10. CASE UNCHANGED vars
      BY <2>10, SameHand DEF vars, records, history, TroubleHasCause
    <2>11. \A o \in Record : {o} \in SUBSET Record /\ {o} # {}
      OBVIOUS
    <2>12. Due \in SUBSET Record /\ Pending \in SUBSET Record
      BY DEF Due, Pending
    <2>13. QED
      BY <2>1, <2>2, <2>3, <2>4, <2>5, <2>6, <2>7, <2>8, <2>9, <2>10, <2>11, <2>12
      DEF Next, StartDrain, StartSweep, Drainable, Drain, LoadForResend, Resend, Worker
  <1>3. TypeOK /\ TroubleHasCause => TroubleShows
    <2> SUFFICES ASSUME TypeOK, TroubleHasCause, NEW o \in Record,
                        \A w \in Worker : o \notin hand[w]
                 PROVE  \/ status[o] \in {"ABSENT", "PENDING", "SENT"}
                        \/ status[o] = "FAILED" /\ PastelHealth = "FAILED"
                        \/ status[o] = "SENDING" /\ o \in interrupted
                        \/ status[o] = "ABANDONED" /\ o \in notified \cup untold
      BY DEF TroubleShows
    <2>1. \A w \in Worker : pc[w] # "idle" => Current(w) # o
      BY CurrentType
    <2>2. status[o] \in Status
      BY DEF TypeOK
    <2>3. QED
      BY <2>1, <2>2 DEF TroubleHasCause, Status, PastelHealth
  <1>4. QED
    BY <1>1, <1>2, <1>3, TypeCorrect, PTL DEF Spec
-----------------------------------------------------------------------------
(* Saving one record leaves the other workers' copies behind the log: the  *)
(* log only grows, and what is saved came from such a copy.                *)
LEMMA CopiesKept ==
  ASSUME TypeOK, CopiesLagBehind, NEW w \in Worker,
         \A v \in Worker \ {w} : pc'[v] = pc[v] /\ hand'[v] = hand[v] /\ copy'[v] = copy[v],
         pc'[w] \notin {"accepted", "refused"},
         \A o \in hand'[w] : status'[o] # "ABSENT" /\ copy'[w][o] <= failures[o],
         \A o \in Record : attempts'[o] <= failures[o],
         \A o \in Record : status[o] # "ABSENT" => status'[o] # "ABSENT",
         UNCHANGED <<failures, delivered>>
  PROVE  CopiesLagBehind'
  <1>1. \A v \in Worker \ {w} : hand[v] \subseteq Record /\ Current(v)' = Current(v)
    BY SameHand DEF TypeOK
  <1>2. ASSUME NEW v \in Worker, NEW o \in hand'[v]
        PROVE  status'[o] # "ABSENT" /\ copy'[v][o] <= failures[o]
    BY <1>1, <1>2 DEF CopiesLagBehind
  <1>3. ASSUME NEW v \in Worker, pc'[v] = "accepted" PROVE delivered[Current(v)'] > 0
    BY <1>1, <1>3 DEF CopiesLagBehind
  <1>4. ASSUME NEW v \in Worker, pc'[v] = "refused"
        PROVE  Plus1(copy'[v][Current(v)']) <= failures[Current(v)']
    BY <1>1, <1>4 DEF CopiesLagBehind
  <1>5. QED
    BY <1>2, <1>3, <1>4 DEF CopiesLagBehind

(* The same when a worker finishes with a record and has saved the status  *)
(* s and n attempts for it.                                                *)
LEMMA SavedCopies ==
  ASSUME TypeOK, CopiesLagBehind, NEW w \in Worker, pc[w] # "idle", Finish(w),
         NEW s \in Status, NEW n \in 0..Cap, s # "ABSENT", n <= failures[Current(w)],
         status' = [status EXCEPT ![Current(w)] = s],
         attempts' = [attempts EXCEPT ![Current(w)] = n],
         UNCHANGED <<failures, delivered>>
  PROVE  CopiesLagBehind'
  <1>1. Current(w) \in Record
    BY CurrentType
  <1>2. \A o \in Record : /\ attempts'[o] <= failures[o]
                          /\ status[o] # "ABSENT" => status'[o] # "ABSENT"
    BY <1>1 DEF CopiesLagBehind, TypeOK
  <1>3. hand[w] \subseteq Record
    BY DEF TypeOK
  <1>4. \A o \in hand'[w] : status'[o] # "ABSENT" /\ copy'[w][o] <= failures[o]
    BY <1>2, <1>3, FinishEffect DEF CopiesLagBehind
  <1>5. QED
    BY <1>2, <1>4, FinishEffect, CopiesKept

(* No worker saves more attempts than the log has failures, or a success   *)
(* that Pastel did not accept, however old its copy.                       *)
LEMMA CopiesStep == TypeOK /\ CopiesLagBehind /\ [Next]_vars => CopiesLagBehind'
  <1> SUFFICES ASSUME TypeOK, CopiesLagBehind, [Next]_vars PROVE CopiesLagBehind'
    OBVIOUS
  <1>1. ASSUME NEW o \in Record, Create(o) \/ BackoffEnds(o) PROVE CopiesLagBehind'
    <2>1. UNCHANGED <<attempts, failures, delivered, pc, hand, copy>>
      BY <1>1 DEF Create, BackoffEnds
    <2>2. \A p \in Record : status[p] # "ABSENT" => status'[p] # "ABSENT"
      BY <1>1 DEF Create, BackoffEnds, TypeOK
    <2>3. \A v \in Worker : hand[v] \subseteq Record /\ Current(v)' = Current(v)
      BY <2>1, SameHand DEF TypeOK
    <2>4. QED
      BY <2>1, <2>2, <2>3 DEF CopiesLagBehind
  <1>2. ASSUME NEW w \in Worker, NEW set \in SUBSET Record, set # {}, Read(w, set),
               \A o \in set : status[o] # "ABSENT"
        PROVE  CopiesLagBehind'
    <2>1. UNCHANGED <<status, attempts, failures, delivered>>
      BY <1>2 DEF Read, records
    <2>2. \A o \in hand'[w] : status'[o] # "ABSENT" /\ copy'[w][o] <= failures[o]
      <3>1. hand'[w] = set /\ \A o \in set : copy'[w][o] = attempts[o]
        BY <1>2, ReadEffect
      <3>2. \A o \in Record : attempts[o] <= failures[o]
        BY DEF CopiesLagBehind
      <3>3. QED
        BY <1>2, <2>1, <3>1, <3>2
    <2>3. \A v \in Worker \ {w} : pc'[v] = pc[v] /\ hand'[v] = hand[v] /\ copy'[v] = copy[v]
      BY <1>2, ReadEffect
    <2>4. pc'[w] = "ready"
      BY <1>2, ReadEffect
    <2>5. \A o \in Record : attempts'[o] <= failures[o]
      BY <2>1 DEF CopiesLagBehind
    <2>6. QED
      BY <2>1, <2>2, <2>3, <2>4, <2>5, CopiesKept
  <1>3. ASSUME NEW w \in Worker, MarkSending(w) \/ ResetRecord(w) PROVE CopiesLagBehind'
    <2>1. /\ Current(w) \in Record
          /\ pc' = [pc EXCEPT ![w] = "sending"]
          /\ UNCHANGED <<attempts, failures, delivered, hand, copy>>
          /\ status'[Current(w)] \in {"SENDING", "PENDING"}
          /\ \A o \in Record \ {Current(w)} : status'[o] = status[o]
      BY <1>3, CurrentType DEF MarkSending, ResetRecord, TypeOK
    <2>2. \A o \in Record : status[o] # "ABSENT" => status'[o] # "ABSENT"
      BY <2>1
    <2>3. /\ \A v \in Worker \ {w} : pc'[v] = pc[v]
          /\ pc'[w] = "sending"
          /\ hand[w] \subseteq Record
      BY <2>1 DEF TypeOK
    <2>4. /\ \A o \in Record : attempts'[o] <= failures[o]
          /\ \A o \in hand'[w] : status'[o] # "ABSENT" /\ copy'[w][o] <= failures[o]
      BY <2>1, <2>2, <2>3 DEF CopiesLagBehind
    <2>5. QED
      BY <2>1, <2>2, <2>3, <2>4, CopiesKept
  <1>4. ASSUME NEW w \in Worker, Accept(w) PROVE CopiesLagBehind'
    <2>1. /\ Current(w) \in Record
          /\ pc' = [pc EXCEPT ![w] = "accepted"]
          /\ UNCHANGED <<status, attempts, failures, hand, copy>>
          /\ delivered' = [delivered EXCEPT ![Current(w)] = Plus1(@)]
      BY <1>4, CurrentType DEF Accept, records
    <2>2. delivered[Current(w)] \in 0..Cap /\ Plus1(delivered[Current(w)]) > 0
      <3>1. delivered[Current(w)] \in 0..Cap
        BY <2>1 DEF TypeOK
      <3>2. QED
        BY <3>1 DEF Plus1
    <2>3. \A o \in Record : delivered[o] > 0 \/ o = Current(w) => delivered'[o] > 0
      BY <2>1, <2>2 DEF TypeOK
    <2>4. \A v \in Worker : /\ Current(v)' = Current(v)
                            /\ pc[v] # "idle" => Current(v) \in Record
      BY <2>1, SameHand, CurrentType
    <2>5. ASSUME NEW v \in Worker, pc'[v] = "accepted" PROVE delivered'[Current(v)'] > 0
      BY <2>1, <2>3, <2>4, <2>5 DEF CopiesLagBehind, TypeOK
    <2>6. ASSUME NEW v \in Worker, pc'[v] = "refused"
          PROVE  Plus1(copy[v][Current(v)]) <= failures[Current(v)]
      BY <2>1, <2>6 DEF CopiesLagBehind, TypeOK
    <2>7. QED
      BY <2>1, <2>4, <2>5, <2>6 DEF CopiesLagBehind
  <1>5. ASSUME NEW w \in Worker, Refuse(w) PROVE CopiesLagBehind'
    <2> DEFINE c == Current(w)
    <2>1. /\ c \in Record /\ c \in hand[w]
          /\ pc' = [pc EXCEPT ![w] = "refused"]
          /\ UNCHANGED <<status, attempts, delivered, hand, copy>>
          /\ failures' = [failures EXCEPT ![c] = Plus1(@)]
      BY <1>5, CurrentType DEF Refuse, records
    <2> HIDE DEF c
    <2>2. /\ failures[c] \in 0..Cap /\ Plus1(failures[c]) \in 0..Cap
          /\ failures[c] <= Plus1(failures[c])
      BY <2>1, Plus1Type DEF TypeOK
    <2>3. ASSUME NEW o \in Record, NEW n \in 0..Cap, n <= failures[o] PROVE n <= failures'[o]
      BY <2>1, <2>2, <2>3 DEF TypeOK
    <2>4. \A v \in Worker : /\ Current(v)' = Current(v) /\ hand[v] \subseteq Record
                            /\ copy[v] \in [Record -> 0..Cap]
                            /\ pc[v] # "idle" => Current(v) \in Record
      BY <2>1, SameHand, CurrentType DEF TypeOK
    <2>5. ASSUME NEW v \in Worker, NEW o \in hand[v] PROVE copy[v][o] <= failures'[o]
      BY <2>3, <2>4 DEF CopiesLagBehind
    <2>6. \A o \in Record : attempts[o] <= failures'[o]
      BY <2>3 DEF CopiesLagBehind, TypeOK
    <2>7. ASSUME NEW v \in Worker, pc'[v] = "refused"
          PROVE  Plus1(copy[v][Current(v)]) <= failures'[Current(v)]
      <3>1. CASE v # w
        <4>1. pc[v] = "refused"
          BY <2>1, <2>7, <3>1 DEF TypeOK
        <4>2. Plus1(copy[v][Current(v)]) \in 0..Cap
          BY <4>1, CopyType
        <4>3. QED
          BY <2>3, <2>4, <4>1, <4>2 DEF CopiesLagBehind
      <3>2. CASE v = w
        <4>1. copy[w][c] \in 0..Cap /\ copy[w][c] <= failures[c]
          BY <2>1, <2>4 DEF CopiesLagBehind
        <4>2. Plus1(copy[w][c]) <= Plus1(failures[c])
          BY <2>2, <4>1, Plus1Type
        <4>3. failures'[c] = Plus1(failures[c])
          BY <2>1 DEF TypeOK
        <4>4. QED
          BY <3>2, <4>2, <4>3 DEF c
      <3>3. QED
        BY <3>1, <3>2
    <2>8. ASSUME NEW v \in Worker, pc'[v] = "accepted" PROVE delivered[Current(v)] > 0
      BY <2>1, <2>8 DEF CopiesLagBehind, TypeOK
    <2>9. QED
      BY <2>1, <2>4, <2>5, <2>6, <2>7, <2>8 DEF CopiesLagBehind
  <1>6. ASSUME NEW w \in Worker, SaveSent(w) PROVE CopiesLagBehind'
    <2>1. attempts[Current(w)] \in 0..Cap /\ attempts' = [attempts EXCEPT ![Current(w)] = attempts[Current(w)]]
          /\ attempts[Current(w)] <= failures[Current(w)]
      BY <1>6, CurrentType DEF SaveSent, TypeOK, CopiesLagBehind
    <2>2. QED
      BY <1>6, <2>1, SavedCopies DEF SaveSent, Status
  <1>7. ASSUME NEW w \in Worker, SaveFailed(w) PROVE CopiesLagBehind'
    <2> DEFINE n == Plus1(copy[w][Current(w)])
    <2>1. pc[w] # "idle" /\ n \in 0..Cap /\ n <= failures[Current(w)] /\ Current(w) \in Record
      BY <1>7, CopyType, CurrentType DEF SaveFailed, CopiesLagBehind
    <2>2. attempts' = [attempts EXCEPT ![Current(w)] = n] /\ UNCHANGED <<failures, delivered>>
      BY <1>7 DEF SaveFailed
    <2>3. CASE n >= MaxAttempts
      <3>1. /\ status' = [status EXCEPT ![Current(w)] = "ABANDONED"]
            /\ pc' = [pc EXCEPT ![w] = "abandoned"] /\ UNCHANGED <<hand, copy>>
        BY <1>7, <2>3 DEF SaveFailed
      <3>2. \A o \in Record : /\ attempts'[o] <= failures[o]
                              /\ status[o] # "ABSENT" => status'[o] # "ABSENT"
        BY <2>1, <2>2, <3>1 DEF CopiesLagBehind, TypeOK
      <3>3. /\ \A v \in Worker \ {w} : pc'[v] = pc[v]
            /\ pc'[w] = "abandoned"
            /\ hand[w] \subseteq Record
        BY <3>1 DEF TypeOK
      <3>4. QED
        BY <2>2, <3>1, <3>2, <3>3, CopiesKept DEF CopiesLagBehind
    <2>4. CASE ~(n >= MaxAttempts)
      <3>1. status' = [status EXCEPT ![Current(w)] = "FAILED"] /\ Finish(w)
        BY <1>7, <2>4 DEF SaveFailed
      <3> HIDE DEF n
      <3>2. QED
        BY <2>1, <2>2, <3>1, SavedCopies DEF Status
    <2>5. QED
      BY <2>3, <2>4
  <1>8. ASSUME NEW w \in Worker, SaveResent(w) PROVE CopiesLagBehind'
    <2> DEFINE sent == pc[w] = "accepted"
               k == copy[w][Current(w)]
               n == IF sent THEN k ELSE Plus1(k)
               s == IF sent THEN "SENT" ELSE "FAILED"
    <2>1. pc[w] \in {"accepted", "refused"} /\ Finish(w) /\ UNCHANGED <<failures, delivered>>
      BY <1>8 DEF SaveResent
    <2>2. /\ status' = [status EXCEPT ![Current(w)] = s]
          /\ attempts' = [attempts EXCEPT ![Current(w)] = n]
      BY <1>8 DEF SaveResent
    <2>3. k \in 0..Cap /\ Plus1(k) \in 0..Cap
      BY <2>1, CopyType
    <2>4. n \in 0..Cap /\ s \in Status /\ s # "ABSENT"
      BY <2>3 DEF Status
    <2>5. n <= failures[Current(w)]
      BY <2>1, CurrentType DEF CopiesLagBehind
    <2> HIDE DEF n, s
    <2>6. QED
      BY <2>1, <2>2, <2>4, <2>5, SavedCopies
  <1>9. ASSUME NEW w \in Worker, NotifyAdmins(w) \/ Fail(w) \/ Crash(w) PROVE CopiesLagBehind'
    <2>1. /\ UNCHANGED <<status, attempts, failures, delivered>>
          /\ pc[w] # "idle"
      BY <1>9 DEF NotifyAdmins, Fail, Crash, records
    <2>2. /\ \A v \in Worker \ {w} : pc'[v] = pc[v] /\ hand'[v] = hand[v] /\ copy'[v] = copy[v]
          /\ pc'[w] \notin {"accepted", "refused"}
          /\ \A o \in hand'[w] : o \in hand[w] /\ copy'[w][o] = copy[w][o]
      BY <1>9, <2>1, FinishEffect, CrashEffect DEF NotifyAdmins, Fail
    <2>3. QED
      BY <2>1, <2>2, CopiesKept DEF CopiesLagBehind
  <1>10. CASE UNCHANGED vars
    <2>1. UNCHANGED <<status, attempts, failures, delivered, pc, hand, copy>>
      BY <1>10 DEF vars, records
    <2>2. \A v \in Worker : Current(v)' = Current(v)
      BY <2>1, SameHand
    <2>3. QED
      BY <2>1, <2>2 DEF CopiesLagBehind
  <1>11. \A o \in Record : {o} \in SUBSET Record /\ {o} # {}
    OBVIOUS
  <1>12. Due \in SUBSET Record /\ Pending \in SUBSET Record
    BY DEF Due, Pending
  <1>13. \A o \in Due \cup Pending : status[o] # "ABSENT"
    BY DEF Due, Pending
  <1>14. QED
    BY <1>1, <1>2, <1>3, <1>4, <1>5, <1>6, <1>7, <1>8, <1>9, <1>10, <1>11, <1>12, <1>13
    DEF Next, StartDrain, StartSweep, Drainable, Drain, LoadForResend, Resend, Worker
-----------------------------------------------------------------------------
(* A worker that puts a record down, or reads nothing new, makes no record *)
(* busier, and delivers nothing.                                           *)
LEMMA DeliveredKept ==
  ASSUME TypeOK, DeliveredOnce, NEW w \in Worker,
         \A v \in Worker \ {w} : pc'[v] = pc[v] /\ hand'[v] = hand[v],
         Busy(w)' \subseteq Busy(w),
         pc[w] = "accepted" =>
           /\ Current(w) \in interrupted' \/ status'[Current(w)] = "SENT"
           /\ Current(w) \notin Busy(w)',
         \A o \in Record : /\ status[o] = "SENT" /\ o \notin Busy(w) => status'[o] = "SENT"
                           /\ status[o] = "SENT" /\ pc[w] = "accepted" => status'[o] = "SENT",
         interrupted \subseteq interrupted',
         UNCHANGED <<delivered, overlapped>>
  PROVE  DeliveredOnce'
  <1>1. \A v \in Worker \ {w} : Busy(v)' = Busy(v) /\ Current(v)' = Current(v)
    BY SameHand
  <1>2. ASSUME NEW v \in Worker, NEW u \in Worker, NEW o \in Record,
               o \in Busy(v)', o \in Busy(u)'
        PROVE  v = u \/ o \in overlapped'
    <2>1. o \in Busy(v) /\ o \in Busy(u)
      BY <1>1, <1>2
    <2>2. QED
      BY <2>1 DEF DeliveredOnce
  <1>3. ASSUME NEW o \in Record, o \notin overlapped' \cup interrupted', delivered'[o] > 0
        PROVE  /\ status'[o] = "SENT" \/ \E v \in Worker : pc'[v] = "accepted" /\ Current(v)' = o
               /\ \A v \in Worker : o \in Busy(v)' => pc'[v] = "accepted" /\ Current(v)' = o
    <2>1. /\ status[o] = "SENT" \/ \E v \in Worker : pc[v] = "accepted" /\ Current(v) = o
          /\ \A v \in Worker : o \in Busy(v) => pc[v] = "accepted" /\ Current(v) = o
      BY <1>3 DEF DeliveredOnce
    <2>2. status[o] = "SENT" => status'[o] = "SENT"
      BY <2>1
    <2>3. \A v \in Worker : pc[v] = "accepted" /\ Current(v) = o =>
            status'[o] = "SENT" \/ v # w
      BY <1>3
    <2>4. o \notin Busy(w)'
      BY <2>1
    <2>5. QED
      BY <1>1, <2>1, <2>2, <2>3, <2>4
  <1>4. QED
    BY <1>2, <1>3 DEF DeliveredOnce

(* Nobody sends a delivered record again unless it is on record as shared  *)
(* or interrupted.                                                         *)
LEMMA DeliveredStep ==
  TypeOK /\ CopiesLagBehind /\ DeliveredOnce /\ [Next]_vars => DeliveredOnce'
  <1> SUFFICES ASSUME TypeOK, CopiesLagBehind, DeliveredOnce, [Next]_vars PROVE DeliveredOnce'
    OBVIOUS
  <1>1. ASSUME NEW o \in Record, Create(o) \/ BackoffEnds(o) PROVE DeliveredOnce'
    <2>1. UNCHANGED <<delivered, pc, hand, overlapped, interrupted>>
      BY <1>1 DEF Create, BackoffEnds, history
    <2>2. \A v \in Worker : Busy(v)' = Busy(v) /\ Current(v)' = Current(v)
      BY <2>1, SameHand
    <2>3. \A p \in Record : status[p] = "SENT" => status'[p] = "SENT"
      BY <1>1 DEF Create, BackoffEnds, TypeOK
    <2>4. QED
      BY <2>1, <2>2, <2>3 DEF DeliveredOnce
  <1>2. ASSUME NEW w \in Worker, NEW set \in SUBSET Record, set # {}, pc[w] = "idle", Read(w, set),
               \A o \in set : status[o] # "SENT"
        PROVE  DeliveredOnce'
    <2>1. UNCHANGED <<status, delivered, interrupted>>
      BY <1>2 DEF Read, records
    <2>2. overlapped' = overlapped \cup {o \in set : \E v \in Worker \ {w} : o \in Busy(v)}
      BY <1>2 DEF Read
    <2>3. /\ \A v \in Worker \ {w} : Busy(v)' = Busy(v) /\ Current(v)' = Current(v) /\ pc'[v] = pc[v]
          /\ pc'[w] = "ready" /\ Busy(w)' = set
      BY <1>2, ReadEffect, SameHand DEF Busy
    <2>4. ASSUME NEW v \in Worker, NEW u \in Worker, NEW o \in Record,
                 o \in Busy(v)', o \in Busy(u)'
          PROVE  v = u \/ o \in overlapped'
      <3>1. CASE v # w /\ u # w
        <4>1. o \in Busy(v) /\ o \in Busy(u)
          BY <2>3, <2>4, <3>1
        <4>2. v = u \/ o \in overlapped
          BY <4>1 DEF DeliveredOnce
        <4>3. QED
          BY <2>2, <4>2
      <3>2. CASE v = w /\ u # w
        BY <2>2, <2>3, <2>4, <3>2
      <3>3. CASE v # w /\ u = w
        BY <2>2, <2>3, <2>4, <3>3
      <3>4. QED
        BY <3>1, <3>2, <3>3
    <2>5. ASSUME NEW o \in Record, o \notin overlapped' \cup interrupted', delivered'[o] > 0
          PROVE  /\ status'[o] = "SENT" \/ \E v \in Worker : pc'[v] = "accepted" /\ Current(v)' = o
                 /\ \A v \in Worker : o \in Busy(v)' => pc'[v] = "accepted" /\ Current(v)' = o
      <3>1. /\ status[o] = "SENT" \/ \E v \in Worker : pc[v] = "accepted" /\ Current(v) = o
            /\ \A v \in Worker : o \in Busy(v) => pc[v] = "accepted" /\ Current(v) = o
        BY <2>1, <2>2, <2>5 DEF DeliveredOnce
      <3>2. \A v \in Worker : pc[v] = "accepted" /\ Current(v) = o => v # w /\ o \in Busy(v)
        BY <1>2, CurrentType DEF Busy
      <3>3. o \notin set
        BY <1>2, <2>2, <2>5, <3>1, <3>2
      <3>4. QED
        BY <2>1, <2>3, <3>1, <3>2, <3>3
    <2>6. QED
      BY <2>4, <2>5 DEF DeliveredOnce
  <1>3. ASSUME NEW w \in Worker, MarkSending(w) \/ ResetRecord(w) PROVE DeliveredOnce'
    <2>1. /\ Current(w) \in Record /\ Current(w) \in hand[w]
          /\ pc[w] = "ready" /\ pc' = [pc EXCEPT ![w] = "sending"]
          /\ UNCHANGED <<delivered, hand, overlapped, interrupted>>
          /\ \A o \in Record \ {Current(w)} : status'[o] = status[o]
      BY <1>3, CurrentType DEF MarkSending, ResetRecord, TypeOK, history
    <2>2. /\ \A v \in Worker \ {w} : pc'[v] = pc[v] /\ hand'[v] = hand[v]
          /\ pc'[w] = "sending" /\ Busy(w)' = hand[w] /\ Busy(w) = hand[w]
      BY <2>1 DEF TypeOK, Busy
    <2>3. QED
      BY <2>1, <2>2, DeliveredKept
  <1>4. ASSUME NEW w \in Worker, Accept(w) PROVE DeliveredOnce'
    <2>1. /\ Current(w) \in Record /\ Current(w) \in hand[w]
          /\ pc[w] = "sending" /\ pc' = [pc EXCEPT ![w] = "accepted"]
          /\ UNCHANGED <<status, hand, overlapped, interrupted>>
          /\ \A o \in Record \ {Current(w)} : delivered'[o] = delivered[o]
      BY <1>4, CurrentType DEF Accept, TypeOK, records, history
    <2>2. /\ \A v \in Worker : Busy(v)' = Busy(v) /\ Current(v)' = Current(v)
          /\ \A v \in Worker \ {w} : pc'[v] = pc[v]
          /\ pc'[w] = "accepted" /\ Busy(w) = hand[w]
      <3>1. /\ \A v \in Worker \ {w} : pc'[v] = pc[v]
            /\ pc'[w] = "accepted"
        BY <2>1 DEF TypeOK
      <3>2. QED
        BY <2>1, <3>1, SameHand DEF Busy
    <2>3. ASSUME NEW o \in Record, o \notin overlapped' \cup interrupted', delivered'[o] > 0
          PROVE  /\ status'[o] = "SENT" \/ \E v \in Worker : pc'[v] = "accepted" /\ Current(v)' = o
                 /\ \A v \in Worker : o \in Busy(v)' => pc'[v] = "accepted" /\ Current(v)' = o
      <3>1. CASE o = Current(w)
        BY <2>1, <2>2, <2>3, <3>1 DEF DeliveredOnce
      <3>2. CASE o # Current(w)
        <4>1. /\ status[o] = "SENT" \/ \E v \in Worker : pc[v] = "accepted" /\ Current(v) = o
              /\ \A v \in Worker : o \in Busy(v) => pc[v] = "accepted" /\ Current(v) = o
          BY <2>1, <2>3, <3>2 DEF DeliveredOnce
        <4>2. QED
          BY <2>1, <2>2, <3>2, <4>1
      <3>3. QED
        BY <3>1, <3>2
    <2>4. QED
      BY <2>1, <2>2, <2>3 DEF DeliveredOnce
  <1>5. ASSUME NEW w \in Worker, Refuse(w) PROVE DeliveredOnce'
    <2>1. /\ pc[w] = "sending" /\ pc' = [pc EXCEPT ![w] = "refused"]
          /\ UNCHANGED <<status, delivered, hand, overlapped, interrupted>>
      BY <1>5 DEF Refuse, records, history
    <2>2. /\ \A v \in Worker \ {w} : pc'[v] = pc[v] /\ hand'[v] = hand[v]
          /\ Busy(w)' = Busy(w)
      BY <2>1 DEF TypeOK, Busy
    <2>3. QED
      BY <2>1, <2>2, DeliveredKept
  <1>6. ASSUME NEW w \in Worker, pc[w] # "idle", Finish(w)
        PROVE  /\ \A v \in Worker \ {w} : pc'[v] = pc[v] /\ hand'[v] = hand[v]
               /\ Busy(w)' \subseteq Busy(w)
               /\ Current(w) \notin Busy(w)'
    BY <1>6, FinishEffect DEF Busy
  <1>7. ASSUME NEW w \in Worker, SaveSent(w) PROVE DeliveredOnce'
    <2>1. /\ pc[w] = "accepted" /\ Finish(w) /\ Current(w) \in Record
          /\ status' = [status EXCEPT ![Current(w)] = "SENT"]
          /\ UNCHANGED <<delivered, overlapped, interrupted>>
      BY <1>7, CurrentType DEF SaveSent, history
    <2>2. \A o \in Record : status'[o] = IF o = Current(w) THEN "SENT" ELSE status[o]
      BY <2>1 DEF TypeOK
    <2>3. QED
      BY <1>6, <2>1, <2>2, DeliveredKept
  <1>8. ASSUME NEW w \in Worker, SaveFailed(w) PROVE DeliveredOnce'
    <2> DEFINE n == Plus1(copy[w][Current(w)])
    <2>1. /\ pc[w] = "refused" /\ Current(w) \in Record /\ Current(w) \in Busy(w)
          /\ UNCHANGED <<delivered, overlapped, interrupted>>
      BY <1>8, CurrentType DEF SaveFailed, history, Busy
    <2>2. \A o \in Record : o # Current(w) => status'[o] = status[o]
      BY <1>8, <2>1 DEF SaveFailed, TypeOK
    <2>3. CASE n >= MaxAttempts
      <3>1. pc' = [pc EXCEPT ![w] = "abandoned"] /\ UNCHANGED hand
        BY <1>8, <2>3 DEF SaveFailed
      <3>2. /\ \A v \in Worker \ {w} : pc'[v] = pc[v] /\ hand'[v] = hand[v]
            /\ Busy(w)' \subseteq Busy(w)
        BY <2>1, <3>1 DEF TypeOK, Busy
      <3>3. QED
        BY <2>1, <2>2, <3>2, DeliveredKept
    <2>4. CASE ~(n >= MaxAttempts)
      <3>1. Finish(w)
        BY <1>8, <2>4 DEF SaveFailed
      <3>2. QED
        BY <1>6, <2>1, <2>2, <3>1, DeliveredKept
    <2>5. QED
      BY <2>3, <2>4
  <1>9. ASSUME NEW w \in Worker, SaveResent(w) PROVE DeliveredOnce'
    <2>1. /\ pc[w] \in {"accepted", "refused"} /\ Finish(w) /\ Current(w) \in Record
          /\ Current(w) \in Busy(w)
          /\ UNCHANGED <<delivered, overlapped, interrupted>>
      BY <1>9, CurrentType DEF SaveResent, history, Busy
    <2>2. /\ \A o \in Record : o # Current(w) => status'[o] = status[o]
          /\ pc[w] = "accepted" => status'[Current(w)] = "SENT"
      BY <1>9, <2>1 DEF SaveResent, TypeOK
    <2>3. QED
      BY <1>6, <2>1, <2>2, DeliveredKept
  <1>10. ASSUME NEW w \in Worker, NotifyAdmins(w) PROVE DeliveredOnce'
    <2>1. /\ pc[w] = "abandoned" /\ Finish(w)
          /\ UNCHANGED <<status, delivered, overlapped, interrupted>>
      BY <1>10 DEF NotifyAdmins, records
    <2>2. QED
      BY <1>6, <2>1, DeliveredKept
  <1>11. ASSUME NEW w \in Worker, Fail(w) \/ Crash(w) PROVE DeliveredOnce'
    <2>1. /\ pc[w] # "idle" /\ interrupted \subseteq interrupted'
          /\ pc[w] = "accepted" => Current(w) \in interrupted'
          /\ UNCHANGED <<status, delivered, overlapped>>
      BY <1>11 DEF Fail, Crash, Interrupt, records
    <2>2. /\ \A v \in Worker \ {w} : pc'[v] = pc[v] /\ hand'[v] = hand[v]
          /\ Busy(w)' \subseteq Busy(w) /\ Current(w) \notin Busy(w)'
      BY <1>6, <1>11, <2>1, CrashEffect DEF Fail, Busy
    <2>3. QED
      BY <2>1, <2>2, DeliveredKept
  <1>12. CASE UNCHANGED vars
    <2>1. UNCHANGED <<status, delivered, pc, hand, overlapped, interrupted>>
      BY <1>12 DEF vars, records, history
    <2>2. \A v \in Worker : Busy(v)' = Busy(v) /\ Current(v)' = Current(v)
      BY <2>1, SameHand
    <2>3. QED
      BY <2>1, <2>2 DEF DeliveredOnce
  <1>13. \A o \in Record : {o} \in SUBSET Record /\ {o} # {}
    OBVIOUS
  <1>14. Due \in SUBSET Record /\ Pending \in SUBSET Record
    BY DEF Due, Pending
  <1>15. \A o \in Due \cup Pending : status[o] # "SENT"
    BY DEF Due, Pending
  <1>16. QED
    BY <1>1, <1>2, <1>3, <1>4, <1>5, <1>7, <1>8, <1>9, <1>10, <1>11, <1>12, <1>13, <1>14, <1>15
    DEF Next, StartDrain, StartSweep, Drainable, Drain, LoadForResend, Resend, Worker
-----------------------------------------------------------------------------
OutboxInv == TypeOK /\ CopiesLagBehind /\ DeliveredOnce

(* So the invariant always holds.                                          *)
LEMMA OutboxInvAlways == Spec => []OutboxInv
  <1>1. Init => CopiesLagBehind /\ DeliveredOnce
    BY DEF Init, CopiesLagBehind, DeliveredOnce, Busy, Nothing
  <1>2. TypeOK /\ CopiesLagBehind /\ DeliveredOnce /\ [Next]_vars
          => CopiesLagBehind' /\ DeliveredOnce'
    BY CopiesStep, DeliveredStep
  <1>3. QED
    BY <1>1, <1>2, TypeCorrect, PTL DEF Spec, OutboxInv

(* A save is a conclusion from what has happened, of as many attempts as   *)
(* the log has failures at least.                                          *)
LEMMA SaveConcludes ==
  ASSUME TypeOK, NEW w \in Worker, pc[w] # "idle",
         NEW s \in {"SENT", "FAILED", "ABANDONED"}, NEW n \in 0..Cap,
         n <= failures[Current(w)],
         s = "SENT" => delivered[Current(w)] > 0,
         s = "FAILED" => failures[Current(w)] > 0,
         s = "ABANDONED" => failures[Current(w)] >= MaxAttempts,
         status' = [status EXCEPT ![Current(w)] = s],
         attempts' = [attempts EXCEPT ![Current(w)] = n],
         UNCHANGED <<delivered, failures, overlapped, interrupted>>
  PROVE  Promise!Next
  <1>1. Current(w) \in Record
    BY CurrentType
  <1>2. failures[Current(w)] \in 0..Cap
    BY <1>1 DEF TypeOK
  <1>3. n \in 0..failures[Current(w)]
    BY <1>2
  <1>4. Promise!Conclude(Current(w))
    BY <1>3 DEF Promise!Conclude
  <1>5. QED
    BY <1>1, <1>4 DEF Promise!Next

(* A refusal that was logged has made the failures positive. *)
LEMMA RefusedFailed ==
  ASSUME TypeOK, CopiesLagBehind, NEW w \in Worker, pc[w] = "refused"
  PROVE  /\ Plus1(copy[w][Current(w)]) \in 0..Cap
         /\ Plus1(copy[w][Current(w)]) <= failures[Current(w)]
         /\ failures[Current(w)] > 0
  <1>1. copy[w][Current(w)] \in 0..Cap /\ Plus1(copy[w][Current(w)]) \in 0..Cap
    BY CopyType
  <1>2. Plus1(copy[w][Current(w)]) > 0
    BY <1>1 DEF Plus1
  <1>3. failures[Current(w)] \in 0..Cap
    BY CurrentType DEF TypeOK
  <1>4. Plus1(copy[w][Current(w)]) <= failures[Current(w)]
    BY DEF CopiesLagBehind
  <1>5. QED
    BY <1>1, <1>2, <1>3, <1>4

(* Every step of the workers is a step of the promise, or changes nothing  *)
(* it speaks of.                                                           *)
LEMMA StepKeepsPromise ==
  OutboxInv /\ [Next]_vars =>
    [Promise!Next]_<<status, attempts, delivered, failures, overlapped \cup interrupted>>
  <1> SUFFICES ASSUME OutboxInv, [Next]_vars
               PROVE  \/ Promise!Next
                      \/ UNCHANGED <<status, attempts, delivered, failures,
                                     overlapped \cup interrupted>>
    OBVIOUS
  <1> USE DEF OutboxInv
  <1>1. ASSUME NEW o \in Record, Create(o) PROVE Promise!Next
    BY <1>1 DEF Create, history, Promise!Next, Promise!Queue
  <1>2. ASSUME NEW o \in Record, BackoffEnds(o)
        PROVE  UNCHANGED <<status, attempts, delivered, failures, overlapped \cup interrupted>>
    BY <1>2 DEF BackoffEnds, history
  <1>3. ASSUME NEW w \in Worker, NEW set \in SUBSET Record, Read(w, set) PROVE Promise!Next
    <2> DEFINE more == {o \in set : \E v \in Worker \ {w} : o \in Busy(v)}
    <2>1. /\ UNCHANGED <<status, attempts, delivered, failures>>
          /\ (overlapped \cup interrupted)' = (overlapped \cup interrupted) \cup more
          /\ more \in SUBSET Record
      BY <1>3 DEF Read, records
    <2> HIDE DEF more
    <2>2. QED
      BY <2>1 DEF Promise!Next, Promise!Excuse
  <1>4. ASSUME NEW w \in Worker, MarkSending(w) PROVE Promise!Next
    <2>1. Current(w) \in Record /\ status[Current(w)] # "ABSENT"
      BY <1>4, CurrentType DEF MarkSending, CopiesLagBehind
    <2>2. Promise!TakeUp(Current(w))
      BY <1>4, <2>1 DEF MarkSending, history, Promise!TakeUp
    <2>3. QED
      BY <2>1, <2>2 DEF Promise!Next
  <1>5. ASSUME NEW w \in Worker, ResetRecord(w) PROVE Promise!Next
    <2>1. Current(w) \in Record
      BY <1>5, CurrentType DEF ResetRecord
    <2>2. Promise!Queue(Current(w))
      BY <1>5 DEF ResetRecord, history, Promise!Queue
    <2>3. QED
      BY <2>1, <2>2 DEF Promise!Next
  <1>6. ASSUME NEW w \in Worker, Accept(w) PROVE Promise!Next
    <2>1. pc[w] = "sending" /\ Current(w) \in Record /\ Current(w) \in Busy(w)
      BY <1>6, CurrentType DEF Accept, Busy
    <2>2. delivered[Current(w)] = 0 \/ Current(w) \in overlapped \cup interrupted
      <3>1. delivered[Current(w)] \in 0..Cap
        BY <2>1 DEF TypeOK
      <3>2. delivered[Current(w)] = 0 \/ delivered[Current(w)] > 0
        BY <3>1
      <3>3. QED
        BY <2>1, <3>2, Zenon DEF DeliveredOnce
    <2>3. delivered' = Promise!OneMore(delivered, Current(w))
      BY <1>6 DEF Accept, Promise!OneMore, Plus1
    <2>4. Promise!Deliver(Current(w))
      BY <1>6, <2>2, <2>3 DEF Accept, records, history, Promise!Deliver
    <2>5. QED
      BY <2>1, <2>4 DEF Promise!Next
  <1>7. ASSUME NEW w \in Worker, Refuse(w) PROVE Promise!Next
    <2>1. Current(w) \in Record
      BY <1>7, CurrentType DEF Refuse
    <2>2. failures' = Promise!OneMore(failures, Current(w))
      BY <1>7 DEF Refuse, Promise!OneMore, Plus1
    <2>3. Promise!Miss(Current(w))
      BY <1>7, <2>2 DEF Refuse, records, history, Promise!Miss
    <2>4. QED
      BY <2>1, <2>3 DEF Promise!Next
  <1>8. ASSUME NEW w \in Worker, SaveSent(w) PROVE Promise!Next
    <2>1. /\ pc[w] = "accepted" /\ Current(w) \in Record
          /\ attempts' = attempts
      BY <1>8, CurrentType DEF SaveSent
    <2>2. /\ attempts[Current(w)] \in 0..Cap /\ attempts[Current(w)] <= failures[Current(w)]
          /\ attempts' = [attempts EXCEPT ![Current(w)] = attempts[Current(w)]]
          /\ delivered[Current(w)] > 0
      BY <2>1 DEF TypeOK, CopiesLagBehind
    <2>3. QED
      BY <1>8, <2>1, <2>2, SaveConcludes DEF SaveSent, history
  <1>9. ASSUME NEW w \in Worker, SaveFailed(w) PROVE Promise!Next
    <2> DEFINE n == Plus1(copy[w][Current(w)])
               s == IF n >= MaxAttempts THEN "ABANDONED" ELSE "FAILED"
    <2>1. pc[w] = "refused"
      BY <1>9 DEF SaveFailed
    <2>2. n \in 0..Cap /\ n <= failures[Current(w)] /\ failures[Current(w)] > 0
      BY <2>1, RefusedFailed
    <2>3. /\ status' = [status EXCEPT ![Current(w)] = s]
          /\ attempts' = [attempts EXCEPT ![Current(w)] = n]
          /\ UNCHANGED <<delivered, failures, overlapped, interrupted>>
      BY <1>9 DEF SaveFailed, history
    <2>4. failures[Current(w)] \in 0..Cap
      BY <2>1, CurrentType DEF TypeOK
    <2>5. /\ s \in {"SENT", "FAILED", "ABANDONED"}
          /\ s # "SENT"
          /\ s = "ABANDONED" => failures[Current(w)] >= MaxAttempts
      BY <2>2, <2>4
    <2> HIDE DEF n, s
    <2>6. QED
      BY <2>1, <2>2, <2>3, <2>5, SaveConcludes
  <1>10. ASSUME NEW w \in Worker, SaveResent(w) PROVE Promise!Next
    <2> DEFINE k == copy[w][Current(w)]
               n == IF pc[w] = "accepted" THEN k ELSE Plus1(k)
               s == IF pc[w] = "accepted" THEN "SENT" ELSE "FAILED"
    <2>1. /\ pc[w] \in {"accepted", "refused"}
          /\ status' = [status EXCEPT ![Current(w)] = s]
          /\ attempts' = [attempts EXCEPT ![Current(w)] = n]
          /\ UNCHANGED <<delivered, failures, overlapped, interrupted>>
      BY <1>10 DEF SaveResent, history
    <2>2. Current(w) \in hand[w] /\ k \in 0..Cap
      BY <2>1, CurrentType, CopyType
    <2>3. /\ n \in 0..Cap /\ n <= failures[Current(w)]
          /\ s \in {"SENT", "FAILED", "ABANDONED"} /\ s # "ABANDONED"
          /\ s = "SENT" => delivered[Current(w)] > 0
          /\ s = "FAILED" => failures[Current(w)] > 0
      BY <2>1, <2>2, RefusedFailed DEF CopiesLagBehind
    <2> HIDE DEF n, s
    <2>4. QED
      BY <2>1, <2>3, SaveConcludes
  <1>11. ASSUME NEW w \in Worker, NotifyAdmins(w)
         PROVE  UNCHANGED <<status, attempts, delivered, failures, overlapped \cup interrupted>>
    BY <1>11 DEF NotifyAdmins, records
  <1>12. ASSUME NEW w \in Worker, Fail(w) \/ Crash(w) PROVE Promise!Next
    <2> DEFINE more == IF pc[w] \in {"ready", "abandoned"} THEN {} ELSE {Current(w)}
    <2>1. /\ UNCHANGED <<status, attempts, delivered, failures>>
          /\ (overlapped \cup interrupted)' = (overlapped \cup interrupted) \cup more
          /\ pc[w] # "idle"
      BY <1>12 DEF Fail, Crash, Interrupt, records
    <2>2. more \in SUBSET Record
      BY <2>1, CurrentType
    <2> HIDE DEF more
    <2>3. QED
      BY <2>1, <2>2 DEF Promise!Next, Promise!Excuse
  <1>13. CASE UNCHANGED vars
    BY <1>13 DEF vars, records, history
  <1>14. \A o \in Record : {o} \in SUBSET Record
    OBVIOUS
  <1>15. Due \in SUBSET Record /\ Pending \in SUBSET Record
    BY DEF Due, Pending
  <1>16. QED
    BY <1>1, <1>2, <1>3, <1>4, <1>5, <1>6, <1>7, <1>8, <1>9, <1>10, <1>11, <1>12, <1>13,
       <1>14, <1>15
    DEF Next, StartDrain, StartSweep, Drainable, Drain, LoadForResend, Resend, Worker

(* The outbox implements its promise: whatever copies the workers save     *)
(* from, and whoever dies, a SENT record reached Pastel, an ABANDONED one  *)
(* failed often enough, and nothing is delivered twice without an excuse.  *)
THEOREM OutboxDelivers == Spec => Delivers
  <1>1. Init => Promise!Init
    BY DEF Init, Nothing, Promise!Init, Promise!Absent, Promise!Zero
  <1>2. QED
    BY <1>1, StepKeepsPromise, OutboxInvAlways, PTL DEF Spec, Delivers, Promise!Spec
-----------------------------------------------------------------------------
(* What the promise is worth: the status of a record has been earned, and  *)
(* only an excused record reached Pastel twice.                            *)
StatusIsEarned ==
  \A o \in Record :
    /\ status[o] = "SENT" => delivered[o] > 0
    /\ status[o] = "FAILED" => failures[o] > 0
    /\ status[o] = "ABANDONED" => failures[o] >= MaxAttempts
    /\ attempts[o] <= failures[o]
    /\ delivered[o] > 1 => o \in overlapped \cup interrupted

(* One more of a counter that has not reached its bound. *)
LEMMA OneMoreType ==
  ASSUME NEW f \in [Record -> 0..Cap], NEW o \in Record
  PROVE  /\ \A p \in Record : Promise!OneMore(f, o)[p] =
              IF p # o THEN f[p] ELSE IF f[o] < Cap THEN f[o] + 1 ELSE f[o]
         /\ \A p \in Record : f[p] <= Promise!OneMore(f, o)[p]
  <1>1. \A p \in Record : Promise!OneMore(f, o)[p] =
              IF p # o THEN f[p] ELSE IF f[o] < Cap THEN f[o] + 1 ELSE f[o]
    BY DEF Promise!OneMore
  <1>2. \A p \in Record : f[p] \in 0..Cap
    OBVIOUS
  <1>3. QED
    BY <1>1, <1>2

(* No status says more than what happened: SENT only after Pastel accepted *)
(* the record, ABANDONED only after MaxAttempts failures.  It follows from *)
(* the promise alone.                                                      *)
THEOREM StatusEarned == Spec => []StatusIsEarned
  <1>1. Promise!Init => StatusIsEarned
    BY DEF Promise!Init, Promise!Absent, Promise!Zero, StatusIsEarned
  <1>2. TypeOK /\ StatusIsEarned
          /\ [Promise!Next]_<<status, attempts, delivered, failures, overlapped \cup interrupted>>
          => StatusIsEarned'
    <2> SUFFICES ASSUME TypeOK, StatusIsEarned,
                        \/ Promise!Next
                        \/ UNCHANGED <<status, attempts, delivered, failures,
                                       overlapped \cup interrupted>>,
                        NEW p \in Record
                 PROVE  /\ status'[p] = "SENT" => delivered'[p] > 0
                        /\ status'[p] = "FAILED" => failures'[p] > 0
                        /\ status'[p] = "ABANDONED" => failures'[p] >= MaxAttempts
                        /\ attempts'[p] <= failures'[p]
                        /\ delivered'[p] > 1 => p \in (overlapped \cup interrupted)'
      BY DEF StatusIsEarned
    <2> USE DEF StatusIsEarned
    <2>1. /\ attempts[p] \in 0..Cap /\ failures[p] \in 0..Cap /\ delivered[p] \in 0..Cap
      BY DEF TypeOK
    <2>2. ASSUME NEW o \in Record, Promise!Queue(o) \/ Promise!TakeUp(o)
          PROVE  /\ status'[p] = "SENT" => status[p] = "SENT"
                 /\ status'[p] = "FAILED" => status[p] = "FAILED"
                 /\ status'[p] = "ABANDONED" => status[p] = "ABANDONED"
                 /\ UNCHANGED <<attempts, delivered, failures, overlapped \cup interrupted>>
      BY <2>2 DEF Promise!Queue, Promise!TakeUp, TypeOK
    <2>3. ASSUME NEW o \in Record, Promise!Deliver(o)
          PROVE  /\ delivered[p] <= delivered'[p]
                 /\ delivered'[p] > 1 => p \in overlapped \cup interrupted
                 /\ UNCHANGED <<status, attempts, failures, overlapped \cup interrupted>>
      <3>1. delivered \in [Record -> 0..Cap]
        BY DEF TypeOK
      <3>2. QED
        BY <2>1, <2>3, <3>1, OneMoreType DEF Promise!Deliver
    <2>4. ASSUME NEW o \in Record, Promise!Miss(o)
          PROVE  /\ failures[p] <= failures'[p] /\ failures'[p] \in Int
                 /\ UNCHANGED <<status, attempts, delivered, overlapped \cup interrupted>>
      <3>1. failures \in [Record -> 0..Cap]
        BY DEF TypeOK
      <3>2. QED
        BY <2>1, <2>4, <3>1, OneMoreType DEF Promise!Miss
    <2>5. ASSUME NEW o \in Record, Promise!Conclude(o)
          PROVE  /\ status'[p] = "SENT" => delivered[p] > 0
                 /\ status'[p] = "FAILED" => failures[p] > 0
                 /\ status'[p] = "ABANDONED" => failures[p] >= MaxAttempts
                 /\ attempts'[p] <= failures[p]
                 /\ UNCHANGED <<delivered, failures, overlapped \cup interrupted>>
      <3>1. PICK n \in 0..failures[o] : attempts' = [attempts EXCEPT ![o] = n]
        BY <2>5 DEF Promise!Conclude
      <3>2. CASE p = o
        BY <2>1, <2>5, <3>1, <3>2 DEF Promise!Conclude, TypeOK
      <3>3. CASE p # o
        BY <2>1, <2>5, <3>1, <3>3 DEF Promise!Conclude, TypeOK
      <3>4. QED
        BY <3>2, <3>3
    <2>6. ASSUME Promise!Excuse
          PROVE  /\ p \in overlapped \cup interrupted => p \in (overlapped \cup interrupted)'
                 /\ UNCHANGED <<status, attempts, delivered, failures>>
      BY <2>6 DEF Promise!Excuse
    <2>7. CASE UNCHANGED <<status, attempts, delivered, failures, overlapped \cup interrupted>>
      BY <2>7
    <2>8. CASE Promise!Excuse
      BY <2>6, <2>8
    <2>9. CASE \E o \in Record : Promise!Queue(o) \/ Promise!TakeUp(o)
      BY <2>2, <2>9
    <2>10. CASE \E o \in Record : Promise!Deliver(o)
      <3>1. PICK o \in Record : Promise!Deliver(o)
        BY <2>10
      <3>2. delivered'[p] \in Int
        BY <2>1, <3>1, OneMoreType DEF Promise!Deliver, TypeOK
      <3>3. QED
        BY <2>1, <2>3, <3>1, <3>2
    <2>11. CASE \E o \in Record : Promise!Miss(o)
      BY <2>1, <2>4, <2>11
    <2>12. CASE \E o \in Record : Promise!Conclude(o)
      <3>1. PICK o \in Record : Promise!Conclude(o)
        BY <2>12
      <3>2. delivered' = delivered /\ failures' = failures
            /\ (overlapped \cup interrupted)' = overlapped \cup interrupted
        BY <2>5, <3>1
      <3>3. QED
        BY <2>5, <3>1, <3>2
    <2>13. QED
      BY <2>7, <2>8, <2>9, <2>10, <2>11, <2>12 DEF Promise!Next
  <1>3. QED
    BY <1>1, <1>2, TypeCorrect, OutboxDelivers, PTL DEF Delivers, Promise!Spec
=============================================================================
