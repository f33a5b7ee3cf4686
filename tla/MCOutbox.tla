------------------------------ MODULE MCOutbox ------------------------------
(* Small instances of Outbox. *)
EXTENDS Outbox

(* PendingIsTaken holds from less than Fairness: a drain starts, does not  *)
(* die for ever before it marks its record, and goes on with it in one way *)
(* or another; Pastel need never accept.                                   *)
LessFairness ==
  \A w \in Task :
    /\ WF_vars(StartDrain(w))
    /\ \A o \in Record : SF_vars(MarkSending(w) /\ Current(w) = o)
    /\ WF_vars(Drain(w) \/ Accept(w))

LessFairSpec == Spec /\ LessFairness
=============================================================================
