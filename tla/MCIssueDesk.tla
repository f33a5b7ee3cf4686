---------------------------- MODULE MCIssueDesk ----------------------------
(* A small instance of IssueDesk. *)
EXTENDS IssueDesk

(* A bound: either the user is deactivated or there are faults.  It holds  *)
(* back nobody but administrators and faults, which are not fair.          *)
OneMishap == active' \/ faults' = 0

(* A bound: the notes of a behaviour are all issues of one wish or all     *)
(* transfers of one wish.  It holds back the user only.                    *)
OneWish ==
  \A n \in Note :
    formOf[n] # Null /\ asked'.form # Null => asked'.form.wish = formOf[n].wish

(* Keys are interchangeable: a click has the first that nobody uses.       *)
FirstKey ==
  asked'.key \in {Null, asked.key}
    \/ asked'.key = Min(PostKey \ {job[j].key : j \in Job})

MCSpec == DeskInit /\ [][DeskNext /\ OneMishap /\ OneWish /\ FirstKey]_allVars /\ DeskFairness
=============================================================================
