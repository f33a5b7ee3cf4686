------------------------------ MODULE IssueDesk ------------------------------
(***************************************************************************)
(* The screen of issues and transfers (frontend/src/features/issues) and   *)
(* the views it calls (backend/apps/inventory/views.py, services.py,       *)
(* core/idempotency.py), in the session of its page.                       *)
(*                                                                         *)
(* A note is created in two commits, its header and then its lines, under  *)
(* no idempotency key.  Posting carries a key made for the click.  A       *)
(* request that the page no longer awaits goes on at the server.  Of the   *)
(* posting itself StockLedger and Approvals have the detail: here the key, *)
(* the status and the rows are read at once, and the movements or the      *)
(* submission for approval, the status and the end of the transaction are  *)
(* one step, as is a manager's decision.  Thresholds and values change, so *)
(* that any posting of a transfer may need approval.  The page has the     *)
(* slots "list", the table's query, and "click", the mutation under way:   *)
(* the user waits for it before the next one.                              *)
(***************************************************************************)
EXTENDS Session

CONSTANTS
  Wish,         \* what the user wants to move: each one once
  TransferWish, \* by a transfer; the others are issues
  MaxNotes,     \* bound: notes
  MaxJobs,      \* bound: posting requests at the server at a time
  MaxApprovals  \* bound: open approvals of a note that is posted again

Note == 1..MaxNotes
Job == 1..MaxJobs
PostKey == Job

(* The flaws of a filled-in dialog: what the checks refuse (source and      *)
(* destination are the same, which only the dialog of issues lets through; *)
(* a unit off its days without a reason), and two lines of one product.    *)
Flaw == {"none", "inadmissible", "product twice"}
Form == [wish : Wish, flaw : Flaw]

ASSUME DeskConstants ==
  /\ PageSlot = {"list", "click"}
  /\ TransferWish \subseteq Wish
  /\ MaxNotes \in Nat /\ MaxJobs \in Nat /\ MaxApprovals \in Nat
  /\ Null \notin Wish \cup Note \cup Job /\ Null \notin Form

VARIABLES
  formOf,     \* what a note was created from, Null when there is no note
  inserting,  \* notes whose lines the server has still to insert
  filled,     \* notes with lines
  posted,     \* notes with status POSTED
  moved,      \* how often the lines of a note have moved stock
  approvals,  \* the open approvals of a note
  sought,     \* history: the notes that an approval was asked for
  job,        \* posting requests at the server
  shown,      \* the rows of the table that have a Post button
  fetched,    \* the rows in the answer of the list view
  asked,      \* what the click asks for: a note for a form, or a note posted
  awaited,    \* the new note, or the job, that will answer it
  verdict,    \* its answer
  stored,     \* the IdempotencyKey row under its key
  told,       \* history: the wishes reported as created
  unsure,     \* history: the wishes whose answer never came
  raced       \* history: the notes that two requests were posting at once

tables == <<formOf, inserting, filled, posted, moved, approvals, sought>>
rows == <<shown, fetched>>
click == <<asked, awaited, verdict, stored>>
histories == <<told, unsure, raced>>
deskVars == <<tables, job, rows, click, histories>>
allVars == <<sessionVars, deskVars>>

Free == [pc |-> "free", note |-> Null, key |-> Null]
Nothing == [form |-> Null, note |-> Null, key |-> Null]
Creation(f) == [form |-> f, note |-> Null, key |-> Null]
Posting(n, k) == [form |-> Null, note |-> n, key |-> k]

Posts == [pc : {"posting", "repeating", "committed"}, note : Note, key : PostKey]

DeskTypeOK ==
  /\ SessionTypeOK
  /\ formOf \in [Note -> Form \cup {Null}]
  /\ inserting \cup filled \cup posted \subseteq Note
  /\ moved \in [Note -> Nat] /\ approvals \in [Note -> Nat] /\ sought \subseteq Note
  /\ job \in [Job -> {Free} \cup Posts]
  /\ shown \cup fetched \subseteq Note
  /\ asked \in {Nothing} \cup {Creation(f) : f \in Form}
               \cup {Posting(n, k) : n \in Note, k \in PostKey}
  /\ awaited \in Note \cup Job \cup {Null} /\ verdict \in {"none", "ok", "refused"}
  /\ stored \subseteq {asked.key} \cap PostKey
  /\ (asked = Nothing) <=> (phase["click"] = "idle")
  /\ told \cup unsure \subseteq Wish /\ raced \subseteq Note

DeskInit ==
  /\ SessionInit
  /\ formOf = [n \in Note |-> Null]
  /\ inserting = {} /\ filled = {} /\ posted = {} /\ moved = [n \in Note |-> 0]
  /\ approvals = [n \in Note |-> 0] /\ sought = {}
  /\ job = [j \in Job |-> Free]
  /\ shown = {} /\ fetched = {}
  /\ asked = Nothing /\ awaited = Null /\ verdict = "none" /\ stored = {}
  /\ told = {} /\ unsure = {} /\ raced = {}

-----------------------------------------------------------------------------
Open == screen = "authenticated"
Asks(what) == what \in {"form", "note"} /\ asked[what] # Null
Awaits(what, x) == Asks(what) /\ awaited = x

(* A request leaves the page, reaches its view, is answered. *)
Send(s) == Open /\ Call(s, Null) /\ UNCHANGED <<server, page, past>>
Serve(s, there) ==
  Authorized(s) /\ Reach(s, there) /\ UNCHANGED <<server, page, token, past>>
Answer(v) ==
  /\ Reach("click", "answered") /\ verdict' = v /\ awaited' = Null
  /\ UNCHANGED <<server, page, token, past, asked>>
Take(s) ==
  /\ phase[s] = "answered"
  /\ Settle(s) /\ UNCHANGED <<server, page, past>>
NoAnswer == UNCHANGED <<sessionVars, asked, awaited, verdict>>

(* The table.  A fetch that would show nothing new is left out. *)
Unposted == {n \in Note : formOf[n] # Null} \ posted

FetchList ==
  /\ shown # Unposted
  /\ Send("list")
  /\ UNCHANGED deskVars

ServeList ==
  /\ Serve("list", "answered")
  /\ fetched' = Unposted
  /\ UNCHANGED <<tables, job, shown, click, histories>>

ShowList ==
  /\ Take("list")
  /\ shown' = fetched /\ fetched' = {}
  /\ UNCHANGED <<tables, job, click, histories>>

-----------------------------------------------------------------------------
(* The dialog is submitted; its button is disabled while that is under     *)
(* way.  The user does not ask again for what was reported as done.        *)
Unused == {n \in Note : formOf[n] = Null}

ClickCreate ==
  /\ Unused # {}
  /\ Send("click")
  /\ asked' \in {Creation(f) : f \in {g \in Form : g.wish \notin told}}
  /\ UNCHANGED <<tables, job, shown, fetched, awaited, verdict, stored, histories>>

(* The view and create_issue_note refuse a form before anything is stored. *)
Refused(f) == f.flaw = "inadmissible"

RefuseCreate ==
  /\ Authorized("click") /\ Asks("form") /\ Refused(asked.form)
  /\ Answer("refused")
  /\ UNCHANGED <<tables, job, rows, stored, histories>>

CreateHeader ==
  /\ Serve("click", "serving")
  /\ Asks("form") /\ ~Refused(asked.form)
  /\ LET n == Min(Unused)
     IN  /\ formOf' = [formOf EXCEPT ![n] = asked.form]
         /\ inserting' = inserting \cup {n} /\ awaited' = n
  /\ UNCHANGED <<filled, posted, moved, approvals, sought, job, rows, asked, verdict, stored, histories>>

(* bulk_create: the lines of a note are unique by product. *)
InsertLines(n) ==
  /\ n \in inserting /\ inserting' = inserting \ {n}
  /\ LET fits == formOf[n].flaw # "product twice"
     IN  /\ filled' = IF fits THEN filled \cup {n} ELSE filled
         /\ IF Awaits("form", n) THEN Answer(IF fits THEN "ok" ELSE "refused") ELSE NoAnswer
  /\ UNCHANGED <<formOf, posted, moved, approvals, sought, job, rows, stored, histories>>

(* onSuccess empties the dialog, onError leaves it open. *)
TakeButAskOn ==  \* mutant: isPending stays
  /\ Take("click")
  /\ told' = told \cup IF Asks("form") /\ verdict = "ok" THEN {asked.form.wish} ELSE {}
  /\ verdict' = "none"
  /\ UNCHANGED <<tables, job, shown, fetched, asked, awaited, stored, unsure, raced>>
TakeAnswer ==
  /\ Take("click")
  /\ told' = told \cup IF Asks("form") /\ verdict = "ok" THEN {asked.form.wish} ELSE {}
  /\ verdict' = "none" /\ asked' = Nothing /\ stored' = {}
  /\ UNCHANGED <<tables, job, shown, fetched, awaited, unsure, raced>>

-----------------------------------------------------------------------------
(* Every click has its own key; one that nobody uses is used again.  The   *)
(* table offers every row that is not POSTED, those that wait for approval *)
(* or were rejected, too.                                                  *)
IsTransfer(n) == formOf[n] # Null /\ formOf[n].wish \in TransferWish

ClickPost(n) ==
  /\ n \in shown
  /\ approvals[n] < MaxApprovals
  /\ Send("click")
  /\ \E k \in PostKey \ {job[j].key : j \in Job} :
       asked' = Posting(n, k)
  /\ UNCHANGED <<tables, job, rows, awaited, verdict, stored, histories>>

(* Somebody has looked for the rows of a note, found none and goes on.     *)
UnderWay(n) == \E j \in Job : job[j].pc = "posting" /\ job[j].note = n
Races(n) == raced' = raced \cup IF UnderWay(n) THEN {n} ELSE {}

(* The view looks for the key, the status of the note and its rows.  A     *)
(* stored key has an answer, a note without lines is refused, a POSTED one *)
(* is done with, and one that has rows only gets its status.               *)
BeginsUnseen(j) ==  \* mutant: the status and the rows are not looked at
  /\ job[j] = Free /\ \A i \in 1..(j - 1) : job[i] # Free
  /\ asked.key \notin stored /\ asked.note \in filled
  /\ job' = [job EXCEPT ![j] = [pc |-> "posting", note |-> asked.note, key |-> asked.key]]
  /\ Races(asked.note)
Begins(j) ==
  /\ job[j] = Free /\ \A i \in 1..(j - 1) : job[i] # Free
  /\ asked.key \notin stored /\ asked.note \in filled
  /\ job' = [job EXCEPT ![j] =
       [pc |-> CASE asked.note \in posted -> "committed"
                 [] asked.note \notin posted /\ moved[asked.note] > 0 -> "repeating"
                 [] OTHER -> "posting",
        note |-> asked.note, key |-> asked.key]]
  /\ Races(asked.note)

BeginPost(j) ==
  /\ Asks("note") /\ Serve("click", "serving")
  /\ Begins(j) /\ awaited' = j
  /\ UNCHANGED <<tables, rows, asked, verdict, stored, told, unsure>>

AnswerAtOnce ==
  /\ Asks("note") /\ Authorized("click")
  /\ \/ asked.key \in stored /\ Answer("ok")
     \/ asked.key \notin stored /\ asked.note \notin filled /\ Answer("refused")
  /\ UNCHANGED <<tables, job, rows, stored, histories>>

CommitPost(j) ==
  /\ job[j].pc \in {"posting", "repeating"}
  /\ moved' = IF job[j].pc = "posting" THEN [moved EXCEPT ![job[j].note] = @ + 1] ELSE moved
  /\ posted' = posted \cup {job[j].note}
  /\ job' = [job EXCEPT ![j].pc = "committed"]
  /\ UNCHANGED <<sessionVars, formOf, inserting, filled, approvals, sought, rows, click, histories>>

(* A transfer above its threshold: the status PENDING_APPROVAL is saved,   *)
(* on whatever status the note has by now, an approval is created, and the *)
(* request has done its work.                                              *)
AskApproval(j) ==
  /\ job[j].pc \in {"posting", "repeating"} /\ IsTransfer(job[j].note)
  /\ approvals' = [approvals EXCEPT ![job[j].note] = @ + 1]
  /\ sought' = sought \cup {job[j].note}
  /\ posted' = posted \ {job[j].note}
  /\ job' = [job EXCEPT ![j].pc = "committed"]
  /\ UNCHANGED <<sessionVars, formOf, inserting, filled, moved, rows, click, histories>>

(* A manager decides an approval.  The transfer is posted, unless it is    *)
(* POSTED or has rows, or it is marked REJECTED whatever its status is.    *)
Decides(n) ==
  /\ approvals[n] > 0
  /\ approvals' = [approvals EXCEPT ![n] = @ - 1]
  /\ UNCHANGED <<sessionVars, formOf, inserting, filled, sought, job, rows, click, told, unsure>>

Approve(n) ==
  /\ Decides(n)
  /\ moved' = IF n \in posted \/ moved[n] > 0 THEN moved ELSE [moved EXCEPT ![n] = @ + 1]
  /\ posted' = posted \cup {n}
  /\ Races(n)

Reject(n) ==
  /\ Decides(n)
  /\ posted' = posted \ {n}
  /\ UNCHANGED <<moved, raced>>

EndJob(j, v) ==
  /\ job' = [job EXCEPT ![j] = Free]
  /\ IF Awaits("note", j) THEN Answer(v) ELSE NoAnswer

(* InsufficientStockError.  An answer of failure is not stored.            *)
RefusePost(j) ==
  /\ job[j].pc = "posting"
  /\ EndJob(j, "refused")
  /\ UNCHANGED <<tables, rows, stored, histories>>

(* The answer is stored under the key; another one may be there.           *)
StoreKey(j) ==
  /\ job[j].pc = "committed"
  /\ stored' = stored \cup ({job[j].key} \cap {asked.key})
  /\ EndJob(j, "ok")
  /\ UNCHANGED <<tables, rows, histories>>

-----------------------------------------------------------------------------
(* Faults.  What the page gives up may be under way at the server.         *)
Doubtful == IF Asks("form") THEN {asked.form.wish} ELSE {}
Forget(gone) ==
  /\ fetched' = IF "list" \in gone THEN {} ELSE fetched
  /\ IF "click" \in gone
       THEN asked' = Nothing /\ awaited' = Null /\ verdict' = "none" /\ stored' = {}
       ELSE UNCHANGED click
  /\ unsure' = unsure \cup IF "click" \in gone /\ phase["click"] \in {"serving", "answered"}
                            THEN Doubtful ELSE {}

Disconnect(s) ==
  /\ LoseConnection(s) /\ Forget({s})
  /\ UNCHANGED <<tables, job, shown, told, raced>>

LoadAgain ==
  /\ Reload /\ Forget(PageSlot)
  /\ shown' = {}
  /\ UNCHANGED <<tables, job, told, raced>>

(* Without a session the screen is closed. *)
Closes ==
  shown' = IF screen' = "anonymous" THEN {} ELSE shown

(* The request is refused for good, or the session is. *)
Fails(s) ==
  /\ AuthLost(s) \/ RefusedAgain(s)
  /\ Forget({s}) /\ Closes
  /\ UNCHANGED <<tables, job, told, raced>>

(* The process dies: what is not committed is not there, and the page, if  *)
(* it still waits, gets an error.                                          *)
Dies(what, x) ==
  /\ IF Awaits(what, x)
       THEN LoseConnection("click") /\ Forget({"click"})
       ELSE Fault /\ UNCHANGED <<server, page, promises, harmed, left, fetched, click, unsure>>
  /\ UNCHANGED <<formOf, filled, posted, moved, approvals, sought, shown, told, raced>>

DieCreating(n) ==
  /\ n \in inserting /\ inserting' = inserting \ {n}
  /\ Dies("form", n) /\ UNCHANGED job

DiePosting(j) ==
  /\ job[j] # Free /\ job' = [job EXCEPT ![j] = Free]
  /\ Dies("note", j) /\ UNCHANGED inserting

(* The posting request is delivered a second time, under its key. *)
Resend(j) ==
  /\ Asks("note") /\ (Authorized("click") \/ phase["click"] = "serving")
  /\ Begins(j) /\ Fault
  /\ UNCHANGED <<server, page, promises, harmed, left, tables, rows, click, told, unsure>>

-----------------------------------------------------------------------------
Resume(s) ==
  /\ StartRefresh(s) \/ CheckRefresh(s) \/ Rotate(s) \/ Refreshed(s)
  /\ UNCHANGED deskVars

Follows == Closes /\ UNCHANGED <<tables, job, fetched, click, histories>>

(* What goes on by itself, for the store, the slots and the server's jobs. *)
Store == StoreProceeds /\ Follows

SlotStep(s) ==
  \/ Resume(s) \/ Fails(s)
  \/ s = "list" /\ (ServeList \/ ShowList)
  \/ s = "click" /\ (RefuseCreate \/ CreateHeader \/ AnswerAtOnce \/ TakeAnswer)
  \/ s = "click" /\ \E j \in Job : BeginPost(j)

JobStep(j) == CommitPost(j) \/ AskApproval(j) \/ RefusePost(j) \/ StoreKey(j)

(* Bound: users sign in and out when no click of theirs is under way.      *)
Quiet == asked = Nothing

User ==
  \/ Quiet /\ (\E what \in {"login", "logout"} : Ask(what)) /\ UNCHANGED deskVars
  \/ FetchList \/ ClickCreate
  \/ \E n \in Note : ClickPost(n)

Manager == \E n \in Note : Approve(n) \/ Reject(n)

Faults ==
  \/ Elapse /\ UNCHANGED deskVars
  \/ AuthFails /\ Follows
  \/ LoadAgain
  \/ \E s \in PageSlot : Disconnect(s)
  \/ \E n \in Note : DieCreating(n)
  \/ \E j \in Job : DiePosting(j) \/ Resend(j)

DeskNext ==
  \/ Store \/ User \/ Manager \/ Faults
  \/ \E s \in PageSlot : SlotStep(s)
  \/ \E n \in Note : InsertLines(n)
  \/ \E j \in Job : JobStep(j)

DeskFairness ==
  /\ WF_allVars(Store)
  /\ \A s \in PageSlot : WF_allVars(SlotStep(s))
  /\ \A n \in Note : WF_allVars(InsertLines(n))
  /\ \A j \in Job : WF_allVars(JobStep(j))

DeskSpec == DeskInit /\ [][DeskNext]_allVars /\ DeskFairness

-----------------------------------------------------------------------------
(* What the user wanted once moves stock once.  A note moves twice only if *)
(* two requests, or one and a manager, were posting it at the same time:   *)
(* neither a second click on a row that is still shown, nor the retry      *)
(* after a 401, nor the retry under another key after a process that died  *)
(* before it stored the first, nor an approval that comes late repeats it. *)
(* POSTED notes have moved; issues that moved are POSTED, while a transfer *)
(* may be rejected or sent for approval again after it moved.  A note      *)
(* whose lines were never inserted does not move, and two notes with lines *)
(* are there for one wish only if the answer to a creation never came      *)
(* (idempotency.py:28-37, services.py:185-206, 243-261).                   *)
WishMovesOnce ==
  /\ \A n \in Note :
       /\ moved[n] > 0 => n \in filled
       /\ n \in posted => moved[n] > 0
       /\ moved[n] > 0 /\ ~IsTransfer(n) => n \in posted
       /\ moved[n] > 1 => n \in raced
  /\ \A m, n \in filled :
       m # n /\ formOf[m].wish = formOf[n].wish => formOf[m].wish \in unsure

(* "Issue created" and "Issue posted" are true when they are shown, and so *)
(* is an answer that is stored.  "Transfer posted" is shown also when an   *)
(* approval was asked for and nothing has moved, but not otherwise         *)
(* (IssuesPage.tsx:226-245, 370-378, idempotency.py:24-37,                 *)
(* services.py:252-261).                                                   *)
Handled(n) == moved[n] > 0 \/ (IsTransfer(n) /\ n \in sought)

SuccessIsTrue ==
  /\ \A w \in told : \E n \in filled : formOf[n].wish = w
  /\ Asks("note") /\ verdict = "ok" => Handled(asked.note)
  /\ asked.key \in stored => Handled(asked.note)

(* What the screen makes the user believe is so, of moving stock and of    *)
(* creating and posting notes.                                             *)
NotesAreTrue == WishMovesOnce /\ SuccessIsTrue

(* Every request ends, whatever happened to the session, and the page      *)
(* leaves its spinner, except when bootstrap threw: nothing catches that   *)
(* (authStore.ts:43-56, apiClient.ts:85-97).                               *)
RequestsSettle ==
  /\ \A s \in Slot : []<>(phase[s] = "idle")
  /\ screen = "loading" ~> (screen # "loading" \/ auth = "stuck")
=============================================================================
