----------------------------- MODULE TicketFlow -----------------------------
(***************************************************************************)
(* One ticket and the handlers that change it (tickets.py: update_ticket,  *)
(* add_comment, upload_ticket_evidence; ai.py: enhance_ticket).  Each reads*)
(* the row, awaits, and writes back what it changed: a column whose new    *)
(* value equals the one loaded is not part of the UPDATE, and there is no  *)
(* version check, so overlapping requests overwrite each other.            *)
(*                                                                         *)
(* Left out: texts, due dates, assignees, the AI's answer, and the e-mail  *)
(* to the admins after the commit, which is best-effort.                   *)
(***************************************************************************)
EXTENDS Naturals, Sequences

CONSTANTS
  Requests,    \* slots for requests in progress
  Comments,    \* comments, each posted once
  Files,       \* evidence files, each uploaded once
  MaxChanges,  \* bound: committed status changes and enhancements
  None

ASSUME TicketFlowAssumption ==
  /\ MaxChanges \in Nat
  /\ None \notin Comments \cup Files
  /\ Comments \cap Files = {}

VARIABLES
  status,      \* Ticket.status
  approved,    \* is Ticket.approved_by set?
  history,     \* Ticket.history, as stored
  audit,       \* the status changes in the audit log, each <<old, new>>
  enhanced,    \* enhancements committed
  comments,    \* Ticket.comments
  evidence,    \* Ticket.evidence
  disk,        \* evidence files on disk
  posted,      \* history: comments and files whose request was answered
  beside,      \* history: beside[x]: those that were being posted as x was
  req          \* req[r]: the request in progress and what it has loaded

postVars == <<posted, beside>>
vars == <<status, approved, history, audit, enhanced, comments, evidence, disk,
          postVars, req>>

ValidTransitions ==
  [open       |-> {"assigned", "suppressed"},
   assigned   |-> {"in_review", "open"},
   in_review  |-> {"accepted", "rejected"},
   accepted   |-> {"remediated"},
   rejected   |-> {"open"},
   remediated |-> {},
   suppressed |-> {}]

Statuses == DOMAIN ValidTransitions
Entries  == {"created", "ai_enhanced"} \cup (Statuses \X Statuses)
Kinds    == {"idle", "update", "enhance", "comment", "upload", "written"}

\* seen: status, to: the status asked for, item: the comment or file,
\* list: the column as loaded, hist: was the history empty?
Idle == [kind |-> "idle", seen |-> "open", to |-> "open", item |-> None,
         list |-> {}, hist |-> FALSE]

TypeOK ==
  /\ status \in Statuses
  /\ approved \in BOOLEAN
  /\ history \in Seq(Entries)
  /\ audit \in Seq(Statuses \X Statuses)
  /\ enhanced \in Nat
  /\ comments \subseteq Comments
  /\ evidence \subseteq Files
  /\ disk \subseteq Files
  /\ posted \subseteq Comments \cup Files
  /\ beside \in [Comments \cup Files -> SUBSET (Comments \cup Files)]
  /\ req \in [Requests -> [kind : Kinds, seen : Statuses, to : Statuses,
                           item : Comments \cup Files \cup {None},
                           list : SUBSET (Comments \cup Files), hist : BOOLEAN]]

\* create_ticket stores one history entry, the seed data none.
Init ==
  /\ status = "open" /\ approved = FALSE
  /\ history \in {<<"created">>, <<>>}
  /\ audit = <<>> /\ enhanced = 0
  /\ comments = {} /\ evidence = {} /\ disk = {} /\ posted = {}
  /\ beside = [x \in Comments \cup Files |-> {}]
  /\ req = [r \in Requests |-> Idle]

Free(x) == x \notin posted \cup disk /\ \A r \in Requests : req[r].item # x
-----------------------------------------------------------------------------
\* The list that was loaded is appended to in place and assigned back: it
\* equals the loaded value and is not written.  Only an empty history is
\* replaced by a new list, and that one is.
SaveHistory(r, entry) ==
  history' = IF req[r].hist THEN <<entry>> ELSE history

\* Mutant: the transition is not checked.
MayMoveAnywhere(to) == to # status

MayMove(to) == to \in ValidTransitions[status]

\* update_ticket: the transition is checked against the status loaded.
UpdateRead(r, to) ==
  /\ req[r] = Idle
  /\ Len(audit) < MaxChanges
  /\ MayMove(to)
  /\ req' = [req EXCEPT ![r] = [Idle EXCEPT !.kind = "update", !.seen = status,
                                  !.to = to, !.hist = (history = <<>>)]]
  /\ UNCHANGED <<status, approved, history, audit, enhanced, comments, evidence,
                 disk, postVars>>

\* Mutant: a rejection clears the approval.
ApprovalCleared(r) ==
  CASE req[r].to = "accepted" -> TRUE
    [] req[r].to = "rejected" -> FALSE
    [] OTHER -> approved

Approval(r) == approved \/ req[r].to = "accepted"

\* Mutant: the entry takes the new status from the row, before the commit.
AuditEntryLate(r) == <<req[r].seen, status>>

AuditEntry(r) == <<req[r].seen, req[r].to>>

UpdateCommit(r) ==
  /\ req[r].kind = "update"
  /\ Len(audit) < MaxChanges
  /\ status' = req[r].to
  /\ approved' = Approval(r)
  /\ audit' = Append(audit, AuditEntry(r))
  /\ SaveHistory(r, AuditEntry(r))
  /\ req' = [req EXCEPT ![r] = Idle]
  /\ UNCHANGED <<enhanced, comments, evidence, disk, postVars>>

\* enhance_ticket waits for the AI between the two.
EnhanceRead(r) ==
  /\ req[r] = Idle
  /\ enhanced < MaxChanges
  /\ req' = [req EXCEPT ![r] = [Idle EXCEPT !.kind = "enhance",
                                            !.hist = (history = <<>>)]]
  /\ UNCHANGED <<status, approved, history, audit, enhanced, comments, evidence,
                 disk, postVars>>

EnhanceCommit(r) ==
  /\ req[r].kind = "enhance"
  /\ enhanced < MaxChanges
  /\ enhanced' = enhanced + 1
  /\ SaveHistory(r, "ai_enhanced")
  /\ req' = [req EXCEPT ![r] = Idle]
  /\ UNCHANGED <<status, approved, audit, comments, evidence, disk, postVars>>
-----------------------------------------------------------------------------
\* Mutant: the new list starts empty.
LoadedNone(column) == {}

\* list(t.comments or []), list(t.evidence or []): a copy of the column.
Loaded(column) == column

\* The request is answered while requests of these kinds are in progress.
Answer(r, kinds) ==
  LET others == {q \in Requests \ {r} : req[q].kind \in kinds}
  IN  /\ posted' = posted \cup {req[r].item}
      /\ beside' = [beside EXCEPT ![req[r].item] = @ \cup {req[q].item : q \in others}]

CommentRead(r, x) ==
  /\ req[r] = Idle
  /\ x \in Comments /\ Free(x)
  /\ req' = [req EXCEPT ![r] = [Idle EXCEPT !.kind = "comment", !.item = x,
                                            !.list = Loaded(comments)]]
  /\ UNCHANGED <<status, approved, history, audit, enhanced, comments, evidence,
                 disk, postVars>>

CommentCommit(r) ==
  /\ req[r].kind = "comment"
  /\ comments' = req[r].list \cup {req[r].item}
  /\ Answer(r, {"comment"})
  /\ req' = [req EXCEPT ![r] = Idle]
  /\ UNCHANGED <<status, approved, history, audit, enhanced, evidence, disk>>

UploadRead(r, f) ==
  /\ req[r] = Idle
  /\ f \in Files /\ Free(f)
  /\ req' = [req EXCEPT ![r] = [Idle EXCEPT !.kind = "upload", !.item = f,
                                            !.list = Loaded(evidence)]]
  /\ UNCHANGED <<status, approved, history, audit, enhanced, comments, evidence,
                 disk, postVars>>

\* Mutant: the write is left to the operating system and lost.
WriteFileNot(r) == disk

WriteFile(r) == disk \cup {req[r].item}

\* The content has arrived and is written to disk.
UploadWrite(r) ==
  /\ req[r].kind = "upload"
  /\ disk' = WriteFile(r)
  /\ req' = [req EXCEPT ![r].kind = "written"]
  /\ UNCHANGED <<status, approved, history, audit, enhanced, comments, evidence,
                 postVars>>

UploadCommit(r) ==
  /\ req[r].kind = "written"
  /\ evidence' = req[r].list \cup {req[r].item}
  /\ Answer(r, {"upload", "written"})
  /\ req' = [req EXCEPT ![r] = Idle]
  /\ UNCHANGED <<status, approved, history, audit, enhanced, comments, disk>>

\* The backend stops, or a request fails (400, too large, the AI raises).
Fail(r) ==
  /\ req[r] # Idle
  /\ req' = [req EXCEPT ![r] = Idle]
  /\ UNCHANGED <<status, approved, history, audit, enhanced, comments, evidence,
                 disk, postVars>>
-----------------------------------------------------------------------------
Next == \E r \in Requests :
  \/ \E to \in Statuses : UpdateRead(r, to)
  \/ UpdateCommit(r)
  \/ EnhanceRead(r) \/ EnhanceCommit(r)
  \/ \E x \in Comments : CommentRead(r, x)
  \/ CommentCommit(r)
  \/ \E f \in Files : UploadRead(r, f)
  \/ UploadWrite(r) \/ UploadCommit(r)
  \/ Fail(r)

Spec == Init /\ [][Next]_vars
-----------------------------------------------------------------------------
(***************************************************************************)
(* Properties.                                                             *)
(***************************************************************************)

\* Work is accepted, and closed as remediated, only with an approver on
\* record: no overlap of accept, reject and remediate gets around it.
ApprovedFirst == status \in {"accepted", "remediated"} => approved

\* Every evidence entry has its file, whatever uploads overlap or fail.
EvidenceOnDisk == evidence \subseteq disk

\* The audit log ends with the status the ticket has.
AuditTellsStatus == audit # <<>> => audit[Len(audit)][2] = status

\* A comment or file whose request was answered is lost only to one that was
\* being posted at the time, and was answered later: with the list it had
\* loaded it wrote over the other's.  Nothing else takes a post away, be it a
\* move, an enhancement, a failed upload or a post that came later.
Overwritten(x) == \E y \in beside[x] : y \in posted

PostsKept == \A x \in posted : x \in comments \cup evidence \/ Overwritten(x)

\* What makes it inductive: a list that was loaded has what is posted, unless
\* it was posted since.
KeptInv ==
  /\ PostsKept
  /\ \A r \in Requests, x \in posted :
       \/ Overwritten(x)
       \/ req[r].item \in beside[x]
       \/ /\ req[r].kind = "comment" /\ x \in Comments => x \in req[r].list
          /\ req[r].kind \in {"upload", "written"} /\ x \in Files => x \in req[r].list

\* What makes ApprovedFirst and EvidenceOnDisk inductive.
FlowInv ==
  /\ TypeOK
  /\ ApprovedFirst
  /\ EvidenceOnDisk
  /\ \A r \in Requests : req[r].kind = "update" =>
       req[r].to \in ValidTransitions[req[r].seen]
         /\ (req[r].to = "remediated" => approved)
  /\ \A r \in Requests : req[r].kind = "comment" =>
       req[r].item \in Comments /\ req[r].list \subseteq Comments
  /\ \A r \in Requests : req[r].kind \in {"upload", "written"} =>
       req[r].item \in Files /\ req[r].list \subseteq disk /\ req[r].list \subseteq Files
  /\ \A r \in Requests : req[r].kind = "written" => req[r].item \in disk

\* With one request at a time the loaded values are the stored ones.
FreshInv ==
  \A r \in Requests :
    /\ req[r].kind = "update" => req[r].seen = status
    /\ req[r].kind = "comment" => req[r].list = comments
    /\ req[r].kind \in {"upload", "written"} => req[r].list = evidence

Workflow == INSTANCE TicketWorkflow

\* With one request at a time a ticket keeps its promise.
ImplementsWorkflow == Workflow!Spec
=============================================================================
