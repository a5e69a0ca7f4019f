------------------------------- MODULE Controls -------------------------------
(***************************************************************************)
(* Evidence, and the status of the control it is evidence for              *)
(* (routes/evidence.py), for one tenant and framework.  An upload writes   *)
(* its file, commits its row, and then recomputes the control's status in  *)
(* a second transaction; a deletion removes the file, then the row, then   *)
(* recomputes.  A reviewer may set the status.  No row is locked, and no   *)
(* constraint keeps a control from having two status rows: then the query  *)
(* for the one row raises, for ever.                                       *)
(***************************************************************************)
EXTENDS Access

CONSTANTS
  Items,         \* pieces of evidence, each with its file
  ControlIds,    \* controls of the framework
  GivenStatuses, \* the statuses reviewers give (TLC)
  MaxReviews, MaxBreaks  \* bounds on requests, and on refused commits (TLC)

Decided == {"gap", "not_applicable"}
ControlStatuses == Decided \cup {"not_started", "in_progress", "satisfied"}
EvidenceTypes == {"document", "attestation"}

ASSUME ControlsAssumption ==
  /\ GivenStatuses \subseteq ControlStatuses
  /\ None \notin ControlIds \cup ControlStatuses \cup EvidenceTypes
  /\ MaxReviews \in Nat /\ MaxBreaks \in Nat

VARIABLES
  evidence,      \* per item: its control and type; control None without a row
  files,         \* items whose file is on disk
  used,          \* items there have been
  gaps,          \* controls an open finding maps to
  status,        \* per control: its row; status None without one
  twice,         \* controls with two rows
  review,        \* per handler: what it has read, and does next
  reviews, breaks, \* how many requests, and stops, there were
  derived,       \* history: controls whose status was computed last, not given
  decision,      \* history: the decision a reviewer took last on a control
  halfGone,      \* history: items whose deletion was cut short
  doubt          \* history: controls a request wrote over another's change, or
                 \* was stopped at before it had recomputed them

controlsVars ==
  <<evidence, files, used, gaps, status, twice, review, reviews, breaks, derived, decision, halfGone, doubt>>

StatusRow == [status : ControlStatuses, by : SUBSET EvidenceTypes]
NoStatus == [status |-> None, by |-> {}]
NoEvidence == [control |-> None, type |-> None]

\* What a handler is at, after what it has read.
Free == [op |-> "free"]
Changes == [op : {"add", "drop"}, item : Items, of : ControlIds]
Waiting == [op : {"recompute"}, of : ControlIds]
Status == StatusRow \cup {NoStatus}
Derivations == [op : {"derive"}, of : ControlIds, row : Status, types : SUBSET EvidenceTypes, new : StatusRow]
Decisions == [op : {"set"}, of : ControlIds, row : Status, given : ControlStatuses \cup {None}, new : StatusRow]
Reviews == {Free} \cup Changes \cup Waiting \cup Derivations \cup Decisions

ControlsTypeOK ==
  /\ evidence \in [Items -> [control : ControlIds, type : EvidenceTypes] \cup {NoEvidence}]
  /\ files \subseteq used /\ used \subseteq Items /\ halfGone \subseteq used
  /\ gaps \subseteq ControlIds /\ twice \subseteq doubt /\ doubt \subseteq ControlIds
  /\ status \in [ControlIds -> Status]
  /\ reviews \in 0..MaxReviews /\ breaks \in 0..MaxBreaks
  /\ derived \subseteq ControlIds /\ decision \in [ControlIds -> Decided \cup {None}]
  /\ review \in [Handlers -> Reviews]

ControlsInit ==
  /\ evidence = [e \in Items |-> NoEvidence]
  /\ files = {} /\ used = {} /\ gaps = {} /\ halfGone = {}
  /\ status = [c \in ControlIds |-> NoStatus]
  /\ twice = {} /\ doubt = {} /\ derived = {}
  /\ review = [h \in Handlers |-> Free]
  /\ reviews = 0 /\ breaks = 0
  /\ decision = [c \in ControlIds |-> None]

\* The types of the evidence a control has; the date it is valid until is
\* stored and not looked at.
TypesOf(c) == {evidence[e].type : e \in {i \in Items : evidence[i].control = c}}

Does(h, r) == review' = [review EXCEPT ![h] = r]
Opens(h, r) ==
  /\ review[h] = Free /\ reviews < MaxReviews
  /\ reviews' = reviews + 1
  /\ Does(h, r)

\* Scans and tickets open and close findings.
FindingsChange(c) ==
  /\ gaps' = IF c \in gaps THEN gaps \ {c} ELSE gaps \cup {c}
  /\ UNCHANGED <<evidence, files, used, status, twice, review, reviews, breaks, derived, decision, halfGone, doubt>>

-------------------------------------------------------------------------------
(* Evidence.                                                               *)

\* The file is written before the row is.
\* Mutant: after it, by then it may fail.
UploadBeginRowFirst(h, e, c) ==
  /\ e \notin used
  /\ used' = used \cup {e} /\ UNCHANGED files
  /\ Opens(h, [op |-> "add", item |-> e, of |-> c])
  /\ UNCHANGED <<evidence, gaps, status, twice, breaks, derived, decision, halfGone, doubt>>
UploadBegin(h, e, c) ==
  /\ e \notin used
  /\ used' = used \cup {e} /\ files' = files \cup {e}
  /\ Opens(h, [op |-> "add", item |-> e, of |-> c])
  /\ UNCHANGED <<evidence, gaps, status, twice, breaks, derived, decision, halfGone, doubt>>

UploadCommit(h) ==
  LET r == review[h]
  IN  /\ r.op = "add"
      /\ evidence' = [evidence EXCEPT ![r.item] = [control |-> r.of, type |-> "document"]]
      /\ Does(h, [op |-> "recompute", of |-> r.of])
      /\ UNCHANGED <<files, used, gaps, status, twice, reviews, breaks, derived, decision, halfGone, doubt>>

CreateAttestation(h, e, c) ==
  /\ e \notin used
  /\ used' = used \cup {e}
  /\ evidence' = [evidence EXCEPT ![e] = [control |-> c, type |-> "attestation"]]
  /\ Opens(h, [op |-> "recompute", of |-> c])
  /\ UNCHANGED <<files, gaps, status, twice, breaks, derived, decision, halfGone, doubt>>

\* A file that cannot be removed is left behind.
DeleteBegin(h, e, removed) ==
  /\ evidence[e] # NoEvidence
  /\ files' = IF removed THEN files \ {e} ELSE files
  /\ Opens(h, [op |-> "drop", item |-> e, of |-> evidence[e].control])
  /\ UNCHANGED <<evidence, used, gaps, status, twice, breaks, derived, decision, halfGone, doubt>>

\* A row another request has deleted is not missed.
DeleteCommit(h) ==
  LET r == review[h]
  IN  /\ r.op = "drop"
      /\ evidence' = [evidence EXCEPT ![r.item] = NoEvidence]
      /\ Does(h, [op |-> "recompute", of |-> r.of])
      /\ UNCHANGED <<files, used, gaps, status, twice, reviews, breaks, derived, decision, halfGone, doubt>>

-------------------------------------------------------------------------------
(* The control's status.                                                   *)

\* An open finding keeps a control in progress, evidence or not.
Derived(types, gap) ==
  IF gap THEN "in_progress" ELSE IF types # {} THEN "satisfied" ELSE "not_started"

\* A status a human has decided on is kept.
\* Mutant: it is not.
RecomputedAnyway(row, types, gap) == [status |-> Derived(types, gap), by |-> types]
Recomputed(row, types, gap) ==
  [ status |-> IF row.status \in Decided THEN row.status ELSE Derived(types, gap),
    by     |-> types ]

\* Two rows: the query for the one raises.
Ambiguous(h, c) ==
  /\ c \in twice /\ Does(h, Free)
  /\ UNCHANGED <<evidence, files, used, gaps, status, twice, breaks, derived, decision, halfGone>>

RecomputeRead(h) ==
  LET r == review[h]
  IN  /\ r.op = "recompute" /\ UNCHANGED reviews
      /\ \/ Ambiguous(h, r.of) /\ UNCHANGED doubt
         \/ /\ r.of \notin twice
            /\ Does(h, [op |-> "derive", of |-> r.of, row |-> status[r.of], types |-> TypesOf(r.of),
                        new |-> Recomputed(status[r.of], TypesOf(r.of), r.of \in gaps)])
            /\ UNCHANGED <<evidence, files, used, gaps, status, twice, breaks, derived, decision, halfGone, doubt>>

\* What differs from the row that was read is written; a row that was not
\* there is inserted, beside one that has come meanwhile.
Store(c, old, new) ==
  IF old = NoStatus /\ status[c] # NoStatus
  THEN twice' = twice \cup {c} /\ UNCHANGED status
  ELSE /\ status' = [status EXCEPT ![c] =
            [ status |-> IF new.status # old.status THEN new.status ELSE @.status,
              by     |-> IF new.by # old.by THEN new.by ELSE @.by ]]
       /\ UNCHANGED twice

RecomputeCommit(h) ==
  LET r == review[h]
      c == r.of
      clean == status[c] = r.row /\ TypesOf(c) = r.types /\ c \notin twice
  IN  /\ r.op = "derive"
      /\ Store(c, r.row, r.new)
      /\ Does(h, Free)
      /\ doubt' = IF clean THEN doubt \ {c} ELSE doubt \cup {c}
      /\ derived' = IF r.new.status \in Decided THEN derived \ {c} ELSE derived \cup {c}
      /\ decision' = IF clean THEN decision ELSE [decision EXCEPT ![c] = None]
      /\ UNCHANGED <<evidence, files, used, gaps, reviews, breaks, halfGone>>

UpdateControlRead(h, c, given) ==
  /\ c \notin twice
  /\ LET row == IF status[c] = NoStatus THEN [NoStatus EXCEPT !.status = "not_started"] ELSE status[c]
     IN  Opens(h, [op |-> "set", of |-> c, row |-> status[c], given |-> given,
                   new |-> IF given = None THEN row ELSE [row EXCEPT !.status = given]])
  /\ UNCHANGED <<evidence, files, used, gaps, status, twice, breaks, derived, decision, halfGone, doubt>>

UpdateControlCommit(h) ==
  LET r == review[h]
      c == r.of
      clean == status[c] = r.row /\ c \notin twice
  IN  /\ r.op = "set"
      /\ Store(c, r.row, r.new)
      /\ Does(h, Free)
      /\ doubt' = IF clean THEN doubt ELSE doubt \cup {c}
      /\ derived' = IF r.given = None THEN derived ELSE derived \ {c}
      /\ decision' = IF clean /\ r.given = None THEN decision
                     ELSE [decision EXCEPT ![c] = IF clean /\ r.given \in Decided THEN r.given ELSE None]
      /\ UNCHANGED <<evidence, files, used, gaps, reviews, breaks, halfGone>>

-------------------------------------------------------------------------------
\* What a request has committed is there; what it was about to do is not done.
Unfinished(h) == review[h].op \in {"recompute", "derive"}

\* A commit is refused: the request ends where it is.
CommitFails(h) ==
  /\ review[h] # Free /\ breaks < MaxBreaks
  /\ breaks' = breaks + 1
  /\ doubt' = IF Unfinished(h) THEN doubt \cup {review[h].of} ELSE doubt
  /\ halfGone' = IF review[h].op = "drop" THEN halfGone \cup {review[h].item} ELSE halfGone
  /\ Does(h, Free)
  /\ UNCHANGED <<evidence, files, used, gaps, status, twice, reviews, derived, decision>>

ControlsNext ==
  \/ \E c \in ControlIds : FindingsChange(c)
  \/ \E h \in Handlers, e \in Items, c \in ControlIds : UploadBegin(h, e, c) \/ CreateAttestation(h, e, c)
  \/ \E h \in Handlers, e \in Items, removed \in BOOLEAN : DeleteBegin(h, e, removed)
  \/ \E h \in Handlers, c \in ControlIds, given \in GivenStatuses \cup {None} :
       UpdateControlRead(h, c, given)
  \/ \E h \in Handlers :
       \/ UploadCommit(h)
       \/ DeleteCommit(h)
       \/ RecomputeRead(h)
       \/ RecomputeCommit(h)
       \/ UpdateControlCommit(h)
       \/ CommitFails(h)

ControlsSpec == ControlsInit /\ [][ControlsNext]_controlsVars

-------------------------------------------------------------------------------
(* Properties.                                                             *)

\* A control nobody is working at, that no request has written over another's
\* change and none was stopped at, has the status its evidence gives it, and a
\* reviewer's decision on it stands (_recompute_control, lines 233-275).  Only
\* evidence satisfies it: that its findings are all ticketed or closed does not,
\* though the function's docstring and comment count that as coverage.
Settled(c) == c \notin doubt /\ \A h \in Handlers : review[h] # Free => review[h].of # c

StatusAgrees ==
  \A c \in ControlIds : Settled(c) =>
    /\ c \in derived => /\ status[c].by = TypesOf(c)
                        /\ status[c].status = "satisfied" => TypesOf(c) # {}
                        /\ status[c].status = "not_started" => TypesOf(c) = {}
    /\ decision[c] # None => status[c].status = decision[c]

\* A document has its file, but for one whose deletion has begun, or failed:
\* it is the file that goes first (lines 67-82 and 143-149).
FilesThere ==
  \A e \in Items : evidence[e].type = "document" /\ e \notin files =>
    e \in halfGone \/ \E h \in Handlers : review[h].op = "drop" /\ review[h].item = e
===============================================================================
