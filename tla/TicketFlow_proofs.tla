------------------------- MODULE TicketFlow_proofs -------------------------
(***************************************************************************)
(* Proofs about TicketFlow for any number of overlapping requests: no work *)
(* is accepted without an approver on record, no evidence entry is without *)
(* its file, the audit log ends with the ticket's status, and a comment or *)
(* file is lost only to one posted at the same time; and with a single     *)
(* request slot a ticket implements TicketWorkflow.                        *)
(***************************************************************************)
EXTENDS TicketFlow, TLAPS

ReqType == [kind : Kinds, seen : Statuses, to : Statuses,
            item : Comments \cup Files \cup {None},
            list : SUBSET (Comments \cup Files), hist : BOOLEAN]

\* The workflow table, as a function of the statuses.
LEMMA Table ==
  /\ Statuses = {"open", "assigned", "in_review", "accepted", "rejected",
                 "remediated", "suppressed"}
  /\ \A s \in Statuses : ValidTransitions[s] \subseteq Statuses
  /\ \A s \in Statuses : "remediated" \in ValidTransitions[s] => s = "accepted"
  BY DEF Statuses, ValidTransitions

LEMMA IdleType == Idle \in ReqType /\ Idle.kind = "idle"
  BY Table DEF Idle, ReqType, Kinds

\* What a request answers is recorded.
LEMMA AnswerFacts ==
  ASSUME TypeOK, NEW r \in Requests, NEW kinds, Answer(r, kinds),
         req[r].item \in Comments \cup Files,
         \A q \in Requests : req[q].kind \in kinds => req[q].item \in Comments \cup Files
  PROVE  /\ posted' = posted \cup {req[r].item} /\ posted' \subseteq Comments \cup Files
         /\ beside' \in [Comments \cup Files -> SUBSET (Comments \cup Files)]
         /\ \A x \in Comments \cup Files : beside[x] \subseteq beside'[x]
         /\ \A q \in Requests : q # r /\ req[q].kind \in kinds =>
              req[q].item \in beside'[req[r].item]
<1>1. PICK item \in Comments \cup Files : item = req[r].item
  OBVIOUS
<1>2. PICK others : others = {q \in Requests \ {r} : req[q].kind \in kinds}
  OBVIOUS
<1>3. PICK items : items = {req[q].item : q \in others}
  OBVIOUS
<1>4. items \subseteq Comments \cup Files
  BY <1>2, <1>3
<1>5. /\ posted' = posted \cup {item}
      /\ beside' = [beside EXCEPT ![item] = @ \cup items]
  BY <1>1, <1>2, <1>3 DEF Answer
<1>6. \A q \in Requests : q # r /\ req[q].kind \in kinds => req[q].item \in items
  BY <1>2, <1>3
<1>. QED  BY <1>1, <1>4, <1>5, <1>6 DEF TypeOK

LEMMA FlowInit == Init => FlowInv
<1>. SUFFICES ASSUME Init PROVE FlowInv
  OBVIOUS
<1>1. req \in [Requests -> ReqType] /\ \A r \in Requests : req[r].kind = "idle"
  BY IdleType DEF Init
<1>2. history \in Seq(Entries)
  <2>1. "created" \in Entries
    BY DEF Entries
  <2>2. <<"created">> \in Seq(Entries) /\ <<>> \in Seq(Entries)
    BY <2>1
  <2>. QED  BY <2>2 DEF Init
<1>3. audit \in Seq(Statuses \X Statuses)
  BY DEF Init
<1>4. "open" \in Statuses
  BY Table
<1>5. TypeOK
  BY <1>1, <1>2, <1>3, <1>4 DEF Init, TypeOK, ReqType
<1>. QED
  BY <1>1, <1>5 DEF Init, FlowInv, ApprovedFirst, EvidenceOnDisk

\* What the stored history becomes is a sequence of entries.
LEMMA HistoryType ==
  ASSUME TypeOK, NEW r \in Requests, NEW entry \in Entries, SaveHistory(r, entry)
  PROVE  history' \in Seq(Entries)
  BY DEF TypeOK, SaveHistory

LEMMA FlowStep == FlowInv /\ [Next]_vars => FlowInv'
<1>. SUFFICES ASSUME FlowInv, [Next]_vars PROVE FlowInv'
  OBVIOUS
<1>. USE DEF FlowInv, ApprovedFirst, EvidenceOnDisk
<1>0. req \in [Requests -> ReqType] /\ TypeOK
  BY DEF TypeOK, ReqType
<1>1. ASSUME NEW r \in Requests, NEW to \in Statuses, UpdateRead(r, to)
      PROVE  FlowInv'
  <2>. DEFINE new == [Idle EXCEPT !.kind = "update", !.seen = status, !.to = to,
                                  !.hist = (history = <<>>)]
  <2>0. status \in Statuses
    BY <1>0 DEF TypeOK
  <2>1. /\ new \in ReqType /\ new.kind = "update" /\ new.to = to /\ new.seen = status
    BY <2>0 DEF Idle, ReqType, Kinds
  <2>2. /\ to \in ValidTransitions[status] /\ req' = [req EXCEPT ![r] = new]
        /\ UNCHANGED <<status, approved, history, audit, enhanced, comments, evidence,
                       disk, posted, beside>>
    BY <1>1 DEF UpdateRead, MayMove, postVars
  <2>3. to = "remediated" => approved
    BY <1>0, <2>2, Table DEF TypeOK
  <2>. HIDE DEF new
  <2>4. TypeOK'
    BY <1>0, <2>1, <2>2 DEF TypeOK, ReqType
  <2>. QED  BY <1>0, <2>1, <2>2, <2>3, <2>4
<1>2. ASSUME NEW r \in Requests, UpdateCommit(r) PROVE FlowInv'
  <2>1. /\ req[r].kind = "update" /\ req[r] \in ReqType
        /\ req[r].to \in Statuses /\ req[r].seen \in Statuses
    BY <1>0, <1>2 DEF UpdateCommit, ReqType
  <2>2. AuditEntry(r) \in Statuses \X Statuses /\ AuditEntry(r) \in Entries
    BY <2>1 DEF AuditEntry, Entries
  <2>3. /\ status' = req[r].to
        /\ approved' = (approved \/ req[r].to = "accepted")
        /\ req' = [req EXCEPT ![r] = Idle]
        /\ UNCHANGED <<enhanced, comments, evidence, disk, posted, beside>>
    BY <1>2 DEF UpdateCommit, Approval, postVars
  <2>4. approved' \in BOOLEAN /\ (approved => approved')
    BY <1>0, <2>3, ZenonT(30) DEF TypeOK
  <2>5. audit' \in Seq(Statuses \X Statuses) /\ history' \in Seq(Entries)
    BY <1>0, <1>2, <2>2, HistoryType DEF UpdateCommit, TypeOK
  <2>6. TypeOK'
    BY <1>0, <2>1, <2>3, <2>4, <2>5, IdleType DEF TypeOK, ReqType
  <2>7. ApprovedFirst'
    <3>1. CASE req[r].to = "accepted"
      BY <2>3, <3>1
    <3>2. CASE req[r].to # "accepted"
      BY <2>1, <2>3, <2>4, <3>2
    <3>. QED  BY <3>1, <3>2
  <2>8. \A x \in Requests : req'[x] = req[x] \/ req'[x].kind = "idle"
    BY <1>0, <2>3, IdleType
  <2>. QED  BY <1>0, <2>3, <2>4, <2>6, <2>7, <2>8
<1>3. ASSUME NEW r \in Requests, EnhanceRead(r) PROVE FlowInv'
  <2>. DEFINE new == [Idle EXCEPT !.kind = "enhance", !.hist = (history = <<>>)]
  <2>1. new \in ReqType /\ new.kind = "enhance"
    BY <1>0, Table DEF Idle, ReqType, Kinds
  <2>2. /\ req' = [req EXCEPT ![r] = new]
        /\ UNCHANGED <<status, approved, history, audit, enhanced, comments, evidence,
                       disk, posted, beside>>
    BY <1>3 DEF EnhanceRead, postVars
  <2>. HIDE DEF new
  <2>3. TypeOK'
    BY <1>0, <2>1, <2>2 DEF TypeOK, ReqType
  <2>. QED  BY <1>0, <2>1, <2>2, <2>3
<1>4. ASSUME NEW r \in Requests, EnhanceCommit(r) PROVE FlowInv'
  <2>1. history' \in Seq(Entries)
    BY <1>0, <1>4, HistoryType DEF EnhanceCommit, Entries
  <2>2. TypeOK'
    BY <1>0, <1>4, <2>1, IdleType DEF EnhanceCommit, postVars, TypeOK, ReqType
  <2>3. \A x \in Requests : req'[x] = req[x] \/ req'[x].kind = "idle"
    BY <1>0, <1>4, IdleType DEF EnhanceCommit
  <2>. QED  BY <1>0, <1>4, <2>2, <2>3 DEF EnhanceCommit
<1>5. ASSUME NEW r \in Requests, NEW x \in Comments, CommentRead(r, x) PROVE FlowInv'
  <2>. DEFINE new == [Idle EXCEPT !.kind = "comment", !.item = x, !.list = comments]
  <2>1. new \in ReqType /\ new.kind = "comment" /\ new.item = x /\ new.list = comments
    BY <1>0, Table DEF Idle, ReqType, Kinds, TypeOK
  <2>2. /\ req' = [req EXCEPT ![r] = new]
        /\ UNCHANGED <<status, approved, history, audit, enhanced, comments, evidence,
                       disk, posted, beside>>
    BY <1>5 DEF CommentRead, Loaded, postVars
  <2>. HIDE DEF new
  <2>3. TypeOK'
    BY <1>0, <2>1, <2>2 DEF TypeOK, ReqType
  <2>. QED  BY <1>0, <2>1, <2>2, <2>3 DEF TypeOK
<1>6. ASSUME NEW r \in Requests, CommentCommit(r) PROVE FlowInv'
  <2>1. req[r].item \in Comments /\ req[r].list \subseteq Comments
    BY <1>6 DEF CommentCommit
  <2>2. TypeOK'
    <3>1. Answer(r, {"comment"})
      BY <1>6 DEF CommentCommit
    <3>0. \A q \in Requests : req[q].kind \in {"comment"} =>
            req[q].item \in Comments \cup Files
      OBVIOUS
    <3>2. /\ posted' \subseteq Comments \cup Files
          /\ beside' \in [Comments \cup Files -> SUBSET (Comments \cup Files)]
      BY <1>0, <2>1, <3>0, <3>1, AnswerFacts
    <3>. QED  BY <1>0, <1>6, <2>1, <3>2, IdleType DEF CommentCommit, TypeOK, ReqType
  <2>3. \A x \in Requests : req'[x] = req[x] \/ req'[x].kind = "idle"
    BY <1>0, <1>6, IdleType DEF CommentCommit
  <2>. QED  BY <1>0, <1>6, <2>2, <2>3 DEF CommentCommit
<1>7. ASSUME NEW r \in Requests, NEW f \in Files, UploadRead(r, f) PROVE FlowInv'
  <2>. DEFINE new == [Idle EXCEPT !.kind = "upload", !.item = f, !.list = evidence]
  <2>1. new \in ReqType /\ new.kind = "upload" /\ new.item = f /\ new.list = evidence
    BY <1>0, Table DEF Idle, ReqType, Kinds, TypeOK
  <2>2. /\ req' = [req EXCEPT ![r] = new]
        /\ UNCHANGED <<status, approved, history, audit, enhanced, comments, evidence,
                       disk, posted, beside>>
    BY <1>7 DEF UploadRead, Loaded, postVars
  <2>. HIDE DEF new
  <2>3. TypeOK'
    BY <1>0, <2>1, <2>2 DEF TypeOK, ReqType
  <2>. QED  BY <1>0, <2>1, <2>2, <2>3 DEF TypeOK
<1>8. ASSUME NEW r \in Requests, UploadWrite(r) PROVE FlowInv'
  <2>1. req[r].kind = "upload" /\ req[r].item \in Files /\ req[r] \in ReqType
    BY <1>0, <1>8 DEF UploadWrite
  <2>2. /\ disk' = disk \cup {req[r].item}
        /\ req' = [req EXCEPT ![r].kind = "written"]
        /\ UNCHANGED <<status, approved, history, audit, enhanced, comments, evidence,
                       posted, beside>>
    BY <1>8 DEF UploadWrite, WriteFile, postVars
  <2>3. /\ req'[r].kind = "written" /\ req'[r].item = req[r].item
        /\ req'[r].list = req[r].list /\ req'[r] \in ReqType
        /\ \A x \in Requests : x # r => req'[x] = req[x]
    BY <1>0, <2>1, <2>2 DEF ReqType, Kinds
  <2>4. TypeOK'
    BY <1>0, <2>1, <2>2, <2>3 DEF TypeOK, ReqType
  <2>. QED  BY <1>0, <2>1, <2>2, <2>3, <2>4
<1>9. ASSUME NEW r \in Requests, UploadCommit(r) PROVE FlowInv'
  <2>1. /\ req[r].item \in Files /\ req[r].list \subseteq Files
        /\ req[r].item \in disk /\ req[r].list \subseteq disk
    BY <1>9 DEF UploadCommit
  <2>2. TypeOK'
    <3>1. Answer(r, {"upload", "written"})
      BY <1>9 DEF UploadCommit
    <3>2. /\ posted' \subseteq Comments \cup Files
          /\ beside' \in [Comments \cup Files -> SUBSET (Comments \cup Files)]
      BY <1>0, <2>1, <3>1, AnswerFacts
    <3>. QED  BY <1>0, <1>9, <2>1, <3>2, IdleType DEF UploadCommit, TypeOK, ReqType
  <2>3. \A x \in Requests : req'[x] = req[x] \/ req'[x].kind = "idle"
    BY <1>0, <1>9, IdleType DEF UploadCommit
  <2>. QED  BY <1>0, <1>9, <2>1, <2>2, <2>3 DEF UploadCommit
<1>10. ASSUME NEW r \in Requests, Fail(r) PROVE FlowInv'
  <2>1. TypeOK'
    BY <1>0, <1>10, IdleType DEF Fail, postVars, TypeOK, ReqType
  <2>2. \A x \in Requests : req'[x] = req[x] \/ req'[x].kind = "idle"
    BY <1>0, <1>10, IdleType DEF Fail
  <2>. QED  BY <1>0, <1>10, <2>1, <2>2 DEF Fail
<1>11. CASE UNCHANGED vars
  BY <1>0, <1>11 DEF vars, postVars, TypeOK
<1>. QED
  BY <1>1, <1>2, <1>3, <1>4, <1>5, <1>6, <1>7, <1>8, <1>9, <1>10, <1>11 DEF Next

\* The inductive invariant of a ticket and the requests in progress.
THEOREM FlowInvariance == Spec => []FlowInv
  BY FlowInit, FlowStep, PTL DEF Spec

\* Nothing is accepted or remediated without an approver on record.
THEOREM ApproverOnRecord == Spec => []ApprovedFirst
<1>1. FlowInv => ApprovedFirst  BY DEF FlowInv
<1>. QED  BY <1>1, FlowInvariance, PTL

\* No evidence entry is without its file.
THEOREM FilesThere == Spec => []EvidenceOnDisk
<1>1. FlowInv => EvidenceOnDisk  BY DEF FlowInv
<1>. QED  BY <1>1, FlowInvariance, PTL

\* A status is written only with its audit entry, in one commit.
LEMMA AuditStep == FlowInv /\ AuditTellsStatus /\ [Next]_vars => AuditTellsStatus'
<1>. SUFFICES ASSUME FlowInv, AuditTellsStatus, [Next]_vars
              PROVE  AuditTellsStatus'
  OBVIOUS
<1>1. ASSUME NEW r \in Requests, UpdateCommit(r) PROVE AuditTellsStatus'
  <2>1. audit \in Seq(Statuses \X Statuses)
    BY DEF FlowInv, TypeOK
  <2>2. req[r].to \in Statuses /\ req[r].seen \in Statuses
    BY DEF FlowInv, TypeOK
  <2>3. PICK entry \in Statuses \X Statuses : entry = <<req[r].seen, req[r].to>>
    BY <2>2
  <2>4. audit' = Append(audit, entry) /\ status' = req[r].to /\ entry[2] = req[r].to
    BY <1>1, <2>3 DEF UpdateCommit, AuditEntry
  <2>5. Len(audit') = Len(audit) + 1 /\ audit'[Len(audit) + 1] = entry
    BY <2>1, <2>4
  <2>. QED  BY <2>4, <2>5 DEF AuditTellsStatus
<1>2. CASE UNCHANGED <<status, audit>>
  BY <1>2 DEF AuditTellsStatus
<1>. QED
  BY <1>1, <1>2
  DEF Next, vars, UpdateRead, EnhanceRead, EnhanceCommit, CommentRead, CommentCommit,
      UploadRead, UploadWrite, UploadCommit, Fail

\* However update_ticket requests overlap, the last audit entry tells the
\* status the ticket has.
THEOREM AuditTold == Spec => []AuditTellsStatus
<1>1. Init => AuditTellsStatus
  BY DEF Init, AuditTellsStatus
<1>. QED
  BY <1>1, FlowInvariance, AuditStep, PTL DEF Spec
-----------------------------------------------------------------------------
(***************************************************************************)
(* Overlapping posts.                                                      *)
(***************************************************************************)

\* A list, of comments or of files, is written back with a new item by a
\* request that had loaded it: what was posted since was posted beside it.
LEMMA KeptWrite ==
  ASSUME FlowInv, KeptInv, NEW r \in Requests, NEW Posts \in SUBSET (Comments \cup Files),
         NEW kinds, Answer(r, kinds), req' = [req EXCEPT ![r] = Idle],
         req[r].kind \in kinds, req[r].item \in Posts,
         \A q \in Requests : req[q].kind \in kinds => req[q].item \in Comments \cup Files,
         \A x \in posted \cap Posts :
           \/ Overwritten(x) \/ req[r].item \in beside[x]
           \/ x \in comments' \cup evidence',
         req[r].item \in comments' \cup evidence',
         \A x \in posted \ Posts : x \in comments \cup evidence =>
                                     x \in comments' \cup evidence',
         \A q \in Requests : req[q].kind = "comment" /\ req[r].item \in Comments =>
                               req[q].kind \in kinds,
         \A q \in Requests : req[q].kind \in {"upload", "written"} /\ req[r].item \in Files =>
                               req[q].kind \in kinds
  PROVE  KeptInv'
<1>0. /\ TypeOK /\ req \in [Requests -> ReqType] /\ posted \subseteq Comments \cup Files
  BY DEF FlowInv, TypeOK, ReqType
<1>1. PICK item \in Comments \cup Files : item = req[r].item
  OBVIOUS
<1>2. /\ posted' = posted \cup {item}
      /\ \A x \in Comments \cup Files : beside[x] \subseteq beside'[x]
      /\ \A q \in Requests : q # r /\ req[q].kind \in kinds => req[q].item \in beside'[item]
  BY <1>0, <1>1, AnswerFacts
<1>3. \A x \in posted : Overwritten(x) => Overwritten(x)'
  BY <1>0, <1>2 DEF Overwritten
<1>4. ASSUME NEW x \in posted, item \in beside[x] PROVE Overwritten(x)'
  BY <1>0, <1>2, <1>4 DEF Overwritten
<1>5. ASSUME NEW x \in posted' PROVE x \in comments' \cup evidence' \/ Overwritten(x)'
  <2>1. CASE x = item
    BY <1>1, <2>1
  <2>2. CASE x \in posted \cap Posts
    BY <1>1, <1>3, <1>4, <2>2
  <2>3. CASE x \in posted \ Posts
    BY <1>3, <2>3 DEF KeptInv, PostsKept
  <2>. QED  BY <1>2, <2>1, <2>2, <2>3
<1>6. ASSUME NEW q \in Requests, NEW x \in posted', q # r
      PROVE  \/ Overwritten(x)'
             \/ req[q].item \in beside'[x]
             \/ /\ req[q].kind = "comment" /\ x \in Comments => x \in req[q].list
                /\ req[q].kind \in {"upload", "written"} /\ x \in Files => x \in req[q].list
  <2>1. CASE x \in posted
    BY <1>0, <1>2, <1>3, <2>1 DEF KeptInv
  <2>2. CASE x = item
    BY <1>1, <1>2, <1>6, <2>2
  <2>. QED  BY <1>2, <2>1, <2>2
<1>7. /\ req'[r].kind = "idle"
      /\ \A q \in Requests : q # r => req'[q] = req[q]
  BY <1>0, IdleType
<1>8. ASSUME NEW q \in Requests, NEW x \in posted'
      PROVE  \/ Overwritten(x)'
             \/ req'[q].item \in beside'[x]
             \/ /\ req'[q].kind = "comment" /\ x \in Comments => x \in req'[q].list
                /\ req'[q].kind \in {"upload", "written"} /\ x \in Files => x \in req'[q].list
  <2>1. CASE q = r
    BY <1>7, <2>1
  <2>2. CASE q # r
    BY <1>6, <1>7, <2>2
  <2>. QED  BY <2>1, <2>2
<1>. QED  BY <1>5, <1>8 DEF KeptInv, PostsKept

\* A request that starts has the stored list, one that ends nothing.
LEMMA KeptSame ==
  ASSUME FlowInv, KeptInv, NEW r \in Requests, NEW new \in ReqType,
         req' = [req EXCEPT ![r] = new], UNCHANGED <<comments, evidence, posted, beside>>,
         \/ new.kind \notin {"comment", "upload", "written"}
         \/ new.kind = "comment" /\ new.list = comments
         \/ new.kind = "upload" /\ new.list = evidence
         \/ new.kind = "written" /\ req[r].kind = "upload" /\ new.list = req[r].list
              /\ new.item = req[r].item
  PROVE  KeptInv'
<1>1. /\ req \in [Requests -> ReqType] /\ comments \subseteq Comments
      /\ evidence \subseteq Files /\ Comments \cap Files = {}
  BY TicketFlowAssumption DEF FlowInv, TypeOK, ReqType
<1>2. req'[r] = new /\ \A q \in Requests : q # r => req'[q] = req[q]
  BY <1>1
<1>3. \A x : Overwritten(x)' = Overwritten(x)
  BY DEF Overwritten
<1>4. ASSUME NEW q \in Requests, NEW x \in posted
      PROVE  \/ Overwritten(x)
             \/ req'[q].item \in beside[x]
             \/ /\ req'[q].kind = "comment" /\ x \in Comments => x \in req'[q].list
                /\ req'[q].kind \in {"upload", "written"} /\ x \in Files => x \in req'[q].list
  <2>1. CASE q # r
    BY <1>2, <2>1 DEF KeptInv
  <2>2. CASE q = r
    <3>1. x \in comments \cup evidence \/ Overwritten(x)
      BY DEF KeptInv, PostsKept
    <3>2. \/ Overwritten(x) \/ req[r].item \in beside[x]
          \/ req[r].kind \in {"upload", "written"} /\ x \in Files => x \in req[r].list
      BY DEF KeptInv
    <3>. QED  BY <1>1, <1>2, <2>2, <3>1, <3>2
  <2>. QED  BY <2>1, <2>2
<1>. QED  BY <1>3, <1>4 DEF KeptInv, PostsKept

LEMMA KeptStep == FlowInv /\ KeptInv /\ [Next]_vars => KeptInv'
<1>. SUFFICES ASSUME FlowInv, KeptInv, [Next]_vars PROVE KeptInv'
  OBVIOUS
<1>0. /\ TypeOK /\ req \in [Requests -> ReqType] /\ status \in Statuses
      /\ comments \subseteq Comments /\ evidence \subseteq Files /\ Comments \cap Files = {}
      /\ posted \subseteq Comments \cup Files
  BY TicketFlowAssumption DEF FlowInv, TypeOK, ReqType
<1>1. ASSUME NEW r \in Requests,
             \/ \E to \in Statuses : UpdateRead(r, to)
             \/ EnhanceRead(r)
      PROVE  KeptInv'
  <2>1. PICK new \in ReqType : /\ new.kind \in {"update", "enhance"}
                               /\ req' = [req EXCEPT ![r] = new]
    <3>1. ASSUME NEW to \in Statuses, UpdateRead(r, to)
          PROVE  \E new \in ReqType : /\ new.kind \in {"update", "enhance"}
                                      /\ req' = [req EXCEPT ![r] = new]
      <4>1. PICK new : new = [Idle EXCEPT !.kind = "update", !.seen = status, !.to = to,
                                          !.hist = (history = <<>>)]
        OBVIOUS
      <4>2. new \in ReqType /\ new.kind = "update"
        BY <1>0, <4>1 DEF Idle, ReqType, Kinds
      <4>. QED  BY <3>1, <4>1, <4>2 DEF UpdateRead
    <3>2. ASSUME EnhanceRead(r)
          PROVE  \E new \in ReqType : /\ new.kind \in {"update", "enhance"}
                                      /\ req' = [req EXCEPT ![r] = new]
      <4>1. PICK new : new = [Idle EXCEPT !.kind = "enhance", !.hist = (history = <<>>)]
        OBVIOUS
      <4>2. new \in ReqType /\ new.kind = "enhance"
        BY <4>1, Table DEF Idle, ReqType, Kinds
      <4>. QED  BY <3>2, <4>1, <4>2 DEF EnhanceRead
    <3>. QED  BY <1>1, <3>1, <3>2
  <2>2. UNCHANGED <<comments, evidence, posted, beside>>
    BY <1>1 DEF UpdateRead, EnhanceRead, postVars
  <2>. QED  BY <2>1, <2>2, KeptSame
<1>2. ASSUME NEW r \in Requests, UpdateCommit(r) \/ EnhanceCommit(r) \/ Fail(r)
      PROVE  KeptInv'
  <2>1. req' = [req EXCEPT ![r] = Idle] /\ UNCHANGED <<comments, evidence, posted, beside>>
    BY <1>2 DEF UpdateCommit, EnhanceCommit, Fail, postVars
  <2>. QED  BY <2>1, IdleType, KeptSame
<1>3. ASSUME NEW r \in Requests, NEW x \in Comments, CommentRead(r, x) PROVE KeptInv'
  <2>1. PICK new : new = [Idle EXCEPT !.kind = "comment", !.item = x, !.list = comments]
    OBVIOUS
  <2>2. new \in ReqType /\ new.kind = "comment" /\ new.list = comments
    BY <1>0, <2>1, Table DEF Idle, ReqType, Kinds
  <2>3. req' = [req EXCEPT ![r] = new] /\ UNCHANGED <<comments, evidence, posted, beside>>
    BY <1>3, <2>1 DEF CommentRead, Loaded, postVars
  <2>. QED  BY <2>2, <2>3, KeptSame
<1>4. ASSUME NEW r \in Requests, NEW f \in Files, UploadRead(r, f) PROVE KeptInv'
  <2>1. PICK new : new = [Idle EXCEPT !.kind = "upload", !.item = f, !.list = evidence]
    OBVIOUS
  <2>2. new \in ReqType /\ new.kind = "upload" /\ new.list = evidence
    BY <1>0, <2>1, Table DEF Idle, ReqType, Kinds
  <2>3. req' = [req EXCEPT ![r] = new] /\ UNCHANGED <<comments, evidence, posted, beside>>
    BY <1>4, <2>1 DEF UploadRead, Loaded, postVars
  <2>. QED  BY <2>2, <2>3, KeptSame
<1>5. ASSUME NEW r \in Requests, UploadWrite(r) PROVE KeptInv'
  <2>1. PICK new : new = [req[r] EXCEPT !.kind = "written"]
    OBVIOUS
  <2>2. /\ new \in ReqType /\ new.kind = "written" /\ new.list = req[r].list
        /\ new.item = req[r].item
    BY <1>0, <2>1 DEF ReqType, Kinds
  <2>3. /\ req' = [req EXCEPT ![r] = new] /\ req[r].kind = "upload"
        /\ UNCHANGED <<comments, evidence, posted, beside>>
    BY <1>5, <2>1 DEF UploadWrite, postVars
  <2>. QED  BY <2>2, <2>3, KeptSame
<1>6. \A q \in Requests :
        /\ req[q].kind = "comment" => req[q].item \in Comments
        /\ req[q].kind \in {"upload", "written"} => req[q].item \in Files
  BY DEF FlowInv
<1>7. ASSUME NEW r \in Requests, CommentCommit(r) PROVE KeptInv'
  <2>1. /\ req[r].kind = "comment" /\ req[r].item \in Comments
        /\ comments' = req[r].list \cup {req[r].item} /\ evidence' = evidence
        /\ Answer(r, {"comment"}) /\ req' = [req EXCEPT ![r] = Idle]
    BY <1>6, <1>7 DEF CommentCommit
  <2>2. \A x \in posted \cap Comments :
          \/ Overwritten(x) \/ req[r].item \in beside[x] \/ x \in comments' \cup evidence'
    BY <2>1 DEF KeptInv
  <2>3. \A x \in posted \ Comments :
          x \in comments \cup evidence => x \in comments' \cup evidence'
    BY <1>0, <2>1
  <2>4. /\ \A q \in Requests : req[q].kind \in {"comment"} =>
             req[q].item \in Comments \cup Files
        /\ \A q \in Requests : req[q].kind = "comment" => req[q].kind \in {"comment"}
        /\ req[r].item \notin Files /\ req[r].kind \in {"comment"}
        /\ req[r].item \in comments' \cup evidence'
        /\ Comments \in SUBSET (Comments \cup Files)
    BY <1>0, <1>6, <2>1
  <2>. QED  BY <2>1, <2>2, <2>3, <2>4, KeptWrite
<1>8. ASSUME NEW r \in Requests, UploadCommit(r) PROVE KeptInv'
  <2>1. /\ req[r].kind = "written" /\ req[r].item \in Files
        /\ evidence' = req[r].list \cup {req[r].item} /\ comments' = comments
        /\ Answer(r, {"upload", "written"}) /\ req' = [req EXCEPT ![r] = Idle]
    BY <1>6, <1>8 DEF UploadCommit
  <2>2. \A x \in posted \cap Files :
          \/ Overwritten(x) \/ req[r].item \in beside[x] \/ x \in comments' \cup evidence'
    BY <2>1 DEF KeptInv
  <2>3. \A x \in posted \ Files :
          x \in comments \cup evidence => x \in comments' \cup evidence'
    BY <1>0, <2>1
  <2>. QED  BY <1>0, <1>6, <2>1, <2>2, <2>3, KeptWrite
<1>9. CASE UNCHANGED vars
  BY <1>9 DEF vars, postVars, KeptInv, PostsKept, Overwritten
<1>. QED  BY <1>1, <1>2, <1>3, <1>4, <1>5, <1>7, <1>8, <1>9 DEF Next

\* A comment or file that add_comment or upload_ticket_evidence has answered
\* for stays on the ticket, for any number of overlapping requests, unless one
\* that was being posted as it was answered was answered later.
THEOREM AnsweredKept == Spec => []PostsKept
<1>1. Init => KeptInv
  BY DEF Init, KeptInv, PostsKept
<1>2. KeptInv => PostsKept
  BY DEF KeptInv
<1>. QED
  BY <1>1, <1>2, FlowInvariance, KeptStep, PTL DEF Spec
-----------------------------------------------------------------------------
(***************************************************************************)
(* One request at a time.                                                  *)
(***************************************************************************)
LEMMA FreshStep ==
  ASSUME NEW one, Requests = {one}
  PROVE  FlowInv /\ FreshInv /\ [Next]_vars => FreshInv'
<1>. SUFFICES ASSUME FlowInv, FreshInv, [Next]_vars PROVE FreshInv'
  OBVIOUS
<1>0. req \in [Requests -> ReqType] /\ TypeOK
  BY DEF FlowInv, TypeOK, ReqType
<1>1. CASE UNCHANGED vars
  BY <1>1 DEF vars, FreshInv
<1>2. ASSUME NEW r \in Requests, NEW to \in Statuses, UpdateRead(r, to)
      PROVE  FreshInv'
  BY <1>0, <1>2 DEF UpdateRead, Idle, FreshInv
<1>3. ASSUME NEW r \in Requests, EnhanceRead(r) PROVE FreshInv'
  BY <1>0, <1>3 DEF EnhanceRead, Idle, FreshInv
<1>4. ASSUME NEW r \in Requests, NEW x \in Comments, CommentRead(r, x)
      PROVE  FreshInv'
  BY <1>0, <1>4 DEF CommentRead, Loaded, Idle, FreshInv
<1>5. ASSUME NEW r \in Requests, NEW f \in Files, UploadRead(r, f) PROVE FreshInv'
  BY <1>0, <1>5 DEF UploadRead, Loaded, Idle, FreshInv
<1>6. ASSUME NEW r \in Requests, UploadWrite(r) PROVE FreshInv'
  BY <1>0, <1>6 DEF UploadWrite, FreshInv, ReqType
<1>7. ASSUME NEW r \in Requests,
             UpdateCommit(r) \/ EnhanceCommit(r) \/ CommentCommit(r)
               \/ UploadCommit(r) \/ Fail(r)
      PROVE  FreshInv'
  <2>1. req' = [req EXCEPT ![r] = Idle]
    BY <1>7 DEF UpdateCommit, EnhanceCommit, CommentCommit, UploadCommit, Fail
  <2>2. \A x \in Requests : req'[x].kind = "idle"
    BY <1>0, <2>1, IdleType
  <2>. QED  BY <2>2 DEF FreshInv
<1>. QED
  BY <1>1, <1>2, <1>3, <1>4, <1>5, <1>6, <1>7 DEF Next

LEMMA WorkflowStep ==
  ASSUME NEW one, Requests = {one}
  PROVE  FlowInv /\ FreshInv /\ [Next]_vars
           => [Workflow!Next]_<<status, comments, evidence>>
<1>. SUFFICES ASSUME FlowInv, FreshInv, [Next]_vars
              PROVE  [Workflow!Next]_<<status, comments, evidence>>
  OBVIOUS
<1>. USE DEF Workflow!Next
<1>1. ASSUME NEW r \in Requests, UpdateCommit(r)
      PROVE  Workflow!Next
  BY <1>1 DEF UpdateCommit, FlowInv, FreshInv, Workflow!Move
<1>2. ASSUME NEW r \in Requests, CommentCommit(r)
      PROVE  Workflow!Next
  BY <1>2 DEF CommentCommit, FlowInv, FreshInv, Workflow!Comment
<1>3. ASSUME NEW r \in Requests, UploadCommit(r)
      PROVE  Workflow!Next
  BY <1>3 DEF UploadCommit, FlowInv, FreshInv, Workflow!Attach
<1>4. CASE UNCHANGED <<status, comments, evidence>>
  BY <1>4
<1>. QED
  BY <1>1, <1>2, <1>3, <1>4
  DEF Next, vars, UpdateRead, EnhanceRead, EnhanceCommit, CommentRead, UploadRead,
      UploadWrite, Fail

\* With one request at a time, a ticket moves only along the workflow and
\* keeps every comment and file: it implements TicketWorkflow.
THEOREM Implementation ==
  ASSUME NEW one, Requests = {one}
  PROVE  Spec => ImplementsWorkflow
<1>1. Init => Workflow!Init
  BY DEF Init, Workflow!Init
<1>2. Init => FreshInv
  <2>1. Init => \A r \in Requests : req[r].kind = "idle"
    BY IdleType DEF Init
  <2>. QED  BY <2>1 DEF FreshInv
<1>. QED
  BY <1>1, <1>2, FlowInvariance, FreshStep, WorkflowStep, PTL
  DEF Spec, Workflow!Spec, ImplementsWorkflow
=============================================================================
