-------------------------- MODULE ScanJobs_proofs --------------------------
(***************************************************************************)
(* Proofs about ScanJobs for any tenants, collectors, jobs and number of   *)
(* overlapping requests and re-scans: tenants are isolated, a job that is  *)
(* done has its findings unless a re-scan cleared them, and only           *)
(* overlapping polls hand a job out twice.                                 *)
(***************************************************************************)
EXTENDS ScanJobs, TLAPS

\* Initially no job exists.
LEMMA IsolationInit == Init => IsolationInv
  BY ScanJobsAssumption
  DEF Init, IsolationInv, TypeOK, TenantIsolation, Statuses, IdlePoll, IdleSub, IdleScan

\* A poll that ends leaves its slot idle and the other slots alone.
LEMMA ClearPoll ==
  ASSUME IsolationInv, NEW p \in Polls, poll' = [poll EXCEPT ![p] = IdlePoll]
  PROVE  /\ poll' \in [Polls -> [col : Collectors \cup {None}, sel : SUBSET Jobs]]
         /\ \A q \in Polls : poll'[q] = IdlePoll \/ poll'[q] = poll[q]
         /\ IdlePoll.sel = {}
         /\ \A q \in Polls : poll'[q].col = None => poll'[q] = IdlePoll
<1>1. IdlePoll \in [col : Collectors \cup {None}, sel : SUBSET Jobs]
  BY DEF IdlePoll
<1>2. IdlePoll.sel = {}
  BY DEF IdlePoll
<1>3. \A q \in Polls : poll'[q] = IF q = p THEN IdlePoll ELSE poll[q]
  BY DEF IsolationInv, TypeOK
<1>. QED
  BY <1>1, <1>2, <1>3 DEF IsolationInv, TypeOK

\* The re-scans in progress, what they cleared, and the histories have their types.
ScanTyped ==
  /\ scan \in [Scans -> [job : Jobs \cup {None}, sel : SUBSET Nat, upto : Nat]]
  /\ rows \in [Jobs -> SUBSET Nat]
  /\ scanned \in [Jobs -> Nat]
  /\ handed \subseteq Jobs
  /\ before \in [Polls -> SUBSET Jobs]

LEMMA IdleScanTyped ==
  /\ IdleScan \in [job : Jobs \cup {None}, sel : SUBSET Nat, upto : Nat]
  /\ IdleScan.sel = {} /\ IdleScan.job = None
  BY DEF IdleScan

LEMMA ScanTypedStep == TypeOK /\ [Next]_vars => ScanTyped'
<1>. SUFFICES ASSUME TypeOK, [Next]_vars PROVE ScanTyped'
  OBVIOUS
<1>. USE DEF TypeOK, ScanTyped
<1>1. CASE QueueAny \/ DeleteAny \/ UNCHANGED vars
  BY <1>1 DEF QueueAny, Queue, DeleteAny, DeleteCollector, vars, findVars, handVars
<1>2. CASE PollNext
  <2>1. PICK p \in Polls : \/ \E c \in Collectors : PollRead(p, c)
                          \/ PollCommit(p) \/ PollCommitLost(p) \/ PollAbort(p)
    BY <1>2 DEF PollNext
  <2>2. poll[p].sel \subseteq Jobs
    OBVIOUS
  <2>. QED  BY <2>1, <2>2 DEF PollRead, PollCommit, PollCommitLost, PollAbort, PollEnds,
                             findVars
<1>3. CASE SubmitNext
  <2>1. PICK s \in Submits : \/ \E c \in Collectors, j \in Jobs \cup {None} :
                                  SubmitRead(s, c, j)
                            \/ SubmitStore(s) \/ SubmitUnparsable(s) \/ SubmitDropped(s)
    BY <1>3 DEF SubmitNext
  <2>2. CASE SubmitStore(s)
    BY <2>2 DEF SubmitStore, StoreFindings, handVars
  <2>. QED  BY <2>1, <2>2 DEF SubmitRead, SubmitUnparsable, SubmitDropped, findVars,
                             handVars
<1>4. CASE RescanNext
  <2>1. PICK r \in Scans : \/ \E j \in Jobs : RescanRead(r, j)
                          \/ RescanCommit(r) \/ RescanAbort(r)
    BY <1>4 DEF RescanNext
  <2>2. CASE \E j \in Jobs : RescanRead(r, j)
    BY <2>2 DEF RescanRead, handVars
  <2>3. CASE RescanCommit(r)
    <3>1. scan[r].upto \in Nat
      OBVIOUS
    <3>. QED  BY <2>3, <3>1, IdleScanTyped DEF RescanCommit, handVars
  <2>4. CASE RescanAbort(r)
    BY <2>4, IdleScanTyped DEF RescanAbort, handVars
  <2>. QED  BY <2>1, <2>2, <2>3, <2>4
<1>. QED  BY <1>1, <1>2, <1>3, <1>4 DEF Next

\* No request, console operation or failure breaks isolation: a poll selects,
\* and a submission names, jobs of one tenant only, and a job keeps its tenant.
LEMMA IsolationStep == IsolationInv /\ [Next]_vars => IsolationInv'
<1>. SUFFICES ASSUME IsolationInv, [Next]_vars PROVE IsolationInv'
  OBVIOUS
<1>0. ScanTyped'
  BY ScanTypedStep DEF IsolationInv
<1>. USE <1>0, ScanJobsAssumption
     DEF IsolationInv, TypeOK, TenantIsolation, Statuses, ScanTyped, findVars, PollEnds
<1>1. ASSUME NEW j \in Jobs, NEW t \in Tenants, NEW c \in Collectors \cup {None},
             Queue(j, t, c)
      PROVE  IsolationInv'
  BY <1>1 DEF Queue
<1>2. ASSUME NEW c \in Collectors, DeleteCollector(c) PROVE IsolationInv'
  BY <1>2 DEF DeleteCollector
<1>3. ASSUME NEW p \in Polls, NEW c \in Collectors, PollRead(p, c)
      PROVE  IsolationInv'
  <2>0. Selectable(c) \subseteq Jobs /\ \A j \in Selectable(c) : owner[j] = TenantOf[c]
    BY DEF Selectable
  <2>1. PICK sel \in SUBSET Jobs : sel = Selectable(c) /\ \A j \in sel : owner[j] = TenantOf[c]
    BY <2>0
  <2>2. /\ poll' = [poll EXCEPT ![p] = [col |-> c, sel |-> sel]]
        /\ UNCHANGED <<live, status, owner, aim, sub, held, found, stored, losses>>
    BY <1>3, <2>1 DEF PollRead
  <2>3. c # None
    OBVIOUS
  <2>4. poll'[p].col = c /\ poll'[p].sel = sel
    BY <2>2
  <2>5. \A q \in Polls : q # p => poll'[q] = poll[q]
    BY <2>2
  <2>6. TypeOK'
    BY <2>2
  <2>7. \A q \in Polls : \A j \in poll'[q].sel : poll'[q].col \in Collectors /\ owner'[j] = TenantOf[poll'[q].col]
    <3>1. \A j \in poll'[p].sel : poll'[p].col \in Collectors /\ owner'[j] = TenantOf[poll'[p].col]
      BY <2>1, <2>2, <2>4
    <3>2. ASSUME NEW q \in Polls, q # p, NEW j \in poll'[q].sel
          PROVE  poll'[q].col \in Collectors /\ owner'[j] = TenantOf[poll'[q].col]
      BY <2>2, <2>5, <3>2
    <3>. QED  BY <3>1, <3>2
  <2>8. \A q \in Polls : poll'[q].col = None => poll'[q] = IdlePoll
    BY <2>3, <2>4, <2>5
  <2>. QED  BY <2>2, <2>6, <2>7, <2>8
<1>4. ASSUME NEW p \in Polls, PollCommit(p) PROVE IsolationInv'
  <2>1. poll' = [poll EXCEPT ![p] = IdlePoll]
    BY <1>4 DEF PollCommit
  <2>2. \A j \in poll[p].sel : owner[j] = TenantOf[poll[p].col] /\ owner[j] # None
    OBVIOUS
  <2>3. poll[p].col \in Collectors
    BY <1>4 DEF PollCommit
  <2>4. /\ status' \in [Jobs -> Statuses]
        /\ \A j \in Jobs : status'[j] = "none" <=> owner[j] = None
    BY <1>4, <2>2, <2>3 DEF PollCommit, MarkDispatched
  <2>5. /\ held' \in [Collectors -> SUBSET Jobs]
        /\ \A c \in Collectors : \A j \in held'[c] : owner[j] = TenantOf[c]
    BY <1>4, <2>2, <2>3 DEF PollCommit
  <2>6. ASSUME NEW q \in Polls, NEW j \in poll'[q].sel
        PROVE  poll'[q].col \in Collectors /\ owner[j] = TenantOf[poll'[q].col]
    BY <2>1, ClearPoll
  <2>7. /\ poll' \in [Polls -> [col : Collectors \cup {None}, sel : SUBSET Jobs]]
        /\ \A q \in Polls : poll'[q].col = None => poll'[q] = IdlePoll
    BY <2>1, ClearPoll
  <2>. QED  BY <1>4, <2>4, <2>5, <2>6, <2>7 DEF PollCommit
<1>5. ASSUME NEW p \in Polls, PollCommitLost(p) PROVE IsolationInv'
  <2>1. poll' = [poll EXCEPT ![p] = IdlePoll]
    BY <1>5 DEF PollCommitLost
  <2>2. \A j \in poll[p].sel : owner[j] = TenantOf[poll[p].col] /\ owner[j] # None
    OBVIOUS
  <2>3. poll[p].col \in Collectors
    BY <1>5 DEF PollCommitLost
  <2>4. /\ status' \in [Jobs -> Statuses]
        /\ \A j \in Jobs : status'[j] = "none" <=> owner[j] = None
    BY <1>5, <2>2, <2>3 DEF PollCommitLost, MarkDispatched
  <2>5. /\ held' \in [Collectors -> SUBSET Jobs]
        /\ \A c \in Collectors : \A j \in held'[c] : owner[j] = TenantOf[c]
    BY <1>5, <2>2, <2>3 DEF PollCommitLost
  <2>6. ASSUME NEW q \in Polls, NEW j \in poll'[q].sel
        PROVE  poll'[q].col \in Collectors /\ owner[j] = TenantOf[poll'[q].col]
    BY <2>1, ClearPoll
  <2>7. /\ poll' \in [Polls -> [col : Collectors \cup {None}, sel : SUBSET Jobs]]
        /\ \A q \in Polls : poll'[q].col = None => poll'[q] = IdlePoll
    BY <2>1, ClearPoll
  <2>. QED  BY <1>5, <2>4, <2>5, <2>6, <2>7 DEF PollCommitLost
<1>6. ASSUME NEW p \in Polls, PollAbort(p) PROVE IsolationInv'
  <2>1. poll' = [poll EXCEPT ![p] = IdlePoll]
    BY <1>6 DEF PollAbort
  <2>2. ASSUME NEW q \in Polls, NEW j \in poll'[q].sel
        PROVE  poll'[q].col \in Collectors /\ owner[j] = TenantOf[poll'[q].col]
    BY <2>1, ClearPoll
  <2>3. poll' \in [Polls -> [col : Collectors \cup {None}, sel : SUBSET Jobs]]
    BY <2>1, ClearPoll
  <2>4. \A q \in Polls : poll'[q].col = None => poll'[q] = IdlePoll
    BY <2>1, ClearPoll
  <2>. QED  BY <1>6, <2>2, <2>3, <2>4 DEF PollAbort
<1>7. ASSUME NEW s \in Submits, NEW c \in Collectors, NEW j \in Jobs \cup {None},
             SubmitRead(s, c, j)
      PROVE  IsolationInv'
  BY <1>7 DEF SubmitRead, MayReport, IdleSub
<1>8. ASSUME NEW s \in Submits, SubmitStore(s) PROVE IsolationInv'
  <2>1. PICK k, c : k = sub[s].job /\ c = sub[s].col
    OBVIOUS
  <2>2. /\ c \in Collectors /\ k \in Jobs \cup {None}
        /\ k \in Jobs => owner[k] = TenantOf[c] /\ owner[k] # None /\ status[k] # "none"
    BY <1>8, <2>1 DEF SubmitStore
  <2>3. /\ status' \in [Jobs -> Statuses]
        /\ \A j \in Jobs : status'[j] = "none" <=> owner[j] = None
    BY <1>8, <2>1, <2>2 DEF SubmitStore, SetStatus
  <2>4. /\ sub' = [sub EXCEPT ![s] = IdleSub]
        /\ UNCHANGED <<live, owner, aim, poll, held, losses>>
    BY <1>8 DEF SubmitStore
  <2>5. CASE k \in Jobs
    <3>1. /\ found' = [found EXCEPT ![TenantOf[c]] = @ \cup {k}]
          /\ stored' = [stored EXCEPT ![k] = @ + 1]
      BY <1>8, <2>1, <2>5 DEF SubmitStore, StoreFindings
    <3>2. TenantOf[c] \in Tenants /\ stored[k] + 1 \in Nat
      BY <2>2, <2>5
    <3>3. /\ found' \in [Tenants -> SUBSET Jobs] /\ stored' \in [Jobs -> Nat]
          /\ \A t \in Tenants : \A j \in found'[t] : owner[j] = t
      BY <2>2, <2>5, <3>1, <3>2
    <3>. QED  BY <2>3, <2>4, <3>3 DEF IdleSub
  <2>6. CASE k = None
    <3>1. UNCHANGED <<found, stored>>
      BY <1>8, <2>1, <2>6 DEF SubmitStore
    <3>. QED  BY <2>3, <2>4, <3>1 DEF IdleSub
  <2>. QED  BY <2>2, <2>5, <2>6
<1>9. ASSUME NEW s \in Submits, SubmitUnparsable(s) PROVE IsolationInv'
  BY <1>9 DEF SubmitUnparsable, SetStatus, IdleSub
<1>10. ASSUME NEW s \in Submits, SubmitDropped(s) PROVE IsolationInv'
  BY <1>10 DEF SubmitDropped, IdleSub
<1>11. CASE RescanNext
  BY <1>11 DEF RescanNext, RescanRead, RescanCommit, RescanAbort
<1>12. CASE UNCHANGED vars
  BY <1>12 DEF vars
<1>. QED
  BY <1>1, <1>2, <1>3, <1>4, <1>5, <1>6, <1>7, <1>8, <1>9, <1>10, <1>11, <1>12
  DEF Next, QueueAny, DeleteAny, PollNext, SubmitNext

\* The inductive invariant behind isolation.
THEOREM IsolationInvariance == Spec => []IsolationInv
  BY IsolationInit, IsolationStep, PTL DEF Spec

\* Collectors are told only of their own tenant's jobs, and findings are
\* stored under the tenant that queued the job.
THEOREM Isolation == Spec => []TenantIsolation
<1>1. IsolationInv => TenantIsolation  BY DEF IsolationInv
<1>. QED  BY <1>1, IsolationInvariance, PTL

\* Reports store findings with their status, and a re-scan clears only those
\* of reports that were there when it selected them.
LEMMA FindingsStep == IsolationInv /\ FindingsInv /\ [Next]_vars => FindingsInv'
<1>. SUFFICES ASSUME IsolationInv, FindingsInv, [Next]_vars
              PROVE  FindingsInv'
  OBVIOUS
<1>0. /\ TypeOK /\ TypeOK'
      /\ stored \in [Jobs -> Nat] /\ scanned \in [Jobs -> Nat]
      /\ rows \in [Jobs -> SUBSET Nat] /\ status \in [Jobs -> Statuses]
      /\ scan \in [Scans -> [job : Jobs \cup {None}, sel : SUBSET Nat, upto : Nat]]
      /\ \A j \in Jobs : status[j] = "done" => stored[j] > 0
      /\ \A j \in Jobs : (scanned[j] + 1) .. stored[j] \subseteq rows[j]
      /\ \A j \in Jobs : rows[j] \subseteq 1 .. stored[j]
      /\ \A r \in Scans : /\ scan[r].sel \subseteq 1 .. scan[r].upto
                          /\ scan[r].job = None => scan[r] = IdleScan
  BY IsolationStep DEF IsolationInv, TypeOK, FindingsInv, DoneHasFindings
<1>1. ASSUME UNCHANGED findVars, \A j \in Jobs : status'[j] = "done" => status[j] = "done"
      PROVE  FindingsInv'
  BY <1>0, <1>1 DEF FindingsInv, DoneHasFindings, findVars
<1>2. CASE QueueAny \/ DeleteAny \/ PollNext \/ UNCHANGED vars
  <2>1. UNCHANGED findVars
    BY <1>2 DEF QueueAny, Queue, DeleteAny, DeleteCollector, PollNext, PollRead, PollCommit,
                PollCommitLost, PollAbort, vars
  <2>2. \A j \in Jobs : status'[j] = "done" => status[j] = "done"
    BY <1>0, <1>2 DEF QueueAny, Queue, DeleteAny, DeleteCollector, PollNext, PollRead,
                      PollCommit, PollCommitLost, PollAbort, MarkDispatched, vars
  <2>. QED  BY <1>1, <2>1, <2>2
<1>3. CASE SubmitNext
  <2>0. PICK s \in Submits : \/ \E c \in Collectors, j \in Jobs \cup {None} :
                                  SubmitRead(s, c, j)
                             \/ SubmitStore(s) \/ SubmitUnparsable(s) \/ SubmitDropped(s)
    BY <1>3 DEF SubmitNext
  <2>1. CASE \/ \E c \in Collectors, j \in Jobs \cup {None} : SubmitRead(s, c, j)
             \/ SubmitUnparsable(s) \/ SubmitDropped(s)
    BY <1>0, <1>1, <2>1 DEF SubmitRead, SubmitUnparsable, SubmitDropped, SetStatus
  <2>2. CASE SubmitStore(s) /\ sub[s].job \notin Jobs
    BY <1>0, <1>1, <2>2 DEF SubmitStore, SetStatus, findVars, IsolationInv
  <2>3. CASE SubmitStore(s) /\ sub[s].job \in Jobs
    <3>1. PICK k \in Jobs, n \in Nat : k = sub[s].job /\ n = stored[k]
      BY <1>0, <2>3
    <3>2. k # None
      BY ScanJobsAssumption
    <3>3. /\ stored'[k] = n + 1 /\ rows'[k] = rows[k] \cup {n + 1}
          /\ \A j \in Jobs : j # k => /\ stored'[j] = stored[j] /\ rows'[j] = rows[j]
                                      /\ status'[j] = status[j]
          /\ scanned' = scanned /\ scan' = scan
      BY <1>0, <2>3, <3>1, <3>2 DEF SubmitStore, StoreFindings, SetStatus
    <3>4. \A j \in Jobs : status'[j] = "done" => stored'[j] > 0
      <4>1. n + 1 > 0
        BY <3>1
      <4>. QED  BY <1>0, <3>3, <4>1
    <3>5. PICK m \in Nat : m = scanned[k]
      BY <1>0
    <3>6. /\ (m + 1) .. n \subseteq rows[k] /\ rows[k] \subseteq 1 .. n
      BY <1>0, <3>1, <3>5
    <3>7. (m + 1) .. (n + 1) \subseteq rows'[k] /\ rows'[k] \subseteq 1 .. (n + 1)
      BY <3>1, <3>3, <3>5, <3>6
    <3>8. \A j \in Jobs : /\ (scanned'[j] + 1) .. stored'[j] \subseteq rows'[j]
                          /\ rows'[j] \subseteq 1 .. stored'[j]
      BY <1>0, <3>3, <3>5, <3>7
    <3>9. \A r \in Scans : /\ scan'[r].sel \subseteq 1 .. scan'[r].upto
                           /\ scan'[r].job = None => scan'[r] = IdleScan
      BY <1>0, <3>3
    <3>. QED  BY <3>4, <3>8, <3>9 DEF FindingsInv, DoneHasFindings
  <2>. QED  BY <2>0, <2>1, <2>2, <2>3
<1>4. CASE RescanNext
  <2>0. PICK r \in Scans : \/ \E j \in Jobs : RescanRead(r, j)
                           \/ RescanCommit(r) \/ RescanAbort(r)
    BY <1>4 DEF RescanNext
  <2>1. CASE \E j \in Jobs : RescanRead(r, j)
    <3>1. PICK j \in Jobs : RescanRead(r, j)
      BY <2>1
    <3>2. /\ scan'[r] = [job |-> j, sel |-> rows[j], upto |-> stored[j]]
          /\ \A q \in Scans \ {r} : scan'[q] = scan[q]
          /\ UNCHANGED <<status, stored, rows, scanned>>
      BY <1>0, <3>1 DEF RescanRead
    <3>3. j # None /\ rows[j] \subseteq 1 .. stored[j]
      BY <1>0, ScanJobsAssumption
    <3>4. \A q \in Scans : /\ scan'[q].sel \subseteq 1 .. scan'[q].upto
                           /\ scan'[q].job = None => scan'[q] = IdleScan
      BY <1>0, <3>2, <3>3
    <3>. QED  BY <1>0, <3>2, <3>4 DEF FindingsInv, DoneHasFindings
  <2>2. CASE RescanCommit(r)
    <3>1. scan[r].job \in Jobs
      BY <1>0, <2>2 DEF RescanCommit
    <3>2. PICK k \in Jobs, n \in Nat, m \in Nat, sel \in SUBSET Nat, top \in Nat :
            /\ k = scan[r].job /\ n = scan[r].upto /\ m = scanned[k]
            /\ sel = scan[r].sel /\ top = stored[k]
      BY <1>0, <3>1
    <3>3. /\ scan' = [scan EXCEPT ![r] = IdleScan]
          /\ rows' = [rows EXCEPT ![k] = @ \ sel]
          /\ scanned' = [scanned EXCEPT ![k] = IF @ < n THEN n ELSE @]
          /\ UNCHANGED <<status, stored>>
      BY <2>2, <3>2 DEF RescanCommit
    <3>4. PICK high \in Nat : high = (IF m < n THEN n ELSE m)
      OBVIOUS
    <3>5. /\ rows'[k] = rows[k] \ sel /\ scanned'[k] = high
          /\ \A j \in Jobs : j # k => rows'[j] = rows[j] /\ scanned'[j] = scanned[j]
      BY <1>0, <3>2, <3>3, <3>4
    <3>6. /\ sel \subseteq 1 .. n /\ (m + 1) .. top \subseteq rows[k]
          /\ rows[k] \subseteq 1 .. top
      BY <1>0, <3>2
    <3>7. ASSUME NEW i \in (high + 1) .. top PROVE i \in rows[k] \ sel
      <4>1. i \in Nat /\ i > n /\ i \in (m + 1) .. top
        BY <3>2, <3>4
      <4>2. i \notin sel
        BY <3>2, <3>6, <4>1
      <4>. QED  BY <3>6, <4>1, <4>2
    <3>8. \A j \in Jobs : /\ (scanned'[j] + 1) .. stored'[j] \subseteq rows'[j]
                          /\ rows'[j] \subseteq 1 .. stored'[j]
      BY <1>0, <3>2, <3>3, <3>5, <3>6, <3>7
    <3>9. \A q \in Scans : /\ scan'[q].sel \subseteq 1 .. scan'[q].upto
                           /\ scan'[q].job = None => scan'[q] = IdleScan
      BY <1>0, <3>3, IdleScanTyped
    <3>10. \A j \in Jobs : status'[j] = "done" => stored'[j] > 0
      BY <1>0, <3>3
    <3>. QED  BY <3>8, <3>9, <3>10 DEF FindingsInv, DoneHasFindings
  <2>3. CASE RescanAbort(r)
    <3>1. \A q \in Scans : /\ scan'[q].sel \subseteq 1 .. scan'[q].upto
                           /\ scan'[q].job = None => scan'[q] = IdleScan
      BY <1>0, <2>3, IdleScanTyped DEF RescanAbort
    <3>. QED  BY <1>0, <2>3, <3>1 DEF RescanAbort, FindingsInv, DoneHasFindings
  <2>. QED  BY <2>0, <2>1, <2>2, <2>3
<1>. QED  BY <1>2, <1>3, <1>4 DEF Next

\* submit_results writes findings and status in one commit: a job shown as done
\* has its findings, and only a re-scan of the connector with its number
\* (connectors.py) can have cleared them, if the reports were there when it
\* selected what to clear.
THEOREM DoneIsDone == Spec => []DoneHasFindings
<1>1. Init => FindingsInv
  BY IdleScanTyped DEF Init, FindingsInv, DoneHasFindings
<1>2. FindingsInv => DoneHasFindings
  BY DEF FindingsInv
<1>. QED  BY <1>1, <1>2, FindingsStep, IsolationInvariance, PTL DEF Spec

\* A job handed out is never pending again, so no later poll selects it.
LEMMA HandedStep == IsolationInv /\ HandedInv /\ [Next]_vars => HandedInv'
<1>. SUFFICES ASSUME IsolationInv, HandedInv, [Next]_vars PROVE HandedInv'
  OBVIOUS
<1>0. /\ status \in [Jobs -> Statuses] /\ handed \subseteq Jobs
      /\ poll \in [Polls -> [col : Collectors \cup {None}, sel : SUBSET Jobs]]
      /\ before \in [Polls -> SUBSET Jobs]
      /\ \A p \in Polls : poll[p].sel \cap before[p] = {}
      /\ \A j \in handed : status[j] \notin {"none", "pending"}
  BY DEF IsolationInv, TypeOK, HandedInv, HandedOutOnce
<1>1. ASSUME UNCHANGED <<poll, handVars>>,
             \A j \in Jobs : status[j] \notin {"none", "pending"} =>
               status'[j] \notin {"none", "pending"}
      PROVE  HandedInv'
  BY <1>0, <1>1 DEF HandedInv, HandedOutOnce, handVars
<1>2. CASE QueueAny \/ DeleteAny \/ RescanNext \/ UNCHANGED vars
  <2>1. UNCHANGED <<poll, handVars>>
    BY <1>2 DEF QueueAny, Queue, DeleteAny, DeleteCollector, RescanNext, RescanRead,
                RescanCommit, RescanAbort, vars
  <2>2. \A j \in Jobs : status[j] \notin {"none", "pending"} =>
          status'[j] \notin {"none", "pending"}
    BY <1>0, <1>2 DEF QueueAny, Queue, DeleteAny, DeleteCollector, RescanNext, RescanRead,
                      RescanCommit, RescanAbort, vars
  <2>. QED  BY <1>1, <2>1, <2>2
<1>3. CASE SubmitNext
  <2>1. UNCHANGED <<poll, handVars>>
    BY <1>3 DEF SubmitNext, SubmitRead, SubmitStore, SubmitUnparsable, SubmitDropped
  <2>2. \A j \in Jobs : status[j] \notin {"none", "pending"} =>
          status'[j] \notin {"none", "pending"}
    BY <1>0, <1>3 DEF SubmitNext, SubmitRead, SubmitStore, SubmitUnparsable, SubmitDropped,
                      SetStatus
  <2>. QED  BY <1>1, <2>1, <2>2
<1>4. ASSUME NEW p \in Polls, NEW c \in Collectors, PollRead(p, c) PROVE HandedInv'
  <2>1. /\ poll'[p].sel = Selectable(c) /\ before'[p] = handed
        /\ \A q \in Polls \ {p} : poll'[q] = poll[q] /\ before'[q] = before[q]
        /\ UNCHANGED <<status, handed>>
    BY <1>0, <1>4 DEF PollRead
  <2>2. Selectable(c) \cap handed = {}
    BY <1>0 DEF Selectable
  <2>. QED  BY <1>0, <2>1, <2>2 DEF HandedInv, HandedOutOnce
<1>5. ASSUME NEW p \in Polls, NEW sel \in SUBSET Jobs, PollEnds(p, sel),
             \A j \in Jobs : status[j] \notin {"none", "pending"} =>
               status'[j] \notin {"none", "pending"},
             \A j \in sel : status'[j] \notin {"none", "pending"}
      PROVE  HandedInv'
  <2>1. /\ poll'[p].sel = {} /\ handed' = handed \cup sel
        /\ \A q \in Polls \ {p} : poll'[q] = poll[q] /\ before'[q] = before[q]
    BY <1>0, <1>5 DEF PollEnds, IdlePoll
  <2>. QED  BY <1>0, <1>5, <2>1 DEF HandedInv, HandedOutOnce
<1>6. ASSUME NEW p \in Polls, PollCommit(p) \/ PollCommitLost(p) PROVE HandedInv'
  <2>1. poll[p].sel \in SUBSET Jobs
    BY <1>0
  <2>2. PollEnds(p, poll[p].sel) /\ status' = MarkDispatched(p)
    BY <1>6 DEF PollCommit, PollCommitLost
  <2>3. \A j \in Jobs : status'[j] = IF j \in poll[p].sel THEN "dispatched" ELSE status[j]
    BY <2>2 DEF MarkDispatched
  <2>. QED  BY <1>5, <2>1, <2>2, <2>3
<1>7. ASSUME NEW p \in Polls, PollAbort(p) PROVE HandedInv'
  BY <1>5, <1>7 DEF PollAbort
<1>. QED  BY <1>2, <1>3, <1>4, <1>6, <1>7 DEF Next, PollNext

\* poll_jobs marks what it hands out: no poll hands out a job that was handed
\* out before its query, for any number of collectors, polls and reports.
THEOREM HandedOut == Spec => []HandedOutOnce
<1>1. Init => HandedInv
  BY DEF Init, HandedInv, HandedOutOnce, IdlePoll
<1>2. HandedInv => HandedOutOnce
  BY DEF HandedInv
<1>. QED  BY <1>1, <1>2, HandedStep, IsolationInvariance, PTL DEF Spec
=============================================================================
