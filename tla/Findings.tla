------------------------------ MODULE Findings ------------------------------
(***************************************************************************)
(* Findings (governance_events) and the tickets raised from them, for one  *)
(* tenant.  Three handlers meet here: the background scan of a connector,  *)
(* which replaces the connector's open findings (_run_scan, connectors.py),*)
(* create_ticket (tickets.py), which reads a finding, counts the tickets   *)
(* and commits twice, and the collector's submit_results, which stores     *)
(* findings with the job's id in the connector_id column.                  *)
(*                                                                         *)
(* Left out: what a finding says, its severity and control mappings, the   *)
(* credentials, and the WebSocket broadcast after the scan's commit.       *)
(***************************************************************************)
EXTENDS Naturals, FiniteSets

CONSTANTS
  Conns,       \* connector ids
  Real,        \* the connectors with a scanner; the others are simulated
  JobIds,      \* scan job ids; connector ids and job ids are both numbers
  Events,      \* ids of findings, each used once
  Tickets,     \* ids of tickets, each used once
  Scans,       \* slots for background scans in progress
  Drafts,      \* slots for create_ticket requests in progress
  MaxCrashes,  \* bound: stops of the backend
  EnforceFK,   \* does the database enforce foreign keys (PostgreSQL does)?
  None

ASSUME FindingsAssumption ==
  /\ Real \subseteq Conns
  /\ MaxCrashes \in Nat
  /\ EnforceFK \in BOOLEAN
  /\ IsFiniteSet(Tickets)
  /\ None \notin Conns \cup JobIds \cup Events \cup Tickets

VARIABLES
  conn,        \* Connector.status, or "absent" before it is added, "removed" after
  interrupted, \* connectors with a scan that stopped without a last commit
  status,      \* GovernanceEvent.status, "new" before it is stored, "gone" after
  col,         \* GovernanceEvent.connector_id
  from,        \* history: "scan" or "job", where the finding came from
  batch,       \* history: the findings stored in the same commit
  link,        \* GovernanceEvent.ticket_id
  raised,      \* raised[k]: Ticket.event_id of ticket k, None if k is unused
  ref,         \* ref[k]: the number in Ticket.ref
  counted,     \* history: the tickets that were there when k's request counted
  scan,        \* scan[s]: how far the scan is, its connector, what it will delete
  draft,       \* draft[d]: how far the request is, and what it has read
  saw,         \* history: the tickets that were there when d counted
  crashes

evVars   == <<status, col, from, batch, link>>
tickVars == <<raised, ref, counted>>
reqVars  == <<draft, saw>>
vars == <<conn, interrupted, status, col, from, batch, link, raised, ref, counted,
          scan, draft, saw, crashes>>

ConnStates == {"absent", "connected", "scanning", "error", "removed"}
EvStates   == {"new", "open", "ticketed", "gone"}
IdleScan   == [pc |-> "idle", conn |-> None, prior |-> {}]
IdleDraft  == [pc |-> "idle", ev |-> None, seen |-> "new", seenLink |-> None,
               count |-> 0, ticket |-> None]

Exists(c)   == conn[c] \notin {"absent", "removed"}
Stored(e)   == status[e] \in {"open", "ticketed"}
Unused      == {e \in Events : status[e] = "new"}
Issued      == {k \in Tickets : raised[k] # None}

TypeOK ==
  /\ conn \in [Conns -> ConnStates]
  /\ interrupted \subseteq Conns
  /\ status \in [Events -> EvStates]
  /\ col \in [Events -> Conns \cup JobIds \cup {None}]
  /\ from \in [Events -> {"scan", "job", None}]
  /\ batch \in [Events -> SUBSET Events]
  /\ link \in [Events -> Tickets \cup {None}]
  /\ raised \in [Tickets -> Events \cup {None}]
  /\ ref \in [Tickets -> Nat]
  /\ counted \in [Tickets -> SUBSET Tickets]
  /\ scan \in [Scans -> [pc : {"idle", "running", "read"},
                         conn : Conns \cup {None}, prior : SUBSET Events]]
  /\ draft \in [Drafts -> [pc : {"idle", "read", "counted", "saved"},
                           ev : Events \cup {None}, seen : EvStates,
                           seenLink : Tickets \cup {None}, count : Nat,
                           ticket : Tickets \cup {None}]]
  /\ saw \in [Drafts -> SUBSET Tickets]
  /\ crashes \in Nat

Init ==
  /\ conn = [c \in Conns |-> "absent"]
  /\ interrupted = {}
  /\ status = [e \in Events |-> "new"]
  /\ col = [e \in Events |-> None]
  /\ from = [e \in Events |-> None]
  /\ batch = [e \in Events |-> {}]
  /\ link = [e \in Events |-> None]
  /\ raised = [k \in Tickets |-> None]
  /\ ref = [k \in Tickets |-> 0]
  /\ counted = [k \in Tickets |-> {}]
  /\ scan = [s \in Scans |-> IdleScan]
  /\ draft = [d \in Drafts |-> IdleDraft]
  /\ saw = [d \in Drafts |-> {}]
  /\ crashes = 0
-----------------------------------------------------------------------------
(***************************************************************************)
(* Connectors and their scans.                                             *)
(***************************************************************************)

AddConnector(c) ==
  /\ conn[c] = "absent"
  /\ conn' = [conn EXCEPT ![c] = "connected"]
  /\ UNCHANGED <<interrupted, evVars, tickVars, scan, reqVars, crashes>>

\* The tickets carry the connector_id of their finding.
RemoveConnector(c) ==
  /\ Exists(c)
  /\ EnforceFK => \A e \in Events :
       col[e] = c => ~Stored(e) /\ \A k \in Tickets : raised[k] # e
  /\ conn' = [conn EXCEPT ![c] = "removed"]
  /\ UNCHANGED <<interrupted, evVars, tickVars, scan, reqVars, crashes>>

\* New findings n, for the connector_id id.
Insert(n, id, origin) ==
  /\ n \subseteq Unused
  /\ col' = [e \in Events |-> IF e \in n THEN id ELSE col[e]]
  /\ from' = [e \in Events |-> IF e \in n THEN origin ELSE from[e]]
  /\ batch' = [e \in Events |-> IF e \in n THEN n ELSE batch[e]]
  /\ UNCHANGED link

\* Set the findings n open and delete those of old.
Replace(old, n) ==
  status' = [e \in Events |-> IF e \in old THEN "gone"
                              ELSE IF e \in n THEN "open" ELSE status[e]]

\* A simulated connector: findings are added, nothing is cleared.
SimulatedScan(c, n) ==
  /\ c \notin Real /\ Exists(c)
  /\ Insert(n, c, "scan")
  /\ Replace({}, n)
  /\ UNCHANGED <<conn, interrupted, tickVars, scan, reqVars, crashes>>

\* The background task starts: status "scanning" is committed.
ScanStart(s, c) ==
  /\ scan[s] = IdleScan
  /\ c \in Real /\ Exists(c)
  /\ conn' = [conn EXCEPT ![c] = "scanning"]
  /\ interrupted' = interrupted \ {c}
  /\ scan' = [scan EXCEPT ![s] = [pc |-> "running", conn |-> c, prior |-> {}]]
  /\ UNCHANGED <<evVars, tickVars, reqVars, crashes>>

\* Mutant: nothing is cleared.
PriorNone(c) == {}

\* The open findings with this connector_id, whoever stored them.
Prior(c) == {e \in Events : status[e] = "open" /\ col[e] = c}

\* The scanner has returned; the findings to clear are selected.
ScanRead(s) ==
  /\ scan[s].pc = "running"
  /\ scan' = [scan EXCEPT ![s].pc = "read", ![s].prior = Prior(scan[s].conn)]
  /\ UNCHANGED <<conn, interrupted, evVars, tickVars, reqVars, crashes>>

\* Mutant: the handler of the exception forgets the status.
FailedSame(c) == conn

Failed(c) == IF Exists(c) THEN [conn EXCEPT ![c] = "error"] ELSE conn

\* The scanner raises.
ScanFails(s) ==
  /\ scan[s].pc = "running"
  /\ conn' = Failed(scan[s].conn)
  /\ scan' = [scan EXCEPT ![s] = IdleScan]
  /\ UNCHANGED <<interrupted, evVars, tickVars, reqVars, crashes>>

\* A ticket's event_id is a foreign key: its finding cannot be deleted.
Undeletable(s) == EnforceFK /\ \E e \in scan[s].prior, k \in Tickets : raised[k] = e

\* One commit: the prior findings go, whatever their status is by now, and
\* the new ones come.
ScanCommit(s, n) ==
  /\ scan[s].pc = "read"
  /\ Exists(scan[s].conn) /\ ~Undeletable(s)
  /\ Insert(n, scan[s].conn, "scan")
  /\ Replace(scan[s].prior, n)
  /\ conn' = [conn EXCEPT ![scan[s].conn] = "connected"]
  /\ scan' = [scan EXCEPT ![s] = IdleScan]
  /\ UNCHANGED <<interrupted, tickVars, reqVars, crashes>>

\* The commit fails, outside the try: the status stays as it was committed.
ScanRefused(s) ==
  /\ scan[s].pc = "read"
  /\ ~Exists(scan[s].conn) \/ Undeletable(s)
  /\ interrupted' = interrupted \cup {scan[s].conn}
  /\ scan' = [scan EXCEPT ![s] = IdleScan]
  /\ UNCHANGED <<conn, evVars, tickVars, reqVars, crashes>>
-----------------------------------------------------------------------------
\* The collector's submit_results: j = None is a result without a job, stored
\* with connector_id 0, which no connector has.
Ingest(j, n) ==
  /\ EnforceFK /\ n # {} => j \in Conns /\ Exists(j)
  /\ Insert(n, j, "job")
  /\ Replace({}, n)
  /\ UNCHANGED <<conn, interrupted, tickVars, scan, reqVars, crashes>>
-----------------------------------------------------------------------------
(***************************************************************************)
(* create_ticket.                                                          *)
(***************************************************************************)

\* The finding is looked up; its status is not looked at.
DraftRead(d, e) ==
  /\ draft[d] = IdleDraft
  /\ Stored(e)
  /\ draft' = [draft EXCEPT ![d] = [IdleDraft EXCEPT !.pc = "read", !.ev = e,
                                      !.seen = status[e], !.seenLink = link[e]]]
  /\ UNCHANGED <<conn, interrupted, evVars, tickVars, scan, saw, crashes>>

\* Mutant: the number of findings linked to a ticket.
CountFindings == Cardinality({e \in Events : link[e] # None})

CountTickets == Cardinality(Issued)

DraftCount(d) ==
  /\ draft[d].pc = "read"
  /\ draft' = [draft EXCEPT ![d].pc = "counted", ![d].count = CountTickets]
  /\ saw' = [saw EXCEPT ![d] = Issued]
  /\ UNCHANGED <<conn, interrupted, evVars, tickVars, scan, crashes>>

\* Only a column whose value differs from what was read is written, and a row
\* that is to be written must be there.
Writes(d)    == draft[d].seen # "ticketed" \/ draft[d].seenLink # None
RowsThere(d) == Writes(d) \/ EnforceFK => Stored(draft[d].ev)

\* Mutant: the row is not added.
AddTicketNot(d, k) == UNCHANGED tickVars

AddTicket(d, k) ==
  /\ raised' = [raised EXCEPT ![k] = draft[d].ev]
  /\ ref' = [ref EXCEPT ![k] = draft[d].count + 1]
  /\ counted' = [counted EXCEPT ![k] = saw[d]]

\* Mutant: the finding stays open until the second commit.
MarkTicketedNot(d) == UNCHANGED status

MarkTicketed(d) ==
  status' = IF draft[d].seen # "ticketed"
            THEN [status EXCEPT ![draft[d].ev] = "ticketed"] ELSE status

\* The first commit: ticket, finding and audit entry.
DraftCommit(d, k) ==
  /\ draft[d].pc = "counted"
  /\ k \notin Issued
  /\ RowsThere(d)
  /\ AddTicket(d, k)
  /\ MarkTicketed(d)
  /\ link' = IF draft[d].seenLink # None
             THEN [link EXCEPT ![draft[d].ev] = None] ELSE link
  /\ draft' = [draft EXCEPT ![d].pc = "saved", ![d].ticket = k]
  /\ saw' = [saw EXCEPT ![d] = {}]
  /\ UNCHANGED <<conn, interrupted, col, from, batch, scan, crashes>>

\* Mutant: the link is to the ticket with the number, not to the new row.
LinkTargetByRef(d) == CHOOSE k \in Issued : ref[k] = draft[d].count + 1

LinkTarget(d) == draft[d].ticket

\* The second commit; the UPDATE of a finding that is gone is an error.
DraftLink(d) ==
  /\ draft[d].pc = "saved"
  /\ Stored(draft[d].ev)
  /\ link' = [link EXCEPT ![draft[d].ev] = LinkTarget(d)]
  /\ draft' = [draft EXCEPT ![d] = IdleDraft]
  /\ UNCHANGED <<conn, interrupted, status, col, from, batch, tickVars, scan, saw,
                 crashes>>

\* 500: the row the commit is to update, or to refer to, is gone.
DraftRefused(d) ==
  /\ \/ draft[d].pc = "counted" /\ ~RowsThere(d)
     \/ draft[d].pc = "saved" /\ ~Stored(draft[d].ev)
  /\ draft' = [draft EXCEPT ![d] = IdleDraft]
  /\ saw' = [saw EXCEPT ![d] = {}]
  /\ UNCHANGED <<conn, interrupted, evVars, tickVars, scan, crashes>>
-----------------------------------------------------------------------------
\* The backend stops: requests and background tasks are forgotten.
Crash ==
  /\ crashes < MaxCrashes
  /\ crashes' = crashes + 1
  /\ interrupted' = interrupted \cup ({scan[s].conn : s \in Scans} \ {None})
  /\ scan' = [s \in Scans |-> IdleScan]
  /\ draft' = [d \in Drafts |-> IdleDraft]
  /\ saw' = [d \in Drafts |-> {}]
  /\ UNCHANGED <<conn, evVars, tickVars>>

ConnNext == \E c \in Conns : \/ AddConnector(c)
                             \/ RemoveConnector(c)
                             \/ \E n \in SUBSET Unused : SimulatedScan(c, n)
ScanNext == \E s \in Scans : \/ \E c \in Conns : ScanStart(s, c)
                             \/ ScanRead(s)
                             \/ ScanFails(s)
                             \/ \E n \in SUBSET Unused : ScanCommit(s, n)
                             \/ ScanRefused(s)
IngestNext == \E j \in JobIds \cup {None}, n \in SUBSET Unused : Ingest(j, n)
DraftNext == \E d \in Drafts : \/ \E e \in Events : DraftRead(d, e)
                               \/ DraftCount(d)
                               \/ \E k \in Tickets : DraftCommit(d, k)
                               \/ DraftLink(d)
                               \/ DraftRefused(d)

Next == ConnNext \/ ScanNext \/ IngestNext \/ DraftNext \/ Crash

Spec == Init /\ [][Next]_vars

\* A background scan goes on until it ends.
Fairness ==
  \A s \in Scans :
    /\ WF_vars(ScanRead(s) \/ ScanFails(s))
    /\ WF_vars((\E n \in SUBSET Unused : ScanCommit(s, n)) \/ ScanRefused(s))

FairSpec == Spec /\ Fairness
-----------------------------------------------------------------------------
(***************************************************************************)
(* Properties.                                                             *)
(***************************************************************************)

\* A finding that counts as ticketed, and so no longer against a control, has
\* a ticket: no overlap of requests, scans and stops hides a finding.
TicketedHasTicket ==
  \A e \in Events : status[e] = "ticketed" => \E k \in Tickets : raised[k] = e

\* The link of a finding leads to a ticket that was raised from it.
LinksAgree ==
  \A e \in Events : link[e] # None => raised[link[e]] = e

\* "Ticketed events preserved": the finding of a ticket stays, as ticketed.
TicketsKeepFinding ==
  \A k \in Tickets : raised[k] # None => status[raised[k]] = "ticketed"

\* "A re-scan reflects current state rather than accumulating duplicates":
\* the open findings of a scanned connector come from one scan.
OneScanShown ==
  \A e, f \in Events :
    /\ status[e] = "open" /\ status[f] = "open"
    /\ from[e] = "scan" /\ from[f] = "scan"
    /\ col[e] = col[f] /\ col[e] \in Real
    => batch[e] = batch[f]

\* Ticket numbers, SECOPS-0001, SECOPS-0002, ..., rise: a ticket's number is
\* above that of every ticket whose commit came before its request counted
\* them, whatever requests, scans and stops came between.  So two tickets get
\* one number (no constraint of the table forbids it) only from requests that
\* overlapped.
NumbersRise ==
  \A k, l \in Issued : l \in counted[k] => ref[l] < ref[k]

\* A connector does not stay "scanning", unless its scan was cut short.
ScanningEnds ==
  \A c \in Conns : conn[c] = "scanning" ~> (conn[c] # "scanning" \/ c \in interrupted)

\* What makes TicketsKeepFinding inductive where foreign keys are enforced.
TicketInv ==
  /\ TypeOK
  /\ TicketedHasTicket
  /\ LinksAgree
  /\ \A d \in Drafts : draft[d].pc \in {"read", "counted"} =>
       draft[d].ev \in Events /\ draft[d].seen \in {"open", "ticketed"}
  /\ \A d \in Drafts : draft[d].pc = "saved" =>
       draft[d].ticket \in Tickets /\ raised[draft[d].ticket] = draft[d].ev
         /\ draft[d].ev \in Events
  /\ \A d \in Drafts : draft[d].pc \in {"read", "counted"} /\ draft[d].seen = "ticketed" =>
       \E k \in Tickets : raised[k] = draft[d].ev
  /\ \A s \in Scans : scan[s].pc # "idle" => scan[s].conn \in Conns
  /\ \A s \in Scans : scan[s].pc # "read" => scan[s].prior = {}
  /\ EnforceFK => TicketsKeepFinding
=============================================================================
