-------------------------- MODULE Findings_proofs --------------------------
(***************************************************************************)
(* Proofs about Findings for any connectors, findings, tickets and number  *)
(* of overlapping scans and requests, with and without foreign keys: what  *)
(* is ticketed has a ticket, and links are right; a ticket's number *)
(* is above those its request counted; with foreign keys, a ticket's       *)
(* finding is never deleted or reopened; with a single scan slot, a        *)
(* re-scan replaces what it showed.                                        *)
(***************************************************************************)
EXTENDS Findings, FiniteSetTheorems, TLAPS

LEMMA TicketInit == Init => TicketInv
  BY FindingsAssumption
  DEF Init, TicketInv, TypeOK, TicketedHasTicket, LinksAgree, TicketsKeepFinding,
      ConnStates, EvStates, IdleScan, IdleDraft

\* The idle records have their types.
LEMMA IdleTyped ==
  /\ IdleScan \in [pc : {"idle", "running", "read"}, conn : Conns \cup {None},
                   prior : SUBSET Events]
  /\ IdleScan.pc = "idle" /\ IdleScan.prior = {}
  /\ IdleDraft \in [pc : {"idle", "read", "counted", "saved"},
                    ev : Events \cup {None}, seen : EvStates,
                    seenLink : Tickets \cup {None}, count : Nat,
                    ticket : Tickets \cup {None}]
  /\ IdleDraft.pc = "idle"
  BY DEF IdleScan, IdleDraft, EvStates

\* New findings are open and leave the others and their links alone.
LEMMA InsertFacts ==
  ASSUME TypeOK, NEW n, NEW old \in SUBSET Events,
         NEW id \in Conns \cup JobIds \cup {None}, NEW origin \in {"scan", "job"},
         Insert(n, id, origin), Replace(old, n)
  PROVE  /\ status' \in [Events -> EvStates]
         /\ col' \in [Events -> Conns \cup JobIds \cup {None}]
         /\ from' \in [Events -> {"scan", "job", None}]
         /\ batch' \in [Events -> SUBSET Events]
         /\ link' = link
         /\ n \subseteq Events /\ \A e \in n : status[e] = "new"
         /\ \A e \in Events : status'[e] = IF e \in old THEN "gone"
                              ELSE IF e \in n THEN "open" ELSE status[e]
  BY DEF TypeOK, Insert, Replace, Unused, EvStates

\* Tickets are counted by a number.
LEMMA CountNat == CountTickets \in Nat
  BY FindingsAssumption, FS_CardinalityType, FS_Subset DEF CountTickets, Issued

\* A step that moves or ends scans, and stores or clears findings that have no
\* ticket under foreign keys, keeps the invariant.
LEMMA ScanPart ==
  ASSUME TicketInv,
         conn' \in [Conns -> ConnStates], interrupted' \subseteq Conns,
         crashes' \in Nat, UNCHANGED <<tickVars, reqVars>>,
         scan' \in [Scans -> [pc : {"idle", "running", "read"},
                              conn : Conns \cup {None}, prior : SUBSET Events]],
         \A s \in Scans : scan'[s].pc # "idle" => scan'[s].conn \in Conns,
         \A s \in Scans : scan'[s].pc # "read" => scan'[s].prior = {},
         UNCHANGED evVars
           \/ \E n, old \in SUBSET Events, id \in Conns \cup JobIds \cup {None},
                origin \in {"scan", "job"} :
               /\ Insert(n, id, origin) /\ Replace(old, n)
               /\ EnforceFK => \A e \in old, k \in Tickets : raised[k] # e
  PROVE  TicketInv'
<1>1. /\ status' \in [Events -> EvStates]
      /\ col' \in [Events -> Conns \cup JobIds \cup {None}]
      /\ from' \in [Events -> {"scan", "job", None}]
      /\ batch' \in [Events -> SUBSET Events]
      /\ link' = link
  <2>1. CASE UNCHANGED evVars
    BY <2>1 DEF evVars, TicketInv, TypeOK
  <2>2. CASE ~UNCHANGED evVars
    BY <2>2, InsertFacts DEF TicketInv
  <2>. QED  BY <2>1, <2>2
<1>2. \A e \in Events : status'[e] = "ticketed" => status[e] = "ticketed"
  <2>1. CASE UNCHANGED evVars
    BY <2>1 DEF evVars
  <2>2. CASE ~UNCHANGED evVars
    BY <2>2, InsertFacts DEF TicketInv
  <2>. QED  BY <2>1, <2>2
<1>3. EnforceFK => \A k \in Tickets : raised[k] # None =>
                     status'[raised[k]] = "ticketed"
  <2>1. CASE UNCHANGED evVars
    BY <2>1 DEF evVars, TicketInv, TicketsKeepFinding
  <2>2. CASE ~UNCHANGED evVars
    <3>1. PICK n, old \in SUBSET Events, id \in Conns \cup JobIds \cup {None},
               origin \in {"scan", "job"} :
               /\ Insert(n, id, origin) /\ Replace(old, n)
               /\ EnforceFK => \A e \in old, k \in Tickets : raised[k] # e
      BY <2>2
    <3>2. /\ \A e \in n : status[e] = "new"
          /\ \A e \in Events : status'[e] = IF e \in old THEN "gone"
                               ELSE IF e \in n THEN "open" ELSE status[e]
      BY <3>1, InsertFacts DEF TicketInv
    <3>3. \A k \in Tickets : raised[k] # None => raised[k] \in Events
      BY DEF TicketInv, TypeOK
    <3>. QED  BY <3>1, <3>2, <3>3 DEF TicketInv, TicketsKeepFinding
  <2>. QED  BY <2>1, <2>2
<1>0. UNCHANGED <<raised, ref, counted, draft, saw>>
  BY DEF tickVars, reqVars
<1>4. TypeOK'
  BY <1>0, <1>1 DEF TicketInv, TypeOK
<1>5. TicketedHasTicket' /\ LinksAgree' /\ (EnforceFK => TicketsKeepFinding)'
  BY <1>0, <1>1, <1>2, <1>3
  DEF TicketInv, TicketedHasTicket, LinksAgree, TicketsKeepFinding
<1>. QED  BY <1>0, <1>4, <1>5 DEF TicketInv

LEMMA ConnStep == TicketInv /\ ConnNext => TicketInv'
<1>. SUFFICES ASSUME TicketInv, NEW c \in Conns,
                     \/ AddConnector(c)
                     \/ RemoveConnector(c)
                     \/ \E n \in SUBSET Unused : SimulatedScan(c, n)
              PROVE  TicketInv'
  BY DEF ConnNext
<1>. USE DEF TicketInv, TypeOK
<1>1. CASE AddConnector(c) \/ RemoveConnector(c)
  BY <1>1, ScanPart DEF AddConnector, RemoveConnector, ConnStates
<1>2. CASE \E n \in SUBSET Unused : SimulatedScan(c, n)
  <2>1. PICK n \in SUBSET Unused : SimulatedScan(c, n)
    BY <1>2
  <2>2. n \in SUBSET Events /\ {} \in SUBSET Events
    BY DEF Unused
  <2>3. Insert(n, c, "scan") /\ Replace({}, n)
    BY <2>1 DEF SimulatedScan
  <2>4. \E m, old \in SUBSET Events, id \in Conns \cup JobIds \cup {None},
           origin \in {"scan", "job"} :
          /\ Insert(m, id, origin) /\ Replace(old, m)
          /\ EnforceFK => \A e \in old, k \in Tickets : raised[k] # e
    BY <2>2, <2>3
  <2>. QED  BY <2>1, <2>4, ScanPart DEF SimulatedScan
<1>. QED  BY <1>1, <1>2

LEMMA ScanStep == TicketInv /\ ScanNext => TicketInv'
<1>. SUFFICES ASSUME TicketInv, NEW s \in Scans,
                     \/ \E c \in Conns : ScanStart(s, c)
                     \/ ScanRead(s)
                     \/ ScanFails(s)
                     \/ \E n \in SUBSET Unused : ScanCommit(s, n)
                     \/ ScanRefused(s)
              PROVE  TicketInv'
  BY DEF ScanNext
<1>. USE DEF TicketInv, TypeOK
<1>0. scan[s] \in [pc : {"idle", "running", "read"}, conn : Conns \cup {None},
                    prior : SUBSET Events]
  OBVIOUS
<1>1. ASSUME NEW c \in Conns, ScanStart(s, c) PROVE TicketInv'
  BY <1>1, ScanPart DEF ScanStart, ConnStates
<1>2. CASE ScanRead(s)
  <2>1. Prior(scan[s].conn) \subseteq Events
    BY DEF Prior
  <2>. QED  BY <1>0, <1>2, <2>1, ScanPart DEF ScanRead
<1>3. CASE ScanFails(s)
  <2>1. Failed(scan[s].conn) \in [Conns -> ConnStates]
    BY DEF Failed, ConnStates
  <2>. QED  BY <1>3, <2>1, IdleTyped, ScanPart DEF ScanFails
<1>4. ASSUME NEW n \in SUBSET Unused, ScanCommit(s, n) PROVE TicketInv'
  <2>1. scan[s].conn \in Conns /\ scan[s].prior \in SUBSET Events /\ n \in SUBSET Events
    BY <1>0, <1>4 DEF ScanCommit, Unused
  <2>2. \E m, old \in SUBSET Events, id \in Conns \cup JobIds \cup {None},
           origin \in {"scan", "job"} :
          /\ Insert(m, id, origin) /\ Replace(old, m)
          /\ EnforceFK => \A e \in old, k \in Tickets : raised[k] # e
    <3>1. PICK c \in Conns, old \in SUBSET Events : c = scan[s].conn /\ old = scan[s].prior
      BY <2>1
    <3>2. /\ Insert(n, c, "scan") /\ Replace(old, n)
          /\ EnforceFK => \A e \in old, k \in Tickets : raised[k] # e
      BY <1>4, <3>1 DEF ScanCommit, Undeletable
    <3>. QED  BY <2>1, <3>2
  <2>3. conn' \in [Conns -> ConnStates]
    BY <1>4 DEF ScanCommit, ConnStates
  <2>. QED  BY <1>4, <2>2, <2>3, IdleTyped, ScanPart DEF ScanCommit
<1>5. CASE ScanRefused(s)
  <2>1. scan[s].conn \in Conns
    BY <1>5 DEF ScanRefused
  <2>. QED  BY <1>5, <2>1, IdleTyped, ScanPart DEF ScanRefused
<1>. QED  BY <1>1, <1>2, <1>3, <1>4, <1>5

LEMMA IngestStep == TicketInv /\ IngestNext => TicketInv'
<1>. SUFFICES ASSUME TicketInv, NEW j \in JobIds \cup {None}, NEW n \in SUBSET Unused,
                     Ingest(j, n)
              PROVE  TicketInv'
  BY DEF IngestNext
<1>1. n \in SUBSET Events /\ {} \in SUBSET Events
  BY DEF Unused
<1>2. \E m, old \in SUBSET Events, id \in Conns \cup JobIds \cup {None},
         origin \in {"scan", "job"} :
        /\ Insert(m, id, origin) /\ Replace(old, m)
        /\ EnforceFK => \A e \in old, k \in Tickets : raised[k] # e
  BY <1>1 DEF Ingest
<1>. QED  BY <1>2, ScanPart DEF Ingest, TicketInv, TypeOK

LEMMA DraftStep == TicketInv /\ DraftNext => TicketInv'
<1>. SUFFICES ASSUME TicketInv, NEW d \in Drafts,
                     \/ \E e \in Events : DraftRead(d, e)
                     \/ DraftCount(d)
                     \/ \E k \in Tickets : DraftCommit(d, k)
                     \/ DraftLink(d)
                     \/ DraftRefused(d)
              PROVE  TicketInv'
  BY DEF DraftNext
<1>. USE DEF TicketInv, TypeOK
<1>0. draft[d] \in [pc : {"idle", "read", "counted", "saved"},
                    ev : Events \cup {None}, seen : EvStates,
                    seenLink : Tickets \cup {None}, count : Nat,
                    ticket : Tickets \cup {None}]
  OBVIOUS
<1>1. ASSUME NEW e \in Events, DraftRead(d, e) PROVE TicketInv'
  <2>. DEFINE new == [IdleDraft EXCEPT !.pc = "read", !.ev = e, !.seen = status[e],
                                       !.seenLink = link[e]]
  <2>1. /\ new.pc = "read" /\ new.ev = e /\ new.seen = status[e]
        /\ new \in [pc : {"idle", "read", "counted", "saved"},
                    ev : Events \cup {None}, seen : EvStates,
                    seenLink : Tickets \cup {None}, count : Nat,
                    ticket : Tickets \cup {None}]
    BY IdleTyped DEF IdleDraft
  <2>2. status[e] \in {"open", "ticketed"}
    BY <1>1 DEF DraftRead, Stored
  <2>3. status[e] = "ticketed" => \E k \in Tickets : raised[k] = e
    BY DEF TicketedHasTicket
  <2>4. /\ draft' = [draft EXCEPT ![d] = new]
        /\ UNCHANGED <<conn, interrupted, status, col, from, batch, link, raised,
                       ref, counted, scan, saw, crashes>>
    BY <1>1 DEF DraftRead, evVars, tickVars
  <2>5. TypeOK' /\ TicketedHasTicket' /\ LinksAgree'
        /\ (EnforceFK => TicketsKeepFinding)'
    BY <2>1, <2>4 DEF TicketedHasTicket, LinksAgree, TicketsKeepFinding
  <2>6. \A x \in Drafts : IF x = d THEN draft'[x] = new ELSE draft'[x] = draft[x]
    BY <2>4
  <2>. HIDE DEF new
  <2>. QED  BY <2>1, <2>2, <2>3, <2>4, <2>5, <2>6
<1>2. CASE DraftCount(d)
  <2>. DEFINE new == [draft[d] EXCEPT !.pc = "counted", !.count = CountTickets]
  <2>1. /\ new.pc = "counted" /\ new.ev = draft[d].ev /\ new.seen = draft[d].seen
        /\ new \in [pc : {"idle", "read", "counted", "saved"},
                    ev : Events \cup {None}, seen : EvStates,
                    seenLink : Tickets \cup {None}, count : Nat,
                    ticket : Tickets \cup {None}]
    BY <1>0, CountNat
  <2>2. /\ draft' = [draft EXCEPT ![d] = new]
        /\ saw' \in [Drafts -> SUBSET Tickets]
        /\ UNCHANGED <<conn, interrupted, status, col, from, batch, link, raised,
                       ref, counted, scan, crashes>>
    BY <1>2 DEF DraftCount, evVars, tickVars, Issued
  <2>3. draft[d].pc = "read"
    BY <1>2 DEF DraftCount
  <2>. HIDE DEF new
  <2>4. TypeOK' /\ TicketedHasTicket' /\ LinksAgree'
        /\ (EnforceFK => TicketsKeepFinding)'
    BY <2>1, <2>2 DEF TicketedHasTicket, LinksAgree, TicketsKeepFinding
  <2>5. \A x \in Drafts : IF x = d THEN draft'[x] = new ELSE draft'[x] = draft[x]
    BY <2>2
  <2>. QED  BY <2>1, <2>2, <2>3, <2>4, <2>5
<1>3. ASSUME NEW k \in Tickets, DraftCommit(d, k) PROVE TicketInv'
  <2>. DEFINE e == draft[d].ev
  <2>1. e \in Events /\ draft[d].seen \in {"open", "ticketed"} /\ e # None
    BY <1>3, FindingsAssumption DEF DraftCommit
  <2>2. /\ raised' = [raised EXCEPT ![k] = e] /\ raised[k] = None
        /\ ref' \in [Tickets -> Nat]
    <3>1. draft[d].count + 1 \in Nat
      BY <1>0
    <3>. QED  BY <1>3, <3>1 DEF DraftCommit, AddTicket, Issued
  <2>3. /\ status' \in [Events -> EvStates]
        /\ \A f \in Events : f # e => status'[f] = status[f]
        /\ status'[e] = "ticketed" \/ status'[e] = status[e]
        /\ draft[d].seen = "open" => status'[e] = "ticketed"
    BY <1>3, <2>1 DEF DraftCommit, MarkTicketed, EvStates
  <2>4. /\ link' \in [Events -> Tickets \cup {None}]
        /\ \A f \in Events : link'[f] # None => link'[f] = link[f]
    BY <1>3, <2>1 DEF DraftCommit
  <2>5. /\ draft' = [draft EXCEPT ![d].pc = "saved", ![d].ticket = k]
        /\ UNCHANGED <<conn, interrupted, col, from, batch, scan, crashes>>
    BY <1>3 DEF DraftCommit
  <2>6. TypeOK'
    <3>1. saw[d] \in SUBSET Tickets
      OBVIOUS
    <3>2. /\ counted' \in [Tickets -> SUBSET Tickets]
          /\ saw' \in [Drafts -> SUBSET Tickets]
      BY <1>3, <3>1 DEF DraftCommit, AddTicket
    <3>. QED  BY <1>0, <2>1, <2>2, <2>3, <2>4, <2>5, <3>2
  <2>7. TicketedHasTicket'
    BY <2>1, <2>2, <2>3, FindingsAssumption DEF TicketedHasTicket
  <2>8. LinksAgree'
    BY <2>2, <2>4, FindingsAssumption DEF LinksAgree
  <2>9. ASSUME EnforceFK PROVE TicketsKeepFinding'
    <3>1. ASSUME draft[d].seen = "ticketed" PROVE status[e] = "ticketed"
      <4>1. PICK l \in Tickets : raised[l] = draft[d].ev
        BY <1>3, <3>1 DEF DraftCommit
      <4>2. TicketsKeepFinding
        BY <2>9
      <4>. QED  BY <2>1, <4>1, <4>2 DEF TicketsKeepFinding
    <3>2. status'[e] = "ticketed"
      BY <2>1, <2>3, <3>1
    <3>. QED  BY <2>2, <2>3, <2>9, <3>2 DEF TicketsKeepFinding
  <2>10. \A x \in Drafts : draft'[x].pc = "saved" =>
           draft'[x].ticket \in Tickets /\ raised'[draft'[x].ticket] = draft'[x].ev
             /\ draft'[x].ev \in Events
    BY <1>0, <2>1, <2>2, <2>5, FindingsAssumption
  <2>11. /\ \A x \in Drafts : draft'[x].pc \in {"read", "counted"} =>
              draft'[x].ev \in Events /\ draft'[x].seen \in {"open", "ticketed"}
         /\ \A x \in Drafts :
              draft'[x].pc \in {"read", "counted"} /\ draft'[x].seen = "ticketed" =>
                x # d /\ draft'[x] = draft[x]
    BY <1>0, <2>5
  <2>12. \A x \in Drafts :
              draft'[x].pc \in {"read", "counted"} /\ draft'[x].seen = "ticketed" =>
                \E l \in Tickets : raised'[l] = draft'[x].ev
    BY <2>2, <2>11, FindingsAssumption
  <2>. QED  BY <2>5, <2>6, <2>7, <2>8, <2>9, <2>10, <2>11, <2>12
<1>4. CASE DraftLink(d)
  <2>1. /\ draft[d].ev \in Events /\ draft[d].ticket \in Tickets
        /\ raised[draft[d].ticket] = draft[d].ev
    BY <1>4 DEF DraftLink
  <2>2. LinksAgree'
    BY <1>4, <2>1 DEF DraftLink, LinkTarget, LinksAgree, tickVars
  <2>. QED
    BY <1>4, <2>1, <2>2, IdleTyped
    DEF DraftLink, LinkTarget, tickVars, TicketedHasTicket, TicketsKeepFinding
<1>5. CASE DraftRefused(d)
  BY <1>5, IdleTyped DEF DraftRefused, evVars, tickVars, TicketedHasTicket, LinksAgree,
     TicketsKeepFinding
<1>. QED  BY <1>1, <1>2, <1>3, <1>4, <1>5

LEMMA CrashStep == TicketInv /\ Crash => TicketInv'
  BY IdleTyped DEF TicketInv, TypeOK, Crash, evVars, tickVars, TicketedHasTicket,
     LinksAgree, TicketsKeepFinding

LEMMA TicketStep == TicketInv /\ [Next]_vars => TicketInv'
<1>1. TicketInv /\ UNCHANGED vars => TicketInv'
  BY DEF TicketInv, TypeOK, vars, TicketedHasTicket, LinksAgree, TicketsKeepFinding
<1>. QED  BY <1>1, ConnStep, ScanStep, IngestStep, DraftStep, CrashStep DEF Next

\* The inductive invariant of findings, tickets, and the requests in progress.
THEOREM TicketInvariance == Spec => []TicketInv
  BY TicketInit, TicketStep, PTL DEF Spec

\* A finding that counts as ticketed has a ticket, with or without foreign
\* keys, however create_ticket, scans and stops overlap.
THEOREM TicketedBacked == Spec => []TicketedHasTicket
<1>1. TicketInv => TicketedHasTicket  BY DEF TicketInv
<1>. QED  BY <1>1, TicketInvariance, PTL

\* The link of a finding leads to a ticket that was raised from it.
THEOREM LinksRight == Spec => []LinksAgree
<1>1. TicketInv => LinksAgree  BY DEF TicketInv
<1>. QED  BY <1>1, TicketInvariance, PTL

\* With foreign keys, no re-scan takes the finding of a ticket away: the
\* comment "Ticketed events preserved" holds on such a database.
THEOREM FindingsKept ==
  ASSUME EnforceFK
  PROVE  Spec => []TicketsKeepFinding
<1>1. TicketInv => TicketsKeepFinding  BY DEF TicketInv
<1>. QED  BY <1>1, TicketInvariance, PTL
-----------------------------------------------------------------------------
(***************************************************************************)
(* One scan at a time: a re-scan replaces what it showed.                  *)
(***************************************************************************)

\* A finding that a scan of connector c stored and that is still open.
Shown(e, c) == status[e] = "open" /\ from[e] = "scan" /\ col[e] = c

\* Once a scan has selected what to clear, that is all its connector shows.
Selected ==
  /\ \A s \in Scans : scan[s].pc # "idle" => scan[s].conn \in Real
  /\ \A s \in Scans : scan[s].pc = "read" =>
       \A e \in Events : Shown(e, scan[s].conn) => e \in scan[s].prior

OneScanInv == Selected /\ OneScanShown

\* Nothing is stored and nothing is opened: what is shown was shown before.
LEMMA LessShown ==
  ASSUME OneScanInv, UNCHANGED <<col, from, batch, scan>>,
         \A e \in Events : status'[e] = "open" => status[e] = "open"
  PROVE  OneScanInv'
  BY DEF OneScanInv, Selected, OneScanShown, Shown

\* Findings that no real connector's scan stored.
LEMMA OthersStored ==
  ASSUME TypeOK, OneScanInv, NEW n \in SUBSET Unused,
         NEW id \in Conns \cup JobIds \cup {None}, NEW origin \in {"scan", "job"},
         Insert(n, id, origin), Replace({}, n), UNCHANGED scan,
         origin = "scan" => id \notin Real
  PROVE  OneScanInv'
<1>1. n \in SUBSET Events /\ {} \in SUBSET Events
  BY DEF Unused
<1>2. \A e \in Events : /\ e \in n => col'[e] = id /\ from'[e] = origin
                        /\ e \notin n => col'[e] = col[e] /\ from'[e] = from[e]
                                         /\ batch'[e] = batch[e]
                                         /\ status'[e] = status[e]
  BY <1>1 DEF Insert, Replace
<1>3. \A e \in Events, c \in Real : Shown(e, c)' => Shown(e, c) /\ e \notin n
  BY <1>2 DEF Shown
<1>4. Selected'
  BY <1>3 DEF OneScanInv, Selected
<1>5. ASSUME NEW e \in Events, NEW f \in Events, NEW c \in Real,
             Shown(e, c)', Shown(f, c)'
      PROVE  batch'[e] = batch'[f]
  <2>1. Shown(e, c) /\ Shown(f, c) /\ e \notin n /\ f \notin n
    BY <1>3, <1>5
  <2>2. batch[e] = batch[f]
    BY <2>1 DEF OneScanInv, OneScanShown, Shown
  <2>. QED  BY <1>2, <2>1, <2>2
<1>6. OneScanShown'
  BY <1>5 DEF OneScanShown, Shown
<1>. QED  BY <1>4, <1>6 DEF OneScanInv

LEMMA OneScanConn == TypeOK /\ OneScanInv /\ ConnNext => OneScanInv'
<1>. SUFFICES ASSUME TypeOK, OneScanInv, NEW c \in Conns,
                     \/ AddConnector(c)
                     \/ RemoveConnector(c)
                     \/ \E n \in SUBSET Unused : SimulatedScan(c, n)
              PROVE  OneScanInv'
  BY DEF ConnNext
<1>1. CASE AddConnector(c) \/ RemoveConnector(c)
  BY <1>1, LessShown DEF AddConnector, RemoveConnector, evVars
<1>2. ASSUME NEW n \in SUBSET Unused, SimulatedScan(c, n) PROVE OneScanInv'
  BY <1>2, OthersStored DEF SimulatedScan
<1>. QED  BY <1>1, <1>2

LEMMA OneScanIngest == TypeOK /\ OneScanInv /\ IngestNext => OneScanInv'
  BY OthersStored DEF IngestNext, Ingest

LEMMA OneScanDraft == TypeOK /\ OneScanInv /\ DraftNext => OneScanInv'
<1>. SUFFICES ASSUME TypeOK, OneScanInv, DraftNext PROVE OneScanInv'
  OBVIOUS
<1>1. UNCHANGED <<col, from, batch, scan>>
  BY DEF DraftNext, DraftRead, DraftCount, DraftCommit, DraftLink, DraftRefused, evVars
<1>2. \A e \in Events : status'[e] = "open" => status[e] = "open"
  BY DEF TypeOK, DraftNext, DraftRead, DraftCount, DraftCommit, MarkTicketed, DraftLink,
         DraftRefused, evVars
<1>. QED  BY <1>1, <1>2, LessShown

\* The scan of the only slot: between its query and its commit no other scan
\* stores anything for its connector.
LEMMA OneScanScan ==
  ASSUME NEW one, Scans = {one}
  PROVE  TypeOK /\ OneScanInv /\ ScanNext => OneScanInv'
<1>. SUFFICES ASSUME TypeOK, OneScanInv,
                     \/ \E c \in Conns : ScanStart(one, c)
                     \/ ScanRead(one)
                     \/ ScanFails(one)
                     \/ \E n \in SUBSET Unused : ScanCommit(one, n)
                     \/ ScanRefused(one)
              PROVE  OneScanInv'
  BY DEF ScanNext
<1>0. /\ scan \in [Scans -> [pc : {"idle", "running", "read"},
                            conn : Conns \cup {None}, prior : SUBSET Events]]
      /\ one \in Scans
  BY DEF TypeOK
<1>1. ASSUME NEW c \in Conns, ScanStart(one, c) PROVE OneScanInv'
  <2>1. scan'[one].pc = "running" /\ scan'[one].conn = c /\ c \in Real
    BY <1>0, <1>1 DEF ScanStart
  <2>2. UNCHANGED evVars
    BY <1>1 DEF ScanStart
  <2>. QED  BY <2>1, <2>2 DEF OneScanInv, Selected, OneScanShown, evVars
<1>2. CASE ScanRead(one)
  <2>1. PICK prior \in SUBSET Events : prior = Prior(scan[one].conn)
    BY DEF Prior
  <2>2. PICK half \in [pc : {"idle", "running", "read"}, conn : Conns \cup {None},
                       prior : SUBSET Events] :
          half = [scan[one] EXCEPT !.pc = "read"]
    BY <1>0
  <2>3. half.pc = "read" /\ half.conn = scan[one].conn
    BY <1>0, <2>2
  <2>4. scan'[one] = [half EXCEPT !.prior = prior]
    BY <1>0, <1>2, <2>1, <2>2 DEF ScanRead
  <2>5. scan'[one].conn = scan[one].conn /\ scan'[one].prior = prior
    BY <2>3, <2>4
  <2>6. scan[one].conn \in Real
    BY <1>0, <1>2 DEF ScanRead, OneScanInv, Selected
  <2>7. UNCHANGED evVars
    BY <1>2 DEF ScanRead
  <2>8. \A e \in Events : Shown(e, scan[one].conn) => e \in prior
    BY <2>1 DEF Shown, Prior
  <2>9. Selected'
    BY <2>5, <2>6, <2>7, <2>8 DEF Selected, Shown, evVars
  <2>. QED  BY <2>7, <2>9 DEF OneScanInv, OneScanShown, evVars
<1>3. CASE ScanFails(one) \/ ScanRefused(one)
  <2>1. scan'[one].pc = "idle" /\ UNCHANGED evVars
    BY <1>0, <1>3, IdleTyped DEF ScanFails, ScanRefused
  <2>. QED  BY <2>1 DEF OneScanInv, Selected, OneScanShown, evVars
<1>4. ASSUME NEW n \in SUBSET Unused, ScanCommit(one, n) PROVE OneScanInv'
  <2>1. PICK c, prior : c = scan[one].conn /\ prior = scan[one].prior
    OBVIOUS
  <2>2. /\ c \in Real /\ n \in SUBSET Events
        /\ \A e \in Events : Shown(e, c) => e \in prior
    BY <1>0, <1>4, <2>1 DEF ScanCommit, OneScanInv, Selected, Unused
  <2>3. Insert(n, c, "scan") /\ Replace(prior, n) /\ scan'[one].pc = "idle"
    BY <1>0, <1>4, <2>1, IdleTyped DEF ScanCommit
  <2>4. \A e \in Events : /\ e \in n => batch'[e] = n
                          /\ e \notin n => col'[e] = col[e] /\ from'[e] = from[e]
                                            /\ batch'[e] = batch[e]
                          /\ status'[e] = "open" /\ e \notin n =>
                               status[e] = "open" /\ e \notin prior
    BY <2>2, <2>3 DEF Insert, Replace
  <2>5. \A e \in Events : Shown(e, c)' => e \in n
    BY <2>2, <2>4 DEF Shown
  <2>6. \A e \in Events, b \in Real : b # c /\ Shown(e, b)' => Shown(e, b) /\ e \notin n
    <3>1. \A e \in n : col'[e] = c
      BY <2>2, <2>3 DEF Insert
    <3>. QED  BY <2>4, <3>1 DEF Shown
  <2>7. ASSUME NEW e \in Events, NEW f \in Events, NEW b \in Real,
               Shown(e, b)', Shown(f, b)'
        PROVE  batch'[e] = batch'[f]
    <3>1. CASE b = c
      BY <2>4, <2>5, <2>7, <3>1
    <3>2. CASE b # c
      <4>1. Shown(e, b) /\ Shown(f, b) /\ e \notin n /\ f \notin n
        BY <2>6, <2>7, <3>2
      <4>2. batch[e] = batch[f]
        BY <4>1 DEF OneScanInv, OneScanShown, Shown
      <4>. QED  BY <2>4, <4>1, <4>2
    <3>. QED  BY <3>1, <3>2
  <2>8. OneScanShown'
    BY <2>7 DEF OneScanShown, Shown
  <2>9. Selected'
    BY <2>3 DEF Selected
  <2>. QED  BY <2>8, <2>9 DEF OneScanInv
<1>. QED  BY <1>1, <1>2, <1>3, <1>4

LEMMA OneScanStep ==
  ASSUME NEW one, Scans = {one}
  PROVE  TicketInv /\ OneScanInv /\ [Next]_vars => OneScanInv'
<1>. SUFFICES ASSUME TypeOK, OneScanInv, [Next]_vars PROVE OneScanInv'
  BY DEF TicketInv
<1>1. CASE UNCHANGED vars
  BY <1>1, LessShown DEF vars
<1>2. CASE Crash
  <2>1. \A s \in Scans : scan'[s].pc = "idle"
    BY <1>2, IdleTyped DEF Crash
  <2>. QED
    BY <1>2, <2>1 DEF Crash, OneScanInv, Selected, OneScanShown, evVars
<1>. QED
  BY <1>1, <1>2, OneScanConn, OneScanScan, OneScanIngest, OneScanDraft DEF Next

\* "A re-scan reflects current state rather than accumulating duplicates":
\* where scans of _run_scan do not overlap, the open findings of a connector
\* with a scanner come from one scan, with or without foreign keys, whatever
\* requests, job results and stops of the backend come between.
THEOREM RescanReplaces ==
  ASSUME NEW one, Scans = {one}
  PROVE  Spec => []OneScanShown
<1>1. Init => OneScanInv
  BY IdleTyped DEF Init, OneScanInv, Selected, OneScanShown, Shown
<1>2. OneScanInv => OneScanShown
  BY DEF OneScanInv
<1>. QED
  BY <1>1, <1>2, TicketInvariance, OneScanStep, PTL DEF Spec
-----------------------------------------------------------------------------
(***************************************************************************)
(* Overlapping ticket requests: a number is above those counted for it.    *)
(***************************************************************************)

\* The numbers given so far are at most the number of tickets, and those of
\* the tickets a request has counted are at most its count.
Numbered ==
  /\ \A k \in Issued : ref[k] <= CountTickets /\ counted[k] \subseteq Issued
  /\ \A d \in Drafts : draft[d].pc = "counted" =>
       /\ draft[d].count <= CountTickets
       /\ saw[d] \subseteq Issued
       /\ \A k \in saw[d] : ref[k] <= draft[d].count

NumberInv == Numbered /\ NumbersRise

\* A new ticket is one more.
LEMMA OneMore ==
  ASSUME TypeOK, NEW k \in Tickets \ Issued, NEW e \in Events,
         raised' = [raised EXCEPT ![k] = e]
  PROVE  /\ Issued' = Issued \cup {k}
         /\ CountTickets' = CountTickets + 1
<1>1. e # None
  BY FindingsAssumption
<1>2. raised'[k] = e /\ \A l \in Tickets : l # k => raised'[l] = raised[l]
  BY DEF TypeOK
<1>3. Issued' = Issued \cup {k}
  BY <1>1, <1>2 DEF Issued
<1>4. IsFiniteSet(Issued)
  BY FindingsAssumption, FS_Subset DEF Issued
<1>5. k \notin Issued
  OBVIOUS
<1>6. Cardinality(Issued \cup {k}) = Cardinality(Issued) + 1
  BY <1>4, <1>5, FS_AddElement
<1>. QED  BY <1>3, <1>6 DEF CountTickets

\* No ticket is added, and nothing is newly counted.
LEMMA SameNumbers ==
  ASSUME NumberInv, UNCHANGED tickVars,
         \A d \in Drafts : draft'[d].pc = "counted" =>
           draft'[d] = draft[d] /\ saw'[d] = saw[d]
  PROVE  NumberInv'
<1>1. Issued' = Issued /\ CountTickets' = CountTickets /\ ref' = ref /\ counted' = counted
  BY DEF Issued, CountTickets, tickVars
<1>. QED  BY <1>1 DEF NumberInv, Numbered, NumbersRise

LEMMA NumberDraft == TicketInv /\ NumberInv /\ DraftNext => NumberInv'
<1>. SUFFICES ASSUME TicketInv, NumberInv, NEW d \in Drafts,
                     \/ \E e \in Events : DraftRead(d, e)
                     \/ DraftCount(d)
                     \/ \E k \in Tickets : DraftCommit(d, k)
                     \/ DraftLink(d)
                     \/ DraftRefused(d)
              PROVE  NumberInv'
  BY DEF DraftNext
<1>0. /\ TypeOK
      /\ draft \in [Drafts -> [pc : {"idle", "read", "counted", "saved"},
                              ev : Events \cup {None}, seen : EvStates,
                              seenLink : Tickets \cup {None}, count : Nat,
                              ticket : Tickets \cup {None}]]
      /\ saw \in [Drafts -> SUBSET Tickets]
  BY DEF TicketInv, TypeOK
<1>1. ASSUME NEW e \in Events, DraftRead(d, e) PROVE NumberInv'
  <2>1. /\ draft'[d].pc = "read" /\ UNCHANGED <<tickVars, saw>>
        /\ \A x \in Drafts \ {d} : draft'[x] = draft[x]
    BY <1>0, <1>1 DEF DraftRead, IdleDraft
  <2>. QED  BY <2>1, SameNumbers
<1>2. CASE DraftCount(d)
  <2>1. PICK half \in [pc : {"idle", "read", "counted", "saved"},
                       ev : Events \cup {None}, seen : EvStates,
                       seenLink : Tickets \cup {None}, count : Nat,
                       ticket : Tickets \cup {None}] :
          half = [draft[d] EXCEPT !.pc = "counted"]
    BY <1>0
  <2>2. draft'[d] = [half EXCEPT !.count = CountTickets] /\ UNCHANGED tickVars
    BY <1>0, <1>2, <2>1 DEF DraftCount
  <2>3. /\ draft'[d].count = CountTickets /\ saw'[d] = Issued
        /\ \A x \in Drafts \ {d} : draft'[x] = draft[x] /\ saw'[x] = saw[x]
    BY <1>0, <1>2, <2>2 DEF DraftCount
  <2>4. CountTickets' = CountTickets /\ Issued' = Issued
    BY <2>2 DEF CountTickets, Issued, tickVars
  <2>5. CountTickets <= CountTickets
    BY CountNat
  <2>6. \A k \in Issued : ref'[k] <= CountTickets' /\ counted'[k] \subseteq Issued'
    BY <2>2, <2>4 DEF NumberInv, Numbered, tickVars
  <2>7. ASSUME NEW x \in Drafts, draft'[x].pc = "counted"
        PROVE  /\ draft'[x].count <= CountTickets'
               /\ saw'[x] \subseteq Issued'
               /\ \A k \in saw'[x] : ref'[k] <= draft'[x].count
    <3>1. CASE x = d
      BY <2>2, <2>3, <2>4, <2>5, <2>6, <3>1
    <3>2. CASE x # d
      BY <2>2, <2>3, <2>4, <2>7, <3>2 DEF NumberInv, Numbered, tickVars
    <3>. QED  BY <3>1, <3>2
  <2>. QED  BY <2>2, <2>4, <2>6, <2>7 DEF NumberInv, Numbered, NumbersRise, tickVars
<1>3. ASSUME NEW k \in Tickets, DraftCommit(d, k) PROVE NumberInv'
  <2>1. PICK e, n, c, seen : e = draft[d].ev /\ n = CountTickets /\ c = draft[d].count
                               /\ seen = saw[d]
    OBVIOUS
  <2>2. /\ e \in Events /\ n \in Nat /\ c \in Nat /\ c <= n
        /\ seen \subseteq Issued /\ \A l \in seen : ref[l] <= c
    BY <1>0, <1>3, <2>1, CountNat DEF DraftCommit, TicketInv, NumberInv, Numbered
  <2>3. /\ k \in Tickets \ Issued
        /\ raised' = [raised EXCEPT ![k] = e]
        /\ ref' = [ref EXCEPT ![k] = c + 1]
        /\ counted' = [counted EXCEPT ![k] = seen]
    BY <1>3, <2>1 DEF DraftCommit, AddTicket
  <2>4. Issued' = Issued \cup {k} /\ CountTickets' = n + 1
    BY <1>0, <2>1, <2>2, <2>3, OneMore
  <2>5. /\ ref'[k] = c + 1 /\ counted'[k] = seen
        /\ \A l \in Issued : /\ ref'[l] = ref[l] /\ ref[l] \in Nat /\ ref[l] <= n
                             /\ counted'[l] = counted[l] /\ counted[l] \subseteq Issued
    BY <1>0, <2>1, <2>3 DEF TypeOK, Issued, NumberInv, Numbered
  <2>6. PICK half \in [pc : {"idle", "read", "counted", "saved"},
                       ev : Events \cup {None}, seen : EvStates,
                       seenLink : Tickets \cup {None}, count : Nat,
                       ticket : Tickets \cup {None}] :
          half = [draft[d] EXCEPT !.pc = "saved"]
    BY <1>0
  <2>7. draft'[d] = [half EXCEPT !.ticket = k]
    BY <1>0, <1>3, <2>6 DEF DraftCommit
  <2>8. /\ draft'[d].pc = "saved"
        /\ \A x \in Drafts \ {d} : draft'[x] = draft[x] /\ saw'[x] = saw[x]
    BY <1>0, <1>3, <2>6, <2>7 DEF DraftCommit
  <2>9. ASSUME NEW l \in Issued' PROVE ref'[l] <= n + 1 /\ counted'[l] \subseteq Issued'
    BY <2>2, <2>4, <2>5
  <2>10. ASSUME NEW x \in Drafts, draft'[x].pc = "counted"
         PROVE  /\ draft'[x].count <= n + 1
                /\ saw'[x] \subseteq Issued'
                /\ \A l \in saw'[x] : ref'[l] <= draft'[x].count
    <3>1. x # d /\ draft'[x] = draft[x] /\ saw'[x] = saw[x]
      BY <2>8, <2>10
    <3>2. /\ draft[x].count <= n /\ draft[x].count \in Nat
          /\ saw[x] \subseteq Issued /\ \A l \in saw[x] : ref[l] <= draft[x].count
      BY <1>0, <2>1, <2>10, <3>1 DEF NumberInv, Numbered
    <3>3. draft[x].count <= n + 1
      BY <2>2, <3>2
    <3>4. \A l \in saw[x] : ref'[l] = ref[l]
      BY <2>5, <3>2
    <3>. QED  BY <2>4, <3>1, <3>2, <3>3, <3>4
  <2>11. ASSUME NEW l \in Issued', NEW m \in Issued', m \in counted'[l]
         PROVE  ref'[m] < ref'[l]
    <3>1. CASE l = k
      <4>1. m \in seen /\ m \in Issued
        BY <2>2, <2>5, <2>11, <3>1
      <4>2. ref[m] <= c /\ ref'[m] = ref[m] /\ ref[m] \in Nat
        BY <2>2, <2>5, <4>1
      <4>. QED  BY <2>2, <2>5, <3>1, <4>2
    <3>2. CASE l # k
      <4>1. l \in Issued /\ counted'[l] = counted[l] /\ m \in Issued
        BY <2>4, <2>5, <2>11, <3>2
      <4>. QED  BY <2>5, <2>11, <4>1 DEF NumberInv, NumbersRise
    <3>. QED  BY <3>1, <3>2
  <2>. QED  BY <2>4, <2>9, <2>10, <2>11 DEF NumberInv, Numbered, NumbersRise
<1>4. CASE DraftLink(d) \/ DraftRefused(d)
  <2>1. /\ draft'[d].pc = "idle" /\ UNCHANGED tickVars
        /\ \A x \in Drafts \ {d} : draft'[x] = draft[x] /\ saw'[x] = saw[x]
    BY <1>0, <1>4, IdleTyped DEF DraftLink, DraftRefused
  <2>. QED  BY <2>1, SameNumbers
<1>. QED  BY <1>1, <1>2, <1>3, <1>4

LEMMA NumberStep == TicketInv /\ NumberInv /\ [Next]_vars => NumberInv'
<1>. SUFFICES ASSUME TicketInv, NumberInv, [Next]_vars PROVE NumberInv'
  OBVIOUS
<1>1. CASE DraftNext
  BY <1>1, NumberDraft
<1>2. CASE Crash
  <2>1. \A d \in Drafts : draft'[d].pc = "idle"
    BY <1>2, IdleTyped DEF Crash
  <2>. QED  BY <1>2, <2>1, SameNumbers DEF Crash
<1>3. CASE ConnNext \/ ScanNext \/ IngestNext \/ UNCHANGED vars
  <2>1. UNCHANGED <<tickVars, draft, saw>>
    BY <1>3
    DEF ConnNext, AddConnector, RemoveConnector, SimulatedScan, ScanNext, ScanStart,
        ScanRead, ScanFails, ScanCommit, ScanRefused, IngestNext, Ingest, vars, tickVars,
        reqVars
  <2>. QED  BY <2>1, SameNumbers
<1>. QED  BY <1>1, <1>2, <1>3 DEF Next

\* create_ticket numbers a ticket with the tickets counted before its commit:
\* the number is above that of every ticket it counted, for any number of
\* overlapping requests and stops of the backend in between.  Only requests
\* that overlapped can be given one SECOPS number.
THEOREM NumbersTellOrder == Spec => []NumbersRise
<1>1. Init => NumberInv
  <2>1. Init => Issued = {}
    BY DEF Init, Issued
  <2>. QED
    BY <2>1, IdleTyped DEF Init, NumberInv, Numbered, NumbersRise
<1>2. NumberInv => NumbersRise
  BY DEF NumberInv
<1>. QED
  BY <1>1, <1>2, TicketInvariance, NumberStep, PTL DEF Spec
=============================================================================
