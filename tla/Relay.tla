------------------------------- MODULE Relay -------------------------------
(***************************************************************************)
(* The collector engine (collector/codecore_collector): one process with   *)
(* an inbound thread pool that writes agents' results to a durable SQLite  *)
(* queue, and a main loop that drains the queue to the platform ("APE")    *)
(* over a network that loses requests and answers.  The process can be     *)
(* stopped, killed at any step and restarted by its supervisor; only the   *)
(* queue survives.  The platform's side of a submission is reduced here to *)
(* the answer it gives; ScanJobs models what it does to the database.      *)
(*                                                                         *)
(* Left out: the attempts column (written by mark_failed, read nowhere),   *)
(* payloads, log lines, and the enroll back-off (waiting changes nothing). *)
(***************************************************************************)
EXTENDS Naturals, FiniteSets

CONSTANTS
  Results,     \* scan results agents may submit; each is submitted once
  Kind,        \* Kind[r]: the platform's verdict on r, see Kinds
  Limit,       \* rows one drain reads (pending's limit, 20 in the code)
  MaxFaults,   \* bound: crashes, stops, time-outs, 5xx and garbled answers
  Garbling,    \* may something in between answer 200 with a non-JSON body?
  None         \* no result

\* "ok": applied.  "nojob": names a job the tenant does not have (404).
\* "malformed": of unknown type or unparsable (400).
Kinds == {"ok", "nojob", "malformed"}

ASSUME RelayAssumption ==
  /\ IsFiniteSet(Results)
  /\ Kind \in [Results -> Kinds]
  /\ Limit \in Nat \ {0}
  /\ MaxFaults \in Nat
  /\ Garbling \in BOOLEAN
  /\ None \notin Results

VARIABLES
  engine,      \* where the main thread is
  running,     \* _running: no stop signal received
  receiving,   \* results whose inbound handler read the clock, not yet inserted
  clock,       \* time.time(), counted in readings
  stamp,       \* stamp[r]: created_at of r; 0 before its handler reads the clock
  rows,        \* the durable queue
  batch,       \* what is left of the list pending() returned
  item,        \* the result of the submission under way
  answer,      \* its answer, "none" while the request is out
  orphans,     \* orphans[r]: requests for r nobody waits for any more
  deliveries,  \* deliveries[r]: times the platform applied r
  tokenValid,  \* the platform still knows this collector's token
  faults,      \* interruptions so far
  accepted,    \* history: results ever inserted in the queue
  seen,        \* history: seen[r] = accepted when r's handler read the clock
  dropped,     \* history: rows deleted without a 200 answer
  unheard      \* history: unheard[r] = submissions of r that ended unanswered

netVars  == <<orphans, deliveries, tokenValid>>
inVars   == <<receiving, clock, stamp, accepted, seen>>
vars     == <<engine, running, rows, batch, item, answer, faults, dropped,
              unheard, inVars, netVars>>

\* "enroll": first heartbeat loop; "sleep": between cycles; "cycle": top of
\* the loop body; "drain": in the for loop; "wait": in submit_result;
\* "ack": answered, the row not deleted yet.
EngineStates == {"down", "enroll", "sleep", "cycle", "drain", "wait", "ack"}
Answers == {"none", "ok", "notfound", "error", "denied", "garbled"}

\* The inbound server runs from enrollment to the end of the process.
Serving == engine \in {"sleep", "cycle", "drain", "wait", "ack"}

Delivered == {r \in Results : deliveries[r] > 0}

TypeOK ==
  /\ engine \in EngineStates
  /\ running \in BOOLEAN
  /\ receiving \subseteq Results
  /\ clock \in Nat
  /\ stamp \in [Results -> Nat]
  /\ rows \subseteq Results
  /\ batch \subseteq Results
  /\ item \in Results \cup {None}
  /\ answer \in Answers
  /\ orphans \in [Results -> Nat]
  /\ deliveries \in [Results -> Nat]
  /\ tokenValid \in BOOLEAN
  /\ faults \in Nat
  /\ accepted \subseteq Results
  /\ seen \in [Results -> SUBSET Results]
  /\ dropped \subseteq Results
  /\ unheard \in [Results -> Nat]

Init ==
  /\ engine = "down"
  /\ running = TRUE
  /\ receiving = {}
  /\ clock = 0
  /\ stamp = [r \in Results |-> 0]
  /\ rows = {}
  /\ batch = {}
  /\ item = None
  /\ answer = "none"
  /\ orphans = [r \in Results |-> 0]
  /\ deliveries = [r \in Results |-> 0]
  /\ tokenValid = TRUE
  /\ faults = 0
  /\ accepted = {}
  /\ seen = [r \in Results |-> {}]
  /\ dropped = {}
  /\ unheard = [r \in Results |-> 0]
-----------------------------------------------------------------------------
(***************************************************************************)
(* The inbound server: one handler thread per request.                     *)
(***************************************************************************)

\* POST /agent/results, up to enqueue's reading of the clock.
Receive(r) ==
  /\ Serving
  /\ stamp[r] = 0
  /\ clock' = clock + 1
  /\ stamp' = [stamp EXCEPT ![r] = clock + 1]
  /\ seen' = [seen EXCEPT ![r] = accepted]
  /\ receiving' = receiving \cup {r}
  /\ UNCHANGED <<engine, running, rows, batch, item, answer, faults, dropped,
                 unheard, accepted, netVars>>

\* The INSERT commits and the agent is answered 200.
Enqueue(r) ==
  /\ r \in receiving
  /\ receiving' = receiving \ {r}
  /\ rows' = rows \cup {r}
  /\ accepted' = accepted \cup {r}
  /\ UNCHANGED <<engine, running, batch, item, answer, faults, dropped,
                 unheard, clock, stamp, seen, netVars>>
-----------------------------------------------------------------------------
(***************************************************************************)
(* The main thread.                                                        *)
(***************************************************************************)

\* The process ends: its memory and its handler threads are gone.
Die ==
  /\ engine' = "down"
  /\ batch' = {}
  /\ item' = None
  /\ answer' = "none"
  /\ receiving' = {}

\* The supervisor (Restart=always) starts the process.
Start ==
  /\ engine = "down"
  /\ engine' = "enroll"
  /\ running' = TRUE
  /\ UNCHANGED <<rows, batch, item, answer, faults, dropped, unheard, inVars,
                 netVars>>

\* The first heartbeat is answered 200, or a stop signal ended the loop: in
\* both cases the inbound server is started next.
Enroll ==
  /\ engine = "enroll"
  /\ tokenValid \/ ~running
  /\ engine' = "sleep"
  /\ UNCHANGED <<running, rows, batch, item, answer, faults, dropped, unheard,
                 inVars, netVars>>

\* A heartbeat, the first or a later one, is answered 401: exit.
HeartbeatDenied ==
  /\ engine \in {"enroll", "cycle"}
  /\ ~tokenValid
  /\ Die
  /\ UNCHANGED <<running, rows, faults, dropped, unheard, clock, stamp,
                 accepted, seen, netVars>>

\* The loop condition after a sleep: another cycle, or shutdown and exit.
Wake ==
  /\ engine = "sleep" /\ running
  /\ engine' = "cycle"
  /\ UNCHANGED <<running, rows, batch, item, answer, faults, dropped, unheard,
                 inVars, netVars>>

Shutdown ==
  /\ engine = "sleep" /\ ~running
  /\ Die
  /\ UNCHANGED <<running, rows, faults, dropped, unheard, clock, stamp,
                 accepted, seen, netVars>>

\* What pending() would return without its ORDER BY.
Unordered(S) ==
  /\ S \subseteq rows
  /\ IF Cardinality(rows) <= Limit THEN S = rows ELSE Cardinality(S) = Limit

\* Mutant: pending() with ORDER BY created_at DESC.
Newest(S) ==
  /\ Unordered(S)
  /\ \A r \in S, q \in rows \ S : stamp[r] > stamp[q]

\* A set of rows pending() may return: the oldest ones, at most Limit.
Oldest(S) ==
  /\ S \subseteq rows
  /\ \A r \in S, q \in rows \ S : stamp[r] < stamp[q]
  /\ IF Cardinality(rows) <= Limit THEN S = rows ELSE Cardinality(S) = Limit

\* _drain_queue reads its list; with an empty one the cycle is over.
BeginDrain ==
  /\ engine = "cycle"
  /\ \E S \in SUBSET rows :
       /\ Oldest(S)
       /\ batch' = S
       /\ engine' = IF S = {} THEN "sleep" ELSE "drain"
  /\ UNCHANGED <<running, rows, item, answer, faults, dropped, unheard, inVars,
                 netVars>>

\* The next element of the list, which is ordered by created_at.
IsNext(r) == r \in batch /\ \A q \in batch : stamp[r] <= stamp[q]

Submit(r) ==
  /\ engine = "drain"
  /\ IsNext(r)
  /\ engine' = "wait"
  /\ item' = r
  /\ answer' = "none"
  /\ UNCHANGED <<running, rows, batch, faults, dropped, unheard, inVars, netVars>>

EndDrain ==
  /\ engine = "drain" /\ batch = {}
  /\ engine' = "sleep"
  /\ UNCHANGED <<running, rows, batch, item, answer, faults, dropped, unheard,
                 inVars, netVars>>

\* Mutant: a 400 or 5xx answer is taken as final, as a 404 is.
AnsweredFinal ==
  /\ engine = "wait" /\ answer \in {"ok", "notfound", "garbled", "error"}
  /\ engine' = "ack"
  /\ UNCHANGED <<running, rows, batch, item, answer, faults, dropped, unheard,
                 inVars, netVars>>

\* submit_result returns, or raises ValueError (404, or a 200 whose body is
\* not JSON): either way mark_uploaded comes next.
Answered ==
  /\ engine = "wait" /\ answer \in {"ok", "notfound", "garbled"}
  /\ engine' = "ack"
  /\ UNCHANGED <<running, rows, batch, item, answer, faults, dropped, unheard,
                 inVars, netVars>>

\* Mutant: the row of a submission that succeeded is not deleted.
MarkUploadedKeeps ==
  /\ engine = "ack"
  /\ batch' = batch \ {item}
  /\ dropped' = IF answer = "ok" THEN dropped ELSE dropped \cup {item}
  /\ engine' = "drain"
  /\ item' = None
  /\ answer' = "none"
  /\ UNCHANGED <<rows, running, faults, unheard, inVars, netVars>>

\* mark_uploaded: the row is deleted, and the loop goes on.
MarkUploaded ==
  /\ engine = "ack"
  /\ rows' = rows \ {item}
  /\ batch' = batch \ {item}
  /\ dropped' = IF answer = "ok" THEN dropped ELSE dropped \cup {item}
  /\ engine' = "drain"
  /\ item' = None
  /\ answer' = "none"
  /\ UNCHANGED <<running, faults, unheard, inVars, netVars>>

\* Mutant: continue instead of break.
AbandonOne ==
  /\ engine' = "drain"
  /\ batch' = batch \ {item}
  /\ item' = None
  /\ answer' = "none"

\* The drain is given up (break): the rest of the list waits for a later one.
Abandon ==
  /\ engine' = "sleep"
  /\ batch' = {}
  /\ item' = None
  /\ answer' = "none"

\* Mutant: mark_uploaded where the code calls mark_failed.
SubmitFailedDrops ==
  /\ engine = "wait" /\ answer = "error"
  /\ rows' = rows \ {item}
  /\ Abandon
  /\ UNCHANGED <<running, faults, dropped, unheard, inVars, netVars>>

\* Any answer but 200, 404 and 401 is ApeUnreachable: keep the row, break.
SubmitFailed ==
  /\ engine = "wait" /\ answer = "error"
  /\ Abandon
  /\ UNCHANGED <<running, rows, faults, dropped, unheard, inVars, netVars>>

\* 401 is ApeAuthError, which neither _drain_queue nor run catches.
SubmitDenied ==
  /\ engine = "wait" /\ answer = "denied"
  /\ Die
  /\ UNCHANGED <<running, rows, faults, dropped, unheard, clock, stamp,
                 accepted, seen, netVars>>

\* A request nobody waits for any more stays on its way.
OrphanPending ==
  orphans' = IF item # None /\ answer = "none"
             THEN [orphans EXCEPT ![item] = @ + 1]
             ELSE orphans
CountUnheard ==
  unheard' = IF item # None THEN [unheard EXCEPT ![item] = @ + 1] ELSE unheard
-----------------------------------------------------------------------------
(***************************************************************************)
(* Interruptions, at most MaxFaults of them.                               *)
(***************************************************************************)
Fault == faults < MaxFaults /\ faults' = faults + 1

\* The connection fails or times out, before or after the platform answered.
Timeout ==
  /\ engine = "wait"
  /\ Fault
  /\ Abandon
  /\ OrphanPending
  /\ CountUnheard
  /\ UNCHANGED <<running, rows, dropped, inVars, deliveries, tokenValid>>

\* The process is killed.
Crash ==
  /\ engine # "down"
  /\ Fault
  /\ Die
  /\ OrphanPending
  /\ CountUnheard
  /\ UNCHANGED <<running, rows, dropped, clock, stamp, accepted, seen,
                 deliveries, tokenValid>>

\* SIGTERM: _stop only clears the flag.
Stop ==
  /\ engine # "down" /\ running
  /\ Fault
  /\ running' = FALSE
  /\ UNCHANGED <<engine, rows, batch, item, answer, dropped, unheard, inVars,
                 netVars>>

\* The platform fails without committing (5xx).
ServerError ==
  /\ engine = "wait" /\ answer = "none"
  /\ Fault
  /\ answer' = "error"
  /\ UNCHANGED <<engine, running, rows, batch, item, dropped, unheard, inVars,
                 netVars>>

\* Something between the two answers 200 itself, not in JSON.
Garble ==
  /\ Garbling
  /\ engine = "wait" /\ answer = "none"
  /\ Fault
  /\ answer' = "garbled"
  /\ UNCHANGED <<engine, running, rows, batch, item, dropped, unheard, inVars,
                 netVars>>
-----------------------------------------------------------------------------
(***************************************************************************)
(* The platform: POST /api/collector/results.                              *)
(***************************************************************************)

\* It handles the request the relay waits for, and answers.
Handle ==
  /\ engine = "wait" /\ answer = "none"
  /\ answer' = IF ~tokenValid THEN "denied"
               ELSE CASE Kind[item] = "ok"        -> "ok"
                      [] Kind[item] = "nojob"     -> "notfound"
                      [] Kind[item] = "malformed" -> "error"
  /\ deliveries' = IF tokenValid /\ Kind[item] = "ok"
                   THEN [deliveries EXCEPT ![item] = @ + 1]
                   ELSE deliveries
  /\ UNCHANGED <<engine, running, rows, batch, item, faults, dropped, unheard,
                 inVars, orphans, tokenValid>>

\* A request the relay gave up on arrives after all: it is handled the same
\* way, the answer goes nowhere.
HandleOrphan(r) ==
  /\ orphans[r] > 0
  /\ orphans' = [orphans EXCEPT ![r] = @ - 1]
  /\ deliveries' = IF tokenValid /\ Kind[r] = "ok"
                   THEN [deliveries EXCEPT ![r] = @ + 1]
                   ELSE deliveries
  /\ UNCHANGED <<engine, running, rows, batch, item, answer, faults, dropped,
                 unheard, inVars, tokenValid>>

\* ... or never arrives.
LoseOrphan(r) ==
  /\ orphans[r] > 0
  /\ orphans' = [orphans EXCEPT ![r] = @ - 1]
  /\ UNCHANGED <<engine, running, rows, batch, item, answer, faults, dropped,
                 unheard, inVars, deliveries, tokenValid>>

\* The collector is deleted on the platform: its token is gone for good.
RevokeToken ==
  /\ tokenValid
  /\ tokenValid' = FALSE
  /\ UNCHANGED <<engine, running, rows, batch, item, answer, faults, dropped,
                 unheard, inVars, orphans, deliveries>>
-----------------------------------------------------------------------------
Inbound  == \E r \in Results : Receive(r) \/ Enqueue(r)
MainStep == \/ Start \/ Enroll \/ HeartbeatDenied \/ Wake \/ Shutdown
            \/ BeginDrain \/ EndDrain \/ Answered \/ MarkUploaded
            \/ SubmitFailed \/ SubmitDenied
            \/ \E r \in Results : Submit(r)
Interruption == Timeout \/ Crash \/ Stop \/ ServerError \/ Garble
Platform == \/ Handle
            \/ RevokeToken
            \/ \E r \in Results : HandleOrphan(r) \/ LoseOrphan(r)

Next == Inbound \/ MainStep \/ Interruption \/ Platform

Spec == Init /\ [][Next]_vars

\* The process is scheduled and restarted, its first heartbeat eventually gets
\* through, and a platform that is reached answers.  Nothing is assumed of the
\* agents, of interruptions (there are finitely many) or of the operator.
Fairness == WF_vars(MainStep) /\ WF_vars(Handle)

FairSpec == Spec /\ Fairness
-----------------------------------------------------------------------------
(***************************************************************************)
(* Properties.                                                             *)
(***************************************************************************)

\* No acknowledged result disappears: an accepted result is in the queue, or
\* was applied by the platform, or was refused with 404 because its job does
\* not exist (queue.py: "results stay queued and are retried later").
NothingLost ==
  \A r \in accepted : \/ r \in rows
                      \/ r \in Delivered
                      \/ r \in dropped /\ Kind[r] = "nojob"

\* Results reach the platform in the order they were accepted, across retries,
\* crashes, requests that arrive late and rows inserted during a drain: when r
\* has been applied or dropped, nothing that had been accepted when r was
\* handed over is still queued.
InOrder ==
  \A r \in Delivered \cup dropped : seen[r] \cap rows = {}

\* A result is applied again only for a submission whose answer was not heard:
\* with no time-out and no crash the relay delivers exactly once.
DuplicatesExplained ==
  \A r \in Results : deliveries[r] <= 1 + unheard[r]

\* The relay implements RelayService: a row that was applied but not deleted
\* yet is no longer pending, and its second application changes nothing.
Service == INSTANCE RelayService WITH
  Refusable <- {r \in Results : Kind[r] = "nojob"},
  pending   <- rows \ Delivered,
  delivered <- Delivered,
  refused   <- dropped \ Delivered,
  earlier   <- seen

ImplementsService == Service!ServiceSpec

\* The inductive invariant behind the three of them.  Bookkeeping ties the main
\* thread's variables to the queue; Accounted is NothingLost with garbled
\* answers allowed for; Ordered extends InOrder to lists being drained and to
\* requests on their way; Counted charges every request but
\* one to a submission that ended unheard.
Bookkeeping ==
  /\ batch \subseteq rows
  /\ rows \subseteq accepted
  /\ accepted \cap receiving = {}
  /\ item # None <=> engine \in {"wait", "ack"}
  /\ item # None => item \in batch
  /\ batch # {} => engine \in {"drain", "wait", "ack"}
  /\ receiving # {} => Serving
  /\ answer # "none" => item # None
  /\ engine = "ack" => answer \in {"ok", "notfound", "garbled"}
  /\ answer = "ok" => deliveries[item] > 0
  /\ answer = "notfound" => Kind[item] = "nojob"
  /\ answer = "garbled" => Garbling
  /\ dropped \subseteq accepted
  /\ dropped \cap rows = {}
  /\ \A r \in Results : /\ stamp[r] <= clock
                        /\ r \in receiving \cup accepted => stamp[r] > 0
                        /\ orphans[r] > 0 \/ deliveries[r] > 0 => r \in accepted

Accounted ==
  \A r \in accepted : \/ r \in rows
                      \/ deliveries[r] > 0
                      \/ r \in dropped /\ (Kind[r] = "nojob" \/ Garbling)

Ordered ==
  /\ \A r \in Results : \A q \in seen[r] : q \in accepted /\ stamp[q] < stamp[r]
  /\ \A r \in batch : seen[r] \cap rows \subseteq batch
  /\ item # None => seen[item] \cap rows = {}
  /\ \A r \in Results :
       orphans[r] > 0 \/ deliveries[r] > 0 \/ r \in dropped
         => seen[r] \cap rows = {}

Counted ==
  \A r \in Results :
    deliveries[r] + orphans[r] + (IF item = r /\ answer # "ok" THEN 1 ELSE 0)
      <= unheard[r] + (IF r \notin rows \/ item = r THEN 1 ELSE 0)

IndInv == TypeOK /\ Bookkeeping /\ Accounted /\ Ordered /\ Counted

\* What stands between r and delivery: rows the platform will always answer
\* with 400, which stay at the head of the queue and stop every drain there.
Blocked(r) ==
  \E q \in rows \cup receiving : stamp[q] <= stamp[r] /\ Kind[q] = "malformed"

\* Once interruptions cease, a queued result with no malformed result before
\* it leaves the queue, unless the collector's token is revoked.
UnblockedSettles ==
  \A r \in Results :
    (r \in rows /\ ~Blocked(r)) ~> (r \notin rows \/ ~tokenValid)

\* What the collector's documentation promises: queued results are forwarded
\* when the platform is reachable, whatever else is queued.
EveryResultForwarded ==
  \A r \in Results :
    (r \in rows /\ Kind[r] = "ok") ~> (r \in Delivered \/ ~tokenValid)
=============================================================================
