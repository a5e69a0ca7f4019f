-------------------------------- MODULE Agents --------------------------------
(***************************************************************************)
(* The agents on the customer's hosts and the registry of the collector    *)
(* they report to (agent-linux, agent-windows, collector/agent_registry,   *)
(* collector/inbound).  An agent enrolls once, keeps its token in a file,  *)
(* scans, and hands each result over.  It runs once per tick of a timer,   *)
(* or for ever; the two programs differ in what they scan.                 *)
(*                                                                         *)
(* A request reaches the collector or not, and its answer the agent or     *)
(* not.  A result whose answer is not heard is dropped: the next scan is   *)
(* the retry.                                                              *)
(***************************************************************************)
EXTENDS Access

CONSTANTS
  Hosts,         \* hosts with an agent
  Timed,         \* those whose agent a timer starts with --once
  Scans,         \* results per run: the scan types configured
  MaxTokens,     \* bound on the tokens the collector issues (TLC)
  MaxMishaps     \* bound on crashes, lost answers and resets (TLC)

ASSUME AgentsAssumption ==
  Timed \subseteq Hosts /\ Scans \in Nat \ {0} /\ MaxTokens \in Nat /\ MaxMishaps \in Nat
    /\ None \notin Nat

VARIABLES
  at,            \* per host: where its agent is
  token,         \* per host: the token in memory
  stored,        \* per host: the token in the state file
  left,          \* per host: scans left in this run
  known,         \* the registry: tokens and whose they are
  issued,        \* how many tokens there were
  mishaps,       \* how much went wrong
  excess,        \* history, per host: enrollments whose token was not kept
  resets         \* history: whether the registry was lost

agentsVars == <<at, token, stored, left, known, issued, mishaps, excess, resets>>

Tokens == 1..MaxTokens
Places == {"down", "enroll", "save", "scan", "sleep", "reenroll", "ended"}

AgentsTypeOK ==
  /\ at \in [Hosts -> Places]
  /\ token \in [Hosts -> Tokens \cup {None}] /\ stored \in [Hosts -> Tokens \cup {None}]
  /\ left \in [Hosts -> 0..Scans]
  /\ known \subseteq Tokens \X Hosts
  /\ issued \in 0..MaxTokens /\ mishaps \in 0..MaxMishaps
  /\ excess \in [Hosts -> Nat] /\ resets \in BOOLEAN

AgentsInit ==
  /\ at = [a \in Hosts |-> "down"]
  /\ token = [a \in Hosts |-> None] /\ stored = [a \in Hosts |-> None]
  /\ left = [a \in Hosts |-> 0]
  /\ known = {} /\ issued = 0 /\ mishaps = 0
  /\ excess = [a \in Hosts |-> 0]
  /\ resets = FALSE

Goes(a, place) == at' = [at EXCEPT ![a] = place]
Mishap == mishaps < MaxMishaps /\ mishaps' = mishaps + 1

\* The token of the state file, or an enrollment with retries.
StartAgent(a) ==
  /\ at[a] = "down"
  /\ token' = [token EXCEPT ![a] = stored[a]]
  /\ left' = [left EXCEPT ![a] = Scans]
  /\ Goes(a, IF stored[a] = None THEN "enroll" ELSE "scan")
  /\ UNCHANGED <<stored, known, issued, mishaps, excess, resets>>

Enrolling(a) == at[a] \in {"enroll", "reenroll"}

\* The registry adds a row for every enrollment, whatever rows the name has.
AddRow(a) ==
  /\ issued < MaxTokens
  /\ issued' = issued + 1
  /\ known' = known \cup {<<issued + 1, a>>}

EnrollAnswered(a) ==
  /\ Enrolling(a)
  /\ AddRow(a)
  /\ token' = [token EXCEPT ![a] = issued + 1]
  /\ Goes(a, "save")
  /\ UNCHANGED <<stored, left, mishaps, excess, resets>>

\* Not reached, or not heard: retried at the start, and the end of an agent
\* that is in its loop, where nothing catches it.
Unreachable(a) == IF at[a] = "reenroll" THEN Goes(a, "ended") ELSE UNCHANGED at

EnrollUnreached(a) ==
  /\ Enrolling(a) /\ Mishap
  /\ Unreachable(a)
  /\ UNCHANGED <<token, stored, left, known, issued, excess, resets>>

EnrollUnheard(a) ==
  /\ Enrolling(a) /\ Mishap
  /\ AddRow(a)
  /\ excess' = [excess EXCEPT ![a] = @ + 1]
  /\ Unreachable(a)
  /\ UNCHANGED <<token, stored, left, resets>>

\* Mutant: the token is kept in memory alone.
SaveTokenForgets(a) ==
  /\ at[a] = "save"
  /\ Goes(a, "scan")
  /\ UNCHANGED <<token, stored, left, known, issued, mishaps, excess, resets>>
SaveToken(a) ==
  /\ at[a] = "save"
  /\ stored' = [stored EXCEPT ![a] = token[a]]
  /\ Goes(a, "scan")
  /\ UNCHANGED <<token, left, known, issued, mishaps, excess, resets>>

-------------------------------------------------------------------------------
RunEnds(a) == Goes(a, IF a \in Timed THEN "down" ELSE "sleep")

\* The next type, after a result was accepted, or dropped, or a scan failed.
NextScan(a) ==
  /\ left' = [left EXCEPT ![a] = @ - 1]
  /\ IF left[a] = 1 THEN RunEnds(a) ELSE UNCHANGED at

SubmitDone(a) ==
  /\ at[a] = "scan" /\ left[a] > 0 /\ <<token[a], a>> \in known
  /\ NextScan(a)
  /\ UNCHANGED <<token, stored, known, issued, mishaps, excess, resets>>

SubmitUnreached(a) ==
  /\ at[a] = "scan" /\ left[a] > 0 /\ Mishap
  /\ NextScan(a)
  /\ UNCHANGED <<token, stored, known, issued, excess, resets>>

\* Mutant: the rejected token stays in the file.
SubmitRejectedKeeps(a) ==
  /\ at[a] = "scan" /\ left[a] > 0 /\ <<token[a], a>> \notin known
  /\ token' = [token EXCEPT ![a] = None]
  /\ left' = [left EXCEPT ![a] = 0]
  /\ Goes(a, IF a \in Timed THEN "down" ELSE "reenroll")
  /\ UNCHANGED <<stored, known, issued, mishaps, excess, resets>>
\* The collector does not know the token: it is cleared, and the run ends; an
\* agent in its loop enrolls again, and then waits for its next run.
SubmitRejected(a) ==
  /\ at[a] = "scan" /\ left[a] > 0 /\ <<token[a], a>> \notin known
  /\ token' = [token EXCEPT ![a] = None] /\ stored' = [stored EXCEPT ![a] = None]
  /\ left' = [left EXCEPT ![a] = 0]
  /\ Goes(a, IF a \in Timed THEN "down" ELSE "reenroll")
  /\ UNCHANGED <<known, issued, mishaps, excess, resets>>

IntervalOver(a) ==
  /\ at[a] = "sleep" \/ (at[a] = "scan" /\ left[a] = 0)
  /\ left' = [left EXCEPT ![a] = Scans]
  /\ Goes(a, "scan")
  /\ UNCHANGED <<token, stored, known, issued, mishaps, excess, resets>>

-------------------------------------------------------------------------------
\* A host goes down; the file it was writing may be empty, or not begun.  An
\* agent that ended by itself is not started again.
HostStops(a, halfWritten) ==
  /\ at[a] \notin {"down", "ended"} /\ Mishap
  /\ halfWritten => at[a] = "save"
  /\ stored' = IF halfWritten THEN [stored EXCEPT ![a] = None] ELSE stored
  /\ token' = [token EXCEPT ![a] = None]
  /\ excess' = IF at[a] = "save" THEN [excess EXCEPT ![a] = @ + 1] ELSE excess
  /\ Goes(a, "down")
  /\ UNCHANGED <<left, known, issued, resets>>

\* The collector is set up anew: its agents' tokens are unknown.
RegistryLost ==
  /\ Mishap
  /\ known' = {} /\ resets' = TRUE
  /\ UNCHANGED <<at, token, stored, left, issued, excess>>

AgentStep(a) ==
  \/ StartAgent(a)
  \/ EnrollAnswered(a)
  \/ SaveToken(a)
  \/ SubmitDone(a)
  \/ SubmitRejected(a)
  \/ IntervalOver(a)

AgentsNext ==
  \/ \E a \in Hosts :
       \/ AgentStep(a)
       \/ EnrollUnreached(a)
       \/ EnrollUnheard(a)
       \/ SubmitUnreached(a)
       \/ \E halfWritten \in BOOLEAN : HostStops(a, halfWritten)
  \/ RegistryLost

\* The timer ticks, the loop runs, and a collector that is up answers.
AgentsFairness == \A a \in Hosts : WF_agentsVars(AgentStep(a))
AgentsSpec == AgentsInit /\ [][AgentsNext]_agentsVars /\ AgentsFairness

-------------------------------------------------------------------------------
(* Properties.                                                             *)

\* The registry has a host's current row and one for every enrollment whose
\* token the agent did not get, or not keep; and the token in a state file is
\* one it knows (agent_registry.py, line 64; agent.py, lines 39-42 and 61-64).
RowsOf(a) == {k \in known : k[2] = a}

EnrollmentsExplained ==
  ~resets => \A a \in Hosts :
    /\ Cardinality(RowsOf(a)) <= 1 + excess[a]
    /\ stored[a] # None => <<stored[a], a>> \in known

\* An agent the timer starts comes to have a token the collector knows, once
\* nothing more goes wrong; so does one in its loop that has not ended.
AgentsEnroll ==
  \A a \in Hosts : <>[](at[a] = "ended" \/ <<stored[a], a>> \in known)
===============================================================================
