------------------------------ MODULE Assessment ------------------------------
(***************************************************************************)
(* From a system's configuration to findings.  The agents collect and      *)
(* judge nothing; the platform assesses the document it is handed          *)
(* (Settings), whoever collected it.  Prowler and OpenSCAP give records,   *)
(* one per check and resource and for some several, which the platform     *)
(* folds into findings.                                                    *)
(***************************************************************************)
EXTENDS Settings, Integers, Sequences, FiniteSets

CONSTANTS
  MaxGaps,       \* bound on the weak settings of a host, and on those not readable (TLC)
  MaxRecords,    \* bound on the records of a scan (TLC)
  MaxRules,      \* bound on the rules of a firewall (TLC)
  Resources,     \* what records are about
  Hints          \* what a scan's framework may be set to; all: to none

ASSUME AssessmentAssumption == MaxGaps \in Nat /\ MaxRecords \in Nat /\ MaxRules \in Nat

Hosts4 == {"postgres", "mysql", "mssql", "windows_server"}
Clouds == {"aws", "azure", "gcp"}
Systems == Hosts4 \cup Clouds \cup {"linux", "paloalto"} \cup DOMAIN EVENT_TEMPLATES

VARIABLES
  system,        \* what is scanned
  hint,          \* the framework the scan is for
  weak,          \* a host: the settings that are weak
  unread,        \* a host: those the account of the scan may not read
  step,          \* where the scan is
  doc,           \* the document, or a firewall's configuration
  raised,        \* the findings about a document: setting and mappings
  records,       \* the records of a scan, in the order they are listed
  taken,         \* how many of them were taken in
  findings,      \* of records, per check and resource: severity and mappings
  keyFile        \* the service account's key is on disk

assessVars ==
  <<system, hint, weak, unread, step, doc, raised, records, taken, findings, keyFile>>

Severities == <<"low", "medium", "high", "critical">>
Rank(s) == CHOOSE n \in DOMAIN Severities : Severities[n] = s

\* Prowler's names of frameworks and the platform's; one it does not know.
Compliance == [pci4 |-> "pci_dss", pci3 |-> "pci_dss", cis |-> "none"]
Records ==
  [check : {"c1"}, resource : Resources, fail : BOOLEAN, severity : {"low", "high"},
   compliance : {{<<"pci4", "8.3">>}, {<<"pci3", "8.2">>}, {<<"cis", "5.1">>}}]
Rules == [name : {"n1", "n2"}, allow : BOOLEAN, gaps : {{}, {"rule_no_logging"}}]
Outputs == UNION {[1..n -> Records] : n \in 0..MaxRecords}
Key(r) == <<r.check, r.resource>>

Controls(s) ==
  CASE s = "postgres" -> PostgresControls
    [] s = "mysql" -> MySQLControls
    [] s = "mssql" -> MSSQLControls
    [] s = "windows_server" -> WindowsControls

AssessmentTypeOK ==
  /\ system \in Systems /\ hint \in Hints
  /\ system \notin Hosts4 => weak = {} /\ unread = {}
  /\ step \in {"asked", "running", "collected", "done", "error", "killed"}
  /\ taken \in 0..Len(records) /\ keyFile \in BOOLEAN

AtMost(k, S) == {T \in SUBSET S : Cardinality(T) <= k}

AssessmentInit ==
  /\ system \in Systems /\ hint \in Hints /\ (system \in Clouds => hint = "all")
  /\ IF system \in Hosts4
     THEN LET few == AtMost(MaxGaps, DOMAIN Controls(system)) IN weak \in few /\ unread \in few
     ELSE weak = {} /\ unread = {}
  /\ step = "asked" /\ doc = <<>> /\ raised = {}
  /\ records = <<>> /\ taken = 0 /\ findings = <<>> /\ keyFile = FALSE

-------------------------------------------------------------------------------
(* Documents.                                                              *)

\* The agent's scanner for the system's type.
Scan(s) ==
  CASE s = "postgres" -> ScanPostgres(weak, unread)
    [] s = "mysql" -> ScanMySQL(weak, unread)
    [] s = "mssql" -> ScanMSSQL(weak, unread)
    [] s = "windows_server" -> ScanWindows(weak, unread)

AgentScan ==
  /\ step = "asked" /\ system \in Hosts4
  /\ doc' = Scan(system) /\ step' = IF Scan(system) = <<>> THEN "error" ELSE "collected"
  /\ UNCHANGED <<system, hint, weak, unread, raised, records, taken, findings, keyFile>>

\* The driver, the script or the tool is not there, or gives nothing.
AgentFails ==
  /\ step = "asked" /\ system \in Hosts4 /\ step' = "error"
  /\ UNCHANGED <<system, hint, weak, unread, doc, raised, records, taken, findings, keyFile>>

\* A document uploaded with the connector's credentials: any of its settings.
Upload ==
  /\ step = "asked" /\ system \in {"postgres", "windows_server"} /\ step' = "collected"
  /\ doc' = [f \in (DOMAIN Controls(system)) \ unread |-> Level(f, weak)]
  /\ UNCHANGED <<system, hint, weak, unread, raised, records, taken, findings, keyFile>>
RunPaloAlto(rules, restricted, insecure) ==
  /\ step = "asked" /\ system = "paloalto" /\ step' = "collected"
  /\ doc' = [rules |-> rules, restricted |-> restricted, insecure |-> insecure]
  /\ UNCHANGED <<system, hint, weak, unread, raised, records, taken, findings, keyFile>>

\* A connector without a scanner: of its category's events up to five that touch
\* the framework, or any if none does; they keep their mappings.
Simulate(category) ==
  /\ step = "asked" /\ system = category /\ step' = "done"
  /\ LET events == EVENT_TEMPLATES[category]
         relevant == {n \in DOMAIN events : \E c \in events[n] : c[1] = hint}
         among == IF relevant = {} THEN DOMAIN events ELSE relevant
     IN  \E few \in SUBSET among :
           /\ Cardinality(few) = IF Cardinality(among) < 5 THEN Cardinality(among) ELSE 5
           /\ raised' = {[setting |-> <<category, n>>, maps |-> events[n]] : n \in few}
  /\ UNCHANGED <<system, hint, weak, unread, doc, records, taken, findings, keyFile>>

\* The platform's assessment of a document of the system's type.
Assessed(s, d) ==
  CASE s = "postgres" -> AssessPostgres(d, hint)
    [] s = "mysql" -> AssessMySQL(d, hint)
    [] s = "mssql" -> AssessMSSQL(d, hint)
    [] s = "windows_server" -> AssessWindows(d, hint)
    [] s = "paloalto" -> AssessPaloAlto(d.rules, d.restricted, d.insecure, hint)

Assess ==
  /\ step = "collected" /\ system \in Hosts4 \cup {"paloalto"} /\ step' = "done"
  /\ raised' = Assessed(system, doc)
  /\ UNCHANGED <<system, hint, weak, unread, doc, records, taken, findings, keyFile>>

-------------------------------------------------------------------------------
(* Records.                                                                *)

ScannerBegins(s, given, key) ==
  /\ step = "asked" /\ system = s /\ step' = IF given THEN "running" ELSE "error"
  /\ keyFile' = key
  /\ UNCHANGED <<system, hint, weak, unread, doc, raised, records, taken, findings>>
\* No scanner, no answer in time, no output: an error; with output the file is
\* parsed.
ScannerEnds(s, output) ==
  /\ step = "running" /\ system = s
  /\ step' = IF output = <<>> THEN "error" ELSE "collected"
  /\ records' = output
  /\ UNCHANGED <<system, hint, weak, unread, doc, raised, taken, findings>>

\* Without an access key Prowler takes what AWS credentials the host has.
ProwlerAWSBegins == ScannerBegins("aws", TRUE, FALSE)
ProwlerAWSEnds(output) == ScannerEnds("aws", output) /\ UNCHANGED keyFile
ProwlerAzureBegins(given) == ScannerBegins("azure", given, FALSE)
ProwlerAzureEnds(output) == ScannerEnds("azure", output) /\ UNCHANGED keyFile
\* Google's credentials are a file, removed whatever comes of the scan, before
\* its output is looked for.
ProwlerGCPBegins(given) == ScannerBegins("gcp", given, given)
ProwlerGCPEnds(output) == ScannerEnds("gcp", output) /\ keyFile' = FALSE
\* On the platform's host, or by the agent, which ships what the scanner wrote.
OpenSCAPBegins(content) == ScannerBegins("linux", content, FALSE)
OpenSCAPEnds(output) == ScannerEnds("linux", output) /\ UNCHANGED keyFile
ScanLinux(content, output) ==
  /\ step = "asked" /\ system = "linux"
  /\ step' = IF content /\ output # <<>> THEN "collected" ELSE "error"
  /\ records' = IF content THEN output ELSE <<>>
  /\ UNCHANGED <<system, hint, weak, unread, doc, raised, taken, findings, keyFile>>

\* The platform stops while the scanner runs.
Killed ==
  /\ step = "running" /\ step' = "killed"
  /\ UNCHANGED <<system, hint, weak, unread, doc, raised, records, taken, findings, keyFile>>

\* Frameworks the platform does not know are left out.
Mappings(r) ==
  {m \in {<<Compliance[c[1]], c[2]>> : c \in r.compliance} : m[1] # "none"}

\* Mutant: the last severity stays.
MergedFindingLast(old, r) == [severity |-> r.severity, maps |-> old.maps \cup Mappings(r)]
MergedFinding(old, r) ==
  [ severity |-> IF Rank(r.severity) > Rank(old.severity) THEN r.severity ELSE old.severity,
    maps     |-> old.maps \cup Mappings(r) ]

Reported(k, f) == [j \in DOMAIN findings \cup {k} |-> IF j = k THEN f ELSE findings[j]]
TakeNext(r) ==
  /\ step = "collected" /\ taken < Len(records)
  /\ taken' = taken + 1
  /\ UNCHANGED <<system, hint, weak, unread, step, doc, raised, records, keyFile>>

\* The first failure of a check and resource makes the finding; a later one
\* adds its mappings, and its severity if higher.
TakeProwler(r) ==
  /\ TakeNext(r) /\ system \in Clouds
  /\ \/ ~r.fail /\ UNCHANGED findings
     \/ /\ r.fail /\ Key(r) \notin DOMAIN findings
        /\ findings' = Reported(Key(r), [severity |-> r.severity, maps |-> Mappings(r)])
     \/ /\ r.fail /\ Key(r) \in DOMAIN findings
        /\ findings' = Reported(Key(r), MergedFinding(findings[Key(r)], r))

\* One finding for each rule that fails, of its first failure; its mappings are
\* the rule's references, for the framework of the scan if there is one.
TakeOpenSCAP(r) ==
  /\ TakeNext(r) /\ system = "linux"
  /\ \/ (~r.fail \/ <<r.check>> \in DOMAIN findings) /\ UNCHANGED findings
     \/ /\ r.fail /\ <<r.check>> \notin DOMAIN findings
        /\ findings' = Reported(<<r.check>>, [ severity |-> r.severity,
              maps |-> IF hint = "all" THEN {} ELSE {<<hint, c[2]>> : c \in r.compliance} ])

AssessmentNext ==
  \/ \E category \in DOMAIN EVENT_TEMPLATES : Simulate(category)
  \/ AgentScan \/ AgentFails \/ Upload \/ Assess \/ Killed
  \/ system = "paloalto" /\ step = "asked"
     /\ \E rules \in AtMost(MaxRules, Rules), restricted \in BOOLEAN, insecure \in SUBSET {"http", "telnet"} :
          RunPaloAlto(rules, restricted, insecure)
  \/ ProwlerAWSBegins
  \/ \E given \in BOOLEAN :
       ProwlerAzureBegins(given) \/ ProwlerGCPBegins(given) \/ OpenSCAPBegins(given)
  \/ step = "running" /\ \E output \in Outputs :
       \/ ProwlerAWSEnds(output) \/ ProwlerAzureEnds(output) \/ ProwlerGCPEnds(output)
       \/ OpenSCAPEnds(output)
  \/ step = "asked" /\ system = "linux" /\ \E output \in Outputs, content \in BOOLEAN :
       ScanLinux(content, output)
  \/ taken < Len(records) /\ \E r \in {records[taken + 1]} : TakeProwler(r) \/ TakeOpenSCAP(r)

AssessmentSpec == AssessmentInit /\ [][AssessmentNext]_assessVars

-------------------------------------------------------------------------------
\* A finding is about a gap the host has, and a gap it has is found: but for
\* the settings that could not be read, and for the two of SQL Server that no
\* agent asks for, of which the platform always reports one and never the other.
GapsReported ==
  LET reported == {r.setting : r \in raised}
  IN  step = "done" /\ system \in Hosts4 =>
        /\ reported \ weak \subseteq unread \cup {"login_auditing"}
        /\ weak \ reported \subseteq unread \cup {"force_encryption"}

\* A scan made for one framework fails no control of another, unless the check
\* has none of it: then it fails those of every framework it has.
HintKept ==
  system \in Hosts4 \cup {"paloalto"} =>
    \A r \in raised : r.maps # {} /\ ((\E c \in r.maps : c[1] = hint) => \A c \in r.maps : c[1] = hint)

\* What is raised about a host, a firewall or a simulated system fails a control
\* there is, so that it shows in some framework's posture: but for a scan made
\* for PCI DSS or the NIST CSF, whose controls most checks name by ids these
\* frameworks do not have (4.2.1 for 4.2, pr_ac_1 for PR.AC).
FailuresShown ==
  hint \in {"all", "soc2"} \/ system \in DOMAIN EVENT_TEMPLATES =>
    \A r \in raised : r.maps \cap FRAMEWORKS # {}

\* Of a firewall's rules as many are reported for a check as fail it, if no two
\* rules have one name.
RulesReported ==
  system = "paloalto" /\ step = "done" /\ (\A r, s \in doc.rules : r.name = s.name => r = s) =>
    Cardinality({r \in raised : r.setting[1] = "rule_no_logging"}) =
      Cardinality({r \in doc.rules : r.allow /\ "rule_no_logging" \in r.gaps})

\* The records taken in so far, in whatever order they were listed, are one
\* finding for each check and resource of a failure: of the highest severity
\* and with every mapping among its records, where a cloud lists several.
FailuresMerged ==
  LET failed == {n \in 1..taken : records[n].fail}
      of(k) == {n \in failed : Key(records[n]) = k}
  IN  system \in Clouds =>
        /\ DOMAIN findings = {Key(records[n]) : n \in failed}
        /\ \A k \in DOMAIN findings :
             /\ \A n \in of(k) : Rank(findings[k].severity) >= Rank(records[n].severity)
             /\ \E m \in of(k) : findings[k].severity = records[m].severity
             /\ findings[k].maps = UNION {Mappings(records[m]) : m \in of(k)}

\* The key of a service account outlives the scan on disk only if the platform
\* was stopped during the scan.
KeyRemoved == keyFile => step \in {"running", "killed"}

\* What a scan reports is what there was to report, and it leaves no key behind.
ScansFaithful == GapsReported /\ HintKept /\ FailuresShown /\ RulesReported /\ FailuresMerged /\ KeyRemoved
===============================================================================
