-------------------------------- MODULE Settings --------------------------------
(***************************************************************************)
(* What the agents read of a host and what the platform makes of it: per   *)
(* system the settings a check looks at, with the controls the check maps  *)
(* to, the document the agent's scanner collects, and the findings the     *)
(* platform raises from a document (app/connectors).                       *)
(*                                                                         *)
(* A setting is good or a gap by the limits of its check (a minimum length *)
(* below 8, more than 2 superusers...), and goes by its name; null and     *)
(* absent are the other things it can be in a document.                    *)
(***************************************************************************)
EXTENDS Frameworks

Level(f, weak) == IF f \in weak THEN "gap" ELSE "good"

\* The controls of a check, of the three frameworks nearly all map to.
To(pci, iso, soc) == PCI({pci}) \cup ISO({iso}) \cup SOC2({soc})

\* A framework named for the scan narrows a check's mappings to its own, if
\* the check has any of it.
Scoped(controls, hint) ==
  LET own == {c \in controls : c[1] = hint} IN IF own = {} THEN controls ELSE own
Found(controls, failing, hint) ==
  {[setting |-> f, maps |-> Scoped(controls[f], hint)] : f \in failing}

-------------------------------------------------------------------------------
(* PostgreSQL.                                                             *)

PostgresControls ==
  [ ssl |-> To("4.2.1", "A.8.24", "CC6.7") \cup NIST({"pr_ds_2"}),
    log_connections |-> To("10.2.1", "A.8.15", "CC7.2"),
    log_disconnections |-> To("10.2.1", "A.8.15", "CC7.2"),
    logging_collector |-> To("10.2", "A.8.15", "CC7.2"),
    log_statement |-> To("10.2.2", "A.8.15", "CC7.2"),
    password_encryption |-> To("8.3.2", "A.8.24", "CC6.1"),
    superuser_count |-> To("7.2.2", "A.8.2", "CC6.3"),
    public_schema_world_writable |-> To("7.2.1", "A.8.3", "CC6.3"),
    hba_allows_trust |-> To("7.2.1", "A.8.2", "CC6.1") \cup NIST({"pr_ac_4"}) ]

\* A statement that is refused fails those after it in the transaction as
\* well, and with them the scan; a row that is not shown reads as null.
ScanPostgres(weak, unread) ==
  IF unread \cap {"superuser_count", "public_schema_world_writable", "hba_allows_trust"} # {}
  THEN <<>>
  ELSE [f \in DOMAIN PostgresControls |-> IF f \in unread THEN "null" ELSE Level(f, weak)]

\* A null reads as the text none: what log_statement is set to when nothing is
\* logged.
AssessPostgres(d, hint) ==
  LET none == {f \in DOMAIN d : f = "log_statement" /\ d[f] = "null"}
  IN  Found(PostgresControls, {f \in DOMAIN d : d[f] = "gap"} \cup none, hint)

-------------------------------------------------------------------------------
(* MySQL.                                                                  *)

MySQLControls ==
  [ require_secure_transport |-> To("4.2.1", "A.8.24", "CC6.7") \cup NIST({"pr_ds_2"}),
    have_ssl |-> To("4.2.1", "A.8.24", "CC6.7"),
    general_log |-> To("10.2", "A.8.15", "CC7.2"),
    local_infile |-> To("2.2.6", "A.8.9", "CC6.1"),
    default_authentication_plugin |-> To("8.3.2", "A.8.24", "CC6.1"),
    users_with_no_password |-> To("8.3.1", "A.8.5", "CC6.1") \cup NIST({"pr_ac_1"}),
    users_with_wildcard_host |-> To("7.2.1", "A.8.2", "CC6.3") \cup NIST({"pr_ac_4"}),
    anonymous_users |-> To("7.2.1", "A.8.2", "CC6.1") ]

\* The counts stay 0 when mysql.user is not readable.
ScanMySQL(weak, unread) ==
  LET counts == {"users_with_no_password", "users_with_wildcard_host", "anonymous_users"}
  IN  [ f \in DOMAIN MySQLControls |->
          IF f \notin unread THEN Level(f, weak) ELSE IF f \in counts THEN "good" ELSE "null" ]

AssessMySQL(d, hint) == Found(MySQLControls, {f \in DOMAIN d : d[f] = "gap"}, hint)

-------------------------------------------------------------------------------
(* SQL Server.                                                             *)

MSSQLControls ==
  [ xp_cmdshell |-> To("2.2.6", "A.8.9", "CC6.1") \cup NIST({"pr_ip_1"}),
    ole_automation_procedures |-> To("2.2.6", "A.8.9", "CC6.1"),
    clr_enabled |-> To("2.2.6", "A.8.9", "CC6.1"),
    cross_db_ownership_chaining |-> To("7.2.1", "A.8.3", "CC6.3"),
    sa_account_enabled |-> To("8.3.1", "A.8.2", "CC6.1") \cup NIST({"pr_ac_1"}),
    sa_account_renamed |-> To("8.3.1", "A.8.2", "CC6.1"),
    authentication_mode |-> To("8.3.1", "A.8.5", "CC6.1"),
    force_encryption |-> To("4.2.1", "A.8.24", "CC6.7") \cup NIST({"pr_ds_2"}),
    databases_without_tde |-> To("3.4.1", "A.8.24", "CC6.7"),
    login_auditing |-> To("10.2.1", "A.8.15", "CC7.2") ]
MSSQLNeverAsked == {"force_encryption", "login_auditing"}

\* An option that is not readable is null; what a query of its own asks for is
\* left out, and two settings are never asked for.
ScanMSSQL(weak, unread) ==
  LET options == {"xp_cmdshell", "ole_automation_procedures", "clr_enabled", "cross_db_ownership_chaining"}
  IN  [ f \in (DOMAIN MSSQLControls) \ (MSSQLNeverAsked \cup (unread \ options)) |->
          IF f \in unread THEN "null" ELSE Level(f, weak) ]

\* Of login auditing the absence is a gap.
AssessMSSQL(d, hint) ==
  Found(MSSQLControls, {f \in DOMAIN d : d[f] = "gap"} \cup ({"login_auditing"} \ DOMAIN d), hint)

-------------------------------------------------------------------------------
(* Windows.                                                                *)

WindowsControls ==
  [ min_length |-> To("8.3.6", "A.5.17", "CC6.1") \cup NIST({"pr_ac_1"}),
    complexity |-> To("8.3.6", "A.5.17", "CC6.1"),
    max_age_days |-> To("8.3.9", "A.5.17", "CC6.1"),
    history_count |-> PCI({"8.3.7"}) \cup ISO({"A.5.17"}),
    threshold |-> To("8.3.4", "A.8.5", "CC6.1") \cup NIST({"pr_ac_7"}),
    logon |-> To("10.2.1", "A.8.15", "CC7.2") \cup NIST({"de_ae_3"}),
    policy_change |-> To("10.2.1", "A.8.15", "CC7.2"),
    smbv1_enabled |-> To("2.2.5", "A.8.20", "CC6.6"),
    rdp_nla_required |-> To("2.2.5", "A.8.5", "CC6.6"),
    guest_account_enabled |-> To("8.2.2", "A.5.16", "CC6.2"),
    lm_hash_stored |-> To("8.3.2", "A.8.24", "CC6.1"),
    telnet_running |-> To("2.2.4", "A.8.9", "CC6.6"),
    ftp_running |-> To("2.2.4", "A.8.9", "CC6.6"),
    domain_profile |-> To("1.2.1", "A.8.20", "CC6.6"),
    private_profile |-> To("1.2.1", "A.8.20", "CC6.6"),
    public_profile |-> To("1.2.1", "A.8.20", "CC6.6") ]

\* PowerShell: nothing is 0 and not equal to anything, which the checks take
\* for the better of four settings and for the worse of all others.
ScanWindows(weak, unread) ==
  LET hidden == {"smbv1_enabled", "guest_account_enabled", "telnet_running", "ftp_running"}
  IN  [ f \in DOMAIN WindowsControls |->
          IF f \notin unread THEN Level(f, weak) ELSE IF f \in hidden THEN "good" ELSE "gap" ]

AssessWindows(d, hint) == Found(WindowsControls, {f \in DOMAIN d : d[f] = "gap"}, hint)

-------------------------------------------------------------------------------
(* A firewall: what its rules and its management access say, in the order  *)
(* the configuration lists them.                                           *)

PaloAltoControls ==
  [ permissive_any_any |-> PCI({"1.2.1", "1.3"}) \cup ISO({"A.8.20", "A.8.22"}) \cup NIST({"pr_ac_5"}) \cup SOC2({"CC6.1", "CC6.6"}),
    rule_no_logging |-> PCI({"10.2", "10.3"}) \cup ISO({"A.8.15", "A.8.16"}) \cup NIST({"de_ae_3"}) \cup SOC2({"CC7.2"}),
    rule_any_application |-> To("1.2.1", "A.8.20", "CC6.6"),
    mgmt_not_restricted |-> PCI({"1.3.1", "7.2"}) \cup ISO({"A.8.2"}) \cup SOC2({"CC6.1"}) \cup NIST({"pr_ac_4"}),
    insecure_mgmt_service |-> PCI({"2.2.5", "4.2.1"}) \cup ISO({"A.8.20"}) \cup SOC2({"CC6.7"}),
    rule_no_security_profile |-> To("1.2.1", "A.8.7", "CC6.8") \cup NIST({"pr_ip_1"}) ]

\* Only rules that allow something are judged.  Rules go by their names: of two
\* with one name (in two virtual systems) that fail one check, one is reported.
AssessPaloAlto(rules, restricted, insecure, hint) ==
  LET failed == {<<p[1], p[2].name>> : p \in {q \in (DOMAIN PaloAltoControls) \X rules :
                                                 q[2].allow /\ q[1] \in q[2].gaps}}
                \cup (IF restricted THEN {} ELSE {<<"mgmt_not_restricted", "mgmt">>})
                \cup {<<"insecure_mgmt_service", p>> : p \in insecure}
  IN  {[setting |-> k, maps |-> Scoped(PaloAltoControls[k[1]], hint)] : k \in failed}
===============================================================================
