------------------------------- MODULE Schema -------------------------------
(***************************************************************************)
(* The start of both stores over the database that an earlier version, or  *)
(* an interrupted start, left behind: DuckDBStore.initialise_schema,       *)
(* SQLiteStore.__init__ and the stores that create their own tables.       *)
(* Tables are created if they are missing; a table that exists keeps its   *)
(* columns, and every column that a later version added is an ALTER TABLE  *)
(* of its own, which fails when the column is there.  The error is         *)
(* swallowed, and so is every other one.  A statement of the program runs  *)
(* if the columns it names exist and an INSERT names every column that     *)
(* must have a value.                                                      *)
(*                                                                         *)
(* Types, indexes and foreign keys are left out; a version is the number   *)
(* of the phase that the comments in the code give a table or a column.    *)
(***************************************************************************)
EXTENDS Naturals, Sequences, SequencesExt, TLC

CONSTANTS
  Versions,      \* phases of the code whose database may be found by a start
  MaxSchFaults   \* bounds errors and crashes during starts

ASSUME SchemaAssumption == Versions \subseteq 0..53 /\ MaxSchFaults \in Nat

VARIABLES
  lacks,         \* the columns, as <<table, column>>, that the database has not
  place,         \* the step of the start, 0 when the process is down
  skipped,       \* the columns whose ALTER failed in this start
  graphVersion,  \* the value of graph_schema_version, "none" without a row
  graph,         \* the versions of the code that entities were stored by
  schFaults

schVars == <<lacks, place, skipped, graphVersion, graph, schFaults>>

-----------------------------------------------------------------------------
(* The tables: the columns that an INSERT must name, and the others.       *)

Table(required, optional) == [required |-> required, columns |-> required \cup optional]

\* Events, calls of the language model and key figures.
EventTables ==
  [normalized_events |-> Table({"event_id", "timestamp", "ingested_at"}, {"source_type", "source_file",
      "hostname", "username", "process_name", "process_id", "parent_process_name", "parent_process_id",
      "file_path", "file_hash_sha256", "command_line", "src_ip", "src_port", "dst_ip", "dst_port",
      "domain", "url", "event_type", "severity", "confidence", "detection_source", "attack_technique",
      "attack_tactic", "raw_event", "tags", "case_id", "ocsf_class_uid", "event_outcome", "user_domain",
      "process_executable", "network_protocol", "network_direction"}),
   llm_calls |-> Table({"call_id", "called_at", "model", "endpoint"}, {"prompt_chars",
      "completion_chars", "latency_ms", "success", "error_type", "prompt_text", "prompt_hash"}),
   daily_kpi_snapshots |-> Table({"snapshot_date", "computed_at"}, {"mttd_minutes", "mttr_minutes",
      "mttc_minutes", "alert_volume", "false_positive_count", "investigation_count", "detection_count"})]

\* The governance tables, one of them for receipts.
GovernanceTables ==
  [db_meta |-> Table({"key", "value"}, {}),
   recommendations |-> Table({"recommendation_id", "case_id", "type", "proposed_action", "target",
      "scope", "rationale", "evidence_event_ids", "retrieval_sources", "inference_confidence", "model_id",
      "model_run_id", "prompt_inspection", "generated_at", "expires_at", "created_at"}, {"schema_version",
      "analyst_approved", "approved_by", "override_log", "status"}),
   recommendation_dispatch_log |-> Table({"log_id", "recommendation_id", "dispatched_at"},
      {"http_status", "response_body", "failure_taxonomy"}),
   execution_receipts |-> Table({"receipt_id", "recommendation_id", "case_id", "failure_taxonomy",
      "executed_at", "raw_receipt", "received_at"}, {"executor_version", "detail"}),
   notifications |-> Table({"notification_id", "case_id", "receipt_id", "required_action",
      "created_at"}, {"status"})]

\* Cases, entities, edges and detections.
GraphTables ==
  [cases |-> Table({"id", "name", "created_at"}, {"description", "status"}),
   entities |-> Table({"id", "type", "name", "created_at"}, {"attributes", "case_id"}),
   edges |-> Table({"source_type", "source_id", "edge_type", "target_type", "target_id", "created_at"},
      {"id", "properties"}),
   detections |-> Table({"id", "created_at"}, {"rule_id", "rule_name", "severity", "matched_event_ids",
      "attack_technique", "attack_tactic", "explanation", "case_id"})]

\* Investigation cases and what hangs on them.
CaseTables ==
  [investigation_cases |-> Table({"case_id", "title", "created_at", "updated_at"}, {"description",
      "case_status", "related_alerts", "related_entities", "timeline_events", "analyst_notes", "tags",
      "artifacts"}),
   case_artifacts |-> Table({"artifact_id", "case_id", "filename", "file_path", "created_at"},
      {"file_size", "mime_type", "description"}),
   case_tags |-> Table({"case_id", "tag", "created_at"}, {"id"}),
   saved_investigations |-> Table({"id", "graph_snapshot", "created_at"}, {"detection_id", "metadata"}),
   chat_messages |-> Table({"id", "investigation_id", "role", "content", "created_at"}, {})]

\* Playbooks, runs and reports.
PlaybookTables ==
  [playbooks |-> Table({"playbook_id", "name", "created_at"}, {"description", "trigger_conditions",
      "steps", "version", "is_builtin"}),
   playbook_runs |-> Table({"run_id", "playbook_id", "investigation_id", "started_at"}, {"status",
      "completed_at", "steps_completed", "analyst_notes"}),
   reports |-> Table({"id", "type", "title", "created_at"}, {"subject_id", "period_start",
      "period_end", "content_json"})]

\* Operators and provenance.
ProvenanceTables ==
  [operators |-> Table({"operator_id", "username", "hashed_key", "key_prefix", "created_at"}, {"role",
      "totp_secret", "is_active", "last_seen_at"}),
   ingest_provenance |-> Table({"prov_id", "raw_sha256", "source_file", "parser_name", "ingested_at"},
      {"parser_version", "operator_id"}),
   ingest_provenance_events |-> Table({"prov_id", "event_id"}, {}),
   detection_provenance |-> Table({"prov_id", "detection_id", "rule_sha256", "pysigma_version",
      "field_map_version", "detected_at"}, {"rule_id", "rule_title", "operator_id"}),
   llm_audit_provenance |-> Table({"audit_id", "model_id", "created_at"}, {"prompt_template_name",
      "prompt_template_sha256", "response_sha256", "operator_id", "grounding_event_ids",
      "confidence_score"}),
   playbook_run_provenance |-> Table({"prov_id", "run_id", "playbook_file_sha256", "created_at"},
      {"playbook_id", "playbook_version", "trigger_event_ids", "operator_id_who_approved"})]

\* Keys and values, models, hunts, the cache of addresses.
ModelTables ==
  [system_kv |-> Table({"key", "value", "updated_at"}, {}),
   model_change_events |-> Table({"event_id", "detected_at", "active_model"}, {"previous_model",
      "change_source"}),
   hunts |-> Table({"hunt_id", "query", "sql_text", "created_at"}, {"results_json", "row_count",
      "analyst_id"}),
   osint_cache |-> Table({"ip", "result_json", "fetched_at", "expires_at"}, {})]

\* Indicators, hits, triage and feedback.
IntelTables ==
  [ioc_store |-> Table({"ioc_value", "ioc_type", "feed_source", "created_at", "updated_at"},
      {"bare_ip", "confidence", "first_seen", "last_seen", "malware_family", "actor_tag", "ioc_status",
      "extra_json"}),
   ioc_hits |-> Table({"event_timestamp", "ioc_value", "ioc_type", "ioc_source", "risk_score",
      "matched_at"}, {"id", "hostname", "src_ip", "dst_ip", "actor_tag", "malware_family"}),
   triage_results |-> Table({"run_id", "created_at"}, {"severity_summary", "result_text",
      "detection_count", "model_name"}),
   feedback |-> Table({"id", "detection_id", "verdict", "created_at", "updated_at"}, {"features_json"})]

\* Lists of addresses, scanned files, cases to retry.
ScannerTables ==
  [ipsum_blocklist |-> Table({"ip", "tier", "fetched_date"}, {}),
   tor_exit_nodes |-> Table({"ip", "fetched_date"}, {}),
   hayabusa_scanned_files |-> Table({"file_sha256", "file_path", "scanned_at"}, {"id", "findings"}),
   chainsaw_scanned_files |-> Table({"file_sha256", "file_path", "scanned_at"}, {"id", "findings"}),
   thehive_pending_cases |-> Table({"detection_json"}, {"id", "created_at", "attempts", "last_error"})]

\* OSINT investigations and the privacy lists.
OsintTables ==
  [osint_investigations |-> Table({"id", "target", "started_at"}, {"target_type", "usecase", "status",
      "completed_at", "result_summary", "error"}),
   osint_findings |-> Table({"investigation_id", "event_type", "data", "created_at"}, {"id",
      "source_module", "confidence", "misp_hit", "misp_event_ids"}),
   dnstwist_findings |-> Table({"investigation_id", "seed_domain", "lookalike_domain", "created_at"},
      {"id", "fuzzer", "dns_a", "dns_mx", "whois_registrar", "whois_created"}),
   privacy_blocklist |-> Table({"domain", "category", "updated_at"}, {"company"}),
   privacy_feed_meta |-> Table({"feed"}, {"last_sync", "domain_count"})]

\* ATT&CK.
AttackTables ==
  [attack_techniques |-> Table({"tech_id", "name", "tactic"}, {}),
   attack_groups |-> Table({"stix_id", "name"}, {"group_id", "aliases"}),
   attack_group_techniques |-> Table({"stix_group_id", "tech_id"}, {}),
   detection_techniques |-> Table({"detection_id", "tech_id"}, {})]

\* Assets.
AssetTables ==
  [assets |-> Table({"ip", "tag", "last_seen", "first_seen"}, {"hostname", "risk_score"})]

\* Analytics of CAR.
CarTables ==
  [car_analytics |-> Table({"analytic_id", "technique_id", "title"}, {"description", "log_sources",
      "analyst_notes", "pseudocode", "coverage_level", "platforms"})]

\* Atomic tests.
AtomicTables ==
  [atomics |-> Table({"technique_id", "test_number", "test_name"}, {"display_name",
      "auto_generated_guid", "description", "supported_platforms", "executor_name", "elevation_required",
      "command", "cleanup_command", "prereq_command", "input_arguments"}),
   atomics_validation_results |-> Table({"technique_id", "test_number", "verdict", "validated_at"},
      {"detection_id"})]

TABLES == EventTables @@ GovernanceTables @@ GraphTables @@ CaseTables @@ PlaybookTables @@
          ProvenanceTables @@ ModelTables @@ IntelTables @@ ScannerTables @@ OsintTables @@
          AttackTables @@ AssetTables @@ CarTables @@ AtomicTables @@
          [db_meta |-> Table({"key", "value"}, {})]

\* The phase of a table, 0 for those of before the phases.
Since(t) ==
  CASE t \in DOMAIN GovernanceTables \cap {"execution_receipts", "notifications"} -> 25
    [] t \in {"recommendations", "recommendation_dispatch_log"} -> 24
    [] t = "db_meta" -> 20
    [] t = "system_kv" -> 26
    [] t \in {"ioc_store", "ioc_hits"} -> 33
    [] t \in DOMAIN AttackTables \cup DOMAIN AssetTables -> 34
    [] t = "triage_results" -> 35
    [] t \in DOMAIN CarTables -> 39
    [] t \in DOMAIN AtomicTables -> 40
    [] t \in {"ipsum_blocklist", "tor_exit_nodes"} -> 41
    [] t = "feedback" -> 44
    [] t = "hayabusa_scanned_files" -> 48
    [] t = "chainsaw_scanned_files" -> 49
    [] t \in {"osint_investigations", "osint_findings", "dnstwist_findings"} -> 51
    [] t = "thehive_pending_cases" -> 52
    [] t \in {"privacy_blocklist", "privacy_feed_meta"} -> 53
    [] OTHER -> 0

-----------------------------------------------------------------------------
(* The steps of a start, in their order.  The columns without a phase are  *)
(* of before phase 20.                                                     *)

Creates(ts) == <<[op |-> "create", tables |-> ts]>>
Adds(phase, t, cs) ==
  [i \in DOMAIN cs |-> [op |-> "add", since |-> phase, column |-> <<t, cs[i]>>]]

EcsColumns ==
    Adds(20, "normalized_events", <<"ocsf_class_uid", "event_outcome", "user_domain",
      "process_executable", "network_protocol", "network_direction">>) \o
    Adds(31, "normalized_events", <<"dns_query", "dns_query_type", "dns_rcode", "dns_answers",
      "dns_ttl", "tls_version", "tls_ja3", "tls_ja3s", "tls_sni", "tls_cipher", "tls_cert_subject",
      "tls_validation_status", "file_md5", "file_sha256_eve", "file_mime_type", "file_size_bytes",
      "http_method", "http_uri", "http_status_code", "http_user_agent">>) \o
    Adds(33, "normalized_events", <<"ioc_matched", "ioc_confidence", "ioc_actor_tag">>) \o
    Adds(36, "normalized_events", <<"conn_state", "conn_duration", "conn_orig_bytes",
      "conn_resp_bytes", "zeek_notice_note", "zeek_notice_msg", "zeek_weird_name",
      "ssh_auth_success", "ssh_version", "kerberos_client", "kerberos_service", "ntlm_domain",
      "ntlm_username", "smb_path", "smb_action", "rdp_cookie", "rdp_security_protocol">>) \o
    Adds(42, "normalized_events", <<"anomaly_score">>) \o
    Adds(53, "normalized_events", <<"http_referrer", "http_request_body_len",
      "http_response_body_len", "http_resp_mime_type">>)

\* initialise_schema.
DuckSteps ==
  Creates(DOMAIN EventTables \cup {"db_meta", "recommendations", "recommendation_dispatch_log"}) \o
  EcsColumns \o
  Adds(19, "llm_calls", <<"prompt_text", "prompt_hash">>) \o
  Creates({"execution_receipts", "notifications"})

\* What one executescript creates.
ScriptTables == DOMAIN GraphTables \cup DOMAIN CaseTables \cup DOMAIN PlaybookTables \cup
                DOMAIN ProvenanceTables \cup DOMAIN ModelTables \cup DOMAIN IntelTables

DetectionColumns ==
  Adds(19, "detections", <<"risk_score">>) \o
  Adds(19, "llm_audit_provenance", <<"confidence_score">>) \o
  Adds(35, "detections", <<"triaged_at">>)

PlaybookColumns ==
  Adds(38, "playbooks", <<"source">>) \o
  Adds(38, "playbook_runs", <<"escalation_acknowledged", "active_case_id">>) \o
  Adds(46, "playbooks", <<"category">>)

LaterColumns ==
  Adds(39, "detections", <<"car_analytics">>) \o
  Adds(43, "detections", <<"entity_key">>) \o
  Adds(44, "feedback", <<"features_json">>)

HiveColumns ==
  Adds(52, "detections", <<"thehive_case_id", "thehive_case_num", "thehive_status",
                           "thehive_closed_at", "thehive_analyst">>)

ClassColumns ==
  Adds(48, "detections", <<"detection_source">>) \o
  Adds(41, "osint_cache", <<"ip_type", "ipsum_tier", "is_tor", "is_proxy", "is_datacenter">>)

\* SQLiteStore.__init__.
SqliteSteps ==
  Creates(ScriptTables) \o DetectionColumns \o PlaybookColumns \o LaterColumns \o
  Creates(DOMAIN ScannerTables \ {"thehive_pending_cases"}) \o
  Creates(DOMAIN OsintTables \cup {"thehive_pending_cases"}) \o HiveColumns \o ClassColumns \o
  <<[op |-> "seed"], [op |-> "upgrade"]>>

\* The stores that init_stores makes of the connection.
OtherSteps ==
  Creates(DOMAIN AssetTables) \o Creates(DOMAIN AttackTables) \o
  Creates(DOMAIN CarTables) \o Creates(DOMAIN AtomicTables)

STEPS == DuckSteps \o SqliteSteps \o OtherSteps

Altered == {STEPS[i] : i \in {j \in DOMAIN STEPS : STEPS[j].op = "add"}}
Known == (UNION {{<<t, c>> : c \in TABLES[t].columns} : t \in DOMAIN TABLES})
         \cup {s.column : s \in Altered}

-----------------------------------------------------------------------------
(* The statements of the program: the columns that an INSERT gives values, *)
(* the columns that a statement reads, sets or compares.                   *)

Insert(t, cs) == [op |-> "insert", table |-> t, columns |-> cs]
Use(t, cs) == [op |-> "use", table |-> t, columns |-> cs]

CaseStatements ==
  {Insert("cases", {"id", "name", "description", "status", "created_at"}),
   Use("cases", {"id", "status", "created_at"})}

EntityStatements ==
  {Insert("entities", {"id", "type", "name", "attributes", "case_id", "created_at"}),
   Use("cases", {"id"}),
   Use("entities", {"id", "type", "name", "case_id"})}

EdgeStatements ==
  {Insert("edges", {"source_type", "source_id", "edge_type", "target_type", "target_id", "properties",
      "created_at"}),
   Use("edges", {"source_type", "source_id", "edge_type", "target_type", "target_id", "properties",
      "created_at"})}

DetectionStatements ==
  {Insert("detections", {"id", "rule_id", "rule_name", "severity", "matched_event_ids",
      "attack_technique", "attack_tactic", "explanation", "case_id", "created_at", "entity_key",
      "detection_source"}),
   Insert("hayabusa_scanned_files", {"file_sha256", "file_path", "scanned_at", "findings"}),
   Insert("chainsaw_scanned_files", {"file_sha256", "file_path", "scanned_at", "findings"}),
   Use("cases", {"id"}),
   Use("hayabusa_scanned_files", {"file_sha256"}),
   Use("chainsaw_scanned_files", {"file_sha256"}),
   Use("detections", {"id", "case_id", "created_at"})}

TriageStatements ==
  {Insert("triage_results", {"run_id", "severity_summary", "result_text", "detection_count",
      "model_name", "created_at"}),
   Use("triage_results", {"created_at"})}

InvestigationStatements ==
  {Insert("investigation_cases", {"case_id", "title", "description", "case_status", "related_alerts",
      "related_entities", "timeline_events", "analyst_notes", "tags", "artifacts", "created_at",
      "updated_at"}),
   Insert("case_artifacts", {"artifact_id", "case_id", "filename", "file_path", "file_size",
      "mime_type", "description", "created_at"}),
   Use("investigation_cases", {"case_id", "title", "description", "case_status", "related_alerts",
      "related_entities", "timeline_events", "analyst_notes", "tags", "artifacts", "created_at",
      "updated_at"}),
   Use("case_artifacts", {"case_id", "created_at"})}

ChatStatements ==
  {Insert("saved_investigations", {"id", "detection_id", "graph_snapshot", "metadata", "created_at"}),
   Insert("chat_messages", {"id", "investigation_id", "role", "content", "created_at"}),
   Use("saved_investigations", {"id", "detection_id", "graph_snapshot", "metadata", "created_at"}),
   Use("chat_messages", {"id", "investigation_id", "role", "content", "created_at"})}

PlaybookStatements ==
  {Insert("playbooks", {"playbook_id", "name", "description", "trigger_conditions", "steps", "version",
      "is_builtin", "source", "category", "created_at"}),
   Insert("playbook_runs", {"run_id", "playbook_id", "investigation_id", "status", "started_at",
      "completed_at", "steps_completed", "analyst_notes"}),
   Use("playbooks", {"playbook_id", "trigger_conditions", "created_at"}),
   Use("playbook_runs", {"run_id", "playbook_id", "started_at", "status", "completed_at",
      "steps_completed", "analyst_notes"}),
   Use("detections", {"attack_technique", "attack_tactic"})}

ReportStatements ==
  {Insert("reports", {"id", "type", "title", "subject_id", "period_start", "period_end",
      "content_json", "created_at"}),
   Use("investigation_cases", {"case_id"}),
   Use("detections", {"id"}),
   Use("reports", {"id", "created_at"})}

OperatorStatements ==
  {Insert("operators", {"operator_id", "username", "hashed_key", "key_prefix", "role", "is_active",
      "created_at"}),
   Use("operators", {"operator_id", "username", "hashed_key", "key_prefix", "role", "totp_secret",
      "is_active", "created_at", "last_seen_at"})}

ProvenanceStatements ==
  {Insert("ingest_provenance", {"prov_id", "raw_sha256", "source_file", "parser_name",
      "parser_version", "operator_id", "ingested_at"}),
   Insert("ingest_provenance_events", {"prov_id", "event_id"}),
   Insert("detection_provenance", {"prov_id", "detection_id", "rule_id", "rule_title", "rule_sha256",
      "pysigma_version", "field_map_version", "operator_id", "detected_at"}),
   Use("ingest_provenance", {"prov_id", "raw_sha256", "source_file", "parser_name", "parser_version",
      "operator_id", "ingested_at"}),
   Use("ingest_provenance_events", {"prov_id", "event_id"}),
   Use("detection_provenance", {"detection_id"})}

AuditStatements ==
  {Insert("llm_audit_provenance", {"audit_id", "model_id", "prompt_template_name",
      "prompt_template_sha256", "response_sha256", "operator_id", "grounding_event_ids", "created_at"}),
   Insert("playbook_run_provenance", {"prov_id", "run_id", "playbook_id", "playbook_file_sha256",
      "playbook_version", "trigger_event_ids", "operator_id_who_approved", "created_at"}),
   Use("llm_audit_provenance", {"audit_id", "confidence_score"}),
   Use("playbook_run_provenance", {"run_id"})}

KvStatements ==
  {Insert("system_kv", {"key", "value", "updated_at"}),
   Insert("model_change_events", {"event_id", "detected_at", "previous_model", "active_model",
      "change_source"}),
   Use("system_kv", {"key", "value"}),
   Use("model_change_events", {"detected_at"})}

HuntStatements ==
  {Insert("hunts", {"hunt_id", "query", "sql_text", "results_json", "row_count", "analyst_id",
      "created_at"}),
   Use("hunts", {"hunt_id", "analyst_id", "created_at"})}

CacheStatements ==
  {Insert("osint_cache", {"ip", "result_json", "fetched_at", "expires_at"}),
   Insert("ipsum_blocklist", {"ip", "tier", "fetched_date"}),
   Insert("tor_exit_nodes", {"ip", "fetched_date"}),
   Use("ipsum_blocklist", {"ip", "tier", "fetched_date"}),
   Use("tor_exit_nodes", {"ip", "fetched_date"}),
   Use("osint_cache", {"ip", "result_json", "fetched_at", "ip_type", "ipsum_tier", "is_tor",
      "is_proxy", "is_datacenter"})}

FeedbackStatements ==
  {Insert("feedback", {"id", "detection_id", "verdict", "created_at", "updated_at"}),
   Use("feedback", {"detection_id", "verdict"})}

AttackStatements ==
  {Insert("attack_techniques", {"tech_id", "name", "tactic"}),
   Insert("attack_groups", {"stix_id", "group_id", "name", "aliases"}),
   Insert("attack_group_techniques", {"stix_group_id", "tech_id"})}

ActorStatements ==
  {Insert("detection_techniques", {"detection_id", "tech_id"}),
   Use("attack_techniques", {"tech_id", "name", "tactic"}),
   Use("attack_groups", {"stix_id", "group_id", "name", "aliases"}),
   Use("attack_group_techniques", {"stix_group_id", "tech_id"})}

AssetStatements ==
  {Insert("assets", {"ip", "hostname", "tag", "last_seen", "first_seen"}),
   Use("assets", {"ip", "hostname", "tag", "last_seen", "first_seen"})}

CarStatements ==
  {Insert("car_analytics", {"analytic_id", "technique_id", "title", "description", "log_sources",
      "analyst_notes", "pseudocode", "coverage_level", "platforms"}),
   Use("car_analytics", {"analytic_id", "technique_id", "title", "description", "log_sources",
      "analyst_notes", "pseudocode", "coverage_level", "platforms"})}

AtomicStatements ==
  {Insert("atomics", {"technique_id", "display_name", "test_number", "test_name",
      "auto_generated_guid", "description", "supported_platforms", "executor_name", "elevation_required",
      "command", "cleanup_command", "prereq_command", "input_arguments"}),
   Insert("atomics_validation_results", {"technique_id", "test_number", "verdict", "validated_at",
      "detection_id"}),
   Use("atomics", {"technique_id", "display_name", "test_number"}),
   Use("atomics_validation_results", {"technique_id", "test_number", "verdict", "validated_at",
      "detection_id"})}

IocStatements ==
  {Insert("ioc_store", {"ioc_value", "ioc_type", "bare_ip", "confidence", "first_seen", "last_seen",
      "malware_family", "actor_tag", "feed_source", "ioc_status", "extra_json", "created_at",
      "updated_at"}),
   Use("ioc_store", {"ioc_value", "ioc_type", "bare_ip", "confidence", "last_seen", "malware_family",
      "actor_tag", "ioc_status", "extra_json", "updated_at"})}

HitStatements ==
  {Insert("ioc_hits", {"event_timestamp", "hostname", "src_ip", "dst_ip", "ioc_value", "ioc_type",
      "ioc_source", "risk_score", "actor_tag", "malware_family", "matched_at"}),
   Use("ioc_store", {"ioc_value", "ioc_type", "confidence", "first_seen", "last_seen",
      "malware_family", "actor_tag", "feed_source", "ioc_status", "extra_json", "updated_at"}),
   Use("ioc_hits", {"id", "event_timestamp", "hostname", "src_ip", "dst_ip", "ioc_value", "ioc_type",
      "ioc_source", "risk_score", "actor_tag", "malware_family", "matched_at"}),
   Use("system_kv", {"key", "value"})}

OsintStatements ==
  {Insert("osint_investigations", {"id", "target", "target_type", "usecase", "status", "started_at"}),
   Insert("osint_findings", {"investigation_id", "event_type", "data", "source_module", "confidence",
      "created_at", "misp_hit", "misp_event_ids"}),
   Insert("dnstwist_findings", {"investigation_id", "seed_domain", "fuzzer", "lookalike_domain",
      "dns_a", "dns_mx", "whois_registrar", "whois_created", "created_at"}),
   Use("osint_investigations", {"id", "status", "started_at", "completed_at", "result_summary",
      "error"}),
   Use("ioc_store", {"ioc_value", "ioc_type", "confidence", "malware_family", "actor_tag",
      "feed_source", "ioc_status"}),
   Use("dnstwist_findings", {"investigation_id", "seed_domain", "lookalike_domain"}),
   Use("osint_findings", {"id", "investigation_id", "event_type"})}

PrivacyStatements ==
  {Insert("privacy_blocklist", {"domain", "category", "company", "updated_at"}),
   Insert("privacy_feed_meta", {"feed", "last_sync", "domain_count"}),
   Use("privacy_blocklist", {"domain", "category"}),
   Use("privacy_feed_meta", {"feed", "last_sync", "domain_count"})}

HiveStatements ==
  {Use("detections", {"thehive_case_id", "thehive_status", "thehive_closed_at", "thehive_analyst"}),
   Use("thehive_pending_cases", {"id", "detection_json", "created_at", "attempts", "last_error"})}

EventStatements ==
  {Insert("normalized_events", {"event_id", "timestamp", "ingested_at", "source_type", "source_file",
      "hostname", "username", "process_name", "process_id", "parent_process_name", "parent_process_id",
      "file_path", "file_hash_sha256", "command_line", "src_ip", "src_port", "dst_ip", "dst_port",
      "domain", "url", "event_type", "severity", "confidence", "detection_source", "attack_technique",
      "attack_tactic", "raw_event", "tags", "case_id", "ocsf_class_uid", "event_outcome", "user_domain",
      "process_executable", "network_protocol", "network_direction", "dns_query", "dns_query_type",
      "dns_rcode", "dns_answers", "dns_ttl", "tls_version", "tls_ja3", "tls_ja3s", "tls_sni",
      "tls_cipher", "tls_cert_subject", "tls_validation_status", "file_md5", "file_sha256_eve",
      "file_mime_type", "file_size_bytes", "http_method", "http_uri", "http_status_code",
      "http_user_agent", "ioc_matched", "ioc_confidence", "ioc_actor_tag", "conn_state", "conn_duration",
      "conn_orig_bytes", "conn_resp_bytes", "zeek_notice_note", "zeek_notice_msg", "zeek_weird_name",
      "ssh_auth_success", "ssh_version", "kerberos_client", "kerberos_service", "ntlm_domain",
      "ntlm_username", "smb_path", "smb_action", "rdp_cookie", "rdp_security_protocol", "anomaly_score",
      "http_referrer", "http_request_body_len", "http_response_body_len", "http_resp_mime_type"})}

CallStatements ==
  {Insert("llm_calls", {"call_id", "called_at", "model", "endpoint", "prompt_chars",
      "completion_chars", "latency_ms", "success", "error_type", "prompt_text", "prompt_hash"})}

AnomalyStatements ==
  {Use("normalized_events", {"event_id", "timestamp", "hostname", "process_name", "src_ip",
      "event_type", "severity", "anomaly_score"})}

TelemetryStatements ==
  {Use("normalized_events", {"timestamp", "event_type"}),
   Use("normalized_events", {"ioc_matched"}),
   Use("detections", {"rule_name", "severity", "created_at"}),
   Use("assets", {})}

LedgerStatements ==
  {Use("detection_provenance", {"detection_id", "rule_id", "rule_title", "detected_at"}),
   Use("llm_audit_provenance", {"audit_id", "model_id", "prompt_template_name", "created_at"}),
   Use("playbook_run_provenance", {"run_id", "playbook_id", "created_at"}),
   Use("ingest_provenance", {"prov_id", "source_file", "ingested_at"})}

TagStatements ==
  {Insert("case_tags", {"case_id", "tag", "created_at"}),
   Use("case_tags", {"case_id", "tag", "created_at"}),
   Use("investigation_cases", {"case_id"})}

KpiStatements ==
  {Insert("daily_kpi_snapshots", {"snapshot_date", "mttd_minutes", "mttr_minutes", "mttc_minutes",
      "alert_volume", "false_positive_count", "investigation_count", "detection_count", "computed_at"})}

RetentionStatements == {Use("events", {"timestamp"})}

ScoreStatements ==
  {Use("detections", {"id", "severity", "matched_event_ids", "attack_technique", "risk_score"}),
   Use("normalized_events", {"event_id", "process_name", "parent_process_name", "severity",
      "attack_technique", "process_path", "dest_ip", "dest_port"})}

IncidentStatements ==
  {Use("detections", {"case_id"}),
   Use("ioc_hits", {"matched_at"}),
   Use("attack_techniques", {"technique_id", "name", "tactic"}),
   Use("detection_techniques", {"technique_id"})}

ReviewStatements ==
  {Use("detections", {"id", "investigation_id"}),
   Use("attack_techniques", {"technique_id", "name", "tactic"}),
   Use("detection_techniques", {"detection_id", "technique_id"}),
   Use("playbook_runs", {"investigation_id", "started_at"})}

BulletinStatements ==
  {Use("attack_groups", {"name"}),
   Use("attack_techniques", {"technique_id", "name", "tactic"}),
   Use("attack_group_techniques", {"stix_group_id", "technique_id"}),
   Use("ioc_store", {"ioc_value", "ioc_type", "confidence", "malware_family", "actor_tag",
      "feed_source", "ioc_status"}),
   Use("asset_store", {"ip", "hostname", "tag", "risk_score"})}

SigmaStatements ==
    {Use("normalized_events", {"process_name", "command_line", "process_id", "parent_process_name",
      "parent_process_id", "username", "hostname", "dst_ip", "dst_port", "src_ip", "src_port",
      "domain", "file_path", "file_hash_sha256", "event_type", "source_file", "tags",
      "attack_technique", "process_executable", "user_domain", "network_protocol", "dns_query",
      "http_user_agent", "tls_ja3", "conn_state", "conn_duration", "conn_orig_bytes",
      "conn_resp_bytes", "zeek_weird_name", "zeek_notice_note", "zeek_notice_msg",
      "ssh_auth_success", "ssh_version", "kerberos_client", "kerberos_service", "ntlm_username",
      "ntlm_domain", "smb_path", "smb_action", "rdp_security_protocol", "rdp_cookie",
      "event_outcome"})}

\* The statements of the stores and of the routes that were found to match.
StoreStatements ==
  CaseStatements \cup EntityStatements \cup EdgeStatements \cup DetectionStatements \cup
    TriageStatements \cup InvestigationStatements \cup ChatStatements \cup PlaybookStatements \cup
    ReportStatements \cup OperatorStatements \cup ProvenanceStatements \cup AuditStatements \cup
    KvStatements \cup HuntStatements \cup CacheStatements \cup FeedbackStatements \cup
    AttackStatements \cup ActorStatements \cup AssetStatements \cup CarStatements \cup
    AtomicStatements \cup IocStatements \cup HitStatements \cup OsintStatements \cup
    PrivacyStatements \cup HiveStatements \cup EventStatements \cup CallStatements \cup
    AnomalyStatements \cup TelemetryStatements \cup LedgerStatements \cup TagStatements \cup
    KpiStatements \cup SigmaStatements

\* Statements of a job and of routes, written apart from the stores.
DirectStatements ==
  RetentionStatements \cup ScoreStatements \cup IncidentStatements \cup ReviewStatements \cup
    BulletinStatements

Finds(s) ==
  /\ \A c \in s.columns : <<s.table, c>> \in Known \ lacks
  /\ s.table \in DOMAIN TABLES
  /\ s.op = "insert" => TABLES[s.table].required \subseteq s.columns

(* What the text of the program fixes: a table is created before a column  *)
(* is added to it, every table is created, and a statement of the stores   *)
(* names columns that the text creates or adds, an INSERT all it must.     *)
ASSUME StepsAreWhole ==
  /\ STEPS \in Seq({STEPS[i] : i \in DOMAIN STEPS})
  /\ \A i \in DOMAIN STEPS :
       STEPS[i].op = "add" => \E j \in 1..(i - 1) : STEPS[j].op = "create" /\ STEPS[i].column[1] \in STEPS[j].tables
  /\ \A i \in DOMAIN STEPS : STEPS[i].op = "create" => STEPS[i].tables \subseteq DOMAIN TABLES
  /\ \A t \in DOMAIN TABLES :
       /\ TABLES[t].columns # {}
       /\ \E i \in DOMAIN STEPS : STEPS[i].op = "create" /\ t \in STEPS[i].tables
ASSUME StatementsAreKnown ==
  \A s \in StoreStatements :
    /\ s.table \in DOMAIN TABLES /\ \A c \in s.columns : <<s.table, c>> \in Known
    /\ s.op = "insert" => TABLES[s.table].required \subseteq s.columns

-----------------------------------------------------------------------------
(* What is found: no database, or that of an earlier version.              *)

SinceColumn(t, c) ==
  IF \E s \in Altered : s.column = <<t, c>>
  THEN (CHOOSE s \in Altered : s.column = <<t, c>>).since
  ELSE Since(t)

LackedAt(version) == {k \in Known : Since(k[1]) > version \/ SinceColumn(k[1], k[2]) > version}

SchemaInit ==
  /\ \/ lacks = Known /\ graphVersion = "none" /\ graph = {}
     \/ \E v \in Versions :
          /\ lacks = LackedAt(v)
          /\ \/ v < 26 /\ graphVersion = "none" /\ graph \in {{}, {"old"}}
             \/ v >= 26 /\ graphVersion = "1.0.0" /\ graph \in SUBSET {"old", "new"}
             \/ v >= 26 /\ graphVersion = "2.0.0" /\ graph \in {{}, {"new"}}
  /\ place = 0
  /\ skipped = {}
  /\ schFaults = 0

Down == place = 0
Serves == place = Len(STEPS) + 1
Starting == ~Down /\ ~Serves
StepIs(op) == Starting /\ STEPS[place].op = op

Start ==
  /\ Down
  /\ place' = 1
  /\ skipped' = {}
  /\ UNCHANGED <<lacks, graphVersion, graph, schFaults>>

Exists(t) == \E c \in TABLES[t].columns : <<t, c>> \notin lacks

\* CREATE TABLE IF NOT EXISTS: a table that exists is left as it is.
CreateTables ==
  /\ StepIs("create")
  /\ lacks' = lacks \ UNION {{<<t, c>> : c \in TABLES[t].columns} :
                               t \in {u \in STEPS[place].tables : ~Exists(u)}}
  /\ place' = place + 1
  /\ UNCHANGED <<skipped, graphVersion, graph, schFaults>>

\* Mutant: the columns are added in one try, so that the first that is there
\* ends it and the others of the table stay out.
AfterDuplicateLost(i) ==
  IF STEPS[i].column \in lacks
  THEN {i + 1}
  ELSE {CHOOSE j \in (i + 1)..(Len(STEPS) + 1) :
          /\ j > Len(STEPS) \/ STEPS[j].op # "add" \/ STEPS[j].column[1] # STEPS[i].column[1]
          /\ \A k \in i..(j - 1) : STEPS[k].op = "add" /\ STEPS[k].column[1] = STEPS[i].column[1]}

\* Where the start goes on after the ALTER of a step, whether it failed or not.
AfterAlter(i) == {i + 1}

\* ALTER TABLE ADD COLUMN in a try of its own: a column that is there raises.
Add ==
  /\ StepIs("add")
  /\ lacks' = lacks \ {STEPS[place].column}
  /\ place' \in AfterAlter(place)
  /\ UNCHANGED <<skipped, graphVersion, graph, schFaults>>

\* Any other error is swallowed alike: the column stays out.
AddFails ==
  /\ StepIs("add") /\ schFaults < MaxSchFaults
  /\ schFaults' = schFaults + 1
  /\ skipped' = skipped \cup ({STEPS[place].column} \cap lacks)
  /\ place' \in AfterAlter(place)
  /\ UNCHANGED <<lacks, graphVersion, graph>>

\* INSERT OR IGNORE of the version that an installation without a row has.
Seed ==
  /\ StepIs("seed")
  /\ graphVersion' = IF graphVersion = "none" THEN "1.0.0" ELSE graphVersion
  /\ place' = place + 1
  /\ UNCHANGED <<lacks, skipped, graph, schFaults>>

\* Mutant: the version is raised without counting the entities.
MayUpgradeAlways == graphVersion = "1.0.0"

\* A graph without entities, and a version that is still the default.
MayUpgrade == graph = {} /\ graphVersion = "1.0.0"

Upgrade ==
  /\ StepIs("upgrade")
  /\ graphVersion' = IF MayUpgrade THEN "2.0.0" ELSE graphVersion
  /\ place' = place + 1
  /\ UNCHANGED <<lacks, skipped, graph, schFaults>>

\* Both statements on the version swallow their errors.
VersionFails ==
  /\ StepIs("seed") \/ StepIs("upgrade")
  /\ schFaults < MaxSchFaults
  /\ schFaults' = schFaults + 1
  /\ place' = place + 1
  /\ UNCHANGED <<lacks, skipped, graphVersion, graph>>

\* A statement that creates tables raises, or the process ends in between.
\* What was done stays: no step is undone.
Dies ==
  /\ Starting /\ schFaults < MaxSchFaults
  /\ schFaults' = schFaults + 1
  /\ place' = 0
  /\ UNCHANGED <<lacks, skipped, graphVersion, graph>>

\* Entities are stored while the program runs.
StoreEntity ==
  /\ Serves
  /\ graph' = graph \cup {"new"}
  /\ UNCHANGED <<lacks, place, skipped, graphVersion, schFaults>>

Stop ==
  /\ Serves
  /\ place' = 0
  /\ UNCHANGED <<lacks, skipped, graphVersion, graph, schFaults>>

SchemaNext == Start \/ CreateTables \/ Add \/ AddFails \/ Seed \/ Upgrade \/ VersionFails \/ Dies
              \/ StoreEntity \/ Stop

SchemaSpec == SchemaInit /\ [][SchemaNext]_schVars

-----------------------------------------------------------------------------

\* When the program serves, every statement of the stores runs, whatever
\* version or interrupted start the database is from, except those that need
\* a column whose ALTER was refused in this very start.
SchemaIsWhole ==
  Serves => \A s \in StoreStatements :
               Finds(s) \/ \E c \in s.columns : <<s.table, c>> \in skipped

\* A graph that calls itself 2.0.0 holds no entity that code of before the
\* version stored, whatever start set the version.
GraphVersionIsTrue == graphVersion = "2.0.0" => "old" \notin graph

\* After a start without an error the jobs and reports have their tables: the
\* purge deletes "events older than retention_days from DuckDB"
\* (startup/workers.py:100), and the reports list what the database holds.
DirectStatementsRun == Serves /\ skipped = {} => \A s \in DirectStatements : Finds(s)

=============================================================================
