---------------------------- MODULE SourceTables ----------------------------
(***************************************************************************)
(* The source normalizers (internal/normalizers): Apply names an event after *)
(* what its text contains, by one table for each type of source.             *)
(*                                                                           *)
(* A text is the set of the needles found in it, in lower case; a name is    *)
(* the text of one needle. An event keeps the fields and tags that decide    *)
(* what becomes of it; asset names, targets and hints for display are left   *)
(* out.                                                                      *)
(***************************************************************************)
EXTENDS Integers, Sequences, FiniteSets

CONSTANT Inside     \* Inside[w]: the other needles that occur inside the needle w

Text(ws) == ws \cup UNION {Inside[w] : w \in ws \cap DOMAIN Inside}
HasAny(text, needles) == text \cap needles # {}

\* The tags of f, and those of g that f does not have.
Merge(f, g) == [k \in DOMAIN f \cup DOMAIN g |-> IF k \in DOMAIN f THEN f[k] ELSE g[k]]

SetTag(evt, key, value) == [evt EXCEPT !.tags = Merge([k \in {key} |-> value], @)]
Tag(evt, key) == IF key \in DOMAIN evt.tags THEN evt.tags[key] ELSE ""

-----------------------------------------------------------------------------
(* The tables. A row is <<needles, name, category, severity>>; "" leaves a   *)
(* field as it is, and "error if info" sets a severity that says nothing.    *)

FirewallRows == <<
    <<{"block"},  "firewall_block",  "security", "warning if info">>,
    <<{"reject"}, "firewall_reject", "security", "warning if info">>,
    <<{"pass"},   "firewall_pass",   "network_traffic if system", "">> >>

PLCRows == <<
    <<{"attempting to login"}, "plc_login_attempt", "access_control",  "info">>,
    <<{"login success"},       "plc_login_success", "access_control",  "info">>,
    <<{"user logout"},         "plc_user_logout",   "operator_action", "info">>,
    <<{"plc started"},         "plc_started",       "system",          "info">>,
    <<{"plc stopped", "plc stoped"}, "plc_stopped", "system",          "warning">> >>

SCADARows == <<
    <<{"fuxa started"}, "scada_runtime_started", "system_health", "">>,
    <<{"_readmemory error!"}, "scada_plc_read_memory_error", "data_collection", "error if info">>,
    <<{"try to connect"}, "scada_plc_connection_attempt", "data_collection", "">>,
    <<{"'opcua' connected!"}, "scada_opcua_connected", "data_collection", "">>,
    <<{"' connected!", "'plc1' connected"}, "scada_plc_connected", "data_collection", "">>,
    <<{"'opcua' subscription created"}, "scada_opcua_subscription_created", "data_collection", "">>,
    <<{"'opcua' connection lost!"}, "scada_opcua_connection_lost", "data_collection", "error">>,
    <<{"'opcua' session closed"}, "scada_opcua_session_closed", "data_collection", "warning">>,
    <<{"connect econnrefused"}, "scada_plc_connection_refused", "data_collection", "error">>,
    <<{"working (connection || polling) overload", "polling overload"},
      "scada_polling_overload", "data_collection", "warning">>,
    <<{"load.script", "script load error"}, "scada_script_load_error", "error", "error">>,
    <<{"connection_break", "opcua connection break"},
      "scada_opcua_connection_break", "pki_validation", "warning">>,
    <<{"san mismatch", "node-opcua-w06"},
      "scada_opcua_certificate_san_mismatch", "pki_validation", "warning">>,
    <<{"runtime.update-project: restart", "runtime restart"},
      "scada_runtime_restart", "project_activity", "">>,
    <<{"settings updated", "server settings changed"},
      "scada_settings_updated", "operator_action", "">>,
    <<{"user created"}, "scada_user_created", "access_control", "">>,
    <<{"connection timeout", "transaction timeout"},
      "scada_connection_timeout", "data_collection", "warning">> >>

EWSRows == <<
    <<{"suspicious_file_change"}, "ews_suspicious_file_change", "security", "warning">>,
    <<{"collector_send_failed"}, "collector_send_failed", "error", "warning">>,
    <<{"collector_send_recovered"}, "collector_send_recovered", "system_health", "info">>,
    <<{"private_key_access_attempt_or_skip"},
      "private_key_access_attempt_or_skip", "security", "warning">>,
    <<{"ews_heartbeat"}, "ews_heartbeat", "system_health", "">> >>

OPCUARows == <<
    <<{"server startup", "server_startup"}, "server_startup", "system_health", "">>,
    <<{"server ready", "server_ready"}, "server_ready", "system_health", "">>,
    <<{"modbus connection failed", "modbus_connection_failed"},
      "modbus_connection_failed", "data_collection", "error">>,
    <<{"modbus connection recovered", "modbus_connection_recovered"},
      "modbus_connection_recovered", "system_health", "">>,
    <<{"modbus_write_failed"}, "modbus_write_failed", "error", "error">>,
    <<{"unauthorized_write"}, "unauthorized_write", "access_control", "warning">>,
    <<{"sensitive_write_accepted"}, "sensitive_write_accepted", "sensitive_operator_action", "">>,
    <<{"opcua_write_rejected"}, "opcua_write_rejected", "error", "error">>,
    <<{"session_activated"}, "session_activated", "session", "">>,
    <<{"unexpected_anonymous_session"}, "unexpected_anonymous_session", "access_control", "warning">>,
    <<{"abnormal_session_close"}, "abnormal_session_close", "session", "warning">>,
    <<{"certificate_verified"}, "certificate_verified", "pki_lifecycle", "">>,
    <<{"pki_load_failed"}, "pki_load_failed", "pki_lifecycle", "critical">> >>

GDSAgentRows == <<
    <<{"certificate_expiry_critical"}, "certificate_expiry_critical", "pki_validation", "critical">>,
    <<{"certificate_inventory_drift_detected"},
      "certificate_inventory_drift_detected", "pki_validation", "">>,
    <<{"gds_cert_missing_runtime"}, "gds_cert_missing_runtime", "pki_validation", "warning">>,
    <<{"gds_telemetry_pulled"}, "gds_telemetry_pulled", "pki_trust_sync", "">>,
    <<{"sync_cycle_success"}, "sync_cycle_success", "pki_trust_sync", "">>,
    <<{"sync_cycle_failure"}, "sync_cycle_failure", "gds_agent_error", "warning">>,
    <<{"trustlist_diff_detected"}, "trustlist_diff_detected", "trustlist_diff", "">>,
    <<{"critical_diff_detected"}, "critical_diff_detected", "gds_agent_error", "critical">>,
    <<{"ca_chain_changed"}, "ca_chain_changed", "pki_validation", "warning">>,
    <<{"crl_changed"}, "crl_changed", "pki_validation", "warning">>,
    <<{"activation_gate_ready"}, "activation_gate_ready", "pki_trust_sync", "">>,
    <<{"activation_gate_denied"}, "activation_gate_denied", "pki_validation", "warning">>,
    <<{"package_runtime_activated"}, "package_runtime_activated", "pki_trust_sync", "">>,
    <<{"revocation_dry_run_created"}, "revocation_dry_run_created", "pki_validation", "">> >>

FUXAGDSRows == <<
    <<{"trust_signature_invalid"}, "trust_signature_invalid", "security", "error">>,
    <<{"crl_freshness_failed"}, "crl_freshness_failed", "pki_lifecycle", "error">>,
    <<{"private_key_changed"}, "private_key_changed", "security", "critical">> >>

-----------------------------------------------------------------------------
(* Apply and what it calls.                                                 *)

\* The first row of a table with a needle in the text, if there is one.
Hits(rows, text) == {i \in DOMAIN rows : HasAny(text, rows[i][1])}
FirstHit(rows, text) == CHOOSE i \in Hits(rows, text) : \A j \in Hits(rows, text) : i <= j

\* Mutant: the row's category counts only where the event has none of its own.
MutCategorySet(old, new) == IF old = "system" THEN new ELSE old

CategorySet(old, new) ==
    CASE new = "" -> old
      [] new = "network_traffic if system" -> IF old \in {"", "system"} THEN "network_traffic" ELSE old
      [] OTHER -> new

SeveritySet(old, new) ==
    CASE new = "" -> old
      [] new = "error if info" -> IF old \in {"", "info"} THEN "error" ELSE old
      [] new = "warning if info" -> IF old \in {"", "info"} THEN "warning" ELSE old
      [] OTHER -> new

Named(evt, rows, text) ==
    IF Hits(rows, text) = {} THEN evt
    ELSE LET row == rows[FirstHit(rows, text)]
         IN  [evt EXCEPT !.message = Text({row[2]}),
                         !.event_category = CategorySet(@, row[3]),
                         !.severity = SeveritySet(@, row[4])]

ensureBaseTags(evt) == [evt EXCEPT !.tags = Merge([normalized |-> "true"], @)]

canonicalizeSourceIdentity(evt, parsed) ==
    LET h == parsed.host \cup parsed.app \cup evt.message
    IN  [evt EXCEPT !.source_type =
            IF @ \in {"gds-agent", "gds"} THEN "gds_agent"
            ELSE IF @ \notin {"unknown", ""} THEN @
            ELSE IF HasAny(h, {"opnsense", "filterlog"}) THEN "firewall"
            ELSE IF HasAny(h, {"openplc", "plc"}) THEN "plc"
            ELSE IF HasAny(h, {"fuxa"}) THEN "scada"
            ELSE IF HasAny(h, {"engineering", "ews"}) THEN "ews"
            ELSE IF HasAny(h, {"opcua"}) THEN "opcua"
            ELSE IF HasAny(h, {"gds"}) THEN "gds_agent"
            ELSE @]

normalizeSeverity(evt) ==
    [evt EXCEPT !.severity = CASE @ \in {"warn", "warning", "war"} -> "warning"
                               [] @ \in {"err", "error"} -> "error"
                               [] @ \in {"inf", "info", ""} -> "info"
                               [] OTHER -> @]

\* The action is the tag's, or the one the message names.
Action(evt) ==
    IF Tag(evt, "action") # "" THEN Tag(evt, "action")
    ELSE IF "firewall_block" \in evt.message THEN "block"
    ELSE IF "firewall_reject" \in evt.message THEN "reject"
    ELSE IF "firewall_pass" \in evt.message THEN "pass"
    ELSE ""

\* Mutant: the event keeps the name its parser gave it.
MutapplyFirewall(evt) == evt

applyFirewall(evt) ==
    Named(IF Action(evt) = "" THEN evt ELSE SetTag(evt, "action", Action(evt)),
          FirewallRows, {Action(evt)})

\* The level at the head of a FUXA line replaces a severity that says nothing. A
\* lost OPC UA connection is marked here, and by no name it comes with.
applySCADA(evt) ==
    LET leveled == [evt EXCEPT !.severity =
            IF @ = "info" /\ HasAny(evt.message, {"[error]", "[err]"}) THEN "error"
            ELSE IF @ = "info" /\ HasAny(evt.message, {"[warn]", "[warning]"}) THEN "warning"
            ELSE @]
        named == Named(leveled, SCADARows, evt.message)
        lost == /\ Hits(SCADARows, evt.message) # {}
                /\ SCADARows[FirstHit(SCADARows, evt.message)][2] = "scada_opcua_connection_lost"
    IN  IF lost THEN SetTag(named, "alert_candidate", "true") ELSE named

\* The event type names an OPC UA event before the table, which reads the old text.
applyOPCUA(evt) ==
    LET typed == IF Tag(evt, "event_type") = "" THEN evt
                 ELSE [evt EXCEPT !.message = Text({Tag(evt, "event_type")})]
    IN  Named(typed, OPCUARows, evt.message)

BySource(evt) ==
    CASE evt.source_type = "firewall" -> applyFirewall(evt)
      [] evt.source_type = "plc" -> Named(evt, PLCRows, evt.message)
      [] evt.source_type = "scada" -> applySCADA(evt)
      [] evt.source_type = "ews" -> Named(evt, EWSRows, evt.message)
      [] evt.source_type = "opcua" -> applyOPCUA(evt)
      [] evt.source_type = "gds_agent" -> Named(evt, GDSAgentRows, evt.message)
      [] evt.source_type = "scada_gds_client" -> Named(evt, FUXAGDSRows, evt.message)
      [] OTHER -> evt

AlertNames == {
    "firewall_block", "plc_login_success", "plc_login_attempt", "plc_stopped",
    "scada_opcua_connection_break", "scada_script_load_error", "scada_user_created",
    "scada_settings_updated", "scada_runtime_restart", "scada_opcua_certificate_san_mismatch",
    "ews_suspicious_file_change", "private_key_access_attempt_or_skip", "unauthorized_write",
    "sensitive_write_accepted", "modbus_connection_failed", "certificate_expiry_critical",
    "gds_cert_missing_runtime", "trust_signature_invalid", "crl_freshness_failed",
    "private_key_changed"}

markAlertCandidate(evt) ==
    IF evt.message \in {Text({n}) : n \in AlertNames} THEN SetTag(evt, "alert_candidate", "true")
    ELSE evt

setDecisionHint(evt) ==
    IF Tag(evt, "collector_decision_hint") # "" THEN evt
    ELSE SetTag(evt, "collector_decision_hint",
                IF evt.severity \in {"critical", "error", "warning"} THEN "store_forward"
                ELSE "sample_or_drop")

Apply(evt, parsed) ==
    LET named == BySource(normalizeSeverity(canonicalizeSourceIdentity(ensureBaseTags(evt), parsed)))
        hinted == setDecisionHint(markAlertCandidate(named))
    IN  [hinted EXCEPT !.message = IF @ = {} THEN {"unknown_event"} ELSE @,
                       !.event_category = IF @ = "" THEN "system" ELSE @,
                       !.source_type = IF @ = "" THEN "unknown" ELSE @]
=============================================================================
