---------------------------- MODULE MCEventPath ----------------------------
(* Lines of one needle of every table and pattern, and of each pair of some  *)
(* of them, in every envelope and from every kind of source; payloads and     *)
(* filterlog records of every shape; and events a client may post.           *)
EXTENDS EventPath, TLC

Needles(rows) == UNION {rows[i][1] : i \in DOMAIN rows}
TableWords == Needles(PLCRows) \cup Needles(SCADARows) \cup Needles(EWSRows)
              \cup Needles(OPCUARows) \cup Needles(GDSAgentRows) \cup Needles(FUXAGDSRows)
PatternWords == {
    "[opcua]", "[cmd]", "[read][cmd]", "[write][cmd]", "[session]", "[security]", "[startup]",
    "[shutdown]", "[error]", "[warn]", "[critical]", "[debug]", "fatal", " error", "rejected", "rejected connection",
    "unauthorized", "denied", "bad user", "authentication failed", "mode=pulse", "emergency",
    "reset", "stop", "valve", "guest", "failed login", "protected tag", "user ", "timeout",
    "polling error", "client connected", "disconnected", "runtime", "version", "alarm", "hello",
    "heartbeat", "firewall_block", "filterlog", "opnsense", "openplc", "fuxa", "opcua", "ews", "gds"}

\* Which needles occur inside others.
MCInside ==
    "openplc" :> {"plc"} @@ "[opcua]" :> {"opcua"} @@ "[read][cmd]" :> {"[cmd]"} @@ "[write][cmd]" :> {"[cmd]"}
    @@ "[startup]" :> {"start"} @@ "rejected connection" :> {"rejected"} @@ "protected tag" :> {}
    @@ "[error]" :> {"error"} @@ " error" :> {"error"} @@ "[critical]" :> {"critical"}
    @@ "polling error" :> {" error", "error"} @@ "failed login" :> {"failed", "login"}
    @@ "authentication failed" :> {"auth", "failed"} @@ "unauthorized" :> {"auth"}
    @@ "plc started" :> {"plc", "start"} @@ "plc stopped" :> {"plc", "stop"} @@ "plc stoped" :> {"plc", "stop"}
    @@ "login success" :> {"login"} @@ "attempting to login" :> {"login"} @@ "user logout" :> {"user "}
    @@ "fuxa started" :> {"fuxa", "start"} @@ "_readmemory error!" :> {" error", "error"}
    @@ "'opcua' connected!" :> {"' connected!", "opcua"} @@ "'plc1' connected" :> {"plc"}
    @@ "'opcua' subscription created" :> {"opcua"} @@ "'opcua' connection lost!" :> {"opcua", "connection"}
    @@ "'opcua' session closed" :> {"opcua", "session"} @@ "script load error" :> {" error", "error"}
    @@ "connection_break" :> {"connection"} @@ "opcua connection break" :> {"opcua", "connection"}
    @@ "node-opcua-w06" :> {"opcua"} @@ "runtime.update-project: restart" :> {"runtime", "start"}
    @@ "runtime restart" :> {"runtime", "start"} @@ "user created" :> {"user "}
    @@ "connection timeout" :> {"connection", "timeout"} @@ "transaction timeout" :> {"timeout"}
    @@ "private_key_access_attempt_or_skip" :> {} @@ "ews_heartbeat" :> {"ews", "heartbeat"}
    @@ "collector_send_failed" :> {"failed"}
    @@ "server startup" :> {"server", "start"} @@ "server_startup" :> {"server", "start"}
    @@ "server ready" :> {"server"} @@ "server_ready" :> {"server"}
    @@ "modbus connection failed" :> {"modbus", "connection", "connection failed", "failed"}
    @@ "modbus_connection_failed" :> {"modbus", "connection", "failed"}
    @@ "modbus connection recovered" :> {"modbus", "connection"}
    @@ "modbus_connection_recovered" :> {"modbus", "connection", "recovered"}
    @@ "modbus_write_failed" :> {"modbus", "failed"} @@ "unauthorized_write" :> {"unauthorized", "auth"}
    @@ "opcua_write_rejected" :> {"opcua", "rejected"} @@ "session_activated" :> {"session"}
    @@ "unexpected_anonymous_session" :> {"session"} @@ "abnormal_session_close" :> {"session"}
    @@ "certificate_verified" :> {"certificate"} @@ "pki_load_failed" :> {"pki", "failed"}
    @@ "certificate_expiry_critical" :> {"certificate", "critical"}
    @@ "certificate_inventory_drift_detected" :> {"certificate"} @@ "gds_cert_missing_runtime" :> {"gds", "runtime"}
    @@ "gds_telemetry_pulled" :> {"gds"} @@ "sync_cycle_failure" :> {"failure"}
    @@ "trustlist_diff_detected" :> {"trust"} @@ "critical_diff_detected" :> {"critical"}
    @@ "crl_changed" :> {"crl"} @@ "activation_gate_denied" :> {"denied"} @@ "package_runtime_activated" :> {"runtime"}
    @@ "trust_signature_invalid" :> {"trust"} @@ "crl_freshness_failed" :> {"crl", "failed"}
    @@ "firewall_block" :> {"firewall"} @@ "firewall_event" :> {"firewall"} @@ "firewall_pass" :> {"firewall"}
    @@ "firewall_reject" :> {"firewall"} @@ "gds_agent" :> {"gds"} @@ "gds-agent" :> {"gds"}
    @@ "opcua_server" :> {"opcua"} @@ "plc_login_attempt" :> {"plc", "login"}
    @@ "plc_login_success" :> {"plc", "login"} @@ "plc_user_logout" :> {"plc"}
    @@ "plc_stopped" :> {"plc", "stop"} @@ "plc_started" :> {"plc", "start"}
    @@ "scada_plc_connection_error" :> {"scada", "plc", "connection", "error"}
    @@ "scada_plc_connection_attempt" :> {"scada", "plc", "connection"}
    @@ "scada_plc_connected" :> {"scada", "plc"} @@ "try to connect error!" :> {" error", "error"}
    @@ "connect error!" :> {" error", "error"} @@ "flow_packet" :> {"flow", "packet"}

IPs == {"plc", "scada", "opcua", "ews", "firewall", "other"}

BodyOf(text, json, csv) == [text |-> Text(text), json |-> json, csv |-> csv]
Said(words) == BodyOf(words, NoJSON, NoCSV)
Sent(payload, more) == BodyOf(DOMAIN payload \cup {payload[k] : k \in DOMAIN payload} \cup more, payload, NoCSV)
Record(csv) == BodyOf({"5"}, NoJSON, csv)

Line(envelope, pri, host, app, body) ==
    [envelope |-> envelope, pri |-> pri, host |-> host, app |-> app, bracket |-> "none", body |-> body]
Envelopes(body) ==
    {Line("bare", NoPri, {}, {}, body), Line("iso", 11, {}, {}, body), Line("rfc3164", NoPri, {}, {}, body)}
    \cup {Line(e, pri, {}, {}, body) : e \in {"rfc5424", "rfc3164"}, pri \in {8, 14, 131}}

PairWords == {"attempting to login", "plc stopped", "user created", "settings updated", "load.script",
    "_readmemory error!", "unauthorized_write", "modbus connection failed", "certificate_expiry_critical",
    "sync_cycle_success", "private_key_changed", "suspicious_file_change", "ews_heartbeat", "heartbeat",
    "client connected", "polling overload", "'opcua' connection lost!", "valve", "[opcua]", "[write][cmd]", "filterlog"}

Texts == {{}} \cup {{w} : w \in TableWords \cup PatternWords}
Pairs == {{v, w} : v, w \in PairWords} \cup {{"[opcua]", c, w} : c \in {"[cmd]", "[read][cmd]", "[write][cmd]"},
                                             w \in {"valve", "mode=pulse", "stop", "denied", "hello"}}

From(ips, lines) == [kind : {"line"}, ip : ips, line : lines]

Texted ==
    From(IPs, {Line("rfc3164", 14, {}, {}, Said(t)) : t \in Texts})
    \cup From({"plc", "other"}, UNION {Envelopes(Said({w})) : w \in PatternWords})
    \cup From(IPs, UNION {Envelopes(Said({w})) : w \in {"user ", "alarm", "client connected"}})
    \cup From({"scada", "opcua", "plc"}, {Line(e, 11, {}, {}, Said(t)) :
                 e \in {"rfc5424", "iso"}, t \in {{}, {"polling overload"}, {"' connected!"}}})
    \cup From(IPs \ {"firewall"}, {Line("rfc3164", 14, {}, {}, Said(t)) : t \in Pairs})
    \cup From(IPs, {Line("rfc3164", 14, Text({h}), Text({a}), Said({"hello"})) :
             h \in {"opnsense", "fuxa", "ews", "hello"}, a \in {"filterlog", "openplc", "opcua", "gds", "hello"}})
    \cup From(IPs, {Line(e, pri, Text({h}), Text({a}), Said(t)) :
             e \in {"rfc3164", "rfc5424"}, pri \in {11, 14}, t \in {{}, {"scada_script_load_error"}},
             h \in {"hello", "ews_heartbeat"}, a \in {"opnsense", "opcua", "hello"}})

CSVs == {[fields |-> 5]} \cup
    [fields : {9}, action : {"pass", "block", "reject", "match"}, version : {4, 5}, bad : BOOLEAN]
\* Records behind a process id, and behind structured data.
Bracketed(line) == {[line EXCEPT !.bracket = b] : b \in {"none", "app", "data"}}
CSVLines == From({"firewall", "other", "plc"}, UNION {
    {Line("rfc3164", 134, {}, Text({"filterlog"}), Record(c))}
    \cup UNION {Bracketed(l) : l \in Envelopes(Record(c)) \cup {Line("iso", NoPri, {}, {}, Record(c))}} : c \in CSVs})

EventTypes == {"firewall_block", "plc_login_attempt", "unauthorized_write", "certificate_expiry_critical",
    "gds_telemetry_pulled", "sync_cycle_failure", "modbus_connection_failed", "flow_packet", "server_ready",
    "crl_freshness_failed", "session_activated", "hello"}
SourceNames == {"opcua", "gds-agent", "gds", "opnsense", "fuxa_gds_client", "openplc", "plc", "scada", "ews", "vault"}
Payloads ==
    {"component" :> c @@ "event_type" :> t : c \in {"opcua_server", "gds_agent", "gds", "fuxa", "opnsense",
        "openplc", "ews", "nozomi", "vault", "hello"}, t \in EventTypes}
    \cup {"source_type" :> s @@ "event_type" :> t @@ "severity" :> v :
             s \in SourceNames, t \in EventTypes, v \in {"warning", "crit"}}
    \cup {"event_category" :> "operator_action" @@ "source_type" :> "opcua" @@ "operation" :> o : o \in {"read", "write"}}
    \cup {"source_type" :> "plc" @@ "event_type" :> "plc_login_attempt" @@ "event_category" :> "network",
          "event_type" :> "hello" @@ "severity" :> "err" @@ "json_severity" :> "hello" @@ "hostname" :> "hello"
             @@ "json_hostname" :> "hello",
          "component" :> "hello" @@ "structured_json" :> "hello" @@ "syslog_format" :> "hello"
             @@ "normalized" :> "hello" @@ "token" :> "hello",
          "component" :> "opnsense" @@ "app_name" :> "hello" @@ "json_app_name" :> Nested @@ "action" :> "block",
          "event_type" :> "hello" @@ "sensitive_action" :> "true" @@ "collector_decision" :> "drop",
          "message" :> "hello" @@ "severity" :> "fatal"}
JSONLines ==
    From({"plc", "other"}, UNION {{Line("bare", NoPri, {}, {}, Sent(p, {})), Line("rfc3164", 11, {}, {}, Sent(p, {})),
                                   Line("iso", 14, {}, {}, Sent(p, {}))} : p \in Payloads})
    \cup From(IPs, UNION {Envelopes(Sent(build_event(r), {r[1]})) : r \in {ClassifyRows[i] : i \in DOMAIN ClassifyRows}})

Made(source, severity, category, text, tags) ==
    [source_type |-> source, severity |-> severity, event_category |-> category,
     message |-> Text(text), raw |-> {}, tags |-> tags]
Posted ==
    {Made(s, v, c, t, g) : s \in {"", "opnsense", "gds-agent", "plc", "opcua"}, v \in {"", "warn", "error", "critical"},
        c \in {"", "security", "network", "operator_action"}, t \in {{}, {"firewall_pass"}, {"sync_cycle_success"}},
        g \in {NoJSON, "opcua_operation" :> "write", "operation" :> "read", "sensitive_action" :> "true"}}

MCOrigins ==
    Texted \cup CSVLines \cup JSONLines \cup [kind : {"event"}, event : Posted]

MCSourceStores == {NoJSON, "other" :> [type |-> "gds_agent", enabled |-> TRUE],
    "other" :> [type |-> "scada_gds_client", enabled |-> TRUE] @@ "plc" :> [type |-> "opcua", enabled |-> FALSE]}
============================================================================
