----------------------------- MODULE Normalizer -----------------------------
(***************************************************************************)
(* From a raw line to an event: the syslog envelope (internal/syslog), the   *)
(* source (internal/sources), and the three ways a message becomes an event  *)
(* (internal/normalizer): structured telemetry, firewall log, or plain text. *)
(*                                                                           *)
(* A line is [envelope, pri, host, app, bracket, body]. A body is [text,     *)
(* json, csv]: the needles in it, the payload found from its first "{" on    *)
(* (none: no keys), and the filterlog record it starts with. Host and app    *)
(* are texts; bracket says where the last "]" before the body is: nowhere,   *)
(* with the application ("app"), or right before the body ("data").          *)
(***************************************************************************)
EXTENDS SourceTables, SequencesExt

NoPri == -1
NoJSON == [k \in {} |-> ""]
NoCSV == [fields |-> 0]
\* A JSON value that is no scalar.
Nested == "nested"

-----------------------------------------------------------------------------
(* syslog.Parse                                                             *)

LineText(line) == line.host \cup line.app \cup line.body.text

\* Mutant: the severity is what is left of the priority after the facility.
MutSeverityNumber(pri) == IF pri = NoPri THEN NoPri ELSE pri \div 8

SeverityNumber(pri) == IF pri = NoPri THEN NoPri ELSE pri % 8

\* Only an RFC 5424 envelope with a priority and an RFC 3164 one are understood.
Understood(line) ==
    line.envelope = "rfc3164" \/ (line.envelope = "rfc5424" /\ line.pri # NoPri)

\* Any other line, one with an ISO time included, is its own message, and so is
\* one with nothing in its envelope.
IsOwnMessage(line) == ~Understood(line) \/ (line.envelope = "rfc5424" /\ line.body.text = {})

\* A record is looked for behind the last "]" of the message, and must begin with
\* a digit there. A whole line without a "]" begins with the digits of its time,
\* which become part of the record's first field, or with the "<" of its priority.
RecordSeen(line) ==
    IsOwnMessage(line) => line.bracket = "data" \/ (line.bracket = "none" /\ line.pri = NoPri)

Parse(line) ==
    LET understood == Understood(line)
    IN  [format  |-> IF understood THEN line.envelope ELSE "raw",
         pri     |-> IF understood THEN line.pri ELSE NoPri,
         severity |-> IF understood THEN SeverityNumber(line.pri) ELSE NoPri,
         host    |-> IF understood THEN line.host ELSE {},
         app     |-> IF understood THEN line.app ELSE {},
         message |-> IF IsOwnMessage(line) THEN LineText(line) ELSE line.body.text,
         json    |-> line.body.json, csv |-> IF RecordSeen(line) THEN line.body.csv ELSE NoCSV,
         raw     |-> LineText(line)]

\* What a structured event says of its envelope.
normalizedSyslogFormat(p, line) ==
    IF p.format # "raw" THEN p.format
    ELSE IF line.envelope = "bare" /\ p.json # NoJSON THEN "raw_json"
    ELSE IF line.envelope = "iso" /\ line.pri # NoPri THEN "iso_syslog"
    ELSE "unknown"

-----------------------------------------------------------------------------
(* sources.Resolve: the type of the source at an address. known is the       *)
(* source store.                                                            *)

TypeAt == [plc |-> "plc", scada |-> "scada", opcua |-> "opcua", ews |-> "ews", firewall |-> "firewall"]

Resolve(known, ip, p) ==
    LET h == p.host \cup p.app \cup p.message
    IN  IF ip \in DOMAIN known /\ known[ip].enabled THEN known[ip].type
        ELSE IF ip \in DOMAIN TypeAt THEN TypeAt[ip]
        ELSE IF "fuxa" \in h THEN "scada"
        ELSE IF "openplc" \in h THEN "plc"
        ELSE IF "opcua" \in h THEN "opcua"
        ELSE "unknown"

-----------------------------------------------------------------------------
(* patterns.go                                                              *)

\* The severity that the number of a priority means, under the names of each path.
SeverityOf(number, warn) ==
    CASE number \in 0 .. 2 -> "critical" [] number = 3 -> "error" [] number = 4 -> warn
      [] number = 7 -> "debug" [] OTHER -> "info"

Rejections == {"rejected connection", "rejected", "unauthorized", "denied", "invalid certificate"}
Sensitives == {"protected tag", "safety tag", "emergency", "reset"}

classifyOPCUASeverity(t) ==
    IF "[error]" \in t THEN "error"
    ELSE IF HasAny(t, {"[shutdown]", "[startup]"}) THEN "info"
    ELSE IF HasAny(t, Rejections \cup {"[security]"}) THEN "warning"
    ELSE IF HasAny(t, {"authentication failed", "bad user"}) THEN "error"
    ELSE IF "[cmd]" \in t /\ HasAny(t, {"mode=pulse", "mode=maintained"})
         THEN IF HasAny(t, Sensitives \cup {"unauthorized", "guest", "failed"}) THEN "warning" ELSE "info"
    ELSE IF HasAny(t, Sensitives) THEN "warning"
    ELSE ""

classifySeverity(t, number) ==
    IF classifyOPCUASeverity(t) # "" THEN classifyOPCUASeverity(t)
    ELSE IF HasAny(t, {"[critical]", "fatal", "critical"}) THEN "critical"
    ELSE IF HasAny(t, {"[error]", " error"}) THEN "error"
    ELSE IF HasAny(t, {"[warn]", "warning", " warn"}) THEN "warning"
    ELSE IF HasAny(t, {"[debug]", "debug"}) THEN "debug"
    ELSE IF HasAny(t, {"[info]", " info"}) THEN "info"
    ELSE SeverityOf(number, "warning")

classifyOPCUACategory(t) ==
    IF "[read][cmd]" \in t THEN "operator_read"
    ELSE IF "[write][cmd]" \in t THEN "operator_write"
    ELSE IF "[cmd]" \in t THEN "operator_action"
    ELSE IF "[session]" \in t THEN "network"
    ELSE IF "[security]" \in t THEN "security"
    ELSE IF HasAny(t, {"[startup]", "[shutdown]"}) THEN "runtime"
    ELSE IF "[error]" \in t
         THEN IF HasAny(t, (Rejections \cup {"bad user"}) \ {"rejected connection"}) THEN "security"
              ELSE IF HasAny(t, {"timeout", "disconnected", "connection failed"}) THEN "communication"
              ELSE "system"
    ELSE IF "rejected connection" \in t THEN "security"
    ELSE IF HasAny(t, {"client session created", "client session closed"}) THEN "network"
    ELSE "system"

classifyCategory(t) ==
    IF "[opcua]" \in t THEN classifyOPCUACategory(t)
    ELSE IF HasAny(t, {"failed login", "unauthorized", "protected tag", "illegal data address",
                  "illegal function", "rejected connection", "rejected", "invalid command"}) THEN "security"
    ELSE IF HasAny(t, {"user ", " wrote value", "set tag", " command", "operator"}) THEN "operator_action"
    ELSE IF HasAny(t, {"timeout", "retry", "max retry", "connection failed", "polling error"})
         THEN "communication"
    ELSE IF HasAny(t, {"client accepted", "client connected", "new client connected",
                  "closed the connection", "disconnected"}) THEN "network"
    ELSE IF HasAny(t, {"scan cycle time exceeded", "runtime", "program started", "server started",
                  "version", "starting"}) THEN "runtime"
    ELSE IF HasAny(t, {"alarm", "high priority", "threshold"}) THEN "alarm"
    ELSE "system"

SensitiveActions == {"reset", "emergency", "stop", "start", "commandedemarrage", "safety",
                     "relay", "valve", "vanne", "switch", "dcy"}

If(condition, tags) == IF condition THEN tags ELSE NoJSON

enrichOPCUATags(t) ==
    IF "[opcua]" \notin t THEN NoJSON
    ELSE Merge(IF "[read][cmd]" \in t THEN [opcua_operation |-> "read"]
               ELSE If("[write][cmd]" \in t, [opcua_operation |-> "write"]),
               If(HasAny(t, SensitiveActions), [sensitive_action |-> "true"]))

-----------------------------------------------------------------------------
(* Structured telemetry.                                                    *)

Scalar(payload, key) ==
    IF key \in DOMAIN payload /\ payload[key] # Nested THEN payload[key] ELSE ""

\* extractStructuredTelemetryJSON
IsTelemetry(payload) ==
    DOMAIN payload \cap {"source_type", "component", "event_type", "event_category"} # {}

normalizeSeverityText(s) ==
    CASE s \in {"debug", "trace"} -> "debug" [] s \in {"warn", "warning"} -> "warn"
      [] s \in {"error", "err"} -> "error"
      [] s \in {"critical", "crit", "alert", "emergency", "fatal"} -> "critical"
      [] OTHER -> "info"

inferSourceTypeFromComponent(t) ==
    IF "opcua" \in t THEN "opcua" ELSE IF "gds_agent" \in t THEN "gds_agent"
    ELSE IF "gds" \in t THEN "gds" ELSE IF HasAny(t, {"fuxa", "scada"}) THEN "scada"
    ELSE IF HasAny(t, {"opnsense", "firewall"}) THEN "firewall"
    ELSE IF HasAny(t, {"openplc", "plc"}) THEN "plc" ELSE IF "ews" \in t THEN "ews"
    ELSE IF HasAny(t, {"ids", "nozomi"}) THEN "ids" ELSE IF "vault" \in t THEN "vault"
    ELSE "unknown"

inferEventCategory(t, payload) ==
    LET firewallSource == Scalar(payload, "source_type") = "firewall"
            \/ HasAny(Text({Scalar(payload, "component")}), {"firewall", "opnsense"})
    IN  IF Scalar(payload, "sensitive_action") = "true" THEN "sensitive_operator_action"
        ELSE IF HasAny(t, {"renewal", "renew"}) THEN "certificate_lifecycle"
        ELSE IF HasAny(t, {"certificate", "pki", "crl", "trust"}) THEN "pki_lifecycle"
        ELSE IF "session" \in t THEN "session"
        ELSE IF HasAny(t, {"auth", "login", "unauthorized", "denied", "rejected"}) THEN "access_control"
        ELSE IF HasAny(t, {"firewall", "flow", "packet"}) THEN "network"
        ELSE IF "connection" \in t /\ firewallSource THEN "network"
        ELSE IF HasAny(t, {"modbus", "plc"}) THEN "data_collection"
        ELSE IF HasAny(t, {"policy", "approval", "runtime_write"}) THEN "policy_audit"
        ELSE IF HasAny(t, {"failed", "failure", "error"}) THEN "error"
        ELSE "system_health"

isSensitiveKey(key) == key \in {"token", "refresh_token", "password", "secret_id", "api_key"}
Prefixed(key) == "json_" \o key
CoreFields == {"source_type", "zone", "severity", "event_category", "message", "timestamp"}

\* Mutant: a field of the payload overwrites the tag of its name.
MutCopied(tags, key, value) ==
    IF value = "" \/ isSensitiveKey(key) THEN tags
    ELSE Merge([k \in {IF key \in CoreFields THEN Prefixed(key) ELSE key} |-> value], tags)

\* One turn of copySafeJSONFieldsToTags's loop.
Copied(tags, key, value) ==
    LET target == IF key \in CoreFields \cup DOMAIN tags THEN Prefixed(key) ELSE key
    IN  IF value = "" \/ isSensitiveKey(key) \/ target \in DOMAIN tags THEN tags
        ELSE Merge([k \in {target} |-> value], tags)

\* The loop, over the keys in one order.
CopiedAll(tags, payload, order) ==
    LET copied[n \in 0 .. Len(order)] ==
            IF n = 0 THEN tags ELSE Copied(copied[n - 1], order[n], Scalar(payload, order[n]))
    IN  copied[Len(order)]

\* A map is ranged over in any order.
copySafeJSONFieldsToTags(tags, payload) ==
    {CopiedAll(tags, payload, order) : order \in SetToSeqs(DOMAIN payload)}

\* Mutant: the message of a payload without an event type is not its type.
MutEventType(payload) ==
    IF Scalar(payload, "event_type") # "" THEN Scalar(payload, "event_type")
    ELSE "structured_telemetry"

EventType(payload) ==
    IF Scalar(payload, "event_type") # "" THEN Scalar(payload, "event_type")
    ELSE IF Scalar(payload, "message") # "" THEN Scalar(payload, "message")
    ELSE "structured_telemetry"

\* The events a payload may become, which differ in their tags.
fromStructuredTelemetryJSON(p, line, resolved) ==
    LET payload == p.json
        says(key) == Scalar(payload, key)
        inferred == inferSourceTypeFromComponent(Text({says("component")}))
        envelope == If(p.format # "raw", [hostname |-> "its host", app_name |-> "its app"])
        component == If(says("component") # "", [component |-> says("component")])
        hint == If(says("collector_decision") # "",
                   [collector_decision_hint |-> says("collector_decision")])
        tags == Merge([structured_json |-> "true", syslog_format |-> normalizedSyslogFormat(p, line),
                       event_type |-> EventType(payload)], Merge(envelope, Merge(component, hint)))
    IN  {[source_type |-> IF says("source_type") # "" THEN says("source_type")
                          ELSE IF inferred # "unknown" THEN inferred ELSE resolved,
          severity |-> IF says("severity") # "" THEN normalizeSeverityText(says("severity"))
                       ELSE IF p.pri # NoPri THEN SeverityOf(p.pri % 8, "warn")
                       ELSE classifySeverity(p.message, NoPri),
          event_category |-> IF says("event_category") # "" THEN says("event_category")
                             ELSE inferEventCategory(Text({EventType(payload)}), payload),
          message |-> Text({EventType(payload)}), raw |-> p.raw, tags |-> copied] :
              copied \in copySafeJSONFieldsToTags(tags, payload)}

-----------------------------------------------------------------------------
(* The firewall's filterlog. A record is [fields, action, version, bad]: how  *)
(* many fields it has, its action, its IP version, and a "bad" reason.       *)

looksLikeFilterlog(p) ==
    \/ "filterlog" \in p.app \/ "opnsense" \in p.host
    \/ p.csv.fields >= 9 /\ p.csv.action \in {"pass", "block", "reject"}

parseOPNsenseFilterlog(p) ==
    LET csv == p.csv
        full == csv.fields >= 9
        refusal == [block |-> "firewall_block", reject |-> "firewall_reject"]
        blocked == full /\ csv.action \in DOMAIN refusal
        wrong == csv.fields = 0 \/ ~full \/ csv.version \notin {4, 6} \/ csv.bad
    IN  [source_type |-> "firewall",
         severity |-> IF wrong THEN "error" ELSE IF blocked THEN "warn" ELSE "info",
         event_category |-> IF wrong THEN "error" ELSE IF blocked THEN "security" ELSE "network",
         message |-> Text({IF wrong THEN "firewall_event"
                           ELSE IF blocked THEN refusal[csv.action] ELSE "firewall_pass"}),
         raw |-> p.raw,
         tags |-> Merge([structured_json |-> "false", syslog_format |-> p.format],
                        If(full, [action |-> csv.action]))]

-----------------------------------------------------------------------------
\* FromParsed: the events a line may become, before Apply.
FromParsed(known, ip, line) ==
    LET p == Parse(line)
        resolved == Resolve(known, ip, p)
    IN  IF IsTelemetry(p.json) THEN fromStructuredTelemetryJSON(p, line, resolved)
        ELSE IF looksLikeFilterlog(p) \/ resolved = "firewall" THEN {parseOPNsenseFilterlog(p)}
        ELSE {[source_type |-> resolved, severity |-> classifySeverity(p.message, p.severity),
               event_category |-> classifyCategory(p.message), message |-> p.message, raw |-> p.raw,
               tags |-> Merge([syslog_format |-> p.format], enrichOPCUATags(p.message))]}

Normalized(known, ip, line) == {Apply(evt, Parse(line)) : evt \in FromParsed(known, ip, line)}
=============================================================================
