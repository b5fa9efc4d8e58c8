------------------------------ MODULE EventPath ------------------------------
(***************************************************************************)
(* The path of one event through the collector, from a syslog line or a      *)
(* client's POST to the decision of the default rules (main.go ProcessRaw,   *)
(* ProcessNormalized, ProcessTestEvent and ingest; handlers.go), and back in *)
(* again when the stored event is posted once more.                          *)
(***************************************************************************)
EXTENDS Normalizer, RuleMatrix

CONSTANTS Origins,      \* what may arrive: [kind |-> "line", ip, line], or
                        \* [kind |-> "event", event] as a client made it
          SourceStores  \* the contents the source store may have

VARIABLES stage,        \* where the event is
          origin, evt,
          decision,
          first,        \* history: the decision before the event was posted again
          known         \* the source store
pathVars == <<stage, origin, evt, decision, first, known>>

NoEvent == [source_type |-> "", severity |-> "", event_category |-> "", message |-> {},
            raw |-> {}, tags |-> NoJSON]
NoDecision == Decision([id |-> "none", action |-> "none"], FALSE)

PathInit ==
    /\ stage = "idle" /\ origin = [kind |-> "none"] /\ evt = NoEvent
    /\ decision = NoDecision /\ first = NoDecision
    /\ known \in SourceStores

\* A line is read by a receiver, or comes as the raw text of a test event.
Receive ==
    /\ stage = "idle" /\ stage' = "line"
    /\ origin' \in {o \in Origins : o.kind = "line"}
    /\ UNCHANGED <<evt, decision, first, known>>

\* An operator edits the sources before the line is looked at.
EditSources ==
    /\ stage = "line" /\ known' \in SourceStores \ {known}
    /\ UNCHANGED <<stage, origin, evt, decision, first>>

\* ProcessRaw, up to ingest.
Normalize ==
    /\ stage = "line" /\ stage' = "event"
    /\ evt' \in Normalized(known, origin.ip, origin.line)
    /\ UNCHANGED <<origin, decision, first, known>>

\* Mutant: the defaults are set whether or not the fields are blank.
MutnormalizePostedEvent(e) ==
    [e EXCEPT !.source_type = IF @ = "" THEN "unknown" ELSE @, !.severity = "info",
              !.event_category = "system"]

normalizePostedEvent(e) ==
    [e EXCEPT !.source_type = IF @ = "" THEN "unknown" ELSE @,
              !.severity = IF @ = "" THEN "info" ELSE @,
              !.event_category = IF @ = "" THEN "system" ELSE @]

\* POST /events completes the event; POST /test-event passes it on as it is.
Post ==
    /\ stage = "idle" /\ stage' = "event"
    /\ origin' \in {o \in Origins : o.kind = "event"}
    /\ evt' \in {origin'.event, normalizePostedEvent(origin'.event)}
    /\ UNCHANGED <<decision, first, known>>

Ingest ==
    /\ stage = "event" /\ stage' = "ingested"
    /\ LET typed == [evt EXCEPT !.source_type = normalizeSourceType(@)]
       IN  /\ decision' \in Verdicts(applyRules(typed))
           /\ \E enabled \in BOOLEAN : evt' = Enriched(typed, decision', enabled)
    /\ UNCHANGED <<origin, first, known>>

\* A stored event is read back and posted again.
Replay ==
    /\ stage = "ingested" /\ ~decision.drop /\ first = NoDecision /\ stage' = "event"
    /\ evt' = normalizePostedEvent(evt) /\ first' = decision /\ decision' = NoDecision
    /\ UNCHANGED <<origin, known>>

PathNext == Receive \/ EditSources \/ Normalize \/ Post \/ Ingest \/ Replay

PathSpec == PathInit /\ [][PathNext]_pathVars

-----------------------------------------------------------------------------
(* The SCADA forwarder's lines (deploy/scada_log_forwarder.py): the first row *)
(* whose pattern the line follows, and the payload made of it. The message is *)
(* row[2], its severity row[3].                                              *)

ClassifyRows == <<
    <<"try to connect error!", "scada_plc_connection_error", "warning">>,
    <<"connect error!", "scada_plc_connection_error", "error">>,
    <<"try to connect", "scada_plc_connection_attempt", "info">>,
    <<"' connected!", "scada_plc_connected", "info">> >>

build_event(row) ==
    [source_type |-> "scada", severity |-> row[3], event_category |-> "data_collection",
     message |-> row[2], raw |-> Nested, tags |-> Nested]

-----------------------------------------------------------------------------
(* What is assumed of the inputs, and of the words.                         *)

\* A line is in one of the envelopes, and its payload is finite. (That no key is
\* a secret's with the prefix is a fact about strings.)
IsEventLine(line) ==
    /\ line.envelope \in {"bare", "iso", "rfc3164", "rfc5424"} /\ line.pri \in Nat \cup {NoPri}
    /\ line.bracket \in {"none", "app", "data"}
    /\ IsFiniteSet(DOMAIN line.body.json)
    /\ \A key \in DOMAIN line.body.json : ~isSensitiveKey(Prefixed(key))

IsEvent(e) ==
    e = [source_type |-> e.source_type, severity |-> e.severity, event_category |-> e.event_category,
         message |-> e.message, raw |-> e.raw, tags |-> e.tags]

\* The names that the table of a source gives.
Tables == [firewall |-> FirewallRows, plc |-> PLCRows, scada |-> SCADARows, ews |-> EWSRows,
           opcua |-> OPCUARows, gds_agent |-> GDSAgentRows, scada_gds_client |-> FUXAGDSRows]
NamesIn(rows) == {rows[i][2] : i \in DOMAIN rows}
NamesOf(source) == IF source \in DOMAIN Tables THEN NamesIn(Tables[source]) ELSE {}
Names == UNION {NamesOf(source) : source \in DOMAIN Tables}

ASSUME PathAssumption ==
    \A o \in Origins :
        /\ o.kind \in {"line", "event"}
        /\ o.kind = "line" => IsEventLine(o.line)
        /\ o.kind = "event" => IsEvent(o.event)

\* No name has another in it, or what a connection is logged with; and the names
\* the SCADA forwarder gives have nothing in them that the table looks for.
ASSUME NamesAssumption ==
    /\ \A m \in Names \cup AlertNames, n \in Names : m \in Text({n}) => m = n
    /\ \A n \in Names : ~HasAny(Text({n}), {"client accepted", "client connected", "new client connected",
              "closed the connection", "disconnected", "client session created", "client session closed", "[session]"})
    /\ \A i \in DOMAIN ClassifyRows : \A j \in DOMAIN SCADARows :
          ~HasAny(Text({ClassifyRows[i][2]}), SCADARows[j][1] \cup {"[error]", "[err]", "[warn]", "[warning]"})

-----------------------------------------------------------------------------

IsLine   == origin.kind = "line"
Ingested == stage = "ingested" /\ first = NoDecision
Body     == origin.line.body
Message  == Parse(origin.line).message
Plain    == IsLine /\ ~IsTelemetry(Body.json)

Severities == {"critical", "error", "warning", "info", "debug"}

PathTypeOK ==
    /\ stage \in {"idle", "line", "event", "ingested"}
    /\ origin.kind \in {"none", "line", "event"} /\ known \in SourceStores
    /\ (IsLine /\ stage \in {"event", "ingested"}) =>
          /\ evt.severity \in Severities /\ evt.message # {}
          /\ evt.event_category # "" /\ evt.source_type # ""
    /\ stage = "ingested" =>
          evt.source_type \notin {"gds-agent", "opnsense", "fuxa", "openplc", "nozomi", "fuxa_gds_client"}

\* What must never be lost by mistake (ot_collector_data_handling.md, section 9).
HighValue == {"firewall_block", "plc_login_attempt", "plc_login_success", "plc_stopped",
    "scada_opcua_connection_break", "scada_script_load_error", "scada_user_created",
    "scada_settings_updated", "modbus_connection_failed", "unauthorized_write",
    "sensitive_write_accepted", "certificate_expiry_critical", "gds_cert_missing_runtime",
    "private_key_access_attempt_or_skip", "ews_suspicious_file_change"}

\* normalizers and defaultRules together: an event that the table of its source
\* named as one of high value, or that is marked as worth an alert and has a name
\* of that table, is dropped by no default rule, whatever else its line says; and
\* a record of a blocked or rejected packet, well formed or not, is forwarded if
\* its envelope lets the collector see it (normalizer.go 702-704 and 475-480).
OwnNames == {n \in NamesOf(evt.source_type) : evt.message = Text({n})}
ProtectedKept ==
    Ingested /\ Plain =>
        /\ \A n \in OwnNames :
              (n \in HighValue \/ Tag(evt, "alert_candidate") = "true") => ~decision.drop
        /\ (RecordSeen(origin.line) /\ Body.csv.fields >= 9 /\ Body.csv.action \in {"block", "reject"})
              => decision.forward

\* A line whose priority says error or worse, in an envelope the collector
\* understands, and whose text says nothing against it; a firewall's is exempt.
Urgent ==
    /\ origin.line.envelope \in {"rfc5424", "rfc3164"} /\ origin.line.pri >= 0
    /\ origin.line.pri % 8 <= 3 /\ evt.source_type # "firewall"
    /\ Message \subseteq {"user ", "alarm", "client connected", "hello"}

\* A command an OPC UA server logs, on something sensitive.
SensitiveCommand ==
    /\ evt.source_type = "opcua" /\ {"[opcua]", "[cmd]"} \subseteq Message
    /\ HasAny(Message, {"valve", "stop", "emergency", "reset"})

\* Parse, classifySeverity, enrichOPCUATags and defaultRules together: such a line
\* is forwarded.
UrgentForwarded == Ingested /\ Plain /\ (Urgent \/ SensitiveCommand) => decision.forward

\* What the operators must see is not lost among the rules: it is kept when it
\* is of high value, and sent on when it is urgent.
AlertsReach == ProtectedKept /\ UrgentForwarded

\* copySafeJSONFieldsToTags and Apply: whatever fields a payload has, and in
\* whatever order they are copied, the tags that say where an event came from and
\* how it was read are the collector's, and nothing secret becomes a tag.
TagsAuthoritative ==
    stage \in {"event", "ingested"} /\ IsLine /\ first = NoDecision =>
        /\ {k \in DOMAIN evt.tags : isSensitiveKey(k)} = {}
        /\ evt.tags["syslog_format"] \in {"rfc5424", "rfc3164", "raw", "raw_json", "iso_syslog", "unknown"}
        /\ evt.tags["normalized"] = "true"
        /\ IsTelemetry(Body.json) =>
              /\ evt.tags["structured_json"] = "true"
              /\ Parse(origin.line).format # "raw" =>
                    evt.tags["hostname"] = "its host" /\ evt.tags["app_name"] = "its app"

\* An event posted again as it was stored meets the rule it met the first time;
\* only POST /test-event lets one in with blanks, which the second time are filled.
Blank(e) == e.severity = "" \/ e.event_category = ""
ReplayAgrees ==
    (stage = "ingested" /\ first # NoDecision) =>
        decision.rule = first.rule \/ (origin.kind = "event" /\ Blank(origin.event))

\* build_event, FromParsed and Apply: what the SCADA forwarder says of a line, its
\* name, category and severity, is what the collector stores, whether the line
\* comes bare or in an envelope and from whatever address; and an error it reports
\* is forwarded.
ForwarderVerdictKept ==
    \A i \in DOMAIN ClassifyRows :
        Ingested /\ IsLine /\ Body.json = build_event(ClassifyRows[i]) =>
            /\ evt.message = Text({ClassifyRows[i][2]}) /\ evt.event_category = "data_collection"
            /\ evt.severity = ClassifyRows[i][3] /\ evt.source_type = "scada"
            /\ ClassifyRows[i][3] = "error" => decision.forward

\* rules_config.go:181, the note of the default rule for OPC UA writes: "Forward
\* OPC UA writes". A write command logged by the OPC UA server is forwarded.
WritesForwarded ==
    Ingested /\ Plain /\ evt.source_type = "opcua" /\ {"[opcua]", "[write][cmd]"} \subseteq Body.text
        => decision.forward
=============================================================================
