----------------------------- MODULE RuleMatrix -----------------------------
(***************************************************************************)
(* Which rule an event meets: the matching of filter/engine.go over the rule *)
(* matrix a collector starts with (defaultRules), and what ingest makes of    *)
(* its decision. How a matched rule counts, samples and de-duplicates is     *)
(* FilterEngine's matter; here a rule that may drop does so or not.           *)
(***************************************************************************)
EXTENDS SourceTables

Star == "*"

\* A rule, with the fields that the default rules fill; limited: it has a rate
\* limit or a duplicate window.
Rule(id, source, category, severity, operation, contains, tag, action, limited) ==
    [id |-> id, source_type |-> source, category |-> category, severity |-> severity,
     operation |-> operation, contains |-> contains, tag |-> tag, action |-> action,
     limited |-> limited]

defaultRules == <<
    Rule("firewall-block",  "firewall", Star, Star, Star, "firewall_block",  Star, "store_and_forward", FALSE),
    Rule("firewall-reject", "firewall", Star, Star, Star, "firewall_reject", Star, "store_and_forward", FALSE),
    Rule("security", Star, "security", Star, Star, Star, Star, "store_and_forward", FALSE),
    Rule("critical", Star, Star, "critical", Star, Star, Star, "store_and_forward", FALSE),
    Rule("firewall-pass",  "firewall", Star, Star, Star, "firewall_pass", Star, "sample", TRUE),
    Rule("firewall-noise", "firewall", Star, Star, Star, "filterlog",     Star, "sample", TRUE),
    Rule("error", Star, Star, "error", Star, Star, Star, "store_and_forward", FALSE),
    Rule("opcua-sensitive", "opcua", Star, Star, Star, Star, "sensitive_action", "store_and_forward", FALSE),
    Rule("opcua-write", "opcua", "operator_action", Star, "write", Star, Star, "store_and_forward", FALSE),
    Rule("opcua-read",  "opcua", "operator_action", Star, "read",  Star, Star, "sample", TRUE),
    Rule("ews-heartbeat",   "ews",   "system_health", "info", Star, "ews_heartbeat", Star, "sample", FALSE),
    Rule("scada-heartbeat", "scada", "system_health", "info", Star, "heartbeat",     Star, "sample", FALSE),
    Rule("gds-sync", "gds_agent", Star, "info", Star, "sync_cycle_success", Star, "sample", FALSE),
    Rule("firewall-rest", "firewall", Star, Star, Star, Star, Star, "sample", TRUE),
    Rule("plc-network", "plc", "network", Star, Star, Star, Star, "sample", FALSE),
    Rule("default", Star, Star, Star, Star, Star, Star, "store_only", FALSE) >>

comparableValue(v) ==
    CASE v = "warn" -> "warning" [] v = "gds-agent" -> "gds_agent" [] OTHER -> v

matchField(rule, value) == rule \in {Star, ""} \/ comparableValue(rule) = comparableValue(value)

operationFor(evt) ==
    IF Tag(evt, "opcua_operation") # "" THEN Tag(evt, "opcua_operation") ELSE Tag(evt, "operation")

messageContains(evt, needle) == needle = Star \/ needle \in evt.message \cup evt.raw

matches(rule, evt) ==
    /\ matchField(rule.source_type, evt.source_type) /\ matchField(rule.category, evt.event_category)
    /\ matchField(rule.severity, evt.severity) /\ matchField(rule.operation, operationFor(evt))
    /\ messageContains(evt, rule.contains)
    /\ rule.tag = Star \/ Tag(evt, rule.tag) = "true"

\* The first rule that matches; the last one matches everything.
applyRules(evt) ==
    LET met == {i \in DOMAIN defaultRules : matches(defaultRules[i], evt)}
    IN  defaultRules[CHOOSE i \in met : \A j \in met : i <= j]

\* What the rule may decide; a sample is kept or dropped, and so is what a
\* rule's limit or window holds back.
Decision(rule, drop) ==
    [rule |-> rule.id, drop |-> drop, store |-> ~drop,
     forward |-> ~drop /\ rule.action = "store_and_forward", sampled |-> rule.action = "sample"]
Verdicts(rule) ==
    {Decision(rule, drop) : drop \in IF rule.action = "sample" \/ rule.limited THEN BOOLEAN ELSE {FALSE}}

-----------------------------------------------------------------------------
(* Processor.ingest's part in it.                                           *)

\* Mutant: the aliases are left to the rules.
MutnormalizeSourceType(s) == IF s = "gds-agent" THEN "gds_agent" ELSE s

normalizeSourceType(s) ==
    CASE s = "gds-agent" -> "gds_agent" [] s = "opnsense" -> "firewall" [] s = "fuxa" -> "scada"
      [] s \in {"fuxa_gds_client", "scada_gds", "scada_gds_helper"} -> "scada_gds_client"
      [] s = "openplc" -> "plc" [] s = "nozomi" -> "ids" [] OTHER -> s

decisionLabel(d, willForward) ==
    IF d.drop THEN "drop" ELSE IF willForward THEN "store_and_forward"
    ELSE IF d.sampled THEN "sample" ELSE "store_only"

decisionHint(d) ==
    IF d.drop THEN "drop" ELSE IF d.forward THEN "store_forward" ELSE "store_only"

\* The event as ingest stores and queues it.
Enriched(evt, d, enabled) ==
    LET decided == [collector_decision |-> decisionLabel(d, d.forward /\ enabled),
                    collector_decision_hint |-> decisionHint(d), matched_rule_id |-> d.rule]
        queued == IF d.forward /\ enabled THEN [forwarding_status |-> "queued"] ELSE [k \in {} |-> ""]
    IN  [evt EXCEPT !.tags = Merge(queued, Merge(decided, @))]
=============================================================================
