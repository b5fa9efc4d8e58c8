---------------------------- MODULE FilterEngine ----------------------------
(***************************************************************************)
(* The rule engine (internal/filter/engine.go): Evaluate stamps the time,   *)
(* copies the rules under one lock and applies the first matching rule      *)
(* under another, with the rate, duplicate and sample state kept per rule.  *)
(* The callers are the syslog consumer, the API handlers that ingest, and   *)
(* RuleTest (cmd/ot-collector/main.go), which is an Evaluate like any other.*)
(***************************************************************************)
EXTENDS Integers, Sequences, FiniteSets

CONSTANTS Callers,    \* goroutines inside Evaluate at one time
          Events,     \* [source, shape, detail]: rateKey uses the source, the
                      \* sample key source and shape, dedupKey all of it
          RuleSets,   \* the sequences of rules that SetRules may install
          SecTicks,   \* clock ticks in a second
          LastTick,   \* bound: the clock stops here
          MaxCalls    \* bound: number of Evaluate calls

AllRules == UNION {{rs[i] : i \in DOMAIN rs} : rs \in RuleSets}
Ids      == {r.id : r \in AllRules}
Sources  == {e.source : e \in Events}
Shapes   == {[source |-> e.source, shape |-> e.shape] : e \in Events}
Actions  == {"drop", "forward_only", "store_only", "store_and_forward", "sample", "keep"}

\* A rule's match is the set of events its nine field tests let through;
\* sampleRate is in per cent.
ASSUME EngineAssumption ==
    /\ \A rs \in RuleSets : rs \in Seq(AllRules)
    /\ \A r \in AllRules :
          /\ r.enabled \in BOOLEAN /\ r.match \subseteq Events /\ r.action \in Actions
          /\ r.limit \in Nat /\ r.window \in Nat /\ r.sampleRate \in Int
          /\ r.store \in BOOLEAN /\ r.forward \in BOOLEAN
    /\ SecTicks \in Nat \ {0} /\ LastTick \in Nat /\ LastTick >= SecTicks /\ MaxCalls \in Nat

Never == -1     \* no entry in dedupCache
Idle  == [source |-> "none", shape |-> "none", detail |-> "none"]

VARIABLES
    clock,    \* time, in ticks; it starts well after second 0
    rules,    \* Engine.rules
    rate,     \* rateBySource: [second, count] per rule and source
    dedup,    \* dedupCache: lastSeen per rule and event
    samples,  \* sampleCounts per rule and shape
    pc, evt, now, snap,  \* each caller: where it is, evt, now, its copy of rules
    verdict,  \* each caller's last Decision
    calls,    \* history: number of calls begun
    admits,   \* history: events let through a rule's limit, per stamped second
    seen,     \* history: the stamps of the events that reached a rule's window
    kept,     \* history: sampled events kept
    latest    \* history: the latest stamp applied, LastTick + 1 once an earlier
              \* one was applied after it

vars == <<clock, rules, rate, dedup, samples, pc, evt, now, snap, verdict, calls,
          admits, seen, kept, latest>>

Init ==
    /\ clock = SecTicks /\ rules \in RuleSets
    /\ rate = [k \in Ids \X Sources |-> [second |-> 0, count |-> 0]]
    /\ dedup = [k \in Ids \X Events |-> Never]
    /\ samples = [k \in Ids \X Shapes |-> 0]
    /\ pc = [c \in Callers |-> "idle"] /\ evt = [c \in Callers |-> Idle]
    /\ now = [c \in Callers |-> 0] /\ snap = [c \in Callers |-> <<>>]
    /\ verdict = [c \in Callers |-> [reason |-> "none"]] /\ calls = 0
    /\ admits = [k \in Ids \X Sources |-> [x \in 0 .. LastTick \div SecTicks |-> 0]]
    /\ seen = [k \in Ids \X Events |-> {}]
    /\ kept = [k \in Ids \X Shapes |-> 0] /\ latest = 0

Tick ==
    /\ clock < LastTick
    /\ clock' = clock + 1
    /\ UNCHANGED <<rules, rate, dedup, samples, pc, evt, now, snap, verdict, calls,
                   admits, seen, kept, latest>>

SetRules(rs) ==
    /\ rs # rules
    /\ rules' = rs
    /\ UNCHANGED <<clock, rate, dedup, samples, pc, evt, now, snap, verdict, calls,
                   admits, seen, kept, latest>>

\* now := time.Now().UTC()
Stamp(c, e) ==
    /\ pc[c] = "idle" /\ calls < MaxCalls
    /\ pc' = [pc EXCEPT ![c] = "stamped"]
    /\ evt' = [evt EXCEPT ![c] = e] /\ now' = [now EXCEPT ![c] = clock]
    /\ calls' = calls + 1
    /\ UNCHANGED <<clock, rules, rate, dedup, samples, snap, verdict,
                   admits, seen, kept, latest>>

\* Mutant: only the enabled rules are copied, into a list no SetRules installed.
MutCopyRules(c) ==
    /\ pc[c] = "stamped"
    /\ snap' = [snap EXCEPT ![c] = SelectSeq(rules, LAMBDA r : r.enabled)]
    /\ pc' = [pc EXCEPT ![c] = "copied"]
    /\ UNCHANGED <<clock, rules, rate, dedup, samples, evt, now, verdict, calls,
                   admits, seen, kept, latest>>

CopyRules(c) ==
    /\ pc[c] = "stamped"
    /\ snap' = [snap EXCEPT ![c] = rules]
    /\ pc' = [pc EXCEPT ![c] = "copied"]
    /\ UNCHANGED <<clock, rules, rate, dedup, samples, evt, now, verdict, calls,
                   admits, seen, kept, latest>>

-----------------------------------------------------------------------------
(* applyRules, run with stateMu held.                                       *)

\* The nine field tests.
Matches(r, e) == e \in r.match

Matching(rs, e) == {i \in DOMAIN rs : rs[i].enabled /\ Matches(rs[i], e)}
FirstMatch(rs, e) == rs[CHOOSE i \in Matching(rs, e) :
                            \A j \in Matching(rs, e) : i <= j]

\* sampleToKeepEvery, after the caller has replaced a rate <= 0 by 10%.
KeepEvery(percent) == CASE percent <= 0   -> 10
                        [] percent >= 100 -> 1
                        [] OTHER          -> 100 \div percent

Decision(store, forward, drop, id, reason) ==
    [store |-> store, forward |-> forward, drop |-> drop, rule |-> id, reason |-> reason]

Dropped(r, reason) == Decision(FALSE, FALSE, TRUE, r.id, reason)

\* The switch on the action, for an event no runtime control dropped.
ByAction(r) ==
    CASE r.action = "drop"              -> Decision(r.store, FALSE, TRUE, r.id, "rule_drop")
      [] r.action = "forward_only"      -> Decision(FALSE, TRUE, FALSE, r.id, "rule_forward_only")
      [] r.action = "store_only"        -> Decision(TRUE, FALSE, FALSE, r.id, "rule_store_only")
      [] r.action = "store_and_forward" -> Decision(TRUE, TRUE, FALSE, r.id, "rule_store_and_forward")
      [] r.action = "sample"            -> Decision(r.store, r.forward, FALSE, r.id, "rule_sample_keep")
      [] r.action = "keep"              -> Decision(r.store, r.forward, FALSE, r.id, "rule_keep")

\* Mutants: the first event of a second is not counted; the count is not reset.
MutBumpedLate(rs, sec) == IF rs.second = sec THEN [rs EXCEPT !.count = @ + 1]
                                             ELSE [second |-> sec, count |-> 0]
MutBumpedOn(rs, sec) == [second |-> sec, count |-> rs.count + 1]

\* One more event in second sec.
Bumped(rs, sec) == IF rs.second = sec THEN [rs EXCEPT !.count = @ + 1]
                                      ELSE [second |-> sec, count |-> 1]

\* Mutant: an event at the very end of the window is let through.
MutWithinWindow(last, stamp, seconds) == last # Never /\ stamp - last < seconds * SecTicks

WithinWindow(last, stamp, seconds) == last # Never /\ stamp - last <= seconds * SecTicks

\* Mutant: the last of each group is kept and not the first.
MutKeepSample(n, every) == every <= 1 \/ n % every = 0

KeepSample(n, every) == every <= 1 \/ n % every = 1

ApplyRule(c, r) ==
    LET e   == evt[c]
        sec == now[c] \div SecTicks
        rk  == <<r.id, e.source>>
        dk  == <<r.id, e>>
        sk  == <<r.id, [source |-> e.source, shape |-> e.shape]>>
        limited    == r.limit > 0 /\ Bumped(rate[rk], sec).count > r.limit
        duplicate  == r.window > 0 /\ WithinWindow(dedup[dk], now[c], r.window)
        sampling   == ~limited /\ ~duplicate /\ r.action = "sample"
        keep       == KeepSample(samples[sk] + 1, KeepEvery(r.sampleRate))
    IN  /\ rate' = IF r.limit > 0 THEN [rate EXCEPT ![rk] = Bumped(@, sec)] ELSE rate
        /\ dedup' = IF ~limited /\ r.window > 0 THEN [dedup EXCEPT ![dk] = now[c]] ELSE dedup
        /\ samples' = IF sampling THEN [samples EXCEPT ![sk] = @ + 1] ELSE samples
        /\ verdict' = [verdict EXCEPT ![c] =
                         CASE limited                             -> Dropped(r, "rule_rate_limit")
                           [] ~limited /\ duplicate               -> Dropped(r, "rule_duplicate_window")
                           [] sampling /\ ~keep                   -> Dropped(r, "rule_sample_drop")
                           [] OTHER                               -> ByAction(r)]
        /\ admits' = IF limited THEN admits ELSE [admits EXCEPT ![rk][sec] = @ + 1]
        /\ seen' = IF limited \/ r.window = 0 THEN seen
                   ELSE [seen EXCEPT ![dk] = @ \cup {now[c]}]
        /\ kept' = IF sampling /\ keep THEN [kept EXCEPT ![sk] = @ + 1] ELSE kept

Apply(c) ==
    /\ pc[c] = "copied"
    /\ IF Matching(snap[c], evt[c]) = {}
       THEN /\ verdict' = [verdict EXCEPT ![c] =
                  Decision(TRUE, FALSE, FALSE, "default-store-only", "default_store_only")]
            /\ UNCHANGED <<rate, dedup, samples, admits, seen, kept>>
       ELSE ApplyRule(c, FirstMatch(snap[c], evt[c]))
    /\ pc' = [pc EXCEPT ![c] = "idle"]
    /\ latest' = IF now[c] >= latest THEN now[c] ELSE LastTick + 1
    /\ UNCHANGED <<clock, rules, evt, now, snap, calls>>

Next ==
    \/ Tick
    \/ \E rs \in RuleSets : SetRules(rs)
    \/ \E c \in Callers : CopyRules(c) \/ Apply(c) \/ \E e \in Events : Stamp(c, e)

Spec == Init /\ [][Next]_vars

-----------------------------------------------------------------------------

TypeOK ==
    /\ clock \in SecTicks .. LastTick /\ rules \in RuleSets
    /\ rate \in [Ids \X Sources -> [second : Nat, count : Nat]]
    /\ dedup \in [Ids \X Events -> Nat \cup {Never}]
    /\ samples \in [Ids \X Shapes -> Nat] /\ kept \in [Ids \X Shapes -> Nat]
    /\ pc \in [Callers -> {"idle", "stamped", "copied"}]
    /\ evt \in [Callers -> Events \cup {Idle}] /\ now \in [Callers -> Nat]
    /\ snap \in [Callers -> RuleSets \cup {<<>>}]

LimitKept ==
    \A r \in AllRules, s \in Sources :
        r.limit > 0 => \A x \in DOMAIN admits[<<r.id, s>>] : admits[<<r.id, s>>][x] <= r.limit

\* Callers are inside Evaluate at the same time, and yet no stamp has been
\* applied after a later one.
InOrder == latest <= LastTick

\* A rule lets at most its limit of events of one source through in a second
\* (engine.go 130-143), whichever events and rule changes came between, as long
\* as concurrent callers reach the state in the order of their stamps.
RateLimitHolds == InOrder => LimitKept

\* An event is let through a rule's duplicate window only when the same event
\* did not reach that rule within the window before it (engine.go 145-152),
\* under the same condition.
DedupHolds ==
    [][\A c \in Callers, r \in AllRules :
         (/\ Apply(c) /\ latest' <= LastTick
          /\ verdict'[c].reason \notin {"rule_rate_limit", "rule_duplicate_window"}
          /\ Matching(snap[c], evt[c]) # {} /\ FirstMatch(snap[c], evt[c]) = r /\ r.window > 0)
         => \A s \in seen[<<r.id, evt[c]>>] : now[c] - s > r.window * SecTicks]_vars

\* Of the events sampled so far a rule kept one in keepEvery, the first ones
\* first: the mutex loses no count to concurrent callers (engine.go 163-174).
SampleRatio ==
    \A r \in AllRules, s \in Shapes :
        LET every == KeepEvery(r.sampleRate)
        IN  r.action = "sample" => kept[<<r.id, s>>] = (samples[<<r.id, s>>] + every - 1) \div every

\* No event is dropped without cause, even when stamps are applied out of
\* order: a rate-limit drop means the limit was used up in that second, and a
\* duplicate drop that the same event reached the rule within the window (a
\* concurrent caller's stamp may be later).
DropsJustified ==
    [][\A c \in Callers, r \in AllRules :
         (Apply(c) /\ Matching(snap[c], evt[c]) # {} /\ FirstMatch(snap[c], evt[c]) = r) =>
            /\ verdict'[c].reason = "rule_rate_limit" =>
                  admits[<<r.id, evt[c].source>>][now[c] \div SecTicks] >= r.limit
            /\ verdict'[c].reason = "rule_duplicate_window" =>
                  \E s \in seen[<<r.id, evt[c]>>] : now[c] - s <= r.window * SecTicks]_vars

\* The runtime controls drop what they should and nothing else.
DropsExact == DedupHolds /\ DropsJustified
=============================================================================
