# OT collector: a TLA+ development

The collector (`cmd/ot-collector`, `internal/`) takes events from syslog over
UDP and TCP and from an HTTP API, passes each through a rule matrix, stores it
in a JSON-lines file, shows it to live viewers and forwards it to a DMZ
collector.  This directory holds TLA+ modules that model its concurrent and
stateful parts, TLC configurations that check them on small instances, and
proofs checked by TLAPS.

    tlc -config MCForwardQueue_Safety.cfg MCForwardQueue.tla     # one run
    tlapm ForwardingProofs.tla       # the proofs about one module; likewise the
                                     # other *Proofs.tla and ListTheorems.tla

## 1. Inventory

| Component (source) | State | Operations | What makes it correct |
|---|---|---|---|
| Forward queue (`internal/forwarder/queue.go`) | channel, two atomic counters, worker goroutines | Enqueue, Drain, worker, process | no task lost, sent or reported twice; refuses only when full; counters tell the truth; workers end |
| Forwarding path (`main.go`, `forwarder.go`, `config/forwarding_config.go`) | stored settings and result record, live forwarder, forward counters | ingest's step 4 and 9, doSend, SendWithStatus, handleForwardResult, UpdateForwardingConfig | delivered at most once; counted as forwarded only if received; stored and live settings agree |
| Rule engine (`filter/engine.go`) | rules; rate, duplicate and sample state per rule | SetRules, Evaluate | limits and windows hold with concurrent callers; sampling ratio exact; no unjustified drop |
| Rule and source stores (`config/rules_config.go`, `sources_config.go`) | list in memory, JSON file | load, Replace, Upsert, Delete | a restart brings back what was saved |
| Rule requests (`api/handlers.go`) | none of their own; the store's and the engine's | POST, PUT, DELETE | engine and store agree |
| Event file (`storage/jsonl.go`) | the file, Repair's temporary file | Append, ReadFiltered, Repair | acknowledged events can be read, in order; Repair loses nothing |
| Ingest pipeline (`main.go`, `ingest`) | none of its own | ProcessRaw, ProcessNormalized, ProcessTestEvent | the decision is carried out, whatever fails; never waits |
| Statistics (`main.go`, `Stats`) | counters under a mutex | AddStored, AddDecision, AddDropped, AddForwardResult | they match the file and the deliveries |
| Live stream hub (`api/stream.go`) | bounded channel per client | Subscribe, Unsubscribe, Publish | each client gets each event once unless its own channel is full; no send on a closed channel |
| Syslog receivers and shutdown (`syslog/udp.go`, `tcp.go`, `api/server.go`, `main`) | sockets, the incoming channel, the wait group | listen, accept, read, hand over, cancel, wait | lines in order, none lost while running; the process ends |
| HTTP API (`api/handlers.go`) | none of its own | some twenty handlers | those that change state are modelled with the component they change |
| Syslog parser (`syslog/parser.go`) | none | Parse | the priority's severity and the host and application reach the event, in the envelopes understood |
| Normalizer (`normalizer/normalizer.go`, `patterns.go`) | none | FromParsed: payload, firewall record, or text | a payload cannot pass for the collector; a sensitive or urgent line is seen as one |
| Source-specific normalizers (`normalizers/*.go`) | none | Apply, one table per type of source | what the SCADA forwarder or an agent said of an event is not overruled |
| Source resolver (`sources/sources.go`) | none of its own; the source store's list | Resolve | every line gets a type, whatever was edited |
| SCADA log forwarder (`deploy/scada_log_forwarder.py`) | open file, offset, inode; de-duplication window | open, tail, reopen, classify, send | no line lost or sent again but for a cause; only repeats are suppressed |
| Process configuration (`config/config.go`) | none | read the environment | constants of the models |
| Web interface (`web/app.js`) | the page | calls to the API | only where what it posts matters: the settings page posts back the counters it loaded, or none |

How they interact: readers hand lines to one consumer through a bounded
channel; the consumer parses and normalizes each and, like the API handlers,
calls `ingest`, concurrently; `ingest`
calls the engine, the event file, the statistics, the hub and the queue, one
after the other, each under its own lock; the queue's workers call back into the
statistics and the forwarding store; API requests change the stores and then,
under another lock, the engine or the live forwarder.

What is hard here: two steps that look like one (channel and counter, store and
engine, settings and forwarder, statistics and settings); a time taken before
the lock it is used under; state read early and used late; short writes and
crashes at the files; a full channel at every hand-over; the shutdown; a log
that is rotated while it is followed; and four tables of names (patterns,
normalizers, aliases, default rules) that must agree about an event none of them
sees as a whole.
`PROJECT.json` lists each hazard at its line with the properties that cover it.

## 2. Modules

**ForwardQueue** models `queue.go` at the grain of its channel and atomic
operations.  `tasks` is the channel, `queued` and `inFlight` the atomics,
`wpc`/`wtask` the workers, `dpc`/`dn` the Drain calls, `enq` each caller's
Enqueue.  `Send; CountQueued` is Enqueue, `Receive .. UncountInFlight` a turn of
the worker's loop with `process` in it, `DrainRemove; DrainUncount` a turn of
Drain's.  A task may grow too old while queued (`Age`), with `HasMaxAge`.  `fate`
and `reports` are history.  **ForwardContract** is what the queue promises: a
bounded first-in first-out lane, at most as many tasks out of it as there are
workers, each resolved, dropped or refused once.  `StatusOf` and
the INSTANCE `Contract` in ForwardQueue are the refinement mapping, and
`ImplementsContract` says that it is one.

**Forwarding** extends ForwardQueue with the rest of the path: what ingestion
reads before it enqueues (`ReadConfig`, `ReadForwarder`), the POST to the URL the
worker read (`StartPost`, `FinishPost`; the answer may be lost after the DMZ has
the event), the two-step accounting of a result (`CountResult`, `RecordResult`)
and an operator's update, which replaces the stored settings (the write may fail)
and then, under another lock, swaps the live forwarder; several may be under way.
The path starts, as `loadOrInit` does, with any settings (`Configs`) and any record
of results (`Books`) on the disk and with `Stats` at zero, and a posted body carries
any of both: `Replace` takes it whole, counters included, from whatever page a client
has loaded it or not.  `ipc` is where an ingestion stands between its two reads.
`received` is the DMZ.  History: `start` and `erased` (the record last taken whole,
and what had been recorded before it), `cleared` (the events that were on their way
when an update cleared the URL), and of the updates since one last found no other
under way `posted`, `swapped`, `before` and `apart`.

**FilterEngine** models `Evaluate` in its three steps: the time (`Stamp`), the
copy of the rules under one lock (`CopyRules`), the first matching rule under
another (`Apply`).  The nine field tests of a rule become the set of events it
matches.  Time is in ticks, `SecTicks` of them to a second.

**JSONLStore** has the file as a sequence of lines, each a sequence of pieces (an
event, a torn piece, NUL padding) with or without its newline.  A write may be
cut short or the process may die in it; Repair copies line by line and renames.

**ConfigStore** is the rule and source stores, whose code is the same over two
types: memory first, then `os.WriteFile`, which truncates and may fail or be cut
off.  The loops that copy a list without an item are `Only` of **Lists**.  **RuleSync** extends it with the engine's list and the POST, PUT and DELETE
handlers, several at a time, across restarts.

**Ingest** is `Processor.ingest` from the engine's decision on.  `todo[e]` holds
the calls the decision leads to, in order; each is a step, and calls of different
events interleave.  A failed Append strikes out the calls that depend on it.  `saw`
and `shown` are history: whether forwarding was on when an event's ingestion asked,
and the events published.  The
hub's Publish offers the event client by client under the read lock.  The queue is
here an INSTANCE of ForwardContract, which the detailed queue implements.

**Ingress** is the way in and the way out: a goroutine per reader (UDP, each
TCP connection), the incoming channel, the consumer, the three servers with the
goroutine that closes each, and main's wait.  `inbox`, `sent`, `reset` are the
network's; a script is what a peer sends: lines, blank ones, and perhaps at its end a
part of one.

**ScadaTail** is the SCADA forwarder's loop over one path: `Stat` and `Open` are
two steps, as in the script, so that the log may be moved between them;
`ReadLine` takes what is buffered first and else what the file has, a half line
included, since `readline` returns it; a key enters `seen` before the send.  The
world logs whole lines or halves, moves the file away, starts a new one, cuts it;
reads may fail and the forwarder may be restarted.  A half line read together
with its rest is one line (`Units`).

**SourceTables, Normalizer, RuleMatrix** are the pure part of the way of an event,
and **EventPath** composes them: a line's arrival, an edit of the sources,
`Normalize` (`ProcessRaw`), `Post` (the two ways to post an event), `Ingest` up to
the decision, and `Replay` of a stored event.  A text is the set of needles that
the code looks for in it; `Inside` says which needles contain others, so that a
line with "modbus connection failed" also has "connection" and "failed".
`Normalizer` has the envelopes, the source, and the three ways from a message to
an event; where Go ranges over a map of fields, the model copies them in every
order (`CopiedAll`, one turn of the loop per key).  Of a line's layout one thing is
kept: what its last "]" stands behind (`bracket`), since a filterlog record is looked
for behind it and must begin with a digit there (`RecordSeen`).  Where the code asks one
question after another the modules say `IF .. ELSE IF`: in TLA+ a CASE whose arms
overlap does not promise the first.  `PathAssumption` says what may arrive (lines in
one of the four envelopes with finite payloads, events with all their fields);
`NamesAssumption` is a fact about the words of the tables, which is true of the
strings in the source: no name has another one in it, none has the words a
connection is logged with, and the SCADA forwarder's names have none that the
collector's table for it looks for.  `SourceTables` has the tables row by row, `RuleMatrix` the sixteen default
rules in their order, the matching of fields and the tags made of a decision.
Whether a rule that samples or limits lets an event through is a free choice here:
FilterEngine is about that.

Each module `X` that is run has an `MCX` that gives it values (RuleSync's is also
ConfigStore's, ForwardContract's is MCForwardQueue, and MCEventPath's that of the
three pure modules).  Operators called `Mut...`
are deliberately wrong versions of the definition after them: each property is
known to fail when one of them takes its place.

## 3. Runs

| Run | Instance | Shows |
|---|---|---|
| MCForwardQueue_Safety | 3 tasks, 2 workers, 2 Drains, capacity 2 (724k states) | `CountersExact`, `Ownership`, `DrainRemovesPending`, `ImplementsContract` |
| MCForwardQueue_Live | 2 tasks, 2 workers, 1 Drain, capacity 1, ages, cancellation | `AcceptedResolved` (with `StaleNeverSent`), `ShutdownEndsWorkers` |
| MCForwarding_Safety | 2 events, 2 workers, a Drain, 2 updates at once whose writes may fail, forwarding on, off, or on without a URL, a record of earlier results (2.8M) | `DeliveredOnce`, `StatsExact`, `ConfigAgrees` |
| MCFilterEngine_Safety | 2 callers, 4 calls, 2 events of a source, rules changed underneath, 2 ticks a second, time 2..5 (790k) | `RateLimitHolds`, `SampleRatio`, `DropsExact` |
| MCJSONLStore_Safety | 3 new events over empty, padded and torn files, 3 failures | `LossBounded`, `ReadsExact`, `RepairSound` |
| MCRuleSync_Safety | 3 requests, 2 at a time, failing writes, crashes, restarts (133k) | `EngineFromStore`, `RestartRestores` |
| MCRuleSync_TwoAtOnce | 2 concurrent requests, no failures | violation of `EngineMatchesStore` |
| MCIngest_Safety | 2 events at once, 2 stream clients with channels of one, 5 decisions, a queue of one (471k) | `StatsMatchFile`, `StreamServed`, `DecisionCarriedOut`, `IngestEnds` |
| MCIngress_Safety | a connection of four items and the UDP socket, a channel of one (154k) | `KeptInOrder`, `ShutdownEnds`, `LinesHandled` |
| MCScadaTail_Safety | 2 lines, whole or in halves, 2 upsets, a window of one tick (216k) | `RereadHasCause`, `DedupExact`, `LinesReach` |
| MCEventPath_Safety | every needle of every table and pattern, pairs of them, 6 sources, all envelopes, payloads, firewall records behind each kind of bracket, posted events (173k) | `AlertsReach`, `TagsAuthoritative`, `ReplayAgrees`, `ForwarderVerdictKept` |
| MCEventPath_Writes | the same | violation of `WritesForwarded` |

Several of these are conjunctions, one promise with its parts named where they
are defined: `DeliveredOnce` is `AtMostOnceDelivery` and `ForwardedMeansReceived`;
`StatsExact` is `SendsCounted`, `BookExact` and the Drains'
`DrainCountsExact`; `DropsExact`, `ReadsExact`, `RepairSound`, `EngineFromStore`,
`StreamServed`, `DedupExact` and `AlertsReach` likewise.

Why these bounds are enough to be interesting: in each, every queue or channel
is smaller than the number of things that want to be in it, so that full, empty
and blocked all occur; the safety runs have two of every actor that races with its
own kind, and one more task than the capacity where order matters; failures
may strike at every step, and up to three of them in a behaviour.  Symmetry (of
tasks, workers, callers, requests, updates, new events) is used in safety runs only; no
definition tells symmetric values apart.  MCForwarding's `View` makes states one that
differ only in what no later step and no property of that run reads: what a Drain call
set out to remove, and the age of a task that has left the queue or was refused.  `MaxCalls`, `LastTick`, `MaxBreaks`,
`MaxBusy`, `MaxLines` and `MaxUpsets` bound what the program does not, and are named where they
are declared; `Limits` are the limits a query may ask for;
`Cardinality(Requests)`, `Tasks`, `Events` and the scripts bound the rest.
`CHECK_DEADLOCK FALSE` stands where the system really stops: when the tasks,
calls or requests of the instance are used up, or the process has exited.

In MCForwarding the three settings with two updates let the URL be cleared and set
again around an event at any point of its way, and the stored and the live URL come
apart in both orders; the one record of earlier results differs from what `Stats`
counts in every field.  In MCScadaTail two upsets are enough for the hard case, a file moved between `stat`
and `open` and again while it is read, and a window of one tick with a clock that
reaches one puts a repeat inside the window, on its edge and outside.  MCEventPath
needs no bound on the program, which is a function there, but on the texts: any
row's needle alone, and every pair of one word for each kind of outcome, is enough
to meet each row, each pattern and each rule, and to have two of them disagree.

Conditions in the properties.  `RateLimitHolds` and `DedupHolds` ask that stamps
reach the state's lock in order: without it they fail (section 8).
`ForwardedMeansReceived` excuses the events that were on their way when an update
cleared the URL, and only those: the run's updates do clear it (section 8).
`AlertsReach` leaves out
structured payloads, whose severity, category and name are their sender's (with them
`ProtectedKept` fails, section 8), and asks that the name be one of the event's own
source: a line of another source that only says it may be dropped (section 8).  Of a
refused packet it asks that the envelope lets the record be seen (`RecordSeen`): in the
others the packet is not recognised (section 8).
`Urgent` leaves out the envelopes whose priority is not read and the firewall, whose
lines have rules of their own.  `LinesReach` excuses a file that is moved or cut before the
forwarder looks, a cut file that grew back over the offset, and a restart.  `EngineFollowsStore` excuses overlapping requests and failed
writes: without that, the finding of MCRuleSync_TwoAtOnce.  `ConfigAgrees` says that
the two agree only while no update has overlapped with another or failed to reach the
disk since one last began alone (`apart`); of those that did, it says between which
values the stored settings and the live URL are.  `LinesHandled` excuses a shutdown and a broken
connection.

## 4. Fairness

Weak fairness of each goroutine's own steps, and no more: Go runs every runnable
goroutine in the end, and every wait in these modules ends when its partner steps.
A send ends because its context has a timeout (`queue.go`, 147-151), so
`FinishSend` is among the fair steps.  Nothing is assumed of peers, stream clients, operators,
signals, crashes or ageing, and no fairness chooses between the branches of a
`select`: a worker's branches are one fair disjunction, and the finite number of
tasks, not luck, is what brings a cancelled worker to its `ctx.Done()` branch.
Go's random choice among ready branches gives the same with probability one in
an endless stream.  `IngestEnds` needs fairness of the ingesting goroutines
alone, which is its point.  ScadaTail's `Forwarder` is the script's `while True`
loop; logging, rotation, errors and restarts are not fair.

## 5. Proofs

Each `XProofs` proves about module X, for every value of the constants that X's
assumption allows (any number of tasks, callers, clients, lines, any capacity, any
clock), what the runs check on an instance.  Each proof has the same shape: an
inductive invariant, whose three facts are lemmas (`Init` has it, each action keeps
it, one step per action, and it gives the property), and a theorem that puts them
together.  An invariant was first checked with TLC as an invariant of the run, where
TLC can evaluate it.

**ForwardingProofs**, first about the queue on its own (`QueueAssumption`: finite
sets, a capacity of at least one; `NewForwardQueue` replaces a capacity of zero or
less):

- `TypeCorrect`: it includes that the channel never exceeds its capacity.
- `CountersAreExact`: the formula is inductive with TypeOK: each action moves at
  most one goroutine into or out of each of the counted places, and the lemmas
  `CountUp` and `CountDown` turn that into arithmetic.
- `TasksAreOwned`: each task is in one place and reported at most once.  `Ownership`
  as it is stated is about sets of workers and positions in the channel; the proof
  splits it into `ChannelInv` (what is in the channel is distinct, submitted and
  untouched), `HoldInv` and `AloneInv` (what a worker holds is taken, and by it
  alone), `SubmitInv` (a task that never was accepted is nowhere) and `ReportInv` (a
  report exactly when the outcome is final).  None of the five is preserved alone: a
  receive keeps `AloneInv` only because the channel is distinct (`ChannelInv`), a
  report keeps `ReportInv` only because no other worker holds the task.
  `OwnershipParts` proves the split equal to the property.
- `DrainsRemovePending`, over `OwnershipInv` and `GoalInv`: what a Drain call found
  pending was submitted, and has left the channel once the call has returned.
  It holds because neither is ever undone (`NeverUndone`) and because what is
  submitted and has not left the channel is in it, which the call last saw empty.
- `DrainCountsCorrect`: the answers of all Drain calls add up to the number of
  tasks drained.  The sum is the size of the set `DrainAnswers`, so that a call that
  takes a task adds one member to each of two sets.
- `QueueImplementsContract`: every step of the queue is a step of ForwardContract or
  a stutter.  `StatusOf` reads a task's status off where the task is; `StatusInv` is
  what it gives in each of the places that `OwnershipInv` allows.  The contract's guard
  that no more tasks are out than there are workers holds because those out are held
  by distinct workers (`AloneInv`).
- `StaleAreDiscarded`: `StaleNeverSent`, the safety part of `AcceptedResolved`.  A task
  that grew old before it was taken is `Discarded`, which no step undoes: a worker
  that takes it skips it, and nothing makes it young again.

Then about the composition of the queue with ingestion, the result callback and the
operator's updates:

- `PathKeepsQueue`: `FwdSpec => Spec`.  Every step of the path is a step of the
  queue or leaves it alone (`PathStepIsQueueStep`), so that the theorems above hold
  of the path too; `QueueFacts` is what the rest uses.
- `NeverDeliveredTwice`: no condition on URLs.  `ReceivedInv` says that an event is
  received at most once and not before its send has ended.  It is preserved because a
  send that ends is one of an event whose fate is `taken`, of which nothing was received
  yet (`FinishingOne`), and because no other step turns a fate into or out of an outcome
  (`OnlyFinishing`, which needs `ChannelInv`: what is received or drained is new).
- `DeliveredExactly`: `DeliveredOnce`, with the empty URL among the settings or not.
  `UrlInv` carries a fact through the time that lies between reading and sending:
  ingestion saw a forwarder with a URL before it submitted, so if there is none when
  the worker reads it, however much later, an update has cleared it meanwhile, and the
  event was `OnTheirWay` then; it is in `cleared`, and stays there (`ClearedKept`).
- `StatsAreExact`: `StatsExact`.  A result is counted by `stats` and then by the stored
  record.  `SendsCounted` and `BookExact` are kept apart, since a body or the disk sets
  the second to anything and never the first: `BookInv` adds that what was erased had been
  recorded, so that no result is added twice to a record begun anew.
- `PathTypeCorrect`: `FwdTypeOK`.
- `ConfigAgreement`: `ConfigAgrees`, for any number of updates that overlap or fail.
  `RoundInv` says what is missing while an update is between its two steps: as long as it
  was alone (`apart`), it is the only one there and the stored settings are its own.

**FilterEngineProofs** (any number of callers, any rules, any clock):

- `TypeCorrect`.  It needs that a list has a first matching rule if it has any
  (`NatMin`).
- `SampleIsExact`: `SampleRatio`, by the arithmetic of one more event on a count
  rounded up (`KeptOneMore`), assuming `SteadySamples`; `RateLimitCorrect` and `DropsCorrect`
  assume `SteadyLimits`.  The engine keeps its counts by the rule's id over a change
  of the rules.  Were the rate or the limit of an id edited, what is counted would be
  partly by the old number, and none of the three formulas would describe it.
  `RateInv` has both directions: `RateJust`, that a full count was earned,
  whatever the order of stamps (for `DropsJustified`), and `RateBound`, that while
  stamps come in order the count has missed nothing (for `RateLimitHolds`).  `DedupInv`
  does the same for the window.

**IngestProofs** is about what happens to an event.  First the pipeline (Ingest):
`TypeCorrect`, `DecisionsAreCarriedOut`, `StatsMatchTheFile`, `StreamServesEach`.  `Ranked` says that what an event has still to call is in the
order of the code, each call once, so that `EventInv` can say for each call what its
being due means; `StatsInv` counts by sets of events what each counter is; `StreamInv`
says of each client that what it got and its channel holds are distinct and not
missed.

- `DecisionsAreCarriedOut` follows each event's decision and the setting it read (`saw`)
  through the calls still due: what `todo` has left, together with the file, `lost`,
  `shown` and the queue's status, is always what the decision asked for.
- `PipelineQueueSafe`: the pipeline's queue is an instance of ForwardContract (the lemma
  `PipelineKeepsContract` only says so), which `QueueImplementsContract` proves of the
  queue's code, so that it is the queue ForwardingProofs is about.  Of it: the lane holds the waiting events, each once and no more than
  fit, and no more are out of it than there are workers (`Held` is finite, which
  its bound by a cardinality needs).

Then one event's path (EventPath), for every set `Origins` of lines and events that
`PathAssumption` allows, every set of source stores, and every `Inside` that agrees with
`NamesAssumption`: `PathTyped`, `TagsHeld`, `ReplaysMeetTheirRule`, `ForwarderHeard`,
`AlertsAlwaysReach`.  TLC has one `Inside` and some thousands of lines; here a line is any
set of words.

- The lemma `PathInvariant`.  The properties compare the end of the way with its beginning, and none
  is inductive: that a stored event is forwarded does not follow from anything about the
  event as it waits between two steps, but from what line it came from.  `PathInv` keeps
  that: an event under way has `Arrived` from its origin, one that was ingested is `Kept` (it
  is what ingest makes of an event that arrived), one posted again is `PostedAgain`.  An edit
  of the sources does not disturb it, since `Arrived` asks for some store among
  `SourceStores` and not for the present one.  `Kept` quantifies over all events,
  which TLC cannot do; its parts are the actions' own formulas.
- What the code makes of a line then is a chain of lemmas about functions:
  `FromParsedIs` (one of the three ways), `CanonicalIs`, `BySourceIs`, `HintedIs` (the three
  parts of `Apply`: what each changes and that it changes nothing else), put together
  in `NormalizedIs` and `FromLineComplete`; `IngestedIs`; `RulesMatch` and `RuleMet` (what the
  sixteen rules ask for, and that the last one catches all).  `RowsSound` is the one
  enumeration of the tables' rows: what no row may do (`RowSound`).
- `TagsHeld` rests on `CopiedAllIs`: one turn of the loop only adds a key that is no
  secret and not yet there (`CopiedIs`), so by induction over any order of the keys the
  collector's tags stand.  `CopySafeIs` needs the payload to be finite.
- `ReplaysMeetTheirRule`: a rule looks only at what `Alike` compares.  Ingest changes a source
  to its canonical name, which a second time is left as it is (`AliasesAre`), and tags no
  rule reads (`DecisionTags`); filling blanks changes nothing in an event without blanks.
- `ForwarderHeard`: the forwarder's payload is telemetry with the type `scada`, whatever
  address or envelope it came with, and no row of the SCADA table renames it: that
  is the third part of `NamesAssumption`.
- `AlertsAlwaysReach`: `OutcomeIs` says how an event can come to have a name of its source: a
  row gave it, with the row's category, or the line said the name already, with the
  category the patterns see in it.  In neither case does a rule that samples or limits
  ask for it.  `NamesApart` tells two names by their texts.

**IngressProofs**: `TypeCorrect`, and `OrderIsKept` over `OrderInv`: for each reader,
what has passed it in `Stream` (processed, in work, in the channel), what it holds and what
its inbox has are together the lines that arrived.  All readers share the channel, so the
proof is that the messages of one (`From`) do not move when another's do.

**RuleSyncProofs**: `TypeCorrect`, `EngineIsFromStore`, `RestartIsExact`.  `FileInv`
relates disk, memory and what was last saved; `StoredInv` covers the lists under way
to the engine, and `AloneInv` what a request that overlaps with none is about to install.

**ScadaTailProofs**: `TypeCorrect`; `WindowIsExact` over `SeenInv`, which ties the
window's entries to the tries of this run; `ResendsHaveCause` over `OpenInv` and
`OrderInv`.  `Pending` is a potential: the openings that the state of the world still
forces, so that an upset adds at most one to `opened + Pending` and no step of the
forwarder adds any.  `OrderInv` says that within one opening what was tried, what is
buffered and what is unread follow each other.

**JSONLStoreProofs** (any events, any files found at the start, any limits of queries,
any number of torn writes, failures and crashes): `TypeCorrect`, `LossIsBounded`,
`ReadsAreExact`, `RepairIsSound`.

- `LossBounded` is not inductive: a torn line costs nothing until an event is appended
  to it.  `LossInv` counts a last line without its newline as one loss still to come, and
  `HeldInv` says that such a line holds no acknowledged event, so that the next
  append can lose only its own.
- `ReadInOrder` is kept by `OrderGrows` (an acknowledged event goes to the end of both
  lists) and `OrderSkips` (one that is not read, or not acknowledged, is in one list only).
- `CopyInv` says of a Repair under way that its copy holds whole lines and reads like the
  part of the file it has gone through, so that the rename changes nothing a reader finds.
- `ReadIs` goes through the read loop line by line (`UpTo`): what it keeps is the last
  `limit` of the events matched so far (`KeepLast`).  It is about any file, not only
  those the store can leave.

**ListTheorems** has what these share: the least member of a set of naturals, induction
up to n stated with a set (`UpTo`), and what `Only`, the filter of Lists, does to empty,
joined and extended lists.  The filter is there as a recursive function because
the provers do not expand the library's `SelectSeq`.

Model-checked only:

- Liveness: `AcceptedResolved`, `ShutdownEndsWorkers`, `IngestEnds`, `ShutdownEnds`,
  `LinesHandled`, `LinesReach`.  Fairness and `ENABLED` are outside what the prover does.
  `StaleNeverSent`, a conjunct of the first, is proved.
- The two findings, which are runs that end in a violation.

So every invariant and action property that a passing run checks is stated by a theorem.

## 6. Plan

Done, in this order: ForwardQueue with ForwardContract, Forwarding (over the
queue), FilterEngine, JSONLStore, ConfigStore, RuleSync (over ConfigStore), Ingest
(over ForwardContract), Ingress, the proofs about the queue; then ScadaTail,
SourceTables, Normalizer, RuleMatrix, EventPath, ForwardingProofs; then the refinement
of the contract, FilterEngineProofs, IngestProofs, ScadaTailProofs, Lists and
ListTheorems, RuleSyncProofs, IngressProofs, JSONLStoreProofs; then, in IngestProofs, the
proofs about EventPath and that the pipeline keeps the queue's contract.

Next, to model:

1. Ingress with the queue's contract and requests in mid-service: what an exit
   can lose, against what a viewer or client was told.
2. The forwarding store's file: a write of it that a crash cuts off, and the start
   after it.
3. Two paths of the SCADA forwarder over one window.

## 7. Not modelled, and why

- Of the parser and normalizers: layouts of times, asset names, targets, the tags
  that are only shown (MITRE hints, addresses and ports of a packet), the text an
  event is given when a table renames it, beyond its name.  Texts are sets of
  needles, so where in a line a needle stands is not modelled.  In EventPath a
  rule's further tests (asset, protocol) are left out: no default rule has one.
- A query's tests are the set of events they let through, and in FilterEngine so
  are a rule's.
- A URL of blanks only, which the stored settings keep as it is and `forwarder.New`
  trims to none: URLs are taken as trimmed.
- The field defaults at the head of `ingest`, the tags, and the per-field
  statistics (by severity, asset, minute): data no other part reads.
- The process configuration is read once; it appears as constants.
- Memory growth of the engine's maps; HTTP framing, size limits, rendering.
- Requests being served at shutdown (`server.go:129`), tasks in the queue at exit:
  planned above.
- The API's unsynchronised copy of the sources, which is only shown.

## 8. Observations

With a run (the findings of `PROJECT.json`):

- Two concurrent rule requests can leave the engine with the older list until the
  next change or restart (`handlers.go:285`, `307`, `317`).
- The text of a logged OPC UA write gets the category `operator_write`
  (`patterns.go:84`); the rules for writes and reads ask for `operator_action`
  (`rules_config.go:181`).  A write without a sensitive word is only stored.

Without a run of their own, seen while modelling.  Each of the first six
is a condition or a bound of a property above, and dropping it shows it:

- A forwarder without a URL reports success (`forwarder.go:48`).  Once an update
  clears the URL, which POST /config/forwarding accepts, what is queued is counted and
  recorded as forwarded: without `cleared`, `ForwardedMeansReceived` fails.
- A stale time stamp sets the second back and the limiter's count to zero
  (`engine.go:79`, `130-140`); more than the limit passes: without its condition on
  the order of stamps `RateLimitHolds` fails.
- A short write leaves a torn line, and the next acknowledged event is appended
  to it (`jsonl.go:64`): no reader finds either.  `LossBounded` shows the loss is
  never more than one event a torn write.
- The sampling rules ask for a source and a category, not for a name: a PLC's
  `plc_login_attempt` that comes as a payload with the category `network` keeps both
  (it meets no row of the tables) and is sampled away (`rules_config.go:187`), though it
  is in the list of events that must never be (`ot_collector_data_handling.md:163`).
  With payloads let in (`IsLine` for `Plain`) `ProtectedKept` fails.
- A line whose application is `opnsense` is the firewall's, whatever its text names:
  `scada_script_load_error` in it is marked `alert_candidate` and may still be dropped by
  the firewall's catch-all rule (`rules_config.go:186`), since the mark goes by the name
  and the rule by the source.  Without `OwnNames`, `ProtectedKept` fails; the attempt
  to prove it that way found this.
- A record of a blocked or rejected packet, in an envelope that is not understood (an ISO
  time) and with a priority, is not recognised: the whole line is the message, and it
  begins with "<" where a digit is looked for (`parser.go:92`, `normalizer.go:702-704`), unless
  structured data ends right before the record.  From an address that is not the
  firewall's it becomes plain text and is only stored; from the firewall's, or with
  `filterlog` in its text, it is a `firewall_event` or a parse error
  (`normalizer.go:475-480`), and a rule that samples may drop it.  The same holds behind
  the "]" of a process id in such a line.  Without `RecordSeen`, `ProtectedKept` fails.
- `forward_only` while forwarding is off: the event is neither stored nor
  forwarded, and its label (and the statistics) say `store_only`
  (`main.go:349-366`).
- The tag `forwarding_status = queued` is set and stored before Enqueue; an
  event the full queue refuses keeps it (`main.go:463`, `519`).
- Resetting the sources from the page posts an empty list, which is stored; the
  defaults come back only at the next start (`sources_config.go:49`,
  `web/app.js:936`).
- The gauge `queued` may be read as -1: a worker may receive a task between
  Enqueue's send and its add (`queue.go:84`, `119`).
- Disabling forwarding without clearing the URL does not stop what is queued
  (`main.go:689`).
- Two concurrent updates of the forwarding settings can leave the stored and the
  live URL apart, and so does one whose write fails (`main.go:596-602`), until the next
  update that does neither; `ConfigAgrees` says how far apart.
- The record of results is whatever a body carries: the settings page posts back the
  counters it loaded, over the results recorded since, and a body without any sets
  them to zero (`handlers.go:347-352`, `forwarding_config.go:52`).  It also survives a
  restart (`forwarding_config.go:95-107`) while `Stats` begins again at zero, so the two
  sums the API shows differ.
- POST /config/rules installs the body as sent and stores it sanitized: a rule
  without an id is evaluated until the next change (`handlers.go:285`).
- The rule test of the page runs `Evaluate`, and so uses up the rate limit and
  the window of real events (`main.go:579`).
- An event whose Append fails is in `by_decision` but not in the total
  (`main.go:493-501`).
- A connection's last line is dropped when it has no newline (`tcp.go:59-66`).
- The SCADA forwarder takes a half line that `readline` returns for a whole one
  (`scada_log_forwarder.py:177`), enters a key into the window before a send that
  may fail (`194`), loses the unread end of a file that is moved away, rereads a file
  replaced between `stat` and `open` (`139`), and does not see a file cut and grown
  back past the offset.  Its paths share one window.
- The aliases (`opnsense`, `fuxa`, `openplc` and others) are resolved after the tables are
  applied (`main.go:434`), so an aliased payload misses its source's table.
- A line with an ISO time, or in no known envelope, keeps no severity from its
  priority (`parser.go`).
- `ingest` overwrites a `collector_decision_hint`, and writes `drop` where a sample is
  dropped (`main.go:369-383`).  A payload's own `forwarding_status` survives when the
  event is not forwarded, and so does a replayed event's.
- A disabled source falls back to the built-in addresses (`sources.go:45`).  Every
  line from the firewall's address that is no filter record becomes a
  `firewall_event`, whatever it says.
- The SCADA forwarder calls `'opcua' connected!` `scada_plc_connected`, the
  collector's table `scada_opcua_connected`.
- POST /test-event lets blank severities and categories through; read back and
  posted again, such an event may meet another rule (`ReplayAgrees` excuses it).
- Three handlers write the API's copy of the known sources without a lock
  (`handlers.go:230`, `256`, `263`).
- `normalizer_test.go` expects the type `gds-agent` and the category `network` for a
  firewall's events; the code gives `gds_agent` and `security`.
- `main` does not wait for the workers, nor for requests being served
  (`main.go:765`, `server.go:129`).
