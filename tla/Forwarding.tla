----------------------------- MODULE Forwarding -----------------------------
(***************************************************************************)
(* The forwarding path of the collector (cmd/ot-collector/main.go with      *)
(* internal/forwarder and internal/config/forwarding_config.go): ingestion  *)
(* decides from the stored configuration and the live forwarder whether to  *)
(* enqueue, the ForwardQueue's workers POST to the live forwarder's URL and *)
(* report, and POST /config/forwarding replaces the stored configuration    *)
(* and then swaps the live forwarder, each under a lock of its own.         *)
(* Every event here is one the rule matrix decided to forward.              *)
(***************************************************************************)
EXTENDS ForwardQueue

CONSTANTS Updaters,     \* the POST /config/forwarding
          Urls,         \* DMZ URLs
          NoUrl,        \* the empty URL
          Configs,      \* the settings that forwarding.json may hold, or its absence
                        \* stand for, at the start, and that a posted body may carry
          Books,        \* the records of results of either, those of earlier lives
          EnvUrls,      \* what DMZ_COLLECTOR_URL may be; used when none is stored
          PersistFails  \* whether writing forwarding.json may fail

AnyUrl == Urls \cup {NoUrl}

ASSUME ForwardingAssumption ==
    /\ EnvUrls \subseteq AnyUrl
    /\ Configs \subseteq [enabled : BOOLEAN, url : AnyUrl]
    /\ \A b \in Books : b \in [ok : Int, failed : Int, last : {b.last}]
    /\ PersistFails \in BOOLEAN

VARIABLES
    cfg,        \* ForwardingStore.data, its settings
    book,       \* ForwardingStore.data, its record of the results: the counts
                \* of each outcome and LastForwardedEventID
    liveUrl,    \* the URL of Processor.forwarder
    stats,      \* Stats.forwardedCount and failedForwardCnt
    ipc,        \* where each event's ingestion stands: "enabled" or "disabled" is
                \* the stored Enabled that it has read
    target,     \* the URL of the forwarder each worker is sending with, if it is
    counted,    \* workers that have updated Stats for their result
    received,   \* external: the URLs at which the DMZ received each event
    upc, ucfg,  \* where each update stands, and the settings in its body
    start,      \* history: the record of results that the store last got whole,
                \* from the disk or from a body
    erased,     \* history: events whose results it had recorded before that
    cleared,    \* history: events that were on their way to a forwarder when an
                \* update cleared the URL
    posted, swapped, before, apart
                \* history: of the updates since one last replaced the settings
                \* while no other was between its two steps, the settings posted
                \* and the URLs swapped for; the live URL before them; and whether
                \* there was no other than that one, and it reached the disk

pathVars   == <<cfg, book, liveUrl, stats>>
sendVars   == <<target, counted, received>>
roundVars  == <<posted, swapped, before, apart>>
updateVars == <<upc, ucfg, start, erased, cleared, roundVars>>
vars       == <<qvars, pathVars, ipc, sendVars, updateVars>>

Nothing == [enabled |-> FALSE, url |-> NoUrl]  \* the settings of a request not under way
Enabled(url) == url # NoUrl                    \* Forwarder.Enabled

FwdInit ==
    /\ Init
    /\ cfg \in Configs
    /\ liveUrl \in IF Enabled(cfg.url) THEN {cfg.url} ELSE EnvUrls
    /\ book \in Books /\ stats = [ok |-> 0, failed |-> 0]
    /\ ipc = [t \in Tasks |-> "arrived"]
    /\ target = [w \in Workers |-> NoUrl] /\ counted = {}
    /\ received = [t \in Tasks |-> {}]
    /\ upc = [u \in Updaters |-> "idle"]
    /\ ucfg = [u \in Updaters |-> Nothing]
    /\ start = book /\ erased = {} /\ cleared = {}
    /\ posted = {} /\ swapped = {} /\ before = liveUrl /\ apart = TRUE

-----------------------------------------------------------------------------
(* Processor.ingest, step 4 and step 9.                                     *)

ReadConfig(t) ==
    /\ ipc[t] = "arrived"
    /\ ipc' = [ipc EXCEPT ![t] = IF cfg.enabled THEN "enabled" ELSE "disabled"]
    /\ UNCHANGED <<qvars, pathVars, sendVars, updateVars>>

\* Mutant: ingestion does not ask whether the live forwarder is enabled.
MutReadForwarder(t) ==
    /\ ipc[t] \in {"enabled", "disabled"}
    /\ ipc' = [ipc EXCEPT ![t] = IF @ = "enabled" THEN "forward" ELSE "local"]
    /\ UNCHANGED <<qvars, pathVars, sendVars, updateVars>>

\* From here on the event carries the tag forwarding_status = "queued", and is
\* stored with it, exactly when its ingestion stands at "forward".
ReadForwarder(t) ==
    /\ ipc[t] \in {"enabled", "disabled"}
    /\ ipc' = [ipc EXCEPT ![t] = IF @ = "enabled" /\ Enabled(liveUrl)
                                 THEN "forward" ELSE "local"]
    /\ UNCHANGED <<qvars, pathVars, sendVars, updateVars>>

Submit(t) ==
    /\ ipc[t] = "forward"
    /\ Enqueue(t)
    /\ UNCHANGED <<pathVars, ipc, sendVars, updateVars>>

-----------------------------------------------------------------------------
(* A worker's send and its result callback, handleForwardResult.            *)

\* doSend reads the live forwarder, then posts with it.
StartPost(w) ==
    /\ StartSend(w)
    /\ target' = [target EXCEPT ![w] = liveUrl]
    /\ UNCHANGED <<pathVars, ipc, counted, received, updateVars>>

\* Mutant: the client posts again when the first answer did not come in time.
MutFinishPost(w, outcome) ==
    /\ FinishSend(w, outcome)
    /\ LET got(n) == {<<i, target[w]>> : i \in 1 .. n}
       IN  received' = [received EXCEPT ![wtask[w]] =
                          CASE ~Enabled(target[w]) -> {}
                            [] Enabled(target[w]) /\ outcome = "ok"     -> got(1)
                            [] Enabled(target[w]) /\ outcome = "failed" -> got(2)]
    /\ ~Enabled(target[w]) => outcome = "ok"
    /\ target' = [target EXCEPT ![w] = NoUrl]
    /\ UNCHANGED <<pathVars, ipc, counted, updateVars>>

\* SendWithStatus: a disabled forwarder returns no error and sends nothing.
\* Otherwise a success was received; a failure may have been (the answer was
\* an error status, or was lost, or came after the time-out).
FinishPost(w, outcome) ==
    /\ FinishSend(w, outcome)
    /\ LET t == wtask[w]
           url == target[w]
           got == [received EXCEPT ![t] = @ \cup {<<Cardinality(@), url>>}]
       IN  CASE ~Enabled(url) -> outcome = "ok" /\ received' = received
             [] Enabled(url) /\ outcome = "ok"     -> received' = got
             [] Enabled(url) /\ outcome = "failed" -> received' \in {received, got}
    /\ target' = [target EXCEPT ![w] = NoUrl]
    /\ UNCHANGED <<pathVars, ipc, counted, updateVars>>

\* UpdateForwardResult, which a skipped task does not reach.
Booked(t, outcome) ==
    CASE outcome = "ok"      -> [book EXCEPT !.ok = @ + 1, !.last = t]
      [] outcome = "failed"  -> [book EXCEPT !.failed = @ + 1]
      [] outcome = "skipped" -> book

\* Mutant: a success is counted again as long as the callback has not returned.
MutCountResult(w) ==
    /\ wpc[w] = "report" /\ fate[wtask[w]] # "skipped"
    /\ stats' = [stats EXCEPT ![fate[wtask[w]]] = @ + 1]
    /\ counted' = counted \cup {w}
    /\ UNCHANGED <<qvars, cfg, book, liveUrl, ipc, target, received, updateVars>>

CountResult(w) ==
    /\ wpc[w] = "report" /\ fate[wtask[w]] # "skipped" /\ w \notin counted
    /\ stats' = [stats EXCEPT ![fate[wtask[w]]] = @ + 1]
    /\ counted' = counted \cup {w}
    /\ UNCHANGED <<qvars, cfg, book, liveUrl, ipc, target, received, updateVars>>

\* Mutant: the store is told before Stats is.
MutRecordFirst(w) ==
    /\ Report(w)
    /\ counted' = counted \ {w}
    /\ book' = Booked(wtask[w], fate[wtask[w]])
    /\ UNCHANGED <<cfg, liveUrl, stats, ipc, target, received, updateVars>>

\* Mutant: the callback's state outlives the callback.
MutRecordResult(w) ==
    /\ Report(w)
    /\ fate[wtask[w]] # "skipped" => w \in counted
    /\ book' = Booked(wtask[w], fate[wtask[w]])
    /\ UNCHANGED <<cfg, liveUrl, stats, ipc, target, counted, received, updateVars>>

RecordResult(w) ==
    /\ Report(w)
    /\ fate[wtask[w]] # "skipped" => w \in counted
    /\ counted' = counted \ {w}
    /\ book' = Booked(wtask[w], fate[wtask[w]])
    /\ UNCHANGED <<cfg, liveUrl, stats, ipc, target, received, updateVars>>

\* The steps of the queue that touch nothing else.
QueueStep ==
    /\ \/ \E w \in Workers : \/ Receive(w) \/ Exit(w) \/ UncountQueued(w)
                             \/ CountInFlight(w) \/ Skip(w) \/ UncountInFlight(w)
       \/ \E d \in Drainers : Drain(d)
       \/ \E t \in Tasks : Age(t)
       \/ Cancel
    /\ UNCHANGED <<pathVars, ipc, sendVars, updateVars>>

-----------------------------------------------------------------------------
(* UpdateForwardingConfig: Replace under the store's lock, then the swap.   *)

\* The events whose results the store has been told.
Recorded == {t \in Tasks : fate[t] \in Outcomes /\
                           ~\E w \in WorkersAt({"report"}) : wtask[w] = t}
Replacing == {u \in Updaters : upc[u] = "replaced"}

\* The store takes the whole body, settings and results, and keeps it even when
\* writing it to disk fails; the request then fails before the swap.
Replace(u, c, b, persisted) ==
    /\ upc[u] = "idle"
    /\ ~persisted => PersistFails
    /\ cfg' = c /\ book' = b
    /\ ucfg' = [ucfg EXCEPT ![u] = IF persisted THEN c ELSE Nothing]
    /\ upc' = [upc EXCEPT ![u] = IF persisted THEN "replaced" ELSE "done"]
    /\ start' = b /\ erased' = Recorded
    /\ apart' = (persisted /\ Replacing = {})
    /\ IF Replacing = {} THEN posted' = {c} /\ swapped' = {} /\ before' = liveUrl
                         ELSE posted' = posted \cup {c} /\ UNCHANGED <<swapped, before>>
    /\ UNCHANGED <<qvars, liveUrl, stats, ipc, sendVars, cleared>>

\* The events to be forwarded that no worker is posting or has posted.
OnTheirWay == {t \in Tasks : /\ ipc[t] = "forward" /\ fate[t] \notin Outcomes
                             /\ ~\E w \in WorkersAt({"sending"}) : wtask[w] = t}

SwapFor(url) ==
    /\ liveUrl' = url
    /\ cleared' = IF Enabled(url) THEN cleared ELSE cleared \cup OnTheirWay

\* Mutant: the forwarder is swapped only for a configuration that enables it.
MutSwap(u) ==
    /\ upc[u] = "replaced"
    /\ IF ucfg[u].enabled THEN SwapFor(ucfg[u].url) ELSE UNCHANGED <<liveUrl, cleared>>
    /\ swapped' = swapped \cup {ucfg[u].url}
    /\ upc' = [upc EXCEPT ![u] = "done"] /\ ucfg' = [ucfg EXCEPT ![u] = Nothing]
    /\ UNCHANGED <<qvars, cfg, book, stats, ipc, sendVars, start, erased,
                   posted, before, apart>>

Swap(u) ==
    /\ upc[u] = "replaced"
    /\ SwapFor(ucfg[u].url)
    /\ swapped' = swapped \cup {ucfg[u].url}
    /\ upc' = [upc EXCEPT ![u] = "done"] /\ ucfg' = [ucfg EXCEPT ![u] = Nothing]
    /\ UNCHANGED <<qvars, cfg, book, stats, ipc, sendVars, start, erased,
                   posted, before, apart>>

FwdNext ==
    \/ QueueStep
    \/ \E t \in Tasks : ReadConfig(t) \/ ReadForwarder(t) \/ Submit(t)
    \/ \E w \in Workers :
          \/ StartPost(w) \/ CountResult(w) \/ RecordResult(w)
          \/ \E o \in Outcomes : FinishPost(w, o)
    \/ \E u \in Updaters :
          \/ Swap(u)
          \/ \E c \in Configs, b \in Books, persisted \in BOOLEAN : Replace(u, c, b, persisted)

FwdSpec == FwdInit /\ [][FwdNext]_vars

-----------------------------------------------------------------------------

FwdTypeOK ==
    /\ TypeOK
    /\ cfg \in Configs /\ {liveUrl, before} \subseteq AnyUrl
    /\ book \in [ok : Int, failed : Int, last : Tasks \cup {b.last : b \in Books}]
    /\ start \in Books /\ stats \in [Outcomes -> Nat]
    /\ ipc \in [Tasks -> {"arrived", "enabled", "disabled", "forward", "local"}]
    /\ target \in [Workers -> AnyUrl] /\ counted \subseteq WorkersAt({"report"})
    /\ \A t \in Tasks : received[t] \subseteq Nat \X Urls
    /\ upc \in [Updaters -> {"idle", "replaced", "done"}]
    /\ ucfg \in [Updaters -> [enabled : BOOLEAN, url : AnyUrl]]
    /\ erased \subseteq Tasks /\ cleared \subseteq Tasks /\ apart \in BOOLEAN
    /\ posted \subseteq Configs /\ swapped \subseteq AnyUrl

\* No event reaches the DMZ twice, at one URL or at two: no worker retries, and
\* neither a swap of the forwarder nor a concurrent worker or reset can make a
\* task be posted again (queue.go 109-163, main.go 689-694).
AtMostOnceDelivery == \A t \in Tasks : Cardinality(received[t]) <= 1

\* What the result callback counts as forwarded was received by the DMZ, unless
\* an update cleared the URL while the event was on its way: a forwarder without
\* a URL reports success and sends nothing (forwarder.go 48-50).  An event that
\* was skipped, drained, refused or kept local was not received.
ForwardedMeansReceived ==
    \A t \in Tasks : /\ fate[t] = "ok" => received[t] # {} \/ t \in cleared
                     /\ fate[t] \notin Outcomes => received[t] = {}

\* Together: what the collector says of an event is true of the DMZ, but for the
\* events that a cleared URL overtook.  Any other that counts as forwarded was
\* received exactly once, one that failed at most once, the rest not at all.
DeliveredOnce == AtMostOnceDelivery /\ ForwardedMeansReceived

\* Stats counts each finished send once, in the step between the send and the
\* store's record: at any time the counters are the finished sends less those
\* whose worker has yet to count them (AddForwardResult, main.go 139-148).
SendsCounted ==
    \A o \in Outcomes :
        stats[o] = Cardinality({t \in Tasks : fate[t] = o /\
            ~\E w \in WorkersAt({"report"}) \ counted : wtask[w] = t})

\* The stored record is what the store last got whole, from the disk or from a
\* body, and every result recorded since, each once: a body posted between the
\* two halves of a callback loses the results recorded before it and no other.
\* It names an event sent since then, if there is one (main.go 551-557,
\* forwarding_config.go 49-57, 61-79, 95-107).
RecordedSince(o) == {t \in Recorded \ erased : fate[t] = o}
BookExact ==
    /\ \A o \in Outcomes : book[o] = start[o] + Cardinality(RecordedSince(o))
    /\ book.last \in IF RecordedSince("ok") = {} THEN {start.last} ELSE RecordedSince("ok")

\* What an operator is told adds up: the counters of the results, the record of
\* them in the stored settings, and the numbers the resets answered with.
StatsExact == SendsCounted /\ BookExact /\ DrainCountsExact

\* Of updates that overlap, one has the stored settings, and one that returned
\* well the live URL, which stays what it was while there is none.  So the two
\* disagree for good only after updates that overlapped, or one that failed to
\* reach the disk; and the next one that does neither puts it right.  Until the
\* first, a stored empty URL stands for the environment's (main.go 595-603, 649-654).
ConfigAgrees ==
    /\ Replacing = {} /\ apart => \/ liveUrl = cfg.url
                                  \/ posted = {} /\ cfg.url = NoUrl /\ liveUrl \in EnvUrls
    /\ posted # {} => /\ cfg \in posted
                      /\ liveUrl \in IF swapped = {} THEN {before} ELSE swapped
=============================================================================
