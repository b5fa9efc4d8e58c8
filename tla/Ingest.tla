------------------------------- MODULE Ingest -------------------------------
(***************************************************************************)
(* Processor.ingest (cmd/ot-collector/main.go) with what it calls: the      *)
(* statistics, the event file, the live stream hub (internal/api/stream.go) *)
(* and the forward queue, here its contract.  The syslog consumer and every *)
(* API handler that takes events run it concurrently; each call it makes    *)
(* holds a lock of its own, and is a step of its own.                       *)
(***************************************************************************)
EXTENDS Integers, Sequences, FiniteSets, SequencesExt

CONSTANTS Events,     \* the events, each ingested once
          Decisions,  \* the decisions the rule engine may come to
          Clients,    \* the connections to /events/stream
          ChanSize,   \* capacity of a connection's channel
          MaxBusy,    \* bound: events being ingested at a time
          Workers,    \* number of the queue's workers
          QueueSize   \* capacity of the forward queue

\* What Evaluate returns: a drop never forwards, shows only what it stores,
\* and is marked as sampled only if it stores nothing.
EngineDecisions ==
    {d \in [store : BOOLEAN, forward : BOOLEAN, drop : BOOLEAN, show : BOOLEAN, sampled : BOOLEAN] :
        d.drop => ~d.forward /\ (d.show => d.store) /\ (d.sampled => ~d.store)}

ASSUME IngestAssumption ==
    /\ Decisions \subseteq EngineDecisions
    /\ {ChanSize, MaxBusy, Workers, QueueSize} \subseteq Nat \ {0}

VARIABLES
    pc,       \* where each event's ingestion stands
    dec,      \* decision
    will,     \* willForward
    todo,     \* the calls still to make, in order
    saw,      \* history: whether each event's ingestion found forwarding on
    fwdOn,    \* forwarding is configured, and the live forwarder has a URL
    stats,    \* Stats
    file,     \* the events in the event file
    lost,     \* history: events whose Append failed
    hub,      \* StreamHub.clients
    chan,     \* each client's channel
    pubLeft,  \* the clients that an event being published has yet to be offered
    pubGoal,  \* history: the clients when its Publish began
    got,      \* history: what each client was sent
    missed,   \* history: what was not sent to each client
    shown,    \* history: the events that were published
    lane, status    \* the forward queue: ForwardContract's variables

pipeVars   == <<pc, dec, will, todo, saw>>
streamVars == <<hub, chan, pubLeft, pubGoal, got, missed, shown>>
queueVars  == <<lane, status>>
storeVars  == <<file, lost>>
vars == <<pipeVars, fwdOn, stats, storeVars, streamVars, queueVars>>

Queue == INSTANCE ForwardContract WITH
            Tasks <- Events, Servers <- Workers, Capacity <- QueueSize

Labels == {"drop", "store_and_forward", "forward_only", "sample", "store_only"}
Calls  == {"AddDropped", "AddDecision", "Append", "AddStored", "Publish", "Enqueue"}

Undecided == [store |-> FALSE, forward |-> FALSE, drop |-> FALSE, show |-> FALSE,
              sampled |-> FALSE]

Init ==
    /\ pc = [e \in Events |-> "new"] /\ dec = [e \in Events |-> Undecided]
    /\ will = [e \in Events |-> FALSE] /\ todo = [e \in Events |-> <<>>]
    /\ saw = [e \in Events |-> FALSE] /\ fwdOn \in BOOLEAN
    /\ stats = [total |-> 0, stored |-> 0, dropped |-> 0, sampled |-> 0,
                by |-> [l \in Labels |-> 0]]
    /\ file = <<>> /\ lost = {}
    /\ hub = {} /\ chan = [c \in Clients |-> <<>>]
    /\ pubLeft = [e \in Events |-> {}] /\ pubGoal = [e \in Events |-> {}]
    /\ got = [c \in Clients |-> <<>>] /\ missed = [c \in Clients |-> {}]
    /\ shown = {}
    /\ Queue!Init

-----------------------------------------------------------------------------
(* The decision, and what follows from it.                                  *)

Finished(e) == pc[e] = "running" /\ todo[e] = <<>> /\ pubLeft[e] = {}
Busy == {e \in Events : pc[e] # "new" /\ ~Finished(e)}

Evaluate(e, d) ==
    /\ pc[e] = "new" /\ Cardinality(Busy) < MaxBusy
    /\ pc' = [pc EXCEPT ![e] = "evaluated"] /\ dec' = [dec EXCEPT ![e] = d]
    /\ UNCHANGED <<will, todo, saw, fwdOn, stats, storeVars, streamVars, queueVars>>

Label(d, forwarded) ==
    CASE d.drop                                          -> "drop"
      [] ~d.drop /\ d.store /\ forwarded                 -> "store_and_forward"
      [] ~d.drop /\ ~d.store /\ forwarded                -> "forward_only"
      [] ~d.drop /\ d.store /\ ~forwarded /\ d.sampled   -> "sample"
      [] OTHER                                           -> "store_only"

When(condition, calls) == IF condition THEN calls ELSE <<>>

\* Mutant: what is to be shown is shown, whether it is stored or not.
MutPlan(d, forwarded) ==
    When(~d.drop, <<"AddDecision">>)
    \o When(d.store, <<"Append">>) \o When(~d.drop /\ d.store, <<"AddStored">>)
    \o When(d.show, <<"Publish">>)
    \o When(d.drop, <<"AddDropped">>) \o When(forwarded, <<"Enqueue">>)

\* Steps 7 to 9: the calls a decision leads to, if Append succeeds.
Plan(d, forwarded) ==
    When(~d.drop, <<"AddDecision">>)
    \o When(d.store, <<"Append">>) \o When(~d.drop /\ d.store, <<"AddStored">>)
    \o When(d.store /\ d.show, <<"Publish">>)
    \o When(d.drop, <<"AddDropped">>) \o When(forwarded, <<"Enqueue">>)

\* Mutant: the settings alone say whether an event is forwarded.
MutReadForwarding(e) ==
    /\ pc[e] = "evaluated"
    /\ LET forwarded == ~dec[e].drop /\ fwdOn
       IN  will' = [will EXCEPT ![e] = forwarded]
           /\ todo' = [todo EXCEPT ![e] = Plan(dec[e], forwarded)]
    /\ saw' = [saw EXCEPT ![e] = fwdOn]
    /\ pc' = [pc EXCEPT ![e] = "running"]
    /\ UNCHANGED <<dec, fwdOn, stats, storeVars, streamVars, queueVars>>

ReadForwarding(e) ==
    /\ pc[e] = "evaluated"
    /\ LET forwarded == ~dec[e].drop /\ dec[e].forward /\ fwdOn
       IN  will' = [will EXCEPT ![e] = forwarded]
           /\ todo' = [todo EXCEPT ![e] = Plan(dec[e], forwarded)]
    /\ saw' = [saw EXCEPT ![e] = fwdOn]
    /\ pc' = [pc EXCEPT ![e] = "running"]
    /\ UNCHANGED <<dec, fwdOn, stats, storeVars, streamVars, queueVars>>

\* The next call of e is this one, and is made; a Publish under way ends first.
Makes(e, call) ==
    /\ todo[e] # <<>> /\ Head(todo[e]) = call /\ pubLeft[e] = {}
    /\ todo' = [todo EXCEPT ![e] = Tail(@)]
    /\ UNCHANGED <<pc, dec, will, saw, fwdOn>>

AddDecision(e) ==
    /\ Makes(e, "AddDecision")
    /\ stats' = [stats EXCEPT !.by[Label(dec[e], will[e])] = @ + 1,
                              !.sampled = IF dec[e].sampled THEN @ + 1 ELSE @]
    /\ UNCHANGED <<storeVars, streamVars, queueVars>>

AddDropped(e) ==
    /\ Makes(e, "AddDropped")
    /\ stats' = [stats EXCEPT !.total = @ + 1, !.dropped = @ + 1, !.by["drop"] = @ + 1,
                              !.sampled = IF dec[e].sampled THEN @ + 1 ELSE @]
    /\ UNCHANGED <<storeVars, streamVars, queueVars>>

AddStored(e) ==
    /\ Makes(e, "AddStored")
    /\ stats' = [stats EXCEPT !.total = @ + 1, !.stored = @ + 1]
    /\ UNCHANGED <<storeVars, streamVars, queueVars>>

AppendOK(e) ==
    /\ Makes(e, "Append")
    /\ file' = Append(file, e)
    /\ UNCHANGED <<lost, stats, streamVars, queueVars>>

\* Mutants: a failed Append is logged and otherwise taken for a success; a
\* failed Append ends the ingestion.
MutAppendFails(e) ==
    /\ Makes(e, "Append")
    /\ lost' = lost \cup {e}
    /\ UNCHANGED <<file, stats, streamVars, queueVars>>

MutAppendReturns(e) ==
    /\ todo[e] # <<>> /\ Head(todo[e]) = "Append"
    /\ todo' = [todo EXCEPT ![e] = <<>>] /\ lost' = lost \cup {e}
    /\ UNCHANGED <<pc, dec, will, saw, fwdOn, file, stats, streamVars, queueVars>>

\* What was stored is neither counted nor shown; all else goes on.
AppendFails(e) ==
    /\ todo[e] # <<>> /\ Head(todo[e]) = "Append"
    /\ todo' = [todo EXCEPT ![e] =
                  When(dec[e].drop, <<"AddDropped">>) \o When(will[e], <<"Enqueue">>)]
    /\ lost' = lost \cup {e}
    /\ UNCHANGED <<pc, dec, will, saw, fwdOn, file, stats, streamVars, queueVars>>

\* Enqueue, on the queue as its contract has it; a refusal is only logged.
Enqueue(e) ==
    /\ Makes(e, "Enqueue")
    /\ Queue!Accept(e) \/ Queue!Reject(e)
    /\ UNCHANGED <<stats, storeVars, streamVars>>

-----------------------------------------------------------------------------
(* The stream hub.  Publish holds the read lock while it offers the event   *)
(* to one client after the other; Subscribe and Unsubscribe take the lock   *)
(* for themselves.                                                          *)

Publishing == {e \in Events : pubLeft[e] # {}}

PublishBegin(e) ==
    /\ Makes(e, "Publish")
    /\ pubLeft' = [pubLeft EXCEPT ![e] = hub] /\ pubGoal' = [pubGoal EXCEPT ![e] = hub]
    /\ shown' = shown \cup {e}
    /\ UNCHANGED <<hub, chan, got, missed, stats, storeVars, queueVars>>

\* Mutants: the capacity is off by one; the send waits for the client; a full
\* channel ends the Publish.
MutOfferWide(e, c) ==
    /\ c \in pubLeft[e]
    /\ pubLeft' = [pubLeft EXCEPT ![e] = @ \ {c}]
    /\ IF Len(chan[c]) <= ChanSize
       THEN chan' = [chan EXCEPT ![c] = Append(@, e)] /\ UNCHANGED missed
       ELSE missed' = [missed EXCEPT ![c] = @ \cup {e}] /\ UNCHANGED chan
    /\ UNCHANGED <<pipeVars, fwdOn, hub, pubGoal, got, shown, stats, storeVars, queueVars>>

MutOfferWaits(e, c) ==
    /\ c \in pubLeft[e] /\ Len(chan[c]) < ChanSize
    /\ pubLeft' = [pubLeft EXCEPT ![e] = @ \ {c}]
    /\ chan' = [chan EXCEPT ![c] = Append(@, e)]
    /\ UNCHANGED <<pipeVars, fwdOn, hub, pubGoal, got, missed, shown, stats, storeVars, queueVars>>

MutOfferReturns(e, c) ==
    /\ c \in pubLeft[e]
    /\ IF Len(chan[c]) < ChanSize
       THEN /\ chan' = [chan EXCEPT ![c] = Append(@, e)] /\ UNCHANGED missed
            /\ pubLeft' = [pubLeft EXCEPT ![e] = @ \ {c}]
       ELSE /\ missed' = [missed EXCEPT ![c] = @ \cup {e}] /\ UNCHANGED chan
            /\ pubLeft' = [pubLeft EXCEPT ![e] = {}]
    /\ UNCHANGED <<pipeVars, fwdOn, hub, pubGoal, got, shown, stats, storeVars, queueVars>>

Offer(e, c) ==
    /\ c \in pubLeft[e]
    /\ pubLeft' = [pubLeft EXCEPT ![e] = @ \ {c}]
    /\ IF Len(chan[c]) < ChanSize
       THEN chan' = [chan EXCEPT ![c] = Append(@, e)] /\ UNCHANGED missed
       ELSE missed' = [missed EXCEPT ![c] = @ \cup {e}] /\ UNCHANGED chan
    /\ UNCHANGED <<pipeVars, fwdOn, hub, pubGoal, got, shown, stats, storeVars, queueVars>>

\* A connection has an id of its own: one that was used does not come back.
Subscribe(c) ==
    /\ c \notin hub /\ got[c] = <<>> /\ missed[c] = {}
    /\ Publishing = {}
    /\ hub' = hub \cup {c}
    /\ UNCHANGED <<pipeVars, fwdOn, stats, storeVars, queueVars,
                   chan, pubLeft, pubGoal, got, missed, shown>>

\* handleEventStream sends its client the oldest event in the channel.
Deliver(c) ==
    /\ c \in hub /\ chan[c] # <<>>
    /\ got' = [got EXCEPT ![c] = Append(@, Head(chan[c]))]
    /\ chan' = [chan EXCEPT ![c] = Tail(@)]
    /\ UNCHANGED <<pipeVars, fwdOn, stats, storeVars, queueVars, hub, pubLeft, pubGoal, missed, shown>>

\* Mutant: the hub does not wait for a Publish under way.
MutUnsubscribe(c) ==
    /\ c \in hub
    /\ hub' = hub \ {c} /\ chan' = [chan EXCEPT ![c] = <<>>]
    /\ missed' = [missed EXCEPT ![c] = @ \cup ToSet(chan[c])]
    /\ UNCHANGED <<pipeVars, fwdOn, stats, storeVars, queueVars, pubLeft, pubGoal, got, shown>>

\* The client has gone; its channel is closed.
Unsubscribe(c) ==
    /\ c \in hub /\ Publishing = {}
    /\ hub' = hub \ {c} /\ chan' = [chan EXCEPT ![c] = <<>>]
    /\ missed' = [missed EXCEPT ![c] = @ \cup ToSet(chan[c])]
    /\ UNCHANGED <<pipeVars, fwdOn, stats, storeVars, queueVars, pubLeft, pubGoal, got, shown>>

-----------------------------------------------------------------------------

\* An operator turns forwarding on or off.
SwitchForwarding ==
    /\ fwdOn' = ~fwdOn
    /\ UNCHANGED <<pipeVars, stats, storeVars, streamVars, queueVars>>

QueueStep ==
    /\ Queue!TakeOrDrop \/ \E e \in Events : Queue!Resolve(e)
    /\ UNCHANGED <<pipeVars, fwdOn, stats, storeVars, streamVars>>

IngestStep(e) ==
    \/ ReadForwarding(e)
    \/ AddDecision(e) \/ AddDropped(e) \/ AddStored(e)
    \/ AppendOK(e) \/ AppendFails(e)
    \/ PublishBegin(e) \/ \E c \in Clients : Offer(e, c)
    \/ Enqueue(e)

Next ==
    \/ \E e \in Events : IngestStep(e) \/ \E d \in Decisions : Evaluate(e, d)
    \/ \E c \in Clients : Subscribe(c) \/ Deliver(c) \/ Unsubscribe(c)
    \/ SwitchForwarding \/ QueueStep

\* Only that a goroutine which can step does; nothing is asked of the stream's
\* clients or of the queue's workers.
Spec == Init /\ [][Next]_vars
FairSpec == Spec /\ \A e \in Events : WF_vars(IngestStep(e))

-----------------------------------------------------------------------------

TypeOK ==
    /\ pc \in [Events -> {"new", "evaluated", "running"}]
    /\ dec \in [Events -> EngineDecisions] /\ will \in [Events -> BOOLEAN]
    /\ saw \in [Events -> BOOLEAN] /\ shown \subseteq Events
    /\ \A e \in Events : todo[e] \in Seq(Calls)
    /\ stats \in [total : Nat, stored : Nat, dropped : Nat, sampled : Nat, by : [Labels -> Nat]]
    /\ file \in Seq(Events) /\ lost \subseteq Events /\ hub \subseteq Clients
    /\ \A c \in Clients : chan[c] \in Seq(Events) /\ Len(chan[c]) <= ChanSize
    /\ \A e \in Events : pubLeft[e] \subseteq pubGoal[e] /\ pubGoal[e] \subseteq Clients
    /\ lane \in Seq(Events) /\ status \in [Events -> Queue!Statuses]

Waiting(call) == {e \in Events : \E i \in DOMAIN todo[e] : todo[e][i] = call}

\* The statistics and the file agree at all times, up to the events between an
\* Append and its AddStored; and what was ingested is stored, dropped, or (when
\* Append failed, or nothing was to be stored) in neither count (main.go 78-137).
StatsMatchFile ==
    /\ stats.stored + Cardinality(Waiting("AddStored") \cap ToSet(file))
         = Cardinality({e \in ToSet(file) : ~dec[e].drop})
    /\ stats.total = stats.stored + stats.dropped
    /\ Busy = {} =>
         /\ stats.by["drop"] = stats.dropped
         /\ \A l \in Labels : stats.by[l] =
              Cardinality({e \in Events : pc[e] = "running" /\ Label(dec[e], will[e]) = l})

\* A Publish never sends on the channel of a client that has unsubscribed (the
\* channel is closed, and the send would panic): stream.go 31-49.
NoSendOnClosed == \A e \in Events : pubLeft[e] \subseteq hub

\* Every client that was there when an event was published gets it once, or
\* misses it because its own channel was full or it left; the other clients make
\* no difference to it (stream.go 40-49).
EachClientOnce ==
    \A e \in Events : \A c \in pubGoal[e] \ pubLeft[e] :
        LET sent == got[c] \o chan[c]
        IN  Cardinality({i \in DOMAIN sent : sent[i] = e}) = IF e \in missed[c] THEN 0 ELSE 1

\* The hub serves every client alone, and survives its leaving.
StreamServed == NoSendOnClosed /\ EachClientOnce

\* What the rules decided is what becomes of an event: it was written, or its
\* Append failed, if and only if it was to be stored; it was published if and only
\* if it was to be shown and is in the file; and it was offered to the queue if and
\* only if it was to be forwarded and forwarding was on when its ingestion asked,
\* whether or not it could be stored and whatever was switched since. So the only
\* event that is neither in the file nor offered is one that was to be neither,
\* could not be written, or was to be forwarded only, at a time when forwarding
\* was off (main.go 439-451, 479-526).
DecisionCarriedOut ==
    \A e \in Events : Finished(e) =>
        /\ dec[e].store <=> e \in ToSet(file) \cup lost
        /\ e \in shown <=> dec[e].show /\ e \in ToSet(file)
        /\ status[e] # "new" <=> dec[e].forward /\ saw[e]

\* Ingestion never waits for a client of the stream, nor for the queue: each
\* event that is taken up is dealt with.
IngestEnds == \A e \in Events : pc[e] = "evaluated" ~> Finished(e)
=============================================================================
