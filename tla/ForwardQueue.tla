---------------------------- MODULE ForwardQueue ----------------------------
(***************************************************************************)
(* The asynchronous forward queue (internal/forwarder/queue.go): a bounded  *)
(* Go channel, a pool of worker goroutines, callers of Enqueue and callers  *)
(* of Drain.  The channel, the two atomic counters and the goroutines' own  *)
(* control are separate steps, because the code updates the counters with   *)
(* atomics of their own, before or after the channel operation and never    *)
(* together with it.                                                        *)
(***************************************************************************)
EXTENDS Integers, Sequences, FiniteSets

CONSTANTS Tasks,      \* the ForwardTasks ever submitted; each by a caller of its own
          Workers,    \* the worker goroutines
          Drainers,   \* the goroutines that call Drain (one per reset request)
          BufSize,    \* capacity of the channel
          HasMaxAge,  \* maxAge > 0
          NoTask      \* "no task", for a worker that holds none

ASSUME QueueAssumption ==
    /\ IsFiniteSet(Tasks) /\ IsFiniteSet(Workers) /\ IsFiniteSet(Drainers)
    /\ BufSize \in Nat \ {0}    \* NewForwardQueue replaces a size <= 0
    /\ HasMaxAge \in BOOLEAN
    /\ NoTask \notin Tasks

VARIABLES
    tasks,     \* the channel
    queued,    \* atomic counter
    inFlight,  \* atomic counter
    ctxDone,   \* the workers' context is cancelled
    old,       \* tasks submitted more than maxAge ago
    enq,       \* where each task's Enqueue call stands
    wpc,       \* where each worker stands
    wtask,     \* the task each worker holds
    dpc,       \* where each Drain call stands
    dn,        \* each Drain call's n
    dgoal,     \* history: the tasks in the channel when the Drain call began
    fate,      \* history: what became of each task after it left the channel
    reports    \* history: how often onResult was called for each task

counters == <<queued, inFlight>>
env      == <<ctxDone, old>>
work     == <<wpc, wtask>>
drain    == <<dpc, dn, dgoal>>
history  == <<fate, reports>>
qvars    == <<tasks, enq, counters, env, work, drain, history>>

EnqPc    == {"new", "sent", "accepted", "refused"}
Holding  == {"received", "uncounted", "process", "sending", "report"}
WorkerPc == Holding \cup {"select", "release", "exited"}
DrainPc  == {"idle", "draining", "removed", "returned"}
Outcomes == {"ok", "failed"}
Fates    == {"none", "taken", "skipped", "drained"} \cup Outcomes

Elems(s) == {s[i] : i \in 1 .. Len(s)}

Init ==
    /\ tasks = <<>> /\ queued = 0 /\ inFlight = 0 /\ ctxDone = FALSE
    /\ old = {}
    /\ enq = [t \in Tasks |-> "new"]
    /\ wpc = [w \in Workers |-> "select"]
    /\ wtask = [w \in Workers |-> NoTask]
    /\ dpc = [d \in Drainers |-> "idle"]
    /\ dn = [d \in Drainers |-> 0]
    /\ dgoal = [d \in Drainers |-> {}]
    /\ fate = [t \in Tasks |-> "none"]
    /\ reports = [t \in Tasks |-> 0]

-----------------------------------------------------------------------------
(* Enqueue: a send that does not block, then the counter.                   *)

\* Mutant: the select's default case is lost and the send ignores the capacity.
MutSend(t) ==
    /\ enq[t] = "new"
    /\ tasks' = Append(tasks, t) /\ enq' = [enq EXCEPT ![t] = "sent"]
    /\ UNCHANGED <<env, work, drain, counters, history>>

Send(t) ==
    /\ enq[t] = "new"
    /\ Len(tasks) < BufSize
    /\ tasks' = Append(tasks, t)
    /\ enq' = [enq EXCEPT ![t] = "sent"]
    /\ UNCHANGED <<env, work, drain, counters, history>>

\* Mutant: an off-by-one in the backpressure refuses with one place left.
MutRefuse(t) ==
    /\ enq[t] = "new" /\ Len(tasks) >= BufSize - 1
    /\ enq' = [enq EXCEPT ![t] = "refused"]
    /\ UNCHANGED <<tasks, env, work, drain, counters, history>>

Refuse(t) ==
    /\ enq[t] = "new"
    /\ Len(tasks) >= BufSize
    /\ enq' = [enq EXCEPT ![t] = "refused"]
    /\ UNCHANGED <<tasks, env, work, drain, counters, history>>

CountQueued(t) ==
    /\ enq[t] = "sent"
    /\ queued' = queued + 1
    /\ enq' = [enq EXCEPT ![t] = "accepted"]
    /\ UNCHANGED <<tasks, inFlight, env, work, drain, history>>

-----------------------------------------------------------------------------
(* A worker.  Its select takes either ready case.                           *)

Receive(w) ==
    /\ wpc[w] = "select"
    /\ tasks # <<>>
    /\ wtask' = [wtask EXCEPT ![w] = Head(tasks)]
    /\ fate' = [fate EXCEPT ![Head(tasks)] = "taken"]
    /\ tasks' = Tail(tasks)
    /\ wpc' = [wpc EXCEPT ![w] = "received"]
    /\ UNCHANGED <<enq, reports, env, drain, counters>>

\* Mutant: a worker that finds the channel empty returns.
MutExit(w) ==
    /\ wpc[w] = "select" /\ (ctxDone \/ tasks = <<>>)
    /\ wpc' = [wpc EXCEPT ![w] = "exited"]
    /\ UNCHANGED <<tasks, enq, wtask, env, drain, counters, history>>

Exit(w) ==
    /\ wpc[w] = "select"
    /\ ctxDone
    /\ wpc' = [wpc EXCEPT ![w] = "exited"]
    /\ UNCHANGED <<tasks, enq, wtask, env, drain, counters, history>>

UncountQueued(w) ==
    /\ wpc[w] = "received"
    /\ queued' = queued - 1
    /\ wpc' = [wpc EXCEPT ![w] = "uncounted"]
    /\ UNCHANGED <<tasks, inFlight, enq, wtask, env, drain, history>>

CountInFlight(w) ==
    /\ wpc[w] = "uncounted"
    /\ inFlight' = inFlight + 1
    /\ wpc' = [wpc EXCEPT ![w] = "process"]
    /\ UNCHANGED <<tasks, queued, enq, wtask, env, drain, history>>

IsStale(t) == HasMaxAge /\ t \in old

Skip(w) ==
    /\ wpc[w] = "process"
    /\ IsStale(wtask[w])
    /\ fate' = [fate EXCEPT ![wtask[w]] = "skipped"]
    /\ wpc' = [wpc EXCEPT ![w] = "report"]
    /\ UNCHANGED <<tasks, enq, wtask, reports, env, drain, counters>>

StartSend(w) ==
    /\ wpc[w] = "process"
    /\ ~IsStale(wtask[w])
    /\ wpc' = [wpc EXCEPT ![w] = "sending"]
    /\ UNCHANGED <<tasks, enq, wtask, env, drain, counters, history>>

\* Mutant: a failed task is put back for another try, and reported as well.
MutFinishSend(w, outcome) ==
    /\ wpc[w] = "sending"
    /\ fate' = [fate EXCEPT ![wtask[w]] = outcome]
    /\ wpc' = [wpc EXCEPT ![w] = "report"]
    /\ tasks' = IF outcome = "failed" /\ Len(tasks) < BufSize
                THEN Append(tasks, wtask[w]) ELSE tasks
    /\ UNCHANGED <<enq, wtask, reports, env, drain, counters>>

\* doSend returned: without an error, or with one (a time-out is one).
FinishSend(w, outcome) ==
    /\ wpc[w] = "sending"
    /\ fate' = [fate EXCEPT ![wtask[w]] = outcome]
    /\ wpc' = [wpc EXCEPT ![w] = "report"]
    /\ UNCHANGED <<tasks, enq, wtask, reports, env, drain, counters>>

\* Mutant: the result callback blocks once the context is cancelled.
MutReport(w) ==
    /\ wpc[w] = "report" /\ ~ctxDone
    /\ reports' = [reports EXCEPT ![wtask[w]] = @ + 1]
    /\ wpc' = [wpc EXCEPT ![w] = "release"] /\ wtask' = [wtask EXCEPT ![w] = NoTask]
    /\ UNCHANGED <<tasks, enq, fate, env, drain, counters>>

\* onResult(result)
Report(w) ==
    /\ wpc[w] = "report"
    /\ reports' = [reports EXCEPT ![wtask[w]] = @ + 1]
    /\ wpc' = [wpc EXCEPT ![w] = "release"]
    /\ wtask' = [wtask EXCEPT ![w] = NoTask]
    /\ UNCHANGED <<tasks, enq, fate, env, drain, counters>>

UncountInFlight(w) ==
    /\ wpc[w] = "release"
    /\ inFlight' = inFlight - 1
    /\ wpc' = [wpc EXCEPT ![w] = "select"]
    /\ UNCHANGED <<tasks, queued, enq, wtask, env, drain, history>>

-----------------------------------------------------------------------------
(* Drain: receive without blocking until the channel is found empty.        *)

DrainBegin(d) ==
    /\ dpc[d] = "idle"
    /\ dpc' = [dpc EXCEPT ![d] = "draining"]
    /\ dgoal' = [dgoal EXCEPT ![d] = Elems(tasks)]
    /\ UNCHANGED <<tasks, enq, dn, env, work, counters, history>>

DrainRemove(d) ==
    /\ dpc[d] = "draining"
    /\ tasks # <<>>
    /\ fate' = [fate EXCEPT ![Head(tasks)] = "drained"]
    /\ tasks' = Tail(tasks)
    /\ dn' = [dn EXCEPT ![d] = @ + 1]
    /\ dpc' = [dpc EXCEPT ![d] = "removed"]
    /\ UNCHANGED <<enq, dgoal, reports, env, work, counters>>

\* Mutant: Drain forgets the counter.
MutDrainUncount(d) ==
    /\ dpc[d] = "removed"
    /\ dpc' = [dpc EXCEPT ![d] = "draining"]
    /\ UNCHANGED <<tasks, counters, enq, dn, dgoal, env, work, history>>

DrainUncount(d) ==
    /\ dpc[d] = "removed"
    /\ queued' = queued - 1
    /\ dpc' = [dpc EXCEPT ![d] = "draining"]
    /\ UNCHANGED <<tasks, inFlight, enq, dn, dgoal, env, work, history>>

\* Mutant: Drain gives up after one task.
MutDrainReturn(d) ==
    /\ dpc[d] = "draining" /\ (tasks = <<>> \/ dn[d] > 0)
    /\ dpc' = [dpc EXCEPT ![d] = "returned"]
    /\ UNCHANGED <<tasks, enq, dn, dgoal, env, work, counters, history>>

DrainReturn(d) ==
    /\ dpc[d] = "draining"
    /\ tasks = <<>>
    /\ dpc' = [dpc EXCEPT ![d] = "returned"]
    /\ UNCHANGED <<tasks, enq, dn, dgoal, env, work, counters, history>>

-----------------------------------------------------------------------------
(* The environment: time passes a task's maxAge, the context is cancelled.  *)

Age(t) ==
    /\ HasMaxAge /\ t \notin old
    /\ fate[t] \in {"none", "taken"}
    /\ old' = old \cup {t}
    /\ UNCHANGED <<tasks, ctxDone, enq, work, drain, counters, history>>

Cancel ==
    /\ ~ctxDone
    /\ ctxDone' = TRUE
    /\ UNCHANGED <<tasks, old, enq, work, drain, counters, history>>

Enqueue(t) == Send(t) \/ Refuse(t) \/ CountQueued(t)

WorkerStep(w) ==
    \/ Receive(w) \/ Exit(w) \/ UncountQueued(w) \/ CountInFlight(w)
    \/ Skip(w) \/ StartSend(w) \/ (\E o \in Outcomes : FinishSend(w, o))
    \/ Report(w) \/ UncountInFlight(w)

Drain(d) == DrainBegin(d) \/ DrainRemove(d) \/ DrainUncount(d) \/ DrainReturn(d)

Next ==
    \/ \E t \in Tasks : Enqueue(t) \/ Age(t)
    \/ \E w \in Workers : WorkerStep(w)
    \/ \E d \in Drainers : Drain(d)
    \/ Cancel

\* Every goroutine that can step does: the Go scheduler starves none, and
\* doSend returns because its context carries the send time-out.
Fairness ==
    /\ \A w \in Workers : WF_qvars(WorkerStep(w))
    /\ \A d \in Drainers : WF_qvars(DrainRemove(d) \/ DrainUncount(d) \/ DrainReturn(d))
    /\ \A t \in Tasks : WF_qvars(CountQueued(t))

Spec == Init /\ [][Next]_qvars
FairSpec == Spec /\ Fairness

-----------------------------------------------------------------------------

TypeOK ==
    /\ tasks \in Seq(Tasks) /\ Len(tasks) <= BufSize
    /\ queued \in Int /\ inFlight \in Int
    /\ ctxDone \in BOOLEAN /\ old \subseteq Tasks
    /\ enq \in [Tasks -> EnqPc]
    /\ wpc \in [Workers -> WorkerPc] /\ wtask \in [Workers -> Tasks \cup {NoTask}]
    /\ dpc \in [Drainers -> DrainPc] /\ dn \in [Drainers -> Nat]
    /\ dgoal \in [Drainers -> SUBSET Tasks]
    /\ fate \in [Tasks -> Fates] /\ reports \in [Tasks -> Nat]

WorkersAt(pcs)  == {w \in Workers : wpc[w] \in pcs}
DrainersAt(pcs) == {d \in Drainers : dpc[d] \in pcs}
TasksAt(pcs)    == {t \in Tasks : enq[t] \in pcs}

\* The queued counter is the length of the channel, up to the goroutines that
\* stand between their channel operation and their atomic add; the in-flight
\* counter is the number of workers inside process.  (Enqueue 80-89, Drain
\* 93-104 and worker 109-125 each pair a channel operation with a counter.)
\* The last term makes queued negative when a worker outruns Enqueue.
CountersExact ==
    /\ queued = Len(tasks) + Cardinality(WorkersAt({"received"}))
                           + Cardinality(DrainersAt({"removed"}))
                           - Cardinality(TasksAt({"sent"}))
    /\ inFlight = Cardinality(WorkersAt({"process", "sending", "report", "release"}))

\* A task is in exactly one place: its caller still holds it or was refused,
\* or it is in the channel once, or one worker alone holds it and has not
\* reported it, or it was reported once, or a drain discarded it unreported.
\* No interleaving of callers, workers and drains loses or duplicates one.
InChannelOnce ==
    /\ \A i, j \in 1 .. Len(tasks) : tasks[i] = tasks[j] => i = j
    /\ \A t \in Tasks : t \in Elems(tasks) <=>
                         enq[t] \in {"sent", "accepted"} /\ fate[t] = "none"

HeldOnce ==
    /\ \A w \in Workers : wpc[w] \in Holding =>
           /\ wtask[w] \in Tasks
           /\ reports[wtask[w]] = 0
           /\ IF wpc[w] = "report" THEN fate[wtask[w]] \in Outcomes \cup {"skipped"}
                                   ELSE fate[wtask[w]] = "taken"
    /\ \A v, w \in WorkersAt(Holding) : wtask[v] = wtask[w] => v = w
    /\ \A t \in Tasks : fate[t] # "none" => enq[t] \in {"sent", "accepted"}

ReportedOnce ==
    \A t \in Tasks :
        LET held == \E w \in WorkersAt(Holding) : wtask[w] = t
        IN  /\ fate[t] \in {"none", "drained"} => reports[t] = 0 /\ ~held
            /\ fate[t] = "taken" => held
            /\ fate[t] \in Outcomes \cup {"skipped"} => reports[t] = IF held THEN 0 ELSE 1

Ownership == InChannelOnce /\ HeldOnce /\ ReportedOnce

\* Drain's contract (comment 91-92): it "removes all pending tasks": when it
\* returns, none of the tasks pending when it was called is still in the
\* channel, whatever the workers and Enqueue did meanwhile.  (For a caller
\* that refuses to let go, tasks enqueued during the call may remain.)
DrainRemovesPending ==
    \A d \in Drainers : dpc[d] = "returned" => dgoal[d] \cap Elems(tasks) = {}

\* Drain's result: together the calls return the number of tasks discarded,
\* no task counted by two of them or by a drain and a worker.  (The sum of the
\* answers is the size of the set that has dn[d] members for each call d.)
DrainAnswers == UNION {{d} \X (1 .. dn[d]) : d \in Drainers}
Drained == {t \in Tasks : fate[t] = "drained"}

DrainCountsExact == Cardinality(DrainAnswers) = Cardinality(Drained)

\* Comment queue.go:33: a task older than maxAge is discarded without a send.
\* One that has outlived maxAge before a worker picks it up is never sent.
StaleNeverSent ==
    \A t \in Tasks : HasMaxAge =>
        []((t \in old /\ fate[t] = "none") => [](fate[t] \notin Outcomes))

\* Every accepted task is eventually reported or discarded, unless the
\* workers were told to stop (worker 109-125 serves the channel for ever); and
\* for one that grew too old in the queue the report is not of a send.
AcceptedResolved ==
    /\ \A t \in Tasks : enq[t] = "accepted" ~>
           (reports[t] = 1 \/ fate[t] = "drained" \/ ctxDone)
    /\ StaleNeverSent

\* Cancelling the context ends every worker, none of them in mid-send with its
\* result unreported.
ShutdownEndsWorkers == ctxDone ~> \A w \in Workers : wpc[w] = "exited"

-----------------------------------------------------------------------------
(* What the queue implements: ForwardContract.                              *)

\* Where a task stands for the contract: a server holds it until the result
\* callback has been called for it.
StatusOf(t) ==
    CASE enq[t] \in {"new", "refused"}                -> enq[t]
      [] fate[t] = "none" /\ enq[t] \notin {"new", "refused"} -> "pending"
      [] fate[t] = "drained"                          -> "dropped"
      [] fate[t] \notin {"none", "drained"} /\ reports[t] = 0 -> "held"
      [] OTHER                                        -> "resolved"

Contract == INSTANCE ForwardContract WITH
              Servers <- Cardinality(Workers), Capacity <- BufSize,
              lane <- tasks, status <- [t \in Tasks |-> StatusOf(t)]

\* The queue implements its contract: FIFO, bounded, refuses only when full,
\* serves at most one task per worker, resolves each task once.
ImplementsContract == Contract!Spec
=============================================================================
