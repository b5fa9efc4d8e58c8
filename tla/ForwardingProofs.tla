--------------------------- MODULE ForwardingProofs ---------------------------
(***************************************************************************)
(* TLAPS proofs about the forwarding path, for every set of tasks, workers, *)
(* drains, resets, updates and URLs and every capacity.  First the queue on *)
(* its own: type correctness, the ownership of its tasks, the exactness of  *)
(* its counters and its contract.  Then the path around it: the path's      *)
(* steps are the queue's steps, so what is proved of the queue holds of the *)
(* path, and what the collector says of an event is true of the DMZ.        *)
(***************************************************************************)
EXTENDS Forwarding, FiniteSetTheorems, TLAPS

-----------------------------------------------------------------------------
(* Part 1: the queue, for every behaviour of ForwardQueue's Spec.           *)

\* The frame of every action: the tuples that group the variables.
LEMMA TypeStep == TypeOK /\ [Next]_qvars => TypeOK'
<1> SUFFICES ASSUME TypeOK, [Next]_qvars PROVE TypeOK'
  OBVIOUS
<1> USE QueueAssumption DEF TypeOK, EnqPc, WorkerPc, Holding, DrainPc, Fates, Outcomes,
        counters, env, work, drain, history
<1>1. ASSUME NEW t \in Tasks, Enqueue(t) \/ Age(t) PROVE TypeOK'
  <2>1. CASE Send(t)
    BY <2>1 DEF Send
  <2>2. CASE Refuse(t)
    BY <2>2 DEF Refuse
  <2>3. CASE CountQueued(t)
    BY <2>3 DEF CountQueued
  <2>4. CASE Age(t)
    BY <2>4 DEF Age
  <2> QED
    BY <1>1, <2>1, <2>2, <2>3, <2>4 DEF Enqueue
<1>2. ASSUME NEW w \in Workers, WorkerStep(w) PROVE TypeOK'
  <2>1. CASE Receive(w)
    <3>1. Head(tasks) \in Tasks /\ Tail(tasks) \in Seq(Tasks) /\ Len(Tail(tasks)) <= BufSize
      BY <2>1 DEF Receive
    <3> QED
      BY <2>1, <3>1 DEF Receive
  <2>2. CASE Exit(w)
    BY <2>2 DEF Exit
  <2>3. CASE UncountQueued(w)
    BY <2>3 DEF UncountQueued
  <2>4. CASE CountInFlight(w)
    BY <2>4 DEF CountInFlight
  <2>5. CASE Skip(w)
    BY <2>5 DEF Skip
  <2>6. CASE StartSend(w)
    BY <2>6 DEF StartSend
  <2>7. ASSUME NEW o \in Outcomes, FinishSend(w, o) PROVE TypeOK'
    BY <2>7 DEF FinishSend
  <2>8. CASE Report(w)
    <3>1. CASE wtask[w] \in Tasks
      BY <2>8, <3>1 DEF Report
    <3>2. CASE wtask[w] \notin Tasks
      <4>1. reports' = reports
        BY <2>8, <3>2 DEF Report
      <4> QED
        BY <2>8, <4>1 DEF Report
    <3> QED
      BY <3>1, <3>2
  <2>9. CASE UncountInFlight(w)
    BY <2>9 DEF UncountInFlight
  <2> QED
    BY <1>2, <2>1, <2>2, <2>3, <2>4, <2>5, <2>6, <2>7, <2>8, <2>9 DEF WorkerStep
<1>3. ASSUME NEW d \in Drainers, Drain(d) PROVE TypeOK'
  <2>1. CASE DrainBegin(d)
    <3>1. Elems(tasks) \subseteq Tasks
      BY DEF Elems
    <3> QED
      BY <2>1, <3>1 DEF DrainBegin
  <2>2. CASE DrainRemove(d)
    <3>1. Head(tasks) \in Tasks /\ Tail(tasks) \in Seq(Tasks) /\ Len(Tail(tasks)) <= BufSize
      BY <2>2 DEF DrainRemove
    <3> QED
      BY <2>2, <3>1 DEF DrainRemove
  <2>3. CASE DrainUncount(d)
    BY <2>3 DEF DrainUncount
  <2>4. CASE DrainReturn(d)
    BY <2>4 DEF DrainReturn
  <2> QED
    BY <1>3, <2>1, <2>2, <2>3, <2>4 DEF Drain
<1>4. CASE Cancel
  BY <1>4 DEF Cancel
<1>5. CASE UNCHANGED qvars
  BY <1>5 DEF qvars
<1> QED
  BY <1>1, <1>2, <1>3, <1>4, <1>5 DEF Next

\* Every variable keeps its type: in particular the channel never holds more
\* than BufSize tasks.
THEOREM TypeCorrect == Spec => []TypeOK
<1>1. Init => TypeOK
  <2> SUFFICES ASSUME Init PROVE TypeOK
    OBVIOUS
  <2>1. tasks \in Seq(Tasks) /\ Len(tasks) <= BufSize
    BY QueueAssumption DEF Init
  <2>2. fate \in [Tasks -> Fates] /\ reports \in [Tasks -> Nat] /\ enq \in [Tasks -> EnqPc]
    BY DEF Init, EnqPc, Fates
  <2>3. wpc \in [Workers -> WorkerPc] /\ wtask \in [Workers -> Tasks \cup {NoTask}]
    BY DEF Init, WorkerPc
  <2>4. /\ dpc \in [Drainers -> DrainPc] /\ dn \in [Drainers -> Nat]
        /\ dgoal \in [Drainers -> SUBSET Tasks]
    BY DEF Init, DrainPc
  <2>5. queued \in Int /\ inFlight \in Int /\ old \subseteq Tasks
    BY DEF Init
  <2>6. ctxDone \in BOOLEAN
    BY Zenon DEF Init
  <2> QED
    BY <2>1, <2>2, <2>3, <2>4, <2>5, <2>6 DEF TypeOK
<1> QED
  BY <1>1, TypeStep, PTL DEF Spec

-----------------------------------------------------------------------------

LEMMA CountUp ==
  ASSUME NEW S, IsFiniteSet(S), NEW x, x \notin S
  PROVE  Cardinality(S \cup {x}) = Cardinality(S) + 1
BY FS_AddElement

LEMMA CountDown ==
  ASSUME NEW S, IsFiniteSet(S), NEW x, x \in S
  PROVE  Cardinality(S \ {x}) = Cardinality(S) - 1
BY FS_RemoveElement

InProcess == {"process", "sending", "report", "release"}

LEMMA CountsAreNat ==
  ASSUME NEW pcs
  PROVE  /\ IsFiniteSet(WorkersAt(pcs)) /\ Cardinality(WorkersAt(pcs)) \in Nat
         /\ IsFiniteSet(DrainersAt(pcs)) /\ Cardinality(DrainersAt(pcs)) \in Nat
         /\ IsFiniteSet(TasksAt(pcs)) /\ Cardinality(TasksAt(pcs)) \in Nat
<1>1. /\ WorkersAt(pcs) \subseteq Workers
      /\ DrainersAt(pcs) \subseteq Drainers
      /\ TasksAt(pcs) \subseteq Tasks
  BY DEF WorkersAt, DrainersAt, TasksAt
<1> QED
  BY <1>1, QueueAssumption, FS_Subset, FS_CardinalityType

\* How the three populations the counters depend on move in a step.
LEMMA CountersStep == TypeOK /\ CountersExact /\ [Next]_qvars => CountersExact'
<1> SUFFICES ASSUME TypeOK, CountersExact, [Next]_qvars PROVE CountersExact'
  OBVIOUS
<1> DEFINE R == WorkersAt({"received"})
           P == WorkersAt(InProcess)
           D == DrainersAt({"removed"})
           S == TasksAt({"sent"})
<1>1. /\ IsFiniteSet(R) /\ Cardinality(R) \in Nat
      /\ IsFiniteSet(P) /\ Cardinality(P) \in Nat
      /\ IsFiniteSet(D) /\ Cardinality(D) \in Nat
      /\ IsFiniteSet(S) /\ Cardinality(S) \in Nat
  BY CountsAreNat
<1>2. /\ queued = Len(tasks) + Cardinality(R) + Cardinality(D) - Cardinality(S)
      /\ inFlight = Cardinality(P)
  BY DEF CountersExact, InProcess
<1>3. SUFFICES /\ queued' = Len(tasks') + Cardinality(R') + Cardinality(D') - Cardinality(S')
               /\ inFlight' = Cardinality(P')
  BY DEF CountersExact, InProcess
<1>4. /\ tasks \in Seq(Tasks) /\ Len(tasks) \in Nat /\ queued \in Int /\ inFlight \in Int
      /\ wpc \in [Workers -> WorkerPc] /\ dpc \in [Drainers -> DrainPc]
      /\ enq \in [Tasks -> EnqPc]
  BY DEF TypeOK
<1> HIDE DEF R, P, D, S
<1>5. ASSUME UNCHANGED <<tasks, wpc, dpc, enq, queued, inFlight>>
      PROVE  UNCHANGED <<tasks, queued, inFlight, R, P, D, S>>
  BY <1>5 DEF R, P, D, S, WorkersAt, DrainersAt, TasksAt
<1>6. ASSUME NEW t \in Tasks, Enqueue(t) \/ Age(t)
      PROVE  /\ queued' = Len(tasks') + Cardinality(R') + Cardinality(D') - Cardinality(S')
             /\ inFlight' = Cardinality(P')
  <2>1. CASE Send(t)
    <3>1. Len(tasks') = Len(tasks) + 1
      BY <2>1, <1>4 DEF Send
    <3>2. t \notin S /\ S' = S \cup {t}
      BY <2>1, <1>4 DEF Send, S, TasksAt
    <3>3. UNCHANGED <<queued, inFlight, R, P, D>>
      BY <2>1 DEF Send, work, drain, counters, R, P, D, WorkersAt, DrainersAt
    <3>4. Cardinality(S') = Cardinality(S) + 1
      BY <3>2, <1>1, CountUp
    <3> QED
      BY <3>1, <3>2, <3>3, <3>4, <1>1, <1>2, <1>4
  <2>2. CASE Refuse(t)
    <3>1. S' = S
      BY <2>2, <1>4 DEF Refuse, S, TasksAt
    <3>2. UNCHANGED <<tasks, queued, inFlight, R, P, D>>
      BY <2>2 DEF Refuse, work, drain, counters, R, P, D, WorkersAt, DrainersAt
    <3> QED
      BY <3>1, <3>2, <1>2
  <2>3. CASE CountQueued(t)
    <3>1. t \in S /\ S' = S \ {t}
      BY <2>3, <1>4 DEF CountQueued, S, TasksAt
    <3>2. UNCHANGED <<tasks, inFlight, R, P, D>> /\ queued' = queued + 1
      BY <2>3 DEF CountQueued, work, drain, R, P, D, WorkersAt, DrainersAt
    <3>3. Cardinality(S') = Cardinality(S) - 1
      BY <3>1, <1>1, CountDown
    <3> QED
      BY <3>1, <3>2, <3>3, <1>1, <1>2, <1>4
  <2>4. CASE Age(t)
    BY <2>4, <1>2, <1>5 DEF Age, work, drain, counters
  <2> QED
    BY <1>6, <2>1, <2>2, <2>3, <2>4 DEF Enqueue
<1>7. ASSUME NEW w \in Workers, WorkerStep(w)
      PROVE  /\ queued' = Len(tasks') + Cardinality(R') + Cardinality(D') - Cardinality(S')
             /\ inFlight' = Cardinality(P')
  <2> DEFINE Rest == UNCHANGED <<D, S>>
  <2>0. ASSUME UNCHANGED <<dpc, enq>> PROVE Rest
    BY <2>0 DEF D, S, DrainersAt, TasksAt
  <2> HIDE DEF Rest
  <2>1. CASE Receive(w)
    <3>1. Len(tasks') = Len(tasks) - 1
      BY <2>1, <1>4 DEF Receive
    <3>2. w \notin R /\ R' = R \cup {w} /\ P' = P
      BY <2>1, <1>4 DEF Receive, R, P, WorkersAt, InProcess
    <3>3. UNCHANGED <<queued, inFlight>> /\ Rest
      BY <2>1, <2>0 DEF Receive, drain, counters
    <3>4. Cardinality(R') = Cardinality(R) + 1
      BY <3>2, <1>1, CountUp
    <3> QED
      BY <3>1, <3>2, <3>3, <3>4, <1>1, <1>2, <1>4 DEF Rest
  <2>2. CASE UncountQueued(w)
    <3>1. w \in R /\ R' = R \ {w} /\ P' = P
      BY <2>2, <1>4 DEF UncountQueued, R, P, WorkersAt, InProcess
    <3>2. UNCHANGED <<tasks, inFlight>> /\ queued' = queued - 1 /\ Rest
      BY <2>2, <2>0 DEF UncountQueued, drain
    <3>3. Cardinality(R') = Cardinality(R) - 1
      BY <3>1, <1>1, CountDown
    <3> QED
      BY <3>1, <3>2, <3>3, <1>1, <1>2, <1>4 DEF Rest
  <2>3. CASE CountInFlight(w)
    <3>1. w \notin P /\ P' = P \cup {w} /\ R' = R
      BY <2>3, <1>4 DEF CountInFlight, R, P, WorkersAt, InProcess
    <3>2. UNCHANGED <<tasks, queued>> /\ inFlight' = inFlight + 1 /\ Rest
      BY <2>3, <2>0 DEF CountInFlight, drain
    <3>3. Cardinality(P') = Cardinality(P) + 1
      BY <3>1, <1>1, CountUp
    <3> QED
      BY <3>1, <3>2, <3>3, <1>1, <1>2, <1>4 DEF Rest
  <2>4. CASE UncountInFlight(w)
    <3>1. w \in P /\ P' = P \ {w} /\ R' = R
      BY <2>4, <1>4 DEF UncountInFlight, R, P, WorkersAt, InProcess
    <3>2. UNCHANGED <<tasks, queued>> /\ inFlight' = inFlight - 1 /\ Rest
      BY <2>4, <2>0 DEF UncountInFlight, drain
    <3>3. Cardinality(P') = Cardinality(P) - 1
      BY <3>1, <1>1, CountDown
    <3> QED
      BY <3>1, <3>2, <3>3, <1>1, <1>2, <1>4 DEF Rest
  \* The other steps of a worker move it within process, or out of the loop.
  <2>5. ASSUME Exit(w) \/ Skip(w) \/ StartSend(w) \/ Report(w)
                 \/ \E o \in Outcomes : FinishSend(w, o)
        PROVE  UNCHANGED <<tasks, queued, inFlight, R, P>> /\ Rest
    <3>1. UNCHANGED <<tasks, queued, inFlight, dpc, enq>>
      BY <2>5 DEF Exit, Skip, StartSend, Report, FinishSend, drain, counters
    <3>2. \/ wpc[w] = "select" /\ wpc' = [wpc EXCEPT ![w] = "exited"]
          \/ wpc[w] \in InProcess /\ \E pc \in InProcess : wpc' = [wpc EXCEPT ![w] = pc]
      BY <2>5 DEF Exit, Skip, StartSend, Report, FinishSend, InProcess
    <3>3. R' = R /\ P' = P
      BY <3>2, <1>4 DEF R, P, WorkersAt, InProcess
    <3> QED
      BY <3>1, <3>3, <2>0
  <2> QED
    BY <1>7, <1>2, <2>1, <2>2, <2>3, <2>4, <2>5 DEF WorkerStep, Rest
<1>8. ASSUME NEW d \in Drainers, Drain(d)
      PROVE  /\ queued' = Len(tasks') + Cardinality(R') + Cardinality(D') - Cardinality(S')
             /\ inFlight' = Cardinality(P')
  <2> DEFINE Rest == UNCHANGED <<R, P, S, inFlight>>
  <2>0. ASSUME UNCHANGED <<wpc, enq, inFlight>> PROVE Rest
    BY <2>0 DEF R, P, S, WorkersAt, TasksAt
  <2> HIDE DEF Rest
  <2>1. CASE DrainRemove(d)
    <3>1. Len(tasks') = Len(tasks) - 1
      BY <2>1, <1>4 DEF DrainRemove
    <3>2. d \notin D /\ D' = D \cup {d}
      BY <2>1, <1>4 DEF DrainRemove, D, DrainersAt
    <3>3. queued' = queued /\ Rest
      BY <2>1, <2>0 DEF DrainRemove, work, counters
    <3>4. Cardinality(D') = Cardinality(D) + 1
      BY <3>2, <1>1, CountUp
    <3> QED
      BY <3>1, <3>2, <3>3, <3>4, <1>1, <1>2, <1>4 DEF Rest
  <2>2. CASE DrainUncount(d)
    <3>1. d \in D /\ D' = D \ {d}
      BY <2>2, <1>4 DEF DrainUncount, D, DrainersAt
    <3>2. tasks' = tasks /\ queued' = queued - 1 /\ Rest
      BY <2>2, <2>0 DEF DrainUncount, work
    <3>3. Cardinality(D') = Cardinality(D) - 1
      BY <3>1, <1>1, CountDown
    <3> QED
      BY <3>1, <3>2, <3>3, <1>1, <1>2, <1>4 DEF Rest
  <2>3. ASSUME DrainBegin(d) \/ DrainReturn(d)
        PROVE  UNCHANGED <<tasks, queued, D>> /\ Rest
    <3>1. D' = D
      BY <2>3, <1>4 DEF DrainBegin, DrainReturn, D, DrainersAt
    <3> QED
      BY <2>3, <3>1, <2>0 DEF DrainBegin, DrainReturn, work, counters
  <2> QED
    BY <1>8, <1>2, <2>1, <2>2, <2>3 DEF Drain, Rest
<1>9. CASE Cancel \/ UNCHANGED qvars
  BY <1>9, <1>2, <1>5 DEF Cancel, qvars, work, drain, counters
<1> QED
  BY <1>6, <1>7, <1>8, <1>9 DEF Next

\* The queued counter equals the channel's length up to the goroutines between
\* a channel operation and its counter update; the in-flight counter is exact.
THEOREM CountersAreExact == Spec => []CountersExact
<1>1. Init => CountersExact
  <2> SUFFICES ASSUME Init PROVE CountersExact
    OBVIOUS
  <2>1. /\ WorkersAt({"received"}) = {} /\ WorkersAt(InProcess) = {}
        /\ DrainersAt({"removed"}) = {} /\ TasksAt({"sent"}) = {}
    BY DEF Init, WorkersAt, DrainersAt, TasksAt, InProcess
  <2>2. Len(tasks) = 0 /\ queued = 0 /\ inFlight = 0
    BY DEF Init
  <2>3. /\ Cardinality(WorkersAt({"received"})) = 0 /\ Cardinality(WorkersAt(InProcess)) = 0
        /\ Cardinality(DrainersAt({"removed"})) = 0 /\ Cardinality(TasksAt({"sent"})) = 0
    BY <2>1, FS_EmptySet
  <2>4. queued = Len(tasks) + Cardinality(WorkersAt({"received"}))
                 + Cardinality(DrainersAt({"removed"})) - Cardinality(TasksAt({"sent"}))
    BY <2>2, <2>3
  <2> QED
    BY <2>2, <2>3, <2>4 DEF CountersExact, InProcess
<1> QED
  BY <1>1, TypeCorrect, CountersStep, PTL DEF Spec

-----------------------------------------------------------------------------
(* Ownership.                                                               *)

Distinct(s) == \A i, j \in 1 .. Len(s) : s[i] = s[j] => i = j

\* Taking the head of a sequence without repetitions removes it for good.
LEMMA TailElems ==
  ASSUME NEW T, NEW s \in Seq(T), s # <<>>, Distinct(s)
  PROVE  /\ Head(s) \in Elems(s) /\ Head(s) \in T
         /\ Tail(s) \in Seq(T) /\ Distinct(Tail(s))
         /\ Elems(Tail(s)) = Elems(s) \ {Head(s)}
<1>1. /\ Len(s) \in Nat /\ Len(s) > 0 /\ Head(s) = s[1]
      /\ Tail(s) \in Seq(T) /\ Len(Tail(s)) = Len(s) - 1
      /\ \A i \in 1 .. Len(s) - 1 : Tail(s)[i] = s[i + 1]
      /\ \A i \in 1 .. Len(s) : s[i] \in T
  OBVIOUS
<1>2. Head(s) \in Elems(s)
  BY <1>1 DEF Elems
<1>3. Distinct(Tail(s))
  <2> SUFFICES ASSUME NEW i \in 1 .. Len(Tail(s)), NEW j \in 1 .. Len(Tail(s)),
                      Tail(s)[i] = Tail(s)[j]
               PROVE  i = j
    BY DEF Distinct
  <2>1. i + 1 \in 1 .. Len(s) /\ j + 1 \in 1 .. Len(s) /\ s[i + 1] = s[j + 1]
    BY <1>1
  <2> QED
    BY <2>1 DEF Distinct
<1>4. ASSUME NEW x \in Elems(Tail(s)) PROVE x \in Elems(s) \ {Head(s)}
  <2>1. PICK i \in 1 .. Len(Tail(s)) : x = Tail(s)[i]
    BY <1>4 DEF Elems
  <2>2. i + 1 \in 1 .. Len(s) /\ i + 1 # 1 /\ 1 \in 1 .. Len(s) /\ x = s[i + 1]
    BY <1>1, <2>1
  <2>3. x # s[1]
    BY <2>2 DEF Distinct
  <2> QED
    BY <1>1, <2>2, <2>3 DEF Elems
<1>5. ASSUME NEW x \in Elems(s), x # Head(s) PROVE x \in Elems(Tail(s))
  <2>1. PICK i \in 1 .. Len(s) : x = s[i]
    BY <1>5 DEF Elems
  <2>2. i # 1
    BY <1>1, <1>5, <2>1
  <2>3. i - 1 \in 1 .. Len(Tail(s)) /\ Tail(s)[i - 1] = x
    BY <1>1, <2>1, <2>2
  <2> QED
    BY <2>3 DEF Elems
<1> QED
  BY <1>1, <1>2, <1>3, <1>4, <1>5

LEMMA AppendElems ==
  ASSUME NEW T, NEW s \in Seq(T), NEW x \in T, x \notin Elems(s), Distinct(s)
  PROVE  Distinct(Append(s, x)) /\ Elems(Append(s, x)) = Elems(s) \cup {x}
<1>1. /\ Len(s) \in Nat /\ Len(Append(s, x)) = Len(s) + 1
      /\ \A i \in 1 .. Len(s) : Append(s, x)[i] = s[i]
      /\ Append(s, x)[Len(s) + 1] = x
  OBVIOUS
<1>2. \A i \in 1 .. Len(s) : s[i] # x
  BY DEF Elems
<1>3. Distinct(Append(s, x))
  BY <1>1, <1>2 DEF Distinct
<1>4. ASSUME NEW y \in Elems(Append(s, x)) PROVE y \in Elems(s) \cup {x}
  <2>1. PICK i \in 1 .. Len(s) + 1 : y = Append(s, x)[i]
    BY <1>1, <1>4 DEF Elems
  <2>2. CASE i = Len(s) + 1
    BY <1>1, <2>1, <2>2
  <2>3. CASE i \in 1 .. Len(s)
    BY <1>1, <2>1, <2>3 DEF Elems
  <2> QED
    BY <1>1, <2>2, <2>3
<1>5. ASSUME NEW y \in Elems(s) \cup {x} PROVE y \in Elems(Append(s, x))
  <2>1. CASE y = x
    <3>1. Len(s) + 1 \in 1 .. Len(Append(s, x))
      BY <1>1
    <3> QED
      BY <1>1, <2>1, <3>1 DEF Elems
  <2>2. CASE y \in Elems(s)
    <3>1. PICK i \in 1 .. Len(s) : y = s[i]
      BY <2>2 DEF Elems
    <3>2. i \in 1 .. Len(Append(s, x)) /\ Append(s, x)[i] = y
      BY <1>1, <3>1
    <3> QED
      BY <3>2 DEF Elems
  <2> QED
    BY <1>5, <2>1, <2>2
<1> QED
  BY <1>3, <1>4, <1>5

Final == Outcomes \cup {"skipped"}
Held(t) == \E w \in Workers : wpc[w] \in Holding /\ wtask[w] = t

\* Ownership, conjunct by conjunct, with the channel as a set.
Submitted(t) == enq[t] \in {"sent", "accepted"}
ChannelInv   == Distinct(tasks) /\ \A t \in Tasks :
                   t \in Elems(tasks) <=> Submitted(t) /\ fate[t] = "none"
HoldInv      == \A w \in Workers : wpc[w] \in Holding =>
                   /\ wtask[w] \in Tasks /\ reports[wtask[w]] = 0
                   /\ wpc[w] = "report" => fate[wtask[w]] \in Final
                   /\ wpc[w] # "report" => fate[wtask[w]] = "taken"
AloneInv     == \A v, w \in Workers :
                   wpc[v] \in Holding /\ wpc[w] \in Holding /\ wtask[v] = wtask[w] => v = w
SubmitInv    == \A t \in Tasks : fate[t] # "none" => Submitted(t)
ReportInv    == \A t \in Tasks :
                   /\ fate[t] \in {"none", "drained"} => reports[t] = 0 /\ ~Held(t)
                   /\ fate[t] = "taken" => Held(t)
                   /\ fate[t] \in Final => reports[t] = IF Held(t) THEN 0 ELSE 1
OwnershipInv == ChannelInv /\ HoldInv /\ AloneInv /\ SubmitInv /\ ReportInv

LEMMA OwnershipParts == OwnershipInv <=> Ownership
<1>1. \A t \in Tasks : (\E w \in WorkersAt(Holding) : wtask[w] = t) <=> Held(t)
  BY DEF WorkersAt, Held
<1>2. InChannelOnce <=> ChannelInv
  BY DEF InChannelOnce, ChannelInv, Submitted, Distinct
<1>3. HeldOnce <=> HoldInv /\ AloneInv /\ SubmitInv
  BY DEF HeldOnce, HoldInv, AloneInv, SubmitInv, Submitted, WorkersAt, Final
<1>4. ReportedOnce <=> ReportInv
  BY <1>1 DEF ReportedOnce, ReportInv, Final
<1> QED
  BY <1>2, <1>3, <1>4 DEF Ownership, OwnershipInv

\* Steps that leave the ownership of every task alone: a worker that holds a
\* task and has not finished it keeps it; the others only come and go.
LEMMA OwnershipFrame ==
  ASSUME TypeOK, OwnershipInv, UNCHANGED <<tasks, fate, reports, wtask>>,
         \A t \in Tasks : Submitted(t)' <=> Submitted(t),
         \A w \in Workers : /\ wpc'[w] \in Holding <=> wpc[w] \in Holding
                            /\ wpc'[w] = "report" <=> wpc[w] = "report"
  PROVE  OwnershipInv'
<1>1. \A t \in Tasks : Held(t)' <=> Held(t)
  BY DEF Held
<1>2. ChannelInv' /\ SubmitInv'
  BY DEF OwnershipInv, ChannelInv, SubmitInv, Elems, Distinct
<1>3. HoldInv' /\ AloneInv'
  BY DEF OwnershipInv, HoldInv, AloneInv
<1>4. ReportInv'
  BY <1>1 DEF OwnershipInv, ReportInv
<1> QED
  BY <1>2, <1>3, <1>4 DEF OwnershipInv

LEMMA OwnershipSend ==
  ASSUME TypeOK, OwnershipInv, NEW t \in Tasks, Send(t)
  PROVE  OwnershipInv'
<1>1. /\ enq[t] = "new" /\ ~Submitted(t) /\ tasks' = Append(tasks, t)
      /\ UNCHANGED <<wpc, wtask, fate, reports>>
      /\ Submitted(t)' /\ \A u \in Tasks : u # t => (Submitted(u)' <=> Submitted(u))
  BY DEF Send, work, history, Submitted, TypeOK
<1>2. fate[t] = "none" /\ t \notin Elems(tasks)
  BY <1>1 DEF OwnershipInv, SubmitInv, ChannelInv
<1>3. Distinct(Append(tasks, t)) /\ Elems(Append(tasks, t)) = Elems(tasks) \cup {t}
  BY <1>2, AppendElems DEF OwnershipInv, ChannelInv, TypeOK
<1>4. Distinct(tasks)' /\ Elems(tasks)' = Elems(tasks) \cup {t}
  BY <1>1, <1>3 DEF Distinct, Elems
<1>5. ChannelInv'
  BY <1>1, <1>2, <1>4 DEF OwnershipInv, ChannelInv
<1>6. \A u \in Tasks : Held(u)' <=> Held(u)
  BY <1>1 DEF Held
<1>7. HoldInv' /\ AloneInv' /\ ReportInv'
  BY <1>1, <1>6 DEF OwnershipInv, HoldInv, AloneInv, ReportInv
<1>8. SubmitInv'
  BY <1>1 DEF OwnershipInv, SubmitInv
<1> QED
  BY <1>5, <1>7, <1>8 DEF OwnershipInv

\* The task at the head of the channel leaves it, to a worker or to a drain.
LEMMA OwnershipTake ==
  ASSUME TypeOK, OwnershipInv, tasks # <<>>, tasks' = Tail(tasks),
         UNCHANGED <<enq, reports>>,
         NEW how \in {"taken", "drained"}, fate' = [fate EXCEPT ![Head(tasks)] = how]
  PROVE  /\ ChannelInv' /\ SubmitInv'
         /\ Head(tasks) \in Tasks /\ fate[Head(tasks)] = "none"
         /\ reports[Head(tasks)] = 0 /\ ~Held(Head(tasks))
<1>1. /\ Head(tasks) \in Elems(tasks) /\ Head(tasks) \in Tasks
      /\ Distinct(Tail(tasks)) /\ Elems(Tail(tasks)) = Elems(tasks) \ {Head(tasks)}
  BY TailElems DEF OwnershipInv, ChannelInv, TypeOK
<1>2. /\ Submitted(Head(tasks)) /\ fate[Head(tasks)] = "none"
      /\ reports[Head(tasks)] = 0 /\ ~Held(Head(tasks))
  BY <1>1 DEF OwnershipInv, ChannelInv, ReportInv
<1>3. \A u \in Tasks : Submitted(u)' <=> Submitted(u)
  BY DEF Submitted
<1>4. /\ fate'[Head(tasks)] = how
      /\ \A u \in Tasks : u # Head(tasks) => fate'[u] = fate[u]
  BY <1>1 DEF TypeOK
<1>5. Distinct(tasks)' /\ Elems(tasks)' = Elems(tasks) \ {Head(tasks)}
  BY <1>1 DEF Distinct, Elems
<1>6. ChannelInv'
  BY <1>1, <1>3, <1>4, <1>5 DEF OwnershipInv, ChannelInv
<1>7. SubmitInv'
  BY <1>2, <1>3, <1>4 DEF OwnershipInv, SubmitInv
<1> QED
  BY <1>1, <1>2, <1>6, <1>7

LEMMA OwnershipReceive ==
  ASSUME TypeOK, OwnershipInv, NEW w \in Workers, Receive(w)
  PROVE  OwnershipInv'
<1>0. PICK t \in Tasks : t = Head(tasks)
  BY TailElems DEF Receive, OwnershipInv, ChannelInv, TypeOK
<1>1. /\ wpc[w] = "select" /\ tasks # <<>> /\ tasks' = Tail(tasks)
      /\ fate' = [fate EXCEPT ![t] = "taken"] /\ UNCHANGED <<enq, reports>>
      /\ wtask' = [wtask EXCEPT ![w] = t] /\ wpc' = [wpc EXCEPT ![w] = "received"]
  BY <1>0 DEF Receive
<1>2. /\ ChannelInv' /\ SubmitInv' /\ t \in Tasks
      /\ fate[t] = "none" /\ reports[t] = 0 /\ ~Held(t)
  BY <1>0, <1>1, OwnershipTake
<1>3. /\ wpc'[w] = "received" /\ wtask'[w] = t /\ wpc[w] \notin Holding
      /\ \A v \in Workers : v # w => wpc'[v] = wpc[v] /\ wtask'[v] = wtask[v]
      /\ fate'[t] = "taken" /\ \A u \in Tasks : u # t => fate'[u] = fate[u]
  BY <1>1, <1>2 DEF TypeOK, Holding
<1>4. \A v \in Workers : wpc[v] \in Holding => v # w /\ wtask[v] # t
  BY <1>2, <1>3 DEF Held
<1>5. Held(t)' /\ \A u \in Tasks : u # t => (Held(u)' <=> Held(u))
  BY <1>3 DEF Held, Holding
<1>6. HoldInv'
  BY <1>1, <1>2, <1>3, <1>4 DEF OwnershipInv, HoldInv
<1>7. AloneInv'
  BY <1>3, <1>4 DEF OwnershipInv, AloneInv
<1>8. ReportInv'
  BY <1>1, <1>2, <1>3, <1>5 DEF OwnershipInv, ReportInv, Final, Outcomes
<1> QED
  BY <1>2, <1>6, <1>7, <1>8 DEF OwnershipInv

LEMMA OwnershipDrain ==
  ASSUME TypeOK, OwnershipInv, NEW d \in Drainers, DrainRemove(d)
  PROVE  OwnershipInv'
<1>0. PICK t \in Tasks : t = Head(tasks)
  BY TailElems DEF DrainRemove, OwnershipInv, ChannelInv, TypeOK
<1>1. /\ tasks # <<>> /\ tasks' = Tail(tasks) /\ fate' = [fate EXCEPT ![t] = "drained"]
      /\ UNCHANGED <<enq, reports, wpc, wtask>>
  BY <1>0 DEF DrainRemove, work
<1>2. /\ ChannelInv' /\ SubmitInv' /\ t \in Tasks
      /\ fate[t] = "none" /\ reports[t] = 0 /\ ~Held(t)
  BY <1>0, <1>1, OwnershipTake
<1>3. fate'[t] = "drained" /\ \A u \in Tasks : u # t => fate'[u] = fate[u]
  BY <1>1, <1>2 DEF TypeOK
<1>4. \A u \in Tasks : Held(u)' <=> Held(u)
  BY <1>1 DEF Held
<1>5. HoldInv' /\ AloneInv'
  BY <1>1, <1>2, <1>3 DEF OwnershipInv, HoldInv, AloneInv, Held
<1>6. ReportInv'
  BY <1>1, <1>2, <1>3, <1>4 DEF OwnershipInv, ReportInv, Final, Outcomes
<1> QED
  BY <1>2, <1>5, <1>6 DEF OwnershipInv

\* A worker finishes the task it holds, by skipping it or by sending it.
LEMMA OwnershipFinish ==
  ASSUME TypeOK, OwnershipInv, NEW w \in Workers, wpc[w] \in {"process", "sending"},
         NEW o \in Final, fate' = [fate EXCEPT ![wtask[w]] = o],
         wpc' = [wpc EXCEPT ![w] = "report"], UNCHANGED <<tasks, enq, wtask, reports>>
  PROVE  OwnershipInv'
<1> DEFINE t == wtask[w]
<1>1. /\ t \in Tasks /\ fate[t] = "taken" /\ reports[t] = 0
      /\ wpc[w] \in Holding /\ Held(t) /\ Submitted(t)
  BY DEF OwnershipInv, HoldInv, SubmitInv, Holding, Held
<1>2. /\ wpc'[w] = "report" /\ \A v \in Workers : v # w => wpc'[v] = wpc[v]
      /\ fate'[t] = o /\ \A u \in Tasks : u # t => fate'[u] = fate[u]
  BY <1>1 DEF TypeOK
<1>3. \A v \in Workers : v # w /\ wpc[v] \in Holding => wtask[v] # t
  BY <1>1 DEF OwnershipInv, AloneInv
<1> HIDE DEF t
<1>4. \A v \in Workers : wpc'[v] \in Holding <=> wpc[v] \in Holding
  BY <1>1, <1>2 DEF Holding
<1>5. \A u \in Tasks : (Held(u)' <=> Held(u)) /\ (Submitted(u)' <=> Submitted(u))
  BY <1>4 DEF Held, Submitted
<1>6. o \notin {"none", "taken", "drained"}
  BY DEF Final, Outcomes
<1>7. ChannelInv'
  <2>1. Distinct(tasks)' /\ Elems(tasks)' = Elems(tasks)
    BY DEF Distinct, Elems, OwnershipInv, ChannelInv
  <2> QED
    BY <1>1, <1>2, <1>5, <1>6, <2>1 DEF OwnershipInv, ChannelInv
<1>8. HoldInv'
  <2> SUFFICES ASSUME NEW v \in Workers, wpc'[v] \in Holding
               PROVE  /\ wtask[v] \in Tasks /\ reports[wtask[v]] = 0
                      /\ wpc'[v] = "report" => fate'[wtask[v]] \in Final
                      /\ wpc'[v] # "report" => fate'[wtask[v]] = "taken"
    BY DEF HoldInv
  <2>1. CASE v = w
    BY <1>1, <1>2, <2>1 DEF t
  <2>2. CASE v # w
    BY <1>2, <1>3, <1>4, <2>2 DEF OwnershipInv, HoldInv
  <2> QED
    BY <2>1, <2>2
<1>9. AloneInv'
  BY <1>4 DEF OwnershipInv, AloneInv
<1>10. SubmitInv' /\ ReportInv'
  BY <1>1, <1>2, <1>5, <1>6 DEF OwnershipInv, SubmitInv, ReportInv
<1> QED
  BY <1>7, <1>8, <1>9, <1>10 DEF OwnershipInv

LEMMA OwnershipReport ==
  ASSUME TypeOK, OwnershipInv, NEW w \in Workers, Report(w)
  PROVE  OwnershipInv'
<1>0. PICK t \in Tasks : t = wtask[w]
  BY DEF Report, OwnershipInv, HoldInv, Holding
<1>1. /\ wpc[w] = "report" /\ wpc' = [wpc EXCEPT ![w] = "release"]
      /\ reports' = [reports EXCEPT ![t] = @ + 1] /\ wtask' = [wtask EXCEPT ![w] = NoTask]
      /\ UNCHANGED <<tasks, enq, fate>>
  BY <1>0 DEF Report
<1>2. /\ t \in Tasks /\ fate[t] \in Final /\ reports[t] = 0 /\ wpc[w] \in Holding
  BY <1>0, <1>1 DEF OwnershipInv, HoldInv, Holding
<1>3. \A v \in Workers : v # w /\ wpc[v] \in Holding => wtask[v] # t
  BY <1>0, <1>2 DEF OwnershipInv, AloneInv
<1>4. /\ wpc'[w] = "release" /\ wpc'[w] \notin Holding
      /\ \A v \in Workers : v # w => wpc'[v] = wpc[v] /\ wtask'[v] = wtask[v]
      /\ reports'[t] = 1 /\ \A u \in Tasks : u # t => reports'[u] = reports[u]
  BY <1>1, <1>2 DEF TypeOK, Holding
<1>5. /\ ~Held(t)'
      /\ \A u \in Tasks : u # t => (Held(u)' <=> Held(u))
  <2>1. ~Held(t)'
    BY <1>3, <1>4 DEF Held
  <2>2. \A u \in Tasks : u # t => (Held(u)' <=> Held(u))
    BY <1>0, <1>4 DEF Held
  <2> QED
    BY <2>1, <2>2
<1>6. ChannelInv' /\ SubmitInv'
  BY <1>1 DEF OwnershipInv, ChannelInv, SubmitInv, Submitted, Distinct, Elems
<1>7. HoldInv'
  BY <1>1, <1>3, <1>4 DEF OwnershipInv, HoldInv
<1>8. AloneInv'
  BY <1>4 DEF OwnershipInv, AloneInv
<1>9. ReportInv'
  BY <1>1, <1>2, <1>4, <1>5 DEF OwnershipInv, ReportInv, Final, Outcomes
<1> QED
  BY <1>6, <1>7, <1>8, <1>9 DEF OwnershipInv

LEMMA OwnershipStep == TypeOK /\ OwnershipInv /\ [Next]_qvars => OwnershipInv'
<1> SUFFICES ASSUME TypeOK, OwnershipInv, [Next]_qvars PROVE OwnershipInv'
  OBVIOUS
<1>1. ASSUME UNCHANGED <<tasks, enq, wpc, wtask, fate, reports>> PROVE OwnershipInv'
  BY <1>1, OwnershipFrame DEF Submitted
<1>2. ASSUME NEW t \in Tasks, Enqueue(t) \/ Age(t) PROVE OwnershipInv'
  <2>1. CASE Send(t)
    BY <2>1, OwnershipSend
  <2>2. CASE Refuse(t) \/ CountQueued(t)
    <3>1. UNCHANGED <<tasks, fate, reports, wtask, wpc>>
      BY <2>2 DEF Refuse, CountQueued, work, history
    <3>2. \A u \in Tasks : Submitted(u)' <=> Submitted(u)
      BY <2>2 DEF Refuse, CountQueued, Submitted, TypeOK
    <3> QED
      BY <3>1, <3>2, OwnershipFrame
  <2>3. CASE Age(t)
    BY <2>3, <1>1 DEF Age, work, history
  <2> QED
    BY <1>2, <2>1, <2>2, <2>3 DEF Enqueue
<1>3. ASSUME NEW w \in Workers, WorkerStep(w) PROVE OwnershipInv'
  <2>1. CASE Receive(w)
    BY <2>1, OwnershipReceive
  <2>2. CASE Exit(w) \/ UncountQueued(w) \/ CountInFlight(w) \/ StartSend(w) \/ UncountInFlight(w)
    <3>1. UNCHANGED <<tasks, enq, fate, reports, wtask>>
      BY <2>2 DEF Exit, UncountQueued, CountInFlight, StartSend, UncountInFlight, history
    <3>2. \A v \in Workers : /\ wpc'[v] \in Holding <=> wpc[v] \in Holding
                             /\ wpc'[v] = "report" <=> wpc[v] = "report"
      BY <2>2 DEF Exit, UncountQueued, CountInFlight, StartSend, UncountInFlight, Holding, TypeOK
    <3> QED
      BY <3>1, <3>2, OwnershipFrame DEF Submitted
  <2>3. CASE Skip(w)
    <3>1. "skipped" \in Final
      BY DEF Final
    <3> QED
      BY <2>3, <3>1, OwnershipFinish DEF Skip
  <2>4. ASSUME NEW o \in Outcomes, FinishSend(w, o) PROVE OwnershipInv'
    <3>1. o \in Final
      BY DEF Final
    <3> QED
      BY <2>4, <3>1, OwnershipFinish DEF FinishSend
  <2>5. CASE Report(w)
    BY <2>5, OwnershipReport
  <2> QED
    BY <1>3, <2>1, <2>2, <2>3, <2>4, <2>5 DEF WorkerStep
<1>4. ASSUME NEW d \in Drainers, Drain(d) PROVE OwnershipInv'
  <2>1. CASE DrainRemove(d)
    BY <2>1, OwnershipDrain
  <2>2. CASE DrainBegin(d) \/ DrainUncount(d) \/ DrainReturn(d)
    BY <2>2, <1>1 DEF DrainBegin, DrainUncount, DrainReturn, work, history
  <2> QED
    BY <1>4, <2>1, <2>2 DEF Drain
<1>5. CASE Cancel \/ UNCHANGED qvars
  BY <1>5, <1>1 DEF Cancel, qvars, work, history
<1> QED
  BY <1>2, <1>3, <1>4, <1>5 DEF Next

LEMMA OwnedInit == Init => OwnershipInv
<1> SUFFICES ASSUME Init PROVE OwnershipInv
  OBVIOUS
<1>1. Distinct(tasks) /\ Elems(tasks) = {}
  BY DEF Init, Distinct, Elems
<1>2. \A w \in Workers : wpc[w] \notin Holding
  BY DEF Init, Holding
<1>3. \A t \in Tasks : fate[t] = "none" /\ reports[t] = 0 /\ ~Submitted(t) /\ ~Held(t)
  BY <1>2 DEF Init, Submitted, Held
<1> QED
  BY <1>1, <1>2, <1>3
     DEF OwnershipInv, ChannelInv, HoldInv, AloneInv, SubmitInv, ReportInv, Final, Outcomes

\* Every submitted task is in the channel once, or held by one worker, or
\* reported once, or drained: none is lost, shared or reported twice.
THEOREM TasksAreOwned == Spec => []Ownership
BY OwnedInit, TypeCorrect, OwnershipStep, OwnershipParts, PTL DEF Spec

-----------------------------------------------------------------------------
(* What a Drain call found pending has been submitted, and when the call has *)
(* returned it has left the channel; neither is ever undone.                *)

GoalInv == \A d \in Drainers : \A t \in dgoal[d] :
              Submitted(t) /\ (dpc[d] = "returned" => fate[t] # "none")

LEMMA NeverUndone ==
  ASSUME TypeOK, OwnershipInv, [Next]_qvars, NEW t \in Tasks
  PROVE  /\ Submitted(t) => Submitted(t)'
         /\ fate[t] # "none" => fate'[t] # "none"
<1>1. CASE UNCHANGED <<enq, fate>>
  BY <1>1 DEF Submitted
<1>2. ASSUME NEW u \in Tasks, Enqueue(u)
      PROVE  (Submitted(t) => Submitted(t)') /\ fate' = fate
  BY <1>2 DEF Enqueue, Send, Refuse, CountQueued, Submitted, TypeOK, history
<1>3. ASSUME NEW u, NEW o \in Fates \ {"none"}, fate' = [fate EXCEPT ![u] = o], enq' = enq
      PROVE  /\ Submitted(t) => Submitted(t)'
             /\ fate[t] # "none" => fate'[t] # "none"
  BY <1>3 DEF Submitted, TypeOK
<1>4. ASSUME NEW w \in Workers, WorkerStep(w)
      PROVE  /\ Submitted(t) => Submitted(t)'
             /\ fate[t] # "none" => fate'[t] # "none"
  <2>1. CASE Receive(w)
    BY <2>1, <1>3 DEF Receive, Fates
  <2>2. CASE Skip(w)
    BY <2>2, <1>3 DEF Skip, Fates
  <2>3. ASSUME NEW o \in Outcomes, FinishSend(w, o)
        PROVE  /\ Submitted(t) => Submitted(t)'
               /\ fate[t] # "none" => fate'[t] # "none"
    BY <2>3, <1>3 DEF FinishSend, Fates, Outcomes
  <2>4. CASE Exit(w) \/ UncountQueued(w) \/ CountInFlight(w) \/ StartSend(w)
             \/ Report(w) \/ UncountInFlight(w)
    BY <2>4, <1>1 DEF Exit, UncountQueued, CountInFlight, StartSend, Report, UncountInFlight,
                      history
  <2> QED
    BY <1>4, <2>1, <2>2, <2>3, <2>4 DEF WorkerStep
<1>5. ASSUME NEW d \in Drainers, Drain(d)
      PROVE  /\ Submitted(t) => Submitted(t)'
             /\ fate[t] # "none" => fate'[t] # "none"
  <2>1. CASE DrainRemove(d)
    BY <2>1, <1>3 DEF DrainRemove, Fates
  <2>2. CASE DrainBegin(d) \/ DrainUncount(d) \/ DrainReturn(d)
    BY <2>2, <1>1 DEF DrainBegin, DrainUncount, DrainReturn, history
  <2> QED
    BY <1>5, <2>1, <2>2 DEF Drain
<1>6. CASE Cancel \/ (\E u \in Tasks : Age(u)) \/ UNCHANGED qvars
  BY <1>6, <1>1 DEF Cancel, Age, qvars, history
<1> QED
  BY <1>1, <1>2, <1>3, <1>4, <1>5, <1>6 DEF Next

LEMMA GoalStep == TypeOK /\ OwnershipInv /\ GoalInv /\ [Next]_qvars => GoalInv'
<1> SUFFICES ASSUME TypeOK, OwnershipInv, GoalInv, [Next]_qvars PROVE GoalInv'
  OBVIOUS
<1>1. \A d \in Drainers : dgoal[d] \subseteq Tasks
  BY DEF TypeOK
<1>2. ASSUME UNCHANGED <<dpc, dgoal>> PROVE GoalInv'
  BY <1>1, <1>2, NeverUndone DEF GoalInv
<1>3. ASSUME NEW d \in Drainers, Drain(d) PROVE GoalInv'
  <2>1. CASE DrainBegin(d)
    <3>1. /\ dgoal'[d] = Elems(tasks) /\ dpc'[d] = "draining"
          /\ \A e \in Drainers : e # d => dgoal'[e] = dgoal[e] /\ dpc'[e] = dpc[e]
      BY <2>1 DEF DrainBegin, TypeOK
    <3>2. \A t \in Elems(tasks) : t \in Tasks /\ Submitted(t)
      BY DEF OwnershipInv, ChannelInv, TypeOK, Elems
    <3> QED
      BY <1>1, <3>1, <3>2, NeverUndone DEF GoalInv
  <2>2. CASE DrainReturn(d)
    <3>1. /\ UNCHANGED <<dgoal, fate, enq>> /\ tasks = <<>>
          /\ \A e \in Drainers : e # d => dpc'[e] = dpc[e]
      BY <2>2 DEF DrainReturn, TypeOK, history
    <3>2. \A t \in Tasks : Submitted(t) => fate[t] # "none"
      BY <3>1 DEF OwnershipInv, ChannelInv, Elems
    <3> QED
      BY <1>1, <3>1, <3>2 DEF GoalInv, Submitted
  <2>3. CASE DrainRemove(d) \/ DrainUncount(d)
    <3>1. /\ dgoal' = dgoal
          /\ \A e \in Drainers : dpc'[e] = "returned" => dpc[e] = "returned"
      BY <2>3 DEF DrainRemove, DrainUncount, TypeOK
    <3> QED
      BY <1>1, <3>1, NeverUndone DEF GoalInv
  <2> QED
    BY <1>3, <2>1, <2>2, <2>3 DEF Drain
<1>4. ASSUME NEW w \in Workers, WorkerStep(w) PROVE UNCHANGED <<dpc, dgoal>>
  BY <1>4 DEF WorkerStep, Receive, Exit, UncountQueued, CountInFlight, Skip, StartSend,
              FinishSend, Report, UncountInFlight, drain
<1>5. ASSUME NEW t \in Tasks, Enqueue(t) \/ Age(t) PROVE UNCHANGED <<dpc, dgoal>>
  BY <1>5 DEF Enqueue, Send, Refuse, CountQueued, Age, drain
<1>6. CASE Cancel \/ UNCHANGED qvars
  BY <1>2, <1>6 DEF Cancel, qvars, drain
<1> QED
  BY <1>2, <1>3, <1>4, <1>5, <1>6 DEF Next

\* When a Drain call has returned, no task that was pending when it was called
\* is in the channel, whatever the workers, the callers and other calls did.
THEOREM DrainsRemovePending == Spec => []DrainRemovesPending
<1>1. Init => OwnershipInv /\ GoalInv
  <2> SUFFICES ASSUME Init PROVE OwnershipInv /\ GoalInv
    OBVIOUS
  <2>1. OwnershipInv
    BY OwnedInit
  <2>2. GoalInv
    BY DEF Init, GoalInv
  <2> QED
    BY <2>1, <2>2
<1>2. TypeOK /\ OwnershipInv /\ GoalInv => DrainRemovesPending
  BY DEF TypeOK, OwnershipInv, ChannelInv, GoalInv, DrainRemovesPending
<1> QED
  BY <1>1, <1>2, TypeCorrect, OwnershipStep, GoalStep, PTL DEF Spec

-----------------------------------------------------------------------------
(* The numbers the Drain calls return.                                      *)

DrainInv == DrainCountsExact /\ IsFiniteSet(DrainAnswers)

\* Only a Drain call that removes a task discards one.
LEMMA DrainedStep ==
  ASSUME TypeOK, OwnershipInv, [Next]_qvars, ~(\E d \in Drainers : DrainRemove(d))
  PROVE  UNCHANGED <<dn, Drained>>
<1>1. ASSUME UNCHANGED <<dn, fate>> PROVE UNCHANGED <<dn, Drained>>
  BY <1>1 DEF Drained
<1>2. ASSUME NEW t \in Tasks, fate[t] # "drained", NEW f \in Fates \ {"drained"},
             fate' = [fate EXCEPT ![t] = f], dn' = dn
      PROVE  UNCHANGED <<dn, Drained>>
  BY <1>2 DEF TypeOK, Drained
<1>3. ASSUME NEW w \in Workers, WorkerStep(w) PROVE UNCHANGED <<dn, Drained>>
  <2>1. CASE Receive(w)
    <3>1. tasks # <<>> /\ fate' = [fate EXCEPT ![Head(tasks)] = "taken"] /\ dn' = dn
      BY <2>1 DEF Receive, drain
    <3>2. Head(tasks) \in Tasks /\ fate[Head(tasks)] = "none"
      BY <3>1, TailElems DEF TypeOK, OwnershipInv, ChannelInv
    <3> QED
      BY <3>1, <3>2, <1>2 DEF Fates
  <2>2. ASSUME NEW o \in Final, wpc[w] \in {"process", "sending"},
               fate' = [fate EXCEPT ![wtask[w]] = o], dn' = dn
        PROVE  UNCHANGED <<dn, Drained>>
    <3>1. wtask[w] \in Tasks /\ fate[wtask[w]] = "taken"
      BY <2>2 DEF OwnershipInv, HoldInv, Holding
    <3>2. o \in Fates \ {"drained"}
      BY DEF Final, Fates, Outcomes
    <3> QED
      BY <3>1, <3>2, <2>2, <1>2
  <2>3. CASE Skip(w)
    BY <2>3, <2>2 DEF Skip, drain, Final
  <2>4. ASSUME NEW o \in Outcomes, FinishSend(w, o) PROVE UNCHANGED <<dn, Drained>>
    BY <2>4, <2>2 DEF FinishSend, drain, Final
  <2>5. CASE \/ Exit(w) \/ UncountQueued(w) \/ CountInFlight(w) \/ StartSend(w)
             \/ Report(w) \/ UncountInFlight(w)
    BY <2>5, <1>1 DEF Exit, UncountQueued, CountInFlight, StartSend, Report, UncountInFlight,
                      history, drain
  <2> QED
    BY <1>3, <2>1, <2>3, <2>4, <2>5 DEF WorkerStep
<1>4. ASSUME NEW t \in Tasks, Enqueue(t) \/ Age(t) PROVE UNCHANGED <<dn, Drained>>
  BY <1>1, <1>4 DEF Enqueue, Send, Refuse, CountQueued, Age, history, drain
<1>5. ASSUME NEW d \in Drainers, DrainBegin(d) \/ DrainUncount(d) \/ DrainReturn(d)
      PROVE  UNCHANGED <<dn, Drained>>
  BY <1>1, <1>5 DEF DrainBegin, DrainUncount, DrainReturn, history
<1>6. ASSUME Cancel \/ UNCHANGED qvars PROVE UNCHANGED <<dn, Drained>>
  BY <1>1, <1>6 DEF Cancel, qvars, history, drain
<1> QED
  BY <1>3, <1>4, <1>5, <1>6 DEF Next, Drain

LEMMA DrainInvStep == TypeOK /\ OwnershipInv /\ DrainInv /\ [Next]_qvars => DrainInv'
<1> SUFFICES ASSUME TypeOK, OwnershipInv, DrainInv, [Next]_qvars PROVE DrainInv'
  OBVIOUS
<1>1. CASE ~(\E d \in Drainers : DrainRemove(d))
  <2>1. UNCHANGED <<dn, Drained>>
    BY <1>1, DrainedStep
  <2> QED
    BY <2>1 DEF DrainInv, DrainCountsExact, DrainAnswers
<1>2. ASSUME NEW d \in Drainers, DrainRemove(d) PROVE DrainInv'
  <2> DEFINE t == Head(tasks)
             answer == <<d, dn[d] + 1>>
  <2>1. t \in Tasks /\ fate[t] = "none"
    BY <1>2, TailElems DEF DrainRemove, TypeOK, OwnershipInv, ChannelInv
  <2>2. t \notin Drained /\ Drained' = Drained \cup {t}
    BY <1>2, <2>1 DEF DrainRemove, TypeOK, Drained
  <2>3. dn[d] \in Nat /\ dn'[d] = dn[d] + 1 /\ \A e \in Drainers : e # d => dn'[e] = dn[e]
    BY <1>2 DEF DrainRemove, TypeOK
  <2>4. answer \notin DrainAnswers
    <3> SUFFICES ASSUME answer \in DrainAnswers PROVE FALSE
      OBVIOUS
    <3>1. PICK e \in Drainers : answer \in {e} \X (1 .. dn[e])
      BY DEF DrainAnswers
    <3>2. e = d /\ dn[d] + 1 \in 1 .. dn[d]
      BY <3>1
    <3> QED
      BY <2>3, <3>2
  <2>5. (1 .. dn[d] + 1) = (1 .. dn[d]) \cup {dn[d] + 1}
    BY <2>3
  <2>6. ASSUME NEW x PROVE x \in DrainAnswers' <=> x \in DrainAnswers \cup {answer}
    <3>1. x \in DrainAnswers <=> \E e \in Drainers : x \in {e} \X (1 .. dn[e])
      BY DEF DrainAnswers
    <3>2. x \in DrainAnswers' <=> \E e \in Drainers : x \in {e} \X (1 .. dn'[e])
      BY DEF DrainAnswers
    <3>3. x \in {d} \X (1 .. dn'[d]) <=> x \in {d} \X (1 .. dn[d]) \/ x = answer
      BY <2>3, <2>5
    <3>4. \A e \in Drainers : e # d =>
             (x \in {e} \X (1 .. dn'[e]) <=> x \in {e} \X (1 .. dn[e]))
      BY <2>3
    <3> HIDE DEF answer
    <3> QED
      BY <3>1, <3>2, <3>3, <3>4
  <2>7. DrainAnswers' = DrainAnswers \cup {answer}
    BY <2>6
  <2>8. IsFiniteSet(Drained) /\ IsFiniteSet(DrainAnswers)
    BY QueueAssumption, FS_Subset DEF Drained, DrainInv
  <2> HIDE DEF t, answer
  <2>9. /\ Cardinality(DrainAnswers') = Cardinality(DrainAnswers) + 1
        /\ Cardinality(Drained') = Cardinality(Drained) + 1 /\ IsFiniteSet(DrainAnswers')
    BY <2>2, <2>4, <2>7, <2>8, FS_AddElement
  <2> QED
    BY <2>9 DEF DrainInv, DrainCountsExact
<1> QED
  BY <1>1, <1>2

LEMMA DrainInvInit == Init => DrainInv
<1> SUFFICES ASSUME Init PROVE DrainInv
  OBVIOUS
<1>1. Drained = {}
  BY DEF Init, Drained
<1>2. DrainAnswers = {}
  BY DEF Init, DrainAnswers
<1> QED
  BY <1>1, <1>2, FS_EmptySet DEF DrainInv, DrainCountsExact

\* The numbers that the Drain calls answer with add up to the number of tasks
\* that were discarded, at every moment of any number of overlapping calls.
THEOREM DrainCountsCorrect == Spec => []DrainCountsExact
BY DrainInvInit, DrainInvStep, TypeCorrect, TasksAreOwned, OwnershipParts, PTL
   DEF Spec, DrainInv

-----------------------------------------------------------------------------
(* The queue implements its contract.                                       *)

Statuses == [t \in Tasks |-> StatusOf(t)]

\* Where a task stands, by where the ownership invariant says it is.
StatusInv ==
    \A t \in Tasks :
        /\ enq[t] \in {"new", "refused"} \/ Submitted(t)
        /\ fate[t] \in {"none", "drained", "taken"} \cup Final
        /\ fate[t] # "none" => Submitted(t)
        /\ Held(t) => fate[t] \in Final \cup {"taken"}
        /\ ~Submitted(t) => StatusOf(t) = enq[t]
        /\ Submitted(t) /\ fate[t] = "none" => StatusOf(t) = "pending"
        /\ fate[t] = "drained" => StatusOf(t) = "dropped"
        /\ fate[t] \in Final \cup {"taken"} =>
              StatusOf(t) = IF Held(t) THEN "held" ELSE "resolved"

LEMMA StatusCases == TypeOK /\ OwnershipInv => StatusInv
<1> SUFFICES ASSUME TypeOK, OwnershipInv, NEW t \in Tasks
             PROVE  /\ enq[t] \in {"new", "refused"} \/ Submitted(t)
                    /\ fate[t] \in {"none", "drained", "taken"} \cup Final
                    /\ fate[t] # "none" => Submitted(t)
                    /\ Held(t) => fate[t] \in Final \cup {"taken"}
                    /\ ~Submitted(t) => StatusOf(t) = enq[t]
                    /\ Submitted(t) /\ fate[t] = "none" => StatusOf(t) = "pending"
                    /\ fate[t] = "drained" => StatusOf(t) = "dropped"
                    /\ fate[t] \in Final \cup {"taken"} =>
                          StatusOf(t) = IF Held(t) THEN "held" ELSE "resolved"
  BY DEF StatusInv
<1>1. /\ fate[t] \in {"none", "drained", "taken"} \cup Final /\ enq[t] \in EnqPc
      /\ Submitted(t) <=> enq[t] \notin {"new", "refused"}
  BY DEF TypeOK, Fates, Final, EnqPc, Submitted
<1>2. /\ fate[t] # "none" => Submitted(t)
      /\ fate[t] \in {"none", "drained"} => ~Held(t)
      /\ fate[t] = "taken" => Held(t)
      /\ fate[t] \in Final => (reports[t] = 0 <=> Held(t))
  BY DEF OwnershipInv, SubmitInv, ReportInv
<1>3. Held(t) => reports[t] = 0
  BY DEF OwnershipInv, HoldInv, Held
<1>4. {"none", "drained", "taken"} \cap Final = {}
  BY DEF Final, Outcomes
<1>5. Held(t) => fate[t] \in Final \cup {"taken"}
  BY <1>1, <1>2
<1>6. ~Submitted(t) => StatusOf(t) = enq[t]
  BY <1>1, <1>2 DEF StatusOf
<1>7. ASSUME Submitted(t), fate[t] = "none" PROVE StatusOf(t) = "pending"
  BY <1>1, <1>7 DEF StatusOf
<1>8. ASSUME fate[t] = "drained" PROVE StatusOf(t) = "dropped"
  BY <1>1, <1>2, <1>8 DEF StatusOf
<1>9. ASSUME fate[t] \in Final \cup {"taken"}
      PROVE  StatusOf(t) = IF Held(t) THEN "held" ELSE "resolved"
  <2>1. fate[t] \notin {"none", "drained"} /\ enq[t] \notin {"new", "refused"}
    BY <1>1, <1>2, <1>4, <1>9
  <2>2. reports[t] = 0 <=> Held(t)
    BY <1>2, <1>3, <1>9
  <2> QED
    BY <2>1, <2>2 DEF StatusOf
<1> QED
  BY <1>1, <1>2, <1>5, <1>6, <1>7, <1>8, <1>9

\* In the callback a worker holds a task whose fate is known, alone.
LEMMA InCallbackHeld ==
  ASSUME OwnershipInv, NEW w \in Workers, wpc[w] = "report"
  PROVE  /\ wtask[w] \in Tasks /\ fate[wtask[w]] \in Final
         /\ \A v \in Workers : v # w /\ wpc[v] \in Holding => wtask[v] # wtask[w]
BY DEF OwnershipInv, HoldInv, AloneInv, Holding

LEMMA ContractInit == Init => Contract!Init
<1> SUFFICES ASSUME Init PROVE Contract!Init
  OBVIOUS
<1>1. tasks = <<>> /\ \A t \in Tasks : enq[t] = "new" /\ fate[t] = "none"
  BY DEF Init
<1>2. \A t \in Tasks : StatusOf(t) = "new"
  BY <1>1 DEF StatusOf
<1> QED
  BY <1>1, <1>2 DEF Contract!Init

\* A worker about to receive is free, so fewer tasks are held than there are
\* workers.
LEMMA FreeServer ==
  ASSUME TypeOK, OwnershipInv, NEW w \in Workers, wpc[w] \notin Holding
  PROVE  Cardinality({t \in Tasks : Held(t)}) < Cardinality(Workers)
<1> DEFINE H == {t \in Tasks : Held(t)}
           Others == Workers \ {w}
           f == [t \in H |-> CHOOSE v \in Others : wpc[v] \in Holding /\ wtask[v] = t]
<1>1. \A t \in H : \E v \in Others : wpc[v] \in Holding /\ wtask[v] = t
  BY DEF Held
<1>2. \A t \in H : f[t] \in Others /\ wtask[f[t]] = t
  BY <1>1
<1>3. f \in [H -> Others]
  BY <1>2
<1>4. /\ IsFiniteSet(Others) /\ Cardinality(Others) = Cardinality(Workers) - 1
      /\ Cardinality(Workers) \in Nat
  BY QueueAssumption, FS_RemoveElement, FS_CardinalityType
<1>5. IsFiniteSet(H) /\ Cardinality(H) \in Nat
  BY QueueAssumption, FS_Subset, FS_CardinalityType
<1>6. ~(Cardinality(Others) < Cardinality(H))
  <2> SUFFICES ASSUME Cardinality(Others) < Cardinality(H) PROVE FALSE
    OBVIOUS
  <2>1. \E x, y \in H : x # y /\ f[x] = f[y]
    <3> HIDE DEF H, Others, f
    <3> QED
      BY <1>3, <1>4, <1>5, FS_PigeonHole
  <2> QED
    BY <1>2, <2>1
<1> HIDE DEF H, Others
<1>7. Cardinality(Others) \in Nat
  BY <1>4, FS_CardinalityType
<1>8. Cardinality(H) < Cardinality(Workers)
  BY <1>4, <1>5, <1>6, <1>7
<1> QED
  BY <1>8 DEF H

\* A step that leaves every task where it stands for the contract.
LEMMA StatusFrame ==
  ASSUME StatusInv, StatusInv',
         \A t \in Tasks :
            /\ enq'[t] = enq[t] \/ (Submitted(t) /\ Submitted(t)')
            /\ fate'[t] = fate[t] \/ {fate'[t], fate[t]} \subseteq Final \cup {"taken"}
            /\ Held(t)' <=> Held(t)
  PROVE  Statuses' = Statuses
<1>1. ASSUME NEW t \in Tasks PROVE StatusOf(t)' = StatusOf(t)
  <2>1. Submitted(t)' <=> Submitted(t)
    BY DEF StatusInv, Submitted
  <2>2. CASE ~Submitted(t)
    BY <2>1, <2>2 DEF StatusInv
  <2>3. CASE fate'[t] = fate[t] /\ Submitted(t)
    BY <2>1, <2>3 DEF StatusInv
  <2>4. CASE {fate'[t], fate[t]} \subseteq Final \cup {"taken"}
    BY <2>4 DEF StatusInv
  <2> QED
    BY <2>2, <2>3, <2>4
<1> QED
  BY <1>1 DEF Statuses

\* A step that moves one task.
LEMMA StatusMove ==
  ASSUME NEW t \in Tasks, NEW s, StatusOf(t)' = s,
         \A u \in Tasks : u # t => StatusOf(u)' = StatusOf(u)
  PROVE  Statuses' = [Statuses EXCEPT ![t] = s]
BY DEF Statuses

\* Each step of the queue is one step of the contract, or none.
LEMMA ContractStep ==
  ASSUME TypeOK, OwnershipInv, StatusInv, StatusInv', [Next]_qvars
  PROVE  [Contract!Next]_<<tasks, Statuses>>
<1> USE DEF Statuses
<1>1. /\ tasks \in Seq(Tasks) /\ Len(tasks) \in Nat /\ Len(tasks) <= BufSize /\ BufSize \in Nat
      /\ enq \in [Tasks -> EnqPc] /\ fate \in [Tasks -> Fates]
      /\ wpc \in [Workers -> WorkerPc] /\ wtask \in [Workers -> Tasks \cup {NoTask}]
  BY QueueAssumption DEF TypeOK
<1>2. ASSUME UNCHANGED <<tasks, enq, fate, wtask>>,
             \A w \in Workers : wpc'[w] \in Holding <=> wpc[w] \in Holding
      PROVE  UNCHANGED <<tasks, Statuses>>
  <2>1. \A t \in Tasks : Held(t)' <=> Held(t)
    BY <1>2 DEF Held
  <2> QED
    BY <1>2, <2>1, StatusFrame
<1>3. ASSUME NEW t \in Tasks, Send(t) PROVE Contract!Accept(t)
  <2>1. /\ enq[t] = "new" /\ tasks' = Append(tasks, t) /\ Len(tasks) < BufSize
        /\ UNCHANGED <<wpc, wtask, fate>> /\ enq'[t] = "sent"
        /\ \A u \in Tasks : u # t => enq'[u] = enq[u]
    BY <1>1, <1>3 DEF Send, work, history
  <2>2. StatusOf(t) = "new" /\ StatusOf(t)' = "pending"
    BY <2>1 DEF StatusInv, Submitted
  <2>3. \A u \in Tasks : u # t => StatusOf(u)' = StatusOf(u)
    BY <2>1 DEF StatusInv, Submitted, Held
  <2> QED
    BY <2>1, <2>2, <2>3, StatusMove DEF Contract!Accept
<1>4. ASSUME NEW t \in Tasks, Refuse(t) PROVE Contract!Reject(t)
  <2>1. /\ enq[t] = "new" /\ Len(tasks) = BufSize
        /\ UNCHANGED <<tasks, wpc, wtask, fate>> /\ enq'[t] = "refused"
        /\ \A u \in Tasks : u # t => enq'[u] = enq[u]
    BY <1>1, <1>4 DEF Refuse, work, history
  <2>2. StatusOf(t) = "new" /\ StatusOf(t)' = "refused"
    BY <2>1 DEF StatusInv, Submitted
  <2>3. \A u \in Tasks : u # t => StatusOf(u)' = StatusOf(u)
    BY <2>1 DEF StatusInv, Submitted, Held
  <2> QED
    BY <2>1, <2>2, <2>3, StatusMove DEF Contract!Reject
<1>5. ASSUME NEW t \in Tasks, CountQueued(t) PROVE UNCHANGED <<tasks, Statuses>>
  <2>1. /\ Submitted(t) /\ Submitted(t)' /\ UNCHANGED <<tasks, wpc, wtask, fate>>
        /\ \A u \in Tasks : u # t => enq'[u] = enq[u]
    BY <1>1, <1>5 DEF CountQueued, Submitted, work, history
  <2> QED
    BY <2>1, StatusFrame DEF Held
<1>6. ASSUME NEW w \in Workers, Receive(w) PROVE Contract!TakeOrDrop
  <2>0. PICK t \in Tasks : t = Head(tasks)
    BY <1>1, <1>6 DEF Receive
  <2>1. /\ tasks # <<>> /\ tasks' = Tail(tasks) /\ enq' = enq
        /\ fate'[t] = "taken" /\ \A u \in Tasks : u # t => fate'[u] = fate[u]
        /\ wpc[w] = "select" /\ wpc'[w] = "received" /\ wtask'[w] = t
        /\ \A v \in Workers : v # w => wpc'[v] = wpc[v] /\ wtask'[v] = wtask[v]
    BY <1>1, <1>6, <2>0 DEF Receive
  <2>2. StatusOf(t)' = "held"
    BY <2>1 DEF StatusInv, Held, Holding
  <2>3. \A u \in Tasks : u # t => StatusOf(u)' = StatusOf(u)
    BY <2>1 DEF StatusInv, Submitted, Held, Holding
  <2>4. Contract!AtStatus("held") = {u \in Tasks : Held(u)}
    <3>1. \A u \in Tasks : StatusOf(u) = "held" <=> Held(u)
      BY DEF StatusInv
    <3> QED
      BY <3>1 DEF Contract!AtStatus
  <2>5. Cardinality(Contract!AtStatus("held")) < Cardinality(Workers)
    BY <2>1, <2>4, FreeServer DEF Holding
  <2>6. Statuses' = [Statuses EXCEPT ![Head(tasks)] = "held"]
    BY <2>0, <2>2, <2>3, StatusMove
  <2>7. Contract!Cardinality(Contract!AtStatus("held")) = Cardinality(Contract!AtStatus("held"))
    BY DEF Contract!Cardinality, Cardinality
  <2> QED
    BY <2>1, <2>5, <2>6, <2>7 DEF Contract!TakeOrDrop
<1>7. ASSUME NEW d \in Drainers, DrainRemove(d) PROVE Contract!TakeOrDrop
  <2>0. PICK t \in Tasks : t = Head(tasks)
    BY <1>1, <1>7 DEF DrainRemove
  <2>1. /\ tasks # <<>> /\ tasks' = Tail(tasks) /\ UNCHANGED <<enq, wpc, wtask>>
        /\ fate'[t] = "drained" /\ \A u \in Tasks : u # t => fate'[u] = fate[u]
    BY <1>1, <1>7, <2>0 DEF DrainRemove, work
  <2>2. StatusOf(t)' = "dropped"
    BY <2>1 DEF StatusInv
  <2>3. \A u \in Tasks : u # t => StatusOf(u)' = StatusOf(u)
    BY <2>1 DEF StatusInv, Submitted, Held
  <2> QED
    BY <2>0, <2>1, <2>2, <2>3, StatusMove DEF Contract!TakeOrDrop
<1>8. ASSUME NEW w \in Workers, Report(w) PROVE \E t \in Tasks : Contract!Resolve(t)
  <2>0. PICK t \in Tasks : t = wtask[w] /\ fate[t] \in Final
    BY <1>8, InCallbackHeld DEF Report
  <2>1. /\ UNCHANGED <<tasks, enq, fate>> /\ wpc[w] = "report" /\ wpc'[w] = "release"
        /\ \A v \in Workers : v # w => wpc'[v] = wpc[v] /\ wtask'[v] = wtask[v]
    BY <1>1, <1>8 DEF Report
  <2>2. \A v \in Workers : v # w /\ wpc[v] \in Holding => wtask[v] # t
    BY <2>0, <2>1, InCallbackHeld
  <2>3. Held(t) /\ ~Held(t)'
    BY <2>0, <2>1, <2>2 DEF Held, Holding
  <2>4. \A u \in Tasks : u # t => (Held(u)' <=> Held(u))
    BY <2>0, <2>1 DEF Held, Holding
  <2>5. StatusOf(t) = "held" /\ StatusOf(t)' = "resolved"
    BY <2>0, <2>1, <2>3 DEF StatusInv
  <2>6. \A u \in Tasks : u # t => StatusOf(u)' = StatusOf(u)
    BY <2>1, <2>4 DEF StatusInv, Submitted
  <2> QED
    BY <2>1, <2>5, <2>6, StatusMove DEF Contract!Resolve
<1>9. ASSUME NEW w \in Workers, NEW o \in Final, wpc[w] \in {"process", "sending"},
             fate' = [fate EXCEPT ![wtask[w]] = o], wpc' = [wpc EXCEPT ![w] = "report"],
             UNCHANGED <<tasks, enq, wtask>>
      PROVE  UNCHANGED <<tasks, Statuses>>
  <2>1. wtask[w] \in Tasks /\ fate[wtask[w]] = "taken"
    BY <1>9 DEF OwnershipInv, HoldInv, Holding
  <2>2. \A t \in Tasks : fate'[t] = fate[t] \/ {fate'[t], fate[t]} \subseteq Final \cup {"taken"}
    BY <1>1, <1>9, <2>1
  <2>3. \A t \in Tasks : Held(t)' <=> Held(t)
    BY <1>1, <1>9 DEF Held, Holding
  <2> QED
    BY <1>9, <2>2, <2>3, StatusFrame
<1>10. ASSUME NEW w \in Workers,
              \/ Exit(w) \/ UncountQueued(w) \/ CountInFlight(w) \/ StartSend(w)
              \/ UncountInFlight(w)
       PROVE  UNCHANGED <<tasks, Statuses>>
  <2>1. UNCHANGED <<tasks, enq, fate, wtask>>
    BY <1>10 DEF Exit, UncountQueued, CountInFlight, StartSend, UncountInFlight, history
  <2>2. \A v \in Workers : wpc'[v] \in Holding <=> wpc[v] \in Holding
    BY <1>1, <1>10 DEF Exit, UncountQueued, CountInFlight, StartSend, UncountInFlight, Holding
  <2> QED
    BY <1>2, <2>1, <2>2
<1>11. ASSUME NEW w \in Workers, Skip(w) \/ \E o \in Outcomes : FinishSend(w, o)
       PROVE  UNCHANGED <<tasks, Statuses>>
  BY <1>9, <1>11 DEF Skip, FinishSend, Final
<1>12. ASSUME NEW d \in Drainers, DrainBegin(d) \/ DrainUncount(d) \/ DrainReturn(d)
       PROVE  UNCHANGED <<tasks, Statuses>>
  BY <1>2, <1>12 DEF DrainBegin, DrainUncount, DrainReturn, work, history
<1>13. ASSUME Cancel \/ (\E t \in Tasks : Age(t)) \/ UNCHANGED qvars
       PROVE  UNCHANGED <<tasks, Statuses>>
  BY <1>2, <1>13 DEF Cancel, Age, qvars, work, history
<1> QED
  BY <1>3, <1>4, <1>5, <1>6, <1>7, <1>8, <1>10, <1>11, <1>12, <1>13
     DEF Next, Enqueue, WorkerStep, Drain, Contract!Next

\* The queue, with its counters, goroutines and context, implements the
\* contract of a bounded first-in first-out lane: it refuses a task only when
\* the lane is full, has at most one task out of it per worker, and resolves,
\* drops or refuses each task once.
THEOREM QueueImplementsContract == Spec => ImplementsContract
<1>1. Spec => [](TypeOK /\ OwnershipInv /\ StatusInv)
  BY TypeCorrect, TasksAreOwned, OwnershipParts, StatusCases, PTL
<1>2. [Contract!Next]_<<tasks, Statuses>> <=> [Contract!Next]_<<tasks, [t \in Tasks |-> StatusOf(t)]>>
  BY DEF Statuses
<1> QED
  BY <1>1, <1>2, ContractInit, ContractStep, PTL DEF Spec, ImplementsContract, Contract!Spec

-----------------------------------------------------------------------------
(* Tasks that grew too old.                                                 *)

\* A stale task that no worker is sending, nor has sent.
Discarded(t) ==
    /\ t \in old /\ fate[t] \notin Outcomes
    /\ \A w \in Workers : wpc[w] = "sending" => wtask[w] # t

LEMMA DiscardedStep ==
  ASSUME NEW t \in Tasks, HasMaxAge, TypeOK, OwnershipInv, Discarded(t), [Next]_qvars
  PROVE  Discarded(t)'
<1> USE DEF Discarded
<1>1. CASE UNCHANGED <<old, fate, wpc, wtask>>
  BY <1>1
<1>2. ASSUME NEW u \in Tasks, Age(u) PROVE Discarded(t)'
  BY <1>2 DEF Age, work, history
<1>3. ASSUME NEW w \in Workers, Receive(w) \/ Skip(w) PROVE Discarded(t)'
  <2>1. /\ old' = old /\ wpc'[w] # "sending"
        /\ \A v \in Workers : v # w => wpc'[v] = wpc[v] /\ wtask'[v] = wtask[v]
    BY <1>3 DEF Receive, Skip, env, TypeOK
  <2>2. fate'[t] \notin Outcomes
    BY <1>3 DEF Receive, Skip, TypeOK, Outcomes
  <2> QED
    BY <2>1, <2>2
<1>4. ASSUME NEW w \in Workers, StartSend(w) PROVE Discarded(t)'
  BY <1>4 DEF StartSend, IsStale, TypeOK, env, history
<1>5. ASSUME NEW w \in Workers, NEW o \in Outcomes, FinishSend(w, o) PROVE Discarded(t)'
  BY <1>5 DEF FinishSend, TypeOK, env
<1>6. ASSUME NEW w \in Workers,
             \/ Exit(w) \/ UncountQueued(w) \/ CountInFlight(w) \/ Report(w) \/ UncountInFlight(w)
      PROVE  Discarded(t)'
  <2>1. /\ UNCHANGED <<old, fate>> /\ wpc'[w] # "sending"
        /\ \A v \in Workers : v # w => wpc'[v] = wpc[v] /\ wtask'[v] = wtask[v]
    BY <1>6 DEF Exit, UncountQueued, CountInFlight, Report, UncountInFlight, env, history, TypeOK
  <2> QED
    BY <2>1
<1>7. ASSUME NEW d \in Drainers, DrainRemove(d) PROVE Discarded(t)'
  BY <1>7 DEF DrainRemove, TypeOK, env, work, Outcomes
<1>8. ASSUME NEW d \in Drainers, DrainBegin(d) \/ DrainUncount(d) \/ DrainReturn(d)
      PROVE  Discarded(t)'
  BY <1>1, <1>8 DEF DrainBegin, DrainUncount, DrainReturn, env, work, history
<1>9. ASSUME NEW u \in Tasks, Enqueue(u) PROVE Discarded(t)'
  BY <1>1, <1>9 DEF Enqueue, Send, Refuse, CountQueued, env, work, history
<1>10. CASE Cancel \/ UNCHANGED qvars
  BY <1>1, <1>10 DEF Cancel, qvars, env, work, history
<1> QED
  BY <1>2, <1>3, <1>4, <1>5, <1>6, <1>7, <1>8, <1>9, <1>10 DEF Next, WorkerStep, Drain

\* A task that outlived maxAge before a worker took it from the channel is never
\* sent, whenever it is taken (queue.go 33, 127-135).
THEOREM StaleAreDiscarded == Spec => StaleNeverSent
<1>1. ASSUME NEW t \in Tasks, HasMaxAge
      PROVE  Spec => []((t \in old /\ fate[t] = "none") => [](fate[t] \notin Outcomes))
  <2>1. TypeOK /\ OwnershipInv /\ t \in old /\ fate[t] = "none" => Discarded(t)
    BY DEF OwnershipInv, HoldInv, Holding, Discarded, Outcomes
  <2>2. TypeOK /\ OwnershipInv /\ Discarded(t) /\ [Next]_qvars => Discarded(t)'
    BY <1>1, DiscardedStep
  <2>3. Discarded(t) => fate[t] \notin Outcomes
    BY DEF Discarded
  <2> QED
    BY <2>1, <2>2, <2>3, TypeCorrect, TasksAreOwned, OwnershipParts, PTL DEF Spec
<1> QED
  BY <1>1 DEF StaleNeverSent

-----------------------------------------------------------------------------
(* Part 2: the path, for every behaviour of Forwarding's FwdSpec.  Every    *)
(* step of the path is a step of the queue, or leaves it alone.             *)

LEMMA PathStepIsQueueStep == [FwdNext]_vars => [Next]_qvars
<1> SUFFICES ASSUME [FwdNext]_vars PROVE [Next]_qvars
  OBVIOUS
<1>1. CASE QueueStep
  BY <1>1 DEF QueueStep, Next, WorkerStep
<1>2. ASSUME NEW t \in Tasks, ReadConfig(t) \/ ReadForwarder(t) PROVE UNCHANGED qvars
  BY <1>2 DEF ReadConfig, ReadForwarder
<1>3. ASSUME NEW t \in Tasks, Submit(t) PROVE Next
  BY <1>3 DEF Submit, Next
<1>4. ASSUME NEW w \in Workers, StartPost(w) \/ RecordResult(w) PROVE Next
  BY <1>4 DEF StartPost, RecordResult, Next, WorkerStep
<1>5. ASSUME NEW w \in Workers, NEW o \in Outcomes, FinishPost(w, o) PROVE Next
  BY <1>5 DEF FinishPost, Next, WorkerStep
<1>6. ASSUME NEW w \in Workers, CountResult(w) PROVE UNCHANGED qvars
  BY <1>6 DEF CountResult
<1>7. ASSUME NEW u \in Updaters, Swap(u) PROVE UNCHANGED qvars
  BY <1>7 DEF Swap
<1>8. ASSUME NEW u \in Updaters, NEW c \in Configs, NEW b \in Books, NEW persisted \in BOOLEAN,
             Replace(u, c, b, persisted)
      PROVE  UNCHANGED qvars
  BY <1>8 DEF Replace
<1>9. CASE UNCHANGED vars
  BY <1>9 DEF vars
<1> QED
  BY <1>1, <1>2, <1>3, <1>4, <1>5, <1>6, <1>7, <1>8, <1>9 DEF FwdNext

\* The composition implements the queue: ingestion, result callback and updates
\* of the configuration put nothing into it or take anything out of it but by
\* its own operations (main.go 463-471, 551-557, 689-694).
THEOREM PathKeepsQueue == FwdSpec => Spec
<1>1. FwdInit => Init
  BY DEF FwdInit
<1> QED
  BY <1>1, PathStepIsQueueStep, PTL DEF FwdSpec, Spec

\* What the proofs about the queue give at every state of the path.
LEMMA QueueFacts == FwdSpec => [](TypeOK /\ OwnershipInv)
BY PathKeepsQueue, TypeCorrect, TasksAreOwned, OwnershipParts, PTL

-----------------------------------------------------------------------------
(* What was received: at most one copy, and none before a send has ended.   *)

AtMostOne(S) == S = {} \/ \E x : S = {x}

ReceivedInv ==
    /\ DOMAIN received = Tasks
    /\ \A t \in Tasks : /\ AtMostOne(received[t])
                        /\ fate[t] \notin Outcomes => received[t] = {}

Finishing == \E w \in Workers, o \in Outcomes : FinishPost(w, o)

\* Only the end of a send changes which events were sent and what was received.
LEMMA OnlyFinishing ==
  ASSUME TypeOK, OwnershipInv, [FwdNext]_vars, ~Finishing
  PROVE  /\ received' = received
         /\ \A t \in Tasks, o \in Outcomes : fate'[t] = o <=> fate[t] = o
<1> DEFINE Same == \A t \in Tasks, o \in Outcomes : fate'[t] = o <=> fate[t] = o
<1>1. ASSUME UNCHANGED fate PROVE Same
  BY <1>1
<1>2. ASSUME NEW u \in Tasks, fate[u] \notin Outcomes,
             NEW f \in Fates \ Outcomes, fate' = [fate EXCEPT ![u] = f]
      PROVE  Same
  BY <1>2 DEF TypeOK
<1>3. ASSUME tasks # <<>> PROVE Head(tasks) \in Tasks /\ fate[Head(tasks)] = "none"
  BY <1>3, OwnershipParts DEF TypeOK, OwnershipInv, ChannelInv, Elems
<1>4. {"taken", "skipped", "drained"} \subseteq Fates \ Outcomes /\ "none" \notin Outcomes
      /\ "taken" \notin Outcomes
  BY DEF Fates, Outcomes
<1>5. ASSUME NEW w \in Workers, Receive(w) PROVE Same
  BY <1>2, <1>3, <1>4, <1>5 DEF Receive
<1>6. ASSUME NEW w \in Workers, Skip(w) PROVE Same
  <2>1. wtask[w] \in Tasks /\ fate[wtask[w]] = "taken"
    BY <1>6 DEF Skip, OwnershipInv, HoldInv, Holding
  <2> QED
    BY <1>2, <1>4, <1>6, <2>1 DEF Skip
<1>7. ASSUME NEW d \in Drainers, Drain(d) PROVE Same
  <2>1. CASE DrainRemove(d)
    BY <1>2, <1>3, <1>4, <2>1 DEF DrainRemove
  <2>2. CASE DrainBegin(d) \/ DrainUncount(d) \/ DrainReturn(d)
    BY <1>1, <2>2 DEF DrainBegin, DrainUncount, DrainReturn, history
  <2> QED
    BY <1>7, <2>1, <2>2 DEF Drain
<1>8. CASE QueueStep
  <2>1. received' = received
    BY <1>8 DEF QueueStep, sendVars
  <2>2. ASSUME NEW w \in Workers,
               Exit(w) \/ UncountQueued(w) \/ CountInFlight(w) \/ UncountInFlight(w)
        PROVE  Same
    BY <1>1, <2>2 DEF Exit, UncountQueued, CountInFlight, UncountInFlight, history
  <2>3. ASSUME Cancel \/ \E t \in Tasks : Age(t) PROVE Same
    BY <1>1, <2>3 DEF Cancel, Age, history
  <2> QED
    BY <1>5, <1>6, <1>7, <1>8, <2>1, <2>2, <2>3 DEF QueueStep
<1>9. ASSUME NEW t \in Tasks, ReadConfig(t) \/ ReadForwarder(t) \/ Submit(t)
      PROVE  UNCHANGED <<received, fate>>
  BY <1>9 DEF ReadConfig, ReadForwarder, Submit, Enqueue, Send, Refuse, CountQueued,
              qvars, history, sendVars
<1>10. ASSUME NEW w \in Workers, StartPost(w) \/ CountResult(w) \/ RecordResult(w)
       PROVE  UNCHANGED <<received, fate>>
  BY <1>10 DEF StartPost, StartSend, CountResult, RecordResult, Report, qvars, history
<1>11. ASSUME NEW u \in Updaters, Swap(u) PROVE UNCHANGED <<received, fate>>
  BY <1>11 DEF Swap, qvars, history, sendVars
<1>12. ASSUME NEW u \in Updaters, NEW c \in Configs, NEW b \in Books, NEW persisted \in BOOLEAN,
              Replace(u, c, b, persisted)
       PROVE  UNCHANGED <<received, fate>>
  BY <1>12 DEF Replace, qvars, history, sendVars
<1>13. ASSUME UNCHANGED vars PROVE UNCHANGED <<received, fate>>
  BY <1>13 DEF vars, qvars, history, sendVars
<1>14. QueueStep \/ UNCHANGED <<received, fate>>
  BY <1>9, <1>10, <1>11, <1>12, <1>13 DEF FwdNext, Finishing
<1> QED
  BY <1>1, <1>8, <1>14

\* The end of a send: its event is one nothing was received of before.
LEMMA FinishingOne ==
  ASSUME TypeOK, OwnershipInv, ReceivedInv,
         NEW w \in Workers, NEW o \in Outcomes, FinishPost(w, o)
  PROVE  \E t \in Tasks :
            /\ t = wtask[w] /\ wpc[w] = "sending" /\ received[t] = {} /\ fate'[t] = o
            /\ \A s \in Tasks : s # t => fate'[s] = fate[s]
            /\ LET url == target[w]
                   got == [received EXCEPT ![t] = {<<0, url>>}]
               IN  /\ url = NoUrl => o = "ok" /\ received' = received
                   /\ url # NoUrl => /\ received' \in {received, got}
                                     /\ o = "ok" => received' = got
<1> DEFINE t == wtask[w]
           url == target[w]
           got == [received EXCEPT ![t] = {<<0, url>>}]
<1>1. FinishSend(w, o)
  BY DEF FinishPost
<1>2. wpc[w] = "sending" /\ fate' = [fate EXCEPT ![t] = o]
  BY <1>1 DEF FinishSend
<1>3. t \in Tasks /\ fate[t] = "taken"
  BY <1>2 DEF OwnershipInv, HoldInv, Holding
<1>4. received[t] = {}
  BY <1>3 DEF ReceivedInv, Outcomes
<1>5. fate'[t] = o /\ \A s \in Tasks : s # t => fate'[s] = fate[s]
  BY <1>2, <1>3 DEF TypeOK
<1>6. [received EXCEPT ![t] = @ \cup {<<Cardinality(@), url>>}] = got
  BY <1>4, FS_EmptySet
<1>7. /\ url = NoUrl => o = "ok" /\ received' = received
      /\ url # NoUrl => received' \in {received, got} /\ (o = "ok" => received' = got)
  BY <1>6 DEF FinishPost, Enabled, Outcomes
<1> QED
  BY <1>2, <1>3, <1>4, <1>5, <1>7

LEMMA ReceivedStep ==
  TypeOK /\ OwnershipInv /\ ReceivedInv /\ [FwdNext]_vars => ReceivedInv'
<1> SUFFICES ASSUME TypeOK, OwnershipInv, ReceivedInv, [FwdNext]_vars PROVE ReceivedInv'
  OBVIOUS
<1>1. CASE ~Finishing
  BY <1>1, OnlyFinishing DEF ReceivedInv, AtMostOne
<1>2. ASSUME NEW w \in Workers, NEW o \in Outcomes, FinishPost(w, o) PROVE ReceivedInv'
  <2>1. PICK t \in Tasks :
            /\ fate'[t] = o /\ \A s \in Tasks : s # t => fate'[s] = fate[s]
            /\ received' \in {received, [received EXCEPT ![t] = {<<0, target[w]>>}]}
    BY <1>2, FinishingOne
  <2>2. DOMAIN received' = Tasks /\ \A s \in Tasks : s # t => received'[s] = received[s]
    BY <2>1 DEF ReceivedInv
  <2>3. AtMostOne(received'[t])
    BY <2>1 DEF ReceivedInv, AtMostOne
  <2> QED
    BY <2>1, <2>2, <2>3 DEF ReceivedInv, AtMostOne
<1> QED
  BY <1>1, <1>2 DEF Finishing

LEMMA ReceivedInit == FwdInit => ReceivedInv
BY DEF FwdInit, ReceivedInv, AtMostOne

\* No event is received twice, at one URL or at two: whatever the updates of
\* the configuration, the resets and the other workers do.
THEOREM NeverDeliveredTwice == FwdSpec => []AtMostOnceDelivery
<1>1. ReceivedInv => AtMostOnceDelivery
  <2> SUFFICES ASSUME ReceivedInv, NEW t \in Tasks PROVE Cardinality(received[t]) <= 1
    BY DEF AtMostOnceDelivery
  <2>1. CASE received[t] = {}
    BY <2>1, FS_EmptySet
  <2>2. ASSUME NEW x, received[t] = {x} PROVE Cardinality(received[t]) = 1
    BY <2>2, FS_Singleton
  <2> QED
    BY <2>1, <2>2 DEF ReceivedInv, AtMostOne
<1> QED
  BY <1>1, ReceivedInit, ReceivedStep, QueueFacts, PTL DEF FwdSpec

-----------------------------------------------------------------------------
(* An event counted as forwarded was received: its ingestion saw a forwarder *)
(* with a URL, and a URL that an update takes away while the event is on its *)
(* way is remembered in cleared.                                            *)

UrlInv ==
    /\ \A t \in Tasks : Submitted(t) => ipc[t] = "forward"
    /\ ~Enabled(liveUrl) => OnTheirWay \subseteq cleared
    /\ \A w \in Workers : wpc[w] = "sending" /\ ~Enabled(target[w]) => wtask[w] \in cleared

\* The functions that the steps of this argument change.
PathType ==
    /\ ipc \in [Tasks -> {"arrived", "enabled", "disabled", "forward", "local"}]
    /\ upc \in [Updaters -> {"idle", "replaced", "done"}]
    /\ ucfg \in [Updaters -> [enabled : BOOLEAN, url : AnyUrl]]
    /\ target \in [Workers -> AnyUrl] /\ liveUrl \in AnyUrl
    /\ cleared \subseteq Tasks

LEMMA PathTypeStep == PathType /\ [FwdNext]_vars => PathType'
<1> SUFFICES ASSUME PathType, [FwdNext]_vars PROVE PathType'
  OBVIOUS
<1> USE DEF PathType
<1>1. CASE QueueStep
  BY <1>1 DEF QueueStep, pathVars, sendVars, updateVars
<1>2. ASSUME NEW t \in Tasks, ReadConfig(t) \/ ReadForwarder(t) \/ Submit(t) PROVE PathType'
  BY <1>2 DEF ReadConfig, ReadForwarder, Submit, pathVars, sendVars, updateVars
<1>3. ASSUME NEW w \in Workers, StartPost(w) \/ CountResult(w) \/ RecordResult(w)
      PROVE  PathType'
  BY <1>3 DEF StartPost, CountResult, RecordResult, pathVars, updateVars
<1>4. ASSUME NEW w \in Workers, NEW o \in Outcomes, FinishPost(w, o) PROVE PathType'
  BY <1>4 DEF FinishPost, pathVars, updateVars, AnyUrl
<1>5. ASSUME NEW u \in Updaters, Swap(u) PROVE PathType'
  BY <1>5 DEF Swap, SwapFor, OnTheirWay, Nothing, AnyUrl, sendVars
<1>6. ASSUME NEW u \in Updaters, NEW c \in Configs, NEW b \in Books, NEW persisted \in BOOLEAN,
             Replace(u, c, b, persisted)
      PROVE  PathType'
  <2>1. c \in [enabled : BOOLEAN, url : AnyUrl] /\ Nothing \in [enabled : BOOLEAN, url : AnyUrl]
    BY ForwardingAssumption DEF Nothing, AnyUrl
  <2> QED
    BY <1>6, <2>1 DEF Replace, sendVars
<1>7. CASE UNCHANGED vars
  BY <1>7 DEF vars, pathVars, sendVars, updateVars
<1> QED
  BY <1>1, <1>2, <1>3, <1>4, <1>5, <1>6, <1>7 DEF FwdNext

LEMMA UrlStep ==
  ASSUME TypeOK, OwnershipInv, PathType, UrlInv, [FwdNext]_vars
  PROVE  UrlInv'
<1> USE DEF PathType
<1>0. ~Finishing => \A t \in Tasks : fate[t] \in Outcomes <=> fate'[t] \in Outcomes
  BY OnlyFinishing
<1>1. ASSUME UNCHANGED <<pathVars, ipc, sendVars, updateVars, enq>>, ~Finishing,
             \A w \in Workers : (wpc'[w] = "sending" <=> wpc[w] = "sending")
                                /\ (wpc'[w] = "sending" => wtask'[w] = wtask[w])
      PROVE  UrlInv'
  <2>1. OnTheirWay' \subseteq OnTheirWay
    BY <1>0, <1>1 DEF OnTheirWay, WorkersAt
  <2>2. UNCHANGED <<liveUrl, ipc, target, cleared, enq>>
    BY <1>1 DEF pathVars, sendVars, updateVars
  <2> QED
    BY <1>1, <2>1, <2>2 DEF UrlInv, Enabled, Submitted
<1>2. ASSUME QueueStep, ~Finishing PROVE UrlInv'
  <2>1. UNCHANGED <<pathVars, ipc, sendVars, updateVars>>
    BY <1>2 DEF QueueStep
  <2> DEFINE SameSends == \A v \in Workers : (wpc'[v] = "sending" <=> wpc[v] = "sending")
                                /\ (wpc'[v] = "sending" => wtask'[v] = wtask[v])
  <2>2. ASSUME NEW w \in Workers,
               \/ Receive(w) \/ Exit(w) \/ UncountQueued(w)
               \/ CountInFlight(w) \/ Skip(w) \/ UncountInFlight(w)
        PROVE  enq' = enq /\ SameSends
    BY <2>2 DEF Receive, Exit, UncountQueued, CountInFlight, Skip, UncountInFlight, TypeOK
  <2>3. ASSUME NEW d \in Drainers, Drain(d) PROVE UNCHANGED <<enq, wpc, wtask>>
    BY <2>3 DEF Drain, DrainBegin, DrainRemove, DrainUncount, DrainReturn, work
  <2>4. ASSUME Cancel \/ \E t \in Tasks : Age(t) PROVE UNCHANGED <<enq, wpc, wtask>>
    BY <2>4 DEF Cancel, Age, work
  <2>5. enq' = enq /\ SameSends
    BY <1>2, <2>2, <2>3, <2>4 DEF QueueStep
  <2> QED
    BY <1>1, <1>2, <2>1, <2>5
<1>3. ASSUME NEW t \in Tasks, ReadConfig(t) \/ ReadForwarder(t), ~Finishing PROVE UrlInv'
  <2>1. UNCHANGED <<fate, wpc, wtask, enq, liveUrl, cleared, target>>
    BY <1>3 DEF ReadConfig, ReadForwarder, qvars, history, work, pathVars, sendVars, updateVars
  <2>2. /\ \A s \in Tasks : s # t => ipc'[s] = ipc[s]
        /\ ipc[t] # "forward" /\ (ipc'[t] = "forward" => Enabled(liveUrl))
    BY <1>3 DEF ReadConfig, ReadForwarder
  <2>3. ~Enabled(liveUrl) => OnTheirWay' \subseteq OnTheirWay
    BY <2>1, <2>2 DEF OnTheirWay, WorkersAt
  <2> QED
    BY <2>1, <2>2, <2>3 DEF UrlInv, Submitted, Enabled
<1>4. ASSUME NEW t \in Tasks, Submit(t), ~Finishing PROVE UrlInv'
  <2>1. ipc[t] = "forward" /\ UNCHANGED <<fate, wpc, wtask, ipc, liveUrl, cleared, target>>
    BY <1>4 DEF Submit, Enqueue, Send, Refuse, CountQueued, work, history,
                pathVars, sendVars, updateVars
  <2>2. \A s \in Tasks : s # t => (Submitted(s)' <=> Submitted(s))
    BY <1>4 DEF Submit, Enqueue, Send, Refuse, CountQueued, Submitted, TypeOK
  <2>3. OnTheirWay' = OnTheirWay
    BY <2>1 DEF OnTheirWay, WorkersAt
  <2> QED
    BY <2>1, <2>2, <2>3 DEF UrlInv, Enabled
<1>5. ASSUME NEW w \in Workers, StartPost(w), ~Finishing PROVE UrlInv'
  <2>1. /\ wpc[w] = "process" /\ wpc' = [wpc EXCEPT ![w] = "sending"]
        /\ target' = [target EXCEPT ![w] = liveUrl]
        /\ UNCHANGED <<enq, wtask, fate, ipc, liveUrl, cleared>>
    BY <1>5 DEF StartPost, StartSend, history, pathVars, updateVars
  <2>2. wtask[w] \in Tasks /\ fate[wtask[w]] = "taken" /\ Submitted(wtask[w])
    BY <2>1 DEF OwnershipInv, HoldInv, SubmitInv, Holding
  <2>3. \A v \in Workers : wpc[v] = "sending" => wtask[v] # wtask[w]
    BY <2>1 DEF OwnershipInv, AloneInv, Holding
  <2>4. wtask[w] \in OnTheirWay
    BY <2>2, <2>3 DEF OnTheirWay, WorkersAt, UrlInv, Outcomes
  <2>5. /\ wpc'[w] = "sending" /\ target'[w] = liveUrl
        /\ \A v \in Workers : v # w => wpc'[v] = wpc[v] /\ target'[v] = target[v]
    BY <2>1 DEF TypeOK
  <2>6. OnTheirWay' \subseteq OnTheirWay
    BY <2>1, <2>5 DEF OnTheirWay, WorkersAt
  <2> QED
    BY <2>1, <2>4, <2>5, <2>6 DEF UrlInv, Enabled, Submitted
<1>6. ASSUME NEW w \in Workers, CountResult(w) PROVE UrlInv'
  <2>1. UNCHANGED <<fate, wpc, wtask, enq, liveUrl, cleared, target, ipc>>
    BY <1>6 DEF CountResult, qvars, history, work, updateVars
  <2>2. OnTheirWay' = OnTheirWay
    BY <2>1 DEF OnTheirWay, WorkersAt
  <2> QED
    BY <2>1, <2>2 DEF UrlInv, Submitted, Enabled
<1>7. ASSUME NEW w \in Workers, RecordResult(w) PROVE UrlInv'
  <2>1. /\ UNCHANGED <<fate, enq, liveUrl, cleared, target, ipc>>
        /\ wpc[w] = "report" /\ wpc' = [wpc EXCEPT ![w] = "release"]
        /\ wtask' = [wtask EXCEPT ![w] = NoTask]
    BY <1>7 DEF RecordResult, Report, updateVars
  <2>2. \A v \in Workers : /\ wpc'[v] = "sending" <=> wpc[v] = "sending"
                           /\ wpc[v] = "sending" => wtask'[v] = wtask[v]
    BY <2>1 DEF TypeOK
  <2>3. OnTheirWay' = OnTheirWay
    BY <2>1, <2>2 DEF OnTheirWay, WorkersAt
  <2> QED
    BY <2>1, <2>2, <2>3 DEF UrlInv, Submitted, Enabled
<1>8. ASSUME NEW w \in Workers, NEW o \in Outcomes, FinishPost(w, o) PROVE UrlInv'
  <2>1. /\ UNCHANGED <<enq, liveUrl, cleared, ipc, wtask>>
        /\ wpc[w] = "sending" /\ wpc' = [wpc EXCEPT ![w] = "report"]
        /\ fate' = [fate EXCEPT ![wtask[w]] = o] /\ target' = [target EXCEPT ![w] = NoUrl]
    BY <1>8 DEF FinishPost, FinishSend, pathVars, updateVars
  <2>2. /\ wpc'[w] = "report"
        /\ \A v \in Workers : v # w => wpc'[v] = wpc[v] /\ target'[v] = target[v]
    BY <2>1 DEF TypeOK
  <2>3. wtask[w] \in Tasks /\ fate'[wtask[w]] = o
        /\ \A s \in Tasks : s # wtask[w] => fate'[s] = fate[s]
    BY <2>1 DEF TypeOK, OwnershipInv, HoldInv, Holding
  <2>4. OnTheirWay' \subseteq OnTheirWay
    BY <2>1, <2>2, <2>3 DEF OnTheirWay, WorkersAt
  <2> QED
    BY <2>1, <2>2, <2>4 DEF UrlInv, Submitted, Enabled
<1>9. ASSUME NEW u \in Updaters, Swap(u) PROVE UrlInv'
  <2>1. /\ UNCHANGED <<fate, wpc, wtask, enq, ipc, target>>
        /\ IF Enabled(liveUrl') THEN cleared' = cleared ELSE cleared' = cleared \cup OnTheirWay
    BY <1>9 DEF Swap, SwapFor, qvars, history, work, sendVars
  <2>2. OnTheirWay' = OnTheirWay
    BY <2>1 DEF OnTheirWay, WorkersAt
  <2> QED
    BY <2>1, <2>2 DEF UrlInv, Submitted, Enabled
<1>10. ASSUME NEW u \in Updaters, NEW c \in Configs, NEW b \in Books, NEW persisted \in BOOLEAN,
              Replace(u, c, b, persisted)
       PROVE  UrlInv'
  <2>1. UNCHANGED <<fate, wpc, wtask, enq, liveUrl, cleared, target, ipc>>
    BY <1>10 DEF Replace, qvars, history, work, sendVars
  <2>2. OnTheirWay' = OnTheirWay
    BY <2>1 DEF OnTheirWay, WorkersAt
  <2> QED
    BY <2>1, <2>2 DEF UrlInv, Submitted, Enabled
<1>11. ASSUME UNCHANGED vars, ~Finishing PROVE UrlInv'
  BY <1>11, <1>1 DEF vars, qvars, work
<1> QED
  BY <1>2, <1>3, <1>4, <1>5, <1>6, <1>7, <1>8, <1>9, <1>10, <1>11 DEF FwdNext, Finishing

\* An event that a cleared URL overtook stays so.
LEMMA ClearedKept == [FwdNext]_vars => cleared \subseteq cleared'
<1> SUFFICES ASSUME [FwdNext]_vars PROVE cleared \subseteq cleared'
  OBVIOUS
<1>1. ASSUME NEW u \in Updaters, Swap(u) PROVE cleared \subseteq cleared'
  BY <1>1 DEF Swap, SwapFor
<1>2. ASSUME NEW u \in Updaters, NEW c \in Configs, NEW b \in Books, NEW persisted \in BOOLEAN,
             Replace(u, c, b, persisted)
      PROVE  cleared' = cleared
  BY <1>2 DEF Replace
<1>3. ASSUME NEW w \in Workers,
             \/ StartPost(w) \/ CountResult(w) \/ RecordResult(w)
             \/ \E o \in Outcomes : FinishPost(w, o)
      PROVE  cleared' = cleared
  BY <1>3 DEF StartPost, CountResult, RecordResult, FinishPost, updateVars
<1>4. ASSUME NEW t \in Tasks, ReadConfig(t) \/ ReadForwarder(t) \/ Submit(t)
      PROVE  cleared' = cleared
  BY <1>4 DEF ReadConfig, ReadForwarder, Submit, updateVars
<1>5. ASSUME QueueStep \/ UNCHANGED vars PROVE cleared' = cleared
  BY <1>5 DEF QueueStep, vars, updateVars
<1> QED
  BY <1>1, <1>2, <1>3, <1>4, <1>5 DEF FwdNext

OkMeansReceived == \A t \in Tasks : fate[t] = "ok" => received[t] # {} \/ t \in cleared

LEMMA OkStep ==
  TypeOK /\ OwnershipInv /\ ReceivedInv /\ UrlInv /\ OkMeansReceived /\ [FwdNext]_vars
     => OkMeansReceived'
<1> SUFFICES ASSUME TypeOK, OwnershipInv, ReceivedInv, UrlInv, OkMeansReceived,
                    [FwdNext]_vars
             PROVE  OkMeansReceived'
  OBVIOUS
<1>0. cleared \subseteq cleared'
  BY ClearedKept
<1>1. CASE ~Finishing
  BY <1>0, <1>1, OnlyFinishing DEF OkMeansReceived, Outcomes
<1>2. ASSUME NEW w \in Workers, NEW o \in Outcomes, FinishPost(w, o) PROVE OkMeansReceived'
  <2>1. PICK t \in Tasks :
            /\ t = wtask[w] /\ wpc[w] = "sending" /\ fate'[t] = o
            /\ \A s \in Tasks : s # t => fate'[s] = fate[s]
            /\ target[w] = NoUrl => received' = received
            /\ target[w] # NoUrl =>
                  /\ received' \in {received, [received EXCEPT ![t] = {<<0, target[w]>>}]}
                  /\ o = "ok" => received' = [received EXCEPT ![t] = {<<0, target[w]>>}]
    BY <1>2, FinishingOne
  <2>2. \A s \in Tasks : s # t => received'[s] = received[s]
    BY <2>1 DEF ReceivedInv
  <2>3. target[w] # NoUrl /\ o = "ok" => received'[t] # {}
    BY <2>1 DEF ReceivedInv
  <2>4. target[w] = NoUrl => t \in cleared'
    BY <1>0, <2>1 DEF UrlInv, Enabled
  <2> QED
    BY <1>0, <2>1, <2>2, <2>3, <2>4 DEF OkMeansReceived
<1> QED
  BY <1>1, <1>2 DEF Finishing

PathInv == PathType /\ UrlInv /\ OkMeansReceived

LEMMA PathInit == FwdInit => PathInv
<1> SUFFICES ASSUME FwdInit PROVE PathInv
  OBVIOUS
<1>1. liveUrl \in AnyUrl
  BY ForwardingAssumption DEF FwdInit, AnyUrl
<1>2. PathType
  BY <1>1 DEF FwdInit, PathType, AnyUrl, Nothing
<1>3. UrlInv
  BY DEF FwdInit, Init, UrlInv, Submitted, OnTheirWay
<1>4. OkMeansReceived
  BY DEF FwdInit, Init, OkMeansReceived
<1> QED
  BY <1>2, <1>3, <1>4 DEF PathInv

\* What the collector says of an event is true of the DMZ, whatever settings the
\* updates bring, the empty URL among them: an event counted as forwarded was
\* received exactly once, unless an update cleared the URL while it was on its
\* way; a failed one was received at most once, any other not at all.
THEOREM DeliveredExactly == FwdSpec => []DeliveredOnce
<1>1. TypeOK /\ OwnershipInv /\ ReceivedInv /\ PathInv /\ [FwdNext]_vars => PathInv'
  BY PathTypeStep, UrlStep, OkStep DEF PathInv
<1>2. ReceivedInv /\ PathInv => ForwardedMeansReceived
  BY DEF ReceivedInv, PathInv, OkMeansReceived, ForwardedMeansReceived
<1>3. AtMostOnceDelivery /\ ForwardedMeansReceived => DeliveredOnce
  BY DEF DeliveredOnce
<1> QED
  BY <1>1, <1>2, <1>3, PathInit, ReceivedInit, ReceivedStep, QueueFacts,
     NeverDeliveredTwice, PTL DEF FwdSpec

-----------------------------------------------------------------------------
(* The counters of the results.                                             *)

\* Events that Stats has counted as o.
CountedAs(o) == {t \in Tasks : fate[t] = o /\
                    ~\E w \in WorkersAt({"report"}) \ counted : wtask[w] = t}

Results == [ok : Int, failed : Int, last : Tasks \cup {b.last : b \in Books}]

ResultType ==
    /\ stats \in [Outcomes -> Nat] /\ counted \subseteq WorkersAt({"report"})
    /\ book \in Results /\ start \in Books /\ erased \subseteq Tasks

\* The record is exact, and was erased only of what it had recorded.
BookInv == BookExact /\ erased \subseteq Recorded

LEMMA BookTypes == Books \subseteq Results /\ \A b \in Books, o \in Outcomes : b[o] \in Int
<1> SUFFICES ASSUME NEW b \in Books
             PROVE  b \in Results /\ \A o \in Outcomes : b[o] \in Int
  OBVIOUS
<1>1. b \in [ok : Int, failed : Int, last : {b.last}]
  BY ForwardingAssumption
<1> QED
  BY <1>1 DEF Results, Outcomes

\* The callback and the end of a send are all that moves the results.
Resulting ==
    \/ Finishing
    \/ \E w \in Workers : CountResult(w) \/ RecordResult(w)

\* A worker enters the callback from a send, or with an event it has skipped.
LEMMA ResultFrame ==
  ASSUME TypeOK, OwnershipInv, ResultType, [FwdNext]_vars, ~Resulting
  PROVE  /\ UNCHANGED <<stats, counted>>
         /\ \A w \in counted : wtask'[w] = wtask[w] /\ wpc'[w] = wpc[w]
         /\ \A t \in Tasks, o \in Outcomes : fate'[t] = o <=> fate[t] = o
         /\ \A w \in Workers : wpc'[w] = "report" =>
               /\ wtask'[w] = wtask[w]
               /\ wpc[w] = "report" \/ fate'[wtask[w]] = "skipped"
         /\ \A w \in Workers : wpc[w] = "report" => wpc'[w] = "report"
<1> DEFINE Workers_ == \A w \in Workers :
               /\ wpc'[w] = "report" =>
                     /\ wtask'[w] = wtask[w]
                     /\ wpc[w] = "report" \/ fate'[wtask[w]] = "skipped"
               /\ wpc[w] = "report" => wpc'[w] = "report" /\ wtask'[w] = wtask[w]
<1>1. \A t \in Tasks, o \in Outcomes : fate'[t] = o <=> fate[t] = o
  BY OnlyFinishing DEF Resulting
<1>2. ASSUME UNCHANGED <<wpc, wtask>> PROVE Workers_
  BY <1>2
<1>3. ASSUME QueueStep PROVE UNCHANGED <<stats, counted>> /\ Workers_
  <2>1. ASSUME NEW w \in Workers, Receive(w) \/ Exit(w) \/ UncountQueued(w)
                 \/ CountInFlight(w) \/ UncountInFlight(w)
        PROVE  Workers_
    BY <2>1 DEF Receive, Exit, UncountQueued, CountInFlight, UncountInFlight, TypeOK
  <2>2. ASSUME NEW w \in Workers, Skip(w) PROVE Workers_
    <3>1. wtask[w] \in Tasks
      BY <2>2 DEF Skip, OwnershipInv, HoldInv, Holding
    <3> QED
      BY <2>2, <3>1 DEF Skip, TypeOK
  <2>3. ASSUME NEW d \in Drainers, Drain(d) PROVE UNCHANGED <<wpc, wtask>>
    BY <2>3 DEF Drain, DrainBegin, DrainRemove, DrainUncount, DrainReturn, work
  <2>4. ASSUME Cancel \/ \E t \in Tasks : Age(t) PROVE UNCHANGED <<wpc, wtask>>
    BY <2>4 DEF Cancel, Age, work
  <2>5. UNCHANGED <<stats, counted>>
    BY <1>3 DEF QueueStep, pathVars, sendVars
  <2>6. Workers_
    BY <1>2, <1>3, <2>1, <2>2, <2>3, <2>4 DEF QueueStep
  <2> QED
    BY <2>5, <2>6
<1>4. ASSUME NEW t \in Tasks, ReadConfig(t) \/ ReadForwarder(t) \/ Submit(t)
      PROVE  UNCHANGED <<stats, counted, wpc, wtask>>
  BY <1>4 DEF ReadConfig, ReadForwarder, Submit, Enqueue, Send, Refuse, CountQueued,
              qvars, work, pathVars, sendVars
<1>5. ASSUME NEW w \in Workers, StartPost(w) PROVE UNCHANGED <<stats, counted>> /\ Workers_
  BY <1>5 DEF StartPost, StartSend, TypeOK, pathVars
<1>6. ASSUME NEW u \in Updaters, Swap(u)
      PROVE  UNCHANGED <<stats, counted, wpc, wtask>>
  BY <1>6 DEF Swap, qvars, work, sendVars
<1>7. ASSUME NEW u \in Updaters, NEW c \in Configs, NEW b \in Books, NEW persisted \in BOOLEAN,
             Replace(u, c, b, persisted)
      PROVE  UNCHANGED <<stats, counted, wpc, wtask>>
  BY <1>7 DEF Replace, qvars, work, sendVars
<1>8. ASSUME UNCHANGED vars PROVE UNCHANGED <<stats, counted, wpc, wtask>>
  BY <1>8 DEF vars, qvars, work, pathVars, sendVars
<1>9. UNCHANGED <<stats, counted>> /\ Workers_
  BY <1>2, <1>3, <1>4, <1>5, <1>6, <1>7, <1>8 DEF FwdNext, Resulting, Finishing
<1> QED
  BY <1>1, <1>9 DEF ResultType, WorkersAt

\* The record is written at the end of a callback, and replaced whole.
LEMMA RecordFrame ==
  ASSUME [FwdNext]_vars, ~\E w \in Workers : RecordResult(w)
  PROVE  \/ UNCHANGED <<book, start, erased>>
         \/ /\ book' \in Books /\ start' = book' /\ erased' = Recorded
            /\ UNCHANGED <<fate, wpc, wtask, stats, counted>>
<1> DEFINE Kept == UNCHANGED <<book, start, erased>>
<1>1. ASSUME NEW u \in Updaters, NEW c \in Configs, NEW b \in Books, NEW persisted \in BOOLEAN,
             Replace(u, c, b, persisted)
      PROVE  /\ book' \in Books /\ start' = book' /\ erased' = Recorded
             /\ UNCHANGED <<fate, wpc, wtask, stats, counted>>
  BY <1>1 DEF Replace, qvars, history, work, sendVars
<1>2. ASSUME NEW u \in Updaters, Swap(u) PROVE Kept
  BY <1>2 DEF Swap
<1>3. ASSUME NEW w \in Workers,
             StartPost(w) \/ CountResult(w) \/ \E o \in Outcomes : FinishPost(w, o)
      PROVE  Kept
  BY <1>3 DEF StartPost, CountResult, FinishPost, pathVars, updateVars
<1>4. ASSUME NEW t \in Tasks, ReadConfig(t) \/ ReadForwarder(t) \/ Submit(t) PROVE Kept
  BY <1>4 DEF ReadConfig, ReadForwarder, Submit, pathVars, updateVars
<1>5. ASSUME QueueStep \/ UNCHANGED vars PROVE Kept
  BY <1>5 DEF QueueStep, vars, pathVars, updateVars
<1> QED
  BY <1>1, <1>2, <1>3, <1>4, <1>5 DEF FwdNext

\* In the callback a worker holds an event whose fate is known, alone.
LEMMA InCallback ==
  ASSUME OwnershipInv, NEW w \in Workers, wpc[w] = "report"
  PROVE  /\ wtask[w] \in Tasks /\ fate[wtask[w]] \in Final
         /\ \A v \in Workers : v # w /\ wpc[v] = "report" => wtask[v] # wtask[w]
BY DEF OwnershipInv, HoldInv, AloneInv, Holding

LEMMA ResultTypeStep ==
  ASSUME TypeOK, OwnershipInv, ResultType, [FwdNext]_vars PROVE ResultType'
<1>1. ASSUME ~Resulting PROVE ResultType'
  <2>1. ~\E w \in Workers : RecordResult(w)
    BY <1>1 DEF Resulting
  <2>2. UNCHANGED <<stats, counted>> /\ \A w \in Workers : wpc[w] = "report" => wpc'[w] = "report"
    BY <1>1, ResultFrame
  <2>3. book' \in Results /\ start' \in Books /\ erased' \subseteq Tasks
    BY <2>1, RecordFrame, BookTypes DEF ResultType, Recorded
  <2> QED
    BY <2>2, <2>3 DEF ResultType, WorkersAt
<1>2. ASSUME NEW w \in Workers, NEW o \in Outcomes, FinishPost(w, o) PROVE ResultType'
  <2>1. UNCHANGED <<stats, counted, book, start, erased>>
    BY <1>2 DEF FinishPost, pathVars, updateVars
  <2>2. \A v \in Workers : wpc[v] = "report" => wpc'[v] = "report"
    BY <1>2 DEF FinishPost, FinishSend, TypeOK
  <2> QED
    BY <2>1, <2>2 DEF ResultType, WorkersAt
<1>3. ASSUME NEW w \in Workers, CountResult(w) PROVE ResultType'
  <2>1. fate[wtask[w]] \in Outcomes
    BY <1>3, InCallback DEF CountResult, Final
  <2>2. stats' \in [Outcomes -> Nat]
    BY <1>3, <2>1 DEF CountResult, ResultType
  <2>3. UNCHANGED <<book, start, erased, wpc>>
    BY <1>3 DEF CountResult, qvars, work, updateVars
  <2> QED
    BY <1>3, <2>2, <2>3 DEF CountResult, ResultType, WorkersAt
<1>4. ASSUME NEW w \in Workers, RecordResult(w) PROVE ResultType'
  <2>1. wpc[w] = "report" /\ UNCHANGED <<stats, start, erased>> /\ counted' = counted \ {w}
    BY <1>4 DEF RecordResult, Report, updateVars
  <2>2. wtask[w] \in Tasks /\ fate[wtask[w]] \in Final
    BY <2>1, InCallback
  <2>3. book' \in Results
    <3>1. book' = Booked(wtask[w], fate[wtask[w]]) /\ book \in Results
      BY <1>4 DEF RecordResult, ResultType
    <3>2. CASE fate[wtask[w]] = "ok"
      <4>1. book' = [[book EXCEPT !.ok = @ + 1] EXCEPT !.last = wtask[w]]
        BY <3>1, <3>2 DEF Booked
      <4>2. [book EXCEPT !.ok = @ + 1] \in Results
        BY <3>1 DEF Results
      <4> QED
        BY <4>1, <4>2, <2>2 DEF Results
    <3>3. CASE fate[wtask[w]] = "failed"
      BY <3>1, <3>3 DEF Booked, Results
    <3>4. CASE fate[wtask[w]] = "skipped"
      BY <3>1, <3>4 DEF Booked
    <3> QED
      BY <2>2, <3>2, <3>3, <3>4 DEF Final, Outcomes
  <2>4. \A v \in Workers : v # w => wpc'[v] = wpc[v]
    BY <1>4 DEF RecordResult, Report, TypeOK
  <2> QED
    BY <2>1, <2>3, <2>4 DEF ResultType, WorkersAt
<1> QED
  BY <1>1, <1>2, <1>3, <1>4 DEF Resulting, Finishing

\* The counters when neither a callback nor a send moves.
LEMMA SendsKept ==
  ASSUME TypeOK, OwnershipInv, ResultType, SendsCounted, [FwdNext]_vars, ~Resulting
  PROVE  SendsCounted'
<1>1. /\ UNCHANGED <<stats, counted>>
      /\ \A w \in counted : wtask'[w] = wtask[w] /\ wpc'[w] = wpc[w]
      /\ \A t \in Tasks, o \in Outcomes : fate'[t] = o <=> fate[t] = o
      /\ \A w \in Workers : wpc'[w] = "report" =>
            /\ wtask'[w] = wtask[w]
            /\ wpc[w] = "report" \/ fate'[wtask[w]] = "skipped"
      /\ \A w \in Workers : wpc[w] = "report" => wpc'[w] = "report"
  BY ResultFrame
<1>2. ASSUME NEW o \in Outcomes PROVE CountedAs(o)' = CountedAs(o)
  <2>1. o # "skipped"
    BY DEF Outcomes
  <2>2. ASSUME NEW t \in Tasks, fate[t] = o
        PROVE  (\E w \in WorkersAt({"report"}) \ counted : wtask[w] = t)'
                 <=> \E w \in WorkersAt({"report"}) \ counted : wtask[w] = t
    BY <1>1, <2>1, <2>2 DEF WorkersAt
  <2> QED
    BY <1>1, <2>2 DEF CountedAs
<1> QED
  BY <1>1, <1>2 DEF SendsCounted, CountedAs

LEMMA CountedFinite ==
  ASSUME NEW o PROVE IsFiniteSet(CountedAs(o)) /\ Cardinality(CountedAs(o)) \in Nat
<1>1. CountedAs(o) \subseteq Tasks
  BY DEF CountedAs
<1> QED
  BY <1>1, QueueAssumption, FS_Subset, FS_CardinalityType

\* A finished send is not counted until its worker comes to it.
LEMMA SendsFinish ==
  ASSUME TypeOK, OwnershipInv, ResultType, SendsCounted,
         NEW w \in Workers, NEW o \in Outcomes, FinishPost(w, o)
  PROVE  SendsCounted' /\ Recorded' = Recorded /\ \A u \in Recorded : fate'[u] = fate[u]
<1> DEFINE t == wtask[w]
<1>1. /\ wpc[w] = "sending" /\ wpc' = [wpc EXCEPT ![w] = "report"]
      /\ fate' = [fate EXCEPT ![t] = o] /\ UNCHANGED <<wtask, stats, counted>>
  BY DEF FinishPost, FinishSend, pathVars
<1>2. t \in Tasks /\ fate[t] = "taken" /\ w \notin counted
  BY <1>1 DEF OwnershipInv, HoldInv, Holding, ResultType, WorkersAt
<1>3. /\ fate'[t] = o /\ \A u \in Tasks : u # t => fate'[u] = fate[u]
      /\ wpc'[w] = "report" /\ \A v \in Workers : v # w => wpc'[v] = wpc[v]
  BY <1>1, <1>2 DEF TypeOK
<1>4. t = wtask[w] /\ wtask' = wtask /\ counted' = counted
  BY <1>1
<1> HIDE DEF t
<1>5. ASSUME NEW p \in Outcomes PROVE CountedAs(p)' = CountedAs(p)
  <2>1. t \notin CountedAs(p)
    BY <1>2 DEF CountedAs, Outcomes
  <2>2. t \notin CountedAs(p)'
    BY <1>2, <1>3, <1>4 DEF CountedAs, WorkersAt
  <2>3. ASSUME NEW u \in Tasks, u # t
        PROVE  u \in CountedAs(p)' <=> u \in CountedAs(p)
    BY <1>1, <1>3, <1>4, <2>3 DEF CountedAs, WorkersAt
  <2> QED
    BY <2>1, <2>2, <2>3 DEF CountedAs
<1>6. t \notin Recorded /\ t \notin Recorded'
  BY <1>2, <1>3, <1>4 DEF Recorded, Outcomes, WorkersAt
<1>7. ASSUME NEW u \in Tasks, u # t PROVE u \in Recorded' <=> u \in Recorded
  BY <1>1, <1>3, <1>4, <1>7 DEF Recorded, WorkersAt
<1>8. Recorded' = Recorded
  BY <1>6, <1>7 DEF Recorded
<1>9. \A u \in Recorded : fate'[u] = fate[u]
  BY <1>3, <1>6 DEF Recorded
<1>10. SendsCounted'
  BY <1>1, <1>5 DEF SendsCounted, CountedAs
<1> QED
  BY <1>8, <1>9, <1>10

LEMMA SendsCount ==
  ASSUME TypeOK, OwnershipInv, ResultType, SendsCounted, NEW w \in Workers, CountResult(w)
  PROVE  SendsCounted' /\ UNCHANGED <<fate, wpc, wtask>>
<1>1. PICK t \in Tasks, o \in Outcomes : t = wtask[w] /\ o = fate[t]
  BY InCallback DEF CountResult, Final
<1>2. /\ wpc[w] = "report" /\ w \notin counted /\ counted' = counted \cup {w}
      /\ stats' = [stats EXCEPT ![o] = @ + 1] /\ UNCHANGED <<wpc, wtask, fate>>
  BY <1>1 DEF CountResult, qvars, work, history
<1>3. \A v \in Workers : v # w /\ wpc[v] = "report" => wtask[v] # t
  BY <1>1, <1>2, InCallback
<1>4. /\ stats'[o] = stats[o] + 1 /\ \A p \in Outcomes : stats[p] \in Nat
      /\ \A p \in Outcomes : p # o => stats'[p] = stats[p]
  BY <1>2 DEF ResultType
<1>5. ASSUME NEW u \in Tasks, NEW p \in Outcomes
      PROVE  u \in CountedAs(p)' <=> u \in CountedAs(p) \/ (u = t /\ p = o)
  <2>1. CASE u = t
    BY <1>1, <1>2, <1>3, <2>1 DEF CountedAs, WorkersAt
  <2>2. CASE u # t
    BY <1>1, <1>2, <2>2 DEF CountedAs, WorkersAt
  <2> QED
    BY <2>1, <2>2
<1>6. t \notin CountedAs(o)
  BY <1>1, <1>2 DEF CountedAs, WorkersAt
<1>7. /\ CountedAs(o)' = CountedAs(o) \cup {t}
      /\ \A p \in Outcomes : p # o => CountedAs(p)' = CountedAs(p)
  BY <1>5 DEF CountedAs
<1>8. Cardinality(CountedAs(o)') = Cardinality(CountedAs(o)) + 1
  BY <1>6, <1>7, CountedFinite, FS_AddElement
<1>9. SendsCounted'
  <2>1. \A p \in Outcomes : stats[p] = Cardinality(CountedAs(p))
    BY DEF SendsCounted, CountedAs
  <2>2. \A p \in Outcomes : stats'[p] = Cardinality(CountedAs(p)')
    BY <1>4, <1>7, <1>8, <2>1
  <2> QED
    BY <2>2 DEF SendsCounted, CountedAs
<1> QED
  BY <1>2, <1>9

LEMMA SendsRecord ==
  ASSUME TypeOK, OwnershipInv, ResultType, SendsCounted, NEW w \in Workers, RecordResult(w)
  PROVE  /\ SendsCounted' /\ UNCHANGED <<fate, start, erased>>
         /\ \E t \in Tasks, f \in Final :
               /\ f = fate[t] /\ book' = Booked(t, f) /\ t \notin Recorded
               /\ Recorded' = Recorded \cup (IF f \in Outcomes THEN {t} ELSE {})
<1>1. PICK t \in Tasks, f \in Final : t = wtask[w] /\ f = fate[t]
  BY InCallback DEF RecordResult, Report
<1>2. /\ wpc[w] = "report" /\ wpc' = [wpc EXCEPT ![w] = "release"]
      /\ wtask' = [wtask EXCEPT ![w] = NoTask] /\ (f # "skipped" => w \in counted)
      /\ counted' = counted \ {w} /\ book' = Booked(t, f) /\ UNCHANGED <<fate, stats, start, erased>>
  BY <1>1 DEF RecordResult, Report, updateVars
<1>3. /\ wpc'[w] = "release"
      /\ \A v \in Workers : v # w => wpc'[v] = wpc[v] /\ wtask'[v] = wtask[v]
  BY <1>2 DEF TypeOK
<1>4. counted \subseteq Workers /\ \A p \in Outcomes : p # "skipped"
  BY DEF ResultType, WorkersAt, Outcomes
<1>5. ASSUME NEW p \in Outcomes PROVE CountedAs(p)' = CountedAs(p)
  <2>1. ASSUME NEW u \in Tasks, fate[u] = p
        PROVE  (\E v \in WorkersAt({"report"}) \ counted : wtask[v] = u)'
                  <=> \E v \in WorkersAt({"report"}) \ counted : wtask[v] = u
    <3>1. w \in WorkersAt({"report"}) \ counted => wtask[w] # u
      BY <1>1, <1>2, <1>4, <2>1
    <3>2. /\ w \notin (WorkersAt({"report"}) \ counted)'
          /\ \A v \in Workers : v # w => (v \in (WorkersAt({"report"}) \ counted)' <=>
                                            v \in WorkersAt({"report"}) \ counted)
      BY <1>2, <1>3 DEF WorkersAt
    <3>3. /\ WorkersAt({"report"}) \ counted \subseteq Workers
          /\ (WorkersAt({"report"}) \ counted)' \subseteq Workers
      BY DEF WorkersAt
    <3> QED
      BY <1>3, <3>1, <3>2, <3>3
  <2> QED
    BY <1>2, <2>1 DEF CountedAs
<1>6. SendsCounted'
  BY <1>2, <1>5 DEF SendsCounted, CountedAs
<1>7. t \notin Recorded
  BY <1>1, <1>2 DEF Recorded, WorkersAt
<1>8. ASSUME NEW u \in Tasks
      PROVE  u \in Recorded' <=> u \in Recorded \/ (u = t /\ f \in Outcomes)
  <2>1. CASE u = t
    <3>1. \A v \in Workers : v # w /\ wpc[v] = "report" => wtask[v] # t
      BY <1>1, <1>2, InCallback
    <3> QED
      BY <1>1, <1>2, <1>3, <2>1, <3>1 DEF Recorded, WorkersAt
  <2>2. CASE u # t
    BY <1>1, <1>2, <1>3, <2>2 DEF Recorded, WorkersAt
  <2> QED
    BY <2>1, <2>2
<1>9. Recorded' = Recorded \cup (IF f \in Outcomes THEN {t} ELSE {})
  BY <1>8 DEF Recorded
<1> QED
  BY <1>1, <1>2, <1>6, <1>7, <1>9

\* What the store has been told does not move but at the end of a callback.
LEMMA RecordedKept ==
  ASSUME TypeOK, OwnershipInv, ResultType, SendsCounted, [FwdNext]_vars,
         ~\E w \in Workers : RecordResult(w)
  PROVE  Recorded' = Recorded /\ \A u \in Recorded : fate'[u] = fate[u]
<1>1. CASE ~Resulting
  <2>1. /\ \A t \in Tasks, o \in Outcomes : fate'[t] = o <=> fate[t] = o
        /\ \A w \in Workers : wpc'[w] = "report" =>
              /\ wtask'[w] = wtask[w]
              /\ wpc[w] = "report" \/ fate'[wtask[w]] = "skipped"
        /\ \A w \in Workers : wpc[w] = "report" => wpc'[w] = "report"
    BY <1>1, ResultFrame
  <2>2. ASSUME NEW u \in Tasks PROVE u \in Recorded' <=> u \in Recorded
    <3>1. "skipped" \notin Outcomes /\ (fate'[u] \in Outcomes <=> fate[u] \in Outcomes)
      BY <2>1 DEF Outcomes
    <3>2. fate'[u] \in Outcomes =>
             ((\E w \in Workers : wpc'[w] = "report" /\ wtask'[w] = u) <=>
                 \E w \in Workers : wpc[w] = "report" /\ wtask[w] = u)
      BY <2>1, <3>1
    <3> QED
      BY <3>1, <3>2 DEF Recorded, WorkersAt
  <2>3. Recorded' = Recorded
    BY <2>2 DEF Recorded
  <2>4. \A u \in Recorded : fate'[u] = fate[u]
    BY <2>1 DEF Recorded
  <2> QED
    BY <2>3, <2>4
<1>2. ASSUME NEW w \in Workers, NEW o \in Outcomes, FinishPost(w, o)
      PROVE  Recorded' = Recorded /\ \A u \in Recorded : fate'[u] = fate[u]
  BY <1>2, SendsFinish
<1>3. ASSUME NEW w \in Workers, CountResult(w)
      PROVE  Recorded' = Recorded /\ \A u \in Recorded : fate'[u] = fate[u]
  <2>1. UNCHANGED <<fate, wpc, wtask>>
    BY <1>3, SendsCount
  <2> QED
    BY <2>1 DEF Recorded, WorkersAt
<1> QED
  BY <1>1, <1>2, <1>3 DEF Resulting, Finishing

LEMMA SinceFinite ==
  ASSUME NEW o PROVE IsFiniteSet(RecordedSince(o)) /\ Cardinality(RecordedSince(o)) \in Nat
<1>1. RecordedSince(o) \subseteq Tasks
  BY DEF RecordedSince, Recorded
<1> QED
  BY <1>1, QueueAssumption, FS_Subset, FS_CardinalityType

\* A record that comes from a body begins anew, with nothing recorded since.
LEMMA BookKept ==
  ASSUME TypeOK, OwnershipInv, ResultType, SendsCounted, BookInv, [FwdNext]_vars,
         ~\E w \in Workers : RecordResult(w)
  PROVE  BookInv'
<1>1. Recorded' = Recorded /\ \A u \in Recorded : fate'[u] = fate[u]
  BY RecordedKept
<1>2. CASE UNCHANGED <<book, start, erased>>
  <2>1. \A o \in Outcomes : RecordedSince(o)' = RecordedSince(o)
    BY <1>1, <1>2 DEF RecordedSince
  <2>2. "ok" \in Outcomes
    BY DEF Outcomes
  <2>3. BookExact'
    BY <1>2, <2>1, <2>2 DEF BookInv, BookExact
  <2> QED
    BY <1>1, <1>2, <2>3 DEF BookInv
<1>3. CASE book' \in Books /\ start' = book' /\ erased' = Recorded
  <2>1. \A o \in Outcomes : RecordedSince(o)' = {}
    BY <1>1, <1>3 DEF RecordedSince
  <2>2. \A o \in Outcomes : book'[o] \in Int
    BY <1>3, BookTypes
  <2>3. Cardinality({}) = 0 /\ "ok" \in Outcomes
    BY FS_EmptySet DEF Outcomes
  <2>4. \A o \in Outcomes : Cardinality(RecordedSince(o)') = 0
    BY <2>1, <2>3
  <2>5. \A o \in Outcomes : book'[o] = start'[o] + Cardinality(RecordedSince(o)')
    BY <1>3, <2>2, <2>4
  <2>6. RecordedSince("ok")' = {} /\ book'.last = start'.last
    BY <1>3, <2>1, <2>3
  <2>7. BookExact'
    BY <2>5, <2>6 DEF BookExact
  <2> QED
    BY <1>1, <1>3, <2>7 DEF BookInv
<1> QED
  BY <1>2, <1>3, RecordFrame

LEMMA BookRecord ==
  ASSUME TypeOK, OwnershipInv, ResultType, SendsCounted, BookInv,
         NEW w \in Workers, RecordResult(w)
  PROVE  BookInv'
<1>1. UNCHANGED <<fate, start, erased>>
  BY SendsRecord
<1>2. PICK t \in Tasks, f \in Final :
         /\ f = fate[t] /\ book' = Booked(t, f) /\ t \notin Recorded
         /\ Recorded' = Recorded \cup (IF f \in Outcomes THEN {t} ELSE {})
  BY SendsRecord
<1>3. erased \subseteq Recorded /\ t \notin erased /\ erased' \subseteq Recorded'
  BY <1>1, <1>2 DEF BookInv
<1>4. ASSUME NEW o \in Outcomes
      PROVE  /\ o # f => RecordedSince(o)' = RecordedSince(o)
             /\ o = f => /\ RecordedSince(o)' = RecordedSince(o) \cup {t}
                         /\ t \notin RecordedSince(o)
  BY <1>1, <1>2, <1>3 DEF RecordedSince
<1>5. /\ book \in Results /\ start \in Books /\ \A o \in Outcomes : start[o] \in Int
      /\ \A o \in Outcomes : book[o] = start[o] + Cardinality(RecordedSince(o))
      /\ book.last \in IF RecordedSince("ok") = {} THEN {start.last} ELSE RecordedSince("ok")
  BY BookTypes DEF ResultType, BookInv, BookExact
<1>6. /\ f \in {"ok", "failed", "skipped"} /\ "ok" # "failed" /\ "skipped" \notin Outcomes
      /\ Outcomes = {"ok", "failed"}
  BY DEF Final, Outcomes
<1>7. ASSUME NEW o \in Outcomes
      PROVE  book'[o] = book[o] + (IF o = f THEN 1 ELSE 0)
  <2>1. CASE f = "ok"
    <3>1. book' = [[book EXCEPT !.ok = @ + 1] EXCEPT !.last = t]
      BY <1>2, <2>1 DEF Booked
    <3>2. CASE o = "ok"
      BY <1>5, <2>1, <3>1, <3>2 DEF Results
    <3>3. CASE o = "failed"
      BY <1>5, <2>1, <3>1, <3>3 DEF Results
    <3> QED
      BY <1>6, <3>2, <3>3
  <2>2. CASE f = "failed"
    <3>1. book' = [book EXCEPT !.failed = @ + 1]
      BY <1>2, <2>2 DEF Booked
    <3>2. CASE o = "ok"
      BY <1>5, <2>2, <3>1, <3>2 DEF Results
    <3>3. CASE o = "failed"
      BY <1>5, <2>2, <3>1, <3>3 DEF Results
    <3> QED
      BY <1>6, <3>2, <3>3
  <2>3. CASE f = "skipped"
    <3>1. book' = book /\ book[o] \in Int /\ o # f
      BY <1>2, <1>5, <1>6, <2>3 DEF Booked, Results
    <3> QED
      BY <3>1
  <2> QED
    BY <1>6, <2>1, <2>2, <2>3
<1>8. ASSUME NEW o \in Outcomes
      PROVE  Cardinality(RecordedSince(o)')
               = Cardinality(RecordedSince(o)) + (IF o = f THEN 1 ELSE 0)
  BY <1>4, SinceFinite, FS_AddElement
<1>9. ASSUME NEW o \in Outcomes PROVE book'[o] = start'[o] + Cardinality(RecordedSince(o)')
  <2>1. /\ book[o] = start[o] + Cardinality(RecordedSince(o)) /\ start[o] \in Int
        /\ Cardinality(RecordedSince(o)) \in Nat /\ start' = start
    BY <1>1, <1>5, SinceFinite
  <2> QED
    BY <1>7, <1>8, <2>1
<1>10. book'.last \in IF RecordedSince("ok")' = {} THEN {start'.last} ELSE RecordedSince("ok")'
  <2>1. CASE f = "ok"
    <3>1. book'.last = t
      BY <1>2, <1>5, <2>1 DEF Booked, Results
    <3>2. t \in RecordedSince("ok")'
      BY <1>4, <1>6, <2>1
    <3> QED
      BY <3>1, <3>2
  <2>2. CASE f # "ok"
    <3>1. book'.last = book.last
      BY <1>2, <1>5, <1>6, <2>2 DEF Booked, Results
    <3>2. RecordedSince("ok")' = RecordedSince("ok")
      BY <1>4, <1>6, <2>2
    <3> QED
      BY <1>1, <1>5, <3>1, <3>2
  <2> QED
    BY <2>1, <2>2
<1> QED
  BY <1>3, <1>9, <1>10 DEF BookInv, BookExact

ResultInv == SendsCounted /\ BookInv

LEMMA ResultInvStep ==
  ASSUME TypeOK, OwnershipInv, ResultType, ResultInv, [FwdNext]_vars PROVE ResultInv'
<1>1. SendsCounted'
  BY SendsKept, SendsFinish, SendsCount, SendsRecord DEF ResultInv, Resulting, Finishing
<1>2. BookInv'
  BY BookKept, BookRecord DEF ResultInv
<1> QED
  BY <1>1, <1>2 DEF ResultInv

LEMMA ResultInit == FwdInit => ResultType /\ ResultInv
<1> SUFFICES ASSUME FwdInit PROVE ResultType /\ ResultInv
  OBVIOUS
<1>1. stats \in [Outcomes -> Nat] /\ book \in Books /\ start = book /\ erased = {}
  BY DEF FwdInit, Outcomes
<1>2. ResultType
  BY <1>1, BookTypes DEF FwdInit, ResultType
<1>3. /\ \A o \in Outcomes : CountedAs(o) = {} /\ RecordedSince(o) = {} /\ stats[o] = 0
      /\ Recorded = {}
  BY DEF FwdInit, Init, CountedAs, Recorded, RecordedSince, Outcomes
<1>4. Cardinality({}) = 0 /\ "ok" \in Outcomes
  BY FS_EmptySet DEF Outcomes
<1>5. SendsCounted
  BY <1>3, <1>4 DEF SendsCounted, CountedAs
<1>6. \A o \in Outcomes : book[o] \in Int
  BY <1>1, BookTypes
<1>7. BookExact
  BY <1>1, <1>3, <1>4, <1>6 DEF BookExact
<1> QED
  BY <1>1, <1>2, <1>3, <1>5, <1>7 DEF ResultInv, BookInv

\* What an operator is told adds up, for every number of workers, resets and
\* updates, whatever record of results the disk held or a body carries: Stats
\* counts every finished send once, the stored record is the last one it got
\* whole and every result since, and the resets answer with the number of events
\* they discarded.
THEOREM StatsAreExact == FwdSpec => []StatsExact
<1>1. ResultInv => SendsCounted /\ BookExact
  BY DEF ResultInv, BookInv
<1>2. SendsCounted /\ BookExact /\ DrainCountsExact => StatsExact
  BY DEF StatsExact
<1> QED
  BY <1>1, <1>2, ResultInit, ResultTypeStep, ResultInvStep, QueueFacts,
     PathKeepsQueue, DrainCountsCorrect, PTL DEF FwdSpec

-----------------------------------------------------------------------------
(* The stored configuration and the live forwarder, and the other types.    *)

ConfigType ==
    /\ cfg \in Configs /\ before \in AnyUrl /\ apart \in BOOLEAN
    /\ posted \subseteq Configs /\ swapped \subseteq AnyUrl
    /\ \A t \in Tasks : received[t] \subseteq Nat \X Urls

LEMMA ConfigTypeStep ==
  ASSUME TypeOK, OwnershipInv, PathType, ReceivedInv, ConfigType, [FwdNext]_vars
  PROVE  ConfigType'
<1>1. ASSUME UNCHANGED <<cfg, roundVars, received>> PROVE ConfigType'
  BY <1>1 DEF ConfigType, roundVars
<1>2. ASSUME NEW t \in Tasks, ReadConfig(t) \/ ReadForwarder(t) \/ Submit(t)
      PROVE  ConfigType'
  BY <1>1, <1>2 DEF ReadConfig, ReadForwarder, Submit, pathVars, sendVars, updateVars
<1>3. ASSUME NEW w \in Workers, StartPost(w) \/ CountResult(w) \/ RecordResult(w)
      PROVE  ConfigType'
  BY <1>1, <1>3 DEF StartPost, CountResult, RecordResult, pathVars, updateVars
<1>4. ASSUME NEW w \in Workers, NEW o \in Outcomes, FinishPost(w, o) PROVE ConfigType'
  <2>1. UNCHANGED <<cfg, posted, swapped, before, apart>>
    BY <1>4 DEF FinishPost, pathVars, updateVars, roundVars
  <2>2. PICK t \in Tasks :
          /\ received[t] = {}
          /\ target[w] = NoUrl => received' = received
          /\ target[w] # NoUrl =>
                received' \in {received, [received EXCEPT ![t] = {<<0, target[w]>>}]}
    BY <1>4, FinishingOne
  <2>3. target[w] # NoUrl => target[w] \in Urls
    BY DEF PathType, AnyUrl
  <2>4. \A s \in Tasks : received'[s] \subseteq Nat \X Urls
    BY <2>2, <2>3 DEF ReceivedInv, ConfigType
  <2> QED
    BY <2>1, <2>4 DEF ConfigType
<1>5. ASSUME NEW u \in Updaters, Swap(u) PROVE ConfigType'
  <2>1. UNCHANGED <<cfg, received, posted, before, apart>>
    BY <1>5 DEF Swap, sendVars
  <2>2. swapped' \subseteq AnyUrl
    BY <1>5 DEF Swap, PathType, ConfigType
  <2> QED
    BY <2>1, <2>2 DEF ConfigType
<1>6. ASSUME NEW u \in Updaters, NEW c \in Configs, NEW b \in Books, NEW persisted \in BOOLEAN,
             Replace(u, c, b, persisted)
      PROVE  ConfigType'
  <2>1. /\ cfg' = c /\ received' = received /\ posted' \in {{c}, posted \cup {c}}
        /\ swapped' \in {{}, swapped} /\ before' \in {liveUrl, before}
    BY <1>6 DEF Replace, sendVars
  <2>2. apart' \in BOOLEAN
    BY <1>6, Zenon DEF Replace
  <2> QED
    BY <2>1, <2>2 DEF ConfigType, PathType
<1>7. CASE QueueStep \/ UNCHANGED vars
  BY <1>1, <1>7 DEF QueueStep, vars, pathVars, sendVars, updateVars
<1> QED
  BY <1>2, <1>3, <1>4, <1>5, <1>6, <1>7 DEF FwdNext

LEMMA ConfigInit == FwdInit => ConfigType
<1> SUFFICES ASSUME FwdInit PROVE ConfigType
  OBVIOUS
<1>1. before = liveUrl /\ liveUrl \in AnyUrl
  BY PathInit DEF FwdInit, PathInv, PathType
<1> QED
  BY <1>1 DEF FwdInit, ConfigType

\* Every variable of the path keeps its type: in particular only a worker in
\* its result callback has updated Stats for it.
THEOREM PathTypeCorrect == FwdSpec => []FwdTypeOK
<1>1. TypeOK /\ PathType /\ ResultType /\ ConfigType => FwdTypeOK
  BY DEF PathType, ResultType, Results, ConfigType, FwdTypeOK
<1>2. FwdInit => PathType
  BY PathInit DEF PathInv
<1> QED
  BY <1>1, <1>2, ResultInit, ResultTypeStep, ConfigInit, ConfigTypeStep, PathTypeStep,
     ReceivedInit, ReceivedStep, QueueFacts, PTL DEF FwdSpec

\* While an update is alone between its two assignments, the stored settings are
\* those it will swap for.
RoundInv ==
    /\ posted = {} => /\ Replacing = {}
                      /\ liveUrl = cfg.url \/ (cfg.url = NoUrl /\ liveUrl \in EnvUrls)
    /\ posted # {} => /\ cfg \in posted
                      /\ liveUrl \in IF swapped = {} THEN {before} ELSE swapped
    /\ posted # {} /\ apart => IF Replacing = {} THEN liveUrl = cfg.url
                               ELSE \E u \in Updaters : Replacing = {u} /\ ucfg[u] = cfg

LEMMA RoundStep ==
  ASSUME PathType, RoundInv, [FwdNext]_vars PROVE RoundInv'
<1>1. ASSUME UNCHANGED <<cfg, liveUrl, upc, ucfg, roundVars>> PROVE RoundInv'
  BY <1>1 DEF RoundInv, Replacing, roundVars
<1>2. ASSUME NEW u \in Updaters, Swap(u) PROVE RoundInv'
  <2>1. /\ upc[u] = "replaced" /\ upc' = [upc EXCEPT ![u] = "done"]
        /\ liveUrl' = ucfg[u].url /\ swapped' = swapped \cup {ucfg[u].url}
        /\ UNCHANGED <<cfg, posted, before, apart>>
    BY <1>2 DEF Swap, SwapFor
  <2>2. Replacing' = Replacing \ {u} /\ u \in Replacing
    BY <2>1 DEF Replacing, PathType
  <2>3. posted # {} /\ cfg \in posted
    BY <2>2 DEF RoundInv
  <2>4. apart => Replacing = {u} /\ ucfg[u] = cfg
    BY <2>2, <2>3 DEF RoundInv
  <2> QED
    BY <2>1, <2>2, <2>3, <2>4 DEF RoundInv
<1>3. ASSUME NEW u \in Updaters, NEW c \in Configs, NEW b \in Books, NEW persisted \in BOOLEAN,
             Replace(u, c, b, persisted)
      PROVE  RoundInv'
  <2>1. /\ cfg' = c /\ liveUrl' = liveUrl /\ apart' = (persisted /\ Replacing = {})
    BY <1>3 DEF Replace
  <2>2. CASE Replacing = {}
    <3>1. posted' = {c} /\ swapped' = {} /\ before' = liveUrl
      BY <1>3, <2>2 DEF Replace
    <3>2. apart' => Replacing' = {u} /\ ucfg'[u] = c
      BY <1>3, <2>1, <2>2 DEF Replace, Replacing, PathType
    <3> QED
      BY <2>1, <3>1, <3>2 DEF RoundInv
  <2>3. CASE Replacing # {}
    <3>1. posted' = posted \cup {c} /\ UNCHANGED <<swapped, before>>
      BY <1>3, <2>3 DEF Replace
    <3>2. posted # {} /\ ~apart'
      BY <2>1, <2>3 DEF RoundInv
    <3> QED
      BY <2>1, <3>1, <3>2 DEF RoundInv
  <2> QED
    BY <2>2, <2>3
<1>4. ASSUME NEW w \in Workers,
             \/ StartPost(w) \/ CountResult(w) \/ RecordResult(w)
             \/ \E o \in Outcomes : FinishPost(w, o)
      PROVE  UNCHANGED <<cfg, liveUrl, upc, ucfg, roundVars>>
  BY <1>4 DEF StartPost, CountResult, RecordResult, FinishPost, pathVars, updateVars
<1>5. ASSUME NEW t \in Tasks, ReadConfig(t) \/ ReadForwarder(t) \/ Submit(t)
      PROVE  UNCHANGED <<cfg, liveUrl, upc, ucfg, roundVars>>
  BY <1>5 DEF ReadConfig, ReadForwarder, Submit, pathVars, updateVars
<1>6. ASSUME QueueStep \/ UNCHANGED vars
      PROVE  UNCHANGED <<cfg, liveUrl, upc, ucfg, roundVars>>
  BY <1>6 DEF QueueStep, vars, pathVars, updateVars
<1> QED
  BY <1>1, <1>2, <1>3, <1>4, <1>5, <1>6 DEF FwdNext

\* Whatever updates overlap and whichever of them fail to reach the disk, one of
\* those under way last has the stored settings and one that returned well the
\* live URL; and the two agree again once an update has replaced the settings
\* and swapped the forwarder with no other in between (main.go 596-604).
THEOREM ConfigAgreement == FwdSpec => []ConfigAgrees
<1>1. FwdInit => PathType /\ RoundInv
  <2> SUFFICES ASSUME FwdInit PROVE PathType /\ RoundInv
    OBVIOUS
  <2>1. PathType
    BY PathInit DEF PathInv
  <2>2. /\ liveUrl \in IF Enabled(cfg.url) THEN {cfg.url} ELSE EnvUrls
        /\ posted = {} /\ upc = [u \in Updaters |-> "idle"]
    BY DEF FwdInit
  <2> QED
    BY <2>1, <2>2 DEF RoundInv, Replacing, Enabled
<1>2. RoundInv => ConfigAgrees
  BY DEF RoundInv, ConfigAgrees
<1> QED
  BY <1>1, <1>2, RoundStep, PathTypeStep, PTL DEF FwdSpec
=============================================================================
