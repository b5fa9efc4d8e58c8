----------------------------- MODULE IngestProofs -----------------------------
(***************************************************************************)
(* TLAPS proofs about what happens to an event.                             *)
(*                                                                          *)
(* First the pipeline (Ingest): types, that every decision is carried out,  *)
(* that the statistics match the event file, that the stream serves each    *)
(* client alone, and that the pipeline uses its queue as ForwardContract    *)
(* says; for every number of events ingested at a time, of clients and of   *)
(* workers, and every channel and queue capacity.                           *)
(*                                                                          *)
(* Then what is made of one event (EventPath): for every line or event that *)
(* may arrive, every content of the source store, and whatever words lie in *)
(* others, with the tables as they are in the code.                         *)
(***************************************************************************)
EXTENDS Ingest, EventPath, FiniteSetTheorems, ListTheorems, TLAPS

-----------------------------------------------------------------------------
(* The plan of calls.  They are made in one order, which a rank gives.      *)

Rank(call) == CASE call = "AddDecision" -> 1
                [] call = "Append"      -> 2
                [] call = "AddStored"   -> 3
                [] call = "Publish"     -> 4
                [] call = "AddDropped"  -> 5
                [] call = "Enqueue"     -> 6

Ranked(s, lo, hi) ==
    /\ s \in Seq(Calls)
    /\ \A i \in DOMAIN s : lo <= Rank(s[i]) /\ Rank(s[i]) <= hi
    /\ \A i, j \in DOMAIN s : i < j => Rank(s[i]) < Rank(s[j])

LEMMA RankIs ==
  /\ Rank("AddDecision") = 1 /\ Rank("Append") = 2 /\ Rank("AddStored") = 3
  /\ Rank("Publish") = 4 /\ Rank("AddDropped") = 5 /\ Rank("Enqueue") = 6
  /\ "AddDecision" \in Calls /\ "Append" \in Calls /\ "AddStored" \in Calls
  /\ "Publish" \in Calls /\ "AddDropped" \in Calls /\ "Enqueue" \in Calls
BY DEF Calls, Rank

LEMMA RankType == \A call \in Calls : Rank(call) \in 1 .. 6
BY DEF Calls, Rank

LEMMA RankedWhen ==
  ASSUME NEW b \in BOOLEAN, NEW call \in Calls
  PROVE  /\ Ranked(When(b, <<call>>), Rank(call), Rank(call))
         /\ ToSet(When(b, <<call>>)) = IF b THEN {call} ELSE {}
<1>1. CASE b
  BY <1>1, RankType DEF When, Ranked, ToSet
<1>2. CASE ~b
  BY <1>2 DEF When, Ranked, ToSet
<1> QED
  BY <1>1, <1>2

LEMMA RankedConcat ==
  ASSUME NEW s, NEW t, NEW lo \in Int, NEW mid \in Int, NEW next \in Int, NEW hi \in Int,
         lo <= mid, mid < next, next <= hi, Ranked(s, lo, mid), Ranked(t, next, hi)
  PROVE  /\ Ranked(s \o t, lo, hi)
         /\ ToSet(s \o t) = ToSet(s) \cup ToSet(t)
<1>1. s \in Seq(Calls) /\ t \in Seq(Calls)
  BY DEF Ranked
<1>2. /\ s \o t \in Seq(Calls) /\ Len(s \o t) = Len(s) + Len(t)
      /\ \A i \in 1 .. Len(s) + Len(t) :
            (s \o t)[i] = IF i <= Len(s) THEN s[i] ELSE t[i - Len(s)]
  BY <1>1
<1> DEFINE u == s \o t
<1> HIDE DEF u
<1>3. /\ u \in Seq(Calls) /\ DOMAIN u = 1 .. Len(s) + Len(t)
      /\ DOMAIN s = 1 .. Len(s) /\ DOMAIN t = 1 .. Len(t) /\ Len(s) \in Nat /\ Len(t) \in Nat
      /\ \A i \in DOMAIN u : u[i] = IF i <= Len(s) THEN s[i] ELSE t[i - Len(s)]
  BY <1>1, <1>2 DEF u
<1>4. /\ \A i \in DOMAIN s : Rank(s[i]) \in Int /\ lo <= Rank(s[i]) /\ Rank(s[i]) <= mid
      /\ \A i \in DOMAIN t : Rank(t[i]) \in Int /\ next <= Rank(t[i]) /\ Rank(t[i]) <= hi
      /\ \A i, j \in DOMAIN s : i < j => Rank(s[i]) < Rank(s[j])
      /\ \A i, j \in DOMAIN t : i < j => Rank(t[i]) < Rank(t[j])
  BY <1>1, <1>3, RankType DEF Ranked
<1>5. ToSet(u) = ToSet(s) \cup ToSet(t)
  <2>1. ASSUME NEW i \in DOMAIN u PROVE u[i] \in ToSet(s) \cup ToSet(t)
    <3>1. CASE i <= Len(s)
      BY <1>3, <3>1 DEF ToSet
    <3>2. CASE ~(i <= Len(s))
      <4>1. i - Len(s) \in DOMAIN t
        BY <1>3, <3>2
      <4> QED
        BY <1>3, <3>2, <4>1 DEF ToSet
    <3> QED
      BY <3>1, <3>2
  <2>2. ASSUME NEW i \in DOMAIN s PROVE s[i] \in ToSet(u)
    BY <1>3 DEF ToSet
  <2>3. ASSUME NEW i \in DOMAIN t PROVE t[i] \in ToSet(u)
    <3>1. i + Len(s) \in DOMAIN u /\ u[i + Len(s)] = t[i]
      BY <1>3
    <3> QED
      BY <3>1 DEF ToSet
  <2> QED
    BY <2>1, <2>2, <2>3 DEF ToSet
<1>6. \A i \in DOMAIN u : lo <= Rank(u[i]) /\ Rank(u[i]) <= hi
  <2> SUFFICES ASSUME NEW i \in DOMAIN u PROVE lo <= Rank(u[i]) /\ Rank(u[i]) <= hi
    OBVIOUS
  <2>1. CASE i <= Len(s)
    BY <1>3, <1>4, <2>1
  <2>2. CASE ~(i <= Len(s))
    <3>1. i - Len(s) \in DOMAIN t /\ u[i] = t[i - Len(s)]
      BY <1>3, <2>2
    <3> QED
      BY <1>4, <3>1
  <2> QED
    BY <2>1, <2>2
<1>7. \A i, j \in DOMAIN u : i < j => Rank(u[i]) < Rank(u[j])
  <2> SUFFICES ASSUME NEW i \in DOMAIN u, NEW j \in DOMAIN u, i < j
               PROVE  Rank(u[i]) < Rank(u[j])
    OBVIOUS
  <2>1. CASE j <= Len(s)
    BY <1>3, <1>4, <2>1
  <2>2. CASE i <= Len(s) /\ ~(j <= Len(s))
    <3>1. j - Len(s) \in DOMAIN t /\ u[j] = t[j - Len(s)] /\ u[i] = s[i] /\ i \in DOMAIN s
      BY <1>3, <2>2
    <3> QED
      BY <1>4, <3>1
  <2>3. CASE ~(i <= Len(s))
    <3>1. /\ j - Len(s) \in DOMAIN t /\ u[j] = t[j - Len(s)]
          /\ i - Len(s) \in DOMAIN t /\ u[i] = t[i - Len(s)] /\ i - Len(s) < j - Len(s)
      BY <1>3, <2>3
    <3> QED
      BY <1>4, <3>1
  <2> QED
    BY <2>1, <2>2, <2>3
<1> QED
  BY <1>3, <1>5, <1>6, <1>7 DEF u, Ranked

\* What a decision leads to, as a set; and in order.
LEMMA PlanCalls ==
  ASSUME NEW d \in EngineDecisions, NEW w \in BOOLEAN
  PROVE  /\ Ranked(Plan(d, w), 1, 6)
         /\ ToSet(Plan(d, w)) =
               (IF ~d.drop THEN {"AddDecision"} ELSE {})
               \cup (IF d.store THEN {"Append"} ELSE {})
               \cup (IF ~d.drop /\ d.store THEN {"AddStored"} ELSE {})
               \cup (IF d.store /\ d.show THEN {"Publish"} ELSE {})
               \cup (IF d.drop THEN {"AddDropped"} ELSE {})
               \cup (IF w THEN {"Enqueue"} ELSE {})
<1> DEFINE s1 == When(~d.drop, <<"AddDecision">>)
           s2 == When(d.store, <<"Append">>)
           s3 == When(~d.drop /\ d.store, <<"AddStored">>)
           s4 == When(d.store /\ d.show, <<"Publish">>)
           s5 == When(d.drop, <<"AddDropped">>)
           s6 == When(w, <<"Enqueue">>)
<1>0. d.drop \in BOOLEAN /\ d.store \in BOOLEAN /\ d.show \in BOOLEAN
  BY DEF EngineDecisions
<1>1. Ranked(s1, Rank("AddDecision"), Rank("AddDecision")) /\ ToSet(s1) = (IF ~d.drop THEN {"AddDecision"} ELSE {})
  BY <1>0, RankIs, RankedWhen, Zenon
<1>2. Ranked(s2, Rank("Append"), Rank("Append")) /\ ToSet(s2) = (IF d.store THEN {"Append"} ELSE {})
  BY <1>0, RankIs, RankedWhen, Zenon
<1>3. Ranked(s3, Rank("AddStored"), Rank("AddStored")) /\ ToSet(s3) = (IF ~d.drop /\ d.store THEN {"AddStored"} ELSE {})
  BY <1>0, RankIs, RankedWhen, Zenon
<1>4. Ranked(s4, Rank("Publish"), Rank("Publish")) /\ ToSet(s4) = (IF d.store /\ d.show THEN {"Publish"} ELSE {})
  BY <1>0, RankIs, RankedWhen, Zenon
<1>5. Ranked(s5, Rank("AddDropped"), Rank("AddDropped")) /\ ToSet(s5) = (IF d.drop THEN {"AddDropped"} ELSE {})
  BY <1>0, RankIs, RankedWhen, Zenon
<1>6. Ranked(s6, Rank("Enqueue"), Rank("Enqueue")) /\ ToSet(s6) = (IF w THEN {"Enqueue"} ELSE {})
  BY <1>0, RankIs, RankedWhen, Zenon
<1>7. Plan(d, w) = s1 \o s2 \o s3 \o s4 \o s5 \o s6
  BY DEF Plan
<1> HIDE DEF s1, s2, s3, s4, s5, s6
<1>70. /\ Ranked(s1, 1, 1) /\ Ranked(s2, 2, 2) /\ Ranked(s3, 3, 3)
       /\ Ranked(s4, 4, 4) /\ Ranked(s5, 5, 5) /\ Ranked(s6, 6, 6)
  BY <1>1, <1>2, <1>3, <1>4, <1>5, <1>6, RankIs
<1>71. /\ 1 \in Int /\ 2 \in Int /\ 3 \in Int /\ 4 \in Int /\ 5 \in Int /\ 6 \in Int
       /\ 1 <= 1 /\ 2 <= 2 /\ 3 <= 3 /\ 4 <= 4 /\ 5 <= 5 /\ 6 <= 6
       /\ 1 <= 2 /\ 1 <= 3 /\ 1 <= 4 /\ 1 <= 5 /\ 1 < 2 /\ 2 < 3 /\ 3 < 4 /\ 4 < 5 /\ 5 < 6
  OBVIOUS
<1>8. Ranked(s1 \o s2, 1, 2) /\ ToSet(s1 \o s2) = ToSet(s1) \cup ToSet(s2)
  BY <1>70, <1>71, RankedConcat, Zenon
<1>9. /\ Ranked((s1 \o s2) \o s3, 1, 3)
      /\ ToSet((s1 \o s2) \o s3) = ToSet(s1 \o s2) \cup ToSet(s3)
  BY <1>70, <1>71, <1>8, RankedConcat, Zenon
<1>10. /\ Ranked(((s1 \o s2) \o s3) \o s4, 1, 4)
       /\ ToSet(((s1 \o s2) \o s3) \o s4) = ToSet((s1 \o s2) \o s3) \cup ToSet(s4)
  BY <1>70, <1>71, <1>9, RankedConcat, Zenon
<1>11. /\ Ranked((((s1 \o s2) \o s3) \o s4) \o s5, 1, 5)
       /\ ToSet((((s1 \o s2) \o s3) \o s4) \o s5) = ToSet(((s1 \o s2) \o s3) \o s4) \cup ToSet(s5)
  BY <1>70, <1>71, <1>10, RankedConcat, Zenon
<1>12. /\ Ranked(((((s1 \o s2) \o s3) \o s4) \o s5) \o s6, 1, 6)
       /\ ToSet(((((s1 \o s2) \o s3) \o s4) \o s5) \o s6)
            = ToSet((((s1 \o s2) \o s3) \o s4) \o s5) \cup ToSet(s6)
  BY <1>70, <1>71, <1>11, RankedConcat, Zenon
<1> QED
  BY <1>1, <1>2, <1>3, <1>4, <1>5, <1>6, <1>7, <1>8, <1>9, <1>10, <1>11, <1>12

\* What is left after a failed Append.
LEMMA RestCalls ==
  ASSUME NEW d \in EngineDecisions, NEW w \in BOOLEAN
  PROVE  LET rest == When(d.drop, <<"AddDropped">>) \o When(w, <<"Enqueue">>)
         IN  /\ Ranked(rest, 1, 6)
             /\ ToSet(rest) = (IF d.drop THEN {"AddDropped"} ELSE {})
                              \cup (IF w THEN {"Enqueue"} ELSE {})
<1> DEFINE s5 == When(d.drop, <<"AddDropped">>)
           s6 == When(w, <<"Enqueue">>)
<1>0. d.drop \in BOOLEAN
  BY DEF EngineDecisions
<1>1. Ranked(s5, Rank("AddDropped"), Rank("AddDropped")) /\ ToSet(s5) = (IF d.drop THEN {"AddDropped"} ELSE {})
  BY <1>0, RankIs, RankedWhen, Zenon
<1>2. Ranked(s6, Rank("Enqueue"), Rank("Enqueue")) /\ ToSet(s6) = (IF w THEN {"Enqueue"} ELSE {})
  BY <1>0, RankIs, RankedWhen, Zenon
<1> HIDE DEF s5, s6
<1>3. /\ Ranked(s5, 5, 5) /\ Ranked(s6, 6, 6) /\ 5 \in Int /\ 6 \in Int
      /\ 5 <= 5 /\ 6 <= 6 /\ 5 < 6
  BY <1>1, <1>2, RankIs
<1>4. Ranked(s5 \o s6, 5, 6) /\ ToSet(s5 \o s6) = ToSet(s5) \cup ToSet(s6)
  BY <1>3, RankedConcat, Zenon
<1>5. Ranked(s5 \o s6, 1, 6)
  <2>1. \A call \in Calls : 5 <= Rank(call) => 1 <= Rank(call)
    BY RankType
  <2> QED
    BY <1>4, <2>1 DEF Ranked
<1> QED
  BY <1>1, <1>2, <1>4, <1>5 DEF s5, s6

\* Making the next call takes it off the list, and the others come after it.
LEMMA HeadCall ==
  ASSUME NEW s, Ranked(s, 1, 6), s # <<>>
  PROVE  /\ Ranked(Tail(s), 1, 6) /\ Head(s) \in ToSet(s)
         /\ ToSet(Tail(s)) = ToSet(s) \ {Head(s)}
         /\ \A call \in ToSet(Tail(s)) : Rank(Head(s)) < Rank(call)
<1>1. /\ s \in Seq(Calls) /\ Len(s) \in Nat \ {0} /\ DOMAIN s = 1 .. Len(s)
      /\ Head(s) = s[1] /\ Tail(s) \in Seq(Calls) /\ DOMAIN Tail(s) = 1 .. Len(s) - 1
      /\ \A i \in 1 .. Len(s) - 1 : Tail(s)[i] = s[i + 1]
  BY DEF Ranked
<1> DEFINE t == Tail(s)
<1> HIDE DEF t
<1>2. /\ t \in Seq(Calls) /\ DOMAIN t = 1 .. Len(s) - 1
      /\ \A i \in DOMAIN t : i + 1 \in DOMAIN s /\ t[i] = s[i + 1]
  BY <1>1 DEF t
<1>3. /\ \A i \in DOMAIN s : Rank(s[i]) \in Int /\ 1 <= Rank(s[i]) /\ Rank(s[i]) <= 6
      /\ \A i, j \in DOMAIN s : i < j => Rank(s[i]) < Rank(s[j])
  BY <1>1, RankType DEF Ranked
<1>4. Ranked(t, 1, 6)
  <2>1. ASSUME NEW i \in DOMAIN t, NEW j \in DOMAIN t, i < j PROVE Rank(t[i]) < Rank(t[j])
    <3>1. i + 1 < j + 1 /\ i + 1 \in DOMAIN s /\ j + 1 \in DOMAIN s
      BY <1>2, <2>1
    <3> QED
      BY <1>2, <1>3, <3>1
  <2> QED
    BY <1>2, <1>3, <2>1 DEF Ranked
<1>5. \A i \in DOMAIN t : Rank(s[1]) < Rank(t[i])
  BY <1>1, <1>2, <1>3
<1>6. ToSet(t) = ToSet(s) \ {s[1]}
  <2>1. ASSUME NEW i \in DOMAIN t PROVE t[i] \in ToSet(s) /\ t[i] # s[1]
    <3>1. Rank(s[1]) \in Int
      BY <1>1, <1>3
    <3> QED
      BY <1>2, <1>5, <3>1 DEF ToSet
  <2>2. ASSUME NEW i \in DOMAIN s, s[i] # s[1] PROVE s[i] \in ToSet(t)
    <3>1. i - 1 \in DOMAIN t /\ (i - 1) + 1 = i
      BY <1>1, <1>2, <2>2
    <3>2. t[i - 1] = s[i]
      BY <1>2, <3>1
    <3> QED
      BY <3>1, <3>2 DEF ToSet
  <2> QED
    BY <2>1, <2>2 DEF ToSet
<1> QED
  <2>1. Head(s) \in ToSet(s)
    BY <1>1 DEF ToSet
  <2>2. \A call \in ToSet(t) : Rank(s[1]) < Rank(call)
    BY <1>5 DEF ToSet
  <2> QED
    BY <1>1, <1>4, <1>6, <2>1, <2>2 DEF t

-----------------------------------------------------------------------------
(* The inductive invariant.                                                 *)

PipeType ==
    /\ pc \in [Events -> {"new", "evaluated", "running"}]
    /\ dec \in [Events -> EngineDecisions] /\ will \in [Events -> BOOLEAN]
    /\ todo \in [Events -> Seq(Calls)]
    /\ saw \in [Events -> BOOLEAN] /\ fwdOn \in BOOLEAN

StoreType ==
    /\ stats \in [total : Nat, stored : Nat, dropped : Nat, sampled : Nat, by : [Labels -> Nat]]
    /\ file \in Seq(Events) /\ lost \subseteq Events

StreamType ==
    /\ hub \subseteq Clients
    /\ chan \in [Clients -> Seq(Events)] /\ got \in [Clients -> Seq(Events)]
    /\ missed \in [Clients -> SUBSET Events]
    /\ \A c \in Clients : Len(chan[c]) <= ChanSize
    /\ pubLeft \in [Events -> SUBSET Clients] /\ pubGoal \in [Events -> SUBSET Clients]
    /\ shown \subseteq Events

QueueType ==
    /\ lane \in Seq(Events) /\ status \in [Events -> Queue!Statuses]
    /\ \A i \in DOMAIN lane : status[lane[i]] # "new"

IngestType == PipeType /\ StoreType /\ StreamType /\ QueueType

\* The calls an event has still to make.
Due(e) == ToSet(todo[e])

\* Where an event stands: what it has still to make is what its decision asks
\* for and has not had yet.
EventInv(e) ==
    /\ pc[e] # "running" => /\ todo[e] = <<>> /\ e \notin ToSet(file) \cup lost
                            /\ pubLeft[e] = {} /\ pubGoal[e] = {} /\ e \notin shown
    /\ pc[e] = "running" => (will[e] <=> dec[e].forward /\ saw[e])
    /\ Ranked(todo[e], 1, 6)
    /\ "Enqueue" \in Due(e) => will[e]
    /\ status[e] # "new" <=> (pc[e] = "running" /\ will[e] /\ "Enqueue" \notin Due(e))
    /\ "Append" \in Due(e) <=> (pc[e] = "running" /\ dec[e].store /\ e \notin ToSet(file) \cup lost)
    /\ e \in ToSet(file) \cup lost => dec[e].store
    /\ e \in lost => e \notin ToSet(file) /\ "AddStored" \notin Due(e)
    /\ "Append" \in Due(e) => /\ ~dec[e].drop => "AddStored" \in Due(e)
                              /\ dec[e].drop => "AddDropped" \in Due(e)
                              /\ will[e] => "Enqueue" \in Due(e)
                              /\ dec[e].show => "Publish" \in Due(e)
    /\ "AddStored" \in Due(e) => dec[e].store /\ ~dec[e].drop
    /\ "AddDecision" \in Due(e) => ~dec[e].drop
    /\ "AddDropped" \in Due(e) => dec[e].drop
    /\ "Publish" \in Due(e) => /\ pubGoal[e] = {} /\ pubLeft[e] = {}
                               /\ e \notin shown /\ e \notin lost
                               /\ dec[e].store /\ dec[e].show
    /\ e \in shown => dec[e].show /\ e \in ToSet(file)
    /\ e \in ToSet(file) /\ dec[e].show => "Publish" \in Due(e) \/ e \in shown

EventsInv == \A e \in Events : EventInv(e)

CountedAt(l) == {e \in Events : /\ pc[e] = "running" /\ Label(dec[e], will[e]) = l
                                /\ "AddDecision" \notin Due(e) /\ "AddDropped" \notin Due(e)}
StoredNow == {e \in ToSet(file) : ~dec[e].drop /\ "AddStored" \notin Due(e)}

StatsInv ==
    /\ \A l \in Labels : IsFiniteSet(CountedAt(l)) /\ stats.by[l] = Cardinality(CountedAt(l))
    /\ IsFiniteSet(ToSet(file)) /\ stats.stored = Cardinality(StoredNow)
    /\ stats.total = stats.stored + stats.dropped
    /\ stats.by["drop"] = stats.dropped

Sent(c) == got[c] \o chan[c]

\* What a client was sent or missed is what was published while it was there
\* and has been offered to it, each event once.
StreamInv ==
    /\ \A e \in Events : pubLeft[e] \subseteq pubGoal[e] /\ pubLeft[e] \subseteq hub
    /\ \A c \in Clients :
          /\ \A i, j \in DOMAIN Sent(c) : Sent(c)[i] = Sent(c)[j] => i = j
          /\ \A e \in ToSet(Sent(c)) : e \notin missed[c]
          /\ \A e \in Events : e \in ToSet(Sent(c)) \cup missed[c]
                                 <=> c \in pubGoal[e] \ pubLeft[e]

-----------------------------------------------------------------------------
(* Types.                                                                   *)

LEMMA ConstantTypes ==
  /\ Decisions \subseteq EngineDecisions
  /\ ChanSize \in Nat \ {0} /\ QueueSize \in Nat \ {0} /\ Workers \in Nat \ {0}
  /\ \A d \in EngineDecisions : /\ d.store \in BOOLEAN /\ d.forward \in BOOLEAN
                                /\ d.drop \in BOOLEAN /\ d.show \in BOOLEAN
                                /\ d.sampled \in BOOLEAN
                                /\ d.drop => ~d.forward
BY IngestAssumption DEF EngineDecisions

LEMMA LabelType ==
  ASSUME NEW d \in EngineDecisions, NEW w \in BOOLEAN
  PROVE  Label(d, w) \in Labels /\ (Label(d, w) = "drop" <=> d.drop)
<1>1. CASE d.drop
  BY <1>1 DEF Label, Labels
<1>2. CASE ~d.drop
  BY <1>2 DEF Label, Labels
<1> QED
  BY <1>1, <1>2

\* What a call does to the list of calls.
LEMMA MakesCall ==
  ASSUME NEW e \in Events, PipeType, Ranked(todo[e], 1, 6), NEW call, Makes(e, call)
  PROVE  /\ call \in Due(e) /\ call \in Calls
         /\ Ranked(todo'[e], 1, 6) /\ Due(e)' = Due(e) \ {call}
         /\ \A x \in Due(e)' : Rank(call) < Rank(x)
         /\ todo' \in [Events -> Seq(Calls)]
         /\ \A x \in Events : x # e => todo'[x] = todo[x]
         /\ pubLeft[e] = {} /\ UNCHANGED <<pc, dec, will, saw, fwdOn>>
<1>1. /\ todo[e] # <<>> /\ Head(todo[e]) = call /\ pubLeft[e] = {}
      /\ todo' = [todo EXCEPT ![e] = Tail(@)] /\ UNCHANGED <<pc, dec, will, saw, fwdOn>>
  BY DEF Makes
<1>2. todo'[e] = Tail(todo[e]) /\ \A x \in Events : x # e => todo'[x] = todo[x]
  BY <1>1 DEF PipeType
<1>3. /\ Ranked(Tail(todo[e]), 1, 6) /\ call \in ToSet(todo[e])
      /\ ToSet(Tail(todo[e])) = ToSet(todo[e]) \ {call}
      /\ \A x \in ToSet(Tail(todo[e])) : Rank(call) < Rank(x)
  BY <1>1, HeadCall
<1>4. todo[e] \in Seq(Calls) /\ Tail(todo[e]) \in Seq(Calls)
  BY <1>1, <1>3 DEF PipeType, Ranked
<1>5. call \in Calls
  BY <1>3, <1>4 DEF ToSet
<1>6. todo' \in [Events -> Seq(Calls)]
  BY <1>1, <1>4 DEF PipeType
<1> QED
  BY <1>1, <1>2, <1>3, <1>5, <1>6 DEF Due

\* The calls that the decision leads to, set at once.
LEMMA ReadsDecision ==
  ASSUME NEW e \in Events, PipeType, ReadForwarding(e)
  PROVE  /\ pc[e] = "evaluated" /\ pc' = [pc EXCEPT ![e] = "running"]
         /\ \E w \in BOOLEAN : /\ w => ~dec[e].drop
                               /\ w <=> dec[e].forward /\ fwdOn
                               /\ saw' = [saw EXCEPT ![e] = fwdOn]
                               /\ will' = [will EXCEPT ![e] = w]
                               /\ todo' = [todo EXCEPT ![e] = Plan(dec[e], w)]
         /\ UNCHANGED <<dec, fwdOn, stats, storeVars, streamVars, queueVars>>
<1> DEFINE w == ~dec[e].drop /\ dec[e].forward /\ fwdOn
<1>1. w \in BOOLEAN /\ (w => ~dec[e].drop) /\ (w <=> dec[e].forward /\ fwdOn)
  <2>1. dec[e] \in EngineDecisions
    BY DEF PipeType
  <2>2. dec[e].drop => ~dec[e].forward
    BY <2>1, ConstantTypes, Zenon
  <2> QED
    BY <2>2, Zenon
<1>2. will' = [will EXCEPT ![e] = w] /\ todo' = [todo EXCEPT ![e] = Plan(dec[e], w)]
      /\ saw' = [saw EXCEPT ![e] = fwdOn]
  BY Zenon DEF ReadForwarding
<1>3. \E v \in BOOLEAN : /\ v => ~dec[e].drop
                         /\ v <=> dec[e].forward /\ fwdOn
                         /\ saw' = [saw EXCEPT ![e] = fwdOn]
                         /\ will' = [will EXCEPT ![e] = v]
                         /\ todo' = [todo EXCEPT ![e] = Plan(dec[e], v)]
  BY <1>1, <1>2, Zenon
<1> QED
  BY <1>3, Zenon DEF ReadForwarding

\* No other call is left after a failed Append than the decision asks for.
LEMMA FailsCall ==
  ASSUME NEW e \in Events, PipeType, Ranked(todo[e], 1, 6), AppendFails(e)
  PROVE  /\ "Append" \in Due(e) /\ "AddDecision" \notin Due(e)
         /\ Ranked(todo'[e], 1, 6) /\ todo' \in [Events -> Seq(Calls)]
         /\ Due(e)' = (IF dec[e].drop THEN {"AddDropped"} ELSE {})
                      \cup (IF will[e] THEN {"Enqueue"} ELSE {})
         /\ \A x \in Events : x # e => todo'[x] = todo[x]
         /\ lost' = lost \cup {e}
         /\ UNCHANGED <<pc, dec, will, saw, fwdOn, file, stats, streamVars, queueVars>>
<1> DEFINE rest == When(dec[e].drop, <<"AddDropped">>) \o When(will[e], <<"Enqueue">>)
<1>1. /\ todo[e] # <<>> /\ Head(todo[e]) = "Append"
      /\ todo' = [todo EXCEPT ![e] = rest] /\ lost' = lost \cup {e}
      /\ UNCHANGED <<pc, dec, will, saw, fwdOn, file, stats, streamVars, queueVars>>
  BY DEF AppendFails
<1>2. dec[e] \in EngineDecisions /\ will[e] \in BOOLEAN
  BY DEF PipeType
<1>3. /\ Ranked(rest, 1, 6)
      /\ ToSet(rest) = (IF dec[e].drop THEN {"AddDropped"} ELSE {})
                       \cup (IF will[e] THEN {"Enqueue"} ELSE {})
  BY <1>2, RestCalls
<1> HIDE DEF rest
<1>4. todo'[e] = rest /\ \A x \in Events : x # e => todo'[x] = todo[x]
  BY <1>1 DEF PipeType
<1>5. todo' \in [Events -> Seq(Calls)]
  BY <1>1, <1>3 DEF PipeType, Ranked
<1>6. /\ "Append" \in ToSet(todo[e]) /\ ToSet(Tail(todo[e])) = ToSet(todo[e]) \ {"Append"}
      /\ \A x \in ToSet(Tail(todo[e])) : Rank("Append") < Rank(x)
  BY <1>1, HeadCall
<1>7. "AddDecision" \notin ToSet(todo[e])
  BY <1>6, RankIs
<1> QED
  BY <1>1, <1>3, <1>4, <1>5, <1>6, <1>7 DEF Due

LEMMA PipeTypeStep ==
  ASSUME PipeType, EventsInv, [Next]_vars PROVE PipeType'
<1>0. \A e \in Events : Ranked(todo[e], 1, 6)
  BY DEF EventsInv, EventInv
<1>1. ASSUME NEW e \in Events, NEW call, Makes(e, call) PROVE PipeType'
  BY <1>0, <1>1, MakesCall DEF PipeType
<1>2. ASSUME NEW e \in Events, NEW d \in Decisions, Evaluate(e, d) PROVE PipeType'
  BY <1>2, ConstantTypes DEF Evaluate, PipeType
<1>3. ASSUME NEW e \in Events, ReadForwarding(e) PROVE PipeType'
  <2>1. PICK w \in BOOLEAN : /\ will' = [will EXCEPT ![e] = w] /\ saw' = [saw EXCEPT ![e] = fwdOn]
                             /\ todo' = [todo EXCEPT ![e] = Plan(dec[e], w)]
    BY <1>3, ReadsDecision
  <2>2. Plan(dec[e], w) \in Seq(Calls)
    BY PlanCalls DEF PipeType, Ranked
  <2> QED
    BY <1>3, <2>1, <2>2, ReadsDecision DEF PipeType
<1>4. ASSUME NEW e \in Events, AppendFails(e) PROVE PipeType'
  BY <1>0, <1>4, FailsCall DEF PipeType
<1>5. ASSUME UNCHANGED <<pipeVars, fwdOn>> PROVE PipeType'
  BY <1>5 DEF PipeType, pipeVars
<1>6. CASE SwitchForwarding
  BY <1>6 DEF SwitchForwarding, PipeType, pipeVars
<1>7. ASSUME NEW e \in Events, IngestStep(e) PROVE PipeType'
  BY <1>1, <1>3, <1>4, <1>5, <1>7 DEF IngestStep, AddDecision, AddDropped, AddStored, AppendOK,
     PublishBegin, Enqueue, Offer
<1>8. ASSUME NEW c \in Clients, Subscribe(c) \/ Deliver(c) \/ Unsubscribe(c) PROVE PipeType'
  BY <1>5, <1>8 DEF Subscribe, Deliver, Unsubscribe
<1>9. CASE QueueStep
  BY <1>5, <1>9 DEF QueueStep
<1> QED
  BY <1>2, <1>5, <1>6, <1>7, <1>8, <1>9 DEF Next, vars

\* The statistics are a record, which a step changes in several fields.
StatsRecord == [total : Nat, stored : Nat, dropped : Nat, sampled : Nat, by : [Labels -> Nat]]

LEMMA StatsField ==
  ASSUME NEW s \in StatsRecord, NEW n \in Nat, NEW l \in Labels
  PROVE  /\ [s EXCEPT !.total = n] \in StatsRecord /\ [s EXCEPT !.stored = n] \in StatsRecord
         /\ [s EXCEPT !.dropped = n] \in StatsRecord /\ [s EXCEPT !.sampled = n] \in StatsRecord
         /\ [s EXCEPT !.by[l] = n] \in StatsRecord
BY DEF StatsRecord

LEMMA StatsFields ==
  ASSUME NEW s \in StatsRecord, NEW y \in Nat, NEW l \in Labels
  PROVE  /\ [s EXCEPT !.by[l] = @ + 1, !.sampled = y] \in StatsRecord
         /\ [s EXCEPT !.total = @ + 1, !.stored = @ + 1] \in StatsRecord
         /\ [s EXCEPT !.total = @ + 1, !.dropped = @ + 1, !.by[l] = @ + 1, !.sampled = y]
               \in StatsRecord
<1>1. /\ s.total + 1 \in Nat /\ s.stored + 1 \in Nat /\ s.dropped + 1 \in Nat
      /\ s.by[l] + 1 \in Nat
  BY DEF StatsRecord
<1>2. [s EXCEPT !.by[l] = @ + 1, !.sampled = y]
        = [[s EXCEPT !.by[l] = s.by[l] + 1] EXCEPT !.sampled = y]
  BY DEF StatsRecord
<1>3. [s EXCEPT !.total = @ + 1, !.stored = @ + 1]
        = [[s EXCEPT !.total = s.total + 1] EXCEPT !.stored = s.stored + 1]
  BY DEF StatsRecord
<1> DEFINE t == [s EXCEPT !.total = s.total + 1]
           u == [t EXCEPT !.dropped = s.dropped + 1]
           v == [u EXCEPT !.by[l] = s.by[l] + 1]
<1>4. [s EXCEPT !.total = @ + 1, !.dropped = @ + 1, !.by[l] = @ + 1, !.sampled = y]
        = [v EXCEPT !.sampled = y]
  BY DEF StatsRecord
<1>5. [s EXCEPT !.by[l] = s.by[l] + 1] \in StatsRecord /\ t \in StatsRecord
  BY <1>1, StatsField
<1> HIDE DEF t, u, v
<1>6. u \in StatsRecord
  BY <1>1, <1>5, StatsField DEF u
<1>7. v \in StatsRecord
  BY <1>1, <1>6, StatsField DEF v
<1> QED
  BY <1>1, <1>2, <1>3, <1>4, <1>5, <1>7, StatsField DEF t

LEMMA StoreTypeStep ==
  ASSUME PipeType, EventsInv, StoreType, [Next]_vars PROVE StoreType'
<1>1. ASSUME UNCHANGED <<stats, storeVars>> PROVE StoreType'
  BY <1>1 DEF StoreType, storeVars
<1>2. ASSUME NEW e \in Events, IngestStep(e) PROVE StoreType'
  <2>1. stats \in StatsRecord /\ stats.sampled \in Nat /\ "drop" \in Labels
    BY DEF StoreType, StatsRecord, Labels
  <2>2. (IF dec[e].sampled THEN stats.sampled + 1 ELSE stats.sampled) \in Nat
    BY <2>1
  <2>3. CASE AddDecision(e)
    <3>1. Label(dec[e], will[e]) \in Labels
      BY DEF Label, Labels
    <3>2. stats' = [stats EXCEPT !.by[Label(dec[e], will[e])] = @ + 1,
                                 !.sampled = IF dec[e].sampled THEN @ + 1 ELSE @]
      BY <2>3 DEF AddDecision
    <3>3. stats' \in StatsRecord
      BY <2>1, <2>2, <3>1, <3>2, StatsFields
    <3> QED
      BY <2>3, <3>3 DEF AddDecision, StoreType, StatsRecord, storeVars
  <2>4. CASE AddDropped(e)
    <3>1. stats' = [stats EXCEPT !.total = @ + 1, !.dropped = @ + 1, !.by["drop"] = @ + 1,
                                 !.sampled = IF dec[e].sampled THEN @ + 1 ELSE @]
      BY <2>4 DEF AddDropped
    <3>2. stats' \in StatsRecord
      BY <2>1, <2>2, <3>1, StatsFields
    <3> QED
      BY <2>4, <3>2 DEF AddDropped, StoreType, StatsRecord, storeVars
  <2>5. CASE AddStored(e)
    <3>1. stats' = [stats EXCEPT !.total = @ + 1, !.stored = @ + 1]
      BY <2>5 DEF AddStored
    <3>2. stats' \in StatsRecord
      BY <2>1, <3>1, StatsFields
    <3> QED
      BY <2>5, <3>2 DEF AddStored, StoreType, StatsRecord, storeVars
  <2>6. CASE AppendOK(e)
    BY <2>6 DEF AppendOK, StoreType
  <2>7. CASE AppendFails(e)
    BY <2>7 DEF AppendFails, StoreType
  <2> QED
    BY <1>1, <1>2, <2>3, <2>4, <2>5, <2>6, <2>7 DEF IngestStep, ReadForwarding, PublishBegin,
       Enqueue, Offer
<1>3. ASSUME NEW e \in Events, NEW d \in Decisions, Evaluate(e, d) PROVE StoreType'
  BY <1>1, <1>3 DEF Evaluate
<1>4. ASSUME NEW c \in Clients, Subscribe(c) \/ Deliver(c) \/ Unsubscribe(c) PROVE StoreType'
  BY <1>1, <1>4 DEF Subscribe, Deliver, Unsubscribe
<1>5. CASE SwitchForwarding \/ QueueStep \/ UNCHANGED vars
  BY <1>1, <1>5 DEF SwitchForwarding, QueueStep, vars
<1> QED
  BY <1>2, <1>3, <1>4, <1>5 DEF Next

\* The stream's variables, by the actions that change them.
LEMMA StreamCases ==
  ASSUME [Next]_vars
  PROVE  \/ UNCHANGED streamVars
         \/ \E e \in Events : PublishBegin(e) \/ \E c \in Clients : Offer(e, c)
         \/ \E c \in Clients : Subscribe(c) \/ Deliver(c) \/ Unsubscribe(c)
<1>1. ASSUME NEW e \in Events, IngestStep(e)
      PROVE  UNCHANGED streamVars \/ PublishBegin(e) \/ \E c \in Clients : Offer(e, c)
  BY <1>1 DEF IngestStep, ReadForwarding, AddDecision, AddDropped, AddStored, AppendOK,
     AppendFails, Enqueue
<1>2. ASSUME NEW e \in Events, NEW d \in Decisions, Evaluate(e, d) PROVE UNCHANGED streamVars
  BY <1>2 DEF Evaluate
<1>3. CASE SwitchForwarding \/ QueueStep \/ UNCHANGED vars
  BY <1>3 DEF SwitchForwarding, QueueStep, vars
<1> QED
  BY <1>1, <1>2, <1>3 DEF Next

LEMMA StreamTypeStep ==
  ASSUME StreamType, [Next]_vars PROVE StreamType'
<1>1. CASE UNCHANGED streamVars
  BY <1>1 DEF streamVars, StreamType
<1>2. ASSUME NEW e \in Events, PublishBegin(e) PROVE StreamType'
  BY <1>2 DEF PublishBegin, StreamType
<1>3. ASSUME NEW e \in Events, NEW c \in Clients, Offer(e, c) PROVE StreamType'
  <2>1. pubLeft' \in [Events -> SUBSET Clients] /\ UNCHANGED <<hub, pubGoal, got, shown>>
    BY <1>3 DEF Offer, StreamType
  <2>2. CASE Len(chan[c]) < ChanSize
    <3>1. chan' = [chan EXCEPT ![c] = Append(@, e)] /\ UNCHANGED missed
      BY <1>3, <2>2 DEF Offer
    <3>2. /\ Append(chan[c], e) \in Seq(Events) /\ Len(Append(chan[c], e)) <= ChanSize
      BY <2>2, ConstantTypes DEF StreamType
    <3> QED
      BY <2>1, <3>1, <3>2 DEF StreamType
  <2>3. CASE ~(Len(chan[c]) < ChanSize)
    <3>1. missed' = [missed EXCEPT ![c] = @ \cup {e}] /\ UNCHANGED chan
      BY <1>3, <2>3 DEF Offer
    <3> QED
      BY <2>1, <3>1 DEF StreamType
  <2> QED
    BY <2>2, <2>3
<1>4. ASSUME NEW c \in Clients, Subscribe(c) PROVE StreamType'
  BY <1>4 DEF Subscribe, StreamType
<1>5. ASSUME NEW c \in Clients, Deliver(c) PROVE StreamType'
  <2>1. chan[c] \in Seq(Events) /\ chan[c] # <<>> /\ Len(chan[c]) <= ChanSize
    BY <1>5 DEF Deliver, StreamType
  <2>2. /\ Head(chan[c]) \in Events /\ Tail(chan[c]) \in Seq(Events)
        /\ Len(Tail(chan[c])) <= ChanSize
    BY <2>1, ConstantTypes
  <2> QED
    BY <1>5, <2>2 DEF Deliver, StreamType
<1>6. ASSUME NEW c \in Clients, Unsubscribe(c) PROVE StreamType'
  <2>1. ToSet(chan[c]) \subseteq Events /\ <<>> \in Seq(Events) /\ Len(<<>>) <= ChanSize
    BY ConstantTypes DEF StreamType, ToSet
  <2> QED
    BY <1>6, <2>1 DEF Unsubscribe, StreamType
<1> QED
  BY <1>1, <1>2, <1>3, <1>4, <1>5, <1>6, StreamCases

\* The queue's steps: an event is new until it is offered, and not afterwards.
LEMMA QueueOne ==
  ASSUME QueueType, QueueStep
  PROVE  /\ UNCHANGED <<pipeVars, fwdOn, stats, storeVars, streamVars>>
         /\ QueueType' /\ \A x \in Events : status'[x] = "new" <=> status[x] = "new"
<1>1. ASSUME Queue!TakeOrDrop
      PROVE  QueueType' /\ \A x \in Events : status'[x] = "new" <=> status[x] = "new"
  <2>1. /\ lane # <<>> /\ lane' = Tail(lane)
        /\ \/ status' = [status EXCEPT ![Head(lane)] = "held"]
           \/ status' = [status EXCEPT ![Head(lane)] = "dropped"]
    BY <1>1 DEF Queue!TakeOrDrop
  <2>2. /\ lane \in Seq(Events) /\ Head(lane) \in Events /\ status[Head(lane)] # "new"
        /\ Tail(lane) \in Seq(Events)
        /\ \A i \in DOMAIN Tail(lane) : i + 1 \in DOMAIN lane /\ Tail(lane)[i] = lane[i + 1]
    BY <2>1 DEF QueueType
  <2>3. \A x \in Events : status'[x] = "new" <=> status[x] = "new"
    BY <2>1, <2>2 DEF QueueType
  <2>4. status' \in [Events -> Queue!Statuses]
    BY <2>1, <2>2 DEF QueueType, Queue!Statuses
  <2>5. \A i \in DOMAIN lane' : status'[lane'[i]] # "new"
    <3> SUFFICES ASSUME NEW i \in DOMAIN lane' PROVE status'[lane'[i]] # "new"
      OBVIOUS
    <3>1. lane'[i] = lane[i + 1] /\ i + 1 \in DOMAIN lane /\ lane[i + 1] \in Events
      BY <2>1, <2>2
    <3> QED
      BY <2>3, <3>1 DEF QueueType
  <2> QED
    BY <2>1, <2>2, <2>3, <2>4, <2>5 DEF QueueType
<1>2. ASSUME NEW e \in Events, Queue!Resolve(e)
      PROVE  QueueType' /\ \A x \in Events : status'[x] = "new" <=> status[x] = "new"
  BY <1>2 DEF Queue!Resolve, QueueType, Queue!Statuses
<1> QED
  BY <1>1, <1>2 DEF QueueStep

LEMMA EnqueueOne ==
  ASSUME QueueType, NEW e \in Events, Enqueue(e)
  PROVE  /\ QueueType' /\ status[e] = "new" /\ status'[e] # "new"
         /\ \A x \in Events : x # e => status'[x] = status[x]
<1>1. CASE Queue!Accept(e)
  <2>1. /\ status[e] = "new" /\ lane' = Append(lane, e)
        /\ status' = [status EXCEPT ![e] = "pending"]
    BY <1>1 DEF Queue!Accept
  <2>2. /\ status'[e] = "pending" /\ \A x \in Events : x # e => status'[x] = status[x]
        /\ status' \in [Events -> Queue!Statuses]
    BY <2>1 DEF QueueType, Queue!Statuses
  <2>3. /\ lane' \in Seq(Events)
        /\ \A i \in DOMAIN lane' : lane'[i] = e \/ (i \in DOMAIN lane /\ lane'[i] = lane[i])
    BY <2>1 DEF QueueType
  <2>4. \A i \in DOMAIN lane' : status'[lane'[i]] # "new"
    BY <2>1, <2>2, <2>3 DEF QueueType
  <2> QED
    BY <2>1, <2>2, <2>3, <2>4 DEF QueueType
<1>2. CASE Queue!Reject(e)
  BY <1>2 DEF Queue!Reject, QueueType, Queue!Statuses
<1> QED
  BY <1>1, <1>2 DEF Enqueue

LEMMA QueueTypeStep ==
  ASSUME QueueType, [Next]_vars PROVE QueueType'
<1>1. ASSUME UNCHANGED queueVars PROVE QueueType'
  BY <1>1 DEF queueVars, QueueType
<1>2. ASSUME NEW e \in Events, IngestStep(e) PROVE QueueType'
  BY <1>1, <1>2, EnqueueOne DEF IngestStep, ReadForwarding, AddDecision, AddDropped, AddStored,
     AppendOK, AppendFails, PublishBegin, Offer
<1>3. ASSUME NEW e \in Events, NEW d \in Decisions, Evaluate(e, d) PROVE QueueType'
  BY <1>1, <1>3 DEF Evaluate
<1>4. ASSUME NEW c \in Clients, Subscribe(c) \/ Deliver(c) \/ Unsubscribe(c) PROVE QueueType'
  BY <1>1, <1>4 DEF Subscribe, Deliver, Unsubscribe
<1>5. CASE SwitchForwarding \/ UNCHANGED vars
  BY <1>1, <1>5 DEF SwitchForwarding, vars
<1>6. CASE QueueStep
  BY <1>6, QueueOne
<1> QED
  BY <1>2, <1>3, <1>4, <1>5, <1>6 DEF Next

-----------------------------------------------------------------------------
(* Where each event stands.                                                 *)

\* A step that is not one of x leaves x where it stands.
Same(x) ==
    /\ pc'[x] = pc[x] /\ dec'[x] = dec[x] /\ will'[x] = will[x] /\ todo'[x] = todo[x]
    /\ saw'[x] = saw[x] /\ (x \in shown' <=> x \in shown)
    /\ x \in ToSet(file') <=> x \in ToSet(file)
    /\ x \in lost' <=> x \in lost
    /\ status'[x] = "new" <=> status[x] = "new"
    /\ pubGoal'[x] = pubGoal[x] /\ pubLeft'[x] \subseteq pubLeft[x]

LEMMA EventFrame == ASSUME NEW x \in Events, EventInv(x), Same(x) PROVE EventInv(x)'
<1>1. Due(x)' = Due(x)
  BY DEF Same, Due
<1>2. pubLeft[x] = {} => pubLeft'[x] = {}
  BY DEF Same
<1> QED
  BY <1>1, <1>2 DEF EventInv, Same

LEMMA AppendSet ==
  ASSUME NEW S, NEW s \in Seq(S), NEW e \in S
  PROVE  ToSet(Append(s, e)) = ToSet(s) \cup {e}
<1>1. /\ DOMAIN Append(s, e) = 1 .. Len(s) + 1 /\ DOMAIN s = 1 .. Len(s) /\ Len(s) \in Nat
      /\ \A i \in 1 .. Len(s) : Append(s, e)[i] = s[i]
      /\ Append(s, e)[Len(s) + 1] = e
  OBVIOUS
<1> DEFINE t == Append(s, e)
<1>2. /\ DOMAIN t = 1 .. Len(s) + 1 /\ t[Len(s) + 1] = e
      /\ \A i \in DOMAIN s : i \in DOMAIN t /\ t[i] = s[i]
      /\ \A i \in DOMAIN t : i \in DOMAIN s \/ i = Len(s) + 1
  BY <1>1
<1> HIDE DEF t
<1>3. ToSet(t) = ToSet(s) \cup {e}
  BY <1>1, <1>2 DEF ToSet
<1> QED
  BY <1>3 DEF t

\* A step of e's own that makes a call, other than storing and queueing.
LEMMA EventCall ==
  ASSUME IngestType, EventsInv, NEW e \in Events, NEW call, Makes(e, call),
         call \notin {"Append", "Enqueue"}, UNCHANGED <<storeVars, queueVars>>,
         "Publish" \in Due(e)' => pubGoal'[e] = pubGoal[e] /\ pubLeft'[e] = pubLeft[e],
         shown' = IF call = "Publish" THEN shown \cup {e} ELSE shown
  PROVE  EventInv(e)'
<1>1. /\ call \in Due(e) /\ call \in Calls
      /\ Ranked(todo'[e], 1, 6) /\ Due(e)' = Due(e) \ {call}
      /\ \A x \in Due(e)' : Rank(call) < Rank(x)
      /\ UNCHANGED <<pc, dec, will, saw>>
  BY MakesCall DEF IngestType, EventsInv, EventInv
<1>2. UNCHANGED <<file, lost, status>>
  BY DEF storeVars, queueVars
<1>3. EventInv(e)
  BY DEF EventsInv
<1>4. pc[e] = "running"
  <2>1. todo[e] # <<>>
    BY DEF Makes
  <2> QED
    BY <1>3, <2>1 DEF EventInv
<1>5. "Append" \in Due(e)' => call \notin {"AddStored", "AddDropped", "Enqueue", "Publish"}
  BY <1>1, RankIs
<1> DEFINE d == Due(e)
           d2 == Due(e)'
<1>6. /\ "Enqueue" \in d2 <=> "Enqueue" \in d
      /\ "Append" \in d2 <=> "Append" \in d
      /\ \A x \in d2 : x \in d
      /\ \A x \in d : x \in d2 \/ x = call
  BY <1>1
<1> HIDE DEF d, d2
<1>7. /\ d2 = Due(e)' /\ d = Due(e)
  BY DEF d, d2
<1>8. /\ pc'[e] = "running" /\ dec'[e] = dec[e] /\ will'[e] = will[e] /\ status'[e] = status[e]
      /\ file' = file /\ lost' = lost /\ saw'[e] = saw[e]
  BY <1>1, <1>2, <1>4
<1>9. "Enqueue" \in d2 => will'[e]
  BY <1>3, <1>6, <1>7, <1>8 DEF EventInv
<1>10. status'[e] # "new" <=> (pc'[e] = "running" /\ will'[e] /\ "Enqueue" \notin d2)
  BY <1>3, <1>4, <1>6, <1>7, <1>8 DEF EventInv
<1>11. "Append" \in d2 <=> (pc'[e] = "running" /\ dec'[e].store /\ e \notin ToSet(file') \cup lost')
  BY <1>3, <1>4, <1>6, <1>7, <1>8 DEF EventInv
<1>12. /\ e \in ToSet(file') \cup lost' => dec'[e].store
       /\ e \in lost' => e \notin ToSet(file') /\ "AddStored" \notin d2
  BY <1>3, <1>6, <1>7, <1>8 DEF EventInv
<1>13. "Append" \in d2 => /\ ~dec'[e].drop => "AddStored" \in d2
                          /\ dec'[e].drop => "AddDropped" \in d2
                          /\ will'[e] => "Enqueue" \in d2
                          /\ dec'[e].show => "Publish" \in d2
  BY <1>3, <1>5, <1>6, <1>7, <1>8 DEF EventInv
<1>14. /\ "AddStored" \in d2 => dec'[e].store /\ ~dec'[e].drop
       /\ "AddDecision" \in d2 => ~dec'[e].drop
       /\ "AddDropped" \in d2 => dec'[e].drop
  BY <1>3, <1>6, <1>7, <1>8 DEF EventInv
<1>15. "Publish" \in d2 => pubGoal'[e] = {} /\ pubLeft'[e] = {}
  BY <1>3, <1>6, <1>7 DEF EventInv
<1>16. /\ "Publish" \in d2 => /\ e \notin shown' /\ e \notin lost'
                             /\ dec'[e].store /\ dec'[e].show
       /\ e \in shown' => dec'[e].show /\ e \in ToSet(file')
       /\ e \in ToSet(file') /\ dec'[e].show => "Publish" \in d2 \/ e \in shown'
  <2>1. CASE call = "Publish"
    <3>1. "Publish" \notin d2 /\ "Publish" \in d /\ shown' = shown \cup {e}
      BY <1>1, <1>7, <2>1
    <3>2. "Append" \notin d
      BY <1>1, <1>6, <1>7, <2>1, RankIs
    <3>3. e \in ToSet(file) /\ dec[e].show
      BY <1>3, <1>4, <1>7, <3>1, <3>2 DEF EventInv
    <3> QED
      BY <1>8, <3>1, <3>3
  <2>2. CASE call # "Publish"
    <3>1. ("Publish" \in d2 <=> "Publish" \in d) /\ shown' = shown
      BY <1>6, <2>2
    <3> QED
      BY <1>3, <1>7, <1>8, <3>1 DEF EventInv
  <2> QED
    BY <2>1, <2>2
<1>17. will'[e] <=> dec'[e].forward /\ saw'[e]
  <2>1. will[e] <=> dec[e].forward /\ saw[e]
    BY <1>3, <1>4 DEF EventInv
  <2> QED
    BY <1>8, <2>1, Zenon
<1> QED
  BY <1>1, <1>7, <1>8, <1>9, <1>10, <1>11, <1>12, <1>13, <1>14, <1>15, <1>16, <1>17 DEF EventInv

LEMMA EventStored ==
  ASSUME IngestType, EventsInv, NEW e \in Events, AppendOK(e)
  PROVE  EventInv(e)' /\ ToSet(file') = ToSet(file) \cup {e}
<1>1. /\ "Append" \in Due(e) /\ Ranked(todo'[e], 1, 6) /\ Due(e)' = Due(e) \ {"Append"}
      /\ UNCHANGED <<pc, dec, will, saw>>
  BY MakesCall DEF IngestType, EventsInv, EventInv, AppendOK
<1>2. file' = Append(file, e) /\ UNCHANGED <<lost, status, shown>>
  BY DEF AppendOK, queueVars, streamVars
<1>3. ToSet(file') = ToSet(file) \cup {e}
  BY <1>2, AppendSet DEF IngestType, StoreType
<1>4. EventInv(e)
  BY DEF EventsInv
<1>5. pc[e] = "running" /\ dec[e].store /\ e \notin lost
  BY <1>1, <1>4 DEF EventInv
<1>6. "Publish" \in Due(e) => pubGoal'[e] = {} /\ pubLeft'[e] = {}
  BY <1>4 DEF EventInv, AppendOK, streamVars
<1> QED
  BY <1>1, <1>2, <1>3, <1>4, <1>5, <1>6 DEF EventInv

LEMMA EventFails ==
  ASSUME IngestType, EventsInv, NEW e \in Events, AppendFails(e) PROVE EventInv(e)'
<1>1. /\ "Append" \in Due(e) /\ Ranked(todo'[e], 1, 6)
      /\ Due(e)' = (IF dec[e].drop THEN {"AddDropped"} ELSE {})
                   \cup (IF will[e] THEN {"Enqueue"} ELSE {})
      /\ lost' = lost \cup {e} /\ UNCHANGED <<pc, dec, will, saw, file, status, shown>>
  BY FailsCall DEF IngestType, EventsInv, EventInv, queueVars, streamVars
<1>2. EventInv(e)
  BY DEF EventsInv
<1>3. pc[e] = "running" /\ dec[e].store /\ e \notin ToSet(file)
  BY <1>1, <1>2 DEF EventInv
<1>4. /\ "Append" \notin Due(e)' /\ "AddStored" \notin Due(e)' /\ "Publish" \notin Due(e)'
      /\ "AddDecision" \notin Due(e)'
      /\ "AddDropped" \in Due(e)' => dec[e].drop
      /\ "Enqueue" \in Due(e)' <=> will[e]
  BY <1>1
<1>5. "Enqueue" \in Due(e) <=> will[e]
  BY <1>1, <1>2 DEF EventInv
<1> QED
  BY <1>1, <1>2, <1>3, <1>4, <1>5 DEF EventInv

LEMMA EventEnqueued ==
  ASSUME IngestType, EventsInv, NEW e \in Events, Enqueue(e) PROVE EventInv(e)'
<1>1. /\ "Enqueue" \in Due(e) /\ Ranked(todo'[e], 1, 6) /\ Due(e)' = Due(e) \ {"Enqueue"}
      /\ \A x \in Due(e)' : Rank("Enqueue") < Rank(x)
      /\ UNCHANGED <<pc, dec, will, saw>>
  BY MakesCall DEF IngestType, EventsInv, EventInv, Enqueue
<1>2. status'[e] # "new" /\ UNCHANGED <<file, lost, pubGoal, pubLeft, shown>>
  BY EnqueueOne DEF IngestType, Enqueue, storeVars, streamVars
<1>3. EventInv(e)
  BY DEF EventsInv
<1>4. todo[e] # <<>>
  BY DEF Enqueue, Makes
<1>5. will[e] /\ pc[e] = "running"
  BY <1>1, <1>3, <1>4 DEF EventInv
<1>6. "Append" \notin Due(e)' /\ ("Publish" \in Due(e)' <=> "Publish" \in Due(e))
  BY <1>1, RankIs
<1> QED
  BY <1>1, <1>2, <1>3, <1>5, <1>6 DEF EventInv

LEMMA EventReads ==
  ASSUME IngestType, EventsInv, NEW e \in Events, ReadForwarding(e) PROVE EventInv(e)'
<1>1. PICK w \in BOOLEAN : /\ w => ~dec[e].drop
                           /\ w <=> dec[e].forward /\ fwdOn
                           /\ saw' = [saw EXCEPT ![e] = fwdOn]
                           /\ will' = [will EXCEPT ![e] = w]
                           /\ todo' = [todo EXCEPT ![e] = Plan(dec[e], w)]
  BY ReadsDecision DEF IngestType
<1>2. /\ pc[e] = "evaluated" /\ pc' = [pc EXCEPT ![e] = "running"]
      /\ UNCHANGED <<dec, file, lost, status, pubGoal, pubLeft, shown>>
  BY ReadsDecision DEF IngestType, storeVars, queueVars, streamVars
<1>3. /\ pc'[e] = "running" /\ will'[e] = w /\ saw'[e] = fwdOn /\ todo'[e] = Plan(dec[e], w)
      /\ dec[e] \in EngineDecisions
  BY <1>1, <1>2 DEF IngestType, PipeType
<1>4. EventInv(e)
  BY DEF EventsInv
<1>5. /\ e \notin ToSet(file) \cup lost /\ pubLeft[e] = {} /\ pubGoal[e] = {} /\ status[e] = "new"
      /\ e \notin shown
  BY <1>2, <1>4 DEF EventInv
<1>6. /\ Ranked(todo'[e], 1, 6)
      /\ Due(e)' = (IF ~dec[e].drop THEN {"AddDecision"} ELSE {})
                   \cup (IF dec[e].store THEN {"Append"} ELSE {})
                   \cup (IF ~dec[e].drop /\ dec[e].store THEN {"AddStored"} ELSE {})
                   \cup (IF dec[e].store /\ dec[e].show THEN {"Publish"} ELSE {})
                   \cup (IF dec[e].drop THEN {"AddDropped"} ELSE {})
                   \cup (IF w THEN {"Enqueue"} ELSE {})
  BY <1>3, PlanCalls DEF Due
<1>7. /\ "AddDecision" \in Due(e)' <=> ~dec[e].drop
      /\ "Append" \in Due(e)' <=> dec[e].store
      /\ "AddStored" \in Due(e)' <=> ~dec[e].drop /\ dec[e].store
      /\ "AddDropped" \in Due(e)' <=> dec[e].drop
      /\ "Enqueue" \in Due(e)' <=> w
      /\ "Publish" \in Due(e)' <=> dec[e].store /\ dec[e].show
  BY <1>6
<1>8. will'[e] <=> dec'[e].forward /\ saw'[e]
  BY <1>1, <1>2, <1>3, Zenon
<1> QED
  BY <1>1, <1>2, <1>3, <1>5, <1>6, <1>7, <1>8 DEF EventInv

LEMMA EventEvaluated ==
  ASSUME IngestType, EventsInv, NEW e \in Events, NEW d \in Decisions, Evaluate(e, d)
  PROVE  EventInv(e)'
<1>1. /\ pc[e] = "new" /\ pc'[e] = "evaluated"
      /\ UNCHANGED <<will, todo, saw, file, lost, status, pubGoal, pubLeft, shown>>
  BY DEF Evaluate, IngestType, PipeType, storeVars, streamVars, queueVars
<1>2. EventInv(e)
  BY DEF EventsInv
<1>3. todo[e] = <<>> /\ e \notin ToSet(file) \cup lost /\ e \notin shown
  BY <1>1, <1>2 DEF EventInv
<1>4. Due(e) = {} /\ Due(e)' = {}
  BY <1>1, <1>3 DEF Due, ToSet
<1> QED
  BY <1>1, <1>2, <1>3, <1>4 DEF EventInv

\* A step is one of an event's, and leaves the others where they stand, or of
\* no event.
EventStep(e) == IngestStep(e) \/ \E d \in Decisions : Evaluate(e, d)

LEMMA OthersStay ==
  ASSUME IngestType, EventsInv, NEW e \in Events, EventStep(e)
  PROVE  \A x \in Events : x # e => Same(x)
<1>0. Ranked(todo[e], 1, 6)
  BY DEF EventsInv, EventInv
<1>1. ASSUME NEW call, Makes(e, call), UNCHANGED <<storeVars, queueVars>>,
             \A x \in Events : x # e => /\ pubGoal'[x] = pubGoal[x] /\ pubLeft'[x] = pubLeft[x]
                                        /\ x \in shown' <=> x \in shown
      PROVE  \A x \in Events : x # e => Same(x)
  <2>1. /\ \A x \in Events : x # e => todo'[x] = todo[x]
        /\ UNCHANGED <<pc, dec, will, saw, file, lost, status>>
    BY <1>0, <1>1, MakesCall DEF IngestType, storeVars, queueVars
  <2> QED
    BY <1>1, <2>1 DEF Same
<1>2. CASE AddDecision(e) \/ AddDropped(e) \/ AddStored(e)
  BY <1>1, <1>2 DEF AddDecision, AddDropped, AddStored, streamVars
<1>3. CASE PublishBegin(e)
  <2>1. \A x \in Events : x # e => /\ pubGoal'[x] = pubGoal[x] /\ pubLeft'[x] = pubLeft[x]
                                   /\ x \in shown' <=> x \in shown
    BY <1>3 DEF PublishBegin, IngestType, StreamType
  <2> QED
    BY <1>1, <1>3, <2>1 DEF PublishBegin
<1>4. CASE AppendOK(e)
  <2>1. ToSet(file') = ToSet(file) \cup {e}
    BY <1>4, EventStored
  <2>2. /\ \A x \in Events : x # e => todo'[x] = todo[x]
        /\ UNCHANGED <<pc, dec, will, saw, lost, status, pubGoal, pubLeft, shown>>
    BY <1>0, <1>4, MakesCall DEF IngestType, AppendOK, queueVars, streamVars
  <2> QED
    BY <2>1, <2>2 DEF Same
<1>5. CASE AppendFails(e)
  <2>1. /\ \A x \in Events : x # e => todo'[x] = todo[x]
        /\ lost' = lost \cup {e} /\ UNCHANGED <<pc, dec, will, saw, file, status, pubGoal, pubLeft, shown>>
    BY <1>0, <1>5, FailsCall DEF IngestType, queueVars, streamVars
  <2> QED
    BY <2>1 DEF Same
<1>6. CASE Enqueue(e)
  <2>1. /\ \A x \in Events : x # e => todo'[x] = todo[x] /\ status'[x] = status[x]
        /\ UNCHANGED <<pc, dec, will, saw, file, lost, pubGoal, pubLeft, shown>>
    BY <1>0, <1>6, MakesCall, EnqueueOne DEF IngestType, Enqueue, storeVars, streamVars
  <2> QED
    BY <2>1 DEF Same
<1>7. CASE ReadForwarding(e)
  <2> PICK w \in BOOLEAN : /\ saw' = [saw EXCEPT ![e] = fwdOn]
                           /\ will' = [will EXCEPT ![e] = w]
                           /\ todo' = [todo EXCEPT ![e] = Plan(dec[e], w)]
    BY <1>7, ReadsDecision DEF IngestType
  <2>1. /\ \A x \in Events : x # e => /\ todo'[x] = todo[x] /\ pc'[x] = pc[x] /\ will'[x] = will[x]
                                  /\ saw'[x] = saw[x]
        /\ UNCHANGED <<dec, file, lost, status, pubGoal, pubLeft, shown>>
    BY <1>7, ReadsDecision DEF IngestType, PipeType, storeVars, queueVars, streamVars
  <2> QED
    BY <2>1 DEF Same
<1>8. ASSUME NEW d \in Decisions, Evaluate(e, d) PROVE \A x \in Events : x # e => Same(x)
  <2>1. /\ \A x \in Events : x # e => pc'[x] = pc[x] /\ dec'[x] = dec[x]
        /\ UNCHANGED <<will, todo, saw, file, lost, status, pubGoal, pubLeft, shown>>
    BY <1>8 DEF Evaluate, IngestType, PipeType, storeVars, queueVars, streamVars
  <2> QED
    BY <2>1 DEF Same
<1>9. ASSUME NEW c \in Clients, Offer(e, c) PROVE \A x \in Events : x # e => Same(x)
  <2>1. \A x \in Events : pubLeft'[x] \subseteq pubLeft[x]
    BY <1>9 DEF Offer, IngestType, StreamType
  <2>2. UNCHANGED <<pc, dec, will, todo, saw, file, lost, status, pubGoal, shown>>
    BY <1>9 DEF Offer, pipeVars, storeVars, queueVars
  <2> QED
    BY <2>1, <2>2 DEF Same
<1> QED
  BY <1>2, <1>3, <1>4, <1>5, <1>6, <1>7, <1>8, <1>9 DEF EventStep, IngestStep

LEMMA OfferStays ==
  ASSUME IngestType, NEW e \in Events, NEW c \in Clients, Offer(e, c)
  PROVE  Same(e) /\ UNCHANGED <<stats, file>>
<1>1. pubLeft'[e] \subseteq pubLeft[e]
  BY DEF Offer, IngestType, StreamType
<1>2. UNCHANGED <<pc, dec, will, todo, saw, file, lost, status, pubGoal, stats, shown>>
  BY DEF Offer, pipeVars, storeVars, queueVars
<1> QED
  BY <1>1, <1>2 DEF Same

LEMMA NoEventStays ==
  ASSUME IngestType, [Next]_vars, \A e \in Events : ~EventStep(e)
  PROVE  (\A x \in Events : Same(x)) /\ UNCHANGED <<stats, file>>
<1>1. ASSUME NEW c \in Clients, Subscribe(c) \/ Deliver(c) \/ Unsubscribe(c)
      PROVE  (\A x \in Events : Same(x)) /\ UNCHANGED <<stats, file>>
  <2>1. UNCHANGED <<pc, dec, will, todo, saw, file, lost, status, pubGoal, pubLeft, stats, shown>>
    BY <1>1 DEF Subscribe, Deliver, Unsubscribe, pipeVars, storeVars, queueVars
  <2> QED
    BY <2>1 DEF Same
<1>2. CASE SwitchForwarding \/ UNCHANGED vars
  <2>1. UNCHANGED <<pc, dec, will, todo, saw, file, lost, status, pubGoal, pubLeft, stats, shown>>
    BY <1>2 DEF SwitchForwarding, vars, pipeVars, storeVars, queueVars, streamVars
  <2> QED
    BY <2>1 DEF Same
<1>3. CASE QueueStep
  <2>1. /\ UNCHANGED <<pc, dec, will, todo, saw, file, lost, pubGoal, pubLeft, stats, shown>>
        /\ \A x \in Events : status'[x] = "new" <=> status[x] = "new"
    BY <1>3, QueueOne DEF IngestType, pipeVars, storeVars, streamVars
  <2> QED
    BY <2>1 DEF Same
<1> QED
  BY <1>1, <1>2, <1>3 DEF Next, EventStep

LEMMA EventsStep ==
  ASSUME IngestType, EventsInv, [Next]_vars PROVE EventsInv'
<1>0. \A x \in Events : EventInv(x)
  BY DEF EventsInv
<1>1. CASE \A e \in Events : ~EventStep(e)
  <2>1. \A x \in Events : Same(x)
    BY <1>1, NoEventStays
  <2> QED
    BY <1>0, <2>1, EventFrame DEF EventsInv
<1>2. ASSUME NEW e \in Events, EventStep(e) PROVE EventsInv'
  <2>1. \A x \in Events : x # e => Same(x)
    BY <1>2, OthersStay
  <2> DEFINE Shown == "Publish" \in Due(e)' => pubGoal'[e] = pubGoal[e] /\ pubLeft'[e] = pubLeft[e]
  <2>0. ASSUME NEW call, Makes(e, call), call \notin {"Append", "Enqueue"},
               UNCHANGED <<storeVars, queueVars>>, Shown,
               shown' = IF call = "Publish" THEN shown \cup {e} ELSE shown
        PROVE  EventInv(e)'
    BY <2>0, EventCall
  <2>2. ASSUME AddDecision(e) \/ AddDropped(e) \/ AddStored(e) PROVE EventInv(e)'
    <3>1. Shown
      BY <2>2 DEF AddDecision, AddDropped, AddStored, streamVars
    <3>2. UNCHANGED <<storeVars, queueVars, shown>>
      BY <2>2 DEF AddDecision, AddDropped, AddStored, streamVars
    <3>3. Makes(e, "AddDecision") \/ Makes(e, "AddDropped") \/ Makes(e, "AddStored")
      BY <2>2 DEF AddDecision, AddDropped, AddStored
    <3> HIDE DEF Shown
    <3> QED
      BY <2>0, <3>1, <3>2, <3>3
  <2>3. ASSUME PublishBegin(e) PROVE EventInv(e)'
    <3>1. Shown
      BY <2>3, MakesCall DEF PublishBegin, IngestType, EventsInv, EventInv
    <3>2. Makes(e, "Publish") /\ UNCHANGED <<storeVars, queueVars>> /\ shown' = shown \cup {e}
      BY <2>3 DEF PublishBegin
    <3> HIDE DEF Shown
    <3> QED
      BY <2>0, <3>1, <3>2
  <2>4. ASSUME NEW c \in Clients, Offer(e, c) PROVE EventInv(e)'
    BY <1>0, <2>4, OfferStays, EventFrame
  <2>5. EventInv(e)'
    <3>1. CASE AppendOK(e) \/ AppendFails(e) \/ Enqueue(e)
      BY <3>1, EventStored, EventFails, EventEnqueued
    <3>2. CASE ReadForwarding(e) \/ \E d \in Decisions : Evaluate(e, d)
      BY <3>2, EventReads, EventEvaluated
    <3>3. \/ AddDecision(e) \/ AddDropped(e) \/ AddStored(e) \/ PublishBegin(e)
          \/ AppendOK(e) \/ AppendFails(e) \/ Enqueue(e)
          \/ ReadForwarding(e) \/ \E d \in Decisions : Evaluate(e, d)
          \/ \E c \in Clients : Offer(e, c)
      BY <1>2, Zenon DEF EventStep, IngestStep
    <3> QED
      BY <2>2, <2>3, <2>4, <3>1, <3>2, <3>3
  <2> QED
    BY <1>0, <2>1, <2>5, EventFrame DEF EventsInv
<1> QED
  BY <1>1, <1>2

-----------------------------------------------------------------------------
(* The statistics.                                                          *)

\* x is counted, and counted as stored, as before.
SameCount(x) ==
    /\ \A l \in Labels : x \in CountedAt(l)' <=> x \in CountedAt(l)
    /\ x \in StoredNow' <=> x \in StoredNow

LEMMA SameCounts == ASSUME NEW x \in Events, Same(x) PROVE SameCount(x)
<1>1. Due(x)' = Due(x)
  BY DEF Same, Due
<1> QED
  BY <1>1 DEF Same, SameCount, CountedAt, StoredNow

LEMMA CountSets ==
  ASSUME IngestType
  PROVE  /\ \A l \in Labels : CountedAt(l) \subseteq Events
         /\ StoredNow \subseteq ToSet(file) /\ ToSet(file) \subseteq Events
BY DEF IngestType, StoreType, CountedAt, StoredNow, ToSet

LEMMA StatsFrame ==
  ASSUME IngestType, IngestType', StatsInv, \A x \in Events : SameCount(x),
         UNCHANGED stats, IsFiniteSet(ToSet(file'))
  PROVE  StatsInv'
<1>1. /\ \A l \in Labels : CountedAt(l) \subseteq Events /\ CountedAt(l)' \subseteq Events
      /\ StoredNow \subseteq Events /\ StoredNow' \subseteq Events
  BY CountSets DEF IngestType, StoreType, CountedAt, StoredNow, ToSet
<1>2. \A l \in Labels : CountedAt(l)' = CountedAt(l)
  BY <1>1 DEF SameCount
<1>3. StoredNow' = StoredNow
  BY <1>1 DEF SameCount
<1> QED
  BY <1>2, <1>3 DEF StatsInv

\* One more event counted under a label.
LEMMA CountStep ==
  ASSUME IngestType, IngestType', StatsInv, NEW e \in Events, NEW l \in Labels,
         \A x \in Events : x # e => SameCount(x),
         e \notin CountedAt(l), e \in CountedAt(l)',
         \A k \in Labels : k # l => (e \in CountedAt(k)' <=> e \in CountedAt(k)),
         e \in StoredNow' <=> e \in StoredNow,
         stats'.by = [stats.by EXCEPT ![l] = @ + 1], stats'.stored = stats.stored,
         stats'.total = stats.total + (IF l = "drop" THEN 1 ELSE 0),
         stats'.dropped = stats.dropped + (IF l = "drop" THEN 1 ELSE 0), UNCHANGED file
  PROVE  StatsInv'
<1>1. /\ \A k \in Labels : CountedAt(k) \subseteq Events /\ CountedAt(k)' \subseteq Events
      /\ StoredNow \subseteq Events /\ StoredNow' \subseteq Events
  BY CountSets DEF IngestType, StoreType, CountedAt, StoredNow, ToSet
<1>2. \A k \in Labels : k # l => CountedAt(k)' = CountedAt(k)
  BY <1>1 DEF SameCount
<1>3. CountedAt(l)' = CountedAt(l) \cup {e}
  BY <1>1 DEF SameCount
<1>4. StoredNow' = StoredNow
  BY <1>1 DEF SameCount
<1>5. /\ stats.by \in [Labels -> Nat] /\ stats.total \in Nat /\ stats.stored \in Nat
      /\ stats.dropped \in Nat
  BY DEF IngestType, StoreType
<1>6. IsFiniteSet(CountedAt(l)) /\ stats.by[l] = Cardinality(CountedAt(l))
  BY DEF StatsInv
<1>7. /\ IsFiniteSet(CountedAt(l) \cup {e})
      /\ Cardinality(CountedAt(l) \cup {e}) = Cardinality(CountedAt(l)) + 1
  BY <1>6, FS_AddElement
<1>8. \A k \in Labels : stats'.by[k] = IF k = l THEN stats.by[k] + 1 ELSE stats.by[k]
  BY <1>5
<1>9. \A k \in Labels : IsFiniteSet(CountedAt(k)') /\ stats'.by[k] = Cardinality(CountedAt(k)')
  BY <1>2, <1>3, <1>6, <1>7, <1>8 DEF StatsInv
<1>10. stats'.by["drop"] = stats'.dropped
  BY <1>5, <1>8 DEF StatsInv, Labels
<1>11. stats'.total = stats'.stored + stats'.dropped
  BY <1>5 DEF StatsInv
<1>12. IsFiniteSet(ToSet(file')) /\ stats'.stored = Cardinality(StoredNow')
  BY <1>4 DEF StatsInv
<1> QED
  BY <1>9, <1>10, <1>11, <1>12 DEF StatsInv

LEMMA StatsChange ==
  ASSUME StoreType, NEW e \in Events, IngestType
  PROVE  /\ AddDecision(e) =>
              /\ stats'.by = [stats.by EXCEPT ![Label(dec[e], will[e])] = @ + 1]
              /\ stats'.total = stats.total /\ stats'.stored = stats.stored
              /\ stats'.dropped = stats.dropped
         /\ AddDropped(e) =>
              /\ stats'.by = [stats.by EXCEPT !["drop"] = @ + 1]
              /\ stats'.total = stats.total + 1 /\ stats'.stored = stats.stored
              /\ stats'.dropped = stats.dropped + 1
         /\ AddStored(e) =>
              /\ stats'.by = stats.by
              /\ stats'.total = stats.total + 1 /\ stats'.stored = stats.stored + 1
              /\ stats'.dropped = stats.dropped
<1>1. stats \in StatsRecord
  BY DEF StoreType, StatsRecord
<1>2. ASSUME AddDecision(e)
      PROVE  /\ stats'.by = [stats.by EXCEPT ![Label(dec[e], will[e])] = @ + 1]
             /\ stats'.total = stats.total /\ stats'.stored = stats.stored
             /\ stats'.dropped = stats.dropped
  BY <1>1, <1>2 DEF AddDecision, StatsRecord
<1>3. ASSUME AddDropped(e)
      PROVE  /\ stats'.by = [stats.by EXCEPT !["drop"] = @ + 1]
             /\ stats'.total = stats.total + 1 /\ stats'.stored = stats.stored
             /\ stats'.dropped = stats.dropped + 1
  BY <1>1, <1>3 DEF AddDropped, StatsRecord
<1>4. ASSUME AddStored(e)
      PROVE  /\ stats'.by = stats.by
             /\ stats'.total = stats.total + 1 /\ stats'.stored = stats.stored + 1
             /\ stats'.dropped = stats.dropped
  BY <1>1, <1>4 DEF AddStored, StatsRecord
<1> QED
  BY <1>2, <1>3, <1>4

\* A call that neither counts nor stores.
LEMMA OtherCall ==
  ASSUME IngestType, EventsInv, NEW e \in Events, NEW call, Makes(e, call),
         call \notin {"AddDecision", "AddDropped", "AddStored", "Append"}, UNCHANGED file
  PROVE  SameCount(e)
<1>1. Due(e)' = Due(e) \ {call} /\ UNCHANGED <<pc, dec, will>>
  BY MakesCall DEF IngestType, EventsInv, EventInv
<1>2. \A x \in {"AddDecision", "AddDropped", "AddStored"} : x \in Due(e)' <=> x \in Due(e)
  BY <1>1
<1> QED
  BY <1>1, <1>2 DEF SameCount, CountedAt, StoredNow

LEMMA StatsStep ==
  ASSUME IngestType, IngestType', EventsInv, StatsInv, [Next]_vars PROVE StatsInv'
<1>0. /\ IsFiniteSet(ToSet(file)) /\ StoreType
      /\ \A x \in Events : EventInv(x) /\ Ranked(todo[x], 1, 6)
  BY DEF StatsInv, EventsInv, EventInv, IngestType
<1>1. CASE \A e \in Events : ~EventStep(e)
  <2>1. (\A x \in Events : Same(x)) /\ UNCHANGED <<stats, file>>
    BY <1>1, NoEventStays
  <2>2. \A x \in Events : SameCount(x)
    BY <2>1, SameCounts
  <2> QED
    BY <1>0, <2>1, <2>2, StatsFrame
<1>2. ASSUME NEW e \in Events, EventStep(e) PROVE StatsInv'
  <2>1. \A x \in Events : x # e => SameCount(x)
    BY <1>2, OthersStay, SameCounts
  <2>2. ASSUME SameCount(e), UNCHANGED stats, IsFiniteSet(ToSet(file')) PROVE StatsInv'
    BY <2>1, <2>2, StatsFrame
  <2>3. dec[e] \in EngineDecisions /\ will[e] \in BOOLEAN
    BY DEF IngestType, PipeType
  <2>4. Label(dec[e], will[e]) \in Labels /\ (Label(dec[e], will[e]) = "drop" <=> dec[e].drop)
    BY <2>3, LabelType
  <2>5. ASSUME AddDecision(e) PROVE StatsInv'
    <3>1. /\ "AddDecision" \in Due(e) /\ Due(e)' = Due(e) \ {"AddDecision"}
          /\ UNCHANGED <<pc, dec, will, file>>
      BY <1>0, <2>5, MakesCall DEF AddDecision, IngestType, storeVars
    <3>2. ~dec[e].drop /\ "AddDropped" \notin Due(e) /\ pc[e] = "running"
      BY <1>0, <2>5, <3>1 DEF EventInv, AddDecision, Makes
    <3>3. PICK l \in Labels : l = Label(dec[e], will[e])
      BY <2>4
    <3>4. \A k \in Labels : /\ e \notin CountedAt(k)
                            /\ e \in CountedAt(k)' <=> k = l
      BY <3>1, <3>2, <3>3 DEF CountedAt
    <3>5. e \in StoredNow' <=> e \in StoredNow
      BY <3>1 DEF StoredNow
    <3>6. /\ stats'.by = [stats.by EXCEPT ![l] = @ + 1]
          /\ stats'.total = stats.total /\ stats'.stored = stats.stored
          /\ stats'.dropped = stats.dropped
      BY <1>0, <2>5, <3>3, StatsChange
    <3>7. l # "drop" /\ stats.total \in Nat /\ stats.dropped \in Nat
      BY <2>4, <3>2, <3>3 DEF IngestType, StoreType
    <3>8. /\ stats'.total = stats.total + (IF l = "drop" THEN 1 ELSE 0)
          /\ stats'.dropped = stats.dropped + (IF l = "drop" THEN 1 ELSE 0)
      BY <3>6, <3>7
    <3> QED
      BY <2>1, <3>1, <3>4, <3>5, <3>6, <3>8, CountStep
  <2>6. ASSUME AddDropped(e) PROVE StatsInv'
    <3>1. /\ "AddDropped" \in Due(e) /\ Due(e)' = Due(e) \ {"AddDropped"}
          /\ UNCHANGED <<pc, dec, will, file>>
      BY <1>0, <2>6, MakesCall DEF AddDropped, IngestType, storeVars
    <3>2. dec[e].drop /\ "AddDecision" \notin Due(e) /\ pc[e] = "running"
      BY <1>0, <2>6, <3>1 DEF EventInv, AddDropped, Makes
    <3>3. Label(dec[e], will[e]) = "drop" /\ "drop" \in Labels
      BY <2>4, <3>2
    <3>4. \A k \in Labels : /\ e \notin CountedAt(k)
                            /\ e \in CountedAt(k)' <=> k = "drop"
      BY <3>1, <3>2, <3>3 DEF CountedAt
    <3>5. e \in StoredNow' <=> e \in StoredNow
      BY <3>1 DEF StoredNow
    <3>6. /\ stats'.by = [stats.by EXCEPT !["drop"] = @ + 1]
          /\ stats'.total = stats.total + 1 /\ stats'.stored = stats.stored
          /\ stats'.dropped = stats.dropped + 1
      BY <1>0, <2>6, StatsChange
    <3> QED
      BY <2>1, <3>1, <3>3, <3>4, <3>5, <3>6, CountStep
  <2>7. ASSUME AddStored(e) PROVE StatsInv'
    <3>1. /\ "AddStored" \in Due(e) /\ Due(e)' = Due(e) \ {"AddStored"}
          /\ \A x \in Due(e)' : Rank("AddStored") < Rank(x)
          /\ UNCHANGED <<pc, dec, will, file>>
      BY <1>0, <2>7, MakesCall DEF AddStored, IngestType, storeVars
    <3>2. "Append" \notin Due(e)
      BY <3>1, RankIs
    <3>3. pc[e] = "running" /\ ~dec[e].drop /\ e \in ToSet(file)
      BY <1>0, <2>7, <3>1, <3>2 DEF EventInv, AddStored, Makes
    <3>4. \A k \in Labels : e \in CountedAt(k)' <=> e \in CountedAt(k)
      BY <3>1 DEF CountedAt
    <3>5. e \notin StoredNow /\ e \in StoredNow'
      BY <3>1, <3>3 DEF StoredNow
    <3>6. /\ \A k \in Labels : CountedAt(k) \subseteq Events /\ CountedAt(k)' \subseteq Events
          /\ StoredNow \subseteq Events /\ StoredNow' \subseteq Events
          /\ StoredNow \subseteq ToSet(file)
      BY CountSets DEF IngestType, StoreType, CountedAt, StoredNow, ToSet
    <3>7. \A k \in Labels : CountedAt(k)' = CountedAt(k)
      BY <2>1, <3>4, <3>6 DEF SameCount
    <3>8. StoredNow' = StoredNow \cup {e}
      BY <2>1, <3>5, <3>6 DEF SameCount
    <3>9. Cardinality(StoredNow \cup {e}) = Cardinality(StoredNow) + 1
      BY <1>0, <3>5, <3>6, FS_Subset, FS_AddElement
    <3>10. /\ stats'.by = stats.by
           /\ stats'.total = stats.total + 1 /\ stats'.stored = stats.stored + 1
           /\ stats'.dropped = stats.dropped
      BY <1>0, <2>7, StatsChange
    <3>11. stats.total \in Nat /\ stats.dropped \in Nat /\ stats.stored \in Nat
      BY DEF IngestType, StoreType
    <3>12. stats'.stored = Cardinality(StoredNow') /\ stats'.total = stats'.stored + stats'.dropped
      BY <3>8, <3>9, <3>10, <3>11 DEF StatsInv
    <3> QED
      BY <1>0, <3>1, <3>7, <3>10, <3>12 DEF StatsInv
  <2>8. ASSUME AppendOK(e) PROVE StatsInv'
    <3>1. /\ "Append" \in Due(e) /\ Due(e)' = Due(e) \ {"Append"}
          /\ UNCHANGED <<pc, dec, will>>
      BY <1>0, <2>8, MakesCall DEF AppendOK, IngestType
    <3>2. ToSet(file') = ToSet(file) \cup {e}
      BY <2>8, EventStored
    <3>3. e \notin ToSet(file) /\ (~dec[e].drop => "AddStored" \in Due(e)')
      BY <1>0, <3>1 DEF EventInv
    <3>4. e \notin StoredNow /\ e \notin StoredNow'
      BY <3>1, <3>3 DEF StoredNow
    <3>5. SameCount(e)
      BY <3>1, <3>4 DEF SameCount, CountedAt
    <3>6. IsFiniteSet(ToSet(file'))
      BY <1>0, <3>2, FS_AddElement
    <3> QED
      BY <2>2, <2>8, <3>5, <3>6 DEF AppendOK
  <2>9. ASSUME AppendFails(e) PROVE StatsInv'
    <3>1. /\ "Append" \in Due(e) /\ "AddDecision" \notin Due(e)
          /\ Due(e)' = (IF dec[e].drop THEN {"AddDropped"} ELSE {})
                       \cup (IF will[e] THEN {"Enqueue"} ELSE {})
          /\ UNCHANGED <<pc, dec, will, file, stats>>
      BY <1>0, <2>9, FailsCall DEF IngestType
    <3>2. "AddDropped" \in Due(e) <=> dec[e].drop
      BY <1>0, <3>1 DEF EventInv
    <3>3. "AddDropped" \in Due(e)' <=> dec[e].drop
      BY <3>1
    <3>4. "AddDecision" \notin Due(e)'
      BY <3>1
    <3>5. e \notin ToSet(file)
      BY <1>0, <3>1 DEF EventInv
    <3>6. SameCount(e)
      BY <3>1, <3>2, <3>3, <3>4, <3>5 DEF SameCount, CountedAt, StoredNow
    <3> QED
      BY <1>0, <2>2, <3>1, <3>6
  <2>10. ASSUME Enqueue(e) PROVE StatsInv'
    <3>1. Makes(e, "Enqueue") /\ UNCHANGED <<stats, file>>
      BY <2>10 DEF Enqueue, storeVars
    <3>2. SameCount(e)
      BY <3>1, OtherCall
    <3> QED
      BY <1>0, <2>2, <3>1, <3>2
  <2>11. ASSUME PublishBegin(e) PROVE StatsInv'
    <3>1. Makes(e, "Publish") /\ UNCHANGED <<stats, file>>
      BY <2>11 DEF PublishBegin, storeVars
    <3>2. SameCount(e)
      BY <3>1, OtherCall
    <3> QED
      BY <1>0, <2>2, <3>1, <3>2
  <2>12. ASSUME NEW c \in Clients, Offer(e, c) PROVE StatsInv'
    <3>1. Same(e) /\ UNCHANGED <<stats, file>>
      BY <2>12, OfferStays
    <3> QED
      BY <1>0, <2>2, <3>1, SameCounts
  <2>13. ASSUME ReadForwarding(e) PROVE StatsInv'
    <3>1. PICK w \in BOOLEAN : todo' = [todo EXCEPT ![e] = Plan(dec[e], w)]
      BY <2>13, ReadsDecision DEF IngestType
    <3>2. pc[e] = "evaluated" /\ UNCHANGED <<dec, stats, file>>
      BY <2>13, ReadsDecision DEF IngestType, storeVars
    <3>3. e \notin ToSet(file)
      BY <1>0, <3>2 DEF EventInv
    <3>4. "AddDecision" \in Due(e)' \/ "AddDropped" \in Due(e)'
      <4>1. todo'[e] = Plan(dec[e], w)
        BY <3>1 DEF IngestType, PipeType
      <4> QED
        BY <2>3, <4>1, PlanCalls DEF Due
    <3>5. SameCount(e)
      BY <3>2, <3>3, <3>4 DEF SameCount, CountedAt, StoredNow
    <3> QED
      BY <1>0, <2>2, <3>2, <3>5
  <2>14. ASSUME NEW d \in Decisions, Evaluate(e, d) PROVE StatsInv'
    <3>1. pc[e] = "new" /\ pc'[e] = "evaluated" /\ UNCHANGED <<stats, file>>
      BY <2>14 DEF Evaluate, IngestType, PipeType, storeVars
    <3>2. e \notin ToSet(file)
      BY <1>0, <3>1 DEF EventInv
    <3>3. SameCount(e)
      BY <3>1, <3>2 DEF SameCount, CountedAt, StoredNow
    <3> QED
      BY <1>0, <2>2, <3>1, <3>3
  <2>15. \/ AddDecision(e) \/ AddDropped(e) \/ AddStored(e) \/ PublishBegin(e)
         \/ AppendOK(e) \/ AppendFails(e) \/ Enqueue(e)
         \/ ReadForwarding(e) \/ \E d \in Decisions : Evaluate(e, d)
         \/ \E c \in Clients : Offer(e, c)
    BY <1>2, Zenon DEF EventStep, IngestStep
  <2> QED
    BY <2>5, <2>6, <2>7, <2>8, <2>9, <2>10, <2>11, <2>12, <2>13, <2>14, <2>15
<1> QED
  BY <1>1, <1>2

-----------------------------------------------------------------------------
(* The stream.                                                              *)

\* An event appended to the channel, one moved from the channel to the client,
\* and the whole of both.
LEMMA SentAppend ==
  ASSUME NEW S, NEW g \in Seq(S), NEW h \in Seq(S), NEW e \in S
  PROVE  g \o Append(h, e) = Append(g \o h, e)
OBVIOUS

LEMMA SentMove ==
  ASSUME NEW S, NEW g \in Seq(S), NEW h \in Seq(S), h # <<>>
  PROVE  Append(g, Head(h)) \o Tail(h) = g \o h
OBVIOUS

LEMMA SentBoth ==
  ASSUME NEW S, NEW g \in Seq(S), NEW h \in Seq(S)
  PROVE  /\ ToSet(g \o h) = ToSet(g) \cup ToSet(h) /\ g \o h \in Seq(S)
         /\ \A i \in DOMAIN g : i \in DOMAIN (g \o h) /\ (g \o h)[i] = g[i]
         /\ g \o <<>> = g
<1>1. g \o <<>> = g /\ g \o h \in Seq(S)
  OBVIOUS
<1>3. \A i \in DOMAIN g : i \in DOMAIN (g \o h) /\ (g \o h)[i] = g[i]
  OBVIOUS
<1>4. ToSet(g \o h) = ToSet(g) \cup ToSet(h)
  <2> DEFINE u == g \o h
  <2>1. /\ DOMAIN u = 1 .. Len(g) + Len(h) /\ DOMAIN g = 1 .. Len(g) /\ DOMAIN h = 1 .. Len(h)
        /\ Len(g) \in Nat /\ Len(h) \in Nat
        /\ \A i \in DOMAIN u : u[i] = IF i <= Len(g) THEN g[i] ELSE h[i - Len(g)]
    OBVIOUS
  <2> HIDE DEF u
  <2>2. ASSUME NEW i \in DOMAIN u PROVE u[i] \in ToSet(g) \cup ToSet(h)
    <3>1. CASE i <= Len(g)
      BY <2>1, <3>1 DEF ToSet
    <3>2. CASE ~(i <= Len(g))
      <4>1. i - Len(g) \in DOMAIN h
        BY <2>1, <3>2
      <4> QED
        BY <2>1, <3>2, <4>1 DEF ToSet
    <3> QED
      BY <3>1, <3>2
  <2>3. ASSUME NEW i \in DOMAIN g PROVE g[i] \in ToSet(u)
    BY <2>1 DEF ToSet
  <2>4. ASSUME NEW i \in DOMAIN h PROVE h[i] \in ToSet(u)
    <3>1. i + Len(g) \in DOMAIN u /\ u[i + Len(g)] = h[i]
      BY <2>1
    <3> QED
      BY <3>1 DEF ToSet
  <2> QED
    BY <2>2, <2>3, <2>4 DEF ToSet, u
<1> QED
  BY <1>1, <1>3, <1>4

\* What one client has been sent and has missed.
ClientInv(c) ==
    /\ \A i, j \in DOMAIN Sent(c) : Sent(c)[i] = Sent(c)[j] => i = j
    /\ \A e \in ToSet(Sent(c)) : e \notin missed[c]
    /\ \A e \in Events : e \in ToSet(Sent(c)) \cup missed[c] <=> c \in pubGoal[e] \ pubLeft[e]

LEMMA ClientFrame ==
  ASSUME NEW c \in Clients, ClientInv(c), Sent(c)' = Sent(c), missed'[c] = missed[c],
         \A e \in Events : c \in pubGoal'[e] \ pubLeft'[e] <=> c \in pubGoal[e] \ pubLeft[e]
  PROVE  ClientInv(c)'
BY DEF ClientInv

\* Offering an event to a client that has not been offered it yet.
LEMMA ClientOffered ==
  ASSUME StreamType, StreamInv, NEW e \in Events, NEW c \in Clients, Offer(e, c)
  PROVE  ClientInv(c)'
<1>1. /\ c \in pubLeft[e] /\ pubLeft' = [pubLeft EXCEPT ![e] = @ \ {c}]
      /\ UNCHANGED <<pubGoal, got, hub>>
  BY DEF Offer
<1>2. /\ ClientInv(c) /\ c \in pubGoal[e]
  BY <1>1 DEF StreamInv, ClientInv
<1>3. \A x \in Events : c \in pubGoal'[x] \ pubLeft'[x] <=> (x = e \/ c \in pubGoal[x] \ pubLeft[x])
  BY <1>1, <1>2 DEF StreamType
<1>4. e \notin ToSet(Sent(c)) /\ e \notin missed[c]
  BY <1>1, <1>2 DEF ClientInv
<1>5. got[c] \in Seq(Events) /\ chan[c] \in Seq(Events) /\ Sent(c) \in Seq(Events)
  BY SentBoth DEF StreamType, Sent
<1>6. CASE Len(chan[c]) < ChanSize
  <2>1. chan' = [chan EXCEPT ![c] = Append(@, e)] /\ UNCHANGED missed
    BY <1>6 DEF Offer
  <2>2. Sent(c)' = Append(Sent(c), e)
    <3>1. chan'[c] = Append(chan[c], e) /\ got'[c] = got[c]
      BY <1>1, <2>1 DEF StreamType
    <3> DEFINE g == got[c]
               h == chan[c]
    <3>0. g \in Seq(Events) /\ h \in Seq(Events) /\ e \in Events
      BY <1>5
    <3> HIDE DEF g, h
    <3>2. g \o Append(h, e) = Append(g \o h, e)
      BY <3>0, SentAppend
    <3> USE DEF g, h
    <3> QED
      BY <3>1, <3>2 DEF Sent
  <2>3. ToSet(Sent(c)') = ToSet(Sent(c)) \cup {e}
    BY <1>5, <2>2, AppendSet
  <2>4. \A i, j \in DOMAIN Sent(c)' : Sent(c)'[i] = Sent(c)'[j] => i = j
    <3> DEFINE s == Sent(c)
    <3>1. /\ \A i, j \in DOMAIN s : s[i] = s[j] => i = j
          /\ \A i \in DOMAIN s : s[i] # e
      BY <1>2, <1>4 DEF ClientInv, ToSet
    <3>2. s \in Seq(Events)
      BY <1>5
    <3> HIDE DEF s
    <3>3. \A i, j \in DOMAIN Append(s, e) : Append(s, e)[i] = Append(s, e)[j] => i = j
      BY <3>1, <3>2
    <3> QED
      BY <2>2, <3>3 DEF s
  <2>5. \A x \in ToSet(Sent(c)') : x \notin missed'[c]
    BY <1>2, <1>4, <2>1, <2>3 DEF ClientInv
  <2>6. \A x \in Events : x \in ToSet(Sent(c)') \cup missed'[c]
                            <=> c \in pubGoal'[x] \ pubLeft'[x]
    BY <1>2, <1>3, <2>1, <2>3 DEF ClientInv
  <2> QED
    BY <2>4, <2>5, <2>6 DEF ClientInv
<1>7. CASE ~(Len(chan[c]) < ChanSize)
  <2>1. missed' = [missed EXCEPT ![c] = @ \cup {e}] /\ UNCHANGED chan
    BY <1>7 DEF Offer
  <2>2. missed'[c] = missed[c] \cup {e}
    BY <2>1 DEF StreamType
  <2>3. Sent(c)' = Sent(c)
    BY <1>1, <2>1 DEF Sent
  <2> QED
    BY <1>2, <1>3, <1>4, <2>2, <2>3 DEF ClientInv
<1> QED
  BY <1>6, <1>7

\* A client that leaves has missed what was in its channel.
LEMMA ClientLeft ==
  ASSUME StreamType, StreamInv, NEW c \in Clients, Unsubscribe(c)
  PROVE  ClientInv(c)'
<1>1. /\ chan'[c] = <<>> /\ missed'[c] = missed[c] \cup ToSet(chan[c])
      /\ UNCHANGED <<got, pubGoal, pubLeft>>
  BY DEF Unsubscribe, StreamType
<1>2. ClientInv(c)
  BY DEF StreamInv, ClientInv
<1> DEFINE g == got[c]
           h == chan[c]
           s == Sent(c)
<1>3. g \in Seq(Events) /\ h \in Seq(Events) /\ s = g \o h
  BY DEF StreamType, Sent
<1>4. /\ ToSet(s) = ToSet(g) \cup ToSet(h) /\ s \in Seq(Events)
      /\ \A i \in DOMAIN g : i \in DOMAIN s /\ s[i] = g[i]
      /\ g \o <<>> = g
  <2> HIDE DEF g, h, s
  <2> QED
    BY <1>3, SentBoth
<1>5. Sent(c)' = g
  BY <1>1, <1>4 DEF Sent
<1>6. \A i, j \in DOMAIN s : s[i] = s[j] => i = j
  BY <1>2 DEF ClientInv
<1> HIDE DEF g, h, s
<1>7. \A i \in DOMAIN h : Len(g) + i \in DOMAIN s /\ s[Len(g) + i] = h[i] /\ Len(g) + i \notin DOMAIN g
  BY <1>3
<1>8. ASSUME NEW x \in ToSet(g) PROVE x \notin ToSet(h)
  <2> SUFFICES ASSUME x \in ToSet(h) PROVE FALSE
    OBVIOUS
  <2>1. PICK i \in DOMAIN g : g[i] = x
    BY DEF ToSet
  <2>2. PICK j \in DOMAIN h : h[j] = x
    BY DEF ToSet
  <2>3. /\ i \in DOMAIN s /\ s[i] = x
        /\ Len(g) + j \in DOMAIN s /\ s[Len(g) + j] = x /\ Len(g) + j # i
    BY <1>4, <1>7, <2>1, <2>2
  <2> QED
    BY <1>6, <2>3
<1>9. \A i, j \in DOMAIN g : g[i] = g[j] => i = j
  BY <1>4, <1>6
<1>10. \A x \in ToSet(g) : x \notin missed'[c]
  BY <1>1, <1>2, <1>4, <1>8 DEF ClientInv, s, h
<1>11. \A x \in Events : x \in ToSet(g) \cup missed'[c] <=> c \in pubGoal'[x] \ pubLeft'[x]
  <2>1. \A x : x \in ToSet(g) \cup missed'[c] <=> x \in ToSet(s) \cup missed[c]
    BY <1>1, <1>4 DEF h
  <2> QED
    BY <1>1, <1>2, <2>1 DEF ClientInv, s
<1> QED
  BY <1>5, <1>9, <1>10, <1>11 DEF ClientInv

LEMMA StreamStep ==
  ASSUME IngestType, EventsInv, StreamInv, [Next]_vars PROVE StreamInv'
<1>0. /\ StreamType /\ \A c \in Clients : ClientInv(c)
      /\ \A e \in Events : pubLeft[e] \subseteq pubGoal[e] /\ pubLeft[e] \subseteq hub
  BY DEF IngestType, StreamInv, ClientInv
<1>1. ASSUME \A e \in Events : pubLeft'[e] \subseteq pubGoal'[e] /\ pubLeft'[e] \subseteq hub',
             \A c \in Clients : ClientInv(c)'
      PROVE  StreamInv'
  BY <1>1 DEF StreamInv, ClientInv
<1>2. CASE UNCHANGED streamVars
  <2>1. UNCHANGED <<hub, chan, pubLeft, pubGoal, got, missed>>
    BY <1>2 DEF streamVars
  <2>2. \A c \in Clients : Sent(c)' = Sent(c)
    BY <2>1 DEF Sent
  <2>3. \A c \in Clients : ClientInv(c)'
    BY <1>0, <2>1, <2>2, ClientFrame
  <2> QED
    BY <1>0, <1>1, <2>1, <2>3
<1>3. ASSUME NEW e \in Events, PublishBegin(e) PROVE StreamInv'
  <2>1. "Publish" \in Due(e)
    BY <1>3, MakesCall DEF PublishBegin, IngestType, EventsInv, EventInv
  <2>2. pubGoal[e] = {} /\ pubLeft[e] = {}
    BY <2>1 DEF EventsInv, EventInv
  <2>3. /\ pubGoal'[e] = hub /\ pubLeft'[e] = hub
        /\ \A x \in Events : x # e => pubGoal'[x] = pubGoal[x] /\ pubLeft'[x] = pubLeft[x]
        /\ UNCHANGED <<hub, chan, got, missed>>
    BY <1>0, <1>3 DEF PublishBegin, StreamType
  <2>4. \A c \in Clients, x \in Events :
            c \in pubGoal'[x] \ pubLeft'[x] <=> c \in pubGoal[x] \ pubLeft[x]
    BY <2>2, <2>3
  <2>5. \A c \in Clients : Sent(c)' = Sent(c)
    BY <2>3 DEF Sent
  <2>6. \A c \in Clients : ClientInv(c)'
    BY <1>0, <2>3, <2>4, <2>5, ClientFrame
  <2>7. \A x \in Events : pubLeft'[x] \subseteq pubGoal'[x] /\ pubLeft'[x] \subseteq hub'
    BY <1>0, <2>3
  <2> QED
    BY <1>1, <2>6, <2>7
<1>4. ASSUME NEW e \in Events, NEW c \in Clients, Offer(e, c) PROVE StreamInv'
  <2>1. /\ pubLeft' = [pubLeft EXCEPT ![e] = @ \ {c}] /\ UNCHANGED <<hub, pubGoal, got>>
        /\ \A d \in Clients : d # c => chan'[d] = chan[d] /\ missed'[d] = missed[d]
    BY <1>0, <1>4 DEF Offer, StreamType
  <2>2. \A d \in Clients, x \in Events : d # c =>
            (d \in pubGoal'[x] \ pubLeft'[x] <=> d \in pubGoal[x] \ pubLeft[x])
    BY <1>0, <2>1 DEF StreamType
  <2>3. \A d \in Clients : d # c => Sent(d)' = Sent(d)
    BY <2>1 DEF Sent
  <2>4. \A d \in Clients : d # c => ClientInv(d)'
    BY <1>0, <2>1, <2>2, <2>3, ClientFrame
  <2>5. ClientInv(c)'
    BY <1>0, <1>4, ClientOffered
  <2>6. \A x \in Events : pubLeft'[x] \subseteq pubGoal'[x] /\ pubLeft'[x] \subseteq hub'
    BY <1>0, <2>1 DEF StreamType
  <2> QED
    BY <1>1, <2>4, <2>5, <2>6
<1>5. ASSUME NEW c \in Clients, Subscribe(c) PROVE StreamInv'
  <2>1. hub \subseteq hub' /\ UNCHANGED <<chan, pubLeft, pubGoal, got, missed>>
    BY <1>5 DEF Subscribe
  <2>2. \A d \in Clients : Sent(d)' = Sent(d)
    BY <2>1 DEF Sent
  <2>3. \A d \in Clients : ClientInv(d)'
    BY <1>0, <2>1, <2>2, ClientFrame
  <2>4. \A x \in Events : pubLeft'[x] \subseteq pubGoal'[x] /\ pubLeft'[x] \subseteq hub'
    BY <1>0, <2>1
  <2> QED
    BY <1>1, <2>3, <2>4
<1>6. ASSUME NEW c \in Clients, Deliver(c) PROVE StreamInv'
  <2>1. /\ chan[c] # <<>> /\ got'[c] = Append(got[c], Head(chan[c])) /\ chan'[c] = Tail(chan[c])
        /\ \A d \in Clients : d # c => got'[d] = got[d] /\ chan'[d] = chan[d]
        /\ UNCHANGED <<hub, pubLeft, pubGoal, missed>>
    BY <1>0, <1>6 DEF Deliver, StreamType
  <2>2. got[c] \in Seq(Events) /\ chan[c] \in Seq(Events)
    BY <1>0 DEF StreamType
  <2>3. Append(got[c], Head(chan[c])) \o Tail(chan[c]) = got[c] \o chan[c]
    BY <2>1, <2>2, SentMove
  <2>4. \A d \in Clients : Sent(d)' = Sent(d)
    BY <2>1, <2>3 DEF Sent
  <2>5. \A d \in Clients : ClientInv(d)'
    BY <1>0, <2>1, <2>4, ClientFrame
  <2>6. \A x \in Events : pubLeft'[x] \subseteq pubGoal'[x] /\ pubLeft'[x] \subseteq hub'
    BY <1>0, <2>1
  <2> QED
    BY <1>1, <2>5, <2>6
<1>7. ASSUME NEW c \in Clients, Unsubscribe(c) PROVE StreamInv'
  <2>1. /\ \A d \in Clients : d # c => chan'[d] = chan[d] /\ missed'[d] = missed[d]
        /\ UNCHANGED <<pubLeft, pubGoal, got>> /\ \A x \in Events : pubLeft[x] = {}
    BY <1>0, <1>7 DEF Unsubscribe, Publishing, StreamType
  <2>2. \A d \in Clients : d # c => Sent(d)' = Sent(d)
    BY <2>1 DEF Sent
  <2>3. \A d \in Clients : d # c => ClientInv(d)'
    BY <1>0, <2>1, <2>2, ClientFrame
  <2>4. ClientInv(c)'
    BY <1>0, <1>7, ClientLeft
  <2>5. \A x \in Events : pubLeft'[x] \subseteq pubGoal'[x] /\ pubLeft'[x] \subseteq hub'
    BY <2>1
  <2> QED
    BY <1>1, <2>3, <2>4, <2>5
<1> QED
  BY <1>2, <1>3, <1>4, <1>5, <1>6, <1>7, StreamCases

-----------------------------------------------------------------------------
(* The theorems.                                                            *)

IngestInv == IngestType /\ EventsInv /\ StatsInv /\ StreamInv

LEMMA InitInv == Init => IngestInv
<1> SUFFICES ASSUME Init PROVE IngestInv
  OBVIOUS
<1>1. PipeType
  BY DEF Init, PipeType, Undecided, EngineDecisions
<1>2. StoreType
  BY DEF Init, StoreType
<1>3. StreamType
  <2>1. <<>> \in Seq(Events) /\ Len(<<>>) <= ChanSize
    BY ConstantTypes
  <2> QED
    BY <2>1 DEF Init, StreamType
<1>4. QueueType
  BY DEF Init, Queue!Init, QueueType, Queue!Statuses
<1>5. EventsInv
  <2> SUFFICES ASSUME NEW e \in Events PROVE EventInv(e)
    BY DEF EventsInv
  <2>1. /\ pc[e] = "new" /\ todo[e] = <<>> /\ file = <<>> /\ lost = {} /\ status[e] = "new"
        /\ pubLeft[e] = {} /\ pubGoal[e] = {} /\ shown = {}
    BY DEF Init, Queue!Init
  <2>2. Due(e) = {} /\ ToSet(file) = {} /\ Ranked(todo[e], 1, 6)
    BY <2>1 DEF Due, ToSet, Ranked
  <2> QED
    BY <2>1, <2>2 DEF EventInv
<1>6. StatsInv
  <2>1. /\ stats.total = 0 /\ stats.stored = 0 /\ stats.dropped = 0
        /\ \A l \in Labels : stats.by[l] = 0
    BY DEF Init
  <2>2. ToSet(file) = {}
    BY DEF Init, ToSet
  <2>3. StoredNow = {} /\ \A l \in Labels : CountedAt(l) = {}
    BY <2>2 DEF Init, StoredNow, CountedAt
  <2>4. "drop" \in Labels
    BY DEF Labels
  <2> QED
    BY <2>1, <2>2, <2>3, <2>4, FS_EmptySet DEF StatsInv
<1>7. StreamInv
  <2>1. \A c \in Clients : Sent(c) = <<>> /\ missed[c] = {}
    BY DEF Init, Sent
  <2>2. \A e \in Events : pubLeft[e] = {} /\ pubGoal[e] = {}
    BY DEF Init
  <2> QED
    BY <2>1, <2>2 DEF StreamInv, ToSet
<1> QED
  BY <1>1, <1>2, <1>3, <1>4, <1>5, <1>6, <1>7 DEF IngestInv, IngestType

LEMMA NextInv == IngestInv /\ [Next]_vars => IngestInv'
<1> SUFFICES ASSUME IngestType, EventsInv, StatsInv, StreamInv, [Next]_vars PROVE IngestInv'
  BY DEF IngestInv
<1>1. IngestType'
  BY PipeTypeStep, StoreTypeStep, StreamTypeStep, QueueTypeStep DEF IngestType
<1>2. EventsInv'
  BY EventsStep
<1>3. StatsInv'
  BY <1>1, StatsStep
<1>4. StreamInv'
  BY StreamStep
<1> QED
  BY <1>1, <1>2, <1>3, <1>4 DEF IngestInv

LEMMA Invariance == Spec => []IngestInv
BY InitInv, NextInv, PTL DEF Spec

\* Every variable of the pipeline keeps its type; no channel holds more than its
\* capacity.
THEOREM TypeCorrect == Spec => []TypeOK
<1>1. IngestInv => TypeOK
  BY DEF IngestInv, IngestType, PipeType, StoreType, StreamType, QueueType, StreamInv, TypeOK
<1> QED
  BY <1>1, Invariance, PTL

\* Whatever fails, and whatever is switched meanwhile: an event was written, or its
\* Append failed, if and only if the rules said to store it; published if and only
\* if they said to show it and it is in the file; offered to the queue if and only
\* if they said to forward it and forwarding was on when its ingestion asked.
THEOREM DecisionsAreCarriedOut == Spec => []DecisionCarriedOut
<1>1. IngestInv => DecisionCarriedOut
  <2> SUFFICES ASSUME IngestInv, NEW e \in Events, Finished(e)
               PROVE  /\ dec[e].store <=> e \in ToSet(file) \cup lost
                      /\ e \in shown <=> dec[e].show /\ e \in ToSet(file)
                      /\ status[e] # "new" <=> dec[e].forward /\ saw[e]
    BY DEF DecisionCarriedOut
  <2>1. EventInv(e)
    BY DEF IngestInv, EventsInv
  <2>2. pc[e] = "running" /\ Due(e) = {}
    BY DEF Finished, Due, ToSet
  <2>3. "Append" \notin Due(e) /\ "Enqueue" \notin Due(e) /\ "Publish" \notin Due(e)
    BY <2>2
  <2> QED
    BY <2>1, <2>2, <2>3 DEF EventInv
<1> QED
  BY <1>1, Invariance, PTL

LEMMA StatsMatch == IngestInv => StatsMatchFile
<1> SUFFICES ASSUME IngestInv PROVE StatsMatchFile
  OBVIOUS
<1>0. StatsInv /\ \A e \in Events : EventInv(e)
  BY DEF IngestInv, EventsInv
<1> DEFINE late == Waiting("AddStored") \cap ToSet(file)
           kept == {e \in ToSet(file) : ~dec[e].drop}
<1>1. ToSet(file) \subseteq Events
  BY CountSets DEF IngestInv
<1>2. \A e \in Events : e \in Waiting("AddStored") <=> "AddStored" \in Due(e)
  BY DEF Waiting, Due, ToSet
<1>3. \A e \in Events : "AddStored" \in Due(e) => ~dec[e].drop
  BY <1>0 DEF EventInv
<1>4. StoredNow \cup late = kept /\ StoredNow \cap late = {}
  BY <1>1, <1>2, <1>3 DEF StoredNow
<1>5. IsFiniteSet(StoredNow) /\ IsFiniteSet(late)
  <2>1. IsFiniteSet(ToSet(file)) /\ StoredNow \subseteq ToSet(file) /\ late \subseteq ToSet(file)
    BY <1>0 DEF StatsInv, StoredNow
  <2> QED
    BY <2>1, FS_Subset
<1> HIDE DEF late, kept
<1>6. /\ Cardinality(StoredNow \cup late) = Cardinality(StoredNow) + Cardinality(late)
                                            - Cardinality(StoredNow \cap late)
      /\ Cardinality(StoredNow) \in Nat /\ Cardinality(late) \in Nat
  BY <1>5, FS_Union, FS_CardinalityType
<1>7. stats.stored + Cardinality(late) = Cardinality(kept)
  <2>1. Cardinality(StoredNow \cap late) = 0
    BY <1>4, FS_EmptySet
  <2>2. stats.stored = Cardinality(StoredNow)
    BY <1>0 DEF StatsInv
  <2>3. Cardinality(StoredNow \cup late) = Cardinality(kept)
    BY <1>4
  <2> QED
    BY <1>6, <2>1, <2>2, <2>3
<1>8. ASSUME Busy = {}
      PROVE  \A l \in Labels : stats.by[l] =
                Cardinality({e \in Events : pc[e] = "running" /\ Label(dec[e], will[e]) = l})
  <2>1. \A e \in Events : pc[e] = "running" => Due(e) = {}
    BY <1>8 DEF Busy, Finished, Due, ToSet
  <2>2. \A l \in Labels : CountedAt(l)
                            = {e \in Events : pc[e] = "running" /\ Label(dec[e], will[e]) = l}
    BY <2>1 DEF CountedAt
  <2> QED
    BY <1>0, <2>2 DEF StatsInv
<1> QED
  BY <1>0, <1>7, <1>8 DEF StatsMatchFile, StatsInv, late, kept

\* The statistics and the event file agree at all times, up to the events
\* between an Append and its AddStored.
THEOREM StatsMatchTheFile == Spec => []StatsMatchFile
BY StatsMatch, Invariance, PTL

LEMMA Served == IngestInv => StreamServed
<1> SUFFICES ASSUME IngestInv PROVE NoSendOnClosed /\ EachClientOnce
  BY DEF StreamServed
<1>1. NoSendOnClosed
  BY DEF IngestInv, StreamInv, NoSendOnClosed
<1>2. ASSUME NEW e \in Events, NEW c \in pubGoal[e] \ pubLeft[e]
      PROVE  Cardinality({i \in DOMAIN Sent(c) : Sent(c)[i] = e}) = IF e \in missed[c] THEN 0 ELSE 1
  <2>1. c \in Clients
    BY DEF IngestInv, IngestType, StreamType
  <2>2. ClientInv(c)
    BY <2>1 DEF IngestInv, StreamInv, ClientInv
  <2> DEFINE s == Sent(c)
             I == {i \in DOMAIN s : s[i] = e}
  <2>3. CASE e \in missed[c]
    <3>1. e \notin ToSet(s)
      BY <2>2, <2>3 DEF ClientInv
    <3>2. I = {}
      BY <3>1 DEF ToSet
    <3> QED
      BY <2>3, <3>2, FS_EmptySet
  <2>4. CASE e \notin missed[c]
    <3>1. e \in ToSet(s)
      BY <2>2, <2>4 DEF ClientInv
    <3>2. PICK i \in DOMAIN s : s[i] = e
      BY <3>1 DEF ToSet
    <3>3. I = {i}
      BY <2>2, <3>2 DEF ClientInv
    <3> QED
      BY <2>4, <3>3, FS_Singleton
  <2> QED
    BY <2>3, <2>4
<1>3. EachClientOnce
  BY <1>2 DEF EachClientOnce, Sent
<1> QED
  BY <1>1, <1>3

\* A Publish never sends on the channel of a client that has left, and each
\* client gets what was published while it was there once, or missed it because
\* its own channel was full or it left.
THEOREM StreamServesEach == Spec => []StreamServed
BY Served, Invariance, PTL

\* Seen from the queue, the pipeline is a client that its contract allows, with
\* any number of workers and any capacity: it offers every event at most once, and
\* whatever else happens between two calls of the queue leaves it alone. So what
\* the contract promises, which the queue's code is shown to keep, holds here.
LEMMA PipelineKeepsContract == Spec => Queue!Spec
<1>1. Init => Queue!Init
  BY DEF Init
<1>2. [Next]_vars => [Queue!Next]_<<lane, status>>
  <2> SUFFICES ASSUME [Next]_vars PROVE Queue!Next \/ UNCHANGED <<lane, status>>
    OBVIOUS
  <2>1. ASSUME NEW e \in Events, Enqueue(e) PROVE Queue!Next
    BY <2>1 DEF Enqueue, Queue!Next
  <2>2. ASSUME NEW e \in Events, IngestStep(e), ~Enqueue(e) PROVE UNCHANGED <<lane, status>>
    BY <2>2 DEF IngestStep, ReadForwarding, AddDecision, AddDropped, AddStored, AppendOK, AppendFails,
                PublishBegin, Offer, queueVars
  <2>3. ASSUME NEW e \in Events, NEW d \in Decisions, Evaluate(e, d) PROVE UNCHANGED <<lane, status>>
    BY <2>3 DEF Evaluate, queueVars
  <2>4. ASSUME NEW c \in Clients, Subscribe(c) \/ Deliver(c) \/ Unsubscribe(c)
        PROVE  UNCHANGED <<lane, status>>
    BY <2>4 DEF Subscribe, Deliver, Unsubscribe, queueVars
  <2>5. CASE SwitchForwarding
    BY <2>5 DEF SwitchForwarding, queueVars
  <2>6. CASE QueueStep
    BY <2>6 DEF QueueStep, Queue!Next
  <2>7. CASE UNCHANGED vars
    BY <2>7 DEF vars, queueVars
  <2> QED
    BY <2>1, <2>2, <2>3, <2>4, <2>5, <2>6, <2>7 DEF Next
<1> QED
  BY <1>1, <1>2, PTL DEF Spec, Queue!Spec

\* What the contract promises: the lane holds the pending events, each once and no
\* more than fit, and no more are with the workers than there are workers.
Held == {e \in Events : status[e] = "held"}
QueueSafe ==
    /\ Len(lane) <= QueueSize
    /\ \A i, j \in DOMAIN lane : lane[i] = lane[j] => i = j
    /\ \A e \in Events : status[e] = "pending" <=> \E i \in DOMAIN lane : lane[i] = e
    /\ IsFiniteSet(Held) /\ Cardinality(Held) <= Workers

LEMMA QueueSafeStep ==
  ASSUME IngestType, QueueSafe, [Queue!Next]_<<lane, status>>
  PROVE  QueueSafe'
<1>1. /\ lane \in Seq(Events) /\ status \in [Events -> Queue!Statuses]
      /\ QueueSize \in Nat \ {0} /\ Workers \in Nat \ {0}
  BY IngestAssumption DEF IngestType, QueueType
<1>2. ASSUME NEW t \in Events, Queue!Accept(t) PROVE QueueSafe'
  <2>1. /\ status[t] = "new" /\ Len(lane) < QueueSize
        /\ lane' = Append(lane, t) /\ status' = [status EXCEPT ![t] = "pending"]
    BY <1>2 DEF Queue!Accept
  <2>2. /\ Len(lane') = Len(lane) + 1 /\ DOMAIN lane' = 1 .. Len(lane) + 1 /\ DOMAIN lane = 1 .. Len(lane)
        /\ \A i \in DOMAIN lane : lane'[i] = lane[i]
        /\ lane'[Len(lane) + 1] = t /\ Len(lane) \in Nat
    BY <1>1, <2>1
  <2>3. \A i \in DOMAIN lane : lane[i] # t
    BY <2>1 DEF QueueSafe
  <2>4. \A i, j \in DOMAIN lane' : lane'[i] = lane'[j] => i = j
    BY <2>2, <2>3 DEF QueueSafe
  <2>5. \A e \in Events : status'[e] = IF e = t THEN "pending" ELSE status[e]
    BY <1>1, <2>1
  <2>6. \A e \in Events : status'[e] = "pending" <=> \E i \in DOMAIN lane' : lane'[i] = e
    BY <2>2, <2>3, <2>5 DEF QueueSafe
  <2>7. Held' = Held
    BY <2>1, <2>5 DEF Held
  <2> QED
    BY <1>1, <2>1, <2>2, <2>4, <2>6, <2>7 DEF QueueSafe
<1>3. ASSUME NEW t \in Events, Queue!Reject(t) PROVE QueueSafe'
  <2>1. status[t] = "new" /\ lane' = lane /\ status' = [status EXCEPT ![t] = "refused"]
    BY <1>3 DEF Queue!Reject
  <2>2. \A e \in Events : status'[e] = IF e = t THEN "refused" ELSE status[e]
    BY <1>1, <2>1
  <2>3. Held' = Held
    BY <2>1, <2>2 DEF Held
  <2> QED
    BY <2>1, <2>2, <2>3 DEF QueueSafe
<1>4. CASE Queue!TakeOrDrop
  <2> DEFINE h == Head(lane)
  <2>1. /\ lane # <<>> /\ lane' = Tail(lane)
        /\ \/ /\ Queue!Cardinality(Queue!AtStatus("held")) < Workers
              /\ status' = [status EXCEPT ![h] = "held"]
           \/ status' = [status EXCEPT ![h] = "dropped"]
    BY <1>4 DEF Queue!TakeOrDrop
  <2>2. /\ h = lane[1] /\ h \in Events /\ 1 \in DOMAIN lane /\ Len(lane) \in Nat
        /\ Len(lane') = Len(lane) - 1 /\ DOMAIN lane' = 1 .. Len(lane) - 1 /\ DOMAIN lane = 1 .. Len(lane)
        /\ \A i \in DOMAIN lane' : lane'[i] = lane[i + 1]
    BY <1>1, <2>1
  <2> HIDE DEF h
  <2>3. \A i, j \in DOMAIN lane' : lane'[i] = lane'[j] => i = j
    BY <2>2 DEF QueueSafe
  <2>4. \A e \in Events : (\E i \in DOMAIN lane' : lane'[i] = e) <=> e # h /\ \E i \in DOMAIN lane : lane[i] = e
    <3>1. ASSUME NEW e \in Events, NEW i \in DOMAIN lane', lane'[i] = e
          PROVE  e # h /\ \E j \in DOMAIN lane : lane[j] = e
      BY <2>2, <3>1 DEF QueueSafe
    <3>2. ASSUME NEW e \in Events, NEW i \in DOMAIN lane, lane[i] = e, e # h
          PROVE  \E j \in DOMAIN lane' : lane'[j] = e
      <4>1. i - 1 \in DOMAIN lane' /\ lane'[i - 1] = lane[i]
        BY <2>2, <3>2
      <4> QED
        BY <3>2, <4>1
    <3> QED
      BY <3>1, <3>2
  <2>5. status[h] = "pending"
    BY <2>2 DEF QueueSafe
  <2>6. CASE /\ Queue!Cardinality(Queue!AtStatus("held")) < Workers
             /\ status' = [status EXCEPT ![h] = "held"]
    <3>1. \A e \in Events : status'[e] = IF e = h THEN "held" ELSE status[e]
      BY <1>1, <2>6
    <3>2. Queue!Cardinality(Queue!AtStatus("held")) = Cardinality(Held)
      <4>1. Queue!AtStatus("held") = Held
        BY DEF Queue!AtStatus, Held
      <4>2. Queue!Cardinality(Queue!AtStatus("held")) = Cardinality(Queue!AtStatus("held"))
        BY DEF Queue!Cardinality, Cardinality
      <4> QED
        BY <4>1, <4>2
    <3>3. Held' = Held \cup {h} /\ h \notin Held
      BY <2>2, <2>5, <3>1 DEF Held
    <3>4. /\ IsFiniteSet(Held \cup {h}) /\ Cardinality(Held \cup {h}) = Cardinality(Held) + 1
          /\ Cardinality(Held) \in Nat
      BY <3>3, FS_AddElement, FS_CardinalityType DEF QueueSafe
    <3>5. Cardinality(Held') <= Workers
      BY <1>1, <2>6, <3>2, <3>3, <3>4
    <3> QED
      BY <1>1, <2>2, <2>3, <2>4, <3>1, <3>3, <3>4, <3>5 DEF QueueSafe
  <2>7. CASE status' = [status EXCEPT ![h] = "dropped"]
    <3>1. \A e \in Events : status'[e] = IF e = h THEN "dropped" ELSE status[e]
      BY <1>1, <2>7
    <3>2. Held' = Held
      BY <2>5, <3>1 DEF Held
    <3> QED
      BY <1>1, <2>2, <2>3, <2>4, <3>1, <3>2 DEF QueueSafe
  <2> QED
    BY <2>1, <2>6, <2>7
<1>5. ASSUME NEW t \in Events, Queue!Resolve(t) PROVE QueueSafe'
  <2>1. status[t] = "held" /\ lane' = lane /\ status' = [status EXCEPT ![t] = "resolved"]
    BY <1>5 DEF Queue!Resolve
  <2>2. \A e \in Events : status'[e] = IF e = t THEN "resolved" ELSE status[e]
    BY <1>1, <2>1
  <2>3. Held' \subseteq Held
    BY <2>2 DEF Held
  <2>4. /\ IsFiniteSet(Held') /\ Cardinality(Held') <= Cardinality(Held)
        /\ Cardinality(Held') \in Nat /\ Cardinality(Held) \in Nat
    BY <2>3, FS_Subset, FS_CardinalityType DEF QueueSafe
  <2>5. Cardinality(Held') <= Workers
    BY <1>1, <2>4 DEF QueueSafe
  <2> QED
    BY <2>1, <2>2, <2>4, <2>5 DEF QueueSafe
<1>6. CASE UNCHANGED <<lane, status>>
  BY <1>6 DEF QueueSafe, Held
<1> QED
  BY <1>2, <1>3, <1>4, <1>5, <1>6 DEF Queue!Next

\* Whatever the pipeline does, the queue it feeds holds no event twice, none more
\* than fit, and has no more with its workers than there are.
THEOREM PipelineQueueSafe == Spec => []QueueSafe
<1>1. Init => QueueSafe
  <2> SUFFICES ASSUME Init PROVE QueueSafe
    OBVIOUS
  <2>1. lane = <<>> /\ \A e \in Events : status[e] = "new"
    BY DEF Init, Queue!Init
  <2>2. Held = {}
    BY <2>1 DEF Held
  <2> QED
    BY <2>1, <2>2, FS_EmptySet, IngestAssumption DEF QueueSafe
<1>2. IngestInv /\ QueueSafe /\ [Queue!Next]_<<lane, status>> => QueueSafe'
  BY QueueSafeStep DEF IngestInv
<1> QED
  BY <1>1, <1>2, Invariance, PipelineKeepsContract, PTL DEF Spec, Queue!Spec

-----------------------------------------------------------------------------
(* The rows of the tables.                                                  *)

\* What an urgent line may say and no pattern is against.
Harmless == {"user ", "alarm", "client connected", "hello"}

\* The names of an event that Apply marks as worth an alert.
Marked == AlertNames \cup {"scada_opcua_connection_lost"}

\* What a row of a source's table does, and what it leaves.
RowSound(source, row) ==
    /\ row[4] \in Severities \cup {"", "error if info", "warning if info"}
    /\ row[1] \cap Harmless = {}
    /\ source # "firewall" => row[3] \notin {"", "network", "network_traffic if system"}
    /\ source = "opcua" => row[3] # "operator_action"
    /\ source \in {"scada", "ews"} /\ row[2] \in Marked => row[3] # "system_health"
    /\ source = "gds_agent" => row[2] \in row[1]
    /\ source = "gds_agent" /\ row[2] \in Marked => row[4] \in {"critical", "warning"}

LEMMA FirewallRowsSound == \A i \in DOMAIN FirewallRows : RowSound("firewall", FirewallRows[i])
<1>1. DOMAIN FirewallRows = 1 .. 3
  BY DEF FirewallRows
<1>2. /\ RowSound("firewall", FirewallRows[1])
      /\ RowSound("firewall", FirewallRows[2])
      /\ RowSound("firewall", FirewallRows[3])
  BY DEF FirewallRows, RowSound, Marked, AlertNames, Severities, Harmless
<1> QED
  BY <1>1, <1>2

LEMMA PLCRowsSound == \A i \in DOMAIN PLCRows : RowSound("plc", PLCRows[i])
<1>1. DOMAIN PLCRows = 1 .. 5
  BY DEF PLCRows
<1>2. /\ RowSound("plc", PLCRows[1])
      /\ RowSound("plc", PLCRows[2])
      /\ RowSound("plc", PLCRows[3])
      /\ RowSound("plc", PLCRows[4])
      /\ RowSound("plc", PLCRows[5])
  BY DEF PLCRows, RowSound, Marked, AlertNames, Severities, Harmless
<1> QED
  BY <1>1, <1>2

LEMMA SCADARowsSound == \A i \in DOMAIN SCADARows : RowSound("scada", SCADARows[i])
<1>1. DOMAIN SCADARows = 1 .. 17
  BY DEF SCADARows
<1>2. /\ RowSound("scada", SCADARows[1])
      /\ RowSound("scada", SCADARows[2])
      /\ RowSound("scada", SCADARows[3])
      /\ RowSound("scada", SCADARows[4])
      /\ RowSound("scada", SCADARows[5])
  BY DEF SCADARows, RowSound, Marked, AlertNames, Severities, Harmless
<1>3. /\ RowSound("scada", SCADARows[6])
      /\ RowSound("scada", SCADARows[7])
      /\ RowSound("scada", SCADARows[8])
      /\ RowSound("scada", SCADARows[9])
      /\ RowSound("scada", SCADARows[10])
  BY DEF SCADARows, RowSound, Marked, AlertNames, Severities, Harmless
<1>4. /\ RowSound("scada", SCADARows[11])
      /\ RowSound("scada", SCADARows[12])
      /\ RowSound("scada", SCADARows[13])
      /\ RowSound("scada", SCADARows[14])
      /\ RowSound("scada", SCADARows[15])
  BY DEF SCADARows, RowSound, Marked, AlertNames, Severities, Harmless
<1>5. /\ RowSound("scada", SCADARows[16])
      /\ RowSound("scada", SCADARows[17])
  BY DEF SCADARows, RowSound, Marked, AlertNames, Severities, Harmless
<1> QED
  BY <1>1, <1>2, <1>3, <1>4, <1>5

LEMMA EWSRowsSound == \A i \in DOMAIN EWSRows : RowSound("ews", EWSRows[i])
<1>1. DOMAIN EWSRows = 1 .. 5
  BY DEF EWSRows
<1>2. /\ RowSound("ews", EWSRows[1])
      /\ RowSound("ews", EWSRows[2])
      /\ RowSound("ews", EWSRows[3])
      /\ RowSound("ews", EWSRows[4])
      /\ RowSound("ews", EWSRows[5])
  BY DEF EWSRows, RowSound, Marked, AlertNames, Severities, Harmless
<1> QED
  BY <1>1, <1>2

LEMMA OPCUARowsSound == \A i \in DOMAIN OPCUARows : RowSound("opcua", OPCUARows[i])
<1>1. DOMAIN OPCUARows = 1 .. 13
  BY DEF OPCUARows
<1>2. /\ RowSound("opcua", OPCUARows[1])
      /\ RowSound("opcua", OPCUARows[2])
      /\ RowSound("opcua", OPCUARows[3])
      /\ RowSound("opcua", OPCUARows[4])
      /\ RowSound("opcua", OPCUARows[5])
  BY DEF OPCUARows, RowSound, Marked, AlertNames, Severities, Harmless
<1>3. /\ RowSound("opcua", OPCUARows[6])
      /\ RowSound("opcua", OPCUARows[7])
      /\ RowSound("opcua", OPCUARows[8])
      /\ RowSound("opcua", OPCUARows[9])
      /\ RowSound("opcua", OPCUARows[10])
  BY DEF OPCUARows, RowSound, Marked, AlertNames, Severities, Harmless
<1>4. /\ RowSound("opcua", OPCUARows[11])
      /\ RowSound("opcua", OPCUARows[12])
      /\ RowSound("opcua", OPCUARows[13])
  BY DEF OPCUARows, RowSound, Marked, AlertNames, Severities, Harmless
<1> QED
  BY <1>1, <1>2, <1>3, <1>4

LEMMA GDSAgentRowsSound == \A i \in DOMAIN GDSAgentRows : RowSound("gds_agent", GDSAgentRows[i])
<1>1. DOMAIN GDSAgentRows = 1 .. 14
  BY DEF GDSAgentRows
<1>2. /\ RowSound("gds_agent", GDSAgentRows[1])
      /\ RowSound("gds_agent", GDSAgentRows[2])
      /\ RowSound("gds_agent", GDSAgentRows[3])
      /\ RowSound("gds_agent", GDSAgentRows[4])
      /\ RowSound("gds_agent", GDSAgentRows[5])
  BY DEF GDSAgentRows, RowSound, Marked, AlertNames, Severities, Harmless
<1>3. /\ RowSound("gds_agent", GDSAgentRows[6])
      /\ RowSound("gds_agent", GDSAgentRows[7])
      /\ RowSound("gds_agent", GDSAgentRows[8])
      /\ RowSound("gds_agent", GDSAgentRows[9])
      /\ RowSound("gds_agent", GDSAgentRows[10])
  BY DEF GDSAgentRows, RowSound, Marked, AlertNames, Severities, Harmless
<1>4. /\ RowSound("gds_agent", GDSAgentRows[11])
      /\ RowSound("gds_agent", GDSAgentRows[12])
      /\ RowSound("gds_agent", GDSAgentRows[13])
      /\ RowSound("gds_agent", GDSAgentRows[14])
  BY DEF GDSAgentRows, RowSound, Marked, AlertNames, Severities, Harmless
<1> QED
  BY <1>1, <1>2, <1>3, <1>4

LEMMA FUXAGDSRowsSound == \A i \in DOMAIN FUXAGDSRows : RowSound("scada_gds_client", FUXAGDSRows[i])
<1>1. DOMAIN FUXAGDSRows = 1 .. 3
  BY DEF FUXAGDSRows
<1>2. /\ RowSound("scada_gds_client", FUXAGDSRows[1])
      /\ RowSound("scada_gds_client", FUXAGDSRows[2])
      /\ RowSound("scada_gds_client", FUXAGDSRows[3])
  BY DEF FUXAGDSRows, RowSound, Marked, AlertNames, Severities, Harmless
<1> QED
  BY <1>1, <1>2

LEMMA TablesAre ==
  /\ DOMAIN Tables = {"firewall", "plc", "scada", "ews", "opcua", "gds_agent", "scada_gds_client"}
  /\ Tables["firewall"] = FirewallRows /\ Tables["plc"] = PLCRows /\ Tables["scada"] = SCADARows
  /\ Tables["ews"] = EWSRows /\ Tables["opcua"] = OPCUARows /\ Tables["gds_agent"] = GDSAgentRows
  /\ Tables["scada_gds_client"] = FUXAGDSRows
BY DEF Tables

\* Every row of every table is sound: the one enumeration of the tables here.
LEMMA RowsSound ==
  \A source \in DOMAIN Tables : \A i \in DOMAIN Tables[source] : RowSound(source, Tables[source][i])
BY TablesAre, FirewallRowsSound, PLCRowsSound, SCADARowsSound, EWSRowsSound, OPCUARowsSound,
   GDSAgentRowsSound, FUXAGDSRowsSound

\* Every name of high value is one that Apply marks.
LEMMA HighValueIsMarked == HighValue \subseteq Marked
BY DEF HighValue, Marked, AlertNames
LEMMA NamesAre ==
  \A source \in DOMAIN Tables : \A i \in DOMAIN Tables[source] : Tables[source][i][2] \in Names
BY DEF Names, NamesOf, NamesIn

LEMMA TablesIndexed == \A source \in DOMAIN Tables : DOMAIN Tables[source] \subseteq Nat
<1>1. /\ DOMAIN FirewallRows = 1 .. 3 /\ DOMAIN PLCRows = 1 .. 5 /\ DOMAIN SCADARows = 1 .. 17
      /\ DOMAIN EWSRows = 1 .. 5 /\ DOMAIN OPCUARows = 1 .. 13 /\ DOMAIN GDSAgentRows = 1 .. 14
      /\ DOMAIN FUXAGDSRows = 1 .. 3
  BY DEF FirewallRows, PLCRows, SCADARows, EWSRows, OPCUARows, GDSAgentRows, FUXAGDSRows
<1> QED
  BY <1>1, TablesAre

-----------------------------------------------------------------------------
(* The fields and the tags of an event.                                     *)

\* The fields of an event.
Fields == {"source_type", "severity", "event_category", "message", "raw", "tags"}

\* What Merge gives, key by key.
LEMMA Merged ==
  ASSUME NEW f, NEW g
  PROVE  /\ DOMAIN Merge(f, g) = DOMAIN f \cup DOMAIN g
         /\ \A k \in DOMAIN f : Merge(f, g)[k] = f[k]
         /\ \A k \in DOMAIN g : k \notin DOMAIN f => Merge(f, g)[k] = g[k]
BY DEF Merge

\* out has the tags of e, and besides them only some of K.
TagsKept(e, out, K) ==
    /\ DOMAIN e.tags \subseteq DOMAIN out.tags /\ DOMAIN out.tags \subseteq DOMAIN e.tags \cup K
    /\ \A k \in DOMAIN out.tags : k \notin K => out.tags[k] = e.tags[k]

LEMMA TagsKeptTag ==
  ASSUME NEW e, NEW out, NEW K, TagsKept(e, out, K)
  PROVE  \A k : k \notin K => Tag(out, k) = Tag(e, k)
BY DEF TagsKept, Tag

LEMMA TagsKeptTwice ==
  ASSUME NEW e, NEW mid, NEW out, NEW K, NEW L, TagsKept(e, mid, K), TagsKept(mid, out, L)
  PROVE  TagsKept(e, out, K \cup L)
BY DEF TagsKept

\* SetTag changes one tag and no field.
LEMMA SetTagIs ==
  ASSUME NEW e, DOMAIN e = Fields, NEW key, NEW value, NEW out, out = SetTag(e, key, value)
  PROVE  /\ DOMAIN out = Fields /\ out.source_type = e.source_type /\ out.severity = e.severity
         /\ out.event_category = e.event_category /\ out.message = e.message /\ out.raw = e.raw
         /\ TagsKept(e, out, {key}) /\ Tag(out, key) = value
<1> DEFINE new == [k \in {key} |-> value]
           tags == Merge(new, e.tags)
<1>1. /\ out = [e EXCEPT !.tags = tags]
      /\ DOMAIN tags = {key} \cup DOMAIN e.tags /\ tags[key] = value
      /\ \A k \in DOMAIN tags : k # key => tags[k] = e.tags[k]
  <2>1. out = [e EXCEPT !.tags = tags]
    BY DEF SetTag
  <2>2. DOMAIN new = {key} /\ new[key] = value
    OBVIOUS
  <2> HIDE DEF new
  <2>3. /\ DOMAIN tags = DOMAIN new \cup DOMAIN e.tags
        /\ \A k \in DOMAIN new : tags[k] = new[k]
        /\ \A k \in DOMAIN e.tags : k \notin DOMAIN new => tags[k] = e.tags[k]
    BY Merged
  <2> HIDE DEF tags
  <2> QED
    BY <2>1, <2>2, <2>3
<1> HIDE DEF tags
<1>2. DOMAIN out = Fields /\ out.tags = tags
  BY <1>1 DEF Fields
<1>3. TagsKept(e, out, {key})
  BY <1>1, <1>2 DEF TagsKept
<1>4. Tag(out, key) = value
  BY <1>1, <1>2 DEF Tag
<1>5. /\ out.source_type = e.source_type /\ out.severity = e.severity
      /\ out.event_category = e.event_category /\ out.message = e.message /\ out.raw = e.raw
  BY <1>1 DEF Fields
<1> QED
  BY <1>2, <1>3, <1>4, <1>5

\* A text that hits a row has a first row it hits.
LEMMA FirstHitIs ==
  ASSUME NEW rows, DOMAIN rows \subseteq Nat, NEW text, Hits(rows, text) # {}
  PROVE  FirstHit(rows, text) \in Hits(rows, text)
<1>1. Hits(rows, text) \subseteq Nat
  BY DEF Hits
<1>2. \E i \in Hits(rows, text) : \A j \in Hits(rows, text) : i <= j
  BY <1>1, NatMin
<1> QED
  BY <1>2 DEF FirstHit

\* A row of a table names an event.
ByRow(e, out, row) ==
    /\ out.message = Text({row[2]}) /\ out.event_category = CategorySet(e.event_category, row[3])
    /\ out.severity = SeveritySet(e.severity, row[4])

\* Named leaves the event alone, or gives it what one row that was hit says.
LEMMA NamedIs ==
  ASSUME NEW e, DOMAIN e = Fields, NEW rows, DOMAIN rows \subseteq Nat, NEW text,
         NEW out, out = Named(e, rows, text)
  PROVE  /\ DOMAIN out = Fields /\ out.source_type = e.source_type /\ out.raw = e.raw
         /\ out.tags = e.tags
         /\ Hits(rows, text) = {} => out = e
         /\ Hits(rows, text) # {} =>
               FirstHit(rows, text) \in Hits(rows, text) /\ ByRow(e, out, rows[FirstHit(rows, text)])
<1>1. CASE Hits(rows, text) = {}
  BY <1>1 DEF Named
<1>2. CASE Hits(rows, text) # {}
  <2> DEFINE row == rows[FirstHit(rows, text)]
  <2>1. out = [e EXCEPT !.message = Text({row[2]}), !.event_category = CategorySet(@, row[3]),
                        !.severity = SeveritySet(@, row[4])]
    BY <1>2 DEF Named
  <2>2. FirstHit(rows, text) \in Hits(rows, text)
    BY <1>2, FirstHitIs
  <2> HIDE DEF row
  <2>3. /\ DOMAIN out = Fields /\ out.source_type = e.source_type /\ out.raw = e.raw
        /\ out.tags = e.tags /\ ByRow(e, out, row)
    BY <2>1 DEF Fields, ByRow
  <2> QED
    BY <1>2, <2>2, <2>3 DEF row
<1> QED
  BY <1>1, <1>2
-----------------------------------------------------------------------------
(* What the source normalizers make of an event.                            *)

\* The text its source's table is searched for.
Searched(e) == IF e.source_type = "firewall" THEN {Action(e)} ELSE e.message

\* The levels that a SCADA line may begin with.
Levels == {"[error]", "[err]", "[warn]", "[warning]"}

\* The severity is kept, or a level at the head of the line stands for it.
Leveled(e, severity) ==
    \/ severity = e.severity
    \/ /\ e.source_type = "scada" /\ e.severity = "info" /\ severity \in {"error", "warning"}
       /\ HasAny(e.message, Levels)

\* No row names it; an event type does, in place of an OPC UA table.
Unnamed(e, out) ==
    /\ out.event_category = e.event_category /\ Leveled(e, out.severity)
    /\ \/ out.message = e.message
       \/ e.source_type = "opcua" /\ Tag(e, "event_type") # "" /\ out.message = Text({Tag(e, "event_type")})
    /\ e.source_type \in DOMAIN Tables => Hits(Tables[e.source_type], Searched(e)) = {}

\* The event was named by a row of its source's table.
NamedByRow(e, out) ==
    /\ e.source_type \in DOMAIN Tables
    /\ \E i \in Hits(Tables[e.source_type], Searched(e)) :
          LET row == Tables[e.source_type][i]
          IN  /\ out.message = Text({row[2]}) /\ out.event_category = CategorySet(e.event_category, row[3])
              /\ \E old : Leveled(e, old) /\ out.severity = SeveritySet(old, row[4])

\* The rest of an event stays; alert_candidate is set by the one row.
RestKept(e, out) ==
    /\ DOMAIN out = Fields /\ out.source_type = e.source_type /\ out.raw = e.raw
    /\ TagsKept(e, out, {"action", "alert_candidate"})
    /\ \/ Tag(out, "alert_candidate") = Tag(e, "alert_candidate")
       \/ out.message = Text({"scada_opcua_connection_lost"}) /\ e.source_type = "scada"

\* What a source's normalizer may do to an event before the table is searched.
Prepared(e, mid) ==
    /\ DOMAIN mid = Fields /\ mid.source_type = e.source_type /\ mid.raw = e.raw
    /\ mid.event_category = e.event_category /\ Leveled(e, mid.severity)
    /\ \/ mid.message = e.message
       \/ e.source_type = "opcua" /\ Tag(e, "event_type") # "" /\ mid.message = Text({Tag(e, "event_type")})

LEMMA NamedBySource ==
  ASSUME NEW e, e.source_type \in DOMAIN Tables, NEW mid, Prepared(e, mid),
         NEW rows, rows = Tables[e.source_type], NEW text, text = Searched(e),
         NEW out, out = Named(mid, rows, text)
  PROVE  /\ DOMAIN out = Fields /\ out.source_type = e.source_type /\ out.raw = e.raw
         /\ out.tags = mid.tags
         /\ Unnamed(e, out) \/ NamedByRow(e, out)
         /\ Hits(rows, text) # {} => out.message = Text({rows[FirstHit(rows, text)][2]})
<1>0. DOMAIN mid = Fields
  BY DEF Prepared
<1>1. DOMAIN rows \subseteq Nat
  BY TablesIndexed
<1>2. /\ DOMAIN out = Fields /\ out.source_type = mid.source_type /\ out.raw = mid.raw
      /\ out.tags = mid.tags
      /\ Hits(rows, text) = {} => out = mid
      /\ Hits(rows, text) # {} =>
            FirstHit(rows, text) \in Hits(rows, text) /\ ByRow(mid, out, rows[FirstHit(rows, text)])
  BY <1>1, <1>0, NamedIs
<1>3. CASE Hits(rows, text) = {}
  <2>1. Unnamed(e, out)
    BY <1>2, <1>3 DEF Unnamed, Prepared
  <2> QED
    BY <1>2, <1>3, <2>1 DEF Prepared
<1>4. CASE Hits(rows, text) # {}
  <2> DEFINE i == FirstHit(rows, text)
  <2>1. i \in Hits(Tables[e.source_type], Searched(e)) /\ ByRow(mid, out, Tables[e.source_type][i])
    BY <1>2, <1>4
  <2> HIDE DEF i
  <2>3. NamedByRow(e, out)
    BY <2>1 DEF ByRow, NamedByRow, Prepared
  <2> QED
    BY <1>2, <1>4, <2>1, <2>3 DEF ByRow, i, Prepared
<1> QED
  BY <1>3, <1>4

LEMMA SameTags == ASSUME NEW e, NEW out, out.tags = e.tags PROVE \A K : TagsKept(e, out, K)
BY DEF TagsKept

LEMMA PlainTable ==
  ASSUME NEW e, DOMAIN e = Fields, e.source_type \in DOMAIN Tables, e.source_type # "firewall",
         NEW out, out = Named(e, Tables[e.source_type], e.message)
  PROVE  RestKept(e, out) /\ (Unnamed(e, out) \/ NamedByRow(e, out))
<1>1. /\ DOMAIN out = Fields /\ out.source_type = e.source_type /\ out.raw = e.raw
      /\ out.tags = e.tags /\ (Unnamed(e, out) \/ NamedByRow(e, out))
  <2>1. e.message = Searched(e) /\ Prepared(e, e)
    BY DEF Searched, Leveled, Prepared
  <2>2. PICK rows, text : rows = Tables[e.source_type] /\ text = Searched(e)
    OBVIOUS
  <2>3. out = Named(e, rows, text)
    BY <2>1, <2>2
  <2>4. /\ DOMAIN out = Fields /\ out.source_type = e.source_type /\ out.raw = e.raw
        /\ out.tags = e.tags
        /\ Unnamed(e, out) \/ NamedByRow(e, out)
        /\ Hits(rows, text) # {} => out.message = Text({rows[FirstHit(rows, text)][2]})
    BY <2>1, <2>2, <2>3, NamedBySource
  <2> QED
    BY <2>4
<1>2. RestKept(e, out)
  BY <1>1, SameTags DEF RestKept, Tag
<1> QED
  BY <1>1, <1>2

LEMMA FirewallTable ==
  ASSUME NEW e, DOMAIN e = Fields, e.source_type = "firewall", NEW out, out = applyFirewall(e)
  PROVE  RestKept(e, out) /\ (Unnamed(e, out) \/ NamedByRow(e, out))
<1> DEFINE mid == IF Action(e) = "" THEN e ELSE SetTag(e, "action", Action(e))
<1>1. /\ DOMAIN mid = Fields /\ mid.source_type = e.source_type /\ mid.raw = e.raw
      /\ mid.event_category = e.event_category /\ mid.severity = e.severity /\ mid.message = e.message
      /\ TagsKept(e, mid, {"action"})
  <2>1. CASE Action(e) = ""
    BY <2>1, SameTags
  <2>2. CASE Action(e) # ""
    <3>1. mid = SetTag(e, "action", Action(e))
      BY <2>2
    <3> HIDE DEF mid
    <3> QED
      BY <3>1, SetTagIs
  <2> QED
    BY <2>1, <2>2
<1>2. out = Named(mid, FirewallRows, {Action(e)})
  BY DEF applyFirewall
<1> HIDE DEF mid
<1>3. /\ DOMAIN out = Fields /\ out.source_type = e.source_type /\ out.raw = e.raw
      /\ out.tags = mid.tags /\ (Unnamed(e, out) \/ NamedByRow(e, out))
  <2>1. /\ e.source_type \in DOMAIN Tables /\ FirewallRows = Tables[e.source_type]
        /\ {Action(e)} = Searched(e) /\ Prepared(e, mid)
    BY <1>1, TablesAre DEF Searched, Leveled, Prepared
  <2>2. PICK rows, text : rows = FirewallRows /\ text = {Action(e)}
    OBVIOUS
  <2>3. out = Named(mid, rows, text) /\ rows = Tables[e.source_type] /\ text = Searched(e)
    BY <1>2, <2>1, <2>2
  <2>4. /\ DOMAIN out = Fields /\ out.source_type = e.source_type /\ out.raw = e.raw
        /\ out.tags = mid.tags
        /\ Unnamed(e, out) \/ NamedByRow(e, out)
        /\ Hits(rows, text) # {} => out.message = Text({rows[FirstHit(rows, text)][2]})
    BY <2>1, <2>3, NamedBySource
  <2> QED
    BY <2>4
<1>4. TagsKept(mid, out, {})
  BY <1>3, SameTags
<1>5. TagsKept(e, out, {"action"})
  BY <1>1, <1>4, TagsKeptTwice
<1>6. TagsKept(e, out, {"action", "alert_candidate"})
  BY <1>5 DEF TagsKept
<1>7. Tag(out, "alert_candidate") = Tag(e, "alert_candidate")
  BY <1>5, TagsKeptTag
<1> QED
  BY <1>3, <1>6, <1>7 DEF RestKept
LEMMA SCADATable ==
  ASSUME NEW e, DOMAIN e = Fields, e.source_type = "scada", NEW out, out = applySCADA(e)
  PROVE  RestKept(e, out) /\ (Unnamed(e, out) \/ NamedByRow(e, out))
<1> DEFINE severity == IF e.severity = "info" /\ HasAny(e.message, {"[error]", "[err]"}) THEN "error"
                       ELSE IF e.severity = "info" /\ HasAny(e.message, {"[warn]", "[warning]"})
                            THEN "warning"
                       ELSE e.severity
           mid == [e EXCEPT !.severity = severity]
           named == Named(mid, SCADARows, e.message)
           marked == /\ Hits(SCADARows, e.message) # {}
                     /\ SCADARows[FirstHit(SCADARows, e.message)][2] = "scada_opcua_connection_lost"
<1>1. out = IF marked THEN SetTag(named, "alert_candidate", "true") ELSE named
  BY DEF applySCADA
<1>2. Prepared(e, mid) /\ mid.tags = e.tags
  <2>1. Leveled(e, severity)
    BY DEF Leveled, HasAny, Levels
  <2> HIDE DEF severity
  <2> QED
    BY <2>1 DEF Prepared, Fields
<1> HIDE DEF mid
<1>3. /\ DOMAIN named = Fields /\ named.source_type = e.source_type /\ named.raw = e.raw
      /\ named.tags = mid.tags
      /\ Unnamed(e, named) \/ NamedByRow(e, named)
      /\ marked => named.message = Text({"scada_opcua_connection_lost"})
  <2>1. /\ e.source_type \in DOMAIN Tables /\ SCADARows = Tables[e.source_type]
        /\ e.message = Searched(e)
    BY TablesAre DEF Searched
  <2>2. PICK rows, text, n : rows = SCADARows /\ text = e.message /\ n = named
    OBVIOUS
  <2>3. n = Named(mid, rows, text) /\ rows = Tables[e.source_type] /\ text = Searched(e)
    BY <2>1, <2>2
  <2>4. /\ DOMAIN n = Fields /\ n.source_type = e.source_type /\ n.raw = e.raw
        /\ n.tags = mid.tags
        /\ Unnamed(e, n) \/ NamedByRow(e, n)
        /\ Hits(rows, text) # {} => n.message = Text({rows[FirstHit(rows, text)][2]})
    BY <1>2, <2>1, <2>3, NamedBySource
  <2> QED
    BY <2>2, <2>4
<1> HIDE DEF named
<1>4. CASE ~marked
  <2>1. out = named
    BY <1>1, <1>4
  <2> HIDE DEF marked
  <2>2. out.tags = e.tags
    BY <1>2, <1>3, <2>1
  <2> QED
    BY <1>3, <2>1, <2>2, SameTags DEF RestKept, Tag
<1>5. CASE marked
  <2>1. out = SetTag(named, "alert_candidate", "true")
    BY <1>1, <1>5
  <2>2. named.message = Text({"scada_opcua_connection_lost"})
    BY <1>3, <1>5
  <2> HIDE DEF marked
  <2>3. /\ DOMAIN out = Fields /\ out.source_type = named.source_type /\ out.severity = named.severity
        /\ out.event_category = named.event_category /\ out.message = named.message /\ out.raw = named.raw
        /\ TagsKept(named, out, {"alert_candidate"}) /\ Tag(out, "alert_candidate") = "true"
    BY <1>3, <2>1, SetTagIs
  <2>4. TagsKept(e, out, {"action", "alert_candidate"})
    BY <1>2, <1>3, <2>3 DEF TagsKept
  <2>5. RestKept(e, out)
    BY <1>3, <2>2, <2>3, <2>4 DEF RestKept
  <2>6. Unnamed(e, out) \/ NamedByRow(e, out)
    BY <1>3, <2>3 DEF Unnamed, NamedByRow
  <2> QED
    BY <2>5, <2>6
<1> QED
  BY <1>4, <1>5

LEMMA OPCUATable ==
  ASSUME NEW e, DOMAIN e = Fields, e.source_type = "opcua", NEW out, out = applyOPCUA(e)
  PROVE  RestKept(e, out) /\ (Unnamed(e, out) \/ NamedByRow(e, out))
<1> DEFINE mid == IF Tag(e, "event_type") = "" THEN e
                  ELSE [e EXCEPT !.message = Text({Tag(e, "event_type")})]
<1>1. out = Named(mid, OPCUARows, e.message)
  BY DEF applyOPCUA
<1>2. Prepared(e, mid) /\ mid.tags = e.tags
  <2>1. CASE Tag(e, "event_type") = ""
    BY <2>1 DEF Prepared, Leveled
  <2>2. CASE Tag(e, "event_type") # ""
    BY <2>2 DEF Prepared, Leveled, Fields
  <2> QED
    BY <2>1, <2>2
<1> HIDE DEF mid
<1>3. /\ e.source_type \in DOMAIN Tables /\ OPCUARows = Tables[e.source_type]
      /\ e.message = Searched(e)
  BY TablesAre DEF Searched
<1>4. PICK rows, text : rows = OPCUARows /\ text = e.message
  OBVIOUS
<1>5. out = Named(mid, rows, text) /\ rows = Tables[e.source_type] /\ text = Searched(e)
  BY <1>1, <1>3, <1>4
<1>6. /\ DOMAIN out = Fields /\ out.source_type = e.source_type /\ out.raw = e.raw
      /\ out.tags = mid.tags
      /\ Unnamed(e, out) \/ NamedByRow(e, out)
      /\ Hits(rows, text) # {} => out.message = Text({rows[FirstHit(rows, text)][2]})
  BY <1>2, <1>3, <1>5, NamedBySource
<1>7. out.tags = e.tags
  BY <1>2, <1>6
<1> QED
  BY <1>6, <1>7, SameTags DEF RestKept, Tag

\* The source's normalizer keeps the source and all tags but the marks it may set,
\* and leaves the event unnamed or names it by a row it hits.
LEMMA BySourceIs ==
  ASSUME NEW e, DOMAIN e = Fields, NEW out, out = BySource(e)
  PROVE  RestKept(e, out) /\ (Unnamed(e, out) \/ NamedByRow(e, out))
<1>1. CASE e.source_type = "firewall"
  <2>1. out = applyFirewall(e)
    BY <1>1 DEF BySource
  <2> QED
    BY <1>1, <2>1, FirewallTable
<1>2. CASE e.source_type = "scada"
  <2>1. out = applySCADA(e)
    BY <1>2 DEF BySource
  <2> QED
    BY <1>2, <2>1, SCADATable
<1>3. CASE e.source_type = "opcua"
  <2>1. out = applyOPCUA(e)
    BY <1>3 DEF BySource
  <2> QED
    BY <1>3, <2>1, OPCUATable
<1>4. CASE e.source_type \in {"plc", "ews", "gds_agent", "scada_gds_client"}
  <2>1. out = Named(e, Tables[e.source_type], e.message)
    BY <1>4, TablesAre DEF BySource
  <2>2. e.source_type \in DOMAIN Tables /\ e.source_type # "firewall"
    BY <1>4, TablesAre
  <2> QED
    BY <2>1, <2>2, PlainTable
<1>5. CASE e.source_type \notin DOMAIN Tables
  <2>1. out = e
    BY <1>5, TablesAre DEF BySource
  <2> QED
    BY <1>5, <2>1, SameTags DEF RestKept, Unnamed, Leveled
<1> QED
  BY <1>1, <1>2, <1>3, <1>4, <1>5, TablesAre
-----------------------------------------------------------------------------
(* Apply, in three parts.                                                   *)

\* Before the source's normalizer: the source, the severity and a first tag.
Canonical(e, out) ==
    /\ DOMAIN out = Fields /\ out.message = e.message /\ out.raw = e.raw
    /\ out.event_category = e.event_category
    /\ out.severity = CASE e.severity \in {"warn", "warning", "war"} -> "warning"
                        [] e.severity \in {"err", "error"} -> "error"
                        [] e.severity \in {"inf", "info", ""} -> "info"
                        [] OTHER -> e.severity
    /\ out.source_type \notin {"gds", "gds-agent"}
    /\ e.source_type \notin {"unknown", "", "gds", "gds-agent"} => out.source_type = e.source_type
    /\ TagsKept(e, out, {"normalized"})
    /\ "normalized" \in DOMAIN out.tags /\ out.tags["normalized"] = "true"

\* After it: the mark, the hint, and what may not be blank.
Hinted(e, out) ==
    /\ DOMAIN out = Fields /\ out.severity = e.severity /\ out.raw = e.raw
    /\ out.message = IF e.message = {} THEN {"unknown_event"} ELSE e.message
    /\ out.event_category = IF e.event_category = "" THEN "system" ELSE e.event_category
    /\ out.source_type = IF e.source_type = "" THEN "unknown" ELSE e.source_type
    /\ TagsKept(e, out, {"alert_candidate", "collector_decision_hint"})
    /\ \/ Tag(out, "alert_candidate") = Tag(e, "alert_candidate")
       \/ e.message \in {Text({n}) : n \in AlertNames}

\* The first part of Apply.
LEMMA CanonicalIs ==
  ASSUME NEW e, DOMAIN e = Fields, NEW p,
         NEW out, out = normalizeSeverity(canonicalizeSourceIdentity(ensureBaseTags(e), p))
  PROVE  Canonical(e, out)
<1> DEFINE mark == [normalized |-> "true"]
           tags == Merge(mark, e.tags)
<1>1. /\ DOMAIN tags = {"normalized"} \cup DOMAIN e.tags /\ tags["normalized"] = "true"
      /\ \A k \in DOMAIN e.tags : k # "normalized" => tags[k] = e.tags[k]
  <2>1. DOMAIN mark = {"normalized"} /\ mark["normalized"] = "true"
    OBVIOUS
  <2> HIDE DEF mark
  <2>2. /\ DOMAIN tags = DOMAIN mark \cup DOMAIN e.tags
        /\ \A k \in DOMAIN mark : tags[k] = mark[k]
        /\ \A k \in DOMAIN e.tags : k \notin DOMAIN mark => tags[k] = e.tags[k]
    BY Merged
  <2> HIDE DEF tags
  <2> QED
    BY <2>1, <2>2
<1>2. PICK based : based = [e EXCEPT !.tags = tags] /\ based = ensureBaseTags(e)
  BY DEF ensureBaseTags
<1> HIDE DEF tags
<1>3. /\ DOMAIN based = Fields /\ based.tags = tags /\ based.source_type = e.source_type
      /\ based.severity = e.severity /\ based.event_category = e.event_category
      /\ based.message = e.message /\ based.raw = e.raw
  BY <1>2 DEF Fields
<1>4. PICK sourced : sourced = canonicalizeSourceIdentity(based, p)
  OBVIOUS
<1>5. \E source : /\ sourced = [based EXCEPT !.source_type = source]
                  /\ source \notin {"gds", "gds-agent"}
                  /\ e.source_type \notin {"unknown", "", "gds", "gds-agent"} => source = e.source_type
  <2> DEFINE h == p.host \cup p.app \cup based.message
             source == IF e.source_type \in {"gds-agent", "gds"} THEN "gds_agent"
                       ELSE IF e.source_type \notin {"unknown", ""} THEN e.source_type
                       ELSE IF HasAny(h, {"opnsense", "filterlog"}) THEN "firewall"
                       ELSE IF HasAny(h, {"openplc", "plc"}) THEN "plc"
                       ELSE IF HasAny(h, {"fuxa"}) THEN "scada"
                       ELSE IF HasAny(h, {"engineering", "ews"}) THEN "ews"
                       ELSE IF HasAny(h, {"opcua"}) THEN "opcua"
                       ELSE IF HasAny(h, {"gds"}) THEN "gds_agent"
                       ELSE e.source_type
  <2>1. sourced = [based EXCEPT !.source_type = source]
    BY <1>3, <1>4 DEF canonicalizeSourceIdentity
  <2> HIDE DEF h
  <2>2. source \notin {"gds", "gds-agent"}
    OBVIOUS
  <2>3. e.source_type \notin {"unknown", "", "gds", "gds-agent"} => source = e.source_type
    OBVIOUS
  <2> HIDE DEF source
  <2> QED
    BY <2>1, <2>2, <2>3
<1>6. PICK source : /\ sourced = [based EXCEPT !.source_type = source]
                    /\ source \notin {"gds", "gds-agent"}
                    /\ e.source_type \notin {"unknown", "", "gds", "gds-agent"} => source = e.source_type
  BY <1>5
<1>7. /\ DOMAIN sourced = Fields /\ sourced.tags = tags /\ sourced.source_type = source
      /\ sourced.severity = e.severity /\ sourced.event_category = e.event_category
      /\ sourced.message = e.message /\ sourced.raw = e.raw
  BY <1>3, <1>6 DEF Fields
<1> DEFINE severity == CASE e.severity \in {"warn", "warning", "war"} -> "warning"
                         [] e.severity \in {"err", "error"} -> "error"
                         [] e.severity \in {"inf", "info", ""} -> "info"
                         [] OTHER -> e.severity
<1>8. out = [sourced EXCEPT !.severity = severity]
  BY <1>2, <1>4, <1>7 DEF normalizeSeverity
<1>9. severity = CASE e.severity \in {"warn", "warning", "war"} -> "warning"
                   [] e.severity \in {"err", "error"} -> "error"
                   [] e.severity \in {"inf", "info", ""} -> "info"
                   [] OTHER -> e.severity
  OBVIOUS
<1> HIDE DEF severity
<1>10. /\ DOMAIN out = Fields /\ out.tags = tags /\ out.source_type = source
       /\ out.severity = severity /\ out.event_category = e.event_category
       /\ out.message = e.message /\ out.raw = e.raw
  BY <1>7, <1>8 DEF Fields
<1>11. /\ TagsKept(e, out, {"normalized"})
       /\ "normalized" \in DOMAIN out.tags /\ out.tags["normalized"] = "true"
  BY <1>1, <1>10 DEF TagsKept
<1> QED
  BY <1>6, <1>9, <1>10, <1>11 DEF Canonical

LEMMA HintedIs ==
  ASSUME NEW e, DOMAIN e = Fields, NEW hinted, hinted = setDecisionHint(markAlertCandidate(e)),
         NEW out, out = [hinted EXCEPT !.message = IF @ = {} THEN {"unknown_event"} ELSE @,
                                       !.event_category = IF @ = "" THEN "system" ELSE @,
                                       !.source_type = IF @ = "" THEN "unknown" ELSE @]
  PROVE  Hinted(e, out)
<1> DEFINE SameFields(x, y) == /\ DOMAIN y = Fields /\ y.source_type = x.source_type /\ y.severity = x.severity
                         /\ y.event_category = x.event_category /\ y.message = x.message /\ y.raw = x.raw
<1>1. PICK marked : marked = markAlertCandidate(e)
  OBVIOUS
<1>2. /\ SameFields(e, marked) /\ TagsKept(e, marked, {"alert_candidate"})
      /\ \/ Tag(marked, "alert_candidate") = Tag(e, "alert_candidate")
         \/ e.message \in {Text({n}) : n \in AlertNames}
  <2>1. CASE e.message \in {Text({n}) : n \in AlertNames}
    <3>1. marked = SetTag(e, "alert_candidate", "true")
      BY <1>1, <2>1 DEF markAlertCandidate
    <3>2. SameFields(e, marked) /\ TagsKept(e, marked, {"alert_candidate"})
      BY <3>1, SetTagIs
    <3> QED
      BY <2>1, <3>2
  <2>2. CASE e.message \notin {Text({n}) : n \in AlertNames}
    <3>1. marked = e
      BY <1>1, <2>2 DEF markAlertCandidate
    <3> QED
      BY <3>1, SameTags
  <2> QED
    BY <2>1, <2>2
<1>3. SameFields(marked, hinted) /\ TagsKept(marked, hinted, {"collector_decision_hint"})
  <2>1. CASE Tag(marked, "collector_decision_hint") # ""
    <3>1. hinted = marked
      BY <1>1, <2>1 DEF setDecisionHint
    <3> QED
      BY <1>2, <3>1, SameTags
  <2>2. CASE Tag(marked, "collector_decision_hint") = ""
    <3>1. PICK value : hinted = SetTag(marked, "collector_decision_hint", value)
      BY <1>1, <2>2 DEF setDecisionHint
    <3> QED
      BY <1>2, <3>1, SetTagIs
  <2> QED
    BY <2>1, <2>2
<1>4. TagsKept(e, hinted, {"alert_candidate", "collector_decision_hint"})
  BY <1>2, <1>3 DEF TagsKept
<1>5. Tag(hinted, "alert_candidate") = Tag(marked, "alert_candidate")
  BY <1>3, TagsKeptTag
<1>6. /\ DOMAIN out = Fields /\ out.severity = hinted.severity /\ out.raw = hinted.raw
      /\ out.message = IF hinted.message = {} THEN {"unknown_event"} ELSE hinted.message
      /\ out.event_category = IF hinted.event_category = "" THEN "system" ELSE hinted.event_category
      /\ out.source_type = IF hinted.source_type = "" THEN "unknown" ELSE hinted.source_type
      /\ out.tags = hinted.tags
  BY <1>3 DEF Fields
<1>7. TagsKept(e, out, {"alert_candidate", "collector_decision_hint"})
  BY <1>4, <1>6 DEF TagsKept
<1>8. \/ Tag(out, "alert_candidate") = Tag(e, "alert_candidate")
      \/ e.message \in {Text({n}) : n \in AlertNames}
  BY <1>2, <1>5, <1>6 DEF Tag
<1> QED
  BY <1>2, <1>3, <1>6, <1>7, <1>8 DEF Hinted

\* What Apply makes of the event e.
Applied(e, canonical, named, out) ==
    /\ Canonical(e, canonical) /\ RestKept(canonical, named) /\ Hinted(named, out)
    /\ Unnamed(canonical, named) \/ NamedByRow(canonical, named)

\* Apply goes through the three parts.
LEMMA ApplyIs ==
  ASSUME NEW e, DOMAIN e = Fields, NEW p, NEW out, out = Apply(e, p)
  PROVE  \E canonical, named : Applied(e, canonical, named, out)
<1>1. PICK c : c = normalizeSeverity(canonicalizeSourceIdentity(ensureBaseTags(e), p))
  OBVIOUS
<1>2. Canonical(e, c)
  BY <1>1, CanonicalIs
<1>3. DOMAIN c = Fields
  BY <1>2 DEF Canonical
<1>4. PICK n : n = BySource(c)
  OBVIOUS
<1>5. RestKept(c, n) /\ (Unnamed(c, n) \/ NamedByRow(c, n))
  BY <1>3, <1>4, BySourceIs
<1>6. DOMAIN n = Fields
  BY <1>5 DEF RestKept
<1>7. PICK hinted : hinted = setDecisionHint(markAlertCandidate(n))
  OBVIOUS
<1>8. out = [hinted EXCEPT !.message = IF @ = {} THEN {"unknown_event"} ELSE @,
                           !.event_category = IF @ = "" THEN "system" ELSE @,
                           !.source_type = IF @ = "" THEN "unknown" ELSE @]
  BY <1>1, <1>4, <1>7 DEF Apply
<1>9. Hinted(n, out)
  BY <1>6, <1>7, <1>8, HintedIs
<1> QED
  BY <1>2, <1>5, <1>9 DEF Applied
-----------------------------------------------------------------------------
(* The fields of a payload that become tags.                                *)

\* The tags of t are in u as they were, and no secret has come to them.
Extends(t, u) ==
    /\ DOMAIN t \subseteq DOMAIN u /\ \A k \in DOMAIN t : u[k] = t[k]
    /\ \A k \in DOMAIN u \ DOMAIN t : ~isSensitiveKey(k)

\* One turn of the copying loop adds no secret and changes no tag.
LEMMA CopiedIs ==
  ASSUME NEW t, NEW key, ~isSensitiveKey(Prefixed(key)), NEW value
  PROVE  Extends(t, Copied(t, key, value))
<1> DEFINE target == IF key \in CoreFields \cup DOMAIN t THEN Prefixed(key) ELSE key
           new == [k \in {target} |-> value]
           u == Merge(new, t)
<1>1. CASE value = "" \/ isSensitiveKey(key) \/ target \in DOMAIN t
  <2>1. Copied(t, key, value) = t
    BY <1>1 DEF Copied
  <2> QED
    BY <2>1 DEF Extends
<1>2. CASE ~(value = "" \/ isSensitiveKey(key) \/ target \in DOMAIN t)
  <2>1. Copied(t, key, value) = u
    BY <1>2 DEF Copied
  <2>2. ~isSensitiveKey(target) /\ target \notin DOMAIN t
    BY <1>2
  <2>3. DOMAIN new = {target}
    OBVIOUS
  <2> HIDE DEF target, new
  <2>4. /\ DOMAIN u = DOMAIN new \cup DOMAIN t
        /\ \A k \in DOMAIN new : u[k] = new[k]
        /\ \A k \in DOMAIN t : k \notin DOMAIN new => u[k] = t[k]
    BY Merged
  <2> HIDE DEF u
  <2>5. Extends(t, u)
    BY <2>2, <2>3, <2>4 DEF Extends
  <2> QED
    BY <2>1, <2>5
<1> QED
  BY <1>1, <1>2

LEMMA ExtendsTwice ==
  ASSUME NEW t, NEW u, NEW v, Extends(t, u), Extends(u, v)
  PROVE  Extends(t, v)
BY DEF Extends

\* f is what the loop has after each of its first m turns.
Turns(f, t, payload, order, m) ==
    f = [n \in 0 .. m |->
            IF n = 0 THEN t ELSE Copied(f[n - 1], order[n], Scalar(payload, order[n]))]

\* The recursion that defines it is well founded.
LEMMA TurnsExist ==
  ASSUME NEW t, NEW payload, NEW order, NEW m \in Nat
  PROVE  \E f : Turns(f, t, payload, order, m)
<1> DEFINE D == {k \in 0 .. m : \E f : Turns(f, t, payload, order, k)}
<1>1. 0 \in D
  <2> DEFINE f == [n \in 0 .. 0 |-> t]
  <2>1. Turns(f, t, payload, order, 0)
    BY DEF Turns
  <2> QED
    BY <2>1
<1>2. ASSUME NEW k \in 0 .. m - 1, k \in D PROVE k + 1 \in D
  <2>1. PICK f : Turns(f, t, payload, order, k)
    BY <1>2
  <2> DEFINE After(h, n) == Copied(h[n - 1], order[n], Scalar(payload, order[n]))
             g == [n \in 0 .. k + 1 |-> IF n = k + 1 THEN After(f, n) ELSE f[n]]
  <2>2. ASSUME NEW n \in 0 .. k + 1 PROVE g[n] = IF n = 0 THEN t ELSE After(g, n)
    <3>1. CASE n = 0
      <4>1. g[n] = f[n] /\ n \in 0 .. k
        BY <1>2, <3>1
      <4> QED
        BY <2>1, <3>1, <4>1 DEF Turns
    <3>2. CASE n \in 1 .. k
      <4>1. g[n] = f[n] /\ n \in 0 .. k /\ g[n - 1] = f[n - 1]
        BY <1>2, <3>2
      <4> QED
        BY <2>1, <3>2, <4>1 DEF Turns
    <3>3. CASE n = k + 1
      <4>1. g[n] = After(f, n) /\ g[n - 1] = f[n - 1]
        BY <1>2, <3>3
      <4> QED
        BY <1>2, <3>3, <4>1
    <3> QED
      BY <1>2, <3>1, <3>2, <3>3
  <2>3. Turns(g, t, payload, order, k + 1)
    <3>1. g = [n \in 0 .. k + 1 |-> g[n]]
      OBVIOUS
    <3> QED
      BY <2>2, <3>1 DEF Turns
  <2> QED
    BY <1>2, <2>3
<1> HIDE DEF D
<1>3. m \in D
  BY <1>1, <1>2, UpTo
<1> QED
  BY <1>3 DEF D

\* Nor do all its turns, by induction over them.
LEMMA CopiedAllIs ==
  ASSUME NEW t, NEW payload, \A key \in DOMAIN payload : ~isSensitiveKey(Prefixed(key)),
         NEW n \in Nat, NEW order \in [1 .. n -> DOMAIN payload]
  PROVE  Extends(t, CopiedAll(t, payload, order))
<1>1. order \in Seq(DOMAIN payload) /\ Len(order) = n
  OBVIOUS
<1> DEFINE f == CHOOSE h : Turns(h, t, payload, order, Len(order))
<1>2. Turns(f, t, payload, order, Len(order))
  BY <1>1, TurnsExist
<1>3. CopiedAll(t, payload, order) = f[Len(order)]
  BY DEF CopiedAll, Turns
<1> HIDE DEF f
<1>4. f = [k \in 0 .. n |->
              IF k = 0 THEN t ELSE Copied(f[k - 1], order[k], Scalar(payload, order[k]))]
  BY <1>1, <1>2 DEF Turns
<1> DEFINE D == {k \in 0 .. n : Extends(t, f[k])}
<1>5. 0 \in D
  <2>1. f[0] = t /\ 0 \in 0 .. n
    BY <1>4
  <2> QED
    BY <2>1 DEF Extends
<1>6. ASSUME NEW k \in 0 .. n - 1, k \in D PROVE k + 1 \in D
  <2>1. k + 1 \in 0 .. n /\ k + 1 # 0 /\ (k + 1) - 1 = k /\ k + 1 \in 1 .. n
    OBVIOUS
  <2>2. PICK key, value : /\ key \in DOMAIN payload /\ f[k + 1] = Copied(f[k], key, value)
    BY <1>4, <2>1
  <2>3. ~isSensitiveKey(Prefixed(key))
    BY <2>2
  <2>4. PICK u : u = f[k]
    OBVIOUS
  <2>5. Extends(u, Copied(u, key, value))
    BY <2>3, CopiedIs
  <2>6. Extends(t, u)
    BY <1>6, <2>4
  <2>7. Extends(t, f[k + 1])
    BY <2>2, <2>4, <2>5, <2>6, ExtendsTwice
  <2> QED
    BY <2>1, <2>7
<1> HIDE DEF D
<1>7. n \in D
  BY <1>5, <1>6, UpTo
<1> QED
  BY <1>1, <1>3, <1>7 DEF D

\* Nor does the loop, whatever order the map is ranged over in.
LEMMA CopySafeIs ==
  ASSUME NEW t, NEW payload, IsFiniteSet(DOMAIN payload),
         \A key \in DOMAIN payload : ~isSensitiveKey(Prefixed(key)),
         NEW u \in copySafeJSONFieldsToTags(t, payload)
  PROVE  Extends(t, u)
<1>1. PICK order \in SetToSeqs(DOMAIN payload) : u = CopiedAll(t, payload, order)
  BY DEF copySafeJSONFieldsToTags
<1>2. PICK n \in Nat : n = Cardinality(DOMAIN payload)
  BY FS_CardinalityType
<1>3. order \in [1 .. n -> DOMAIN payload]
  BY <1>2 DEF SetToSeqs
<1> QED
  BY <1>1, <1>3, CopiedAllIs
-----------------------------------------------------------------------------
(* The events a line may become, before Apply.                              *)

\* The severities before Apply.
Gravities == {"critical", "error", "warn", "warning", "info", "debug"}

LEMMA SeverityIs ==
  /\ \A number : SeverityOf(number, "warn") \in Gravities
  /\ \A number : SeverityOf(number, "warning") \in Gravities
  /\ \A s : normalizeSeverityText(s) \in Gravities
  /\ \A t, number : classifySeverity(t, number) \in Gravities
<1>1. \A number : SeverityOf(number, "warn") \in Gravities
  BY DEF SeverityOf, Gravities
<1>2. \A number : SeverityOf(number, "warning") \in Gravities
  BY DEF SeverityOf, Gravities
<1>3. \A s : normalizeSeverityText(s) \in Gravities
  BY DEF normalizeSeverityText, Gravities
<1>4. \A t : classifyOPCUASeverity(t) \in Gravities \cup {""}
  BY DEF classifyOPCUASeverity, Gravities
<1>5. {"critical", "error", "warning", "debug", "info"} \subseteq Gravities
  BY DEF Gravities
<1>6. \A t, number : classifySeverity(t, number) \in Gravities
  BY <1>2, <1>4, <1>5 DEF classifySeverity
<1> QED
  BY <1>1, <1>2, <1>3, <1>6

\* What the tag syslog_format may say.
Formats == {"rfc5424", "rfc3164", "raw", "raw_json", "iso_syslog", "unknown"}

\* p is what syslog.Parse makes of the line.
IsParsed(p, line) == IsEventLine(line) /\ p = Parse(line)

LEMMA FormatIs ==
  ASSUME NEW line, NEW p, IsParsed(p, line)
  PROVE  p.format \in {"rfc5424", "rfc3164", "raw"} /\ normalizedSyslogFormat(p, line) \in Formats
<1>1. p.format \in {"rfc5424", "rfc3164", "raw"}
  BY DEF IsParsed, Parse, Understood
<1> QED
  BY <1>1 DEF normalizedSyslogFormat, Formats

\* The tags that an event has from its line.
TagsSay(line, p, e) ==
    /\ \A k \in DOMAIN e.tags : ~isSensitiveKey(k)
    /\ "syslog_format" \in DOMAIN e.tags /\ e.tags["syslog_format"] \in Formats
    /\ IsTelemetry(p.json) =>
          /\ "structured_json" \in DOMAIN e.tags /\ e.tags["structured_json"] = "true"
          /\ p.format # "raw" =>
                /\ "hostname" \in DOMAIN e.tags /\ e.tags["hostname"] = "its host"
                /\ "app_name" \in DOMAIN e.tags /\ e.tags["app_name"] = "its app"

\* Structured telemetry.
Structured(p, e) ==
    /\ Scalar(p.json, "source_type") # "" => e.source_type = Scalar(p.json, "source_type")
    /\ Scalar(p.json, "severity") # "" =>
          e.severity = normalizeSeverityText(Scalar(p.json, "severity"))
    /\ Scalar(p.json, "event_category") # "" => e.event_category = Scalar(p.json, "event_category")
    /\ e.message = Text({EventType(p.json)})

\* A firewall's record.
Recorded(p, e) ==
    /\ e.source_type = "firewall" /\ Tag(e, "alert_candidate") = "" /\ Tag(e, "event_type") = ""
    /\ p.csv.fields >= 9 => Tag(e, "action") = p.csv.action

\* Plain text.
Told(p, e) ==
    /\ e.message = p.message /\ e.event_category = classifyCategory(p.message)
    /\ e.severity = classifySeverity(p.message, p.severity)
    /\ Tag(e, "alert_candidate") = "" /\ Tag(e, "event_type") = "" /\ Tag(e, "operation") = ""
    /\ Tag(e, "opcua_operation") = "read" => {"[opcua]", "[read][cmd]"} \subseteq p.message
    /\ "[opcua]" \in p.message /\ HasAny(p.message, SensitiveActions) =>
          Tag(e, "sensitive_action") = "true"

LEMMA MergedAll ==
  ASSUME NEW t1, NEW t2, NEW t3, NEW t4, NEW t, t = Merge(t1, Merge(t2, Merge(t3, t4)))
  PROVE  /\ \A k : k \in DOMAIN t <=> \/ k \in DOMAIN t1 \/ k \in DOMAIN t2
                                    \/ k \in DOMAIN t3 \/ k \in DOMAIN t4
         /\ \A k \in DOMAIN t1 : t[k] = t1[k]
         /\ \A k \in DOMAIN t2 : k \notin DOMAIN t1 => t[k] = t2[k]
<1>1. PICK t34 : t34 = Merge(t3, t4)
  OBVIOUS
<1>2. \A k : k \in DOMAIN t34 <=> k \in DOMAIN t3 \/ k \in DOMAIN t4
  BY <1>1 DEF Merge
<1>3. PICK t234 : t234 = Merge(t2, t34)
  OBVIOUS
<1>4. /\ \A k : k \in DOMAIN t234 <=> k \in DOMAIN t2 \/ k \in DOMAIN t34
      /\ \A k \in DOMAIN t2 : t234[k] = t2[k]
  BY <1>3 DEF Merge
<1>5. t = Merge(t1, t234)
  BY <1>1, <1>3
<1>6. /\ \A k : k \in DOMAIN t <=> k \in DOMAIN t1 \/ k \in DOMAIN t234
      /\ \A k \in DOMAIN t1 : t[k] = t1[k]
      /\ \A k \in DOMAIN t234 : k \notin DOMAIN t1 => t[k] = t234[k]
  BY <1>5 DEF Merge
<1> QED
  BY <1>2, <1>4, <1>6

LEMMA NoJSONIs == DOMAIN NoJSON = {}
BY DEF NoJSON

\* The tags of a payload's event before its fields are copied into them.
TagsBeforeCopy(p, line, component, hint) ==
    Merge([structured_json |-> "true", syslog_format |-> normalizedSyslogFormat(p, line),
           event_type |-> EventType(p.json)],
          Merge(If(p.format # "raw", [hostname |-> "its host", app_name |-> "its app"]),
                Merge(If(component # "", [component |-> component]),
                      If(hint # "", [collector_decision_hint |-> hint]))))

\* What the tags t say of the envelope, and that nothing in them is a secret.
EnvelopeTags(line, p, t) ==
    /\ \A k \in DOMAIN t : ~isSensitiveKey(k)
    /\ "structured_json" \in DOMAIN t /\ t["structured_json"] = "true"
    /\ "syslog_format" \in DOMAIN t /\ t["syslog_format"] = normalizedSyslogFormat(p, line)
    /\ p.format # "raw" =>
          /\ "hostname" \in DOMAIN t /\ t["hostname"] = "its host"
          /\ "app_name" \in DOMAIN t /\ t["app_name"] = "its app"

LEMMA TagsBeforeCopyAre ==
  ASSUME NEW line, NEW p, NEW component, NEW hint, NEW t, t = TagsBeforeCopy(p, line, component, hint)
  PROVE  EnvelopeTags(line, p, t)
<1> DEFINE Names0 == {"structured_json", "syslog_format", "event_type", "hostname", "app_name",
                      "component", "collector_decision_hint"}
<1>1. PICK t1 : t1 = [structured_json |-> "true", syslog_format |-> normalizedSyslogFormat(p, line),
                      event_type |-> EventType(p.json)]
  OBVIOUS
<1>2. PICK t2 : t2 = If(p.format # "raw", [hostname |-> "its host", app_name |-> "its app"])
  OBVIOUS
<1>3. PICK t3 : t3 = If(component # "", [component |-> component])
  OBVIOUS
<1>4. PICK t4 : t4 = If(hint # "", [collector_decision_hint |-> hint])
  OBVIOUS
<1>5. t = Merge(t1, Merge(t2, Merge(t3, t4)))
  BY <1>1, <1>2, <1>3, <1>4 DEF TagsBeforeCopy
<1>6. /\ \A k : k \in DOMAIN t <=> \/ k \in DOMAIN t1 \/ k \in DOMAIN t2
                                 \/ k \in DOMAIN t3 \/ k \in DOMAIN t4
      /\ \A k \in DOMAIN t1 : t[k] = t1[k]
      /\ \A k \in DOMAIN t2 : k \notin DOMAIN t1 => t[k] = t2[k]
  BY <1>5, MergedAll
<1>8. /\ DOMAIN t1 = {"structured_json", "syslog_format", "event_type"}
      /\ t1["structured_json"] = "true" /\ t1["syslog_format"] = normalizedSyslogFormat(p, line)
  BY <1>1
<1>9. /\ DOMAIN t2 \subseteq {"hostname", "app_name"}
      /\ p.format # "raw" => /\ DOMAIN t2 = {"hostname", "app_name"}
                             /\ t2["hostname"] = "its host" /\ t2["app_name"] = "its app"
  BY <1>2, NoJSONIs DEF If
<1>10. DOMAIN t3 \subseteq {"component"}
  BY <1>3, NoJSONIs DEF If
<1>11. DOMAIN t4 \subseteq {"collector_decision_hint"}
  BY <1>4, NoJSONIs DEF If
<1>15. /\ DOMAIN t \subseteq Names0
       /\ "structured_json" \in DOMAIN t /\ t["structured_json"] = "true"
       /\ "syslog_format" \in DOMAIN t /\ t["syslog_format"] = normalizedSyslogFormat(p, line)
  BY <1>6, <1>8, <1>9, <1>10, <1>11
<1>16. ASSUME p.format # "raw"
       PROVE  /\ "hostname" \in DOMAIN t /\ t["hostname"] = "its host"
              /\ "app_name" \in DOMAIN t /\ t["app_name"] = "its app"
  BY <1>6, <1>8, <1>9, <1>16
<1>17. \A k \in Names0 : ~isSensitiveKey(k)
  BY DEF isSensitiveKey
<1> HIDE DEF Names0
<1> QED
  BY <1>15, <1>16, <1>17 DEF EnvelopeTags

LEMMA StructuredTags ==
  ASSUME NEW line, NEW p, IsParsed(p, line),
         NEW component, NEW hint, NEW t, t = TagsBeforeCopy(p, line, component, hint),
         NEW e, e.tags \in copySafeJSONFieldsToTags(t, p.json)
  PROVE  TagsSay(line, p, e)
<1>1. EnvelopeTags(line, p, t)
  BY TagsBeforeCopyAre
<1>2. Extends(t, e.tags)
  <2>1. PICK payload : payload = p.json
    OBVIOUS
  <2>2. IsFiniteSet(DOMAIN payload) /\ \A key \in DOMAIN payload : ~isSensitiveKey(Prefixed(key))
    BY <2>1 DEF IsParsed, Parse, IsEventLine
  <2> QED
    BY <2>1, <2>2, CopySafeIs
<1>3. \A k \in DOMAIN e.tags : ~isSensitiveKey(k)
  BY <1>1, <1>2 DEF Extends, EnvelopeTags
<1>4. normalizedSyslogFormat(p, line) \in Formats
  BY FormatIs
<1>5. \A k \in DOMAIN t : k \in DOMAIN e.tags /\ e.tags[k] = t[k]
  BY <1>2 DEF Extends
<1> QED
  BY <1>1, <1>3, <1>4, <1>5 DEF TagsSay, EnvelopeTags

\* The event of a payload, of a firewall record, and of a plain text.
LEMMA StructuredIs ==
  ASSUME NEW line, NEW p, IsParsed(p, line), IsTelemetry(p.json), NEW resolved,
         NEW e \in fromStructuredTelemetryJSON(p, line, resolved)
  PROVE  DOMAIN e = Fields /\ e.severity \in Gravities /\ TagsSay(line, p, e) /\ Structured(p, e)
<1> DEFINE says(key) == Scalar(p.json, key)
           inferred == inferSourceTypeFromComponent(Text({says("component")}))
           source == IF says("source_type") # "" THEN says("source_type")
                     ELSE IF inferred # "unknown" THEN inferred ELSE resolved
           severity == IF says("severity") # "" THEN normalizeSeverityText(says("severity"))
                       ELSE IF p.pri # NoPri THEN SeverityOf(p.pri % 8, "warn")
                       ELSE classifySeverity(p.message, NoPri)
           category == IF says("event_category") # "" THEN says("event_category")
                       ELSE inferEventCategory(Text({EventType(p.json)}), p.json)
           t == TagsBeforeCopy(p, line, says("component"), says("collector_decision"))
<1>1. PICK copied \in copySafeJSONFieldsToTags(t, p.json) :
         e = [source_type |-> source, severity |-> severity, event_category |-> category,
              message |-> Text({EventType(p.json)}), raw |-> p.raw, tags |-> copied]
  BY DEF fromStructuredTelemetryJSON, TagsBeforeCopy
<1>2. severity \in Gravities
  BY SeverityIs
<1>3. says("source_type") # "" => source = says("source_type")
  OBVIOUS
<1>4. says("severity") # "" => severity = normalizeSeverityText(says("severity"))
  OBVIOUS
<1>5. says("event_category") # "" => category = says("event_category")
  OBVIOUS
<1> HIDE DEF source, severity, category
<1>6. /\ DOMAIN e = Fields /\ e.source_type = source /\ e.severity = severity
      /\ e.event_category = category /\ e.message = Text({EventType(p.json)}) /\ e.tags = copied
  BY <1>1 DEF Fields
<1>7. TagsSay(line, p, e)
  <2>1. PICK component, hint : component = says("component") /\ hint = says("collector_decision")
    OBVIOUS
  <2>2. PICK u : u = t
    OBVIOUS
  <2>3. u = TagsBeforeCopy(p, line, component, hint)
    BY <2>1, <2>2
  <2> HIDE DEF t
  <2>4. e.tags \in copySafeJSONFieldsToTags(u, p.json)
    BY <1>1, <1>6, <2>2
  <2> QED
    BY <2>3, <2>4, StructuredTags
<1> QED
  BY <1>2, <1>3, <1>4, <1>5, <1>6, <1>7 DEF Structured
LEMMA RecordIs ==
  ASSUME NEW line, NEW p, IsParsed(p, line), ~IsTelemetry(p.json), NEW e, e = parseOPNsenseFilterlog(p)
  PROVE  DOMAIN e = Fields /\ e.severity \in Gravities /\ TagsSay(line, p, e) /\ Recorded(p, e)
<1> DEFINE full == p.csv.fields >= 9
           refusal == [block |-> "firewall_block", reject |-> "firewall_reject"]
           blocked == full /\ p.csv.action \in DOMAIN refusal
           wrong == p.csv.fields = 0 \/ ~full \/ p.csv.version \notin {4, 6} \/ p.csv.bad
           severity == IF wrong THEN "error" ELSE IF blocked THEN "warn" ELSE "info"
           category == IF wrong THEN "error" ELSE IF blocked THEN "security" ELSE "network"
           name == Text({IF wrong THEN "firewall_event"
                         ELSE IF blocked THEN refusal[p.csv.action] ELSE "firewall_pass"})
           head == [structured_json |-> "false", syslog_format |-> p.format]
           action == If(full, [action |-> p.csv.action])
           t == Merge(head, action)
<1>1. e = [source_type |-> "firewall", severity |-> severity, event_category |-> category,
           message |-> name, raw |-> p.raw, tags |-> t]
  BY DEF parseOPNsenseFilterlog
<1>2. severity \in Gravities
  BY DEF Gravities
<1>3. /\ \A k \in DOMAIN t : k \in {"structured_json", "syslog_format", "action"}
      /\ "syslog_format" \in DOMAIN t /\ t["syslog_format"] = p.format
      /\ full => "action" \in DOMAIN t /\ t["action"] = p.csv.action
  <2>1. /\ DOMAIN head = {"structured_json", "syslog_format"} /\ head["syslog_format"] = p.format
    OBVIOUS
  <2>2. DOMAIN action \subseteq {"action"} /\ (full => DOMAIN action = {"action"} /\ action["action"] = p.csv.action)
    BY NoJSONIs DEF If
  <2> HIDE DEF head, action, full
  <2>3. /\ \A k : k \in DOMAIN t <=> k \in DOMAIN head \/ k \in DOMAIN action
        /\ \A k \in DOMAIN head : t[k] = head[k]
        /\ \A k \in DOMAIN action : k \notin DOMAIN head => t[k] = action[k]
    BY DEF Merge
  <2> HIDE DEF t
  <2> QED
    BY <2>1, <2>2, <2>3
<1> HIDE DEF severity, category, name, t, full
<1>4. DOMAIN e = Fields /\ e.source_type = "firewall" /\ e.severity = severity /\ e.tags = t
  BY <1>1 DEF Fields
<1>5. TagsSay(line, p, e)
  <2>1. \A k \in {"structured_json", "syslog_format", "action"} : ~isSensitiveKey(k)
    BY DEF isSensitiveKey
  <2>2. p.format \in Formats
    BY FormatIs DEF Formats
  <2> QED
    BY <1>3, <1>4, <2>1, <2>2 DEF TagsSay
<1>6. Recorded(p, e)
  <2>1. Tag(e, "alert_candidate") = "" /\ Tag(e, "event_type") = ""
    BY <1>3, <1>4 DEF Tag
  <2>2. p.csv.fields >= 9 => Tag(e, "action") = p.csv.action
    BY <1>3, <1>4 DEF Tag, full
  <2> QED
    BY <1>4, <2>1, <2>2 DEF Recorded
<1> QED
  BY <1>2, <1>4, <1>5, <1>6

\* What enrichOPCUATags finds in a text.
OPCUATags(t, tags) ==
    /\ DOMAIN tags \subseteq {"opcua_operation", "sensitive_action"}
    /\ "opcua_operation" \in DOMAIN tags /\ tags["opcua_operation"] = "read" =>
          {"[opcua]", "[read][cmd]"} \subseteq t
    /\ "[opcua]" \in t /\ HasAny(t, SensitiveActions) =>
          "sensitive_action" \in DOMAIN tags /\ tags["sensitive_action"] = "true"

LEMMA OPCUATagsAre ==
  ASSUME NEW t, NEW tags, tags = enrichOPCUATags(t)
  PROVE  OPCUATags(t, tags)
<1>1. CASE "[opcua]" \notin t
  <2>1. tags = NoJSON
    BY <1>1 DEF enrichOPCUATags
  <2> QED
    BY <1>1, <2>1, NoJSONIs DEF OPCUATags
<1>2. CASE "[opcua]" \in t
  <2> DEFINE operation == IF "[read][cmd]" \in t THEN [opcua_operation |-> "read"]
                          ELSE If("[write][cmd]" \in t, [opcua_operation |-> "write"])
             sensitive == If(HasAny(t, SensitiveActions), [sensitive_action |-> "true"])
  <2>1. tags = Merge(operation, sensitive)
    BY <1>2 DEF enrichOPCUATags
  <2>2. /\ DOMAIN operation \subseteq {"opcua_operation"}
        /\ "opcua_operation" \in DOMAIN operation /\ operation["opcua_operation"] = "read" =>
              "[read][cmd]" \in t
    BY NoJSONIs DEF If
  <2>3. /\ DOMAIN sensitive \subseteq {"sensitive_action"}
        /\ HasAny(t, SensitiveActions) =>
              "sensitive_action" \in DOMAIN sensitive /\ sensitive["sensitive_action"] = "true"
    BY NoJSONIs DEF If
  <2> HIDE DEF operation, sensitive
  <2>4. /\ \A k : k \in DOMAIN tags <=> k \in DOMAIN operation \/ k \in DOMAIN sensitive
        /\ \A k \in DOMAIN operation : tags[k] = operation[k]
        /\ \A k \in DOMAIN sensitive : k \notin DOMAIN operation => tags[k] = sensitive[k]
    BY <2>1 DEF Merge
  <2> QED
    BY <1>2, <2>2, <2>3, <2>4 DEF OPCUATags
<1> QED
  BY <1>1, <1>2

LEMMA ToldIs ==
  ASSUME NEW line, NEW p, IsParsed(p, line), ~IsTelemetry(p.json), NEW resolved,
         NEW e, e = [source_type |-> resolved, severity |-> classifySeverity(p.message, p.severity),
                     event_category |-> classifyCategory(p.message), message |-> p.message, raw |-> p.raw,
                     tags |-> Merge([syslog_format |-> p.format], enrichOPCUATags(p.message))]
  PROVE  DOMAIN e = Fields /\ e.severity \in Gravities /\ TagsSay(line, p, e) /\ Told(p, e)
<1>1. PICK head, tags : head = [syslog_format |-> p.format] /\ tags = enrichOPCUATags(p.message)
  OBVIOUS
<1>2. PICK t : t = Merge(head, tags)
  OBVIOUS
<1>3. /\ DOMAIN e = Fields /\ e.message = p.message /\ e.event_category = classifyCategory(p.message)
      /\ e.severity = classifySeverity(p.message, p.severity) /\ e.tags = t
  BY <1>1, <1>2 DEF Fields
<1>4. OPCUATags(p.message, tags)
  BY <1>1, OPCUATagsAre
<1>5. DOMAIN head = {"syslog_format"} /\ head["syslog_format"] = p.format
  BY <1>1
<1>6. /\ \A k : k \in DOMAIN t <=> k \in DOMAIN head \/ k \in DOMAIN tags
      /\ \A k \in DOMAIN head : t[k] = head[k]
      /\ \A k \in DOMAIN tags : k \notin DOMAIN head => t[k] = tags[k]
  BY <1>2 DEF Merge
<1>7. /\ \A k \in DOMAIN t : k \in {"syslog_format", "opcua_operation", "sensitive_action"}
      /\ "syslog_format" \in DOMAIN t /\ t["syslog_format"] = p.format
  BY <1>4, <1>5, <1>6 DEF OPCUATags
<1>8. TagsSay(line, p, e)
  <2>1. \A k \in {"syslog_format", "opcua_operation", "sensitive_action"} : ~isSensitiveKey(k)
    BY DEF isSensitiveKey
  <2>2. p.format \in Formats
    BY FormatIs DEF Formats
  <2> QED
    BY <1>3, <1>7, <2>1, <2>2 DEF TagsSay
<1>9. e.severity \in Gravities
  BY <1>3, SeverityIs
<1>10. Told(p, e)
  <2>1. Tag(e, "alert_candidate") = "" /\ Tag(e, "event_type") = "" /\ Tag(e, "operation") = ""
    BY <1>3, <1>7 DEF Tag
  <2>2. Tag(e, "opcua_operation") = "read" => {"[opcua]", "[read][cmd]"} \subseteq p.message
    BY <1>3, <1>4, <1>5, <1>6 DEF Tag, OPCUATags
  <2>3. "[opcua]" \in p.message /\ HasAny(p.message, SensitiveActions) =>
            Tag(e, "sensitive_action") = "true"
    BY <1>3, <1>4, <1>5, <1>6 DEF Tag, OPCUATags
  <2> QED
    BY <1>3, <2>1, <2>2, <2>3 DEF Told
<1> QED
  BY <1>3, <1>8, <1>9, <1>10

\* One of the three ways a line becomes an event.
Based(line, p, e) ==
    /\ DOMAIN e = Fields /\ e.severity \in Gravities /\ TagsSay(line, p, e)
    /\ \/ IsTelemetry(p.json) /\ Structured(p, e)
       \/ ~IsTelemetry(p.json) /\ Recorded(p, e)
       \/ ~IsTelemetry(p.json) /\ ~looksLikeFilterlog(p) /\ Told(p, e)

\* FromParsed takes one of these three ways.
LEMMA FromParsedIs ==
  ASSUME NEW store, NEW ip, NEW line, NEW p, IsParsed(p, line), NEW e \in FromParsed(store, ip, line)
  PROVE  Based(line, p, e)
<1>1. PICK resolved : resolved = Resolve(store, ip, p)
  OBVIOUS
<1>2. p = Parse(line)
  BY DEF IsParsed
<1>3. e \in IF IsTelemetry(p.json) THEN fromStructuredTelemetryJSON(p, line, resolved)
            ELSE IF looksLikeFilterlog(p) \/ resolved = "firewall" THEN {parseOPNsenseFilterlog(p)}
            ELSE {[source_type |-> resolved, severity |-> classifySeverity(p.message, p.severity),
                   event_category |-> classifyCategory(p.message), message |-> p.message, raw |-> p.raw,
                   tags |-> Merge([syslog_format |-> p.format], enrichOPCUATags(p.message))]}
  BY <1>1, <1>2 DEF FromParsed
<1>4. CASE IsTelemetry(p.json)
  <2>1. e \in fromStructuredTelemetryJSON(p, line, resolved)
    BY <1>3, <1>4
  <2> QED
    BY <1>4, <2>1, StructuredIs DEF Based
<1>5. CASE ~IsTelemetry(p.json) /\ (looksLikeFilterlog(p) \/ resolved = "firewall")
  <2>1. e = parseOPNsenseFilterlog(p)
    BY <1>3, <1>5
  <2> QED
    BY <1>5, <2>1, RecordIs DEF Based
<1>6. CASE ~IsTelemetry(p.json) /\ ~looksLikeFilterlog(p) /\ resolved # "firewall"
  <2>1. e = [source_type |-> resolved, severity |-> classifySeverity(p.message, p.severity),
             event_category |-> classifyCategory(p.message), message |-> p.message, raw |-> p.raw,
             tags |-> Merge([syslog_format |-> p.format], enrichOPCUATags(p.message))]
    BY <1>3, <1>6
  <2> QED
    BY <1>6, <2>1, ToldIs DEF Based
<1> QED
  BY <1>4, <1>5, <1>6

-----------------------------------------------------------------------------
(* An event that a line becomes.                                            *)

\* Before Apply, inside it, and after it.
MadeOf(line, p, based, canonical, named, e) ==
    Based(line, p, based) /\ Applied(based, canonical, named, e)

\* e is an event that the line may become.
FromLine(line, p, e) == \E based, canonical, named : MadeOf(line, p, based, canonical, named, e)

LEMMA NormalizedIs ==
  ASSUME NEW store, NEW ip, NEW line, NEW p, IsParsed(p, line), NEW e \in Normalized(store, ip, line)
  PROVE  FromLine(line, p, e)
<1>1. PICK based \in FromParsed(store, ip, line) : e = Apply(based, p)
  BY DEF Normalized, IsParsed
<1>2. Based(line, p, based)
  BY FromParsedIs
<1>3. \E canonical, named : Applied(based, canonical, named, e)
  <2>1. DOMAIN based = Fields
    BY <1>2 DEF Based
  <2> QED
    BY <1>1, <2>1, ApplyIs
<1> QED
  BY <1>2, <1>3 DEF FromLine, MadeOf

\* The tags that Apply may set.
Added == {"normalized", "action", "alert_candidate", "collector_decision_hint"}

LEMMA MadeOfTags ==
  ASSUME NEW line, NEW p, NEW based, NEW canonical, NEW named, NEW e,
         MadeOf(line, p, based, canonical, named, e)
  PROVE  TagsKept(based, e, Added) /\ "normalized" \in DOMAIN e.tags /\ e.tags["normalized"] = "true"
BY DEF MadeOf, Applied, Canonical, RestKept, Hinted, TagsKept, Added

LEMMA SeveritySetIs ==
  ASSUME NEW old \in Severities, NEW new \in Severities \cup {"", "error if info", "warning if info"}
  PROVE  SeveritySet(old, new) \in Severities
<1>1. CASE new = ""
  BY <1>1 DEF SeveritySet
<1>2. CASE new = "error if info"
  BY <1>2 DEF SeveritySet, Severities
<1>3. CASE new = "warning if info"
  BY <1>3 DEF SeveritySet, Severities
<1>4. CASE new \in Severities
  BY <1>4 DEF SeveritySet, Severities
<1> QED
  BY <1>1, <1>2, <1>3, <1>4

LEMMA LeveledIs ==
  ASSUME NEW e, e.severity \in Severities, NEW severity, Leveled(e, severity)
  PROVE  severity \in Severities
BY DEF Leveled, Severities

\* What a line became is complete.
Complete(line, p, e) ==
    /\ DOMAIN e = Fields /\ e.severity \in Severities /\ e.message # {}
    /\ e.event_category # "" /\ e.source_type \notin {"", "gds-agent", "gds"}
    /\ TagsSay(line, p, e) /\ "normalized" \in DOMAIN e.tags /\ e.tags["normalized"] = "true"

\* Such an event is complete: severity, category, message, source and tags.
LEMMA FromLineComplete ==
  ASSUME NEW line, NEW p, NEW e, FromLine(line, p, e)
  PROVE  Complete(line, p, e)
<1>1. PICK based, canonical, named : MadeOf(line, p, based, canonical, named, e)
  BY DEF FromLine
<1>2. /\ Based(line, p, based) /\ Canonical(based, canonical) /\ RestKept(canonical, named)
      /\ Hinted(named, e) /\ (Unnamed(canonical, named) \/ NamedByRow(canonical, named))
  BY <1>1 DEF MadeOf, Applied
<1>3. canonical.severity \in Severities
  BY <1>2 DEF Based, Canonical, Gravities, Severities
<1>4. named.severity \in Severities
  <2>1. CASE Unnamed(canonical, named)
    BY <1>3, <2>1, LeveledIs DEF Unnamed
  <2>2. CASE NamedByRow(canonical, named)
    <3>1. PICK i, old :
             /\ i \in Hits(Tables[canonical.source_type], Searched(canonical))
             /\ canonical.source_type \in DOMAIN Tables
             /\ Leveled(canonical, old)
             /\ named.severity = SeveritySet(old, Tables[canonical.source_type][i][4])
      BY <2>2 DEF NamedByRow
    <3>2. RowSound(canonical.source_type, Tables[canonical.source_type][i])
      BY <3>1, RowsSound DEF Hits
    <3>3. old \in Severities
      BY <1>3, <3>1, LeveledIs
    <3>4. Tables[canonical.source_type][i][4] \in Severities \cup {"", "error if info", "warning if info"}
      BY <3>2 DEF RowSound
    <3> QED
      BY <3>1, <3>3, <3>4, SeveritySetIs
  <2> QED
    BY <1>2, <2>1, <2>2
<1>5. /\ DOMAIN e = Fields /\ e.severity \in Severities /\ e.message # {} /\ e.event_category # ""
      /\ e.source_type \notin {"", "gds-agent", "gds"}
  BY <1>2, <1>4 DEF Hinted, RestKept, Canonical
<1>6. /\ TagsKept(based, e, Added) /\ "normalized" \in DOMAIN e.tags
      /\ e.tags["normalized"] = "true"
  BY <1>1, MadeOfTags
<1>7. TagsSay(line, p, e)
  <2>1. TagsSay(line, p, based)
    BY <1>2 DEF Based
  <2>2. \A k \in Added : ~isSensitiveKey(k)
    BY DEF Added, isSensitiveKey
  <2>3. {"syslog_format", "structured_json", "hostname", "app_name"} \cap Added = {}
    BY DEF Added
  <2> QED
    BY <1>6, <2>1, <2>2, <2>3 DEF TagsKept, TagsSay
<1> QED
  BY <1>5, <1>6, <1>7 DEF Complete

-----------------------------------------------------------------------------
(* The default rules.                                                       *)

\* What a rule's messageContains looks through: the message and the raw text.
Says(x, needle) == needle \in x.message \cup x.raw

\* What each rule asks for.
Asked(i, x) ==
    CASE i = 1 -> x.source_type = "firewall" /\ Says(x, "firewall_block")
      [] i = 2 -> x.source_type = "firewall" /\ Says(x, "firewall_reject")
      [] i = 3 -> x.event_category = "security"
      [] i = 4 -> x.severity = "critical"
      [] i = 5 -> x.source_type = "firewall" /\ Says(x, "firewall_pass")
      [] i = 6 -> x.source_type = "firewall" /\ Says(x, "filterlog")
      [] i = 7 -> x.severity = "error"
      [] i = 8 -> x.source_type = "opcua" /\ Tag(x, "sensitive_action") = "true"
      [] i = 9 -> x.source_type = "opcua" /\ x.event_category = "operator_action" /\ operationFor(x) = "write"
      [] i = 10 -> x.source_type = "opcua" /\ x.event_category = "operator_action" /\ operationFor(x) = "read"
      [] i = 11 -> /\ x.source_type = "ews" /\ x.event_category = "system_health"
                   /\ x.severity = "info" /\ Says(x, "ews_heartbeat")
      [] i = 12 -> /\ x.source_type = "scada" /\ x.event_category = "system_health"
                   /\ x.severity = "info" /\ Says(x, "heartbeat")
      [] i = 13 -> /\ x.source_type \in {"gds_agent", "gds-agent"} /\ x.severity = "info"
                   /\ Says(x, "sync_cycle_success")
      [] i = 14 -> x.source_type = "firewall"
      [] i = 15 -> x.source_type = "plc" /\ x.event_category = "network"
      [] i = 16 -> TRUE

\* A rule matches what it is compared with, where it is given.
LEMMA Compared ==
  /\ \A value : matchField(Star, value)
  /\ \A rule \in {"firewall", "security", "critical", "error", "opcua", "operator_action", "write", "read",
                 "ews", "system_health", "info", "scada", "plc", "network"} :
        \A value : matchField(rule, value) <=> value = rule
  /\ \A value : matchField("gds_agent", value) <=> value \in {"gds_agent", "gds-agent"}
BY DEF matchField, comparableValue, Star

\* The sixteen default rules ask for what Asked says, and no more.
LEMMA RulesMatch == \A x : \A i \in 1 .. 16 : matches(defaultRules[i], x) <=> Asked(i, x)
<1> TAKE x
<1> DEFINE Given(i, source, category, severity, operation, contains, tag) ==
               /\ defaultRules[i].source_type = source /\ defaultRules[i].category = category
               /\ defaultRules[i].severity = severity /\ defaultRules[i].operation = operation
               /\ defaultRules[i].contains = contains /\ defaultRules[i].tag = tag
<1>1. matches(defaultRules[1], x) <=> Asked(1, x)
  <2>1. Given(1, "firewall", Star, Star, Star, "firewall_block", Star)
    BY DEF defaultRules, Rule, Star
  <2> QED
    BY <2>1, Compared DEF matches, messageContains, Asked, Says, Star
<1>2. matches(defaultRules[2], x) <=> Asked(2, x)
  <2>1. Given(2, "firewall", Star, Star, Star, "firewall_reject", Star)
    BY DEF defaultRules, Rule, Star
  <2> QED
    BY <2>1, Compared DEF matches, messageContains, Asked, Says, Star
<1>3. matches(defaultRules[3], x) <=> Asked(3, x)
  <2>1. Given(3, Star, "security", Star, Star, Star, Star)
    BY DEF defaultRules, Rule, Star
  <2> QED
    BY <2>1, Compared DEF matches, messageContains, Asked, Says, Star
<1>4. matches(defaultRules[4], x) <=> Asked(4, x)
  <2>1. Given(4, Star, Star, "critical", Star, Star, Star)
    BY DEF defaultRules, Rule, Star
  <2> QED
    BY <2>1, Compared DEF matches, messageContains, Asked, Says, Star
<1>5. matches(defaultRules[5], x) <=> Asked(5, x)
  <2>1. Given(5, "firewall", Star, Star, Star, "firewall_pass", Star)
    BY DEF defaultRules, Rule, Star
  <2> QED
    BY <2>1, Compared DEF matches, messageContains, Asked, Says, Star
<1>6. matches(defaultRules[6], x) <=> Asked(6, x)
  <2>1. Given(6, "firewall", Star, Star, Star, "filterlog", Star)
    BY DEF defaultRules, Rule, Star
  <2> QED
    BY <2>1, Compared DEF matches, messageContains, Asked, Says, Star
<1>7. matches(defaultRules[7], x) <=> Asked(7, x)
  <2>1. Given(7, Star, Star, "error", Star, Star, Star)
    BY DEF defaultRules, Rule, Star
  <2> QED
    BY <2>1, Compared DEF matches, messageContains, Asked, Says, Star
<1>8. matches(defaultRules[8], x) <=> Asked(8, x)
  <2>1. Given(8, "opcua", Star, Star, Star, Star, "sensitive_action")
    BY DEF defaultRules, Rule, Star
  <2> QED
    BY <2>1, Compared DEF matches, messageContains, Asked, Says, Star
<1>9. matches(defaultRules[9], x) <=> Asked(9, x)
  <2>1. Given(9, "opcua", "operator_action", Star, "write", Star, Star)
    BY DEF defaultRules, Rule, Star
  <2> QED
    BY <2>1, Compared DEF matches, messageContains, Asked, Says, Star
<1>10. matches(defaultRules[10], x) <=> Asked(10, x)
  <2>1. Given(10, "opcua", "operator_action", Star, "read", Star, Star)
    BY DEF defaultRules, Rule, Star
  <2> QED
    BY <2>1, Compared DEF matches, messageContains, Asked, Says, Star
<1>11. matches(defaultRules[11], x) <=> Asked(11, x)
  <2>1. Given(11, "ews", "system_health", "info", Star, "ews_heartbeat", Star)
    BY DEF defaultRules, Rule, Star
  <2> QED
    BY <2>1, Compared DEF matches, messageContains, Asked, Says, Star
<1>12. matches(defaultRules[12], x) <=> Asked(12, x)
  <2>1. Given(12, "scada", "system_health", "info", Star, "heartbeat", Star)
    BY DEF defaultRules, Rule, Star
  <2> QED
    BY <2>1, Compared DEF matches, messageContains, Asked, Says, Star
<1>13. matches(defaultRules[13], x) <=> Asked(13, x)
  <2>1. Given(13, "gds_agent", Star, "info", Star, "sync_cycle_success", Star)
    BY DEF defaultRules, Rule, Star
  <2> QED
    BY <2>1, Compared DEF matches, messageContains, Asked, Says, Star
<1>14. matches(defaultRules[14], x) <=> Asked(14, x)
  <2>1. Given(14, "firewall", Star, Star, Star, Star, Star)
    BY DEF defaultRules, Rule, Star
  <2> QED
    BY <2>1, Compared DEF matches, messageContains, Asked, Says, Star
<1>15. matches(defaultRules[15], x) <=> Asked(15, x)
  <2>1. Given(15, "plc", "network", Star, Star, Star, Star)
    BY DEF defaultRules, Rule, Star
  <2> QED
    BY <2>1, Compared DEF matches, messageContains, Asked, Says, Star
<1>16. matches(defaultRules[16], x) <=> Asked(16, x)
  <2>1. Given(16, Star, Star, Star, Star, Star, Star)
    BY DEF defaultRules, Rule, Star
  <2> QED
    BY <2>1, Compared DEF matches, messageContains, Asked, Says, Star
<1> QED
  BY <1>1, <1>2, <1>3, <1>4, <1>5, <1>6, <1>7, <1>8, <1>9, <1>10, <1>11, <1>12, <1>13, <1>14, <1>15, <1>16

\* The rule that an event meets, the i-th.
Meets(x, i) == i \in 1 .. 16 /\ Asked(i, x) /\ \A j \in 1 .. 16 : Asked(j, x) => i <= j

\* Every event meets a rule, the first that asks for no more than it has.
LEMMA RuleMet ==
  ASSUME NEW x
  PROVE  \E i : Meets(x, i) /\ applyRules(x) = defaultRules[i]
<1> DEFINE met == {i \in 1 .. 16 : matches(defaultRules[i], x)}
<1>1. DOMAIN defaultRules = 1 .. 16
  BY DEF defaultRules
<1>2. applyRules(x) = defaultRules[CHOOSE i \in met : \A j \in met : i <= j]
  BY <1>1 DEF applyRules
<1>3. 16 \in met
  BY RulesMatch DEF Asked
<1>4. \E i \in met : \A j \in met : i <= j
  <2>1. met \subseteq Nat
    OBVIOUS
  <2> HIDE DEF met
  <2> QED
    BY <1>3, <2>1, NatMin
<1>5. PICK i : i = CHOOSE k \in met : \A j \in met : k <= j
  OBVIOUS
<1>6. i \in met /\ \A j \in met : i <= j
  <2> HIDE DEF met
  <2> QED
    BY <1>4, <1>5
<1>7. Meets(x, i)
  BY <1>6, RulesMatch DEF Meets
<1> QED
  BY <1>2, <1>5, <1>7

\* The rule forwards, and has no limit.
Forwarding(i) == i \in {1, 2, 3, 4, 7, 8, 9}

\* What a default rule may decide.
LEMMA VerdictIs ==
  ASSUME NEW i \in 1 .. 16, NEW d \in Verdicts(defaultRules[i])
  PROVE  /\ d.rule = defaultRules[i].id /\ d.rule # "none"
         /\ Forwarding(i) => d.forward /\ ~d.drop
         /\ i = 16 => ~d.drop
         /\ d.drop \in BOOLEAN
<1>1. \A k \in {1, 2, 3, 4, 7, 8, 9} :
         defaultRules[k].action = "store_and_forward" /\ defaultRules[k].limited = FALSE
  BY DEF defaultRules, Rule
<1>2. defaultRules[16].action = "store_only" /\ defaultRules[16].limited = FALSE
  BY DEF defaultRules, Rule
<1>3. \A k \in 1 .. 16 : defaultRules[k].id # "none"
  <2>1. /\ defaultRules[1].id # "none" /\ defaultRules[2].id # "none" /\ defaultRules[3].id # "none"
        /\ defaultRules[4].id # "none" /\ defaultRules[5].id # "none" /\ defaultRules[6].id # "none"
        /\ defaultRules[7].id # "none" /\ defaultRules[8].id # "none" /\ defaultRules[9].id # "none"
        /\ defaultRules[10].id # "none" /\ defaultRules[11].id # "none" /\ defaultRules[12].id # "none"
        /\ defaultRules[13].id # "none" /\ defaultRules[14].id # "none" /\ defaultRules[15].id # "none"
        /\ defaultRules[16].id # "none"
    BY DEF defaultRules, Rule
  <2> QED
    BY <2>1
<1>4. PICK drop \in BOOLEAN :
         /\ d = Decision(defaultRules[i], drop)
         /\ drop => defaultRules[i].action = "sample" \/ defaultRules[i].limited
  BY DEF Verdicts
<1>5. /\ d.rule = defaultRules[i].id /\ d.drop = drop
      /\ d.forward = (~drop /\ defaultRules[i].action = "store_and_forward")
  BY <1>4 DEF Decision
<1> QED
  BY <1>1, <1>2, <1>3, <1>4, <1>5 DEF Forwarding

-----------------------------------------------------------------------------
(* Ingest.                                                                  *)

\* The event with its source's alias resolved.
Typed(e) == [e EXCEPT !.source_type = normalizeSourceType(@)]

\* The tags that ingest sets.
DecisionTags == {"collector_decision", "collector_decision_hint", "matched_rule_id", "forwarding_status"}

\* d is a decision on e, and out the event that is stored with it.
IngestedAs(e, d, out) ==
    /\ d \in Verdicts(applyRules(Typed(e)))
    /\ \E enabled \in BOOLEAN : out = Enriched(Typed(e), d, enabled)

\* What rules compare and do not: all but the tags and the alias of the source.
Stored(e, out) ==
    /\ DOMAIN out = Fields /\ out.source_type = normalizeSourceType(e.source_type)
    /\ out.severity = e.severity /\ out.event_category = e.event_category
    /\ out.message = e.message /\ out.raw = e.raw
    /\ TagsKept(e, out, DecisionTags)

LEMMA TypedIs ==
  ASSUME NEW e, DOMAIN e = Fields, NEW out, out = Typed(e)
  PROVE  Stored(e, out) /\ out.tags = e.tags
<1>1. /\ DOMAIN out = Fields /\ out.source_type = normalizeSourceType(e.source_type)
      /\ out.severity = e.severity /\ out.event_category = e.event_category
      /\ out.message = e.message /\ out.raw = e.raw /\ out.tags = e.tags
  <2>1. PICK source : source = normalizeSourceType(e.source_type)
    OBVIOUS
  <2>2. out = [e EXCEPT !.source_type = source]
    BY <2>1 DEF Typed
  <2>3. /\ DOMAIN out = Fields /\ out.source_type = source
        /\ out.severity = e.severity /\ out.event_category = e.event_category
        /\ out.message = e.message /\ out.raw = e.raw /\ out.tags = e.tags
    BY <2>2 DEF Fields
  <2> QED
    BY <2>1, <2>3
<1> QED
  BY <1>1, SameTags DEF Stored

\* Ingest changes the source's alias and its own tags, and nothing else.
LEMMA IngestedIs ==
  ASSUME NEW e, DOMAIN e = Fields, NEW d, NEW out, IngestedAs(e, d, out)
  PROVE  Stored(e, out)
<1>1. PICK enabled \in BOOLEAN : out = Enriched(Typed(e), d, enabled)
  BY DEF IngestedAs
<1>2. PICK typed : typed = Typed(e)
  OBVIOUS
<1>3. Stored(e, typed) /\ typed.tags = e.tags
  BY <1>2, TypedIs
<1> DEFINE decided == [collector_decision |-> decisionLabel(d, d.forward /\ enabled),
                       collector_decision_hint |-> decisionHint(d), matched_rule_id |-> d.rule]
           queued == IF d.forward /\ enabled THEN [forwarding_status |-> "queued"] ELSE [k \in {} |-> ""]
           inner == Merge(decided, typed.tags)
           tags == Merge(queued, inner)
<1>4. out = [typed EXCEPT !.tags = tags]
  BY <1>1, <1>2 DEF Enriched
<1>5. DOMAIN decided = {"collector_decision", "collector_decision_hint", "matched_rule_id"}
  OBVIOUS
<1>6. DOMAIN queued \subseteq {"forwarding_status"}
  OBVIOUS
<1> HIDE DEF decided, queued
<1>7. /\ \A k : k \in DOMAIN inner <=> k \in DOMAIN decided \/ k \in DOMAIN typed.tags
      /\ \A k \in DOMAIN typed.tags : k \notin DOMAIN decided => inner[k] = typed.tags[k]
  BY DEF Merge
<1> HIDE DEF inner
<1>8. /\ \A k : k \in DOMAIN tags <=> k \in DOMAIN queued \/ k \in DOMAIN inner
      /\ \A k \in DOMAIN inner : k \notin DOMAIN queued => tags[k] = inner[k]
  BY DEF Merge
<1> HIDE DEF tags
<1>9. /\ DOMAIN out = Fields /\ out.source_type = typed.source_type
      /\ out.severity = typed.severity /\ out.event_category = typed.event_category
      /\ out.message = typed.message /\ out.raw = typed.raw /\ out.tags = tags
  BY <1>3, <1>4 DEF Stored, Fields
<1>10. TagsKept(e, out, DecisionTags)
  BY <1>3, <1>5, <1>6, <1>7, <1>8, <1>9 DEF TagsKept, DecisionTags
<1> QED
  BY <1>3, <1>9, <1>10 DEF Stored

\* normalizeSourceType yields no alias, so that a second time it changes nothing.
LEMMA AliasesAre ==
  /\ \A s : normalizeSourceType(s) \notin {"gds-agent", "opnsense", "fuxa", "openplc", "nozomi", "fuxa_gds_client"}
  /\ \A s : normalizeSourceType(normalizeSourceType(s)) = normalizeSourceType(s)
  /\ \A s : normalizeSourceType(s) # "" => s # ""
  /\ normalizeSourceType("") = "" /\ normalizeSourceType("unknown") = "unknown"
  /\ \A s : s \in {"firewall", "scada", "opcua", "plc", "ews", "gds_agent", "scada_gds_client"} => normalizeSourceType(s) = s
BY DEF normalizeSourceType

\* The rule that an event meets, and what is decided.
LEMMA DecidedIs ==
  ASSUME NEW e, NEW d, NEW out, IngestedAs(e, d, out)
  PROVE  \E i : /\ Meets(Typed(e), i) /\ d.rule = defaultRules[i].id /\ d.rule # "none"
                /\ Forwarding(i) => d.forward /\ ~d.drop
                /\ i = 16 => ~d.drop
<1>1. d \in Verdicts(applyRules(Typed(e)))
  BY DEF IngestedAs
<1>2. PICK i : Meets(Typed(e), i) /\ applyRules(Typed(e)) = defaultRules[i]
  BY RuleMet
<1>3. i \in 1 .. 16 /\ d \in Verdicts(defaultRules[i])
  BY <1>1, <1>2 DEF Meets
<1> QED
  BY <1>2, <1>3, VerdictIs

-----------------------------------------------------------------------------
(* The invariant: where the event came from.                                *)

\* e is what came in as o.
Arrived(o, e) ==
    \/ o.kind = "line" /\ \E store \in SourceStores : e \in Normalized(store, o.ip, o.line)
    \/ o.kind = "event" /\ e \in {o.event, normalizePostedEvent(o.event)}

\* stored is what came in as o, decided as d; again is it, posted again.
Kept(o, d, stored) == \E e : Arrived(o, e) /\ IngestedAs(e, d, stored)
\* again is a stored event, decided by d, as it is posted once more.
PostedAgain(o, d, again) == \E stored : Kept(o, d, stored) /\ again = normalizePostedEvent(stored)

\* Everything the event and the decisions are is told from what came in: the event
\* is what arrived, or what ingest made of that, or what a second posting made of
\* that.  The properties are about the end of this way; none is inductive alone.
PathInv ==
    /\ stage \in {"idle", "line", "event", "ingested"} /\ known \in SourceStores
    /\ stage = "idle" => origin.kind = "none"
    /\ stage # "idle" => origin \in Origins
    /\ stage = "line" => IsLine
    /\ stage \in {"idle", "line"} => first = NoDecision
    /\ stage = "event" =>
          \/ first = NoDecision /\ Arrived(origin, evt)
          \/ first # NoDecision /\ PostedAgain(origin, first, evt)
    /\ stage = "ingested" =>
          \/ first = NoDecision /\ Kept(origin, decision, evt)
          \/ first # NoDecision /\ \E again : PostedAgain(origin, first, again) /\ IngestedAs(again, decision, evt)

LEMMA DecisionsAreMade ==
  ASSUME NEW e, NEW d, NEW out, IngestedAs(e, d, out)
  PROVE  d # NoDecision
<1>1. d.rule # "none"
  BY DecidedIs
<1>2. NoDecision.rule = "none"
  BY DEF NoDecision, Decision
<1> QED
  BY <1>1, <1>2

\* PathInv holds always: of every event it can be told what came in and how it was
\* made of that, through an edit of the sources and a second posting.
LEMMA PathInvariant == PathSpec => []PathInv
<1>1. PathInit => PathInv
  BY DEF PathInit, PathInv
<1>2. PathInv /\ [PathNext]_pathVars => PathInv'
  <2> SUFFICES ASSUME PathInv, [PathNext]_pathVars PROVE PathInv'
    OBVIOUS
  <2>1. CASE Receive
    BY <2>1 DEF PathInv, Receive, IsLine
  <2>2. CASE EditSources
    BY <2>2 DEF PathInv, EditSources, IsLine
  <2>3. CASE Normalize
    <3>1. Arrived(origin', evt') /\ first' = NoDecision
      BY <2>3 DEF PathInv, Normalize, Arrived, IsLine
    <3> QED
      BY <2>3, <3>1 DEF PathInv, Normalize
  <2>4. CASE Post
    <3>1. Arrived(origin', evt') /\ first' = NoDecision
      BY <2>4 DEF PathInv, Post, Arrived
    <3> QED
      BY <2>4, <3>1 DEF PathInv, Post
  <2>5. CASE Ingest
    <3>1. IngestedAs(evt, decision', evt')
      BY <2>5 DEF Ingest, IngestedAs, Typed
    <3>2. CASE first = NoDecision
      <4>1. Kept(origin', decision', evt') /\ first' = NoDecision
        BY <2>5, <3>1, <3>2 DEF PathInv, Ingest, Kept
      <4> QED
        BY <2>5, <4>1 DEF PathInv, Ingest
    <3>3. CASE first # NoDecision
      <4>1. PostedAgain(origin', first', evt) /\ first' # NoDecision
        BY <2>5, <3>3 DEF PathInv, Ingest
      <4> QED
        BY <2>5, <3>1, <4>1 DEF PathInv, Ingest
    <3> QED
      BY <3>2, <3>3
  <2>6. CASE Replay
    <3>1. Kept(origin, decision, evt)
      BY <2>6 DEF PathInv, Replay
    <3>2. decision # NoDecision
      BY <3>1, DecisionsAreMade DEF Kept
    <3>3. PostedAgain(origin', first', evt') /\ first' # NoDecision
      BY <2>6, <3>1, <3>2 DEF Replay, PostedAgain
    <3> QED
      BY <2>6, <3>3 DEF PathInv, Replay
  <2>7. CASE UNCHANGED pathVars
    BY <2>7 DEF PathInv, pathVars, IsLine
  <2> QED
    BY <2>1, <2>2, <2>3, <2>4, <2>5, <2>6, <2>7 DEF PathNext
<1> QED
  BY <1>1, <1>2, PTL DEF PathSpec

-----------------------------------------------------------------------------
(* What is posted.                                                          *)

\* normalizePostedEvent fills in blanks and changes nothing else.
LEMMA PostedIs ==
  ASSUME NEW e, DOMAIN e = Fields, NEW out, out = normalizePostedEvent(e)
  PROVE  /\ DOMAIN out = Fields /\ out.message = e.message /\ out.raw = e.raw /\ out.tags = e.tags
         /\ out.source_type = IF e.source_type = "" THEN "unknown" ELSE e.source_type
         /\ out.severity = IF e.severity = "" THEN "info" ELSE e.severity
         /\ out.event_category = IF e.event_category = "" THEN "system" ELSE e.event_category
<1>1. PICK source, severity, category :
         /\ source = IF e.source_type = "" THEN "unknown" ELSE e.source_type
         /\ severity = IF e.severity = "" THEN "info" ELSE e.severity
         /\ category = IF e.event_category = "" THEN "system" ELSE e.event_category
  OBVIOUS
<1>2. out = [e EXCEPT !.source_type = source, !.severity = severity, !.event_category = category]
  BY <1>1 DEF normalizePostedEvent, Fields
<1>3. /\ DOMAIN out = Fields /\ out.message = e.message /\ out.raw = e.raw /\ out.tags = e.tags
      /\ out.source_type = source /\ out.severity = severity /\ out.event_category = category
  BY <1>2 DEF Fields
<1> QED
  BY <1>1, <1>3

\* What arrives has all fields; a line's event is complete, and only a client's blank.
LEMMA ArrivedIs ==
  ASSUME NEW o \in Origins, NEW e, Arrived(o, e)
  PROVE  /\ DOMAIN e = Fields
         /\ o.kind = "line" => FromLine(o.line, Parse(o.line), e) /\ Complete(o.line, Parse(o.line), e)
         /\ Blank(e) => o.kind = "event" /\ Blank(o.event)
<1>1. CASE o.kind = "line"
  <2>1. PICK p : p = Parse(o.line) /\ IsParsed(p, o.line)
    BY <1>1, PathAssumption DEF IsParsed
  <2>2. PICK store \in SourceStores : e \in Normalized(store, o.ip, o.line)
    BY <1>1 DEF Arrived
  <2>3. FromLine(o.line, p, e)
    BY <2>1, <2>2, NormalizedIs
  <2>4. Complete(o.line, p, e)
    BY <2>3, FromLineComplete
  <2> QED
    BY <1>1, <2>1, <2>3, <2>4 DEF Complete, Blank, Severities
<1>2. CASE o.kind = "event"
  <2>1. IsEvent(o.event)
    BY <1>2, PathAssumption
  <2>2. DOMAIN o.event = Fields
    BY <2>1 DEF IsEvent, Fields
  <2>3. CASE e = o.event
    BY <1>2, <2>2, <2>3
  <2>4. CASE e = normalizePostedEvent(o.event)
    <3>1. /\ DOMAIN e = Fields
          /\ e.severity = IF o.event.severity = "" THEN "info" ELSE o.event.severity
          /\ e.event_category = IF o.event.event_category = "" THEN "system" ELSE o.event.event_category
      BY <2>2, <2>4, PostedIs
    <3> QED
      BY <1>2, <3>1 DEF Blank
  <2> QED
    BY <1>2, <2>3, <2>4 DEF Arrived
<1> QED
  BY <1>1, <1>2 DEF Arrived

-----------------------------------------------------------------------------
(* The type invariant, the tags and the second passage.                     *)

\* What makes the event of a line complete, its tags apart.
Typical(e) ==
    /\ DOMAIN e = Fields /\ e.severity \in Severities /\ e.message # {}
    /\ e.event_category # "" /\ e.source_type # ""

LEMMA StoredTypical ==
  ASSUME NEW e, Typical(e), NEW out, Stored(e, out)
  PROVE  Typical(out)
BY AliasesAre DEF Typical, Stored, normalizeSourceType

LEMMA PostedTypical ==
  ASSUME NEW e, Typical(e), NEW out, out = normalizePostedEvent(e)
  PROVE  Typical(out)
<1>1. DOMAIN e = Fields
  BY DEF Typical
<1>2. /\ DOMAIN out = Fields /\ out.message = e.message
      /\ out.source_type = IF e.source_type = "" THEN "unknown" ELSE e.source_type
      /\ out.severity = IF e.severity = "" THEN "info" ELSE e.severity
      /\ out.event_category = IF e.event_category = "" THEN "system" ELSE e.event_category
  BY <1>1, PostedIs
<1> QED
  BY <1>2 DEF Typical, Severities

LEMMA KeptIs ==
  ASSUME NEW o \in Origins, NEW d, NEW stored, Kept(o, d, stored)
  PROVE  DOMAIN stored = Fields /\ (o.kind = "line" => Typical(stored))
<1>1. PICK e : Arrived(o, e) /\ IngestedAs(e, d, stored)
  BY DEF Kept
<1>2. DOMAIN e = Fields /\ (o.kind = "line" => Complete(o.line, Parse(o.line), e))
  BY <1>1, ArrivedIs
<1>3. Stored(e, stored)
  BY <1>1, <1>2, IngestedIs
<1>4. o.kind = "line" => Typical(e)
  BY <1>2 DEF Complete, Typical
<1> QED
  BY <1>3, <1>4, StoredTypical DEF Stored

LEMMA PostedAgainIs ==
  ASSUME NEW o \in Origins, NEW d, NEW again, PostedAgain(o, d, again)
  PROVE  DOMAIN again = Fields /\ (o.kind = "line" => Typical(again))
<1>1. PICK stored : Kept(o, d, stored) /\ again = normalizePostedEvent(stored)
  BY DEF PostedAgain
<1>2. DOMAIN stored = Fields /\ (o.kind = "line" => Typical(stored))
  BY <1>1, KeptIs
<1> QED
  BY <1>1, <1>2, PostedIs, PostedTypical

LEMMA PathTypes == PathInv => PathTypeOK
<1> SUFFICES ASSUME PathInv PROVE PathTypeOK
  OBVIOUS
<1>1. stage \in {"idle", "line", "event", "ingested"} /\ known \in SourceStores
  BY DEF PathInv
<1>2. origin.kind \in {"none", "line", "event"}
  BY PathAssumption DEF PathInv
<1>3. ASSUME stage = "event" PROVE IsLine => Typical(evt)
  <2>1. origin \in Origins /\ (Arrived(origin, evt) \/ PostedAgain(origin, first, evt))
    BY <1>3 DEF PathInv
  <2>2. CASE Arrived(origin, evt)
    BY <2>1, <2>2, ArrivedIs DEF IsLine, Complete, Typical
  <2>3. CASE PostedAgain(origin, first, evt)
    BY <2>1, <2>3, PostedAgainIs DEF IsLine
  <2> QED
    BY <2>1, <2>2, <2>3
<1>4. ASSUME stage = "ingested"
      PROVE  \E e : Stored(e, evt) /\ (IsLine => Typical(evt))
  <2>1. origin \in Origins
    BY <1>4 DEF PathInv
  <2>2. CASE Kept(origin, decision, evt)
    <3>1. PICK e : Arrived(origin, e) /\ IngestedAs(e, decision, evt)
      BY <2>2 DEF Kept
    <3>2. DOMAIN e = Fields
      BY <2>1, <3>1, ArrivedIs
    <3> QED
      BY <2>1, <2>2, <3>1, <3>2, IngestedIs, KeptIs DEF IsLine
  <2>3. CASE \E again : PostedAgain(origin, first, again) /\ IngestedAs(again, decision, evt)
    <3>1. PICK again : PostedAgain(origin, first, again) /\ IngestedAs(again, decision, evt)
      BY <2>3
    <3>2. DOMAIN again = Fields /\ (IsLine => Typical(again))
      BY <2>1, <3>1, PostedAgainIs DEF IsLine
    <3>3. Stored(again, evt)
      BY <3>1, <3>2, IngestedIs
    <3> QED
      BY <3>2, <3>3, StoredTypical
  <2> QED
    BY <1>4, <2>2, <2>3 DEF PathInv
<1>5. stage = "ingested" =>
          evt.source_type \notin {"gds-agent", "opnsense", "fuxa", "openplc", "nozomi", "fuxa_gds_client"}
  BY <1>4, AliasesAre DEF Stored
<1> QED
  BY <1>1, <1>2, <1>3, <1>4, <1>5 DEF PathTypeOK, Typical

\* Whatever arrives, an event is where its stage says, an event that a line became
\* has a severity the rules know and no blank field, before its decision, after it
\* and when it is posted again, and no alias of a source is ever stored.
THEOREM PathTyped == PathSpec => []PathTypeOK
BY PathInvariant, PathTypes, PTL

LEMMA TagsAreAuthoritative == PathInv => TagsAuthoritative
<1> SUFFICES ASSUME PathInv, stage \in {"event", "ingested"}, IsLine, first = NoDecision
             PROVE  /\ {k \in DOMAIN evt.tags : isSensitiveKey(k)} = {}
                    /\ evt.tags["syslog_format"] \in Formats
                    /\ evt.tags["normalized"] = "true"
                    /\ IsTelemetry(Body.json) =>
                          /\ evt.tags["structured_json"] = "true"
                          /\ Parse(origin.line).format # "raw" =>
                                evt.tags["hostname"] = "its host" /\ evt.tags["app_name"] = "its app"
  BY DEF TagsAuthoritative, Formats
<1>0. PICK line : line = origin.line
  OBVIOUS
<1>1. PICK p : line = origin.line /\ p = Parse(line) /\ p.json = Body.json
  <2>1. Parse(line).json = line.body.json
    BY DEF Parse
  <2> QED
    BY <1>0, <2>1 DEF Body
<1>2. origin \in Origins
  BY DEF PathInv
<1>3. /\ \A k \in DOMAIN evt.tags : ~isSensitiveKey(k)
      /\ evt.tags["normalized"] = "true" /\ evt.tags["syslog_format"] \in Formats
      /\ IsTelemetry(p.json) =>
            /\ evt.tags["structured_json"] = "true"
            /\ p.format # "raw" =>
                  evt.tags["hostname"] = "its host" /\ evt.tags["app_name"] = "its app"
  <2>1. CASE stage = "event"
    <3>1. Complete(line, p, evt)
      BY <1>1, <1>2, <2>1, ArrivedIs DEF PathInv, IsLine
    <3> QED
      BY <3>1 DEF Complete, TagsSay
  <2>2. CASE stage = "ingested"
    <3>1. PICK e : Arrived(origin, e) /\ IngestedAs(e, decision, evt)
      BY <2>2 DEF PathInv, Kept
    <3>2. Complete(line, p, e)
      BY <1>1, <1>2, <3>1, ArrivedIs DEF IsLine
    <3>3. TagsKept(e, evt, DecisionTags)
      BY <3>1, <3>2, IngestedIs DEF Stored, Complete
    <3>4. \A k \in DecisionTags : ~isSensitiveKey(k)
      BY DEF DecisionTags, isSensitiveKey
    <3>5. {"normalized", "syslog_format", "structured_json", "hostname", "app_name"} \cap DecisionTags = {}
      BY DEF DecisionTags
    <3> QED
      BY <3>2, <3>3, <3>4, <3>5 DEF Complete, TagsSay, TagsKept
  <2> QED
    BY <2>1, <2>2
<1> QED
  BY <1>1, <1>3

\* Whatever a line's payload has in it, and in whatever order its fields are copied,
\* it neither replaces a tag of the collector's nor brings in a secret.
THEOREM TagsHeld == PathSpec => []TagsAuthoritative
BY PathInvariant, TagsAreAuthoritative, PTL

\* The rules tell x and y not apart.
Alike(x, y) ==
    /\ y.source_type = x.source_type \/ (x.source_type = "" /\ y.source_type = "unknown")
    /\ y.severity = x.severity /\ y.event_category = x.event_category
    /\ y.message = x.message /\ y.raw = x.raw
    /\ operationFor(y) = operationFor(x) /\ Tag(y, "sensitive_action") = Tag(x, "sensitive_action")

LEMMA AlikeAsked ==
  ASSUME NEW x, NEW y, Alike(x, y)
  PROVE  \A i \in 1 .. 16 : Asked(i, x) <=> Asked(i, y)
<1> TAKE i \in 1 .. 16
<1>1. /\ \A needle : Says(x, needle) <=> Says(y, needle)
      /\ \A s \in {"firewall", "opcua", "ews", "scada", "gds_agent", "gds-agent", "plc"} :
            x.source_type = s <=> y.source_type = s
      /\ x.severity = y.severity /\ x.event_category = y.event_category
      /\ operationFor(y) = operationFor(x) /\ Tag(y, "sensitive_action") = Tag(x, "sensitive_action")
  BY DEF Alike, Says
<1>2. CASE i \in 1 .. 6
  BY <1>1, <1>2 DEF Asked
<1>3. CASE i \in 7 .. 11
  BY <1>1, <1>3 DEF Asked
<1>4. CASE i \in 12 .. 16
  BY <1>1, <1>4 DEF Asked
<1> QED
  BY <1>2, <1>3, <1>4

\* Events alike in what the rules look at meet the same rule.
LEMMA AlikeMeet ==
  ASSUME NEW x, NEW y, Alike(x, y), NEW i, Meets(x, i), NEW j, Meets(y, j)
  PROVE  i = j
<1>1. \A k \in 1 .. 16 : Asked(k, x) <=> Asked(k, y)
  BY AlikeAsked
<1>2. i <= j /\ j <= i /\ i \in Int /\ j \in Int
  BY <1>1 DEF Meets
<1> QED
  BY <1>2

\* An event without blanks is alike when it is posted again.
LEMMA AgainAlike ==
  ASSUME NEW e, DOMAIN e = Fields, ~Blank(e), NEW stored, Stored(e, stored),
         NEW again, again = normalizePostedEvent(stored)
  PROVE  DOMAIN again = Fields /\ Alike(Typed(e), Typed(again))
<1>1. DOMAIN stored = Fields
  BY DEF Stored
<1>2. /\ DOMAIN again = Fields /\ again.message = stored.message /\ again.raw = stored.raw
      /\ again.tags = stored.tags
      /\ again.source_type = IF stored.source_type = "" THEN "unknown" ELSE stored.source_type
      /\ again.severity = IF stored.severity = "" THEN "info" ELSE stored.severity
      /\ again.event_category = IF stored.event_category = "" THEN "system" ELSE stored.event_category
  BY <1>1, PostedIs
<1>3. PICK x, y : x = Typed(e) /\ y = Typed(again)
  OBVIOUS
<1>4. Stored(e, x) /\ x.tags = e.tags
  BY <1>3, TypedIs
<1>5. Stored(again, y) /\ y.tags = again.tags
  BY <1>2, <1>3, TypedIs
<1>6. y.source_type = x.source_type \/ (x.source_type = "" /\ y.source_type = "unknown")
  <2>1. PICK source : source = normalizeSourceType(e.source_type)
    OBVIOUS
  <2>2. normalizeSourceType(source) = source /\ normalizeSourceType("unknown") = "unknown"
    BY <2>1, AliasesAre
  <2>3. stored.source_type = source /\ x.source_type = source
    BY <1>4, <2>1 DEF Stored
  <2>4. y.source_type = normalizeSourceType(again.source_type)
    BY <1>5 DEF Stored
  <2>5. again.source_type = IF source = "" THEN "unknown" ELSE source
    BY <1>2, <2>3
  <2> QED
    BY <2>2, <2>3, <2>4, <2>5
<1>7. /\ y.severity = x.severity /\ y.event_category = x.event_category
      /\ y.message = x.message /\ y.raw = x.raw
  BY <1>2, <1>4, <1>5 DEF Stored, Blank
<1>8. \A k : k \notin DecisionTags => Tag(y, k) = Tag(x, k)
  <2>1. TagsKept(e, stored, DecisionTags)
    BY DEF Stored
  <2>2. \A k : k \notin DecisionTags => Tag(stored, k) = Tag(e, k)
    BY <2>1, TagsKeptTag
  <2>3. \A k : Tag(y, k) = Tag(stored, k) /\ Tag(x, k) = Tag(e, k)
    BY <1>2, <1>4, <1>5 DEF Tag
  <2> QED
    BY <2>2, <2>3
<1>9. /\ operationFor(y) = operationFor(x) /\ Tag(y, "sensitive_action") = Tag(x, "sensitive_action")
  <2>1. {"opcua_operation", "operation", "sensitive_action"} \cap DecisionTags = {}
    BY DEF DecisionTags
  <2>2. /\ Tag(y, "opcua_operation") = Tag(x, "opcua_operation")
        /\ Tag(y, "operation") = Tag(x, "operation")
        /\ Tag(y, "sensitive_action") = Tag(x, "sensitive_action")
    BY <1>8, <2>1
  <2> QED
    BY <2>2 DEF operationFor
<1> QED
  BY <1>2, <1>3, <1>6, <1>7, <1>9 DEF Alike

LEMMA ReplaysAgree == PathInv => ReplayAgrees
<1> SUFFICES ASSUME PathInv, stage = "ingested", first # NoDecision,
                    ~(origin.kind = "event" /\ Blank(origin.event))
             PROVE  decision.rule = first.rule
  BY DEF ReplayAgrees
<1>1. origin \in Origins
  BY DEF PathInv
<1>2. PICK again : PostedAgain(origin, first, again) /\ IngestedAs(again, decision, evt)
  BY DEF PathInv
<1>3. PICK stored, e : /\ Arrived(origin, e) /\ IngestedAs(e, first, stored)
                       /\ again = normalizePostedEvent(stored)
  BY <1>2 DEF PostedAgain, Kept
<1>4. DOMAIN e = Fields /\ ~Blank(e)
  BY <1>1, <1>3, ArrivedIs
<1>5. Stored(e, stored)
  BY <1>3, <1>4, IngestedIs
<1>6. Alike(Typed(e), Typed(again))
  BY <1>3, <1>4, <1>5, AgainAlike
<1>7. PICK i : Meets(Typed(e), i) /\ first.rule = defaultRules[i].id
  BY <1>3, DecidedIs
<1>8. PICK j : Meets(Typed(again), j) /\ decision.rule = defaultRules[j].id
  BY <1>2, DecidedIs
<1>9. i = j
  BY <1>6, <1>7, <1>8, AlikeMeet
<1> QED
  BY <1>7, <1>8, <1>9

\* An event that is posted again as the collector stored it meets the rule it met
\* the first time, unless a client's blanks were filled in between.
THEOREM ReplaysMeetTheirRule == PathSpec => []ReplayAgrees
BY PathInvariant, ReplaysAgree, PTL

-----------------------------------------------------------------------------
(* The SCADA forwarder's lines.                                             *)

\* A row of the forwarder's classification has a name and a severity.
Reported(row) == row[2] \notin {"", Nested} /\ row[3] \in {"warning", "error", "info"}

LEMMA ForwarderRows == \A i \in DOMAIN ClassifyRows : Reported(ClassifyRows[i])
<1>1. DOMAIN ClassifyRows = 1 .. 4
  BY DEF ClassifyRows
<1>2. /\ Reported(ClassifyRows[1]) /\ Reported(ClassifyRows[2])
      /\ Reported(ClassifyRows[3]) /\ Reported(ClassifyRows[4])
  BY DEF ClassifyRows, Nested, Reported
<1> QED
  BY <1>1, <1>2

\* The forwarder's payload is telemetry, and says what the row says.
LEMMA ForwarderPayload ==
  ASSUME NEW i \in DOMAIN ClassifyRows, NEW payload, payload = build_event(ClassifyRows[i])
  PROVE  /\ IsTelemetry(payload) /\ Scalar(payload, "source_type") = "scada"
         /\ Scalar(payload, "severity") = ClassifyRows[i][3]
         /\ Scalar(payload, "event_category") = "data_collection"
         /\ EventType(payload) = ClassifyRows[i][2]
<1>1. PICK row : row = ClassifyRows[i]
  OBVIOUS
<1>2. row[2] \notin {"", Nested} /\ row[3] \in {"warning", "error", "info"}
  BY <1>1, ForwarderRows DEF Reported
<1>3. /\ DOMAIN payload = Fields /\ payload["source_type"] = "scada" /\ payload["severity"] = row[3]
      /\ payload["event_category"] = "data_collection" /\ payload["message"] = row[2]
  BY <1>1 DEF build_event, Fields
<1>4. "event_type" \notin DOMAIN payload /\ "message" \in DOMAIN payload
      /\ {"source_type", "severity", "event_category"} \subseteq DOMAIN payload
  BY <1>3 DEF Fields
<1>5. /\ Scalar(payload, "source_type") = "scada" /\ Scalar(payload, "severity") = row[3]
      /\ Scalar(payload, "event_category") = "data_collection" /\ Scalar(payload, "message") = row[2]
      /\ Scalar(payload, "event_type") = ""
  BY <1>2, <1>3, <1>4 DEF Scalar, Nested
<1> QED
  BY <1>1, <1>2, <1>4, <1>5 DEF IsTelemetry, EventType

\* No later table renames what the forwarder named.
LEMMA ForwarderLine ==
  ASSUME NEW line, NEW p, NEW e, FromLine(line, p, e),
         NEW i \in DOMAIN ClassifyRows, p.json = build_event(ClassifyRows[i])
  PROVE  /\ e.message = Text({ClassifyRows[i][2]}) /\ e.event_category = "data_collection"
         /\ e.severity = ClassifyRows[i][3] /\ e.source_type = "scada"
<1>1. PICK based, canonical, named : MadeOf(line, p, based, canonical, named, e)
  BY DEF FromLine
<1>2. /\ Based(line, p, based) /\ Canonical(based, canonical) /\ RestKept(canonical, named)
      /\ Hinted(named, e) /\ (Unnamed(canonical, named) \/ NamedByRow(canonical, named))
  BY <1>1 DEF MadeOf, Applied
<1>3. PICK name, severity : /\ name = ClassifyRows[i][2] /\ severity = ClassifyRows[i][3]
                            /\ severity \in {"warning", "error", "info"}
  BY ForwarderRows DEF Reported
<1>4. /\ IsTelemetry(p.json) /\ Scalar(p.json, "source_type") = "scada"
      /\ Scalar(p.json, "severity") = severity
      /\ Scalar(p.json, "event_category") = "data_collection" /\ EventType(p.json) = name
  BY <1>3, ForwarderPayload
<1>5. /\ based.source_type = "scada" /\ based.severity = normalizeSeverityText(severity)
      /\ based.event_category = "data_collection" /\ based.message = Text({name})
  BY <1>2, <1>3, <1>4 DEF Based, Structured
<1>6. based.severity \in {"warn", "error", "info"} /\ (severity = "warning" <=> based.severity = "warn")
      /\ (severity # "warning" => based.severity = severity)
  BY <1>3, <1>5 DEF normalizeSeverityText
<1>7. /\ canonical.source_type = "scada" /\ canonical.severity = severity
      /\ canonical.event_category = "data_collection" /\ canonical.message = Text({name})
  BY <1>2, <1>3, <1>5, <1>6 DEF Canonical
<1>8. Searched(canonical) = Text({name}) /\ "scada" \in DOMAIN Tables /\ Tables["scada"] = SCADARows
  BY <1>7, TablesAre DEF Searched
<1>9. \A j \in DOMAIN SCADARows :
          ~HasAny(Text({name}), SCADARows[j][1] \cup {"[error]", "[err]", "[warn]", "[warning]"})
  BY <1>3, NamesAssumption
<1>10. Hits(SCADARows, Text({name})) = {}
  BY <1>9 DEF Hits, HasAny
<1>11. ~HasAny(Text({name}), Levels)
  <2>1. 1 \in DOMAIN SCADARows
    BY DEF SCADARows
  <2> QED
    BY <1>9, <2>1 DEF HasAny, Levels
<1>12. Unnamed(canonical, named)
  BY <1>2, <1>7, <1>8, <1>10 DEF NamedByRow
<1>13. /\ named.message = Text({name}) /\ named.event_category = "data_collection"
       /\ named.severity = severity /\ named.source_type = "scada"
  BY <1>2, <1>7, <1>11, <1>12 DEF Unnamed, Leveled, RestKept
<1>14. Text({name}) # {}
  BY DEF Text
<1> QED
  BY <1>2, <1>3, <1>13, <1>14 DEF Hinted

\* An event of no firewall that is critical, an error or a security matter is
\* forwarded, and so is a sensitive command of an OPC UA server.
LEMMA GraveForwarded ==
  ASSUME NEW evt1, evt1.source_type # "firewall", NEW i, Meets(evt1, i),
         NEW m \in {3, 4, 7, 8}, Asked(m, evt1)
  PROVE  Forwarding(i)
<1>1. i \in 1 .. 8
  BY DEF Meets
<1>2. ~Asked(5, evt1) /\ ~Asked(6, evt1)
  BY DEF Asked
<1>3. i \notin {5, 6}
  BY <1>2 DEF Meets
<1> QED
  BY <1>1, <1>3 DEF Forwarding

\* What the first decision was made on.
LEMMA FirstDecision ==
  ASSUME PathInv, Ingested, IsLine
  PROVE  \E e, i : /\ FromLine(origin.line, Parse(origin.line), e)
                   /\ Complete(origin.line, Parse(origin.line), e) /\ Stored(e, evt)
                   /\ Stored(e, Typed(e)) /\ Typed(e).tags = e.tags
                   /\ Meets(Typed(e), i)
                   /\ Forwarding(i) => decision.forward /\ ~decision.drop
                   /\ i = 16 => ~decision.drop
<1>1. PICK e : Arrived(origin, e) /\ IngestedAs(e, decision, evt)
  BY DEF PathInv, Ingested, Kept
<1>2. origin \in Origins
  BY DEF PathInv, Ingested
<1>3. /\ FromLine(origin.line, Parse(origin.line), e) /\ Complete(origin.line, Parse(origin.line), e)
      /\ DOMAIN e = Fields
  BY <1>1, <1>2, ArrivedIs DEF IsLine
<1>4. Stored(e, evt) /\ Stored(e, Typed(e)) /\ Typed(e).tags = e.tags
  BY <1>1, <1>3, IngestedIs, TypedIs
<1> QED
  BY <1>1, <1>3, <1>4, DecidedIs

LEMMA ForwarderKept == PathInv => ForwarderVerdictKept
<1> SUFFICES ASSUME PathInv, NEW i \in DOMAIN ClassifyRows, Ingested, IsLine,
                    Body.json = build_event(ClassifyRows[i])
             PROVE  /\ evt.message = Text({ClassifyRows[i][2]}) /\ evt.event_category = "data_collection"
                    /\ evt.severity = ClassifyRows[i][3] /\ evt.source_type = "scada"
                    /\ ClassifyRows[i][3] = "error" => decision.forward
  BY DEF ForwarderVerdictKept
<1>1. PICK line, p : line = origin.line /\ p = Parse(line)
  OBVIOUS
<1>2. p.json = build_event(ClassifyRows[i])
  BY <1>1 DEF Parse, Body
<1>3. PICK e, rule : /\ FromLine(line, p, e) /\ Stored(e, evt) /\ Stored(e, Typed(e))
                     /\ Meets(Typed(e), rule) /\ (Forwarding(rule) => decision.forward)
  BY <1>1, FirstDecision
<1>4. /\ e.message = Text({ClassifyRows[i][2]}) /\ e.event_category = "data_collection"
      /\ e.severity = ClassifyRows[i][3] /\ e.source_type = "scada"
  BY <1>2, <1>3, ForwarderLine
<1>5. /\ evt.message = Text({ClassifyRows[i][2]}) /\ evt.event_category = "data_collection"
      /\ evt.severity = ClassifyRows[i][3] /\ evt.source_type = "scada"
  BY <1>3, <1>4, AliasesAre DEF Stored
<1>6. ASSUME ClassifyRows[i][3] = "error" PROVE decision.forward
  <2>1. PICK typed : typed = Typed(e)
    OBVIOUS
  <2>2. typed.severity = "error" /\ typed.source_type # "firewall"
    BY <1>3, <1>4, <1>6, <2>1, AliasesAre DEF Stored
  <2>3. Asked(7, typed)
    BY <2>2 DEF Asked
  <2>4. Forwarding(rule)
    BY <1>3, <2>1, <2>2, <2>3, GraveForwarded
  <2> QED
    BY <1>3, <2>4
<1> QED
  BY <1>5, <1>6

\* What the SCADA forwarder says of a line is what the collector stores of it, in
\* whatever envelope it comes, and an error it reports is forwarded.
THEOREM ForwarderHeard == PathSpec => []ForwarderVerdictKept
BY PathInvariant, ForwarderKept, PTL

-----------------------------------------------------------------------------
(* Records and urgent lines are forwarded.                                  *)

LEMMA MadeOfParts ==
  ASSUME NEW line, NEW p, NEW based, NEW canonical, NEW named, NEW e,
         MadeOf(line, p, based, canonical, named, e)
  PROVE  /\ Based(line, p, based) /\ Canonical(based, canonical) /\ RestKept(canonical, named)
         /\ Hinted(named, e) /\ (Unnamed(canonical, named) \/ NamedByRow(canonical, named))
BY DEF MadeOf, Applied

\* A record's source is the firewall.
LEMMA RecordSource ==
  ASSUME NEW line, NEW p, NEW based, NEW canonical, NEW named, NEW e,
         MadeOf(line, p, based, canonical, named, e), Recorded(p, based)
  PROVE  /\ canonical.source_type = "firewall" /\ named.source_type = "firewall"
         /\ e.source_type = "firewall"
<1>1. /\ Based(line, p, based) /\ Canonical(based, canonical) /\ RestKept(canonical, named)
      /\ Hinted(named, e) /\ (Unnamed(canonical, named) \/ NamedByRow(canonical, named))
  BY MadeOfParts
<1> QED
  BY <1>1 DEF Recorded, Canonical, RestKept, Hinted

\* Its action names it.
LEMMA RecordNamed ==
  ASSUME NEW line, NEW p, NEW e, FromLine(line, p, e), ~IsTelemetry(p.json),
         p.csv.fields >= 9, p.csv.action \in {"block", "reject"}
  PROVE  /\ e.source_type = "firewall"
         /\ "firewall_block" \in e.message \/ "firewall_reject" \in e.message
<1>1. PICK based, canonical, named : MadeOf(line, p, based, canonical, named, e)
  BY DEF FromLine
<1>2. /\ Based(line, p, based) /\ Canonical(based, canonical) /\ RestKept(canonical, named)
      /\ Hinted(named, e) /\ (Unnamed(canonical, named) \/ NamedByRow(canonical, named))
  BY <1>1, MadeOfParts
<1>3. Recorded(p, based)
  BY <1>2 DEF Based, looksLikeFilterlog
<1>4. canonical.source_type = "firewall" /\ e.source_type = "firewall"
  BY <1>1, <1>3, RecordSource
<1>5. PICK action : action = p.csv.action /\ action \in {"block", "reject"}
  OBVIOUS
<1>6. Tag(canonical, "action") = action
  <2>1. Tag(based, "action") = action
    BY <1>3, <1>5 DEF Recorded
  <2>2. TagsKept(based, canonical, {"normalized"})
    BY <1>2 DEF Canonical
  <2> QED
    BY <2>1, <2>2, TagsKeptTag
<1>7. Searched(canonical) = {action}
  BY <1>4, <1>5, <1>6 DEF Searched, Action
<1>8. "firewall" \in DOMAIN Tables /\ Tables["firewall"] = FirewallRows
  BY TablesAre
<1>9. /\ DOMAIN FirewallRows = 1 .. 3
      /\ FirewallRows[1][1] = {"block"} /\ FirewallRows[1][2] = "firewall_block"
      /\ FirewallRows[2][1] = {"reject"} /\ FirewallRows[2][2] = "firewall_reject"
      /\ FirewallRows[3][1] = {"pass"}
  BY DEF FirewallRows
<1>10. Hits(FirewallRows, {action}) = IF action = "block" THEN {1} ELSE {2}
  BY <1>5, <1>9 DEF Hits, HasAny
<1>11. NamedByRow(canonical, named)
  BY <1>2, <1>4, <1>7, <1>8, <1>10 DEF Unnamed
<1>12. PICK i \in Hits(FirewallRows, {action}) : named.message = Text({FirewallRows[i][2]})
  BY <1>4, <1>7, <1>8, <1>11 DEF NamedByRow
<1>13. "firewall_block" \in named.message \/ "firewall_reject" \in named.message
  <2>1. i \in {1, 2}
    BY <1>10
  <2> QED
    BY <1>9, <1>12, <2>1 DEF Text
<1> QED
  BY <1>2, <1>4, <1>13 DEF Hinted

\* The rules forward an event that says its packet was blocked or rejected.
LEMMA RecordForwarded ==
  ASSUME NEW evt1, evt1.source_type = "firewall",
         "firewall_block" \in evt1.message \/ "firewall_reject" \in evt1.message,
         NEW i, Meets(evt1, i)
  PROVE  Forwarding(i)
<1>1. Asked(1, evt1) \/ Asked(2, evt1)
  BY DEF Asked, Says
<1>2. i \in {1, 2}
  BY <1>1 DEF Meets
<1> QED
  BY <1>2 DEF Forwarding

\* A plain line of another source than a firewall keeps its text and its tags.
ToldThrough(p, based, canonical, e) ==
    /\ Told(p, based) /\ Searched(canonical) = p.message
    /\ canonical.source_type # "firewall" /\ Tag(canonical, "event_type") = ""
    /\ \A k : k \notin Added => Tag(e, k) = Tag(based, k)

\* A plain line that is not the firewall's was read as text.
LEMMA ToldLine ==
  ASSUME NEW line, NEW p, NEW based, NEW canonical, NEW named, NEW e,
         MadeOf(line, p, based, canonical, named, e), ~IsTelemetry(p.json), e.source_type # "firewall"
  PROVE  ToldThrough(p, based, canonical, e)
<1>1. /\ Based(line, p, based) /\ Canonical(based, canonical) /\ RestKept(canonical, named)
      /\ Hinted(named, e) /\ (Unnamed(canonical, named) \/ NamedByRow(canonical, named))
  BY MadeOfParts
<1>2. ~Recorded(p, based)
  BY RecordSource
<1>3. Told(p, based)
  BY <1>1, <1>2 DEF Based
<1>4. canonical.source_type # "firewall"
  BY <1>1 DEF RestKept, Hinted
<1>5. Searched(canonical) = p.message
  BY <1>1, <1>3, <1>4 DEF Searched, Canonical, Told
<1>6. Tag(canonical, "event_type") = ""
  <2>1. TagsKept(based, canonical, {"normalized"}) /\ Tag(based, "event_type") = ""
    BY <1>1, <1>3 DEF Canonical, Told
  <2>2. \A k : k \notin {"normalized"} => Tag(canonical, k) = Tag(based, k)
    BY <2>1, TagsKeptTag
  <2> QED
    BY <2>1, <2>2
<1>7. \A k : k \notin Added => Tag(e, k) = Tag(based, k)
  BY MadeOfTags, TagsKeptTag
<1> QED
  BY <1>3, <1>4, <1>5, <1>6, <1>7 DEF ToldThrough

\* The numbers of an error and worse.
LEMMA NumbersAre ==
  /\ \A number \in 0 .. 2 : SeverityOf(number, "warning") = "critical"
  /\ SeverityOf(3, "warning") = "error"
BY DEF SeverityOf

\* In a text with nothing against it the priority decides.
LEMMA QuietText ==
  ASSUME NEW t, t \subseteq Harmless, NEW number
  PROVE  classifySeverity(t, number) = SeverityOf(number, "warning")
<1>1. /\ ~HasAny(t, {"[critical]", "fatal", "critical"}) /\ ~HasAny(t, {"[error]", " error"})
      /\ ~HasAny(t, {"[warn]", "warning", " warn"}) /\ ~HasAny(t, {"[debug]", "debug"})
      /\ ~HasAny(t, {"[info]", " info"})
  BY DEF HasAny, Harmless
<1>2. /\ "[error]" \notin t /\ ~HasAny(t, {"[shutdown]", "[startup]"})
      /\ ~HasAny(t, Rejections \cup {"[security]"}) /\ ~HasAny(t, {"authentication failed", "bad user"})
      /\ "[cmd]" \notin t /\ ~HasAny(t, Sensitives)
  BY DEF HasAny, Harmless, Rejections, Sensitives
<1>3. classifyOPCUASeverity(t) = ""
  BY <1>2 DEF classifyOPCUASeverity
<1> QED
  BY <1>1, <1>3 DEF classifySeverity

\* A line of a grave priority and a harmless text has the severity of the priority.
LEMMA UrgentLine ==
  ASSUME NEW line, NEW p, NEW e, FromLine(line, p, e), ~IsTelemetry(p.json), e.source_type # "firewall",
         p.severity \in 0 .. 3, p.message \subseteq Harmless
  PROVE  e.severity \in {"critical", "error"}
<1>1. PICK based, canonical, named : MadeOf(line, p, based, canonical, named, e)
  BY DEF FromLine
<1>2. /\ Based(line, p, based) /\ Canonical(based, canonical) /\ RestKept(canonical, named)
      /\ Hinted(named, e) /\ (Unnamed(canonical, named) \/ NamedByRow(canonical, named))
  BY <1>1, MadeOfParts
<1>3. ToldThrough(p, based, canonical, e)
  BY <1>1, ToldLine
<1>4. based.severity \in {"critical", "error"}
  <2>1. based.severity = SeverityOf(p.severity, "warning")
    BY <1>3, QuietText DEF ToldThrough, Told
  <2>2. p.severity \in 0 .. 2 \/ p.severity = 3
    OBVIOUS
  <2> QED
    BY <2>1, <2>2, NumbersAre
<1>5. canonical.severity \in {"critical", "error"}
  BY <1>2, <1>4 DEF Canonical
<1>6. Unnamed(canonical, named)
  <2> SUFFICES ASSUME NamedByRow(canonical, named) PROVE FALSE
    BY <1>2
  <2>1. PICK i \in Hits(Tables[canonical.source_type], p.message) : canonical.source_type \in DOMAIN Tables
    BY <1>3 DEF NamedByRow, ToldThrough
  <2>2. RowSound(canonical.source_type, Tables[canonical.source_type][i])
    BY <2>1, RowsSound DEF Hits
  <2>3. Tables[canonical.source_type][i][1] \cap Harmless = {}
    BY <2>2 DEF RowSound
  <2>4. HasAny(p.message, Tables[canonical.source_type][i][1])
    BY <2>1 DEF Hits
  <2> QED
    BY <2>3, <2>4 DEF HasAny
<1>7. named.severity = canonical.severity
  BY <1>5, <1>6 DEF Unnamed, Leveled
<1> QED
  BY <1>2, <1>5, <1>7 DEF Hinted

\* A sensitive command is marked.
LEMMA SensitiveLine ==
  ASSUME NEW line, NEW p, NEW e, FromLine(line, p, e), ~IsTelemetry(p.json), e.source_type # "firewall",
         "[opcua]" \in p.message, HasAny(p.message, {"valve", "stop", "emergency", "reset"})
  PROVE  Tag(e, "sensitive_action") = "true"
<1>1. PICK based, canonical, named : MadeOf(line, p, based, canonical, named, e)
  BY DEF FromLine
<1>2. ToldThrough(p, based, canonical, e)
  BY <1>1, ToldLine
<1>3. HasAny(p.message, SensitiveActions)
  BY DEF HasAny, SensitiveActions
<1>4. "sensitive_action" \notin Added
  BY DEF Added
<1> QED
  BY <1>2, <1>3, <1>4 DEF ToldThrough, Told

-----------------------------------------------------------------------------
(* Names of high value are kept.                                            *)

LEMMA UrgentsForwarded == PathInv => UrgentForwarded
<1> SUFFICES ASSUME PathInv, Ingested, Plain, Urgent \/ SensitiveCommand PROVE decision.forward
  BY DEF UrgentForwarded
<1>1. PICK line : line = origin.line
  OBVIOUS
<1>2. PICK p : p = Parse(line)
  OBVIOUS
<1>3. p.json = Body.json /\ ~IsTelemetry(p.json) /\ IsLine
  BY <1>1, <1>2 DEF Parse, Body, Plain
<1>4. PICK e, i : /\ FromLine(line, p, e) /\ Stored(e, evt) /\ Stored(e, Typed(e)) /\ Typed(e).tags = e.tags
                  /\ Meets(Typed(e), i) /\ (Forwarding(i) => decision.forward)
  BY <1>1, <1>2, <1>3, FirstDecision
<1>5. PICK typed : typed = Typed(e)
  OBVIOUS
<1>6. evt.source_type # "firewall"
  BY DEF Urgent, SensitiveCommand
<1>7. e.source_type # "firewall" /\ typed.source_type # "firewall"
  BY <1>4, <1>5, <1>6, AliasesAre DEF Stored
<1>8. CASE Urgent
  <2>1. p.message \subseteq Harmless
    BY <1>1, <1>2, <1>8 DEF Urgent, Message, Harmless
  <2>2. p.severity \in 0 .. 3
    <3>1. line.envelope \in {"rfc5424", "rfc3164"} /\ line.pri >= 0 /\ line.pri % 8 <= 3
      BY <1>1, <1>8 DEF Urgent
    <3>2. origin \in Origins /\ origin.kind = "line"
      BY <1>3 DEF PathInv, Ingested, IsLine
    <3>3. line.pri \in Nat
      <4>1. line.pri \in Nat \cup {NoPri}
        BY <1>1, <3>2, PathAssumption DEF IsEventLine
      <4> QED
        BY <3>1, <4>1 DEF NoPri
    <3>4. p.severity = line.pri % 8
      BY <1>2, <3>1, <3>3 DEF Parse, Understood, SeverityNumber, NoPri
    <3>5. line.pri % 8 \in 0 .. 7
      BY <3>3
    <3> QED
      BY <3>1, <3>4, <3>5
  <2>3. e.severity \in {"critical", "error"}
    BY <1>3, <1>4, <1>7, <2>1, <2>2, UrgentLine
  <2>4. Asked(4, typed) \/ Asked(7, typed)
    BY <1>4, <1>5, <2>3 DEF Stored, Asked
  <2> QED
    BY <1>4, <1>5, <1>7, <2>4, GraveForwarded
<1>9. CASE SensitiveCommand
  <2>1. "[opcua]" \in p.message /\ HasAny(p.message, {"valve", "stop", "emergency", "reset"})
    BY <1>1, <1>2, <1>9 DEF SensitiveCommand, Message
  <2>2. Tag(e, "sensitive_action") = "true"
    BY <1>3, <1>4, <1>7, <2>1, SensitiveLine
  <2>3. typed.source_type = "opcua"
    BY <1>4, <1>5, <1>9 DEF Stored, SensitiveCommand
  <2>4. Asked(8, typed)
    BY <1>4, <1>5, <2>2, <2>3 DEF Asked, Tag
  <2> QED
    BY <1>4, <1>5, <1>7, <2>4, GraveForwarded
<1> QED
  BY <1>8, <1>9

\* What the patterns may make of a text, as far as the sampling rules ask.
LEMMA CategoryIs ==
  ASSUME NEW t
  PROVE  /\ classifyCategory(t) \notin {"", "system_health"}
         /\ {"[opcua]", "[read][cmd]"} \subseteq t => classifyCategory(t) = "operator_read"
         /\ classifyCategory(t) = "network" =>
               HasAny(t, {"client accepted", "client connected", "new client connected",
                          "closed the connection", "disconnected", "client session created",
                          "client session closed", "[session]"})
<1>1. CASE "[opcua]" \in t
  <2>1. classifyCategory(t) = classifyOPCUACategory(t)
    BY <1>1 DEF classifyCategory
  <2>2. "[read][cmd]" \in t => classifyOPCUACategory(t) = "operator_read"
    BY DEF classifyOPCUACategory
  <2>3. classifyOPCUACategory(t) \notin {"", "system_health"}
    BY DEF classifyOPCUACategory
  <2>4. classifyOPCUACategory(t) = "network" =>
            "[session]" \in t \/ HasAny(t, {"client session created", "client session closed"})
    BY DEF classifyOPCUACategory
  <2> QED
    BY <1>1, <2>1, <2>2, <2>3, <2>4 DEF HasAny
<1>2. CASE "[opcua]" \notin t
  <2>1. classifyCategory(t) \notin {"", "system_health"}
    BY <1>2 DEF classifyCategory
  <2>2. classifyCategory(t) = "network" =>
            HasAny(t, {"client accepted", "client connected", "new client connected",
                       "closed the connection", "disconnected"})
    BY <1>2 DEF classifyCategory
  <2> QED
    BY <1>2, <2>1, <2>2 DEF HasAny
<1> QED
  BY <1>1, <1>2

LEMMA NamedIn == \A n : n \in Text({n})
BY DEF Text

\* Two names are told apart by their texts.
LEMMA NamesApart ==
  ASSUME NEW m \in Names \cup AlertNames, NEW n \in Names, Text({m}) = Text({n})
  PROVE  m = n
BY NamesAssumption, NamedIn

LEMMA LostIsName == "scada_opcua_connection_lost" \in Names
<1>1. 7 \in DOMAIN SCADARows /\ SCADARows[7][2] = "scada_opcua_connection_lost"
  BY DEF SCADARows
<1> QED
  BY <1>1, NamesAre, TablesAre

\* What is marked as worth an alert has such a name.
LEMMA MarkedName ==
  ASSUME NEW line, NEW p, NEW e, FromLine(line, p, e), ~IsTelemetry(p.json),
         Tag(e, "alert_candidate") = "true", NEW n \in Names, e.message = Text({n})
  PROVE  n \in Marked
<1>1. PICK based, canonical, named : MadeOf(line, p, based, canonical, named, e)
  BY DEF FromLine
<1>2. /\ Based(line, p, based) /\ Canonical(based, canonical) /\ RestKept(canonical, named)
      /\ Hinted(named, e) /\ (Unnamed(canonical, named) \/ NamedByRow(canonical, named))
  BY <1>1, MadeOfParts
<1>3. Tag(canonical, "alert_candidate") = ""
  <2>1. TagsKept(based, canonical, {"normalized"}) /\ Tag(based, "alert_candidate") = ""
    BY <1>2 DEF Based, Recorded, Told, Canonical
  <2>2. \A k : k \notin {"normalized"} => Tag(canonical, k) = Tag(based, k)
    BY <2>1, TagsKeptTag
  <2> QED
    BY <2>1, <2>2
<1>4. \E m \in Marked : named.message = Text({m})
  <2>1. CASE named.message \in {Text({m}) : m \in AlertNames}
    BY <2>1 DEF Marked
  <2>2. CASE named.message \notin {Text({m}) : m \in AlertNames}
    <3>1. Tag(named, "alert_candidate") = "true"
      BY <1>2, <2>2 DEF Hinted
    <3>2. named.message = Text({"scada_opcua_connection_lost"})
      BY <1>2, <1>3, <3>1 DEF RestKept
    <3> QED
      BY <3>2 DEF Marked
  <2> QED
    BY <2>1, <2>2
<1>5. PICK m \in Marked : named.message = Text({m})
  BY <1>4
<1>6. e.message = Text({m})
  BY <1>2, <1>5, NamedIn DEF Hinted
<1>7. m \in Names \cup AlertNames
  BY LostIsName DEF Marked
<1>8. m = n
  BY <1>6, <1>7, NamesApart
<1> QED
  BY <1>8

\* How a plain line of another source than a firewall comes by the name n: its
\* text is that, or a row of its source's table gives it.
Outcome(p, e, n) ==
    \/ /\ p.message = Text({n}) /\ e.event_category = classifyCategory(p.message)
       /\ e.source_type \in DOMAIN Tables => Hits(Tables[e.source_type], p.message) = {}
    \/ /\ e.source_type \in DOMAIN Tables
       /\ \E i \in DOMAIN Tables[e.source_type] :
             LET row == Tables[e.source_type][i]
             IN  /\ row[2] = n /\ e.event_category = row[3]
                 /\ \E old : e.severity = SeveritySet(old, row[4])

\* An event with a name of its source: what its category and severity may be,
\* whether a row named it or its line said the name already.
LEMMA OutcomeIs ==
  ASSUME NEW line, NEW p, NEW e, FromLine(line, p, e), ~IsTelemetry(p.json),
         e.source_type \notin {"firewall", "", "unknown"},
         NEW n \in Names \cap Marked, e.message = Text({n})
  PROVE  Outcome(p, e, n)
<1>1. PICK based, canonical, named : MadeOf(line, p, based, canonical, named, e)
  BY DEF FromLine
<1>2. /\ Based(line, p, based) /\ Canonical(based, canonical) /\ RestKept(canonical, named)
      /\ Hinted(named, e) /\ (Unnamed(canonical, named) \/ NamedByRow(canonical, named))
  BY <1>1, MadeOfParts
<1>3. ToldThrough(p, based, canonical, e)
  BY <1>1, ToldLine
<1>4. named.message = Text({n})
  <2>1. n # "unknown_event"
    BY DEF Marked, AlertNames
  <2> QED
    BY <1>2, <2>1, NamedIn DEF Hinted
<1>5. canonical.source_type = e.source_type
  BY <1>2 DEF Hinted, RestKept
<1>6. CASE Unnamed(canonical, named)
  <2>1. named.message = canonical.message /\ named.event_category = canonical.event_category
    BY <1>3, <1>6 DEF Unnamed, ToldThrough
  <2>2. p.message = Text({n}) /\ named.event_category = classifyCategory(p.message)
    BY <1>2, <1>3, <1>4, <2>1 DEF ToldThrough, Told, Canonical
  <2>3. e.event_category = classifyCategory(p.message)
    BY <1>2, <2>2, CategoryIs DEF Hinted
  <2>4. e.source_type \in DOMAIN Tables => Hits(Tables[e.source_type], p.message) = {}
    BY <1>3, <1>5, <1>6 DEF Unnamed, ToldThrough
  <2> QED
    BY <2>2, <2>3, <2>4 DEF Outcome
<1>7. CASE NamedByRow(canonical, named)
  <2>1. PICK i, old :
           /\ i \in Hits(Tables[e.source_type], Searched(canonical))
           /\ e.source_type \in DOMAIN Tables
           /\ named.message = Text({Tables[e.source_type][i][2]})
           /\ named.event_category = CategorySet(canonical.event_category, Tables[e.source_type][i][3])
           /\ named.severity = SeveritySet(old, Tables[e.source_type][i][4])
    BY <1>5, <1>7 DEF NamedByRow
  <2>2. PICK row : row = Tables[e.source_type][i]
    OBVIOUS
  <2>3. i \in DOMAIN Tables[e.source_type]
    BY <2>1 DEF Hits
  <2>4. RowSound(e.source_type, row) /\ row[2] \in Names
    BY <2>1, <2>2, <2>3, RowsSound, NamesAre
  <2>5. row[2] = n
    BY <1>4, <2>1, <2>2, <2>4, NamesApart
  <2>6. named.event_category = row[3] /\ row[3] # ""
    BY <2>1, <2>2, <2>4 DEF RowSound, CategorySet
  <2>7. e.event_category = row[3] /\ e.severity = SeveritySet(old, row[4])
    BY <1>2, <2>1, <2>2, <2>6 DEF Hinted
  <2> QED
    BY <2>1, <2>2, <2>3, <2>5, <2>7 DEF Outcome
<1> QED
  BY <1>2, <1>6, <1>7

\* The name's row for an agent's line, which its text always hits.
LEMMA AgentHit ==
  ASSUME NEW n \in NamesIn(GDSAgentRows)
  PROVE  Hits(GDSAgentRows, Text({n})) # {}
<1>1. PICK i \in DOMAIN GDSAgentRows : n = GDSAgentRows[i][2]
  BY DEF NamesIn
<1>2. n \in GDSAgentRows[i][1]
  BY <1>1, GDSAgentRowsSound DEF RowSound
<1> QED
  BY <1>2, NamedIn DEF Hits, HasAny

\* The aliases' sources have no table, so what they are called has no row's effect.
LEMMA NoAlias ==
  ASSUME NEW s, normalizeSourceType(s) \in DOMAIN Tables, s \in DOMAIN Tables
  PROVE  normalizeSourceType(s) = s
BY TablesAre, AliasesAre

\* Only the text of an OPC UA read makes a plain line one.
LEMMA ReadLine ==
  ASSUME NEW line, NEW p, NEW e, FromLine(line, p, e), ~IsTelemetry(p.json), e.source_type # "firewall",
         NEW typed, typed.tags = e.tags, operationFor(typed) = "read"
  PROVE  {"[opcua]", "[read][cmd]"} \subseteq p.message
<1>1. PICK based, canonical, named : MadeOf(line, p, based, canonical, named, e)
  BY DEF FromLine
<1>2. ToldThrough(p, based, canonical, e)
  BY <1>1, ToldLine
<1>3. Tag(e, "operation") = "" /\ Tag(e, "opcua_operation") = Tag(based, "opcua_operation")
  <2>1. "operation" \notin Added /\ "opcua_operation" \notin Added
    BY DEF Added
  <2> QED
    BY <1>2, <2>1 DEF ToldThrough, Told
<1>4. Tag(typed, "operation") = Tag(e, "operation") /\ Tag(typed, "opcua_operation") = Tag(e, "opcua_operation")
  BY DEF Tag
<1>5. Tag(based, "opcua_operation") = "read"
  BY <1>3, <1>4 DEF operationFor
<1> QED
  BY <1>2, <1>5 DEF ToldThrough, Told

\* The rules that may drop an event of another source than a firewall.
LEMMA NotNoise ==
  ASSUME NEW x, NEW i, Meets(x, i), x.source_type # "firewall",
         \A k \in {10, 11, 12, 13, 15} : ~Asked(k, x)
  PROVE  Forwarding(i) \/ i = 16
<1>1. ~Asked(5, x) /\ ~Asked(6, x) /\ ~Asked(14, x)
  BY DEF Asked
<1>2. i \notin {5, 6, 14, 10, 11, 12, 13, 15}
  BY <1>1 DEF Meets
<1> QED
  BY <1>2 DEF Meets, Forwarding

\* A line of high value or worth an alert meets no rule that drops.
LEMMA NamedNotNoise ==
  ASSUME NEW line, NEW p, NEW e, FromLine(line, p, e), ~IsTelemetry(p.json),
         Complete(line, p, e), NEW typed, typed = Typed(e),
         typed.source_type \in DOMAIN Tables \ {"firewall"},
         NEW n \in NamesOf(typed.source_type) \cap Marked, e.message = Text({n}),
         NEW i, Meets(typed, i)
  PROVE  Forwarding(i) \/ i = 16
<1>1. Stored(e, typed) /\ typed.tags = e.tags
  BY TypedIs DEF Complete
<1>2. PICK s : s = e.source_type
  OBVIOUS
<1>3. typed.source_type = normalizeSourceType(s)
  BY <1>1, <1>2 DEF Stored
<1>4. s \notin {"firewall", "", "unknown", "gds-agent"}
  BY <1>2, <1>3, TablesAre DEF Complete, normalizeSourceType
<1>5. n \in Names
  BY DEF Names, NamesOf
<1>6. Outcome(p, e, n)
  BY <1>2, <1>4, <1>5, OutcomeIs
<1>7. s \in DOMAIN Tables => s = typed.source_type
  BY <1>3, NoAlias
<1>8. typed.event_category = e.event_category /\ typed.severity = e.severity
  BY <1>1 DEF Stored
<1>9. typed.source_type \notin {"firewall", "gds-agent"}
  BY TablesAre
<1>10. CASE /\ p.message = Text({n}) /\ e.event_category = classifyCategory(p.message)
            /\ s \in DOMAIN Tables => Hits(Tables[s], p.message) = {}
  <2>1. typed.event_category # "system_health"
    BY <1>8, <1>10, CategoryIs
  <2>2. typed.event_category # "network"
    BY <1>5, <1>8, <1>10, CategoryIs, NamesAssumption
  <2>3. typed.source_type # "gds_agent"
    <3> SUFFICES ASSUME typed.source_type = "gds_agent" PROVE FALSE
      OBVIOUS
    <3>1. s = "gds_agent"
      BY <1>3, <1>4 DEF normalizeSourceType
    <3>2. n \in NamesIn(GDSAgentRows) /\ "gds_agent" \in DOMAIN Tables /\ Tables["gds_agent"] = GDSAgentRows
      BY TablesAre DEF NamesOf
    <3>3. Hits(GDSAgentRows, Text({n})) # {}
      BY <3>2, AgentHit
    <3> QED
      BY <1>10, <3>1, <3>2, <3>3
  <2>4. ~(typed.event_category = "operator_action" /\ operationFor(typed) = "read")
    <3> SUFFICES ASSUME operationFor(typed) = "read" PROVE typed.event_category = "operator_read"
      OBVIOUS
    <3>1. {"[opcua]", "[read][cmd]"} \subseteq p.message
      BY <1>1, <1>2, <1>4, ReadLine
    <3> QED
      BY <1>8, <1>10, <3>1, CategoryIs
  <2>5. ~Asked(10, typed) /\ ~Asked(11, typed) /\ ~Asked(12, typed) /\ ~Asked(13, typed) /\ ~Asked(15, typed)
    BY <1>9, <2>1, <2>2, <2>3, <2>4 DEF Asked
  <2> QED
    BY <1>9, <2>5, NotNoise
<1>11. CASE /\ s \in DOMAIN Tables
            /\ \E j \in DOMAIN Tables[s] :
                  LET row == Tables[s][j]
                  IN  /\ row[2] = n /\ e.event_category = row[3]
                      /\ \E old : e.severity = SeveritySet(old, row[4])
  <2>1. PICK j, old :
           /\ j \in DOMAIN Tables[s]
           /\ Tables[s][j][2] = n /\ e.event_category = Tables[s][j][3]
           /\ e.severity = SeveritySet(old, Tables[s][j][4])
    BY <1>11
  <2>2. PICK row : row = Tables[s][j]
    OBVIOUS
  <2>3. RowSound(s, row) /\ row[2] \in Marked /\ s = typed.source_type
    BY <1>7, <1>11, <2>1, <2>2, RowsSound
  <2>4. /\ typed.event_category # "network"
        /\ s = "opcua" => typed.event_category # "operator_action"
        /\ s \in {"scada", "ews"} => typed.event_category # "system_health"
    BY <1>4, <1>8, <2>1, <2>2, <2>3 DEF RowSound
  <2>5. s = "gds_agent" => typed.severity \in {"critical", "warning"}
    BY <1>8, <2>1, <2>2, <2>3 DEF RowSound, SeveritySet
  <2>6. ~Asked(10, typed) /\ ~Asked(11, typed) /\ ~Asked(12, typed) /\ ~Asked(13, typed) /\ ~Asked(15, typed)
    BY <1>9, <2>3, <2>4, <2>5 DEF Asked
  <2> QED
    BY <1>9, <2>6, NotNoise
<1> QED
  BY <1>2, <1>6, <1>10, <1>11 DEF Outcome

LEMMA ProtectedsKept == PathInv => ProtectedKept
<1> SUFFICES ASSUME PathInv, Ingested, Plain
             PROVE  /\ \A n \in OwnNames :
                          (n \in HighValue \/ Tag(evt, "alert_candidate") = "true") => ~decision.drop
                    /\ (RecordSeen(origin.line) /\ Body.csv.fields >= 9
                          /\ Body.csv.action \in {"block", "reject"}) => decision.forward
  BY DEF ProtectedKept
<1>1. PICK line : line = origin.line
  OBVIOUS
<1>2. PICK p : p = Parse(line)
  OBVIOUS
<1>3. p.json = Body.json /\ (RecordSeen(line) => p.csv = Body.csv) /\ ~IsTelemetry(p.json) /\ IsLine
  BY <1>1, <1>2 DEF Parse, Body, Plain
<1>4. PICK e, i : /\ FromLine(line, p, e) /\ Complete(line, p, e) /\ Stored(e, evt)
                  /\ Stored(e, Typed(e)) /\ Typed(e).tags = e.tags /\ Meets(Typed(e), i)
                  /\ (Forwarding(i) => decision.forward /\ ~decision.drop) /\ (i = 16 => ~decision.drop)
  BY <1>1, <1>2, <1>3, FirstDecision
<1>5. PICK typed : typed = Typed(e)
  OBVIOUS
<1>6. typed.source_type = evt.source_type /\ typed.message = evt.message /\ e.message = evt.message
  BY <1>4, <1>5 DEF Stored
<1>7. ASSUME NEW n \in OwnNames, n \in HighValue \/ Tag(evt, "alert_candidate") = "true"
      PROVE  ~decision.drop
  <2>1. n \in NamesOf(typed.source_type) /\ e.message = Text({n}) /\ typed.source_type \in DOMAIN Tables
    BY <1>6, <1>7 DEF OwnNames, NamesOf
  <2>2. n \in Names
    BY <2>1 DEF Names, NamesOf
  <2>3. n \in Marked
    <3>1. CASE n \in HighValue
      BY <3>1, HighValueIsMarked
    <3>2. CASE Tag(evt, "alert_candidate") = "true"
      <4>1. TagsKept(e, evt, DecisionTags) /\ "alert_candidate" \notin DecisionTags
        BY <1>4 DEF Stored, DecisionTags
      <4>2. \A k : k \notin DecisionTags => Tag(evt, k) = Tag(e, k)
        BY <4>1, TagsKeptTag
      <4>3. Tag(e, "alert_candidate") = "true"
        BY <3>2, <4>1, <4>2
      <4> QED
        BY <1>3, <1>4, <2>1, <2>2, <4>3, MarkedName
    <3> QED
      BY <1>7, <3>1, <3>2
  <2>4. CASE typed.source_type = "firewall"
    <3>1. n \in NamesIn(FirewallRows)
      BY <2>1, <2>4, TablesAre DEF NamesOf
    <3>2. DOMAIN FirewallRows = 1 .. 3 /\ FirewallRows[1][2] = "firewall_block"
          /\ FirewallRows[2][2] = "firewall_reject" /\ FirewallRows[3][2] = "firewall_pass"
      BY DEF FirewallRows
    <3>3. "firewall_pass" \notin Marked
      BY DEF Marked, AlertNames
    <3>4. n \in {"firewall_block", "firewall_reject"}
      BY <2>3, <3>1, <3>2, <3>3 DEF NamesIn
    <3>5. "firewall_block" \in typed.message \/ "firewall_reject" \in typed.message
      BY <1>6, <2>1, <3>4, NamedIn
    <3> QED
      BY <1>4, <1>5, <2>4, <3>5, RecordForwarded
  <2>5. CASE typed.source_type # "firewall"
    <3>1. Forwarding(i) \/ i = 16
      BY <1>3, <1>4, <1>5, <2>1, <2>3, <2>5, NamedNotNoise
    <3> QED
      BY <1>4, <3>1
  <2> QED
    BY <2>4, <2>5
<1>8. ASSUME RecordSeen(line), Body.csv.fields >= 9, Body.csv.action \in {"block", "reject"}
      PROVE  decision.forward
  <2>1. /\ e.source_type = "firewall"
        /\ "firewall_block" \in e.message \/ "firewall_reject" \in e.message
    BY <1>3, <1>4, <1>8, RecordNamed
  <2>2. /\ typed.source_type = "firewall"
        /\ "firewall_block" \in typed.message \/ "firewall_reject" \in typed.message
    BY <1>4, <1>5, <2>1, AliasesAre DEF Stored
  <2> QED
    BY <1>4, <1>5, <2>2, RecordForwarded
<1> QED
  BY <1>1, <1>7, <1>8

LEMMA AlertsAreReached == PathInv => AlertsReach
BY ProtectedsKept, UrgentsForwarded DEF AlertsReach

\* Of the lines without a structured payload, and whatever such a line says besides:
\* no default rule drops an event that the table of its source gave a name of high
\* value or one worth an alert; a record of a refused packet that the collector sees
\* in its envelope, an urgent line and a sensitive command are forwarded.
THEOREM AlertsAlwaysReach == PathSpec => []AlertsReach
BY PathInvariant, AlertsAreReached, PTL
=============================================================================
