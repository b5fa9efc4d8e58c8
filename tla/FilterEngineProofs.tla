-------------------------- MODULE FilterEngineProofs --------------------------
(***************************************************************************)
(* TLAPS proofs about the rule engine: types, and that its three runtime    *)
(* controls drop what they should, for every number of concurrent callers,  *)
(* every set of events and rules, every change of the rules, and any clock. *)
(***************************************************************************)
EXTENDS FilterEngine, FiniteSetTheorems, ListTheorems

-----------------------------------------------------------------------------
(* Arithmetic.                                                              *)

\* Division by a positive number: it is monotonic, its quotient is the only
\* number it can be, and of n events one in e, rounded up, has been kept.
LEMMA DivMono ==
  ASSUME NEW a \in Nat, NEW b \in Nat, NEW d \in Nat \ {0}, a <= b
  PROVE  a \div d <= b \div d
OBVIOUS

LEMMA DivNat ==
  ASSUME NEW a \in Nat, NEW d \in Nat \ {0}
  PROVE  a \div d \in Nat
OBVIOUS

LEMMA DivMod ==
  ASSUME NEW a \in Nat, NEW d \in Nat \ {0}
  PROVE  a = d * (a \div d) + (a % d) /\ a % d \in 0 .. d - 1 /\ a \div d \in Nat
OBVIOUS

LEMMA DivUnique ==
  ASSUME NEW a \in Nat, NEW d \in Nat \ {0}, NEW q \in Nat, q * d <= a, a < q * d + d
  PROVE  a \div d = q
<1>1. a = d * (a \div d) + (a % d) /\ a % d \in 0 .. d - 1 /\ a \div d \in Nat
  BY DivMod
<1>2. CASE a \div d < q
  <2>1. a \div d + 1 <= q
    BY <1>1, <1>2
  <2>2. d * (a \div d + 1) <= d * q
    BY <1>1, <2>1
  <2> QED
    BY <1>1, <2>2
<1>3. CASE a \div d > q
  <2>1. d * (q + 1) <= d * (a \div d)
    BY <1>1, <1>3
  <2> QED
    BY <1>1, <2>1
<1> QED
  BY <1>1, <1>2, <1>3

LEMMA KeptOneMore ==
  ASSUME NEW n \in Nat, NEW e \in Nat \ {0}
  PROVE (n + 1 + e - 1) \div e = (n + e - 1) \div e + (IF e <= 1 \/ (n+1) % e = 1 THEN 1 ELSE 0)
<1> DEFINE q == n \div e
           r == n % e
<1>1. n = e * q + r /\ r \in 0 .. e - 1 /\ q \in Nat
  OBVIOUS
<1> HIDE DEF q, r
<1>0. q * e = e * q /\ e * q \in Nat /\ (q + 1) * e = e * q + e
  BY <1>1
<1>2. (n + 1 + e - 1) \div e = q + 1
  <2>1. n + 1 + e - 1 \in Nat /\ (q + 1) * e <= n + 1 + e - 1 /\ n + 1 + e - 1 < (q + 1) * e + e
    BY <1>0, <1>1
  <2> QED
    BY <1>1, <2>1, DivUnique
<1>3. CASE r = 0
  <2>1. (n + e - 1) \div e = q
    <3>1. n + e - 1 \in Nat /\ q * e <= n + e - 1 /\ n + e - 1 < q * e + e
      BY <1>0, <1>1, <1>3
    <3> QED
      BY <1>1, <3>1, DivUnique
  <2>2. e > 1 => (n + 1) % e = 1
    <3> SUFFICES ASSUME e > 1 PROVE (n + 1) % e = 1
      OBVIOUS
    <3>1. n + 1 \in Nat /\ q * e <= n + 1 /\ n + 1 < q * e + e
      BY <1>0, <1>1, <1>3
    <3>2. (n + 1) \div e = q
      BY <1>1, <3>1, DivUnique
    <3>3. n + 1 = e * ((n + 1) \div e) + ((n + 1) % e)
      BY DivMod
    <3> QED
      BY <1>0, <1>1, <1>3, <3>2, <3>3
  <2> QED
    BY <1>1, <1>2, <2>1, <2>2
<1>4. CASE r # 0
  <2>1. (n + e - 1) \div e = q + 1
    <3>1. n + e - 1 \in Nat /\ (q + 1) * e <= n + e - 1 /\ n + e - 1 < (q + 1) * e + e
      BY <1>0, <1>1, <1>4
    <3> QED
      BY <1>1, <3>1, DivUnique
  <2>2. e > 1 /\ (n + 1) % e # 1
    <3>0. e > 1
      BY <1>1, <1>4
    <3> SUFFICES ASSUME (n + 1) % e = 1 PROVE FALSE
      BY <3>0
    <3>1. n + 1 = e * ((n + 1) \div e) + 1 /\ (n + 1) \div e \in Nat
      BY <1>1
    <3>2. n \div e = (n + 1) \div e
      <4>1. ((n + 1) \div e) * e <= n /\ n < ((n + 1) \div e) * e + e
        BY <3>1
      <4> QED
        BY <3>1, <4>1, DivUnique
    <3> QED
      BY <1>1, <1>4, <3>1, <3>2 DEF q
  <2> QED
    BY <1>1, <1>2, <2>1, <2>2
<1> QED
  BY <1>3, <1>4

-----------------------------------------------------------------------------
(* Types, and what holds of a caller at each point of Evaluate.             *)

Seconds == 0 .. LastTick \div SecTicks

StateType ==
    /\ clock \in SecTicks .. LastTick /\ rules \in RuleSets
    /\ rate \in [Ids \X Sources -> [second : Nat, count : Nat]]
    /\ dedup \in [Ids \X Events -> Nat \cup {Never}]
    /\ samples \in [Ids \X Shapes -> Nat] /\ kept \in [Ids \X Shapes -> Nat]
    /\ admits \in [Ids \X Sources -> [Seconds -> Nat]]
    /\ seen \in [Ids \X Events -> SUBSET Nat]
    /\ latest \in Nat

CallerType ==
    /\ pc \in [Callers -> {"idle", "stamped", "copied"}]
    /\ evt \in [Callers -> Events \cup {Idle}] /\ now \in [Callers -> Nat]
    /\ snap \in [Callers -> RuleSets \cup {<<>>}] /\ DOMAIN verdict = Callers
    /\ \A c \in Callers : /\ now[c] <= clock
                          /\ pc[c] # "idle" => evt[c] \in Events
                          /\ pc[c] = "copied" => snap[c] \in RuleSets

EngineType == StateType /\ CallerType

LEMMA ConstantTypes ==
  /\ SecTicks \in Nat \ {0} /\ LastTick \in Nat /\ SecTicks <= LastTick
  /\ \A rs \in RuleSets : rs \in Seq(AllRules)
  /\ \A r \in AllRules : /\ r.id \in Ids /\ r.enabled \in BOOLEAN /\ r.action \in Actions
                         /\ r.limit \in Nat /\ r.window \in Nat /\ r.sampleRate \in Int
  /\ \A e \in Events : /\ e.source \in Sources
                       /\ [source |-> e.source, shape |-> e.shape] \in Shapes
BY EngineAssumption DEF Ids, Sources, Shapes

\* What a caller applies is a rule of the list it copied.
LEMMA FirstMatchIsRule ==
  ASSUME NEW rs \in RuleSets, NEW e, Matching(rs, e) # {}
  PROVE  FirstMatch(rs, e) \in AllRules
<1>1. rs \in Seq(AllRules)
  BY ConstantTypes
<1>2. Matching(rs, e) \subseteq Nat /\ Matching(rs, e) \subseteq DOMAIN rs
  BY <1>1 DEF Matching
<1>3. \E i \in Matching(rs, e) : \A j \in Matching(rs, e) : i <= j
  BY <1>2, NatMin
<1>4. (CHOOSE i \in Matching(rs, e) : \A j \in Matching(rs, e) : i <= j) \in DOMAIN rs
  BY <1>2, <1>3
<1> QED
  BY <1>1, <1>4 DEF FirstMatch

LEMMA StampSecond ==
  ASSUME EngineType, NEW c \in Callers
  PROVE  now[c] \in Nat /\ now[c] <= LastTick /\ now[c] \div SecTicks \in Seconds
<1>1. now[c] \in Nat /\ clock \in Nat /\ now[c] <= LastTick
  BY ConstantTypes DEF EngineType, CallerType, StateType
<1>2. now[c] \div SecTicks <= LastTick \div SecTicks
  BY <1>1, ConstantTypes, DivMono
<1>3. now[c] \div SecTicks \in Nat /\ LastTick \div SecTicks \in Nat
  BY <1>1, ConstantTypes, DivNat
<1> QED
  BY <1>1, <1>2, <1>3 DEF Seconds

LEMMA InitType == Init => EngineType
<1> SUFFICES ASSUME Init PROVE EngineType
  OBVIOUS
<1>0. /\ clock = SecTicks /\ rules \in RuleSets /\ latest = 0
      /\ pc = [c \in Callers |-> "idle"] /\ evt = [c \in Callers |-> Idle]
      /\ now = [c \in Callers |-> 0] /\ snap = [c \in Callers |-> <<>>]
      /\ verdict = [c \in Callers |-> [reason |-> "none"]]
  BY Zenon DEF Init
<1>1. rate \in [Ids \X Sources -> [second : Nat, count : Nat]]
  BY DEF Init
<1>2. dedup \in [Ids \X Events -> Nat \cup {Never}]
  BY DEF Init
<1>3. samples \in [Ids \X Shapes -> Nat] /\ kept \in [Ids \X Shapes -> Nat]
  BY DEF Init
<1>4. seen \in [Ids \X Events -> SUBSET Nat]
  BY DEF Init
<1>5. admits \in [Ids \X Sources -> [Seconds -> Nat]]
  BY DEF Init, Seconds
<1>6. clock \in SecTicks .. LastTick /\ rules \in RuleSets /\ latest \in Nat
  BY <1>0, ConstantTypes
<1>7. CallerType
  BY <1>0, ConstantTypes DEF CallerType
<1> QED
  BY <1>1, <1>2, <1>3, <1>4, <1>5, <1>6, <1>7 DEF EngineType, StateType

\* The steps of a caller up to the rules, the clock and the changes of the
\* rules leave alone what applyRules works on.
Applying == \E c \in Callers : Apply(c)

ruleState == <<rate, dedup, samples, admits, seen, kept, latest, verdict>>

LEMMA OnlyApply == [Next]_vars /\ ~Applying => UNCHANGED ruleState
BY DEF Next, vars, Applying, Tick, SetRules, Stamp, CopyRules, ruleState

\* applyRules applies a rule of the engine to an event, or finds none.
LEMMA ApplyOne ==
  ASSUME EngineType, NEW c \in Callers, Apply(c)
  PROVE  /\ evt[c] \in Events
         /\ \/ /\ Matching(snap[c], evt[c]) = {}
               /\ verdict' = [verdict EXCEPT ![c] =
                      Decision(TRUE, FALSE, FALSE, "default-store-only", "default_store_only")]
               /\ UNCHANGED <<rate, dedup, samples, admits, seen, kept>>
            \/ \E r \in AllRules : /\ Matching(snap[c], evt[c]) # {}
                                  /\ FirstMatch(snap[c], evt[c]) = r /\ ApplyRule(c, r)
<1>1. evt[c] \in Events /\ snap[c] \in RuleSets
  BY DEF Apply, EngineType, CallerType
<1>2. CASE Matching(snap[c], evt[c]) = {}
  BY <1>1, <1>2 DEF Apply
<1>3. CASE Matching(snap[c], evt[c]) # {}
  <2>1. FirstMatch(snap[c], evt[c]) \in AllRules
    BY <1>1, <1>3, FirstMatchIsRule
  <2> QED
    BY <1>1, <1>3, <2>1 DEF Apply
<1> QED
  BY <1>2, <1>3

LEMMA BumpedType ==
  ASSUME NEW rs \in [second : Nat, count : Nat], NEW sec \in Nat
  PROVE  /\ Bumped(rs, sec) \in [second : Nat, count : Nat]
         /\ Bumped(rs, sec).second = sec
         /\ Bumped(rs, sec).count = IF rs.second = sec THEN rs.count + 1 ELSE 1
BY DEF Bumped

LEMMA ApplyRuleType ==
  ASSUME EngineType, NEW c \in Callers, NEW r \in AllRules, evt[c] \in Events, ApplyRule(c, r)
  PROVE  /\ rate' \in [Ids \X Sources -> [second : Nat, count : Nat]]
         /\ dedup' \in [Ids \X Events -> Nat \cup {Never}]
         /\ samples' \in [Ids \X Shapes -> Nat] /\ kept' \in [Ids \X Shapes -> Nat]
         /\ admits' \in [Ids \X Sources -> [Seconds -> Nat]]
         /\ seen' \in [Ids \X Events -> SUBSET Nat]
         /\ DOMAIN verdict' = Callers
<1> DEFINE e == evt[c]
           sec == now[c] \div SecTicks
           rk == <<r.id, e.source>>
           dk == <<r.id, e>>
           sk == <<r.id, [source |-> e.source, shape |-> e.shape]>>
<1>1. rk \in Ids \X Sources /\ dk \in Ids \X Events /\ sk \in Ids \X Shapes
  BY ConstantTypes
<1>2. sec \in Seconds /\ sec \in Nat /\ now[c] \in Nat
  BY StampSecond DEF Seconds
<1>3. Bumped(rate[rk], sec) \in [second : Nat, count : Nat]
  BY <1>1, <1>2, BumpedType DEF EngineType, StateType
<1>4. rate' \in {rate, [rate EXCEPT ![rk] = Bumped(rate[rk], sec)]}
  BY DEF ApplyRule
<1>5. dedup' \in {dedup, [dedup EXCEPT ![dk] = now[c]]}
  BY DEF ApplyRule
<1>6. samples' \in {samples, [samples EXCEPT ![sk] = @ + 1]}
  BY DEF ApplyRule
<1>7. kept' \in {kept, [kept EXCEPT ![sk] = @ + 1]}
  BY DEF ApplyRule
<1>8. admits' \in {admits, [admits EXCEPT ![rk][sec] = @ + 1]}
  BY DEF ApplyRule
<1>9. seen' \in {seen, [seen EXCEPT ![dk] = @ \cup {now[c]}]}
  BY DEF ApplyRule
<1>10. DOMAIN verdict' = Callers
  BY DEF ApplyRule, EngineType, CallerType
<1> HIDE DEF sec, rk, dk, sk
<1>11. rate' \in [Ids \X Sources -> [second : Nat, count : Nat]]
  BY <1>1, <1>3, <1>4 DEF EngineType, StateType
<1>12. dedup' \in [Ids \X Events -> Nat \cup {Never}]
  BY <1>1, <1>2, <1>5 DEF EngineType, StateType
<1>13. samples' \in [Ids \X Shapes -> Nat] /\ kept' \in [Ids \X Shapes -> Nat]
  <2>1. [samples EXCEPT ![sk] = @ + 1] \in [Ids \X Shapes -> Nat]
    BY <1>1 DEF EngineType, StateType
  <2>2. [kept EXCEPT ![sk] = @ + 1] \in [Ids \X Shapes -> Nat]
    BY <1>1 DEF EngineType, StateType
  <2> QED
    BY <1>6, <1>7, <2>1, <2>2 DEF EngineType, StateType
<1>14. admits' \in [Ids \X Sources -> [Seconds -> Nat]]
  BY <1>1, <1>2, <1>8 DEF EngineType, StateType
<1>15. seen' \in [Ids \X Events -> SUBSET Nat]
  BY <1>1, <1>2, <1>9 DEF EngineType, StateType
<1> QED
  BY <1>10, <1>11, <1>12, <1>13, <1>14, <1>15

LEMMA TypeStep == EngineType /\ [Next]_vars => EngineType'
<1> SUFFICES ASSUME EngineType, [Next]_vars PROVE EngineType'
  OBVIOUS
<1>1. CASE ~Applying
  <2>1. UNCHANGED ruleState
    BY <1>1, OnlyApply
  <2>2. CASE Tick
    BY <2>1, <2>2, ConstantTypes DEF Tick, ruleState, EngineType, StateType, CallerType
  <2>3. ASSUME NEW rs \in RuleSets, SetRules(rs) PROVE EngineType'
    BY <2>1, <2>3 DEF SetRules, ruleState, EngineType, StateType, CallerType
  <2>4. ASSUME NEW c \in Callers, NEW e \in Events, Stamp(c, e) PROVE EngineType'
    BY <2>1, <2>4, ConstantTypes DEF Stamp, ruleState, EngineType, StateType, CallerType
  <2>5. ASSUME NEW c \in Callers, CopyRules(c) PROVE EngineType'
    BY <2>1, <2>5 DEF CopyRules, ruleState, EngineType, StateType, CallerType
  <2>6. CASE UNCHANGED vars
    BY <2>6 DEF vars, EngineType, StateType, CallerType
  <2> QED
    BY <1>1, <2>2, <2>3, <2>4, <2>5, <2>6 DEF Next, Applying
<1>2. ASSUME NEW c \in Callers, Apply(c) PROVE EngineType'
  <2>1. /\ UNCHANGED <<clock, rules, evt, now, snap>> /\ pc' = [pc EXCEPT ![c] = "idle"]
        /\ latest' = IF now[c] >= latest THEN now[c] ELSE LastTick + 1
    BY <1>2 DEF Apply
  <2>2. latest' \in Nat
    BY <2>1, ConstantTypes DEF EngineType, StateType, CallerType
  <2>3. /\ rate' \in [Ids \X Sources -> [second : Nat, count : Nat]]
        /\ dedup' \in [Ids \X Events -> Nat \cup {Never}]
        /\ samples' \in [Ids \X Shapes -> Nat] /\ kept' \in [Ids \X Shapes -> Nat]
        /\ admits' \in [Ids \X Sources -> [Seconds -> Nat]]
        /\ seen' \in [Ids \X Events -> SUBSET Nat]
        /\ DOMAIN verdict' = Callers
    <3>1. CASE UNCHANGED <<rate, dedup, samples, admits, seen, kept>>
      BY <1>2, <3>1, ApplyOne DEF Apply, ApplyRule, EngineType, StateType, CallerType
    <3>2. ASSUME NEW r \in AllRules, ApplyRule(c, r)
          PROVE  /\ rate' \in [Ids \X Sources -> [second : Nat, count : Nat]]
                 /\ dedup' \in [Ids \X Events -> Nat \cup {Never}]
                 /\ samples' \in [Ids \X Shapes -> Nat] /\ kept' \in [Ids \X Shapes -> Nat]
                 /\ admits' \in [Ids \X Sources -> [Seconds -> Nat]]
                 /\ seen' \in [Ids \X Events -> SUBSET Nat]
                 /\ DOMAIN verdict' = Callers
      BY <1>2, <3>2, ApplyOne, ApplyRuleType
    <3> QED
      BY <1>2, <3>1, <3>2, ApplyOne
  <2>4. StateType'
    BY <2>1, <2>2, <2>3 DEF EngineType, StateType
  <2>5. CallerType'
    BY <2>1, <2>3 DEF EngineType, CallerType
  <2> QED
    BY <2>4, <2>5 DEF EngineType
<1> QED
  BY <1>1, <1>2 DEF Applying

\* Every variable of the engine keeps its type.
THEOREM TypeCorrect == Spec => []TypeOK
<1>1. EngineType => TypeOK
  BY DEF EngineType, StateType, CallerType, TypeOK
<1> QED
  BY <1>1, InitType, TypeStep, PTL DEF Spec

-----------------------------------------------------------------------------
(* The sample.                                                              *)

\* The engine keeps the counts of a rule over a change of the rules, by the
\* rule's id: what it counts is the sample of one rate as long as an edit does
\* not change the rate and keep the id.
SteadySamples ==
    \A q, r \in AllRules : q.id = r.id /\ q.action = "sample" /\ r.action = "sample"
                             => KeepEvery(q.sampleRate) = KeepEvery(r.sampleRate)

LEMMA KeepEveryPositive == ASSUME NEW p \in Int PROVE KeepEvery(p) \in Nat \ {0}
<1>1. ASSUME p > 0, p < 100 PROVE 100 \div p \in Nat \ {0}
  <2>1. p \in Nat \ {0} /\ p <= 100
    BY <1>1
  <2>2. p \div p = 1
    BY <2>1, DivUnique
  <2>3. p \div p <= 100 \div p /\ 100 \div p \in Nat
    BY <2>1, DivMono, DivNat
  <2> QED
    BY <2>2, <2>3
<1> QED
  BY <1>1 DEF KeepEvery

\* What one application of a rule does to the sample counts.
LEMMA SampleOne ==
  ASSUME EngineType, NEW c \in Callers, NEW r \in AllRules, evt[c] \in Events, ApplyRule(c, r)
  PROVE  \/ UNCHANGED <<samples, kept>>
         \/ \E k \in Ids \X Shapes :
              /\ k[1] = r.id /\ r.action = "sample"
              /\ samples' = [samples EXCEPT ![k] = @ + 1]
              /\ kept' = IF KeepSample(samples[k] + 1, KeepEvery(r.sampleRate))
                         THEN [kept EXCEPT ![k] = @ + 1] ELSE kept
<1> DEFINE k == <<r.id, [source |-> evt[c].source, shape |-> evt[c].shape]>>
<1>1. k \in Ids \X Shapes /\ k[1] = r.id
  BY ConstantTypes
<1>2. CASE UNCHANGED <<samples, kept>>
  BY <1>2
<1>3. CASE ~UNCHANGED <<samples, kept>>
  <2>1. /\ r.action = "sample"
        /\ samples' = [samples EXCEPT ![k] = @ + 1]
        /\ kept' = IF KeepSample(samples[k] + 1, KeepEvery(r.sampleRate))
                   THEN [kept EXCEPT ![k] = @ + 1] ELSE kept
    BY <1>3 DEF ApplyRule
  <2> HIDE DEF k
  <2> QED
    BY <1>1, <2>1
<1> QED
  BY <1>2, <1>3

LEMMA SampleStep ==
  ASSUME SteadySamples, EngineType, SampleRatio, [Next]_vars PROVE SampleRatio'
<1>1. ASSUME UNCHANGED <<samples, kept>> PROVE SampleRatio'
  BY <1>1 DEF SampleRatio
<1>2. ASSUME NEW r \in AllRules, NEW k \in Ids \X Shapes, k[1] = r.id, r.action = "sample",
             samples' = [samples EXCEPT ![k] = @ + 1],
             kept' = IF KeepSample(samples[k] + 1, KeepEvery(r.sampleRate))
                     THEN [kept EXCEPT ![k] = @ + 1] ELSE kept
      PROVE  SampleRatio'
  <2> SUFFICES ASSUME NEW q \in AllRules, NEW s \in Shapes, q.action = "sample"
               PROVE  kept'[<<q.id, s>>] = (samples'[<<q.id, s>>] + KeepEvery(q.sampleRate) - 1)
                                          \div KeepEvery(q.sampleRate)
    BY DEF SampleRatio
  <2> DEFINE j == <<q.id, s>>
             e == KeepEvery(q.sampleRate)
  <2>1. /\ j \in Ids \X Shapes /\ kept[j] \in Nat /\ samples[j] \in Nat
        /\ kept[j] = (samples[j] + e - 1) \div e
    BY ConstantTypes DEF SampleRatio, EngineType, StateType
  <2>2. e \in Nat \ {0}
    BY ConstantTypes, KeepEveryPositive
  <2>3. CASE j # k
    BY <1>2, <2>1, <2>3 DEF EngineType, StateType
  <2>4. CASE j = k
    <3>1. q.id = r.id
      BY <1>2, <2>4
    <3>2. KeepEvery(r.sampleRate) = e
      BY <1>2, <3>1 DEF SteadySamples
    <3>3. samples'[j] = samples[j] + 1
      BY <1>2, <2>1, <2>4 DEF EngineType, StateType
    <3>4. kept'[j] = kept[j] + (IF KeepSample(samples[j] + 1, e) THEN 1 ELSE 0)
      <4>1. kept' = IF KeepSample(samples[j] + 1, e) THEN [kept EXCEPT ![j] = @ + 1] ELSE kept
        BY <1>2, <2>4, <3>2
      <4> HIDE DEF e, j
      <4>2. CASE KeepSample(samples[j] + 1, e)
        BY <2>1, <4>1, <4>2 DEF EngineType, StateType
      <4>3. CASE ~KeepSample(samples[j] + 1, e)
        BY <2>1, <4>1, <4>3
      <4> QED
        BY <4>2, <4>3
    <3>5. (samples[j] + 1 + e - 1) \div e = (samples[j] + e - 1) \div e
             + (IF e <= 1 \/ (samples[j] + 1) % e = 1 THEN 1 ELSE 0)
      BY <2>1, <2>2, KeptOneMore
    <3> HIDE DEF e, j
    <3>6. kept'[j] = (samples'[j] + e - 1) \div e
      BY <2>1, <3>3, <3>4, <3>5 DEF KeepSample
    <3> QED
      BY <3>6 DEF e, j
  <2> QED
    BY <2>3, <2>4
<1>3. CASE ~Applying
  BY <1>1, <1>3, OnlyApply DEF ruleState
<1>4. ASSUME NEW c \in Callers, Apply(c) PROVE SampleRatio'
  BY <1>1, <1>2, <1>4, ApplyOne, SampleOne
<1> QED
  BY <1>3, <1>4 DEF Applying

\* Of the events sampled so far a rule has kept one in keepEvery, rounded up,
\* whichever callers sampled them and whatever changes of the rules came
\* between that did not change the rule's rate.
THEOREM SampleIsExact == ASSUME SteadySamples PROVE Spec => []SampleRatio
<1>1. Init => SampleRatio
  <2> SUFFICES ASSUME Init, NEW r \in AllRules, NEW s \in Shapes
               PROVE  kept[<<r.id, s>>] = (samples[<<r.id, s>>] + KeepEvery(r.sampleRate) - 1)
                                         \div KeepEvery(r.sampleRate)
    BY DEF SampleRatio
  <2>1. <<r.id, s>> \in Ids \X Shapes /\ KeepEvery(r.sampleRate) \in Nat \ {0}
    BY ConstantTypes, KeepEveryPositive
  <2>2. kept[<<r.id, s>>] = 0 /\ samples[<<r.id, s>>] = 0
    BY <2>1 DEF Init
  <2>3. (0 + KeepEvery(r.sampleRate) - 1) \div KeepEvery(r.sampleRate) = 0
    BY <2>1, DivUnique
  <2> QED
    BY <2>2, <2>3
<1>2. EngineType /\ SampleRatio /\ [Next]_vars => SampleRatio'
  BY SampleStep
<1> QED
  BY <1>1, <1>2, InitType, TypeStep, PTL DEF Spec

-----------------------------------------------------------------------------
(* The rate limit and the duplicate window.                                 *)

\* The engine keeps the rate of a rule by the rule's id over a change of the
\* rules: what it limits is one limit as long as an edit does not change the
\* limit and keep the id.
SteadyLimits == \A q, r \in AllRules : q.id = r.id => q.limit = r.limit

\* What the count of the current second says of the events let through.
RateJust(rt, ad, limit) ==
    rt.second \in Seconds /\ (ad[rt.second] >= limit \/ ad[rt.second] >= rt.count)

RateBound(rt, ad, limit) ==
    /\ \A x \in Seconds : ad[x] <= limit /\ (x > rt.second => ad[x] = 0)
    /\ ad[rt.second] <= rt.count
    /\ rt.second <= latest \div SecTicks

RateInv ==
    \A r \in AllRules, s \in Sources : r.limit > 0 =>
        /\ RateJust(rate[<<r.id, s>>], admits[<<r.id, s>>], r.limit)
        /\ InOrder => RateBound(rate[<<r.id, s>>], admits[<<r.id, s>>], r.limit)

\* The last stamp in the cache is one of those that reached the window and, in
\* order, the latest of them.
DedupInv ==
    \A k \in Ids \X Events :
        /\ dedup[k] # Never => dedup[k] \in seen[k]
        /\ InOrder => \A s \in seen[k] : s <= latest /\ dedup[k] # Never /\ s <= dedup[k]

\* A stamp applied in order is no earlier than the last one.
LEMMA OrderStep ==
  ASSUME EngineType, NEW c \in Callers, Apply(c), latest' <= LastTick
  PROVE  /\ latest <= now[c] /\ latest' = now[c] /\ InOrder
         /\ latest \div SecTicks <= now[c] \div SecTicks
<1>1. /\ latest' = IF now[c] >= latest THEN now[c] ELSE LastTick + 1
      /\ now[c] \in Nat /\ latest \in Nat /\ LastTick \in Nat /\ now[c] <= LastTick
  BY ConstantTypes, StampSecond DEF Apply, EngineType, StateType
<1>2. latest <= now[c] /\ latest' = now[c] /\ InOrder
  BY <1>1 DEF InOrder
<1> QED
  BY <1>1, <1>2, ConstantTypes, DivMono

\* One event of a limited rule, seen from the rate and the counts of its key.
LEMMA RateOne ==
  ASSUME NEW rt \in [second : Nat, count : Nat], NEW ad \in [Seconds -> Nat],
         NEW sec \in Seconds, NEW limit \in Nat, limit > 0, RateJust(rt, ad, limit),
         NEW ad2, ad2 = IF Bumped(rt, sec).count > limit THEN ad ELSE [ad EXCEPT ![sec] = @ + 1]
  PROVE  /\ RateJust(Bumped(rt, sec), ad2, limit)
         /\ Bumped(rt, sec).count > limit => ad[sec] >= limit
         /\ (RateBound(rt, ad, limit) /\ rt.second <= sec) =>
               /\ \A x \in Seconds : ad2[x] <= limit /\ (x > sec => ad2[x] = 0)
               /\ ad2[sec] <= Bumped(rt, sec).count
<1>0. /\ sec \in Nat /\ Seconds \subseteq Nat /\ rt.second \in Nat /\ rt.count \in Nat
      /\ \A x \in Seconds : ad[x] \in Nat
  BY DEF Seconds
<1>1. /\ Bumped(rt, sec).second = sec
      /\ Bumped(rt, sec).count = IF rt.second = sec THEN rt.count + 1 ELSE 1
  BY <1>0, BumpedType
<1>2. rt.second \in Seconds /\ (ad[rt.second] >= limit \/ ad[rt.second] >= rt.count)
  BY DEF RateJust
<1>3. RateBound(rt, ad, limit) => /\ \A x \in Seconds : ad[x] <= limit /\ (x > rt.second => ad[x] = 0)
                                  /\ ad[rt.second] <= rt.count
  BY DEF RateBound
<1> DEFINE b == Bumped(rt, sec)
<1> HIDE DEF b
<1>4. CASE b.count > limit
  <2>1. ad2 = ad /\ rt.second = sec /\ ad[sec] >= limit
    BY <1>0, <1>1, <1>2, <1>4 DEF b
  <2> QED
    BY <1>0, <1>1, <1>3, <2>1 DEF b, RateJust
<1>5. CASE ~(b.count > limit)
  <2>1. /\ ad2 = [ad EXCEPT ![sec] = @ + 1] /\ b.count <= limit
        /\ ad2[sec] = ad[sec] + 1 /\ \A x \in Seconds : x # sec => ad2[x] = ad[x]
    BY <1>0, <1>1, <1>5 DEF b
  <2>2. RateJust(b, ad2, limit)
    BY <1>0, <1>1, <1>2, <2>1 DEF b, RateJust
  <2>3. ASSUME RateBound(rt, ad, limit), rt.second <= sec
        PROVE  /\ \A x \in Seconds : ad2[x] <= limit /\ (x > sec => ad2[x] = 0)
               /\ ad2[sec] <= b.count
    <3>1. ad[sec] + 1 <= b.count
      BY <1>0, <1>1, <1>3, <2>3 DEF b
    <3>2. ad2[sec] <= b.count /\ ad2[sec] <= limit
      BY <1>0, <1>1, <2>1, <3>1 DEF b
    <3>3. ASSUME NEW x \in Seconds, x # sec PROVE ad2[x] <= limit /\ (x > sec => ad2[x] = 0)
      BY <1>0, <1>3, <2>1, <2>3, <3>3
    <3> QED
      BY <1>0, <3>2, <3>3
  <2> QED
    BY <1>5, <2>2, <2>3 DEF b
<1> QED
  BY <1>4, <1>5

\* What one application of a rule does to the rate and the counts.
LEMMA ApplyRuleRate ==
  ASSUME EngineType, NEW c \in Callers, NEW r \in AllRules, evt[c] \in Events, ApplyRule(c, r),
         NEW k \in Ids \X Sources
  PROVE  /\ k # <<r.id, evt[c].source>> => rate'[k] = rate[k] /\ admits'[k] = admits[k]
         /\ k = <<r.id, evt[c].source>> /\ r.limit > 0 =>
               LET sec == now[c] \div SecTicks IN
               /\ rate'[k] = Bumped(rate[k], sec)
               /\ admits'[k] = IF Bumped(rate[k], sec).count > r.limit THEN admits[k]
                               ELSE [admits[k] EXCEPT ![sec] = @ + 1]
<1> DEFINE sec == now[c] \div SecTicks
           rk == <<r.id, evt[c].source>>
           lim == r.limit > 0 /\ Bumped(rate[rk], sec).count > r.limit
<1>1. rk \in Ids \X Sources /\ r.limit \in Nat
  BY ConstantTypes
<1>2. rate' = IF r.limit > 0 THEN [rate EXCEPT ![rk] = Bumped(@, sec)] ELSE rate
  BY DEF ApplyRule
<1>3. admits' = IF lim THEN admits ELSE [admits EXCEPT ![rk][sec] = @ + 1]
  BY DEF ApplyRule
<1> HIDE DEF sec, rk
<1>4. (k # rk) => (rate'[k] = rate[k] /\ admits'[k] = admits[k])
  BY <1>2, <1>3 DEF EngineType, StateType
<1>5. (k = rk /\ r.limit > 0) => rate'[k] = Bumped(rate[k], sec)
  BY <1>2 DEF EngineType, StateType
<1>6. (k = rk /\ r.limit > 0) =>
          admits'[k] = IF Bumped(rate[k], sec).count > r.limit THEN admits[k]
                       ELSE [admits[k] EXCEPT ![sec] = @ + 1]
  BY <1>3 DEF EngineType, StateType
<1> QED
  BY <1>4, <1>5, <1>6 DEF sec, rk

LEMMA RateStep ==
  ASSUME SteadyLimits, EngineType, RateInv, [Next]_vars PROVE RateInv'
<1>1. ASSUME UNCHANGED <<rate, admits, latest>> PROVE RateInv'
  BY <1>1 DEF RateInv, RateJust, RateBound, InOrder, Seconds
<1>2. CASE ~Applying
  BY <1>1, <1>2, OnlyApply DEF ruleState
<1>3. ASSUME NEW c \in Callers, Apply(c) PROVE RateInv'
  <2> SUFFICES ASSUME NEW q \in AllRules, NEW s \in Sources, q.limit > 0
               PROVE  /\ RateJust(rate'[<<q.id, s>>], admits'[<<q.id, s>>], q.limit)
                      /\ InOrder' => RateBound(rate[<<q.id, s>>], admits[<<q.id, s>>], q.limit)'
    BY DEF RateInv, RateJust, Seconds
  <2> DEFINE k == <<q.id, s>>
             sec == now[c] \div SecTicks
  <2>0. /\ k \in Ids \X Sources /\ q.limit \in Nat
        /\ rate[k] \in [second : Nat, count : Nat] /\ admits[k] \in [Seconds -> Nat]
        /\ sec \in Seconds /\ sec \in Nat /\ latest \in Nat
    BY <1>3, ConstantTypes, StampSecond DEF EngineType, StateType, Seconds
  <2>1. /\ RateJust(rate[k], admits[k], q.limit)
        /\ InOrder => RateBound(rate[k], admits[k], q.limit)
    BY DEF RateInv
  <2>2. InOrder' => /\ RateBound(rate[k], admits[k], q.limit)
                    /\ latest' \div SecTicks = sec /\ latest \div SecTicks <= sec
    BY <1>3, <2>1, OrderStep DEF InOrder
  <2>3. latest \div SecTicks \in Nat /\ rate[k].second \in Nat
    BY <2>0, ConstantTypes, DivNat
  <2>4. InOrder' => rate[k].second <= sec
    BY <2>0, <2>2, <2>3 DEF RateBound
  <2> HIDE DEF k, sec
  <2>5. CASE rate'[k] = rate[k] /\ admits'[k] = admits[k]
    <3>1. RateJust(rate'[k], admits'[k], q.limit)
      BY <2>1, <2>5
    <3>2. InOrder' => RateBound(rate[k], admits[k], q.limit)'
      BY <2>2, <2>4, <2>5 DEF RateBound, Seconds
    <3> QED
      BY <3>1, <3>2 DEF k
  <2>6. ASSUME NEW r \in AllRules, ApplyRule(c, r), evt[c] \in Events, k = <<r.id, evt[c].source>>
        PROVE  /\ RateJust(rate'[k], admits'[k], q.limit)
               /\ InOrder' => RateBound(rate[k], admits[k], q.limit)'
    <3>1. r.limit = q.limit
      BY <2>6 DEF SteadyLimits, k
    <3>2. /\ rate'[k] = Bumped(rate[k], sec)
          /\ admits'[k] = IF Bumped(rate[k], sec).count > q.limit THEN admits[k]
                          ELSE [admits[k] EXCEPT ![sec] = @ + 1]
      BY <2>0, <2>6, <3>1, ApplyRuleRate DEF sec
    <3>3. /\ RateJust(Bumped(rate[k], sec), admits'[k], q.limit)
          /\ (RateBound(rate[k], admits[k], q.limit) /\ rate[k].second <= sec) =>
               /\ \A x \in Seconds : admits'[k][x] <= q.limit /\ (x > sec => admits'[k][x] = 0)
               /\ admits'[k][sec] <= Bumped(rate[k], sec).count
      BY <2>0, <2>1, <3>2, RateOne
    <3>4. Bumped(rate[k], sec).second = sec
      BY <2>0, BumpedType
    <3>5. InOrder' => RateBound(rate[k], admits[k], q.limit)'
      BY <2>0, <2>2, <2>4, <3>2, <3>3, <3>4 DEF RateBound, Seconds
    <3> QED
      BY <3>2, <3>3, <3>5
  <2>7. CASE UNCHANGED <<rate, admits>>
    BY <2>5, <2>7
  <2>8. ASSUME NEW r \in AllRules, ApplyRule(c, r), evt[c] \in Events, k # <<r.id, evt[c].source>>
        PROVE  rate'[k] = rate[k] /\ admits'[k] = admits[k]
    BY <2>0, <2>8, ApplyRuleRate, ZenonT(30)
  <2> QED
    BY <1>3, <2>5, <2>6, <2>7, <2>8, ApplyOne DEF k
<1> QED
  BY <1>2, <1>3 DEF Applying

LEMMA RateInit == Init => RateInv
<1> SUFFICES ASSUME Init, NEW r \in AllRules, NEW s \in Sources, r.limit > 0
             PROVE  /\ RateJust(rate[<<r.id, s>>], admits[<<r.id, s>>], r.limit)
                    /\ RateBound(rate[<<r.id, s>>], admits[<<r.id, s>>], r.limit)
  BY DEF RateInv
<1> DEFINE k == <<r.id, s>>
<1>1. k \in Ids \X Sources /\ r.limit \in Nat
  BY ConstantTypes
<1>2. rate[k] = [second |-> 0, count |-> 0] /\ admits[k] = [x \in Seconds |-> 0] /\ latest = 0
  BY <1>1 DEF Init, Seconds
<1>3. 0 \in Seconds
  BY ConstantTypes, DivNat DEF Seconds
<1>4. 0 \div SecTicks = 0
  BY ConstantTypes, DivUnique
<1> HIDE DEF k
<1>5. RateJust(rate[k], admits[k], r.limit)
  BY <1>2, <1>3 DEF RateJust
<1>6. RateBound(rate[k], admits[k], r.limit)
  BY <1>1, <1>2, <1>3, <1>4 DEF RateBound
<1> QED
  BY <1>5, <1>6 DEF k

\* As long as concurrent callers apply their stamps in order, a rule lets at
\* most its limit of events of one source through in a second.
THEOREM RateLimitCorrect == ASSUME SteadyLimits PROVE Spec => []RateLimitHolds
<1>1. EngineType /\ RateInv => RateLimitHolds
  <2> SUFFICES ASSUME EngineType, RateInv, InOrder, NEW r \in AllRules, NEW s \in Sources,
                      r.limit > 0, NEW x \in DOMAIN admits[<<r.id, s>>]
               PROVE  admits[<<r.id, s>>][x] <= r.limit
    BY DEF RateLimitHolds, LimitKept
  <2>1. <<r.id, s>> \in Ids \X Sources
    BY ConstantTypes
  <2>2. x \in Seconds
    BY <2>1 DEF EngineType, StateType
  <2>3. RateBound(rate[<<r.id, s>>], admits[<<r.id, s>>], r.limit)
    BY DEF RateInv
  <2> QED
    BY <2>2, <2>3 DEF RateBound
<1>2. EngineType /\ RateInv /\ [Next]_vars => RateInv'
  BY RateStep
<1> QED
  BY <1>1, <1>2, RateInit, InitType, TypeStep, PTL DEF Spec

\* What one application of a rule does to the cache and the window's history.
LEMMA ApplyRuleDedup ==
  ASSUME EngineType, NEW c \in Callers, NEW r \in AllRules, evt[c] \in Events, ApplyRule(c, r),
         NEW k \in Ids \X Events
  PROVE  \/ dedup'[k] = dedup[k] /\ seen'[k] = seen[k]
         \/ dedup'[k] = now[c] /\ seen'[k] = seen[k] \cup {now[c]}
<1> DEFINE sec == now[c] \div SecTicks
           rk == <<r.id, evt[c].source>>
           dk == <<r.id, evt[c]>>
           lim == r.limit > 0 /\ Bumped(rate[rk], sec).count > r.limit
<1>1. dk \in Ids \X Events /\ r.window \in Nat
  BY ConstantTypes
<1>2. dedup' = IF ~lim /\ r.window > 0 THEN [dedup EXCEPT ![dk] = now[c]] ELSE dedup
  BY DEF ApplyRule
<1>3. seen' = IF lim \/ r.window = 0 THEN seen ELSE [seen EXCEPT ![dk] = @ \cup {now[c]}]
  BY DEF ApplyRule
<1> HIDE DEF lim, dk
<1>4. CASE lim \/ r.window = 0
  <2>1. dedup' = dedup /\ seen' = seen
    BY <1>1, <1>2, <1>3, <1>4
  <2> QED
    BY <2>1
<1>5. CASE ~(lim \/ r.window = 0)
  <2>1. dedup' = [dedup EXCEPT ![dk] = now[c]]
    BY <1>1, <1>2, <1>5
  <2>2. seen' = [seen EXCEPT ![dk] = @ \cup {now[c]}]
    BY <1>3, <1>5
  <2> QED
    BY <1>1, <2>1, <2>2 DEF EngineType, StateType
<1> QED
  BY <1>4, <1>5

LEMMA DedupStep ==
  ASSUME EngineType, DedupInv, [Next]_vars PROVE DedupInv'
<1>1. ASSUME UNCHANGED <<dedup, seen, latest>> PROVE DedupInv'
  BY <1>1 DEF DedupInv, InOrder
<1>2. CASE ~Applying
  BY <1>1, <1>2, OnlyApply DEF ruleState
<1>3. ASSUME NEW c \in Callers, Apply(c) PROVE DedupInv'
  <2> SUFFICES ASSUME NEW k \in Ids \X Events
               PROVE  /\ dedup'[k] # Never => dedup'[k] \in seen'[k]
                      /\ InOrder' => \A s \in seen'[k] :
                            s <= latest' /\ dedup'[k] # Never /\ s <= dedup'[k]
    BY DEF DedupInv
  <2>1. /\ dedup[k] # Never => dedup[k] \in seen[k]
        /\ InOrder => \A s \in seen[k] : s <= latest /\ dedup[k] # Never /\ s <= dedup[k]
        /\ seen[k] \subseteq Nat /\ dedup[k] \in Nat \cup {Never}
        /\ now[c] \in Nat /\ latest \in Nat
    BY DEF DedupInv, EngineType, StateType, CallerType
  <2>2. InOrder' => latest <= now[c] /\ latest' = now[c] /\ InOrder
    BY <1>3, OrderStep DEF InOrder
  <2>3. \/ dedup'[k] = dedup[k] /\ seen'[k] = seen[k]
        \/ dedup'[k] = now[c] /\ seen'[k] = seen[k] \cup {now[c]}
    BY <1>3, ApplyOne, ApplyRuleDedup
  <2>4. now[c] # Never
    BY <2>1 DEF Never
  <2>5. CASE dedup'[k] = dedup[k] /\ seen'[k] = seen[k]
    BY <2>1, <2>2, <2>5
  <2>6. CASE dedup'[k] = now[c] /\ seen'[k] = seen[k] \cup {now[c]}
    BY <2>1, <2>2, <2>4, <2>6
  <2> QED
    BY <2>3, <2>5, <2>6
<1> QED
  BY <1>2, <1>3 DEF Applying

LEMMA DedupInit == Init => DedupInv
<1> SUFFICES ASSUME Init, NEW k \in Ids \X Events PROVE dedup[k] = Never /\ seen[k] = {}
  BY DEF DedupInv
<1> QED
  BY DEF Init

\* The reason of a verdict tells what the controls found.
LEMMA ReasonTells ==
  ASSUME EngineType, NEW c \in Callers, NEW r \in AllRules, ApplyRule(c, r)
  PROVE  LET limited   == r.limit > 0 /\ Bumped(rate[<<r.id, evt[c].source>>],
                                               now[c] \div SecTicks).count > r.limit
             duplicate == r.window > 0 /\ WithinWindow(dedup[<<r.id, evt[c]>>], now[c], r.window)
         IN  /\ verdict'[c].reason = "rule_rate_limit" <=> limited
             /\ verdict'[c].reason = "rule_duplicate_window" <=> ~limited /\ duplicate
<1> DEFINE limited   == r.limit > 0 /\ Bumped(rate[<<r.id, evt[c].source>>],
                                             now[c] \div SecTicks).count > r.limit
           duplicate == r.window > 0 /\ WithinWindow(dedup[<<r.id, evt[c]>>], now[c], r.window)
           sampling  == ~limited /\ ~duplicate /\ r.action = "sample"
           keep      == KeepSample(samples[<<r.id, [source |-> evt[c].source,
                                                    shape |-> evt[c].shape]>>] + 1,
                                   KeepEvery(r.sampleRate))
<1>1. verdict' = [verdict EXCEPT ![c] =
          CASE limited               -> Dropped(r, "rule_rate_limit")
            [] ~limited /\ duplicate -> Dropped(r, "rule_duplicate_window")
            [] sampling /\ ~keep     -> Dropped(r, "rule_sample_drop")
            [] OTHER                 -> ByAction(r)]
  BY DEF ApplyRule
<1> HIDE DEF limited, duplicate, keep
<1>2. c \in DOMAIN verdict
  BY DEF EngineType, CallerType
<1>3. /\ limited => verdict'[c] = Dropped(r, "rule_rate_limit")
      /\ ~limited /\ duplicate => verdict'[c] = Dropped(r, "rule_duplicate_window")
      /\ ~limited /\ ~duplicate => verdict'[c] \in {Dropped(r, "rule_sample_drop"), ByAction(r)}
  BY <1>1, <1>2
<1>4. r.action \in Actions
  BY ConstantTypes
<1>5. ByAction(r).reason \notin {"rule_rate_limit", "rule_duplicate_window"}
  BY <1>4 DEF ByAction, Actions, Decision
<1>6. \A x : Dropped(r, x).reason = x
  BY DEF Dropped, Decision
<1> QED
  BY <1>3, <1>5, <1>6 DEF limited, duplicate

\* A verdict that lets an event through a window does so because the event did
\* not reach the window within it.
LEMMA DedupPass ==
  ASSUME EngineType, DedupInv, NEW c \in Callers, NEW r \in AllRules, evt[c] \in Events,
         ApplyRule(c, r), Apply(c), latest' <= LastTick, r.window > 0,
         verdict'[c].reason \notin {"rule_rate_limit", "rule_duplicate_window"}
  PROVE  \A s \in seen[<<r.id, evt[c]>>] : now[c] - s > r.window * SecTicks
<1> DEFINE k == <<r.id, evt[c]>>
           w == r.window * SecTicks
<1>1. k \in Ids \X Events /\ w \in Nat
  BY ConstantTypes
<1>2. ~WithinWindow(dedup[k], now[c], r.window)
  BY ReasonTells
<1>3. ~(dedup[k] # Never /\ now[c] - dedup[k] <= w)
  BY <1>2 DEF WithinWindow
<1> HIDE DEF k, w
<1>4. \A s \in seen[k] : dedup[k] # Never /\ s <= dedup[k]
  BY <1>1, OrderStep DEF DedupInv
<1>5. seen[k] \subseteq Nat /\ dedup[k] \in Nat \cup {Never} /\ now[c] \in Nat
  BY <1>1 DEF EngineType, StateType, CallerType
<1>6. \A s \in seen[k] : now[c] - s > w
  BY <1>1, <1>3, <1>4, <1>5
<1> QED
  BY <1>6 DEF k, w

\* A verdict that drops an event has its cause.
LEMMA DropCause ==
  ASSUME EngineType, RateInv, DedupInv, NEW c \in Callers, NEW r \in AllRules,
         evt[c] \in Events, ApplyRule(c, r)
  PROVE  /\ verdict'[c].reason = "rule_rate_limit" =>
               admits[<<r.id, evt[c].source>>][now[c] \div SecTicks] >= r.limit
         /\ verdict'[c].reason = "rule_duplicate_window" =>
               \E s \in seen[<<r.id, evt[c]>>] : now[c] - s <= r.window * SecTicks
<1>1. ASSUME verdict'[c].reason = "rule_rate_limit"
      PROVE  admits[<<r.id, evt[c].source>>][now[c] \div SecTicks] >= r.limit
  <2> DEFINE k == <<r.id, evt[c].source>>
             sec == now[c] \div SecTicks
  <2>1. /\ k \in Ids \X Sources /\ sec \in Seconds /\ r.limit \in Nat
        /\ rate[k] \in [second : Nat, count : Nat] /\ admits[k] \in [Seconds -> Nat]
    BY ConstantTypes, StampSecond DEF EngineType, StateType
  <2>2. r.limit > 0 /\ Bumped(rate[k], sec).count > r.limit
    BY <1>1, ReasonTells
  <2>3. RateJust(rate[k], admits[k], r.limit)
    BY <2>2, ConstantTypes DEF RateInv
  <2> HIDE DEF k, sec
  <2>4. admits[k][sec] >= r.limit
    BY <2>1, <2>2, <2>3, RateOne
  <2> QED
    BY <2>4 DEF k, sec
<1>2. ASSUME verdict'[c].reason = "rule_duplicate_window"
      PROVE  \E s \in seen[<<r.id, evt[c]>>] : now[c] - s <= r.window * SecTicks
  <2>1. <<r.id, evt[c]>> \in Ids \X Events
    BY ConstantTypes
  <2>2. WithinWindow(dedup[<<r.id, evt[c]>>], now[c], r.window)
    BY <1>2, ReasonTells
  <2> QED
    BY <2>1, <2>2 DEF WithinWindow, DedupInv
<1> QED
  BY <1>1, <1>2

DedupStepOK ==
    \A c \in Callers, r \in AllRules :
       (/\ Apply(c) /\ latest' <= LastTick
        /\ verdict'[c].reason \notin {"rule_rate_limit", "rule_duplicate_window"}
        /\ Matching(snap[c], evt[c]) # {} /\ FirstMatch(snap[c], evt[c]) = r /\ r.window > 0)
       => \A s \in seen[<<r.id, evt[c]>>] : now[c] - s > r.window * SecTicks

DropStepOK ==
    \A c \in Callers, r \in AllRules :
       (Apply(c) /\ Matching(snap[c], evt[c]) # {} /\ FirstMatch(snap[c], evt[c]) = r) =>
          /\ verdict'[c].reason = "rule_rate_limit" =>
                admits[<<r.id, evt[c].source>>][now[c] \div SecTicks] >= r.limit
          /\ verdict'[c].reason = "rule_duplicate_window" =>
                \E s \in seen[<<r.id, evt[c]>>] : now[c] - s <= r.window * SecTicks

\* The runtime controls drop what they should and nothing else: no event gets
\* through a window within it, and no event is dropped without its cause.
THEOREM DropsCorrect == ASSUME SteadyLimits PROVE Spec => DropsExact
<1>1. EngineType /\ DedupInv => DedupStepOK
  <2> SUFFICES ASSUME EngineType, DedupInv, NEW c \in Callers, NEW r \in AllRules,
                      Apply(c), latest' <= LastTick,
                      verdict'[c].reason \notin {"rule_rate_limit", "rule_duplicate_window"},
                      Matching(snap[c], evt[c]) # {}, FirstMatch(snap[c], evt[c]) = r, r.window > 0
               PROVE  \A s \in seen[<<r.id, evt[c]>>] : now[c] - s > r.window * SecTicks
    BY DEF DedupStepOK
  <2>1. evt[c] \in Events /\ ApplyRule(c, r)
    BY ApplyOne
  <2> QED
    BY <2>1, DedupPass
<1>2. EngineType /\ RateInv /\ DedupInv => DropStepOK
  <2> SUFFICES ASSUME EngineType, RateInv, DedupInv, NEW c \in Callers, NEW r \in AllRules,
                      Apply(c), Matching(snap[c], evt[c]) # {}, FirstMatch(snap[c], evt[c]) = r
               PROVE  /\ verdict'[c].reason = "rule_rate_limit" =>
                            admits[<<r.id, evt[c].source>>][now[c] \div SecTicks] >= r.limit
                      /\ verdict'[c].reason = "rule_duplicate_window" =>
                            \E s \in seen[<<r.id, evt[c]>>] : now[c] - s <= r.window * SecTicks
    BY DEF DropStepOK
  <2>1. evt[c] \in Events /\ ApplyRule(c, r)
    BY ApplyOne
  <2> QED
    BY <2>1, DropCause
<1>3. EngineType /\ RateInv /\ [Next]_vars => RateInv'
  BY RateStep
<1>4. EngineType /\ DedupInv /\ [Next]_vars => DedupInv'
  BY DedupStep
<1>5. Spec => [][DedupStepOK]_vars
  BY <1>1, <1>4, DedupInit, InitType, TypeStep, PTL DEF Spec
<1>6. Spec => [][DropStepOK]_vars
  BY <1>2, <1>3, <1>4, RateInit, DedupInit, InitType, TypeStep, PTL DEF Spec
<1> QED
  BY <1>5, <1>6 DEF DropsExact, DedupHolds, DropsJustified, DedupStepOK, DropStepOK
=============================================================================
