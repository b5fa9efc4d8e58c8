---------------------------- MODULE RuleSyncProofs ----------------------------
(***************************************************************************)
(* TLAPS proofs about the rule store and the requests that change it:       *)
(* types, that a restart brings back the list last written, and that the    *)
(* engine evaluates lists the store has held, for every set of rules, any   *)
(* number of requests under way, and any failures of the disk.              *)
(***************************************************************************)
EXTENDS RuleSync, ListTheorems

-----------------------------------------------------------------------------
(* What the store makes of lists.  A list as a request may carry it is one   *)
(* of Wide items; a list as the store keeps it is one of Items.              *)

Wide == [id : Ids \cup {NoId}, val : Vals \cup {NoVal}]

LEMMA ItemsAreWide == Seq(Items) \subseteq Seq(Wide)
<1>1. Items \subseteq Wide
  BY DEF Items, Wide
<1> QED
  BY <1>1, SeqMonotonic

\* A list without the items of one id: all of them if none has it.
LEMMA WithoutIs ==
  ASSUME NEW T, T \subseteq Wide, NEW list \in Seq(T), NEW id
  PROVE  /\ Without(list, id) \in Seq({x \in T : x.id # id})
         /\ (\A i \in DOMAIN list : list[i].id # id) => Without(list, id) = list
<1> DEFINE S == [id : (Ids \cup {NoId}) \ {id}, val : Vals \cup {NoVal}]
           K == {x \in T : x.id # id}
<1>1. \A x \in T : x \in S <=> x.id # id
  BY DEF Wide
<1>2. Without(list, id) = Only(list, S)
  BY DEF Without
<1> HIDE DEF S
<1>3. Only(list, S) \in Seq(K)
  <2>1. T \cap S \subseteq K
    BY <1>1
  <2>2. PICK M : M = T \cap S
    OBVIOUS
  <2>3. Only(list, S) \in Seq(M) /\ M \subseteq K
    BY <2>1, <2>2, OnlyType
  <2> HIDE DEF K
  <2> QED
    BY <2>3, SeqMonotonic
<1>4. ASSUME \A i \in DOMAIN list : list[i].id # id PROVE Only(list, S) = list
  <2>1. \A i \in DOMAIN list : list[i] \in S
    BY <1>1, <1>4
  <2> QED
    BY <2>1, OnlyAll
<1> QED
  BY <1>2, <1>3, <1>4

\* Sanitizing makes a stored list of any list, and leaves a stored list alone.
LEMMA SanitizeIs ==
  /\ \A list \in Seq(Wide) : Sanitize(list) \in Seq(Items)
  /\ \A list \in Seq(Items) : Sanitize(list) = list
<1> DEFINE Named == {x \in Wide : x.id # NoId}
<1>1. ASSUME NEW list \in Seq(Wide) PROVE Sanitize(list) \in Seq(Items)
  <2> DEFINE named == Without(list, NoId)
             F == [i \in DOMAIN named |-> SanitizeItem(named[i])]
  <2>1. named \in Seq(Named)
    BY WithoutIs
  <2>2. ASSUME NEW x \in Named PROVE SanitizeItem(x) \in Items
    BY ConfigAssumption DEF SanitizeItem, Items, Wide
  <2>3. Sanitize(list) = F
    BY DEF Sanitize
  <2> HIDE DEF named, Named
  <2>4. F = [i \in DOMAIN named |-> F[i]] /\ \A i \in DOMAIN named : F[i] \in Items
    BY <2>1, <2>2
  <2>5. F \in Seq(Items)
    <3> HIDE DEF F
    <3> QED
      BY <2>1, <2>4, MappedList
  <2> QED
    BY <2>3, <2>5
<1>2. ASSUME NEW list \in Seq(Items) PROVE Sanitize(list) = list
  <2>1. \A i \in DOMAIN list : list[i] \in Items
    OBVIOUS
  <2>2. ASSUME NEW i \in DOMAIN list PROVE list[i].id # NoId /\ SanitizeItem(list[i]) = list[i]
    BY <2>1, ConfigAssumption DEF Items, SanitizeItem
  <2>3. Without(list, NoId) = list
    <3>1. Items \subseteq Wide
      BY DEF Items, Wide
    <3> QED
      BY <2>2, <3>1, WithoutIs
  <2>4. Sanitize(list) = [i \in DOMAIN list |-> list[i]]
    BY <2>2, <2>3 DEF Sanitize
  <2> QED
    BY <2>4
<1> QED
  BY <1>1, <1>2

LEMMA UpsertedIs ==
  ASSUME NEW list \in Seq(Items), NEW x \in Wide PROVE Upserted(list, x) \in Seq(Wide)
<1>1. list \in Seq(Wide)
  BY ItemsAreWide
<1>2. CASE HasId(list, x.id)
  <2> DEFINE F == [i \in DOMAIN list |->
                      IF list[i].id = x.id /\ \A j \in 1 .. i - 1 : list[j].id # x.id
                      THEN x ELSE list[i]]
  <2>1. \A i \in DOMAIN list : list[i] \in Wide
    BY <1>1
  <2>2. F = [i \in DOMAIN list |-> F[i]] /\ \A i \in DOMAIN list : F[i] \in Wide
    BY <2>1
  <2>3. Upserted(list, x) = F
    BY <1>2 DEF Upserted
  <2> HIDE DEF F
  <2> QED
    BY <1>1, <2>2, <2>3, MappedList
<1>3. CASE ~HasId(list, x.id)
  BY <1>1, <1>3 DEF Upserted
<1> QED
  BY <1>2, <1>3

LEMMA DeletedIs == ASSUME NEW list \in Seq(Items), NEW id PROVE Deleted(list, id) \in Seq(Items)
<1>1. Deleted(list, id) \in Seq({x \in Items : x.id # id})
  <2>1. Items \subseteq Wide
    BY DEF Items, Wide
  <2> QED
    BY <2>1, WithoutIs DEF Deleted
<1>2. {x \in Items : x.id # id} \subseteq Items
  OBVIOUS
<1> QED
  BY <1>1, <1>2, SeqMonotonic

\* What a start reads: the file's list, or the defaults for want of one.
LEMMA LoadedIs ==
  /\ Sanitize(Defaults) \in Seq(Items)
  /\ \A file \in {Missing, Empty} : Loaded(file) = Sanitize(Defaults)
  /\ \A file \in Seq(Items) : Loaded(file) = IF file = <<>> THEN Sanitize(Defaults) ELSE file
<1>1. Defaults \in Seq(Items) /\ \A file \in {Missing, Empty} : file \notin Seq(Items)
  BY ConfigAssumption
<1> QED
  BY <1>1, SanitizeIs DEF Loaded

-----------------------------------------------------------------------------
(* The store.  An undamaged file holds the list last written.                *)

FileInv ==
    /\ ~cut => disk = saved
    /\ cut => disk = Empty \/ disk = Partial
    /\ failed => ~up /\ cut

StoreInv == StoreTypeOK /\ FileInv

LEMMA PersistKeeps ==
  ASSUME StoreTypeOK, ~cut => disk = saved, cut => disk = Empty \/ disk = Partial,
         NEW list \in Seq(Items), NEW o \in WriteOutcomes, Persist(list, o)
  PROVE  /\ saved' \in Seq(Items) /\ disk' \in Seq(Items) \cup {Missing, Empty, Partial}
         /\ cut' \in BOOLEAN
         /\ ~cut' => disk' = saved'
         /\ cut' => disk' = Empty \/ disk' = Partial
<1>1. CASE o = "ok"
  BY <1>1 DEF Persist
<1>2. CASE o # "ok"
  <2>1. /\ disk' = disk \/ disk' = Empty \/ disk' = Partial
        /\ cut' = (cut \/ disk' # disk) /\ saved' = saved
    BY <1>2 DEF Persist
  <2> QED
    BY <2>1 DEF StoreTypeOK
<1> QED
  BY <1>1, <1>2

LEMMA StoreKeeps ==
  ASSUME StoreInv, NEW list \in Seq(Items), NEW o \in WriteOutcomes, Store(list, o)
  PROVE  /\ StoreInv'
         /\ up /\ data' = list /\ up' = (o # "crash")
<1>1. /\ up /\ data' = list /\ up' = (o # "crash") /\ failed' = failed /\ Persist(list, o)
  BY DEF Store
<1>2. /\ saved' \in Seq(Items) /\ disk' \in Seq(Items) \cup {Missing, Empty, Partial}
      /\ cut' \in BOOLEAN
      /\ ~cut' => disk' = saved'
      /\ cut' => disk' = Empty \/ disk' = Partial
  BY <1>1, PersistKeeps DEF StoreInv, FileInv
<1>3. ~failed'
  BY <1>1 DEF StoreInv, FileInv
<1>4. {up', failed', cut'} \subseteq BOOLEAN
  BY <1>1, <1>2 DEF StoreInv, StoreTypeOK
<1> QED
  BY <1>1, <1>2, <1>3, <1>4 DEF StoreInv, StoreTypeOK, FileInv

LEMMA StartKeeps ==
  ASSUME StoreInv, NEW o \in WriteOutcomes, Start(o)
  PROVE  /\ StoreInv'
         /\ ~up /\ data' \in Seq(Items)
         /\ up' => data' = IF cut \/ saved = <<>> THEN Sanitize(Defaults) ELSE saved
         /\ failed' => cut'
<1>1. CASE disk = Partial
  <2>1. cut
    BY <1>1, ConfigAssumption DEF StoreInv, StoreTypeOK, FileInv
  <2>2. ~up /\ failed' = TRUE /\ UNCHANGED <<data, disk, up, saved, cut>>
    BY <1>1 DEF Start
  <2> QED
    BY <2>1, <2>2 DEF StoreInv, StoreTypeOK, FileInv
<1>2. CASE disk # Partial
  <2>1. /\ ~up /\ ~failed /\ data' = Loaded(disk) /\ Persist(data', o)
        /\ up' = (o = "ok") /\ failed' = failed
    BY <1>2 DEF Start
  <2>2. disk = IF cut THEN Empty ELSE saved
    BY <1>2 DEF StoreInv, FileInv
  <2>3. /\ Loaded(disk) = IF cut \/ saved = <<>> THEN Sanitize(Defaults) ELSE saved
        /\ Loaded(disk) \in Seq(Items)
    BY <2>2, LoadedIs DEF StoreInv, StoreTypeOK
  <2>4. Persist(Loaded(disk), o)
    BY <2>1
  <2>5. /\ saved' \in Seq(Items) /\ disk' \in Seq(Items) \cup {Missing, Empty, Partial}
        /\ cut' \in BOOLEAN
        /\ ~cut' => disk' = saved'
        /\ cut' => disk' = Empty \/ disk' = Partial
    BY <2>3, <2>4, PersistKeeps DEF StoreInv, FileInv
  <2>6. {up', failed', cut'} \subseteq BOOLEAN /\ ~failed'
    <3>1. up' \in BOOLEAN
      BY <2>1
    <3>2. failed \in BOOLEAN /\ failed' = failed /\ ~failed
      BY <2>1 DEF StoreInv, StoreTypeOK
    <3> QED
      BY <2>5, <3>1, <3>2
  <2> QED
    BY <2>1, <2>3, <2>5, <2>6 DEF StoreInv, StoreTypeOK, FileInv
<1> QED
  BY <1>1, <1>2

-----------------------------------------------------------------------------
(* The requests and the engine.                                              *)

SyncTypeInv ==
    /\ rpc \in [Requests -> {"new", "read", "install", "done"}] /\ apart \in BOOLEAN
    /\ engine \in Seq(Wide) /\ install \in [Requests -> Seq(Wide)]

\* What the engine has, or is about to get, was stored.
StoredInv ==
    /\ data \in stored /\ Sanitize(engine) \in stored
    /\ \A q \in Requests : rpc[q] = "install" => Sanitize(install[q]) \in stored

\* A request that runs alone is installing, or will read, the store's list.
AloneInv ==
    /\ ~up => Busy = {}
    /\ up /\ ~apart =>
          /\ \A p, q \in Busy : p = q
          /\ \A q \in Busy : rpc[q] = "install" => Sanitize(install[q]) = data
          /\ Busy = {} => Sanitize(engine) = data

IInv == StoreInv /\ SyncTypeInv /\ StoredInv /\ AloneInv

LEMMA InitIInv == Init => IInv
<1> SUFFICES ASSUME Init PROVE IInv
  OBVIOUS
<1>1. data = Loaded(Missing) /\ data \in Seq(Items) /\ Sanitize(data) = data /\ data \in Seq(Wide)
  BY LoadedIs, SanitizeIs, ItemsAreWide DEF Init, StoreInit
<1>2. StoreInv
  BY <1>1 DEF Init, StoreInit, StoreInv, StoreTypeOK, FileInv
<1>3. SyncTypeInv
  BY <1>1, EmptySeq DEF Init, SyncTypeInv
<1>4. Busy = {}
  BY DEF Init, Busy
<1>5. StoredInv /\ AloneInv
  BY <1>1, <1>4 DEF Init, StoredInv, AloneInv
<1> QED
  BY <1>2, <1>3, <1>5 DEF IInv

\* Any of the three requests: it stores a list, and goes on to install it or read it.
LEMMA RequestKeeps ==
  ASSUME IInv, NEW q \in Requests, NEW list \in Seq(Items), NEW o \in WriteOutcomes,
         NEW next \in {"read", "install"},
         Arrives(q), Store(list, o), After(q, next, o),
         install' \in [Requests -> Seq(Wide)],
         \A p \in Requests : p # q => install'[p] = install[p],
         next = "install" => Sanitize(install'[q]) = list
  PROVE  IInv'
<1> USE DEF IInv
<1>1. StoreInv' /\ up /\ data' = list /\ up' = (o # "crash")
  BY StoreKeeps
<1>2. rpc \in [Requests -> {"new", "read", "install", "done"}] /\ rpc[q] = "new" /\ q \notin Busy
  BY DEF SyncTypeInv, Arrives, Busy
<1>3. /\ stored' = stored \cup {data'} /\ apart' = (Busy # {} \/ o = "error")
      /\ engine' = engine
      /\ rpc' = CASE o = "ok"    -> [rpc EXCEPT ![q] = next]
                  [] o = "error" -> [rpc EXCEPT ![q] = "done"]
                  [] o = "crash" -> [p \in Requests |-> IF p = q \/ rpc[p] # "new"
                                                        THEN "done" ELSE "new"]
  BY DEF After
<1>4. rpc' \in [Requests -> {"new", "read", "install", "done"}]
  BY <1>2, <1>3 DEF WriteOutcomes
<1>5. /\ o = "ok" => rpc'[q] = next /\ \A p \in Requests : p # q => rpc'[p] = rpc[p]
      /\ o = "error" => rpc'[q] = "done" /\ \A p \in Requests : p # q => rpc'[p] = rpc[p]
      /\ o = "crash" => \A p \in Requests : rpc'[p] \in {"new", "done"}
  BY <1>2, <1>3 DEF WriteOutcomes
<1>6. SyncTypeInv'
  <2>1. apart' \in BOOLEAN
    BY <1>3
  <2> QED
    BY <1>3, <1>4, <2>1 DEF SyncTypeInv
<1>7. StoredInv'
  <2>1. data' \in stored' /\ Sanitize(engine') \in stored'
    BY <1>3 DEF StoredInv
  <2>2. ASSUME NEW p \in Requests, rpc'[p] = "install" PROVE Sanitize(install'[p]) \in stored'
    <3>1. CASE p = q
      BY <1>1, <1>3, <1>5, <2>2, <3>1 DEF WriteOutcomes
    <3>2. CASE p # q
      <4>1. rpc[p] = "install" /\ install'[p] = install[p]
        BY <1>5, <2>2, <3>2 DEF WriteOutcomes
      <4> QED
        BY <1>3, <4>1 DEF StoredInv
    <3> QED
      BY <3>1, <3>2
  <2> QED
    BY <2>1, <2>2 DEF StoredInv
<1>8. AloneInv'
  <2>1. CASE o = "crash"
    <3>1. Busy' = {} /\ ~up'
      BY <1>1, <1>5, <2>1 DEF Busy
    <3> QED
      BY <3>1 DEF AloneInv
  <2>2. CASE o # "crash"
    <3>1. up'
      BY <1>1, <2>2
    <3>2. CASE Busy # {} \/ o = "error"
      BY <1>3, <3>1, <3>2 DEF AloneInv
    <3>3. CASE Busy = {} /\ o = "ok"
      <4>1. Busy' = {q} /\ rpc'[q] = next
        BY <1>5, <3>3 DEF Busy
      <4> QED
        BY <1>1, <3>1, <4>1 DEF AloneInv
    <3> QED
      BY <2>2, <3>2, <3>3 DEF WriteOutcomes
  <2> QED
    BY <2>1, <2>2
<1> QED
  BY <1>1, <1>6, <1>7, <1>8

LEMMA StepIInv == IInv /\ [Next]_syncVars => IInv'
<1> SUFFICES ASSUME IInv, [Next]_syncVars PROVE IInv'
  OBVIOUS
<1> USE DEF IInv
<1>0. /\ Outcomes \subseteq WriteOutcomes
      /\ rpc \in [Requests -> {"new", "read", "install", "done"}]
      /\ install \in [Requests -> Seq(Wide)] /\ data \in Seq(Items) /\ data \in Seq(Wide)
  BY ItemsAreWide DEF Outcomes, WriteOutcomes, SyncTypeInv, StoreInv, StoreTypeOK
<1>1. ASSUME NEW q \in Requests, NEW o \in Outcomes, NEW b \in Bodies, PostRules(q, b, o)
      PROVE  IInv'
  <2>1. b \in Seq(Wide)
    BY ConfigAssumption DEF Wide
  <2>2. Sanitize(b) \in Seq(Items)
    BY <2>1, SanitizeIs
  <2>3. /\ Arrives(q) /\ Store(Sanitize(b), o) /\ After(q, "install", o)
        /\ install' = [install EXCEPT ![q] = b]
    BY <1>1 DEF PostRules, Replace
  <2>4. /\ install' \in [Requests -> Seq(Wide)] /\ install'[q] = b
        /\ \A p \in Requests : p # q => install'[p] = install[p]
    BY <1>0, <2>1, <2>3
  <2>5. o \in WriteOutcomes
    BY <1>0
  <2> QED
    BY <2>2, <2>3, <2>4, <2>5, RequestKeeps
<1>2. ASSUME NEW q \in Requests, NEW o \in Outcomes, NEW id \in Ids, NEW v \in Vals \cup {NoVal},
             PutRule(q, [id |-> id, val |-> v], o)
      PROVE  IInv'
  <2>1. [id |-> id, val |-> v] \in Wide
    BY DEF Wide
  <2> DEFINE list == Sanitize(Upserted(data, [id |-> id, val |-> v]))
  <2>2. list \in Seq(Items)
    BY <1>0, <2>1, UpsertedIs, SanitizeIs
  <2>3. Arrives(q) /\ Store(list, o) /\ After(q, "read", o) /\ install' = install
    BY <1>2 DEF PutRule, Upsert
  <2>4. o \in WriteOutcomes
    BY <1>0
  <2> HIDE DEF list
  <2> QED
    BY <1>0, <2>2, <2>3, <2>4, RequestKeeps
<1>3. ASSUME NEW q \in Requests, NEW o \in Outcomes, NEW id \in Ids, DeleteRule(q, id, o)
      PROVE  IInv'
  <2>1. Deleted(data, id) \in Seq(Items)
    BY <1>0, DeletedIs
  <2>2. Arrives(q) /\ Store(Deleted(data, id), o) /\ After(q, "read", o) /\ install' = install
    BY <1>3 DEF DeleteRule, Delete
  <2>3. o \in WriteOutcomes
    BY <1>0
  <2> QED
    BY <1>0, <2>1, <2>2, <2>3, RequestKeeps
<1>4. ASSUME NEW q \in Requests, ReadStore(q) PROVE IInv'
  <2>1. /\ up /\ rpc[q] = "read" /\ install' = [install EXCEPT ![q] = data]
        /\ rpc' = [rpc EXCEPT ![q] = "install"]
        /\ UNCHANGED <<storeVars, engine, stored, apart>>
    BY <1>4 DEF ReadStore
  <2>2. /\ install' \in [Requests -> Seq(Wide)] /\ install'[q] = data /\ rpc'[q] = "install"
        /\ rpc' \in [Requests -> {"new", "read", "install", "done"}]
        /\ \A p \in Requests : p # q => install'[p] = install[p] /\ rpc'[p] = rpc[p]
    BY <1>0, <2>1
  <2>3. Busy' = Busy /\ Sanitize(install'[q]) = data
    BY <1>0, <2>1, <2>2, SanitizeIs DEF Busy
  <2>4. StoreInv' /\ SyncTypeInv'
    BY <2>1, <2>2 DEF StoreInv, StoreTypeOK, FileInv, storeVars, SyncTypeInv
  <2>5. StoredInv'
    BY <2>1, <2>2, <2>3 DEF StoredInv, storeVars
  <2>6. AloneInv'
    BY <2>1, <2>2, <2>3 DEF AloneInv, Busy, storeVars
  <2> QED
    BY <2>4, <2>5, <2>6
<1>5. ASSUME NEW q \in Requests, SetRules(q) PROVE IInv'
  <2>1. /\ up /\ rpc[q] = "install" /\ engine' = install[q] /\ rpc' = [rpc EXCEPT ![q] = "done"]
        /\ UNCHANGED <<storeVars, install, stored, apart>>
    BY <1>5 DEF SetRules
  <2>2. /\ rpc' \in [Requests -> {"new", "read", "install", "done"}] /\ rpc'[q] = "done"
        /\ \A p \in Requests : p # q => rpc'[p] = rpc[p]
    BY <1>0, <2>1
  <2>3. Busy' = Busy \ {q} /\ q \in Busy
    BY <2>1, <2>2 DEF Busy
  <2>4. StoreInv' /\ SyncTypeInv'
    BY <1>0, <2>1, <2>2 DEF StoreInv, StoreTypeOK, FileInv, storeVars, SyncTypeInv
  <2>5. StoredInv'
    BY <2>1, <2>2 DEF StoredInv, storeVars
  <2>6. AloneInv'
    BY <2>1, <2>2, <2>3 DEF AloneInv, storeVars
  <2> QED
    BY <2>4, <2>5, <2>6
<1>6. CASE CrashAll
  <2>1. /\ up /\ ~up' /\ UNCHANGED <<data, disk, failed, saved, cut, engine, install, stored, apart>>
        /\ rpc' = [q \in Requests |-> IF rpc[q] = "new" THEN "new" ELSE "done"]
    BY <1>6 DEF CrashAll, Crash
  <2>2. /\ rpc' \in [Requests -> {"new", "read", "install", "done"}] /\ Busy' = {}
        /\ \A q \in Requests : rpc'[q] # "install"
    BY <2>1 DEF Busy
  <2>3. up' = FALSE
    BY <1>6 DEF CrashAll, Crash
  <2>4. StoreInv'
    BY <2>1, <2>3 DEF StoreInv, StoreTypeOK, FileInv
  <2>5. SyncTypeInv' /\ StoredInv' /\ AloneInv'
    BY <2>1, <2>2 DEF SyncTypeInv, StoredInv, AloneInv
  <2> QED
    BY <2>4, <2>5
<1>7. ASSUME NEW o \in Outcomes, StartAll(o) PROVE IInv'
  <2>1. /\ Start(o) /\ engine' = (IF up' THEN data' ELSE engine) /\ stored' = stored \cup {data'}
        /\ apart' = (apart /\ ~up') /\ rpc' = rpc /\ install' = install
    BY <1>7 DEF StartAll
  <2>2. StoreInv' /\ ~up /\ data' \in Seq(Items)
    BY <1>0, <2>1, StartKeeps
  <2>3. Sanitize(data') = data' /\ data' \in Seq(Wide)
    BY <2>2, SanitizeIs, ItemsAreWide
  <2>4. Busy' = {}
    BY <2>1, <2>2 DEF Busy, AloneInv
  <2>5. apart' \in BOOLEAN
    BY <2>1
  <2>6. SyncTypeInv'
    BY <2>1, <2>3, <2>5 DEF SyncTypeInv
  <2>7. StoredInv'
    BY <2>1, <2>3 DEF StoredInv
  <2>8. up' => Sanitize(engine') = data'
    BY <2>1, <2>3
  <2>9. AloneInv'
    BY <2>4, <2>8 DEF AloneInv
  <2> QED
    BY <2>2, <2>6, <2>7, <2>9
<1>8. CASE UNCHANGED syncVars
  BY <1>8 DEF syncVars, storeVars, StoreInv, StoreTypeOK, FileInv, SyncTypeInv, StoredInv, AloneInv,
              Busy
<1> QED
  BY <1>1, <1>2, <1>3, <1>4, <1>5, <1>6, <1>7, <1>8 DEF Next

-----------------------------------------------------------------------------
(* The theorems.                                                             *)

THEOREM IInvHolds == Spec => []IInv
<1> QED
  BY InitIInv, StepIInv, PTL DEF Spec

\* The store's list, the file and every list a request carries have their types,
\* whatever the requests, the failures and the restarts (RuleStore and the
\* handlers that call it).
THEOREM TypeCorrect == Spec => []TypeOK
<1>1. IInv => TypeOK
  BY DEF IInv, SyncTypeInv, StoreInv, Wide, TypeOK
<1> QED
  BY <1>1, IInvHolds, PTL

\* What the engine evaluates is always a list the store has held, and the current
\* one whenever no request raced or failed since.
THEOREM EngineIsFromStore == Spec => []EngineFromStore
<1>1. IInv => EngineFromStore
  BY DEF IInv, StoredInv, AloneInv, EngineFromStore, EngineWasStored, EngineFollowsStore
<1> QED
  BY <1>1, IInvHolds, PTL

\* A restart brings back the list last written whole, or the defaults after an
\* empty or damaged one, and refuses to start only on a damaged one.
THEOREM RestartIsExact == Spec => RestartRestores
<1> DEFINE Restores ==
      /\ ~up /\ up' => data' = IF cut \/ saved = <<>> THEN Sanitize(Defaults) ELSE saved
      /\ failed' => cut'
<1>1. ASSUME IInv, IInv', [Next]_syncVars PROVE [Restores]_storeVars
  <2>1. failed' => cut'
    BY <1>1 DEF IInv, StoreInv, FileInv
  <2>2. CASE ~up /\ up'
    <3>1. PICK o \in Outcomes : Start(o)
      BY <1>1, <2>2 DEF Next, PostRules, PutRule, DeleteRule, Replace, Upsert, Delete, Store,
                        ReadStore, SetRules, CrashAll, Crash, StartAll, syncVars, storeVars
    <3>2. o \in WriteOutcomes
      BY DEF Outcomes, WriteOutcomes
    <3> QED
      BY <1>1, <2>1, <2>2, <3>1, <3>2, StartKeeps DEF IInv
  <2> QED
    BY <2>1, <2>2
<1> QED
  BY <1>1, IInvHolds, PTL DEF Spec, RestartRestores
===============================================================================
