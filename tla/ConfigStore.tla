----------------------------- MODULE ConfigStore -----------------------------
(***************************************************************************)
(* The stores behind sources.json and rules.json: a list kept in memory     *)
(* under a lock and written whole to its file by os.WriteFile, which        *)
(* truncates the file before it writes.  internal/config/rules_config.go    *)
(* and sources_config.go are the same code over two types; an item is its   *)
(* id and one value standing for the fields that sanitizing fills in.       *)
(***************************************************************************)
EXTENDS Integers, Sequences, Lists

CONSTANTS Ids, NoId,       \* NoId is the empty id
          Vals, NoVal,     \* NoVal is a field left empty, or a zero rate
          DefaultVal,      \* what sanitizing makes of NoVal
          Defaults,        \* defaultRules() or defaultSources()
          Bodies,          \* the lists that POST requests carry
          Missing, Empty, Partial   \* the file absent, of length 0, or cut short

Items == [id : Ids, val : Vals]

ASSUME ConfigAssumption ==
    /\ NoId \notin Ids /\ NoVal \notin Vals /\ DefaultVal \in Vals
    /\ Defaults \in Seq(Items) /\ Defaults # <<>>
    /\ \A b \in Bodies : b \in Seq([id : Ids \cup {NoId}, val : Vals \cup {NoVal}])
    /\ \A file \in {Missing, Empty, Partial} : file \notin Seq(Items)

VARIABLES data,    \* the store's list
          disk,    \* the file: Missing, Empty, Partial or the list in it
          up,      \* the process is running
          failed,  \* it refused to start: the file does not decode
          saved,   \* history: the list last written whole
          cut      \* history: a later write has damaged the file

storeVars == <<data, disk, up, failed, saved, cut>>

\* The loops that copy a list, but for the items of one id.
Without(list, id) == Only(list, [id : (Ids \cup {NoId}) \ {id}, val : Vals \cup {NoVal}])

SanitizeItem(x) == [x EXCEPT !.val = IF @ = NoVal THEN DefaultVal ELSE @]
Sanitize(list) ==
    LET named == Without(list, NoId)
    IN  [i \in DOMAIN named |-> SanitizeItem(named[i])]

HasId(list, id) == \E i \in DOMAIN list : list[i].id = id

\* The first item with the id is replaced, or the item is appended.
Upserted(list, x) ==
    IF HasId(list, x.id)
    THEN [i \in DOMAIN list |->
             IF list[i].id = x.id /\ \A j \in 1 .. i - 1 : list[j].id # x.id THEN x ELSE list[i]]
    ELSE Append(list, x)

Deleted(list, id) == Without(list, id)

\* NewRuleStore on a file it can decode (an absent or empty one included).
Loaded(file) ==
    IF file \in {Missing, Empty} \/ file = <<>> THEN Sanitize(Defaults) ELSE Sanitize(file)

StoreInit ==
    /\ data = Loaded(Missing) /\ disk = data /\ saved = data
    /\ up = TRUE /\ failed = FALSE /\ cut = FALSE

-----------------------------------------------------------------------------

WriteOutcomes == {"ok", "error", "crash"}

\* os.WriteFile truncates the file and writes it: an error, or a crash, may
\* come before the truncation, after it, or in the write.
Persist(list, outcome) ==
    IF outcome = "ok"
    THEN disk' = list /\ saved' = list /\ cut' = FALSE
    ELSE /\ disk' \in {disk, Empty, Partial}
         /\ cut' = (cut \/ disk' # disk)
         /\ UNCHANGED saved

\* A change: the list in memory first, then the file, whatever becomes of that.
Store(list, outcome) ==
    /\ up /\ up' = (outcome # "crash")
    /\ data' = list
    /\ Persist(list, outcome)
    /\ UNCHANGED failed

Replace(body, outcome)  == Store(Sanitize(body), outcome)

\* Mutant: the list is not sanitized again after an upsert.
MutUpsert(x, outcome) == Store(Upserted(data, x), outcome)

Upsert(x, outcome)      == Store(Sanitize(Upserted(data, x)), outcome)

\* Mutant: the list in memory changes, and nothing is written.
MutDelete(id, outcome) ==
    /\ up /\ up' = (outcome # "crash")
    /\ data' = Deleted(data, id) /\ saved' = data' /\ cut' = FALSE
    /\ UNCHANGED <<disk, failed>>

Delete(id, outcome)     == Store(Deleted(data, id), outcome)

Crash == up /\ up' = FALSE /\ UNCHANGED <<data, disk, failed, saved, cut>>

\* loadOrInit, which writes back what it loaded; on an error main returns, for
\* good if the file does not decode.
Start(outcome) ==
    /\ ~up /\ ~failed
    /\ IF disk = Partial
       THEN failed' = TRUE /\ UNCHANGED <<data, disk, up, saved, cut>>
       ELSE /\ data' = Loaded(disk)
            /\ Persist(data', outcome)
            /\ up' = (outcome = "ok") /\ UNCHANGED failed

StoreNext ==
    \/ \E o \in WriteOutcomes :
          \/ \E b \in Bodies : Replace(b, o)
          \/ \E id \in Ids, v \in Vals \cup {NoVal} : Upsert([id |-> id, val |-> v], o)
          \/ \E id \in Ids : Delete(id, o)
          \/ Start(o)
    \/ Crash

StoreSpec == StoreInit /\ [][StoreNext]_storeVars

-----------------------------------------------------------------------------

\* Every list a reader of the store can see is sanitized.
StoreTypeOK ==
    /\ data \in Seq(Items) /\ saved \in Seq(Items)
    /\ disk \in Seq(Items) \cup {Missing, Empty, Partial}
    /\ {up, failed, cut} \subseteq BOOLEAN

\* A restart brings back the list last written whole, never an older one and
\* never part of one.  It brings back the defaults instead when that list was
\* empty or when a later write was cut short; the process refuses to start
\* only in that last case (loadOrInit 93-118).
RestartRestores ==
    [][/\ ~up /\ up' => data' = IF cut \/ saved = <<>> THEN Sanitize(Defaults) ELSE saved
       /\ failed' => cut']_storeVars
=============================================================================
