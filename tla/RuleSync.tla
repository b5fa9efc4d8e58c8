------------------------------ MODULE RuleSync ------------------------------
(***************************************************************************)
(* The rule requests of the HTTP API (internal/api/handlers.go): each       *)
(* changes the rule store and then installs rules in the filter engine,     *)
(* under different locks.  POST installs the list it was sent; PUT and      *)
(* DELETE read the store again and install what they find.                  *)
(***************************************************************************)
EXTENDS ConfigStore, FiniteSets

CONSTANTS Requests,      \* the requests
          MaxBusy,       \* bound: how many of them are under way at a time
          WritesFail     \* whether a write of rules.json may fail or be cut off

ASSUME SyncAssumption == MaxBusy \in Nat /\ WritesFail \in BOOLEAN

VARIABLES engine,    \* Engine.rules
          rpc,       \* where each request stands
          install,   \* the list each request is about to install
          stored,    \* history: every list the store has held
          apart      \* history: a request overlapped another or failed to write, and
                     \* since then neither a request ran alone nor the process started

syncVars == <<storeVars, engine, rpc, install, stored, apart>>

Outcomes == IF WritesFail THEN WriteOutcomes ELSE {"ok"}

Init ==
    /\ StoreInit
    /\ engine = data /\ stored = {data} /\ apart = FALSE
    /\ rpc = [q \in Requests |-> "new"]
    /\ install = [q \in Requests |-> <<>>]

Busy == {q \in Requests : rpc[q] \in {"read", "install"}}
Arrives(q) == rpc[q] = "new" /\ Cardinality(Busy) < MaxBusy

\* What follows the store call: a failed write ends the request with a 500, a
\* crash ends every request under way.
After(q, next, outcome) ==
    /\ rpc' = CASE outcome = "ok"    -> [rpc EXCEPT ![q] = next]
                [] outcome = "error" -> [rpc EXCEPT ![q] = "done"]
                [] outcome = "crash" -> [p \in Requests |-> IF p = q \/ rpc[p] # "new"
                                                            THEN "done" ELSE "new"]
    /\ stored' = stored \cup {data'}
    /\ apart' = (Busy # {} \/ outcome = "error")
    /\ UNCHANGED engine

PostRules(q, body, outcome) ==
    /\ Arrives(q)
    /\ Replace(body, outcome)
    /\ install' = [install EXCEPT ![q] = body]
    /\ After(q, "install", outcome)

\* Mutant: PUT patches the engine's own list, and does not read the store again.
MutPutRule(q, x, outcome) ==
    /\ Arrives(q)
    /\ Upsert(x, outcome)
    /\ install' = [install EXCEPT ![q] = Sanitize(Upserted(engine, x))]
    /\ After(q, "install", outcome)

PutRule(q, x, outcome) ==
    /\ Arrives(q)
    /\ Upsert(x, outcome)
    /\ After(q, "read", outcome) /\ UNCHANGED install

\* Mutant: DELETE installs nothing in the engine.
MutDeleteRule(q, id, outcome) ==
    /\ Arrives(q)
    /\ Delete(id, outcome)
    /\ After(q, "done", outcome) /\ UNCHANGED install

DeleteRule(q, id, outcome) ==
    /\ Arrives(q)
    /\ Delete(id, outcome)
    /\ After(q, "read", outcome) /\ UNCHANGED install

\* ruleStore.All(), for the PUT and DELETE handlers.
ReadStore(q) ==
    /\ up /\ rpc[q] = "read"
    /\ install' = [install EXCEPT ![q] = data]
    /\ rpc' = [rpc EXCEPT ![q] = "install"]
    /\ UNCHANGED <<storeVars, engine, stored, apart>>

SetRules(q) ==
    /\ up /\ rpc[q] = "install"
    /\ engine' = install[q]
    /\ rpc' = [rpc EXCEPT ![q] = "done"]
    /\ UNCHANGED <<storeVars, install, stored, apart>>

CrashAll ==
    /\ Crash
    /\ rpc' = [q \in Requests |-> IF rpc[q] = "new" THEN "new" ELSE "done"]
    /\ UNCHANGED <<engine, install, stored, apart>>

\* main gives the new engine the loaded rules.
StartAll(outcome) ==
    /\ Start(outcome)
    /\ engine' = IF up' THEN data' ELSE engine
    /\ stored' = stored \cup {data'} /\ apart' = (apart /\ ~up')
    /\ UNCHANGED <<rpc, install>>

Next ==
    \/ \E q \in Requests :
          \/ \E o \in Outcomes :
                \/ \E b \in Bodies : PostRules(q, b, o)
                \/ \E id \in Ids, v \in Vals \cup {NoVal} : PutRule(q, [id |-> id, val |-> v], o)
                \/ \E id \in Ids : DeleteRule(q, id, o)
          \/ ReadStore(q) \/ SetRules(q)
    \/ CrashAll
    \/ \E o \in Outcomes : StartAll(o)

Spec == Init /\ [][Next]_syncVars

-----------------------------------------------------------------------------

TypeOK ==
    /\ StoreTypeOK
    /\ rpc \in [Requests -> {"new", "read", "install", "done"}] /\ apart \in BOOLEAN
    /\ \A list \in {engine} \cup {install[q] : q \in Requests} :
          list \in Seq([id : Ids \cup {NoId}, val : Vals \cup {NoVal}])

\* The engine evaluates a list the store has held at some time as a whole, up to
\* sanitizing: never a mix of two concurrent changes, and never a list that was
\* not stored (handlers.go 270-323).
EngineWasStored == Sanitize(engine) \in stored

\* With no request under way the engine's rules are the store's, up to
\* sanitizing, across PUTs, DELETEs, POSTs, crashes and restarts, as long as
\* the requests come one at a time and their writes succeed.
EngineFollowsStore == (up /\ Busy = {} /\ ~apart) => Sanitize(engine) = data

\* What the engine evaluates is always a list the operator saved, and the current
\* one whenever nothing raced or failed since.
EngineFromStore == EngineWasStored /\ EngineFollowsStore

\* README.md:40: the filter engine "evaluates configured rule matrix".  With no
\* request under way the engine's rules are the store's.
EngineMatchesStore == (up /\ Busy = {}) => engine = data
=============================================================================
