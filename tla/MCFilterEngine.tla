---------------------------- MODULE MCFilterEngine ----------------------------
(* The rule engine with a rule under all three runtime controls before a     *)
(* catch-all, either of them in force, and events that share a source or a   *)
(* sample shape without being duplicates.                                    *)
EXTENDS FilterEngine, TLC

Event(s, shape, detail) == [source |-> s, shape |-> shape, detail |-> detail]

MCEvents == {Event("plc", "read", "a"), Event("plc", "read", "b")}

Rule(id, on, match, action, limit, window, percent) ==
    [id |-> id, enabled |-> on, match |-> match, action |-> action, limit |-> limit,
     window |-> window, sampleRate |-> percent, store |-> TRUE, forward |-> FALSE]

Noise(on) == Rule("noise", on, MCEvents, "sample", 2, 1, 50)
CatchAll  == Rule("all", TRUE, MCEvents, "store_and_forward", 0, 1, 100)

MCRuleSets == {<<Noise(TRUE), CatchAll>>, <<Noise(FALSE), CatchAll>>}

Symmetry == Permutations(Callers)
===============================================================================
