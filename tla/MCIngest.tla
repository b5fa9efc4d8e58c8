------------------------------ MODULE MCIngest ------------------------------
(* The ingest pipeline with the decisions that lead to different calls.      *)
EXTENDS Ingest

Decide(store, forward, drop, show) ==
    [store |-> store, forward |-> forward, drop |-> drop, show |-> show, sampled |-> FALSE]

MCDecisions ==
    { Decide(TRUE, TRUE, FALSE, TRUE),      \* store_and_forward
      Decide(FALSE, TRUE, FALSE, TRUE),     \* forward_only
      Decide(TRUE, FALSE, TRUE, TRUE),      \* drop, by a rule that stores locally
      [Decide(FALSE, FALSE, TRUE, FALSE) EXCEPT !.sampled = TRUE],
      [Decide(TRUE, FALSE, FALSE, TRUE) EXCEPT !.sampled = TRUE] }
=============================================================================
