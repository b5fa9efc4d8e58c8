----------------------------- MODULE MCJSONLStore -----------------------------
(* The event file found empty, NUL-padded (as in TestJSONLStoreSkipsAnd-      *)
(* RepairsNullPaddedLines), or with a tail torn by an earlier crash.          *)
EXTENDS JSONLStore, TLC

CONSTANTS e0    \* an event of an earlier run

MCInitFiles ==
    { <<>>,
      <<Line(<<Nul>>, TRUE), Line(<<e0, Nul>>, TRUE)>>,
      <<Line(<<Nul, e0>>, TRUE), Line(<<Torn>>, FALSE)>> }

Symmetry == Permutations(Events \ {e0})
===============================================================================
