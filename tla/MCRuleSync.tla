------------------------------ MODULE MCRuleSync ------------------------------
(* Rule requests against a store that starts with the default rules.         *)
EXTENDS RuleSync, TLC

CONSTANTS r1, r2, v, w

Item(id, val) == [id |-> id, val |-> val]

MCDefaults     == <<Item(r1, v)>>
MCCleanBodies  == { <<>>, <<Item(r2, w), Item(r1, w)>> }
MCBodies       == { <<>>, <<Item(NoId, w), Item(r2, NoVal), Item(r1, w)>> }

Symmetry == Permutations(Requests)
===============================================================================
