-------------------------------- MODULE Lists --------------------------------
(***************************************************************************)
(* The loops of the program that copy some of a list's items.               *)
(***************************************************************************)
EXTENDS Integers, Sequences

\* The items of s that are in S, in their order: SelectSeq with a set for its
\* test, as a recursive function, which the theorems of ListTheorems are about.
Only(s, S) ==
    LET kept[n \in 0 .. Len(s)] ==
            IF n = 0 THEN <<>>
            ELSE IF s[n] \in S THEN Append(kept[n - 1], s[n]) ELSE kept[n - 1]
    IN  kept[Len(s)]
===============================================================================
