--------------------------- MODULE MCForwardQueue ---------------------------
(* The forward queue on small instances.                                     *)
EXTENDS ForwardQueue, TLC

Symmetry == Permutations(Tasks) \cup Permutations(Workers) \cup Permutations(Drainers)
=============================================================================
