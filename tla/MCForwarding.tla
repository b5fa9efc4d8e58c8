----------------------------- MODULE MCForwarding -----------------------------
(* The forwarding path on small instances.                                   *)
EXTENDS Forwarding, TLC

\* An operator turns forwarding on, turns it off, or clears the URL of a
\* forwarding that is on.
OnOffOrCleared == {[enabled |-> enabled, url |-> url] :
                      enabled \in BOOLEAN, url \in Urls \cup {NoUrl}}
                  \ {[enabled |-> FALSE, url |-> NoUrl]}

\* A record of earlier lives: something counted, and an event that is gone.
EarlierBooks == {[ok |-> 1, failed |-> 2, last |-> "earlier"]}

\* What no step of the path reads any more is left out: what a reset set out to
\* remove, which only ForwardQueue's own properties read, and the age of an event
\* that was refused or that has left the queue.
AgeMatters == {t \in Tasks : enq[t] # "refused" /\ fate[t] \in {"none", "taken"}}
View == <<tasks, enq, counters, ctxDone, old \cap AgeMatters, work, dpc, dn, history,
          pathVars, ipc, sendVars, updateVars>>

Symmetry == Permutations(Tasks) \cup Permutations(Workers) \cup Permutations(Updaters)
===============================================================================
