---------------------------- MODULE MCDurableRuns ----------------------------
(* Small instances of DurableRuns for TLC.                                  *)
EXTENDS DurableRunsQueue, TLC

CONSTANTS chain, pair

\* Sessions are interchangeable.  Request ids are too: they are only compared.
Symmetry == Permutations(Sessions) \cup Permutations(Requests)

\* A graph whose first node waits for its second, and one of independent nodes.
MCNeeds == [g \in Graphs |-> IF g = chain THEN <<{2}, {}>> ELSE <<{}, {}>>]

=============================================================================
