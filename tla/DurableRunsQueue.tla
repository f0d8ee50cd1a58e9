-------------------------- MODULE DurableRunsQueue --------------------------
(* DurableRuns implements SessionQueue: a run is a turn, open while it is    *)
(* unsettled, served once it has started; an attempt serves its run from the *)
(* transaction that marks it running until its last transaction.             *)
EXTENDS DurableRuns

RunTurn(r) == [session |-> runs[r].session,
               open    |-> Unsettled(runs, r),
               served  |-> runs[r].started]

RunTurns == [r \in Rows(runs) |-> RunTurn(r)]

\* A run is admitted by itself, the nodes of a graph together.
Admissions ==
  {<<s>> : s \in Sessions} \cup {[i \in DOMAIN Needs[g] |-> <<g, i>>] : g \in Graphs}

Queue == INSTANCE SessionQueue
           WITH Batches <- Admissions,
                turns <- RunTurns,
                serving <- {r \in Ids : attempt[r] = "executing"}

\* Every behaviour of the runtime, crashes and restarts included, is one the
\* session queue allows ("the runtime claims them in order", one unfinished
\* run per session at a time).
ImplementsSessionQueue == Queue!QueueSpec

=============================================================================
