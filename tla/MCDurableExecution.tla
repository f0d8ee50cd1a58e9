------------------------- MODULE MCDurableExecution -------------------------
(* Small instances of DurableExecution for TLC.                             *)
EXTENDS DurableExecution, TLC

CONSTANTS pay, look

\* pay must not be repeated; look may.
MCRecovery == [c \in {pay, look} |-> IF c = pay THEN "manual" ELSE "safe"]

\* Four agents: one works on both calls in parallel, three call their tools one by one and
\* wait for an approval of the second call, of the first, or of each in turn.
MCApprovals == SUBSET {pay, look}

\* The model calls both tools, or gives its final answer.
MCAnswers == {<<>>, <<look, pay>>}

=============================================================================
