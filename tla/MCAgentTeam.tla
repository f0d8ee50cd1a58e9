----------------------------- MODULE MCAgentTeam -----------------------------
(* Small instances of AgentTeam for TLC.                                    *)
EXTENDS AgentTeam, TLC

CONSTANTS l, a, b

\* The members that are spawned: for runs without liveness.
Symmetry == Permutations({a, b})

=============================================================================
