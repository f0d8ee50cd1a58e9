---------------------------- MODULE SessionQueue ----------------------------
(***************************************************************************)
(* What the durable runtime promises about a session, without its journal,  *)
(* its process or its scheduler: the turns of a session are served one at a *)
(* time and in the order they were admitted, a turn being served is never   *)
(* overtaken, and a turn that was closed is reopened only while no later    *)
(* turn of its session has been served.                                     *)
(***************************************************************************)
EXTENDS Naturals, Sequences

CONSTANT Batches   \* what is admitted at once: sequences of sessions

VARIABLES
  turns,    \* turns in admission order: [session, open, served]
  serving   \* indexes of the turns being worked on

queueVars == <<turns, serving>>

Turns == 1..Len(turns)
Together(t, u) == turns[t].session = turns[u].session

QueueInit == turns = <<>> /\ serving = {}

NewTurn(s) == [session |-> s, open |-> TRUE, served |-> FALSE]

Admit ==
  /\ \E batch \in Batches : turns' = turns \o [i \in DOMAIN batch |-> NewTurn(batch[i])]
  /\ UNCHANGED serving

Serve(t) ==
  /\ turns[t].open
  /\ \A u \in serving : ~Together(t, u)
  /\ \A u \in 1..(t - 1) : Together(t, u) => ~turns[u].open
  /\ turns' = [turns EXCEPT ![t].served = TRUE]
  /\ serving' = serving \cup {t}

\* Work on a turn ends: for good, or until it is served again.
Yield(t) ==
  /\ t \in serving
  /\ \/ UNCHANGED turns
     \/ turns' = [turns EXCEPT ![t].open = FALSE]
  /\ serving' = serving \ {t}

\* Turns may be called off at any time; one being served stays so until it yields.
CallOff ==
  /\ \E S \in SUBSET Turns :
       turns' = [t \in Turns |-> IF t \in S THEN [turns[t] EXCEPT !.open = FALSE] ELSE turns[t]]
  /\ UNCHANGED serving

Reopen(t) ==
  /\ ~turns[t].open
  /\ t \notin serving
  /\ \A u \in (t + 1)..Len(turns) : Together(t, u) => ~turns[u].served
  /\ turns' = [turns EXCEPT ![t].open = TRUE]
  /\ UNCHANGED serving

\* The server dies: the turns it was working on stay open.
Outage == serving' = {} /\ UNCHANGED turns

QueueNext ==
  \/ Admit \/ CallOff
  \/ \E t \in Turns : Serve(t) \/ Yield(t) \/ Reopen(t)
  \/ Outage

QueueSpec == QueueInit /\ [][QueueNext]_queueVars

=============================================================================
