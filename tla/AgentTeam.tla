------------------------------- MODULE AgentTeam -------------------------------
(* A run of an agent team (core/src/internal/team-runtime): a leader and    *)
(* the members it and they spawn share a number of permits and a budget of  *)
(* turns, send each other messages, wait for each other, and are cancelled  *)
(* by their parents, until the leader has answered and nobody is busy.      *)
(* A member is an asynchronous task; one step here is what it does between  *)
(* two points where it waits.  A wait for changes is a guard: whatever      *)
(* makes it true is followed by notify(), and no callback runs between the  *)
(* check and the wait.                                                      *)
EXTENDS Naturals, Sequences, FiniteSets, SequencesExt, Selection

CONSTANTS
  Members,        \* instances; maxAgentInstances is their number
  Leader,
  Siblings,       \* communication.siblings
  MaxDepth,       \* limits.maxDepth
  MaxConcurrent,  \* limits.maxConcurrentAgents
  MaxTotalTurns,  \* limits.maxTotalTurns
  MaxPending,     \* the pending messages of an instance: 128 in the code
  MaxSteers       \* bound: messages of the host

ASSUME AgentTeamAssumption ==
  /\ IsFiniteSet(Members) /\ Leader \in Members /\ "none" \notin Members
  /\ {MaxDepth, MaxTotalTurns, MaxSteers} \subseteq Nat
  /\ {MaxConcurrent, MaxPending} \subseteq Nat \ {0}
  /\ Siblings \in BOOLEAN

VARIABLES
  members,  \* the instances
  queue,    \* tickets of TeamSlots, in order
  team,     \* "open", "aborted" by fail(), "closed" by execute(), "settled"
  turns,    \* turns taken
  steers    \* messages of the host

vars == <<members, queue, team, turns, steers>>

\* Where a member's task is.  "none": it has none.  The "re" phases wait for a permit again;
\* in the last two the run is over and the task that awaits it has not gone on.
Resumption == [waiting |-> "rewaiting", children |-> "rechildren", asking |-> "reasking"]
Yielded == DOMAIN Resumption
Returned == [returned |-> "response", refused |-> "blocked"]
Phases ==
  {"none", "launched", "acquiring", "turn", "leaving"}
    \cup Yielded \cup Range(Resumption) \cup DOMAIN Returned

\* Where a member has an agent run that can be steered.
Steerable == {"turn", "waiting", "children", "rewaiting", "rechildren"}

Busy == {"queued", "running", "waiting", "awaiting_interaction"}
Stopped == {"failed", "cancelled"}

\* inputs: what was sent and has not been delivered; a message is numbered by its recipient,
\* who gives the numbers of those it drops to others.
\* steering: the messages in the queue of the agent run.  sent: how many messages there were.
\* heard: those that have entered the conversation of the member (history variable).
NewMember(parent, depth) ==
  [status |-> "queued", parent |-> parent, depth |-> depth, phase |-> "none",
   inputs |-> <<[id |-> 1, submitted |-> FALSE]>>, steering |-> <<>>, sent |-> 1, heard |-> <<>>,
   aborted |-> FALSE, outcome |-> "none", permit |-> FALSE]

Unused == [NewMember("none", 0) EXCEPT !.status = "none", !.inputs = <<>>]

Active == {m \in Members : members[m].permit}
In(m, phase) == members[m].phase = phase

-----------------------------------------------------------------------------
(* The operations on members: functions of the instances M.                 *)

Children(M, m) == {c \in Members : M[c].parent = m}

Descendants(M, m) ==
  LET within[n \in 0..MaxDepth] ==
        IF n = 0 THEN {m} ELSE within[n - 1] \cup UNION {Children(M, p) : p \in within[n - 1]}
  IN  within[MaxDepth] \ {m}

childrenBusy(M, children) == \E c \in children : M[c].status \in Busy \/ M[c].inputs # <<>>

canAccess(m, r) ==
  \/ members[m].parent = r
  \/ members[r].parent = m
  \/ Siblings /\ m # Leader /\ r # m /\ members[r].parent = members[m].parent

launch(M, m) ==
  IF M[m].phase # "none" \/ team \in {"closed", "settled"} \/ M[m].aborted THEN M
  ELSE [M EXCEPT ![m].status = "queued", ![m].phase = "launched"]

Pending(M, m) ==
  Selected(M[m].inputs, {i \in DOMAIN M[m].inputs : ~M[m].inputs[i].submitted})
Ids(inputs) == [i \in DOMAIN inputs |-> inputs[i].id]
Submitted(inputs) == [i \in DOMAIN inputs |-> [inputs[i] EXCEPT !.submitted = TRUE]]

\* A run that is closing or cancelled rejects steering: the inputs stay.
submitInputs(M, m) ==
  IF M[m].phase \notin Steerable \/ M[m].aborted THEN M
  ELSE [M EXCEPT ![m].steering = @ \o Ids(Pending(M, m)), ![m].inputs = Submitted(@)]

\* Mutant of Full: one message too many.
FullLater(M, m) == Len(M[m].inputs) > MaxPending

Full(M, m) == Len(M[m].inputs) >= MaxPending

enqueue(M, m) ==
  LET id == M[m].sent + 1
      pushed == [M EXCEPT ![m].inputs = Append(@, [id |-> id, submitted |-> FALSE]),
                          ![m].sent = id]
  IN  launch(submitInputs(pushed, m), m)

delivered(M, m, ids) ==
  [M EXCEPT ![m].inputs = Selected(@, {i \in DOMAIN @ : @[i].id \notin ids})]

\* The run takes what it was steered with into its conversation.
drainSteering(M, m) ==
  [delivered(M, m, Range(M[m].steering)) EXCEPT ![m].heard = @ \o M[m].steering,
                                                ![m].steering = <<>>]

Reported(M, m) == m # Leader /\ M[M[m].parent].status \notin Stopped
reportOutcome(M, m) == IF Reported(M, m) THEN enqueue(M, M[m].parent) ELSE M
ReportFails(M, m) == Reported(M, m) /\ Full(M, M[m].parent)

stopMember(member) ==
  IF member.status = "cancelled" THEN member
  ELSE [member EXCEPT !.status = "cancelled", !.inputs = <<>>, !.aborted = TRUE]

Stop(M, stopped) == [m \in Members |-> IF m \in stopped THEN stopMember(M[m]) ELSE M[m]]

\* Mutant of stopDescendants: as stopMembers(), it spares who is idle.
stopBusyDescendants(M, m) == Stop(M, {d \in Descendants(M, m) : M[d].status \in Busy})

stopDescendants(M, m) == Stop(M, Descendants(M, m))
stopMembers(M) == Stop(M, {m \in Members : M[m].status \in Busy})

-----------------------------------------------------------------------------
(* How a task ends; tickets is the queue.                                   *)

\* The inbox is emptied and the agent run forgotten.
drop(M, m) ==
  [M EXCEPT ![m].inputs = <<>>, ![m].steering = <<>>, ![m].sent = Len(M[m].heard)]

Put(M, tickets) == members' = M /\ queue' = tickets /\ UNCHANGED team

fail(M, tickets) ==
  /\ members' = stopMembers(M)
  /\ queue' = tickets
  /\ team' = IF team = "open" THEN "aborted" ELSE team

\* The catch of launch().
Catch(M, m, tickets) ==
  LET status == IF M[m].aborted THEN "cancelled" ELSE "failed"
      ended == stopDescendants([drop(M, m) EXCEPT ![m].status = status,
                                                  ![m].phase = "leaving"], m)
      others == Selected(tickets, {i \in DOMAIN tickets : tickets[i] # m})
  IN  IF team # "open" THEN Put(ended, others)
      ELSE IF ReportFails(ended, m) THEN fail(ended, others)
      ELSE Put(reportOutcome(ended, m), others)

\* The outcome of the agent run, in runMember().
Finish(M, m, outcome, tickets) ==
  LET idle == [M EXCEPT ![m].outcome = outcome, ![m].status = "idle", ![m].phase = "leaving"]
      ended == IF outcome = "response" THEN idle
               ELSE stopDescendants([drop(idle, m) EXCEPT ![m].status = "failed"], m)
  IN  IF ReportFails(ended, m) THEN Catch(ended, m, tickets)
      ELSE Put(reportOutcome(ended, m), tickets)

\* The run has its last answer: the closing drain.  What it finds makes another turn.
Close(M, m, tickets) ==
  IF M[m].steering # <<>> THEN Put([drainSteering(M, m) EXCEPT ![m].phase = "turn"], tickets)
  ELSE Put([M EXCEPT ![m].phase = "returned"], tickets)

\* An abort reaches the task wherever it waits, the end of its run included.
Aborted(m) ==
  /\ members[m].aborted
  /\ members[m].phase \notin {"none", "leaving"}
  /\ Catch(members, m, queue)
  /\ UNCHANGED <<turns, steers>>

\* runMember() goes on after its run.  abortable() has removed its listener: an abort since then
\* is not noticed.
Return(m) ==
  /\ members[m].phase \in DOMAIN Returned
  /\ Finish(members, m, Returned[members[m].phase], queue)
  /\ UNCHANGED <<turns, steers>>

\* The finally of launch().
Leave(m) ==
  /\ In(m, "leaving")
  /\ LET left == [members EXCEPT ![m].permit = FALSE, ![m].phase = "none"] IN
       Put(IF left[m].status = "idle" /\ left[m].inputs # <<>> THEN launch(left, m) ELSE left,
           queue)
  /\ UNCHANGED <<turns, steers>>

-----------------------------------------------------------------------------
(* Permits.                                                                 *)

Enter(m) ==
  /\ In(m, "launched") /\ ~members[m].aborted
  /\ Put([members EXCEPT ![m].phase = "acquiring"], Append(queue, m))
  /\ UNCHANGED <<turns, steers>>

\* Mutant of Available: who has had a permit gets it back at once.
AvailableToHolders(m) ==
  /\ ~members[m].aborted
  /\ queue # <<>> /\ Head(queue) = m
  /\ Cardinality(Active) < MaxConcurrent \/ members[m].phase \in Range(Resumption)

\* acquire() lets the first ticket go.
Available(m) ==
  /\ ~members[m].aborted
  /\ queue # <<>> /\ Head(queue) = m
  /\ Cardinality(Active) < MaxConcurrent

Acquired(m) == [members EXCEPT ![m].permit = TRUE, ![m].status = "running", ![m].phase = "turn"]

\* Mutant of Begin: what the run starts with is not marked as submitted.
BeginUnmarked(m) ==
  /\ In(m, "acquiring") /\ Available(m)
  /\ Pending(members, m) # <<>>
  /\ Put([Acquired(m) EXCEPT ![m].heard = @ \o Ids(Pending(members, m))], Tail(queue))
  /\ UNCHANGED <<turns, steers>>

\* A run of the agent starts with what is in the inbox.
Begin(m) ==
  /\ In(m, "acquiring") /\ Available(m)
  /\ Pending(members, m) # <<>>
  /\ Put([Acquired(m) EXCEPT ![m].heard = @ \o Ids(Pending(members, m)),
                             ![m].inputs = Submitted(@)], Tail(queue))
  /\ UNCHANGED <<turns, steers>>

\* Mutant of yieldSlot: the permit is kept.
keepSlot(M, m, phase) ==
  [M EXCEPT ![m].phase = phase,
            ![m].status = IF phase = "asking" THEN "awaiting_interaction" ELSE "waiting"]

yieldSlot(M, m, phase) ==
  [M EXCEPT ![m].permit = FALSE, ![m].phase = phase,
            ![m].status = IF phase = "asking" THEN "awaiting_interaction" ELSE "waiting"]

\* The work of yieldSlot() is over: a message, an outcome or the timeout ends a wait; no child
\* is busy, or there is a message; the host has answered.
WorkOver(m) ==
  In(m, "children") =>
    ~childrenBusy(members, Children(members, m)) \/ members[m].inputs # <<>>

Reacquire(m) ==
  /\ members[m].phase \in Yielded /\ ~members[m].aborted
  /\ WorkOver(m)
  /\ Put([members EXCEPT ![m].phase = Resumption[@]], Append(queue, m))
  /\ UNCHANGED <<turns, steers>>

\* With its permit back a run closes, a tool returns, or the next segment of a run starts.
\* The tools behind an answered interaction do not ask again.
Resume(m) ==
  /\ members[m].phase \in Range(Resumption) /\ Available(m)
  /\ IF In(m, "rechildren") THEN Close(Acquired(m), m, Tail(queue))
     ELSE Put(drainSteering(submitInputs(Acquired(m), m), m), Tail(queue))
  /\ UNCHANGED <<turns, steers>>

\* resolveInteraction() throws, or its answer does not fit.
ResolverFails(m) ==
  /\ In(m, "asking") /\ ~members[m].aborted
  /\ fail(members, queue)
  /\ UNCHANGED <<turns, steers>>

-----------------------------------------------------------------------------
(* A turn: the model is called and has the inputs the run started with, and *)
(* what it answers is done.  After a tool the steered inputs are heard.     *)

Working(m) == In(m, "turn") /\ ~members[m].aborted /\ team = "open"

Takes(m) == Working(m) /\ turns < MaxTotalTurns /\ turns' = turns + 1 /\ UNCHANGED steers

\* onCompletionCall(): the inputs the run started with are delivered.
Called(m) == delivered(members, m, Range(members[m].heard))

UseTool(M, m) == Put(drainSteering(M, m), queue)

\* A tool outside the team.
otherTool(m) == Takes(m) /\ UseTool(Called(m), m)

spawn(m, c) ==
  /\ Takes(m)
  /\ members[m].depth < MaxDepth
  /\ members[c].status = "none"
  /\ UseTool(launch([Called(m) EXCEPT ![c] = NewMember(m, members[m].depth + 1)], c), m)

send(m, r) ==
  /\ Takes(m)
  /\ canAccess(m, r)
  /\ members[r].status \notin Stopped
  /\ UseTool(IF Full(members, r) THEN Called(m) ELSE enqueue(Called(m), r), m)

\* The child reports here only if its task does not.
cancelMember(m, c) ==
  /\ Takes(m)
  /\ members[c].parent = m
  /\ members[c].status # "cancelled"
  /\ LET stopped == [Called(m) EXCEPT ![c] = stopMember(@)]
         M == stopDescendants(stopped, c)
     IN  UseTool(IF M[c].phase = "none" /\ ~ReportFails(M, c) THEN reportOutcome(M, c) ELSE M, m)

wait(m) == Takes(m) /\ Put(yieldSlot(Called(m), m, "waiting"), queue)

\* The run suspends for a person; what it was steered with goes to its next segment.
suspend(m) == Takes(m) /\ Put(yieldSlot(Called(m), m, "asking"), queue)

\* The last answer, after which waitForChildren().
answer(m) ==
  /\ Takes(m)
  /\ LET M == Called(m) IN
       IF childrenBusy(M, Children(M, m)) /\ M[m].inputs = <<>>
         THEN Put(yieldSlot(M, m, "children"), queue)
         ELSE Close(M, m, queue)

\* A guardrail blocks the run.
blocked(m) == Takes(m) /\ Put([Called(m) EXCEPT ![m].phase = "refused"], queue)

throws(m) == Takes(m) /\ Catch(Called(m), m, queue)

LimitReached(m) ==
  /\ Working(m) /\ turns = MaxTotalTurns
  /\ fail(members, queue)
  /\ UNCHANGED <<turns, steers>>

Turn(m) ==
  \/ otherTool(m) \/ wait(m) \/ suspend(m) \/ answer(m) \/ blocked(m) \/ throws(m)
  \/ \E o \in Members : spawn(m, o) \/ send(m, o) \/ cancelMember(m, o)

-----------------------------------------------------------------------------
(* execute(), and the host.                                                 *)

LeaderFailed == members[Leader].status = "failed" /\ members[Leader].outcome # "blocked"

LeaderAnswered ==
  LET leader == members[Leader] IN
  \/ leader.outcome = "blocked"
  \/ /\ leader.outcome = "response"
     /\ leader.status = "idle" /\ leader.phase = "none" /\ leader.inputs = <<>>
     /\ ~childrenBusy(members, Members \ {Leader})

Closable == team = "aborted" \/ (team = "open" /\ (LeaderFailed \/ LeaderAnswered))

CloseTeam ==
  /\ Closable
  /\ team' = "closed"
  /\ members' = stopMembers(members)
  /\ UNCHANGED <<queue, turns, steers>>

\* settleMembers().
Settle ==
  /\ team = "closed"
  /\ \A m \in Members : In(m, "none")
  /\ team' = "settled"
  /\ UNCHANGED <<members, queue, turns, steers>>

\* The host may call before execute() has looked, and so revive a leader that failed.
steer ==
  /\ team = "open"
  /\ steers < MaxSteers /\ steers' = steers + 1
  /\ ~Full(members, Leader)
  /\ Put(enqueue(members, Leader), queue)
  /\ UNCHANGED turns

cancel ==
  /\ team = "open"
  /\ fail(members, queue)
  /\ UNCHANGED <<turns, steers>>

-----------------------------------------------------------------------------
Init ==
  /\ members = [m \in Members |-> IF m = Leader
                   THEN [NewMember("none", 0) EXCEPT !.phase = "launched"] ELSE Unused]
  /\ queue = <<>>
  /\ team = "open"
  /\ turns = 0 /\ steers = 0

Step(m) ==
  \/ Enter(m) \/ Begin(m) \/ Turn(m) \/ LimitReached(m)
  \/ Reacquire(m) \/ Resume(m) \/ ResolverFails(m)
  \/ Aborted(m) \/ Return(m) \/ Leave(m)

Execute == CloseTeam \/ Settle

Next == (\E m \in Members : Step(m)) \/ Execute \/ steer \/ cancel

Spec == Init /\ [][Next]_vars

\* Models, tools and the host answer, and timers fire: while somebody can go on, somebody does.
\* Nobody has to steer or to cancel, and no member is favoured.
Fairness == WF_vars((\E m \in Members : Step(m)) \/ Execute)

FairSpec == Spec /\ Fairness

-----------------------------------------------------------------------------
(* Properties.                                                              *)

TypeOK ==
  /\ \A m \in Members :
       /\ members[m].phase \in Phases
       /\ members[m].status \in Busy \cup Stopped \cup {"none", "idle"}
       /\ Len(members[m].inputs) <= MaxPending
       /\ members[m].permit => members[m].phase \in {"turn", "leaving"} \cup DOMAIN Returned
  /\ team \in {"open", "aborted", "closed", "settled"}

\* No more agents work at the same time than the limit says, however often they have given
\* their permit back to wait and taken it again.
AtWorkWithinLimit == Cardinality({m \in Members : In(m, "turn")}) <= MaxConcurrent

\* A member hears every message that was sent to it, once and in the order they were sent,
\* whether it was idle, at work, waiting, or suspended for a person when they came, but for
\* those it had not heard when it failed; and a task is never started for an inbox that holds
\* nothing new ("Agent team member has no input").
HeardInOrder ==
  \A m \in Members :
     LET known == members[m] IN
     /\ \A i \in DOMAIN known.heard : known.heard[i] = i
     /\ known.phase \in {"launched", "acquiring"} /\ ~known.aborted => Pending(members, m) # <<>>
     /\ known.inputs # <<>> => Last(known.inputs).id = known.sent

\* Whoever is below a member that failed or was cancelled is stopped with it and cannot be
\* revived, although the stopped members may be anywhere in their work, at the end of a run
\* included, and although another member or the host may cancel or message any of them again:
\* a stopped member takes no further turn.
Halted(member) == member.aborted \/ member.status = "failed"
OrphansStopped ==
  team = "open" =>
    \A m \in Members \ {Leader} :
       members[m].status # "none" /\ Halted(members[members[m].parent])
         => Halted(members[m]) /\ (members[m].aborted \/ members[m].phase \in {"leaving", "none"})

\* Nobody waits for a permit, a message or a member for ever: the team ends, unless a member
\* that was cancelled at the very end of its run, and counts as idle, has been sent a message:
\* it is never launched for it, and the team waits for it until the host cancels.
Stranded(m) == members[m].aborted /\ members[m].status = "idle" /\ members[m].inputs # <<>>
TeamSettles == <>(team = "settled") \/ <>[](\E m \in Members : Stranded(m))

=============================================================================
