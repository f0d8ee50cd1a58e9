-------------------------- MODULE DurableExecution --------------------------
(***************************************************************************)
(* One durable run at work: the agent loop of @anvia/core                   *)
(* (internal/agent-runtime/agent-run.ts, tool-execution.ts) over the        *)
(* checkpoints of packages/durable/src/execution.ts and steering.ts.        *)
(*                                                                          *)
(* The journal (run, ops, inbox, checkpoints, saved) survives a crash; the *)
(* loop of the current attempt does not.  A new attempt runs the loop from  *)
(* the start and meets the operations the journal already holds.            *)
(*                                                                          *)
(* Abstractions: a transcript is a sequence of items; a model answer is the *)
(* sequence of tool calls it makes, <<>> being the final answer; a tool     *)
(* result is the number of the execution that produced it, so that two      *)
(* executions never give the same one.  Hooks, middlewares, guardrails,     *)
(* context preparation and recorded memory are left out.  The error path of *)
(* an attempt is one step: nothing it awaits touches the journal.           *)
(***************************************************************************)
EXTENDS Integers, Sequences, FiniteSets

CONSTANTS
  Calls,            \* tool-call ids
  Recovery,         \* toolRecovery of the called tools: "manual", "idempotent" or "safe"
  ApprovalSets,     \* the calls that may require an approval: one set for each agent
  Answers,          \* the answers the model may give: sequences of distinct calls
  Inputs,           \* steering requests, by request id
  ToolConcurrency,  \* options.toolConcurrency
  MaxModelTurns,    \* defaultMaxTurns + 1
  MaxAttempts,      \* modelRetry.maxAttempts
  MaxRestarts,      \* bound: crashes and shut-downs
  MaxRetries,       \* bound: retry() and resolveTool() calls
  MaxResponses      \* bound: answered approvals (the epochs of the run)

Distinct(s) == \A i, j \in DOMAIN s : s[i] = s[j] => i = j

ASSUME ExecutionAssumption ==
  /\ {"model", "none"} \cap Calls = {}   \* keys of models and tools differ
  /\ Recovery \in [Calls -> {"manual", "idempotent", "safe"}]
  /\ ApprovalSets \subseteq SUBSET Calls
  /\ Answers \subseteq Seq(Calls)
  /\ \A a \in Answers : Distinct(a)      \* a provider gives each call an id of its own
  /\ ToolConcurrency \in Nat \ {0}
  /\ MaxModelTurns \in Nat \ {0}
  /\ MaxAttempts \in Nat \ {0}
  /\ MaxRestarts \in Nat
  /\ MaxRetries \in Nat
  /\ MaxResponses \in Nat

VARIABLES
  run,         \* journal: [status, epoch, turns, blocked, retries], and its agent's
               \* approvals: the calls of tools that require one, which never change
  ops,         \* journal: the operations table
  inbox,       \* journal: steering.pending and steering.closed
  checkpoints, \* journal: steering.checkpoints, by epoch and boundary
  saved,       \* journal: the outcome: the transcript so far and what a later segment resumes with
  loop,        \* process memory: the agent loop of the attempt
  up,          \* is the runtime open?
  restarts,    \* bound
  executed,    \* the outside world: how often each tool call was carried out
  asked,       \* the outside world: how often each model turn was sent
  allowed,     \* the outside world: the tool calls a person approved
  accepted     \* the outside world: the steering requests whose callers were told "accepted"

vars == <<run, ops, inbox, checkpoints, saved, loop, up, restarts, executed, asked, allowed,
          accepted>>
journal == <<run, ops, inbox, checkpoints, saved>>
world == <<executed, asked, allowed, accepted>>

-----------------------------------------------------------------------------
Epochs == 0..MaxResponses
Turns  == 0..MaxModelTurns

\* Operation keys `${epoch}:model:${turn}` and `${epoch}:tool:${turn}:${call}`;
\* turn 0 is the "resume" phase.
ModelKey(e, t)   == <<e, t, "model">>
ToolKey(e, t, c) == <<e, t, c>>
ModelKeys == Epochs \X (Turns \ {0}) \X {"model"}
ToolKeys  == Epochs \X Turns \X Calls
Keys      == ModelKeys \cup ToolKeys
NoKey     == <<0, 0, "none">>

\* Items of a transcript.  Result 0 is a denial, -1 a result given by an operator.
Said(a)      == <<"model", a, 0>>
Result(c, v) == <<"tool", c, v>>
Heard(m)     == <<"steer", m, 0>>
Values == Nat \cup {-1}
Items == ({"model"} \X Answers \X {0}) \cup ({"tool"} \X Calls \X Values)
           \cup ({"steer"} \X Inputs \X {0})

NoOp == [status |-> "none", attempts |-> 0, input |-> <<>>, answer |-> <<>>, value |-> 0]
Op == [status: {"none", "started", "completed"}, attempts: Nat,
       input: Seq(Items), answer: Answers \cup {<<>>}, value: Values]

Settled  == {"completed", "failed", "cancelled"}
Runnable == {"queued", "pending", "running", "retry_wait"}
Statuses == Settled \cup Runnable \cup {"waiting", "needs_attention"}

\* What is kept while a person decides, and where the next segment resumes: the
\* pending call, the calls of the same answer after it, and the answer they belong to.
Saved == [heard: Seq(Items), pending: Seq(Calls), approved: BOOLEAN,
           rest: Seq(Calls), origin: Epochs \X Turns]
Fresh == [heard |-> <<>>, pending |-> <<>>, approved |-> FALSE, rest |-> <<>>, origin |-> <<0, 0>>]

Phases == {"none", "drain", "closing", "model", "begin", "asking", "tools", "finish"}
Loop == [phase: Phases, aborted: BOOLEAN, turn: Turns, boundary: Nat, heard: Seq(Items),
         batch: Seq(Calls),      \* the calls being executed, in order
         todo: Seq(Calls),       \* those no worker has picked up
         begun: SUBSET Calls,    \* in flight, not yet carried out
         carried: SUBSET Calls,  \* in flight, carried out
         granted: SUBSET Calls,  \* approved by a person
         failure: ToolKeys \cup {NoKey},
         origin: Epochs \X Turns]
NoLoop == [phase |-> "none", aborted |-> FALSE, turn |-> 0, boundary |-> 0, heard |-> <<>>,
           batch |-> <<>>, todo |-> <<>>, begun |-> {}, carried |-> {}, granted |-> {},
           failure |-> NoKey, origin |-> <<0, 0>>]

TypeOK ==
  /\ run \in [status: Statuses, epoch: Epochs, turns: Turns,
              blocked: Keys \cup {NoKey}, retries: 0..MaxRetries, approvals: ApprovalSets]
  /\ ops \in [Keys -> Op]
  /\ inbox \in [pending: Seq(Inputs), closed: BOOLEAN]
  /\ DOMAIN checkpoints \subseteq Epochs \X Turns   \* one boundary behind each turn
  /\ \A b \in DOMAIN checkpoints : checkpoints[b] \in Seq(Inputs)
  /\ saved \in Saved
  /\ loop \in Loop
  /\ up \in BOOLEAN
  /\ restarts \in 0..MaxRestarts
  /\ executed \in [ToolKeys -> Nat]
  /\ asked \in [ModelKeys -> Nat]
  /\ allowed \subseteq ToolKeys
  /\ accepted \subseteq Inputs

-----------------------------------------------------------------------------
\* The call key of the loop: modelPhase is the turn, or "resume" before the first.
CallKey(c) == ToolKey(run.epoch, loop.turn, c)

\* The identity of a call, whatever epoch carries it out: the answer that made it.
Identity(c) == ToolKey(loop.origin[1], loop.origin[2], c)

\* Parallel execution is off as soon as one tool may require an approval.
Workers == IF run.approvals # {} THEN 1 ELSE ToolConcurrency

InFlight == loop.begun \cup loop.carried

\* The loop is at a callback of its own, not aborted: every checkpoint begins with
\* signal.throwIfAborted().
At(phase) == loop.phase = phase /\ ~loop.aborted

\* The error path of execute(): the attempt ends and its row says how.
EndAttempt(status, key) ==
  /\ run' = [run EXCEPT !.status = status, !.blocked = key]
  /\ loop' = NoLoop

-----------------------------------------------------------------------------
(* The attempt.                                                             *)

\* execute(): a first segment begins with the prompt, a later one with the call a
\* person decided on.  A denied call has its result without an operation.
Start ==
  /\ up
  /\ loop.phase = "none"
  /\ run.status \in Runnable
  /\ run' = [run EXCEPT !.status = "running"]
  /\ LET resumed == run.epoch > 0
         calls == IF saved.approved THEN saved.pending \o saved.rest ELSE saved.rest
         denied == IF resumed /\ ~saved.approved
                     THEN <<Result(Head(saved.pending), 0)>> ELSE <<>>
     IN  loop' = [NoLoop EXCEPT
                    !.phase = IF resumed THEN "tools" ELSE "drain",
                    !.heard = saved.heard \o denied,
                    !.batch = calls, !.todo = calls,
                    !.granted = IF resumed /\ saved.approved
                                  THEN {Head(saved.pending)} ELSE {},
                    !.origin = saved.origin]
  /\ UNCHANGED <<ops, inbox, checkpoints, saved, up, restarts, world>>

\* Mutant of Drain: the boundary is not recorded.
DrainUnrecorded(closing) ==
  /\ At(IF closing THEN "closing" ELSE "drain")
  /\ LET entries == inbox.pending
     IN  /\ inbox' = [pending |-> <<>>, closed |-> inbox.closed \/ (closing /\ entries = <<>>)]
         /\ loop' = [loop EXCEPT
                       !.phase = IF closing /\ entries = <<>> THEN "finish" ELSE "model",
                       !.boundary = @ + 1,
                       !.heard = @ \o [i \in DOMAIN entries |-> Heard(entries[i])]]
  /\ UNCHANGED <<run, ops, checkpoints, saved, up, restarts, world>>

\* drainSteering(turn, closing): a recorded boundary is replayed; otherwise the inbox is
\* emptied into a new one.  An empty last boundary closes the inbox.
Drain(closing) ==
  /\ At(IF closing THEN "closing" ELSE "drain")
  /\ LET key == <<run.epoch, loop.boundary>>
         known == key \in DOMAIN checkpoints
         entries == IF known THEN checkpoints[key] ELSE inbox.pending
     IN  /\ IF known
              THEN UNCHANGED <<inbox, checkpoints>>
              ELSE /\ inbox' = [pending |-> <<>>,
                                closed |-> inbox.closed \/ (closing /\ entries = <<>>)]
                   /\ checkpoints' = [b \in DOMAIN checkpoints \cup {key} |->
                                        IF b = key THEN entries ELSE checkpoints[b]]
         /\ loop' = [loop EXCEPT
                       !.phase = IF closing /\ entries = <<>> THEN "finish" ELSE "model",
                       !.boundary = @ + 1,
                       !.heard = @ \o [i \in DOMAIN entries |-> Heard(entries[i])]]
  /\ UNCHANGED <<run, ops, saved, up, restarts, world>>

\* Mutant of Digest: an approval outlives the answer it was given for.
DigestGranted(turn, answer) ==
  [loop EXCEPT !.phase = IF answer = <<>> THEN "closing" ELSE "tools",
               !.turn = turn, !.heard = Append(@, Said(answer)),
               !.batch = answer, !.todo = answer,
               !.origin = <<run.epoch, turn>>]

\* What the loop does with an answer: the final one leads to the last boundary.
Digest(turn, answer) ==
  [loop EXCEPT !.phase = IF answer = <<>> THEN "closing" ELSE "tools",
               !.turn = turn, !.heard = Append(@, Said(answer)),
               !.batch = answer, !.todo = answer, !.granted = {},
               !.origin = <<run.epoch, turn>>]

\* Mutant of Spent: one turn too many.
SpentLate == run.turns > MaxModelTurns

Spent == run.turns >= MaxModelTurns

\* start() of a model turn, after the budget check of prepareMessages().
StartModel ==
  /\ At("model")
  /\ LET turn == loop.turn + 1
         key == ModelKey(run.epoch, turn)
         new == turn <= MaxModelTurns => ops[key].status = "none"
     IN  \/ /\ Spent /\ new
            /\ EndAttempt("failed", NoKey)
            /\ UNCHANGED ops
         \/ /\ ~Spent /\ new
            /\ ops' = [ops EXCEPT ![key].status = "started", ![key].input = loop.heard]
            /\ run' = [run EXCEPT !.turns = @ + 1]
            /\ loop' = [loop EXCEPT !.phase = "begin", !.turn = turn]
         \/ /\ ~new
            /\ IF ops[key].input # loop.heard
                 THEN EndAttempt("needs_attention", key)
                 ELSE /\ UNCHANGED run
                      /\ loop' = IF ops[key].status = "completed"
                                   THEN Digest(turn, ops[key].answer)
                                   ELSE [loop EXCEPT !.phase = "begin", !.turn = turn]
            /\ UNCHANGED ops
  /\ UNCHANGED <<inbox, checkpoints, saved, up, restarts, world>>

\* Mutant of BeginAttempt: the attempt is sent before it is counted.
BeginUncounted ==
  /\ At("begin")
  /\ LET key == ModelKey(run.epoch, loop.turn)
     IN  IF ops[key].attempts >= MaxAttempts
           THEN EndAttempt("failed", NoKey) /\ UNCHANGED <<ops, asked>>
           ELSE /\ asked' = [asked EXCEPT ![key] = @ + 1]
                /\ loop' = [loop EXCEPT !.phase = "asking"]
                /\ UNCHANGED <<run, ops>>
  /\ UNCHANGED <<inbox, checkpoints, saved, up, restarts, executed, allowed, accepted>>

\* beginAttempt(): counted in the journal before the provider is called.
BeginAttempt ==
  /\ At("begin")
  /\ LET key == ModelKey(run.epoch, loop.turn)
     IN  IF ops[key].attempts >= MaxAttempts
           THEN EndAttempt("failed", NoKey) /\ UNCHANGED <<ops, asked>>
           ELSE /\ ops' = [ops EXCEPT ![key].attempts = @ + 1]
                /\ asked' = [asked EXCEPT ![key] = @ + 1]
                /\ loop' = [loop EXCEPT !.phase = "asking"]
                /\ UNCHANGED run
  /\ UNCHANGED <<inbox, checkpoints, saved, up, restarts, executed, allowed, accepted>>

\* saveResponse().
Answer(answer) ==
  /\ At("asking")
  /\ run.status = "running"
  /\ LET key == ModelKey(run.epoch, loop.turn)
     IN  ops' = [ops EXCEPT ![key].status = "completed", ![key].answer = answer]
  /\ loop' = Digest(loop.turn, answer)
  /\ UNCHANGED <<run, inbox, checkpoints, saved, up, restarts, world>>

\* The provider fails: another attempt later while the budget lasts.
ModelFails ==
  /\ At("asking")
  /\ EndAttempt(IF ops[ModelKey(run.epoch, loop.turn)].attempts < MaxAttempts
                  THEN "retry_wait" ELSE "failed", NoKey)
  /\ UNCHANGED <<ops, inbox, checkpoints, saved, up, restarts, world>>

-----------------------------------------------------------------------------
(* A batch of tool calls: mapWithConcurrency, or one by one.  start() and    *)
(* the call of the tool are one callback; the tool's effect comes later.     *)

\* A worker picks the next call.
NextCall == Head(loop.todo)
CanPick == /\ At("tools")
           /\ loop.todo # <<>>
           /\ loop.failure = NoKey
           /\ Cardinality(InFlight) < Workers

NeedsApproval(c) == c \in run.approvals /\ c \notin loop.granted

\* Mutant of PickCall: the journal is not consulted.
PickUnchecked ==
  /\ CanPick
  /\ ~NeedsApproval(NextCall)
  /\ ops' = [ops EXCEPT ![CallKey(NextCall)].status = "started"]
  /\ loop' = [loop EXCEPT !.todo = Tail(@), !.begun = @ \cup {NextCall}]
  /\ UNCHANGED <<run, inbox, checkpoints, saved, up, restarts, world>>

\* start() of a tool: a completed operation gives its result back, an interrupted one
\* that is not repeatable stops the batch.
PickCall ==
  /\ CanPick
  /\ ~NeedsApproval(NextCall)
  /\ LET key == CallKey(NextCall)
         picked == [loop EXCEPT !.todo = Tail(@)]
     IN  /\ ops' = IF ops[key].status = "none"
                     THEN [ops EXCEPT ![key].status = "started"] ELSE ops
         /\ loop' =
              CASE ops[key].status = "completed" -> picked
                [] ops[key].status = "started" /\ Recovery[NextCall] = "manual" ->
                     [picked EXCEPT !.failure = key]
                [] OTHER -> [picked EXCEPT !.begun = @ \cup {NextCall}]
  /\ UNCHANGED <<run, inbox, checkpoints, saved, up, restarts, world>>

\* The results of the calls of the batch that precede n, in the order of the answer.
Results(n) == [i \in 1..n |-> Result(loop.batch[i], ops[CallKey(loop.batch[i])].value)]

\* Mutant of Suspend: the calls after the pending one are forgotten.
SuspendAlone ==
  /\ CanPick
  /\ NeedsApproval(NextCall)
  /\ InFlight = {}
  /\ saved' = [heard |-> loop.heard \o Results(Len(loop.batch) - Len(loop.todo)),
                pending |-> <<NextCall>>, approved |-> FALSE, rest |-> <<>>,
                origin |-> loop.origin]
  /\ EndAttempt("waiting", NoKey)
  /\ UNCHANGED <<ops, inbox, checkpoints, up, restarts, world>>

\* finishSuspension() and the last transaction: the run waits for a person, who finds the
\* results so far, the pending call and the calls after it.
Suspend ==
  /\ CanPick
  /\ NeedsApproval(NextCall)
  /\ InFlight = {}
  /\ saved' = [heard |-> loop.heard \o Results(Len(loop.batch) - Len(loop.todo)),
                pending |-> <<NextCall>>, approved |-> FALSE, rest |-> Tail(loop.todo),
                origin |-> loop.origin]
  /\ EndAttempt("waiting", NoKey)
  /\ UNCHANGED <<ops, inbox, checkpoints, up, restarts, world>>

\* The tool does its work; an abort does not reach a tool that ignores its signal.
CarryOut(c) ==
  /\ loop.phase = "tools"
  /\ c \in loop.begun
  /\ executed' = [executed EXCEPT ![Identity(c)] = @ + 1]
  /\ loop' = [loop EXCEPT !.begun = @ \ {c}, !.carried = @ \cup {c}]
  /\ UNCHANGED <<run, ops, inbox, checkpoints, saved, up, restarts, asked, allowed, accepted>>

\* complete() of a tool.
Record(c) ==
  /\ At("tools")
  /\ c \in loop.carried
  /\ run.status = "running"
  /\ ops' = [ops EXCEPT ![CallKey(c)].status = "completed",
                        ![CallKey(c)].value = executed[Identity(c)]]
  /\ loop' = [loop EXCEPT !.carried = @ \ {c}]
  /\ UNCHANGED <<run, inbox, checkpoints, saved, up, restarts, world>>

\* Its result cannot be stored (a payload limit, a value that is not JSON).
RecordFails(c) ==
  /\ At("tools")
  /\ c \in loop.carried
  /\ loop' = [loop EXCEPT !.carried = @ \ {c},
                          !.failure = IF @ = NoKey THEN CallKey(c) ELSE @]
  /\ UNCHANGED <<run, ops, inbox, checkpoints, saved, up, restarts, world>>

\* Mutant of EndBatch: after a failure the calls no worker picked up are waited for.
EndBatchPicked ==
  /\ At("tools")
  /\ InFlight = {}
  /\ loop.todo = <<>>
  /\ IF loop.failure # NoKey
       THEN EndAttempt("needs_attention", loop.failure)
       ELSE /\ loop' = [loop EXCEPT !.phase = "drain", !.batch = <<>>,
                                    !.heard = @ \o Results(Len(loop.batch))]
            /\ UNCHANGED run
  /\ UNCHANGED <<ops, inbox, checkpoints, saved, up, restarts, world>>

\* The batch ends once no call is in flight.
EndBatch ==
  /\ At("tools")
  /\ InFlight = {}
  /\ IF loop.failure # NoKey
       THEN EndAttempt("needs_attention", loop.failure)
       ELSE /\ loop.todo = <<>>
            /\ loop' = [loop EXCEPT !.phase = "drain", !.batch = <<>>,
                                    !.heard = @ \o Results(Len(loop.batch))]
            /\ UNCHANGED run
  /\ UNCHANGED <<ops, inbox, checkpoints, saved, up, restarts, world>>

\* The last transaction of execute(), or an error of the hooks and guardrails before it.
Finish ==
  /\ At("finish")
  /\ \/ /\ EndAttempt("completed", NoKey)
        /\ saved' = [Fresh EXCEPT !.heard = loop.heard]
     \/ EndAttempt("failed", NoKey) /\ UNCHANGED saved
  /\ UNCHANGED <<ops, inbox, checkpoints, up, restarts, world>>

\* An aborted attempt ends without writing.
Abandon ==
  /\ loop.phase # "none"
  /\ loop.aborted
  /\ loop' = NoLoop
  /\ UNCHANGED <<run, ops, inbox, checkpoints, saved, up, restarts, world>>

-----------------------------------------------------------------------------
(* Calls of the host and of the operator.  None can run between the two      *)
(* transactions at the beginning of a model turn.                            *)

Callable == up /\ loop.phase # "begin"

Known(m) ==
  \/ m \in {inbox.pending[i] : i \in DOMAIN inbox.pending}
  \/ \E b \in DOMAIN checkpoints : m \in {checkpoints[b][i] : i \in DOMAIN checkpoints[b]}

\* A repeated request is recognised wherever it went; a closed inbox takes no new one.
steer(m) ==
  /\ Callable
  /\ ~Known(m)
  /\ ~inbox.closed
  /\ run.status \notin Settled
  /\ inbox' = [inbox EXCEPT !.pending = Append(@, m)]
  /\ accepted' = accepted \cup {m}
  /\ UNCHANGED <<run, ops, checkpoints, saved, loop, up, restarts, executed, asked, allowed>>

\* The person decides; the run resumes in a new epoch.
respond(approved) ==
  /\ Callable
  /\ run.status = "waiting"
  /\ run.epoch < MaxResponses
  /\ run' = [run EXCEPT !.status = "pending", !.epoch = @ + 1]
  /\ saved' = [saved EXCEPT !.approved = approved]
  /\ allowed' = IF approved
                  THEN allowed \cup {ToolKey(saved.origin[1], saved.origin[2], Head(saved.pending))}
                  ELSE allowed
  /\ UNCHANGED <<ops, inbox, checkpoints, loop, up, restarts, executed, asked, accepted>>

\* The operator gives the result of the interrupted tool.
resolveTool ==
  /\ Callable
  /\ run.status = "needs_attention"
  /\ run.blocked \in ToolKeys
  /\ ops[run.blocked].status = "started"
  /\ run.retries < MaxRetries
  /\ ops' = [ops EXCEPT ![run.blocked].status = "completed", ![run.blocked].value = -1]
  /\ run' = [run EXCEPT !.status = "pending", !.blocked = NoKey, !.retries = @ + 1]
  /\ UNCHANGED <<inbox, checkpoints, saved, loop, up, restarts, world>>

retry ==
  /\ Callable
  /\ loop.phase = "none"
  /\ run.status \in {"failed", "needs_attention"}
  /\ run.retries < MaxRetries
  /\ run' = [run EXCEPT !.status = "pending", !.blocked = NoKey, !.retries = @ + 1]
  /\ ops' = [k \in Keys |-> IF k \in ModelKeys /\ ops[k].status = "started"
                              THEN [ops[k] EXCEPT !.attempts = 0] ELSE ops[k]]
  /\ UNCHANGED <<inbox, checkpoints, saved, loop, up, restarts, world>>

cancel ==
  /\ Callable
  /\ run.status \notin Settled
  /\ run' = [run EXCEPT !.status = "cancelled"]
  /\ loop' = IF loop.phase = "none" THEN loop ELSE [loop EXCEPT !.aborted = TRUE]
  /\ UNCHANGED <<ops, inbox, checkpoints, saved, up, restarts, world>>

\* close() aborts the attempt and waits for it; a crash does neither.
close ==
  /\ Callable
  /\ restarts < MaxRestarts
  /\ up' = FALSE
  /\ restarts' = restarts + 1
  /\ loop' = IF loop.phase = "none" THEN loop ELSE [loop EXCEPT !.aborted = TRUE]
  /\ UNCHANGED <<journal, world>>

Crash ==
  /\ restarts < MaxRestarts
  /\ up' = FALSE
  /\ restarts' = restarts + 1
  /\ loop' = NoLoop
  /\ UNCHANGED <<journal, world>>

open ==
  /\ ~up
  /\ loop.phase = "none"
  /\ up' = TRUE
  /\ UNCHANGED <<journal, loop, restarts, world>>

-----------------------------------------------------------------------------
Init ==
  /\ \E approvals \in ApprovalSets :
        run = [status |-> "queued", epoch |-> 0, turns |-> 0, blocked |-> NoKey, retries |-> 0,
               approvals |-> approvals]
  /\ ops = [k \in Keys |-> NoOp]
  /\ inbox = [pending |-> <<>>, closed |-> FALSE]
  /\ checkpoints = <<>>
  /\ saved = Fresh
  /\ loop = NoLoop
  /\ up = TRUE
  /\ restarts = 0
  /\ executed = [k \in ToolKeys |-> 0]
  /\ asked = [k \in ModelKeys |-> 0]
  /\ allowed = {}
  /\ accepted = {}

Agent ==
  \/ Start
  \/ \E closing \in BOOLEAN : Drain(closing)
  \/ StartModel
  \/ BeginAttempt
  \/ \E a \in Answers : Answer(a)
  \/ ModelFails
  \/ PickCall
  \/ Suspend
  \/ \E c \in Calls : CarryOut(c) \/ Record(c) \/ RecordFails(c)
  \/ EndBatch
  \/ Finish
  \/ Abandon

Host ==
  \/ \E m \in Inputs : steer(m)
  \/ \E approved \in BOOLEAN : respond(approved)
  \/ resolveTool
  \/ retry
  \/ cancel
  \/ close
  \/ Crash
  \/ open

Next == Agent \/ Host

Spec == Init /\ [][Next]_vars

\* Agents, models and tools answer and the runtime is reopened; people and hosts may do
\* nothing more.
FairSpec == Spec /\ WF_vars(Agent) /\ WF_vars(open)

-----------------------------------------------------------------------------
(* Properties.                                                              *)

\* A manual tool call is carried out at most once, whatever crashes, shut-downs, retries,
\* reconciliations and approvals surround it; the epoch it runs in does not matter.
ManualOnce ==
  \A e \in Epochs, t \in Turns, c \in Calls :
     Recovery[c] = "manual" => executed[<<e, t, c>>] <= 1

\* An operation that has its result is never carried out again, and its result never changes.
CompletedKept ==
  [][/\ \A k \in Keys : ops[k].status = "completed" => ops'[k] = ops[k]
     /\ \A c \in Calls : c \in loop.begun /\ c \in loop'.carried =>
                            ops[CallKey(c)].status = "started"]_vars

\* No call of a tool that needs an approval is carried out unless a person approved that very
\* call: not the same call of an earlier answer, and not a denied one.
ApprovedFirst ==
  \A e \in Epochs, t \in Turns, c \in run.approvals :
     executed[<<e, t, c>>] > 0 => <<e, t, c>> \in allowed

\* A new attempt meets the requests the journal holds: whatever crashes, retries, approvals and
\* steering lie in between, it never stops with "Execution changed at a saved checkpoint".
ReplayFaithful == run.blocked \notin ModelKeys

\* The budgets hold: a model turn of the journal is one of the run's turns, and the provider is
\* called at most maxAttempts times per turn and explicit retry.
BudgetsKept ==
  /\ run.turns = Cardinality({k \in ModelKeys : ops[k].status # "none"})
  /\ \A k \in ModelKeys : asked[k] <= MaxAttempts * (run.retries + 1)

\* The calls of an answer are answered by their results, once each and in order, before
\* anything else is said, however many attempts and approvals lie in between.
Answered(heard) ==
  \A i \in DOMAIN heard :
     heard[i][1] = "model" =>
        LET a == heard[i][2]
        IN  \A j \in DOMAIN a : i + j <= Len(heard) /\ heard[i + j][1] = "tool"
                                                    /\ heard[i + j][2] = a[j]

TranscriptWhole ==
  /\ run.status = "completed" => Answered(saved.heard)
  /\ loop.phase \in {"drain", "closing", "model", "begin", "asking", "finish"} =>
        Answered(loop.heard)

\* Every accepted steering request is in the transcript of a completed run, whatever crashes,
\* replays and approvals lie between its acceptance and the boundary that took it, and no
\* transcript has a request twice.
SteeringHeard ==
  /\ run.status = "completed" =>
        \A m \in accepted : \E i \in DOMAIN saved.heard : saved.heard[i] = Heard(m)
  /\ \A heard \in {saved.heard, loop.heard} :
        \A i, j \in DOMAIN heard : heard[i] = heard[j] /\ heard[i][1] = "steer" => i = j

\* An attempt always comes to an end that its row shows, or a person or the host is waited for.
Active == run.status \in Runnable
Settles == []<>~Active

=============================================================================
