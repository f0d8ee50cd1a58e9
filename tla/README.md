# Anvia durable runtime: specification, model checks and proofs

Anvia is a TypeScript monorepo for building agents.  Most of its packages are
adapters (model providers, vector stores, UI).  What is a protocol, and hard to
test, is

* the **durable runtime**, `src/packages/durable`: a scheduler over a SQLite journal
  that carries agent runs, the operations inside a run, its memory, and trees of
  tasks over crashes, restarts, cancellations, approvals and retries.  It runs the
  agent loop of `src/packages/core/src/internal/agent-runtime`;
* the **agent teams** of the core, `src/packages/core/src/internal/team-runtime`:
  agents that spawn each other, send messages and wait under a limit of permits;
* the **resumable streams** that bring the events of a run from the server
  (`src/packages/server`) to a chat in a browser (`src/packages/react`).

This directory models these, checks them with TLC on small instances and proves with
TLAPS, for every value of the constants, what the scheduler, the execution of a run, the
task trees, the teams and the chat promise.

Paths below are relative to `src/packages/durable/src/` unless they begin with `src/`.

## Contents

| module | what it is |
| --- | --- |
| `DurableRuns` | the run scheduler: one process over the journal of runs |
| `SessionQueue` | abstract specification: what the scheduler promises a session |
| `DurableRunsQueue` | refinement mapping `DurableRuns` => `SessionQueue` |
| `DurableRuns_proofs` | theorems about `DurableRuns` |
| `DurableExecution` | one run at work: the agent loop over its checkpoints |
| `DurableExecution_proofs` | theorems about `DurableExecution`: effects, approvals, budgets |
| `DurableTranscript_proofs` | that a new attempt meets what the journal holds; what a run says and hears |
| `DurableTasks` | task trees: scheduler, phases, effects, waits, owned runs |
| `DurableTasks_proofs` | theorems about `DurableTasks` |
| `MemoryStore` | one history in a versioned memory store, with its compaction |
| `RunMemory` | what a run of the agent loop saves, by save policy |
| `DurableMemory` | the memory of one durable run, over both, beside another agent |
| `DurableMemory_proofs` | theorems about `DurableMemory` |
| `AgentTeam` | a run of an agent team |
| `AgentTeam_proofs` | theorems about `AgentTeam` |
| `ResumableStore` | the store of resumable streams |
| `ResumableChat` | server, connection and chat over that store |
| `ResumableChat_proofs` | theorem about `ResumableChat` |
| `Selection` | the elements of a sequence at some positions, in a form that proofs can unfold |
| `Selection_proofs` | lemmas about it, and the least element of a set of numbers |
| `MCDurableRuns`, `MCDurableExecution`, `MCDurableTasks`, `MCDurableMemory`, `MCAgentTeam`, `MCResumableChat` | instances for TLC |

The four `Durable` modules are zoom levels of one process.  `DurableRuns`
sees an attempt of a run as one choice of outcome; `DurableExecution` opens that
box for the loop of a single run, and `DurableMemory` for what happens before the
loop (the read of the history) and after it (the writes); `DurableTasks` sees a run
only as something a task owns.  The interfaces are the row of a run and its
`status`, so the same status names are used in all of them.  `AgentTeam` and
`ResumableChat` stand beside them: a team is not durable, and a chat sees a run as
a sequence of events.

Operators whose comment begins with "Mutant of" are not part of the system: each
changes one definition the way a slip in the code would, and the named run then
refutes a property.  They show which piece of the code the property rests on.

## Inventory

### Modelled

**Durable run scheduler** with **task graphs** (`runtime.ts`, `sqlite.ts`,
`run-record.ts`, `graph-state.ts`).
State: the runs table, of which the nodes of graphs are rows, and the graphs; in memory `active` (one entry per attempt, with its abort
controller), `wakeTimer`, and the life of the process.
Operations: `submit`, `submitGraph`, `resume`, `cancel`, `cancelGraph`, `respond`,
`resolveTool`, `retry`, `close`, `open`; internally `pump`, `launch`, `execute`, `fail`.
Interaction: every call ends in `pump()`, which asks `schedule()` for eligible
rows; an attempt writes its outcome and its `finally` handler pumps again.
Hard: an entry is in `active` before its attempt starts (microtasks later);
cancellation settles the row while the attempt is still inside a tool; admission
can roll back, and a retry after that takes another path than the first activation; a
node may be submitted before the nodes it depends on; a timer is armed only on some
paths; crash at any point.
Correct when: one attempt per session, in submission order; the capacity is
kept; settled runs are final; conversations neither lose nor repeat a turn; a node
starts after its dependencies succeeded and with their results; nothing of a cancelled
graph moves; runnable work progresses.

**Execution of a run** (`execution.ts`, `steering.ts`) with the **core agent
loop** (`agent-run.ts`, `tool-execution.ts`, `concurrency.ts`).
State: the operations table, steering inbox and checkpoints, the saved outcome;
in memory the loop itself.
Operations: model turn (record request, count attempts, complete), tool call
(start, carry out, complete), steering drain, suspension for approval, answer,
operator's reconciliation, retry.
Hard: an attempt replays the whole loop against the journal and must meet
identical requests; an effect may or may not have happened before a crash;
steering requests move from an inbox to a checkpoint in between; approvals split
one answer over several epochs; parallel calls of which one fails.
Correct when: a manual effect happens once and only approved; budgets hold over
restarts; no accepted steering request is lost or heard twice; every call in the
transcript has its result.

**Durable tasks** (`tasks/scheduler.ts`, `tasks/state.ts`, `tasks/invocation.ts`,
`tasks/agent.ts`).
State: the task table, the ready order, effects, signals; in memory the active
invocations and the deadlines of trees.
Operations: `submitTask`, `cancel`, `signal`, `retry`, `resolveEffect`, `resume`;
inside a phase `spawn`, `spawnAgent`, `effect`; transitions; `reconcileTree`.
Hard: cancellation spreads over a tree of running invocations and owned runs, a
task may end only after all it owns, and what wakes a waiting or cancelling task
is a reconciliation somebody else makes.
Correct when: no orphans, the fence holds, outcomes are final, effects are done
once, no wake-up is lost, owned runs end with their owner.

**Recorded memory** (`recorded-memory.ts`, parts of `runtime.ts`), with the **save
policies** of the core (`src/packages/core/src/internal/agent-runtime/memory.ts`) and
the **SQLite memory store** (`src/packages/memory-sqlite/src/store.ts`).
State: the recorded read and the recorded writes of each epoch in the journal; the
history with its version, idempotency keys and compaction in the store.
Operations: read the history, capture writes during the loop, record them with the
outcome, send them one by one, retry, decide as operator, clear, compact.
Interaction: the store is shared with agents that have no journal.
Hard: a write that was sent and not recorded; a version chain that others may
break; a summary that is made outside any transaction; which messages of a turn are
saved, and when, under each policy.
Correct when: each message is saved once and in order, a finished run has saved all
it said, a compaction replaces what was summarised and nothing else, a history that
others changed is noticed, the run ends settled or with an operator.

**Agent teams** (`src/packages/core/src/internal/team-runtime`).
State: the instances with their status, inbox and task; the permits and their FIFO
queue; the turn budget.  All in memory.
Operations: spawn, send, wait, cancel, report an outcome, ask the host, steer,
cancel the team, close and settle it.
Hard: members hold a permit while they wait for others unless each wait gives it
back; a message takes another path for a member that is idle, at work, waiting,
suspended or about to leave; failure and cancellation spread over a tree.
Correct when: the permits bound who works, messages are heard once and in order, who
is below a stopped member is stopped, the team ends.

**Resumable streams and the chat** (`src/packages/server/src/resumable.ts`,
`client-response.ts`; `src/packages/client/src/client-transport.ts`;
`src/packages/react/src/use-chat.ts`, `resume.ts`).
State: the records of each stream and its subscribers on the server; the frames in
flight; the chat and what it saved in the storage of the browser.
Operations: open, append, close, evict, subscribe; send, resume, reload, stop.
Hard: replay of records against appending and closing; the status read after the
last record; eviction and restart between two requests; a connection lost, or a page
loaded again, between two frames.
Correct when: the answer that is shown is that of the user's request, without gap or
repetition, and whoever waits for an answer learns how it ended.

### Not modelled yet (planned)

| part | state, operations | hard | correct when | plan |
| --- | --- | --- | --- | --- |
| goals (`goals/*`) | rounds, controls, pauses on top of a task | control signals read by index over restarts | a control is applied once | `DurableGoals`, over `DurableTasks` |
| owner of the store (`sqlite.ts`, `storage-guard.ts`) | owner row, process identity | two openers, take-over from a dead process | at most one owner | `DurableOwner` |
| agent registry (`registration.ts`, `runtime.ts`) | registered agents | `submit` looks up, awaits, then writes; `unregisterAgent` in between | a row names a registered agent | `DurableRegistry` |
| event log, streams (`run.ts`, `wait.ts`, `legacy-rows.ts`) | cursor, polling | end of a run against the last poll | every event once, then the end | `DurableEvents` |

### Not modelled

Payload limits and blobs (data encoding; its effect, a refused admission or
result, does appear), context preparation and compaction of durable runs
(sequential; its checkpoints follow the tool pattern), traces, metrics and
maintenance (diagnostics and file copies), protocol schemas (no state), completion
retries and the streaming queue of core, pipelines (composition without shared
state), core data types, extractor, guardrails, skills, evals, server routes, the
client of durable runs, UI components, the other memory stores and the in-memory one,
MCP adapters, tool sandbox and studio, graph databases, providers, vector stores,
embeddings, observability, logger, CLI, cookbook, docs.  `PROJECT.json` lists each
with its sources and reason.

## Modelling conventions

* The process is single threaded and its SQLite transactions are synchronous, so an
  action is the code between two awaits: one API call with the `pump()` that ends
  it, or one continuation of an attempt.  Everything such a piece of code does,
  rescheduling included, is in the action.
* Variables marked "journal" survive `Crash`; those marked "process memory" do
  not; those marked "the outside world" record what tools, models and people did,
  so that properties can speak of effects and not of records.
* A crash is possible in every state; `open` follows with the journal as it was.
* Microtask gaps are states: `launched` (an entry in `active` before `execute()`
  runs), `rejected` (a transaction rolled back; the handler that writes the
  failure has not run), `leaving` (the last transaction is done, `finally` has
  not run).

## DurableRuns

| model | code |
| --- | --- |
| `runs`, `Row` | `anvia_durable_runs` in rowid order; `due` is `nextAttemptAt <= now`, `blocked` is `blockedOperation` |
| `attempt`, `aborted` | the map `active` and its abort controllers |
| `timer` | `wakeTimer` |
| `Eligible`, `Launches`, `pump` | `schedule()` of `sqlite.ts`, `pump()` |
| `cancelled`; `graph`, `needs`, `input`, `response` of a row | `cancelled` of the graph record; `graphId`, `dependencies`, the dependency results in `input`, an outcome of type `response` |
| `Acyclic` | what `parseDurableGraphSubmission()` of `graph-schema.ts` lets through |
| `submit`, `resubmit`, `cancel`, `respond`, `resolve`, `retry`, `resume` | the API calls |
| `submitGraph`, `cancelGraph`, `graphInput`, `Successful` | the API calls and helpers of `graph-state.ts` |
| `BeginExecute`, `SkipExecute`, `RejectAdmission`, `SettleRejected`, `JournalWork`, `Settle`, `SettleAborted`, `Leave` | `launch()` and `execute()`, from the admission transaction to the `finally` handler |
| `fail`, `close`, `Closed`, `Crash`, `open` | the life of the runtime |

A conversation is the sequence of runs whose messages it holds; `inheritSessionHistory`
says what a run starts from.  `work` is what the operations table holds, as far
as `hasProgress` and retries look at it.  `Needs[g][i]` are the nodes that node `i` of
graph `g` depends on; the nodes of a graph enter the journal together, in the order of
the submission, so a node may precede what it depends on.  A graph has one submission,
and calling with it again returns the graph that exists.

`CallsInLaunchGap` says whether the host may call the API in the microtasks between
`launch()` and the first transaction of the attempt.  TRUE is what JavaScript
allows.  With TRUE the order of a session can be broken by `retry()` (see
Findings), and what follows from that order (`HistoryComplete`, `SessionQueue`)
with it; `runs_session` therefore uses FALSE and shows that everything else about
the order is right.  The other runs, and the theorems that do not speak of that order,
allow calls in the gap.

`pumped` is read by fairness only: it remembers whether the host has called
anything that schedules since `open`.

| run | instance | shows |
| --- | --- | --- |
| `runs_session` | 1 session, 3 runs, 2 slots, 1 operator decision per run, no graphs | `HistoryComplete`, `OneAttemptPerSession`, and the refinement `ImplementsSessionQueue` |
| `runs_live` | 2 rows on 1 slot: two runs of a session, a node that waits for a later one, or two independent nodes; 1 model-failure wait, 1 operator decision, calls in the gap, fairness | `WithinCapacity`, `AttemptOwnsRow`, `DependenciesKept`, `SettledFinal`, `RunnableProgress`, `CloseReleases` |
| `runs_gap` | 1 session, 3 runs, calls in the gap | `SessionOrder` violated (finding) |
| `runs_graph` | 1 graph of two nodes, 1 slot | `InputsResolved` violated (finding) |

Bounds: three runs in a session are the least in which a run has an older one to
wait for and a younger one that may overtake it, and in which a history can skip a
middle run; two slots are the least on which one session can wrongly have two
attempts; one operator decision per run lets each run fail and come back.  One slot and
two rows are the least in which rows compete: as rows of one session the second waits
for the first, as nodes of the graph `pair` they are free of each other, as nodes of
`chain` the first waits for the second, so the order of the journal does not help.
Sessions and request ids are only compared, so they are symmetric (not in `runs_live`,
which checks liveness).

Fairness (`runs_live`): microtasks and timers run, attempts end or notice their
abort, a wake time comes, and the host calls `resume()` once after `open`, which
the documentation asks for.  No user, operator or client has to do anything.
Progress is claimed only while the process stays up.

## SessionQueue

What a client relies on without knowing journal, process or scheduler: turns
of a session are served one at a time in admission order; a turn that was closed
is reopened only while no later turn has been served; a crash leaves the turns
it interrupted open.  The mapping takes a run as a turn, `open` while it is
unsettled, `served` once `startedAt` is set, and serves it while its attempt is
`executing`.  What is admitted at once is a batch (`Admissions`): a run by itself, the
nodes of a graph, each in a session of its own, together; a cancelled graph calls off
several turns in one step.  Checked as a property of `runs_session`, and proved
(`QueueImplemented`).

## DurableExecution

| model | code |
| --- | --- |
| `ops` | the operations table, keyed by epoch, turn and call like `${epoch}:tool:${turn}:${call}` |
| `inbox`, `checkpoints` | `steering.pending`/`closed`, `steering.checkpoints` (`steering.ts`) |
| `saved` | the outcome of a suspended or finished run and what the next segment resumes with |
| `loop` | the agent loop in memory: phase, turn, batch of calls and its workers |
| `Drain`, `StartModel`, `BeginAttempt`, `Answer`, `ModelFails` | steering boundary and model turn |
| `PickCall`, `CarryOut`, `Record`, `RecordFails`, `EndBatch`, `Suspend` | a batch of tool calls with `toolConcurrency` workers |
| `Finish`, `Abandon` | the end of an attempt |
| `steer`, `respond`, `resolveTool`, `retry`, `cancel`, `close`, `Crash`, `open` | host and operator |

A model answer is the sequence of calls it makes (`<<>>` is final); a tool result
is the number of the execution that gave it, so two executions never agree and a
repeated effect shows.  Replay is modelled as it is written: a new attempt runs the
loop from its start, looks every operation up by key, compares the request with
the recorded one and stops if they differ.

| run | instance | shows |
| --- | --- | --- |
| `exec_live` | 2 tools in parallel, the manual one needs approval, 2 approvals, a steering request, 2 model turns, 2 attempts each, a crash or shut-down, a retry, fairness | `TypeOK`, `ReplayFaithful`, `SteeringHeard`, `ManualOnce`, `ApprovedFirst`, `BudgetsKept`, `TranscriptWhole`, `CompletedKept`, `Settles` |

Bounds: two calls per answer in both orders are the least in which one is
approved or fails while another is in flight or still to come; a steering request
can fall on any boundary, on either side of a crash, and after the last answer; two approvals let an
answer suspend again behind an approved call; one crash and one retry are enough to
replay every prefix of the loop, since a second attempt differs from a third only
in how many operations it finds; two model turns are the least in which a turn follows
the results of another and a third one would exceed the budget.

Fairness: some enabled step of the agent is taken, and the runtime is reopened;
people never have to answer (a run that waits for one counts as settled).

## DurableTasks

| model | code |
| --- | --- |
| `tasks`, `ready` | `anvia_durable_tasks`, and its rows by `ready_order` |
| `call` | `TaskScheduler.active`: the invocation of a phase, its abort signal, whether an effect is in flight |
| `attempt`, the field `run` | the run a task of `spawnAgent()` owns: its attempt and its status |
| `deadlines` | the map `deadlines` and the timer |
| `cancelTasks`, `cancelTree`, `reconcileTask`, `reconcileTree`, `saveTask`, `createTask` | the transactions of `tasks/state.ts`; `Fence` is what a cancellation makes of one row |
| `reconcile`, `reconcileRoots`, `pump`, `Reconciled` | the scheduler around them |
| `Begin`, `Spawn`, `StartEffect`, `EndEffect`, `ReturnEarly`, `Finish`, `FinishRejected`, `SettleRejected`, `Leave` | `launch()`, `execute()` and the invocation |
| `LaunchRun`, `EndRun`, `AbortRun`, `LeaveRun`, `CancelRun`, `ContinueRun` | the runtime, as far as an owned run meets its task |
| `submitTask`, `cancel`, `signal`, `retry`, `resolveEffect`, `resume` | API calls |

A transaction is a function from a world (journal and memory, `Now`) to a world,
committed by the action.  A checkpoint is not kept: a phase may do what any
phase may, so every task program is covered.  `Now` writes the rows as `SubSeq(tasks, 1, Len(tasks))`,
which is `tasks`: TLC 1.7.4 loses an `EXCEPT` on a function that is appended to later, and
`SubSeq` makes the rows a tuple.  There is one session, one effect key
and one signal name per task.  Definitions and their versions appear as a phase that
cannot begin.  The scheduling of an owned run is the subject of `DurableRuns`;
here a runnable run is attempted at some time, which allows more behaviours.

`MicrotaskGaps` says whether other callbacks may run in the microtasks between
the last transaction of a phase and its `finally` handler.  TRUE is what the code
allows; `tasks_live` uses FALSE because `OwnedRunsEnd` fails otherwise (see
Findings), and then shows that this gap is the only way it fails in that instance.
`resumed` is read by fairness and by `NothingForgotten` only.

| run | instance | shows |
| --- | --- | --- |
| `tasks_tree` | a root with two keys for children and grandchildren, 3 tasks, 2 slots, all gaps | `NoOrphans`, `Fenced`, `NothingForgotten`, `OutcomesFinal` |
| `tasks_live` | a root with a manual effect, signals, timers and an owned run on one slot, payload limits, fairness | `TypeOK`, `ManualEffectOnce`, `OwnedRunsEnd`, `CancelSettles`, `WaitersWake` |
| `tasks_gap` | a root and an owned run, all gaps | `OwnedRunsEnd` violated (finding) |

Bounds: with three tasks TLC sees both a chain (grandparent, parent, child) and a
parent of two siblings, which is what fail-fast and the two passes of
`reconcile()` are about; two slots let a child run beside its parent and leave a
sibling queued.  Limits are exceeded in `tasks_live` only, where the effect and
the owned run are.  Safe effects may be repeated `MaxEffects` times.

Fairness (`tasks_live`): callbacks end or notice their abort, effects settle,
attempts of runs end, time passes, timers fire, and the host calls `resume()` after
`open`.  Nobody has to answer, retry, signal, spawn or reopen.  Each clause is weak
fairness with the enabling condition written out (`[]<>~guard \/ []<><<A>>_vars`):
`WF_vars` would make TLC evaluate a reconciliation to find whether the action is
enabled.  The callbacks of an owned run's attempt (`RunFair`) have strong fairness:
the event loop serves its queue in order, and microtasks of the invocations, which
the guard `Turn` lets go first, only delay them.

## MemoryStore, RunMemory, DurableMemory

| model | code |
| --- | --- |
| `MemoryStore`: `append`, `clear`, `currentVersion` | `src/packages/memory-sqlite/src/store.ts`, each a transaction |
| `loadCompactionSnapshot`, `Replaceable`, `replaceCompactionPrefix` | the compaction capability of the same store |
| `RunMemory`: a writer and the `commit` operations | `memory.ts` of the core's agent runtime |
| `Prompt`, `ResumedTools`, `ToolTurn`, `SteeredTurn`, `LastTurn` | the places of `agent-run.ts` that call them |
| `run`, `read`, `writes` | the row, the recorded read, the operations `memory-write` (journal) |
| `Load`, `RecordRead`, `Checkpoint`, `SendWrite`, `StoreAppends`, `RecordWrite`, `Uncertain`, `Conflict`, `FinishFlush` | `readSnapshot`, the terminal checkpoint of `execute()`, `flushRecordedMemory` |
| `retry`, `resolveMemoryWrite`, `respond`, `cancel`, `close`, `Crash`, `open` | the API and the life of the process |
| `Snapshot`, `ReplacePrefix`, `AgentAnswers`, `AgentSaves`, `AgentFails` | an agent without a journal in the same scope: `prepareStoredHistory`, `commitMessages`, `recordError` |

The modules are used one over the other: `RunMemory` computes, for a policy and a
sequence of turns, which messages a segment says and which calls of `append()` it
captures; `DurableMemory` records and sends these; `MemoryStore` says what each
call does to the history.  A message is its author, epoch and number; `said`
remembers what each finished segment said, whether it was saved or not.

| run | instance | shows |
| --- | --- | --- |
| `memory_run` | the three policies, an interaction, a second agent that compacts and saves, 2 faults, 1 retry, fairness | `TypeOK`, `InOrderOnce`, `TranscriptSaved`, `CompactionWhole`, `MergeNoticed`, `FlushEnds` |
| `memory_steered` | turns with tools and turns that a steering request follows | `TranscriptSaved` violated (finding) |

Bounds: under `message` one segment has two writes, which is the least in which a
write follows another and a crash can fall between them; under the other policies a
segment has one, so a second segment, after an interaction, is given to them.  Two
faults (crashes, shut-downs, errors of the store or the model, `clear()` by the host)
let a write be cut off and its repetition fail, or the history be cleared after a lost
answer; one retry sends a write for the second time, and a third time would find the
same key.  Segments with tool turns only make more writes of the same kind; they appear
in `memory_steered` alone, for time.

Fairness: the scheduler launches what can run, models and stores answer, a runtime
that is closing closes and the host reopens it.  Nobody has to retry, resolve or
respond.

## AgentTeam

| model | code (`src/packages/core/src/internal/team-runtime/`) |
| --- | --- |
| `members` | the instances of `run.ts`: status, inbox, task and what its agent run holds |
| `queue`, `Available`, `yieldSlot`, `Reacquire`, `Resume` | `TeamSlots` and `yieldSlot()` |
| `launch`, `Begin`, `Leave`, `Catch`, `Finish` | `launch()` and `runMember()` |
| `enqueue`, `submitInputs`, `delivered`, `drainSteering` | the ways of a message |
| `spawn`, `send`, `cancelMember`, `wait` | the tools of a member |
| `suspend`, `ResolverFails` | interactions, answered by the host |
| `stopMember`, `stopMembers`, `stopDescendants`, `fail` | the spread of cancellation and failure |
| `steer`, `cancel`, `CloseTeam`, `Settle` | the host, `execute()`, `settleMembers()` |

`Resumption` maps where a member waits to where it queues for its permit
afterwards.  A wait for changes is a guard, since what makes it true is followed by
`notify()`.  What the agent of a member does between two waits is one of the turns of
`Turn`; every turn takes one from the budget.

| run | instance | shows |
| --- | --- | --- |
| `team_live` | a leader and 2 members, 2 permits, 4 turns, 1 message of the host, fairness | `TypeOK`, `AtWorkWithinLimit`, `HeardInOrder`, `OrphansStopped`, `TeamSettles` |

Bounds: with two members TLC sees both a chain and two siblings; two permits for
three agents make one of them queue; an inbox of two instead of 128 fills up; four
turns are the least in which a leader spawns, a member spawns or sends, and both come
to an end with a message in between.

Fairness: somebody who can go on does.  Models, tools and the host answer and timers
fire; no member is favoured, and the budget of turns bounds the work.

`MicrotaskGaps` says whether callbacks of others run between the end of a member's
agent run and the callback of its task that awaits it (`run.ts:478` to 521), which is
one microtask.  With TRUE a member that is cancelled in this gap is set back to
`idle`, although its abort signal has fired.  `OrphansStopped` and `TeamSettles` then
fail (two permits, five turns): a message to such a member stays in its inbox, because
`launch()` returns when the signal has fired, and its parent waits for ever for a
child that has unread input.  `src/packages/core/src/internal/team-runtime/tools.ts:49`
tells the model that "Cancelled instances cannot receive follow-up messages."  Whether
a callback of another member can run exactly there depends on the promises inside the
agent run, which the model leaves out, so `team_live` uses FALSE and this is an
observation, not a finding.  With one permit everything holds with the gap too.

## ResumableStore, ResumableChat

| model | code |
| --- | --- |
| `ResumableStore` | the in-memory store of `src/packages/server/src/resumable.ts` |
| `Drain`, `CloseStream`, `OpenStream`, `Subscribe`, `SendEvent`, `SendEnd` | `src/packages/server/src/client-response.ts`, pulled through `jsonl.ts` |
| `Valid` | `validateFrameSequence()` of `src/packages/client/src/client-transport.ts` |
| `sendMessage`, `resume`, `stop`, `Receive` | `src/packages/react/src/use-chat.ts` |
| `saved`, `reload`, `persistResumeState` | `src/packages/react/src/resume.ts` |

The clock of the eviction is left out: a closed stream may be evicted at any time,
which contains every retention.  A connection the chat gave up is dropped; its request
may still reach the server (`OpenUnread`) and then drains into its stream unread.

| run | instance | shows |
| --- | --- | --- |
| `chat_live` | 2 messages of the user with a stream each, 3 events, 2 frames in flight, 2 resumes or page loads, 2 losses of connection or server, fairness | `AnswerWhole`, `AnswerEnds` |

Bounds: three events are the least in which a resumed answer has a part that was shown,
one that was lost in flight and one still to be made; two losses let a resumed request
fail again; the second message meets what the first one left behind.

Fairness: runs end, responses are pulled and frames are read, as long as any of it is
possible.  Users do not have to do anything.

`StreamOf` is the choice of stream ids, which the server package leaves to the route.
The run gives each request an id of its own.  With one id for all requests (`Shared`) `AnswerWhole`
fails: a request that was given up but reaches the server late opens the stream that
a later request then reads, or is refused by it.  Nothing in the code or its
documentation says that ids must be fresh.

## What is proved

### The scheduler

`DurableRuns_proofs` proves, for every number of sessions, requests, rows, slots,
waits and decisions and for every set of acyclic graphs:

| theorem | statement |
| --- | --- |
| `TypeCorrect` | `Spec => []TypeOK` |
| `SessionsExclusive` | `Spec => []OneAttemptPerSession` |
| `CapacityKept` | `Spec => []WithinCapacity` |
| `AttemptsOwnRows` | `Spec => []AttemptOwnsRow` |
| `SettledStaysFinal` | `Spec => SettledFinal` |
| `DependenciesRespected` | `Spec => []DependenciesKept` |
| `CancelledGraphsOver` | `Spec => []CancelledGraphOver` |
| `OrderKept` | `~CallsInLaunchGap => (Spec => SessionOrder)` |
| `HistoriesKept` | `~CallsInLaunchGap => (Spec => []HistoryComplete)` |
| `QueueImplemented` | `~CallsInLaunchGap => (Spec => ImplementsSessionQueue)` |

The only assumptions are `RunsAssumption`, the types of the constants;
`GraphsAssumption`, that graphs are not empty, are closed and have no cycle; and
`SessionsAssumption`, that no session of the host has the id of a node's session, which
`submit()` refuses (`runtime.ts:391`).  The first seven hold with API calls in the launch
gap, the last three without: finding 1 is the counterexample to `SessionOrder` with such
calls.

The argument.  `TypeOK` carries one clause beyond types, every attempt has its
row: without it a launched row could lie outside the journal and no other
invariant would be inductive.  Steps are then summarised once:

1. `JournalStep`: a step admits a run, admits the nodes of a graph, rewrites one row
   (`RowReplaced`, action by action), cancels the rows of a graph, or leaves the
   journal alone (`JournalKept`); all of these keep the session, the graph and the
   dependencies of every row (`JournalGrows`), so facts about them survive any step.
2. `AttemptsStep`: each step either only removes or advances attempts, or ends in
   the launches of `pump()` on such a reduced table.
3. `LaunchesExclusive` and `LaunchesCapacity`: `pump()` turns an exclusive table
   into an exclusive one and respects the capacity, because `Eligible` excludes
   the sessions of the table and at most `Capacity` rows are chosen.

`SessionsExclusive` and `CapacityKept` are inductive from 1-3.  `AttemptsOwnRows`
goes action by action: an action that takes a row out of `running` either is
the attempt itself leaving or aborts it in the same step.  `SettledStaysFinal`
is an action property from `AttemptOwnsRow`: the unguarded last transaction can
only meet a row that is running.

`DependenciesRespected` rests on two facts: success is final (`SuccessKept`, from
`SettledStep`, the step lemma of `SettledStaysFinal`), and what is new at work was
chosen by `pump()` among the eligible rows of the journal as it is after the step, for
a row only starts from an attempt (`StartedStep`).  `CancelledGraphsOver` needs the
strengthening `GraphsOver`: the rows of a cancelled graph are in the journal, so the
same submission cannot bring new ones, and they are settled; a retry, the only way out
of `failed`, is closed by its guard.  That attempts on them cannot write follows from
`AttemptOwnsRow`.  `TypeOK` of `DurableRuns` is proved and not checked again by a run.

The last three rest on one more invariant, `OrderInv`, which TLC checked first on the
instances of `runs_session` and of the graphs:

* `Ordered`: a run that has begun, or has been launched, is the first unfinished run of
  its session (`First`).  `pump()` launches only such runs; what could take the place away
  afterwards is a retry of an older failed run, and `hasLaterStartedRun` forbids it once
  the younger one has begun.  Between launch and beginning nothing but the absence of calls
  does, which is why the launch gap matters here.
* `RowsSound`: what a status says of the past of its run, such as that a run with
  operations has started and that a run whose admission was rolled back has no history.
* `NodesAlone`: a node is the only run of its session, since a graph is admitted once.
* `HistoriesComplete`: who has started, or is pending, knows all of its session.  Pending
  is the case of a run that failed before it was admitted and is retried: its conversation is
  rebuilt by `retry()` and not again by `execute()`.

`BeforeKept` is the step fact: what comes before a run that has begun is settled and stays
as it is.  So the turns a run must know do not change under it (`TurnsKept`), and when
it begins, `InheritComplete` computes them: the latest run that may be continued holds what
was before it (by `HistoriesComplete`), hands on its own turn or not, and between it and
the new run there is no turn.  `SessionTurns` selects from a sequence, and what it does
when a position is added is proved in `Selection_proofs`.

For the refinement each action has its abstract step: `BeginExecute` is `Serve` (no
other attempt is in the session by `OneAttemptPerSession`, no earlier turn is open by
`Ordered`), `Settle` and an aborted attempt are `Yield`, a retry of a failed run is
`Reopen`, cancellations and a rolled-back admission are `CallOff`, `Crash` is `Outage`, and
everything else admits a batch or shows nothing (`QueueSteps`).

### The execution of a run

For every set of calls, recoveries, approvals, answers and steering requests, and every
number of workers, turns, attempts, crashes, retries and approvals:

| module | theorem | statement |
| --- | --- | --- |
| `DurableExecution_proofs` | `TypeCorrect` | `Spec => []TypeOK` |
| | `ManualCallsOnce` | `Spec => []ManualOnce` |
| | `ApprovedCallsOnly` | `Spec => []ApprovedFirst` |
| | `BudgetsHold` | `Spec => []BudgetsKept` |
| | `CompletedForever` | `Spec => CompletedKept` |
| `DurableTranscript_proofs` | `ReplayIsFaithful` | `Spec => []ReplayFaithful` |
| | `TranscriptsWhole` | `Spec => []TranscriptWhole` |
| | `RequestsHeard` | `Spec => []SteeringHeard` |

The only assumption is `ExecutionAssumption`: the types of the constants, that the calls
of one answer have distinct ids, which is the provider's part, and that a call id is not
one of the two words the model uses in keys.

The argument has three layers.

1. `IInv` relates the loop in memory, which a crash loses, to the journal.  `LoopShape`
   and `Batch` say where the loop is and which answer or saved segment its calls come
   from; `Picks` that the calls in flight were picked with their approval, have a started
   operation and, if manual, have not been carried out.  The rest is about the journal
   alone, so that it survives the loop: `AnswersFirst` (the operations of tools come after
   the answer that called them, and none at or behind a call that lacks its approval),
   `Future` (nothing is known of later epochs), `Current` (what was carried out in this
   epoch has its operation), `Segment` and `Pause` (the same for calls that an approval
   moves to a later epoch under another key; this is what `ManualOnce` needs, since the key of
   an operation changes there while the effect does not), and `Budget`.
2. `RInv` adds that the transcript is a function of the journal: `Steered(t)` computes what
   the loop has heard when it asks for turn `t + 1`; `Chain` says that this is the recorded
   request of that turn, `Follows` that it is what the loop at work has heard.  Both are
   kept because the journal only grows (`JournalGrows`): no step changes a request, a
   result or a boundary that is recorded.  A retry changes nothing but attempts.
3. `TInv` adds what is owed and what was heard.  `Owed` generalises the property to
   transcripts that still owe results, which are those of a batch at work and those kept
   while a person decides.  `Fence` says that the inbox is closed behind an empty boundary
   of a final answer, `Separate` that a request is in one place, `Counted` that the
   requests of a transcript come from boundaries that were passed, so that the next
   boundary brings only new ones.

`Inductive` proves `Spec => []IInv`, with one lemma per action (`StartStep`, `DrainStep`, ...);
the other layers have one lemma per action each (`...Replay`, `...Told`).

### The task trees

`DurableTasks_proofs`, for every number of tasks, slots and effects, every set of child keys
and wait kinds, both recovery policies, and with crashes and reopenings:

| theorem | statement |
| --- | --- |
| `TypeCorrect` | `Spec => []TypeOK` |
| `ManualOnce` | `Spec => []ManualEffectOnce` |
| `EndsLast` | `RunsFollow => (Spec => []NoOrphans)` |
| `FenceHolds` | `FenceStands => (Spec => []Fenced)` |
| `RunsEnd` | `RunsFollow => (Spec => []OwnedRunsEnd)` |
| `OutcomesStay` | `RunsFollow /\ FenceStands => (Spec => OutcomesFinal)` |
| `NothingLost` | `Spec => []NothingForgotten` |
| `TwoPassesSuffice` | what `reconcile` leaves of a tree, for every world that is `Fine` |

`RunsFollow` is `~MicrotaskGaps \/ AgentKeys = {}` and `FenceStands` is
`~MicrotaskGaps \/ ~MayExceedLimits`.  Neither can be left out: finding 2 is what happens
without the first, the observation about rolled back transitions what happens without
the second.  Both leave the gaps open where they do no harm: with gaps, plain tasks end in
order and within payload limits fences hold.  `tasks_tree` satisfies both with gaps,
`tasks_live` without.

The invariant `IInv` has three parts.  `Fine` is about a world, so it can be stated of the
intermediate worlds of a transaction: parents come before their children (`Tree`), the
ready order holds exactly the ready tasks (`Queued`), a row fits its invocation and the
attempt of its run (`Sound`), and below a task that has ended everything has ended, below a
fenced one everything is fenced (`Nested`).  `NoOrphans` is the first half of `Nested` for
terminal tasks; it is not inductive without the part of `Sound` that a run which is
executing has a waiting owner.  `Between` says what holds between the last transaction of an
invocation and its `finally` handler, `Effects` that what was executed was recorded first.

The argument.  Every transaction is a function on worlds, so there is one lemma about
each function and one about each action.

1. `Goes(W, V, root)` summarises a transaction: `V` is fine, rows of other trees are
   untouched, and nothing that has ended changes.  Writing one row, cancelling a subtree,
   waking a parent and reconciling a task each satisfy it, and it is transitive.
2. `reconcileTree` is a recursion over the tasks of a tree, `reconcileRoots` one over the roots, and
   `Unfinished` one up the parents.  They are recursive functions, unfolded in three steps: such a
   function exists for every bound (`HaveUpTo`, `HavePasses`, `HaveResumes`, by a least
   counterexample), hence it satisfies its equation, hence what one pass keeps all passes keep.
3. `Follows(W, V)` adds what an action needs on top, and `...Good`, one lemma per action,
   puts `IInv'` and the action property together; `AlwaysInv` collects them.

`NothingLost` needs no assumption about gaps, and a second invariant on top of `IInv`.  Of a
tree, `Heard` says: if no invocation and no attempt is left in it (`Idle`), then the deadline
of each of its timers is noted, and only a timer that is due could go on.  `Heed` says that
every tree is heard while the process is up and was resumed, and implies `NothingForgotten`.
It is stated of idle trees because a tree in which something runs owes a reconciliation, in the
handler of that invocation or attempt; and of all trees, not of the tasks that could go on,
because what a task waits for lies in its children.  TLC checked `Heed` on the instances of
`tasks_tree` and `tasks_live` first.

4. `TwoPassesSuffice` is why the code may stop after two passes.  In the first, children before
   parents, a task that is looked at settles, wakes, or (a fail-fast wait that is spoiled) fences
   tasks below it (`Settles`, `Fences`).  `FirstPass` says what is left behind: a set `G` of
   tasks that were fenced after the pass had looked at them, each below another of `G` or below a
   fail-fast wait whose children are all over or fenced (`Covered`); outside `G` no wait is
   over, and a task that is to end has an unfinished child outside `G` as well.  The second
   pass finds spoiled waits covered, so it fences nothing again; it settles what it can of `G`
   from the leaves up, and the parents after them (`SecondPass`).  One pass does not suffice,
   which the mutant of `NothingForgotten` shows.
5. A step in one tree leaves the others (`Apart`) or leaves an invocation or an attempt behind
   (`BusyNext`), or reconciles the tree itself (`ReconciledHeard`).  Steps outside any
   invocation, `retry`, `resolveEffect`, `ContinueRun` and `Elapse`, write a row that cannot go on
   yet, or a timer whose deadline is noted (`RowHeard`).
6. `resume()` reconciles the trees of unfinished roots only; a tree whose root has ended has
   ended (`RootLast`), so all are heard after it, whatever was forgotten before the crash.

### The memory

`DurableMemory_proofs`, for every script of turns of the run and of the agent beside it, all
save policies, and any number of epochs, retries, crashes, lost answers, compactions, clears and
decisions of an operator:

| theorem | statement |
| --- | --- |
| `MemoryTypes` | `Spec => []TypeOK` |
| `MessagesInOrderOnce` | `Spec => []InOrderOnce` |
| `SummariesWhole` | `Spec => []CompactionWhole` |
| `MergesNoticed` | `Spec => MergeNoticed` |
| `TranscriptsSaved` | `NoneSteered /\ Spec => []TranscriptSaved` |

The assumption is `MemoryAssumption`, the types of the constants.  `NoneSteered` says that no
turn of a script is one that the journal steers after its answer; it cannot be left out, since
finding 3 is `TranscriptSaved` violated by such a turn.  `memory_run` satisfies it, and the
other theorems need nothing of the kind.

The first part is about data: what a writer collects in a segment under each policy, by the
least turn at which it fails (`SegmentSaves`: the messages in the order in which they were said, cut into
calls of `append()`, and all of them unless a turn is steered), and what `append()`,
`clear()` and a compaction do to the store.  Then there are five invariants, each resting on the one before it,
and each a theorem of its own (`StoreStaysSound` and so on); TLC checked all of them first on
the instance of `memory_run`.

1. `StoreSound`: the store is consistent, and a compaction under way (`Compacting`) has a
   revision which, if it is still that of the store, belongs to rows that are still there.  This
   is where `clear()` between snapshot and replacement is harmless: a cleared session gets a
   new number, so an old revision never matches again.
2. `RunSound`: the row of the run, the phase of its attempt and the operations of its writes
   belong together.  `InTurn` says that the writes are settled in their order, epoch by epoch;
   `AtWork` that what is sent or answered is the write that is due, with its attempt
   persisted, and that a run which is over or waits has no unsettled write.
3. `HistorySound`: a row of the run comes from a recorded write whose key the store holds
   (`RowsKnown`, `KeysKnown`), a key belongs to a settled write or to the one that is due, and
   the writes of an epoch hold its messages in order.  So when the store commits a write,
   everything of the run it already holds was said earlier, and a write sent again meets its key.
4. `VersionsSound`: a version in the hands of the run, if it is the current one of the store,
   belongs to the history the run has read and extended (`Fits`).  Versions do not come back:
   the session number and the generation only grow.  The step that commits on such a version
   therefore changes an unchanged history, or an operator or a duplicate answer was there
   before (`Honest`).
5. `TranscriptSound`: what the store answered for is there (`Stored`), and what a finished
   segment said is in its writes (`SaidRecorded`).

Steps are summarised twice, by what they do to the store (`StoreStep`, `RowsStep`) and to the writes
(`WritesStep`: one is settled, those of a segment are recorded, an epoch begins, or nothing
changes), so that an invariant about both is shown against four kinds of steps instead of one per
action.

### The teams

`AgentTeam_proofs`, for every set of members and all limits:

| theorem | statement |
| --- | --- |
| `TypeCorrect` | `Spec => []TypeOK` |
| `WorkWithinLimit` | `Spec => []AtWorkWithinLimit` |
| `HeardInOrderAlways` | `Spec => []HeardInOrder` |
| `OrphansAreStopped` | `~MicrotaskGaps => (Spec => []OrphansStopped)` |

The first three hold with the gap too; the fourth does not (section `AgentTeam`).

`HeardInOrder` needs to know where a message is.  A message is in up to three places at once: it
stays in the inbox after it was submitted to the queue of the run, until what was heard is
removed.  `Numbered` says that the three are stretches of the numbers of the messages, that
the inbox ends with the last one, and which messages of it are marked as submitted;
`Continuous` that nothing lies between them as long as the member can hear, and where the inbox
or the queue must be empty.  `Placed` ties permits and
status to the place of the task.  `Tree` makes the walk of `stopDescendants` reach all below a member.
`AtWorkWithinLimit` is counted on permits (`Holding`): a step that gives one takes it from those available.
The lemmas are about one member record first (what an operation does to inbox and queue), then about
the table of members, then about actions.

### The chat

`ResumableChat_proofs` proves `AnswerIsWhole`, `OwnStreams => (Spec => []AnswerWhole)`, for
every number of runs, events, frames and faults.  `OwnStreams` says that no two runs share a
stream id; the run's `StreamOf` satisfies it, and with a shared id the property fails (section
`ResumableChat`).

The invariant follows an event from the run to the screen: a stream holds the first events
of its run, in order (`StreamsHold`); what the connection of the chat has queued or in frames carries the
number it has in the run, and an end that says `completed` comes from a completed run and counts all
its events (`ConnServes`); the cursor of the chat, and of what it saved for a reload, counts what was
applied (`Counts`).  `Receive` drops an event at or below the cursor and refuses one that skips, so what is
shown grows by the next event; and an answer is only shown as complete on the end frame of
its run.

### Only model-checked

Every invariant and every action property of the passing runs has its theorem, under the
assumptions named there.  What is left to TLC:

* Liveness under fairness (`Settles`, `CancelSettles`, `WaitersWake`, `FlushEnds`, `TeamSettles`,
  `AnswerEnds` and the like), which is out of reach of the prover, as is `ENABLED`.

Inductions over data are done with the least counterexample (`Least` in `Selection_proofs`), since the
library's induction theorems take an operator as parameter, which the installed provers cannot
instantiate.

## Findings

1. **A retry in the launch gap lets a younger run overtake an older one**
   (`runs_gap`, `runtime.ts:795`).  `launch()` enters the run in `active` while
   `execute()` starts microtasks later.  `retry()` of an older failed run checks
   that no later run *started*; a queued successor that is launched but not started
   passes that check, and then executes while the older run is pending.
   `src/docs/packages/durable.md:185` says "Only the oldest unfinished run in
   each session is eligible."  It takes `retry()` in the same synchronous block as
   a call that schedules.  The session still has one attempt at a time
   (`SessionsExclusive`).
2. **An owned run overwrites its cancellation** (`tasks_gap`,
   `tasks/scheduler.ts:418`).  The transaction that ends a failed task marks the
   runs of its children cancelled and aborts the children's own invocations; the
   attempts of those runs are aborted by the reconciliation in the `finally` handler,
   some microtasks later.  An attempt that ends in between writes its outcome over
   `cancelled`, since the last transaction of `execute()` does not look at the
   status.  The task then ends as cancelled while its run may be waiting or
   pending a retry.  `src/docs/packages/durable-tasks.md:113` says "Neither becomes
   terminal until all owned work and active callbacks have settled".
3. **An answer that a durable run is steered after is not saved** (`memory_steered`,
  `src/packages/core/src/internal/agent-runtime/agent-run.ts:545`).  The loop saves an
  answer before its closing drain only if the steering queue of the process holds
  something.  The requests of a durable run come from its journal
  (`drainSteeringMessages()`, line 2345), so that queue is empty and, under the policies
  `message` and `turn`, the answer never reaches the memory, although the run goes on
  and completes.  `src/docs/packages/core.md:737` says of `message` that it "saves the user
  prompt, each completed assistant message, and each completed tool result as soon as
  they are ready".
4. **A retried node runs without the results of its dependencies** (`runs_graph`,
   `runtime.ts:725`).  The prompt of a node is joined with the results of its
   dependencies in the transaction that admits it.  If that exceeds a payload limit the
   transaction rolls back and the node fails, with the bare prompt as its saved input.
   `retry()` rebuilds the input of a run that was never admitted only outside graphs,
   and sets the node to `pending`; `execute()` resolves the input of `queued` runs only.
   The retried node starts with the bare prompt.  `src/docs/packages/durable.md:255`
   says "On first activation, the node receives its prompt followed by
   `Task dependency results (JSON):`", and the comment at `runtime.ts:723` asks for the
   rebuild "so a retry never runs with less context than the original attempt".

Observed while modelling, without a run:

* A write the store answers with `duplicate` takes over the version the store has
  *then* (`recorded-memory.ts:226`, `src/packages/memory-sqlite/src/store.ts:208`), so what others wrote in
  between is not noticed by the next write.  `MergeNoticed` therefore leaves out
  runs with such a write; without its exception for duplicates TLC finds the case.
* `src/packages/memory-sqlite/src/store.ts:415` and 443 compare a row with `null`,
  though the driver returns `undefined` for a row that does not exist.
* `transact()` of a task is rolled back beyond a payload limit, and the handler in
  `launch()` blocks the task some microtasks later, whatever happened to it
  (`tasks/scheduler.ts:280`; `FinishRejected`, then `SettleRejected`).  A `cancel()` in
  between finds a task at work and fences it; the handler then sets it from `cancelling`
  back to `needs_attention` without an outcome.  With one task, limits and
  `MicrotaskGaps`, TLC refutes `OutcomesFinal` this way.
  `src/docs/packages/durable-tasks.md:232` says "`task.cancel()` atomically fences its
  subtree against new work, then aborts invocations."
* A team member cancelled in the microtask after its run (section `AgentTeam`) and a
  stream id that is used again (section `ResumableChat`).

## Plan

In this order; each item is a module with its runs, then its theorems.

1. `DurableOwner` and `DurableRegistry`: two processes opening one store;
   registration against asynchronous submission.
2. `DurableEvents`: cursors against producers.
3. `DurableGoals` on top of `DurableTasks`.
4. `DurableExecution` with hooks and guardrails of the agent loop, which may end an attempt
   at places of their own.

## Running

    tlc -workers 2 -config DurableRuns_session.cfg MCDurableRuns
    tlapm DurableRuns_proofs.tla
    tlapm DurableTranscript_proofs.tla
    tlapm DurableTasks_proofs.tla
    tlapm DurableMemory_proofs.tla
    tlapm AgentTeam_proofs.tla
    tlapm ResumableChat_proofs.tla

`DurableTranscript_proofs` rests on `DurableExecution_proofs`,
and all but the chat and the execution on `Selection_proofs`; these are checked the same
way.

The other configurations are named after the module and the run.  Deadlock is checked
in the runs of `DurableRuns` and `DurableTasks`: their process can always crash and be
reopened.  In the other modules a system that has used up its bounds (crashes and
retries, turns of a team, messages of a user) and has settled has nothing left to do,
and their configurations set `CHECK_DEADLOCK FALSE`.
