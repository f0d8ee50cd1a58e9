----------------------------- MODULE DurableTasks -----------------------------
(***************************************************************************)
(* Task trees of @anvia/durable: the TaskScheduler (tasks/scheduler.ts), the *)
(* transactions of tasks/state.ts, the invocation of a phase                *)
(* (tasks/invocation.ts) and the agent runs that tasks own (tasks/agent.ts). *)
(*                                                                          *)
(* The task table survives a crash; invocations, their abort controllers    *)
(* and the deadlines live in the process.  A phase of a task may spawn      *)
(* children, start an external effect, and ends in a transition.            *)
(*                                                                          *)
(* Abstractions: a checkpoint is not kept, so a phase may do what any other *)
(* may; a task has one effect key and one signal name; the scheduling of an *)
(* owned run is DurableRuns' subject, here a runnable run is attempted at   *)
(* some time; the wall clock is the action Elapse; definitions and their    *)
(* versions appear as a phase that cannot begin.                            *)
(***************************************************************************)
EXTENDS Integers, Sequences, FiniteSets, Selection

CONSTANTS
  RootKeys,           \* request ids of submitTask() in the one session of the model
  ChildKeys,          \* keys of spawn()
  AgentKeys,          \* keys of spawnAgent()
  WaitKinds,          \* the waits phases use
  Recovery,           \* recovery policy of the effect: "manual" or "safe"
  MaxConcurrentTasks, \* DurableRuntimeOptions.maxConcurrentTasks
  MaxTasks,           \* bound: rows of the task table
  MaxEffects,         \* bound: how often a safe effect is executed
  MayExceedLimits,    \* may a transition exceed a payload limit?
  MicrotaskGaps       \* may other callbacks run in the microtasks between a task's
                      \*   last transaction and its finally handler?

ASSUME TasksAssumption ==
  /\ ChildKeys \cap AgentKeys = {}
  /\ WaitKinds \subseteq {"allSettled", "failFast", "signal", "timer"}
  /\ Recovery \in {"manual", "safe"}
  /\ MaxConcurrentTasks \in Nat \ {0}
  /\ MaxTasks \in Nat
  /\ MaxEffects \in Nat
  /\ MayExceedLimits \in BOOLEAN
  /\ MicrotaskGaps \in BOOLEAN

VARIABLES
  tasks,      \* journal: rows of anvia_durable_tasks in rowid order
  ready,      \* journal: the pending and running rows in ready_order
  call,       \* process memory: the invocation of each task
  attempt,    \* process memory: the attempt of each task's owned run
  deadlines,  \* process memory: roots for which the timer is armed
  process,    \* "up", "closing" (closed or failed) or "down"
  resumed,    \* has resume() been called since open()?  (read by properties only)
  executed    \* the outside world: how often each task's effect was executed

vars == <<tasks, ready, call, attempt, deadlines, process, resumed, executed>>

-----------------------------------------------------------------------------
Ids        == 1..MaxTasks
Keys       == RootKeys \cup ChildKeys \cup AgentKeys
Terminal   == {"completed", "failed", "cancelled"}
Ready      == {"pending", "running"}
Decided    == {"completing", "cancelling"} \cup Terminal
RunSettled == {"completed", "failed", "cancelled"}
Runnable   == {"queued", "pending", "running", "retry_wait"}
Paused     == {"waiting", "needs_attention"}

\* due: the time of a timer wait has come.
Wait   == [kind: WaitKinds \cup {"none", "agent"}, ids: SUBSET Ids, due: BOOLEAN]
WaitFor(kind, ids) == [kind |-> kind, ids |-> ids, due |-> FALSE]
NoWait == WaitFor("none", {})

Task == [root: Ids, parent: 0..MaxTasks, key: Keys,
         status: Ready \cup {"waiting", "needs_attention"} \cup Decided,
         wait: Wait,
         outcome: Terminal \cup {"none"},
         blocked: BOOLEAN,                        \* blockedOperation is set
         effect: {"none", "started", "completed"},
         signalled: BOOLEAN,
         run: RunSettled \cup Runnable \cup Paused \cup {"none"}]  \* the owned run

NewTask(id, root, parent, key) ==
  [root |-> root, parent |-> parent, key |-> key, status |-> "pending", wait |-> NoWait,
   outcome |-> "none", blocked |-> FALSE, effect |-> "none", signalled |-> FALSE,
   run |-> "none"]

\* fatal: the invocation met an effect that a person must reconcile.
Call == [phase: {"none", "launched", "executing", "returned", "rejected", "leaving"},
         aborted: BOOLEAN, flight: BOOLEAN, fatal: BOOLEAN]
NoCall == [phase |-> "none", aborted |-> FALSE, flight |-> FALSE, fatal |-> FALSE]

TypeOK ==
  /\ tasks \in Seq(Task)
  /\ Len(tasks) <= MaxTasks
  /\ ready \in Seq({t \in 1..Len(tasks) : tasks[t].status \in Ready})
  /\ \A t \in 1..Len(tasks) : tasks[t].status \in Ready => \E i \in DOMAIN ready : ready[i] = t
  /\ call \in [Ids -> Call]
  /\ attempt \in [Ids -> {"none", "executing", "aborted", "leaving"}]
  /\ deadlines \subseteq Ids
  /\ process \in {"up", "closing", "down"}
  /\ resumed \in BOOLEAN
  /\ executed \in [Ids -> Nat]

-----------------------------------------------------------------------------
(* Transactions are functions on the journal and the memory of the process, *)
(* W; an action computes the next one and commits it.                       *)

Now == [tasks |-> tasks, ready |-> ready, call |-> call, attempt |-> attempt,
        deadlines |-> deadlines]

Commit(W) ==
  /\ tasks' = W.tasks
  /\ ready' = W.ready
  /\ call' = W.call
  /\ attempt' = W.attempt
  /\ deadlines' = W.deadlines

Rows(W) == 1..Len(W.tasks)
Without(queue, S) == Selected(queue, {i \in DOMAIN queue : queue[i] \notin S})
Children(W, t) == {c \in Rows(W) : W.tasks[c].parent = t}
Ended(W, t) == W.tasks[t].status \in Terminal
Active(W) == {t \in Ids : W.call[t].phase # "none"}

\* putTask(): a saved row goes to the end of the ready order.
saveTask(W, t, row) ==
  [W EXCEPT !.tasks[t] = row,
            !.ready = Without(@, {t}) \o (IF row.status \in Ready THEN <<t>> ELSE <<>>)]

createTask(W, row) ==
  [W EXCEPT !.tasks = Append(@, row),
            !.ready = IF row.status \in Ready THEN Append(@, Len(W.tasks) + 1) ELSE @]

\* The unfinished tasks of the subtrees of S, reached through unfinished tasks; a parent has the
\* smaller id.
Unfinished(W, S) ==
  LET upTo[t \in 0..Len(W.tasks)] ==
        IF t = 0 THEN {}
        ELSE LET above == upTo[t - 1] IN
             IF ~Ended(W, t) /\ (t \in S \/ W.tasks[t].parent \in above) THEN above \cup {t}
             ELSE above
  IN  upTo[Len(W.tasks)]

Cancelled(row) ==
  [row EXCEPT !.status = "cancelling", !.outcome = "cancelled", !.wait = NoWait,
              !.blocked = FALSE,
              !.run = IF @ \in Runnable \cup Paused THEN "cancelled" ELSE @]

\* The tasks of S are fenced against new work.  (SubSeq makes the rows a tuple, as Append in a
\* later step needs it: TLC 1.7.4 loses an EXCEPT on a function that it appends to.)
Fence(W, S) ==
  LET rows == [t \in Rows(W) |-> IF t \in S THEN Cancelled(W.tasks[t]) ELSE W.tasks[t]]
  IN  [W EXCEPT !.tasks = SubSeq(rows, 1, Len(W.tasks)), !.ready = Without(@, S)]

\* Mutant of cancelTree: only the selected tasks are fenced.
cancelTasks(W, S) == Fence(W, {t \in S : ~Ended(W, t)})

\* Fences the subtrees of S.
cancelTree(W, S) == Fence(W, Unfinished(W, S))

abort(W, S) ==
  LET told(t) == W.call[t].aborted \/ (t \in S /\ W.call[t].phase # "none")
  IN  [W EXCEPT !.call = [t \in Ids |-> [W.call[t] EXCEPT !.aborted = told(t)]]]

\* The scheduler cancels subtrees and aborts the invocations in them.
CancelAndAbort(W, S) == abort(cancelTree(W, S), Unfinished(W, S))

-----------------------------------------------------------------------------
(* reconcile(): two passes over the tree, children before parents, then the *)
(* attempts of cancelled runs are aborted.                                  *)

\* failFast: the first unsuccessful child cancels the others.
FailFast(W, t) ==
  LET wait == W.tasks[t].wait
      spoiled == \E c \in wait.ids : W.tasks[c].status \in {"failed", "cancelled"}
  IN  IF wait.kind = "failFast" /\ spoiled
        THEN CancelAndAbort(W, {c \in wait.ids : W.tasks[c].status # "cancelling"})
        ELSE W

WaitOver(W, t) ==
  LET wait == W.tasks[t].wait
  IN  \/ wait.kind \in {"allSettled", "failFast"} /\ \A c \in wait.ids : Ended(W, c)
      \/ wait.kind = "signal" /\ W.tasks[t].signalled
      \/ wait.kind = "timer" /\ wait.due

\* Mutant of RunEnded: a run that waits for a person counts as ended.
RunStopped(row) == row.wait.kind = "agent" /\ row.run \notin Runnable

RunEnded(row) == row.wait.kind = "agent" /\ row.run \in RunSettled

\* What a waiting task learns: its wait is over, or its owned run has ended.
Woken(W, t) ==
  LET row == W.tasks[t]
  IN  IF row.status # "waiting"
        THEN W
        ELSE IF WaitOver(W, t)
          THEN saveTask(W, t, [row EXCEPT !.status = "pending", !.wait = NoWait])
          ELSE IF RunEnded(row)
            THEN saveTask(W, t, [row EXCEPT !.status = "completing", !.wait = NoWait,
                                            !.outcome = row.run])
            ELSE FailFast(W, t)

\* Mutant of Settleable: the children are not waited for.
SettleableAlone(W, t) ==
  /\ W.tasks[t].status \in {"completing", "cancelling"}
  /\ W.call[t].phase = "none"
  /\ W.attempt[t] = "none"

Settleable(W, t) ==
  /\ W.tasks[t].status \in {"completing", "cancelling"}
  /\ W.call[t].phase = "none"
  /\ W.attempt[t] = "none"
  /\ \A c \in Children(W, t) : Ended(W, c)

SettleTask(W, t) ==
  IF Settleable(W, t)
    THEN saveTask(W, t, [W.tasks[t] EXCEPT !.status = W.tasks[t].outcome])
    ELSE W

InTree(W, root) == {t \in Rows(W) : W.tasks[t].root = root}

reconcileTask(W, root, t) ==
  IF t \in InTree(W, root) THEN SettleTask(Woken(W, t), t) ELSE W

\* Parents have the smaller ids: the last task comes first.
reconcileTree(W, root) ==
  LET n == Len(W.tasks)
      after[k \in 0..n] ==
        IF k = 0 THEN W ELSE reconcileTask(after[k - 1], root, n + 1 - k)
  IN  after[n]

syncAgents(W, root) ==
  [W EXCEPT !.attempt = [t \in Ids |->
     IF @[t] = "executing" /\ t \in InTree(W, root) /\ W.tasks[t].status = "cancelling"
       THEN "aborted" ELSE @[t]]]

\* The next deadline of the tree, kept per root.
Timed(W, root) ==
  \E t \in InTree(W, root) : W.tasks[t].status = "waiting" /\ W.tasks[t].wait.kind = "timer"

\* Mutant of reconcile: the deadline is not noted.
reconcileUntimed(W, root) ==
  syncAgents(reconcileTree(reconcileTree(W, root), root), root)

\* Mutant of reconcile: one pass only.
reconcileOnce(W, root) ==
  LET V == reconcileTree(W, root)
  IN  syncAgents([V EXCEPT !.deadlines = IF Timed(V, root) THEN @ \cup {root} ELSE @ \ {root}],
                 root)

reconcile(W, root) ==
  LET V == reconcileTree(reconcileTree(W, root), root)
  IN  syncAgents([V EXCEPT !.deadlines = IF Timed(V, root) THEN @ \cup {root} ELSE @ \ {root}],
                 root)

\* pump(): the free capacity goes to the first ready tasks that have no invocation.
pump(W) ==
  LET waiting == Without(W.ready, Active(W))
      free == MaxConcurrentTasks - Cardinality(Active(W))
      chosen == {waiting[i] : i \in {j \in DOMAIN waiting : j <= free}}
  IN  [W EXCEPT !.call = [t \in Ids |-> IF t \in chosen
                                          THEN [NoCall EXCEPT !.phase = "launched"]
                                          ELSE @[t]]]

Reconciled(W, t) == pump(reconcile(W, W.tasks[t].root))

-----------------------------------------------------------------------------
(* API calls.                                                               *)

\* Without gaps nothing runs between a last transaction and its finally handler.
Turn == MicrotaskGaps \/ \A t \in Ids : call[t].phase \notin {"rejected", "leaving"}

Callable == process = "up" /\ Turn

Known(parent, key) == {t \in Rows(Now) : tasks[t].parent = parent /\ tasks[t].key = key}

submitTask(key) ==
  /\ Callable
  /\ IF Known(0, key) # {}
       THEN Commit(pump(Now))
       ELSE LET id == Len(tasks) + 1
            IN  id <= MaxTasks /\ Commit(pump(createTask(Now, NewTask(id, id, 0, key))))
  /\ UNCHANGED <<process, resumed, executed>>

cancel(t) ==
  /\ Callable
  /\ t \in Rows(Now)
  /\ Commit(Reconciled(CancelAndAbort(Now, {t}), t))
  /\ UNCHANGED <<process, resumed, executed>>

signal(t) ==
  /\ Callable
  /\ t \in Rows(Now)
  /\ "signal" \in WaitKinds
  /\ tasks[t].signalled \/ tasks[t].status \notin Decided
  /\ Commit(Reconciled(IF tasks[t].signalled
                         THEN Now
                         ELSE saveTask(Now, t, [tasks[t] EXCEPT !.signalled = TRUE]), t))
  /\ UNCHANGED <<process, resumed, executed>>

Unblocked(row) == [row EXCEPT !.status = "pending", !.blocked = FALSE]

retry(t) ==
  /\ Callable
  /\ t \in Rows(Now)
  /\ call[t].phase = "none"
  /\ tasks[t].status = "needs_attention"
  /\ Commit(pump(saveTask(Now, t, Unblocked(tasks[t]))))
  /\ UNCHANGED <<process, resumed, executed>>

resolveEffect(t) ==
  /\ Callable
  /\ t \in Rows(Now)
  /\ call[t].phase = "none"
  /\ tasks[t].status = "needs_attention"
  /\ tasks[t].blocked
  /\ tasks[t].effect = "started"
  /\ Commit(pump(saveTask(Now, t, [Unblocked(tasks[t]) EXCEPT !.effect = "completed"])))
  /\ UNCHANGED <<process, resumed, executed>>

\* Every tree whose root is unfinished in V.
reconcileRoot(W, V, t) ==
  IF V.tasks[t].parent = 0 /\ ~Ended(V, t) THEN reconcile(W, t) ELSE W

reconcileRoots(V) ==
  LET after[t \in 0..Len(V.tasks)] ==
        IF t = 0 THEN V ELSE reconcileRoot(after[t - 1], V, t)
  IN  after[Len(V.tasks)]

resume ==
  /\ Callable
  /\ Commit(pump(reconcileRoots(Now)))
  /\ resumed' = TRUE
  /\ UNCHANGED <<process, executed>>

-----------------------------------------------------------------------------
(* The invocation of a phase.                                               *)

InPhase(t, phase) ==
  /\ call[t].phase = phase
  /\ Turn

\* execute() starts in a later turn of the event loop.
Begin(t) ==
  /\ InPhase(t, "launched")
  /\ IF call[t].aborted \/ tasks[t].status \notin Ready
       THEN Commit([Now EXCEPT !.call[t].phase = "leaving"])
       ELSE \/ Commit([saveTask(Now, t, [tasks[t] EXCEPT !.status = "running"])
                         EXCEPT !.call[t].phase = "executing"])
            \/ Commit([saveTask(Now, t, [tasks[t] EXCEPT !.status = "needs_attention"])
                         EXCEPT !.call[t].phase = "leaving"])
  /\ UNCHANGED <<process, resumed, executed>>

\* assertActive().
AssertActive(t) == ~call[t].aborted /\ ~call[t].fatal /\ tasks[t].status = "running"

\* A known key gives its child; a new one makes a row, for an agent with its run.
Spawn(t, key) ==
  /\ InPhase(t, "executing")
  /\ AssertActive(t)
  /\ LET id == Len(tasks) + 1
         child == NewTask(id, tasks[t].root, t, key)
         row == IF key \in AgentKeys
                  THEN [child EXCEPT !.status = "waiting", !.run = "queued",
                                     !.wait = WaitFor("agent", {})]
                  ELSE child
         W == IF Known(t, key) # {} THEN Now ELSE createTask(Now, row)
     IN  /\ Len(W.tasks) <= MaxTasks
         /\ Commit(pump(syncAgents(W, tasks[t].root)))
  /\ UNCHANGED <<process, resumed, executed>>

\* Mutant of StartEffect: the recovery policy is not consulted.
StartEffectAgain(t) ==
  /\ InPhase(t, "executing")
  /\ AssertActive(t)
  /\ ~call[t].flight
  /\ tasks[t].effect # "completed"
  /\ executed[t] < MaxEffects
  /\ tasks' = [tasks EXCEPT ![t].effect = "started"]
  /\ call' = [call EXCEPT ![t].flight = TRUE]
  /\ executed' = [executed EXCEPT ![t] = @ + 1]
  /\ UNCHANGED <<ready, attempt, deadlines, process, resumed>>

\* effect(): the operation is saved as started, then the callback is called; an
\* operation that was started before and is manual is a matter for a person.
StartEffect(t) ==
  /\ InPhase(t, "executing")
  /\ AssertActive(t)
  /\ ~call[t].flight
  /\ tasks[t].effect # "completed"
  /\ IF tasks[t].effect = "started" /\ Recovery = "manual"
       THEN /\ call' = [call EXCEPT ![t].fatal = TRUE]
            /\ UNCHANGED <<tasks, executed>>
       ELSE /\ executed[t] < MaxEffects
            /\ tasks' = [tasks EXCEPT ![t].effect = "started"]
            /\ call' = [call EXCEPT ![t].flight = TRUE]
            /\ executed' = [executed EXCEPT ![t] = @ + 1]
  /\ UNCHANGED <<ready, attempt, deadlines, process, resumed>>

\* The callback ends: with a result that is saved while the phase may still act,
\* or with an error.
EndEffect(t) ==
  /\ call[t].flight
  /\ Turn
  /\ call' = [call EXCEPT ![t].flight = FALSE]
  /\ \/ UNCHANGED tasks
     \/ /\ call[t].phase = "executing"
        /\ AssertActive(t)
        /\ tasks' = [tasks EXCEPT ![t].effect = "completed"]
  /\ UNCHANGED <<ready, attempt, deadlines, process, resumed, executed>>

\* The phase returns while its effect is in flight: finish() aborts and waits.
ReturnEarly(t) ==
  /\ InPhase(t, "executing")
  /\ call[t].flight
  /\ call' = [call EXCEPT ![t].phase = "returned", ![t].aborted = TRUE]
  /\ UNCHANGED <<tasks, ready, attempt, deadlines, process, resumed, executed>>

\* The waits a phase may ask for.
Waits(t) ==
  {WaitFor(kind, {}) : kind \in WaitKinds \cap {"signal", "timer"}}
    \cup {WaitFor(kind, ids) : kind \in WaitKinds \cap {"allSettled", "failFast"},
                               ids \in SUBSET Children(Now, t)}

\* The row after a transition, or after an error that is the task's own.
Pending(t) == [tasks[t] EXCEPT !.status = "pending"]
Waiting(t, wait) == [tasks[t] EXCEPT !.status = "waiting", !.wait = wait]
Completing(t) == [tasks[t] EXCEPT !.status = "completing", !.outcome = "completed"]
Ending(t, outcome) == [tasks[t] EXCEPT !.status = "cancelling", !.outcome = outcome]
Blocked(t, effect) == [tasks[t] EXCEPT !.status = "needs_attention", !.blocked = effect]

\* The next row of a phase that returned or threw.
Transition(t) ==
  IF call[t].fatal THEN {Blocked(t, TRUE)}
  ELSE IF call[t].phase = "returned" THEN {Ending(t, "failed")}
  ELSE {Pending(t), Completing(t), Ending(t, "failed"), Ending(t, "cancelled"), Blocked(t, FALSE)}
         \cup {Waiting(t, wait) : wait \in Waits(t)}

\* The invocation is over: the phase has returned and its effect has settled.
Over(t) ==
  /\ call[t].phase \in {"executing", "returned"}
  /\ ~call[t].flight
  /\ Turn

\* Mutant of Finish: a fenced task still takes its transition.
FinishRegardless(t) ==
  /\ Over(t)
  /\ \E row \in Transition(t) :
       LET owned == IF row.status = "cancelling" THEN Children(Now, t) ELSE {}
           W == saveTask(CancelAndAbort(Now, owned), t, row)
       IN  Commit([W EXCEPT !.call[t].phase = "leaving"])
  /\ UNCHANGED <<process, resumed, executed>>

\* The last transaction of execute(): a failed or cancelled task takes its children along.
Finish(t) ==
  /\ Over(t)
  /\ IF process # "up" \/ tasks[t].status # "running"
       THEN Commit([Now EXCEPT !.call[t].phase = "leaving"])
       ELSE \E row \in Transition(t) :
              LET owned == IF row.status = "cancelling" THEN Children(Now, t) ELSE {}
                  W == saveTask(CancelAndAbort(Now, owned), t, row)
              IN  Commit([W EXCEPT !.call[t].phase = "leaving"])
  /\ UNCHANGED <<process, resumed, executed>>

\* The transition exceeds a payload limit and its transaction rolls back ...
FinishRejected(t) ==
  /\ Over(t)
  /\ MayExceedLimits
  /\ process = "up"
  /\ tasks[t].status = "running"
  /\ Commit([Now EXCEPT !.call[t].phase = "rejected"])
  /\ UNCHANGED <<process, resumed, executed>>

\* ... and the handler of launch() blocks the task, whatever its status is by then;
\* a journal that has failed refuses that too.
SettleRejected(t) ==
  /\ call[t].phase = "rejected"
  /\ LET row == [tasks[t] EXCEPT !.status = "needs_attention", !.wait = NoWait, !.outcome = "none"]
         blocked == saveTask(Now, t, row)
     IN  \E W \in {blocked} \cup (IF process = "up" THEN {} ELSE {Now}) :
            Commit([W EXCEPT !.call[t].phase = "leaving"])
  /\ UNCHANGED <<process, resumed, executed>>

\* Mutant of Leave: the tree is not reconciled.
LeaveQuietly(t) ==
  /\ call[t].phase = "leaving"
  /\ LET W == [Now EXCEPT !.call[t] = NoCall]
     IN  Commit(IF process = "up" THEN pump(W) ELSE W)
  /\ UNCHANGED <<process, resumed, executed>>

\* The finally handler of launch().
Leave(t) ==
  /\ call[t].phase = "leaving"
  /\ LET W == [Now EXCEPT !.call[t] = NoCall]
     IN  Commit(IF process = "up" THEN Reconciled(W, t) ELSE W)
  /\ UNCHANGED <<process, resumed, executed>>

-----------------------------------------------------------------------------
(* The owned runs: DurableRuntime as far as tasks see it.                   *)

\* The outcome of the owning task is not decided.
Mutable(t) == tasks[t].status \notin Decided

\* A runnable run gets an attempt, which tells the scheduler that it is running.
LaunchRun(t) ==
  /\ Callable
  /\ t \in Rows(Now)
  /\ attempt[t] = "none"
  /\ tasks[t].run \in Runnable
  /\ Commit(Reconciled([Now EXCEPT !.tasks[t].run = "running", !.attempt[t] = "executing"], t))
  /\ UNCHANGED <<process, resumed, executed>>

\* Mutant of EndRun: an aborted attempt writes its end.
EndRunRegardless(t) ==
  /\ attempt[t] \in {"executing", "aborted"}
  /\ Turn
  /\ \E status \in {"completed", "failed", "retry_wait"} \cup Paused :
       tasks' = [tasks EXCEPT ![t].run = status]
  /\ attempt' = [attempt EXCEPT ![t] = "leaving"]
  /\ UNCHANGED <<ready, call, deadlines, process, resumed, executed>>

\* The last transaction of an attempt, after signal.throwIfAborted(); it does not look at the
\* status of the run.
EndRun(t) ==
  /\ attempt[t] = "executing"
  /\ Turn
  /\ \E status \in {"completed", "failed", "retry_wait"} \cup Paused :
       tasks' = [tasks EXCEPT ![t].run = status]
  /\ attempt' = [attempt EXCEPT ![t] = "leaving"]
  /\ UNCHANGED <<ready, call, deadlines, process, resumed, executed>>

AbortRun(t) ==
  /\ attempt[t] = "aborted"
  /\ Turn
  /\ attempt' = [attempt EXCEPT ![t] = "leaving"]
  /\ UNCHANGED <<tasks, ready, call, deadlines, process, resumed, executed>>

LeaveRun(t) ==
  /\ attempt[t] = "leaving"
  /\ Turn
  /\ LET W == [Now EXCEPT !.attempt[t] = "none"]
     IN  Commit(IF process = "up" THEN Reconciled(W, t) ELSE W)
  /\ UNCHANGED <<process, resumed, executed>>

\* runtime.cancel() of an owned run.
CancelRun(t) ==
  /\ Callable
  /\ t \in Rows(Now)
  /\ tasks[t].run # "none"
  /\ Commit(Reconciled([Now EXCEPT
                          !.tasks[t].run = IF @ \in RunSettled THEN @ ELSE "cancelled",
                          !.attempt[t] = IF @ = "executing" THEN "aborted" ELSE @], t))
  /\ UNCHANGED <<process, resumed, executed>>

\* respond(), resolveTool() and retry() of an owned run.
ContinueRun(t) ==
  /\ Callable
  /\ t \in Rows(Now)
  /\ Mutable(t)
  /\ \/ tasks[t].run \in Paused
     \/ tasks[t].run = "failed" /\ attempt[t] = "none"
  /\ tasks' = [tasks EXCEPT ![t].run = "pending"]
  /\ UNCHANGED <<ready, call, attempt, deadlines, process, resumed, executed>>

-----------------------------------------------------------------------------
(* Time, and the life of the process.                                       *)

Elapse(t) ==
  /\ t \in Rows(Now)
  /\ tasks[t].status = "waiting"
  /\ tasks[t].wait.kind = "timer"
  /\ ~tasks[t].wait.due
  /\ tasks' = [tasks EXCEPT ![t].wait.due = TRUE]
  /\ UNCHANGED <<ready, call, attempt, deadlines, process, resumed, executed>>

\* The deadline of a tree has passed.
Awake(root) ==
  /\ Callable
  /\ root \in deadlines
  /\ \E t \in InTree(Now, root) : tasks[t].wait.due

Wake(root) ==
  /\ Awake(root)
  /\ Commit(Reconciled(Now, root))
  /\ UNCHANGED <<process, resumed, executed>>

\* close(), or a fatal journal error: every invocation and attempt is aborted and
\* nothing is scheduled any more.
close ==
  /\ process = "up"
  /\ process' = "closing"
  /\ LET W == abort(Now, Ids)
     IN  Commit([W EXCEPT !.attempt = [t \in Ids |-> IF @[t] = "executing" THEN "aborted" ELSE @[t]],
                          !.deadlines = {}])
  /\ UNCHANGED <<resumed, executed>>

Closed ==
  /\ process = "closing"
  /\ \A t \in Ids : call[t].phase = "none" /\ attempt[t] = "none"
  /\ process' = "down"
  /\ UNCHANGED <<tasks, ready, call, attempt, deadlines, resumed, executed>>

Crash ==
  /\ process # "down"
  /\ process' = "down"
  /\ call' = [t \in Ids |-> NoCall]
  /\ attempt' = [t \in Ids |-> "none"]
  /\ deadlines' = {}
  /\ UNCHANGED <<tasks, ready, resumed, executed>>

open ==
  /\ process = "down"
  /\ process' = "up"
  /\ resumed' = FALSE
  /\ UNCHANGED <<tasks, ready, call, attempt, deadlines, executed>>

-----------------------------------------------------------------------------
Init ==
  /\ tasks = <<>>
  /\ ready = <<>>
  /\ call = [t \in Ids |-> NoCall]
  /\ attempt = [t \in Ids |-> "none"]
  /\ deadlines = {}
  /\ process = "up"
  /\ resumed = TRUE
  /\ executed = [t \in Ids |-> 0]

Calls ==
  \/ \E key \in RootKeys : submitTask(key)
  \/ \E t \in Ids : cancel(t) \/ signal(t) \/ retry(t) \/ resolveEffect(t)
  \/ resume

Invocation(t) ==
  \/ Begin(t)
  \/ \E key \in ChildKeys \cup AgentKeys : Spawn(t, key)
  \/ StartEffect(t)
  \/ EndEffect(t)
  \/ ReturnEarly(t)
  \/ Finish(t)
  \/ FinishRejected(t)
  \/ SettleRejected(t)
  \/ Leave(t)

OwnedRun(t) ==
  \/ LaunchRun(t)
  \/ EndRun(t)
  \/ AbortRun(t)
  \/ LeaveRun(t)
  \/ CancelRun(t)
  \/ ContinueRun(t)

Process == close \/ Closed \/ Crash \/ open

Next ==
  \/ Calls
  \/ \E t \in Ids : Invocation(t) \/ OwnedRun(t) \/ Elapse(t) \/ Wake(t)
  \/ Process

Spec == Init /\ [][Next]_vars

\* Callbacks end or observe their abort, effects settle, attempts of owned runs end,
\* time passes and timers fire, and the host calls resume() once it opened the runtime.
\* Nobody has to answer, retry, signal or spawn.  Every clause is weak fairness with
\* the enabling condition written out (WF computes it by evaluating reconcile()); the
\* callbacks of an attempt have strong fairness, because the event loop serves its queue in
\* order and microtasks of the invocations only delay them.
InvocationFair(t) ==
  /\ []<>~InPhase(t, "launched") \/ []<><<Begin(t)>>_vars
  /\ []<>~(call[t].flight /\ Turn) \/ []<><<EndEffect(t)>>_vars
  /\ []<>~Over(t) \/ []<><<Finish(t)>>_vars
  /\ []<>(call[t].phase # "rejected") \/ []<><<SettleRejected(t)>>_vars
  /\ []<>(call[t].phase # "leaving") \/ []<><<Leave(t)>>_vars

RunFair(t) ==
  /\ <>[](attempt[t] \notin {"executing", "aborted"} \/ ~Turn) \/ []<><<EndRun(t) \/ AbortRun(t)>>_vars
  /\ <>[](attempt[t] # "leaving" \/ ~Turn) \/ []<><<LeaveRun(t)>>_vars

TimeFair(t) ==
  /\ WF_vars(Elapse(t))
  /\ []<>~Awake(t) \/ []<><<Wake(t)>>_vars

Fairness ==
  /\ \A t \in Ids : InvocationFair(t) /\ RunFair(t) /\ TimeFair(t)
  /\ []<>(resumed \/ ~Callable) \/ []<><<resume>>_vars

FairSpec == Spec /\ Fairness

-----------------------------------------------------------------------------
(* Properties.                                                              *)

\* A task that has ended has no invocation, no attempt of an owned run and no
\* unfinished child: settling waits for all of them (reconcileTree).
NoOrphans ==
  \A t \in Rows(Now) :
     Ended(Now, t) => /\ call[t].phase = "none"
                      /\ attempt[t] = "none"
                      /\ \A c \in Children(Now, t) : Ended(Now, c)

\* The fence: below a cancelling task everything is cancelling or over, and the
\* invocations there have been told.  Nothing new can be spawned or started then.
Fenced ==
  \A t \in Rows(Now) :
     tasks[t].status = "cancelling" =>
        /\ \A c \in Children(Now, t) : tasks[c].status \in {"cancelling"} \cup Terminal
        /\ call[t].phase \in {"launched", "executing"} => call[t].aborted

\* A manual effect is executed at most once in the life of its task: phases that are
\* replayed, retries, reconciliations, crashes and shut-downs included.
ManualEffectOnce ==
  Recovery = "manual" => \A t \in Ids : executed[t] <= 1

\* An outcome is final; a cancelling task only ends, and never successfully.
OutcomesFinal ==
  [][\A t \in Rows(Now) :
        /\ Ended(Now, t) => tasks'[t] = tasks[t]
        /\ tasks[t].status = "cancelling" =>
              tasks'[t].status \in {"cancelling", "failed", "cancelled"}]_vars

\* When a task has ended, so has the run it owns: nothing of it runs or will run again
\* ("Neither becomes terminal until all owned work and active callbacks have settled").
OwnedRunsEnd ==
  \A t \in Rows(Now) :
     Ended(Now, t) /\ tasks[t].run # "none" => tasks[t].run \in RunSettled

InStatus(t, S) == t \in Rows(Now) /\ tasks[t].status \in S

\* There is something for reconcile() to do at t.
Actionable(t) ==
  \/ Settleable(Now, t)
  \/ tasks[t].status = "waiting" /\ (WaitOver(Now, t) \/ RunEnded(tasks[t]))

\* No wake-up is lost: when a task could settle or go on, its tree has a reconciliation
\* ahead of it, by an invocation or an attempt that has not left yet, by the timer, or by
\* the resume() the host owes after it opened the runtime.
NothingForgotten ==
  process = "up" /\ resumed =>
    \A t \in Rows(Now) :
       Actionable(t) =>
         \/ \E u \in InTree(Now, tasks[t].root) : call[u].phase # "none" \/ attempt[u] # "none"
         \/ tasks[t].wait.due /\ tasks[t].root \in deadlines

\* A cancelled tree comes to its end while the process stays up.
CancelSettles ==
  \A t \in Ids :
     InStatus(t, {"cancelling"}) ~> InStatus(t, Terminal) \/ process # "up"

\* A waiting task whose wait is over, or whose owned run has ended, goes on, unless a person
\* retries the failed run first.
Stalled(t) == InStatus(t, {"waiting"}) /\ Actionable(t)
WaitersWake == \A t \in Ids : Stalled(t) ~> ~Stalled(t) \/ process # "up"

=============================================================================
