----------------------------- MODULE DurableRuns -----------------------------
(***************************************************************************)
(* The run scheduler of @anvia/durable: one DurableRuntime process          *)
(* (packages/durable/src/runtime.ts) over a SQLite journal                  *)
(* (packages/durable/src/sqlite.ts).                                        *)
(*                                                                          *)
(* The journal survives a crash; the attempts, their abort controllers and  *)
(* the wake timer live in the process and do not.  Every API call and every *)
(* continuation of an attempt between two awaits is one action: the process *)
(* is single threaded and its transactions are synchronous.                 *)
(*                                                                          *)
(* Abstractions: a conversation is the sequence of runs whose messages it   *)
(* holds, the input of a graph node the set of the dependencies whose       *)
(* results it carries; what the agent does between two checkpoints is the   *)
(* choice of an outcome (DurableExecution opens that box); the wall clock   *)
(* is the action Elapse; the runs of tasks are left to DurableTasks.        *)
(***************************************************************************)
EXTENDS Integers, Sequences, FiniteSets, Selection

CONSTANTS
  Sessions,          \* session ids
  Requests,          \* request ids, the deduplication key inside a session
  Graphs,            \* graph submissions
  Needs,             \* Needs[g][i]: the nodes of graph g that its node i depends on
  MaxConcurrentRuns, \* DurableRuntimeOptions.maxConcurrentRuns
  MaxRuns,           \* bound: rows of the journal
  MaxWaits,          \* bound: model-failure waits of one run (the code's turn
                     \*   budget times modelRetry.maxAttempts - 1)
  MaxResumes,        \* bound: operator decisions (respond, resolve, retry) per run
  CallsInLaunchGap   \* may the host call the API in the microtasks between
                     \*   launch() and the first transaction of the attempt?

NoGraph == "none"   \* the graph of a run submitted by itself

\* What parseDurableGraphSubmission() lets through: dependencies inside the graph, no cycle.
Acyclic(needs) ==
  LET N == DOMAIN needs
  IN  \E rank \in [N -> N] : \A i \in N : needs[i] \subseteq {d \in N : rank[d] < rank[i]}

ASSUME GraphsAssumption ==
  /\ NoGraph \notin Graphs
  /\ Needs \in [Graphs -> Seq(SUBSET Nat)]
  /\ \A g \in Graphs : Needs[g] # <<>> /\ Acyclic(Needs[g])

\* submit() refuses the session ids it derives for the nodes of graphs.
ASSUME SessionsAssumption == \A s \in Sessions : s \notin Graphs \X Nat

ASSUME RunsAssumption ==
  /\ MaxConcurrentRuns \in Nat \ {0}
  /\ MaxRuns \in Nat
  /\ MaxWaits \in Nat
  /\ MaxResumes \in Nat
  /\ CallsInLaunchGap \in BOOLEAN

VARIABLES
  runs,      \* journal: rows of anvia_durable_runs in rowid order
  cancelled, \* journal: the graphs that are cancelled
  process,   \* "down", "ready", "failed" or "closing"
  attempt,   \* process memory: how far the attempt of each row is ("none": no entry in `active`)
  aborted,   \* process memory: rows whose attempt's AbortController has fired
  timer,     \* process memory: is wakeTimer armed?
  pumped     \* has pump() run since open()?  (read by fairness only)

vars == <<runs, cancelled, process, attempt, aborted, timer, pumped>>

-----------------------------------------------------------------------------
Ids      == 1..MaxRuns
Settled  == {"completed", "failed", "cancelled"}
Runnable == {"queued", "pending", "running", "retry_wait"}
Statuses == Settled \cup Runnable \cup {"waiting", "needs_attention"}
Phases   == {"none", "launched", "rejected", "executing", "leaving"}

Row == [session: Sessions \cup (Graphs \X Nat), request: Requests \cup Nat, status: Statuses,
        started: BOOLEAN,       \* startedAt is set
        due: BOOLEAN,           \* nextAttemptAt has passed (meaningful in retry_wait)
        blocked: BOOLEAN,       \* blockedOperation is set
        waits: Nat, resumes: Nat,
        work: {"nothing", "operations", "progress"},  \* what the operations table holds
        history: Seq(Ids),
        graph: Graphs \cup {NoGraph},
        needs: SUBSET Ids,      \* dependencies: the rows whose success this one waits for
        input: SUBSET Ids,      \* the dependencies whose results are in its input
        response: BOOLEAN]      \* a completed run: its outcome is a response

NewRow(s, q) ==
  [session |-> s, request |-> q, status |-> "queued", started |-> FALSE,
   due |-> FALSE, blocked |-> FALSE, waits |-> 0, resumes |-> 0,
   work |-> "nothing", history |-> <<>>,
   graph |-> NoGraph, needs |-> {}, input |-> {}, response |-> FALSE]

\* Node i of graph g in a journal of n rows: a run in a session of its own.
NewNode(g, i, n) ==
  [NewRow(<<g, i>>, i) EXCEPT !.graph = g, !.needs = {n + d : d \in Needs[g][i]}]

Rows(R) == 1..Len(R)

Nodes(R, g) == {r \in Rows(R) : R[r].graph = g}

\* The rows that have an entry in `active`.
Working(A) == {r \in Ids : A[r] # "none"}

TypeOK ==
  /\ runs \in Seq(Row)
  /\ Len(runs) <= MaxRuns
  /\ cancelled \subseteq Graphs
  /\ process \in {"down", "ready", "failed", "closing"}
  /\ attempt \in [Ids -> Phases]
  /\ Working(attempt) \subseteq Rows(runs)
  /\ aborted \subseteq Ids
  /\ timer \in BOOLEAN
  /\ pumped \in BOOLEAN

-----------------------------------------------------------------------------
(* Queries of the journal.  R is the journal as the transaction sees it.    *)

SameSession(R, p, r) == R[p].session = R[r].session
Unsettled(R, p) == R[p].status \notin Settled
Successful(R, p) == p \in Rows(R) /\ R[p].status = "completed" /\ R[p].response

\* Mutants of this module are operators that change one definition the way a
\* slip in the code would; nothing refers to them, they only document, with the
\* run that refutes them, that a property depends on the definition.

\* Mutant of Eligible: schedule() without its excluded sessions.
EligibleBesideAttempts(R, A) ==
  {r \in Rows(R) :
     /\ A[r] = "none"
     /\ R[r].status \in Runnable
     /\ \A p \in 1..(r - 1) : SameSession(R, p, r) => ~Unsettled(R, p)
     /\ \A d \in R[r].needs : Successful(R, d)}

\* Mutant of Eligible: a row only waits for earlier rows that are runnable, so
\* it overtakes one that waits for a person.
EligiblePastPaused(R, A) ==
  {r \in Rows(R) :
     /\ R[r].status \in Runnable
     /\ \A a \in Rows(R) : A[a] # "none" => ~SameSession(R, a, r)
     /\ \A p \in 1..(r - 1) : SameSession(R, p, r) => R[p].status \notin Runnable
     /\ \A d \in R[r].needs : Successful(R, d)}

\* Mutant of Eligible: a dependency only has to be over.
EligibleAfterAny(R, A) ==
  {r \in Rows(R) :
     /\ R[r].status \in Runnable
     /\ \A a \in Rows(R) : A[a] # "none" => ~SameSession(R, a, r)
     /\ \A p \in 1..(r - 1) : SameSession(R, p, r) => ~Unsettled(R, p)
     /\ \A d \in R[r].needs : R[d].status = "completed"}

\* The eligibility clause of schedule(): runnable, session without an attempt
\* in A, no earlier unsettled row in the session, every dependency successful.
Eligible(R, A) ==
  {r \in Rows(R) :
     /\ R[r].status \in Runnable
     /\ \A a \in Rows(R) : A[a] # "none" => ~SameSession(R, a, r)
     /\ \A p \in 1..(r - 1) : SameSession(R, p, r) => ~Unsettled(R, p)
     /\ \A d \in R[r].needs : Successful(R, d)}

Launchable(R, A) ==
  {r \in Eligible(R, A) : R[r].status = "retry_wait" => R[r].due}

\* The rows latestCompleted() chooses from: completed, or failed or cancelled after a start.
Continuable(R, s) ==
  {p \in Rows(R) : /\ R[p].session = s
                   /\ \/ R[p].status = "completed"
                      \/ R[p].status \in {"failed", "cancelled"} /\ R[p].started}

\* The newest of them, if any.
latestCompleted(R, s) ==
  {p \in Continuable(R, s) : \A q \in Continuable(R, s) : q <= p}

\* The conversation a settled run hands on: all of a completed one, and the
\* history and partial progress of any other.
HandsOn(R, p) ==
  IF R[p].status = "completed" \/ R[p].work = "progress"
    THEN Append(R[p].history, p)
    ELSE R[p].history

inheritSessionHistory(R, r) ==
  LET previous == latestCompleted(R, R[r].session)
  IN  IF previous = {} THEN <<>> ELSE HandsOn(R, CHOOSE p \in previous : TRUE)

\* The dependencies whose results the prompt of a node is followed by: all of them.
graphInput(R, r) == R[r].needs

hasLaterStartedRun(R, r) ==
  \E l \in (r + 1)..Len(R) :
     /\ SameSession(R, l, r)
     /\ R[l].status \notin {"queued", "cancelled"} \/ R[l].started

-----------------------------------------------------------------------------
(* pump() runs at the end of every API call and of every attempt: it        *)
(* launches the oldest launchable rows the free capacity allows and arms    *)
(* the timer for the rows still waiting for their next attempt.             *)

\* Mutant of Capacity: the attempts that are still settling are forgotten.
CapacityOfWorking(A) ==
  MaxConcurrentRuns - Cardinality({r \in Ids : A[r] \in {"launched", "executing"}})

Capacity(A) == MaxConcurrentRuns - Cardinality(Working(A))

\* The first n rows of S in rowid order (ORDER BY rowid LIMIT n).
FirstRows(S, n) ==
  {L \in SUBSET S : /\ Cardinality(L) <= n
                    /\ L # S => Cardinality(L) = n
                    /\ \A r \in L, q \in S \ L : r < q}

Launch(A, L) == [r \in Ids |-> IF r \in L THEN "launched" ELSE A[r]]

\* The `active` map after pump(); nothing is launched when there is no capacity.
Launches(R, A) ==
  IF Capacity(A) <= 0
    THEN {A}
    ELSE {Launch(A, L) : L \in FirstRows(Launchable(R, A), Capacity(A))}

\* Does schedule() report a later deadline?  pump() does not ask without capacity.
Deadline(R, A) ==
  /\ Capacity(A) > 0
  /\ \E r \in Eligible(R, A) : R[r].status = "retry_wait" /\ ~R[r].due

pump(R, A) ==
  /\ attempt' \in Launches(R, A)
  /\ timer' = Deadline(R, A)
  /\ pumped' = TRUE

\* assertOpen(), and where the host's synchronous code can run.
Callable ==
  /\ process = "ready"
  /\ CallsInLaunchGap \/ \A r \in Ids : attempt[r] \notin {"launched", "rejected"}

-----------------------------------------------------------------------------
(* API calls.  A rejected call (a conflict) changes nothing and is not an   *)
(* action.                                                                  *)

submit(s, q, enqueue) ==
  /\ Callable
  /\ Len(runs) < MaxRuns
  /\ \A p \in Rows(runs) : ~(runs[p].session = s /\ runs[p].request = q)
  /\ enqueue \/ \A p \in Rows(runs) :
                   runs[p].session = s => ~Unsettled(runs, p) /\ attempt[p] = "none"
  /\ runs' = Append(runs, NewRow(s, q))
  /\ pump(runs', attempt)
  /\ UNCHANGED <<cancelled, process, aborted>>

\* The nodes of a graph enter the journal in one transaction, in submission
\* order; the same submission again returns the existing graph.
submitGraph(g) ==
  /\ Callable
  /\ LET new == [i \in DOMAIN Needs[g] |-> NewNode(g, i, Len(runs))]
     IN  \/ Nodes(runs, g) # {} /\ UNCHANGED runs
         \/ /\ Nodes(runs, g) = {}
            /\ Len(runs) + Len(Needs[g]) <= MaxRuns
            /\ runs' = runs \o new
  /\ pump(runs', attempt)
  /\ UNCHANGED <<cancelled, process, aborted>>

\* The same submission again (a retried call) returns the existing run.
resubmit(s, q) ==
  /\ Callable
  /\ \E p \in Rows(runs) : runs[p].session = s /\ runs[p].request = q
  /\ pump(runs, attempt)
  /\ UNCHANGED <<runs, cancelled, process, aborted>>

\* Mutant of cancel: the journal is updated, the controller is not told.
cancelWithoutAbort(r) ==
  /\ Callable
  /\ r \in Rows(runs)
  /\ runs' = IF Unsettled(runs, r)
               THEN [runs EXCEPT ![r].status = "cancelled", ![r].due = FALSE]
               ELSE runs
  /\ pump(runs', attempt)
  /\ UNCHANGED <<cancelled, process, aborted>>

cancel(r) ==
  /\ Callable
  /\ r \in Rows(runs)
  /\ runs' = IF Unsettled(runs, r)
               THEN [runs EXCEPT ![r].status = "cancelled", ![r].due = FALSE]
               ELSE runs
  /\ aborted' = IF attempt[r] # "none" THEN aborted \cup {r} ELSE aborted
  /\ pump(runs', attempt)
  /\ UNCHANGED <<cancelled, process>>

CancelRow(row) ==
  IF row.status \in Settled THEN row ELSE [row EXCEPT !.status = "cancelled", !.due = FALSE]

\* Cancels what is unfinished in a graph, unless the graph is over.
cancelGraph(g) ==
  /\ Callable
  /\ Nodes(runs, g) # {}
  /\ IF g \in cancelled \/ \A r \in Nodes(runs, g) : Successful(runs, r)
       THEN UNCHANGED <<runs, cancelled, aborted>>
       ELSE /\ cancelled' = cancelled \cup {g}
            /\ runs' = [r \in Rows(runs) |-> IF r \in Nodes(runs, g) THEN CancelRow(runs[r])
                                                                   ELSE runs[r]]
            /\ aborted' = aborted \cup (Nodes(runs, g) \cap Working(attempt))
  /\ pump(runs', attempt)
  /\ UNCHANGED process

\* An answered approval or question puts the run back in line.
respond(r) ==
  /\ Callable
  /\ r \in Rows(runs)
  /\ runs[r].graph \notin cancelled
  /\ runs[r].status = "waiting"
  /\ runs[r].resumes < MaxResumes
  /\ runs' = [runs EXCEPT ![r].status = "pending", ![r].resumes = @ + 1]
  /\ pump(runs', attempt)
  /\ UNCHANGED <<cancelled, process, aborted>>

\* resolveTool() and resolveMemoryWrite(): the operator settles the operation
\* the run is blocked on.
resolve(r) ==
  /\ Callable
  /\ r \in Rows(runs)
  /\ runs[r].graph \notin cancelled
  /\ runs[r].status = "needs_attention"
  /\ runs[r].blocked
  /\ runs[r].resumes < MaxResumes
  /\ runs' = [runs EXCEPT ![r].status = "pending", ![r].blocked = FALSE,
                          ![r].resumes = @ + 1]
  /\ pump(runs', attempt)
  /\ UNCHANGED <<cancelled, process, aborted>>

\* activeRun() returns some unsettled row of the session, in index order.
SessionFree(R, r) ==
  LET unsettled == {o \in Rows(R) : SameSession(R, o, r) /\ Unsettled(R, o)}
  IN  unsettled = {} \/ \E o \in unsettled : o = r \/ R[o].status = "queued"

\* Mutant of retry: the history of a run that was never admitted is not rebuilt.
retryAsRecorded(r) ==
  /\ Callable
  /\ r \in Rows(runs)
  /\ attempt[r] = "none"
  /\ runs[r].graph \notin cancelled
  /\ runs[r].status \in {"failed", "needs_attention"}
  /\ SessionFree(runs, r)
  /\ ~hasLaterStartedRun(runs, r)
  /\ runs[r].resumes < MaxResumes
  /\ runs' = [runs EXCEPT ![r].status = "pending", ![r].blocked = FALSE, ![r].resumes = @ + 1]
  /\ pump(runs', attempt)
  /\ UNCHANGED <<cancelled, process, aborted>>

\* Mutant of retry: a node of a cancelled graph is taken too.
retryOfCancelled(r) ==
  /\ Callable
  /\ r \in Rows(runs)
  /\ attempt[r] = "none"
  /\ runs[r].status \in {"failed", "needs_attention"}
  /\ SessionFree(runs, r)
  /\ ~hasLaterStartedRun(runs, r)
  /\ runs[r].resumes < MaxResumes
  /\ LET rebuild == /\ runs[r].graph = NoGraph
                    /\ runs[r].history = <<>>
                    /\ runs[r].work = "nothing"
     IN  runs' = [runs EXCEPT ![r].status = "pending", ![r].blocked = FALSE,
                              ![r].resumes = @ + 1,
                              ![r].history = IF rebuild
                                               THEN inheritSessionHistory(runs, r)
                                               ELSE @]
  /\ pump(runs', attempt)
  /\ UNCHANGED <<cancelled, process, aborted>>

\* Only a run outside graphs that was never admitted gets its input rebuilt.
retry(r) ==
  /\ Callable
  /\ r \in Rows(runs)
  /\ attempt[r] = "none"
  /\ runs[r].graph \notin cancelled
  /\ runs[r].status \in {"failed", "needs_attention"}
  /\ SessionFree(runs, r)
  /\ ~hasLaterStartedRun(runs, r)
  /\ runs[r].resumes < MaxResumes
  /\ LET rebuild == /\ runs[r].graph = NoGraph
                    /\ runs[r].history = <<>>
                    /\ runs[r].work = "nothing"
     IN  runs' = [runs EXCEPT ![r].status = "pending", ![r].blocked = FALSE,
                              ![r].resumes = @ + 1,
                              ![r].history = IF rebuild
                                               THEN inheritSessionHistory(runs, r)
                                               ELSE @]
  /\ pump(runs', attempt)
  /\ UNCHANGED <<cancelled, process, aborted>>

resume ==
  /\ Callable
  /\ pump(runs, attempt)
  /\ UNCHANGED <<runs, cancelled, process, aborted>>

-----------------------------------------------------------------------------
(* An attempt: launch() put it in `active`; the rest runs in later          *)
(* microtasks and, while the agent works, later turns of the event loop.    *)

Enter(r, phase) == attempt' = [attempt EXCEPT ![r] = phase]

\* execute() throws at once when aborted, and returns when the row is no
\* longer runnable.
SkipExecute(r) ==
  /\ attempt[r] = "launched"
  /\ r \in aborted \/ runs[r].status \notin Runnable
  /\ Enter(r, "leaving")
  /\ UNCHANGED <<runs, cancelled, process, aborted, timer, pumped>>

BeginExecute(r) ==
  /\ attempt[r] = "launched"
  /\ r \notin aborted
  /\ runs[r].status \in Runnable
  /\ LET first == runs[r].status = "queued"
     IN  runs' = [runs EXCEPT ![r].status = "running", ![r].started = TRUE, ![r].due = FALSE,
                              ![r].history = IF first THEN inheritSessionHistory(runs, r) ELSE @,
                              ![r].input = IF first THEN graphInput(runs, r) ELSE @]
  /\ Enter(r, "executing")
  /\ UNCHANGED <<cancelled, process, aborted, timer, pumped>>

\* The inherited conversation, or the results of the dependencies, exceed a payload
\* limit: the admission transaction rolls back (DurableLimitError) ...
RejectAdmission(r) ==
  /\ attempt[r] = "launched"
  /\ r \notin aborted
  /\ runs[r].status = "queued"
  /\ graphInput(runs, r) # {} \/ inheritSessionHistory(runs, r) # <<>>
  /\ Enter(r, "rejected")
  /\ UNCHANGED <<runs, cancelled, process, aborted, timer, pumped>>

\* ... and the handler of launch() settles the run in a microtask of its own.
SettleRejected(r) ==
  /\ attempt[r] = "rejected"
  /\ process # "failed"
  /\ runs' = IF Unsettled(runs, r)
               THEN [runs EXCEPT ![r].status = "failed", ![r].due = FALSE]
               ELSE runs
  /\ Enter(r, "leaving")
  /\ UNCHANGED <<cancelled, process, aborted, timer, pumped>>

\* An operation of the run reaches the journal: the first one, or the one
\* whose request already carries an assistant message.
JournalWork(r) ==
  /\ attempt[r] = "executing"
  /\ r \notin aborted
  /\ \/ runs[r].work = "nothing" /\ runs' = [runs EXCEPT ![r].work = "operations"]
     \/ runs[r].work = "operations" /\ runs' = [runs EXCEPT ![r].work = "progress"]
  /\ UNCHANGED <<cancelled, process, attempt, aborted, timer, pumped>>

\* The last transaction of execute(), after signal.throwIfAborted().  Whether the
\* outcome is a response or a blocked answer matters to graphs only.
Settle(r) ==
  /\ attempt[r] = "executing"
  /\ r \notin aborted
  /\ \/ \E ok \in (IF runs[r].graph = NoGraph THEN {TRUE} ELSE BOOLEAN) :
           runs' = [runs EXCEPT ![r].status = "completed", ![r].response = ok]
     \/ runs' = [runs EXCEPT ![r].status = "failed"]
     \/ runs' = [runs EXCEPT ![r].status = "needs_attention"]
     \/ /\ runs[r].work # "nothing"
        /\ \/ runs' = [runs EXCEPT ![r].status = "waiting"]
           \/ runs' = [runs EXCEPT ![r].status = "needs_attention", ![r].blocked = TRUE]
     \/ /\ runs[r].work # "nothing"
        /\ runs[r].waits < MaxWaits
        /\ runs' = [runs EXCEPT ![r].status = "retry_wait", ![r].due = FALSE,
                                ![r].waits = @ + 1]
  /\ Enter(r, "leaving")
  /\ UNCHANGED <<cancelled, process, aborted, timer, pumped>>

\* An aborted attempt ends without writing.
SettleAborted(r) ==
  /\ \/ attempt[r] = "executing" /\ r \in aborted
     \/ attempt[r] = "rejected" /\ process = "failed"
  /\ Enter(r, "leaving")
  /\ UNCHANGED <<runs, cancelled, process, aborted, timer, pumped>>

\* Mutant of Leave: the entry is removed only while the runtime schedules.
LeaveWhenReady(r) ==
  /\ attempt[r] = "leaving"
  /\ process = "ready"
  /\ aborted' = aborted \ {r}
  /\ pump(runs, [attempt EXCEPT ![r] = "none"])
  /\ UNCHANGED <<runs, cancelled, process>>

\* Mutant of Leave: the next candidates are not looked for.
LeaveWithoutPump(r) ==
  /\ attempt[r] = "leaving"
  /\ aborted' = aborted \ {r}
  /\ attempt' = [attempt EXCEPT ![r] = "none"]
  /\ UNCHANGED <<runs, cancelled, process, timer, pumped>>

\* The finally handler of launch().
Leave(r) ==
  /\ attempt[r] = "leaving"
  /\ aborted' = aborted \ {r}
  /\ LET A == [attempt EXCEPT ![r] = "none"]
     IN  IF process = "ready" THEN pump(runs, A)
                              ELSE attempt' = A /\ UNCHANGED <<timer, pumped>>
  /\ UNCHANGED <<runs, cancelled, process>>

-----------------------------------------------------------------------------
(* Time, and the life of the process.                                       *)

Elapse(r) ==
  /\ r \in Rows(runs)
  /\ runs[r].status = "retry_wait"
  /\ ~runs[r].due
  /\ runs' = [runs EXCEPT ![r].due = TRUE]
  /\ UNCHANGED <<cancelled, process, attempt, aborted, timer, pumped>>

Wake ==
  /\ process = "ready"
  /\ timer
  /\ \E r \in Rows(runs) : runs[r].status = "retry_wait" /\ runs[r].due
  /\ pump(runs, attempt)
  /\ UNCHANGED <<runs, cancelled, process, aborted>>

AbortAll == aborted' = Working(attempt)

\* A journal error is fatal: fail() stops scheduling and aborts every attempt.
fail ==
  /\ process = "ready"
  /\ process' = "failed"
  /\ AbortAll
  /\ timer' = FALSE
  /\ UNCHANGED <<runs, cancelled, attempt, pumped>>

close ==
  /\ process \in {"ready", "failed"}
  /\ process' = "closing"
  /\ AbortAll
  /\ timer' = FALSE
  /\ UNCHANGED <<runs, cancelled, attempt, pumped>>

\* close() releases the store once every attempt has left.
Closed ==
  /\ process = "closing"
  /\ \A r \in Ids : attempt[r] = "none"
  /\ process' = "down"
  /\ UNCHANGED <<runs, cancelled, attempt, aborted, timer, pumped>>

Crash ==
  /\ process # "down"
  /\ process' = "down"
  /\ attempt' = [r \in Ids |-> "none"]
  /\ aborted' = {}
  /\ timer' = FALSE
  /\ UNCHANGED <<runs, cancelled, pumped>>

open ==
  /\ process = "down"
  /\ process' = "ready"
  /\ pumped' = FALSE
  /\ UNCHANGED <<runs, cancelled, attempt, aborted, timer>>

-----------------------------------------------------------------------------
Init ==
  /\ runs = <<>>
  /\ cancelled = {}
  /\ process = "ready"
  /\ attempt = [r \in Ids |-> "none"]
  /\ aborted = {}
  /\ timer = FALSE
  /\ pumped = FALSE

Calls ==
  \/ \E s \in Sessions, q \in Requests :
        resubmit(s, q) \/ \E enqueue \in BOOLEAN : submit(s, q, enqueue)
  \/ \E g \in Graphs : submitGraph(g) \/ cancelGraph(g)
  \/ \E r \in Ids : cancel(r) \/ respond(r) \/ resolve(r) \/ retry(r)
  \/ resume

Attempt(r) ==
  \/ SkipExecute(r)
  \/ BeginExecute(r)
  \/ RejectAdmission(r)
  \/ SettleRejected(r)
  \/ JournalWork(r)
  \/ Settle(r)
  \/ SettleAborted(r)
  \/ Leave(r)

Process == fail \/ close \/ Closed \/ Crash \/ open

Next ==
  \/ Calls
  \/ \E r \in Ids : Attempt(r) \/ Elapse(r)
  \/ Wake
  \/ Process

Spec == Init /\ [][Next]_vars

\* Microtasks and timers run; agents, models and tools answer or observe their
\* abort; the host calls resume() once after open().  Nothing else the host
\* or the operator does is assumed.
Fairness ==
  /\ \A r \in Ids : /\ WF_vars(SkipExecute(r) \/ BeginExecute(r) \/ RejectAdmission(r))
                    /\ WF_vars(SettleRejected(r) \/ Settle(r) \/ SettleAborted(r))
                    /\ WF_vars(Leave(r))
                    /\ WF_vars(Elapse(r))
  /\ WF_vars(Wake)
  /\ WF_vars(Closed)
  /\ WF_vars(~pumped /\ resume)

FairSpec == Spec /\ Fairness

-----------------------------------------------------------------------------
(* Properties.                                                              *)

\* Two attempts never work on one session at a time, whatever was cancelled,
\* answered or retried meanwhile: an attempt that was cancelled but has not
\* returned still holds its session (excludedSessions of schedule()).
Exclusive(R, A) ==
  \A r, q \in Rows(R) : A[r] # "none" /\ A[q] # "none" /\ SameSession(R, r, q) => r = q

OneAttemptPerSession == Exclusive(runs, attempt)

\* The entries of `active`, those still settling included, never exceed
\* maxConcurrentRuns.
WithinCapacity ==
  Cardinality(Working(attempt)) <= MaxConcurrentRuns

\* A row has an attempt at work exactly as the journal says: an attempt that
\* has not been aborted works on a row that is still "running", so the last
\* transaction of execute(), which does not look at the status, never
\* overwrites a cancellation.
AttemptOwnsRow ==
  \A r \in Rows(runs) :
     attempt[r] = "executing" /\ r \notin aborted => runs[r].status = "running"

\* A run begins, or begins again, only when every earlier run of its session
\* is settled ("Only the oldest unfinished run in each session is eligible").
SessionOrder ==
  [][\A r \in Rows(runs) :
        attempt[r] = "launched" /\ attempt'[r] = "executing" =>
           \A p \in 1..(r - 1) : SameSession(runs, p, r) => ~Unsettled(runs, p)]_vars

\* What a started run must have inherited: every earlier run of its session
\* that completed, or that left progress behind, once and in order.
SessionTurns(r) ==
  Selected([p \in 1..(r - 1) |-> p],
           {p \in 1..(r - 1) : /\ SameSession(runs, p, r)
                               /\ \/ runs[p].status = "completed"
                                  \/ runs[p].started /\ runs[p].work = "progress"})

\* No conversation loses, repeats or reorders a turn of its session, through
\* admission roll-backs, retries, cancellations and restarts.
HistoryComplete ==
  \A r \in Rows(runs) : runs[r].started => runs[r].history = SessionTurns(r)

\* Completed and cancelled are final: nothing restarts such a run and its
\* conversation is frozen; a failed run moves only by a retry, never once a
\* later run of the session started, and never in a cancelled graph.
SettledFinal ==
  [][\A r \in Rows(runs) :
        /\ runs[r].status \in {"completed", "cancelled"} => runs'[r] = runs[r]
        /\ runs[r].status = "failed" /\ runs'[r] # runs[r] =>
              /\ runs'[r].status = "pending"
              /\ ~hasLaterStartedRun(runs, r)
              /\ runs[r].graph \notin cancelled]_vars

\* A node begins work only when every dependency has completed with a response; a node
\* launched without would end the runtime (graphInput() throws and fail() follows).
DependenciesKept ==
  \A r \in Rows(runs) :
     runs[r].started \/ attempt[r] # "none" => \A d \in runs[r].needs : Successful(runs, d)

\* Nothing of a cancelled graph moves again ("Cancelled graphs cannot be restarted by
\* retrying their nodes"): its nodes are settled, and no attempt that could still write
\* works on one of them.
CancelledGraphOver ==
  \A r \in Rows(runs) :
     runs[r].graph \in cancelled =>
        ~Unsettled(runs, r) /\ (attempt[r] = "executing" => r \in aborted)

\* A node that has started holds the results of all of its dependencies in its input,
\* through rolled-back admissions, retries and restarts.
InputsResolved ==
  \A r \in Rows(runs) : runs[r].started => runs[r].input = runs[r].needs

\* The host paused what this row waits for: an earlier run of the session waits for a
\* person, or a node this one depends on, directly or not, is stopped without success.
Stopped(p) == runs[p].status \notin Runnable /\ ~Successful(runs, p)

Upstream(r) ==
  {p \in Rows(runs) : \A S \in SUBSET Ids :
     (\A q \in S \cup {r} : q \in Rows(runs) => runs[q].needs \subseteq S) => p \in S}

Held(r) ==
  \/ \E p \in 1..(r - 1) :
        SameSession(runs, p, r) /\ runs[p].status \in {"waiting", "needs_attention"}
  \/ \E p \in Upstream(r) : Stopped(p)

Due(r) == r \in Rows(runs) /\ runs[r].status \in Runnable

\* While the process stays up, runnable work never stalls: no lost wake-up of
\* a retry_wait run, no session left behind when another attempt leaves, no
\* node forgotten when the last of its dependencies succeeds.
RunnableProgress ==
  \A r \in Ids : Due(r) ~> ~Due(r) \/ process # "ready" \/ Held(r)

\* close() always releases the store.
CloseReleases == process = "closing" ~> process = "down"

=============================================================================
