-------------------------- MODULE DurableRuns_proofs --------------------------
(***************************************************************************)
(* Theorems about DurableRuns for every number of sessions, requests, rows,  *)
(* graphs and slots.  The journal and the attempt table are typed            *)
(* (TypeCorrect); no session ever has two attempts (SessionsExclusive); the  *)
(* slots are never exceeded (CapacityKept); an attempt that was not aborted  *)
(* owns a running row (AttemptsOwnRows); a settled run is final              *)
(* (SettledStaysFinal); nodes wait for what they need (DependenciesRespected) *)
(* and a cancelled graph is over (CancelledGraphsOver).                      *)
(*                                                                         *)
(* The rest assumes that the host calls nothing between launch() and the     *)
(* first transaction of an attempt: OrderInv says that what has begun is the *)
(* first unfinished run of its session and knows the session's conversation. *)
(* From it follow that runs begin in order (OrderKept), that no conversation *)
(* loses, repeats or reorders a turn (HistoriesKept), and that the runtime   *)
(* implements the queue of its sessions (QueueImplemented).                  *)
(***************************************************************************)
EXTENDS DurableRunsQueue, Selection_proofs, FiniteSetTheorems

-----------------------------------------------------------------------------
(* Facts about the journal and the scheduler's query, free of variables.    *)

\* Replacing a row keeps a journal a journal of the same length.
LEMMA RowUpdate ==
  ASSUME NEW R \in Seq(Row), NEW r \in Rows(R), NEW row \in Row
  PROVE  /\ [R EXCEPT ![r] = row] \in Seq(Row)
         /\ Len([R EXCEPT ![r] = row]) = Len(R)
BY DEF Rows

\* The conversation a run inherits is a sequence of rows.
LEMMA InheritType ==
  ASSUME NEW R \in Seq(Row), Len(R) <= MaxRuns, NEW r \in Rows(R)
  PROVE  inheritSessionHistory(R, r) \in Seq(Ids)
<1> DEFINE previous == latestCompleted(R, R[r].session)
<1>1. \A p \in previous : HandsOn(R, p) \in Seq(Ids)
  <2> SUFFICES ASSUME NEW p \in previous
               PROVE  HandsOn(R, p) \in Seq(Ids)
    OBVIOUS
  <2>1. p \in Rows(R)
    BY DEF latestCompleted, Continuable
  <2>2. p \in Ids
    BY <2>1, RunsAssumption DEF Rows, Ids
  <2>3. R[p] \in Row
    BY <2>1 DEF Rows
  <2>4. R[p].history \in Seq(Ids)
    BY <2>3 DEF Row
  <2> QED
    BY <2>2, <2>4 DEF HandsOn
<1>2. CASE previous = {}
  BY <1>2 DEF inheritSessionHistory
<1>3. CASE previous # {}
  <2>1. (CHOOSE q \in previous : TRUE) \in previous
    BY <1>3
  <2> QED
    BY <1>1, <1>3, <2>1 DEF inheritSessionHistory
<1> QED
  BY <1>2, <1>3

\* The ids of the rows are finitely many.
LEMMA IdsFinite == IsFiniteSet(Ids)
BY FS_Interval, RunsAssumption DEF Ids

\* The attempts form a finite set, so the capacity is an integer.
LEMMA WorkingFinite ==
  ASSUME NEW A
  PROVE  /\ IsFiniteSet(Working(A))
         /\ Cardinality(Working(A)) \in Nat
         /\ Capacity(A) \in Int
<1>1. IsFiniteSet(Working(A))
  BY IdsFinite, FS_Subset DEF Working
<1>2. Cardinality(Working(A)) \in Nat
  BY <1>1, FS_CardinalityType
<1> QED
  BY <1>1, <1>2, RunsAssumption DEF Capacity

\* What pump() may do to `active`: it only adds launched attempts, for rows
\* the query calls eligible, no more than the capacity.
LEMMA LaunchesEffect ==
  ASSUME NEW R \in Seq(Row), Len(R) <= MaxRuns,
         NEW A \in [Ids -> Phases], NEW B \in Launches(R, A)
  PROVE  \E L \in SUBSET Eligible(R, A) :
            /\ B = Launch(A, L)
            /\ L = {} \/ Cardinality(L) <= Capacity(A)
<1>1. CASE Capacity(A) <= 0
  <2>1. B = A
    BY <1>1 DEF Launches
  <2>2. A = Launch(A, {})
    BY DEF Launch
  <2> QED
    BY <2>1, <2>2
<1>2. CASE ~(Capacity(A) <= 0)
  <2>1. PICK L \in FirstRows(Launchable(R, A), Capacity(A)) : B = Launch(A, L)
    BY <1>2 DEF Launches
  <2>2. L \subseteq Eligible(R, A) /\ Cardinality(L) <= Capacity(A)
    BY <2>1 DEF FirstRows, Launchable
  <2> QED
    BY <2>1, <2>2
<1> QED
  BY <1>1, <1>2

\* What the query returns are rows.
LEMMA EligibleRows ==
  ASSUME NEW R \in Seq(Row), Len(R) <= MaxRuns, NEW A, NEW r \in Eligible(R, A)
  PROVE  r \in Rows(R) /\ r \in Ids
BY RunsAssumption DEF Eligible, Rows, Ids

\* pump() only launches.
LEMMA LaunchesType ==
  ASSUME NEW R \in Seq(Row), Len(R) <= MaxRuns,
         NEW A \in [Ids -> Phases], NEW B \in Launches(R, A)
  PROVE  /\ B \in [Ids -> Phases]
         /\ \A r \in Ids : B[r] # A[r] => r \in Rows(R) /\ B[r] = "launched"
<1>1. PICK L \in SUBSET Eligible(R, A) : B = Launch(A, L)
  BY LaunchesEffect
<1> QED
  BY <1>1, EligibleRows DEF Launch, Phases

\* Launching keeps sessions exclusive: the query excludes the sessions that
\* have an attempt, and admits at most one row of any other.
LEMMA LaunchesExclusive ==
  ASSUME NEW R \in Seq(Row), Len(R) <= MaxRuns,
         NEW A \in [Ids -> Phases], NEW B \in Launches(R, A), Exclusive(R, A)
  PROVE  Exclusive(R, B)
<1>1. PICK L \in SUBSET Eligible(R, A) : B = Launch(A, L)
  BY LaunchesEffect
<1> SUFFICES ASSUME NEW r \in Rows(R), NEW q \in Rows(R),
                    B[r] # "none", B[q] # "none", SameSession(R, r, q)
             PROVE  r = q
  BY DEF Exclusive
<1>2. r \in Ids /\ q \in Ids /\ r \in Int /\ q \in Int
  BY RunsAssumption DEF Rows, Ids
<1>3. CASE r \in L /\ q \in L
  BY <1>1, <1>2, <1>3 DEF Eligible, SameSession, Unsettled, Runnable, Settled, Rows
<1>4. CASE r \in L /\ q \notin L
  BY <1>1, <1>2, <1>4 DEF Eligible, SameSession, Launch
<1>5. CASE r \notin L /\ q \in L
  BY <1>1, <1>2, <1>5 DEF Eligible, SameSession, Launch
<1>6. CASE r \notin L /\ q \notin L
  BY <1>1, <1>2, <1>6 DEF Exclusive, Launch
<1> QED
  BY <1>3, <1>4, <1>5, <1>6

\* Launching never exceeds the slots.
LEMMA LaunchesCapacity ==
  ASSUME NEW R \in Seq(Row), Len(R) <= MaxRuns,
         NEW A \in [Ids -> Phases], NEW B \in Launches(R, A),
         Cardinality(Working(A)) <= MaxConcurrentRuns
  PROVE  Cardinality(Working(B)) <= MaxConcurrentRuns
<1>1. PICK L \in SUBSET Eligible(R, A) :
              B = Launch(A, L) /\ (L = {} \/ Cardinality(L) <= Capacity(A))
  BY LaunchesEffect
<1>2. L \subseteq Ids
  BY EligibleRows
<1>3. IsFiniteSet(L) /\ Cardinality(L) \in Nat
  BY <1>2, IdsFinite, FS_Subset, FS_CardinalityType
<1>4. Working(B) = Working(A) \cup L
  BY <1>1, <1>2 DEF Working, Launch
<1>5. Cardinality(Working(A) \cup L)
         = Cardinality(Working(A)) + Cardinality(L) - Cardinality(Working(A) \cap L)
  BY <1>3, WorkingFinite, FS_Union
<1>6. Cardinality(Working(A) \cap L) \in Nat
  BY <1>3, FS_Subset, FS_CardinalityType, Working(A) \cap L \subseteq L
<1>7. CASE L = {}
  BY <1>4, <1>7
<1>8. CASE Cardinality(L) <= Capacity(A)
  BY <1>3, <1>4, <1>5, <1>6, <1>8, WorkingFinite, RunsAssumption DEF Capacity
<1> QED
  BY <1>1, <1>7, <1>8

-----------------------------------------------------------------------------
(* The shape of a step: what it may do to the journal and to the attempts.   *)

\* A row of the journal is a row.
LEMMA RowTyped ==
  ASSUME TypeOK, NEW r \in Rows(runs)
  PROVE  runs[r] \in Row
BY DEF TypeOK, Rows

\* The row of an attempt exists.
LEMMA AttemptRow ==
  ASSUME TypeOK, NEW r \in Ids, attempt[r] # "none"
  PROVE  r \in Rows(runs) /\ runs[r] \in Row
BY RowTyped DEF TypeOK, Working

\* A row of the same run: what submit() and submitGraph() decided stays.
SameRun(old, row) ==
  /\ row.session = old.session
  /\ row.request = old.request
  /\ row.graph = old.graph
  /\ row.needs = old.needs

\* One row is replaced by a row of the same run; only an attempt starts a run.
Replaces(r, row) ==
  /\ SameRun(runs[r], row)
  /\ row.started => runs[r].started \/ attempt[r] # "none"
  /\ runs' = [runs EXCEPT ![r] = row]

ReplacedAt(r) == r \in Rows(runs) /\ \E row \in Row : Replaces(r, row)

Replaced == \E r \in Ids : ReplacedAt(r)

Admitted ==
  /\ Len(runs) < MaxRuns
  /\ \E s \in Sessions, q \in Requests : runs' = Append(runs, NewRow(s, q))

GraphNodes(g) == [i \in DOMAIN Needs[g] |-> NewNode(g, i, Len(runs))]

GraphAdmitted ==
  \E g \in Graphs : /\ Nodes(runs, g) = {}
                    /\ Len(runs) + Len(Needs[g]) <= MaxRuns
                    /\ runs' = runs \o GraphNodes(g)

GraphRows(g) ==
  [r \in Rows(runs) |-> IF r \in Nodes(runs, g) THEN CancelRow(runs[r]) ELSE runs[r]]

GraphCancelled == \E g \in Graphs : runs' = GraphRows(g)

JournalKept == runs' = runs \/ Admitted \/ Replaced \/ GraphAdmitted \/ GraphCancelled

\* The steps that write one row.
RowStep(r) ==
  \/ cancel(r) \/ respond(r) \/ resolve(r) \/ retry(r)
  \/ BeginExecute(r) \/ SettleRejected(r) \/ JournalWork(r) \/ Settle(r)
  \/ Elapse(r)

\* A transaction of one run replaces its row.
LEMMA RowReplaced ==
  ASSUME TypeOK, NEW r \in Ids, RowStep(r), runs' # runs
  PROVE  ReplacedAt(r)
<1>0. runs \in Seq(Row) /\ Len(runs) <= MaxRuns
  BY DEF TypeOK
<1>1. ASSUME cancel(r)
      PROVE  ReplacedAt(r)
  <2>1. r \in Rows(runs) /\ runs[r] \in Row
    BY <1>1, RowTyped DEF cancel
  <2> DEFINE row == [runs[r] EXCEPT !.status = "cancelled", !.due = FALSE]
  <2>2. row \in Row /\ SameRun(runs[r], row) /\ row.started = runs[r].started
    BY <2>1 DEF SameRun, Row, Statuses, Settled
  <2>3. runs' = [runs EXCEPT ![r] = row]
    BY <1>0, <1>1, <2>1 DEF cancel, Rows
  <2> HIDE DEF row
  <2> QED
    BY <2>1, <2>2, <2>3 DEF ReplacedAt, Replaces
<1>2. ASSUME respond(r)
      PROVE  ReplacedAt(r)
  <2>1. r \in Rows(runs) /\ runs[r] \in Row
    BY <1>2, RowTyped DEF respond
  <2>2. runs[r].resumes + 1 \in Nat
    BY <2>1 DEF Row
  <2> DEFINE row == [runs[r] EXCEPT !.status = "pending", !.resumes = runs[r].resumes + 1]
  <2>3. row \in Row /\ SameRun(runs[r], row) /\ row.started = runs[r].started
    BY <2>1, <2>2 DEF SameRun, Row, Statuses, Runnable
  <2>4. runs' = [runs EXCEPT ![r] = row]
    BY <1>0, <1>2, <2>1 DEF respond, Rows
  <2> HIDE DEF row
  <2> QED
    BY <2>1, <2>3, <2>4 DEF ReplacedAt, Replaces
<1>3. ASSUME resolve(r)
      PROVE  ReplacedAt(r)
  <2>1. r \in Rows(runs) /\ runs[r] \in Row
    BY <1>3, RowTyped DEF resolve
  <2>2. runs[r].resumes + 1 \in Nat
    BY <2>1 DEF Row
  <2> DEFINE row == [runs[r] EXCEPT !.status = "pending", !.blocked = FALSE,
                                    !.resumes = runs[r].resumes + 1]
  <2>3. row \in Row /\ SameRun(runs[r], row) /\ row.started = runs[r].started
    BY <2>1, <2>2 DEF SameRun, Row, Statuses, Runnable
  <2>4. runs' = [runs EXCEPT ![r] = row]
    BY <1>0, <1>3, <2>1 DEF resolve, Rows
  <2> HIDE DEF row
  <2> QED
    BY <2>1, <2>3, <2>4 DEF ReplacedAt, Replaces
<1>4. ASSUME retry(r)
      PROVE  ReplacedAt(r)
  <2>1. r \in Rows(runs) /\ runs[r] \in Row
    BY <1>4, RowTyped DEF retry
  <2>2. runs[r].resumes + 1 \in Nat
    BY <2>1 DEF Row
  <2> DEFINE rebuild == /\ runs[r].graph = NoGraph
                        /\ runs[r].history = <<>>
                        /\ runs[r].work = "nothing"
             history == IF rebuild THEN inheritSessionHistory(runs, r) ELSE runs[r].history
             row == [runs[r] EXCEPT !.status = "pending", !.blocked = FALSE,
                                    !.resumes = runs[r].resumes + 1, !.history = history]
  <2>3. history \in Seq(Ids)
    BY <1>0, <2>1, InheritType DEF Row
  <2>4. row \in Row /\ SameRun(runs[r], row) /\ row.started = runs[r].started
    <3> HIDE DEF history
    <3> QED
      BY <2>1, <2>2, <2>3 DEF SameRun, Row, Statuses, Runnable
  <2>5. runs' = [runs EXCEPT ![r] = row]
    BY <1>0, <1>4, <2>1 DEF retry, Rows
  <2> HIDE DEF row
  <2> QED
    BY <2>1, <2>4, <2>5 DEF ReplacedAt, Replaces
<1>5. ASSUME BeginExecute(r)
      PROVE  ReplacedAt(r)
  <2>1. r \in Rows(runs) /\ runs[r] \in Row
    BY <1>5, AttemptRow DEF BeginExecute
  <2> DEFINE history == IF runs[r].status = "queued" THEN inheritSessionHistory(runs, r)
                                                     ELSE runs[r].history
             input == IF runs[r].status = "queued" THEN graphInput(runs, r) ELSE runs[r].input
             row == [runs[r] EXCEPT !.status = "running", !.started = TRUE, !.due = FALSE,
                                    !.history = history, !.input = input]
  <2>2. history \in Seq(Ids) /\ input \in SUBSET Ids
    BY <1>0, <2>1, InheritType DEF Row, graphInput
  <2>3. row \in Row /\ SameRun(runs[r], row)
    <3> HIDE DEF history, input
    <3> QED
      BY <2>1, <2>2 DEF SameRun, Row, Statuses, Runnable
  <2>4. runs' = [runs EXCEPT ![r] = row]
    BY <1>0, <1>5, <2>1 DEF BeginExecute, Rows
  <2>5. attempt[r] # "none"
    BY <1>5 DEF BeginExecute
  <2> HIDE DEF row
  <2> QED
    BY <2>1, <2>3, <2>4, <2>5 DEF ReplacedAt, Replaces
<1>6. ASSUME SettleRejected(r)
      PROVE  ReplacedAt(r)
  <2>1. r \in Rows(runs) /\ runs[r] \in Row
    BY <1>6, AttemptRow DEF SettleRejected
  <2> DEFINE row == [runs[r] EXCEPT !.status = "failed", !.due = FALSE]
  <2>2. row \in Row /\ SameRun(runs[r], row) /\ row.started = runs[r].started
    BY <2>1 DEF SameRun, Row, Statuses, Settled
  <2>3. runs' = [runs EXCEPT ![r] = row]
    BY <1>0, <1>6, <2>1 DEF SettleRejected, Rows
  <2> HIDE DEF row
  <2> QED
    BY <2>1, <2>2, <2>3 DEF ReplacedAt, Replaces
<1>7. ASSUME JournalWork(r)
      PROVE  ReplacedAt(r)
  <2>1. r \in Rows(runs) /\ runs[r] \in Row
    BY <1>7, AttemptRow DEF JournalWork
  <2>2. PICK w \in {"operations", "progress"} : runs' = [runs EXCEPT ![r].work = w]
    BY <1>7 DEF JournalWork
  <2> DEFINE row == [runs[r] EXCEPT !.work = w]
  <2>3. row \in Row /\ SameRun(runs[r], row) /\ row.started = runs[r].started
    BY <2>1 DEF SameRun, Row
  <2>4. runs' = [runs EXCEPT ![r] = row]
    BY <1>0, <2>1, <2>2 DEF Rows
  <2> HIDE DEF row
  <2> QED
    BY <2>1, <2>3, <2>4 DEF ReplacedAt, Replaces
<1>8. ASSUME Settle(r)
      PROVE  ReplacedAt(r)
  <2>1. r \in Rows(runs) /\ runs[r] \in Row
    BY <1>8, AttemptRow DEF Settle
  <2>2. runs[r].waits + 1 \in Nat
    BY <2>1 DEF Row
  <2>3. ASSUME NEW row \in Row, SameRun(runs[r], row), row.started = runs[r].started,
               runs' = [runs EXCEPT ![r] = row]
        PROVE  ReplacedAt(r)
    BY <2>1, <2>3 DEF ReplacedAt, Replaces
  <2>4. ASSUME NEW s \in {"failed", "needs_attention", "waiting"},
               runs' = [runs EXCEPT ![r].status = s]
        PROVE  ReplacedAt(r)
    <3> DEFINE row == [runs[r] EXCEPT !.status = s]
    <3>1. row \in Row /\ SameRun(runs[r], row) /\ row.started = runs[r].started
      BY <2>1 DEF SameRun, Row, Statuses, Settled
    <3>2. runs' = [runs EXCEPT ![r] = row]
      BY <1>0, <2>1, <2>4 DEF Rows
    <3> HIDE DEF row
    <3> QED
      BY <2>3, <3>1, <3>2
  <2>7. ASSUME NEW ok \in BOOLEAN,
               runs' = [runs EXCEPT ![r].status = "completed", ![r].response = ok]
        PROVE  ReplacedAt(r)
    <3> DEFINE row == [runs[r] EXCEPT !.status = "completed", !.response = ok]
    <3>1. row \in Row /\ SameRun(runs[r], row) /\ row.started = runs[r].started
      BY <2>1 DEF SameRun, Row, Statuses, Settled
    <3>2. runs' = [runs EXCEPT ![r] = row]
      BY <1>0, <2>1, <2>7 DEF Rows
    <3> HIDE DEF row
    <3> QED
      BY <2>3, <3>1, <3>2
  <2>5. ASSUME runs' = [runs EXCEPT ![r].status = "needs_attention", ![r].blocked = TRUE]
        PROVE  ReplacedAt(r)
    <3> DEFINE row == [runs[r] EXCEPT !.status = "needs_attention", !.blocked = TRUE]
    <3>1. row \in Row /\ SameRun(runs[r], row) /\ row.started = runs[r].started
      BY <2>1 DEF SameRun, Row, Statuses
    <3>2. runs' = [runs EXCEPT ![r] = row]
      BY <1>0, <2>1, <2>5 DEF Rows
    <3> HIDE DEF row
    <3> QED
      BY <2>3, <3>1, <3>2
  <2>6. ASSUME runs' = [runs EXCEPT ![r].status = "retry_wait", ![r].due = FALSE,
                                    ![r].waits = @ + 1]
        PROVE  ReplacedAt(r)
    <3> DEFINE row == [runs[r] EXCEPT !.status = "retry_wait", !.due = FALSE,
                                      !.waits = runs[r].waits + 1]
    <3>1. row \in Row /\ SameRun(runs[r], row) /\ row.started = runs[r].started
      BY <2>1, <2>2 DEF SameRun, Row, Statuses, Runnable
    <3>2. runs' = [runs EXCEPT ![r] = row]
      BY <1>0, <2>1, <2>6 DEF Rows
    <3> HIDE DEF row
    <3> QED
      BY <2>3, <3>1, <3>2
  <2>8. ASSUME NEW ok \in (IF runs[r].graph = NoGraph THEN {TRUE} ELSE BOOLEAN)
        PROVE  ok \in BOOLEAN
    OBVIOUS
  <2> QED
    BY <1>8, <2>4, <2>5, <2>6, <2>7, <2>8 DEF Settle
<1>9. ASSUME Elapse(r)
       PROVE  ReplacedAt(r)
  <2>1. r \in Rows(runs) /\ runs[r] \in Row
    BY <1>9, RowTyped DEF Elapse
  <2> DEFINE row == [runs[r] EXCEPT !.due = TRUE]
  <2>2. row \in Row /\ SameRun(runs[r], row) /\ row.started = runs[r].started
    BY <2>1 DEF SameRun, Row
  <2>3. runs' = [runs EXCEPT ![r] = row]
    BY <1>0, <1>9, <2>1 DEF Elapse, Rows
  <2> HIDE DEF row
  <2> QED
    BY <2>1, <2>2, <2>3 DEF ReplacedAt, Replaces
<1> QED
  BY <1>1, <1>2, <1>3, <1>4, <1>5, <1>6, <1>7, <1>8, <1>9 DEF RowStep

\* The other rows stay.
LEMMA OthersKept ==
  ASSUME TypeOK, NEW q \in Ids, RowStep(q), NEW r \in Rows(runs), r # q
  PROVE  runs'[r] = runs[r]
<1>1. CASE runs' = runs
  BY <1>1
<1>2. CASE runs' # runs
  <2>1. ReplacedAt(q)
    BY <1>2, RowReplaced
  <2> QED
    BY <2>1 DEF ReplacedAt, Replaces, TypeOK, Rows
<1> QED
  BY <1>1, <1>2

\* A step admits a run or a graph, replaces one row, cancels the rows of a graph, or
\* leaves the journal alone.
LEMMA JournalStep == TypeOK /\ [Next]_vars => JournalKept
<1> SUFFICES ASSUME TypeOK, [Next]_vars PROVE JournalKept
  OBVIOUS
<1>0. runs \in Seq(Row) /\ Len(runs) <= MaxRuns
  BY DEF TypeOK
<1>1. ASSUME NEW s \in Sessions, NEW q \in Requests, NEW enqueue \in BOOLEAN,
             submit(s, q, enqueue)
      PROVE  Admitted
  BY <1>1 DEF submit, Admitted
<1>2. ASSUME NEW r \in Ids, RowStep(r)
      PROVE  runs' = runs \/ Replaced
  BY <1>2, RowReplaced DEF Replaced
<1>11. ASSUME NEW r \in Ids, SkipExecute(r) \/ RejectAdmission(r) \/ SettleAborted(r) \/ Leave(r)
       PROVE  runs' = runs
  BY <1>11 DEF SkipExecute, RejectAdmission, SettleAborted, Leave
<1>12. ASSUME \/ \E s \in Sessions, q \in Requests : resubmit(s, q)
              \/ resume \/ Wake \/ Process \/ UNCHANGED vars
       PROVE  runs' = runs
  BY <1>12 DEF resubmit, resume, Wake, Process, fail, close, Closed, Crash, open, vars
<1>13. ASSUME NEW g \in Graphs, submitGraph(g), runs' # runs
       PROVE  GraphAdmitted
  BY <1>13 DEF submitGraph, GraphAdmitted, GraphNodes
<1>14. ASSUME NEW g \in Graphs, cancelGraph(g), runs' # runs
       PROVE  GraphCancelled
  BY <1>14 DEF cancelGraph, GraphCancelled, GraphRows
<1> QED
  BY <1>1, <1>2, <1>11, <1>12, <1>13, <1>14 DEF Next, Calls, Attempt, JournalKept, RowStep

\* The dependencies of a node are nodes of its graph.
LEMMA NodeTyped ==
  ASSUME NEW g \in Graphs, NEW i \in DOMAIN Needs[g], NEW n \in Nat,
         n + Len(Needs[g]) <= MaxRuns
  PROVE  NewNode(g, i, n) \in Row
<1>1. Needs[g] \in Seq(SUBSET Nat) /\ i \in Nat /\ DOMAIN Needs[g] = 1..Len(Needs[g])
  BY GraphsAssumption
<1>2. Needs[g][i] \subseteq 1..Len(Needs[g])
  BY <1>1, GraphsAssumption DEF Acyclic
<1> DEFINE needs == {n + d : d \in Needs[g][i]}
<1>3. needs \in SUBSET Ids
  BY <1>1, <1>2, RunsAssumption DEF Ids
<1>4. <<g, i>> \in Graphs \X Nat
  BY <1>1
<1>5. NewRow(<<g, i>>, i) \in Row
  BY <1>1, <1>4 DEF NewRow, Row, Statuses, Runnable
<1> HIDE DEF needs
<1>6. [NewRow(<<g, i>>, i) EXCEPT !.graph = g, !.needs = needs] \in Row
  BY <1>3, <1>5 DEF Row
<1> QED
  BY <1>6 DEF NewNode, needs

\* A row that is cancelled with its graph: it ends, unless it had ended.
LEMMA CancelRowTyped ==
  ASSUME NEW row \in Row
  PROVE  /\ CancelRow(row) \in Row
         /\ SameRun(row, CancelRow(row)) /\ CancelRow(row).started = row.started
         /\ CancelRow(row).status \in Settled
         /\ row.status \in Settled => CancelRow(row) = row
BY DEF CancelRow, SameRun, Row, Statuses, Settled

\* The nodes of an admitted graph follow the rows the journal had.
LEMMA GraphAppended ==
  ASSUME TypeOK, NEW g \in Graphs, Len(runs) + Len(Needs[g]) <= MaxRuns,
         runs' = runs \o GraphNodes(g)
  PROVE  /\ runs' \in Seq(Row)
         /\ Len(runs') = Len(runs) + Len(Needs[g])
         /\ \A r \in Rows(runs) : runs'[r] = runs[r]
         /\ \A r \in Rows(runs') \ Rows(runs) :
               /\ r - Len(runs) \in DOMAIN Needs[g]
               /\ runs'[r] = NewNode(g, r - Len(runs), Len(runs))
<1>1. /\ runs \in Seq(Row) /\ Len(runs) \in Nat
      /\ Len(Needs[g]) \in Nat /\ DOMAIN Needs[g] = 1..Len(Needs[g])
  BY GraphsAssumption DEF TypeOK
<1>2. \A i \in DOMAIN Needs[g] : NewNode(g, i, Len(runs)) \in Row
  BY <1>1, NodeTyped
<1> DEFINE new == GraphNodes(g)
<1>3. new \in Seq(Row) /\ Len(new) = Len(Needs[g])
  BY <1>1, <1>2 DEF GraphNodes
<1>4. \A i \in DOMAIN Needs[g] : new[i] = NewNode(g, i, Len(runs))
  BY DEF GraphNodes
<1>5. runs' = runs \o new
  OBVIOUS
<1> HIDE DEF new
<1>6. runs' \in Seq(Row) /\ Len(runs') = Len(runs) + Len(Needs[g])
  BY <1>1, <1>3, <1>5
<1>7. \A r \in Rows(runs) : runs'[r] = runs[r]
  BY <1>1, <1>3, <1>5 DEF Rows
<1>8. ASSUME NEW r \in Rows(runs') \ Rows(runs)
      PROVE  /\ r - Len(runs) \in DOMAIN Needs[g]
             /\ runs'[r] = NewNode(g, r - Len(runs), Len(runs))
  <2>1. r \in Nat /\ Len(runs) < r /\ r <= Len(runs) + Len(Needs[g])
    BY <1>1, <1>6 DEF Rows
  <2>2. r - Len(runs) \in DOMAIN Needs[g] /\ runs'[r] = new[r - Len(runs)]
    BY <1>1, <1>3, <1>5, <2>1
  <2> QED
    BY <1>4, <2>2
<1> QED
  BY <1>6, <1>7, <1>8

\* The cancellation of a graph ends its unfinished rows and leaves the others.
LEMMA GraphRewritten ==
  ASSUME TypeOK, NEW g \in Graphs, runs' = GraphRows(g)
  PROVE  /\ runs' \in Seq(Row)
         /\ Len(runs') = Len(runs)
         /\ \A r \in Rows(runs) : /\ SameRun(runs[r], runs'[r])
                                  /\ runs'[r].started = runs[r].started
                                  /\ ~Unsettled(runs, r) => runs'[r] = runs[r]
                                  /\ runs[r].graph = g => ~Unsettled(runs', r)
                                  /\ runs[r].graph # g => runs'[r] = runs[r]
<1>1. runs \in Seq(Row) /\ Len(runs) \in Nat
  BY DEF TypeOK
<1>2. \A r \in Rows(runs) : runs[r] \in Row
  BY RowTyped
<1>3. \A r \in Rows(runs) : GraphRows(g)[r] \in Row
  BY <1>2, CancelRowTyped DEF GraphRows
<1>4. runs' \in Seq(Row) /\ Len(runs') = Len(runs)
  BY <1>1, <1>3 DEF GraphRows, Rows
<1>5. \A r \in Rows(runs) : runs'[r] = IF runs[r].graph = g THEN CancelRow(runs[r]) ELSE runs[r]
  BY DEF GraphRows, Nodes
<1> QED
  BY <1>2, <1>4, <1>5, CancelRowTyped DEF SameRun, Unsettled

\* The journal only grows, and a row stays the row of its run.
LEMMA JournalGrows ==
  ASSUME TypeOK, JournalKept
  PROVE  /\ runs' \in Seq(Row) /\ Len(runs') <= MaxRuns
         /\ Rows(runs) \subseteq Rows(runs')
         /\ \A r \in Rows(runs) : SameRun(runs[r], runs'[r])
<1>1. runs \in Seq(Row) /\ Len(runs) <= MaxRuns /\ Len(runs) \in Nat
  BY DEF TypeOK
<1>2. CASE runs' = runs
  BY <1>1, <1>2 DEF SameRun
<1>3. CASE Admitted
  <2>1. PICK s \in Sessions, q \in Requests : runs' = Append(runs, NewRow(s, q))
    BY <1>3 DEF Admitted
  <2>2. NewRow(s, q) \in Row
    BY DEF NewRow, Row, Statuses, Runnable
  <2> QED
    BY <1>1, <1>3, <2>1, <2>2, RunsAssumption DEF Admitted, Rows, SameRun
<1>4. CASE Replaced
  <2>1. PICK r \in Rows(runs), row \in Row : Replaces(r, row)
    BY <1>4 DEF Replaced, ReplacedAt
  <2>2. runs' \in Seq(Row) /\ Len(runs') = Len(runs)
    BY <1>1, <2>1, RowUpdate DEF Replaces
  <2> QED
    BY <1>1, <2>1, <2>2 DEF Replaces, Rows, SameRun
<1>5. CASE GraphAdmitted
  <2>1. PICK g \in Graphs : /\ Len(runs) + Len(Needs[g]) <= MaxRuns
                            /\ runs' = runs \o GraphNodes(g)
    BY <1>5 DEF GraphAdmitted
  <2>2. Len(Needs[g]) \in Nat
    BY GraphsAssumption
  <2> QED
    BY <1>1, <2>1, <2>2, GraphAppended, RunsAssumption DEF Rows, SameRun
<1>6. CASE GraphCancelled
  <2>1. PICK g \in Graphs : runs' = GraphRows(g)
    BY <1>6 DEF GraphCancelled
  <2> QED
    BY <1>1, <2>1, GraphRewritten DEF Rows
<1> QED
  BY <1>2, <1>3, <1>4, <1>5, <1>6 DEF JournalKept

\* A table without some of the entries, the others possibly in another phase.
Reduced(A) == A \in [Ids -> Phases] /\ Working(A) \subseteq Working(attempt)

\* The attempt table after a step: some entries ended or moved on (A), then
\* pump() ran, or not.
LEMMA AttemptsStep ==
  TypeOK /\ [Next]_vars =>
     \E A \in [Ids -> Phases] : Reduced(A) /\ (attempt' = A \/ attempt' \in Launches(runs', A))
<1> DEFINE Goal == \E A \in [Ids -> Phases] :
                      Reduced(A) /\ (attempt' = A \/ attempt' \in Launches(runs', A))
<1> SUFFICES ASSUME TypeOK, [Next]_vars PROVE Goal
  OBVIOUS
<1>0. attempt \in [Ids -> Phases] /\ Reduced(attempt)
  BY DEF TypeOK, Reduced
<1>1. ASSUME attempt' = attempt \/ attempt' \in Launches(runs', attempt)
      PROVE  Goal
  BY <1>0, <1>1
<1>2. ASSUME NEW r \in Ids, NEW phase \in Phases, attempt[r] # "none" \/ phase = "none",
             attempt' = [attempt EXCEPT ![r] = phase]
                \/ attempt' \in Launches(runs', [attempt EXCEPT ![r] = phase])
      PROVE  Goal
  <2>1. [attempt EXCEPT ![r] = phase] \in [Ids -> Phases]
    BY <1>0
  <2>2. Reduced([attempt EXCEPT ![r] = phase])
    BY <1>0, <1>2, <2>1 DEF Reduced, Working
  <2> QED
    BY <1>2, <2>1, <2>2
<1>3. CASE Calls
  <2> HIDE DEF Goal
  <2>1. attempt' \in Launches(runs', attempt)
    BY <1>3 DEF Calls, submit, resubmit, submitGraph, cancelGraph, cancel, respond, resolve,
                retry, resume, pump
  <2> QED
    BY <1>1, <2>1
<1>4. ASSUME NEW r \in Ids, SkipExecute(r) \/ BeginExecute(r) \/ RejectAdmission(r)
                              \/ SettleRejected(r) \/ Settle(r) \/ SettleAborted(r)
      PROVE  Goal
  <2> HIDE DEF Goal
  <2>1. attempt[r] # "none"
    BY <1>4 DEF SkipExecute, BeginExecute, RejectAdmission, SettleRejected, Settle, SettleAborted
  <2>2. \E phase \in Phases : attempt' = [attempt EXCEPT ![r] = phase]
    BY <1>4 DEF SkipExecute, BeginExecute, RejectAdmission, SettleRejected, Settle,
                SettleAborted, Enter, Phases
  <2> QED
    BY <1>2, <2>1, <2>2
<1>5. ASSUME NEW r \in Ids, JournalWork(r) \/ Elapse(r)
      PROVE  Goal
  <2> HIDE DEF Goal
  <2> QED
    BY <1>1, <1>5 DEF JournalWork, Elapse
<1>6. ASSUME NEW r \in Ids, Leave(r)
      PROVE  Goal
  <2> HIDE DEF Goal
  <2>1. \/ attempt' = [attempt EXCEPT ![r] = "none"]
        \/ attempt' \in Launches(runs', [attempt EXCEPT ![r] = "none"])
    BY <1>6 DEF Leave, pump
  <2>2. "none" \in Phases
    BY DEF Phases
  <2> QED
    BY <1>2, <2>1, <2>2
<1>7. CASE Wake
  <2> HIDE DEF Goal
  <2> QED
    BY <1>1, <1>7 DEF Wake, pump
<1>8. CASE Crash
  <2>1. attempt' \in [Ids -> Phases] /\ Reduced(attempt')
    BY <1>8 DEF Crash, Reduced, Working, Phases
  <2> QED
    BY <2>1
<1>9. CASE fail \/ close \/ Closed \/ open \/ UNCHANGED vars
  <2> HIDE DEF Goal
  <2> QED
    BY <1>1, <1>9 DEF fail, close, Closed, open, vars
<1> HIDE DEF Goal
<1> QED
  BY <1>3, <1>4, <1>5, <1>6, <1>7, <1>8, <1>9 DEF Next, Attempt, Process

-----------------------------------------------------------------------------
(* The journal and the attempt table are typed.                             *)

\* Every step keeps the types.
LEMMA TypeStep == TypeOK /\ [Next]_vars => TypeOK'
<1> SUFFICES ASSUME TypeOK, [Next]_vars PROVE TypeOK'
  OBVIOUS
<1>1. /\ runs' \in Seq(Row) /\ Len(runs') <= MaxRuns
      /\ Rows(runs) \subseteq Rows(runs')
  BY JournalStep, JournalGrows
<1>2. attempt' \in [Ids -> Phases] /\ Working(attempt') \subseteq Rows(runs')
  <2>1. PICK A \in [Ids -> Phases] :
                Reduced(A) /\ (attempt' = A \/ attempt' \in Launches(runs', A))
    BY AttemptsStep
  <2>2. Working(A) \subseteq Rows(runs')
    BY <1>1, <2>1 DEF Reduced, TypeOK
  <2>3. CASE attempt' = A
    BY <2>2, <2>3
  <2>4. CASE attempt' \in Launches(runs', A)
    BY <1>1, <2>2, <2>4, LaunchesType DEF Working
  <2> QED
    BY <2>1, <2>3, <2>4
<1>3. /\ process' \in {"down", "ready", "failed", "closing"}
      /\ cancelled' \subseteq Graphs
      /\ aborted' \subseteq Ids
      /\ timer' \in BOOLEAN
      /\ pumped' \in BOOLEAN
  <2> DEFINE Typed == /\ process' \in {"down", "ready", "failed", "closing"}
                      /\ cancelled' \subseteq Graphs
                      /\ aborted' \subseteq Ids
                      /\ timer' \in BOOLEAN
                      /\ pumped' \in BOOLEAN
  <2>0. /\ process \in {"down", "ready", "failed", "closing"}
        /\ cancelled \subseteq Graphs
        /\ aborted \subseteq Ids
        /\ timer \in BOOLEAN
        /\ pumped \in BOOLEAN
    BY DEF TypeOK
  <2>1. CASE Calls
    BY <2>0, <2>1 DEF Calls, submit, resubmit, submitGraph, cancelGraph, cancel, respond,
                      resolve, retry, resume, pump, Deadline, Working
  <2>2. ASSUME NEW r \in Ids, Attempt(r), ~Leave(r)
        PROVE  Typed
    BY <2>0, <2>2 DEF Attempt, SkipExecute, BeginExecute, RejectAdmission, SettleRejected,
                      JournalWork, Settle, SettleAborted
  <2>3. ASSUME NEW r \in Ids, Leave(r)
        PROVE  Typed
    BY <2>0, <2>3 DEF Leave, pump, Deadline
  <2>4. ASSUME NEW r \in Ids, Elapse(r)
        PROVE  Typed
    BY <2>0, <2>4 DEF Elapse
  <2>5. CASE Wake
    BY <2>0, <2>5 DEF Wake, pump, Deadline
  <2>6. CASE Process
    BY <2>0, <2>6 DEF Process, fail, close, Closed, Crash, open, AbortAll, Working
  <2>7. CASE UNCHANGED vars
    BY <2>0, <2>7 DEF vars
  <2> QED
    BY <2>1, <2>2, <2>3, <2>4, <2>5, <2>6, <2>7 DEF Next
<1> QED
  BY <1>1, <1>2, <1>3 DEF TypeOK

\* The journal holds well-formed rows and every entry of the attempt table has
\* its row, through every call, callback, failure and restart.
THEOREM TypeCorrect == Spec => []TypeOK
<1>1. Init => TypeOK
  <2> SUFFICES ASSUME Init PROVE TypeOK
    OBVIOUS
  <2>1. runs \in Seq(Row) /\ Len(runs) = 0
    BY DEF Init
  <2>2. attempt \in [Ids -> Phases] /\ Working(attempt) = {}
    BY DEF Init, Phases, Working
  <2>3. Len(runs) <= MaxRuns
    BY <2>1, RunsAssumption
  <2>4. /\ process \in {"down", "ready", "failed", "closing"}
        /\ cancelled \subseteq Graphs
        /\ aborted \subseteq Ids
        /\ timer \in BOOLEAN /\ pumped \in BOOLEAN
    BY DEF Init
  <2> QED
    BY <2>1, <2>2, <2>3, <2>4 DEF TypeOK
<1> QED
  BY <1>1, TypeStep, PTL DEF Spec

-----------------------------------------------------------------------------
(* Sessions stay exclusive and the slots are never exceeded.                *)

\* Attempts that were exclusive stay so while the rows keep their session.
LEMMA ReducedExclusive ==
  ASSUME TypeOK, JournalKept, OneAttemptPerSession, NEW ACTION A, Reduced(A)
  PROVE  Exclusive(runs', A)
<1>1. /\ runs' \in Seq(Row) /\ Len(runs') <= MaxRuns
      /\ \A r \in Rows(runs) : runs'[r].session = runs[r].session
  BY JournalGrows DEF SameRun
<1> SUFFICES ASSUME NEW r \in Rows(runs'), NEW q \in Rows(runs'),
                    A[r] # "none", A[q] # "none", SameSession(runs', r, q)
             PROVE  r = q
  BY DEF Exclusive
<1>2. r \in Ids /\ q \in Ids
  BY <1>1, RunsAssumption DEF Rows, Ids
<1>3. r \in Working(attempt) /\ q \in Working(attempt)
  BY <1>2 DEF Reduced, Working
<1>4. r \in Rows(runs) /\ q \in Rows(runs)
  BY <1>3 DEF TypeOK
<1>5. SameSession(runs, r, q)
  BY <1>1, <1>4 DEF SameSession
<1> QED
  BY <1>3, <1>4, <1>5 DEF OneAttemptPerSession, Exclusive, Working

\* No session is ever worked on by two attempts, however API calls, callbacks,
\* cancellations, failures and restarts interleave.
THEOREM SessionsExclusive == Spec => []OneAttemptPerSession
<1>1. Init => OneAttemptPerSession
  BY DEF Init, OneAttemptPerSession, Exclusive, Rows, Ids
<1>2. TypeOK /\ OneAttemptPerSession /\ [Next]_vars => OneAttemptPerSession'
  <2> SUFFICES ASSUME TypeOK, OneAttemptPerSession, [Next]_vars
               PROVE  OneAttemptPerSession'
    OBVIOUS
  <2>1. JournalKept
    BY JournalStep
  <2>2. runs' \in Seq(Row) /\ Len(runs') <= MaxRuns
    BY <2>1, JournalGrows
  <2>3. PICK A \in [Ids -> Phases] :
                Reduced(A) /\ (attempt' = A \/ attempt' \in Launches(runs', A))
    BY AttemptsStep
  <2>4. Exclusive(runs', A)
    BY <2>1, <2>3, ReducedExclusive
  <2>5. Exclusive(runs', attempt')
    BY <2>2, <2>3, <2>4, LaunchesExclusive
  <2> QED
    BY <2>5 DEF OneAttemptPerSession
<1> QED
  BY <1>1, <1>2, TypeCorrect, PTL DEF Spec

\* The attempts in memory, those still settling included, never exceed
\* maxConcurrentRuns.
THEOREM CapacityKept == Spec => []WithinCapacity
<1>1. Init => WithinCapacity
  <2> SUFFICES ASSUME Init PROVE WithinCapacity
    OBVIOUS
  <2>1. Working(attempt) = {}
    BY DEF Init, Working
  <2> QED
    BY <2>1, FS_EmptySet, RunsAssumption DEF WithinCapacity
<1>2. TypeOK /\ WithinCapacity /\ [Next]_vars => WithinCapacity'
  <2> SUFFICES ASSUME TypeOK, WithinCapacity, [Next]_vars
               PROVE  WithinCapacity'
    OBVIOUS
  <2>1. runs' \in Seq(Row) /\ Len(runs') <= MaxRuns
    BY JournalStep, JournalGrows
  <2>2. PICK A \in [Ids -> Phases] :
                Reduced(A) /\ (attempt' = A \/ attempt' \in Launches(runs', A))
    BY AttemptsStep
  <2>3. Cardinality(Working(A)) <= Cardinality(Working(attempt))
    BY <2>2, WorkingFinite, FS_Subset DEF Reduced
  <2>4. Cardinality(Working(A)) <= MaxConcurrentRuns
    BY <2>3, WorkingFinite, RunsAssumption DEF WithinCapacity
  <2>5. Cardinality(Working(attempt')) <= MaxConcurrentRuns
    BY <2>1, <2>2, <2>4, LaunchesCapacity
  <2> QED
    BY <2>5 DEF WithinCapacity
<1> QED
  BY <1>1, <1>2, TypeCorrect, PTL DEF Spec

\* What a launch leaves of the attempts at work: it starts none of them.
LEMMA LaunchesKeepPhase ==
  ASSUME NEW R \in Seq(Row), Len(R) <= MaxRuns,
         NEW A \in [Ids -> Phases], NEW B \in Launches(R, A), NEW r \in Ids,
         B[r] = "executing"
  PROVE  A[r] = "executing"
BY LaunchesType

\* An attempt that was not aborted works on a row that is still "running": its
\* last transaction never overwrites a cancellation.
THEOREM AttemptsOwnRows == Spec => []AttemptOwnsRow
<1>1. Init => AttemptOwnsRow
  BY DEF Init, AttemptOwnsRow, Rows, Ids
<1>2. TypeOK /\ AttemptOwnsRow /\ [Next]_vars => AttemptOwnsRow'
  <2> SUFFICES ASSUME TypeOK, TypeOK', AttemptOwnsRow, [Next]_vars,
                      NEW r \in Rows(runs'), attempt'[r] = "executing", r \notin aborted'
               PROVE  runs'[r].status = "running"
    BY TypeStep DEF AttemptOwnsRow
  <2>0. /\ runs \in Seq(Row) /\ attempt \in [Ids -> Phases] /\ aborted \subseteq Ids
        /\ runs' \in Seq(Row) /\ Len(runs') <= MaxRuns
    BY DEF TypeOK
  <2>1. r \in Ids
    BY <2>0, RunsAssumption DEF Rows, Ids
  <2>2. ASSUME attempt' \in Launches(runs', attempt)
        PROVE  attempt[r] = "executing"
    BY <2>0, <2>1, <2>2, LaunchesKeepPhase
  <2>3. ASSUME attempt[r] = "executing", r \notin aborted
        PROVE  r \in Rows(runs) /\ runs[r] \in Row /\ runs[r].status = "running"
    BY <2>1, <2>3, AttemptRow DEF AttemptOwnsRow
  <2>4. ASSUME attempt[r] = "executing", r \notin aborted, runs' = runs
        PROVE  runs'[r].status = "running"
    BY <2>3, <2>4
  <2>5. ASSUME NEW s \in Sessions, NEW q \in Requests, NEW enqueue \in BOOLEAN,
               submit(s, q, enqueue)
        PROVE  runs'[r].status = "running"
    BY <2>0, <2>2, <2>3, <2>5 DEF submit, pump, Rows
  <2>16. ASSUME NEW g \in Graphs, submitGraph(g)
         PROVE  runs'[r].status = "running"
    <3>1. attempt[r] = "executing" /\ r \notin aborted
      BY <2>2, <2>16 DEF submitGraph, pump
    <3>2. r \in Rows(runs) /\ runs[r].status = "running"
      BY <2>3, <3>1
    <3>3. \/ runs' = runs
          \/ Len(runs) + Len(Needs[g]) <= MaxRuns /\ runs' = runs \o GraphNodes(g)
      BY <2>16 DEF submitGraph, GraphNodes
    <3> QED
      BY <3>2, <3>3, GraphAppended
  <2>17. ASSUME NEW g \in Graphs, cancelGraph(g)
         PROVE  runs'[r].status = "running"
    <3>1. attempt[r] = "executing" /\ r \notin aborted
      BY <2>2, <2>17 DEF cancelGraph, pump
    <3>2. r \in Rows(runs) /\ r \in Working(attempt) /\ runs[r].status = "running"
      BY <2>1, <2>3, <3>1 DEF Working
    <3>3. \/ runs' = runs
          \/ runs' = GraphRows(g) /\ r \notin Nodes(runs, g)
      BY <2>17, <3>2 DEF cancelGraph, GraphRows
    <3> QED
      BY <3>2, <3>3, GraphRewritten DEF Nodes
  <2>6. ASSUME NEW q \in Ids,
               cancel(q) \/ respond(q) \/ resolve(q) \/ retry(q)
        PROVE  runs'[r].status = "running"
    <3>1. attempt[r] = "executing"
      BY <2>2, <2>6 DEF cancel, respond, resolve, retry, pump
    <3>2. r \notin aborted
      BY <2>6 DEF cancel, respond, resolve, retry
    <3>3. r \in Rows(runs) /\ runs[r].status = "running"
      BY <2>3, <3>1, <3>2
    <3>4. r # q \/ runs' = runs
      BY <2>6, <3>1, <3>3 DEF cancel, respond, resolve, retry
    <3> QED
      BY <2>0, <2>6, <3>3, <3>4 DEF cancel, respond, resolve, retry, Rows
  <2>7. ASSUME NEW q \in Ids, BeginExecute(q)
        PROVE  runs'[r].status = "running"
    <3>1. q \in Rows(runs) /\ runs[q] \in Row
      BY <2>7, AttemptRow DEF BeginExecute
    <3>2. CASE q = r
      <4> DEFINE history == IF runs[r].status = "queued" THEN inheritSessionHistory(runs, r)
                                                         ELSE runs[r].history
                 input == IF runs[r].status = "queued" THEN graphInput(runs, r) ELSE runs[r].input
                 row == [runs[r] EXCEPT !.status = "running", !.started = TRUE, !.due = FALSE,
                                        !.history = history, !.input = input]
      <4>1. runs' = [runs EXCEPT ![r] = row]
        BY <2>0, <2>7, <3>1, <3>2 DEF BeginExecute, Rows
      <4>2. row.status = "running"
        BY <3>1, <3>2 DEF Row
      <4> HIDE DEF row
      <4> QED
        BY <2>0, <3>1, <3>2, <4>1, <4>2 DEF Rows
    <3>3. CASE q # r
      <4>1. attempt[r] = "executing" /\ r \notin aborted /\ runs'[r] = runs[r]
        BY <2>0, <2>1, <2>7, <3>3 DEF BeginExecute, Enter, Rows
      <4> QED
        BY <2>3, <4>1
    <3> QED
      BY <3>2, <3>3
  <2>8. ASSUME NEW q \in Ids,
               SkipExecute(q) \/ RejectAdmission(q) \/ SettleAborted(q)
        PROVE  runs'[r].status = "running"
    <3>1. attempt[r] = "executing" /\ r \notin aborted /\ runs' = runs
      BY <2>0, <2>1, <2>8 DEF SkipExecute, RejectAdmission, SettleAborted, Enter
    <3> QED
      BY <2>4, <3>1
  <2>9. ASSUME NEW q \in Ids, SettleRejected(q) \/ Settle(q)
        PROVE  runs'[r].status = "running"
    <3>1. q # r
      BY <2>0, <2>1, <2>9 DEF SettleRejected, Settle, Enter
    <3>2. attempt[r] = "executing" /\ r \notin aborted
      BY <2>0, <2>1, <2>9, <3>1 DEF SettleRejected, Settle, Enter
    <3>3. r \in Rows(runs) /\ runs[r].status = "running"
      BY <2>3, <3>2
    <3>4. runs'[r] = runs[r]
      BY <2>9, <3>1, <3>3, OthersKept DEF RowStep
    <3> QED
      BY <3>3, <3>4
  <2>10. ASSUME NEW q \in Ids, JournalWork(q)
         PROVE  runs'[r].status = "running"
    <3>1. r \in Rows(runs) /\ runs[r] \in Row /\ runs[r].status = "running"
      BY <2>3, <2>10 DEF JournalWork
    <3>2. q \in Rows(runs) /\ runs[q] \in Row
      BY <2>10, AttemptRow DEF JournalWork
    <3>3. PICK w \in {"operations", "progress"} : runs' = [runs EXCEPT ![q].work = w]
      BY <2>10 DEF JournalWork
    <3>4. runs'[q] = [runs[q] EXCEPT !.work = w] /\ (r # q => runs'[r] = runs[r])
      BY <2>0, <3>1, <3>2, <3>3 DEF Rows
    <3>5. runs'[q].status = runs[q].status
      BY <3>2, <3>4 DEF Row
    <3> QED
      BY <3>1, <3>4, <3>5
  <2>11. ASSUME NEW q \in Ids, Leave(q)
         PROVE  runs'[r].status = "running"
    <3> DEFINE A == [attempt EXCEPT ![q] = "none"]
    <3>1. A \in [Ids -> Phases] /\ runs' = runs
      BY <2>0, <2>11 DEF Leave, Phases
    <3>2. attempt' = A \/ attempt' \in Launches(runs', A)
      BY <2>11 DEF Leave, pump
    <3>3. A[r] = "executing"
      BY <2>0, <2>1, <3>1, <3>2, LaunchesKeepPhase
    <3>4. attempt[r] = "executing" /\ r # q
      BY <2>0, <2>1, <3>3
    <3>5. r \notin aborted
      BY <2>11, <3>4 DEF Leave
    <3> QED
      BY <2>4, <3>1, <3>4, <3>5
  <2>12. ASSUME NEW q \in Ids, Elapse(q)
         PROVE  runs'[r].status = "running"
    <3>1. r \in Rows(runs) /\ runs[r] \in Row /\ runs[r].status = "running"
      BY <2>3, <2>12 DEF Elapse
    <3>2. q # r
      BY <2>12, <3>1 DEF Elapse
    <3> QED
      BY <2>12, <3>1, <3>2, OthersKept DEF RowStep
  <2>13. CASE resume \/ Wake \/ \E s \in Sessions, q \in Requests : resubmit(s, q)
    <3>1. attempt' \in Launches(runs', attempt) /\ aborted' = aborted /\ runs' = runs
      BY <2>13 DEF resume, Wake, resubmit, pump
    <3> QED
      BY <2>2, <2>4, <3>1
  <2>14. CASE Process
    <3>1. ~Crash
      BY <2>1 DEF Crash
    <3>2. attempt' = attempt /\ runs' = runs
      BY <2>14, <3>1 DEF Process, fail, close, Closed, open
    <3>3. r \notin aborted
      BY <2>1, <2>14, <3>1, <3>2 DEF Process, fail, close, Closed, open, AbortAll, Working
    <3> QED
      BY <2>4, <3>2, <3>3
  <2>15. CASE UNCHANGED vars
    BY <2>4, <2>15 DEF vars
  <2> QED
    BY <2>5, <2>6, <2>7, <2>8, <2>9, <2>10, <2>11, <2>12, <2>13, <2>14, <2>15,
       <2>16, <2>17 DEF Next, Calls, Attempt
<1> QED
  BY <1>1, <1>2, TypeCorrect, PTL DEF Spec

-----------------------------------------------------------------------------
(* Settled runs stay settled.                                               *)

\* What a step may do to a settled run.
Final(r) ==
  /\ runs[r].status \in {"completed", "cancelled"} => runs'[r] = runs[r]
  /\ runs[r].status = "failed" /\ runs'[r] # runs[r] =>
        /\ runs'[r].status = "pending"
        /\ ~hasLaterStartedRun(runs, r)
        /\ runs[r].graph \notin cancelled

\* Every step keeps what is final.
LEMMA SettledStep == TypeOK /\ AttemptOwnsRow /\ [Next]_vars => \A r \in Rows(runs) : Final(r)
<1> SUFFICES ASSUME TypeOK, AttemptOwnsRow, [Next]_vars, NEW r \in Rows(runs)
             PROVE  Final(r)
  OBVIOUS
<1>0. runs \in Seq(Row) /\ runs[r] \in Row /\ r \in Ids
  BY RowTyped, RunsAssumption DEF TypeOK, Rows, Ids
<1>1. ASSUME runs'[r] = runs[r]
      PROVE  Final(r)
  BY <1>1 DEF Final
<1>2. ASSUME runs[r].status \notin Settled
      PROVE  Final(r)
  BY <1>2 DEF Settled, Final
<1>3. ASSUME NEW s \in Sessions, NEW q \in Requests, NEW enqueue \in BOOLEAN,
             submit(s, q, enqueue)
      PROVE  Final(r)
  BY <1>0, <1>1, <1>3 DEF submit, Rows
<1>4. ASSUME NEW q \in Ids, cancel(q) \/ respond(q) \/ resolve(q) \/ Elapse(q)
      PROVE  Final(r)
  <2>1. q # r => runs'[r] = runs[r]
    BY <1>4, OthersKept DEF RowStep
  <2>2. q = r => runs' = runs \/ runs[r].status \notin Settled
    BY <1>4 DEF cancel, respond, resolve, Elapse, Unsettled, Settled
  <2> QED
    BY <1>1, <1>2, <2>1, <2>2
<1>5. ASSUME NEW q \in Ids, retry(q)
      PROVE  Final(r)
  <2>1. q # r => runs'[r] = runs[r]
    BY <1>5, OthersKept DEF RowStep
  <2>2. CASE q = r
    <3>1. /\ runs[r].status \in {"failed", "needs_attention"}
          /\ ~hasLaterStartedRun(runs, r)
          /\ runs[r].graph \notin cancelled
      BY <1>5, <2>2 DEF retry
    <3>2. runs'[r].status = "pending"
      BY <1>0, <1>5, <2>2 DEF retry, Rows, Row
    <3> QED
      BY <3>1, <3>2 DEF Final
  <2> QED
    BY <1>1, <2>1, <2>2
<1>6. ASSUME NEW q \in Ids, BeginExecute(q) \/ SettleRejected(q)
      PROVE  Final(r)
  <2>1. q \in Rows(runs)
    BY <1>6, AttemptRow DEF BeginExecute, SettleRejected
  <2>2. q # r => runs'[r] = runs[r]
    BY <1>6, OthersKept DEF RowStep
  <2>3. q = r => runs' = runs \/ runs[r].status \notin Settled
    BY <1>6 DEF BeginExecute, SettleRejected, Unsettled, Settled, Runnable
  <2> QED
    BY <1>1, <1>2, <2>2, <2>3
<1>7. ASSUME NEW q \in Ids, JournalWork(q) \/ Settle(q)
      PROVE  Final(r)
  <2>1. q \in Rows(runs)
    BY <1>7, AttemptRow DEF JournalWork, Settle
  <2>2. q # r => runs'[r] = runs[r]
    BY <1>7, OthersKept DEF RowStep
  <2>3. runs[q].status = "running"
    BY <1>7, <2>1 DEF JournalWork, Settle, AttemptOwnsRow
  <2> QED
    BY <1>1, <1>2, <2>2, <2>3 DEF Settled
<1>8. ASSUME \/ \E q \in Ids : SkipExecute(q) \/ RejectAdmission(q) \/ SettleAborted(q) \/ Leave(q)
             \/ \E s \in Sessions, q \in Requests : resubmit(s, q)
             \/ resume \/ Wake \/ Process \/ UNCHANGED vars
      PROVE  Final(r)
  <2>1. runs' = runs
    BY <1>8 DEF SkipExecute, RejectAdmission, SettleAborted, Leave, resubmit, resume, Wake,
                Process, fail, close, Closed, Crash, open, vars
  <2> QED
    BY <1>1, <2>1
<1>9. ASSUME NEW g \in Graphs, submitGraph(g)
      PROVE  Final(r)
  <2>1. \/ runs' = runs
        \/ Len(runs) + Len(Needs[g]) <= MaxRuns /\ runs' = runs \o GraphNodes(g)
    BY <1>9 DEF submitGraph, GraphNodes
  <2> QED
    BY <1>1, <2>1, GraphAppended
<1>10. ASSUME NEW g \in Graphs, cancelGraph(g)
       PROVE  Final(r)
  <2>1. runs' = runs \/ runs' = GraphRows(g)
    BY <1>10 DEF cancelGraph, GraphRows
  <2>2. runs'[r] = runs[r] \/ runs[r].status \notin Settled
    BY <2>1, GraphRewritten DEF Unsettled
  <2> QED
    BY <1>1, <1>2, <2>2
<1> QED
  BY <1>3, <1>4, <1>5, <1>6, <1>7, <1>8, <1>9, <1>10 DEF Next, Calls, Attempt

\* Completed and cancelled runs never change again, and a failed one changes
\* only by a retry, before any later run of its session started and in no cancelled graph.
THEOREM SettledStaysFinal == Spec => SettledFinal
<1> QED
  BY SettledStep, TypeCorrect, AttemptsOwnRows, PTL DEF Spec, SettledFinal, Final

-----------------------------------------------------------------------------
(* Graphs: dependencies are kept and a cancelled graph is over.             *)

\* Success is final.
LEMMA SuccessKept ==
  ASSUME TypeOK, AttemptOwnsRow, [Next]_vars, NEW d, Successful(runs, d)
  PROVE  Successful(runs', d)
<1>1. d \in Rows(runs) /\ runs'[d] = runs[d]
  BY SettledStep DEF Successful, Final
<1>2. d \in Rows(runs')
  BY <1>1, JournalStep, JournalGrows
<1> QED
  BY <1>1, <1>2 DEF Successful

\* A run that has started after a step had started before it or had an attempt.
LEMMA StartedStep ==
  ASSUME TypeOK, [Next]_vars, NEW r \in Rows(runs'), runs'[r].started
  PROVE  r \in Rows(runs) /\ (runs[r].started \/ attempt[r] # "none")
<1>0. runs \in Seq(Row) /\ Len(runs) \in Nat
  BY DEF TypeOK
<1>1. CASE runs' = runs
  BY <1>1
<1>2. CASE Admitted
  <2>1. PICK s \in Sessions, q \in Requests : runs' = Append(runs, NewRow(s, q))
    BY <1>2 DEF Admitted
  <2>2. NewRow(s, q).started = FALSE
    BY DEF NewRow
  <2> QED
    BY <1>0, <2>1, <2>2 DEF Rows
<1>3. CASE Replaced
  <2>1. PICK q \in Rows(runs), row \in Row : Replaces(q, row)
    BY <1>3 DEF Replaced, ReplacedAt
  <2>2. r \in Rows(runs) /\ (r # q => runs'[r] = runs[r]) /\ (r = q => runs'[r] = row)
    BY <1>0, <2>1 DEF Replaces, Rows
  <2> QED
    BY <2>1, <2>2 DEF Replaces
<1>4. CASE GraphAdmitted
  <2>1. PICK g \in Graphs : /\ Len(runs) + Len(Needs[g]) <= MaxRuns
                            /\ runs' = runs \o GraphNodes(g)
    BY <1>4 DEF GraphAdmitted
  <2>2. \A i : NewNode(g, i, Len(runs)).started = FALSE
    BY DEF NewNode, NewRow
  <2>3. r \in Rows(runs) /\ runs'[r] = runs[r]
    BY <2>1, <2>2, GraphAppended
  <2> QED
    BY <2>3
<1>5. CASE GraphCancelled
  <2>1. PICK g \in Graphs : runs' = GraphRows(g)
    BY <1>5 DEF GraphCancelled
  <2>2. r \in Rows(runs)
    BY <1>0, <2>1, GraphRewritten DEF Rows
  <2> QED
    BY <2>1, <2>2, GraphRewritten
<1> QED
  BY <1>1, <1>2, <1>3, <1>4, <1>5, JournalStep DEF JournalKept

\* A node is launched, started and worked on only when every node it depends on has
\* completed with a response, whatever is cancelled, retried or restarted meanwhile.
THEOREM DependenciesRespected == Spec => []DependenciesKept
<1>1. Init => DependenciesKept
  BY DEF Init, DependenciesKept, Rows
<1>2. TypeOK /\ AttemptOwnsRow /\ DependenciesKept /\ [Next]_vars => DependenciesKept'
  <2> SUFFICES ASSUME TypeOK, AttemptOwnsRow, DependenciesKept, [Next]_vars,
                      NEW r \in Rows(runs'), runs'[r].started \/ attempt'[r] # "none",
                      NEW d \in runs'[r].needs
               PROVE  Successful(runs', d)
    BY DEF DependenciesKept
  <2>0. runs' \in Seq(Row) /\ Len(runs') <= MaxRuns /\ r \in Ids
    BY JournalStep, JournalGrows, RunsAssumption DEF Rows, Ids
  <2>1. CASE r \in Rows(runs) /\ (runs[r].started \/ attempt[r] # "none")
    <3>1. d \in runs[r].needs
      BY <2>1, JournalStep, JournalGrows DEF SameRun
    <3>2. Successful(runs, d)
      BY <2>1, <3>1 DEF DependenciesKept
    <3> QED
      BY <3>2, SuccessKept
  <2>2. CASE ~(r \in Rows(runs) /\ (runs[r].started \/ attempt[r] # "none"))
    <3>1. attempt'[r] # "none"
      BY <2>2, StartedStep
    <3>2. PICK A \in [Ids -> Phases] :
                  Reduced(A) /\ (attempt' = A \/ attempt' \in Launches(runs', A))
      BY AttemptsStep
    <3>3. A[r] = "none"
      BY <2>0, <2>2, <3>2 DEF Reduced, Working, TypeOK
    <3>4. attempt' \in Launches(runs', A)
      BY <3>1, <3>2, <3>3
    <3>5. PICK L \in SUBSET Eligible(runs', A) : attempt' = Launch(A, L)
      BY <2>0, <3>4, LaunchesEffect
    <3>6. r \in Eligible(runs', A)
      BY <2>0, <3>1, <3>3, <3>5 DEF Launch
    <3> QED
      BY <3>6 DEF Eligible
  <2> QED
    BY <2>1, <2>2
<1> QED
  BY <1>1, <1>2, TypeCorrect, AttemptsOwnRows, PTL DEF Spec

\* The rows of a cancelled graph are in the journal, and they are settled.
GraphsOver ==
  \A g \in cancelled : Nodes(runs, g) # {} /\ \A r \in Nodes(runs, g) : ~Unsettled(runs, r)

\* A cancelled graph is over for good: its nodes are settled and no attempt that could
\* still write works on one of them.
THEOREM CancelledGraphsOver == Spec => []CancelledGraphOver
<1>1. Init => GraphsOver
  BY DEF Init, GraphsOver
<1>2. TypeOK /\ AttemptOwnsRow /\ GraphsOver /\ [Next]_vars => GraphsOver'
  <2> SUFFICES ASSUME TypeOK, AttemptOwnsRow, GraphsOver, [Next]_vars, NEW g \in cancelled'
               PROVE  /\ Nodes(runs', g) # {}
                      /\ \A r \in Nodes(runs', g) : ~Unsettled(runs', r)
    BY DEF GraphsOver
  <2>0. runs \in Seq(Row) /\ Len(runs) \in Nat /\ cancelled \subseteq Graphs
    BY DEF TypeOK
  <2>1. /\ Rows(runs) \subseteq Rows(runs')
        /\ \A r \in Rows(runs) : runs'[r].graph = runs[r].graph
    BY JournalStep, JournalGrows DEF SameRun
  <2>2. CASE g \in cancelled
    <3>1. Nodes(runs', g) # {}
      BY <2>1, <2>2 DEF GraphsOver, Nodes
    <3>2. ASSUME NEW r \in Nodes(runs', g), r \in Rows(runs)
          PROVE  ~Unsettled(runs', r)
      <4>1. r \in Nodes(runs, g) /\ runs[r].status \in Settled /\ runs[r].graph = g
        BY <2>1, <2>2, <3>2 DEF GraphsOver, Nodes, Unsettled
      <4>2. runs'[r] = runs[r]
        BY <2>2, <3>2, <4>1, SettledStep DEF Final, Settled
      <4> QED
        BY <4>1, <4>2 DEF Unsettled
    <3>3. ASSUME NEW r \in Nodes(runs', g), r \notin Rows(runs)
          PROVE  FALSE
      <4>1. r \in Rows(runs') /\ runs'[r].graph = g /\ g # NoGraph
        BY <2>0, <2>2, <3>3, GraphsAssumption DEF Nodes
      <4>2. Rows(runs') # Rows(runs)
        BY <3>3, <4>1
      <4>3. CASE Admitted
        <5>1. PICK s \in Sessions, q \in Requests : runs' = Append(runs, NewRow(s, q))
          BY <4>3 DEF Admitted
        <5>2. NewRow(s, q).graph = NoGraph
          BY DEF NewRow
        <5> QED
          BY <2>0, <3>3, <4>1, <5>1, <5>2 DEF Rows
      <4>4. CASE GraphAdmitted
        <5>1. PICK h \in Graphs : /\ Nodes(runs, h) = {}
                                  /\ Len(runs) + Len(Needs[h]) <= MaxRuns
                                  /\ runs' = runs \o GraphNodes(h)
          BY <4>4 DEF GraphAdmitted
        <5>2. PICK i \in DOMAIN Needs[h] : runs'[r] = NewNode(h, i, Len(runs))
          BY <3>3, <4>1, <5>1, GraphAppended
        <5>3. runs'[r].graph = h
          BY <5>2 DEF NewNode, NewRow
        <5> QED
          BY <2>2, <4>1, <5>1, <5>3 DEF GraphsOver
      <4>5. CASE Replaced
        <5>1. PICK q \in Rows(runs), row \in Row : Replaces(q, row)
          BY <4>5 DEF Replaced, ReplacedAt
        <5> QED
          BY <2>0, <4>2, <5>1 DEF Replaces, Rows
      <4>6. CASE GraphCancelled
        BY <2>0, <4>2, <4>6, GraphRewritten DEF GraphCancelled, Rows
      <4> QED
        BY <4>2, <4>3, <4>4, <4>5, <4>6, JournalStep DEF JournalKept
    <3> QED
      BY <3>1, <3>2, <3>3
  <2>3. CASE g \notin cancelled
    <3>1. PICK h \in Graphs : cancelGraph(h)
      BY <2>3 DEF Next, Calls, Attempt, Process, submit, resubmit, submitGraph, cancel, respond,
                  resolve, retry, resume, SkipExecute, BeginExecute, RejectAdmission,
                  SettleRejected, JournalWork, Settle, SettleAborted, Leave, Elapse, Wake,
                  fail, close, Closed, Crash, open, vars
    <3>2. h = g /\ Nodes(runs, g) # {} /\ runs' = GraphRows(g)
      BY <2>3, <3>1 DEF cancelGraph, GraphRows
    <3>3. Nodes(runs', g) # {}
      BY <2>1, <3>2 DEF Nodes
    <3>4. \A r \in Nodes(runs', g) : r \in Rows(runs) /\ runs[r].graph = g
      BY <2>0, <2>1, <3>1, <3>2, GraphRewritten DEF Nodes, Rows
    <3> QED
      BY <3>1, <3>2, <3>3, <3>4, GraphRewritten
  <2> QED
    BY <2>2, <2>3
<1>3. TypeOK /\ AttemptOwnsRow /\ GraphsOver => CancelledGraphOver
  <2> SUFFICES ASSUME TypeOK, AttemptOwnsRow, GraphsOver,
                      NEW r \in Rows(runs), runs[r].graph \in cancelled
               PROVE  ~Unsettled(runs, r) /\ (attempt[r] = "executing" => r \in aborted)
    BY DEF CancelledGraphOver
  <2>1. ~Unsettled(runs, r)
    BY DEF GraphsOver, Nodes
  <2>2. attempt[r] = "executing" /\ r \notin aborted => runs[r].status = "running"
    BY DEF AttemptOwnsRow
  <2> QED
    BY <2>1, <2>2 DEF Unsettled, Settled
<1> QED
  BY <1>1, <1>2, <1>3, TypeCorrect, AttemptsOwnRows, PTL DEF Spec

-----------------------------------------------------------------------------
(* The order of a session, when no call falls into the launch gap.          *)

\* A row that left the queue other than by being cancelled, or that has started.
Begun(R, r) == R[r].status \notin {"queued", "cancelled"} \/ R[r].started

\* An attempt on its way to the first transaction.
Launching(A, r) == A[r] \in {"launched", "rejected"}

\* The row is the oldest unfinished one of its session.
First(R, r) == \A p \in 1..(r - 1) : SameSession(R, p, r) => ~Unsettled(R, p)

Ordered == \A r \in Rows(runs) : Begun(runs, r) \/ Launching(attempt, r) => First(runs, r)

\* What the status of a row says of its past.
Sound(row, phase) ==
  /\ row.status \notin {"queued", "pending", "failed", "cancelled"} => row.started
  /\ row.status = "queued" => ~row.started
  /\ ~row.started => row.work = "nothing"
  /\ ~row.started /\ row.status \in {"queued", "failed"} => row.history = <<>>
  /\ phase = "rejected" => row.status = "queued"
  /\ phase = "executing" => row.started

RowsSound == \A r \in Rows(runs) : Sound(runs[r], attempt[r])

\* The node of a graph is alone in its session.
NodesAlone ==
  \A r \in Rows(runs) :
     IF runs[r].graph = NoGraph THEN runs[r].session \in Sessions
     ELSE /\ \E i \in DOMAIN Needs[runs[r].graph] :
             runs[r].session = <<runs[r].graph, i>>
          /\ \A p \in Rows(runs) : SameSession(runs, p, r) => p = r

\* A run that starts, or is about to start again, knows its session.
HistoriesComplete ==
  \A r \in Rows(runs) :
     runs[r].started \/ runs[r].status = "pending" => runs[r].history = SessionTurns(r)

OrderInv == Ordered /\ RowsSound /\ NodesAlone /\ HistoriesComplete

\* What every transaction but three leaves of a row.
Keeps(r) ==
  /\ runs'[r].started = runs[r].started
  /\ runs'[r].work = runs[r].work
  /\ runs'[r].history = runs[r].history

\* One row is written: the others stay.
LEMMA RowWritten ==
  ASSUME TypeOK, NEW r \in Rows(runs), NEW row, runs' = [runs EXCEPT ![r] = row]
  PROVE  runs'[r] = row /\ \A p \in Rows(runs) : p # r => runs'[p] = runs[p]
BY DEF TypeOK, Rows

\* A run is cancelled.
LEMMA CancelEffect ==
  ASSUME TypeOK, NEW r \in Ids, cancel(r)
  PROVE  /\ Keeps(r)
         /\ \/ runs'[r] = runs[r]
            \/ Unsettled(runs, r) /\ runs'[r].status = "cancelled"
<1>1. r \in Rows(runs) /\ runs[r] \in Row
  BY RowTyped DEF cancel
<1>2. CASE Unsettled(runs, r)
  <2> DEFINE row == [runs[r] EXCEPT !.status = "cancelled", !.due = FALSE]
  <2>1. runs' = [runs EXCEPT ![r] = row]
    BY <1>1, <1>2 DEF cancel
  <2>2. /\ row.status = "cancelled" /\ row.started = runs[r].started
        /\ row.work = runs[r].work /\ row.history = runs[r].history
    BY <1>1 DEF Row
  <2> HIDE DEF row
  <2>3. runs'[r] = row
    BY <1>1, <2>1, RowWritten
  <2> QED BY <1>2, <2>2, <2>3 DEF Keeps
<1>3. CASE ~Unsettled(runs, r)
  <2>1. runs' = runs
    BY <1>3 DEF cancel
  <2> QED BY <2>1 DEF Keeps
<1> QED BY <1>2, <1>3

\* A person answers, or an operator settles what a run is blocked on.
LEMMA ResumeEffect ==
  ASSUME TypeOK, NEW r \in Ids, respond(r) \/ resolve(r)
  PROVE  /\ r \in Rows(runs) /\ Keeps(r)
         /\ runs[r].status \in {"waiting", "needs_attention"} /\ runs'[r].status = "pending"
<1>1. r \in Rows(runs) /\ runs[r] \in Row /\ runs[r].status \in {"waiting", "needs_attention"}
  BY RowTyped DEF respond, resolve
<1>2. CASE respond(r)
  <2> DEFINE row == [runs[r] EXCEPT !.status = "pending", !.resumes = @ + 1]
  <2>1. runs' = [runs EXCEPT ![r] = row]
    BY <1>1, <1>2 DEF respond
  <2>2. /\ row.status = "pending" /\ row.started = runs[r].started
        /\ row.work = runs[r].work /\ row.history = runs[r].history
    BY <1>1 DEF Row
  <2> HIDE DEF row
  <2>3. runs'[r] = row
    BY <1>1, <2>1, RowWritten
  <2> QED BY <1>1, <2>2, <2>3 DEF Keeps
<1>3. CASE resolve(r)
  <2> DEFINE row == [runs[r] EXCEPT !.status = "pending", !.blocked = FALSE, !.resumes = @ + 1]
  <2>1. runs' = [runs EXCEPT ![r] = row]
    BY <1>1, <1>3 DEF resolve
  <2>2. /\ row.status = "pending" /\ row.started = runs[r].started
        /\ row.work = runs[r].work /\ row.history = runs[r].history
    BY <1>1 DEF Row
  <2> HIDE DEF row
  <2>3. runs'[r] = row
    BY <1>1, <2>1, RowWritten
  <2> QED BY <1>1, <2>2, <2>3 DEF Keeps
<1> QED BY <1>2, <1>3

\* The input of a run is rebuilt if it was never admitted.
Rebuilt(r) == runs[r].graph = NoGraph /\ runs[r].history = <<>> /\ runs[r].work = "nothing"

\* A run is retried: back in line, with a conversation of its own or a rebuilt one.
LEMMA RetryEffect ==
  ASSUME TypeOK, NEW r \in Ids, retry(r)
  PROVE  /\ r \in Rows(runs) /\ attempt[r] = "none"
         /\ runs[r].status \in {"failed", "needs_attention"} /\ runs'[r].status = "pending"
         /\ ~hasLaterStartedRun(runs, r)
         /\ runs'[r].started = runs[r].started /\ runs'[r].work = runs[r].work
         /\ runs'[r].history = IF Rebuilt(r) THEN inheritSessionHistory(runs, r)
                               ELSE runs[r].history
<1>1. /\ r \in Rows(runs) /\ runs[r] \in Row /\ attempt[r] = "none"
      /\ runs[r].status \in {"failed", "needs_attention"} /\ ~hasLaterStartedRun(runs, r)
  BY RowTyped DEF retry
<1> DEFINE history == IF Rebuilt(r) THEN inheritSessionHistory(runs, r) ELSE runs[r].history
           row == [runs[r] EXCEPT !.status = "pending", !.blocked = FALSE, !.resumes = @ + 1,
                                  !.history = history]
<1>2. runs' = [runs EXCEPT ![r] = row]
  BY <1>1 DEF retry, Rebuilt
<1>3. /\ row.status = "pending" /\ row.started = runs[r].started
      /\ row.work = runs[r].work /\ row.history = history
  <2> HIDE DEF history
  <2> QED BY <1>1 DEF Row
<1> HIDE DEF row
<1>4. runs'[r] = row
  BY <1>1, <1>2, RowWritten
<1> QED BY <1>1, <1>3, <1>4

\* The first transaction of an attempt: a queued run takes over the conversation of its session.
LEMMA BeginEffect ==
  ASSUME TypeOK, NEW r \in Ids, BeginExecute(r)
  PROVE  /\ r \in Rows(runs) /\ attempt[r] = "launched" /\ runs[r].status \in Runnable
         /\ attempt' = [attempt EXCEPT ![r] = "executing"]
         /\ runs'[r].status = "running" /\ runs'[r].started /\ runs'[r].work = runs[r].work
         /\ runs'[r].history = IF runs[r].status = "queued" THEN inheritSessionHistory(runs, r)
                               ELSE runs[r].history
<1>1. /\ r \in Rows(runs) /\ runs[r] \in Row /\ attempt[r] = "launched"
      /\ runs[r].status \in Runnable /\ attempt' = [attempt EXCEPT ![r] = "executing"]
  BY AttemptRow DEF BeginExecute, Enter
<1> DEFINE history == IF runs[r].status = "queued" THEN inheritSessionHistory(runs, r)
                      ELSE runs[r].history
           input == IF runs[r].status = "queued" THEN graphInput(runs, r) ELSE runs[r].input
           row == [runs[r] EXCEPT !.status = "running", !.started = TRUE, !.due = FALSE,
                                  !.history = history, !.input = input]
<1>2. runs' = [runs EXCEPT ![r] = row]
  BY <1>1 DEF BeginExecute
<1>3. row.status = "running" /\ row.started /\ row.work = runs[r].work /\ row.history = history
  <2> HIDE DEF history, input
  <2> QED BY <1>1 DEF Row
<1> HIDE DEF row
<1>4. runs'[r] = row
  BY <1>1, <1>2, RowWritten
<1> QED BY <1>1, <1>3, <1>4

\* A run whose admission was rolled back fails.
LEMMA RejectedEffect ==
  ASSUME TypeOK, NEW r \in Ids, SettleRejected(r)
  PROVE  /\ r \in Rows(runs) /\ attempt[r] = "rejected" /\ Keeps(r)
         /\ attempt' = [attempt EXCEPT ![r] = "leaving"]
         /\ \/ runs'[r] = runs[r]
            \/ Unsettled(runs, r) /\ runs'[r].status = "failed"
<1>1. /\ r \in Rows(runs) /\ runs[r] \in Row /\ attempt[r] = "rejected"
      /\ attempt' = [attempt EXCEPT ![r] = "leaving"]
  BY AttemptRow DEF SettleRejected, Enter
<1>2. CASE Unsettled(runs, r)
  <2> DEFINE row == [runs[r] EXCEPT !.status = "failed", !.due = FALSE]
  <2>1. runs' = [runs EXCEPT ![r] = row]
    BY <1>1, <1>2 DEF SettleRejected
  <2>2. /\ row.status = "failed" /\ row.started = runs[r].started
        /\ row.work = runs[r].work /\ row.history = runs[r].history
    BY <1>1 DEF Row
  <2> HIDE DEF row
  <2>3. runs'[r] = row
    BY <1>1, <2>1, RowWritten
  <2> QED BY <1>1, <1>2, <2>2, <2>3 DEF Keeps
<1>3. CASE ~Unsettled(runs, r)
  <2>1. runs' = runs
    BY <1>3 DEF SettleRejected
  <2> QED BY <1>1, <2>1 DEF Keeps
<1> QED BY <1>2, <1>3

\* An operation reaches the journal.
LEMMA WorkEffect ==
  ASSUME TypeOK, NEW r \in Ids, JournalWork(r)
  PROVE  /\ r \in Rows(runs) /\ attempt[r] = "executing" /\ r \notin aborted
         /\ attempt' = attempt
         /\ runs'[r].status = runs[r].status /\ runs'[r].started = runs[r].started
         /\ runs'[r].history = runs[r].history
<1>1. /\ r \in Rows(runs) /\ runs[r] \in Row /\ attempt[r] = "executing" /\ r \notin aborted
      /\ attempt' = attempt
  BY AttemptRow DEF JournalWork
<1>2. PICK w \in {"operations", "progress"} : runs' = [runs EXCEPT ![r].work = w]
  BY DEF JournalWork
<1> DEFINE row == [runs[r] EXCEPT !.work = w]
<1>3. runs' = [runs EXCEPT ![r] = row]
  BY <1>1, <1>2
<1>4. /\ row.status = runs[r].status /\ row.started = runs[r].started
      /\ row.history = runs[r].history
  BY <1>1 DEF Row
<1> HIDE DEF row
<1>5. runs'[r] = row
  BY <1>1, <1>3, RowWritten
<1> QED BY <1>1, <1>4, <1>5

\* The outcomes of an attempt.
LEMMA SettleEffect ==
  ASSUME TypeOK, NEW r \in Ids, Settle(r)
  PROVE  /\ r \in Rows(runs) /\ attempt[r] = "executing" /\ r \notin aborted /\ Keeps(r)
         /\ attempt' = [attempt EXCEPT ![r] = "leaving"]
         /\ runs'[r].status \in {"completed", "failed", "needs_attention", "waiting", "retry_wait"}
<1>1. /\ r \in Rows(runs) /\ runs[r] \in Row /\ attempt[r] = "executing" /\ r \notin aborted
      /\ attempt' = [attempt EXCEPT ![r] = "leaving"]
  BY AttemptRow DEF Settle, Enter
<1> DEFINE outcomes == {"completed", "failed", "needs_attention", "waiting", "retry_wait"}
<1>2. \E row : /\ runs' = [runs EXCEPT ![r] = row]
               /\ row.status \in outcomes /\ row.started = runs[r].started
               /\ row.work = runs[r].work /\ row.history = runs[r].history
  <2>1. ASSUME NEW ok \in BOOLEAN,
               runs' = [runs EXCEPT ![r].status = "completed", ![r].response = ok]
        PROVE  \E row : /\ runs' = [runs EXCEPT ![r] = row]
                        /\ row.status \in outcomes /\ row.started = runs[r].started
                        /\ row.work = runs[r].work /\ row.history = runs[r].history
    <3> WITNESS [runs[r] EXCEPT !.status = "completed", !.response = ok]
    <3> QED BY <1>1, <2>1 DEF Row
  <2>2. ASSUME NEW status \in outcomes, runs' = [runs EXCEPT ![r].status = status]
        PROVE  \E row : /\ runs' = [runs EXCEPT ![r] = row]
                        /\ row.status \in outcomes /\ row.started = runs[r].started
                        /\ row.work = runs[r].work /\ row.history = runs[r].history
    <3> WITNESS [runs[r] EXCEPT !.status = status]
    <3> QED BY <1>1, <2>2 DEF Row
  <2>3. ASSUME runs' = [runs EXCEPT ![r].status = "needs_attention", ![r].blocked = TRUE]
        PROVE  \E row : /\ runs' = [runs EXCEPT ![r] = row]
                        /\ row.status \in outcomes /\ row.started = runs[r].started
                        /\ row.work = runs[r].work /\ row.history = runs[r].history
    <3> WITNESS [runs[r] EXCEPT !.status = "needs_attention", !.blocked = TRUE]
    <3> QED BY <1>1, <2>3 DEF Row
  <2>4. ASSUME runs' = [runs EXCEPT ![r].status = "retry_wait", ![r].due = FALSE,
                                    ![r].waits = @ + 1]
        PROVE  \E row : /\ runs' = [runs EXCEPT ![r] = row]
                        /\ row.status \in outcomes /\ row.started = runs[r].started
                        /\ row.work = runs[r].work /\ row.history = runs[r].history
    <3> WITNESS [runs[r] EXCEPT !.status = "retry_wait", !.due = FALSE, !.waits = @ + 1]
    <3> QED BY <1>1, <2>4 DEF Row
  <2> HIDE DEF outcomes
  <2>5. {"completed", "failed", "needs_attention", "waiting"} \subseteq outcomes
    BY DEF outcomes
  <2>6. \/ \E ok \in BOOLEAN :
              runs' = [runs EXCEPT ![r].status = "completed", ![r].response = ok]
        \/ \E status \in outcomes : runs' = [runs EXCEPT ![r].status = status]
        \/ runs' = [runs EXCEPT ![r].status = "needs_attention", ![r].blocked = TRUE]
        \/ runs' = [runs EXCEPT ![r].status = "retry_wait", ![r].due = FALSE, ![r].waits = @ + 1]
    BY <2>5 DEF Settle
  <2> QED BY <2>1, <2>2, <2>3, <2>4, <2>6
<1>3. PICK row : /\ runs' = [runs EXCEPT ![r] = row]
                 /\ row.status \in outcomes /\ row.started = runs[r].started
                 /\ row.work = runs[r].work /\ row.history = runs[r].history
  BY <1>2
<1>4. runs'[r] = row
  BY <1>1, <1>3, RowWritten
<1> QED BY <1>1, <1>3, <1>4 DEF Keeps

\* The time of the next attempt comes.
LEMMA ElapseEffect ==
  ASSUME TypeOK, NEW r \in Ids, Elapse(r)
  PROVE  /\ r \in Rows(runs) /\ Keeps(r) /\ attempt' = attempt
         /\ runs[r].status = "retry_wait" /\ runs'[r].status = "retry_wait"
<1>1. r \in Rows(runs) /\ runs[r] \in Row /\ runs[r].status = "retry_wait"
  BY RowTyped DEF Elapse
<1> DEFINE row == [runs[r] EXCEPT !.due = TRUE]
<1>2. runs' = [runs EXCEPT ![r] = row]
  BY <1>1 DEF Elapse
<1>3. /\ row.status = "retry_wait" /\ row.started = runs[r].started
      /\ row.work = runs[r].work /\ row.history = runs[r].history
  BY <1>1 DEF Row
<1> HIDE DEF row
<1>4. runs'[r] = row
  BY <1>1, <1>2, RowWritten
<1> QED BY <1>1, <1>3, <1>4 DEF Keeps, Elapse

\* What changes a row: its own transactions, and the cancellation of its graph.
LEMMA RowChange ==
  ASSUME TypeOK, [Next]_vars, NEW r \in Rows(runs), runs'[r] # runs[r]
  PROVE  \/ RowStep(r)
         \/ \E g \in Graphs : cancelGraph(g) /\ runs'[r] = CancelRow(runs[r])
<1>0. runs \in Seq(Row) /\ runs[r] \in Row /\ r \in Ids
  BY RowTyped, RunsAssumption DEF TypeOK, Rows, Ids
<1>1. ASSUME NEW s \in Sessions, NEW q \in Requests, NEW enqueue \in BOOLEAN,
             submit(s, q, enqueue)
      PROVE  FALSE
  BY <1>0, <1>1 DEF submit, Rows
<1>2. ASSUME NEW q \in Ids, RowStep(q)
      PROVE  RowStep(r)
  BY <1>2, OthersKept
<1>3. ASSUME NEW q \in Ids, SkipExecute(q) \/ RejectAdmission(q) \/ SettleAborted(q) \/ Leave(q)
      PROVE  FALSE
  BY <1>3 DEF SkipExecute, RejectAdmission, SettleAborted, Leave
<1>4. ASSUME \/ \E s \in Sessions, q \in Requests : resubmit(s, q)
             \/ resume \/ Wake \/ Process \/ UNCHANGED vars
      PROVE  FALSE
  BY <1>4 DEF resubmit, resume, Wake, Process, fail, close, Closed, Crash, open, vars
<1>5. ASSUME NEW g \in Graphs, submitGraph(g)
      PROVE  FALSE
  <2>1. \/ runs' = runs
        \/ Len(runs) + Len(Needs[g]) <= MaxRuns /\ runs' = runs \o GraphNodes(g)
    BY <1>5 DEF submitGraph, GraphNodes
  <2> QED BY <2>1, GraphAppended
<1>6. ASSUME NEW g \in Graphs, cancelGraph(g)
      PROVE  runs'[r] = CancelRow(runs[r])
  <2>1. runs' = GraphRows(g)
    BY <1>6 DEF cancelGraph, GraphRows
  <2> QED BY <2>1 DEF GraphRows
<1> QED
  BY <1>1, <1>2, <1>3, <1>4, <1>5, <1>6 DEF Next, Calls, Attempt, RowStep

\* What pump() changes: it launches rows that are the oldest unfinished of their session.
LEMMA PumpPhase ==
  ASSUME TypeOK', NEW A \in [Ids -> Phases], attempt' \in Launches(runs', A), NEW r \in Ids
  PROVE  attempt'[r] = A[r] \/ (attempt'[r] = "launched" /\ First(runs', r))
<1>1. runs' \in Seq(Row) /\ Len(runs') <= MaxRuns
  BY DEF TypeOK
<1>2. PICK L \in SUBSET Eligible(runs', A) : attempt' = Launch(A, L)
  BY <1>1, LaunchesEffect
<1>3. r \in L => First(runs', r)
  BY <1>2 DEF Eligible, First
<1> QED BY <1>2, <1>3 DEF Launch

\* What brings an attempt into a phase.
LEMMA PhaseChange ==
  ASSUME TypeOK, [Next]_vars, NEW r \in Ids, attempt'[r] # attempt[r]
  PROVE  /\ attempt'[r] = "executing" => BeginExecute(r)
         /\ attempt'[r] = "rejected" => RejectAdmission(r)
         /\ attempt'[r] = "launched" => First(runs', r)
<1> DEFINE Goal == /\ attempt'[r] = "executing" => BeginExecute(r)
                   /\ attempt'[r] = "rejected" => RejectAdmission(r)
                   /\ attempt'[r] = "launched" => First(runs', r)
<1> SUFFICES Goal
  OBVIOUS
<1>0. TypeOK' /\ attempt \in [Ids -> Phases] /\ "none" \in Phases
  BY TypeStep DEF TypeOK, Phases
<1>1. ASSUME attempt' \in Launches(runs', attempt)
      PROVE  Goal
  <2>1. attempt'[r] = attempt[r] \/ (attempt'[r] = "launched" /\ First(runs', r))
    BY <1>0, <1>1, PumpPhase
  <2> QED BY <2>1
<1>2. CASE Calls
  <2> HIDE DEF Goal
  <2>1. attempt' \in Launches(runs', attempt)
    BY <1>2 DEF Calls, submit, resubmit, submitGraph, cancelGraph, cancel, respond, resolve,
                retry, resume, pump
  <2> QED BY <1>1, <2>1
<1>3. ASSUME NEW q \in Ids, Attempt(q), ~Leave(q)
      PROVE  Goal
  <2>1. CASE q = r
    <3>1. CASE SkipExecute(q) \/ SettleRejected(q) \/ Settle(q) \/ SettleAborted(q)
      <4>1. attempt'[r] = "leaving"
        BY <1>0, <2>1, <3>1 DEF SkipExecute, SettleRejected, Settle, SettleAborted, Enter
      <4> QED BY <4>1
    <3>2. CASE BeginExecute(q)
      <4>1. attempt'[r] = "executing"
        BY <1>0, <2>1, <3>2 DEF BeginExecute, Enter
      <4> QED BY <2>1, <3>2, <4>1
    <3>3. CASE RejectAdmission(q)
      <4>1. attempt'[r] = "rejected"
        BY <1>0, <2>1, <3>3 DEF RejectAdmission, Enter
      <4> QED BY <2>1, <3>3, <4>1
    <3>4. CASE JournalWork(q)
      BY <3>4 DEF JournalWork
    <3> QED BY <1>3, <3>1, <3>2, <3>3, <3>4 DEF Attempt
  <2>2. CASE q # r
    <3>1. attempt'[r] = attempt[r]
      BY <1>0, <1>3, <2>2 DEF Attempt, SkipExecute, BeginExecute, RejectAdmission,
                               SettleRejected, JournalWork, Settle, SettleAborted, Enter
    <3> QED BY <3>1
  <2> QED BY <2>1, <2>2
<1>4. ASSUME NEW q \in Ids, Leave(q)
      PROVE  Goal
  <2> HIDE DEF Goal
  <2> DEFINE A == [attempt EXCEPT ![q] = "none"]
  <2>1. A \in [Ids -> Phases] /\ (A[r] = attempt[r] \/ A[r] = "none")
    BY <1>0
  <2>2. attempt' = A \/ attempt' \in Launches(runs', A)
    BY <1>4 DEF Leave, pump
  <2> HIDE DEF A
  <2>3. attempt'[r] = A[r] \/ (attempt'[r] = "launched" /\ First(runs', r))
    BY <1>0, <2>1, <2>2, PumpPhase
  <2> QED BY <2>1, <2>3 DEF Goal
<1>5. CASE Wake
  <2> HIDE DEF Goal
  <2>1. attempt' \in Launches(runs', attempt)
    BY <1>5 DEF Wake, pump
  <2> QED BY <1>1, <2>1
<1>6. CASE Crash
  <2>1. attempt'[r] = "none"
    BY <1>6 DEF Crash
  <2> QED BY <2>1
<1>7. CASE fail \/ close \/ Closed \/ open \/ UNCHANGED vars \/ \E q \in Ids : Elapse(q)
  BY <1>7 DEF fail, close, Closed, open, vars, Elapse
<1> QED
  BY <1>2, <1>3, <1>4, <1>5, <1>6, <1>7 DEF Next, Process

\* Without the gap, no call comes while an attempt is on its way.
LEMMA CallsWait ==
  ASSUME ~CallsInLaunchGap, Calls, NEW r \in Ids
  PROVE  ~Launching(attempt, r)
<1>1. Callable
  BY DEF Calls, submit, resubmit, submitGraph, cancelGraph, cancel, respond, resolve, retry, resume
<1> QED BY <1>1 DEF Callable, Launching

\* Nor does one of the calls that write rows.
LEMMA RowCallsWait ==
  ASSUME ~CallsInLaunchGap, NEW q \in Ids, NEW r \in Ids,
         \/ cancel(q) \/ respond(q) \/ resolve(q) \/ retry(q)
         \/ \E g \in Graphs : cancelGraph(g)
  PROVE  ~Launching(attempt, r)
BY CallsWait DEF Calls

\* A row that was in the journal before the step, or a new one.
LEMMA NewRows ==
  ASSUME TypeOK, [Next]_vars, NEW r \in Rows(runs'), r \notin Rows(runs)
  PROVE  /\ \/ \E s \in Sessions, q \in Requests :
                 r = Len(runs) + 1 /\ runs'[r] = NewRow(s, q)
            \/ \E g \in Graphs :
                 /\ Nodes(runs, g) = {} /\ r - Len(runs) \in DOMAIN Needs[g]
                 /\ runs'[r] = NewNode(g, r - Len(runs), Len(runs))
         /\ runs'[r].status = "queued" /\ ~runs'[r].started
         /\ runs'[r].work = "nothing" /\ runs'[r].history = <<>>
         /\ r \in Ids /\ attempt[r] = "none"
         /\ \A p \in Rows(runs) : p < r
<1>0. /\ runs \in Seq(Row) /\ Len(runs) \in Nat /\ Len(runs') <= MaxRuns
      /\ Working(attempt) \subseteq Rows(runs)
  BY TypeStep DEF TypeOK
<1>1. r \in Nat /\ r > Len(runs) /\ r \in Ids /\ runs' # runs
  BY <1>0, RunsAssumption DEF Rows, Ids
<1>2. attempt[r] = "none" /\ \A p \in Rows(runs) : p < r
  BY <1>0, <1>1 DEF Working, Rows
<1>3. CASE Admitted
  <2>1. PICK s \in Sessions, q \in Requests : runs' = Append(runs, NewRow(s, q))
    BY <1>3 DEF Admitted
  <2>2. r = Len(runs) + 1 /\ runs'[r] = NewRow(s, q)
    BY <1>0, <1>1, <2>1 DEF Rows
  <2>3. /\ NewRow(s, q).status = "queued" /\ ~NewRow(s, q).started
        /\ NewRow(s, q).work = "nothing" /\ NewRow(s, q).history = <<>>
    BY DEF NewRow
  <2> QED BY <1>1, <1>2, <2>1, <2>2, <2>3
<1>4. CASE GraphAdmitted
  <2>1. PICK g \in Graphs : /\ Nodes(runs, g) = {}
                            /\ Len(runs) + Len(Needs[g]) <= MaxRuns
                            /\ runs' = runs \o GraphNodes(g)
    BY <1>4 DEF GraphAdmitted
  <2>2. r - Len(runs) \in DOMAIN Needs[g] /\ runs'[r] = NewNode(g, r - Len(runs), Len(runs))
    BY <2>1, GraphAppended
  <2>3. \A i, n : LET node == NewNode(g, i, n) IN
          /\ node.status = "queued" /\ ~node.started
          /\ node.work = "nothing" /\ node.history = <<>>
    BY DEF NewNode, NewRow
  <2> QED BY <1>1, <1>2, <2>1, <2>2, <2>3
<1>5. CASE Replaced
  <2>1. PICK q \in Rows(runs), row \in Row : Replaces(q, row)
    BY <1>5 DEF Replaced, ReplacedAt
  <2> QED BY <1>0, <1>1, <2>1 DEF Replaces, Rows
<1>6. CASE GraphCancelled
  BY <1>0, <1>1, <1>6, GraphRewritten DEF GraphCancelled, Rows
<1> QED
  BY <1>1, <1>2, <1>3, <1>4, <1>5, <1>6, JournalStep DEF JournalKept

\* A cancellation, by itself or with its graph.
LEMMA CancelKeeps ==
  ASSUME TypeOK, NEW r \in Rows(runs),
         cancel(r) \/ runs'[r] = CancelRow(runs[r])
  PROVE  /\ Keeps(r)
         /\ runs'[r].status = runs[r].status \/ runs'[r].status = "cancelled"
<1>1. runs[r] \in Row /\ r \in Ids
  BY RowTyped, RunsAssumption DEF TypeOK, Rows, Ids
<1>2. CASE cancel(r)
  BY <1>1, <1>2, CancelEffect
<1>3. CASE runs'[r] = CancelRow(runs[r])
  <2>1. CASE runs[r].status \in Settled
    BY <1>3, <2>1 DEF CancelRow, Keeps
  <2>2. CASE runs[r].status \notin Settled
    <3> DEFINE row == [runs[r] EXCEPT !.status = "cancelled", !.due = FALSE]
    <3>1. runs'[r] = row
      BY <1>3, <2>2 DEF CancelRow
    <3>2. /\ row.status = "cancelled" /\ row.started = runs[r].started
          /\ row.work = runs[r].work /\ row.history = runs[r].history
      BY <1>1 DEF Row
    <3> HIDE DEF row
    <3> QED BY <3>1, <3>2 DEF Keeps
  <2> QED BY <2>1, <2>2
<1> QED BY <1>2, <1>3

\* The ways a row changes.
LEMMA RowCases ==
  ASSUME TypeOK, [Next]_vars, NEW r \in Rows(runs)
  PROVE  \/ runs'[r] = runs[r]
         \/ cancel(r) \/ respond(r) \/ resolve(r) \/ retry(r)
         \/ \E g \in Graphs : cancelGraph(g) /\ runs'[r] = CancelRow(runs[r])
         \/ BeginExecute(r) \/ SettleRejected(r) \/ JournalWork(r) \/ Settle(r) \/ Elapse(r)
BY RowChange DEF RowStep

\* What is settled before a run that has begun, or is about to, stays as it is.
LEMMA BeforeKept ==
  ASSUME TypeOK, AttemptOwnsRow, ~CallsInLaunchGap, Ordered, [Next]_vars,
         NEW r \in Rows(runs), Begun(runs, r) \/ Launching(attempt, r),
         NEW p \in 1..(r - 1), SameSession(runs, p, r)
  PROVE  p \in Rows(runs) /\ ~Unsettled(runs, p) /\ runs'[p] = runs[p]
<1>1. p \in Rows(runs) /\ r \in (p + 1)..Len(runs) /\ p \in Ids /\ r \in Ids
  BY RunsAssumption DEF TypeOK, Rows, Ids
<1>2. ~Unsettled(runs, p)
  BY DEF Ordered, First
<1>3. ASSUME runs'[p] # runs[p] PROVE FALSE
  <2>1. runs[p].status \in Settled /\ Final(p)
    BY <1>1, <1>2, SettledStep DEF Unsettled
  <2>2. runs[p].status = "failed" /\ ~hasLaterStartedRun(runs, p) /\ runs'[p].status = "pending"
    BY <1>3, <2>1 DEF Final, Settled
  <2>3. ~Begun(runs, r)
    BY <1>1, <2>2 DEF hasLaterStartedRun, Begun, SameSession
  <2>4. Launching(attempt, r)
    BY <2>3
  <2>5. ~(cancel(p) \/ respond(p) \/ resolve(p) \/ retry(p) \/ \E g \in Graphs : cancelGraph(g))
    BY <1>1, <2>4, RowCallsWait
  <2>6. ~BeginExecute(p) /\ ~Elapse(p)
    BY <2>2 DEF BeginExecute, Elapse, Runnable
  <2>7. ~SettleRejected(p)
    BY <1>1, <1>2, <1>3, RejectedEffect
  <2>8. ~JournalWork(p) /\ ~Settle(p)
    BY <1>1, <2>2 DEF JournalWork, Settle, AttemptOwnsRow
  <2> QED BY <1>1, <1>3, <2>5, <2>6, <2>7, <2>8, RowCases
<1> QED BY <1>1, <1>2, <1>3

\* The runs that have begun, or are about to, stay the first of their sessions.
LEMMA OrderedStep ==
  ASSUME TypeOK, AttemptOwnsRow, ~CallsInLaunchGap, Ordered, RowsSound, [Next]_vars
  PROVE  Ordered'
<1> SUFFICES ASSUME NEW r \in Rows(runs'), Begun(runs', r) \/ Launching(attempt', r)
             PROVE  First(runs', r)
  BY DEF Ordered
<1>0. r \in Ids
  BY TypeStep, RunsAssumption DEF TypeOK, Rows, Ids
<1>1. ASSUME ~Launching(attempt, r), Launching(attempt', r) PROVE First(runs', r)
  <2>1. attempt'[r] # attempt[r] /\ attempt'[r] \in {"launched", "rejected"}
    BY <1>1 DEF Launching
  <2>2. attempt'[r] # "rejected"
    BY <1>0, <1>1, <2>1, PhaseChange DEF RejectAdmission, Launching
  <2> QED BY <1>0, <2>1, <2>2, PhaseChange
<1>2. CASE r \notin Rows(runs)
  <2>1. ~Begun(runs', r) /\ ~Launching(attempt, r)
    BY <1>2, NewRows DEF Begun, Launching
  <2> QED BY <1>1, <2>1
<1>3. CASE r \in Rows(runs) /\ (Begun(runs, r) \/ Launching(attempt, r))
  <2> SUFFICES ASSUME NEW p \in 1..(r - 1), SameSession(runs', p, r)
               PROVE  ~Unsettled(runs', p)
    BY DEF First
  <2>1. p \in Rows(runs)
    BY <1>3 DEF TypeOK, Rows
  <2>2. SameSession(runs, p, r)
    BY <1>3, <2>1, JournalStep, JournalGrows DEF SameRun, SameSession
  <2>3. ~Unsettled(runs, p) /\ runs'[p] = runs[p]
    BY <1>3, <2>2, BeforeKept
  <2> QED BY <2>3 DEF Unsettled
<1>4. CASE r \in Rows(runs) /\ ~Begun(runs, r) /\ ~Launching(attempt, r)
  <2>1. runs[r].status \in {"queued", "cancelled"} /\ ~runs[r].started
    BY <1>4 DEF Begun
  <2>2. ~respond(r) /\ ~resolve(r) /\ ~retry(r) /\ ~Elapse(r)
    BY <2>1 DEF respond, resolve, retry, Elapse
  <2>3. ~BeginExecute(r) /\ ~SettleRejected(r)
    BY <1>4 DEF BeginExecute, SettleRejected, Launching
  <2>4. attempt[r] # "executing"
    BY <1>4, <2>1 DEF RowsSound, Sound
  <2>5. ~JournalWork(r) /\ ~Settle(r)
    BY <2>4 DEF JournalWork, Settle
  <2>6. \/ runs'[r] = runs[r]
        \/ cancel(r) \/ runs'[r] = CancelRow(runs[r])
    BY <1>4, <2>2, <2>3, <2>5, RowCases
  <2>7. ~Begun(runs', r)
    <3>1. CASE runs'[r] = runs[r]
      BY <1>4, <3>1 DEF Begun
    <3>2. CASE cancel(r) \/ runs'[r] = CancelRow(runs[r])
      BY <1>4, <2>1, <3>2, CancelKeeps DEF Begun, Keeps
    <3> QED BY <2>6, <3>1, <3>2
  <2> QED BY <1>1, <1>4, <2>7
<1> QED BY <1>2, <1>3, <1>4

\* What has started has started for good.
LEMMA StartedKept ==
  ASSUME TypeOK, [Next]_vars, NEW r \in Rows(runs), runs[r].started
  PROVE  runs'[r].started
<1>0. r \in Ids
  BY RunsAssumption DEF TypeOK, Rows, Ids
<1>1. CASE cancel(r) \/ runs'[r] = CancelRow(runs[r])
  BY <1>1, CancelKeeps DEF Keeps
<1>2. CASE respond(r) \/ resolve(r)
  BY <1>0, <1>2, ResumeEffect DEF Keeps
<1>3. CASE retry(r)
  BY <1>0, <1>3, RetryEffect
<1>4. CASE BeginExecute(r)
  BY <1>0, <1>4, BeginEffect
<1>5. CASE SettleRejected(r)
  BY <1>0, <1>5, RejectedEffect DEF Keeps
<1>6. CASE JournalWork(r)
  BY <1>0, <1>6, WorkEffect
<1>7. CASE Settle(r)
  BY <1>0, <1>7, SettleEffect DEF Keeps
<1>8. CASE Elapse(r)
  BY <1>0, <1>8, ElapseEffect DEF Keeps
<1> QED BY <1>1, <1>2, <1>3, <1>4, <1>5, <1>6, <1>7, <1>8, RowCases

\* The part of Sound that is about the row alone.
SoundRow(row) ==
  /\ row.status \notin {"queued", "pending", "failed", "cancelled"} => row.started
  /\ row.status = "queued" => ~row.started
  /\ ~row.started => row.work = "nothing"
  /\ ~row.started /\ row.status \in {"queued", "failed"} => row.history = <<>>

\* Every step leaves a row whose status is true of its past,
LEMMA SoundRowStep ==
  ASSUME TypeOK, RowsSound, ~CallsInLaunchGap, [Next]_vars, NEW r \in Rows(runs)
  PROVE  SoundRow(runs'[r])
<1>0. r \in Ids /\ SoundRow(runs[r]) /\ Sound(runs[r], attempt[r])
  BY RunsAssumption DEF TypeOK, Rows, Ids, RowsSound, Sound, SoundRow
<1>1. CASE cancel(r) \/ runs'[r] = CancelRow(runs[r])
  BY <1>0, <1>1, CancelKeeps DEF Keeps, SoundRow
<1>2. CASE respond(r) \/ resolve(r)
  BY <1>0, <1>2, ResumeEffect DEF Keeps, SoundRow
<1>3. CASE retry(r)
  BY <1>0, <1>3, RetryEffect DEF SoundRow
<1>4. CASE BeginExecute(r)
  BY <1>0, <1>4, BeginEffect DEF SoundRow
<1>5. CASE SettleRejected(r)
  <2>1. attempt[r] = "rejected" /\ runs[r].status = "queued"
    BY <1>0, <1>5 DEF SettleRejected, Sound
  <2> QED BY <1>0, <1>5, <2>1, RejectedEffect DEF Keeps, SoundRow
<1>6. CASE JournalWork(r)
  <2>1. runs[r].started
    BY <1>0, <1>6, WorkEffect DEF Sound
  <2> QED BY <1>0, <1>6, <2>1, WorkEffect DEF SoundRow
<1>7. CASE Settle(r)
  <2>1. runs[r].started
    BY <1>0, <1>7, SettleEffect DEF Sound
  <2> QED BY <1>0, <1>7, <2>1, SettleEffect DEF SoundRow, Keeps
<1>8. CASE Elapse(r)
  BY <1>0, <1>8, ElapseEffect DEF SoundRow, Keeps
<1>9. CASE runs'[r] = runs[r]
  BY <1>0, <1>9
<1> QED BY <1>1, <1>2, <1>3, <1>4, <1>5, <1>6, <1>7, <1>8, <1>9, RowCases

\* ... and of its attempt.
LEMMA SoundStep ==
  ASSUME TypeOK, RowsSound, ~CallsInLaunchGap, [Next]_vars
  PROVE  RowsSound'
<1> SUFFICES ASSUME NEW r \in Rows(runs') PROVE Sound(runs'[r], attempt'[r])
  BY DEF RowsSound
<1>0. r \in Ids
  BY TypeStep, RunsAssumption DEF TypeOK, Rows, Ids
<1>1. CASE r \notin Rows(runs)
  <2>1. attempt[r] = "none"
    BY <1>1, NewRows
  <2>2. attempt'[r] # "rejected" /\ attempt'[r] # "executing"
    BY <1>0, <2>1, PhaseChange DEF RejectAdmission, BeginExecute
  <2> QED BY <1>1, <2>2, NewRows DEF Sound
<1>2. CASE r \in Rows(runs)
  <2>0. Sound(runs[r], attempt[r])
    BY <1>2 DEF RowsSound
  <2>1. ASSUME attempt'[r] = "executing" PROVE runs'[r].started
    <3>1. CASE attempt[r] = "executing"
      BY <1>2, <2>0, <3>1, StartedKept DEF Sound
    <3>2. CASE attempt[r] # "executing"
      BY <1>0, <2>1, <3>2, PhaseChange, BeginEffect
    <3> QED BY <3>1, <3>2
  <2>2. ASSUME attempt'[r] = "rejected" PROVE runs'[r].status = "queued"
    <3>1. CASE attempt[r] # "rejected"
      <4>1. RejectAdmission(r)
        BY <1>0, <2>2, <3>1, PhaseChange
      <4> QED BY <4>1 DEF RejectAdmission
    <3>2. CASE attempt[r] = "rejected"
      <4>1. runs[r].status = "queued"
        BY <2>0, <3>2 DEF Sound
      <4>2. ~(cancel(r) \/ respond(r) \/ resolve(r) \/ retry(r) \/ \E g \in Graphs : cancelGraph(g))
        BY <1>0, <3>2, RowCallsWait DEF Launching
      <4>3. ~BeginExecute(r) /\ ~JournalWork(r) /\ ~Settle(r) /\ ~Elapse(r)
        BY <3>2, <4>1 DEF BeginExecute, JournalWork, Settle, Elapse
      <4>4. ~SettleRejected(r)
        <5>1. attempt \in [Ids -> Phases]
          BY DEF TypeOK
        <5> QED BY <1>0, <2>2, <5>1, RejectedEffect
      <4> QED BY <1>2, <4>1, <4>2, <4>3, <4>4, RowCases
    <3> QED BY <3>1, <3>2
  <2>3. SoundRow(runs'[r])
    BY <1>2, SoundRowStep
  <2> QED BY <2>1, <2>2, <2>3 DEF Sound, SoundRow
<1> QED BY <1>1, <1>2

\* Where a new row goes.
LEMMA NewFields ==
  /\ \A s, q : NewRow(s, q).session = s /\ NewRow(s, q).graph = NoGraph
  /\ \A g, i, n : NewNode(g, i, n).session = <<g, i>> /\ NewNode(g, i, n).graph = g
BY DEF NewRow, NewNode

\* A graph enters the journal once, so a node is alone in its session.
LEMMA AloneStep ==
  ASSUME TypeOK, NodesAlone, [Next]_vars
  PROVE  NodesAlone'
<1> DEFINE Plain(r) == runs'[r].graph = NoGraph /\ runs'[r].session \in Sessions
           Node(r) == /\ runs'[r].graph \in Graphs
                      /\ \E i \in DOMAIN Needs[runs'[r].graph] :
                           runs'[r].session = <<runs'[r].graph, i>>
<1>0. /\ \A r \in Rows(runs) : r \in Rows(runs') /\ runs[r] \in Row /\ SameRun(runs[r], runs'[r])
      /\ runs' \in Seq(Row) /\ Len(runs) \in Nat
  BY JournalStep, JournalGrows, RowTyped DEF TypeOK
<1>1. ASSUME NEW r \in Rows(runs) PROVE Plain(r) \/ Node(r)
  <2>1. runs[r].graph \in Graphs \cup {NoGraph}
    BY <1>0 DEF Row
  <2> QED BY <1>0, <2>1 DEF NodesAlone, SameRun
<1>2. ASSUME NEW r \in Rows(runs'), r \notin Rows(runs)
      PROVE  \/ Plain(r)
             \/ \E g \in Graphs : /\ Nodes(runs, g) = {} /\ r - Len(runs) \in DOMAIN Needs[g]
                                  /\ runs'[r].graph = g
                                  /\ runs'[r].session = <<g, r - Len(runs)>>
  BY <1>2, NewRows, NewFields
<1>3. \A r \in Rows(runs') : Plain(r) \/ Node(r)
  BY <1>1, <1>2
<1>4. ASSUME NEW r \in Rows(runs'), NEW p \in Rows(runs'), Node(r), SameSession(runs', p, r)
      PROVE  p = r
  <2>1. Node(p)
    <3>1. DOMAIN Needs[runs'[r].graph] \subseteq Nat
      BY <1>4, GraphsAssumption
    <3>2. runs'[p].session \in Graphs \X Nat
      BY <1>4, <3>1 DEF SameSession
    <3> QED BY <1>3, <3>2, SessionsAssumption
  <2>2. runs'[p].graph = runs'[r].graph
    BY <1>4, <2>1 DEF SameSession
  <2>3. runs'[r].graph # NoGraph
    BY <1>4, GraphsAssumption
  <2>4. CASE r \in Rows(runs) /\ p \in Rows(runs)
    BY <1>0, <1>4, <2>3, <2>4 DEF NodesAlone, SameRun, SameSession
  <2>5. ASSUME NEW a \in Rows(runs), NEW b \in Rows(runs'), b \notin Rows(runs),
               runs'[a].graph = runs'[b].graph, Node(b)
        PROVE  FALSE
    <3>1. PICK g \in Graphs : Nodes(runs, g) = {} /\ runs'[b].graph = g
      BY <1>2, <2>5, GraphsAssumption
    <3>2. a \in Nodes(runs, g)
      BY <1>0, <2>5, <3>1 DEF SameRun, Nodes
    <3> QED BY <3>1, <3>2
  <2>6. CASE r \notin Rows(runs) /\ p \notin Rows(runs)
    <3>1. /\ runs'[r].session = <<runs'[r].graph, r - Len(runs)>>
          /\ runs'[p].session = <<runs'[p].graph, p - Len(runs)>>
      BY <1>2, <1>4, <2>1, <2>6, GraphsAssumption
    <3>2. r - Len(runs) = p - Len(runs)
      BY <1>4, <3>1 DEF SameSession
    <3>3. r \in Nat /\ p \in Nat
      BY DEF Rows
    <3> QED BY <1>0, <3>2, <3>3
  <2> HIDE DEF Node
  <2> QED BY <1>4, <2>1, <2>2, <2>4, <2>5, <2>6
<1>5. ASSUME NEW r \in Rows(runs')
      PROVE  IF runs'[r].graph = NoGraph THEN runs'[r].session \in Sessions
             ELSE /\ \E i \in DOMAIN Needs[runs'[r].graph] :
                       runs'[r].session = <<runs'[r].graph, i>>
                  /\ \A p \in Rows(runs') : SameSession(runs', p, r) => p = r
  <2>1. CASE Plain(r)
    BY <2>1
  <2>2. CASE Node(r)
    BY <1>4, <2>2, GraphsAssumption
  <2> QED BY <1>3, <2>1, <2>2
<1> QED BY <1>5 DEF NodesAlone

-----------------------------------------------------------------------------
(* Conversations.                                                           *)

\* The runs before r whose turns its conversation holds.
TurnSet(R, r) ==
  {p \in 1..(r - 1) : /\ SameSession(R, p, r)
                      /\ \/ R[p].status = "completed"
                         \/ R[p].started /\ R[p].work = "progress"}

\* The turns a run must know are the rows before it, in order.
LEMMA TurnsInOrder ==
  /\ \A r : SessionTurns(r) = InOrder(TurnSet(runs, r), r - 1)
  /\ \A r : SessionTurns(r)' = InOrder(TurnSet(runs', r), r - 1)
BY DEF SessionTurns, InOrder, TurnSet

\* What the latest run hands on is what the next one must know.
LEMMA InheritComplete ==
  ASSUME TypeOK, RowsSound, HistoriesComplete, NEW r \in Rows(runs),
         First(runs, r), ~hasLaterStartedRun(runs, r),
         r \in Continuable(runs, runs[r].session) =>
            runs[r].status = "failed" /\ runs[r].work = "nothing"
  PROVE  inheritSessionHistory(runs, r) = SessionTurns(r)
<1> DEFINE C == Continuable(runs, runs[r].session)
           T == TurnSet(runs, r)
<1>0. /\ r \in Nat /\ r - 1 \in Nat /\ Len(runs) \in Nat /\ Rows(runs) \subseteq Nat
      /\ \A p \in 1..(r - 1) : p \in Rows(runs)
  BY DEF TypeOK, Rows
<1>1. \A c \in C : c \in Rows(runs) /\ c <= r
  <2> SUFFICES ASSUME NEW c \in C, r < c PROVE FALSE
    BY <1>0 DEF Continuable, Rows
  <2>1. c \in (r + 1)..Len(runs) /\ SameSession(runs, c, r)
    BY <1>0 DEF Continuable, Rows, SameSession
  <2>2. runs[c].status \notin {"queued", "cancelled"} \/ runs[c].started
    BY DEF Continuable
  <2> QED BY <2>1, <2>2 DEF hasLaterStartedRun
<1>2. ASSUME NEW c \in C, \A q \in C : q <= c
      PROVE  inheritSessionHistory(runs, r) = HandsOn(runs, c)
  <2>1. latestCompleted(runs, runs[r].session) = {c}
    <3>1. \A p \in C : (\A q \in C : q <= p) <=> p = c
      BY <1>0, <1>1, <1>2
    <3> QED BY <1>2, <3>1 DEF latestCompleted
  <2>2. (CHOOSE p \in {c} : TRUE) = c
    OBVIOUS
  <2> QED BY <2>1, <2>2 DEF inheritSessionHistory
<1>3. \A c \in C : runs[c].started
  BY <1>1 DEF Continuable, RowsSound, Sound
<1>4. T \subseteq C
  <2> SUFFICES ASSUME NEW p \in T PROVE p \in C
    OBVIOUS
  <2>1. p \in Rows(runs) /\ SameSession(runs, p, r) /\ runs[p].status \in Settled
    BY <1>0 DEF TurnSet, First, Unsettled
  <2>2. runs[p].status = "completed" \/ runs[p].started
    BY DEF TurnSet
  <2> QED BY <2>1, <2>2 DEF Continuable, SameSession, Settled
<1>5. CASE r \in C
  <2>1. inheritSessionHistory(runs, r) = HandsOn(runs, r)
    BY <1>1, <1>2, <1>5
  <2>2. HandsOn(runs, r) = runs[r].history
    BY <1>5 DEF HandsOn
  <2>3. runs[r].history = SessionTurns(r)
    BY <1>3, <1>5 DEF HistoriesComplete
  <2> QED BY <2>1, <2>2, <2>3
<1>6. CASE C = {}
  <2>1. inheritSessionHistory(runs, r) = <<>>
    BY <1>6 DEF inheritSessionHistory, latestCompleted
  <2>2. InOrder(T, r - 1) = InOrder(T, 0)
    <3>1. \A i \in 0 + 1..r - 1 : i \notin T
      BY <1>4, <1>6
    <3>2. 0 \in Nat /\ 0 <= r - 1
      BY <1>0
    <3> HIDE DEF T
    <3> QED BY <1>0, <3>1, <3>2, InOrderBeyond
  <2>3. InOrder(T, 0) = <<>>
    BY InOrderNext
  <2> QED BY <2>1, <2>2, <2>3, TurnsInOrder
<1>7. CASE C # {} /\ r \notin C
  <2> DEFINE Back == {n \in Nat : r - n \in C}
  <2>1. Back # {}
    <3>1. PICK c \in C : TRUE
      BY <1>7
    <3>2. r - c \in Nat /\ r - (r - c) = c
      BY <1>0, <1>1
    <3> QED BY <3>1, <3>2
  <2>2. PICK n \in Back : \A m \in Back : n <= m
    BY <2>1, Least
  <2> DEFINE c == r - n
  <2>3. c \in C /\ c \in Rows(runs) /\ c \in 1..(r - 1)
    BY <1>0, <1>1, <1>7, <2>2 DEF Rows
  <2>4. \A q \in C : q <= c
    <3> SUFFICES ASSUME NEW q \in C PROVE q <= c
      OBVIOUS
    <3>1. q \in Nat /\ r - q \in Nat /\ r - (r - q) = q
      BY <1>0, <1>1
    <3>2. n <= r - q
      BY <2>2, <3>1
    <3> QED BY <1>0, <2>2, <3>1, <3>2
  <2> HIDE DEF c
  <2>5. inheritSessionHistory(runs, r) = HandsOn(runs, c)
    BY <1>2, <2>3, <2>4
  <2>6. runs[c].started /\ runs[c].history = InOrder(TurnSet(runs, c), c - 1)
    BY <1>3, <2>3, TurnsInOrder DEF HistoriesComplete
  <2>7. SameSession(runs, c, r)
    BY <2>3 DEF Continuable, SameSession
  <2>8. InOrder(TurnSet(runs, c), c - 1) = InOrder(T, c - 1)
    <3>1. \A i \in 1..c - 1 : i \in TurnSet(runs, c) <=> i \in T
      BY <1>0, <2>3, <2>7 DEF TurnSet, SameSession
    <3>2. c - 1 \in Nat
      BY <1>0, <2>3
    <3> HIDE DEF T
    <3> QED BY <3>1, <3>2, InOrderSame
  <2>9. InOrder(T, r - 1) = InOrder(T, c)
    <3>1. \A i \in c + 1..r - 1 : i \notin T
      BY <1>0, <1>4, <2>3, <2>4
    <3>2. c \in Nat /\ c <= r - 1
      BY <1>0, <2>3
    <3> HIDE DEF T
    <3> QED BY <1>0, <3>1, <3>2, InOrderBeyond
  <2>10. InOrder(T, c) = IF c \in T THEN Append(InOrder(T, c - 1), c) ELSE InOrder(T, c - 1)
    <3>1. c - 1 \in Nat /\ (c - 1) + 1 = c
      BY <1>0, <2>3
    <3> HIDE DEF T
    <3>2. InOrder(T, (c - 1) + 1) = IF (c - 1) + 1 \in T
                                    THEN Append(InOrder(T, c - 1), (c - 1) + 1)
                                    ELSE InOrder(T, c - 1)
      BY <3>1, InOrderNext
    <3> QED BY <3>1, <3>2
  <2>11. c \in T <=> runs[c].status = "completed" \/ runs[c].work = "progress"
    BY <2>3, <2>6, <2>7 DEF TurnSet
  <2> HIDE DEF T
  <2>12. HandsOn(runs, c) = InOrder(T, r - 1)
    BY <2>6, <2>8, <2>9, <2>10, <2>11 DEF HandsOn
  <2> QED BY <2>5, <2>12, TurnsInOrder DEF T
<1> QED BY <1>5, <1>6, <1>7

\* A row that stays the first of its session knows after a step what it must have known before.
LEMMA TurnsKept ==
  ASSUME TypeOK, AttemptOwnsRow, ~CallsInLaunchGap, Ordered, [Next]_vars,
         NEW r \in Rows(runs), Begun(runs, r) \/ Launching(attempt, r)
  PROVE  SessionTurns(r)' = SessionTurns(r)
<1>1. ASSUME NEW p \in 1..(r - 1)
      PROVE  /\ SameSession(runs', p, r) <=> SameSession(runs, p, r)
             /\ SameSession(runs, p, r) => runs'[p] = runs[p]
  <2>1. p \in Rows(runs)
    BY DEF TypeOK, Rows
  <2>2. SameSession(runs', p, r) <=> SameSession(runs, p, r)
    BY <2>1, JournalStep, JournalGrows DEF SameRun, SameSession
  <2> QED BY <2>2, BeforeKept
<1>2. TurnSet(runs', r) = TurnSet(runs, r)
  BY <1>1 DEF TurnSet
<1> QED BY <1>2, TurnsInOrder

\* Every step keeps the conversations complete.
LEMMA HistoriesStep ==
  ASSUME TypeOK, AttemptOwnsRow, ~CallsInLaunchGap, OrderInv, [Next]_vars
  PROVE  HistoriesComplete'
<1> SUFFICES ASSUME NEW r \in Rows(runs'), runs'[r].started \/ runs'[r].status = "pending"
             PROVE  runs'[r].history = SessionTurns(r)'
  BY DEF HistoriesComplete
<1>0. Ordered /\ RowsSound /\ NodesAlone /\ HistoriesComplete
  BY DEF OrderInv
<1>1. r \in Rows(runs)
  BY NewRows
<1>2. /\ runs[r] \in Row /\ r \in Ids /\ Sound(runs[r], attempt[r])
      /\ runs \in Seq(Row) /\ Len(runs) \in Nat /\ r \in Nat
  BY <1>0, <1>1, RowTyped, RunsAssumption DEF TypeOK, Rows, Ids, RowsSound
<1>3. ASSUME Keeps(r) \/ runs'[r].history = runs[r].history,
             runs[r].started \/ runs[r].status = "pending"
      PROVE  runs'[r].history = SessionTurns(r)'
  <2>1. runs[r].history = SessionTurns(r)
    BY <1>0, <1>1, <1>3 DEF HistoriesComplete
  <2>2. Begun(runs, r)
    BY <1>3 DEF Begun
  <2> QED BY <1>0, <1>1, <1>3, <2>1, <2>2, TurnsKept DEF Keeps
<1>4. CASE runs'[r] = runs[r]
  BY <1>3, <1>4
<1>5. CASE cancel(r) \/ runs'[r] = CancelRow(runs[r])
  BY <1>1, <1>3, <1>5, CancelKeeps DEF Keeps
<1>6. CASE respond(r) \/ resolve(r)
  <2>1. Keeps(r) /\ runs[r].started
    BY <1>2, <1>6, ResumeEffect DEF Sound
  <2> QED BY <1>3, <2>1
<1>7. CASE retry(r)
  <2>1. /\ runs[r].status \in {"failed", "needs_attention"} /\ ~hasLaterStartedRun(runs, r)
        /\ runs'[r].history = IF Rebuilt(r) THEN inheritSessionHistory(runs, r)
                              ELSE runs[r].history
    BY <1>2, <1>7, RetryEffect
  <2>2. Begun(runs, r) /\ First(runs, r)
    BY <1>0, <1>1, <2>1 DEF Begun, Ordered
  <2>3. SessionTurns(r)' = SessionTurns(r)
    BY <1>0, <1>1, <2>2, TurnsKept
  <2>4. CASE Rebuilt(r)
    <3>1. r \in Continuable(runs, runs[r].session) =>
            runs[r].status = "failed" /\ runs[r].work = "nothing"
      BY <2>1, <2>4 DEF Continuable, Rebuilt
    <3>2. inheritSessionHistory(runs, r) = SessionTurns(r)
      BY <1>0, <1>1, <2>1, <2>2, <3>1, InheritComplete
    <3> QED BY <2>1, <2>3, <2>4, <3>2
  <2>5. CASE ~Rebuilt(r) /\ runs[r].started
    BY <1>3, <2>1, <2>5
  <2>6. CASE ~Rebuilt(r) /\ ~runs[r].started
    <3>1. runs[r].work = "nothing" /\ runs[r].history = <<>> /\ runs[r].graph # NoGraph
      BY <1>2, <2>1, <2>6 DEF Sound, Rebuilt
    <3>2. TurnSet(runs, r) = {}
      <4> SUFFICES ASSUME NEW p \in TurnSet(runs, r) PROVE FALSE
        OBVIOUS
      <4>1. p \in 1..(r - 1) /\ p \in Rows(runs) /\ SameSession(runs, p, r)
        BY <1>1, <1>2 DEF TurnSet, Rows
      <4>2. p = r
        BY <1>0, <1>1, <3>1, <4>1 DEF NodesAlone
      <4> QED BY <1>2, <4>1, <4>2
    <3>3. SessionTurns(r) = <<>>
      <4>1. 0 \in Nat /\ r - 1 \in Nat /\ 0 <= r - 1
        BY <1>1, <1>2 DEF Rows
      <4>2. InOrder({}, r - 1) = InOrder({}, 0)
        BY <4>1, InOrderBeyond
      <4> QED BY <3>2, <4>2, InOrderNext, TurnsInOrder
    <3> QED BY <2>1, <2>3, <2>6, <3>1, <3>3
  <2> QED BY <2>4, <2>5, <2>6
<1>8. CASE BeginExecute(r)
  <2>1. /\ attempt[r] = "launched" /\ runs[r].status \in Runnable
        /\ runs'[r].history = IF runs[r].status = "queued" THEN inheritSessionHistory(runs, r)
                              ELSE runs[r].history
    BY <1>2, <1>8, BeginEffect
  <2>2. Launching(attempt, r) /\ First(runs, r)
    BY <1>0, <1>1, <2>1 DEF Launching, Ordered
  <2>3. SessionTurns(r)' = SessionTurns(r)
    BY <1>0, <1>1, <2>2, TurnsKept
  <2>4. CASE runs[r].status = "queued"
    <3>1. ~hasLaterStartedRun(runs, r)
      <4> SUFFICES ASSUME NEW l \in (r + 1)..Len(runs), SameSession(runs, l, r), Begun(runs, l)
                   PROVE  FALSE
        BY DEF hasLaterStartedRun, Begun
      <4>1. l \in Rows(runs) /\ r \in 1..(l - 1) /\ SameSession(runs, r, l)
        BY <1>1, <1>2 DEF Rows, SameSession
      <4> QED BY <1>0, <2>4, <4>1 DEF Ordered, First, Unsettled, Settled
    <3>2. r \notin Continuable(runs, runs[r].session)
      BY <2>4 DEF Continuable
    <3>3. inheritSessionHistory(runs, r) = SessionTurns(r)
      BY <1>0, <1>1, <2>2, <3>1, <3>2, InheritComplete
    <3> QED BY <2>1, <2>3, <2>4, <3>3
  <2>5. CASE runs[r].status # "queued"
    <3>1. runs[r].started \/ runs[r].status = "pending"
      BY <1>2, <2>1, <2>5 DEF Sound, Runnable
    <3> QED BY <1>3, <2>1, <2>5, <3>1
  <2> QED BY <2>4, <2>5
<1>9. CASE SettleRejected(r)
  <2>1. runs'[r].started = runs[r].started /\ Keeps(r)
    BY <1>2, <1>9, RejectedEffect DEF Keeps
  <2>2. runs'[r].status = "pending" => runs[r].status = "pending"
    BY <1>2, <1>9, RejectedEffect
  <2> QED BY <1>3, <2>1, <2>2
<1>10. CASE JournalWork(r) \/ Settle(r)
  <2>1. runs[r].started
    BY <1>2, <1>10 DEF JournalWork, Settle, Sound
  <2> QED BY <1>2, <1>3, <1>10, <2>1, WorkEffect, SettleEffect
<1>11. CASE Elapse(r)
  <2>1. Keeps(r) /\ runs[r].started
    BY <1>2, <1>11, ElapseEffect DEF Sound
  <2> QED BY <1>3, <2>1
<1> QED
  BY <1>1, <1>4, <1>5, <1>6, <1>7, <1>8, <1>9, <1>10, <1>11, RowCases

\* The invariant is inductive, given the types and the owners of rows, ...
LEMMA OrderStep ==
  ~CallsInLaunchGap => (TypeOK /\ AttemptOwnsRow /\ OrderInv /\ [Next]_vars => OrderInv')
BY OrderedStep, SoundStep, AloneStep, HistoriesStep DEF OrderInv

\* ... and holds at the start.
LEMMA OrderInit == Init => OrderInv
BY DEF Init, OrderInv, Ordered, RowsSound, NodesAlone, HistoriesComplete, Rows

\* No conversation loses, repeats or reorders a turn of its session, in graphs and outside of
\* them, through rolled-back admissions, retries, cancellations and restarts; if no call of the
\* host comes between launch() and execute().
THEOREM HistoriesKept == ~CallsInLaunchGap => (Spec => []HistoryComplete)
<1> SUFFICES ASSUME ~CallsInLaunchGap PROVE Spec => []HistoryComplete
  OBVIOUS
<1>1. TypeOK /\ AttemptOwnsRow /\ OrderInv /\ [Next]_vars => OrderInv'
  BY OrderStep
<1>2. OrderInv => HistoryComplete
  BY DEF OrderInv, HistoriesComplete, HistoryComplete
<1> QED BY <1>1, <1>2, OrderInit, TypeCorrect, AttemptsOwnRows, PTL DEF Spec

\* A run begins, or begins again, only when every earlier run of its session is settled; if no
\* call of the host comes between launch() and execute().
THEOREM OrderKept == ~CallsInLaunchGap => (Spec => SessionOrder)
<1> SUFFICES ASSUME ~CallsInLaunchGap PROVE Spec => SessionOrder
  OBVIOUS
<1>1. TypeOK /\ AttemptOwnsRow /\ OrderInv /\ [Next]_vars => OrderInv'
  BY OrderStep
<1> DEFINE InOrderNow ==
      \A r \in Rows(runs) :
        attempt[r] = "launched" /\ attempt'[r] = "executing" =>
           \A p \in 1..(r - 1) : SameSession(runs, p, r) => ~Unsettled(runs, p)
<1>2. OrderInv => InOrderNow
  BY DEF OrderInv, Ordered, Launching, First
<1> QED BY <1>1, <1>2, OrderInit, TypeCorrect, AttemptsOwnRows, PTL DEF Spec, SessionOrder

-----------------------------------------------------------------------------
(* The runtime implements the queue of a session.                           *)

AtWork(A) == {r \in Ids : A[r] = "executing"}

\* The queue that a journal shows, and its table of turns.
Turn(s, o, d) == [session |-> s, open |-> o, served |-> d]
TurnOf(row) == Turn(row.session, row.status \notin Settled, row.started)
TurnType == [session : Sessions \cup (Graphs \X Nat), open : BOOLEAN, served : BOOLEAN]
TurnsOf(R) == [r \in Rows(R) |-> TurnOf(R[r])]

\* The state the queue has before a step and after it.
LEMMA QueueState ==
  /\ RunTurns = TurnsOf(runs) /\ RunTurns' = TurnsOf(runs')
  /\ {r \in Ids : attempt[r] = "executing"} = AtWork(attempt)
  /\ {r \in Ids : attempt[r] = "executing"}' = AtWork(attempt')
BY DEF RunTurns, RunTurn, TurnsOf, TurnOf, Turn, Unsettled, AtWork

\* A table of turns is as long as its journal.
LEMMA TurnTable ==
  ASSUME NEW R \in Seq(Row)
  PROVE  /\ DOMAIN TurnsOf(R) = Rows(R) /\ Len(TurnsOf(R)) = Len(R)
         /\ TurnsOf(R) \in Seq(TurnType)
         /\ \A r \in Rows(R) : TurnsOf(R)[r] = TurnOf(R[r])
<1>1. \A r \in Rows(R) : TurnOf(R[r]) \in TurnType
  <2> SUFFICES ASSUME NEW r \in Rows(R) PROVE TurnOf(R[r]) \in TurnType
    OBVIOUS
  <2>1. R[r] \in Row
    BY DEF Rows
  <2> QED BY <2>1 DEF TurnOf, Turn, TurnType, Row
<1>2. DOMAIN TurnsOf(R) = 1..Len(R) /\ Len(R) \in Nat
  BY DEF TurnsOf, Rows
<1>3. TurnsOf(R) \in [1..Len(R) -> TurnType]
  BY <1>1 DEF TurnsOf, Rows
<1>4. TurnsOf(R) \in Seq(TurnType) /\ Len(TurnsOf(R)) = Len(R)
  BY <1>2, <1>3
<1> QED BY <1>2, <1>4 DEF TurnsOf, Rows

\* Turns with a field changed.
LEMMA TurnFields ==
  \A s, o, d, b : /\ [Turn(s, o, d) EXCEPT !.open = b] = Turn(s, b, d)
                  /\ [Turn(s, o, d) EXCEPT !.served = b] = Turn(s, o, b)
BY DEF Turn

\* What a turn shows of a row.
LEMMA TurnShown ==
  \A row : /\ TurnOf(row).session = row.session
           /\ TurnOf(row).open <=> row.status \notin Settled
           /\ TurnOf(row).served = row.started
BY DEF TurnOf, Turn

\* The turn of a row with a field changed.
LEMMA TurnEdited ==
  ASSUME NEW row, NEW b
  PROVE  /\ [TurnOf(row) EXCEPT !.open = b] = Turn(row.session, b, row.started)
         /\ [TurnOf(row) EXCEPT !.served = b] = Turn(row.session, row.status \notin Settled, b)
<1>1. PICK o : o = (row.status \notin Settled)
  OBVIOUS
<1>2. TurnOf(row) = Turn(row.session, o, row.started)
  BY <1>1, Zenon DEF TurnOf
<1>3. [TurnOf(row) EXCEPT !.served = b] = Turn(row.session, o, b)
  BY <1>2, TurnFields
<1>4. [TurnOf(row) EXCEPT !.open = b] = Turn(row.session, b, row.started)
  BY <1>2, TurnFields
<1> QED BY <1>1, <1>3, <1>4, Zenon

\* pump() neither begins nor ends work.
LEMMA LaunchesKeepWork ==
  ASSUME NEW R \in Seq(Row), Len(R) <= MaxRuns,
         NEW A \in [Ids -> Phases], NEW B \in Launches(R, A)
  PROVE  AtWork(B) = AtWork(A)
<1>1. PICK L \in SUBSET Eligible(R, A) : B = Launch(A, L)
  BY LaunchesEffect
<1>2. \A r \in L : A[r] = "none"
  BY <1>1 DEF Eligible, SameSession
<1> QED BY <1>1, <1>2 DEF Launch, AtWork

\* A step of the queue, or none.
QueueStep == [Queue!QueueNext]_(Queue!queueVars)

\* Nothing the queue shows has changed.
LEMMA QueueStutters ==
  ASSUME TurnsOf(runs') = TurnsOf(runs), AtWork(attempt') = AtWork(attempt)
  PROVE  QueueStep
BY QueueState DEF QueueStep, Queue!queueVars

\* Only one row changes, and its turn with it.
LEMMA OneTurn ==
  ASSUME TypeOK, NEW r \in Rows(runs), ReplacedAt(r)
  PROVE  /\ TurnsOf(runs') = [TurnsOf(runs) EXCEPT ![r] = TurnOf(runs'[r])]
         /\ runs'[r].session = runs[r].session
         /\ Rows(runs') = Rows(runs)
<1>1. PICK row \in Row : Replaces(r, row)
  BY DEF ReplacedAt
<1>2. runs \in Seq(Row) /\ runs' = [runs EXCEPT ![r] = row]
  BY <1>1 DEF TypeOK, Replaces
<1>3. Rows(runs') = Rows(runs) /\ runs'[r] = row
  BY <1>2, RowUpdate DEF Rows
<1>4. \A p \in Rows(runs) : p # r => runs'[p] = runs[p]
  BY <1>2, RowWritten
<1>5. TurnsOf(runs') = [TurnsOf(runs) EXCEPT ![r] = TurnOf(runs'[r])]
  BY <1>3, <1>4 DEF TurnsOf
<1>6. runs'[r].session = runs[r].session
  BY <1>1, <1>3 DEF Replaces, SameRun
<1> QED BY <1>3, <1>5, <1>6

\* Runs are called off.
LEMMA CalledOff ==
  ASSUME TypeOK, NEW S \in SUBSET Rows(runs), AtWork(attempt') = AtWork(attempt),
         Rows(runs') = Rows(runs),
         \A p \in Rows(runs) : IF p \in S
                               THEN /\ runs'[p].session = runs[p].session
                                    /\ runs'[p].started = runs[p].started
                                    /\ runs'[p].status \in Settled
                               ELSE runs'[p] = runs[p]
  PROVE  QueueStep
<1>0. runs \in Seq(Row)
  BY DEF TypeOK
<1>1. \A p \in S : TurnOf(runs'[p]) = [TurnOf(runs[p]) EXCEPT !.open = FALSE]
  <2> SUFFICES ASSUME NEW p \in S PROVE TurnOf(runs'[p]) = [TurnOf(runs[p]) EXCEPT !.open = FALSE]
    OBVIOUS
  <2>1. TurnOf(runs'[p]) = Turn(runs[p].session, FALSE, runs[p].started)
    BY Zenon DEF TurnOf
  <2>2. [TurnOf(runs[p]) EXCEPT !.open = FALSE] = Turn(runs[p].session, FALSE, runs[p].started)
    BY TurnEdited
  <2> QED BY <2>1, <2>2
<1>2. TurnsOf(runs') = [t \in Rows(runs) |->
                          IF t \in S THEN [TurnsOf(runs)[t] EXCEPT !.open = FALSE]
                                     ELSE TurnsOf(runs)[t]]
  BY <1>1 DEF TurnsOf
<1>3. 1..Len(TurnsOf(runs)) = Rows(runs)
  BY <1>0, TurnTable DEF Rows
<1>4. Queue!CallOff
  <2>1. AtWork(attempt') = AtWork(attempt)
    OBVIOUS
  <2> HIDE DEF TurnsOf, AtWork
  <2>2. \E U \in SUBSET (1..Len(TurnsOf(runs))) :
          TurnsOf(runs') = [t \in 1..Len(TurnsOf(runs)) |->
                              IF t \in U THEN [TurnsOf(runs)[t] EXCEPT !.open = FALSE]
                                         ELSE TurnsOf(runs)[t]]
    BY <1>2, <1>3
  <2>3. UNCHANGED {r \in Ids : attempt[r] = "executing"}
    BY <2>1, QueueState
  <2>4. \E U \in SUBSET (1..Len(RunTurns)) :
          RunTurns' = [t \in 1..Len(RunTurns) |->
                              IF t \in U THEN [RunTurns[t] EXCEPT !.open = FALSE]
                                         ELSE RunTurns[t]]
    BY <2>2, QueueState
  <2> QED BY <2>3, <2>4 DEF Queue!CallOff, Queue!Turns
<1> QED BY <1>4 DEF QueueStep, Queue!QueueNext

\* A run that keeps its session and its start, and is as open as it was, shows the same turn.
LEMMA SameTurn ==
  ASSUME TypeOK, NEW r \in Rows(runs), ReplacedAt(r),
         runs'[r].started = runs[r].started,
         runs'[r].status \in Settled <=> runs[r].status \in Settled
  PROVE  TurnsOf(runs') = TurnsOf(runs)
<1>1. /\ TurnsOf(runs') = [TurnsOf(runs) EXCEPT ![r] = TurnOf(runs'[r])]
      /\ runs'[r].session = runs[r].session
  BY OneTurn
<1>2. (runs'[r].status \notin Settled) = (runs[r].status \notin Settled)
  OBVIOUS
<1>3. TurnOf(runs'[r]) = TurnOf(runs[r])
  BY <1>1, <1>2, Zenon DEF TurnOf
<1>4. [TurnsOf(runs) EXCEPT ![r] = TurnOf(runs[r])] = TurnsOf(runs)
  BY DEF TurnsOf
<1> QED BY <1>1, <1>3, <1>4

\* A run is called off, by itself.
LEMMA OneCalledOff ==
  ASSUME TypeOK, NEW r \in Rows(runs), ReplacedAt(r), AtWork(attempt') = AtWork(attempt),
         runs'[r].started = runs[r].started, runs'[r].status \in Settled
  PROVE  QueueStep
<1>1. PICK row \in Row : Replaces(r, row)
  BY DEF ReplacedAt
<1>2. \A p \in Rows(runs) : p # r => runs'[p] = runs[p]
  BY <1>1, RowWritten DEF Replaces
<1>3. runs'[r].session = runs[r].session /\ Rows(runs') = Rows(runs)
  BY OneTurn
<1>4. \A p \in Rows(runs) : IF p \in {r}
                            THEN /\ runs'[p].session = runs[p].session
                                 /\ runs'[p].started = runs[p].started
                                 /\ runs'[p].status \in Settled
                            ELSE runs'[p] = runs[p]
  BY <1>2, <1>3
<1>5. {r} \in SUBSET Rows(runs)
  OBVIOUS
<1> QED BY <1>3, <1>4, <1>5, CalledOff

\* The steps that neither begin nor end work.
Quiet ==
  \/ Calls \/ Wake \/ fail \/ close \/ Closed \/ open \/ UNCHANGED vars
  \/ \E q \in Ids : \/ SkipExecute(q) \/ RejectAdmission(q) \/ SettleRejected(q)
                    \/ JournalWork(q) \/ Leave(q) \/ Elapse(q)

\* Such a step keeps the attempts that are at work.
LEMMA WorkKept ==
  ASSUME TypeOK, [Next]_vars, Quiet
  PROVE  AtWork(attempt') = AtWork(attempt)
<1>0. /\ runs' \in Seq(Row) /\ Len(runs') <= MaxRuns /\ attempt \in [Ids -> Phases]
      /\ "none" \in Phases
  BY JournalStep, JournalGrows DEF TypeOK, Phases
<1>1. ASSUME attempt' \in Launches(runs', attempt)
      PROVE  AtWork(attempt') = AtWork(attempt)
  BY <1>0, <1>1, LaunchesKeepWork
<1>2. CASE Calls \/ Wake
  <2>1. attempt' \in Launches(runs', attempt)
    BY <1>2 DEF Calls, Wake, submit, resubmit, submitGraph, cancelGraph, cancel, respond,
                resolve, retry, resume, pump
  <2> QED BY <1>1, <2>1
<1>3. ASSUME NEW q \in Ids, SkipExecute(q) \/ RejectAdmission(q) \/ SettleRejected(q)
      PROVE  AtWork(attempt') = AtWork(attempt)
  <2>1. \E phase \in {"leaving", "rejected"} : attempt' = [attempt EXCEPT ![q] = phase]
    BY <1>3 DEF SkipExecute, RejectAdmission, SettleRejected, Enter
  <2>2. attempt[q] # "executing"
    BY <1>3 DEF SkipExecute, RejectAdmission, SettleRejected
  <2> QED BY <1>0, <2>1, <2>2 DEF AtWork
<1>4. ASSUME NEW q \in Ids, Leave(q)
      PROVE  AtWork(attempt') = AtWork(attempt)
  <2> DEFINE A == [attempt EXCEPT ![q] = "none"]
  <2>1. A \in [Ids -> Phases]
    BY <1>0
  <2>2. AtWork(A) = AtWork(attempt)
    BY <1>0, <1>4 DEF Leave, AtWork
  <2>3. attempt' = A \/ attempt' \in Launches(runs', A)
    BY <1>4 DEF Leave, pump
  <2> HIDE DEF A
  <2> QED BY <1>0, <2>1, <2>2, <2>3, LaunchesKeepWork
<1>5. CASE fail \/ close \/ Closed \/ open \/ UNCHANGED vars
           \/ \E q \in Ids : Elapse(q) \/ JournalWork(q)
  <2>1. attempt' = attempt
    BY <1>5 DEF fail, close, Closed, open, vars, Elapse, JournalWork
  <2> QED BY <2>1
<1> QED
  BY <1>2, <1>3, <1>4, <1>5 DEF Quiet

\* A transaction of an attempt or of a call that neither starts nor settles its run, nor
\* reopens it, shows nothing.
LEMMA QuietTurn ==
  ASSUME TypeOK, NEW r \in Ids, RowStep(r), AtWork(attempt') = AtWork(attempt),
         runs'[r].started = runs[r].started,
         runs'[r].status \in Settled <=> runs[r].status \in Settled
  PROVE  QueueStep
<1>1. CASE runs' = runs
  BY <1>1, QueueStutters
<1>2. CASE runs' # runs
  <2>1. ReplacedAt(r)
    BY <1>2, RowReplaced
  <2>2. TurnsOf(runs') = TurnsOf(runs)
    BY <2>1, SameTurn DEF ReplacedAt
  <2> QED BY <2>2, QueueStutters
<1> QED BY <1>1, <1>2

\* A run or a graph is admitted.
LEMMA AdmitStep ==
  ASSUME TypeOK, Admitted \/ GraphAdmitted, AtWork(attempt') = AtWork(attempt)
  PROVE  QueueStep
<1>0. runs \in Seq(Row) /\ Len(runs) \in Nat /\ "queued" \notin Settled
  BY DEF TypeOK, Settled
<1> DEFINE Batched(batch, n) ==
      /\ DOMAIN batch = 1..n
      /\ runs' \in Seq(Row) /\ Len(runs') = Len(runs) + n
      /\ \A r \in Rows(runs) : runs'[r] = runs[r]
      /\ \A i \in 1..n : /\ runs'[Len(runs) + i].session = batch[i]
                         /\ runs'[Len(runs) + i].status = "queued"
                         /\ runs'[Len(runs) + i].started = FALSE
<1>1. ASSUME NEW batch \in Admissions, NEW n \in Nat, Batched(batch, n)
      PROVE  QueueStep
  <2> DEFINE T == TurnsOf(runs)
             new == [i \in DOMAIN batch |-> Queue!NewTurn(batch[i])]
  <2>1. \A i \in 1..n : TurnOf(runs'[Len(runs) + i]) = new[i]
    <3> SUFFICES ASSUME NEW i \in 1..n PROVE TurnOf(runs'[Len(runs) + i]) = new[i]
      OBVIOUS
    <3>1. TurnOf(runs'[Len(runs) + i]) = Turn(batch[i], TRUE, FALSE)
      BY <1>0, <1>1, Zenon DEF TurnOf
    <3>2. new[i] = Turn(batch[i], TRUE, FALSE)
      BY <1>1 DEF Queue!NewTurn, Turn
    <3> QED BY <3>1, <3>2
  <2>2. \A r \in Rows(runs) : TurnOf(runs'[r]) = T[r]
    BY <1>0, <1>1, TurnTable
  <2>3. TurnsOf(runs') = T \o new
    <3>1. /\ DOMAIN TurnsOf(runs') = 1..(Len(runs) + n)
          /\ \A r \in 1..(Len(runs) + n) : TurnsOf(runs')[r] = TurnOf(runs'[r])
      BY <1>1, TurnTable DEF Rows
    <3>2. T \in Seq(TurnType) /\ Len(T) = Len(runs) /\ TurnsOf(runs') \in Seq(TurnType)
      BY <1>0, <1>1, TurnTable
    <3>3. \A i \in 1..n : Len(runs) + i \in 1..(Len(runs) + n)
      BY <1>0
    <3>4. \A i \in 1..n : new[i] = TurnsOf(runs')[Len(runs) + i]
      BY <2>1, <3>1, <3>3
    <3>5. DOMAIN new = 1..n
      BY <1>1
    <3> HIDE DEF new, T
    <3>6. \A i \in 1..n : new[i] \in TurnType
      BY <3>1, <3>2, <3>3, <3>4
    <3>7. new \in [1..n -> TurnType]
      <4>1. new = [i \in 1..n |-> new[i]]
        BY <3>5 DEF new
      <4> QED BY <3>6, <4>1
    <3>8. new \in Seq(TurnType) /\ Len(new) = n
      BY <3>7
    <3>9. T \o new \in Seq(TurnType) /\ Len(T \o new) = Len(runs) + n
      <4>1. ASSUME NEW E, NEW a \in Seq(E), NEW b \in Seq(E)
            PROVE  a \o b \in Seq(E) /\ Len(a \o b) = Len(a) + Len(b)
        OBVIOUS
      <4> QED BY <3>2, <3>8, <4>1
    <3>10. Len(TurnsOf(runs')) = Len(runs) + n
      BY <1>1, TurnTable
    <3>11. ASSUME NEW r \in 1..(Len(runs) + n) PROVE TurnsOf(runs')[r] = (T \o new)[r]
      <4>1. CASE r \in 1..Len(runs)
        BY <1>0, <2>2, <3>1, <3>2, <3>8, <4>1 DEF Rows
      <4>2. CASE r \notin 1..Len(runs)
        <5>1. r - Len(runs) \in 1..n /\ Len(runs) + (r - Len(runs)) = r
          BY <1>0, <4>2
        <5>2. (T \o new)[r] = new[r - Len(runs)]
          BY <1>0, <3>2, <3>8, <5>1
        <5> QED BY <3>4, <5>1, <5>2
      <4> QED BY <4>1, <4>2
    <3> QED BY <3>2, <3>9, <3>10, <3>11
  <2>4. Queue!Admit
    BY <1>1, <2>3, QueueState DEF Queue!Admit
  <2> QED BY <2>4 DEF QueueStep, Queue!QueueNext
<1>2. CASE Admitted
  <2>1. PICK s \in Sessions, q \in Requests : runs' = Append(runs, NewRow(s, q))
    BY <1>2 DEF Admitted
  <2>2. NewRow(s, q) \in Row
    BY DEF NewRow, Row, Statuses, Runnable
  <2>3. /\ runs' \in Seq(Row) /\ Len(runs') = Len(runs) + 1
        /\ \A r \in Rows(runs) : runs'[r] = runs[r]
        /\ runs'[Len(runs) + 1] = NewRow(s, q)
    BY <1>0, <2>1, <2>2 DEF Rows
  <2>4. NewRow(s, q).session = s /\ NewRow(s, q).status = "queued" /\ NewRow(s, q).started = FALSE
    BY DEF NewRow
  <2>5. <<s>> \in Admissions /\ Len(<<s>>) = 1 /\ DOMAIN <<s>> = 1..1 /\ <<s>>[1] = s
    BY DEF Admissions
  <2>6. Batched(<<s>>, 1)
    <3>1. \A i \in 1..1 : i = 1
      OBVIOUS
    <3> QED BY <2>3, <2>4, <2>5, <3>1
  <2> HIDE DEF Batched
  <2> QED BY <1>1, <2>5, <2>6
<1>3. CASE GraphAdmitted
  <2>1. PICK g \in Graphs : Len(runs) + Len(Needs[g]) <= MaxRuns /\ runs' = runs \o GraphNodes(g)
    BY <1>3 DEF GraphAdmitted
  <2> DEFINE batch == [i \in DOMAIN Needs[g] |-> <<g, i>>]
             n == Len(Needs[g])
  <2>2. n \in Nat /\ DOMAIN Needs[g] = 1..n
    BY GraphsAssumption
  <2>3. /\ runs' \in Seq(Row) /\ Len(runs') = Len(runs) + n
        /\ \A r \in Rows(runs) : runs'[r] = runs[r]
    BY <2>1, GraphAppended
  <2>4. \A i \in 1..n : runs'[Len(runs) + i] = NewNode(g, i, Len(runs))
    <3> SUFFICES ASSUME NEW i \in 1..n PROVE runs'[Len(runs) + i] = NewNode(g, i, Len(runs))
      OBVIOUS
    <3>1. Len(runs) + i \in Rows(runs') \ Rows(runs) /\ (Len(runs) + i) - Len(runs) = i
      BY <1>0, <2>2, <2>3 DEF Rows
    <3> QED BY <2>1, <3>1, GraphAppended
  <2>5. \A i, m : /\ NewNode(g, i, m).session = <<g, i>> /\ NewNode(g, i, m).status = "queued"
                  /\ NewNode(g, i, m).started = FALSE
    BY DEF NewNode, NewRow
  <2>6. batch \in Admissions
    BY DEF Admissions
  <2>7. DOMAIN batch = 1..n /\ \A i \in 1..n : batch[i] = <<g, i>>
    BY <2>2
  <2> HIDE DEF batch, n
  <2>8. Batched(batch, n)
    BY <2>3, <2>4, <2>5, <2>7
  <2> HIDE DEF Batched
  <2> QED BY <1>1, <2>2, <2>6, <2>8
<1> QED BY <1>2, <1>3

\* The first transaction of an attempt serves the turn.
LEMMA BeginServes ==
  ASSUME TypeOK, OneAttemptPerSession, Ordered, NEW r \in Ids, BeginExecute(r)
  PROVE  QueueStep
<1>0. /\ runs \in Seq(Row) /\ attempt \in [Ids -> Phases] /\ r \in Rows(runs) /\ r \in Nat
      /\ \A u \in Rows(runs) : RunTurns[u] = TurnOf(runs[u])
      /\ Len(RunTurns) = Len(runs)
  BY BeginEffect, QueueState, TurnTable DEF TypeOK, Rows
<1>1. /\ attempt[r] = "launched" /\ runs[r].status \in Runnable
      /\ attempt' = [attempt EXCEPT ![r] = "executing"]
      /\ runs'[r].status = "running" /\ runs'[r].started
  BY BeginEffect
<1>2. RunTurns[r].open
  BY <1>0, <1>1, TurnShown DEF Runnable, Settled
<1>3. \A u \in AtWork(attempt) : ~Queue!Together(r, u)
  <2> SUFFICES ASSUME NEW u \in AtWork(attempt), RunTurns[r].session = RunTurns[u].session
               PROVE  FALSE
    BY DEF Queue!Together
  <2>1. u \in Rows(runs) /\ attempt[u] = "executing"
    BY AttemptRow DEF AtWork
  <2>2. SameSession(runs, r, u)
    BY <1>0, <2>1, TurnShown DEF SameSession
  <2> QED BY <1>0, <1>1, <2>1, <2>2 DEF OneAttemptPerSession, Exclusive
<1>4. \A u \in 1..(r - 1) : Queue!Together(r, u) => ~RunTurns[u].open
  <2> SUFFICES ASSUME NEW u \in 1..(r - 1), RunTurns[r].session = RunTurns[u].session
               PROVE  ~RunTurns[u].open
    BY DEF Queue!Together
  <2>1. u \in Rows(runs)
    BY <1>0 DEF Rows
  <2>2. SameSession(runs, u, r)
    BY <1>0, <2>1, TurnShown DEF SameSession
  <2>3. ~Unsettled(runs, u)
    BY <1>0, <1>1, <2>2 DEF Ordered, Launching, First
  <2> QED BY <1>0, <2>1, <2>3, TurnShown DEF Unsettled
<1>5. RunTurns' = [RunTurns EXCEPT ![r].served = TRUE]
  <2>1. ReplacedAt(r)
    <3>1. CASE runs' # runs
      BY <3>1, RowReplaced DEF RowStep
    <3>2. CASE runs' = runs
      <4>1. runs[r] \in Row /\ runs' = [runs EXCEPT ![r] = runs[r]]
        BY <1>0, <3>2 DEF Rows
      <4>2. Replaces(r, runs[r])
        BY <4>1 DEF Replaces, SameRun
      <4> QED BY <1>0, <4>1, <4>2 DEF ReplacedAt
    <3> QED BY <3>1, <3>2
  <2>2. /\ TurnsOf(runs') = [TurnsOf(runs) EXCEPT ![r] = TurnOf(runs'[r])]
        /\ runs'[r].session = runs[r].session
    BY <1>0, <2>1, OneTurn
  <2>3. TurnOf(runs'[r]) = [TurnOf(runs[r]) EXCEPT !.served = TRUE]
    <3>1. (runs'[r].status \notin Settled) = (runs[r].status \notin Settled)
      BY <1>1 DEF Runnable, Settled
    <3>2. runs'[r].started = TRUE
      <4>1. runs'[r] \in Row
        BY <1>0, <2>1, RowUpdate, RowWritten DEF ReplacedAt, Replaces
      <4> QED BY <1>1, <4>1 DEF Row
    <3>3. TurnOf(runs'[r]) = Turn(runs[r].session, runs[r].status \notin Settled, TRUE)
      BY <2>2, <3>1, <3>2, Zenon DEF TurnOf
    <3> QED BY <3>3, TurnEdited
  <2> HIDE DEF TurnOf
  <2>4. [RunTurns EXCEPT ![r].served = TRUE]
          = [RunTurns EXCEPT ![r] = [RunTurns[r] EXCEPT !.served = TRUE]]
    OBVIOUS
  <2> QED BY <1>0, <2>2, <2>3, <2>4, QueueState
<1>6. AtWork(attempt') = AtWork(attempt) \cup {r}
  BY <1>0, <1>1 DEF AtWork
<1>7. r \in Queue!Turns
  BY <1>0 DEF Queue!Turns, Rows
<1>8. Queue!Serve(r)
  <2>1. {t \in Ids : attempt[t] = "executing"}' = {t \in Ids : attempt[t] = "executing"} \cup {r}
    BY <1>6, QueueState
  <2>2. \A u \in {t \in Ids : attempt[t] = "executing"} : ~Queue!Together(r, u)
    BY <1>3, QueueState
  <2> QED BY <1>2, <1>4, <1>5, <2>1, <2>2 DEF Queue!Serve
<1> QED BY <1>7, <1>8 DEF QueueStep, Queue!QueueNext

\* An attempt leaves its run.
LEMMA EndYields ==
  ASSUME TypeOK, NEW r \in Ids, attempt[r] = "executing",
         attempt' = [attempt EXCEPT ![r] = "leaving"],
         \/ TurnsOf(runs') = TurnsOf(runs)
         \/ TurnsOf(runs') = [TurnsOf(runs) EXCEPT ![r].open = FALSE]
  PROVE  QueueStep
<1>1. /\ r \in Rows(runs) /\ attempt \in [Ids -> Phases] /\ runs \in Seq(Row)
  BY AttemptRow DEF TypeOK
<1>2. r \in AtWork(attempt) /\ AtWork(attempt') = AtWork(attempt) \ {r}
  BY <1>1 DEF AtWork
<1>3. r \in Queue!Turns
  BY <1>1, QueueState, TurnTable DEF Queue!Turns, Rows
<1>4. RunTurns' = RunTurns \/ RunTurns' = [RunTurns EXCEPT ![r].open = FALSE]
  BY QueueState
<1>5. Queue!Yield(r)
  BY <1>2, <1>4, QueueState DEF Queue!Yield
<1> QED BY <1>3, <1>5 DEF QueueStep, Queue!QueueNext

\* The last transaction of an attempt yields, for good or until the run is served again.
LEMMA SettleYields ==
  ASSUME TypeOK, AttemptOwnsRow, NEW r \in Ids, Settle(r)
  PROVE  QueueStep
<1>1. /\ r \in Rows(runs) /\ attempt[r] = "executing" /\ r \notin aborted
      /\ attempt' = [attempt EXCEPT ![r] = "leaving"] /\ runs'[r].started = runs[r].started
  BY SettleEffect DEF Keeps
<1>2. CASE runs' = runs
  BY <1>1, <1>2, EndYields
<1>3. CASE runs' # runs
  <2>1. ReplacedAt(r)
    BY <1>3, RowReplaced DEF RowStep
  <2>2. runs[r].status = "running"
    BY <1>1 DEF AttemptOwnsRow
  <2>3. CASE runs'[r].status \in Settled
    <3>1. /\ TurnsOf(runs') = [TurnsOf(runs) EXCEPT ![r] = TurnOf(runs'[r])]
          /\ runs'[r].session = runs[r].session
      BY <1>1, <2>1, OneTurn
    <3>2. TurnOf(runs'[r]) = Turn(runs[r].session, FALSE, runs[r].started)
      BY <1>1, <2>3, <3>1, Zenon DEF TurnOf
    <3>3. TurnOf(runs'[r]) = [TurnOf(runs[r]) EXCEPT !.open = FALSE]
      BY <3>2, TurnEdited
    <3>4. TurnsOf(runs)[r] = TurnOf(runs[r])
      BY <1>1 DEF TurnsOf
    <3> HIDE DEF TurnOf
    <3>5. TurnsOf(runs') = [TurnsOf(runs) EXCEPT ![r].open = FALSE]
      BY <3>1, <3>3, <3>4
    <3> QED BY <1>1, <3>5, EndYields
  <2>4. CASE runs'[r].status \notin Settled
    <3>1. TurnsOf(runs') = TurnsOf(runs)
      BY <1>1, <2>1, <2>2, <2>4, SameTurn DEF Settled
    <3> QED BY <1>1, <3>1, EndYields
  <2> QED BY <2>3, <2>4
<1> QED BY <1>2, <1>3

\* A failed run is retried: its turn is reopened, before a later one was served.
LEMMA RetryReopens ==
  ASSUME TypeOK, NEW r \in Ids, retry(r), AtWork(attempt') = AtWork(attempt)
  PROVE  QueueStep
<1>1. /\ r \in Rows(runs) /\ attempt[r] = "none" /\ runs'[r].status = "pending"
      /\ runs[r].status \in {"failed", "needs_attention"}
      /\ ~hasLaterStartedRun(runs, r) /\ runs'[r].started = runs[r].started
  BY RetryEffect
<1>2. CASE runs[r].status = "needs_attention"
  BY <1>1, <1>2, QuietTurn DEF RowStep, Settled
<1>3. CASE runs[r].status = "failed"
  <2>0. /\ runs \in Seq(Row) /\ Len(runs) \in Nat /\ r \in Nat
        /\ \A u \in Rows(runs) : RunTurns[u] = TurnOf(runs[u])
        /\ Len(RunTurns) = Len(runs)
    BY <1>1, QueueState, TurnTable DEF TypeOK, Rows
  <2>1. ReplacedAt(r)
    BY <1>1, <1>3, RowReplaced DEF RowStep
  <2>2. /\ TurnsOf(runs') = [TurnsOf(runs) EXCEPT ![r] = TurnOf(runs'[r])]
        /\ runs'[r].session = runs[r].session
    BY <1>1, <2>1, OneTurn
  <2>3. TurnOf(runs'[r]) = [TurnOf(runs[r]) EXCEPT !.open = TRUE]
    <3>1. (runs'[r].status \notin Settled) = TRUE
      BY <1>1 DEF Settled
    <3>2. TurnOf(runs'[r]) = Turn(runs[r].session, TRUE, runs[r].started)
      BY <1>1, <2>2, <3>1, Zenon DEF TurnOf
    <3> QED BY <3>2, TurnEdited
  <2>4. RunTurns' = [RunTurns EXCEPT ![r].open = TRUE]
    <3> HIDE DEF TurnOf
    <3> QED BY <1>1, <2>0, <2>2, <2>3, QueueState
  <2>5. ~RunTurns[r].open
    BY <1>1, <1>3, <2>0, TurnShown DEF Settled
  <2>6. \A u \in (r + 1)..Len(RunTurns) : Queue!Together(r, u) => ~RunTurns[u].served
    <3> SUFFICES ASSUME NEW u \in (r + 1)..Len(runs), RunTurns[r].session = RunTurns[u].session
                 PROVE  ~RunTurns[u].served
      BY <2>0 DEF Queue!Together
    <3>1. u \in Rows(runs)
      BY <2>0 DEF Rows
    <3>2. SameSession(runs, u, r)
      BY <1>1, <2>0, <3>1, TurnShown DEF SameSession
    <3>3. ~runs[u].started
      BY <1>1, <3>2 DEF hasLaterStartedRun
    <3> QED BY <2>0, <3>1, <3>3, TurnShown
  <2>7. r \in Queue!Turns
    BY <1>1, <2>0 DEF Queue!Turns, Rows
  <2>8. Queue!Reopen(r)
    <3>1. UNCHANGED {t \in Ids : attempt[t] = "executing"}
      BY QueueState
    <3>2. r \notin {t \in Ids : attempt[t] = "executing"}
      BY <1>1
    <3> QED BY <2>4, <2>5, <2>6, <3>1, <3>2 DEF Queue!Reopen
  <2> QED BY <2>7, <2>8 DEF QueueStep, Queue!QueueNext
<1> QED BY <1>1, <1>2, <1>3

\* The process dies.
LEMMA CrashEmpties ==
  ASSUME TypeOK, Crash
  PROVE  QueueStep
<1>1. RunTurns' = RunTurns
  BY QueueState DEF Crash
<1>2. {r \in Ids : attempt[r] = "executing"}' = {}
  BY DEF Crash
<1> QED BY <1>1, <1>2 DEF Queue!Outage, QueueStep, Queue!QueueNext

\* A graph is cancelled: what is unfinished in it is called off.
LEMMA GraphCalledOff ==
  ASSUME TypeOK, NEW g \in Graphs, cancelGraph(g), AtWork(attempt') = AtWork(attempt)
  PROVE  QueueStep
<1>0. runs \in Seq(Row)
  BY DEF TypeOK
<1>1. CASE runs' = runs
  BY <1>1, QueueStutters
<1>2. CASE runs' = GraphRows(g)
  <2>1. Nodes(runs, g) \in SUBSET Rows(runs)
    BY DEF Nodes
  <2>2. Rows(runs') = Rows(runs)
    BY <1>0, <1>2, GraphRewritten DEF Rows
  <2>3. \A p \in Rows(runs) : IF p \in Nodes(runs, g)
                              THEN /\ runs'[p].session = runs[p].session
                                   /\ runs'[p].started = runs[p].started
                                   /\ runs'[p].status \in Settled
                              ELSE runs'[p] = runs[p]
    BY <1>2, GraphRewritten DEF Nodes, SameRun, Unsettled
  <2> QED BY <2>1, <2>2, <2>3, CalledOff
<1> QED BY <1>1, <1>2 DEF cancelGraph, GraphRows

\* A transaction that ends a run by cancelling or failing it.
LEMMA EndedCalledOff ==
  ASSUME TypeOK, NEW r \in Ids, cancel(r) \/ SettleRejected(r), AtWork(attempt') = AtWork(attempt)
  PROVE  QueueStep
<1>1. CASE runs' = runs
  BY <1>1, QueueStutters
<1>2. CASE runs' # runs
  <2>1. ReplacedAt(r)
    BY <1>2, RowReplaced DEF RowStep
  <2>2. r \in Rows(runs) /\ runs'[r] # runs[r]
    <3>1. PICK row \in Row : r \in Rows(runs) /\ Replaces(r, row)
      BY <2>1 DEF ReplacedAt
    <3>2. runs'[r] = row /\ runs' = [runs EXCEPT ![r] = row]
      BY <3>1, RowWritten DEF Replaces
    <3>3. row = runs[r] => runs' = runs
      BY <3>2 DEF TypeOK, Rows
    <3> QED BY <1>2, <3>1, <3>2, <3>3
  <2>3. runs'[r].started = runs[r].started /\ runs'[r].status \in {"cancelled", "failed"}
    BY <2>2, CancelEffect, RejectedEffect DEF Keeps
  <2> QED BY <2>1, <2>2, <2>3, OneCalledOff DEF Settled
<1> QED BY <1>1, <1>2

\* Every step of the runtime is a step of the queue, or shows nothing to it.
LEMMA QueueSteps ==
  ASSUME TypeOK, AttemptOwnsRow, OneAttemptPerSession, Ordered, [Next]_vars
  PROVE  QueueStep
<1>0. Quiet => AtWork(attempt') = AtWork(attempt)
  BY WorkKept
<1>1. ASSUME NEW s \in Sessions, NEW q \in Requests, NEW enqueue \in BOOLEAN,
             submit(s, q, enqueue)
      PROVE  QueueStep
  <2>1. AtWork(attempt') = AtWork(attempt)
    BY <1>0, <1>1 DEF Quiet, Calls
  <2>2. Admitted
    BY <1>1 DEF submit, Admitted
  <2> QED BY <2>1, <2>2, AdmitStep
<1>2. ASSUME NEW g \in Graphs, submitGraph(g)
      PROVE  QueueStep
  <2>1. AtWork(attempt') = AtWork(attempt)
    BY <1>0, <1>2 DEF Quiet, Calls
  <2>2. runs' = runs \/ GraphAdmitted
    BY <1>2 DEF submitGraph, GraphAdmitted, GraphNodes
  <2> QED BY <2>1, <2>2, AdmitStep, QueueStutters
<1>3. ASSUME NEW g \in Graphs, cancelGraph(g)
      PROVE  QueueStep
  <2>1. AtWork(attempt') = AtWork(attempt)
    BY <1>0, <1>3 DEF Quiet, Calls
  <2> QED BY <1>3, <2>1, GraphCalledOff
<1>4. ASSUME NEW r \in Ids, cancel(r) \/ SettleRejected(r)
      PROVE  QueueStep
  <2>1. AtWork(attempt') = AtWork(attempt)
    BY <1>0, <1>4 DEF Quiet, Calls
  <2> QED BY <1>4, <2>1, EndedCalledOff
<1>5. ASSUME NEW r \in Ids, respond(r) \/ resolve(r) \/ JournalWork(r) \/ Elapse(r)
      PROVE  QueueStep
  <2>1. AtWork(attempt') = AtWork(attempt)
    BY <1>0, <1>5 DEF Quiet, Calls
  <2>2. /\ runs'[r].started = runs[r].started
        /\ runs'[r].status \in Settled <=> runs[r].status \in Settled
    BY <1>5, ResumeEffect, WorkEffect, ElapseEffect DEF Keeps, Settled
  <2>3. RowStep(r)
    BY <1>5 DEF RowStep
  <2> QED BY <2>1, <2>2, <2>3, QuietTurn
<1>6. ASSUME NEW r \in Ids, retry(r)
      PROVE  QueueStep
  <2>1. AtWork(attempt') = AtWork(attempt)
    BY <1>0, <1>6 DEF Quiet, Calls
  <2> QED BY <1>6, <2>1, RetryReopens
<1>7. ASSUME NEW r \in Ids, BeginExecute(r)
      PROVE  QueueStep
  BY <1>7, BeginServes
<1>8. ASSUME NEW r \in Ids, Settle(r)
      PROVE  QueueStep
  BY <1>8, SettleYields
<1>9. ASSUME NEW r \in Ids, SettleAborted(r)
      PROVE  QueueStep
  <2>0. runs' = runs /\ attempt' = [attempt EXCEPT ![r] = "leaving"] /\ attempt \in [Ids -> Phases]
    BY <1>9 DEF SettleAborted, Enter, TypeOK
  <2>1. CASE attempt[r] = "executing"
    BY <2>0, <2>1, EndYields
  <2>2. CASE attempt[r] # "executing"
    <3>1. AtWork(attempt') = AtWork(attempt)
      BY <2>0, <2>2 DEF AtWork
    <3> QED BY <2>0, <3>1, QueueStutters
  <2> QED BY <2>1, <2>2
<1>10. ASSUME \/ \E r \in Ids : SkipExecute(r) \/ RejectAdmission(r) \/ Leave(r)
              \/ \E s \in Sessions, q \in Requests : resubmit(s, q)
              \/ resume \/ Wake \/ fail \/ close \/ Closed \/ open \/ UNCHANGED vars
       PROVE  QueueStep
  <2>1. runs' = runs
    BY <1>10 DEF SkipExecute, RejectAdmission, Leave, resubmit, resume, Wake, fail, close,
                 Closed, open, vars
  <2>2. AtWork(attempt') = AtWork(attempt)
    BY <1>0, <1>10 DEF Quiet, Calls
  <2> QED BY <2>1, <2>2, QueueStutters
<1>11. CASE Crash
  BY <1>11, CrashEmpties
<1> QED
  BY <1>1, <1>2, <1>3, <1>4, <1>5, <1>6, <1>7, <1>8, <1>9, <1>10, <1>11
  DEF Next, Calls, Attempt, Process

\* Every behaviour of the runtime, crashes and restarts included, is one the queue of its
\* sessions allows; if no call of the host comes between launch() and execute().
THEOREM QueueImplemented == ~CallsInLaunchGap => (Spec => ImplementsSessionQueue)
<1> SUFFICES ASSUME ~CallsInLaunchGap PROVE Spec => ImplementsSessionQueue
  OBVIOUS
<1>1. Init => Queue!QueueInit
  <2> SUFFICES ASSUME Init PROVE Queue!QueueInit
    OBVIOUS
  <2>1. RunTurns = <<>>
    BY DEF Init, RunTurns, Rows
  <2>2. {r \in Ids : attempt[r] = "executing"} = {}
    BY DEF Init
  <2> QED BY <2>1, <2>2 DEF Queue!QueueInit
<1>2. TypeOK /\ AttemptOwnsRow /\ OrderInv /\ [Next]_vars => OrderInv'
  BY OrderStep
<1>3. TypeOK /\ AttemptOwnsRow /\ OneAttemptPerSession /\ OrderInv /\ [Next]_vars
         => [Queue!QueueNext]_(Queue!queueVars)
  BY QueueSteps DEF OrderInv, QueueStep
<1> QED
  BY <1>1, <1>2, <1>3, OrderInit, TypeCorrect, AttemptsOwnRows, SessionsExclusive, PTL
  DEF Spec, ImplementsSessionQueue, Queue!QueueSpec

=============================================================================
