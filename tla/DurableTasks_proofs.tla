------------------------- MODULE DurableTasks_proofs -------------------------
(* Proofs about DurableTasks: for every number of tasks, keys, waits and    *)
(* policies, a manual effect is executed once, the fence below a cancelled  *)
(* task holds, a task ends after everything it owns, outcomes are final,    *)
(* and no wake-up is lost.  The last needs what two passes over a tree      *)
(* achieve: the second half of the module.                                  *)
EXTENDS DurableTasks, Selection_proofs

\* The attempt of an owned run meets the cancellation of its task: no callback comes between
\* the two, or no task owns a run.
RunsFollow == ~MicrotaskGaps \/ AgentKeys = {}

\* A transition that was rolled back is settled before anything else happens to its task.
FenceStands == ~MicrotaskGaps \/ ~MayExceedLimits

-----------------------------------------------------------------------------
(* The inductive invariant: of the journal and the memory of the process ... *)

Attempts == {"none", "executing", "aborted", "leaving"}

World ==
  [tasks : Seq(Task), ready : Seq(Ids), call : [Ids -> Call], attempt : [Ids -> Attempts],
   deadlines : SUBSET Ids]

\* A task comes after its parent, in the same tree, and waits for its own children.
Tree(W) ==
  \A t \in Rows(W) :
     LET row == W.tasks[t] IN
     /\ row.parent < t
     /\ row.parent = 0 => row.root = t
     /\ row.parent # 0 => row.root = W.tasks[row.parent].root
     /\ row.wait.ids \subseteq Children(W, t)

\* The ready order holds the tasks that are ready.
In(x, queue) == \E i \in DOMAIN queue : queue[i] = x
Queued(W) == \A t \in Ids : In(t, W.ready) <=> t \in Rows(W) /\ W.tasks[t].status \in Ready

\* What the status of a task says of its outcome, of its invocation k, of the run it owns and
\* of the attempt a of that run.
Sound(row, k, a) ==
  /\ row.status \in Terminal => k.phase = "none" /\ (RunsFollow => a = "none")
  /\ row.status = "cancelling" =>
       /\ k.phase \in {"launched", "executing"} => k.aborted
       /\ row.outcome \in {"failed", "cancelled"}
  /\ row.status = "completing" => row.outcome \in Terminal
  /\ row.run # "none" =>
       /\ row.key \in AgentKeys /\ k.phase = "none"
       /\ row.status \in {"waiting"} \cup Decided
       /\ row.status = "waiting" => row.wait.kind = "agent"
       /\ RunsFollow /\ row.status \in Decided => row.run \in RunSettled
  /\ a # "none" => row.run # "none"
  /\ RunsFollow /\ a = "executing" /\ row.status # "cancelling" =>
       row.status = "waiting" /\ row.run = "running"

\* Below a task that has ended everything has ended; below a fenced one everything is fenced.
Nested(W) ==
  \A c \in Rows(W) :
     W.tasks[c].parent # 0 =>
       /\ Ended(W, W.tasks[c].parent) => Ended(W, c)
       /\ FenceStands /\ W.tasks[W.tasks[c].parent].status = "cancelling" =>
            W.tasks[c].status \in {"cancelling"} \cup Terminal

Fine(W) ==
  /\ W \in World
  /\ Len(W.tasks) <= MaxTasks
  /\ Tree(W)
  /\ Queued(W)
  /\ \A t \in Rows(W) : Sound(W.tasks[t], W.call[t], W.attempt[t])
  /\ \A t \in Ids : t \notin Rows(W) => W.call[t].phase = "none" /\ W.attempt[t] = "none"
  /\ Nested(W)

\* ... of what happens between the last transaction of an invocation and its end ...
Between ==
  /\ FenceStands => \A t \in Ids : call[t].phase = "rejected" =>
                       tasks[t].status = "running" /\ MayExceedLimits
  /\ ~MicrotaskGaps =>
       /\ \A t, u \in Ids : call[t].phase \in {"rejected", "leaving"}
                              /\ call[u].phase \in {"rejected", "leaving"} => t = u
       /\ \A t \in Ids :
            attempt[t] = "executing" /\ tasks[t].status = "cancelling" =>
              \E u \in Ids : call[u].phase = "leaving" /\ tasks[u].root = tasks[t].root
  /\ process # "up" => \A t \in Ids : attempt[t] # "executing"

\* ... and of the world outside.
Effects ==
  /\ executed \in [Ids -> Nat]
  /\ \A t \in Ids : executed[t] > 0 => t \in Rows(Now) /\ tasks[t].effect # "none"
  /\ Recovery = "manual" => \A t \in Ids : executed[t] <= 1

IInv ==
  /\ Fine(Now) /\ Between /\ Effects
  /\ process \in {"up", "closing", "down"} /\ resumed \in BOOLEAN


-----------------------------------------------------------------------------
(* Worlds and rows.                                                         *)

\* The limits are numbers, and a child key is either kind.
LEMMA Limits ==
  /\ MaxTasks \in Nat /\ MaxConcurrentTasks \in Nat /\ MaxEffects \in Nat
  /\ ChildKeys \cap AgentKeys = {}
  /\ WaitKinds \subseteq {"allSettled", "failFast", "signal", "timer"}
  /\ MayExceedLimits \in BOOLEAN /\ MicrotaskGaps \in BOOLEAN
BY TasksAssumption

Statuses == Ready \cup {"waiting", "needs_attention"} \cup Decided
Runs == RunSettled \cup Runnable \cup Paused \cup {"none"}

\* The fields of a row.
LEMMA RowFields ==
  ASSUME NEW r \in Task
  PROVE  /\ r.root \in Ids /\ r.parent \in 0..MaxTasks /\ r.key \in Keys
         /\ r.status \in Statuses /\ r.wait \in Wait /\ r.outcome \in Terminal \cup {"none"}
         /\ r.blocked \in BOOLEAN /\ r.effect \in {"none", "started", "completed"}
         /\ r.signalled \in BOOLEAN /\ r.run \in Runs
         /\ r.wait.kind \in WaitKinds \cup {"none", "agent"} /\ r.wait.ids \subseteq Ids
         /\ r.wait.due \in BOOLEAN
<1>1. r.wait \in Wait
  BY DEF Task
<1>2. /\ r.wait.kind \in WaitKinds \cup {"none", "agent"} /\ r.wait.ids \subseteq Ids
      /\ r.wait.due \in BOOLEAN
  BY <1>1 DEF Wait
<1> QED BY <1>1, <1>2 DEF Task, Statuses, Runs

\* The fields of a world.
LEMMA WorldFields ==
  ASSUME NEW W \in World
  PROVE  /\ W.tasks \in Seq(Task) /\ W.ready \in Seq(Ids) /\ W.call \in [Ids -> Call]
         /\ W.attempt \in [Ids -> Attempts] /\ W.deadlines \in SUBSET Ids
         /\ Len(W.tasks) \in Nat /\ Rows(W) = DOMAIN W.tasks /\ W.tasks \in [Rows(W) -> Task]
         /\ \A t \in Rows(W) : t \in Nat /\ W.tasks[t] \in Task
<1>1. /\ W.tasks \in Seq(Task) /\ W.ready \in Seq(Ids) /\ W.call \in [Ids -> Call]
      /\ W.attempt \in [Ids -> Attempts] /\ W.deadlines \in SUBSET Ids
  BY DEF World
<1>2. /\ Len(W.tasks) \in Nat /\ W.tasks \in [1..Len(W.tasks) -> Task]
      /\ DOMAIN W.tasks = 1..Len(W.tasks)
  BY <1>1, LenProperties
<1> QED BY <1>1, <1>2 DEF Rows

\* A world with other contents.
LEMMA MadeWorld ==
  ASSUME NEW W \in World, NEW a \in Seq(Task), NEW b \in Seq(Ids), NEW c \in [Ids -> Call],
         NEW d \in [Ids -> Attempts], NEW e \in SUBSET Ids, NEW V,
         V = [tasks |-> a, ready |-> b, call |-> c, attempt |-> d, deadlines |-> e]
  PROVE  V \in World
BY DEF World

\* A world is what its fields are.
LEMMA WorldIs ==
  ASSUME NEW W \in World
  PROVE  W = [tasks |-> W.tasks, ready |-> W.ready, call |-> W.call, attempt |-> W.attempt,
              deadlines |-> W.deadlines]
BY DEF World

\* Two worlds with the same fields are the same.
LEMMA SameWorld ==
  ASSUME NEW W \in World, NEW V \in World, V.tasks = W.tasks, V.ready = W.ready, V.call = W.call,
         V.attempt = W.attempt, V.deadlines = W.deadlines
  PROVE  V = W
<1>1. /\ W = [tasks |-> W.tasks, ready |-> W.ready, call |-> W.call, attempt |-> W.attempt,
              deadlines |-> W.deadlines]
      /\ V = [tasks |-> V.tasks, ready |-> V.ready, call |-> V.call, attempt |-> V.attempt,
              deadlines |-> V.deadlines]
  BY WorldIs
<1> QED BY <1>1

\* The rows of a fine world have ids, parents of smaller ids, and a whole tree above.
LEMMA RowsOf ==
  ASSUME NEW W, Fine(W), NEW t \in Rows(W)
  PROVE  /\ W \in World /\ t \in Ids /\ t \in Nat \ {0}
         /\ W.tasks[t] \in Task
         /\ W.tasks[t].parent \in Nat /\ W.tasks[t].parent < t
         /\ W.tasks[t].parent = 0 => W.tasks[t].root = t
         /\ W.tasks[t].parent # 0 =>
              /\ W.tasks[t].parent \in Rows(W)
              /\ W.tasks[t].root = W.tasks[W.tasks[t].parent].root
         /\ W.tasks[t].root \in Ids
         /\ W.tasks[t].wait.ids \subseteq Children(W, t)
         /\ Children(W, t) \subseteq Rows(W)
         /\ t \notin Children(W, t)
         /\ Sound(W.tasks[t], W.call[t], W.attempt[t])
<1>1. W \in World /\ Len(W.tasks) <= MaxTasks /\ Tree(W)
  BY DEF Fine
<1>2. Len(W.tasks) \in Nat /\ W.tasks[t] \in Task /\ t \in 1..Len(W.tasks)
  BY <1>1, WorldFields DEF Rows
<1>3. t \in Ids /\ t \in Nat \ {0}
  BY <1>1, <1>2, Limits DEF Ids
<1>4. W.tasks[t].parent \in 0..MaxTasks /\ W.tasks[t].root \in Ids
  BY <1>2, RowFields
<1>5. /\ W.tasks[t].parent < t
      /\ W.tasks[t].parent = 0 => W.tasks[t].root = t
      /\ W.tasks[t].parent # 0 => W.tasks[t].root = W.tasks[W.tasks[t].parent].root
      /\ W.tasks[t].wait.ids \subseteq Children(W, t)
  BY <1>1 DEF Tree
<1>6. W.tasks[t].parent # 0 => W.tasks[t].parent \in Rows(W)
  <2> DEFINE p == W.tasks[t].parent
             n == Len(W.tasks)
  <2>1. p \in 0..MaxTasks /\ MaxTasks \in Nat /\ p < t /\ n \in Nat /\ t \in 1..n
    BY <1>2, <1>4, <1>5, Limits
  <2> HIDE DEF p, n
  <2>2. p # 0 => p \in 1..n
    BY <2>1
  <2> QED BY <2>2 DEF p, n, Rows
<1>7. t \notin Children(W, t)
  BY <1>5, <1>4, <1>3, Limits DEF Children
<1>8. Sound(W.tasks[t], W.call[t], W.attempt[t])
  BY DEF Fine
<1>9. W.tasks[t].parent \in Nat
  BY <1>4, Limits
<1> QED BY <1>1, <1>2, <1>3, <1>4, <1>5, <1>6, <1>7, <1>8, <1>9 DEF Children

\* What Without leaves of a queue.
LEMMA WithoutElements ==
  ASSUME NEW S, NEW q \in Seq(S), NEW T
  PROVE  /\ Without(q, T) \in Seq(S)
         /\ \A x : In(x, Without(q, T)) <=> x \notin T /\ In(x, q)
<1> DEFINE I == {i \in DOMAIN q : q[i] \notin T}
           s == Selected(q, I)
<1>1. s \in Seq(S) /\ Drawn(s, q, I, Len(q))
  <2> HIDE DEF I
  <2> QED BY SelectedDrawn
<1>2. Without(q, T) = s
  BY DEF Without
<1>3. DOMAIN s = 1..Len(s) /\ DOMAIN q = 1..Len(q)
  <2> HIDE DEF s
  <2> QED BY <1>1
<1>4. \A i : i \in I <=> i \in DOMAIN q /\ q[i] \notin T
  OBVIOUS
<1> HIDE DEF s, I
<1>5. PICK from \in [1..Len(s) -> (1..Len(q)) \cap I] :
        /\ \A j \in 1..Len(s) : s[j] = q[from[j]]
        /\ \A i \in (1..Len(q)) \cap I : \E j \in 1..Len(s) : from[j] = i
  BY <1>1 DEF Drawn
<1>6. ASSUME NEW i \in DOMAIN s PROVE s[i] \notin T /\ \E j \in DOMAIN q : q[j] = s[i]
  <2>1. from[i] \in DOMAIN q /\ from[i] \in I /\ s[i] = q[from[i]]
    BY <1>3, <1>5
  <2> QED BY <2>1, <1>4
<1>7. ASSUME NEW j \in DOMAIN q, q[j] \notin T PROVE \E i \in DOMAIN s : s[i] = q[j]
  <2>1. j \in (1..Len(q)) \cap I
    BY <1>3, <1>4, <1>7
  <2>2. PICK i \in 1..Len(s) : from[i] = j
    BY <1>5, <2>1
  <2> QED BY <2>2, <1>3, <1>5
<1> QED BY <1>1, <1>2, <1>6, <1>7 DEF In

\* One more element at the end of a queue.
LEMMA AppendElements ==
  ASSUME NEW S, NEW q \in Seq(S), NEW t \in S
  PROVE  /\ Append(q, t) \in Seq(S) /\ q \o <<t>> \in Seq(S)
         /\ \A x : In(x, Append(q, t)) <=> x = t \/ In(x, q)
         /\ q \o <<t>> = Append(q, t)
<1> DEFINE s == Append(q, t)
           n == Len(q)
<1>1. /\ s \in Seq(S) /\ Len(s) = Len(q) + 1
      /\ \A j \in 1..Len(q) : s[j] = q[j]
      /\ s[Len(q) + 1] = t
  BY AppendProperties
<1>2. DOMAIN s = 1..Len(s) /\ DOMAIN q = 1..Len(q) /\ n \in Nat
  <2> HIDE DEF s
  <2> QED BY <1>1
<1>3. q \o <<t>> = s
  BY AppendIsConcat
<1> HIDE DEF s
<1>4. DOMAIN s = 1..n + 1 /\ DOMAIN q = 1..n /\ (\A j \in 1..n : s[j] = q[j]) /\ s[n + 1] = t
  BY <1>1, <1>2
<1> HIDE DEF n
<1>5. n + 1 \in 1..n + 1 /\ \A j \in 1..n + 1 : j = n + 1 \/ j \in 1..n
  BY <1>2
<1>6. \A x : (\E i \in DOMAIN s : s[i] = x) <=> x = t \/ \E i \in DOMAIN q : q[i] = x
  <2>1. ASSUME NEW x, NEW i \in DOMAIN s, s[i] = x PROVE x = t \/ \E j \in DOMAIN q : q[j] = x
    BY <2>1, <1>4, <1>5
  <2>2. ASSUME NEW x, NEW j \in DOMAIN q, q[j] = x PROVE \E i \in DOMAIN s : s[i] = x
    <3>1. j \in 1..n + 1
      BY <1>2, <1>4
    <3> QED BY <3>1, <2>2, <1>4
  <2>3. \E i \in DOMAIN s : s[i] = t
    BY <1>4, <1>5
  <2> QED BY <2>1, <2>2, <2>3
<1> QED BY <1>1, <1>3, <1>6 DEF s, In

-----------------------------------------------------------------------------
(* The unfinished tasks of subtrees.                                        *)

\* One step up to a task: it joins the tasks above it.
Joined(W, S, t, above) ==
  IF ~Ended(W, t) /\ (t \in S \/ W.tasks[t].parent \in above) THEN above \cup {t} ELSE above

\* The unfinished tasks up to each of the first n.
UpTo(W, S, n) ==
  CHOOSE upTo : upTo = [t \in 0..n |->
    IF t = 0 THEN {}
    ELSE LET above == upTo[t - 1] IN
         IF ~Ended(W, t) /\ (t \in S \/ W.tasks[t].parent \in above) THEN above \cup {t}
         ELSE above]

HaveUpTo(W, S, n) ==
  \E upTo : upTo = [t \in 0..n |-> IF t = 0 THEN {} ELSE Joined(W, S, t, upTo[t - 1])]

\* One more.
LEMMA UpToNext ==
  ASSUME NEW W, NEW S, NEW n \in Nat, HaveUpTo(W, S, n)
  PROVE  HaveUpTo(W, S, n + 1)
<1>1. PICK f : f = [t \in 0..n |-> IF t = 0 THEN {} ELSE Joined(W, S, t, f[t - 1])]
  BY DEF HaveUpTo
<1> DEFINE g == [t \in 0..n + 1 |-> IF t <= n THEN f[t] ELSE Joined(W, S, t, f[t - 1])]
<1>2. \A t \in 0..n : f[t] = IF t = 0 THEN {} ELSE Joined(W, S, t, f[t - 1])
  BY <1>1
<1>3. \A t \in 0..n : g[t] = f[t]
  OBVIOUS
<1>4. ASSUME NEW t \in 0..n + 1
      PROVE  g[t] = IF t = 0 THEN {} ELSE Joined(W, S, t, g[t - 1])
  <2>1. CASE t = 0
    <3>1. 0 \in 0..n
      OBVIOUS
    <3>2. g[t] = f[t] /\ f[t] = {}
      BY <2>1, <3>1, <1>2, <1>3
    <3> HIDE DEF g
    <3> QED BY <2>1, <3>2
  <2>2. CASE t # 0 /\ t <= n
    <3>1. t - 1 \in 0..n /\ t \in 0..n
      BY <2>2
    <3> QED BY <2>2, <3>1, <1>2, <1>3
  <2>3. CASE t = n + 1
    <3>1. t - 1 \in 0..n /\ ~(t <= n) /\ t # 0
      BY <2>3
    <3> QED BY <3>1, <1>3
  <2> QED BY <2>1, <2>2, <2>3
<1>5. g = [t \in 0..n + 1 |-> IF t = 0 THEN {} ELSE Joined(W, S, t, g[t - 1])]
  BY <1>4
<1> QED BY <1>5 DEF HaveUpTo

\* As many as there are tasks.
LEMMA UpToAll == ASSUME NEW W, NEW S PROVE \A n \in Nat : HaveUpTo(W, S, n)
<1> DEFINE Missing == {n \in Nat : ~HaveUpTo(W, S, n)}
<1>1. SUFFICES ASSUME Missing # {} PROVE FALSE
  OBVIOUS
<1>2. PICK x \in Missing : \A y \in Missing : x <= y
  BY <1>1, Least
<1>3. HaveUpTo(W, S, 0)
  <2> DEFINE g == [t \in 0..0 |-> {}]
  <2>1. g = [t \in 0..0 |-> IF t = 0 THEN {} ELSE Joined(W, S, t, g[t - 1])]
    OBVIOUS
  <2> QED BY <2>1 DEF HaveUpTo
<1>4. x \in Nat \ {0}
  BY <1>3
<1>5. x - 1 \in Nat /\ x - 1 \notin Missing
  BY <1>2, <1>4
<1>6. HaveUpTo(W, S, (x - 1) + 1)
  BY <1>5, UpToNext
<1> QED BY <1>6, <1>4

\* Each from the one before; the last is what Unfinished takes.
LEMMA UpToStep ==
  ASSUME NEW W, NEW S, NEW n \in Nat, n = Len(W.tasks)
  PROVE  /\ UpTo(W, S, n)[0] = {}
         /\ \A t \in 1..n : UpTo(W, S, n)[t] = Joined(W, S, t, UpTo(W, S, n)[t - 1])
         /\ Unfinished(W, S) = UpTo(W, S, n)[n]
<1> DEFINE f == UpTo(W, S, n)
<1>1. HaveUpTo(W, S, n)
  BY UpToAll
<1>2. \E upTo : upTo = [t \in 0..n |->
        IF t = 0 THEN {}
        ELSE LET above == upTo[t - 1] IN
             IF ~Ended(W, t) /\ (t \in S \/ W.tasks[t].parent \in above) THEN above \cup {t}
             ELSE above]
  BY <1>1 DEF HaveUpTo, Joined
<1>3. f = [t \in 0..n |->
        IF t = 0 THEN {}
        ELSE LET above == f[t - 1] IN
             IF ~Ended(W, t) /\ (t \in S \/ W.tasks[t].parent \in above) THEN above \cup {t}
             ELSE above]
  BY <1>2, Zenon DEF UpTo
<1>4. Unfinished(W, S) = f[n]
  BY Zenon DEF Unfinished, UpTo
<1> HIDE DEF f
<1>5. f[0] = {}
  BY <1>3
<1>6. ASSUME NEW t \in 1..n PROVE f[t] = Joined(W, S, t, f[t - 1])
  <2>1. t \in 0..n /\ t # 0
    OBVIOUS
  <2>2. f[t] = IF t = 0 THEN {}
               ELSE LET above == f[t - 1] IN
                    IF ~Ended(W, t) /\ (t \in S \/ W.tasks[t].parent \in above)
                      THEN above \cup {t} ELSE above
    BY <2>1, <1>3
  <2> QED BY <2>1, <2>2 DEF Joined
<1> QED BY <1>4, <1>5, <1>6 DEF f

\* Which tasks up to the nth are unfinished ones of the subtrees.
LEMMA UpToOf ==
  ASSUME NEW W, NEW S, NEW n \in Nat, n = Len(W.tasks), NEW k \in 0..n, NEW f, f = UpTo(W, S, n),
         \A t \in 1..n : W.tasks[t].parent \in Nat /\ W.tasks[t].parent < t
  PROVE  /\ f[k] \subseteq 1..k
         /\ \A t \in 1..k : t \in f[k] <=> ~Ended(W, t) /\ (t \in S \/ W.tasks[t].parent \in f[k])
<1> DEFINE Right(x) ==
      /\ f[x] \subseteq 1..x
      /\ \A t \in 1..x : t \in f[x] <=> ~Ended(W, t) /\ (t \in S \/ W.tasks[t].parent \in f[x])
           Wrong == {x \in 0..n : ~Right(x)}
<1>1. f[0] = {} /\ \A t \in 1..n : f[t] = Joined(W, S, t, f[t - 1])
  BY UpToStep
<1>2. SUFFICES Wrong = {}
  BY <1>2
<1>3. SUFFICES ASSUME Wrong # {} PROVE FALSE
  OBVIOUS
<1>4. PICK x \in Wrong : \A y \in Wrong : x <= y
  <2>1. Wrong \in SUBSET Nat
    OBVIOUS
  <2> HIDE DEF Wrong
  <2> QED BY <2>1, <1>3, Least
<1>5. Right(0)
  BY <1>1
<1>6. x \in 1..n /\ x - 1 \in 0..n /\ x - 1 \notin Wrong
  <2> HIDE DEF Right
  <2> QED BY <1>4, <1>5
<1>7. Right(x - 1)
  <2> HIDE DEF Right
  <2> QED BY <1>6
<1>8. Right(x)
  <2> DEFINE y == x - 1
  <2>1. /\ y \in Nat /\ x = y + 1 /\ x \in 1..n
        /\ f[x] = Joined(W, S, x, f[y])
        /\ f[y] \subseteq 1..y
        /\ \A t \in 1..y : t \in f[y] <=> ~Ended(W, t) /\ (t \in S \/ W.tasks[t].parent \in f[y])
    BY <1>1, <1>6, <1>7
  <2> HIDE DEF y
  <2>2. f[y] \subseteq f[x] /\ f[x] \subseteq f[y] \cup {x} /\ x \notin f[y]
    BY <2>1 DEF Joined
  <2>3. x \in f[x] <=> ~Ended(W, x) /\ (x \in S \/ W.tasks[x].parent \in f[y])
    BY <2>1, <2>2 DEF Joined
  <2>4. f[x] \subseteq 1..x
    BY <2>1, <2>2
  <2>5. \A t \in 1..x : W.tasks[t].parent \in f[x] <=> W.tasks[t].parent \in f[y]
    <3>1. \A t \in 1..x : W.tasks[t].parent \in Nat /\ W.tasks[t].parent < t /\ t <= x
      BY <2>1
    <3>2. \A t \in 1..x : W.tasks[t].parent # x
      BY <3>1, <2>1
    <3> QED BY <3>2, <2>2
  <2>6. ASSUME NEW t \in 1..x
        PROVE  t \in f[x] <=> ~Ended(W, t) /\ (t \in S \/ W.tasks[t].parent \in f[x])
    <3>1. CASE t = x
      BY <3>1, <2>3, <2>5
    <3>2. CASE t # x
      <4>1. t \in 1..y
        BY <3>2, <2>1
      <4>2. t \in f[x] <=> t \in f[y]
        BY <3>2, <2>2
      <4> QED BY <4>1, <4>2, <2>1, <2>5
    <3> QED BY <3>1, <3>2
  <2> QED BY <2>4, <2>6
<1> QED
  <2> HIDE DEF Right
  <2> QED BY <1>8, <1>4

\* Unfinished goes down through unfinished tasks, and stays in the trees it starts in.
LEMMA UnfinishedOf ==
  ASSUME NEW W, Fine(W), NEW S, S \subseteq Rows(W), NEW root, \A t \in S : W.tasks[t].root = root
  PROVE  LET U == Unfinished(W, S) IN
         /\ U \subseteq Rows(W)
         /\ \A t \in Rows(W) :
              t \in U <=> ~Ended(W, t) /\ (t \in S \/ W.tasks[t].parent \in U)
         /\ \A t \in U : W.tasks[t].root = root
<1> DEFINE n == Len(W.tasks)
           U == Unfinished(W, S)
           f == UpTo(W, S, n)
           Strange == {t \in U : W.tasks[t].root # root}
<1>1. n \in Nat /\ Rows(W) = 1..n
  BY WorldFields DEF Fine, Rows
<1>2. \A t \in 1..n : W.tasks[t].parent \in Nat /\ W.tasks[t].parent < t
  BY <1>1, RowsOf
<1>3. U = f[n]
  BY <1>1, UpToStep
<1>4. n \in 0..n
  BY <1>1
<1> HIDE DEF n
<1>5. /\ f[n] \subseteq 1..n
      /\ \A t \in 1..n : t \in f[n] <=> ~Ended(W, t) /\ (t \in S \/ W.tasks[t].parent \in f[n])
  BY <1>1, <1>2, <1>4, UpToOf DEF n
<1>6. /\ U \subseteq Rows(W)
      /\ \A t \in Rows(W) : t \in U <=> ~Ended(W, t) /\ (t \in S \/ W.tasks[t].parent \in U)
  BY <1>1, <1>3, <1>5
<1> HIDE DEF U
<1>7. Strange = {}
  <2>1. SUFFICES ASSUME Strange # {} PROVE FALSE
    OBVIOUS
  <2>2. PICK t \in Strange : \A u \in Strange : t <= u
    <3>1. Strange \in SUBSET Nat
      BY <1>1, <1>6
    <3> HIDE DEF Strange
    <3> QED BY <3>1, <2>1, Least
  <2>3. t \in Rows(W) /\ t \in U /\ t \notin S /\ W.tasks[t].root # root
    BY <1>6
  <2>4. W.tasks[t].parent \in U /\ W.tasks[t].parent < t /\ W.tasks[t].parent # 0
        /\ t \in Nat /\ W.tasks[t].parent \in Nat
        /\ W.tasks[t].root = W.tasks[W.tasks[t].parent].root
    BY <2>3, <1>1, <1>6, RowsOf
  <2>5. W.tasks[t].parent \in Strange
    BY <2>3, <2>4
  <2> HIDE DEF Strange
  <2>6. t <= W.tasks[t].parent
    BY <2>5, <2>2
  <2> QED BY <2>6, <2>4
<1> QED BY <1>6, <1>7 DEF U

-----------------------------------------------------------------------------
(* What the steps of one transaction do to a world.                         *)

\* What happens to a row: its place in the tree and its effect stay, what has ended stays, and
\* what is fenced only ends.
Moved(old, new) ==
  /\ new.parent = old.parent /\ new.root = old.root /\ new.key = old.key
  /\ new.effect = old.effect
  /\ old.status \in Terminal => new = old
  /\ old.status = "cancelling" => new.status \in {"cancelling", "failed", "cancelled"}

\* What happens to a world: invocations are launched, and attempts are not.
Kept(W, V) ==
  /\ Len(V.tasks) = Len(W.tasks)
  /\ \A t \in Rows(W) : Moved(W.tasks[t], V.tasks[t])
  /\ \A t \in Ids : \/ V.call[t].phase = W.call[t].phase
                    \/ W.call[t].phase = "none" /\ V.call[t].phase = "launched"
  /\ \A t \in Ids : V.attempt[t] = "executing" => W.attempt[t] = "executing"

\* Only the rows of one tree change.
Inside(W, V, root) ==
  \A t \in Rows(W) : W.tasks[t].root # root => V.tasks[t] = W.tasks[t]

Goes(W, V, root) == Fine(V) /\ Kept(W, V) /\ Inside(W, V, root)

\* A row keeps what Moved says through two changes.
LEMMA MovedTwice ==
  ASSUME NEW r, NEW s, NEW u, Moved(r, s), Moved(s, u)
  PROVE  Moved(r, u)
BY DEF Moved, Terminal

\* A world keeps what Kept says through two changes.
LEMMA KeptTwice ==
  ASSUME NEW W, NEW V, NEW U, Kept(W, V), Kept(V, U)
  PROVE  Kept(W, U)
<1>1. Len(U.tasks) = Len(W.tasks) /\ Rows(V) = Rows(W)
  BY DEF Kept, Rows
<1>2. \A t \in Rows(W) : Moved(W.tasks[t], U.tasks[t])
  <2>1. ASSUME NEW t \in Rows(W) PROVE Moved(W.tasks[t], U.tasks[t])
    <3>1. Moved(W.tasks[t], V.tasks[t]) /\ Moved(V.tasks[t], U.tasks[t])
      BY <1>1 DEF Kept
    <3> QED BY <3>1, MovedTwice
  <2> QED BY <2>1
<1>3. \A t \in Ids : \/ U.call[t].phase = W.call[t].phase
                     \/ W.call[t].phase = "none" /\ U.call[t].phase = "launched"
  BY DEF Kept
<1>4. \A t \in Ids : U.attempt[t] = "executing" => W.attempt[t] = "executing"
  BY DEF Kept
<1> QED BY <1>1, <1>2, <1>3, <1>4 DEF Kept

\* The same inside a tree.
LEMMA InsideTwice ==
  ASSUME NEW W, NEW V, NEW U, NEW root, Kept(W, V), Inside(W, V, root), Inside(V, U, root)
  PROVE  Inside(W, U, root)
<1>1. Rows(V) = Rows(W)
  BY DEF Kept, Rows
<1>2. ASSUME NEW t \in Rows(W), W.tasks[t].root # root PROVE U.tasks[t] = W.tasks[t]
  <2>1. V.tasks[t] = W.tasks[t]
    BY <1>2 DEF Inside
  <2> QED BY <2>1, <1>1, <1>2 DEF Inside
<1> QED BY <1>2 DEF Inside

\* Steps in one tree, one after the other.
LEMMA GoesTwice ==
  ASSUME NEW W, NEW V, NEW U, NEW root, Goes(W, V, root), Goes(V, U, root)
  PROVE  Goes(W, U, root)
BY KeptTwice, InsideTwice DEF Goes

\* Nothing happens.
LEMMA GoesSelf ==
  ASSUME NEW W, Fine(W), NEW root
  PROVE  Goes(W, W, root)
BY DEF Goes, Kept, Inside, Moved, Terminal

-----------------------------------------------------------------------------
(* A row is written.                                                        *)

\* What the new row of t, its invocation k and the attempt a of its run must be.
Fits(W, t, row, k, a) ==
  LET old == W.tasks[t] IN
  /\ row.parent = old.parent /\ row.root = old.root /\ row.key = old.key
  /\ row.wait.ids \subseteq Children(W, t)
  /\ Sound(row, k, a)
  /\ row.status \in Terminal => \A c \in Children(W, t) : Ended(W, c)
  /\ FenceStands /\ row.status = "cancelling" =>
       \A c \in Children(W, t) : W.tasks[c].status \in {"cancelling"} \cup Terminal
  /\ old.parent # 0 =>
       /\ Ended(W, old.parent) => row.status \in Terminal
       /\ FenceStands /\ W.tasks[old.parent].status = "cancelling" =>
            row.status \in {"cancelling"} \cup Terminal

\* A fine world with one task changed as it must be is fine.
LEMMA OneFine ==
  ASSUME NEW W, Fine(W), NEW t \in Rows(W), NEW row \in Task, NEW k \in Call, NEW a \in Attempts,
         Fits(W, t, row, k, a), NEW V \in World,
         V.tasks = [W.tasks EXCEPT ![t] = row], V.call = [W.call EXCEPT ![t] = k],
         V.attempt = [W.attempt EXCEPT ![t] = a], Queued(V)
  PROVE  Fine(V) /\ Len(V.tasks) = Len(W.tasks) /\ Rows(V) = Rows(W)
<1>1. /\ W \in World /\ t \in Ids /\ W.tasks \in Seq(Task) /\ t \in 1..Len(W.tasks)
      /\ W.call \in [Ids -> Call] /\ W.attempt \in [Ids -> Attempts]
  BY RowsOf, WorldFields DEF Rows
<1>2. /\ Len(V.tasks) = Len(W.tasks)
      /\ \A u \in Rows(W) : V.tasks[u] = IF u = t THEN row ELSE W.tasks[u]
  BY <1>1, ExceptSeq DEF Rows
<1>3. Rows(V) = Rows(W)
  BY <1>2 DEF Rows
<1>4. /\ \A u \in Ids : V.call[u] = IF u = t THEN k ELSE W.call[u]
      /\ \A u \in Ids : V.attempt[u] = IF u = t THEN a ELSE W.attempt[u]
  BY <1>1
<1>5. ASSUME NEW u \in Rows(W)
      PROVE  /\ V.tasks[u].parent = W.tasks[u].parent /\ V.tasks[u].root = W.tasks[u].root
             /\ V.tasks[u].wait.ids \subseteq Children(W, u)
  <2>1. CASE u = t
    BY <2>1, <1>2 DEF Fits
  <2>2. CASE u # t
    BY <2>2, <1>2, RowsOf
  <2> QED BY <2>1, <2>2
<1>6. ASSUME NEW u PROVE Children(V, u) = Children(W, u)
  BY <1>3, <1>5 DEF Children
<1>7. Tree(V)
  <2>1. ASSUME NEW u \in Rows(W)
        PROVE  LET r == V.tasks[u] IN
               /\ r.parent < u
               /\ r.parent = 0 => r.root = u
               /\ r.parent # 0 => r.root = V.tasks[r.parent].root
               /\ r.wait.ids \subseteq Children(V, u)
    <3>1. /\ W.tasks[u].parent < u
          /\ W.tasks[u].parent = 0 => W.tasks[u].root = u
          /\ W.tasks[u].parent # 0 => /\ W.tasks[u].parent \in Rows(W)
                                      /\ W.tasks[u].root = W.tasks[W.tasks[u].parent].root
      BY RowsOf
    <3>2. W.tasks[u].parent # 0 => V.tasks[W.tasks[u].parent].root = W.tasks[u].root
      BY <3>1, <1>5
    <3>3. V.tasks[u].wait.ids \subseteq Children(V, u)
      BY <1>5, <1>6
    <3> QED BY <3>1, <3>2, <3>3, <1>5
  <2> QED BY <2>1, <1>3 DEF Tree
<1>8. ASSUME NEW u \in Rows(V) PROVE Sound(V.tasks[u], V.call[u], V.attempt[u])
  <2>1. u \in Rows(W) /\ u \in Ids
    BY <1>3, RowsOf
  <2>2. CASE u = t
    <3>1. V.tasks[u] = row /\ V.call[u] = k /\ V.attempt[u] = a
      BY <2>1, <2>2, <1>2, <1>4
    <3> QED BY <3>1 DEF Fits
  <2>3. CASE u # t
    <3>1. V.tasks[u] = W.tasks[u] /\ V.call[u] = W.call[u] /\ V.attempt[u] = W.attempt[u]
      BY <2>1, <2>3, <1>2, <1>4
    <3> QED BY <3>1, <2>1, RowsOf
  <2> QED BY <2>2, <2>3
<1>9. \A u \in Ids : u \notin Rows(V) => V.call[u].phase = "none" /\ V.attempt[u] = "none"
  BY <1>3, <1>4 DEF Fine
<1>10. Nested(V)
  <2>1. ASSUME NEW c \in Rows(W), W.tasks[c].parent # 0
        PROVE  LET p == W.tasks[c].parent IN
               /\ V.tasks[p].status \in Terminal => V.tasks[c].status \in Terminal
               /\ FenceStands /\ V.tasks[p].status = "cancelling" =>
                    V.tasks[c].status \in {"cancelling"} \cup Terminal
    <3> DEFINE p == W.tasks[c].parent
    <3>1. p \in Rows(W) /\ c \in Children(W, p) /\ p # c
      BY <2>1, RowsOf DEF Children
    <3>2. /\ W.tasks[p].status \in Terminal => W.tasks[c].status \in Terminal
          /\ FenceStands /\ W.tasks[p].status = "cancelling" =>
               W.tasks[c].status \in {"cancelling"} \cup Terminal
      BY <2>1 DEF Fine, Nested, Ended
    <3> HIDE DEF p
    <3>3. CASE c = t
      <4>1. p = W.tasks[t].parent /\ p # 0
        BY <3>3, <2>1 DEF p
      <4>2. V.tasks[c] = row /\ V.tasks[p] = W.tasks[p]
        BY <3>1, <3>3, <1>2
      <4>3. /\ Ended(W, p) => row.status \in Terminal
            /\ FenceStands /\ W.tasks[p].status = "cancelling" =>
                 row.status \in {"cancelling"} \cup Terminal
        BY <4>1 DEF Fits
      <4> QED BY <4>1, <4>2, <4>3 DEF Ended, p
    <3>4. CASE p = t
      <4>1. V.tasks[p] = row /\ V.tasks[c] = W.tasks[c] /\ c \in Children(W, t)
        BY <3>1, <3>4, <1>2
      <4>2. /\ row.status \in Terminal => Ended(W, c)
            /\ FenceStands /\ row.status = "cancelling" =>
                 W.tasks[c].status \in {"cancelling"} \cup Terminal
        BY <4>1 DEF Fits
      <4> QED BY <4>1, <4>2 DEF Ended, p
    <3>5. CASE c # t /\ p # t
      <4>1. V.tasks[p] = W.tasks[p] /\ V.tasks[c] = W.tasks[c]
        BY <3>1, <3>5, <1>2
      <4> QED BY <4>1, <3>2 DEF p
    <3> QED BY <3>3, <3>4, <3>5
  <2> QED BY <2>1, <1>3, <1>5 DEF Nested, Ended
<1>11. Len(V.tasks) <= MaxTasks
  BY <1>2 DEF Fine
<1> QED BY <1>2, <1>3, <1>7, <1>8, <1>9, <1>10, <1>11 DEF Fine

\* The ready order once the new row of t is saved.
Requeued(W, t, row) == Without(W.ready, {t}) \o (IF row.status \in Ready THEN <<t>> ELSE <<>>)

\* The worlds in which the row of t, its invocation and the attempt of its run are written: the
\* row saved, or written where it stands.
Put(W, t, row, k, a) ==
  [tasks |-> [W.tasks EXCEPT ![t] = row], ready |-> Requeued(W, t, row),
   call |-> [W.call EXCEPT ![t] = k], attempt |-> [W.attempt EXCEPT ![t] = a],
   deadlines |-> W.deadlines]

Write(W, t, row, k, a) ==
  [tasks |-> [W.tasks EXCEPT ![t] = row], ready |-> W.ready,
   call |-> [W.call EXCEPT ![t] = k], attempt |-> [W.attempt EXCEPT ![t] = a],
   deadlines |-> W.deadlines]

\* The ready order of a world whose row of t was saved.
LEMMA RequeuedElements ==
  ASSUME NEW W, Fine(W), NEW t \in Rows(W), NEW row \in Task
  PROVE  /\ Requeued(W, t, row) \in Seq(Ids)
         /\ \A x \in Ids : In(x, Requeued(W, t, row))
                            <=> IF x = t THEN row.status \in Ready ELSE In(x, W.ready)
<1> DEFINE q == Without(W.ready, {t})
<1>1. t \in Ids /\ W.ready \in Seq(Ids)
  BY RowsOf, WorldFields
<1>2. q \in Seq(Ids) /\ \A x : In(x, q) <=> x \notin {t} /\ In(x, W.ready)
  BY <1>1, WithoutElements
<1>3. Requeued(W, t, row) = q \o (IF row.status \in Ready THEN <<t>> ELSE <<>>)
  BY DEF Requeued
<1> HIDE DEF q
<1>4. CASE row.status \in Ready
  <2> DEFINE s == Append(q, t)
  <2>1. s \in Seq(Ids) /\ q \o <<t>> = s /\ \A x : In(x, s) <=> x = t \/ In(x, q)
    BY <1>1, <1>2, AppendElements
  <2> HIDE DEF s
  <2>2. Requeued(W, t, row) = s
    BY <2>1, <1>3, <1>4
  <2> QED BY <2>1, <2>2, <1>2, <1>4
<1>5. CASE row.status \notin Ready
  <2>1. q \o <<>> = q
    BY <1>2, ConcatEmptySeq
  <2>2. Requeued(W, t, row) = q
    BY <2>1, <1>3, <1>5
  <2> QED BY <2>2, <1>2, <1>5
<1> QED BY <1>4, <1>5

\* Saving a row is such a world.
LEMMA SaveIsPut ==
  ASSUME NEW W, Fine(W), NEW t \in Rows(W), NEW row \in Task
  PROVE  saveTask(W, t, row) = Put(W, t, row, W.call[t], W.attempt[t])
<1> DEFINE a == [W.tasks EXCEPT ![t] = row]
           q == Requeued(W, t, row)
           V == [W EXCEPT !.tasks = a, !.ready = q]
           P == Put(W, t, row, W.call[t], W.attempt[t])
<1>1. /\ W \in World /\ t \in Ids /\ t \in 1..Len(W.tasks) /\ W.tasks \in Seq(Task)
      /\ W.call \in [Ids -> Call] /\ W.attempt \in [Ids -> Attempts] /\ W.deadlines \in SUBSET Ids
  BY RowsOf, WorldFields DEF Rows
<1>2. [W.call EXCEPT ![t] = W.call[t]] = W.call /\ [W.attempt EXCEPT ![t] = W.attempt[t]] = W.attempt
  BY <1>1
<1>3. a \in Seq(Task) /\ q \in Seq(Ids)
  BY <1>1, ExceptSeq, RequeuedElements
<1>4. saveTask(W, t, row) = V
  BY Zenon DEF saveTask, Requeued
<1>5. P = [tasks |-> a, ready |-> q, call |-> W.call, attempt |-> W.attempt,
           deadlines |-> W.deadlines]
  BY <1>2 DEF Put
<1> HIDE DEF a, q, P
<1>6. /\ V \in World /\ V.tasks = a /\ V.ready = q
      /\ V.call = W.call /\ V.attempt = W.attempt /\ V.deadlines = W.deadlines
  <2>1. V = [W EXCEPT !.tasks = a, !.ready = q]
    OBVIOUS
  <2> HIDE DEF V
  <2>2. W \in World /\ a \in Seq(Task) /\ q \in Seq(Ids)
    BY <1>1, <1>3
  <2> QED BY <2>1, <2>2 DEF World
<1>7. P \in World
  BY <1>1, <1>3, <1>5, MadeWorld
<1>8. /\ P.tasks = a /\ P.ready = q
      /\ P.call = W.call /\ P.attempt = W.attempt /\ P.deadlines = W.deadlines
  BY <1>5
<1> HIDE DEF V
<1>9. V = P
  BY <1>6, <1>7, <1>8, SameWorld
<1> QED BY <1>4, <1>9 DEF P

\* Such worlds are fine when the row fits.
LEMMA PutFine ==
  ASSUME NEW W, Fine(W), NEW t \in Rows(W), NEW row \in Task, NEW k \in Call, NEW a \in Attempts,
         Fits(W, t, row, k, a)
  PROVE  LET V == Put(W, t, row, k, a) IN
         Fine(V) /\ Len(V.tasks) = Len(W.tasks) /\ Rows(V) = Rows(W)
<1> DEFINE V == Put(W, t, row, k, a)
           q == Requeued(W, t, row)
           T == [W.tasks EXCEPT ![t] = row]
<1>1. /\ W \in World /\ t \in Ids /\ t \in 1..Len(W.tasks)
      /\ W.tasks \in Seq(Task) /\ W.ready \in Seq(Ids) /\ W.call \in [Ids -> Call]
      /\ W.attempt \in [Ids -> Attempts] /\ W.deadlines \in SUBSET Ids
  BY RowsOf, WorldFields DEF Rows
<1>2. /\ T \in Seq(Task) /\ Len(T) = Len(W.tasks)
      /\ \A u \in 1..Len(W.tasks) : T[u] = IF u = t THEN row ELSE W.tasks[u]
  BY <1>1, ExceptSeq
<1>3. /\ q \in Seq(Ids)
      /\ \A x \in Ids : In(x, q) <=> IF x = t THEN row.status \in Ready ELSE In(x, W.ready)
  BY RequeuedElements
<1> HIDE DEF q
<1>4. /\ V.tasks = T /\ V.ready = q /\ V.call = [W.call EXCEPT ![t] = k]
      /\ V.attempt = [W.attempt EXCEPT ![t] = a] /\ V.deadlines = W.deadlines
  BY DEF Put, q
<1>5. V \in World
  <2>1. [W.call EXCEPT ![t] = k] \in [Ids -> Call] /\ [W.attempt EXCEPT ![t] = a] \in [Ids -> Attempts]
    BY <1>1
  <2> QED BY <2>1, <1>1, <1>2, <1>3, MadeWorld DEF Put, q
<1>6. Queued(V)
  <2>1. \A u \in Ids : In(u, W.ready) <=> u \in Rows(W) /\ W.tasks[u].status \in Ready
    BY DEF Fine, Queued
  <2>2. Rows(V) = Rows(W) /\ Rows(W) = 1..Len(W.tasks)
    BY <1>2, <1>4 DEF Rows
  <2> HIDE DEF V, T
  <2>3. ASSUME NEW u \in Ids
        PROVE  In(u, V.ready) <=> u \in Rows(V) /\ V.tasks[u].status \in Ready
    <3>1. In(u, V.ready) <=> IF u = t THEN row.status \in Ready ELSE In(u, W.ready)
      BY <1>3, <1>4
    <3>2. In(u, W.ready) <=> u \in Rows(W) /\ W.tasks[u].status \in Ready
      BY <2>1
    <3>3. u \in Rows(W) => V.tasks[u] = IF u = t THEN row ELSE W.tasks[u]
      BY <2>2, <1>2, <1>4
    <3> QED BY <3>1, <3>2, <3>3, <2>2
  <2> QED BY <2>3 DEF Queued
<1> HIDE DEF V, T
<1>7. Fine(V) /\ Len(V.tasks) = Len(W.tasks) /\ Rows(V) = Rows(W)
  BY <1>4, <1>5, <1>6, OneFine DEF T
<1> QED BY <1>7 DEF V

\* A row is written where it stands, and the ready order stays.
LEMMA WriteFine ==
  ASSUME NEW W, Fine(W), NEW t \in Rows(W), NEW row \in Task, NEW k \in Call, NEW a \in Attempts,
         Fits(W, t, row, k, a), row.status \in Ready <=> W.tasks[t].status \in Ready
  PROVE  LET V == Write(W, t, row, k, a) IN
         Fine(V) /\ Len(V.tasks) = Len(W.tasks) /\ Rows(V) = Rows(W)
<1> DEFINE V == Write(W, t, row, k, a)
           T == [W.tasks EXCEPT ![t] = row]
<1>1. /\ W \in World /\ t \in Ids /\ t \in 1..Len(W.tasks)
      /\ W.tasks \in Seq(Task) /\ W.ready \in Seq(Ids) /\ W.call \in [Ids -> Call]
      /\ W.attempt \in [Ids -> Attempts] /\ W.deadlines \in SUBSET Ids
  BY RowsOf, WorldFields DEF Rows
<1>2. /\ T \in Seq(Task) /\ Len(T) = Len(W.tasks)
      /\ \A u \in 1..Len(W.tasks) : T[u] = IF u = t THEN row ELSE W.tasks[u]
  BY <1>1, ExceptSeq
<1>4. /\ V.tasks = T /\ V.ready = W.ready /\ V.call = [W.call EXCEPT ![t] = k]
      /\ V.attempt = [W.attempt EXCEPT ![t] = a] /\ V.deadlines = W.deadlines
  BY DEF Write
<1>5. V \in World
  <2>1. [W.call EXCEPT ![t] = k] \in [Ids -> Call] /\ [W.attempt EXCEPT ![t] = a] \in [Ids -> Attempts]
    BY <1>1
  <2> QED BY <2>1, <1>1, <1>2, MadeWorld DEF Write
<1>6. Queued(V)
  <2>1. \A u \in Ids : In(u, W.ready) <=> u \in Rows(W) /\ W.tasks[u].status \in Ready
    BY DEF Fine, Queued
  <2>2. Rows(V) = Rows(W) /\ Rows(W) = 1..Len(W.tasks)
    BY <1>2, <1>4 DEF Rows
  <2> HIDE DEF V, T
  <2>3. ASSUME NEW u \in Ids
        PROVE  In(u, V.ready) <=> u \in Rows(V) /\ V.tasks[u].status \in Ready
    BY <2>1, <2>2, <1>2, <1>4
  <2> QED BY <2>3 DEF Queued
<1> HIDE DEF V, T
<1>7. Fine(V) /\ Len(V.tasks) = Len(W.tasks) /\ Rows(V) = Rows(W)
  BY <1>4, <1>5, <1>6, OneFine DEF T
<1> QED BY <1>7 DEF V

\* Saving a row is a step in the tree of its task.
LEMMA SaveGoes ==
  ASSUME NEW W, Fine(W), NEW t \in Rows(W), NEW row \in Task,
         Fits(W, t, row, W.call[t], W.attempt[t]), Moved(W.tasks[t], row)
  PROVE  Goes(W, saveTask(W, t, row), W.tasks[t].root)
<1> DEFINE V == Put(W, t, row, W.call[t], W.attempt[t])
           root == W.tasks[t].root
<1>1. /\ W \in World /\ t \in Ids /\ W.call \in [Ids -> Call] /\ W.attempt \in [Ids -> Attempts]
      /\ t \in 1..Len(W.tasks) /\ W.tasks \in Seq(Task)
  BY RowsOf, WorldFields DEF Rows
<1>2. saveTask(W, t, row) = V
  BY <1>1, SaveIsPut
<1>3. Fine(V) /\ Len(V.tasks) = Len(W.tasks)
  <2>1. W.call[t] \in Call /\ W.attempt[t] \in Attempts
    BY <1>1
  <2> QED BY <2>1, PutFine
<1>4. V.call = W.call /\ V.attempt = W.attempt /\ V.tasks = [W.tasks EXCEPT ![t] = row]
  BY <1>1 DEF Put
<1> HIDE DEF V
<1>5. \A u \in Rows(W) : V.tasks[u] = IF u = t THEN row ELSE W.tasks[u]
  BY <1>1, <1>4, ExceptSeq DEF Rows
<1>6. \A u \in Rows(W) : Moved(W.tasks[u], V.tasks[u])
  <2>1. ASSUME NEW u \in Rows(W), u # t PROVE Moved(W.tasks[u], W.tasks[u])
    BY DEF Moved, Terminal
  <2> QED BY <2>1, <1>5
<1>7. Inside(W, V, root)
  BY <1>5 DEF Inside
<1>8. Kept(W, V)
  BY <1>3, <1>4, <1>6 DEF Kept
<1> QED BY <1>2, <1>3, <1>7, <1>8 DEF Goes

-----------------------------------------------------------------------------
(* Subtrees are fenced.                                                     *)

\* A fenced row.
LEMMA CancelledRow ==
  ASSUME NEW r \in Task
  PROVE  LET c == Cancelled(r) IN
         /\ c \in Task
         /\ c.root = r.root /\ c.parent = r.parent /\ c.key = r.key /\ c.effect = r.effect
         /\ c.status = "cancelling" /\ c.outcome = "cancelled" /\ c.wait.ids = {}
         /\ c.run = IF r.run \in Runnable \cup Paused THEN "cancelled" ELSE r.run
<1>1. NoWait \in Wait /\ NoWait.ids = {}
  BY DEF NoWait, WaitFor, Wait
<1>2. /\ "cancelling" \in Ready \cup {"waiting", "needs_attention"} \cup Decided
      /\ "cancelled" \in Terminal \cup {"none"}
      /\ "cancelled" \in RunSettled
  BY DEF Decided, Terminal, RunSettled
<1> DEFINE c == Cancelled(r)
<1>3. /\ c.root = r.root /\ c.parent = r.parent /\ c.key = r.key /\ c.effect = r.effect
      /\ c.status = "cancelling" /\ c.outcome = "cancelled" /\ c.wait = NoWait
      /\ c.run = IF r.run \in Runnable \cup Paused THEN "cancelled" ELSE r.run
  BY DEF Cancelled, Task
<1>4. c \in Task
  BY <1>1, <1>2 DEF Cancelled, Task
<1> HIDE DEF c
<1> QED BY <1>1, <1>3, <1>4 DEF c

\* The world in which S is fenced.
LEMMA FenceIs ==
  ASSUME NEW W \in World, NEW S, NEW V, V = Fence(W, S)
  PROVE  /\ V \in World /\ Len(V.tasks) = Len(W.tasks) /\ Rows(V) = Rows(W)
         /\ \A t \in Rows(W) :
              V.tasks[t] = IF t \in S THEN Cancelled(W.tasks[t]) ELSE W.tasks[t]
         /\ V.ready = Without(W.ready, S)
         /\ V.call = W.call /\ V.attempt = W.attempt /\ V.deadlines = W.deadlines
<1> DEFINE n == Len(W.tasks)
           rows == [t \in Rows(W) |-> IF t \in S THEN Cancelled(W.tasks[t]) ELSE W.tasks[t]]
           a == SubSeq(rows, 1, n)
           q == Without(W.ready, S)
<1>1. /\ n \in Nat /\ Rows(W) = 1..n /\ W.ready \in Seq(Ids)
      /\ \A t \in Rows(W) : W.tasks[t] \in Task
  BY WorldFields DEF Rows
<1>2. rows \in [1..n -> Task]
  <2>1. \A t \in Rows(W) : Cancelled(W.tasks[t]) \in Task
    BY <1>1, CancelledRow
  <2> HIDE DEF n
  <2> QED BY <1>1, <2>1
<1>3. V = [W EXCEPT !.tasks = a, !.ready = q]
  BY DEF Fence
<1>4. \A t \in 1..n : rows[t] = IF t \in S THEN Cancelled(W.tasks[t]) ELSE W.tasks[t]
  BY <1>1
<1> HIDE DEF rows, n
<1>5. rows \in Seq(Task) /\ Len(rows) = n
  BY <1>1, <1>2
<1>6. a \in Seq(Task) /\ Len(a) = n /\ \A t \in 1..n : a[t] = rows[t]
  <2>1. \A i, j \in 1..n : i <= j =>
          /\ SubSeq(rows, i, j) \in Seq(Task) /\ Len(SubSeq(rows, i, j)) = j - i + 1
          /\ \A k \in 1..j - i + 1 : SubSeq(rows, i, j)[k] = rows[i + k - 1]
    BY <1>1, <1>5
  <2>2. CASE n = 0
    BY <1>5, <2>2
  <2>3. CASE n # 0
    <3>1. 1 \in 1..n /\ n \in 1..n /\ 1 <= n /\ n - 1 + 1 = n /\ \A k \in 1..n : 1 + k - 1 = k
      BY <1>1, <2>3
    <3> QED BY <3>1, <2>1
  <2> QED BY <2>2, <2>3
<1>7. q \in Seq(Ids)
  BY <1>1, WithoutElements
<1> HIDE DEF a, q
<1>8. /\ V \in World /\ V.tasks = a /\ V.ready = q
      /\ V.call = W.call /\ V.attempt = W.attempt /\ V.deadlines = W.deadlines
  BY <1>3, <1>6, <1>7 DEF World
<1>9. Len(V.tasks) = Len(W.tasks) /\ Rows(V) = Rows(W)
  BY <1>6, <1>8 DEF Rows, n
<1> QED BY <1>1, <1>4, <1>6, <1>8, <1>9 DEF q

\* The world in which the invocations of S are aborted.
LEMMA AbortIs ==
  ASSUME NEW W \in World, NEW S, NEW V, V = abort(W, S)
  PROVE  /\ V \in World /\ V.tasks = W.tasks /\ V.ready = W.ready
         /\ V.attempt = W.attempt /\ V.deadlines = W.deadlines
         /\ \A t \in Ids :
              /\ V.call[t].phase = W.call[t].phase
              /\ V.call[t].aborted
                   <=> W.call[t].aborted \/ (t \in S /\ W.call[t].phase # "none")
<1> DEFINE told(t) == W.call[t].aborted \/ (t \in S /\ W.call[t].phase # "none")
           c == [t \in Ids |-> [W.call[t] EXCEPT !.aborted = told(t)]]
<1>1. \A t \in Ids : W.call[t] \in Call
  BY WorldFields
<1>2. V = [W EXCEPT !.call = c]
  BY DEF abort
<1>3. ASSUME NEW t \in Ids
      PROVE  LET k == [W.call[t] EXCEPT !.aborted = told(t)] IN
             k \in Call /\ k.phase = W.call[t].phase /\ (k.aborted <=> told(t))
  <2>1. told(t) \in BOOLEAN
    BY <1>1 DEF Call
  <2> HIDE DEF told
  <2> QED BY <1>1, <2>1 DEF Call
<1>4. c \in [Ids -> Call] /\ \A t \in Ids : c[t] = [W.call[t] EXCEPT !.aborted = told(t)]
  BY <1>3
<1>5. \A t \in Ids : c[t].phase = W.call[t].phase /\ (c[t].aborted <=> told(t))
  BY <1>3, <1>4
<1> HIDE DEF c
<1>6. /\ V \in World /\ V.tasks = W.tasks /\ V.ready = W.ready /\ V.call = c
      /\ V.attempt = W.attempt /\ V.deadlines = W.deadlines
  BY <1>2, <1>4 DEF World
<1> QED BY <1>5, <1>6

\* Fencing subtrees of a fine world and aborting what runs in them is a step in their tree.
LEMMA CancelGoes ==
  ASSUME NEW W, Fine(W), NEW S, S \subseteq Rows(W), NEW root, \A t \in S : W.tasks[t].root = root
  PROVE  LET V == CancelAndAbort(W, S) IN
         /\ Goes(W, V, root)
         /\ \A t \in Rows(W) :
              V.tasks[t] = IF t \in Unfinished(W, S) THEN Cancelled(W.tasks[t]) ELSE W.tasks[t]
         /\ \A t \in S : ~Ended(W, t) => t \in Unfinished(W, S)
         /\ \A t \in Ids : V.call[t].phase = W.call[t].phase
         /\ V.attempt = W.attempt
<1> DEFINE U == Unfinished(W, S)
           F == Fence(W, U)
           V == abort(F, U)
<1>1. CancelAndAbort(W, S) = V
  BY DEF CancelAndAbort, cancelTree
<1>2. /\ W \in World /\ Len(W.tasks) <= MaxTasks /\ Tree(W) /\ Queued(W) /\ Nested(W)
      /\ \A t \in Ids : t \notin Rows(W) => W.call[t].phase = "none" /\ W.attempt[t] = "none"
  BY DEF Fine
<1>3. /\ U \subseteq Rows(W)
      /\ \A t \in Rows(W) : t \in U <=> ~Ended(W, t) /\ (t \in S \/ W.tasks[t].parent \in U)
      /\ \A t \in U : W.tasks[t].root = root
  BY UnfinishedOf
<1> HIDE DEF U
<1>4. /\ F \in World /\ Len(F.tasks) = Len(W.tasks) /\ Rows(F) = Rows(W)
      /\ \A t \in Rows(W) : F.tasks[t] = IF t \in U THEN Cancelled(W.tasks[t]) ELSE W.tasks[t]
      /\ F.ready = Without(W.ready, U)
      /\ F.call = W.call /\ F.attempt = W.attempt /\ F.deadlines = W.deadlines
  BY <1>2, FenceIs
<1> HIDE DEF F
<1>5. /\ V \in World /\ V.tasks = F.tasks /\ V.ready = F.ready
      /\ V.attempt = F.attempt /\ V.deadlines = F.deadlines
      /\ \A t \in Ids :
           /\ V.call[t].phase = F.call[t].phase
           /\ V.call[t].aborted <=> F.call[t].aborted \/ (t \in U /\ F.call[t].phase # "none")
  BY <1>4, AbortIs
<1> HIDE DEF V
<1>6. /\ Len(V.tasks) = Len(W.tasks) /\ Rows(V) = Rows(W)
      /\ \A t \in Rows(W) : V.tasks[t] = IF t \in U THEN Cancelled(W.tasks[t]) ELSE W.tasks[t]
      /\ V.attempt = W.attempt
      /\ \A t \in Ids :
           /\ V.call[t].phase = W.call[t].phase
           /\ V.call[t].aborted <=> W.call[t].aborted \/ (t \in U /\ W.call[t].phase # "none")
  BY <1>4, <1>5 DEF Rows
<1>7. ASSUME NEW t \in Rows(W)
      PROVE  /\ V.tasks[t].parent = W.tasks[t].parent /\ V.tasks[t].root = W.tasks[t].root
             /\ V.tasks[t].wait.ids \subseteq Children(W, t)
             /\ Moved(W.tasks[t], V.tasks[t])
             /\ t \in U => V.tasks[t].status = "cancelling"
             /\ t \notin U => V.tasks[t] = W.tasks[t]
  <2>1. CASE t \in U
    <3>1. V.tasks[t] = Cancelled(W.tasks[t]) /\ W.tasks[t] \in Task /\ ~Ended(W, t)
      BY <2>1, <1>3, <1>6, RowsOf
    <3>2. /\ V.tasks[t].root = W.tasks[t].root /\ V.tasks[t].parent = W.tasks[t].parent
          /\ V.tasks[t].key = W.tasks[t].key /\ V.tasks[t].effect = W.tasks[t].effect
          /\ V.tasks[t].status = "cancelling" /\ V.tasks[t].wait.ids = {}
      BY <3>1, CancelledRow
    <3> QED BY <2>1, <3>1, <3>2 DEF Moved, Ended
  <2>2. CASE t \notin U
    <3>1. V.tasks[t] = W.tasks[t] /\ W.tasks[t].wait.ids \subseteq Children(W, t)
      BY <2>2, <1>6, RowsOf
    <3> QED BY <2>2, <3>1 DEF Moved, Terminal
  <2> QED BY <2>1, <2>2
<1>8. \A t : Children(V, t) = Children(W, t)
  BY <1>6, <1>7 DEF Children
<1>9. Tree(V)
  <2>1. ASSUME NEW u \in Rows(W)
        PROVE  LET r == V.tasks[u] IN
               /\ r.parent < u
               /\ r.parent = 0 => r.root = u
               /\ r.parent # 0 => r.root = V.tasks[r.parent].root
               /\ r.wait.ids \subseteq Children(V, u)
    <3>1. /\ W.tasks[u].parent < u
          /\ W.tasks[u].parent = 0 => W.tasks[u].root = u
          /\ W.tasks[u].parent # 0 => /\ W.tasks[u].parent \in Rows(W)
                                      /\ W.tasks[u].root = W.tasks[W.tasks[u].parent].root
      BY RowsOf
    <3>2. W.tasks[u].parent # 0 => V.tasks[W.tasks[u].parent].root = W.tasks[u].root
      BY <3>1, <1>7
    <3>3. V.tasks[u].wait.ids \subseteq Children(V, u)
      BY <1>7, <1>8
    <3> QED BY <3>1, <3>2, <3>3, <1>7
  <2> QED BY <2>1, <1>6 DEF Tree
<1>10. Queued(V)
  <2>1. ASSUME NEW t \in Ids
        PROVE  In(t, V.ready) <=> t \in Rows(V) /\ V.tasks[t].status \in Ready
    <3>1. In(t, Without(W.ready, U)) <=> t \notin U /\ In(t, W.ready)
      BY <1>2, WorldFields, WithoutElements
    <3>2. In(t, W.ready) <=> t \in Rows(W) /\ W.tasks[t].status \in Ready
      BY <1>2 DEF Queued
    <3>3. V.ready = Without(W.ready, U) /\ Rows(V) = Rows(W)
      BY <1>4, <1>5, <1>6
    <3> QED BY <3>1, <3>2, <3>3, <1>3, <1>7 DEF Ready
  <2> QED BY <2>1 DEF Queued
<1>11. ASSUME NEW t \in Rows(V) PROVE Sound(V.tasks[t], V.call[t], V.attempt[t])
  <2> DEFINE r == W.tasks[t]
             k == W.call[t]
             a == W.attempt[t]
             l == V.call[t]
             s == V.tasks[t]
  <2>1. t \in Rows(W) /\ t \in Ids /\ r \in Task /\ Sound(r, k, a)
    BY <1>6, RowsOf
  <2>2. l.phase = k.phase /\ V.attempt[t] = a /\ (k.aborted => l.aborted)
        /\ (t \in U /\ k.phase # "none" => l.aborted)
    BY <2>1, <1>6
  <2>3. CASE t \notin U
    <3>1. s = r
      BY <2>1, <2>3, <1>6
    <3> HIDE DEF r, k, a, l, s
    <3>2. Sound(s, l, a)
      BY <3>1, <2>1, <2>2 DEF Sound
    <3> QED BY <3>2, <2>2 DEF s, l
  <2>4. CASE t \in U
    <3>1. s = Cancelled(r) /\ r.status \notin Terminal
      BY <2>1, <2>4, <1>3, <1>6 DEF Ended
    <3>2. /\ s.key = r.key /\ s.status = "cancelling" /\ s.outcome = "cancelled"
          /\ s.run = IF r.run \in Runnable \cup Paused THEN "cancelled" ELSE r.run
      BY <3>1, <2>1, CancelledRow
    <3>3. r.run \in Runs
      BY <2>1, RowFields
    <3> HIDE DEF r, k, a, l, s
    <3>4. /\ s.run # "none" => r.run # "none"
          /\ s.run # "none" => s.run \in RunSettled
          /\ r.run # "none" => s.run # "none"
      BY <3>2, <3>3 DEF Runs, RunSettled, Runnable, Paused
    <3>5. /\ r.run # "none" => r.key \in AgentKeys /\ k.phase = "none"
          /\ a # "none" => r.run # "none"
      BY <2>1 DEF Sound
    <3>6. l.phase \in {"launched", "executing"} => l.aborted
      BY <2>2, <2>4
    <3>7. Sound(s, l, a)
      BY <3>2, <3>4, <3>5, <3>6, <2>2 DEF Sound, Terminal, Decided
    <3> QED BY <3>7, <2>2 DEF s, l
  <2> QED BY <2>3, <2>4
<1>12. Nested(V)
  <2>1. ASSUME NEW c \in Rows(W), W.tasks[c].parent # 0
        PROVE  LET p == W.tasks[c].parent IN
               /\ V.tasks[p].status \in Terminal => V.tasks[c].status \in Terminal
               /\ FenceStands /\ V.tasks[p].status = "cancelling" =>
                    V.tasks[c].status \in {"cancelling"} \cup Terminal
    <3> DEFINE p == W.tasks[c].parent
    <3>1. p \in Rows(W)
      BY <2>1, RowsOf
    <3>2. /\ Ended(W, p) => Ended(W, c)
          /\ FenceStands /\ W.tasks[p].status = "cancelling" =>
               W.tasks[c].status \in {"cancelling"} \cup Terminal
      BY <2>1, <1>2 DEF Nested
    <3>3. c \in U <=> ~Ended(W, c) /\ (c \in S \/ p \in U)
      BY <1>3
    <3>4. p \in U => V.tasks[p].status = "cancelling"
      BY <3>1, <1>7
    <3>5. p \notin U => V.tasks[p] = W.tasks[p]
      BY <3>1, <1>7
    <3>6. c \in U => V.tasks[c].status = "cancelling"
      BY <1>7
    <3>7. c \notin U => V.tasks[c] = W.tasks[c]
      BY <1>7
    <3> HIDE DEF p
    <3>8. V.tasks[p].status \in Terminal => V.tasks[c].status \in Terminal
      BY <3>2, <3>3, <3>4, <3>5, <3>7 DEF Ended, Terminal
    <3>9. FenceStands /\ V.tasks[p].status = "cancelling" =>
            V.tasks[c].status \in {"cancelling"} \cup Terminal
      BY <3>2, <3>3, <3>5, <3>6, <3>7 DEF Ended
    <3> QED BY <3>8, <3>9 DEF p
  <2> QED BY <2>1, <1>6, <1>7 DEF Nested, Ended
<1>13. Fine(V)
  <2>1. \A t \in Ids : t \notin Rows(V) => V.call[t].phase = "none" /\ V.attempt[t] = "none"
    BY <1>2, <1>6
  <2> QED BY <2>1, <1>2, <1>5, <1>6, <1>9, <1>10, <1>11, <1>12 DEF Fine
<1>14. Kept(W, V)
  BY <1>6, <1>7 DEF Kept
<1>15. Inside(W, V, root)
  BY <1>3, <1>7 DEF Inside
<1>16. Goes(W, V, root)
  BY <1>13, <1>14, <1>15 DEF Goes
<1>17. \A t \in S : ~Ended(W, t) => t \in U
  BY <1>3
<1> QED BY <1>1, <1>6, <1>16, <1>17 DEF U

-----------------------------------------------------------------------------
(* The steps of reconcile().                                                *)

\* Above a task that is neither fenced nor over, nothing is fenced or over.
LEMMA OpenParent ==
  ASSUME NEW W, Fine(W), NEW t \in Rows(W), W.tasks[t].status \notin {"cancelling"} \cup Terminal,
         NEW p, p = W.tasks[t].parent, p # 0
  PROVE  ~Ended(W, p) /\ ~(FenceStands /\ W.tasks[p].status = "cancelling")
BY DEF Fine, Nested, Ended

\* A row for a task that is neither fenced nor over, and does not end yet.
LEMMA FitsOpen ==
  ASSUME NEW W, Fine(W), NEW t \in Rows(W), W.tasks[t].status \notin {"cancelling"} \cup Terminal,
         NEW row, NEW k, NEW a, Sound(row, k, a), row.status \notin Terminal,
         row.parent = W.tasks[t].parent, row.root = W.tasks[t].root, row.key = W.tasks[t].key,
         row.wait.ids \subseteq Children(W, t),
         row.status = "cancelling" =>
           \A c \in Children(W, t) : W.tasks[c].status \in {"cancelling"} \cup Terminal
  PROVE  Fits(W, t, row, k, a)
<1> DEFINE p == W.tasks[t].parent
<1>1. p # 0 => ~Ended(W, p) /\ ~(FenceStands /\ W.tasks[p].status = "cancelling")
  BY OpenParent
<1> QED BY <1>1 DEF Fits

\* The first unsuccessful child cancels the others.
LEMMA FailFastGoes ==
  ASSUME NEW W, Fine(W), NEW t \in Rows(W)
  PROVE  Goes(W, FailFast(W, t), W.tasks[t].root)
<1> DEFINE S == {c \in W.tasks[t].wait.ids : W.tasks[c].status # "cancelling"}
           root == W.tasks[t].root
<1>1. S \subseteq Children(W, t) /\ Children(W, t) \subseteq Rows(W)
  BY RowsOf
<1>2. ASSUME NEW c \in S PROVE W.tasks[c].root = root
  <2>1. c \in Rows(W) /\ W.tasks[c].parent = t
    BY <1>1 DEF Children
  <2>2. W.tasks[c].parent # 0
    BY <2>1, RowsOf
  <2> QED BY <2>1, <2>2, RowsOf
<1> HIDE DEF S
<1>3. Goes(W, CancelAndAbort(W, S), root)
  <2>1. S \subseteq Rows(W) /\ \A c \in S : W.tasks[c].root = root
    BY <1>1, <1>2
  <2> HIDE DEF root
  <2> QED BY <2>1, CancelGoes
<1>4. Goes(W, W, root)
  BY GoesSelf
<1>5. FailFast(W, t) = CancelAndAbort(W, S) \/ FailFast(W, t) = W
  BY DEF FailFast, S
<1> QED BY <1>3, <1>4, <1>5

\* A waiting task learns what it waits for.
LEMMA WokenGoes ==
  ASSUME NEW W, Fine(W), NEW t \in Rows(W)
  PROVE  Goes(W, Woken(W, t), W.tasks[t].root)
<1> DEFINE r == W.tasks[t]
           k == W.call[t]
           a == W.attempt[t]
<1>1. /\ r \in Task /\ Sound(r, k, a) /\ r.status \in Statuses /\ r.run \in Runs
      /\ t \in Ids /\ r.root \in Ids
  BY RowsOf, RowFields
<1>2. CASE r.status # "waiting"
  <2>1. Woken(W, t) = W
    BY <1>2 DEF Woken
  <2> QED BY <2>1, GoesSelf
<1>3. CASE r.status = "waiting" /\ WaitOver(W, t)
  <2> DEFINE s == [r EXCEPT !.status = "pending", !.wait = NoWait]
  <2>1. Woken(W, t) = saveTask(W, t, s)
    BY <1>3 DEF Woken
  <2>2. /\ s.status = "pending" /\ s.parent = r.parent /\ s.root = r.root /\ s.key = r.key
        /\ s.effect = r.effect /\ s.run = r.run /\ s.wait = NoWait
    BY <1>1 DEF Task
  <2>3. NoWait \in Wait /\ NoWait.ids = {}
    BY DEF NoWait, WaitFor, Wait
  <2>4. s \in Task
    BY <1>1, <2>3 DEF Task, Ready
  <2>5. r.wait.kind # "agent"
    BY <1>3 DEF WaitOver
  <2> HIDE DEF r, k, a, s
  <2>6. r.run = "none" /\ a = "none"
    BY <1>1, <1>3, <2>5 DEF Sound
  <2>7. Sound(s, k, a)
    BY <2>2, <2>6 DEF Sound, Terminal
  <2>8. r.status \notin {"cancelling"} \cup Terminal /\ s.status \notin Terminal
        /\ s.status # "cancelling"
    BY <1>3, <2>2 DEF Terminal
  <2>9. Fits(W, t, s, k, a)
    BY <2>2, <2>3, <2>7, <2>8, FitsOpen DEF r
  <2>10. Moved(r, s)
    BY <2>2, <2>8 DEF Moved
  <2> QED BY <2>1, <2>4, <2>9, <2>10, SaveGoes DEF r, k, a
<1>4. CASE r.status = "waiting" /\ ~WaitOver(W, t) /\ RunEnded(r)
  <2> DEFINE s == [r EXCEPT !.status = "completing", !.wait = NoWait, !.outcome = r.run]
  <2>1. Woken(W, t) = saveTask(W, t, s)
    BY <1>4 DEF Woken
  <2>2. /\ s.status = "completing" /\ s.parent = r.parent /\ s.root = r.root /\ s.key = r.key
        /\ s.effect = r.effect /\ s.run = r.run /\ s.wait = NoWait /\ s.outcome = r.run
    BY <1>1 DEF Task
  <2>3. NoWait \in Wait /\ NoWait.ids = {}
    BY DEF NoWait, WaitFor, Wait
  <2>4. r.run \in RunSettled /\ RunSettled = Terminal
    BY <1>4 DEF RunEnded, RunSettled, Terminal
  <2>5. s \in Task
    BY <1>1, <2>3, <2>4 DEF Task, Decided
  <2> HIDE DEF r, k, a, s
  <2>6. ~(RunsFollow /\ a = "executing")
    BY <1>1, <1>4, <2>4 DEF Sound, RunSettled
  <2>7. Sound(s, k, a)
    BY <1>1, <2>2, <2>4, <2>6 DEF Sound, Terminal, Decided
  <2>8. r.status \notin {"cancelling"} \cup Terminal /\ s.status \notin Terminal
        /\ s.status # "cancelling"
    BY <1>4, <2>2 DEF Terminal
  <2>9. Fits(W, t, s, k, a)
    BY <2>2, <2>3, <2>7, <2>8, FitsOpen DEF r
  <2>10. Moved(r, s)
    BY <2>2, <2>8 DEF Moved
  <2> QED BY <2>1, <2>5, <2>9, <2>10, SaveGoes DEF r, k, a
<1>5. CASE r.status = "waiting" /\ ~WaitOver(W, t) /\ ~RunEnded(r)
  <2>1. Woken(W, t) = FailFast(W, t)
    BY <1>5 DEF Woken
  <2> QED BY <2>1, FailFastGoes
<1> QED BY <1>2, <1>3, <1>4, <1>5

\* A task ends after all it owns.
LEMMA SettleGoes ==
  ASSUME NEW W, Fine(W), NEW t \in Rows(W)
  PROVE  Goes(W, SettleTask(W, t), W.tasks[t].root)
<1> DEFINE r == W.tasks[t]
           k == W.call[t]
           a == W.attempt[t]
<1>1. /\ r \in Task /\ Sound(r, k, a) /\ r.status \in Statuses /\ r.run \in Runs
      /\ r.wait.ids \subseteq Children(W, t)
  BY RowsOf, RowFields
<1>2. CASE ~Settleable(W, t)
  <2>1. SettleTask(W, t) = W
    BY <1>2 DEF SettleTask
  <2> QED BY <2>1, GoesSelf
<1>3. CASE Settleable(W, t)
  <2> DEFINE s == [r EXCEPT !.status = r.outcome]
  <2>1. SettleTask(W, t) = saveTask(W, t, s)
    BY <1>3 DEF SettleTask
  <2>2. /\ r.status \in {"completing", "cancelling"} /\ k.phase = "none" /\ a = "none"
        /\ \A c \in Children(W, t) : Ended(W, c)
    BY <1>3 DEF Settleable
  <2>3. /\ s.status = r.outcome /\ s.parent = r.parent /\ s.root = r.root /\ s.key = r.key
        /\ s.effect = r.effect /\ s.run = r.run /\ s.wait = r.wait /\ s.outcome = r.outcome
    BY <1>1 DEF Task
  <2>4. /\ r.outcome \in Terminal
        /\ r.status = "cancelling" => r.outcome \in {"failed", "cancelled"}
    <3> HIDE DEF r, k, a
    <3> QED BY <1>1, <2>2 DEF Sound, Terminal
  <2>5. s \in Task
    BY <1>1, <2>4 DEF Task, Decided
  <2> HIDE DEF r, k, a, s
  <2>6. Sound(s, k, a)
    BY <1>1, <2>2, <2>3, <2>4 DEF Sound, Terminal, Decided
  <2>7. r.status \notin Terminal
    BY <2>2 DEF Terminal
  <2>8. Fits(W, t, s, k, a)
    <3>1. /\ s.parent = r.parent /\ s.root = r.root /\ s.key = r.key
          /\ s.wait.ids \subseteq Children(W, t) /\ s.status \in Terminal
          /\ s.status # "cancelling"
      BY <1>1, <2>3, <2>4 DEF Terminal
    <3> QED BY <3>1, <2>2, <2>6 DEF Fits, r
  <2>9. Moved(r, s)
    BY <2>3, <2>4, <2>7 DEF Moved
  <2> QED BY <2>1, <2>5, <2>8, <2>9, SaveGoes DEF r, k, a
<1> QED BY <1>2, <1>3

\* One task of a tree is reconciled.
LEMMA TaskGoes ==
  ASSUME NEW W, Fine(W), NEW root, NEW t
  PROVE  Goes(W, reconcileTask(W, root, t), root)
<1>1. CASE t \notin InTree(W, root)
  <2>1. reconcileTask(W, root, t) = W
    BY <1>1 DEF reconcileTask
  <2> QED BY <2>1, GoesSelf
<1>2. CASE t \in InTree(W, root)
  <2> DEFINE V == Woken(W, t)
  <2>1. t \in Rows(W) /\ W.tasks[t].root = root
    BY <1>2 DEF InTree
  <2>2. reconcileTask(W, root, t) = SettleTask(V, t)
    BY <1>2 DEF reconcileTask
  <2>3. Goes(W, V, root)
    BY <2>1, WokenGoes
  <2> HIDE DEF V
  <2>4. Fine(V) /\ t \in Rows(V) /\ V.tasks[t].root = root
    BY <2>1, <2>3 DEF Goes, Kept, Rows, Moved
  <2>5. Goes(V, SettleTask(V, t), root)
    BY <2>4, SettleGoes
  <2> QED BY <2>2, <2>3, <2>5, GoesTwice
<1> QED BY <1>1, <1>2

-----------------------------------------------------------------------------
(* reconcile() and pump().                                                  *)

\* The worlds of one pass over a tree: after its first k steps of n.
Passes(W, root, n) ==
  CHOOSE after : after = [k \in 0..n |->
    IF k = 0 THEN W ELSE reconcileTask(after[k - 1], root, Len(W.tasks) + 1 - k)]

HavePasses(W, root, n) ==
  \E after : after = [k \in 0..n |->
    IF k = 0 THEN W ELSE reconcileTask(after[k - 1], root, Len(W.tasks) + 1 - k)]

\* One more.
LEMMA PassesNext ==
  ASSUME NEW W, NEW root, NEW n \in Nat, HavePasses(W, root, n)
  PROVE  HavePasses(W, root, n + 1)
<1> DEFINE step(V, k) == reconcileTask(V, root, Len(W.tasks) + 1 - k)
<1>1. PICK f : f = [k \in 0..n |-> IF k = 0 THEN W ELSE step(f[k - 1], k)]
  BY DEF HavePasses
<1> HIDE DEF step
<1> DEFINE g == [k \in 0..n + 1 |-> IF k <= n THEN f[k] ELSE step(f[k - 1], k)]
<1>2. \A k \in 0..n : f[k] = IF k = 0 THEN W ELSE step(f[k - 1], k)
  BY <1>1
<1>3. \A k \in 0..n : g[k] = f[k]
  OBVIOUS
<1>4. ASSUME NEW k \in 0..n + 1
      PROVE  g[k] = IF k = 0 THEN W ELSE step(g[k - 1], k)
  <2>1. CASE k = 0
    <3>1. 0 \in 0..n
      OBVIOUS
    <3>2. g[k] = f[k] /\ f[k] = W
      BY <2>1, <3>1, <1>2, <1>3
    <3> HIDE DEF g
    <3> QED BY <2>1, <3>2
  <2>2. CASE k # 0 /\ k <= n
    <3>1. k - 1 \in 0..n /\ k \in 0..n
      BY <2>2
    <3> QED BY <2>2, <3>1, <1>2, <1>3
  <2>3. CASE k = n + 1
    <3>1. k - 1 \in 0..n /\ ~(k <= n) /\ k # 0
      BY <2>3
    <3> QED BY <3>1, <1>3
  <2> QED BY <2>1, <2>2, <2>3
<1>5. g = [k \in 0..n + 1 |-> IF k = 0 THEN W ELSE step(g[k - 1], k)]
  BY <1>4
<1> QED BY <1>5 DEF HavePasses, step

\* As many as are asked for.
LEMMA PassesAll == ASSUME NEW W, NEW root PROVE \A n \in Nat : HavePasses(W, root, n)
<1> DEFINE Missing == {n \in Nat : ~HavePasses(W, root, n)}
<1>1. SUFFICES ASSUME Missing # {} PROVE FALSE
  OBVIOUS
<1>2. PICK x \in Missing : \A y \in Missing : x <= y
  BY <1>1, Least
<1>3. HavePasses(W, root, 0)
  <2> DEFINE g == [k \in 0..0 |-> W]
  <2>1. g = [k \in 0..0 |->
               IF k = 0 THEN W ELSE reconcileTask(g[k - 1], root, Len(W.tasks) + 1 - k)]
    OBVIOUS
  <2> QED BY <2>1 DEF HavePasses
<1>4. x \in Nat \ {0}
  BY <1>3
<1>5. x - 1 \in Nat /\ x - 1 \notin Missing
  BY <1>2, <1>4
<1>6. HavePasses(W, root, (x - 1) + 1)
  BY <1>5, PassesNext
<1> QED BY <1>6, <1>4

\* One pass over a tree is a step in it.
LEMMA TreeGoes ==
  ASSUME NEW W, Fine(W), NEW root
  PROVE  Goes(W, reconcileTree(W, root), root)
<1> DEFINE n == Len(W.tasks)
           f == Passes(W, root, n)
           Wrong == {k \in 0..n : ~Goes(W, f[k], root)}
<1>1. n \in Nat
  BY WorldFields DEF Fine
<1>2. HavePasses(W, root, n)
  BY <1>1, PassesAll
<1>3. \E after : after = [k \in 0..n |->
        IF k = 0 THEN W ELSE reconcileTask(after[k - 1], root, Len(W.tasks) + 1 - k)]
  BY <1>2 DEF HavePasses
<1>4. f = [k \in 0..n |->
        IF k = 0 THEN W ELSE reconcileTask(f[k - 1], root, Len(W.tasks) + 1 - k)]
  BY <1>3, Zenon DEF Passes
<1>5. reconcileTree(W, root) = f[n]
  BY Zenon DEF reconcileTree, Passes
<1> HIDE DEF f
<1>6. f[0] = W /\ \A k \in 1..n : f[k] = reconcileTask(f[k - 1], root, Len(W.tasks) + 1 - k)
  <2> DEFINE step(V, k) == reconcileTask(V, root, Len(W.tasks) + 1 - k)
  <2>1. f = [k \in 0..n |-> IF k = 0 THEN W ELSE step(f[k - 1], k)]
    BY <1>4
  <2> HIDE DEF step, n
  <2>2. f[0] = W
    BY <2>1, <1>1
  <2>3. ASSUME NEW k \in 1..n PROVE f[k] = step(f[k - 1], k)
    <3>1. k \in 0..n /\ k # 0
      BY <1>1
    <3> QED BY <3>1, <2>1
  <2> QED BY <2>2, <2>3 DEF step
<1>7. SUFFICES ASSUME Wrong # {} PROVE FALSE
  <2>1. Wrong = {} => Goes(W, f[n], root)
    BY <1>1
  <2> QED BY <2>1, <1>5
<1>8. PICK x \in Wrong : \A y \in Wrong : x <= y
  <2>1. Wrong \in SUBSET Nat
    BY <1>1
  <2> HIDE DEF Wrong
  <2> QED BY <2>1, <1>7, Least
<1>9. Goes(W, f[0], root)
  BY <1>6, GoesSelf
<1>10. x \in 1..n /\ x - 1 \in 0..n /\ x - 1 \notin Wrong
  BY <1>1, <1>8, <1>9
<1>11. Goes(W, f[x - 1], root)
  BY <1>10
<1> DEFINE V == f[x - 1]
           t == Len(W.tasks) + 1 - x
<1>12. f[x] = reconcileTask(V, root, t)
  BY <1>6, <1>10
<1> HIDE DEF V, t
<1>13. Goes(V, reconcileTask(V, root, t), root)
  BY <1>11, TaskGoes DEF Goes, V
<1>14. Goes(W, f[x], root)
  BY <1>11, <1>12, <1>13, GoesTwice DEF V
<1> QED BY <1>8, <1>14

\* A world with the same rows, whose invocations and attempts fit them, is fine.
LEMMA SameRowsFine ==
  ASSUME NEW W, Fine(W), NEW V \in World, V.tasks = W.tasks, V.ready = W.ready,
         \A t \in Rows(W) : Sound(W.tasks[t], V.call[t], V.attempt[t]),
         \A t \in Ids : t \notin Rows(W) => V.call[t].phase = "none" /\ V.attempt[t] = "none"
  PROVE  Fine(V) /\ Rows(V) = Rows(W)
<1>1. Rows(V) = Rows(W) /\ \A t : Children(V, t) = Children(W, t)
  BY DEF Rows, Children
<1>2. Tree(V) /\ Queued(V) /\ Nested(V)
  BY <1>1 DEF Fine, Tree, Queued, Nested, Ended
<1> QED BY <1>1, <1>2 DEF Fine

\* No run is attempted whose task was cancelled.
Stray(W, t) == W.attempt[t] = "executing" /\ W.tasks[t].status = "cancelling"

\* The attempts of cancelled runs are aborted.
LEMMA SyncGoes ==
  ASSUME NEW W, Fine(W), NEW root, NEW V, V = syncAgents(W, root)
  PROVE  /\ Goes(W, V, root)
         /\ V.tasks = W.tasks /\ V.call = W.call
         /\ \A t \in Rows(W) : ~(W.tasks[t].root = root /\ Stray(V, t))
<1> DEFINE d == [t \in Ids |->
                   IF W.attempt[t] = "executing" /\ t \in InTree(W, root)
                        /\ W.tasks[t].status = "cancelling"
                     THEN "aborted" ELSE W.attempt[t]]
<1>1. /\ W \in World /\ W.attempt \in [Ids -> Attempts]
      /\ \A t \in Ids : t \notin Rows(W) => W.call[t].phase = "none" /\ W.attempt[t] = "none"
  BY WorldFields DEF Fine
<1>2. V = [W EXCEPT !.attempt = d]
  BY DEF syncAgents
<1>3. d \in [Ids -> Attempts]
  BY <1>1 DEF Attempts
<1>4. \A t \in Ids : d[t] = IF W.attempt[t] = "executing" /\ t \in InTree(W, root)
                                  /\ W.tasks[t].status = "cancelling"
                              THEN "aborted" ELSE W.attempt[t]
  OBVIOUS
<1> HIDE DEF d
<1>5. /\ V \in World /\ V.tasks = W.tasks /\ V.ready = W.ready /\ V.call = W.call
      /\ V.attempt = d /\ V.deadlines = W.deadlines
  BY <1>1, <1>2, <1>3 DEF World
<1>6. ASSUME NEW t \in Rows(W) PROVE Sound(W.tasks[t], V.call[t], V.attempt[t])
  <2>1. t \in Ids /\ Sound(W.tasks[t], W.call[t], W.attempt[t])
    BY RowsOf
  <2>2. CASE V.attempt[t] = W.attempt[t]
    BY <2>1, <2>2, <1>5
  <2>3. CASE V.attempt[t] # W.attempt[t]
    <3>1. /\ W.attempt[t] = "executing" /\ W.tasks[t].status = "cancelling"
          /\ V.attempt[t] = "aborted"
      BY <2>1, <2>3, <1>4, <1>5
    <3> QED BY <3>1, <2>1, <1>5 DEF Sound, Terminal
  <2> QED BY <2>2, <2>3
<1>7. \A t \in Ids : t \notin Rows(W) => V.call[t].phase = "none" /\ V.attempt[t] = "none"
  BY <1>1, <1>4, <1>5 DEF InTree
<1>8. Fine(V) /\ Rows(V) = Rows(W)
  BY <1>5, <1>6, <1>7, SameRowsFine
<1>9. Goes(W, V, root)
  <2>1. \A t \in Ids : V.attempt[t] = "executing" => W.attempt[t] = "executing"
    BY <1>4, <1>5
  <2>2. \A t \in Rows(W) : Moved(W.tasks[t], V.tasks[t])
    BY <1>5 DEF Moved, Terminal
  <2> QED BY <2>1, <2>2, <1>5, <1>8 DEF Goes, Kept, Inside
<1>10. ASSUME NEW t \in Rows(W), W.tasks[t].root = root PROVE ~Stray(V, t)
  <2>1. t \in InTree(W, root) /\ t \in Ids
    BY <1>10, RowsOf DEF InTree
  <2> QED BY <2>1, <1>4, <1>5 DEF Stray
<1> QED BY <1>5, <1>9, <1>10

\* A deadline is noted or forgotten.
LEMMA DeadlineGoes ==
  ASSUME NEW W, Fine(W), NEW root, NEW e \in SUBSET Ids, NEW V, V = [W EXCEPT !.deadlines = e]
  PROVE  Goes(W, V, root)
<1>1. /\ W \in World
      /\ \A t \in Ids : t \notin Rows(W) => W.call[t].phase = "none" /\ W.attempt[t] = "none"
  BY DEF Fine
<1>2. /\ V \in World /\ V.tasks = W.tasks /\ V.ready = W.ready /\ V.call = W.call
      /\ V.attempt = W.attempt
  BY <1>1 DEF World
<1>3. Fine(V)
  <2>1. \A t \in Rows(W) : Sound(W.tasks[t], V.call[t], V.attempt[t])
    BY <1>2, RowsOf
  <2> QED BY <2>1, <1>1, <1>2, SameRowsFine
<1>4. \A t \in Rows(W) : Moved(W.tasks[t], V.tasks[t])
  BY <1>2 DEF Moved, Terminal
<1> QED BY <1>2, <1>3, <1>4 DEF Goes, Kept, Inside

\* A tree is reconciled: no attempt of a cancelled run is left in it.
LEMMA ReconcileGoes ==
  ASSUME NEW W, Fine(W), NEW root \in Ids
  PROVE  /\ Goes(W, reconcile(W, root), root)
         /\ \A t \in Rows(W) :
              W.tasks[t].root = root => ~Stray(reconcile(W, root), t)
<1> DEFINE A == reconcileTree(W, root)
           B == reconcileTree(A, root)
           e == IF Timed(B, root) THEN B.deadlines \cup {root} ELSE B.deadlines \ {root}
           C == [B EXCEPT !.deadlines = e]
           V == syncAgents(C, root)
<1>1. Goes(W, A, root)
  BY TreeGoes
<1> HIDE DEF A
<1>2. Goes(A, B, root)
  BY <1>1, TreeGoes DEF Goes
<1>3. V = reconcile(W, root)
  BY DEF reconcile, A
<1> HIDE DEF B
<1>4. e \in SUBSET Ids /\ Fine(B)
  <2>1. B.deadlines \in SUBSET Ids
    BY <1>2, WorldFields DEF Goes, Fine
  <2> QED BY <2>1, <1>2 DEF Goes
<1> HIDE DEF e
<1>5. Goes(B, C, root)
  <2>1. C = [B EXCEPT !.deadlines = e]
    OBVIOUS
  <2> HIDE DEF C
  <2> QED BY <2>1, <1>4, DeadlineGoes
<1> HIDE DEF C
<1>6. Goes(W, C, root) /\ Fine(C)
  BY <1>1, <1>2, <1>5, GoesTwice DEF Goes
<1>7. /\ Goes(C, V, root)
      /\ \A t \in Rows(C) : ~(C.tasks[t].root = root /\ Stray(V, t))
  BY <1>6, SyncGoes
<1> HIDE DEF V
<1>8. ASSUME NEW t \in Rows(W), W.tasks[t].root = root PROVE ~Stray(V, t)
  <2>1. t \in Rows(C) /\ C.tasks[t].root = root
    BY <1>6, <1>8 DEF Goes, Kept, Rows, Moved
  <2> QED BY <2>1, <1>7
<1>9. Goes(W, V, root)
  BY <1>6, <1>7, GoesTwice
<1> QED BY <1>3, <1>8, <1>9

\* Free slots go to ready tasks that have no invocation.
LEMMA PumpGoes ==
  ASSUME NEW W, Fine(W), NEW V, V = pump(W)
  PROVE  /\ Fine(V) /\ V.tasks = W.tasks /\ V.attempt = W.attempt
         /\ \A root : Goes(W, V, root)
<1> DEFINE waiting == Without(W.ready, Active(W))
           free == MaxConcurrentTasks - Cardinality(Active(W))
           chosen == {waiting[i] : i \in {j \in DOMAIN waiting : j <= free}}
           k == [NoCall EXCEPT !.phase = "launched"]
           c == [t \in Ids |-> IF t \in chosen THEN k ELSE W.call[t]]
<1>1. /\ W \in World /\ W.ready \in Seq(Ids) /\ W.call \in [Ids -> Call]
      /\ \A t \in Ids : t \notin Rows(W) => W.call[t].phase = "none" /\ W.attempt[t] = "none"
      /\ Queued(W)
  BY WorldFields DEF Fine
<1>2. V = [W EXCEPT !.call = c]
  BY Zenon DEF pump
<1>3. k \in Call /\ k.phase = "launched"
  BY DEF NoCall, Call
<1>4. /\ waiting \in Seq(Ids)
      /\ \A x : In(x, waiting) <=> x \notin Active(W) /\ In(x, W.ready)
  BY <1>1, WithoutElements
<1> HIDE DEF waiting, free, k
<1>5. \A t \in chosen : In(t, waiting)
  BY DEF In
<1> HIDE DEF chosen
<1>6. ASSUME NEW t \in Ids, t \in chosen
      PROVE  t \in Rows(W) /\ W.tasks[t].status \in Ready /\ W.call[t].phase = "none"
  <2>1. t \notin Active(W) /\ In(t, W.ready)
    BY <1>4, <1>5, <1>6
  <2> QED BY <2>1, <1>1 DEF Active, Queued
<1>7. c \in [Ids -> Call] /\ \A t \in Ids : c[t] = IF t \in chosen THEN k ELSE W.call[t]
  BY <1>1, <1>3
<1> HIDE DEF c
<1>8. /\ V \in World /\ V.tasks = W.tasks /\ V.ready = W.ready /\ V.call = c
      /\ V.attempt = W.attempt /\ V.deadlines = W.deadlines
  BY <1>1, <1>2, <1>7 DEF World
<1>9. ASSUME NEW t \in Rows(W) PROVE Sound(W.tasks[t], V.call[t], V.attempt[t])
  <2>1. t \in Ids /\ Sound(W.tasks[t], W.call[t], W.attempt[t])
    BY RowsOf
  <2>2. CASE t \notin chosen
    BY <2>1, <2>2, <1>7, <1>8
  <2>3. CASE t \in chosen
    <3> DEFINE r == W.tasks[t]
               l == V.call[t]
               a == W.attempt[t]
               j == W.call[t]
    <3>1. l = k /\ V.attempt[t] = a /\ r.status \in Ready /\ Sound(r, j, a)
      BY <2>1, <2>3, <1>6, <1>7, <1>8
    <3> HIDE DEF r, l, a, j
    <3>2. r.status \notin Decided /\ r.status # "waiting"
      BY <3>1 DEF Ready, Decided, Terminal
    <3>3. r.run = "none" /\ a = "none"
      BY <3>1, <3>2 DEF Sound
    <3>4. Sound(r, l, a)
      BY <3>2, <3>3 DEF Sound, Decided
    <3> QED BY <3>1, <3>4 DEF r, l
  <2> QED BY <2>2, <2>3
<1>10. \A t \in Ids : t \notin Rows(W) => V.call[t].phase = "none" /\ V.attempt[t] = "none"
  BY <1>1, <1>6, <1>7, <1>8
<1>11. Fine(V)
  BY <1>8, <1>9, <1>10, SameRowsFine
<1>12. Kept(W, V)
  <2>1. \A t \in Ids : \/ V.call[t].phase = W.call[t].phase
                       \/ W.call[t].phase = "none" /\ V.call[t].phase = "launched"
    BY <1>3, <1>6, <1>7, <1>8
  <2>2. \A t \in Rows(W) : Moved(W.tasks[t], V.tasks[t])
    BY <1>8 DEF Moved, Terminal
  <2> QED BY <2>1, <2>2, <1>8 DEF Kept
<1>13. ASSUME NEW root PROVE Goes(W, V, root)
  BY <1>8, <1>11, <1>12 DEF Goes, Inside
<1> QED BY <1>8, <1>11, <1>13

Calm(W) == \A t \in Rows(W) : ~Stray(W, t)

\* Where one tree is calm and the others were, all is calm.
LEMMA CalmAfter ==
  ASSUME NEW W, NEW V, NEW root, Goes(W, V, root),
         \A t \in Rows(W) : W.tasks[t].root = root => ~Stray(V, t),
         \A t \in Rows(W) : W.tasks[t].root # root => ~Stray(W, t)
  PROVE  Calm(V)
<1>1. Rows(V) = Rows(W) /\ Fine(V)
  BY DEF Goes, Kept, Rows
<1>2. ASSUME NEW t \in Rows(W), W.tasks[t].root # root PROVE ~Stray(V, t)
  <2>1. V.tasks[t] = W.tasks[t] /\ t \in Ids
    BY <1>1, <1>2, RowsOf DEF Goes, Inside
  <2>2. V.attempt[t] = "executing" => W.attempt[t] = "executing"
    BY <2>1 DEF Goes, Kept
  <2> QED BY <2>1, <2>2, <1>2 DEF Stray
<1> QED BY <1>1, <1>2 DEF Calm

\* A tree is reconciled, and free slots are filled.
LEMMA ReconciledGoes ==
  ASSUME NEW W, Fine(W), NEW t \in Rows(W), NEW V, V = Reconciled(W, t),
         NEW root, root = W.tasks[t].root
  PROVE  /\ Goes(W, V, root)
         /\ (\A u \in Rows(W) : W.tasks[u].root # root => ~Stray(W, u)) => Calm(V)
<1> DEFINE R == reconcile(W, root)
<1>1. root \in Ids
  BY RowsOf
<1>2. Goes(W, R, root) /\ \A u \in Rows(W) : W.tasks[u].root = root => ~Stray(R, u)
  BY <1>1, ReconcileGoes
<1>3. V = pump(R)
  BY DEF Reconciled
<1> HIDE DEF R
<1>4. /\ Fine(V) /\ V.tasks = R.tasks /\ V.attempt = R.attempt
      /\ Goes(R, V, root)
  BY <1>2, <1>3, PumpGoes DEF Goes
<1>5. Goes(W, V, root)
  BY <1>2, <1>4, GoesTwice
<1>6. \A u \in Rows(W) : W.tasks[u].root = root => ~Stray(V, u)
  BY <1>2, <1>4 DEF Stray
<1> QED BY <1>5, <1>6, CalmAfter

-----------------------------------------------------------------------------
(* All trees are reconciled.                                                *)

\* The worlds of resume(): after the first n tasks.
Resumes(V, n) ==
  CHOOSE after : after = [t \in 0..n |->
    IF t = 0 THEN V ELSE reconcileRoot(after[t - 1], V, t)]

HaveResumes(V, n) ==
  \E after : after = [t \in 0..n |->
    IF t = 0 THEN V ELSE reconcileRoot(after[t - 1], V, t)]

\* One more.
LEMMA ResumesNext ==
  ASSUME NEW V, NEW n \in Nat, HaveResumes(V, n)
  PROVE  HaveResumes(V, n + 1)
<1>1. PICK f : f = [t \in 0..n |-> IF t = 0 THEN V ELSE reconcileRoot(f[t - 1], V, t)]
  BY DEF HaveResumes
<1> DEFINE g == [t \in 0..n + 1 |-> IF t <= n THEN f[t] ELSE reconcileRoot(f[t - 1], V, t)]
<1>2. \A t \in 0..n : f[t] = IF t = 0 THEN V ELSE reconcileRoot(f[t - 1], V, t)
  BY <1>1
<1>3. \A t \in 0..n : g[t] = f[t]
  OBVIOUS
<1>4. ASSUME NEW t \in 0..n + 1
      PROVE  g[t] = IF t = 0 THEN V ELSE reconcileRoot(g[t - 1], V, t)
  <2>1. CASE t = 0
    <3>1. 0 \in 0..n
      OBVIOUS
    <3>2. g[t] = f[t] /\ f[t] = V
      BY <2>1, <3>1, <1>2, <1>3
    <3> HIDE DEF g
    <3> QED BY <2>1, <3>2
  <2>2. CASE t # 0 /\ t <= n
    <3>1. t - 1 \in 0..n /\ t \in 0..n
      BY <2>2
    <3> QED BY <2>2, <3>1, <1>2, <1>3
  <2>3. CASE t = n + 1
    <3>1. t - 1 \in 0..n /\ ~(t <= n) /\ t # 0
      BY <2>3
    <3> QED BY <3>1, <1>3
  <2> QED BY <2>1, <2>2, <2>3
<1>5. g = [t \in 0..n + 1 |-> IF t = 0 THEN V ELSE reconcileRoot(g[t - 1], V, t)]
  BY <1>4
<1> QED BY <1>5 DEF HaveResumes

\* As many as are asked for.
LEMMA ResumesAll == ASSUME NEW V PROVE \A n \in Nat : HaveResumes(V, n)
<1> DEFINE Missing == {n \in Nat : ~HaveResumes(V, n)}
<1>1. SUFFICES ASSUME Missing # {} PROVE FALSE
  OBVIOUS
<1>2. PICK x \in Missing : \A y \in Missing : x <= y
  BY <1>1, Least
<1>3. HaveResumes(V, 0)
  <2> DEFINE g == [t \in 0..0 |-> V]
  <2>1. g = [t \in 0..0 |-> IF t = 0 THEN V ELSE reconcileRoot(g[t - 1], V, t)]
    OBVIOUS
  <2> QED BY <2>1 DEF HaveResumes
<1>4. x \in Nat \ {0}
  BY <1>3
<1>5. x - 1 \in Nat /\ x - 1 \notin Missing
  BY <1>2, <1>4
<1>6. HaveResumes(V, (x - 1) + 1)
  BY <1>5, ResumesNext
<1> QED BY <1>6, <1>4

\* What resume() does to a calm world.
Resumed(W, V) == Fine(V) /\ Kept(W, V) /\ (Calm(W) => Calm(V))

\* One more tree.
LEMMA RootResumed ==
  ASSUME NEW W, Fine(W), NEW V, Resumed(W, V), NEW t \in Rows(W)
  PROVE  Resumed(W, reconcileRoot(V, W, t))
<1>1. CASE reconcileRoot(V, W, t) = V
  BY <1>1
<1>2. CASE reconcileRoot(V, W, t) = reconcile(V, t)
  <2> DEFINE R == reconcile(V, t)
  <2>1. t \in Ids /\ Fine(V) /\ Kept(W, V)
    BY RowsOf DEF Resumed
  <2>2. Goes(V, R, t) /\ \A u \in Rows(V) : V.tasks[u].root = t => ~Stray(R, u)
    BY <2>1, ReconcileGoes
  <2> HIDE DEF R
  <2>3. Fine(R) /\ Kept(W, R)
    BY <2>1, <2>2, KeptTwice DEF Goes
  <2>4. Calm(W) => Calm(R)
    <3>1. Calm(V) => Calm(R)
      BY <2>2, CalmAfter DEF Calm
    <3> QED BY <3>1 DEF Resumed
  <2> QED BY <1>2, <2>3, <2>4 DEF Resumed, R
<1> QED BY <1>1, <1>2 DEF reconcileRoot

\* All trees.
LEMMA RootsResumed ==
  ASSUME NEW W, Fine(W)
  PROVE  Resumed(W, reconcileRoots(W))
<1> DEFINE n == Len(W.tasks)
           f == Resumes(W, n)
           Wrong == {k \in 0..n : ~Resumed(W, f[k])}
<1>1. n \in Nat /\ Rows(W) = 1..n
  BY WorldFields DEF Fine, Rows
<1>2. HaveResumes(W, n)
  BY <1>1, ResumesAll
<1>3. \E after : after = [t \in 0..n |->
        IF t = 0 THEN W ELSE reconcileRoot(after[t - 1], W, t)]
  BY <1>2 DEF HaveResumes
<1>4. f = [t \in 0..n |-> IF t = 0 THEN W ELSE reconcileRoot(f[t - 1], W, t)]
  BY <1>3, Zenon DEF Resumes
<1>5. reconcileRoots(W) = f[n]
  BY Zenon DEF reconcileRoots, Resumes
<1> HIDE DEF f
<1>6. f[0] = W /\ \A t \in 1..n : f[t] = reconcileRoot(f[t - 1], W, t)
  <2> HIDE DEF n
  <2>1. f[0] = W
    BY <1>1, <1>4
  <2>2. ASSUME NEW t \in 1..n PROVE f[t] = reconcileRoot(f[t - 1], W, t)
    <3>1. t \in 0..n /\ t # 0
      BY <1>1
    <3> QED BY <3>1, <1>4
  <2> QED BY <2>1, <2>2
<1>7. SUFFICES ASSUME Wrong # {} PROVE FALSE
  <2>1. Wrong = {} => Resumed(W, f[n])
    BY <1>1
  <2> QED BY <2>1, <1>5
<1>8. PICK x \in Wrong : \A y \in Wrong : x <= y
  <2>1. Wrong \in SUBSET Nat
    BY <1>1
  <2> HIDE DEF Wrong
  <2> QED BY <2>1, <1>7, Least
<1>9. Resumed(W, f[0])
  <2>1. Kept(W, W)
    BY DEF Kept, Moved, Terminal
  <2> QED BY <2>1, <1>6 DEF Resumed
<1>10. x \in 1..n /\ x - 1 \in 0..n /\ x - 1 \notin Wrong
  BY <1>1, <1>8, <1>9
<1>11. Resumed(W, f[x - 1])
  BY <1>10
<1> DEFINE V == f[x - 1]
<1>12. f[x] = reconcileRoot(V, W, x)
  BY <1>6, <1>10
<1>13. Resumed(W, V)
  BY <1>11
<1> HIDE DEF V
<1>14. Resumed(W, f[x])
  BY <1>1, <1>10, <1>12, <1>13, RootResumed
<1> QED BY <1>8, <1>14

-----------------------------------------------------------------------------
(* New tasks.                                                               *)

\* What a row at the end of the table must be.
FitsNew(W, row) ==
  LET id == Len(W.tasks) + 1 IN
  /\ id <= MaxTasks
  /\ row.parent = 0 => row.root = id
  /\ row.parent # 0 =>
       /\ row.parent \in Rows(W) /\ row.root = W.tasks[row.parent].root
       /\ W.tasks[row.parent].status \notin {"cancelling"} \cup Terminal
  /\ row.wait.ids = {}
  /\ \/ row.status = "pending" /\ row.run = "none"
     \/ row.status = "waiting" /\ row.key \in AgentKeys /\ row.wait.kind = "agent"

\* A fine world with such a row more.
LEMMA CreateFine ==
  ASSUME NEW W, Fine(W), NEW row \in Task, FitsNew(W, row), NEW V, V = createTask(W, row),
         NEW id, id = Len(W.tasks) + 1
  PROVE  /\ Fine(V) /\ Len(V.tasks) = id /\ Rows(W) \subseteq Rows(V)
         /\ id \in Rows(V) /\ id \notin Rows(W) /\ V.tasks[id] = row
         /\ \A t \in Rows(V) : t \in Rows(W) \/ t = id
         /\ \A t \in Rows(W) : V.tasks[t] = W.tasks[t]
         /\ V.call = W.call /\ V.attempt = W.attempt
<1> DEFINE n == Len(W.tasks)
           T == Append(W.tasks, row)
           q == IF row.status \in Ready THEN Append(W.ready, id) ELSE W.ready
<1>1. /\ W \in World /\ n \in Nat /\ W.tasks \in Seq(Task) /\ W.ready \in Seq(Ids)
      /\ Rows(W) = 1..n /\ Queued(W) /\ Nested(W)
      /\ \A t \in Ids : t \notin Rows(W) => W.call[t].phase = "none" /\ W.attempt[t] = "none"
  BY WorldFields DEF Fine, Rows
<1>2. id = n + 1 /\ id <= MaxTasks
  BY DEF FitsNew
<1>3. /\ T \in Seq(Task) /\ Len(T) = n + 1
      /\ \A t \in 1..n : T[t] = W.tasks[t]
      /\ T[n + 1] = row
  BY <1>1, AppendProperties
<1>4. V = [W EXCEPT !.tasks = T, !.ready = q]
  BY DEF createTask
<1> HIDE DEF T, n
<1>5. id \in Ids /\ 1..id = 1..n \cup {id} /\ id \notin 1..n /\ id \in Nat
  BY <1>1, <1>2, Limits DEF Ids
<1>6. q \in Seq(Ids) /\ \A t : In(t, q) <=> In(t, W.ready) \/ (t = id /\ row.status \in Ready)
  <2>1. CASE row.status \in Ready
    <3>1. /\ Append(W.ready, id) \in Seq(Ids)
          /\ \A t : In(t, Append(W.ready, id)) <=> t = id \/ In(t, W.ready)
      BY <1>1, <1>5, AppendElements
    <3> QED BY <2>1, <3>1
  <2>2. CASE row.status \notin Ready
    BY <2>2, <1>1
  <2> QED BY <2>1, <2>2
<1> HIDE DEF q
<1>7. /\ V \in World /\ V.tasks = T /\ V.ready = q /\ V.call = W.call
      /\ V.attempt = W.attempt /\ V.deadlines = W.deadlines
  BY <1>1, <1>3, <1>4, <1>6 DEF World
<1>8. /\ Len(V.tasks) = id /\ Rows(V) = Rows(W) \cup {id} /\ id \notin Rows(W)
      /\ V.tasks[id] = row /\ \A t \in Rows(W) : V.tasks[t] = W.tasks[t]
  BY <1>1, <1>2, <1>3, <1>5, <1>7 DEF Rows
<1>9. row.parent \in Nat /\ row.parent < id /\ (row.parent # 0 => row.parent \in Rows(W))
  <2>1. row.parent \in 0..MaxTasks
    BY RowFields
  <2>2. row.parent # 0 => row.parent \in 1..n
    BY <1>1 DEF FitsNew
  <2> QED BY <2>1, <2>2, <1>1, <1>2, Limits
<1>10. Tree(V)
  <2>1. ASSUME NEW u \in Rows(W)
        PROVE  LET r == V.tasks[u] IN
               /\ r.parent < u
               /\ r.parent = 0 => r.root = u
               /\ r.parent # 0 => r.root = V.tasks[r.parent].root
               /\ r.wait.ids \subseteq Children(V, u)
    <3>1. /\ W.tasks[u].parent < u
          /\ W.tasks[u].parent = 0 => W.tasks[u].root = u
          /\ W.tasks[u].parent # 0 => /\ W.tasks[u].parent \in Rows(W)
                                      /\ W.tasks[u].root = W.tasks[W.tasks[u].parent].root
          /\ W.tasks[u].wait.ids \subseteq Children(W, u)
      BY RowsOf
    <3>2. Children(W, u) \subseteq Children(V, u)
      BY <1>8 DEF Children
    <3> QED BY <3>1, <3>2, <1>8
  <2>2. LET r == V.tasks[id] IN
        /\ r.parent < id
        /\ r.parent = 0 => r.root = id
        /\ r.parent # 0 => r.root = V.tasks[r.parent].root
        /\ r.wait.ids \subseteq Children(V, id)
    <3>1. row.parent = 0 => row.root = id
      BY <1>2 DEF FitsNew, n
    <3>2. row.parent # 0 => row.root = W.tasks[row.parent].root
      BY DEF FitsNew
    <3>3. row.wait.ids = {}
      BY DEF FitsNew
    <3> QED BY <3>1, <3>2, <3>3, <1>8, <1>9
  <2> QED BY <2>1, <2>2, <1>8 DEF Tree
<1>11. Queued(V)
  <2>1. ASSUME NEW t \in Ids
        PROVE  In(t, V.ready) <=> t \in Rows(V) /\ V.tasks[t].status \in Ready
    <3>1. In(t, W.ready) <=> t \in Rows(W) /\ W.tasks[t].status \in Ready
      BY <1>1 DEF Queued
    <3>2. In(t, V.ready) <=> In(t, W.ready) \/ (t = id /\ row.status \in Ready)
      BY <1>6, <1>7
    <3> QED BY <3>1, <3>2, <1>8
  <2> QED BY <2>1 DEF Queued
<1>12. ASSUME NEW t \in Rows(V) PROVE Sound(V.tasks[t], V.call[t], V.attempt[t])
  <2>1. CASE t \in Rows(W)
    BY <2>1, <1>7, <1>8, RowsOf
  <2>2. CASE t = id
    <3>1. V.tasks[t] = row /\ V.call[t].phase = "none" /\ V.attempt[t] = "none"
      BY <2>2, <1>1, <1>5, <1>7, <1>8
    <3>2. \/ row.status = "pending" /\ row.run = "none"
          \/ row.status = "waiting" /\ row.key \in AgentKeys /\ row.wait.kind = "agent"
      BY DEF FitsNew
    <3> QED BY <3>1, <3>2 DEF Sound, Terminal, Decided
  <2> QED BY <2>1, <2>2, <1>8
<1>13. Nested(V)
  <2>1. ASSUME NEW c \in Rows(V), V.tasks[c].parent # 0
        PROVE  LET p == V.tasks[c].parent IN
               /\ V.tasks[p].status \in Terminal => V.tasks[c].status \in Terminal
               /\ FenceStands /\ V.tasks[p].status = "cancelling" =>
                    V.tasks[c].status \in {"cancelling"} \cup Terminal
    <3> DEFINE p == V.tasks[c].parent
    <3>1. CASE c \in Rows(W)
      <4>1. p = W.tasks[c].parent /\ p \in Rows(W) /\ V.tasks[p] = W.tasks[p]
            /\ V.tasks[c] = W.tasks[c]
        BY <2>1, <3>1, <1>8, RowsOf
      <4>2. /\ Ended(W, p) => Ended(W, c)
            /\ FenceStands /\ W.tasks[p].status = "cancelling" =>
                 W.tasks[c].status \in {"cancelling"} \cup Terminal
        BY <2>1, <3>1, <4>1, <1>1 DEF Nested
      <4> HIDE DEF p
      <4> QED BY <4>1, <4>2 DEF Ended, p
    <3>2. CASE c = id
      <4>1. p = row.parent /\ p \in Rows(W) /\ V.tasks[p] = W.tasks[p]
        BY <2>1, <3>2, <1>8, <1>9
      <4>2. W.tasks[p].status \notin {"cancelling"} \cup Terminal
        BY <2>1, <4>1, <3>2, <1>8 DEF FitsNew
      <4> QED BY <4>1, <4>2
    <3> QED BY <3>1, <3>2, <1>8
  <2> QED BY <2>1 DEF Nested, Ended
<1>14. Fine(V)
  <2>1. \A t \in Ids : t \notin Rows(V) => V.call[t].phase = "none" /\ V.attempt[t] = "none"
    BY <1>1, <1>7, <1>8
  <2> QED BY <2>1, <1>2, <1>7, <1>8, <1>10, <1>11, <1>12, <1>13 DEF Fine
<1> QED BY <1>7, <1>8, <1>14

-----------------------------------------------------------------------------
(* Steps of the specification.                                              *)

\* What a transaction does to the rows: they stay, an effect is not forgotten, and outcomes are
\* final.
Final(W, V) ==
  \A t \in Rows(W) :
     /\ Ended(W, t) => V.tasks[t] = W.tasks[t]
     /\ W.tasks[t].status = "cancelling" =>
          V.tasks[t].status \in {"cancelling", "failed", "cancelled"}

Follows(W, V) ==
  /\ Len(W.tasks) <= Len(V.tasks)
  /\ \A t \in Rows(W) : V.tasks[t].effect = "none" => W.tasks[t].effect = "none"
  /\ RunsFollow /\ FenceStands => Final(W, V)

\* What is kept follows.
LEMMA KeptFollows ==
  ASSUME NEW W, Fine(W), NEW V, Kept(W, V)
  PROVE  Follows(W, V)
<1>1. Len(W.tasks) \in Nat /\ Len(V.tasks) = Len(W.tasks)
  BY WorldFields DEF Fine, Kept
<1>2. \A t \in Rows(W) : Moved(W.tasks[t], V.tasks[t])
  BY DEF Kept
<1> QED BY <1>1, <1>2 DEF Follows, Final, Moved, Ended

\* One after the other.
LEMMA FollowsTwice ==
  ASSUME NEW W, Fine(W), NEW V, Fine(V), NEW U, Follows(W, V), Follows(V, U), Len(U.tasks) \in Nat
  PROVE  Follows(W, U)
<1>1. /\ Len(W.tasks) \in Nat /\ Len(V.tasks) \in Nat
      /\ Len(W.tasks) <= Len(V.tasks) /\ Len(V.tasks) <= Len(U.tasks)
  BY WorldFields DEF Fine, Follows
<1>2. Len(W.tasks) <= Len(U.tasks) /\ \A t \in Rows(W) : t \in Rows(V)
  <2> DEFINE a == Len(W.tasks)
             b == Len(V.tasks)
             c == Len(U.tasks)
  <2>1. a \in Nat /\ b \in Nat /\ c \in Nat /\ a <= b /\ b <= c /\ Rows(W) = 1..a /\ Rows(V) = 1..b
    BY <1>1 DEF Rows
  <2> HIDE DEF a, b, c
  <2>2. a <= c /\ \A t \in 1..a : t \in 1..b
    BY <2>1
  <2> QED BY <2>1, <2>2 DEF a, c
<1>3. \A t \in Rows(W) : U.tasks[t].effect = "none" => W.tasks[t].effect = "none"
  BY <1>2 DEF Follows
<1>4. ASSUME RunsFollow, FenceStands PROVE Final(W, U)
  <2>1. Final(W, V) /\ Final(V, U)
    BY <1>4 DEF Follows
  <2>2. ASSUME NEW t \in Rows(W)
        PROVE  /\ Ended(W, t) => U.tasks[t] = W.tasks[t]
               /\ W.tasks[t].status = "cancelling" =>
                    U.tasks[t].status \in {"cancelling", "failed", "cancelled"}
    <3>1. t \in Rows(V)
      BY <1>2
    <3>2. Ended(W, t) => V.tasks[t] = W.tasks[t] /\ Ended(V, t)
      BY <2>1 DEF Final, Ended
    <3>3. Ended(V, t) => U.tasks[t] = V.tasks[t]
      BY <2>1, <3>1 DEF Final
    <3>4. V.tasks[t].status = "cancelling" =>
            U.tasks[t].status \in {"cancelling", "failed", "cancelled"}
      BY <2>1, <3>1 DEF Final
    <3>5. W.tasks[t].status = "cancelling" =>
            V.tasks[t].status \in {"cancelling", "failed", "cancelled"}
      BY <2>1 DEF Final
    <3>6. V.tasks[t].status \in {"failed", "cancelled"} => Ended(V, t)
      BY DEF Ended, Terminal
    <3> QED BY <3>2, <3>3, <3>4, <3>5, <3>6
  <2> QED BY <2>2 DEF Final
<1> QED BY <1>2, <1>3, <1>4 DEF Follows

\* The current world, its fields, and the next one.
LEMMA NowFields ==
  /\ Now.tasks = tasks /\ Now.ready = ready /\ Now.call = call /\ Now.attempt = attempt
  /\ Now.deadlines = deadlines
BY DEF Now

\* After a commit the world is the one that was committed.
LEMMA Committed ==
  ASSUME NEW V \in World, Commit(V)
  PROVE  Now' = V
<1>1. V = [tasks |-> V.tasks, ready |-> V.ready, call |-> V.call, attempt |-> V.attempt,
           deadlines |-> V.deadlines]
  BY WorldIs
<1>2. /\ tasks' = V.tasks /\ ready' = V.ready /\ call' = V.call /\ attempt' = V.attempt
      /\ deadlines' = V.deadlines
  BY DEF Commit
<1>3. Now' = [tasks |-> V.tasks, ready |-> V.ready, call |-> V.call, attempt |-> V.attempt,
              deadlines |-> V.deadlines]
  BY <1>2 DEF Now
<1> QED BY <1>1, <1>3

\* What a step achieves.
Good == IInv' /\ (RunsFollow /\ FenceStands => Final(Now, Now'))

\* A transaction after which what is between transactions and the effects are in order is good.
LEMMA StepGood ==
  ASSUME IInv, NEW V, Fine(V), Commit(V), Follows(Now, V), Between', Effects',
         process' \in {"up", "closing", "down"}, resumed' \in BOOLEAN
  PROVE  Good
<1>1. V \in World
  BY DEF Fine
<1>2. Now' = V
  BY <1>1, Committed
<1>3. Fine(Now)'
  BY <1>2 DEF Fine
<1> QED BY <1>2, <1>3 DEF Good, Follows, IInv

\* The effects are in order when none is started.
LEMMA EffectsStay ==
  ASSUME IInv, NEW V, Fine(V), Commit(V), Follows(Now, V), executed' = executed
  PROVE  Effects'
<1>1. V \in World /\ Fine(Now) /\ Effects
  BY DEF IInv, Fine
<1>2. Now' = V /\ tasks' = V.tasks
  BY <1>1, Committed DEF Commit
<1>3. Rows(Now) \subseteq Rows(V)
  <2> DEFINE a == Len(Now.tasks)
             b == Len(V.tasks)
  <2>1. a \in Nat /\ b \in Nat /\ a <= b /\ Rows(Now) = 1..a /\ Rows(V) = 1..b
    BY <1>1, WorldFields DEF Fine, Follows, Rows
  <2> HIDE DEF a, b
  <2> QED BY <2>1
<1>4. \A t \in Ids : executed[t] > 0 => t \in Rows(V) /\ V.tasks[t].effect # "none"
  BY <1>1, <1>3, NowFields DEF Effects, Follows
<1> QED BY <1>1, <1>2, <1>4 DEF Effects

\* Nothing new is rejected or leaving, and no new attempt is made unless the process is up.
Quiet(W, V) ==
  /\ \A t \in Ids : V.call[t].phase \in {"rejected", "leaving"} => V.call[t].phase = W.call[t].phase
  /\ \A t \in Ids : V.attempt[t] = "executing" => W.attempt[t] = "executing" \/ process = "up"

\* What is kept is quiet.
LEMMA KeptQuiet ==
  ASSUME NEW W, NEW U, Quiet(W, U), NEW V, Kept(U, V)
  PROVE  Quiet(W, V)
BY DEF Quiet, Kept

\* Nothing changes.
LEMMA QuietSelf == ASSUME NEW W PROVE Quiet(W, W)
BY DEF Quiet

\* When no invocation is between its last transaction and its end, the world is calm.
LEMMA TurnCalm ==
  ASSUME IInv, Turn, ~MicrotaskGaps
  PROVE  Calm(Now) /\ \A t \in Ids : call[t].phase \notin {"rejected", "leaving"}
<1>1. \A t \in Ids : call[t].phase \notin {"rejected", "leaving"}
  BY DEF Turn
<1>2. ASSUME NEW t \in Rows(Now) PROVE ~Stray(Now, t)
  <2>1. t \in Ids
    BY RowsOf DEF IInv
  <2> QED BY <2>1, <1>1, NowFields DEF IInv, Between, Stray
<1> QED BY <1>1, <1>2 DEF Calm

\* A transaction that waits its turn and leaves the world calm keeps what is between.
LEMMA TurnBetween ==
  ASSUME IInv, Turn, NEW V, Fine(V), Commit(V), Quiet(Now, V), ~MicrotaskGaps => Calm(V),
         process' = process
  PROVE  Between'
<1>1. /\ call' = V.call /\ attempt' = V.attempt /\ tasks' = V.tasks
      /\ Now.call = call /\ Now.attempt = attempt
  BY NowFields DEF Commit
<1>2. ASSUME FenceStands, NEW t \in Ids, V.call[t].phase = "rejected" PROVE FALSE
  <2>1. call[t].phase = "rejected"
    BY <1>1, <1>2 DEF Quiet
  <2>2. MayExceedLimits
    BY <1>2, <2>1 DEF IInv, Between
  <2>3. ~MicrotaskGaps
    BY <1>2, <2>2 DEF FenceStands
  <2> QED BY <2>1, <2>3, TurnCalm
<1>3. ASSUME ~MicrotaskGaps
      PROVE  /\ \A t \in Ids : V.call[t].phase \notin {"rejected", "leaving"}
             /\ \A t \in Ids : ~(V.attempt[t] = "executing" /\ V.tasks[t].status = "cancelling")
  <2>1. \A t \in Ids : V.call[t].phase \notin {"rejected", "leaving"}
    BY <1>1, <1>3, TurnCalm DEF Quiet
  <2>2. ASSUME NEW t \in Ids PROVE ~(V.attempt[t] = "executing" /\ V.tasks[t].status = "cancelling")
    <3>1. CASE t \in Rows(V)
      BY <3>1, <1>3 DEF Calm, Stray
    <3>2. CASE t \notin Rows(V)
      BY <3>2 DEF Fine
    <3> QED BY <3>1, <3>2
  <2> QED BY <2>1, <2>2
<1>4. process # "up" => \A t \in Ids : V.attempt[t] # "executing"
  BY <1>1 DEF IInv, Between, Quiet
<1> QED BY <1>1, <1>2, <1>3, <1>4 DEF Between

\* It keeps the invariant when no effect is started.
LEMMA TurnGood ==
  ASSUME IInv, Turn, NEW V, Fine(V), Commit(V), Follows(Now, V), Quiet(Now, V),
         ~MicrotaskGaps => Calm(V), process' = process, executed' = executed, resumed' \in BOOLEAN
  PROVE  Good
<1>1. Between' /\ Effects'
  BY TurnBetween, EffectsStay
<1>2. process' \in {"up", "closing", "down"}
  BY DEF IInv
<1> QED BY <1>1, <1>2, StepGood

\* The same after a tree is reconciled.
LEMMA ReconciledGood ==
  ASSUME IInv, Turn, NEW W, Fine(W), Follows(Now, W), Quiet(Now, W), NEW t \in Rows(W),
         ~MicrotaskGaps =>
           \A u \in Rows(W) : W.tasks[u].root # W.tasks[t].root => ~Stray(W, u),
         Commit(Reconciled(W, t)), process' = process, executed' = executed, resumed' \in BOOLEAN
  PROVE  Good
<1> DEFINE V == Reconciled(W, t)
           root == W.tasks[t].root
<1>1. /\ Goes(W, V, root)
      /\ (\A u \in Rows(W) : W.tasks[u].root # root => ~Stray(W, u)) => Calm(V)
  BY ReconciledGoes
<1>2. Commit(V)
  OBVIOUS
<1> HIDE DEF V, root
<1>3. Fine(V) /\ Kept(W, V) /\ Fine(Now)
  BY <1>1 DEF Goes, IInv
<1>4. Quiet(Now, V)
  BY <1>3, KeptQuiet
<1>5. Follows(W, V) /\ Len(V.tasks) \in Nat
  BY <1>3, KeptFollows, WorldFields DEF Fine
<1>6. Follows(Now, V)
  BY <1>3, <1>5, FollowsTwice
<1>7. ~MicrotaskGaps => Calm(V)
  BY <1>1 DEF root
<1> QED BY <1>2, <1>3, <1>4, <1>6, <1>7, TurnGood

\* The same after free slots are filled.
LEMMA PumpedGood ==
  ASSUME IInv, Turn, NEW W, Fine(W), Follows(Now, W), Quiet(Now, W), ~MicrotaskGaps => Calm(W),
         Commit(pump(W)), process' = process, executed' = executed, resumed' \in BOOLEAN
  PROVE  Good
<1> DEFINE V == pump(W)
<1>1. /\ Fine(V) /\ V.tasks = W.tasks /\ V.attempt = W.attempt
      /\ Goes(W, V, 0)
  BY PumpGoes
<1>2. Commit(V)
  OBVIOUS
<1> HIDE DEF V
<1>3. Kept(W, V) /\ Fine(Now)
  BY <1>1 DEF Goes, IInv
<1>4. Quiet(Now, V)
  BY <1>3, KeptQuiet
<1>5. Follows(W, V) /\ Len(V.tasks) \in Nat
  BY <1>1, <1>3, KeptFollows, WorldFields DEF Fine
<1>6. Follows(Now, V)
  BY <1>1, <1>3, <1>5, FollowsTwice
<1>7. ~MicrotaskGaps => Calm(V)
  BY <1>1 DEF Calm, Stray, Rows
<1> QED BY <1>1, <1>2, <1>4, <1>6, <1>7, TurnGood

\* Nothing happens to a row.
LEMMA FollowsSelf == ASSUME NEW W, Fine(W) PROVE Follows(W, W)
<1>1. Len(W.tasks) \in Nat
  BY WorldFields DEF Fine
<1> QED BY <1>1 DEF Follows, Final

\* A row whose status, outcome, run, key and kind of wait are another's is as sound.
LEMMA SoundAlike ==
  ASSUME NEW r, NEW s, NEW k, NEW a, Sound(r, k, a), s.status = r.status, s.outcome = r.outcome,
         s.run = r.run, s.key = r.key, s.wait.kind = r.wait.kind
  PROVE  Sound(s, k, a)
BY DEF Sound

\* A row in its place fits again when its status is the same and it is sound.
LEMMA FitsAlike ==
  ASSUME NEW W, Fine(W), NEW t \in Rows(W), NEW s, NEW k, NEW a, Sound(s, k, a),
         s.status = W.tasks[t].status, s.parent = W.tasks[t].parent, s.root = W.tasks[t].root,
         s.key = W.tasks[t].key, s.wait.ids \subseteq Children(W, t)
  PROVE  Fits(W, t, s, k, a)
<1> DEFINE p == W.tasks[t].parent
<1>1. p # 0 => /\ Ended(W, p) => Ended(W, t)
               /\ FenceStands /\ W.tasks[p].status = "cancelling" =>
                    W.tasks[t].status \in {"cancelling"} \cup Terminal
  BY DEF Fine, Nested
<1>2. ASSUME NEW c \in Children(W, t)
      PROVE  /\ Ended(W, t) => Ended(W, c)
             /\ FenceStands /\ W.tasks[t].status = "cancelling" =>
                  W.tasks[c].status \in {"cancelling"} \cup Terminal
  <2>1. c \in Rows(W) /\ W.tasks[c].parent = t /\ t # 0
    BY RowsOf DEF Children
  <2> QED BY <2>1 DEF Fine, Nested
<1> QED BY <1>1, <1>2 DEF Fits, Ended

\* A row whose invocation goes on is as sound.
LEMMA SoundCall ==
  ASSUME NEW r, NEW k, NEW l, NEW a, Sound(r, k, a), k.phase # "none",
         l.phase \in {"launched", "executing"} => r.status # "cancelling" \/ l.aborted
  PROVE  Sound(r, l, a)
BY DEF Sound

\* What a step may do to a task t: its new row, invocation and attempt.
Allowed(W, t, row, k, a) ==
  /\ row \in Task /\ k \in Call /\ a \in Attempts
  /\ Fits(W, t, row, k, a)
  /\ row.effect = "none" => W.tasks[t].effect = "none"
  /\ RunsFollow /\ FenceStands =>
       /\ Ended(W, t) => row = W.tasks[t]
       /\ W.tasks[t].status = "cancelling" => row.status \in {"cancelling", "failed", "cancelled"}

\* What it has done then.
Done(W, t, row, k, a, V) ==
  /\ Fine(V) /\ Rows(V) = Rows(W) /\ Follows(W, V)
  /\ V.tasks[t] = row /\ V.call[t] = k /\ V.attempt[t] = a /\ V.deadlines = W.deadlines
  /\ \A u \in Rows(W) : u # t => V.tasks[u] = W.tasks[u]
  /\ \A u \in Ids : u # t => V.call[u] = W.call[u] /\ V.attempt[u] = W.attempt[u]

\* Nothing happens to other tasks.
LEMMA OneDone ==
  ASSUME NEW W, Fine(W), NEW t \in Rows(W), NEW row \in Task, NEW k \in Call, NEW a \in Attempts,
         Allowed(W, t, row, k, a), NEW V, V = Put(W, t, row, k, a) \/ V = Write(W, t, row, k, a),
         Fine(V), Len(V.tasks) = Len(W.tasks)
  PROVE  Done(W, t, row, k, a, V)
<1>1. /\ V.tasks = [W.tasks EXCEPT ![t] = row] /\ V.call = [W.call EXCEPT ![t] = k]
      /\ V.attempt = [W.attempt EXCEPT ![t] = a] /\ V.deadlines = W.deadlines
  BY DEF Put, Write
<1>2. /\ t \in Ids /\ W.call \in [Ids -> Call] /\ W.attempt \in [Ids -> Attempts]
      /\ DOMAIN W.tasks = Rows(W) /\ Len(W.tasks) \in Nat
      /\ \A u \in Rows(W) : u \in Ids
  BY RowsOf, WorldFields
<1>3. \A u \in Rows(W) : V.tasks[u] = IF u = t THEN row ELSE W.tasks[u]
  BY <1>1, <1>2
<1>4. /\ \A u \in Ids : V.call[u] = IF u = t THEN k ELSE W.call[u]
      /\ \A u \in Ids : V.attempt[u] = IF u = t THEN a ELSE W.attempt[u]
  BY <1>1, <1>2
<1>5. ASSUME RunsFollow, FenceStands PROVE Final(W, V)
  BY <1>3, <1>5 DEF Final, Allowed
<1>6. \A u \in Rows(W) : V.tasks[u].effect = "none" => W.tasks[u].effect = "none"
  BY <1>3 DEF Allowed
<1>7. Follows(W, V)
  BY <1>2, <1>5, <1>6 DEF Follows
<1>8. Rows(V) = Rows(W)
  BY DEF Rows
<1> QED BY <1>1, <1>2, <1>3, <1>4, <1>7, <1>8 DEF Done

\* A row is saved.
LEMMA PutDone ==
  ASSUME NEW W, Fine(W), NEW t \in Rows(W), NEW row, NEW k, NEW a, Allowed(W, t, row, k, a),
         NEW V, V = Put(W, t, row, k, a)
  PROVE  Done(W, t, row, k, a, V)
<1>1. row \in Task /\ k \in Call /\ a \in Attempts /\ Fits(W, t, row, k, a)
  BY DEF Allowed
<1>2. Fine(V) /\ Len(V.tasks) = Len(W.tasks)
  BY <1>1, PutFine
<1> QED BY <1>1, <1>2, OneDone

\* A row is written where it stands.
LEMMA WriteDone ==
  ASSUME NEW W, Fine(W), NEW t \in Rows(W), NEW row, NEW k, NEW a, Allowed(W, t, row, k, a),
         row.status \in Ready <=> W.tasks[t].status \in Ready,
         NEW V, V = Write(W, t, row, k, a)
  PROVE  Done(W, t, row, k, a, V)
<1>1. row \in Task /\ k \in Call /\ a \in Attempts /\ Fits(W, t, row, k, a)
  BY DEF Allowed
<1>2. Fine(V) /\ Len(V.tasks) = Len(W.tasks)
  BY <1>1, WriteFine
<1> QED BY <1>1, <1>2, OneDone

\* The invocation of t does not come to its end, and an attempt begins while the process is up.
Mild(t, k, a) ==
  /\ k.phase \in {"rejected", "leaving"} => k.phase = call[t].phase
  /\ a = "executing" => attempt[t] = "executing" \/ process = "up"

\* Then the step is quiet and leaves other attempts as they were.
LEMMA DoneQuiet ==
  ASSUME IInv, NEW t \in Rows(Now), NEW row, NEW k, NEW a, Mild(t, k, a), NEW W,
         Done(Now, t, row, k, a, W)
  PROVE  /\ Quiet(Now, W)
         /\ \A u \in Rows(Now) : u # t => (Stray(W, u) <=> Stray(Now, u))
<1>1. \A u \in Rows(Now) : u \in Ids
  BY RowsOf DEF IInv
<1> QED BY <1>1, NowFields DEF Done, Mild, Quiet, Stray

\* After such a step the tree is reconciled.
LEMMA DoneReconciled ==
  ASSUME IInv, Turn, NEW t \in Rows(Now), NEW row, NEW k, NEW a, Mild(t, k, a), NEW W,
         Done(Now, t, row, k, a, W), row.root = Now.tasks[t].root, Commit(Reconciled(W, t)),
         process' = process, executed' = executed, resumed' \in BOOLEAN
  PROVE  Good
<1>1. ASSUME ~MicrotaskGaps, NEW u \in Rows(W), W.tasks[u].root # W.tasks[t].root
      PROVE  ~Stray(W, u)
  <2>1. u # t /\ u \in Rows(Now)
    BY <1>1 DEF Done
  <2>2. ~Stray(Now, u)
    BY <1>1, <2>1, TurnCalm DEF Calm
  <2> QED BY <2>1, <2>2, DoneQuiet
<1>2. Fine(W) /\ Follows(Now, W) /\ Quiet(Now, W) /\ t \in Rows(W)
  BY DoneQuiet DEF Done
<1> QED BY <1>1, <1>2, ReconciledGood

\* Or free slots are filled, or nothing more is done, when no attempt is left alone.
LEMMA DoneCalm ==
  ASSUME IInv, Turn, NEW t \in Rows(Now), NEW row, NEW k, NEW a, Mild(t, k, a), NEW W,
         Done(Now, t, row, k, a, W), ~MicrotaskGaps => a # "executing" \/ row.status # "cancelling"
  PROVE  /\ Fine(W) /\ Follows(Now, W) /\ Quiet(Now, W)
         /\ ~MicrotaskGaps => Calm(W)
<1>1. ASSUME ~MicrotaskGaps, NEW u \in Rows(W) PROVE ~Stray(W, u)
  <2>1. u \in Rows(Now)
    BY DEF Done
  <2>2. CASE u = t
    BY <2>2, <1>1 DEF Done, Stray
  <2>3. CASE u # t
    <3>1. ~Stray(Now, u)
      BY <1>1, <2>1, TurnCalm DEF Calm
    <3> QED BY <2>1, <2>3, <3>1, DoneQuiet
  <2> QED BY <2>2, <2>3
<1>2. Quiet(Now, W)
  BY DoneQuiet
<1> QED BY <1>1, <1>2 DEF Done, Calm

\* A step of one tree, which is then reconciled.
LEMMA GoesGood ==
  ASSUME IInv, Turn, NEW t \in Rows(Now), NEW W, Goes(Now, W, Now.tasks[t].root),
         Commit(Reconciled(W, t)), process' = process, executed' = executed, resumed' \in BOOLEAN
  PROVE  Good
<1>1. /\ Fine(Now) /\ Fine(W) /\ Kept(Now, W) /\ Rows(W) = Rows(Now) /\ t \in Rows(W)
      /\ Inside(Now, W, Now.tasks[t].root)
  BY DEF Goes, IInv, Kept, Rows
<1>2. Follows(Now, W) /\ Quiet(Now, W)
  BY <1>1, KeptFollows, KeptQuiet, QuietSelf
<1>3. ASSUME NEW u \in Rows(W) PROVE W.tasks[u].root = Now.tasks[u].root
  BY <1>1 DEF Kept, Moved
<1>4. ASSUME ~MicrotaskGaps, NEW u \in Rows(W), W.tasks[u].root # W.tasks[t].root
      PROVE  ~Stray(W, u)
  <2>1. W.tasks[u] = Now.tasks[u] /\ u \in Ids
    BY <1>1, <1>3, <1>4, RowsOf DEF Inside
  <2>2. W.attempt[u] = "executing" => Now.attempt[u] = "executing"
    BY <1>1, <2>1 DEF Kept
  <2>3. ~Stray(Now, u)
    BY <1>1, <1>4, TurnCalm DEF Calm
  <2> QED BY <2>1, <2>2, <2>3 DEF Stray
<1> QED BY <1>1, <1>2, <1>4, ReconciledGood

-----------------------------------------------------------------------------
(* The calls of the API.                                                    *)

\* A new row.
LEMMA NewRow ==
  ASSUME NEW id \in Ids, NEW root \in Ids, NEW parent \in 0..MaxTasks, NEW key \in Keys
  PROVE  LET row == NewTask(id, root, parent, key) IN
         /\ row \in Task /\ row.root = root /\ row.parent = parent /\ row.key = key
         /\ row.status = "pending" /\ row.wait = NoWait /\ row.run = "none"
         /\ row.effect = "none" /\ NoWait \in Wait /\ NoWait.ids = {}
<1>1. NoWait \in Wait /\ NoWait.ids = {}
  BY DEF NoWait, WaitFor, Wait
<1> QED BY <1>1 DEF NewTask, Task, Ready

\* A task is created.
LEMMA CreateFollows ==
  ASSUME NEW W, Fine(W), NEW row \in Task, FitsNew(W, row), NEW V, V = createTask(W, row)
  PROVE  Fine(V) /\ Follows(W, V) /\ Quiet(W, V) /\ (Calm(W) => Calm(V))
<1> DEFINE id == Len(W.tasks) + 1
<1>1. /\ Fine(V) /\ Len(V.tasks) = id /\ id \notin Rows(W)
      /\ \A t \in Rows(V) : t \in Rows(W) \/ t = id
      /\ \A t \in Rows(W) : V.tasks[t] = W.tasks[t]
      /\ V.call = W.call /\ V.attempt = W.attempt
  BY CreateFine
<1>2. Len(W.tasks) \in Nat /\ id <= MaxTasks /\ id \in Ids
  <2>1. Len(W.tasks) \in Nat /\ id <= MaxTasks
    BY WorldFields DEF Fine, FitsNew
  <2> QED BY <2>1, Limits DEF Ids
<1>3. Follows(W, V)
  <2>1. Final(W, V)
    BY <1>1 DEF Final
  <2>2. Len(W.tasks) <= Len(V.tasks)
    BY <1>1, <1>2
  <2> QED BY <1>1, <2>1, <2>2 DEF Follows
<1> HIDE DEF id
<1>4. W.attempt[id] = "none"
  BY <1>1, <1>2 DEF Fine
<1>5. Calm(W) => Calm(V)
  BY <1>1, <1>4 DEF Calm, Stray
<1> QED BY <1>1, <1>3, <1>5 DEF Quiet

\* submitTask().
LEMMA SubmitTaskGood == ASSUME IInv, NEW key \in RootKeys, submitTask(key) PROVE Good
<1>1. /\ Turn /\ process' = process /\ executed' = executed /\ resumed' \in BOOLEAN
      /\ Fine(Now)
  BY DEF submitTask, Callable, IInv
<1>2. CASE Known(0, key) # {}
  <2>1. Commit(pump(Now))
    BY <1>2 DEF submitTask
  <2> QED BY <1>1, <2>1, FollowsSelf, QuietSelf, TurnCalm, PumpedGood
<1>3. CASE Known(0, key) = {}
  <2> DEFINE id == Len(Now.tasks) + 1
             row == NewTask(id, id, 0, key)
             W == createTask(Now, row)
  <2>1. id <= MaxTasks /\ Commit(pump(W))
    BY <1>3, NowFields DEF submitTask
  <2>2. id \in Ids /\ 0 \in 0..MaxTasks /\ key \in Keys
    <3>1. Len(Now.tasks) \in Nat
      BY <1>1, WorldFields DEF Fine
    <3> QED BY <2>1, <3>1, Limits DEF Ids, Keys
  <2> HIDE DEF id
  <2>3. /\ row \in Task /\ row.root = id /\ row.parent = 0
        /\ row.status = "pending" /\ row.wait.ids = {} /\ row.run = "none"
    BY <2>2, NewRow
  <2> HIDE DEF row
  <2>4. FitsNew(Now, row)
    BY <2>1, <2>3 DEF FitsNew, id
  <2>5. Fine(W) /\ Follows(Now, W) /\ Quiet(Now, W) /\ (Calm(Now) => Calm(W))
    BY <1>1, <2>3, <2>4, CreateFollows
  <2> HIDE DEF W
  <2> QED BY <1>1, <2>1, <2>5, TurnCalm, PumpedGood
<1> QED BY <1>2, <1>3

\* cancel().
LEMMA CancelGood == ASSUME IInv, NEW t \in Ids, cancel(t) PROVE Good
<1> DEFINE W == CancelAndAbort(Now, {t})
<1>1. /\ Turn /\ process' = process /\ executed' = executed /\ resumed' \in BOOLEAN
      /\ Fine(Now) /\ t \in Rows(Now) /\ Commit(Reconciled(W, t))
  BY DEF cancel, Callable, IInv
<1>2. Goes(Now, W, Now.tasks[t].root)
  BY <1>1, CancelGoes
<1> HIDE DEF W
<1> QED BY <1>1, <1>2, GoesGood

\* A signal is noted in the row of t.
LEMMA SignalGoes ==
  ASSUME IInv, NEW t \in Ids, signal(t)
  PROVE  \E W : /\ Goes(Now, W, Now.tasks[t].root) /\ Commit(Reconciled(W, t))
               /\ (W = Now \/ \E row \in Task : W = saveTask(Now, t, row))
<1>1. Fine(Now) /\ t \in Rows(Now)
  BY DEF signal, IInv
<1>2. CASE tasks[t].signalled
  <2>1. Commit(Reconciled(Now, t)) /\ Goes(Now, Now, Now.tasks[t].root)
    BY <1>1, <1>2, GoesSelf DEF signal
  <2> QED BY <2>1
<1>3. CASE ~tasks[t].signalled
  <2> DEFINE r == Now.tasks[t]
             s == [r EXCEPT !.signalled = TRUE]
             W == saveTask(Now, t, s)
  <2>1. Commit(Reconciled(W, t)) /\ r.status \notin Decided
    BY <1>3, NowFields DEF signal
  <2>2. r \in Task /\ Sound(r, Now.call[t], Now.attempt[t]) /\ r.wait.ids \subseteq Children(Now, t)
    BY <1>1, RowsOf
  <2>3. /\ s \in Task /\ s.status = r.status /\ s.outcome = r.outcome /\ s.run = r.run
        /\ s.key = r.key /\ s.wait = r.wait /\ s.parent = r.parent /\ s.root = r.root
        /\ s.effect = r.effect
    BY <2>2 DEF Task
  <2> HIDE DEF s
  <2>4. Fits(Now, t, s, Now.call[t], Now.attempt[t])
    <3>1. Sound(s, Now.call[t], Now.attempt[t])
      BY <2>2, <2>3, SoundAlike
    <3> QED BY <1>1, <2>2, <2>3, <3>1, FitsAlike
  <2>5. Moved(r, s)
    BY <2>1, <2>3 DEF Moved, Decided
  <2>6. Goes(Now, W, Now.tasks[t].root)
    BY <1>1, <2>3, <2>4, <2>5, SaveGoes
  <2> QED BY <2>1, <2>3, <2>6
<1> QED BY <1>2, <1>3

\* signal().
LEMMA SignalGood == ASSUME IInv, NEW t \in Ids, signal(t) PROVE Good
<1>1. /\ Turn /\ process' = process /\ executed' = executed /\ resumed' \in BOOLEAN
      /\ t \in Rows(Now)
  BY DEF signal, Callable, IInv
<1>2. PICK W : Goes(Now, W, Now.tasks[t].root) /\ Commit(Reconciled(W, t))
  BY SignalGoes
<1> QED BY <1>1, <1>2, GoesGood

\* A blocked task is pending again.
LEMMA UnblockedDone ==
  ASSUME IInv, NEW t \in Rows(Now), call[t].phase = "none",
         tasks[t].status = "needs_attention", NEW s \in Task, s.status = "pending",
         s.parent = tasks[t].parent, s.root = tasks[t].root, s.key = tasks[t].key,
         s.run = tasks[t].run, s.wait = tasks[t].wait, s.effect = "none" => tasks[t].effect = "none"
  PROVE  /\ Done(Now, t, s, Now.call[t], Now.attempt[t], saveTask(Now, t, s))
         /\ Now.call[t].phase = "none" /\ Now.attempt[t] = "none"
<1> DEFINE r == Now.tasks[t]
           k == Now.call[t]
           a == Now.attempt[t]
           W == Put(Now, t, s, k, a)
<1>1. /\ Fine(Now) /\ r = tasks[t] /\ k.phase = "none" /\ r.status = "needs_attention"
      /\ r \in Task /\ Sound(r, k, a) /\ t \in Ids /\ r.wait.ids \subseteq Children(Now, t)
      /\ Now \in World
  BY NowFields, RowsOf DEF IInv
<1>2. k \in Call /\ a \in Attempts
  BY <1>1, WorldFields
<1>3. saveTask(Now, t, s) = W
  BY <1>1, SaveIsPut
<1> HIDE DEF r, k, a, W
<1>4. r.run = "none" /\ a = "none"
  BY <1>1 DEF Sound, Decided, Terminal
<1>5. Sound(s, k, a)
  BY <1>1, <1>4 DEF Sound, Terminal
<1>6. r.status \notin {"cancelling"} \cup Terminal /\ s.status \notin Terminal
      /\ s.status # "cancelling"
  BY <1>1 DEF Terminal
<1>7. Fits(Now, t, s, k, a)
  BY <1>1, <1>5, <1>6, FitsOpen DEF r
<1>8. Allowed(Now, t, s, k, a)
  BY <1>1, <1>2, <1>6, <1>7 DEF Allowed, r, Ended
<1>9. Done(Now, t, s, k, a, W)
  BY <1>1, <1>8, PutDone DEF W
<1> QED BY <1>1, <1>3, <1>4, <1>9 DEF k, a

\* The next step after that is a good one.
LEMMA UnblockedGood ==
  ASSUME IInv, Turn, NEW t \in Rows(Now), call[t].phase = "none",
         tasks[t].status = "needs_attention", NEW s \in Task, s.status = "pending",
         s.parent = tasks[t].parent, s.root = tasks[t].root, s.key = tasks[t].key,
         s.run = tasks[t].run, s.wait = tasks[t].wait, s.effect = "none" => tasks[t].effect = "none",
         Commit(pump(saveTask(Now, t, s))), UNCHANGED <<process, resumed, executed>>
  PROVE  Good
<1> DEFINE W == saveTask(Now, t, s)
           k == Now.call[t]
           a == Now.attempt[t]
<1>1. Done(Now, t, s, k, a, W) /\ k.phase = "none" /\ a = "none"
  BY UnblockedDone
<1>2. Commit(pump(W)) /\ resumed' \in BOOLEAN /\ process' = process /\ executed' = executed
  BY DEF IInv
<1> HIDE DEF W, k, a
<1>3. /\ Fine(W) /\ Follows(Now, W) /\ Quiet(Now, W)
      /\ ~MicrotaskGaps => Calm(W)
  <2>1. Mild(t, k, a)
    BY <1>1 DEF Mild
  <2> QED BY <1>1, <2>1, DoneCalm
<1> QED BY <1>2, <1>3, PumpedGood

\* retry().
LEMMA RetryGood == ASSUME IInv, NEW t \in Ids, retry(t) PROVE Good
<1> DEFINE s == Unblocked(tasks[t])
<1>1. /\ Turn /\ t \in Rows(Now) /\ call[t].phase = "none"
      /\ tasks[t].status = "needs_attention"
      /\ Commit(pump(saveTask(Now, t, s))) /\ UNCHANGED <<process, resumed, executed>>
  BY DEF retry, Callable
<1>2. tasks[t] \in Task
  BY <1>1, NowFields, RowsOf DEF IInv
<1>3. /\ s \in Task /\ s.status = "pending" /\ s.parent = tasks[t].parent
      /\ s.root = tasks[t].root /\ s.key = tasks[t].key /\ s.run = tasks[t].run
      /\ s.wait = tasks[t].wait /\ s.effect = tasks[t].effect
  BY <1>2 DEF Unblocked, Task, Ready
<1> HIDE DEF s
<1> QED BY <1>1, <1>3, UnblockedGood

\* resolveEffect().
LEMMA ResolveEffectGood == ASSUME IInv, NEW t \in Ids, resolveEffect(t) PROVE Good
<1> DEFINE s == [Unblocked(tasks[t]) EXCEPT !.effect = "completed"]
<1>1. /\ Turn /\ t \in Rows(Now) /\ call[t].phase = "none"
      /\ tasks[t].status = "needs_attention"
      /\ Commit(pump(saveTask(Now, t, s))) /\ UNCHANGED <<process, resumed, executed>>
  BY DEF resolveEffect, Callable
<1>2. tasks[t] \in Task
  BY <1>1, NowFields, RowsOf DEF IInv
<1>3. /\ s \in Task /\ s.status = "pending" /\ s.parent = tasks[t].parent
      /\ s.root = tasks[t].root /\ s.key = tasks[t].key /\ s.run = tasks[t].run
      /\ s.wait = tasks[t].wait /\ s.effect = "completed"
  BY <1>2 DEF Unblocked, Task, Ready
<1> HIDE DEF s
<1> QED BY <1>1, <1>3, UnblockedGood

\* resume().
LEMMA ResumeGood == ASSUME IInv, resume PROVE Good
<1> DEFINE W == reconcileRoots(Now)
<1>1. /\ Turn /\ process' = process /\ executed' = executed /\ resumed' \in BOOLEAN
      /\ Fine(Now) /\ Commit(pump(W))
  BY DEF resume, Callable, IInv
<1>2. Resumed(Now, W)
  BY <1>1, RootsResumed
<1> HIDE DEF W
<1>3. Fine(W) /\ Kept(Now, W) /\ (Calm(Now) => Calm(W))
  BY <1>2 DEF Resumed
<1>4. Follows(Now, W) /\ Quiet(Now, W)
  BY <1>1, <1>3, KeptFollows, KeptQuiet, QuietSelf
<1> QED BY <1>1, <1>3, <1>4, TurnCalm, PumpedGood

-----------------------------------------------------------------------------
(* The steps of an invocation.                                              *)

\* What has an invocation or an attempt is a row.
LEMMA ActiveRow ==
  ASSUME IInv, NEW t \in Ids, call[t].phase # "none" \/ attempt[t] # "none"
  PROVE  /\ Fine(Now) /\ t \in Rows(Now) /\ Now.tasks[t] = tasks[t] /\ tasks[t] \in Task
         /\ Now.call[t] = call[t] /\ Now.attempt[t] = attempt[t]
         /\ call[t] \in Call /\ attempt[t] \in Attempts
         /\ Sound(tasks[t], call[t], attempt[t]) /\ tasks[t].wait.ids \subseteq Children(Now, t)
         /\ tasks \in Seq(Task) /\ call \in [Ids -> Call] /\ attempt \in [Ids -> Attempts]
         /\ t \in DOMAIN tasks
<1>1. Fine(Now) /\ Now \in World
  BY DEF IInv, Fine
<1>2. t \in Rows(Now)
  BY <1>1, NowFields DEF Fine
<1>3. /\ tasks[t] \in Task /\ Sound(tasks[t], call[t], attempt[t])
      /\ tasks[t].wait.ids \subseteq Children(Now, t)
  BY <1>1, <1>2, RowsOf, NowFields
<1>4. /\ call \in [Ids -> Call] /\ attempt \in [Ids -> Attempts] /\ tasks \in Seq(Task)
      /\ t \in DOMAIN tasks
  BY <1>1, <1>2, WorldFields, NowFields
<1> QED BY <1>1, <1>2, <1>3, <1>4, NowFields

\* A world in which one task is written, committed field by field.
LEMMA Written ==
  ASSUME NEW t, NEW row, NEW k, NEW a, tasks' = [tasks EXCEPT ![t] = row],
         call' = [call EXCEPT ![t] = k], attempt' = [attempt EXCEPT ![t] = a],
         UNCHANGED <<ready, deadlines>>
  PROVE  Commit(Write(Now, t, row, k, a))
<1> DEFINE V == Write(Now, t, row, k, a)
<1>1. /\ V.tasks = [Now.tasks EXCEPT ![t] = row] /\ V.call = [Now.call EXCEPT ![t] = k]
      /\ V.attempt = [Now.attempt EXCEPT ![t] = a] /\ V.ready = Now.ready
      /\ V.deadlines = Now.deadlines
  BY DEF Write
<1> HIDE DEF V
<1>2. Commit(V)
  BY <1>1, NowFields DEF Commit
<1> QED BY <1>2 DEF V

\* A step that writes one task in its turn and starts no effect.
LEMMA WriteGood ==
  ASSUME IInv, Turn, NEW t \in Rows(Now), NEW row, NEW k, NEW a, Allowed(Now, t, row, k, a),
         row.status \in Ready <=> tasks[t].status \in Ready, Mild(t, k, a),
         ~MicrotaskGaps => a # "executing" \/ row.status # "cancelling",
         Commit(Write(Now, t, row, k, a)), UNCHANGED <<process, resumed, executed>>
  PROVE  Good
<1> DEFINE W == Write(Now, t, row, k, a)
<1>1. Fine(Now) /\ Now.tasks[t] = tasks[t]
  BY NowFields DEF IInv
<1>2. Done(Now, t, row, k, a, W)
  BY <1>1, WriteDone
<1>3. Commit(W)
  OBVIOUS
<1> HIDE DEF W
<1>4. Fine(W) /\ Follows(Now, W) /\ Quiet(Now, W) /\ (~MicrotaskGaps => Calm(W))
  BY <1>2, DoneCalm
<1>5. resumed' \in BOOLEAN
  BY DEF IInv
<1> QED BY <1>3, <1>4, <1>5, TurnGood

\* Writing what is there changes nothing.
LEMMA SameWrite ==
  ASSUME NEW S, NEW T, NEW f \in [S -> T], NEW t \in S
  PROVE  [f EXCEPT ![t] = f[t]] = f
OBVIOUS

\* Nothing is written to the row of t.
LEMMA SameRow ==
  ASSUME NEW t \in DOMAIN tasks, tasks \in Seq(Task)
  PROVE  [tasks EXCEPT ![t] = tasks[t]] = tasks
<1>1. tasks \in [DOMAIN tasks -> Task]
  BY LenProperties
<1> QED BY <1>1, SameWrite

\* A task whose row stays as it is may have another invocation.
LEMMA AllowedCall ==
  ASSUME NEW W, Fine(W), NEW t \in Rows(W), NEW k \in Call, Sound(W.tasks[t], k, W.attempt[t])
  PROVE  Allowed(W, t, W.tasks[t], k, W.attempt[t])
<1>1. W.tasks[t] \in Task /\ W.tasks[t].wait.ids \subseteq Children(W, t) /\ t \in Ids
  BY RowsOf
<1>2. W.attempt[t] \in Attempts
  BY <1>1, WorldFields DEF Fine
<1>3. Fits(W, t, W.tasks[t], k, W.attempt[t])
  BY <1>1, FitsAlike
<1> QED BY <1>1, <1>2, <1>3 DEF Allowed

\* ReturnEarly
LEMMA ReturnEarlyGood == ASSUME IInv, NEW t \in Ids, ReturnEarly(t) PROVE Good
<1> DEFINE r == tasks[t]
           k == call'[t]
           a == attempt[t]
<1>1. /\ call[t].phase = "executing" /\ Turn
      /\ call' = [call EXCEPT ![t].phase = "returned", ![t].aborted = TRUE]
      /\ UNCHANGED <<tasks, ready, attempt, deadlines, process, resumed, executed>>
  BY DEF ReturnEarly, InPhase
<1>2. /\ Fine(Now) /\ t \in Rows(Now) /\ Now.tasks[t] = r /\ Now.attempt[t] = a /\ r \in Task
      /\ call[t] \in Call /\ Sound(r, call[t], a) /\ call \in [Ids -> Call]
      /\ attempt \in [Ids -> Attempts] /\ tasks \in Seq(Task) /\ t \in DOMAIN tasks
  BY <1>1, ActiveRow
<1>3. k \in Call /\ k.phase = "returned" /\ call' = [call EXCEPT ![t] = k]
  BY <1>1, <1>2 DEF Call
<1> HIDE DEF k
<1>4. Sound(r, k, a)
  BY <1>1, <1>2, <1>3, SoundCall
<1>5. Allowed(Now, t, r, k, a)
  BY <1>2, <1>3, <1>4, AllowedCall
<1>6. [tasks EXCEPT ![t] = r] = tasks /\ [attempt EXCEPT ![t] = a] = attempt
  BY <1>2, SameRow, SameWrite
<1>7. Commit(Write(Now, t, r, k, a))
  BY <1>1, <1>3, <1>6, Written
<1>8. Mild(t, k, a)
  BY <1>3 DEF Mild
<1>9. ~MicrotaskGaps => a # "executing" \/ r.status # "cancelling"
  BY <1>1, <1>2, TurnCalm, NowFields DEF Calm, Stray
<1> QED BY <1>1, <1>2, <1>5, <1>7, <1>8, <1>9, WriteGood

\* An attempt and its cancelled task are together no longer in a turn.
LEMMA NoStray ==
  ASSUME IInv, Turn, NEW t \in Rows(Now), ~MicrotaskGaps
  PROVE  attempt[t] # "executing" \/ tasks[t].status # "cancelling"
BY TurnCalm, NowFields DEF Calm, Stray

\* Of an invocation neither its phase nor its abort changes.
LEMMA CallGood ==
  ASSUME IInv, Turn, NEW t \in Ids, NEW k \in Call, k.phase = call[t].phase,
         k.aborted = call[t].aborted, call' = [call EXCEPT ![t] = k],
         UNCHANGED <<tasks, ready, attempt, deadlines, process, resumed, executed>>
  PROVE  Good
<1> DEFINE V == [tasks |-> tasks, ready |-> ready, call |-> call', attempt |-> attempt,
                 deadlines |-> deadlines]
<1>1. /\ V.tasks = Now.tasks /\ V.ready = Now.ready /\ V.call = call' /\ V.attempt = Now.attempt
      /\ V.deadlines = Now.deadlines /\ Commit(V)
  BY NowFields DEF Commit
<1>2. Fine(Now) /\ Now \in World /\ call \in [Ids -> Call] /\ resumed' \in BOOLEAN
  BY WorldFields, NowFields DEF IInv, Fine
<1>3. V \in World
  <2>1. call' \in [Ids -> Call]
    BY <1>2
  <2>2. /\ tasks \in Seq(Task) /\ ready \in Seq(Ids) /\ attempt \in [Ids -> Attempts]
        /\ deadlines \in SUBSET Ids
    BY <1>2, WorldFields, NowFields
  <2> QED BY <2>1, <2>2 DEF World
<1> HIDE DEF V
<1>4. \A u \in Ids : V.call[u].phase = Now.call[u].phase /\ V.call[u].aborted = Now.call[u].aborted
  BY <1>1, <1>2, NowFields
<1>5. \A u \in Rows(Now) : Sound(Now.tasks[u], V.call[u], V.attempt[u])
  <2>1. ASSUME NEW u \in Rows(Now) PROVE Sound(Now.tasks[u], V.call[u], V.attempt[u])
    <3>1. Sound(Now.tasks[u], Now.call[u], Now.attempt[u]) /\ u \in Ids
      BY <1>2, RowsOf
    <3> QED BY <3>1, <1>1, <1>4 DEF Sound
  <2> QED BY <2>1
<1>6. Fine(V) /\ Rows(V) = Rows(Now)
  <2>1. \A u \in Ids : u \notin Rows(Now) => V.call[u].phase = "none" /\ V.attempt[u] = "none"
    BY <1>1, <1>2, <1>4 DEF Fine
  <2> QED BY <2>1, <1>1, <1>2, <1>3, <1>5, SameRowsFine
<1>7. Quiet(Now, V)
  BY <1>1, <1>4 DEF Quiet
<1>8. Follows(Now, V)
  <2>1. Len(Now.tasks) \in Nat
    BY <1>2, WorldFields
  <2> QED BY <2>1, <1>1 DEF Follows, Final
<1>9. ~MicrotaskGaps => Calm(V)
  BY <1>1, <1>6, TurnCalm DEF Calm, Stray
<1> QED BY <1>1, <1>2, <1>6, <1>7, <1>8, <1>9, TurnGood

\* EndEffect
LEMMA EndEffectGood == ASSUME IInv, NEW t \in Ids, EndEffect(t) PROVE Good
<1> DEFINE r == tasks[t]
           k == call'[t]
           a == attempt[t]
           s == [r EXCEPT !.effect = "completed"]
<1>1. /\ Turn /\ call' = [call EXCEPT ![t].flight = FALSE]
      /\ UNCHANGED <<ready, attempt, deadlines, process, resumed, executed>>
      /\ UNCHANGED tasks \/ (call[t].phase = "executing" /\ AssertActive(t)
                                /\ tasks' = [tasks EXCEPT ![t].effect = "completed"])
  BY DEF EndEffect
<1>2. call \in [Ids -> Call]
  BY WorldFields, NowFields DEF IInv, Fine
<1>3. /\ k \in Call /\ k.phase = call[t].phase /\ k.aborted = call[t].aborted
      /\ call' = [call EXCEPT ![t] = k]
  BY <1>1, <1>2 DEF Call
<1> HIDE DEF k
<1>4. CASE UNCHANGED tasks
  BY <1>1, <1>3, <1>4, CallGood
<1>5. CASE call[t].phase = "executing" /\ AssertActive(t)
             /\ tasks' = [tasks EXCEPT ![t].effect = "completed"]
  <2>1. /\ Fine(Now) /\ t \in Rows(Now) /\ Now.tasks[t] = r /\ r \in Task /\ a \in Attempts
        /\ Sound(r, call[t], a) /\ attempt \in [Ids -> Attempts] /\ tasks \in Seq(Task)
        /\ r.wait.ids \subseteq Children(Now, t)
    BY <1>5, ActiveRow
  <2>2. r.status = "running"
    BY <1>5 DEF AssertActive
  <2>3. /\ s \in Task /\ s.status = r.status /\ s.outcome = r.outcome /\ s.run = r.run
        /\ s.key = r.key /\ s.wait = r.wait /\ s.parent = r.parent /\ s.root = r.root
        /\ s.effect = "completed"
    BY <2>1 DEF Task
  <2>4. tasks' = [tasks EXCEPT ![t] = s]
    BY <1>5
  <2> HIDE DEF s
  <2>5. Sound(s, k, a)
    BY <2>1, <2>3, <1>3 DEF Sound
  <2>6. Fits(Now, t, s, k, a)
    BY <2>1, <2>3, <2>5, FitsAlike
  <2>7. Allowed(Now, t, s, k, a)
    <3>1. ~Ended(Now, t) /\ r.status # "cancelling" /\ s.effect # "none"
      BY <2>1, <2>2, <2>3 DEF Ended, Terminal
    <3> QED BY <3>1, <2>1, <2>3, <2>6, <1>3 DEF Allowed
  <2>8. [attempt EXCEPT ![t] = a] = attempt
    BY <2>1, SameWrite
  <2>9. Commit(Write(Now, t, s, k, a))
    BY <1>1, <1>3, <2>4, <2>8, Written
  <2>10. Mild(t, k, a)
    BY <1>3 DEF Mild
  <2>11. ~MicrotaskGaps => a # "executing" \/ s.status # "cancelling"
    BY <2>2, <2>3
  <2>12. s.status \in Ready <=> tasks[t].status \in Ready
    BY <2>3
  <2> QED BY <1>1, <2>1, <2>7, <2>9, <2>10, <2>11, <2>12, WriteGood
<1> QED BY <1>1, <1>4, <1>5

\* StartEffect
LEMMA StartEffectGood == ASSUME IInv, NEW t \in Ids, StartEffect(t) PROVE Good
<1> DEFINE r == tasks[t]
           k == call'[t]
           a == attempt[t]
           s == [r EXCEPT !.effect = "started"]
<1>1. /\ Turn /\ call[t].phase = "executing" /\ r.status = "running" /\ r.effect # "completed"
      /\ UNCHANGED <<ready, attempt, deadlines, process, resumed>>
  BY DEF StartEffect, InPhase, AssertActive
<1>2. /\ Fine(Now) /\ t \in Rows(Now) /\ Now.tasks[t] = r /\ r \in Task /\ a \in Attempts
      /\ Sound(r, call[t], a) /\ attempt \in [Ids -> Attempts] /\ tasks \in Seq(Task)
      /\ r.wait.ids \subseteq Children(Now, t) /\ call \in [Ids -> Call] /\ call[t] \in Call
  BY <1>1, ActiveRow
<1>3. CASE r.effect = "started" /\ Recovery = "manual"
  <2>1. call' = [call EXCEPT ![t].fatal = TRUE] /\ UNCHANGED <<tasks, executed>>
    BY <1>3 DEF StartEffect
  <2>2. /\ k \in Call /\ k.phase = call[t].phase /\ k.aborted = call[t].aborted
        /\ call' = [call EXCEPT ![t] = k]
    BY <2>1, <1>2 DEF Call
  <2> HIDE DEF k
  <2> QED BY <1>1, <2>1, <2>2, CallGood
<1>4. CASE ~(r.effect = "started" /\ Recovery = "manual")
  <2>1. /\ call' = [call EXCEPT ![t].flight = TRUE] /\ tasks' = [tasks EXCEPT ![t].effect = "started"]
        /\ executed' = [executed EXCEPT ![t] = @ + 1]
    BY <1>4 DEF StartEffect
  <2>2. /\ k \in Call /\ k.phase = call[t].phase /\ k.aborted = call[t].aborted
        /\ call' = [call EXCEPT ![t] = k]
    BY <2>1, <1>2 DEF Call
  <2>3. /\ s \in Task /\ s.status = r.status /\ s.outcome = r.outcome /\ s.run = r.run
        /\ s.key = r.key /\ s.wait = r.wait /\ s.parent = r.parent /\ s.root = r.root
        /\ s.effect = "started"
    BY <1>2 DEF Task
  <2>4. tasks' = [tasks EXCEPT ![t] = s]
    BY <2>1
  <2> HIDE DEF s, k
  <2>5. Sound(s, k, a)
    BY <1>2, <2>2, <2>3 DEF Sound
  <2>6. Fits(Now, t, s, k, a)
    BY <1>2, <2>3, <2>5, FitsAlike
  <2>7. Allowed(Now, t, s, k, a)
    <3>1. ~Ended(Now, t) /\ r.status # "cancelling" /\ s.effect # "none"
      BY <1>1, <1>2, <2>3 DEF Ended, Terminal
    <3> QED BY <3>1, <1>2, <2>2, <2>3, <2>6 DEF Allowed
  <2>8. [attempt EXCEPT ![t] = a] = attempt
    BY <1>2, SameWrite
  <2> DEFINE W == Write(Now, t, s, k, a)
  <2>9. Commit(W)
    BY <1>1, <2>2, <2>4, <2>8, Written
  <2>10. Done(Now, t, s, k, a, W)
    <3>1. s.status \in Ready <=> Now.tasks[t].status \in Ready
      BY <1>2, <2>3
    <3> QED BY <1>2, <2>7, <3>1, WriteDone
  <2> HIDE DEF W
  <2>11. Fine(W) /\ Follows(Now, W) /\ Quiet(Now, W) /\ (~MicrotaskGaps => Calm(W))
    <3>1. Mild(t, k, a)
      BY <2>2 DEF Mild
    <3>2. ~MicrotaskGaps => a # "executing" \/ s.status # "cancelling"
      BY <1>1, <2>3
    <3> QED BY <1>1, <1>2, <2>10, <3>1, <3>2, DoneCalm
  <2>12. Between'
    BY <1>1, <2>9, <2>11, TurnBetween
  <2>13. Effects'
    <3>1. /\ executed \in [Ids -> Nat]
          /\ \A u \in Ids : executed[u] > 0 => u \in Rows(Now) /\ tasks[u].effect # "none"
          /\ Recovery = "manual" => \A u \in Ids : executed[u] <= 1
      BY DEF IInv, Effects
    <3>2. Now' = W
      BY <2>9, <2>11, Committed DEF Fine
    <3>3. Rows(Now)' = Rows(Now)
      BY <3>2, <2>10 DEF Done
    <3>4. /\ executed' \in [Ids -> Nat] /\ executed'[t] = executed[t] + 1
          /\ \A u \in Ids : u # t => executed'[u] = executed[u]
      BY <3>1, <2>1
    <3>5. tasks' = W.tasks /\ \A u \in Rows(Now) : u # t => tasks'[u] = tasks[u]
      BY <2>9, <2>10, NowFields DEF Commit, Done
    <3>6. tasks'[t].effect # "none"
      BY <3>5, <2>3, <2>10 DEF Done
    <3>7. \A u \in Ids : executed'[u] > 0 => u \in Rows(Now)' /\ tasks'[u].effect # "none"
      BY <3>1, <3>3, <3>4, <3>5, <3>6, <1>2
    <3>8. ASSUME Recovery = "manual" PROVE \A u \in Ids : executed'[u] <= 1
      <4>1. r.effect = "none"
        <5>1. r.effect \in {"none", "started", "completed"}
          BY <1>2, RowFields
        <5> QED BY <5>1, <1>1, <1>4, <3>8
      <4>2. executed[t] \in Nat /\ ~(executed[t] > 0)
        BY <4>1, <3>1
      <4>3. executed'[t] <= 1
        BY <4>2, <3>4
      <4> QED BY <4>3, <3>1, <3>4, <3>8
    <3> QED BY <3>4, <3>7, <3>8 DEF Effects
  <2>14. process' \in {"up", "closing", "down"} /\ resumed' \in BOOLEAN
    BY <1>1 DEF IInv
  <2> QED BY <2>9, <2>11, <2>12, <2>13, <2>14, StepGood
<1> QED BY <1>3, <1>4

\* The world before the attempts are told and capacity is filled: as it is, or with a child of t.
Spawns(t, W) ==
  \/ W = Now
  \/ \E row \in Task : /\ FitsNew(Now, row) /\ row.root = Now.tasks[t].root
                       /\ W = createTask(Now, row)

\* A child of t is known or made.
LEMMA SpawnDone ==
  ASSUME IInv, NEW t \in Ids, NEW key \in ChildKeys \cup AgentKeys, Spawn(t, key)
  PROVE  /\ Turn /\ t \in Rows(Now) /\ call[t].phase = "executing" /\ Now.tasks[t] = tasks[t]
         /\ tasks[t].root \in Ids
         /\ \E W : Spawns(t, W) /\ Commit(pump(syncAgents(W, tasks[t].root)))
<1> DEFINE id == Len(tasks) + 1
           root == tasks[t].root
           child == NewTask(id, root, t, key)
           agent == [child EXCEPT !.status = "waiting", !.run = "queued",
                                  !.wait = WaitFor("agent", {})]
           row == IF key \in AgentKeys THEN agent ELSE child
           W == IF Known(t, key) # {} THEN Now ELSE createTask(Now, row)
           S == syncAgents(W, root)
<1>1. /\ Turn /\ call[t].phase = "executing" /\ tasks[t].status = "running"
      /\ process' = process /\ executed' = executed /\ resumed' \in BOOLEAN
      /\ Len(W.tasks) <= MaxTasks /\ Commit(pump(S))
  BY DEF Spawn, InPhase, AssertActive, IInv
<1>2. /\ Fine(Now) /\ t \in Rows(Now) /\ Now.tasks[t] = tasks[t] /\ tasks[t] \in Task
      /\ root \in Ids
  BY <1>1, ActiveRow, RowFields
<1>3. Spawns(t, W)
  <2>1. CASE Known(t, key) # {}
    BY <2>1 DEF Spawns
  <2>2. CASE Known(t, key) = {}
    <3>1. W = createTask(Now, row)
      BY <2>2
    <3>2. id <= MaxTasks /\ id = Len(Now.tasks) + 1
      <4>1. W.tasks = Append(Now.tasks, row)
        BY <3>1 DEF createTask, Now
      <4>2. Now.tasks \in Seq(Task) /\ Now.tasks = tasks
        BY <1>2, WorldFields, NowFields DEF Fine
      <4> HIDE DEF row, W
      <4>3. Len(Append(Now.tasks, row)) = Len(Now.tasks) + 1
        BY <4>2
      <4> QED BY <4>1, <4>2, <4>3, <1>1
    <3>3. id \in Ids /\ t \in 0..MaxTasks /\ key \in Keys /\ t \in Nat \ {0}
      <4>1. Len(Now.tasks) \in Nat
        BY <1>2, WorldFields DEF Fine
      <4> QED BY <3>2, <4>1, <1>2, RowsOf, Limits DEF Ids, Keys
    <3> HIDE DEF id
    <3>4. root \in Ids /\ root = Now.tasks[t].root
      BY <1>2
    <3> HIDE DEF root
    <3>5. /\ child \in Task /\ child.root = root /\ child.parent = t /\ child.key = key
          /\ child.status = "pending" /\ child.wait.ids = {} /\ child.run = "none"
      BY <3>4, <3>3, NewRow
    <3> HIDE DEF child
    <3>6. /\ agent \in Task /\ agent.root = root /\ agent.parent = t /\ agent.key = key
          /\ agent.status = "waiting" /\ agent.wait.ids = {} /\ agent.wait.kind = "agent"
      <4>1. /\ WaitFor("agent", {}) \in Wait /\ WaitFor("agent", {}).ids = {}
            /\ WaitFor("agent", {}).kind = "agent"
        BY DEF WaitFor, Wait
      <4> QED BY <3>5, <4>1 DEF Task, Runnable
    <3> HIDE DEF agent
    <3>7. /\ row \in Task /\ row.root = root /\ row.parent = t /\ row.wait.ids = {}
          /\ \/ row.status = "pending" /\ row.run = "none"
             \/ row.status = "waiting" /\ row.key \in AgentKeys /\ row.wait.kind = "agent"
      BY <3>5, <3>6
    <3> HIDE DEF row
    <3>8. FitsNew(Now, row)
      <4>1. Now.tasks[t].status \notin {"cancelling"} \cup Terminal
        BY <1>1, <1>2 DEF Terminal
      <4> QED BY <4>1, <3>4, <3>2, <3>3, <3>7, <1>2 DEF FitsNew
    <3> HIDE DEF W
    <3> QED BY <3>1, <3>4, <3>7, <3>8 DEF Spawns
  <2> QED BY <2>1, <2>2
<1> HIDE DEF W
<1> QED BY <1>1, <1>2, <1>3

\* Spawn
LEMMA SpawnGood ==
  ASSUME IInv, NEW t \in Ids, NEW key \in ChildKeys \cup AgentKeys, Spawn(t, key)
  PROVE  Good
<1> DEFINE root == tasks[t].root
<1>1. Turn /\ process' = process /\ executed' = executed /\ resumed' \in BOOLEAN
  BY SpawnDone DEF Spawn, IInv
<1>2. Fine(Now) /\ root \in Ids
  BY SpawnDone DEF IInv
<1> HIDE DEF root
<1>9. PICK W : Spawns(t, W) /\ Commit(pump(syncAgents(W, root)))
  BY SpawnDone DEF root
<1> DEFINE S == syncAgents(W, root)
<1>10. Commit(pump(S))
  BY <1>9
<1>3. Fine(W) /\ Follows(Now, W) /\ Quiet(Now, W) /\ (Calm(Now) => Calm(W))
  <2>1. CASE W = Now
    BY <2>1, <1>2, FollowsSelf, QuietSelf
  <2>2. ASSUME NEW row \in Task, FitsNew(Now, row), W = createTask(Now, row)
        PROVE  Fine(W) /\ Follows(Now, W) /\ Quiet(Now, W) /\ (Calm(Now) => Calm(W))
    BY <2>2, <1>2, CreateFollows
  <2> QED BY <1>9, <2>1, <2>2 DEF Spawns
<1>4. Goes(W, S, root) /\ S.tasks = W.tasks
  BY <1>3, SyncGoes
<1> HIDE DEF S
<1>5. Fine(S) /\ Kept(W, S)
  BY <1>4 DEF Goes
<1>6. Quiet(Now, S)
  BY <1>3, <1>5, KeptQuiet
<1>7. Follows(Now, S)
  <2>1. Follows(W, S) /\ Len(S.tasks) \in Nat
    BY <1>3, <1>5, KeptFollows, WorldFields DEF Fine
  <2> QED BY <2>1, <1>2, <1>3, <1>5, FollowsTwice
<1>8. ~MicrotaskGaps => Calm(S)
  <2>1. ASSUME Calm(W), NEW u \in Rows(S) PROVE ~Stray(S, u)
    <3>1. u \in Rows(W) /\ u \in Ids
      BY <1>3, <1>4, RowsOf DEF Rows
    <3>2. ~Stray(W, u)
      BY <2>1, <3>1 DEF Calm
    <3> QED BY <3>1, <3>2, <1>4, <1>5 DEF Stray, Kept
  <2>2. ~MicrotaskGaps => Calm(W)
    BY <1>1, <1>3, TurnCalm
  <2> QED BY <2>1, <2>2 DEF Calm
<1> QED BY <1>1, <1>5, <1>6, <1>7, <1>8, <1>10, PumpedGood

\* What is between transactions after a step in which the invocation of t may have come to its
\* end: nothing else is about to end, or gaps are possible.
LEMMA LastBetween ==
  ASSUME IInv, NEW t \in Ids, NEW V, Fine(V), Commit(V), process' = process,
         ~MicrotaskGaps => \A u \in Ids : u # t => call[u].phase \notin {"rejected", "leaving"},
         \A u \in Ids : u # t /\ V.call[u].phase \in {"rejected", "leaving"} =>
                           V.call[u].phase = call[u].phase,
         FenceStands /\ V.call[t].phase = "rejected" =>
           V.tasks[t].status = "running" /\ MayExceedLimits,
         ~MicrotaskGaps => \A u \in Rows(V) : Stray(V, u) =>
           V.call[t].phase = "leaving" /\ V.tasks[t].root = V.tasks[u].root,
         \A u \in Ids : V.attempt[u] = "executing" => attempt[u] = "executing" \/ process = "up"
  PROVE  Between'
<1>1. call' = V.call /\ attempt' = V.attempt /\ tasks' = V.tasks
  BY DEF Commit
<1>2. ASSUME FenceStands, NEW u \in Ids, V.call[u].phase = "rejected"
      PROVE  V.tasks[u].status = "running" /\ MayExceedLimits
  <2>1. CASE u = t
    BY <2>1, <1>2
  <2>2. CASE u # t
    <3>1. call[u].phase = "rejected"
      BY <1>2, <2>2
    <3>2. MayExceedLimits
      BY <1>2, <3>1 DEF IInv, Between
    <3>3. ~MicrotaskGaps
      BY <1>2, <3>2 DEF FenceStands
    <3> QED BY <2>2, <3>1, <3>3
  <2> QED BY <2>1, <2>2
<1>3. ASSUME ~MicrotaskGaps, NEW u \in Ids, V.call[u].phase \in {"rejected", "leaving"}
      PROVE  u = t
  BY <1>3
<1>4. ASSUME ~MicrotaskGaps, NEW u \in Ids, V.attempt[u] = "executing", V.tasks[u].status = "cancelling"
      PROVE  V.call[t].phase = "leaving" /\ V.tasks[t].root = V.tasks[u].root
  <2>1. u \in Rows(V)
    BY <1>4 DEF Fine
  <2> QED BY <2>1, <1>4 DEF Stray
<1>5. process # "up" => \A u \in Ids : V.attempt[u] # "executing"
  BY DEF IInv, Between
<1> QED BY <1>1, <1>2, <1>3, <1>4, <1>5 DEF Between

\* A step in which the invocation of t comes to its end in its turn, or is rolled back.
LEMMA LastGood ==
  ASSUME IInv, Turn, NEW t \in Ids, NEW V, Fine(V), Commit(V), Follows(Now, V),
         \A u \in Ids : u # t /\ V.call[u].phase \in {"rejected", "leaving"} =>
                           V.call[u].phase = call[u].phase,
         FenceStands /\ V.call[t].phase = "rejected" =>
           V.tasks[t].status = "running" /\ MayExceedLimits,
         ~MicrotaskGaps => \A u \in Rows(V) : Stray(V, u) =>
           V.call[t].phase = "leaving" /\ V.tasks[t].root = V.tasks[u].root,
         \A u \in Ids : V.attempt[u] = "executing" => attempt[u] = "executing" \/ process = "up",
         UNCHANGED <<process, resumed, executed>>
  PROVE  Good
<1>1. ~MicrotaskGaps => \A u \in Ids : u # t => call[u].phase \notin {"rejected", "leaving"}
  BY TurnCalm
<1>2. Between'
  BY <1>1, LastBetween
<1>3. Effects' /\ process' \in {"up", "closing", "down"} /\ resumed' \in BOOLEAN
  BY EffectsStay DEF IInv
<1> QED BY <1>2, <1>3, StepGood

\* The same when only t is written, and its task is not fenced by that.
LEMMA LastDone ==
  ASSUME IInv, Turn, NEW t \in Rows(Now), NEW row, NEW k, NEW V,
         Done(Now, t, row, k, attempt[t], V), Commit(V),
         FenceStands /\ k.phase = "rejected" => row.status = "running" /\ MayExceedLimits,
         row.status # "cancelling" \/ row.status = tasks[t].status,
         UNCHANGED <<process, resumed, executed>>
  PROVE  Good
<1>1. /\ Fine(V) /\ Follows(Now, V) /\ Rows(V) = Rows(Now)
      /\ V.tasks[t] = row /\ V.call[t] = k /\ V.attempt[t] = attempt[t]
      /\ \A u \in Rows(Now) : u # t => V.tasks[u] = Now.tasks[u]
      /\ \A u \in Ids : u # t => V.call[u] = call[u] /\ V.attempt[u] = attempt[u]
  BY NowFields DEF Done
<1>2. t \in Ids /\ \A u \in Rows(Now) : u \in Ids
  BY RowsOf DEF IInv
<1>3. ASSUME ~MicrotaskGaps, NEW u \in Rows(V) PROVE ~Stray(V, u)
  <2>1. ~Stray(Now, u)
    BY <1>1, <1>3, TurnCalm DEF Calm
  <2> QED BY <2>1, <1>1, <1>2, NowFields DEF Stray
<1> QED BY <1>1, <1>2, <1>3, LastGood

\* The invocation of t enters another phase ...
Entered(W, t, p) == [W EXCEPT !.call[t].phase = p]

\* ... in the world as it is ...
LEMMA WritePhase ==
  ASSUME NEW W, Fine(W), NEW t \in Rows(W),
         NEW p \in {"none", "launched", "executing", "returned", "rejected", "leaving"},
         Commit(Entered(W, t, p))
  PROVE  \E k \in Call : /\ k.phase = p /\ k.aborted = W.call[t].aborted
                         /\ Commit(Write(W, t, W.tasks[t], k, W.attempt[t]))
<1> DEFINE k == [W.call[t] EXCEPT !.phase = p]
           V == Write(W, t, W.tasks[t], k, W.attempt[t])
<1>1. /\ W \in World /\ t \in Ids /\ W.call \in [Ids -> Call] /\ W.attempt \in [Ids -> Attempts]
      /\ W.tasks \in [Rows(W) -> Task]
  BY RowsOf, WorldFields
<1>2. k \in Call /\ k.phase = p /\ k.aborted = W.call[t].aborted
  BY <1>1 DEF Call
<1>3. /\ tasks' = W.tasks /\ ready' = W.ready /\ attempt' = W.attempt /\ deadlines' = W.deadlines
      /\ call' = [W.call EXCEPT ![t] = k]
  BY <1>1 DEF Commit, World, Entered
<1> HIDE DEF k
<1>4. [W.tasks EXCEPT ![t] = W.tasks[t]] = W.tasks /\ [W.attempt EXCEPT ![t] = W.attempt[t]] = W.attempt
  BY <1>1, SameWrite
<1>5. /\ V.tasks = W.tasks /\ V.ready = W.ready /\ V.attempt = W.attempt
      /\ V.deadlines = W.deadlines /\ V.call = [W.call EXCEPT ![t] = k]
  BY <1>4 DEF Write
<1> HIDE DEF V
<1>6. Commit(V)
  BY <1>3, <1>5 DEF Commit
<1> QED BY <1>2, <1>6 DEF V

\* ... or in the world in which its row is saved.
LEMMA PutPhase ==
  ASSUME NEW W, Fine(W), NEW t \in Rows(W), NEW row \in Task,
         NEW p \in {"none", "launched", "executing", "returned", "rejected", "leaving"},
         Commit(Entered(saveTask(W, t, row), t, p))
  PROVE  \E k \in Call : /\ k.phase = p /\ k.aborted = W.call[t].aborted
                         /\ Commit(Put(W, t, row, k, W.attempt[t]))
<1> DEFINE k == [W.call[t] EXCEPT !.phase = p]
           S == saveTask(W, t, row)
           V == Put(W, t, row, k, W.attempt[t])
           q == Requeued(W, t, row)
           T == [W.tasks EXCEPT ![t] = row]
<1>1. /\ W \in World /\ t \in Ids /\ W.call \in [Ids -> Call] /\ W.attempt \in [Ids -> Attempts]
      /\ W.tasks \in Seq(Task) /\ t \in 1..Len(W.tasks) /\ W.deadlines \in SUBSET Ids
  BY RowsOf, WorldFields DEF Rows
<1>2. k \in Call /\ k.phase = p /\ k.aborted = W.call[t].aborted
  BY <1>1 DEF Call
<1>3. T \in Seq(Task) /\ q \in Seq(Ids)
  BY <1>1, ExceptSeq, RequeuedElements
<1>4. [W.call EXCEPT ![t] = W.call[t]] = W.call /\ [W.attempt EXCEPT ![t] = W.attempt[t]] = W.attempt
  BY <1>1, SameWrite
<1>5. S = Put(W, t, row, W.call[t], W.attempt[t])
  BY SaveIsPut
<1> HIDE DEF S, q, T
<1>6. /\ S.tasks = T /\ S.ready = q /\ S.call = W.call /\ S.attempt = W.attempt
      /\ S.deadlines = W.deadlines
  BY <1>4, <1>5 DEF Put, q, T
<1>7. S \in World
  <2>1. Put(W, t, row, W.call[t], W.attempt[t])
          = [tasks |-> T, ready |-> q, call |-> W.call, attempt |-> W.attempt,
             deadlines |-> W.deadlines]
    BY <1>4 DEF Put, q, T
  <2> QED BY <2>1, <1>1, <1>3, <1>5, MadeWorld
<1>8. /\ tasks' = S.tasks /\ ready' = S.ready /\ attempt' = S.attempt /\ deadlines' = S.deadlines
      /\ call' = [S.call EXCEPT ![t] = [S.call[t] EXCEPT !.phase = p]]
  BY <1>7 DEF Commit, World, S, Entered
<1>9. call' = [W.call EXCEPT ![t] = k]
  BY <1>6, <1>8
<1> HIDE DEF k
<1>10. /\ V.tasks = T /\ V.ready = q /\ V.attempt = W.attempt
       /\ V.deadlines = W.deadlines /\ V.call = [W.call EXCEPT ![t] = k]
  BY <1>4 DEF Put, q, T
<1> HIDE DEF V
<1>11. Commit(V)
  BY <1>6, <1>8, <1>9, <1>10 DEF Commit
<1> QED BY <1>2, <1>11 DEF V

\* The invocation leaves, and its row stays.
LEMMA LeavingGood ==
  ASSUME IInv, Turn, NEW t \in Ids, call[t].phase # "none",
         NEW p \in {"rejected", "leaving"},
         p = "rejected" => tasks[t].status = "running" /\ MayExceedLimits,
         Commit(Entered(Now, t, p)), UNCHANGED <<process, resumed, executed>>
  PROVE  Good
<1> DEFINE r == tasks[t]
           a == attempt[t]
<1>1. /\ Fine(Now) /\ t \in Rows(Now) /\ Now.tasks[t] = r /\ Now.attempt[t] = a /\ r \in Task
      /\ Now.call[t] = call[t] /\ Sound(r, call[t], a)
  BY ActiveRow
<1>2. PICK k \in Call : k.phase = p /\ Commit(Write(Now, t, r, k, a))
  <2>1. p \in {"none", "launched", "executing", "returned", "rejected", "leaving"}
    OBVIOUS
  <2>2. \E k \in Call : /\ k.phase = p /\ k.aborted = Now.call[t].aborted
                        /\ Commit(Write(Now, t, Now.tasks[t], k, Now.attempt[t]))
    BY <1>1, <2>1, WritePhase
  <2> QED BY <1>1, <2>2
<1>3. Sound(r, k, a)
  BY <1>1, <1>2, SoundCall
<1>4. Allowed(Now, t, r, k, a)
  BY <1>1, <1>3, AllowedCall
<1> DEFINE V == Write(Now, t, r, k, a)
<1>5. Done(Now, t, r, k, a, V)
  BY <1>1, <1>4, WriteDone
<1>6. Commit(V)
  BY <1>2
<1> HIDE DEF V
<1> QED BY <1>1, <1>2, <1>5, <1>6, LastDone

\* Begin
LEMMA BeginGood == ASSUME IInv, NEW t \in Ids, Begin(t) PROVE Good
<1> DEFINE r == tasks[t]
           a == attempt[t]
           s(status) == [r EXCEPT !.status = status]
<1>1. /\ Turn /\ call[t].phase = "launched" /\ UNCHANGED <<process, resumed, executed>>
  BY DEF Begin, InPhase
<1>2. /\ Fine(Now) /\ t \in Rows(Now) /\ Now.tasks[t] = r /\ Now.attempt[t] = a /\ r \in Task
      /\ Now.call[t] = call[t] /\ Sound(r, call[t], a) /\ r.wait.ids \subseteq Children(Now, t)
      /\ a \in Attempts
  BY <1>1, ActiveRow
<1>3. CASE call[t].aborted \/ r.status \notin Ready
  <2>1. Commit(Entered(Now, t, "leaving"))
    BY <1>3 DEF Begin, Entered
  <2> QED BY <1>1, <2>1, LeavingGood
<1>4. ASSUME r.status \in Ready, NEW status \in {"running", "needs_attention"}, NEW k \in Call,
             k.phase \in {"executing", "leaving"}
      PROVE  /\ s(status) \in Task /\ s(status).status = status
             /\ Allowed(Now, t, s(status), k, a) /\ r.run = "none" /\ a = "none"
  <2> DEFINE x == s(status)
  <2>1. /\ x \in Task /\ x.status = status /\ x.run = r.run /\ x.wait = r.wait
        /\ x.key = r.key /\ x.parent = r.parent /\ x.root = r.root /\ x.effect = r.effect
    BY <1>2 DEF Task, Ready
  <2> HIDE DEF x
  <2>2. r.run = "none" /\ a = "none" /\ r.status \notin {"cancelling"} \cup Terminal
    BY <1>2, <1>4 DEF Sound, Ready, Decided, Terminal
  <2>3. Sound(x, k, a) /\ x.status \notin Terminal /\ x.status # "cancelling"
    BY <2>1, <2>2 DEF Sound, Terminal
  <2>4. Fits(Now, t, x, k, a)
    BY <1>2, <2>1, <2>2, <2>3, FitsOpen
  <2>5. Allowed(Now, t, x, k, a)
    BY <1>2, <2>1, <2>2, <2>4 DEF Allowed, Ended
  <2> QED BY <2>1, <2>2, <2>5 DEF x
<1>5. ASSUME r.status \in Ready, Commit([saveTask(Now, t, s("running")) EXCEPT !.call[t].phase = "executing"])
      PROVE  Good
  <2> DEFINE x == s("running")
  <2>1. x \in Task
    BY <1>2 DEF Task, Ready
  <2>2. Commit(Entered(saveTask(Now, t, x), t, "executing"))
    BY <1>5 DEF Entered
  <2> HIDE DEF x
  <2>3. PICK k \in Call : k.phase = "executing" /\ Commit(Put(Now, t, x, k, a))
    BY <1>2, <2>1, <2>2, PutPhase
  <2>4. Allowed(Now, t, x, k, a) /\ x.status = "running"
    BY <1>4, <1>5, <2>3 DEF x
  <2> DEFINE V == Put(Now, t, x, k, a)
  <2>5. Done(Now, t, x, k, a, V) /\ Commit(V)
    BY <1>2, <2>3, <2>4, PutDone
  <2> HIDE DEF V
  <2>6. Mild(t, k, a)
    BY <2>3 DEF Mild
  <2>7. Fine(V) /\ Follows(Now, V) /\ Quiet(Now, V) /\ (~MicrotaskGaps => Calm(V))
    BY <1>1, <1>2, <2>4, <2>5, <2>6, DoneCalm
  <2> QED BY <1>1, <2>5, <2>7, TurnGood DEF IInv
<1>6. ASSUME r.status \in Ready,
             Commit([saveTask(Now, t, s("needs_attention")) EXCEPT !.call[t].phase = "leaving"])
      PROVE  Good
  <2> DEFINE x == s("needs_attention")
  <2>1. x \in Task
    BY <1>2 DEF Task
  <2>2. Commit(Entered(saveTask(Now, t, x), t, "leaving"))
    BY <1>6 DEF Entered
  <2> HIDE DEF x
  <2>3. PICK k \in Call : k.phase = "leaving" /\ Commit(Put(Now, t, x, k, a))
    BY <1>2, <2>1, <2>2, PutPhase
  <2>4. Allowed(Now, t, x, k, a) /\ x.status = "needs_attention"
    BY <1>4, <1>6, <2>3 DEF x
  <2> DEFINE V == Put(Now, t, x, k, a)
  <2>5. Done(Now, t, x, k, a, V) /\ Commit(V)
    BY <1>2, <2>3, <2>4, PutDone
  <2> HIDE DEF V
  <2> QED BY <1>1, <1>2, <2>3, <2>4, <2>5, LastDone
<1>7. CASE ~(call[t].aborted \/ r.status \notin Ready)
  BY <1>5, <1>6, <1>7 DEF Begin
<1> QED BY <1>3, <1>7

\* FinishRejected
LEMMA FinishRejectedGood == ASSUME IInv, NEW t \in Ids, FinishRejected(t) PROVE Good
<1>1. /\ Turn /\ call[t].phase # "none" /\ MayExceedLimits /\ tasks[t].status = "running"
      /\ Commit(Entered(Now, t, "rejected"))
      /\ UNCHANGED <<process, resumed, executed>>
  BY DEF FinishRejected, Over, Entered
<1> QED BY <1>1, LeavingGood

\* Below children of t nothing of the cancelled work is t or above it.
LEMMA ChildrenOnly ==
  ASSUME NEW W, Fine(W), NEW t \in Rows(W), NEW S, S \subseteq Children(W, t)
  PROVE  t \notin Unfinished(W, S)
<1> DEFINE U == Unfinished(W, S)
           root == W.tasks[t].root
<1>1. S \subseteq Rows(W)
  BY RowsOf
<1>2. \A c \in S : W.tasks[c].root = root
  <2>1. ASSUME NEW c \in S PROVE W.tasks[c].root = W.tasks[t].root
    <3>1. c \in Rows(W) /\ W.tasks[c].parent = t /\ t # 0
      BY RowsOf DEF Children
    <3> QED BY <3>1, RowsOf
  <2> QED BY <2>1
<1> HIDE DEF root
<1>3. /\ U \subseteq Rows(W)
      /\ \A x \in Rows(W) : x \in U <=> ~Ended(W, x) /\ (x \in S \/ W.tasks[x].parent \in U)
  BY <1>1, <1>2, UnfinishedOf
<1> HIDE DEF U
<1>4. SUFFICES ASSUME t \in U PROVE FALSE
  BY DEF U
<1>5. U \in SUBSET Nat
  BY <1>3, RowsOf
<1>6. PICK m \in U : \A y \in U : m <= y
  BY <1>4, <1>5, Least
<1>7. /\ m \in Nat /\ W.tasks[m].parent \in Nat /\ W.tasks[m].parent < m /\ m <= t /\ t \in Nat
      /\ m \in Rows(W)
  BY <1>3, <1>4, <1>5, <1>6, RowsOf
<1>8. W.tasks[m].parent \notin U
  BY <1>6, <1>7
<1>9. m \in S /\ W.tasks[m].parent = t
  BY <1>3, <1>6, <1>7, <1>8 DEF Children
<1> QED BY <1>7, <1>9

\* What the row of a running task may become when its invocation ends.
LEMMA TransitionRow ==
  ASSUME NEW t \in Rows(Now), Fine(Now), tasks[t].status = "running", tasks[t].run = "none",
         NEW row \in Transition(t)
  PROVE  LET r == tasks[t] IN
         /\ row \in Task /\ row.parent = r.parent /\ row.root = r.root /\ row.key = r.key
         /\ row.effect = r.effect /\ row.run = "none" /\ row.wait.ids \subseteq Children(Now, t)
         /\ row.status \notin Terminal
         /\ row.status = "cancelling" => row.outcome \in {"failed", "cancelled"}
         /\ row.status = "completing" => row.outcome \in Terminal
<1> DEFINE r == tasks[t]
<1>1. /\ r \in Task /\ r.wait \in Wait /\ r.wait.ids \subseteq Children(Now, t)
      /\ Children(Now, t) \subseteq Rows(Now) /\ \A u \in Rows(Now) : u \in Ids
      /\ r.status = "running" /\ r.run = "none"
  BY RowsOf, RowFields, NowFields
<1>2. \/ row \in {Blocked(t, TRUE), Blocked(t, FALSE), Ending(t, "failed"), Ending(t, "cancelled"),
                  Pending(t), Completing(t)}
      \/ \E wait \in Waits(t) : row = Waiting(t, wait)
  BY DEF Transition
<1>3. CASE row \in {Blocked(t, TRUE), Blocked(t, FALSE)}
  BY <1>1, <1>3 DEF Blocked, Task, Terminal
<1>4. CASE row \in {Ending(t, "failed"), Ending(t, "cancelled")}
  BY <1>1, <1>4 DEF Ending, Task, Terminal, Decided
<1>5. CASE row = Pending(t)
  BY <1>1, <1>5 DEF Pending, Task, Terminal, Ready
<1>6. CASE row = Completing(t)
  BY <1>1, <1>6 DEF Completing, Task, Terminal, Decided
<1>7. ASSUME NEW wait \in Waits(t), row = Waiting(t, wait)
      PROVE  /\ row \in Task /\ row.parent = r.parent /\ row.root = r.root /\ row.key = r.key
             /\ row.effect = r.effect /\ row.run = "none" /\ row.wait.ids \subseteq Children(Now, t)
             /\ row.status = "waiting"
  <2>1. wait \in Wait /\ wait.ids \subseteq Children(Now, t)
    <3>1. \/ \E kind \in WaitKinds : wait = WaitFor(kind, {})
          \/ \E kind \in WaitKinds, ids \in SUBSET Children(Now, t) : wait = WaitFor(kind, ids)
      BY <1>7 DEF Waits
    <3>2. PICK kind \in WaitKinds, ids \in SUBSET Children(Now, t) : wait = WaitFor(kind, ids)
      BY <3>1
    <3>3. ids \in SUBSET Ids
      BY <1>1
    <3> QED BY <3>2, <3>3 DEF WaitFor, Wait
  <2> QED BY <1>1, <1>7, <2>1 DEF Waiting, Task
<1>8. CASE \E wait \in Waits(t) : row = Waiting(t, wait)
  BY <1>7, <1>8 DEF Terminal
<1> QED BY <1>2, <1>3, <1>4, <1>5, <1>6, <1>8

\* Finish
LEMMA FinishGood == ASSUME IInv, NEW t \in Ids, Finish(t) PROVE Good
<1> DEFINE r == tasks[t]
           a == attempt[t]
<1>1. /\ Turn /\ call[t].phase \in {"executing", "returned"} /\ UNCHANGED <<process, resumed, executed>>
  BY DEF Finish, Over
<1>2. /\ Fine(Now) /\ t \in Rows(Now) /\ Now.tasks[t] = r /\ Now.attempt[t] = a /\ r \in Task
      /\ Now.call[t] = call[t] /\ Sound(r, call[t], a) /\ a \in Attempts
  BY <1>1, ActiveRow
<1>3. CASE process # "up" \/ r.status # "running"
  <2>1. Commit(Entered(Now, t, "leaving"))
    BY <1>3 DEF Finish, Entered
  <2> QED BY <1>1, <2>1, LeavingGood
<1>4. CASE process = "up" /\ r.status = "running"
  <2>1. PICK row \in Transition(t) :
          LET owned == IF row.status = "cancelling" THEN Children(Now, t) ELSE {}
          IN  Commit(Entered(saveTask(CancelAndAbort(Now, owned), t, row), t, "leaving"))
    BY <1>4 DEF Finish, Entered
  <2> DEFINE S == IF row.status = "cancelling" THEN Children(Now, t) ELSE {}
             A == CancelAndAbort(Now, S)
             root == r.root
             U == Unfinished(Now, S)
  <2>2. Commit(Entered(saveTask(A, t, row), t, "leaving"))
    BY <2>1
  <2>3. S \subseteq Children(Now, t) /\ (row.status = "cancelling" => S = Children(Now, t))
    OBVIOUS
  <2> HIDE DEF S
  <2>4. S \subseteq Rows(Now) /\ \A c \in S : Now.tasks[c].root = root
    <3>1. Children(Now, t) \subseteq Rows(Now)
      BY <1>2, RowsOf
    <3>2. ASSUME NEW c \in S PROVE Now.tasks[c].root = root
      <4>1. c \in Rows(Now) /\ Now.tasks[c].parent = t /\ t # 0
        BY <1>2, <2>3, RowsOf DEF Children
      <4> QED BY <4>1, <1>2, RowsOf
    <3> QED BY <2>3, <3>1, <3>2
  <2> HIDE DEF root
  <2>5. /\ Goes(Now, A, root)
        /\ \A u \in Rows(Now) : A.tasks[u] = IF u \in U THEN Cancelled(Now.tasks[u]) ELSE Now.tasks[u]
        /\ \A u \in S : ~Ended(Now, u) => u \in U
        /\ \A u \in Ids : A.call[u].phase = Now.call[u].phase
        /\ A.attempt = Now.attempt
    BY <1>2, <2>4, CancelGoes
  <2>6. t \notin U
    BY <1>2, <2>3, ChildrenOnly
  <2> HIDE DEF A, U
  <2>7. /\ Fine(A) /\ Rows(A) = Rows(Now) /\ A.tasks[t] = r /\ A.attempt[t] = a
        /\ Kept(Now, A) /\ Inside(Now, A, root)
    BY <1>2, <2>5, <2>6 DEF Goes, Kept, Rows
  <2>8. Children(A, t) = Children(Now, t)
    BY <2>7 DEF Children, Kept, Moved
  <2>9. r.run = "none" /\ a = "none"
    BY <1>1, <1>2 DEF Sound
  <2>10. /\ row \in Task /\ row.parent = r.parent /\ row.root = r.root /\ row.key = r.key
         /\ row.effect = r.effect /\ row.run = "none" /\ row.wait.ids \subseteq Children(Now, t)
         /\ row.status \notin Terminal
         /\ row.status = "cancelling" => row.outcome \in {"failed", "cancelled"}
         /\ row.status = "completing" => row.outcome \in Terminal
    BY <1>2, <1>4, <2>9, TransitionRow
  <2>11. PICK k \in Call : k.phase = "leaving" /\ Commit(Put(A, t, row, k, a))
    <3>1. \E k \in Call : /\ k.phase = "leaving" /\ k.aborted = A.call[t].aborted
                          /\ Commit(Put(A, t, row, k, A.attempt[t]))
      BY <1>2, <2>2, <2>7, <2>10, PutPhase
    <3> QED BY <3>1, <2>7
  <2>12. Sound(row, k, a)
    BY <2>9, <2>10, <2>11 DEF Sound
  <2>13. row.status = "cancelling" =>
           \A c \in Children(A, t) : A.tasks[c].status \in {"cancelling"} \cup Terminal
    <3>1. ASSUME row.status = "cancelling", NEW c \in Children(A, t)
          PROVE  A.tasks[c].status \in {"cancelling"} \cup Terminal
      <4>1. c \in S /\ c \in Rows(Now) /\ Now.tasks[c] \in Task
        BY <1>2, <2>3, <2>4, <2>8, <3>1, RowsOf
      <4>2. CASE c \in U
        BY <4>1, <4>2, <2>5, CancelledRow
      <4>3. CASE c \notin U
        BY <4>1, <4>3, <2>5 DEF Ended
      <4> QED BY <4>2, <4>3
    <3> QED BY <3>1
  <2>14. Fits(A, t, row, k, a)
    <3>1. A.tasks[t].status \notin {"cancelling"} \cup Terminal
      BY <1>4, <2>7 DEF Terminal
    <3> QED BY <1>2, <2>7, <2>8, <2>10, <2>12, <2>13, <3>1, FitsOpen
  <2>15. Allowed(A, t, row, k, a)
    <3>1. ~Ended(A, t) /\ A.tasks[t].status # "cancelling"
      BY <1>4, <2>7 DEF Ended, Terminal
    <3> QED BY <3>1, <1>2, <2>7, <2>10, <2>14 DEF Allowed
  <2> DEFINE V == Put(A, t, row, k, a)
  <2>16. Done(A, t, row, k, a, V) /\ Commit(V)
    BY <1>2, <2>7, <2>11, <2>15, PutDone
  <2> HIDE DEF V
  <2>17. /\ Fine(V) /\ Follows(A, V) /\ Rows(V) = Rows(Now)
         /\ V.tasks[t] = row /\ V.call[t] = k /\ V.attempt[t] = a
         /\ \A u \in Rows(Now) : u # t => V.tasks[u] = A.tasks[u]
         /\ \A u \in Ids : u # t => V.call[u] = A.call[u] /\ V.attempt[u] = attempt[u]
    BY <2>5, <2>7, <2>16, NowFields DEF Done
  <2>18. Follows(Now, V)
    <3>1. Follows(Now, A) /\ Len(V.tasks) \in Nat
      BY <1>2, <2>7, <2>17, KeptFollows, WorldFields DEF Fine
    <3> QED BY <3>1, <1>2, <2>7, <2>17, FollowsTwice
  <2>19. ASSUME ~MicrotaskGaps, NEW u \in Rows(V), Stray(V, u)
         PROVE  V.tasks[t].root = V.tasks[u].root
    <3>1. u # t /\ u \in Ids /\ u \in Rows(Now)
      BY <1>2, <2>9, <2>17, <2>19, RowsOf DEF Stray
    <3>2. attempt[u] = "executing" /\ A.tasks[u].status = "cancelling"
      BY <3>1, <2>17, <2>19 DEF Stray
    <3>3. Now.tasks[u].root = root
      <4>1. ~Stray(Now, u)
        BY <1>1, <2>19, <3>1, TurnCalm DEF Calm
      <4> QED BY <4>1, <3>1, <3>2, <2>7, NowFields DEF Inside, Stray
    <3>4. A.tasks[u].root = Now.tasks[u].root
      BY <3>1, <2>7 DEF Kept, Moved
    <3> QED BY <3>1, <3>3, <3>4, <2>10, <2>17 DEF root
  <2>20. \A u \in Ids : u # t => V.call[u].phase = call[u].phase
    BY <2>5, <2>17, NowFields
  <2>21. \A u \in Ids : V.attempt[u] = "executing" => attempt[u] = "executing"
    BY <2>17, <2>9
  <2> QED BY <1>1, <2>11, <2>16, <2>17, <2>18, <2>19, <2>20, <2>21, LastGood
<1> QED BY <1>3, <1>4

\* SettleRejected
LEMMA SettleRejectedGood == ASSUME IInv, NEW t \in Ids, SettleRejected(t) PROVE Good
<1> DEFINE r == tasks[t]
           a == attempt[t]
           s == [r EXCEPT !.status = "needs_attention", !.wait = NoWait, !.outcome = "none"]
<1>1. /\ call[t].phase = "rejected" /\ UNCHANGED <<process, resumed, executed>>
  BY DEF SettleRejected
<1>2. /\ Fine(Now) /\ t \in Rows(Now) /\ Now.tasks[t] = r /\ Now.attempt[t] = a /\ r \in Task
      /\ Now.call[t] = call[t] /\ Sound(r, call[t], a) /\ a \in Attempts
  BY <1>1, ActiveRow
<1>3. r.status \notin Terminal /\ r.run = "none" /\ a = "none"
  BY <1>1, <1>2 DEF Sound
<1>4. /\ FenceStands => r.status = "running"
      /\ ~MicrotaskGaps => \A u \in Ids : u # t => call[u].phase \notin {"rejected", "leaving"}
      /\ ~MicrotaskGaps => \A u \in Rows(Now) : ~Stray(Now, u)
  <2>1. ASSUME ~MicrotaskGaps, NEW u \in Rows(Now) PROVE ~Stray(Now, u)
    <3>1. u \in Ids
      BY <1>2, RowsOf
    <3>2. \A x \in Ids : call[x].phase # "leaving"
      BY <1>1, <2>1 DEF IInv, Between
    <3> QED BY <3>1, <3>2, <2>1, NowFields DEF IInv, Between, Stray
  <2> QED BY <1>1, <2>1 DEF IInv, Between
<1>5. /\ s \in Task /\ s.status = "needs_attention" /\ s.wait.ids = {} /\ s.run = "none"
      /\ s.parent = r.parent /\ s.root = r.root /\ s.key = r.key /\ s.effect = r.effect
  <2>1. NoWait \in Wait /\ NoWait.ids = {}
    BY DEF NoWait, WaitFor, Wait
  <2> QED BY <1>2, <1>3, <2>1 DEF Task
<1>6. \/ Commit(Entered(saveTask(Now, t, s), t, "leaving"))
      \/ Commit(Entered(Now, t, "leaving"))
  BY DEF SettleRejected, Entered
<1> HIDE DEF s
<1>7. PICK row \in {r, s}, k \in Call : 
        /\ k.phase = "leaving"
        /\ \/ row = s /\ Commit(Put(Now, t, row, k, a))
           \/ row = r /\ Commit(Write(Now, t, row, k, a))
  <2>1. CASE Commit(Entered(saveTask(Now, t, s), t, "leaving"))
    BY <1>2, <1>5, <2>1, PutPhase
  <2>2. CASE Commit(Entered(Now, t, "leaving"))
    BY <1>2, <2>2, WritePhase
  <2> QED BY <1>6, <2>1, <2>2
<1>8. Allowed(Now, t, row, k, a)
  <2>1. CASE row = r
    <3>1. Sound(r, k, a)
      BY <1>1, <1>2, <1>7, SoundCall
    <3> QED BY <2>1, <3>1, <1>2, AllowedCall
  <2>2. CASE row = s
    <3>1. Sound(s, k, a)
      BY <1>3, <1>5, <1>7 DEF Sound, Terminal
    <3>2. Fits(Now, t, s, k, a)
      <4> DEFINE p == r.parent
      <4>1. p # 0 => ~Ended(Now, p)
        BY <1>2, <1>3 DEF Fine, Nested, Ended
      <4>2. p # 0 => ~(FenceStands /\ Now.tasks[p].status = "cancelling")
        BY <1>2, <1>3, <1>4, OpenParent DEF Terminal
      <4> QED BY <1>2, <1>5, <3>1, <4>1, <4>2 DEF Fits, Terminal
    <3> QED BY <1>2, <1>3, <1>4, <1>5, <2>2, <3>2 DEF Allowed, Ended
  <2> QED BY <2>1, <2>2
<1>9. PICK V : Done(Now, t, row, k, a, V) /\ Commit(V)
  <2>1. CASE row = s /\ Commit(Put(Now, t, row, k, a))
    BY <1>2, <1>8, <2>1, PutDone
  <2>2. CASE row = r /\ Commit(Write(Now, t, row, k, a))
    BY <1>2, <1>8, <2>2, WriteDone
  <2> QED BY <1>7, <2>1, <2>2
<1>10. /\ Fine(V) /\ Follows(Now, V) /\ Rows(V) = Rows(Now)
       /\ V.tasks[t] = row /\ V.call[t] = k /\ V.attempt[t] = a
       /\ \A u \in Rows(Now) : u # t => V.tasks[u] = Now.tasks[u]
       /\ \A u \in Ids : u # t => V.call[u] = call[u] /\ V.attempt[u] = attempt[u]
  BY <1>9, NowFields DEF Done
<1>11. ASSUME ~MicrotaskGaps, NEW u \in Rows(V) PROVE ~Stray(V, u)
  <2>1. ~Stray(Now, u) /\ u \in Ids
    BY <1>2, <1>4, <1>10, <1>11, RowsOf
  <2> QED BY <2>1, <1>3, <1>10, NowFields DEF Stray
<1>12. Between'
  <2>1. \A u \in Ids : V.attempt[u] = "executing" => attempt[u] = "executing"
    BY <1>3, <1>10
  <2>2. \A u \in Ids : u # t => V.call[u].phase = call[u].phase
    BY <1>10
  <2> QED BY <1>1, <1>4, <1>7, <1>9, <1>10, <1>11, <2>1, <2>2, LastBetween
<1>13. Effects' /\ process' \in {"up", "closing", "down"} /\ resumed' \in BOOLEAN
  BY <1>1, <1>9, <1>10, EffectsStay DEF IInv
<1> QED BY <1>9, <1>10, <1>12, <1>13, StepGood

\* The invocation of t has ended, and the tree is reconciled while the process is up.
LEMMA LeaveDone ==
  ASSUME IInv, NEW t \in Ids, Leave(t)
  PROVE  /\ t \in Rows(Now)
         /\ \E W : /\ Done(Now, t, tasks[t], NoCall, attempt[t], W)
                  /\ Commit(IF process = "up" THEN Reconciled(W, t) ELSE W)
<1> DEFINE r == tasks[t]
           a == attempt[t]
           W == Write(Now, t, r, NoCall, a)
<1>1. call[t].phase = "leaving" /\ UNCHANGED <<process, resumed, executed>>
  BY DEF Leave
<1>2. /\ Fine(Now) /\ t \in Rows(Now) /\ Now.tasks[t] = r /\ Now.attempt[t] = a /\ r \in Task
      /\ Now.call[t] = call[t] /\ Sound(r, call[t], a) /\ a \in Attempts
      /\ tasks \in Seq(Task) /\ t \in DOMAIN tasks /\ attempt \in [Ids -> Attempts]
  BY <1>1, ActiveRow
<1>3. NoCall \in Call /\ NoCall.phase = "none"
  BY DEF NoCall, Call
<1>4. [Now EXCEPT !.call[t] = NoCall] = W
  <2> DEFINE X == [Now EXCEPT !.call[t] = NoCall]
  <2>1. /\ X.tasks = tasks /\ X.ready = ready /\ X.call = [call EXCEPT ![t] = NoCall]
        /\ X.attempt = attempt /\ X.deadlines = deadlines
        /\ X = [tasks |-> tasks, ready |-> ready, call |-> [call EXCEPT ![t] = NoCall],
                attempt |-> attempt, deadlines |-> deadlines]
    BY DEF Now
  <2>2. [tasks EXCEPT ![t] = r] = tasks /\ [attempt EXCEPT ![t] = a] = attempt
    BY <1>2, SameRow, SameWrite
  <2>3. W = [tasks |-> tasks, ready |-> ready, call |-> [call EXCEPT ![t] = NoCall],
             attempt |-> attempt, deadlines |-> deadlines]
    BY <2>2, NowFields DEF Write
  <2> QED BY <2>1, <2>3
<1>5. Done(Now, t, r, NoCall, a, W)
  <2>1. Sound(r, NoCall, a)
    BY <1>1, <1>2, <1>3, SoundCall
  <2>2. Allowed(Now, t, r, NoCall, a)
    BY <1>2, <1>3, <2>1, AllowedCall
  <2> QED BY <1>2, <2>2, WriteDone
<1>6. Commit(IF process = "up" THEN Reconciled(W, t) ELSE W)
  BY <1>4 DEF Leave
<1> HIDE DEF W
<1> QED BY <1>2, <1>5, <1>6

\* Leave
LEMMA LeaveGood == ASSUME IInv, NEW t \in Ids, Leave(t) PROVE Good
<1> DEFINE r == tasks[t]
           a == attempt[t]
           root == Now.tasks[t].root
<1>1. call[t].phase = "leaving" /\ UNCHANGED <<process, resumed, executed>>
  BY DEF Leave
<1>2. Fine(Now) /\ t \in Rows(Now) /\ Now.tasks[t] = r
  BY <1>1, ActiveRow
<1>3. NoCall.phase = "none"
  BY DEF NoCall
<1>5. PICK W : Done(Now, t, r, NoCall, a, W) /\ Commit(IF process = "up" THEN Reconciled(W, t) ELSE W)
  BY LeaveDone
<1>6. Commit(IF process = "up" THEN Reconciled(W, t) ELSE W)
  BY <1>5
<1>7. /\ Fine(W) /\ Follows(Now, W) /\ Rows(W) = Rows(Now)
      /\ W.tasks[t] = r /\ W.call[t] = NoCall /\ W.attempt[t] = a
      /\ \A u \in Rows(Now) : u # t => W.tasks[u] = Now.tasks[u]
      /\ \A u \in Ids : u # t => W.call[u] = call[u] /\ W.attempt[u] = attempt[u]
      /\ root = W.tasks[t].root
  BY <1>2, <1>5, NowFields DEF Done
<1>8. /\ ~MicrotaskGaps => \A u \in Ids : u # t => call[u].phase \notin {"rejected", "leaving"}
      /\ \A u \in Ids : W.attempt[u] = "executing" => attempt[u] = "executing"
      /\ process # "up" => \A u \in Ids : attempt[u] # "executing"
  BY <1>1, <1>7 DEF IInv, Between
<1>9. ASSUME ~MicrotaskGaps, NEW u \in Rows(W), W.tasks[u].root # root PROVE ~Stray(W, u)
  <2>1. u # t /\ u \in Ids /\ W.tasks[u] = tasks[u] /\ u \in Rows(Now)
    BY <1>2, <1>7, <1>9, RowsOf, NowFields
  <2>2. ASSUME Stray(W, u) PROVE FALSE
    <3>1. attempt[u] = "executing" /\ tasks[u].status = "cancelling"
      BY <2>1, <2>2, <1>7 DEF Stray
    <3>2. PICK x \in Ids : call[x].phase = "leaving" /\ tasks[x].root = tasks[u].root
      BY <1>9, <2>1, <3>1 DEF IInv, Between
    <3>3. x = t
      BY <1>8, <1>9, <3>2
    <3> QED BY <3>2, <3>3, <2>1, <1>7, <1>9
  <2> QED BY <2>2
<1>10. PICK V : /\ Commit(V) /\ Fine(V) /\ Kept(W, V)
                /\ ~MicrotaskGaps => \A u \in Rows(V) : ~Stray(V, u)
  <2>1. CASE process = "up"
    <3> DEFINE V == Reconciled(W, t)
    <3>1. Commit(V)
      BY <2>1, <1>6
    <3>2. /\ Goes(W, V, root)
          /\ (\A u \in Rows(W) : W.tasks[u].root # root => ~Stray(W, u)) => Calm(V)
      BY <1>2, <1>7, ReconciledGoes
    <3> HIDE DEF V
    <3> QED BY <3>1, <3>2, <1>9 DEF Goes, Calm
  <2>2. CASE process # "up"
    <3>1. Commit(W) /\ \A u \in Ids : W.attempt[u] # "executing"
      BY <2>2, <1>6, <1>8
    <3>2. \A u \in Rows(W) : ~Stray(W, u)
      BY <3>1, <1>7, RowsOf DEF Stray
    <3>3. Kept(W, W)
      BY DEF Kept, Moved, Terminal
    <3> QED BY <3>1, <3>2, <3>3, <1>7
  <2> QED BY <2>1, <2>2
<1>11. \A u \in Ids : V.call[u].phase \in {"rejected", "leaving"} =>
                        u # t /\ V.call[u].phase = call[u].phase
  BY <1>3, <1>7, <1>10 DEF Kept
<1>12. \A u \in Ids : V.attempt[u] = "executing" => attempt[u] = "executing"
  BY <1>8, <1>10 DEF Kept
<1>13. Follows(Now, V)
  <2>1. Follows(W, V) /\ Len(V.tasks) \in Nat
    BY <1>7, <1>10, KeptFollows, WorldFields DEF Fine
  <2> QED BY <2>1, <1>2, <1>7, <1>10, FollowsTwice
<1>14. Between'
  <2>1. V.call[t].phase # "rejected"
    BY <1>11
  <2> QED BY <2>1, <1>1, <1>8, <1>10, <1>11, <1>12, LastBetween
<1>15. Effects' /\ process' \in {"up", "closing", "down"} /\ resumed' \in BOOLEAN
  BY <1>1, <1>10, <1>13, EffectsStay DEF IInv
<1> QED BY <1>10, <1>13, <1>14, <1>15, StepGood

-----------------------------------------------------------------------------
(* The owned runs.                                                          *)

\* The row of t with another state of its run.
Ran(t, run) == [tasks[t] EXCEPT !.run = run]

\* What it is.
LEMMA RanRow ==
  ASSUME NEW t, tasks[t] \in Task, NEW run \in Runs
  PROVE  LET s == Ran(t, run) IN
         /\ s \in Task /\ s.status = tasks[t].status /\ s.outcome = tasks[t].outcome
         /\ s.run = run /\ s.key = tasks[t].key /\ s.wait = tasks[t].wait
         /\ s.parent = tasks[t].parent /\ s.root = tasks[t].root /\ s.effect = tasks[t].effect
         /\ run = tasks[t].run => s = tasks[t]
BY DEF Ran, Task, Runs

\* Such a row is allowed when it is sound and, where runs follow, outcomes stay.
LEMMA RanAllowed ==
  ASSUME IInv, NEW t \in Rows(Now), NEW run \in Runs, NEW a \in Attempts,
         Sound(Ran(t, run), call[t], a),
         RunsFollow => tasks[t].status \notin Terminal \/ run = tasks[t].run
  PROVE  /\ Allowed(Now, t, Ran(t, run), call[t], a)
         /\ Ran(t, run).status = tasks[t].status /\ Ran(t, run).root = tasks[t].root
<1> DEFINE s == Ran(t, run)
<1>1. /\ Fine(Now) /\ t \in Ids /\ Now.tasks[t] = tasks[t] /\ tasks[t] \in Task
      /\ call[t] \in Call /\ tasks[t].wait.ids \subseteq Children(Now, t)
  BY RowsOf, WorldFields, NowFields DEF IInv, Fine
<1>2. /\ s \in Task /\ s.status = tasks[t].status /\ s.key = tasks[t].key /\ s.wait = tasks[t].wait
      /\ s.parent = tasks[t].parent /\ s.root = tasks[t].root /\ s.effect = tasks[t].effect
      /\ run = tasks[t].run => s = tasks[t]
  BY <1>1, RanRow
<1> HIDE DEF s
<1>3. Fits(Now, t, s, call[t], a)
  <2>1. Sound(s, call[t], a)
    BY DEF s
  <2> QED BY <1>1, <1>2, <2>1, FitsAlike
<1>4. Allowed(Now, t, s, call[t], a)
  <2>1. RunsFollow => (Ended(Now, t) => s = tasks[t])
    BY <1>1, <1>2 DEF Ended
  <2> QED BY <2>1, <1>1, <1>2, <1>3 DEF Allowed
<1> QED BY <1>2, <1>4 DEF s

\* Where runs follow and it is a turn, an executed run belongs to a waiting task.
LEMMA RunWaits ==
  ASSUME IInv, Turn, RunsFollow, NEW t \in Rows(Now), attempt[t] = "executing"
  PROVE  tasks[t].status = "waiting" /\ tasks[t].run = "running"
<1>1. Sound(tasks[t], call[t], attempt[t])
  BY RowsOf, NowFields DEF IInv
<1>2. tasks[t].status # "cancelling"
  <2>1. tasks[t].key \in AgentKeys
    BY <1>1 DEF Sound
  <2> QED BY <2>1, NoStray DEF RunsFollow
<1> QED BY <1>1, <1>2 DEF Sound

\* A world in which the rows and the attempts are others.
LEMMA TwoFields ==
  ASSUME NEW T, NEW A, NEW X, X = [Now EXCEPT !.tasks = T, !.attempt = A]
  PROVE  X = [tasks |-> T, ready |-> ready, call |-> call, attempt |-> A, deadlines |-> deadlines]
BY DEF Now

\* The attempt of a run begins.
LEMMA LaunchRunDone ==
  ASSUME IInv, NEW t \in Ids, LaunchRun(t)
  PROVE  \E row, k, a, W : /\ Done(Now, t, row, k, a, W) /\ Mild(t, k, a)
                           /\ row.root = Now.tasks[t].root /\ Commit(Reconciled(W, t))
<1> DEFINE r == tasks[t]
           k == call[t]
           s == Ran(t, "running")
           W == Write(Now, t, s, k, "executing")
<1>1. /\ process = "up" /\ Turn /\ t \in Rows(Now) /\ attempt[t] = "none" /\ r.run \in Runnable
      /\ UNCHANGED <<process, resumed, executed>> /\ resumed' \in BOOLEAN
  BY DEF LaunchRun, Callable, IInv
<1>2. /\ Fine(Now) /\ Now.tasks[t] = r /\ r \in Task /\ Sound(r, k, "none") /\ t \in DOMAIN tasks
      /\ tasks \in Seq(Task) /\ call \in [Ids -> Call] /\ "running" \in Runs
      /\ "executing" \in Attempts
  BY <1>1, RowsOf, WorldFields, NowFields DEF IInv, Fine, Runs, Runnable, Attempts
<1>3. [Now EXCEPT !.tasks[t].run = "running", !.attempt[t] = "executing"] = W
  <2> DEFINE X == [Now EXCEPT !.tasks[t].run = "running", !.attempt[t] = "executing"]
  <2>1. X = [tasks |-> [tasks EXCEPT ![t] = s], ready |-> ready, call |-> call,
             attempt |-> [attempt EXCEPT ![t] = "executing"], deadlines |-> deadlines]
    <3>1. X = [Now EXCEPT !.tasks = [tasks EXCEPT ![t].run = "running"],
                          !.attempt = [attempt EXCEPT ![t] = "executing"]]
      BY DEF Now
    <3>2. [tasks EXCEPT ![t].run = "running"] = [tasks EXCEPT ![t] = s]
      BY DEF Ran
    <3>3. X = [Now EXCEPT !.tasks = [tasks EXCEPT ![t] = s],
                          !.attempt = [attempt EXCEPT ![t] = "executing"]]
      BY <3>1, <3>2
    <3> HIDE DEF X
    <3> QED BY <3>3, TwoFields
  <2>2. [call EXCEPT ![t] = k] = call
    BY <1>2, SameWrite
  <2>3. W = [tasks |-> [tasks EXCEPT ![t] = s], ready |-> ready, call |-> call,
             attempt |-> [attempt EXCEPT ![t] = "executing"], deadlines |-> deadlines]
    BY <2>2, NowFields DEF Write
  <2> QED BY <2>1, <2>3
<1>4. Commit(Reconciled(W, t))
  BY <1>3 DEF LaunchRun
<1>5. /\ s.status = r.status /\ s.outcome = r.outcome /\ s.run = "running" /\ s.key = r.key
      /\ s.wait = r.wait /\ s.root = r.root
  BY <1>2, RanRow
<1>6. r.run # "none" /\ r.run \notin RunSettled
  BY <1>1 DEF Runnable, RunSettled
<1>7. RunsFollow => r.status = "waiting" /\ r.status \notin Terminal
  BY <1>2, <1>6 DEF Sound, Terminal
<1>8. Allowed(Now, t, s, k, "executing")
  <2> HIDE DEF s
  <2>1. Sound(s, k, "executing")
    BY <1>2, <1>5, <1>6, <1>7 DEF Sound, Decided
  <2> QED BY <1>1, <1>2, <1>7, <2>1, RanAllowed DEF s
<1>9. Mild(t, k, "executing")
  BY <1>1 DEF Mild
<1>10. Done(Now, t, s, k, "executing", W)
  BY <1>2, <1>1, <1>5, <1>8, WriteDone
<1> HIDE DEF W, s
<1> QED BY <1>2, <1>4, <1>5, <1>9, <1>10

\* LaunchRun
LEMMA LaunchRunGood == ASSUME IInv, NEW t \in Ids, LaunchRun(t) PROVE Good
<1>1. Turn /\ t \in Rows(Now) /\ UNCHANGED <<process, resumed, executed>> /\ resumed' \in BOOLEAN
  BY DEF LaunchRun, Callable, IInv
<1> QED BY <1>1, LaunchRunDone, DoneReconciled

\* EndRun
LEMMA EndRunGood == ASSUME IInv, NEW t \in Ids, EndRun(t) PROVE Good
<1> DEFINE r == tasks[t]
           k == call[t]
           Ends == {"completed", "failed", "retry_wait"} \cup Paused
<1>1. /\ attempt[t] = "executing" /\ Turn /\ attempt' = [attempt EXCEPT ![t] = "leaving"]
      /\ UNCHANGED <<ready, call, deadlines, process, resumed, executed>>
  BY DEF EndRun
<1>2. /\ Fine(Now) /\ t \in Rows(Now) /\ Now.tasks[t] = r /\ r \in Task
      /\ Sound(r, k, "executing") /\ call \in [Ids -> Call] /\ "leaving" \in Attempts
  BY <1>1, ActiveRow DEF Attempts
<1>3. PICK run \in Ends : tasks' = [tasks EXCEPT ![t].run = run]
  BY DEF EndRun
<1>4. run \in Runs /\ run # "none"
  BY <1>3 DEF Runs, RunSettled, Runnable, Paused
<1> DEFINE s == Ran(t, run)
<1>5. /\ s.status = r.status /\ s.outcome = r.outcome /\ s.run = run /\ s.key = r.key
      /\ s.wait = r.wait
  BY <1>2, <1>4, RanRow
<1>6. Commit(Write(Now, t, s, k, "leaving"))
  <2>1. tasks' = [tasks EXCEPT ![t] = s]
    BY <1>3 DEF Ran
  <2>2. call' = [call EXCEPT ![t] = k]
    BY <1>1, <1>2, SameWrite
  <2> QED BY <1>1, <2>1, <2>2, Written
<1>7. RunsFollow => r.status = "waiting" /\ r.status \notin Decided /\ r.status \notin Terminal
  BY <1>1, <1>2, RunWaits DEF Decided, Terminal
<1>8. r.run # "none"
  BY <1>2 DEF Sound
<1>9. Allowed(Now, t, s, k, "leaving")
  <2> HIDE DEF s
  <2>1. Sound(s, k, "leaving")
    BY <1>2, <1>4, <1>5, <1>7, <1>8 DEF Sound
  <2> QED BY <1>2, <1>4, <1>7, <2>1, RanAllowed DEF s
<1>10. Mild(t, k, "leaving")
  BY DEF Mild
<1> HIDE DEF s
<1> QED BY <1>1, <1>2, <1>5, <1>6, <1>9, <1>10, WriteGood

\* AbortRun
LEMMA AbortRunGood == ASSUME IInv, NEW t \in Ids, AbortRun(t) PROVE Good
<1> DEFINE r == tasks[t]
           k == call[t]
<1>1. /\ attempt[t] = "aborted" /\ Turn /\ attempt' = [attempt EXCEPT ![t] = "leaving"]
      /\ UNCHANGED <<tasks, ready, call, deadlines, process, resumed, executed>>
  BY DEF AbortRun
<1>2. /\ Fine(Now) /\ t \in Rows(Now) /\ Now.tasks[t] = r /\ r \in Task /\ t \in DOMAIN tasks
      /\ Sound(r, k, "aborted") /\ call \in [Ids -> Call] /\ "leaving" \in Attempts
      /\ tasks \in Seq(Task) /\ r.run \in Runs
  BY <1>1, ActiveRow, RowFields DEF Attempts
<1> DEFINE s == Ran(t, r.run)
<1>3. s = r
  BY <1>2, RanRow
<1>4. Commit(Write(Now, t, s, k, "leaving"))
  <2>1. tasks' = [tasks EXCEPT ![t] = s]
    BY <1>1, <1>2, <1>3, SameRow
  <2>2. call' = [call EXCEPT ![t] = k]
    BY <1>1, <1>2, SameWrite
  <2> QED BY <1>1, <2>1, <2>2, Written
<1>5. Allowed(Now, t, s, k, "leaving")
  <2>1. RunsFollow => r.status \notin Terminal
    BY <1>2 DEF Sound
  <2>2. Sound(s, k, "leaving")
    BY <1>2, <1>3 DEF Sound
  <2> QED BY <1>2, <2>1, <2>2, RanAllowed
<1>6. Mild(t, k, "leaving")
  BY DEF Mild
<1> HIDE DEF s
<1> QED BY <1>1, <1>2, <1>3, <1>4, <1>5, <1>6, WriteGood

\* ContinueRun
LEMMA ContinueRunGood == ASSUME IInv, NEW t \in Ids, ContinueRun(t) PROVE Good
<1> DEFINE r == tasks[t]
           k == call[t]
           a == attempt[t]
           s == Ran(t, "pending")
<1>1. /\ Turn /\ t \in Rows(Now) /\ r.status \notin Decided
      /\ r.run \in Paused \/ (r.run = "failed" /\ a = "none")
      /\ tasks' = [tasks EXCEPT ![t].run = "pending"]
      /\ UNCHANGED <<ready, call, attempt, deadlines, process, resumed, executed>>
  BY DEF ContinueRun, Callable, Mutable
<1>2. /\ Fine(Now) /\ Now.tasks[t] = r /\ r \in Task /\ Sound(r, k, a) /\ a \in Attempts
      /\ call \in [Ids -> Call] /\ attempt \in [Ids -> Attempts] /\ "pending" \in Runs
  BY <1>1, RowsOf, WorldFields, NowFields DEF IInv, Fine, Runs, Runnable
<1>3. /\ s.status = r.status /\ s.outcome = r.outcome /\ s.run = "pending" /\ s.key = r.key
      /\ s.wait = r.wait
  BY <1>2, RanRow
<1>4. Commit(Write(Now, t, s, k, a))
  <2>1. tasks' = [tasks EXCEPT ![t] = s]
    BY <1>1 DEF Ran
  <2>2. call' = [call EXCEPT ![t] = k] /\ attempt' = [attempt EXCEPT ![t] = a]
    BY <1>1, <1>2, SameWrite
  <2> QED BY <1>1, <2>1, <2>2, Written
<1>5. r.run # "none" /\ r.run # "running" /\ r.status \notin Terminal /\ r.status # "cancelling"
  BY <1>1 DEF Paused, Decided
<1>6. Allowed(Now, t, s, k, a)
  <2> HIDE DEF s
  <2>1. Sound(s, k, a)
    BY <1>1, <1>2, <1>3, <1>5 DEF Sound
  <2> QED BY <1>1, <1>2, <1>5, <2>1, RanAllowed DEF s
<1>7. Mild(t, k, a)
  BY DEF Mild
<1> HIDE DEF s
<1> QED BY <1>1, <1>2, <1>3, <1>4, <1>5, <1>6, <1>7, WriteGood

\* The attempt of t has ended, and the tree is reconciled while the process is up.
LEMMA LeaveRunDone ==
  ASSUME IInv, NEW t \in Ids, LeaveRun(t)
  PROVE  /\ t \in Rows(Now) /\ Mild(t, call[t], "none")
         /\ \E W : /\ Done(Now, t, tasks[t], call[t], "none", W)
                  /\ Commit(IF process = "up" THEN Reconciled(W, t) ELSE W)
<1> DEFINE r == tasks[t]
           k == call[t]
           W == Write(Now, t, r, k, "none")
<1>1. /\ attempt[t] = "leaving" /\ Turn /\ UNCHANGED <<process, resumed, executed>>
      /\ resumed' \in BOOLEAN
  BY DEF LeaveRun, IInv
<1>2. /\ Fine(Now) /\ t \in Rows(Now) /\ Now.tasks[t] = r /\ r \in Task /\ t \in DOMAIN tasks
      /\ Sound(r, k, "leaving") /\ call \in [Ids -> Call] /\ "none" \in Attempts
      /\ tasks \in Seq(Task) /\ r.run \in Runs
  BY <1>1, ActiveRow, RowFields DEF Attempts
<1>3. [Now EXCEPT !.attempt[t] = "none"] = W
  <2> DEFINE X == [Now EXCEPT !.attempt[t] = "none"]
  <2>1. X = [tasks |-> tasks, ready |-> ready, call |-> call,
             attempt |-> [attempt EXCEPT ![t] = "none"], deadlines |-> deadlines]
    BY DEF Now
  <2>2. [call EXCEPT ![t] = k] = call /\ [tasks EXCEPT ![t] = r] = tasks
    BY <1>2, SameWrite, SameRow
  <2>3. W = [tasks |-> tasks, ready |-> ready, call |-> call,
             attempt |-> [attempt EXCEPT ![t] = "none"], deadlines |-> deadlines]
    BY <2>2, NowFields DEF Write
  <2> QED BY <2>1, <2>3
<1>4. Commit(IF process = "up" THEN Reconciled(W, t) ELSE W)
  BY <1>3 DEF LeaveRun
<1>5. Allowed(Now, t, r, k, "none")
  <2>1. Ran(t, r.run) = r
    BY <1>2, RanRow
  <2>2. Sound(r, k, "none")
    BY <1>2 DEF Sound
  <2> QED BY <1>2, <2>1, <2>2, RanAllowed
<1>6. Mild(t, k, "none")
  BY DEF Mild
<1>7. Done(Now, t, r, k, "none", W)
  BY <1>2, <1>5, WriteDone
<1> HIDE DEF W
<1> QED BY <1>2, <1>4, <1>6, <1>7

\* LeaveRun
LEMMA LeaveRunGood == ASSUME IInv, NEW t \in Ids, LeaveRun(t) PROVE Good
<1> DEFINE r == tasks[t]
           k == call[t]
<1>1. /\ Turn /\ UNCHANGED <<process, resumed, executed>> /\ resumed' \in BOOLEAN
      /\ Fine(Now) /\ Now.tasks[t] = r
  BY NowFields DEF LeaveRun, IInv
<1>6. t \in Rows(Now) /\ Mild(t, k, "none")
  BY LeaveRunDone
<1>7. PICK W : Done(Now, t, r, k, "none", W) /\ Commit(IF process = "up" THEN Reconciled(W, t) ELSE W)
  BY LeaveRunDone
<1>8. CASE process = "up"
  <2>1. Commit(Reconciled(W, t))
    BY <1>7, <1>8
  <2> QED BY <1>1, <1>6, <1>7, <2>1, DoneReconciled
<1>9. CASE process # "up"
  <2>1. Commit(W)
    BY <1>7, <1>9
  <2>2. Fine(W) /\ Follows(Now, W) /\ Quiet(Now, W) /\ (~MicrotaskGaps => Calm(W))
    BY <1>1, <1>6, <1>7, DoneCalm
  <2> QED BY <1>1, <2>1, <2>2, TurnGood
<1> QED BY <1>8, <1>9

\* A run is cancelled, and its attempt aborted.
LEMMA CancelRunDone ==
  ASSUME IInv, NEW t \in Ids, CancelRun(t)
  PROVE  \E row, k, a, W : /\ Done(Now, t, row, k, a, W) /\ Mild(t, k, a)
                           /\ row.root = Now.tasks[t].root /\ Commit(Reconciled(W, t))
<1> DEFINE r == tasks[t]
           k == call[t]
           run == IF r.run \in RunSettled THEN r.run ELSE "cancelled"
           a == IF attempt[t] = "executing" THEN "aborted" ELSE attempt[t]
           s == Ran(t, run)
           W == Write(Now, t, s, k, a)
<1>1. /\ Turn /\ t \in Rows(Now) /\ r.run # "none" /\ UNCHANGED <<process, resumed, executed>>
      /\ resumed' \in BOOLEAN
  BY DEF CancelRun, Callable, IInv
<1>2. /\ Fine(Now) /\ Now.tasks[t] = r /\ r \in Task /\ Sound(r, k, attempt[t])
      /\ attempt[t] \in Attempts /\ call \in [Ids -> Call] /\ t \in DOMAIN tasks
      /\ tasks \in Seq(Task) /\ attempt \in [Ids -> Attempts]
  BY <1>1, RowsOf, WorldFields, NowFields DEF IInv, Fine
<1>3. [Now EXCEPT !.tasks[t].run = IF @ \in RunSettled THEN @ ELSE "cancelled",
                  !.attempt[t] = IF @ = "executing" THEN "aborted" ELSE @] = W
  <2> DEFINE X == [Now EXCEPT !.tasks[t].run = IF @ \in RunSettled THEN @ ELSE "cancelled",
                              !.attempt[t] = IF @ = "executing" THEN "aborted" ELSE @]
  <2>1. X = [tasks |-> [tasks EXCEPT ![t] = s], ready |-> ready, call |-> call,
             attempt |-> [attempt EXCEPT ![t] = a], deadlines |-> deadlines]
    <3>1. X = [Now EXCEPT !.tasks = [tasks EXCEPT ![t].run = run],
                          !.attempt = [attempt EXCEPT ![t] = a]]
      BY DEF Now
    <3>2. [tasks EXCEPT ![t].run = run] = [tasks EXCEPT ![t] = s]
      BY DEF Ran
    <3>3. X = [Now EXCEPT !.tasks = [tasks EXCEPT ![t] = s],
                          !.attempt = [attempt EXCEPT ![t] = a]]
      BY <3>1, <3>2
    <3> HIDE DEF X
    <3> QED BY <3>3, TwoFields
  <2>2. [call EXCEPT ![t] = k] = call
    BY <1>2, SameWrite
  <2>3. W = [tasks |-> [tasks EXCEPT ![t] = s], ready |-> ready, call |-> call,
             attempt |-> [attempt EXCEPT ![t] = a], deadlines |-> deadlines]
    BY <2>2, NowFields DEF Write
  <2> QED BY <2>1, <2>3
<1>4. Commit(Reconciled(W, t))
  BY <1>3 DEF CancelRun
<1>5. run \in RunSettled /\ run \in Runs /\ run # "none" /\ (r.run \in RunSettled => run = r.run)
  BY DEF RunSettled, Runs
<1>6. a \in Attempts /\ a # "executing" /\ (a = "none" <=> attempt[t] = "none")
  BY <1>2 DEF Attempts
<1> HIDE DEF run, a
<1>7. /\ s.status = r.status /\ s.outcome = r.outcome /\ s.run = run /\ s.key = r.key
      /\ s.wait = r.wait /\ s.root = r.root
  BY <1>2, <1>5, RanRow
<1>8. RunsFollow => r.status \notin Terminal \/ run = r.run
  BY <1>1, <1>2, <1>5 DEF Sound, Decided
<1>9. Allowed(Now, t, s, k, a)
  <2> HIDE DEF s
  <2>1. Sound(s, k, a)
    BY <1>1, <1>2, <1>5, <1>6, <1>7 DEF Sound
  <2> QED BY <1>1, <1>5, <1>6, <1>8, <2>1, RanAllowed DEF s
<1>10. Mild(t, k, a)
  BY <1>6 DEF Mild
<1>11. Done(Now, t, s, k, a, W)
  BY <1>1, <1>2, <1>7, <1>9, WriteDone
<1> HIDE DEF W, s
<1> QED BY <1>2, <1>4, <1>7, <1>10, <1>11

\* CancelRun
LEMMA CancelRunGood == ASSUME IInv, NEW t \in Ids, CancelRun(t) PROVE Good
<1>1. Turn /\ t \in Rows(Now) /\ UNCHANGED <<process, resumed, executed>> /\ resumed' \in BOOLEAN
  BY DEF CancelRun, Callable, IInv
<1> QED BY <1>1, CancelRunDone, DoneReconciled

-----------------------------------------------------------------------------
(* Time, and the life of the process.                                       *)

\* The root of a task is a task, and its own root.
LEMMA RootOf ==
  ASSUME NEW W, Fine(W), NEW t \in Rows(W)
  PROVE  W.tasks[t].root \in Rows(W) /\ W.tasks[W.tasks[t].root].root = W.tasks[t].root
<1> DEFINE Rooted(u) ==
             W.tasks[u].root \in Rows(W) /\ W.tasks[W.tasks[u].root].root = W.tasks[u].root
           Lost == {u \in Rows(W) : ~Rooted(u)}
<1>1. SUFFICES ASSUME t \in Lost PROVE FALSE
  OBVIOUS
<1>2. Lost \in SUBSET Nat
  BY RowsOf
<1>3. PICK m \in Lost : \A u \in Lost : m <= u
  BY <1>1, <1>2, Least
<1>4. /\ m \in Rows(W) /\ m \in Nat /\ W.tasks[m].parent \in Nat /\ W.tasks[m].parent < m
      /\ W.tasks[m].parent = 0 => W.tasks[m].root = m
      /\ W.tasks[m].parent # 0 =>
           W.tasks[m].parent \in Rows(W) /\ W.tasks[m].root = W.tasks[W.tasks[m].parent].root
  BY <1>3, RowsOf
<1>5. W.tasks[m].parent \notin Lost
  BY <1>3, <1>4
<1>6. Rooted(m)
  BY <1>4, <1>5
<1> QED BY <1>3, <1>6

\* Wake
LEMMA WakeGood == ASSUME IInv, NEW root \in Ids, Wake(root) PROVE Good
<1>1. PICK t \in Rows(Now) : Now.tasks[t].root = root
  BY NowFields DEF Wake, Awake, InTree
<1>2. /\ Turn /\ Fine(Now) /\ Commit(Reconciled(Now, root)) /\ resumed' \in BOOLEAN
      /\ process' = process /\ executed' = executed
  BY DEF Wake, Awake, Callable, IInv
<1>3. root \in Rows(Now)
  BY <1>1, <1>2, RootOf
<1>4. Goes(Now, Now, Now.tasks[root].root)
  BY <1>2, GoesSelf
<1> QED BY <1>2, <1>3, <1>4, GoesGood

\* Elapse
LEMMA ElapseGood == ASSUME IInv, NEW t \in Ids, Elapse(t) PROVE Good
<1> DEFINE r == tasks[t]
           k == call[t]
           a == attempt[t]
           w == [r.wait EXCEPT !.due = TRUE]
           s == [r EXCEPT !.wait = w]
           V == Write(Now, t, s, k, a)
<1>1. /\ t \in Rows(Now) /\ r.status = "waiting" /\ tasks' = [tasks EXCEPT ![t].wait.due = TRUE]
      /\ UNCHANGED <<ready, call, attempt, deadlines, process, resumed, executed>>
  BY DEF Elapse
<1>2. /\ Fine(Now) /\ Now.tasks[t] = r /\ Now.call[t] = k /\ Now.attempt[t] = a
      /\ r \in Task /\ Sound(r, k, a) /\ a \in Attempts
      /\ k \in Call /\ call \in [Ids -> Call] /\ attempt \in [Ids -> Attempts]
      /\ r.wait.ids \subseteq Children(Now, t) /\ r.wait \in Wait
  BY <1>1, RowsOf, RowFields, WorldFields, NowFields DEF IInv, Fine
<1>3. w \in Wait /\ w.kind = r.wait.kind /\ w.ids = r.wait.ids
  BY <1>2 DEF Wait
<1>4. tasks' = [tasks EXCEPT ![t] = s]
  BY <1>1
<1> HIDE DEF w
<1>5. /\ s \in Task /\ s.status = r.status /\ s.outcome = r.outcome /\ s.run = r.run
      /\ s.key = r.key /\ s.wait = w /\ s.parent = r.parent /\ s.root = r.root
      /\ s.effect = r.effect
  BY <1>2, <1>3 DEF Task
<1> HIDE DEF s
<1>6. Commit(V)
  <2>1. call' = [call EXCEPT ![t] = k] /\ attempt' = [attempt EXCEPT ![t] = a]
    BY <1>1, <1>2, SameWrite
  <2> QED BY <1>1, <1>4, <2>1, Written
<1>7. Allowed(Now, t, s, k, a)
  <2>1. Sound(s, k, a)
    BY <1>2, <1>3, <1>5, SoundAlike
  <2>2. Fits(Now, t, s, k, a)
    BY <1>1, <1>2, <1>3, <1>5, <2>1, FitsAlike
  <2>3. ~Ended(Now, t) /\ r.status # "cancelling"
    BY <1>1, <1>2 DEF Ended, Terminal
  <2> QED BY <1>2, <1>5, <2>2, <2>3 DEF Allowed
<1>8. Done(Now, t, s, k, a, V)
  BY <1>1, <1>2, <1>5, <1>7, WriteDone
<1> HIDE DEF V
<1>9. Fine(V) /\ Follows(Now, V)
  BY <1>8 DEF Done
<1>10. \A u \in Rows(Now) : tasks'[u].status = tasks[u].status /\ tasks'[u].root = tasks[u].root
  <2>1. tasks' = V.tasks
    BY <1>6 DEF Commit
  <2> QED BY <2>1, <1>2, <1>5, <1>8, NowFields DEF Done
<1>11. \A u \in Ids : call[u].phase # "none" \/ attempt[u] # "none" => u \in Rows(Now)
  BY ActiveRow
<1>12. Between'
  BY <1>1, <1>10, <1>11 DEF IInv, Between
<1>13. Effects'
  BY <1>1, <1>6, <1>9, EffectsStay
<1>14. process' \in {"up", "closing", "down"} /\ resumed' \in BOOLEAN
  BY <1>1 DEF IInv
<1> QED BY <1>6, <1>9, <1>12, <1>13, <1>14, StepGood

\* Only invocations and attempts change.
LEMMA RowsStay ==
  ASSUME IInv, NEW V, Fine(V), V.tasks = tasks
  PROVE  Follows(Now, V)
<1>1. Len(tasks) \in Nat
  BY WorldFields DEF Fine
<1> QED BY <1>1, NowFields DEF Follows, Final

\* A world with other attempts and deadlines.
LEMMA LastFields ==
  ASSUME NEW W \in World, NEW D, NEW E, NEW V, V = [W EXCEPT !.attempt = D, !.deadlines = E]
  PROVE  V = [tasks |-> W.tasks, ready |-> W.ready, call |-> W.call, attempt |-> D,
              deadlines |-> E]
BY DEF World

\* close()
LEMMA CloseGood == ASSUME IInv, close PROVE Good
<1> DEFINE A == abort(Now, Ids)
           d == [t \in Ids |-> IF A.attempt[t] = "executing" THEN "aborted" ELSE A.attempt[t]]
           V == [A EXCEPT !.attempt = d, !.deadlines = {}]
<1>1. /\ process' = "closing" /\ UNCHANGED <<resumed, executed>> /\ Commit(V)
  BY DEF close
<1>2. Fine(Now) /\ Now \in World
  BY DEF IInv, Fine
<1>3. /\ A \in World /\ A.tasks = tasks /\ A.ready = ready /\ A.attempt = attempt
      /\ \A t \in Ids : /\ A.call[t].phase = call[t].phase
                        /\ call[t].aborted => A.call[t].aborted
  BY <1>2, AbortIs, NowFields
<1> HIDE DEF A
<1>4. /\ A.tasks \in Seq(Task) /\ A.ready \in Seq(Ids) /\ A.call \in [Ids -> Call]
      /\ A.attempt \in [Ids -> Attempts]
  BY <1>3, WorldFields
<1>5. d \in [Ids -> Attempts]
  BY <1>4 DEF Attempts
<1>6. \A t \in Ids : d[t] = IF attempt[t] = "executing" THEN "aborted" ELSE attempt[t]
  BY <1>3
<1> HIDE DEF d
<1>7. V = [tasks |-> A.tasks, ready |-> A.ready, call |-> A.call, attempt |-> d, deadlines |-> {}]
  BY <1>3, LastFields
<1>8. /\ V \in World /\ V.tasks = tasks /\ V.ready = ready /\ V.attempt = d /\ V.call = A.call
  <2>1. V \in World
    <3>1. {} \in SUBSET Ids
      OBVIOUS
    <3> HIDE DEF V
    <3> QED BY <1>3, <1>4, <1>5, <1>7, <3>1, MadeWorld
  <2> QED BY <1>3, <1>7, <2>1
<1> HIDE DEF V
<1>9. ASSUME NEW t \in Rows(Now) PROVE Sound(tasks[t], V.call[t], V.attempt[t])
  <2>1. Sound(tasks[t], call[t], attempt[t]) /\ t \in Ids
    BY <1>2, RowsOf, NowFields
  <2>2. /\ V.call[t].phase = call[t].phase /\ (call[t].aborted => V.call[t].aborted)
        /\ V.attempt[t] # "executing" /\ (V.attempt[t] = "none" <=> attempt[t] = "none")
    BY <1>3, <1>6, <1>8, <2>1
  <2> QED BY <2>1, <2>2 DEF Sound
<1>10. Fine(V)
  <2>1. \A t \in Ids : t \notin Rows(Now) => V.call[t].phase = "none" /\ V.attempt[t] = "none"
    BY <1>2, <1>3, <1>6, <1>8, NowFields DEF Fine
  <2> QED BY <1>2, <1>8, <1>9, <2>1, SameRowsFine, NowFields
<1>11. Follows(Now, V)
  BY <1>8, <1>10, RowsStay
<1>12. Between'
  <2>1. tasks' = tasks /\ call' = A.call /\ attempt' = d
    BY <1>1, <1>8 DEF Commit
  <2>2. \A t \in Ids : call'[t].phase = call[t].phase /\ attempt'[t] # "executing"
    BY <2>1, <1>3, <1>6
  <2> QED BY <2>1, <2>2 DEF IInv, Between
<1>13. Effects'
  BY <1>1, <1>10, <1>11, EffectsStay
<1>14. process' \in {"up", "closing", "down"} /\ resumed' \in BOOLEAN
  BY <1>1 DEF IInv
<1> QED BY <1>1, <1>10, <1>11, <1>12, <1>13, <1>14, StepGood

\* Crash
LEMMA CrashGood == ASSUME IInv, Crash PROVE Good
<1> DEFINE c == [t \in Ids |-> NoCall]
           d == [t \in Ids |-> "none"]
           V == [tasks |-> tasks, ready |-> ready, call |-> c, attempt |-> d, deadlines |-> {}]
<1>1. /\ process' = "down" /\ call' = c /\ attempt' = d /\ deadlines' = {}
      /\ UNCHANGED <<tasks, ready, resumed, executed>>
  BY DEF Crash
<1>2. Fine(Now) /\ Now \in World /\ tasks \in Seq(Task) /\ ready \in Seq(Ids)
  BY WorldFields, NowFields DEF IInv, Fine
<1>3. /\ c \in [Ids -> Call] /\ d \in [Ids -> Attempts]
      /\ \A t \in Ids : c[t] = NoCall /\ d[t] = "none"
      /\ NoCall.phase = "none"
  BY DEF NoCall, Call, Attempts
<1> HIDE DEF c, d
<1>4. V \in World
  BY <1>2, <1>3, MadeWorld
<1>5. /\ V.tasks = tasks /\ V.ready = ready /\ V.call = c /\ V.attempt = d /\ V.deadlines = {}
  OBVIOUS
<1> HIDE DEF V
<1>6. Commit(V)
  BY <1>1, <1>5 DEF Commit
<1>7. ASSUME NEW t \in Rows(Now) PROVE Sound(tasks[t], V.call[t], V.attempt[t])
  <2>1. Sound(tasks[t], call[t], attempt[t]) /\ t \in Ids
    BY <1>2, RowsOf, NowFields
  <2>2. V.call[t].phase = "none" /\ V.attempt[t] = "none"
    BY <1>3, <1>5, <2>1
  <2> QED BY <2>1, <2>2 DEF Sound
<1>8. Fine(V)
  <2>1. \A t \in Ids : t \notin Rows(Now) => V.call[t].phase = "none" /\ V.attempt[t] = "none"
    BY <1>3, <1>5
  <2> QED BY <1>2, <1>4, <1>5, <1>7, <2>1, SameRowsFine, NowFields
<1>9. Follows(Now, V)
  BY <1>5, <1>8, RowsStay
<1>10. Between'
  BY <1>1, <1>3 DEF Between
<1>11. Effects'
  BY <1>1, <1>6, <1>8, <1>9, EffectsStay
<1>12. process' \in {"up", "closing", "down"} /\ resumed' \in BOOLEAN
  BY <1>1 DEF IInv
<1> QED BY <1>6, <1>8, <1>9, <1>10, <1>11, <1>12, StepGood

\* Only the process changes.
LEMMA ProcessGood ==
  ASSUME IInv, UNCHANGED <<tasks, ready, call, attempt, deadlines, executed>>,
         process' \in {"up", "closing", "down"}, resumed' \in BOOLEAN,
         process' # "up" => \A t \in Ids : attempt[t] # "executing"
  PROVE  Good
<1>1. Fine(Now) /\ Commit(Now)
  BY NowFields DEF IInv, Commit
<1>2. Follows(Now, Now)
  BY <1>1, FollowsSelf
<1>3. Between'
  BY DEF IInv, Between
<1>4. Effects'
  BY <1>1, <1>2, EffectsStay
<1> QED BY <1>1, <1>2, <1>3, <1>4, StepGood

\* Closed: the process ends.
LEMMA ClosedGood == ASSUME IInv, Closed PROVE Good
BY ProcessGood DEF Closed, IInv

\* open()
LEMMA OpenGood == ASSUME IInv, open PROVE Good
BY ProcessGood DEF open, IInv

\* Nothing happens.
LEMMA StutterGood == ASSUME IInv, UNCHANGED vars PROVE Good
BY ProcessGood DEF vars, IInv, Between

-----------------------------------------------------------------------------
(* The invariant.                                                           *)

\* It holds at first: there is no task.
LEMMA InitInv == ASSUME Init PROVE IInv
<1>1. /\ tasks = <<>> /\ ready = <<>> /\ call = [t \in Ids |-> NoCall]
      /\ attempt = [t \in Ids |-> "none"] /\ deadlines = {} /\ process = "up" /\ resumed = TRUE
      /\ executed = [t \in Ids |-> 0]
  BY DEF Init
<1>2. /\ tasks \in Seq(Task) /\ ready \in Seq(Ids) /\ Len(tasks) = 0 /\ DOMAIN ready = {}
      /\ Rows(Now) = {}
  <2>1. /\ <<>> \in Seq(Task) /\ <<>> \in Seq(Ids) /\ Len(<<>>) = 0
    BY EmptySeq
  <2>2. DOMAIN ready = 1..Len(ready)
    BY <1>1, <2>1, LenProperties
  <2>3. 1..0 = {}
    OBVIOUS
  <2> QED BY <1>1, <2>1, <2>2, <2>3, NowFields DEF Rows
<1>3. NoCall \in Call /\ NoCall.phase = "none"
  BY DEF NoCall, Call
<1>4. \A t \in Ids : call[t].phase = "none" /\ attempt[t] = "none" /\ executed[t] = 0
  BY <1>1, <1>3
<1>5. Now \in World
  <2>1. call \in [Ids -> Call] /\ attempt \in [Ids -> Attempts] /\ deadlines \in SUBSET Ids
    BY <1>1, <1>3 DEF Attempts
  <2> QED BY <1>2, <2>1 DEF Now, World
<1>6. Fine(Now)
  <2>1. Tree(Now) /\ Nested(Now)
    BY <1>2 DEF Tree, Nested
  <2>2. Queued(Now)
    BY <1>2, NowFields DEF Queued, In
  <2>3. Len(Now.tasks) <= MaxTasks
    BY <1>2, Limits, NowFields
  <2> QED BY <1>2, <1>4, <1>5, <2>1, <2>2, <2>3, NowFields DEF Fine
<1>7. Between
  BY <1>1, <1>4 DEF Between
<1>8. Effects
  <2>1. executed \in [Ids -> Nat]
    BY <1>1
  <2>2. \A t \in Ids : ~(executed[t] > 0) /\ executed[t] <= 1
    BY <1>4
  <2> QED BY <2>1, <2>2 DEF Effects
<1> QED BY <1>1, <1>6, <1>7, <1>8 DEF IInv

\* Every step keeps it, and outcomes with it.
LEMMA NextGood == ASSUME IInv, [Next]_vars PROVE Good
<1>1. CASE Calls
  BY <1>1, SubmitTaskGood, CancelGood, SignalGood, RetryGood, ResolveEffectGood, ResumeGood
     DEF Calls
<1>2. ASSUME NEW t \in Ids, Invocation(t) PROVE Good
  BY <1>2, BeginGood, SpawnGood, StartEffectGood, EndEffectGood, ReturnEarlyGood, FinishGood,
     FinishRejectedGood, SettleRejectedGood, LeaveGood DEF Invocation
<1>3. ASSUME NEW t \in Ids, OwnedRun(t) PROVE Good
  BY <1>3, LaunchRunGood, EndRunGood, AbortRunGood, LeaveRunGood, CancelRunGood, ContinueRunGood
     DEF OwnedRun
<1>4. ASSUME NEW t \in Ids, Elapse(t) \/ Wake(t) PROVE Good
  BY <1>4, ElapseGood, WakeGood
<1>5. CASE Process
  BY <1>5, CloseGood, ClosedGood, CrashGood, OpenGood DEF Process
<1>6. CASE UNCHANGED vars
  BY <1>6, StutterGood
<1> QED BY <1>1, <1>2, <1>3, <1>4, <1>5, <1>6 DEF Next

\* It always holds.
LEMMA AlwaysInv == Spec => []IInv
<1>1. IInv /\ [Next]_vars => IInv'
  BY NextGood DEF Good
<1> QED BY <1>1, InitInv, PTL DEF Spec

-----------------------------------------------------------------------------
(* What it implies.                                                         *)

\* The journal and the memory of the process have their types: in particular a row is in the
\* ready order exactly when it can be invoked (state.ts, putTask).
THEOREM TypeCorrect == Spec => []TypeOK
<1>1. ASSUME IInv PROVE TypeOK
  <2> DEFINE S == {t \in 1..Len(tasks) : tasks[t].status \in Ready}
  <2>1. /\ Fine(Now) /\ Now \in World /\ tasks \in Seq(Task) /\ ready \in Seq(Ids)
        /\ call \in [Ids -> Call] /\ attempt \in [Ids -> Attempts] /\ deadlines \in SUBSET Ids
        /\ Len(tasks) <= MaxTasks /\ Rows(Now) = 1..Len(tasks)
    BY <1>1, WorldFields, NowFields DEF IInv, Fine, Rows
  <2>2. \A t \in Ids : In(t, ready) <=> t \in Rows(Now) /\ tasks[t].status \in Ready
    BY <2>1, NowFields DEF Fine, Queued
  <2>3. ready \in Seq(S)
    <3>1. Len(ready) \in Nat /\ ready \in [1..Len(ready) -> Ids] /\ DOMAIN ready = 1..Len(ready)
      BY <2>1, LenProperties
    <3>2. \A i \in 1..Len(ready) : ready[i] \in Ids /\ In(ready[i], ready)
      BY <3>1 DEF In
    <3>3. \A i \in 1..Len(ready) : ready[i] \in S
      BY <2>1, <2>2, <3>2
    <3> HIDE DEF S
    <3>4. ready \in [1..Len(ready) -> S]
      BY <3>1, <3>3
    <3> QED BY <3>1, <3>4, SeqDef
  <2>4. \A t \in 1..Len(tasks) : tasks[t].status \in Ready => \E i \in DOMAIN ready : ready[i] = t
    <3>1. \A t \in 1..Len(tasks) : t \in Ids
      BY <2>1, RowsOf
    <3> QED BY <2>1, <2>2, <3>1 DEF In
  <2>5. process \in {"up", "closing", "down"} /\ resumed \in BOOLEAN /\ executed \in [Ids -> Nat]
    BY <1>1 DEF IInv, Effects
  <2> QED BY <2>1, <2>3, <2>4, <2>5 DEF TypeOK, Attempts
<1> QED BY <1>1, AlwaysInv, PTL

\* A manual effect is executed at most once in the life of its task, whatever is replayed,
\* retried, reconciled or shut down, and wherever the process crashes (invocation.ts, effect()).
THEOREM ManualOnce == Spec => []ManualEffectOnce
<1>1. ASSUME IInv PROVE ManualEffectOnce
  BY <1>1 DEF IInv, Effects, ManualEffectOnce
<1> QED BY <1>1, AlwaysInv, PTL

\* A task that has ended has no invocation, no attempt of its run and no unfinished child, where
\* the attempt of an owned run meets the cancellation of its task (state.ts, reconcileTree()).
THEOREM EndsLast == RunsFollow => (Spec => []NoOrphans)
<1> SUFFICES ASSUME RunsFollow PROVE Spec => []NoOrphans
  OBVIOUS
<1>1. ASSUME IInv PROVE NoOrphans
  <2>1. SUFFICES ASSUME NEW t \in Rows(Now), Ended(Now, t)
                 PROVE  /\ call[t].phase = "none" /\ attempt[t] = "none"
                        /\ \A c \in Children(Now, t) : Ended(Now, c)
    BY DEF NoOrphans
  <2>2. Fine(Now) /\ Sound(tasks[t], call[t], attempt[t]) /\ t # 0 /\ tasks[t].status \in Terminal
    BY <1>1, <2>1, RowsOf, NowFields DEF IInv, Ended
  <2>3. \A c \in Children(Now, t) : Ended(Now, c)
    BY <2>1, <2>2 DEF Fine, Nested, Children
  <2> QED BY <2>2, <2>3 DEF Sound
<1> QED BY <1>1, AlwaysInv, PTL

\* Below a cancelling task everything is cancelling or over, and its invocations have been told,
\* where a rolled back transition is settled before anything else happens to its task
\* (state.ts, cancelTree(); scheduler.ts, cancel()).
THEOREM FenceHolds == FenceStands => (Spec => []Fenced)
<1> SUFFICES ASSUME FenceStands PROVE Spec => []Fenced
  OBVIOUS
<1>1. ASSUME IInv PROVE Fenced
  <2>1. SUFFICES ASSUME NEW t \in Rows(Now), tasks[t].status = "cancelling"
                 PROVE  /\ \A c \in Children(Now, t) : tasks[c].status \in {"cancelling"} \cup Terminal
                        /\ call[t].phase \in {"launched", "executing"} => call[t].aborted
    BY DEF Fenced
  <2>2. Fine(Now) /\ Sound(tasks[t], call[t], attempt[t]) /\ t # 0
    BY <1>1, <2>1, RowsOf, NowFields DEF IInv
  <2>3. \A c \in Children(Now, t) : tasks[c].status \in {"cancelling"} \cup Terminal
    BY <2>1, <2>2, NowFields DEF Fine, Nested, Children
  <2> QED BY <2>1, <2>2, <2>3 DEF Sound
<1> QED BY <1>1, AlwaysInv, PTL

\* When a task has ended, so has the run it owns, where attempts meet the cancellation
\* (agent.ts and state.ts, syncAgents()).
THEOREM RunsEnd == RunsFollow => (Spec => []OwnedRunsEnd)
<1> SUFFICES ASSUME RunsFollow PROVE Spec => []OwnedRunsEnd
  OBVIOUS
<1>1. ASSUME IInv PROVE OwnedRunsEnd
  <2>1. SUFFICES ASSUME NEW t \in Rows(Now), Ended(Now, t), tasks[t].run # "none"
                 PROVE  tasks[t].run \in RunSettled
    BY DEF OwnedRunsEnd
  <2>2. Sound(tasks[t], call[t], attempt[t]) /\ tasks[t].status \in Decided
    BY <1>1, <2>1, RowsOf, NowFields DEF IInv, Ended, Decided
  <2> QED BY <2>1, <2>2 DEF Sound
<1> QED BY <1>1, AlwaysInv, PTL

\* An outcome is final, and a cancelling task only ends, never successfully: no later answer,
\* signal, retry, resume or crash changes it (state.ts, transition() and settle()).
THEOREM OutcomesStay == RunsFollow /\ FenceStands => (Spec => OutcomesFinal)
<1> SUFFICES ASSUME RunsFollow, FenceStands PROVE Spec => OutcomesFinal
  OBVIOUS
<1> DEFINE Stay ==
             \A t \in Rows(Now) :
               /\ Ended(Now, t) => tasks'[t] = tasks[t]
               /\ tasks[t].status = "cancelling" =>
                     tasks'[t].status \in {"cancelling", "failed", "cancelled"}
<1>1. ASSUME IInv, [Next]_vars PROVE Stay
  <2>1. Final(Now, Now')
    BY <1>1, NextGood DEF Good
  <2>2. Now'.tasks = tasks' /\ Now.tasks = tasks
    BY DEF Now
  <2> QED BY <2>1, <2>2 DEF Final
<1>2. IInv /\ [Next]_vars => [Stay]_vars
  BY <1>1
<1> QED BY <1>2, AlwaysInv, PTL DEF Spec, OutcomesFinal

-----------------------------------------------------------------------------
(* What a reconciliation achieves in a tree that nothing runs in.           *)

\* No invocation and no attempt is left in a tree.
Idle(W, root) == \A u \in InTree(W, root) : W.call[u].phase = "none" /\ W.attempt[u] = "none"

\* A row that waits for time.
Timing(row) == row.status = "waiting" /\ row.wait.kind = "timer"

\* A task that could settle or go on, if nothing runs in it.
Open(W, t) ==
  \/ W.tasks[t].status \in {"completing", "cancelling"} /\ \A c \in Children(W, t) : Ended(W, c)
  \/ W.tasks[t].status = "waiting" /\ (WaitOver(W, t) \/ RunEnded(W.tasks[t]))

\* In an idle tree the deadline of every timer is noted, and only timers are behind.
Heard(W, root) ==
  Idle(W, root) =>
    \A t \in InTree(W, root) :
       /\ Timing(W.tasks[t]) => root \in W.deadlines
       /\ Open(W, t) => Timing(W.tasks[t]) /\ W.tasks[t].wait.due

\* A failFast wait of which a child was unsuccessful, ...
Spoiled(W, t) ==
  /\ W.tasks[t].status = "waiting" /\ W.tasks[t].wait.kind = "failFast"
  /\ \E c \in W.tasks[t].wait.ids : W.tasks[c].status \in {"failed", "cancelled"}

\* ... and one whose children are over or fenced.
Covered(W, t) ==
  /\ W.tasks[t].status = "waiting" /\ W.tasks[t].wait.kind = "failFast"
  /\ \A c \in W.tasks[t].wait.ids : Ended(W, c) \/ W.tasks[c].status = "cancelling"

\* Only rows and the ready order change.
Steady(W, V) ==
  /\ \A t \in Ids : V.call[t].phase = W.call[t].phase
  /\ V.attempt = W.attempt /\ V.deadlines = W.deadlines

\* What one task of a tree comes to: nothing is left to do at t, ...
Settles(W, V, t) ==
  /\ \A u \in Rows(W) : u # t => V.tasks[u] = W.tasks[u]
  /\ ~Open(V, t) /\ ~Spoiled(V, t)
  /\ Ended(V, t) /\ ~Ended(W, t) =>
       \/ W.tasks[t].status \in {"completing", "cancelling"}
          /\ \A c \in Children(W, t) : Ended(W, c)
       \/ W.tasks[t].status = "waiting" /\ RunEnded(W.tasks[t])

\* ... or the tasks of U below it are fenced.
Fences(W, V, t, U) ==
  /\ U \subseteq Rows(W)
  /\ \A u \in Rows(W) : u \notin U => V.tasks[u] = W.tasks[u]
  /\ \A u \in U : /\ ~Ended(W, u) /\ V.tasks[u].status = "cancelling" /\ u > t
                  /\ W.tasks[u].parent = t \/ W.tasks[u].parent \in U
                  /\ W.tasks[u].root = W.tasks[t].root
  /\ \A c \in W.tasks[t].wait.ids :
       Ended(W, c) \/ W.tasks[c].status = "cancelling" \/ c \in U
  /\ Covered(W, t) => U = {}

\* A number that is reached step by step.
LEMMA Reached ==
  ASSUME NEW n \in Nat, NEW P, 0 \in P, \A k \in 1..n : k - 1 \in P => k \in P
  PROVE  n \in P
<1> DEFINE Missing == {k \in 0..n : k \notin P}
<1>1. SUFFICES ASSUME Missing # {} PROVE FALSE
  OBVIOUS
<1>2. Missing \in SUBSET Nat
  OBVIOUS
<1>3. PICK x \in Missing : \A y \in Missing : x <= y
  <2> HIDE DEF Missing
  <2> QED BY <1>1, <1>2, Least
<1>4. x \in 1..n /\ x - 1 \in 0..n /\ x - 1 \notin Missing
  BY <1>3
<1> QED BY <1>3, <1>4

\* The first of the unfinished tasks is one that the subtrees start with.
LEMMA LeastUnfinished ==
  ASSUME NEW W, Fine(W), NEW S, S \subseteq Rows(W), NEW root, \A t \in S : W.tasks[t].root = root,
         NEW U, U = Unfinished(W, S), U # {}
  PROVE  \E u \in U : u \in S /\ \A v \in U : u <= v
<1>1. /\ U \subseteq Rows(W)
      /\ \A t \in Rows(W) : t \in U <=> ~Ended(W, t) /\ (t \in S \/ W.tasks[t].parent \in U)
  BY UnfinishedOf
<1>2. U \in SUBSET Nat
  BY <1>1, RowsOf
<1>3. PICK u \in U : \A v \in U : u <= v
  BY <1>2, Least
<1>4. W.tasks[u].parent \in Nat /\ W.tasks[u].parent < u /\ u \in Nat
  BY <1>1, RowsOf
<1>5. W.tasks[u].parent \notin U
  BY <1>3, <1>4
<1>6. u \in S
  BY <1>1, <1>5
<1> QED BY <1>3, <1>6

\* The world in which the row of t is saved.
LEMMA SavedRows ==
  ASSUME NEW W, Fine(W), NEW t \in Rows(W), NEW row \in Task, NEW V, V = saveTask(W, t, row)
  PROVE  /\ \A u \in Rows(W) : V.tasks[u] = IF u = t THEN row ELSE W.tasks[u]
         /\ V.call = W.call /\ V.attempt = W.attempt /\ V.deadlines = W.deadlines
<1>1. V = Put(W, t, row, W.call[t], W.attempt[t])
  BY SaveIsPut
<1>2. /\ W \in World /\ t \in Ids /\ W.call \in [Ids -> Call] /\ W.attempt \in [Ids -> Attempts]
      /\ t \in 1..Len(W.tasks) /\ W.tasks \in Seq(Task)
  BY RowsOf, WorldFields DEF Rows
<1>3. /\ V.tasks = [W.tasks EXCEPT ![t] = row]
      /\ V.call = [W.call EXCEPT ![t] = W.call[t]]
      /\ V.attempt = [W.attempt EXCEPT ![t] = W.attempt[t]]
      /\ V.deadlines = W.deadlines
  BY <1>1 DEF Put
<1>4. V.call = W.call /\ V.attempt = W.attempt
  BY <1>2, <1>3, SameWrite
<1>5. \A u \in Rows(W) : V.tasks[u] = IF u = t THEN row ELSE W.tasks[u]
  BY <1>2, <1>3, ExceptSeq DEF Rows
<1> QED BY <1>3, <1>4, <1>5

\* Cancelled work stays where it is.
LEMMA CancelSteady ==
  ASSUME NEW W \in World, NEW S, NEW V, V = CancelAndAbort(W, S)
  PROVE  Steady(W, V)
<1> DEFINE U == Unfinished(W, S)
           F == Fence(W, U)
<1>1. F \in World /\ F.call = W.call /\ F.attempt = W.attempt /\ F.deadlines = W.deadlines
  BY FenceIs
<1>2. V = abort(F, U)
  BY DEF CancelAndAbort, cancelTree
<1> HIDE DEF F, U
<1>3. /\ V.attempt = F.attempt /\ V.deadlines = F.deadlines
      /\ \A t \in Ids : V.call[t].phase = F.call[t].phase
  BY <1>1, <1>2, AbortIs
<1> QED BY <1>1, <1>3 DEF Steady

\* Steady twice.
LEMMA SteadyTwice ==
  ASSUME NEW W, NEW V, NEW U, Steady(W, V), Steady(V, U)
  PROVE  Steady(W, U)
BY DEF Steady

\* A task that is reconciled neither starts nor ends an invocation or an attempt.
LEMMA TaskSteady ==
  ASSUME NEW W, Fine(W), NEW root, NEW t
  PROVE  Steady(W, reconcileTask(W, root, t))
<1>1. \A X : Steady(X, X)
  BY DEF Steady
<1>2. CASE t \notin InTree(W, root)
  BY <1>1, <1>2 DEF reconcileTask
<1>3. CASE t \in InTree(W, root)
  <2> DEFINE A == Woken(W, t)
             r == W.tasks[t]
  <2>1. t \in Rows(W) /\ W \in World /\ r \in Task /\ r.run \in Runs
    BY <1>3, RowsOf, RowFields DEF InTree
  <2>2. NoWait \in Wait
    BY DEF NoWait, WaitFor, Wait
  <2>3. ASSUME NEW X, Fine(X), NEW u \in Rows(X), NEW row \in Task
        PROVE  Steady(X, saveTask(X, u, row))
    BY <2>3, SavedRows DEF Steady
  <2>4. Steady(W, A)
    <3>1. CASE r.status # "waiting"
      BY <1>1, <3>1 DEF Woken
    <3>2. CASE r.status = "waiting" /\ WaitOver(W, t)
      <4> DEFINE s == [r EXCEPT !.status = "pending", !.wait = NoWait]
      <4>1. s \in Task
        BY <2>1, <2>2 DEF Task, Ready
      <4>2. A = saveTask(W, t, s)
        BY <3>2 DEF Woken
      <4> HIDE DEF s, A
      <4> QED BY <2>1, <2>3, <4>1, <4>2
    <3>3. CASE r.status = "waiting" /\ ~WaitOver(W, t) /\ RunEnded(r)
      <4> DEFINE s == [r EXCEPT !.status = "completing", !.wait = NoWait, !.outcome = r.run]
      <4>1. r.run \in Terminal
        BY <3>3 DEF RunEnded, RunSettled, Terminal
      <4>2. s \in Task
        BY <2>1, <2>2, <4>1 DEF Task, Decided
      <4>3. A = saveTask(W, t, s)
        BY <3>3 DEF Woken
      <4> HIDE DEF s, A
      <4> QED BY <2>1, <2>3, <4>2, <4>3
    <3>4. CASE r.status = "waiting" /\ ~WaitOver(W, t) /\ ~RunEnded(r)
      <4>1. A = FailFast(W, t)
        BY <3>4 DEF Woken
      <4> DEFINE S == {c \in r.wait.ids : W.tasks[c].status # "cancelling"}
      <4>2. FailFast(W, t) = W \/ FailFast(W, t) = CancelAndAbort(W, S)
        BY DEF FailFast
      <4> HIDE DEF S, A
      <4>3. Steady(W, CancelAndAbort(W, S))
        BY <2>1, CancelSteady
      <4> QED BY <4>1, <4>2, <4>3, <1>1
    <3> QED BY <3>1, <3>2, <3>3, <3>4
  <2>5. Fine(A) /\ t \in Rows(A)
    BY <2>1, WokenGoes DEF Goes, Kept, Rows
  <2>6. reconcileTask(W, root, t) = SettleTask(A, t)
    BY <1>3 DEF reconcileTask
  <2> HIDE DEF A
  <2>7. Steady(A, SettleTask(A, t))
    <3> DEFINE s == [A.tasks[t] EXCEPT !.status = A.tasks[t].outcome]
    <3>1. CASE ~Settleable(A, t)
      BY <1>1, <3>1 DEF SettleTask
    <3>2. CASE Settleable(A, t)
      <4>1. A.tasks[t] \in Task /\ A.tasks[t].outcome \in Terminal
        <5>1. A.tasks[t] \in Task /\ Sound(A.tasks[t], A.call[t], A.attempt[t])
          BY <2>5, RowsOf
        <5>2. A.tasks[t].status \in {"completing", "cancelling"}
          BY <3>2 DEF Settleable
        <5> QED BY <5>1, <5>2 DEF Sound, Terminal
      <4>2. s \in Task
        BY <4>1 DEF Task, Decided
      <4>3. SettleTask(A, t) = saveTask(A, t, s)
        BY <3>2 DEF SettleTask
      <4> HIDE DEF s
      <4> QED BY <2>3, <2>5, <4>2, <4>3
    <3> QED BY <3>1, <3>2
  <2> QED BY <2>4, <2>6, <2>7, SteadyTwice
<1> QED BY <1>2, <1>3

\* The first unsuccessful child fences the others.
LEMMA FailFastDoes ==
  ASSUME NEW W, Fine(W), NEW t \in Rows(W), Spoiled(W, t)
  PROVE  \E U : Fences(W, FailFast(W, t), t, U)
<1> DEFINE r == W.tasks[t]
           S == {c \in r.wait.ids : W.tasks[c].status # "cancelling"}
           U == Unfinished(W, S)
           V == CancelAndAbort(W, S)
<1>1. V = FailFast(W, t)
  BY DEF FailFast, Spoiled
<1>2. r.wait.ids \subseteq Children(W, t) /\ S \subseteq Rows(W) /\ t \in Nat
  BY RowsOf
<1>3. \A c \in S : c \in Rows(W) /\ W.tasks[c].parent = t /\ W.tasks[c].root = r.root /\ c > t
  <2>1. ASSUME NEW c \in S
        PROVE  c \in Rows(W) /\ W.tasks[c].parent = t /\ W.tasks[c].root = r.root /\ c > t
    <3>1. c \in Rows(W) /\ W.tasks[c].parent = t
      BY <1>2 DEF Children
    <3> QED BY <3>1, RowsOf
  <2> QED BY <2>1
<1> HIDE DEF S, U
<1>4. \A u \in Rows(W) : V.tasks[u] = IF u \in U THEN Cancelled(W.tasks[u]) ELSE W.tasks[u]
  <2> DEFINE root == r.root
  <2>1. \A c \in S : W.tasks[c].root = root
    BY <1>3
  <2> HIDE DEF root, V
  <2>2. \A u \in Rows(W) : CancelAndAbort(W, S).tasks[u]
          = IF u \in Unfinished(W, S) THEN Cancelled(W.tasks[u]) ELSE W.tasks[u]
    BY <1>2, <2>1, CancelGoes
  <2> QED BY <2>2 DEF U, V
<1> HIDE DEF V
<1>5. /\ U \subseteq Rows(W)
      /\ \A u \in Rows(W) : u \in U <=> ~Ended(W, u) /\ (u \in S \/ W.tasks[u].parent \in U)
      /\ \A u \in U : W.tasks[u].root = r.root
  <2> DEFINE root == r.root
  <2>1. \A c \in S : W.tasks[c].root = root
    BY <1>3
  <2> HIDE DEF root
  <2>2. /\ U \subseteq Rows(W)
        /\ \A u \in Rows(W) : u \in U <=> ~Ended(W, u) /\ (u \in S \/ W.tasks[u].parent \in U)
        /\ \A u \in U : W.tasks[u].root = root
    BY <1>2, <2>1, UnfinishedOf DEF U
  <2> QED BY <2>2 DEF root
<1>6. U # {} => \E u \in U : u \in S /\ \A v \in U : u <= v
  <2> DEFINE root == r.root
  <2>1. \A c \in S : W.tasks[c].root = root
    BY <1>3
  <2> HIDE DEF root
  <2> QED BY <1>2, <2>1, LeastUnfinished DEF U
<1>7. ASSUME NEW u \in U
      PROVE  /\ ~Ended(W, u) /\ V.tasks[u].status = "cancelling" /\ u > t
             /\ W.tasks[u].parent = t \/ W.tasks[u].parent \in U
             /\ W.tasks[u].root = r.root
  <2>1. u \in Rows(W) /\ ~Ended(W, u) /\ (u \in S \/ W.tasks[u].parent \in U)
    BY <1>5
  <2>2. V.tasks[u].status = "cancelling"
    <3>1. W.tasks[u] \in Task
      BY <2>1, RowsOf
    <3>2. Cancelled(W.tasks[u]).status = "cancelling"
      BY <3>1, CancelledRow
    <3> QED BY <2>1, <3>2, <1>4
  <2>3. u > t
    <3>1. PICK v \in U : v \in S /\ v <= u
      BY <1>6
    <3>2. v > t /\ v \in Nat /\ u \in Nat /\ t \in Nat
      BY <3>1, <2>1, <1>2, <1>3, RowsOf
    <3>3. v <= u
      BY <3>1
    <3> QED BY <3>2, <3>3
  <2> QED BY <2>1, <2>2, <2>3, <1>3, <1>5
<1>8. ASSUME NEW c \in r.wait.ids
      PROVE  Ended(W, c) \/ W.tasks[c].status = "cancelling" \/ c \in U
  <2>1. c \in Rows(W)
    BY <1>2, RowsOf
  <2>2. CASE W.tasks[c].status # "cancelling"
    <3>1. c \in S
      BY <2>2 DEF S
    <3> QED BY <2>1, <3>1, <1>5
  <2> QED BY <2>2
<1>9. Covered(W, t) => U = {}
  <2>1. ASSUME Covered(W, t), U # {} PROVE FALSE
    <3>1. PICK u \in U : u \in S
      BY <2>1, <1>6
    <3>2. ~Ended(W, u)
      BY <1>5
    <3>3. u \in r.wait.ids /\ W.tasks[u].status # "cancelling"
      BY <3>1 DEF S
    <3> QED BY <2>1, <3>2, <3>3 DEF Covered
  <2> QED BY <2>1
<1>10. \A u \in Rows(W) : u \notin U => V.tasks[u] = W.tasks[u]
  BY <1>4
<1>11. Fences(W, V, t, U)
  BY <1>5, <1>7, <1>8, <1>9, <1>10 DEF Fences
<1> QED BY <1>1, <1>11

\* What the reconciliation of one task in an idle tree does.
LEMMA TaskDoes ==
  ASSUME NEW W, Fine(W), NEW root, Idle(W, root), NEW t \in InTree(W, root),
         NEW V, V = reconcileTask(W, root, t)
  PROVE  \/ Settles(W, V, t)
         \/ /\ Spoiled(W, t) /\ ~WaitOver(W, t) /\ ~RunEnded(W.tasks[t])
            /\ \E U : Fences(W, V, t, U)
<1> DEFINE r == W.tasks[t]
           A == Woken(W, t)
<1>1. /\ t \in Rows(W) /\ t \in Ids /\ W \in World /\ r \in Task /\ r.run \in Runs
      /\ W.call[t].phase = "none" /\ W.attempt[t] = "none"
      /\ Sound(r, W.call[t], W.attempt[t])
  BY RowsOf, RowFields DEF InTree, Idle
<1>2. V = SettleTask(A, t)
  BY DEF reconcileTask
<1>3. NoWait \in Wait
  BY DEF NoWait, WaitFor, Wait
<1>4. Fine(A) /\ t \in Rows(A) /\ Rows(A) = Rows(W)
  BY <1>1, WokenGoes DEF Goes, Kept, Rows
\* A task that ends because all its children have ended.
<1>5. ASSUME NEW X, Fine(X), Rows(X) = Rows(W), t \in Rows(X), Settleable(X, t)
      PROVE  LET Y == SettleTask(X, t) IN
             /\ \A u \in Rows(X) : u # t => Y.tasks[u] = X.tasks[u]
             /\ Ended(Y, t)
  <2> DEFINE s == [X.tasks[t] EXCEPT !.status = X.tasks[t].outcome]
  <2>1. X.tasks[t] \in Task /\ X.tasks[t].outcome \in Terminal
    <3>1. X.tasks[t] \in Task /\ Sound(X.tasks[t], X.call[t], X.attempt[t])
      BY <1>5, RowsOf
    <3>2. X.tasks[t].status \in {"completing", "cancelling"}
      BY <1>5 DEF Settleable
    <3> QED BY <3>1, <3>2 DEF Sound, Terminal
  <2>2. s \in Task /\ s.status \in Terminal
    BY <2>1 DEF Task, Decided
  <2>3. SettleTask(X, t) = saveTask(X, t, s)
    BY <1>5 DEF SettleTask
  <2> HIDE DEF s
  <2>4. \A u \in Rows(X) : SettleTask(X, t).tasks[u] = IF u = t THEN s ELSE X.tasks[u]
    BY <2>2, <2>3, <1>5, SavedRows
  <2> QED BY <1>5, <2>2, <2>4 DEF Ended
\* What has ended is neither open nor spoiled.
<1>6. ASSUME NEW Y, Ended(Y, t) PROVE ~Open(Y, t) /\ ~Spoiled(Y, t)
  BY <1>6 DEF Ended, Terminal, Open, Spoiled
<1>7. CASE r.status # "waiting"
  <2>1. A = W
    BY <1>7 DEF Woken
  <2>2. CASE Settleable(W, t)
    <3>1. /\ \A u \in Rows(W) : u # t => V.tasks[u] = W.tasks[u]
          /\ Ended(V, t)
      BY <1>1, <1>2, <1>5, <2>1, <2>2
    <3>2. r.status \in {"completing", "cancelling"} /\ \A c \in Children(W, t) : Ended(W, c)
      BY <2>2 DEF Settleable
    <3> QED BY <3>1, <3>2, <1>6 DEF Settles
  <2>3. CASE ~Settleable(W, t)
    <3>1. V = W
      BY <1>2, <2>1, <2>3 DEF SettleTask
    <3>2. ~Open(W, t)
      BY <1>1, <1>7, <2>3 DEF Settleable, Open
    <3>3. ~Spoiled(W, t)
      BY <1>7 DEF Spoiled
    <3> QED BY <3>1, <3>2, <3>3 DEF Settles
  <2> QED BY <2>2, <2>3
<1>8. CASE r.status = "waiting" /\ WaitOver(W, t)
  <2> DEFINE s == [r EXCEPT !.status = "pending", !.wait = NoWait]
  <2>1. s \in Task /\ s.status = "pending"
    BY <1>1, <1>3 DEF Task, Ready
  <2>2. A = saveTask(W, t, s)
    BY <1>8 DEF Woken
  <2> HIDE DEF s, A
  <2>3. \A u \in Rows(W) : A.tasks[u] = IF u = t THEN s ELSE W.tasks[u]
    BY <1>1, <2>1, <2>2, SavedRows
  <2>4. A.tasks[t].status = "pending"
    BY <1>1, <2>1, <2>3
  <2>5. V = A
    BY <1>2, <2>4 DEF SettleTask, Settleable
  <2>6. ~Open(A, t) /\ ~Spoiled(A, t) /\ ~Ended(A, t)
    BY <2>4 DEF Open, Spoiled, Ended, Terminal
  <2> QED BY <2>3, <2>5, <2>6 DEF Settles
<1>9. CASE r.status = "waiting" /\ ~WaitOver(W, t) /\ RunEnded(r)
  <2> DEFINE s == [r EXCEPT !.status = "completing", !.wait = NoWait, !.outcome = r.run]
  <2>1. r.run \in Terminal
    BY <1>9 DEF RunEnded, RunSettled, Terminal
  <2>2. s \in Task /\ s.status = "completing"
    BY <1>1, <1>3, <2>1 DEF Task, Decided
  <2>3. A = saveTask(W, t, s)
    BY <1>9 DEF Woken
  <2> HIDE DEF s, A
  <2>4. /\ \A u \in Rows(W) : A.tasks[u] = IF u = t THEN s ELSE W.tasks[u]
        /\ A.call = W.call /\ A.attempt = W.attempt
    BY <1>1, <2>2, <2>3, SavedRows
  <2>5. A.tasks[t].status = "completing"
    BY <1>1, <2>2, <2>4
  <2>6. CASE Settleable(A, t)
    <3>1. /\ \A u \in Rows(A) : u # t => V.tasks[u] = A.tasks[u]
          /\ Ended(V, t)
      BY <1>2, <1>4, <1>5, <2>6
    <3>2. \A u \in Rows(W) : u # t => V.tasks[u] = W.tasks[u]
      BY <3>1, <2>4, <1>4
    <3> QED BY <3>1, <3>2, <1>6, <1>9 DEF Settles
  <2>7. CASE ~Settleable(A, t)
    <3>1. V = A
      BY <1>2, <2>7 DEF SettleTask
    <3>2. ~Open(A, t)
      BY <1>1, <2>4, <2>5, <2>7 DEF Settleable, Open
    <3>3. ~Spoiled(A, t) /\ ~Ended(A, t)
      BY <2>5 DEF Spoiled, Ended, Terminal
    <3> QED BY <2>4, <3>1, <3>2, <3>3 DEF Settles
  <2> QED BY <2>6, <2>7
<1>10. CASE r.status = "waiting" /\ ~WaitOver(W, t) /\ ~RunEnded(r)
  <2>1. A = FailFast(W, t)
    BY <1>10 DEF Woken
  <2>2. CASE Spoiled(W, t)
    <3>1. PICK U : Fences(W, A, t, U)
      BY <1>1, <2>1, <2>2, FailFastDoes
    <3>2. t \notin U
      <4>1. t \in Nat
        BY <1>1, RowsOf
      <4> QED BY <3>1, <4>1 DEF Fences
    <3>3. A.tasks[t] = r
      BY <1>1, <3>1, <3>2 DEF Fences
    <3>4. V = A
      BY <1>2, <1>10, <3>3 DEF SettleTask, Settleable
    <3> QED BY <1>10, <2>2, <3>1, <3>4
  <2>3. CASE ~Spoiled(W, t)
    <3>1. A = W
      BY <1>10, <2>1, <2>3 DEF FailFast, Spoiled
    <3>2. V = W
      BY <1>2, <1>10, <3>1 DEF SettleTask, Settleable
    <3>3. ~Open(W, t)
      BY <1>10 DEF Open
    <3> QED BY <2>3, <3>2, <3>3 DEF Settles
  <2> QED BY <2>2, <2>3
<1> QED BY <1>7, <1>8, <1>9, <1>10
-----------------------------------------------------------------------------
(* The first pass.                                                          *)

\* In the first pass over a tree, when the tasks from m on have been reconciled: G are those that
\* were fenced by it, and of the others only such are unsettled that wait for one outside G.
FirstPass(V, root, m, G) ==
  /\ G \subseteq InTree(V, root)
  /\ \A u \in G :
       /\ u >= m /\ V.tasks[u].status = "cancelling" /\ V.tasks[u].parent >= m
       /\ V.tasks[u].parent \in G \/ Covered(V, V.tasks[u].parent)
  /\ \A u \in InTree(V, root) :
       u >= m /\ u \notin G =>
         /\ V.tasks[u].status \in {"completing", "cancelling"} =>
              \E c \in Children(V, u) : c \notin G /\ ~Ended(V, c)
         /\ V.tasks[u].status = "waiting" => ~WaitOver(V, u) /\ ~RunEnded(V.tasks[u])
         /\ Spoiled(V, u) => Covered(V, u)

\* The tree keeps its shape.
LEMMA Shape ==
  ASSUME NEW W, Fine(W), NEW V, Kept(W, V)
  PROVE  /\ Rows(V) = Rows(W)
         /\ \A u \in Rows(W) : /\ V.tasks[u].parent = W.tasks[u].parent
                               /\ V.tasks[u].root = W.tasks[u].root
         /\ \A root : InTree(V, root) = InTree(W, root)
         /\ \A u : Children(V, u) = Children(W, u)
<1>1. Rows(V) = Rows(W)
  BY DEF Kept, Rows
<1>2. \A u \in Rows(W) : /\ V.tasks[u].parent = W.tasks[u].parent
                         /\ V.tasks[u].root = W.tasks[u].root
  BY DEF Kept, Moved
<1> QED BY <1>1, <1>2 DEF InTree, Children

\* Children come after their parent.
LEMMA ChildrenBelow ==
  ASSUME NEW W, Fine(W), NEW u \in Rows(W), NEW c \in Children(W, u)
  PROVE  c \in Rows(W) /\ c \in Nat /\ u \in Nat /\ c > u /\ W.tasks[c].parent = u
         /\ W.tasks[c].root = W.tasks[u].root
<1>1. c \in Rows(W) /\ W.tasks[c].parent = u
  BY DEF Children
<1>2. u \in Nat \ {0}
  BY RowsOf
<1> QED BY <1>1, <1>2, RowsOf

\* What a task waits for, when of its children none has ended since.
LEMMA WaitAlike ==
  ASSUME NEW W, NEW V, NEW u, V.tasks[u] = W.tasks[u],
         \A c \in W.tasks[u].wait.ids :
           V.tasks[c] = W.tasks[c] \/ (~Ended(W, c) /\ V.tasks[c].status = "cancelling")
  PROVE  /\ WaitOver(V, u) <=> WaitOver(W, u)
         /\ Spoiled(V, u) <=> Spoiled(W, u)
         /\ Covered(W, u) => Covered(V, u)
<1>1. ASSUME NEW c \in W.tasks[u].wait.ids
      PROVE  /\ Ended(V, c) <=> Ended(W, c)
             /\ V.tasks[c].status \in {"failed", "cancelled"}
                  <=> W.tasks[c].status \in {"failed", "cancelled"}
             /\ W.tasks[c].status = "cancelling" => V.tasks[c].status = "cancelling"
  <2>1. CASE V.tasks[c] = W.tasks[c]
    BY <2>1 DEF Ended
  <2>2. CASE ~Ended(W, c) /\ V.tasks[c].status = "cancelling"
    BY <2>2 DEF Ended, Terminal
  <2> QED BY <2>1, <2>2
<1> DEFINE ids == W.tasks[u].wait.ids
<1>2. V.tasks[u].wait.ids = ids
  OBVIOUS
<1>3. WaitOver(V, u) <=> WaitOver(W, u)
  BY <1>1 DEF WaitOver
<1>4. Spoiled(V, u) <=> Spoiled(W, u)
  BY <1>1 DEF Spoiled
<1>5. Covered(W, u) => Covered(V, u)
  BY <1>1 DEF Covered
<1> QED BY <1>3, <1>4, <1>5

\* One more task, where nothing is left to do.
LEMMA FirstSettles ==
  ASSUME NEW W, Fine(W), NEW root, NEW t \in InTree(W, root), NEW V, Goes(W, V, root),
         Settles(W, V, t), NEW G, FirstPass(W, root, t + 1, G)
  PROVE  FirstPass(V, root, t, G)
<1>1. /\ Rows(V) = Rows(W) /\ InTree(V, root) = InTree(W, root)
      /\ \A u : Children(V, u) = Children(W, u)
      /\ \A u \in Rows(W) : V.tasks[u].parent = W.tasks[u].parent
  BY Shape DEF Goes
<1>2. t \in Rows(W) /\ t \in Nat /\ InTree(W, root) \subseteq Rows(W)
      /\ \A u \in Rows(W) : u \in Nat /\ W.tasks[u].parent \in Nat
  BY RowsOf DEF InTree
<1>3. \A u \in Rows(W) : u # t => V.tasks[u] = W.tasks[u]
  BY DEF Settles
\* Later tasks and those they wait for stay as they are.
<1>4. ASSUME NEW u \in Rows(W), u >= t + 1
      PROVE  /\ V.tasks[u] = W.tasks[u]
             /\ \A c \in Children(W, u) : V.tasks[c] = W.tasks[c]
             /\ WaitOver(V, u) <=> WaitOver(W, u)
             /\ Spoiled(V, u) <=> Spoiled(W, u)
             /\ Covered(W, u) => Covered(V, u)
  <2>0. u \in Nat /\ u > t
    <3>1. u \in Nat /\ t \in Nat
      BY <1>2
    <3> QED BY <3>1, <1>4
  <2>1. V.tasks[u] = W.tasks[u]
    BY <2>0, <1>2, <1>3
  <2>2. ASSUME NEW c \in Children(W, u) PROVE V.tasks[c] = W.tasks[c]
    <3>1. c \in Rows(W) /\ c \in Nat /\ c > u
      BY ChildrenBelow
    <3>2. c # t
      BY <3>1, <2>0, <1>2
    <3> QED BY <3>1, <3>2, <1>3
  <2>3. W.tasks[u].wait.ids \subseteq Children(W, u)
    BY RowsOf
  <2> QED BY <2>1, <2>2, <2>3, WaitAlike
<1>5. ASSUME NEW u \in G
      PROVE  /\ u >= t /\ V.tasks[u].status = "cancelling" /\ V.tasks[u].parent >= t
             /\ V.tasks[u].parent \in G \/ Covered(V, V.tasks[u].parent)
  <2> DEFINE p == W.tasks[u].parent
  <2>1. /\ u \in Rows(W) /\ u >= t + 1 /\ W.tasks[u].status = "cancelling" /\ p >= t + 1
        /\ p \in G \/ Covered(W, p)
    BY <1>2 DEF FirstPass
  <2>2. V.tasks[u] = W.tasks[u] /\ p \in Nat
    BY <1>2, <1>4, <2>1
  <2>3. p \in Rows(W)
    <3>1. p # 0
      BY <1>2, <2>1, <2>2
    <3> QED BY <2>1, <3>1, RowsOf
  <2>4. Covered(W, p) => Covered(V, p)
    BY <1>4, <2>1, <2>3
  <2> QED BY <1>2, <2>1, <2>2, <2>4
<1>6. ASSUME NEW u \in InTree(W, root), u >= t, u \notin G
      PROVE  /\ V.tasks[u].status \in {"completing", "cancelling"} =>
                  \E c \in Children(W, u) : c \notin G /\ ~Ended(V, c)
             /\ V.tasks[u].status = "waiting" => ~WaitOver(V, u) /\ ~RunEnded(V.tasks[u])
             /\ Spoiled(V, u) => Covered(V, u)
  <2>1. u \in Rows(W) /\ u \in Nat
    BY <1>2
  <2>2. CASE u = t
    <3>1. \A c \in Children(W, t) : c \notin G
      <4>1. ASSUME NEW c \in Children(W, t), c \in G PROVE FALSE
        <5>1. W.tasks[c].parent = t /\ W.tasks[c].parent >= t + 1
          BY <4>1 DEF Children, FirstPass
        <5> QED BY <5>1, <1>2
      <4> QED BY <4>1
    <3>2. ~Open(V, t) /\ ~Spoiled(V, t)
      BY DEF Settles
    <3> QED BY <2>2, <3>1, <3>2, <1>1 DEF Open
  <2>3. CASE u # t
    <3>1. u >= t + 1
      BY <1>2, <1>6, <2>1, <2>3
    <3>2. /\ W.tasks[u].status \in {"completing", "cancelling"} =>
                  \E c \in Children(W, u) : c \notin G /\ ~Ended(W, c)
          /\ W.tasks[u].status = "waiting" => ~WaitOver(W, u) /\ ~RunEnded(W.tasks[u])
          /\ Spoiled(W, u) => Covered(W, u)
      BY <1>6, <3>1 DEF FirstPass
    <3>3. \A c \in Children(W, u) : Ended(V, c) <=> Ended(W, c)
      BY <1>4, <2>1, <3>1 DEF Ended
    <3> QED BY <1>4, <2>1, <3>1, <3>2, <3>3
  <2> QED BY <2>2, <2>3
<1>7. G \subseteq InTree(V, root)
  BY <1>1 DEF FirstPass
<1> QED BY <1>1, <1>5, <1>6, <1>7 DEF FirstPass

\* One more task, where others are fenced.
LEMMA FirstFences ==
  ASSUME NEW W, Fine(W), NEW root, NEW t \in InTree(W, root), NEW V, Goes(W, V, root),
         NEW U, Fences(W, V, t, U), Spoiled(W, t), ~WaitOver(W, t), ~RunEnded(W.tasks[t]),
         NEW G, FirstPass(W, root, t + 1, G)
  PROVE  FirstPass(V, root, t, G \cup U)
<1> DEFINE H == G \cup U
<1>1. /\ Rows(V) = Rows(W) /\ InTree(V, root) = InTree(W, root)
      /\ \A u : Children(V, u) = Children(W, u)
      /\ \A u \in Rows(W) : V.tasks[u].parent = W.tasks[u].parent
                            /\ V.tasks[u].root = W.tasks[u].root
  BY Shape DEF Goes
<1>2. t \in Rows(W) /\ t \in Nat /\ InTree(W, root) \subseteq Rows(W)
      /\ \A u \in Rows(W) : u \in Nat /\ W.tasks[u].parent \in Nat
  BY RowsOf DEF InTree
<1>3. /\ U \subseteq Rows(W)
      /\ \A u \in Rows(W) : u \notin U => V.tasks[u] = W.tasks[u]
      /\ \A u \in U : /\ ~Ended(W, u) /\ V.tasks[u].status = "cancelling" /\ u > t
                      /\ W.tasks[u].parent = t \/ W.tasks[u].parent \in U
                      /\ W.tasks[u].root = W.tasks[t].root
      /\ \A c \in W.tasks[t].wait.ids :
           Ended(W, c) \/ W.tasks[c].status = "cancelling" \/ c \in U
  BY DEF Fences
<1>4. U \subseteq InTree(W, root)
  BY <1>3 DEF InTree
\* Tasks that are not fenced wait for the same.
<1>5. ASSUME NEW u \in Rows(W), u \notin U
      PROVE  /\ V.tasks[u] = W.tasks[u]
             /\ WaitOver(V, u) <=> WaitOver(W, u)
             /\ Spoiled(V, u) <=> Spoiled(W, u)
             /\ Covered(W, u) => Covered(V, u)
  <2>1. V.tasks[u] = W.tasks[u]
    BY <1>3, <1>5
  <2>2. W.tasks[u].wait.ids \subseteq Rows(W)
    BY RowsOf
  <2>3. \A c \in W.tasks[u].wait.ids :
          V.tasks[c] = W.tasks[c] \/ (~Ended(W, c) /\ V.tasks[c].status = "cancelling")
    BY <1>3, <2>2
  <2> QED BY <2>1, <2>3, WaitAlike
<1>6. t \notin U /\ V.tasks[t] = W.tasks[t] /\ Covered(V, t)
  <2>1. t \notin U
    BY <1>2, <1>3
  <2>2. V.tasks[t] = W.tasks[t]
    BY <1>2, <1>3, <2>1
  <2>3. ASSUME NEW c \in W.tasks[t].wait.ids PROVE Ended(V, c) \/ V.tasks[c].status = "cancelling"
    <3>1. c \in Rows(W)
      BY <1>2, RowsOf
    <3> QED BY <3>1, <1>3 DEF Ended
  <2> QED BY <2>1, <2>2, <2>3 DEF Spoiled, Covered
<1>7. ASSUME NEW u \in H
      PROVE  /\ u >= t /\ V.tasks[u].status = "cancelling" /\ V.tasks[u].parent >= t
             /\ V.tasks[u].parent \in H \/ Covered(V, V.tasks[u].parent)
  <2> DEFINE p == W.tasks[u].parent
  <2>1. CASE u \in U
    <3>1. /\ u \in Rows(W) /\ u > t /\ V.tasks[u].status = "cancelling"
          /\ p = t \/ p \in U
      BY <1>3, <2>1
    <3>2. p >= t
      <4>1. p \in U => p \in Nat /\ p > t
        BY <1>2, <1>3
      <4> QED BY <1>2, <3>1, <4>1
    <3> QED BY <1>1, <1>2, <1>6, <3>1, <3>2
  <2>2. CASE u \notin U
    <3>1. u \in G
      BY <2>2
    <3>2. /\ u \in Rows(W) /\ u >= t + 1 /\ W.tasks[u].status = "cancelling" /\ p >= t + 1
          /\ p \in G \/ Covered(W, p)
      BY <1>2, <3>1 DEF FirstPass
    <3>3. V.tasks[u] = W.tasks[u] /\ p \in Nat
      BY <1>2, <1>3, <2>2, <3>2
    <3>4. p \in Rows(W)
      <4>1. p # 0
        BY <1>2, <3>2, <3>3
      <4> QED BY <3>2, <4>1, RowsOf
    <3>5. p \in H \/ Covered(V, p)
      <4>1. CASE p \in U
        BY <4>1
      <4>2. CASE p \notin U
        BY <1>5, <3>2, <3>4, <4>2
      <4> QED BY <4>1, <4>2
    <3> HIDE DEF H
    <3> QED BY <1>2, <3>2, <3>3, <3>5
  <2> QED BY <2>1, <2>2
<1>8. ASSUME NEW u \in InTree(W, root), u >= t, u \notin H
      PROVE  /\ V.tasks[u].status \in {"completing", "cancelling"} =>
                  \E c \in Children(W, u) : c \notin H /\ ~Ended(V, c)
             /\ V.tasks[u].status = "waiting" => ~WaitOver(V, u) /\ ~RunEnded(V.tasks[u])
             /\ Spoiled(V, u) => Covered(V, u)
  <2>1. u \in Rows(W) /\ u \in Nat /\ u \notin U /\ u \notin G
    BY <1>2, <1>8
  <2>2. CASE u = t
    <3>1. V.tasks[t].status = "waiting"
      BY <1>6 DEF Spoiled
    <3>2. ~WaitOver(V, t)
      BY <1>2, <1>5, <1>6
    <3> QED BY <2>2, <3>1, <3>2, <1>6
  <2>3. CASE u # t
    <3>1. u >= t + 1
      BY <1>2, <1>8, <2>1, <2>3
    <3>2. /\ W.tasks[u].status \in {"completing", "cancelling"} =>
                  \E c \in Children(W, u) : c \notin G /\ ~Ended(W, c)
          /\ W.tasks[u].status = "waiting" => ~WaitOver(W, u) /\ ~RunEnded(W.tasks[u])
          /\ Spoiled(W, u) => Covered(W, u)
      BY <1>8, <2>1, <3>1 DEF FirstPass
    <3>3. ASSUME NEW c \in Children(W, u), c \notin G, ~Ended(W, c)
          PROVE  c \notin H /\ ~Ended(V, c)
      <4>1. c \in Rows(W) /\ W.tasks[c].parent = u
        BY DEF Children
      <4>2. c \notin U
        BY <1>3, <2>1, <2>3, <4>1
      <4> QED BY <3>3, <4>1, <4>2, <1>3 DEF Ended
    <3>4. V.tasks[u] = W.tasks[u]
      BY <1>5, <2>1
    <3> HIDE DEF H
    <3>5. V.tasks[u].status \in {"completing", "cancelling"} =>
                  \E c \in Children(W, u) : c \notin H /\ ~Ended(V, c)
      BY <3>2, <3>3, <3>4
    <3> QED BY <1>5, <2>1, <3>2, <3>4, <3>5
  <2> QED BY <2>2, <2>3
<1>9. H \subseteq InTree(V, root)
  BY <1>1, <1>4 DEF FirstPass
<1> HIDE DEF H
<1>10. FirstPass(V, root, t, H)
  BY <1>1, <1>7, <1>8, <1>9 DEF FirstPass
<1> QED BY <1>10 DEF H
\* A task outside the tree is left out.
LEMMA FirstSkips ==
  ASSUME NEW W, Fine(W), NEW root, NEW t \in Nat, t \notin InTree(W, root),
         NEW G, FirstPass(W, root, t + 1, G)
  PROVE  FirstPass(W, root, t, G)
<1>1. \A u \in InTree(W, root) : u \in Nat /\ W.tasks[u].parent \in Nat
  BY RowsOf DEF InTree
<1>2. ASSUME NEW u \in InTree(W, root), u >= t PROVE u >= t + 1
  <2>1. u \in Nat /\ u # t
    BY <1>1
  <2> QED BY <2>1, <1>2
<1>3. ASSUME NEW u \in G PROVE u >= t /\ W.tasks[u].parent >= t
  <2>1. u \in InTree(W, root) /\ u >= t + 1 /\ W.tasks[u].parent >= t + 1
    BY DEF FirstPass
  <2>2. u \in Nat /\ W.tasks[u].parent \in Nat
    BY <2>1, <1>1
  <2> QED BY <2>1, <2>2
<1> QED BY <1>2, <1>3 DEF FirstPass

\* The worlds of a pass.
LEMMA PassSteps ==
  ASSUME NEW W, NEW root, NEW n \in Nat, n = Len(W.tasks)
  PROVE  /\ Passes(W, root, n)[0] = W
         /\ \A k \in 1..n :
              Passes(W, root, n)[k] = reconcileTask(Passes(W, root, n)[k - 1], root, n + 1 - k)
         /\ reconcileTree(W, root) = Passes(W, root, n)[n]
<1> DEFINE f == Passes(W, root, n)
<1>1. n \in Nat
  OBVIOUS
<1>2. HavePasses(W, root, n)
  BY <1>1, PassesAll
<1>3. \E after : after = [k \in 0..n |->
        IF k = 0 THEN W ELSE reconcileTask(after[k - 1], root, Len(W.tasks) + 1 - k)]
  BY <1>2 DEF HavePasses
<1>4. f = [k \in 0..n |->
        IF k = 0 THEN W ELSE reconcileTask(f[k - 1], root, Len(W.tasks) + 1 - k)]
  BY <1>3, Zenon DEF Passes
<1>5. reconcileTree(W, root) = f[n]
  BY Zenon DEF reconcileTree, Passes
<1> HIDE DEF f
<1> DEFINE step(V, k) == reconcileTask(V, root, n + 1 - k)
<1>6. f = [k \in 0..n |-> IF k = 0 THEN W ELSE step(f[k - 1], k)]
  BY <1>4
<1> HIDE DEF step
<1>7. f[0] = W
  BY <1>6, <1>1
<1>8. ASSUME NEW k \in 1..n PROVE f[k] = step(f[k - 1], k)
  <2>1. k \in 0..n /\ k # 0
    BY <1>1
  <2> QED BY <2>1, <1>6
<1>9. \A k \in 1..n : f[k] = reconcileTask(f[k - 1], root, n + 1 - k)
  BY <1>8 DEF step
<1> QED BY <1>5, <1>7, <1>9 DEF f

\* A tree stays idle.
LEMMA IdleKept ==
  ASSUME NEW W, Fine(W), NEW root, NEW V, Kept(W, V), Steady(W, V)
  PROVE  Idle(V, root) <=> Idle(W, root)
<1>1. InTree(V, root) = InTree(W, root)
  BY Shape
<1>2. \A u \in InTree(W, root) : u \in Ids
  BY RowsOf DEF InTree
<1> QED BY <1>1, <1>2 DEF Idle, Steady

\* What the first pass achieves.
FirstDone(W, root, V) ==
  /\ Goes(W, V, root) /\ Steady(W, V)
  /\ Idle(W, root) => \E G : FirstPass(V, root, 1, G)

\* The first pass.
LEMMA FirstAll ==
  ASSUME NEW W, Fine(W), NEW root
  PROVE  FirstDone(W, root, reconcileTree(W, root))
<1> DEFINE n == Len(W.tasks)
<1>1. n \in Nat /\ Rows(W) = 1..n
  BY WorldFields DEF Fine, Rows
<1>0. n = Len(W.tasks)
  OBVIOUS
<1> HIDE DEF n
<1> DEFINE f == Passes(W, root, n)
<1>2. /\ f[0] = W
      /\ \A k \in 1..n : f[k] = reconcileTask(f[k - 1], root, n + 1 - k)
      /\ reconcileTree(W, root) = f[n]
  BY <1>0, <1>1, PassSteps
<1> HIDE DEF f
<1> DEFINE Holds(V, m) == /\ Goes(W, V, root) /\ Steady(W, V)
                          /\ Idle(W, root) => \E G : FirstPass(V, root, m, G)
           P == {k \in 0..n : Holds(f[k], n + 1 - k)}
<1>3. Holds(W, n + 1)
  <2>1. Goes(W, W, root) /\ Steady(W, W)
    BY GoesSelf DEF Steady
  <2>2. FirstPass(W, root, n + 1, {})
    <3>1. \A u \in InTree(W, root) : ~(u >= n + 1)
      BY <1>1 DEF InTree
    <3> QED BY <3>1 DEF FirstPass
  <2> QED BY <2>1, <2>2
<1>4. ASSUME NEW k \in 1..n, k - 1 \in P PROVE k \in P
  <2> DEFINE X == f[k - 1]
             Y == f[k]
             t == n + 1 - k
  <2>1. t \in 1..n /\ t \in Nat /\ n + 1 - (k - 1) = t + 1 /\ k \in 0..n
    BY <1>1
  <2>2. Holds(X, t + 1)
    BY <1>4, <2>1
  <2>3. Y = reconcileTask(X, root, t)
    BY <1>2
  <2> HIDE DEF X, Y, t
  <2>4. Fine(X) /\ Kept(W, X) /\ Goes(W, X, root) /\ Steady(W, X)
    BY <2>2 DEF Goes
  <2>5. Goes(X, Y, root) /\ Steady(X, Y)
    BY <2>3, <2>4, TaskGoes, TaskSteady
  <2>6. Goes(W, Y, root) /\ Steady(W, Y)
    BY <2>4, <2>5, GoesTwice, SteadyTwice
  <2>7. ASSUME Idle(W, root) PROVE \E G : FirstPass(Y, root, t, G)
    <3>1. PICK G : FirstPass(X, root, t + 1, G)
      BY <2>2, <2>7
    <3>2. Idle(X, root)
      BY <2>4, <2>7, IdleKept
    <3>3. CASE t \notin InTree(X, root)
      <4>1. Y = X
        BY <2>3, <3>3 DEF reconcileTask
      <4> QED BY <2>1, <2>4, <3>1, <3>3, <4>1, FirstSkips
    <3>4. CASE t \in InTree(X, root)
      <4>1. \/ Settles(X, Y, t)
            \/ /\ Spoiled(X, t) /\ ~WaitOver(X, t) /\ ~RunEnded(X.tasks[t])
               /\ \E U : Fences(X, Y, t, U)
        BY <2>3, <2>4, <3>2, <3>4, TaskDoes
      <4>2. CASE Settles(X, Y, t)
        BY <2>4, <2>5, <3>1, <3>4, <4>2, FirstSettles
      <4>3. CASE /\ Spoiled(X, t) /\ ~WaitOver(X, t) /\ ~RunEnded(X.tasks[t])
                 /\ \E U : Fences(X, Y, t, U)
        <5>1. PICK U : Fences(X, Y, t, U)
          BY <4>3
        <5>2. FirstPass(Y, root, t, G \cup U)
          BY <2>4, <2>5, <3>1, <3>4, <4>3, <5>1, FirstFences
        <5> QED BY <5>2
      <4> QED BY <4>1, <4>2, <4>3
    <3> QED BY <3>3, <3>4
  <2>8. Holds(Y, t)
    BY <2>6, <2>7
  <2> HIDE DEF Holds
  <2> QED BY <2>1, <2>8 DEF Y, t
<1>5. n \in P
  <2>1. 0 \in P
    BY <1>1, <1>2, <1>3
  <2> HIDE DEF P
  <2> QED BY <1>1, <1>4, <2>1, Reached
<1>6. n + 1 - n = 1
  BY <1>1
<1>7. Holds(f[n], 1)
  BY <1>5, <1>6
<1> QED BY <1>2, <1>7 DEF FirstDone

-----------------------------------------------------------------------------
(* The second pass.                                                         *)

\* In the second pass, from W to V, when the tasks from m on have been reconciled: those before
\* are as they were, and of those outside G none has ended that had not.
SecondPass(W, V, root, m, G) ==
  /\ \A u \in Rows(W) : u < m => V.tasks[u] = W.tasks[u]
  /\ \A u \in InTree(W, root) : u \notin G /\ ~Ended(W, u) => ~Ended(V, u)
  /\ \A u \in InTree(W, root) : u >= m => ~Open(V, u)

\* A task whose row and whose children are as they were is as open.
LEMMA OpenAlike ==
  ASSUME NEW W, Fine(W), NEW u \in Rows(W), NEW V, Children(V, u) = Children(W, u),
         V.tasks[u] = W.tasks[u], \A c \in Children(W, u) : V.tasks[c] = W.tasks[c]
  PROVE  Open(V, u) <=> Open(W, u)
<1>1. W.tasks[u].wait.ids \subseteq Children(W, u)
  BY RowsOf
<1>2. WaitOver(V, u) <=> WaitOver(W, u)
  BY <1>1, WaitAlike
<1>3. \A c \in Children(W, u) : Ended(V, c) <=> Ended(W, c)
  BY DEF Ended
<1> QED BY <1>2, <1>3 DEF Open

\* One more task, where nothing is left to do.
LEMMA SecondSettles ==
  ASSUME NEW W, Fine(W), NEW root, NEW G, FirstPass(W, root, 1, G),
         NEW X, Goes(W, X, root), NEW t \in InTree(W, root), SecondPass(W, X, root, t + 1, G),
         NEW Y, Goes(X, Y, root), Settles(X, Y, t)
  PROVE  SecondPass(W, Y, root, t, G)
<1>1. /\ Fine(X) /\ Rows(X) = Rows(W) /\ Rows(Y) = Rows(W)
      /\ \A u : Children(X, u) = Children(W, u) /\ Children(Y, u) = Children(W, u)
  BY Shape DEF Goes
<1>2. t \in Rows(W) /\ t \in Nat /\ \A u \in Rows(W) : u \in Nat \ {0}
  BY RowsOf DEF InTree
<1>3. \A u \in Rows(W) : u # t => Y.tasks[u] = X.tasks[u]
  BY <1>1 DEF Settles
<1>4. X.tasks[t] = W.tasks[t]
  BY <1>2 DEF SecondPass
<1>5. ASSUME NEW u \in Rows(W), u < t PROVE Y.tasks[u] = W.tasks[u]
  <2>1. u \in Nat /\ u # t /\ u < t + 1
    BY <1>2, <1>5
  <2> QED BY <2>1, <1>3 DEF SecondPass
<1>6. ASSUME NEW u \in InTree(W, root), u \notin G, ~Ended(W, u), Ended(Y, u) PROVE FALSE
  <2>1. ~Ended(X, u) /\ u \in Rows(W)
    BY <1>6 DEF SecondPass, InTree
  <2>2. u = t
    BY <1>3, <1>6, <2>1 DEF Ended
  <2>3. \/ W.tasks[t].status \in {"completing", "cancelling"}
           /\ \A c \in Children(W, t) : Ended(X, c)
        \/ W.tasks[t].status = "waiting" /\ RunEnded(W.tasks[t])
    BY <1>1, <1>4, <1>6, <2>1, <2>2 DEF Settles
  <2>4. t >= 1
    BY <1>2
  <2>5. /\ W.tasks[t].status \in {"completing", "cancelling"} =>
             \E c \in Children(W, t) : c \notin G /\ ~Ended(W, c)
        /\ W.tasks[t].status = "waiting" => ~RunEnded(W.tasks[t])
    BY <1>6, <2>2, <2>4 DEF FirstPass
  <2>6. \A c \in Children(W, t) : c \in InTree(W, root)
    <3>1. ASSUME NEW c \in Children(W, t) PROVE c \in InTree(W, root)
      <4>1. c \in Rows(W) /\ W.tasks[c].root = W.tasks[t].root
        BY <1>2, ChildrenBelow
      <4> QED BY <4>1 DEF InTree
    <3> QED BY <3>1
  <2> QED BY <2>3, <2>5, <2>6 DEF SecondPass
<1>7. ASSUME NEW u \in InTree(W, root), u >= t PROVE ~Open(Y, u)
  <2>1. CASE u = t
    BY <2>1 DEF Settles
  <2>2. CASE u # t
    <3>1. u \in Rows(W) /\ u \in Nat
      BY <1>2 DEF InTree
    <3>2. u >= t + 1
      BY <1>2, <1>7, <2>2, <3>1
    <3>3. ~Open(X, u)
      BY <3>2 DEF SecondPass
    <3>4. \A c \in Children(X, u) : Y.tasks[c] = X.tasks[c]
      <4>1. ASSUME NEW c \in Children(X, u) PROVE Y.tasks[c] = X.tasks[c]
        <5>1. c \in Rows(X) /\ c \in Nat /\ c > u
          BY <1>1, <3>1, ChildrenBelow
        <5>2. c # t
          BY <5>1, <3>1, <3>2, <1>2
        <5> QED BY <5>1, <5>2, <1>1, <1>3
      <4> QED BY <4>1
    <3>5. Y.tasks[u] = X.tasks[u]
      BY <3>1, <2>2, <1>3
    <3> QED BY <1>1, <3>1, <3>3, <3>4, <3>5, OpenAlike
  <2> QED BY <2>1, <2>2
<1> QED BY <1>5, <1>6, <1>7 DEF SecondPass

\* One more task, whose unsuccessful children have been dealt with.
LEMMA SecondFences ==
  ASSUME NEW W, Fine(W), NEW root, NEW G, FirstPass(W, root, 1, G),
         NEW X, Goes(W, X, root), NEW t \in InTree(W, root), SecondPass(W, X, root, t + 1, G),
         NEW Y, Goes(X, Y, root), NEW U, Fences(X, Y, t, U), Spoiled(X, t), ~WaitOver(X, t),
         ~RunEnded(X.tasks[t])
  PROVE  SecondPass(W, Y, root, t, G)
<1>1. /\ Fine(X) /\ Rows(X) = Rows(W) /\ Rows(Y) = Rows(W)
      /\ \A u : Children(X, u) = Children(W, u) /\ Children(Y, u) = Children(W, u)
  BY Shape DEF Goes
<1>2. t \in Rows(W) /\ t \in Nat /\ t >= 1 /\ \A u \in Rows(W) : u \in Nat \ {0}
  <2>1. t \in Rows(W) /\ \A u \in Rows(W) : u \in Nat \ {0}
    BY RowsOf DEF InTree
  <2> QED BY <2>1
<1>3. X.tasks[t] = W.tasks[t] /\ t \notin G
  <2>1. X.tasks[t] = W.tasks[t]
    BY <1>2 DEF SecondPass
  <2> QED BY <2>1 DEF FirstPass, Spoiled
<1> DEFINE ids == W.tasks[t].wait.ids
<1>4. ids \subseteq Children(W, t) /\ ids \subseteq Rows(W)
  BY <1>2, RowsOf
<1>5. \A c \in Rows(W) : Moved(W.tasks[c], X.tasks[c])
  BY DEF Goes, Kept
<1>6. Covered(W, t)
  <2>1. CASE Spoiled(W, t)
    BY <1>2, <1>3, <2>1 DEF FirstPass
  <2>2. CASE ~Spoiled(W, t)
    <3>1. PICK c \in ids : X.tasks[c].status \in {"failed", "cancelled"}
      BY <1>3 DEF Spoiled
    <3>2. W.tasks[c].status \notin {"failed", "cancelled"}
      BY <1>3, <2>2, <3>1 DEF Spoiled
    <3>3. c \in Rows(W) /\ c \in Children(W, t)
      BY <1>4
    <3>4. ~Ended(W, c) /\ Ended(X, c)
      <4>1. W.tasks[c].status \in Terminal => X.tasks[c] = W.tasks[c]
        BY <1>5, <3>3 DEF Moved
      <4> QED BY <3>1, <3>2, <4>1 DEF Ended, Terminal
    <3>5. c \in InTree(W, root) /\ W.tasks[c].parent = t
      <4>1. t \in Rows(W) /\ W.tasks[t].root = root
        BY <1>2 DEF InTree
      <4>2. W.tasks[c].root = W.tasks[t].root /\ W.tasks[c].parent = t
        BY <3>3, <4>1, ChildrenBelow
      <4> QED BY <3>3, <4>1, <4>2 DEF InTree
    <3>6. c \in G
      BY <3>4, <3>5 DEF SecondPass
    <3> QED BY <3>5, <3>6, <1>3 DEF FirstPass
  <2> QED BY <2>1, <2>2
<1>7. Covered(X, t)
  <2>1. ASSUME NEW c \in ids PROVE Ended(X, c) \/ X.tasks[c].status = "cancelling"
    <3>1. c \in Rows(W) /\ (Ended(W, c) \/ W.tasks[c].status = "cancelling")
      BY <1>4, <1>6 DEF Covered
    <3>2. Moved(W.tasks[c], X.tasks[c])
      BY <3>1, <1>5
    <3> QED BY <3>1, <3>2 DEF Moved, Ended, Terminal
  <2> QED BY <2>1, <1>3, <1>6 DEF Covered
<1>8. \A u \in Rows(W) : Y.tasks[u] = X.tasks[u]
  BY <1>1, <1>7 DEF Fences
<1>9. ASSUME NEW u \in InTree(W, root), u >= t PROVE ~Open(Y, u)
  <2>1. u \in Rows(W) /\ u \in Nat
    BY <1>2 DEF InTree
  <2>2. ~Open(X, u)
    <3>1. CASE u = t
      BY <3>1 DEF Open, Spoiled
    <3>2. CASE u # t
      <4>1. u >= t + 1
        BY <1>2, <1>9, <2>1, <3>2
      <4> QED BY <4>1 DEF SecondPass
    <3> QED BY <3>1, <3>2
  <2>3. \A c \in Children(X, u) : Y.tasks[c] = X.tasks[c]
    BY <1>1, <1>8 DEF Children
  <2> QED BY <1>1, <1>8, <2>1, <2>2, <2>3, OpenAlike
<1>10. ASSUME NEW u \in Rows(W), u < t PROVE Y.tasks[u] = W.tasks[u]
  <2>1. u \in Nat /\ t \in Nat
    BY <1>2
  <2>2. u < t + 1
    BY <2>1, <1>10
  <2> QED BY <2>2, <1>8 DEF SecondPass
<1>11. ASSUME NEW u \in InTree(W, root), u \notin G, ~Ended(W, u) PROVE ~Ended(Y, u)
  BY <1>8, <1>11 DEF SecondPass, Ended, InTree
<1> QED BY <1>9, <1>10, <1>11 DEF SecondPass

\* The second pass over an idle tree leaves nothing to do in it.
LEMMA SecondAll ==
  ASSUME NEW W, Fine(W), NEW root, Idle(W, root), NEW G, FirstPass(W, root, 1, G)
  PROVE  SecondPass(W, reconcileTree(W, root), root, 1, G)
<1> DEFINE n == Len(W.tasks)
<1>1. n \in Nat /\ Rows(W) = 1..n
  BY WorldFields DEF Fine, Rows
<1>0. n = Len(W.tasks)
  OBVIOUS
<1> HIDE DEF n
<1> DEFINE f == Passes(W, root, n)
<1>2. /\ f[0] = W
      /\ \A k \in 1..n : f[k] = reconcileTask(f[k - 1], root, n + 1 - k)
      /\ reconcileTree(W, root) = f[n]
  BY <1>0, <1>1, PassSteps
<1> HIDE DEF f
<1> DEFINE Holds(V, m) == Goes(W, V, root) /\ Steady(W, V) /\ SecondPass(W, V, root, m, G)
           P == {k \in 0..n : Holds(f[k], n + 1 - k)}
<1>3. Holds(W, n + 1)
  <2>1. Goes(W, W, root) /\ Steady(W, W)
    BY GoesSelf DEF Steady
  <2>2. \A u \in InTree(W, root) : ~(u >= n + 1)
    BY <1>1 DEF InTree
  <2> QED BY <2>1, <2>2 DEF SecondPass
<1>4. ASSUME NEW k \in 1..n, k - 1 \in P PROVE k \in P
  <2> DEFINE X == f[k - 1]
             Y == f[k]
             t == n + 1 - k
  <2>1. t \in 1..n /\ t \in Nat /\ n + 1 - (k - 1) = t + 1 /\ k \in 0..n
    BY <1>1
  <2>2. Holds(X, t + 1)
    BY <1>4, <2>1
  <2>3. Y = reconcileTask(X, root, t)
    BY <1>2
  <2> HIDE DEF X, Y, t
  <2>4. /\ Fine(X) /\ Kept(W, X) /\ Goes(W, X, root) /\ Steady(W, X)
        /\ SecondPass(W, X, root, t + 1, G)
    BY <2>2 DEF Goes
  <2>5. Goes(X, Y, root) /\ Steady(X, Y)
    BY <2>3, <2>4, TaskGoes, TaskSteady
  <2>6. Goes(W, Y, root) /\ Steady(W, Y)
    BY <2>4, <2>5, GoesTwice, SteadyTwice
  <2>7. Idle(X, root) /\ InTree(X, root) = InTree(W, root)
    BY <2>4, IdleKept, Shape
  <2>8. SecondPass(W, Y, root, t, G)
    <3>1. CASE t \notin InTree(X, root)
      <4>1. Y = X
        BY <2>3, <3>1 DEF reconcileTask
      <4>2. \A u \in InTree(W, root) : u \in Nat /\ u # t
        BY <2>7, <3>1, RowsOf DEF InTree
      <4>3. \A u \in InTree(W, root) : u >= t => u >= t + 1
        BY <2>1, <4>2
      <4>4. \A u \in Rows(W) : u < t => u < t + 1
        BY <1>1, <2>1
      <4> QED BY <2>4, <4>1, <4>3, <4>4 DEF SecondPass
    <3>2. CASE t \in InTree(X, root)
      <4>1. \/ Settles(X, Y, t)
            \/ /\ Spoiled(X, t) /\ ~WaitOver(X, t) /\ ~RunEnded(X.tasks[t])
               /\ \E U : Fences(X, Y, t, U)
        BY <2>3, <2>4, <2>7, <3>2, TaskDoes
      <4>2. CASE Settles(X, Y, t)
        BY <2>4, <2>5, <2>7, <3>2, <4>2, SecondSettles
      <4>3. CASE /\ Spoiled(X, t) /\ ~WaitOver(X, t) /\ ~RunEnded(X.tasks[t])
                 /\ \E U : Fences(X, Y, t, U)
        <5>1. PICK U : Fences(X, Y, t, U)
          BY <4>3
        <5> QED BY <2>4, <2>5, <2>7, <3>2, <4>3, <5>1, SecondFences
      <4> QED BY <4>1, <4>2, <4>3
    <3> QED BY <3>1, <3>2
  <2>9. Holds(Y, t)
    BY <2>6, <2>8
  <2> HIDE DEF Holds
  <2> QED BY <2>1, <2>9 DEF Y, t
<1>5. n \in P
  <2>1. 0 \in P
    BY <1>1, <1>2, <1>3
  <2> HIDE DEF P
  <2> QED BY <1>1, <1>4, <2>1, Reached
<1>6. n + 1 - n = 1
  BY <1>1
<1>7. Holds(f[n], 1)
  BY <1>5, <1>6
<1> QED BY <1>2, <1>7

-----------------------------------------------------------------------------
(* reconcile(): the tree is heard.                                          *)

\* In a tree nothing changes but that more runs and that its deadline is noted.
Alike(W, V, d) ==
  /\ InTree(V, d) = InTree(W, d)
  /\ \A t \in InTree(W, d) :
       /\ V.tasks[t] = W.tasks[t]
       /\ V.call[t].phase = "none" => W.call[t].phase = "none"
       /\ V.attempt[t] = "none" => W.attempt[t] = "none"
  /\ d \in W.deadlines => d \in V.deadlines

\* That is so in every tree but one.
Apart(W, V, root) == Fine(V) /\ \A d \in Ids : d # root => Alike(W, V, d)

\* The children of a task are in its tree.
LEMMA TreeOf ==
  ASSUME NEW W, Fine(W), NEW d, NEW t \in InTree(W, d)
  PROVE  Children(W, t) \subseteq InTree(W, d) /\ W.tasks[t].wait.ids \subseteq Children(W, t)
<1>1. t \in Rows(W) /\ W.tasks[t].root = d
  BY DEF InTree
<1>2. ASSUME NEW c \in Children(W, t) PROVE c \in InTree(W, d)
  <2>1. c \in Rows(W) /\ W.tasks[c].root = W.tasks[t].root
    BY <1>1, ChildrenBelow
  <2> QED BY <1>1, <2>1 DEF InTree
<1> QED BY <1>1, <1>2, RowsOf

\* A tree that is the same is heard as before.
LEMMA TreeAlike ==
  ASSUME NEW W, Fine(W), NEW V, Fine(V), NEW d, Alike(W, V, d), Heard(W, d)
  PROVE  Heard(V, d)
<1>1. SUFFICES ASSUME Idle(V, d), NEW t \in InTree(W, d)
               PROVE  /\ Timing(V.tasks[t]) => d \in V.deadlines
                      /\ Open(V, t) => Timing(V.tasks[t]) /\ V.tasks[t].wait.due
  BY DEF Heard, Alike
<1>2. Idle(W, d)
  BY <1>1 DEF Idle, Alike
<1>3. V.tasks[t] = W.tasks[t] /\ t \in Rows(W) /\ t \in Rows(V) /\ t \in InTree(V, d)
  BY <1>1 DEF InTree, Alike
<1>4. Children(V, t) = Children(W, t)
  <2>1. ASSUME NEW c \in Children(W, t) PROVE c \in Children(V, t)
    <3>1. c \in InTree(W, d)
      BY <1>1, TreeOf
    <3>2. c \in Rows(V) /\ V.tasks[c] = W.tasks[c]
      BY <3>1 DEF Alike, InTree
    <3> QED BY <3>2, <2>1 DEF Children
  <2>2. ASSUME NEW c \in Children(V, t) PROVE c \in Children(W, t)
    <3>1. c \in InTree(V, d)
      BY <1>3, TreeOf
    <3>2. c \in InTree(W, d) /\ V.tasks[c] = W.tasks[c]
      BY <3>1 DEF Alike
    <3> QED BY <3>2, <2>2 DEF InTree, Children
  <2> QED BY <2>1, <2>2
<1>5. \A c \in Children(W, t) : V.tasks[c] = W.tasks[c]
  <2>1. ASSUME NEW c \in Children(W, t) PROVE V.tasks[c] = W.tasks[c]
    <3>1. c \in InTree(W, d)
      BY <1>1, TreeOf
    <3> QED BY <3>1 DEF Alike
  <2> QED BY <2>1
<1>6. Open(V, t) <=> Open(W, t)
  BY <1>3, <1>4, <1>5, OpenAlike
<1> QED BY <1>1, <1>2, <1>3, <1>6 DEF Heard, Alike

\* What is apart is heard as before.
LEMMA ApartHeard ==
  ASSUME NEW W, Fine(W), NEW root, NEW V, Apart(W, V, root), NEW d \in Ids, d # root, Heard(W, d)
  PROVE  Heard(V, d)
BY TreeAlike DEF Apart

\* Where something runs all is heard.
LEMMA BusyHeard ==
  ASSUME NEW W, NEW d, NEW u \in InTree(W, d), W.call[u].phase # "none" \/ W.attempt[u] # "none"
  PROVE  Heard(W, d)
BY DEF Heard, Idle

\* All trees.
AllHeard(W) == \A d \in Ids : Heard(W, d)

\* A step in one tree that starts and ends nothing leaves the others.
LEMMA SteadyApart ==
  ASSUME NEW W, Fine(W), NEW root, NEW V, Goes(W, V, root), Steady(W, V)
  PROVE  Apart(W, V, root)
<1>1. ASSUME NEW d \in Ids, d # root PROVE Alike(W, V, d)
  <2>1. InTree(V, d) = InTree(W, d)
    BY Shape DEF Goes
  <2>2. ASSUME NEW t \in InTree(W, d)
        PROVE  V.tasks[t] = W.tasks[t] /\ V.call[t].phase = W.call[t].phase
    <3>1. t \in Rows(W) /\ t \in Ids /\ W.tasks[t].root # root
      BY <1>1, RowsOf DEF InTree
    <3> QED BY <3>1 DEF Goes, Inside, Steady
  <2> QED BY <2>1, <2>2 DEF Alike, Steady
<1> QED BY <1>1 DEF Apart, Goes

\* Launching invocations leaves all trees.
LEMMA PumpAlike ==
  ASSUME NEW W, Fine(W), NEW d
  PROVE  Fine(pump(W)) /\ Alike(W, pump(W), d)
<1> DEFINE V == pump(W)
           waiting == Without(W.ready, Active(W))
           free == MaxConcurrentTasks - Cardinality(Active(W))
           chosen == {waiting[i] : i \in {j \in DOMAIN waiting : j <= free}}
           c == [t \in Ids |-> IF t \in chosen THEN [NoCall EXCEPT !.phase = "launched"]
                                               ELSE W.call[t]]
<1>1. V = [W EXCEPT !.call = c]
  BY Zenon DEF pump
<1> HIDE DEF c
<1>2. V.deadlines = W.deadlines
  BY <1>1 DEF Fine, World
<1> HIDE DEF V
<1>3. Fine(V) /\ V.tasks = W.tasks /\ V.attempt = W.attempt /\ Kept(W, V)
  BY PumpGoes DEF Goes, V
<1>4. ASSUME NEW t \in InTree(W, d), V.call[t].phase = "none" PROVE W.call[t].phase = "none"
  <2>1. t \in Ids
    BY RowsOf DEF InTree
  <2> QED BY <2>1, <1>3, <1>4 DEF Kept
<1> QED BY <1>2, <1>3, <1>4, Shape DEF V, Alike

\* Two passes over a tree suffice: when nothing runs in it any more, no task of it could still
\* settle or go on, whatever was cancelled on the way; the deadline of each timer is noted; and
\* the other trees stay as they were (state.ts, reconcile() and reconcileTree()).
THEOREM TwoPassesSuffice ==
  ASSUME NEW W, Fine(W), NEW root \in Ids, NEW V, V = reconcile(W, root)
  PROVE  /\ Idle(V, root) =>
              \A t \in InTree(V, root) :
                 ~Open(V, t) /\ (Timing(V.tasks[t]) => root \in V.deadlines)
         /\ Apart(W, V, root)
<1> DEFINE A == reconcileTree(W, root)
           B == reconcileTree(A, root)
           e == IF Timed(B, root) THEN B.deadlines \cup {root} ELSE B.deadlines \ {root}
           C == [B EXCEPT !.deadlines = e]
           D == syncAgents(C, root)
<1>0. D = V
  BY DEF reconcile
<1>1. FirstDone(W, root, A)
  BY FirstAll
<1> HIDE DEF A
<1>2. Fine(A) /\ Goes(W, A, root) /\ Steady(W, A)
  BY <1>1 DEF FirstDone, Goes
<1>3. FirstDone(A, root, B)
  BY <1>2, FirstAll
<1>4. \A G : Idle(A, root) /\ FirstPass(A, root, 1, G) => SecondPass(A, B, root, 1, G)
  BY <1>2, SecondAll
<1> HIDE DEF B
<1>5. Fine(B) /\ Goes(A, B, root) /\ Steady(A, B) /\ Goes(W, B, root) /\ Steady(W, B)
  BY <1>2, <1>3, GoesTwice, SteadyTwice DEF FirstDone, Goes
\* Both passes.
<1>6. ASSUME Idle(B, root), NEW u \in InTree(B, root) PROVE ~Open(B, u)
  <2>1. Kept(A, B) /\ Kept(W, A)
    BY <1>2, <1>5 DEF Goes
  <2>2. Idle(A, root) /\ Idle(W, root) /\ u \in InTree(A, root)
    BY <1>2, <1>5, <1>6, <2>1, IdleKept, Shape
  <2>3. PICK G : FirstPass(A, root, 1, G)
    BY <1>1, <2>2 DEF FirstDone
  <2>4. u \in Nat \ {0}
    BY <1>2, <2>2, RowsOf DEF InTree
  <2>5. u >= 1
    BY <2>4
  <2> QED BY <1>4, <2>2, <2>3, <2>5 DEF SecondPass
<1>7. B \in World /\ e \in SUBSET Ids
  <2>1. B \in World /\ B.deadlines \in SUBSET Ids
    BY <1>5, WorldFields DEF Fine
  <2> QED BY <2>1
<1>8. /\ Timed(B, root) => root \in e
      /\ \A d \in B.deadlines : d # root => d \in e
  OBVIOUS
<1> HIDE DEF e
<1>9. /\ C.tasks = B.tasks /\ C.call = B.call /\ C.attempt = B.attempt /\ C.deadlines = e
      /\ C \in World
  BY <1>7 DEF World
<1>10. Goes(B, C, root)
  <2>1. C = [B EXCEPT !.deadlines = e]
    OBVIOUS
  <2> HIDE DEF C
  <2> QED BY <2>1, <1>5, <1>7, DeadlineGoes
<1> HIDE DEF C
<1>11. Goes(W, C, root) /\ Fine(C)
  BY <1>5, <1>10, GoesTwice DEF Goes
<1>12. Goes(C, D, root) /\ D.tasks = C.tasks /\ D.call = C.call
  BY <1>11, SyncGoes
<1>13. /\ D.deadlines = C.deadlines
       /\ \A t \in Ids : D.attempt[t] = "none" <=> C.attempt[t] = "none"
  BY <1>9 DEF syncAgents, World
<1> HIDE DEF D
<1>14. Goes(W, D, root) /\ Fine(D)
  BY <1>11, <1>12, GoesTwice DEF Goes
<1>15. ASSUME NEW d \in Ids, d # root PROVE Alike(W, D, d)
  <2>1. Alike(W, B, d)
    BY <1>5, <1>15, SteadyApart DEF Apart
  <2>2. /\ D.tasks = B.tasks /\ D.call = B.call
        /\ \A t \in Ids : D.attempt[t] = "none" <=> B.attempt[t] = "none"
        /\ d \in B.deadlines => d \in D.deadlines
    BY <1>8, <1>9, <1>12, <1>13, <1>15
  <2>3. InTree(D, d) = InTree(B, d)
    BY <2>2 DEF InTree, Rows
  <2>4. \A t \in InTree(W, d) : t \in Ids
    BY RowsOf DEF InTree
  <2> QED BY <2>1, <2>2, <2>3, <2>4 DEF Alike
<1>16. Idle(D, root) =>
         \A t \in InTree(D, root) :
            ~Open(D, t) /\ (Timing(D.tasks[t]) => root \in D.deadlines)
  <2>1. SUFFICES ASSUME Idle(D, root), NEW t \in InTree(D, root)
                 PROVE  (Timing(D.tasks[t]) => root \in D.deadlines) /\ ~Open(D, t)
    OBVIOUS
  <2>2. D.tasks = B.tasks /\ InTree(D, root) = InTree(B, root)
    BY <1>9, <1>12 DEF InTree, Rows
  <2>3. Idle(B, root)
    <3>1. \A u \in InTree(B, root) : u \in Ids
      BY <1>5, RowsOf DEF InTree
    <3> QED BY <3>1, <2>1, <2>2, <1>9, <1>12, <1>13 DEF Idle
  <2>4. ~Open(B, t)
    BY <1>6, <2>1, <2>2, <2>3
  <2>5. ~Open(D, t)
    BY <2>2, <2>4 DEF Open, Children, Ended, WaitOver, Rows
  <2>6. Timing(D.tasks[t]) => root \in D.deadlines
    <3>1. Timing(D.tasks[t]) => Timed(B, root)
      BY <2>1, <2>2 DEF Timing, Timed
    <3> QED BY <3>1, <1>8, <1>9, <1>13
  <2> QED BY <2>5, <2>6
<1> QED BY <1>0, <1>14, <1>15, <1>16 DEF Apart

\* Then the tree is heard.
LEMMA ReconcileHeard ==
  ASSUME NEW W, Fine(W), NEW root \in Ids, NEW V, V = reconcile(W, root)
  PROVE  Apart(W, V, root) /\ Heard(V, root)
BY TwoPassesSuffice DEF Heard

\* Steps apart, one after the other.
LEMMA ApartTwice ==
  ASSUME NEW W, NEW V, NEW U, NEW root, Apart(W, V, root), Apart(V, U, root)
  PROVE  Apart(W, U, root)
BY DEF Apart, Alike

\* A tree is reconciled and capacity is filled: all are heard, if the others were.
LEMMA ReconciledAll ==
  ASSUME NEW W, Fine(W), AllHeard(W), NEW X, NEW t \in Rows(X), NEW root, root = X.tasks[t].root,
         Apart(W, X, root)
  PROVE  AllHeard(Reconciled(X, t))
<1> DEFINE R == reconcile(X, root)
<1>1. Fine(X) /\ root \in Ids
  BY RowsOf DEF Apart
<1>2. Apart(X, R, root) /\ Heard(R, root)
  BY <1>1, ReconcileHeard
<1>3. Reconciled(X, t) = pump(R)
  BY DEF Reconciled
<1> HIDE DEF R
<1>4. Apart(W, R, root) /\ Fine(R)
  <2>1. Apart(W, R, root)
    BY <1>2, ApartTwice
  <2> QED BY <2>1 DEF Apart
<1>5. ASSUME NEW d \in Ids PROVE Heard(pump(R), d)
  <2>1. Heard(R, d)
    BY <1>2, <1>4, ApartHeard DEF AllHeard
  <2> QED BY <2>1, <1>4, PumpAlike, TreeAlike
<1> QED BY <1>3, <1>5 DEF AllHeard

\* Capacity is filled.
LEMMA PumpedAll ==
  ASSUME NEW W, Fine(W), AllHeard(W)
  PROVE  AllHeard(pump(W))
BY PumpAlike, TreeAlike DEF AllHeard

-----------------------------------------------------------------------------
(* The steps.                                                               *)

\* While the process is up and was resumed all trees are heard.
Heed == process = "up" /\ resumed => AllHeard(Now)

\* The next world.
LEMMA NextWorld ==
  ASSUME Fine(Now)'
  PROVE  \E V : /\ V = Now' /\ Fine(V)
                /\ V.tasks = tasks' /\ V.ready = ready' /\ V.call = call'
                /\ V.attempt = attempt' /\ V.deadlines = deadlines'
<1> DEFINE V == [tasks |-> tasks', ready |-> ready', call |-> call', attempt |-> attempt',
                 deadlines |-> deadlines']
<1>1. V = Now'
  BY DEF Now
<1>2. /\ V.tasks = tasks' /\ V.ready = ready' /\ V.call = call'
      /\ V.attempt = attempt' /\ V.deadlines = deadlines'
  OBVIOUS
<1> HIDE DEF V
<1>3. Fine(V)
  BY <1>1 DEF Fine
<1> QED BY <1>1, <1>2, <1>3

\* All trees of the next world are heard.
LEMMA NextHeard ==
  ASSUME NEW V, V = Now', AllHeard(V)
  PROVE  Heed'
<1>1. AllHeard(Now)'
  BY DEF AllHeard
<1> QED BY <1>1 DEF Heed

\* Nothing is owed in a process that is not up or was not resumed.
LEMMA NoHeed ==
  ASSUME process' # "up" \/ ~resumed'
  PROVE  Heed'
BY DEF Heed

\* A step in one tree.
LEMMA ApartNext ==
  ASSUME IInv, Heed, UNCHANGED <<process, resumed>>, NEW V, V = Now', NEW root,
         Apart(Now, V, root), Heard(V, root)
  PROVE  Heed'
<1>1. SUFFICES ASSUME process = "up", resumed PROVE Heed'
  BY NoHeed
<1>2. Fine(Now) /\ AllHeard(Now)
  BY <1>1 DEF IInv, Heed
<1>3. \A d \in Ids : Heard(V, d)
  BY <1>2, ApartHeard DEF AllHeard
<1> QED BY <1>3, NextHeard DEF AllHeard

\* Only rows of one tree change, and one invocation and one attempt there.
LEMMA ApartBy ==
  ASSUME NEW W, Fine(W), NEW V, Fine(V), NEW t \in Rows(W), NEW root, root = W.tasks[t].root,
         Rows(V) = Rows(W),
         \A u \in Rows(W) : IF W.tasks[u].root = root THEN V.tasks[u].root = root
                                                      ELSE V.tasks[u] = W.tasks[u],
         \A u \in Ids : u # t => /\ V.call[u].phase = W.call[u].phase
                                 /\ V.attempt[u] = W.attempt[u],
         V.deadlines = W.deadlines
  PROVE  Apart(W, V, root)
<1>1. ASSUME NEW d \in Ids, d # root PROVE Alike(W, V, d)
  <2>1. InTree(V, d) = InTree(W, d)
    BY <1>1 DEF InTree
  <2>2. ASSUME NEW u \in InTree(W, d)
        PROVE  /\ V.tasks[u] = W.tasks[u] /\ V.call[u].phase = W.call[u].phase
               /\ V.attempt[u] = W.attempt[u]
    <3>1. u \in Rows(W) /\ u \in Ids /\ W.tasks[u].root # root
      BY <1>1, RowsOf DEF InTree
    <3> QED BY <3>1
  <2> QED BY <2>1, <2>2 DEF Alike
<1> QED BY <1>1 DEF Apart

\* After such a step the invocation or the attempt is still there.
LEMMA BusyNext ==
  ASSUME IInv, Heed, Fine(Now)', UNCHANGED <<process, resumed, deadlines>>, NEW t \in Rows(Now),
         Len(tasks') = Len(tasks),
         \A u \in Rows(Now) : IF tasks[u].root = tasks[t].root THEN tasks'[u].root = tasks[t].root
                                                               ELSE tasks'[u] = tasks[u],
         \A u \in Ids : u # t => call'[u].phase = call[u].phase /\ attempt'[u] = attempt[u],
         call'[t].phase # "none" \/ attempt'[t] # "none"
  PROVE  Heed'
<1>1. PICK V : /\ V = Now' /\ Fine(V) /\ V.tasks = tasks' /\ V.call = call'
               /\ V.attempt = attempt' /\ V.deadlines = deadlines'
  BY NextWorld
<1> DEFINE root == Now.tasks[t].root
<1>2. Rows(V) = Rows(Now) /\ Fine(Now)
  BY <1>1, NowFields DEF Rows, IInv
<1>3. Apart(Now, V, root)
  <2>1. /\ \A u \in Rows(Now) : IF Now.tasks[u].root = root THEN V.tasks[u].root = root
                                                            ELSE V.tasks[u] = Now.tasks[u]
        /\ \A u \in Ids : u # t => /\ V.call[u].phase = Now.call[u].phase
                                   /\ V.attempt[u] = Now.attempt[u]
        /\ V.deadlines = Now.deadlines
    BY <1>1, NowFields
  <2> HIDE DEF root
  <2>2. root = Now.tasks[t].root
    BY DEF root
  <2> QED BY <1>1, <1>2, <2>1, <2>2, ApartBy
<1>4. Heard(V, root)
  <2>1. t \in InTree(V, root)
    BY <1>1, <1>2, NowFields DEF InTree
  <2> QED BY <1>1, <2>1, BusyHeard
<1> HIDE DEF root
<1> QED BY <1>1, <1>3, <1>4, ApartNext

\* The row of t is written, and nothing else of the rows.
LEMMA OneRow ==
  ASSUME IInv, NEW t \in Rows(Now), NEW row, row.root = tasks[t].root,
         tasks' = [tasks EXCEPT ![t] = row]
  PROVE  /\ Len(tasks') = Len(tasks) /\ tasks'[t] = row
         /\ \A u \in Rows(Now) : u # t => tasks'[u] = tasks[u]
         /\ \A u \in Rows(Now) :
              IF tasks[u].root = tasks[t].root THEN tasks'[u].root = tasks[t].root
                                               ELSE tasks'[u] = tasks[u]
<1>1. tasks \in Seq(Task) /\ Rows(Now) = DOMAIN tasks /\ Len(tasks) \in Nat
  BY WorldFields, NowFields DEF IInv, Fine
<1>2. Len(tasks') = Len(tasks)
  <2>1. DOMAIN tasks = 1..Len(tasks)
    BY <1>1
  <2>2. tasks' \in [1..Len(tasks) -> Task \cup {row}]
    BY <1>1, <2>1
  <2> QED BY <1>1, <2>2
<1>3. \A u \in Rows(Now) : tasks'[u] = IF u = t THEN row ELSE tasks[u]
  BY <1>1
<1> QED BY <1>2, <1>3

\* EndRun
LEMMA EndRunHeard ==
  ASSUME IInv, Heed, Fine(Now)', NEW t \in Ids, EndRun(t)
  PROVE  Heed'
<1>1. /\ attempt[t] = "executing" /\ attempt' = [attempt EXCEPT ![t] = "leaving"]
      /\ UNCHANGED <<ready, call, deadlines, process, resumed, executed>>
  BY DEF EndRun
<1>2. PICK run : tasks' = [tasks EXCEPT ![t] = Ran(t, run)]
  BY DEF EndRun, Ran
<1>3. t \in Rows(Now) /\ tasks[t] \in Task /\ attempt \in [Ids -> Attempts]
  BY <1>1, ActiveRow
<1>4. Ran(t, run).root = tasks[t].root
  BY <1>3 DEF Ran, Task
<1>5. /\ Len(tasks') = Len(tasks)
      /\ \A u \in Rows(Now) :
           IF tasks[u].root = tasks[t].root THEN tasks'[u].root = tasks[t].root
                                            ELSE tasks'[u] = tasks[u]
  BY <1>2, <1>3, <1>4, OneRow
<1>6. /\ \A u \in Ids : u # t => call'[u].phase = call[u].phase /\ attempt'[u] = attempt[u]
      /\ attempt'[t] # "none"
  BY <1>1, <1>3
<1> QED BY <1>1, <1>3, <1>5, <1>6, BusyNext

\* Only the invocation and the attempt of t change.
LEMMA CallNext ==
  ASSUME IInv, Heed, Fine(Now)', UNCHANGED <<tasks, process, resumed, deadlines>>,
         NEW t \in Rows(Now),
         \A u \in Ids : u # t => call'[u].phase = call[u].phase /\ attempt'[u] = attempt[u],
         call'[t].phase # "none" \/ attempt'[t] # "none"
  PROVE  Heed'
BY BusyNext

\* AbortRun
LEMMA AbortRunHeard ==
  ASSUME IInv, Heed, Fine(Now)', NEW t \in Ids, AbortRun(t)
  PROVE  Heed'
<1>1. /\ attempt[t] = "aborted" /\ attempt' = [attempt EXCEPT ![t] = "leaving"]
      /\ UNCHANGED <<tasks, ready, call, deadlines, process, resumed, executed>>
  BY DEF AbortRun
<1>2. t \in Rows(Now) /\ attempt \in [Ids -> Attempts]
  BY <1>1, ActiveRow
<1>3. /\ \A u \in Ids : u # t => call'[u].phase = call[u].phase /\ attempt'[u] = attempt[u]
      /\ attempt'[t] # "none"
  BY <1>1, <1>2
<1> QED BY <1>1, <1>2, <1>3, CallNext

\* ReturnEarly
LEMMA ReturnEarlyHeard ==
  ASSUME IInv, Heed, Fine(Now)', NEW t \in Ids, ReturnEarly(t)
  PROVE  Heed'
<1>1. /\ call[t].phase = "executing"
      /\ call' = [call EXCEPT ![t].phase = "returned", ![t].aborted = TRUE]
      /\ UNCHANGED <<tasks, ready, attempt, deadlines, process, resumed, executed>>
  BY DEF ReturnEarly, InPhase
<1>2. t \in Rows(Now) /\ call \in [Ids -> Call]
  BY <1>1, ActiveRow
<1>3. /\ \A u \in Ids : u # t => call'[u].phase = call[u].phase /\ attempt'[u] = attempt[u]
      /\ call'[t].phase # "none"
  BY <1>1, <1>2 DEF Call
<1> QED BY <1>1, <1>2, <1>3, CallNext

\* After a step in one tree it is reconciled.
LEMMA ReconciledHeard ==
  ASSUME IInv, Heed, UNCHANGED <<process, resumed>>, NEW W, NEW t \in Rows(W), NEW root,
         root = W.tasks[t].root, Apart(Now, W, root), Commit(Reconciled(W, t))
  PROVE  Heed'
<1> DEFINE V == Reconciled(W, t)
<1>1. SUFFICES ASSUME process = "up", resumed PROVE Heed'
  BY NoHeed
<1>2. Fine(Now) /\ AllHeard(Now)
  BY <1>1 DEF IInv, Heed
<1>3. AllHeard(V)
  BY <1>2, ReconciledAll
<1>4. V \in World
  <2>1. Fine(W)
    BY DEF Apart
  <2>2. Goes(W, V, W.tasks[t].root)
    BY <2>1, ReconciledGoes
  <2> HIDE DEF V
  <2> QED BY <2>2 DEF Goes, Fine
<1>5. Commit(V)
  OBVIOUS
<1> HIDE DEF V
<1>6. V = Now'
  BY <1>4, <1>5, Committed
<1> QED BY <1>3, <1>6, NextHeard

\* Only one task is written, and its tree is reconciled.
LEMMA DoneHeard ==
  ASSUME IInv, Heed, UNCHANGED <<process, resumed>>, NEW t \in Rows(Now), NEW row, NEW k, NEW a,
         NEW W, Done(Now, t, row, k, a, W), row.root = Now.tasks[t].root, Commit(Reconciled(W, t))
  PROVE  Heed'
<1> DEFINE root == Now.tasks[t].root
<1>1. /\ Fine(Now) /\ Fine(W) /\ Rows(W) = Rows(Now) /\ W.tasks[t] = row
      /\ W.deadlines = Now.deadlines
      /\ \A u \in Rows(Now) : u # t => W.tasks[u] = Now.tasks[u]
      /\ \A u \in Ids : u # t => W.call[u] = Now.call[u] /\ W.attempt[u] = Now.attempt[u]
  BY DEF Done, IInv
<1>2. root = W.tasks[t].root /\ t \in Rows(W)
  BY <1>1
<1>3. \A u \in Rows(Now) : IF Now.tasks[u].root = root THEN W.tasks[u].root = root
                                                       ELSE W.tasks[u] = Now.tasks[u]
  BY <1>1, <1>2
<1>4. \A u \in Ids : u # t => W.call[u].phase = Now.call[u].phase /\ W.attempt[u] = Now.attempt[u]
  BY <1>1
<1>5. root = Now.tasks[t].root
  OBVIOUS
<1> HIDE DEF root
<1>6. Apart(Now, W, root)
  BY <1>1, <1>3, <1>4, <1>5, ApartBy
<1> QED BY <1>2, <1>6, ReconciledHeard

\* A step of one tree that starts and ends nothing.
LEMMA GoesHeard ==
  ASSUME IInv, Heed, UNCHANGED <<process, resumed>>, NEW t \in Rows(Now), NEW W,
         Goes(Now, W, Now.tasks[t].root), Steady(Now, W), Commit(Reconciled(W, t))
  PROVE  Heed'
<1> DEFINE root == Now.tasks[t].root
<1>1. Fine(Now) /\ Apart(Now, W, root)
  BY SteadyApart DEF IInv
<1>2. t \in Rows(W) /\ W.tasks[t].root = root
  BY DEF Goes, Kept, Rows, Moved
<1> HIDE DEF root
<1> QED BY <1>1, <1>2, ReconciledHeard

\* LaunchRun
LEMMA LaunchRunHeard == ASSUME IInv, Heed, NEW t \in Ids, LaunchRun(t) PROVE Heed'
<1>1. t \in Rows(Now) /\ UNCHANGED <<process, resumed>>
  BY DEF LaunchRun
<1> QED BY <1>1, LaunchRunDone, DoneHeard

\* CancelRun
LEMMA CancelRunHeard == ASSUME IInv, Heed, NEW t \in Ids, CancelRun(t) PROVE Heed'
<1>1. t \in Rows(Now) /\ UNCHANGED <<process, resumed>>
  BY DEF CancelRun
<1> QED BY <1>1, CancelRunDone, DoneHeard

\* LeaveRun
LEMMA LeaveRunHeard == ASSUME IInv, Heed, NEW t \in Ids, LeaveRun(t) PROVE Heed'
<1>1. UNCHANGED <<process, resumed>>
  BY DEF LeaveRun
<1>2. SUFFICES ASSUME process = "up" PROVE Heed'
  BY <1>1, NoHeed
<1>3. t \in Rows(Now) /\ Now.tasks[t] = tasks[t]
  BY LeaveRunDone, NowFields
<1>4. PICK W : Done(Now, t, tasks[t], call[t], "none", W) /\ Commit(Reconciled(W, t))
  BY <1>2, LeaveRunDone
<1> QED BY <1>1, <1>3, <1>4, DoneHeard

\* Leave
LEMMA LeaveHeard == ASSUME IInv, Heed, NEW t \in Ids, Leave(t) PROVE Heed'
<1>1. UNCHANGED <<process, resumed>>
  BY DEF Leave
<1>2. SUFFICES ASSUME process = "up" PROVE Heed'
  BY <1>1, NoHeed
<1>3. t \in Rows(Now) /\ Now.tasks[t] = tasks[t]
  BY LeaveDone, NowFields
<1>4. PICK W : Done(Now, t, tasks[t], NoCall, attempt[t], W) /\ Commit(Reconciled(W, t))
  BY <1>2, LeaveDone
<1> QED BY <1>1, <1>3, <1>4, DoneHeard

\* Wake
LEMMA WakeHeard == ASSUME IInv, Heed, NEW root \in Ids, Wake(root) PROVE Heed'
<1>1. PICK t \in Rows(Now) : Now.tasks[t].root = root
  BY NowFields DEF Wake, Awake, InTree
<1>2. Fine(Now) /\ Commit(Reconciled(Now, root)) /\ UNCHANGED <<process, resumed>>
  BY DEF Wake, IInv
<1>3. root \in Rows(Now)
  BY <1>1, <1>2, RootOf
<1>4. Goes(Now, Now, Now.tasks[root].root) /\ Steady(Now, Now)
  BY <1>2, GoesSelf DEF Steady
<1> QED BY <1>2, <1>3, <1>4, GoesHeard

\* cancel
LEMMA CancelHeard == ASSUME IInv, Heed, NEW t \in Ids, cancel(t) PROVE Heed'
<1> DEFINE W == CancelAndAbort(Now, {t})
<1>1. /\ UNCHANGED <<process, resumed>>
      /\ Fine(Now) /\ Now \in World /\ t \in Rows(Now) /\ Commit(Reconciled(W, t))
  BY DEF cancel, IInv, Fine
<1>2. Goes(Now, W, Now.tasks[t].root)
  BY <1>1, CancelGoes
<1>3. Steady(Now, W)
  BY <1>1, CancelSteady
<1> HIDE DEF W
<1> QED BY <1>1, <1>2, <1>3, GoesHeard

\* signal
LEMMA SignalHeard == ASSUME IInv, Heed, NEW t \in Ids, signal(t) PROVE Heed'
<1>1. /\ UNCHANGED <<process, resumed>> /\ Fine(Now) /\ t \in Rows(Now)
  BY DEF signal, IInv
<1>2. PICK W : /\ Goes(Now, W, Now.tasks[t].root) /\ Commit(Reconciled(W, t))
               /\ (W = Now \/ \E row \in Task : W = saveTask(Now, t, row))
  BY SignalGoes
<1>3. Steady(Now, W)
  <2>1. CASE W = Now
    BY <2>1 DEF Steady
  <2>2. CASE \E row \in Task : W = saveTask(Now, t, row)
    BY <2>2, <1>1, SavedRows DEF Steady
  <2> QED BY <1>2, <2>1, <2>2
<1> QED BY <1>1, <1>2, <1>3, GoesHeard

-----------------------------------------------------------------------------
(* Steps after which the invocation is still there.                         *)

\* The invocation of t enters another phase, and its row stays.
LEMMA EnteredHeard ==
  ASSUME IInv, Heed, Fine(Now)', UNCHANGED <<process, resumed>>, NEW t \in Ids,
         call[t].phase # "none",
         NEW p \in {"launched", "executing", "returned", "rejected", "leaving"},
         Commit(Entered(Now, t, p))
  PROVE  Heed'
<1>1. t \in Rows(Now) /\ call \in [Ids -> Call]
  BY ActiveRow
<1>2. /\ tasks' = tasks /\ attempt' = attempt /\ deadlines' = deadlines
      /\ call' = [call EXCEPT ![t] = [call[t] EXCEPT !.phase = p]]
  BY DEF Commit, Entered, Now
<1>3. /\ \A u \in Ids : u # t => call'[u].phase = call[u].phase /\ attempt'[u] = attempt[u]
      /\ call'[t].phase # "none"
  BY <1>1, <1>2 DEF Call
<1> QED BY <1>1, <1>2, <1>3, CallNext

\* The invocation of t enters another phase, and its row is saved, after a step in its tree.
LEMMA SavedHeard ==
  ASSUME IInv, Heed, Fine(Now)', UNCHANGED <<process, resumed>>, NEW t \in Rows(Now),
         NEW W, Goes(Now, W, Now.tasks[t].root), Steady(Now, W),
         NEW row \in Task, row.root = tasks[t].root,
         NEW p \in {"executing", "leaving"}, Commit(Entered(saveTask(W, t, row), t, p))
  PROVE  Heed'
<1> DEFINE root == Now.tasks[t].root
<1>1. /\ Fine(W) /\ W \in World /\ Kept(Now, W) /\ Inside(Now, W, root) /\ t \in Ids
      /\ Fine(Now) /\ Rows(W) = Rows(Now) /\ t \in Rows(W) /\ Len(W.tasks) = Len(tasks)
  <2>1. Fine(W) /\ Kept(Now, W) /\ Inside(Now, W, root) /\ Fine(Now)
    BY DEF Goes, IInv
  <2>2. Rows(W) = Rows(Now) /\ Len(W.tasks) = Len(tasks)
    BY <2>1, NowFields DEF Kept, Rows
  <2> QED BY <2>1, <2>2, RowsOf
<1>2. PICK k \in Call : k.phase = p /\ Commit(Put(W, t, row, k, W.attempt[t]))
  <2>1. p \in {"none", "launched", "executing", "returned", "rejected", "leaving"}
    OBVIOUS
  <2> QED BY <1>1, <2>1, PutPhase
<1>3. /\ tasks' = [W.tasks EXCEPT ![t] = row] /\ call' = [W.call EXCEPT ![t] = k]
      /\ attempt' = [W.attempt EXCEPT ![t] = W.attempt[t]] /\ deadlines' = W.deadlines
  BY <1>2 DEF Commit, Put
<1>4. /\ W.call \in [Ids -> Call] /\ W.attempt \in [Ids -> Attempts] /\ W.tasks \in Seq(Task)
      /\ Rows(W) = DOMAIN W.tasks /\ Len(W.tasks) \in Nat
  BY <1>1, WorldFields
<1>5. Len(tasks') = Len(tasks)
  BY <1>1, <1>3, <1>4, ExceptSeq DEF Rows
<1>6. \A u \in Rows(Now) : tasks'[u] = IF u = t THEN row ELSE W.tasks[u]
  BY <1>1, <1>3, <1>4, ExceptSeq DEF Rows
<1>7. \A u \in Rows(Now) : IF tasks[u].root = tasks[t].root THEN tasks'[u].root = tasks[t].root
                                                            ELSE tasks'[u] = tasks[u]
  <2>1. ASSUME NEW u \in Rows(Now)
        PROVE  IF tasks[u].root = tasks[t].root THEN tasks'[u].root = tasks[t].root
                                                ELSE tasks'[u] = tasks[u]
    <3>1. W.tasks[u].root = tasks[u].root /\ u \in Ids
      BY <1>1, RowsOf, NowFields DEF Kept, Moved
    <3>2. tasks[u].root # tasks[t].root => W.tasks[u] = tasks[u]
      BY <1>1, <3>1, NowFields DEF Inside
    <3> QED BY <1>6, <3>1, <3>2
  <2> QED BY <2>1
<1>8. /\ \A u \in Ids : u # t => call'[u].phase = call[u].phase /\ attempt'[u] = attempt[u]
      /\ call'[t].phase # "none"
  BY <1>1, <1>2, <1>3, <1>4, NowFields DEF Steady
<1>9. UNCHANGED <<process, resumed, deadlines>>
  BY <1>3, NowFields DEF Steady
<1> QED BY <1>5, <1>7, <1>8, <1>9, BusyNext

\* The same when nothing else happened.
LEMMA SavedOnlyHeard ==
  ASSUME IInv, Heed, Fine(Now)', UNCHANGED <<process, resumed>>, NEW t \in Rows(Now),
         NEW row \in Task, row.root = tasks[t].root,
         NEW p \in {"executing", "leaving"}, Commit(Entered(saveTask(Now, t, row), t, p))
  PROVE  Heed'
<1>1. Goes(Now, Now, Now.tasks[t].root) /\ Steady(Now, Now)
  BY GoesSelf DEF IInv, Steady
<1> QED BY <1>1, SavedHeard

\* Begin
LEMMA BeginHeard == ASSUME IInv, Heed, Fine(Now)', NEW t \in Ids, Begin(t) PROVE Heed'
<1> DEFINE s(status) == [tasks[t] EXCEPT !.status = status]
<1>1. call[t].phase = "launched" /\ UNCHANGED <<process, resumed>>
  BY DEF Begin, InPhase
<1>2. t \in Rows(Now) /\ tasks[t] \in Task
  BY <1>1, ActiveRow
<1>3. \A status \in {"running", "needs_attention"} :
        s(status) \in Task /\ s(status).root = tasks[t].root
  BY <1>2 DEF Task, Ready
<1>4. \/ Commit(Entered(Now, t, "leaving"))
      \/ Commit(Entered(saveTask(Now, t, s("running")), t, "executing"))
      \/ Commit(Entered(saveTask(Now, t, s("needs_attention")), t, "leaving"))
  BY DEF Begin, Entered
<1> HIDE DEF s
<1>5. CASE Commit(Entered(Now, t, "leaving"))
  BY <1>1, <1>5, EnteredHeard
<1>6. CASE Commit(Entered(saveTask(Now, t, s("running")), t, "executing"))
  BY <1>1, <1>2, <1>3, <1>6, SavedOnlyHeard
<1>7. CASE Commit(Entered(saveTask(Now, t, s("needs_attention")), t, "leaving"))
  BY <1>1, <1>2, <1>3, <1>7, SavedOnlyHeard
<1> QED BY <1>4, <1>5, <1>6, <1>7

\* FinishRejected
LEMMA FinishRejectedHeard ==
  ASSUME IInv, Heed, Fine(Now)', NEW t \in Ids, FinishRejected(t)
  PROVE  Heed'
<1>1. /\ call[t].phase # "none" /\ UNCHANGED <<process, resumed>>
      /\ Commit(Entered(Now, t, "rejected"))
  BY DEF FinishRejected, Over, Entered
<1> QED BY <1>1, EnteredHeard

\* SettleRejected
LEMMA SettleRejectedHeard ==
  ASSUME IInv, Heed, Fine(Now)', NEW t \in Ids, SettleRejected(t)
  PROVE  Heed'
<1> DEFINE s == [tasks[t] EXCEPT !.status = "needs_attention", !.wait = NoWait, !.outcome = "none"]
<1>1. call[t].phase = "rejected" /\ UNCHANGED <<process, resumed>>
  BY DEF SettleRejected
<1>2. t \in Rows(Now) /\ tasks[t] \in Task
  BY <1>1, ActiveRow
<1>3. NoWait \in Wait
  BY DEF NoWait, WaitFor, Wait
<1>4. s \in Task /\ s.root = tasks[t].root
  BY <1>2, <1>3 DEF Task
<1>5. \/ Commit(Entered(saveTask(Now, t, s), t, "leaving"))
      \/ Commit(Entered(Now, t, "leaving"))
  BY DEF SettleRejected, Entered
<1> HIDE DEF s
<1>6. CASE Commit(Entered(saveTask(Now, t, s), t, "leaving"))
  BY <1>1, <1>2, <1>4, <1>6, SavedOnlyHeard
<1>7. CASE Commit(Entered(Now, t, "leaving"))
  BY <1>1, <1>7, EnteredHeard
<1> QED BY <1>5, <1>6, <1>7

\* Neither a row nor the phase of an invocation changes.
LEMMA SameHeard ==
  ASSUME IInv, Heed, Fine(Now)', UNCHANGED <<tasks, attempt, deadlines, process, resumed>>,
         \A u \in Ids : call'[u].phase = call[u].phase
  PROVE  Heed'
<1>1. SUFFICES ASSUME process = "up", resumed PROVE Heed'
  BY NoHeed
<1>2. Fine(Now) /\ AllHeard(Now)
  BY <1>1 DEF IInv, Heed
<1>3. PICK V : /\ V = Now' /\ Fine(V) /\ V.tasks = tasks' /\ V.call = call'
               /\ V.attempt = attempt' /\ V.deadlines = deadlines'
  BY NextWorld
<1>4. ASSUME NEW d \in Ids PROVE Heard(V, d)
  <2>1. InTree(V, d) = InTree(Now, d)
    BY <1>3, NowFields DEF InTree, Rows
  <2>2. \A u \in InTree(Now, d) : u \in Ids
    BY <1>2, RowsOf DEF InTree
  <2>3. Alike(Now, V, d)
    BY <1>3, <2>1, <2>2, NowFields DEF Alike
  <2>4. Heard(Now, d)
    BY <1>2 DEF AllHeard
  <2> QED BY <1>2, <1>3, <2>3, <2>4, TreeAlike
<1> QED BY <1>3, <1>4, NextHeard DEF AllHeard

\* EndEffect
LEMMA EndEffectHeard == ASSUME IInv, Heed, Fine(Now)', NEW t \in Ids, EndEffect(t) PROVE Heed'
<1>1. /\ call' = [call EXCEPT ![t].flight = FALSE]
      /\ UNCHANGED <<attempt, deadlines, process, resumed>>
      /\ UNCHANGED tasks \/ (call[t].phase = "executing"
                                /\ tasks' = [tasks EXCEPT ![t].effect = "completed"])
  BY DEF EndEffect
<1>2. call \in [Ids -> Call]
  BY WorldFields, NowFields DEF IInv, Fine
<1>3. \A u \in Ids : call'[u].phase = call[u].phase
  BY <1>1, <1>2 DEF Call
<1>4. CASE UNCHANGED tasks
  BY <1>1, <1>3, <1>4, SameHeard
<1>5. CASE call[t].phase = "executing" /\ tasks' = [tasks EXCEPT ![t].effect = "completed"]
  <2> DEFINE s == [tasks[t] EXCEPT !.effect = "completed"]
  <2>1. t \in Rows(Now) /\ tasks[t] \in Task
    BY <1>5, ActiveRow
  <2>2. s.root = tasks[t].root
    BY <2>1 DEF Task
  <2>3. tasks' = [tasks EXCEPT ![t] = s]
    BY <1>5
  <2> HIDE DEF s
  <2>4. /\ Len(tasks') = Len(tasks)
        /\ \A u \in Rows(Now) :
             IF tasks[u].root = tasks[t].root THEN tasks'[u].root = tasks[t].root
                                              ELSE tasks'[u] = tasks[u]
    BY <2>1, <2>2, <2>3, OneRow
  <2>5. call'[t].phase # "none"
    BY <1>3, <1>5
  <2> QED BY <1>1, <1>3, <2>1, <2>4, <2>5, BusyNext
<1> QED BY <1>1, <1>4, <1>5

\* StartEffect
LEMMA StartEffectHeard ==
  ASSUME IInv, Heed, Fine(Now)', NEW t \in Ids, StartEffect(t)
  PROVE  Heed'
<1>1. /\ call[t].phase = "executing" /\ UNCHANGED <<attempt, deadlines, process, resumed>>
      /\ \/ UNCHANGED tasks /\ call' = [call EXCEPT ![t].fatal = TRUE]
         \/ /\ tasks' = [tasks EXCEPT ![t].effect = "started"]
            /\ call' = [call EXCEPT ![t].flight = TRUE]
  BY DEF StartEffect, InPhase
<1>2. call \in [Ids -> Call] /\ t \in Rows(Now) /\ tasks[t] \in Task
  BY <1>1, ActiveRow
<1>3. \A u \in Ids : call'[u].phase = call[u].phase
  BY <1>1, <1>2 DEF Call
<1>4. CASE UNCHANGED tasks
  BY <1>1, <1>3, <1>4, SameHeard
<1>5. CASE tasks' = [tasks EXCEPT ![t].effect = "started"]
  <2> DEFINE s == [tasks[t] EXCEPT !.effect = "started"]
  <2>1. s.root = tasks[t].root
    BY <1>2 DEF Task
  <2>2. tasks' = [tasks EXCEPT ![t] = s]
    BY <1>5
  <2> HIDE DEF s
  <2>3. /\ Len(tasks') = Len(tasks)
        /\ \A u \in Rows(Now) :
             IF tasks[u].root = tasks[t].root THEN tasks'[u].root = tasks[t].root
                                              ELSE tasks'[u] = tasks[u]
    BY <1>2, <2>1, <2>2, OneRow
  <2>4. call'[t].phase # "none"
    BY <1>1, <1>3
  <2> QED BY <1>1, <1>2, <1>3, <2>3, <2>4, BusyNext
<1> QED BY <1>1, <1>4, <1>5

\* Finish
LEMMA FinishHeard == ASSUME IInv, Heed, Fine(Now)', NEW t \in Ids, Finish(t) PROVE Heed'
<1> DEFINE r == tasks[t]
<1>1. call[t].phase \in {"executing", "returned"} /\ UNCHANGED <<process, resumed>>
  BY DEF Finish, Over
<1>2. /\ Fine(Now) /\ Now \in World /\ t \in Rows(Now) /\ Now.tasks[t] = r
      /\ Sound(r, call[t], attempt[t])
  BY <1>1, ActiveRow DEF Fine
<1>3. CASE process # "up" \/ r.status # "running"
  <2>1. Commit(Entered(Now, t, "leaving"))
    BY <1>3 DEF Finish, Entered
  <2> QED BY <1>1, <2>1, EnteredHeard
<1>4. CASE process = "up" /\ r.status = "running"
  <2>1. PICK row \in Transition(t) :
          LET owned == IF row.status = "cancelling" THEN Children(Now, t) ELSE {}
          IN  Commit(Entered(saveTask(CancelAndAbort(Now, owned), t, row), t, "leaving"))
    BY <1>4 DEF Finish, Entered
  <2> DEFINE S == IF row.status = "cancelling" THEN Children(Now, t) ELSE {}
             A == CancelAndAbort(Now, S)
             root == Now.tasks[t].root
  <2>2. Commit(Entered(saveTask(A, t, row), t, "leaving"))
    BY <2>1
  <2>3. S \subseteq Children(Now, t)
    OBVIOUS
  <2> HIDE DEF S
  <2>4. S \subseteq Rows(Now) /\ \A c \in S : Now.tasks[c].root = root
    <3>1. \A c \in Children(Now, t) : c \in Rows(Now) /\ Now.tasks[c].root = root
      BY <1>2, ChildrenBelow
    <3> QED BY <2>3, <3>1
  <2> HIDE DEF root
  <2>5. Goes(Now, A, root) /\ Steady(Now, A)
    BY <1>2, <2>4, CancelGoes, CancelSteady
  <2> HIDE DEF A
  <2>6. Goes(Now, A, Now.tasks[t].root)
    BY <2>5 DEF root
  <2>7. r.run = "none"
    BY <1>1, <1>2 DEF Sound
  <2>8. row \in Task /\ row.root = r.root
    BY <1>2, <1>4, <2>7, TransitionRow
  <2> QED BY <1>1, <1>2, <2>2, <2>5, <2>6, <2>8, SavedHeard
<1> QED BY <1>3, <1>4

-----------------------------------------------------------------------------
(* New tasks.                                                               *)

\* A task that is created leaves the other trees.
LEMMA CreateAlike ==
  ASSUME NEW W, Fine(W), NEW row \in Task, FitsNew(W, row), NEW V, V = createTask(W, row),
         NEW d, d # row.root
  PROVE  Fine(V) /\ Alike(W, V, d)
<1> DEFINE id == Len(W.tasks) + 1
<1>1. /\ Fine(V) /\ Rows(W) \subseteq Rows(V) /\ V.tasks[id] = row
      /\ \A t \in Rows(V) : t \in Rows(W) \/ t = id
      /\ \A t \in Rows(W) : V.tasks[t] = W.tasks[t]
      /\ V.call = W.call /\ V.attempt = W.attempt
  BY CreateFine
<1>2. V.deadlines = W.deadlines
  BY DEF createTask, Fine, World
<1> HIDE DEF id
<1>3. InTree(V, d) = InTree(W, d)
  BY <1>1 DEF InTree
<1>4. \A t \in InTree(W, d) : t \in Rows(W)
  BY DEF InTree
<1> QED BY <1>1, <1>2, <1>3, <1>4 DEF Alike

\* Capacity is filled after a step that leaves all heard.
LEMMA PumpedHeard ==
  ASSUME NEW W, Fine(W), AllHeard(W), Commit(pump(W))
  PROVE  Heed'
<1> DEFINE V == pump(W)
<1>1. AllHeard(V)
  BY PumpedAll
<1>2. V \in World
  BY PumpAlike DEF Fine
<1>3. Commit(V)
  OBVIOUS
<1> HIDE DEF V
<1>4. V = Now'
  BY <1>2, <1>3, Committed
<1> QED BY <1>1, <1>4, NextHeard

\* submitTask
LEMMA SubmitTaskHeard ==
  ASSUME IInv, Heed, NEW key \in RootKeys, submitTask(key)
  PROVE  Heed'
<1>1. UNCHANGED <<process, resumed>> /\ Fine(Now)
  BY DEF submitTask, IInv
<1>2. SUFFICES ASSUME process = "up", resumed PROVE Heed'
  BY <1>1, NoHeed
<1>3. AllHeard(Now)
  BY <1>2 DEF Heed
<1>4. CASE Known(0, key) # {}
  <2>1. Commit(pump(Now))
    BY <1>4 DEF submitTask
  <2> QED BY <1>1, <1>3, <2>1, PumpedHeard
<1>5. CASE Known(0, key) = {}
  <2> DEFINE id == Len(Now.tasks) + 1
             row == NewTask(id, id, 0, key)
             W == createTask(Now, row)
  <2>1. id <= MaxTasks /\ Commit(pump(W))
    BY <1>5, NowFields DEF submitTask
  <2>2. id \in Ids /\ 0 \in 0..MaxTasks /\ key \in Keys
    <3>1. Len(Now.tasks) \in Nat
      BY <1>1, WorldFields DEF Fine
    <3> QED BY <2>1, <3>1, Limits DEF Ids, Keys
  <2>3. id = Len(Now.tasks) + 1
    OBVIOUS
  <2> HIDE DEF id
  <2>4. /\ row \in Task /\ row.root = id /\ row.parent = 0
        /\ row.status = "pending" /\ row.wait.ids = {} /\ row.run = "none"
    BY <2>2, NewRow
  <2> HIDE DEF row
  <2>5. FitsNew(Now, row)
    BY <2>1, <2>3, <2>4 DEF FitsNew
  <2>6. /\ Fine(W) /\ W.tasks[id] = row /\ id \notin Rows(Now)
        /\ \A t \in Rows(W) : t \in Rows(Now) \/ t = id
        /\ \A t \in Rows(Now) : W.tasks[t] = Now.tasks[t]
    BY <1>1, <2>3, <2>4, <2>5, CreateFine
  <2>7. ASSUME NEW d \in Ids, d # id PROVE Heard(W, d)
    <3>1. Heard(Now, d)
      BY <1>3 DEF AllHeard
    <3>2. Fine(W) /\ Alike(Now, W, d)
      BY <1>1, <2>4, <2>5, <2>7, CreateAlike
    <3> HIDE DEF W
    <3> QED BY <1>1, <3>1, <3>2, TreeAlike
  <2> HIDE DEF W
  <2>8. ASSUME NEW t \in InTree(W, id) PROVE W.tasks[t].status = "pending"
    <3>1. CASE t = id
      BY <2>4, <2>6, <3>1
    <3>2. CASE t # id
      <4>1. t \in Rows(Now) /\ Now.tasks[t].root = id
        BY <2>6, <2>8, <3>2 DEF InTree
      <4>2. id \in Rows(Now)
        BY <1>1, <4>1, RootOf
      <4> QED BY <2>6, <4>2
    <3> QED BY <3>1, <3>2
  <2>9. Heard(W, id)
    BY <2>8 DEF Heard, Timing, Open
  <2>10. AllHeard(W)
    BY <2>7, <2>9 DEF AllHeard
  <2> QED BY <2>1, <2>6, <2>10, PumpedHeard
<1> QED BY <1>4, <1>5

\* Spawn
LEMMA SpawnHeard ==
  ASSUME IInv, Heed, NEW t \in Ids, NEW key \in ChildKeys \cup AgentKeys, Spawn(t, key)
  PROVE  Heed'
<1> DEFINE root == Now.tasks[t].root
<1>1. UNCHANGED <<process, resumed>> /\ Fine(Now)
  BY DEF Spawn, IInv
<1>2. SUFFICES ASSUME process = "up", resumed PROVE Heed'
  BY <1>1, NoHeed
<1>3. AllHeard(Now)
  BY <1>2 DEF Heed
<1>4. t \in Rows(Now) /\ call[t].phase = "executing" /\ root \in Ids
  BY SpawnDone
<1>5. PICK W : Spawns(t, W) /\ Commit(pump(syncAgents(W, root)))
  BY SpawnDone
<1>6. /\ Fine(W) /\ t \in Rows(W) /\ W.tasks[t].root = root /\ W.call[t].phase = "executing"
      /\ \A d \in Ids : d # root => Alike(Now, W, d)
  <2>1. CASE W = Now
    BY <1>1, <1>4, <2>1, NowFields DEF Alike
  <2>2. ASSUME NEW row \in Task, FitsNew(Now, row), row.root = root, W = createTask(Now, row)
        PROVE  /\ Fine(W) /\ t \in Rows(W) /\ W.tasks[t].root = root
               /\ W.call[t].phase = "executing"
               /\ \A d \in Ids : d # root => Alike(Now, W, d)
    <3>1. /\ Fine(W) /\ Rows(Now) \subseteq Rows(W) /\ W.call = Now.call
          /\ \A u \in Rows(Now) : W.tasks[u] = Now.tasks[u]
      BY <1>1, <2>2, CreateFine
    <3>2. \A d \in Ids : d # root => Alike(Now, W, d)
      <4> HIDE DEF root
      <4> QED BY <1>1, <2>2, CreateAlike
    <3> QED BY <3>1, <3>2, <1>4, NowFields
  <2> QED BY <1>5, <2>1, <2>2 DEF Spawns
<1> DEFINE S == syncAgents(W, root)
<1>7. Commit(pump(S))
  BY <1>5
<1> HIDE DEF root
<1>8. Goes(W, S, root) /\ S.tasks = W.tasks /\ S.call = W.call
  BY <1>6, SyncGoes
<1>9. /\ S.deadlines = W.deadlines
      /\ \A u \in Ids : S.attempt[u] = "none" <=> W.attempt[u] = "none"
  BY <1>6 DEF syncAgents, World, Fine
<1> HIDE DEF S
<1>10. Fine(S) /\ \A d : InTree(S, d) = InTree(W, d)
  BY <1>8 DEF Goes, InTree, Rows
<1>11. ASSUME NEW d \in Ids PROVE Heard(S, d)
  <2>1. CASE d = root
    <3>1. t \in InTree(S, d) /\ S.call[t].phase # "none"
      BY <1>6, <1>8, <1>10, <2>1 DEF InTree
    <3> QED BY <3>1, BusyHeard
  <2>2. CASE d # root
    <3>1. Alike(Now, W, d) /\ Heard(Now, d)
      BY <1>3, <1>6, <2>2 DEF AllHeard
    <3>2. \A u \in InTree(Now, d) : u \in Ids
      BY <1>1, RowsOf DEF InTree
    <3>3. Alike(Now, S, d)
      BY <1>8, <1>9, <1>10, <3>1, <3>2 DEF Alike
    <3> QED BY <1>1, <1>10, <3>1, <3>3, TreeAlike
  <2> QED BY <2>1, <2>2
<1>12. AllHeard(S)
  BY <1>11 DEF AllHeard
<1> QED BY <1>7, <1>10, <1>12, PumpedHeard

-----------------------------------------------------------------------------
(* Steps that change one row.                                               *)

\* The row of t changes, neither to one that has ended nor to one that could go on untimed.
LEMMA RowHeard ==
  ASSUME NEW W, Fine(W), AllHeard(W), NEW t \in Rows(W), NEW V, Fine(V), Rows(V) = Rows(W),
         \A u \in Rows(W) : u # t => V.tasks[u] = W.tasks[u],
         V.tasks[t].root = W.tasks[t].root, V.tasks[t].parent = W.tasks[t].parent,
         \A u \in Ids : V.call[u].phase = W.call[u].phase /\ V.attempt[u] = W.attempt[u],
         V.deadlines = W.deadlines,
         Ended(V, t) <=> Ended(W, t),
         Timing(V.tasks[t]) => Timing(W.tasks[t]),
         Open(V, t) => Timing(V.tasks[t]) /\ V.tasks[t].wait.due
  PROVE  AllHeard(V)
<1>1. \A u \in Rows(W) : Ended(V, u) <=> Ended(W, u)
  BY DEF Ended
<1>2. \A u \in Rows(W) : V.tasks[u].root = W.tasks[u].root /\ V.tasks[u].parent = W.tasks[u].parent
  OBVIOUS
<1>3. \A u : Children(V, u) = Children(W, u) /\ InTree(V, u) = InTree(W, u)
  BY <1>2 DEF Children, InTree
<1>4. ASSUME NEW u \in Rows(W), u # t, Open(V, u) PROVE Open(W, u)
  <2>1. V.tasks[u] = W.tasks[u] /\ Children(V, u) = Children(W, u)
    BY <1>3, <1>4
  <2>2. Children(W, u) \subseteq Rows(W) /\ W.tasks[u].wait.ids \subseteq Rows(W)
    BY RowsOf
  <2>3. /\ \A c \in Children(W, u) : Ended(V, c) <=> Ended(W, c)
        /\ \A c \in W.tasks[u].wait.ids : Ended(V, c) <=> Ended(W, c)
    BY <1>1, <2>2
  <2> QED BY <1>4, <2>1, <2>3 DEF Open, WaitOver
<1>5. SUFFICES ASSUME NEW d \in Ids, Idle(V, d), NEW u \in InTree(V, d)
               PROVE  /\ Timing(V.tasks[u]) => d \in V.deadlines
                      /\ Open(V, u) => Timing(V.tasks[u]) /\ V.tasks[u].wait.due
  BY DEF AllHeard, Heard
<1>6. u \in InTree(W, d) /\ u \in Rows(W)
  BY <1>3, <1>5 DEF InTree
<1>7. Idle(W, d)
  <2>1. \A x \in InTree(W, d) : x \in Ids
    BY RowsOf DEF InTree
  <2> QED BY <1>3, <1>5, <2>1 DEF Idle
<1>8. /\ Timing(W.tasks[u]) => d \in W.deadlines
      /\ Open(W, u) => Timing(W.tasks[u]) /\ W.tasks[u].wait.due
  BY <1>6, <1>7 DEF AllHeard, Heard
<1>9. CASE u = t
  BY <1>8, <1>9
<1>10. CASE u # t
  BY <1>4, <1>6, <1>8, <1>10
<1> QED BY <1>9, <1>10

\* A blocked task is pending again.
LEMMA UnblockedHeard ==
  ASSUME IInv, Heed, NEW t \in Rows(Now), call[t].phase = "none",
         tasks[t].status = "needs_attention", NEW s \in Task, s.status = "pending",
         s.parent = tasks[t].parent, s.root = tasks[t].root, s.key = tasks[t].key,
         s.run = tasks[t].run, s.wait = tasks[t].wait, s.effect = "none" => tasks[t].effect = "none",
         Commit(pump(saveTask(Now, t, s))), UNCHANGED <<process, resumed>>
  PROVE  Heed'
<1> DEFINE W == saveTask(Now, t, s)
<1>1. SUFFICES ASSUME process = "up", resumed PROVE Heed'
  BY NoHeed
<1>2. Fine(Now) /\ AllHeard(Now)
  BY <1>1 DEF IInv, Heed
<1>3. Done(Now, t, s, Now.call[t], Now.attempt[t], W)
  BY UnblockedDone
<1>4. Commit(pump(W))
  OBVIOUS
<1> HIDE DEF W
<1>5. /\ Fine(W) /\ Rows(W) = Rows(Now) /\ W.tasks[t] = s /\ W.deadlines = Now.deadlines
      /\ \A u \in Rows(Now) : u # t => W.tasks[u] = Now.tasks[u]
      /\ \A u \in Ids : W.call[u].phase = Now.call[u].phase /\ W.attempt[u] = Now.attempt[u]
  BY <1>3 DEF Done
<1>6. /\ W.tasks[t].root = Now.tasks[t].root /\ W.tasks[t].parent = Now.tasks[t].parent
      /\ ~Ended(W, t) /\ ~Ended(Now, t)
      /\ ~Timing(W.tasks[t]) /\ ~Open(W, t)
  BY <1>5, NowFields DEF Ended, Terminal, Timing, Open
<1>7. AllHeard(W)
  BY <1>2, <1>5, <1>6, RowHeard
<1> QED BY <1>4, <1>5, <1>7, PumpedHeard

\* retry
LEMMA RetryHeard == ASSUME IInv, Heed, NEW t \in Ids, retry(t) PROVE Heed'
<1> DEFINE s == Unblocked(tasks[t])
<1>1. /\ t \in Rows(Now) /\ call[t].phase = "none"
      /\ tasks[t].status = "needs_attention"
      /\ Commit(pump(saveTask(Now, t, s))) /\ UNCHANGED <<process, resumed>>
  BY DEF retry
<1>2. tasks[t] \in Task
  BY <1>1, NowFields, RowsOf DEF IInv
<1>3. /\ s \in Task /\ s.status = "pending" /\ s.parent = tasks[t].parent
      /\ s.root = tasks[t].root /\ s.key = tasks[t].key /\ s.run = tasks[t].run
      /\ s.wait = tasks[t].wait /\ s.effect = tasks[t].effect
  BY <1>2 DEF Unblocked, Task, Ready
<1> HIDE DEF s
<1> QED BY <1>1, <1>3, UnblockedHeard

\* resolveEffect
LEMMA ResolveEffectHeard == ASSUME IInv, Heed, NEW t \in Ids, resolveEffect(t) PROVE Heed'
<1> DEFINE s == [Unblocked(tasks[t]) EXCEPT !.effect = "completed"]
<1>1. /\ t \in Rows(Now) /\ call[t].phase = "none"
      /\ tasks[t].status = "needs_attention"
      /\ Commit(pump(saveTask(Now, t, s))) /\ UNCHANGED <<process, resumed>>
  BY DEF resolveEffect
<1>2. tasks[t] \in Task
  BY <1>1, NowFields, RowsOf DEF IInv
<1>3. /\ s \in Task /\ s.status = "pending" /\ s.parent = tasks[t].parent
      /\ s.root = tasks[t].root /\ s.key = tasks[t].key /\ s.run = tasks[t].run
      /\ s.wait = tasks[t].wait /\ s.effect = "completed"
  BY <1>2 DEF Unblocked, Task, Ready
<1> HIDE DEF s
<1> QED BY <1>1, <1>3, UnblockedHeard

\* A row is written outside any invocation.
LEMMA RowNext ==
  ASSUME IInv, Heed, Fine(Now)', NEW t \in Rows(Now), NEW row, tasks' = [tasks EXCEPT ![t] = row],
         UNCHANGED <<call, attempt, deadlines, process, resumed>>,
         row.root = tasks[t].root, row.parent = tasks[t].parent,
         tasks[t].status = "waiting", row.status = "waiting",
         Timing(row) => Timing(tasks[t]),
         NEW V, V = Now', Open(V, t) => Timing(row) /\ row.wait.due
  PROVE  Heed'
<1>1. SUFFICES ASSUME process = "up", resumed PROVE Heed'
  BY NoHeed
<1>2. Fine(Now) /\ AllHeard(Now)
  BY <1>1 DEF IInv, Heed
<1>3. PICK U : /\ U = Now' /\ Fine(U) /\ U.tasks = tasks' /\ U.call = call'
               /\ U.attempt = attempt' /\ U.deadlines = deadlines'
  BY NextWorld
<1>4. /\ Fine(V) /\ V.tasks = tasks' /\ V.call = call /\ V.attempt = attempt
      /\ V.deadlines = deadlines
  BY <1>3
<1>5. /\ Len(tasks') = Len(tasks) /\ tasks'[t] = row
      /\ \A u \in Rows(Now) : u # t => tasks'[u] = tasks[u]
  BY OneRow
<1>6. Rows(V) = Rows(Now)
  BY <1>4, <1>5, NowFields DEF Rows
<1>7. Ended(V, t) <=> Ended(Now, t)
  BY <1>4, <1>5, NowFields DEF Ended, Terminal
<1>8. /\ \A u \in Rows(Now) : u # t => V.tasks[u] = Now.tasks[u]
      /\ V.tasks[t] = row /\ Now.tasks[t] = tasks[t] /\ V.deadlines = Now.deadlines
      /\ \A u \in Ids : V.call[u].phase = Now.call[u].phase /\ V.attempt[u] = Now.attempt[u]
  BY <1>4, <1>5, NowFields
<1>9. /\ V.tasks[t].root = Now.tasks[t].root /\ V.tasks[t].parent = Now.tasks[t].parent
      /\ Timing(V.tasks[t]) => Timing(Now.tasks[t])
      /\ Open(V, t) => Timing(V.tasks[t]) /\ V.tasks[t].wait.due
  BY <1>8
<1>10. AllHeard(V)
  <2>1. Fine(Now) /\ AllHeard(Now) /\ Fine(V)
    BY <1>2, <1>4
  <2> QED BY <2>1, <1>6, <1>7, <1>8, <1>9, RowHeard
<1> QED BY <1>10, NextHeard

\* ContinueRun
LEMMA ContinueRunHeard ==
  ASSUME IInv, Heed, Fine(Now)', NEW t \in Ids, ContinueRun(t)
  PROVE  Heed'
<1> DEFINE s == Ran(t, "pending")
<1>1. /\ t \in Rows(Now) /\ tasks[t].status \notin Decided
      /\ tasks[t].run \in Paused \cup {"failed"}
      /\ tasks' = [tasks EXCEPT ![t].run = "pending"]
      /\ UNCHANGED <<call, attempt, deadlines, process, resumed>>
  BY DEF ContinueRun, Mutable
<1>2. tasks[t] \in Task /\ Sound(tasks[t], call[t], attempt[t])
  BY <1>1, RowsOf, NowFields DEF IInv
<1>3. tasks[t].run # "none"
  BY <1>1 DEF Paused
<1>4. tasks[t].status = "waiting" /\ tasks[t].wait.kind = "agent"
  BY <1>1, <1>2, <1>3 DEF Sound
<1>5. /\ s.root = tasks[t].root /\ s.parent = tasks[t].parent /\ s.status = "waiting"
      /\ s.wait = tasks[t].wait /\ s.run = "pending"
  BY <1>2, <1>4 DEF Ran, Task
<1>6. tasks' = [tasks EXCEPT ![t] = s]
  BY <1>1 DEF Ran
<1> HIDE DEF s
<1>7. PICK V : V = Now' /\ V.tasks = tasks'
  BY NextWorld
<1>8. V.tasks[t] = s
  <2>1. tasks'[t] = s
    BY <1>1, <1>5, <1>6, OneRow
  <2> QED BY <1>7, <2>1
<1>9. ~Open(V, t) /\ ~Timing(s)
  BY <1>4, <1>5, <1>8 DEF Open, WaitOver, RunEnded, RunSettled, Timing
<1> QED BY <1>1, <1>4, <1>5, <1>6, <1>7, <1>9, RowNext

\* Elapse
LEMMA ElapseHeard ==
  ASSUME IInv, Heed, Fine(Now)', NEW t \in Ids, Elapse(t)
  PROVE  Heed'
<1> DEFINE s == [tasks[t] EXCEPT !.wait = [tasks[t].wait EXCEPT !.due = TRUE]]
<1>1. /\ t \in Rows(Now) /\ tasks[t].status = "waiting" /\ tasks[t].wait.kind = "timer"
      /\ tasks' = [tasks EXCEPT ![t].wait.due = TRUE]
      /\ UNCHANGED <<call, attempt, deadlines, process, resumed>>
  BY DEF Elapse
<1>2. tasks[t] \in Task /\ tasks[t].wait \in Wait
  BY <1>1, RowsOf, RowFields, NowFields DEF IInv
<1>3. /\ s.root = tasks[t].root /\ s.parent = tasks[t].parent /\ s.status = "waiting"
      /\ s.wait.kind = "timer" /\ s.wait.due
  BY <1>1, <1>2 DEF Task, Wait
<1>4. tasks' = [tasks EXCEPT ![t] = s]
  BY <1>1
<1> HIDE DEF s
<1>5. Timing(s) /\ Timing(tasks[t])
  BY <1>1, <1>3 DEF Timing
<1>6. PICK V : V = Now'
  OBVIOUS
<1> QED BY <1>1, <1>3, <1>4, <1>5, <1>6, RowNext

-----------------------------------------------------------------------------
(* All trees are reconciled.                                                *)

\* A root comes before the tasks of its tree.
LEMMA RootFirst ==
  ASSUME NEW W, Fine(W), NEW t \in Rows(W)
  PROVE  W.tasks[t].root <= t /\ (W.tasks[t].parent # 0 => W.tasks[t].root < t)
<1> DEFINE Late == {u \in Rows(W) : ~(W.tasks[u].root <= u)}
<1>1. ASSUME Late # {} PROVE FALSE
  <2>1. Late \in SUBSET Nat
    BY RowsOf
  <2>2. PICK m \in Late : \A u \in Late : m <= u
    BY <1>1, <2>1, Least
  <2>3. /\ m \in Rows(W) /\ m \in Nat /\ W.tasks[m].parent \in Nat /\ W.tasks[m].parent < m
        /\ W.tasks[m].parent = 0 => W.tasks[m].root = m
        /\ W.tasks[m].parent # 0 =>
             W.tasks[m].parent \in Rows(W) /\ W.tasks[m].root = W.tasks[W.tasks[m].parent].root
        /\ W.tasks[m].root \in Ids
    BY <2>2, RowsOf
  <2>4. W.tasks[m].parent \notin Late
    BY <2>2, <2>3
  <2>5. W.tasks[m].root \in Nat /\ ~(W.tasks[m].root <= m)
    BY <2>2, <2>3 DEF Ids
  <2> QED BY <2>3, <2>4, <2>5
<1>2. \A u \in Rows(W) : W.tasks[u].root <= u
  BY <1>1
<1>3. /\ t \in Nat /\ W.tasks[t].parent \in Nat /\ W.tasks[t].parent < t
      /\ W.tasks[t].parent # 0 =>
           W.tasks[t].parent \in Rows(W) /\ W.tasks[t].root = W.tasks[W.tasks[t].parent].root
      /\ W.tasks[t].root \in Nat
  BY RowsOf DEF Ids
<1> QED BY <1>2, <1>3

\* When the root has ended, so has the tree.
LEMMA RootLast ==
  ASSUME NEW W, Fine(W), NEW d \in Rows(W), Ended(W, d), NEW t \in InTree(W, d)
  PROVE  Ended(W, t)
<1> DEFINE Left == {u \in InTree(W, d) : ~Ended(W, u)}
<1>1. SUFFICES ASSUME t \in Left PROVE FALSE
  OBVIOUS
<1>2. Left \in SUBSET Nat
  BY RowsOf DEF InTree
<1>3. PICK m \in Left : \A u \in Left : m <= u
  BY <1>1, <1>2, Least
<1> DEFINE p == W.tasks[m].parent
<1>4. /\ m \in Rows(W) /\ m \in Nat /\ p \in Nat /\ p < m /\ W.tasks[m].root = d
      /\ p = 0 => W.tasks[m].root = m
      /\ p # 0 => p \in Rows(W) /\ W.tasks[m].root = W.tasks[p].root
  BY <1>3, RowsOf DEF InTree
<1>5. ~Ended(W, m)
  BY <1>3
<1>6. p # 0
  BY <1>4, <1>5
<1>7. p \in InTree(W, d) /\ p \notin Left
  <2>1. p \in InTree(W, d)
    BY <1>4, <1>6 DEF InTree
  <2>2. ~(m <= p)
    BY <1>4
  <2> QED BY <1>3, <2>1, <2>2
<1>8. Ended(W, p)
  BY <1>7
<1>9. Ended(W, m)
  BY <1>4, <1>6, <1>8 DEF Fine, Nested
<1> QED BY <1>5, <1>9

\* Nothing is left to hear of a tree that has ended.
LEMMA EndedHeard ==
  ASSUME NEW W, NEW d, \A t \in InTree(W, d) : Ended(W, t)
  PROVE  Heard(W, d)
BY DEF Heard, Timing, Open, Ended, Terminal

\* What is so after resume() has looked at the first k tasks.
Resuming(W, V, k) == Fine(V) /\ Kept(W, V) /\ \A d \in 1..k : Heard(V, d)

\* One more task.
LEMMA RootHeard ==
  ASSUME NEW W, Fine(W), NEW k \in Rows(W), NEW V, Resuming(W, V, k - 1)
  PROVE  Resuming(W, reconcileRoot(V, W, k), k)
<1> DEFINE R == reconcileRoot(V, W, k)
<1>1. k \in Ids /\ k \in Nat \ {0} /\ Fine(V) /\ Kept(W, V) /\ k \in Rows(V)
  BY RowsOf DEF Resuming, Kept, Rows
<1>2. \A d \in 1..k : d \in Ids /\ d \in Nat /\ (d # k => d \in 1..k - 1)
  BY <1>1, Limits DEF Ids
<1>3. CASE W.tasks[k].parent = 0 /\ ~Ended(W, k)
  <2>1. R = reconcile(V, k)
    BY <1>3 DEF reconcileRoot
  <2> HIDE DEF R
  <2>2. Apart(V, R, k) /\ Heard(R, k) /\ Goes(V, R, k)
    BY <1>1, <2>1, ReconcileHeard, ReconcileGoes
  <2>3. Fine(R) /\ Kept(W, R)
    BY <1>1, <2>2, KeptTwice DEF Goes
  <2>4. ASSUME NEW d \in 1..k, d # k PROVE Heard(R, d)
    <3>1. d \in Ids /\ Heard(V, d)
      BY <1>2, <2>4 DEF Resuming
    <3> QED BY <1>1, <2>2, <2>4, <3>1, ApartHeard
  <2>5. \A d \in 1..k : Heard(R, d)
    BY <2>2, <2>4
  <2>6. Resuming(W, R, k)
    BY <2>3, <2>5 DEF Resuming
  <2> QED BY <2>6 DEF R
<1>4. CASE ~(W.tasks[k].parent = 0 /\ ~Ended(W, k))
  <2>1. R = V
    BY <1>4 DEF reconcileRoot
  <2> HIDE DEF R
  <2>2. Moved(W.tasks[k], V.tasks[k])
    BY <1>1 DEF Kept
  <2>3. ASSUME NEW t \in InTree(V, k) PROVE Ended(V, t)
    <3>1. CASE W.tasks[k].parent # 0
      <4>1. V.tasks[k].root = k
        BY <1>1, <2>3, RootOf DEF InTree
      <4>2. V.tasks[k].parent # 0
        BY <2>2, <3>1 DEF Moved
      <4>3. V.tasks[k].root < k
        BY <1>1, <4>2, RootFirst
      <4> QED BY <1>1, <4>1, <4>3
    <3>2. CASE Ended(W, k)
      <4>1. Ended(V, k)
        BY <2>2, <3>2 DEF Moved, Ended
      <4> QED BY <1>1, <2>3, <4>1, RootLast
    <3> QED BY <1>4, <3>1, <3>2
  <2>4. Heard(V, k)
    BY <2>3, EndedHeard
  <2>5. \A d \in 1..k : Heard(V, d)
    BY <1>2, <2>4 DEF Resuming
  <2>6. Resuming(W, R, k)
    BY <1>1, <2>1, <2>5 DEF Resuming
  <2> QED BY <2>6 DEF R
<1> QED BY <1>3, <1>4

\* All trees.
LEMMA RootsHeard ==
  ASSUME NEW W, Fine(W), NEW V, V = reconcileRoots(W)
  PROVE  Fine(V) /\ AllHeard(V)
<1> DEFINE n == Len(W.tasks)
           f == Resumes(W, n)
           P == {k \in 0..n : Resuming(W, f[k], k)}
<1>1. n \in Nat /\ Rows(W) = 1..n
  BY WorldFields DEF Fine, Rows
<1>2. HaveResumes(W, n)
  BY <1>1, ResumesAll
<1>3. \E after : after = [t \in 0..n |->
        IF t = 0 THEN W ELSE reconcileRoot(after[t - 1], W, t)]
  BY <1>2 DEF HaveResumes
<1>4. f = [t \in 0..n |-> IF t = 0 THEN W ELSE reconcileRoot(f[t - 1], W, t)]
  BY <1>3, Zenon DEF Resumes
<1>5. V = f[n]
  BY Zenon DEF reconcileRoots, Resumes
<1> HIDE DEF f
<1>6. f[0] = W /\ \A t \in 1..n : f[t] = reconcileRoot(f[t - 1], W, t)
  <2> HIDE DEF n
  <2>1. f[0] = W
    BY <1>1, <1>4
  <2>2. ASSUME NEW t \in 1..n PROVE f[t] = reconcileRoot(f[t - 1], W, t)
    <3>1. t \in 0..n /\ t # 0
      BY <1>1
    <3> QED BY <3>1, <1>4
  <2> QED BY <2>1, <2>2
<1>7. 0 \in P
  <2>1. Kept(W, W)
    BY DEF Kept, Moved, Terminal
  <2>2. 1..0 = {} /\ 0 \in 0..n
    BY <1>1
  <2> HIDE DEF n
  <2> QED BY <1>6, <2>1, <2>2 DEF Resuming
<1>8. ASSUME NEW k \in 1..n, k - 1 \in P PROVE k \in P
  <2> DEFINE U == f[k - 1]
  <2>1. Resuming(W, U, k - 1) /\ k \in Rows(W) /\ k \in 0..n /\ f[k] = reconcileRoot(U, W, k)
    BY <1>1, <1>6, <1>8
  <2> HIDE DEF U, n
  <2>2. Resuming(W, f[k], k)
    BY <2>1, RootHeard
  <2> QED BY <2>1, <2>2
<1> HIDE DEF P
<1>9. n \in P
  BY <1>1, <1>7, <1>8, Reached
<1>10. Resuming(W, V, n)
  BY <1>5, <1>9 DEF P
<1>11. Rows(V) = 1..n /\ Fine(V)
  BY <1>1, <1>10 DEF Resuming, Kept, Rows
<1>12. ASSUME NEW d \in Ids PROVE Heard(V, d)
  <2>1. CASE d \in 1..n
    BY <1>10, <2>1 DEF Resuming
  <2>2. CASE d \notin 1..n
    <3>1. \A t \in InTree(V, d) : d \in Rows(V)
      BY <1>11, RootOf DEF InTree
    <3>2. \A t \in InTree(V, d) : Ended(V, t)
      BY <1>11, <2>2, <3>1
    <3> QED BY <3>2, EndedHeard
  <2> QED BY <2>1, <2>2
<1> QED BY <1>11, <1>12 DEF AllHeard

\* resume
LEMMA ResumeHeard == ASSUME IInv, resume PROVE Heed'
<1> DEFINE V == reconcileRoots(Now)
<1>1. Fine(Now) /\ Commit(pump(V))
  BY DEF resume, IInv
<1>2. Fine(V) /\ AllHeard(V)
  BY <1>1, RootsHeard
<1> HIDE DEF V
<1> QED BY <1>1, <1>2, PumpedHeard

-----------------------------------------------------------------------------
(* The invariant.                                                           *)

\* At first there is no task.
LEMMA InitHeard == ASSUME Init PROVE Heed
<1>1. Fine(Now) /\ tasks = <<>>
  BY InitInv DEF IInv, Init
<1>2. Rows(Now) = {}
  BY <1>1, EmptySeq, NowFields DEF Rows
<1> QED BY <1>2 DEF Heed, AllHeard, Heard, InTree

\* Every step keeps it.
LEMMA NextHeed == ASSUME IInv, Heed, [Next]_vars PROVE Heed'
<1>1. Fine(Now)'
  BY NextGood DEF Good, IInv
<1>2. CASE Calls
  BY <1>2, SubmitTaskHeard, CancelHeard, SignalHeard, RetryHeard, ResolveEffectHeard, ResumeHeard
     DEF Calls
<1>3. ASSUME NEW t \in Ids, Invocation(t) PROVE Heed'
  BY <1>1, <1>3, BeginHeard, SpawnHeard, StartEffectHeard, EndEffectHeard, ReturnEarlyHeard,
     FinishHeard, FinishRejectedHeard, SettleRejectedHeard, LeaveHeard DEF Invocation
<1>4. ASSUME NEW t \in Ids, OwnedRun(t) PROVE Heed'
  BY <1>1, <1>4, LaunchRunHeard, EndRunHeard, AbortRunHeard, LeaveRunHeard, CancelRunHeard,
     ContinueRunHeard DEF OwnedRun
<1>5. ASSUME NEW t \in Ids, Elapse(t) \/ Wake(t) PROVE Heed'
  BY <1>1, <1>5, ElapseHeard, WakeHeard
<1>6. CASE Process
  <2>1. process' # "up" \/ ~resumed'
    BY <1>6 DEF Process, close, Closed, Crash, open
  <2> QED BY <2>1, NoHeed
<1>7. CASE UNCHANGED vars
  BY <1>1, <1>7, SameHeard DEF vars
<1> QED BY <1>2, <1>3, <1>4, <1>5, <1>6, <1>7 DEF Next

\* No wake-up is lost: while the process is up, and after the host has called resume(), every task
\* that could settle or go on has a reconciliation ahead, by an invocation or an attempt in its
\* tree that has not left yet or by the timer of the tree (scheduler.ts, launch(), reconcile()
\* and pump(); state.ts, reconcileTree()).
THEOREM NothingLost == Spec => []NothingForgotten
<1>1. ASSUME IInv, Heed PROVE NothingForgotten
  <2>1. SUFFICES ASSUME process = "up", resumed, NEW t \in Rows(Now), Actionable(t),
                        NEW root, root = tasks[t].root,
                        \A u \in InTree(Now, root) : call[u].phase = "none" /\ attempt[u] = "none"
                 PROVE  tasks[t].wait.due /\ root \in deadlines
    BY DEF NothingForgotten
  <2>2. Fine(Now) /\ AllHeard(Now)
    BY <1>1, <2>1 DEF IInv, Heed
  <2>3. root \in Ids /\ t \in InTree(Now, root)
    BY <2>1, <2>2, RowsOf, NowFields DEF InTree
  <2>4. Open(Now, t)
    BY <2>1, NowFields DEF Actionable, Settleable, Open
  <2>5. Idle(Now, root)
    BY <2>1, NowFields DEF Idle
  <2>6. Heard(Now, root)
    BY <2>2, <2>3 DEF AllHeard
  <2> QED BY <2>3, <2>4, <2>5, <2>6, NowFields DEF Heard
<1>2. IInv /\ Heed /\ [Next]_vars => Heed'
  BY NextHeed
<1> QED BY <1>1, <1>2, InitHeard, AlwaysInv, PTL DEF Spec
=============================================================================
