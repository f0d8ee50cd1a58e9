---------------------------- MODULE DurableMemory ----------------------------
(* Recorded memory (durable/src/recorded-memory.ts and the parts of         *)
(* runtime.ts that use it): a durable run reads its history once, captures  *)
(* what it would save, records those writes with its outcome and sends them *)
(* to the store afterwards, one by one, through crashes, store errors,      *)
(* retries and decisions of an operator.  Meanwhile an agent outside the    *)
(* journal works in the same scope of the store: it compacts the history    *)
(* and saves a run of its own; the host may clear the scope.                *)
EXTENDS MemoryStore, RunMemory

CONSTANTS
  Policies,       \* save policies of the run, to try
  AgentPolicy,    \* save policy of the agent outside the journal
  RunScripts,     \* the turns before the last one of a segment of the run
  AgentScripts,   \* the same for the agent outside the journal
  MaxEpochs,      \* bound: segments of the run, by policy
  MaxAttempts,    \* conflictRetries.maxAttempts of the compaction
  MaxFaults,      \* bound: crashes, shut-downs, clear() by the host, and errors of the
                  \* model or the store, together
  MaxRetries      \* bound: retry()

ASSUME MemoryAssumption ==
  /\ Policies \cup {AgentPolicy} \subseteq {"message", "turn", "run"}
  /\ RunScripts \subseteq Seq({"tools", "steered"})
  /\ AgentScripts \subseteq Seq({"tools", "queued"})
  /\ {MaxFaults, MaxRetries} \subseteq Nat
  /\ MaxEpochs \in [Policies -> Nat \ {0}]
  /\ MaxAttempts \in Nat \ {0}

VARIABLES
  policy,    \* savePolicy
  store,     \* the store
  run,       \* the row of the run
  read,      \* the recorded read, <<>> before it
  writes,    \* the recorded writes of each epoch
  said,      \* the messages of each finished segment (history variable)
  attempt,   \* the attempt of the process, in memory
  process,   \* "up", "closing" or "down"
  agent,     \* the agent outside the journal
  used       \* how much of each bound is used

vars == <<policy, store, run, read, writes, said, attempt, process, agent, used>>
durable == <<run, read, writes, said>>

Epochs == UNION {1..MaxEpochs[p] : p \in Policies}

\* What the agents say and save, by policy, epoch and turns.
RunSegment ==
  [p \in Policies |-> [e \in Epochs |-> [turns \in RunScripts |-> Segment("run", p, e, turns)]]]
AgentSegment == [turns \in AgentScripts |-> Segment("agent", AgentPolicy, 1, turns)]

NoAttempt == [phase |-> "none", aborted |-> FALSE, reply |-> <<>>]
NoWrite == <<>>
Runnable == {"pending", "running"}
Settled == {"completed", "failed", "cancelled"}

Use(bound, most) == used[bound] < most /\ used' = [used EXCEPT ![bound] = @ + 1]
To(phase) == attempt' = [attempt EXCEPT !.phase = phase]
In(phase) == attempt.phase = phase

-----------------------------------------------------------------------------
(* The recorded operations.                                                 *)

\* Mutant of memoryIdempotencyKey: the key depends on the attempt.
keyOfAttempt(epoch, i) == <<epoch, i, used.retries>>

\* What the store was asked to remember under.
memoryIdempotencyKey(epoch, i) == <<epoch, i>>

Ops == UNION {{e} \X DOMAIN writes[e] : e \in Epochs}
Op(w) == writes[w[1]][w[2]]
Completed == {w \in Ops : Op(w).status = "completed"}
Unsettled == {w \in Ops : Op(w).status = "started"}
Before(v, w) == v[1] < w[1] \/ (v[1] = w[1] /\ v[2] <= w[2])

\* The write a flush of the current epoch comes to, in the order of the writes.
Due(w) ==
  /\ w \in Unsettled
  /\ w[1] = run.epoch
  /\ \A v \in Unsettled : v[1] = run.epoch => Before(w, v)

\* The version a write is based on: the one the last completed operation left behind, of any
\* epoch.  A write settled by an operator has none, and the next one is not checked.
BaseVersion ==
  IF Completed = {} THEN read[1].version
  ELSE Op(CHOOSE w \in Completed : \A v \in Completed : Before(v, w)).version

recordMemoryWrites(captured) ==
  [i \in DOMAIN captured |-> [messages |-> captured[i], status |-> "started", attempts |-> 0,
                              version |-> Unchecked, how |-> "unsettled"]]

Settle(w, how, version) ==
  writes' = [writes EXCEPT ![w[1]][w[2]] =
               [@ EXCEPT !.status = "completed", !.how = how, !.version = version]]

Paused == IF run.outcome = "interaction" THEN "waiting" ELSE "completed"

-----------------------------------------------------------------------------
(* An attempt: execute(), flushRecordedMemory().                            *)

\* Mutant of Launchable: an attempt the process lost is not taken up again.
LaunchablePending == process = "up" /\ In("none") /\ run.status = "pending"

Launchable == process = "up" /\ In("none") /\ run.status \in Runnable

\* With an outcome only the writes are left; a resumed segment does not read.
Launch ==
  /\ Launchable
  /\ run' = [run EXCEPT !.status = "running"]
  /\ To(IF run.outcome # "none" THEN "flushing"
        ELSE IF run.epoch = 1 /\ read = <<>> THEN "reading" ELSE "working")
  /\ UNCHANGED <<policy, store, read, writes, said, process, agent, used>>

\* loadVersioned(), and later the transaction that records what it returned.
Load ==
  /\ In("reading") /\ ~attempt.aborted
  /\ attempt' = [attempt EXCEPT !.phase = "loaded",
                    !.reply = <<[messages |-> store.rows, version |-> currentVersion(store)]>>]
  /\ UNCHANGED <<policy, store, durable, process, agent, used>>

RecordRead ==
  /\ In("loaded")
  /\ read' = attempt.reply
  /\ attempt' = [attempt EXCEPT !.phase = "working", !.reply = <<>>]
  /\ UNCHANGED <<policy, store, run, writes, said, process, agent, used>>

\* The terminal checkpoint records the outcome with the writes; without any the run is over.
Checkpoint(segment, outcome) ==
  /\ In("working") /\ ~attempt.aborted
  /\ LET captured == segment.captured IN
       /\ writes' = [writes EXCEPT ![run.epoch] = recordMemoryWrites(captured)]
       /\ run' = [run EXCEPT !.outcome = outcome,
                             !.status = IF captured # <<>> THEN @
                                        ELSE IF outcome = "interaction" THEN "waiting"
                                        ELSE "completed"]
  /\ said' = [said EXCEPT ![run.epoch] = segment.new]
  /\ To("flushing")
  /\ UNCHANGED <<policy, store, read, process, agent, used>>

Answers ==
  \/ \E turns \in RunScripts, outcome \in {"interaction", "response"} :
       Checkpoint(RunSegment[policy][run.epoch][turns], outcome)
  \/ run.epoch = 1 /\ Checkpoint(BlockedSegment("run", policy), "blocked")

\* A write whose attempt was persisted and not resolved is uncertain.
Uncertain(w) ==
  /\ In("flushing") /\ Due(w) /\ ~attempt.aborted
  /\ Op(w).attempts > 0
  /\ run' = [run EXCEPT !.status = "needs_attention", !.blocked = w]
  /\ To("leaving")
  /\ UNCHANGED <<policy, store, read, writes, said, process, agent, used>>

\* The attempt is persisted before the call.
SendWrite(w) ==
  /\ In("flushing") /\ Due(w) /\ ~attempt.aborted
  /\ Op(w).attempts = 0
  /\ writes' = [writes EXCEPT ![w[1]][w[2]].attempts = 1]
  /\ To("sending")
  /\ UNCHANGED <<policy, store, run, read, said, process, agent, used>>

Answer(w) ==
  append(store, [key |-> memoryIdempotencyKey(w[1], w[2]), messages |-> Op(w).messages,
                 expected |-> BaseVersion])

\* The store runs the transaction of append().
StoreAppends(w) ==
  /\ In("sending") /\ Due(w)
  /\ store' = Answer(w).store
  /\ attempt' = [attempt EXCEPT !.phase = "answered",
                    !.reply = <<[status |-> Answer(w).status, version |-> Answer(w).version]>>]
  /\ UNCHANGED <<policy, durable, process, agent, used>>

\* Mutant of RecordWrite: every answer settles the write.
RecordEveryWrite(w) ==
  /\ In("answered") /\ Due(w)
  /\ Settle(w, "committed", attempt.reply[1].version)
  /\ attempt' = [attempt EXCEPT !.phase = "flushing", !.reply = <<>>]
  /\ UNCHANGED <<policy, store, run, read, said, process, agent, used>>

\* The answer is recorded, whatever has happened to the run in the meantime.
RecordWrite(w) ==
  /\ In("answered") /\ Due(w)
  /\ attempt.reply[1].status # "conflict"
  /\ Settle(w, attempt.reply[1].status, attempt.reply[1].version)
  /\ attempt' = [attempt EXCEPT !.phase = "flushing", !.reply = <<>>]
  /\ UNCHANGED <<policy, store, run, read, said, process, agent, used>>

Conflict(w) ==
  /\ In("answered") /\ Due(w)
  /\ attempt.reply[1].status = "conflict"
  /\ run' = IF attempt.aborted THEN run
            ELSE [run EXCEPT !.status = "needs_attention", !.blocked = w]
  /\ attempt' = [attempt EXCEPT !.phase = "leaving", !.reply = <<>>]
  /\ UNCHANGED <<policy, store, read, writes, said, process, agent, used>>

\* All writes are settled.  A cancelled run stays cancelled.
FinishFlush ==
  /\ In("flushing")
  /\ \A w \in Unsettled : w[1] # run.epoch
  /\ run' = IF run.status = "running" THEN [run EXCEPT !.status = Paused] ELSE run
  /\ To("leaving")
  /\ UNCHANGED <<policy, store, read, writes, said, process, agent, used>>

\* The store or the model throws; the store may have committed before the answer was lost.
Fail ==
  /\ In("reading") \/ In("working") \/ In("sending")
  /\ Use("faults", MaxFaults)
  /\ store' \in {store} \cup {Answer(w).store : w \in {v \in Ops : In("sending") /\ Due(v)}}
  /\ run' = IF attempt.aborted THEN run ELSE [run EXCEPT !.status = "failed"]
  /\ To("leaving")
  /\ UNCHANGED <<policy, read, writes, said, process, agent>>

\* throwIfAborted().
Abort ==
  /\ attempt.aborted
  /\ \/ In("reading") \/ In("working")
     \/ In("flushing") /\ \E w \in Ops : Due(w)
  /\ To("leaving")
  /\ UNCHANGED <<policy, store, durable, process, agent, used>>

Leave ==
  /\ In("leaving")
  /\ attempt' = NoAttempt
  /\ UNCHANGED <<policy, store, durable, process, agent, used>>

-----------------------------------------------------------------------------
(* The calls of the API.                                                    *)

Callable == process = "up"

\* retry() makes every write that is not settled one that was not sent.
Unsent == [e \in Epochs |-> [i \in DOMAIN writes[e] |->
             IF writes[e][i].status = "started" THEN [writes[e][i] EXCEPT !.attempts = 0]
             ELSE writes[e][i]]]

\* Mutant of retry: the run stays blocked by its write.
retryBlocked ==
  /\ Callable /\ In("none")
  /\ run.status \in {"failed", "needs_attention"}
  /\ Use("retries", MaxRetries)
  /\ writes' = Unsent
  /\ run' = [run EXCEPT !.status = "pending"]
  /\ UNCHANGED <<policy, store, read, said, attempt, process, agent>>

\* Only retry() lets an uncertain write be sent again.
retry ==
  /\ Callable /\ In("none")
  /\ run.status \in {"failed", "needs_attention"}
  /\ Use("retries", MaxRetries)
  /\ writes' = Unsent
  /\ run' = [run EXCEPT !.status = "pending", !.blocked = NoWrite]
  /\ UNCHANGED <<policy, store, read, said, attempt, process, agent>>

resolveMemoryWrite(w, resolution) ==
  /\ Callable
  /\ run.status = "needs_attention" /\ run.blocked = w
  /\ w \in Unsettled
  /\ Settle(w, resolution, Unchecked)
  /\ run' = [run EXCEPT !.status = "pending", !.blocked = NoWrite]
  /\ UNCHANGED <<policy, store, read, said, attempt, process, agent, used>>

respond ==
  /\ Callable
  /\ run.status = "waiting" /\ run.outcome = "interaction"
  /\ run.epoch < MaxEpochs[policy]
  /\ run' = [run EXCEPT !.status = "pending", !.outcome = "none", !.epoch = @ + 1]
  /\ UNCHANGED <<policy, store, read, writes, said, attempt, process, agent, used>>

cancel ==
  /\ Callable
  /\ run.status \notin Settled
  /\ run' = [run EXCEPT !.status = "cancelled"]
  /\ attempt' = [attempt EXCEPT !.aborted = ~In("none")]
  /\ UNCHANGED <<policy, store, read, writes, said, process, agent, used>>

-----------------------------------------------------------------------------
(* The process.                                                             *)

close ==
  /\ process = "up" /\ Use("faults", MaxFaults)
  /\ process' = "closing"
  /\ attempt' = [attempt EXCEPT !.aborted = ~In("none")]
  /\ UNCHANGED <<policy, store, durable, agent>>

Closed ==
  /\ process = "closing" /\ In("none")
  /\ process' = "down"
  /\ UNCHANGED <<policy, store, durable, attempt, agent, used>>

\* A call that was sent may still reach the store.
Crash ==
  /\ process # "down" /\ Use("faults", MaxFaults)
  /\ process' = "down"
  /\ attempt' = NoAttempt
  /\ store' \in {store} \cup {Answer(w).store : w \in {v \in Ops : In("sending") /\ Due(v)}}
  /\ UNCHANGED <<policy, durable, agent>>

open ==
  /\ process = "down"
  /\ process' = "up"
  /\ UNCHANGED <<policy, store, durable, attempt, agent, used>>

-----------------------------------------------------------------------------
(* The agent outside the journal: prepareStoredHistory(), then its appends. *)

At(phase) == agent.phase = phase
Others == <<policy, durable, attempt, process>>

\* A snapshot, of which retention and the trigger choose a prefix, maybe an empty one.
Snapshot(count) ==
  /\ At("preparing")
  /\ LET snapshot == loadCompactionSnapshot(store) IN
       /\ count \in 0..Len(snapshot.messages)
       /\ agent' = IF count = 0 THEN [agent EXCEPT !.phase = "working"]
                   ELSE [agent EXCEPT !.phase = "compacting", !.tries = @ + 1,
                           !.revision = snapshot.revision,
                           !.prefix = SubSeq(snapshot.messages, 1, count)]
  /\ UNCHANGED <<Others, store, used>>

\* The compactor has answered.
ReplacePrefix ==
  /\ At("compacting")
  /\ LET count == Len(agent.prefix) IN
       IF Replaceable(store, agent.revision, count)
         THEN /\ store' = replaceCompactionPrefix(store, count, FlattenSeq(agent.prefix))
              /\ agent' = [agent EXCEPT !.phase = "working", !.prefix = <<>>, !.revision = <<>>]
         ELSE /\ agent' = [agent EXCEPT !.prefix = <<>>, !.revision = <<>>, !.phase =
                             IF agent.tries < MaxAttempts THEN "preparing" ELSE "done"]
              /\ store' = IF agent.tries < MaxAttempts THEN store ELSE upsertSession(store)
  /\ UNCHANGED <<Others, used>>

AgentAnswers(turns) ==
  /\ At("working")
  /\ agent' = [agent EXCEPT !.phase = "saving",
                             !.todo = AgentSegment[turns].captured]
  /\ UNCHANGED <<Others, store, used>>

\* append() without key and version.
AgentSaves ==
  /\ At("saving")
  /\ agent.todo # <<>>
  /\ store' = insertMessages(store, Head(agent.todo))
  /\ agent' = [agent EXCEPT !.todo = Tail(@), !.phase = IF Len(agent.todo) > 1 THEN @ ELSE "done"]
  /\ UNCHANGED <<Others, used>>

\* recordError() makes a session and no message.
AgentFails ==
  /\ At("saving") \/ At("working")
  /\ Use("faults", MaxFaults)
  /\ store' = upsertSession(store)
  /\ agent' = [agent EXCEPT !.phase = "done", !.todo = <<>>]
  /\ UNCHANGED Others

HostClears ==
  /\ Use("faults", MaxFaults)
  /\ store' = clear(store)
  /\ UNCHANGED <<Others, agent>>

-----------------------------------------------------------------------------
Init ==
  /\ policy \in Policies
  /\ store = EmptyStore
  /\ run = [status |-> "pending", epoch |-> 1, outcome |-> "none", blocked |-> NoWrite]
  /\ read = <<>>
  /\ writes = [e \in Epochs |-> <<>>]
  /\ said = [e \in Epochs |-> <<>>]
  /\ attempt = NoAttempt
  /\ process = "up"
  /\ agent = [phase |-> "preparing", tries |-> 0, revision |-> <<>>, prefix |-> <<>>, todo |-> <<>>]
  /\ used = [faults |-> 0, retries |-> 0]

Attempt ==
  \/ Load \/ RecordRead \/ Answers \/ FinishFlush \/ Abort \/ Leave
  \/ \E w \in Ops : Uncertain(w) \/ SendWrite(w) \/ StoreAppends(w) \/ RecordWrite(w) \/ Conflict(w)

Calls ==
  \/ retry \/ respond \/ cancel
  \/ \E w \in Ops, resolution \in {"applied", "discarded"} : resolveMemoryWrite(w, resolution)

Agent ==
  \/ \E count \in 0..Len(store.rows) + 1 : Snapshot(count)
  \/ ReplacePrefix \/ AgentSaves \/ AgentFails
  \/ \E turns \in AgentScripts : AgentAnswers(turns)

Next ==
  \/ Launch \/ Attempt \/ Fail \/ Calls
  \/ close \/ Closed \/ Crash \/ open
  \/ Agent \/ HostClears

Spec == Init /\ [][Next]_vars

\* The scheduler launches what is runnable, models and stores answer, and the host reopens
\* the runtime.  Nobody has to retry, resolve or respond.  (An attempt can always take a step:
\* the clauses are weak fairness with the enabling condition written out.)
Fairness ==
  /\ []<>~Launchable \/ []<><<Launch>>_vars
  /\ []<>In("none") \/ []<><<Attempt>>_vars
  /\ []<>(process = "up") \/ []<><<Closed \/ open>>_vars

FairSpec == Spec /\ Fairness

-----------------------------------------------------------------------------
(* Properties.                                                              *)

TypeOK ==
  /\ run.status \in Runnable \cup Settled \cup {"waiting", "needs_attention"}
  /\ run.outcome \in {"none", "interaction", "response", "blocked"}
  /\ run.blocked # NoWrite => run.status \in {"needs_attention", "cancelled"}
  /\ attempt.phase \in {"none", "reading", "loaded", "working", "flushing", "sending", "answered",
                         "leaving"}
  /\ attempt.phase \in {"sending", "answered"} => \E w \in Ops : Due(w) /\ Op(w).attempts = 1
  /\ agent.phase \in {"preparing", "compacting", "working", "saving", "done"}

\* The messages of a run appear in the store in the order it said them, each at most once,
\* whatever was sent again after a crash, an error or a decision of the operator.
InOrderOnce ==
  \A i, j \in DOMAIN store.rows :
     i < j /\ store.rows[i][1] = store.rows[j][1] =>
        \/ store.rows[i][2] < store.rows[j][2]
        \/ store.rows[i][2] = store.rows[j][2] /\ store.rows[i][3] < store.rows[j][3]

Resolved(answers) == \E w \in Completed : Op(w).how \in answers

\* A run that is over or waits for an answer has saved all it said, unless
\* an operator settled one of its writes ("saves the user prompt, each completed assistant
\* message, and each completed tool result").
TranscriptSaved ==
  /\ run.status \in {"completed", "waiting"}
  /\ run.outcome # "blocked"
  /\ ~Resolved({"applied", "discarded"})
  => \A e \in 1..run.epoch : \A m \in Range(said[e]) :
        \E k \in store.keys : m \in Range(k.content)

\* Somebody else has changed the history since the run read it.
Changed ==
  LET known == read[1].messages IN
  \/ ~IsPrefix(known, store.rows)
  \/ \E i \in Len(known) + 1..Len(store.rows) : store.rows[i][1] # "run"

\* A write goes on top of a changed history only when an operator has accepted the divergence, or
\* when the write before it was repeated and the store already had it: then the run goes on from
\* whatever the history is by now.
MergeNoticed ==
  [][store'.keys # store.keys =>
       ~Changed \/ Resolved({"applied", "discarded", "duplicate"})]_vars

\* Compaction neither loses nor repeats a message, and brings none back that was cleared: the
\* summary stands for exactly the rows it hides.
CompactionWhole ==
  store.generation > 0 => store.summary = SubSeq(store.rows, 1, store.through)

\* An attempt ends, and a lost one is taken up again: the run ends or waits for a person.
FlushEnds == (run.status \in Runnable) ~> (run.status \notin Runnable)

=============================================================================
