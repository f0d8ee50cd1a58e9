----------------------- MODULE DurableExecution_proofs -----------------------
(***************************************************************************)
(* Theorems about DurableExecution for every set of calls, recoveries,      *)
(* approvals and answers and every budget: the state is typed               *)
(* (TypeCorrect); a manual call is carried out at most once                 *)
(* (ManualCallsOnce); no call that needs an approval is carried out without *)
(* it (ApprovedCallsOnly); the budgets of turns and attempts hold           *)
(* (BudgetsHold); a completed operation is final (CompletedForever).        *)
(*                                                                          *)
(* IInv relates the loop of the attempt, which a crash loses, to the        *)
(* journal: where the calls of the batch come from, which of them were      *)
(* picked, and that a call has no operation while an approval at or before  *)
(* it is missing.                                                           *)
(***************************************************************************)
EXTENDS DurableExecution, FiniteSetTheorems, SequenceTheorems, TLAPS

-----------------------------------------------------------------------------
(* Keys of operations.                                                      *)

\* The keys of models and tools are told apart by epoch, turn and call.
LEMMA KeysTyped ==
  /\ \A e \in Epochs, t \in Turns, c \in Calls : ToolKey(e, t, c) \in ToolKeys
  /\ \A e \in Epochs, t \in Turns \ {0} : ModelKey(e, t) \in ModelKeys
  /\ ModelKeys \cap ToolKeys = {}
  /\ ModelKeys \subseteq Keys /\ ToolKeys \subseteq Keys
  /\ NoKey \notin Keys
<1>1. "model" \notin Calls /\ "none" \notin Calls
  BY ExecutionAssumption
<1> QED
  BY <1>1 DEF NoKey, Keys, ModelKey, ToolKey, ModelKeys, ToolKeys

\* Equal keys have equal parts.
LEMMA KeysInjective ==
  /\ \A e1, e2, t1, t2, c1, c2 :
        ToolKey(e1, t1, c1) = ToolKey(e2, t2, c2) <=> e1 = e2 /\ t1 = t2 /\ c1 = c2
  /\ \A e1, e2, t1, t2 : ModelKey(e1, t1) = ModelKey(e2, t2) <=> e1 = e2 /\ t1 = t2
BY DEF ModelKey, ToolKey

\* Every key of a model turn and of a tool call is built from its parts.
LEMMA KeysForm ==
  /\ \A k \in ToolKeys : \E e \in Epochs, t \in Turns, c \in Calls : k = ToolKey(e, t, c)
  /\ \A k \in ModelKeys : \E e \in Epochs, t \in Turns \ {0} : k = ModelKey(e, t)
BY DEF ModelKey, ToolKey, ModelKeys, ToolKeys

-----------------------------------------------------------------------------
(* The inductive invariant.                                                 *)

Elems(s) == {s[i] : i \in DOMAIN s}

\* The calls of the segment that began with an answered approval.
SegmentCalls == IF saved.approved THEN saved.pending \o saved.rest ELSE saved.rest
SegmentGranted == IF saved.approved THEN {Head(saved.pending)} ELSE {}
Origin(c) == ToolKey(saved.origin[1], saved.origin[2], c)

\* No call at or behind one that lacks its approval has an operation.
Gated(calls, granted, e, t) ==
  \A i, j \in DOMAIN calls :
     i <= j /\ calls[i] \in run.approvals /\ calls[i] \notin granted
       => ops[ToolKey(e, t, calls[j])].status = "none"

\* The loop in memory and the journal it works on.
LoopShape ==
  /\ loop.phase # "tools" => loop.begun = {} /\ loop.carried = {}
  /\ loop.phase # "none" =>
       /\ run.status = "running" \/ (loop.aborted /\ run.status = "cancelled")
       /\ loop.boundary = loop.turn + (IF loop.phase \in {"model", "finish"} THEN 1 ELSE 0)
       /\ loop.phase \in {"closing", "begin", "asking", "finish"} => loop.turn > 0
       /\ \A t \in 1..loop.turn : ops[ModelKey(run.epoch, t)].status # "none"
       /\ loop.phase \in {"begin", "asking"} =>
             ops[ModelKey(run.epoch, loop.turn)].status = "started"

\* Where the calls of a batch come from.
Batch ==
  loop.phase = "tools" =>
    /\ loop.turn > 0 =>
         /\ ops[ModelKey(run.epoch, loop.turn)].status = "completed"
         /\ loop.batch = ops[ModelKey(run.epoch, loop.turn)].answer
         /\ loop.granted = {}
         /\ loop.origin = <<run.epoch, loop.turn>>
    /\ loop.turn = 0 =>
         /\ run.epoch > 0 /\ saved.origin[1] < run.epoch
         /\ loop.batch = SegmentCalls
         /\ loop.granted = SegmentGranted
         /\ loop.origin = saved.origin

Picked == Len(loop.batch) - Len(loop.todo)

\* The calls that were picked had their approval, and those in flight are new.
Picks ==
  loop.phase = "tools" =>
    /\ Len(loop.todo) <= Len(loop.batch)
    /\ \A i \in 1..Len(loop.todo) : loop.todo[i] = loop.batch[Picked + i]
    /\ \A i \in 1..Picked : ~NeedsApproval(loop.batch[i])
    /\ \A c \in InFlight : \E i \in 1..Picked : c = loop.batch[i]
    /\ loop.begun \cap loop.carried = {}
    /\ \A c \in InFlight : ops[CallKey(c)].status = "started"
    /\ \A c \in loop.begun : Recovery[c] = "manual" => executed[Identity(c)] = 0
    /\ \A c \in loop.begun : c \in run.approvals => Identity(c) \in allowed

\* The operations of tools come after the answer that called them.
AnswersFirst ==
  \A e \in Epochs, t \in Turns \ {0} :
     /\ ops[ModelKey(e, t)].status = "completed" =>
          /\ ops[ModelKey(e, t)].answer \in Answers
          /\ Gated(ops[ModelKey(e, t)].answer, {}, e, t)
     /\ ops[ModelKey(e, t)].status # "completed" =>
          \A c \in Calls : ops[ToolKey(e, t, c)].status = "none"

\* Nothing is known of later epochs.
Future ==
  \A e \in Epochs : e > run.epoch =>
     /\ \A t \in Turns \ {0} : ops[ModelKey(e, t)].status = "none"
     /\ \A t \in Turns, c \in Calls : /\ ops[ToolKey(e, t, c)].status = "none"
                                      /\ executed[ToolKey(e, t, c)] = 0

\* What was carried out in this epoch has its operation.
Current ==
  \A t \in Turns \ {0}, c \in Calls :
     executed[ToolKey(run.epoch, t, c)] > 0 => ops[ToolKey(run.epoch, t, c)].status # "none"

\* The segment after an answered approval.
InSegment == run.epoch > 0 /\ run.status \notin {"waiting", "completed", "cancelled"}

Segment ==
  InSegment =>
    /\ Len(saved.pending) = 1
    /\ saved.origin[1] < run.epoch
    /\ Distinct(SegmentCalls)
    /\ Gated(SegmentCalls, SegmentGranted, run.epoch, 0)
    /\ \A c \in Elems(SegmentCalls) :
          executed[Origin(c)] > 0 => ops[ToolKey(run.epoch, 0, c)].status # "none"
    /\ saved.approved => Origin(Head(saved.pending)) \in allowed

\* A run that waits for a person has carried out none of the calls it waits with.
Pause ==
  run.status = "waiting" =>
    /\ Len(saved.pending) = 1
    /\ saved.origin[1] <= run.epoch
    /\ Distinct(saved.pending \o saved.rest)
    /\ \A c \in Elems(saved.pending \o saved.rest) : executed[Origin(c)] = 0

\* The counters.
Taken == {k \in ModelKeys : ops[k].status # "none"}

Budget ==
  /\ run.turns = Cardinality(Taken)
  /\ \A k \in ModelKeys : /\ ops[k].attempts <= MaxAttempts
                          /\ asked[k] <= ops[k].attempts + MaxAttempts * run.retries

IInv ==
  /\ TypeOK
  /\ LoopShape
  /\ Batch
  /\ Picks
  /\ AnswersFirst
  /\ Future
  /\ Current
  /\ Segment
  /\ Pause
  /\ Budget
  /\ ManualOnce
  /\ ApprovedFirst

-----------------------------------------------------------------------------
(* Facts used in several places.                                            *)

\* Epochs and turns are natural numbers up to their bounds.
LEMMA Numbers ==
  /\ Epochs \subseteq Nat /\ Turns \subseteq Nat
  /\ 0 \in Epochs /\ 0 \in Turns
  /\ \A n \in Nat : n \in Epochs <=> n <= MaxResponses
  /\ \A n \in Nat : n \in Turns <=> n <= MaxModelTurns
  /\ MaxModelTurns \in Nat \ {0} /\ MaxAttempts \in Nat \ {0}
  /\ MaxResponses \in Nat /\ MaxRetries \in Nat /\ MaxRestarts \in Nat
BY ExecutionAssumption DEF Epochs, Turns

\* The turns up to a turn are turns, and so is the next one within the budget.
LEMMA TurnsBelow ==
  /\ \A n \in Turns : \A t \in 1..n : t \in Turns \ {0}
  /\ \A n \in Turns : n < MaxModelTurns => n + 1 \in Turns
  /\ \A n \in Turns : \A t \in 1..(n + 1) : t = n + 1 \/ t \in 1..n
BY ExecutionAssumption DEF Turns

\* Where the calls still to be picked lie in the batch.
LEMMA Offsets ==
  ASSUME NEW b \in Nat, NEW t \in Nat, t <= b
  PROVE  /\ b - t \in 0..b
         /\ \A i \in 1..t : /\ (b - t) + i \in 1..b /\ (b - t) + 1 <= (b - t) + i
                            /\ (b - t) + 1 \in 1..b
OBVIOUS

\* One more call is picked.
LEMMA OneMore ==
  ASSUME NEW m \in Nat, NEW n \in Nat, n <= m, n # 0
  PROVE  /\ m - (n - 1) = (m - n) + 1 /\ m - n \in Nat /\ n - 1 <= m
         /\ (m - n) + 1 \in 1..m /\ 1 \in 1..n
         /\ \A i \in 1..(n - 1) : i + 1 \in 1..n /\ (m - n) + (i + 1) = ((m - n) + 1) + i
OBVIOUS

\* What the loop hears are items of a transcript.
LEMMA ItemsTyped ==
  /\ \A a \in Answers : Said(a) \in Items
  /\ \A c \in Calls, v \in Values : Result(c, v) \in Items
  /\ \A m \in Inputs : Heard(m) \in Items
BY DEF Said, Result, Heard, Items

\* The parts of the state that a step reads have their types.
LEMMA Parts ==
  ASSUME TypeOK
  PROVE  /\ run.epoch \in Epochs /\ run.turns \in Turns /\ run.status \in Statuses
         /\ run.retries \in 0..MaxRetries
         /\ loop.turn \in Turns /\ loop.boundary \in Nat /\ loop.phase \in Phases
         /\ loop.batch \in Seq(Calls) /\ loop.todo \in Seq(Calls)
         /\ loop.begun \subseteq Calls /\ loop.carried \subseteq Calls
         /\ loop.granted \subseteq Calls /\ loop.heard \in Seq(Items)
         /\ loop.origin \in Epochs \X Turns /\ saved.origin \in Epochs \X Turns
         /\ saved.pending \in Seq(Calls) /\ saved.rest \in Seq(Calls)
         /\ saved.heard \in Seq(Items) /\ saved.approved \in BOOLEAN
         /\ \A k \in Keys : ops[k] \in Op
BY DEF TypeOK, Loop, Saved

\* The sequences of calls a run resumes with.
LEMMA SegmentTyped ==
  ASSUME TypeOK, Len(saved.pending) = 1
  PROVE  /\ Head(saved.pending) \in Calls
         /\ SegmentCalls \in Seq(Calls) /\ SegmentGranted \subseteq Calls
<1>1. saved.pending \in Seq(Calls) /\ saved.rest \in Seq(Calls) /\ saved.approved \in BOOLEAN
  BY Parts
<1>2. Head(saved.pending) \in Calls
  BY <1>1
<1>3. saved.pending \o saved.rest \in Seq(Calls)
  BY <1>1
<1> QED
  BY <1>1, <1>2, <1>3 DEF SegmentCalls, SegmentGranted

\* A step that begins no operation of a tool.
SameTools == \A k \in ToolKeys : ops'[k].status = "none" <=> ops[k].status = "none"

\* A step that carries out no tool, begins no operation and gives no answer keeps what is
\* known of the operations.
LEMMA OperationsKept ==
  ASSUME IInv, SameTools, UNCHANGED executed,
         run'.epoch = run.epoch /\ run'.approvals = run.approvals,
         \A k \in ModelKeys : /\ ops'[k].status = ops[k].status
                              /\ ops'[k].answer = ops[k].answer
  PROVE  AnswersFirst' /\ Future' /\ Current' /\ ManualOnce'
<1>1. \A a \in Answers : a \in Seq(Calls)
  BY ExecutionAssumption
<1>2. \A e \in Epochs, t \in Turns, a \in Answers :
        Gated(a, {}, e, t) => Gated(a, {}, e, t)'
  BY <1>1, KeysTyped DEF SameTools, Gated
<1>3. AnswersFirst'
  BY <1>2, KeysTyped DEF IInv, AnswersFirst, SameTools
<1>4. Future'
  <2>1. \A e \in Epochs, t \in Turns \ {0} :
           ops'[ModelKey(e, t)].status = ops[ModelKey(e, t)].status
    BY KeysTyped
  <2>2. \A e \in Epochs, t \in Turns, c \in Calls :
           ops'[ToolKey(e, t, c)].status = "none" <=> ops[ToolKey(e, t, c)].status = "none"
    BY KeysTyped DEF SameTools
  <2> QED
    BY <2>1, <2>2 DEF IInv, Future
<1>5. Current'
  <2>1. run.epoch \in Epochs
    BY Parts DEF IInv
  <2>2. \A t \in Turns, c \in Calls : ops'[ToolKey(run.epoch, t, c)].status = "none"
                                        <=> ops[ToolKey(run.epoch, t, c)].status = "none"
    BY <2>1, KeysTyped DEF SameTools
  <2> QED
    BY <2>1, <2>2 DEF IInv, Current
<1> QED
  BY <1>3, <1>4, <1>5 DEF IInv, ManualOnce

\* A step that writes no operation of a tool keeps the facts of the segment.
LEMMA SegmentKept ==
  ASSUME IInv, SameTools, UNCHANGED <<executed, saved>>,
         run'.epoch = run.epoch /\ run'.approvals = run.approvals,
         InSegment' => InSegment, allowed \subseteq allowed'
  PROVE  Segment'
<1>1. SegmentCalls' = SegmentCalls /\ SegmentGranted' = SegmentGranted
      /\ \A c : Origin(c)' = Origin(c)
  BY DEF SegmentCalls, SegmentGranted, Origin
<1> SUFFICES ASSUME InSegment PROVE Segment'
  BY DEF Segment
<1>2. SegmentCalls \in Seq(Calls) /\ run.epoch \in Epochs /\ 0 \in Turns
  BY SegmentTyped, Parts, Numbers DEF IInv, Segment
<1>3. \A i \in DOMAIN SegmentCalls :
         ops'[ToolKey(run.epoch, 0, SegmentCalls[i])].status = "none"
           <=> ops[ToolKey(run.epoch, 0, SegmentCalls[i])].status = "none"
  BY <1>2, KeysTyped DEF SameTools
<1> QED
  BY <1>1, <1>2, <1>3 DEF IInv, Segment, Gated, Elems

\* A step that carries out no tool keeps the facts of a waiting run.
LEMMA PauseKept ==
  ASSUME IInv, UNCHANGED <<executed, saved>>,
         run'.epoch = run.epoch /\ run'.approvals = run.approvals,
         run'.status = "waiting" => run.status = "waiting"
  PROVE  Pause'
BY DEF IInv, Pause, Origin

\* A step that writes no operation and sends no request keeps the counters.
LEMMA BudgetKept ==
  ASSUME IInv, UNCHANGED <<ops, asked>>, run'.turns = run.turns, run'.retries = run.retries
  PROVE  Budget'
BY DEF IInv, Budget, Taken

\* A step that carries out no tool cannot carry one out without its approval.
LEMMA ApprovalsKept ==
  ASSUME IInv, UNCHANGED executed, run'.approvals = run.approvals, allowed \subseteq allowed'
  PROVE  ApprovedFirst'
BY DEF IInv, ApprovedFirst

\* A step that writes nothing but the loop, the inbox and the status of the run.
LEMMA QuietStep ==
  ASSUME IInv, UNCHANGED <<ops, saved, executed, asked, allowed>>,
         run'.epoch = run.epoch /\ run'.approvals = run.approvals,
         run'.turns = run.turns, run'.retries = run.retries,
         run'.status = "waiting" => run.status = "waiting",
         InSegment' => InSegment
  PROVE  /\ AnswersFirst' /\ Future' /\ Current' /\ ManualOnce'
         /\ Segment' /\ Pause' /\ Budget' /\ ApprovedFirst'
BY OperationsKept, SegmentKept, PauseKept, BudgetKept, ApprovalsKept DEF SameTools

\* An operation of a model is written in the epoch of the run.
LEMMA ModelWritten ==
  ASSUME IInv, UNCHANGED executed, run'.epoch = run.epoch /\ run'.approvals = run.approvals,
         NEW turn \in Turns \ {0},
         \A k \in Keys \ {ModelKey(run.epoch, turn)} : ops'[k] = ops[k],
         ops[ModelKey(run.epoch, turn)].status # "completed",
         ops'[ModelKey(run.epoch, turn)].status = "completed" =>
            ops'[ModelKey(run.epoch, turn)].answer \in Answers
  PROVE  SameTools /\ AnswersFirst' /\ Future' /\ Current' /\ ManualOnce'
<1> DEFINE key == ModelKey(run.epoch, turn)
<1>0. run.epoch \in Epochs /\ key \in ModelKeys
  BY KeysTyped, Parts DEF IInv
<1>1. \A k \in ToolKeys : ops'[k] = ops[k]
  BY <1>0, KeysTyped
<1>2. SameTools
  BY <1>1 DEF SameTools
<1>3. AnswersFirst'
  <2> SUFFICES ASSUME NEW e \in Epochs, NEW t \in Turns \ {0}
               PROVE  /\ ops'[ModelKey(e, t)].status = "completed" =>
                           /\ ops'[ModelKey(e, t)].answer \in Answers
                           /\ Gated(ops[ModelKey(e, t)].answer, {}, e, t)'
                      /\ ops'[ModelKey(e, t)].status # "completed" =>
                           \A c \in Calls : ops'[ToolKey(e, t, c)].status = "none"
    BY DEF AnswersFirst
  <2>1. \A c \in Calls : ops'[ToolKey(e, t, c)].status = ops[ToolKey(e, t, c)].status
    BY <1>1, KeysTyped
  <2>2. \A a \in Answers : Gated(a, {}, e, t) => Gated(a, {}, e, t)'
    BY <2>1, ExecutionAssumption DEF Gated
  <2>3. CASE ModelKey(e, t) = key
    <3>1. \A c \in Calls : ops'[ToolKey(e, t, c)].status = "none"
      BY <2>1, <2>3 DEF IInv, AnswersFirst
    <3>2. \A a \in Answers : Gated(a, {}, e, t)'
      BY <3>1, ExecutionAssumption DEF Gated
    <3> QED
      BY <2>3, <3>1, <3>2 DEF key
  <2>4. CASE ModelKey(e, t) # key
    <3>1. ops'[ModelKey(e, t)] = ops[ModelKey(e, t)]
      BY <2>4, KeysTyped
    <3> QED
      BY <3>1, <2>1, <2>2 DEF IInv, AnswersFirst
  <2> QED
    BY <2>3, <2>4
<1>4. Future'
  <2>1. \A e \in Epochs, t \in Turns \ {0} : e > run.epoch =>
            ops'[ModelKey(e, t)] = ops[ModelKey(e, t)]
    BY <1>0, KeysTyped, KeysInjective, Numbers
  <2>2. \A e \in Epochs, t \in Turns, c \in Calls : ops'[ToolKey(e, t, c)] = ops[ToolKey(e, t, c)]
    BY <1>1, KeysTyped
  <2> QED
    BY <2>1, <2>2 DEF IInv, Future
<1>5. Current' /\ ManualOnce'
  <2>1. \A t \in Turns, c \in Calls : ops'[ToolKey(run.epoch, t, c)] = ops[ToolKey(run.epoch, t, c)]
    BY <1>0, <1>1, KeysTyped
  <2> QED
    BY <2>1 DEF IInv, Current, ManualOnce
<1> QED
  BY <1>2, <1>3, <1>4, <1>5

\* A run has finitely many model turns, so that they can be counted.
LEMMA KeysFinite == IsFiniteSet(ModelKeys) /\ (TypeOK => IsFiniteSet(Taken))
<1> DEFINE pairs == Epochs \X (Turns \ {0})
           f == [p \in pairs |-> <<p[1], p[2], "model">>]
<1>1. IsFiniteSet(Epochs) /\ IsFiniteSet(Turns \ {0})
  <2>1. IsFiniteSet(0..MaxResponses) /\ IsFiniteSet(0..MaxModelTurns)
    BY FS_Interval, ExecutionAssumption
  <2> QED
    BY <2>1, FS_RemoveElement DEF Epochs, Turns
<1>2. IsFiniteSet(pairs)
  BY <1>1, FS_Product
<1>3. f \in Surjection(pairs, ModelKeys)
  <2>1. \A p \in pairs : f[p] \in ModelKeys
    BY DEF ModelKeys
  <2>2. \A k \in ModelKeys : \E p \in pairs : f[p] = k
    <3> TAKE k \in ModelKeys
    <3>1. PICK e \in Epochs, t \in Turns \ {0} : k = ModelKey(e, t)
      BY KeysForm
    <3>2. <<e, t>> \in pairs /\ f[<<e, t>>] = k
      BY <3>1 DEF ModelKey
    <3> QED
      BY <3>2
  <2> QED
    BY <2>1, <2>2 DEF Surjection
<1>4. IsFiniteSet(ModelKeys)
  BY <1>2, <1>3, FS_Surjection
<1> QED
  BY <1>4, FS_Subset DEF Taken

\* The turns of this attempt are turns of the run.
LEMMA TurnsTaken ==
  ASSUME IInv, loop.phase # "none"
  PROVE  loop.turn <= run.turns
<1> DEFINE f == [t \in 1..loop.turn |-> ModelKey(run.epoch, t)]
<1>1. \A t \in 1..loop.turn : t \in Turns \ {0}
  BY Parts, ExecutionAssumption DEF IInv, Turns
<1>2. f \in Injection(1..loop.turn, Taken)
  <2>1. \A t \in 1..loop.turn : f[t] \in Taken
    BY <1>1, KeysTyped, Parts DEF IInv, LoopShape, Taken
  <2>2. \A t, u \in 1..loop.turn : f[t] = f[u] => t = u
    BY KeysInjective
  <2>3. f \in [1..loop.turn -> Taken]
    BY <2>1
  <2> QED
    BY <2>2, <2>3 DEF Injection, IsInjective
<1>3. Cardinality(1..loop.turn) <= Cardinality(Taken)
  BY <1>2, KeysFinite, FS_Injection DEF IInv
<1>4. Cardinality(1..loop.turn) = loop.turn
  <2>1. loop.turn \in Nat
    BY Parts, Numbers DEF IInv
  <2> QED
    BY <2>1, FS_Interval
<1> QED
  BY <1>3, <1>4 DEF IInv, Budget

\* Without an attempt nothing is claimed of the loop.
LEMMA NoLoopHolds ==
  ASSUME loop' = NoLoop
  PROVE  LoopShape' /\ Batch' /\ Picks' /\ loop' \in Loop
<1>1. loop'.phase = "none" /\ loop'.begun = {} /\ loop'.carried = {}
  BY DEF NoLoop
<1>2. loop' \in Loop
  BY Numbers DEF Loop, NoLoop, Phases
<1> QED
  BY <1>1, <1>2 DEF LoopShape, Batch, Picks

-----------------------------------------------------------------------------
(* One lemma per action.                                                    *)

\* A new attempt begins with the calls the person decided on, or with none.
LEMMA StartStep == ASSUME IInv, Start PROVE IInv'
<1> USE DEF IInv
<1>1. run.epoch > 0 => InSegment
  BY DEF Start, InSegment, Runnable
<1>2. run.epoch > 0 => /\ Len(saved.pending) = 1
                       /\ Head(saved.pending) \in Calls
                       /\ SegmentCalls \in Seq(Calls) /\ SegmentGranted \subseteq Calls
  BY <1>1, SegmentTyped DEF Segment
<1> DEFINE denied == IF run.epoch > 0 /\ ~saved.approved
                       THEN <<Result(Head(saved.pending), 0)>> ELSE <<>>
<1>3. saved.heard \o denied \in Seq(Items)
  <2>1. denied \in Seq(Items)
    BY <1>2, ItemsTyped DEF Values
  <2> QED
    BY <2>1, Parts
<1>4. SegmentCalls \in Seq(Calls)
  BY Parts DEF SegmentCalls
<1> DEFINE new == [phase |-> IF run.epoch > 0 THEN "tools" ELSE "drain",
                   aborted |-> FALSE, turn |-> 0, boundary |-> 0,
                   heard |-> saved.heard \o denied,
                   batch |-> SegmentCalls, todo |-> SegmentCalls,
                   begun |-> {}, carried |-> {},
                   granted |-> IF run.epoch > 0 THEN SegmentGranted ELSE {},
                   failure |-> NoKey, origin |-> saved.origin]
<1>5. loop' = new
  BY DEF Start, NoLoop, SegmentCalls, SegmentGranted
<1>6. new \in Loop
  BY <1>2, <1>3, <1>4, Parts, Numbers DEF Loop, Phases
<1> HIDE DEF denied
<1>7. run' = [run EXCEPT !.status = "running"] /\ UNCHANGED <<ops, inbox, checkpoints, saved, up, restarts, world>>
  BY DEF Start
<1>8. TypeOK'
  <2>1. run' \in [status: Statuses, epoch: Epochs, turns: Turns,
                  blocked: Keys \cup {NoKey}, retries: 0..MaxRetries, approvals: ApprovalSets]
    BY <1>7 DEF TypeOK, Statuses, Runnable
  <2> QED
    BY <2>1, <1>5, <1>6, <1>7 DEF TypeOK, world
<1>9. InSegment' => InSegment
  BY <1>7, Parts DEF Start, InSegment, Runnable, TypeOK
<1>10. run'.status = "running" /\ run'.epoch = run.epoch
       /\ run'.approvals = run.approvals /\ run'.turns = run.turns
       /\ run'.retries = run.retries
  BY <1>7 DEF TypeOK
<1>11. /\ AnswersFirst' /\ Future' /\ Current' /\ ManualOnce'
       /\ Segment' /\ Pause' /\ Budget' /\ ApprovedFirst'
  BY <1>7, <1>9, <1>10, QuietStep DEF world
<1>13. LoopShape' /\ Batch' /\ Picks'
  <2>1. LoopShape'
    BY <1>5, <1>10 DEF LoopShape
  <2>2. Batch'
    <3>1. SegmentCalls' = SegmentCalls /\ SegmentGranted' = SegmentGranted
      BY <1>7 DEF SegmentCalls, SegmentGranted
    <3> QED
      BY <3>1, <1>1, <1>5, <1>7, <1>10, Parts, Numbers DEF Batch, Segment
  <2>3. Picks'
    BY <1>5, <1>4 DEF Picks, Picked, InFlight
  <2> QED
    BY <2>1, <2>2, <2>3
<1> QED
  BY <1>8, <1>11, <1>13

\* A steering boundary writes the inbox and the transcript of the loop only.
LEMMA DrainStep ==
  ASSUME IInv, NEW closing \in BOOLEAN, Drain(closing)
  PROVE  IInv'
<1> USE DEF IInv
<1> DEFINE key == <<run.epoch, loop.boundary>>
           entries == IF key \in DOMAIN checkpoints THEN checkpoints[key] ELSE inbox.pending
           next == IF closing /\ entries = <<>> THEN "finish" ELSE "model"
           heard == loop.heard \o [i \in DOMAIN entries |-> Heard(entries[i])]
<1>1. /\ loop' = [loop EXCEPT !.phase = next, !.boundary = @ + 1, !.heard = heard]
      /\ UNCHANGED <<run, ops, saved, up, restarts, world>>
      /\ loop.phase = (IF closing THEN "closing" ELSE "drain") /\ ~loop.aborted
      /\ \/ UNCHANGED <<inbox, checkpoints>>
         \/ /\ inbox' = [pending |-> <<>>, closed |-> inbox.closed \/ (closing /\ entries = <<>>)]
            /\ checkpoints' = [b \in DOMAIN checkpoints \cup {key} |->
                                 IF b = key THEN entries ELSE checkpoints[b]]
  BY DEF Drain, At
<1>2. entries \in Seq(Inputs)
  BY DEF TypeOK
<1>3. heard \in Seq(Items)
  <2>1. [i \in DOMAIN entries |-> Heard(entries[i])] \in Seq(Items)
    BY <1>2, ItemsTyped
  <2> QED
    BY <2>1, Parts
<1>0. /\ loop.phase \in {"closing", "drain"} /\ loop.boundary = loop.turn
      /\ closing => loop.turn > 0
  <2>1. CASE closing
    BY SMTT(20), <1>1, <2>1, Parts, Numbers DEF LoopShape
  <2>2. CASE ~closing
    BY SMTT(20), <1>1, <2>2, Parts, Numbers DEF LoopShape
  <2> QED
    BY <2>1, <2>2
<1>4. key \in Epochs \X Turns
  BY <1>0, Parts
<1> HIDE DEF entries, key, heard
<1>5. TypeOK'
  <2>1. loop' \in Loop
    <3>1. next \in Phases /\ loop.boundary + 1 \in Nat
      BY Parts DEF Phases
    <3> QED
      BY <1>1, <1>3, <3>1 DEF TypeOK, Loop
  <2>2. inbox' \in [pending: Seq(Inputs), closed: BOOLEAN]
    <3> DEFINE closed == inbox.closed \/ (closing /\ entries = <<>>)
    <3>1. closed \in BOOLEAN
      OBVIOUS
    <3> HIDE DEF closed
    <3>2. inbox' = inbox \/ inbox' = [pending |-> <<>>, closed |-> closed]
      BY <1>1 DEF closed
    <3>3. [pending |-> <<>>, closed |-> closed] \in [pending: Seq(Inputs), closed: BOOLEAN]
      BY <3>1
    <3> QED
      BY <3>2, <3>3 DEF TypeOK
  <2>3. /\ DOMAIN checkpoints' \subseteq Epochs \X Turns
        /\ \A b \in DOMAIN checkpoints' : checkpoints'[b] \in Seq(Inputs)
    BY <1>1, <1>2, <1>4 DEF TypeOK
  <2> QED
    BY <2>1, <2>2, <2>3, <1>1 DEF TypeOK, world
<1>6. /\ AnswersFirst' /\ Future' /\ Current' /\ ManualOnce'
      /\ Segment' /\ Pause' /\ Budget' /\ ApprovedFirst'
  BY <1>1, QuietStep DEF InSegment, world
<1>7. LoopShape' /\ Batch' /\ Picks'
  <2>1. /\ loop'.turn = loop.turn /\ loop'.boundary = loop.boundary + 1
        /\ loop'.begun = loop.begun /\ loop'.carried = loop.carried
        /\ loop'.aborted = loop.aborted /\ loop'.phase = next
    BY <1>1 DEF TypeOK, Loop
  <2>2. loop'.phase \in {"finish", "model"} /\ (loop'.phase = "finish" => closing)
    BY <2>1
  <2>3. LoopShape'
    BY <2>1, <2>2, <1>0, <1>1, Parts, Numbers DEF LoopShape
  <2> QED
    BY <2>2, <2>3 DEF Batch, Picks
<1> QED
  BY <1>5, <1>6, <1>7

\* The end of an attempt for which the run does not wait for a person.
LEMMA EndAttemptStep ==
  ASSUME IInv, NEW status \in Statuses \ {"waiting"}, NEW key \in Keys \cup {NoKey},
         loop.phase # "none", ~loop.aborted, EndAttempt(status, key),
         UNCHANGED <<ops, inbox, checkpoints, saved, up, restarts, world>>
  PROVE  IInv'
<1> USE DEF IInv
<1>1. run.status = "running"
  BY DEF LoopShape
<1>2. /\ run'.status = status /\ run'.epoch = run.epoch
      /\ run'.approvals = run.approvals /\ run'.turns = run.turns
      /\ run'.retries = run.retries
      /\ run' \in [status: Statuses, epoch: Epochs, turns: Turns,
                   blocked: Keys \cup {NoKey}, retries: 0..MaxRetries, approvals: ApprovalSets]
  BY DEF EndAttempt, TypeOK
<1>3. loop' = NoLoop
  BY DEF EndAttempt
<1>4. TypeOK'
  BY <1>2, <1>3, NoLoopHolds DEF TypeOK, world
<1>5. /\ AnswersFirst' /\ Future' /\ Current' /\ ManualOnce'
      /\ Segment' /\ Pause' /\ Budget' /\ ApprovedFirst'
  BY <1>1, <1>2, QuietStep DEF InSegment, world
<1> QED
  BY <1>3, <1>4, <1>5, NoLoopHolds

\* The last transaction of an attempt writes the status and the outcome.
LEMMA FinishStep == ASSUME IInv, Finish PROVE IInv'
<1>1. CASE EndAttempt("failed", NoKey) /\ UNCHANGED saved
  BY <1>1, EndAttemptStep DEF Finish, At, Statuses, Settled
<1>2. CASE EndAttempt("completed", NoKey) /\ saved' = [Fresh EXCEPT !.heard = loop.heard]
  <2> USE DEF IInv
  <2>1. /\ run'.status = "completed" /\ run'.epoch = run.epoch
        /\ run'.approvals = run.approvals /\ run'.turns = run.turns
        /\ run'.retries = run.retries
        /\ run' \in [status: Statuses, epoch: Epochs, turns: Turns,
                     blocked: Keys \cup {NoKey}, retries: 0..MaxRetries, approvals: ApprovalSets]
    BY <1>2 DEF EndAttempt, TypeOK, Statuses, Settled
  <2>2. loop' = NoLoop /\ UNCHANGED <<ops, inbox, checkpoints, up, restarts, world>>
    BY <1>2 DEF EndAttempt, Finish
  <2>3. saved' \in Saved
    <3>1. <<>> \in Seq(Calls) /\ <<0, 0>> \in Epochs \X Turns /\ loop.heard \in Seq(Items)
      BY Parts, Numbers
    <3> QED
      BY <1>2, <3>1 DEF Fresh, Saved
  <2>4. TypeOK'
    BY <2>1, <2>2, <2>3, NoLoopHolds DEF TypeOK, world
  <2>5. AnswersFirst' /\ Future' /\ Current' /\ ManualOnce' /\ Budget' /\ ApprovedFirst'
    BY <2>1, <2>2, OperationsKept, BudgetKept, ApprovalsKept DEF world, SameTools
  <2>6. Segment' /\ Pause'
    BY <2>1 DEF Segment, Pause, InSegment
  <2> QED
    BY <2>2, <2>4, <2>5, <2>6, NoLoopHolds
<1> QED
  BY <1>1, <1>2 DEF Finish

\* A failed request ends the attempt.
LEMMA ModelFailsStep == ASSUME IInv, ModelFails PROVE IInv'
BY EndAttemptStep DEF ModelFails, At, Statuses, Settled, Runnable

\* An aborted attempt leaves the journal as it is.
LEMMA AbandonStep == ASSUME IInv, Abandon PROVE IInv'
<1> USE DEF IInv
<1>1. loop' = NoLoop /\ UNCHANGED <<run, ops, inbox, checkpoints, saved, up, restarts, world>>
  BY DEF Abandon
<1>2. TypeOK'
  BY <1>1, NoLoopHolds DEF TypeOK, world
<1>3. /\ AnswersFirst' /\ Future' /\ Current' /\ ManualOnce'
      /\ Segment' /\ Pause' /\ Budget' /\ ApprovedFirst'
  BY <1>1, QuietStep DEF InSegment, world
<1> QED
  BY <1>1, <1>2, <1>3, NoLoopHolds

\* A step that writes a model operation and the loop leaves what the run waits for alone.
LEMMA ModelStep ==
  ASSUME IInv, UNCHANGED <<executed, allowed, saved>>,
         run'.epoch = run.epoch /\ run'.approvals = run.approvals,
         run'.status = run.status, SameTools
  PROVE  Segment' /\ Pause' /\ ApprovedFirst'
<1>1. InSegment' => InSegment
  BY DEF InSegment
<1> QED
  BY <1>1, SegmentKept, PauseKept, ApprovalsKept

\* The loop turns to an answer that the journal holds.
LEMMA DigestHolds ==
  ASSUME TypeOK, NEW turn \in Turns \ {0}, NEW answer \in Answers,
         loop' = Digest(turn, answer), loop.boundary = turn,
         loop.begun = {}, loop.carried = {},
         run'.epoch = run.epoch /\ run'.approvals = run.approvals, run'.status = "running",
         \A t \in 1..turn : ops'[ModelKey(run.epoch, t)].status # "none",
         ops'[ModelKey(run.epoch, turn)].status = "completed",
         ops'[ModelKey(run.epoch, turn)].answer = answer
  PROVE  loop' \in Loop /\ LoopShape' /\ Batch' /\ Picks'
<1>1. answer \in Seq(Calls) /\ turn \in Nat /\ turn > 0
  <2>1. answer \in Seq(Calls)
    BY ExecutionAssumption
  <2>2. turn \in Nat /\ turn # 0
    BY Numbers
  <2> QED
    BY <2>1, <2>2
<1>2. /\ loop'.phase \in {"closing", "tools"}
      /\ loop'.turn = turn /\ loop'.boundary = turn /\ loop'.batch = answer
      /\ loop'.todo = answer /\ loop'.granted = {} /\ loop'.origin = <<run.epoch, turn>>
      /\ loop'.begun = {} /\ loop'.carried = {}
  BY DEF TypeOK, Loop, Digest
<1>3. loop' \in Loop
  <2> DEFINE heard == Append(loop.heard, Said(answer))
             phase == IF answer = <<>> THEN "closing" ELSE "tools"
  <2>1. heard \in Seq(Items) /\ phase \in Phases /\ <<run.epoch, turn>> \in Epochs \X Turns
    BY Parts, ItemsTyped DEF Phases
  <2>2. loop' = [loop EXCEPT !.phase = phase, !.turn = turn, !.heard = heard,
                             !.batch = answer, !.todo = answer, !.granted = {},
                             !.origin = <<run.epoch, turn>>]
    BY DEF Digest
  <2> HIDE DEF heard, phase
  <2> QED
    BY ZenonT(40), <1>1, <2>1, <2>2 DEF TypeOK, Loop
<1>4. LoopShape'
  BY <1>1, <1>2 DEF LoopShape
<1>5. Batch'
  BY <1>1, <1>2 DEF Batch
<1>6. Picks'
  BY <1>1, <1>2 DEF Picks, Picked, InFlight
<1> QED
  BY <1>3, <1>4, <1>5, <1>6

\* A model turn is counted as it enters the journal, and only then.
LEMMA StartModelStep == ASSUME IInv, StartModel PROVE IInv'
<1> USE DEF IInv
<1> DEFINE turn == loop.turn + 1
           key == ModelKey(run.epoch, turn)
           new == turn <= MaxModelTurns => ops[key].status = "none"
<1>1. /\ loop.phase = "model" /\ ~loop.aborted /\ run.status = "running"
      /\ loop.boundary = turn /\ loop.begun = {} /\ loop.carried = {}
  BY Parts, Numbers DEF StartModel, At, LoopShape
<1>2. /\ UNCHANGED <<inbox, checkpoints, saved, up, restarts, world>>
      /\ run.epoch \in Epochs /\ loop.turn \in Turns /\ turn \in Nat \ {0}
      /\ \A t \in 1..loop.turn : ops[ModelKey(run.epoch, t)].status # "none"
  BY SMTT(20), <1>1, Parts, Numbers DEF StartModel, LoopShape
<1>3. CASE Spent /\ new
  <2>1. EndAttempt("failed", NoKey) /\ UNCHANGED ops
    BY <1>3 DEF StartModel
  <2> QED
    BY <2>1, <1>1, <1>2, EndAttemptStep DEF Statuses, Settled
<1>4. CASE ~Spent /\ new
  <2>1. turn \in Turns \ {0} /\ run.turns < MaxModelTurns
    <3>1. run.turns \in Nat /\ loop.turn \in Nat /\ MaxModelTurns \in Nat
      BY Parts, Numbers
    <3>2. loop.turn <= run.turns /\ run.turns < MaxModelTurns
      BY <1>1, <1>4, <3>1, TurnsTaken DEF Spent
    <3> QED
      BY <3>1, <3>2 DEF Turns
  <2>2. key \in ModelKeys /\ key \in Keys /\ ops[key].status = "none" /\ ops[key] \in Op
    BY <1>2, <1>4, <2>1, KeysTyped, Parts, Numbers
  <2> HIDE DEF key
  <2>3. /\ ops' = [ops EXCEPT ![key].status = "started", ![key].input = loop.heard]
        /\ run' = [run EXCEPT !.turns = @ + 1]
        /\ loop' = [loop EXCEPT !.phase = "begin", !.turn = turn]
    BY <1>4 DEF StartModel, key
  <2>4. /\ ops'[key] = [ops[key] EXCEPT !.status = "started", !.input = loop.heard]
        /\ \A k \in Keys \ {key} : ops'[k] = ops[k]
        /\ DOMAIN ops' = Keys
    BY <2>2, <2>3 DEF TypeOK
  <2>5. ops'[key].status = "started" /\ ops'[key].attempts = ops[key].attempts
    BY <2>2, <2>4 DEF Op
  <2>6. /\ run'.epoch = run.epoch /\ run'.approvals = run.approvals
        /\ run'.status = run.status /\ run'.retries = run.retries
        /\ run'.turns = run.turns + 1
    BY <2>3 DEF TypeOK
  <2>7. TypeOK'
    <3>1. ops'[key] \in Op
      BY <2>2, <2>4, Parts DEF Op
    <3>2. ops' \in [Keys -> Op]
      BY <2>3, <2>4, <3>1 DEF TypeOK
    <3>3. run.turns + 1 \in Turns
      BY <2>1, Parts, TurnsBelow
    <3>4. run' \in [status: Statuses, epoch: Epochs, turns: Turns,
                    blocked: Keys \cup {NoKey}, retries: 0..MaxRetries, approvals: ApprovalSets]
      BY <2>3, <3>3 DEF TypeOK
    <3>5. loop' \in Loop
      BY <2>3, <2>1 DEF TypeOK, Loop, Phases
    <3> QED
      BY <3>2, <3>4, <3>5, <1>2 DEF TypeOK, world
  <2>8. SameTools /\ AnswersFirst' /\ Future' /\ Current' /\ ManualOnce'
    BY <1>2, <2>1, <2>2, <2>4, <2>5, <2>6, ModelWritten DEF world, key
  <2>9. Segment' /\ Pause' /\ ApprovedFirst'
    BY <1>2, <2>6, <2>8, ModelStep DEF world
  <2>10. LoopShape' /\ Batch' /\ Picks'
    <3>1. /\ loop'.phase = "begin" /\ loop'.turn = turn /\ loop'.boundary = turn
          /\ loop'.begun = {} /\ loop'.carried = {} /\ loop'.aborted = loop.aborted
      BY <1>1, <2>3 DEF TypeOK, Loop
    <3>2. ModelKey(run'.epoch, loop'.turn) = key
      BY <3>1, <2>6 DEF key
    <3>3. \A t \in 1..turn : ops'[ModelKey(run.epoch, t)].status # "none"
      <4> TAKE t \in 1..turn
      <4>1. CASE t = turn
        BY <4>1, <2>5 DEF key
      <4>2. CASE t # turn
        <5>1. t \in 1..loop.turn /\ t \in Turns \ {0}
          BY <4>2, <1>2, TurnsBelow
        <5>2. ModelKey(run.epoch, t) \in Keys \ {key}
          BY <4>2, <5>1, <1>2, KeysTyped, KeysInjective DEF key
        <5> QED
          BY <5>1, <5>2, <1>2, <2>4
      <4> QED
        BY <4>1, <4>2
    <3>4. LoopShape'
      BY <3>1, <3>2, <3>3, <2>5, <2>6, <1>1, <1>2, Numbers DEF LoopShape
    <3> QED
      BY <3>1, <3>4 DEF Batch, Picks
  <2>11. Budget'
    <3>1. Taken' = Taken \cup {key} /\ key \notin Taken
      BY ZenonT(40), <2>2, <2>4, <2>5, KeysTyped DEF Taken
    <3>2. Cardinality(Taken') = Cardinality(Taken) + 1
      BY <3>1, KeysFinite, FS_AddElement
    <3>3. \A k \in ModelKeys : ops'[k].attempts = ops[k].attempts
      BY <2>4, <2>5, KeysTyped
    <3> QED
      BY <3>2, <3>3, <2>6, <1>2 DEF Budget, world
  <2> QED
    BY <2>7, <2>8, <2>9, <2>10, <2>11
<1>5. CASE ~new
  <2>1. turn \in Turns \ {0}
    BY <1>2, <1>5 DEF Turns
  <2>2. key \in ModelKeys /\ key \in Keys /\ ops[key].status # "none" /\ ops[key] \in Op
    BY <1>2, <1>5, <2>1, KeysTyped, Parts
  <2>3. UNCHANGED ops
    BY <1>5 DEF StartModel
  <2>4. CASE ops[key].input # loop.heard
    <3>1. EndAttempt("needs_attention", key)
      BY <1>5, <2>4 DEF StartModel
    <3> QED
      BY <1>1, <1>2, <2>2, <2>3, <3>1, EndAttemptStep DEF Statuses
  <2>5. CASE ops[key].input = loop.heard
    <3>1. /\ UNCHANGED run
          /\ loop' = IF ops[key].status = "completed" THEN Digest(turn, ops[key].answer)
                     ELSE [loop EXCEPT !.phase = "begin", !.turn = turn]
      BY <1>5, <2>5 DEF StartModel
    <3>2. \A t \in 1..turn : ops[ModelKey(run.epoch, t)].status # "none"
      BY <1>2, <2>2, TurnsBelow
    <3>3. loop' \in Loop /\ LoopShape' /\ Batch' /\ Picks'
      <4>1. CASE ops[key].status = "completed"
        <5>1. ops[key].answer \in Answers
          BY <1>2, <2>1, <4>1 DEF AnswersFirst
        <5> QED
          BY <1>1, <2>1, <2>3, <3>1, <3>2, <4>1, <5>1, DigestHolds
      <4>2. CASE ops[key].status # "completed"
        <5>1. loop' = [loop EXCEPT !.phase = "begin", !.turn = turn]
          BY <3>1, <4>2
        <5>2. loop' \in Loop
          BY <2>1, <5>1 DEF TypeOK, Loop, Phases
        <5>3. /\ loop'.phase = "begin" /\ loop'.turn = turn /\ loop'.boundary = turn
              /\ loop'.begun = {} /\ loop'.carried = {} /\ loop'.aborted = loop.aborted
          BY <1>1, <5>1 DEF TypeOK, Loop
        <5>4. ops[key].status = "started"
          BY <2>2, <4>2 DEF Op
        <5>5. LoopShape'
          BY <1>1, <1>2, <2>3, <3>1, <3>2, <5>3, <5>4 DEF LoopShape
        <5> QED
          BY <5>2, <5>3, <5>5 DEF Batch, Picks
      <4> QED
        BY <4>1, <4>2
    <3>4. TypeOK'
      BY <1>2, <2>3, <3>1, <3>3 DEF TypeOK, world
    <3>5. /\ AnswersFirst' /\ Future' /\ Current' /\ ManualOnce'
          /\ Segment' /\ Pause' /\ Budget' /\ ApprovedFirst'
      BY <1>2, <2>3, <3>1, QuietStep DEF InSegment, world
    <3> QED
      BY <3>3, <3>4, <3>5
  <2> QED
    BY <2>4, <2>5
<1> QED
  BY <1>3, <1>4, <1>5

\* An attempt at a model turn is counted before the provider is called.
LEMMA BeginAttemptStep == ASSUME IInv, BeginAttempt PROVE IInv'
<1> USE DEF IInv
<1> DEFINE key == ModelKey(run.epoch, loop.turn)
<1>1. /\ loop.phase = "begin" /\ ~loop.aborted /\ run.status = "running"
      /\ run.epoch \in Epochs /\ loop.turn \in Turns \ {0}
      /\ ops[key].status = "started"
      /\ UNCHANGED <<inbox, checkpoints, saved, up, restarts, executed, allowed, accepted>>
  <2>1. loop.phase = "begin" /\ ~loop.aborted
    BY DEF BeginAttempt, At
  <2>2. run.epoch \in Epochs /\ loop.turn \in Turns /\ loop.turn \in Nat
    BY Parts, Numbers
  <2>3. loop.turn > 0 /\ ops[key].status = "started" /\ run.status = "running"
    BY <2>1 DEF LoopShape
  <2> QED
    BY <2>1, <2>2, <2>3 DEF BeginAttempt
<1>2. key \in ModelKeys /\ key \in Keys /\ ops[key] \in Op /\ ops[key].attempts \in Nat
  BY <1>1, KeysTyped, Parts DEF Op
<1>3. CASE ops[key].attempts >= MaxAttempts
  <2>1. EndAttempt("failed", NoKey) /\ UNCHANGED <<ops, asked>>
    BY <1>3 DEF BeginAttempt
  <2> QED
    BY <1>1, <2>1, EndAttemptStep DEF world, Statuses, Settled
<1>4. CASE ~(ops[key].attempts >= MaxAttempts)
  <2>1. /\ ops' = [ops EXCEPT ![key].attempts = @ + 1]
        /\ asked' = [asked EXCEPT ![key] = @ + 1]
        /\ loop' = [loop EXCEPT !.phase = "asking"]
        /\ UNCHANGED run
    BY <1>4 DEF BeginAttempt
  <2> HIDE DEF key
  <2>2. /\ ops'[key] = [ops[key] EXCEPT !.attempts = @ + 1]
        /\ \A k \in Keys \ {key} : ops'[k] = ops[k]
        /\ DOMAIN ops' = Keys
    BY <1>2, <2>1 DEF TypeOK
  <2>3. /\ ops'[key].status = "started" /\ ops'[key].answer = ops[key].answer
        /\ ops'[key].attempts = ops[key].attempts + 1 /\ ops'[key] \in Op
    BY <1>1, <1>2, <2>2 DEF Op, key
  <2>4. /\ loop'.phase = "asking" /\ loop'.turn = loop.turn /\ loop'.boundary = loop.boundary
        /\ loop'.begun = loop.begun /\ loop'.carried = loop.carried
        /\ loop'.aborted = loop.aborted /\ loop' \in Loop
    BY <2>1 DEF TypeOK, Loop, Phases
  <2>5. TypeOK'
    <3>1. ops' \in [Keys -> Op]
      BY <2>1, <2>2, <2>3 DEF TypeOK
    <3>2. asked' \in [ModelKeys -> Nat]
      BY <2>1, <1>2 DEF TypeOK
    <3> QED
      BY <1>1, <2>1, <2>4, <3>1, <3>2 DEF TypeOK
  <2>6. SameTools /\ AnswersFirst' /\ Future' /\ Current' /\ ManualOnce'
    BY <1>1, <2>1, <2>2, <2>3, ModelWritten DEF key
  <2>7. Segment' /\ Pause' /\ ApprovedFirst'
    BY <1>1, <2>1, <2>6, ModelStep
  <2>8. LoopShape' /\ Batch' /\ Picks'
    <3>1. \A t \in 1..loop.turn : ops'[ModelKey(run.epoch, t)].status # "none"
      <4> TAKE t \in 1..loop.turn
      <4>1. t \in Turns \ {0}
        BY <1>1, TurnsBelow
      <4>2. ModelKey(run.epoch, t) \in Keys
        BY <1>1, <4>1, KeysTyped
      <4> QED
        BY <1>1, <4>2, <2>2, <2>3 DEF LoopShape
    <3>2. LoopShape'
      BY <1>1, <2>1, <2>3, <2>4, <3>1 DEF LoopShape, key
    <3> QED
      BY <2>4, <3>2 DEF Batch, Picks
  <2>9. Budget'
    <3>1. Taken' = Taken
      BY <1>1, <2>2, <2>3, KeysTyped DEF Taken, key
    <3>2. asked'[key] = asked[key] + 1 /\ asked[key] \in Nat
          /\ \A k \in ModelKeys \ {key} : asked'[k] = asked[k] /\ ops'[k] = ops[k]
      BY <1>2, <2>1, <2>2, KeysTyped DEF TypeOK
    <3>3. /\ ops'[key].attempts <= MaxAttempts
          /\ asked'[key] <= ops'[key].attempts + MaxAttempts * run.retries
      <4>1. MaxAttempts * run.retries \in Nat
        BY Parts, ExecutionAssumption
      <4>2. asked[key] <= ops[key].attempts + MaxAttempts * run.retries
        BY <1>2 DEF Budget
      <4> HIDE DEF IInv
      <4>3. MaxAttempts \in Nat /\ ops[key].attempts < MaxAttempts
        BY <1>2, <1>4, ExecutionAssumption DEF key
      <4> QED
        BY <1>2, <2>3, <3>2, <4>1, <4>2, <4>3
    <3> QED
      BY <2>1, <3>1, <3>2, <3>3 DEF Budget
  <2> QED
    BY <2>5, <2>6, <2>7, <2>8, <2>9
<1> QED
  BY <1>3, <1>4

\* An answer completes its operation before any of its calls has one.
LEMMA AnswerStep ==
  ASSUME IInv, NEW answer \in Answers, Answer(answer)
  PROVE  IInv'
<1> USE DEF IInv
<1> DEFINE key == ModelKey(run.epoch, loop.turn)
<1>1. /\ loop.phase = "asking" /\ ~loop.aborted /\ run.status = "running"
      /\ loop.boundary = loop.turn /\ loop.begun = {} /\ loop.carried = {}
      /\ run.epoch \in Epochs /\ loop.turn \in Turns \ {0}
      /\ ops[key].status = "started"
      /\ UNCHANGED <<run, inbox, checkpoints, saved, up, restarts, world>>
      /\ loop' = Digest(loop.turn, answer)
  <2>1. loop.phase = "asking" /\ ~loop.aborted
    BY DEF Answer, At
  <2>2. run.epoch \in Epochs /\ loop.turn \in Turns /\ loop.turn \in Nat
    BY Parts, Numbers
  <2>3. /\ loop.boundary = loop.turn /\ loop.turn > 0
        /\ loop.begun = {} /\ loop.carried = {} /\ ops[key].status = "started"
    <3> HIDE DEF key
    <3> QED
      BY <2>1, <2>2 DEF LoopShape, key
  <2> QED
    BY <2>1, <2>2, <2>3 DEF Answer
<1>2. key \in ModelKeys /\ key \in Keys /\ ops[key] \in Op
  BY <1>1, KeysTyped, Parts
<1>3. ops' = [ops EXCEPT ![key].status = "completed", ![key].answer = answer]
  BY DEF Answer
<1> HIDE DEF key
<1>4. /\ ops'[key] = [ops[key] EXCEPT !.status = "completed", !.answer = answer]
      /\ \A k \in Keys \ {key} : ops'[k] = ops[k]
      /\ DOMAIN ops' = Keys
  BY <1>2, <1>3 DEF TypeOK
<1>5. /\ ops'[key].status = "completed" /\ ops'[key].answer = answer
      /\ ops'[key].attempts = ops[key].attempts /\ ops'[key] \in Op
  BY <1>2, <1>4 DEF Op
<1>6. \A t \in 1..loop.turn : ops'[ModelKey(run.epoch, t)].status # "none"
  <2> TAKE t \in 1..loop.turn
  <2>1. t \in Turns \ {0}
    BY <1>1, TurnsBelow
  <2>2. ModelKey(run.epoch, t) \in Keys
    BY <1>1, <2>1, KeysTyped
  <2> QED
    <3>1. ops[ModelKey(run.epoch, t)].status # "none"
      BY <1>1 DEF LoopShape
    <3> QED
      BY <2>2, <3>1, <1>4, <1>5
<1>7. loop' \in Loop /\ LoopShape' /\ Batch' /\ Picks'
  BY <1>1, <1>5, <1>6, DigestHolds DEF key
<1>8. TypeOK'
  <2>1. ops' \in [Keys -> Op]
    BY <1>3, <1>4, <1>5 DEF TypeOK
  <2> QED
    BY <1>1, <1>7, <2>1 DEF TypeOK, world
<1>9. SameTools /\ AnswersFirst' /\ Future' /\ Current' /\ ManualOnce'
  BY <1>1, <1>4, <1>5, ModelWritten DEF key, world
<1>10. Segment' /\ Pause' /\ ApprovedFirst'
  BY <1>1, <1>9, ModelStep DEF world
<1>11. Budget'
  <2>1. Taken' = Taken
    BY ZenonT(40), <1>1, <1>4, <1>5, KeysTyped DEF Taken, key
  <2>2. \A k \in ModelKeys : ops'[k].attempts = ops[k].attempts
    BY <1>4, <1>5, KeysTyped
  <2> QED
    BY <1>1, <2>1, <2>2 DEF Budget, world
<1> QED
  BY <1>7, <1>8, <1>9, <1>10, <1>11

\* What holds of the batch, whether its calls come from an answer of this epoch or from the
\* one that a person was asked about.
LEMMA BatchFacts ==
  ASSUME IInv, loop.phase = "tools", run.status = "running"
  PROVE  /\ loop.batch \in Seq(Calls) /\ Distinct(loop.batch)
         /\ Gated(loop.batch, loop.granted, run.epoch, loop.turn)
         /\ \A c \in Elems(loop.batch) :
               /\ executed[Identity(c)] > 0 => ops[CallKey(c)].status # "none"
               /\ c \in loop.granted => Identity(c) \in allowed
<1> USE DEF IInv
<1>1. loop.batch \in Seq(Calls) /\ run.epoch \in Epochs /\ loop.turn \in Turns /\ loop.turn \in Nat
  BY Parts, Numbers
<1>2. \A c \in Elems(loop.batch) : c \in Calls
  BY <1>1 DEF Elems
<1>3. CASE loop.turn > 0
  <2>1. /\ loop.turn \in Turns \ {0} /\ loop.granted = {} /\ loop.origin = <<run.epoch, loop.turn>>
        /\ ops[ModelKey(run.epoch, loop.turn)].status = "completed"
        /\ loop.batch = ops[ModelKey(run.epoch, loop.turn)].answer
    BY <1>1, <1>3 DEF Batch
  <2>2. loop.batch \in Answers /\ Gated(loop.batch, {}, run.epoch, loop.turn)
    BY <1>1, <2>1 DEF AnswersFirst
  <2>3. \A c \in Calls : Identity(c) = CallKey(c)
    BY <2>1 DEF Identity, CallKey
  <2> QED
    BY <1>1, <1>2, <2>1, <2>2, <2>3, ExecutionAssumption DEF Current, CallKey
<1>4. CASE loop.turn = 0
  <2>1. /\ run.epoch > 0 /\ loop.batch = SegmentCalls /\ loop.granted = SegmentGranted
        /\ loop.origin = saved.origin
    BY <1>4 DEF Batch
  <2>2. InSegment
    BY <2>1 DEF InSegment
  <2>3. \A c \in Calls : Identity(c) = Origin(c)
    BY <2>1 DEF Identity, Origin
  <2>4. \A c \in loop.granted : saved.approved /\ c = Head(saved.pending)
    BY <2>1 DEF SegmentGranted
  <2> QED
    BY <1>1, <1>2, <1>4, <2>1, <2>2, <2>3, <2>4 DEF Segment, CallKey
<1> QED
  BY <1>1, <1>3, <1>4

\* The operation of a call of the batch is begun: no call whose approval is missing is
\* at or before it.
LEMMA ToolBegun ==
  ASSUME IInv, loop.phase = "tools", run.status = "running",
         UNCHANGED <<run, saved, executed, asked, allowed>>,
         NEW n \in DOMAIN loop.batch,
         \A i \in 1..n : ~NeedsApproval(loop.batch[i]),
         \A k \in Keys \ {CallKey(loop.batch[n])} : ops'[k] = ops[k],
         ops'[CallKey(loop.batch[n])].status # "none"
  PROVE  /\ AnswersFirst' /\ Future' /\ Current' /\ ManualOnce'
         /\ Segment' /\ Pause' /\ Budget' /\ ApprovedFirst'
<1> USE DEF IInv
<1> DEFINE b == loop.batch
           key == CallKey(b[n])
<1>1. /\ b \in Seq(Calls) /\ Distinct(b) /\ Gated(b, loop.granted, run.epoch, loop.turn)
      /\ run.epoch \in Epochs /\ loop.turn \in Turns /\ loop.turn \in Nat
  BY BatchFacts, Parts, Numbers
<1>2. b[n] \in Calls /\ key = ToolKey(run.epoch, loop.turn, b[n]) /\ key \in ToolKeys /\ key \in Keys
  BY <1>1, KeysTyped DEF CallKey
<1> HIDE DEF key
<1>3. \A k \in ModelKeys : ops'[k] = ops[k]
  BY <1>2, KeysTyped DEF key
<1>4. \A e \in Epochs, t \in Turns, c \in Calls :
         \/ ops'[ToolKey(e, t, c)] = ops[ToolKey(e, t, c)]
         \/ e = run.epoch /\ t = loop.turn /\ c = b[n]
  <2> TAKE e \in Epochs, t \in Turns, c \in Calls
  <2>1. ToolKey(e, t, c) \in Keys
    BY KeysTyped
  <2>2. CASE ToolKey(e, t, c) = key
    BY <1>2, <2>2, KeysInjective
  <2>3. CASE ToolKey(e, t, c) # key
    BY <2>1, <2>3 DEF key
  <2> QED
    BY <2>2, <2>3
<1>5. \A e \in Epochs, t \in Turns, c \in Calls :
         ops[ToolKey(e, t, c)].status # "none" => ops'[ToolKey(e, t, c)].status # "none"
  BY <1>2, <1>4 DEF key
<1>6. \A i, j \in DOMAIN b :
         i <= j /\ b[i] \in run.approvals /\ b[i] \notin loop.granted
           => ops'[ToolKey(run.epoch, loop.turn, b[j])].status = "none"
  <2> SUFFICES ASSUME NEW i \in DOMAIN b, NEW j \in DOMAIN b,
                      i <= j, b[i] \in run.approvals, b[i] \notin loop.granted
               PROVE  ops'[ToolKey(run.epoch, loop.turn, b[j])].status = "none"
    OBVIOUS
  <2>1. i \in Nat /\ i > 0 /\ j \in Nat /\ n \in Nat /\ b[j] \in Calls
    BY <1>1
  <2>2. ~(i <= n)
    BY <2>1 DEF NeedsApproval
  <2>3. b[j] # b[n]
    BY <1>1, <2>1, <2>2 DEF Distinct
  <2> QED
    BY <1>1, <1>4, <2>1, <2>3 DEF Gated
<1>7. AnswersFirst'
  <2> SUFFICES ASSUME NEW e \in Epochs, NEW t \in Turns \ {0}
               PROVE  /\ ops[ModelKey(e, t)].status = "completed" =>
                           /\ ops[ModelKey(e, t)].answer \in Answers
                           /\ \A i, j \in DOMAIN ops[ModelKey(e, t)].answer :
                                i <= j /\ ops[ModelKey(e, t)].answer[i] \in run.approvals
                                  => ops'[ToolKey(e, t, ops[ModelKey(e, t)].answer[j])].status = "none"
                      /\ ops[ModelKey(e, t)].status # "completed" =>
                           \A c \in Calls : ops'[ToolKey(e, t, c)].status = "none"
    BY <1>3, KeysTyped DEF AnswersFirst, Gated
  <2>1. CASE e = run.epoch /\ t = loop.turn
    <3>1. ops[ModelKey(e, t)].status = "completed" /\ b = ops[ModelKey(e, t)].answer
          /\ loop.granted = {}
      BY <1>1, <2>1 DEF Batch
    <3>2. b \in Answers
      BY <3>1 DEF AnswersFirst
    <3>3. \A i, j \in DOMAIN b :
             i <= j /\ b[i] \in run.approvals => ops'[ToolKey(e, t, b[j])].status = "none"
      BY <1>6, <2>1, <3>1
    <3> HIDE DEF IInv, b
    <3> QED
      BY <3>1, <3>2, <3>3
  <2>2. CASE ~(e = run.epoch /\ t = loop.turn)
    <3>1. \A c \in Calls : ops'[ToolKey(e, t, c)] = ops[ToolKey(e, t, c)]
      BY <1>4, <2>2
    <3>2. CASE ops[ModelKey(e, t)].status = "completed"
      <4>1. ops[ModelKey(e, t)].answer \in Answers /\ Gated(ops[ModelKey(e, t)].answer, {}, e, t)
        BY <3>2 DEF AnswersFirst
      <4>2. ops[ModelKey(e, t)].answer \in Seq(Calls)
        BY <4>1, ExecutionAssumption
      <4> QED
        BY <3>1, <3>2, <4>1, <4>2 DEF Gated
    <3>3. CASE ops[ModelKey(e, t)].status # "completed"
      BY <3>1, <3>3 DEF AnswersFirst
    <3> QED
      BY <3>2, <3>3
  <2> QED
    BY <2>1, <2>2
<1>8. Future'
  <2>1. \A e \in Epochs, t \in Turns \ {0} : ops'[ModelKey(e, t)] = ops[ModelKey(e, t)]
    BY <1>3, KeysTyped
  <2>2. \A e \in Epochs : e > run.epoch =>
           \A t \in Turns, c \in Calls : ops'[ToolKey(e, t, c)] = ops[ToolKey(e, t, c)]
    <3>1. \A e \in Epochs : e > run.epoch => e # run.epoch
      BY <1>1, Numbers
    <3> QED
      BY <1>4, <3>1
  <2> QED
    BY <2>1, <2>2 DEF Future
<1>9. Current' /\ ManualOnce' /\ Pause' /\ ApprovedFirst'
  <2>1. Current'
    BY <1>1, <1>5 DEF Current
  <2> QED
    BY <2>1, PauseKept, ApprovalsKept DEF ManualOnce
<1>10. Segment'
  <2> SUFFICES ASSUME InSegment PROVE Segment'
    BY DEF Segment, InSegment
  <2>1. /\ SegmentCalls' = SegmentCalls /\ SegmentGranted' = SegmentGranted
        /\ \A c : Origin(c)' = Origin(c)
    BY DEF SegmentCalls, SegmentGranted, Origin
  <2>2. SegmentCalls \in Seq(Calls) /\ 0 \in Turns
    BY SegmentTyped, Numbers DEF Segment
  <2>3. Gated(SegmentCalls, SegmentGranted, run.epoch, 0)'
    <3> SUFFICES ASSUME NEW i \in DOMAIN SegmentCalls, NEW j \in DOMAIN SegmentCalls,
                        i <= j, SegmentCalls[i] \in run.approvals, SegmentCalls[i] \notin SegmentGranted
                 PROVE  ops'[ToolKey(run.epoch, 0, SegmentCalls[j])].status = "none"
      BY <2>1 DEF Gated
    <3>1. CASE loop.turn = 0
      BY <1>6, <3>1 DEF Batch
    <3>2. CASE loop.turn # 0
      BY <1>1, <1>4, <2>2, <3>2 DEF Segment, Gated
    <3> QED
      BY <3>1, <3>2
  <2>4. \A c \in Elems(SegmentCalls) : executed[Origin(c)] > 0
                                          => ops'[ToolKey(run.epoch, 0, c)].status # "none"
    BY <1>1, <1>5, <2>2 DEF Segment, Elems
  <2> QED
    BY <2>1, <2>3, <2>4 DEF Segment
<1>11. Budget'
  BY <1>3 DEF Budget, Taken
<1> QED
  BY <1>7, <1>8, <1>9, <1>10, <1>11

\* A call is picked in the order of its answer, with its approval, unless the journal
\* holds its result or an interruption that is not repeatable.
LEMMA PickCallStep == ASSUME IInv, PickCall PROVE IInv'
<1> USE DEF IInv
<1> DEFINE c == NextCall
           key == CallKey(c)
           n == Picked + 1
           picked == [loop EXCEPT !.todo = Tail(@)]
<1>1. /\ loop.phase = "tools" /\ ~loop.aborted /\ run.status = "running"
      /\ loop.todo # <<>> /\ ~NeedsApproval(c)
      /\ UNCHANGED <<run, inbox, checkpoints, saved, up, restarts, world>>
  BY DEF PickCall, CanPick, At, LoopShape
<1>2. /\ loop.batch \in Seq(Calls) /\ loop.todo \in Seq(Calls) /\ Distinct(loop.batch)
      /\ run.epoch \in Epochs /\ loop.turn \in Turns
  BY <1>1, BatchFacts, Parts
<1>3. /\ n \in 1..Len(loop.batch) /\ n \in DOMAIN loop.batch /\ Picked \in Nat
      /\ c = loop.batch[n] /\ c \in Calls /\ c \in Elems(loop.batch)
      /\ \A i \in 1..n : ~NeedsApproval(loop.batch[i])
  <2>1. Len(loop.todo) \in Nat /\ Len(loop.batch) \in Nat /\ Len(loop.todo) > 0
    BY <1>1, <1>2
  <2>0. /\ Len(loop.todo) <= Len(loop.batch)
        /\ \A i \in 1..Len(loop.todo) : loop.todo[i] = loop.batch[Picked + i]
    BY <1>1 DEF Picks
  <2>2. n \in 1..Len(loop.batch) /\ Picked \in Nat
    <3> HIDE DEF IInv
    <3>1. Picked = Len(loop.batch) - Len(loop.todo)
      BY DEF Picked
    <3>2. Picked \in Nat /\ Picked + 1 <= Len(loop.batch)
      BY <2>0, <2>1, <3>1
    <3> QED
      BY <2>1, <3>2
  <2>3. c = loop.batch[n]
    BY <1>1, <1>2, <2>0, <2>1 DEF NextCall
  <2>4. \A i \in 1..n : i = n \/ i \in 1..Picked
    BY <2>2
  <2> QED
    BY <1>1, <1>2, <2>2, <2>3, <2>4 DEF Picks, Elems
<1>4. key = ToolKey(run.epoch, loop.turn, c) /\ key \in ToolKeys /\ key \in Keys /\ ops[key] \in Op
  BY <1>2, <1>3, KeysTyped, Parts DEF CallKey
<1>5. c \notin InFlight
  BY <1>1, <1>2, <1>3 DEF Picks, Distinct
<1> HIDE DEF key, n
<1>6. /\ ops' = IF ops[key].status = "none" THEN [ops EXCEPT ![key].status = "started"] ELSE ops
      /\ \/ ops[key].status = "completed" /\ loop' = picked
         \/ ops[key].status = "started" /\ loop' = [picked EXCEPT !.failure = key]
         \/ /\ ops[key].status # "completed"
            /\ ops[key].status = "started" => Recovery[c] # "manual"
            /\ loop' = [picked EXCEPT !.begun = @ \cup {c}]
  BY DEF PickCall, key
<1>7. /\ \A k \in Keys \ {key} : ops'[k] = ops[k]
      /\ ops'[key].status = (IF ops[key].status = "none" THEN "started" ELSE ops[key].status)
      /\ ops'[key].status # "none" /\ ops' \in [Keys -> Op]
  <2>1. CASE ops[key].status = "none"
    <3>1. [ops[key] EXCEPT !.status = "started"] \in Op
      BY <1>4 DEF Op
    <3> QED
      BY <1>4, <1>6, <2>1, <3>1 DEF TypeOK, Op
  <2>2. CASE ops[key].status # "none"
    BY <1>6, <2>2 DEF TypeOK
  <2> QED
    BY <2>1, <2>2
<1>8. /\ AnswersFirst' /\ Future' /\ Current' /\ ManualOnce'
      /\ Segment' /\ Pause' /\ Budget' /\ ApprovedFirst'
  BY <1>1, <1>3, <1>7, ToolBegun DEF key, world
<1>9. /\ loop' \in Loop /\ loop'.phase = "tools" /\ loop'.aborted = loop.aborted
      /\ loop'.turn = loop.turn /\ loop'.boundary = loop.boundary /\ loop'.batch = loop.batch
      /\ loop'.todo = Tail(loop.todo) /\ loop'.carried = loop.carried
      /\ loop'.granted = loop.granted /\ loop'.origin = loop.origin
      /\ \/ loop'.begun = loop.begun
         \/ /\ loop'.begun = loop.begun \cup {c} /\ ops'[key].status = "started"
            /\ ops[key].status = "started" => Recovery[c] # "manual"
  <2>1. Tail(loop.todo) \in Seq(Calls)
    BY <1>1, <1>2
  <2>2. picked \in Loop
    BY <2>1 DEF TypeOK, Loop
  <2>3. ops[key].status \in {"none", "started", "completed"}
    BY <1>4 DEF Op
  <2>4. CASE loop' = picked
    BY <1>1, <2>2, <2>4 DEF TypeOK, Loop
  <2>5. CASE loop' = [picked EXCEPT !.failure = key]
    BY <1>1, <1>4, <2>2, <2>5 DEF TypeOK, Loop
  <2>6. CASE /\ ops[key].status # "completed"
             /\ ops[key].status = "started" => Recovery[c] # "manual"
             /\ loop' = [picked EXCEPT !.begun = @ \cup {c}]
    <3>1. ops'[key].status = "started"
      BY <1>7, <2>3, <2>6
    <3>2. loop' \in Loop
      BY <1>3, <2>2, <2>6 DEF Loop
    <3> QED
      BY <1>1, <2>6, <3>1, <3>2 DEF TypeOK, Loop
  <2> QED
    BY <1>6, <2>4, <2>5, <2>6
<1>10. TypeOK'
  BY <1>1, <1>7, <1>9 DEF TypeOK, world
<1>11. \A k \in Keys : ops[k].status # "none" =>
          ops'[k].status = ops[k].status /\ ops'[k].answer = ops[k].answer
  <2>1. ops[key].status # "none" => ops' = ops
    BY <1>6
  <2> QED
    BY <1>7, <2>1
<1>12. LoopShape' /\ Batch'
  <2>1. \A t \in 1..loop.turn : ModelKey(run.epoch, t) \in Keys
    BY <1>2, TurnsBelow, KeysTyped
  <2>2. LoopShape'
    BY <1>1, <1>9, <1>11, <2>1 DEF LoopShape
  <2>3. loop.turn > 0 => ModelKey(run.epoch, loop.turn) \in Keys
    <3>1. loop.turn > 0 => loop.turn \in Turns \ {0}
      BY <1>2, Numbers
    <3> QED
      BY <1>2, <3>1, KeysTyped
  <2>4. SegmentCalls' = SegmentCalls /\ SegmentGranted' = SegmentGranted
    BY <1>1 DEF SegmentCalls, SegmentGranted
  <2>5. Batch'
    BY <1>1, <1>9, <1>11, <2>3, <2>4 DEF Batch
  <2> QED
    BY <2>2, <2>5
<1>13. Picks'
  <2>1. /\ Picked' = n
        /\ Len(loop'.todo) <= Len(loop'.batch)
        /\ \A i \in 1..Len(loop'.todo) : loop'.todo[i] = loop'.batch[n + i]
    <3>1. /\ Len(loop.todo) \in Nat /\ Len(loop.batch) \in Nat /\ Len(loop.todo) # 0
          /\ Len(loop'.todo) = Len(loop.todo) - 1 /\ loop'.batch = loop.batch
          /\ \A i \in 1..Len(loop'.todo) : loop'.todo[i] = loop.todo[i + 1]
      BY <1>1, <1>2, <1>9
    <3>2. /\ Len(loop.todo) <= Len(loop.batch)
          /\ \A i \in 1..Len(loop.todo) : loop.todo[i] = loop.batch[Picked + i]
      BY <1>1 DEF Picks
    <3> HIDE DEF IInv
    <3>3. Picked' = n /\ Len(loop'.todo) <= Len(loop'.batch)
      <4>1. Len(loop.batch) - (Len(loop.todo) - 1) = (Len(loop.batch) - Len(loop.todo)) + 1
            /\ Len(loop.todo) - 1 <= Len(loop.batch)
        BY <3>1, <3>2, OneMore
      <4> QED
        BY <3>1, <4>1 DEF Picked, n
    <3>4. \A i \in 1..Len(loop'.todo) :
             i + 1 \in 1..Len(loop.todo) /\ Picked + (i + 1) = n + i
      <4>1. \A i \in 1..(Len(loop.todo) - 1) :
               /\ i + 1 \in 1..Len(loop.todo)
               /\ (Len(loop.batch) - Len(loop.todo)) + (i + 1)
                    = ((Len(loop.batch) - Len(loop.todo)) + 1) + i
        BY <3>1, <3>2, OneMore
      <4> QED
        BY <3>1, <4>1 DEF Picked, n
    <3>5. \A i \in 1..Len(loop'.todo) : loop'.todo[i] = loop'.batch[n + i]
      <4> HIDE DEF n
      <4> QED
        BY <3>1, <3>2, <3>4
    <3> QED
      BY <3>3, <3>5
  <2>2. \A d : NeedsApproval(d)' <=> NeedsApproval(d)
    BY <1>1, <1>9 DEF NeedsApproval
  <2>3. \A d \in InFlight' : d \in InFlight \/ d = c
    BY <1>9 DEF InFlight
  <2>4. \A d \in InFlight' : \E i \in 1..n : d = loop.batch[i]
    <3>1. \A d \in InFlight : \E i \in 1..Picked : d = loop.batch[i]
      BY <1>1 DEF Picks
    <3>2. 1..Picked \subseteq 1..n /\ n \in 1..n
      BY <1>3 DEF n
    <3> QED
      BY <1>3, <2>3, <3>1, <3>2
  <2>5. loop'.begun \cap loop'.carried = {}
    BY <1>1, <1>5, <1>9 DEF Picks, InFlight
  <2>6. \A d \in InFlight' : ops'[CallKey(d)'].status = "started"
    <3>1. \A d \in Calls : CallKey(d)' = CallKey(d) /\ CallKey(d) \in Keys
      BY <1>1, <1>2, <1>9, KeysTyped DEF CallKey
    <3>2. \A d \in InFlight : d \in Calls /\ ops[CallKey(d)].status = "started"
      BY <1>1, Parts DEF Picks, InFlight
    <3>3. c \in InFlight' => ops'[key].status = "started"
      BY <1>5, <1>9 DEF InFlight
    <3> QED
      BY <1>3, <1>11, <2>3, <3>1, <3>2, <3>3 DEF key
  <2>7. \A d \in loop'.begun :
           /\ Recovery[d] = "manual" => executed'[Identity(d)'] = 0
           /\ d \in run.approvals => Identity(d)' \in allowed'
    <3>1. \A d : Identity(d)' = Identity(d)
      BY <1>9 DEF Identity
    <3>2. \A d \in loop.begun : /\ Recovery[d] = "manual" => executed[Identity(d)] = 0
                                /\ d \in run.approvals => Identity(d) \in allowed
      BY <1>1 DEF Picks
    <3>3. c \in run.approvals => Identity(c) \in allowed
      BY <1>1, <1>3, BatchFacts DEF NeedsApproval
    <3>4. c \in loop'.begun /\ Recovery[c] = "manual" => executed[Identity(c)] = 0
      <4> SUFFICES ASSUME c \in loop'.begun, Recovery[c] = "manual"
                   PROVE  executed[Identity(c)] = 0
        OBVIOUS
      <4>1. ops[key].status = "none"
        BY <1>5, <1>7, <1>9 DEF InFlight
      <4>2. ~(executed[Identity(c)] > 0)
        BY <1>1, <1>3, <4>1, BatchFacts DEF key
      <4>3. Identity(c) \in ToolKeys
        BY <1>3, Parts, KeysTyped DEF Identity
      <4> QED
        BY <4>2, <4>3 DEF TypeOK
    <3> QED
      BY <1>1, <1>9, <3>1, <3>2, <3>3, <3>4 DEF world
  <2>8. \A i \in 1..n : ~NeedsApproval(loop.batch[i])'
    BY <1>3, <1>9, <2>2
  <2> QED
    BY <1>1, <1>9, <2>1, <2>4, <2>5, <2>6, <2>7, <2>8 DEF Picks
<1> QED
  BY <1>8, <1>9, <1>10, <1>12, <1>13

\* The identity of a call in flight is of this epoch or of the answer it resumes.
LEMMA IdentityFacts ==
  ASSUME IInv, loop.phase = "tools", NEW c \in Calls
  PROVE  /\ Identity(c) \in ToolKeys
         /\ loop.turn > 0 => Identity(c) = CallKey(c) /\ loop.origin = <<run.epoch, loop.turn>>
         /\ loop.turn = 0 => /\ Identity(c) = Origin(c) /\ loop.origin = saved.origin
                             /\ loop.origin[1] < run.epoch /\ run.epoch > 0
         /\ loop.origin[1] \in Epochs /\ loop.origin[2] \in Turns
<1>1. loop.origin[1] \in Epochs /\ loop.origin[2] \in Turns
  BY Parts DEF IInv
<1>2. Identity(c) \in ToolKeys
  BY <1>1, KeysTyped DEF Identity
<1>3. ASSUME loop.turn > 0
      PROVE  Identity(c) = CallKey(c) /\ loop.origin = <<run.epoch, loop.turn>>
  BY <1>3 DEF IInv, Batch, Identity, CallKey
<1>4. ASSUME loop.turn = 0
      PROVE  /\ Identity(c) = Origin(c) /\ loop.origin = saved.origin
             /\ loop.origin[1] < run.epoch /\ run.epoch > 0
  BY <1>4 DEF IInv, Batch, Identity, Origin
<1> QED
  BY <1>1, <1>2, <1>3, <1>4

\* A tool call does its work under an operation that was started and has no result.
LEMMA CarryOutStep ==
  ASSUME IInv, NEW c \in Calls, CarryOut(c)
  PROVE  IInv'
<1> USE DEF IInv
<1> DEFINE id == Identity(c)
<1>1. /\ loop.phase = "tools" /\ c \in loop.begun
      /\ executed' = [executed EXCEPT ![id] = @ + 1]
      /\ loop' = [loop EXCEPT !.begun = @ \ {c}, !.carried = @ \cup {c}]
      /\ UNCHANGED <<run, ops, inbox, checkpoints, saved, up, restarts, asked, allowed,
                     accepted>>
  BY DEF CarryOut
<1>2. /\ run.epoch \in Epochs /\ loop.turn \in Turns /\ loop.turn \in Nat
      /\ id \in ToolKeys /\ loop.origin[1] \in Epochs /\ loop.origin[2] \in Turns
  BY <1>1, IdentityFacts, Parts, Numbers
<1>3. /\ executed' \in [ToolKeys -> Nat]
      /\ executed'[id] = executed[id] + 1
      /\ \A k \in ToolKeys \ {id} : executed'[k] = executed[k]
      /\ \A k \in ToolKeys : executed[k] \in Nat
  <2> HIDE DEF id
  <2> QED
    BY <1>1, <1>2 DEF TypeOK
<1>4. /\ loop' \in Loop /\ loop'.phase = loop.phase /\ loop'.aborted = loop.aborted
      /\ loop'.turn = loop.turn /\ loop'.boundary = loop.boundary /\ loop'.batch = loop.batch
      /\ loop'.todo = loop.todo /\ loop'.granted = loop.granted /\ loop'.origin = loop.origin
      /\ loop'.begun = loop.begun \ {c} /\ loop'.carried = loop.carried \cup {c}
  BY <1>1 DEF TypeOK, Loop
<1>5. TypeOK'
  BY <1>1, <1>3, <1>4 DEF TypeOK
<1>6. /\ Recovery[c] = "manual" => executed[id] = 0
      /\ c \in run.approvals => id \in allowed
      /\ ops[CallKey(c)].status = "started"
  BY <1>1 DEF Picks, InFlight
<1> HIDE DEF id
<1>7. LoopShape'
  BY <1>1, <1>4 DEF LoopShape
<1>8. Batch'
  <2>1. SegmentCalls' = SegmentCalls /\ SegmentGranted' = SegmentGranted
    BY <1>1 DEF SegmentCalls, SegmentGranted
  <2> QED
    BY <1>1, <1>4, <2>1 DEF Batch
<1>9. Picks'
  <2>1. InFlight' = InFlight
    BY <1>1, <1>4 DEF InFlight
  <2>2. /\ \A d : NeedsApproval(d)' = NeedsApproval(d)
        /\ \A d : Identity(d)' = Identity(d) /\ CallKey(d)' = CallKey(d)
        /\ Picked' = Picked
    BY <1>1, <1>4 DEF NeedsApproval, Identity, CallKey, Picked
  <2>3. \A d \in loop'.begun : executed'[Identity(d)] = executed[Identity(d)]
    <3> TAKE d \in loop'.begun
    <3>1. d \in Calls /\ d # c
      BY <1>4, Parts
    <3>2. Identity(d) \in ToolKeys /\ Identity(d) # id
      BY <1>1, <3>1, IdentityFacts, KeysInjective DEF Identity, id
    <3> QED
      BY <1>3, <3>2
  <2>4. loop'.begun \cap loop'.carried = {} /\ loop'.begun \subseteq loop.begun
    BY <1>1, <1>4 DEF Picks
  <2> QED
    BY <1>1, <1>4, <2>1, <2>2, <2>3, <2>4 DEF Picks
<1>10. AnswersFirst' /\ Budget'
  BY <1>1, BudgetKept DEF AnswersFirst, Gated
<1>11. \A e \in Epochs, t \in Turns, d \in Calls :
          ToolKey(e, t, d) = id \/ executed'[ToolKey(e, t, d)] = executed[ToolKey(e, t, d)]
  BY <1>3, KeysTyped
<1>12. \A e, t, d : ToolKey(e, t, d) = id <=> e = loop.origin[1] /\ t = loop.origin[2] /\ d = c
  BY KeysInjective DEF Identity, id
<1>13. Future'
  <2>1. loop.origin[1] = run.epoch \/ loop.origin[1] < run.epoch
    BY <1>1, <1>2, IdentityFacts
  <2>2. \A e \in Epochs, t \in Turns, d \in Calls :
           e > run.epoch => executed'[ToolKey(e, t, d)] = executed[ToolKey(e, t, d)]
    <3>1. run.epoch \in Nat /\ loop.origin[1] \in Nat /\ \A e \in Epochs : e \in Nat
      BY <1>2, Numbers
    <3>2. \A e \in Epochs : e > run.epoch => e # loop.origin[1]
      BY <2>1, <3>1
    <3> QED
      BY <1>11, <1>12, <3>2
  <2> QED
    BY <1>1, <2>2 DEF Future
<1>14. Current'
  <2> SUFFICES ASSUME NEW t \in Turns \ {0}, NEW d \in Calls,
                      executed'[ToolKey(run.epoch, t, d)] > 0
               PROVE  ops[ToolKey(run.epoch, t, d)].status # "none"
    BY <1>1 DEF Current
  <2>1. CASE ToolKey(run.epoch, t, d) = id
    <3>1. loop.origin[1] = run.epoch /\ d = c
      BY <1>12, <2>1
    <3>2. loop.turn > 0
      BY <1>1, <1>2, <3>1, IdentityFacts, Numbers
    <3>3. id = CallKey(c)
      BY <1>1, <3>2, IdentityFacts DEF id
    <3> QED
      BY <1>6, <2>1, <3>3
  <2>2. CASE ToolKey(run.epoch, t, d) # id
    BY <1>2, <1>11, <2>2 DEF Current
  <2> QED
    BY <2>1, <2>2
<1>15. ManualOnce'
  <2> SUFFICES ASSUME NEW e \in Epochs, NEW t \in Turns, NEW d \in Calls, Recovery[d] = "manual"
               PROVE  executed'[ToolKey(e, t, d)] <= 1
    BY DEF ManualOnce, ToolKey
  <2>1. executed[ToolKey(e, t, d)] <= 1
    BY DEF ManualOnce, ToolKey
  <2> QED
    BY <1>3, <1>6, <1>11, <1>12, <2>1
<1>16. ApprovedFirst'
  <2> SUFFICES ASSUME NEW e \in Epochs, NEW t \in Turns, NEW d \in run.approvals,
                      executed'[ToolKey(e, t, d)] > 0
               PROVE  ToolKey(e, t, d) \in allowed
    BY <1>1 DEF ApprovedFirst, ToolKey
  <2>1. d \in Calls
    BY ExecutionAssumption DEF TypeOK
  <2>2. executed[ToolKey(e, t, d)] > 0 => ToolKey(e, t, d) \in allowed
    BY DEF ApprovedFirst, ToolKey
  <2> QED
    BY <1>6, <1>11, <1>12, <2>1, <2>2
<1>17. Segment'
  <2> SUFFICES ASSUME InSegment PROVE Segment'
    BY <1>1 DEF Segment, InSegment
  <2>1. /\ SegmentCalls' = SegmentCalls /\ SegmentGranted' = SegmentGranted
        /\ \A d : Origin(d)' = Origin(d)
    BY <1>1 DEF SegmentCalls, SegmentGranted, Origin
  <2>2. /\ SegmentCalls \in Seq(Calls) /\ saved.origin[1] \in Epochs /\ saved.origin[2] \in Turns
        /\ saved.origin[1] < run.epoch
    BY SegmentTyped, Parts DEF Segment
  <2>3. \A d \in Elems(SegmentCalls) :
           executed'[Origin(d)] > 0 => ops[ToolKey(run.epoch, 0, d)].status # "none"
    <3> SUFFICES ASSUME NEW d \in Elems(SegmentCalls), executed'[Origin(d)] > 0
                 PROVE  ops[ToolKey(run.epoch, 0, d)].status # "none"
      OBVIOUS
    <3>1. d \in Calls
      BY <2>2 DEF Elems
    <3>2. CASE Origin(d) = id
      <4>1. loop.origin[1] = saved.origin[1] /\ d = c
        BY <3>2, KeysInjective DEF Origin, Identity, id
      <4>2. loop.origin[1] # run.epoch
        <5>1. run.epoch \in Nat /\ saved.origin[1] \in Nat
          BY <1>2, <2>2, Numbers
        <5> QED
          BY <2>2, <4>1, <5>1
      <4>3. loop.turn = 0
        BY <1>1, <1>2, <4>2, IdentityFacts
      <4> QED
        BY <1>6, <4>1, <4>3 DEF CallKey
    <3>3. CASE Origin(d) # id
      BY <1>11, <2>2, <3>1, <3>3 DEF Origin, Segment
    <3> QED
      BY <3>2, <3>3
  <2> QED
    BY <1>1, <2>1, <2>3 DEF Segment, Gated
<1>18. Pause'
  BY <1>1 DEF Pause, LoopShape
<1> QED
  BY <1>5, <1>7, <1>8, <1>9, <1>10, <1>13, <1>14, <1>15, <1>16, <1>17, <1>18

\* The result of a call completes its operation.
LEMMA RecordStep ==
  ASSUME IInv, NEW c \in Calls, Record(c)
  PROVE  IInv'
<1> USE DEF IInv
<1> DEFINE key == CallKey(c)
           value == executed[Identity(c)]
<1>1. /\ loop.phase = "tools" /\ c \in loop.carried /\ run.status = "running"
      /\ ops' = [ops EXCEPT ![key].status = "completed", ![key].value = value]
      /\ loop' = [loop EXCEPT !.carried = @ \ {c}]
      /\ UNCHANGED <<run, inbox, checkpoints, saved, up, restarts, world>>
  BY DEF Record, At
<1>2. key \in ToolKeys /\ key \in Keys /\ ops[key] \in Op /\ value \in Values
  <2>1. run.epoch \in Epochs /\ loop.turn \in Turns
    BY Parts
  <2>2. value \in Nat
    BY <1>1, IdentityFacts DEF TypeOK
  <2> QED
    BY <2>1, <2>2, KeysTyped, Parts DEF CallKey, Values
<1>3. ops[key].status = "started" /\ c \notin loop.begun
  BY <1>1 DEF Picks, InFlight
<1> HIDE DEF key, value
<1>4. /\ ops'[key] = [ops[key] EXCEPT !.status = "completed", !.value = value]
      /\ \A k \in Keys \ {key} : ops'[k] = ops[k]
      /\ ops' \in [Keys -> Op] /\ ops'[key].status = "completed"
  <2>1. [ops[key] EXCEPT !.status = "completed", !.value = value] \in Op
    BY <1>2 DEF Op
  <2>2. ops' = [ops EXCEPT ![key] = [ops[key] EXCEPT !.status = "completed", !.value = value]]
    BY <1>1, <1>2 DEF TypeOK
  <2> QED
    BY <1>2, <2>1, <2>2 DEF TypeOK, Op
<1>5. /\ loop' \in Loop /\ loop'.phase = loop.phase /\ loop'.aborted = loop.aborted
      /\ loop'.turn = loop.turn /\ loop'.boundary = loop.boundary /\ loop'.batch = loop.batch
      /\ loop'.todo = loop.todo /\ loop'.granted = loop.granted /\ loop'.origin = loop.origin
      /\ loop'.begun = loop.begun /\ loop'.carried = loop.carried \ {c}
  BY <1>1 DEF TypeOK, Loop
<1>6. TypeOK'
  BY <1>1, <1>4, <1>5 DEF TypeOK, world
<1>7. SameTools /\ \A k \in ModelKeys : ops'[k] = ops[k]
  BY <1>2, <1>3, <1>4, KeysTyped DEF SameTools
<1>8. AnswersFirst' /\ Future' /\ Current' /\ ManualOnce'
  BY <1>1, <1>7, OperationsKept DEF world
<1>9. Segment' /\ Pause' /\ ApprovedFirst'
  BY <1>1, <1>7, ModelStep DEF world
<1>10. Budget'
  BY <1>1, <1>7 DEF Budget, Taken, world
<1>11. LoopShape' /\ Batch'
  <2>1. SegmentCalls' = SegmentCalls /\ SegmentGranted' = SegmentGranted
    BY <1>1 DEF SegmentCalls, SegmentGranted
  <2>2. \A t \in 1..loop.turn : ModelKey(run.epoch, t) \in ModelKeys
    BY Parts, TurnsBelow, KeysTyped
  <2>3. loop.turn > 0 => ModelKey(run.epoch, loop.turn) \in ModelKeys
    <3>1. loop.turn > 0 => loop.turn \in Turns \ {0}
      BY Parts, Numbers
    <3> QED
      BY <3>1, Parts, KeysTyped
  <2>4. LoopShape'
    BY ZenonT(40), <1>1, <1>5, <1>7, <2>2 DEF LoopShape
  <2>5. Batch'
    BY <1>1, <1>5, <1>7, <2>1, <2>3 DEF Batch
  <2> QED
    BY <2>4, <2>5
<1>12. Picks'
  <2>1. InFlight' = InFlight \ {c}
    BY <1>3, <1>5 DEF InFlight
  <2>2. /\ \A d : NeedsApproval(d)' = NeedsApproval(d)
        /\ \A d : Identity(d)' = Identity(d) /\ CallKey(d)' = CallKey(d)
        /\ Picked' = Picked
    BY <1>1, <1>5 DEF NeedsApproval, Identity, CallKey, Picked
  <2>3. \A d \in InFlight' : ops'[CallKey(d)].status = "started"
    <3> TAKE d \in InFlight'
    <3>1. d \in Calls /\ d \in InFlight /\ d # c
      BY <2>1, Parts DEF InFlight
    <3>2. CallKey(d) \in Keys /\ CallKey(d) # key
      BY <3>1, Parts, KeysTyped, KeysInjective DEF CallKey, key
    <3> QED
      BY <1>1, <1>4, <3>1, <3>2 DEF Picks
  <2>4. /\ \A d \in InFlight' : \E i \in 1..Picked : d = loop.batch[i]
        /\ loop'.begun \cap loop'.carried = {}
    BY <1>1, <1>5, <2>1 DEF Picks
  <2>5. \A d \in loop.begun : /\ Recovery[d] = "manual" => executed[Identity(d)] = 0
                              /\ d \in run.approvals => Identity(d) \in allowed
    BY <1>1 DEF Picks
  <2>6. /\ Len(loop.todo) <= Len(loop.batch)
        /\ \A i \in 1..Len(loop.todo) : loop.todo[i] = loop.batch[Picked + i]
        /\ \A i \in 1..Picked : ~NeedsApproval(loop.batch[i])
    BY <1>1 DEF Picks
  <2> HIDE DEF IInv
  <2>7. executed' = executed /\ allowed' = allowed
    BY <1>1 DEF world
  <2> QED
    BY <1>1, <1>5, <2>2, <2>3, <2>4, <2>5, <2>6, <2>7 DEF Picks
<1> QED
  BY <1>6, <1>8, <1>9, <1>10, <1>11, <1>12

\* A result that cannot be stored leaves its operation started.
LEMMA RecordFailsStep ==
  ASSUME IInv, NEW c \in Calls, RecordFails(c)
  PROVE  IInv'
<1> USE DEF IInv
<1> DEFINE failure == IF loop.failure = NoKey THEN CallKey(c) ELSE loop.failure
<1>1. /\ loop.phase = "tools" /\ c \in loop.carried /\ ~loop.aborted
      /\ loop' = [loop EXCEPT !.carried = @ \ {c}, !.failure = failure]
      /\ UNCHANGED <<run, ops, inbox, checkpoints, saved, up, restarts, world>>
  BY DEF RecordFails, At
<1>2. failure \in ToolKeys \cup {NoKey}
  BY Parts, KeysTyped DEF CallKey, TypeOK, Loop
<1> HIDE DEF failure
<1>3. /\ loop' \in Loop /\ loop'.phase = loop.phase /\ loop'.aborted = loop.aborted
      /\ loop'.turn = loop.turn /\ loop'.boundary = loop.boundary /\ loop'.batch = loop.batch
      /\ loop'.todo = loop.todo /\ loop'.granted = loop.granted /\ loop'.origin = loop.origin
      /\ loop'.begun = loop.begun /\ loop'.carried = loop.carried \ {c}
  BY <1>1, <1>2 DEF TypeOK, Loop
<1>4. TypeOK'
  BY <1>1, <1>3 DEF TypeOK, world
<1>5. /\ AnswersFirst' /\ Future' /\ Current' /\ ManualOnce'
      /\ Segment' /\ Pause' /\ Budget' /\ ApprovedFirst'
  BY <1>1, QuietStep DEF InSegment, world
<1>6. LoopShape'
  BY <1>1, <1>3 DEF LoopShape
<1>7. Batch'
  <2>1. SegmentCalls' = SegmentCalls /\ SegmentGranted' = SegmentGranted
    BY <1>1 DEF SegmentCalls, SegmentGranted
  <2> QED
    BY <1>1, <1>3, <2>1 DEF Batch
<1>8. Picks'
  <2>1. InFlight' \subseteq InFlight
    BY <1>3 DEF InFlight
  <2>2. /\ \A d : NeedsApproval(d)' = NeedsApproval(d)
        /\ \A d : Identity(d)' = Identity(d) /\ CallKey(d)' = CallKey(d)
        /\ Picked' = Picked
    BY <1>1, <1>3 DEF NeedsApproval, Identity, CallKey, Picked
  <2> QED
    BY <1>1, <1>3, <2>1, <2>2 DEF Picks, world
<1> QED
  BY <1>4, <1>5, <1>6, <1>7, <1>8

\* The results that the transcript takes over are items of it.
LEMMA ResultsTyped ==
  ASSUME TypeOK, NEW n \in 0..Len(loop.batch)
  PROVE  Results(n) \in Seq(Items)
<1>1. \A i \in 1..n : loop.batch[i] \in Calls
  BY Parts
<1>2. \A c \in Calls : ops[CallKey(c)].value \in Values
  BY Parts, KeysTyped DEF CallKey, Op
<1>3. \A i \in 1..n : Result(loop.batch[i], ops[CallKey(loop.batch[i])].value) \in Items
  BY <1>1, <1>2, ItemsTyped
<1>4. n \in Nat
  BY Parts
<1> QED
  BY <1>3, <1>4 DEF Results

\* The batch ends with the results in the transcript, or blocks the run.
LEMMA EndBatchStep == ASSUME IInv, EndBatch PROVE IInv'
<1> USE DEF IInv
<1>1. /\ loop.phase = "tools" /\ ~loop.aborted /\ loop.begun = {} /\ loop.carried = {}
      /\ UNCHANGED <<ops, inbox, checkpoints, saved, up, restarts, world>>
  BY DEF EndBatch, At, InFlight
<1>2. CASE loop.failure # NoKey
  <2>1. EndAttempt("needs_attention", loop.failure)
    BY <1>2 DEF EndBatch
  <2>2. loop.failure \in Keys \cup {NoKey}
    BY KeysTyped DEF TypeOK, Loop
  <2> QED
    BY <1>1, <2>1, <2>2, EndAttemptStep DEF Statuses
<1>3. CASE loop.failure = NoKey
  <2> DEFINE heard == loop.heard \o Results(Len(loop.batch))
  <2>1. /\ UNCHANGED run
        /\ loop' = [loop EXCEPT !.phase = "drain", !.batch = <<>>, !.heard = heard]
    BY <1>3 DEF EndBatch
  <2>2. heard \in Seq(Items)
    <3>1. Len(loop.batch) \in 0..Len(loop.batch)
      BY Parts
    <3>2. Results(Len(loop.batch)) \in Seq(Items)
      BY <3>1, ResultsTyped
    <3> QED
      BY <3>2, Parts
  <2> HIDE DEF heard
  <2>3. loop' \in Loop /\ loop'.phase = "drain" /\ loop'.turn = loop.turn
        /\ loop'.boundary = loop.boundary /\ loop'.begun = {} /\ loop'.carried = {}
        /\ loop'.aborted = loop.aborted
    <3>1. <<>> \in Seq(Calls) /\ "drain" \in Phases
      BY DEF Phases
    <3> QED
      BY <1>1, <2>1, <2>2, <3>1 DEF TypeOK, Loop
  <2>4. TypeOK'
    BY <1>1, <2>1, <2>3 DEF TypeOK, world
  <2>5. /\ AnswersFirst' /\ Future' /\ Current' /\ ManualOnce'
        /\ Segment' /\ Pause' /\ Budget' /\ ApprovedFirst'
    BY <1>1, <2>1, QuietStep DEF InSegment, world
  <2>6. LoopShape'
    BY <1>1, <2>1, <2>3 DEF LoopShape
  <2> QED
    BY <2>3, <2>4, <2>5, <2>6 DEF Batch, Picks
<1> QED
  BY <1>2, <1>3

\* The run waits with the first call that lacks its approval and the calls after it, none
\* of which was carried out.
LEMMA SuspendStep == ASSUME IInv, Suspend PROVE IInv'
<1> USE DEF IInv
<1> DEFINE heard == loop.heard \o Results(Picked)
<1>1. /\ loop.phase = "tools" /\ ~loop.aborted /\ run.status = "running"
      /\ loop.todo # <<>> /\ NeedsApproval(NextCall)
      /\ saved' = [heard |-> heard, pending |-> <<NextCall>>, approved |-> FALSE,
                   rest |-> Tail(loop.todo), origin |-> loop.origin]
      /\ EndAttempt("waiting", NoKey)
      /\ UNCHANGED <<ops, inbox, checkpoints, up, restarts, world>>
  BY DEF Suspend, CanPick, At, LoopShape, Picked
<1>2. /\ loop.batch \in Seq(Calls) /\ loop.todo \in Seq(Calls) /\ Distinct(loop.batch)
      /\ Gated(loop.batch, loop.granted, run.epoch, loop.turn)
      /\ run.epoch \in Epochs /\ loop.turn \in Turns /\ loop.turn \in Nat
      /\ NextCall \in Calls /\ NextCall = loop.todo[1]
      /\ Tail(loop.todo) \in Seq(Calls) /\ <<NextCall>> \o Tail(loop.todo) = loop.todo
  <2>1. loop.batch \in Seq(Calls) /\ loop.todo \in Seq(Calls)
    BY Parts
  <2>2. /\ NextCall \in Calls /\ NextCall = loop.todo[1] /\ Tail(loop.todo) \in Seq(Calls)
        /\ <<NextCall>> \o Tail(loop.todo) = loop.todo
    BY <1>1, <2>1 DEF NextCall
  <2> QED
    BY <1>1, <2>1, <2>2, BatchFacts, Parts, Numbers
<1>3. /\ Picked \in 0..Len(loop.batch) /\ Len(loop.todo) \in Nat
      /\ \A i \in DOMAIN loop.todo : /\ loop.todo[i] = loop.batch[Picked + i]
                                     /\ Picked + i \in DOMAIN loop.batch
                                     /\ Picked + 1 <= Picked + i
                                     /\ Picked + 1 \in DOMAIN loop.batch
  <2>1. Len(loop.todo) \in Nat /\ Len(loop.batch) \in Nat
    BY <1>2
  <2>7. DOMAIN loop.todo = 1..Len(loop.todo) /\ DOMAIN loop.batch = 1..Len(loop.batch)
    BY <1>2
  <2>2. Len(loop.todo) <= Len(loop.batch)
    BY <1>1 DEF Picks
  <2>6. \A i \in 1..Len(loop.todo) : loop.todo[i] = loop.batch[Picked + i]
    BY <1>1 DEF Picks
  <2> HIDE DEF IInv
  <2>3. Picked = Len(loop.batch) - Len(loop.todo)
    BY DEF Picked
  <2>4. Picked \in 0..Len(loop.batch)
    BY <2>1, <2>2, <2>3, Offsets
  <2>5. \A i \in 1..Len(loop.todo) :
           /\ Picked + i \in 1..Len(loop.batch) /\ Picked + 1 <= Picked + i
           /\ Picked + 1 \in 1..Len(loop.batch)
    BY <2>1, <2>2, <2>3, Offsets
  <2> QED
    BY <2>1, <2>4, <2>5, <2>6, <2>7
<1>4. heard \in Seq(Items)
  BY <1>3, Parts, ResultsTyped
<1> HIDE DEF heard
<1>5. loop' = NoLoop /\ LoopShape' /\ Batch' /\ Picks' /\ loop' \in Loop
  BY <1>1, NoLoopHolds DEF EndAttempt
<1>6. /\ run' \in [status: Statuses, epoch: Epochs, turns: Turns,
                   blocked: Keys \cup {NoKey}, retries: 0..MaxRetries, approvals: ApprovalSets]
      /\ run'.status = "waiting" /\ run'.epoch = run.epoch
      /\ run'.approvals = run.approvals /\ run'.turns = run.turns
      /\ run'.retries = run.retries
  BY <1>1 DEF EndAttempt, TypeOK, Statuses
<1>7. saved' \in Saved
  <2>1. <<NextCall>> \in Seq(Calls) /\ loop.origin \in Epochs \X Turns
    BY <1>2, Parts
  <2> QED
    BY <1>1, <1>2, <1>4, <2>1 DEF Saved
<1>8. TypeOK'
  BY <1>1, <1>5, <1>6, <1>7 DEF TypeOK, world
<1>9. AnswersFirst' /\ Future' /\ Current' /\ ManualOnce' /\ Budget' /\ ApprovedFirst'
  BY <1>1, <1>6, OperationsKept, BudgetKept, ApprovalsKept DEF world, SameTools
<1>10. Segment'
  BY <1>6 DEF Segment, InSegment
<1>11. Pause'
  <2>1. /\ saved'.pending = <<NextCall>> /\ saved'.rest = Tail(loop.todo)
        /\ saved'.origin = loop.origin
    BY <1>1
  <2>2. loop.origin[1] <= run.epoch
    <3>1. run.epoch \in Nat /\ loop.origin[1] \in Nat
      BY <1>1, <1>2, IdentityFacts, Numbers
    <3>2. loop.origin[1] = run.epoch \/ loop.origin[1] < run.epoch
      BY <1>1, <1>2, IdentityFacts
    <3> QED
      BY <3>1, <3>2
  <2>3. Distinct(loop.todo)
    <3> SUFFICES ASSUME NEW i \in DOMAIN loop.todo, NEW j \in DOMAIN loop.todo,
                        loop.todo[i] = loop.todo[j]
                 PROVE  i = j
      BY DEF Distinct
    <3>1. Picked + i = Picked + j
      BY <1>2, <1>3 DEF Distinct
    <3> QED
      BY <1>2, <1>3, <3>1
  <2>4. \A c \in Elems(loop.todo) : executed[Identity(c)] = 0
    <3> SUFFICES ASSUME NEW i \in DOMAIN loop.todo
                 PROVE  executed[Identity(loop.todo[i])] = 0
      BY DEF Elems
    <3>1. 1 \in DOMAIN loop.todo /\ loop.todo[i] \in Calls
      BY <1>1, <1>2
    <3>2. NextCall = loop.batch[Picked + 1]
      BY <1>2, <1>3, <3>1
    <3>3. ops[CallKey(loop.todo[i])].status = "none"
      BY <1>1, <1>2, <1>3, <3>2 DEF Gated, NeedsApproval, CallKey
    <3>4. ~(executed[Identity(loop.todo[i])] > 0)
      BY <1>1, <1>3, <3>3, BatchFacts DEF Elems
    <3>5. executed[Identity(loop.todo[i])] \in Nat
      BY <1>1, <3>1, IdentityFacts DEF TypeOK
    <3> QED
      BY <3>4, <3>5
  <2>5. \A c : Origin(c)' = Identity(c)
    BY <2>1 DEF Origin, Identity
  <2> QED
    BY <1>1, <1>2, <1>6, <2>1, <2>2, <2>3, <2>4, <2>5 DEF Pause, world
<1> QED
  BY <1>5, <1>8, <1>9, <1>10, <1>11

\* Nothing but an abort reaches the loop while it is at work.
LEMMA LoopKept ==
  ASSUME IInv, UNCHANGED <<ops, executed, allowed, saved>>,
         run'.epoch = run.epoch /\ run'.approvals = run.approvals,
         loop' = loop \/ loop' = [loop EXCEPT !.aborted = TRUE],
         loop.phase # "none" => \/ run'.status = run.status
                                \/ run'.status = "cancelled" /\ loop'.aborted
  PROVE  loop' \in Loop /\ LoopShape' /\ Batch' /\ Picks'
<1> USE DEF IInv
<1>1. /\ loop' \in Loop /\ loop'.phase = loop.phase /\ (loop.aborted => loop'.aborted)
      /\ loop'.turn = loop.turn /\ loop'.boundary = loop.boundary /\ loop'.batch = loop.batch
      /\ loop'.todo = loop.todo /\ loop'.granted = loop.granted /\ loop'.origin = loop.origin
      /\ loop'.begun = loop.begun /\ loop'.carried = loop.carried
  BY ZenonT(40) DEF TypeOK, Loop
<1>2. LoopShape'
  BY <1>1 DEF LoopShape
<1>3. Batch'
  <2>1. SegmentCalls' = SegmentCalls /\ SegmentGranted' = SegmentGranted
    BY DEF SegmentCalls, SegmentGranted
  <2> QED
    BY <1>1, <2>1 DEF Batch
<1>4. Picks'
  <2>1. InFlight' = InFlight
    BY <1>1 DEF InFlight
  <2>2. /\ \A d : NeedsApproval(d)' = NeedsApproval(d)
        /\ \A d : Identity(d)' = Identity(d) /\ CallKey(d)' = CallKey(d)
        /\ Picked' = Picked
    BY <1>1 DEF NeedsApproval, Identity, CallKey, Picked
  <2> QED
    BY <1>1, <2>1, <2>2 DEF Picks
<1> QED
  BY <1>1, <1>2, <1>3, <1>4

\* A steering request is kept in the inbox.
LEMMA SteerStep ==
  ASSUME IInv, NEW m \in Inputs, steer(m)
  PROVE  IInv'
<1> USE DEF IInv
<1>1. /\ inbox' = [inbox EXCEPT !.pending = Append(@, m)]
      /\ accepted' = accepted \cup {m}
      /\ UNCHANGED <<run, ops, checkpoints, saved, loop, up, restarts, executed, asked, allowed>>
  BY DEF steer
<1>2. TypeOK'
  <2>1. Append(inbox.pending, m) \in Seq(Inputs)
    BY DEF TypeOK
  <2>2. inbox' \in [pending: Seq(Inputs), closed: BOOLEAN]
    BY <1>1, <2>1 DEF TypeOK
  <2> QED
    BY <1>1, <2>2 DEF TypeOK, world
<1>3. LoopShape' /\ Batch' /\ Picks'
  BY <1>1, LoopKept DEF world
<1>4. /\ AnswersFirst' /\ Future' /\ Current' /\ ManualOnce'
      /\ Segment' /\ Pause' /\ Budget' /\ ApprovedFirst'
  BY <1>1, QuietStep DEF InSegment, world
<1> QED
  BY <1>2, <1>3, <1>4

\* cancel() aborts the attempt, whose steps are then over.
LEMMA CancelStep == ASSUME IInv, cancel PROVE IInv'
<1> USE DEF IInv
<1>1. /\ run' = [run EXCEPT !.status = "cancelled"]
      /\ loop' = loop \/ loop' = [loop EXCEPT !.aborted = TRUE]
      /\ loop.phase # "none" => loop' = [loop EXCEPT !.aborted = TRUE]
      /\ UNCHANGED <<ops, inbox, checkpoints, saved, up, restarts, world>>
  BY DEF cancel
<1>2. /\ run' \in [status: Statuses, epoch: Epochs, turns: Turns,
                   blocked: Keys \cup {NoKey}, retries: 0..MaxRetries, approvals: ApprovalSets]
      /\ run'.status = "cancelled" /\ run'.epoch = run.epoch
      /\ run'.approvals = run.approvals /\ run'.turns = run.turns
      /\ run'.retries = run.retries
  BY <1>1 DEF TypeOK, Statuses, Settled
<1>3. loop.phase # "none" => loop'.aborted
  BY <1>1 DEF TypeOK, Loop
<1>4. loop' \in Loop /\ LoopShape' /\ Batch' /\ Picks'
  BY <1>1, <1>2, <1>3, LoopKept DEF world
<1>5. TypeOK'
  BY <1>1, <1>2, <1>4 DEF TypeOK, world
<1>6. /\ AnswersFirst' /\ Future' /\ Current' /\ ManualOnce'
      /\ Segment' /\ Pause' /\ Budget' /\ ApprovedFirst'
  BY <1>1, <1>2, QuietStep DEF InSegment, world
<1> QED
  BY <1>4, <1>5, <1>6

\* The runtime goes or comes: the journal stays as it is.
LEMMA RestartStep ==
  ASSUME IInv, close \/ Crash \/ open
  PROVE  IInv'
<1> USE DEF IInv
<1>1. /\ loop' = loop \/ loop' = [loop EXCEPT !.aborted = TRUE] \/ loop' = NoLoop
      /\ up' \in BOOLEAN /\ restarts' \in 0..MaxRestarts
      /\ UNCHANGED <<journal, world>>
  <2>1. restarts < MaxRestarts => restarts + 1 \in 0..MaxRestarts
    BY ExecutionAssumption DEF TypeOK
  <2>2. restarts \in 0..MaxRestarts
    BY DEF TypeOK
  <2> HIDE DEF IInv
  <2> QED
    BY <2>1, <2>2 DEF close, Crash, open
<1>2. loop' \in Loop /\ LoopShape' /\ Batch' /\ Picks'
  BY <1>1, LoopKept, NoLoopHolds DEF world, journal
<1>3. TypeOK'
  BY <1>1, <1>2 DEF TypeOK, world, journal
<1>4. /\ AnswersFirst' /\ Future' /\ Current' /\ ManualOnce'
      /\ Segment' /\ Pause' /\ Budget' /\ ApprovedFirst'
  BY <1>1, QuietStep DEF InSegment, world, journal
<1> QED
  BY <1>2, <1>3, <1>4

\* An explicit retry allows the attempts of one more round.
LEMMA OneMoreRound ==
  ASSUME NEW m \in Nat, NEW r \in Nat
  PROVE  m * r \in Nat /\ m * (r + 1) = m * r + m
OBVIOUS

\* The result an operator gives completes the operation the run is blocked on.
LEMMA ResolveToolStep == ASSUME IInv, resolveTool PROVE IInv'
<1> USE DEF IInv
<1> DEFINE key == run.blocked
<1>1. /\ run.status = "needs_attention" /\ key \in ToolKeys /\ ops[key].status = "started"
      /\ run.retries < MaxRetries
      /\ ops' = [ops EXCEPT ![key].status = "completed", ![key].value = -1]
      /\ run' = [run EXCEPT !.status = "pending", !.blocked = NoKey, !.retries = @ + 1]
      /\ UNCHANGED <<inbox, checkpoints, saved, loop, up, restarts, world>>
      /\ loop.phase = "none"
  BY DEF resolveTool, LoopShape
<1>2. key \in Keys /\ ops[key] \in Op
  BY <1>1, KeysTyped, Parts
<1> HIDE DEF key
<1>3. /\ ops'[key] = [ops[key] EXCEPT !.status = "completed", !.value = -1]
      /\ \A k \in Keys \ {key} : ops'[k] = ops[k]
      /\ ops' \in [Keys -> Op] /\ ops'[key].status = "completed"
  <2>1. [ops[key] EXCEPT !.status = "completed", !.value = -1] \in Op
    BY <1>2 DEF Op, Values
  <2>2. ops' = [ops EXCEPT ![key] = [ops[key] EXCEPT !.status = "completed", !.value = -1]]
    BY <1>1, <1>2 DEF TypeOK
  <2> QED
    BY <1>2, <2>1, <2>2 DEF TypeOK, Op
<1>4. run.retries + 1 \in 0..MaxRetries
  BY SMTT(20), <1>1, Parts, ExecutionAssumption
<1>5. /\ run' \in [status: Statuses, epoch: Epochs, turns: Turns,
                   blocked: Keys \cup {NoKey}, retries: 0..MaxRetries, approvals: ApprovalSets]
      /\ run'.status = "pending" /\ run'.epoch = run.epoch
      /\ run'.approvals = run.approvals /\ run'.turns = run.turns
      /\ run'.retries = run.retries + 1
  BY <1>1, <1>4 DEF TypeOK, Statuses, Runnable
<1>6. TypeOK'
  BY <1>1, <1>3, <1>5 DEF TypeOK, world
<1>7. SameTools /\ \A k \in ModelKeys : ops'[k] = ops[k]
  BY <1>1, <1>3, KeysTyped DEF SameTools
<1>8. AnswersFirst' /\ Future' /\ Current' /\ ManualOnce'
  BY <1>1, <1>5, <1>7, OperationsKept DEF world
<1>10. Segment' /\ Pause' /\ ApprovedFirst'
  BY <1>1, <1>5, <1>7, SegmentKept, PauseKept, ApprovalsKept DEF world, InSegment
<1>11. Budget'
  <2>1. Taken' = Taken
    BY <1>7 DEF Taken
  <2>2. \A k \in ModelKeys : asked[k] <= ops[k].attempts + MaxAttempts * (run.retries + 1)
    <3> TAKE k \in ModelKeys
    <3>1. asked[k] \in Nat /\ ops[k].attempts \in Nat
      BY KeysTyped, Parts DEF TypeOK, Op
    <3>2. asked[k] <= ops[k].attempts + MaxAttempts * run.retries
      BY DEF Budget
    <3>3. MaxAttempts \in Nat /\ run.retries \in Nat
      BY Parts, ExecutionAssumption
    <3>4. MaxAttempts * run.retries \in Nat
          /\ MaxAttempts * (run.retries + 1) = MaxAttempts * run.retries + MaxAttempts
      BY <3>3, OneMoreRound
    <3> HIDE DEF IInv
    <3> QED
      BY <3>1, <3>2, <3>3, <3>4
  <2> QED
    BY <1>1, <1>5, <1>7, <2>1, <2>2 DEF Budget, world
<1> QED
  BY <1>1, <1>6, <1>8, <1>10, <1>11 DEF LoopShape, Batch, Picks

\* An explicit retry gives the started model turns their attempts again.
LEMMA RetryStep == ASSUME IInv, retry PROVE IInv'
<1> USE DEF IInv
<1>1. /\ run.status \in {"failed", "needs_attention"} /\ loop.phase = "none"
      /\ run.retries < MaxRetries
      /\ run' = [run EXCEPT !.status = "pending", !.blocked = NoKey, !.retries = @ + 1]
      /\ UNCHANGED <<inbox, checkpoints, saved, loop, up, restarts, world>>
      /\ ops' = [k \in Keys |-> IF k \in ModelKeys /\ ops[k].status = "started"
                                  THEN [ops[k] EXCEPT !.attempts = 0] ELSE ops[k]]
  BY DEF retry
<1>2. \A k \in Keys :
         /\ ops'[k] \in Op /\ ops'[k].status = ops[k].status /\ ops'[k].answer = ops[k].answer
         /\ ops'[k].attempts = 0 \/ ops'[k].attempts = ops[k].attempts
  <2> TAKE k \in Keys
  <2>1. ops[k] \in Op
    BY Parts
  <2>2. [ops[k] EXCEPT !.attempts = 0] \in Op
    BY <2>1 DEF Op
  <2>3. ops'[k] = ops[k] \/ ops'[k] = [ops[k] EXCEPT !.attempts = 0]
    BY <1>1
  <2> QED
    BY <2>1, <2>2, <2>3 DEF Op
<1>3. run.retries + 1 \in 0..MaxRetries
  <2>1. run.retries \in 0..MaxRetries /\ MaxRetries \in Nat /\ run.retries < MaxRetries
    BY <1>1, Parts, ExecutionAssumption
  <2> HIDE DEF IInv
  <2> QED
    BY <2>1
<1>4. /\ run' \in [status: Statuses, epoch: Epochs, turns: Turns,
                   blocked: Keys \cup {NoKey}, retries: 0..MaxRetries, approvals: ApprovalSets]
      /\ run'.status = "pending" /\ run'.epoch = run.epoch
      /\ run'.approvals = run.approvals /\ run'.turns = run.turns
      /\ run'.retries = run.retries + 1
  BY <1>1, <1>3 DEF TypeOK, Statuses, Runnable
<1>5. TypeOK'
  <2>1. ops' \in [Keys -> Op]
    BY <1>1, <1>2
  <2> QED
    BY <1>1, <1>4, <2>1 DEF TypeOK, world
<1>6. SameTools
  BY <1>2, KeysTyped DEF SameTools
<1>7. AnswersFirst' /\ Future' /\ Current' /\ ManualOnce'
  BY <1>1, <1>2, <1>4, <1>6, KeysTyped, OperationsKept DEF world
<1>8. Segment' /\ Pause' /\ ApprovedFirst'
  BY <1>1, <1>4, <1>6, SegmentKept, PauseKept, ApprovalsKept DEF world, InSegment
<1>9. Budget'
  <2>1. Taken' = Taken
    BY <1>2, KeysTyped DEF Taken
  <2>2. \A k \in ModelKeys :
           /\ ops'[k].attempts <= MaxAttempts
           /\ asked[k] <= ops'[k].attempts + MaxAttempts * (run.retries + 1)
    <3> TAKE k \in ModelKeys
    <3>1. asked[k] \in Nat /\ ops[k].attempts \in Nat
      BY KeysTyped, Parts DEF TypeOK, Op
    <3>2. /\ ops[k].attempts <= MaxAttempts
          /\ asked[k] <= ops[k].attempts + MaxAttempts * run.retries
      BY DEF Budget
    <3>3. MaxAttempts \in Nat /\ run.retries \in Nat
      BY Parts, ExecutionAssumption
    <3>4. MaxAttempts * run.retries \in Nat
          /\ MaxAttempts * (run.retries + 1) = MaxAttempts * run.retries + MaxAttempts
      BY <3>3, OneMoreRound
    <3>5. ops'[k].attempts = 0 \/ ops'[k].attempts = ops[k].attempts
      BY <1>2, KeysTyped
    <3> HIDE DEF IInv
    <3> QED
      BY <3>1, <3>2, <3>3, <3>4, <3>5
  <2> QED
    BY <1>1, <1>4, <2>1, <2>2 DEF Budget, world
<1> QED
  BY <1>1, <1>5, <1>7, <1>8, <1>9 DEF LoopShape, Batch, Picks

\* A call after the pending one keeps its place behind it.
LEMMA Shifted ==
  ASSUME NEW s \in Seq(Calls), NEW r \in Seq(Calls), Len(s) = 1
  PROVE  \A i \in DOMAIN r : /\ i \in Nat /\ 1 + i \in DOMAIN (s \o r)
                             /\ r[i] = (s \o r)[1 + i]
<1>1. /\ Len(s \o r) = 1 + Len(r) /\ s \o r \in Seq(Calls) /\ Len(r) \in Nat
      /\ \A k \in 1..(1 + Len(r)) : (s \o r)[k] = IF k <= 1 THEN s[k] ELSE r[k - 1]
  BY SMTT(20), ConcatProperties
<1> TAKE i \in DOMAIN r
<1>2. i \in 1..Len(r) /\ 1 + i \in 1..(1 + Len(r)) /\ (1 + i) - 1 = i /\ ~(1 + i <= 1)
  BY <1>1
<1> QED
  BY <1>1, <1>2

\* The decision of a person begins an epoch in which nothing has an operation yet.
LEMMA RespondStep ==
  ASSUME IInv, NEW approved \in BOOLEAN, respond(approved)
  PROVE  IInv'
<1> USE DEF IInv
<1> DEFINE pending == saved.pending
           calls == IF approved THEN pending \o saved.rest ELSE saved.rest
           call == ToolKey(saved.origin[1], saved.origin[2], Head(pending))
<1>1. /\ run.status = "waiting" /\ run.epoch < MaxResponses
      /\ run' = [run EXCEPT !.status = "pending", !.epoch = @ + 1]
      /\ saved' = [saved EXCEPT !.approved = approved]
      /\ allowed' = IF approved THEN allowed \cup {call} ELSE allowed
      /\ UNCHANGED <<ops, inbox, checkpoints, loop, up, restarts, executed, asked,
                     accepted>>
      /\ loop.phase = "none"
  BY DEF respond, LoopShape
<1>2. /\ Len(pending) = 1 /\ saved.origin[1] <= run.epoch
      /\ Distinct(pending \o saved.rest)
      /\ \A c \in Elems(pending \o saved.rest) : executed[Origin(c)] = 0
      /\ pending \in Seq(Calls) /\ saved.rest \in Seq(Calls) /\ Head(pending) \in Calls
      /\ saved.origin[1] \in Epochs /\ saved.origin[2] \in Turns
  BY <1>1, SegmentTyped, Parts DEF Pause
<1>3. run.epoch \in Nat /\ run.epoch + 1 \in Epochs /\ saved.origin[1] \in Nat
      /\ 0 \in Turns /\ \A e \in Epochs : e \in Nat
  <2>1. run.epoch \in Nat /\ saved.origin[1] \in Nat /\ MaxResponses \in Nat
        /\ run.epoch < MaxResponses
    BY <1>1, <1>2, Parts, Numbers
  <2> QED
    BY <2>1, Numbers DEF Epochs
<1>4. call \in ToolKeys /\ call = Origin(Head(pending))
  BY <1>2, KeysTyped DEF Origin
<1> HIDE DEF call
<1>5. /\ run' \in [status: Statuses, epoch: Epochs, turns: Turns,
                   blocked: Keys \cup {NoKey}, retries: 0..MaxRetries, approvals: ApprovalSets]
      /\ run'.status = "pending" /\ run'.epoch = run.epoch + 1
      /\ run'.approvals = run.approvals /\ run'.turns = run.turns
      /\ run'.retries = run.retries
  BY <1>1, <1>3 DEF TypeOK, Statuses, Runnable
<1>6. /\ saved' \in Saved /\ saved'.pending = pending /\ saved'.rest = saved.rest
      /\ saved'.origin = saved.origin /\ saved'.approved = approved
  BY <1>1 DEF TypeOK, Saved
<1>7. TypeOK'
  BY <1>1, <1>4, <1>5, <1>6 DEF TypeOK
<1>8. /\ \A t \in Turns, c \in Calls : /\ ops[ToolKey(run.epoch + 1, t, c)].status = "none"
                                       /\ executed[ToolKey(run.epoch + 1, t, c)] = 0
      /\ \A e \in Epochs : e > run.epoch + 1 => e > run.epoch
  BY <1>3 DEF Future
<1>9. AnswersFirst' /\ Future' /\ Current' /\ ManualOnce'
  <2>1. Future'
    BY <1>1, <1>5, <1>8 DEF Future
  <2>2. Current'
    BY <1>1, <1>5, <1>8 DEF Current
  <2> QED
    BY <1>1, <2>1, <2>2 DEF AnswersFirst, Gated, ManualOnce
<1>10. Pause' /\ Budget' /\ ApprovedFirst'
  <2>1. allowed \subseteq allowed'
    BY <1>1
  <2> QED
    BY <1>1, <1>5, <2>1, BudgetKept, ApprovalsKept DEF Pause
<1>11. Segment'
  <2>1. /\ SegmentCalls' = calls
        /\ SegmentGranted' = (IF approved THEN {Head(pending)} ELSE {})
        /\ \A c : Origin(c)' = Origin(c)
    BY <1>6 DEF SegmentCalls, SegmentGranted, Origin
  <2>2. calls \in Seq(Calls) /\ Distinct(calls) /\ Elems(calls) \subseteq Elems(pending \o saved.rest)
    <3>1. CASE approved
      BY <1>2, <3>1
    <3>2. CASE ~approved
      <4>1. /\ \A i \in DOMAIN saved.rest : /\ 1 + i \in DOMAIN (pending \o saved.rest)
                                            /\ saved.rest[i] = (pending \o saved.rest)[1 + i]
            /\ \A i \in DOMAIN saved.rest : i \in Nat
        BY <1>2, Shifted
      <4>2. Distinct(saved.rest)
        <5> SUFFICES ASSUME NEW i \in DOMAIN saved.rest, NEW j \in DOMAIN saved.rest,
                            saved.rest[i] = saved.rest[j]
                     PROVE  i = j
          BY DEF Distinct
        <5>1. (pending \o saved.rest)[1 + i] = (pending \o saved.rest)[1 + j]
          BY <4>1
        <5>2. 1 + i = 1 + j
          BY <1>2, <4>1, <5>1 DEF Distinct
        <5> QED
          BY <4>1, <5>2
      <4>3. Elems(saved.rest) \subseteq Elems(pending \o saved.rest)
        BY <4>1 DEF Elems
      <4> QED
        BY <1>2, <3>2, <4>2, <4>3
    <3> QED
      BY <3>1, <3>2
  <2> HIDE DEF calls
  <2>3. \A i \in DOMAIN calls : calls[i] \in Calls
    BY <2>2
  <2>4. Gated(SegmentCalls, SegmentGranted, run.epoch, 0)'
    BY <1>1, <1>3, <1>5, <1>8, <2>1, <2>3 DEF Gated
  <2>5. \A c \in Elems(calls) : executed'[Origin(c)] = 0
    BY <1>1, <1>2, <2>2
  <2>6. approved => Origin(Head(pending)) \in allowed'
    BY <1>1, <1>4
  <2>7. saved.origin[1] < run.epoch + 1
    BY <1>2, <1>3
  <2> QED
    BY <1>2, <1>5, <1>6, <2>1, <2>2, <2>4, <2>5, <2>6, <2>7 DEF Segment
<1> QED
  BY <1>1, <1>7, <1>9, <1>10, <1>11 DEF LoopShape, Batch, Picks

\* A stuttering step keeps the invariant.
LEMMA StutterStep == ASSUME IInv, UNCHANGED vars PROVE IInv'
<1> USE DEF IInv
<1>1. UNCHANGED <<run, ops, inbox, checkpoints, saved, loop, up, restarts, world>>
  BY DEF vars, world
<1>2. TypeOK'
  BY <1>1 DEF TypeOK, world
<1>3. LoopShape' /\ Batch' /\ Picks'
  BY <1>1, LoopKept DEF world
<1>4. /\ AnswersFirst' /\ Future' /\ Current' /\ ManualOnce'
      /\ Segment' /\ Pause' /\ Budget' /\ ApprovedFirst'
  BY <1>1, QuietStep DEF InSegment, world
<1> QED
  BY <1>2, <1>3, <1>4

\* The invariant holds of a run that was just admitted.
LEMMA InitHolds == Init => IInv
<1> SUFFICES ASSUME Init PROVE IInv
  OBVIOUS
<1>0. PICK approvals \in ApprovalSets :
         run = [status |-> "queued", epoch |-> 0, turns |-> 0, blocked |-> NoKey, retries |-> 0,
                approvals |-> approvals]
  BY DEF Init
<1>1. /\ run = [status |-> "queued", epoch |-> 0, turns |-> 0, blocked |-> NoKey, retries |-> 0,
                approvals |-> approvals]
      /\ approvals \in ApprovalSets /\ accepted = {}
      /\ ops = [k \in Keys |-> NoOp] /\ loop = NoLoop /\ saved = Fresh
      /\ executed = [k \in ToolKeys |-> 0] /\ asked = [k \in ModelKeys |-> 0]
  BY <1>0 DEF Init
<1>2. TypeOK
  <2>1. NoOp \in Op
    <3>1. <<>> \in Seq(Items)
      OBVIOUS
    <3> QED
      BY <3>1 DEF NoOp, Op, Values
  <2>2. Fresh \in Saved
    <3>1. <<>> \in Seq(Items) /\ <<>> \in Seq(Calls) /\ <<0, 0>> \in Epochs \X Turns
      BY Numbers
    <3> QED
      BY <3>1 DEF Fresh, Saved
  <2>3. NoLoop \in Loop
    <3>1. <<>> \in Seq(Items) /\ <<>> \in Seq(Calls) /\ <<0, 0>> \in Epochs \X Turns /\ 0 \in Turns
      BY Numbers
    <3> QED
      BY <3>1 DEF NoLoop, Loop, Phases
  <2>4. /\ run \in [status: Statuses, epoch: Epochs, turns: Turns,
                    blocked: Keys \cup {NoKey}, retries: 0..MaxRetries, approvals: ApprovalSets]
        /\ restarts \in 0..MaxRestarts /\ up \in BOOLEAN
    <3>1. 0 \in 0..MaxRetries /\ 0 \in 0..MaxRestarts
      BY ExecutionAssumption
    <3> QED
      BY <1>1, <3>1, Numbers DEF Init, Statuses, Runnable
  <2>5. /\ inbox \in [pending: Seq(Inputs), closed: BOOLEAN]
        /\ DOMAIN checkpoints \subseteq Epochs \X Turns
        /\ \A b \in DOMAIN checkpoints : checkpoints[b] \in Seq(Inputs)
    <3>1. <<>> \in Seq(Inputs) /\ DOMAIN <<>> = {}
      OBVIOUS
    <3>2. inbox = [pending |-> <<>>, closed |-> FALSE] /\ checkpoints = <<>>
      BY DEF Init
    <3> QED
      BY <3>1, <3>2
  <2>6. /\ executed \in [ToolKeys -> Nat] /\ asked \in [ModelKeys -> Nat]
        /\ ops \in [Keys -> Op] /\ allowed \subseteq ToolKeys
    BY <1>1, <2>1 DEF Init
  <2> QED
    BY <1>1, <2>2, <2>3, <2>4, <2>5, <2>6 DEF TypeOK
<1>3. \A k \in Keys : ops[k].status = "none" /\ ops[k].attempts = 0
  BY <1>1 DEF NoOp
<1>4. LoopShape /\ Batch /\ Picks
  BY <1>1 DEF NoLoop, LoopShape, Batch, Picks
<1>5. AnswersFirst /\ Future /\ Current
  <2>1. \A e \in Epochs, t \in Turns, c \in Calls : /\ ops[ToolKey(e, t, c)].status = "none"
                                                    /\ executed[ToolKey(e, t, c)] = 0
    BY <1>1, <1>3, KeysTyped
  <2>2. \A e \in Epochs, t \in Turns \ {0} : ops[ModelKey(e, t)].status = "none"
    BY <1>3, KeysTyped
  <2>3. run.epoch \in Epochs
    BY <1>2, Parts
  <2> QED
    BY <2>1, <2>2, <2>3 DEF AnswersFirst, Future, Current
<1>6. Segment /\ Pause
  BY <1>1 DEF Segment, Pause, InSegment
<1>7. Budget
  <2>1. Taken = {}
    BY <1>3, KeysTyped DEF Taken
  <2>2. MaxAttempts * 0 = 0 /\ MaxAttempts \in Nat
    BY ExecutionAssumption
  <2>3. run.turns = 0 /\ run.retries = 0 /\ \A k \in ModelKeys : asked[k] = 0
    BY <1>1
  <2> QED
    BY <1>3, <2>1, <2>2, <2>3, FS_EmptySet, KeysTyped DEF Budget
<1>8. ManualOnce /\ ApprovedFirst
  <2>1. \A e \in Epochs, t \in Turns, c \in Calls : executed[<<e, t, c>>] = 0
    BY <1>1 DEF ToolKeys
  <2>2. \A c \in run.approvals : c \in Calls
    BY <1>1, ExecutionAssumption
  <2> QED
    BY <2>1, <2>2 DEF ManualOnce, ApprovedFirst
<1> QED
  BY <1>2, <1>4, <1>5, <1>6, <1>7, <1>8 DEF IInv

\* Every step keeps the invariant.
LEMMA NextHolds == IInv /\ [Next]_vars => IInv'
<1> SUFFICES ASSUME IInv, [Next]_vars PROVE IInv'
  OBVIOUS
<1>1. CASE Agent
  <2>1. ASSUME NEW c \in Calls, CarryOut(c) \/ Record(c) \/ RecordFails(c) PROVE IInv'
    BY <2>1, CarryOutStep, RecordStep, RecordFailsStep
  <2> QED
    BY <1>1, <2>1, StartStep, DrainStep, StartModelStep, BeginAttemptStep, AnswerStep,
       ModelFailsStep, PickCallStep, SuspendStep, EndBatchStep, FinishStep, AbandonStep DEF Agent
<1>2. CASE Host
  BY <1>2, SteerStep, RespondStep, ResolveToolStep, RetryStep, CancelStep, RestartStep DEF Host
<1>3. CASE UNCHANGED vars
  BY <1>3, StutterStep
<1> QED
  BY <1>1, <1>2, <1>3 DEF Next

\* The invariant holds in every reachable state, whatever crashes, shut-downs, retries and
\* decisions interrupt the attempts of the run.
THEOREM Inductive == Spec => []IInv
BY InitHolds, NextHolds, PTL DEF Spec

-----------------------------------------------------------------------------
(* Theorems.                                                                *)

\* Every variable keeps its type: a turn never leaves the budget of the run, and what an
\* attempt blocks on is an operation of the run.
THEOREM TypeCorrect == Spec => []TypeOK
<1>1. IInv => TypeOK
  BY DEF IInv
<1> QED
  BY <1>1, Inductive, PTL

\* A manual tool call is carried out at most once.
THEOREM ManualCallsOnce == Spec => []ManualOnce
<1>1. IInv => ManualOnce
  BY DEF IInv
<1> QED
  BY <1>1, Inductive, PTL

\* No call that needs an approval is carried out before a person approved that very call.
THEOREM ApprovedCallsOnly == Spec => []ApprovedFirst
<1>1. IInv => ApprovedFirst
  BY DEF IInv
<1> QED
  BY <1>1, Inductive, PTL

\* The journal never holds more model turns than the run counts, and the provider is called
\* within the attempts of its turn, one round for every explicit retry.
THEOREM BudgetsHold == Spec => []BudgetsKept
<1>1. IInv => BudgetsKept
  <2> SUFFICES ASSUME IInv PROVE BudgetsKept
    OBVIOUS
  <2>1. run.turns = Cardinality({k \in ModelKeys : ops[k].status # "none"})
    BY DEF IInv, Budget, Taken
  <2>2. \A k \in ModelKeys : asked[k] <= MaxAttempts * (run.retries + 1)
    <3> TAKE k \in ModelKeys
    <3>1. asked[k] \in Nat /\ ops[k].attempts \in Nat /\ run.retries \in Nat
      BY KeysTyped, Parts, ExecutionAssumption DEF IInv, TypeOK, Op
    <3>2. /\ ops[k].attempts <= MaxAttempts
          /\ asked[k] <= ops[k].attempts + MaxAttempts * run.retries
      BY DEF IInv, Budget
    <3>3. MaxAttempts \in Nat /\ MaxAttempts * run.retries \in Nat
          /\ MaxAttempts * (run.retries + 1) = MaxAttempts * run.retries + MaxAttempts
      BY <3>1, OneMoreRound, ExecutionAssumption
    <3> QED
      BY <3>1, <3>2, <3>3
  <2> QED
    BY <2>1, <2>2 DEF BudgetsKept
<1> QED
  BY <1>1, Inductive, PTL

\* An operation that has its result is never carried out again and its result never changes:
\* only operations that were started are written.
LEMMA CompletedStep ==
  ASSUME IInv, [Next]_vars
  PROVE  \A k \in Keys : ops[k].status = "completed" => ops'[k] = ops[k]
<1> SUFFICES ASSUME NEW k \in Keys, ops[k].status = "completed" PROVE ops'[k] = ops[k]
  OBVIOUS
<1> USE DEF IInv
<1>0. ops \in [Keys -> Op] /\ run.epoch \in Epochs /\ loop.turn \in Turns
  BY Parts DEF TypeOK
<1>1. CASE StartModel
  <2> DEFINE key == ModelKey(run.epoch, loop.turn + 1)
  <2>1. CASE ops' = ops
    BY <2>1
  <2>2. CASE ops' # ops
    <3>1. /\ ~Spent /\ (loop.turn + 1 <= MaxModelTurns => ops[key].status = "none")
          /\ ops' = [ops EXCEPT ![key].status = "started", ![key].input = loop.heard]
      BY <1>1, <2>2 DEF StartModel
    <3>2. loop.turn + 1 <= MaxModelTurns
      <4>1. run.turns \in Nat /\ loop.turn \in Nat /\ MaxModelTurns \in Nat
        BY Parts, Numbers
      <4>2. loop.turn <= run.turns
        BY <1>1, TurnsTaken DEF StartModel, At
      <4> HIDE DEF IInv
      <4> QED
        BY <3>1, <4>1, <4>2 DEF Spent
    <3>3. k # key
      BY <3>1, <3>2
    <3> HIDE DEF key
    <3> QED
      BY <1>0, <3>1, <3>3
  <2> QED
    BY <2>1, <2>2
<1>2. CASE BeginAttempt
  <2> DEFINE key == ModelKey(run.epoch, loop.turn)
  <2>1. ops[key].status = "started"
    BY <1>2 DEF BeginAttempt, At, LoopShape
  <2>2. ops' = ops \/ ops' = [ops EXCEPT ![key].attempts = @ + 1]
    BY <1>2 DEF BeginAttempt
  <2>3. k # key
    BY <2>1
  <2> HIDE DEF key
  <2> QED
    BY <1>0, <2>2, <2>3
<1>3. ASSUME NEW a \in Answers, Answer(a) PROVE ops'[k] = ops[k]
  <2> DEFINE key == ModelKey(run.epoch, loop.turn)
  <2>1. ops[key].status = "started"
    BY <1>3 DEF Answer, At, LoopShape
  <2>2. ops' = [ops EXCEPT ![key].status = "completed", ![key].answer = a]
    BY <1>3 DEF Answer
  <2>3. k # key
    BY <2>1
  <2> HIDE DEF key
  <2> QED
    BY <1>0, <2>2, <2>3
<1>4. CASE PickCall
  <2> DEFINE key == CallKey(NextCall)
  <2>1. ops' = IF ops[key].status = "none" THEN [ops EXCEPT ![key].status = "started"] ELSE ops
    BY <1>4 DEF PickCall
  <2>2. ops[key].status = "none" => k # key
    OBVIOUS
  <2> HIDE DEF key
  <2> QED
    BY <1>0, <2>1, <2>2
<1>5. ASSUME NEW c \in Calls, Record(c) PROVE ops'[k] = ops[k]
  <2> DEFINE key == CallKey(c)
             value == executed[Identity(c)]
  <2>1. ops[key].status = "started"
    BY <1>5 DEF Record, At, Picks, InFlight
  <2>2. ops' = [ops EXCEPT ![key].status = "completed", ![key].value = value]
    BY <1>5 DEF Record
  <2>3. k # key
    BY <2>1
  <2> HIDE DEF key, value
  <2> QED
    BY <1>0, <2>2, <2>3
<1>6. CASE resolveTool
  <2> DEFINE key == run.blocked
  <2>1. ops[key].status = "started"
        /\ ops' = [ops EXCEPT ![key].status = "completed", ![key].value = -1]
    BY <1>6 DEF resolveTool
  <2>2. k # key
    BY <2>1
  <2> HIDE DEF key
  <2> QED
    BY <1>0, <2>1, <2>2
<1>7. CASE retry
  BY <1>7 DEF retry
<1>8. CASE UNCHANGED ops
  BY <1>8
<1>9. ASSUME NEW c \in Calls, CarryOut(c) \/ Record(c) \/ RecordFails(c) PROVE ops'[k] = ops[k]
  BY <1>5, <1>9 DEF CarryOut, RecordFails
<1>10. CASE Agent
  BY <1>10, <1>1, <1>2, <1>3, <1>4, <1>9
     DEF Agent, Start, Drain, ModelFails, Suspend, EndBatch, Finish, Abandon
<1>11. CASE Host
  BY <1>11, <1>6, <1>7 DEF Host, steer, respond, cancel, close, Crash, open, journal
<1> QED
  BY <1>8, <1>10, <1>11 DEF Next, vars

\* An operation that has its result keeps it, and no call is carried out whose operation has
\* one: start() gives the recorded result back (execution.ts).
THEOREM CompletedForever == Spec => CompletedKept
<1>1. IInv /\ [Next]_vars =>
        [/\ \A k \in Keys : ops[k].status = "completed" => ops'[k] = ops[k]
         /\ \A c \in Calls : c \in loop.begun /\ c \in loop'.carried =>
                                ops[CallKey(c)].status = "started"]_vars
  <2> SUFFICES ASSUME IInv, [Next]_vars
               PROVE  /\ \A k \in Keys : ops[k].status = "completed" => ops'[k] = ops[k]
                      /\ \A c \in Calls : c \in loop.begun /\ c \in loop'.carried =>
                                             ops[CallKey(c)].status = "started"
    OBVIOUS
  <2>1. \A c \in loop.begun : ops[CallKey(c)].status = "started"
    BY DEF IInv, LoopShape, Picks, InFlight
  <2> QED
    BY <2>1, CompletedStep
<1> QED
  BY <1>1, Inductive, PTL DEF Spec, CompletedKept
=============================================================================
