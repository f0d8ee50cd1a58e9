---------------------- MODULE DurableTranscript_proofs ----------------------
(***************************************************************************)
(* What a run says and hears, for every instance of DurableExecution.       *)
(* First, why a new attempt meets the requests that the journal holds       *)
(* (ReplayIsFaithful): everything the loop of an attempt has heard is a     *)
(* function of the journal.  Chain says so of the recorded requests,        *)
(* Follows of the loop at work; both rest on the journal only growing.      *)
(* Then, that the calls of an answer are followed by their results          *)
(* (TranscriptsWhole), and that every accepted steering request is in the   *)
(* transcript of a completed run, once (RequestsHeard): a request is in the *)
(* inbox or behind a boundary (Kept), a kept transcript has the requests of *)
(* all boundaries (Heeded), and no boundary lies behind the one a run ended *)
(* or paused at (Bounded, Continued, Behind).                               *)
(***************************************************************************)
EXTENDS DurableExecution_proofs

-----------------------------------------------------------------------------
(* What the loop has heard, from the journal alone.                         *)

\* The transcript a segment begins with, and the calls it carries out first.
Base == saved.heard \o (IF run.epoch > 0 /\ ~saved.approved
                          THEN <<Result(Head(saved.pending), 0)>> ELSE <<>>)
FirstCalls == IF run.epoch > 0 THEN SegmentCalls ELSE <<>>

Asked(t) == ModelKey(run.epoch, t)
Boundary(t) == <<run.epoch, t>>

\* The calls of a turn, the transcript before and after their results, and with the
\* steering of the boundary behind them.
Given(t) == IF t = 0 THEN FirstCalls ELSE ops[Asked(t)].answer
Before(t) == IF t = 0 THEN Base ELSE Append(ops[Asked(t)].input, Said(ops[Asked(t)].answer))
After(t) == Before(t) \o [i \in DOMAIN Given(t) |->
                            Result(Given(t)[i], ops[ToolKey(run.epoch, t, Given(t)[i])].value)]
Steered(t) == After(t) \o [i \in DOMAIN checkpoints[Boundary(t)] |->
                             Heard(checkpoints[Boundary(t)][i])]

\* The turn has its answer, and its calls have their results.
Whole(t) ==
  /\ t > 0 => ops[Asked(t)].status = "completed"
  /\ \A i \in DOMAIN Given(t) : ops[ToolKey(run.epoch, t, Given(t)[i])].status = "completed"

Alive == run.status \notin {"waiting", "completed", "cancelled"}

\* Every recorded request is the transcript the journal gives for its turn.
Chain ==
  Alive => \A t \in Turns : t + 1 \in Turns /\ ops[Asked(t + 1)].status # "none" =>
             /\ Whole(t) /\ Boundary(t) \in DOMAIN checkpoints
             /\ ops[Asked(t + 1)].input = Steered(t)

\* The calls that were picked are in flight or have their results.
Done ==
  loop.failure = NoKey =>
    \A i \in 1..Picked : \/ loop.batch[i] \in InFlight
                         \/ ops[CallKey(loop.batch[i])].status = "completed"

\* What the loop has heard is the transcript of the journal, too.
Follows ==
  Alive =>
    /\ loop.phase \in {"drain", "closing"} => Whole(loop.turn) /\ loop.heard = After(loop.turn)
    /\ loop.phase = "model" => /\ Whole(loop.turn) /\ Boundary(loop.turn) \in DOMAIN checkpoints
                               /\ loop.heard = Steered(loop.turn)
    /\ loop.phase \in {"begin", "asking"} => loop.heard = ops[Asked(loop.turn)].input
    /\ loop.phase = "tools" =>
         loop.heard = Before(loop.turn) /\ Done

RInv == IInv /\ Chain /\ Follows /\ ReplayFaithful

-----------------------------------------------------------------------------
(* The journal only grows.                                                  *)

Grows ==
  /\ \A k \in Keys : ops[k].status = "completed" => ops'[k] = ops[k]
  /\ \A k \in Keys : ops[k].status # "none" => ops'[k].input = ops[k].input
  /\ \A b \in DOMAIN checkpoints : b \in DOMAIN checkpoints' /\ checkpoints'[b] = checkpoints[b]

\* No step of the run changes a recorded request, a result or a boundary.
LEMMA JournalGrows == IInv /\ [Next]_vars => Grows
<1> SUFFICES ASSUME IInv, [Next]_vars PROVE Grows
  OBVIOUS
<1>0. ops \in [Keys -> Op]
  BY DEF IInv, TypeOK
<1>1. \A k \in Keys : ops[k].status # "none" => ops'[k].input = ops[k].input
  <2> SUFFICES ASSUME NEW k \in Keys, ops[k].status # "none" PROVE ops'[k].input = ops[k].input
    OBVIOUS
  <2>0. ops[k] \in Op
    BY <1>0
  <2>1. CASE StartModel
    <3> DEFINE key == ModelKey(run.epoch, loop.turn + 1)
    <3>1. CASE ops' = ops
      BY <3>1
    <3>2. CASE ops' # ops
      <4>1. /\ ~Spent /\ (loop.turn + 1 <= MaxModelTurns => ops[key].status = "none")
            /\ ops' = [ops EXCEPT ![key].status = "started", ![key].input = loop.heard]
        BY <2>1, <3>2 DEF StartModel
      <4>2. loop.turn + 1 <= MaxModelTurns
        <5>1. run.turns \in Nat /\ loop.turn \in Nat /\ MaxModelTurns \in Nat
          BY Parts, Numbers DEF IInv
        <5>2. loop.turn <= run.turns
          BY <2>1, TurnsTaken DEF StartModel, At
        <5> QED
          BY <4>1, <5>1, <5>2 DEF Spent
      <4>3. k # key
        BY <4>1, <4>2
      <4> HIDE DEF key
      <4> QED
        BY <1>0, <4>1, <4>3
    <3> QED
      BY <3>1, <3>2
  <2>2. CASE BeginAttempt
    <3> DEFINE key == ModelKey(run.epoch, loop.turn)
    <3>1. ops' = ops \/ ops' = [ops EXCEPT ![key].attempts = @ + 1]
      BY <2>2 DEF BeginAttempt
    <3> HIDE DEF key
    <3>2. ops'[k] = ops[k] \/ ops'[k] = [ops[k] EXCEPT !.attempts = @ + 1]
      BY <1>0, <3>1
    <3> QED
      BY <2>0, <3>2 DEF Op
  <2>3. ASSUME NEW a \in Answers, Answer(a) PROVE ops'[k].input = ops[k].input
    <3> DEFINE key == ModelKey(run.epoch, loop.turn)
    <3>1. ops' = [ops EXCEPT ![key].status = "completed", ![key].answer = a]
      BY <2>3 DEF Answer
    <3> HIDE DEF key
    <3> QED
      BY <1>0, <2>0, <3>1 DEF Op
  <2>4. CASE PickCall
    <3> DEFINE key == CallKey(NextCall)
    <3>1. ops' = ops \/ ops' = [ops EXCEPT ![key].status = "started"]
      BY <2>4 DEF PickCall
    <3> HIDE DEF key
    <3>2. ops'[k] = ops[k] \/ ops'[k] = [ops[k] EXCEPT !.status = "started"]
      BY <1>0, <3>1
    <3> QED
      BY <2>0, <3>2 DEF Op
  <2>5. ASSUME NEW c \in Calls, Record(c) PROVE ops'[k].input = ops[k].input
    <3> DEFINE key == CallKey(c)
               value == executed[Identity(c)]
    <3>1. ops' = [ops EXCEPT ![key].status = "completed", ![key].value = value]
      BY <2>5 DEF Record
    <3> HIDE DEF key, value
    <3> QED
      BY <1>0, <2>0, <3>1 DEF Op
  <2>6. CASE resolveTool
    <3> DEFINE key == run.blocked
    <3>1. ops' = [ops EXCEPT ![key].status = "completed", ![key].value = -1]
      BY <2>6 DEF resolveTool
    <3> HIDE DEF key
    <3> QED
      BY <1>0, <2>0, <3>1 DEF Op
  <2>7. CASE retry
    <3>1. ops'[k] = ops[k] \/ ops'[k] = [ops[k] EXCEPT !.attempts = 0]
      BY <2>7 DEF retry
    <3> QED
      BY <2>0, <3>1 DEF Op
  <2>8. CASE UNCHANGED ops
    BY <2>8
  <2>9. ASSUME NEW c \in Calls, CarryOut(c) \/ Record(c) \/ RecordFails(c)
        PROVE  ops'[k].input = ops[k].input
    BY <2>5, <2>9 DEF CarryOut, RecordFails
  <2>10. CASE Agent
    BY <2>10, <2>1, <2>2, <2>3, <2>4, <2>9
       DEF Agent, Start, Drain, ModelFails, Suspend, EndBatch, Finish, Abandon
  <2>11. CASE Host
    BY <2>11, <2>6, <2>7 DEF Host, steer, respond, cancel, close, Crash, open, journal
  <2> QED
    BY <2>8, <2>10, <2>11 DEF Next, vars
<1>2. \A b \in DOMAIN checkpoints : b \in DOMAIN checkpoints' /\ checkpoints'[b] = checkpoints[b]
  <2>1. ASSUME NEW closing \in BOOLEAN, Drain(closing)
        PROVE  \A b \in DOMAIN checkpoints : b \in DOMAIN checkpoints'
                                             /\ checkpoints'[b] = checkpoints[b]
    <3> DEFINE key == <<run.epoch, loop.boundary>>
               entries == IF key \in DOMAIN checkpoints THEN checkpoints[key] ELSE inbox.pending
    <3>1. \/ UNCHANGED checkpoints
          \/ /\ key \notin DOMAIN checkpoints
             /\ checkpoints' = [b \in DOMAIN checkpoints \cup {key} |->
                                  IF b = key THEN entries ELSE checkpoints[b]]
      BY <2>1 DEF Drain
    <3> HIDE DEF key, entries
    <3> QED
      BY <3>1
  <2>2. CASE UNCHANGED checkpoints
    BY <2>2
  <2>3. CASE Agent
    <3>1. ASSUME NEW c \in Calls, CarryOut(c) \/ Record(c) \/ RecordFails(c)
          PROVE  UNCHANGED checkpoints
      BY <3>1 DEF CarryOut, Record, RecordFails
    <3>2. ASSUME NEW a \in Answers, Answer(a) PROVE UNCHANGED checkpoints
      BY <3>2 DEF Answer
    <3> QED
      BY <2>1, <2>2, <2>3, <3>1, <3>2 DEF Agent, Start, StartModel, BeginAttempt, ModelFails,
         PickCall, Suspend, EndBatch, Finish, Abandon
  <2>4. CASE Host
    BY <2>2, <2>4 DEF Host, steer, respond, resolveTool, retry, cancel, close, Crash, open, journal
  <2> QED
    BY <2>2, <2>3, <2>4 DEF Next, vars
<1> QED
  BY <1>1, <1>2, CompletedStep DEF Grows

\* The types of what the transcript is made of.
LEMMA GivenTyped ==
  ASSUME IInv, NEW t \in Turns, Whole(t)
  PROVE  /\ Given(t) \in Seq(Calls)
         /\ \A i \in DOMAIN Given(t) : ToolKey(run.epoch, t, Given(t)[i]) \in Keys
         /\ t > 0 => Asked(t) \in Keys /\ ops[Asked(t)].status = "completed"
<1> USE DEF IInv
<1>1. run.epoch \in Epochs /\ t \in Nat
  BY Parts, Numbers
<1>2. CASE t = 0
  <2>1. SegmentCalls \in Seq(Calls)
    BY Parts DEF SegmentCalls
  <2>2. Given(t) \in Seq(Calls)
    BY <1>2, <2>1 DEF Given, FirstCalls
  <2> QED
    BY <1>1, <1>2, <2>2, KeysTyped
<1>3. CASE t > 0
  <2>1. t \in Turns \ {0} /\ ops[Asked(t)].status = "completed"
    BY <1>1, <1>3 DEF Whole
  <2>2. Asked(t) \in Keys
    BY <1>1, <2>1, KeysTyped DEF Asked
  <2>3. Given(t) \in Answers
    BY <1>1, <1>3, <2>1 DEF Given, Asked, AnswersFirst
  <2>4. Given(t) \in Seq(Calls)
    BY <2>3, ExecutionAssumption
  <2> QED
    BY <1>1, <2>1, <2>2, <2>4, KeysTyped
<1> QED
  BY <1>1, <1>2, <1>3

\* A turn that is whole stays what it is.
LEMMA WholeKept ==
  ASSUME IInv, Grows, run'.epoch = run.epoch, saved' = saved, NEW t \in Turns, Whole(t)
  PROVE  /\ Whole(t)' /\ Given(t)' = Given(t) /\ Before(t)' = Before(t) /\ After(t)' = After(t)
         /\ Boundary(t) \in DOMAIN checkpoints =>
              Boundary(t)' \in DOMAIN checkpoints' /\ Steered(t)' = Steered(t)
<1>1. /\ Given(t) \in Seq(Calls)
      /\ \A i \in DOMAIN Given(t) : ToolKey(run.epoch, t, Given(t)[i]) \in Keys
      /\ t > 0 => Asked(t) \in Keys /\ ops[Asked(t)].status = "completed"
      /\ t = 0 \/ t > 0
  BY GivenTyped, Numbers
<1>2. Base' = Base /\ FirstCalls' = FirstCalls /\ Asked(t)' = Asked(t) /\ Boundary(t)' = Boundary(t)
  BY DEF Base, FirstCalls, SegmentCalls, Asked, Boundary
<1>3. t > 0 => ops'[Asked(t)] = ops[Asked(t)]
  BY <1>1 DEF Grows
<1>4. Given(t)' = Given(t) /\ Before(t)' = Before(t)
  BY <1>1, <1>2, <1>3 DEF Given, Before
<1>5. \A i \in DOMAIN Given(t) :
         ops'[ToolKey(run.epoch, t, Given(t)[i])] = ops[ToolKey(run.epoch, t, Given(t)[i])]
  BY <1>1 DEF Grows, Whole
<1>6. Whole(t)'
  BY <1>1, <1>2, <1>3, <1>4, <1>5 DEF Whole
<1>7. After(t)' = After(t)
  BY <1>4, <1>5 DEF After
<1>8. ASSUME Boundary(t) \in DOMAIN checkpoints
      PROVE  Boundary(t)' \in DOMAIN checkpoints' /\ Steered(t)' = Steered(t)
  BY <1>2, <1>7, <1>8 DEF Steered, Grows
<1> QED
  BY <1>4, <1>6, <1>7, <1>8

\* No new request is recorded.
LEMMA ChainKept ==
  ASSUME IInv, Chain, Grows, run'.epoch = run.epoch, saved' = saved, Alive' => Alive,
         \A k \in ModelKeys : ops'[k].status # "none" => ops[k].status # "none"
  PROVE  Chain'
<1> SUFFICES ASSUME Alive, NEW t \in Turns, t + 1 \in Turns, ops'[Asked(t + 1)].status # "none"
             PROVE  /\ Whole(t)' /\ Boundary(t)' \in DOMAIN checkpoints'
                    /\ ops'[Asked(t + 1)].input = Steered(t)'
  BY DEF Chain, Asked
<1>1. Asked(t + 1) \in ModelKeys /\ Asked(t + 1) \in Keys
  <2>1. t + 1 \in Turns \ {0}
    BY Numbers
  <2> QED
    BY <2>1, Parts, KeysTyped DEF IInv, Asked
<1>2. /\ ops[Asked(t + 1)].status # "none" /\ Whole(t) /\ Boundary(t) \in DOMAIN checkpoints
      /\ ops[Asked(t + 1)].input = Steered(t)
  BY <1>1 DEF Chain
<1> QED
  BY <1>1, <1>2, WholeKept DEF Grows

-----------------------------------------------------------------------------
(* One lemma per action, as far as it matters here.                         *)

\* The attempt ends or there is none: the status may change.
LEMMA Idle ==
  ASSUME RInv, [Next]_vars, loop'.phase = "none", run'.epoch = run.epoch,
         saved' = saved, Alive' => Alive,
         \A k \in ModelKeys : ops'[k].status # "none" => ops[k].status # "none",
         run'.blocked \notin ModelKeys
  PROVE  Chain' /\ Follows' /\ ReplayFaithful'
<1>1. Chain'
  BY JournalGrows, ChainKept DEF RInv
<1>2. Follows'
  BY DEF Follows
<1> QED
  BY <1>1, <1>2 DEF ReplayFaithful

\* The loop stays where it is.
LEMMA LoopStays ==
  ASSUME RInv, [Next]_vars, run'.epoch = run.epoch, saved' = saved, Alive' => Alive,
         \A k \in ModelKeys : ops'[k].status # "none" => ops[k].status # "none",
         run'.blocked = run.blocked,
         loop'.phase = loop.phase, loop'.turn = loop.turn, loop'.heard = loop.heard,
         Alive /\ loop.phase = "tools" => Done'
  PROVE  Chain' /\ Follows' /\ ReplayFaithful'
<1> USE DEF RInv
<1>1. Grows /\ Chain'
  BY JournalGrows, ChainKept
<1>2. ReplayFaithful'
  BY DEF ReplayFaithful
<1> SUFFICES ASSUME Alive, NEW t, t = loop.turn PROVE Follows'
  BY <1>1, <1>2 DEF Follows
<1>3. t \in Turns /\ run.epoch \in Epochs /\ t \in Nat
  BY Parts, Numbers DEF IInv
<1>4. Whole(t) => /\ Whole(t)' /\ After(t)' = After(t)
                  /\ Boundary(t) \in DOMAIN checkpoints =>
                       Boundary(t)' \in DOMAIN checkpoints' /\ Steered(t)' = Steered(t)
  BY <1>1, <1>3, WholeKept
<1>5. loop.phase = "tools" => Before(t)' = Before(t)
  <2> SUFFICES ASSUME loop.phase = "tools" PROVE Before(t)' = Before(t)
    OBVIOUS
  <2>1. Base' = Base /\ Asked(t)' = Asked(t)
    BY DEF Base, Asked
  <2>2. CASE t = 0
    BY <2>1, <2>2 DEF Before
  <2>3. CASE t > 0
    <3>1. Asked(t) \in Keys
      BY <1>3, <2>3, KeysTyped DEF Asked
    <3>2. ops[Asked(t)].status = "completed"
      BY <2>3 DEF IInv, Batch, Asked
    <3>3. ops'[Asked(t)] = ops[Asked(t)]
      BY <1>1, <3>1, <3>2 DEF Grows
    <3> QED
      BY <2>1, <3>3 DEF Before
  <2> QED
    BY <1>3, <2>2, <2>3
<1>6. loop.phase \in {"begin", "asking"} => ops'[Asked(t)'].input = ops[Asked(t)].input
  <2> SUFFICES ASSUME loop.phase \in {"begin", "asking"}
               PROVE  ops'[Asked(t)'].input = ops[Asked(t)].input
    OBVIOUS
  <2>1. t > 0 /\ ops[Asked(t)].status = "started" /\ Asked(t)' = Asked(t)
    BY DEF IInv, LoopShape, Asked
  <2>2. Asked(t) \in Keys
    BY <1>3, <2>1, KeysTyped DEF Asked
  <2> QED
    BY <1>1, <2>1, <2>2 DEF Grows
<1> QED
  BY <1>4, <1>5, <1>6 DEF Follows

\* An attempt begins with the transcript of its segment.
LEMMA StartReplay == ASSUME RInv, Start PROVE Chain' /\ Follows' /\ ReplayFaithful'
<1> USE DEF RInv
<1>1. [Next]_vars /\ UNCHANGED <<ops, saved, checkpoints>>
  BY DEF Start, Next, Agent
<1>2. /\ run'.epoch = run.epoch /\ run'.status = "running" /\ run'.blocked = run.blocked
      /\ Alive
  BY DEF Start, IInv, TypeOK, Runnable, Alive
<1>3. Chain'
  BY <1>1, <1>2, JournalGrows, ChainKept
<1>4. /\ loop'.phase = (IF run.epoch > 0 THEN "tools" ELSE "drain") /\ loop'.turn = 0
      /\ loop'.heard = Base /\ loop'.batch = SegmentCalls /\ loop'.todo = SegmentCalls
  BY DEF Start, NoLoop, Base, SegmentCalls
<1>5. Base' = Base /\ Before(0)' = Base
  BY <1>1, <1>2 DEF Base, Before
<1>6. CASE run.epoch > 0
  <2>1. loop'.phase = "tools"
    BY <1>4, <1>6
  <2>2. SegmentCalls \in Seq(Calls)
    BY Parts DEF IInv, SegmentCalls
  <2>3. 1..Picked' = {}
    BY <1>4, <2>2 DEF Picked
  <2>4. Follows'
    BY <1>4, <1>5, <2>1, <2>3 DEF Follows, Done
  <2> QED
    BY <1>2, <1>3, <2>4 DEF ReplayFaithful
<1>7. CASE ~(run.epoch > 0)
  <2>1. loop'.phase = "drain"
    BY <1>4, <1>7
  <2>2. Given(0)' = <<>>
    BY <1>2, <1>7 DEF Given, FirstCalls
  <2>3. Base \in Seq(Items) /\ Base \o <<>> = Base
    <3>1. Base = saved.heard \o <<>> /\ saved.heard \in Seq(Items)
      BY <1>7, Parts DEF Base, IInv
    <3> QED
      BY <3>1, ConcatEmptySeq
  <2>4. Whole(0)'
    BY <2>2 DEF Whole
  <2>5. After(0)' = Base
    BY <1>5, <2>2, <2>3 DEF After
  <2>6. Follows'
    BY <1>4, <2>1, <2>4, <2>5 DEF Follows
  <2> QED
    BY <1>2, <1>3, <2>6 DEF ReplayFaithful
<1> QED
  BY <1>6, <1>7

\* A boundary adds what the journal holds for it, whether it was recorded now or earlier.
LEMMA DrainReplay ==
  ASSUME RInv, NEW closing \in BOOLEAN, Drain(closing)
  PROVE  Chain' /\ Follows' /\ ReplayFaithful'
<1> USE DEF RInv
<1> DEFINE key == <<run.epoch, loop.boundary>>
           entries == IF key \in DOMAIN checkpoints THEN checkpoints[key] ELSE inbox.pending
           heard == loop.heard \o [i \in DOMAIN entries |-> Heard(entries[i])]
<1>1. [Next]_vars /\ UNCHANGED <<run, ops, saved>>
  BY DEF Drain, Next, Agent
<1>2. /\ loop' = [loop EXCEPT !.phase = IF closing /\ entries = <<>> THEN "finish" ELSE "model",
                              !.boundary = @ + 1, !.heard = heard]
      /\ loop.phase \in {"drain", "closing"} /\ ~loop.aborted
      /\ \/ key \in DOMAIN checkpoints /\ UNCHANGED checkpoints
         \/ checkpoints' = [b \in DOMAIN checkpoints \cup {key} |->
                              IF b = key THEN entries ELSE checkpoints[b]]
  BY DEF Drain, At
<1>3. /\ loop'.phase \in {"finish", "model"} /\ loop'.turn = loop.turn /\ loop'.heard = heard
      /\ run.status = "running"
  <2> HIDE DEF heard, entries
  <2> QED
    BY <1>2 DEF IInv, TypeOK, Loop, LoopShape
<1>4. key \in DOMAIN checkpoints' /\ checkpoints'[key] = entries
  BY <1>2
<1>5. Grows /\ Chain' /\ Alive
  BY <1>1, <1>3, JournalGrows, ChainKept DEF Alive
<1> SUFFICES ASSUME NEW t, t = loop.turn PROVE Chain' /\ Follows' /\ ReplayFaithful'
  OBVIOUS
<1>6. t \in Turns /\ Whole(t) /\ loop.heard = After(t) /\ key = Boundary(t)
  <2>1. loop.boundary = loop.turn
    <3>1. loop.turn \in Nat
      BY Parts, Numbers DEF IInv
    <3>2. loop.boundary = loop.turn + 0
      BY <1>2 DEF IInv, LoopShape
    <3> QED
      BY <3>1, <3>2
  <2> QED
    BY <1>2, <1>5, <2>1, Parts DEF Follows, Boundary, IInv
<1>7. Whole(t)' /\ After(t)' = After(t) /\ Boundary(t)' = Boundary(t)
  BY <1>1, <1>5, <1>6, WholeKept DEF Boundary
<1>8. Steered(t)' = heard
  BY <1>4, <1>6, <1>7 DEF Steered
<1>9. Follows'
  BY <1>3, <1>4, <1>6, <1>7, <1>8 DEF Follows
<1> QED
  BY <1>1, <1>5, <1>9 DEF ReplayFaithful

\* The loop turns to an answer of the journal.
LEMMA DigestReplay ==
  ASSUME IInv, NEW turn \in Turns \ {0}, NEW answer \in Answers,
         loop' = Digest(turn, answer), run'.epoch = run.epoch,
         ops'[Asked(turn)].status = "completed", ops'[Asked(turn)].answer = answer,
         ops'[Asked(turn)].input = loop.heard
  PROVE  Follows'
<1>1. answer \in Seq(Calls) /\ turn \in Nat /\ turn # 0 /\ turn > 0
  <2>1. answer \in Seq(Calls)
    BY ExecutionAssumption
  <2>2. turn \in Nat /\ turn # 0
    BY Numbers
  <2> QED
    BY <2>1, <2>2
<1>2. /\ loop'.phase = (IF answer = <<>> THEN "closing" ELSE "tools")
      /\ loop'.turn = turn /\ loop'.heard = Append(loop.heard, Said(answer))
      /\ loop'.batch = answer /\ loop'.todo = answer
  BY DEF IInv, TypeOK, Loop, Digest
<1>3. Asked(turn)' = Asked(turn)
  BY DEF Asked
<1>4. Given(turn)' = answer /\ Before(turn)' = loop'.heard
  BY <1>1, <1>2, <1>3 DEF Given, Before
<1>5. CASE answer = <<>>
  <2>1. Whole(turn)'
    BY <1>3, <1>4, <1>5 DEF Whole
  <2>2. After(turn)' = loop'.heard
    <3>1. loop'.heard \in Seq(Items)
      BY <1>2, Parts, ItemsTyped DEF IInv
    <3>2. loop'.heard \o <<>> = loop'.heard
      BY <3>1, ConcatEmptySeq
    <3>3. After(turn)' = loop'.heard \o <<>>
      BY <1>4, <1>5 DEF After
    <3> QED
      BY <3>2, <3>3
  <2>3. loop'.phase = "closing"
    BY <1>2, <1>5
  <2> QED
    BY <1>2, <2>1, <2>2, <2>3 DEF Follows
<1>6. CASE answer # <<>>
  <2>1. loop'.phase = "tools"
    BY <1>2, <1>6
  <2>2. 1..Picked' = {}
    BY <1>1, <1>2 DEF Picked
  <2> QED
    BY <1>2, <1>4, <2>1, <2>2 DEF Follows, Done
<1> QED
  BY <1>5, <1>6

\* A turn of the journal is met with the request it was recorded with; a new one is recorded
\* with the transcript of the journal.
LEMMA StartModelReplay == ASSUME RInv, StartModel PROVE Chain' /\ Follows' /\ ReplayFaithful'
<1> USE DEF RInv
<1> DEFINE turn == loop.turn + 1
           key == ModelKey(run.epoch, turn)
           new == turn <= MaxModelTurns => ops[key].status = "none"
<1>1. [Next]_vars /\ UNCHANGED <<saved, checkpoints>>
  BY DEF StartModel, Next, Agent
<1>2. /\ loop.phase = "model" /\ ~loop.aborted /\ run.status = "running" /\ Alive
      /\ loop.turn \in Turns /\ turn \in Nat \ {0} /\ run.epoch \in Epochs
      /\ key = Asked(turn)
  <2>1. loop.phase = "model" /\ ~loop.aborted
    BY DEF StartModel, At
  <2>2. loop.turn \in Turns /\ loop.turn \in Nat /\ run.epoch \in Epochs
    BY Parts, Numbers DEF IInv
  <2>3. run.status = "running"
    BY <2>1 DEF IInv, LoopShape
  <2> QED
    BY <2>1, <2>2, <2>3 DEF Alive, Asked
<1>3. /\ Whole(loop.turn) /\ Boundary(loop.turn) \in DOMAIN checkpoints
      /\ loop.heard = Steered(loop.turn)
  BY <1>2 DEF Follows
<1>4. Grows
  BY <1>1, JournalGrows
<1>5. CASE Spent /\ new
  <2>1. EndAttempt("failed", NoKey) /\ UNCHANGED ops
    BY <1>5 DEF StartModel
  <2>2. /\ loop'.phase = "none" /\ run'.epoch = run.epoch /\ run'.blocked = NoKey
    BY <2>1 DEF EndAttempt, NoLoop, IInv, TypeOK
  <2> QED
    BY <1>1, <1>2, <2>1, <2>2, Idle, KeysTyped
<1>6. CASE ~Spent /\ new
  <2>1. turn \in Turns \ {0} /\ key \in Keys
    <3>1. run.turns \in Nat /\ loop.turn \in Nat /\ MaxModelTurns \in Nat
      BY Parts, Numbers DEF IInv
    <3>2. loop.turn <= run.turns /\ run.turns < MaxModelTurns
      BY <1>2, <1>6, <3>1, TurnsTaken DEF Spent
    <3>3. turn \in Turns \ {0}
      BY <3>1, <3>2 DEF Turns
    <3> QED
      BY <1>2, <3>3, KeysTyped
  <2> HIDE DEF key
  <2>2. /\ ops' = [ops EXCEPT ![key].status = "started", ![key].input = loop.heard]
        /\ run' = [run EXCEPT !.turns = @ + 1]
        /\ loop' = [loop EXCEPT !.phase = "begin", !.turn = turn]
    BY <1>6 DEF StartModel, key
  <2>3. /\ ops'[key].input = loop.heard /\ \A k \in Keys \ {key} : ops'[k] = ops[k]
    BY <2>1, <2>2, Parts DEF IInv, TypeOK, Op
  <2>4. /\ run'.epoch = run.epoch /\ run'.blocked = run.blocked /\ run'.status = run.status
        /\ loop'.phase = "begin" /\ loop'.turn = turn /\ loop'.heard = loop.heard
    BY <2>2 DEF IInv, TypeOK, Loop
  <2>5. Follows'
    BY <1>2, <2>3, <2>4 DEF Follows, Asked
  <2>6. Chain'
    <3> SUFFICES ASSUME NEW t \in Turns, t + 1 \in Turns, ops'[Asked(t + 1)].status # "none"
                 PROVE  /\ Whole(t)' /\ Boundary(t)' \in DOMAIN checkpoints'
                        /\ ops'[Asked(t + 1)].input = Steered(t)'
      BY <2>4 DEF Chain, Asked
    <3>1. t \in Nat /\ loop.turn \in Nat
      BY <1>2, Numbers
    <3>2. CASE t = loop.turn
      BY <1>1, <1>2, <1>3, <1>4, <2>3, <2>4, <3>2, WholeKept
    <3>3. CASE t # loop.turn
      <4>1. Asked(t + 1) \in Keys
        <5>1. t + 1 \in Turns \ {0}
          BY <3>1
        <5> QED
          BY <1>2, <5>1, KeysTyped DEF Asked
      <4>2. Asked(t + 1) # key
        BY <1>2, <3>1, <3>3, KeysInjective DEF Asked
      <4>3. ops'[Asked(t + 1)] = ops[Asked(t + 1)]
        BY <2>3, <4>1, <4>2
      <4>4. /\ Whole(t) /\ Boundary(t) \in DOMAIN checkpoints
            /\ ops[Asked(t + 1)].input = Steered(t)
        BY <1>2, <4>3 DEF Chain
      <4> QED
        BY <1>1, <1>4, <2>4, <4>3, <4>4, WholeKept
    <3> QED
      BY <3>2, <3>3
  <2> QED
    BY <2>4, <2>5, <2>6 DEF ReplayFaithful
<1>7. CASE ~new
  <2>1. turn \in Turns \ {0} /\ ops[key].status # "none" /\ UNCHANGED ops
    BY <1>2, <1>7 DEF Turns, StartModel
  <2>2. ops[key].input = loop.heard
    BY <1>2, <1>3, <2>1 DEF Chain
  <2>3. /\ UNCHANGED run
        /\ loop' = IF ops[key].status = "completed" THEN Digest(turn, ops[key].answer)
                   ELSE [loop EXCEPT !.phase = "begin", !.turn = turn]
    BY <1>7, <2>2 DEF StartModel
  <2>4. Chain'
    BY <1>1, <1>2, <1>4, <2>1, <2>3, ChainKept
  <2>5. Follows'
    <3>1. CASE ops[key].status = "completed"
      <4>1. ops[key].answer \in Answers
        BY <1>2, <2>1, <3>1 DEF IInv, AnswersFirst
      <4> QED
        BY <1>2, <2>1, <2>2, <2>3, <3>1, <4>1, DigestReplay
    <3>2. CASE ops[key].status # "completed"
      <4>1. loop'.phase = "begin" /\ loop'.turn = turn /\ loop'.heard = loop.heard
        BY <2>3, <3>2 DEF IInv, TypeOK, Loop
      <4> QED
        BY <1>2, <2>1, <2>2, <2>3, <4>1 DEF Follows, Asked
    <3> QED
      BY <3>1, <3>2
  <2> QED
    BY <2>3, <2>4, <2>5 DEF ReplayFaithful
<1> QED
  BY <1>5, <1>6, <1>7

\* Sending a request changes neither it nor the transcript.
LEMMA BeginAttemptReplay ==
  ASSUME RInv, BeginAttempt PROVE Chain' /\ Follows' /\ ReplayFaithful'
<1> USE DEF RInv
<1> DEFINE key == ModelKey(run.epoch, loop.turn)
<1>1. [Next]_vars /\ UNCHANGED <<saved, checkpoints>>
  BY DEF BeginAttempt, Next, Agent
<1>2. /\ loop.phase = "begin" /\ ~loop.aborted /\ run.status = "running" /\ Alive
      /\ loop.turn \in Turns \ {0} /\ run.epoch \in Epochs /\ key = Asked(loop.turn)
      /\ ops[key].status = "started"
  <2>1. loop.phase = "begin" /\ ~loop.aborted
    BY DEF BeginAttempt, At
  <2>2. loop.turn \in Turns /\ loop.turn \in Nat /\ run.epoch \in Epochs
    BY Parts, Numbers DEF IInv
  <2>3. loop.turn > 0 /\ ops[key].status = "started" /\ run.status = "running"
    BY <2>1 DEF IInv, LoopShape
  <2> QED
    BY <2>1, <2>2, <2>3 DEF Alive, Asked
<1>3. Grows /\ key \in Keys /\ ops[key] \in Op /\ loop.heard = ops[key].input
  BY <1>1, <1>2, JournalGrows, KeysTyped, Parts DEF Follows, IInv
<1>4. \/ EndAttempt("failed", NoKey) /\ UNCHANGED ops
      \/ /\ ops' = [ops EXCEPT ![key].attempts = @ + 1]
         /\ loop' = [loop EXCEPT !.phase = "asking"]
         /\ UNCHANGED run
  BY DEF BeginAttempt
<1>5. CASE EndAttempt("failed", NoKey) /\ UNCHANGED ops
  <2>1. /\ loop'.phase = "none" /\ run'.epoch = run.epoch /\ run'.blocked = NoKey
    BY <1>5 DEF EndAttempt, NoLoop, IInv, TypeOK
  <2> QED
    BY <1>1, <1>2, <1>5, <2>1, Idle, KeysTyped
<1>6. CASE /\ ops' = [ops EXCEPT ![key].attempts = @ + 1]
           /\ loop' = [loop EXCEPT !.phase = "asking"]
           /\ UNCHANGED run
  <2> HIDE DEF key
  <2>1. \A k \in Keys : ops'[k].status = ops[k].status /\ ops'[k].input = ops[k].input
    BY <1>3, <1>6, Parts DEF IInv, TypeOK, Op
  <2>2. loop'.phase = "asking" /\ loop'.turn = loop.turn /\ loop'.heard = loop.heard
    BY <1>6 DEF IInv, TypeOK, Loop
  <2>3. Chain'
    BY <1>1, <1>3, <1>6, <2>1, ChainKept, KeysTyped DEF Alive
  <2>4. Asked(loop.turn)' = key
    BY <1>2, <1>6, <2>2 DEF Asked
  <2>5. Follows'
    BY <1>3, <2>1, <2>2, <2>4 DEF Follows
  <2> QED
    BY <1>6, <2>3, <2>5 DEF ReplayFaithful
<1> QED
  BY <1>4, <1>5, <1>6

\* An answer completes the turn; the loop goes on with it.
LEMMA AnswerReplay ==
  ASSUME RInv, NEW answer \in Answers, Answer(answer)
  PROVE  Chain' /\ Follows' /\ ReplayFaithful'
<1> USE DEF RInv
<1> DEFINE key == ModelKey(run.epoch, loop.turn)
<1>1. [Next]_vars /\ UNCHANGED <<run, saved, checkpoints>> /\ loop' = Digest(loop.turn, answer)
  BY DEF Answer, Next, Agent
<1>2. /\ loop.phase = "asking" /\ Alive
      /\ loop.turn \in Turns \ {0} /\ run.epoch \in Epochs /\ key = Asked(loop.turn)
      /\ ops[key].status = "started"
  <2>1. loop.phase = "asking" /\ run.status = "running"
    BY DEF Answer, At
  <2>2. loop.turn \in Turns /\ loop.turn \in Nat /\ run.epoch \in Epochs
    BY Parts, Numbers DEF IInv
  <2>3. loop.turn > 0 /\ ops[key].status = "started"
    BY <2>1 DEF IInv, LoopShape
  <2> QED
    BY <2>1, <2>2, <2>3 DEF Alive, Asked
<1>3. Grows /\ key \in Keys /\ ops[key] \in Op /\ loop.heard = ops[key].input
  BY <1>1, <1>2, JournalGrows, KeysTyped, Parts DEF Follows, IInv
<1>4. ops' = [ops EXCEPT ![key].status = "completed", ![key].answer = answer]
  BY DEF Answer
<1> HIDE DEF key
<1>5. /\ ops'[key].status = "completed" /\ ops'[key].answer = answer
      /\ ops'[key].input = ops[key].input
      /\ \A k \in Keys \ {key} : ops'[k] = ops[k]
  BY <1>3, <1>4 DEF IInv, TypeOK, Op
<1>6. Follows'
  BY <1>1, <1>2, <1>3, <1>5, DigestReplay
<1>7. Chain'
  BY <1>1, <1>2, <1>3, <1>5, ChainKept, KeysTyped
<1> QED
  BY <1>1, <1>6, <1>7 DEF ReplayFaithful

\* The tools of a batch: the results of the journal are those of the picks.
LEMMA BatchReplay ==
  ASSUME RInv, loop.phase = "tools", ~loop.aborted
  PROVE  /\ Alive /\ run.epoch \in Epochs /\ loop.turn \in Turns /\ loop.turn \in Nat
         /\ Given(loop.turn) = loop.batch /\ loop.batch \in Seq(Calls)
         /\ \A i \in DOMAIN loop.batch : CallKey(loop.batch[i]) \in Keys
         /\ loop.heard = Before(loop.turn) /\ Done
<1> USE DEF RInv
<1>1. run.status = "running"
  BY DEF IInv, LoopShape
<1>2. run.epoch \in Epochs /\ loop.turn \in Turns /\ loop.turn \in Nat /\ loop.batch \in Seq(Calls)
  BY Parts, Numbers DEF IInv
<1>3. Given(loop.turn) = loop.batch
  <2>1. CASE loop.turn = 0
    BY <2>1 DEF IInv, Batch, Given, FirstCalls
  <2>2. CASE loop.turn # 0
    <3>1. loop.turn > 0
      BY <1>2, <2>2
    <3> QED
      BY <2>2, <3>1 DEF IInv, Batch, Given, Asked
  <2> QED
    BY <2>1, <2>2
<1>4. \A i \in DOMAIN loop.batch : CallKey(loop.batch[i]) \in Keys
  BY <1>2, KeysTyped DEF CallKey
<1> QED
  BY <1>1, <1>2, <1>3, <1>4 DEF Follows, Alive

\* A call that is picked is in flight, has its result, or stops the batch.
LEMMA PickCallReplay == ASSUME RInv, PickCall PROVE Chain' /\ Follows' /\ ReplayFaithful'
<1> USE DEF RInv
<1> DEFINE key == CallKey(NextCall)
           picked == [loop EXCEPT !.todo = Tail(@)]
<1>1. [Next]_vars /\ UNCHANGED <<run, saved, checkpoints>>
  BY DEF PickCall, Next, Agent
<1>2. /\ loop.phase = "tools" /\ ~loop.aborted /\ loop.todo # <<>> /\ loop.failure = NoKey
  BY DEF PickCall, CanPick, At
<1>3. /\ Alive /\ run.epoch \in Epochs /\ loop.turn \in Turns
      /\ loop.batch \in Seq(Calls) /\ loop.todo \in Seq(Calls)
      /\ \A i \in DOMAIN loop.batch : CallKey(loop.batch[i]) \in Keys
      /\ \A i \in 1..Picked : \/ loop.batch[i] \in InFlight
                              \/ ops[CallKey(loop.batch[i])].status = "completed"
  BY <1>2, BatchReplay, Parts DEF Done, IInv
<1>4. NextCall \in Calls /\ key \in ToolKeys
  BY <1>2, <1>3, KeysTyped DEF NextCall, CallKey
<1>5. /\ ops' = IF ops[key].status = "none" THEN [ops EXCEPT ![key].status = "started"] ELSE ops
      /\ loop' = CASE ops[key].status = "completed" -> picked
                   [] ops[key].status = "started" /\ Recovery[NextCall] = "manual" ->
                        [picked EXCEPT !.failure = key]
                   [] OTHER -> [picked EXCEPT !.begun = @ \cup {NextCall}]
  BY DEF PickCall
<1>6. /\ loop'.phase = loop.phase /\ loop'.turn = loop.turn /\ loop'.heard = loop.heard
      /\ loop'.batch = loop.batch /\ loop'.todo = Tail(loop.todo)
      /\ loop'.carried = loop.carried
      /\ \/ ops[key].status = "completed" /\ loop'.begun = loop.begun
         \/ loop'.failure = key /\ loop'.begun = loop.begun
         \/ loop'.begun = loop.begun \cup {NextCall}
  <2> HIDE DEF key
  <2> QED
    BY <1>5 DEF IInv, TypeOK, Loop
<1>7. \A k \in ModelKeys : ops'[k].status # "none" => ops[k].status # "none"
  <2> HIDE DEF key
  <2> QED
    BY <1>4, <1>5, KeysTyped DEF IInv, TypeOK
<1>8. Done'
  <2> SUFFICES ASSUME loop'.failure = NoKey, NEW i \in 1..Picked'
               PROVE  \/ loop.batch[i] \in InFlight'
                      \/ ops'[CallKey(loop.batch[i])].status = "completed"
    BY <1>1, <1>6 DEF Done, CallKey
  <2>0. /\ \/ ops[key].status = "completed" /\ loop'.begun = loop.begun
           \/ loop'.begun = loop.begun \cup {NextCall}
        /\ loop'.carried = loop.carried
    BY <1>4, <1>6, KeysTyped
  <2>1. /\ Len(loop.todo) \in Nat /\ Len(loop.batch) \in Nat
        /\ Len(loop.todo) <= Len(loop.batch) /\ Len(loop.todo) # 0
        /\ Len(Tail(loop.todo)) = Len(loop.todo) - 1
    BY <1>2, <1>3 DEF IInv, Picks
  <2>2. Picked' = Picked + 1 /\ Picked \in Nat
    <3>1. Picked' = Len(loop.batch) - (Len(loop.todo) - 1)
      BY <1>6, <2>1 DEF Picked
    <3> QED
      BY <2>1, <3>1, OneMore DEF Picked
  <2>3. 1 \in 1..Len(loop.todo) /\ Picked + 1 \in 1..Len(loop.batch)
    BY <2>1, OneMore DEF Picked
  <2>4. NextCall = loop.batch[Picked + 1]
    BY <1>2, <1>3, <2>3 DEF IInv, Picks, NextCall
  <2>5. CASE i = Picked + 1
    <3>1. CASE ops[key].status = "completed" /\ loop'.begun = loop.begun
      BY <1>5, <2>4, <2>5, <3>1
    <3>2. CASE loop'.begun = loop.begun \cup {NextCall}
      BY <2>4, <2>5, <3>2 DEF InFlight
    <3> QED
      BY <2>0, <3>1, <3>2
  <2>6. CASE i # Picked + 1
    <3>1. i \in 1..Picked /\ i \in DOMAIN loop.batch
      BY <1>3, <2>1, <2>2, <2>3, <2>6
    <3>2. CASE loop.batch[i] \in InFlight
      BY <2>0, <3>2 DEF InFlight
    <3>3. CASE ops[CallKey(loop.batch[i])].status = "completed"
      <4>1. CallKey(loop.batch[i]) \in Keys
        BY <1>3, <3>1
      <4> QED
        BY <1>1, <3>3, <4>1, JournalGrows DEF Grows
    <3> QED
      BY <1>3, <3>1, <3>2, <3>3
  <2> QED
    BY <2>5, <2>6
<1> QED
  BY <1>1, <1>3, <1>6, <1>7, <1>8, LoopStays

\* A call that was carried out is still in flight.
LEMMA CarryOutReplay ==
  ASSUME RInv, NEW c \in Calls, CarryOut(c)
  PROVE  Chain' /\ Follows' /\ ReplayFaithful'
<1> USE DEF RInv
<1>1. [Next]_vars /\ UNCHANGED <<run, ops, saved, checkpoints>>
  BY DEF CarryOut, Next, Agent
<1>2. /\ loop'.phase = loop.phase /\ loop'.turn = loop.turn /\ loop'.heard = loop.heard
      /\ loop'.batch = loop.batch /\ loop'.todo = loop.todo /\ loop'.failure = loop.failure
      /\ loop'.begun = loop.begun \ {c} /\ loop'.carried = loop.carried \cup {c}
      /\ c \in loop.begun
  BY DEF CarryOut, IInv, TypeOK, Loop
<1>3. InFlight' = InFlight /\ Picked' = Picked
  BY <1>2 DEF InFlight, Picked
<1>4. Alive /\ loop.phase = "tools" => Done'
  BY <1>1, <1>2, <1>3 DEF Follows, Done, CallKey
<1> QED
  BY <1>1, <1>2, <1>4, LoopStays DEF Alive

\* A call that leaves the flight has its result in the journal.
LEMMA RecordReplay ==
  ASSUME RInv, NEW c \in Calls, Record(c)
  PROVE  Chain' /\ Follows' /\ ReplayFaithful'
<1> USE DEF RInv
<1> DEFINE key == CallKey(c)
           value == executed[Identity(c)]
<1>1. [Next]_vars /\ UNCHANGED <<run, saved, checkpoints>>
  BY DEF Record, Next, Agent
<1>2. /\ loop.phase = "tools" /\ ~loop.aborted
      /\ ops' = [ops EXCEPT ![key].status = "completed", ![key].value = value]
      /\ loop' = [loop EXCEPT !.carried = @ \ {c}]
  BY DEF Record, At
<1>3. /\ Alive /\ run.epoch \in Epochs /\ loop.turn \in Turns /\ loop.batch \in Seq(Calls)
      /\ \A i \in DOMAIN loop.batch : CallKey(loop.batch[i]) \in Keys
      /\ Done
  BY <1>2, BatchReplay
<1>4. key \in ToolKeys /\ key \in Keys
  BY <1>3, KeysTyped DEF CallKey
<1>5. /\ loop'.phase = loop.phase /\ loop'.turn = loop.turn /\ loop'.heard = loop.heard
      /\ loop'.batch = loop.batch /\ loop'.todo = loop.todo /\ loop'.failure = loop.failure
      /\ loop'.begun = loop.begun /\ loop'.carried = loop.carried \ {c}
  BY <1>2 DEF IInv, TypeOK, Loop
<1>6. /\ ops'[key].status = "completed"
      /\ \A k \in Keys \ {key} : ops'[k] = ops[k]
  <2> HIDE DEF key, value
  <2> QED
    BY <1>2, <1>4 DEF IInv, TypeOK, Op
<1>7. \A k \in ModelKeys : ops'[k].status # "none" => ops[k].status # "none"
  <2> HIDE DEF key
  <2> QED
    BY <1>4, <1>6, KeysTyped
<1>8. Done'
  <2> SUFFICES ASSUME loop.failure = NoKey, NEW i \in 1..Picked
               PROVE  \/ loop.batch[i] \in InFlight'
                      \/ ops'[CallKey(loop.batch[i])].status = "completed"
    BY <1>1, <1>5 DEF Done, CallKey, Picked
  <2>1. CASE loop.batch[i] = c
    BY <1>6, <2>1
  <2>2. CASE loop.batch[i] # c /\ loop.batch[i] \in InFlight
    BY <1>5, <2>2 DEF InFlight
  <2>3. CASE ops[CallKey(loop.batch[i])].status = "completed"
    <3>1. /\ Len(loop.todo) \in Nat /\ Len(loop.batch) \in Nat
          /\ Len(loop.todo) <= Len(loop.batch)
      BY <1>2, Parts DEF IInv, Picks
    <3>2. i \in DOMAIN loop.batch
      BY <1>3, <3>1 DEF Picked
    <3> QED
      BY <1>1, <1>3, <2>3, <3>2, JournalGrows DEF Grows
  <2> QED
    BY <1>3, <2>1, <2>2, <2>3 DEF Done
<1> QED
  BY <1>1, <1>3, <1>5, <1>7, <1>8, LoopStays

\* A result that cannot be stored stops the batch: its calls are not waited for.
LEMMA RecordFailsReplay ==
  ASSUME RInv, NEW c \in Calls, RecordFails(c)
  PROVE  Chain' /\ Follows' /\ ReplayFaithful'
<1> USE DEF RInv
<1>1. [Next]_vars /\ UNCHANGED <<run, ops, saved, checkpoints>>
  BY DEF RecordFails, Next, Agent
<1>2. /\ loop.phase = "tools" /\ ~loop.aborted
      /\ loop' = [loop EXCEPT !.carried = @ \ {c},
                              !.failure = IF @ = NoKey THEN CallKey(c) ELSE @]
  BY DEF RecordFails, At
<1>3. /\ run.epoch \in Epochs /\ loop.turn \in Turns
  BY Parts DEF IInv
<1>4. CallKey(c) # NoKey
  BY <1>3, KeysTyped DEF CallKey
<1>5. /\ loop'.phase = loop.phase /\ loop'.turn = loop.turn /\ loop'.heard = loop.heard
      /\ loop'.failure # NoKey
  BY <1>2, <1>4 DEF IInv, TypeOK, Loop
<1>6. Done'
  BY <1>5 DEF Done
<1> QED
  BY <1>1, <1>5, <1>6, LoopStays DEF Alive

\* The run waits or is over: what follows begins a new epoch.
LEMMA Ended ==
  ASSUME ~Alive', run'.blocked \notin ModelKeys
  PROVE  Chain' /\ Follows' /\ ReplayFaithful'
BY DEF Chain, Follows, ReplayFaithful

\* The results the loop goes on with are those of the journal, in the order of the answer.
LEMMA EndBatchReplay == ASSUME RInv, EndBatch PROVE Chain' /\ Follows' /\ ReplayFaithful'
<1> USE DEF RInv
<1> DEFINE t == loop.turn
           n == Len(loop.batch)
<1>1. [Next]_vars /\ UNCHANGED <<ops, saved, checkpoints>>
  BY DEF EndBatch, Next, Agent
<1>2. loop.phase = "tools" /\ ~loop.aborted /\ InFlight = {}
  BY DEF EndBatch, At
<1>3. CASE loop.failure # NoKey
  <2>1. EndAttempt("needs_attention", loop.failure)
    BY <1>3 DEF EndBatch
  <2>2. /\ loop'.phase = "none" /\ run'.epoch = run.epoch /\ run'.blocked = loop.failure
        /\ loop.failure \notin ModelKeys
    BY <2>1, KeysTyped DEF EndAttempt, NoLoop, IInv, TypeOK, Loop
  <2>3. Alive
    BY <1>2, BatchReplay
  <2> QED
    BY <1>1, <2>2, <2>3, Idle
<1>4. CASE loop.failure = NoKey
  <2>1. /\ Alive /\ run.epoch \in Epochs /\ t \in Turns /\ t \in Nat
        /\ Given(t) = loop.batch /\ loop.batch \in Seq(Calls)
        /\ loop.heard = Before(t) /\ Done
    BY <1>2, BatchReplay
  <2>2. /\ UNCHANGED run /\ loop.todo = <<>>
        /\ loop' = [loop EXCEPT !.phase = "drain", !.batch = <<>>,
                                !.heard = @ \o Results(Len(loop.batch))]
    BY <1>4 DEF EndBatch
  <2>3. /\ loop'.phase = "drain" /\ loop'.turn = t
        /\ loop'.heard = loop.heard \o Results(n)
    BY <2>2 DEF IInv, TypeOK, Loop
  <2>4. Picked = n /\ DOMAIN loop.batch = 1..n
    <3>1. Len(loop.todo) = 0 /\ n \in Nat
      BY <2>1, <2>2
    <3> QED
      BY <2>1, <3>1 DEF Picked
  <2>5. \A i \in DOMAIN loop.batch : ops[CallKey(loop.batch[i])].status = "completed"
    BY <1>2, <1>4, <2>1, <2>4 DEF Done
  <2>6. Whole(t)
    <3>1. t > 0 => ops[Asked(t)].status = "completed"
      BY <1>2 DEF IInv, Batch, Asked
    <3> QED
      BY <2>1, <2>5, <3>1 DEF Whole, CallKey
  <2>7. After(t) = loop'.heard
    BY <2>1, <2>3, <2>4 DEF After, Results, CallKey
  <2>8. Whole(t)' /\ After(t)' = After(t)
    BY <1>1, <2>1, <2>2, <2>6, JournalGrows, WholeKept
  <2>9. Chain'
    BY <1>1, <2>1, <2>2, JournalGrows, ChainKept
  <2>10. Follows'
    BY <2>3, <2>7, <2>8 DEF Follows
  <2> QED
    BY <2>2, <2>9, <2>10 DEF ReplayFaithful
<1> QED
  BY <1>3, <1>4

\* A run that waits for a person keeps the transcript itself.
LEMMA SuspendReplay == ASSUME RInv, Suspend PROVE Chain' /\ Follows' /\ ReplayFaithful'
<1>1. run'.status = "waiting" /\ run'.blocked = NoKey
  BY DEF Suspend, EndAttempt, RInv, IInv, TypeOK
<1> QED
  BY <1>1, Ended, KeysTyped DEF Alive

\* The end of the run leaves nothing to replay; a failed one may be retried.
LEMMA FinishReplay == ASSUME RInv, Finish PROVE Chain' /\ Follows' /\ ReplayFaithful'
<1> USE DEF RInv
<1>1. [Next]_vars /\ UNCHANGED <<ops, checkpoints>>
  BY DEF Finish, Next, Agent
<1>2. CASE EndAttempt("completed", NoKey)
  <2>1. run'.status = "completed" /\ run'.blocked = NoKey
    BY <1>2 DEF EndAttempt, IInv, TypeOK
  <2> QED
    BY <2>1, Ended, KeysTyped DEF Alive
<1>3. CASE EndAttempt("failed", NoKey) /\ UNCHANGED saved
  <2>1. loop'.phase = "none" /\ run'.epoch = run.epoch /\ run'.blocked = NoKey
    BY <1>3 DEF EndAttempt, NoLoop, IInv, TypeOK
  <2>2. Alive
    BY DEF Finish, At, IInv, LoopShape, Alive
  <2> QED
    BY <1>1, <1>3, <2>1, <2>2, Idle, KeysTyped
<1> QED
  BY <1>2, <1>3 DEF Finish

\* A failed request ends the attempt and leaves the journal as it is.
LEMMA ModelFailsReplay == ASSUME RInv, ModelFails PROVE Chain' /\ Follows' /\ ReplayFaithful'
<1> USE DEF RInv
<1>1. [Next]_vars /\ UNCHANGED <<ops, saved, checkpoints>>
  BY DEF ModelFails, Next, Agent
<1>2. loop'.phase = "none" /\ run'.epoch = run.epoch /\ run'.blocked = NoKey
  BY DEF ModelFails, EndAttempt, NoLoop, IInv, TypeOK
<1>3. Alive
  BY DEF ModelFails, At, IInv, LoopShape, Alive
<1> QED
  BY <1>1, <1>2, <1>3, Idle, KeysTyped

\* The process loses the attempt.
LEMMA LostReplay ==
  ASSUME RInv, Abandon \/ Crash PROVE Chain' /\ Follows' /\ ReplayFaithful'
<1> USE DEF RInv
<1>1. [Next]_vars /\ UNCHANGED <<run, ops, saved, checkpoints>>
  BY DEF Abandon, Crash, Next, Agent, Host, journal
<1>2. loop'.phase = "none"
  BY DEF Abandon, Crash, NoLoop
<1> QED
  BY <1>1, <1>2, Idle DEF Alive, ReplayFaithful

\* The host does not reach the loop.
LEMMA HostReplay ==
  ASSUME RInv, (\E m \in Inputs : steer(m)) \/ close \/ open
  PROVE  Chain' /\ Follows' /\ ReplayFaithful'
<1> USE DEF RInv
<1>1. [Next]_vars /\ UNCHANGED <<run, ops, saved, checkpoints>>
  BY DEF steer, close, open, Next, Host, journal
<1>2. /\ loop'.phase = loop.phase /\ loop'.turn = loop.turn /\ loop'.heard = loop.heard
      /\ loop'.batch = loop.batch /\ loop'.todo = loop.todo /\ loop'.failure = loop.failure
      /\ loop'.begun = loop.begun /\ loop'.carried = loop.carried
  BY DEF steer, close, open, IInv, TypeOK, Loop
<1>3. Alive /\ loop.phase = "tools" => Done'
  BY <1>1, <1>2 DEF Follows, Done, InFlight, Picked, CallKey
<1> QED
  BY <1>1, <1>2, <1>3, LoopStays DEF Alive

\* A cancelled run is not replayed.
LEMMA CancelReplay == ASSUME RInv, cancel PROVE Chain' /\ Follows' /\ ReplayFaithful'
<1>1. run'.status = "cancelled" /\ run'.blocked = run.blocked
  BY DEF cancel, RInv, IInv, TypeOK
<1> QED
  BY <1>1, Ended DEF Alive, RInv, ReplayFaithful

\* The operator acts on a run without an attempt.
LEMMA OperatorReplay ==
  ASSUME RInv, retry \/ resolveTool PROVE Chain' /\ Follows' /\ ReplayFaithful'
<1> USE DEF RInv
<1>1. [Next]_vars /\ UNCHANGED <<saved, checkpoints, loop>>
  BY DEF retry, resolveTool, Next, Host
<1>2. /\ run'.epoch = run.epoch /\ run'.blocked = NoKey /\ Alive /\ loop.phase = "none"
  BY DEF retry, resolveTool, IInv, TypeOK, LoopShape, Alive
<1>3. \A k \in ModelKeys : ops'[k].status = ops[k].status
  <2>1. CASE retry
    <3> SUFFICES ASSUME NEW k \in ModelKeys PROVE ops'[k].status = ops[k].status
      OBVIOUS
    <3>1. k \in Keys /\ ops[k] \in Op
      BY KeysTyped, Parts DEF IInv
    <3>2. ops'[k] = ops[k] \/ ops'[k] = [ops[k] EXCEPT !.attempts = 0]
      BY <2>1, <3>1 DEF retry
    <3> QED
      BY <3>1, <3>2 DEF Op
  <2>2. CASE resolveTool
    <3> DEFINE key == run.blocked
    <3>1. key \in ToolKeys
          /\ ops' = [ops EXCEPT ![key].status = "completed", ![key].value = -1]
      BY <2>2 DEF resolveTool
    <3> HIDE DEF key
    <3> QED
      BY <3>1, KeysTyped DEF IInv, TypeOK
  <2> QED
    BY <2>1, <2>2
<1> QED
  BY <1>1, <1>2, <1>3, Idle, KeysTyped

\* A decision begins an epoch the journal knows nothing of.
LEMMA RespondReplay ==
  ASSUME RInv, NEW approved \in BOOLEAN, respond(approved)
  PROVE  Chain' /\ Follows' /\ ReplayFaithful'
<1> USE DEF RInv
<1>1. /\ run.status = "waiting" /\ run.epoch < MaxResponses
      /\ run'.epoch = run.epoch + 1 /\ run'.blocked = run.blocked
      /\ UNCHANGED <<ops, loop>>
  BY DEF respond, IInv, TypeOK
<1>2. loop.phase = "none"
  BY <1>1 DEF IInv, LoopShape
<1>3. Follows'
  BY <1>1, <1>2 DEF Follows
<1>4. run'.epoch \in Epochs /\ run'.epoch > run.epoch
  <2>1. run.epoch \in Nat /\ MaxResponses \in Nat
    BY Parts, Numbers DEF IInv
  <2>2. run.epoch + 1 <= MaxResponses /\ run.epoch + 1 \in Nat /\ run.epoch + 1 > run.epoch
    BY <1>1, <2>1
  <2> QED
    BY <1>1, <2>2, Numbers
<1>5. Chain'
  <2> SUFFICES ASSUME NEW t \in Turns, t + 1 \in Turns,
                      ops'[ModelKey(run'.epoch, t + 1)].status # "none"
               PROVE  FALSE
    BY DEF Chain, Asked
  <2>1. t + 1 \in Turns \ {0}
    BY Numbers
  <2> QED
    BY <1>1, <1>4, <2>1 DEF IInv, Future
<1> QED
  BY <1>1, <1>3, <1>5 DEF ReplayFaithful

-----------------------------------------------------------------------------
(* The theorem.                                                             *)

\* A run that was just admitted has nothing to replay.
LEMMA ReplayInit == Init => RInv
<1> SUFFICES ASSUME Init PROVE RInv
  OBVIOUS
<1>1. IInv
  BY InitHolds
<1>2. loop.phase = "none" /\ run.blocked = NoKey /\ run.epoch = 0
  BY DEF Init, NoLoop
<1>3. Chain
  <2> SUFFICES ASSUME NEW t \in Turns, t + 1 \in Turns PROVE ops[Asked(t + 1)].status = "none"
    BY DEF Chain
  <2>1. t + 1 \in Turns \ {0} /\ run.epoch \in Epochs
    BY <1>2, Numbers
  <2>2. Asked(t + 1) \in Keys
    BY <2>1, KeysTyped DEF Asked
  <2> QED
    BY <2>2 DEF Init, NoOp
<1>4. Follows
  BY <1>2 DEF Follows
<1>5. ReplayFaithful
  BY <1>2, KeysTyped DEF ReplayFaithful
<1> QED
  BY <1>1, <1>3, <1>4, <1>5 DEF RInv

\* Every step keeps the journal replayable.
LEMMA ReplayNext == RInv /\ [Next]_vars => RInv'
<1> SUFFICES ASSUME RInv, [Next]_vars PROVE RInv'
  OBVIOUS
<1>1. IInv'
  BY NextHolds DEF RInv
<1> SUFFICES Chain' /\ Follows' /\ ReplayFaithful'
  BY <1>1 DEF RInv
<1>2. CASE Agent
  <2>1. ASSUME NEW c \in Calls, CarryOut(c) \/ Record(c) \/ RecordFails(c)
        PROVE  Chain' /\ Follows' /\ ReplayFaithful'
    BY <2>1, CarryOutReplay, RecordReplay, RecordFailsReplay
  <2> QED
    BY <1>2, <2>1, StartReplay, DrainReplay, StartModelReplay, BeginAttemptReplay, AnswerReplay,
       ModelFailsReplay, PickCallReplay, SuspendReplay, EndBatchReplay, FinishReplay, LostReplay
       DEF Agent
<1>3. CASE Host
  BY <1>3, HostReplay, RespondReplay, OperatorReplay, CancelReplay, LostReplay DEF Host
<1>4. CASE UNCHANGED vars
  <2>1. UNCHANGED <<run, ops, saved, checkpoints, loop>>
    BY <1>4 DEF vars
  <2>2. Alive /\ loop.phase = "tools" => Done'
    BY <2>1 DEF RInv, Follows, Done, InFlight, Picked, CallKey
  <2> QED
    BY <2>1, <2>2, LoopStays DEF RInv, Alive
<1> QED
  BY <1>2, <1>3, <1>4 DEF Next

\* A new attempt meets the requests the journal holds: no crash, retry, approval or steering
\* request makes a run stop with "Execution changed at a saved checkpoint".
THEOREM ReplayIsFaithful == Spec => []ReplayFaithful
<1>1. RInv => ReplayFaithful
  BY DEF RInv
<1> QED
  BY <1>1, ReplayInit, ReplayNext, PTL DEF Spec

-----------------------------------------------------------------------------
(* The invariant.                                                           *)

\* The calls of the answers in a transcript are followed by their results; the results of
\* the given calls are still to come.
Owed(heard, calls) ==
  \A i \in DOMAIN heard : heard[i][1] = "model" =>
    \A j \in DOMAIN heard[i][2] :
      \/ i + j \in DOMAIN heard /\ heard[i + j][1] = "tool" /\ heard[i + j][2] = heard[i][2][j]
      \/ \E k \in DOMAIN calls : i + j = Len(heard) + k /\ calls[k] = heard[i][2][j]

\* What is kept with the outcome owes the calls the next segment begins with.
Spoken ==
  /\ Owed(saved.heard, saved.pending \o saved.rest)
  /\ run.status = "completed" \/ (Alive /\ run.epoch = 0) =>
       saved.pending = <<>> /\ saved.rest = <<>>

\* The inbox is closed behind the boundary of a final answer, and only there.
Fence ==
  /\ inbox.closed => inbox.pending = <<>>
  /\ run.status = "completed" => inbox.closed
  /\ \A b \in DOMAIN checkpoints : b[1] <= run.epoch
  /\ \A t \in Turns \ {0} : Boundary(t) \in DOMAIN checkpoints =>
       /\ ops[Asked(t)].status = "completed"
       /\ ops[Asked(t)].answer = <<>> /\ checkpoints[Boundary(t)] = <<>> => inbox.closed

\* A request is in one place.
Separate ==
  /\ Distinct(inbox.pending)
  /\ \A b \in DOMAIN checkpoints :
       /\ Distinct(checkpoints[b])
       /\ Elems(checkpoints[b]) \cap Elems(inbox.pending) = {}
       /\ \A d \in DOMAIN checkpoints \ {b} : Elems(checkpoints[b]) \cap Elems(checkpoints[d]) = {}

\* A transcript has the requests of some boundaries, each once.
OnceIn(heard, from, points) ==
  \A i \in DOMAIN heard : heard[i][1] = "steer" =>
    /\ \A j \in DOMAIN heard : heard[i] = heard[j] => i = j
    /\ \E b \in from : heard[i][2] \in Elems(points[b])
Once(heard, from) == OnceIn(heard, from, checkpoints)

\* The boundaries of earlier epochs, and of this one before its n-th.
Passed(e, n) == {b \in DOMAIN checkpoints : b[1] < e \/ (b[1] = e /\ b[2] < n)}

Counted == Once(saved.heard, IF Alive THEN Passed(run.epoch, 0) ELSE DOMAIN checkpoints)

\* The loop at work.
Speaking ==
  /\ loop.phase = "tools" => Owed(loop.heard, loop.batch)
  /\ loop.phase \notin {"none", "tools"} => Owed(loop.heard, <<>>)
  /\ loop.phase = "finish" => inbox.closed
  /\ loop.phase \in {"tools", "drain"} /\ loop.turn > 0 =>
       ops[Asked(loop.turn)].status = "completed" /\ ops[Asked(loop.turn)].answer # <<>>
  /\ loop.phase = "closing" => /\ ops[Asked(loop.turn)].status = "completed"
                               /\ ops[Asked(loop.turn)].answer = <<>>
  /\ loop.phase # "none" => Once(loop.heard, Passed(run.epoch, loop.boundary))
  /\ loop.phase = "none" => loop.heard = <<>>

Told == Spoken /\ Fence /\ Separate /\ Counted
TInv == RInv /\ Told /\ Speaking

-----------------------------------------------------------------------------
(* Transcripts.                                                             *)

\* A sequence and another one behind it.
LEMMA Joined ==
  ASSUME NEW S, NEW s \in Seq(S), NEW r \in Seq(S)
  PROVE  /\ s \o r \in Seq(S) /\ Len(s \o r) = Len(s) + Len(r)
         /\ Len(s) \in Nat /\ Len(r) \in Nat
         /\ DOMAIN s = 1..Len(s) /\ DOMAIN r = 1..Len(r) /\ DOMAIN (s \o r) = 1..(Len(s) + Len(r))
         /\ \A i \in DOMAIN s : i \in DOMAIN (s \o r) /\ (s \o r)[i] = s[i]
         /\ \A i \in DOMAIN r : Len(s) + i \in DOMAIN (s \o r) /\ (s \o r)[Len(s) + i] = r[i]
         /\ \A i \in DOMAIN (s \o r) : i \in DOMAIN s \/ \E k \in DOMAIN r : i = Len(s) + k
<1>1. /\ s \o r \in Seq(S) /\ Len(s \o r) = Len(s) + Len(r) /\ Len(s) \in Nat /\ Len(r) \in Nat
      /\ DOMAIN s = 1..Len(s) /\ DOMAIN r = 1..Len(r) /\ DOMAIN (s \o r) = 1..(Len(s) + Len(r))
  OBVIOUS
<1>2. \A i \in 1..(Len(s) + Len(r)) :
         (s \o r)[i] = IF i <= Len(s) THEN s[i] ELSE r[i - Len(s)]
  BY ConcatProperties
<1>3. \A i \in DOMAIN s : i \in DOMAIN (s \o r) /\ (s \o r)[i] = s[i]
  BY <1>1, <1>2
<1>4. \A i \in DOMAIN r : Len(s) + i \in DOMAIN (s \o r) /\ (s \o r)[Len(s) + i] = r[i]
  <2> TAKE i \in DOMAIN r
  <2>1. /\ i \in Nat /\ i <= Len(r) /\ Len(s) + i \in 1..(Len(s) + Len(r))
        /\ ~(Len(s) + i <= Len(s)) /\ (Len(s) + i) - Len(s) = i
    BY <1>1
  <2> QED
    BY <1>1, <1>2, <2>1
<1>5. \A i \in DOMAIN (s \o r) : i \in DOMAIN s \/ \E k \in DOMAIN r : i = Len(s) + k
  <2> TAKE i \in DOMAIN (s \o r)
  <2>1. CASE i <= Len(s)
    BY <1>1, <2>1
  <2>2. CASE ~(i <= Len(s))
    <3>1. i - Len(s) \in DOMAIN r /\ i = Len(s) + (i - Len(s))
      BY <1>1, <2>2
    <3> QED
      BY <3>1
  <2> QED
    BY <2>1, <2>2
<1> QED
  BY <1>1, <1>3, <1>4, <1>5

\* Results that were owed are owed no more.
LEMMA OwedPaid ==
  ASSUME NEW heard \in Seq(Items), NEW calls \in Seq(Calls), Owed(heard, calls),
         NEW results \in Seq(Items), NEW rest \in Seq(Calls),
         Len(calls) = Len(results) + Len(rest),
         \A i \in DOMAIN results : results[i][1] = "tool" /\ results[i][2] = calls[i],
         \A i \in DOMAIN rest : rest[i] = calls[Len(results) + i]
  PROVE  Owed(heard \o results, rest)
<1> DEFINE all == heard \o results
<1>1. /\ Len(all) = Len(heard) + Len(results) /\ Len(heard) \in Nat /\ Len(results) \in Nat
      /\ DOMAIN results = 1..Len(results)
      /\ \A i \in DOMAIN heard : i \in DOMAIN all /\ all[i] = heard[i]
      /\ \A i \in DOMAIN results : Len(heard) + i \in DOMAIN all /\ all[Len(heard) + i] = results[i]
      /\ \A i \in DOMAIN all : i \in DOMAIN heard \/ \E k \in DOMAIN results : i = Len(heard) + k
  <2>1. heard \in Seq(Items) /\ results \in Seq(Items)
    OBVIOUS
  <2> QED
    BY ONLY <2>1, Joined
<1>2. /\ DOMAIN rest = 1..Len(rest) /\ DOMAIN calls = 1..Len(calls) /\ Len(rest) \in Nat
      /\ DOMAIN heard = 1..Len(heard)
  OBVIOUS
<1> HIDE DEF all
<1> SUFFICES ASSUME NEW i \in DOMAIN all, all[i][1] = "model", NEW j \in DOMAIN all[i][2]
             PROVE  \/ i + j \in DOMAIN all /\ all[i + j][1] = "tool" /\ all[i + j][2] = all[i][2][j]
                    \/ \E k \in DOMAIN rest : i + j = Len(all) + k /\ rest[k] = all[i][2][j]
  BY DEF Owed, all
<1>3. i \in DOMAIN heard /\ all[i] = heard[i]
  BY <1>1
<1>4. \/ i + j \in DOMAIN heard /\ heard[i + j][1] = "tool" /\ heard[i + j][2] = heard[i][2][j]
      \/ \E k \in DOMAIN calls : i + j = Len(heard) + k /\ calls[k] = heard[i][2][j]
  BY <1>3 DEF Owed
<1>5. CASE i + j \in DOMAIN heard /\ heard[i + j][1] = "tool" /\ heard[i + j][2] = heard[i][2][j]
  BY <1>1, <1>3, <1>5
<1>6. ASSUME NEW k \in DOMAIN calls, i + j = Len(heard) + k, calls[k] = heard[i][2][j]
      PROVE  \/ i + j \in DOMAIN all /\ all[i + j][1] = "tool" /\ all[i + j][2] = all[i][2][j]
             \/ \E n \in DOMAIN rest : i + j = Len(all) + n /\ rest[n] = all[i][2][j]
  <2>1. CASE k <= Len(results)
    <3>1. k \in DOMAIN results
      BY <1>1, <1>2, <2>1
    <3> QED
      BY <1>1, <1>3, <1>6, <3>1
  <2>2. CASE ~(k <= Len(results))
    <3>1. /\ k - Len(results) \in DOMAIN rest /\ k = Len(results) + (k - Len(results))
          /\ Len(heard) + k = (Len(heard) + Len(results)) + (k - Len(results))
      BY <1>1, <1>2, <2>2
    <3> QED
      BY <1>1, <1>3, <1>6, <3>1
  <2> QED
    BY <2>1, <2>2
<1> QED
  BY <1>4, <1>5, <1>6

\* An answer owes its calls.
LEMMA OwedAnswer ==
  ASSUME NEW heard \in Seq(Items), Owed(heard, <<>>), NEW answer \in Answers
  PROVE  Owed(Append(heard, Said(answer)), answer)
<1> DEFINE all == Append(heard, Said(answer))
<1>1. /\ answer \in Seq(Calls) /\ Said(answer) \in Items
      /\ Said(answer)[1] = "model" /\ Said(answer)[2] = answer
  BY ExecutionAssumption, ItemsTyped DEF Said
<1>2. /\ Len(all) = Len(heard) + 1 /\ Len(heard) \in Nat /\ DOMAIN all = 1..(Len(heard) + 1)
      /\ DOMAIN heard = 1..Len(heard)
      /\ \A i \in DOMAIN heard : i \in DOMAIN all /\ all[i] = heard[i]
      /\ all[Len(heard) + 1] = Said(answer)
      /\ DOMAIN answer = 1..Len(answer)
  BY <1>1
<1> HIDE DEF all
<1> SUFFICES ASSUME NEW i \in DOMAIN all, all[i][1] = "model", NEW j \in DOMAIN all[i][2]
             PROVE  \/ i + j \in DOMAIN all /\ all[i + j][1] = "tool" /\ all[i + j][2] = all[i][2][j]
                    \/ \E k \in DOMAIN answer : i + j = Len(all) + k /\ answer[k] = all[i][2][j]
  BY DEF Owed, all
<1>3. CASE i \in DOMAIN heard
  <2>1. i + j \in DOMAIN heard /\ heard[i + j][1] = "tool" /\ heard[i + j][2] = heard[i][2][j]
    BY <1>2, <1>3 DEF Owed
  <2> QED
    BY <1>2, <1>3, <2>1
<1>4. CASE i \notin DOMAIN heard
  <2>1. i = Len(heard) + 1
    BY <1>2, <1>4
  <2>2. all[i][2] = answer /\ j \in DOMAIN answer /\ i + j = Len(all) + j
    BY <1>1, <1>2, <2>1
  <2> QED
    BY <2>2
<1> QED
  BY <1>3, <1>4

\* Nothing is owed by what is not an answer.
LEMMA OwedHeard ==
  ASSUME NEW heard \in Seq(Items), Owed(heard, <<>>), NEW more \in Seq(Items),
         \A i \in DOMAIN more : more[i][1] # "model"
  PROVE  Owed(heard \o more, <<>>)
<1> DEFINE all == heard \o more
<1>1. /\ \A i \in DOMAIN heard : i \in DOMAIN all /\ all[i] = heard[i]
      /\ \A i \in DOMAIN more : Len(heard) + i \in DOMAIN all /\ all[Len(heard) + i] = more[i]
      /\ \A i \in DOMAIN all : i \in DOMAIN heard \/ \E k \in DOMAIN more : i = Len(heard) + k
  BY Joined
<1> HIDE DEF all
<1> SUFFICES ASSUME NEW i \in DOMAIN all, all[i][1] = "model", NEW j \in DOMAIN all[i][2]
             PROVE  i + j \in DOMAIN all /\ all[i + j][1] = "tool" /\ all[i + j][2] = all[i][2][j]
  BY DEF Owed, all
<1>2. i \in DOMAIN heard /\ all[i] = heard[i]
  BY <1>1
<1>3. i + j \in DOMAIN heard /\ heard[i + j][1] = "tool" /\ heard[i + j][2] = heard[i][2][j]
  BY <1>2 DEF Owed
<1> QED
  BY <1>1, <1>2, <1>3

\* A transcript that owes nothing is answered.
LEMMA OwedNothing ==
  ASSUME NEW heard \in Seq(Items), Owed(heard, <<>>)
  PROVE  Answered(heard)
<1> SUFFICES ASSUME NEW i \in DOMAIN heard, heard[i][1] = "model", NEW j \in DOMAIN heard[i][2]
             PROVE  i + j <= Len(heard) /\ heard[i + j][1] = "tool"
                                        /\ heard[i + j][2] = heard[i][2][j]
  BY DEF Answered
<1>1. i + j \in DOMAIN heard /\ heard[i + j][1] = "tool" /\ heard[i + j][2] = heard[i][2][j]
  BY DEF Owed
<1> QED
  BY <1>1

\* What is not a request does not count.
LEMMA OnceQuiet ==
  ASSUME NEW heard \in Seq(Items), NEW from, Once(heard, from), NEW more \in Seq(Items),
         \A i \in DOMAIN more : more[i][1] # "steer"
  PROVE  Once(heard \o more, from)
<1> DEFINE all == heard \o more
<1>1. /\ \A i \in DOMAIN heard : i \in DOMAIN all /\ all[i] = heard[i]
      /\ \A i \in DOMAIN more : Len(heard) + i \in DOMAIN all /\ all[Len(heard) + i] = more[i]
      /\ \A i \in DOMAIN all : i \in DOMAIN heard \/ \E k \in DOMAIN more : i = Len(heard) + k
  BY Joined
<1> HIDE DEF all
<1>2. \A i \in DOMAIN all : all[i][1] = "steer" => i \in DOMAIN heard /\ all[i] = heard[i]
  BY <1>1
<1>3. Once(all, from)
  BY <1>2 DEF Once, OnceIn
<1> QED
  BY <1>3 DEF all

\* The requests of a further boundary are new to the transcript.
LEMMA OnceDrained ==
  ASSUME NEW heard \in Seq(Items), NEW points, NEW from \in SUBSET DOMAIN points,
         OnceIn(heard, from, points),
         NEW b \in DOMAIN points \ from, points[b] \in Seq(Inputs),
         Distinct(points[b]),
         \A d \in from : Elems(points[b]) \cap Elems(points[d]) = {}
  PROVE  OnceIn(heard \o [i \in DOMAIN points[b] |-> Heard(points[b][i])], from \cup {b}, points)
<1> DEFINE more == [i \in DOMAIN points[b] |-> Heard(points[b][i])]
           all == heard \o more
<1>1. /\ more \in Seq(Items) /\ DOMAIN more = DOMAIN points[b]
      /\ \A i \in DOMAIN more : more[i] = <<"steer", points[b][i], 0>>
  BY ItemsTyped DEF Heard
<1> HIDE DEF more
<1>2. /\ \A i \in DOMAIN heard : i \in DOMAIN all /\ all[i] = heard[i]
      /\ \A i \in DOMAIN more : Len(heard) + i \in DOMAIN all /\ all[Len(heard) + i] = more[i]
      /\ \A i \in DOMAIN all : i \in DOMAIN heard \/ \E k \in DOMAIN more : i = Len(heard) + k
  BY <1>1, Joined
<1> HIDE DEF all
<1>3. \A i \in DOMAIN heard : heard[i][1] = "steer" =>
         heard[i][2] \notin Elems(points[b])
  BY DEF OnceIn
<1>4. \A k \in DOMAIN more : more[k][1] = "steer" /\ more[k][2] \in Elems(points[b])
  BY <1>1 DEF Elems
<1>5. \A k, n \in DOMAIN more : more[k] = more[n] => k = n
  BY <1>1 DEF Distinct
<1>6. ASSUME NEW i \in DOMAIN all, all[i][1] = "steer"
      PROVE  /\ \A j \in DOMAIN all : all[i] = all[j] => i = j
             /\ \E d \in from \cup {b} : all[i][2] \in Elems(points[d])
  <2>1. CASE i \in DOMAIN heard
    <3>1. heard[i][1] = "steer" /\ all[i] = heard[i]
      BY <1>2, <1>6, <2>1
    <3>2. \A j \in DOMAIN heard : heard[i] = heard[j] => i = j
      BY <2>1, <3>1 DEF OnceIn
    <3>3. \E d \in from : heard[i][2] \in Elems(points[d])
      BY <2>1, <3>1 DEF OnceIn
    <3>4. \A k \in DOMAIN more : heard[i] # more[k]
      BY <1>3, <1>4, <2>1, <3>1
    <3> QED
      BY <1>2, <3>1, <3>2, <3>3, <3>4
  <2>2. ASSUME NEW k \in DOMAIN more, i = Len(heard) + k
        PROVE  /\ \A j \in DOMAIN all : all[i] = all[j] => i = j
               /\ \E d \in from \cup {b} : all[i][2] \in Elems(points[d])
    <3>1. all[i] = more[k]
      BY <1>2, <2>2
    <3>2. \A j \in DOMAIN heard : all[j] # all[i]
      BY <1>2, <1>3, <1>4, <3>1
    <3> QED
      BY <1>2, <1>4, <1>5, <2>2, <3>1, <3>2
  <2> QED
    BY <1>2, <2>1, <2>2
<1>7. OnceIn(all, from \cup {b}, points)
  BY <1>6 DEF OnceIn
<1> QED
  BY <1>7 DEF all, more

-----------------------------------------------------------------------------
(* Steps that leave most of it alone.                                       *)

\* A step that writes neither the inbox nor the outcome.
LEMMA ToldKept ==
  ASSUME TInv, [Next]_vars, UNCHANGED <<inbox, checkpoints, saved>>, run'.epoch = run.epoch,
         Alive' => Alive, run'.status = "completed" => run.status = "completed"
  PROVE  Told'
<1> USE DEF TInv, Told
<1>1. IInv /\ Grows
  BY JournalGrows DEF RInv
<1>2. Spoken'
  BY DEF Spoken
<1>3. Fence'
  <2>1. run.epoch \in Epochs
    BY <1>1, Parts DEF IInv
  <2>2. \A t \in Turns \ {0} : Asked(t)' = Asked(t) /\ Boundary(t)' = Boundary(t) /\ Asked(t) \in Keys
    BY <2>1, KeysTyped DEF Asked, Boundary
  <2>3. \A t \in Turns \ {0} : ops[Asked(t)].status = "completed" => ops'[Asked(t)] = ops[Asked(t)]
    BY <1>1, <2>2 DEF Grows
  <2> QED
    BY <2>2, <2>3 DEF Fence
<1>4. Separate'
  BY DEF Separate
<1>5. Counted'
  <2>1. Passed(run.epoch, 0) \subseteq DOMAIN checkpoints
    BY DEF Passed
  <2> QED
    BY <2>1 DEF Counted, Once, OnceIn, Passed
<1> QED
  BY <1>2, <1>3, <1>4, <1>5

\* An attempt that ends says no more.
LEMMA Silent ==
  ASSUME loop'.phase = "none", loop'.heard = <<>>
  PROVE  Speaking'
BY DEF Speaking

\* The loop stays where it is.
LEMMA SpeakingKept ==
  ASSUME TInv, [Next]_vars, UNCHANGED checkpoints, inbox'.closed = inbox.closed,
         run'.epoch = run.epoch,
         loop'.phase = loop.phase, loop'.turn = loop.turn, loop'.boundary = loop.boundary,
         loop'.heard = loop.heard, loop'.batch = loop.batch
  PROVE  Speaking'
<1> USE DEF TInv
<1>1. IInv /\ Grows
  BY JournalGrows DEF RInv
<1>2. run.epoch \in Epochs /\ loop.turn \in Turns /\ loop.turn \in Nat
  BY <1>1, Parts, Numbers DEF IInv
<1>3. loop.turn > 0 => Asked(loop.turn)' = Asked(loop.turn) /\ Asked(loop.turn) \in Keys
  BY <1>2, KeysTyped DEF Asked
<1>4. loop.turn > 0 /\ ops[Asked(loop.turn)].status = "completed" =>
         ops'[Asked(loop.turn)] = ops[Asked(loop.turn)]
  BY <1>1, <1>3 DEF Grows
<1>5. Passed(run.epoch, loop.boundary)' = Passed(run.epoch, loop.boundary)
  BY DEF Passed
<1>6. loop.phase = "closing" => loop.turn > 0
  BY <1>1 DEF IInv, LoopShape
<1>7. loop.phase # "none" => Once(loop.heard, Passed(run.epoch, loop.boundary))'
  BY <1>5 DEF Speaking, Once, OnceIn
<1> QED
  BY <1>3, <1>4, <1>6, <1>7 DEF Speaking

\* The loop turns to an answer of the journal.
LEMMA DigestTold ==
  ASSUME TInv, NEW turn \in Turns \ {0}, NEW answer \in Answers,
         loop' = Digest(turn, answer), run'.epoch = run.epoch, UNCHANGED checkpoints,
         loop.phase \notin {"none", "tools"},
         ops'[Asked(turn)].status = "completed", ops'[Asked(turn)].answer = answer
  PROVE  Speaking'
<1> USE DEF TInv, RInv, IInv
<1>1. /\ loop'.phase = (IF answer = <<>> THEN "closing" ELSE "tools")
      /\ loop'.turn = turn /\ loop'.heard = Append(loop.heard, Said(answer))
      /\ loop'.batch = answer /\ loop'.boundary = loop.boundary
  BY DEF TypeOK, Loop, Digest
<1>2. loop.heard \in Seq(Items) /\ Said(answer) \in Items /\ Said(answer)[1] # "steer"
  BY Parts, ItemsTyped DEF Said
<1>3. Owed(loop'.heard, answer)
  BY <1>1, <1>2, OwedAnswer DEF Speaking
<1>4. Once(loop.heard, Passed(run.epoch, loop.boundary))
  BY DEF Speaking
<1>5. Once(loop'.heard, Passed(run.epoch, loop.boundary))
  <2>1. /\ DOMAIN loop'.heard = 1..(Len(loop.heard) + 1) /\ DOMAIN loop.heard = 1..Len(loop.heard)
        /\ Len(loop.heard) \in Nat
        /\ \A i \in DOMAIN loop.heard : loop'.heard[i] = loop.heard[i]
        /\ loop'.heard[Len(loop.heard) + 1] = Said(answer)
    BY <1>1, <1>2
  <2>2. \A i \in DOMAIN loop'.heard : loop'.heard[i][1] = "steer" => i \in DOMAIN loop.heard
    BY <1>2, <2>1
  <2> QED
    BY <1>4, <2>1, <2>2 DEF Once, OnceIn
<1>6. Once(loop.heard, Passed(run.epoch, loop.boundary))'
  BY <1>1, <1>5 DEF Once, OnceIn, Passed
<1>7. Asked(turn)' = Asked(turn)
  BY DEF Asked
<1>8. CASE answer = <<>>
  <2>1. loop'.phase = "closing"
    BY <1>1, <1>8
  <2>2. Owed(loop'.heard, <<>>)
    BY <1>3, <1>8
  <2> QED
    BY <1>1, <1>6, <1>7, <1>8, <2>1, <2>2 DEF Speaking
<1>9. CASE answer # <<>>
  <2>1. loop'.phase = "tools"
    BY <1>1, <1>9
  <2>2. Owed(loop'.heard, loop'.batch)
    BY <1>1, <1>3
  <2> QED
    BY <1>1, <1>6, <1>7, <1>9, <2>1, <2>2 DEF Speaking
<1> QED
  BY <1>8, <1>9

-----------------------------------------------------------------------------
(* One lemma per action.                                                    *)

\* An attempt begins with what the segment was told.
LEMMA StartTold == ASSUME TInv, Start PROVE Told' /\ Speaking'
<1> USE DEF TInv, Told, RInv
<1>1. [Next]_vars /\ UNCHANGED <<inbox, checkpoints, saved, ops>>
  BY DEF Start, Next, Agent
<1>2. /\ run'.epoch = run.epoch /\ run'.status = "running" /\ Alive
  BY DEF Start, IInv, TypeOK, Runnable, Alive
<1>3. Told'
  BY <1>1, <1>2, ToldKept
<1> DEFINE results == IF run.epoch > 0 /\ ~saved.approved
                        THEN <<Result(Head(saved.pending), 0)>> ELSE <<>>
<1>4. /\ loop'.phase = (IF run.epoch > 0 THEN "tools" ELSE "drain")
      /\ loop'.turn = 0 /\ loop'.boundary = 0
      /\ loop'.heard = saved.heard \o results /\ loop'.batch = SegmentCalls
  BY DEF Start, NoLoop, SegmentCalls
<1>5. saved.heard \in Seq(Items) /\ saved.pending \in Seq(Calls) /\ saved.rest \in Seq(Calls)
      /\ saved.heard \o <<>> = saved.heard
  <2>1. saved.heard \in Seq(Items) /\ saved.pending \in Seq(Calls) /\ saved.rest \in Seq(Calls)
    BY Parts DEF IInv
  <2> QED
    BY <2>1, ConcatEmptySeq
<1>6. results \in Seq(Items) /\ \A i \in DOMAIN results : results[i][1] = "tool"
  <2>1. CASE run.epoch > 0 /\ ~saved.approved
    <3>1. InSegment
      BY <1>2, <2>1 DEF InSegment, Alive
    <3>2. Len(saved.pending) = 1
      BY <3>1 DEF IInv, Segment
    <3>3. Head(saved.pending) \in Calls
      BY <3>2, SegmentTyped DEF IInv
    <3>4. Result(Head(saved.pending), 0) \in Items
      BY <3>3, ItemsTyped DEF Values
    <3> QED
      BY <2>1, <3>4 DEF Result
  <2>2. CASE ~(run.epoch > 0 /\ ~saved.approved)
    BY <2>2
  <2> QED
    BY <2>1, <2>2
<1>7. Once(loop.heard, Passed(run.epoch, loop.boundary))'
  <2>1. Once(saved.heard, Passed(run.epoch, 0))
    BY <1>2 DEF Counted
  <2>2. Once(saved.heard \o results, Passed(run.epoch, 0))
    BY <1>5, <1>6, <2>1, OnceQuiet
  <2> QED
    <3>1. Passed(run.epoch, loop.boundary)' = Passed(run.epoch, 0)
      BY <1>1, <1>2, <1>4 DEF Passed
    <3>2. loop'.heard = saved.heard \o results
      BY <1>4
    <3> HIDE DEF results
    <3> QED
      BY <1>1, <2>2, <3>1, <3>2 DEF Once, OnceIn
<1>8. CASE run.epoch > 0
  <2>1. loop'.phase = "tools"
    BY <1>4, <1>8
  <2>2. Owed(loop'.heard, loop'.batch)
    <3>1. CASE saved.approved
      BY <1>4, <1>5, <3>1 DEF Spoken, SegmentCalls
    <3>2. CASE ~saved.approved
      <4>1. InSegment
        BY <1>2, <1>8 DEF InSegment, Alive
      <4>2. Len(saved.pending) = 1
        BY <4>1 DEF IInv, Segment
      <4> DEFINE calls == saved.pending \o saved.rest
      <4>3. /\ calls \in Seq(Calls) /\ Len(calls) = 1 + Len(saved.rest)
            /\ calls[1] = Head(saved.pending)
            /\ \A i \in DOMAIN saved.rest : saved.rest[i] = calls[1 + i]
        <5>1. /\ calls \in Seq(Calls) /\ Len(calls) = Len(saved.pending) + Len(saved.rest)
              /\ \A i \in DOMAIN saved.pending : calls[i] = saved.pending[i]
              /\ \A i \in DOMAIN saved.rest : calls[Len(saved.pending) + i] = saved.rest[i]
          <6> SUFFICES ASSUME NEW s \in Seq(Calls), NEW r \in Seq(Calls)
                       PROVE  /\ s \o r \in Seq(Calls) /\ Len(s \o r) = Len(s) + Len(r)
                              /\ \A i \in DOMAIN s : (s \o r)[i] = s[i]
                              /\ \A i \in DOMAIN r : (s \o r)[Len(s) + i] = r[i]
            BY <1>5
          <6> QED
            BY Joined
        <5>2. 1 \in DOMAIN saved.pending /\ Head(saved.pending) = saved.pending[1]
          BY <1>5, <4>2
        <5> HIDE DEF calls
        <5> QED
          BY <4>2, <5>1, <5>2
      <4>4. /\ Len(results) = 1 /\ DOMAIN results = {1}
            /\ results[1] = Result(Head(saved.pending), 0)
        BY <1>8, <3>2
      <4> HIDE DEF calls, results
      <4>5. \A i \in DOMAIN results : results[i][1] = "tool" /\ results[i][2] = calls[i]
        BY <4>3, <4>4 DEF Result
      <4>6. Owed(saved.heard, calls)
        BY DEF Spoken, calls
      <4>7. Owed(saved.heard \o results, saved.rest)
        <5>1. Len(calls) = Len(results) + Len(saved.rest)
          BY <4>3, <4>4
        <5>2. \A i \in DOMAIN saved.rest : saved.rest[i] = calls[Len(results) + i]
          BY <4>3, <4>4
        <5>3. results \in Seq(Items) /\ calls \in Seq(Calls) /\ saved.rest \in Seq(Calls)
              /\ saved.heard \in Seq(Items)
          BY <1>5, <1>6, <4>3 DEF results
        <5> QED
          BY <4>5, <4>6, <5>1, <5>2, <5>3, OwedPaid
      <4> QED
        BY <1>4, <3>2, <4>7 DEF SegmentCalls, results
    <3> QED
      BY <3>1, <3>2
  <2> QED
    <3>1. loop'.turn = 0 /\ ~(0 > 0)
      BY <1>4
    <3> QED
      BY <1>3, <1>7, <2>1, <2>2, <3>1 DEF Speaking
<1>9. CASE ~(run.epoch > 0)
  <2>1. loop'.phase = "drain"
    BY <1>4, <1>9
  <2>2. run.epoch = 0
    <3>1. run.epoch \in Nat
      BY Parts, Numbers DEF IInv
    <3> QED
      BY <1>9, <3>1
  <2>3. saved.pending \o saved.rest = <<>> /\ loop'.heard = saved.heard
    BY <1>2, <1>4, <1>5, <1>9, <2>2 DEF Spoken
  <2>4. Owed(loop'.heard, <<>>)
    BY <2>3 DEF Spoken
  <2>5. loop'.turn = 0 /\ ~(0 > 0)
    BY <1>4
  <2> QED
    BY <1>3, <1>7, <2>1, <2>4, <2>5 DEF Speaking
<1> QED
  BY <1>8, <1>9

\* A turn that is recorded, met again, or refused.
LEMMA StartModelTold == ASSUME TInv, StartModel PROVE Told' /\ Speaking'
<1> USE DEF TInv, RInv
<1> DEFINE turn == loop.turn + 1
           key == ModelKey(run.epoch, turn)
           new == turn <= MaxModelTurns => ops[key].status = "none"
<1>1. [Next]_vars /\ UNCHANGED <<inbox, saved, checkpoints>>
  BY DEF StartModel, Next, Agent
<1>2. /\ loop.phase = "model" /\ Alive /\ run.status = "running"
      /\ turn \in Nat \ {0} /\ key = Asked(turn)
  <2>1. loop.phase = "model" /\ ~loop.aborted
    BY DEF StartModel, At
  <2>2. loop.turn \in Nat
    BY Parts, Numbers DEF IInv
  <2>3. run.status = "running"
    BY <2>1 DEF IInv, LoopShape
  <2> QED
    BY <2>1, <2>2, <2>3 DEF Alive, Asked
<1>3. CASE EndAttempt("failed", NoKey) \/ EndAttempt("needs_attention", key)
  <2> HIDE DEF key, new
  <2>1. /\ loop'.phase = "none" /\ loop'.heard = <<>> /\ run'.epoch = run.epoch
        /\ run'.status # "completed"
    <3>1. ASSUME NEW status \in {"failed", "needs_attention"}, NEW k, EndAttempt(status, k)
          PROVE  /\ loop'.phase = "none" /\ loop'.heard = <<>> /\ run'.epoch = run.epoch
                 /\ run'.status # "completed"
      BY <3>1 DEF EndAttempt, NoLoop, IInv, TypeOK
    <3> QED
      BY <1>3, <3>1
  <2> QED
    BY <1>1, <1>2, <2>1, ToldKept, Silent
<1>4. CASE /\ loop' = [loop EXCEPT !.phase = "begin", !.turn = turn]
           /\ run' = run \/ run' = [run EXCEPT !.turns = @ + 1]
  <2>1. /\ loop'.phase = "begin" /\ loop'.boundary = loop.boundary /\ loop'.heard = loop.heard
        /\ run'.epoch = run.epoch /\ run'.status = run.status
    BY <1>4 DEF IInv, TypeOK, Loop
  <2>2. Told'
    BY <1>1, <1>2, <2>1, ToldKept
  <2>3. Passed(run.epoch, loop.boundary)' = Passed(run.epoch, loop.boundary)
    BY <1>1, <2>1 DEF Passed
  <2>4. Once(loop.heard, Passed(run.epoch, loop.boundary))'
    BY <1>1, <1>2, <2>1, <2>3 DEF Speaking, Once, OnceIn
  <2>5. Owed(loop'.heard, <<>>)
    BY <1>2, <2>1 DEF Speaking
  <2> QED
    BY <2>1, <2>2, <2>4, <2>5 DEF Speaking
<1>5. CASE /\ ~new /\ ops[key].status = "completed" /\ UNCHANGED <<run, ops>>
           /\ loop' = Digest(turn, ops[key].answer)
  <2>1. turn \in Turns \ {0}
    BY <1>2, <1>5 DEF Turns
  <2>2. ops[key].answer \in Answers /\ run.epoch \in Epochs
    BY <1>2, <1>5, <2>1, Parts DEF IInv, AnswersFirst
  <2>3. Told'
    BY <1>1, <1>2, <1>5, ToldKept DEF Alive
  <2>4. Speaking'
    BY <1>1, <1>2, <1>5, <2>1, <2>2, DigestTold
  <2> QED
    BY <2>3, <2>4
<1>6. \/ EndAttempt("failed", NoKey) \/ EndAttempt("needs_attention", key)
      \/ /\ loop' = [loop EXCEPT !.phase = "begin", !.turn = turn]
         /\ run' = run \/ run' = [run EXCEPT !.turns = @ + 1]
      \/ /\ ~new /\ ops[key].status = "completed" /\ UNCHANGED <<run, ops>>
         /\ loop' = Digest(turn, ops[key].answer)
  BY DEF StartModel
<1> QED
  BY <1>3, <1>4, <1>5, <1>6

\* Sending a request adds nothing to the transcript.
LEMMA BeginAttemptTold == ASSUME TInv, BeginAttempt PROVE Told' /\ Speaking'
<1> USE DEF TInv, RInv
<1>1. [Next]_vars /\ UNCHANGED <<inbox, saved, checkpoints>>
  BY DEF BeginAttempt, Next, Agent
<1>2. loop.phase = "begin" /\ Alive
  BY DEF BeginAttempt, At, IInv, LoopShape, Alive
<1>3. CASE EndAttempt("failed", NoKey)
  <2>1. /\ loop'.phase = "none" /\ loop'.heard = <<>> /\ run'.epoch = run.epoch
        /\ run'.status # "completed"
    BY <1>3 DEF EndAttempt, NoLoop, IInv, TypeOK
  <2> QED
    BY <1>1, <1>2, <2>1, ToldKept, Silent
<1>4. CASE loop' = [loop EXCEPT !.phase = "asking"] /\ UNCHANGED run
  <2>1. /\ loop'.phase = "asking" /\ loop'.boundary = loop.boundary /\ loop'.heard = loop.heard
    BY <1>4 DEF IInv, TypeOK, Loop
  <2>2. Told'
    BY <1>1, <1>2, <1>4, ToldKept
  <2>3. Passed(run.epoch, loop.boundary)' = Passed(run.epoch, loop.boundary)
    BY <1>1, <1>4, <2>1 DEF Passed
  <2>4. Once(loop.heard, Passed(run.epoch, loop.boundary))'
    BY <1>1, <1>2, <2>1, <2>3 DEF Speaking, Once, OnceIn
  <2>5. Owed(loop'.heard, <<>>)
    BY <1>2, <2>1 DEF Speaking
  <2> QED
    BY <2>1, <2>2, <2>4, <2>5 DEF Speaking
<1> QED
  BY <1>3, <1>4 DEF BeginAttempt

\* An answer follows the request it was given to.
LEMMA AnswerTold == ASSUME TInv, NEW answer \in Answers, Answer(answer) PROVE Told' /\ Speaking'
<1> USE DEF TInv, RInv
<1> DEFINE key == ModelKey(run.epoch, loop.turn)
<1>1. [Next]_vars /\ UNCHANGED <<run, inbox, saved, checkpoints>>
      /\ loop' = Digest(loop.turn, answer)
      /\ ops' = [ops EXCEPT ![key].status = "completed", ![key].answer = answer]
  BY DEF Answer, Next, Agent
<1>2. /\ loop.phase = "asking" /\ loop.turn \in Turns \ {0} /\ run.epoch \in Epochs
      /\ key = Asked(loop.turn)
  <2>1. loop.phase = "asking"
    BY DEF Answer, At
  <2>2. loop.turn \in Turns /\ loop.turn \in Nat /\ run.epoch \in Epochs
    BY Parts, Numbers DEF IInv
  <2>3. loop.turn > 0
    BY <2>1 DEF IInv, LoopShape
  <2> QED
    BY <2>1, <2>2, <2>3 DEF Asked
<1>3. key \in Keys
  BY <1>2, KeysTyped
<1> HIDE DEF key
<1>4. ops'[key].status = "completed" /\ ops'[key].answer = answer
  BY <1>1, <1>3 DEF IInv, TypeOK, Op
<1>5. Told'
  BY <1>1, ToldKept DEF Alive
<1>6. Speaking'
  BY <1>1, <1>2, <1>4, DigestTold
<1> QED
  BY <1>5, <1>6

\* A call at work leaves the transcript to the end of its batch.
LEMMA CallTold ==
  ASSUME TInv, PickCall \/ \E c \in Calls : CarryOut(c) \/ Record(c) \/ RecordFails(c)
  PROVE  Told' /\ Speaking'
<1> USE DEF TInv, RInv
<1>1. [Next]_vars
  BY DEF Next, Agent
<1>2. /\ UNCHANGED <<run, inbox, saved, checkpoints>>
      /\ loop'.phase = loop.phase /\ loop'.turn = loop.turn /\ loop'.boundary = loop.boundary
      /\ loop'.heard = loop.heard /\ loop'.batch = loop.batch
  <2>1. CASE PickCall
    <3> DEFINE key == CallKey(NextCall)
               picked == [loop EXCEPT !.todo = Tail(@)]
    <3>1. /\ UNCHANGED <<run, inbox, saved, checkpoints>>
          /\ \/ loop' = picked \/ loop' = [picked EXCEPT !.failure = key]
             \/ loop' = [picked EXCEPT !.begun = @ \cup {NextCall}]
      BY <2>1 DEF PickCall
    <3> HIDE DEF key
    <3> QED
      BY <3>1 DEF IInv, TypeOK, Loop
  <2>2. ASSUME NEW c \in Calls, CarryOut(c) \/ Record(c) \/ RecordFails(c)
        PROVE  /\ UNCHANGED <<run, inbox, saved, checkpoints>>
               /\ loop'.phase = loop.phase /\ loop'.turn = loop.turn
               /\ loop'.boundary = loop.boundary
               /\ loop'.heard = loop.heard /\ loop'.batch = loop.batch
    <3>1. CASE CarryOut(c)
      BY <3>1 DEF CarryOut, IInv, TypeOK, Loop
    <3>2. CASE Record(c)
      BY <3>2 DEF Record, IInv, TypeOK, Loop
    <3>3. CASE RecordFails(c)
      BY <3>3 DEF RecordFails, IInv, TypeOK, Loop
    <3> QED
      BY <2>2, <3>1, <3>2, <3>3
  <2> QED
    BY <2>1, <2>2
<1> QED
  BY <1>1, <1>2, ToldKept, SpeakingKept DEF Alive

\* The process loses the attempt, or a request fails.
LEMMA LostTold == ASSUME TInv, Abandon \/ Crash \/ ModelFails PROVE Told' /\ Speaking'
<1> USE DEF TInv, RInv
<1>1. [Next]_vars /\ UNCHANGED <<inbox, saved, checkpoints>>
  BY DEF Abandon, Crash, ModelFails, journal, Next, Agent, Host
<1>2. loop'.phase = "none" /\ loop'.heard = <<>>
  BY DEF Abandon, Crash, ModelFails, EndAttempt, NoLoop
<1>3. /\ run'.epoch = run.epoch
      /\ Alive' => Alive
      /\ run'.status = "completed" => run.status = "completed"
  <2>1. CASE ModelFails
    <3>1. ~loop.aborted /\ loop.phase # "none"
      BY <2>1 DEF ModelFails, At
    <3>2. run.status = "running"
      BY <3>1 DEF IInv, LoopShape
    <3>3. PICK status \in {"retry_wait", "failed"} : EndAttempt(status, NoKey)
      BY <2>1 DEF ModelFails
    <3> QED
      BY <3>2, <3>3 DEF EndAttempt, IInv, TypeOK, Alive
  <2>2. CASE Abandon \/ Crash
    BY <2>2 DEF Abandon, Crash, journal, Alive
  <2> QED
    BY <2>1, <2>2
<1> QED
  BY <1>1, <1>2, <1>3, ToldKept, Silent

\* The runtime is closed or opened, or the run cancelled: what was said stays said.
LEMMA HostTold == ASSUME TInv, close \/ open \/ cancel PROVE Told' /\ Speaking'
<1> USE DEF TInv, RInv
<1>1. [Next]_vars /\ UNCHANGED <<inbox, saved, checkpoints>>
  BY DEF close, open, cancel, journal, Next, Host
<1>2. /\ run'.epoch = run.epoch
      /\ Alive' => Alive
      /\ run'.status = "completed" => run.status = "completed"
  BY DEF close, open, cancel, journal, IInv, TypeOK, Alive
<1>3. loop' = loop \/ loop' = [loop EXCEPT !.aborted = TRUE]
  BY DEF close, open, cancel
<1>4. /\ loop'.phase = loop.phase /\ loop'.turn = loop.turn /\ loop'.boundary = loop.boundary
      /\ loop'.heard = loop.heard /\ loop'.batch = loop.batch
  BY <1>3 DEF IInv, TypeOK, Loop
<1> QED
  BY <1>1, <1>2, <1>4, ToldKept, SpeakingKept

\* The operator acts on a run without an attempt.
LEMMA OperatorTold == ASSUME TInv, retry \/ resolveTool PROVE Told' /\ Speaking'
<1> USE DEF TInv, RInv
<1>1. [Next]_vars /\ UNCHANGED <<inbox, saved, checkpoints, loop>>
  BY DEF retry, resolveTool, Next, Host
<1>2. run'.epoch = run.epoch /\ run'.status = "pending" /\ Alive /\ loop.phase = "none"
  BY DEF retry, resolveTool, IInv, TypeOK, LoopShape, Alive
<1>3. loop'.phase = "none" /\ loop'.heard = <<>>
  BY <1>1, <1>2 DEF Speaking
<1> QED
  BY <1>1, <1>2, <1>3, ToldKept, Silent

\* An accepted request is new to the journal and waits in the inbox.
LEMMA SteerTold == ASSUME TInv, NEW m \in Inputs, steer(m) PROVE Told' /\ Speaking'
<1> USE DEF TInv, RInv, Told
<1>1. /\ [Next]_vars /\ UNCHANGED <<run, ops, saved, checkpoints, loop>>
      /\ ~Known(m) /\ ~inbox.closed /\ run.status # "completed"
      /\ inbox'.pending = Append(inbox.pending, m) /\ inbox'.closed = inbox.closed
  BY DEF steer, Next, Host, IInv, TypeOK, Settled
<1>2. Speaking'
  BY <1>1, SpeakingKept
<1>3. Spoken' /\ Counted'
  BY <1>1 DEF Spoken, Counted, Once, OnceIn, Alive, Passed
<1>4. Fence'
  BY <1>1 DEF Fence, Asked, Boundary
<1>5. inbox.pending \in Seq(Inputs)
  BY DEF IInv, TypeOK
<1>6. m \notin Elems(inbox.pending) /\ \A b \in DOMAIN checkpoints : m \notin Elems(checkpoints[b])
  BY <1>1 DEF Known, Elems
<1>7. /\ DOMAIN inbox'.pending = 1..(Len(inbox.pending) + 1)
      /\ DOMAIN inbox.pending = 1..Len(inbox.pending) /\ Len(inbox.pending) \in Nat
      /\ \A i \in DOMAIN inbox.pending : inbox'.pending[i] = inbox.pending[i]
      /\ inbox'.pending[Len(inbox.pending) + 1] = m
  BY <1>1, <1>5
<1>8. \A i \in DOMAIN inbox'.pending :
         i \in DOMAIN inbox.pending \/ i = Len(inbox.pending) + 1
  BY <1>7
<1>9. Distinct(inbox'.pending)
  <2>1. \A i \in DOMAIN inbox.pending : inbox.pending[i] # m
    BY <1>6 DEF Elems
  <2> QED
    BY <1>7, <1>8, <2>1 DEF Separate, Distinct
<1>10. Elems(inbox'.pending) \subseteq Elems(inbox.pending) \cup {m}
  BY <1>7, <1>8 DEF Elems
<1>11. Separate'
  BY <1>1, <1>6, <1>9, <1>10 DEF Separate
<1> QED
  BY <1>2, <1>3, <1>4, <1>11

\* A decision begins an epoch whose transcript is the one that was kept.
LEMMA RespondTold ==
  ASSUME TInv, NEW approved \in BOOLEAN, respond(approved)
  PROVE  Told' /\ Speaking'
<1> USE DEF TInv, RInv, Told
<1>1. /\ run.status = "waiting" /\ run'.status = "pending" /\ run'.epoch = run.epoch + 1
      /\ UNCHANGED <<ops, inbox, checkpoints, loop>>
      /\ saved'.heard = saved.heard /\ saved'.pending = saved.pending /\ saved'.rest = saved.rest
  BY DEF respond, IInv, TypeOK, Saved
<1>2. run.epoch \in Nat /\ \A b \in DOMAIN checkpoints : b[1] \in Nat /\ b[1] <= run.epoch
  BY Parts, Numbers DEF IInv, TypeOK, Fence
<1>3. run'.epoch # 0 /\ \A b \in DOMAIN checkpoints : b[1] < run'.epoch /\ b[1] <= run'.epoch
  BY <1>1, <1>2
<1>4. Speaking'
  <2>1. loop.phase = "none"
    BY <1>1 DEF IInv, LoopShape
  <2>2. loop'.phase = "none" /\ loop'.heard = <<>>
    BY <1>1, <2>1 DEF Speaking
  <2> QED
    BY <2>2, Silent
<1>5. Spoken'
  BY <1>1, <1>3 DEF Spoken
<1>6. Fence'
  <2>1. \A t : Boundary(t)' \notin DOMAIN checkpoints
    <3> SUFFICES ASSUME NEW t, Boundary(t)' \in DOMAIN checkpoints PROVE FALSE
      OBVIOUS
    <3>1. Boundary(t)'[1] = run'.epoch
      BY DEF Boundary
    <3> QED
      BY <1>1, <1>2, <1>3, <3>1
  <2> QED
    BY <1>1, <1>3, <2>1 DEF Fence
<1>7. Separate'
  BY <1>1 DEF Separate
<1>8. Counted'
  <2>1. Passed(run.epoch, 0)' = DOMAIN checkpoints
    BY <1>1, <1>3 DEF Passed
  <2>2. Once(saved.heard, DOMAIN checkpoints)
    BY <1>1 DEF Counted, Alive
  <2> QED
    BY <1>1, <2>1, <2>2 DEF Counted, Once, OnceIn, Alive
<1> QED
  BY <1>4, <1>5, <1>6, <1>7, <1>8

\* The results of the calls that were picked are tool results, in the order of the batch.
LEMMA ResultsAre ==
  ASSUME TypeOK, NEW n \in 0..Len(loop.batch)
  PROVE  /\ Results(n) \in Seq(Items) /\ Len(Results(n)) = n /\ DOMAIN Results(n) = 1..n
         /\ \A i \in DOMAIN Results(n) : /\ Results(n)[i][1] = "tool"
                                         /\ Results(n)[i][2] = loop.batch[i]
<1>1. n \in Nat
  BY Parts
<1>2. Results(n) \in Seq(Items)
  BY ResultsTyped
<1>3. DOMAIN Results(n) = 1..n
  BY DEF Results
<1>4. \A i \in 1..n : Results(n)[i][1] = "tool" /\ Results(n)[i][2] = loop.batch[i]
  BY DEF Results, Result
<1>5. Len(Results(n)) = n
  BY <1>1, <1>2, <1>3
<1> QED
  BY <1>2, <1>3, <1>4, <1>5

\* A sequence is its head and what follows.
LEMMA HeadFirst ==
  ASSUME NEW s \in Seq(Calls), s # <<>>
  PROVE  /\ <<Head(s)>> \in Seq(Calls) /\ Tail(s) \in Seq(Calls)
         /\ <<Head(s)>> \o Tail(s) = s
<1>1. /\ Head(s) = s[1] /\ Head(s) \in Calls /\ <<Head(s)>> \in Seq(Calls)
      /\ Tail(s) \in Seq(Calls)
      /\ Len(s) \in Nat \ {0} /\ Len(Tail(s)) = Len(s) - 1
      /\ \A i \in 1..(Len(s) - 1) : Tail(s)[i] = s[i + 1]
  BY HeadTailProperties
<1> DEFINE h == <<Head(s)>>
           t == Tail(s)
<1>2. h \in Seq(Calls) /\ Len(h) = 1 /\ h[1] = s[1]
  BY <1>1
<1>3. t \in Seq(Calls) /\ Len(t) = Len(s) - 1 /\ \A i \in 1..(Len(s) - 1) : t[i] = s[i + 1]
  BY <1>1
<1> HIDE DEF h, t
<1> DEFINE all == h \o t
<1>4. /\ all \in Seq(Calls) /\ Len(all) = Len(h) + Len(t)
      /\ \A i \in DOMAIN h : all[i] = h[i]
      /\ \A i \in DOMAIN t : all[Len(h) + i] = t[i]
      /\ DOMAIN h = 1..Len(h) /\ DOMAIN t = 1..Len(t)
  <2> SUFFICES ASSUME NEW a \in Seq(Calls), NEW b \in Seq(Calls)
               PROVE  /\ a \o b \in Seq(Calls) /\ Len(a \o b) = Len(a) + Len(b)
                      /\ \A i \in DOMAIN a : (a \o b)[i] = a[i]
                      /\ \A i \in DOMAIN b : (a \o b)[Len(a) + i] = b[i]
                      /\ DOMAIN a = 1..Len(a) /\ DOMAIN b = 1..Len(b)
    BY <1>2, <1>3
  <2> QED
    BY Joined
<1> HIDE DEF all
<1>5. Len(all) = Len(s)
  BY <1>1, <1>2, <1>3, <1>4
<1>6. \A i \in 1..Len(s) : all[i] = s[i]
  <2> SUFFICES ASSUME NEW i \in 1..Len(s) PROVE all[i] = s[i]
    OBVIOUS
  <2>1. CASE i = 1
    BY <1>2, <1>4, <2>1
  <2>2. CASE i # 1
    <3>1. i - 1 \in 1..(Len(s) - 1) /\ (i - 1) + 1 = i /\ 1 + (i - 1) = i
      BY <1>1, <2>2
    <3>2. i - 1 \in DOMAIN t
      BY <1>3, <1>4, <3>1
    <3>3. all[Len(h) + (i - 1)] = t[i - 1] /\ t[i - 1] = s[(i - 1) + 1]
      BY <1>3, <1>4, <3>1, <3>2
    <3> QED
      BY <1>2, <3>1, <3>3
  <2> QED
    BY <2>1, <2>2
<1>7. all = s
  BY <1>4, <1>5, <1>6, SeqEqual
<1> QED
  BY <1>1, <1>7 DEF h, t, all

\* The batch ends with its results in the transcript, or blocks the run.
LEMMA EndBatchTold == ASSUME TInv, EndBatch PROVE Told' /\ Speaking'
<1> USE DEF TInv, RInv
<1>1. /\ [Next]_vars /\ UNCHANGED <<ops, inbox, saved, checkpoints>>
      /\ loop.phase = "tools" /\ ~loop.aborted
  BY DEF EndBatch, At, Next, Agent
<1>2. run.status = "running" /\ Alive
  BY <1>1 DEF IInv, LoopShape, Alive
<1>3. CASE loop.failure # NoKey
  <2>1. EndAttempt("needs_attention", loop.failure)
    BY <1>3 DEF EndBatch
  <2>2. /\ loop'.phase = "none" /\ loop'.heard = <<>> /\ run'.epoch = run.epoch
        /\ run'.status = "needs_attention"
    BY <2>1 DEF EndAttempt, NoLoop, IInv, TypeOK
  <2> QED
    BY <1>1, <1>2, <2>2, ToldKept, Silent
<1>4. CASE loop.failure = NoKey
  <2> DEFINE n == Len(loop.batch)
             results == Results(n)
  <2>1. /\ UNCHANGED run
        /\ loop' = [loop EXCEPT !.phase = "drain", !.batch = <<>>, !.heard = @ \o results]
    BY <1>4 DEF EndBatch
  <2>2. Told'
    BY <1>1, <1>2, <2>1, ToldKept
  <2>3. /\ loop.heard \in Seq(Items) /\ loop.batch \in Seq(Calls) /\ n \in 0..n
    BY Parts DEF IInv
  <2>4. /\ results \in Seq(Items) /\ Len(results) = n
        /\ \A i \in DOMAIN results : results[i][1] = "tool" /\ results[i][2] = loop.batch[i]
    BY <2>3, ResultsAre DEF IInv
  <2> HIDE DEF results
  <2>5. /\ loop'.phase = "drain" /\ loop'.turn = loop.turn /\ loop'.boundary = loop.boundary
        /\ loop'.heard = loop.heard \o results
    BY <2>1 DEF IInv, TypeOK, Loop
  <2>6. Owed(loop'.heard, <<>>)
    <3>1. Owed(loop.heard, loop.batch)
      BY <1>1 DEF Speaking
    <3>2. <<>> \in Seq(Calls) /\ Len(<<>>) = 0 /\ Len(loop.batch) = Len(results) + 0
      BY <2>3, <2>4
    <3> DEFINE rest == <<>>
    <3>3. rest \in Seq(Calls) /\ Len(loop.batch) = Len(results) + Len(rest)
          /\ \A i \in DOMAIN rest : rest[i] = loop.batch[Len(results) + i]
      BY <3>2
    <3> HIDE DEF rest
    <3>4. Owed(loop.heard \o results, rest)
      BY <2>3, <2>4, <3>1, <3>3, OwedPaid
    <3> QED
      BY <2>5, <3>4 DEF rest
  <2>7. Once(loop.heard \o results, Passed(run.epoch, loop.boundary))
    <3>1. Once(loop.heard, Passed(run.epoch, loop.boundary))
      BY <1>1 DEF Speaking
    <3> QED
      BY <2>3, <2>4, <3>1, OnceQuiet
  <2>8. Once(loop.heard, Passed(run.epoch, loop.boundary))'
    <3>1. Passed(run.epoch, loop.boundary)' = Passed(run.epoch, loop.boundary)
      BY <1>1, <2>1, <2>5 DEF Passed
    <3> QED
      BY <1>1, <2>5, <2>7, <3>1 DEF Once, OnceIn
  <2>9. Asked(loop.turn)' = Asked(loop.turn)
    BY <2>1, <2>5 DEF Asked
  <2>10. loop'.turn > 0 => ops'[Asked(loop.turn)'].status = "completed"
                             /\ ops'[Asked(loop.turn)'].answer # <<>>
    BY <1>1, <2>5, <2>9 DEF Speaking
  <2> QED
    BY <2>2, <2>5, <2>6, <2>8, <2>10 DEF Speaking
<1> QED
  BY <1>3, <1>4

\* A run that waits for a person keeps what it owes to the calls of its answer.
LEMMA SuspendTold == ASSUME TInv, Suspend PROVE Told' /\ Speaking'
<1> USE DEF TInv, RInv, Told
<1> DEFINE results == Results(Picked)
<1>1. /\ loop.phase = "tools" /\ ~loop.aborted /\ loop.todo # <<>>
      /\ saved'.heard = loop.heard \o results
      /\ saved'.pending = <<Head(loop.todo)>> /\ saved'.rest = Tail(loop.todo)
      /\ run'.status = "waiting" /\ run'.epoch = run.epoch
      /\ loop'.phase = "none" /\ loop'.heard = <<>>
      /\ UNCHANGED <<ops, inbox, checkpoints>>
  BY DEF Suspend, CanPick, At, EndAttempt, NoLoop, NextCall, Picked, IInv, TypeOK
<1>2. ~Alive'
  BY <1>1 DEF Alive
<1>3. /\ loop.heard \in Seq(Items) /\ loop.batch \in Seq(Calls) /\ loop.todo \in Seq(Calls)
      /\ Len(loop.batch) \in Nat /\ Len(loop.todo) \in Nat
      /\ DOMAIN loop.todo = 1..Len(loop.todo)
  BY Parts DEF IInv
<1>4. /\ Len(loop.todo) <= Len(loop.batch)
      /\ \A i \in 1..Len(loop.todo) : loop.todo[i] = loop.batch[Picked + i]
  BY <1>1 DEF IInv, Picks
<1>5. Picked \in 0..Len(loop.batch) /\ Len(loop.batch) = Picked + Len(loop.todo)
  <2>1. ASSUME NEW b \in Nat, NEW t \in Nat, t <= b
        PROVE  b - t \in 0..b /\ b = (b - t) + t
    BY <2>1
  <2> QED
    BY <1>3, <1>4, <2>1 DEF Picked
<1>6. /\ results \in Seq(Items) /\ Len(results) = Picked
      /\ \A i \in DOMAIN results : results[i][1] = "tool" /\ results[i][2] = loop.batch[i]
  BY <1>5, ResultsAre DEF IInv
<1> HIDE DEF results
<1>7. Owed(loop.heard \o results, loop.todo)
  <2>1. Owed(loop.heard, loop.batch)
    BY <1>1 DEF Speaking
  <2>2. \A i \in DOMAIN loop.todo : loop.todo[i] = loop.batch[Len(results) + i]
    BY <1>3, <1>4, <1>6
  <2> QED
    BY <1>3, <1>5, <1>6, <2>1, <2>2, OwedPaid
<1>8. Spoken'
  <2>1. saved'.pending \o saved'.rest = loop.todo
    BY <1>1, <1>3, HeadFirst
  <2>2. Owed(saved'.heard, saved'.pending \o saved'.rest)
    BY <1>1, <1>7, <2>1
  <2> QED
    BY <1>1, <1>2, <2>2 DEF Spoken
<1>9. Counted'
  <2>1. Once(loop.heard, Passed(run.epoch, loop.boundary))
    BY <1>1 DEF Speaking
  <2>2. Once(loop.heard, DOMAIN checkpoints)
    BY <2>1 DEF Once, OnceIn, Passed
  <2>3. Once(loop.heard \o results, DOMAIN checkpoints)
    BY <1>3, <1>6, <2>2, OnceQuiet
  <2> QED
    BY <1>1, <1>2, <2>3 DEF Counted, Once, OnceIn
<1>10. Fence'
  BY <1>1 DEF Fence, Asked, Boundary
<1>11. Separate'
  BY <1>1 DEF Separate
<1> QED
  BY <1>1, <1>8, <1>9, <1>10, <1>11, Silent

\* A completed run keeps the transcript of its loop; its inbox is closed.
LEMMA FinishTold == ASSUME TInv, Finish PROVE Told' /\ Speaking'
<1> USE DEF TInv, RInv
<1>1. /\ [Next]_vars /\ UNCHANGED <<ops, inbox, checkpoints>>
      /\ loop.phase = "finish" /\ ~loop.aborted
  BY DEF Finish, At, Next, Agent
<1>2. run.status = "running" /\ Alive
  BY <1>1 DEF IInv, LoopShape, Alive
<1>3. CASE EndAttempt("failed", NoKey) /\ UNCHANGED saved
  <2>1. /\ loop'.phase = "none" /\ loop'.heard = <<>> /\ run'.epoch = run.epoch
        /\ run'.status = "failed"
    BY <1>3 DEF EndAttempt, NoLoop, IInv, TypeOK
  <2> QED
    BY <1>1, <1>2, <1>3, <2>1, ToldKept, Silent
<1>4. CASE EndAttempt("completed", NoKey) /\ saved' = [Fresh EXCEPT !.heard = loop.heard]
  <2>1. /\ loop'.phase = "none" /\ loop'.heard = <<>> /\ run'.epoch = run.epoch
        /\ run'.status = "completed"
        /\ saved'.heard = loop.heard /\ saved'.pending = <<>> /\ saved'.rest = <<>>
    BY <1>4 DEF EndAttempt, NoLoop, IInv, TypeOK, Fresh
  <2>2. ~Alive'
    BY <2>1 DEF Alive
  <2>3. Spoken'
    <3>1. Owed(loop.heard, <<>>)
      BY <1>1 DEF Speaking
    <3>2. saved'.pending \o saved'.rest = <<>>
      BY <2>1
    <3>3. Owed(saved'.heard, saved'.pending \o saved'.rest)
      BY <2>1, <3>1, <3>2
    <3> QED
      BY <2>1, <3>3 DEF Spoken
  <2>4. Fence'
    <3>1. inbox.closed
      BY <1>1 DEF Speaking
    <3> QED
      BY <1>1, <2>1, <3>1 DEF Told, Fence, Asked, Boundary
  <2>5. Separate'
    BY <1>1 DEF Told, Separate
  <2>6. Counted'
    <3>1. Once(loop.heard, Passed(run.epoch, loop.boundary))
      BY <1>1 DEF Speaking
    <3>2. Once(loop.heard, DOMAIN checkpoints)
      BY <3>1 DEF Once, OnceIn, Passed
    <3> QED
      BY <1>1, <2>1, <2>2, <3>2 DEF Counted, Once, OnceIn
  <2> QED
    BY <2>1, <2>3, <2>4, <2>5, <2>6, Silent DEF Told
<1> QED
  BY <1>3, <1>4 DEF Finish

\* What a boundary reads and writes, whether it was recorded now or earlier.
LEMMA DrainEffect ==
  ASSUME TInv, NEW closing \in BOOLEAN, Drain(closing),
         NEW key, key = <<run.epoch, loop.boundary>>
  PROVE  /\ UNCHANGED <<run, ops, saved>>
         /\ DOMAIN checkpoints' = DOMAIN checkpoints \cup {key}
         /\ \A b \in DOMAIN checkpoints : checkpoints'[b] = checkpoints[b]
         /\ checkpoints'[key] \in Seq(Inputs)
         /\ key \in DOMAIN checkpoints => UNCHANGED <<inbox, checkpoints>>
         /\ key \notin DOMAIN checkpoints =>
              /\ checkpoints'[key] = inbox.pending /\ inbox'.pending = <<>>
              /\ inbox'.closed = (inbox.closed \/ (closing /\ checkpoints'[key] = <<>>))
         /\ loop'.phase = (IF closing /\ checkpoints'[key] = <<>> THEN "finish" ELSE "model")
         /\ loop'.boundary = loop.boundary + 1 /\ loop'.turn = loop.turn
         /\ loop'.heard = loop.heard \o [i \in DOMAIN checkpoints'[key] |->
                                           Heard(checkpoints'[key][i])]
<1> USE DEF TInv, RInv
<1> DEFINE known == key \in DOMAIN checkpoints
           entries == IF known THEN checkpoints[key] ELSE inbox.pending
<1>1. /\ UNCHANGED <<run, ops, saved>>
      /\ IF known
           THEN UNCHANGED <<inbox, checkpoints>>
           ELSE /\ inbox' = [pending |-> <<>>,
                             closed |-> inbox.closed \/ (closing /\ entries = <<>>)]
                /\ checkpoints' = [b \in DOMAIN checkpoints \cup {key} |->
                                     IF b = key THEN entries ELSE checkpoints[b]]
      /\ loop' = [loop EXCEPT
                    !.phase = IF closing /\ entries = <<>> THEN "finish" ELSE "model",
                    !.boundary = @ + 1,
                    !.heard = @ \o [i \in DOMAIN entries |-> Heard(entries[i])]]
  BY DEF Drain
<1>2. checkpoints'[key] = entries /\ entries \in Seq(Inputs)
  BY <1>1 DEF IInv, TypeOK
<1>3. /\ loop'.phase = (IF closing /\ entries = <<>> THEN "finish" ELSE "model")
      /\ loop'.boundary = loop.boundary + 1 /\ loop'.turn = loop.turn
      /\ loop'.heard = loop.heard \o [i \in DOMAIN entries |-> Heard(entries[i])]
  <2> HIDE DEF entries
  <2> QED
    BY <1>1 DEF IInv, TypeOK, Loop
<1>4. CASE known
  BY <1>1, <1>2, <1>3, <1>4
<1>5. CASE ~known
  <2>1. entries = inbox.pending
    BY <1>5
  <2> HIDE DEF entries
  <2>2. /\ inbox'.pending = <<>> /\ inbox'.closed = (inbox.closed \/ (closing /\ entries = <<>>))
        /\ DOMAIN checkpoints' = DOMAIN checkpoints \cup {key}
    BY <1>1, <1>5
  <2>3. \A b \in DOMAIN checkpoints : checkpoints'[b] = checkpoints[b]
    BY <1>1, <1>5
  <2> QED
    BY <1>1, <1>2, <1>3, <1>5, <2>1, <2>2, <2>3
<1> QED
  BY <1>4, <1>5

\* A boundary takes over what waits in the inbox, or repeats what it took over before; the
\* inbox is closed before the run can end.
LEMMA DrainTold ==
  ASSUME TInv, NEW closing \in BOOLEAN, Drain(closing)
  PROVE  Told' /\ Speaking'
<1> USE DEF TInv, RInv, Told
<1> DEFINE key == <<run.epoch, loop.boundary>>
           entries == checkpoints'[key]
           more == [i \in DOMAIN entries |-> Heard(entries[i])]
           from == Passed(run.epoch, loop.boundary)
<1>1. /\ UNCHANGED <<run, ops, saved>>
      /\ DOMAIN checkpoints' = DOMAIN checkpoints \cup {key}
      /\ \A b \in DOMAIN checkpoints : checkpoints'[b] = checkpoints[b]
      /\ entries \in Seq(Inputs)
      /\ key \in DOMAIN checkpoints => UNCHANGED <<inbox, checkpoints>>
      /\ key \notin DOMAIN checkpoints =>
           /\ entries = inbox.pending /\ inbox'.pending = <<>>
           /\ inbox'.closed = (inbox.closed \/ (closing /\ entries = <<>>))
      /\ loop'.phase = (IF closing /\ entries = <<>> THEN "finish" ELSE "model")
      /\ loop'.boundary = loop.boundary + 1 /\ loop'.turn = loop.turn
      /\ loop'.heard = loop.heard \o more
  BY DrainEffect
<1>2. /\ loop.phase = (IF closing THEN "closing" ELSE "drain")
      /\ run.status = "running" /\ Alive /\ loop.boundary = loop.turn
      /\ loop.turn \in Turns /\ loop.turn \in Nat /\ run.epoch \in Nat
  <2>1. loop.phase = (IF closing THEN "closing" ELSE "drain") /\ ~loop.aborted
    BY DEF Drain, At
  <2>2. loop.turn \in Turns /\ loop.turn \in Nat /\ run.epoch \in Nat
    BY Parts, Numbers DEF IInv
  <2>3. run.status = "running" /\ loop.boundary = loop.turn + 0
    BY <2>1 DEF IInv, LoopShape
  <2> QED
    BY <2>1, <2>2, <2>3 DEF Alive
<1>3. closing => loop.turn \in Turns \ {0}
  BY <1>2 DEF IInv, LoopShape
<1>4. key[1] = run.epoch /\ key[2] = loop.boundary /\ key = Boundary(loop.turn)
  BY <1>2 DEF Boundary
<1>5. /\ key \notin from /\ from \subseteq DOMAIN checkpoints
      /\ from \cup {key} \subseteq Passed(run.epoch, loop.boundary)'
  <2>1. loop.boundary \in Nat /\ ~(loop.boundary < loop.boundary) /\ ~(run.epoch < run.epoch)
        /\ \A n \in Nat : n < loop.boundary => n < loop.boundary + 1
        /\ loop.boundary < loop.boundary + 1
    BY <1>2
  <2>2. \A b \in DOMAIN checkpoints : b[2] \in Nat
    <3>1. DOMAIN checkpoints \subseteq Epochs \X (0..MaxModelTurns)
      BY DEF IInv, TypeOK, Turns
    <3> QED
      BY <3>1
  <2>3. key \notin from /\ from \subseteq DOMAIN checkpoints
    BY <1>4, <2>1 DEF Passed
  <2>4. \A b \in from \cup {key} : b \in Passed(run.epoch, loop.boundary)'
    BY <1>1, <1>4, <2>1, <2>2 DEF Passed
  <2> QED
    BY <2>3, <2>4
<1> HIDE DEF key, entries, more, from
<1>6. Spoken'
  BY <1>1 DEF Spoken, Alive
<1>7. Separate'
  <2>1. CASE key \in DOMAIN checkpoints
    BY <1>1, <2>1 DEF Separate
  <2>2. CASE key \notin DOMAIN checkpoints
    <3>1. entries = inbox.pending /\ inbox'.pending = <<>> /\ Distinct(inbox'.pending)
          /\ Elems(inbox'.pending) = {}
      BY <1>1, <2>2 DEF Distinct, Elems
    <3>2. ASSUME NEW b \in DOMAIN checkpoints'
          PROVE  /\ Distinct(checkpoints'[b])
                 /\ \A d \in DOMAIN checkpoints' \ {b} :
                       Elems(checkpoints'[b]) \cap Elems(checkpoints'[d]) = {}
      BY <1>1, <2>2, <3>1 DEF Separate, entries
    <3> QED
      BY <3>1, <3>2 DEF Separate
  <2> QED
    BY <2>1, <2>2
<1>8. inbox.closed => inbox'.closed
  BY <1>1
<1>9. Fence'
  <2>1. (inbox.closed => inbox.pending = <<>>)' /\ (run.status = "completed" => inbox.closed)'
    BY <1>1, <1>2 DEF Fence
  <2>2. \A b \in DOMAIN checkpoints' : b[1] <= run.epoch
    <3>1. run.epoch <= run.epoch
      BY <1>2
    <3> QED
      BY <1>1, <1>4, <3>1 DEF Fence
  <2>3. ASSUME NEW t \in Turns \ {0}, Boundary(t) \in DOMAIN checkpoints'
        PROVE  /\ ops[Asked(t)].status = "completed"
               /\ ops[Asked(t)].answer = <<>> /\ checkpoints'[Boundary(t)] = <<>> => inbox'.closed
    <3>1. CASE Boundary(t) \in DOMAIN checkpoints
      BY <1>1, <1>8, <3>1 DEF Fence
    <3>2. CASE Boundary(t) \notin DOMAIN checkpoints
      <4>1. Boundary(t) = key
        BY <1>1, <2>3, <3>2
      <4>2. t = loop.turn /\ t > 0
        <5>1. t \in Nat \ {0}
          BY Numbers
        <5> QED
          BY <1>4, <4>1, <5>1 DEF Boundary
      <4>3. ops[Asked(t)].status = "completed"
        BY <1>2, <4>2 DEF Speaking
      <4>4. ~closing => ops[Asked(t)].answer # <<>>
        BY <1>2, <4>2 DEF Speaking
      <4> QED
        BY <1>1, <3>2, <4>1, <4>3, <4>4 DEF entries
    <3> QED
      BY <3>1, <3>2
  <2>4. \A t : Boundary(t)' = Boundary(t) /\ Asked(t)' = Asked(t)
    BY <1>1 DEF Boundary, Asked
  <2>5. run' = run /\ ops' = ops
    BY <1>1
  <2> QED
    BY <2>1, <2>2, <2>3, <2>4, <2>5 DEF Fence
<1>10. Counted'
  <2>1. Once(saved.heard, Passed(run.epoch, 0))
    BY <1>2 DEF Counted
  <2>2. Passed(run.epoch, 0) \subseteq Passed(run.epoch, 0)'
        /\ Passed(run.epoch, 0) \subseteq DOMAIN checkpoints
    BY <1>1 DEF Passed
  <2>3. OnceIn(saved.heard, Passed(run.epoch, 0)', checkpoints')
    BY <1>1, <2>1, <2>2 DEF Once, OnceIn
  <2> QED
    BY <1>1, <1>2, <2>3 DEF Counted, Once, Alive
<1>11. loop.heard \in Seq(Items) /\ more \in Seq(Items) /\ \A i \in DOMAIN more : more[i][1] = "steer"
  <2>1. loop.heard \in Seq(Items)
    BY Parts DEF IInv
  <2>2. DOMAIN entries = 1..Len(entries) /\ \A i \in DOMAIN entries : entries[i] \in Inputs
        /\ Len(entries) \in Nat
    BY <1>1
  <2>3. \A i \in DOMAIN entries : Heard(entries[i]) \in Items /\ Heard(entries[i])[1] = "steer"
    BY <2>2, ItemsTyped DEF Heard
  <2> QED
    BY <2>1, <2>2, <2>3 DEF more
<1>12. Owed(loop'.heard, <<>>)
  <2>1. Owed(loop.heard, <<>>)
    BY <1>2 DEF Speaking
  <2>2. \A i \in DOMAIN more : more[i][1] # "model"
    BY <1>11
  <2>3. Owed(loop.heard \o more, <<>>)
    BY <1>11, <2>1, <2>2, OwedHeard
  <2> QED
    BY <1>1, <2>3
<1>13. Once(loop.heard, Passed(run.epoch, loop.boundary))'
  <2>1. OnceIn(loop.heard, from, checkpoints')
    <3>1. Once(loop.heard, from)
      BY <1>2 DEF Speaking, from
    <3> QED
      BY <1>1, <1>5, <3>1 DEF Once, OnceIn
  <2>2. /\ key \in DOMAIN checkpoints' \ from /\ from \in SUBSET DOMAIN checkpoints'
        /\ Distinct(checkpoints'[key]) /\ checkpoints'[key] \in Seq(Inputs)
        /\ \A d \in from : Elems(checkpoints'[key]) \cap Elems(checkpoints'[d]) = {}
    <3>1. key \in DOMAIN checkpoints' \ from /\ from \in SUBSET DOMAIN checkpoints'
      BY <1>1, <1>5
    <3>2. \A d \in from : d \in DOMAIN checkpoints' \ {key}
      BY <3>1
    <3> QED
      BY <1>1, <1>7, <3>1, <3>2 DEF Separate, entries
  <2>3. OnceIn(loop.heard \o [i \in DOMAIN checkpoints'[key] |-> Heard(checkpoints'[key][i])],
               from \cup {key}, checkpoints')
    BY <1>11, <2>1, <2>2, OnceDrained
  <2>4. OnceIn(loop'.heard, from \cup {key}, checkpoints')
    BY <1>1, <2>3 DEF more, entries
  <2>5. OnceIn(loop'.heard, Passed(run.epoch, loop.boundary)', checkpoints')
    BY <1>5, <2>4 DEF OnceIn
  <2> QED
    BY <2>5 DEF Once
<1>14. loop'.phase = "finish" => inbox'.closed
  <2> SUFFICES ASSUME loop'.phase = "finish" PROVE inbox'.closed
    OBVIOUS
  <2>1. closing /\ entries = <<>> /\ loop.phase = "closing"
    BY <1>1, <1>2
  <2>2. CASE key \in DOMAIN checkpoints
    <3>1. ops[Asked(loop.turn)].answer = <<>>
      BY <2>1 DEF Speaking
    <3>2. checkpoints[Boundary(loop.turn)] = <<>>
      BY <1>1, <1>4, <2>1, <2>2 DEF entries
    <3>3. inbox.closed
      BY <1>3, <1>4, <2>1, <2>2, <3>1, <3>2 DEF Fence
    <3> QED
      BY <1>8, <3>3
  <2>3. CASE key \notin DOMAIN checkpoints
    BY <1>1, <2>1, <2>3
  <2> QED
    BY <2>2, <2>3
<1>15. loop'.phase \in {"finish", "model"}
  BY <1>1
<1> QED
  BY <1>6, <1>7, <1>9, <1>10, <1>12, <1>13, <1>14, <1>15 DEF Speaking

-----------------------------------------------------------------------------
(* The theorems.                                                            *)

\* A run that was just admitted has said nothing.
LEMMA ToldInit == Init => TInv
<1> SUFFICES ASSUME Init PROVE TInv
  OBVIOUS
<1>1. RInv
  BY ReplayInit
<1>2. /\ saved.heard = <<>> /\ saved.pending = <<>> /\ saved.rest = <<>>
      /\ run.status = "queued" /\ run.epoch = 0
      /\ inbox.pending = <<>> /\ ~inbox.closed /\ DOMAIN checkpoints = {}
      /\ loop.phase = "none" /\ loop.heard = <<>>
  BY DEF Init, Fresh, NoLoop
<1>3. Spoken
  BY <1>2 DEF Spoken, Owed
<1>4. Fence
  BY <1>2 DEF Fence
<1>5. Separate
  BY <1>2 DEF Separate, Distinct
<1>6. Counted
  BY <1>2 DEF Counted, Once, OnceIn
<1>7. Speaking
  BY <1>2 DEF Speaking
<1> QED
  BY <1>1, <1>3, <1>4, <1>5, <1>6, <1>7 DEF TInv, Told

\* Every step keeps what was said whole.
LEMMA ToldNext == TInv /\ [Next]_vars => TInv'
<1> SUFFICES ASSUME TInv, [Next]_vars PROVE TInv'
  OBVIOUS
<1>1. RInv'
  BY ReplayNext DEF TInv
<1> SUFFICES Told' /\ Speaking'
  BY <1>1 DEF TInv
<1>2. CASE Agent
  <2>1. CASE PickCall \/ \E c \in Calls : CarryOut(c) \/ Record(c) \/ RecordFails(c)
    BY <2>1, CallTold
  <2> QED
    BY <1>2, <2>1, StartTold, DrainTold, StartModelTold, BeginAttemptTold, AnswerTold, LostTold,
       SuspendTold, EndBatchTold, FinishTold DEF Agent
<1>3. CASE Host
  BY <1>3, SteerTold, RespondTold, OperatorTold, HostTold, LostTold DEF Host
<1>4. CASE UNCHANGED vars
  <2>1. UNCHANGED <<run, inbox, saved, checkpoints, loop>>
    BY <1>4 DEF vars
  <2> QED
    BY <2>1, ToldKept, SpeakingKept DEF Alive
<1> QED
  BY <1>2, <1>3, <1>4 DEF Next

\* The calls of an answer are answered by their results, once each and in order, before
\* anything else is said: in the transcript an attempt works on and in that of a completed run.
THEOREM TranscriptsWhole == Spec => []TranscriptWhole
<1>1. TInv => TranscriptWhole
  <2> SUFFICES ASSUME TInv PROVE TranscriptWhole
    OBVIOUS
  <2>1. saved.heard \in Seq(Items) /\ loop.heard \in Seq(Items)
    BY Parts DEF TInv, RInv, IInv
  <2>2. run.status = "completed" => Answered(saved.heard)
    <3> SUFFICES ASSUME run.status = "completed" PROVE Answered(saved.heard)
      OBVIOUS
    <3>1. saved.pending = <<>> /\ saved.rest = <<>>
      BY DEF TInv, Told, Spoken
    <3>2. saved.pending \o saved.rest = <<>>
      BY <3>1
    <3>3. Owed(saved.heard, <<>>)
      BY <3>2 DEF TInv, Told, Spoken
    <3> QED
      BY <2>1, <3>3, OwedNothing
  <2>3. loop.phase \in {"drain", "closing", "model", "begin", "asking", "finish"} =>
           Answered(loop.heard)
    BY <2>1, OwedNothing DEF TInv, Speaking
  <2> QED
    BY <2>2, <2>3 DEF TranscriptWhole
<1> QED
  BY <1>1, ToldInit, ToldNext, PTL DEF Spec

-----------------------------------------------------------------------------
(* Why no accepted request is lost.                                         *)

\* A caller that was told "accepted" finds its request in the journal.
Kept == \A m \in accepted : Known(m)

\* Every request of some boundaries is in a transcript.
EveryIn(heard, from, points) ==
  \A b \in from : \A i \in DOMAIN points[b] :
     \E j \in DOMAIN heard : heard[j] = Heard(points[b][i])
Every(heard, from) == EveryIn(heard, from, checkpoints)

\* The transcript that is kept has the requests of all boundaries it was made behind.
Heeded ==
  /\ Alive => Every(saved.heard, Passed(run.epoch, 0))
  /\ run.status \in {"waiting", "completed"} => Every(saved.heard, DOMAIN checkpoints)

\* A boundary is recorded once its turn is whole.
Bounded == Alive => \A t \in Turns : Boundary(t) \in DOMAIN checkpoints => Whole(t)

\* A final answer behind which nothing was heard ends the run: no turn follows.
Final(t) == ops[Asked(t)].answer = <<>> /\ checkpoints[Boundary(t)] = <<>>
Continued ==
  Alive => \A t \in Turns \ {0} :
    t + 1 \in Turns /\ ops[Asked(t + 1)].status # "none" => ~Final(t)

\* The loop goes on, or ends, by the same rule, with the requests of the boundaries behind it.
Heeding ==
  /\ Alive /\ loop.phase = "model" /\ loop.turn > 0 => ~Final(loop.turn)
  /\ Alive /\ loop.phase = "finish" =>
       Boundary(loop.turn) \in DOMAIN checkpoints /\ Final(loop.turn)
  /\ loop.phase # "none" => Every(loop.heard, Passed(run.epoch, loop.boundary))

HInv == TInv /\ Kept /\ Heeded /\ Bounded /\ Continued /\ Heeding

\* A longer transcript has what the shorter one has.
LEMMA EveryLonger ==
  ASSUME NEW heard \in Seq(Items), NEW more \in Seq(Items), NEW from, NEW points,
         EveryIn(heard, from, points)
  PROVE  EveryIn(heard \o more, from, points)
<1> DEFINE all == heard \o more
<1>1. \A i \in DOMAIN heard : i \in DOMAIN all /\ all[i] = heard[i]
  BY Joined
<1> HIDE DEF all
<1>2. EveryIn(all, from, points)
  BY <1>1 DEF EveryIn
<1> QED
  BY <1>2 DEF all

\* A turn behind which a boundary lies stays as final, or as little final, as it was.
LEMMA FinalKept ==
  ASSUME IInv, Grows, run'.epoch = run.epoch, NEW t \in Turns \ {0},
         ops[Asked(t)].status = "completed", Boundary(t) \in DOMAIN checkpoints
  PROVE  Final(t)' = Final(t) /\ (Boundary(t) \in DOMAIN checkpoints)'
<1>1. Asked(t) \in Keys /\ Asked(t)' = Asked(t) /\ Boundary(t)' = Boundary(t)
  BY Parts, KeysTyped DEF IInv, Asked, Boundary
<1>2. ops'[Asked(t)] = ops[Asked(t)]
  BY <1>1 DEF Grows
<1>3. Boundary(t) \in DOMAIN checkpoints' /\ checkpoints'[Boundary(t)] = checkpoints[Boundary(t)]
  BY DEF Grows
<1> QED
  BY <1>1, <1>2, <1>3 DEF Final

\* A step that records no turn and no boundary, and decides nothing.
LEMMA HeededKept ==
  ASSUME HInv, [Next]_vars, UNCHANGED <<checkpoints, saved>>, run'.epoch = run.epoch,
         Alive' => Alive, run'.status \in {"waiting", "completed"} => run'.status = run.status,
         \A k \in ModelKeys : ops'[k].status # "none" => ops[k].status # "none"
  PROVE  Heeded' /\ Bounded' /\ Continued'
<1> USE DEF HInv, TInv, RInv
<1>1. IInv /\ Grows
  BY JournalGrows
<1>2. Heeded'
  BY DEF Heeded, Every, Passed
<1>3. Bounded'
  <2> SUFFICES ASSUME Alive, NEW t \in Turns, Boundary(t)' \in DOMAIN checkpoints'
               PROVE  Whole(t)'
    BY DEF Bounded
  <2>1. Boundary(t) \in DOMAIN checkpoints
    BY DEF Boundary
  <2>2. Whole(t)
    BY <2>1 DEF Bounded
  <2> QED
    BY <1>1, <2>2, WholeKept
<1>4. Continued'
  <2> SUFFICES ASSUME Alive, NEW t \in Turns \ {0}, t + 1 \in Turns,
                      ops'[Asked(t + 1)'].status # "none"
               PROVE  ~Final(t)'
    BY DEF Continued
  <2>1. t \in Nat /\ t + 1 \in Turns \ {0} /\ t > 0
    BY Numbers
  <2>2. Asked(t + 1)' = Asked(t + 1) /\ Asked(t + 1) \in ModelKeys
    BY <1>1, <2>1, Parts, KeysTyped DEF IInv, Asked
  <2>3. ops[Asked(t + 1)].status # "none"
    BY <2>2
  <2>4. Whole(t) /\ Boundary(t) \in DOMAIN checkpoints
    BY <2>1, <2>3 DEF Chain
  <2>5. ~Final(t) /\ ops[Asked(t)].status = "completed"
    BY <2>1, <2>3, <2>4 DEF Continued, Whole
  <2> QED
    BY <1>1, <2>4, <2>5, FinalKept
<1> QED
  BY <1>2, <1>3, <1>4

\* Without an attempt nothing is claimed of the loop.
LEMMA NothingHeeded == ASSUME loop'.phase = "none" PROVE Heeding'
BY DEF Heeding

\* The loop stays where it is.
LEMMA HeedingKept ==
  ASSUME HInv, [Next]_vars, UNCHANGED checkpoints, run'.epoch = run.epoch, Alive' => Alive,
         loop'.phase = loop.phase, loop'.turn = loop.turn, loop'.boundary = loop.boundary,
         loop'.heard = loop.heard
  PROVE  Heeding'
<1> USE DEF HInv, TInv, RInv
<1>1. IInv /\ Grows
  BY JournalGrows
<1>2. loop.phase # "none" => Every(loop.heard, Passed(run.epoch, loop.boundary))'
  BY DEF Heeding, Every, Passed
<1>3. loop.turn \in Turns /\ loop.turn \in Nat
  BY <1>1, Parts, Numbers DEF IInv
<1>4. ASSUME Alive, loop.phase = "model", loop.turn > 0
      PROVE  ~Final(loop.turn)'
  <2>1. loop.turn \in Turns \ {0}
    BY <1>3, <1>4
  <2>2. Whole(loop.turn) /\ Boundary(loop.turn) \in DOMAIN checkpoints
    BY <1>4 DEF Follows
  <2>3. ops[Asked(loop.turn)].status = "completed" /\ ~Final(loop.turn)
    BY <1>4, <2>2 DEF Whole, Heeding
  <2> DEFINE t == loop.turn
  <2>4. Final(t)' = Final(t)
    <3> SUFFICES ASSUME NEW u, u = loop.turn PROVE Final(u)' = Final(u)
      OBVIOUS
    <3> QED
      BY <1>1, <2>1, <2>2, <2>3, FinalKept
  <2> QED
    BY <2>3, <2>4
<1>5. ASSUME Alive, loop.phase = "finish"
      PROVE  (Boundary(loop.turn) \in DOMAIN checkpoints /\ Final(loop.turn))'
  <2> SUFFICES ASSUME NEW u, u = loop.turn
               PROVE  (Boundary(u) \in DOMAIN checkpoints)' /\ Final(u)'
    OBVIOUS
  <2>1. u \in Turns \ {0}
    BY <1>1, <1>3, <1>5 DEF IInv, LoopShape
  <2>2. Boundary(u) \in DOMAIN checkpoints /\ Final(u)
    BY <1>5 DEF Heeding
  <2>3. ops[Asked(u)].status = "completed"
    BY <2>1, <2>2 DEF Told, Fence
  <2> QED
    BY <1>1, <2>1, <2>2, <2>3, FinalKept
<1> QED
  BY <1>2, <1>4, <1>5 DEF Heeding

\* A step that touches neither the inbox nor the boundaries keeps the requests known.
LEMMA KeptKept ==
  ASSUME HInv, UNCHANGED <<inbox, checkpoints, accepted>>
  PROVE  Kept'
BY DEF HInv, Kept, Known

\* The loop reads on: what it heard before is still there.
LEMMA HeedingLonger ==
  ASSUME HInv, [Next]_vars, UNCHANGED checkpoints, run'.epoch = run.epoch,
         loop.phase # "none", loop'.phase \notin {"none", "model", "finish"},
         loop'.boundary = loop.boundary,
         NEW more \in Seq(Items), loop'.heard = loop.heard \o more
  PROVE  Heeding'
<1>1. loop.heard \in Seq(Items)
  BY Parts DEF HInv, TInv, RInv, IInv
<1>2. EveryIn(loop.heard, Passed(run.epoch, loop.boundary), checkpoints)
  BY DEF HInv, Heeding, Every
<1>3. EveryIn(loop.heard \o more, Passed(run.epoch, loop.boundary), checkpoints)
  BY <1>1, <1>2, EveryLonger
<1>4. Passed(run.epoch, loop.boundary)' = Passed(run.epoch, loop.boundary)
  BY DEF Passed
<1>5. Every(loop.heard, Passed(run.epoch, loop.boundary))'
  BY <1>3, <1>4 DEF Every, EveryIn
<1> QED
  BY <1>5 DEF Heeding

\* An attempt begins with what was kept.
LEMMA StartHeeded == ASSUME HInv, Start PROVE HInv'
<1> USE DEF HInv, TInv, RInv
<1>1. [Next]_vars /\ UNCHANGED <<inbox, checkpoints, saved, ops, accepted>>
  BY DEF Start, Next, Agent, world
<1>2. /\ run'.epoch = run.epoch /\ run'.status = "running" /\ Alive
  BY DEF Start, IInv, TypeOK, Runnable, Alive
<1>3. TInv'
  BY <1>1, ToldNext
<1>4. Heeded' /\ Bounded' /\ Continued' /\ Kept'
  BY <1>1, <1>2, HeededKept, KeptKept
<1> DEFINE results == IF run.epoch > 0 /\ ~saved.approved
                        THEN <<Result(Head(saved.pending), 0)>> ELSE <<>>
<1>5. /\ loop'.phase \in {"tools", "drain"} /\ loop'.boundary = 0
      /\ loop'.heard = saved.heard \o results
  BY DEF Start, NoLoop
<1>6. saved.heard \in Seq(Items) /\ results \in Seq(Items)
  <2>1. saved.heard \in Seq(Items)
    BY Parts DEF IInv
  <2>2. CASE run.epoch > 0 /\ ~saved.approved
    <3>1. Len(saved.pending) = 1
      BY <1>2, <2>2 DEF IInv, Segment, InSegment, Alive
    <3>2. Result(Head(saved.pending), 0) \in Items
      BY <3>1, SegmentTyped, ItemsTyped DEF IInv, Values
    <3> QED
      BY <2>1, <2>2, <3>2
  <2>3. CASE ~(run.epoch > 0 /\ ~saved.approved)
    BY <2>1, <2>3
  <2> QED
    BY <2>2, <2>3
<1> HIDE DEF results
<1>7. Every(loop.heard, Passed(run.epoch, loop.boundary))'
  <2>1. EveryIn(saved.heard, Passed(run.epoch, 0), checkpoints)
    BY <1>2 DEF Heeded, Every
  <2>2. EveryIn(saved.heard \o results, Passed(run.epoch, 0), checkpoints)
    BY <1>6, <2>1, EveryLonger
  <2>3. Passed(run.epoch, loop.boundary)' = Passed(run.epoch, 0)
    BY <1>1, <1>2, <1>5 DEF Passed
  <2> QED
    BY <1>1, <1>5, <2>2, <2>3 DEF Every, EveryIn
<1>8. Heeding'
  BY <1>5, <1>7 DEF Heeding
<1> QED
  BY <1>3, <1>4, <1>8

\* The steps of the loop that record no turn and hear no request.
LEMMA WorkHeeded ==
  ASSUME HInv, BeginAttempt \/ ModelFails \/ PickCall \/ EndBatch \/ Abandon \/
               (\E a \in Answers : Answer(a)) \/
               \E c \in Calls : CarryOut(c) \/ Record(c) \/ RecordFails(c)
  PROVE  HInv'
<1> USE DEF HInv, TInv, RInv
<1>1. [Next]_vars
  BY DEF Next, Agent
<1>2. TInv'
  BY <1>1, ToldNext
<1>0. ops \in [Keys -> Op] /\ ToolKeys \cap ModelKeys = {} /\ ModelKeys \subseteq Keys
  BY KeysTyped DEF IInv, TypeOK
<1>3. CASE BeginAttempt
  <2> DEFINE key == ModelKey(run.epoch, loop.turn)
  <2>1. /\ UNCHANGED <<inbox, checkpoints, saved, accepted>>
        /\ \/ EndAttempt("failed", NoKey) /\ UNCHANGED ops
           \/ /\ ops' = [ops EXCEPT ![key].attempts = @ + 1]
              /\ loop' = [loop EXCEPT !.phase = "asking"] /\ UNCHANGED run
        /\ loop.phase = "begin" /\ ~loop.aborted
    BY <1>3 DEF BeginAttempt, At
  <2> HIDE DEF key
  <2>2. run.status = "running" /\ Alive
    BY <2>1 DEF IInv, LoopShape, Alive
  <2>3. \A k \in ModelKeys : ops'[k].status # "none" => ops[k].status # "none"
    <3> TAKE k \in ModelKeys
    <3>1. ops'[k] = ops[k] \/ ops'[k] = [ops[k] EXCEPT !.attempts = @ + 1]
      BY <1>0, <2>1
    <3>2. ops[k] \in Op
      BY <1>0
    <3> QED
      BY <3>1, <3>2 DEF Op
  <2>4. /\ run'.epoch = run.epoch
        /\ run'.status \in {"waiting", "completed"} => run'.status = run.status
    BY <2>1 DEF EndAttempt, IInv, TypeOK
  <2>5. Heeded' /\ Bounded' /\ Continued' /\ Kept'
    BY <1>1, <2>1, <2>2, <2>3, <2>4, HeededKept, KeptKept
  <2>6. Heeding'
    <3>1. CASE EndAttempt("failed", NoKey)
      BY <3>1, NothingHeeded DEF EndAttempt, NoLoop
    <3>2. CASE loop' = [loop EXCEPT !.phase = "asking"]
      <4>1. /\ loop'.phase = "asking" /\ loop'.boundary = loop.boundary
            /\ loop'.heard = loop.heard
        BY <3>2 DEF IInv, TypeOK, Loop
      <4>2. Every(loop.heard, Passed(run.epoch, loop.boundary))'
        BY <2>1, <2>4, <4>1 DEF Heeding, Every, Passed
      <4> QED
        BY <4>1, <4>2 DEF Heeding
    <3> QED
      BY <2>1, <3>1, <3>2
  <2> QED
    BY <1>2, <2>5, <2>6
<1>4. CASE ModelFails \/ Abandon
  <2>1. UNCHANGED <<ops, inbox, checkpoints, saved, accepted>> /\ loop'.phase = "none"
    BY <1>4 DEF ModelFails, Abandon, EndAttempt, NoLoop, world
  <2>2. /\ run'.epoch = run.epoch /\ (Alive' => Alive)
        /\ run'.status \in {"waiting", "completed"} => run'.status = run.status
    <3>1. CASE Abandon
      BY <3>1 DEF Abandon, Alive
    <3>2. CASE ModelFails
      <4>1. loop.phase # "none" /\ ~loop.aborted
        BY <3>2 DEF ModelFails, At
      <4>2. run.status = "running"
        BY <4>1 DEF IInv, LoopShape
      <4>3. PICK status \in {"retry_wait", "failed"} : EndAttempt(status, NoKey)
        BY <3>2 DEF ModelFails
      <4> QED
        BY <4>2, <4>3 DEF EndAttempt, IInv, TypeOK, Alive
    <3> QED
      BY <1>4, <3>1, <3>2
  <2>3. \A k \in ModelKeys : ops'[k].status # "none" => ops[k].status # "none"
    BY <2>1
  <2> QED
    BY <1>1, <1>2, <2>1, <2>2, <2>3, HeededKept, KeptKept, NothingHeeded
<1>5. CASE EndBatch
  <2>1. /\ UNCHANGED <<ops, inbox, checkpoints, saved, accepted>>
        /\ loop.phase = "tools" /\ ~loop.aborted
        /\ \/ EndAttempt("needs_attention", loop.failure)
           \/ /\ UNCHANGED run
              /\ loop' = [loop EXCEPT !.phase = "drain", !.batch = <<>>,
                                      !.heard = @ \o Results(Len(loop.batch))]
    BY <1>5 DEF EndBatch, At, world
  <2>2. run.status = "running" /\ Alive
    BY <2>1 DEF IInv, LoopShape, Alive
  <2>3. /\ run'.epoch = run.epoch
        /\ run'.status \in {"waiting", "completed"} => run'.status = run.status
    BY <2>1 DEF EndAttempt, IInv, TypeOK
  <2>4. \A k \in ModelKeys : ops'[k].status # "none" => ops[k].status # "none"
    BY <2>1
  <2>5. Heeded' /\ Bounded' /\ Continued' /\ Kept'
    BY <1>1, <2>1, <2>2, <2>3, <2>4, HeededKept, KeptKept
  <2>6. Heeding'
    <3>1. CASE EndAttempt("needs_attention", loop.failure)
      BY <3>1, NothingHeeded DEF EndAttempt, NoLoop
    <3>2. CASE loop' = [loop EXCEPT !.phase = "drain", !.batch = <<>>,
                                    !.heard = @ \o Results(Len(loop.batch))]
      <4> DEFINE results == Results(Len(loop.batch))
      <4>1. results \in Seq(Items)
        <5>1. loop.batch \in Seq(Calls) /\ Len(loop.batch) \in 0..Len(loop.batch)
          BY Parts DEF IInv
        <5> QED
          BY <5>1, ResultsAre DEF IInv
      <4> HIDE DEF results
      <4>2. /\ loop'.phase = "drain" /\ loop'.boundary = loop.boundary
            /\ loop'.heard = loop.heard \o results
        BY <3>2 DEF IInv, TypeOK, Loop, results
      <4> QED
        BY <1>1, <2>1, <2>3, <4>1, <4>2, HeedingLonger
    <3> QED
      BY <2>1, <3>1, <3>2
  <2> QED
    BY <1>2, <2>5, <2>6
<1>6. ASSUME NEW a \in Answers, Answer(a) PROVE HInv'
  <2> DEFINE key == ModelKey(run.epoch, loop.turn)
  <2>1. /\ UNCHANGED <<run, inbox, checkpoints, saved, accepted>>
        /\ ops' = [ops EXCEPT ![key].status = "completed", ![key].answer = a]
        /\ loop' = Digest(loop.turn, a)
        /\ loop.phase = "asking" /\ ~loop.aborted
    BY <1>6 DEF Answer, At, world
  <2>2. ops[key].status = "started"
    BY <2>1 DEF IInv, LoopShape
  <2> HIDE DEF key
  <2>3. \A k \in ModelKeys : ops'[k].status # "none" => ops[k].status # "none"
    <3> TAKE k \in ModelKeys
    <3>1. k = key \/ ops'[k] = ops[k]
      BY <1>0, <2>1
    <3> QED
      BY <2>2, <3>1
  <2>4. Heeded' /\ Bounded' /\ Continued' /\ Kept'
    BY <1>1, <2>1, <2>3, HeededKept, KeptKept DEF Alive
  <2>5. Heeding'
    <3>1. /\ loop'.phase \in {"closing", "tools"} /\ loop'.boundary = loop.boundary
          /\ loop'.heard = Append(loop.heard, Said(a))
      BY <2>1 DEF IInv, TypeOK, Loop, Digest
    <3>2. <<Said(a)>> \in Seq(Items) /\ loop'.heard = loop.heard \o <<Said(a)>>
      <4>1. Said(a) \in Items /\ loop.heard \in Seq(Items)
        BY ItemsTyped, Parts DEF IInv
      <4> QED
        BY <3>1, <4>1
    <3> QED
      BY <1>1, <2>1, <3>1, <3>2, HeedingLonger
  <2> QED
    BY <1>2, <2>4, <2>5
<1>7. CASE PickCall \/ \E c \in Calls : CarryOut(c) \/ Record(c) \/ RecordFails(c)
  <2>1. /\ UNCHANGED <<run, inbox, saved, checkpoints, accepted>>
        /\ loop'.phase = loop.phase /\ loop'.turn = loop.turn /\ loop'.boundary = loop.boundary
        /\ loop'.heard = loop.heard
        /\ \A k \in ModelKeys : ops'[k] = ops[k]
    <3>1. CASE PickCall
      <4> DEFINE key == CallKey(NextCall)
                 picked == [loop EXCEPT !.todo = Tail(@)]
      <4>1. /\ UNCHANGED <<run, inbox, saved, checkpoints, accepted>>
            /\ ops' = ops \/ ops' = [ops EXCEPT ![key].status = "started"]
            /\ \/ loop' = picked \/ loop' = [picked EXCEPT !.failure = key]
               \/ loop' = [picked EXCEPT !.begun = @ \cup {NextCall}]
        BY <3>1 DEF PickCall, world
      <4>2. key \in ToolKeys
        <5>1. loop.todo # <<>> /\ loop.todo \in Seq(Calls)
          BY <3>1, Parts DEF PickCall, CanPick, IInv
        <5>2. NextCall \in Calls
          BY <5>1 DEF NextCall
        <5> QED
          BY <5>2, Parts, KeysTyped DEF CallKey, IInv
      <4> HIDE DEF key
      <4>3. /\ loop'.phase = loop.phase /\ loop'.turn = loop.turn
            /\ loop'.boundary = loop.boundary /\ loop'.heard = loop.heard
        BY <4>1 DEF IInv, TypeOK, Loop
      <4>4. \A k \in ModelKeys : ops'[k] = ops[k]
        BY <1>0, <4>1, <4>2
      <4> QED
        BY <4>1, <4>3, <4>4
    <3>2. ASSUME NEW c \in Calls, CarryOut(c) \/ Record(c) \/ RecordFails(c)
          PROVE  /\ UNCHANGED <<run, inbox, saved, checkpoints, accepted>>
                 /\ loop'.phase = loop.phase /\ loop'.turn = loop.turn
                 /\ loop'.boundary = loop.boundary /\ loop'.heard = loop.heard
                 /\ \A k \in ModelKeys : ops'[k] = ops[k]
      <4>1. CASE CarryOut(c)
        BY <4>1 DEF CarryOut, IInv, TypeOK, Loop
      <4>2. CASE Record(c)
        <5> DEFINE key == CallKey(c)
                   value == executed[Identity(c)]
        <5>1. /\ UNCHANGED <<run, inbox, saved, checkpoints, accepted>>
              /\ ops' = [ops EXCEPT ![key].status = "completed", ![key].value = value]
              /\ loop' = [loop EXCEPT !.carried = @ \ {c}]
          BY <4>2 DEF Record, world
        <5>2. key \in ToolKeys
          BY Parts, KeysTyped DEF CallKey, IInv
        <5> HIDE DEF key, value
        <5>3. \A k \in ModelKeys : ops'[k] = ops[k]
          BY <1>0, <5>1, <5>2
        <5> QED
          BY <5>1, <5>3 DEF IInv, TypeOK, Loop
      <4>3. CASE RecordFails(c)
        BY <4>3 DEF RecordFails, IInv, TypeOK, Loop, world
      <4> QED
        BY <3>2, <4>1, <4>2, <4>3
    <3> QED
      BY <1>7, <3>1, <3>2
  <2> QED
    BY <1>1, <1>2, <2>1, HeededKept, HeedingKept, KeptKept DEF Alive
<1> QED
  BY <1>3, <1>4, <1>5, <1>6, <1>7

\* The boundaries of an epoch are recorded one after the other, and those the loop passed are.
Behind ==
  /\ \A t, u \in Turns : u < t /\ Boundary(t) \in DOMAIN checkpoints =>
                           Boundary(u) \in DOMAIN checkpoints
  /\ loop.phase # "none" =>
       \A t \in Turns : t < loop.boundary => Boundary(t) \in DOMAIN checkpoints

\* A step that records no boundary and passes none.
LEMMA BehindKept ==
  ASSUME Behind, UNCHANGED checkpoints, run'.epoch = run.epoch,
         loop'.phase # "none" => \/ loop'.boundary = 0
                                 \/ loop.phase # "none" /\ loop'.boundary = loop.boundary
  PROVE  Behind'
<1>1. \A t \in Turns : ~(t < 0)
  BY Numbers
<1>2. \A t : Boundary(t)' = Boundary(t)
  BY DEF Boundary
<1> QED
  BY <1>1, <1>2 DEF Behind

\* A boundary is recorded behind all those the loop passed.
LEMMA BehindDrained ==
  ASSUME TInv, Behind, NEW closing \in BOOLEAN, Drain(closing)
  PROVE  Behind'
<1> USE DEF TInv, RInv
<1>1. /\ loop.phase # "none" /\ loop.boundary = loop.turn
      /\ loop.turn \in Turns /\ loop.turn \in Nat
  <2>1. loop.phase \in {"closing", "drain"}
    BY DEF Drain, At
  <2>2. loop.turn \in Turns /\ loop.turn \in Nat
    BY Parts, Numbers DEF IInv
  <2>3. loop.boundary = loop.turn + 0
    BY <2>1 DEF IInv, LoopShape
  <2> QED
    BY <2>1, <2>2, <2>3
<1> SUFFICES ASSUME NEW n \in Nat, n \in Turns, n = loop.turn, n = loop.boundary PROVE Behind'
  BY <1>1
<1> DEFINE key == <<run.epoch, loop.boundary>>
<1>2. /\ UNCHANGED run /\ DOMAIN checkpoints' = DOMAIN checkpoints \cup {key}
      /\ loop'.boundary = n + 1
  BY DrainEffect
<1>3. key = Boundary(n)
  BY DEF Boundary
<1> HIDE DEF key
<1>4. \A t \in Turns : t < n => Boundary(t) \in DOMAIN checkpoints
  BY <1>1 DEF Behind
<1>5. ASSUME NEW t \in Turns, t < n + 1 PROVE Boundary(t) \in DOMAIN checkpoints'
  <2>1. t \in Nat
    BY Numbers
  <2>2. t < n \/ t = n
    BY <1>5, <2>1
  <2> QED
    BY <1>2, <1>3, <1>4, <2>2
<1>6. ASSUME NEW t \in Turns, NEW u \in Turns, u < t, Boundary(t) \in DOMAIN checkpoints'
      PROVE  Boundary(u) \in DOMAIN checkpoints'
  <2>1. CASE Boundary(t) \in DOMAIN checkpoints
    BY <1>2, <1>6, <2>1 DEF Behind
  <2>2. CASE Boundary(t) = key
    <3>1. t = n
      BY <1>3, <2>2 DEF Boundary
    <3> QED
      BY <1>2, <1>4, <1>6, <3>1
  <2> QED
    BY <1>2, <1>6, <2>1, <2>2
<1>7. \A t : Boundary(t)' = Boundary(t)
  BY <1>2 DEF Boundary
<1> QED
  BY <1>2, <1>5, <1>6, <1>7 DEF Behind

\* Of a new epoch no boundary is recorded.
LEMMA FirstBoundary ==
  ASSUME TInv, NEW approved \in BOOLEAN, respond(approved)
  PROVE  /\ \A t : Boundary(t)' \notin DOMAIN checkpoints'
         /\ Passed(run.epoch, 0)' = DOMAIN checkpoints
         /\ run'.epoch \in Epochs /\ run.epoch < run'.epoch
         /\ loop'.phase = "none"
<1> USE DEF TInv, RInv, Told
<1>1. /\ run.status = "waiting" /\ run'.epoch = run.epoch + 1 /\ UNCHANGED <<checkpoints, loop>>
  BY DEF respond, IInv, TypeOK
<1>2. run.epoch \in Nat /\ \A b \in DOMAIN checkpoints : b[1] \in Nat /\ b[1] <= run.epoch
  BY Parts, Numbers DEF IInv, TypeOK, Fence
<1>3. /\ \A b \in DOMAIN checkpoints : b[1] < run'.epoch /\ b[1] # run'.epoch
      /\ run.epoch < run'.epoch
  BY <1>1, <1>2
<1>4. Passed(run.epoch, 0)' = DOMAIN checkpoints
  BY <1>1, <1>3 DEF Passed
<1>5. ASSUME NEW t, Boundary(t)' \in DOMAIN checkpoints' PROVE FALSE
  <2>1. Boundary(t)'[1] = run'.epoch
    BY DEF Boundary
  <2> QED
    BY <1>1, <1>3, <1>5, <2>1
<1>6. run'.epoch \in Epochs
  <2>1. run.epoch < MaxResponses
    BY DEF respond
  <2> QED
    BY <1>1, <1>2, <2>1, Numbers
<1>7. loop'.phase = "none"
  BY <1>1 DEF IInv, LoopShape
<1> QED
  BY <1>3, <1>4, <1>5, <1>6, <1>7

\* Every step keeps the boundaries without a hole.
LEMMA BehindNext == ASSUME TInv, Behind, [Next]_vars PROVE Behind'
<1> USE DEF TInv, RInv
<1>1. CASE Start
  <2>1. UNCHANGED checkpoints /\ run'.epoch = run.epoch /\ loop'.boundary = 0
    BY <1>1 DEF Start, NoLoop, IInv, TypeOK
  <2> QED
    BY <2>1, BehindKept
<1>2. CASE StartModel
  <2> DEFINE turn == loop.turn + 1
             key == ModelKey(run.epoch, turn)
  <2>1. /\ UNCHANGED checkpoints /\ loop.phase = "model"
        /\ \/ EndAttempt("failed", NoKey) \/ EndAttempt("needs_attention", key)
           \/ /\ loop' = [loop EXCEPT !.phase = "begin", !.turn = turn]
              /\ run' = run \/ run' = [run EXCEPT !.turns = @ + 1]
           \/ run' = run /\ loop' = Digest(turn, ops[key].answer)
    BY <1>2 DEF StartModel, At
  <2> HIDE DEF turn, key
  <2>2. run'.epoch = run.epoch /\ (loop'.phase = "none" \/ loop'.boundary = loop.boundary)
    <3>1. ASSUME NEW status, NEW k, EndAttempt(status, k)
          PROVE  run'.epoch = run.epoch /\ loop'.phase = "none"
      BY <3>1 DEF EndAttempt, NoLoop, IInv, TypeOK
    <3>2. CASE /\ loop' = [loop EXCEPT !.phase = "begin", !.turn = turn]
               /\ run' = run \/ run' = [run EXCEPT !.turns = @ + 1]
      BY <3>2 DEF IInv, TypeOK, Loop
    <3>3. CASE run' = run /\ loop' = Digest(turn, ops[key].answer)
      BY <3>3 DEF Digest, IInv, TypeOK, Loop
    <3> QED
      BY <2>1, <3>1, <3>2, <3>3
  <2> QED
    BY <2>1, <2>2, BehindKept
<1>3. CASE BeginAttempt \/ EndBatch \/ ModelFails \/ Suspend \/ Finish \/ Abandon
  <2>1. /\ UNCHANGED checkpoints /\ loop.phase # "none"
        /\ \/ \E status, k : EndAttempt(status, k)
           \/ run' = run /\ loop' = NoLoop
           \/ run' = run /\ loop' = [loop EXCEPT !.phase = "asking"]
           \/ run' = run /\ loop' = [loop EXCEPT !.phase = "drain", !.batch = <<>>,
                                                 !.heard = @ \o Results(Len(loop.batch))]
    <3>1. CASE BeginAttempt
      BY <3>1 DEF BeginAttempt, At
    <3>2. CASE EndBatch
      BY <3>2 DEF EndBatch, At
    <3>3. CASE ModelFails
      BY <3>3 DEF ModelFails, At
    <3>4. CASE Suspend
      BY <3>4 DEF Suspend, CanPick, At
    <3>5. CASE Finish
      BY <3>5 DEF Finish, At
    <3>6. CASE Abandon
      BY <3>6 DEF Abandon
    <3> QED
      BY <1>3, <3>1, <3>2, <3>3, <3>4, <3>5, <3>6
  <2>2. run'.epoch = run.epoch /\ (loop'.phase = "none" \/ loop'.boundary = loop.boundary)
    <3>1. ASSUME NEW status, NEW k, EndAttempt(status, k)
          PROVE  run'.epoch = run.epoch /\ loop'.phase = "none"
      BY <3>1 DEF EndAttempt, NoLoop, IInv, TypeOK
    <3>2. CASE run' = run /\ loop' = NoLoop
      BY <3>2 DEF NoLoop
    <3>3. CASE run' = run /\ loop' = [loop EXCEPT !.phase = "asking"]
      BY <3>3 DEF IInv, TypeOK, Loop
    <3>4. CASE run' = run /\ loop' = [loop EXCEPT !.phase = "drain", !.batch = <<>>,
                                                  !.heard = @ \o Results(Len(loop.batch))]
      BY <3>4 DEF IInv, TypeOK, Loop
    <3> QED
      BY <2>1, <3>1, <3>2, <3>3, <3>4
  <2> QED
    BY <2>1, <2>2, BehindKept
<1>4. ASSUME NEW a \in Answers, Answer(a) PROVE Behind'
  <2>1. /\ UNCHANGED <<run, checkpoints>> /\ loop.phase # "none"
        /\ loop' = Digest(loop.turn, a)
    BY <1>4 DEF Answer, At
  <2>2. loop'.boundary = loop.boundary
    BY <2>1 DEF Digest, IInv, TypeOK, Loop
  <2> QED
    BY <2>1, <2>2, BehindKept
<1>5. CASE PickCall
  <2> DEFINE key == CallKey(NextCall)
             picked == [loop EXCEPT !.todo = Tail(@)]
  <2>1. /\ UNCHANGED <<run, checkpoints>> /\ loop.phase # "none"
        /\ \/ loop' = picked \/ loop' = [picked EXCEPT !.failure = key]
           \/ loop' = [picked EXCEPT !.begun = @ \cup {NextCall}]
    BY <1>5 DEF PickCall, CanPick, At
  <2>2. loop'.boundary = loop.boundary
    BY <2>1 DEF IInv, TypeOK, Loop
  <2> QED
    BY <2>1, <2>2, BehindKept
<1>6. ASSUME NEW c \in Calls, CarryOut(c) \/ Record(c) \/ RecordFails(c) PROVE Behind'
  <2>1. UNCHANGED <<run, checkpoints>> /\ loop.phase # "none" /\ loop'.boundary = loop.boundary
    BY <1>6 DEF CarryOut, Record, RecordFails, At, IInv, TypeOK, Loop
  <2> QED
    BY <2>1, BehindKept
<1>7. ASSUME NEW approved \in BOOLEAN, respond(approved) PROVE Behind'
  BY <1>7, FirstBoundary DEF Behind
<1>8. CASE (\E m \in Inputs : steer(m)) \/ resolveTool \/ retry \/ cancel \/ close \/ Crash \/ open
  <2>1. UNCHANGED checkpoints /\ run'.epoch = run.epoch
    BY <1>8 DEF steer, resolveTool, retry, cancel, close, Crash, open, journal, IInv, TypeOK
  <2>2. loop' = loop \/ loop' = NoLoop \/ loop' = [loop EXCEPT !.aborted = TRUE]
    BY <1>8 DEF steer, resolveTool, retry, cancel, close, Crash, open
  <2>3. loop'.phase # "none" => loop.phase # "none" /\ loop'.boundary = loop.boundary
    BY <2>2 DEF IInv, TypeOK, Loop, NoLoop
  <2> QED
    BY <2>1, <2>3, BehindKept
<1>9. CASE UNCHANGED vars
  BY <1>9, BehindKept DEF vars
<1>10. CASE Agent
  BY <1>10, <1>1, <1>2, <1>3, <1>4, <1>5, <1>6, BehindDrained DEF Agent
<1>11. CASE Host
  BY <1>11, <1>7, <1>8 DEF Host
<1> QED
  BY <1>9, <1>10, <1>11 DEF Next

\* A recorded turn follows a boundary behind which the loop goes on.
LEMMA StartModelHeeded == ASSUME HInv, StartModel PROVE HInv'
<1> USE DEF HInv, TInv, RInv
<1> DEFINE turn == loop.turn + 1
           key == ModelKey(run.epoch, turn)
           new == turn <= MaxModelTurns => ops[key].status = "none"
<1>1. [Next]_vars /\ UNCHANGED <<inbox, saved, checkpoints, accepted>>
  BY DEF StartModel, Next, Agent, world
<1>2. /\ loop.phase = "model" /\ Alive /\ run.status = "running"
      /\ turn \in Nat \ {0} /\ key = Asked(turn) /\ loop.turn \in Turns /\ loop.turn \in Nat
  <2>1. loop.phase = "model" /\ ~loop.aborted
    BY DEF StartModel, At
  <2>2. loop.turn \in Nat /\ loop.turn \in Turns
    BY Parts, Numbers DEF IInv
  <2>3. run.status = "running"
    BY <2>1 DEF IInv, LoopShape
  <2> QED
    BY <2>1, <2>2, <2>3 DEF Alive, Asked
<1>3. TInv' /\ Kept' /\ IInv /\ Grows
  BY <1>1, ToldNext, KeptKept, JournalGrows
<1>4. CASE UNCHANGED ops /\ (EndAttempt("failed", NoKey) \/ EndAttempt("needs_attention", key))
  <2> HIDE DEF key, new
  <2>1. /\ loop'.phase = "none" /\ run'.epoch = run.epoch
        /\ run'.status \notin {"waiting", "completed"}
    <3>1. ASSUME NEW status \in {"failed", "needs_attention"}, NEW k, EndAttempt(status, k)
          PROVE  /\ loop'.phase = "none" /\ run'.epoch = run.epoch
                 /\ run'.status \notin {"waiting", "completed"}
      BY <3>1 DEF EndAttempt, NoLoop, IInv, TypeOK
    <3> QED
      BY <1>4, <3>1
  <2>2. \A k \in ModelKeys : ops'[k].status # "none" => ops[k].status # "none"
    BY <1>4
  <2>3. Heeded' /\ Bounded' /\ Continued'
    BY <1>1, <1>2, <2>1, <2>2, HeededKept
  <2> QED
    BY <1>3, <2>1, <2>3, NothingHeeded
<1>5. CASE /\ loop' = [loop EXCEPT !.phase = "begin", !.turn = turn]
           /\ run' = run \/ run' = [run EXCEPT !.turns = @ + 1]
           /\ \/ UNCHANGED ops
              \/ /\ ~Spent /\ new
                 /\ ops' = [ops EXCEPT ![key].status = "started", ![key].input = loop.heard]
  <2>1. /\ loop'.phase = "begin" /\ loop'.boundary = loop.boundary /\ loop'.heard = loop.heard
        /\ run'.epoch = run.epoch /\ run'.status = run.status
    BY <1>5 DEF IInv, TypeOK, Loop
  <2>2. Heeding'
    <3>1. Every(loop.heard, Passed(run.epoch, loop.boundary))'
      BY <1>1, <1>2, <2>1 DEF Heeding, Every, Passed
    <3> QED
      BY <2>1, <3>1 DEF Heeding
  <2>3. Heeded'
    BY <1>1, <1>2, <2>1 DEF Heeded, Every, Passed, Alive
  <2>4. Bounded'
    <3> SUFFICES ASSUME NEW t \in Turns, Boundary(t)' \in DOMAIN checkpoints' PROVE Whole(t)'
      BY DEF Bounded
    <3>1. Boundary(t) \in DOMAIN checkpoints
      BY <1>1, <2>1 DEF Boundary
    <3>2. Whole(t)
      BY <1>2, <3>1 DEF Bounded
    <3> QED
      BY <1>1, <1>3, <2>1, <3>2, WholeKept
  <2>5. Continued'
    <3> SUFFICES ASSUME NEW t \in Turns \ {0}, t + 1 \in Turns,
                        ops'[Asked(t + 1)'].status # "none"
                 PROVE  ~Final(t)'
      BY DEF Continued
    <3>1. t \in Nat /\ t + 1 \in Turns \ {0} /\ t > 0
      BY Numbers
    <3>2. Asked(t + 1)' = Asked(t + 1) /\ Asked(t + 1) \in Keys
      BY <2>1, <3>1, Parts, KeysTyped DEF IInv, Asked
    <3>3. Whole(t) /\ Boundary(t) \in DOMAIN checkpoints /\ ~Final(t)
      <4>1. CASE ops[Asked(t + 1)].status # "none"
        BY <1>2, <3>1, <4>1 DEF Chain, Continued
      <4>2. CASE ops[Asked(t + 1)].status = "none"
        <5>1. Asked(t + 1) = key
          <6> HIDE DEF key, new
          <6> QED
            BY <1>5, <3>2, <4>2 DEF IInv, TypeOK
        <5>2. t + 1 = turn
          BY <5>1 DEF Asked, ModelKey
        <5>3. t = loop.turn
          BY <1>2, <3>1, <5>2
        <5> QED
          BY <1>2, <3>1, <5>3 DEF Follows, Heeding
      <4> QED
        BY <4>1, <4>2
    <3>4. ops[Asked(t)].status = "completed"
      BY <3>1, <3>3 DEF Whole
    <3> QED
      BY <1>3, <2>1, <3>3, <3>4, FinalKept
  <2> QED
    BY <1>3, <2>2, <2>3, <2>4, <2>5
<1>6. CASE /\ ~new /\ ops[key].status = "completed" /\ UNCHANGED <<run, ops>>
           /\ loop' = Digest(turn, ops[key].answer)
  <2> DEFINE a == ops[key].answer
  <2>1. turn \in Turns \ {0}
    BY <1>2, <1>6 DEF Turns
  <2>2. a \in Answers
    BY <1>2, <1>6, <2>1, Parts DEF IInv, AnswersFirst
  <2>3. /\ loop'.phase \in {"closing", "tools"} /\ loop'.boundary = loop.boundary
        /\ loop'.heard = Append(loop.heard, Said(a))
    <3> HIDE DEF a, turn, key, new
    <3> QED
      BY <1>6, <2>2 DEF IInv, TypeOK, Loop, Digest, a
  <2> HIDE DEF a
  <2>4. <<Said(a)>> \in Seq(Items) /\ loop'.heard = loop.heard \o <<Said(a)>>
    <3>1. Said(a) \in Items /\ loop.heard \in Seq(Items)
      BY <2>2, ItemsTyped, Parts DEF IInv
    <3> QED
      BY <2>3, <3>1
  <2>5. /\ run'.epoch = run.epoch /\ (Alive' => Alive)
        /\ \A k \in ModelKeys : ops'[k].status # "none" => ops[k].status # "none"
        /\ run'.status \in {"waiting", "completed"} => run'.status = run.status
    BY <1>2, <1>6
  <2>6. Heeded' /\ Bounded' /\ Continued'
    BY <1>1, <2>5, HeededKept
  <2>7. Heeding'
    BY <1>1, <1>2, <2>3, <2>4, <2>5, HeedingLonger
  <2> QED
    BY <1>3, <2>6, <2>7
<1>7. \/ UNCHANGED ops /\ (EndAttempt("failed", NoKey) \/ EndAttempt("needs_attention", key))
      \/ /\ loop' = [loop EXCEPT !.phase = "begin", !.turn = turn]
         /\ run' = run \/ run' = [run EXCEPT !.turns = @ + 1]
         /\ \/ UNCHANGED ops
            \/ /\ ~Spent /\ new
               /\ ops' = [ops EXCEPT ![key].status = "started", ![key].input = loop.heard]
      \/ /\ ~new /\ ops[key].status = "completed" /\ UNCHANGED <<run, ops>>
         /\ loop' = Digest(turn, ops[key].answer)
  BY DEF StartModel
<1> QED
  BY <1>4, <1>5, <1>6, <1>7

\* What waited in the inbox is heard behind the boundary that takes it.
LEMMA DrainHeeded ==
  ASSUME HInv, NEW closing \in BOOLEAN, Drain(closing)
  PROVE  HInv'
<1> USE DEF HInv, TInv, RInv
<1> DEFINE key == <<run.epoch, loop.boundary>>
           entries == checkpoints'[key]
           more == [i \in DOMAIN entries |-> Heard(entries[i])]
           from == Passed(run.epoch, loop.boundary)
<1>1. /\ UNCHANGED <<run, ops, saved>>
      /\ DOMAIN checkpoints' = DOMAIN checkpoints \cup {key}
      /\ \A b \in DOMAIN checkpoints : checkpoints'[b] = checkpoints[b]
      /\ entries \in Seq(Inputs)
      /\ key \in DOMAIN checkpoints => UNCHANGED <<inbox, checkpoints>>
      /\ key \notin DOMAIN checkpoints => entries = inbox.pending /\ inbox'.pending = <<>>
      /\ loop'.phase = (IF closing /\ entries = <<>> THEN "finish" ELSE "model")
      /\ loop'.boundary = loop.boundary + 1 /\ loop'.turn = loop.turn
      /\ loop'.heard = loop.heard \o more
  BY DrainEffect
<1>2. UNCHANGED accepted /\ [Next]_vars
  BY DEF Drain, world, Next, Agent
<1>3. /\ loop.phase = (IF closing THEN "closing" ELSE "drain")
      /\ run.status = "running" /\ Alive /\ loop.boundary = loop.turn
      /\ loop.turn \in Turns /\ loop.turn \in Nat /\ run.epoch \in Nat
  <2>1. loop.phase = (IF closing THEN "closing" ELSE "drain") /\ ~loop.aborted
    BY DEF Drain, At
  <2>2. loop.turn \in Turns /\ loop.turn \in Nat /\ run.epoch \in Nat
    BY Parts, Numbers DEF IInv
  <2>3. run.status = "running" /\ loop.boundary = loop.turn + 0
    BY <2>1 DEF IInv, LoopShape
  <2> QED
    BY <2>1, <2>2, <2>3 DEF Alive
<1>4. TInv' /\ Grows
  BY <1>2, ToldNext, JournalGrows
<1>5. key = Boundary(loop.turn) /\ key[1] = run.epoch /\ key[2] = loop.boundary
  BY <1>3 DEF Boundary
<1> HIDE DEF key, more, from
<1>6. Kept'
  <2> HIDE DEF entries
  <2> SUFFICES ASSUME NEW m \in accepted PROVE Known(m)'
    BY <1>2 DEF Kept
  <2>1. CASE m \in {inbox.pending[i] : i \in DOMAIN inbox.pending}
    <3>1. CASE key \in DOMAIN checkpoints
      BY <1>1, <2>1, <3>1 DEF Known
    <3>2. CASE key \notin DOMAIN checkpoints
      <4>1. m \in {checkpoints'[key][i] : i \in DOMAIN checkpoints'[key]}
        BY <1>1, <2>1, <3>2 DEF entries
      <4> QED
        BY <1>1, <4>1 DEF Known
    <3> QED
      BY <3>1, <3>2
  <2>2. ASSUME NEW b \in DOMAIN checkpoints, m \in {checkpoints[b][i] : i \in DOMAIN checkpoints[b]}
        PROVE  Known(m)'
    BY <1>1, <2>2 DEF Known
  <2> QED
    BY <2>1, <2>2 DEF Kept, Known
<1>7. Heeded'
  <2>1. key \notin Passed(run.epoch, 0) /\ key \notin Passed(run.epoch, 0)'
    <3>1. ~(loop.boundary < 0) /\ ~(run.epoch < run.epoch)
      BY <1>3
    <3> QED
      BY <1>1, <1>5, <3>1 DEF Passed
  <2>2. Passed(run.epoch, 0)' = Passed(run.epoch, 0)
    BY <1>1, <2>1 DEF Passed
  <2>3. Passed(run.epoch, 0) \subseteq DOMAIN checkpoints
    BY DEF Passed
  <2>4. EveryIn(saved.heard, Passed(run.epoch, 0), checkpoints)
    BY <1>3 DEF Heeded, Every
  <2>5. EveryIn(saved'.heard, Passed(run.epoch, 0)', checkpoints')
    BY <1>1, <2>2, <2>3, <2>4 DEF EveryIn
  <2>6. run'.status \notin {"waiting", "completed"}
    BY <1>1, <1>3
  <2> QED
    BY <2>5, <2>6 DEF Heeded, Every
<1> SUFFICES ASSUME NEW n \in Nat, n \in Turns, n = loop.turn, n = loop.boundary PROVE HInv'
  BY <1>3
<1>8. Whole(n)
  BY <1>3 DEF Follows
<1>9. \A t \in Turns : Boundary(t)' = Boundary(t) /\ Asked(t)' = Asked(t)
  BY <1>1 DEF Boundary, Asked
<1>10. Bounded'
  <2> SUFFICES ASSUME NEW t \in Turns, Boundary(t) \in DOMAIN checkpoints' PROVE Whole(t)'
    BY <1>9 DEF Bounded
  <2>1. Whole(t)
    <3>1. CASE Boundary(t) \in DOMAIN checkpoints
      BY <1>3, <3>1 DEF Bounded
    <3>2. CASE Boundary(t) = key
      <4>1. t = n
        BY <1>5, <3>2 DEF Boundary
      <4> QED
        BY <1>8, <4>1
    <3> QED
      BY <1>1, <3>1, <3>2
  <2> QED
    BY <1>1, <1>4, <2>1, WholeKept
<1>11. Continued'
  <2> SUFFICES ASSUME NEW t \in Turns \ {0}, t + 1 \in Turns, ops'[Asked(t + 1)'].status # "none"
               PROVE  ~Final(t)'
    BY DEF Continued
  <2>1. t \in Nat /\ t > 0
    BY Numbers
  <2>2. ops[Asked(t + 1)].status # "none"
    BY <1>1, <1>9
  <2>3. Whole(t) /\ Boundary(t) \in DOMAIN checkpoints /\ ~Final(t)
    BY <1>3, <2>1, <2>2 DEF Chain, Continued
  <2>4. ops[Asked(t)].status = "completed"
    BY <2>1, <2>3 DEF Whole
  <2> QED
    BY <1>1, <1>4, <2>3, <2>4, FinalKept
<1>12. Every(loop.heard, Passed(run.epoch, loop.boundary))'
  <2>1. loop.heard \in Seq(Items) /\ more \in Seq(Items)
    <3>1. loop.heard \in Seq(Items)
      BY Parts DEF IInv
    <3>2. DOMAIN entries = 1..Len(entries) /\ \A i \in DOMAIN entries : entries[i] \in Inputs
          /\ Len(entries) \in Nat
      BY <1>1
    <3>3. \A i \in DOMAIN entries : Heard(entries[i]) \in Items
      BY <3>2, ItemsTyped
    <3> QED
      BY <3>1, <3>2, <3>3 DEF more
  <2>2. EveryIn(loop.heard, from, checkpoints')
    <3>1. EveryIn(loop.heard, from, checkpoints)
      BY <1>3 DEF Heeding, Every, from
    <3>2. from \subseteq DOMAIN checkpoints
      BY DEF from, Passed
    <3> QED
      BY <1>1, <3>1, <3>2 DEF EveryIn
  <2>3. EveryIn(loop.heard \o more, from, checkpoints')
    BY <2>1, <2>2, EveryLonger
  <2>4. EveryIn(loop.heard \o more, {key}, checkpoints')
    <3> DEFINE all == loop.heard \o more
    <3>1. \A i \in DOMAIN more : Len(loop.heard) + i \in DOMAIN all
                                 /\ all[Len(loop.heard) + i] = more[i]
      BY <2>1, Joined
    <3> HIDE DEF all
    <3>2. \A i \in DOMAIN entries : i \in DOMAIN more /\ more[i] = Heard(entries[i])
      BY DEF more
    <3>3. EveryIn(all, {key}, checkpoints')
      BY <3>1, <3>2 DEF EveryIn
    <3> QED
      BY <3>3 DEF all
  <2>5. Passed(run.epoch, loop.boundary)' \subseteq from \cup {key}
    <3> SUFFICES ASSUME NEW b \in DOMAIN checkpoints', b # key,
                        b[1] < run.epoch \/ (b[1] = run.epoch /\ b[2] < n + 1)
                 PROVE  b \in from
      BY <1>1 DEF Passed
    <3>1. b \in DOMAIN checkpoints
      BY <1>1
    <3>2. b = <<b[1], b[2]>> /\ b[2] \in Nat
      <4>1. DOMAIN checkpoints \subseteq Epochs \X (0..MaxModelTurns)
        BY DEF IInv, TypeOK, Turns
      <4> QED
        BY <3>1, <4>1
    <3>3. b[1] = run.epoch => b[2] # n
      BY <3>2 DEF key
    <3> QED
      BY <3>1, <3>2, <3>3 DEF from, Passed
  <2>6. EveryIn(loop'.heard, Passed(run.epoch, loop.boundary)', checkpoints')
    <3> DEFINE all == loop.heard \o more
               passed == Passed(run.epoch, loop.boundary)'
    <3>1. loop'.heard = all
      BY <1>1
    <3> HIDE DEF all, passed
    <3>2. EveryIn(all, passed, checkpoints')
      <4>1. EveryIn(all, from, checkpoints') /\ EveryIn(all, {key}, checkpoints')
            /\ passed \subseteq from \cup {key}
        BY <2>3, <2>4, <2>5 DEF all, passed
      <4> QED
        BY <4>1 DEF EveryIn
    <3>3. EveryIn(loop'.heard, passed, checkpoints')
      BY <3>1, <3>2
    <3> QED
      BY <3>3 DEF passed
  <2> QED
    BY <2>6 DEF Every
<1>13. loop'.phase = "model" /\ n > 0 => ~Final(n)'
  <2> SUFFICES ASSUME loop'.phase = "model", n > 0 PROVE ~Final(n)'
    OBVIOUS
  <2>1. CASE closing
    <3>1. checkpoints'[Boundary(n)'] # <<>>
      BY <1>1, <1>5, <1>9, <2>1
    <3> QED
      BY <3>1 DEF Final
  <2>2. CASE ~closing
    <3>1. ops[Asked(n)].answer # <<>>
      BY <1>3, <2>2 DEF Speaking
    <3> QED
      BY <1>1, <1>9, <3>1 DEF Final
  <2> QED
    BY <2>1, <2>2
<1>14. loop'.phase = "finish" => Boundary(n)' \in DOMAIN checkpoints' /\ Final(n)'
  <2> SUFFICES ASSUME loop'.phase = "finish" PROVE Boundary(n)' \in DOMAIN checkpoints' /\ Final(n)'
    OBVIOUS
  <2>1. closing /\ entries = <<>>
    BY <1>1
  <2>2. ops[Asked(n)].answer = <<>>
    BY <1>3, <2>1 DEF Speaking
  <2> QED
    BY <1>1, <1>5, <1>9, <2>1, <2>2 DEF Final
<1>15. Heeding'
  <2>1. loop'.turn = n
    BY <1>1
  <2> HIDE DEF entries
  <2> QED
    BY <1>12, <1>13, <1>14, <2>1 DEF Heeding
<1> QED
  BY <1>4, <1>6, <1>7, <1>10, <1>11, <1>15

\* The run waits with the requests of every boundary in its transcript: no turn at or behind
\* the pending call is whole, so that no boundary lies behind it.
LEMMA SuspendHeeded == ASSUME HInv, Behind, Suspend PROVE HInv'
<1> USE DEF HInv, TInv, RInv
<1> DEFINE results == Results(Picked)
<1>1. /\ loop.phase = "tools" /\ ~loop.aborted /\ loop.todo # <<>>
      /\ saved'.heard = loop.heard \o results /\ NeedsApproval(Head(loop.todo))
      /\ run'.status = "waiting" /\ run'.epoch = run.epoch
      /\ loop'.phase = "none"
      /\ UNCHANGED <<ops, inbox, checkpoints, accepted>> /\ [Next]_vars
  BY DEF Suspend, CanPick, At, EndAttempt, NoLoop, NextCall, Picked, IInv, TypeOK, world,
         Next, Agent
<1>2. ~Alive' /\ Alive
  <2>1. run.status = "running"
    BY <1>1 DEF IInv, LoopShape
  <2> QED
    BY <1>1, <2>1 DEF Alive
<1>3. /\ loop.heard \in Seq(Items) /\ loop.batch \in Seq(Calls) /\ loop.todo \in Seq(Calls)
      /\ Len(loop.batch) \in Nat /\ Len(loop.todo) \in Nat \ {0}
      /\ DOMAIN loop.batch = 1..Len(loop.batch)
      /\ loop.turn \in Turns /\ loop.turn \in Nat /\ run.epoch \in Nat /\ run.epoch \in Epochs
  <2>1. /\ loop.heard \in Seq(Items) /\ loop.batch \in Seq(Calls) /\ loop.todo \in Seq(Calls)
        /\ loop.turn \in Turns /\ run.epoch \in Epochs
    BY Parts DEF IInv
  <2>2. /\ Len(loop.batch) \in Nat /\ Len(loop.todo) \in Nat \ {0}
        /\ DOMAIN loop.batch = 1..Len(loop.batch)
    BY <1>1, <2>1
  <2> QED
    BY <2>1, <2>2, Numbers
<1>4. /\ Len(loop.todo) <= Len(loop.batch) /\ loop.boundary = loop.turn
      /\ \A i \in 1..Len(loop.todo) : loop.todo[i] = loop.batch[Picked + i]
  <2>1. loop.boundary = loop.turn + 0
    BY <1>1 DEF IInv, LoopShape
  <2> QED
    BY <1>1, <1>3, <2>1 DEF IInv, Picks
<1>5. Picked \in 0..Len(loop.batch) /\ Picked + 1 \in 1..Len(loop.batch) /\ 1 \in 1..Len(loop.todo)
  <2>1. ASSUME NEW b \in Nat, NEW t \in Nat \ {0}, t <= b
        PROVE  b - t \in 0..b /\ (b - t) + 1 \in 1..b /\ 1 \in 1..t
    BY <2>1
  <2> QED
    BY <1>3, <1>4, <2>1 DEF Picked
<1>6. results \in Seq(Items)
  BY <1>5, ResultsAre DEF IInv
<1> HIDE DEF results
<1>7. PICK p \in DOMAIN loop.batch : NeedsApproval(loop.batch[p])
  <2>1. Head(loop.todo) = loop.todo[1]
    BY <1>3
  <2> QED
    BY <1>1, <1>3, <1>4, <1>5, <2>1
<1> SUFFICES ASSUME NEW n \in Nat, n \in Turns, n = loop.turn, n = loop.boundary PROVE HInv'
  BY <1>3, <1>4
<1>8. Given(n) = loop.batch
  BY <1>1, <1>3 DEF IInv, Batch, Given, FirstCalls, Asked
<1>9. ops[ToolKey(run.epoch, n, loop.batch[p])].status = "none"
  <2>1. Gated(loop.batch, loop.granted, run.epoch, n)
    <3>1. CASE n = 0
      <4>1. InSegment
        BY <1>1, <1>2, <3>1 DEF IInv, Batch, InSegment, Alive
      <4> QED
        BY <1>1, <3>1, <4>1 DEF IInv, Segment, Batch
    <3>2. CASE n > 0
      <4>1. n \in Turns \ {0}
        BY <3>2
      <4>2. /\ ops[ModelKey(run.epoch, n)].status = "completed" /\ loop.granted = {}
            /\ loop.batch = ops[ModelKey(run.epoch, n)].answer
        BY <1>1, <3>2 DEF IInv, Batch
      <4> QED
        BY <1>3, <4>1, <4>2 DEF IInv, AnswersFirst
    <3> QED
      BY <3>1, <3>2
  <2>2. p <= p
    BY <1>3, <1>7
  <2> QED
    BY <1>7, <2>1, <2>2 DEF Gated, NeedsApproval
<1>10. Boundary(n) \notin DOMAIN checkpoints
  BY <1>2, <1>7, <1>8, <1>9 DEF Bounded, Whole
<1>11. ASSUME NEW b \in DOMAIN checkpoints PROVE b \in Passed(run.epoch, n)
  <2>1. b \in Epochs \X Turns /\ b[1] <= run.epoch
    BY DEF IInv, TypeOK, Told, Fence
  <2>2. b[1] \in Nat /\ b[2] \in Turns /\ b[2] \in Nat /\ b = <<b[1], b[2]>>
    <3>1. \A e \in Epochs : e \in Nat
      BY Numbers
    <3>2. \A t \in Turns : t \in Nat
      BY Numbers
    <3>3. b[1] \in Epochs /\ b[2] \in Turns /\ b = <<b[1], b[2]>>
      BY <2>1
    <3> QED
      BY <3>1, <3>2, <3>3
  <2>3. CASE b[1] = run.epoch
    <3>1. Boundary(b[2]) \in DOMAIN checkpoints
      BY <2>2, <2>3 DEF Boundary
    <3>2. b[2] # n
      BY <1>10, <3>1
    <3>3. ~(n < b[2])
      BY <1>10, <2>2, <3>1 DEF Behind
    <3>4. b[2] < n
      BY <2>2, <3>2, <3>3
    <3> QED
      BY <2>3, <3>4 DEF Passed
  <2>4. CASE b[1] # run.epoch
    <3>1. b[1] < run.epoch
      BY <1>3, <2>1, <2>2, <2>4
    <3> QED
      BY <3>1 DEF Passed
  <2> QED
    BY <2>3, <2>4
<1>12. Heeded'
  <2>1. EveryIn(loop.heard, Passed(run.epoch, n), checkpoints)
    BY <1>1 DEF Heeding, Every
  <2>2. EveryIn(loop.heard, DOMAIN checkpoints, checkpoints)
    BY <1>11, <2>1 DEF EveryIn
  <2>3. EveryIn(loop.heard \o results, DOMAIN checkpoints, checkpoints)
    BY <1>3, <1>6, <2>2, EveryLonger
  <2>4. Every(saved.heard, DOMAIN checkpoints)'
    BY <1>1, <2>3 DEF Every, EveryIn
  <2> QED
    BY <1>2, <2>4 DEF Heeded
<1>13. Bounded' /\ Continued'
  BY <1>2 DEF Bounded, Continued
<1>14. TInv' /\ Kept' /\ Heeding'
  BY <1>1, ToldNext, KeptKept, NothingHeeded
<1> QED
  BY <1>12, <1>13, <1>14

\* A run completes with the requests of every boundary in its transcript: the last one was
\* behind a final answer and empty, so that no turn, and no boundary, follows it.
LEMMA FinishHeeded == ASSUME HInv, Behind, Finish PROVE HInv'
<1> USE DEF HInv, TInv, RInv
<1>1. /\ [Next]_vars /\ UNCHANGED <<ops, inbox, checkpoints, accepted>>
      /\ loop.phase = "finish" /\ ~loop.aborted
  BY DEF Finish, At, Next, Agent, world
<1>2. run.status = "running" /\ Alive
  BY <1>1 DEF IInv, LoopShape, Alive
<1>3. TInv' /\ Kept'
  BY <1>1, ToldNext, KeptKept
<1>4. CASE EndAttempt("failed", NoKey) /\ UNCHANGED saved
  <2>1. loop'.phase = "none" /\ run'.epoch = run.epoch /\ run'.status = "failed"
    BY <1>4 DEF EndAttempt, NoLoop, IInv, TypeOK
  <2>2. Heeded' /\ Bounded' /\ Continued'
    BY <1>1, <1>2, <1>4, <2>1, HeededKept
  <2> QED
    BY <1>3, <2>1, <2>2, NothingHeeded
<1>5. CASE EndAttempt("completed", NoKey) /\ saved' = [Fresh EXCEPT !.heard = loop.heard]
  <2>1. /\ loop'.phase = "none" /\ run'.epoch = run.epoch /\ run'.status = "completed"
        /\ saved'.heard = loop.heard
    BY <1>5 DEF EndAttempt, NoLoop, IInv, TypeOK, Fresh
  <2>2. ~Alive'
    BY <2>1 DEF Alive
  <2>3. /\ loop.turn \in Turns \ {0} /\ loop.turn \in Nat /\ run.epoch \in Nat
        /\ loop.boundary = loop.turn + 1
    <3>1. loop.turn > 0 /\ loop.boundary = loop.turn + 1
      BY <1>1 DEF IInv, LoopShape
    <3>2. loop.turn \in Turns /\ run.epoch \in Epochs
      BY Parts DEF IInv
    <3>3. loop.turn \in Nat /\ run.epoch \in Nat
      BY <3>2, Numbers
    <3> QED
      BY <3>1, <3>2, <3>3
  <2> SUFFICES ASSUME NEW n \in Nat, n \in Turns \ {0}, n = loop.turn, n + 1 = loop.boundary
               PROVE  HInv'
    BY <2>3
  <2>4. n + 1 \in Turns => Boundary(n + 1) \notin DOMAIN checkpoints
    <3> SUFFICES ASSUME n + 1 \in Turns, Boundary(n + 1) \in DOMAIN checkpoints PROVE FALSE
      OBVIOUS
    <3>1. n + 1 \in Turns \ {0}
      OBVIOUS
    <3>2. ops[Asked(n + 1)].status = "completed"
      BY <3>1 DEF Told, Fence
    <3>3. ~Final(n)
      BY <1>2, <3>2 DEF Continued
    <3> QED
      BY <1>1, <1>2, <3>3 DEF Heeding
  <2>5. ASSUME NEW b \in DOMAIN checkpoints PROVE b \in Passed(run.epoch, n + 1)
    <3>1. b \in Epochs \X Turns /\ b[1] <= run.epoch
      BY DEF IInv, TypeOK, Told, Fence
    <3>2. b[1] \in Nat /\ b[2] \in Turns /\ b[2] \in Nat /\ b = <<b[1], b[2]>>
      <4>1. \A e \in Epochs : e \in Nat
        BY Numbers
      <4>2. \A t \in Turns : t \in Nat
        BY Numbers
      <4>3. b[1] \in Epochs /\ b[2] \in Turns /\ b = <<b[1], b[2]>>
        BY <3>1
      <4> QED
        BY <4>1, <4>2, <4>3
    <3>3. CASE b[1] = run.epoch
      <4>1. Boundary(b[2]) \in DOMAIN checkpoints
        BY <3>2, <3>3 DEF Boundary
      <4>2. ASSUME n + 1 <= b[2] PROVE FALSE
        <5>1. n + 1 \in Turns
          <6>1. b[2] <= MaxModelTurns /\ MaxModelTurns \in Nat
            BY <3>2, Numbers
          <6>2. n + 1 <= MaxModelTurns
            BY <3>2, <4>2, <6>1
          <6> QED
            BY <6>2, Numbers
        <5>2. b[2] # n + 1
          BY <2>4, <4>1, <5>1
        <5>3. n + 1 < b[2]
          BY <3>2, <4>2, <5>2
        <5> QED
          BY <2>4, <3>2, <4>1, <5>1, <5>3 DEF Behind
      <4>3. b[2] < n + 1
        BY <3>2, <4>2
      <4> QED
        BY <3>3, <4>3 DEF Passed
    <3>4. CASE b[1] # run.epoch
      <4>1. b[1] < run.epoch
        BY <2>3, <3>1, <3>2, <3>4
      <4> QED
        BY <4>1 DEF Passed
    <3> QED
      BY <3>3, <3>4
  <2>6. EveryIn(loop.heard, Passed(run.epoch, n + 1), checkpoints)
    BY <1>1 DEF Heeding, Every
  <2>7. Every(saved.heard, DOMAIN checkpoints)'
    BY <1>1, <2>1, <2>5, <2>6 DEF Every, EveryIn
  <2>8. Heeded' /\ Bounded' /\ Continued'
    BY <2>2, <2>7 DEF Heeded, Bounded, Continued
  <2> QED
    BY <1>3, <2>1, <2>8, NothingHeeded
<1> QED
  BY <1>4, <1>5 DEF Finish

\* A decision, the operator, the host and a crash take nothing from what was heard.
LEMMA HostHeeded == ASSUME HInv, Host PROVE HInv'
<1> USE DEF HInv, TInv, RInv
<1>1. [Next]_vars /\ TInv'
  <2>1. [Next]_vars
    BY DEF Next
  <2> QED
    BY <2>1, ToldNext
<1>2. ASSUME NEW m \in Inputs, steer(m) PROVE HInv'
  <2>1. /\ UNCHANGED <<run, ops, saved, checkpoints, loop>> /\ accepted' = accepted \cup {m}
        /\ inbox'.pending = Append(inbox.pending, m) /\ inbox.pending \in Seq(Inputs)
    BY <1>2 DEF steer, IInv, TypeOK
  <2>2. \A x \in accepted : Known(x)'
    <3> TAKE x \in accepted
    <3>1. \A i \in DOMAIN inbox.pending :
             i \in DOMAIN inbox'.pending /\ inbox'.pending[i] = inbox.pending[i]
      BY <2>1
    <3> QED
      BY <2>1, <3>1 DEF Kept, Known
  <2>3. Known(m)'
    <3>1. Len(inbox.pending) + 1 \in DOMAIN inbox'.pending
          /\ inbox'.pending[Len(inbox.pending) + 1] = m
      BY <2>1
    <3> QED
      BY <3>1 DEF Known
  <2>4. Kept'
    BY <2>1, <2>2, <2>3 DEF Kept
  <2>5. Heeded' /\ Bounded' /\ Continued'
    BY <1>1, <2>1, HeededKept DEF Alive
  <2>6. Heeding'
    BY <1>1, <2>1, HeedingKept DEF Alive
  <2> QED
    BY <1>1, <2>4, <2>5, <2>6
<1>3. ASSUME NEW approved \in BOOLEAN, respond(approved) PROVE HInv'
  <2>1. /\ run.status = "waiting" /\ run'.status = "pending"
        /\ UNCHANGED <<ops, inbox, checkpoints, accepted>> /\ saved'.heard = saved.heard
    BY <1>3 DEF respond, IInv, TypeOK, Saved
  <2>2. /\ \A t : Boundary(t)' \notin DOMAIN checkpoints'
        /\ Passed(run.epoch, 0)' = DOMAIN checkpoints
        /\ run'.epoch \in Epochs /\ run.epoch < run'.epoch
        /\ loop'.phase = "none"
    BY <1>3, FirstBoundary
  <2>3. Heeded'
    <3>1. Every(saved.heard, DOMAIN checkpoints)
      BY <2>1 DEF Heeded
    <3>2. EveryIn(saved'.heard, Passed(run.epoch, 0)', checkpoints')
      BY <2>1, <2>2, <3>1 DEF Every, EveryIn
    <3> QED
      BY <2>1, <3>2 DEF Heeded, Every
  <2>4. Bounded'
    BY <2>2 DEF Bounded
  <2>5. Continued'
    <3> SUFFICES ASSUME NEW t \in Turns \ {0}, t + 1 \in Turns, ops'[Asked(t + 1)'].status # "none"
                 PROVE  FALSE
      BY DEF Continued
    <3>1. t + 1 \in Turns \ {0}
      BY Numbers
    <3>2. ops[ModelKey(run'.epoch, t + 1)].status = "none"
      <4>1. run'.epoch > run.epoch
        <5>1. run.epoch \in Nat /\ run'.epoch \in Nat
          BY <2>2, Parts, Numbers DEF IInv
        <5> QED
          BY <2>2, <5>1
      <4> QED
        BY <2>2, <3>1, <4>1 DEF IInv, Future
    <3> QED
      BY <2>1, <3>2 DEF Asked
  <2>6. Heeding' /\ Kept'
    BY <2>1, <2>2, NothingHeeded, KeptKept
  <2> QED
    BY <1>1, <2>3, <2>4, <2>5, <2>6
<1>4. CASE resolveTool \/ retry
  <2>0. ops \in [Keys -> Op] /\ ToolKeys \cap ModelKeys = {} /\ ModelKeys \subseteq Keys
    BY KeysTyped DEF IInv, TypeOK
  <2>1. /\ UNCHANGED <<inbox, checkpoints, saved, accepted>> /\ loop' = loop
        /\ run'.status = "pending" /\ run'.epoch = run.epoch
        /\ run.status \in {"failed", "needs_attention"}
    BY <1>4 DEF resolveTool, retry, world, IInv, TypeOK
  <2>2. loop'.phase = "none" /\ Alive
    BY <2>1 DEF Alive, IInv, LoopShape
  <2>3. \A k \in ModelKeys : ops'[k].status # "none" => ops[k].status # "none"
    <3> SUFFICES ASSUME NEW k \in ModelKeys PROVE ops'[k].status = ops[k].status
      OBVIOUS
    <3>1. ops[k] \in Op /\ k \in Keys
      BY <2>0
    <3>2. CASE resolveTool
      <4> DEFINE key == run.blocked
      <4>1. /\ key \in ToolKeys
            /\ ops' = [ops EXCEPT ![key].status = "completed", ![key].value = -1]
        BY <3>2 DEF resolveTool
      <4> HIDE DEF key
      <4> QED
        BY <2>0, <4>1
    <3>3. CASE retry
      <4>1. ops'[k] = ops[k] \/ ops'[k] = [ops[k] EXCEPT !.attempts = 0]
        BY <3>1, <3>3 DEF retry
      <4> QED
        BY <3>1, <4>1 DEF Op
    <3> QED
      BY <1>4, <3>2, <3>3
  <2>4. Heeded' /\ Bounded' /\ Continued'
    BY <1>1, <2>1, <2>2, <2>3, HeededKept
  <2> QED
    BY <1>1, <2>1, <2>2, <2>4, KeptKept, NothingHeeded
<1>5. CASE cancel \/ close \/ Crash \/ open
  <2>1. /\ UNCHANGED <<ops, inbox, checkpoints, saved, accepted>>
        /\ run'.epoch = run.epoch
        /\ run' = run \/ run'.status = "cancelled"
        /\ loop' = loop \/ loop' = NoLoop \/ loop' = [loop EXCEPT !.aborted = TRUE]
    BY <1>5 DEF cancel, close, Crash, open, journal, world, IInv, TypeOK
  <2>2. (Alive' => Alive) /\ (run'.status \in {"waiting", "completed"} => run'.status = run.status)
    BY <2>1 DEF Alive
  <2>3. \A k \in ModelKeys : ops'[k].status # "none" => ops[k].status # "none"
    BY <2>1
  <2>4. Heeded' /\ Bounded' /\ Continued' /\ Kept'
    BY <1>1, <2>1, <2>2, <2>3, HeededKept, KeptKept
  <2>5. Heeding'
    <3>1. CASE loop' = NoLoop
      BY <3>1, NothingHeeded DEF NoLoop
    <3>2. CASE loop' = loop \/ loop' = [loop EXCEPT !.aborted = TRUE]
      <4>1. /\ loop'.phase = loop.phase /\ loop'.turn = loop.turn
            /\ loop'.boundary = loop.boundary /\ loop'.heard = loop.heard
        BY <3>2 DEF IInv, TypeOK, Loop
      <4> QED
        BY <1>1, <2>1, <2>2, <4>1, HeedingKept
    <3> QED
      BY <2>1, <3>1, <3>2
  <2> QED
    BY <1>1, <2>4, <2>5
<1> QED
  BY <1>2, <1>3, <1>4, <1>5 DEF Host

\* A run that was just admitted has been asked nothing.
LEMMA HeardInit == Init => HInv /\ Behind
<1> SUFFICES ASSUME Init PROVE HInv /\ Behind
  OBVIOUS
<1>1. TInv
  BY ToldInit
<1>2. /\ accepted = {} /\ DOMAIN checkpoints = {} /\ run.status = "queued"
      /\ loop.phase = "none" /\ ops = [k \in Keys |-> NoOp] /\ run.epoch = 0
  BY DEF Init, NoLoop
<1>3. Kept /\ Heeded /\ Bounded /\ Heeding /\ Behind
  BY <1>2 DEF Kept, Heeded, Every, EveryIn, Passed, Bounded, Heeding, Behind
<1>4. Continued
  <2> SUFFICES ASSUME NEW t \in Turns \ {0}, t + 1 \in Turns PROVE ops[Asked(t + 1)].status = "none"
    BY DEF Continued
  <2>1. t + 1 \in Turns \ {0} /\ 0 \in Epochs
    BY Numbers
  <2>2. Asked(t + 1) \in Keys
    BY <1>2, <2>1, KeysTyped DEF Asked
  <2> QED
    BY <1>2, <2>2 DEF NoOp
<1> QED
  BY <1>1, <1>3, <1>4 DEF HInv

\* Every step keeps what was accepted.
LEMMA HeardNext == (HInv /\ Behind) /\ [Next]_vars => (HInv /\ Behind)'
<1> SUFFICES ASSUME HInv, Behind, [Next]_vars PROVE HInv' /\ Behind'
  OBVIOUS
<1>1. Behind'
  BY BehindNext DEF HInv
<1>2. CASE Agent
  <2>1. ASSUME NEW closing \in BOOLEAN, Drain(closing) PROVE HInv'
    BY <2>1, DrainHeeded
  <2>2. ASSUME BeginAttempt \/ ModelFails \/ PickCall \/ EndBatch \/ Abandon \/
               (\E a \in Answers : Answer(a)) \/
               \E c \in Calls : CarryOut(c) \/ Record(c) \/ RecordFails(c)
        PROVE  HInv'
    BY <2>2, WorkHeeded
  <2>3. ASSUME Start PROVE HInv'
    BY <2>3, StartHeeded
  <2>4. ASSUME StartModel PROVE HInv'
    BY <2>4, StartModelHeeded
  <2>5. ASSUME Suspend PROVE HInv'
    BY <2>5, SuspendHeeded
  <2>6. ASSUME Finish PROVE HInv'
    BY <2>6, FinishHeeded
  <2>7. HInv'
    BY <1>2, <2>1, <2>2, <2>3, <2>4, <2>5, <2>6 DEF Agent
  <2> QED
    BY <1>1, <2>7
<1>3. CASE Host
  BY <1>1, <1>3, HostHeeded
<1>4. CASE UNCHANGED vars
  <2>1. UNCHANGED <<run, ops, inbox, saved, checkpoints, loop, accepted>>
    BY <1>4 DEF vars
  <2>2. Heeded' /\ Bounded' /\ Continued'
    BY <2>1, HeededKept DEF Alive
  <2>3. Heeding' /\ Kept'
    BY <2>1, HeedingKept, KeptKept DEF Alive
  <2>4. TInv'
    BY ToldNext DEF HInv
  <2> QED
    BY <1>1, <2>2, <2>3, <2>4 DEF HInv
<1> QED
  BY <1>2, <1>3, <1>4 DEF Next

\* Every steering request whose caller was told "accepted" is in the transcript of a completed
\* run, whatever crashes, replays, retries and approvals lie between its acceptance and the
\* boundary that took it, and no transcript has a request twice.
THEOREM RequestsHeard == Spec => []SteeringHeard
<1>1. HInv => SteeringHeard
  <2> SUFFICES ASSUME HInv PROVE SteeringHeard
    OBVIOUS
  <2> USE DEF HInv, TInv
  <2>1. ASSUME run.status = "completed", NEW m \in accepted
        PROVE  \E i \in DOMAIN saved.heard : saved.heard[i] = Heard(m)
    <3>1. inbox.closed /\ inbox.pending = <<>>
      BY <2>1 DEF Told, Fence
    <3>2. PICK b \in DOMAIN checkpoints : m \in {checkpoints[b][i] : i \in DOMAIN checkpoints[b]}
      BY <3>1 DEF Kept, Known
    <3>3. Every(saved.heard, DOMAIN checkpoints)
      BY <2>1 DEF Heeded
    <3> QED
      BY <3>2, <3>3 DEF Every, EveryIn
  <2>2. ASSUME NEW heard \in {saved.heard, loop.heard},
               NEW i \in DOMAIN heard, NEW j \in DOMAIN heard,
               heard[i] = heard[j], heard[i][1] = "steer"
        PROVE  i = j
    <3>1. CASE heard = saved.heard
      BY <2>2, <3>1 DEF Told, Counted, Once, OnceIn
    <3>2. CASE heard = loop.heard
      BY <2>2, <3>2 DEF Speaking, Once, OnceIn
    <3> QED
      BY <3>1, <3>2
  <2> QED
    BY <2>1, <2>2 DEF SteeringHeard
<1> QED
  BY <1>1, HeardInit, HeardNext, PTL DEF Spec

=============================================================================
