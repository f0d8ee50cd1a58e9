------------------------------ MODULE RunMemory ------------------------------
(* What a run of the agent loop saves in its memory: the save policies of   *)
(* core/src/internal/agent-runtime/memory.ts, called from the loop of       *)
(* agent-run.ts.  A writer collects the calls of append() of one segment of *)
(* a run, from its prompt to its outcome.                                   *)
EXTENDS Naturals, Sequences, SequencesExt

\* new: the messages of the segment; pending: those that wait for the end of the turn;
\* captured: the calls of append().
NewWriter(author, policy) ==
  [author |-> author, policy |-> policy, new |-> <<>>,
   pending |-> <<>>, captured |-> <<>>]

\* The next n messages of the segment.
Fresh(w, epoch, n) == [i \in 1..n |-> <<w.author, epoch, Len(w.new) + i>>]
Push(w, messages) == [w EXCEPT !.new = @ \o messages]
Capture(w, messages) == [w EXCEPT !.captured = Append(@, messages)]

commitAcceptedInput(w) == IF w.policy = "message" THEN Capture(w, w.new) ELSE w

pendingTurnMessages(w) == IF w.policy = "turn" THEN [w EXCEPT !.pending = w.new] ELSE w

commitMessages(w, messages) ==
  CASE messages = <<>>       -> w
    [] w.policy = "message"  -> Capture(w, messages)
    [] w.policy = "turn"     -> [w EXCEPT !.pending = @ \o messages]
    [] w.policy = "run"      -> w

commitCompletedTurn(w) ==
  IF w.policy = "turn" /\ w.pending # <<>>
    THEN [Capture(w, w.pending) EXCEPT !.pending = <<>>]
    ELSE w

commitCompletedRun(w) ==
  IF w.policy = "run" THEN Capture(w, w.new) ELSE commitCompletedTurn(w)

-----------------------------------------------------------------------------
(* The steps of the loop.                                                   *)

PushAndCommit(w, messages) == commitMessages(Push(w, messages), messages)

Prompt(w, epoch) ==
  pendingTurnMessages(commitAcceptedInput(Push(w, Fresh(w, epoch, 1))))

\* A resumed segment first saves the results of the tools it was waiting for.
ResumedTools(w, epoch) == commitCompletedTurn(PushAndCommit(w, Fresh(w, epoch, 1)))

\* An answer with tool calls, and their results.
ToolTurn(w, epoch) == commitCompletedTurn(PushAndCommit(w, Fresh(w, epoch, 2)))

\* An answer without tool calls, when steering messages have arrived.  The answer is saved if
\* the in-process queue holds some; the ones of a durable run come from its journal, when the
\* queue is empty.
SteeredTurn(w, epoch, queued) ==
  LET answer == Fresh(w, epoch, 1)
      answered == Push(w, answer)
      saved == IF queued THEN commitMessages(answered, answer) ELSE answered
  IN  commitCompletedTurn(PushAndCommit(saved, Fresh(saved, epoch, 1)))

Turn(w, epoch, kind) ==
  CASE kind = "tools"   -> ToolTurn(w, epoch)
    [] kind = "steered" -> SteeredTurn(w, epoch, FALSE)
    [] kind = "queued"  -> SteeredTurn(w, epoch, TRUE)

\* The final answer, or the answer whose tool calls wait for a person.
LastTurn(w, epoch) == commitCompletedRun(PushAndCommit(w, Fresh(w, epoch, 1)))

\* A segment: a fresh one of the first epoch, or a resumed one.
Segment(author, policy, epoch, turns) ==
  LET prompted == Prompt(NewWriter(author, policy), epoch)
      begun == IF epoch = 1 THEN prompted ELSE ResumedTools(prompted, epoch)
      after[n \in 0..Len(turns)] == IF n = 0 THEN begun ELSE Turn(after[n - 1], epoch, turns[n])
  IN  LastTurn(after[Len(turns)], epoch)

\* A prompt that a guardrail blocks ends the run before anything is saved.
BlockedSegment(author, policy) ==
  LET w == NewWriter(author, policy) IN Push(w, Fresh(w, 1, 1))

=============================================================================
