-------------------------- MODULE ResumableChat_proofs --------------------------
(* AnswerHeard for every number of runs, of events and of faults, and for   *)
(* every choice of stream ids.  What a stream, a queue or a frame holds is  *)
(* numbered from 1 whoever produced it; where no other run was given the id *)
(* of the stream (own below) it is also what the run of the request made.   *)
EXTENDS ResumableChat, SequenceTheorems, TLAPS

Pieces == [run : Runs, n : Nat]
Records == [id : Nat, event : Pieces]
Kept == [status : {"missing", "running", "completed", "error"}, records : Seq(Pieces)]
RunPhases == {"none", "sent", "draining", "rejected", "completed", "error", "lost"}
Drains == [phase : RunPhases, stream : {0} \cup Streams, made : Nat]
Frames ==
  [type : {"stream_start"}, stream : Streams]
    \cup [type : {"stream_event"}, id : Nat, event : Pieces]
    \cup [type : {"stream_end"}, id : Nat, status : {"missing", "completed", "error"}]

Connections ==
  [run : {0} \cup Runs, stream : {0} \cup Streams, after : Nat,
   phase : {"requested", "subscribing", "reading", "rejected", "over"},
   frames : Seq(Frames), queue : Seq(Records), closed : BOOLEAN, eventId : Nat,
   started : BOOLEAN, lastEventId : Nat]

Chats ==
  [status : {"ready", "submitted", "streaming", "error"}, request : {0} \cup Runs,
   lastEventId : Nat, applied : Seq(Nat), latest : Seq(Nat), queued : BOOLEAN,
   rendered : Seq(Nat), effect : BOOLEAN]

ResumeStates == [stream : Streams, request : Runs, lastEventId : Nat, applied : Seq(Nat)]
Hearings == [request : {0} \cup Runs, events : Seq(Pieces), whole : BOOLEAN]

Typed ==
  /\ streams \in [Streams -> Kept]
  /\ runs \in [Runs -> Drains]
  /\ conn # None => conn \in Connections
  /\ chat \in Chats
  /\ saved # None => saved \in ResumeStates
  /\ heard \in Hearings

\* A stream is numbered from 1, and exactly one run drains into it while it is running.
StreamsHold ==
  /\ \A s \in Streams : \A i \in 1..Len(streams[s].records) : streams[s].records[i].n = i
  /\ \A s \in Streams : streams[s].status = "missing" => streams[s].records = <<>>
  /\ \A s \in Streams : streams[s].status = "running" =>
       \E r \in Runs : runs[r].phase = "draining" /\ runs[r].stream = s
  /\ \A q, r \in Runs :
       runs[q].phase = "draining" /\ runs[r].phase = "draining" /\ runs[q].stream = runs[r].stream
         => q = r

\* A stream that no other run was given holds what the drain of its run has appended, unless it
\* is missing.
Holds(stream, run, r) ==
  /\ stream.status # "missing" => Len(stream.records) = run.made
  /\ \A i \in 1..Len(stream.records) : stream.records[i].run = r
  /\ stream.status = "running" => run.phase = "draining"
  /\ stream.status = "completed" => run.phase = "completed"

RunHolds(r) ==
  /\ runs[r].phase \in {"none", "sent"} => runs[r].stream = 0 /\ runs[r].made = 0
  /\ runs[r].phase \notin {"none", "sent"} => runs[r].stream \in Streams
  /\ runs[r].phase = "draining" =>
       /\ streams[runs[r].stream].status = "running"
       /\ Len(streams[runs[r].stream].records) = runs[r].made
  /\ Alone(r) /\ runs[r].stream # 0 => Holds(streams[runs[r].stream], runs[r], r)

RunsHold == \A r \in Runs : RunHolds(r)

\* What is under way to the chat is numbered, and was produced by the run of its request.
RecordOf(record, r, run, own) ==
  /\ record.event.n = record.id
  /\ own => record.event.run = r /\ record.id <= run.made

FrameOf(frame, r, run, own) ==
  /\ frame.type = "stream_event" => RecordOf(frame, r, run, own)
  /\ own /\ frame.type = "stream_end" /\ frame.status = "completed" =>
       run.phase = "completed" /\ frame.id = run.made

Serves(c, r, run, own) ==
  /\ c.stream = run.stream
  /\ c.run # 0 => c.run = r /\ (c.phase = "requested" => run.phase = "sent")
  /\ c.run # 0 /\ c.phase = "requested" => c.frames = <<>>
  /\ c.run = 0 \/ c.phase # "requested" => c.stream # 0
  /\ own => c.eventId <= run.made
  /\ \A i \in 1..Len(c.queue) : RecordOf(c.queue[i], r, run, own)
  /\ \A i \in 1..Len(c.frames) : FrameOf(c.frames[i], r, run, own)

Heard == Len(heard.events)

ConnServes ==
  conn # None =>
    /\ heard.request \in Runs /\ chat.request = heard.request
    /\ Serves(conn, heard.request, runs[heard.request], Alone(heard.request))
    /\ conn.lastEventId = Heard /\ chat.lastEventId = Heard

\* Messages are made of events that were heard, in their order.
Sorted(messages, last) ==
  InOrder(messages) /\ \A i \in DOMAIN messages : messages[i] <= last

SavedHolds ==
  saved # None =>
    /\ saved.request = heard.request
    /\ saved.stream = runs[heard.request].stream
    /\ saved.lastEventId = Heard
    /\ Sorted(saved.applied, Heard)

HeardHolds ==
  /\ \A i \in 1..Heard : heard.events[i].n = i
  /\ heard.whole => conn = None /\ saved = None
  /\ heard.request # 0 /\ Alone(heard.request) =>
       /\ \A i \in 1..Heard : heard.events[i].run = heard.request
       /\ Heard <= runs[heard.request].made
       /\ heard.whole => /\ runs[heard.request].phase = "completed"
                         /\ Heard = runs[heard.request].made

Shown ==
  /\ Sorted(chat.applied, Heard) /\ Sorted(chat.latest, Heard) /\ Sorted(chat.rendered, Heard)

IInv ==
  /\ Typed /\ StreamsHold /\ RunsHold
  /\ ConnServes /\ SavedHolds /\ HeardHolds /\ Shown

-----------------------------------------------------------------------------
(* What the steps have in common.                                           *)

\* Streams are named by runs, and 0 is none of them.
LEMMA RunsPositive == 0 \notin Runs /\ Streams = Runs /\ Runs \subseteq Nat
BY ResumableChatAssumption DEF Runs, Streams

\* No messages are in order.
LEMMA SortedNone == ASSUME NEW last PROVE Sorted(<<>>, last) /\ <<>> \in Seq(Nat)
BY DEF Sorted, InOrder

\* The initial state satisfies the invariant.
LEMMA InitInv == Init => IInv
<1> SUFFICES ASSUME Init PROVE IInv OBVIOUS
<1> USE DEF Init
<1>1. Typed
  <2>1. streams \in [Streams -> Kept]
    BY DEF missing, Kept
  <2>2. runs \in [Runs -> Drains]
    BY DEF RunPhases, Drains
  <2>3. chat \in Chats
    BY DEF Idle, Chats
  <2>4. heard \in Hearings
    BY DEF Hearing, Hearings
  <2>5. QED BY <2>1, <2>2, <2>3, <2>4 DEF Typed
<1>2. StreamsHold BY DEF StreamsHold, missing
<1>3. RunsHold BY DEF RunsHold, RunHolds
<1>4. Shown
  <2>1. chat.applied = <<>> /\ chat.latest = <<>> /\ chat.rendered = <<>> BY DEF Idle
  <2>2. QED BY <2>1, SortedNone DEF Shown
<1>5. HeardHolds BY DEF HeardHolds, Heard, Hearing
<1>6. QED BY <1>1, <1>2, <1>3, <1>4, <1>5 DEF IInv, ConnServes, SavedHolds

\* A run that is the only one with its id was so before: ids are given, and never taken back.
LEMMA AloneBefore ==
  ASSUME NEW r \in Runs,
         \A q \in Runs : runs'[q].stream = runs[q].stream \/ runs[q].stream = 0,
         Alone(r)'
  PROVE  Alone(r)
BY DEF Alone

\* What is known of a response is kept while its run goes on.
LEMMA ServesLater ==
  ASSUME NEW c, NEW r, NEW run, NEW later, NEW own, NEW still,
         Serves(c, r, run, own), c \in Connections, run.made \in Nat, later.made \in Nat,
         still => own,
         later.stream = run.stream,
         run.made <= later.made,
         run.phase = "completed" => later = run,
         c.run # 0 /\ run.phase = "sent" => later.phase = "sent"
  PROVE  Serves(c, r, later, still)
<1>1. c.eventId \in Nat BY DEF Connections
<1>2. ASSUME NEW record, record.id \in Nat, RecordOf(record, r, run, own)
      PROVE  RecordOf(record, r, later, still)
  BY <1>2 DEF RecordOf
<1>3. ASSUME NEW i \in 1..Len(c.queue) PROVE RecordOf(c.queue[i], r, later, still)
  <2>1. c.queue \in Seq(Records) BY DEF Connections
  <2>2. c.queue[i] \in Records BY <2>1
  <2>3. c.queue[i].id \in Nat BY <2>2 DEF Records
  <2>4. RecordOf(c.queue[i], r, run, own) BY DEF Serves
  <2>5. QED BY <2>3, <2>4, <1>2
<1>4. \A i \in 1..Len(c.frames) : FrameOf(c.frames[i], r, later, still)
  <2> TAKE i \in 1..Len(c.frames)
  <2>1. FrameOf(c.frames[i], r, run, own) BY DEF Serves
  <2>2. c.frames[i] \in Frames BY DEF Connections
  <2>3. CASE c.frames[i].type = "stream_event"
    <3>1. c.frames[i].id \in Nat BY <2>2, <2>3 DEF Frames
    <3>2. RecordOf(c.frames[i], r, later, still) BY <2>1, <2>3, <3>1, <1>2 DEF FrameOf
    <3>3. QED BY <2>3, <3>2 DEF FrameOf
  <2>4. CASE c.frames[i].type # "stream_event"
    BY <2>1, <2>4 DEF FrameOf
  <2>5. QED BY <2>3, <2>4
<1>5. QED BY <1>1, <1>3, <1>4 DEF Serves

-----------------------------------------------------------------------------
(* The drains.                                                              *)

\* How a run goes on.
Advances(r) ==
  /\ runs' \in [Runs -> Drains]
  /\ \A q \in Runs \ {r} : runs'[q] = runs[q]
  /\ runs[r].made <= runs'[r].made
  /\ runs[r].phase # "completed"
  /\ runs'[r].stream = runs[r].stream \/ runs[r].stream = 0

\* Ids are given and never taken back, and nothing that was made is lost.
LEMMA AdvancesOnly ==
  ASSUME Typed, NEW r \in Runs, Advances(r)
  PROVE  /\ \A q \in Runs : runs'[q].stream = runs[q].stream \/ runs[q].stream = 0
         /\ \A q \in Runs : runs[q].made \in Nat /\ runs'[q].made \in Nat
                            /\ runs[q].made <= runs'[q].made
         /\ \A q \in Runs : runs[q].phase = "completed" => runs'[q] = runs[q]
         /\ \A q \in Runs : Alone(q)' => Alone(q)
<1>1. \A q \in Runs : runs'[q].stream = runs[q].stream \/ runs[q].stream = 0
  BY DEF Advances
<1>2. \A q \in Runs : runs[q] \in Drains /\ runs'[q] \in Drains
  BY DEF Typed, Advances
<1>3. \A q \in Runs : runs[q].made \in Nat /\ runs'[q].made \in Nat
                      /\ runs[q].made <= runs'[q].made
  BY <1>2 DEF Advances, Drains
<1>4. ASSUME NEW q \in Runs, Alone(q)' PROVE Alone(q)
  BY <1>1, <1>4, AloneBefore
<1>5. QED BY <1>1, <1>3, <1>4 DEF Advances

\* What was heard, shown and saved stays true while a run goes on.
LEMMA HeardLater ==
  ASSUME IInv, NEW r \in Runs, Advances(r), UNCHANGED <<chat, saved, heard>>,
         conn' = None <=> conn = None,
         saved # None /\ heard.request = r => runs'[r].stream = runs[r].stream
  PROVE  SavedHolds' /\ HeardHolds' /\ Shown'
<1> DEFINE h == heard.request
<1>1. h \in {0} \cup Runs /\ Heard \in Nat BY DEF IInv, Typed, Hearings, Heard
<1>2. Heard' = Heard BY DEF Heard
<1>3. /\ \A q \in Runs : runs[q].made \in Nat /\ runs'[q].made \in Nat
                         /\ runs[q].made <= runs'[q].made
      /\ \A q \in Runs : runs[q].phase = "completed" => runs'[q] = runs[q]
      /\ \A q \in Runs : Alone(q)' => Alone(q)
  BY AdvancesOnly DEF IInv
<1>4. SavedHolds'
  <2>1. ASSUME saved # None PROVE runs'[h].stream = runs[h].stream
    <3>1. h \in Runs BY <2>1 DEF IInv, SavedHolds, Typed, ResumeStates
    <3>2. QED BY <2>1, <3>1 DEF Advances
  <2>2. QED BY <1>2, <2>1 DEF IInv, SavedHolds
<1>5. HeardHolds'
  <2>1. ASSUME h # 0, Alone(h)'
        PROVE  /\ \A i \in 1..Heard : heard.events[i].run = h
               /\ Heard <= runs'[h].made
               /\ heard.whole => runs'[h].phase = "completed" /\ Heard = runs'[h].made
    <3>1. h \in Runs BY <1>1, <2>1
    <3>2. Alone(h) BY <1>3, <2>1, <3>1
    <3>3. /\ \A i \in 1..Heard : heard.events[i].run = h
          /\ Heard <= runs[h].made
          /\ heard.whole => runs[h].phase = "completed" /\ Heard = runs[h].made
      BY <2>1, <3>2 DEF IInv, HeardHolds
    <3>4. QED BY <1>1, <1>3, <3>1, <3>3
  <2>2. Alone(heard.request)' <=> Alone(h)' BY DEF Alone
  <2>3. QED BY <1>2, <2>1, <2>2 DEF IInv, HeardHolds
<1>6. Shown' BY <1>2 DEF IInv, Shown
<1>7. QED BY <1>4, <1>5, <1>6

\* What is under way stays true while a run goes on.
LEMMA ConnLater ==
  ASSUME IInv, NEW r \in Runs, Advances(r), UNCHANGED <<chat, heard>>, conn # None,
         heard.request = r => runs'[r].stream = runs[r].stream,
         conn.run = r => runs[r].phase # "sent"
  PROVE  /\ heard.request \in Runs /\ chat.request = heard.request
         /\ Serves(conn, heard.request, runs'[heard.request], Alone(heard.request)')
         /\ conn.lastEventId = Heard /\ chat.lastEventId = Heard
<1> DEFINE h == heard.request
<1>1. h \in Runs /\ chat.request = h /\ Serves(conn, h, runs[h], Alone(h))
      /\ conn.lastEventId = Heard /\ chat.lastEventId = Heard
  BY DEF IInv, ConnServes
<1>2. conn \in Connections BY DEF IInv, Typed
<1>3. /\ runs[h].made \in Nat /\ runs'[h].made \in Nat /\ runs[h].made <= runs'[h].made
      /\ runs[h].phase = "completed" => runs'[h] = runs[h]
      /\ Alone(h)' => Alone(h)
  BY <1>1, AdvancesOnly DEF IInv
<1>4. runs'[h].stream = runs[h].stream BY <1>1 DEF Advances
<1>5. conn.run # 0 => conn.run = h BY <1>1 DEF Serves
<1>6. conn.run # 0 /\ runs[h].phase = "sent" => runs'[h].phase = "sent"
  BY <1>1, <1>5 DEF Advances
<1>7. Alone(heard.request)' <=> Alone(h)' BY DEF Alone
<1> DEFINE still == Alone(h)'
           later == runs'[h]
<1>8. still => Alone(h) BY <1>3
<1> HIDE DEF still, later
<1>9. Serves(conn, h, later, still)
  BY <1>1, <1>2, <1>3, <1>4, <1>6, <1>8, ServesLater DEF later
<1>10. QED BY <1>1, <1>7, <1>9 DEF still, later

\* A step of one run and its stream leaves the others as they are.
LEMMA OthersHold ==
  ASSUME IInv, NEW r \in Runs, Advances(r), NEW t \in Streams, runs'[r].stream = t,
         streams' \in [Streams -> Kept],
         \A s \in Streams \ {t} : streams'[s] = streams[s],
         \A q \in Runs \ {r} : runs[q].phase = "draining" => runs[q].stream # t,
         streams'[t].status # "missing",
         \A i \in 1..Len(streams'[t].records) : streams'[t].records[i].n = i,
         streams'[t].status = "running" => runs'[r].phase = "draining",
         RunHolds(r)'
  PROVE  StreamsHold' /\ RunsHold'
<1>0. 0 \notin Streams BY RunsPositive
<1>1. \A q \in Runs : Alone(q)' => Alone(q) BY AdvancesOnly DEF IInv
<1>2. ASSUME NEW q \in Runs \ {r} PROVE RunHolds(q)'
  <2>1. runs'[q] = runs[q] /\ RunHolds(q) BY DEF Advances, IInv, RunsHold
  <2>2. ASSUME runs[q].phase = "draining"
        PROVE  streams'[runs[q].stream] = streams[runs[q].stream]
    BY <2>1, <2>2 DEF RunHolds
  <2>3. ASSUME Alone(q)', runs[q].stream # 0
        PROVE  Holds(streams'[runs[q].stream], runs[q], q)
    <3>1. runs[q].stream # t BY <1>0, <2>1, <2>3 DEF Alone
    <3>2. runs[q].stream \in Streams BY <2>3 DEF IInv, Typed, Drains
    <3>3. streams'[runs[q].stream] = streams[runs[q].stream] BY <3>1, <3>2
    <3>4. QED BY <1>1, <2>1, <2>3, <3>3 DEF RunHolds
  <2>4. QED BY <2>1, <2>2, <2>3 DEF RunHolds
<1>3. RunsHold' BY <1>2 DEF RunsHold
<1>4. ASSUME NEW s \in Streams, streams'[s].status = "running"
      PROVE  \E q \in Runs : runs'[q].phase = "draining" /\ runs'[q].stream = s
  <2>1. CASE s = t BY <1>4, <2>1
  <2>2. CASE s # t
    <3>1. PICK q \in Runs : runs[q].phase = "draining" /\ runs[q].stream = s
      BY <1>4, <2>2 DEF IInv, StreamsHold
    <3>2. q # r BY <1>0, <2>2, <3>1 DEF Advances
    <3>3. runs'[q] = runs[q] BY <3>2 DEF Advances
    <3>4. QED BY <3>1, <3>3
  <2>3. QED BY <2>1, <2>2
<1>5. ASSUME NEW q \in Runs, NEW p \in Runs, runs'[q].phase = "draining",
             runs'[p].phase = "draining", runs'[q].stream = runs'[p].stream
      PROVE  q = p
  <2>1. CASE q # r /\ p # r
    <3>1. runs'[q] = runs[q] /\ runs'[p] = runs[p] BY <2>1 DEF Advances
    <3>2. QED BY <1>5, <3>1 DEF IInv, StreamsHold
  <2>2. CASE q = r /\ p # r
    <3>1. runs'[p] = runs[p] BY <2>2 DEF Advances
    <3>2. QED BY <1>5, <2>2, <3>1
  <2>3. CASE q # r /\ p = r
    <3>1. runs'[q] = runs[q] BY <2>3 DEF Advances
    <3>2. QED BY <1>5, <2>3, <3>1
  <2>4. QED BY <2>1, <2>2, <2>3
<1>6. \A s \in Streams : \A i \in 1..Len(streams'[s].records) : streams'[s].records[i].n = i
  BY DEF IInv, StreamsHold
<1>7. \A s \in Streams : streams'[s].status = "missing" => streams'[s].records = <<>>
  BY DEF IInv, StreamsHold
<1>8. QED BY <1>3, <1>4, <1>5, <1>6, <1>7 DEF StreamsHold

\* A record that is appended tells of its run and its number.
LEMMA AppendHolds ==
  ASSUME NEW r \in Runs, NEW stream \in Kept, NEW made \in Nat,
         Len(stream.records) = made,
         \A i \in 1..Len(stream.records) : stream.records[i].n = i
  PROVE  LET later == append(stream, [run |-> r, n |-> made + 1]) IN
         /\ later \in Kept
         /\ later.status = stream.status
         /\ Len(later.records) = made + 1
         /\ Last(later.records) = [run |-> r, n |-> made + 1]
         /\ \A i \in 1..Len(later.records) : later.records[i].n = i
         /\ (\A i \in 1..Len(stream.records) : stream.records[i].run = r)
              => \A i \in 1..Len(later.records) : later.records[i].run = r
<1> DEFINE piece == [run |-> r, n |-> made + 1]
           later == append(stream, piece)
<1>1. piece \in Pieces BY DEF Pieces
<1>2. stream.records \in Seq(Pieces) BY DEF Kept
<1>4. later = [stream EXCEPT !.records = Append(stream.records, piece)]
  BY DEF append
<1>5. /\ Append(stream.records, piece) \in Seq(Pieces)
      /\ Len(Append(stream.records, piece)) = made + 1
      /\ \A i \in 1..Len(stream.records) : Append(stream.records, piece)[i] = stream.records[i]
      /\ Append(stream.records, piece)[made + 1] = piece
  <2>1. SUFFICES ASSUME NEW s \in Seq(Pieces), NEW e \in Pieces, Len(s) = made
                 PROVE  /\ Append(s, e) \in Seq(Pieces)
                        /\ Len(Append(s, e)) = made + 1
                        /\ \A i \in 1..Len(s) : Append(s, e)[i] = s[i]
                        /\ Append(s, e)[made + 1] = e
    BY <1>1, <1>2
  <2>2. /\ Append(s, e) \in Seq(Pieces) /\ Len(Append(s, e)) = Len(s) + 1
        /\ \A i \in 1..Len(s) : Append(s, e)[i] = s[i]
        /\ Append(s, e)[Len(s) + 1] = e
    BY AppendProperties
  <2>3. QED BY <2>1, <2>2
<1>6. later.records = Append(stream.records, piece) /\ later.status = stream.status
  BY <1>4 DEF Kept
<1>7. later \in Kept BY <1>4, <1>5 DEF Kept
<1>8. Last(later.records) = piece BY <1>5, <1>6 DEF Last
<1> HIDE DEF later
<1>9. ASSUME NEW i \in 1..Len(later.records)
      PROVE  /\ later.records[i].n = i
             /\ later.records[i].run = r
                  \/ (i \in 1..Len(stream.records) /\ later.records[i] = stream.records[i])
  <2>1. CASE i = made + 1 BY <2>1, <1>5, <1>6
  <2>2. CASE i # made + 1
    <3>1. i \in 1..Len(stream.records) BY <2>2, <1>5, <1>6, <1>9
    <3>2. QED BY <3>1, <1>5, <1>6
  <2>3. QED BY <2>1, <2>2
<1>10. /\ Len(later.records) = made + 1
       /\ later.status = stream.status
       /\ \A i \in 1..Len(later.records) : later.records[i].n = i
       /\ (\A i \in 1..Len(stream.records) : stream.records[i].run = r)
            => \A i \in 1..Len(later.records) : later.records[i].run = r
  BY <1>5, <1>6, <1>9
<1>11. QED BY <1>7, <1>8, <1>10 DEF later

\* What a subscriber is told of a record that was appended.
LEMMA EnqueuedOf ==
  ASSUME NEW stream, NEW after, NEW n \in Nat, NEW piece \in Pieces,
         Len(stream.records) = n, Last(stream.records) = piece
  PROVE  /\ Enqueued(stream, after) \in Seq(Records)
         /\ \A i \in 1..Len(Enqueued(stream, after)) :
               Enqueued(stream, after)[i] = [id |-> n, event |-> piece]
<1> DEFINE record == [id |-> n, event |-> piece]
           queued == Enqueued(stream, after)
<1>1. record \in Records BY DEF Records
<1>2. queued = <<record>> \/ queued = <<>> BY DEF Enqueued, lastEventId
<1>3. \A x \in Records : <<x>> \in Seq(Records) /\ Len(<<x>>) = 1 /\ <<x>>[1] = x OBVIOUS
<1> HIDE DEF queued, record
<1>4. CASE queued = <<>> BY <1>4 DEF queued
<1>5. CASE queued = <<record>> BY <1>1, <1>3, <1>5 DEF queued, record
<1>6. QED BY <1>2, <1>4, <1>5

\* Drain(r): what it enqueues is what it has appended.
LEMMA DrainInv == ASSUME IInv, NEW r \in Runs, Drain(r) PROVE IInv'
<1> DEFINE s == runs[r].stream
           n == runs[r].made + 1
           stream == append(streams[s], [run |-> r, n |-> n])
           queued == Enqueued(stream, conn.after)
           h == heard.request
<1>1. /\ runs[r].phase = "draining"
      /\ runs' = [runs EXCEPT ![r].made = n]
      /\ streams' = [streams EXCEPT ![s] = stream]
      /\ conn' = IF Subscribed(s) THEN [conn EXCEPT !.queue = conn.queue \o queued] ELSE conn
      /\ UNCHANGED <<chat, saved, heard>>
  BY DEF Drain, Draining
<1>2. /\ runs[r] \in Drains /\ runs[r].made \in Nat /\ n \in Nat /\ s \in Streams /\ s # 0
      /\ streams[s] \in Kept /\ streams[s].status = "running"
      /\ Len(streams[s].records) = runs[r].made
      /\ \A i \in 1..Len(streams[s].records) : streams[s].records[i].n = i
      /\ Alone(r) => \A i \in 1..Len(streams[s].records) : streams[s].records[i].run = r
  <2>1. runs[r] \in Drains BY DEF IInv, Typed
  <2>2. RunHolds(r) BY DEF IInv, RunsHold
  <2>3. s \in Streams /\ s # 0 BY <1>1, <2>2, RunsPositive DEF RunHolds
  <2>4. streams[s] \in Kept BY <2>3 DEF IInv, Typed
  <2>5. streams[s].status = "running" /\ Len(streams[s].records) = runs[r].made
    BY <1>1, <2>2 DEF RunHolds
  <2>6. Alone(r) => Holds(streams[s], runs[r], r) BY <2>2, <2>3 DEF RunHolds
  <2>7. \A i \in 1..Len(streams[s].records) : streams[s].records[i].n = i
    BY <2>3 DEF IInv, StreamsHold
  <2>8. runs[r].made \in Nat BY <2>1 DEF Drains
  <2>9. QED BY <2>1, <2>3, <2>4, <2>5, <2>6, <2>7, <2>8 DEF Holds
<1>3. /\ stream \in Kept
      /\ stream.status = "running"
      /\ Len(stream.records) = n
      /\ Last(stream.records) = [run |-> r, n |-> n]
      /\ \A i \in 1..Len(stream.records) : stream.records[i].n = i
      /\ Alone(r) => \A i \in 1..Len(stream.records) : stream.records[i].run = r
  BY <1>2, AppendHolds
<1>4. /\ queued \in Seq(Records)
      /\ \A i \in 1..Len(queued) : queued[i] = [id |-> n, event |-> [run |-> r, n |-> n]]
  <2>1. [run |-> r, n |-> n] \in Pieces BY <1>2 DEF Pieces
  <2> HIDE DEF stream
  <2>2. QED BY <1>2, <1>3, <2>1, EnqueuedOf
<1> HIDE DEF stream, queued
<1>5. /\ runs'[r].made = n /\ runs'[r].phase = "draining" /\ runs'[r].stream = s
      /\ Advances(r)
  BY <1>1, <1>2 DEF IInv, Typed, Advances, Drains
<1>6. streams' \in [Streams -> Kept] /\ streams'[s] = stream
      /\ \A t \in Streams \ {s} : streams'[t] = streams[t]
  BY <1>1, <1>2, <1>3 DEF IInv, Typed
<1>7. StreamsHold' /\ RunsHold'
  <2>1. \A q \in Runs \ {r} : runs[q].phase = "draining" => runs[q].stream # s
    BY <1>1 DEF IInv, StreamsHold
  <2>2. Alone(r)' => Alone(r) BY <1>5, AdvancesOnly DEF IInv
  <2>3. Alone(r)' => Holds(stream, runs'[r], r) BY <1>3, <1>5, <2>2 DEF Holds
  <2>4. RunHolds(r)' BY <1>2, <1>3, <1>5, <1>6, <2>3 DEF RunHolds
  <2> DEFINE t == runs[r].stream
  <2>5. t \in Streams /\ runs'[r].stream = t BY <1>2, <1>5
  <2> HIDE DEF t
  <2>6. s = t BY DEF t
  <2>7. QED BY <1>3, <1>5, <1>6, <2>1, <2>4, <2>5, <2>6, OthersHold
<1>8. conn' = None <=> conn = None
  <2>1. ASSUME conn # None PROVE conn' # None
    <3>1. conn \in Connections BY <2>1 DEF IInv, Typed
    <3>2. \A q : [conn EXCEPT !.queue = q] # None BY <3>1 DEF None, Connections
    <3>3. QED BY <1>1, <2>1, <3>2
  <2>2. QED BY <1>1, <2>1 DEF Subscribed, Connected
<1>9. SavedHolds' /\ HeardHolds' /\ Shown'
  BY <1>1, <1>5, <1>8, HeardLater
<1>10. ASSUME conn # None
       PROVE  /\ heard.request \in Runs /\ chat.request = heard.request
              /\ Serves(conn, heard.request, runs'[heard.request], Alone(heard.request)')
              /\ conn.lastEventId = Heard /\ chat.lastEventId = Heard
  BY <1>1, <1>5, <1>10, ConnLater
<1>11. CASE Subscribed(s)
  <2>1. conn # None /\ conn \in Connections /\ conn.stream = s /\ conn.queue \in Seq(Records)
    BY <1>11 DEF Subscribed, Connected, IInv, Typed, Connections
  <2>2. /\ h \in Runs /\ conn.stream = runs'[h].stream
        /\ Serves(conn, h, runs'[h], Alone(heard.request)')
    BY <1>10, <2>1 DEF Serves
  <2>3. Alone(heard.request)' => h = r
    BY <1>1, <1>2, <1>5, <2>1, <2>2 DEF Alone
  <2>4. DEFINE q == conn.queue \o queued
  <2>5. /\ q \in Seq(Records) /\ Len(q) = Len(conn.queue) + Len(queued)
        /\ \A i \in 1..Len(q) : q[i] = IF i <= Len(conn.queue) THEN conn.queue[i]
                                         ELSE queued[i - Len(conn.queue)]
    <3>1. \A a, b \in Seq(Records) :
            /\ a \o b \in Seq(Records) /\ Len(a \o b) = Len(a) + Len(b)
            /\ \A i \in 1..Len(a) + Len(b) :
                 (a \o b)[i] = IF i <= Len(a) THEN a[i] ELSE b[i - Len(a)]
      BY ConcatProperties
    <3>2. QED BY <2>1, <1>4, <3>1
  <2>6. conn' = [conn EXCEPT !.queue = q] BY <1>1, <1>11
  <2> HIDE DEF q
  <2>7. RecordOf([id |-> n, event |-> [run |-> r, n |-> n]], h, runs'[h], Alone(heard.request)')
    BY <1>2, <1>5, <2>3 DEF RecordOf
  <2>8. ASSUME NEW i \in 1..Len(q)
        PROVE  RecordOf(q[i], h, runs'[h], Alone(heard.request)')
    <3>1. CASE i <= Len(conn.queue)
      <4>1. i \in 1..Len(conn.queue) BY <2>1, <3>1
      <4>2. q[i] = conn.queue[i] BY <2>5, <3>1
      <4>3. QED BY <2>2, <4>1, <4>2 DEF Serves
    <3>2. CASE ~(i <= Len(conn.queue))
      <4>1. i - Len(conn.queue) \in 1..Len(queued) BY <2>1, <1>4, <2>5, <3>2
      <4>2. q[i] = [id |-> n, event |-> [run |-> r, n |-> n]] BY <1>4, <2>5, <3>2, <4>1
      <4>3. QED BY <2>7, <4>2
    <3>3. QED BY <3>1, <3>2
  <2>9. conn' \in Connections BY <2>1, <2>5, <2>6 DEF Connections
  <2>10. conn'.queue = q /\ conn'.stream = conn.stream /\ conn'.run = conn.run
         /\ conn'.phase = conn.phase /\ conn'.eventId = conn.eventId /\ conn'.frames = conn.frames
         /\ conn'.lastEventId = conn.lastEventId
    BY <2>1, <2>6 DEF Connections
  <2>11. Serves(conn', h, runs'[h], Alone(heard.request)')
    BY <2>2, <2>8, <2>10 DEF Serves
  <2>12. ConnServes' BY <1>1, <1>10, <2>1, <2>10, <2>11 DEF ConnServes, Heard
  <2>13. Typed' BY <1>1, <1>5, <1>6, <2>9 DEF Typed, IInv, Advances
  <2>14. QED BY <1>7, <1>9, <2>12, <2>13 DEF IInv
<1>12. CASE ~Subscribed(s)
  <2>1. conn' = conn BY <1>1, <1>12
  <2>2. ConnServes' BY <1>1, <1>10, <2>1 DEF ConnServes, Heard
  <2>3. Typed' BY <1>1, <1>5, <1>6, <2>1 DEF Typed, IInv, Advances
  <2>4. QED BY <1>7, <1>9, <2>2, <2>3 DEF IInv
<1>13. QED BY <1>11, <1>12

\* CloseStream(r, status): nothing that was appended is lost.
LEMMA CloseInv ==
  ASSUME IInv, NEW r \in Runs, NEW status \in {"completed", "error"}, CloseStream(r, status)
  PROVE  IInv'
<1> DEFINE s == runs[r].stream
           stream == [streams[s] EXCEPT !.status = status]
<1>1. /\ runs[r].phase = "draining"
      /\ runs' = [runs EXCEPT ![r].phase = status]
      /\ streams' = [streams EXCEPT ![s] = stream]
      /\ conn' = IF Subscribed(s) THEN [conn EXCEPT !.closed = TRUE] ELSE conn
      /\ UNCHANGED <<chat, saved, heard>>
  BY DEF CloseStream, Draining, close
<1>2. /\ runs[r] \in Drains /\ s \in Streams /\ s # 0 /\ streams[s] \in Kept
      /\ Len(streams[s].records) = runs[r].made
      /\ \A i \in 1..Len(streams[s].records) : streams[s].records[i].n = i
      /\ Alone(r) => \A i \in 1..Len(streams[s].records) : streams[s].records[i].run = r
  <2>1. runs[r] \in Drains BY DEF IInv, Typed
  <2>2. RunHolds(r) BY DEF IInv, RunsHold
  <2>3. s \in Streams /\ s # 0 BY <1>1, <2>2, RunsPositive DEF RunHolds
  <2>4. streams[s] \in Kept BY <2>3 DEF IInv, Typed
  <2>5. Len(streams[s].records) = runs[r].made BY <1>1, <2>2 DEF RunHolds
  <2>6. Alone(r) => Holds(streams[s], runs[r], r) BY <2>2, <2>3 DEF RunHolds
  <2>7. \A i \in 1..Len(streams[s].records) : streams[s].records[i].n = i
    BY <2>3 DEF IInv, StreamsHold
  <2>8. QED BY <2>1, <2>3, <2>4, <2>5, <2>6, <2>7 DEF Holds
<1>3. stream \in Kept /\ stream.status = status /\ stream.records = streams[s].records
  BY <1>2 DEF Kept
<1> HIDE DEF stream
<1>4. /\ runs'[r].made = runs[r].made /\ runs'[r].phase = status /\ runs'[r].stream = s
      /\ Advances(r)
  BY <1>1, <1>2 DEF IInv, Typed, Advances, Drains, RunPhases
<1>5. streams' \in [Streams -> Kept] /\ streams'[s] = stream
      /\ \A t \in Streams \ {s} : streams'[t] = streams[t]
  BY <1>1, <1>2, <1>3 DEF IInv, Typed
<1>6. StreamsHold' /\ RunsHold'
  <2>1. \A q \in Runs \ {r} : runs[q].phase = "draining" => runs[q].stream # s
    BY <1>1 DEF IInv, StreamsHold
  <2>2. Alone(r)' => Alone(r) BY <1>4, AdvancesOnly DEF IInv
  <2>3. Alone(r)' => Holds(stream, runs'[r], r) BY <1>2, <1>3, <1>4, <2>2 DEF Holds
  <2>4. RunHolds(r)' BY <1>2, <1>4, <1>5, <2>3 DEF RunHolds
  <2> DEFINE t == runs[r].stream
  <2>5. t \in Streams /\ runs'[r].stream = t BY <1>2, <1>4
  <2> HIDE DEF t
  <2>6. s = t BY DEF t
  <2>7. stream.status # "missing" /\ stream.status # "running" BY <1>3
  <2>8. QED BY <1>2, <1>3, <1>4, <1>5, <2>1, <2>4, <2>5, <2>6, <2>7, OthersHold
<1>7. conn' = None <=> conn = None
  <2>1. ASSUME conn # None PROVE conn' # None
    <3>1. conn \in Connections BY <2>1 DEF IInv, Typed
    <3>2. [conn EXCEPT !.closed = TRUE] # None BY <3>1 DEF None, Connections
    <3>3. QED BY <1>1, <2>1, <3>2
  <2>2. QED BY <1>1, <2>1 DEF Subscribed, Connected
<1>8. SavedHolds' /\ HeardHolds' /\ Shown'
  BY <1>1, <1>4, <1>7, HeardLater
<1>9. ASSUME conn # None
      PROVE  /\ heard.request \in Runs /\ chat.request = heard.request
             /\ Serves(conn, heard.request, runs'[heard.request], Alone(heard.request)')
             /\ conn.lastEventId = Heard /\ chat.lastEventId = Heard
  BY <1>1, <1>4, <1>9, ConnLater
<1>10. CASE Subscribed(s)
  <2>1. conn # None /\ conn \in Connections
    BY <1>10 DEF Subscribed, Connected, IInv, Typed
  <2>2. conn' = [conn EXCEPT !.closed = TRUE] BY <1>1, <1>10
  <2>3. conn' \in Connections BY <2>1, <2>2 DEF Connections
  <2>4. conn'.queue = conn.queue /\ conn'.stream = conn.stream /\ conn'.run = conn.run
        /\ conn'.phase = conn.phase /\ conn'.eventId = conn.eventId /\ conn'.frames = conn.frames
        /\ conn'.lastEventId = conn.lastEventId
    BY <2>1, <2>2 DEF Connections
  <2>5. Serves(conn', heard.request, runs'[heard.request], Alone(heard.request)')
    BY <1>9, <2>1, <2>4 DEF Serves
  <2>6. ConnServes' BY <1>1, <1>9, <2>1, <2>4, <2>5 DEF ConnServes, Heard
  <2>7. Typed' BY <1>1, <1>4, <1>5, <2>3 DEF Typed, IInv, Advances
  <2>8. QED BY <1>6, <1>8, <2>6, <2>7 DEF IInv
<1>11. CASE ~Subscribed(s)
  <2>1. conn' = conn BY <1>1, <1>11
  <2>2. ConnServes' BY <1>1, <1>9, <2>1 DEF ConnServes, Heard
  <2>3. Typed' BY <1>1, <1>4, <1>5, <2>1 DEF Typed, IInv, Advances
  <2>4. QED BY <1>6, <1>8, <2>2, <2>3 DEF IInv
<1>12. QED BY <1>10, <1>11

\* What a step that leaves the runs and the chat alone does not disturb.
LEMMA ServerQuiet ==
  ASSUME IInv, UNCHANGED <<runs, conn, chat, saved, heard>>
  PROVE  ConnServes' /\ SavedHolds' /\ HeardHolds' /\ Shown'
<1>1. ConnServes' BY DEF IInv, ConnServes, Heard, Alone
<1>2. SavedHolds' BY DEF IInv, SavedHolds, Heard
<1>3. HeardHolds' BY DEF IInv, HeardHolds, Heard, Alone
<1>4. Shown' BY DEF IInv, Shown, Heard
<1>5. QED BY <1>1, <1>2, <1>3, <1>4

\* evictClosedStreams(s): only a stream whose run is over.
LEMMA EvictInv == ASSUME IInv, NEW s \in Streams, evictClosedStreams(s) PROVE IInv'
<1>1. /\ streams[s].status \in {"completed", "error"}
      /\ streams' = [streams EXCEPT ![s] = missing]
      /\ UNCHANGED <<runs, conn, chat, saved, heard>>
  BY DEF evictClosedStreams, Evictable
<1>2. missing \in Kept /\ missing.status = "missing" /\ missing.records = <<>>
  BY DEF missing, Kept
<1>3. streams'[s] = missing /\ \A t \in Streams \ {s} : streams'[t] = streams[t]
  BY <1>1 DEF IInv, Typed
<1>4. Typed' BY <1>1, <1>2 DEF IInv, Typed
<1>5. StreamsHold'
  <2>1. ASSUME NEW t \in Streams
        PROVE  /\ \A i \in 1..Len(streams'[t].records) : streams'[t].records[i].n = i
               /\ streams'[t].status = "missing" => streams'[t].records = <<>>
               /\ streams'[t].status = "running" =>
                    \E r \in Runs : runs[r].phase = "draining" /\ runs[r].stream = t
    <3>1. CASE t = s BY <1>2, <1>3, <3>1
    <3>2. CASE t # s BY <1>3, <3>2 DEF IInv, StreamsHold
    <3>3. QED BY <3>1, <3>2
  <2>2. QED BY <1>1, <2>1 DEF IInv, StreamsHold
<1>6. RunsHold'
  <2> SUFFICES ASSUME NEW r \in Runs PROVE RunHolds(r)'
    BY DEF RunsHold
  <2>1. RunHolds(r) BY DEF IInv, RunsHold
  <2>2. runs[r].stream \in {0} \cup Streams BY DEF IInv, Typed, Drains
  <2>3. Alone(r)' <=> Alone(r) BY <1>1 DEF Alone
  <2>4. CASE runs[r].stream = s
    <3>1. Holds(missing, runs[r], r) BY <1>2 DEF Holds
    <3>2. runs[r].phase # "draining" BY <1>1, <2>1, <2>4 DEF RunHolds
    <3>3. QED BY <1>1, <1>3, <2>1, <2>4, <3>1, <3>2 DEF RunHolds
  <2>5. CASE runs[r].stream # s
    <3>1. runs[r].stream # 0 => streams'[runs[r].stream] = streams[runs[r].stream]
      BY <1>3, <2>2, <2>5
    <3>2. runs[r].phase = "draining" => runs[r].stream # 0
      BY <2>1, RunsPositive DEF RunHolds
    <3>3. QED BY <1>1, <2>1, <2>3, <3>1, <3>2 DEF RunHolds
  <2>6. QED BY <2>4, <2>5
<1>7. QED BY <1>1, <1>4, <1>5, <1>6, ServerQuiet DEF IInv

\* A run that was sent and is given the id of a stream that is not running: the stream is empty,
\* and so is what was drained.
LEMMA OpenHolds ==
  ASSUME IInv, NEW r \in Runs, runs[r].phase = "sent", NEW s \in Streams, Openable(streams[s]),
         streams' = [streams EXCEPT ![s] = opened],
         runs' = [runs EXCEPT ![r].phase = "draining", ![r].stream = s]
  PROVE  /\ Advances(r) /\ runs'[r].stream = s
         /\ streams' \in [Streams -> Kept]
         /\ StreamsHold' /\ RunsHold'
<1>1. runs[r] \in Drains /\ RunHolds(r) BY DEF IInv, Typed, RunsHold
<1>2. runs[r].stream = 0 /\ runs[r].made = 0 BY <1>1 DEF RunHolds
<1>3. /\ Advances(r) /\ runs'[r].stream = s /\ runs'[r].phase = "draining"
      /\ runs'[r].made = 0
  <2>1. runs \in [Runs -> Drains] BY DEF IInv, Typed
  <2>2. runs' = [runs EXCEPT ![r] = [runs[r] EXCEPT !.phase = "draining", !.stream = s]]
    BY <2>1
  <2>3. [runs[r] EXCEPT !.phase = "draining", !.stream = s] \in Drains
    BY <1>1 DEF Drains, RunPhases
  <2>4. runs'[r].stream = s /\ runs'[r].phase = "draining" /\ runs'[r].made = 0
    BY <1>1, <1>2, <2>1, <2>2 DEF Drains
  <2>5. runs' \in [Runs -> Drains] /\ \A q \in Runs \ {r} : runs'[q] = runs[q]
    BY <2>1, <2>2, <2>3
  <2>6. QED BY <1>2, <2>4, <2>5 DEF Advances
<1>4. opened \in Kept /\ opened.status = "running" /\ opened.records = <<>>
  BY DEF opened, Kept
<1>5. streams' \in [Streams -> Kept] /\ streams'[s] = opened
      /\ \A t \in Streams \ {s} : streams'[t] = streams[t]
  BY <1>4 DEF IInv, Typed
<1>6. \A q \in Runs \ {r} : runs[q].phase = "draining" => runs[q].stream # s
  BY DEF IInv, RunsHold, RunHolds, Openable, Running
<1>7. RunHolds(r)'
  <2>1. Holds(opened, runs'[r], r) BY <1>3, <1>4 DEF Holds
  <2>2. QED BY <1>3, <1>4, <1>5, <2>1 DEF RunHolds
<1>8. StreamsHold' /\ RunsHold'
  <2>1. streams'[s].status # "missing" BY <1>4, <1>5
  <2>2. \A i \in 1..Len(streams'[s].records) : streams'[s].records[i].n = i BY <1>4, <1>5
  <2>3. QED BY <1>3, <1>5, <1>6, <1>7, <2>1, <2>2, OthersHold
<1>9. QED BY <1>3, <1>5, <1>8

\* What was saved has the id of a stream: a run that was only sent has none.
LEMMA SentUnsaved ==
  ASSUME IInv, NEW r \in Runs, runs[r].phase = "sent", heard.request = r
  PROVE  saved = None /\ (conn # None => conn.run = r)
<1>1. runs[r].stream = 0 BY DEF IInv, RunsHold, RunHolds
<1>2. saved = None BY <1>1, RunsPositive DEF IInv, SavedHolds, Typed, ResumeStates
<1>3. conn # None => conn.run = r BY <1>1 DEF IInv, ConnServes, Serves
<1>4. QED BY <1>2, <1>3

\* OpenUnread(r, s): the request that opens it is not the one of the connection.
LEMMA OpenUnreadInv ==
  ASSUME IInv, NEW r \in Runs, NEW s \in Streams, OpenUnread(r, s) PROVE IInv'
<1>1. /\ runs[r].phase = "sent" /\ ~(conn # None /\ conn.run = r) /\ Openable(streams[s])
      /\ streams' = [streams EXCEPT ![s] = opened]
      /\ runs' = [runs EXCEPT ![r].phase = "draining", ![r].stream = s]
      /\ UNCHANGED <<conn, chat, saved, heard>>
  BY DEF OpenUnread, Connected
<1>2. /\ Advances(r) /\ runs'[r].stream = s
      /\ streams' \in [Streams -> Kept]
      /\ StreamsHold' /\ RunsHold'
  BY <1>1, OpenHolds
<1>3. heard.request = r => saved = None /\ conn = None BY <1>1, SentUnsaved
<1>4. SavedHolds' /\ HeardHolds' /\ Shown' BY <1>1, <1>2, <1>3, HeardLater
<1>5. ConnServes'
  <2>1. CASE conn = None BY <1>1, <2>1 DEF ConnServes
  <2>2. CASE conn # None
    <3>1. /\ heard.request \in Runs /\ chat.request = heard.request
          /\ Serves(conn, heard.request, runs'[heard.request], Alone(heard.request)')
          /\ conn.lastEventId = Heard /\ chat.lastEventId = Heard
      BY <1>1, <1>2, <1>3, <2>2, ConnLater
    <3>2. QED BY <1>1, <3>1 DEF ConnServes, Heard
  <2>3. QED BY <2>1, <2>2
<1>6. Typed' BY <1>1, <1>2 DEF IInv, Typed, Advances
<1>7. QED BY <1>2, <1>4, <1>5, <1>6 DEF IInv

-----------------------------------------------------------------------------
(* The responses.                                                           *)

\* A step of a response that sends nothing wrong.
LEMMA ResponseInv ==
  ASSUME IInv, conn # None, UNCHANGED <<streams, runs, chat, saved, heard>>,
         conn' \in Connections, conn'.lastEventId = conn.lastEventId,
         Serves(conn', heard.request, runs[heard.request], Alone(heard.request))
  PROVE  IInv'
<1>1. Typed' BY DEF IInv, Typed
<1>0. heard' = heard /\ runs' = runs OBVIOUS
<1>2. Alone(heard.request)' = Alone(heard.request) BY <1>0 DEF Alone
<1>3. ConnServes' BY <1>2 DEF IInv, ConnServes, Heard
<1>4. StreamsHold' BY DEF IInv, StreamsHold
<1>5. RunsHold' BY DEF IInv, RunsHold, RunHolds, Alone
<1>6. SavedHolds' BY DEF IInv, SavedHolds, Heard
<1>7. HeardHolds'
  <2>1. ~heard.whole BY DEF IInv, HeardHolds
  <2>2. QED BY <1>2, <2>1 DEF IInv, HeardHolds, Heard
<1>8. Shown' BY DEF IInv, Shown, Heard
<1>9. QED BY <1>1, <1>3, <1>4, <1>5, <1>6, <1>7, <1>8 DEF IInv

\* What is known of the response.
LEMMA Serving ==
  ASSUME IInv, conn # None
  PROVE  /\ conn \in Connections /\ heard.request \in Runs
         /\ Serves(conn, heard.request, runs[heard.request], Alone(heard.request))
         /\ runs[heard.request] \in Drains
         /\ conn.lastEventId = Heard /\ chat.lastEventId = Heard
         /\ chat.request = heard.request
BY DEF IInv, Typed, ConnServes

\* A frame is sent after those that are in flight.
LEMMA SendsFrame ==
  ASSUME NEW c \in Connections, NEW frame \in Frames, NEW r, NEW run, NEW own,
         \A i \in 1..Len(c.frames) : FrameOf(c.frames[i], r, run, own),
         FrameOf(frame, r, run, own)
  PROVE  /\ Sends(c, frame) = [c EXCEPT !.frames = Append(c.frames, frame)]
         /\ Append(c.frames, frame) \in Seq(Frames)
         /\ \A i \in 1..Len(Append(c.frames, frame)) :
               FrameOf(Append(c.frames, frame)[i], r, run, own)
<1>1. c.frames \in Seq(Frames) BY DEF Connections
<1>2. SUFFICES ASSUME NEW s \in Seq(Frames), \A i \in 1..Len(s) : FrameOf(s[i], r, run, own)
               PROVE  /\ Append(s, frame) \in Seq(Frames)
                      /\ \A i \in 1..Len(Append(s, frame)) :
                           FrameOf(Append(s, frame)[i], r, run, own)
  BY <1>1 DEF Sends
<1>3. /\ Append(s, frame) \in Seq(Frames) /\ Len(Append(s, frame)) = Len(s) + 1
      /\ \A i \in 1..Len(s) : Append(s, frame)[i] = s[i]
      /\ Append(s, frame)[Len(s) + 1] = frame
  BY AppendProperties
<1>4. ASSUME NEW i \in 1..Len(Append(s, frame))
      PROVE  FrameOf(Append(s, frame)[i], r, run, own)
  <2>0. Len(s) \in Nat OBVIOUS
  <2>1. CASE i = Len(s) + 1 BY <2>1, <1>3
  <2>2. CASE i # Len(s) + 1
    <3>1. i \in 1..Len(s) BY <2>0, <2>2, <1>3
    <3>2. QED BY <3>1, <1>2, <1>3
  <2>3. QED BY <2>1, <2>2
<1>5. QED BY <1>3, <1>4

\* A frame that says that a stream starts.
LEMMA StartsFrame ==
  ASSUME NEW s \in Streams, NEW r, NEW run, NEW own
  PROVE  Start(s) \in Frames /\ FrameOf(Start(s), r, run, own)
BY DEF Start, Frames, FrameOf

\* The connection to which the route has answered with the id of a stream.
AnsweredWith(c, s, phase) == [[Sends(c, Start(s)) EXCEPT !.stream = s] EXCEPT !.phase = phase]

\* The run that has the id s now, and had none before.
GivenId(run, later, own, still, s) ==
  later.stream = s /\ later.made = run.made /\ (still => own)

\* A connection whose request was answered serves the run that has the id now.
LEMMA StartedConn ==
  ASSUME NEW c \in Connections, NEW s \in Streams, NEW phase \in {"subscribing", "rejected"},
         NEW r, NEW run, NEW later, NEW own, NEW still,
         Serves(c, r, run, own), c.phase = "requested", c.run # 0,
         GivenId(run, later, own, still, s),
         NEW d, d = AnsweredWith(c, s, phase)
  PROVE  d \in Connections /\ d.lastEventId = c.lastEventId /\ Serves(d, r, later, still)
<1> DEFINE frames == Append(c.frames, Start(s))
<1>1. c.frames = <<>> BY DEF Serves
<1>2. Start(s) \in Frames /\ FrameOf(Start(s), r, later, still) BY StartsFrame
<1>3. \A i \in 1..Len(c.frames) : FrameOf(c.frames[i], r, later, still) BY <1>1
<1>4. /\ Sends(c, Start(s)) = [c EXCEPT !.frames = frames]
      /\ frames \in Seq(Frames)
      /\ \A i \in 1..Len(frames) : FrameOf(frames[i], r, later, still)
  BY <1>2, <1>3, SendsFrame
<1> HIDE DEF frames
<1>5. /\ d \in Connections /\ d.stream = s /\ d.phase = phase /\ d.run = c.run
      /\ d.queue = c.queue /\ d.frames = frames /\ d.eventId = c.eventId
      /\ d.lastEventId = c.lastEventId
  BY <1>4 DEF Connections, AnsweredWith
<1>6. s # 0 BY RunsPositive
<1>7. c.run = r BY DEF Serves
<1>8. \A i \in 1..Len(c.queue) : RecordOf(c.queue[i], r, later, still)
  BY DEF Serves, RecordOf, GivenId
<1>9. Serves(d, r, later, still)
  BY <1>4, <1>5, <1>6, <1>7, <1>8 DEF Serves, GivenId
<1>10. QED BY <1>5, <1>9

\* OpenStream(s): the stream is opened for the run, or another one has it.
LEMMA OpenStreamInv == ASSUME IInv, NEW s \in Streams, OpenStream(s) PROVE IInv'
<1> DEFINE r == heard.request
           own == Alone(heard.request)
           still == Alone(heard.request)'
           c == [Sends(conn, Start(s)) EXCEPT !.stream = s]
<1>1. conn # None /\ conn.phase = "requested" /\ conn.run # 0
      /\ UNCHANGED <<chat, saved, heard>>
  BY DEF OpenStream, Pulled, Connected, Put
<1>2. /\ conn \in Connections /\ r \in Runs /\ conn.run = r /\ runs[r].phase = "sent"
      /\ Serves(conn, r, runs[r], own) /\ runs[r] \in Drains
      /\ conn.lastEventId = Heard /\ chat.lastEventId = Heard /\ chat.request = r
  BY <1>1, Serving DEF Serves
<1>3. runs[r].stream = 0 /\ runs[r].made = 0 BY <1>2 DEF IInv, RunsHold, RunHolds
<1>4. saved = None BY <1>1, <1>2, SentUnsaved
<1>5. ASSUME NEW phase \in {"subscribing", "rejected"}, conn' = [c EXCEPT !.phase = phase],
             Advances(r), runs'[r].stream = s, runs'[r].made = 0,
             streams' \in [Streams -> Kept], StreamsHold', RunsHold'
      PROVE  IInv'
  <2> DEFINE later == runs'[r]
  <2>1. still => own
    <3>1. PICK x \in Runs : x = r BY <1>2
    <3>2. Alone(x)' => Alone(x) BY <1>2, <1>5, <3>1, AdvancesOnly DEF IInv
    <3>3. Alone(heard.request)' = Alone(x)' BY <1>1, <3>1 DEF Alone
    <3>4. QED BY <3>1, <3>2, <3>3
  <2>2. later.stream = s /\ later.made = runs[r].made BY <1>3, <1>5
  <2>3. conn' = AnsweredWith(conn, s, phase) BY <1>5 DEF AnsweredWith
  <2> DEFINE run == runs[r]
  <2> HIDE DEF own, still, later, c
  <2>4. conn' \in Connections /\ conn'.lastEventId = conn.lastEventId
        /\ Serves(conn', r, later, still)
    <3>1. Serves(conn, r, run, own) /\ later.made = run.made BY <1>2, <2>2
    <3> HIDE DEF run, r
    <3>2. conn \in Connections /\ conn.phase = "requested" /\ conn.run # 0 BY <1>1, <1>2
    <3>3. phase \in {"subscribing", "rejected"} BY <1>5
    <3>4. GivenId(run, later, own, still, s) BY <2>1, <2>2, <3>1 DEF GivenId
    <3>5. QED BY <2>3, <3>1, <3>2, <3>3, <3>4, StartedConn
  <2>5. ConnServes' BY <1>1, <1>2, <2>4 DEF ConnServes, Heard, still, later
  <2>6. conn' # None BY <2>4 DEF None, Connections
  <2>7. SavedHolds' /\ HeardHolds' /\ Shown' BY <1>1, <1>2, <1>4, <1>5, <2>6, HeardLater
  <2>8. Typed' BY <1>1, <1>5, <2>4 DEF IInv, Typed, Advances
  <2>9. QED BY <1>5, <2>5, <2>7, <2>8 DEF IInv
<1>6. CASE Openable(streams[s])
  <2>1. /\ streams' = [streams EXCEPT ![s] = opened]
        /\ runs' = [runs EXCEPT ![r].phase = "draining", ![r].stream = s]
        /\ conn' = [c EXCEPT !.phase = "subscribing"]
    BY <1>2, <1>6 DEF OpenStream, Put
  <2>2. /\ Advances(r) /\ runs'[r].stream = s
        /\ streams' \in [Streams -> Kept]
        /\ StreamsHold' /\ RunsHold'
    BY <1>2, <1>6, <2>1, OpenHolds
  <2>3. runs'[r].made = 0
    <3>1. runs \in [Runs -> Drains] BY DEF IInv, Typed
    <3>2. runs' = [runs EXCEPT ![r] = [runs[r] EXCEPT !.phase = "draining", !.stream = s]]
      BY <2>1, <3>1
    <3>3. QED BY <1>2, <1>3, <3>1, <3>2 DEF Drains
  <2> HIDE DEF c
  <2>4. QED BY <1>5, <2>1, <2>2, <2>3
<1>7. CASE ~Openable(streams[s])
  <2>1. /\ streams' = streams
        /\ runs' = [runs EXCEPT ![r].phase = "rejected", ![r].stream = s]
        /\ conn' = [c EXCEPT !.phase = "rejected"]
    BY <1>2, <1>7 DEF OpenStream, Put
  <2>2. /\ Advances(r) /\ runs'[r].stream = s /\ runs'[r].made = 0 /\ runs'[r].phase = "rejected"
    <3>1. runs \in [Runs -> Drains] BY DEF IInv, Typed
    <3>2. runs' = [runs EXCEPT ![r] = [runs[r] EXCEPT !.phase = "rejected", !.stream = s]]
      BY <2>1, <3>1
    <3>3. [runs[r] EXCEPT !.phase = "rejected", !.stream = s] \in Drains
      BY <1>2 DEF Drains, RunPhases
    <3>4. runs'[r].stream = s /\ runs'[r].phase = "rejected" /\ runs'[r].made = 0
      BY <1>2, <1>3, <3>1, <3>2 DEF Drains
    <3>5. runs' \in [Runs -> Drains] /\ \A q \in Runs \ {r} : runs'[q] = runs[q]
      BY <1>2, <3>1, <3>2, <3>3
    <3>6. QED BY <1>2, <1>3, <3>4, <3>5 DEF Advances
  <2>3. PICK p \in Runs : runs[p].phase = "draining" /\ runs[p].stream = s
    BY <1>7 DEF IInv, StreamsHold, Openable, Running
  <2>4. p # r /\ runs'[p] = runs[p] BY <1>2, <2>2, <2>3 DEF Advances
  <2>5. StreamsHold'
    <3>1. \A q \in Runs : runs'[q].phase = "draining" => q # r /\ runs'[q] = runs[q]
      BY <2>2 DEF Advances
    <3>2. \A q \in Runs : runs[q].phase = "draining" => q # r /\ runs'[q] = runs[q]
      BY <1>2, <2>2 DEF Advances
    <3>3. \A t \in Streams : streams[t].status = "running" =>
             \E q \in Runs : runs'[q].phase = "draining" /\ runs'[q].stream = t
      <4> SUFFICES ASSUME NEW t \in Streams, streams[t].status = "running"
                   PROVE  \E q \in Runs : runs'[q].phase = "draining" /\ runs'[q].stream = t
        OBVIOUS
      <4>1. PICK q \in Runs : runs[q].phase = "draining" /\ runs[q].stream = t
        BY DEF IInv, StreamsHold
      <4>2. QED BY <3>2, <4>1
    <3>4. \A q, z \in Runs :
            runs'[q].phase = "draining" /\ runs'[z].phase = "draining"
            /\ runs'[q].stream = runs'[z].stream => q = z
      BY <3>1 DEF IInv, StreamsHold
    <3>5. /\ \A t \in Streams :
               \A i \in 1..Len(streams[t].records) : streams[t].records[i].n = i
          /\ \A t \in Streams : streams[t].status = "missing" => streams[t].records = <<>>
      BY DEF IInv, StreamsHold
    <3>6. QED BY <2>1, <3>3, <3>4, <3>5 DEF StreamsHold
  <2>6. RunsHold'
    <3> SUFFICES ASSUME NEW q \in Runs PROVE RunHolds(q)'
      BY DEF RunsHold
    <3>1. CASE q = r
      <4>1. runs'[q].stream = s /\ runs'[q].phase = "rejected" /\ p # q /\ runs'[p].stream = s
        BY <2>2, <2>3, <2>4, <3>1
      <4>2. ~Alone(q)' BY <4>1, RunsPositive DEF Alone
      <4>3. QED BY <4>1, <4>2 DEF RunHolds
    <3>2. CASE q # r
      <4>1. runs'[q] = runs[q] /\ RunHolds(q) BY <2>2, <3>2 DEF Advances, IInv, RunsHold
      <4>2. Alone(q)' => Alone(q) BY <1>2, <2>2, AdvancesOnly DEF IInv
      <4>3. QED BY <2>1, <4>1, <4>2 DEF RunHolds
    <3>3. QED BY <3>1, <3>2
  <2>7. streams' \in [Streams -> Kept] BY <2>1 DEF IInv, Typed
  <2> HIDE DEF c
  <2>8. QED BY <1>5, <2>1, <2>2, <2>5, <2>6, <2>7
<1>8. QED BY <1>6, <1>7

\* ResumeStream.
LEMMA ResumeStreamInv == ASSUME IInv, ResumeStream PROVE IInv'
<1> DEFINE r == heard.request
           own == Alone(heard.request)
           frame == Start(conn.stream)
           frames == Append(conn.frames, frame)
<1>1. /\ conn # None /\ conn.run = 0
      /\ conn' = [Sends(conn, frame) EXCEPT !.phase = "subscribing"]
      /\ UNCHANGED <<streams, runs, chat, saved, heard>>
  BY DEF ResumeStream, Put, Pulled, Connected
<1>2. conn \in Connections /\ Serves(conn, r, runs[r], own) BY <1>1, Serving
<1>3. conn.stream \in Streams BY <1>1, <1>2 DEF Serves, Connections
<1> HIDE DEF own
<1>4. frame \in Frames /\ FrameOf(frame, r, runs[r], own) BY <1>3, StartsFrame
<1>5. /\ Sends(conn, frame) = [conn EXCEPT !.frames = frames]
      /\ frames \in Seq(Frames)
      /\ \A i \in 1..Len(frames) : FrameOf(frames[i], r, runs[r], own)
  BY <1>2, <1>4, SendsFrame DEF Serves
<1> HIDE DEF frames
<1>6. /\ conn' \in Connections
      /\ conn'.queue = conn.queue /\ conn'.stream = conn.stream /\ conn'.run = conn.run
      /\ conn'.phase = "subscribing" /\ conn'.eventId = conn.eventId /\ conn'.frames = frames
      /\ conn'.lastEventId = conn.lastEventId
  BY <1>1, <1>2, <1>5 DEF Connections
<1>7. Serves(conn', r, runs[r], own) BY <1>1, <1>2, <1>5, <1>6 DEF Serves
<1>8. QED BY <1>1, <1>6, <1>7, ResponseInv DEF own

\* What a subscriber gets at once are the records after its cursor, under their numbers.
LEMMA ReplayedOf ==
  ASSUME NEW r \in Runs, NEW stream \in Kept, NEW run \in Drains, NEW own, NEW after \in Nat,
         \A i \in 1..Len(stream.records) : stream.records[i].n = i,
         own => /\ Len(stream.records) <= run.made
                /\ \A i \in 1..Len(stream.records) : stream.records[i].run = r
  PROVE  LET queue == Replayed(stream, after) IN
         /\ queue \in Seq(Records)
         /\ \A i \in 1..Len(queue) : RecordOf(queue[i], r, run, own)
<1> DEFINE last == Len(stream.records)
           later == SubSeq(stream.records, after + 1, last)
           queue == [i \in DOMAIN later |-> [id |-> after + i, event |-> later[i]]]
<1>1. stream.records \in Seq(Pieces) /\ last \in Nat /\ run.made \in Nat
  BY DEF Kept, Drains
<1>2. /\ later \in Seq(Pieces)
      /\ Len(later) = IF after + 1 <= last THEN last - after ELSE 0
      /\ \A i \in 1..(last - after) : later[i] = stream.records[after + i]
  <2>1. SUFFICES ASSUME NEW s \in Seq(Pieces)
                 PROVE  LET t == SubSeq(s, after + 1, Len(s)) IN
                        /\ t \in Seq(Pieces)
                        /\ Len(t) = IF after + 1 <= Len(s) THEN Len(s) - after ELSE 0
                        /\ \A i \in 1..(Len(s) - after) : t[i] = s[after + i]
    BY <1>1
  <2>2. \A i \in (after + 1)..Len(s) : s[i] \in Pieces OBVIOUS
  <2>3. QED BY <2>2, SubSeqProperties
<1> HIDE DEF later
<1>3. DOMAIN later = 1..Len(later) /\ Len(later) \in Nat BY <1>2
<1>4. queue \in [1..Len(later) -> Records]
  BY <1>2, <1>3 DEF Records
<1>5. queue \in Seq(Records) /\ Len(queue) = Len(later)
  <2>1. ASSUME NEW n \in Nat, NEW f \in [1..n -> Records]
        PROVE  f \in Seq(Records) /\ Len(f) = n
    OBVIOUS
  <2> HIDE DEF queue
  <2>2. QED BY <1>3, <1>4, <2>1
<1>6. ASSUME NEW i \in 1..Len(queue)
      PROVE  RecordOf(queue[i], r, run, own)
  <2>1. i \in 1..Len(later) /\ after + 1 <= last BY <1>2, <1>5
  <2>2. queue[i] = [id |-> after + i, event |-> later[i]] BY <1>3, <2>1
  <2>3. after + i \in 1..last BY <1>1, <1>2, <2>1
  <2>4. later[i] = stream.records[after + i] BY <1>1, <1>2, <2>1, <2>3
  <2>5. later[i].n = after + i /\ (own => later[i].run = r /\ last <= run.made)
    BY <2>3, <2>4
  <2>6. own => after + i <= run.made BY <1>1, <2>3, <2>5
  <2>7. QED BY <2>2, <2>5, <2>6 DEF RecordOf
<1>7. Replayed(stream, after) = queue BY DEF Replayed, lastEventId, later
<1> HIDE DEF queue
<1>8. QED BY <1>5, <1>6, <1>7

\* The stream of a response.
LEMMA ServedStream ==
  ASSUME IInv, conn # None, conn.phase # "requested"
  PROVE  LET stream == streams[conn.stream]
             r == heard.request
         IN  /\ stream \in Kept
             /\ \A i \in 1..Len(stream.records) : stream.records[i].n = i
             /\ stream.status = "missing" => stream.records = <<>>
             /\ Alone(r) => Holds(stream, runs[r], r)
<1> DEFINE r == heard.request
<1>1. /\ conn \in Connections /\ r \in Runs /\ conn.stream = runs[r].stream
      /\ conn.stream # 0 /\ runs[r] \in Drains
  BY Serving DEF Serves
<1>2. conn.stream \in Streams BY <1>1 DEF Connections
<1>3. Alone(r) => Holds(streams[conn.stream], runs[r], r)
  BY <1>1 DEF IInv, RunsHold, RunHolds
<1>4. QED BY <1>2, <1>3 DEF IInv, Typed, StreamsHold

\* Subscribe.
LEMMA SubscribeInv == ASSUME IInv, Subscribe PROVE IInv'
<1> DEFINE r == heard.request
           own == Alone(heard.request)
           stream == streams[conn.stream]
           queue == Replayed(stream, conn.after)
<1>1. /\ conn # None /\ conn.phase = "subscribing"
      /\ conn' = [conn EXCEPT !.phase = "reading", !.queue = queue, !.closed = ~Running(stream)]
      /\ UNCHANGED <<streams, runs, chat, saved, heard>>
  BY DEF Subscribe, Put, Pulled, Connected, Subscription
<1>2. conn \in Connections /\ r \in Runs /\ Serves(conn, r, runs[r], own) /\ runs[r] \in Drains
  BY <1>1, Serving
<1>3. /\ stream \in Kept
      /\ \A i \in 1..Len(stream.records) : stream.records[i].n = i
      /\ stream.status = "missing" => stream.records = <<>>
      /\ own => Holds(stream, runs[r], r)
  BY <1>1, ServedStream
<1> HIDE DEF own, stream
<1>4. own => /\ Len(stream.records) <= runs[r].made
             /\ \A i \in 1..Len(stream.records) : stream.records[i].run = r
  BY <1>2, <1>3 DEF Holds, Drains
<1>5. queue \in Seq(Records) /\ \A i \in 1..Len(queue) : RecordOf(queue[i], r, runs[r], own)
  <2>1. conn.after \in Nat BY <1>2 DEF Connections
  <2> DEFINE run == runs[r]
             who == r
  <2>2. run \in Drains /\ who \in Runs BY <1>2
  <2>3. own => /\ Len(stream.records) <= run.made
               /\ \A i \in 1..Len(stream.records) : stream.records[i].run = who
    BY <1>4
  <2> HIDE DEF run, who
  <2>4. queue \in Seq(Records) /\ \A i \in 1..Len(queue) : RecordOf(queue[i], who, run, own)
    BY <1>3, <2>1, <2>2, <2>3, ReplayedOf
  <2>5. QED BY <2>4 DEF run, who
<1> HIDE DEF queue
<1>6. /\ conn' \in Connections
      /\ conn'.queue = queue /\ conn'.stream = conn.stream /\ conn'.run = conn.run
      /\ conn'.phase = "reading" /\ conn'.eventId = conn.eventId /\ conn'.frames = conn.frames
      /\ conn'.lastEventId = conn.lastEventId
  BY <1>1, <1>2, <1>5 DEF Connections, Running
<1>7. Serves(conn', r, runs[r], own) BY <1>1, <1>2, <1>5, <1>6 DEF Serves
<1>8. QED BY <1>1, <1>6, <1>7, ResponseInv DEF own

\* SendEvent: the first record of the queue becomes a frame.
LEMMA SendEventInv == ASSUME IInv, SendEvent PROVE IInv'
<1> DEFINE r == heard.request
           own == Alone(heard.request)
           record == Head(conn.queue)
           rest == Tail(conn.queue)
           frame == Event(record)
           frames == Append(conn.frames, frame)
<1>1. /\ conn # None /\ conn.phase = "reading" /\ conn.queue # <<>>
      /\ conn' = [Sends(conn, frame) EXCEPT !.queue = Tail(@), !.eventId = record.id]
      /\ UNCHANGED <<streams, runs, chat, saved, heard>>
  BY DEF SendEvent, Put, Pulled, Connected
<1>2. conn \in Connections /\ Serves(conn, r, runs[r], own) BY <1>1, Serving
<1>3. /\ record \in Records /\ record = conn.queue[1] /\ 1 \in 1..Len(conn.queue)
      /\ rest \in Seq(Records) /\ Len(rest) = Len(conn.queue) - 1
      /\ \A i \in 1..Len(rest) : rest[i] = conn.queue[i + 1] /\ i + 1 \in 1..Len(conn.queue)
  <2>1. conn.queue \in Seq(Records) BY <1>2 DEF Connections
  <2>2. SUFFICES ASSUME NEW s \in Seq(Records), s # <<>>
                 PROVE  /\ Head(s) \in Records /\ Head(s) = s[1] /\ 1 \in 1..Len(s)
                        /\ Tail(s) \in Seq(Records) /\ Len(Tail(s)) = Len(s) - 1
                        /\ \A i \in 1..Len(Tail(s)) : Tail(s)[i] = s[i + 1] /\ i + 1 \in 1..Len(s)
    BY <1>1, <2>1
  <2>3. Len(s) \in Nat /\ Len(s) # 0 BY <2>2
  <2>4. /\ Head(s) \in Records /\ Tail(s) \in Seq(Records) /\ Len(Tail(s)) = Len(s) - 1
        /\ \A i \in 1..Len(Tail(s)) : Tail(s)[i] = s[i + 1]
    BY <2>2, HeadTailProperties
  <2>5. Head(s) = s[1] OBVIOUS
  <2>6. QED BY <2>3, <2>4, <2>5
<1> HIDE DEF own
<1>4. RecordOf(record, r, runs[r], own) BY <1>2, <1>3 DEF Serves
<1> HIDE DEF record, rest
<1>5. frame \in Frames /\ FrameOf(frame, r, runs[r], own)
  BY <1>3, <1>4 DEF Event, Frames, FrameOf, Records, RecordOf
<1>6. /\ Sends(conn, frame) = [conn EXCEPT !.frames = frames]
      /\ frames \in Seq(Frames)
      /\ \A i \in 1..Len(frames) : FrameOf(frames[i], r, runs[r], own)
  BY <1>2, <1>5, SendsFrame DEF Serves
<1>7. conn' = [conn EXCEPT !.frames = frames, !.queue = rest, !.eventId = record.id]
  BY <1>1, <1>2, <1>6 DEF Connections, rest
<1> HIDE DEF frames, frame
<1>8. /\ conn' \in Connections
      /\ conn'.queue = rest /\ conn'.stream = conn.stream /\ conn'.run = conn.run
      /\ conn'.phase = conn.phase /\ conn'.eventId = record.id /\ conn'.frames = frames
      /\ conn'.lastEventId = conn.lastEventId
  BY <1>2, <1>3, <1>6, <1>7 DEF Connections, Records
<1>9. \A i \in 1..Len(rest) : RecordOf(rest[i], r, runs[r], own)
  BY <1>2, <1>3 DEF Serves
<1>10. own => record.id <= runs[r].made BY <1>4 DEF RecordOf
<1>11. Serves(conn', r, runs[r], own) BY <1>1, <1>2, <1>6, <1>8, <1>9, <1>10 DEF Serves
<1>12. QED BY <1>1, <1>8, <1>11, ResponseInv DEF own

\* SendEnd: only the end of a completed stream says so, and under its last number.
LEMMA SendEndInv == ASSUME IInv, SendEnd PROVE IInv'
<1> DEFINE r == heard.request
           own == Alone(heard.request)
           state == streams[conn.stream]
           frame == EndFrame
           frames == Append(conn.frames, frame)
<1>1. /\ conn # None /\ (conn.phase = "rejected" \/ conn.phase = "reading")
      /\ conn' = [Sends(conn, frame) EXCEPT !.phase = "over"]
      /\ UNCHANGED <<streams, runs, chat, saved, heard>>
  BY DEF SendEnd, Pulled, Connected, AtEnd, Put
<1>2. conn \in Connections /\ Serves(conn, r, runs[r], own) /\ runs[r] \in Drains
  BY <1>1, Serving
<1>3. state \in Kept /\ (own => Holds(state, runs[r], r)) /\ runs[r].made \in Nat
  BY <1>1, <1>2, ServedStream DEF Drains
<1>4. Len(state.records) \in Nat /\ conn.eventId \in Nat
  BY <1>2, <1>3 DEF Kept, Connections
<1> HIDE DEF own
<1>5. frame \in Frames /\ FrameOf(frame, r, runs[r], own)
  <2>1. CASE conn.phase = "rejected"
    BY <2>1 DEF EndFrame, End, Frames, FrameOf
  <2>2. CASE conn.phase = "reading"
    <3> DEFINE last == IF lastEventId(state) > conn.eventId THEN lastEventId(state)
                       ELSE conn.eventId
               status == IF Running(state) THEN "error" ELSE state.status
    <3>1. frame = [type |-> "stream_end", id |-> last, status |-> status]
      BY <2>2 DEF EndFrame, End
    <3>2. last \in Nat BY <1>4 DEF lastEventId
    <3>3. status \in {"missing", "completed", "error"} BY <1>3 DEF Kept, Running
    <3>4. ASSUME own, status = "completed"
          PROVE  runs[r].phase = "completed" /\ last = runs[r].made
      <4>1. state.status = "completed" BY <3>4 DEF Running
      <4>2. Len(state.records) = runs[r].made /\ runs[r].phase = "completed"
        BY <1>3, <3>4, <4>1 DEF Holds
      <4>3. conn.eventId <= runs[r].made BY <1>2, <3>4 DEF Serves
      <4>4. QED BY <1>4, <4>2, <4>3 DEF lastEventId
    <3> HIDE DEF frame, last, status
    <3>5. frame \in Frames BY <3>1, <3>2, <3>3 DEF Frames
    <3>6. QED BY <3>1, <3>4, <3>5 DEF FrameOf
  <2>3. QED BY <1>1, <2>1, <2>2
<1> HIDE DEF frame
<1>6. /\ Sends(conn, frame) = [conn EXCEPT !.frames = frames]
      /\ frames \in Seq(Frames)
      /\ \A i \in 1..Len(frames) : FrameOf(frames[i], r, runs[r], own)
  BY <1>2, <1>5, SendsFrame DEF Serves
<1> HIDE DEF frames
<1>7. /\ conn' \in Connections
      /\ conn'.queue = conn.queue /\ conn'.stream = conn.stream /\ conn'.run = conn.run
      /\ conn'.phase = "over" /\ conn'.eventId = conn.eventId /\ conn'.frames = frames
      /\ conn'.lastEventId = conn.lastEventId
  BY <1>1, <1>2, <1>6 DEF Connections
<1>8. Serves(conn', r, runs[r], own) BY <1>1, <1>2, <1>6, <1>7 DEF Serves
<1>9. QED BY <1>1, <1>7, <1>8, ResponseInv DEF own

-----------------------------------------------------------------------------
(* The chat.                                                                *)

\* What a step of the chat leaves alone.
LEMMA ChatQuiet ==
  ASSUME IInv, UNCHANGED <<streams, runs>>
  PROVE  StreamsHold' /\ RunsHold' /\ \A r \in Runs : Alone(r)' = Alone(r)
<1>1. StreamsHold' BY DEF IInv, StreamsHold
<1>2. \A r \in Runs : Alone(r)' = Alone(r) BY DEF Alone
<1>3. RunsHold' BY <1>2 DEF IInv, RunsHold, RunHolds
<1>4. QED BY <1>1, <1>2, <1>3

\* Messages that are in order stay so when the next event is applied.
LEMMA SortedAppend ==
  ASSUME NEW m \in Seq(Nat), NEW last \in Nat, Sorted(m, last)
  PROVE  /\ Append(m, last + 1) \in Seq(Nat)
         /\ Sorted(Append(m, last + 1), last + 1)
         /\ Sorted(m, last + 1)
<1> DEFINE n == Append(m, last + 1)
<1>1. /\ n \in Seq(Nat) /\ Len(n) = Len(m) + 1
      /\ \A i \in 1..Len(m) : n[i] = m[i]
      /\ n[Len(m) + 1] = last + 1
  BY AppendProperties
<1>2. DOMAIN m = 1..Len(m) /\ DOMAIN n = 1..(Len(m) + 1) /\ Len(m) \in Nat BY <1>1
<1>3. \A i \in 1..Len(m) : m[i] \in Nat /\ m[i] <= last BY <1>2 DEF Sorted
<1> HIDE DEF n
<1>4. ASSUME NEW i \in DOMAIN n, NEW j \in DOMAIN n, i < j PROVE n[i] < n[j]
  <2>1. i \in 1..Len(m) BY <1>2, <1>4
  <2>2. CASE j = Len(m) + 1 BY <1>1, <1>3, <2>1, <2>2
  <2>3. CASE j # Len(m) + 1
    <3>1. j \in 1..Len(m) BY <1>2, <2>3
    <3>2. m[i] < m[j] BY <1>2, <1>4, <2>1, <3>1 DEF Sorted, InOrder
    <3>3. QED BY <1>1, <2>1, <3>1, <3>2
  <2>4. QED BY <2>2, <2>3
<1>5. ASSUME NEW i \in DOMAIN n PROVE n[i] <= last + 1
  <2>1. CASE i = Len(m) + 1 BY <1>1, <2>1
  <2>2. CASE i # Len(m) + 1
    <3>1. i \in 1..Len(m) BY <1>2, <2>2
    <3>2. QED BY <1>1, <1>3, <3>1
  <2>3. QED BY <2>1, <2>2
<1>6. Sorted(n, last + 1) BY <1>4, <1>5 DEF Sorted, InOrder
<1>7. Sorted(m, last + 1)
  <2>1. \A i \in DOMAIN m : m[i] <= last + 1 BY <1>2, <1>3
  <2>2. QED BY <2>1 DEF Sorted
<1>8. QED BY <1>1, <1>6, <1>7 DEF n

\* React: what is rendered, and what comes back from it, are messages that were shown before.
LEMMA ReactInv == ASSUME IInv, Commit \/ Flush PROVE IInv'
<1>1. /\ UNCHANGED <<streams, runs, conn, saved, heard>>
      /\ \/ chat' = [chat EXCEPT !.applied = flushed, !.rendered = chat.latest,
                                 !.queued = FALSE, !.effect = TRUE]
         \/ chat' = [chat EXCEPT !.applied = flushed, !.effect = FALSE]
  BY DEF Commit, Flush, Server
<1>2. chat \in Chats BY DEF IInv, Typed
<1>3. flushed \in Seq(Nat) /\ Sorted(flushed, Heard)
  BY <1>2 DEF IInv, Shown, flushed, Chats
<1> HIDE DEF flushed
<1>4. /\ chat' \in Chats /\ chat'.request = chat.request /\ chat'.lastEventId = chat.lastEventId
      /\ chat'.applied = flushed /\ chat'.latest = chat.latest
      /\ chat'.rendered \in {chat.latest, chat.rendered}
  BY <1>1, <1>2, <1>3 DEF Chats
<1>5. StreamsHold' /\ RunsHold' BY <1>1, ChatQuiet
<1>6. ConnServes'
  <2>1. heard' = heard /\ runs' = runs /\ conn' = conn BY <1>1
  <2>2. Alone(heard.request)' = Alone(heard.request) BY <2>1 DEF Alone
  <2>3. QED BY <1>4, <2>1, <2>2 DEF IInv, ConnServes, Heard
<1>7. SavedHolds' /\ HeardHolds'
  BY <1>1 DEF IInv, SavedHolds, HeardHolds, Heard, Alone
<1>8. Shown' BY <1>1, <1>3, <1>4 DEF IInv, Shown, Heard
<1>9. Typed' BY <1>1, <1>4 DEF IInv, Typed
<1>10. QED BY <1>5, <1>6, <1>7, <1>8, <1>9 DEF IInv

\* A connection that was just opened.
LEMMA NewConnection ==
  ASSUME NEW run \in {0} \cup Runs, NEW r \in Runs, NEW stream \in {0} \cup Streams,
         NEW after \in Nat, NEW known, NEW own,
         known.stream = stream, own => after <= known.made,
         run # 0 => run = r /\ known.phase = "sent",
         run = 0 => stream # 0
  PROVE  LET c == Connection(run, stream, after) IN
         c \in Connections /\ c # None /\ Serves(c, r, known, own) /\ c.lastEventId = after
<1>1. Connection(run, stream, after) \in Connections
  BY DEF Connection, Connections
<1>2. Serves(Connection(run, stream, after), r, known, own) BY DEF Connection, Serves
<1>3. QED BY <1>1, <1>2 DEF Connection, None

\* sendMessage(r).
LEMMA SendMessageInv == ASSUME IInv, NEW r \in Runs, sendMessage(r) PROVE IInv'
<1>1. /\ runs[r].phase = "none"
      /\ runs' = [runs EXCEPT ![r].phase = "sent"]
      /\ conn' = Connection(r, 0, 0)
      /\ chat' = [chat EXCEPT !.status = "submitted", !.request = r, !.lastEventId = 0,
                              !.rendered = <<>>, !.applied = <<>>, !.latest = <<>>,
                              !.queued = TRUE]
      /\ saved' = None /\ heard' = [request |-> r, events |-> <<>>, whole |-> FALSE]
      /\ UNCHANGED streams
  <2>1. chat \in Chats BY DEF IInv, Typed
  <2>2. QED BY <2>1 DEF sendMessage, updateMessages, Hearing, Chats
<1>2. runs[r] \in Drains /\ RunHolds(r) BY DEF IInv, Typed, RunsHold
<1>3. /\ runs'[r].phase = "sent" /\ runs'[r].made = 0 /\ runs'[r].stream = 0
      /\ Advances(r)
  <2>1. runs \in [Runs -> Drains] BY DEF IInv, Typed
  <2>2. [runs[r] EXCEPT !.phase = "sent"] \in Drains BY <1>2 DEF Drains, RunPhases
  <2>3. runs[r].made = 0 /\ runs[r].stream = 0 BY <1>1, <1>2 DEF RunHolds
  <2>4. runs' \in [Runs -> Drains] /\ (\A q \in Runs \ {r} : runs'[q] = runs[q])
        /\ runs'[r] = [runs[r] EXCEPT !.phase = "sent"]
    BY <1>1, <2>1, <2>2
  <2>5. runs'[r].phase = "sent" /\ runs'[r].made = 0 /\ runs'[r].stream = 0
    BY <1>2, <2>3, <2>4 DEF Drains
  <2>6. QED BY <1>1, <2>3, <2>4, <2>5 DEF Advances
<1>4. RunsHold'
  <2> SUFFICES ASSUME NEW q \in Runs PROVE RunHolds(q)' BY DEF RunsHold
  <2>1. CASE q = r BY <1>3, <2>1 DEF RunHolds
  <2>2. CASE q # r
    <3>1. runs'[q] = runs[q] /\ RunHolds(q) BY <1>3, <2>2 DEF Advances, IInv, RunsHold
    <3>2. Alone(q)' => Alone(q) BY <1>3, AdvancesOnly DEF IInv
    <3>3. QED BY <1>1, <3>1, <3>2 DEF RunHolds
  <2>3. QED BY <2>1, <2>2
<1>5. StreamsHold'
  <2>1. \A q \in Runs : runs'[q].phase = "draining" => q # r /\ runs'[q] = runs[q]
    BY <1>3 DEF Advances
  <2>2. \A q \in Runs : runs[q].phase = "draining" => q # r /\ runs'[q] = runs[q]
    BY <1>1, <1>3 DEF Advances
  <2>3. \A t \in Streams : streams[t].status = "running" =>
           \E q \in Runs : runs'[q].phase = "draining" /\ runs'[q].stream = t
    <3> SUFFICES ASSUME NEW t \in Streams, streams[t].status = "running"
                 PROVE  \E q \in Runs : runs'[q].phase = "draining" /\ runs'[q].stream = t
      OBVIOUS
    <3>1. PICK q \in Runs : runs[q].phase = "draining" /\ runs[q].stream = t
      BY DEF IInv, StreamsHold
    <3>2. QED BY <2>2, <3>1
  <2>4. \A q, z \in Runs :
          runs'[q].phase = "draining" /\ runs'[z].phase = "draining"
          /\ runs'[q].stream = runs'[z].stream => q = z
    BY <2>1 DEF IInv, StreamsHold
  <2>5. /\ \A t \in Streams : \A i \in 1..Len(streams[t].records) : streams[t].records[i].n = i
        /\ \A t \in Streams : streams[t].status = "missing" => streams[t].records = <<>>
    BY DEF IInv, StreamsHold
  <2>6. QED BY <1>1, <2>3, <2>4, <2>5 DEF StreamsHold
<1>6. heard'.request = r /\ heard'.events = <<>> /\ ~heard'.whole /\ heard' \in Hearings
      /\ Heard' = 0
  BY <1>1 DEF Heard, Hearings
<1>7. conn' \in Connections /\ conn'.lastEventId = 0
      /\ Serves(conn', r, runs'[r], Alone(heard.request)')
  <2> DEFINE known == runs'[r]
             own == Alone(heard.request)'
  <2>1. known.stream = 0 /\ 0 <= known.made /\ known.phase = "sent" BY <1>3
  <2> HIDE DEF known, own
  <2>2. conn' \in Connections /\ conn'.lastEventId = 0 /\ Serves(conn', r, known, own)
    <3>1. r \in {0} \cup Runs /\ r # 0 /\ 0 \in {0} \cup Streams /\ 0 \in Nat BY RunsPositive
    <3>2. QED BY <1>1, <2>1, <3>1, NewConnection
  <2>3. QED BY <2>2 DEF known, own
<1>8. /\ chat' \in Chats /\ chat'.request = r /\ chat'.lastEventId = 0
      /\ chat'.applied = <<>> /\ chat'.latest = <<>> /\ chat'.rendered = <<>>
  <2>1. chat \in Chats BY DEF IInv, Typed
  <2>2. <<>> \in Seq(Nat) BY SortedNone
  <2>3. QED BY <1>1, <2>1, <2>2 DEF Chats
<1>9. Typed' BY <1>1, <1>3, <1>6, <1>7, <1>8 DEF IInv, Typed, Advances
<1>10. ConnServes' BY <1>6, <1>7, <1>8 DEF ConnServes
<1>11. SavedHolds' BY <1>1 DEF SavedHolds
<1>12. HeardHolds' BY <1>3, <1>6 DEF HeardHolds
<1>13. Shown' BY <1>8, SortedNone DEF Shown
<1>14. QED BY <1>4, <1>5, <1>9, <1>10, <1>11, <1>12, <1>13 DEF IInv


\* resume(): what was saved tells of the events that were heard.
LEMMA ResumeInv == ASSUME IInv, resume PROVE IInv'
<1> DEFINE r == heard.request
<1>1. /\ saved # None
      /\ conn' = Connection(0, saved.stream, saved.lastEventId)
      /\ chat' = [chat EXCEPT !.status = "submitted", !.request = saved.request,
                              !.lastEventId = saved.lastEventId, !.applied = saved.applied,
                              !.latest = saved.applied, !.queued = TRUE]
      /\ UNCHANGED <<streams, runs, saved, heard>>
  <2>1. chat \in Chats BY DEF IInv, Typed
  <2>2. QED BY <2>1 DEF resume, updateMessages, Server, Chats
<1>2. /\ saved \in ResumeStates /\ saved.request = r /\ saved.stream = runs[r].stream
      /\ saved.lastEventId = Heard /\ Sorted(saved.applied, Heard)
  BY <1>1 DEF IInv, Typed, SavedHolds
<1>3. /\ r \in Runs /\ saved.stream \in Streams /\ saved.stream # 0 /\ Heard \in Nat
      /\ saved.applied \in Seq(Nat)
  BY <1>2, RunsPositive DEF ResumeStates
<1>4. ~heard.whole /\ (Alone(heard.request) => Heard <= runs[r].made)
  <2>1. r # 0 BY <1>3, RunsPositive
  <2>2. QED BY <1>1, <2>1 DEF IInv, HeardHolds
<1>5. /\ conn' \in Connections /\ conn'.lastEventId = Heard
      /\ Serves(conn', r, runs[r], Alone(heard.request))
  <2> DEFINE known == runs[r]
             own == Alone(heard.request)
             who == r
             last == Heard
             stream == saved.stream
  <2>1. /\ known.stream = stream /\ (own => last <= known.made) /\ who \in Runs
        /\ stream \in {0} \cup Streams /\ stream # 0 /\ last \in Nat /\ 0 \in {0} \cup Runs
        /\ conn' = Connection(0, stream, last)
    BY <1>1, <1>2, <1>3, <1>4
  <2> HIDE DEF known, own, who, last, stream
  <2>2. conn' \in Connections /\ conn'.lastEventId = last /\ Serves(conn', who, known, own)
    BY <2>1, NewConnection
  <2>3. QED BY <2>2 DEF known, own, who, last
<1>6. /\ chat' \in Chats /\ chat'.request = r /\ chat'.lastEventId = Heard
      /\ chat'.applied = saved.applied /\ chat'.latest = saved.applied
      /\ chat'.rendered = chat.rendered
  <2>1. chat \in Chats BY DEF IInv, Typed
  <2>2. QED BY <1>1, <1>2, <1>3, <2>1 DEF Chats
<1>7. StreamsHold' /\ RunsHold' BY <1>1, ChatQuiet
<1>8. ConnServes'
  <2>1. heard' = heard /\ runs' = runs BY <1>1
  <2>2. Alone(heard.request)' = Alone(heard.request) BY <2>1 DEF Alone
  <2>3. QED BY <1>3, <1>5, <1>6, <2>1, <2>2 DEF ConnServes, Heard
<1>9. SavedHolds' BY <1>1 DEF IInv, SavedHolds, Heard
<1>10. HeardHolds' BY <1>1, <1>4 DEF IInv, HeardHolds, Heard, Alone
<1>11. Shown' BY <1>1, <1>2, <1>6 DEF IInv, Shown, Heard
<1>12. Typed' BY <1>1, <1>5, <1>6 DEF IInv, Typed
<1>13. QED BY <1>7, <1>8, <1>9, <1>10, <1>11, <1>12 DEF IInv

\* A chat whose connection is gone shows what it has shown.
LEMMA DisconnectInv ==
  ASSUME IInv, UNCHANGED <<streams, runs, heard>>, conn' = None, saved' \in {saved, None},
         chat' \in Chats, chat'.applied = chat.applied, chat'.latest = chat.latest,
         chat'.rendered = chat.rendered
  PROVE  IInv'
<1>1. StreamsHold' /\ RunsHold' BY ChatQuiet
<1>2. SavedHolds' BY DEF IInv, SavedHolds, Heard
<1>3. HeardHolds' BY DEF IInv, HeardHolds, Heard, Alone
<1>4. Shown' BY DEF IInv, Shown, Heard
<1>5. Typed' BY DEF IInv, Typed
<1>6. QED BY <1>1, <1>2, <1>3, <1>4, <1>5 DEF IInv, ConnServes

\* reload, stop, LoseConnection.
LEMMA BreakInv == ASSUME IInv, reload \/ stop \/ LoseConnection PROVE IInv'
<1>1. chat \in Chats BY DEF IInv, Typed
<1>2. CASE reload
  <2>1. /\ UNCHANGED <<streams, runs, saved>> /\ conn' = None /\ chat' = Idle
        /\ heard' = IF saved = None THEN Hearing(0) ELSE heard
    BY <1>2 DEF reload, Server
  <2>2. /\ chat' \in Chats /\ chat'.applied = <<>> /\ chat'.latest = <<>>
        /\ chat'.rendered = <<>>
    BY <2>1, SortedNone DEF Idle, Chats
  <2>3. StreamsHold' /\ RunsHold' BY <2>1, ChatQuiet
  <2>4. Shown' BY <2>2, SortedNone DEF Shown
  <2>5. CASE saved = None
    <3>1. heard' \in Hearings /\ HeardHolds' BY <2>1, <2>5 DEF Hearing, Hearings, HeardHolds, Heard
    <3>2. Typed' BY <2>1, <2>2, <2>5, <3>1 DEF IInv, Typed
    <3>3. QED BY <2>1, <2>3, <2>4, <2>5, <3>1, <3>2 DEF IInv, ConnServes, SavedHolds
  <2>6. CASE saved # None
    <3>1. heard' = heard BY <2>1, <2>6
    <3>2. HeardHolds' BY <2>1, <3>1 DEF IInv, HeardHolds, Heard, Alone
    <3>3. SavedHolds' BY <2>1, <3>1 DEF IInv, SavedHolds, Heard
    <3>4. Typed' BY <2>1, <2>2, <3>1 DEF IInv, Typed
    <3>5. QED BY <2>1, <2>3, <2>4, <3>2, <3>3, <3>4 DEF IInv, ConnServes
  <2>7. QED BY <2>5, <2>6
<1>3. CASE stop
  <2>1. /\ UNCHANGED <<streams, runs, heard>> /\ conn' = None /\ saved' = None
        /\ chat' = [chat EXCEPT !.status = "ready", !.lastEventId = 0]
    BY <1>3 DEF stop, Server
  <2>2. /\ chat' \in Chats /\ chat'.applied = chat.applied /\ chat'.latest = chat.latest
        /\ chat'.rendered = chat.rendered
    BY <1>1, <2>1 DEF Chats
  <2>3. QED BY <2>1, <2>2, DisconnectInv
<1>4. CASE LoseConnection
  <2>1. /\ UNCHANGED <<streams, runs, heard, saved>> /\ conn' = None
        /\ chat' = [chat EXCEPT !.status = "error"]
    BY <1>4 DEF LoseConnection, Fails, Server
  <2>2. /\ chat' \in Chats /\ chat'.applied = chat.applied /\ chat'.latest = chat.latest
        /\ chat'.rendered = chat.rendered
    BY <1>1, <2>1 DEF Chats
  <2>3. QED BY <2>1, <2>2, DisconnectInv
<1>5. QED BY <1>2, <1>3, <1>4

\* The frame that is taken, and what is left of those in flight.
LEMMA Received ==
  ASSUME IInv, conn # None, conn.frames # <<>>
  PROVE  LET r == heard.request
             c == [conn EXCEPT !.frames = Tail(conn.frames)]
         IN  /\ c \in Connections /\ Serves(c, r, runs[r], Alone(heard.request))
             /\ Head(conn.frames) \in Frames
             /\ FrameOf(Head(conn.frames), r, runs[r], Alone(heard.request))
             /\ c.lastEventId = conn.lastEventId /\ c.stream = conn.stream
             /\ conn.stream \in Streams
<1> DEFINE r == heard.request
           own == Alone(heard.request)
           rest == Tail(conn.frames)
           c == [conn EXCEPT !.frames = rest]
<1>1. conn \in Connections /\ Serves(conn, r, runs[r], own) BY Serving
<1>2. /\ Head(conn.frames) \in Frames /\ Head(conn.frames) = conn.frames[1]
      /\ 1 \in 1..Len(conn.frames) /\ rest \in Seq(Frames)
      /\ \A i \in 1..Len(rest) : rest[i] = conn.frames[i + 1] /\ i + 1 \in 1..Len(conn.frames)
  <2>1. conn.frames \in Seq(Frames) BY <1>1 DEF Connections
  <2>2. SUFFICES ASSUME NEW s \in Seq(Frames), s # <<>>
                 PROVE  /\ Head(s) \in Frames /\ Head(s) = s[1] /\ 1 \in 1..Len(s)
                        /\ Tail(s) \in Seq(Frames)
                        /\ \A i \in 1..Len(Tail(s)) : Tail(s)[i] = s[i + 1] /\ i + 1 \in 1..Len(s)
    BY <2>1
  <2>3. Len(s) \in Nat /\ Len(s) # 0 BY <2>2
  <2>4. /\ Head(s) \in Frames /\ Tail(s) \in Seq(Frames) /\ Len(Tail(s)) = Len(s) - 1
        /\ \A i \in 1..Len(Tail(s)) : Tail(s)[i] = s[i + 1]
    BY <2>2, HeadTailProperties
  <2>5. Head(s) = s[1] OBVIOUS
  <2>6. QED BY <2>3, <2>4, <2>5
<1> HIDE DEF rest, own
<1>3. /\ c \in Connections /\ c.stream = conn.stream /\ c.run = conn.run /\ c.phase = conn.phase
      /\ c.eventId = conn.eventId /\ c.queue = conn.queue /\ c.frames = rest
      /\ c.lastEventId = conn.lastEventId
  BY <1>1, <1>2 DEF Connections
<1>4. \A i \in 1..Len(rest) : FrameOf(rest[i], r, runs[r], own)
  BY <1>1, <1>2 DEF Serves
<1>5. Serves(c, r, runs[r], own)
  <2>1. c.run # 0 => c.phase # "requested" BY <1>1, <1>3 DEF Serves
  <2>2. QED BY <1>1, <1>3, <1>4, <2>1 DEF Serves
<1>6. FrameOf(Head(conn.frames), r, runs[r], own) BY <1>1, <1>2 DEF Serves
<1>7. conn.stream \in Streams
  <2>1. conn.stream # 0 BY <1>1 DEF Serves
  <2>2. QED BY <1>1, <2>1 DEF Connections
<1>8. QED BY <1>2, <1>3, <1>5, <1>6, <1>7 DEF rest, own

\* What persistResumeState() keeps of a chat.
LEMMA Persisted ==
  ASSUME IInv, conn # None, conn.frames # <<>>, NEW known \in Chats,
         known.request = heard.request
  PROVE  LET kept == persistResumeState(known) IN
         /\ kept \in ResumeStates /\ kept.request = heard.request
         /\ kept.stream = runs[heard.request].stream
         /\ kept.lastEventId = known.lastEventId /\ kept.applied = known.applied
<1>1. conn.stream \in Streams /\ heard.request \in Runs
      /\ conn.stream = runs[heard.request].stream
  BY Received, Serving DEF Serves
<1>2. QED BY <1>1 DEF persistResumeState, ResumeStates, Chats

\* A start frame: the chat knows the id of its stream now.
LEMMA TakeStartInv ==
  ASSUME IInv, conn # None, conn.frames # <<>>, UNCHANGED <<streams, runs>>,
         TakeStart([conn EXCEPT !.frames = Tail(conn.frames)])
  PROVE  IInv'
<1> DEFINE r == heard.request
           own == Alone(heard.request)
           c == [conn EXCEPT !.frames = Tail(conn.frames)]
<1>1. /\ conn' = [c EXCEPT !.started = TRUE] /\ saved' = persistResumeState(chat)
      /\ UNCHANGED <<streams, runs, chat, heard>>
  BY DEF TakeStart
<1>2. /\ conn \in Connections /\ r \in Runs /\ chat.request = r /\ chat \in Chats
      /\ c \in Connections /\ Serves(c, r, runs[r], own)
      /\ c.lastEventId = Heard /\ chat.lastEventId = Heard
  BY Serving, Received DEF IInv, Typed
<1> HIDE DEF c, own
<1>3. /\ conn' \in Connections
      /\ conn'.queue = c.queue /\ conn'.stream = c.stream /\ conn'.run = c.run
      /\ conn'.phase = c.phase /\ conn'.eventId = c.eventId /\ conn'.frames = c.frames
      /\ conn'.lastEventId = c.lastEventId
  BY <1>1, <1>2 DEF Connections
<1>4. Serves(conn', r, runs[r], own) BY <1>2, <1>3 DEF Serves
<1>5. /\ saved' \in ResumeStates /\ saved'.request = r /\ saved'.stream = runs[r].stream
      /\ saved'.lastEventId = chat.lastEventId /\ saved'.applied = chat.applied
  BY <1>1, <1>2, Persisted
<1>6. StreamsHold' /\ RunsHold' BY <1>1, ChatQuiet
<1>7. heard' = heard /\ runs' = runs /\ Alone(heard.request)' = own BY <1>1 DEF Alone, own
<1>8. ConnServes' BY <1>1, <1>2, <1>3, <1>4, <1>7 DEF ConnServes, Heard
<1>9. SavedHolds' BY <1>1, <1>2, <1>5 DEF IInv, SavedHolds, Shown, Heard
<1>10. HeardHolds'
  <2>1. ~heard.whole BY DEF IInv, HeardHolds
  <2>2. QED BY <1>1, <1>7, <2>1 DEF IInv, HeardHolds, Heard, own
<1>11. Shown' BY <1>1 DEF IInv, Shown, Heard
<1>12. Typed' BY <1>1, <1>3, <1>5 DEF IInv, Typed
<1>13. QED BY <1>6, <1>8, <1>9, <1>10, <1>11, <1>12 DEF IInv

\* What is heard next: the events stay numbered.
LEMMA HeardNext ==
  ASSUME NEW events \in Seq(Pieces), NEW e \in Pieces, e.n = Len(events) + 1,
         \A i \in 1..Len(events) : events[i].n = i
  PROVE  LET later == Append(events, e) IN
         /\ later \in Seq(Pieces) /\ Len(later) = Len(events) + 1
         /\ \A i \in 1..Len(later) : later[i].n = i
         /\ \A r : e.run = r /\ (\A i \in 1..Len(events) : events[i].run = r)
                     => \A i \in 1..Len(later) : later[i].run = r
<1> DEFINE later == Append(events, e)
<1>1. /\ later \in Seq(Pieces) /\ Len(later) = Len(events) + 1
      /\ \A i \in 1..Len(events) : later[i] = events[i]
      /\ later[Len(events) + 1] = e
      /\ Len(events) \in Nat
  BY AppendProperties
<1> HIDE DEF later
<1>2. ASSUME NEW i \in 1..Len(later)
      PROVE  \/ later[i] = e /\ i = Len(events) + 1
             \/ i \in 1..Len(events) /\ later[i] = events[i]
  BY <1>1
<1>3. QED BY <1>1, <1>2 DEF later

\* An event frame: the next event is heard, applied and saved.
LEMMA TakeEventInv ==
  ASSUME IInv, conn # None, conn.frames # <<>>, UNCHANGED <<streams, runs>>,
         Valid(Head(conn.frames)), Head(conn.frames).type = "stream_event",
         TakeEvent([conn EXCEPT !.frames = Tail(conn.frames)], Head(conn.frames))
  PROVE  IInv'
<1> DEFINE r == heard.request
           own == Alone(heard.request)
           frame == Head(conn.frames)
           c == [conn EXCEPT !.frames = Tail(conn.frames)]
           applied == Append(chat.applied, frame.id)
           events == Append(heard.events, frame.event)
<1>1. /\ conn \in Connections /\ r \in Runs /\ chat.request = r /\ chat \in Chats
      /\ c \in Connections /\ Serves(c, r, runs[r], own)
      /\ frame \in Frames /\ FrameOf(frame, r, runs[r], own)
      /\ conn.lastEventId = Heard /\ heard \in Hearings /\ runs[r] \in Drains
  BY Serving, Received DEF IInv, Typed
<1>2. /\ conn' = [c EXCEPT !.lastEventId = frame.id]
      /\ chat' = [chat EXCEPT !.lastEventId = frame.id, !.status = "streaming",
                              !.applied = applied, !.latest = applied, !.queued = TRUE]
      /\ saved' = persistResumeState(chat')
      /\ heard' = [heard EXCEPT !.events = events]
  BY <1>1 DEF TakeEvent, applyEvent, updateMessages, Chats, Hearings
<1>3. /\ frame.id = Heard + 1 /\ frame.event \in Pieces /\ Heard \in Nat
      /\ frame.event.n = frame.id
      /\ own => frame.event.run = r /\ frame.id <= runs[r].made
  <2>1. Heard \in Nat BY <1>1 DEF Hearings, Heard
  <2>2. frame.event \in Pieces BY <1>1 DEF Frames
  <2>3. frame.id = conn.lastEventId + 1 BY <1>1 DEF Valid
  <2>4. frame.id = Heard + 1 BY <1>1, <2>3
  <2> HIDE DEF own, frame
  <2>5. RecordOf(frame, r, runs[r], own) BY <1>1 DEF FrameOf, frame
  <2>6. QED BY <2>1, <2>2, <2>4, <2>5 DEF RecordOf
<1>4. /\ applied \in Seq(Nat) /\ Sorted(applied, Heard + 1)
      /\ Sorted(chat.rendered, Heard + 1)
  <2>1. /\ chat.applied \in Seq(Nat) /\ Sorted(chat.applied, Heard)
        /\ chat.rendered \in Seq(Nat) /\ Sorted(chat.rendered, Heard)
    BY <1>1 DEF IInv, Shown, Chats
  <2>2. QED BY <1>3, <2>1, SortedAppend
<1>5. /\ events \in Seq(Pieces) /\ Len(events) = Heard + 1
      /\ \A i \in 1..Len(events) : events[i].n = i
      /\ own => \A i \in 1..Len(events) : events[i].run = r
  <2>1. heard.events \in Seq(Pieces) /\ \A i \in 1..Len(heard.events) : heard.events[i].n = i
    BY <1>1 DEF IInv, HeardHolds, Hearings, Heard
  <2>2. own => \A i \in 1..Len(heard.events) : heard.events[i].run = r
    <3>1. r # 0 BY <1>1, RunsPositive
    <3>2. QED BY <3>1 DEF IInv, HeardHolds, Heard
  <2>3. frame.event.n = Len(heard.events) + 1 BY <1>3 DEF Heard
  <2> DEFINE e == frame.event
             said == heard.events
             who == r
  <2>4. /\ e \in Pieces /\ e.n = Len(said) + 1 /\ said \in Seq(Pieces)
        /\ \A i \in 1..Len(said) : said[i].n = i
        /\ own => e.run = who /\ \A i \in 1..Len(said) : said[i].run = who
    BY <1>3, <2>1, <2>2, <2>3
  <2> HIDE DEF e, said, who, own
  <2>5. /\ Append(said, e) \in Seq(Pieces) /\ Len(Append(said, e)) = Len(said) + 1
        /\ \A i \in 1..Len(Append(said, e)) : Append(said, e)[i].n = i
        /\ own => \A i \in 1..Len(Append(said, e)) : Append(said, e)[i].run = who
    BY <2>4, HeardNext
  <2>6. QED BY <2>5 DEF e, said, who, Heard
<1> HIDE DEF applied, events, c, frame, own
<1>6. /\ conn' \in Connections
      /\ conn'.queue = c.queue /\ conn'.stream = c.stream /\ conn'.run = c.run
      /\ conn'.phase = c.phase /\ conn'.eventId = c.eventId /\ conn'.frames = c.frames
      /\ conn'.lastEventId = Heard + 1
  <2> DEFINE n == frame.id
  <2>1. conn' = [c EXCEPT !.lastEventId = n] /\ n \in Nat /\ n = Heard + 1 BY <1>2, <1>3
  <2> HIDE DEF n
  <2>2. QED BY <1>1, <2>1 DEF Connections
<1>7. Serves(conn', r, runs[r], own) BY <1>1, <1>6 DEF Serves
<1>8. /\ chat' \in Chats /\ chat'.request = r /\ chat'.lastEventId = Heard + 1
      /\ chat'.applied = applied /\ chat'.latest = applied /\ chat'.rendered = chat.rendered
  <2> DEFINE n == frame.id
  <2>1. /\ chat' = [chat EXCEPT !.lastEventId = n, !.status = "streaming",
                                !.applied = applied, !.latest = applied, !.queued = TRUE]
        /\ n \in Nat /\ n = Heard + 1 /\ applied \in Seq(Nat)
    BY <1>2, <1>3, <1>4
  <2> HIDE DEF n
  <2>2. QED BY <1>1, <2>1 DEF Chats
<1>9. /\ heard' \in Hearings /\ heard'.request = r /\ heard'.events = events
      /\ heard'.whole = heard.whole
  BY <1>1, <1>2, <1>5 DEF Hearings
<1>10. Heard' = Heard + 1 BY <1>5, <1>9 DEF Heard
<1>11. /\ saved' \in ResumeStates /\ saved'.request = r /\ saved'.stream = runs[r].stream
       /\ saved'.lastEventId = Heard + 1 /\ saved'.applied = applied
  <2>1. PICK known \in Chats : known = chat' BY <1>8
  <2>2. known.request = heard.request BY <1>8, <2>1
  <2>3. saved' = persistResumeState(known) BY <1>2, <2>1
  <2>4. QED BY <1>8, <2>1, <2>2, <2>3, Persisted
<1>12. StreamsHold' /\ RunsHold' BY ChatQuiet
<1>13. runs' = runs /\ Alone(heard.request)' = own
  <2>1. PICK x \in Runs : x = heard.request BY <1>1
  <2>2. Alone(heard.request)' = Alone(x)' BY <1>9, <2>1
  <2>3. Alone(x)' = Alone(x) BY ChatQuiet
  <2>4. QED BY <2>1, <2>2, <2>3 DEF own
<1>14. ConnServes'
  <2>1. conn'.lastEventId = Heard' /\ chat'.lastEventId = Heard' BY <1>6, <1>8, <1>10
  <2>2. Serves(conn', heard'.request, runs'[heard'.request], Alone(heard.request)')
    BY <1>7, <1>9, <1>13
  <2>3. QED BY <1>1, <1>8, <1>9, <2>1, <2>2 DEF ConnServes
<1>15. SavedHolds' BY <1>4, <1>9, <1>10, <1>11, <1>13 DEF SavedHolds
<1>16. HeardHolds'
  <2>1. ~heard.whole BY DEF IInv, HeardHolds
  <2>2. \A i \in 1..Heard' : heard'.events[i].n = i BY <1>5, <1>9 DEF Heard
  <2>3. own => \A i \in 1..Heard' : heard'.events[i].run = r BY <1>5, <1>9 DEF Heard
  <2>4. own => Heard' <= runs[r].made BY <1>3, <1>10
  <2>5. QED BY <1>9, <1>13, <2>1, <2>2, <2>3, <2>4 DEF HeardHolds
<1>17. Shown' BY <1>4, <1>8, <1>10 DEF Shown
<1>18. Typed' BY <1>6, <1>8, <1>9, <1>11 DEF IInv, Typed
<1>19. QED BY <1>12, <1>14, <1>15, <1>16, <1>17, <1>18 DEF IInv

\* An end frame: only the end of a completed run says that the answer is whole.
LEMMA TakeEndInv ==
  ASSUME IInv, conn # None, conn.frames # <<>>, UNCHANGED <<streams, runs>>,
         Valid(Head(conn.frames)), Head(conn.frames).type = "stream_end",
         TakeEnd(Head(conn.frames))
  PROVE  IInv'
<1> DEFINE r == heard.request
           own == Alone(heard.request)
           frame == Head(conn.frames)
<1>1. /\ r \in Runs /\ chat \in Chats /\ heard \in Hearings
      /\ frame \in Frames /\ FrameOf(frame, r, runs[r], own)
      /\ conn.lastEventId = Heard
  BY Serving, Received DEF IInv, Typed
<1>2. frame.id = Heard BY <1>1 DEF Valid
<1>3. own /\ frame.status = "completed" =>
        runs[r].phase = "completed" /\ Heard = runs[r].made
  BY <1>1, <1>2 DEF FrameOf
<1> HIDE DEF frame
<1>4. /\ conn' = None /\ saved' = None
      /\ chat' = [chat EXCEPT !.lastEventId = 0,
                              !.status = IF frame.status = "completed" THEN "ready" ELSE "error"]
      /\ heard' = [heard EXCEPT !.whole = (frame.status = "completed")]
  BY DEF TakeEnd, frame
<1>5. /\ chat' \in Chats /\ chat'.applied = chat.applied /\ chat'.latest = chat.latest
      /\ chat'.rendered = chat.rendered
  BY <1>1, <1>4 DEF Chats
<1>6. /\ heard' \in Hearings /\ heard'.request = r /\ heard'.events = heard.events
      /\ heard'.whole = (frame.status = "completed") /\ Heard' = Heard
  BY <1>1, <1>4 DEF Hearings, Heard
<1>7. runs' = runs /\ Alone(heard.request)' = own
  <2>1. PICK x \in Runs : x = heard.request BY <1>1
  <2>2. Alone(heard.request)' = Alone(x)' BY <1>6, <2>1
  <2>3. Alone(x)' = Alone(x) BY ChatQuiet
  <2>4. QED BY <2>1, <2>2, <2>3
<1> HIDE DEF own
<1>8. HeardHolds'
  <2>1. r # 0 BY <1>1, RunsPositive
  <2>2. /\ \A i \in 1..Heard : heard.events[i].n = i
        /\ own => (\A i \in 1..Heard : heard.events[i].run = r) /\ Heard <= runs[r].made
    BY <2>1 DEF IInv, HeardHolds, own
  <2>3. QED BY <1>3, <1>4, <1>6, <1>7, <2>2 DEF HeardHolds
<1>9. StreamsHold' /\ RunsHold' BY ChatQuiet
<1>10. Shown' BY <1>5, <1>6 DEF IInv, Shown
<1>11. Typed' BY <1>4, <1>5, <1>6 DEF IInv, Typed
<1>12. QED BY <1>4, <1>8, <1>9, <1>10, <1>11 DEF IInv, ConnServes, SavedHolds

\* Receive.
LEMMA ReceiveInv == ASSUME IInv, Receive PROVE IInv'
<1> DEFINE frame == Head(conn.frames)
           c == [conn EXCEPT !.frames = Tail(conn.frames)]
<1>1. conn # None /\ conn.frames # <<>> /\ UNCHANGED <<streams, runs>>
      /\ CASE ~Valid(frame) -> Fails
           [] Valid(frame) /\ frame.type = "stream_start" -> TakeStart(c)
           [] Valid(frame) /\ frame.type = "stream_event" -> TakeEvent(c, frame)
           [] Valid(frame) /\ frame.type = "stream_end" -> TakeEnd(frame)
  BY DEF Receive, Connected, Server
<1>2. frame \in Frames BY <1>1, Received
<1>3. frame.type \in {"stream_start", "stream_event", "stream_end"} BY <1>2 DEF Frames
<1>4. CASE ~Valid(frame)
  <2>1. /\ UNCHANGED <<heard, saved>> /\ conn' = None
        /\ chat' = [chat EXCEPT !.status = "error"]
    BY <1>1, <1>4 DEF Fails
  <2>2. chat \in Chats BY DEF IInv, Typed
  <2>3. /\ chat' \in Chats /\ chat'.applied = chat.applied /\ chat'.latest = chat.latest
        /\ chat'.rendered = chat.rendered
    BY <2>1, <2>2 DEF Chats
  <2>4. QED BY <1>1, <2>1, <2>3, DisconnectInv
<1>5. CASE Valid(frame) /\ frame.type = "stream_start"
  <2>1. TakeStart(c) BY <1>1, <1>5
  <2>2. QED BY <1>1, <2>1, TakeStartInv
<1>6. CASE Valid(frame) /\ frame.type = "stream_event"
  <2>1. TakeEvent(c, frame) BY <1>1, <1>6
  <2>2. QED BY <1>1, <1>6, <2>1, TakeEventInv
<1>7. CASE Valid(frame) /\ frame.type = "stream_end"
  <2>1. TakeEnd(frame) BY <1>1, <1>7
  <2>2. QED BY <1>1, <1>7, <2>1, TakeEndInv
<1>8. QED BY <1>3, <1>4, <1>5, <1>6, <1>7

-----------------------------------------------------------------------------
(* The server starts again.                                                 *)

\* Restart: every drain and every stream is lost, and nothing that was made is made anew.
LEMMA RestartInv == ASSUME IInv, Restart PROVE IInv'
<1>1. /\ streams' = [s \in Streams |-> missing]
      /\ runs' = [r \in Runs |-> IF Draining(r) THEN [runs[r] EXCEPT !.phase = "lost"] ELSE runs[r]]
      /\ IF conn # None THEN Fails ELSE UNCHANGED <<conn, chat, saved, heard>>
  BY DEF Restart, Connected
<1>2. missing \in Kept /\ missing.status = "missing" /\ missing.records = <<>>
  BY DEF missing, Kept
<1>3. ASSUME NEW r \in Runs
      PROVE  /\ runs'[r] \in Drains
             /\ runs'[r].made = runs[r].made /\ runs'[r].stream = runs[r].stream
             /\ runs'[r].phase # "draining"
             /\ runs[r].phase = "completed" => runs'[r].phase = "completed"
             /\ runs'[r].phase \in {"none", "sent"} => runs[r].phase = runs'[r].phase
             /\ runs'[r].phase \notin {"none", "sent"} => runs[r].phase \notin {"none", "sent"}
  <2>1. runs[r] \in Drains BY DEF IInv, Typed
  <2>2. runs'[r] = IF runs[r].phase = "draining" THEN [runs[r] EXCEPT !.phase = "lost"] ELSE runs[r]
    BY <1>1 DEF Draining
  <2>3. CASE runs[r].phase = "draining"
    BY <2>1, <2>2, <2>3 DEF Drains, RunPhases
  <2>4. CASE runs[r].phase # "draining"
    BY <2>1, <2>2, <2>4
  <2>5. QED BY <2>3, <2>4
<1>4. conn' = None /\ saved' = saved /\ heard' = heard /\ chat' \in Chats
      /\ chat'.applied = chat.applied /\ chat'.latest = chat.latest
      /\ chat'.rendered = chat.rendered
  <2>1. chat \in Chats BY DEF IInv, Typed
  <2>2. CASE conn # None
    BY <1>1, <2>1, <2>2 DEF Fails, Chats
  <2>3. CASE conn = None
    BY <1>1, <2>1, <2>3
  <2>4. QED BY <2>2, <2>3
<1>5. \A s \in Streams : streams'[s] = missing BY <1>1
<1>6. StreamsHold' BY <1>2, <1>3, <1>5 DEF StreamsHold
<1>7. RunsHold'
  <2> SUFFICES ASSUME NEW r \in Runs PROVE RunHolds(r)' BY DEF RunsHold
  <2>1. RunHolds(r) BY DEF IInv, RunsHold
  <2>2. runs'[r].stream # 0 => Holds(streams'[runs'[r].stream], runs'[r], r)
    <3>1. ASSUME runs'[r].stream # 0 PROVE streams'[runs'[r].stream] = missing
      BY <1>3, <1>5, <3>1 DEF Drains
    <3>2. QED BY <1>2, <3>1 DEF Holds
  <2>3. QED BY <1>3, <2>1, <2>2 DEF RunHolds
<1>8. Typed'
  <2>1. runs' \in [Runs -> Drains] BY <1>1, <1>3
  <2>2. streams' \in [Streams -> Kept] BY <1>1, <1>2
  <2>3. QED BY <1>4, <2>1, <2>2 DEF IInv, Typed
<1>9. Heard' = Heard BY <1>4 DEF Heard
<1>10. SavedHolds'
  <2>1. saved # None => heard.request \in Runs BY DEF IInv, SavedHolds, Typed, ResumeStates
  <2>2. QED BY <1>3, <1>4, <1>9, <2>1 DEF IInv, SavedHolds
<1>11. HeardHolds'
  <2>1. ASSUME heard.request # 0, Alone(heard.request)'
        PROVE  LET r == heard.request IN
               /\ \A i \in 1..Heard : heard.events[i].run = r
               /\ Heard <= runs'[r].made
               /\ heard.whole => runs'[r].phase = "completed" /\ Heard = runs'[r].made
    <3>1. PICK r \in Runs : r = heard.request BY <2>1 DEF IInv, Typed, Hearings
    <3>2. Alone(r)' BY <1>4, <2>1, <3>1 DEF Alone
    <3>3. Alone(r) BY <1>3, <3>2, AloneBefore
    <3>4. Alone(heard.request) BY <3>1, <3>3
    <3>5. /\ \A i \in 1..Heard : heard.events[i].run = r
          /\ Heard <= runs[r].made
          /\ heard.whole => runs[r].phase = "completed" /\ Heard = runs[r].made
      BY <2>1, <3>1, <3>4 DEF IInv, HeardHolds
    <3>6. QED BY <1>3, <3>1, <3>5
  <2>2. heard.whole => conn' = None /\ saved' = None BY <1>4 DEF IInv, HeardHolds
  <2>3. \A i \in 1..Heard : heard.events[i].n = i BY DEF IInv, HeardHolds
  <2>4. QED BY <1>4, <1>9, <2>1, <2>2, <2>3 DEF HeardHolds
<1>12. Shown' BY <1>4, <1>9 DEF IInv, Shown
<1>13. QED BY <1>4, <1>6, <1>7, <1>8, <1>10, <1>11, <1>12 DEF IInv, ConnServes

-----------------------------------------------------------------------------
(* The theorem.                                                             *)

\* A step that changes nothing keeps the invariant.
LEMMA StutterInv == ASSUME IInv, UNCHANGED vars PROVE IInv'
<1>1. UNCHANGED <<streams, runs, conn, chat, saved, heard>> BY DEF vars
<1>2. StreamsHold' /\ RunsHold' BY <1>1, ChatQuiet
<1>3. ConnServes' /\ SavedHolds' /\ HeardHolds' /\ Shown' BY <1>1, ServerQuiet
<1>4. Typed' BY <1>1 DEF IInv, Typed
<1>5. QED BY <1>2, <1>3, <1>4 DEF IInv

\* Every step keeps the invariant.
LEMMA NextInv == ASSUME IInv, [Next]_vars PROVE IInv'
<1>1. CASE UNCHANGED vars BY <1>1, StutterInv
<1>2. ASSUME NEW r \in Runs, Drain(r) PROVE IInv'
  BY <1>2, DrainInv
<1>3. ASSUME NEW r \in Runs, NEW status \in {"completed", "error"}, CloseStream(r, status)
      PROVE  IInv'
  BY <1>3, CloseInv
<1>4. ASSUME NEW s \in Streams, evictClosedStreams(s) \/ OpenStream(s) PROVE IInv'
  BY <1>4, EvictInv, OpenStreamInv
<1>5. ASSUME NEW r \in Runs, sendMessage(r) PROVE IInv'
  BY <1>5, SendMessageInv
<1>6. ASSUME NEW r \in Runs, NEW s \in Streams, OpenUnread(r, s) PROVE IInv'
  BY <1>6, OpenUnreadInv
<1>7. CASE ResumeStream \/ Subscribe \/ SendEvent \/ SendEnd
  BY <1>7, ResumeStreamInv, SubscribeInv, SendEventInv, SendEndInv
<1>8. CASE Receive \/ resume
  BY <1>8, ReceiveInv, ResumeInv
<1>9. CASE Commit \/ Flush
  BY <1>9, ReactInv
<1>10. CASE reload \/ stop \/ LoseConnection
  BY <1>10, BreakInv
<1>11. CASE Restart
  BY <1>11, RestartInv
<1>12. QED BY <1>1, <1>2, <1>3, <1>4, <1>5, <1>6, <1>7, <1>8, <1>9, <1>10, <1>11 DEF Next, Work

\* A chat hears the events of an answer one by one from the first, shows none of them twice or
\* behind a later one, and, where no other run was given the id of the stream, what it hears are
\* the events of its own run and what it takes for complete is all that a completed run has
\* produced: for any number of requests, events, lost connections, resumed answers, page loads and
\* restarts of the server, and for any choice of ids (use-chat.ts, client-transport.ts,
\* resumable.ts).
THEOREM AnswerIsHeard == Spec => []AnswerHeard
<1>1. Init => IInv BY InitInv
<1>2. IInv /\ [Next]_vars => IInv' BY NextInv
<1>3. IInv => AnswerHeard
  <2> SUFFICES ASSUME IInv PROVE AnswerHeard OBVIOUS
  <2>1. DOMAIN heard.events = 1..Heard BY DEF IInv, Typed, Hearings, Heard
  <2>2. InOrder(chat.applied) /\ InOrder(chat.rendered) BY DEF IInv, Shown, Sorted
  <2>3. saved # None => InOrder(saved.applied) BY DEF IInv, SavedHolds, Sorted
  <2>4. QED BY <2>1, <2>2, <2>3 DEF IInv, HeardHolds, AnswerHeard, Heard
<1>4. QED BY <1>1, <1>2, <1>3, PTL DEF Spec
=============================================================================
