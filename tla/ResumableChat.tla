----------------------------- MODULE ResumableChat -----------------------------
(* A chat in a browser (react/src/use-chat.ts), the frames of its streams   *)
(* (client/src/client-transport.ts, server/src/client-response.ts) and the  *)
(* store they are kept in.  Each message that the user sends starts a run   *)
(* on the server, whose events are drained into a stream whether or not     *)
(* anybody reads; a response reads the stream, and the chat applies what it *)
(* receives and saves how far it is, so that it can go on after the         *)
(* connection was lost, the page was loaded again, or both.  What it shows  *)
(* goes through React: an event is applied to messagesRef and queued as     *)
(* state, and some time after the state was rendered an effect copies what  *)
(* was rendered back into messagesRef.                                      *)
(* A response has a connection; the one the chat gave up is not modelled    *)
(* any further, since all it does is to remove its own subscriber.          *)
EXTENDS ResumableStore, FiniteSets

CONSTANTS
  MaxRequests, \* bound: messages of the user
  MaxEvents,   \* bound: events of a run
  MaxInFlight, \* bound: frames between the server and the chat
  MaxResumes,  \* bound: resume() calls
  MaxLosses    \* bound: connections that are lost, restarts of the server

Runs == 1..MaxRequests

\* The id of a stream is told by the run that was the first to be given it.
Streams == Runs

ASSUME ResumableChatAssumption ==
  /\ MaxRequests \in Nat
  /\ {MaxEvents, MaxInFlight} \subseteq Nat \ {0}
  /\ {MaxResumes, MaxLosses} \subseteq Nat

VARIABLES
  streams,  \* the store
  runs,     \* the drains: the stream of each, the events it has appended, and how it stands
  conn,     \* the connection of the chat, and both its ends
  chat,     \* the state of the hook
  saved,    \* the resume state in the storage of the browser
  heard,    \* what onEvent() was called with for the last message of the user (history variable)
  resumes, losses

vars == <<streams, runs, conn, chat, saved, heard, resumes, losses>>

None == [none |-> TRUE]

\* The frames in flight; where resumeClientFrames() is, with its queue; and where the check of
\* the frame sequence is.  run: the run that the request starts, 0 for a request that resumes;
\* its stream is 0 until the route has chosen one.
Connection(run, stream, after) ==
  [run |-> run, stream |-> stream, after |-> after, phase |-> "requested", frames |-> <<>>,
   queue |-> <<>>, closed |-> FALSE, eventId |-> after,
   started |-> FALSE, lastEventId |-> after]

Connected == conn # None

Start(stream) == [type |-> "stream_start", stream |-> stream]
Event(record) == [type |-> "stream_event", id |-> record.id, event |-> record.event]
End(id, status) == [type |-> "stream_end", id |-> id, status |-> status]

-----------------------------------------------------------------------------
(* The server: the drains.                                                  *)

Draining(r) == runs[r].phase = "draining"

\* The connection has a subscriber of the stream.
Subscribed(s) == Connected /\ conn.phase = "reading" /\ ~conn.closed /\ conn.stream = s

\* The next event of the run.  Its stream is running: nobody else can close or open it.
Drain(r) ==
  LET s == runs[r].stream
      n == runs[r].made + 1
      stream == append(streams[s], [run |-> r, n |-> n])
  IN  /\ Draining(r) /\ n <= MaxEvents
      /\ runs' = [runs EXCEPT ![r].made = n]
      /\ streams' = [streams EXCEPT ![s] = stream]
      /\ conn' = IF Subscribed(s) THEN [conn EXCEPT !.queue = @ \o Enqueued(stream, conn.after)]
                 ELSE conn
      /\ UNCHANGED <<chat, saved, heard, resumes, losses>>

\* The run is over, or threw.  Closing the stream closes the queues of its subscribers.
CloseStream(r, status) ==
  LET s == runs[r].stream IN
  /\ Draining(r)
  /\ runs' = [runs EXCEPT ![r].phase = status]
  /\ streams' = [streams EXCEPT ![s] = close(@, status)]
  /\ conn' = IF Subscribed(s) THEN [conn EXCEPT !.closed = TRUE] ELSE conn
  /\ UNCHANGED <<chat, saved, heard, resumes, losses>>

\* Whoever calls the store evicts the streams whose time is over.
evictClosedStreams(s) ==
  /\ Evictable(streams[s])
  /\ streams' = [streams EXCEPT ![s] = missing]
  /\ UNCHANGED <<runs, conn, chat, saved, heard, resumes, losses>>

-----------------------------------------------------------------------------
(* The server: a response.  It goes on when the connection takes a frame.   *)

Pulled == Connected /\ Len(conn.frames) < MaxInFlight
Put(c) == conn' = c /\ UNCHANGED <<chat, saved, heard, resumes, losses>>

Sends(c, frame) == [c EXCEPT !.frames = Append(@, frame)]

\* start(): the stream is opened and the drain begins, or another run has the stream.  The id
\* is the choice of the route: a new one, or one that a run had before.
Ids(r) == {r} \cup {runs[q].stream : q \in {q \in Runs : runs[q].stream # 0}}

OpenStream(s) ==
  /\ Pulled /\ conn.phase = "requested" /\ conn.run # 0 /\ s \in Ids(conn.run)
  /\ LET c == [Sends(conn, Start(s)) EXCEPT !.stream = s] IN
     IF Openable(streams[s])
       THEN /\ streams' = [streams EXCEPT ![s] = opened]
            /\ runs' = [runs EXCEPT ![conn.run].phase = "draining", ![conn.run].stream = s]
            /\ Put([c EXCEPT !.phase = "subscribing"])
       ELSE /\ runs' = [runs EXCEPT ![conn.run].phase = "rejected", ![conn.run].stream = s]
            /\ Put([c EXCEPT !.phase = "rejected"])
            /\ UNCHANGED streams

\* The request reaches the server although the chat has given it up: nobody reads the answer.
OpenUnread(r, s) ==
  /\ runs[r].phase = "sent" /\ ~(Connected /\ conn.run = r) /\ s \in Ids(r)
  /\ Openable(streams[s])
  /\ streams' = [streams EXCEPT ![s] = opened]
  /\ runs' = [runs EXCEPT ![r].phase = "draining", ![r].stream = s]
  /\ UNCHANGED <<conn, chat, saved, heard, resumes, losses>>

ResumeStream ==
  /\ Pulled /\ conn.phase = "requested" /\ conn.run = 0
  /\ Put([Sends(conn, Start(conn.stream)) EXCEPT !.phase = "subscribing"])
  /\ UNCHANGED <<streams, runs>>

Subscribe ==
  /\ Pulled /\ conn.phase = "subscribing"
  /\ LET subscription == Subscription(streams[conn.stream], conn.after) IN
       Put([conn EXCEPT !.phase = "reading", !.queue = subscription.queue,
                        !.closed = subscription.closed])
  /\ UNCHANGED <<streams, runs>>

SendEvent ==
  /\ Pulled /\ conn.phase = "reading" /\ conn.queue # <<>>
  /\ Put([Sends(conn, Event(Head(conn.queue))) EXCEPT !.queue = Tail(@),
                                                      !.eventId = Head(conn.queue).id])
  /\ UNCHANGED <<streams, runs>>

\* The queue has ended, or the stream could not be opened.
AtEnd ==
  IF conn.phase = "reading" THEN conn.queue = <<>> /\ conn.closed ELSE conn.phase = "rejected"

\* status() tells of the stream that has the id now.
EndFrame ==
  LET state == streams[conn.stream]
      last == IF lastEventId(state) > conn.eventId THEN lastEventId(state) ELSE conn.eventId
  IN  IF conn.phase = "rejected" THEN End(0, "error")
      ELSE End(last, IF Running(state) THEN "error" ELSE state.status)

SendEnd ==
  /\ Pulled /\ AtEnd
  /\ Put([Sends(conn, EndFrame) EXCEPT !.phase = "over"])
  /\ UNCHANGED <<streams, runs>>

-----------------------------------------------------------------------------
(* The chat.  request: the run that the last message of the user started.   *)
(* The messages are told by the events of its answer that they are made of: *)
(* applied are those in messagesRef, latest those of the state, which is    *)
(* queued until it is rendered; rendered those of the last commit, whose    *)
(* effect may be pending.                                                   *)

Idle == [status |-> "ready", request |-> 0, lastEventId |-> 0, applied |-> <<>>,
         latest |-> <<>>, queued |-> FALSE, rendered |-> <<>>, effect |-> FALSE]

\* whole: the stream ended as completed.
Hearing(r) == [request |-> r, events |-> <<>>, whole |-> FALSE]

InFlight == chat.status \in {"submitted", "streaming"}

Server == UNCHANGED <<streams, runs>>

updateMessages(known, messages) ==
  [known EXCEPT !.applied = messages, !.latest = messages, !.queued = TRUE]

\* The effect of a commit: what was applied since then is gone from messagesRef.
flushed == IF chat.effect THEN chat.rendered ELSE chat.applied

Flush ==
  /\ chat.effect
  /\ chat' = [chat EXCEPT !.applied = flushed, !.effect = FALSE]
  /\ UNCHANGED <<conn, saved, heard, resumes, losses>> /\ Server

\* React renders the state that is queued.  The effect of the commit before is flushed first.
Commit ==
  /\ chat.queued
  /\ chat' = [chat EXCEPT !.applied = flushed, !.rendered = chat.latest, !.queued = FALSE,
                          !.effect = TRUE]
  /\ UNCHANGED <<conn, saved, heard, resumes, losses>> /\ Server

\* runRequest(): the request before is aborted, and what was saved of it is forgotten.  Messages
\* that were rendered before hold nothing of the new answer.
sendMessage(r) ==
  /\ runs[r].phase = "none" /\ \A q \in 1..(r - 1) : runs[q].phase # "none"
  /\ runs' = [runs EXCEPT ![r].phase = "sent"]
  /\ conn' = Connection(r, 0, 0)
  /\ chat' = updateMessages([chat EXCEPT !.status = "submitted", !.request = r,
                                         !.lastEventId = 0, !.rendered = <<>>], <<>>)
  /\ saved' = None /\ heard' = Hearing(r)
  /\ UNCHANGED <<streams, resumes, losses>>

\* resume(): by the user, or by the page once it is loaded.
resume ==
  /\ saved # None /\ resumes < MaxResumes
  /\ resumes' = resumes + 1
  /\ conn' = Connection(0, saved.stream, saved.lastEventId)
  /\ chat' = updateMessages([chat EXCEPT !.status = "submitted", !.request = saved.request,
                                         !.lastEventId = saved.lastEventId], saved.applied)
  /\ UNCHANGED <<saved, heard, losses>> /\ Server

\* The page is loaded again: what is left of the chat is what it has saved.
reload ==
  /\ conn' = None /\ chat' = Idle
  /\ heard' = IF saved = None THEN Hearing(0) ELSE heard
  /\ UNCHANGED <<saved, resumes, losses>> /\ Server

stop ==
  /\ Connected \/ saved # None
  /\ conn' = None /\ saved' = None
  /\ chat' = [chat EXCEPT !.status = "ready", !.lastEventId = 0]
  /\ UNCHANGED <<heard, resumes, losses>> /\ Server

persistResumeState(known) ==
  [stream |-> conn.stream, request |-> known.request, lastEventId |-> known.lastEventId,
   applied |-> known.applied]

\* What the catch of runRequest() does: what was saved stays.
Fails == /\ conn' = None /\ chat' = [chat EXCEPT !.status = "error"]
         /\ UNCHANGED <<saved, heard>>

\* validateFrameSequence(), for the frames the server can send.
Valid(frame) ==
  CASE frame.type = "stream_start" -> ~conn.started
    [] frame.type = "stream_event" -> conn.started /\ frame.id = conn.lastEventId + 1
    [] frame.type = "stream_end"   -> conn.started /\ frame.id = conn.lastEventId

TakeStart(c) ==
  /\ conn' = [c EXCEPT !.started = TRUE]
  /\ saved' = persistResumeState(chat)
  /\ UNCHANGED <<chat, heard>>

\* applyEvent(): the event is made known, and applied to what is in messagesRef.
applyEvent(known, frame) == updateMessages(known, Append(known.applied, frame.id))

\* Mutant of TakeEvent: the cursor is moved after the state was saved.
TakeEventLate(c, frame) ==
  LET known == applyEvent([chat EXCEPT !.status = "streaming"], frame) IN
  /\ conn' = [c EXCEPT !.lastEventId = frame.id]
  /\ chat' = [known EXCEPT !.lastEventId = frame.id]
  /\ saved' = persistResumeState(known)
  /\ heard' = [heard EXCEPT !.events = Append(@, frame.event)]

TakeEvent(c, frame) ==
  LET known == applyEvent([chat EXCEPT !.lastEventId = frame.id, !.status = "streaming"], frame)
  IN  /\ conn' = [c EXCEPT !.lastEventId = frame.id]
      /\ chat' = known
      /\ saved' = persistResumeState(known)
      /\ heard' = [heard EXCEPT !.events = Append(@, frame.event)]

\* The stream is over: there is nothing to resume, whatever its status.
TakeEnd(frame) ==
  /\ conn' = None /\ saved' = None
  /\ chat' = [chat EXCEPT !.lastEventId = 0,
                          !.status = IF frame.status = "completed" THEN "ready" ELSE "error"]
  /\ heard' = [heard EXCEPT !.whole = frame.status = "completed"]

Receive ==
  /\ Connected /\ conn.frames # <<>>
  /\ LET frame == Head(conn.frames)
         c == [conn EXCEPT !.frames = Tail(@)] IN
       CASE ~Valid(frame) -> Fails
         [] Valid(frame) /\ frame.type = "stream_start" -> TakeStart(c)
         [] Valid(frame) /\ frame.type = "stream_event" -> TakeEvent(c, frame)
         [] Valid(frame) /\ frame.type = "stream_end" -> TakeEnd(frame)
  /\ UNCHANGED <<resumes, losses>> /\ Server

-----------------------------------------------------------------------------
(* Faults.                                                                  *)

LoseConnection ==
  /\ Connected /\ losses < MaxLosses /\ losses' = losses + 1
  /\ Fails
  /\ UNCHANGED resumes /\ Server

\* The server starts again: the store was in memory, and so were the drains.
Restart ==
  /\ losses < MaxLosses /\ losses' = losses + 1
  /\ streams' = [s \in Streams |-> missing]
  /\ runs' = [r \in Runs |-> IF Draining(r) THEN [runs[r] EXCEPT !.phase = "lost"] ELSE runs[r]]
  /\ IF Connected THEN Fails ELSE UNCHANGED <<conn, chat, saved, heard>>
  /\ UNCHANGED resumes

-----------------------------------------------------------------------------
Init ==
  /\ streams = [s \in Streams |-> missing]
  /\ runs = [r \in Runs |-> [phase |-> "none", stream |-> 0, made |-> 0]]
  /\ conn = None /\ chat = Idle /\ saved = None /\ heard = Hearing(0)
  /\ resumes = 0 /\ losses = 0

Work ==
  \/ \E r \in Runs : Drain(r) \/ (\E status \in {"completed", "error"} : CloseStream(r, status))
  \/ (\E s \in Streams : OpenStream(s)) \/ ResumeStream \/ Subscribe \/ SendEvent \/ SendEnd
  \/ Receive

Next ==
  \/ Work
  \/ \E r \in Runs : sendMessage(r) \/ (\E s \in Streams : OpenUnread(r, s))
  \/ \E s \in Streams : evictClosedStreams(s)
  \/ Commit \/ Flush \/ resume \/ reload \/ stop \/ LoseConnection \/ Restart

Spec == Init /\ [][Next]_vars

\* Runs end, responses are pulled, and frames are read: while that is possible, some of it happens.
FairSpec == Spec /\ WF_vars(Work)

-----------------------------------------------------------------------------
(* Properties.                                                              *)

\* No other run was given the id of the stream of r.
Alone(r) ==
  \A q \in Runs \ {r} : runs[q].stream = 0 \/ runs[q].stream # runs[r].stream

InOrder(messages) == \A i, j \in DOMAIN messages : i < j => messages[i] < messages[j]

\* A chat hears the events of an answer one by one from the first, each of them once, however
\* often it was interrupted, loaded again and resumed; and it never shows one twice, or behind a
\* later one.  Where no other run was given the id of the stream they are the events of its own
\* run, and what it takes for a complete answer is all that a completed run has produced.
AnswerHeard ==
  /\ \A i \in DOMAIN heard.events : heard.events[i].n = i
  /\ InOrder(chat.applied) /\ InOrder(chat.rendered)
  /\ saved # None => InOrder(saved.applied)
  /\ heard.request # 0 /\ Alone(heard.request) =>
       /\ \A i \in DOMAIN heard.events : heard.events[i].run = heard.request
       /\ heard.whole => /\ runs[heard.request].phase = "completed"
                         /\ Len(heard.events) = runs[heard.request].made

\* Whoever waits for an answer hears the end of it, or that there is none.
AnswerEnds == InFlight ~> ~InFlight

=============================================================================
