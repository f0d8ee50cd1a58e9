---------------------------- MODULE ResumableStore ----------------------------
(* The in-memory store of resumable streams (server/src/resumable.ts): what *)
(* each call does to one stream and what it answers.  A stream keeps the    *)
(* events appended to it, numbered from 1, until it is evicted some time    *)
(* after it was closed.  The clock is left out: a closed stream may be      *)
(* evicted at any time, by a call for any stream.                           *)
EXTENDS Naturals, Sequences, SequencesExt

Running(stream) == stream.status = "running"

\* A stream that is not in the map, in the form in which state() tells of it.
missing == [status |-> "missing", records |-> <<>>]

lastEventId(stream) == Len(stream.records)

\* open() throws while a producer has the stream.  A closed one is replaced by an empty one.
Openable(stream) == ~Running(stream)
opened == [status |-> "running", records |-> <<>>]

append(stream, event) == [stream EXCEPT !.records = Append(@, event)]

\* The record that the stream has last, for a subscriber that has all up to after.
Enqueued(stream, after) ==
  IF lastEventId(stream) > after
    THEN <<[id |-> lastEventId(stream), event |-> Last(stream.records)]>> ELSE <<>>

close(stream, status) == [stream EXCEPT !.status = status]

\* What subscribe() puts into the queue of a subscriber at once.
Replayed(stream, after) ==
  LET later == SubSeq(stream.records, after + 1, lastEventId(stream))
  IN  [i \in DOMAIN later |-> [id |-> after + i, event |-> later[i]]]

\* Mutant of Subscription: the queue is closed only for a stream that does not exist.
SubscriptionOpen(stream, after) ==
  [queue |-> Replayed(stream, after), closed |-> stream = missing]

\* A queue that is closed ends after what is in it; one that is not gets what is appended.
Subscription(stream, after) ==
  [queue |-> Replayed(stream, after), closed |-> ~Running(stream)]

Evictable(stream) == stream.status \in {"completed", "error"}

=============================================================================
