---------------------------- MODULE MemoryStore ----------------------------
(* The history of one scope in a versioned memory store, as the SQLite      *)
(* store keeps it (memory-sqlite/src/store.ts): a session row, its messages *)
(* by position, the compaction state of the session, and the idempotency    *)
(* keys of the scope, which outlive the session.  Every operation is one    *)
(* transaction, a function of the stored state.                             *)
EXTENDS Naturals, Sequences, FiniteSets

\* session is 0 when there is no row; ids are never used again.  summary stands for the
\* messages a compaction summary was made from, and replaces rows 1..through.
EmptyStore == [session |-> 0, created |-> 0, rows |-> <<>>, keys |-> {},
               generation |-> 0, summary |-> <<>>, through |-> 0]

Empty == <<0, 0, 0>>
Unchecked == <<>>

\* Mutant of currentVersion: a cleared and rewritten session looks like the old one.
versionByLength(S) == <<0, Len(S.rows), S.generation>>

currentVersion(S) ==
  IF S.rows = <<>> THEN Empty ELSE <<S.session, Len(S.rows), S.generation>>

upsertSession(S) ==
  IF S.session # 0 THEN S
  ELSE [S EXCEPT !.session = S.created + 1, !.created = S.created + 1]

insertMessages(S, messages) ==
  IF messages = <<>> THEN S ELSE [upsertSession(S) EXCEPT !.rows = @ \o messages]

Written(S, key) == \E k \in S.keys : k.key = key

\* append() of a keyed write.  A key that is known answers before the version is compared,
\* and every answer carries the version the store has then.
append(S, write) ==
  LET keyed == [key |-> write.key, content |-> write.messages]
      result(status, after) ==
        [status |-> status, version |-> currentVersion(after), store |-> after]
  IN  IF keyed \in S.keys THEN result("duplicate", S)
      ELSE IF \/ Written(S, write.key)
              \/ write.expected # Unchecked /\ write.expected # currentVersion(S)
        THEN result("conflict", S)
      ELSE result("committed",
                  [insertMessages(S, write.messages) EXCEPT !.keys = @ \cup {keyed}])

\* clear() deletes the session with its messages; the keys of the scope stay.
clear(S) ==
  [S EXCEPT !.session = 0, !.rows = <<>>, !.generation = 0, !.summary = <<>>, !.through = 0]

-----------------------------------------------------------------------------
(* The compaction capability.                                               *)

\* The rows a compaction can see: all of them, or those from the boundary on.
compactionRows(S) ==
  {<<S.session, p>> : p \in (IF S.generation = 0 THEN 1 ELSE S.through)..Len(S.rows)}

compactionRevision(S) == <<S.generation, compactionRows(S)>>

activeCompactionRows(S) == SubSeq(S.rows, S.through + 1, Len(S.rows))

\* What a reader of the compacted history gets: the messages behind each entry.
projectedMessages(S) ==
  LET active == activeCompactionRows(S)
      each == [i \in DOMAIN active |-> <<active[i]>>]
  IN  IF S.generation = 0 THEN each ELSE <<S.summary>> \o each

loadCompactionSnapshot(S) ==
  [revision |-> compactionRevision(S), messages |-> projectedMessages(S)]

Physical(S, count) == count - (IF S.generation = 0 THEN 0 ELSE 1)

\* Mutant of Replaceable: no revision check.
ReplaceableByCount(S, revision, count) ==
  /\ S.session # 0
  /\ Physical(S, count) \in 0..Len(activeCompactionRows(S))
  /\ Physical(S, count) = 0 => S.generation > 0

\* replacePrefix() finds what its snapshot had.
Replaceable(S, revision, count) ==
  /\ S.session # 0
  /\ compactionRevision(S) = revision
  /\ Physical(S, count) \in 0..Len(activeCompactionRows(S))
  /\ Physical(S, count) = 0 => S.generation > 0

replaceCompactionPrefix(S, count, replacement) ==
  [S EXCEPT !.generation = @ + 1,
            !.summary = replacement,
            !.through = @ + Physical(S, count)]

=============================================================================
