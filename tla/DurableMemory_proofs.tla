------------------------ MODULE DurableMemory_proofs ------------------------
(* Proofs about DurableMemory: for every script of a run and of the agent   *)
(* beside it, every save policy and any number of retries, crashes, lost    *)
(* answers and decisions of an operator, the history holds what was said in *)
(* order and once, a summary hides exactly what it stands for, a changed    *)
(* history is noticed, and a finished run has saved what it said.           *)
(*                                                                          *)
(* The parts, each over the one before it:                                  *)
(*   what a writer collects, what the store does with an append;            *)
(*   StoreSound     the store and a compaction at work on it;               *)
(*   RunSound       the row of the run, its attempt and its writes;         *)
(*   HistorySound   where the rows of the history come from;                *)
(*   VersionsSound  what the versions held by the run say of the history;   *)
(*   TranscriptSound  what of the run is in the history.                    *)
EXTENDS DurableMemory, Selection_proofs

-----------------------------------------------------------------------------
(* What a writer collects.                                                  *)

\* The messages of a segment, and the number of one among them.
Said(a, e) == {a} \X {e} \X Nat

Rising(s) == \A k, l \in DOMAIN s : k < l => s[k][3] < s[l][3]
Ahead(s, t) == \A k \in DOMAIN s, l \in DOMAIN t : s[k][3] < t[l][3]
Within(s, n) == \A k \in DOMAIN s : s[k][3] <= n

\* Messages saved in the order they were said in, each at most once.
Chunks(c, n) ==
  /\ \A j \in DOMAIN c : Rising(c[j]) /\ Within(c[j], n)
  /\ \A i, j \in DOMAIN c : i < j => Ahead(c[i], c[j])

\* A writer at work on a segment.
Writer(w, a, p, e) ==
  /\ w \in [author : {a}, policy : {p}, new : Seq(Said(a, e)), pending : Seq(Said(a, e)),
            captured : Seq(Seq(Said(a, e)))]
  /\ \A i \in 1..Len(w.new) : w.new[i] = <<a, e, i>>
  /\ Chunks(w.captured, Len(w.new))
  /\ Rising(w.pending) /\ Within(w.pending, Len(w.new))
  /\ \A j \in DOMAIN w.captured : Ahead(w.captured[j], w.pending)
  /\ p # "turn" => w.pending = <<>>
  /\ p = "run" => w.captured = <<>>

\* What has been said is saved, or will be when the turn ends.
Saved(c, m) == \E j \in DOMAIN c : \E k \in DOMAIN c[j] : c[j][k] = m
Covers(w) ==
  w.policy # "run" =>
    \A i \in 1..Len(w.new) : Saved(w.captured, w.new[i]) \/ \E k \in DOMAIN w.pending : w.pending[k] = w.new[i]

\* The elements of a concatenation.
Joins(u, s, t) ==
  /\ Len(u) = Len(s) + Len(t)
  /\ \A i \in 1..Len(s) : u[i] = s[i]
  /\ \A i \in 1..Len(t) : u[Len(s) + i] = t[i]

\* The concatenation of two sequences joins them.
LEMMA Concatenated ==
  ASSUME NEW S, NEW s \in Seq(S), NEW t \in Seq(S)
  PROVE  s \o t \in Seq(S) /\ Joins(s \o t, s, t)
<1>1. Len(s) \in Nat /\ Len(t) \in Nat
  OBVIOUS
<1>2. /\ s \o t \in Seq(S) /\ Len(s \o t) = Len(s) + Len(t)
      /\ \A i \in 1..Len(s) + Len(t) :
           (s \o t)[i] = IF i <= Len(s) THEN s[i] ELSE t[i - Len(s)]
  BY ConcatProperties
<1>3. ASSUME NEW i \in 1..Len(s) PROVE (s \o t)[i] = s[i]
  BY <1>1, <1>2
<1>4. ASSUME NEW i \in 1..Len(t) PROVE (s \o t)[Len(s) + i] = t[i]
  <2>1. Len(s) + i \in 1..Len(s) + Len(t) /\ ~(Len(s) + i <= Len(s)) /\ (Len(s) + i) - Len(s) = i
    BY <1>1
  <2> QED BY <2>1, <1>2
<1> QED BY <1>2, <1>3, <1>4 DEF Joins

\* The calls c, and one more, for s.
OneMore(d, c, s, n) ==
  /\ d # <<>>
  /\ Chunks(d, n)
  /\ \A m : Saved(d, m) <=> Saved(c, m) \/ \E k \in DOMAIN s : s[k] = m

\* Which append() calls there are when one more is made, of messages that come later.
LEMMA OneMoreChunk ==
  ASSUME NEW S, NEW c \in Seq(Seq(S)), NEW s \in Seq(S), NEW n \in Nat, Chunks(c, n), Rising(s), Within(s, n),
         \A j \in DOMAIN c : Ahead(c[j], s)
  PROVE  Append(c, s) \in Seq(Seq(S)) /\ OneMore(Append(c, s), c, s, n)
<1> DEFINE d == Append(c, s)
<1>1. /\ d \in Seq(Seq(S)) /\ Len(d) = Len(c) + 1 /\ DOMAIN d = 1..Len(c) + 1 /\ DOMAIN c = 1..Len(c)
      /\ \A j \in DOMAIN c : d[j] = c[j]
      /\ d[Len(c) + 1] = s
  OBVIOUS
<1> HIDE DEF d
<1>10. d # <<>>
  <2>1. Len(c) \in Nat
    OBVIOUS
  <2>2. Len(d) # 0 /\ Len(<<>>) = 0
    BY <1>1, <2>1
  <2> QED BY <2>2
<1>2. Chunks(d, n)
  <2>1. ASSUME NEW j \in DOMAIN d PROVE Rising(d[j]) /\ Within(d[j], n)
    <3>1. CASE j = Len(c) + 1
      BY <3>1, <1>1
    <3>2. CASE j \in DOMAIN c
      BY <3>2, <1>1 DEF Chunks
    <3> QED BY <3>1, <3>2, <1>1
  <2>2. ASSUME NEW i \in DOMAIN d, NEW j \in DOMAIN d, i < j PROVE Ahead(d[i], d[j])
    <3>1. i \in DOMAIN c /\ d[i] = c[i]
      BY <2>2, <1>1
    <3>2. CASE j = Len(c) + 1
      BY <3>1, <3>2, <1>1
    <3>3. CASE j \in DOMAIN c
      BY <2>2, <3>1, <3>3, <1>1 DEF Chunks
    <3> QED BY <3>2, <3>3, <1>1
  <2> QED BY <2>1, <2>2 DEF Chunks
<1>3. ASSUME NEW m PROVE Saved(d, m) <=> Saved(c, m) \/ \E k \in DOMAIN s : s[k] = m
  <2>1. ASSUME Saved(d, m) PROVE Saved(c, m) \/ \E k \in DOMAIN s : s[k] = m
    <3>1. PICK j \in DOMAIN d : \E k \in DOMAIN d[j] : d[j][k] = m
      BY <2>1 DEF Saved
    <3>2. j \in DOMAIN c \/ j = Len(c) + 1
      BY <1>1
    <3> QED BY <3>1, <3>2, <1>1 DEF Saved
  <2>2. ASSUME Saved(c, m) PROVE Saved(d, m)
    <3>1. PICK j \in DOMAIN c : \E k \in DOMAIN c[j] : c[j][k] = m
      BY <2>2 DEF Saved
    <3>2. j \in DOMAIN d
      BY <1>1
    <3> QED BY <3>1, <3>2, <1>1 DEF Saved
  <2>3. ASSUME \E k \in DOMAIN s : s[k] = m PROVE Saved(d, m)
    <3>1. Len(c) + 1 \in DOMAIN d
      BY <1>1
    <3> QED BY <2>3, <3>1, <1>1 DEF Saved
  <2> QED BY <2>1, <2>2, <2>3
<1> QED BY <1>1, <1>2, <1>3, <1>10 DEF d, OneMore

\* The next messages of a segment come after those before them.
LEMMA FreshMessages ==
  ASSUME NEW a, NEW p, NEW e, NEW w, Writer(w, a, p, e), NEW k \in Nat
  PROVE  LET f == Fresh(w, e, k) IN
         /\ f \in Seq(Said(a, e)) /\ Len(f) = k
         /\ Rising(f) /\ Within(f, Len(w.new) + k)
         /\ Ahead(w.pending, f) /\ \A j \in DOMAIN w.captured : Ahead(w.captured[j], f)
<1> DEFINE f == Fresh(w, e, k) n == Len(w.new)
<1>1. w.author = a /\ n \in Nat /\ w.pending \in Seq(Said(a, e)) /\ w.captured \in Seq(Seq(Said(a, e)))
  BY DEF Writer
<1>2. f = [i \in 1..k |-> <<a, e, n + i>>]
  BY <1>1 DEF Fresh
<1>3. \A i \in 1..k : <<a, e, n + i>> \in Said(a, e)
  BY <1>1 DEF Said
<1> HIDE DEF f, n
<1>4. f \in Seq(Said(a, e)) /\ Len(f) = k /\ DOMAIN f = 1..k
  BY <1>2, <1>3
<1>5. \A i \in 1..k : f[i][3] = n + i
  BY <1>2
<1>6. Rising(f) /\ Within(f, n + k)
  BY <1>1, <1>4, <1>5 DEF Rising, Within
<1>7. ASSUME NEW s \in Seq(Said(a, e)), Within(s, n) PROVE Ahead(s, f)
  <2>1. \A i \in DOMAIN s : s[i][3] \in Nat /\ s[i][3] <= n
    <3>1. \A m \in Said(a, e) : m[3] \in Nat
      BY DEF Said
    <3>2. \A i \in DOMAIN s : s[i] \in Said(a, e)
      OBVIOUS
    <3> QED BY <3>1, <3>2, <1>7 DEF Within
  <2>2. \A l \in DOMAIN f : f[l][3] = n + l /\ l \in 1..k
    BY <1>4, <1>5
  <2> QED BY <1>1, <2>1, <2>2 DEF Ahead
<1>8. Within(w.pending, n) /\ \A j \in DOMAIN w.captured : Within(w.captured[j], n) /\ w.captured[j] \in Seq(Said(a, e))
  BY <1>1 DEF Writer, Chunks, n
<1> QED BY <1>1, <1>4, <1>6, <1>7, <1>8 DEF f, n

\* They are pushed to the messages of the segment.
LEMMA PushFresh ==
  ASSUME NEW a, NEW p, NEW e, NEW w, Writer(w, a, p, e), NEW k \in Nat
  PROVE  LET v == Push(w, Fresh(w, e, k)) IN
         /\ Writer(v, a, p, e)
         /\ v.pending = w.pending /\ v.captured = w.captured /\ v.policy = p
         /\ Len(v.new) = Len(w.new) + k
         /\ \A i \in 1..Len(w.new) : v.new[i] = w.new[i]
         /\ \A i \in 1..k : v.new[Len(w.new) + i] = Fresh(w, e, k)[i]
<1> DEFINE f == Fresh(w, e, k) v == Push(w, f) n == Len(w.new)
<1>1. /\ f \in Seq(Said(a, e)) /\ Len(f) = k
  BY FreshMessages
<1>2. /\ w \in [author : {a}, policy : {p}, new : Seq(Said(a, e)), pending : Seq(Said(a, e)),
                captured : Seq(Seq(Said(a, e)))]
      /\ n \in Nat
  BY DEF Writer
<1>3. f = [i \in 1..k |-> <<a, e, n + i>>]
  BY <1>2 DEF Fresh
<1> HIDE DEF f
<1>4. /\ v \in [author : {a}, policy : {p}, new : Seq(Said(a, e)), pending : Seq(Said(a, e)),
                captured : Seq(Seq(Said(a, e)))]
      /\ v.new = w.new \o f /\ v.pending = w.pending /\ v.captured = w.captured /\ v.policy = p
  <2>1. w.new \o f \in Seq(Said(a, e))
    BY <1>1, <1>2, ConcatProperties
  <2>2. v = [w EXCEPT !.new = w.new \o f]
    BY DEF Push
  <2> HIDE DEF v
  <2> QED BY <2>1, <2>2, <1>2
<1> HIDE DEF v
<1>5. /\ Len(v.new) = n + k
      /\ \A i \in 1..n : v.new[i] = w.new[i]
      /\ \A i \in 1..k : v.new[n + i] = f[i]
  <2>1. w.new \in Seq(Said(a, e))
    BY <1>2
  <2>2. Joins(w.new \o f, w.new, f)
    BY <1>1, <2>1, Concatenated, Zenon
  <2>3. Joins(v.new, w.new, f)
    BY <2>2, <1>4
  <2> QED BY <2>3, <1>1 DEF Joins
<1>6. \A i \in 1..n + k : v.new[i] = <<a, e, i>>
  <2>1. \A i \in 1..n : v.new[i] = <<a, e, i>>
    BY <1>5 DEF Writer
  <2>2. \A i \in 1..k : v.new[n + i] = <<a, e, n + i>>
    BY <1>3, <1>5
  <2>3. \A i \in 1..n + k : i \in 1..n \/ (i - n \in 1..k /\ i = n + (i - n))
    BY <1>2
  <2> QED BY <2>1, <2>2, <2>3
<1>7. ASSUME NEW s \in Seq(Said(a, e)), Within(s, n) PROVE Within(s, n + k)
  <2>1. \A i \in DOMAIN s : s[i][3] \in Nat
    <3>1. \A m \in Said(a, e) : m[3] \in Nat
      BY DEF Said
    <3>2. \A i \in DOMAIN s : s[i] \in Said(a, e)
      OBVIOUS
    <3> QED BY <3>1, <3>2
  <2> QED BY <2>1, <1>2, <1>7 DEF Within
<1>8. Chunks(v.captured, n + k)
  <2>1. \A j \in DOMAIN w.captured : w.captured[j] \in Seq(Said(a, e))
    BY <1>2
  <2>2. Chunks(w.captured, n)
    BY DEF Writer
  <2> QED BY <2>1, <2>2, <1>4, <1>7 DEF Chunks
<1>9. Within(v.pending, n + k)
  BY <1>2, <1>4, <1>7 DEF Writer
<1>10. Writer(v, a, p, e)
  BY <1>4, <1>5, <1>6, <1>8, <1>9 DEF Writer
<1> QED BY <1>4, <1>5, <1>10 DEF v, f

\* Saving the pending messages of a turn.
LEMMA TurnEnds ==
  ASSUME NEW a, NEW p, NEW e, NEW w, Writer(w, a, p, e)
  PROVE  LET v == commitCompletedTurn(w) IN
         /\ Writer(v, a, p, e) /\ v.new = w.new
         /\ Covers(w) => Covers(v)
         /\ p = "turn" => v.pending = <<>>
         /\ v.captured = <<>> => w.captured = <<>> /\ w.pending = <<>>
<1> DEFINE v == commitCompletedTurn(w) n == Len(w.new)
<1>1. /\ w \in [author : {a}, policy : {p}, new : Seq(Said(a, e)), pending : Seq(Said(a, e)),
                captured : Seq(Seq(Said(a, e)))]
      /\ w.policy = p
  BY DEF Writer
<1>2. CASE p = "turn" /\ w.pending # <<>>
  <2> DEFINE c == Append(w.captured, w.pending)
  <2>1. v = [[w EXCEPT !.captured = c] EXCEPT !.pending = <<>>]
    BY <1>1, <1>2 DEF commitCompletedTurn, Capture
  <2>2. c \in Seq(Seq(Said(a, e))) /\ OneMore(c, w.captured, w.pending, n)
    <3>1. /\ w.captured \in Seq(Seq(Said(a, e))) /\ w.pending \in Seq(Said(a, e)) /\ n \in Nat
          /\ Chunks(w.captured, n) /\ Rising(w.pending) /\ Within(w.pending, n)
          /\ \A j \in DOMAIN w.captured : Ahead(w.captured[j], w.pending)
      BY <1>1 DEF Writer
    <3> HIDE DEF n
    <3> QED BY <3>1, OneMoreChunk, Zenon
  <2> HIDE DEF c, v
  <2>3. /\ c # <<>> /\ Chunks(c, n)
        /\ \A m : Saved(c, m) <=> Saved(w.captured, m) \/ \E k \in DOMAIN w.pending : w.pending[k] = m
    BY <2>2, Zenon DEF OneMore
  <2>4. /\ v \in [author : {a}, policy : {p}, new : Seq(Said(a, e)), pending : Seq(Said(a, e)),
                  captured : Seq(Seq(Said(a, e)))]
        /\ v.new = w.new /\ v.pending = <<>> /\ v.captured = c /\ v.policy = p
    <3>1. <<>> \in Seq(Said(a, e))
      OBVIOUS
    <3> QED BY <1>1, <2>1, <2>2, <3>1
  <2>5. Writer(v, a, p, e)
    <3>1. Rising(v.pending) /\ Within(v.pending, n) /\ \A j \in DOMAIN v.captured : Ahead(v.captured[j], v.pending)
      BY <2>4 DEF Rising, Within, Ahead
    <3> QED BY <1>2, <2>3, <2>2, <2>4, <3>1 DEF Writer
  <2>6. Covers(w) => Covers(v)
    BY <1>1, <2>3, <2>4 DEF Covers
  <2> QED BY <1>2, <2>3, <2>4, <2>5, <2>6 DEF v
<1>3. CASE ~(p = "turn" /\ w.pending # <<>>)
  <2>1. v = w
    BY <1>1, <1>3 DEF commitCompletedTurn
  <2>2. p # "turn" => w.pending = <<>>
    BY DEF Writer
  <2> QED BY <1>3, <2>1, <2>2
<1> QED BY <1>2, <1>3

\* Messages that were just said are saved, or wait for the end of the turn.
LEMMA FreshCommitted ==
  ASSUME NEW a, NEW p \in {"message", "turn", "run"}, NEW e, NEW w, Writer(w, a, p, e),
         NEW k \in Nat \ {0}
  PROVE  LET v == PushAndCommit(w, Fresh(w, e, k)) IN
         /\ Writer(v, a, p, e) /\ Len(v.new) = Len(w.new) + k
         /\ Covers(w) => Covers(v)
         /\ p # "run" => v.captured # <<>> \/ v.pending # <<>>
<1> DEFINE f == Fresh(w, e, k) u == Push(w, f) v == PushAndCommit(w, f) n == Len(w.new)
<1>1. /\ Writer(u, a, p, e)
      /\ u.pending = w.pending /\ u.captured = w.captured /\ u.policy = p
      /\ Len(u.new) = n + k
      /\ \A i \in 1..n : u.new[i] = w.new[i]
      /\ \A i \in 1..k : u.new[n + i] = f[i]
  BY PushFresh
<1>2. /\ f \in Seq(Said(a, e)) /\ Len(f) = k
      /\ Rising(f) /\ Within(f, n + k)
      /\ Ahead(w.pending, f) /\ \A j \in DOMAIN w.captured : Ahead(w.captured[j], f)
  BY FreshMessages
<1>3. f # <<>>
  BY <1>2
<1>4. v = commitMessages(u, f)
  BY DEF PushAndCommit
<1>5. n \in Nat /\ w.pending \in Seq(Said(a, e)) /\ w.captured \in Seq(Seq(Said(a, e))) /\ w.policy = p
  BY DEF Writer
<1>6. u \in [author : {a}, policy : {p}, new : Seq(Said(a, e)), pending : Seq(Said(a, e)),
             captured : Seq(Seq(Said(a, e)))]
  BY <1>1 DEF Writer
<1>7. \A i \in 1..n + k : i \in 1..n \/ (i - n \in 1..k /\ i = n + (i - n))
  BY <1>5
<1> HIDE DEF f, u, v
<1>8. ASSUME NEW c, NEW t,
             \A m : (Saved(w.captured, m) \/ \E x \in DOMAIN w.pending : w.pending[x] = m) =>
                      Saved(c, m) \/ \E x \in DOMAIN t : t[x] = m,
             \A x \in 1..k : Saved(c, f[x]) \/ \E y \in DOMAIN t : t[y] = f[x],
             v.new = u.new, v.captured = c, v.pending = t, v.policy = p, Covers(w)
      PROVE  Covers(v)
  <2>1. SUFFICES ASSUME p # "run", NEW i \in 1..n + k
                 PROVE  Saved(c, u.new[i]) \/ \E x \in DOMAIN t : t[x] = u.new[i]
    BY <1>1, <1>8 DEF Covers
  <2>2. CASE i \in 1..n
    BY <1>1, <1>5, <1>8, <2>1, <2>2 DEF Covers
  <2>3. CASE i - n \in 1..k /\ i = n + (i - n)
    <3>1. u.new[i] = f[i - n]
      BY <1>1, <2>3
    <3> QED BY <1>8, <2>3, <3>1
  <2> QED BY <1>7, <2>2, <2>3
<1>9. CASE p = "message"
  <2> DEFINE c == Append(w.captured, f)
  <2>1. v = [u EXCEPT !.captured = c]
    BY <1>1, <1>3, <1>4, <1>9 DEF commitMessages, Capture
  <2>2. Chunks(w.captured, n + k) /\ w.pending = <<>>
    BY <1>1, <1>9 DEF Writer
  <2>8. c \in Seq(Seq(Said(a, e))) /\ OneMore(c, w.captured, f, n + k)
    <3>1. n + k \in Nat
      BY <1>5
    <3>2. Rising(f) /\ Within(f, n + k) /\ \A j \in DOMAIN w.captured : Ahead(w.captured[j], f)
      BY <1>2
    <3>3. f \in Seq(Said(a, e)) /\ w.captured \in Seq(Seq(Said(a, e))) /\ Chunks(w.captured, n + k)
      BY <1>2, <1>5, <2>2
    <3> HIDE DEF n
    <3> QED BY <3>1, <3>2, <3>3, OneMoreChunk, Zenon
  <2> HIDE DEF c
  <2>3. /\ c \in Seq(Seq(Said(a, e))) /\ Chunks(c, n + k)
        /\ \A m : Saved(c, m) <=> Saved(w.captured, m) \/ \E x \in DOMAIN f : f[x] = m
    BY <2>8, Zenon DEF OneMore
  <2>4. c # <<>>
    BY <2>8, Zenon DEF OneMore
  <2>5. /\ v \in [author : {a}, policy : {p}, new : Seq(Said(a, e)), pending : Seq(Said(a, e)),
                  captured : Seq(Seq(Said(a, e)))]
        /\ v.new = u.new /\ v.pending = <<>> /\ v.captured = c /\ v.policy = p
    BY <1>1, <1>6, <2>1, <2>2, <2>3
  <2>6. Writer(v, a, p, e)
    <3>1. Rising(v.pending) /\ Within(v.pending, n) /\ \A j \in DOMAIN v.captured : Ahead(v.captured[j], v.pending)
      BY <2>5 DEF Rising, Within, Ahead
    <3>2. \A i \in 1..Len(v.new) : v.new[i] = <<a, e, i>>
      BY <1>1, <2>5 DEF Writer
    <3>3. Within(v.pending, Len(v.new))
      BY <2>5 DEF Within
    <3> QED BY <1>1, <1>9, <2>3, <2>5, <3>1, <3>2, <3>3 DEF Writer
  <2>7. Covers(w) => Covers(v)
    <3>1. \A x \in 1..k : Saved(c, f[x])
      <4>1. DOMAIN f = 1..k
        BY <1>2
      <4> QED BY <2>3, <4>1
    <3>2. \A m : (Saved(w.captured, m) \/ \E x \in DOMAIN w.pending : w.pending[x] = m) => Saved(c, m)
      BY <2>2, <2>3
    <3> QED BY <1>8, <2>5, <3>1, <3>2
  <2> QED BY <1>1, <2>4, <2>5, <2>6, <2>7 DEF v, f
<1>10. CASE p = "turn"
  <2> DEFINE t == w.pending \o f
  <2>1. v = [u EXCEPT !.pending = t]
    BY <1>1, <1>3, <1>4, <1>10 DEF commitMessages, Capture
  <2>13. t \in Seq(Said(a, e)) /\ Joins(t, w.pending, f)
    <3>1. f \in Seq(Said(a, e)) /\ w.pending \in Seq(Said(a, e))
      BY <1>2, <1>5
    <3> QED BY <3>1, Concatenated, Zenon
  <2> HIDE DEF t
  <2>2. /\ t \in Seq(Said(a, e)) /\ Len(t) = Len(w.pending) + k
        /\ \A i \in 1..Len(w.pending) : t[i] = w.pending[i]
        /\ \A i \in 1..Len(f) : t[Len(w.pending) + i] = f[i]
    BY <2>13, <1>2 DEF Joins
  <2>3. /\ DOMAIN t = 1..Len(w.pending) + k /\ Len(w.pending) \in Nat
        /\ \A i \in DOMAIN t : \/ i \in DOMAIN w.pending /\ t[i] = w.pending[i]
                               \/ /\ i - Len(w.pending) \in DOMAIN f
                                  /\ i > Len(w.pending) /\ t[i] = f[i - Len(w.pending)]
    <3>1. DOMAIN t = 1..Len(w.pending) + k /\ Len(w.pending) \in Nat
          /\ DOMAIN w.pending = 1..Len(w.pending) /\ DOMAIN f = 1..k
      BY <1>2, <1>5, <2>2
    <3>2. ASSUME NEW i \in DOMAIN t, ~(i \in DOMAIN w.pending)
          PROVE  i - Len(w.pending) \in DOMAIN f /\ i > Len(w.pending) /\ t[i] = f[i - Len(w.pending)]
      <4>1. i - Len(w.pending) \in 1..k /\ i > Len(w.pending)
        BY <3>1, <3>2
      <4>2. t[Len(w.pending) + (i - Len(w.pending))] = f[i - Len(w.pending)]
        BY <2>2, <4>1, <1>2
      <4>3. Len(w.pending) + (i - Len(w.pending)) = i
        BY <3>1
      <4> QED BY <3>1, <4>1, <4>2, <4>3
    <3> QED BY <3>1, <3>2, <2>2
  <2>4. /\ v \in [author : {a}, policy : {p}, new : Seq(Said(a, e)), pending : Seq(Said(a, e)),
                  captured : Seq(Seq(Said(a, e)))]
        /\ v.new = u.new /\ v.pending = t /\ v.captured = w.captured /\ v.policy = p
    BY <1>1, <1>6, <2>1, <2>2
  <2>5. Rising(t)
    <3>1. SUFFICES ASSUME NEW x \in DOMAIN t, NEW y \in DOMAIN t, x < y PROVE t[x][3] < t[y][3]
      BY DEF Rising
    <3>2. Rising(w.pending)
      BY DEF Writer
    <3>3. CASE y \in DOMAIN w.pending /\ t[y] = w.pending[y]
      <4>1. x \in DOMAIN w.pending /\ t[x] = w.pending[x]
        BY <3>1, <3>3, <1>5, <2>2
      <4> QED BY <3>1, <3>2, <3>3, <4>1 DEF Rising
    <3>4. CASE y - Len(w.pending) \in DOMAIN f /\ y > Len(w.pending) /\ t[y] = f[y - Len(w.pending)]
      <4>1. CASE x \in DOMAIN w.pending /\ t[x] = w.pending[x]
        BY <3>4, <4>1, <1>2 DEF Ahead
      <4>2. CASE x - Len(w.pending) \in DOMAIN f /\ x > Len(w.pending) /\ t[x] = f[x - Len(w.pending)]
        BY <3>1, <3>4, <4>2, <1>2, <2>3 DEF Rising
      <4> QED BY <2>3, <4>1, <4>2
    <3> QED BY <2>3, <3>3, <3>4
  <2>6. Within(t, n + k)
    <3>1. Within(w.pending, n) /\ \A i \in DOMAIN w.pending : w.pending[i][3] \in Nat
      BY <1>5 DEF Writer, Said
    <3>2. ASSUME NEW i \in DOMAIN t PROVE t[i][3] <= n + k
      <4>1. CASE i \in DOMAIN w.pending /\ t[i] = w.pending[i]
        BY <1>5, <3>1, <4>1 DEF Within
      <4>2. CASE i - Len(w.pending) \in DOMAIN f /\ t[i] = f[i - Len(w.pending)]
        BY <1>2, <4>2 DEF Within
      <4> QED BY <2>3, <4>1, <4>2
    <3> QED BY <3>2 DEF Within
  <2>7. \A j \in DOMAIN w.captured : Ahead(w.captured[j], t)
    <3>1. \A j \in DOMAIN w.captured : Ahead(w.captured[j], w.pending)
      BY DEF Writer
    <3> QED BY <3>1, <1>2, <2>3 DEF Ahead
  <2>8. Writer(v, a, p, e)
    BY <1>1, <1>10, <2>4, <2>5, <2>6, <2>7 DEF Writer
  <2>9. \A i \in DOMAIN w.pending : i \in DOMAIN t /\ t[i] = w.pending[i]
    <3>1. DOMAIN w.pending = 1..Len(w.pending)
      BY <1>5
    <3>2. \A i \in 1..Len(w.pending) : i \in DOMAIN t
      BY <2>3
    <3> QED BY <3>1, <3>2, <2>2
  <2>10. \A i \in 1..k : Len(w.pending) + i \in DOMAIN t /\ t[Len(w.pending) + i] = f[i]
    BY <1>2, <2>2, <2>3
  <2>11. Covers(w) => Covers(v)
    <3>1. \A m : (Saved(w.captured, m) \/ \E x \in DOMAIN w.pending : w.pending[x] = m) =>
                      Saved(w.captured, m) \/ \E x \in DOMAIN t : t[x] = m
      BY <2>9
    <3>2. \A x \in 1..k : Saved(w.captured, f[x]) \/ \E y \in DOMAIN t : t[y] = f[x]
      BY <2>10
    <3> QED BY <1>8, <2>4, <3>1, <3>2
  <2>12. t # <<>>
    BY <1>5, <2>2
  <2> QED BY <1>1, <2>4, <2>8, <2>11, <2>12 DEF v, f
<1>11. CASE p = "run"
  <2>1. v = u
    BY <1>1, <1>3, <1>4, <1>11 DEF commitMessages
  <2>2. Covers(u)
    BY <1>1, <1>11 DEF Covers
  <2> QED BY <1>1, <1>11, <2>1, <2>2 DEF v, f
<1> QED BY <1>9, <1>10, <1>11

-----------------------------------------------------------------------------
(* The steps of the loop, and a whole segment.                              *)

\* A writer with nothing to save.
LEMMA WriterNew ==
  ASSUME NEW a, NEW p, NEW e
  PROVE  LET w == NewWriter(a, p) IN
         Writer(w, a, p, e) /\ w.captured = <<>> /\ w.pending = <<>> /\ w.new = <<>>
<1>1. /\ <<>> \in Seq(Said(a, e)) /\ <<>> \in Seq(Seq(Said(a, e)))
      /\ DOMAIN <<>> = {} /\ Len(<<>>) = 0
  OBVIOUS
<1> QED BY <1>1 DEF NewWriter, Writer, Chunks, Rising, Within, Ahead

\* A segment starts with its prompt.
LEMMA PromptStarts ==
  ASSUME NEW a, NEW p \in {"message", "turn", "run"}, NEW e
  PROVE  LET v == Prompt(NewWriter(a, p), e) IN Writer(v, a, p, e) /\ Covers(v)
<1> DEFINE w == NewWriter(a, p) f == Fresh(w, e, 1) u == Push(w, f) v == Prompt(w, e)
<1>1. Writer(w, a, p, e) /\ w.captured = <<>> /\ w.pending = <<>> /\ w.new = <<>>
  BY WriterNew
<1>2. /\ Writer(u, a, p, e) /\ u.pending = <<>> /\ u.captured = <<>> /\ u.policy = p
      /\ Len(u.new) = 1
  <2>1. Len(w.new) = 0
    BY <1>1
  <2> HIDE DEF w
  <2>2. /\ Writer(u, a, p, e)
        /\ u.pending = w.pending /\ u.captured = w.captured /\ u.policy = p
        /\ Len(u.new) = Len(w.new) + 1
    <3>1. \A k \in Nat : LET v1 == Push(w, Fresh(w, e, k)) IN
            /\ Writer(v1, a, p, e)
            /\ v1.pending = w.pending /\ v1.captured = w.captured /\ v1.policy = p
            /\ Len(v1.new) = Len(w.new) + k
      BY <1>1, PushFresh
    <3> QED BY <3>1, 1 \in Nat
  <2> HIDE DEF u
  <2> QED BY <1>1, <2>1, <2>2
<1>3. v = pendingTurnMessages(commitAcceptedInput(u))
  BY DEF Prompt
<1>4. /\ u \in [author : {a}, policy : {p}, new : Seq(Said(a, e)), pending : Seq(Said(a, e)),
                captured : Seq(Seq(Said(a, e)))]
  BY <1>2 DEF Writer
<1>5. /\ Rising(u.new) /\ Within(u.new, 1)
      /\ \A i \in 1..Len(u.new) : \E k \in DOMAIN u.new : u.new[k] = u.new[i]
  <2>1. \A i \in DOMAIN u.new : i \in 1..1 /\ u.new[i] = <<a, e, i>>
    BY <1>2, <1>4 DEF Writer
  <2> QED BY <2>1, <1>2, <1>4 DEF Rising, Within
<1> HIDE DEF w, u, v
<1>6. CASE p = "message"
  <2> DEFINE c == Append(u.captured, u.new)
  <2>1. v = [u EXCEPT !.captured = c]
    BY <1>2, <1>3, <1>4, <1>6 DEF commitAcceptedInput, pendingTurnMessages, Capture
  <2>2. c \in Seq(Seq(Said(a, e))) /\ OneMore(c, u.captured, u.new, 1)
    <3>1. u.captured \in Seq(Seq(Said(a, e))) /\ u.new \in Seq(Said(a, e)) /\ 1 \in Nat
      BY <1>4
    <3>2. Chunks(u.captured, 1) /\ \A j \in DOMAIN u.captured : Ahead(u.captured[j], u.new)
      BY <1>2 DEF Chunks
    <3> QED BY <3>1, <3>2, <1>5, OneMoreChunk, Zenon
  <2> HIDE DEF c
  <2>3. /\ v \in [author : {a}, policy : {p}, new : Seq(Said(a, e)), pending : Seq(Said(a, e)),
                  captured : Seq(Seq(Said(a, e)))]
        /\ v.new = u.new /\ v.pending = <<>> /\ v.captured = c /\ v.policy = p
    BY <1>2, <1>4, <2>1, <2>2
  <2>4. Chunks(c, 1) /\ \A m : Saved(c, m) <=> Saved(u.captured, m) \/ \E k \in DOMAIN u.new : u.new[k] = m
    BY <2>2, Zenon DEF OneMore
  <2>5. Rising(v.pending) /\ Within(v.pending, 1) /\ \A j \in DOMAIN v.captured : Ahead(v.captured[j], v.pending)
    BY <2>3 DEF Rising, Within, Ahead
  <2>6. Writer(v, a, p, e)
    BY <1>2, <1>6, <2>3, <2>4, <2>5 DEF Writer
  <2>7. Covers(v)
    BY <1>5, <2>3, <2>4 DEF Covers
  <2> QED BY <2>6, <2>7 DEF v, w
<1>7. CASE p = "turn"
  <2>1. v = [u EXCEPT !.pending = u.new]
    BY <1>2, <1>3, <1>4, <1>7 DEF commitAcceptedInput, pendingTurnMessages
  <2>2. /\ v \in [author : {a}, policy : {p}, new : Seq(Said(a, e)), pending : Seq(Said(a, e)),
                  captured : Seq(Seq(Said(a, e)))]
        /\ v.new = u.new /\ v.pending = u.new /\ v.captured = <<>> /\ v.policy = p
    BY <1>2, <1>4, <2>1
  <2>3. Writer(v, a, p, e)
    <3>1. Chunks(v.captured, Len(v.new)) /\ \A j \in DOMAIN v.captured : Ahead(v.captured[j], v.pending)
      BY <2>2 DEF Chunks
    <3>2. \A i \in 1..Len(v.new) : v.new[i] = <<a, e, i>>
      BY <1>2, <2>2 DEF Writer
    <3>3. Rising(v.pending) /\ Within(v.pending, Len(v.new))
      BY <1>2, <1>5, <2>2
    <3> QED BY <1>7, <2>2, <3>1, <3>2, <3>3 DEF Writer
  <2>4. Covers(v)
    BY <1>5, <2>2 DEF Covers
  <2> QED BY <2>3, <2>4 DEF v, w
<1>8. CASE p = "run"
  <2>1. v = u
    BY <1>2, <1>3, <1>8 DEF commitAcceptedInput, pendingTurnMessages
  <2>2. Covers(u)
    BY <1>2, <1>8 DEF Covers
  <2> QED BY <1>2, <2>1, <2>2 DEF v, w
<1> QED BY <1>6, <1>7, <1>8

\* A turn is saved in order; all of it, unless its answer was steered by the journal.
LEMMA TurnSaves ==
  ASSUME NEW a, NEW p \in {"message", "turn", "run"}, NEW e, NEW w, Writer(w, a, p, e),
         NEW kind \in {"tools", "steered", "queued"}
  PROVE  LET v == Turn(w, e, kind) IN
         Writer(v, a, p, e) /\ (Covers(w) /\ kind # "steered" => Covers(v))
<1> DEFINE Good(v) == Writer(v, a, p, e)
           Kept(v, u) == Covers(v) => Covers(u)
           Next1(v) == PushAndCommit(v, Fresh(v, e, 1))
<1>1. \A v : Good(v) => Good(Next1(v)) /\ Kept(v, Next1(v))
  BY FreshCommitted, 1 \in Nat \ {0}
<1>2. \A v : Good(v) => Good(PushAndCommit(v, Fresh(v, e, 2))) /\ Kept(v, PushAndCommit(v, Fresh(v, e, 2)))
  BY FreshCommitted, 2 \in Nat \ {0}
<1>3. \A v : Good(v) => Good(commitCompletedTurn(v)) /\ Kept(v, commitCompletedTurn(v))
  BY TurnEnds
<1>4. \A v : Good(v) => Good(Push(v, Fresh(v, e, 1)))
  BY PushFresh, 1 \in Nat
<1> HIDE DEF Good
<1>5. Good(w)
  BY DEF Good
<1>6. CASE kind = "tools"
  <2>1. Turn(w, e, kind) = commitCompletedTurn(PushAndCommit(w, Fresh(w, e, 2)))
    BY <1>6 DEF Turn, ToolTurn
  <2>2. Good(Turn(w, e, kind)) /\ Kept(w, Turn(w, e, kind))
    BY <2>1, <1>2, <1>3, <1>5, Zenon
  <2> QED BY <2>2 DEF Good
<1>7. CASE kind = "steered"
  <2> DEFINE u == Push(w, Fresh(w, e, 1))
  <2>1. Turn(w, e, kind) = commitCompletedTurn(Next1(u))
    BY <1>7 DEF Turn, SteeredTurn
  <2>2. Good(u)
    BY <1>4, <1>5
  <2> HIDE DEF u
  <2>3. Good(Next1(u))
    BY <1>1, <2>2
  <2>4. Good(Turn(w, e, kind))
    BY <2>1, <2>3, <1>3
  <2> QED BY <1>7, <2>4 DEF Good
<1>8. CASE kind = "queued"
  <2> DEFINE u == Next1(w)
  <2>1. Turn(w, e, kind) = commitCompletedTurn(Next1(u))
    BY <1>8 DEF Turn, SteeredTurn, PushAndCommit
  <2>2. Good(u) /\ Kept(w, u)
    BY <1>1, <1>5
  <2> HIDE DEF u
  <2>3. Good(Next1(u)) /\ Kept(u, Next1(u))
    BY <1>1, <2>2
  <2>4. Good(Turn(w, e, kind)) /\ Kept(w, Turn(w, e, kind))
    BY <2>1, <2>2, <2>3, <1>3
  <2> QED BY <2>4 DEF Good
<1> QED BY <1>6, <1>7, <1>8

\* What a segment has said and saved when it ends.
Ended(v, a, e) ==
  /\ v.new \in Seq(Said(a, e)) /\ v.captured \in Seq(Seq(Said(a, e))) /\ v.captured # <<>>
  /\ \E n \in Nat : Chunks(v.captured, n)

AllSaved(v) == \A i \in DOMAIN v.new : Saved(v.captured, v.new[i])

\* The last turn saves what is left.
LEMMA LastTurnSaves ==
  ASSUME NEW a, NEW p \in {"message", "turn", "run"}, NEW e, NEW w, Writer(w, a, p, e)
  PROVE  LET v == LastTurn(w, e) IN Ended(v, a, e) /\ (Covers(w) => AllSaved(v))
<1> DEFINE u == PushAndCommit(w, Fresh(w, e, 1)) v == LastTurn(w, e)
<1>1. /\ Writer(u, a, p, e) /\ Len(u.new) = Len(w.new) + 1
      /\ Covers(w) => Covers(u)
      /\ p # "run" => u.captured # <<>> \/ u.pending # <<>>
  BY FreshCommitted, 1 \in Nat \ {0}, Zenon
<1>2. v = commitCompletedRun(u)
  BY DEF LastTurn
<1>3. /\ u \in [author : {a}, policy : {p}, new : Seq(Said(a, e)), pending : Seq(Said(a, e)),
                captured : Seq(Seq(Said(a, e)))]
      /\ Len(u.new) \in Nat
  BY <1>1 DEF Writer
<1> HIDE DEF u, v
<1>4. CASE p = "run"
  <2> DEFINE c == Append(u.captured, u.new) n == Len(u.new)
  <2>1. v = [u EXCEPT !.captured = c]
    BY <1>2, <1>3, <1>4 DEF commitCompletedRun, Capture
  <2>2. c \in Seq(Seq(Said(a, e))) /\ OneMore(c, u.captured, u.new, n)
    <3>1. u.captured \in Seq(Seq(Said(a, e))) /\ u.new \in Seq(Said(a, e)) /\ n \in Nat
      BY <1>3
    <3>2. Chunks(u.captured, n) /\ \A j \in DOMAIN u.captured : Ahead(u.captured[j], u.new)
      BY <1>1, <1>4 DEF Chunks, Writer
    <3>3. Rising(u.new) /\ Within(u.new, n)
      <4>1. \A i \in DOMAIN u.new : i \in 1..n /\ u.new[i] = <<a, e, i>>
        <5>1. \A i \in 1..Len(u.new) : u.new[i] = <<a, e, i>>
          BY <1>1 DEF Writer
        <5>2. DOMAIN u.new = 1..Len(u.new)
          BY <1>3
        <5> QED BY <5>1, <5>2
      <4> QED BY <4>1, <1>3 DEF Rising, Within
    <3> HIDE DEF n
    <3> QED BY <3>1, <3>2, <3>3, OneMoreChunk, Zenon
  <2> HIDE DEF c
  <2>3. v.new = u.new /\ v.captured = c
    BY <1>3, <2>1
  <2>4. c # <<>> /\ Chunks(c, n) /\ \A k \in DOMAIN u.new : Saved(c, u.new[k])
    BY <2>2 DEF OneMore
  <2> QED BY <1>3, <2>2, <2>3, <2>4 DEF Ended, AllSaved, v
<1>5. CASE p # "run"
  <2>1. v = commitCompletedTurn(u)
    BY <1>2, <1>3, <1>5 DEF commitCompletedRun
  <2>2. /\ Writer(v, a, p, e) /\ v.new = u.new
        /\ Covers(u) => Covers(v)
        /\ p = "turn" => v.pending = <<>>
        /\ v.captured = <<>> => u.captured = <<>> /\ u.pending = <<>>
    BY <1>1, <2>1, TurnEnds
  <2>3. v.pending = <<>> /\ v.captured # <<>> /\ v.policy = p
    BY <1>1, <1>5, <2>2 DEF Writer
  <2>4. Ended(v, a, e)
    BY <2>2, <2>3 DEF Ended, Writer
  <2>5. Covers(v) => AllSaved(v)
    <3>1. DOMAIN v.new = 1..Len(v.new)
      BY <2>2 DEF Writer
    <3> QED BY <1>5, <2>3, <3>1 DEF Covers, AllSaved
  <2> QED BY <1>1, <2>2, <2>4, <2>5 DEF v
<1> QED BY <1>4, <1>5

\* The writers after each of the first n turns.
Worked(begun, e, turns, n) ==
  CHOOSE after : after = [i \in 0..n |->
    IF i = 0 THEN begun ELSE Turn(after[i - 1], e, turns[i])]

HaveWorked(begun, e, turns, n) ==
  \E after : after = [i \in 0..n |-> IF i = 0 THEN begun ELSE Turn(after[i - 1], e, turns[i])]

\* One more turn.
LEMMA WorkedNext ==
  ASSUME NEW b, NEW e, NEW turns, NEW n \in Nat, HaveWorked(b, e, turns, n)
  PROVE  HaveWorked(b, e, turns, n + 1)
<1>1. PICK f : f = [i \in 0..n |-> IF i = 0 THEN b ELSE Turn(f[i - 1], e, turns[i])]
  BY DEF HaveWorked
<1> DEFINE g == [i \in 0..n + 1 |-> IF i <= n THEN f[i] ELSE Turn(f[i - 1], e, turns[i])]
<1>2. \A i \in 0..n : f[i] = IF i = 0 THEN b ELSE Turn(f[i - 1], e, turns[i])
  BY <1>1
<1>3. \A i \in 0..n : g[i] = f[i]
  OBVIOUS
<1>4. ASSUME NEW i \in 0..n + 1
      PROVE  g[i] = IF i = 0 THEN b ELSE Turn(g[i - 1], e, turns[i])
  <2>1. CASE i = 0
    <3>1. 0 \in 0..n
      OBVIOUS
    <3>2. g[i] = f[i] /\ f[i] = b
      BY <2>1, <3>1, <1>2, <1>3
    <3> HIDE DEF g
    <3> QED BY <2>1, <3>2
  <2>2. CASE i # 0 /\ i <= n
    <3>1. i - 1 \in 0..n /\ i \in 0..n
      BY <2>2
    <3> QED BY <2>2, <3>1, <1>2, <1>3
  <2>3. CASE i = n + 1
    <3>1. i - 1 \in 0..n /\ ~(i <= n) /\ i # 0
      BY <2>3
    <3> QED BY <3>1, <1>3
  <2> QED BY <2>1, <2>2, <2>3
<1>5. g = [i \in 0..n + 1 |-> IF i = 0 THEN b ELSE Turn(g[i - 1], e, turns[i])]
  BY <1>4
<1> QED BY <1>5 DEF HaveWorked

\* As many turns as there are.
LEMMA WorkedAll == ASSUME NEW b, NEW e, NEW turns PROVE \A n \in Nat : HaveWorked(b, e, turns, n)
<1> DEFINE Missing == {n \in Nat : ~HaveWorked(b, e, turns, n)}
<1>1. SUFFICES ASSUME Missing # {} PROVE FALSE
  OBVIOUS
<1>2. PICK x \in Missing : \A y \in Missing : x <= y
  BY <1>1, Least
<1>3. HaveWorked(b, e, turns, 0)
  <2> DEFINE g == [i \in 0..0 |-> b]
  <2>1. g = [i \in 0..0 |-> IF i = 0 THEN b ELSE Turn(g[i - 1], e, turns[i])]
    OBVIOUS
  <2> QED BY <2>1 DEF HaveWorked
<1>4. x \in Nat \ {0}
  BY <1>3
<1>5. x - 1 \in Nat /\ x - 1 \notin Missing
  BY <1>2, <1>4
<1>6. HaveWorked(b, e, turns, (x - 1) + 1)
  BY <1>5, WorkedNext
<1> QED BY <1>6, <1>4

\* Each writer from the one before.
LEMMA WorkedStep ==
  ASSUME NEW b, NEW e, NEW turns, NEW n \in Nat
  PROVE  /\ Worked(b, e, turns, n)[0] = b
         /\ \A i \in 1..n : Worked(b, e, turns, n)[i] = Turn(Worked(b, e, turns, n)[i - 1], e, turns[i])
<1> DEFINE f == Worked(b, e, turns, n)
<1>1. HaveWorked(b, e, turns, n)
  BY WorkedAll
<1>2. \E after : after = [i \in 0..n |-> IF i = 0 THEN b ELSE Turn(after[i - 1], e, turns[i])]
  BY <1>1 DEF HaveWorked
<1>3. f = [i \in 0..n |-> IF i = 0 THEN b ELSE Turn(f[i - 1], e, turns[i])]
  BY <1>2, Zenon DEF Worked
<1> HIDE DEF f
<1>4. f[0] = b
  BY <1>3
<1>5. ASSUME NEW i \in 1..n PROVE f[i] = Turn(f[i - 1], e, turns[i])
  <2>1. i \in 0..n /\ i # 0
    OBVIOUS
  <2>2. f[i] = IF i = 0 THEN b ELSE Turn(f[i - 1], e, turns[i])
    BY <2>1, <1>3
  <2> QED BY <2>1, <2>2
<1> QED BY <1>4, <1>5 DEF f

Unsteered(turns) == \A i \in DOMAIN turns : turns[i] # "steered"

\* A segment saves its messages in the order it says them; all of them, if no answer is steered
\* by the journal.
LEMMA SegmentSaves ==
  ASSUME NEW a, NEW p \in {"message", "turn", "run"}, NEW e,
         NEW turns \in Seq({"tools", "steered", "queued"})
  PROVE  LET v == Segment(a, p, e, turns) IN
         Ended(v, a, e) /\ (Unsteered(turns) => AllSaved(v))
<1> DEFINE prompted == Prompt(NewWriter(a, p), e)
           begun == IF e = 1 THEN prompted ELSE ResumedTools(prompted, e)
           n == Len(turns)
           f == Worked(begun, e, turns, n)
           Good(v) == Writer(v, a, p, e) /\ (Unsteered(turns) => Covers(v))
           Bad == {x \in 0..n : ~Good(f[x])}
<1>1. Segment(a, p, e, turns) = LastTurn(f[n], e)
  BY Zenon DEF Segment, Worked
<1>2. Good(begun)
  <2>1. Writer(prompted, a, p, e) /\ Covers(prompted)
    BY PromptStarts
  <2> HIDE DEF prompted
  <2>2. ResumedTools(prompted, e) = commitCompletedTurn(PushAndCommit(prompted, Fresh(prompted, e, 1)))
    BY DEF ResumedTools
  <2>3. /\ Writer(PushAndCommit(prompted, Fresh(prompted, e, 1)), a, p, e)
        /\ Covers(PushAndCommit(prompted, Fresh(prompted, e, 1)))
    BY <2>1, FreshCommitted, 1 \in Nat \ {0}
  <2>4. Writer(ResumedTools(prompted, e), a, p, e) /\ Covers(ResumedTools(prompted, e))
    BY <2>2, <2>3, TurnEnds
  <2> QED BY <2>1, <2>4
<1>3. n \in Nat /\ DOMAIN turns = 1..n /\ \A i \in 1..n : turns[i] \in {"tools", "steered", "queued"}
  OBVIOUS
<1> HIDE DEF begun, n
<1>4. f[0] = begun /\ \A i \in 1..n : f[i] = Turn(f[i - 1], e, turns[i])
  BY <1>3, WorkedStep
<1> HIDE DEF f
<1>5. ASSUME NEW v, Good(v), NEW i \in 1..n PROVE Good(Turn(v, e, turns[i]))
  <2>1. turns[i] \in {"tools", "steered", "queued"} /\ (Unsteered(turns) => turns[i] # "steered")
    BY <1>3 DEF Unsteered
  <2> QED BY <1>5, <2>1, TurnSaves
<1> HIDE DEF Good
<1>6. Bad = {}
  <2>1. SUFFICES ASSUME Bad # {} PROVE FALSE
    OBVIOUS
  <2>2. Bad \in SUBSET Nat
    BY <1>3
  <2>3. PICK x \in Bad : \A y \in Bad : x <= y
    BY <2>1, <2>2, Least
  <2>4. x \in 1..n
    BY <1>2, <1>3, <1>4
  <2>5. x - 1 \in 0..n /\ x - 1 \notin Bad
    BY <2>3, <2>4, <1>3
  <2>6. Good(f[x])
    BY <2>4, <2>5, <1>4, <1>5
  <2> QED BY <2>3, <2>6
<1>7. Good(f[n])
  BY <1>3, <1>6
<1> QED BY <1>1, <1>7, LastTurnSaves DEF Good

-----------------------------------------------------------------------------
(* The store.                                                               *)

\* A prefix and the element after it.
LEMMA LongerPrefix ==
  ASSUME NEW S, NEW s \in Seq(S), NEW n \in Nat, n < Len(s)
  PROVE  SubSeq(s, 1, n) \o <<s[n + 1]>> = SubSeq(s, 1, n + 1)
<1>1. 1 \in 1..Len(s) /\ n + 1 \in 1..Len(s) /\ (n + 1) - 1 = n
  OBVIOUS
<1> QED BY <1>1, SubSeqRecursiveSecond

\* A prefix of a sequence, put together from the messages behind its first t elements and then
\* one by one.
LEMMA PrefixFlattened ==
  ASSUME NEW S, NEW s \in Seq(S), NEW t \in Nat, NEW n \in Nat \ {0}, NEW q, Len(q) = n,
         q[1] = SubSeq(s, 1, t), \A i \in 2..n : q[i] = <<s[t + i - 1]>>, t + n <= Len(s) + 1
  PROVE  FlattenSeq(q) = SubSeq(s, 1, t + n - 1)
<1> DEFINE g == CHOOSE flatten : flatten = [i \in 1..Len(q) |->
                  IF i = 1 THEN q[i] ELSE flatten[i - 1] \o q[i]]
           P(i) == SubSeq(s, 1, t + i - 1)
           f == [i \in 1..n |-> P(i)]
           Bad == {i \in 1..n : g[i] # f[i]}
<1>1. FlattenSeq(q) = g[n]
  BY Zenon DEF FlattenSeq
<1>2. ASSUME NEW i \in 2..n PROVE P(i - 1) \o q[i] = P(i)
  <2>1. t + (i - 1) - 1 \in Nat /\ t + (i - 1) - 1 < Len(s) /\ (t + (i - 1) - 1) + 1 = t + i - 1
    OBVIOUS
  <2> QED BY <2>1, LongerPrefix
<1>3. \E flatten : flatten = [i \in 1..Len(q) |->
        IF i = 1 THEN q[i] ELSE flatten[i - 1] \o q[i]]
  <2>1. ASSUME NEW i \in 1..n PROVE f[i] = IF i = 1 THEN q[i] ELSE f[i - 1] \o q[i]
    <3>1. CASE i = 1
      <4>1. t + i - 1 = t
        BY <3>1
      <4> QED BY <3>1, <4>1
    <3>2. CASE i # 1
      <4>1. i \in 2..n /\ i - 1 \in 1..n
        BY <3>2
      <4>2. f[i] = P(i) /\ f[i - 1] = P(i - 1)
        BY <4>1
      <4> HIDE DEF f, P
      <4> QED BY <3>2, <4>1, <4>2, <1>2
    <3> QED BY <3>1, <3>2
  <2>2. f = [i \in 1..Len(q) |-> IF i = 1 THEN q[i] ELSE f[i - 1] \o q[i]]
    BY <2>1
  <2> QED BY <2>2
<1>4. g = [i \in 1..Len(q) |-> IF i = 1 THEN q[i] ELSE g[i - 1] \o q[i]]
  BY <1>3, Zenon
<1> HIDE DEF g
<1>5. f[1] = q[1]
  <2>1. t + 1 - 1 = t
    OBVIOUS
  <2> QED BY <2>1
<1>7. f[n] = P(n)
  OBVIOUS
<1>8. ASSUME NEW i \in 2..n PROVE f[i - 1] \o q[i] = f[i]
  <2>1. i - 1 \in 1..n /\ i \in 1..n
    OBVIOUS
  <2>2. f[i] = P(i) /\ f[i - 1] = P(i - 1)
    BY <2>1
  <2> HIDE DEF f
  <2> QED BY <2>2, <1>2
<1> HIDE DEF f
<1>6. Bad = {}
  <2>1. SUFFICES ASSUME Bad # {} PROVE FALSE
    OBVIOUS
  <2>2. Bad \in SUBSET Nat
    OBVIOUS
  <2>3. PICK x \in Bad : \A y \in Bad : x <= y
    BY <2>1, <2>2, Least
  <2>4. x \in 2..n /\ x - 1 \in 1..n
    BY <1>4, <1>5
  <2>5. g[x - 1] = f[x - 1]
    BY <2>3, <2>4
  <2>6. g[x] = g[x - 1] \o q[x]
    <3>1. x \in 1..Len(q) /\ x # 1
      BY <2>4
    <3>2. g[x] = IF x = 1 THEN q[x] ELSE g[x - 1] \o q[x]
      BY <1>4, <3>1
    <3> QED BY <3>1, <3>2
  <2>7. g[x] # f[x]
    BY <2>3
  <2>8. f[x - 1] \o q[x] = f[x]
    BY <1>8, <2>4
  <2> QED BY <2>5, <2>6, <2>7, <2>8
<1>9. g[n] = f[n]
  BY <1>6
<1> QED BY <1>1, <1>7, <1>9

Message == {"run", "agent"} \X Nat \X Nat
Version == Nat \X Nat \X Nat
Key == [key : Nat \X Nat, content : Seq(Message)]
History == [session : Nat, created : Nat, rows : Seq(Message), keys : SUBSET Key,
            generation : Nat, summary : Seq(Message), through : Nat]

\* What holds of every state of the store.
StoreOK(S) ==
  /\ S \in History
  /\ S.session <= S.created
  /\ S.session = 0 => S.rows = <<>>
  /\ S.generation = 0 => S.through = 0
  /\ S.generation > 0 =>
       S.through \in 1..Len(S.rows) /\ S.summary = SubSeq(S.rows, 1, S.through)

\* T is S with the messages m at the end of its history.
Grown(T, S, m) ==
  /\ T \in History
  /\ T.rows = S.rows \o m
  /\ T.session = (IF m = <<>> \/ S.session # 0 THEN S.session ELSE S.created + 1)
  /\ T.created = (IF m = <<>> \/ S.session # 0 THEN S.created ELSE S.created + 1)
  /\ T.generation = S.generation /\ T.summary = S.summary /\ T.through = S.through

\* A history that grew keeps its rows where they were.
LEMMA GrownRows ==
  ASSUME NEW S, S \in History, NEW m \in Seq(Message), NEW T, Grown(T, S, m)
  PROVE  /\ Joins(T.rows, S.rows, m)
         /\ T.rows \in Seq(Message) /\ S.rows \in Seq(Message)
         /\ m = <<>> => T.rows = S.rows
<1>1. S.rows \in Seq(Message) /\ T.rows \in Seq(Message)
  BY DEF History, Grown
<1>2. Joins(S.rows \o m, S.rows, m)
  BY <1>1, Concatenated, Zenon
<1>3. m = <<>> => S.rows \o m = S.rows
  BY <1>1, ConcatEmptySeq
<1> QED BY <1>1, <1>2, <1>3 DEF Grown

\* The row of a session, with an id of its own.
LEMMA NewSession ==
  ASSUME NEW S, S \in History
  PROVE  LET T == [S EXCEPT !.session = S.created + 1, !.created = S.created + 1] IN
         /\ T \in History /\ T.session = S.created + 1 /\ T.created = S.created + 1
         /\ T.rows = S.rows /\ T.keys = S.keys /\ T.generation = S.generation
         /\ T.summary = S.summary /\ T.through = S.through
<1>1. ASSUME NEW c \in Nat
      PROVE  LET T == [S EXCEPT !.session = c, !.created = c] IN
             /\ T \in History /\ T.session = c /\ T.created = c
             /\ T.rows = S.rows /\ T.keys = S.keys /\ T.generation = S.generation
             /\ T.summary = S.summary /\ T.through = S.through
  BY DEF History
<1>2. S.created + 1 \in Nat
  BY DEF History
<1> QED BY <1>1, <1>2, Zenon

\* Messages are inserted at the end.
LEMMA Inserted ==
  ASSUME NEW S, S \in History, NEW m \in Seq(Message)
  PROVE  Grown(insertMessages(S, m), S, m) /\ insertMessages(S, m).keys = S.keys
<1> DEFINE T == insertMessages(S, m)
<1>1. S.rows \o m \in Seq(Message) /\ S.session \in Nat /\ S.created \in Nat /\ S.rows \in Seq(Message)
  <2>1. S.rows \in Seq(Message)
    BY DEF History
  <2> QED BY <2>1, ConcatProperties DEF History
<1>2. CASE m = <<>>
  <2>1. T = S
    BY <1>2 DEF insertMessages
  <2>2. S.rows \o m = S.rows
    BY <1>1, <1>2, ConcatEmptySeq
  <2> QED BY <1>2, <2>1, <2>2 DEF Grown
<1>3. CASE m # <<>>
  <2>1. T = [upsertSession(S) EXCEPT !.rows = @ \o m]
    BY <1>3 DEF insertMessages
  <2>2. /\ upsertSession(S) \in History
        /\ upsertSession(S).rows = S.rows /\ upsertSession(S).keys = S.keys
        /\ upsertSession(S).session = (IF S.session # 0 THEN S.session ELSE S.created + 1)
        /\ upsertSession(S).created = (IF S.session # 0 THEN S.created ELSE S.created + 1)
        /\ upsertSession(S).generation = S.generation /\ upsertSession(S).summary = S.summary
        /\ upsertSession(S).through = S.through
    <3>1. CASE S.session # 0
      BY <3>1 DEF upsertSession
    <3>2. CASE S.session = 0
      <4>1. upsertSession(S) = [S EXCEPT !.session = S.created + 1, !.created = S.created + 1]
        BY <3>2 DEF upsertSession
      <4> QED BY <3>2, <4>1, NewSession DEF History
    <3> QED BY <3>1, <3>2
  <2> DEFINE U == upsertSession(S)
  <2> HIDE DEF U
  <2>3. T = [U EXCEPT !.rows = S.rows \o m]
    BY <2>1, <2>2 DEF U
  <2> DEFINE r == S.rows \o m
  <2>4. r \in Seq(Message)
    BY <1>1
  <2> HIDE DEF r, T
  <2>5. T = [U EXCEPT !.rows = r]
    BY <2>3 DEF r
  <2>6. T \in History /\ T.rows = r /\ T.session = U.session /\ T.created = U.created
        /\ T.generation = U.generation /\ T.summary = U.summary /\ T.through = U.through
        /\ T.keys = U.keys
    BY <2>2, <2>4, <2>5 DEF History, U
  <2> QED BY <1>3, <2>2, <2>6 DEF Grown, r, T, U
<1> QED BY <1>2, <1>3

\* What keeps the store sound: messages at the end, a session without messages, clear(), and a
\* summary of a prefix.
LEMMA GrownOK ==
  ASSUME NEW S, StoreOK(S), NEW m \in Seq(Message), NEW T, Grown(T, S, m)
  PROVE  StoreOK(T)
<1>1. S \in History /\ T \in History
  BY DEF StoreOK, Grown
<1>2. Joins(T.rows, S.rows, m) /\ T.rows \in Seq(Message) /\ S.rows \in Seq(Message)
      /\ (m = <<>> => T.rows = S.rows)
  BY <1>1, GrownRows
<1>3. S.session \in Nat /\ S.created \in Nat /\ Len(S.rows) \in Nat /\ Len(m) \in Nat
      /\ S.generation \in Nat /\ S.through \in Nat
  BY <1>1, <1>2 DEF History
<1>4. T.session <= T.created /\ (T.session = 0 => T.rows = <<>>)
  BY <1>2, <1>3 DEF Grown, StoreOK
<1>5. ASSUME T.generation > 0
      PROVE  T.through \in 1..Len(T.rows) /\ T.summary = SubSeq(T.rows, 1, T.through)
  <2>1. S.through \in 1..Len(S.rows) /\ S.summary = SubSeq(S.rows, 1, S.through)
        /\ T.through = S.through /\ T.summary = S.summary
    BY <1>5 DEF Grown, StoreOK
  <2>2. Len(T.rows) = Len(S.rows) + Len(m)
    BY <1>2 DEF Joins
  <2>3. SubSeq(T.rows, 1, S.through) = SubSeq(S.rows, 1, S.through)
    <3>1. \A i \in 1..S.through : T.rows[i] = S.rows[i]
      BY <1>2, <2>1, <1>3 DEF Joins
    <3>2. /\ SubSeq(T.rows, 1, S.through) = [i \in 1..S.through |-> T.rows[i]]
          /\ SubSeq(S.rows, 1, S.through) = [i \in 1..S.through |-> S.rows[i]]
      BY <1>2, <1>3, <2>1, <2>2
    <3> QED BY <3>1, <3>2
  <2> QED BY <1>3, <2>1, <2>2, <2>3
<1> QED BY <1>1, <1>4, <1>5 DEF StoreOK, Grown

\* A session without messages.
LEMMA Upserted ==
  ASSUME NEW S, StoreOK(S)
  PROVE  LET T == upsertSession(S) IN
         /\ StoreOK(T)
         /\ T.rows = S.rows /\ T.keys = S.keys
         /\ T.generation = S.generation
         /\ T.created >= S.created
         /\ S.session # 0 => T = S
         /\ S.session = 0 => T.session = S.created + 1
<1> DEFINE T == upsertSession(S)
<1>1. CASE S.session # 0
  BY <1>1 DEF upsertSession, StoreOK, History
<1>2. CASE S.session = 0
  <2>1. T = [S EXCEPT !.session = S.created + 1, !.created = S.created + 1]
    BY <1>2 DEF upsertSession
  <2>2. S \in History
    BY DEF StoreOK
  <2> HIDE DEF T
  <2>3. /\ T \in History /\ T.session = S.created + 1 /\ T.created = S.created + 1
        /\ T.rows = S.rows /\ T.keys = S.keys /\ T.generation = S.generation
        /\ T.summary = S.summary /\ T.through = S.through
    BY <2>1, <2>2, NewSession
  <2>4. S.created \in Nat
    BY <2>2 DEF History
  <2>5. StoreOK(T)
    BY <2>3, <2>4 DEF StoreOK
  <2> QED BY <1>2, <2>3, <2>4, <2>5 DEF T
<1> QED BY <1>1, <1>2

\* clear() leaves the keys.
LEMMA Cleared ==
  ASSUME NEW S, StoreOK(S)
  PROVE  LET T == clear(S) IN
         /\ StoreOK(T)
         /\ T.rows = <<>> /\ T.keys = S.keys /\ T.session = 0 /\ T.created = S.created
         /\ T.generation = 0 /\ T.through = 0
<1> DEFINE T == clear(S)
<1>1. T = [S EXCEPT !.session = 0, !.rows = <<>>, !.generation = 0, !.summary = <<>>, !.through = 0]
  BY DEF clear
<1>2. S \in History /\ <<>> \in Seq(Message)
  BY DEF StoreOK
<1> HIDE DEF T
<1>3. /\ T \in History /\ T.session = 0 /\ T.created = S.created
      /\ T.rows = <<>> /\ T.keys = S.keys /\ T.generation = 0 /\ T.through = 0
  BY <1>1, <1>2 DEF History
<1>4. StoreOK(T)
  BY <1>2, <1>3 DEF StoreOK, History
<1> QED BY <1>3, <1>4 DEF T

-----------------------------------------------------------------------------
(* Compaction.                                                              *)

\* Where the rows of a prefix of the compacted history are, beyond the summary.
LEMMA Projected ==
  ASSUME NEW S, StoreOK(S)
  PROVE  /\ Len(projectedMessages(S)) =
              Len(S.rows) - S.through + (IF S.generation = 0 THEN 0 ELSE 1)
         /\ Len(activeCompactionRows(S)) = Len(S.rows) - S.through
         /\ S.generation = 0 =>
              \A i \in 1..Len(S.rows) : projectedMessages(S)[i] = <<S.rows[i]>>
         /\ S.generation # 0 =>
              /\ projectedMessages(S)[1] = S.summary
              /\ \A i \in 2..Len(S.rows) - S.through + 1 :
                   projectedMessages(S)[i] = <<S.rows[S.through + i - 1]>>
         /\ S.through \in 0..Len(S.rows) /\ Len(S.rows) \in Nat
         /\ projectedMessages(S) \in Seq(Seq(Message))
<1> DEFINE active == activeCompactionRows(S)
           each == [i \in DOMAIN active |-> <<active[i]>>]
           n == Len(S.rows) - S.through
<1>1. S.rows \in Seq(Message) /\ Len(S.rows) \in Nat /\ S.generation \in Nat /\ S.through \in Nat
      /\ S.summary \in Seq(Message)
  BY DEF StoreOK, History
<1>2. S.through \in 0..Len(S.rows) /\ (S.generation = 0 => S.through = 0)
  BY <1>1 DEF StoreOK
<1>3. active \in Seq(Message) /\ Len(active) = n /\ \A i \in 1..n : active[i] = S.rows[S.through + i]
  <2>1. /\ S.through + 1 \in Int /\ Len(S.rows) \in Int
        /\ \A i \in S.through + 1..Len(S.rows) : S.rows[i] \in Message
    BY <1>1, <1>2
  <2> DEFINE a == S.through + 1 b == Len(S.rows)
  <2>2. a \in Int /\ b \in Int /\ \A i \in a..b : S.rows[i] \in Message
    BY <2>1
  <2>3. /\ b - a + 1 = n /\ (IF a <= b THEN b - a + 1 ELSE 0) = n
        /\ \A i \in 1..n : a + i - 1 = S.through + i
    BY <1>1, <1>2
  <2>4. active = SubSeq(S.rows, a, b)
    BY DEF activeCompactionRows
  <2> HIDE DEF a, b, active, n
  <2>5. /\ SubSeq(S.rows, a, b) \in Seq(Message)
        /\ Len(SubSeq(S.rows, a, b)) = IF a <= b THEN b - a + 1 ELSE 0
        /\ \A i \in 1..b - a + 1 : SubSeq(S.rows, a, b)[i] = S.rows[a + i - 1]
    BY <2>2, SubSeqProperties
  <2> QED BY <2>3, <2>4, <2>5
<1>4. n \in Nat
  BY <1>1, <1>2
<1> HIDE DEF active, n
<1>5. each \in Seq(Seq(Message)) /\ Len(each) = n /\ \A i \in 1..n : each[i] = <<S.rows[S.through + i]>>
  <2>1. DOMAIN active = 1..n
    BY <1>3, <1>4
  <2>2. \A i \in 1..n : <<active[i]>> \in Seq(Message)
    BY <1>3, <2>1
  <2> QED BY <1>3, <1>4, <2>1, <2>2
<1> HIDE DEF each
<1>6. projectedMessages(S) = IF S.generation = 0 THEN each ELSE <<S.summary>> \o each
  BY Zenon DEF projectedMessages, each, active
<1>7. CASE S.generation = 0
  <2>1. projectedMessages(S) = each /\ n = Len(S.rows) /\ S.through = 0
    BY <1>1, <1>2, <1>6, <1>7 DEF n
  <2>2. \A i \in 1..Len(S.rows) : S.through + i = i
    BY <2>1
  <2> QED BY <1>1, <1>2, <1>3, <1>5, <1>7, <2>1, <2>2 DEF n, active
<1>8. CASE S.generation # 0
  <2> DEFINE q == projectedMessages(S) h == <<S.summary>>
  <2>1. h \in Seq(Seq(Message)) /\ Len(h) = 1 /\ h[1] = S.summary
    BY <1>1
  <2>2. q = h \o each
    BY <1>6, <1>8
  <2> HIDE DEF h, q
  <2>3. q \in Seq(Seq(Message)) /\ Joins(q, h, each)
    BY <1>5, <2>1, <2>2, Concatenated, Zenon
  <2>4. Len(q) = 1 + n /\ q[1] = S.summary /\ \A i \in 1..n : q[1 + i] = each[i]
    BY <1>5, <2>1, <2>3 DEF Joins
  <2>5. ASSUME NEW i \in 2..n + 1 PROVE q[i] = <<S.rows[S.through + i - 1]>>
    <3>1. i - 1 \in 1..n /\ 1 + (i - 1) = i /\ S.through + (i - 1) = S.through + i - 1
      BY <1>1, <1>4
    <3>2. q[i] = each[i - 1] /\ each[i - 1] = <<S.rows[S.through + (i - 1)]>>
      BY <1>5, <2>4, <3>1
    <3> QED BY <3>1, <3>2
  <2>6. Len(q) = n + 1
    BY <1>4, <2>4
  <2> QED BY <1>1, <1>2, <1>3, <1>8, <2>3, <2>4, <2>5, <2>6 DEF n, q, active
<1> QED BY <1>7, <1>8

\* The summary made of a prefix of the compacted history stands for the rows it hides.
LEMMA PrefixReplaced ==
  ASSUME NEW S, StoreOK(S), NEW count \in Nat \ {0}, NEW revision, Replaceable(S, revision, count),
         NEW prefix, prefix = SubSeq(projectedMessages(S), 1, count)
  PROVE  LET T == replaceCompactionPrefix(S, count, FlattenSeq(prefix)) IN
         /\ StoreOK(T)
         /\ T.rows = S.rows /\ T.keys = S.keys /\ T.session = S.session /\ T.created = S.created
         /\ T.generation = S.generation + 1
<1> DEFINE all == projectedMessages(S) r == FlattenSeq(prefix) t == S.through + Physical(S, count)
           T == replaceCompactionPrefix(S, count, r)
<1>1. /\ S \in History /\ S.rows \in Seq(Message) /\ Len(S.rows) \in Nat /\ S.generation \in Nat
      /\ S.through \in 0..Len(S.rows) /\ (S.generation = 0 => S.through = 0)
      /\ all \in Seq(Seq(Message))
  BY Projected DEF StoreOK, History
<1>2. Physical(S, count) = count - (IF S.generation = 0 THEN 0 ELSE 1)
      /\ Physical(S, count) \in 0..Len(S.rows) - S.through
  BY Projected DEF Replaceable, Physical
<1>3. count <= Len(all)
  BY <1>1, <1>2, Projected
<1>4. Len(prefix) = count /\ \A i \in 1..count : prefix[i] = all[i]
  BY <1>1, <1>3
<1>5. t \in 1..Len(S.rows)
  <2>1. CASE S.generation = 0
    BY <1>1, <1>2, <2>1
  <2>2. CASE S.generation # 0
    <3>1. S.through \in 1..Len(S.rows)
      BY <1>1, <2>2 DEF StoreOK
    <3> QED BY <1>1, <1>2, <3>1
  <2> QED BY <2>1, <2>2
<1> HIDE DEF all
<1>6. r = SubSeq(S.rows, 1, t)
  <2>1. CASE S.generation = 0
    <3>1. /\ t = 1 + count - 1 /\ 1 + count <= Len(S.rows) + 1 /\ 1 \in Nat
          /\ \A i \in 2..count : 1 + i - 1 = i
      BY <1>1, <1>2, <2>1
    <3>2. \A i \in 1..count : i \in 1..Len(S.rows)
      BY <1>1, <1>2, <2>1
    <3>3. \A i \in 1..count : prefix[i] = <<S.rows[i]>>
      BY <1>4, <2>1, <3>2, Projected DEF all
    <3>4. prefix[1] = SubSeq(S.rows, 1, 1)
      <4>1. prefix[1] = <<S.rows[1]>> /\ Len(S.rows) >= 1
        BY <1>1, <3>2, <3>3
      <4> QED BY <1>1, <4>1
    <3>5. \A i \in 2..count : prefix[i] = <<S.rows[1 + i - 1]>>
      BY <3>1, <3>3
    <3>6. r = SubSeq(S.rows, 1, 1 + count - 1)
      <4>1. S.rows \in Seq(Message) /\ 1 \in Nat /\ Len(prefix) = count
        BY <1>1, <1>4
      <4>2. 1 + count <= Len(S.rows) + 1
        BY <3>1
      <4> QED BY <4>1, <4>2, <3>4, <3>5, PrefixFlattened, Zenon
    <3> QED BY <3>1, <3>6
  <2>2. CASE S.generation # 0
    <3>1. /\ t = S.through + count - 1 /\ S.through + count <= Len(S.rows) + 1 /\ S.through \in Nat
          /\ \A i \in 2..count : i \in 2..Len(S.rows) - S.through + 1
      BY <1>1, <1>2, <2>2
    <3>2. prefix[1] = SubSeq(S.rows, 1, S.through)
      <4>1. prefix[1] = S.summary
        BY <1>4, <2>2, Projected DEF all
      <4>2. S.summary = SubSeq(S.rows, 1, S.through)
        BY <1>1, <2>2 DEF StoreOK
      <4> QED BY <4>1, <4>2
    <3>3. \A i \in 2..count : prefix[i] = <<S.rows[S.through + i - 1]>>
      <4>1. \A i \in 2..Len(S.rows) - S.through + 1 : all[i] = <<S.rows[S.through + i - 1]>>
        BY <2>2, Projected DEF all
      <4>2. \A i \in 2..count : i \in 1..count
        OBVIOUS
      <4> QED BY <1>4, <3>1, <4>1, <4>2
    <3>4. r = SubSeq(S.rows, 1, S.through + count - 1)
      <4>1. S.rows \in Seq(Message) /\ S.through \in Nat /\ Len(prefix) = count
        BY <1>1, <1>4
      <4>2. S.through + count <= Len(S.rows) + 1
        BY <3>1
      <4> QED BY <4>1, <4>2, <3>2, <3>3, PrefixFlattened, Zenon
    <3> QED BY <3>1, <3>4
  <2> QED BY <2>1, <2>2
<1>7. r \in Seq(Message)
  <2>1. ASSUME NEW x \in 1..Len(S.rows) PROVE SubSeq(S.rows, 1, x) \in Seq(Message)
    BY <1>1
  <2> QED BY <1>5, <1>6, <2>1
<1>8. T = [S EXCEPT !.generation = S.generation + 1, !.summary = r, !.through = t]
  BY DEF replaceCompactionPrefix
<1>9. t \in Nat /\ S.generation + 1 \in Nat \ {0}
  BY <1>1, <1>5
<1> HIDE DEF r, t, T
<1>11. /\ T \in History /\ T.session = S.session /\ T.created = S.created
       /\ T.rows = S.rows /\ T.keys = S.keys /\ T.generation = S.generation + 1
       /\ T.summary = r /\ T.through = t
  <2> DEFINE g == S.generation + 1
  <2>1. g \in Nat /\ t \in Nat /\ T = [S EXCEPT !.generation = g, !.summary = r, !.through = t]
    BY <1>8, <1>9
  <2> HIDE DEF g
  <2>2. LET U == [S EXCEPT !.generation = g, !.summary = r, !.through = t] IN
        /\ U \in History /\ U.session = S.session /\ U.created = S.created
        /\ U.rows = S.rows /\ U.keys = S.keys /\ U.generation = g
        /\ U.summary = r /\ U.through = t
    BY <1>1, <1>7, <2>1 DEF History
  <2> QED BY <2>1, <2>2 DEF g
<1>12. StoreOK(T)
  BY <1>5, <1>6, <1>9, <1>11 DEF StoreOK
<1> QED BY <1>11, <1>12 DEF T, r

\* A compaction under way: its revision names rows that stay where they are, and while the
\* history has that revision, the prefix it summarises is one of the compacted history.
Compacting(S, A) ==
  /\ Len(A.prefix) \in Nat \ {0}
  /\ \E R \in SUBSET (Nat \X Nat) :
       /\ A.revision[2] = R /\ R # {}
       /\ \A x \in R : x[1] \in 1..S.created /\ (x[1] = S.session => x[2] <= Len(S.rows))
  /\ compactionRevision(S) = A.revision =>
       A.prefix = SubSeq(projectedMessages(S), 1, Len(A.prefix))

\* What a snapshot gives to the compactor.
LEMMA SnapshotTaken ==
  ASSUME NEW S, StoreOK(S), NEW A, NEW count \in 1..Len(projectedMessages(S)),
         A.revision = compactionRevision(S),
         A.prefix = SubSeq(projectedMessages(S), 1, count)
  PROVE  Compacting(S, A)
<1> DEFINE R == compactionRows(S) low == IF S.generation = 0 THEN 1 ELSE S.through
<1>1. /\ S.rows \in Seq(Message) /\ Len(S.rows) \in Nat /\ S.generation \in Nat /\ S.session \in Nat
      /\ S.created \in Nat /\ S.through \in 0..Len(S.rows) /\ projectedMessages(S) \in Seq(Seq(Message))
      /\ S.session <= S.created
  BY Projected DEF StoreOK, History
<1>2. Len(A.prefix) = count
  BY <1>1
<1>3. R = {<<S.session, p>> : p \in low..Len(S.rows)}
  BY DEF compactionRows
<1>4. low \in 1..Len(S.rows)
  <2>1. CASE S.generation = 0
    <3>1. Len(projectedMessages(S)) = Len(S.rows)
      BY <1>1, <2>1, Projected DEF StoreOK
    <3> QED BY <1>1, <2>1, <3>1
  <2>2. CASE S.generation # 0
    BY <1>1, <2>2 DEF StoreOK
  <2> QED BY <2>1, <2>2
<1>5. S.session # 0
  <2>1. S.rows # <<>>
    BY <1>1, <1>4
  <2> QED BY <2>1 DEF StoreOK
<1> HIDE DEF low, R
<1>6. R \in SUBSET (Nat \X Nat) /\ R # {}
  <2>1. \A p \in low..Len(S.rows) : <<S.session, p>> \in Nat \X Nat
    BY <1>1, <1>4
  <2>2. <<S.session, low>> \in R
    BY <1>3, <1>4
  <2> QED BY <1>3, <2>1, <2>2
<1>7. \A x \in R : x[1] \in 1..S.created /\ (x[1] = S.session => x[2] <= Len(S.rows))
  BY <1>1, <1>3, <1>4, <1>5
<1>8. A.revision[2] = R
  BY DEF compactionRevision, R
<1> QED BY <1>2, <1>6, <1>7, <1>8 DEF Compacting

\* New rows end the revision of a snapshot for good.
LEMMA CompactingGrown ==
  ASSUME NEW S, StoreOK(S), NEW m \in Seq(Message), NEW T, Grown(T, S, m), NEW A, Compacting(S, A)
  PROVE  Compacting(T, A)
<1>1. StoreOK(T)
  BY GrownOK
<1>2. /\ S.rows \in Seq(Message) /\ Len(S.rows) \in Nat /\ S.session \in Nat /\ S.created \in Nat
      /\ T.rows \in Seq(Message) /\ Len(T.rows) = Len(S.rows) + Len(m) /\ Len(m) \in Nat
      /\ T.session \in Nat /\ T.created \in Nat /\ S.session <= S.created
  <2>1. S \in History /\ T \in History /\ S.session <= S.created
    BY <1>1 DEF StoreOK
  <2>2. Joins(T.rows, S.rows, m)
    BY <2>1, GrownRows
  <2>3. S.rows \in Seq(Message) /\ T.rows \in Seq(Message)
    BY <2>1 DEF History
  <2> QED BY <2>1, <2>2, <2>3 DEF History, Joins
<1>3. PICK R \in SUBSET (Nat \X Nat) :
        /\ A.revision[2] = R /\ R # {}
        /\ \A x \in R : x[1] \in 1..S.created /\ (x[1] = S.session => x[2] <= Len(S.rows))
  BY DEF Compacting
<1>4. ASSUME NEW x \in R PROVE x[1] \in 1..T.created /\ (x[1] = T.session => x[2] <= Len(T.rows))
  <2>1. x[1] \in 1..S.created /\ (x[1] = S.session => x[2] <= Len(S.rows)) /\ x[2] \in Nat
    BY <1>3
  <2>2. S.created <= T.created /\ (T.session = S.session \/ T.session = S.created + 1)
    BY <1>2 DEF Grown
  <2> QED BY <1>2, <2>1, <2>2
<1>5. ASSUME compactionRevision(T) = A.revision
      PROVE  A.prefix = SubSeq(projectedMessages(T), 1, Len(A.prefix))
  <2>1. CASE m = <<>>
    <3>1. /\ T.rows = S.rows /\ T.session = S.session /\ T.generation = S.generation
          /\ T.summary = S.summary /\ T.through = S.through
      BY <2>1, GrownRows DEF Grown, StoreOK
    <3>2. compactionRevision(T) = compactionRevision(S)
      BY <3>1, Zenon DEF compactionRevision, compactionRows
    <3>3. projectedMessages(T) = projectedMessages(S)
      BY <3>1, Zenon DEF projectedMessages, activeCompactionRows
    <3> QED BY <1>5, <3>2, <3>3 DEF Compacting
  <2>2. CASE m # <<>>
    <3> DEFINE x == <<T.session, Len(T.rows)>> low == IF T.generation = 0 THEN 1 ELSE T.through
    <3>1. Len(m) > 0
      BY <2>2
    <3>2. x \in compactionRows(T)
      <4>1. low \in Nat /\ low <= Len(T.rows)
        BY <1>1, <1>2, <3>1 DEF StoreOK, History
      <4>2. Len(T.rows) \in low..Len(T.rows)
        BY <1>2, <4>1
      <4>3. compactionRows(T) = {<<T.session, p>> : p \in low..Len(T.rows)}
        BY DEF compactionRows
      <4> HIDE DEF low
      <4> QED BY <4>2, <4>3
    <3>3. compactionRows(T) = R
      BY <1>3, <1>5 DEF compactionRevision
    <3>4. x[1] \in 1..S.created /\ (x[1] = S.session => x[2] <= Len(S.rows))
      BY <1>3, <3>2, <3>3
    <3>5. T.session = S.session \/ T.session = S.created + 1
      BY DEF Grown
    <3> QED BY <1>2, <3>1, <3>4, <3>5
  <2> QED BY <2>1, <2>2
<1>6. Len(A.prefix) \in Nat \ {0}
  BY DEF Compacting
<1> QED BY <1>3, <1>4, <1>5, <1>6 DEF Compacting

\* So does clear().
LEMMA CompactingCleared ==
  ASSUME NEW S, StoreOK(S), NEW A, Compacting(S, A)
  PROVE  Compacting(clear(S), A)
<1> DEFINE T == clear(S)
<1>1. T.rows = <<>> /\ T.session = 0 /\ T.created = S.created /\ T.generation = 0
  BY Cleared
<1> HIDE DEF T
<1>2. PICK R \in SUBSET (Nat \X Nat) :
        /\ A.revision[2] = R /\ R # {}
        /\ \A x \in R : x[1] \in 1..S.created /\ (x[1] = S.session => x[2] <= Len(S.rows))
  BY DEF Compacting
<1>3. compactionRows(T) = {}
  <2>1. Len(T.rows) = 0 /\ 1..0 = {}
    BY <1>1
  <2>2. compactionRows(T) = {<<T.session, p>> : p \in 1..0}
    BY <1>1, <2>1 DEF compactionRows
  <2> QED BY <2>1, <2>2
<1>4. compactionRevision(T) # A.revision
  BY <1>2, <1>3 DEF compactionRevision
<1>5. \A x \in R : x[1] \in 1..T.created /\ (x[1] = T.session => x[2] <= Len(T.rows))
  <2>1. S.created \in Nat
    BY DEF StoreOK, History
  <2> QED BY <1>1, <1>2, <2>1
<1> QED BY <1>2, <1>4, <1>5 DEF Compacting, T

-----------------------------------------------------------------------------
(* Versions.                                                                *)

\* Nobody but runs has added to the history known, and nobody has taken from it.
Same(rows, known) ==
  IsPrefix(known, rows) /\ \A i \in Len(known) + 1..Len(rows) : rows[i][1] = "run"

\* The version v belongs to a history that was the one known: it cannot come back.
Fits(S, known, v) ==
  /\ v \in Version
  /\ v = Empty => known = <<>>
  /\ v # Empty => v[1] \in 1..S.created /\
       (v[1] = S.session => v[2] <= Len(S.rows) /\ v[3] <= S.generation)
  /\ v = currentVersion(S) => Same(S.rows, known)

\* The current version of a store.
LEMMA VersionNow ==
  ASSUME NEW S, StoreOK(S)
  PROVE  /\ currentVersion(S) \in Version
         /\ S.rows = <<>> => currentVersion(S) = Empty
         /\ S.rows # <<>> => /\ currentVersion(S) = <<S.session, Len(S.rows), S.generation>>
                             /\ S.session \in 1..S.created
         /\ currentVersion(S) = Empty <=> S.rows = <<>>
<1>1. S.session \in Nat /\ S.created \in Nat /\ S.session <= S.created /\ Len(S.rows) \in Nat
      /\ S.generation \in Nat /\ (S.session = 0 => S.rows = <<>>)
  BY DEF StoreOK, History
<1>2. CASE S.rows = <<>>
  BY <1>2 DEF currentVersion, Empty, Version
<1>3. CASE S.rows # <<>>
  <2>1. S.session \in 1..S.created
    BY <1>1, <1>3
  <2>2. currentVersion(S) = <<S.session, Len(S.rows), S.generation>>
    BY <1>3 DEF currentVersion
  <2> QED BY <1>1, <1>3, <2>1, <2>2 DEF Empty, Version
<1> QED BY <1>2, <1>3

\* Once the history has grown, it never has an earlier version again.
LEMMA FitsGrown ==
  ASSUME NEW S, StoreOK(S), NEW m \in Seq(Message), NEW T, Grown(T, S, m),
         NEW known, NEW v, Fits(S, known, v)
  PROVE  Fits(T, known, v)
<1>1. StoreOK(T)
  BY GrownOK
<1>2. /\ Len(S.rows) \in Nat /\ S.session \in Nat /\ S.created \in Nat
      /\ Len(T.rows) = Len(S.rows) + Len(m) /\ Len(m) \in Nat
      /\ T.session \in Nat /\ T.created \in Nat /\ S.session <= S.created
  <2>1. S \in History /\ T \in History /\ S.session <= S.created
    BY <1>1 DEF StoreOK
  <2>2. Joins(T.rows, S.rows, m)
    BY <2>1, GrownRows
  <2>3. S.rows \in Seq(Message) /\ T.rows \in Seq(Message)
    BY <2>1 DEF History
  <2> QED BY <2>1, <2>2, <2>3 DEF History, Joins
<1>3. CASE m = <<>>
  <2>1. T.rows = S.rows /\ T.session = S.session /\ T.generation = S.generation /\ T.created = S.created
    BY <1>3, GrownRows DEF Grown, StoreOK
  <2>2. currentVersion(T) = currentVersion(S)
    BY <2>1, Zenon DEF currentVersion
  <2> QED BY <2>1, <2>2 DEF Fits
<1>4. CASE m # <<>>
  <2>1. Len(m) > 0 /\ T.rows # <<>>
    BY <1>2, <1>4
  <2>2. currentVersion(T) = <<T.session, Len(T.rows), T.generation>> /\ currentVersion(T) # Empty
    BY <1>1, <2>1, VersionNow
  <2>3. \/ T.session = S.session /\ T.created = S.created
        \/ T.session = S.created + 1 /\ T.created = S.created + 1
    <3>1. /\ T.session = (IF S.session # 0 THEN S.session ELSE S.created + 1)
          /\ T.created = (IF S.session # 0 THEN S.created ELSE S.created + 1)
      BY <1>4, Zenon DEF Grown
    <3> QED BY <3>1
  <2>4. v # Empty => v[1] \in 1..S.created /\ (v[1] = S.session => v[2] <= Len(S.rows) /\ v[3] <= S.generation)
    BY DEF Fits
  <2>5. v # currentVersion(T)
    <3>1. ASSUME v = currentVersion(T) PROVE FALSE
      <4>1. v # Empty /\ v[1] = T.session /\ v[2] = Len(T.rows)
        BY <2>2, <3>1
      <4> QED BY <1>2, <2>1, <2>3, <2>4, <4>1
    <3> QED BY <3>1
  <2>6. v # Empty => v[1] \in 1..T.created /\ (v[1] = T.session => v[2] <= Len(T.rows) /\ v[3] <= T.generation)
    <3>1. v # Empty => v[2] \in Nat
      BY DEF Fits, Version
    <3>2. T.generation = S.generation
      BY DEF Grown
    <3> QED BY <1>2, <2>3, <2>4, <3>1, <3>2
  <2> QED BY <2>5, <2>6 DEF Fits
<1> QED BY <1>3, <1>4

\* Nor after a compaction.
LEMMA FitsCompacted ==
  ASSUME NEW S, StoreOK(S), NEW T, T.rows = S.rows, T.session = S.session, T.created = S.created,
         T.generation = S.generation + 1, StoreOK(T),
         NEW known, NEW v, Fits(S, known, v)
  PROVE  Fits(T, known, v)
<1>1. S.generation \in Nat /\ S.created \in Nat
  BY DEF StoreOK, History
<1>2. CASE S.rows = <<>>
  <2>1. currentVersion(T) = currentVersion(S)
    BY <1>2, VersionNow
  <2>2. v # Empty => v[3] \in Nat
    BY DEF Fits, Version
  <2> QED BY <1>1, <2>1, <2>2 DEF Fits
<1>3. CASE S.rows # <<>>
  <2>1. currentVersion(T) = <<T.session, Len(T.rows), T.generation>> /\ currentVersion(T) # Empty
    BY <1>3, VersionNow
  <2>2. v # Empty => v[1] \in 1..S.created /\ (v[1] = S.session => v[2] <= Len(S.rows) /\ v[3] <= S.generation)
                     /\ v[3] \in Nat
    BY DEF Fits, Version
  <2>3. v # currentVersion(T)
    <3>1. ASSUME v = currentVersion(T) PROVE FALSE
      <4>1. v # Empty /\ v[1] = T.session /\ v[3] = T.generation
        BY <2>1, <3>1
      <4> QED BY <1>1, <2>2, <4>1
    <3> QED BY <3>1
  <2> QED BY <1>1, <2>2, <2>3 DEF Fits
<1> QED BY <1>2, <1>3

\* Nor after clear(), which empties what was known to be empty only.
LEMMA FitsCleared ==
  ASSUME NEW S, StoreOK(S), NEW known, NEW v, Fits(S, known, v)
  PROVE  Fits(clear(S), known, v)
<1> DEFINE T == clear(S)
<1>1. T.rows = <<>> /\ T.session = 0 /\ T.created = S.created /\ T.generation = 0 /\ StoreOK(T)
  BY Cleared
<1> HIDE DEF T
<1>2. currentVersion(T) = Empty
  BY <1>1, VersionNow
<1>3. v = Empty => Same(T.rows, known)
  <2>1. SUFFICES ASSUME v = Empty PROVE Same(T.rows, <<>>)
    BY DEF Fits
  <2>2. IsPrefix(<<>>, <<>>)
    BY DEF IsPrefix
  <2>3. Len(<<>>) + 1..Len(<<>>) = {}
    OBVIOUS
  <2> QED BY <1>1, <2>2, <2>3 DEF Same
<1>4. S.created \in Nat
  BY DEF StoreOK, History
<1> QED BY <1>1, <1>2, <1>3, <1>4 DEF Fits, T

\* A session without messages changes no version.
LEMMA FitsUpserted ==
  ASSUME NEW S, StoreOK(S), NEW known, NEW v, Fits(S, known, v)
  PROVE  Fits(upsertSession(S), known, v)
<1> DEFINE T == upsertSession(S)
<1>1. /\ StoreOK(T)
      /\ T.rows = S.rows /\ T.generation = S.generation /\ T.created >= S.created
      /\ S.session # 0 => T = S
      /\ S.session = 0 => T.session = S.created + 1
  BY Upserted
<1> HIDE DEF T
<1>2. CASE S.session # 0
  BY <1>1, <1>2 DEF T
<1>3. CASE S.session = 0
  <2>1. S.rows = <<>> /\ S.created \in Nat /\ T.created \in Nat
    BY <1>1, <1>3 DEF StoreOK, History
  <2>2. currentVersion(T) = currentVersion(S)
    BY <1>1, <2>1, VersionNow
  <2> QED BY <1>1, <1>3, <2>1, <2>2 DEF Fits, T
<1> QED BY <1>2, <1>3

\* A read of the history.
LEMMA FitsNow ==
  ASSUME NEW S, StoreOK(S)
  PROVE  Fits(S, S.rows, currentVersion(S))
<1>1. S.rows \in Seq(Message) /\ Len(S.rows) \in Nat /\ S.generation \in Nat
  BY DEF StoreOK, History
<1>2. Same(S.rows, S.rows)
  <2>1. IsPrefix(S.rows, S.rows)
    BY <1>1 DEF IsPrefix
  <2>2. Len(S.rows) + 1..Len(S.rows) = {}
    BY <1>1
  <2> QED BY <2>1, <2>2 DEF Same
<1>3. /\ currentVersion(S) \in Version
      /\ S.rows # <<>> => /\ currentVersion(S) = <<S.session, Len(S.rows), S.generation>>
                          /\ S.session \in 1..S.created
      /\ currentVersion(S) = Empty <=> S.rows = <<>>
  BY VersionNow
<1> QED BY <1>1, <1>2, <1>3 DEF Fits

\* A write of the run on top of a history that is the one known.
LEMMA FitsWritten ==
  ASSUME NEW S, StoreOK(S), NEW m \in Seq(Message), \A i \in 1..Len(m) : m[i][1] = "run",
         NEW T, Grown(T, S, m), NEW known \in Seq(Message), Same(S.rows, known)
  PROVE  Fits(T, known, currentVersion(T))
<1>1. StoreOK(T)
  BY GrownOK
<1>2. /\ S.rows \in Seq(Message) /\ T.rows \in Seq(Message)
      /\ Joins(T.rows, S.rows, m)
  BY GrownRows DEF StoreOK
<1>3. Len(T.rows) = Len(S.rows) + Len(m) /\ Len(S.rows) \in Nat /\ Len(m) \in Nat
      /\ (\A i \in 1..Len(S.rows) : T.rows[i] = S.rows[i])
      /\ (\A i \in 1..Len(m) : T.rows[Len(S.rows) + i] = m[i])
  BY <1>2 DEF Joins
<1>4. Len(known) <= Len(S.rows) /\ Len(known) \in Nat
      /\ SubSeq(known, 1, Len(known)) = SubSeq(S.rows, 1, Len(known))
  BY DEF Same, IsPrefix
<1>5. SubSeq(T.rows, 1, Len(known)) = SubSeq(S.rows, 1, Len(known))
  <2>1. \A i \in 1..Len(known) : T.rows[i] = S.rows[i]
    BY <1>3, <1>4
  <2>2. /\ SubSeq(T.rows, 1, Len(known)) = [i \in 1..Len(known) |-> T.rows[i]]
        /\ SubSeq(S.rows, 1, Len(known)) = [i \in 1..Len(known) |-> S.rows[i]]
    BY <1>2, <1>3, <1>4
  <2> QED BY <2>1, <2>2
<1>6. ASSUME NEW i \in Len(known) + 1..Len(T.rows) PROVE T.rows[i][1] = "run"
  <2>1. CASE i <= Len(S.rows)
    <3>1. i \in 1..Len(S.rows) /\ i \in Len(known) + 1..Len(S.rows)
      BY <1>3, <1>4, <2>1
    <3>2. S.rows[i][1] = "run"
      BY <3>1 DEF Same
    <3> QED BY <1>3, <3>1, <3>2
  <2>2. CASE i > Len(S.rows)
    <3>1. i - Len(S.rows) \in 1..Len(m) /\ Len(S.rows) + (i - Len(S.rows)) = i
      BY <1>3, <1>4, <2>2
    <3>2. T.rows[i] = m[i - Len(S.rows)]
      BY <1>3, <3>1
    <3> QED BY <3>1, <3>2
  <2> QED BY <1>3, <1>4, <2>1, <2>2
<1>7. Same(T.rows, known)
  BY <1>3, <1>4, <1>5, <1>6 DEF Same, IsPrefix
<1>8. T.rows = <<>> => known = <<>>
  BY <1>3, <1>4
<1>9. /\ currentVersion(T) \in Version
      /\ T.rows # <<>> => /\ currentVersion(T) = <<T.session, Len(T.rows), T.generation>>
                          /\ T.session \in 1..T.created
      /\ currentVersion(T) = Empty <=> T.rows = <<>>
  BY <1>1, VersionNow
<1>10. Len(T.rows) \in Nat /\ T.generation \in Nat
  BY <1>2 DEF Grown, History
<1> QED BY <1>7, <1>8, <1>9, <1>10 DEF Fits

\* append(): a write is committed once, on top of the version it expects.
LEMMA Appended ==
  ASSUME NEW S, StoreOK(S), NEW k \in Nat \X Nat, NEW m \in Seq(Message), NEW v
  PROVE  LET A == append(S, [key |-> k, messages |-> m, expected |-> v])
             keyed == [key |-> k, content |-> m] IN
         /\ A.status \in {"duplicate", "conflict", "committed"}
         /\ A.version = currentVersion(A.store)
         /\ A.status # "committed" => A.store = S
         /\ A.status = "duplicate" => keyed \in S.keys
         /\ A.status = "committed" =>
              /\ Grown(A.store, S, m) /\ A.store.keys = S.keys \cup {keyed}
              /\ ~Written(S, k) /\ (v = Unchecked \/ v = currentVersion(S))
<1> DEFINE write == [key |-> k, messages |-> m, expected |-> v]
           A == append(S, write)
           keyed == [key |-> k, content |-> m]
           T == insertMessages(S, m)
           U == [T EXCEPT !.keys = @ \cup {keyed}]
<1>1. write.key = k /\ write.messages = m /\ write.expected = v
  OBVIOUS
<1>2. S \in History
  BY DEF StoreOK
<1>3. Grown(T, S, m) /\ T.keys = S.keys
  BY <1>2, Inserted
<1>4. Grown(U, S, m) /\ U.keys = S.keys \cup {keyed}
  <2>1. T \in History /\ keyed \in Key /\ S.keys \in SUBSET Key
    BY <1>2, <1>3 DEF Grown, History, Key
  <2> DEFINE x == S.keys \cup {keyed}
  <2>2. x \in SUBSET Key /\ U = [T EXCEPT !.keys = x]
    BY <1>3, <2>1
  <2> HIDE DEF x, T, U
  <2>3. /\ U \in History /\ U.session = T.session /\ U.created = T.created
        /\ U.rows = T.rows /\ U.keys = x /\ U.generation = T.generation
        /\ U.summary = T.summary /\ U.through = T.through
    BY <2>1, <2>2 DEF History
  <2> QED BY <1>3, <2>3 DEF Grown, x
<1>5. A = IF keyed \in S.keys
            THEN [status |-> "duplicate", version |-> currentVersion(S), store |-> S]
          ELSE IF Written(S, k) \/ (v # Unchecked /\ v # currentVersion(S))
            THEN [status |-> "conflict", version |-> currentVersion(S), store |-> S]
          ELSE [status |-> "committed", version |-> currentVersion(U), store |-> U]
  BY <1>1 DEF append
<1> HIDE DEF A, U, keyed, T
<1> QED BY <1>4, <1>5 DEF A, keyed

-----------------------------------------------------------------------------
(* The states of DurableMemory.                                             *)

Statuses == Runnable \cup Settled \cup {"waiting", "needs_attention"}
Outcomes == {"none", "interaction", "response", "blocked"}
Phases == {"none", "reading", "loaded", "working", "flushing", "sending", "answered", "leaving"}
Hows == {"unsettled", "committed", "duplicate", "applied", "discarded"}
Write == [messages : Seq(Message), status : {"started", "completed"}, attempts : {0, 1},
          version : Version \cup {Unchecked}, how : Hows]
Reads == [messages : Seq(Message), version : Version]
Results == [status : {"committed", "duplicate", "conflict"}, version : Version]
Replies == {<<>>} \cup {<<r>> : r \in Reads \cup Results}
Row == [status : Statuses, epoch : Epochs, outcome : Outcomes, blocked : {NoWrite} \cup (Nat \X Nat)]
InMemory == [phase : Phases, aborted : BOOLEAN, reply : Replies]
Agents == [phase : {"preparing", "compacting", "working", "saving", "done"}, tries : Nat,
           revision : {<<>>} \cup (Nat \X SUBSET (Nat \X Nat)), prefix : Seq(Seq(Message)),
           todo : Seq(Seq(Message))]

Shapes ==
  /\ policy \in Policies
  /\ run \in Row /\ run.epoch <= MaxEpochs[policy]
  /\ read # <<>> => read[1] \in Reads
  /\ writes \in [Epochs -> Seq(Write)]
  /\ said \in [Epochs -> Seq(Message)]
  /\ attempt \in InMemory
  /\ In("loaded") => attempt.reply # <<>> /\ attempt.reply[1] \in Reads
  /\ In("answered") => attempt.reply # <<>> /\ attempt.reply[1] \in Results
  /\ process \in {"up", "closing", "down"}
  /\ agent \in Agents
  /\ used \in [faults : Nat, retries : Nat]

Typed == Shapes /\ StoreOK(store)

\* The epochs are numbers from 1 on.
LEMMA EpochsKnown ==
  /\ Epochs \subseteq Nat \ {0}
  /\ \A p \in Policies : /\ MaxEpochs[p] \in Nat \ {0}
                           /\ \A n \in 1..MaxEpochs[p] : n \in Epochs
<1>1. \A p \in Policies : MaxEpochs[p] \in Nat \ {0}
  BY MemoryAssumption
<1>2. ASSUME NEW e \in Epochs PROVE e \in Nat \ {0}
  <2>1. PICK p \in Policies : e \in 1..MaxEpochs[p]
    BY DEF Epochs
  <2> QED BY <1>1, <2>1
<1>3. ASSUME NEW p \in Policies, NEW n \in 1..MaxEpochs[p] PROVE n \in Epochs
  BY DEF Epochs
<1> QED BY <1>1, <1>2, <1>3

\* The recorded writes, by epoch and number.
LEMMA OpsKnown ==
  ASSUME NEW W, W \in [Epochs -> Seq(Write)], NEW O, O = UNION {{e} \X DOMAIN W[e] : e \in Epochs}
  PROVE  /\ \A w \in O : /\ w[1] \in Epochs /\ w[2] \in DOMAIN W[w[1]] /\ w = <<w[1], w[2]>>
                         /\ w[1] \in Nat \ {0} /\ w[2] \in Nat \ {0} /\ w \in Nat \X Nat
                         /\ W[w[1]][w[2]] \in Write
         /\ \A e \in Epochs : \A i \in DOMAIN W[e] : <<e, i>> \in O
<1>1. ASSUME NEW w \in O
      PROVE  /\ w[1] \in Epochs /\ w[2] \in DOMAIN W[w[1]] /\ w = <<w[1], w[2]>>
             /\ w[1] \in Nat \ {0} /\ w[2] \in Nat \ {0} /\ w \in Nat \X Nat
             /\ W[w[1]][w[2]] \in Write
  <2>1. PICK e \in Epochs : w \in {e} \X DOMAIN W[e]
    BY <1>1
  <2>2. w[1] = e /\ w[2] \in DOMAIN W[e] /\ w = <<w[1], w[2]>>
    BY <2>1
  <2>3. W[e] \in Seq(Write)
    BY <2>1
  <2>4. w[2] \in 1..Len(W[e])
    BY <2>2, <2>3
  <2> QED BY <2>1, <2>2, <2>3, <2>4, EpochsKnown
<1>2. ASSUME NEW e \in Epochs, NEW i \in DOMAIN W[e] PROVE <<e, i>> \in O
  <2>1. <<e, i>> \in {e} \X DOMAIN W[e]
    OBVIOUS
  <2> QED BY <2>1
<1> QED BY <1>1, <1>2

\* What is known of each recorded write.
LEMMA OpsNow ==
  ASSUME Shapes
  PROVE  \A w \in Ops : /\ w[1] \in Epochs /\ w[2] \in DOMAIN writes[w[1]] /\ w = <<w[1], w[2]>>
                         /\ w[1] \in Nat \ {0} /\ w[2] \in Nat \ {0} /\ w \in Nat \X Nat
                         /\ Op(w) \in Write
<1>1. writes \in [Epochs -> Seq(Write)]
  BY DEF Shapes
<1>2. ASSUME NEW w \in Ops
      PROVE  /\ w[1] \in Epochs /\ w[2] \in DOMAIN writes[w[1]] /\ w = <<w[1], w[2]>>
             /\ w[1] \in Nat \ {0} /\ w[2] \in Nat \ {0} /\ w \in Nat \X Nat
             /\ writes[w[1]][w[2]] \in Write
  BY <1>1, OpsKnown, Zenon DEF Ops
<1> QED BY <1>2 DEF Op

\* The same writes, sent or not.
Retained ==
  /\ writes' \in [Epochs -> Seq(Write)]
  /\ Ops' = Ops
  /\ \A v \in Ops :
       Op(v)'.messages = Op(v).messages /\ Op(v)'.status = Op(v).status
       /\ Op(v)'.version = Op(v).version /\ Op(v)'.how = Op(v).how

\* One of them is settled.
SettledNow(w, how, version) ==
  /\ writes' \in [Epochs -> Seq(Write)]
  /\ Ops' = Ops
  /\ \A v \in Ops \ {w} : Op(v)' = Op(v)
  /\ Op(w)'.messages = Op(w).messages /\ Op(w)'.status = "completed"
  /\ Op(w)'.version = version /\ Op(w)'.how = how

\* Another value for one write.
LEMMA OneUpdated ==
  ASSUME Typed, NEW w \in Ops, NEW r \in Write, writes' = [writes EXCEPT ![w[1]][w[2]] = r]
  PROVE  /\ writes' \in [Epochs -> Seq(Write)]
         /\ Ops' = Ops
         /\ \A v \in Ops \ {w} : Op(v)' = Op(v)
         /\ Op(w)' = r
<1>1. writes \in [Epochs -> Seq(Write)]
  BY DEF Typed, Shapes
<1>2. \A v \in Ops : v[1] \in Epochs /\ v[2] \in DOMAIN writes[v[1]] /\ v = <<v[1], v[2]>>
  BY <1>1, OpsKnown DEF Ops
<1>3. DOMAIN writes' = Epochs
  BY <1>1
<1>4. /\ writes'[w[1]] = [writes[w[1]] EXCEPT ![w[2]] = r]
      /\ \A e \in Epochs \ {w[1]} : writes'[e] = writes[e]
  BY <1>1, <1>2
<1>5. \A e \in Epochs : writes[e] \in Seq(Write)
  BY <1>1
<1>6. /\ writes'[w[1]] \in Seq(Write) /\ DOMAIN writes'[w[1]] = DOMAIN writes[w[1]]
      /\ writes'[w[1]][w[2]] = r
      /\ \A i \in DOMAIN writes[w[1]] \ {w[2]} : writes'[w[1]][i] = writes[w[1]][i]
  <2> DEFINE s == writes[w[1]]
  <2>1. s \in Seq(Write) /\ w[2] \in DOMAIN s
    BY <1>2, <1>5
  <2> HIDE DEF s
  <2>2. [s EXCEPT ![w[2]] = r] \in Seq(Write)
    BY <2>1, ExceptSeq
  <2>3. /\ DOMAIN [s EXCEPT ![w[2]] = r] = DOMAIN s /\ [s EXCEPT ![w[2]] = r][w[2]] = r
        /\ \A i \in DOMAIN s \ {w[2]} : [s EXCEPT ![w[2]] = r][i] = s[i]
    BY <2>1
  <2> QED BY <1>4, <2>2, <2>3 DEF s
<1>7. \A e \in Epochs : writes'[e] \in Seq(Write) /\ DOMAIN writes'[e] = DOMAIN writes[e]
  BY <1>4, <1>5, <1>6
<1>8. writes' \in [Epochs -> Seq(Write)]
  <2>1. writes' = [e \in Epochs |-> writes'[e]]
    BY <1>1
  <2> QED BY <1>7, <2>1
<1>9. Ops' = Ops
  BY <1>7 DEF Ops
<1>10. ASSUME NEW v \in Ops \ {w} PROVE Op(v)' = Op(v)
  <2>1. v[1] # w[1] \/ v[2] # w[2]
    BY <1>2
  <2>2. CASE v[1] # w[1]
    BY <1>2, <1>4, <2>2 DEF Op
  <2>3. CASE v[1] = w[1] /\ v[2] # w[2]
    BY <1>2, <1>6, <2>3 DEF Op
  <2> QED BY <2>1, <2>2, <2>3
<1> QED BY <1>6, <1>8, <1>9, <1>10 DEF Op

\* What the definitions of the module do to writes.
LEMMA WritesSettled ==
  ASSUME Typed, NEW w \in Ops, NEW how \in Hows, NEW version \in Version \cup {Unchecked},
         Settle(w, how, version)
  PROVE  SettledNow(w, how, version)
<1> DEFINE s == Op(w)
           r == [s EXCEPT !.status = "completed", !.how = how, !.version = version]
<1>1. s \in Write
  BY OpsKnown DEF Typed, Shapes, Ops, Op
<1>2. writes' = [writes EXCEPT ![w[1]][w[2]] = r]
  BY DEF Settle, Op
<1> HIDE DEF s
<1>3. /\ r \in Write /\ r.messages = s.messages /\ r.status = "completed" /\ r.version = version
      /\ r.how = how
  BY <1>1 DEF Write
<1> HIDE DEF r
<1> QED BY <1>2, <1>3, OneUpdated DEF SettledNow, s

\* An attempt is persisted.
LEMMA WriteSent ==
  ASSUME Typed, NEW w \in Ops, writes' = [writes EXCEPT ![w[1]][w[2]].attempts = 1]
  PROVE  Retained /\ Op(w)'.attempts = 1
<1> DEFINE s == Op(w)
           r == [s EXCEPT !.attempts = 1]
<1>1. s \in Write
  BY OpsKnown DEF Typed, Shapes, Ops, Op
<1>2. writes' = [writes EXCEPT ![w[1]][w[2]] = r]
  BY DEF Op
<1> HIDE DEF s
<1>3. /\ r \in Write /\ r.messages = s.messages /\ r.status = s.status /\ r.version = s.version
      /\ r.how = s.how /\ r.attempts = 1
  BY <1>1 DEF Write
<1> HIDE DEF r
<1>4. /\ writes' \in [Epochs -> Seq(Write)] /\ Ops' = Ops
      /\ \A v \in Ops \ {w} : Op(v)' = Op(v)
      /\ Op(w)' = r
  BY <1>2, <1>3, OneUpdated
<1>5. ASSUME NEW v \in Ops
      PROVE  Op(v)'.messages = Op(v).messages /\ Op(v)'.status = Op(v).status
             /\ Op(v)'.version = Op(v).version /\ Op(v)'.how = Op(v).how
  <2>1. CASE v = w
    BY <1>3, <1>4, <2>1 DEF s
  <2>2. CASE v # w
    BY <1>4, <2>2
  <2> QED BY <2>1, <2>2
<1> QED BY <1>3, <1>4, <1>5 DEF Retained

\* retry() forgets the attempts.
LEMMA WritesUnsent == ASSUME Typed, writes' = Unsent PROVE Retained
<1>1. writes \in [Epochs -> Seq(Write)]
  BY DEF Typed, Shapes
<1> DEFINE new(s) == IF s.status = "started" THEN [s EXCEPT !.attempts = 0] ELSE s
<1>2. \A s \in Write : /\ new(s) \in Write /\ new(s).messages = s.messages /\ new(s).status = s.status
                       /\ new(s).version = s.version /\ new(s).how = s.how
  BY DEF Write
<1>3. writes' = [e \in Epochs |-> [i \in DOMAIN writes[e] |-> new(writes[e][i])]]
  BY DEF Unsent
<1> HIDE DEF new
<1>4. ASSUME NEW e \in Epochs
      PROVE  /\ writes'[e] \in Seq(Write) /\ DOMAIN writes'[e] = DOMAIN writes[e]
             /\ \A i \in DOMAIN writes[e] : writes'[e][i] = new(writes[e][i]) /\ writes[e][i] \in Write
  <2>1. writes[e] \in Seq(Write) /\ writes'[e] = [i \in DOMAIN writes[e] |-> new(writes[e][i])]
    BY <1>1, <1>3
  <2>2. DOMAIN writes[e] = 1..Len(writes[e]) /\ Len(writes[e]) \in Nat
    BY <2>1
  <2>3. \A i \in 1..Len(writes[e]) : new(writes[e][i]) \in Write /\ writes[e][i] \in Write
    BY <1>2, <2>1
  <2> QED BY <2>1, <2>2, <2>3
<1>5. writes' \in [Epochs -> Seq(Write)]
  BY <1>3, <1>4
<1>6. Ops' = Ops
  BY <1>4 DEF Ops
<1>7. ASSUME NEW v \in Ops
      PROVE  Op(v)'.messages = Op(v).messages /\ Op(v)'.status = Op(v).status
             /\ Op(v)'.version = Op(v).version /\ Op(v)'.how = Op(v).how
  <2>1. v[1] \in Epochs /\ v[2] \in DOMAIN writes[v[1]]
    BY <1>1, OpsKnown DEF Ops
  <2>2. Op(v)' = new(Op(v)) /\ Op(v) \in Write
    BY <1>4, <2>1 DEF Op
  <2> QED BY <1>2, <2>2
<1> QED BY <1>5, <1>6, <1>7 DEF Retained

-----------------------------------------------------------------------------
(* Every step keeps the shapes.                                             *)

\* throwIfAborted() will see the abort of an attempt there is.
LEMMA AttemptAborted ==
  ASSUME attempt \in InMemory, attempt' = [attempt EXCEPT !.aborted = ~In("none")]
  PROVE  /\ attempt' \in InMemory /\ attempt'.phase = attempt.phase /\ attempt'.reply = attempt.reply
         /\ attempt'.aborted <=> attempt.phase # "none"
<1>1. CASE In("none")
  <2>1. (~In("none")) = FALSE
    BY <1>1
  <2>2. attempt' = [attempt EXCEPT !.aborted = FALSE]
    BY <2>1
  <2> QED BY <1>1, <2>2 DEF InMemory, In
<1>2. CASE ~In("none")
  <2>1. (~In("none")) = TRUE
    BY <1>2
  <2>2. attempt' = [attempt EXCEPT !.aborted = TRUE]
    BY <2>1
  <2> QED BY <1>2, <2>2 DEF InMemory, In
<1> QED BY <1>1, <1>2

\* The answer of the store to a write.
LEMMA AnswerKnown ==
  ASSUME Typed, NEW w \in Ops
  PROVE  LET A == Answer(w)
             keyed == [key |-> w, content |-> Op(w).messages] IN
         /\ A.status \in {"duplicate", "conflict", "committed"}
         /\ A.version = currentVersion(A.store)
         /\ A.status # "committed" => A.store = store
         /\ A.status = "duplicate" => keyed \in store.keys
         /\ A.status = "committed" =>
              /\ Grown(A.store, store, Op(w).messages) /\ A.store.keys = store.keys \cup {keyed}
              /\ ~Written(store, w) /\ (BaseVersion = Unchecked \/ BaseVersion = currentVersion(store))
         /\ StoreOK(A.store) /\ A.version \in Version
<1> DEFINE A == Answer(w) m == Op(w).messages v == BaseVersion
<1>1. w \in Nat \X Nat /\ Op(w) \in Write /\ w = <<w[1], w[2]>>
  BY OpsNow, Zenon DEF Typed
<1>2. m \in Seq(Message)
  BY <1>1 DEF Write
<1>3. A = append(store, [key |-> w, messages |-> m, expected |-> v])
  BY <1>1 DEF Answer, memoryIdempotencyKey
<1>4. StoreOK(store)
  BY DEF Typed
<1> HIDE DEF A, m, v
<1>5. LET keyed == [key |-> w, content |-> m] IN
         /\ A.status \in {"duplicate", "conflict", "committed"}
         /\ A.version = currentVersion(A.store)
         /\ A.status # "committed" => A.store = store
         /\ A.status = "duplicate" => keyed \in store.keys
         /\ A.status = "committed" =>
              /\ Grown(A.store, store, m) /\ A.store.keys = store.keys \cup {keyed}
              /\ ~Written(store, w) /\ (v = Unchecked \/ v = currentVersion(store))
  BY <1>1, <1>2, <1>3, <1>4, Appended
<1>6. StoreOK(A.store)
  <2>1. CASE A.status = "committed"
    BY <1>2, <1>4, <1>5, <2>1, GrownOK
  <2>2. CASE A.status # "committed"
    BY <1>4, <1>5, <2>2
  <2> QED BY <2>1, <2>2
<1>7. A.version \in Version
  BY <1>5, <1>6, VersionNow
<1> QED BY <1>5, <1>6, <1>7 DEF A, m, v

\* What a segment of the run, or of the agent, comes to.
LEMMA RunSegments ==
  ASSUME NEW p \in Policies, NEW e \in Epochs, NEW turns \in RunScripts
  PROVE  /\ Ended(RunSegment[p][e][turns], "run", e)
         /\ Unsteered(turns) => AllSaved(RunSegment[p][e][turns])
<1>1. p \in {"message", "turn", "run"} /\ turns \in Seq({"tools", "steered", "queued"})
  <2>1. turns \in Seq({"tools", "steered"}) /\ p \in {"message", "turn", "run"}
    BY MemoryAssumption
  <2>2. {"tools", "steered"} \subseteq {"tools", "steered", "queued"}
    OBVIOUS
  <2> QED BY <2>1, <2>2, SeqMonotonic
<1>2. RunSegment[p][e][turns] = Segment("run", p, e, turns)
  BY DEF RunSegment
<1> QED BY <1>1, <1>2, SegmentSaves

\* The same for the agent outside the journal.
LEMMA AgentSegments ==
  ASSUME NEW turns \in AgentScripts
  PROVE  Ended(AgentSegment[turns], "agent", 1)
<1>1. AgentPolicy \in {"message", "turn", "run"} /\ turns \in Seq({"tools", "steered", "queued"})
  <2>1. turns \in Seq({"tools", "queued"})
    BY MemoryAssumption
  <2> QED BY <2>1, MemoryAssumption
<1>2. AgentSegment[turns] = Segment("agent", AgentPolicy, 1, turns)
  BY DEF AgentSegment
<1> QED BY <1>1, <1>2, SegmentSaves

\* The messages of an author are messages.
LEMMA SaidMessages ==
  ASSUME NEW a \in {"run", "agent"}, NEW e \in Nat
  PROVE  Said(a, e) \subseteq Message /\ Seq(Said(a, e)) \subseteq Seq(Message)
         /\ Seq(Seq(Said(a, e))) \subseteq Seq(Seq(Message))
<1>1. Said(a, e) \subseteq Message
  BY DEF Said, Message
<1>2. \A S, R : S \subseteq R => Seq(S) \subseteq Seq(R)
  BY SeqMonotonic
<1> QED BY <1>1, <1>2

\* A prompt that is blocked leaves no writes.
LEMMA BlockedSaves ==
  ASSUME NEW p
  PROVE  BlockedSegment("run", p).captured = <<>> /\ BlockedSegment("run", p).new \in Seq(Said("run", 1))
<1> DEFINE w == NewWriter("run", p)
<1>1. w.new = <<>> /\ w.captured = <<>> /\ w.author = "run"
  BY DEF NewWriter
<1>2. BlockedSegment("run", p) = [w EXCEPT !.new = w.new \o Fresh(w, 1, 1)]
  BY DEF BlockedSegment, Push
<1>3. Fresh(w, 1, 1) \in Seq(Said("run", 1))
  BY WriterNew, FreshMessages, 1 \in Nat
<1>4. w.new \o Fresh(w, 1, 1) \in Seq(Said("run", 1))
  <2>1. \A s \in Seq(Said("run", 1)) : <<>> \o s \in Seq(Said("run", 1))
    BY ConcatEmptySeq
  <2> QED BY <1>1, <1>3, <2>1
<1> DEFINE x == w.new \o Fresh(w, 1, 1)
<1> HIDE DEF x
<1>5. BlockedSegment("run", p) = [NewWriter("run", p) EXCEPT !.new = x]
  BY <1>2 DEF x
<1>6. x \in Seq(Said("run", 1))
  BY <1>4 DEF x
<1> QED BY <1>5, <1>6 DEF NewWriter

\* What a checkpoint records.
LEMMA Recorded ==
  ASSUME NEW c \in Seq(Seq(Message))
  PROVE  /\ recordMemoryWrites(c) \in Seq(Write) /\ DOMAIN recordMemoryWrites(c) = DOMAIN c
         /\ \A i \in DOMAIN c : recordMemoryWrites(c)[i].messages = c[i]
                                /\ recordMemoryWrites(c)[i].status = "started"
<1>1. recordMemoryWrites(c) = [i \in DOMAIN c |-> [messages |-> c[i], status |-> "started", attempts |-> 0,
                                 version |-> Unchecked, how |-> "unsettled"]]
  BY DEF recordMemoryWrites
<1>2. DOMAIN c = 1..Len(c) /\ Len(c) \in Nat /\ \A i \in 1..Len(c) : c[i] \in Seq(Message)
  OBVIOUS
<1>3. \A i \in 1..Len(c) : recordMemoryWrites(c)[i] \in Write
  BY <1>1, <1>2 DEF Write, Hows
<1>4. recordMemoryWrites(c) \in Seq(Write)
  BY <1>1, <1>2, <1>3
<1> QED BY <1>1, <1>2, <1>4

\* The attempt in another phase.
LEMMA AttemptUpdated ==
  ASSUME attempt \in InMemory, NEW p \in Phases
  PROVE  /\ [attempt EXCEPT !.phase = p] \in InMemory
         /\ [attempt EXCEPT !.phase = p].phase = p
         /\ [attempt EXCEPT !.phase = p].aborted = attempt.aborted
         /\ [attempt EXCEPT !.phase = p].reply = attempt.reply
         /\ \A r \in Replies :
              /\ [attempt EXCEPT !.phase = p, !.reply = r] \in InMemory
              /\ [attempt EXCEPT !.phase = p, !.reply = r].phase = p
              /\ [attempt EXCEPT !.phase = p, !.reply = r].aborted = attempt.aborted
              /\ [attempt EXCEPT !.phase = p, !.reply = r].reply = r
BY DEF InMemory

\* How a step changes the run.
RunChanged(s, e, o, w) ==
  run' \in Row /\ run'.status = s /\ run'.epoch = e /\ run'.outcome = o /\ run'.blocked = w

\* What the updates of a run come to.
LEMMA RunSet ==
  ASSUME run \in Row, NEW s \in Statuses
  PROVE  /\ run' = run => RunChanged(run.status, run.epoch, run.outcome, run.blocked)
         /\ run' = [run EXCEPT !.status = s] => RunChanged(s, run.epoch, run.outcome, run.blocked)
         /\ \A w \in {NoWrite} \cup (Nat \X Nat) :
              run' = [run EXCEPT !.status = s, !.blocked = w] =>
                RunChanged(s, run.epoch, run.outcome, w)
         /\ \A o \in Outcomes :
              run' = [run EXCEPT !.outcome = o, !.status = s] =>
                RunChanged(s, run.epoch, o, run.blocked)
<1>1. run' = run => RunChanged(run.status, run.epoch, run.outcome, run.blocked)
  BY DEF RunChanged
<1>2. run' = [run EXCEPT !.status = s] => RunChanged(s, run.epoch, run.outcome, run.blocked)
  BY DEF RunChanged, Row
<1>3. ASSUME NEW w \in {NoWrite} \cup (Nat \X Nat), run' = [run EXCEPT !.status = s, !.blocked = w]
      PROVE  RunChanged(s, run.epoch, run.outcome, w)
  BY <1>3 DEF RunChanged, Row
<1>4. ASSUME NEW o \in Outcomes, run' = [run EXCEPT !.outcome = o, !.status = s]
      PROVE  RunChanged(s, run.epoch, o, run.blocked)
  BY <1>4 DEF RunChanged, Row
<1> QED BY <1>1, <1>2, <1>3, <1>4

\* How a step changes the attempt; the reply matters in two phases only.
AttemptChanged(p, aborted) ==
  /\ attempt' \in InMemory /\ attempt'.phase = p /\ attempt'.aborted = aborted
  /\ p \in {"loaded", "answered"} =>
       attempt.phase = p /\ attempt'.reply = attempt.reply

\* The shapes of what a step leaves alone, and of what it changes.
LEMMA ShapesKept ==
  ASSUME Typed, run' \in Row, run'.epoch <= MaxEpochs[policy], policy' = policy,
         read' # <<>> => read'[1] \in Reads,
         writes' \in [Epochs -> Seq(Write)], said' \in [Epochs -> Seq(Message)],
         attempt' \in InMemory,
         In("loaded")' => attempt'.reply # <<>> /\ attempt'.reply[1] \in Reads,
         In("answered")' => attempt'.reply # <<>> /\ attempt'.reply[1] \in Results,
         process' \in {"up", "closing", "down"}, agent' \in Agents,
         used' \in [faults : Nat, retries : Nat]
  PROVE  Shapes'
BY DEF Typed, Shapes

\* A step that changes one or two things.
LEMMA Quiet ==
  ASSUME Typed, UNCHANGED <<policy, read, said>>,
         run' = run \/ (\E s, o, w : RunChanged(s, run.epoch, o, w)),
         writes' \in [Epochs -> Seq(Write)],
         attempt' = attempt \/ (\E p, a : AttemptChanged(p, a)),
         process' \in {"up", "closing", "down"},
         agent' \in Agents,
         used' \in [faults : Nat, retries : Nat]
  PROVE  Shapes'
<1>1. run' \in Row /\ run'.epoch <= MaxEpochs[policy]
  BY DEF RunChanged, Typed, Shapes
<1>2. attempt' \in InMemory
  BY DEF AttemptChanged, Typed, Shapes
<1>3. /\ In("loaded")' => attempt'.reply # <<>> /\ attempt'.reply[1] \in Reads
      /\ In("answered")' => attempt'.reply # <<>> /\ attempt'.reply[1] \in Results
  BY DEF AttemptChanged, Typed, Shapes, In
<1>4. (read' # <<>> => read'[1] \in Reads) /\ said' \in [Epochs -> Seq(Message)] /\ policy' = policy
  BY DEF Typed, Shapes
<1> QED BY <1>1, <1>2, <1>3, <1>4 DEF Shapes, Typed

\* A bound is used once more.
LEMMA BoundUsed ==
  ASSUME used \in [faults : Nat, retries : Nat], NEW bound \in {"faults", "retries"}, NEW most, Use(bound, most)
  PROVE  used' \in [faults : Nat, retries : Nat]
<1>1. used.faults + 1 \in Nat /\ used.retries + 1 \in Nat
  OBVIOUS
<1>2. CASE bound = "faults"
  BY <1>1, <1>2 DEF Use
<1>3. CASE bound = "retries"
  BY <1>1, <1>3 DEF Use
<1> QED BY <1>2, <1>3

\* The steps of an attempt.
LEMMA AttemptChanges ==
  ASSUME Typed
  PROVE  /\ Launch => RunChanged("running", run.epoch, run.outcome, run.blocked)
         /\ Launch => \E p \in {"flushing", "reading", "working"} : AttemptChanged(p, attempt.aborted)
         /\ FinishFlush => AttemptChanged("leaving", attempt.aborted)
         /\ Abort => AttemptChanged("leaving", attempt.aborted)
         /\ Fail => AttemptChanged("leaving", attempt.aborted)
         /\ Leave => AttemptChanged("none", FALSE)
         /\ Crash => AttemptChanged("none", FALSE)
         /\ cancel => AttemptChanged(attempt.phase, attempt.phase # "none")
         /\ close => AttemptChanged(attempt.phase, attempt.phase # "none")
         /\ \A w \in Ops :
              /\ Uncertain(w) => AttemptChanged("leaving", attempt.aborted)
              /\ SendWrite(w) => AttemptChanged("sending", attempt.aborted)
              /\ RecordWrite(w) => AttemptChanged("flushing", attempt.aborted)
              /\ Conflict(w) => AttemptChanged("leaving", attempt.aborted)
         /\ RecordRead => AttemptChanged("working", attempt.aborted)
         /\ \A segment, outcome : Checkpoint(segment, outcome) => AttemptChanged("flushing", attempt.aborted)
<1>1. /\ attempt \in InMemory /\ run \in Row /\ "running" \in Statuses
      /\ {"none", "reading", "loaded", "working", "flushing", "sending", "answered", "leaving"} \subseteq Phases
      /\ <<>> \in Replies
  BY DEF Typed, Shapes, Statuses, Runnable, Phases, Replies
<1>2. ASSUME NEW p \in Phases \ {"loaded", "answered"}, attempt' = [attempt EXCEPT !.phase = p]
      PROVE  AttemptChanged(p, attempt.aborted)
  BY <1>1, <1>2, AttemptUpdated DEF AttemptChanged
<1>3. ASSUME NEW p \in Phases \ {"loaded", "answered"}, attempt' = [attempt EXCEPT !.phase = p, !.reply = <<>>]
      PROVE  AttemptChanged(p, attempt.aborted)
  BY <1>1, <1>3, AttemptUpdated DEF AttemptChanged
<1>4. ASSUME attempt' = NoAttempt PROVE AttemptChanged("none", FALSE)
  BY <1>1, <1>4 DEF AttemptChanged, NoAttempt, InMemory
<1>5. ASSUME attempt' = [attempt EXCEPT !.aborted = ~In("none")]
      PROVE  AttemptChanged(attempt.phase, attempt.phase # "none")
  <2>1. /\ attempt' \in InMemory /\ attempt'.phase = attempt.phase /\ attempt'.reply = attempt.reply
        /\ attempt'.aborted <=> attempt.phase # "none"
    BY <1>1, <1>5, AttemptAborted
  <2>2. attempt'.aborted \in BOOLEAN
    BY <2>1 DEF InMemory
  <2>3. attempt'.aborted = (attempt.phase # "none")
    BY <2>1, <2>2
  <2> QED BY <2>1, <2>3 DEF AttemptChanged
<1>6. Launch => RunChanged("running", run.epoch, run.outcome, run.blocked)
  <2>1. Launch => run' = [run EXCEPT !.status = "running"]
    BY DEF Launch
  <2> QED BY <1>1, <2>1, RunSet
<1>7. ASSUME Launch PROVE \E p \in {"flushing", "reading", "working"} : AttemptChanged(p, attempt.aborted)
  <2>1. PICK p \in {"flushing", "reading", "working"} : attempt' = [attempt EXCEPT !.phase = p]
    BY <1>7 DEF Launch, To
  <2>2. p \in Phases \ {"loaded", "answered"}
    BY <1>1
  <2> QED BY <1>2, <2>1, <2>2
<1>8. /\ FinishFlush => attempt' = [attempt EXCEPT !.phase = "leaving"]
      /\ Abort => attempt' = [attempt EXCEPT !.phase = "leaving"]
      /\ Fail => attempt' = [attempt EXCEPT !.phase = "leaving"]
      /\ Leave => attempt' = NoAttempt
      /\ Crash => attempt' = NoAttempt
      /\ cancel => attempt' = [attempt EXCEPT !.aborted = ~In("none")]
      /\ close => attempt' = [attempt EXCEPT !.aborted = ~In("none")]
      /\ \A w \in Ops :
           /\ Uncertain(w) => attempt' = [attempt EXCEPT !.phase = "leaving"]
           /\ SendWrite(w) => attempt' = [attempt EXCEPT !.phase = "sending"]
           /\ RecordWrite(w) => attempt' = [attempt EXCEPT !.phase = "flushing", !.reply = <<>>]
           /\ Conflict(w) => attempt' = [attempt EXCEPT !.phase = "leaving", !.reply = <<>>]
      /\ RecordRead => attempt' = [attempt EXCEPT !.phase = "working", !.reply = <<>>]
      /\ \A segment, outcome : Checkpoint(segment, outcome) => attempt' = [attempt EXCEPT !.phase = "flushing"]
  BY Zenon DEF FinishFlush, Abort, Fail, Leave, Crash, cancel, close, Uncertain, SendWrite, RecordWrite, Conflict,
               RecordRead, Checkpoint, To
<1>9. {"leaving", "sending", "flushing", "working"} \subseteq Phases \ {"loaded", "answered"}
  BY <1>1
<1>10. /\ FinishFlush => AttemptChanged("leaving", attempt.aborted)
       /\ Abort => AttemptChanged("leaving", attempt.aborted)
       /\ Fail => AttemptChanged("leaving", attempt.aborted)
  BY <1>2, <1>8, <1>9
<1>11. \A w \in Ops :
         /\ Uncertain(w) => AttemptChanged("leaving", attempt.aborted)
         /\ SendWrite(w) => AttemptChanged("sending", attempt.aborted)
         /\ RecordWrite(w) => AttemptChanged("flushing", attempt.aborted)
         /\ Conflict(w) => AttemptChanged("leaving", attempt.aborted)
  BY <1>2, <1>3, <1>8, <1>9
<1>12. /\ RecordRead => AttemptChanged("working", attempt.aborted)
       /\ \A segment, outcome : Checkpoint(segment, outcome) => AttemptChanged("flushing", attempt.aborted)
  BY <1>2, <1>3, <1>8, <1>9
<1> QED BY <1>4, <1>5, <1>6, <1>7, <1>8, <1>10, <1>11, <1>12

\* The steps of the run.
LEMMA RunChanges ==
  ASSUME Typed
  PROVE  /\ FinishFlush =>
              RunChanged(IF run.status = "running" THEN Paused ELSE run.status, run.epoch, run.outcome, run.blocked)
         /\ Fail =>
              RunChanged(IF attempt.aborted THEN run.status ELSE "failed", run.epoch, run.outcome, run.blocked)
         /\ retry => RunChanged("pending", run.epoch, run.outcome, NoWrite)
         /\ cancel => RunChanged("cancelled", run.epoch, run.outcome, run.blocked)
         /\ respond => RunChanged("pending", run.epoch + 1, "none", run.blocked) /\ run.epoch + 1 <= MaxEpochs[policy]
         /\ \A w \in Ops :
              /\ Uncertain(w) => RunChanged("needs_attention", run.epoch, run.outcome, w)
              /\ Conflict(w) =>
                   IF attempt.aborted THEN RunChanged(run.status, run.epoch, run.outcome, run.blocked)
                   ELSE RunChanged("needs_attention", run.epoch, run.outcome, w)
              /\ \A how : resolveMemoryWrite(w, how) => RunChanged("pending", run.epoch, run.outcome, NoWrite)
         /\ \A segment : \A outcome \in Outcomes : Checkpoint(segment, outcome) =>
              RunChanged(IF segment.captured # <<>> THEN run.status
                         ELSE IF outcome = "interaction" THEN "waiting" ELSE "completed",
                         run.epoch, outcome, run.blocked)
<1>1. /\ run \in Row /\ run.status \in Statuses
      /\ {"pending", "running", "completed", "failed", "cancelled", "waiting", "needs_attention"} \subseteq Statuses
      /\ NoWrite \in {NoWrite} \cup (Nat \X Nat)
      /\ \A w \in Ops : w \in {NoWrite} \cup (Nat \X Nat)
      /\ Paused \in Statuses
  <2>1. \A w \in Ops : w \in Nat \X Nat
    BY OpsNow DEF Typed
  <2> QED BY <2>1 DEF Typed, Shapes, Row, Statuses, Runnable, Settled, Paused
<1>3. FinishFlush =>
        RunChanged(IF run.status = "running" THEN Paused ELSE run.status, run.epoch, run.outcome, run.blocked)
  <2>1. ASSUME FinishFlush, run.status = "running" PROVE run' = [run EXCEPT !.status = Paused]
    BY <2>1 DEF FinishFlush
  <2>2. ASSUME FinishFlush, run.status # "running" PROVE run' = run
    BY <2>2 DEF FinishFlush
  <2> QED BY <1>1, <2>1, <2>2, RunSet
<1>4. Fail => RunChanged(IF attempt.aborted THEN run.status ELSE "failed", run.epoch, run.outcome, run.blocked)
  <2>1. ASSUME Fail, ~attempt.aborted PROVE run' = [run EXCEPT !.status = "failed"]
    BY <2>1 DEF Fail
  <2>2. ASSUME Fail, attempt.aborted PROVE run' = run
    BY <2>2 DEF Fail
  <2> QED BY <1>1, <2>1, <2>2, RunSet
<1>5. retry => RunChanged("pending", run.epoch, run.outcome, NoWrite)
  <2>1. retry => run' = [run EXCEPT !.status = "pending", !.blocked = NoWrite]
    BY DEF retry
  <2> QED BY <1>1, <2>1, RunSet
<1>6. cancel => RunChanged("cancelled", run.epoch, run.outcome, run.blocked)
  <2>1. cancel => run' = [run EXCEPT !.status = "cancelled"]
    BY DEF cancel
  <2> QED BY <1>1, <2>1, RunSet
<1>7. ASSUME respond
      PROVE  RunChanged("pending", run.epoch + 1, "none", run.blocked) /\ run.epoch + 1 <= MaxEpochs[policy]
  <2> DEFINE e == run.epoch + 1
  <2>1. run' = [run EXCEPT !.status = "pending", !.outcome = "none", !.epoch = e]
    BY <1>7 DEF respond
  <2>2. e \in Epochs /\ e <= MaxEpochs[policy]
    <3>1. policy \in Policies /\ run.epoch \in Nat \ {0} /\ MaxEpochs[policy] \in Nat /\ run.epoch < MaxEpochs[policy]
      BY <1>7, EpochsKnown DEF Typed, Shapes, Row, respond
    <3> QED BY <3>1, EpochsKnown
  <2> HIDE DEF e
  <2>3. "none" \in Outcomes
    BY DEF Outcomes
  <2>4. RunChanged("pending", e, "none", run.blocked)
    BY <1>1, <2>1, <2>2, <2>3 DEF RunChanged, Row
  <2> QED BY <2>2, <2>4 DEF e
<1>8. ASSUME NEW w \in Ops
      PROVE  /\ Uncertain(w) => RunChanged("needs_attention", run.epoch, run.outcome, w)
             /\ Conflict(w) =>
                  IF attempt.aborted THEN RunChanged(run.status, run.epoch, run.outcome, run.blocked)
                  ELSE RunChanged("needs_attention", run.epoch, run.outcome, w)
             /\ \A how : resolveMemoryWrite(w, how) => RunChanged("pending", run.epoch, run.outcome, NoWrite)
  <2>1. Uncertain(w) => run' = [run EXCEPT !.status = "needs_attention", !.blocked = w]
    BY DEF Uncertain
  <2>2. ASSUME Conflict(w), attempt.aborted PROVE run' = run
    BY <2>2 DEF Conflict
  <2>3. ASSUME Conflict(w), ~attempt.aborted
        PROVE  run' = [run EXCEPT !.status = "needs_attention", !.blocked = w]
    BY <2>3 DEF Conflict
  <2>4. \A how : resolveMemoryWrite(w, how) => run' = [run EXCEPT !.status = "pending", !.blocked = NoWrite]
    BY DEF resolveMemoryWrite
  <2>5. w \in {NoWrite} \cup (Nat \X Nat)
    BY <1>1
  <2>6. /\ run' = run => RunChanged(run.status, run.epoch, run.outcome, run.blocked)
        /\ run' = [run EXCEPT !.status = "needs_attention", !.blocked = w] =>
             RunChanged("needs_attention", run.epoch, run.outcome, w)
        /\ run' = [run EXCEPT !.status = "pending", !.blocked = NoWrite] =>
             RunChanged("pending", run.epoch, run.outcome, NoWrite)
    BY <1>1, <2>5, RunSet
  <2> QED BY <2>1, <2>2, <2>3, <2>4, <2>6
<1>9. ASSUME NEW segment, NEW outcome \in Outcomes, Checkpoint(segment, outcome)
      PROVE  RunChanged(IF segment.captured # <<>> THEN run.status
                        ELSE IF outcome = "interaction" THEN "waiting" ELSE "completed",
                        run.epoch, outcome, run.blocked)
  <2> DEFINE s == IF segment.captured # <<>> THEN run.status
                  ELSE IF outcome = "interaction" THEN "waiting" ELSE "completed"
  <2>1. s \in Statuses
    BY <1>1
  <2>2. run' = [run EXCEPT !.outcome = outcome, !.status = s]
    BY <1>9 DEF Checkpoint
  <2> HIDE DEF s
  <2>3. RunChanged(s, run.epoch, outcome, run.blocked)
    BY <1>1, <2>1, <2>2, RunSet
  <2> QED BY <2>3 DEF s
<1> QED BY <1>3, <1>4, <1>5, <1>6, <1>7, <1>8, <1>9

\* What the steps of the agent make of it.
LEMMA AgentUpdated ==
  ASSUME agent \in Agents, NEW p \in {"preparing", "compacting", "working", "saving", "done"}
  PROVE  /\ [agent EXCEPT !.phase = p] \in Agents
         /\ \A r \in {<<>>} \cup (Nat \X SUBSET (Nat \X Nat)), s \in Seq(Seq(Message)) :
              /\ [agent EXCEPT !.phase = p, !.tries = @ + 1, !.revision = r, !.prefix = s] \in Agents
              /\ [agent EXCEPT !.phase = p, !.prefix = s, !.revision = r] \in Agents
              /\ [agent EXCEPT !.prefix = s, !.revision = r, !.phase = p] \in Agents
              /\ [agent EXCEPT !.phase = p, !.todo = s] \in Agents
              /\ [agent EXCEPT !.todo = s, !.phase = p] \in Agents
<1>1. agent.tries + 1 \in Nat
  BY DEF Agents
<1> QED BY <1>1 DEF Agents

\* The revision of a snapshot.
LEMMA RevisionKnown ==
  ASSUME NEW S, StoreOK(S)
  PROVE  compactionRevision(S) \in Nat \X SUBSET (Nat \X Nat)
<1>1. S.session \in Nat /\ S.generation \in Nat /\ S.through \in Nat /\ Len(S.rows) \in Nat
  BY DEF StoreOK, History
<1>2. compactionRows(S) \in SUBSET (Nat \X Nat)
  BY <1>1 DEF compactionRows
<1> QED BY <1>1, <1>2 DEF compactionRevision

\* The agent outside the journal.
LEMMA AgentShapes ==
  ASSUME Typed
  PROVE  /\ \A count : Snapshot(count) => agent' \in Agents
         /\ ReplacePrefix => agent' \in Agents
         /\ \A turns \in AgentScripts : AgentAnswers(turns) => agent' \in Agents
         /\ AgentSaves => agent' \in Agents
         /\ AgentFails => agent' \in Agents
<1>1. agent \in Agents /\ StoreOK(store)
  BY DEF Typed, Shapes
<1> DEFINE P == {"preparing", "compacting", "working", "saving", "done"}
           R == {<<>>} \cup (Nat \X SUBSET (Nat \X Nat))
           Q == Seq(Seq(Message))
<1>2. <<>> \in R /\ <<>> \in Q
  OBVIOUS
<1>3. ASSUME NEW count, Snapshot(count) PROVE agent' \in Agents
  <2>1. CASE count = 0
    BY <1>1, <1>3, <2>1, AgentUpdated DEF Snapshot
  <2>2. CASE count # 0
    <3> DEFINE r == compactionRevision(store)
               s == SubSeq(projectedMessages(store), 1, count)
    <3>1. agent' = [agent EXCEPT !.phase = "compacting", !.tries = @ + 1, !.revision = r, !.prefix = s]
      BY <1>3, <2>2 DEF Snapshot, loadCompactionSnapshot
    <3>2. r \in R
      BY <1>1, RevisionKnown
    <3>3. s \in Q
      <4>1. projectedMessages(store) \in Q
        BY <1>1, Projected
      <4>2. count \in 0..Len(projectedMessages(store))
        BY <1>3 DEF Snapshot, loadCompactionSnapshot
      <4> HIDE DEF Q
      <4>3. \A q \in Seq(Seq(Message)) : \A n \in 0..Len(q) : SubSeq(q, 1, n) \in Seq(Seq(Message))
        OBVIOUS
      <4> QED BY <4>1, <4>2, <4>3 DEF Q
    <3> HIDE DEF r, s
    <3> QED BY <1>1, <3>1, <3>2, <3>3, AgentUpdated
  <2> QED BY <2>1, <2>2
<1>4. ASSUME ReplacePrefix PROVE agent' \in Agents
  <2>1. PICK p \in P : \/ agent' = [agent EXCEPT !.phase = p, !.prefix = <<>>, !.revision = <<>>]
                       \/ agent' = [agent EXCEPT !.prefix = <<>>, !.revision = <<>>, !.phase = p]
    <3>1. CASE Replaceable(store, agent.revision, Len(agent.prefix))
      BY <1>4, <3>1 DEF ReplacePrefix
    <3>2. CASE ~Replaceable(store, agent.revision, Len(agent.prefix))
      <4> DEFINE p == IF agent.tries < MaxAttempts THEN "preparing" ELSE "done"
      <4>1. agent' = [agent EXCEPT !.prefix = <<>>, !.revision = <<>>, !.phase = p]
        BY <1>4, <3>2 DEF ReplacePrefix
      <4>2. p \in P
        OBVIOUS
      <4> QED BY <4>1, <4>2
    <3> QED BY <3>1, <3>2
  <2> HIDE DEF P, R, Q
  <2>2. /\ [agent EXCEPT !.phase = p, !.prefix = <<>>, !.revision = <<>>] \in Agents
        /\ [agent EXCEPT !.prefix = <<>>, !.revision = <<>>, !.phase = p] \in Agents
    BY <1>1, <1>2, AgentUpdated DEF P, R, Q
  <2> QED BY <2>1, <2>2
<1>5. ASSUME NEW turns \in AgentScripts, AgentAnswers(turns) PROVE agent' \in Agents
  <2> DEFINE s == AgentSegment[turns].captured
  <2>1. agent' = [agent EXCEPT !.phase = "saving", !.todo = s]
    BY <1>5 DEF AgentAnswers
  <2>2. s \in Q
    <3>1. s \in Seq(Seq(Said("agent", 1)))
      BY AgentSegments DEF Ended
    <3> QED BY <3>1, SaidMessages, 1 \in Nat
  <2> HIDE DEF s
  <2> QED BY <1>1, <2>1, <2>2, AgentUpdated
<1>6. ASSUME AgentSaves PROVE agent' \in Agents
  <2> DEFINE s == Tail(agent.todo)
             p == IF Len(agent.todo) > 1 THEN agent.phase ELSE "done"
  <2>1. agent' = [agent EXCEPT !.todo = s, !.phase = p]
    BY <1>6 DEF AgentSaves
  <2>2. s \in Q /\ p \in P
    <3>1. agent.todo \in Q /\ agent.todo # <<>> /\ agent.phase \in P
      BY <1>1, <1>6 DEF Agents, AgentSaves
    <3>2. \A q \in Seq(Seq(Message)) : q # <<>> => Tail(q) \in Seq(Seq(Message))
      OBVIOUS
    <3> QED BY <3>1, <3>2
  <2> HIDE DEF s, p
  <2> QED BY <1>1, <2>1, <2>2, AgentUpdated
<1>7. ASSUME AgentFails PROVE agent' \in Agents
  <2>1. agent' = [agent EXCEPT !.phase = "done", !.todo = <<>>]
    BY <1>7 DEF AgentFails
  <2> QED BY <1>1, <1>2, <2>1, AgentUpdated
<1> QED BY <1>3, <1>4, <1>5, <1>6, <1>7

\* The writes of each action.
LEMMA WriteChanges ==
  ASSUME Typed
  PROVE  /\ UNCHANGED writes => Retained
         /\ retry => Retained
         /\ \A w \in Ops :
              /\ SendWrite(w) => Retained /\ Op(w)'.attempts = 1
              /\ RecordWrite(w) => SettledNow(w, attempt.reply[1].status, attempt.reply[1].version)
              /\ \A how \in {"applied", "discarded"} :
                   resolveMemoryWrite(w, how) => SettledNow(w, how, Unchecked)
<1>1. UNCHANGED writes => Retained
  <2>1. UNCHANGED writes => Ops' = Ops /\ \A v : Op(v)' = Op(v)
    BY DEF Ops, Op
  <2> QED BY <2>1 DEF Typed, Shapes, Retained
<1>2. retry => Retained
  BY WritesUnsent DEF retry
<1>3. ASSUME NEW w \in Ops PROVE SendWrite(w) => Retained /\ Op(w)'.attempts = 1
  BY WriteSent DEF SendWrite
<1>4. ASSUME NEW w \in Ops, RecordWrite(w)
      PROVE  SettledNow(w, attempt.reply[1].status, attempt.reply[1].version)
  <2>1. attempt.reply[1] \in Results
    BY <1>4 DEF Typed, Shapes, RecordWrite
  <2>2. attempt.reply[1].status \in Hows /\ attempt.reply[1].version \in Version \cup {Unchecked}
    BY <1>4, <2>1 DEF Results, Hows, RecordWrite
  <2>3. Settle(w, attempt.reply[1].status, attempt.reply[1].version)
    BY <1>4 DEF RecordWrite
  <2> QED BY <2>2, <2>3, WritesSettled
<1>5. ASSUME NEW w \in Ops, NEW how \in {"applied", "discarded"}, resolveMemoryWrite(w, how)
      PROVE  SettledNow(w, how, Unchecked)
  <2>1. how \in Hows /\ Unchecked \in Version \cup {Unchecked} /\ Settle(w, how, Unchecked)
    BY <1>5 DEF Hows, resolveMemoryWrite
  <2> QED BY <2>1, WritesSettled
<1> QED BY <1>1, <1>2, <1>3, <1>4, <1>5

\* What the bounds count stays a number.
LEMMA BoundsKept ==
  ASSUME Typed, [Next]_vars
  PROVE  used' \in [faults : Nat, retries : Nat]
<1>1. used \in [faults : Nat, retries : Nat]
  BY DEF Typed, Shapes
<1>2. \A bound \in {"faults", "retries"} : \A most : Use(bound, most) => used' \in [faults : Nat, retries : Nat]
  BY <1>1, BoundUsed
<1>3. used' = used \/ Use("faults", MaxFaults) \/ Use("retries", MaxRetries)
  BY DEF Next, vars, Launch, Attempt, Load, RecordRead, Answers, Checkpoint, FinishFlush, Abort, Leave, Uncertain, SendWrite,
         StoreAppends, RecordWrite, Conflict, Fail, Calls, retry, respond, cancel, resolveMemoryWrite, close, Closed, Crash,
         open, Agent, Snapshot, ReplacePrefix, AgentAnswers, AgentSaves, AgentFails, HostClears, Others
<1> QED BY <1>1, <1>2, <1>3

\* The writes of a segment join those of the earlier ones.
RecordedNow(c) ==
  /\ writes' \in [Epochs -> Seq(Write)]
  /\ Ops' = Ops \cup {<<run.epoch, i>> : i \in DOMAIN c}
  /\ \A v \in Ops : v[1] # run.epoch => Op(v)' = Op(v)
  /\ \A n, i : n = run.epoch /\ i \in DOMAIN c =>
       Op(<<n, i>>)'.messages = c[i] /\ Op(<<n, i>>)'.status = "started"

\* That is what a checkpoint does.
LEMMA WritesRecorded ==
  ASSUME Typed, NEW c \in Seq(Seq(Message)), \A v \in Ops : v[1] # run.epoch,
         writes' = [writes EXCEPT ![run.epoch] = recordMemoryWrites(c)]
  PROVE  RecordedNow(c)
<1> DEFINE r == recordMemoryWrites(c)
<1>0. PICK n : n = run.epoch
  OBVIOUS
<1>1. n \in Epochs /\ writes \in [Epochs -> Seq(Write)]
  BY <1>0 DEF Typed, Shapes, Row
<1>2. /\ r \in Seq(Write) /\ DOMAIN r = DOMAIN c
      /\ \A i \in DOMAIN c : r[i].messages = c[i] /\ r[i].status = "started"
  BY Recorded
<1>3. writes' = [writes EXCEPT ![n] = r]
  BY <1>0
<1> HIDE DEF r
<1>4. /\ writes' \in [Epochs -> Seq(Write)] /\ writes'[n] = r
      /\ \A e \in Epochs \ {n} : writes'[e] = writes[e]
  BY <1>1, <1>2, <1>3
<1>5. /\ \A v \in Ops : v[1] \in Epochs /\ v[2] \in DOMAIN writes[v[1]] /\ v = <<v[1], v[2]>>
      /\ \A e \in Epochs : \A i \in DOMAIN writes[e] : <<e, i>> \in Ops
  BY <1>1, OpsKnown DEF Ops
<1>6. /\ \A v \in Ops' : v[1] \in Epochs /\ v[2] \in DOMAIN writes'[v[1]] /\ v = <<v[1], v[2]>>
      /\ \A e \in Epochs : \A i \in DOMAIN writes'[e] : <<e, i>> \in Ops'
  BY <1>4, OpsKnown DEF Ops
<1>7. ASSUME NEW v \in Ops' PROVE v \in Ops \cup {<<n, i>> : i \in DOMAIN c}
  <2>1. CASE v[1] = n
    BY <1>2, <1>4, <1>6, <2>1
  <2>2. CASE v[1] # n
    <3>1. v[2] \in DOMAIN writes[v[1]]
      BY <1>4, <1>6, <2>2
    <3> QED BY <1>5, <1>6, <3>1
  <2> QED BY <2>1, <2>2
<1>8. ASSUME NEW v \in Ops PROVE v \in Ops' /\ Op(v)' = Op(v)
  <2>1. v[1] # n /\ v[1] \in Epochs
    BY <1>0, <1>5
  <2>2. writes'[v[1]] = writes[v[1]]
    BY <1>4, <2>1
  <2> QED BY <1>5, <1>6, <2>1, <2>2 DEF Op
<1>9. ASSUME NEW i \in DOMAIN c
      PROVE  /\ <<n, i>> \in Ops'
             /\ Op(<<n, i>>)'.messages = c[i] /\ Op(<<n, i>>)'.status = "started"
  <2>1. i \in DOMAIN writes'[n] /\ writes'[n][i] = r[i]
    BY <1>2, <1>4
  <2>2. Op(<<n, i>>)' = writes'[n][i]
    BY DEF Op
  <2>3. <<n, i>> \in Ops'
    BY <1>1, <1>6, <2>1
  <2> QED BY <1>2, <2>1, <2>2, <2>3
<1>10. Ops' = Ops \cup {<<n, i>> : i \in DOMAIN c}
  BY <1>7, <1>8, <1>9
<1> QED BY <1>0, <1>4, <1>8, <1>9, <1>10 DEF RecordedNow

\* The segment and the outcome of a checkpoint.
Concludes(segment, outcome) ==
  /\ Checkpoint(segment, outcome) /\ outcome \in {"interaction", "response", "blocked"}
  /\ segment.new \in Seq(Said("run", run.epoch)) /\ segment.captured \in Seq(Seq(Said("run", run.epoch)))
  /\ segment.new \in Seq(Message) /\ segment.captured \in Seq(Seq(Message))
  /\ \E n \in Nat : Chunks(segment.captured, n)
  /\ segment.captured = <<>> <=> outcome = "blocked"
  /\ outcome = "blocked" \/ (\E turns \in RunScripts : Unsteered(turns) => AllSaved(segment))

\* Every checkpoint has one.
LEMMA CheckpointTaken ==
  ASSUME Typed, Answers
  PROVE  \E segment, outcome : Concludes(segment, outcome)
<1>1. run.epoch \in Epochs /\ run.epoch \in Nat /\ policy \in Policies
  BY EpochsKnown DEF Typed, Shapes, Row
<1>2. ASSUME NEW turns \in RunScripts, NEW outcome \in {"interaction", "response"},
             Checkpoint(RunSegment[policy][run.epoch][turns], outcome)
      PROVE  \E s, o : Concludes(s, o)
  <2> DEFINE s == RunSegment[policy][run.epoch][turns]
  <2>1. Ended(s, "run", run.epoch) /\ (Unsteered(turns) => AllSaved(s))
    BY <1>1, RunSegments
  <2>2. Checkpoint(s, outcome)
    BY <1>2
  <2> HIDE DEF s
  <2>3. s.new \in Seq(Message) /\ s.captured \in Seq(Seq(Message))
    BY <1>1, <2>1, SaidMessages DEF Ended
  <2>4. Concludes(s, outcome)
    BY <2>1, <2>2, <2>3 DEF Concludes, Ended
  <2> QED BY <2>4
<1>3. ASSUME run.epoch = 1, Checkpoint(BlockedSegment("run", policy), "blocked")
      PROVE  \E s, o : Concludes(s, o)
  <2> DEFINE s == BlockedSegment("run", policy)
  <2>1. s.captured = <<>> /\ s.new \in Seq(Said("run", run.epoch))
    BY <1>3, BlockedSaves
  <2>2. Checkpoint(s, "blocked")
    BY <1>3
  <2> HIDE DEF s
  <2>3. s.new \in Seq(Message) /\ s.captured \in Seq(Seq(Message)) /\ s.captured \in Seq(Seq(Said("run", run.epoch)))
    <3>1. \A S : <<>> \in Seq(S)
      OBVIOUS
    <3> QED BY <1>1, <2>1, <3>1, SaidMessages
  <2>4. Chunks(s.captured, 0)
    BY <2>1 DEF Chunks
  <2>5. Concludes(s, "blocked")
    BY <2>1, <2>2, <2>3, <2>4 DEF Concludes
  <2> QED BY <2>5
<1> QED BY <1>2, <1>3 DEF Answers

\* Every step keeps the shapes.
LEMMA ShapesStep == ASSUME Typed, [Next]_vars PROVE Shapes'
<1>1. used' \in [faults : Nat, retries : Nat]
  BY BoundsKept
<1>2. agent \in Agents /\ attempt \in InMemory /\ run \in Row /\ process \in {"up", "closing", "down"}
      /\ (read # <<>> => read[1] \in Reads) /\ said \in [Epochs -> Seq(Message)] /\ policy \in Policies
      /\ writes \in [Epochs -> Seq(Write)] /\ run.epoch <= MaxEpochs[policy]
      /\ (In("loaded") => attempt.reply # <<>> /\ attempt.reply[1] \in Reads)
      /\ (In("answered") => attempt.reply # <<>> /\ attempt.reply[1] \in Results)
  BY DEF Typed, Shapes
<1>3. ASSUME Retained \/ (\E w, how, version : SettledNow(w, how, version)) PROVE writes' \in [Epochs -> Seq(Write)]
  BY <1>3 DEF Retained, SettledNow
<1>4. UNCHANGED writes => Retained
  BY WriteChanges
<1>5. CASE Launch
  <2>1. /\ \E p, a : AttemptChanged(p, a)
        /\ \E s, o, w : RunChanged(s, run.epoch, o, w)
    BY <1>5, AttemptChanges, RunChanges
  <2> QED BY <1>1, <1>2, <1>5, <2>1, Quiet DEF Launch
<1>6. CASE Load
  <2> DEFINE q == <<[messages |-> store.rows, version |-> currentVersion(store)]>>
  <2>1. q[1] \in Reads /\ q # <<>> /\ q \in Replies
    <3>1. store.rows \in Seq(Message) /\ currentVersion(store) \in Version
      BY VersionNow DEF Typed, StoreOK, History
    <3> QED BY <3>1 DEF Reads, Replies
  <2>2. attempt' = [attempt EXCEPT !.phase = "loaded", !.reply = q]
    BY <1>6 DEF Load
  <2> HIDE DEF q
  <2>3. attempt' \in InMemory /\ attempt'.phase = "loaded" /\ attempt'.reply = q
    <3>1. "loaded" \in Phases /\ q \in Replies /\ attempt \in InMemory
      BY <1>2, <2>1 DEF Phases
    <3> QED BY <2>2, <3>1, AttemptUpdated
  <2>4. UNCHANGED <<policy, run, read, writes, said, process, agent>>
    BY <1>6 DEF Load, durable
  <2> QED BY <1>1, <1>2, <2>1, <2>3, <2>4, ShapesKept DEF In
<1>7. CASE RecordRead
  <2>1. AttemptChanged("working", attempt.aborted)
    BY <1>7, AttemptChanges
  <2>2. read' = attempt.reply /\ UNCHANGED <<policy, run, writes, said, process, agent>> /\ In("loaded")
    BY <1>7 DEF RecordRead
  <2> QED BY <1>1, <1>2, <2>1, <2>2, ShapesKept DEF In, AttemptChanged
<1>8. CASE Answers
  <2>1. PICK segment, outcome : Concludes(segment, outcome)
    BY <1>8, CheckpointTaken
  <2> DEFINE c == segment.captured
             r == recordMemoryWrites(c)
  <2>2. c \in Seq(Seq(Message)) /\ segment.new \in Seq(Message)
    BY <2>1 DEF Concludes
  <2>3. /\ writes' = [writes EXCEPT ![run.epoch] = r]
        /\ said' = [said EXCEPT ![run.epoch] = segment.new]
        /\ UNCHANGED <<policy, read, process, agent>>
    BY <2>1 DEF Concludes, Checkpoint
  <2>4. r \in Seq(Write)
    BY <2>2, Recorded
  <2>5. outcome \in Outcomes /\ Checkpoint(segment, outcome)
    BY <2>1 DEF Concludes, Outcomes
  <2>6. run' \in Row /\ run'.epoch = run.epoch
    BY <2>5, RunChanges DEF RunChanged
  <2>7. AttemptChanged("flushing", attempt.aborted)
    BY <2>5, AttemptChanges
  <2> HIDE DEF r
  <2>8. writes' \in [Epochs -> Seq(Write)] /\ said' \in [Epochs -> Seq(Message)]
    BY <1>2, <2>2, <2>3, <2>4
  <2> QED BY <1>1, <1>2, <2>3, <2>6, <2>7, <2>8, ShapesKept DEF In, AttemptChanged
<1>9. CASE FinishFlush
  <2>1. /\ \E p, a : AttemptChanged(p, a)
        /\ \E s, o, w : RunChanged(s, run.epoch, o, w)
    BY <1>9, AttemptChanges, RunChanges
  <2> QED BY <1>1, <1>2, <1>9, <2>1, Quiet DEF FinishFlush
<1>10. CASE Fail
  <2>1. /\ \E p, a : AttemptChanged(p, a)
        /\ \E s, o, w : RunChanged(s, run.epoch, o, w)
    BY <1>10, AttemptChanges, RunChanges
  <2> QED BY <1>1, <1>2, <1>10, <2>1, Quiet DEF Fail
<1>11. CASE Abort \/ Leave \/ Crash \/ close
  <2>1. \E p, a : AttemptChanged(p, a)
    BY <1>11, AttemptChanges
  <2> QED BY <1>1, <1>2, <1>11, <2>1, Quiet DEF Abort, Leave, Crash, close, durable
<1>12. CASE cancel
  <2>1. /\ \E p, a : AttemptChanged(p, a)
        /\ \E s, o, w : RunChanged(s, run.epoch, o, w)
    BY <1>12, AttemptChanges, RunChanges
  <2> QED BY <1>1, <1>2, <1>12, <2>1, Quiet DEF cancel
<1>13. ASSUME NEW w \in Ops, Uncertain(w) \/ Conflict(w) PROVE Shapes'
  <2>1. /\ \E p, a : AttemptChanged(p, a)
        /\ \E s, o, b : RunChanged(s, run.epoch, o, b)
    BY <1>13, AttemptChanges, RunChanges
  <2> QED BY <1>1, <1>2, <1>13, <2>1, Quiet DEF Uncertain, Conflict
<1>14. ASSUME NEW w \in Ops, SendWrite(w) PROVE Shapes'
  <2>1. /\ \E p, a : AttemptChanged(p, a)
        /\ writes' \in [Epochs -> Seq(Write)]
    BY <1>14, AttemptChanges, WriteChanges DEF Retained
  <2> QED BY <1>1, <1>2, <1>14, <2>1, Quiet DEF SendWrite
<1>15. ASSUME NEW w \in Ops, RecordWrite(w) PROVE Shapes'
  <2>1. /\ \E p, a : AttemptChanged(p, a)
        /\ writes' \in [Epochs -> Seq(Write)]
    BY <1>15, AttemptChanges, WriteChanges DEF SettledNow
  <2> QED BY <1>1, <1>2, <1>15, <2>1, Quiet DEF RecordWrite
<1>16. ASSUME NEW w \in Ops, StoreAppends(w) PROVE Shapes'
  <2> DEFINE x == [status |-> Answer(w).status, version |-> Answer(w).version]
             q == <<x>>
  <2>1. q[1] \in Results /\ q # <<>> /\ q \in Replies
    <3>1. Answer(w).status \in {"duplicate", "conflict", "committed"} /\ Answer(w).version \in Version
      BY AnswerKnown
    <3> QED BY <3>1 DEF Results, Replies
  <2>2. attempt' = [attempt EXCEPT !.phase = "answered", !.reply = q]
    BY <1>16 DEF StoreAppends
  <2> HIDE DEF q
  <2>3. attempt' \in InMemory /\ attempt'.phase = "answered" /\ attempt'.reply = q
    BY <1>2, <2>1, <2>2, AttemptUpdated DEF Phases
  <2>4. UNCHANGED <<policy, run, read, writes, said, process, agent>>
    BY <1>16 DEF StoreAppends, durable
  <2> QED BY <1>1, <1>2, <2>1, <2>3, <2>4, ShapesKept DEF In
<1>17. CASE retry
  <2>1. /\ \E s, o, w : RunChanged(s, run.epoch, o, w)
        /\ writes' \in [Epochs -> Seq(Write)]
    BY <1>17, RunChanges, WriteChanges DEF Retained
  <2> QED BY <1>1, <1>2, <1>17, <2>1, Quiet DEF retry
<1>18. CASE respond
  <2>1. run' \in Row /\ run'.epoch <= MaxEpochs[policy]
    <3>1. RunChanged("pending", run.epoch + 1, "none", run.blocked) /\ run.epoch + 1 <= MaxEpochs[policy]
      BY <1>18, RunChanges
    <3> QED BY <3>1 DEF RunChanged
  <2>2. UNCHANGED <<policy, read, writes, said, attempt, process, agent>>
    BY <1>18 DEF respond
  <2> QED BY <1>1, <1>2, <2>1, <2>2, ShapesKept DEF In
<1>19. ASSUME NEW w \in Ops, NEW how \in {"applied", "discarded"}, resolveMemoryWrite(w, how) PROVE Shapes'
  <2>1. /\ \E s, o, b : RunChanged(s, run.epoch, o, b)
        /\ writes' \in [Epochs -> Seq(Write)]
    BY <1>19, RunChanges, WriteChanges DEF SettledNow
  <2> QED BY <1>1, <1>2, <1>19, <2>1, Quiet DEF resolveMemoryWrite
<1>20. CASE Closed \/ open \/ HostClears
  BY <1>1, <1>2, <1>20, Quiet DEF Closed, open, HostClears, Others, durable
<1>21. CASE Agent
  <2>1. agent' \in Agents
    BY <1>21, AgentShapes DEF Agent
  <2>2. UNCHANGED Others
    BY <1>21 DEF Agent, Snapshot, ReplacePrefix, AgentAnswers, AgentSaves, AgentFails
  <2>3. UNCHANGED <<policy, run, read, writes, said, attempt, process>>
    BY <2>2 DEF Others, durable
  <2> QED BY <1>1, <1>2, <2>1, <2>3, Quiet
<1>22. CASE UNCHANGED vars
  BY <1>1, <1>2, <1>22, Quiet DEF vars
<1> QED BY <1>5, <1>6, <1>7, <1>8, <1>9, <1>10, <1>11, <1>12, <1>13, <1>14, <1>15, <1>16, <1>17, <1>18,
           <1>19, <1>20, <1>21, <1>22 DEF Next, Attempt, Calls

-----------------------------------------------------------------------------
(* The store.                                                               *)

\* The store is sound, and a compaction under way can still tell whether its prefix is there.
StoreSound ==
  /\ Typed
  /\ At("compacting") => Compacting(store, agent)

\* A compaction makes a summary of the first rows, and changes nothing else.
CompactedNow ==
  /\ StoreOK(store') /\ store'.rows = store.rows /\ store'.keys = store.keys
  /\ store'.session = store.session /\ store'.created = store.created
  /\ store'.generation = store.generation + 1

\* The agent saves one call of append().
AgentSaved ==
  /\ AgentSaves
  /\ Head(agent.todo) \in Seq(Message)
  /\ Grown(store', store, Head(agent.todo)) /\ store'.keys = store.keys

\* What a step can do to the store.
StoreStep ==
  \/ UNCHANGED store
  \/ \E w \in Ops : /\ In("sending") /\ Due(w) /\ store' = Answer(w).store
                   /\ UNCHANGED <<read, writes, said, agent>>
                   /\ run'.epoch = run.epoch /\ run'.outcome = run.outcome
  \/ store' = clear(store)
  \/ store' = upsertSession(store)
  \/ CompactedNow
  \/ AgentSaved

\* A compaction that finds its snapshot again.
LEMMA PrefixFound ==
  ASSUME StoreSound, At("compacting"), Replaceable(store, agent.revision, Len(agent.prefix)),
         store' = replaceCompactionPrefix(store, Len(agent.prefix), FlattenSeq(agent.prefix))
  PROVE  CompactedNow
<1>1. StoreOK(store) /\ Compacting(store, agent)
  BY DEF StoreSound, Typed
<1>2. Len(agent.prefix) \in Nat \ {0}
  BY <1>1 DEF Compacting
<1>3. compactionRevision(store) = agent.revision
  BY DEF Replaceable
<1>4. agent.prefix = SubSeq(projectedMessages(store), 1, Len(agent.prefix))
  BY <1>1, <1>3 DEF Compacting
<1> DEFINE n == Len(agent.prefix) q == agent.prefix
<1>5. n \in Nat \ {0} /\ Replaceable(store, agent.revision, n) /\ q = SubSeq(projectedMessages(store), 1, n)
      /\ store' = replaceCompactionPrefix(store, n, FlattenSeq(q))
  BY <1>2, <1>4
<1> HIDE DEF n, q
<1>6. LET T == replaceCompactionPrefix(store, n, FlattenSeq(q)) IN
         /\ StoreOK(T)
         /\ T.rows = store.rows /\ T.keys = store.keys /\ T.session = store.session /\ T.created = store.created
         /\ T.generation = store.generation + 1
  BY <1>1, <1>5, PrefixReplaced
<1> QED BY <1>5, <1>6 DEF CompactedNow

\* Every step does one of these things to the store.
LEMMA StoreChanges == ASSUME StoreSound, [Next]_vars PROVE StoreStep
<1>2. ASSUME NEW w \in Ops, StoreAppends(w) PROVE StoreStep
  BY <1>2 DEF StoreAppends, StoreStep, durable
<1>3. CASE Fail \/ Crash
  <2>1. run'.epoch = run.epoch /\ run'.outcome = run.outcome /\ UNCHANGED <<read, writes, said, agent>>
    <3>1. Fail => run'.epoch = run.epoch /\ run'.outcome = run.outcome
      BY RunChanges DEF StoreSound, RunChanged
    <3> QED BY <1>3, <3>1 DEF Fail, Crash, durable
  <2> QED BY <1>3, <2>1 DEF Fail, Crash, StoreStep
<1>4. CASE HostClears
  BY <1>4 DEF HostClears, StoreStep
<1>5. CASE ReplacePrefix
  <2>1. CASE Replaceable(store, agent.revision, Len(agent.prefix))
    BY <1>5, <2>1, PrefixFound DEF ReplacePrefix, StoreStep
  <2>2. CASE ~Replaceable(store, agent.revision, Len(agent.prefix))
    BY <1>5, <2>2 DEF ReplacePrefix, StoreStep
  <2> QED BY <2>1, <2>2
<1>6. CASE AgentSaves
  <2>1. store \in History /\ Head(agent.todo) \in Seq(Message)
    <3>1. store \in History /\ agent.todo \in Seq(Seq(Message)) /\ agent.todo # <<>>
      BY <1>6 DEF StoreSound, Typed, StoreOK, Shapes, Agents, AgentSaves
    <3> QED BY <3>1
  <2> DEFINE m == Head(agent.todo)
  <2>2. store' = insertMessages(store, m) /\ m \in Seq(Message)
    BY <1>6, <2>1 DEF AgentSaves
  <2> HIDE DEF m
  <2>3. Grown(store', store, m) /\ store'.keys = store.keys
    BY <2>1, <2>2, Inserted
  <2> QED BY <1>6, <2>1, <2>3 DEF AgentSaved, StoreStep, m
<1>7. CASE AgentFails
  BY <1>7 DEF AgentFails, StoreStep
<1>8. ASSUME UNCHANGED store PROVE StoreStep
  BY <1>8 DEF StoreStep
<1>9. UNCHANGED store \/ Fail \/ Crash \/ HostClears \/ ReplacePrefix \/ AgentSaves \/ AgentFails
        \/ \E w \in Ops : StoreAppends(w)
  BY DEF Next, vars, Launch, Attempt, Load, RecordRead, Answers, Checkpoint, FinishFlush, Abort, Leave, Uncertain, SendWrite,
         RecordWrite, Conflict, Calls, retry, respond, cancel, resolveMemoryWrite, close, Closed, open, Agent, Snapshot,
         AgentAnswers
<1> QED BY <1>2, <1>3, <1>4, <1>5, <1>6, <1>7, <1>8, <1>9

\* Each of them keeps the store sound.
LEMMA StoreKept == ASSUME StoreSound, StoreStep PROVE StoreOK(store')
<1>1. StoreOK(store)
  BY DEF StoreSound, Typed
<1>2. ASSUME NEW w \in Ops, store' = Answer(w).store PROVE StoreOK(store')
  BY <1>2, AnswerKnown DEF StoreSound
<1>3. CASE store' = clear(store)
  BY <1>1, <1>3, Cleared
<1>4. CASE store' = upsertSession(store)
  BY <1>1, <1>4, Upserted
<1>5. CASE CompactedNow
  BY <1>5 DEF CompactedNow
<1>6. CASE AgentSaved
  BY <1>1, <1>6, GrownOK DEF AgentSaved
<1> QED BY <1>1, <1>2, <1>3, <1>4, <1>5, <1>6 DEF StoreStep

\* A snapshot holds for as long as its compaction.
LEMMA CompactionKept == ASSUME StoreSound, [Next]_vars, At("compacting")' PROVE Compacting(store', agent')
<1>1. StoreOK(store) /\ (At("compacting") => Compacting(store, agent))
  BY DEF StoreSound, Typed
<1>2. ASSUME UNCHANGED agent PROVE Compacting(store', agent')
  <2>1. Compacting(store, agent)
    BY <1>1, <1>2 DEF At
  <2>2. ASSUME NEW w \in Ops, store' = Answer(w).store PROVE Compacting(store', agent)
    <3>1. CASE Answer(w).status = "committed"
      <4>1. Grown(store', store, Op(w).messages)
        BY <2>2, <3>1, AnswerKnown DEF StoreSound
      <4>2. Op(w).messages \in Seq(Message)
        BY OpsNow DEF StoreSound, Typed, Write
      <4> QED BY <1>1, <2>1, <4>1, <4>2, CompactingGrown
    <3>2. CASE Answer(w).status # "committed"
      BY <2>1, <2>2, <3>2, AnswerKnown DEF StoreSound
    <3> QED BY <3>1, <3>2
  <2>3. CASE store' = clear(store)
    BY <1>1, <1>2, <2>1, <2>3, CompactingCleared
  <2>4. CASE UNCHANGED store
    BY <1>2, <2>1, <2>4
  <2>5. UNCHANGED store \/ store' = clear(store) \/ \E w \in Ops : store' = Answer(w).store
    <3>1. At("compacting")
      BY <1>2 DEF At
    <3>2. ~ReplacePrefix
      <4>1. ReplacePrefix => agent'.phase # "compacting"
        <5>1. agent \in Agents
          BY DEF StoreSound, Typed, Shapes
        <5> QED BY <5>1 DEF ReplacePrefix, Agents
      <4> QED BY <4>1 DEF At
    <3> QED BY <3>1, <3>2 DEF Next, vars, Launch, Attempt, Load, RecordRead, Answers, Checkpoint, FinishFlush, Abort, Leave,
               Uncertain, SendWrite, RecordWrite, Conflict, Calls, retry, respond, cancel, resolveMemoryWrite, close, Closed,
               open, Agent, Snapshot, AgentAnswers, AgentSaves, AgentFails, HostClears, StoreAppends, Fail, Crash, At
  <2> QED BY <1>2, <2>2, <2>3, <2>4, <2>5
<1>3. ASSUME NEW count, Snapshot(count) PROVE Compacting(store', agent')
  <2>1. agent \in Agents /\ At("preparing") /\ count \in 0..Len(projectedMessages(store)) /\ store' = store
    BY <1>3 DEF StoreSound, Typed, Shapes, Snapshot, loadCompactionSnapshot
  <2>2. count # 0
    <3>1. count = 0 => agent'.phase = "working"
      BY <1>3, <2>1 DEF Snapshot, Agents
    <3> QED BY <3>1 DEF At
  <2> DEFINE r == compactionRevision(store)
             s == SubSeq(projectedMessages(store), 1, count)
  <2>3. agent' = [agent EXCEPT !.phase = "compacting", !.tries = @ + 1, !.revision = r, !.prefix = s]
    BY <1>3, <2>2 DEF Snapshot, loadCompactionSnapshot
  <2> HIDE DEF r, s
  <2>4. agent'.revision = r /\ agent'.prefix = s
    BY <2>1, <2>3 DEF Agents
  <2>5. count \in 1..Len(projectedMessages(store))
    <3>1. Len(projectedMessages(store)) \in Nat
      BY <1>1, Projected
    <3> QED BY <2>1, <2>2, <3>1
  <2> QED BY <1>1, <2>1, <2>4, <2>5, SnapshotTaken DEF r, s
<1>4. ~ReplacePrefix /\ ~AgentSaves /\ ~AgentFails /\ \A turns : ~AgentAnswers(turns)
  <2>1. agent \in Agents
    BY DEF StoreSound, Typed, Shapes
  <2> QED BY <2>1 DEF ReplacePrefix, AgentSaves, AgentFails, AgentAnswers, Agents, At
<1>5. UNCHANGED agent \/ Agent
  BY DEF Next, vars, Launch, Attempt, Load, RecordRead, Answers, Checkpoint, FinishFlush, Abort, Leave,
         Uncertain, SendWrite, RecordWrite, Conflict, Calls, retry, respond, cancel, resolveMemoryWrite, close, Closed,
         open, HostClears, StoreAppends, Fail, Crash, Others
<1> QED BY <1>2, <1>3, <1>4, <1>5 DEF Agent

\* The store starts sound,
LEMMA StoreInit == Init => StoreSound
<1> SUFFICES ASSUME Init PROVE StoreSound
  OBVIOUS
<1>1. StoreOK(store)
  BY DEF Init, EmptyStore, StoreOK, History, Key
<1>2. policy \in Policies /\ 1 \in Epochs /\ 1 <= MaxEpochs[policy]
  <2>1. policy \in Policies
    BY DEF Init
  <2> QED BY <2>1, EpochsKnown
<1>3. run \in Row /\ run.epoch = 1
  BY <1>2 DEF Init, Row, Statuses, Runnable, Outcomes
<1>4. writes \in [Epochs -> Seq(Write)] /\ said \in [Epochs -> Seq(Message)] /\ read = <<>>
  BY DEF Init
<1>5. attempt \in InMemory /\ attempt.phase = "none"
  BY DEF Init, NoAttempt, InMemory, Phases, Replies
<1>6. agent \in Agents /\ agent.phase = "preparing" /\ process = "up" /\ used \in [faults : Nat, retries : Nat]
  BY DEF Init, Agents
<1>7. Shapes
  BY <1>2, <1>3, <1>4, <1>5, <1>6 DEF Shapes, In
<1> QED BY <1>1, <1>6, <1>7 DEF StoreSound, Typed, At

\* no step breaks it,
LEMMA StoreNext == StoreSound /\ [Next]_vars => StoreSound'
<1> SUFFICES ASSUME StoreSound, [Next]_vars PROVE StoreSound'
  OBVIOUS
<1>1. Shapes'
  BY ShapesStep DEF StoreSound
<1>2. StoreOK(store')
  BY StoreChanges, StoreKept
<1> QED BY <1>1, <1>2, CompactionKept DEF StoreSound, Typed

\* and so it is sound in every state.
THEOREM StoreStaysSound == Spec => []StoreSound
  BY StoreInit, StoreNext, PTL DEF Spec

\* However the compactions, the writes and clear() interleave, a summary stands for exactly the
\* rows it hides.
THEOREM SummariesWhole == Spec => []CompactionWhole
<1>1. StoreSound => CompactionWhole
  BY DEF StoreSound, Typed, StoreOK, CompactionWhole
<1> QED BY <1>1, StoreStaysSound, PTL

-----------------------------------------------------------------------------
(* The run, its attempt and its writes.                                     *)

\* An attempt at work on the run, and one at work on its writes.
Engaged == {"reading", "loaded", "working", "flushing", "sending", "answered"}
Flushes == {"flushing", "sending", "answered"}

\* Where the attempt is, and what the row of the run says meanwhile.
Control ==
  /\ attempt.phase \in Engaged =>
       run.status \in {"running", "cancelled"} \/ (In("flushing") /\ run.status = "completed")
  /\ attempt.phase \in Engaged /\ run.status = "cancelled" => attempt.aborted
  /\ attempt.phase \in Engaged \ Flushes => run.outcome = "none"
  /\ attempt.phase \in Flushes => run.outcome # "none"
  /\ attempt.phase \in {"reading", "loaded"} => run.epoch = 1
  /\ In("working") \/ run.outcome # "none" \/ run.epoch > 1 => read # <<>>
  /\ run.status \in {"completed", "waiting"} => run.outcome # "none"
  /\ run.blocked # NoWrite => run.status \in {"needs_attention", "cancelled"}

\* The writes are settled in their order, epoch by epoch.
InTurn ==
  /\ \A w \in Ops : w[1] <= run.epoch /\ (run.outcome = "none" => w[1] < run.epoch)
  /\ \A w \in Unsettled : w[1] = run.epoch
  /\ \A v \in Completed, w \in Unsettled : Before(v, w)
  /\ Completed # {} => \E w \in Completed : \A v \in Completed : Before(v, w)
  /\ \A w \in Completed :
       Op(w).how # "unsettled" /\ (Op(w).how \in {"committed", "duplicate"} => Op(w).version \in Version)

\* What is being written.
AtWork ==
  /\ run.status \in {"completed", "waiting"} => Unsettled = {}
  /\ run.status = "needs_attention" /\ run.blocked # NoWrite => Due(run.blocked)
  /\ attempt.phase \in {"sending", "answered"} => \E w \in Ops : Due(w) /\ Op(w).attempts = 1

RunSound == StoreSound /\ Control /\ InTurn /\ AtWork

\* The last one of a set of writes, and the first one.
LEMMA LastOne ==
  ASSUME NEW C, C \subseteq Nat \X Nat, NEW w \in C, \A v \in C : Before(v, w)
  PROVE  (CHOOSE x \in C : \A v \in C : Before(v, x)) = w
<1>1. \A x, y \in Nat \X Nat : Before(x, y) /\ Before(y, x) => x = y
  BY DEF Before
<1> DEFINE x == CHOOSE x \in C : \A v \in C : Before(v, x)
<1>2. x \in C /\ \A v \in C : Before(v, x)
  OBVIOUS
<1> HIDE DEF x
<1>3. x = w
  BY <1>1, <1>2
<1> QED BY <1>3 DEF x

\* At most one write is due.
LEMMA DueOne ==
  ASSUME Typed, NEW v, NEW w, Due(v), Due(w)
  PROVE  v = w
<1>1. v \in Nat \X Nat /\ w \in Nat \X Nat
  BY OpsNow DEF Typed, Due, Unsettled
<1>2. Before(v, w) /\ Before(w, v)
  BY DEF Due
<1> QED BY <1>1, <1>2 DEF Before

\* A write that is due.
LEMMA DueKnown ==
  ASSUME Typed, NEW w, Due(w)
  PROVE  w \in Unsettled /\ w \in Ops /\ w \in Nat \X Nat /\ w[1] = run.epoch
BY OpsNow DEF Typed, Due, Unsettled

\* Writes are started or completed.
LEMMA EitherWay ==
  ASSUME Typed
  PROVE  Ops = Completed \cup Unsettled /\ Completed \cap Unsettled = {} /\ Ops \subseteq Nat \X Nat
<1>1. \A w \in Ops : Op(w).status \in {"started", "completed"} /\ w \in Nat \X Nat
  BY OpsNow DEF Typed, Write
<1> QED BY <1>1 DEF Completed, Unsettled

\* What stays as it is when the writes do.
LEMMA RetainedKeeps ==
  ASSUME Typed, InTurn, Retained, run'.epoch = run.epoch
  PROVE  /\ Ops' = Ops /\ Completed' = Completed /\ Unsettled' = Unsettled
         /\ \A w : Due(w)' <=> Due(w)
         /\ \A w \in Ops : Op(w)'.messages = Op(w).messages /\ Op(w)'.version = Op(w).version
                           /\ Op(w)'.how = Op(w).how
         /\ read' = read => BaseVersion' = BaseVersion
<1>1. Ops' = Ops /\ Completed' = Completed /\ Unsettled' = Unsettled
  BY DEF Retained, Completed, Unsettled
<1>2. \A w : Due(w)' <=> Due(w)
  BY <1>1 DEF Due
<1>3. \A w \in Ops : Op(w)'.messages = Op(w).messages /\ Op(w)'.version = Op(w).version
                     /\ Op(w)'.how = Op(w).how
  BY DEF Retained
<1>4. ASSUME read' = read PROVE BaseVersion' = BaseVersion
  <2>1. CASE Completed = {}
    BY <1>1, <1>4, <2>1 DEF BaseVersion
  <2>2. CASE Completed # {}
    <3>1. PICK w \in Completed : \A v \in Completed : Before(v, w)
      BY <2>2 DEF InTurn
    <3>2. Completed \subseteq Nat \X Nat /\ w \in Ops
      BY EitherWay, <3>1
    <3>3. (CHOOSE x \in Completed : \A v \in Completed : Before(v, x)) = w
      BY <3>1, <3>2, LastOne
    <3>4. BaseVersion = Op(w).version
      BY <2>2, <3>3 DEF BaseVersion
    <3>5. (CHOOSE x \in Completed' : \A v \in Completed' : Before(v, x)) = w
      BY <1>1, <3>3
    <3>6. BaseVersion' = Op(w)'.version
      BY <1>1, <2>2, <3>5 DEF BaseVersion
    <3> QED BY <1>3, <3>2, <3>4, <3>6
  <2> QED BY <2>1, <2>2
<1> QED BY <1>1, <1>2, <1>3, <1>4

\* What settling the write that is due changes.
LEMMA SettledKeeps ==
  ASSUME Typed, InTurn, NEW w, NEW how, NEW version, Due(w), SettledNow(w, how, version),
         run'.epoch = run.epoch
  PROVE  /\ Ops' = Ops /\ Completed' = Completed \cup {w} /\ Unsettled' = Unsettled \ {w}
         /\ w \notin Completed
         /\ \A v \in Completed : Before(v, w) /\ Op(v)' = Op(v)
         /\ \A v \in Unsettled : Before(w, v)
         /\ \A v \in Ops : Op(v)'.messages = Op(v).messages
         /\ Op(w)'.how = how /\ Op(w)'.version = version
         /\ BaseVersion' = version
<1>1. w \in Unsettled /\ w \in Ops /\ w[1] = run.epoch
  BY DueKnown
<1>2. Ops = Completed \cup Unsettled /\ Completed \cap Unsettled = {} /\ Ops \subseteq Nat \X Nat
  BY EitherWay
<1>3. /\ Ops' = Ops /\ \A v \in Ops \ {w} : Op(v)' = Op(v)
      /\ Op(w)'.messages = Op(w).messages /\ Op(w)'.status = "completed"
      /\ Op(w)'.version = version /\ Op(w)'.how = how
  BY DEF SettledNow
<1>4. Completed' = Completed \cup {w} /\ Unsettled' = Unsettled \ {w}
  BY <1>1, <1>3 DEF Completed, Unsettled
<1>5. \A v \in Completed : Before(v, w) /\ Op(v)' = Op(v)
  BY <1>1, <1>2, <1>3 DEF InTurn
<1>6. \A v \in Unsettled : Before(w, v)
  BY DEF Due, InTurn
<1>7. \A v \in Completed' : Before(v, w)
  <2>1. Before(w, w)
    BY <1>1, <1>6
  <2> QED BY <1>4, <1>5, <2>1
<1>8. (CHOOSE x \in Completed' : \A v \in Completed' : Before(v, x)) = w
  <2>1. Completed' \subseteq Nat \X Nat /\ w \in Completed'
    BY <1>1, <1>2, <1>4
  <2> QED BY <1>7, <2>1, LastOne
<1>9. BaseVersion' = version
  BY <1>3, <1>4, <1>8 DEF BaseVersion
<1> QED BY <1>1, <1>2, <1>3, <1>4, <1>5, <1>6, <1>9

\* What a checkpoint adds.
LEMMA RecordedKeeps ==
  ASSUME Typed, InTurn, run.outcome = "none", NEW c \in Seq(Seq(Message)),
         RecordedNow(c), run'.epoch = run.epoch
  PROVE  /\ Ops' = Ops \cup {<<run.epoch, i>> : i \in DOMAIN c}
         /\ Unsettled = {} /\ Completed' = Completed
         /\ Unsettled' = {<<run.epoch, i>> : i \in DOMAIN c}
         /\ \A v \in Ops : v[1] < run.epoch /\ Op(v)' = Op(v)
         /\ \A n, i : n = run.epoch /\ i \in DOMAIN c => Op(<<n, i>>)'.messages = c[i]
         /\ read' = read => BaseVersion' = BaseVersion
<1>1. run.epoch \in Nat
  BY EpochsKnown DEF Typed, Shapes, Row
<1>2. Ops = Completed \cup Unsettled /\ Ops \subseteq Nat \X Nat
  BY EitherWay
<1>3. \A v \in Ops : v[1] < run.epoch
  BY DEF InTurn
<1>4. \A v \in Ops : Op(v)' = Op(v)
  <2>1. \A v \in Ops : v[1] # run.epoch
    BY <1>1, <1>2, <1>3
  <2> QED BY <2>1 DEF RecordedNow
<1>5. Unsettled = {}
  <2>1. \A w \in Unsettled : w[1] = run.epoch /\ w[1] < run.epoch
    BY <1>2, <1>3 DEF InTurn
  <2> QED BY <1>1, <2>1
<1>6. \A w \in {<<run.epoch, i>> : i \in DOMAIN c} : Op(w)'.status = "started"
  BY DEF RecordedNow
<1>7. Ops' = Ops \cup {<<run.epoch, i>> : i \in DOMAIN c}
  BY DEF RecordedNow
<1>8. Completed' = Completed /\ Unsettled' = {<<run.epoch, i>> : i \in DOMAIN c}
  <2> DEFINE N == {<<run.epoch, i>> : i \in DOMAIN c}
  <2>1. Ops' = Ops \cup N /\ \A w \in N : Op(w)'.status = "started"
    BY <1>6, <1>7
  <2> HIDE DEF N
  <2>2. Completed' = Completed
    BY <1>4, <2>1 DEF Completed
  <2>3. Unsettled' = N
    BY <1>4, <1>5, <2>1 DEF Unsettled
  <2> QED BY <2>2, <2>3 DEF N
<1>9. ASSUME read' = read PROVE BaseVersion' = BaseVersion
  <2>1. CASE Completed = {}
    BY <1>8, <1>9, <2>1 DEF BaseVersion
  <2>2. CASE Completed # {}
    <3>1. PICK w \in Completed : \A v \in Completed : Before(v, w)
      BY <2>2 DEF InTurn
    <3>2. Completed \subseteq Nat \X Nat /\ w \in Ops
      BY <1>2, <3>1
    <3>3. (CHOOSE x \in Completed : \A v \in Completed : Before(v, x)) = w
      BY <3>1, <3>2, LastOne
    <3>4. BaseVersion = Op(w).version /\ BaseVersion' = Op(w)'.version
      BY <1>8, <2>2, <3>3 DEF BaseVersion
    <3> QED BY <1>4, <3>2, <3>4
  <2> QED BY <2>1, <2>2
<1>10. \A n, i : n = run.epoch /\ i \in DOMAIN c => Op(<<n, i>>)'.messages = c[i]
  BY DEF RecordedNow
<1> QED BY <1>3, <1>4, <1>5, <1>7, <1>8, <1>9, <1>10

\* Writes that are retained stay in turn.
LEMMA InTurnRetained ==
  ASSUME Typed, InTurn, Retained, run'.epoch = run.epoch, run'.outcome = run.outcome
  PROVE  InTurn'
<1>1. /\ Ops' = Ops /\ Completed' = Completed /\ Unsettled' = Unsettled
      /\ \A w \in Ops : Op(w)'.version = Op(w).version /\ Op(w)'.how = Op(w).how
  BY RetainedKeeps
<1>2. Completed \subseteq Ops
  BY DEF Completed
<1> QED BY <1>1, <1>2 DEF InTurn

\* So do those of which the due one is settled.
LEMMA InTurnSettled ==
  ASSUME Typed, InTurn, NEW w, NEW how, NEW version, Due(w), SettledNow(w, how, version),
         run'.epoch = run.epoch, run'.outcome = run.outcome,
         how # "unsettled", how \in {"committed", "duplicate"} => version \in Version
  PROVE  InTurn'
<1>1. /\ Ops' = Ops /\ Completed' = Completed \cup {w} /\ Unsettled' = Unsettled \ {w}
      /\ \A v \in Completed : Before(v, w) /\ Op(v)' = Op(v)
      /\ \A v \in Unsettled : Before(w, v)
      /\ Op(w)'.how = how /\ Op(w)'.version = version
  BY SettledKeeps
<1>2. w \in Unsettled
  BY DueKnown
<1>3. \A v \in Completed' : Before(v, w)
  BY <1>1, <1>2
<1>4. Completed' # {} => \E x \in Completed' : \A v \in Completed' : Before(v, x)
  BY <1>1, <1>3
<1>5. \A v \in Completed', x \in Unsettled' : Before(v, x)
  BY <1>1 DEF InTurn
<1>6. \A v \in Completed' :
        Op(v)'.how # "unsettled" /\ (Op(v)'.how \in {"committed", "duplicate"} => Op(v)'.version \in Version)
  BY <1>1 DEF InTurn
<1>7. /\ \A v \in Ops' : v[1] <= run'.epoch /\ (run'.outcome = "none" => v[1] < run'.epoch)
      /\ \A v \in Unsettled' : v[1] = run'.epoch
  BY <1>1 DEF InTurn
<1> QED BY <1>4, <1>5, <1>6, <1>7 DEF InTurn

\* And those of a new segment.
LEMMA InTurnRecorded ==
  ASSUME Typed, InTurn, run.outcome = "none", NEW c \in Seq(Seq(Message)),
         RecordedNow(c), run'.epoch = run.epoch, run'.outcome # "none"
  PROVE  InTurn'
<1>1. /\ Ops' = Ops \cup {<<run.epoch, i>> : i \in DOMAIN c}
      /\ Completed' = Completed
      /\ Unsettled' = {<<run.epoch, i>> : i \in DOMAIN c}
      /\ \A v \in Ops : v[1] < run.epoch /\ Op(v)' = Op(v)
  BY RecordedKeeps
<1>2. Completed \subseteq Ops /\ Ops \subseteq Nat \X Nat /\ run.epoch \in Nat
  BY EitherWay, EpochsKnown DEF Typed, Shapes, Row
<1>3. \A v \in Ops' : v[1] <= run'.epoch
  <2>1. ASSUME NEW v \in Ops PROVE v[1] <= run'.epoch
    BY <1>1, <1>2
  <2>2. ASSUME NEW v \in {<<run.epoch, i>> : i \in DOMAIN c} PROVE v[1] <= run'.epoch
    BY <1>2
  <2> QED BY <1>1, <2>1, <2>2
<1>4. \A v \in Unsettled' : v[1] = run'.epoch
  BY <1>1
<1>5. \A v \in Completed', x \in Unsettled' : Before(v, x)
  <2>1. \A v \in Completed, x \in Unsettled' : v[1] < x[1]
    BY <1>1, <1>2, <1>4
  <2> QED BY <1>1, <2>1 DEF Before
<1>6. Completed' # {} => \E x \in Completed' : \A v \in Completed' : Before(v, x)
  BY <1>1 DEF InTurn
<1>7. \A v \in Completed' :
        Op(v)'.how # "unsettled" /\ (Op(v)'.how \in {"committed", "duplicate"} => Op(v)'.version \in Version)
  BY <1>1, <1>2 DEF InTurn
<1> QED BY <1>3, <1>4, <1>5, <1>6, <1>7 DEF InTurn

\* A new epoch starts with nothing left to write.
LEMMA InTurnResponded ==
  ASSUME Typed, InTurn, Retained, Unsettled = {}, run'.epoch = run.epoch + 1
  PROVE  InTurn' /\ Unsettled' = {} /\ Completed' = Completed
<1>1. Ops' = Ops /\ Completed' = Completed /\ Unsettled' = Unsettled
  BY DEF Retained, Completed, Unsettled
<1>2. \A w \in Ops : Op(w)'.version = Op(w).version /\ Op(w)'.how = Op(w).how
  BY DEF Retained
<1>3. Completed \subseteq Ops /\ Ops \subseteq Nat \X Nat /\ run.epoch \in Nat
  BY EitherWay, EpochsKnown DEF Typed, Shapes, Row
<1>4. \A v \in Ops' : v[1] < run'.epoch
  BY <1>1, <1>3 DEF InTurn
<1>5. \A v \in Ops' : v[1] <= run'.epoch
  BY <1>1, <1>3, <1>4
<1> QED BY <1>1, <1>2, <1>3, <1>4, <1>5 DEF InTurn

\* The three parts hold at first.
LEMMA RunInit == Init => Control /\ InTurn /\ AtWork
<1> SUFFICES ASSUME Init PROVE Control /\ InTurn /\ AtWork
  OBVIOUS
<1>1. Ops = {}
  BY DEF Init, Ops
<1>2. Completed = {} /\ Unsettled = {}
  BY <1>1 DEF Completed, Unsettled
<1>3. /\ run.status = "pending" /\ run.epoch = 1 /\ run.outcome = "none" /\ run.blocked = NoWrite
      /\ attempt.phase = "none"
  BY DEF Init, NoAttempt
<1>4. Control
  BY <1>3 DEF Control, Engaged, Flushes, In
<1>5. InTurn
  BY <1>1, <1>2 DEF InTurn
<1>6. AtWork
  BY <1>2, <1>3 DEF AtWork
<1> QED BY <1>4, <1>5, <1>6

\* What a step leaves alone.
LEMMA ControlKept ==
  ASSUME Control, UNCHANGED <<run, read, attempt>> PROVE Control'
BY DEF Control, In

\* What an attempt works on stays due as long as neither it, the run nor the writes change.
LEMMA AtWorkKept ==
  ASSUME Typed, InTurn, AtWork, UNCHANGED <<run, attempt, writes>> PROVE AtWork'
<1>1. Retained
  BY WriteChanges
<1>2. /\ Ops' = Ops /\ Unsettled' = Unsettled
      /\ \A w : Due(w)' <=> Due(w)
  BY <1>1, RetainedKeeps
<1>3. \A w : Op(w)' = Op(w)
  BY DEF Op
<1>4. run'.status \in {"completed", "waiting"} => Unsettled' = {}
  BY <1>2 DEF AtWork
<1>5. run'.status = "needs_attention" /\ run'.blocked # NoWrite => Due(run'.blocked)
  BY <1>2 DEF AtWork
<1>6. attempt'.phase \in {"sending", "answered"} => \E w \in Ops : Due(w)' /\ Op(w)'.attempts = 1
  BY <1>2, <1>3 DEF AtWork
<1>7. \A w : w = run'.blocked => (Due(w)' <=> Due(w))
  BY <1>2
<1> QED BY <1>2, <1>4, <1>5, <1>6, <1>7 DEF AtWork

\* Every step keeps the attempt and the row of the run in line.
LEMMA ControlNext == ASSUME RunSound, [Next]_vars PROVE Control'
<1>1. /\ Typed /\ Control /\ AtWork /\ run \in Row
      /\ run.status \in {"pending", "running", "completed", "failed", "cancelled", "waiting", "needs_attention"}
      /\ run.epoch \in Nat
  BY EpochsKnown DEF RunSound, StoreSound, Typed, Shapes, Row, Statuses, Runnable, Settled
<1> USE DEF RunChanged, AttemptChanged, Control, Engaged, Flushes, In
<1>2. CASE Launch
  <2>1. RunChanged("running", run.epoch, run.outcome, run.blocked)
    BY <1>1, <1>2, AttemptChanges
  <2>2. /\ run.status \in {"pending", "running"} /\ attempt.phase = "none" /\ read' = read
        /\ attempt' = [attempt EXCEPT !.phase =
             IF run.outcome # "none" THEN "flushing"
             ELSE IF run.epoch = 1 /\ read = <<>> THEN "reading" ELSE "working"]
    BY <1>2 DEF Launch, Launchable, Runnable, To
  <2>3. attempt'.phase = (IF run.outcome # "none" THEN "flushing"
                          ELSE IF run.epoch = 1 /\ read = <<>> THEN "reading" ELSE "working")
    BY <1>1, <2>2 DEF Typed, Shapes, InMemory
  <2>4. run.epoch > 1 \/ run.epoch = 1
    BY <1>1, EpochsKnown DEF Row
  <2> QED BY <1>1, <2>1, <2>2, <2>3, <2>4
<1>3. CASE Load
  <2>1. attempt.phase = "reading" /\ ~attempt.aborted /\ UNCHANGED <<run, read>>
    BY <1>3 DEF Load, durable
  <2>2. attempt'.phase = "loaded" /\ attempt'.aborted = attempt.aborted
    BY <1>1, <1>3 DEF Load, Typed, Shapes, InMemory
  <2> QED BY <1>1, <2>1, <2>2
<1>4. CASE RecordRead
  <2>1. AttemptChanged("working", attempt.aborted)
    BY <1>1, <1>4, AttemptChanges
  <2>2. attempt.phase = "loaded" /\ run' = run /\ read' = attempt.reply /\ attempt.reply # <<>>
    BY <1>1, <1>4 DEF RecordRead, Typed, Shapes
  <2> QED BY <1>1, <2>1, <2>2
<1>5. CASE Answers
  <2>1. PICK segment, outcome : Concludes(segment, outcome)
    BY <1>1, <1>5, CheckpointTaken
  <2>2. /\ outcome \in {"interaction", "response", "blocked"} /\ outcome \in Outcomes /\ Checkpoint(segment, outcome)
        /\ segment.captured = <<>> => outcome = "blocked"
    BY <2>1 DEF Concludes, Outcomes
  <2>3. RunChanged(IF segment.captured # <<>> THEN run.status
                   ELSE IF outcome = "interaction" THEN "waiting" ELSE "completed",
                   run.epoch, outcome, run.blocked)
    BY <1>1, <2>2, RunChanges
  <2>4. AttemptChanged("flushing", attempt.aborted)
    BY <1>1, <2>2, AttemptChanges
  <2>5. attempt.phase = "working" /\ ~attempt.aborted /\ read' = read
    BY <2>2 DEF Checkpoint
  <2>6. run.status = "running"
    BY <1>1, <2>5
  <2> QED BY <1>1, <2>2, <2>3, <2>4, <2>5, <2>6
<1>6. CASE FinishFlush
  <2>1. /\ RunChanged(IF run.status = "running" THEN Paused ELSE run.status, run.epoch, run.outcome, run.blocked)
        /\ AttemptChanged("leaving", attempt.aborted)
    BY <1>1, <1>6, RunChanges, AttemptChanges
  <2>2. attempt.phase = "flushing" /\ read' = read /\ Paused \in {"waiting", "completed"}
    BY <1>6 DEF FinishFlush, Paused
  <2> QED BY <1>1, <2>1, <2>2
<1>7. CASE Fail
  <2>1. /\ RunChanged(IF attempt.aborted THEN run.status ELSE "failed", run.epoch, run.outcome, run.blocked)
        /\ AttemptChanged("leaving", attempt.aborted)
    BY <1>1, <1>7, RunChanges, AttemptChanges
  <2>2. attempt.phase \in {"reading", "working", "sending"} /\ read' = read
    BY <1>7 DEF Fail
  <2> QED BY <1>1, <2>1, <2>2
<1>8. CASE Abort
  <2>1. AttemptChanged("leaving", attempt.aborted) /\ UNCHANGED <<run, read>>
    BY <1>1, <1>8, AttemptChanges DEF Abort, durable
  <2> QED BY <1>1, <2>1
<1>9. CASE Leave \/ Crash
  <2>1. AttemptChanged("none", FALSE) /\ UNCHANGED <<run, read>>
    BY <1>1, <1>9, AttemptChanges DEF Leave, Crash, durable
  <2> QED BY <1>1, <2>1
<1>10. CASE cancel
  <2>1. /\ RunChanged("cancelled", run.epoch, run.outcome, run.blocked)
        /\ AttemptChanged(attempt.phase, attempt.phase # "none")
    BY <1>1, <1>10, RunChanges, AttemptChanges
  <2>2. read' = read /\ run.status \notin {"completed", "failed", "cancelled"}
    BY <1>10 DEF cancel, Settled
  <2> QED BY <1>1, <2>1, <2>2
<1>11. CASE close
  <2>1. AttemptChanged(attempt.phase, attempt.phase # "none") /\ UNCHANGED <<run, read>>
    BY <1>1, <1>11, AttemptChanges DEF close, durable
  <2> QED BY <1>1, <2>1
<1>12. ASSUME NEW w \in Ops, Uncertain(w) PROVE Control'
  <2>1. /\ RunChanged("needs_attention", run.epoch, run.outcome, w)
        /\ AttemptChanged("leaving", attempt.aborted)
    BY <1>1, <1>12, RunChanges, AttemptChanges
  <2>2. read' = read /\ attempt.phase = "flushing"
    BY <1>12 DEF Uncertain
  <2> QED BY <1>1, <2>1, <2>2
<1>13. ASSUME NEW w \in Ops, Conflict(w) PROVE Control'
  <2>1. /\ IF attempt.aborted THEN RunChanged(run.status, run.epoch, run.outcome, run.blocked)
           ELSE RunChanged("needs_attention", run.epoch, run.outcome, w)
        /\ AttemptChanged("leaving", attempt.aborted)
    BY <1>1, <1>13, RunChanges, AttemptChanges
  <2>2. read' = read /\ attempt.phase = "answered"
    BY <1>13 DEF Conflict
  <2> QED BY <1>1, <2>1, <2>2
<1>14. ASSUME NEW w \in Ops, SendWrite(w) PROVE Control'
  <2>1. AttemptChanged("sending", attempt.aborted)
    BY <1>1, <1>14, AttemptChanges
  <2>2. UNCHANGED <<run, read>> /\ attempt.phase = "flushing" /\ ~attempt.aborted
    BY <1>14 DEF SendWrite
  <2>3. run.status \in {"running", "completed"}
    BY <1>1, <2>2
  <2>4. run.status # "completed"
    BY <1>14 DEF SendWrite, Due, AtWork, RunSound
  <2> QED BY <1>1, <2>1, <2>2, <2>3, <2>4
<1>15. ASSUME NEW w \in Ops, RecordWrite(w) PROVE Control'
  <2>1. AttemptChanged("flushing", attempt.aborted)
    BY <1>1, <1>15, AttemptChanges
  <2>2. UNCHANGED <<run, read>> /\ attempt.phase = "answered"
    BY <1>15 DEF RecordWrite
  <2> QED BY <1>1, <2>1, <2>2
<1>16. ASSUME NEW w \in Ops, StoreAppends(w) PROVE Control'
  <2>1. attempt'.phase = "answered" /\ attempt'.aborted = attempt.aborted
    BY <1>1, <1>16 DEF StoreAppends, Typed, Shapes, InMemory
  <2>2. UNCHANGED <<run, read>> /\ attempt.phase = "sending"
    BY <1>16 DEF StoreAppends, durable
  <2> QED BY <1>1, <2>1, <2>2
<1>17. CASE retry
  <2>1. RunChanged("pending", run.epoch, run.outcome, NoWrite)
    BY <1>1, <1>17, RunChanges
  <2>2. UNCHANGED <<read, attempt>> /\ attempt.phase = "none"
    BY <1>17 DEF retry
  <2> QED BY <1>1, <2>1, <2>2
<1>18. CASE respond
  <2>1. RunChanged("pending", run.epoch + 1, "none", run.blocked)
    BY <1>1, <1>18, RunChanges
  <2>2. UNCHANGED <<read, attempt>> /\ run.status = "waiting" /\ run.outcome = "interaction"
    BY <1>18 DEF respond
  <2> QED BY <1>1, <2>1, <2>2
<1>19. ASSUME NEW w \in Ops, NEW how, resolveMemoryWrite(w, how) PROVE Control'
  <2>1. RunChanged("pending", run.epoch, run.outcome, NoWrite)
    BY <1>1, <1>19, RunChanges
  <2>2. UNCHANGED <<read, attempt>> /\ run.status = "needs_attention"
    BY <1>19 DEF resolveMemoryWrite
  <2> QED BY <1>1, <2>1, <2>2
<1>20. CASE UNCHANGED <<run, read, attempt>>
  BY <1>1, <1>20, ControlKept
<1>21. Closed \/ open \/ HostClears \/ Agent \/ UNCHANGED vars => UNCHANGED <<run, read, attempt>>
  BY DEF Closed, open, HostClears, Agent, Snapshot, ReplacePrefix, AgentAnswers, AgentSaves, AgentFails, Others, durable, vars
<1> QED BY <1>2, <1>3, <1>4, <1>5, <1>6, <1>7, <1>8, <1>9, <1>10, <1>11, <1>12, <1>13, <1>14, <1>15, <1>16, <1>17, <1>18,
           <1>19, <1>20, <1>21 DEF Next, Attempt, Calls

\* What a step does to the writes: nothing, but perhaps for the count of attempts,
Steady == Retained /\ run'.epoch = run.epoch /\ run'.outcome = run.outcome

\* settle the one that is due,
Settling(w, how, version) ==
  /\ Due(w) /\ SettledNow(w, how, version)
  /\ run'.epoch = run.epoch /\ run'.outcome = run.outcome
  /\ how \in {"committed", "duplicate"} => RecordWrite(w) /\ version = attempt.reply[1].version
                                           /\ how = attempt.reply[1].status
  /\ how \in {"committed", "duplicate", "applied", "discarded"}
  /\ how \in {"applied", "discarded"} => resolveMemoryWrite(w, how)

\* record those of a segment,
Recording(segment, outcome) ==
  /\ Answers /\ Concludes(segment, outcome) /\ RecordedNow(segment.captured)
  /\ run.outcome = "none" /\ run'.epoch = run.epoch /\ run'.outcome = outcome
  /\ read' = read /\ said' = [said EXCEPT ![run.epoch] = segment.new]

\* or start an epoch.
Responding ==
  /\ respond /\ Retained /\ Unsettled = {} /\ run'.epoch = run.epoch + 1 /\ run'.outcome = "none"
  /\ run.status = "waiting" /\ run.outcome = "interaction"

WritesStep ==
  \/ Steady
  \/ \E w, how, version : Settling(w, how, version)
  \/ \E segment, outcome : Recording(segment, outcome)
  \/ Responding

\* A checkpoint records the writes of a segment,
LEMMA AnswersRecord == ASSUME Typed, Control, InTurn, Answers PROVE \E segment, outcome : Recording(segment, outcome)
<1>1. PICK segment, outcome : Concludes(segment, outcome)
  BY CheckpointTaken
<1>2. /\ outcome \in Outcomes /\ Checkpoint(segment, outcome) /\ segment.captured \in Seq(Seq(Message))
  BY <1>1 DEF Concludes, Outcomes
<1>3. run'.epoch = run.epoch /\ run'.outcome = outcome
  BY <1>2, RunChanges DEF RunChanged
<1>4. /\ writes' = [writes EXCEPT ![run.epoch] = recordMemoryWrites(segment.captured)]
      /\ read' = read /\ said' = [said EXCEPT ![run.epoch] = segment.new]
      /\ In("working")
  BY <1>2 DEF Checkpoint
<1>5. run.outcome = "none"
  BY <1>4 DEF Control, Engaged, Flushes, In
<1>6. \A v \in Ops : v[1] # run.epoch
  <2>1. \A v \in Ops : v[1] < run.epoch /\ v[1] \in Nat
    BY <1>5, EitherWay DEF InTurn
  <2>2. run.epoch \in Nat
    BY EpochsKnown DEF Typed, Shapes, Row
  <2> QED BY <2>1, <2>2
<1>7. RecordedNow(segment.captured)
  BY <1>2, <1>4, <1>6, WritesRecorded
<1> QED BY <1>1, <1>3, <1>4, <1>5, <1>7 DEF Recording

\* and every step does one of these things to the writes.
LEMMA WritesChange == ASSUME RunSound, [Next]_vars PROVE WritesStep
<1>1. Typed /\ Control /\ InTurn /\ AtWork
  BY DEF RunSound, StoreSound
<1>2. ASSUME UNCHANGED writes PROVE Retained
  BY <1>1, <1>2, WriteChanges
<1>3. CASE Launch
  BY <1>1, <1>2, <1>3, AttemptChanges DEF WritesStep, Steady, RunChanged, Launch
<1>4. CASE Answers
  BY <1>1, <1>4, AnswersRecord DEF WritesStep
<1>5. CASE FinishFlush \/ Fail \/ cancel
  <2>1. Retained
    BY <1>2, <1>5 DEF FinishFlush, Fail, cancel
  <2>2. run'.epoch = run.epoch /\ run'.outcome = run.outcome
    BY <1>1, <1>5, RunChanges DEF RunChanged
  <2> QED BY <2>1, <2>2 DEF WritesStep, Steady
<1>6. ASSUME NEW w \in Ops, Uncertain(w) \/ Conflict(w) PROVE WritesStep
  <2>1. Retained
    BY <1>2, <1>6 DEF Uncertain, Conflict
  <2>2. run'.epoch = run.epoch /\ run'.outcome = run.outcome
    BY <1>1, <1>6, RunChanges DEF RunChanged
  <2> QED BY <2>1, <2>2 DEF WritesStep, Steady
<1>7. ASSUME NEW w \in Ops, SendWrite(w) PROVE WritesStep
  <2>1. Retained /\ run' = run
    BY <1>1, <1>7, WriteChanges DEF SendWrite
  <2> QED BY <2>1 DEF WritesStep, Steady
<1>8. ASSUME NEW w \in Ops, RecordWrite(w) PROVE WritesStep
  <2> DEFINE how == attempt.reply[1].status
             version == attempt.reply[1].version
  <2>1. SettledNow(w, how, version) /\ run' = run /\ Due(w)
    BY <1>1, <1>8, WriteChanges DEF RecordWrite
  <2>2. how \in {"committed", "duplicate"}
    BY <1>1, <1>8 DEF RecordWrite, Typed, Shapes, Results
  <2>3. Settling(w, how, version)
    BY <1>8, <2>1, <2>2 DEF Settling
  <2> QED BY <2>3 DEF WritesStep
<1>9. ASSUME NEW w \in Ops, NEW how \in {"applied", "discarded"}, resolveMemoryWrite(w, how) PROVE WritesStep
  <2>1. SettledNow(w, how, Unchecked) /\ run'.epoch = run.epoch /\ run'.outcome = run.outcome
    BY <1>1, <1>9, WriteChanges, RunChanges DEF RunChanged
  <2>2. Due(w)
    <3>1. run.status = "needs_attention" /\ run.blocked = w /\ w # NoWrite
      <4>1. w # NoWrite
        BY <1>1, OpsNow DEF NoWrite, Typed
      <4> QED BY <1>9, <4>1 DEF resolveMemoryWrite
    <3> QED BY <1>1, <3>1 DEF AtWork
  <2>3. Settling(w, how, Unchecked)
    BY <1>9, <2>1, <2>2 DEF Settling
  <2> QED BY <2>3 DEF WritesStep
<1>10. CASE retry
  <2>1. Retained /\ run'.epoch = run.epoch /\ run'.outcome = run.outcome
    BY <1>1, <1>10, WriteChanges, RunChanges DEF RunChanged
  <2> QED BY <2>1 DEF WritesStep, Steady
<1>11. CASE respond
  <2>1. RunChanged("pending", run.epoch + 1, "none", run.blocked)
    BY <1>1, <1>11, RunChanges
  <2>2. Retained /\ run.status = "waiting" /\ run.outcome = "interaction"
    BY <1>2, <1>11 DEF respond
  <2>3. Unsettled = {}
    BY <1>1, <2>2 DEF AtWork
  <2> QED BY <1>11, <2>1, <2>2, <2>3 DEF WritesStep, Responding, RunChanged
<1>12. ASSUME UNCHANGED <<writes, run>> PROVE WritesStep
  BY <1>2, <1>12 DEF WritesStep, Steady
<1>13. Load \/ RecordRead \/ Abort \/ Leave \/ Crash \/ close \/ Closed \/ open \/ Agent \/ HostClears \/ UNCHANGED vars
         \/ (\E w \in Ops : StoreAppends(w)) => UNCHANGED <<writes, run>>
  BY DEF Load, RecordRead, Abort, Leave, Crash, close, Closed, open, Agent, Snapshot, ReplacePrefix, AgentAnswers,
         AgentSaves, AgentFails, HostClears, StoreAppends, Others, durable, vars
<1> QED BY <1>3, <1>4, <1>5, <1>6, <1>7, <1>8, <1>9, <1>10, <1>11, <1>12, <1>13 DEF Next, Attempt, Calls

\* So they stay in turn.
LEMMA InTurnNext == ASSUME RunSound, WritesStep PROVE InTurn'
<1>1. Typed /\ InTurn
  BY DEF RunSound, StoreSound
<1>2. CASE Steady
  BY <1>1, <1>2, InTurnRetained DEF Steady
<1>3. ASSUME NEW w, NEW how, NEW version, Settling(w, how, version) PROVE InTurn'
  <2>1. /\ Due(w) /\ SettledNow(w, how, version) /\ run'.epoch = run.epoch /\ run'.outcome = run.outcome
        /\ how # "unsettled"
    BY <1>3 DEF Settling
  <2>2. how \in {"committed", "duplicate"} => version \in Version
    BY <1>1, <1>3 DEF Settling, RecordWrite, Typed, Shapes, Results
  <2> QED BY <1>1, <2>1, <2>2, InTurnSettled
<1>4. ASSUME NEW segment, NEW outcome, Recording(segment, outcome) PROVE InTurn'
  BY <1>1, <1>4, InTurnRecorded DEF Recording, Concludes
<1>5. CASE Responding
  BY <1>1, <1>5, InTurnResponded DEF Responding
<1> QED BY <1>2, <1>3, <1>4, <1>5 DEF WritesStep

\* What is being written stays what it is while the run and its writes do.
LEMMA AtWorkSteady ==
  ASSUME Typed, InTurn, AtWork, Retained, run'.epoch = run.epoch,
         UNCHANGED run \/ run'.status \notin {"completed", "waiting", "needs_attention"},
         attempt'.phase \notin {"sending", "answered"}
  PROVE  AtWork'
<1>1. /\ Ops' = Ops /\ Unsettled' = Unsettled
      /\ \A w : Due(w)' <=> Due(w)
  BY RetainedKeeps
<1>2. run'.status \in {"completed", "waiting"} => Unsettled' = {}
  BY <1>1 DEF AtWork
<1>3. ASSUME run'.status = "needs_attention", run'.blocked # NoWrite
      PROVE  \A w : w = run'.blocked => Due(w)'
  BY <1>1, <1>3 DEF AtWork
<1>4. run'.status = "needs_attention" /\ run'.blocked # NoWrite => Due(run.blocked)'
  BY <1>3 DEF Due
<1> QED BY <1>2, <1>3, <1>4 DEF AtWork

\* Every step keeps track of it.
LEMMA AtWorkNext == ASSUME RunSound, [Next]_vars PROVE AtWork'
<1>1. /\ Typed /\ Control /\ InTurn /\ AtWork /\ run \in Row
      /\ run.status \in {"pending", "running", "completed", "failed", "cancelled", "waiting", "needs_attention"}
  BY DEF RunSound, StoreSound, Typed, Shapes, Row, Statuses, Runnable, Settled
<1>2. UNCHANGED writes => Retained
  BY <1>1, WriteChanges
<1>3. CASE Launch
  <2>1. RunChanged("running", run.epoch, run.outcome, run.blocked) /\ Retained
    BY <1>1, <1>2, <1>3, AttemptChanges DEF Launch
  <2>2. attempt'.phase \in {"flushing", "reading", "working"}
    BY <1>1, <1>3, AttemptChanges DEF AttemptChanged
  <2> QED BY <1>1, <2>1, <2>2, AtWorkSteady DEF RunChanged
<1>4. CASE Load
  <2>1. UNCHANGED <<run, writes>>
    BY <1>4 DEF Load, durable
  <2>2. attempt'.phase = "loaded"
    BY <1>1, <1>4 DEF Load, Typed, Shapes, InMemory
  <2> QED BY <1>1, <1>2, <2>1, <2>2, AtWorkSteady
<1>5. CASE RecordRead \/ Abort
  <2>1. UNCHANGED <<run, writes>>
    BY <1>5 DEF RecordRead, Abort, durable
  <2>2. attempt'.phase \in {"working", "leaving"}
    BY <1>1, <1>5, AttemptChanges DEF AttemptChanged
  <2> QED BY <1>1, <1>2, <2>1, <2>2, AtWorkSteady
<1>6. CASE Leave \/ Crash
  <2>1. UNCHANGED <<run, writes>>
    BY <1>6 DEF Leave, Crash, durable
  <2>2. attempt'.phase = "none"
    BY <1>1, <1>6, AttemptChanges DEF AttemptChanged
  <2> QED BY <1>1, <1>2, <2>1, <2>2, AtWorkSteady
<1>7. ASSUME NEW segment, NEW outcome, Recording(segment, outcome) PROVE AtWork'
  <2>1. /\ outcome \in Outcomes /\ Checkpoint(segment, outcome)
        /\ segment.captured \in Seq(Seq(Message))
    BY <1>7 DEF Recording, Concludes, Outcomes
  <2>2. RunChanged(IF segment.captured # <<>> THEN run.status
                   ELSE IF outcome = "interaction" THEN "waiting" ELSE "completed",
                   run.epoch, outcome, run.blocked)
    BY <1>1, <2>1, RunChanges
  <2>3. attempt'.phase = "flushing" /\ attempt.phase = "working"
    BY <1>1, <2>1, AttemptChanges DEF AttemptChanged, Checkpoint, In
  <2>4. run.status \in {"running", "cancelled"}
    BY <1>1, <2>3 DEF Control, Engaged, In
  <2>5. CASE segment.captured # <<>>
    BY <2>2, <2>3, <2>4, <2>5 DEF AtWork, RunChanged
  <2>6. CASE segment.captured = <<>>
    <3>1. Unsettled' = {<<run.epoch, i>> : i \in DOMAIN segment.captured}
      BY <1>1, <1>7, <2>1, RecordedKeeps DEF Recording
    <3>2. DOMAIN segment.captured = {}
      BY <2>6
    <3>3. Unsettled' = {}
      BY <3>1, <3>2
    <3> QED BY <2>2, <2>3, <2>6, <3>3 DEF AtWork, RunChanged
  <2> QED BY <2>5, <2>6
<1>8. CASE FinishFlush
  <2>1. /\ RunChanged(IF run.status = "running" THEN Paused ELSE run.status, run.epoch, run.outcome, run.blocked)
        /\ attempt'.phase = "leaving" /\ attempt.phase = "flushing"
    BY <1>1, <1>8, RunChanges, AttemptChanges DEF AttemptChanged, FinishFlush, In
  <2>2. Retained
    BY <1>2, <1>8 DEF FinishFlush
  <2>3. Unsettled = {}
    BY <1>1, <1>8 DEF FinishFlush, InTurn
  <2>4. Unsettled' = {}
    BY <1>1, <2>1, <2>2, <2>3, RetainedKeeps DEF RunChanged
  <2>5. run.status # "needs_attention" /\ Paused # "needs_attention"
    BY <1>1, <2>1 DEF Control, Engaged, In, Paused
  <2> QED BY <2>1, <2>4, <2>5 DEF AtWork, RunChanged
<1>9. CASE Fail
  <2>1. /\ RunChanged(IF attempt.aborted THEN run.status ELSE "failed", run.epoch, run.outcome, run.blocked)
        /\ attempt'.phase = "leaving" /\ attempt.phase \in {"reading", "working", "sending"}
    BY <1>1, <1>9, RunChanges, AttemptChanges DEF AttemptChanged, Fail, In
  <2>2. run.status \in {"running", "cancelled"}
    BY <1>1, <2>1 DEF Control, Engaged, In
  <2> QED BY <2>1, <2>2 DEF AtWork, RunChanged
<1>10. ASSUME NEW w \in Ops, Uncertain(w) PROVE AtWork'
  <2>1. RunChanged("needs_attention", run.epoch, run.outcome, w) /\ attempt'.phase = "leaving"
    BY <1>1, <1>10, RunChanges, AttemptChanges DEF AttemptChanged
  <2>2. Retained /\ Due(w)
    BY <1>2, <1>10 DEF Uncertain
  <2>3. Due(w)'
    BY <1>1, <2>1, <2>2, RetainedKeeps DEF RunChanged
  <2>4. Due(run.blocked)'
    BY <2>1, <2>3 DEF RunChanged, Due
  <2> QED BY <2>1, <2>3, <2>4 DEF AtWork, RunChanged
<1>11. ASSUME NEW w \in Ops, Conflict(w) PROVE AtWork'
  <2>1. /\ IF attempt.aborted THEN RunChanged(run.status, run.epoch, run.outcome, run.blocked)
           ELSE RunChanged("needs_attention", run.epoch, run.outcome, w)
        /\ attempt'.phase = "leaving" /\ attempt.phase = "answered"
    BY <1>1, <1>11, RunChanges, AttemptChanges DEF AttemptChanged, Conflict, In
  <2>2. Retained /\ Due(w)
    BY <1>2, <1>11 DEF Conflict
  <2>3. Due(w)'
    BY <1>1, <2>1, <2>2, RetainedKeeps DEF RunChanged
  <2>4. run.status \in {"running", "cancelled"}
    BY <1>1, <2>1 DEF Control, Engaged, In
  <2>5. CASE attempt.aborted
    BY <2>1, <2>4, <2>5 DEF AtWork, RunChanged
  <2>6. CASE ~attempt.aborted
    <3>1. Due(run.blocked)'
      BY <2>1, <2>3, <2>6 DEF RunChanged, Due
    <3> QED BY <2>1, <2>6, <3>1 DEF AtWork, RunChanged
  <2> QED BY <2>5, <2>6
<1>12. ASSUME NEW w \in Ops, SendWrite(w) PROVE AtWork'
  <2>1. Retained /\ Op(w)'.attempts = 1 /\ Due(w) /\ run' = run /\ attempt.phase = "flushing" /\ ~attempt.aborted
    BY <1>1, <1>12, WriteChanges DEF SendWrite, In
  <2>2. /\ Ops' = Ops /\ Unsettled' = Unsettled
        /\ \A v : Due(v)' <=> Due(v)
    BY <1>1, <2>1, RetainedKeeps
  <2>3. \E v \in Ops' : Due(v)' /\ Op(v)'.attempts = 1
    BY <2>1, <2>2
  <2>4. run.status \in {"running", "completed"}
    BY <1>1, <2>1 DEF Control, Engaged, In
  <2>5. run.status # "completed"
    BY <1>1, <2>1 DEF AtWork, Due
  <2> QED BY <2>1, <2>3, <2>4, <2>5 DEF AtWork
<1>13. ASSUME NEW w \in Ops, StoreAppends(w) PROVE AtWork'
  <2>1. UNCHANGED <<run, writes>> /\ attempt.phase = "sending"
    BY <1>13 DEF StoreAppends, durable, In
  <2>2. /\ Ops' = Ops
        /\ \A v : Due(v)' <=> Due(v)
    BY <1>1, <1>2, <2>1, RetainedKeeps
  <2>3. \E v \in Ops' : Due(v)' /\ Op(v)'.attempts = 1
    <3>1. PICK v \in Ops : Due(v) /\ Op(v).attempts = 1
      BY <1>1, <2>1 DEF AtWork
    <3>2. Op(v)' = Op(v)
      BY <2>1 DEF Op
    <3> QED BY <2>2, <3>1, <3>2
  <2>4. run.status \in {"running", "cancelled"}
    BY <1>1, <2>1 DEF Control, Engaged, In
  <2> QED BY <2>1, <2>3, <2>4 DEF AtWork
<1>14. ASSUME NEW w \in Ops, RecordWrite(w) PROVE AtWork'
  <2>1. run' = run /\ attempt.phase = "answered" /\ attempt'.phase = "flushing"
    BY <1>1, <1>14, AttemptChanges DEF AttemptChanged, RecordWrite, In
  <2>2. run.status \in {"running", "cancelled"}
    BY <1>1, <2>1 DEF Control, Engaged, In
  <2> QED BY <2>1, <2>2 DEF AtWork
<1>15. CASE retry
  <2>1. RunChanged("pending", run.epoch, run.outcome, NoWrite) /\ attempt' = attempt /\ attempt.phase = "none"
    BY <1>1, <1>15, RunChanges DEF retry, In
  <2> QED BY <2>1 DEF AtWork, RunChanged
<1>16. CASE respond
  <2>1. /\ RunChanged("pending", run.epoch + 1, "none", run.blocked) /\ attempt' = attempt
        /\ run.status = "waiting"
    BY <1>1, <1>16, RunChanges DEF respond
  <2>2. attempt.phase \notin {"sending", "answered"}
    BY <1>1, <2>1 DEF Control, Engaged, In
  <2> QED BY <2>1, <2>2 DEF AtWork, RunChanged
<1>17. ASSUME NEW w \in Ops, NEW how, resolveMemoryWrite(w, how) PROVE AtWork'
  <2>1. /\ RunChanged("pending", run.epoch, run.outcome, NoWrite) /\ attempt' = attempt
        /\ run.status = "needs_attention"
    BY <1>1, <1>17, RunChanges DEF resolveMemoryWrite
  <2>2. attempt.phase \notin {"sending", "answered"}
    BY <1>1, <2>1 DEF Control, Engaged, In
  <2> QED BY <2>1, <2>2 DEF AtWork, RunChanged
<1>18. CASE cancel
  <2>1. RunChanged("cancelled", run.epoch, run.outcome, run.blocked) /\ attempt'.phase = attempt.phase
    BY <1>1, <1>18, RunChanges, AttemptChanges DEF AttemptChanged
  <2>2. UNCHANGED writes
    BY <1>18 DEF cancel
  <2>3. /\ Ops' = Ops
        /\ \A v : Due(v)' <=> Due(v)
        /\ \A v : Op(v)' = Op(v)
    BY <1>1, <1>2, <2>1, <2>2, RetainedKeeps DEF RunChanged, Op
  <2>4. attempt'.phase \in {"sending", "answered"} => \E v \in Ops' : Due(v)' /\ Op(v)'.attempts = 1
    BY <1>1, <2>1, <2>3 DEF AtWork
  <2> QED BY <2>1, <2>4 DEF AtWork, RunChanged
<1>19. CASE close
  <2>1. UNCHANGED <<run, writes>> /\ attempt'.phase = attempt.phase
    BY <1>1, <1>19, AttemptChanges DEF AttemptChanged, close, durable
  <2>2. /\ Ops' = Ops /\ Unsettled' = Unsettled
        /\ \A v : Due(v)' <=> Due(v)
        /\ \A v : Op(v)' = Op(v)
    BY <1>1, <1>2, <2>1, RetainedKeeps DEF Op
  <2>3. attempt'.phase \in {"sending", "answered"} => \E v \in Ops' : Due(v)' /\ Op(v)'.attempts = 1
    BY <1>1, <2>1, <2>2 DEF AtWork
  <2>4. \A v : v = run'.blocked => (Due(v)' <=> Due(v))
    BY <2>2
  <2>5. run'.status = "needs_attention" /\ run'.blocked # NoWrite => Due(run.blocked)'
    BY <1>1, <2>1, <2>2 DEF AtWork, Due
  <2> QED BY <1>1, <2>1, <2>2, <2>3, <2>5 DEF AtWork
<1>20. CASE UNCHANGED <<run, attempt, writes>>
  BY <1>1, <1>20, AtWorkKept
<1>21. Closed \/ open \/ HostClears \/ Agent \/ UNCHANGED vars => UNCHANGED <<run, attempt, writes>>
  BY DEF Closed, open, HostClears, Agent, Snapshot, ReplacePrefix, AgentAnswers, AgentSaves, AgentFails, Others, durable, vars
<1>22. ASSUME Answers PROVE AtWork'
  <2>1. \E segment, outcome : Recording(segment, outcome)
    BY <1>1, <1>22, AnswersRecord
  <2> QED BY <1>7, <2>1
<1> QED BY <1>3, <1>4, <1>5, <1>6, <1>8, <1>9, <1>10, <1>11, <1>12, <1>13, <1>14, <1>15, <1>16, <1>17, <1>18,
           <1>19, <1>20, <1>21, <1>22 DEF Next, Attempt, Calls

\* Every step keeps the run sound,
LEMMA RunNext == RunSound /\ [Next]_vars => RunSound'
<1> SUFFICES ASSUME RunSound, [Next]_vars PROVE RunSound'
  OBVIOUS
<1>1. StoreSound'
  BY StoreNext DEF RunSound
<1> QED BY <1>1, ControlNext, WritesChange, InTurnNext, AtWorkNext DEF RunSound

\* and so it is in every state: what an attempt sends is the write that is due, its attempt persisted, and
\* no run ends or waits for an answer while one of its writes is unsettled.
THEOREM RunStaysSound == Spec => []RunSound
<1>1. Init => RunSound
  BY StoreInit, RunInit DEF RunSound
<1> QED BY <1>1, RunNext, PTL DEF Spec

\* The row of the run, its attempt and its writes belong together: a write blocks a run only when an
\* operator has to decide, and what is being sent is the write that is due, its attempt persisted.
THEOREM MemoryTypes == Spec => []TypeOK
<1>1. RunSound => TypeOK
  BY DEF RunSound, StoreSound, Typed, Shapes, Row, InMemory, Agents, Statuses, Outcomes, Phases, Control, AtWork, TypeOK, At
<1> QED BY <1>1, RunStaysSound, PTL

-----------------------------------------------------------------------------
(* The history in the store.                                                *)

\* The key of a write, and its content.
Keyed(w) == [key |-> w, content |-> Op(w).messages]

\* Keys of the scope belong to writes that are settled, or to the one that is being sent.
KeysKnown ==
  \A k \in store.keys :
    k.key \in Ops /\ k.content = Op(k.key).messages /\ (k.key \in Completed \/ Due(k.key))

\* The writes of an epoch hold messages of its segment, in the order they were said in.
WritesInOrder ==
  /\ \A w \in Ops : Op(w).messages \in Seq(Said("run", w[1])) /\ Rising(Op(w).messages)
  /\ \A v, w \in Ops : v[1] = w[1] /\ v[2] < w[2] => Ahead(Op(v).messages, Op(w).messages)

\* The store commits the write that is due.
Committing(w) ==
  /\ Due(w) /\ In("sending") /\ store' = Answer(w).store
  /\ UNCHANGED <<read, writes, said, agent>> /\ run'.epoch = run.epoch /\ run'.outcome = run.outcome
  /\ Grown(store', store, Op(w).messages) /\ store'.keys = store.keys \cup {Keyed(w)}
  /\ ~Written(store, w) /\ (BaseVersion = Unchecked \/ BaseVersion = currentVersion(store))

\* What a step can do to the history, and to the keys.
RowsStep ==
  \/ store'.rows = store.rows /\ store'.keys = store.keys
  \/ store'.rows = <<>> /\ store'.keys = store.keys
  \/ \E w : Committing(w)
  \/ AgentSaved

\* Every step does one of these things to them.
LEMMA RowsChange == ASSUME StoreSound, StoreStep PROVE RowsStep
<1>1. Typed /\ StoreOK(store)
  BY DEF StoreSound, Typed
<1>2. CASE UNCHANGED store
  BY <1>2 DEF RowsStep
<1>3. ASSUME NEW w \in Ops, In("sending"), Due(w), store' = Answer(w).store, UNCHANGED <<read, writes, said, agent>>,
             run'.epoch = run.epoch, run'.outcome = run.outcome
      PROVE  RowsStep
  <2>1. CASE Answer(w).status = "committed"
    <3>1. /\ Grown(store', store, Op(w).messages) /\ store'.keys = store.keys \cup {Keyed(w)}
          /\ ~Written(store, w) /\ (BaseVersion = Unchecked \/ BaseVersion = currentVersion(store))
      BY <1>1, <1>3, <2>1, AnswerKnown DEF Keyed
    <3>2. Committing(w)
      BY <1>3, <3>1, Zenon DEF Committing
    <3> QED BY <3>2 DEF RowsStep
  <2>2. CASE Answer(w).status # "committed"
    <3>1. store' = store
      BY <1>1, <1>3, <2>2, AnswerKnown
    <3> QED BY <3>1 DEF RowsStep
  <2> QED BY <2>1, <2>2
<1>4. CASE store' = clear(store)
  <2>1. store'.rows = <<>> /\ store'.keys = store.keys
    BY <1>1, <1>4, Cleared
  <2> QED BY <2>1 DEF RowsStep
<1>5. CASE store' = upsertSession(store)
  <2>1. store'.rows = store.rows /\ store'.keys = store.keys
    BY <1>1, <1>5, Upserted
  <2> QED BY <2>1 DEF RowsStep
<1>6. CASE CompactedNow
  BY <1>6 DEF CompactedNow, RowsStep
<1>7. CASE AgentSaved
  BY <1>7 DEF RowsStep
<1> QED BY <1>2, <1>3, <1>4, <1>5, <1>6, <1>7, Zenon DEF StoreStep

\* What is known of the keys there are.
LEMMA OldKeysKnown ==
  ASSUME RunSound, KeysKnown, WritesStep, NEW k \in store.keys
  PROVE  k.key \in Ops' /\ k.content = Op(k.key)'.messages /\ (k.key \in Completed' \/ Due(k.key)')
<1> DEFINE x == k.key
<1>1. Typed /\ InTurn /\ AtWork
  BY DEF RunSound, StoreSound
<1>2. x \in Ops /\ k.content = Op(x).messages /\ (x \in Completed \/ Due(x))
  BY DEF KeysKnown
<1> SUFFICES \A y : y = x => y \in Ops' /\ k.content = Op(y)'.messages /\ (y \in Completed' \/ Due(y)')
  OBVIOUS
<1> SUFFICES ASSUME NEW y, y = x PROVE y \in Ops' /\ k.content = Op(y)'.messages /\ (y \in Completed' \/ Due(y)')
  OBVIOUS
<1>3. y \in Ops /\ k.content = Op(y).messages /\ (y \in Completed \/ Due(y))
  BY <1>2
<1> HIDE DEF x
<1>4. CASE Steady
  BY <1>1, <1>3, <1>4, RetainedKeeps DEF Steady
<1>5. ASSUME NEW w, NEW how, NEW version, Settling(w, how, version)
      PROVE  y \in Ops' /\ k.content = Op(y)'.messages /\ (y \in Completed' \/ Due(y)')
  <2>1. /\ Ops' = Ops /\ Completed' = Completed \cup {w}
        /\ \A v \in Ops : Op(v)'.messages = Op(v).messages
    BY <1>1, <1>5, SettledKeeps DEF Settling
  <2>2. Due(y) => y = w
    BY <1>1, <1>5, DueOne DEF Settling
  <2> QED BY <1>3, <2>1, <2>2
<1>6. ASSUME NEW segment, NEW outcome, Recording(segment, outcome)
      PROVE  y \in Ops' /\ k.content = Op(y)'.messages /\ (y \in Completed' \/ Due(y)')
  <2>1. /\ Ops' = Ops \cup {<<run.epoch, i>> : i \in DOMAIN segment.captured}
        /\ Unsettled = {} /\ Completed' = Completed
        /\ \A v \in Ops : Op(v)' = Op(v)
    BY <1>1, <1>6, RecordedKeeps DEF Recording, Concludes
  <2> QED BY <1>3, <2>1 DEF Due
<1>7. CASE Responding
  <2>1. Ops' = Ops /\ Unsettled = {} /\ Completed' = Completed /\ \A v \in Ops : Op(v)'.messages = Op(v).messages
    BY <1>1, <1>7, InTurnResponded DEF Responding, Retained
  <2> QED BY <1>3, <2>1 DEF Due
<1> QED BY <1>4, <1>5, <1>6, <1>7 DEF WritesStep

\* What the writes of a step say.
LEMMA WritesInOrderNext == ASSUME RunSound, WritesInOrder, WritesStep PROVE WritesInOrder'
<1>1. Typed /\ InTurn /\ AtWork
  BY DEF RunSound, StoreSound
<1>2. ASSUME Ops' = Ops, \A v \in Ops : Op(v)'.messages = Op(v).messages PROVE WritesInOrder'
  BY <1>2 DEF WritesInOrder
<1>3. CASE Steady
  BY <1>1, <1>2, <1>3, RetainedKeeps DEF Steady
<1>4. ASSUME NEW w, NEW how, NEW version, Settling(w, how, version) PROVE WritesInOrder'
  BY <1>1, <1>2, <1>4, SettledKeeps DEF Settling
<1>5. CASE Responding
  BY <1>1, <1>2, <1>5 DEF Responding, Retained
<1>6. ASSUME NEW segment, NEW outcome, Recording(segment, outcome) PROVE WritesInOrder'
  <2> DEFINE c == segment.captured
  <2>0. PICK n : n = run.epoch
    OBVIOUS
  <2>1. /\ c \in Seq(Seq(Said("run", n))) /\ c \in Seq(Seq(Message))
        /\ \A j \in DOMAIN c : Rising(c[j])
        /\ \A i, j \in DOMAIN c : i < j => Ahead(c[i], c[j])
    BY <1>6, <2>0 DEF Recording, Concludes, Chunks
  <2>2. n \in Nat /\ Ops \subseteq Nat \X Nat
    BY <1>1, <2>0, EitherWay, EpochsKnown DEF Typed, Shapes, Row
  <2>3. /\ Ops' = Ops \cup {<<n, i>> : i \in DOMAIN c}
        /\ \A v \in Ops : v[1] < n /\ Op(v)' = Op(v)
        /\ \A i \in DOMAIN c : Op(<<n, i>>)'.messages = c[i]
    BY <1>1, <1>6, <2>0, RecordedKeeps DEF Recording, Concludes
  <2> HIDE DEF c
  <2>4. \A w \in Ops' : w \in Ops \/ (w[1] = n /\ w[2] \in DOMAIN c /\ Op(w)'.messages = c[w[2]])
    BY <2>3
  <2>5. \A w \in Ops' : Op(w)'.messages \in Seq(Said("run", w[1])) /\ Rising(Op(w)'.messages)
    <3>1. ASSUME NEW w \in Ops' PROVE Op(w)'.messages \in Seq(Said("run", w[1])) /\ Rising(Op(w)'.messages)
      <4>1. CASE w \in Ops
        BY <2>3, <4>1 DEF WritesInOrder
      <4>2. CASE w[1] = n /\ w[2] \in DOMAIN c /\ Op(w)'.messages = c[w[2]]
        BY <2>1, <4>2
      <4> QED BY <2>4, <4>1, <4>2
    <3> QED BY <3>1
  <2>6. ASSUME NEW v \in Ops', NEW w \in Ops', v[1] = w[1], v[2] < w[2]
        PROVE  Ahead(Op(v)'.messages, Op(w)'.messages)
    <3>1. CASE v \in Ops
      <4>1. w \in Ops
        BY <2>2, <2>3, <2>4, <2>6, <3>1
      <4> QED BY <2>3, <2>6, <3>1, <4>1 DEF WritesInOrder
    <3>2. CASE v \notin Ops
      <4>1. w \notin Ops
        BY <2>2, <2>3, <2>4, <2>6, <3>2
      <4> QED BY <2>1, <2>4, <2>6, <3>2, <4>1
    <3> QED BY <3>1, <3>2
  <2> QED BY <2>5, <2>6 DEF WritesInOrder
<1> QED BY <1>3, <1>4, <1>5, <1>6 DEF WritesStep

\* Keys stay known.
LEMMA KeysKnownNext == ASSUME RunSound, KeysKnown, RowsStep, WritesStep PROVE KeysKnown'
<1>1. Typed /\ InTurn
  BY DEF RunSound, StoreSound
<1>2. CASE store'.keys = store.keys
  BY <1>2, OldKeysKnown DEF KeysKnown
<1>3. ASSUME NEW w, Committing(w) PROVE KeysKnown'
  <2>1. Retained
    BY <1>1, <1>3, WriteChanges DEF Committing
  <2>2. Due(w)' /\ w \in Ops' /\ Keyed(w)' = Keyed(w)
    BY <1>1, <1>3, <2>1, RetainedKeeps DEF Committing, Due, Unsettled, Keyed
  <2>3. store'.keys = store.keys \cup {Keyed(w)}
    BY <1>3 DEF Committing
  <2>4. Keyed(w).key = w /\ Keyed(w).content = Op(w)'.messages
    BY <2>2 DEF Keyed
  <2>5. \A k \in store.keys : k.key \in Ops' /\ k.content = Op(k.key)'.messages /\ (k.key \in Completed' \/ Due(k.key)')
    BY OldKeysKnown
  <2> QED BY <2>2, <2>3, <2>4, <2>5 DEF KeysKnown
<1>4. AgentSaved => store'.keys = store.keys
  BY DEF AgentSaved
<1> QED BY <1>2, <1>3, <1>4 DEF RowsStep

\* A row of a run is in the content of a key.
RowsKnown ==
  \A i \in DOMAIN store.rows : store.rows[i][1] = "run" =>
    \E k \in store.keys : \E j \in DOMAIN k.content : k.content[j] = store.rows[i]

\* The agent has saved nothing before its answer, and saves it in order.
AgentRows == {i \in DOMAIN store.rows : store.rows[i][1] = "agent"}
AgentInOrder ==
  /\ \A i \in AgentRows : store.rows[i][2] = 1 /\ agent.phase \in {"saving", "done"}
  /\ At("saving") =>
       /\ agent.todo \in Seq(Seq(Said("agent", 1)))
       /\ \A j \in DOMAIN agent.todo : Rising(agent.todo[j])
       /\ \A i, j \in DOMAIN agent.todo : i < j => Ahead(agent.todo[i], agent.todo[j])
       /\ \A i \in AgentRows, j \in DOMAIN agent.todo : Ahead(<<store.rows[i]>>, agent.todo[j])

HistorySound == RunSound /\ KeysKnown /\ WritesInOrder /\ RowsKnown /\ AgentInOrder /\ InOrderOnce

\* A message that was said before another one of the same author.
Earlier(m, n) == m[2] < n[2] \/ (m[2] = n[2] /\ m[3] < n[3])

\* Where the rows of a longer history come from.
LEMMA LongerHistory ==
  ASSUME NEW S, StoreOK(S), NEW m \in Seq(Message), NEW T, Grown(T, S, m)
  PROVE  /\ Len(S.rows) \in Nat /\ Len(m) \in Nat
         /\ DOMAIN T.rows = 1..Len(S.rows) + Len(m) /\ DOMAIN S.rows = 1..Len(S.rows) /\ DOMAIN m = 1..Len(m)
         /\ \A i \in DOMAIN T.rows :
              \/ i \in DOMAIN S.rows /\ T.rows[i] = S.rows[i]
              \/ i \notin DOMAIN S.rows /\ i - Len(S.rows) \in DOMAIN m /\ T.rows[i] = m[i - Len(S.rows)]
<1>1. Joins(T.rows, S.rows, m) /\ T.rows \in Seq(Message) /\ S.rows \in Seq(Message)
  BY GrownRows DEF StoreOK
<1>2. /\ Len(S.rows) \in Nat /\ Len(m) \in Nat
      /\ DOMAIN T.rows = 1..Len(S.rows) + Len(m) /\ DOMAIN S.rows = 1..Len(S.rows) /\ DOMAIN m = 1..Len(m)
  BY <1>1 DEF Joins
<1>3. ASSUME NEW i \in DOMAIN T.rows
      PROVE  \/ i \in DOMAIN S.rows /\ T.rows[i] = S.rows[i]
             \/ i \notin DOMAIN S.rows /\ i - Len(S.rows) \in DOMAIN m /\ T.rows[i] = m[i - Len(S.rows)]
  <2>1. CASE i <= Len(S.rows)
    BY <1>1, <1>2, <2>1 DEF Joins
  <2>2. CASE i > Len(S.rows)
    <3>1. i - Len(S.rows) \in 1..Len(m) /\ Len(S.rows) + (i - Len(S.rows)) = i /\ i \notin DOMAIN S.rows
      BY <1>2, <2>2
    <3>2. T.rows[Len(S.rows) + (i - Len(S.rows))] = m[i - Len(S.rows)]
      BY <1>1, <3>1 DEF Joins
    <3> QED BY <1>2, <3>1, <3>2
  <2> QED BY <1>2, <2>1, <2>2
<1> QED BY <1>2, <1>3

\* Order in a longer history: what is new is in order, and after what there was of its author.
LEMMA OrderGrown ==
  ASSUME NEW S, StoreOK(S), NEW m \in Seq(Message), NEW T, Grown(T, S, m),
         \A i, j \in DOMAIN S.rows : i < j /\ S.rows[i][1] = S.rows[j][1] => Earlier(S.rows[i], S.rows[j]),
         \A i, j \in DOMAIN m : i < j => Earlier(m[i], m[j]),
         \A i \in DOMAIN S.rows, j \in DOMAIN m : S.rows[i][1] = m[j][1] => Earlier(S.rows[i], m[j])
  PROVE  \A i, j \in DOMAIN T.rows : i < j /\ T.rows[i][1] = T.rows[j][1] => Earlier(T.rows[i], T.rows[j])
<1>1. /\ Len(S.rows) \in Nat /\ Len(m) \in Nat
      /\ DOMAIN T.rows = 1..Len(S.rows) + Len(m) /\ DOMAIN S.rows = 1..Len(S.rows) /\ DOMAIN m = 1..Len(m)
      /\ \A i \in DOMAIN T.rows :
           \/ i \in DOMAIN S.rows /\ T.rows[i] = S.rows[i]
           \/ i \notin DOMAIN S.rows /\ i - Len(S.rows) \in DOMAIN m /\ T.rows[i] = m[i - Len(S.rows)]
  BY LongerHistory
<1> SUFFICES ASSUME NEW i \in DOMAIN T.rows, NEW j \in DOMAIN T.rows, i < j, T.rows[i][1] = T.rows[j][1]
             PROVE  Earlier(T.rows[i], T.rows[j])
  OBVIOUS
<1>2. i \in Nat /\ j \in Nat
  BY <1>1
<1>3. CASE j \in DOMAIN S.rows
  <2>1. i \in DOMAIN S.rows
    BY <1>1, <1>2, <1>3
  <2> QED BY <1>1, <1>3, <2>1
<1>4. CASE j \notin DOMAIN S.rows /\ i \in DOMAIN S.rows
  BY <1>1, <1>4
<1>5. CASE j \notin DOMAIN S.rows /\ i \notin DOMAIN S.rows
  <2>1. i - Len(S.rows) < j - Len(S.rows)
    BY <1>1, <1>2
  <2> QED BY <1>1, <1>5, <2>1
<1> QED BY <1>3, <1>4, <1>5

\* Messages of a segment, by their numbers.
LEMMA SaidEarlier ==
  ASSUME NEW a, NEW e \in Nat, NEW s \in Seq(Said(a, e))
  PROVE  /\ \A i \in DOMAIN s : s[i][1] = a /\ s[i][2] = e
         /\ Rising(s) => \A i, j \in DOMAIN s : i < j => Earlier(s[i], s[j])
<1>1. \A i \in DOMAIN s : s[i] \in Said(a, e)
  OBVIOUS
<1>2. \A i \in DOMAIN s : s[i][1] = a /\ s[i][2] = e
  BY <1>1 DEF Said
<1> QED BY <1>2 DEF Rising, Earlier

\* The history stays in order when the write that is due is committed.
LEMMA CommittedInOrder ==
  ASSUME HistorySound, NEW w, Committing(w)
  PROVE  InOrderOnce' /\ RowsKnown' /\ AgentRows' = AgentRows /\ \A i \in AgentRows : store'.rows[i] = store.rows[i]
<1> DEFINE m == Op(w).messages
<1>1. Typed /\ InTurn /\ StoreOK(store) /\ Due(w) /\ Grown(store', store, m) /\ w \in Ops
  BY DueKnown DEF HistorySound, RunSound, StoreSound, Typed, Committing
<1>2. w \in Nat \X Nat /\ w[1] \in Nat /\ m \in Seq(Message) /\ m \in Seq(Said("run", w[1])) /\ Rising(m)
  BY <1>1, OpsNow DEF HistorySound, WritesInOrder, Typed, Write
<1>3. store.rows \in Seq(Message) /\ store'.keys = store.keys \cup {Keyed(w)}
      /\ Keyed(w).key = w /\ Keyed(w).content = m
  BY <1>1 DEF StoreOK, History, Committing, Keyed
<1> HIDE DEF m
<1>4. /\ \A i \in DOMAIN m : m[i][1] = "run" /\ m[i][2] = w[1]
      /\ \A i, j \in DOMAIN m : i < j => Earlier(m[i], m[j])
  BY <1>2, SaidEarlier
<1>5. ASSUME NEW i \in DOMAIN store.rows, NEW j \in DOMAIN m, store.rows[i][1] = m[j][1]
      PROVE  Earlier(store.rows[i], m[j])
  <2>1. PICK k \in store.keys : \E l \in DOMAIN k.content : k.content[l] = store.rows[i]
    BY <1>4, <1>5 DEF HistorySound, RowsKnown
  <2>2. PICK l \in DOMAIN k.content : k.content[l] = store.rows[i]
    BY <2>1
  <2>3. k.key \in Ops /\ k.content = Op(k.key).messages /\ (k.key \in Completed \/ Due(k.key))
    BY DEF HistorySound, KeysKnown
  <2> DEFINE v == k.key
             c == k.content
  <2>4. v # w
    BY <1>1 DEF Committing, Written
  <2>5. v \in Completed
    BY <1>1, <2>3, <2>4, DueOne
  <2>6. Before(v, w) /\ v \in Nat \X Nat /\ v[1] \in Nat /\ v[2] \in Nat /\ w[2] \in Nat
    <3>1. w \in Unsettled
      BY <1>1, DueKnown
    <3>2. Before(v, w)
      BY <1>1, <2>5, <3>1 DEF InTurn
    <3>3. v \in Nat \X Nat
      BY <1>1, <2>3, EitherWay
    <3> QED BY <1>2, <3>2, <3>3
  <2>7. c \in Seq(Said("run", v[1])) /\ l \in DOMAIN c /\ c[l] = store.rows[i] /\ v \in Ops /\ c = Op(v).messages
    BY <2>2, <2>3 DEF HistorySound, WritesInOrder
  <2> HIDE DEF v, c
  <2>8. c[l][2] = v[1]
    BY <2>6, <2>7, SaidEarlier
  <2>9. CASE v[1] < w[1]
    BY <1>4, <2>7, <2>8, <2>9 DEF Earlier
  <2>10. CASE v[1] = w[1] /\ v[2] <= w[2]
    <3>1. v[2] < w[2]
      BY <1>2, <2>4, <2>6, <2>10 DEF v
    <3>2. Ahead(c, m)
      BY <1>1, <2>7, <2>10, <3>1 DEF HistorySound, WritesInOrder, m
    <3>3. c[l][3] < m[j][3]
      BY <2>7, <3>2 DEF Ahead
    <3> QED BY <1>4, <2>7, <2>8, <2>10, <3>3 DEF Earlier
  <2> QED BY <2>6, <2>9, <2>10 DEF Before
<1>6. \A i, j \in DOMAIN store.rows : i < j /\ store.rows[i][1] = store.rows[j][1] =>
        Earlier(store.rows[i], store.rows[j])
  BY DEF HistorySound, InOrderOnce, Earlier
<1>7. InOrderOnce'
  <2>1. \A i, j \in DOMAIN store'.rows : i < j /\ store'.rows[i][1] = store'.rows[j][1] =>
          Earlier(store'.rows[i], store'.rows[j])
    BY <1>1, <1>2, <1>4, <1>5, <1>6, OrderGrown
  <2> QED BY <2>1 DEF InOrderOnce, Earlier
<1>8. /\ Len(store.rows) \in Nat /\ Len(m) \in Nat
      /\ DOMAIN store'.rows = 1..Len(store.rows) + Len(m) /\ DOMAIN store.rows = 1..Len(store.rows)
      /\ \A i \in DOMAIN store'.rows :
           \/ i \in DOMAIN store.rows /\ store'.rows[i] = store.rows[i]
           \/ i \notin DOMAIN store.rows /\ i - Len(store.rows) \in DOMAIN m
              /\ store'.rows[i] = m[i - Len(store.rows)]
  BY <1>1, <1>2, LongerHistory
<1>9. RowsKnown'
  <2> SUFFICES ASSUME NEW i \in DOMAIN store'.rows, store'.rows[i][1] = "run"
               PROVE  \E k \in store'.keys : \E j \in DOMAIN k.content : k.content[j] = store'.rows[i]
    BY DEF RowsKnown
  <2>1. CASE i \in DOMAIN store.rows /\ store'.rows[i] = store.rows[i]
    BY <1>3, <2>1 DEF HistorySound, RowsKnown
  <2>2. CASE i - Len(store.rows) \in DOMAIN m /\ store'.rows[i] = m[i - Len(store.rows)]
    BY <1>3, <2>2
  <2> QED BY <1>8, <2>1, <2>2
<1>10. AgentRows' = AgentRows /\ \A i \in AgentRows : store'.rows[i] = store.rows[i]
  <2>1. \A i \in DOMAIN store.rows : i \in DOMAIN store'.rows /\ store'.rows[i] = store.rows[i]
    BY <1>8
  <2>2. \A i \in DOMAIN store'.rows : i \notin DOMAIN store.rows => store'.rows[i][1] # "agent"
    BY <1>4, <1>8
  <2>3. AgentRows' = {i \in DOMAIN store'.rows : store'.rows[i][1] = "agent"}
    BY DEF AgentRows
  <2> QED BY <2>1, <2>2, <2>3 DEF AgentRows
<1> QED BY <1>7, <1>9, <1>10

\* And when the agent saves a call of append().
LEMMA AgentSavedInOrder ==
  ASSUME HistorySound, AgentSaved
  PROVE  InOrderOnce' /\ RowsKnown' /\ AgentInOrder'
<1> DEFINE m == Head(agent.todo)
           q == Tail(agent.todo)
<1>1. StoreOK(store) /\ store \in History /\ agent \in Agents /\ store.rows \in Seq(Message)
  BY DEF HistorySound, RunSound, StoreSound, Typed, Shapes, StoreOK, History
<1>2. /\ m \in Seq(Message) /\ Grown(store', store, m) /\ store'.keys = store.keys
      /\ At("saving") /\ agent.todo # <<>>
      /\ agent' = [agent EXCEPT !.todo = Tail(@), !.phase = IF Len(agent.todo) > 1 THEN @ ELSE "done"]
  BY DEF AgentSaved, AgentSaves
<1>3. /\ agent.todo \in Seq(Seq(Said("agent", 1)))
      /\ \A j \in DOMAIN agent.todo : Rising(agent.todo[j])
      /\ \A i, j \in DOMAIN agent.todo : i < j => Ahead(agent.todo[i], agent.todo[j])
      /\ \A i \in AgentRows, j \in DOMAIN agent.todo : Ahead(<<store.rows[i]>>, agent.todo[j])
      /\ \A i \in AgentRows : store.rows[i][2] = 1
  BY <1>2 DEF HistorySound, AgentInOrder
<1>4. /\ 1 \in DOMAIN agent.todo /\ m = agent.todo[1] /\ Len(agent.todo) \in Nat \ {0}
      /\ q \in Seq(Seq(Said("agent", 1))) /\ Len(q) = Len(agent.todo) - 1
      /\ \A i \in DOMAIN q : i \in Nat /\ i + 1 \in DOMAIN agent.todo /\ q[i] = agent.todo[i + 1] /\ 1 < i + 1
  <2> DEFINE s == agent.todo
  <2>1. s \in Seq(Seq(Said("agent", 1))) /\ s # <<>>
    BY <1>2, <1>3
  <2> HIDE DEF s
  <2>2. /\ 1 \in DOMAIN s /\ Head(s) = s[1] /\ Len(s) \in Nat \ {0}
        /\ Tail(s) \in Seq(Seq(Said("agent", 1))) /\ Len(Tail(s)) = Len(s) - 1
        /\ \A i \in DOMAIN Tail(s) : i \in Nat /\ i + 1 \in DOMAIN s /\ Tail(s)[i] = s[i + 1] /\ 1 < i + 1
    BY <2>1
  <2> QED BY <2>2 DEF s
<1>5. agent'.phase = (IF Len(agent.todo) > 1 THEN "saving" ELSE "done") /\ agent'.todo = q
  BY <1>1, <1>2 DEF Agents, At
<1> HIDE DEF m, q
<1>6. m \in Seq(Said("agent", 1)) /\ Rising(m)
  BY <1>3, <1>4
<1>7. /\ \A i \in DOMAIN m : m[i][1] = "agent" /\ m[i][2] = 1
      /\ \A i, j \in DOMAIN m : i < j => Earlier(m[i], m[j])
  BY <1>6, SaidEarlier, 1 \in Nat
<1>8. ASSUME NEW i \in DOMAIN store.rows, NEW j \in DOMAIN m, store.rows[i][1] = m[j][1]
      PROVE  Earlier(store.rows[i], m[j])
  <2>1. i \in AgentRows
    BY <1>7, <1>8 DEF AgentRows
  <2>2. Ahead(<<store.rows[i]>>, m)
    BY <1>3, <1>4, <2>1
  <2>3. store.rows[i][3] < m[j][3]
    BY <2>2 DEF Ahead
  <2> QED BY <1>3, <1>7, <2>1, <2>3 DEF Earlier
<1>9. InOrderOnce'
  <2>1. \A i, j \in DOMAIN store.rows : i < j /\ store.rows[i][1] = store.rows[j][1] =>
          Earlier(store.rows[i], store.rows[j])
    BY DEF HistorySound, InOrderOnce, Earlier
  <2>2. \A i, j \in DOMAIN store'.rows : i < j /\ store'.rows[i][1] = store'.rows[j][1] =>
          Earlier(store'.rows[i], store'.rows[j])
    BY <1>1, <1>2, <1>7, <1>8, <2>1, OrderGrown
  <2> QED BY <2>2 DEF InOrderOnce, Earlier
<1>10. /\ DOMAIN store.rows = 1..Len(store.rows)
       /\ \A i \in DOMAIN store'.rows :
            \/ i \in DOMAIN store.rows /\ store'.rows[i] = store.rows[i]
            \/ i \notin DOMAIN store.rows /\ i - Len(store.rows) \in DOMAIN m
               /\ store'.rows[i] = m[i - Len(store.rows)]
  BY <1>1, <1>2, LongerHistory
<1>11. RowsKnown'
  <2> SUFFICES ASSUME NEW i \in DOMAIN store'.rows, store'.rows[i][1] = "run"
               PROVE  \E k \in store'.keys : \E j \in DOMAIN k.content : k.content[j] = store'.rows[i]
    BY DEF RowsKnown
  <2>1. CASE i \in DOMAIN store.rows /\ store'.rows[i] = store.rows[i]
    BY <1>2, <2>1 DEF HistorySound, RowsKnown
  <2>2. CASE i - Len(store.rows) \in DOMAIN m /\ store'.rows[i] = m[i - Len(store.rows)]
    BY <1>7, <2>2
  <2> QED BY <1>10, <2>1, <2>2
<1>12. AgentInOrder'
  <2>1. ASSUME NEW i \in AgentRows'
        PROVE  /\ \/ i \in AgentRows /\ store'.rows[i] = store.rows[i]
                  \/ i - Len(store.rows) \in DOMAIN m /\ store'.rows[i] = m[i - Len(store.rows)]
               /\ store'.rows[i][2] = 1
    <3>1. i \in DOMAIN store'.rows /\ store'.rows[i][1] = "agent"
      BY DEF AgentRows
    <3>2. \/ i \in AgentRows /\ store'.rows[i] = store.rows[i]
          \/ i - Len(store.rows) \in DOMAIN m /\ store'.rows[i] = m[i - Len(store.rows)]
      BY <1>10, <3>1 DEF AgentRows
    <3> QED BY <1>3, <1>7, <3>2
  <2>2. \A j \in DOMAIN q : Rising(q[j])
    BY <1>3, <1>4
  <2>3. \A i, j \in DOMAIN q : i < j => Ahead(q[i], q[j])
    <3>1. ASSUME NEW i \in DOMAIN q, NEW j \in DOMAIN q, i < j PROVE Ahead(q[i], q[j])
      <4>1. i + 1 < j + 1 /\ i + 1 \in DOMAIN agent.todo /\ j + 1 \in DOMAIN agent.todo
        BY <1>4, <3>1
      <4> QED BY <1>3, <1>4, <4>1
    <3> QED BY <3>1
  <2>4. ASSUME NEW i \in AgentRows', NEW j \in DOMAIN q PROVE Ahead(<<store'.rows[i]>>, q[j])
    <3>1. CASE i \in AgentRows /\ store'.rows[i] = store.rows[i]
      <4>1. Ahead(<<store.rows[i]>>, agent.todo[j + 1])
        BY <1>3, <1>4, <3>1
      <4> QED BY <1>4, <3>1, <4>1
    <3>2. CASE i - Len(store.rows) \in DOMAIN m /\ store'.rows[i] = m[i - Len(store.rows)]
      <4>1. Ahead(m, q[j])
        BY <1>3, <1>4
      <4>2. \A l \in DOMAIN q[j] : store'.rows[i][3] < q[j][l][3]
        BY <3>2, <4>1 DEF Ahead
      <4> QED BY <4>2 DEF Ahead
    <3> QED BY <2>1, <3>1, <3>2
  <2> QED BY <1>4, <1>5, <2>1, <2>2, <2>3, <2>4 DEF AgentInOrder, At
<1> QED BY <1>9, <1>11, <1>12

\* What the agent does besides.
LEMMA AgentChange ==
  ASSUME Typed, [Next]_vars
  PROVE  \/ UNCHANGED agent
         \/ AgentSaves
         \/ \E turns \in AgentScripts : AgentAnswers(turns)
         \/ agent'.phase # "saving" /\ (At("preparing") \/ At("compacting") \/ agent'.phase = "done")
<1>1. agent \in Agents
  BY DEF Typed, Shapes
<1>2. ASSUME NEW count, Snapshot(count) PROVE At("preparing") /\ agent'.phase # "saving"
  BY <1>1, <1>2 DEF Snapshot, Agents
<1>3. ASSUME ReplacePrefix PROVE At("compacting") /\ agent'.phase # "saving"
  BY <1>1, <1>3 DEF ReplacePrefix, Agents
<1>4. ASSUME AgentFails PROVE agent'.phase = "done"
  BY <1>1, <1>4 DEF AgentFails, Agents
<1>5. UNCHANGED agent \/ Agent
  BY DEF Next, vars, Launch, Attempt, Load, RecordRead, Answers, Checkpoint, FinishFlush, Abort, Leave,
         Uncertain, SendWrite, RecordWrite, Conflict, Calls, retry, respond, cancel, resolveMemoryWrite, close, Closed,
         open, HostClears, StoreAppends, Fail, Crash, Others
<1> QED BY <1>2, <1>3, <1>4, <1>5 DEF Agent

\* Its rows stay in order while nobody adds to them.
LEMMA AgentKept ==
  ASSUME HistorySound, [Next]_vars, ~AgentSaves,
         AgentRows' \subseteq AgentRows, \A i \in AgentRows' : store'.rows[i] = store.rows[i]
  PROVE  AgentInOrder'
<1>1. Typed /\ AgentInOrder /\ agent \in Agents
  BY DEF HistorySound, RunSound, StoreSound, Typed, Shapes
<1>2. CASE UNCHANGED agent
  BY <1>1, <1>2 DEF AgentInOrder, At
<1>3. ASSUME NEW turns \in AgentScripts, AgentAnswers(turns) PROVE AgentInOrder'
  <2> DEFINE c == AgentSegment[turns].captured
  <2>1. At("working") /\ agent' = [agent EXCEPT !.phase = "saving", !.todo = c]
    BY <1>3 DEF AgentAnswers
  <2>2. AgentRows' = {}
    BY <1>1, <2>1 DEF AgentInOrder, At
  <2>3. /\ c \in Seq(Seq(Said("agent", 1)))
        /\ \A j \in DOMAIN c : Rising(c[j])
        /\ \A i, j \in DOMAIN c : i < j => Ahead(c[i], c[j])
    BY AgentSegments DEF Ended, Chunks
  <2> HIDE DEF c
  <2>4. agent'.todo = c /\ agent'.phase = "saving"
    BY <1>1, <2>1 DEF Agents
  <2> QED BY <2>2, <2>3, <2>4 DEF AgentInOrder
<1>4. CASE agent'.phase # "saving" /\ (At("preparing") \/ At("compacting"))
  <2>1. AgentRows' = {}
    BY <1>1, <1>4 DEF AgentInOrder, At
  <2> QED BY <1>4, <2>1 DEF AgentInOrder, At
<1>5. CASE agent'.phase = "done"
  BY <1>1, <1>5 DEF AgentInOrder, At
<1> QED BY <1>1, <1>2, <1>3, <1>4, <1>5, AgentChange

\* Every step keeps the history sound,
LEMMA HistoryNext == HistorySound /\ [Next]_vars => HistorySound'
<1> SUFFICES ASSUME HistorySound, [Next]_vars PROVE HistorySound'
  OBVIOUS
<1>1. RunSound /\ StoreSound /\ RunSound'
  BY RunNext DEF HistorySound, RunSound
<1>2. WritesStep /\ StoreStep
  BY <1>1, WritesChange, StoreChanges
<1>3. RowsStep
  BY <1>1, <1>2, RowsChange
<1>4. KeysKnown' /\ WritesInOrder'
  BY <1>1, <1>2, <1>3, KeysKnownNext, WritesInOrderNext DEF HistorySound
<1>5. CASE AgentSaved
  BY <1>1, <1>4, <1>5, AgentSavedInOrder DEF HistorySound
<1>6. ASSUME NEW w, Committing(w) PROVE HistorySound'
  <2>1. InOrderOnce' /\ RowsKnown' /\ AgentRows' = AgentRows /\ \A i \in AgentRows : store'.rows[i] = store.rows[i]
    BY <1>6, CommittedInOrder
  <2>2. ~AgentSaves
    <3>1. AgentSaves => agent' # agent
      <4>1. AgentSaves => Len(agent'.todo) # Len(agent.todo)
        <5>1. agent \in Agents /\ agent.todo \in Seq(Seq(Message))
          BY <1>1 DEF StoreSound, Typed, Shapes, Agents
        <5>2. ASSUME AgentSaves PROVE agent'.todo = Tail(agent.todo) /\ agent.todo # <<>>
          BY <5>1, <5>2 DEF AgentSaves, Agents
        <5>3. \A s \in Seq(Seq(Message)) : s # <<>> => Len(Tail(s)) # Len(s)
          OBVIOUS
        <5> QED BY <5>1, <5>2, <5>3
      <4> QED BY <4>1
    <3> QED BY <1>6, <3>1 DEF Committing
  <2>3. AgentInOrder'
    BY <2>1, <2>2, AgentKept
  <2> QED BY <1>1, <1>4, <2>1, <2>3 DEF HistorySound
<1>7. CASE store'.keys = store.keys /\ (store'.rows = store.rows \/ store'.rows = <<>>)
  <2>1. AgentRows' \subseteq AgentRows /\ \A i \in AgentRows' : store'.rows[i] = store.rows[i]
    BY <1>7 DEF AgentRows
  <2>2. InOrderOnce' /\ RowsKnown'
    <3>1. CASE store'.rows = store.rows
      BY <1>7, <3>1 DEF HistorySound, InOrderOnce, RowsKnown
    <3>2. CASE store'.rows = <<>>
      BY <3>2 DEF InOrderOnce, RowsKnown
    <3> QED BY <1>7, <3>1, <3>2
  <2>3. CASE ~AgentSaves
    <3>1. AgentInOrder'
      BY <2>1, <2>3, AgentKept
    <3> QED BY <1>1, <1>4, <2>2, <3>1 DEF HistorySound
  <2>4. CASE AgentSaves
    <3>1. store \in History /\ agent.todo \in Seq(Seq(Message)) /\ agent.todo # <<>>
      BY <1>1, <2>4 DEF StoreSound, Typed, StoreOK, Shapes, Agents, AgentSaves
    <3> DEFINE m == Head(agent.todo)
    <3>2. m \in Seq(Message) /\ store' = insertMessages(store, m)
      <4>1. \A s \in Seq(Seq(Message)) : s # <<>> => Head(s) \in Seq(Message)
        OBVIOUS
      <4> QED BY <2>4, <3>1, <4>1 DEF AgentSaves
    <3> HIDE DEF m
    <3>3. Grown(store', store, m) /\ store'.keys = store.keys
      BY <3>1, <3>2, Inserted
    <3>4. AgentSaved
      BY <2>4, <3>2, <3>3 DEF AgentSaved, m
    <3> QED BY <1>5, <3>4
  <2> QED BY <2>3, <2>4
<1> QED BY <1>3, <1>5, <1>6, <1>7 DEF RowsStep

\* the empty one is,
LEMMA HistoryInit == Init => HistorySound
<1> SUFFICES ASSUME Init PROVE HistorySound
  OBVIOUS
<1>1. RunSound
  BY StoreInit, RunInit DEF RunSound
<1>2. store.rows = <<>> /\ store.keys = {} /\ Ops = {} /\ agent.phase = "preparing"
  BY DEF Init, EmptyStore, Ops
<1>3. DOMAIN store.rows = {} /\ AgentRows = {}
  BY <1>2 DEF AgentRows
<1> QED BY <1>1, <1>2, <1>3 DEF HistorySound, KeysKnown, WritesInOrder, RowsKnown, AgentInOrder, InOrderOnce, At

\* and so it is in every state: a row of the run comes from a recorded write the store holds the key of,
\* and the rows stand in the order in which they were said.
THEOREM HistoryStaysSound == Spec => []HistorySound
  BY HistoryInit, HistoryNext, PTL DEF Spec

\* The store holds the messages of each run in the order it said them, each at most once, whatever was
\* sent again, lost with its answer, settled by an operator, compacted or cleared.
THEOREM MessagesInOrderOnce == Spec => []InOrderOnce
<1>1. HistorySound => InOrderOnce
  BY DEF HistorySound
<1> QED BY <1>1, HistoryStaysSound, PTL

-----------------------------------------------------------------------------
(* The versions.                                                            *)

\* The store has told the run what became of every settled write: it committed them.
Honest == \A w \in Completed : Op(w).how = "committed"

\* A version the run holds is that of the history it has read, with its own messages at the end.
VersionsFit ==
  /\ read # <<>> /\ Honest => Fits(store, read[1].messages, BaseVersion)
  /\ In("loaded") => Fits(store, attempt.reply[1].messages, attempt.reply[1].version)
  /\ In("answered") /\ attempt.reply[1].status = "committed" /\ Honest =>
       Fits(store, read[1].messages, attempt.reply[1].version)

VersionsSound == HistorySound /\ VersionsFit

\* Whatever happens to the store, a version that fits goes on to.
LEMMA FitsKept ==
  ASSUME StoreSound, StoreStep, NEW known, NEW v, Fits(store, known, v)
  PROVE  Fits(store', known, v)
<1>1. Typed /\ StoreOK(store)
  BY DEF StoreSound, Typed
<1>2. ASSUME NEW w \in Ops, store' = Answer(w).store PROVE Fits(store', known, v)
  <2>1. CASE Answer(w).status = "committed"
    <3>1. Grown(store', store, Op(w).messages) /\ Op(w).messages \in Seq(Message)
      BY <1>1, <1>2, <2>1, AnswerKnown, OpsNow DEF Typed, Write
    <3> QED BY <1>1, <3>1, FitsGrown
  <2>2. CASE Answer(w).status # "committed"
    BY <1>1, <1>2, <2>2, AnswerKnown
  <2> QED BY <2>1, <2>2
<1>3. CASE store' = clear(store)
  BY <1>1, <1>3, FitsCleared
<1>4. CASE store' = upsertSession(store)
  BY <1>1, <1>4, FitsUpserted
<1>5. CASE CompactedNow
  BY <1>1, <1>5, FitsCompacted DEF CompactedNow
<1>6. CASE AgentSaved
  BY <1>1, <1>6, FitsGrown DEF AgentSaved
<1>7. CASE UNCHANGED store
  BY <1>7
<1> QED BY <1>2, <1>3, <1>4, <1>5, <1>6, <1>7, Zenon DEF StoreStep

\* What was settled stays settled, and how.
LEMMA HonestBefore == ASSUME RunSound, WritesStep, Honest' PROVE Honest
<1>1. Typed /\ InTurn /\ AtWork
  BY DEF RunSound, StoreSound
<1>2. Completed \subseteq Ops
  BY DEF Completed
<1>3. ASSUME Completed \subseteq Completed', \A v \in Completed : Op(v)'.how = Op(v).how PROVE Honest
  BY <1>3 DEF Honest
<1>4. CASE Steady
  BY <1>1, <1>2, <1>3, <1>4, RetainedKeeps DEF Steady
<1>5. ASSUME NEW w, NEW how, NEW version, Settling(w, how, version) PROVE Honest
  <2>1. Completed' = Completed \cup {w} /\ \A v \in Completed : Op(v)' = Op(v)
    BY <1>1, <1>5, SettledKeeps DEF Settling
  <2> QED BY <1>3, <2>1
<1>6. ASSUME NEW segment, NEW outcome, Recording(segment, outcome) PROVE Honest
  <2>1. Completed' = Completed /\ \A v \in Ops : Op(v)' = Op(v)
    BY <1>1, <1>6, RecordedKeeps DEF Recording, Concludes
  <2> QED BY <1>2, <1>3, <2>1
<1>7. CASE Responding
  <2>1. Completed' = Completed /\ \A v \in Ops : Op(v)'.how = Op(v).how
    BY <1>1, <1>7, InTurnResponded DEF Responding, Retained
  <2> QED BY <1>2, <1>3, <2>1
<1> QED BY <1>4, <1>5, <1>6, <1>7 DEF WritesStep

\* An answer of the store is kept until it is recorded.
LEMMA RepliesKept ==
  ASSUME Typed, [Next]_vars
  PROVE  /\ In("loaded")' => Load \/ (In("loaded") /\ attempt'.reply = attempt.reply)
         /\ In("answered")' =>
              (\E w \in Ops : StoreAppends(w)) \/ (In("answered") /\ attempt'.reply = attempt.reply)
         /\ read' = read \/ RecordRead
<1>1. attempt \in InMemory
  BY DEF Typed, Shapes
<1>2. ASSUME NEW p, NEW a, AttemptChanged(p, a), p \notin {"loaded", "answered"}
      PROVE  ~In("loaded")' /\ ~In("answered")'
  BY <1>2 DEF AttemptChanged, In
<1>3. ASSUME UNCHANGED attempt
      PROVE  /\ In("loaded")' => In("loaded") /\ attempt'.reply = attempt.reply
             /\ In("answered")' => In("answered") /\ attempt'.reply = attempt.reply
  BY <1>3 DEF In
<1>4. cancel \/ close => attempt'.phase = attempt.phase /\ attempt'.reply = attempt.reply
  BY <1>1, AttemptAborted DEF cancel, close
<1>5. Load => attempt'.phase = "loaded"
  BY <1>1 DEF Load, InMemory
<1>6. \A w : StoreAppends(w) => attempt'.phase = "answered"
  BY <1>1 DEF StoreAppends, InMemory
<1>7. FinishFlush \/ Abort \/ Fail \/ Leave \/ Crash \/ Launch \/ RecordRead \/ Answers
        \/ (\E w \in Ops : Uncertain(w) \/ SendWrite(w) \/ RecordWrite(w) \/ Conflict(w)) =>
        ~In("loaded")' /\ ~In("answered")'
  <2>1. FinishFlush \/ Abort \/ Fail => AttemptChanged("leaving", attempt.aborted)
    BY AttemptChanges
  <2>2. Leave \/ Crash => AttemptChanged("none", FALSE)
    BY AttemptChanges
  <2>3. Launch => \E p \in {"flushing", "reading", "working"} : AttemptChanged(p, attempt.aborted)
    BY AttemptChanges
  <2>4. RecordRead => AttemptChanged("working", attempt.aborted)
    BY AttemptChanges
  <2>5. Answers => AttemptChanged("flushing", attempt.aborted)
    BY AttemptChanges DEF Answers
  <2>6. ASSUME NEW w \in Ops
        PROVE  /\ Uncertain(w) => AttemptChanged("leaving", attempt.aborted)
               /\ SendWrite(w) => AttemptChanged("sending", attempt.aborted)
               /\ RecordWrite(w) => AttemptChanged("flushing", attempt.aborted)
               /\ Conflict(w) => AttemptChanged("leaving", attempt.aborted)
    BY AttemptChanges
  <2>7. FinishFlush \/ Abort \/ Fail => ~In("loaded")' /\ ~In("answered")'
    BY <1>2, <2>1
  <2>8. Leave \/ Crash => ~In("loaded")' /\ ~In("answered")'
    BY <1>2, <2>2
  <2>9. Launch => ~In("loaded")' /\ ~In("answered")'
    BY <1>2, <2>3
  <2>10. RecordRead \/ Answers => ~In("loaded")' /\ ~In("answered")'
    BY <1>2, <2>4, <2>5
  <2>11. ASSUME NEW w \in Ops, Uncertain(w) \/ SendWrite(w) \/ RecordWrite(w) \/ Conflict(w)
        PROVE  ~In("loaded")' /\ ~In("answered")'
    BY <1>2, <2>6, <2>11
  <2> QED BY <2>7, <2>8, <2>9, <2>10, <2>11
<1>8. UNCHANGED attempt \/ cancel \/ close \/ Load \/ (\E w \in Ops : StoreAppends(w))
        \/ FinishFlush \/ Abort \/ Fail \/ Leave \/ Crash \/ Launch \/ RecordRead \/ Answers
        \/ (\E w \in Ops : Uncertain(w) \/ SendWrite(w) \/ RecordWrite(w) \/ Conflict(w))
  BY DEF Next, vars, Attempt, Calls, retry, respond, resolveMemoryWrite, Closed, open, Agent, Snapshot, ReplacePrefix,
         AgentAnswers, AgentSaves, AgentFails, HostClears, Others
<1>9. read' = read \/ RecordRead
  BY DEF Next, vars, Launch, Attempt, Load, Answers, Checkpoint, FinishFlush, Abort, Leave, Uncertain, SendWrite, StoreAppends,
         RecordWrite, Conflict, Fail, Calls, retry, respond, cancel, resolveMemoryWrite, close, Closed, Crash, open, Agent,
         Snapshot, ReplacePrefix, AgentAnswers, AgentSaves, AgentFails, HostClears, Others, durable
<1> QED BY <1>3, <1>4, <1>5, <1>6, <1>7, <1>8, <1>9 DEF In

\* A write that is committed on a version of one's own goes on top of a history nobody has changed.
LEMMA CommittedUnchanged ==
  ASSUME VersionsSound, NEW w, Committing(w), Honest
  PROVE  /\ read # <<>> /\ read[1].messages \in Seq(Message)
         /\ Same(store.rows, read[1].messages)
<1>1. Typed /\ Control /\ In("sending") /\ Shapes
  BY DEF VersionsSound, HistorySound, RunSound, StoreSound, Typed, Committing
<1>2. read # <<>>
  <2>1. run.outcome # "none"
    BY <1>1 DEF Control, Flushes, In
  <2> QED BY <1>1, <2>1 DEF Control
<1>3. read[1].messages \in Seq(Message)
  BY <1>1, <1>2 DEF Shapes, Reads
<1>4. Fits(store, read[1].messages, BaseVersion)
  BY <1>2 DEF VersionsSound, VersionsFit
<1>5. BaseVersion # Unchecked
  <2>1. BaseVersion \in Version
    BY <1>4 DEF Fits
  <2>2. \A x \in Version : x # <<>>
    BY DEF Version
  <2> QED BY <2>1, <2>2 DEF Unchecked
<1>6. BaseVersion = currentVersion(store)
  BY <1>5 DEF Committing
<1> QED BY <1>2, <1>3, <1>4, <1>6 DEF Fits

\* The versions keep fitting.
LEMMA VersionsNext == VersionsSound /\ [Next]_vars => VersionsSound'
<1> SUFFICES ASSUME VersionsSound, [Next]_vars PROVE VersionsSound'
  OBVIOUS
<1>1. /\ HistorySound /\ RunSound /\ StoreSound /\ Typed /\ Shapes /\ Control /\ InTurn /\ AtWork /\ VersionsFit
      /\ StoreOK(store)
  BY DEF VersionsSound, HistorySound, RunSound, StoreSound, Typed
<1>2. HistorySound'
  BY <1>1, HistoryNext
<1>3. WritesStep /\ StoreStep
  BY <1>1, WritesChange, StoreChanges
<1>4. Honest' => Honest
  BY <1>1, <1>3, HonestBefore
<1>5. \A known, v : Fits(store, known, v) => Fits(store', known, v)
  BY <1>1, <1>3, FitsKept
<1>6. /\ In("loaded")' => Load \/ (In("loaded") /\ attempt'.reply = attempt.reply)
      /\ In("answered")' => (\E w \in Ops : StoreAppends(w)) \/ (In("answered") /\ attempt'.reply = attempt.reply)
      /\ read' = read \/ RecordRead
  BY <1>1, RepliesKept
<1>7. ASSUME read' # <<>>, Honest' PROVE Fits(store', read'[1].messages, BaseVersion')
  <2>1. CASE RecordRead
    <3>1. UNCHANGED <<store, writes>> /\ read' = attempt.reply /\ In("loaded")
      BY <2>1 DEF RecordRead
    <3>2. Completed = {}
      <4>1. run.epoch = 1 /\ run.outcome = "none"
        BY <1>1, <3>1 DEF Control, Engaged, Flushes, In
      <4>2. \A w \in Ops : w[1] < 1 /\ w[1] \in Nat \ {0}
        BY <1>1, <4>1, OpsNow DEF InTurn
      <4> QED BY <4>2 DEF Completed
    <3>3. BaseVersion' = read'[1].version
      <4>1. Completed' = {}
        BY <3>1, <3>2 DEF Completed, Ops, Op
      <4> QED BY <4>1 DEF BaseVersion
    <3> QED BY <1>1, <3>1, <3>3 DEF VersionsFit
  <2>2. CASE read' = read /\ BaseVersion' = BaseVersion
    BY <1>1, <1>4, <1>5, <1>7, <2>2 DEF VersionsFit
  <2>3. CASE read' = read /\ Steady
    BY <1>1, <2>2, <2>3, RetainedKeeps DEF Steady
  <2>4. ASSUME NEW w, NEW how, NEW version, Settling(w, how, version)
        PROVE  Fits(store', read'[1].messages, BaseVersion')
    <3>1. Completed' = Completed \cup {w} /\ BaseVersion' = version /\ Op(w)'.how = how
      BY <1>1, <2>4, SettledKeeps DEF Settling
    <3>2. how = "committed"
      BY <1>7, <3>1 DEF Honest
    <3>3. RecordWrite(w) /\ version = attempt.reply[1].version /\ attempt.reply[1].status = "committed"
      BY <2>4, <3>2 DEF Settling
    <3>4. In("answered") /\ UNCHANGED <<store, read>>
      BY <3>3 DEF RecordWrite
    <3> QED BY <1>1, <1>4, <1>7, <3>1, <3>3, <3>4 DEF VersionsFit
  <2>5. ASSUME NEW segment, NEW outcome, Recording(segment, outcome)
        PROVE  Fits(store', read'[1].messages, BaseVersion')
    <3>1. read' = read /\ BaseVersion' = BaseVersion
      BY <1>1, <2>5, RecordedKeeps DEF Recording, Concludes
    <3> QED BY <2>2, <3>1
  <2>6. CASE Responding
    <3>1. UNCHANGED <<writes, read>>
      BY <2>6 DEF Responding, respond
    <3>2. BaseVersion' = BaseVersion
      BY <3>1 DEF BaseVersion, Completed, Ops, Op
    <3> QED BY <2>2, <3>1, <3>2
  <2> QED BY <1>3, <1>6, <2>1, <2>3, <2>4, <2>5, <2>6 DEF WritesStep
<1>8. ASSUME In("loaded")' PROVE Fits(store', attempt'.reply[1].messages, attempt'.reply[1].version)
  <2>1. CASE Load
    <3> DEFINE q == <<[messages |-> store.rows, version |-> currentVersion(store)]>>
    <3>1. attempt' = [attempt EXCEPT !.phase = "loaded", !.reply = q] /\ store' = store
      BY <2>1 DEF Load
    <3>2. q[1].messages = store.rows /\ q[1].version = currentVersion(store)
      OBVIOUS
    <3> HIDE DEF q
    <3>3. attempt'.reply = q
      BY <1>1, <3>1 DEF Shapes, InMemory
    <3> QED BY <1>1, <3>1, <3>2, <3>3, FitsNow
  <2>2. CASE In("loaded") /\ attempt'.reply = attempt.reply
    BY <1>1, <1>5, <2>2 DEF VersionsFit
  <2> QED BY <1>6, <1>8, <2>1, <2>2
<1>9. ASSUME In("answered")', attempt'.reply[1].status = "committed", Honest'
      PROVE  Fits(store', read'[1].messages, attempt'.reply[1].version)
  <2>1. ASSUME NEW w \in Ops, StoreAppends(w) PROVE Fits(store', read'[1].messages, attempt'.reply[1].version)
    <3> DEFINE x == [status |-> Answer(w).status, version |-> Answer(w).version]
               q == <<x>>
    <3>1. /\ attempt' = [attempt EXCEPT !.phase = "answered", !.reply = q] /\ store' = Answer(w).store
          /\ UNCHANGED <<run, read, writes, said, agent>> /\ Due(w) /\ In("sending")
      BY <2>1 DEF StoreAppends, durable
    <3>2. q[1].status = Answer(w).status /\ q[1].version = Answer(w).version
      OBVIOUS
    <3> HIDE DEF q
    <3>3. attempt'.reply = q
      BY <1>1, <3>1 DEF Shapes, InMemory
    <3>4. Answer(w).status = "committed"
      BY <1>9, <3>2, <3>3
    <3>5. /\ Grown(store', store, Op(w).messages) /\ store'.keys = store.keys \cup {Keyed(w)}
          /\ ~Written(store, w) /\ (BaseVersion = Unchecked \/ BaseVersion = currentVersion(store))
          /\ Answer(w).version = currentVersion(store')
      BY <1>1, <3>1, <3>4, AnswerKnown DEF Keyed
    <3>6. Committing(w)
      BY <3>1, <3>5, Zenon DEF Committing
    <3>7. read[1].messages \in Seq(Message) /\ Same(store.rows, read[1].messages)
      BY <1>4, <1>9, <3>6, CommittedUnchanged
    <3> DEFINE m == Op(w).messages
    <3>8. m \in Seq(Message) /\ \A i \in 1..Len(m) : m[i][1] = "run"
      <4>1. m \in Seq(Message) /\ m \in Seq(Said("run", w[1])) /\ w[1] \in Nat
        BY <1>1, OpsNow DEF HistorySound, WritesInOrder, Write
      <4> HIDE DEF m
      <4>2. \A i \in DOMAIN m : m[i][1] = "run"
        BY <4>1, SaidEarlier
      <4> QED BY <4>1, <4>2
    <3>9. Grown(store', store, m)
      BY <3>5
    <3> HIDE DEF m
    <3>10. Fits(store', read[1].messages, currentVersion(store'))
      BY <1>1, <3>7, <3>8, <3>9, FitsWritten
    <3> QED BY <3>1, <3>2, <3>3, <3>5, <3>10
  <2>2. CASE In("answered") /\ attempt'.reply = attempt.reply
    <3>1. read' = read
      BY <1>6, <2>2 DEF RecordRead, In
    <3> QED BY <1>1, <1>4, <1>5, <1>9, <2>2, <3>1 DEF VersionsFit
  <2> QED BY <1>6, <1>9, <2>1, <2>2
<1> QED BY <1>2, <1>7, <1>8, <1>9 DEF VersionsSound, VersionsFit

\* In every state the versions held by the run, and by an answer on its way to it, are still good: if one
\* is the current version of the store, the history is the one the run takes it for.
THEOREM VersionsStaySound == Spec => []VersionsSound
<1>1. Init => VersionsSound
  <2> SUFFICES ASSUME Init PROVE VersionsSound
    OBVIOUS
  <2>1. HistorySound
    BY HistoryInit
  <2>2. read = <<>> /\ attempt.phase = "none"
    BY DEF Init, NoAttempt
  <2> QED BY <2>1, <2>2 DEF VersionsSound, VersionsFit, In
<1> QED BY <1>1, VersionsNext, PTL DEF Spec

\* The run puts a write on top of a history somebody else has changed only after an operator has accepted
\* the divergence, or after a write of its own the store already had.
THEOREM MergesNoticed == Spec => MergeNoticed
<1>1. VersionsSound /\ [Next]_vars =>
        [store'.keys # store.keys => ~Changed \/ Resolved({"applied", "discarded", "duplicate"})]_vars
  <2> SUFFICES ASSUME VersionsSound, [Next]_vars, store'.keys # store.keys
               PROVE  ~Changed \/ Resolved({"applied", "discarded", "duplicate"})
    OBVIOUS
  <2>1. HistorySound /\ RunSound /\ StoreSound /\ Typed /\ InTurn
    BY DEF VersionsSound, HistorySound, RunSound, StoreSound
  <2>2. RowsStep
    BY <2>1, StoreChanges, RowsChange
  <2>3. PICK w : Committing(w)
    BY <2>2 DEF RowsStep, AgentSaved
  <2>4. CASE Honest
    <3>1. Same(store.rows, read[1].messages)
      BY <2>3, <2>4, CommittedUnchanged
    <3>2. ~Changed
      BY <3>1 DEF Same, Changed
    <3> QED BY <3>2
  <2>5. CASE ~Honest
    <3>1. PICK v \in Completed : Op(v).how # "committed"
      BY <2>5 DEF Honest
    <3>2. v \in Ops /\ Op(v).how \in Hows /\ Op(v).how # "unsettled"
      BY <2>1, <3>1, OpsNow DEF Completed, InTurn, Typed, Write
    <3> QED BY <3>1, <3>2 DEF Resolved, Hows
  <2> QED BY <2>4, <2>5
<1> QED BY <1>1, VersionsStaySound, PTL DEF Spec, MergeNoticed

-----------------------------------------------------------------------------
(* The transcript.                                                          *)

\* No answer of the run is steered by its journal: such an answer is not saved.
NoneSteered == \A turns \in RunScripts : Unsteered(turns)

\* What the store has answered for is there.
Stored ==
  /\ \A w \in Completed : Op(w).how \in {"committed", "duplicate"} => Keyed(w) \in store.keys
  /\ In("answered") /\ attempt.reply[1].status # "conflict" => \E w \in Ops : Due(w) /\ Keyed(w) \in store.keys

\* All that a finished segment said is in its writes.
Finished(e) == e < run.epoch \/ (e = run.epoch /\ run.outcome \in {"interaction", "response"})
SaidRecorded ==
  \A e \in Epochs : Finished(e) =>
    \A m \in Range(said[e]) : \E w \in Ops : w[1] = e /\ \E j \in DOMAIN Op(w).messages : Op(w).messages[j] = m

TranscriptSound == NoneSteered /\ RunSound /\ Stored /\ SaidRecorded

\* Keys are never forgotten.
LEMMA KeysStay == ASSUME RowsStep PROVE store.keys \subseteq store'.keys
BY DEF RowsStep, Committing, AgentSaved

\* What has been stored stays so, and the due write gets there before its answer does.
LEMMA StoredNext == ASSUME RunSound, Stored, [Next]_vars, WritesStep, RowsStep PROVE Stored'
<1>1. Typed /\ Shapes /\ Control /\ InTurn /\ AtWork
  BY DEF RunSound, StoreSound, Typed
<1>2. store.keys \subseteq store'.keys
  BY KeysStay
<1>3. Completed \subseteq Ops
  BY DEF Completed
<1>4. ASSUME NEW w \in Completed, Op(w).how \in {"committed", "duplicate"} PROVE Keyed(w) \in store'.keys
  BY <1>2, <1>4 DEF Stored
<1>5. ASSUME Completed' = Completed,
             \A v \in Ops : Op(v)'.messages = Op(v).messages /\ Op(v)'.how = Op(v).how,
             NEW w \in Completed', Op(w)'.how \in {"committed", "duplicate"}
      PROVE  Keyed(w)' \in store'.keys
  BY <1>3, <1>4, <1>5 DEF Keyed
<1>6. ASSUME NEW w \in Completed', Op(w)'.how \in {"committed", "duplicate"} PROVE Keyed(w)' \in store'.keys
  <2>1. CASE Steady
    BY <1>1, <1>5, <1>6, <2>1, RetainedKeeps DEF Steady
  <2>2. ASSUME NEW x, NEW how, NEW version, Settling(x, how, version) PROVE Keyed(w)' \in store'.keys
    <3>1. /\ Completed' = Completed \cup {x} /\ \A v \in Completed : Op(v)' = Op(v)
          /\ \A v \in Ops : Op(v)'.messages = Op(v).messages
          /\ Op(x)'.how = how
      BY <1>1, <2>2, SettledKeeps DEF Settling
    <3>2. CASE w \in Completed
      BY <1>3, <1>4, <1>6, <3>1, <3>2 DEF Keyed
    <3>3. CASE w = x
      <4>1. RecordWrite(x) /\ Due(x) /\ x \in Ops
        BY <1>1, <1>6, <2>2, <3>1, <3>3, DueKnown DEF Settling
      <4>2. PICK y \in Ops : Due(y) /\ Keyed(y) \in store.keys
        BY <4>1 DEF Stored, RecordWrite
      <4>3. y = x
        BY <1>1, <4>1, <4>2, DueOne
      <4> QED BY <1>2, <3>1, <3>3, <4>1, <4>2, <4>3 DEF Keyed
    <3> QED BY <3>1, <3>2, <3>3
  <2>3. ASSUME NEW segment, NEW outcome, Recording(segment, outcome) PROVE Keyed(w)' \in store'.keys
    <3>1. Completed' = Completed /\ \A v \in Ops : Op(v)' = Op(v)
      BY <1>1, <2>3, RecordedKeeps DEF Recording, Concludes
    <3> QED BY <1>5, <1>6, <3>1
  <2>4. CASE Responding
    <3>1. Completed' = Completed /\ \A v \in Ops : Op(v)'.messages = Op(v).messages /\ Op(v)'.how = Op(v).how
      BY <1>1, <2>4, InTurnResponded DEF Responding, Retained
    <3> QED BY <1>5, <1>6, <3>1
  <2> QED BY <2>1, <2>2, <2>3, <2>4 DEF WritesStep
<1>7. ASSUME In("answered")', attempt'.reply[1].status # "conflict"
      PROVE  \E w \in Ops' : Due(w)' /\ Keyed(w)' \in store'.keys
  <2>1. ASSUME NEW w \in Ops, StoreAppends(w) PROVE \E v \in Ops' : Due(v)' /\ Keyed(v)' \in store'.keys
    <3> DEFINE x == [status |-> Answer(w).status, version |-> Answer(w).version]
               q == <<x>>
    <3>1. /\ attempt' = [attempt EXCEPT !.phase = "answered", !.reply = q] /\ store' = Answer(w).store
          /\ UNCHANGED <<run, writes>> /\ Due(w)
      BY <2>1 DEF StoreAppends, durable
    <3>2. q[1].status = Answer(w).status
      OBVIOUS
    <3> HIDE DEF q
    <3>3. attempt'.reply = q
      BY <1>1, <3>1 DEF Shapes, InMemory
    <3>4. Answer(w).status \in {"committed", "duplicate"}
      BY <1>1, <1>7, <3>2, <3>3, AnswerKnown
    <3>5. Keyed(w) \in store'.keys
      <4>1. CASE Answer(w).status = "committed"
        BY <1>1, <3>1, <4>1, AnswerKnown DEF Keyed
      <4>2. CASE Answer(w).status = "duplicate"
        BY <1>1, <1>2, <4>2, AnswerKnown DEF Keyed
      <4> QED BY <3>4, <4>1, <4>2
    <3>6. Ops' = Ops /\ Due(w)' /\ Keyed(w)' = Keyed(w)
      BY <3>1 DEF Ops, Due, Unsettled, Op, Keyed
    <3> QED BY <3>5, <3>6
  <2>2. CASE In("answered") /\ attempt'.reply = attempt.reply
    <3>1. PICK w \in Ops : Due(w) /\ Keyed(w) \in store.keys
      BY <1>7, <2>2 DEF Stored
    <3>2. run.status \in {"running", "cancelled"}
      BY <1>1, <2>2 DEF Control, Engaged, In
    <3>3. CASE Steady
      <4>1. Ops' = Ops /\ Due(w)' /\ Keyed(w)' = Keyed(w)
        BY <1>1, <3>1, <3>3, RetainedKeeps DEF Steady, Keyed
      <4> QED BY <1>2, <3>1, <4>1
    <3>4. ASSUME NEW x, NEW how, NEW version, Settling(x, how, version) PROVE FALSE
      <4>1. RecordWrite(x) => ~In("answered")'
        <5>1. x \in Ops
          BY <1>1, <3>4, DueKnown DEF Settling
        <5> QED BY <1>1, <5>1, AttemptChanges DEF AttemptChanged, In
      <4>2. \A h : resolveMemoryWrite(x, h) => run.status = "needs_attention"
        BY DEF resolveMemoryWrite
      <4> QED BY <1>7, <3>2, <3>4, <4>1, <4>2 DEF Settling
    <3>5. ~Responding
      BY <3>2 DEF Responding
    <3>6. ASSUME NEW segment, NEW outcome, Recording(segment, outcome) PROVE FALSE
      BY <2>2, <3>6 DEF Recording, Concludes, Checkpoint, In
    <3> QED BY <3>3, <3>4, <3>5, <3>6 DEF WritesStep
  <2> QED BY <1>1, <1>7, <2>1, <2>2, RepliesKept
<1> QED BY <1>6, <1>7 DEF Stored

\* Nothing that was said is left out of the writes.
LEMMA SaidRecordedNext ==
  ASSUME NoneSteered, RunSound, SaidRecorded, [Next]_vars, WritesStep PROVE SaidRecorded'
<1>1. Typed /\ Shapes /\ Control /\ InTurn /\ AtWork
  BY DEF RunSound, StoreSound, Typed
<1>2. run.epoch \in Nat /\ run.epoch \in Epochs /\ Epochs \subseteq Nat /\ said \in [Epochs -> Seq(Message)]
  BY <1>1, EpochsKnown DEF Shapes, Row
<1>3. ASSUME UNCHANGED said, Ops' = Ops, \A v \in Ops : Op(v)'.messages = Op(v).messages,
             \A e \in Epochs : Finished(e)' => Finished(e)
      PROVE  SaidRecorded'
  BY <1>3 DEF SaidRecorded
<1>4. CASE Answers
  <2>1. PICK segment, outcome : Recording(segment, outcome)
    BY <1>1, <1>4, AnswersRecord
  <2> DEFINE c == segment.captured
  <2>2. PICK n : n = run.epoch
    OBVIOUS
  <2>3. /\ Ops' = Ops \cup {<<n, i>> : i \in DOMAIN c}
        /\ \A v \in Ops : Op(v)' = Op(v)
        /\ \A i \in DOMAIN c : Op(<<n, i>>)'.messages = c[i]
    BY <1>1, <2>1, <2>2, RecordedKeeps DEF Recording, Concludes
  <2>4. /\ said' = [said EXCEPT ![n] = segment.new] /\ run'.epoch = n /\ run'.outcome = outcome
        /\ outcome # "blocked" => AllSaved(segment)
    BY <2>1, <2>2 DEF Recording, Concludes, NoneSteered
  <2>5. ASSUME NEW e \in Epochs, Finished(e)', NEW m \in Range(said'[e])
        PROVE  \E w \in Ops' : w[1] = e /\ \E j \in DOMAIN Op(w)'.messages : Op(w)'.messages[j] = m
    <3>1. CASE e = n
      <4>1. AllSaved(segment) /\ said'[e] = segment.new
        BY <1>2, <2>2, <2>4, <2>5, <3>1 DEF Finished
      <4>2. PICK k \in DOMAIN segment.new : segment.new[k] = m
        BY <2>5, <4>1 DEF Range
      <4>3. PICK j \in DOMAIN c : \E l \in DOMAIN c[j] : c[j][l] = m
        BY <4>1, <4>2 DEF AllSaved, Saved
      <4> HIDE DEF c
      <4>4. <<n, j>> \in Ops' /\ Op(<<n, j>>)'.messages = c[j] /\ <<n, j>>[1] = e
        BY <2>3, <3>1
      <4> QED BY <4>3, <4>4
    <3>2. CASE e # n
      <4>1. Finished(e) /\ said'[e] = said[e]
        BY <1>2, <2>2, <2>4, <2>5, <3>2 DEF Finished
      <4>2. PICK w \in Ops : w[1] = e /\ \E j \in DOMAIN Op(w).messages : Op(w).messages[j] = m
        BY <2>5, <4>1 DEF SaidRecorded
      <4> QED BY <2>3, <4>2
    <3> QED BY <3>1, <3>2
  <2> QED BY <2>5 DEF SaidRecorded
<1>5. ~Answers => UNCHANGED said
  <2>1. UNCHANGED said \/ Answers
    BY DEF Next, vars, Launch, Attempt, Load, RecordRead, FinishFlush, Abort, Leave, Uncertain, SendWrite, StoreAppends,
           RecordWrite, Conflict, Fail, Calls, retry, respond, cancel, resolveMemoryWrite, close, Closed, Crash, open, Agent,
           Snapshot, ReplacePrefix, AgentAnswers, AgentSaves, AgentFails, HostClears, Others, durable
  <2> QED BY <2>1
<1>6. CASE ~Answers /\ Steady
  <2>1. \A e \in Epochs : Finished(e)' => Finished(e)
    BY <1>6 DEF Steady, Finished
  <2> QED BY <1>1, <1>3, <1>5, <1>6, <2>1, RetainedKeeps DEF Steady
<1>7. ASSUME ~Answers, NEW w, NEW how, NEW version, Settling(w, how, version) PROVE SaidRecorded'
  <2>1. \A e \in Epochs : Finished(e)' => Finished(e)
    BY <1>7 DEF Settling, Finished
  <2> QED BY <1>1, <1>3, <1>5, <1>7, <2>1, SettledKeeps DEF Settling
<1>8. CASE ~Answers /\ Responding
  <2>1. \A e \in Epochs : Finished(e)' => Finished(e)
    BY <1>2, <1>8 DEF Responding, Finished
  <2>2. Ops' = Ops /\ \A v \in Ops : Op(v)'.messages = Op(v).messages
    BY <1>8 DEF Responding, Retained
  <2> QED BY <1>3, <1>5, <1>8, <2>1, <2>2
<1>9. ASSUME NEW segment, NEW outcome, Recording(segment, outcome) PROVE Answers
  BY <1>9 DEF Recording
<1> QED BY <1>4, <1>6, <1>7, <1>8, <1>9 DEF WritesStep

\* Every step keeps it.
LEMMA TranscriptNext == TranscriptSound /\ [Next]_vars => TranscriptSound'
<1> SUFFICES ASSUME TranscriptSound, [Next]_vars PROVE TranscriptSound'
  OBVIOUS
<1>1. RunSound /\ StoreSound /\ RunSound' /\ NoneSteered
  BY RunNext DEF TranscriptSound, RunSound
<1>2. WritesStep /\ StoreStep
  BY <1>1, WritesChange, StoreChanges
<1>3. RowsStep
  BY <1>1, <1>2, RowsChange
<1> QED BY <1>1, <1>2, <1>3, StoredNext, SaidRecordedNext DEF TranscriptSound, NoneSteered

\* A run that is over, or waits for an answer, has saved all it said, unless a guardrail blocked it or an
\* operator settled one of its writes; provided that its journal steers no answer, which it would not save.
THEOREM TranscriptsSaved == NoneSteered /\ Spec => []TranscriptSaved
<1>1. NoneSteered /\ Init => TranscriptSound
  <2> SUFFICES ASSUME NoneSteered, Init PROVE TranscriptSound
    OBVIOUS
  <2>1. RunSound
    BY StoreInit, RunInit DEF RunSound
  <2>2. /\ attempt.phase = "none" /\ run.epoch = 1 /\ run.outcome = "none"
        /\ Ops = {}
    BY DEF Init, NoAttempt, Ops
  <2>3. \A e \in Epochs : ~Finished(e)
    BY <2>2, EpochsKnown DEF Finished
  <2> QED BY <2>1, <2>2, <2>3 DEF TranscriptSound, Stored, SaidRecorded, In, Completed
<1>2. TranscriptSound => TranscriptSaved
  <2> SUFFICES ASSUME TranscriptSound, run.status \in {"completed", "waiting"}, run.outcome # "blocked",
                      ~Resolved({"applied", "discarded"}),
                      NEW e \in 1..run.epoch, NEW m \in Range(said[e])
               PROVE  \E k \in store.keys : m \in Range(k.content)
    BY DEF TranscriptSaved
  <2>1. Typed /\ Shapes /\ Control /\ InTurn /\ AtWork /\ Stored /\ SaidRecorded
    BY DEF TranscriptSound, RunSound, StoreSound, Typed
  <2>2. run.outcome \in {"interaction", "response"} /\ Unsettled = {}
    BY <2>1 DEF Control, AtWork, Shapes, Row, Outcomes
  <2>3. e \in Epochs /\ Finished(e)
    <3>1. policy \in Policies /\ run.epoch \in Nat /\ MaxEpochs[policy] \in Nat /\ run.epoch <= MaxEpochs[policy]
      BY <2>1, EpochsKnown DEF Shapes, Row
    <3>2. e \in 1..MaxEpochs[policy]
      BY <3>1
    <3> QED BY <2>2, <3>1, <3>2, EpochsKnown DEF Finished
  <2>4. PICK w \in Ops : w[1] = e /\ \E j \in DOMAIN Op(w).messages : Op(w).messages[j] = m
    BY <2>1, <2>3 DEF SaidRecorded
  <2>5. w \in Completed
    BY <2>1, <2>2, <2>4, EitherWay
  <2>6. Op(w).how \in {"committed", "duplicate"}
    <3>1. Op(w).how \in Hows /\ Op(w).how # "unsettled" /\ Op(w).how \notin {"applied", "discarded"}
      BY <2>1, <2>4, <2>5, OpsNow DEF Resolved, Write, InTurn
    <3> QED BY <3>1 DEF Hows
  <2>7. Keyed(w) \in store.keys
    BY <2>1, <2>5, <2>6 DEF Stored
  <2>8. m \in Range(Keyed(w).content)
    BY <2>4 DEF Keyed, Range
  <2> QED BY <2>7, <2>8
<1>3. NoneSteered /\ Init /\ [][Next]_vars => []TranscriptSound
  BY <1>1, TranscriptNext, PTL
<1> QED BY <1>2, <1>3, PTL DEF Spec

=============================================================================
