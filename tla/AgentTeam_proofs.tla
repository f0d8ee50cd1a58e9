--------------------------- MODULE AgentTeam_proofs ---------------------------
(* Proofs about AgentTeam: for every number of members and every limit,     *)
(* messages are heard in order, the permits bound the work, and nobody is   *)
(* left at work below a member that was stopped.                            *)
EXTENDS AgentTeam, Selection_proofs, FiniteSetTheorems

Statuses == Busy \cup Stopped \cup {"none", "idle"}
Inputs == Seq([id : Nat, submitted : BOOLEAN])

Member ==
  [status : Statuses, parent : Members \cup {"none"}, depth : Nat, phase : Phases,
   inputs : Inputs, steering : Seq(Nat), sent : Nat, heard : Seq(Nat), aborted : BOOLEAN,
   outcome : {"none", "response", "blocked"}, permit : BOOLEAN]

-----------------------------------------------------------------------------
(* The inductive invariant.                                                 *)

\* The conversation, the queue of the run and the inbox of a member are stretches of the
\* numbers of its messages; the inbox ends with the last message there was.
Numbered(k) ==
  /\ \A i \in 1..Len(k.heard) : k.heard[i] = i
  /\ \A i \in 1..Len(k.steering) : k.steering[i] = Len(k.heard) + i
  /\ Len(k.heard) + Len(k.steering) <= k.sent
  /\ Len(k.inputs) <= k.sent
  /\ \A i \in 1..Len(k.inputs) :
       /\ k.inputs[i].id + Len(k.inputs) = k.sent + i
       /\ k.inputs[i].submitted <=> k.inputs[i].id <= Len(k.heard) + Len(k.steering)

\* A member that can still hear what it is sent.
Alive(k) == ~k.aborted /\ k.status # "none"

\* Nothing is lost between the three, and nothing waits in the inbox of a run that takes it.
Continuous(k) ==
  /\ k.sent <= Len(k.inputs) + Len(k.heard) + Len(k.steering)
  /\ k.phase # "turn" => Len(k.inputs) + Len(k.heard) <= k.sent
  /\ k.phase \in Steerable => k.sent = Len(k.heard) + Len(k.steering)
  /\ k.phase \notin Steerable \cup {"asking", "reasking", "refused"} => k.steering = <<>>
  /\ k.phase \in {"launched", "acquiring"} => k.inputs # <<>>

\* What the place of the task of a member says of the member.
Placed(k) ==
  /\ k.permit => k.phase \in {"turn", "returned", "refused", "leaving"}
  /\ k.phase = "turn" => k.permit
  /\ k.status = "cancelled" => k.aborted
  /\ k.status = "failed" => k.phase \in {"leaving", "none"}
  /\ k.status = "none" => k.phase = "none"
  /\ Len(k.inputs) <= MaxPending

Sound(k) == k \in Member /\ Numbered(k) /\ (Alive(k) => Continuous(k)) /\ Placed(k)

\* The members form a tree below the leader, of limited depth; who is not in it is unused.
Tree(M) ==
  \A m \in Members :
     /\ M[m].depth <= MaxDepth
     /\ m = Leader => M[m].parent = "none" /\ M[m].status # "none"
     /\ m # Leader /\ M[m].status # "none" =>
          /\ M[m].parent \in Members
          /\ M[M[m].parent].status # "none"
          /\ M[m].depth = M[M[m].parent].depth + 1
     /\ M[m].status = "none" => M[m].parent = "none"

Spared(M) ==
  \A m \in Members \ {Leader} :
     M[m].status # "none" /\ Halted(M[M[m].parent]) => Halted(M[m])

Fine(M) == M \in [Members -> Member] /\ (\A m \in Members : Sound(M[m])) /\ Tree(M)

IInv ==
  /\ Fine(members)
  /\ team \in {"open", "aborted", "closed", "settled"}
  /\ Cardinality(Active) <= MaxConcurrent
  /\ team = "open" => Spared(members)


-----------------------------------------------------------------------------
(* What the operations do to the inbox and to the queue of one member.      *)

\* The limits are numbers.
LEMMA Limits ==
  /\ MaxDepth \in Nat /\ MaxTotalTurns \in Nat
  /\ MaxConcurrent \in Nat \ {0} /\ MaxPending \in Nat \ {0}
  /\ Leader \in Members /\ "none" \notin Members
BY AgentTeamAssumption

\* What stays in the inbox when the messages up to number cut leave it.
LEMMA Remaining ==
  ASSUME NEW k \in Member, Numbered(k), NEW cut \in Nat, cut <= k.sent, NEW I,
         \A i \in 1..Len(k.inputs) : i \in I <=> k.inputs[i].id > cut
  PROVE  LET J == Selected(k.inputs, I) IN
         /\ J \in Inputs
         /\ Len(J) <= Len(k.inputs) /\ Len(J) + cut <= k.sent
         /\ Len(J) = Len(k.inputs) \/ Len(J) + cut = k.sent
         /\ \A i \in 1..Len(J) :
              /\ J[i].id + Len(J) = k.sent + i
              /\ J[i].submitted <=> J[i].id <= Len(k.heard) + Len(k.steering)
<1> DEFINE s == k.inputs
           n == k.sent
           b == Len(k.heard) + Len(k.steering)
           J == Selected(s, I)
           Rec == [id : Nat, submitted : BOOLEAN]
           a == IF Len(s) + cut <= n THEN 0 ELSE Len(s) + cut - n
<1>1. s \in Seq(Rec) /\ n \in Nat /\ b \in Nat /\ Len(s) \in Nat /\ Len(s) <= n
  BY DEF Member, Inputs, Numbered
<1>2. \A i \in 1..Len(s) : /\ s[i] \in Rec /\ s[i].id + Len(s) = n + i
                           /\ s[i].submitted <=> s[i].id <= b
  <2>1. \A i \in 1..Len(s) : s[i] \in Rec
    <3> HIDE DEF s, Rec
    <3> QED BY <1>1
  <2>2. \A i \in 1..Len(s) : s[i].id + Len(s) = n + i
    BY DEF Numbered
  <2>3. \A i \in 1..Len(s) : s[i].submitted <=> s[i].id <= b
    BY DEF Numbered
  <2> QED BY <2>1, <2>2, <2>3
<1>3. \A i \in 1..Len(s) : i \in I <=> s[i].id > cut
  OBVIOUS
<1>4. cut <= n
  OBVIOUS
<1> HIDE DEF s, n, b, Rec
<1>5. a \in 0..Len(s)
  BY <1>1, <1>4
<1>6. ASSUME NEW i \in 1..Len(s) PROVE i \in I <=> i > a
  <2>1. s[i].id + Len(s) = n + i /\ s[i].id \in Nat
    BY <1>2 DEF Rec
  <2>2. s[i].id > cut <=> n + i > cut + Len(s)
    BY <2>1, <1>1
  <2> QED BY <2>2, <1>1, <1>3
<1> HIDE DEF a
<1>7. /\ J \in Seq(Rec) /\ Len(J) = Len(s) - a
      /\ \A j \in 1..Len(s) - a : J[j] = s[a + j]
  BY <1>1, <1>5, <1>6, SelectedRest
<1> HIDE DEF J
<1>8. Len(J) <= Len(s) /\ Len(J) + cut <= n /\ (Len(J) = Len(s) \/ Len(J) + cut = n)
  BY <1>1, <1>4, <1>7 DEF a
<1>9. ASSUME NEW i \in 1..Len(J)
      PROVE  J[i].id + Len(J) = n + i /\ (J[i].submitted <=> J[i].id <= b)
  <2>1. a + i \in 1..Len(s) /\ J[i] = s[a + i]
    BY <1>1, <1>5, <1>7
  <2>2. J[i].id + Len(s) = n + (a + i) /\ J[i].id \in Nat
    BY <2>1, <1>2 DEF Rec
  <2>3. J[i].id + Len(J) = n + i
    <3> DEFINE x == J[i].id
               lj == Len(J)
               ls == Len(s)
    <3>1. /\ lj = ls - a /\ a \in Nat /\ i \in Nat /\ x \in Nat /\ n \in Nat /\ ls \in Nat
          /\ x + ls = n + (a + i)
      BY <1>1, <1>5, <1>7, <2>2
    <3> HIDE DEF x, lj, ls
    <3>2. x + lj = n + i
      BY <3>1
    <3> QED BY <3>2 DEF x, lj
  <2> QED BY <2>1, <2>3, <1>2
<1> QED BY <1>7, <1>8, <1>9 DEF J, s, n, b, Rec, Inputs

\* An inbox, and its elements.
LEMMA InputsElements ==
  ASSUME NEW s \in Inputs
  PROVE  /\ Len(s) \in Nat /\ DOMAIN s = 1..Len(s)
         /\ \A i \in 1..Len(s) : s[i].id \in Nat /\ s[i].submitted \in BOOLEAN
<1> DEFINE Rec == [id : Nat, submitted : BOOLEAN]
<1>1. s \in Seq(Rec)
  BY DEF Inputs
<1>2. \A x \in Rec : x.id \in Nat /\ x.submitted \in BOOLEAN
  OBVIOUS
<1> HIDE DEF Rec
<1> QED BY <1>1, <1>2

\* What the inbox of k holds that its run has not been given.
NewIn(k) == {i \in DOMAIN k.inputs : ~k.inputs[i].submitted}
New(k) == Selected(k.inputs, NewIn(k))

\* They are the last messages there were, from the first after those the run has.
LEMMA NewRest ==
  ASSUME NEW k \in Member, Numbered(k)
  PROVE  /\ New(k) \in Inputs
         /\ Len(New(k)) <= Len(k.inputs)
         /\ Len(New(k)) + Len(k.heard) + Len(k.steering) <= k.sent
         /\ \/ Len(New(k)) = Len(k.inputs)
            \/ Len(New(k)) + Len(k.heard) + Len(k.steering) = k.sent
         /\ \A i \in 1..Len(New(k)) : New(k)[i].id + Len(New(k)) = k.sent + i
<1> DEFINE cut == Len(k.heard) + Len(k.steering)
<1>1. /\ Len(k.heard) \in Nat /\ Len(k.steering) \in Nat /\ cut \in Nat /\ cut <= k.sent
      /\ k.sent \in Nat /\ k.inputs \in Inputs
  BY DEF Member, Inputs, Numbered
<1>2. ASSUME NEW i \in 1..Len(k.inputs) PROVE i \in NewIn(k) <=> k.inputs[i].id > cut
  <2>1. i \in DOMAIN k.inputs /\ k.inputs[i].id \in Nat
    BY <1>1, InputsElements
  <2>2. k.inputs[i].submitted <=> k.inputs[i].id <= cut
    BY DEF Numbered
  <2>3. i \in NewIn(k) <=> ~k.inputs[i].submitted
    BY <2>1 DEF NewIn
  <2> HIDE DEF cut
  <2> QED BY <2>1, <2>2, <2>3, <1>1
<1> DEFINE J == Selected(k.inputs, NewIn(k))
<1> HIDE DEF cut
<1>3. LET L == Selected(k.inputs, NewIn(k)) IN
      /\ L \in Inputs
      /\ Len(L) <= Len(k.inputs) /\ Len(L) + cut <= k.sent
      /\ Len(L) = Len(k.inputs) \/ Len(L) + cut = k.sent
      /\ \A i \in 1..Len(L) :
           /\ L[i].id + Len(L) = k.sent + i
           /\ L[i].submitted <=> L[i].id <= Len(k.heard) + Len(k.steering)
  BY <1>1, <1>2, Remaining
<1>4. /\ J \in Inputs
      /\ Len(J) <= Len(k.inputs) /\ Len(J) + cut <= k.sent
      /\ Len(J) = Len(k.inputs) \/ Len(J) + cut = k.sent
      /\ \A i \in 1..Len(J) : J[i].id + Len(J) = k.sent + i
  BY <1>3
<1> HIDE DEF J
<1>5. Len(J) \in Nat
  BY <1>4, InputsElements
<1>6. Len(J) + Len(k.heard) + Len(k.steering) = Len(J) + cut
  <2> DEFINE h == Len(k.heard)
             q == Len(k.steering)
             lj == Len(J)
  <2>1. h \in Nat /\ q \in Nat /\ lj \in Nat /\ cut = h + q
    BY <1>5, <1>1 DEF cut
  <2> HIDE DEF h, q, lj
  <2>2. lj + h + q = lj + cut
    BY <2>1
  <2> QED BY <2>2 DEF h, q, lj
<1>7. New(k) = J
  BY DEF New, J
<1> QED BY <1>4, <1>6, <1>7

\* The fields of a member.
LEMMA Fields ==
  ASSUME NEW k \in Member
  PROVE  /\ k.inputs \in Inputs /\ k.steering \in Seq(Nat) /\ k.heard \in Seq(Nat)
         /\ k.sent \in Nat
         /\ Len(k.inputs) \in Nat /\ Len(k.steering) \in Nat /\ Len(k.heard) \in Nat
<1>1. k.inputs \in Inputs /\ k.steering \in Seq(Nat) /\ k.heard \in Seq(Nat) /\ k.sent \in Nat
  BY DEF Member
<1>2. Len(k.inputs) \in Nat
  BY <1>1, InputsElements
<1> QED BY <1>1, <1>2

\* One sequence of numbers behind another.
LEMMA Joined ==
  ASSUME NEW s \in Seq(Nat), NEW t \in Seq(Nat), NEW n \in Nat, n = Len(s), NEW p \in Nat, p = Len(t)
  PROVE  /\ s \o t \in Seq(Nat) /\ Len(s \o t) = n + p
         /\ \A i \in 1..n : (s \o t)[i] = s[i]
         /\ \A i \in n + 1..n + p : (s \o t)[i] = t[i - n]
<1> DEFINE u == s \o t
<1>1. /\ u \in Seq(Nat) /\ Len(u) = Len(s) + Len(t)
      /\ \A i \in 1..Len(s) + Len(t) : u[i] = IF i <= Len(s) THEN s[i] ELSE t[i - Len(s)]
  BY ConcatProperties
<1> HIDE DEF u
<1>2. /\ u \in Seq(Nat) /\ Len(u) = n + p
      /\ \A i \in 1..n + p : u[i] = IF i <= n THEN s[i] ELSE t[i - n]
  BY <1>1
<1>3. \A i \in 1..n : u[i] = s[i]
  BY <1>2
<1>4. \A i \in n + 1..n + p : u[i] = t[i - n]
  BY <1>2
<1> QED BY <1>2, <1>3, <1>4 DEF u

\* The numbers of the messages of an inbox.
LEMMA IdsOf ==
  ASSUME NEW s \in Inputs
  PROVE  /\ Ids(s) \in Seq(Nat) /\ Len(Ids(s)) = Len(s)
         /\ \A i \in 1..Len(s) : Ids(s)[i] = s[i].id
<1>1. Len(s) \in Nat /\ DOMAIN s = 1..Len(s) /\ \A i \in 1..Len(s) : s[i].id \in Nat
  BY InputsElements
<1>2. Ids(s) = [i \in 1..Len(s) |-> s[i].id]
  BY <1>1 DEF Ids
<1>3. Ids(s) \in [1..Len(s) -> Nat]
  BY <1>1, <1>2
<1> QED BY <1>1, <1>2, <1>3

\* An inbox whose messages have all been submitted.
LEMMA SubmittedOf ==
  ASSUME NEW s \in Inputs
  PROVE  /\ Submitted(s) \in Inputs /\ Len(Submitted(s)) = Len(s)
         /\ \A i \in 1..Len(s) :
              Submitted(s)[i].id = s[i].id /\ Submitted(s)[i].submitted = TRUE
<1> DEFINE Rec == [id : Nat, submitted : BOOLEAN]
<1>1. Len(s) \in Nat /\ DOMAIN s = 1..Len(s) /\ s \in Seq(Rec)
  BY InputsElements DEF Inputs
<1>2. \A r \in Rec : /\ [r EXCEPT !.submitted = TRUE] \in Rec
                     /\ [r EXCEPT !.submitted = TRUE].id = r.id
                     /\ [r EXCEPT !.submitted = TRUE].submitted = TRUE
  OBVIOUS
<1>3. Submitted(s) = [i \in 1..Len(s) |-> [s[i] EXCEPT !.submitted = TRUE]]
  BY <1>1 DEF Submitted
<1> HIDE DEF Rec
<1>4. \A i \in 1..Len(s) : s[i] \in Rec
  BY <1>1
<1>5. Submitted(s) \in [1..Len(s) -> Rec]
  BY <1>2, <1>3, <1>4
<1>6. Submitted(s) \in Seq(Rec) /\ Len(Submitted(s)) = Len(s)
  BY <1>1, <1>5
<1>7. ASSUME NEW i \in 1..Len(s)
      PROVE  Submitted(s)[i].id = s[i].id /\ Submitted(s)[i].submitted = TRUE
  <2>1. Submitted(s)[i] = [s[i] EXCEPT !.submitted = TRUE]
    BY <1>3
  <2> QED BY <2>1, <1>2, <1>4
<1> QED BY <1>6, <1>7 DEF Inputs, Rec

\* What is steered goes behind what the run was steered with before.
Steered(k) ==
  IF k.phase \notin Steerable \/ k.aborted THEN k
  ELSE [k EXCEPT !.steering = @ \o Ids(New(k)), !.inputs = Submitted(@)]

\* Two members that differ in what they were sent only.
SameBut(k, j) ==
  /\ j.status = k.status /\ j.parent = k.parent /\ j.depth = k.depth /\ j.phase = k.phase
  /\ j.aborted = k.aborted /\ j.outcome = k.outcome /\ j.permit = k.permit

\* A run that takes what it is steered with has been given all that its member was sent.
LEMMA SteeredNumbered ==
  ASSUME NEW k \in Member, Numbered(k), k.phase \in Steerable, ~k.aborted,
         k.sent <= Len(k.inputs) + Len(k.heard) + Len(k.steering)
  PROVE  LET j == Steered(k) IN
         /\ j \in Member /\ Numbered(j) /\ SameBut(k, j)
         /\ j.sent = k.sent /\ j.heard = k.heard /\ Len(j.inputs) = Len(k.inputs)
         /\ j.sent = Len(j.heard) + Len(j.steering)
<1> DEFINE n == k.sent
           h == Len(k.heard)
           q == Len(k.steering)
           l == Len(k.inputs)
           N == New(k)
           p == Len(N)
           A == k.steering \o Ids(N)
           B == Submitted(k.inputs)
           j == Steered(k)
<1>1. /\ k.inputs \in Inputs /\ k.steering \in Seq(Nat) /\ k.heard \in Seq(Nat)
      /\ n \in Nat /\ l \in Nat /\ q \in Nat /\ h \in Nat
  BY Fields
<1>2. j = [k EXCEPT !.steering = A, !.inputs = B]
  BY DEF Steered
<1>3. /\ N \in Inputs /\ p <= l /\ p + h + q <= n /\ (p = l \/ p + h + q = n)
      /\ \A i \in 1..p : N[i].id + p = n + i
  BY NewRest
<1>4. n <= l + h + q /\ h + q <= n /\ l <= n
  BY DEF Numbered
<1>5. p \in Nat /\ \A i \in 1..p : N[i].id \in Nat
  BY <1>3, InputsElements
<1>6. p + h + q = n
  <2> HIDE DEF n, h, q, l, p
  <2> QED BY <1>1, <1>3, <1>4, <1>5
<1>7. Ids(N) \in Seq(Nat) /\ Len(Ids(N)) = p /\ \A i \in 1..p : Ids(N)[i] = N[i].id
  BY <1>3, IdsOf
<1>8. /\ A \in Seq(Nat) /\ Len(A) = q + p
      /\ \A i \in 1..q : A[i] = k.steering[i]
      /\ \A i \in q + 1..q + p : A[i] = Ids(N)[i - q]
  <2> DEFINE s == k.steering
             w == Ids(N)
  <2>1. s \in Seq(Nat) /\ w \in Seq(Nat) /\ q = Len(s) /\ p = Len(w) /\ q \in Nat /\ p \in Nat
    BY <1>1, <1>5, <1>7
  <2> HIDE DEF s, w, q, p
  <2>2. /\ s \o w \in Seq(Nat) /\ Len(s \o w) = q + p
        /\ \A i \in 1..q : (s \o w)[i] = s[i]
        /\ \A i \in q + 1..q + p : (s \o w)[i] = w[i - q]
    BY <2>1, Joined
  <2> QED BY <2>2 DEF s, w
<1>9. /\ B \in Inputs /\ Len(B) = l
      /\ \A i \in 1..l : B[i].id = k.inputs[i].id /\ B[i].submitted = TRUE
  BY <1>1, SubmittedOf
<1> HIDE DEF A, B, N
<1>10. /\ j \in Member /\ SameBut(k, j) /\ j.sent = n /\ j.heard = k.heard
       /\ j.inputs = B /\ j.steering = A
  <2>1. /\ j.status = k.status /\ j.parent = k.parent /\ j.depth = k.depth
        /\ j.phase = k.phase /\ j.aborted = k.aborted /\ j.outcome = k.outcome
        /\ j.permit = k.permit /\ j.sent = n /\ j.heard = k.heard
        /\ j.inputs = B /\ j.steering = A
    BY <1>2 DEF Member
  <2>2. j \in Member
    BY <1>2, <1>8, <1>9 DEF Member
  <2> HIDE DEF j
  <2> QED BY <2>1, <2>2 DEF SameBut
<1> HIDE DEF j
<1>11. Len(j.steering) = q + p /\ n = h + Len(j.steering) /\ Len(j.heard) = h
  <2>1. Len(j.steering) = q + p /\ Len(j.heard) = h
    BY <1>8, <1>10
  <2> HIDE DEF n, h, q, l, p
  <2> QED BY <2>1, <1>1, <1>5, <1>6
<1>12. Numbered(j)
  <2>1. \A i \in 1..Len(j.heard) : j.heard[i] = i
    BY <1>10 DEF Numbered
  <2>2. ASSUME NEW i \in 1..Len(j.steering) PROVE j.steering[i] = Len(j.heard) + i
    <3>1. CASE i \in 1..q
      BY <3>1, <1>8, <1>10 DEF Numbered
    <3>2. CASE i \in q + 1..q + p
      <4> DEFINE x == N[i - q].id
      <4>1. i - q \in 1..p
        <5> HIDE DEF q, p
        <5> QED BY <3>2, <1>1, <1>5
      <4>2. x \in Nat /\ x + p = n + (i - q) /\ j.steering[i] = x
        BY <4>1, <3>2, <1>3, <1>5, <1>7, <1>8, <1>10
      <4> HIDE DEF x, n, q, p, h
      <4>3. x = h + i
        BY <4>2, <1>1, <1>5, <1>6, <3>2
      <4> QED BY <4>2, <4>3, <1>10 DEF h
    <3>3. i \in 1..q + p
      BY <1>11
    <3> HIDE DEF q, p
    <3> QED BY <3>1, <3>2, <3>3, <1>1, <1>5
  <2>3. Len(j.heard) + Len(j.steering) <= j.sent /\ Len(j.inputs) <= j.sent
    <3>1. Len(j.heard) + Len(j.steering) = n /\ j.sent = n /\ n <= n
      BY <1>1, <1>10, <1>11
    <3>2. Len(j.inputs) = l /\ l <= n
      BY <1>4, <1>9, <1>10
    <3> HIDE DEF n, l
    <3> QED BY <3>1, <3>2, Zenon
  <2>4. ASSUME NEW i \in 1..Len(j.inputs)
        PROVE  /\ j.inputs[i].id + Len(j.inputs) = j.sent + i
               /\ j.inputs[i].submitted <=> j.inputs[i].id <= Len(j.heard) + Len(j.steering)
    <3> DEFINE x == k.inputs[i].id
    <3>1. i \in 1..l /\ j.inputs[i].id = x /\ j.inputs[i].submitted = TRUE /\ Len(j.inputs) = l
      BY <1>9, <1>10
    <3>2. x \in Nat /\ x + l = n + i
      BY <3>1, <1>1, InputsElements DEF Numbered
    <3>3. x <= n
      <4> HIDE DEF x, l, n
      <4> QED BY <3>1, <3>2, <1>1
    <3>4. n = Len(j.heard) + Len(j.steering)
      BY <1>11, <1>10
    <3> HIDE DEF x, l, n
    <3> QED BY <3>1, <3>2, <3>3, <3>4, <1>10
  <2> QED BY <2>1, <2>2, <2>3, <2>4 DEF Numbered
<1>13. Len(j.inputs) = l /\ j.sent = Len(j.heard) + Len(j.steering)
  BY <1>9, <1>10, <1>11
<1> QED BY <1>10, <1>12, <1>13 DEF j

\* What stays in the inbox of k of the messages that are not in ids.
Outside(k, ids) == Selected(k.inputs, {i \in DOMAIN k.inputs : k.inputs[i].id \notin ids})

\* When ids are those up to the number cut, what stays is a stretch up to the last one.
LEMMA OutsideRest ==
  ASSUME NEW k \in Member, Numbered(k), NEW ids, NEW cut \in Nat, cut <= k.sent,
         \A i \in 1..Len(k.inputs) : k.inputs[i].id \in ids <=> k.inputs[i].id <= cut
  PROVE  LET J == Outside(k, ids) IN
         /\ J \in Inputs
         /\ Len(J) <= Len(k.inputs) /\ Len(J) + cut <= k.sent
         /\ Len(J) = Len(k.inputs) \/ Len(J) + cut = k.sent
         /\ \A i \in 1..Len(J) :
              /\ J[i].id + Len(J) = k.sent + i
              /\ J[i].submitted <=> J[i].id <= Len(k.heard) + Len(k.steering)
<1> DEFINE I == {i \in DOMAIN k.inputs : k.inputs[i].id \notin ids}
<1>1. k.inputs \in Inputs
  BY Fields
<1>2. ASSUME NEW i \in 1..Len(k.inputs) PROVE i \in I <=> k.inputs[i].id > cut
  <2>1. i \in DOMAIN k.inputs /\ k.inputs[i].id \in Nat
    BY <1>1, InputsElements
  <2>2. i \in I <=> k.inputs[i].id \notin ids
    BY <2>1
  <2> HIDE DEF I
  <2>3. k.inputs[i].id > cut <=> ~(k.inputs[i].id <= cut)
    BY <2>1
  <2> QED BY <2>2, <2>3
<1> HIDE DEF I
<1>3. LET J == Selected(k.inputs, I) IN
         /\ J \in Inputs
         /\ Len(J) <= Len(k.inputs) /\ Len(J) + cut <= k.sent
         /\ Len(J) = Len(k.inputs) \/ Len(J) + cut = k.sent
         /\ \A i \in 1..Len(J) :
              /\ J[i].id + Len(J) = k.sent + i
              /\ J[i].submitted <=> J[i].id <= Len(k.heard) + Len(k.steering)
  BY <1>2, Remaining
<1> QED BY <1>3 DEF Outside, I

\* The numbers in an inbox start at 1.
LEMMA FirstNumber ==
  ASSUME NEW k \in Member, Numbered(k), NEW i \in 1..Len(k.inputs)
  PROVE  /\ k.inputs[i].id \in Nat /\ k.inputs[i].id <= k.sent
         /\ k.inputs[i].id + Len(k.inputs) >= k.sent + 1
         /\ k.inputs[i].id >= 1
<1> DEFINE x == k.inputs[i].id
           n == k.sent
           l == Len(k.inputs)
<1>1. x \in Nat /\ n \in Nat /\ l \in Nat
  BY Fields, InputsElements
<1>2. x + l = n + i /\ l <= n /\ i \in 1..l
  BY DEF Numbered
<1> HIDE DEF x, n, l
<1>3. x <= n /\ x + l >= n + 1 /\ x >= 1
  BY <1>1, <1>2
<1> QED BY <1>1, <1>3 DEF x, n, l

\* The range of a stretch of numbers.
LEMMA RangeOf ==
  ASSUME NEW s \in Seq(Nat), NEW h \in Nat, \A i \in 1..Len(s) : s[i] = h + i
  PROVE  \A x \in Nat : x \in Range(s) <=> h < x /\ x <= h + Len(s)
<1>1. Len(s) \in Nat /\ DOMAIN s = 1..Len(s)
  OBVIOUS
<1>2. ASSUME NEW x \in Nat, x \in Range(s) PROVE h < x /\ x <= h + Len(s)
  BY <1>1, <1>2 DEF Range
<1>3. ASSUME NEW x \in Nat, h < x /\ x <= h + Len(s) PROVE x \in Range(s)
  <2>1. x - h \in 1..Len(s)
    BY <1>1, <1>3
  <2>2. s[x - h] = x
    BY <2>1, <1>1
  <2> QED BY <2>1, <2>2, <1>1 DEF Range
<1> QED BY <1>2, <1>3

\* What the run has called the model with leaves the inbox.
Read(k) == [k EXCEPT !.inputs = Outside(k, Range(k.heard))]

\* It was the first part of it.
LEMMA ReadNumbered ==
  ASSUME NEW k \in Member, Numbered(k)
  PROVE  LET j == Read(k) IN
         /\ j \in Member /\ Numbered(j) /\ SameBut(k, j)
         /\ j.sent = k.sent /\ j.heard = k.heard /\ j.steering = k.steering
         /\ Len(j.inputs) <= Len(k.inputs)
         /\ Len(j.inputs) + Len(j.heard) <= j.sent
         /\ Len(j.inputs) = Len(k.inputs) \/ Len(j.inputs) + Len(j.heard) = j.sent
<1> DEFINE h == Len(k.heard)
           J == Outside(k, Range(k.heard))
           j == Read(k)
<1>1. /\ k.heard \in Seq(Nat) /\ h \in Nat /\ k.sent \in Nat /\ Len(k.steering) \in Nat
      /\ Len(k.inputs) \in Nat
  BY Fields
<1>2. h <= k.sent /\ Len(k.inputs) <= k.sent
  <2>1. h + Len(k.steering) <= k.sent /\ Len(k.inputs) <= k.sent
    BY DEF Numbered
  <2> HIDE DEF h
  <2> QED BY <2>1, <1>1
<1>3. ASSUME NEW i \in 1..Len(k.inputs)
      PROVE  k.inputs[i].id \in Range(k.heard) <=> k.inputs[i].id <= h
  <2> DEFINE x == k.inputs[i].id
  <2>1. x \in Nat /\ x >= 1
    BY FirstNumber
  <2>2. \A e \in 1..Len(k.heard) : k.heard[e] = 0 + e
    BY <1>1 DEF Numbered
  <2> HIDE DEF x
  <2>3. x \in Range(k.heard) <=> 0 < x /\ x <= 0 + Len(k.heard)
    BY <1>1, <2>1, <2>2, RangeOf
  <2>4. x \in Range(k.heard) <=> x <= h
    BY <2>1, <2>3, <1>1
  <2> QED BY <2>4 DEF x
<1>4. /\ J \in Inputs
      /\ Len(J) <= Len(k.inputs) /\ Len(J) + h <= k.sent
      /\ Len(J) = Len(k.inputs) \/ Len(J) + h = k.sent
      /\ \A i \in 1..Len(J) :
           /\ J[i].id + Len(J) = k.sent + i
           /\ J[i].submitted <=> J[i].id <= Len(k.heard) + Len(k.steering)
  <2> DEFINE ids == Range(k.heard)
  <2>1. \A i \in 1..Len(k.inputs) : k.inputs[i].id \in ids <=> k.inputs[i].id <= h
    BY <1>3
  <2> HIDE DEF ids, h
  <2>2. LET L == Outside(k, ids) IN
         /\ L \in Inputs
         /\ Len(L) <= Len(k.inputs) /\ Len(L) + h <= k.sent
         /\ Len(L) = Len(k.inputs) \/ Len(L) + h = k.sent
         /\ \A i \in 1..Len(L) :
              /\ L[i].id + Len(L) = k.sent + i
              /\ L[i].submitted <=> L[i].id <= Len(k.heard) + Len(k.steering)
    BY <1>1, <1>2, <2>1, OutsideRest
  <2> QED BY <2>2 DEF ids
<1>5. j = [k EXCEPT !.inputs = J]
  BY DEF Read
<1> HIDE DEF J
<1>6. /\ j.status = k.status /\ j.parent = k.parent /\ j.depth = k.depth
      /\ j.phase = k.phase /\ j.aborted = k.aborted /\ j.outcome = k.outcome
      /\ j.permit = k.permit /\ j.sent = k.sent /\ j.heard = k.heard
      /\ j.inputs = J /\ j.steering = k.steering
  BY <1>5 DEF Member
<1>7. j \in Member
  BY <1>4, <1>5 DEF Member
<1> HIDE DEF j
<1>8. Len(j.inputs) \in Nat /\ Len(J) <= k.sent
  <2>1. Len(J) \in Nat
    BY <1>4, InputsElements
  <2> HIDE DEF h
  <2> QED BY <2>1, <1>1, <1>2, <1>4, <1>6
<1>9. Numbered(j)
  <2>1. /\ \A i \in 1..Len(j.heard) : j.heard[i] = i
        /\ \A i \in 1..Len(j.steering) : j.steering[i] = Len(j.heard) + i
        /\ Len(j.heard) + Len(j.steering) <= j.sent
    BY <1>6 DEF Numbered
  <2>2. Len(j.inputs) <= j.sent
    BY <1>6, <1>8
  <2>3. \A i \in 1..Len(j.inputs) :
          /\ j.inputs[i].id + Len(j.inputs) = j.sent + i
          /\ j.inputs[i].submitted <=> j.inputs[i].id <= Len(j.heard) + Len(j.steering)
    BY <1>4, <1>6
  <2> QED BY <2>1, <2>2, <2>3 DEF Numbered
<1>10. SameBut(k, j)
  BY <1>6 DEF SameBut
<1>11. /\ Len(j.inputs) <= Len(k.inputs)
       /\ Len(j.inputs) + Len(j.heard) <= j.sent
       /\ Len(j.inputs) = Len(k.inputs) \/ Len(j.inputs) + Len(j.heard) = j.sent
  BY <1>4, <1>6
<1> QED BY <1>6, <1>7, <1>9, <1>10, <1>11 DEF j

\* What the run has been steered with enters the conversation.
Drained(k) ==
  [k EXCEPT !.inputs = Outside(k, Range(k.steering)), !.heard = @ \o k.steering, !.steering = <<>>]

\* It was the next part of it.
LEMMA DrainedNumbered ==
  ASSUME NEW k \in Member, Numbered(k), Len(k.inputs) + Len(k.heard) <= k.sent
  PROVE  LET j == Drained(k) IN
         /\ j \in Member /\ Numbered(j) /\ SameBut(k, j)
         /\ j.sent = k.sent /\ j.steering = <<>>
         /\ Len(j.heard) = Len(k.heard) + Len(k.steering)
         /\ Len(j.inputs) <= Len(k.inputs)
         /\ Len(j.inputs) + Len(j.heard) <= j.sent
<1> DEFINE h == Len(k.heard)
           q == Len(k.steering)
           cut == h + q
           H == k.heard \o k.steering
           J == Outside(k, Range(k.steering))
           j == Drained(k)
<1>1. /\ k.heard \in Seq(Nat) /\ h \in Nat /\ k.sent \in Nat /\ q \in Nat
      /\ k.steering \in Seq(Nat) /\ Len(k.inputs) \in Nat
  BY Fields
<1>2. cut \in Nat /\ cut <= k.sent /\ Len(k.inputs) <= k.sent
  <2>1. h + q <= k.sent /\ Len(k.inputs) <= k.sent
    BY DEF Numbered
  <2> HIDE DEF h, q
  <2> QED BY <2>1, <1>1
<1>3. ASSUME NEW i \in 1..Len(k.inputs)
      PROVE  k.inputs[i].id \in Range(k.steering) <=> k.inputs[i].id <= cut
  <2> DEFINE x == k.inputs[i].id
             l == Len(k.inputs)
  <2>1. x \in Nat /\ x + l >= k.sent + 1 /\ l \in Nat /\ l + h <= k.sent
    BY FirstNumber, <1>1
  <2>2. \A e \in 1..Len(k.steering) : k.steering[e] = h + e
    BY <1>1 DEF Numbered
  <2> HIDE DEF x, l, h
  <2>3. x \in Range(k.steering) <=> h < x /\ x <= h + Len(k.steering)
    BY <1>1, <2>1, <2>2, RangeOf
  <2>4. h < x
    BY <2>1, <1>1
  <2> QED BY <2>3, <2>4 DEF x
<1>4. /\ J \in Inputs
      /\ Len(J) <= Len(k.inputs) /\ Len(J) + cut <= k.sent
      /\ \A i \in 1..Len(J) :
           /\ J[i].id + Len(J) = k.sent + i
           /\ J[i].submitted <=> J[i].id <= Len(k.heard) + Len(k.steering)
  <2> DEFINE ids == Range(k.steering)
  <2>1. \A i \in 1..Len(k.inputs) : k.inputs[i].id \in ids <=> k.inputs[i].id <= cut
    BY <1>3
  <2> HIDE DEF ids, cut
  <2>2. LET L == Outside(k, ids) IN
         /\ L \in Inputs
         /\ Len(L) <= Len(k.inputs) /\ Len(L) + cut <= k.sent
         /\ Len(L) = Len(k.inputs) \/ Len(L) + cut = k.sent
         /\ \A i \in 1..Len(L) :
              /\ L[i].id + Len(L) = k.sent + i
              /\ L[i].submitted <=> L[i].id <= Len(k.heard) + Len(k.steering)
    BY <1>1, <1>2, <2>1, OutsideRest
  <2> QED BY <2>2 DEF ids
<1>5. j = [k EXCEPT !.inputs = J, !.heard = H, !.steering = <<>>]
  BY DEF Drained
<1>6. /\ H \in Seq(Nat) /\ Len(H) = cut
      /\ \A i \in 1..h : H[i] = k.heard[i]
      /\ \A i \in h + 1..h + q : H[i] = k.steering[i - h]
  <2> DEFINE s == k.heard
             w == k.steering
  <2>1. s \in Seq(Nat) /\ w \in Seq(Nat) /\ h = Len(s) /\ q = Len(w) /\ q \in Nat /\ h \in Nat
    BY <1>1
  <2> HIDE DEF s, w, q, h
  <2>2. /\ s \o w \in Seq(Nat) /\ Len(s \o w) = h + q
        /\ \A i \in 1..h : (s \o w)[i] = s[i]
        /\ \A i \in h + 1..h + q : (s \o w)[i] = w[i - h]
    BY <2>1, Joined
  <2> QED BY <2>2 DEF s, w
<1> HIDE DEF J, H
<1>7. /\ j.status = k.status /\ j.parent = k.parent /\ j.depth = k.depth
      /\ j.phase = k.phase /\ j.aborted = k.aborted /\ j.outcome = k.outcome
      /\ j.permit = k.permit /\ j.sent = k.sent /\ j.heard = H
      /\ j.inputs = J /\ j.steering = <<>>
  BY <1>5 DEF Member
<1>8. j \in Member
  <2>1. <<>> \in Seq(Nat)
    OBVIOUS
  <2> QED BY <2>1, <1>4, <1>5, <1>6 DEF Member
<1> HIDE DEF j
<1>9. Len(j.inputs) \in Nat /\ Len(J) <= k.sent
  <2>1. Len(J) \in Nat
    BY <1>4, InputsElements
  <2> HIDE DEF cut
  <2> QED BY <2>1, <1>1, <1>2, <1>4, <1>7
<1>10. Len(j.heard) = cut /\ Len(j.steering) = 0
  BY <1>6, <1>7
<1>11. Numbered(j)
  <2>1. ASSUME NEW i \in 1..Len(j.heard) PROVE j.heard[i] = i
    <3>1. i \in 1..cut
      BY <1>10
    <3>2. CASE i \in 1..h
      BY <3>2, <1>6, <1>7 DEF Numbered
    <3>3. CASE i \in h + 1..h + q
      <4>1. i - h \in 1..q
        <5> HIDE DEF h, q
        <5> QED BY <3>3, <1>1
      <4>2. H[i] = h + (i - h)
        BY <4>1, <3>3, <1>6 DEF Numbered
      <4>3. h + (i - h) = i
        <5> HIDE DEF h, q
        <5> QED BY <3>3, <1>1
      <4> QED BY <4>2, <4>3, <1>7
    <3> HIDE DEF h, q
    <3> QED BY <3>1, <3>2, <3>3, <1>1
  <2>2. \A i \in 1..Len(j.steering) : j.steering[i] = Len(j.heard) + i
    BY <1>10
  <2>3. Len(j.heard) + Len(j.steering) = cut
    BY <1>10, <1>2
  <2>4. Len(j.heard) + Len(j.steering) <= j.sent /\ Len(j.inputs) <= j.sent
    <3> HIDE DEF cut
    <3> QED BY <2>3, <1>2, <1>7, <1>9
  <2>5. \A i \in 1..Len(j.inputs) :
          /\ j.inputs[i].id + Len(j.inputs) = j.sent + i
          /\ j.inputs[i].submitted <=> j.inputs[i].id <= Len(j.heard) + Len(j.steering)
    BY <1>4, <1>7, <2>3
  <2> QED BY <2>1, <2>2, <2>4, <2>5 DEF Numbered
<1>12. SameBut(k, j)
  BY <1>7 DEF SameBut
<1>13. Len(j.inputs) <= Len(k.inputs) /\ Len(j.inputs) + Len(j.heard) <= j.sent
  <2> HIDE DEF cut
  <2> QED BY <1>4, <1>7, <1>10
<1>14. Len(j.heard) = Len(k.heard) + Len(k.steering)
  BY <1>10
<1> QED BY <1>7, <1>8, <1>11, <1>12, <1>13, <1>14 DEF j

\* The phases, one by one.
LEMMA PhasesAre ==
  /\ Phases = {"none", "launched", "acquiring", "turn", "returned", "refused", "leaving",
               "waiting", "children", "asking", "rewaiting", "rechildren", "reasking"}
  /\ Yielded = {"waiting", "children", "asking"}
  /\ Range(Resumption) = {"rewaiting", "rechildren", "reasking"}
  /\ Resumption["waiting"] = "rewaiting" /\ Resumption["children"] = "rechildren"
  /\ Resumption["asking"] = "reasking"
<1>1. Yielded = {"waiting", "children", "asking"}
  BY DEF Yielded, Resumption
<1>2. /\ Resumption["waiting"] = "rewaiting" /\ Resumption["children"] = "rechildren"
      /\ Resumption["asking"] = "reasking"
  BY DEF Resumption
<1>3. Range(Resumption) = {"rewaiting", "rechildren", "reasking"}
  <2>1. DOMAIN Resumption = {"waiting", "children", "asking"}
    BY <1>1 DEF Yielded
  <2> QED BY <2>1, <1>2 DEF Range
<1>4. DOMAIN Returned = {"returned", "refused"}
  BY DEF Returned
<1> QED BY <1>1, <1>2, <1>3, <1>4 DEF Phases

\* A member is sent a message more.
Pushed(k) ==
  [k EXCEPT !.inputs = Append(@, [id |-> k.sent + 1, submitted |-> FALSE]), !.sent = k.sent + 1]

\* It is the last of the inbox.
LEMMA PushedNumbered ==
  ASSUME NEW k \in Member, Numbered(k)
  PROVE  LET j == Pushed(k) IN
         /\ j \in Member /\ Numbered(j) /\ SameBut(k, j)
         /\ j.sent = k.sent + 1 /\ j.steering = k.steering /\ j.heard = k.heard
         /\ Len(j.inputs) = Len(k.inputs) + 1
<1> DEFINE n == k.sent
           l == Len(k.inputs)
           b == Len(k.heard) + Len(k.steering)
           Rec == [id : Nat, submitted : BOOLEAN]
           e == [id |-> n + 1, submitted |-> FALSE]
           J == Append(k.inputs, e)
           j == Pushed(k)
<1>1. k.inputs \in Seq(Rec) /\ n \in Nat /\ l \in Nat /\ b \in Nat
  <2>1. /\ k.inputs \in Inputs /\ n \in Nat /\ l \in Nat
        /\ Len(k.heard) \in Nat /\ Len(k.steering) \in Nat
    BY Fields
  <2>2. b \in Nat
    <3>1. \A x, y \in Nat : x + y \in Nat
      OBVIOUS
    <3> QED BY <2>1, <3>1, Zenon
  <2> QED BY <2>1, <2>2 DEF Inputs
<1>2. l <= n /\ b <= n
  BY DEF Numbered
<1>3. e \in Rec /\ e.id = n + 1 /\ e.submitted = FALSE
  BY <1>1
<1>4. \A i \in 1..l : /\ k.inputs[i].id \in Nat /\ k.inputs[i].id + l = n + i
                      /\ k.inputs[i].submitted <=> k.inputs[i].id <= b
  BY FirstNumber DEF Numbered
<1> HIDE DEF e, Rec
<1>5. /\ J \in Seq(Rec) /\ Len(J) = l + 1
      /\ \A i \in 1..l : J[i] = k.inputs[i]
      /\ J[l + 1] = e
  BY <1>1, <1>3, AppendProperties
<1>6. j = [k EXCEPT !.inputs = J, !.sent = n + 1]
  BY DEF Pushed, e
<1> HIDE DEF J
<1>7. /\ j.status = k.status /\ j.parent = k.parent /\ j.depth = k.depth
      /\ j.phase = k.phase /\ j.aborted = k.aborted /\ j.outcome = k.outcome
      /\ j.permit = k.permit /\ j.sent = n + 1 /\ j.heard = k.heard
      /\ j.inputs = J /\ j.steering = k.steering
  BY <1>6 DEF Member
<1>8. j \in Member
  <2>1. J \in Inputs /\ n + 1 \in Nat
    BY <1>1, <1>5 DEF Inputs, Rec
  <2> HIDE DEF n
  <2> QED BY <1>6, <2>1 DEF Member
<1> HIDE DEF j
<1>9. Numbered(j)
  <2>1. /\ \A i \in 1..Len(j.heard) : j.heard[i] = i
        /\ \A i \in 1..Len(j.steering) : j.steering[i] = Len(j.heard) + i
    BY <1>7 DEF Numbered
  <2>2. Len(j.heard) + Len(j.steering) = b /\ Len(j.inputs) = l + 1 /\ j.sent = n + 1
    BY <1>5, <1>7
  <2>3. Len(j.heard) + Len(j.steering) <= j.sent
    <3> HIDE DEF b, n
    <3>1. b <= n + 1
      BY <1>1, <1>2
    <3> QED BY <3>1, <2>2, Zenon
  <2>4. Len(j.inputs) <= j.sent
    <3> HIDE DEF l, n
    <3>1. l + 1 <= n + 1
      BY <1>1, <1>2
    <3> QED BY <3>1, <2>2, Zenon
  <2>5. ASSUME NEW i \in 1..l + 1
        PROVE  /\ j.inputs[i].id + (l + 1) = (n + 1) + i
               /\ j.inputs[i].submitted <=> j.inputs[i].id <= b
    <3>1. CASE i \in 1..l
      <4> DEFINE x == k.inputs[i].id
      <4>1. /\ j.inputs[i].id = x /\ x \in Nat /\ x + l = n + i
            /\ j.inputs[i].submitted <=> x <= b
        BY <3>1, <1>4, <1>5, <1>7
      <4> HIDE DEF x, l, n, b
      <4>2. x + (l + 1) = (n + 1) + i
        BY <4>1, <1>1, <3>1
      <4> QED BY <4>1, <4>2
    <3>2. CASE i = l + 1
      <4>1. j.inputs[i].id = n + 1 /\ j.inputs[i].submitted = FALSE
        BY <3>2, <1>3, <1>5, <1>7
      <4>2. ~(n + 1 <= b)
        <5> HIDE DEF n, b
        <5> QED BY <1>1, <1>2
      <4>3. (n + 1) + (l + 1) = (n + 1) + i
        BY <3>2
      <4> HIDE DEF n, b, l
      <4> QED BY <4>1, <4>2, <4>3
    <3>3. i \in 1..l \/ i = l + 1
      <4> HIDE DEF l
      <4> QED BY <1>1
    <3> QED BY <3>1, <3>2, <3>3, Zenon
  <2>6. \A i \in 1..Len(j.inputs) :
          /\ j.inputs[i].id + Len(j.inputs) = j.sent + i
          /\ j.inputs[i].submitted <=> j.inputs[i].id <= Len(j.heard) + Len(j.steering)
    <3> HIDE DEF l, n, b
    <3> QED BY <2>2, <2>5, Zenon
  <2> QED BY <2>1, <2>3, <2>4, <2>6 DEF Numbered
<1>10. SameBut(k, j) /\ Len(j.inputs) = Len(k.inputs) + 1
  BY <1>5, <1>7 DEF SameBut
<1> QED BY <1>7, <1>8, <1>9, <1>10 DEF j

\* A member without a task gets one.
Launched(k) ==
  IF k.phase # "none" \/ team \in {"closed", "settled"} \/ k.aborted THEN k
  ELSE [k EXCEPT !.status = "queued", !.phase = "launched"]

\* A member with something in its inbox that no run has can be launched.
LEMMA LaunchedSound ==
  ASSUME NEW k, Sound(k), k.status # "none", k.inputs # <<>>
  PROVE  LET j == Launched(k) IN
         /\ Sound(j)
         /\ j.parent = k.parent /\ j.depth = k.depth /\ j.permit = k.permit
         /\ j.aborted = k.aborted /\ j.inputs = k.inputs /\ j.heard = k.heard
         /\ j.sent = k.sent /\ j.steering = k.steering
         /\ j.status # "none" /\ (Halted(j) => Halted(k))
         /\ k.status # "failed" => (Halted(j) <=> Halted(k))
         /\ k.phase # "none" => j = k
<1> DEFINE j == Launched(k)
<1>1. CASE j = k
  BY <1>1
<1>2. CASE ~(k.phase # "none" \/ team \in {"closed", "settled"} \/ k.aborted)
  <2>1. k \in Member /\ Numbered(k) /\ Alive(k) /\ Continuous(k) /\ Placed(k)
    BY <1>2 DEF Sound, Alive
  <2>2. j = [k EXCEPT !.status = "queued", !.phase = "launched"]
    BY <1>2 DEF Launched
  <2>3. /\ j.status = "queued" /\ j.parent = k.parent /\ j.depth = k.depth
        /\ j.phase = "launched" /\ j.aborted = k.aborted /\ j.outcome = k.outcome
        /\ j.permit = k.permit /\ j.sent = k.sent /\ j.heard = k.heard
        /\ j.inputs = k.inputs /\ j.steering = k.steering
    BY <2>1, <2>2 DEF Member
  <2>4. j \in Member
    BY <2>1, <2>2, PhasesAre DEF Member, Statuses, Busy
  <2> HIDE DEF j
  <2>5. Numbered(j)
    BY <2>1, <2>3 DEF Numbered
  <2>6. Continuous(j)
    BY <1>2, <2>1, <2>3 DEF Continuous, Steerable
  <2>7. Placed(j)
    BY <1>2, <2>1, <2>3 DEF Placed
  <2>8. Sound(j)
    BY <2>4, <2>5, <2>6, <2>7 DEF Sound
  <2>9. Halted(j) => Halted(k)
    BY <2>3 DEF Halted
  <2>10. k.status # "failed" => (Halted(j) <=> Halted(k))
    BY <1>2, <2>3 DEF Halted
  <2> QED BY <1>2, <2>3, <2>8, <2>9, <2>10 DEF j
<1> QED BY <1>1, <1>2 DEF Launched

\* enqueue(), for the member it is about.
Enqueued(k) == Launched(Steered(Pushed(k)))

\* A message goes to the end of what the member will hear.
LEMMA EnqueuedSound ==
  ASSUME NEW k, Sound(k), k.status # "none", Len(k.inputs) < MaxPending
  PROVE  LET j == Enqueued(k) IN
         /\ Sound(j)
         /\ j.parent = k.parent /\ j.depth = k.depth /\ j.permit = k.permit
         /\ j.aborted = k.aborted
         /\ j.status # "none" /\ (Halted(j) => Halted(k))
         /\ k.status # "failed" => (Halted(j) <=> Halted(k))
         /\ k.phase # "none" => j.phase = k.phase
         /\ Len(k.inputs) + Len(k.heard) <= k.sent => Len(j.inputs) + Len(j.heard) <= j.sent
<1> DEFINE p == Pushed(k)
           s == Steered(p)
           j == Launched(s)
           n == k.sent
           l == Len(k.inputs)
           h == Len(k.heard)
           q == Len(k.steering)
<1>1. k \in Member /\ Numbered(k) /\ Placed(k) /\ (Alive(k) => Continuous(k))
  BY DEF Sound
<1>2. n \in Nat /\ l \in Nat /\ h \in Nat /\ q \in Nat
  BY <1>1, Fields
<1>3. /\ p \in Member /\ Numbered(p) /\ SameBut(k, p)
      /\ p.sent = n + 1 /\ p.steering = k.steering /\ p.heard = k.heard
      /\ Len(p.inputs) = l + 1
  BY <1>1, PushedNumbered
<1> HIDE DEF p
<1>4. l + 1 <= MaxPending
  BY <1>2, Limits
<1>5. Sound(s) /\ SameBut(k, s) /\ s.heard = k.heard /\ s.sent = n + 1 /\ Len(s.inputs) = l + 1
  <2>1. CASE p.phase \notin Steerable \/ p.aborted
    <3>1. s = p
      BY <2>1 DEF Steered
    <3>2. Alive(p) => Continuous(p)
      <4> SUFFICES ASSUME Alive(p) PROVE Continuous(p)
        OBVIOUS
      <4>1. Alive(k) /\ Continuous(k) /\ p.phase \notin Steerable /\ p.phase = k.phase
        BY <1>1, <1>3, <2>1 DEF Alive, SameBut
      <4>2. p.sent <= Len(p.inputs) + Len(p.heard) + Len(p.steering)
        <5>1. n <= l + h + q /\ Len(p.heard) = h /\ Len(p.steering) = q
          BY <4>1, <1>3 DEF Continuous
        <5> HIDE DEF n, l, h, q
        <5>2. n + 1 <= (l + 1) + h + q
          BY <5>1, <1>2
        <5> QED BY <5>1, <5>2, <1>3, Zenon
      <4>3. p.phase # "turn" => Len(p.inputs) + Len(p.heard) <= p.sent
        <5>1. k.phase # "turn" => l + h <= n
          BY <4>1 DEF Continuous
        <5>2. Len(p.heard) = h
          BY <1>3
        <5> HIDE DEF n, l, h, q
        <5>3. l + h <= n => (l + 1) + h <= n + 1
          BY <1>2
        <5> QED BY <5>1, <5>2, <5>3, <4>1, <1>3, Zenon
      <4>4. p.phase \notin Steerable \cup {"asking", "reasking", "refused"} => p.steering = <<>>
        BY <4>1, <1>3 DEF Continuous
      <4>5. p.inputs # <<>>
        BY <1>2, <1>3
      <4> QED BY <4>1, <4>2, <4>3, <4>4, <4>5 DEF Continuous
    <3>3. Placed(p)
      BY <1>1, <1>3, <1>4 DEF Placed, SameBut
    <3> QED BY <3>1, <3>2, <3>3, <1>3 DEF Sound
  <2>2. CASE ~(p.phase \notin Steerable \/ p.aborted)
    <3>1. Alive(k) /\ Continuous(k) /\ p.phase = k.phase /\ Alive(p)
      BY <1>1, <1>3, <2>2 DEF Alive, SameBut
    <3>2. p.sent <= Len(p.inputs) + Len(p.heard) + Len(p.steering)
      <4>1. n <= l + h + q /\ Len(p.heard) = h /\ Len(p.steering) = q
        BY <3>1, <1>3 DEF Continuous
      <4> HIDE DEF n, l, h, q
      <4>2. n + 1 <= (l + 1) + h + q
        BY <4>1, <1>2
      <4> QED BY <4>1, <4>2, <1>3, Zenon
    <3>3. /\ s \in Member /\ Numbered(s) /\ SameBut(p, s)
          /\ s.sent = p.sent /\ s.heard = p.heard /\ Len(s.inputs) = Len(p.inputs)
          /\ s.sent = Len(s.heard) + Len(s.steering)
      BY <1>3, <2>2, <3>2, SteeredNumbered
    <3> HIDE DEF s
    <3>4. SameBut(k, s)
      BY <3>3, <1>3 DEF SameBut
    <3>5. Continuous(s)
      <4> DEFINE a == Len(s.heard)
                 c == Len(s.steering)
                 d == Len(s.inputs)
      <4>1. a \in Nat /\ c \in Nat /\ d \in Nat /\ s.sent = a + c /\ s.phase = k.phase
        BY <3>3, <3>4, Fields DEF SameBut
      <4>2. s.sent <= d + a + c
        <5> HIDE DEF a, c, d
        <5> QED BY <4>1
      <4>3. s.phase # "turn" => d + a <= s.sent
        <5>1. k.phase # "turn" => l + h <= n
          BY <3>1 DEF Continuous
        <5>2. d = l + 1 /\ a = h /\ s.sent = n + 1
          BY <3>3, <1>3
        <5> HIDE DEF n, l, h, q, a, d
        <5>3. l + h <= n => (l + 1) + h <= n + 1
          BY <1>2
        <5> QED BY <5>1, <5>2, <5>3, <4>1, Zenon
      <4>4. s.phase \in Steerable
        BY <4>1, <3>1, <2>2
      <4> QED BY <4>1, <4>2, <4>3, <4>4 DEF Continuous, Steerable
    <3>6. Placed(s)
      BY <3>3, <3>4, <1>1, <1>3, <1>4 DEF Placed, SameBut
    <3> QED BY <3>3, <3>4, <3>5, <3>6, <1>3 DEF Sound
  <2> QED BY <2>1, <2>2
<1> HIDE DEF s
<1>6. s.inputs # <<>> /\ s.status # "none" /\ s.status = k.status /\ (Halted(s) <=> Halted(k))
  BY <1>2, <1>5 DEF SameBut, Halted
<1>7. /\ Sound(j)
      /\ j.parent = s.parent /\ j.depth = s.depth /\ j.permit = s.permit
      /\ j.aborted = s.aborted /\ j.inputs = s.inputs /\ j.heard = s.heard
      /\ j.sent = s.sent
      /\ j.status # "none" /\ (Halted(j) => Halted(s))
      /\ s.status # "failed" => (Halted(j) <=> Halted(s))
      /\ s.phase # "none" => j = s
  BY <1>5, <1>6, LaunchedSound
<1> HIDE DEF j
<1>8. Len(k.inputs) + Len(k.heard) <= k.sent => Len(j.inputs) + Len(j.heard) <= j.sent
  <2>1. Len(j.inputs) = l + 1 /\ Len(j.heard) = h /\ j.sent = n + 1
    BY <1>5, <1>7
  <2>2. l + h <= n => (l + 1) + h <= n + 1
    <3> HIDE DEF n, l, h
    <3> QED BY <1>2
  <2> QED BY <2>1, <2>2, Zenon
<1>9. j = Enqueued(k)
  BY DEF Enqueued, j, s, p
<1> QED BY <1>5, <1>6, <1>7, <1>8, <1>9 DEF SameBut

\* What a run has heard has left the inbox.
Heard(k) == Len(k.inputs) + Len(k.heard) <= k.sent

\* The model is called.
LEMMA ReadSound ==
  ASSUME NEW k, Sound(k), k.phase = "turn"
  PROVE  LET j == Read(k) IN
         Sound(j) /\ SameBut(k, j) /\ Heard(j) /\ Len(j.inputs) <= Len(k.inputs)
<1> DEFINE j == Read(k)
           n == k.sent
           h == Len(k.heard)
           q == Len(k.steering)
           l == Len(k.inputs)
           p == Len(j.inputs)
<1>1. k \in Member /\ Numbered(k) /\ Placed(k) /\ (Alive(k) => Continuous(k))
  BY DEF Sound
<1>2. /\ j \in Member /\ Numbered(j) /\ SameBut(k, j)
      /\ j.sent = n /\ j.heard = k.heard /\ j.steering = k.steering
      /\ p <= l /\ p + Len(j.heard) <= j.sent
      /\ p = l \/ p + Len(j.heard) = j.sent
  BY <1>1, ReadNumbered
<1> HIDE DEF j
<1>3. n \in Nat /\ h \in Nat /\ q \in Nat /\ l \in Nat /\ p \in Nat
  BY <1>1, <1>2, Fields
<1>4. Heard(j)
  BY <1>2 DEF Heard
<1>5. Alive(j) => Continuous(j)
  <2> SUFFICES ASSUME Alive(j) PROVE Continuous(j)
    OBVIOUS
  <2>1. Continuous(k)
    BY <1>1, <1>2 DEF Alive, SameBut
  <2>2. n <= l + h + q /\ n = h + q
    BY <2>1 DEF Continuous, Steerable
  <2>3. Len(j.heard) = h /\ Len(j.steering) = q /\ j.phase = "turn"
    BY <1>2 DEF SameBut
  <2>4. n <= p + h + q
    <3> HIDE DEF n, l, h, q, p
    <3> QED BY <2>2, <1>3
  <2> QED BY <1>2, <2>2, <2>3, <2>4 DEF Continuous, Steerable
<1>6. Placed(j)
  <2>1. p <= MaxPending
    <3>1. l <= MaxPending
      BY <1>1 DEF Placed
    <3> HIDE DEF l, p
    <3> QED BY <1>2, <1>3, <3>1, Limits
  <2> QED BY <1>1, <1>2, <2>1 DEF Placed, SameBut
<1> QED BY <1>2, <1>4, <1>5, <1>6 DEF Sound, j

\* A run takes what it was steered with.
LEMMA DrainedSound ==
  ASSUME NEW k, k \in Member, Numbered(k), Placed(k), Heard(k), k.phase = "turn",
         k.sent = Len(k.heard) + Len(k.steering)
  PROVE  LET j == Drained(k) IN
         Sound(j) /\ SameBut(k, j) /\ j.steering = <<>>
<1> DEFINE j == Drained(k)
           n == k.sent
           h == Len(j.heard)
           l == Len(k.inputs)
           p == Len(j.inputs)
<1>1. /\ j \in Member /\ Numbered(j) /\ SameBut(k, j)
      /\ j.sent = n /\ j.steering = <<>>
      /\ h = Len(k.heard) + Len(k.steering)
      /\ p <= l /\ p + h <= j.sent
  BY DrainedNumbered DEF Heard
<1> HIDE DEF j
<1>2. n \in Nat /\ h \in Nat /\ l \in Nat /\ p \in Nat
  BY <1>1, Fields
<1>3. Continuous(j)
  <2>1. n = h /\ Len(j.steering) = 0 /\ j.phase = "turn"
    BY <1>1 DEF SameBut
  <2>2. n <= p + h + 0 /\ n = h + 0
    <3> HIDE DEF n, h, p
    <3> QED BY <2>1, <1>2
  <2> QED BY <1>1, <2>1, <2>2 DEF Continuous, Steerable
<1>4. Placed(j)
  <2>1. p <= MaxPending
    <3>1. l <= MaxPending
      BY DEF Placed
    <3> HIDE DEF l, p
    <3> QED BY <1>1, <1>2, <3>1, Limits
  <2> QED BY <1>1, <2>1 DEF Placed, SameBut
<1> QED BY <1>1, <1>3, <1>4 DEF Sound, j

\* A task that fails or was aborted is over.
Caught(k) ==
  [k EXCEPT !.status = IF k.aborted THEN "cancelled" ELSE "failed", !.inputs = <<>>,
            !.steering = <<>>, !.sent = Len(k.heard), !.phase = "leaving"]

\* A blocked run.
Blocked(k) ==
  [k EXCEPT !.outcome = "blocked", !.status = "failed", !.phase = "leaving", !.inputs = <<>>,
            !.steering = <<>>, !.sent = Len(k.heard)]

\* An inbox that is empty fits every member.
LEMMA EmptyNumbered ==
  ASSUME NEW k \in Member, Numbered(k), NEW j, j.heard = k.heard, j.sent = k.sent,
         j.inputs = <<>>, j.steering = <<>> \/ j.steering = k.steering
  PROVE  Numbered(j)
<1>1. Len(k.heard) \in Nat /\ Len(k.steering) \in Nat /\ k.sent \in Nat
  BY Fields
<1>2. Len(k.heard) + Len(k.steering) <= k.sent
  BY DEF Numbered
<1>3. Len(j.heard) + Len(j.steering) <= j.sent
  <2>1. CASE j.steering = k.steering
    BY <2>1, <1>2
  <2>2. CASE j.steering = <<>>
    <3> DEFINE h == Len(k.heard)
               q == Len(k.steering)
               n == k.sent
    <3>1. Len(j.heard) = h /\ Len(j.steering) = 0 /\ j.sent = n
      BY <2>2
    <3>2. h \in Nat /\ q \in Nat /\ n \in Nat /\ h + q <= n
      BY <1>1, <1>2
    <3> HIDE DEF h, q, n
    <3>3. h + 0 <= n
      BY <3>2
    <3> QED BY <3>1, <3>3, Zenon
  <2> QED BY <2>1, <2>2
<1>4. Len(j.inputs) = 0 /\ Len(j.inputs) <= j.sent
  BY <1>1
<1>5. \A i \in 1..Len(j.steering) : j.steering[i] = Len(j.heard) + i
  BY DEF Numbered
<1>6. \A i \in 1..Len(j.heard) : j.heard[i] = i
  BY DEF Numbered
<1>7. \A i \in 1..Len(j.inputs) :
        /\ j.inputs[i].id + Len(j.inputs) = j.sent + i
        /\ j.inputs[i].submitted <=> j.inputs[i].id <= Len(j.heard) + Len(j.steering)
  BY <1>4
<1> QED BY <1>3, <1>4, <1>5, <1>6, <1>7, Zenon DEF Numbered

\* So does one whose numbers are used again.
LEMMA DroppedNumbered ==
  ASSUME NEW k \in Member, Numbered(k), NEW j, j.heard = k.heard, j.sent = Len(k.heard),
         j.inputs = <<>>, j.steering = <<>>
  PROVE  Numbered(j)
<1>1. Len(k.heard) \in Nat
  BY Fields
<1>2. /\ Len(j.inputs) = 0 /\ Len(j.steering) = 0 /\ Len(j.heard) \in Nat
      /\ j.sent = Len(j.heard)
  BY <1>1
<1>3. Len(j.heard) + Len(j.steering) <= j.sent /\ Len(j.inputs) <= j.sent
  BY <1>2
<1>4. \A i \in 1..Len(j.heard) : j.heard[i] = i
  BY DEF Numbered
<1>5. /\ \A i \in 1..Len(j.steering) : j.steering[i] = Len(j.heard) + i
      /\ \A i \in 1..Len(j.inputs) :
           /\ j.inputs[i].id + Len(j.inputs) = j.sent + i
           /\ j.inputs[i].submitted <=> j.inputs[i].id <= Len(j.heard) + Len(j.steering)
  BY <1>2
<1> QED BY <1>3, <1>4, <1>5, Zenon DEF Numbered

\* Who has failed has nothing left to hear.
LEMMA CaughtSound ==
  ASSUME NEW k, Sound(k)
  PROVE  LET j == Caught(k) IN
         /\ Sound(j) /\ j.parent = k.parent /\ j.depth = k.depth /\ j.permit = k.permit
         /\ Halted(j) /\ j.status # "none"
<1> DEFINE j == Caught(k)
<1>1. k \in Member /\ Numbered(k) /\ Placed(k)
  BY DEF Sound
<1>2. /\ j.status = (IF k.aborted THEN "cancelled" ELSE "failed") /\ j.parent = k.parent
      /\ j.depth = k.depth /\ j.phase = "leaving" /\ j.aborted = k.aborted
      /\ j.permit = k.permit /\ j.sent = Len(k.heard) /\ j.heard = k.heard
      /\ j.inputs = <<>> /\ j.steering = <<>>
  BY <1>1 DEF Member, Caught, Blocked
<1>3. j \in Member
  <2>1. <<>> \in Inputs /\ <<>> \in Seq(Nat) /\ "leaving" \in Phases
        /\ {"cancelled", "failed"} \subseteq Statuses
    BY PhasesAre DEF Inputs, Statuses, Stopped
  <2>2. Len(k.heard) \in Nat
    BY <1>1, Fields
  <2> QED BY <1>1, <2>1, <2>2 DEF Member, Caught, Blocked
<1> HIDE DEF j
<1>4. Numbered(j)
  BY <1>1, <1>2, DroppedNumbered
<1>5. Continuous(j)
  <2>1. Len(j.inputs) = 0 /\ Len(j.steering) = 0 /\ Len(j.heard) \in Nat /\ j.sent = Len(j.heard)
    BY <1>1, <1>2, Fields
  <2>2. /\ j.sent <= Len(j.inputs) + Len(j.heard) + Len(j.steering)
        /\ Len(j.inputs) + Len(j.heard) <= j.sent
    BY <2>1
  <2> QED BY <2>2, <1>2 DEF Continuous, Steerable
<1>6. Placed(j)
  <2>1. Len(j.inputs) <= MaxPending
    BY <1>2, Limits
  <2> QED BY <1>2, <2>1 DEF Placed
<1>7. Halted(j) /\ j.status # "none"
  BY <1>2 DEF Halted
<1> QED BY <1>2, <1>3, <1>4, <1>5, <1>6, <1>7 DEF Sound, j

\* Nor has who was blocked.
LEMMA BlockedSound ==
  ASSUME NEW k, Sound(k)
  PROVE  LET j == Blocked(k) IN
         /\ Sound(j) /\ j.parent = k.parent /\ j.depth = k.depth /\ j.permit = k.permit
         /\ Halted(j) /\ j.status # "none"
<1> DEFINE j == Blocked(k)
<1>1. k \in Member /\ Numbered(k) /\ Placed(k)
  BY DEF Sound
<1>2. /\ j.status = "failed" /\ j.parent = k.parent
      /\ j.depth = k.depth /\ j.phase = "leaving" /\ j.aborted = k.aborted
      /\ j.permit = k.permit /\ j.sent = Len(k.heard) /\ j.heard = k.heard
      /\ j.inputs = <<>> /\ j.steering = <<>>
  BY <1>1 DEF Member, Caught, Blocked
<1>3. j \in Member
  <2>1. <<>> \in Inputs /\ <<>> \in Seq(Nat) /\ "leaving" \in Phases /\ "failed" \in Statuses
    BY PhasesAre DEF Inputs, Statuses, Stopped
  <2>2. Len(k.heard) \in Nat
    BY <1>1, Fields
  <2> QED BY <1>1, <2>1, <2>2 DEF Member, Caught, Blocked
<1> HIDE DEF j
<1>4. Numbered(j)
  BY <1>1, <1>2, DroppedNumbered
<1>5. Continuous(j)
  <2>1. Len(j.inputs) = 0 /\ Len(j.steering) = 0 /\ Len(j.heard) \in Nat /\ j.sent = Len(j.heard)
    BY <1>1, <1>2, Fields
  <2>2. /\ j.sent <= Len(j.inputs) + Len(j.heard) + Len(j.steering)
        /\ Len(j.inputs) + Len(j.heard) <= j.sent
    BY <2>1
  <2> QED BY <2>2, <1>2 DEF Continuous, Steerable
<1>6. Placed(j)
  <2>1. Len(j.inputs) <= MaxPending
    BY <1>2, Limits
  <2> QED BY <1>2, <2>1 DEF Placed
<1>7. Halted(j) /\ j.status # "none"
  BY <1>2 DEF Halted
<1> QED BY <1>2, <1>3, <1>4, <1>5, <1>6, <1>7 DEF Sound, j

\* Nor has who is cancelled.
LEMMA StoppedSound ==
  ASSUME NEW k, Sound(k), k.status # "none"
  PROVE  LET j == stopMember(k) IN
         /\ Sound(j) /\ j.parent = k.parent /\ j.depth = k.depth /\ j.permit = k.permit
         /\ j.status = "cancelled" /\ j.phase = k.phase /\ j.aborted
<1> DEFINE j == stopMember(k)
<1>1. k \in Member /\ Numbered(k) /\ Placed(k)
  BY DEF Sound
<1>2. CASE k.status = "cancelled"
  BY <1>1, <1>2 DEF stopMember, Placed
<1>3. CASE k.status # "cancelled"
  <2>1. j = [k EXCEPT !.status = "cancelled", !.inputs = <<>>, !.aborted = TRUE]
    BY <1>3 DEF stopMember
  <2>2. /\ j.status = "cancelled" /\ j.parent = k.parent
        /\ j.depth = k.depth /\ j.phase = k.phase /\ j.aborted = TRUE
        /\ j.permit = k.permit /\ j.sent = k.sent /\ j.heard = k.heard
        /\ j.inputs = <<>> /\ j.steering = k.steering
    BY <1>1, <2>1 DEF Member
  <2>3. j \in Member
    <3>1. <<>> \in Inputs /\ "cancelled" \in Statuses
      BY DEF Inputs, Statuses, Stopped
    <3> QED BY <1>1, <2>1, <3>1 DEF Member
  <2> HIDE DEF j
  <2>4. Numbered(j)
    BY <1>1, <2>2, EmptyNumbered
  <2>5. ~Alive(j)
    BY <2>2 DEF Alive
  <2>6. Placed(j)
    <3>1. Len(j.inputs) <= MaxPending
      BY <2>2, Limits
    <3> QED BY <1>1, <2>2, <3>1 DEF Placed
  <2> QED BY <2>2, <2>3, <2>4, <2>5, <2>6 DEF Sound, j
<1> QED BY <1>2, <1>3

\* A run that ended with an answer.
Idle(k) == [k EXCEPT !.outcome = "response", !.status = "idle", !.phase = "leaving"]

\* It has heard all that it was steered with.
LEMMA IdleSound ==
  ASSUME NEW k, Sound(k), k.status \notin {"failed", "none"},
         Alive(k) => Heard(k) /\ k.steering = <<>>
  PROVE  LET j == Idle(k) IN
         /\ Sound(j) /\ j.parent = k.parent /\ j.depth = k.depth /\ j.permit = k.permit
         /\ j.status = "idle" /\ j.aborted = k.aborted
<1> DEFINE j == Idle(k)
<1>1. k \in Member /\ Numbered(k) /\ Placed(k) /\ (Alive(k) => Continuous(k))
  BY DEF Sound
<1>2. /\ j.status = "idle" /\ j.parent = k.parent
      /\ j.depth = k.depth /\ j.phase = "leaving" /\ j.aborted = k.aborted
      /\ j.permit = k.permit /\ j.sent = k.sent /\ j.heard = k.heard
      /\ j.inputs = k.inputs /\ j.steering = k.steering
  BY <1>1 DEF Member, Idle
<1>3. j \in Member
  <2>1. "leaving" \in Phases /\ "idle" \in Statuses
    BY PhasesAre DEF Statuses
  <2> QED BY <1>1, <2>1 DEF Member, Idle
<1> HIDE DEF j
<1>4. Numbered(j)
  BY <1>1, <1>2 DEF Numbered
<1>5. Alive(j) => Continuous(j)
  <2> SUFFICES ASSUME Alive(j) PROVE Continuous(j)
    OBVIOUS
  <2>1. Alive(k) /\ Heard(k) /\ k.steering = <<>> /\ Continuous(k)
    BY <1>1, <1>2 DEF Alive
  <2>2. Len(j.inputs) + Len(j.heard) <= j.sent
    BY <2>1, <1>2 DEF Heard
  <2>3. j.sent <= Len(j.inputs) + Len(j.heard) + Len(j.steering)
    BY <2>1, <1>2 DEF Continuous
  <2> QED BY <2>1, <2>2, <2>3, <1>2 DEF Continuous, Steerable
<1>6. Placed(j)
  BY <1>1, <1>2 DEF Placed
<1> QED BY <1>2, <1>3, <1>4, <1>5, <1>6 DEF Sound, j

\* A member gives its permit back to wait.
Yielding(k, phase) ==
  [k EXCEPT !.permit = FALSE, !.phase = phase,
            !.status = IF phase = "asking" THEN "awaiting_interaction" ELSE "waiting"]

\* It can hear what it is sent when it waits.
LEMMA YieldingSound ==
  ASSUME NEW k, Sound(k), k.phase = "turn", ~k.aborted, Heard(k), NEW phase \in Yielded
  PROVE  LET j == Yielding(k, phase) IN
         /\ Sound(j) /\ j.parent = k.parent /\ j.depth = k.depth /\ j.permit = FALSE
         /\ ~Halted(j) /\ j.status # "none"
<1> DEFINE j == Yielding(k, phase)
<1>1. k \in Member /\ Numbered(k) /\ Placed(k) /\ (Alive(k) => Continuous(k))
  BY DEF Sound
<1>2. phase \in {"waiting", "children", "asking"}
  BY PhasesAre
<1>3. /\ j.status \in {"awaiting_interaction", "waiting"} /\ j.parent = k.parent
      /\ j.depth = k.depth /\ j.phase = phase /\ j.aborted = k.aborted
      /\ j.permit = FALSE /\ j.sent = k.sent /\ j.heard = k.heard
      /\ j.inputs = k.inputs /\ j.steering = k.steering
  BY <1>1 DEF Member, Yielding
<1>4. j \in Member
  <2>1. phase \in Phases /\ {"awaiting_interaction", "waiting"} \subseteq Statuses
    BY <1>2, PhasesAre DEF Statuses, Busy
  <2> QED BY <1>1, <2>1 DEF Member, Yielding
<1> HIDE DEF j
<1>5. Numbered(j)
  BY <1>1, <1>3 DEF Numbered
<1>6. Continuous(j)
  <2>1. k.status \notin {"failed", "none"}
    BY <1>1 DEF Placed
  <2>2. Continuous(k)
    BY <2>1, <1>1 DEF Alive
  <2>3. Len(j.inputs) + Len(j.heard) <= j.sent
    BY <1>3 DEF Heard
  <2>4. /\ j.sent <= Len(j.inputs) + Len(j.heard) + Len(j.steering)
        /\ j.sent = Len(j.heard) + Len(j.steering)
    BY <2>2, <1>3 DEF Continuous, Steerable
  <2> QED BY <2>3, <2>4, <1>2, <1>3 DEF Continuous, Steerable
<1>7. Placed(j)
  BY <1>1, <1>2, <1>3 DEF Placed
<1>8. ~Halted(j) /\ j.status # "none"
  BY <1>3 DEF Halted
<1> QED BY <1>3, <1>4, <1>5, <1>6, <1>7, <1>8 DEF Sound, j

\* The task of a member goes to another place without a permit.
Moved(k, phase) == [k EXCEPT !.phase = phase]

\* From its launch, and from a wait, it goes to where it asks for a permit.
LEMMA MovedSound ==
  ASSUME NEW k, Sound(k), ~k.aborted, NEW phase,
         \/ k.phase = "launched" /\ phase = "acquiring"
         \/ k.phase \in Yielded /\ phase = Resumption[k.phase]
  PROVE  LET j == Moved(k, phase) IN
         /\ Sound(j) /\ j.parent = k.parent /\ j.depth = k.depth /\ j.permit = k.permit
         /\ j.status = k.status /\ j.aborted = k.aborted
<1> DEFINE j == Moved(k, phase)
<1>1. k \in Member /\ Numbered(k) /\ Placed(k) /\ (Alive(k) => Continuous(k))
  BY DEF Sound
<1>2. \/ k.phase = "launched" /\ phase = "acquiring"
      \/ k.phase = "waiting" /\ phase = "rewaiting"
      \/ k.phase = "children" /\ phase = "rechildren"
      \/ k.phase = "asking" /\ phase = "reasking"
  BY PhasesAre
<1>3. /\ j.status = k.status /\ j.parent = k.parent
      /\ j.depth = k.depth /\ j.phase = phase /\ j.aborted = k.aborted
      /\ j.permit = k.permit /\ j.sent = k.sent /\ j.heard = k.heard
      /\ j.inputs = k.inputs /\ j.steering = k.steering
  BY <1>1 DEF Member, Moved
<1>4. j \in Member
  <2>1. phase \in Phases
    BY <1>2, PhasesAre
  <2> QED BY <1>1, <2>1 DEF Member, Moved
<1> HIDE DEF j
<1>5. Numbered(j)
  BY <1>1, <1>3 DEF Numbered
<1>6. Continuous(j)
  <2>1. k.status \notin {"failed", "none"}
    BY <1>1, <1>2 DEF Placed
  <2>2. Continuous(k)
    BY <2>1, <1>1 DEF Alive
  <2>3. Len(j.inputs) + Len(j.heard) <= j.sent
    BY <2>2, <1>2, <1>3 DEF Continuous
  <2>4. j.sent <= Len(j.inputs) + Len(j.heard) + Len(j.steering)
    BY <2>2, <1>3 DEF Continuous
  <2>5. phase \in Steerable => j.sent = Len(j.heard) + Len(j.steering)
    BY <2>2, <1>2, <1>3 DEF Continuous, Steerable
  <2>6. phase = "acquiring" => j.steering = <<>> /\ j.inputs # <<>>
    BY <2>2, <1>2, <1>3 DEF Continuous, Steerable
  <2> QED BY <2>3, <2>4, <2>5, <2>6, <1>2, <1>3 DEF Continuous, Steerable
<1>7. Placed(j)
  BY <1>1, <1>2, <1>3 DEF Placed
<1> QED BY <1>3, <1>4, <1>5, <1>6, <1>7 DEF Sound, j

\* The end of a task.
Left(k) == [k EXCEPT !.permit = FALSE, !.phase = "none"]

\* Nothing but the place changes.
LEMMA LeftSound ==
  ASSUME NEW k, Sound(k), k.phase = "leaving"
  PROVE  LET j == Left(k) IN
         /\ Sound(j) /\ j.parent = k.parent /\ j.depth = k.depth /\ j.permit = FALSE
         /\ j.status = k.status /\ j.inputs = k.inputs /\ j.aborted = k.aborted
<1> DEFINE j == Left(k)
<1>1. k \in Member /\ Numbered(k) /\ Placed(k) /\ (Alive(k) => Continuous(k))
  BY DEF Sound
<1>2. /\ j.status = k.status /\ j.parent = k.parent
      /\ j.depth = k.depth /\ j.phase = "none" /\ j.aborted = k.aborted
      /\ j.permit = FALSE /\ j.sent = k.sent /\ j.heard = k.heard
      /\ j.inputs = k.inputs /\ j.steering = k.steering
  BY <1>1 DEF Member, Left
<1>3. j \in Member
  <2>1. "none" \in Phases
    BY PhasesAre
  <2> QED BY <1>1, <2>1 DEF Member, Left
<1> HIDE DEF j
<1>4. Numbered(j)
  BY <1>1, <1>2 DEF Numbered
<1>5. Alive(j) => Continuous(j)
  <2> SUFFICES ASSUME Alive(j) PROVE Continuous(j)
    OBVIOUS
  <2>1. Continuous(k)
    BY <1>1, <1>2 DEF Alive
  <2>2. /\ Len(j.inputs) + Len(j.heard) <= j.sent
        /\ j.sent <= Len(j.inputs) + Len(j.heard) + Len(j.steering)
        /\ j.steering = <<>>
    BY <2>1, <1>2 DEF Continuous, Steerable
  <2> QED BY <2>2, <1>2 DEF Continuous, Steerable
<1>6. Placed(j)
  BY <1>1, <1>2 DEF Placed
<1> QED BY <1>2, <1>3, <1>4, <1>5, <1>6 DEF Sound, j

\* A member with a permit.
Permitted(k) == [k EXCEPT !.permit = TRUE, !.status = "running", !.phase = "turn"]

\* The run of a member starts with what is in its inbox.
Begun(k) ==
  [Permitted(k) EXCEPT !.heard = @ \o Ids(New(k)), !.inputs = Submitted(@)]

\* What it starts with is what the member has not heard.
LEMMA BegunSound ==
  ASSUME NEW k, Sound(k), k.phase = "acquiring", ~k.aborted
  PROVE  LET j == Begun(k) IN
         /\ Sound(j) /\ j.parent = k.parent /\ j.depth = k.depth
         /\ ~Halted(j) /\ j.status # "none"
<1> DEFINE n == k.sent
           h == Len(k.heard)
           l == Len(k.inputs)
           N == New(k)
           p == Len(N)
           A == k.heard \o Ids(N)
           B == Submitted(k.inputs)
           j == Begun(k)
<1>1. k \in Member /\ Numbered(k) /\ Placed(k) /\ (Alive(k) => Continuous(k))
  BY DEF Sound
<1>2. /\ k.inputs \in Inputs /\ k.heard \in Seq(Nat)
      /\ n \in Nat /\ l \in Nat /\ h \in Nat
  BY <1>1, Fields
<1>3. k.steering = <<>> /\ n <= l + h /\ l + h <= n
  <2>1. k.status \notin {"failed", "none"}
    BY <1>1 DEF Placed
  <2>2. Continuous(k)
    BY <2>1, <1>1 DEF Alive
  <2>3. k.steering = <<>> /\ l + h <= n /\ n <= l + h + Len(k.steering)
    BY <2>2 DEF Continuous, Steerable
  <2>4. Len(k.steering) = 0
    BY <2>3
  <2> HIDE DEF n, l, h
  <2>5. n <= l + h + 0
    BY <2>3, <2>4
  <2> QED BY <2>3, <2>5, <1>2
<1>4. /\ N \in Inputs /\ p <= l /\ (p = l \/ p + h = n)
      /\ \A i \in 1..p : N[i].id + p = n + i
  <2>1. /\ N \in Inputs /\ p <= l /\ (p = l \/ p + h + Len(k.steering) = n)
        /\ \A i \in 1..p : N[i].id + p = n + i
    BY <1>1, NewRest
  <2>2. Len(k.steering) = 0 /\ p \in Nat
    BY <1>3, <2>1, InputsElements
  <2> HIDE DEF n, h, l, N, p
  <2>3. p + h + 0 = p + h
    BY <2>2, <1>2
  <2> QED BY <2>1, <2>2, <2>3
<1>5. p \in Nat /\ \A i \in 1..p : N[i].id \in Nat
  BY <1>4, InputsElements
<1>6. p + h = n
  <2> HIDE DEF n, h, l, p
  <2> QED BY <1>2, <1>3, <1>4, <1>5
<1>7. Ids(N) \in Seq(Nat) /\ Len(Ids(N)) = p /\ \A i \in 1..p : Ids(N)[i] = N[i].id
  BY <1>4, IdsOf
<1>8. /\ A \in Seq(Nat) /\ Len(A) = n
      /\ \A i \in 1..h : A[i] = k.heard[i]
      /\ \A i \in h + 1..h + p : A[i] = Ids(N)[i - h]
  <2> DEFINE s == k.heard
             w == Ids(N)
  <2>1. s \in Seq(Nat) /\ w \in Seq(Nat) /\ h = Len(s) /\ p = Len(w) /\ h \in Nat /\ p \in Nat
    BY <1>2, <1>5, <1>7
  <2> HIDE DEF s, w, h, p, n
  <2>2. /\ s \o w \in Seq(Nat) /\ Len(s \o w) = h + p
        /\ \A i \in 1..h : (s \o w)[i] = s[i]
        /\ \A i \in h + 1..h + p : (s \o w)[i] = w[i - h]
    BY <2>1, Joined
  <2>3. h + p = n
    BY <1>6, <2>1
  <2> QED BY <2>2, <2>3 DEF s, w
<1>9. /\ B \in Inputs /\ Len(B) = l
      /\ \A i \in 1..l : B[i].id = k.inputs[i].id /\ B[i].submitted = TRUE
  BY <1>2, SubmittedOf
<1>10. j = [k EXCEPT !.permit = TRUE, !.status = "running", !.phase = "turn",
                     !.heard = A, !.inputs = B]
  BY <1>1 DEF Begun, Permitted, Member
<1> HIDE DEF A, B, N
<1>11. /\ j.status = "running" /\ j.parent = k.parent
       /\ j.depth = k.depth /\ j.phase = "turn" /\ j.aborted = k.aborted
       /\ j.permit = TRUE /\ j.sent = k.sent /\ j.heard = A
       /\ j.inputs = B /\ j.steering = <<>>
  BY <1>1, <1>3, <1>10 DEF Member
<1>12. j \in Member
  <2>1. "turn" \in Phases /\ "running" \in Statuses
    BY PhasesAre DEF Statuses, Busy
  <2> QED BY <1>1, <1>8, <1>9, <1>10, <2>1 DEF Member
<1> HIDE DEF j
<1>13. Len(j.heard) = n /\ Len(j.steering) = 0 /\ Len(j.inputs) = l
  BY <1>8, <1>9, <1>11
<1>14. Numbered(j)
  <2>1. ASSUME NEW i \in 1..Len(j.heard) PROVE j.heard[i] = i
    <3>1. CASE i \in 1..h
      BY <3>1, <1>1, <1>8, <1>11 DEF Numbered
    <3>2. CASE i \in h + 1..h + p
      <4> DEFINE x == N[i - h].id
      <4>1. i - h \in 1..p
        <5> HIDE DEF h, p
        <5> QED BY <3>2, <1>2, <1>5
      <4>2. x \in Nat /\ x + p = n + (i - h) /\ j.heard[i] = x
        BY <4>1, <3>2, <1>4, <1>5, <1>7, <1>8, <1>11
      <4> HIDE DEF x, n, p, h
      <4>3. x = i
        BY <4>2, <1>2, <1>5, <1>6, <3>2
      <4> QED BY <4>2, <4>3
    <3>3. i \in 1..n
      BY <1>13
    <3> HIDE DEF n, h, p
    <3> QED BY <3>1, <3>2, <3>3, <1>2, <1>5, <1>6
  <2>2. \A i \in 1..Len(j.steering) : j.steering[i] = Len(j.heard) + i
    BY <1>13
  <2>3. Len(j.heard) + Len(j.steering) = n
    <3> HIDE DEF n, h, l
    <3> QED BY <1>2, <1>13
  <2>4. Len(j.heard) + Len(j.steering) <= j.sent /\ Len(j.inputs) <= j.sent
    <3>1. l <= n /\ n <= n
      BY <1>1, <1>2 DEF Numbered
    <3> HIDE DEF l
    <3> QED BY <2>3, <3>1, <1>11, <1>13, Zenon
  <2>5. ASSUME NEW i \in 1..Len(j.inputs)
        PROVE  /\ j.inputs[i].id + Len(j.inputs) = j.sent + i
               /\ j.inputs[i].submitted <=> j.inputs[i].id <= Len(j.heard) + Len(j.steering)
    <3> DEFINE x == k.inputs[i].id
    <3>1. i \in 1..l /\ j.inputs[i].id = x /\ j.inputs[i].submitted = TRUE
      BY <1>9, <1>11, <1>13
    <3>2. x + l = n + i /\ x <= n
      BY <3>1, <1>1, FirstNumber DEF Numbered
    <3> HIDE DEF x, l, n
    <3> QED BY <3>1, <3>2, <2>3, <1>11, <1>13, Zenon DEF n
  <2> QED BY <2>1, <2>2, <2>4, <2>5 DEF Numbered
<1>15. Continuous(j)
  <2>1. Len(j.heard) + Len(j.steering) = n
    <3> HIDE DEF n, h, l
    <3> QED BY <1>2, <1>13
  <2>2. j.sent <= Len(j.inputs) + Len(j.heard) + Len(j.steering)
    <3>1. n <= l + n + 0
      <4> HIDE DEF n, l
      <4> QED BY <1>2
    <3>2. n = j.sent
      BY <1>11
    <3> HIDE DEF n, l
    <3> QED BY <3>1, <3>2, <1>13, Zenon
  <2> QED BY <2>1, <2>2, <1>11 DEF Continuous, Steerable
<1>16. Placed(j)
  <2>1. Len(j.inputs) <= MaxPending
    BY <1>1, <1>13 DEF Placed
  <2> QED BY <1>1, <1>11, <2>1 DEF Placed
<1>17. ~Halted(j) /\ j.status # "none"
  BY <1>11 DEF Halted
<1> QED BY <1>11, <1>12, <1>14, <1>15, <1>16, <1>17 DEF Sound, j

\* A run that waited has its permit back.
LEMMA PermittedSound ==
  ASSUME NEW k, Sound(k), ~k.aborted, k.phase \in Range(Resumption)
  PROVE  LET j == Permitted(k) IN
         /\ j \in Member /\ Numbered(j) /\ Placed(j) /\ Heard(j)
         /\ j.parent = k.parent /\ j.depth = k.depth /\ ~j.aborted
         /\ ~Halted(j) /\ j.status # "none" /\ j.phase = "turn"
         /\ j.sent <= Len(j.inputs) + Len(j.heard) + Len(j.steering)
         /\ k.phase \in Steerable => Sound(j)
<1> DEFINE j == Permitted(k)
<1>1. k \in Member /\ Numbered(k) /\ Placed(k) /\ (Alive(k) => Continuous(k))
  BY DEF Sound
<1>2. k.phase \in {"rewaiting", "rechildren", "reasking"}
  BY PhasesAre
<1>3. Continuous(k)
  <2>1. k.status \notin {"failed", "none"}
    BY <1>1, <1>2 DEF Placed
  <2> QED BY <2>1, <1>1 DEF Alive
<1>4. /\ j.status = "running" /\ j.parent = k.parent
      /\ j.depth = k.depth /\ j.phase = "turn" /\ j.aborted = k.aborted
      /\ j.permit = TRUE /\ j.sent = k.sent /\ j.heard = k.heard
      /\ j.inputs = k.inputs /\ j.steering = k.steering
  BY <1>1 DEF Member, Permitted
<1>5. j \in Member
  <2>1. "turn" \in Phases /\ "running" \in Statuses
    BY PhasesAre DEF Statuses, Busy
  <2> QED BY <1>1, <2>1 DEF Member, Permitted
<1> HIDE DEF j
<1>6. Numbered(j)
  BY <1>1, <1>4 DEF Numbered
<1>7. Placed(j)
  BY <1>1, <1>4 DEF Placed
<1>8. Heard(j) /\ j.sent <= Len(j.inputs) + Len(j.heard) + Len(j.steering)
  BY <1>2, <1>3, <1>4 DEF Continuous, Heard
<1>9. ASSUME k.phase \in Steerable PROVE Sound(j)
  <2>1. j.sent = Len(j.heard) + Len(j.steering)
    BY <1>3, <1>4, <1>9 DEF Continuous
  <2>2. Continuous(j)
    BY <2>1, <1>4, <1>8 DEF Continuous, Steerable
  <2> QED BY <2>2, <1>5, <1>6, <1>7 DEF Sound
<1>10. ~Halted(j) /\ j.status # "none"
  BY <1>4 DEF Halted
<1> QED BY <1>4, <1>5, <1>6, <1>7, <1>8, <1>9, <1>10 DEF j

\* It goes on with all that its member was sent in the meantime.
LEMMA ResumedSound ==
  ASSUME NEW k, Sound(k), ~k.aborted, k.phase \in Range(Resumption)
  PROVE  LET j == Drained(Steered(Permitted(k))) IN
         /\ Sound(j) /\ j.parent = k.parent /\ j.depth = k.depth
         /\ ~Halted(j) /\ j.status # "none"
<1> DEFINE p == Permitted(k)
           s == Steered(p)
           j == Drained(s)
<1>1. /\ p \in Member /\ Numbered(p) /\ Placed(p) /\ Heard(p)
      /\ p.parent = k.parent /\ p.depth = k.depth /\ ~p.aborted
      /\ ~Halted(p) /\ p.status # "none" /\ p.phase = "turn"
      /\ p.sent <= Len(p.inputs) + Len(p.heard) + Len(p.steering)
  BY PermittedSound
<1> HIDE DEF p
<1>2. /\ s \in Member /\ Numbered(s) /\ SameBut(p, s)
      /\ s.sent = p.sent /\ s.heard = p.heard /\ Len(s.inputs) = Len(p.inputs)
      /\ s.sent = Len(s.heard) + Len(s.steering)
  BY <1>1, SteeredNumbered DEF Steerable
<1> HIDE DEF s
<1>3. Placed(s) /\ Heard(s) /\ s.phase = "turn"
  BY <1>1, <1>2 DEF Placed, Heard, SameBut
<1>4. Sound(j) /\ SameBut(s, j)
  BY <1>2, <1>3, DrainedSound
<1> HIDE DEF j
<1>5. j = Drained(Steered(Permitted(k)))
  BY DEF j, s, p
<1> QED BY <1>1, <1>2, <1>4, <1>5 DEF SameBut, Halted

-----------------------------------------------------------------------------
(* Who is below a member.                                                   *)

\* Who is at most n steps below m, for n up to d.
Levels(M, m, d) ==
  CHOOSE within : within = [n \in 0..d |->
    IF n = 0 THEN {m} ELSE within[n - 1] \cup UNION {Children(M, p) : p \in within[n - 1]}]

HaveLevels(M, m, d) ==
  \E within : within = [n \in 0..d |->
    IF n = 0 THEN {m} ELSE within[n - 1] \cup UNION {Children(M, p) : p \in within[n - 1]}]

\* A level more.
LEMMA LevelsNext ==
  ASSUME NEW M, NEW m, NEW d \in Nat, HaveLevels(M, m, d)
  PROVE  HaveLevels(M, m, d + 1)
<1>1. PICK f : f = [n \in 0..d |->
        IF n = 0 THEN {m} ELSE f[n - 1] \cup UNION {Children(M, p) : p \in f[n - 1]}]
  BY DEF HaveLevels
<1> DEFINE g == [n \in 0..d + 1 |->
        IF n <= d THEN f[n] ELSE f[n - 1] \cup UNION {Children(M, p) : p \in f[n - 1]}]
<1>2. \A n \in 0..d :
        f[n] = IF n = 0 THEN {m} ELSE f[n - 1] \cup UNION {Children(M, p) : p \in f[n - 1]}
  BY <1>1
<1>3. \A n \in 0..d : g[n] = f[n]
  OBVIOUS
<1>4. ASSUME NEW n \in 0..d + 1
      PROVE  g[n] = IF n = 0 THEN {m}
                    ELSE g[n - 1] \cup UNION {Children(M, p) : p \in g[n - 1]}
  <2>1. CASE n = 0
    <3>1. 0 \in 0..d
      OBVIOUS
    <3>2. g[n] = f[n] /\ f[n] = {m}
      BY <2>1, <3>1, <1>2, <1>3
    <3> HIDE DEF g
    <3> QED BY <2>1, <3>2
  <2>2. CASE n # 0 /\ n <= d
    <3>1. n - 1 \in 0..d /\ n \in 0..d
      BY <2>2
    <3> QED BY <2>2, <3>1, <1>2, <1>3
  <2>3. CASE n = d + 1
    <3>1. n - 1 \in 0..d /\ ~(n <= d) /\ n # 0
      BY <2>3
    <3> QED BY <3>1, <1>3
  <2> QED BY <2>1, <2>2, <2>3
<1>5. g = [n \in 0..d + 1 |->
        IF n = 0 THEN {m} ELSE g[n - 1] \cup UNION {Children(M, p) : p \in g[n - 1]}]
  BY <1>4
<1> QED BY <1>5 DEF HaveLevels

\* There are as many as there are asked for.
LEMMA LevelsAll == ASSUME NEW M, NEW m PROVE \A d \in Nat : HaveLevels(M, m, d)
<1> DEFINE Missing == {d \in Nat : ~HaveLevels(M, m, d)}
<1>1. SUFFICES ASSUME Missing # {} PROVE FALSE
  OBVIOUS
<1>2. PICK x \in Missing : \A y \in Missing : x <= y
  BY <1>1, Least
<1>3. HaveLevels(M, m, 0)
  <2> DEFINE g == [n \in 0..0 |-> {m}]
  <2>1. g = [n \in 0..0 |->
           IF n = 0 THEN {m} ELSE g[n - 1] \cup UNION {Children(M, p) : p \in g[n - 1]}]
    OBVIOUS
  <2> QED BY <2>1 DEF HaveLevels
<1>4. x \in Nat \ {0}
  BY <1>3
<1>5. x - 1 \in Nat /\ x - 1 \notin Missing
  BY <1>2, <1>4
<1>6. HaveLevels(M, m, (x - 1) + 1)
  BY <1>5, LevelsNext
<1> QED BY <1>6, <1>4

\* Each level from the one before; the last is what Descendants takes.
LEMMA LevelsStep ==
  ASSUME NEW M, NEW m
  PROVE  LET W == Levels(M, m, MaxDepth) IN
         /\ W[0] = {m}
         /\ \A n \in 1..MaxDepth :
              W[n] = W[n - 1] \cup UNION {Children(M, p) : p \in W[n - 1]}
         /\ Descendants(M, m) = W[MaxDepth] \ {m}
<1> DEFINE W == Levels(M, m, MaxDepth)
<1>1. HaveLevels(M, m, MaxDepth)
  BY LevelsAll, Limits
<1>2. \E within : within = [n \in 0..MaxDepth |->
        IF n = 0 THEN {m} ELSE within[n - 1] \cup UNION {Children(M, p) : p \in within[n - 1]}]
  BY <1>1 DEF HaveLevels
<1>3. W = [n \in 0..MaxDepth |->
        IF n = 0 THEN {m} ELSE W[n - 1] \cup UNION {Children(M, p) : p \in W[n - 1]}]
  BY <1>2, Zenon DEF Levels
<1>4. Descendants(M, m) = W[MaxDepth] \ {m}
  BY Zenon DEF Descendants, Levels
<1> HIDE DEF W
<1>5. W[0] = {m}
  BY <1>3, Limits
<1>6. ASSUME NEW n \in 1..MaxDepth
      PROVE  W[n] = W[n - 1] \cup UNION {Children(M, p) : p \in W[n - 1]}
  <2>1. n \in 0..MaxDepth /\ n # 0
    BY Limits
  <2>2. W[n] = IF n = 0 THEN {m} ELSE W[n - 1] \cup UNION {Children(M, p) : p \in W[n - 1]}
    BY <2>1, <1>3
  <2> QED BY <2>1, <2>2
<1> QED BY <1>4, <1>5, <1>6 DEF W

\* A child is used, is not the leader, and is one step deeper than its parent.
LEMMA ChildOf ==
  ASSUME NEW M \in [Members -> Member], Tree(M), NEW p \in Members, NEW c \in Children(M, p)
  PROVE  /\ c \in Members /\ c # Leader /\ M[c].status # "none" /\ M[c].parent = p
         /\ M[c].depth = M[p].depth + 1 /\ M[c].depth <= MaxDepth
         /\ M[c].depth \in Nat /\ M[p].depth \in Nat
<1>1. c \in Members /\ M[c].parent = p
  BY DEF Children
<1>2. M[c].depth \in Nat /\ M[p].depth \in Nat
  BY <1>1 DEF Member
<1>3. c # Leader /\ M[c].status # "none"
  BY <1>1, Limits DEF Tree
<1>4. M[c].depth = M[p].depth + 1 /\ M[c].depth <= MaxDepth
  BY <1>1, <1>3 DEF Tree
<1> QED BY <1>1, <1>2, <1>3, <1>4

\* A member is at the level that its depth says, and at the later ones.
LEMMA LevelsByDepth ==
  ASSUME NEW M \in [Members -> Member], Tree(M), NEW m \in Members,
         NEW n \in 0..MaxDepth, NEW p \in Levels(M, m, MaxDepth)[n]
  PROVE  /\ p \in Members
         /\ M[p].depth - M[m].depth \in 0..n
         /\ p \in Levels(M, m, MaxDepth)[M[p].depth - M[m].depth]
         /\ p # m => /\ p # Leader /\ M[p].status # "none" /\ M[p].parent \in Members
                     /\ M[p].depth > M[m].depth
<1> DEFINE W == Levels(M, m, MaxDepth)
           Right(k, x) == /\ x \in Members
                          /\ M[x].depth - M[m].depth \in 0..k
                          /\ x \in W[M[x].depth - M[m].depth]
                          /\ x # m => /\ x # Leader /\ M[x].status # "none"
                                      /\ M[x].parent \in Members
                                      /\ M[x].depth > M[m].depth
           Wrong == {k \in 0..MaxDepth : \E x \in W[k] : ~Right(k, x)}
<1>1. /\ W[0] = {m}
      /\ \A k \in 1..MaxDepth : W[k] = W[k - 1] \cup UNION {Children(M, x) : x \in W[k - 1]}
  BY LevelsStep
<1>2. \A x \in Members : M[x].depth \in Nat
  BY DEF Member
<1> HIDE DEF W
<1>3. SUFFICES ASSUME Wrong # {} PROVE FALSE
  <2>1. n \notin Wrong /\ p \in W[n]
    BY <1>3 DEF W
  <2>2. Right(n, p)
    <3> HIDE DEF Right
    <3> QED BY <2>1
  <2> QED BY <2>2 DEF W
<1>4. PICK k \in Wrong : \A y \in Wrong : k <= y
  <2>1. Wrong \in SUBSET Nat
    BY Limits
  <2> HIDE DEF Wrong
  <2> QED BY <2>1, <1>3, Least
<1>5. PICK x \in W[k] : ~Right(k, x)
  <2> HIDE DEF Right
  <2> QED BY <1>4
<1>6. k \in 0..MaxDepth
  <2> HIDE DEF Right
  <2> QED BY <1>4
<1>7. k # 0
  <2> SUFFICES ASSUME k = 0 PROVE FALSE
    OBVIOUS
  <2>1. x = m
    BY <1>1, <1>5
  <2>2. Right(k, x)
    BY <2>1, <1>1, <1>2
  <2> QED BY <2>2, <1>5
<1>8. k \in 1..MaxDepth /\ k - 1 \in 0..MaxDepth /\ k - 1 \notin Wrong
  <2> HIDE DEF Wrong
  <2> QED BY <1>4, <1>6, <1>7, Limits
<1>9. \A y \in W[k - 1] : Right(k - 1, y)
  <2> HIDE DEF Right
  <2> QED BY <1>8
<1>10. Right(k, x)
  <2>1. CASE x \in W[k - 1]
    <3>1. Right(k - 1, x)
      <4> HIDE DEF Right
      <4> QED BY <2>1, <1>9
    <3>2. M[x].depth - M[m].depth \in 0..k
      BY <3>1, <1>8
    <3> QED BY <3>1, <3>2
  <2>2. CASE x \notin W[k - 1]
    <3>1. PICK y \in W[k - 1] : x \in Children(M, y)
      BY <2>2, <1>1, <1>5, <1>8
    <3>2. Right(k - 1, y)
      <4> HIDE DEF Right
      <4> QED BY <3>1, <1>9
    <3>3. y \in Members
      BY <3>2
    <3>4. /\ x \in Members /\ x # Leader /\ M[x].status # "none" /\ M[x].parent = y
          /\ M[x].depth = M[y].depth + 1
          /\ M[x].depth \in Nat /\ M[y].depth \in Nat
      BY <3>1, <3>3, ChildOf
    <3> DEFINE e == M[y].depth - M[m].depth
    <3>5. e \in 0..k - 1 /\ y \in W[e] /\ M[m].depth \in Nat
      BY <3>2, <1>2
    <3>6. M[x].depth - M[m].depth = e + 1 /\ M[x].depth > M[m].depth
      BY <3>4, <3>5
    <3> HIDE DEF e
    <3>7. e + 1 \in 0..k /\ e + 1 \in 1..MaxDepth /\ (e + 1) - 1 = e
      <4>1. e \in 0..k - 1 /\ k \in 1..MaxDepth /\ MaxDepth \in Nat
        BY <3>5, <1>8, Limits
      <4> QED BY <4>1
    <3>8. W[e + 1] = W[e] \cup UNION {Children(M, z) : z \in W[e]}
      BY <3>7, <1>1
    <3>9. x \in W[e + 1]
      BY <3>1, <3>5, <3>8
    <3> QED BY <3>3, <3>4, <3>6, <3>7, <3>9
  <2> QED BY <2>1, <2>2
<1> QED BY <1>5, <1>10

\* The levels grow.
LEMMA LevelsGrow ==
  ASSUME NEW M, NEW m, NEW i \in 0..MaxDepth, NEW x \in Levels(M, m, MaxDepth)[i]
  PROVE  x \in Levels(M, m, MaxDepth)[MaxDepth]
<1> DEFINE W == Levels(M, m, MaxDepth)
           Wrong == {k \in 0..MaxDepth : i <= k /\ x \notin W[k]}
<1>1. \A k \in 1..MaxDepth : W[k] = W[k - 1] \cup UNION {Children(M, p) : p \in W[k - 1]}
  BY LevelsStep
<1>2. x \in W[i]
  OBVIOUS
<1> HIDE DEF W
<1>3. SUFFICES ASSUME Wrong # {} PROVE FALSE
  BY <1>3, Limits DEF W
<1>4. PICK k \in Wrong : \A y \in Wrong : k <= y
  <2>1. Wrong \in SUBSET Nat
    BY Limits
  <2> HIDE DEF Wrong
  <2> QED BY <2>1, <1>3, Least
<1>5. k \in 0..MaxDepth /\ i <= k /\ x \notin W[k]
  BY <1>4
<1>6. k # i
  BY <1>2, <1>5
<1>7. k \in 1..MaxDepth /\ k - 1 \in 0..MaxDepth /\ i <= k - 1
  BY <1>5, <1>6, Limits
<1>8. k - 1 \notin Wrong
  <2> HIDE DEF Wrong
  <2> QED BY <1>4, <1>7
<1>9. x \in W[k - 1]
  BY <1>7, <1>8
<1>10. x \in W[k]
  BY <1>1, <1>7, <1>9
<1> QED BY <1>5, <1>10

\* The descendants of a member are used, are below it, and have their children among them.
LEMMA DescendantsBelow ==
  ASSUME NEW M \in [Members -> Member], Tree(M), NEW m \in Members
  PROVE  /\ \A p \in Descendants(M, m) :
              /\ p \in Members /\ p # m /\ M[p].status # "none"
              /\ M[p].depth > M[m].depth
         /\ \A p \in Descendants(M, m) \cup {m} : Children(M, p) \subseteq Descendants(M, m)
<1> DEFINE W == Levels(M, m, MaxDepth)
<1>1. /\ W[0] = {m}
      /\ \A k \in 1..MaxDepth : W[k] = W[k - 1] \cup UNION {Children(M, x) : x \in W[k - 1]}
      /\ Descendants(M, m) = W[MaxDepth] \ {m}
  BY LevelsStep
<1>2. MaxDepth \in 0..MaxDepth /\ 0 \in 0..MaxDepth
  BY Limits
<1>3. ASSUME NEW p \in Descendants(M, m)
      PROVE  p \in Members /\ p # m /\ M[p].status # "none" /\ M[p].depth > M[m].depth
  BY <1>1, <1>2, LevelsByDepth
<1>4. ASSUME NEW p \in Descendants(M, m) \cup {m}, NEW c \in Children(M, p)
      PROVE  c \in Descendants(M, m)
  <2>1. PICK n \in 0..MaxDepth : p \in W[n]
    <3>1. CASE p = m
      BY <3>1, <1>1, <1>2
    <3>2. CASE p # m
      BY <3>2, <1>1, <1>2
    <3> QED BY <3>1, <3>2
  <2>2. p \in Members /\ M[p].depth - M[m].depth \in 0..n
        /\ p \in W[M[p].depth - M[m].depth]
    BY <2>1, LevelsByDepth
  <2>3. /\ c \in Members /\ M[c].parent = p
        /\ M[c].depth = M[p].depth + 1 /\ M[c].depth <= MaxDepth
        /\ M[c].depth \in Nat /\ M[p].depth \in Nat
    BY <2>2, <1>4, ChildOf
  <2> DEFINE e == M[p].depth - M[m].depth
  <2>4. M[m].depth \in Nat
    BY DEF Member
  <2>5. e + 1 \in 1..MaxDepth /\ (e + 1) - 1 = e /\ e \in Nat
    BY <2>2, <2>3, <2>4, Limits
  <2>6. M[c].depth > M[m].depth
    BY <2>2, <2>3, <2>4
  <2>7. p \in W[e]
    BY <2>2
  <2> HIDE DEF e, W
  <2>8. c \in W[e + 1]
    BY <2>5, <2>7, <1>1, <1>4
  <2>9. e + 1 \in 0..MaxDepth
    BY <2>5
  <2>10. c \in W[MaxDepth]
    BY <2>8, <2>9, LevelsGrow DEF W
  <2>11. c # m
    BY <2>3, <2>4, <2>6
  <2> QED BY <2>10, <2>11, <1>1
<1> QED BY <1>3, <1>4

-----------------------------------------------------------------------------
(* The instances, from one state of them to the next.                       *)

\* The members keep their places in the tree and are sound; only the leader may be revived.
Kept(M, N) ==
  /\ N \in [Members -> Member]
  /\ \A m \in Members :
       /\ Sound(N[m])
       /\ N[m].parent = M[m].parent /\ N[m].depth = M[m].depth
       /\ N[m].status = "none" <=> M[m].status = "none"
       /\ m # Leader /\ Halted(M[m]) => Halted(N[m])

\* Nobody gets a permit.
Thrifty(M, N) == \A m \in Members : N[m].permit => M[m].permit

\* With who is stopped its children are.
Covered(M, N) ==
  \A m \in Members, c \in Members \ {Leader} :
     ~Halted(M[m]) /\ Halted(N[m]) /\ M[c].parent = m => Halted(N[c])

Follows(M, N) == Kept(M, N) /\ Thrifty(M, N) /\ Covered(M, N)

\* What is kept stays fine.
LEMMA KeptFine == ASSUME NEW M, Fine(M), NEW N, Kept(M, N) PROVE Fine(N)
<1>1. N \in [Members -> Member] /\ \A m \in Members : Sound(N[m])
  BY DEF Kept
<1>2. \A m \in Members : /\ N[m].parent = M[m].parent /\ N[m].depth = M[m].depth
                         /\ N[m].status = "none" <=> M[m].status = "none"
  BY DEF Kept
<1>3. Tree(M)
  BY DEF Fine
<1>4. Tree(N)
  <2> SUFFICES ASSUME NEW m \in Members
               PROVE  /\ N[m].depth <= MaxDepth
                      /\ m = Leader => N[m].parent = "none" /\ N[m].status # "none"
                      /\ m # Leader /\ N[m].status # "none" =>
                           /\ N[m].parent \in Members
                           /\ N[N[m].parent].status # "none"
                           /\ N[m].depth = N[N[m].parent].depth + 1
                      /\ N[m].status = "none" => N[m].parent = "none"
    BY DEF Tree
  <2>1. /\ M[m].depth <= MaxDepth
        /\ m = Leader => M[m].parent = "none" /\ M[m].status # "none"
        /\ m # Leader /\ M[m].status # "none" =>
             /\ M[m].parent \in Members
             /\ M[M[m].parent].status # "none"
             /\ M[m].depth = M[M[m].parent].depth + 1
        /\ M[m].status = "none" => M[m].parent = "none"
    BY <1>3 DEF Tree
  <2>2. CASE m # Leader /\ N[m].status # "none"
    <3>1. M[m].parent \in Members
      BY <2>1, <2>2, <1>2
    <3> QED BY <2>1, <2>2, <3>1, <1>2
  <2>3. CASE ~(m # Leader /\ N[m].status # "none")
    BY <2>1, <2>3, <1>2
  <2> QED BY <2>2, <2>3
<1> QED BY <1>1, <1>4 DEF Fine

\* One step after another.
LEMMA FollowsTrans ==
  ASSUME NEW M, NEW N, NEW P, Follows(M, N), Follows(N, P)
  PROVE  Follows(M, P)
<1>1. Kept(M, P)
  BY DEF Follows, Kept
<1>2. Thrifty(M, P)
  BY DEF Follows, Thrifty
<1>3. ASSUME NEW m \in Members, NEW c \in Members \ {Leader},
             ~Halted(M[m]), Halted(P[m]), M[c].parent = m
      PROVE  Halted(P[c])
  <2>1. CASE Halted(N[m])
    <3>1. Halted(N[c])
      BY <2>1, <1>3 DEF Follows, Covered
    <3> QED BY <3>1, <1>3 DEF Follows, Kept
  <2>2. CASE ~Halted(N[m])
    <3>1. N[c].parent = m
      BY <1>3 DEF Follows, Kept
    <3> QED BY <2>2, <3>1, <1>3 DEF Follows, Covered
  <2> QED BY <2>1, <2>2
<1>4. Covered(M, P)
  BY <1>3 DEF Covered
<1> QED BY <1>1, <1>2, <1>4 DEF Follows

\* One member changes, and is as stopped as it was.
LEMMA OneKept ==
  ASSUME NEW M, Fine(M), NEW m \in Members, NEW k, Sound(k),
         k.parent = M[m].parent, k.depth = M[m].depth, M[m].status # "none",
         k.status # "none", m # Leader /\ Halted(M[m]) => Halted(k)
  PROVE  /\ Kept(M, [M EXCEPT ![m] = k])
         /\ [M EXCEPT ![m] = k][m] = k
         /\ \A x \in Members \ {m} : [M EXCEPT ![m] = k][x] = M[x]
<1> DEFINE N == [M EXCEPT ![m] = k]
<1>1. M \in [Members -> Member] /\ (\A x \in Members : Sound(M[x])) /\ k \in Member
  BY DEF Fine, Sound
<1>2. N \in [Members -> Member] /\ N[m] = k /\ \A x \in Members \ {m} : N[x] = M[x]
  BY <1>1
<1> HIDE DEF N
<1>3. ASSUME NEW x \in Members
      PROVE  /\ Sound(N[x])
             /\ N[x].parent = M[x].parent /\ N[x].depth = M[x].depth
             /\ N[x].status = "none" <=> M[x].status = "none"
             /\ x # Leader /\ Halted(M[x]) => Halted(N[x])
  <2>1. CASE x = m
    BY <2>1, <1>2
  <2>2. CASE x # m
    BY <2>2, <1>1, <1>2
  <2> QED BY <2>1, <2>2
<1>4. Kept(M, N)
  BY <1>2, <1>3 DEF Kept
<1> QED BY <1>2, <1>4 DEF N

\* It gets no permit by it.
LEMMA OneFollows ==
  ASSUME NEW M, Fine(M), NEW m \in Members, NEW k, Sound(k),
         k.parent = M[m].parent, k.depth = M[m].depth, M[m].status # "none",
         k.status # "none", m # Leader /\ Halted(M[m]) => Halted(k),
         Halted(k) => Halted(M[m]), k.permit => M[m].permit
  PROVE  /\ Follows(M, [M EXCEPT ![m] = k])
         /\ [M EXCEPT ![m] = k][m] = k
         /\ \A x \in Members \ {m} : [M EXCEPT ![m] = k][x] = M[x]
<1> DEFINE N == [M EXCEPT ![m] = k]
<1>1. Kept(M, N) /\ N[m] = k /\ \A x \in Members \ {m} : N[x] = M[x]
  BY OneKept
<1> HIDE DEF N
<1>2. Thrifty(M, N)
  BY <1>1 DEF Thrifty
<1>3. Covered(M, N)
  BY <1>1 DEF Covered
<1> QED BY <1>1, <1>2, <1>3 DEF Follows, N

\* Some members are cancelled, none of them unused.
LEMMA StopKept ==
  ASSUME NEW M, Fine(M), NEW S, \A x \in Members : x \in S => M[x].status # "none"
  PROVE  LET N == Stop(M, S) IN
         /\ Kept(M, N) /\ Thrifty(M, N)
         /\ \A x \in Members : N[x] = IF x \in S THEN stopMember(M[x]) ELSE M[x]
         /\ \A x \in Members : x \in S => N[x].aborted
<1> DEFINE N == Stop(M, S)
<1>1. M \in [Members -> Member] /\ (\A x \in Members : Sound(M[x]))
  BY DEF Fine
<1>2. \A x \in Members : N[x] = IF x \in S THEN stopMember(M[x]) ELSE M[x]
  BY DEF Stop
<1>3. ASSUME NEW x \in Members, x \in S
      PROVE  /\ Sound(N[x]) /\ N[x].parent = M[x].parent /\ N[x].depth = M[x].depth
             /\ N[x].permit = M[x].permit /\ N[x].status = "cancelled" /\ M[x].status # "none"
             /\ N[x].aborted
  <2>1. Sound(M[x]) /\ M[x].status # "none" /\ N[x] = stopMember(M[x])
    BY <1>1, <1>2, <1>3
  <2> HIDE DEF N
  <2> QED BY <2>1, StoppedSound
<1>4. \A x \in Members : x \notin S => N[x] = M[x]
  BY <1>2
<1>5. N = [x \in Members |-> N[x]]
  BY DEF Stop
<1> HIDE DEF N
<1>6. \A x \in Members : Sound(N[x])
  BY <1>1, <1>3, <1>4
<1>7. N \in [Members -> Member]
  BY <1>5, <1>6 DEF Sound
<1>8. Kept(M, N)
  <2>1. ASSUME NEW x \in Members
        PROVE  /\ N[x].parent = M[x].parent /\ N[x].depth = M[x].depth
               /\ N[x].status = "none" <=> M[x].status = "none"
               /\ Halted(M[x]) => Halted(N[x])
    <3>1. CASE x \in S
      BY <3>1, <1>3 DEF Halted
    <3>2. CASE x \notin S
      BY <3>2, <1>4
    <3> QED BY <3>1, <3>2
  <2> QED BY <2>1, <1>6, <1>7 DEF Kept
<1>9. Thrifty(M, N)
  BY <1>3, <1>4 DEF Thrifty
<1> QED BY <1>2, <1>3, <1>8, <1>9 DEF N

\* A member stops, and with it whoever is below it.
LEMMA StopBelow ==
  ASSUME NEW M, Fine(M), NEW m \in Members, NEW k, Sound(k), M[m].status # "none",
         k.parent = M[m].parent, k.depth = M[m].depth, k.permit = M[m].permit,
         Halted(k), k.status # "none"
  PROVE  LET N == stopDescendants([M EXCEPT ![m] = k], m) IN
         /\ Follows(M, N) /\ N[m] = k
         /\ \A x \in Members : x = M[m].parent => N[x] = M[x]
<1> DEFINE K == [M EXCEPT ![m] = k]
           D == Descendants(K, m)
           N == Stop(K, D)
<1>1. k.status # "none"
  OBVIOUS
<1>2. Kept(M, K) /\ K[m] = k /\ \A x \in Members \ {m} : K[x] = M[x]
  BY <1>1, OneKept
<1> HIDE DEF K
<1>3. Fine(K)
  BY <1>2, KeptFine
<1>4. /\ \A p \in D : p \in Members /\ p # m /\ K[p].status # "none" /\ K[p].depth > K[m].depth
      /\ \A p \in D \cup {m} : Children(K, p) \subseteq D
  BY <1>3, DescendantsBelow DEF Fine
<1> HIDE DEF D
<1>5. /\ Kept(K, N) /\ Thrifty(K, N)
      /\ \A x \in Members : N[x] = IF x \in D THEN stopMember(K[x]) ELSE K[x]
      /\ \A x \in Members : x \in D => N[x].aborted
  BY <1>3, <1>4, StopKept
<1>6. N = stopDescendants(K, m)
  BY DEF stopDescendants, D
<1> HIDE DEF N
<1>7. Kept(M, N)
  BY <1>2, <1>5 DEF Kept
<1>8. Thrifty(M, N)
  BY <1>2, <1>5 DEF Thrifty
<1>9. ASSUME NEW x \in Members, NEW c \in Members,
             ~Halted(M[x]), Halted(N[x]), M[c].parent = x
      PROVE  Halted(N[c])
  <2>1. x \in D \cup {m}
    BY <1>2, <1>5, <1>9
  <2>2. K[c].parent = x
    BY <1>2, <1>9 DEF Kept
  <2>3. c \in Children(K, x)
    BY <2>2 DEF Children
  <2>4. c \in D
    BY <2>1, <2>3, <1>4
  <2> QED BY <2>4, <1>5 DEF Halted
<1>10. Covered(M, N)
  BY <1>9 DEF Covered
<1>11. N[m] = k
  BY <1>2, <1>4, <1>5
<1>12. ASSUME NEW x \in Members, x = M[m].parent PROVE N[x] = M[x]
  <2>1. Tree(M)
    BY DEF Fine
  <2>2. m \in Children(M, x)
    BY <1>12 DEF Children
  <2>3. M[m].depth = M[x].depth + 1 /\ M[x].depth \in Nat
    BY <2>1, <2>2, <1>12, ChildOf DEF Fine
  <2>4. K[x].depth = M[x].depth /\ K[m].depth = M[m].depth
    BY <1>2 DEF Kept
  <2>5. x # m /\ ~(K[x].depth > K[m].depth)
    BY <2>3, <2>4
  <2>6. x \notin D
    BY <2>5, <1>4
  <2> QED BY <2>5, <2>6, <1>2, <1>5
<1> QED BY <1>6, <1>7, <1>8, <1>10, <1>11, <1>12 DEF Follows, K

\* A member is cancelled, and with it whoever is below it.
LEMMA CancelFollows ==
  ASSUME NEW M, Fine(M), NEW c \in Members, M[c].status # "none"
  PROVE  LET N == stopDescendants([M EXCEPT ![c] = stopMember(M[c])], c) IN
         /\ Follows(M, N) /\ N[c] = stopMember(M[c])
         /\ \A x \in Members : x = M[c].parent => N[x] = M[x]
<1> DEFINE k == stopMember(M[c])
<1>1. Sound(M[c])
  BY DEF Fine
<1>2. /\ Sound(k) /\ k.parent = M[c].parent /\ k.depth = M[c].depth /\ k.permit = M[c].permit
      /\ Halted(k) /\ k.status # "none"
  <2>1. /\ Sound(k) /\ k.parent = M[c].parent /\ k.depth = M[c].depth
        /\ k.permit = M[c].permit /\ k.status = "cancelled" /\ k.aborted
    BY <1>1, StoppedSound
  <2> HIDE DEF k
  <2> QED BY <2>1 DEF Halted
<1> HIDE DEF k
<1> DEFINE N == stopDescendants([M EXCEPT ![c] = k], c)
<1>3. Follows(M, N)
  BY <1>2, StopBelow
<1>4. N[c] = k
  BY <1>2, StopBelow
<1>5. \A x \in Members : x = M[c].parent => N[x] = M[x]
  BY <1>2, StopBelow
<1> HIDE DEF N
<1>6. Follows(M, N) /\ N[c] = stopMember(M[c])
  BY <1>3, <1>4 DEF k
<1> QED BY <1>5, <1>6 DEF k, N

\* The operations on the instances change the one member they are about.
LEMMA OnOne ==
  ASSUME NEW M, M \in [Members -> Member], NEW m \in Members
  PROVE  /\ delivered(M, m, Range(M[m].heard)) = [M EXCEPT ![m] = Read(M[m])]
         /\ drainSteering(M, m) = [M EXCEPT ![m] = Drained(M[m])]
         /\ launch(M, m) = [M EXCEPT ![m] = Launched(M[m])]
         /\ submitInputs(M, m) = [M EXCEPT ![m] = Steered(M[m])]
<1>1. M[m] \in Member /\ M = [M EXCEPT ![m] = M[m]]
  OBVIOUS
<1>2. \A ids : delivered(M, m, ids) = [M EXCEPT ![m] = [M[m] EXCEPT !.inputs = Outside(M[m], ids)]]
  BY DEF delivered, Outside
<1>3. delivered(M, m, Range(M[m].heard)) = [M EXCEPT ![m] = Read(M[m])]
  BY <1>2 DEF Read
<1>4. drainSteering(M, m) = [M EXCEPT ![m] = Drained(M[m])]
  <2> DEFINE k == M[m]
             J == Outside(k, Range(k.steering))
             D == delivered(M, m, Range(k.steering))
  <2>1. D = [M EXCEPT ![m] = [k EXCEPT !.inputs = J]]
    BY <1>2
  <2>2. drainSteering(M, m) = [D EXCEPT ![m].heard = @ \o k.steering, ![m].steering = <<>>]
    BY DEF drainSteering
  <2>3. D[m] = [k EXCEPT !.inputs = J]
    <3> HIDE DEF J, D
    <3> QED BY <2>1
  <2>4. D[m].heard = k.heard
    <3> HIDE DEF J, D
    <3> QED BY <2>3, <1>1 DEF Member
  <2> HIDE DEF J, D
  <2>5. drainSteering(M, m)
          = [D EXCEPT ![m] = [D[m] EXCEPT !.heard = k.heard \o k.steering, !.steering = <<>>]]
    BY <2>1, <2>2, <2>4
  <2>6. [D[m] EXCEPT !.heard = k.heard \o k.steering, !.steering = <<>>] = Drained(k)
    BY <2>3, <1>1 DEF Drained, Member, J
  <2> QED BY <2>1, <2>5, <2>6
<1>5. launch(M, m) = [M EXCEPT ![m] = Launched(M[m])]
  <2>1. CASE M[m].phase # "none" \/ team \in {"closed", "settled"} \/ M[m].aborted
    BY <2>1, <1>1 DEF launch, Launched
  <2>2. CASE ~(M[m].phase # "none" \/ team \in {"closed", "settled"} \/ M[m].aborted)
    BY <2>2, <1>1 DEF launch, Launched
  <2> QED BY <2>1, <2>2
<1>6. submitInputs(M, m) = [M EXCEPT ![m] = Steered(M[m])]
  <2>1. Pending(M, m) = New(M[m])
    BY DEF Pending, New, NewIn
  <2>2. CASE M[m].phase \notin Steerable \/ M[m].aborted
    BY <2>2, <1>1 DEF submitInputs, Steered
  <2>3. CASE ~(M[m].phase \notin Steerable \/ M[m].aborted)
    BY <2>1, <2>3, <1>1 DEF submitInputs, Steered
  <2> QED BY <2>2, <2>3
<1> QED BY <1>3, <1>4, <1>5, <1>6

\* A member that gives its permit back.
LEMMA YieldOne ==
  ASSUME NEW M, M \in [Members -> Member], NEW m \in Members, NEW phase \in Yielded
  PROVE  yieldSlot(M, m, phase) = [M EXCEPT ![m] = Yielding(M[m], phase)]
<1>1. M[m] \in Member /\ M = [M EXCEPT ![m] = M[m]]
  OBVIOUS
<1> QED BY <1>1 DEF yieldSlot, Yielding

\* So does enqueue().
LEMMA EnqueueOne ==
  ASSUME NEW M, M \in [Members -> Member], NEW m \in Members
  PROVE  enqueue(M, m) = [M EXCEPT ![m] = Enqueued(M[m])]
<1> DEFINE k == M[m]
           P == [M EXCEPT ![m].inputs = Append(@, [id |-> k.sent + 1, submitted |-> FALSE]),
                          ![m].sent = k.sent + 1]
           S == submitInputs(P, m)
<1>1. k \in Member
  OBVIOUS
<1>2. P = [M EXCEPT ![m] = Pushed(k)]
  BY DEF Pushed
<1>3. enqueue(M, m) = launch(S, m)
  BY DEF enqueue
<1> HIDE DEF P
<1>4. P[m] = Pushed(k)
  BY <1>2
<1>5. S = [P EXCEPT ![m] = Steered(P[m])]
  <2>1. Pending(P, m) = New(P[m])
    BY DEF Pending, New, NewIn
  <2>2. P = [P EXCEPT ![m] = P[m]]
    BY <1>2
  <2>3. CASE P[m].phase \notin Steerable \/ P[m].aborted
    BY <2>2, <2>3 DEF submitInputs, Steered
  <2>4. CASE ~(P[m].phase \notin Steerable \/ P[m].aborted)
    BY <2>1, <2>4, <1>2 DEF submitInputs, Steered
  <2> QED BY <2>3, <2>4
<1> HIDE DEF S
<1>6. S = [M EXCEPT ![m] = Steered(Pushed(k))] /\ S[m] = Steered(Pushed(k))
  BY <1>2, <1>4, <1>5
<1>7. launch(S, m) = [S EXCEPT ![m] = Launched(S[m])]
  <2>1. S = [S EXCEPT ![m] = S[m]]
    BY <1>6
  <2>2. CASE S[m].phase # "none" \/ team \in {"closed", "settled"} \/ S[m].aborted
    BY <2>1, <2>2 DEF launch, Launched
  <2>3. CASE ~(S[m].phase # "none" \/ team \in {"closed", "settled"} \/ S[m].aborted)
    BY <1>6, <2>3 DEF launch, Launched
  <2> QED BY <2>2, <2>3
<1>8. launch(S, m) = [M EXCEPT ![m] = Enqueued(k)]
  BY <1>6, <1>7 DEF Enqueued
<1> QED BY <1>3, <1>8

\* A message that may be sent.
LEMMA EnqueueFollows ==
  ASSUME NEW M, Fine(M), NEW r \in Members, M[r].status # "none", ~Full(M, r),
         r = Leader \/ M[r].status # "failed"
  PROVE  LET N == enqueue(M, r) IN
         /\ Follows(M, N)
         /\ \A x \in Members \ {r} : N[x] = M[x]
         /\ N[r].aborted = M[r].aborted
         /\ M[r].phase # "none" => N[r].phase = M[r].phase
         /\ Heard(M[r]) => Heard(N[r])
<1> DEFINE k == M[r]
           j == Enqueued(k)
           N == [M EXCEPT ![r] = j]
<1>1. M \in [Members -> Member] /\ Sound(k)
  BY DEF Fine
<1>2. Len(k.inputs) < MaxPending
  <2>1. Len(k.inputs) \in Nat
    BY <1>1, Fields DEF Sound
  <2>2. ~(Len(k.inputs) >= MaxPending)
    BY DEF Full
  <2> QED BY <2>1, <2>2, Limits
<1>3. /\ Sound(j)
      /\ j.parent = k.parent /\ j.depth = k.depth /\ j.permit = k.permit
      /\ j.aborted = k.aborted
      /\ j.status # "none" /\ (Halted(j) => Halted(k))
      /\ k.status # "failed" => (Halted(j) <=> Halted(k))
      /\ k.phase # "none" => j.phase = k.phase
      /\ Len(k.inputs) + Len(k.heard) <= k.sent => Len(j.inputs) + Len(j.heard) <= j.sent
  BY <1>1, <1>2, EnqueuedSound
<1> HIDE DEF j
<1>4. Follows(M, N) /\ N[r] = j /\ \A x \in Members \ {r} : N[x] = M[x]
  BY <1>3, OneFollows
<1>5. enqueue(M, r) = N
  BY <1>1, EnqueueOne DEF j
<1> HIDE DEF N
<1> QED BY <1>3, <1>4, <1>5 DEF Heard

\* The outcome of a member is a message to its parent.
LEMMA ReportFollows ==
  ASSUME NEW M, Fine(M), NEW m \in Members, M[m].status # "none", ~ReportFails(M, m)
  PROVE  LET N == reportOutcome(M, m) IN
         /\ Follows(M, N)
         /\ \A x \in Members : x # M[m].parent => N[x] = M[x]
         /\ \A x \in Members :
              M[x].phase # "none" =>
                /\ N[x].phase = M[x].phase /\ N[x].aborted = M[x].aborted
                /\ Heard(M[x]) => Heard(N[x])
<1>1. CASE ~Reported(M, m)
  <2>1. reportOutcome(M, m) = M
    BY <1>1 DEF reportOutcome
  <2>2. Follows(M, M)
    BY DEF Follows, Kept, Thrifty, Covered, Fine
  <2> QED BY <2>1, <2>2
<1>2. CASE Reported(M, m)
  <2> DEFINE r == M[m].parent
             N == enqueue(M, r)
  <2>1. r \in Members /\ M[r].status # "none" /\ M[r].status # "failed"
    BY <1>2 DEF Reported, Fine, Tree, Stopped
  <2>2. ~Full(M, r)
    BY <1>2 DEF ReportFails
  <2> HIDE DEF r, N
  <2>3. /\ Follows(M, N)
        /\ \A x \in Members \ {r} : N[x] = M[x]
        /\ N[r].aborted = M[r].aborted
        /\ M[r].phase # "none" => N[r].phase = M[r].phase
        /\ Heard(M[r]) => Heard(N[r])
    BY <2>1, <2>2, EnqueueFollows DEF N
  <2>4. reportOutcome(M, m) = N
    BY <1>2 DEF reportOutcome, r, N
  <2>5. ASSUME NEW x \in Members, M[x].phase # "none"
        PROVE  /\ N[x].phase = M[x].phase /\ N[x].aborted = M[x].aborted
               /\ Heard(M[x]) => Heard(N[x])
    <3>1. CASE x = r
      BY <3>1, <2>3, <2>5
    <3>2. CASE x # r
      BY <3>2, <2>3
    <3> QED BY <3>1, <3>2
  <2> QED BY <2>3, <2>4, <2>5 DEF r
<1> QED BY <1>1, <1>2

-----------------------------------------------------------------------------
(* How a task ends, and what a step leads to.                               *)

Teams == {"open", "aborted", "closed", "settled"}

\* The step goes on from the instances M, and leaves the team open only if nobody is left at
\* work below who was stopped.
Goes(M) ==
  /\ Kept(M, members') /\ Thrifty(M, members') /\ team' \in Teams
  /\ team' = "open" => team = "open" /\ Covered(M, members')

\* A step that puts down what follows.
LEMMA PutGoes ==
  ASSUME NEW M, NEW N, Follows(M, N), NEW tickets, Put(N, tickets), team \in Teams
  PROVE  Goes(M)
BY DEF Put, Follows, Goes

\* fail() stops everybody who is busy; the team is not open after it.
LEMMA FailGoes ==
  ASSUME NEW M, Fine(M), NEW tickets, fail(M, tickets), team \in Teams
  PROVE  Goes(M)
<1>1. members' = Stop(M, {m \in Members : M[m].status \in Busy})
  BY DEF fail, stopMembers
<1>2. Kept(M, members') /\ Thrifty(M, members')
  <2> DEFINE S == {m \in Members : M[m].status \in Busy}
  <2>1. \A x \in Members : x \in S => M[x].status # "none"
    BY DEF Busy
  <2> HIDE DEF S
  <2>2. Kept(M, Stop(M, S)) /\ Thrifty(M, Stop(M, S))
    BY <2>1, StopKept
  <2> QED BY <2>2, <1>1 DEF S
<1>3. team' \in Teams /\ team' # "open"
  BY DEF fail, Teams
<1> QED BY <1>2, <1>3 DEF Goes

\* A step that goes on from what follows.
LEMMA GoesTrans ==
  ASSUME NEW M, NEW N, Follows(M, N), Goes(N)
  PROVE  Goes(M)
<1>1. Kept(M, members')
  BY DEF Follows, Kept, Goes
<1>2. Thrifty(M, members')
  BY DEF Follows, Thrifty, Goes
<1>3. ASSUME team' = "open" PROVE Covered(M, members')
  <2>1. Follows(N, members')
    BY <1>3 DEF Goes, Follows
  <2>2. Follows(M, members')
    BY <2>1, FollowsTrans
  <2> QED BY <2>2, <1>3 DEF Follows
<1> QED BY <1>1, <1>2, <1>3 DEF Goes

\* A member whose task fails is stopped with whoever is below it, and its parent told.
LEMMA CatchGoes ==
  ASSUME NEW M, Fine(M), NEW m \in Members, M[m].status # "none", NEW tickets,
         Catch(M, m, tickets), team \in Teams
  PROVE  Goes(M)
<1> DEFINE status == IF M[m].aborted THEN "cancelled" ELSE "failed"
           C == [drop(M, m) EXCEPT ![m].status = status, ![m].phase = "leaving"]
           E == stopDescendants(C, m)
           others == Selected(tickets, {i \in DOMAIN tickets : tickets[i] # m})
<1>1. M \in [Members -> Member] /\ Sound(M[m])
  BY DEF Fine
<1>2. C = [M EXCEPT ![m] = Caught(M[m])]
  BY <1>1 DEF Caught, drop
<1>3. \/ team # "open" /\ Put(E, others)
      \/ ReportFails(E, m) /\ fail(E, others)
      \/ ~ReportFails(E, m) /\ Put(reportOutcome(E, m), others)
  BY DEF Catch
<1>4. Follows(M, E)
  <2> DEFINE k == Caught(M[m])
  <2>1. /\ Sound(k) /\ k.parent = M[m].parent /\ k.depth = M[m].depth /\ k.permit = M[m].permit
        /\ Halted(k) /\ k.status # "none"
    BY <1>1, CaughtSound
  <2> HIDE DEF k
  <2>2. Follows(M, stopDescendants([M EXCEPT ![m] = k], m))
    BY <2>1, StopBelow
  <2> QED BY <2>2, <1>2 DEF k
<1> HIDE DEF E, others
<1>5. Fine(E) /\ E[m].status # "none"
  <2>1. Kept(M, E)
    BY <1>4 DEF Follows
  <2> QED BY <2>1, KeptFine DEF Kept
<1>6. CASE Put(E, others)
  BY <1>4, <1>6, PutGoes
<1>7. CASE fail(E, others)
  <2>1. Goes(E)
    BY <1>5, <1>7, FailGoes
  <2> QED BY <2>1, <1>4, GoesTrans
<1>8. CASE ~ReportFails(E, m) /\ Put(reportOutcome(E, m), others)
  <2>1. Follows(E, reportOutcome(E, m))
    BY <1>5, <1>8, ReportFollows
  <2>2. Goes(E)
    BY <2>1, <1>8, PutGoes
  <2> QED BY <2>2, <1>4, GoesTrans
<1> QED BY <1>3, <1>6, <1>7, <1>8

\* The end of runMember(), from instances E that hold the outcome already.
LEMMA EndedGoes ==
  ASSUME NEW M, Fine(M), NEW m \in Members, M[m].status # "none", NEW E, Follows(M, E),
         NEW tickets, team \in Teams,
         IF ReportFails(E, m) THEN Catch(E, m, tickets) ELSE Put(reportOutcome(E, m), tickets)
  PROVE  Goes(M)
<1>1. Fine(E) /\ E[m].status # "none"
  <2>1. Kept(M, E)
    BY DEF Follows
  <2> QED BY <2>1, KeptFine DEF Kept
<1>2. CASE ReportFails(E, m)
  <2>1. Catch(E, m, tickets)
    BY <1>2
  <2>2. Goes(E)
    BY <2>1, <1>1, CatchGoes
  <2> QED BY <2>2, GoesTrans
<1>3. CASE ~ReportFails(E, m)
  <2>1. Follows(E, reportOutcome(E, m))
    BY <1>1, <1>3, ReportFollows
  <2>2. Goes(E)
    BY <2>1, <1>3, PutGoes
  <2> QED BY <2>2, GoesTrans
<1> QED BY <1>2, <1>3

\* An answer.
LEMMA AnsweredGoes ==
  ASSUME NEW M, Fine(M), NEW m \in Members, M[m].status \notin {"failed", "none"},
         Alive(M[m]) => Heard(M[m]) /\ M[m].steering = <<>>,
         NEW tickets, Finish(M, m, "response", tickets), team \in Teams
  PROVE  Goes(M)
<1> DEFINE E == [M EXCEPT ![m].outcome = "response", ![m].status = "idle", ![m].phase = "leaving"]
           k == Idle(M[m])
<1>1. M \in [Members -> Member] /\ Sound(M[m])
  BY DEF Fine
<1>2. E = [M EXCEPT ![m] = k]
  BY <1>1 DEF Idle
<1>3. IF ReportFails(E, m) THEN Catch(E, m, tickets) ELSE Put(reportOutcome(E, m), tickets)
  BY DEF Finish
<1>4. /\ Sound(k) /\ k.parent = M[m].parent /\ k.depth = M[m].depth /\ k.permit = M[m].permit
      /\ k.status = "idle" /\ k.aborted = M[m].aborted
  BY <1>1, IdleSound
<1> HIDE DEF E, k
<1>5. k.status # "none" /\ (Halted(k) <=> Halted(M[m]))
  BY <1>4 DEF Halted
<1>6. Follows(M, [M EXCEPT ![m] = k])
  BY <1>4, <1>5, OneFollows
<1>7. Follows(M, E)
  BY <1>2, <1>6
<1> QED BY <1>3, <1>7, EndedGoes

\* A run that a guardrail blocked.
LEMMA BlockedGoes ==
  ASSUME NEW M, Fine(M), NEW m \in Members, M[m].status # "none",
         NEW tickets, Finish(M, m, "blocked", tickets), team \in Teams
  PROVE  Goes(M)
<1> DEFINE I == [M EXCEPT ![m].outcome = "blocked", ![m].status = "idle", ![m].phase = "leaving"]
           B == [drop(I, m) EXCEPT ![m].status = "failed"]
           E == stopDescendants(B, m)
           k == Blocked(M[m])
           i == [M[m] EXCEPT !.outcome = "blocked", !.status = "idle", !.phase = "leaving"]
<1>1. M \in [Members -> Member] /\ Sound(M[m]) /\ M[m] \in Member
  BY DEF Fine
<1>2. I = [M EXCEPT ![m] = i] /\ I[m] = i
  BY <1>1
<1>3. [i EXCEPT !.status = "failed", !.inputs = <<>>, !.steering = <<>>, !.sent = Len(i.heard)] = k
  BY <1>1 DEF Blocked, Member
<1>4. B = [I EXCEPT ![m] = [I[m] EXCEPT !.status = "failed", !.inputs = <<>>, !.steering = <<>>,
                                        !.sent = Len(I[m].heard)]]
  <2> HIDE DEF I, i
  <2> QED BY <1>1, <1>2 DEF drop
<1>5. B = [M EXCEPT ![m] = k]
  <2> HIDE DEF I, B, i, k
  <2> QED BY <1>1, <1>2, <1>3, <1>4
<1>6. IF ReportFails(E, m) THEN Catch(E, m, tickets) ELSE Put(reportOutcome(E, m), tickets)
  BY DEF Finish
<1>7. /\ Sound(k) /\ k.parent = M[m].parent /\ k.depth = M[m].depth /\ k.permit = M[m].permit
      /\ Halted(k) /\ k.status # "none"
  BY <1>1, BlockedSound
<1> HIDE DEF I, B, i, k, E
<1>8. Follows(M, stopDescendants([M EXCEPT ![m] = k], m))
  BY <1>7, StopBelow
<1>9. Follows(M, E)
  BY <1>5, <1>8 DEF E
<1> QED BY <1>6, <1>9, EndedGoes

\* A run takes what it was steered with, as one of the instances.
LEMMA DrainFollows ==
  ASSUME NEW M, Fine(M), NEW m \in Members, M[m].phase = "turn", ~M[m].aborted, Heard(M[m])
  PROVE  LET N == drainSteering(M, m) IN
         /\ Follows(M, N) /\ N[m].phase = "turn" /\ N[m].aborted = M[m].aborted
         /\ N = [M EXCEPT ![m] = N[m]]
<1> DEFINE k == M[m]
           j == Drained(k)
<1>1. M \in [Members -> Member] /\ Sound(k)
  BY DEF Fine
<1>2. k \in Member /\ Numbered(k) /\ Placed(k) /\ ~Halted(k) /\ k.status # "none"
  BY <1>1 DEF Sound, Placed, Halted
<1>3. k.sent = Len(k.heard) + Len(k.steering)
  BY <1>1, <1>2 DEF Sound, Alive, Continuous, Steerable, Stopped
<1>4. Sound(j) /\ SameBut(k, j)
  BY <1>2, <1>3, DrainedSound
<1>5. drainSteering(M, m) = [M EXCEPT ![m] = j]
  BY <1>1, OnOne
<1> HIDE DEF j
<1>6. Follows(M, [M EXCEPT ![m] = j]) /\ [M EXCEPT ![m] = j][m] = j
  BY <1>2, <1>4, OneFollows DEF SameBut, Halted
<1> QED BY <1>4, <1>5, <1>6 DEF SameBut

\* After a tool, what the run was steered with is heard.
LEMMA UseToolGoes ==
  ASSUME NEW A, NEW M, Follows(A, M), Fine(M), NEW m \in Members, M[m].phase = "turn",
         ~M[m].aborted, Heard(M[m]), UseTool(M, m), team \in Teams
  PROVE  Goes(A)
<1>1. Follows(M, drainSteering(M, m))
  BY DrainFollows
<1>2. Goes(M)
  BY <1>1, PutGoes DEF UseTool
<1> QED BY <1>2, GoesTrans

\* The run of a member is over.
Over(k, phase) == [k EXCEPT !.phase = phase]

\* Nothing but the place changes.
LEMMA OverFollows ==
  ASSUME NEW M, Fine(M), NEW m \in Members, M[m].phase = "turn", ~M[m].aborted, Heard(M[m]),
         NEW phase, phase = "refused" \/ (phase = "returned" /\ M[m].steering = <<>>)
  PROVE  Follows(M, [M EXCEPT ![m] = Over(M[m], phase)])
<1> DEFINE k == M[m]
           j == Over(k, phase)
<1>1. Sound(k) /\ k \in Member /\ Numbered(k) /\ Placed(k)
  BY DEF Fine, Sound
<1>2. ~Halted(k) /\ k.status # "none" /\ Continuous(k)
  BY <1>1 DEF Sound, Placed, Halted, Alive
<1>3. /\ j.status = k.status /\ j.parent = k.parent
      /\ j.depth = k.depth /\ j.phase = phase /\ j.aborted = k.aborted
      /\ j.permit = k.permit /\ j.sent = k.sent /\ j.heard = k.heard
      /\ j.inputs = k.inputs /\ j.steering = k.steering
  BY <1>1 DEF Member, Over
<1>4. j \in Member
  BY <1>1, PhasesAre DEF Member, Over
<1> HIDE DEF j
<1>5. Numbered(j)
  BY <1>1, <1>3 DEF Numbered
<1>6. Continuous(j)
  <2>1. Len(j.inputs) + Len(j.heard) <= j.sent
    BY <1>3 DEF Heard
  <2>2. j.sent <= Len(j.inputs) + Len(j.heard) + Len(j.steering)
    BY <1>2, <1>3 DEF Continuous
  <2> QED BY <2>1, <2>2, <1>3 DEF Continuous, Steerable
<1>7. Placed(j)
  BY <1>1, <1>2, <1>3 DEF Placed, Halted
<1>8. Sound(j) /\ (Halted(j) <=> Halted(k))
  BY <1>3, <1>4, <1>5, <1>6, <1>7 DEF Sound, Halted
<1>9. Follows(M, [M EXCEPT ![m] = j])
  BY <1>2, <1>3, <1>8, OneFollows
<1> QED BY <1>9 DEF j

\* The last answer of a run: another turn, or the end.
LEMMA CloseGoes ==
  ASSUME NEW M, Fine(M), NEW m \in Members, M[m].phase = "turn", ~M[m].aborted, Heard(M[m]),
         NEW tickets, Close(M, m, tickets), team \in Teams
  PROVE  Goes(M)
<1> DEFINE k == M[m]
<1>1. M \in [Members -> Member] /\ Sound(k) /\ k \in Member /\ Numbered(k) /\ Placed(k)
  BY DEF Fine, Sound
<1>2. ~Halted(k) /\ k.status # "none" /\ Continuous(k)
  BY <1>1 DEF Sound, Placed, Halted, Alive
<1>3. CASE k.steering # <<>>
  <2> DEFINE N == drainSteering(M, m)
  <2>1. Follows(M, N) /\ N[m].phase = "turn" /\ N \in [Members -> Member]
    <3>1. Follows(M, N) /\ N[m].phase = "turn"
      BY DrainFollows
    <3> QED BY <3>1 DEF Follows, Kept
  <2> HIDE DEF N
  <2>2. [N EXCEPT ![m].phase = "turn"] = N
    <3>1. N[m] \in Member
      BY <2>1
    <3>2. [N[m] EXCEPT !.phase = "turn"] = N[m]
      BY <3>1, <2>1 DEF Member
    <3> QED BY <3>2, <2>1
  <2>3. Put([drainSteering(M, m) EXCEPT ![m].phase = "turn"], tickets)
    BY <1>3 DEF Close
  <2>4. Put(N, tickets)
    BY <2>2, <2>3 DEF N
  <2> QED BY <2>1, <2>4, PutGoes
<1>4. CASE k.steering = <<>>
  <2>1. Put([M EXCEPT ![m] = Over(k, "returned")], tickets)
    BY <1>1, <1>4 DEF Close, Over
  <2>2. Follows(M, [M EXCEPT ![m] = Over(k, "returned")])
    BY <1>2, <1>4, OverFollows
  <2> QED BY <2>1, <2>2, PutGoes
<1> QED BY <1>3, <1>4

-----------------------------------------------------------------------------
(* The actions.                                                             *)

Holding(M) == {m \in Members : M[m].permit}

\* What a step needs to start from, and leads to.
Base(A) ==
  /\ Fine(A) /\ Cardinality(Holding(A)) <= MaxConcurrent
  /\ team = "open" => Spared(A)

\* The sets of members that hold a permit are finite.
LEMMA HoldingFinite ==
  ASSUME NEW S, S \subseteq Members
  PROVE  IsFiniteSet(S) /\ Cardinality(S) \in Nat
<1>1. IsFiniteSet(Members)
  BY AgentTeamAssumption
<1>2. IsFiniteSet(S)
  BY <1>1, FS_Subset
<1> QED BY <1>2, FS_CardinalityType

\* The invariant is where every step starts.
LEMMA InvBase == ASSUME IInv PROVE Base(members) /\ Fine(members) /\ team \in Teams
<1>1. Active = Holding(members)
  BY DEF Active, Holding
<1> QED BY <1>1 DEF IInv, Base, Teams

\* A step that goes on from such instances keeps the invariant.
LEMMA GoesInv ==
  ASSUME NEW A, Base(A), Goes(A)
  PROVE  IInv'
<1>1. Fine(members')
  BY KeptFine DEF Base, Goes
<1>2. Cardinality(Holding(members')) <= MaxConcurrent
  <2>1. Holding(members') \subseteq Holding(A)
    BY DEF Goes, Thrifty, Holding
  <2>2. Holding(A) \subseteq Members /\ Holding(members') \subseteq Members
    BY DEF Holding
  <2>3. /\ IsFiniteSet(Holding(A)) /\ Cardinality(Holding(A)) \in Nat
        /\ Cardinality(Holding(members')) \in Nat
    BY <2>2, HoldingFinite
  <2>4. Cardinality(Holding(members')) <= Cardinality(Holding(A))
    BY <2>1, <2>3, FS_Subset
  <2> QED BY <2>3, <2>4, Limits DEF Base
<1>3. ASSUME team' = "open" PROVE Spared(members')
  <2>1. team = "open" /\ Covered(A, members') /\ Kept(A, members')
    BY <1>3 DEF Goes
  <2>2. Spared(A) /\ Tree(A)
    BY <1>3, <2>1 DEF Base, Fine
  <2> SUFFICES ASSUME NEW m \in Members \ {Leader}, members'[m].status # "none",
                      Halted(members'[members'[m].parent])
               PROVE  Halted(members'[m])
    BY DEF Spared
  <2>3. A[m].status # "none" /\ A[m].parent = members'[m].parent
    BY <2>1 DEF Kept
  <2> DEFINE p == A[m].parent
  <2>4. p \in Members /\ Halted(members'[p])
    BY <2>2, <2>3 DEF Tree
  <2>5. CASE Halted(A[p])
    <3>1. Halted(A[m])
      BY <2>2, <2>3, <2>5 DEF Spared
    <3> QED BY <3>1, <1>3, <2>1 DEF Kept
  <2>6. CASE ~Halted(A[p])
    BY <2>1, <2>4, <2>6 DEF Covered
  <2> QED BY <2>5, <2>6
<1>4. team' \in Teams
  BY DEF Goes
<1>5. Active' = Holding(members')
  BY DEF Active, Holding
<1> QED BY <1>1, <1>2, <1>3, <1>4, <1>5 DEF IInv, Teams

\* Instances as they are follow from themselves.
LEMMA FollowsSelf == ASSUME NEW M, Fine(M) PROVE Follows(M, M)
BY DEF Follows, Kept, Thrifty, Covered, Fine

\* A step of one member that does not stop it.
LEMMA OneInv ==
  ASSUME IInv, NEW m \in Members, NEW k, Sound(k),
         k.parent = members[m].parent, k.depth = members[m].depth, members[m].status # "none",
         k.status # "none", Halted(k) <=> Halted(members[m]),
         k.permit => members[m].permit, NEW tickets, Put([members EXCEPT ![m] = k], tickets)
  PROVE  IInv'
<1>1. Base(members) /\ Fine(members) /\ team \in Teams
  BY InvBase
<1>2. Follows(members, [members EXCEPT ![m] = k])
  BY <1>1, OneFollows
<1>3. Goes(members)
  BY <1>1, <1>2, PutGoes
<1> QED BY <1>1, <1>3, GoesInv

\* A member's task asks for a permit.
LEMMA EnterInv == ASSUME IInv, NEW m \in Members, Enter(m) PROVE IInv'
<1> DEFINE k == members[m]
           j == Moved(k, "acquiring")
<1>1. Sound(k) /\ members \in [Members -> Member]
  BY DEF IInv, Fine
<1>2. k.phase = "launched" /\ ~k.aborted
  BY DEF Enter, In
<1>3. k.status # "none"
  BY <1>1, <1>2 DEF Sound, Placed
<1>4. Sound(j) /\ j.parent = k.parent /\ j.depth = k.depth /\ j.permit = k.permit
      /\ j.status = k.status /\ j.aborted = k.aborted
  BY <1>1, <1>2, MovedSound
<1>5. Put([members EXCEPT ![m] = j], Append(queue, m))
  BY <1>1 DEF Enter, Moved
<1> HIDE DEF j
<1> QED BY <1>3, <1>4, <1>5, OneInv DEF Halted

\* A wait is over.
LEMMA ReacquireInv == ASSUME IInv, NEW m \in Members, Reacquire(m) PROVE IInv'
<1> DEFINE k == members[m]
           j == Moved(k, Resumption[k.phase])
<1>1. Sound(k) /\ members \in [Members -> Member]
  BY DEF IInv, Fine
<1>2. k.phase \in Yielded /\ ~k.aborted
  BY DEF Reacquire
<1>3. k.status # "none"
  BY <1>1, <1>2, PhasesAre DEF Sound, Placed
<1>4. Sound(j) /\ j.parent = k.parent /\ j.depth = k.depth /\ j.permit = k.permit
      /\ j.status = k.status /\ j.aborted = k.aborted
  BY <1>1, <1>2, MovedSound
<1>5. Put([members EXCEPT ![m] = j], Append(queue, m))
  BY <1>1 DEF Reacquire, Moved
<1> HIDE DEF j
<1> QED BY <1>3, <1>4, <1>5, OneInv DEF Halted

\* Where a member gets a permit, one was left.
LEMMA PermitBase ==
  ASSUME IInv, NEW m \in Members, Cardinality(Active) < MaxConcurrent, NEW k, Sound(k),
         k.parent = members[m].parent, k.depth = members[m].depth,
         ~Halted(members[m]) /\ members[m].status # "none", ~Halted(k) /\ k.status # "none"
  PROVE  LET A == [members EXCEPT ![m] = k] IN Base(A) /\ Fine(A) /\ A[m] = k
<1> DEFINE A == [members EXCEPT ![m] = k]
<1>1. Base(members) /\ Fine(members)
  BY InvBase
<1>2. Kept(members, A) /\ A[m] = k /\ \A x \in Members \ {m} : A[x] = members[x]
  BY <1>1, OneKept
<1> HIDE DEF A
<1>3. Fine(A)
  BY <1>1, <1>2, KeptFine
<1>4. Cardinality(Holding(A)) <= MaxConcurrent
  <2>1. Holding(A) \subseteq Active \cup {m}
    BY <1>2 DEF Holding, Active
  <2>2. IsFiniteSet(Active) /\ Cardinality(Active) \in Nat
    BY HoldingFinite DEF Active
  <2>3. /\ IsFiniteSet(Active \cup {m})
        /\ Cardinality(Active \cup {m}) \in {Cardinality(Active), Cardinality(Active) + 1}
    BY <2>2, FS_AddElement
  <2>4. Holding(A) \subseteq Members
    BY DEF Holding
  <2>5. Cardinality(Holding(A)) \in Nat
    BY <2>4, HoldingFinite
  <2>6. Cardinality(Holding(A)) <= Cardinality(Active \cup {m})
    BY <2>1, <2>3, FS_Subset
  <2> QED BY <2>2, <2>3, <2>5, <2>6, Limits
<1>5. ASSUME team = "open" PROVE Spared(A)
  <2>1. Spared(members) /\ Tree(members)
    BY <1>1, <1>5 DEF Base, Fine
  <2>2. \A x \in Members : /\ A[x].parent = members[x].parent
                           /\ A[x].status = "none" <=> members[x].status = "none"
                           /\ Halted(A[x]) <=> Halted(members[x])
    <3> SUFFICES ASSUME NEW x \in Members
                 PROVE  /\ A[x].parent = members[x].parent
                        /\ A[x].status = "none" <=> members[x].status = "none"
                        /\ Halted(A[x]) <=> Halted(members[x])
      OBVIOUS
    <3>1. CASE x = m
      BY <3>1, <1>2
    <3>2. CASE x # m
      BY <3>2, <1>2
    <3> QED BY <3>1, <3>2
  <2> QED BY <2>1, <2>2 DEF Spared, Tree
<1> QED BY <1>2, <1>3, <1>4, <1>5 DEF Base, A

\* A run starts.
LEMMA BeginInv == ASSUME IInv, NEW m \in Members, Begin(m) PROVE IInv'
<1> DEFINE k == members[m]
           j == Begun(k)
           A == [members EXCEPT ![m] = j]
<1>1. Sound(k) /\ members \in [Members -> Member] /\ k \in Member /\ team \in Teams
  BY DEF IInv, Fine, Teams
<1>2. k.phase = "acquiring" /\ ~k.aborted /\ Cardinality(Active) < MaxConcurrent
  BY DEF Begin, In, Available
<1>3. ~Halted(k) /\ k.status # "none"
  BY <1>1, <1>2 DEF Sound, Placed, Halted
<1>4. Sound(j) /\ j.parent = k.parent /\ j.depth = k.depth /\ ~Halted(j) /\ j.status # "none"
  BY <1>1, <1>2, BegunSound
<1>5. Put(A, Tail(queue))
  <2> DEFINE p == Permitted(k)
             P == [members EXCEPT ![m] = p]
             N == Pending(members, m)
  <2>1. Acquired(m) = P
    BY <1>1 DEF Acquired, Permitted
  <2>2. N = New(k)
    BY DEF Pending, New, NewIn
  <2>3. Put([Acquired(m) EXCEPT ![m].heard = @ \o Ids(N), ![m].inputs = Submitted(@)], Tail(queue))
    BY DEF Begin
  <2>4. Put([P EXCEPT ![m].heard = @ \o Ids(N), ![m].inputs = Submitted(@)], Tail(queue))
    BY <2>1, <2>3
  <2>5. P[m] = p
    <3> HIDE DEF p
    <3> QED BY <1>1
  <2> DEFINE Q == [p EXCEPT !.heard = @ \o Ids(N), !.inputs = Submitted(@)]
  <2>6. [P EXCEPT ![m].heard = @ \o Ids(N), ![m].inputs = Submitted(@)] = [P EXCEPT ![m] = Q]
    <3> HIDE DEF p, N, P
    <3> QED BY <2>5
  <2>7. Q = j
    BY <2>2 DEF Begun
  <2>8. [P EXCEPT ![m] = Q] = [members EXCEPT ![m] = Q]
    <3> HIDE DEF p, Q
    <3> QED BY <1>1
  <2> HIDE DEF P, Q, N
  <2> QED BY <2>4, <2>6, <2>7, <2>8
<1> HIDE DEF j
<1>6. Base(A) /\ Fine(A)
  BY <1>2, <1>3, <1>4, PermitBase
<1> HIDE DEF A
<1>7. Goes(A)
  BY <1>1, <1>5, <1>6, FollowsSelf, PutGoes
<1> QED BY <1>6, <1>7, GoesInv

\* A run goes on with its permit back.
LEMMA ResumeInv == ASSUME IInv, NEW m \in Members, Resume(m) PROVE IInv'
<1> DEFINE k == members[m]
           p == Permitted(k)
           P == [members EXCEPT ![m] = p]
<1>1. Sound(k) /\ members \in [Members -> Member] /\ k \in Member /\ team \in Teams
  BY DEF IInv, Fine, Teams
<1>2. k.phase \in Range(Resumption) /\ ~k.aborted /\ Cardinality(Active) < MaxConcurrent
  BY DEF Resume, Available
<1>3. ~Halted(k) /\ k.status # "none"
  BY <1>1, <1>2, PhasesAre DEF Sound, Placed, Halted
<1>4. Acquired(m) = P
  BY <1>1 DEF Acquired, Permitted
<1>5. /\ p \in Member /\ Heard(p) /\ p.parent = k.parent /\ p.depth = k.depth /\ ~p.aborted
      /\ ~Halted(p) /\ p.status # "none" /\ p.phase = "turn"
      /\ k.phase \in Steerable => Sound(p)
  BY <1>1, <1>2, PermittedSound
<1>6. CASE k.phase = "rechildren"
  <2>1. Close(P, m, Tail(queue))
    BY <1>4, <1>6 DEF Resume, In
  <2>2. Sound(p)
    BY <1>5, <1>6 DEF Steerable
  <2> HIDE DEF p
  <2>3. Base(P) /\ Fine(P) /\ P[m] = p
    BY <1>2, <1>3, <1>5, <2>2, PermitBase
  <2> HIDE DEF P
  <2>4. Goes(P)
    BY <1>1, <1>5, <2>1, <2>3, CloseGoes
  <2> QED BY <2>3, <2>4, GoesInv
<1>7. CASE k.phase # "rechildren"
  <2> DEFINE s == Steered(p)
             j == Drained(s)
             S == submitInputs(P, m)
             A == [members EXCEPT ![m] = j]
  <2>1. Put(drainSteering(S, m), Tail(queue))
    BY <1>4, <1>7 DEF Resume, In
  <2>2. Sound(j) /\ j.parent = k.parent /\ j.depth = k.depth
        /\ ~Halted(j) /\ j.status # "none"
    BY <1>1, <1>2, ResumedSound
  <2>3. /\ p \in Member /\ Numbered(p) /\ p.phase = "turn" /\ ~p.aborted
        /\ p.sent <= Len(p.inputs) + Len(p.heard) + Len(p.steering)
    BY <1>1, <1>2, PermittedSound
  <2> HIDE DEF p
  <2>4. P \in [Members -> Member] /\ P[m] = p
    BY <1>1, <1>5
  <2>5. S = [P EXCEPT ![m] = s]
    BY <2>4, OnOne
  <2>6. s \in Member
    BY <2>3, SteeredNumbered DEF Steerable
  <2> HIDE DEF s, P, S
  <2>7. S = [members EXCEPT ![m] = s] /\ S[m] = s /\ S \in [Members -> Member]
    BY <2>5, <2>6, <1>1 DEF P
  <2>8. drainSteering(S, m) = [S EXCEPT ![m] = j]
    BY <2>7, OnOne
  <2> HIDE DEF j
  <2>9. drainSteering(S, m) = A
    BY <2>7, <2>8, <1>1
  <2>10. Base(A) /\ Fine(A)
    BY <1>2, <1>3, <2>2, PermitBase
  <2> HIDE DEF A
  <2>11. Goes(A)
    BY <1>1, <2>1, <2>9, <2>10, FollowsSelf, PutGoes
  <2> QED BY <2>10, <2>11, GoesInv
<1> QED BY <1>6, <1>7

\* The team fails: the resolver throws, the turns are used up, or the host cancels.
LEMMA FailInv == ASSUME IInv, NEW tickets, fail(members, tickets) PROVE IInv'
<1>1. Base(members) /\ Fine(members) /\ team \in Teams
  BY InvBase
<1> QED BY <1>1, FailGoes, GoesInv

\* A task is aborted where it waits.
LEMMA AbortedInv == ASSUME IInv, NEW m \in Members, Aborted(m) PROVE IInv'
<1>1. Base(members) /\ Fine(members) /\ team \in Teams
  BY InvBase
<1>2. Catch(members, m, queue) /\ members[m].phase # "none"
  BY DEF Aborted
<1>3. members[m].status # "none"
  BY <1>1, <1>2 DEF Fine, Sound, Placed
<1>4. Goes(members)
  BY <1>1, <1>2, <1>3, CatchGoes
<1> QED BY <1>1, <1>4, GoesInv

\* runMember() goes on after a run.
LEMMA ReturnInv == ASSUME IInv, NEW m \in Members, Return(m) PROVE IInv'
<1> DEFINE k == members[m]
<1>1. Base(members) /\ Fine(members) /\ team \in Teams
  BY InvBase
<1>2. Sound(k) /\ k.status # "none"
  BY <1>1 DEF Fine, Sound, Placed, Return, Returned
<1>3. CASE k.phase = "returned"
  <2>1. Finish(members, m, "response", queue)
    BY <1>3 DEF Return, Returned
  <2>2. k.status # "failed"
    BY <1>2, <1>3 DEF Sound, Placed
  <2>3. Alive(k) => Heard(k) /\ k.steering = <<>>
    BY <1>2, <1>3 DEF Sound, Continuous, Heard, Steerable
  <2>4. Goes(members)
    BY <1>1, <1>2, <2>1, <2>2, <2>3, AnsweredGoes
  <2> QED BY <1>1, <2>4, GoesInv
<1>4. CASE k.phase = "refused"
  <2>1. Finish(members, m, "blocked", queue)
    BY <1>4 DEF Return, Returned
  <2>2. Goes(members)
    BY <1>1, <1>2, <2>1, BlockedGoes
  <2> QED BY <1>1, <2>2, GoesInv
<1> QED BY <1>3, <1>4 DEF Return, Returned

\* A task ends.
LEMMA LeaveInv == ASSUME IInv, NEW m \in Members, Leave(m) PROVE IInv'
<1> DEFINE k == members[m]
           j == Left(k)
           L == [members EXCEPT ![m] = j]
<1>1. Base(members) /\ Fine(members) /\ team \in Teams
  BY InvBase
<1>2. Sound(k) /\ members \in [Members -> Member]
  BY <1>1 DEF Fine
<1>3. k.phase = "leaving"
  BY DEF Leave, In
<1>4. /\ Sound(j) /\ j.parent = k.parent /\ j.depth = k.depth /\ j.permit = FALSE
      /\ j.status = k.status /\ j.inputs = k.inputs /\ j.aborted = k.aborted
  BY <1>2, <1>3, LeftSound
<1>5. k.status # "none"
  BY <1>2, <1>3 DEF Sound, Placed
<1>6. [members EXCEPT ![m].permit = FALSE, ![m].phase = "none"] = L
  BY <1>2 DEF Left
<1>7. Put(IF L[m].status = "idle" /\ L[m].inputs # <<>> THEN launch(L, m) ELSE L, queue)
  BY <1>3, <1>6 DEF Leave, In
<1> HIDE DEF j
<1>8. Follows(members, L) /\ L[m] = j
  BY <1>1, <1>4, <1>5, OneFollows DEF Halted
<1> HIDE DEF L
<1>9. Fine(L)
  BY <1>1, <1>8, KeptFine DEF Follows
<1>10. CASE L[m].status = "idle" /\ L[m].inputs # <<>>
  <2> DEFINE i == Launched(j)
  <2>1. /\ Sound(i)
        /\ i.parent = j.parent /\ i.depth = j.depth /\ i.permit = j.permit
        /\ i.status # "none" /\ (j.status # "failed" => (Halted(i) <=> Halted(j)))
    BY <1>4, <1>5, <1>8, <1>10, LaunchedSound
  <2>2. launch(L, m) = [L EXCEPT ![m] = i]
    BY <1>8, <1>9, OnOne DEF Fine
  <2> HIDE DEF i
  <2>3. Follows(L, launch(L, m))
    <3>1. /\ i.parent = L[m].parent /\ i.depth = L[m].depth /\ i.permit = L[m].permit
          /\ L[m].status # "none" /\ (Halted(i) <=> Halted(L[m]))
      BY <1>4, <1>5, <1>8, <1>10, <2>1
    <3>2. Follows(L, [L EXCEPT ![m] = i])
      BY <1>9, <2>1, <3>1, OneFollows
    <3> QED BY <3>2, <2>2
  <2>4. Goes(L)
    BY <1>1, <1>7, <1>10, <2>3, PutGoes
  <2>5. Goes(members)
    BY <1>8, <2>4, GoesTrans
  <2> QED BY <1>1, <2>5, GoesInv
<1>11. CASE ~(L[m].status = "idle" /\ L[m].inputs # <<>>)
  <2>1. Goes(members)
    BY <1>1, <1>7, <1>8, <1>11, PutGoes
  <2> QED BY <1>1, <2>1, GoesInv
<1> QED BY <1>10, <1>11

\* The instances when a member has called the model.
LEMMA CalledFollows ==
  ASSUME IInv, NEW m \in Members, Working(m)
  PROVE  LET C == Called(m) IN
         /\ Follows(members, C) /\ Fine(C) /\ C \in [Members -> Member]
         /\ C[m].phase = "turn" /\ ~C[m].aborted /\ Heard(C[m])
         /\ ~Halted(C[m]) /\ C[m].status # "none" /\ SameBut(members[m], C[m])
         /\ \A x \in Members \ {m} : C[x] = members[x]
         /\ Len(C[m].inputs) <= Len(members[m].inputs)
<1> DEFINE k == members[m]
           j == Read(k)
           C == [members EXCEPT ![m] = j]
<1>1. Fine(members) /\ members \in [Members -> Member] /\ Sound(k)
  BY DEF IInv, Fine
<1>2. k.phase = "turn" /\ ~k.aborted
  BY DEF Working, In
<1>3. ~Halted(k) /\ k.status # "none"
  BY <1>1, <1>2 DEF Sound, Placed, Halted
<1>4. Sound(j) /\ SameBut(k, j) /\ Heard(j) /\ Len(j.inputs) <= Len(k.inputs)
  BY <1>1, <1>2, ReadSound
<1>5. Called(m) = C
  BY <1>1, OnOne DEF Called
<1> HIDE DEF j
<1>6. Follows(members, C) /\ C[m] = j /\ \A x \in Members \ {m} : C[x] = members[x]
  BY <1>1, <1>3, <1>4, OneFollows DEF SameBut, Halted
<1> HIDE DEF C
<1>7. Fine(C) /\ C \in [Members -> Member]
  BY <1>1, <1>6, KeptFine DEF Follows, Kept
<1> QED BY <1>2, <1>3, <1>4, <1>5, <1>6, <1>7 DEF SameBut, Halted

\* A tool outside the team.
LEMMA otherToolInv == ASSUME IInv, NEW m \in Members, otherTool(m) PROVE IInv'
<1> DEFINE C == Called(m)
<1>1. Base(members) /\ team \in Teams
  BY InvBase
<1>2. Working(m) /\ UseTool(C, m)
  BY DEF otherTool, Takes
<1>3. Follows(members, C) /\ Fine(C) /\ C[m].phase = "turn" /\ ~C[m].aborted /\ Heard(C[m])
  BY <1>2, CalledFollows
<1> HIDE DEF C
<1>4. Goes(members)
  BY <1>1, <1>2, <1>3, UseToolGoes
<1> QED BY <1>1, <1>4, GoesInv

\* A message to another member.
LEMMA sendInv == ASSUME IInv, NEW m \in Members, NEW r \in Members, send(m, r) PROVE IInv'
<1> DEFINE C == Called(m)
           E == enqueue(C, r)
<1>1. Base(members) /\ Fine(members) /\ team \in Teams
  BY InvBase
<1>2. /\ Working(m) /\ canAccess(m, r) /\ members[r].status \notin Stopped
      /\ UseTool(IF Full(members, r) THEN C ELSE E, m)
  BY DEF send, Takes
<1>3. /\ Follows(members, C) /\ Fine(C) /\ C[m].phase = "turn" /\ ~C[m].aborted /\ Heard(C[m])
      /\ ~Halted(C[m]) /\ C[m].status # "none" /\ SameBut(members[m], C[m])
      /\ \A x \in Members \ {m} : C[x] = members[x]
      /\ Len(C[m].inputs) <= Len(members[m].inputs)
  BY <1>2, CalledFollows
<1>4. C[r].status \notin {"failed", "none"}
  <2>1. members[r].status # "none"
    <3>1. Tree(members) /\ members[m].status # "none"
      BY <1>1, <1>3 DEF Fine, SameBut
    <3>2. CASE members[m].parent = r
      <4>1. m # Leader
        BY <3>1, <3>2, Limits DEF Tree
      <4> QED BY <3>1, <3>2, <4>1 DEF Tree
    <3>3. CASE members[r].parent = m
      BY <3>1, <3>3, Limits DEF Tree
    <3>4. CASE m # Leader /\ members[r].parent = members[m].parent
      <4>1. members[m].parent \in Members
        BY <3>1, <3>4 DEF Tree
      <4> QED BY <3>1, <3>4, <4>1, Limits DEF Tree
    <3> QED BY <3>2, <3>3, <3>4, <1>2 DEF canAccess
  <2>2. C[r].status = members[r].status
    BY <1>3 DEF SameBut
  <2> QED BY <2>1, <2>2, <1>2 DEF Stopped
<1> HIDE DEF C
<1>5. CASE Full(members, r)
  <2>1. UseTool(C, m)
    BY <1>2, <1>5
  <2>2. Goes(members)
    BY <1>1, <1>3, <2>1, UseToolGoes
  <2> QED BY <1>1, <2>2, GoesInv
<1>6. CASE ~Full(members, r)
  <2>1. ~Full(C, r)
    <3> DEFINE a == Len(C[r].inputs)
               b == Len(members[r].inputs)
    <3>1. C[r] \in Member /\ members[r] \in Member
      BY <1>1, <1>3 DEF Fine
    <3>2. a \in Nat /\ b \in Nat
      BY <3>1, Fields
    <3>3. a <= b
      <4>1. CASE r = m
        BY <4>1, <1>3
      <4>2. CASE r # m
        <5>1. a = b
          BY <4>2, <1>3
        <5> HIDE DEF a, b
        <5> QED BY <5>1, <3>2
      <4> QED BY <4>1, <4>2
    <3>4. ~(b >= MaxPending)
      BY <1>6 DEF Full
    <3> HIDE DEF a, b
    <3>5. ~(a >= MaxPending)
      BY <3>2, <3>3, <3>4, Limits
    <3> QED BY <3>5 DEF Full, a
  <2>2. /\ Follows(C, E)
        /\ \A x \in Members \ {r} : E[x] = C[x]
        /\ E[r].aborted = C[r].aborted
        /\ C[r].phase # "none" => E[r].phase = C[r].phase
        /\ Heard(C[r]) => Heard(E[r])
    BY <1>3, <1>4, <2>1, EnqueueFollows
  <2>3. UseTool(E, m)
    BY <1>2, <1>6
  <2> HIDE DEF E
  <2>4. Follows(members, E)
    BY <1>3, <2>2, FollowsTrans
  <2>5. Fine(E)
    BY <1>3, <2>2, KeptFine DEF Follows
  <2>6. E[m].phase = "turn" /\ ~E[m].aborted /\ Heard(E[m])
    <3>1. CASE r = m
      BY <3>1, <1>3, <2>2
    <3>2. CASE r # m
      BY <3>2, <1>3, <2>2
    <3> QED BY <3>1, <3>2
  <2>7. Goes(members)
    BY <1>1, <2>3, <2>4, <2>5, <2>6, UseToolGoes
  <2> QED BY <1>1, <2>7, GoesInv
<1> QED BY <1>5, <1>6

\* A child is cancelled, and whoever is below it.
LEMMA cancelMemberInv ==
  ASSUME IInv, NEW m \in Members, NEW c \in Members, cancelMember(m, c)
  PROVE  IInv'
<1> DEFINE C == Called(m)
           k == stopMember(C[c])
           S == stopDescendants([C EXCEPT ![c] = k], c)
           R == reportOutcome(S, c)
<1>1. Base(members) /\ Fine(members) /\ team \in Teams
  BY InvBase
<1>2. Working(m) /\ members[c].parent = m
  BY DEF cancelMember, Takes
<1>3. /\ Follows(members, C) /\ Fine(C) /\ C[m].phase = "turn" /\ ~C[m].aborted /\ Heard(C[m])
      /\ C \in [Members -> Member] /\ SameBut(members[m], C[m])
      /\ \A x \in Members \ {m} : C[x] = members[x]
  BY <1>2, CalledFollows
<1>4. UseTool(IF S[c].phase = "none" /\ ~ReportFails(S, c) THEN R ELSE S, m)
  BY DEF cancelMember
<1>5. /\ c # m /\ C[c].status # "none" /\ C[c].parent = m
      /\ C[m].depth <= C[c].depth
  <2>1. Tree(C)
    BY <1>3 DEF Fine
  <2>2. C[c].parent = m
    BY <1>2, <1>3 DEF SameBut
  <2>3. c \in Children(C, m)
    BY <2>2 DEF Children
  <2>4. C[c].status # "none" /\ C[c].depth = C[m].depth + 1 /\ C[m].depth \in Nat
    BY <1>3, <2>1, <2>3, ChildOf
  <2>5. c # m /\ C[m].depth <= C[c].depth
    BY <2>4
  <2> QED BY <2>2, <2>4, <2>5
<1> HIDE DEF C
<1>6. /\ Sound(k) /\ k.parent = C[c].parent /\ k.depth = C[c].depth /\ k.permit = C[c].permit
      /\ k.status \in Stopped
  <2>1. Sound(C[c])
    BY <1>3 DEF Fine
  <2>2. /\ Sound(k) /\ k.parent = C[c].parent /\ k.depth = C[c].depth
        /\ k.permit = C[c].permit /\ k.status = "cancelled"
    BY <2>1, <1>5, StoppedSound
  <2> HIDE DEF k
  <2> QED BY <2>2 DEF Stopped
<1> HIDE DEF k
<1>7. Follows(C, S) /\ S[c] = k /\ S[m] = C[m]
  <2>1. Fine(C) /\ C[c].status # "none"
    BY <1>3, <1>5
  <2>2. /\ Follows(C, S) /\ S[c] = stopMember(C[c])
        /\ \A x \in Members : x = C[c].parent => S[x] = C[x]
    BY <2>1, CancelFollows DEF k
  <2> HIDE DEF S
  <2> QED BY <2>2, <1>5 DEF k
<1> HIDE DEF S
<1>8. Fine(S) /\ Follows(members, S)
  BY <1>3, <1>7, KeptFine, FollowsTrans DEF Follows
<1>9. CASE ~(S[c].phase = "none" /\ ~ReportFails(S, c))
  <2>1. UseTool(S, m)
    BY <1>4, <1>9
  <2>2. Goes(members)
    BY <1>1, <1>3, <1>7, <1>8, <2>1, UseToolGoes
  <2> QED BY <1>1, <2>2, GoesInv
<1>10. CASE S[c].phase = "none" /\ ~ReportFails(S, c)
  <2>1. UseTool(R, m)
    BY <1>4, <1>10
  <2>2. S[c].status # "none"
    BY <1>6, <1>7 DEF Stopped
  <2>3. /\ Follows(S, R)
        /\ S[m].phase # "none" =>
             /\ R[m].phase = S[m].phase /\ R[m].aborted = S[m].aborted
             /\ Heard(S[m]) => Heard(R[m])
    BY <1>8, <1>10, <2>2, ReportFollows
  <2> HIDE DEF R
  <2>4. R[m].phase = "turn" /\ ~R[m].aborted /\ Heard(R[m])
    BY <1>3, <1>7, <2>3
  <2>5. Fine(R) /\ Follows(members, R)
    BY <1>8, <2>3, KeptFine, FollowsTrans DEF Follows
  <2>6. Goes(members)
    BY <1>1, <2>1, <2>4, <2>5, UseToolGoes
  <2> QED BY <1>1, <2>6, GoesInv
<1> QED BY <1>9, <1>10

\* Waiting for messages.
LEMMA waitInv == ASSUME IInv, NEW m \in Members, wait(m) PROVE IInv'
<1> DEFINE C == Called(m)
           j == Yielding(C[m], "waiting")
<1>1. Base(members) /\ team \in Teams
  BY InvBase
<1>2. Working(m) /\ Put(yieldSlot(C, m, "waiting"), queue)
  BY DEF wait, Takes
<1>3. /\ Follows(members, C) /\ Fine(C) /\ C \in [Members -> Member]
      /\ C[m].phase = "turn" /\ ~C[m].aborted /\ Heard(C[m])
      /\ ~Halted(C[m]) /\ C[m].status # "none" /\ Sound(C[m])
  BY <1>2, CalledFollows DEF Fine
<1> HIDE DEF C
<1>4. "waiting" \in Yielded
  BY PhasesAre
<1>5. /\ Sound(j) /\ j.parent = C[m].parent /\ j.depth = C[m].depth /\ j.permit = FALSE
      /\ ~Halted(j) /\ j.status # "none"
  BY <1>3, <1>4, YieldingSound
<1>6. yieldSlot(C, m, "waiting") = [C EXCEPT ![m] = j]
  BY <1>3, <1>4, YieldOne
<1> HIDE DEF j
<1>7. Follows(C, yieldSlot(C, m, "waiting"))
  BY <1>3, <1>5, <1>6, OneFollows
<1>8. Goes(C)
  BY <1>1, <1>2, <1>7, PutGoes
<1>9. Goes(members)
  BY <1>3, <1>8, GoesTrans
<1> QED BY <1>1, <1>9, GoesInv

\* Waiting for a person.
LEMMA suspendInv == ASSUME IInv, NEW m \in Members, suspend(m) PROVE IInv'
<1> DEFINE C == Called(m)
           j == Yielding(C[m], "asking")
<1>1. Base(members) /\ team \in Teams
  BY InvBase
<1>2. Working(m) /\ Put(yieldSlot(C, m, "asking"), queue)
  BY DEF suspend, Takes
<1>3. /\ Follows(members, C) /\ Fine(C) /\ C \in [Members -> Member]
      /\ C[m].phase = "turn" /\ ~C[m].aborted /\ Heard(C[m])
      /\ ~Halted(C[m]) /\ C[m].status # "none" /\ Sound(C[m])
  BY <1>2, CalledFollows DEF Fine
<1> HIDE DEF C
<1>4. "asking" \in Yielded
  BY PhasesAre
<1>5. /\ Sound(j) /\ j.parent = C[m].parent /\ j.depth = C[m].depth /\ j.permit = FALSE
      /\ ~Halted(j) /\ j.status # "none"
  BY <1>3, <1>4, YieldingSound
<1>6. yieldSlot(C, m, "asking") = [C EXCEPT ![m] = j]
  BY <1>3, <1>4, YieldOne
<1> HIDE DEF j
<1>7. Follows(C, yieldSlot(C, m, "asking"))
  BY <1>3, <1>5, <1>6, OneFollows
<1>8. Goes(C)
  BY <1>1, <1>2, <1>7, PutGoes
<1>9. Goes(members)
  BY <1>3, <1>8, GoesTrans
<1> QED BY <1>1, <1>9, GoesInv

\* The last answer: a wait for the children, or the close.
LEMMA answerInv == ASSUME IInv, NEW m \in Members, answer(m) PROVE IInv'
<1> DEFINE C == Called(m)
           j == Yielding(C[m], "children")
<1>1. Base(members) /\ team \in Teams
  BY InvBase
<1>2. Working(m) /\ (Put(yieldSlot(C, m, "children"), queue) \/ Close(C, m, queue))
  BY DEF answer, Takes
<1>3. /\ Follows(members, C) /\ Fine(C) /\ C \in [Members -> Member]
      /\ C[m].phase = "turn" /\ ~C[m].aborted /\ Heard(C[m])
      /\ ~Halted(C[m]) /\ C[m].status # "none" /\ Sound(C[m])
  BY <1>2, CalledFollows DEF Fine
<1> HIDE DEF C
<1>4. Goes(C)
  <2>1. CASE Close(C, m, queue)
    BY <2>1, <1>1, <1>3, CloseGoes
  <2>2. CASE Put(yieldSlot(C, m, "children"), queue)
    <3>1. "children" \in Yielded
      BY PhasesAre
    <3>2. /\ Sound(j) /\ j.parent = C[m].parent /\ j.depth = C[m].depth /\ j.permit = FALSE
          /\ ~Halted(j) /\ j.status # "none"
      BY <1>3, <3>1, YieldingSound
    <3>3. yieldSlot(C, m, "children") = [C EXCEPT ![m] = j]
      BY <1>3, <3>1, YieldOne
    <3> HIDE DEF j
    <3>4. Follows(C, yieldSlot(C, m, "children"))
      BY <1>3, <3>2, <3>3, OneFollows
    <3> QED BY <1>1, <2>2, <3>4, PutGoes
  <2> QED BY <2>1, <2>2, <1>2
<1>5. Goes(members)
  BY <1>3, <1>4, GoesTrans
<1> QED BY <1>1, <1>5, GoesInv

\* A guardrail.
LEMMA blockedInv == ASSUME IInv, NEW m \in Members, blocked(m) PROVE IInv'
<1> DEFINE C == Called(m)
           N == [C EXCEPT ![m] = Over(C[m], "refused")]
<1>1. Base(members) /\ team \in Teams
  BY InvBase
<1>2. Working(m) /\ Put([C EXCEPT ![m].phase = "refused"], queue)
  BY DEF blocked, Takes
<1>3. /\ Follows(members, C) /\ Fine(C) /\ C \in [Members -> Member]
      /\ C[m].phase = "turn" /\ ~C[m].aborted /\ Heard(C[m])
  BY <1>2, CalledFollows DEF Fine
<1> HIDE DEF C
<1>4. Put(N, queue)
  BY <1>2, <1>3 DEF Over
<1>5. Follows(C, N)
  BY <1>3, OverFollows
<1>6. Goes(C)
  BY <1>1, <1>4, <1>5, PutGoes
<1>7. Goes(members)
  BY <1>3, <1>6, GoesTrans
<1> QED BY <1>1, <1>7, GoesInv

\* An error.
LEMMA throwsInv == ASSUME IInv, NEW m \in Members, throws(m) PROVE IInv'
<1> DEFINE C == Called(m)
<1>1. Base(members) /\ team \in Teams
  BY InvBase
<1>2. Working(m) /\ Catch(C, m, queue)
  BY DEF throws, Takes
<1>3. Follows(members, C) /\ Fine(C) /\ C[m].status # "none"
  BY <1>2, CalledFollows
<1> HIDE DEF C
<1>4. Goes(C)
  BY <1>1, <1>2, <1>3, CatchGoes
<1>5. Goes(members)
  BY <1>3, <1>4, GoesTrans
<1> QED BY <1>1, <1>5, GoesInv

\* A member that starts with one message.
LEMMA NewSound ==
  ASSUME NEW p \in Members \cup {"none"}, NEW d \in Nat
  PROVE  LET k == NewMember(p, d) IN
         /\ Sound(k) /\ k.parent = p /\ k.depth = d /\ k.permit = FALSE /\ k.status = "queued"
         /\ k.inputs # <<>> /\ k.phase = "none" /\ ~k.aborted
         /\ Sound([k EXCEPT !.phase = "launched"])
         /\ Sound([k EXCEPT !.status = "none", !.inputs = <<>>])
<1> DEFINE k == NewMember(p, d)
           e == [id |-> 1, submitted |-> FALSE]
           j == [k EXCEPT !.phase = "launched"]
           u == [k EXCEPT !.status = "none", !.inputs = <<>>]
<1>1. /\ k.status = "queued" /\ k.parent = p /\ k.depth = d /\ k.phase = "none"
      /\ k.inputs = <<e>> /\ k.steering = <<>> /\ k.sent = 1 /\ k.heard = <<>>
      /\ k.aborted = FALSE /\ k.outcome = "none" /\ k.permit = FALSE
  BY DEF NewMember
<1>2. e \in [id : Nat, submitted : BOOLEAN] /\ e.id = 1 /\ e.submitted = FALSE
  OBVIOUS
<1>3. k \in Member
  <2>1. <<e>> \in Inputs
    BY <1>2 DEF Inputs
  <2>2. "queued" \in Statuses /\ "none" \in Phases
    BY PhasesAre DEF Statuses, Busy
  <2> HIDE DEF e
  <2> QED BY <2>1, <2>2 DEF Member, NewMember, e
<1> HIDE DEF k, e
<1>4. j \in Member /\ u \in Member
  <2>1. <<>> \in Inputs /\ "none" \in Statuses /\ "launched" \in Phases
    BY PhasesAre DEF Inputs, Statuses
  <2> QED BY <1>3, <2>1 DEF Member
<1>5. /\ j.status = "queued" /\ j.parent = p /\ j.depth = d /\ j.phase = "launched"
      /\ j.inputs = <<e>> /\ j.steering = <<>> /\ j.sent = 1 /\ j.heard = <<>>
      /\ j.aborted = FALSE /\ j.outcome = "none" /\ j.permit = FALSE
  BY <1>1, <1>3 DEF Member
<1>6. /\ u.status = "none" /\ u.parent = p /\ u.depth = d /\ u.phase = "none"
      /\ u.inputs = <<>> /\ u.steering = <<>> /\ u.sent = 1 /\ u.heard = <<>>
      /\ u.aborted = FALSE /\ u.outcome = "none" /\ u.permit = FALSE
  BY <1>1, <1>3 DEF Member
<1>7. Len(<<e>>) = 1 /\ <<e>>[1] = e /\ <<e>> # <<>>
  OBVIOUS
<1>8. ASSUME NEW x, x.inputs = <<e>>, x.steering = <<>>, x.sent = 1, x.heard = <<>>
      PROVE  Numbered(x)
  <2>1. Len(x.heard) = 0 /\ Len(x.steering) = 0 /\ Len(x.inputs) = 1
    BY <1>7, <1>8
  <2>2. \A i \in 1..1 : /\ x.inputs[i].id + 1 = 1 + i
                        /\ x.inputs[i].submitted <=> x.inputs[i].id <= 0 + 0
    BY <1>2, <1>7, <1>8
  <2> QED BY <2>1, <2>2, <1>8 DEF Numbered
<1>9. Numbered(k) /\ Numbered(j)
  BY <1>1, <1>5, <1>8
<1>10. Numbered(u)
  <2> HIDE DEF u
  <2>1. Len(u.heard) = 0 /\ Len(u.steering) = 0 /\ Len(u.inputs) = 0
    BY <1>6
  <2>2. \A n : ~(n \in 1..0)
    OBVIOUS
  <2> QED BY <2>1, <2>2, <1>6 DEF Numbered
<1> HIDE DEF j, u
<1>11. Continuous(k) /\ Continuous(j) /\ ~Alive(u)
  <2>1. Len(k.heard) = 0 /\ Len(k.steering) = 0 /\ Len(k.inputs) = 1
    BY <1>1, <1>7
  <2>2. Len(j.heard) = 0 /\ Len(j.steering) = 0 /\ Len(j.inputs) = 1
    BY <1>5, <1>7
  <2>3. Continuous(k)
    BY <2>1, <1>1 DEF Continuous, Steerable
  <2>4. Continuous(j)
    BY <2>2, <1>5, <1>7 DEF Continuous, Steerable
  <2> QED BY <2>3, <2>4, <1>6 DEF Alive
<1>12. Placed(k) /\ Placed(j) /\ Placed(u)
  <2>1. 1 <= MaxPending /\ 0 <= MaxPending
    BY Limits
  <2>2. Len(k.inputs) = 1 /\ Len(j.inputs) = 1 /\ Len(u.inputs) = 0
    BY <1>1, <1>5, <1>6, <1>7
  <2> QED BY <2>1, <2>2, <1>1, <1>5, <1>6 DEF Placed
<1>13. Sound(k) /\ Sound(j) /\ Sound(u)
  BY <1>3, <1>4, <1>9, <1>10, <1>11, <1>12 DEF Sound
<1>14. k = NewMember(p, d) /\ k.inputs # <<>>
  BY <1>1, <1>7 DEF k
<1> QED BY <1>1, <1>13, <1>14 DEF j, u

\* A member is added below the one that spawns it.
LEMMA spawnInv == ASSUME IInv, NEW m \in Members, NEW c \in Members, spawn(m, c) PROVE IInv'
<1> DEFINE C == Called(m)
           d == members[m].depth + 1
           n == NewMember(m, d)
           j == [n EXCEPT !.phase = "launched"]
           B == [C EXCEPT ![c] = n]
           A == [C EXCEPT ![c] = j]
<1>1. Base(members) /\ Fine(members) /\ team \in Teams
  BY InvBase
<1>2. /\ Working(m) /\ team = "open" /\ members[m].depth < MaxDepth
      /\ members[c].status = "none" /\ UseTool(launch(B, c), m)
  BY DEF spawn, Takes, Working
<1>3. /\ Follows(members, C) /\ Fine(C) /\ C \in [Members -> Member]
      /\ C[m].phase = "turn" /\ ~C[m].aborted /\ Heard(C[m])
      /\ ~Halted(C[m]) /\ C[m].status # "none" /\ SameBut(members[m], C[m])
      /\ \A x \in Members \ {m} : C[x] = members[x]
  BY <1>2, CalledFollows
<1> HIDE DEF C
<1>4. \A x \in Members : /\ C[x].status = members[x].status /\ C[x].parent = members[x].parent
                         /\ C[x].depth = members[x].depth
                         /\ Halted(C[x]) <=> Halted(members[x])
  BY <1>3 DEF SameBut, Halted
<1>5. Tree(C) /\ C[c].status = "none" /\ c # m /\ c # Leader
  <2>1. Tree(C)
    BY <1>3 DEF Fine
  <2>2. C[c].status = "none"
    BY <1>2, <1>4
  <2> QED BY <2>1, <2>2, <1>3 DEF Tree
<1>6. d \in Nat /\ d <= MaxDepth /\ d = C[m].depth + 1
  <2>1. members[m] \in Member
    BY <1>1 DEF Fine
  <2>2. members[m].depth \in Nat
    BY <2>1 DEF Member
  <2>3. C[m].depth = members[m].depth
    BY <1>4
  <2> QED BY <2>2, <2>3, <1>2, Limits
<1> HIDE DEF d
<1>7. /\ n.status = "queued" /\ n.phase = "none" /\ ~n.aborted /\ n.permit = FALSE
      /\ n.parent = m /\ n.depth = d /\ Sound(n) /\ Sound(j)
  <2>1. m \in Members \cup {"none"} /\ d \in Nat
    BY <1>6
  <2>2. Sound(n)
    BY <2>1, NewSound
  <2>3. Sound(j)
    BY <2>1, NewSound
  <2>4. /\ n.status = "queued" /\ n.phase = "none" /\ ~n.aborted /\ n.permit = FALSE
        /\ n.parent = m /\ n.depth = d
    BY DEF NewMember
  <2> HIDE DEF n, j
  <2> QED BY <2>2, <2>3, <2>4
<1> HIDE DEF n
<1>8. n \in Member /\ j.status = "queued" /\ j.parent = m /\ j.depth = d /\ j.permit = FALSE
  BY <1>7 DEF Sound, Member
<1>9. launch(B, c) = A
  <2>1. B \in [Members -> Member] /\ B[c] = n
    BY <1>3, <1>8
  <2> HIDE DEF B
  <2>2. launch(B, c) = [B EXCEPT ![c] = Launched(n)]
    BY <2>1, OnOne
  <2>3. Launched(n) = [n EXCEPT !.status = "queued", !.phase = "launched"]
    BY <1>2, <1>7 DEF Launched
  <2>4. [n EXCEPT !.status = "queued", !.phase = "launched"] = j
    BY <1>7, <1>8 DEF Member
  <2>5. launch(B, c) = [B EXCEPT ![c] = j]
    BY <2>2, <2>3, <2>4
  <2> QED BY <2>5 DEF B
<1>10. A \in [Members -> Member] /\ A[c] = j /\ \A x \in Members \ {c} : A[x] = C[x]
  BY <1>3, <1>7 DEF Sound
<1> HIDE DEF A, j
<1>11. Fine(A)
  <2>1. \A x \in Members : Sound(A[x])
    BY <1>3, <1>7, <1>10 DEF Fine
  <2>2. ASSUME NEW x \in Members
        PROVE  /\ A[x].depth <= MaxDepth
               /\ x = Leader => A[x].parent = "none" /\ A[x].status # "none"
               /\ x # Leader /\ A[x].status # "none" =>
                    /\ A[x].parent \in Members
                    /\ A[A[x].parent].status # "none"
                    /\ A[x].depth = A[A[x].parent].depth + 1
               /\ A[x].status = "none" => A[x].parent = "none"
    <3>1. CASE x = c
      <4>1. A[m] = C[m]
        BY <1>5, <1>10
      <4> QED BY <4>1, <3>1, <1>3, <1>5, <1>6, <1>8, <1>10
    <3>2. CASE x # c
      <4>1. A[x] = C[x]
        BY <3>2, <1>10
      <4>2. /\ C[x].depth <= MaxDepth
            /\ x = Leader => C[x].parent = "none" /\ C[x].status # "none"
            /\ x # Leader /\ C[x].status # "none" =>
                 /\ C[x].parent \in Members
                 /\ C[C[x].parent].status # "none"
                 /\ C[x].depth = C[C[x].parent].depth + 1
            /\ C[x].status = "none" => C[x].parent = "none"
        BY <1>5 DEF Tree
      <4>3. CASE x # Leader /\ C[x].status # "none"
        <5>1. C[x].parent \in Members \ {c}
          BY <4>2, <4>3, <1>5
        <5>2. A[C[x].parent] = C[C[x].parent]
          BY <5>1, <1>10
        <5> QED BY <5>1, <5>2, <4>1, <4>2, <4>3
      <4>4. CASE ~(x # Leader /\ C[x].status # "none")
        BY <4>1, <4>2, <4>4
      <4> QED BY <4>3, <4>4
    <3> QED BY <3>1, <3>2
  <2>3. Tree(A)
    BY <2>2 DEF Tree
  <2> QED BY <2>1, <2>3, <1>10 DEF Fine
<1>12. Cardinality(Holding(A)) <= MaxConcurrent
  <2>1. Holding(A) \subseteq Holding(members)
    <3>1. \A x \in Members : A[x].permit => members[x].permit
      BY <1>3, <1>8, <1>10 DEF Follows, Thrifty
    <3> QED BY <3>1 DEF Holding
  <2>2. Holding(members) \subseteq Members /\ Holding(A) \subseteq Members
    BY DEF Holding
  <2>3. /\ IsFiniteSet(Holding(members)) /\ Cardinality(Holding(members)) \in Nat
        /\ Cardinality(Holding(A)) \in Nat
    BY <2>2, HoldingFinite
  <2>4. Cardinality(Holding(A)) <= Cardinality(Holding(members))
    BY <2>1, <2>3, FS_Subset
  <2> QED BY <2>3, <2>4, <1>1, Limits DEF Base
<1>13. ASSUME team = "open" PROVE Spared(A)
  <2>1. Spared(members)
    BY <1>1, <1>13 DEF Base
  <2> SUFFICES ASSUME NEW x \in Members \ {Leader}, A[x].status # "none",
                      Halted(A[A[x].parent])
               PROVE  Halted(A[x])
    BY DEF Spared
  <2>2. CASE x = c
    <3>1. A[A[x].parent] = C[m]
      BY <2>2, <1>5, <1>8, <1>10
    <3> QED BY <3>1, <1>3
  <2>3. CASE x # c
    <3>1. A[x] = C[x] /\ C[x].status # "none"
      BY <2>3, <1>10
    <3>2. C[x].parent \in Members \ {c}
      BY <3>1, <1>5 DEF Tree
    <3>3. A[C[x].parent] = C[C[x].parent]
      BY <3>2, <1>10
    <3>4. members[x].status # "none" /\ Halted(members[members[x].parent])
      BY <3>1, <3>2, <3>3, <1>4
    <3>5. Halted(members[x])
      BY <2>1, <3>4 DEF Spared
    <3> QED BY <3>1, <3>5, <1>4
  <2> QED BY <2>2, <2>3
<1>14. Base(A)
  BY <1>11, <1>12, <1>13 DEF Base
<1>15. A[m] = C[m]
  BY <1>5, <1>10
<1>16. Follows(A, A)
  BY <1>11, FollowsSelf
<1>17. UseTool(A, m)
  BY <1>2, <1>9
<1>18. A[m].phase = "turn" /\ ~A[m].aborted /\ Heard(A[m])
  BY <1>3, <1>15
<1>19. Goes(A)
  BY <1>1, <1>11, <1>16, <1>17, <1>18, UseToolGoes
<1> QED BY <1>14, <1>19, GoesInv

\* The host sends the leader a message.
LEMMA steerInv == ASSUME IInv, steer PROVE IInv'
<1>1. Base(members) /\ Fine(members) /\ team \in Teams
  BY InvBase
<1>2. team = "open" /\ ~Full(members, Leader) /\ Put(enqueue(members, Leader), queue)
  BY DEF steer
<1>3. members[Leader].status # "none" /\ Leader \in Members
  BY <1>1, Limits DEF Fine, Tree
<1>4. Follows(members, enqueue(members, Leader))
  BY <1>1, <1>2, <1>3, EnqueueFollows
<1>5. Goes(members)
  BY <1>1, <1>2, <1>4, PutGoes
<1> QED BY <1>1, <1>5, GoesInv

\* The team is closed.
LEMMA CloseTeamInv == ASSUME IInv, CloseTeam PROVE IInv'
<1> DEFINE S == {m \in Members : members[m].status \in Busy}
<1>1. Base(members) /\ Fine(members)
  BY InvBase
<1>2. members' = Stop(members, S) /\ team' = "closed"
  BY DEF CloseTeam, stopMembers
<1>3. \A x \in Members : x \in S => members[x].status # "none"
  BY DEF Busy
<1> HIDE DEF S
<1>4. Kept(members, Stop(members, S)) /\ Thrifty(members, Stop(members, S))
  BY <1>1, <1>3, StopKept
<1>5. Goes(members)
  BY <1>2, <1>4 DEF Goes, Teams
<1> QED BY <1>1, <1>5, GoesInv

\* Everybody has stopped.
LEMMA SettleInv == ASSUME IInv, Settle PROVE IInv'
<1>1. Base(members) /\ Fine(members)
  BY InvBase
<1>2. Follows(members, members)
  BY <1>1, FollowsSelf
<1>3. Goes(members)
  BY <1>2 DEF Settle, Goes, Follows, Teams
<1> QED BY <1>1, <1>3, GoesInv

\* Nothing happens.
LEMMA StutterInv == ASSUME IInv, UNCHANGED vars PROVE IInv'
BY DEF IInv, vars, Active

\* The leader starts, alone.
LEMMA InitInv == Init => IInv
<1> SUFFICES ASSUME Init PROVE IInv
  OBVIOUS
<1> DEFINE k == NewMember("none", 0)
           l == [k EXCEPT !.phase = "launched"]
           u == [k EXCEPT !.status = "none", !.inputs = <<>>]
<1>1. members = [m \in Members |-> IF m = Leader THEN l ELSE u] /\ team = "open"
  BY DEF Init, Unused
<1>2. Sound(k) /\ k.parent = "none" /\ k.depth = 0 /\ k.permit = FALSE /\ k.status = "queued"
  <2>1. Sound(k)
    BY NewSound
  <2>2. k.parent = "none" /\ k.depth = 0 /\ k.permit = FALSE /\ k.status = "queued"
    BY DEF NewMember
  <2> QED BY <2>1, <2>2
<1>3. Sound(l) /\ Sound(u)
  BY NewSound
<1> HIDE DEF k
<1>4. k \in Member
  BY <1>2 DEF Sound
<1>5. /\ l.parent = "none" /\ l.depth = 0 /\ l.permit = FALSE /\ l.status = "queued"
      /\ u.parent = "none" /\ u.depth = 0 /\ u.permit = FALSE /\ u.status = "none"
  BY <1>2, <1>4 DEF Member
<1> HIDE DEF l, u
<1>6. \A m \in Members : /\ members[m].parent = "none" /\ members[m].depth = 0
                         /\ members[m].permit = FALSE
                         /\ members[m].status = IF m = Leader THEN "queued" ELSE "none"
                         /\ Sound(members[m])
  BY <1>1, <1>3, <1>5
<1>7. Tree(members)
  BY <1>6, Limits DEF Tree
<1>8. members \in [Members -> Member]
  BY <1>1, <1>3 DEF Sound
<1>9. Active = {}
  BY <1>6 DEF Active
<1>10. Cardinality(Active) <= MaxConcurrent
  BY <1>9, FS_EmptySet, Limits
<1>11. Spared(members)
  BY <1>6 DEF Spared
<1> QED BY <1>1, <1>6, <1>7, <1>8, <1>10, <1>11 DEF IInv, Fine

\* Every step keeps the invariant.
LEMMA NextInv == IInv /\ [Next]_vars => IInv'
<1> SUFFICES ASSUME IInv, [Next]_vars PROVE IInv'
  OBVIOUS
<1>1. CASE \E m \in Members : Step(m)
  <2>1. PICK m \in Members : Step(m)
    BY <1>1
  <2>2. CASE Enter(m) \/ Begin(m) \/ Reacquire(m) \/ Resume(m) \/ Aborted(m)
          \/ Return(m) \/ Leave(m)
    BY <2>2, EnterInv, BeginInv, ReacquireInv, ResumeInv, AbortedInv, ReturnInv, LeaveInv
  <2>3. CASE LimitReached(m) \/ ResolverFails(m)
    BY <2>3, FailInv DEF LimitReached, ResolverFails
  <2>4. CASE Turn(m)
    <3>1. CASE otherTool(m) \/ wait(m) \/ suspend(m) \/ answer(m) \/ blocked(m) \/ throws(m)
      BY <3>1, otherToolInv, waitInv, suspendInv, answerInv, blockedInv, throwsInv
    <3>2. CASE \E o \in Members : spawn(m, o) \/ send(m, o) \/ cancelMember(m, o)
      BY <3>2, spawnInv, sendInv, cancelMemberInv
    <3> QED BY <2>4, <3>1, <3>2 DEF Turn
  <2> QED BY <2>1, <2>2, <2>3, <2>4 DEF Step
<1>2. CASE Execute
  BY <1>2, CloseTeamInv, SettleInv DEF Execute
<1>3. CASE steer
  BY <1>3, steerInv
<1>4. CASE cancel
  BY <1>4, FailInv DEF cancel
<1>5. CASE UNCHANGED vars
  BY <1>5, StutterInv
<1> QED BY <1>1, <1>2, <1>3, <1>4, <1>5 DEF Next

\* The invariant holds in every state of every behaviour.
LEMMA AlwaysInv == Spec => []IInv
BY InitInv, NextInv, PTL DEF Spec

-----------------------------------------------------------------------------
(* The theorems.                                                            *)

\* The instances keep their types, and a pending message limit holds for every inbox.
THEOREM TypeCorrect == Spec => []TypeOK
<1>1. IInv => TypeOK
  <2> SUFFICES ASSUME IInv PROVE TypeOK
    OBVIOUS
  <2>1. ASSUME NEW m \in Members
        PROVE  /\ members[m].phase \in Phases
               /\ members[m].status \in Busy \cup Stopped \cup {"none", "idle"}
               /\ Len(members[m].inputs) <= MaxPending
               /\ members[m].permit => members[m].phase \in {"turn", "leaving"} \cup DOMAIN Returned
    <3>1. members[m] \in Member /\ Placed(members[m])
      BY DEF IInv, Fine, Sound
    <3>2. DOMAIN Returned = {"returned", "refused"}
      BY DEF Returned
    <3> QED BY <3>1, <3>2 DEF Member, Statuses, Placed
  <2> QED BY <2>1 DEF IInv, TypeOK
<1> QED BY <1>1, AlwaysInv, PTL

\* No more members are at work at the same time than the limit says: who is at work holds a
\* permit.
THEOREM WorkWithinLimit == Spec => []AtWorkWithinLimit
<1>1. IInv => AtWorkWithinLimit
  <2> SUFFICES ASSUME IInv PROVE AtWorkWithinLimit
    OBVIOUS
  <2> DEFINE W == {m \in Members : In(m, "turn")}
  <2>1. W \subseteq Active
    BY DEF IInv, Fine, Sound, Placed, In, Active
  <2>2. Active \subseteq Members /\ W \subseteq Members
    BY DEF Active
  <2>3. IsFiniteSet(Active) /\ Cardinality(Active) \in Nat /\ Cardinality(W) \in Nat
    BY <2>2, HoldingFinite
  <2>4. Cardinality(W) <= Cardinality(Active)
    BY <2>1, <2>3, FS_Subset
  <2>5. Cardinality(Active) <= MaxConcurrent
    BY DEF IInv
  <2>6. Cardinality(W) <= MaxConcurrent
    BY <2>3, <2>4, <2>5, Limits
  <2> QED BY <2>6 DEF AtWorkWithinLimit
<1> QED BY <1>1, AlwaysInv, PTL

\* Every member hears the messages it was sent once and in the order they were sent, and its
\* task never starts with nothing to say.
THEOREM HeardInOrderAlways == Spec => []HeardInOrder
<1>1. IInv => HeardInOrder
  <2> SUFFICES ASSUME IInv, NEW m \in Members
               PROVE  LET known == members[m] IN
                      /\ \A i \in DOMAIN known.heard : known.heard[i] = i
                      /\ known.phase \in {"launched", "acquiring"} /\ ~known.aborted
                           => Pending(members, m) # <<>>
                      /\ known.inputs # <<>> => Last(known.inputs).id = known.sent
    BY DEF HeardInOrder
  <2> DEFINE k == members[m]
             a == Len(k.inputs)
  <2>1. Sound(k) /\ k \in Member /\ Numbered(k)
    BY DEF IInv, Fine, Sound
  <2>2. k.inputs \in Inputs /\ k.steering \in Seq(Nat) /\ k.heard \in Seq(Nat) /\ k.sent \in Nat
    BY <2>1 DEF Member
  <2>3. Pending(members, m) = New(k)
    BY DEF Pending, New, NewIn
  <2> HIDE DEF k
  <2>4. \A i \in DOMAIN k.heard : k.heard[i] = i
    <3>1. DOMAIN k.heard = 1..Len(k.heard)
      BY <2>2
    <3>2. \A i \in 1..Len(k.heard) : k.heard[i] = i
      BY <2>1, Zenon DEF Numbered
    <3> QED BY <3>1, <3>2, Zenon
  <2>5. a \in Nat /\ (k.inputs # <<>> => a > 0)
    BY <2>2 DEF Inputs
  <2>6. ASSUME k.inputs # <<>> PROVE Last(k.inputs).id = k.sent
    <3>1. Last(k.inputs) = k.inputs[a]
      BY DEF Last
    <3>2. a \in 1..Len(k.inputs)
      BY <2>5, <2>6
    <3>3. k.inputs[a].id \in Nat
      BY <2>2, <3>2, InputsElements
    <3>4. k.inputs[a].id + a = k.sent + a
      BY <2>1, <3>2 DEF Numbered
    <3> HIDE DEF a
    <3> QED BY <3>1, <3>3, <3>4, <2>2, <2>5
  <2>7. ASSUME k.phase \in {"launched", "acquiring"}, ~k.aborted PROVE New(k) # <<>>
    <3>1. k.status \notin {"failed", "none"}
      BY <2>1, <2>7 DEF Sound, Placed
    <3>2. Continuous(k)
      BY <2>1, <2>7, <3>1 DEF Sound, Alive
    <3>3. k.steering = <<>> /\ k.inputs # <<>> /\ a + Len(k.heard) <= k.sent
          /\ k.sent <= a + Len(k.heard) + Len(k.steering)
      BY <2>7, <3>2 DEF Continuous, Steerable
    <3>4. /\ New(k) \in Inputs
          /\ \/ Len(New(k)) = a
             \/ Len(New(k)) + Len(k.heard) + Len(k.steering) = k.sent
      BY <2>1, NewRest
    <3> DEFINE n == Len(New(k))
               h == Len(k.heard)
               t == Len(k.steering)
    <3>5. t = 0 /\ h \in Nat /\ n \in Nat
      BY <2>2, <3>3, <3>4 DEF Inputs
    <3>6. New(k) = <<>> => n = 0
      OBVIOUS
    <3> HIDE DEF a, n, h, t
    <3>7. (n = a \/ n + h + t = k.sent) /\ a + h <= k.sent /\ a > 0
      BY <2>5, <3>3, <3>4 DEF a, n, h, t
    <3>8. n # 0
      BY <2>2, <2>5, <3>5, <3>7
    <3> QED BY <3>6, <3>8
  <2> QED BY <2>3, <2>4, <2>6, <2>7 DEF k
<1> QED BY <1>1, AlwaysInv, PTL

\* Whoever is below a member that failed or was cancelled is stopped with it and stays so,
\* wherever in its work the cancellation finds it, the end of its run included.
THEOREM OrphansAreStopped == Spec => []OrphansStopped
<1>1. IInv => OrphansStopped
  <2> SUFFICES ASSUME IInv, team = "open", NEW m \in Members \ {Leader},
                      members[m].status # "none", Halted(members[members[m].parent])
               PROVE  /\ Halted(members[m])
                      /\ members[m].aborted \/ members[m].phase \in {"leaving", "none"}
    BY DEF OrphansStopped
  <2>1. Halted(members[m])
    BY DEF IInv, Spared
  <2>2. Placed(members[m])
    BY DEF IInv, Fine, Sound
  <2> QED BY <2>1, <2>2 DEF Halted, Placed
<1> QED BY <1>1, AlwaysInv, PTL
=============================================================================
