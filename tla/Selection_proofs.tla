--------------------------- MODULE Selection_proofs ---------------------------
(* What Selected returns, for every sequence and every set of positions.    *)
(* The facts about data that these proofs need hold by induction over the   *)
(* positions: each is the absence of a least counterexample.                *)
EXTENDS Selection, SequenceTheorems, WellFoundedInduction, TLAPS

\* A nonempty set of numbers has a least one: what every induction here rests on.
LEMMA Least ==
  ASSUME NEW T \in SUBSET Nat, T # {}
  PROVE  \E x \in T : \A y \in T : x <= y
<1> DEFINE Below == {pair \in Nat \X Nat : pair[1] < pair[2]}
<1>1. OpToRel(<, Nat) = Below
  BY Zenon DEF OpToRel
<1>2. IsWellFoundedOn(Below, Nat)
  BY <1>1, NatLessThanWellFounded, Zenon
<1>3. PICK x \in T : \A y \in T : ~(<<y, x>> \in Below)
  <2> HIDE DEF Below
  <2> QED BY <1>2, WFMin
<1>4. ASSUME NEW y \in T PROVE x <= y
  <2>1. ~(<<y, x>> \in Below)
    BY <1>3
  <2>2. ~(y < x)
    BY <2>1
  <2> QED BY <2>2
<1> QED BY <1>4

\* The selections of the prefixes of s, up to the one of n elements.
PartialSelections(s, I, n) ==
  CHOOSE upTo : upTo = [i \in 0..n |->
    IF i = 0 THEN <<>> ELSE IF i \in I THEN Append(upTo[i - 1], s[i]) ELSE upTo[i - 1]]

Exist(s, I, n) ==
  \E upTo : upTo = [i \in 0..n |->
    IF i = 0 THEN <<>> ELSE IF i \in I THEN Append(upTo[i - 1], s[i]) ELSE upTo[i - 1]]

\* If they exist up to n, then up to n + 1.
LEMMA ExistNext ==
  ASSUME NEW s, NEW I, NEW n \in Nat, Exist(s, I, n)
  PROVE  Exist(s, I, n + 1)
<1>1. PICK f : f = [i \in 0..n |->
                 IF i = 0 THEN <<>> ELSE IF i \in I THEN Append(f[i - 1], s[i]) ELSE f[i - 1]]
  BY DEF Exist
<1> DEFINE g == [i \in 0..n + 1 |->
                   IF i <= n THEN f[i]
                   ELSE IF i \in I THEN Append(f[i - 1], s[i]) ELSE f[i - 1]]
<1>2. \A i \in 0..n :
        f[i] = IF i = 0 THEN <<>> ELSE IF i \in I THEN Append(f[i - 1], s[i]) ELSE f[i - 1]
  BY <1>1
<1>3. \A i \in 0..n : g[i] = f[i]
  OBVIOUS
<1>4. ASSUME NEW i \in 0..n + 1
      PROVE  g[i] = IF i = 0 THEN <<>> ELSE IF i \in I THEN Append(g[i - 1], s[i]) ELSE g[i - 1]
  <2>1. CASE i = 0
    BY <2>1, <1>2, <1>3
  <2>2. CASE i # 0 /\ i <= n
    BY <2>2, <1>2, <1>3
  <2>3. CASE i = n + 1
    BY <2>3, <1>3
  <2> QED BY <2>1, <2>2, <2>3
<1>5. g = [i \in 0..n + 1 |->
             IF i = 0 THEN <<>> ELSE IF i \in I THEN Append(g[i - 1], s[i]) ELSE g[i - 1]]
  BY <1>4
<1> QED BY <1>5 DEF Exist

\* They exist, however long s is.
LEMMA ExistAll == ASSUME NEW s, NEW I PROVE \A n \in Nat : Exist(s, I, n)
<1> DEFINE Missing == {n \in Nat : ~Exist(s, I, n)}
<1>1. SUFFICES ASSUME Missing # {} PROVE FALSE
  OBVIOUS
<1>2. PICK x \in Missing : \A y \in Missing : x <= y
  BY <1>1, Least
<1>3. Exist(s, I, 0)
  <2> DEFINE g == [i \in 0..0 |-> <<>>]
  <2>1. g = [i \in 0..0 |->
               IF i = 0 THEN <<>> ELSE IF i \in I THEN Append(g[i - 1], s[i]) ELSE g[i - 1]]
    OBVIOUS
  <2> QED BY <2>1 DEF Exist
<1>4. x \in Nat \ {0}
  BY <1>3
<1>5. x - 1 \in Nat /\ x - 1 \notin Missing
  BY <1>2, <1>4
<1>6. Exist(s, I, (x - 1) + 1)
  BY <1>5, ExistNext
<1> QED BY <1>6, <1>4

\* What the prefixes select, each from the one before.
LEMMA PartialStep ==
  ASSUME NEW s, NEW I, NEW n \in Nat
  PROVE  /\ PartialSelections(s, I, n)[0] = <<>>
         /\ \A i \in 1..n :
              PartialSelections(s, I, n)[i] =
                IF i \in I THEN Append(PartialSelections(s, I, n)[i - 1], s[i])
                ELSE PartialSelections(s, I, n)[i - 1]
<1>1. Exist(s, I, n)
  BY ExistAll
<1>2. \E upTo : upTo = [i \in 0..n |->
        IF i = 0 THEN <<>> ELSE IF i \in I THEN Append(upTo[i - 1], s[i]) ELSE upTo[i - 1]]
  BY <1>1 DEF Exist
<1> DEFINE f == PartialSelections(s, I, n)
<1>3. f = [i \in 0..n |->
             IF i = 0 THEN <<>> ELSE IF i \in I THEN Append(f[i - 1], s[i]) ELSE f[i - 1]]
  BY <1>2, Zenon DEF PartialSelections
<1> HIDE DEF f
<1>4. f[0] = <<>> /\ \A i \in 1..n : f[i] = IF i \in I THEN Append(f[i - 1], s[i]) ELSE f[i - 1]
  <2>1. f[0] = <<>>
    BY <1>3
  <2>2. ASSUME NEW i \in 1..n
        PROVE  f[i] = IF i \in I THEN Append(f[i - 1], s[i]) ELSE f[i - 1]
    <3>1. i \in 0..n /\ i # 0
      OBVIOUS
    <3>2. f[i] = IF i = 0 THEN <<>> ELSE IF i \in I THEN Append(f[i - 1], s[i]) ELSE f[i - 1]
      BY <3>1, <1>3
    <3> QED BY <3>1, <3>2
  <2> QED BY <2>1, <2>2
<1> QED BY <1>4 DEF f

\* Selected is the last of them.
LEMMA SelectedPrefix ==
  ASSUME NEW s, NEW I
  PROVE  Selected(s, I) = PartialSelections(s, I, Len(s))[Len(s)]
BY Zenon DEF Selected, PartialSelections

\* Where each element of the selection comes from: a position in I, a later one for a later
\* element; and nothing at a position in I is left out.
Drawn(t, s, I, n) ==
  \E from \in [1..Len(t) -> (1..n) \cap I] :
     /\ \A j \in 1..Len(t) : t[j] = s[from[j]]
     /\ \A j, k \in 1..Len(t) : j < k => from[j] < from[k]
     /\ \A i \in (1..n) \cap I : \E j \in 1..Len(t) : from[j] = i

\* One more element, selected.
LEMMA DrawnMore ==
  ASSUME NEW S, NEW s \in Seq(S), NEW I, NEW n \in Nat, n + 1 <= Len(s),
         NEW t \in Seq(S), Drawn(t, s, I, n), n + 1 \in I
  PROVE  Drawn(Append(t, s[n + 1]), s, I, n + 1)
<1>1. PICK from \in [1..Len(t) -> (1..n) \cap I] :
        /\ \A j \in 1..Len(t) : t[j] = s[from[j]]
        /\ \A j, k \in 1..Len(t) : j < k => from[j] < from[k]
        /\ \A i \in (1..n) \cap I : \E j \in 1..Len(t) : from[j] = i
  BY DEF Drawn
<1> DEFINE u == Append(t, s[n + 1])
           g == [j \in 1..Len(t) + 1 |-> IF j <= Len(t) THEN from[j] ELSE n + 1]
<1>2. s[n + 1] \in S /\ Len(t) \in Nat
  OBVIOUS
<1>3. /\ u \in Seq(S) /\ Len(u) = Len(t) + 1
      /\ \A j \in 1..Len(t) : u[j] = t[j]
      /\ u[Len(t) + 1] = s[n + 1]
  BY <1>2, AppendProperties
<1> HIDE DEF u
<1>4. g \in [1..Len(u) -> (1..n + 1) \cap I]
  BY <1>2, <1>3
<1>5. /\ \A j \in 1..Len(t) : g[j] = from[j]
      /\ g[Len(t) + 1] = n + 1
  BY <1>2
<1> HIDE DEF g
<1>6. ASSUME NEW j \in 1..Len(u) PROVE u[j] = s[g[j]]
  <2>1. CASE j \in 1..Len(t) BY <2>1, <1>1, <1>3, <1>5
  <2>2. CASE j = Len(t) + 1 BY <2>2, <1>3, <1>5
  <2> QED BY <2>1, <2>2, <1>3, <1>2
<1>7. ASSUME NEW j \in 1..Len(u), NEW k \in 1..Len(u), j < k PROVE g[j] < g[k]
  <2>1. j \in 1..Len(t)
    BY <1>7, <1>3, <1>2
  <2>2. from[j] \in 1..n /\ g[j] = from[j]
    BY <2>1, <1>5
  <2>3. CASE k \in 1..Len(t) BY <2>1, <2>3, <1>1, <1>5, <1>7
  <2>4. CASE k = Len(t) + 1 BY <2>2, <2>4, <1>5
  <2> QED BY <2>3, <2>4, <1>3, <1>2
<1>8. ASSUME NEW i \in (1..n + 1) \cap I PROVE \E j \in 1..Len(u) : g[j] = i
  <2>1. CASE i = n + 1
    <3>1. Len(t) + 1 \in 1..Len(u) /\ g[Len(t) + 1] = i
      BY <2>1, <1>2, <1>3, <1>5
    <3> QED BY <3>1
  <2>2. CASE i \in 1..n
    <3>1. PICK j \in 1..Len(t) : from[j] = i
      BY <2>2, <1>1
    <3>2. j \in 1..Len(u) /\ g[j] = i
      BY <3>1, <1>2, <1>3, <1>5
    <3> QED BY <3>2
  <2> QED BY <2>1, <2>2
<1>9. Drawn(u, s, I, n + 1)
  BY <1>4, <1>6, <1>7, <1>8 DEF Drawn
<1> QED BY <1>9 DEF u

\* One more element, left out.
LEMMA DrawnSame ==
  ASSUME NEW s, NEW I, NEW n \in Nat, NEW t, Drawn(t, s, I, n), n + 1 \notin I
  PROVE  Drawn(t, s, I, n + 1)
<1>1. (1..n + 1) \cap I = (1..n) \cap I
  OBVIOUS
<1> QED BY <1>1 DEF Drawn

\* What Selected returns.
LEMMA SelectedDrawn ==
  ASSUME NEW S, NEW s \in Seq(S), NEW I
  PROVE  Selected(s, I) \in Seq(S) /\ Drawn(Selected(s, I), s, I, Len(s))
<1> DEFINE f == PartialSelections(s, I, Len(s))
           Wrong == {n \in 0..Len(s) : ~(f[n] \in Seq(S) /\ Drawn(f[n], s, I, n))}
<1>1. Len(s) \in Nat
  OBVIOUS
<1>2. /\ f[0] = <<>>
      /\ \A i \in 1..Len(s) : f[i] = IF i \in I THEN Append(f[i - 1], s[i]) ELSE f[i - 1]
  BY <1>1, PartialStep
<1>3. Selected(s, I) = f[Len(s)]
  BY SelectedPrefix
<1> HIDE DEF f
<1>4. SUFFICES Wrong = {}
  BY <1>1, <1>3, <1>4
<1>5. SUFFICES ASSUME Wrong # {} PROVE FALSE
  OBVIOUS
<1>6. PICK x \in Wrong : \A y \in Wrong : x <= y
  <2>1. Wrong \in SUBSET Nat
    BY <1>1
  <2> QED BY <2>1, <1>5, Least
<1>7. f[0] \in Seq(S) /\ Drawn(f[0], s, I, 0)
  <2>1. f[0] = <<>> /\ Len(f[0]) = 0
    BY <1>2
  <2>2. [j \in {} |-> 0] \in [1..Len(f[0]) -> (1..0) \cap I]
    BY <2>1
  <2>3. Drawn(f[0], s, I, 0)
    BY <2>1, <2>2 DEF Drawn
  <2> QED BY <2>1, <2>3
<1>8. x \in 1..Len(s) /\ x - 1 \in 0..Len(s) /\ x - 1 \notin Wrong
  BY <1>6, <1>7, <1>1
<1>9. f[x - 1] \in Seq(S) /\ Drawn(f[x - 1], s, I, x - 1)
  BY <1>8
<1>10. f[x] \in Seq(S) /\ Drawn(f[x], s, I, x)
  <2>1. x - 1 \in Nat /\ (x - 1) + 1 = x /\ s[x] \in S
    BY <1>8
  <2>2. CASE x \in I
    <3>1. f[x] = Append(f[x - 1], s[x])
      BY <2>2, <1>2, <1>8
    <3>2. Drawn(Append(f[x - 1], s[x]), s, I, x)
      <4> DEFINE n == x - 1
      <4>1. n \in Nat /\ n + 1 = x /\ n + 1 <= Len(s) /\ n + 1 \in I /\ Drawn(f[n], s, I, n)
        BY <2>1, <2>2, <1>8, <1>9
      <4>2. f[n] \in Seq(S)
        BY <1>9
      <4> HIDE DEF n
      <4>3. Drawn(Append(f[n], s[n + 1]), s, I, n + 1)
        BY <4>1, <4>2, DrawnMore
      <4> QED BY <4>3, <4>1 DEF n
    <3> QED BY <3>1, <3>2, <2>1, <1>9, AppendProperties
  <2>3. CASE x \notin I
    <3>1. f[x] = f[x - 1]
      BY <2>3, <1>2, <1>8
    <3>2. Drawn(f[x - 1], s, I, (x - 1) + 1)
      BY <2>1, <2>3, <1>9, DrawnSame
    <3> QED BY <3>1, <3>2, <2>1, <1>9
  <2> QED BY <2>2, <2>3
<1> QED BY <1>10, <1>6

\* A selection of the positions after a is the rest of the sequence.
LEMMA SelectedRest ==
  ASSUME NEW S, NEW s \in Seq(S), NEW a \in 0..Len(s), NEW I,
         \A i \in 1..Len(s) : i \in I <=> i > a
  PROVE  /\ Selected(s, I) \in Seq(S)
         /\ Len(Selected(s, I)) = Len(s) - a
         /\ \A j \in 1..Len(s) - a : Selected(s, I)[j] = s[a + j]
<1> DEFINE f == PartialSelections(s, I, Len(s))
           Right(n) == /\ f[n] \in Seq(S)
                       /\ Len(f[n]) = IF n <= a THEN 0 ELSE n - a
                       /\ \A j \in 1..n - a : f[n][j] = s[a + j]
           Wrong == {n \in 0..Len(s) : ~Right(n)}
<1>1. Len(s) \in Nat
  OBVIOUS
<1>2. /\ f[0] = <<>>
      /\ \A i \in 1..Len(s) : f[i] = IF i \in I THEN Append(f[i - 1], s[i]) ELSE f[i - 1]
  BY <1>1, PartialStep
<1>3. Selected(s, I) = f[Len(s)]
  BY SelectedPrefix
<1> HIDE DEF f
<1>4. SUFFICES Wrong = {}
  <2>1. Right(Len(s))
    BY <1>1, <1>4
  <2>2. CASE Len(s) = a
    BY <2>1, <2>2, <1>3, <1>1
  <2>3. CASE Len(s) > a
    BY <2>1, <2>3, <1>3, <1>1
  <2> QED BY <2>2, <2>3, <1>1
<1>5. SUFFICES ASSUME Wrong # {} PROVE FALSE
  OBVIOUS
<1>6. PICK x \in Wrong : \A y \in Wrong : x <= y
  <2>1. Wrong \in SUBSET Nat
    BY <1>1
  <2> HIDE DEF Wrong
  <2> QED BY <2>1, <1>5, Least
<1>7. Right(0)
  BY <1>2
<1>8. x \in 1..Len(s) /\ x - 1 \in 0..Len(s) /\ x - 1 \notin Wrong
  <2> HIDE DEF Right
  <2> QED BY <1>6, <1>7, <1>1
<1>9. Right(x - 1)
  <2> HIDE DEF Right
  <2> QED BY <1>8
<1>10. Right(x)
  <2>1. x - 1 \in Nat /\ s[x] \in S
    BY <1>8
  <2>2. CASE x > a
    <3>1. f[x] = Append(f[x - 1], s[x])
      BY <2>2, <1>2, <1>8
    <3>2. f[x - 1] \in Seq(S) /\ Len(f[x - 1]) = (x - 1) - a
      BY <2>2, <1>9, <2>1
    <3>3. /\ f[x] \in Seq(S) /\ Len(f[x]) = Len(f[x - 1]) + 1
          /\ \A j \in 1..Len(f[x - 1]) : f[x][j] = f[x - 1][j]
          /\ f[x][Len(f[x - 1]) + 1] = s[x]
      BY <3>1, <3>2, <2>1, AppendProperties
    <3>4. ASSUME NEW j \in 1..x - a PROVE f[x][j] = s[a + j]
      <4>1. CASE j = x - a
        BY <4>1, <3>2, <3>3, <2>1
      <4>2. CASE j # x - a
        <5>1. j \in 1..(x - 1) - a
          BY <4>2, <2>1
        <5> QED BY <5>1, <3>2, <3>3, <1>9
      <4> QED BY <4>1, <4>2
    <3> QED BY <3>2, <3>3, <3>4, <2>2
  <2>3. CASE ~(x > a)
    <3>1. f[x] = f[x - 1]
      BY <2>3, <1>2, <1>8
    <3>2. 1..x - a = {}
      BY <2>3
    <3> QED BY <3>1, <3>2, <2>1, <2>3, <1>9
  <2> QED BY <2>2, <2>3
<1> QED
  <2> HIDE DEF Right
  <2> QED BY <1>10, <1>6

-----------------------------------------------------------------------------
Agree(s, t, I, J, k) == \A i \in 1..k : s[i] = t[i] /\ (i \in I <=> i \in J)

\* Where two sequences and the positions agree, so do the selections.
LEMMA PartialSame ==
  ASSUME NEW s, NEW t, NEW I, NEW J, NEW m \in Nat, NEW n \in Nat, NEW k \in Nat, k <= m, k <= n,
         Agree(s, t, I, J, k)
  PROVE  PartialSelections(s, I, m)[k] = PartialSelections(t, J, n)[k]
<1> DEFINE f == PartialSelections(s, I, m)
           g == PartialSelections(t, J, n)
           Wrong == {i \in Nat : i <= k /\ f[i] # g[i]}
<1>1. /\ f[0] = <<>> /\ g[0] = <<>>
      /\ \A i \in 1..m : f[i] = IF i \in I THEN Append(f[i - 1], s[i]) ELSE f[i - 1]
      /\ \A i \in 1..n : g[i] = IF i \in J THEN Append(g[i - 1], t[i]) ELSE g[i - 1]
  BY PartialStep
<1> HIDE DEF f, g
<1>2. ASSUME Wrong # {} PROVE FALSE
  <2>1. PICK x \in Wrong : \A y \in Wrong : x <= y
    BY <1>2, Least
  <2>2. x \in 1..k /\ x \in 1..m /\ x \in 1..n
    BY <1>1, <2>1
  <2>3. x - 1 \in Nat /\ x - 1 <= k /\ x - 1 \notin Wrong
    BY <2>1, <2>2
  <2>4. f[x - 1] = g[x - 1]
    BY <2>3
  <2>5. s[x] = t[x] /\ (x \in I <=> x \in J)
    BY <2>2 DEF Agree
  <2>6. f[x] = g[x]
    BY <1>1, <2>2, <2>4, <2>5
  <2> QED BY <2>1, <2>6
<1> QED BY <1>2 DEF f, g

-----------------------------------------------------------------------------
(* The numbers up to n that are in I, in order.                             *)

InOrder(I, n) == Selected([i \in 1..n |-> i], I)

\* It only depends on what is in I up to n.
LEMMA InOrderSame ==
  ASSUME NEW n \in Nat, NEW I, NEW J, \A i \in 1..n : i \in I <=> i \in J
  PROVE  InOrder(I, n) = InOrder(J, n)
<1> DEFINE s == [i \in 1..n |-> i]
<1>1. Len(s) = n
  OBVIOUS
<1> HIDE DEF s
<1>2. PartialSelections(s, I, n)[n] = PartialSelections(s, J, n)[n]
  <2>1. n <= n /\ Agree(s, s, I, J, n)
    BY DEF Agree
  <2> QED BY <2>1, PartialSame
<1>3. Selected(s, I) = Selected(s, J)
  BY <1>1, <1>2, SelectedPrefix
<1> QED BY <1>3 DEF InOrder, s

\* None up to 0, and one more or not up to the next number.
LEMMA InOrderNext ==
  ASSUME NEW I
  PROVE  /\ InOrder(I, 0) = <<>>
         /\ \A n \in Nat : InOrder(I, n + 1) = IF n + 1 \in I THEN Append(InOrder(I, n), n + 1)
                                               ELSE InOrder(I, n)
<1>1. InOrder(I, 0) = <<>>
  <2> DEFINE s == [i \in 1..0 |-> i]
  <2>1. Len(s) = 0
    OBVIOUS
  <2> HIDE DEF s
  <2>2. Selected(s, I) = <<>>
    BY <2>1, SelectedPrefix, PartialStep
  <2> QED BY <2>2 DEF InOrder, s
<1>2. ASSUME NEW n \in Nat
      PROVE  InOrder(I, n + 1) = IF n + 1 \in I THEN Append(InOrder(I, n), n + 1) ELSE InOrder(I, n)
  <2> DEFINE s == [i \in 1..n |-> i]
             t == [i \in 1..n + 1 |-> i]
  <2>1. /\ Len(s) = n /\ Len(t) = n + 1
        /\ t[n + 1] = n + 1 /\ \A i \in 1..n : s[i] = t[i]
    OBVIOUS
  <2> HIDE DEF s, t
  <2>2. PartialSelections(s, I, n)[n] = PartialSelections(t, I, n + 1)[n]
    <3>1. n + 1 \in Nat /\ n <= n /\ n <= n + 1
      OBVIOUS
    <3>2. Agree(s, t, I, I, n)
      BY <2>1 DEF Agree
    <3> QED BY <3>1, <3>2, PartialSame
  <2>3. PartialSelections(t, I, n + 1)[n + 1] =
          IF n + 1 \in I THEN Append(PartialSelections(t, I, n + 1)[n], t[n + 1])
          ELSE PartialSelections(t, I, n + 1)[n]
    <3>1. n + 1 \in 1..n + 1 /\ (n + 1) - 1 = n
      OBVIOUS
    <3> QED BY <3>1, PartialStep
  <2>4. Selected(t, I) = IF n + 1 \in I THEN Append(Selected(s, I), n + 1) ELSE Selected(s, I)
    BY <2>1, <2>2, <2>3, SelectedPrefix
  <2> QED BY <2>4 DEF InOrder, s, t
<1> QED BY <1>1, <1>2

\* Numbers that are not in I add nothing.
LEMMA InOrderBeyond ==
  ASSUME NEW I, NEW m \in Nat, NEW n \in Nat, m <= n, \A i \in m + 1..n : i \notin I
  PROVE  InOrder(I, n) = InOrder(I, m)
<1> DEFINE Wrong == {i \in Nat : m <= i /\ i <= n /\ InOrder(I, i) # InOrder(I, m)}
<1>1. ASSUME Wrong # {} PROVE FALSE
  <2>1. PICK x \in Wrong : \A y \in Wrong : x <= y
    BY <1>1, Least
  <2>2. x # m /\ x - 1 \in Nat /\ x \in m + 1..n /\ x - 1 \notin Wrong
    BY <2>1
  <2>3. InOrder(I, x - 1) = InOrder(I, m)
    BY <2>1, <2>2
  <2>4. InOrder(I, (x - 1) + 1) = InOrder(I, x - 1) /\ (x - 1) + 1 = x
    <3>1. (x - 1) + 1 = x /\ x \notin I
      BY <2>1, <2>2
    <3> QED BY <3>1, <2>2, InOrderNext
  <2> QED BY <2>1, <2>3, <2>4
<1> QED BY <1>1

=============================================================================
