--------------------------- MODULE SelectionProofs ---------------------------
(***************************************************************************)
(* What a selection from a list contains, and in which order.  The loop is *)
(* a recursive function; what holds of all its values is proved by taking  *)
(* the least one of which it does not hold.                                *)
(***************************************************************************)
EXTENDS Selections, SequenceTheorems, WellFoundedInduction, TLAPS

\* A set of numbers has a least element.
LEMMA LeastOf ==
  ASSUME NEW T \in SUBSET Nat, T # {}
  PROVE  \E m \in T : \A k \in T : m <= k
<1>1. PICK m \in T : \A k \in T : ~(<<k, m>> \in OpToRel(<, Nat))
  BY NatLessThanWellFounded, WFMin
<1>2. OpToRel(<, Nat) = {ss \in Nat \X Nat : ss[1] < ss[2]}
  BY DEF OpToRel
<1>3. ASSUME NEW k \in T PROVE m <= k
  <2>1. ~(<<k, m>> \in {ss \in Nat \X Nat : ss[1] < ss[2]})
    BY <1>1, <1>2, Zenon
  <2> QED BY <2>1
<1> QED BY <1>3

\* Induction on a set of numbers.
LEMMA Upto ==
  ASSUME NEW T, NEW n \in Nat, 0 \in T, \A k \in 1..n : k - 1 \in T => k \in T
  PROVE  \A k \in 0..n : k \in T
<1> DEFINE Out == {k \in 0..n : k \notin T}
<1> SUFFICES ASSUME Out # {} PROVE FALSE
  OBVIOUS
<1>1. PICK m \in Out : \A k \in Out : m <= k
  <2>1. Out \in SUBSET Nat
    OBVIOUS
  <2> HIDE DEF Out
  <2> QED BY <2>1, LeastOf
<1>2. m \in 1..n /\ m - 1 \notin Out /\ m - 1 \in 0..n
  BY <1>1
<1> QED BY <1>1, <1>2

\* The loop at k, given what it had before.
Loop(s, S, f, k) ==
  IF k = 0 THEN <<>> ELSE IF s[k] \in S THEN Append(f[k - 1], s[k]) ELSE f[k - 1]

\* The loop ends: it defines its function.
LEMMA LoopEnds ==
  ASSUME NEW s, NEW S, NEW n \in Nat
  PROVE  \E f : f = [k \in 0..n |-> Loop(s, S, f, k)]
<1> DEFINE T == {m \in Nat : \E f : f = [k \in 0..m |-> Loop(s, S, f, k)]}
<1>1. 0 \in T
  <2> DEFINE z == [k \in 0..0 |-> <<>>]
  <2>1. z = [k \in 0..0 |-> Loop(s, S, z, k)]
    BY DEF Loop
  <2> HIDE DEF z
  <2> QED BY <2>1
<1>2. ASSUME NEW m \in 1..n, m - 1 \in T PROVE m \in T
  <2>1. PICK f : f = [k \in 0..(m-1) |-> Loop(s, S, f, k)]
    BY <1>2
  <2> DEFINE g == [k \in 0..m |-> IF k = m THEN Loop(s, S, f, m) ELSE f[k]]
  <2>2. \A k \in 1..m : g[k-1] = f[k-1]
    OBVIOUS
  <2>3. \A k \in 0..m : g[k] = Loop(s, S, f, k)
    BY <2>1
  <2>4. \A k \in 0..m : Loop(s, S, f, k) = Loop(s, S, g, k)
    <3> HIDE DEF g
    <3> QED BY <2>2 DEF Loop
  <2>5. g = [k \in 0..m |-> g[k]]
    OBVIOUS
  <2> HIDE DEF g
  <2>6. g = [k \in 0..m |-> Loop(s, S, g, k)]
    BY <2>3, <2>4, <2>5
  <2> QED BY <2>6
<1> HIDE DEF T
<1>3. n \in T
  BY <1>1, <1>2, Upto
<1> QED BY <1>3 DEF T

\* The selection is the last value of that function.
LEMMA SelectedIs ==
  ASSUME NEW s, NEW S, Len(s) \in Nat
  PROVE  \E f : /\ f = [k \in 0..Len(s) |-> Loop(s, S, f, k)]
                /\ Selected(s, S) = f[Len(s)]
<1> DEFINE c == CHOOSE f : f = [k \in 0..Len(s) |-> Loop(s, S, f, k)]
<1>1. c = [k \in 0..Len(s) |-> Loop(s, S, c, k)]
  BY LoopEnds
<1>2. Selected(s, S) = c[Len(s)]
  BY DEF Selected, Loop
<1> HIDE DEF c
<1> QED BY <1>1, <1>2

\* r is what a selection from the first k elements of s must be: g says where each
\* element of it stood.
Picks(s, S, k, r, g) ==
  /\ g \in [1..Len(r) -> 1..k]
  /\ \A i, j \in 1..Len(r) : i < j => g[i] < g[j]
  /\ \A j \in 1..Len(r) : r[j] = s[g[j]] /\ s[g[j]] \in S
  /\ \A i \in 1..k : s[i] \in S => \E j \in 1..Len(r) : g[j] = i

\* One more element that is not selected.
LEMMA PicksPast ==
  ASSUME NEW s, NEW S, NEW k \in Nat \ {0}, NEW r, Len(r) \in Nat, NEW g,
         Picks(s, S, k - 1, r, g), s[k] \notin S
  PROVE  Picks(s, S, k, r, g)
<1>1. \A i \in 1..k : i = k \/ i \in 1..(k - 1)
  OBVIOUS
<1>2. 1..(k - 1) \subseteq 1..k
  OBVIOUS
<1> QED BY <1>1, <1>2 DEF Picks

\* One more that is.
LEMMA PicksOne ==
  ASSUME NEW E, NEW s \in Seq(E), NEW S, NEW k \in 1..Len(s), NEW r \in Seq(E), NEW g,
         Picks(s, S, k - 1, r, g), s[k] \in S
  PROVE  \E h : Picks(s, S, k, Append(r, s[k]), h)
<1> DEFINE n == Len(r)
           q == Append(r, s[k])
           h == [j \in 1..(n + 1) |-> IF j = n + 1 THEN k ELSE g[j]]
<1>1. n \in Nat /\ Len(s) \in Nat /\ s[k] \in E
  BY LenProperties, ElementOfSeq
<1>2. Len(q) = n + 1 /\ q[n + 1] = s[k] /\ \A j \in 1..n : q[j] = r[j]
  BY <1>1, AppendProperties
<1>3. \A j \in 1..(n + 1) : j = n + 1 \/ j \in 1..n
  BY <1>1
<1>4. /\ \A j \in 1..n : h[j] = g[j] /\ g[j] \in 1..(k - 1)
      /\ h[n + 1] = k
      /\ DOMAIN h = 1..(n + 1)
  BY <1>1 DEF Picks
<1>5. h = [j \in 1..(n + 1) |-> h[j]]
  OBVIOUS
<1> HIDE DEF h, q
<1>6. h \in [1..(n + 1) -> 1..k]
  <2>1. \A j \in 1..(n + 1) : h[j] \in 1..k
    BY <1>3, <1>4
  <2> QED BY <1>5, <2>1
<1>7. \A i, j \in 1..(n + 1) : i < j => h[i] < h[j]
  <2> SUFFICES ASSUME NEW i \in 1..(n + 1), NEW j \in 1..(n + 1), i < j PROVE h[i] < h[j]
    OBVIOUS
  <2>1. i \in 1..n
    BY <1>1
  <2>2. CASE j = n + 1
    BY <2>1, <2>2, <1>4
  <2>3. CASE j \in 1..n
    BY <2>1, <2>3, <1>4 DEF Picks
  <2> QED BY <1>3, <2>2, <2>3
<1>8. \A j \in 1..(n + 1) : q[j] = s[h[j]] /\ s[h[j]] \in S
  BY <1>2, <1>3, <1>4 DEF Picks
<1>9. ASSUME NEW i \in 1..k, s[i] \in S PROVE \E j \in 1..(n + 1) : h[j] = i
  <2>1. CASE i = k
    BY <2>1, <1>1, <1>4
  <2>2. CASE i # k
    <3>1. i \in 1..(k - 1)
      BY <2>2
    <3>2. PICK j \in 1..n : g[j] = i
      BY <3>1, <1>9 DEF Picks
    <3> QED BY <3>2, <1>1, <1>4
  <2> QED BY <2>1, <2>2
<1>10. Picks(s, S, k, q, h)
  BY <1>2, <1>6, <1>7, <1>8, <1>9 DEF Picks
<1> QED BY <1>10 DEF q

\* A selection has what is in the list and in the set, all of it, and in the order
\* of the list.
THEOREM SelectedPicks ==
  ASSUME NEW E, NEW s \in Seq(E), NEW S
  PROVE  /\ Selected(s, S) \in Seq(E)
         /\ \E g : Picks(s, S, Len(s), Selected(s, S), g)
<1>1. Len(s) \in Nat
  BY LenProperties
<1>2. PICK f : /\ f = [k \in 0..Len(s) |-> Loop(s, S, f, k)]
               /\ Selected(s, S) = f[Len(s)]
  BY <1>1, SelectedIs
<1> DEFINE T == {k \in 0..Len(s) : f[k] \in Seq(E) /\ \E g : Picks(s, S, k, f[k], g)}
<1>3. 0 \in T
  <2>1. f[0] = <<>>
    BY <1>1, <1>2 DEF Loop
  <2>2. <<>> \in Seq(E) /\ Len(<<>>) = 0
    BY EmptySeq
  <2>3. Picks(s, S, 0, <<>>, <<>>)
    BY <2>2 DEF Picks
  <2>4. \E g : Picks(s, S, 0, f[0], g)
    BY <2>1, <2>3, Zenon
  <2>5. f[0] \in Seq(E) /\ 0 \in 0..Len(s)
    BY <1>1, <2>1, <2>2
  <2> QED BY <2>4, <2>5, Zenon
<1>4. ASSUME NEW k \in 1..Len(s), k - 1 \in T PROVE k \in T
  <2>1. f[k] = Loop(s, S, f, k)
    BY <1>1, <1>2
  <2>2. PICK g : Picks(s, S, k - 1, f[k - 1], g)
    BY <1>4
  <2>3. f[k - 1] \in Seq(E) /\ Len(f[k - 1]) \in Nat
    BY <1>4, LenProperties
  <2>4. CASE s[k] \in S
    <3>1. f[k] = Append(f[k - 1], s[k])
      BY <1>1, <2>1, <2>4 DEF Loop
    <3>2. \E h : Picks(s, S, k, f[k], h)
      BY <2>2, <2>3, <2>4, <3>1, PicksOne
    <3>3. f[k] \in Seq(E)
      BY <2>3, <3>1, ElementOfSeq, AppendProperties
    <3> QED BY <3>2, <3>3, <1>1
  <2>5. CASE s[k] \notin S
    <3>1. f[k] = f[k - 1]
      BY <1>1, <2>1, <2>5 DEF Loop
    <3>2. Picks(s, S, k, f[k], g)
      BY <1>1, <2>2, <2>3, <2>5, <3>1, PicksPast
    <3> QED BY <2>3, <3>1, <3>2, <1>1
  <2> QED BY <2>4, <2>5
<1> HIDE DEF T
<1>5. Len(s) \in T
  BY <1>1, <1>3, <1>4, Upto, Len(s) \in 0..Len(s)
<1> QED BY <1>2, <1>5 DEF T
=============================================================================
