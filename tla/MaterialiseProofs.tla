-------------------------- MODULE MaterialiseProofs --------------------------
(***************************************************************************)
(* Theorems about Materialise, for every recipe, every choice of paths and *)
(* every backup.                                                           *)
(*                                                                         *)
(* First paths and trees: what lies inside what, and that every operation  *)
(* on a tree gives one.  Then the order of the inputs, the invariant, and  *)
(* its parts one by one; the theorems are at the end.                      *)
(***************************************************************************)
EXTENDS Materialise, SelectionProofs, FiniteSetTheorems

-----------------------------------------------------------------------------
(* Paths.                                                                  *)

\* A path inside another is that one followed by what leads on from it.
LEMMA Rejoined ==
  ASSUME NEW S, NEW p \in Seq(S), NEW q \in Seq(S), Inside(p, q)
  PROVE  q \o RelativeTo(q, p) = p /\ RelativeTo(q, p) \in Seq(S)
<1> DEFINE r == RelativeTo(q, p)
<1>1. Len(q) \in Nat /\ Len(p) \in Nat /\ Len(q) <= Len(p)
  BY LenProperties DEF Inside
<1>2. \A i \in (Len(q) + 1)..Len(p) : p[i] \in S
  BY <1>1, ElementOfSeq
<1>3. /\ r \in Seq(S) /\ Len(r) = Len(p) - Len(q)
      /\ \A i \in 1..(Len(p) - Len(q)) : r[i] = p[Len(q) + i]
  <2>1. /\ r \in Seq(S)
        /\ Len(r) = IF Len(q) + 1 <= Len(p) THEN Len(p) - (Len(q) + 1) + 1 ELSE 0
        /\ \A i \in 1..(Len(p) - (Len(q) + 1) + 1) : r[i] = p[Len(q) + 1 + i - 1]
    BY <1>1, <1>2, SubSeqProperties DEF RelativeTo
  <2> HIDE DEF r
  <2> QED
    BY <1>1, <2>1
<1>4. \A i \in 1..Len(q) : q[i] = p[i]
  <2>1. \A i \in 1..Len(q) : p[i] \in S
    BY <1>1, ElementOfSeq
  <2>2. \A i \in 1..(Len(q) - 1 + 1) : SubSeq(p, 1, Len(q))[i] = p[1 + i - 1]
    BY <1>1, <2>1, SubSeqProperties
  <2> QED
    BY <1>1, <2>2 DEF Inside
<1> HIDE DEF r
<1>5. /\ q \o r \in Seq(S) /\ Len(q \o r) = Len(q) + Len(r)
      /\ \A i \in 1..(Len(q) + Len(r)) :
           (q \o r)[i] = IF i <= Len(q) THEN q[i] ELSE r[i - Len(q)]
  BY <1>3, ConcatProperties
<1>6. Len(q \o r) = Len(p) /\ \A i \in 1..Len(p) : (q \o r)[i] = p[i]
  <2>1. Len(q) + Len(r) = Len(p)
    BY <1>1, <1>3
  <2>2. ASSUME NEW i \in 1..Len(p), i <= Len(q) PROVE (q \o r)[i] = p[i]
    BY <1>1, <1>4, <1>5, <2>1, <2>2
  <2>3. ASSUME NEW i \in 1..Len(p), ~(i <= Len(q)) PROVE (q \o r)[i] = p[i]
    <3>1. (q \o r)[i] = r[i - Len(q)]
      BY <1>5, <2>1, <2>3
    <3>2. i - Len(q) \in 1..(Len(p) - Len(q)) /\ Len(q) + (i - Len(q)) = i
      BY <1>1, <2>3
    <3> QED
      BY <1>3, <3>1, <3>2
  <2> QED
    BY <1>5, <2>1, <2>2, <2>3
<1>7. q \o r = p
  BY <1>5, <1>6, SeqEqual
<1> QED
  BY <1>3, <1>7 DEF r

\* What follows a path is inside it.
LEMMA FollowsIsInside ==
  ASSUME NEW S, NEW q \in Seq(S), NEW r \in Seq(S)
  PROVE  Inside(q \o r, q)
<1>1. /\ q \o r \in Seq(S) /\ Len(q \o r) = Len(q) + Len(r)
      /\ Len(q) \in Nat /\ Len(r) \in Nat
  BY ConcatProperties, LenProperties
<1>2. SubSeq(q \o r, 1, Len(q)) = q
  <2>1. CASE Len(q) = 0
    <3>1. q = <<>>
      BY <2>1, EmptySeq
    <3> QED BY <2>1, <3>1, SubSeqEmpty
  <2>2. CASE Len(q) # 0
    <3>1. 1 \in 1..Len(q) /\ Len(q) \in 1..Len(q)
      BY <1>1, <2>2
    <3>2. SubSeq(q \o r, 1, Len(q)) = SubSeq(q, 1, Len(q))
      BY <3>1, SubSeqOfConcat1
    <3> QED BY <3>2, SubSeqFull
  <2> QED BY <2>1, <2>2
<1> QED BY <1>1, <1>2 DEF Inside

\* Where it leads on to is what follows.
LEMMA RelativeOf ==
  ASSUME NEW S, NEW q \in Seq(S), NEW r \in Seq(S)
  PROVE  RelativeTo(q, q \o r) = r
<1>1. q \o r \in Seq(S) /\ Inside(q \o r, q)
  BY ConcatProperties, FollowsIsInside
<1>2. q \o RelativeTo(q, q \o r) = q \o r /\ RelativeTo(q, q \o r) \in Seq(S)
  BY <1>1, Rejoined
<1> QED BY <1>2, ConcatSimplifications

\* Two paths that a third is inside of lie one inside the other.
LEMMA PrefixesNest ==
  ASSUME NEW S, NEW p \in Seq(S), NEW q \in Seq(S), NEW s \in Seq(S),
         Inside(s, p), Inside(s, q)
  PROVE  Overlap(p, q)
<1>1. /\ Len(p) \in Nat /\ Len(q) \in Nat /\ Len(s) \in Nat
      /\ Len(p) <= Len(s) /\ Len(q) <= Len(s)
  BY LenProperties DEF Inside
<1>2. ASSUME NEW a \in Seq(S), NEW b \in Seq(S), Inside(s, a), Inside(s, b), Len(b) <= Len(a)
      PROVE  Inside(a, b)
  <2>1. Len(a) \in Nat /\ Len(b) \in Nat /\ Len(a) <= Len(s) /\ Len(b) <= Len(s)
    BY <1>2, LenProperties DEF Inside
  <2>2. \A i \in 1..Len(s) : s[i] \in S
    BY ElementOfSeq
  <2>3. \A i \in 1..Len(a) : a[i] = s[i]
    <3>1. \A i \in 1..(Len(a) - 1 + 1) : SubSeq(s, 1, Len(a))[i] = s[1 + i - 1]
      BY <1>1, <2>1, <2>2, SubSeqProperties
    <3> QED BY <1>2, <2>1, <3>1 DEF Inside
  <2>4. \A i \in 1..Len(b) : b[i] = s[i]
    <3>1. \A i \in 1..(Len(b) - 1 + 1) : SubSeq(s, 1, Len(b))[i] = s[1 + i - 1]
      BY <1>1, <2>1, <2>2, SubSeqProperties
    <3> QED BY <1>2, <2>1, <3>1 DEF Inside
  <2> DEFINE c == SubSeq(a, 1, Len(b))
  <2>5. /\ c \in Seq(S) /\ Len(c) = Len(b)
        /\ \A i \in 1..Len(b) : c[i] = a[i]
    <3>1. \A i \in 1..Len(b) : a[i] \in S
      BY <1>2, <2>1, ElementOfSeq
    <3>2. /\ c \in Seq(S)
          /\ Len(c) = IF 1 <= Len(b) THEN Len(b) - 1 + 1 ELSE 0
          /\ \A i \in 1..(Len(b) - 1 + 1) : c[i] = a[1 + i - 1]
      BY <2>1, <3>1, SubSeqProperties
    <3> HIDE DEF c
    <3> QED BY <2>1, <3>2
  <2> HIDE DEF c
  <2>6. c = b
    <3>1. \A i \in 1..Len(c) : c[i] = b[i]
      BY <1>2, <2>1, <2>3, <2>4, <2>5
    <3> QED BY <2>5, <3>1, SeqEqual
  <2> QED BY <1>2, <2>6 DEF Inside, c
<1> QED BY <1>1, <1>2 DEF Overlap

\* Going one name further.
LEMMA OneFurther ==
  ASSUME NEW S, NEW z \in Seq(S), NEW e \in S
  PROVE  /\ Append(z, e) \in Seq(S) /\ Append(z, e) # <<>>
         /\ SubSeq(Append(z, e), 1, Len(Append(z, e)) - 1) = z
         /\ Inside(Append(z, e), z)
<1>1. Append(z, e) = z \o <<e>> /\ <<e>> \in Seq(S)
  BY AppendIsConcat
<1>2. Inside(Append(z, e), z)
  BY <1>1, FollowsIsInside
<1>3. Len(Append(z, e)) = Len(z) + 1 /\ Len(z) \in Nat
  BY AppendProperties, LenProperties
<1> QED BY <1>2, <1>3, AppendProperties DEF Inside

\* It does not matter from where one looks at the last name.
LEMMA AppendAfter ==
  ASSUME NEW S, NEW p \in Seq(S), NEW z \in Seq(S), NEW e \in S
  PROVE  p \o z \in Seq(S) /\ p \o Append(z, e) = Append(p \o z, e)
<1>1. Append(z, e) = z \o <<e>> /\ <<e>> \in Seq(S)
  BY AppendIsConcat
<1>2. p \o Append(z, e) = (p \o z) \o <<e>>
  BY <1>1, ConcatAssociative
<1>3. p \o z \in Seq(S)
  BY ConcatProperties
<1> QED BY <1>2, <1>3, AppendIsConcat

-----------------------------------------------------------------------------
(* Trees.                                                                  *)

\* The names along a path.  The provers do better with a set whose elements they
\* know nothing about.
Segments == STRING

\* A tree, said of what is below a path: with it its parents are there.
Closed(t) == \A z \in Seq(Segments), e \in Segments : Append(z, e) \in DOMAIN t => z \in DOMAIN t
Pathed(t) == DOMAIN t \subseteq Seq(Segments)

\* The two say the same.
LEMMA TreeIsClosed ==
  ASSUME NEW t, Pathed(t)
  PROVE  Closed(t) <=> \A p \in DOMAIN t : p # <<>> => SubSeq(p, 1, Len(p) - 1) \in DOMAIN t
<1>1. ASSUME Closed(t), NEW p \in DOMAIN t, p # <<>>
      PROVE  SubSeq(p, 1, Len(p) - 1) \in DOMAIN t
  <2>1. PICK z \in Seq(Segments), e \in Segments : p = Append(z, e)
    BY <1>1, SequenceEmptyOrAppend DEF Pathed
  <2>2. SubSeq(p, 1, Len(p) - 1) = z
    BY <2>1, OneFurther
  <2>3. z \in DOMAIN t
    BY <1>1, <2>1, Zenon DEF Closed
  <2> QED BY <2>2, <2>3
<1>2. ASSUME \A p \in DOMAIN t : p # <<>> => SubSeq(p, 1, Len(p) - 1) \in DOMAIN t,
             NEW z \in Seq(Segments), NEW e \in Segments, Append(z, e) \in DOMAIN t
      PROVE  z \in DOMAIN t
  BY <1>2, OneFurther
<1> QED BY <1>1, <1>2 DEF Closed

\* What lies below a path that is not in a tree is not in it either.
LEMMA ClosedUpwards ==
  ASSUME NEW t, Pathed(t), Closed(t), NEW p \in Seq(Segments), NEW x \in Seq(Segments),
         p \o x \in DOMAIN t
  PROVE  p \in DOMAIN t
<1> DEFINE T == {k \in Nat : \A y \in Seq(Segments) :
                               Len(y) = k /\ p \o y \in DOMAIN t => p \in DOMAIN t}
<1>1. 0 \in T
  <2>1. \A y \in Seq(Segments) : Len(y) = 0 => p \o y = p
    BY EmptySeq, ConcatEmptySeq
  <2> QED BY <2>1
<1>2. Len(x) \in Nat
  BY LenProperties
<1>3. ASSUME NEW k \in 1..Len(x), k - 1 \in T PROVE k \in T
  <2> SUFFICES ASSUME NEW y \in Seq(Segments), Len(y) = k, p \o y \in DOMAIN t
               PROVE  p \in DOMAIN t
    BY <1>2
  <2>1. y # <<>>
    BY EmptySeq
  <2>2. PICK z \in Seq(Segments), e \in Segments : y = Append(z, e)
    BY <2>1, SequenceEmptyOrAppend
  <2>3. Len(z) = k - 1
    BY <2>2, AppendProperties, LenProperties
  <2>4. p \o y = Append(p \o z, e) /\ p \o z \in Seq(Segments)
    BY <2>2, AppendAfter
  <2>5. p \o z \in DOMAIN t
    BY <2>2, <2>4, Zenon DEF Closed
  <2> QED BY <1>3, <2>3, <2>5
<1> HIDE DEF T
<1>4. Len(x) \in T
  BY <1>1, <1>2, <1>3, Upto, Len(x) \in 0..Len(x)
<1> QED BY <1>4 DEF T

\* A subtree has what lies below its root.
LEMMA SubtreeHas ==
  ASSUME NEW t, Pathed(t), NEW p \in Seq(Segments)
  PROVE  /\ DOMAIN Subtree(t, p) = {x \in Seq(Segments) : p \o x \in DOMAIN t}
         /\ \A x \in DOMAIN Subtree(t, p) : Subtree(t, p)[x] = t[p \o x]
<1>1. ASSUME NEW x \in Seq(Segments), p \o x \in DOMAIN t PROVE x \in DOMAIN Subtree(t, p)
  BY <1>1, FollowsIsInside, RelativeOf DEF Subtree
<1>2. ASSUME NEW x \in DOMAIN Subtree(t, p) PROVE x \in Seq(Segments) /\ p \o x \in DOMAIN t
  <2>1. PICK q \in DOMAIN t : Inside(q, p) /\ x = RelativeTo(p, q)
    BY DEF Subtree
  <2> QED BY <2>1, Rejoined DEF Pathed
<1>3. \A x \in DOMAIN Subtree(t, p) : Subtree(t, p)[x] = t[p \o x]
  BY DEF Subtree
<1> QED BY <1>1, <1>2, <1>3

\* A part of a tree is one.
LEMMA SubtreeIsTree ==
  ASSUME NEW t, Pathed(t), IsTree(t), NEW p \in Seq(Segments)
  PROVE  Pathed(Subtree(t, p)) /\ IsTree(Subtree(t, p))
<1> DEFINE u == Subtree(t, p)
<1>1. /\ DOMAIN u = {x \in Seq(Segments) : p \o x \in DOMAIN t}
      /\ \A x \in DOMAIN u : u[x] = t[p \o x]
  BY SubtreeHas
<1>2. u = [x \in DOMAIN u |-> u[x]]
  BY DEF Subtree
<1>3. Closed(t)
  BY TreeIsClosed DEF IsTree
<1> HIDE DEF u
<1>4. u \in [DOMAIN u -> Nodes]
  <2>1. \A x \in DOMAIN u : u[x] \in Nodes
    BY <1>1 DEF IsTree
  <2> QED BY <1>2, <2>1
<1>5. DOMAIN u # {} => <<>> \in DOMAIN u
  BY <1>1, <1>3, ClosedUpwards, EmptySeq, ConcatEmptySeq
<1>6. Closed(u)
  <2> SUFFICES ASSUME NEW z \in Seq(Segments), NEW e \in Segments, Append(z, e) \in DOMAIN u
               PROVE  z \in DOMAIN u
    BY DEF Closed
  <2>1. p \o Append(z, e) \in DOMAIN t
    BY <1>1
  <2>2. p \o Append(z, e) = Append(p \o z, e) /\ p \o z \in Seq(Segments)
    BY AppendAfter
  <2> QED BY <1>1, <1>3, <2>1, <2>2 DEF Closed
<1>7. Pathed(u)
  BY <1>1 DEF Pathed
<1> QED BY <1>4, <1>5, <1>6, <1>7, TreeIsClosed DEF IsTree, u

\* So is what is left without it.
LEMMA WithoutIsTree ==
  ASSUME NEW t, Pathed(t), IsTree(t), NEW p \in Seq(Segments)
  PROVE  Pathed(Without(t, p)) /\ IsTree(Without(t, p))
<1> DEFINE u == Without(t, p)
<1>1. /\ DOMAIN u = {q \in DOMAIN t : ~Inside(q, p)}
      /\ \A q \in DOMAIN u : u[q] = t[q]
      /\ u = [q \in DOMAIN u |-> u[q]]
  BY DEF Without
<1>2. Closed(t) /\ \A q \in DOMAIN t : q \in Seq(Segments)
  BY TreeIsClosed DEF IsTree, Pathed
<1> HIDE DEF u
<1>3. u \in [DOMAIN u -> Nodes]
  <2>1. \A q \in DOMAIN u : u[q] \in Nodes
    BY <1>1 DEF IsTree
  <2> QED BY <1>1, <2>1
<1>4. ASSUME DOMAIN u # {} PROVE <<>> \in DOMAIN u
  <2>1. PICK q \in DOMAIN u : TRUE
    BY <1>4
  <2>2. q \in DOMAIN t /\ q \in Seq(Segments) /\ ~Inside(q, p) /\ <<>> \in DOMAIN t
    BY <1>1, <1>2, <2>1 DEF IsTree
  <2>3. ASSUME Inside(<<>>, p) PROVE FALSE
    <3>1. Len(p) \in Nat /\ Len(p) <= 0
      BY <2>3, LenProperties, EmptySeq DEF Inside
    <3>2. p = <<>>
      BY <3>1, EmptySeq
    <3>3. p \o q = q
      BY <2>2, <3>2, ConcatEmptySeq
    <3>4. Inside(q, p)
      BY <2>2, <3>3, FollowsIsInside
    <3> QED BY <2>2, <3>4
  <2> QED BY <1>1, <2>2, <2>3
<1>5. Closed(u)
  <2> SUFFICES ASSUME NEW z \in Seq(Segments), NEW e \in Segments, Append(z, e) \in DOMAIN u
               PROVE  z \in DOMAIN u
    BY DEF Closed
  <2>1. Append(z, e) \in DOMAIN t /\ ~Inside(Append(z, e), p)
    BY <1>1
  <2>2. z \in DOMAIN t
    BY <1>2, <2>1, Zenon DEF Closed
  <2>3. ASSUME Inside(z, p) PROVE Inside(Append(z, e), p)
    <3>1. PICK r \in Seq(Segments) : z = p \o r
      BY <2>3, Rejoined
    <3>2. p \o Append(r, e) = Append(p \o r, e)
      BY AppendAfter
    <3>3. Append(r, e) \in Seq(Segments)
      BY AppendProperties
    <3>4. Inside(p \o Append(r, e), p)
      BY <3>3, FollowsIsInside
    <3> QED BY <3>1, <3>2, <3>4
  <2> QED BY <1>1, <2>1, <2>2, <2>3
<1>6. Pathed(u)
  BY <1>1, <1>2 DEF Pathed
<1> QED BY <1>3, <1>4, <1>5, <1>6, TreeIsClosed DEF IsTree, u

\* What is at its paths may be replaced.
LEMMA ReplacedIsTree ==
  ASSUME NEW t, Pathed(t), IsTree(t), NEW u, u \in [DOMAIN t -> Nodes]
  PROVE  Pathed(u) /\ IsTree(u)
  BY DEF Pathed, IsTree

\* Neither a copy's stubs nor Sanitise's change which paths there are.
LEMMA CopyIsTree ==
  ASSUME NEW t, Pathed(t), IsTree(t)
  PROVE  Pathed(CopyTree(t)) /\ IsTree(CopyTree(t))
<1>1. CopyTree(t) \in [DOMAIN t -> Nodes]
  BY DEF CopyTree, IsTree, Nodes
<1> QED BY <1>1, ReplacedIsTree

\* Sanitise replaces links where they are.
LEMMA SanitisedIsTree ==
  ASSUME NEW t, Pathed(t), IsTree(t)
  PROVE  Pathed(Sanitised(t)) /\ IsTree(Sanitised(t))
<1>1. Sanitised(t) \in [DOMAIN t -> Nodes]
  BY DEF Sanitised, IsTree, Nodes
<1> QED BY <1>1, ReplacedIsTree

\* What restic restores is a part of the snapshot that has all its parents.
LEMMA IncludedIsTree ==
  ASSUME Pathed(snapshot), IsTree(snapshot), \A n \in Alone : backup[n] \in Seq(Segments)
  PROVE  Pathed(Included) /\ IsTree(Included)
<1> DEFINE u == Included
           Wanted(q) == \E n \in Alone : \/ Inside(q, backup[n])
                                         \/ Inside(backup[n], q) /\ backup[n] \in DOMAIN snapshot
<1>1. /\ DOMAIN u = {q \in DOMAIN snapshot : Wanted(q)}
      /\ \A q \in DOMAIN u : u[q] = snapshot[q]
      /\ u = [q \in DOMAIN u |-> u[q]]
  BY DEF Included
<1>2. /\ Closed(snapshot)
      /\ \A q \in DOMAIN snapshot : q \in Seq(Segments) /\ snapshot[q] \in Nodes
      /\ DOMAIN snapshot # {} => <<>> \in DOMAIN snapshot
  BY TreeIsClosed DEF IsTree, Pathed
<1> HIDE DEF u, Wanted
<1>3. ASSUME NEW z \in Seq(Segments), NEW e \in Segments, Append(z, e) \in DOMAIN u
      PROVE  z \in DOMAIN u
  <2>1. Append(z, e) \in DOMAIN snapshot /\ Wanted(Append(z, e))
    BY <1>1, <1>3
  <2>2. z \in DOMAIN snapshot
    BY <1>2, <2>1, Zenon DEF Closed
  <2>3. PICK n \in Alone :
          \/ Inside(Append(z, e), backup[n])
          \/ Inside(backup[n], Append(z, e)) /\ backup[n] \in DOMAIN snapshot
    BY <2>1 DEF Wanted
  <2> DEFINE b == backup[n]
  <2>4. b \in Seq(Segments) /\ Append(z, e) \in Seq(Segments) /\ Inside(Append(z, e), z)
    BY OneFurther
  <2> HIDE DEF b
  <2>5. CASE Inside(Append(z, e), b)
    <3>1. PICK r \in Seq(Segments) : Append(z, e) = b \o r
      BY <2>4, <2>5, Rejoined
    <3>2. ASSUME r = <<>> PROVE Wanted(z)
      <4>1. Append(z, e) = b
        BY <2>4, <3>1, <3>2, ConcatEmptySeq
      <4>2. Inside(b, z) /\ b \in DOMAIN snapshot
        BY <2>1, <2>4, <4>1
      <4> QED BY <4>2, Zenon DEF Wanted, b
    <3>3. ASSUME r # <<>> PROVE Wanted(z)
      <4>1. PICK y \in Seq(Segments), d \in Segments : r = Append(y, d)
        BY <3>3, SequenceEmptyOrAppend
      <4> DEFINE w == b \o y
      <4>2. w \in Seq(Segments) /\ Append(z, e) = Append(w, d) /\ Inside(w, b)
        BY <2>4, <3>1, <4>1, AppendAfter, FollowsIsInside
      <4> HIDE DEF w
      <4>3. z = w
        BY <4>2, AppendInjective
      <4>4. Inside(z, b)
        BY <4>2, <4>3
      <4> QED BY <4>4, Zenon DEF Wanted, b
    <3>4. Wanted(z)
      BY <3>2, <3>3
    <3> QED BY <1>1, <2>2, <3>4
  <2>6. CASE Inside(b, Append(z, e)) /\ b \in DOMAIN snapshot
    <3>1. PICK r \in Seq(Segments) : b = Append(z, e) \o r
      BY <2>4, <2>6, Rejoined
    <3>2. Append(z, e) = z \o <<e>> /\ <<e>> \in Seq(Segments)
      BY AppendIsConcat
    <3>3. b = z \o (<<e>> \o r) /\ <<e>> \o r \in Seq(Segments)
      BY <3>1, <3>2, ConcatAssociative, ConcatProperties
    <3>4. Inside(b, z)
      BY <3>3, FollowsIsInside
    <3> QED BY <1>1, <2>2, <2>6, <3>4 DEF Wanted, b
  <2> QED BY <2>3, <2>5, <2>6 DEF b
<1>4. Closed(u)
  BY <1>3, Zenon DEF Closed
<1>5. ASSUME NEW q \in DOMAIN u PROVE <<>> \in DOMAIN u
  <2> DEFINE none == <<>>
  <2>1. q \in Seq(Segments) /\ none \o q = q /\ none \in Seq(Segments)
    BY <1>1, <1>2, ConcatEmptySeq, EmptySeq
  <2>2. Pathed(u)
    BY <1>1, <1>2 DEF Pathed
  <2> HIDE DEF none
  <2>3. none \o q \in DOMAIN u
    BY <2>1
  <2>4. none \in DOMAIN u
    BY <1>4, <2>1, <2>2, <2>3, ClosedUpwards
  <2> QED BY <2>4 DEF none
<1>6. u \in [DOMAIN u -> Nodes]
  <2>1. \A q \in DOMAIN u : u[q] \in Nodes
    BY <1>1, <1>2
  <2> QED BY <1>1, <2>1
<1>7. Pathed(u)
  BY <1>1, <1>2 DEF Pathed
<1> QED BY <1>4, <1>5, <1>6, <1>7, TreeIsClosed DEF IsTree, u

-----------------------------------------------------------------------------
(* The order in which inputs are worked on.                                *)

\* The recipe's inputs, in its order: each name of an input is one of them.
LEMMA OrderHas ==
  /\ Len(InputOrder) \in Nat /\ InputOrder \in Seq(Names)
  /\ \A n \in Names : \E k \in 1..Len(InputOrder) : InputOrder[k] = n
<1>1. Len(InputOrder) \in Nat /\ InputOrder \in [1..Len(InputOrder) -> STRING]
  BY ConstantsAssumption, LenProperties
<1>2. InputOrder \in [1..Len(InputOrder) -> Names]
  BY <1>1 DEF Names
<1>3. InputOrder \in Seq(Names)
  BY <1>1, <1>2, SeqDef
<1> QED BY <1>1, <1>3 DEF Names

\* Each input once, and those that stand on their own before the others.
InOrder(r) ==
  /\ r \in Seq(Names) /\ Len(r) \in 0..Len(InputOrder)
  /\ \A n \in Names : \E k \in 1..Len(r) : r[k] = n
  /\ \A i, j \in 1..Len(r) : r[i] = r[j] => i = j
  /\ \A i, j \in 1..Len(r) : Within(r[i]) /\ ~Within(r[j]) => j < i

\* The two passes of Resolve give each input once, the nested ones last.
LEMMA PassesHave == InOrder(Passes)
<1> DEFINE L == Len(InputOrder)
           A == Selected(InputOrder, Alone)
           B == Selected(InputOrder, Names \ Alone)
<1>1. /\ L \in Nat /\ InputOrder \in Seq(Names)
      /\ \A i, j \in 1..L : InputOrder[i] = InputOrder[j] => i = j
  BY OrderHas, ConstantsAssumption
<1>2. A \in Seq(Names) /\ \E g : Picks(InputOrder, Alone, L, A, g)
  BY OrderHas, SelectedPicks
<1>3. B \in Seq(Names) /\ \E g : Picks(InputOrder, Names \ Alone, L, B, g)
  BY OrderHas, SelectedPicks
<1>4. Passes = A \o B
  BY DEF Passes
<1> HIDE DEF A, B, L
<1>5. PICK g : Picks(InputOrder, Alone, L, A, g)
  BY <1>2
<1>6. PICK h : Picks(InputOrder, Names \ Alone, L, B, h)
  BY <1>3
<1> DEFINE a == Len(A)
           b == Len(B)
           r == A \o B
<1>7. /\ a \in Nat /\ b \in Nat /\ r \in Seq(Names) /\ Len(r) = a + b
      /\ \A k \in 1..(a + b) : r[k] = IF k <= a THEN A[k] ELSE B[k - a]
  BY <1>2, <1>3, LenProperties, ConcatProperties
<1> HIDE DEF r
<1>8. /\ \A k \in 1..a : g[k] \in 1..L /\ A[k] = InputOrder[g[k]] /\ A[k] \in Alone
      /\ \A i, j \in 1..a : i < j => g[i] < g[j]
      /\ \A i \in 1..L : InputOrder[i] \in Alone => \E j \in 1..a : g[j] = i
  BY <1>5 DEF Picks
<1>9. /\ \A k \in 1..b : h[k] \in 1..L /\ B[k] = InputOrder[h[k]] /\ B[k] \in Names \ Alone
      /\ \A i, j \in 1..b : i < j => h[i] < h[j]
      /\ \A i \in 1..L : InputOrder[i] \in Names \ Alone => \E j \in 1..b : h[j] = i
  BY <1>6 DEF Picks
<1> HIDE DEF a, b
<1> DEFINE f == [k \in 1..(a + b) |-> IF k <= a THEN g[k] ELSE h[k - a]]
<1>10. \A k \in 1..(a + b) : k \in 1..a \/ (~(k <= a) /\ k - a \in 1..b)
  BY <1>7
<1>11. ASSUME NEW k \in 1..(a + b)
       PROVE  f[k] \in 1..L /\ r[k] = InputOrder[f[k]] /\ (r[k] \in Alone <=> k <= a)
  <2>1. CASE k \in 1..a
    BY <1>7, <1>8, <2>1
  <2>2. CASE ~(k <= a) /\ k - a \in 1..b
    BY <1>7, <1>9, <2>2
  <2> QED BY <1>10, <2>1, <2>2
<1>12. ASSUME NEW i \in 1..(a + b), NEW j \in 1..(a + b), r[i] = r[j] PROVE i = j
  <2>1. f[i] = f[j] /\ (i <= a <=> j <= a)
    BY <1>1, <1>11, <1>12
  <2>2. CASE i \in 1..a
    <3>1. j \in 1..a /\ g[i] = g[j]
      BY <1>7, <2>1, <2>2
    <3>2. g[i] \in Int /\ ~(g[i] < g[j]) /\ ~(g[j] < g[i])
      BY <1>1, <1>8, <2>2, <3>1
    <3> QED BY <1>7, <1>8, <2>2, <3>1, <3>2
  <2>3. CASE ~(i <= a) /\ i - a \in 1..b
    <3>1. j - a \in 1..b /\ h[i - a] = h[j - a]
      BY <1>7, <1>10, <2>1, <2>3
    <3>2. h[i - a] \in Int /\ ~(h[i - a] < h[j - a]) /\ ~(h[j - a] < h[i - a])
      BY <1>1, <1>9, <2>3, <3>1
    <3>3. ~(i - a < j - a) /\ ~(j - a < i - a)
      BY <1>9, <2>3, <3>1, <3>2
    <3> QED BY <1>7, <3>3
  <2> QED BY <1>10, <2>2, <2>3
<1>13. ASSUME NEW n \in Names PROVE \E k \in 1..(a + b) : r[k] = n
  <2>1. PICK i \in 1..L : InputOrder[i] = n
    BY OrderHas DEF L
  <2>2. CASE n \in Alone
    <3>1. PICK j \in 1..a : g[j] = i
      BY <1>8, <2>1, <2>2
    <3>2. j \in 1..(a + b) /\ r[j] = n
      BY <1>7, <1>8, <2>1, <3>1
    <3> QED BY <3>2
  <2>3. CASE n \notin Alone
    <3>1. PICK j \in 1..b : h[j] = i
      BY <1>9, <2>1, <2>3
    <3>2. a + j \in 1..(a + b) /\ (a + j) - a = j /\ ~(a + j <= a)
      BY <1>7
    <3>3. r[a + j] = n
      BY <1>7, <1>9, <2>1, <3>1, <3>2
    <3> QED BY <3>2, <3>3
  <2> QED BY <2>2, <2>3
<1>14. a + b <= L
  <2> SUFFICES ASSUME a + b > L PROVE FALSE
    BY <1>1, <1>7
  <2>1. /\ IsFiniteSet(1..(a + b)) /\ Cardinality(1..(a + b)) = a + b
        /\ IsFiniteSet(1..L) /\ Cardinality(1..L) = L
    <3>1. \A m \in Nat : IsFiniteSet(1..m) /\ Cardinality(1..m) = m
      <4> TAKE m \in Nat
      <4>1. /\ IsFiniteSet(1..m)
            /\ Cardinality(1..m) = IF 1 > m THEN 0 ELSE m - 1 + 1
        BY FS_Interval
      <4> QED BY <4>1
    <3> QED BY <1>1, <1>7, <3>1
  <2>2. f \in [1..(a + b) -> 1..L]
    BY <1>11
  <2> HIDE DEF f
  <2>3. \E i, j \in 1..(a + b) : i # j /\ f[i] = f[j]
    BY <2>1, <2>2, FS_PigeonHole
  <2> QED BY <1>11, <1>12, <2>3
<1>15. ASSUME NEW i \in 1..(a + b), NEW j \in 1..(a + b), Within(r[i]), ~Within(r[j]) PROVE j < i
  <2>1. r[i] \in Names /\ r[j] \in Names
    BY <1>7, ElementOfSeq
  <2>2. ~(i <= a) /\ j <= a
    BY <1>11, <1>15, <2>1 DEF Alone
  <2> QED BY <1>7, <2>2
<1>16. InOrder(r)
  BY <1>7, <1>12, <1>13, <1>14, <1>15 DEF InOrder, L
<1> QED BY <1>4, <1>16 DEF r

-----------------------------------------------------------------------------
(* The invariant.                                                          *)

\* What is given does not change.
Given ==
  /\ recipe \in Recipes /\ InputPaths \in [Names -> Paths \cup {Default, Invalid}]
  /\ kind \in {"restic", "dir"} /\ snapshot \in Snapshots

\* Where the stage is, and at which input.
Position ==
  /\ pc \in {"resolve", "fetch", "input", "prepare", "done", "failed"}
  /\ error \in {"none", "recipe", "source", "not inside", "missing", "files"}
  /\ error # "none" <=> pc = "failed"
  /\ next \in 1..(Len(inputs) + 1)
  /\ pc \in {"resolve", "fetch"} => next = 1
  /\ pc = "prepare" => next <= Len(inputs) /\ ~Within(Name)
  /\ pc = "done" => next = Len(inputs) + 1
  /\ error \in {"not inside", "missing"} => next <= Len(inputs)

\* Where the inputs are in the backup.
Known(n) ==
  /\ backup[n] \in Seq(Segments) /\ rel[n] \in Seq(Segments)
  /\ Overridden(n) => backup[n] = InputPaths[n]
  /\ Within(n) => recipe.within[n] \in Alone /\ backup[n] = backup[recipe.within[n]] \o rel[n]

Located ==
  /\ DOMAIN backup = Names /\ DOMAIN rel = Names
  /\ pc = "resolve" \/ error = "recipe" => inputs = <<>>
  /\ pc # "resolve" /\ error # "recipe" => InOrder(inputs) /\ \A n \in Names : Known(n)

\* The trees are trees.
Sound(t) == Pathed(t) /\ IsTree(t)
Trees == Sound(tree) /\ DOMAIN place = Names /\ \A n \in Names : Sound(place[n])

\* The input has not been worked on.
Awaits(n) == \A k \in 1..(next - 1) : inputs[k] # n
AtHand(n) == pc = "prepare" /\ n = Name

\* What the backup has of an input is still where it was fetched.
Intact(n) ==
  \A q \in DOMAIN tree \cup DOMAIN snapshot :
    Inside(q, backup[n]) => q \in DOMAIN tree /\ q \in DOMAIN snapshot /\ tree[q] = snapshot[q]

\* It is, until its input's turn.
Untouched ==
  pc \in {"input", "prepare"} =>
    \A n \in Alone : Apart(n) /\ Awaits(n) /\ ~AtHand(n) => Intact(n)

\* The same files.
Like(got, had) ==
  DOMAIN got = DOMAIN had /\ \A r \in DOMAIN had : had[r] \in Links \/ got[r] = had[r]
Restored(n) == Apart(n) /\ n \notin unseen => Like(place[n], Subtree(snapshot, backup[n]))

\* What was worked on is in its place, and has what is required of it.
Placed ==
  pc # "failed" =>
    /\ \A n \in Alone :
         /\ Awaits(n) /\ ~AtHand(n) => place[n] = NoTree
         /\ ~Awaits(n) => Restored(n) /\ (recipe.required[n] => place[n] # NoTree)
         /\ AtHand(n) => Restored(n) /\ place[n] # NoTree
    /\ \A n \in Names \ Alone :
         ~Awaits(n) /\ recipe.required[n] => rel[n] \in DOMAIN place[recipe.within[n]]

\* What os.Stat failed on are inputs.
Looked == unseen \subseteq Names

IInv == /\ Given /\ Position /\ Located /\ Trees /\ Looked /\ OperatorsTreeIsLeftAlone
        /\ Untouched /\ Placed /\ RefusalIsTrue

-----------------------------------------------------------------------------
(* One part after the other.                                               *)

\* Nothing changes what is given.
LEMMA GivenStays == [Next]_vars => UNCHANGED given
  BY DEF Next, vars, given, Resolve, Fetch, LookInside, SkipMissing, Take, Prepare, Discard, Over

\* So it stays what it was.
LEMMA GivenStep == ASSUME Given, [Next]_vars PROVE Given'
  BY GivenStays DEF Given, given

\* A path that is not refused is a sequence of names.
LEMMA PathIsSequence ==
  ASSUME Given, NEW n \in Names, PathOf(n) # Invalid
  PROVE  PathOf(n) \in Seq(Segments) /\ recipe.default[n] \in Seq(Segments)
<1>1. InputPaths[n] \in Paths \cup {Default, Invalid}
  BY DEF Given
<1>2. Paths \subseteq Seq(STRING) /\ recipe.default[n] \in Seq(STRING)
  BY ConstantsAssumption DEF Given
<1>3. PathOf(n) \in Seq(STRING)
  BY <1>1, <1>2 DEF PathOf, Overridden
<1> QED BY <1>2, <1>3 DEF Segments

\* Where Resolve puts an input that it accepts.
LEMMA ResolvedPaths ==
  ASSUME Given, Resolvable, NEW n \in Names
  PROVE  /\ BackupPath(n) \in Seq(Segments)
         /\ Overridden(n) => BackupPath(n) = InputPaths[n]
         /\ Within(n) => LET m == recipe.within[n]
                             r == RelativeTo(Anchor(n), PathOf(n))
                         IN  m \in Alone /\ r \in Seq(Segments) /\ BackupPath(n) = BackupPath(m) \o r
<1>1. PathOf(n) \in Seq(Segments) /\ recipe.default[n] \in Seq(Segments)
  BY PathIsSequence DEF Resolvable
<1>2. CASE ~Within(n)
  BY <1>1, <1>2 DEF BackupPath, PathOf
<1>3. CASE Within(n)
  <2> DEFINE m == recipe.within[n]
             r == RelativeTo(Anchor(n), PathOf(n))
  <2>1. m \in Alone /\ m \in Names /\ ~Within(m) /\ Inside(PathOf(n), Anchor(n))
    BY <1>3 DEF Resolvable, Alone
  <2>2. PathOf(m) \in Seq(Segments) /\ recipe.default[m] \in Seq(Segments)
    BY <2>1, PathIsSequence DEF Resolvable
  <2>3. BackupPath(m) = PathOf(m)
    BY <2>1 DEF BackupPath
  <2>4. Anchor(n) \in Seq(Segments)
    BY <2>2 DEF Anchor
  <2>5. Anchor(n) \o r = PathOf(n) /\ r \in Seq(Segments)
    BY <1>1, <2>1, <2>4, Rejoined
  <2> HIDE DEF m, r
  <2>6. CASE Overridden(n)
    <3>1. Anchor(n) = PathOf(m) /\ BackupPath(n) = PathOf(n) /\ PathOf(n) = InputPaths[n]
      BY <2>6 DEF Anchor, BackupPath, PathOf, m
    <3> QED BY <1>1, <2>1, <2>3, <2>5, <3>1 DEF m, r
  <2>7. CASE ~Overridden(n)
    <3>1. BackupPath(n) = PathOf(m) \o r
      BY <1>3, <2>7 DEF BackupPath, m, r
    <3>2. PathOf(m) \o r \in Seq(Segments)
      BY <2>2, <2>5, ConcatProperties
    <3> QED BY <2>1, <2>3, <2>5, <2>7, <3>1, <3>2 DEF m, r
  <2> QED BY <2>6, <2>7
<1> QED BY <1>2, <1>3

\* Where the inputs are is decided once.
LEMMA LocatedStep == ASSUME Given, Position, Located, [Next]_vars PROVE Located'
<1>1. UNCHANGED given
  BY GivenStays
<1>2. CASE Resolve /\ pc' # "failed"
  <2>1. /\ Resolvable /\ inputs' = Passes /\ error' = "none" /\ pc' = "fetch"
        /\ backup' = [n \in Names |-> BackupPath(n)]
        /\ rel' = [n \in Names |-> IF Within(n) THEN RelativeTo(Anchor(n), PathOf(n)) ELSE <<>>]
    BY <1>2 DEF Resolve, Fails, Position
  <2>2. InOrder(inputs)'
    BY <1>1, <2>1, PassesHave DEF InOrder, given, Within
  <2>3. ASSUME NEW n \in Names PROVE Known(n)'
    <3>1. /\ BackupPath(n) \in Seq(Segments)
          /\ Overridden(n) => BackupPath(n) = InputPaths[n]
          /\ Within(n) => LET m == recipe.within[n]
                              r == RelativeTo(Anchor(n), PathOf(n))
                          IN  m \in Alone /\ r \in Seq(Segments) /\ BackupPath(n) = BackupPath(m) \o r
      BY <2>1, ResolvedPaths
    <3>2. backup'[n] = BackupPath(n) /\ rel'[n] \in Seq(Segments)
      BY <2>1, <3>1, EmptySeq
    <3>3. ASSUME Within(n)
          PROVE  recipe.within[n] \in Alone /\ backup'[n] = backup'[recipe.within[n]] \o rel'[n]
      <4>1. recipe.within[n] \in Names
        BY <3>1, <3>3 DEF Alone
      <4>2. backup'[recipe.within[n]] = BackupPath(recipe.within[n])
        BY <2>1, <4>1
      <4>3. rel'[n] = RelativeTo(Anchor(n), PathOf(n))
        BY <2>1, <3>3
      <4> QED BY <3>1, <3>2, <3>3, <4>2, <4>3
    <3> QED BY <1>1, <3>1, <3>2, <3>3 DEF Known, given, Overridden, Within, Alone
  <2>4. DOMAIN backup' = Names /\ DOMAIN rel' = Names
    BY <2>1
  <2>5. pc' # "resolve" /\ error' # "recipe"
    BY <2>1
  <2> QED BY <2>2, <2>3, <2>4, <2>5 DEF Located
<1>3. CASE Resolve /\ pc' = "failed"
  <2>1. error' = "recipe" /\ UNCHANGED <<inputs, backup, rel>> /\ pc = "resolve"
    BY <1>3 DEF Resolve, Fails, resolved
  <2> QED BY <2>1 DEF Located
<1>4. CASE Fetch \/ LookInside \/ SkipMissing \/ Take \/ Prepare \/ Discard \/ Over \/ UNCHANGED vars
  <2>1. UNCHANGED <<inputs, backup, rel>>
    BY <1>4 DEF Fetch, LookInside, SkipMissing, Take, Prepare, Discard, Over, vars, resolved
  <2>2. (pc = "resolve" <=> pc' = "resolve") /\ (error = "recipe" <=> error' = "recipe")
    BY <1>4 DEF Fetch, LookInside, SkipMissing, Take, Prepare, Discard, Over, vars, At, Fails,
                GoOn, Put, Move, Copy, Position
  <2>3. InOrder(inputs)' <=> InOrder(inputs)
    BY <1>1, <2>1 DEF InOrder, given, Within
  <2>4. \A n \in Names : Known(n)' <=> Known(n)
    BY <1>1, <2>1 DEF Known, given, Overridden, Within, Alone
  <2> QED BY <2>1, <2>2, <2>3, <2>4 DEF Located
<1> QED BY <1>2, <1>3, <1>4 DEF Next

\* The stage goes through the inputs one by one.
LEMMA PositionStep == ASSUME Given, Position, Located, [Next]_vars PROVE Position'
<1>1. UNCHANGED given
  BY GivenStays
<1>2. CASE Resolve
  <2>1. next = 1 /\ UNCHANGED next /\ pc = "resolve" /\ error = "none"
    BY <1>2 DEF Resolve, Position
  <2>2. CASE pc' = "fetch" /\ UNCHANGED error /\ inputs' = Passes
    <3>1. Len(inputs') \in Nat
      BY <2>2, PassesHave, OrderHas DEF InOrder
    <3> QED BY <2>1, <2>2, <3>1 DEF Position
  <2>3. CASE pc' = "failed" /\ error' = "recipe" /\ UNCHANGED inputs
    BY <2>1, <2>3 DEF Position
  <2> QED BY <1>2, <2>2, <2>3 DEF Resolve, Fails, resolved
<1>3. CASE Fetch \/ LookInside \/ SkipMissing \/ Take \/ Prepare \/ Discard \/ Over \/ UNCHANGED vars
  <2>1. UNCHANGED inputs
    BY <1>3 DEF Fetch, LookInside, SkipMissing, Take, Prepare, Discard, Over, vars, resolved
  <2>2. Len(inputs) \in Nat
    <3>1. Len(<<>>) = 0
      BY EmptySeq
    <3> QED BY <3>1, LenProperties, OrderHas DEF Located, InOrder
  <2>3. /\ next <= Len(inputs) => next + 1 \in 1..(Len(inputs) + 1)
        /\ next > Len(inputs) => next = Len(inputs) + 1
    <3>1. next \in 1..(Len(inputs) + 1)
      BY DEF Position
    <3> QED BY <2>2, <3>1
  <2> DEFINE n == Len(inputs)
  <2>4. n' = n
    BY <2>1
  <2> HIDE DEF n
  <2>5. CASE Fetch
    BY <2>1, <2>2, <2>5 DEF Fetch, Fails, Position
  <2>6. CASE LookInside \/ SkipMissing
    BY <2>1, <2>3, <2>4, <2>6 DEF n, LookInside, SkipMissing, At, Fails, GoOn, Position
  <2>7. CASE Take
    <3>1. ~Within(Name)' <=> ~Within(Name)
      BY <1>1, <2>1, <2>7 DEF Take, Within, Name, given
    <3> QED BY <2>1, <2>2, <2>7, <3>1 DEF Take, Move, Copy, Put, At, Fails, Position
  <2>8. CASE Prepare
    BY <2>1, <2>3, <2>4, <2>8 DEF n, Prepare, At, Fails, GoOn, Position
  <2>9. CASE Discard
    BY <2>1, <2>3, <2>4, <2>9 DEF n, Discard, Fails, Position
  <2>10. CASE Over \/ UNCHANGED vars
    <3>1. UNCHANGED <<pc, error, next>> /\ (Within(Name)' <=> Within(Name))
      BY <1>1, <2>1, <2>10 DEF Over, vars, Within, Name, given
    <3> QED BY <2>1, <3>1 DEF Position
  <2> QED BY <1>3, <2>5, <2>6, <2>7, <2>8, <2>9, <2>10
<1> QED BY <1>2, <1>3 DEF Next

\* What is given is sound.
LEMMA SnapshotIsSound == ASSUME Given PROVE Sound(snapshot)
<1>1. IsTree(snapshot) /\ \A p \in DOMAIN snapshot : p \in Seq(STRING)
  BY ConstantsAssumption DEF Given
<1> QED BY <1>1 DEF Sound, Pathed, Segments

\* A place at which there is nothing is a tree as well.
LEMMA NoTreeIsSound == Sound(NoTree)
  BY DEF Sound, Pathed, IsTree, NoTree

\* The input at hand.
LEMMA NameHas ==
  ASSUME Position, Located, pc \in {"input", "prepare"}, next <= Len(inputs)
  PROVE  Name \in Names /\ Known(Name) /\ Awaits(Name) /\ (Within(Name) => \A n \in Alone : ~Awaits(n))
<1>1. InOrder(inputs) /\ \A n \in Names : Known(n)
  BY DEF Located, Position
<1>2. Len(inputs) \in Nat /\ next \in 1..Len(inputs)
  <2>1. Len(inputs) \in Nat
    BY <1>1, OrderHas DEF InOrder
  <2>2. next \in 1..(Len(inputs) + 1)
    BY DEF Position
  <2> QED BY <2>1, <2>2
<1>3. Name \in Names
  BY <1>1, <1>2, ElementOfSeq DEF InOrder, Name
<1>4. Awaits(Name)
  BY <1>1, <1>2 DEF InOrder, Awaits, Name
<1>5. ASSUME Within(Name), NEW n \in Alone PROVE ~Awaits(n)
  <2>1. PICK k \in 1..Len(inputs) : inputs[k] = n
    BY <1>1 DEF InOrder, Alone
  <2>2. k < next
    BY <1>1, <1>2, <1>5, <2>1 DEF InOrder, Alone, Name
  <2> QED BY <1>2, <2>1, <2>2 DEF Awaits
<1> QED BY <1>1, <1>3, <1>4, <1>5

\* The trees stay trees.
LEMMA TreesStep == ASSUME Given, Position, Located, Trees, [Next]_vars PROVE Trees'
<1>1. CASE Resolve \/ LookInside \/ SkipMissing \/ Over \/ UNCHANGED vars
  BY <1>1 DEF Resolve, LookInside, SkipMissing, Over, vars, Trees
<1>2. CASE Fetch
  <2>1. \A n \in Alone : backup[n] \in Seq(Segments)
    BY <1>2 DEF Fetch, Located, Position, Known, Alone
  <2>2. Sound(Included)
    BY <2>1, SnapshotIsSound, IncludedIsTree DEF Sound
  <2> QED BY <1>2, <2>2 DEF Fetch, Trees
<1>3. CASE Take
  <2>1. pc = "input" /\ next <= Len(inputs)
    BY <1>3 DEF Take, At
  <2>2. Name \in Names /\ backup[Name] \in Seq(Segments)
    BY <2>1, NameHas DEF Known
  <2>3. Sound(Subtree(tree, backup[Name])) /\ Sound(Without(tree, backup[Name]))
    BY <2>2, SubtreeIsTree, WithoutIsTree DEF Trees, Sound
  <2>4. Sound(CopyTree(Subtree(tree, backup[Name])))
    BY <2>3, CopyIsTree DEF Sound
  <2>5. CASE Move
    BY <2>2, <2>3, <2>5 DEF Move, Put, Trees
  <2>6. CASE Copy
    BY <2>2, <2>4, <2>6 DEF Copy, Put, Trees
  <2>7. CASE UNCHANGED <<place, tree>>
    BY <2>7 DEF Trees
  <2> QED BY <1>3, <2>5, <2>6, <2>7 DEF Take
<1>4. CASE Prepare
  <2>1. pc = "prepare" /\ next <= Len(inputs) /\ UNCHANGED tree
    BY <1>4 DEF Prepare, At
  <2>2. Name \in Names
    BY <2>1, NameHas
  <2>3. Sound(Sanitised(place[Name]))
    BY <2>2, SanitisedIsTree DEF Trees, Sound
  <2> QED BY <1>4, <2>1, <2>2, <2>3 DEF Prepare, Trees
<1>5. CASE Discard
  BY <1>5, NoTreeIsSound DEF Discard, Trees
<1> QED BY <1>1, <1>2, <1>3, <1>4, <1>5 DEF Next

\* What os.Stat failed on is not forgotten, and it was the input at hand.
LEMMA LookedStep ==
  ASSUME Position, Located, Looked, [Next]_vars
  PROVE  Looked' /\ unseen \subseteq unseen'
<1>1. UNCHANGED given
  BY GivenStays
<1>2. CASE LookInside \/ SkipMissing
  <2>1. pc = "input" /\ next <= Len(inputs)
    BY <1>2 DEF LookInside, SkipMissing, At
  <2>2. Name \in Names
    BY <2>1, NameHas
  <2>3. unseen' \in {unseen, unseen \cup {Name}}
    BY <1>2 DEF LookInside, SkipMissing, StatSucceeds, StatFails
  <2> QED BY <2>2, <2>3 DEF Looked
<1>3. CASE Resolve \/ Fetch \/ Take \/ Prepare \/ Discard \/ Over \/ UNCHANGED vars
  <2>1. UNCHANGED unseen
    BY <1>3 DEF Resolve, Fetch, Take, StatSucceeds, Prepare, Discard, Over, vars
  <2> QED BY <2>1 DEF Looked
<1> QED BY <1>2, <1>3 DEF Next

\* The operator's tree is not touched: only a disposable tree is moved out of
\* or removed, and restic's alone is disposable.
LEMMA OperatorsTreeStep ==
  ASSUME OperatorsTreeIsLeftAlone, [Next]_vars
  PROVE  OperatorsTreeIsLeftAlone'
<1>1. UNCHANGED given
  BY GivenStays
<1>2. kind = "dir" => UNCHANGED tree
  <2> SUFFICES ASSUME kind = "dir" PROVE UNCHANGED tree
    OBVIOUS
  <2>1. CASE Fetch
    BY <2>1 DEF Fetch
  <2>2. CASE Take
    BY <2>2 DEF Take, Move, Copy, Disposable
  <2>3. CASE Discard
    BY <2>3 DEF Discard, Disposable
  <2>4. CASE Resolve \/ LookInside \/ SkipMissing \/ Prepare \/ Over \/ UNCHANGED vars
    BY <2>4 DEF Resolve, LookInside, SkipMissing, Prepare, Over, vars
  <2> QED BY <2>1, <2>2, <2>3, <2>4 DEF Next
<1> QED BY <1>1, <1>2 DEF OperatorsTreeIsLeftAlone, given

\* The input's path is apart, as long as nothing is resolved anew.
LEMMA ApartStays ==
  ASSUME UNCHANGED <<given, backup>>, NEW n
  PROVE  Apart(n)' <=> Apart(n)
  BY DEF Apart, given, Alone, Within, Owner

\* One step further, the input at hand is done.
LEMMA AwaitsNext ==
  ASSUME Position, Located, pc \in {"input", "prepare"}, next <= Len(inputs),
         UNCHANGED inputs, next' = next + 1, NEW n
  PROVE  Awaits(n)' <=> Awaits(n) /\ n # Name
<1>1. Len(inputs) \in Nat /\ next \in Nat \ {0}
  <2>1. Len(inputs) \in Nat
    <3>1. InOrder(inputs)
      BY DEF Located, Position
    <3> QED BY <3>1, OrderHas DEF InOrder
  <2>2. next \in 1..(Len(inputs) + 1)
    BY DEF Position
  <2> QED BY <2>1, <2>2
<1>2. \A k \in 1..(next' - 1) : k = next \/ k \in 1..(next - 1)
  BY <1>1
<1>3. 1..(next - 1) \subseteq 1..(next' - 1) /\ next \in 1..(next' - 1)
  BY <1>1
<1> QED BY <1>2, <1>3 DEF Awaits, Name

\* What a step leaves alone.
LEMMA AwaitsStays == ASSUME UNCHANGED <<inputs, next>>, NEW n PROVE Awaits(n)' <=> Awaits(n)
  BY DEF Awaits

\* An input that nobody took from is intact.
LEMMA IntactStays ==
  ASSUME UNCHANGED <<tree, snapshot, backup>>, NEW n PROVE Intact(n)' <=> Intact(n)
  BY DEF Intact

\* Taking one input out does not disturb another that is apart from it.
LEMMA TakenApart ==
  ASSUME Given, Position, Located, Trees, NEW m \in Alone, NEW n \in Alone, m # n,
         kind = "restic", pc \in {"input", "prepare"}, Apart(n), Intact(n),
         tree' = Without(tree, backup[m]), UNCHANGED <<snapshot, backup>>
  PROVE  Intact(n)'
<1>1. backup[m] \in Seq(Segments) /\ backup[n] \in Seq(Segments)
  BY DEF Located, Position, Known, Alone
<1>2. ~Within(n) /\ Owner(n) = n
  BY DEF Alone, Owner
<1>3. ~Overlap(backup[m], backup[n])
  BY <1>2 DEF Apart
<1>4. /\ \A q \in DOMAIN snapshot : q \in Seq(Segments)
      /\ \A q \in DOMAIN tree : q \in Seq(Segments)
  BY SnapshotIsSound DEF Trees, Sound, Pathed
<1>5. /\ DOMAIN tree' = {q \in DOMAIN tree : ~Inside(q, backup[m])}
      /\ \A q \in DOMAIN tree' : tree'[q] = tree[q]
  BY DEF Without
<1>6. ASSUME NEW q \in DOMAIN tree' \cup DOMAIN snapshot, Inside(q, backup[n])
      PROVE  q \in DOMAIN tree' /\ q \in DOMAIN snapshot /\ tree'[q] = snapshot[q]
  <2>1. q \in Seq(Segments) /\ q \in DOMAIN tree \cup DOMAIN snapshot
    BY <1>4, <1>5, <1>6
  <2>2. q \in DOMAIN tree /\ q \in DOMAIN snapshot /\ tree[q] = snapshot[q]
    BY <1>6, <2>1 DEF Intact
  <2>3. ~Inside(q, backup[m])
    BY <1>1, <1>3, <1>6, <2>1, PrefixesNest
  <2> QED BY <1>5, <2>2, <2>3
<1> QED BY <1>6 DEF Intact

\* What restic was asked for is there, whole.
LEMMA FetchedIntact ==
  ASSUME NEW n \in Alone, tree' = Included, UNCHANGED <<snapshot, backup>>
  PROVE  Intact(n)'
<1>1. /\ DOMAIN tree' \subseteq DOMAIN snapshot
      /\ \A q \in DOMAIN tree' : tree'[q] = snapshot[q]
      /\ \A q \in DOMAIN snapshot : Inside(q, backup[n]) => q \in DOMAIN tree'
  BY DEF Included
<1> QED BY <1>1 DEF Intact

\* What the backup has of an input stays until the input is taken.
LEMMA UntouchedStep ==
  ASSUME Given, Position, Located, Trees, OperatorsTreeIsLeftAlone, Untouched,
         OperatorsTreeIsLeftAlone', [Next]_vars
  PROVE  Untouched'
<1>1. UNCHANGED given
  BY GivenStays
<1>2. CASE kind = "dir"
  <2>1. tree' = snapshot'
    BY <1>1, <1>2 DEF OperatorsTreeIsLeftAlone, given
  <2>2. \A n : Intact(n)'
    BY <2>1 DEF Intact
  <2> QED BY <2>2 DEF Untouched
<1>3. CASE kind = "restic"
  <2> SUFFICES ASSUME pc' \in {"input", "prepare"}, NEW n \in Alone, Apart(n)', Awaits(n)', ~AtHand(n)'
               PROVE  Intact(n)'
    BY <1>1 DEF Untouched, Alone, Within, given
  <2>1. CASE Fetch
    <3>1. tree' = Included /\ UNCHANGED <<snapshot, backup>>
      BY <1>1, <1>3, <2>1 DEF Fetch, Fails, given, resolved
    <3> QED BY <3>1, FetchedIntact
  <2>2. CASE LookInside \/ SkipMissing
    <3>1. /\ pc = "input" /\ next <= Len(inputs) /\ next' = next + 1
          /\ UNCHANGED <<inputs, backup, tree>>
      BY <2>2 DEF LookInside, SkipMissing, At, Fails, GoOn, resolved
    <3>2. Apart(n) /\ Awaits(n)
      BY <1>1, <3>1, ApartStays, AwaitsNext
    <3>3. Intact(n)
      BY <3>1, <3>2 DEF Untouched, AtHand
    <3> QED BY <1>1, <3>1, <3>3, IntactStays DEF given
  <2>3. CASE Take
    <3>1. pc = "input" /\ next <= Len(inputs) /\ ~Within(Name) /\ UNCHANGED <<inputs, backup, rel, next>>
      BY <2>3 DEF Take, At, resolved
    <3>2. Name \in Alone
      BY <3>1, NameHas DEF Alone
    <3>3. Apart(n) /\ Awaits(n)
      BY <1>1, <3>1, ApartStays, AwaitsStays
    <3>4. Intact(n)
      BY <3>1, <3>3 DEF Untouched, AtHand
    <3>5. pc' = "prepare" /\ Name' = Name
      BY <2>3, <3>1 DEF Take, Move, Copy, Put, Fails, Name
    <3>6. n # Name
      BY <3>5 DEF AtHand
    <3>7. CASE Move
      <4>1. tree' = Without(tree, backup[Name]) /\ UNCHANGED snapshot
        BY <1>1, <3>7 DEF Move, given
      <4> QED BY <1>3, <3>1, <3>2, <3>3, <3>4, <3>6, <4>1, TakenApart
    <3>8. CASE UNCHANGED tree
      BY <1>1, <3>1, <3>4, <3>8, IntactStays DEF given
    <3> QED BY <2>3, <3>7, <3>8 DEF Take, Copy
  <2>4. CASE Prepare
    <3>1. /\ pc = "prepare" /\ next <= Len(inputs) /\ next' = next + 1
          /\ UNCHANGED <<inputs, backup, tree>>
      BY <2>4 DEF Prepare, At, Fails, GoOn, resolved
    <3>2. Apart(n) /\ Awaits(n) /\ n # Name
      BY <1>1, <3>1, ApartStays, AwaitsNext
    <3>3. Intact(n)
      BY <3>1, <3>2 DEF Untouched, AtHand
    <3> QED BY <1>1, <3>1, <3>3, IntactStays DEF given
  <2>5. CASE Resolve \/ Discard \/ Over
    BY <2>5 DEF Resolve, Discard, Over, Fails, vars
  <2>6. CASE UNCHANGED vars
    <3>1. UNCHANGED <<pc, inputs, next, tree, backup, snapshot>>
      BY <2>6 DEF vars, given, resolved
    <3>2. Apart(n) /\ Awaits(n) /\ ~AtHand(n) /\ pc \in {"input", "prepare"}
      BY <1>1, <3>1, ApartStays, AwaitsStays DEF AtHand, Name
    <3>3. Intact(n)
      BY <3>2 DEF Untouched
    <3> QED BY <3>1, <3>3, IntactStays
  <2> QED BY <2>1, <2>2, <2>3, <2>4, <2>5, <2>6 DEF Next
<1> QED BY <1>2, <1>3 DEF Given

-----------------------------------------------------------------------------
(* What is in place.                                                       *)

\* What stays true as long as place and paths do not change.
LEMMA RestoredStays ==
  ASSUME UNCHANGED <<given, backup>>, NEW n, place'[n] = place[n], unseen \subseteq unseen'
  PROVE  Restored(n) => Restored(n)'
<1>1. Apart(n)' <=> Apart(n)
  BY ApartStays
<1> QED BY <1>1 DEF Restored, given

\* A subtree of an intact input is what the backup had.
LEMMA IntactSubtree ==
  ASSUME Given, Trees, NEW n, backup[n] \in Seq(Segments), Intact(n)
  PROVE  /\ DOMAIN Subtree(tree, backup[n]) = DOMAIN Subtree(snapshot, backup[n])
         /\ \A x \in DOMAIN Subtree(snapshot, backup[n]) :
              Subtree(tree, backup[n])[x] = Subtree(snapshot, backup[n])[x]
<1> DEFINE b == backup[n]
<1>1. Pathed(tree) /\ Pathed(snapshot)
  BY SnapshotIsSound DEF Trees, Sound
<1>2. /\ DOMAIN Subtree(tree, b) = {x \in Seq(Segments) : b \o x \in DOMAIN tree}
      /\ \A x \in DOMAIN Subtree(tree, b) : Subtree(tree, b)[x] = tree[b \o x]
  BY <1>1, SubtreeHas
<1>3. /\ DOMAIN Subtree(snapshot, b) = {x \in Seq(Segments) : b \o x \in DOMAIN snapshot}
      /\ \A x \in DOMAIN Subtree(snapshot, b) : Subtree(snapshot, b)[x] = snapshot[b \o x]
  BY <1>1, SubtreeHas
<1>4. ASSUME NEW x \in Seq(Segments), b \o x \in DOMAIN tree \cup DOMAIN snapshot
      PROVE  b \o x \in DOMAIN tree /\ b \o x \in DOMAIN snapshot /\ tree[b \o x] = snapshot[b \o x]
  BY <1>4, FollowsIsInside DEF Intact
<1> HIDE DEF b
<1>5. DOMAIN Subtree(tree, b) = DOMAIN Subtree(snapshot, b)
  BY <1>2, <1>3, <1>4
<1>6. ASSUME NEW x \in DOMAIN Subtree(snapshot, b)
      PROVE  Subtree(tree, b)[x] = Subtree(snapshot, b)[x]
  BY <1>2, <1>3, <1>4, <1>5
<1> QED BY <1>5, <1>6 DEF b

\* An input whose path is not in the tree is not in the backup either.
LEMMA MissingIsAbsent ==
  ASSUME Given, Trees, NEW n, backup[n] \in Seq(Segments), Intact(n), backup[n] \notin DOMAIN tree
  PROVE  backup[n] \notin DOMAIN snapshot /\ DOMAIN Subtree(snapshot, backup[n]) = {}
<1>1. Inside(backup[n], backup[n])
  <2>1. backup[n] \o <<>> = backup[n] /\ <<>> \in Seq(Segments)
    BY EmptySeq, ConcatEmptySeq
  <2> QED BY <2>1, FollowsIsInside
<1>2. backup[n] \notin DOMAIN snapshot
  BY <1>1 DEF Intact
<1>3. Pathed(snapshot) /\ Closed(snapshot)
  BY SnapshotIsSound, TreeIsClosed DEF Sound, IsTree
<1>4. DOMAIN Subtree(snapshot, backup[n]) = {x \in Seq(Segments) : backup[n] \o x \in DOMAIN snapshot}
  BY <1>3, SubtreeHas
<1>5. \A x \in Seq(Segments) : backup[n] \o x \notin DOMAIN snapshot
  BY <1>2, <1>3, ClosedUpwards
<1> QED BY <1>2, <1>4, <1>5

\* A tree in which a path is has a subtree there.
LEMMA SubtreeIsThere ==
  ASSUME NEW t, Pathed(t), NEW p \in Seq(Segments), p \in DOMAIN t
  PROVE  <<>> \in DOMAIN Subtree(t, p)
<1> DEFINE none == <<>>
<1>1. p \o none = p /\ none \in Seq(Segments)
  BY EmptySeq, ConcatEmptySeq
<1> HIDE DEF none
<1>2. DOMAIN Subtree(t, p) = {x \in Seq(Segments) : p \o x \in DOMAIN t}
  BY SubtreeHas
<1>3. none \in DOMAIN Subtree(t, p)
  BY <1>1, <1>2
<1> QED BY <1>3 DEF none

\* Neither copying nor sanitising changes what is not a link.
LEMMA LikeCopies ==
  ASSUME NEW got, NEW had, Like(got, had)
  PROVE  Like(CopyTree(got), had) /\ Like(Sanitised(got), had)
<1>1. \A r \in DOMAIN had : had[r] \notin Links => got[r] = had[r] /\ got[r] \notin Links
  BY DEF Like
<1> QED BY <1>1 DEF Like, CopyTree, Sanitised, Links

\* A tree with a path in it.
LEMMA SomeTree == \A t, x : x \in DOMAIN t => t # NoTree
  BY DEF NoTree

\* Placed, for one input that stands on its own and for one that does not.
PlacedAlone(n) ==
  /\ Awaits(n) /\ ~AtHand(n) => place[n] = NoTree
  /\ ~Awaits(n) => Restored(n) /\ (recipe.required[n] => place[n] # NoTree)
  /\ AtHand(n) => Restored(n) /\ place[n] # NoTree
PlacedWithin(n) ==
  ~Awaits(n) /\ recipe.required[n] => rel[n] \in DOMAIN place[recipe.within[n]]

\* Placed is one or the other for each input.
LEMMA PlacedParts ==
  Placed <=> (pc # "failed" => /\ \A n \in Alone : PlacedAlone(n)
                               /\ \A n \in Names \ Alone : PlacedWithin(n))
  BY DEF Placed, PlacedAlone, PlacedWithin

\* An input that the step does not concern.
LEMMA PlacedAloneStays ==
  ASSUME UNCHANGED <<given, backup>>, NEW n, place'[n] = place[n], unseen \subseteq unseen',
         Awaits(n)' <=> Awaits(n), ~AtHand(n), ~AtHand(n)', PlacedAlone(n)
  PROVE  PlacedAlone(n)'
<1>1. Restored(n) => Restored(n)'
  BY RestoredStays
<1> QED BY <1>1 DEF PlacedAlone, given

\* A nested input: that of its parent has not been touched since.
LEMMA PlacedWithinStays ==
  ASSUME UNCHANGED <<given, rel>>, NEW n, place'[recipe.within[n]] = place[recipe.within[n]],
         Awaits(n)' <=> Awaits(n), PlacedWithin(n)
  PROVE  PlacedWithin(n)'
  BY DEF PlacedWithin, given

\* While an input that stands on its own is worked on, no nested one has been.
LEMMA NestedComeLater ==
  ASSUME Position, Located, pc \in {"input", "prepare"}, next <= Len(inputs), ~Within(Name),
         NEW n \in Names \ Alone
  PROVE  Awaits(n)
<1>1. InOrder(inputs)
  BY DEF Located, Position
<1>2. Len(inputs) \in Nat
  BY <1>1, OrderHas DEF InOrder
<1>3. next \in 1..(Len(inputs) + 1)
  BY DEF Position
<1>4. ASSUME NEW k \in 1..(next - 1), inputs[k] = n PROVE FALSE
  <2>1. k \in 1..Len(inputs) /\ next \in 1..Len(inputs) /\ k < next
    BY <1>2, <1>3
  <2>2. Within(inputs[k])
    BY <1>4 DEF Alone
  <2>3. next < k
    BY <1>1, <2>1, <2>2 DEF InOrder, Name
  <2> QED BY <1>2, <1>3, <2>1, <2>3
<1> QED BY <1>4 DEF Awaits

\* LookInside: what a nested input requires is inside its parent.
LEMMA PlacedLookInside ==
  ASSUME Given, Position, Located, Placed, LookInside, unseen \subseteq unseen'
  PROVE  Placed'
<1>1. UNCHANGED given /\ UNCHANGED <<inputs, backup, rel, tree, place>>
  BY DEF LookInside, given, resolved
<1>2. pc = "input" /\ next <= Len(inputs) /\ Within(Name)
  BY DEF LookInside, At
<1> SUFFICES ASSUME pc' # "failed" PROVE Placed'
  BY DEF Placed
<1>3. /\ pc' = "input" /\ next' = next + 1
      /\ recipe.required[Name] => rel[Name] \in DOMAIN place[Parent]
  BY DEF LookInside, StatSucceeds, Fails, GoOn
<1>4. \A n : Awaits(n)' <=> Awaits(n) /\ n # Name
  BY <1>1, <1>2, <1>3, AwaitsNext
<1>5. Alone' = Alone /\ \A n \in Alone : n # Name
  BY <1>1, <1>2 DEF given, Alone, Within
<1>6. ASSUME NEW n \in Alone PROVE PlacedAlone(n)'
  <2>1. PlacedAlone(n)
    BY <1>2, PlacedParts
  <2> QED BY <1>1, <1>2, <1>3, <1>4, <1>5, <2>1, PlacedAloneStays DEF AtHand
<1>7. ASSUME NEW n \in Names \ Alone PROVE PlacedWithin(n)'
  <2>1. PlacedWithin(n)
    BY <1>2, PlacedParts
  <2>2. CASE n = Name
    BY <1>1, <1>3, <2>2 DEF PlacedWithin, Parent, given
  <2>3. CASE n # Name
    BY <1>1, <1>4, <2>1, <2>3, PlacedWithinStays
  <2> QED BY <2>2, <2>3
<1> QED BY <1>5, <1>6, <1>7 DEF Placed, PlacedAlone, PlacedWithin

\* SkipMissing: what is skipped is not required, and not in the backup unless
\* os.Stat could not look.
LEMMA PlacedSkipMissing ==
  ASSUME Given, Position, Located, Trees, Untouched, Placed, SkipMissing, unseen \subseteq unseen'
  PROVE  Placed'
<1>1. UNCHANGED given /\ UNCHANGED <<inputs, backup, rel, tree, place>>
  BY DEF SkipMissing, given, resolved
<1>2. /\ pc = "input" /\ next <= Len(inputs) /\ ~Within(Name)
      /\ Name \notin unseen' => backup[Name] \notin DOMAIN tree
  BY DEF SkipMissing, StatFails, At
<1> SUFFICES ASSUME pc' # "failed" PROVE Placed'
  BY DEF Placed
<1>3. pc' = "input" /\ next' = next + 1 /\ ~recipe.required[Name]
  BY DEF SkipMissing, Fails, GoOn
<1>4. \A n : Awaits(n)' <=> Awaits(n) /\ n # Name
  BY <1>1, <1>2, <1>3, AwaitsNext
<1>5. Alone' = Alone
  BY <1>1 DEF given, Alone, Within
<1>6. Name \in Alone /\ Awaits(Name) /\ Known(Name)
  BY <1>2, NameHas DEF Alone
<1>7. Apart(Name) /\ Name \notin unseen' => Like(place[Name], Subtree(snapshot, backup[Name]))
  <2> SUFFICES ASSUME Apart(Name), Name \notin unseen'
               PROVE  Like(place[Name], Subtree(snapshot, backup[Name]))
    OBVIOUS
  <2>1. Intact(Name)
    BY <1>2, <1>6 DEF Untouched, AtHand
  <2>2. DOMAIN Subtree(snapshot, backup[Name]) = {}
    BY <1>2, <1>6, <2>1, MissingIsAbsent DEF Known
  <2>3. place[Name] = NoTree
    BY <1>2, <1>6 DEF Placed, AtHand
  <2>4. DOMAIN NoTree = {}
    BY DEF NoTree
  <2> QED BY <2>2, <2>3, <2>4 DEF Like
<1>8. ASSUME NEW n \in Alone PROVE PlacedAlone(n)'
  <2>1. PlacedAlone(n)
    BY <1>2, PlacedParts
  <2>2. CASE n # Name
    BY <1>1, <1>2, <1>3, <1>4, <2>1, <2>2, PlacedAloneStays DEF AtHand
  <2>3. CASE n = Name
    <3>1. Restored(n)'
      <4>1. Apart(n)' <=> Apart(n)
        BY <1>1, ApartStays
      <4> QED BY <1>1, <1>7, <2>3, <4>1 DEF Restored, given
    <3> QED BY <1>1, <1>3, <1>4, <2>3, <3>1 DEF PlacedAlone, given, AtHand
  <2> QED BY <2>2, <2>3
<1>9. ASSUME NEW n \in Names \ Alone PROVE PlacedWithin(n)'
  <2>1. PlacedWithin(n)
    BY <1>2, PlacedParts
  <2>2. Awaits(n)' <=> Awaits(n)
    BY <1>4, <1>6
  <2> QED BY <1>1, <2>1, <2>2, PlacedWithinStays
<1> QED BY <1>5, <1>8, <1>9 DEF Placed, PlacedAlone, PlacedWithin

\* Take: what is moved or copied is what the backup had.
LEMMA PlacedTake ==
  ASSUME Given, Position, Located, Trees, Untouched, Placed, Take
  PROVE  Placed'
<1>1. UNCHANGED given /\ UNCHANGED <<inputs, backup, rel, next, unseen>>
  BY DEF Take, StatSucceeds, given, resolved
<1>2. /\ pc = "input" /\ next <= Len(inputs) /\ ~Within(Name)
      /\ backup[Name] \in DOMAIN tree
  BY DEF Take, StatSucceeds, At
<1> SUFFICES ASSUME pc' # "failed" PROVE Placed'
  BY DEF Placed
<1>3. Alone' = Alone /\ Name' = Name /\ \A n : Awaits(n)' <=> Awaits(n)
  BY <1>1 DEF given, Alone, Within, Name, Awaits
<1>4. Name \in Alone /\ Name \in Names /\ Awaits(Name) /\ backup[Name] \in Seq(Segments)
  BY <1>2, NameHas DEF Alone, Known
<1> DEFINE sub == Subtree(tree, backup[Name])
           had == Subtree(snapshot, backup[Name])
<1>5. PICK t : /\ t = sub \/ t = CopyTree(sub)
               /\ place' = [place EXCEPT ![Name] = t] /\ pc' = "prepare"
  BY DEF Take, Move, Copy, Put, Fails
<1>6. place'[Name] = t /\ \A n \in Names : n # Name => place'[n] = place[n]
  BY <1>4, <1>5 DEF Trees
<1>7. t # NoTree
  <2>1. <<>> \in DOMAIN sub
    BY <1>2, <1>4, SubtreeIsThere DEF Trees, Sound
  <2>2. <<>> \in DOMAIN t
    BY <1>5, <2>1 DEF CopyTree
  <2> QED BY <2>2, SomeTree
<1>8. Apart(Name) => Like(t, had)
  <2> SUFFICES ASSUME Apart(Name) PROVE Like(t, had)
    OBVIOUS
  <2>1. Intact(Name)
    BY <1>2, <1>4 DEF Untouched, AtHand
  <2>2. Like(sub, had)
    BY <1>4, <2>1, IntactSubtree DEF Like
  <2> HIDE DEF sub, had
  <2>3. Like(CopyTree(sub), had)
    BY <2>2, LikeCopies
  <2> QED BY <1>5, <2>2, <2>3
<1> HIDE DEF sub, had
<1>9. ASSUME NEW m, m = Name PROVE Restored(m)'
  <2>1. Apart(m)' <=> Apart(m)
    BY <1>1, ApartStays
  <2>2. Apart(m) => Like(place'[m], Subtree(snapshot, backup[m]))
    BY <1>6, <1>8, <1>9 DEF had
  <2> QED BY <1>1, <2>1, <2>2 DEF Restored, given
<1>10. ASSUME NEW n \in Alone PROVE PlacedAlone(n)'
  <2>1. PlacedAlone(n)
    BY <1>2, PlacedParts
  <2>2. CASE n # Name
    BY <1>1, <1>2, <1>3, <1>6, <2>1, <2>2, PlacedAloneStays DEF AtHand, Alone
  <2>3. CASE n = Name
    BY <1>3, <1>4, <1>5, <1>6, <1>7, <1>9, <2>3 DEF PlacedAlone, AtHand
  <2> QED BY <2>2, <2>3
<1>11. ASSUME NEW n \in Names \ Alone PROVE PlacedWithin(n)'
  <2>1. Awaits(n)'
    BY <1>2, <1>3, NestedComeLater
  <2> QED BY <2>1 DEF PlacedWithin
<1> QED BY <1>3, <1>10, <1>11 DEF Placed, PlacedAlone, PlacedWithin

\* The only tree without paths.
LEMMA EmptyTree ==
  ASSUME NEW t, t \in [DOMAIN t -> Nodes], DOMAIN t = {}
  PROVE  t = NoTree
<1>1. t \in [1..0 -> Nodes]
  OBVIOUS
<1>2. t \in Seq(Nodes) /\ DOMAIN t = 1..Len(t) /\ Len(t) \in Nat
  BY <1>1, SeqDef, LenProperties
<1>3. Len(t) = 0
  BY <1>2
<1> QED BY <1>2, <1>3, EmptySeq DEF NoTree

\* Prepare: sanitising changes links only.
LEMMA PlacedPrepare ==
  ASSUME Given, Position, Located, Trees, Placed, Prepare
  PROVE  Placed'
<1>1. UNCHANGED given /\ UNCHANGED <<inputs, backup, rel, tree, unseen>>
  BY DEF Prepare, given, resolved
<1>2. pc = "prepare" /\ next <= Len(inputs) /\ ~Within(Name)
  BY DEF Prepare, At, Position
<1> SUFFICES ASSUME pc' # "failed" PROVE Placed'
  BY DEF Placed
<1>3. pc' = "input" /\ next' = next + 1 /\ place' = [place EXCEPT ![Name] = Sanitised(@)]
  BY DEF Prepare, Fails, GoOn
<1>4. \A n : Awaits(n)' <=> Awaits(n) /\ n # Name
  BY <1>1, <1>2, <1>3, AwaitsNext
<1>5. Alone' = Alone
  BY <1>1 DEF given, Alone, Within
<1>6. Name \in Alone /\ Name \in Names /\ Awaits(Name)
  BY <1>2, NameHas DEF Alone
<1>7. /\ place'[Name] = Sanitised(place[Name])
      /\ \A n \in Names : n # Name => place'[n] = place[n]
  BY <1>3, <1>6 DEF Trees
<1>8. Restored(Name) /\ place[Name] # NoTree
  BY <1>2, <1>6 DEF Placed, AtHand
<1>9. ASSUME NEW m, m = Name PROVE Restored(m)'
  <2>1. Apart(m)' <=> Apart(m)
    BY <1>1, ApartStays
  <2>2. Apart(m) /\ m \notin unseen => Like(Sanitised(place[m]), Subtree(snapshot, backup[m]))
    BY <1>8, <1>9, LikeCopies DEF Restored
  <2>3. place'[m] = Sanitised(place[m])
    BY <1>7, <1>9
  <2> QED BY <1>1, <2>1, <2>2, <2>3 DEF Restored, given
<1>10. place'[Name] # NoTree
  <2>1. DOMAIN place[Name] # {}
    BY <1>6, <1>8, EmptyTree DEF Trees, Sound, IsTree
  <2>2. DOMAIN place'[Name] = DOMAIN place[Name]
    BY <1>7 DEF Sanitised
  <2> QED BY <2>1, <2>2 DEF NoTree
<1>11. ASSUME NEW n \in Alone PROVE PlacedAlone(n)'
  <2>1. PlacedAlone(n)
    BY <1>2, PlacedParts
  <2>2. CASE n # Name
    BY <1>1, <1>3, <1>4, <1>7, <2>1, <2>2, PlacedAloneStays DEF AtHand, Alone
  <2>3. CASE n = Name
    <3>1. Restored(n)' /\ place'[n] # NoTree
      BY <1>9, <1>10, <2>3
    <3>2. ~Awaits(n)' /\ ~AtHand(n)'
      BY <1>3, <1>4, <2>3 DEF AtHand
    <3> QED BY <3>1, <3>2 DEF PlacedAlone
  <2> QED BY <2>2, <2>3
<1>12. ASSUME NEW n \in Names \ Alone PROVE PlacedWithin(n)'
  <2>1. Awaits(n) /\ n # Name
    BY <1>2, <1>6, NestedComeLater
  <2> QED BY <1>4, <2>1 DEF PlacedWithin
<1> QED BY <1>5, <1>11, <1>12 DEF Placed, PlacedAlone, PlacedWithin

\* The other steps put nothing anywhere.
LEMMA PlacedStep ==
  ASSUME Given, Position, Located, Trees, Untouched, Placed, unseen \subseteq unseen',
         [Next]_vars
  PROVE  Placed'
<1>1. UNCHANGED given
  BY GivenStays
<1>2. CASE Resolve
  <2>1. pc = "resolve" /\ UNCHANGED <<next, place>> /\ pc' \in {"fetch", "failed"}
    BY <1>2 DEF Resolve, Fails
  <2>2. next = 1 /\ \A n : Awaits(n) /\ Awaits(n)' /\ ~AtHand(n) /\ ~AtHand(n)'
    BY <2>1 DEF Position, Awaits, AtHand
  <2> QED BY <1>1, <2>1, <2>2 DEF Placed, given, Alone, Within
<1>3. CASE Fetch \/ Discard \/ Over \/ UNCHANGED vars
  <2>1. UNCHANGED <<given, inputs, backup, rel, next, place, unseen>>
    BY <1>1, <1>3 DEF Fetch, Discard, Over, vars, resolved
  <2>2. pc = "failed" => pc' = "failed"
    BY <1>3 DEF Fetch, Discard, Over, vars
  <2>3. pc' # "failed" => \A n : AtHand(n)' <=> AtHand(n)
    BY <1>3, <2>1 DEF Fetch, Discard, Over, vars, Fails, AtHand, Name
  <2>4. Alone' = Alone /\ \A n : (Awaits(n)' <=> Awaits(n)) /\ (Restored(n) => Restored(n)')
    <3>1. ASSUME NEW n PROVE Restored(n) => Restored(n)'
      BY <2>1, RestoredStays
    <3> QED BY <2>1, <3>1 DEF Awaits, given, Alone, Within
  <2> SUFFICES ASSUME pc' # "failed" PROVE Placed'
    BY DEF Placed
  <2> QED BY <2>1, <2>2, <2>3, <2>4 DEF Placed, given
<1> QED BY <1>2, <1>3, PlacedLookInside, PlacedSkipMissing, PlacedTake, PlacedPrepare DEF Next

\* A refusal is one of SkipMissing or of LookInside, and both have looked.
LEMMA RefusalStep ==
  ASSUME Given, Position, Located, Trees, Untouched, Placed, RefusalIsTrue, [Next]_vars
  PROVE  RefusalIsTrue'
<1>1. UNCHANGED given
  BY GivenStays
<1>2. CASE LookInside
  <2>1. UNCHANGED <<inputs, backup, rel, place>> /\ pc = "input" /\ next <= Len(inputs) /\ Within(Name)
    BY <1>2 DEF LookInside, At, resolved
  <2>2. CASE GoOn
    BY <2>1, <2>2 DEF GoOn, Position, RefusalIsTrue
  <2>3. CASE Fails("not inside") /\ UNCHANGED next /\ StatFails(rel[Name] \in DOMAIN place[Parent])
    <3> DEFINE m == Parent
    <3>1. Name \in Names /\ Known(Name) /\ m \in Alone /\ ~Awaits(m)
      BY <2>1, NameHas DEF Known, Parent
    <3>2. backup[Name] = backup[m] \o rel[Name] /\ rel[Name] \in Seq(Segments) /\ backup[m] \in Seq(Segments)
      <4>1. Known(m)
        BY <2>1, <3>1 DEF Located, Position, Alone
      <4> QED BY <2>1, <3>1, <4>1 DEF Known, Parent
    <3>3. Restored(m)
      BY <2>1, <3>1 DEF Placed
    <3>4. Owner(Name) = m /\ Owner(m) = m
      BY <2>1, <3>1 DEF Owner, Parent, Alone
    <3> HIDE DEF m
    <3>5. ASSUME Apart(Name), Seen(Name)' PROVE backup[Name] \notin DOMAIN snapshot
      <4> USE DEF Seen
      <4>0. Name' = Name /\ Owner(Name)' = m /\ UNCHANGED unseen /\ m \notin unseen
            /\ rel[Name] \notin DOMAIN place[m]
        <5>1. Name' = Name /\ Owner(Name)' = m
          BY <1>1, <2>1, <2>3, <3>4 DEF Name, given, Owner, Within, Parent, m
        <5>2. m \notin unseen' /\ Name \notin unseen'
          BY <3>5, <5>1
        <5> QED BY <2>3, <5>1, <5>2 DEF StatFails, m
      <4>1. Apart(m)
        BY <3>4, <3>5 DEF Apart
      <4>2. rel[Name] \notin DOMAIN Subtree(snapshot, backup[m])
        BY <3>3, <4>0, <4>1 DEF Restored, Like
      <4>3. DOMAIN Subtree(snapshot, backup[m])
              = {x \in Seq(Segments) : backup[m] \o x \in DOMAIN snapshot}
        BY <3>2, SnapshotIsSound, SubtreeHas DEF Sound
      <4> QED BY <3>2, <4>2, <4>3
    <3>6. Name' = Name /\ (Apart(Name)' <=> Apart(Name))
      BY <1>1, <2>1, <2>3, ApartStays DEF Name
    <3> QED BY <1>1, <2>1, <3>5, <3>6, ApartStays DEF RefusalIsTrue, given
  <2> QED BY <1>2, <2>2, <2>3 DEF LookInside
<1>3. CASE SkipMissing
  <2>1. /\ UNCHANGED <<inputs, backup>> /\ pc = "input" /\ next <= Len(inputs)
        /\ ~Within(Name) /\ StatFails(backup[Name] \in DOMAIN tree)
    BY <1>3 DEF SkipMissing, At, resolved
  <2>2. CASE GoOn
    BY <2>1, <2>2 DEF GoOn, Position, RefusalIsTrue
  <2>3. CASE Fails("missing") /\ UNCHANGED next
    <3>1. Name \in Alone /\ Awaits(Name) /\ Known(Name)
      BY <2>1, NameHas DEF Alone
    <3>2. ASSUME Apart(Name), Name \notin unseen' PROVE backup[Name] \notin DOMAIN snapshot
      <4>0. backup[Name] \notin DOMAIN tree
        BY <2>1, <3>2 DEF StatFails
      <4>1. Intact(Name)
        BY <2>1, <3>1, <3>2 DEF Untouched, AtHand
      <4> QED BY <2>1, <3>1, <4>0, <4>1, MissingIsAbsent DEF Known
    <3>3. Name' = Name
      BY <2>1, <2>3 DEF Name
    <3>4. Apart(Name)' <=> Apart(Name)
      BY <1>1, <2>1, <3>3, ApartStays
    <3> QED BY <1>1, <2>1, <3>2, <3>3, <3>4 DEF RefusalIsTrue, Seen, given
  <2> QED BY <1>3, <2>2, <2>3 DEF SkipMissing
<1>4. CASE Resolve \/ Fetch \/ Take \/ Prepare \/ Discard
  <2>1. error = "none" /\ error' \notin {"missing", "not inside"}
    BY <1>4 DEF Resolve, Fetch, Take, Move, Copy, Put, Prepare, GoOn, Discard, Fails, At, Position
  <2> QED BY <2>1 DEF RefusalIsTrue
<1>5. CASE Over \/ UNCHANGED vars
  <2>1. UNCHANGED <<error, inputs, next, backup, unseen>> /\ Name' = Name
    BY <1>5 DEF Over, vars, resolved, Name
  <2>2. Apart(Name)' <=> Apart(Name)
    BY <1>1, <2>1, ApartStays
  <2>3. Seen(Name)' <=> Seen(Name)
    BY <1>1, <2>1 DEF Seen, Owner, Within, given
  <2> QED BY <1>1, <2>1, <2>2, <2>3 DEF RefusalIsTrue, given
<1> QED BY <1>2, <1>3, <1>4, <1>5 DEF Next

-----------------------------------------------------------------------------
(* Links.                                                                  *)

\* What an input's place holds does not leave the workspace.
Clean(t) == \A r \in DOMAIN t : t[r] # "outer"

\* `place` has a tree for each input, and while the stage is going on, or when
\* it is through, every place is clean but that of the input being prepared.
PlacesInv ==
  /\ DOMAIN place = Names
  /\ pc = "failed" \/ \A n \in Names : Clean(place[n]) \/ (pc = "prepare" /\ n = Name)

\* Sanitise leaves no link that leaves the workspace.
LEMMA SanitisedIsClean == \A t : Clean(Sanitised(t))
BY DEF Clean, Sanitised

\* The places stay clean: what a move or a copy put in one is sanitised before
\* the next input is looked at.
LEMMA PlacesStep == PlacesInv /\ [Next]_vars => PlacesInv'
<1> SUFFICES ASSUME PlacesInv, [Next]_vars PROVE PlacesInv'
  OBVIOUS
<1>1. CASE Resolve \/ Fetch \/ LookInside \/ SkipMissing \/ Discard
  <2>1. place' = place /\ pc # "prepare" /\ pc # "failed" /\ pc' # "prepare"
    BY <1>1 DEF Resolve, Fetch, LookInside, SkipMissing, Discard, At, GoOn, Fails
  <2> QED
    BY <2>1 DEF PlacesInv
<1>2. CASE Take
  <2>1. pc = "input" /\ UNCHANGED <<inputs, next>>
    BY <1>2 DEF Take, At, resolved
  <2>2. CASE Fails("files") /\ UNCHANGED place
    BY <2>2 DEF Fails, PlacesInv
  <2>3. CASE \E t : Put(t)
    <3>1. PICK t : place' = [place EXCEPT ![Name] = t] /\ pc' = "prepare"
      BY <2>3 DEF Put
    <3>2. Name' = Name
      BY <2>1 DEF Name
    <3> QED
      BY <2>1, <3>1, <3>2 DEF PlacesInv
  <2> QED
    BY <1>2, <2>2, <2>3 DEF Take, Move, Copy
<1>3. CASE Prepare
  <2>1. pc = "prepare"
    BY <1>3 DEF Prepare, At
  <2>2. CASE Fails("files") /\ UNCHANGED place
    BY <2>2 DEF Fails, PlacesInv
  <2>3. CASE GoOn /\ place' = [place EXCEPT ![Name] = Sanitised(@)]
    <3>1. pc' = "input"
      BY <2>3 DEF GoOn
    <3>2. \A n \in Names : Clean(place'[n])
      BY <2>1, <2>3, SanitisedIsClean DEF PlacesInv
    <3> QED
      BY <2>3, <3>1, <3>2 DEF PlacesInv
  <2> QED
    BY <1>3, <2>2, <2>3 DEF Prepare
<1>4. CASE Over \/ UNCHANGED vars
  BY <1>4 DEF Over, vars, PlacesInv, Name, resolved
<1> QED
  BY <1>1, <1>2, <1>3, <1>4 DEF Next

\* No link in a finished workspace leaves it, whether its input was moved or
\* copied.
THEOREM LinksStayInside == Spec => []NoLinkLeaves
<1>1. Init => PlacesInv
  BY DEF Init, PlacesInv, Clean, NoTree
<1>2. PlacesInv => NoLinkLeaves
  BY DEF PlacesInv, NoLinkLeaves, Clean
<1> QED
  BY <1>1, <1>2, PlacesStep, PTL DEF Spec

-----------------------------------------------------------------------------
(* The invariant holds, and so does what follows from it.                  *)

\* The stage starts with nothing done.
LEMMA InvInit == Init => IInv
<1> SUFFICES ASSUME Init PROVE IInv
  BY DEF IInv
<1> USE DEF Init
<1>1. Len(<<>>) = 0 /\ inputs = <<>>
  BY EmptySeq
<1>2. Given
  BY DEF Given
<1>3. Position
  BY <1>1 DEF Position
<1>4. Located
  BY DEF Located
<1>5. Trees
  BY <1>2, SnapshotIsSound, NoTreeIsSound DEF Trees
<1>6. OperatorsTreeIsLeftAlone /\ Untouched /\ RefusalIsTrue /\ Looked
  BY DEF Looked, OperatorsTreeIsLeftAlone, Untouched, RefusalIsTrue
<1>7. Placed
  BY DEF Placed, Awaits, AtHand, Alone
<1> QED BY <1>2, <1>3, <1>4, <1>5, <1>6, <1>7 DEF IInv

\* Every part keeps its truth, on the strength of those before it.
LEMMA InvHolds == Spec => []IInv
<1>1. IInv /\ [Next]_vars => IInv'
  <2> SUFFICES ASSUME IInv, [Next]_vars PROVE IInv'
    OBVIOUS
  <2> USE DEF IInv
  <2>1. Given' /\ Position' /\ Located' /\ Trees'
    BY GivenStep, PositionStep, LocatedStep, TreesStep
  <2>2. OperatorsTreeIsLeftAlone' /\ Looked' /\ unseen \subseteq unseen'
    BY OperatorsTreeStep, LookedStep
  <2>3. Untouched' /\ Placed' /\ RefusalIsTrue'
    BY <2>2, UntouchedStep, PlacedStep, RefusalStep
  <2> QED BY <2>1, <2>2, <2>3
<1> QED BY <1>1, InvInit, PTL DEF Spec

\* TypeOK, from the parts that say what the variables hold.
LEMMA InvTypeOK == IInv => TypeOK
<1> SUFFICES ASSUME IInv PROVE TypeOK
  OBVIOUS
<1>1. inputs \in Seq(Names) /\ Len(inputs) \in 0..Len(InputOrder) /\ Len(InputOrder) \in Nat
  <2>1. CASE inputs = <<>>
    BY <2>1, EmptySeq, OrderHas
  <2>2. CASE InOrder(inputs)
    BY <2>2, OrderHas DEF InOrder
  <2> QED BY <2>1, <2>2 DEF IInv, Located
<1>2. next \in 1..(Len(InputOrder) + 1)
  <2>1. next \in 1..(Len(inputs) + 1)
    BY DEF IInv, Position
  <2> QED BY <1>1, <2>1
<1>3. DOMAIN backup = Names /\ DOMAIN rel = Names
  BY DEF IInv, Located
<1>4. IsTree(tree) /\ DOMAIN place = Names /\ \A n \in Names : IsTree(place[n])
  BY DEF IInv, Trees, Sound
<1>5. /\ pc \in {"resolve", "fetch", "input", "prepare", "done", "failed"}
      /\ error \in {"none", "recipe", "source", "not inside", "missing", "files"}
  BY DEF IInv, Position
<1> QED BY <1>1, <1>2, <1>3, <1>4, <1>5 DEF IInv, Given, Looked, TypeOK

\* When the stage is through, every input has been worked on.
LEMMA AllDone ==
  ASSUME Position, Located, pc = "done", NEW n \in Names
  PROVE  ~Awaits(n) /\ Known(n)
<1>1. InOrder(inputs) /\ Known(n) /\ next = Len(inputs) + 1
  BY DEF Located, Position
<1>2. Len(inputs) \in Nat
  BY <1>1, OrderHas DEF InOrder
<1>3. PICK k \in 1..Len(inputs) : inputs[k] = n
  BY <1>1 DEF InOrder
<1> QED BY <1>1, <1>2, <1>3 DEF Awaits

\* A part of what is like the backup is like that part of the backup.
LEMMA LikeBelow ==
  ASSUME NEW t, NEW u, Pathed(t), Pathed(u), NEW b \in Seq(Segments), NEW r \in Seq(Segments),
         Like(t, Subtree(u, b))
  PROVE  Like(Subtree(t, r), Subtree(u, b \o r))
<1>1. b \o r \in Seq(Segments)
  BY ConcatProperties
<1>2. /\ DOMAIN Subtree(t, r) = {x \in Seq(Segments) : r \o x \in DOMAIN t}
      /\ \A x \in DOMAIN Subtree(t, r) : Subtree(t, r)[x] = t[r \o x]
  BY SubtreeHas
<1>3. /\ DOMAIN Subtree(u, b) = {x \in Seq(Segments) : b \o x \in DOMAIN u}
      /\ \A x \in DOMAIN Subtree(u, b) : Subtree(u, b)[x] = u[b \o x]
  BY SubtreeHas
<1>4. /\ DOMAIN Subtree(u, b \o r) = {x \in Seq(Segments) : (b \o r) \o x \in DOMAIN u}
      /\ \A x \in DOMAIN Subtree(u, b \o r) : Subtree(u, b \o r)[x] = u[(b \o r) \o x]
  BY <1>1, SubtreeHas
<1>5. \A x \in Seq(Segments) : (b \o r) \o x = b \o (r \o x) /\ r \o x \in Seq(Segments)
  BY ConcatAssociative, ConcatProperties
<1> DEFINE part == Subtree(t, r)
           had == Subtree(u, b)
           below == Subtree(u, b \o r)
<1> HIDE DEF part, had, below
<1>6. DOMAIN t = DOMAIN had /\ \A x \in DOMAIN had : had[x] \in Links \/ t[x] = had[x]
  BY DEF Like, had
<1>7. ASSUME NEW x \in Seq(Segments)
      PROVE  /\ r \o x \in DOMAIN t <=> b \o (r \o x) \in DOMAIN u
             /\ r \o x \in DOMAIN t =>
                  u[b \o (r \o x)] \in Links \/ t[r \o x] = u[b \o (r \o x)]
  BY <1>3, <1>5, <1>6 DEF had
<1>8. DOMAIN part = DOMAIN below
  BY <1>2, <1>4, <1>5, <1>7 DEF part, below
<1>9. ASSUME NEW x \in DOMAIN below PROVE below[x] \in Links \/ part[x] = below[x]
  <2>1. x \in Seq(Segments) /\ x \in DOMAIN part
    BY <1>4, <1>8, <1>9 DEF below
  <2>2. below[x] = u[b \o (r \o x)]
    BY <1>4, <1>5, <1>9, <2>1 DEF below
  <2>3. part[x] = t[r \o x] /\ r \o x \in DOMAIN t
    BY <1>2, <2>1 DEF part
  <2> QED BY <1>7, <2>1, <2>2, <2>3
<1> QED BY <1>8, <1>9 DEF Like, part, below

\* InputsAreTheBackups, once all inputs have been worked on.
LEMMA InvInputs == IInv => InputsAreTheBackups
<1> SUFFICES ASSUME IInv, pc = "done", NEW n \in Names
             PROVE  /\ Apart(n) /\ Owner(n) \notin unseen =>
                         Like(Materialised(n), Subtree(snapshot, backup[n]))
                    /\ recipe.required[n] => Materialised(n) # NoTree
  BY DEF InputsAreTheBackups, Like
<1>1. ~Awaits(n) /\ Known(n)
  BY AllDone DEF IInv
<1>2. CASE n \in Alone
  <2>1. Materialised(n) = place[n] /\ Owner(n) = n
    BY <1>2 DEF Materialised, Owner, Alone
  <2>2. Restored(n) /\ (recipe.required[n] => place[n] # NoTree)
    BY <1>1, <1>2 DEF IInv, Placed
  <2> QED BY <2>1, <2>2 DEF Restored
<1>3. CASE n \notin Alone
  <2> DEFINE m == recipe.within[n]
  <2>1. Within(n) /\ m \in Alone /\ m \in Names /\ backup[n] = backup[m] \o rel[n] /\ rel[n] \in Seq(Segments)
    BY <1>1, <1>3 DEF Alone, Known
  <2>2. Materialised(n) = Subtree(place[m], rel[n])
    BY <2>1 DEF Materialised
  <2>3. Owner(n) = m /\ Owner(m) = m
    BY <2>1 DEF Owner, Alone
  <2> HIDE DEF m
  <2>4. ~Awaits(m) /\ Known(m)
    BY <2>1, AllDone DEF IInv
  <2>5. Restored(m)
    BY <2>1, <2>4 DEF IInv, Placed
  <2>6. Pathed(place[m]) /\ Pathed(snapshot)
    BY <2>1, SnapshotIsSound DEF IInv, Trees, Sound
  <2>7. ASSUME Apart(n), Owner(n) \notin unseen PROVE Like(Materialised(n), Subtree(snapshot, backup[n]))
    <3>1. Like(place[m], Subtree(snapshot, backup[m]))
      BY <2>3, <2>5, <2>7 DEF Restored, Apart
    <3> QED BY <2>1, <2>2, <2>4, <2>6, <3>1, LikeBelow DEF Known
  <2>8. ASSUME recipe.required[n] PROVE Materialised(n) # NoTree
    <3>1. rel[n] \in DOMAIN place[m]
      BY <1>1, <1>3, <2>8 DEF IInv, Placed, m
    <3>2. <<>> \in DOMAIN Subtree(place[m], rel[n])
      BY <2>1, <2>6, <3>1, SubtreeIsThere
    <3> QED BY <2>2, <3>2, SomeTree
  <2> QED BY <2>7, <2>8
<1> QED BY <1>2, <1>3

\* At every step the variables keep to their sets, and what is fetched, left behind
\* or put in place is a tree.
THEOREM TypeCorrect == Spec => []TypeOK
  BY InvHolds, InvTypeOK, PTL

\* What Resolve decides is what the operator asked for: an input that is named
\* is where it was named, and one inside another keeps its place in it,
\* whichever of the two was overridden.
THEOREM PathsAreAsked == Spec => []PathsAreTheOperators
<1>1. IInv => PathsAreTheOperators
  <2> SUFFICES ASSUME IInv, pc \notin {"resolve", "failed"}
               PROVE  PathsAreTheOperators
    BY DEF PathsAreTheOperators
  <2>1. \A n \in Names : Known(n)
    BY DEF IInv, Located, Position
  <2> QED BY <2>1 DEF Known, PathsAreTheOperators
<1> QED BY <1>1, InvHolds, PTL

\* What an application finds at an input's place is what the backup has at the path
\* that this run says it has, whatever the recipe, the overrides and the backup, but for
\* an input that os.Stat could not look at; and nothing that is required is absent,
\* that one included.
THEOREM InputsAreRestored == Spec => []InputsAreTheBackups
  BY InvHolds, InvInputs, PTL

\* The stage refuses an input as missing only if the backup does not have it, or
\* os.Stat could not look at it or at the input it is in.
THEOREM RefusalsAreTrue == Spec => []RefusalIsTrue
<1>1. IInv => RefusalIsTrue
  BY DEF IInv
<1> QED BY <1>1, InvHolds, PTL

\* The operator's tree is what it was, whatever happens.
THEOREM OperatorsTreeIsSafe == Spec => []OperatorsTreeIsLeftAlone
<1>1. IInv => OperatorsTreeIsLeftAlone
  BY DEF IInv
<1> QED BY <1>1, InvHolds, PTL
=============================================================================
