---------------------------- MODULE ChecksProofs ----------------------------
(***************************************************************************)
(* Theorems about Checks, for every recipe that the schema allows, every   *)
(* list of mounts, any finite set of paths and any number of rows.         *)
(*                                                                         *)
(* The invariant follows a check: the copy it takes has a name that no     *)
(* orphan knows; what is in the copy was in the database when the check    *)
(* began or has come since; what a walk saw was there while it looked; the *)
(* observation is one of the kind of the check; and the verdict is what    *)
(* Evaluate makes of it.                                                   *)
(***************************************************************************)
EXTENDS Checks, FiniteSetTheorems, SequenceTheorems, WellFoundedInduction, TLAPS

-----------------------------------------------------------------------------
(* The invariant.                                                          *)

\* What reads a database reads a copy of it.
FileRead == Check.kind \in {"sqlite", "integrity"}
Fetching == pc \in {"copy main", "copying main", "copy wal", "query"}
Judging == pc \in {"judge", "judged"}

\* A check takes one copy at most, and what it observed is judged once.
Places ==
  /\ i \in DOMAIN Checks
  /\ pc \in {"run", "walk", "copy main", "copying main", "copy wal", "query",
              "judge", "judged", "done"}
  /\ seq \in 0..i /\ (pc = "run" => seq # i)
  /\ Fetching => FileRead
  /\ pc = "walk" => Check.kind = "file"
  /\ ~Judging => obs = Nothing

\* The application's data, and what a walk may see of it.
Stored ==
  /\ main \subseteq Rows /\ wal \subseteq Rows /\ hot \subseteq Rows
  /\ tree \in Trees
  /\ walk.kinds \subseteq {"nothing", "file", "dir"}
  /\ walk.ever \subseteq Paths /\ walk.always \subseteq walk.ever

\* The copy that a check reads has no name that an orphan knows.
Copies ==
  /\ reads \in [DOMAIN reads -> [main : SUBSET Rows, wal : SUBSET Rows]]
  /\ DOMAIN reads \subseteq outlived \cup (IF Fetching THEN {seq} ELSE {})
  /\ outlived \subseteq 1..seq
  /\ orphans \subseteq [name : outlived, step : {"copy main", "copy wal"}]
  /\ Fetching => seq \in DOMAIN reads /\ seq \notin outlived /\ seq # 0

\* What is in the copy, and what is still to come into it.
CopyHolds ==
  Fetching =>
    /\ before \subseteq main \cup wal
    /\ reads[seq].main \cup reads[seq].wal \subseteq main \cup wal
    /\ pc = "copy wal" /\ ~torn => before \subseteq reads[seq].main \cup wal
    /\ pc = "query" /\ ~torn => before \subseteq reads[seq].main \cup reads[seq].wal

\* What a query has seen of a copy that is not torn: rows that were there and are
\* there still; and integrity_check, what there is at the path.
RowsSeen ==
  /\ Judging /\ Check.kind = "sqlite" /\ obs.answered /\ ~torn =>
       \E rows \in SUBSET (main \cup wal) :
         obs.value = Number(Cardinality(rows)) /\ before \subseteq rows
  /\ Judging /\ Check.kind = "integrity" /\ obs.answered =>
       /\ ~obs.error
       /\ obs.value = Ok => dbFile = "sound"
       /\ obs.value # Ok => dbFile # "sound" \/ torn

\* What a walk has made of what was there.
Sight ==
  \E is \in walk.kinds \ {"nothing"}, S \in SUBSET (walk.ever \cup Hidden) :
    /\ dropped \/ walk.always \ Hidden \subseteq S
    /\ obs = ObserveTree(is, List(S, GlobDepth(GlobOf(Check))), GlobOf(Check))

\* Where a file check looked, and what it saw.
TreeSeen ==
  Check.kind = "file" =>
    /\ pc \in {"walk", "judge", "judged"} /\ host # "none" =>
         HostPath(Check.path) # 0 /\ host = Mounts[HostPath(Check.path)].host
    /\ Judging => \/ obs = Broken
                  \/ obs = Absent /\ "nothing" \in walk.kinds
                  \/ Sight

\* A command that did not run, or that was killed.
Unanswered(o) ==
  \/ \E x \in DockersExits, t \in DockersTexts : o = NotRun(x, t)
  \/ \E t \in Texts, u \in Texts : o = Killed(t, u)

\* An observation is an answer or an error, or it is of one of these.
Answered ==
  /\ DOMAIN obs = DOMAIN Nothing
  /\ Judging =>
       \/ obs.error \/ obs.answered
       \/ Check.kind = "exec" /\ Unanswered(obs)
       \/ Check.kind = "postgres" /\ obs = Nothing

\* What Evaluate makes of the observation.
Verdict ==
  IF obs.error THEN {"error"}
  ELSE IF Check.kind = "integrity" THEN IntegrityFailures
  ELSE {key \in DOMAIN Check.expect : ~Meets(key)}
       \cup (IF ExitExpected THEN {} ELSE {"exit_code"})

Judged == failures = IF pc = "judged" THEN Verdict ELSE {}

IInv == /\ Places /\ Stored /\ Copies /\ CopyHolds
        /\ RowsSeen /\ TreeSeen /\ Answered /\ Judged

-----------------------------------------------------------------------------
(* HostPath.                                                               *)

\* A set of numbers has a least element.
LEMMA LeastOf ==
  ASSUME NEW T \in SUBSET Nat, T # {}
  PROVE  \E m \in T : \A k \in T : m <= k
<1>1. PICK m \in T : \A k \in T : ~(<<k, m>> \in OpToRel(<, Nat))
  BY NatLessThanWellFounded, WFMin
<1>2. OpToRel(<, Nat) = {ss \in Nat \X Nat : ss[1] < ss[2]}
  BY DEF OpToRel
<1>3. ASSUME NEW k \in T PROVE m <= k
  <2>1. ~(<<k, m>> \in {ss \in Nat \X Nat : ss[1] < ss[2]})
    BY <1>1, <1>2, Zenon
  <2> QED BY <2>1
<1> QED BY <1>3

\* Induction on a set of numbers.
LEMMA Upto ==
  ASSUME NEW T, NEW n \in Nat, 0 \in T, \A k \in 1..n : k - 1 \in T => k \in T
  PROVE  \A k \in 0..n : k \in T
<1> DEFINE Out == {k \in 0..n : k \notin T}
<1> SUFFICES ASSUME Out # {} PROVE FALSE
  OBVIOUS
<1>1. PICK m \in Out : \A k \in Out : m <= k
  <2>1. Out \in SUBSET Nat
    OBVIOUS
  <2> HIDE DEF Out
  <2> QED BY <2>1, LeastOf
<1>2. m \in 1..n /\ m - 1 \notin Out /\ m - 1 \in 0..n
  BY <1>1
<1> QED BY <1>1, <1>2

\* Among the first k mounts the one that f has found: the longest that covers
\* the path, the first of them.
Covers(path, k) == Inside(path, Mounts[k].at)
Longest(path, k, m) ==
  IF m = 0 THEN \A n \in 1..k : ~Covers(path, n)
  ELSE /\ m \in 1..k /\ Covers(path, m)
       /\ \A n \in 1..k : Covers(path, n) => Len(Mounts[n].at) <= Len(Mounts[m].at)

Chosen(path, best, k) ==
  IF k = 0 THEN 0
  ELSE IF /\ Inside(path, Mounts[k].at)
          /\ best[k-1] = 0 \/ Len(Mounts[k].at) > Len(Mounts[best[k-1]].at)
       THEN k ELSE best[k-1]

\* The loop over the mounts ends: it defines its function.
LEMMA ChoiceExists ==
  ASSUME NEW path, NEW n \in Nat
  PROVE  \E best : best = [k \in 0..n |-> Chosen(path, best, k)]
<1> DEFINE T == {m \in Nat : \E best : best = [k \in 0..m |-> Chosen(path, best, k)]}
<1>1. 0 \in T
  <2> DEFINE z == [k \in 0..0 |-> 0]
  <2>1. z = [k \in 0..0 |-> Chosen(path, z, k)]
    BY DEF Chosen
  <2> HIDE DEF z
  <2> QED BY <2>1
<1>2. ASSUME NEW m \in 1..n, m - 1 \in T PROVE m \in T
  <2>1. PICK f : f = [k \in 0..(m-1) |-> Chosen(path, f, k)]
    BY <1>2
  <2> DEFINE g == [k \in 0..m |-> IF k = m THEN Chosen(path, f, m) ELSE f[k]]
  <2>2. \A k \in 1..m : g[k-1] = f[k-1]
    OBVIOUS
  <2>3. \A k \in 0..m : g[k] = Chosen(path, f, k)
    BY <2>1
  <2>4. \A k \in 0..m : Chosen(path, f, k) = Chosen(path, g, k)
    <3> HIDE DEF g
    <3> QED BY <2>2 DEF Chosen
  <2>5. g = [k \in 0..m |-> g[k]]
    OBVIOUS
  <2> HIDE DEF g
  <2>6. g = [k \in 0..m |-> Chosen(path, g, k)]
    BY <2>3, <2>4, <2>5
  <2> QED BY <2>6
<1> HIDE DEF T
<1>3. n \in T
  BY <1>1, <1>2, Upto
<1> QED BY <1>3 DEF T

\* HostPath is the last value of that function.
LEMMA HostPathIs ==
  ASSUME NEW path, Len(Mounts) \in Nat
  PROVE  \E best : /\ best = [k \in 0..Len(Mounts) |-> Chosen(path, best, k)]
                   /\ HostPath(path) = best[Len(Mounts)]
<1> DEFINE b == CHOOSE best : best = [k \in 0..Len(Mounts) |-> Chosen(path, best, k)]
<1>1. b = [k \in 0..Len(Mounts) |-> Chosen(path, b, k)]
  BY ChoiceExists
<1>2. HostPath(path) = b[Len(Mounts)]
  BY DEF HostPath, Chosen
<1> HIDE DEF b
<1> QED BY <1>1, <1>2

\* The mount that HostPath finds is the longest that covers the path.
LEMMA HostPathIsLongest ==
  ASSUME NEW path, Len(Mounts) \in Nat, \A k \in 1..Len(Mounts) : Len(Mounts[k].at) \in Nat
  PROVE  Longest(path, Len(Mounts), HostPath(path))
<1>1. PICK best : /\ best = [k \in 0..Len(Mounts) |-> Chosen(path, best, k)]
                  /\ HostPath(path) = best[Len(Mounts)]
  BY HostPathIs
<1> DEFINE T == {k \in 0..Len(Mounts) : Longest(path, k, best[k])}
<1>2. 0 \in T
  BY <1>1 DEF Longest, Chosen
<1>3. ASSUME NEW k \in 1..Len(Mounts), k - 1 \in T PROVE k \in T
  <2>1. best[k] = Chosen(path, best, k) /\ Longest(path, k-1, best[k-1])
    BY <1>1, <1>3
  <2>2. \A n \in 1..k : n = k \/ n \in 1..(k-1)
    OBVIOUS
  <2>3. best[k-1] \in 0..(k-1)
    BY <2>1 DEF Longest
  <2> DEFINE old == best[k-1]
           longer == Len(Mounts[k].at) > Len(Mounts[old].at)
  <2>4. CASE ~Covers(path, k)
    <3>1. best[k] = old
      BY <2>1, <2>4 DEF Chosen, Covers
    <3> QED BY <3>1, <2>1, <2>2, <2>3, <2>4 DEF Longest
  <2>5. CASE Covers(path, k) /\ (old = 0 \/ longer)
    <3>1. best[k] = k
      BY <2>1, <2>5 DEF Chosen, Covers
    <3>2. CASE old = 0
      BY <3>1, <3>2, <2>1, <2>2, <2>5 DEF Longest
    <3>3. CASE old # 0 /\ longer
      <4>1. /\ old \in 1..(k-1)
            /\ \A n \in 1..(k-1) : Covers(path, n) => Len(Mounts[n].at) <= Len(Mounts[old].at)
        BY <3>3, <2>1, <2>3 DEF Longest
      <4>2. \A n \in 1..k : Covers(path, n) => Len(Mounts[n].at) <= Len(Mounts[k].at)
        BY <3>3, <4>1, <2>2
      <4> QED BY <3>1, <4>2, <2>5 DEF Longest
    <3> QED BY <2>5, <3>2, <3>3
  <2>6. CASE Covers(path, k) /\ old # 0 /\ ~longer
    <3>1. best[k] = old
      BY <2>1, <2>6 DEF Chosen, Covers
    <3> QED BY <3>1, <2>1, <2>2, <2>3, <2>6 DEF Longest
  <2> QED BY <2>4, <2>5, <2>6
<1> HIDE DEF T
<1>4. Len(Mounts) \in T
  BY <1>2, <1>3, Upto, Len(Mounts) \in 0..Len(Mounts)
<1> QED BY <1>1, <1>4 DEF T

\* A sequence is one of something.
LEMMA SequenceHas ==
  ASSUME NEW s, IsSequence(s)
  PROVE  /\ Len(s) \in Nat /\ DOMAIN s = 1..Len(s)
         /\ s = [k \in 1..Len(s) |-> s[k]]
  BY LenProperties DEF IsSequence

\* Of two prefixes of a path the shorter is a prefix of the longer.
LEMMA PrefixOfPrefix ==
  ASSUME NEW p, NEW q, NEW r, IsSequence(p), IsSequence(q), IsSequence(r),
         Inside(p, q), Inside(p, r), Len(r) <= Len(q)
  PROVE  Inside(q, r)
<1>1. \A k \in 1..Len(q) : q[k] = p[k]
  BY SequenceHas DEF Inside
<1>2. \A k \in 1..Len(r) : r[k] = p[k]
  BY SequenceHas DEF Inside
<1>3. SubSeq(q, 1, Len(r)) = r
  BY <1>1, <1>2, SequenceHas
<1> QED BY <1>3 DEF Inside

\* The mounts are sequences of segments.
LEMMA MountsHave ==
  /\ Len(Mounts) \in Nat /\ DOMAIN Mounts = 1..Len(Mounts)
  /\ \A k \in 1..Len(Mounts) : IsSequence(Mounts[k].at) /\ Len(Mounts[k].at) \in Nat
  BY ConstantsAssumption, SequenceHas

\* The deepest mount hides the others.
LEMMA DeepestDecides ==
  ASSUME NEW path, IsSequence(path), HostPath(path) # 0
  PROVE  /\ HostPath(path) \in DOMAIN Mounts
         /\ Inside(path, Mounts[HostPath(path)].at)
         /\ \A m \in DOMAIN Mounts :
              Inside(path, Mounts[m].at) => Inside(Mounts[HostPath(path)].at, Mounts[m].at)
<1>1. Longest(path, Len(Mounts), HostPath(path))
  BY MountsHave, HostPathIsLongest
<1>2. /\ HostPath(path) \in 1..Len(Mounts)
      /\ Covers(path, HostPath(path))
      /\ \A n \in 1..Len(Mounts) :
           Covers(path, n) => Len(Mounts[n].at) <= Len(Mounts[HostPath(path)].at)
  BY <1>1 DEF Longest
<1> HIDE DEF HostPath
<1> QED BY <1>2, MountsHave, PrefixOfPrefix DEF Covers

-----------------------------------------------------------------------------
(* Observations.                                                           *)

\* What an observation is made of.
LEMMA NothingSeen ==
  /\ ~Nothing.error /\ ~Nothing.answered
  /\ DOMAIN Broken = DOMAIN Nothing /\ Broken.error /\ ~Broken.answered
  BY DEF Nothing, Broken

\* A response is an answer or an error.
LEMMA HTTPAnswers ==
  ASSUME NEW o \in HTTP PROVE DOMAIN o = DOMAIN Nothing /\ (o.error \/ o.answered)
<1>1. ASSUME NEW s, NEW b, NEW j
      PROVE  DOMAIN Response(s, b, j) = DOMAIN Nothing /\ Response(s, b, j).answered
  BY DEF Response, Nothing
<1> QED BY <1>1, NothingSeen DEF HTTP

\* A command that did not run, or was killed, is neither.
LEMMA ExecAnswers ==
  ASSUME NEW o \in Exec
  PROVE  /\ DOMAIN o = DOMAIN Nothing
         /\ o.error \/ o.answered \/ Unanswered(o)
<1>1. ASSUME NEW x, NEW t PROVE DOMAIN NotRun(x, t) = DOMAIN Nothing
  BY DEF NotRun, Nothing
<1>2. ASSUME NEW t, NEW u PROVE DOMAIN Killed(t, u) = DOMAIN Nothing
  BY DEF Killed, Nothing
<1>3. ASSUME NEW x, NEW t, NEW u
      PROVE  DOMAIN Exited(x, t, u) = DOMAIN Nothing /\ Exited(x, t, u).answered
  BY DEF Exited, Nothing
<1> QED BY <1>1, <1>2, <1>3, NothingSeen DEF Exec, Unanswered

\* A row, or more, is an answer.
LEMMA RowsAnswer ==
  ASSUME NEW n, NEW v
  PROVE  /\ DOMAIN RowsObservation(n, v) = DOMAIN Nothing
         /\ RowsObservation(n, v).answered /\ ~RowsObservation(n, v).error
         /\ n # 0 => RowsObservation(n, v).value = v
  BY DEF RowsObservation, Nothing

\* psql that was killed is nothing at all.
LEMMA PostgresAnswers ==
  ASSUME NEW o \in PostgresQuery
  PROVE  DOMAIN o = DOMAIN Nothing /\ (o.error \/ o.answered \/ o = Nothing)
<1>1. CASE o = Broken \/ o = Nothing
  BY <1>1, NothingSeen
<1>2. CASE \E n \in 0..2, v \in 0..2 : o = RowsObservation(n, Number(v))
  BY <1>2, RowsAnswer
<1> QED BY <1>1, <1>2 DEF PostgresQuery

\* find answers, also of a path where nothing is.
LEMMA TreeAnswers ==
  /\ \A is, S, glob : /\ DOMAIN ObserveTree(is, S, glob) = DOMAIN Nothing
                      /\ ObserveTree(is, S, glob).answered
  /\ DOMAIN Absent = DOMAIN Nothing /\ Absent.answered
  BY DEF ObserveTree, Absent, Nothing

-----------------------------------------------------------------------------
(* Where the run is, and what the application has stored.                  *)

\* The recipe has checks.
LEMMA ChecksCount == Len(Checks) \in Nat \ {0} /\ DOMAIN Checks = 1..Len(Checks)
<1>1. Len(Checks) \in Nat /\ DOMAIN Checks = 1..Len(Checks)
  BY ChecksAssumption, SequenceHas
<1>2. Len(Checks) # 0
  BY <1>1, ChecksAssumption, SequenceHas
<1> QED BY <1>1, <1>2

\* The check at hand is one the schema allows.
LEMMA CheckIs ==
  ASSUME i \in DOMAIN Checks PROVE Check.kind \in Kinds /\ WellFormed(Check.expect)
  BY ChecksAssumption DEF Check

\* One copy at most for each check so far.
LEMMA Numbers ==
  ASSUME Places
  PROVE  i \in 1..Len(Checks) /\ i \in Nat /\ seq \in Nat /\ seq <= i
<1>1. i \in DOMAIN Checks /\ seq \in 0..i
  BY DEF Places
<1> QED BY <1>1, ChecksCount

\* The first check takes no copy yet.
LEMMA PlacesInit == Init => Places
  BY ChecksCount DEF Init, Places, Fetching, FileRead, Judging

\* A check goes from one step to the next.
LEMMA PlacesStep == ASSUME Places, [Next]_vars PROVE Places'
<1> USE DEF vars, app, database, reader, judgement, observers
<1>1. CASE AppCommits
  BY <1>1, ChecksCount DEF AppCommits, Places, Fetching, FileRead, Judging, Check
<1>2. CASE AppCheckpoints
  BY <1>2, ChecksCount DEF AppCheckpoints, Places, Fetching, FileRead, Judging, Check
<1>3. CASE AppBegins
  BY <1>3, ChecksCount DEF AppBegins, Places, Fetching, FileRead, Judging, Check
<1>4. CASE AppEnds
  BY <1>4, ChecksCount DEF AppEnds, Places, Fetching, FileRead, Judging, Check
<1>5. CASE AppWritesFiles
  BY <1>5, ChecksCount DEF AppWritesFiles, Places, Fetching, FileRead, Judging, Check
<1>6. CASE RunCheck
  BY <1>6, ChecksCount DEF RunCheck, Places, Fetching, FileRead, Judging, Check
<1>7. CASE RunFileCheck
  BY <1>7, ChecksCount DEF RunFileCheck, Places, Fetching, FileRead, Judging, Check
<1>8. CASE Walk
  BY <1>8, ChecksCount DEF Walk, Places, Fetching, FileRead, Judging, Check
<1>9. CASE BeginFetch
  <2>1. UNCHANGED i /\ pc = "run" /\ i \in DOMAIN Checks
    BY <1>9 DEF BeginFetch, Places
  <2>2. (seq' = seq \/ seq' = seq + 1) /\ FileRead
    BY <1>9 DEF BeginFetch, NextName, FileRead
  <2>3. (pc' = "copy main" /\ UNCHANGED obs) \/ pc' = "judge"
    BY <1>9 DEF BeginFetch, Observe
  <2>4. FileRead'
    BY <2>1, <2>2 DEF FileRead, Check
  <2>5. seq' \in 0..i' /\ pc' # "run"
    <3>1. pc = "run" => seq # i
      BY DEF Places
    <3>2. seq \in 0..i /\ i \in Nat
      BY Numbers
    <3>3. i' = i /\ pc = "run" /\ (seq' = seq \/ seq' = seq + 1)
      BY <2>1, <2>2
    <3>4. seq' \in 0..i
      BY <3>1, <3>2, <3>3
    <3>5. pc' # "run"
      BY <2>3
    <3> QED BY <3>3, <3>4, <3>5
  <2> QED BY <2>1, <2>3, <2>4, <2>5 DEF Places, Judging
<1>10. CASE BeginCopy
  BY <1>10, ChecksCount DEF BeginCopy, Removed, Observe, Places, Fetching, FileRead,
         Judging, Check
<1>11. CASE CopyMain
  BY <1>11, ChecksCount DEF CopyMain, Places, Fetching, FileRead, Judging, Check
<1>12. CASE CopyWal
  BY <1>12, ChecksCount DEF CopyWal, CopySidecars, Places, Fetching, FileRead, Judging,
         Check
<1>13. CASE CopyFails
  BY <1>13, ChecksCount DEF CopyFails, AfterFailure, Removed, Observe, Places, Fetching,
         FileRead, Judging, Check
<1>14. CASE OrphanGoesOn
  BY <1>14, ChecksCount DEF OrphanGoesOn, Places, Fetching, FileRead, Judging, Check
<1>15. CASE Query
  BY <1>15, ChecksCount DEF Query, Observe, Removed, Places, Fetching, FileRead,
         Judging, Check
<1>16. CASE Evaluate
  BY <1>16, ChecksCount DEF Evaluate, Places, Fetching, FileRead, Judging, Check
<1>17. CASE NextCheck
  <2>1. CASE UNCHANGED i /\ pc' = "done"
    BY <1>17, <2>1 DEF NextCheck, Places, Fetching, Judging
  <2>2. CASE i # Len(Checks) /\ i' = i + 1 /\ pc' = "run"
    BY <1>17, <2>2, ChecksCount DEF NextCheck, Places, Fetching, Judging
  <2> QED BY <1>17, <2>1, <2>2 DEF NextCheck
<1>18. CASE Done
  BY <1>18, ChecksCount DEF Done, Places, Fetching, FileRead, Judging, Check
<1>19. CASE UNCHANGED vars
  BY <1>19 DEF Places, Fetching, FileRead, Judging, Check
<1> QED
  BY <1>1, <1>2, <1>3, <1>4, <1>5, <1>6, <1>7, <1>8, <1>9, <1>10, <1>11, <1>12, <1>13,
         <1>14, <1>15, <1>16, <1>17, <1>18, <1>19
     DEF Next

\* A tree has paths.
LEMMA TreesHave ==
  ASSUME NEW t \in Trees
  PROVE  t.has \subseteq Paths /\ t.is \in {"nothing", "file", "dir"}
<1>1. t \in [is : {"nothing", "file", "dir"}, has : {t.has}]
  BY ConstantsAssumption
<1> QED BY <1>1 DEF Paths

\* A path has segments, and there are finitely many paths.
LEMMA PathsHave == IsFiniteSet(Paths) /\ \A p \in Paths : Len(p) \in Nat \ {0}
<1>1. ASSUME NEW p \in Paths PROVE Len(p) \in Nat \ {0}
  <2>1. PICK t \in Trees : p \in t.has
    BY DEF Paths
  <2>2. IsSequence(p) /\ Len(p) > 0
    BY <2>1, ConstantsAssumption
  <2> QED BY <2>2, SequenceHas
<1> QED BY <1>1, ConstantsAssumption

\* The application has what the backup had.
LEMMA StoredInit == Init => Stored
  BY DEF Init, Stored, NoWalk

\* It adds rows, and moves them.
LEMMA StoredStep == ASSUME Stored, [Next]_vars PROVE Stored'
<1> USE DEF vars, app, database, reader, judgement, observers
<1> USE DEF Rows
<1>1. CASE AppCommits
  BY <1>1 DEF AppCommits, Stored
<1>2. CASE AppCheckpoints
  BY <1>2 DEF AppCheckpoints, Stored
<1>3. CASE AppBegins
  BY <1>3 DEF AppBegins, Stored
<1>4. CASE AppEnds
  BY <1>4 DEF AppEnds, Stored
<1>5. CASE AppWritesFiles
  BY <1>5, TreesHave DEF AppWritesFiles, Stored
<1>6. CASE RunCheck
  BY <1>6 DEF RunCheck, Stored
<1>7. CASE RunFileCheck
  BY <1>7, TreesHave DEF RunFileCheck, Stored
<1>8. CASE Walk
  BY <1>8 DEF Walk, Stored
<1>9. CASE BeginFetch
  BY <1>9 DEF BeginFetch, Observe, NextName, Stored
<1>10. CASE BeginCopy
  BY <1>10 DEF BeginCopy, Removed, Observe, Stored
<1>11. CASE CopyMain
  BY <1>11 DEF CopyMain, Stored
<1>12. CASE CopyWal
  BY <1>12 DEF CopyWal, CopySidecars, Stored
<1>13. CASE CopyFails
  BY <1>13 DEF CopyFails, AfterFailure, Removed, Observe, Stored
<1>14. CASE OrphanGoesOn
  BY <1>14 DEF OrphanGoesOn, Stored
<1>15. CASE Query
  BY <1>15 DEF Query, Observe, Removed, Stored
<1>16. CASE Evaluate
  BY <1>16 DEF Evaluate, Stored
<1>17. CASE NextCheck
  BY <1>17 DEF NextCheck, Stored, NoWalk
<1>18. CASE Done
  BY <1>18 DEF Done, Stored
<1>19. CASE UNCHANGED vars
  BY <1>19 DEF Stored
<1> QED
  BY <1>1, <1>2, <1>3, <1>4, <1>5, <1>6, <1>7, <1>8, <1>9, <1>10, <1>11, <1>12, <1>13,
         <1>14, <1>15, <1>16, <1>17, <1>18, <1>19
     DEF Next

-----------------------------------------------------------------------------
(* The copies.                                                             *)

\* There is none.
LEMMA CopiesInit == Init => Copies
  BY DEF Init, Copies, Fetching

\* A copy that is written to stays one.
LEMMA WrittenStaysCopies ==
  ASSUME reads \in [DOMAIN reads -> [main : SUBSET Rows, wal : SUBSET Rows]], Stored,
         NEW n \in DOMAIN reads
  PROVE  /\ [reads EXCEPT ![n].main = main]
              \in [DOMAIN reads -> [main : SUBSET Rows, wal : SUBSET Rows]]
         /\ [reads EXCEPT ![n].wal = wal]
              \in [DOMAIN reads -> [main : SUBSET Rows, wal : SUBSET Rows]]
  BY DEF Stored

\* One more is empty.
LEMMA CopyAdded ==
  /\ DOMAIN Started = DOMAIN reads \cup {NextName}
  /\ \A n \in DOMAIN reads : Started[n] = reads[n]
  /\ NextName \notin DOMAIN reads => Started[NextName] = NoCopy
  /\ Started = [n \in DOMAIN Started |-> Started[n]]
<1>1. DOMAIN Started = DOMAIN reads \cup {NextName}
  BY DEF Started
<1>2. \A n \in DOMAIN reads \cup {NextName} :
        Started[n] = IF n \in DOMAIN reads THEN reads[n] ELSE NoCopy
  BY DEF Started
<1>3. Started = [n \in DOMAIN reads \cup {NextName} |-> Started[n]]
  BY Zenon DEF Started
<1> QED BY <1>1, <1>2, <1>3

\* The one at hand is removed.
LEMMA RemovedStaysCopies ==
  /\ DOMAIN Removed = DOMAIN reads \ {seq}
  /\ \A n \in DOMAIN reads \ {seq} : Removed[n] = reads[n]
  /\ reads \in [DOMAIN reads -> [main : SUBSET Rows, wal : SUBSET Rows]] =>
       Removed \in [DOMAIN Removed -> [main : SUBSET Rows, wal : SUBSET Rows]]
  BY DEF Removed

\* A copy is removed, or its container has outlived the command.
LEMMA CopiesStep == ASSUME Places, Stored, Copies, [Next]_vars PROVE Copies'
<1> USE DEF vars, app, database, reader, judgement, observers
<1>1. CASE AppCommits
  BY <1>1 DEF AppCommits, Copies, Fetching
<1>2. CASE AppCheckpoints
  BY <1>2 DEF AppCheckpoints, Copies, Fetching
<1>3. CASE AppBegins
  BY <1>3 DEF AppBegins, Copies, Fetching
<1>4. CASE AppEnds
  BY <1>4 DEF AppEnds, Copies, Fetching
<1>5. CASE AppWritesFiles
  BY <1>5 DEF AppWritesFiles, Copies, Fetching
<1>6. CASE RunCheck
  BY <1>6 DEF RunCheck, Copies, Fetching
<1>7. CASE RunFileCheck
  BY <1>7 DEF RunFileCheck, Copies, Fetching
<1>8. CASE Walk
  BY <1>8 DEF Walk, Copies, Fetching
<1>9. CASE BeginFetch
  <2>1. pc = "run" /\ seq \in Nat /\ ~Fetching /\ UNCHANGED <<orphans, outlived>>
    BY <1>9, Numbers DEF BeginFetch, Fetching
  <2>2. (seq' = seq /\ UNCHANGED reads /\ ~Fetching') \/ seq' = seq + 1
    BY <1>9 DEF BeginFetch, NextName, Observe, Fetching
  <2>3. CASE seq' = seq /\ UNCHANGED reads /\ ~Fetching'
    BY <2>1, <2>3 DEF Copies
  <2>4. CASE seq' = seq + 1
    <3>1. outlived \subseteq 1..seq' /\ seq' \notin outlived /\ seq' # 0
      <4>1. outlived \subseteq 1..seq
        BY DEF Copies
      <4> QED BY <2>1, <2>4, <4>1
    <3>2. CASE UNCHANGED reads /\ ~Fetching'
      BY <2>1, <3>1, <3>2 DEF Copies
    <3>3. CASE pc' = "copy main" /\ reads' = Started /\ seq' = NextName
      <4>1. NoCopy \in [main : SUBSET Rows, wal : SUBSET Rows]
        BY DEF NoCopy
      <4>2. \A n \in DOMAIN reads : reads[n] \in [main : SUBSET Rows, wal : SUBSET Rows]
        BY DEF Copies
      <4>3. NextName \notin DOMAIN reads
        BY <2>1, <3>1, <3>3 DEF Copies
      <4>4. Started \in [DOMAIN Started -> [main : SUBSET Rows, wal : SUBSET Rows]]
        BY <4>1, <4>2, <4>3, CopyAdded
      <4>5. DOMAIN reads' \subseteq outlived \cup {seq'} /\ seq' \in DOMAIN reads'
        BY <2>1, <3>3, CopyAdded DEF Copies
      <4>6. reads' \in [DOMAIN reads' -> [main : SUBSET Rows, wal : SUBSET Rows]]
        BY <3>3, <4>4
      <4> QED BY <2>1, <3>1, <3>3, <4>5, <4>6 DEF Copies, Fetching
    <3> QED BY <1>9, <3>2, <3>3 DEF BeginFetch, Observe, Fetching
  <2> QED BY <2>2, <2>3, <2>4
<1>10. CASE BeginCopy
  <2>1. Fetching /\ UNCHANGED <<seq, orphans, outlived>>
    BY <1>10 DEF BeginCopy, Fetching
  <2>2. CASE UNCHANGED reads /\ Fetching'
    BY <2>1, <2>2 DEF Copies
  <2>3. CASE reads' = Removed /\ ~Fetching'
    BY <2>1, <2>3, RemovedStaysCopies DEF Copies
  <2> QED BY <1>10, <2>2, <2>3 DEF BeginCopy, Observe, Fetching
<1>11. CASE CopyMain
  <2>1. Fetching /\ Fetching' /\ UNCHANGED <<seq, orphans, outlived>>
    BY <1>11 DEF CopyMain, Fetching
  <2>2. reads' = [reads EXCEPT ![seq].main = main]
    BY <1>11 DEF CopyMain
  <2> QED BY <2>1, <2>2, WrittenStaysCopies DEF Copies
<1>12. CASE CopyWal
  <2>1. Fetching /\ Fetching' /\ UNCHANGED <<seq, orphans, outlived>>
    BY <1>12 DEF CopyWal, Fetching
  <2>2. reads' = [reads EXCEPT ![seq].wal = wal]
    BY <1>12 DEF CopyWal, CopySidecars
  <2> QED BY <2>1, <2>2, WrittenStaysCopies DEF Copies, Fetching
<1>13. CASE CopyFails
  <2>1. Fetching /\ ~Fetching' /\ UNCHANGED seq
    BY <1>13 DEF CopyFails, Fetching, Observe
  <2>2. seq \in 1..seq
    <3>1. seq # 0
      BY <2>1 DEF Copies
    <3> QED BY <3>1, Numbers
  <2>3. reads' = Removed \/ reads' = reads
    BY <1>13 DEF CopyFails, AfterFailure
  <2>4. reads' \in [DOMAIN reads' -> [main : SUBSET Rows, wal : SUBSET Rows]]
    BY <2>3, RemovedStaysCopies DEF Copies
  <2>5. CASE reads' = Removed /\ UNCHANGED <<orphans, outlived>>
    BY <2>1, <2>4, <2>5, RemovedStaysCopies DEF Copies
  <2>6. ASSUME NEW step \in {"copy main", "copy wal"},
               orphans' = orphans \cup {[name |-> seq, step |-> step]},
               outlived' = outlived \cup {seq}
        PROVE  Copies'
    <3>1. DOMAIN reads' \subseteq outlived'
      BY <2>1, <2>3, <2>6, RemovedStaysCopies DEF Copies
    <3>2. outlived' \subseteq 1..seq'
      BY <2>1, <2>2, <2>6 DEF Copies
    <3>3. orphans' \subseteq [name : outlived', step : {"copy main", "copy wal"}]
      <4>1. [name |-> seq, step |-> step] \in [name : outlived', step : {"copy main", "copy wal"}]
        BY <2>6
      <4>2. orphans \subseteq [name : outlived', step : {"copy main", "copy wal"}]
        BY <2>6 DEF Copies
      <4> QED BY <4>1, <4>2, <2>6
    <3> QED BY <2>1, <2>4, <3>1, <3>2, <3>3 DEF Copies
  <2> QED BY <1>13, <2>5, <2>6 DEF CopyFails, AfterFailure
<1>14. CASE OrphanGoesOn
  <2>1. UNCHANGED <<pc, seq, outlived, main, wal>>
    BY <1>14 DEF OrphanGoesOn
  <2>2. PICK o \in orphans :
          /\ orphans' = (orphans \ {o}) \cup
               (IF o.name \in DOMAIN reads /\ o.step = "copy main"
                THEN {[o EXCEPT !.step = "copy wal"]} ELSE {})
          /\ reads' = IF o.name \notin DOMAIN reads THEN reads
                      ELSE IF o.step = "copy main" THEN [reads EXCEPT ![o.name].main = main]
                      ELSE [reads EXCEPT ![o.name].wal = wal]
    BY <1>14 DEF OrphanGoesOn
  <2>3. o \in [name : outlived, step : {"copy main", "copy wal"}]
    BY DEF Copies
  <2>4. orphans' \subseteq [name : outlived, step : {"copy main", "copy wal"}]
    <3>1. [o EXCEPT !.step = "copy wal"] \in [name : outlived, step : {"copy main", "copy wal"}]
      BY <2>3
    <3> QED BY <2>2, <3>1 DEF Copies
  <2>5. /\ reads' \in [DOMAIN reads' -> [main : SUBSET Rows, wal : SUBSET Rows]]
        /\ DOMAIN reads' = DOMAIN reads
    <3>1. CASE o.name \notin DOMAIN reads
      BY <2>2, <3>1 DEF Copies
    <3>2. CASE o.name \in DOMAIN reads
      BY <2>2, <3>2, WrittenStaysCopies DEF Copies
    <3> QED BY <3>1, <3>2
  <2> QED BY <2>1, <2>4, <2>5 DEF Copies, Fetching
<1>15. CASE Query
  <2>1. Fetching /\ ~Fetching' /\ UNCHANGED <<seq, orphans, outlived>> /\ reads' = Removed
    BY <1>15 DEF Query, Fetching, Observe
  <2> QED BY <2>1, RemovedStaysCopies DEF Copies
<1>16. CASE Evaluate
  BY <1>16 DEF Evaluate, Copies, Fetching
<1>17. CASE NextCheck
  BY <1>17 DEF NextCheck, Copies, Fetching
<1>18. CASE Done
  BY <1>18 DEF Done, Copies, Fetching
<1>19. CASE UNCHANGED vars
  BY <1>19 DEF Copies, Fetching
<1> QED
  BY <1>1, <1>2, <1>3, <1>4, <1>5, <1>6, <1>7, <1>8, <1>9, <1>10, <1>11, <1>12, <1>13,
         <1>14, <1>15, <1>16, <1>17, <1>18, <1>19
     DEF Next

\* Nothing is copied.
LEMMA CopyHoldsInit == Init => CopyHolds
  BY DEF Init, CopyHolds, Fetching

\* Rows do not vanish, and only the copy at hand is written to.
LEMMA CopyHoldsStep == ASSUME Places, Copies, CopyHolds, [Next]_vars PROVE CopyHolds'
<1> USE DEF vars, app, database, reader, judgement, observers
<1>1. CASE AppCommits
  BY <1>1 DEF AppCommits, CopyHolds, Copies, Fetching
<1>2. CASE AppCheckpoints
  BY <1>2 DEF AppCheckpoints, CopyHolds, Copies, Fetching
<1>3. CASE AppBegins
  BY <1>3 DEF AppBegins, CopyHolds, Copies, Fetching
<1>4. CASE AppEnds
  BY <1>4 DEF AppEnds, CopyHolds, Copies, Fetching
<1>5. CASE AppWritesFiles
  BY <1>5 DEF AppWritesFiles, CopyHolds, Copies, Fetching
<1>6. CASE RunCheck
  BY <1>6 DEF RunCheck, CopyHolds, Copies, Fetching
<1>7. CASE RunFileCheck
  BY <1>7 DEF RunFileCheck, CopyHolds, Copies, Fetching
<1>8. CASE Walk
  BY <1>8 DEF Walk, CopyHolds, Copies, Fetching
<1>9. CASE BeginFetch
  <2>1. main \cup wal = main' \cup wal' /\ before' = main \cup wal
    BY <1>9 DEF BeginFetch
  <2>2. CASE pc' = "copy main" /\ reads' = Started /\ seq' = NextName
    <3>1. seq' \notin DOMAIN reads
      <4>1. DOMAIN reads \subseteq 1..seq /\ seq' = seq + 1 /\ seq \in Nat
        BY <1>9, <2>2, Numbers DEF BeginFetch, NextName, Copies, Fetching, Observe
      <4> QED BY <4>1
    <3>2. reads'[seq'] = NoCopy
      BY <2>2, <3>1, CopyAdded
    <3>3. reads'[seq'].main = {} /\ reads'[seq'].wal = {}
      BY <3>2 DEF NoCopy
    <3> QED BY <2>1, <2>2, <3>3 DEF CopyHolds
  <2>3. CASE pc' = "judge"
    BY <2>3 DEF CopyHolds, Fetching
  <2> QED BY <1>9, <2>2, <2>3 DEF BeginFetch, Observe
<1>10. CASE BeginCopy
  <2>1. Fetching /\ UNCHANGED <<seq, main, wal, before>>
    BY <1>10 DEF BeginCopy, Fetching
  <2>2. CASE UNCHANGED reads /\ pc' = "copying main"
    BY <2>1, <2>2 DEF CopyHolds
  <2>3. CASE pc' = "judge"
    BY <2>3 DEF CopyHolds, Fetching
  <2> QED BY <1>10, <2>2, <2>3 DEF BeginCopy, Observe
<1>11. CASE CopyMain
  <2>1. Fetching /\ UNCHANGED <<seq, main, wal, before>>
    BY <1>11 DEF CopyMain, Fetching
  <2>2. reads' = [reads EXCEPT ![seq].main = main] /\ pc' = "copy wal"
    BY <1>11 DEF CopyMain
  <2>3. reads[seq] \in [main : SUBSET Rows, wal : SUBSET Rows] /\ seq \in DOMAIN reads
    BY <2>1 DEF Copies
  <2>4. reads'[seq].main = main /\ reads'[seq].wal = reads[seq].wal
    BY <2>2, <2>3
  <2> QED BY <2>1, <2>2, <2>4 DEF CopyHolds
<1>12. CASE CopyWal
  BY <1>12 DEF CopyWal, CopySidecars, CopyHolds, Copies, Fetching
<1>13. CASE CopyFails
  BY <1>13 DEF CopyFails, AfterFailure, Removed, Observe, CopyHolds, Copies, Fetching
<1>14. CASE OrphanGoesOn
  BY <1>14 DEF OrphanGoesOn, CopyHolds, Copies, Fetching
<1>15. CASE Query
  BY <1>15 DEF Query, Observe, Removed, CopyHolds, Copies, Fetching
<1>16. CASE Evaluate
  BY <1>16 DEF Evaluate, CopyHolds, Copies, Fetching
<1>17. CASE NextCheck
  BY <1>17 DEF NextCheck, CopyHolds, Copies, Fetching
<1>18. CASE Done
  BY <1>18 DEF Done, CopyHolds, Copies, Fetching
<1>19. CASE UNCHANGED vars
  BY <1>19 DEF CopyHolds, Copies, Fetching
<1> QED
  BY <1>1, <1>2, <1>3, <1>4, <1>5, <1>6, <1>7, <1>8, <1>9, <1>10, <1>11, <1>12, <1>13,
         <1>14, <1>15, <1>16, <1>17, <1>18, <1>19
     DEF Next

-----------------------------------------------------------------------------
(* What is observed.                                                       *)

\* Nothing has been.
LEMMA SeenInit == Init => RowsSeen /\ TreeSeen /\ Answered /\ Judged
  BY DEF Init, RowsSeen, TreeSeen, Answered, Judged, Judging

\* Every observation is of one of the kinds that the commands have.
LEMMA AnsweredStep == ASSUME Places, Answered, [Next]_vars PROVE Answered'
<1> USE DEF vars, app, database, reader, judgement, observers
<1>1. CASE AppCommits
  BY <1>1 DEF AppCommits, Answered, Places, Judging, Check
<1>2. CASE AppCheckpoints
  BY <1>2 DEF AppCheckpoints, Answered, Places, Judging, Check
<1>3. CASE AppBegins
  BY <1>3 DEF AppBegins, Answered, Places, Judging, Check
<1>4. CASE AppEnds
  BY <1>4 DEF AppEnds, Answered, Places, Judging, Check
<1>5. CASE AppWritesFiles
  BY <1>5 DEF AppWritesFiles, Answered, Places, Judging, Check
<1>6. CASE RunCheck
  <2>1. CASE Check.kind = "http"
    BY <1>6, <2>1, HTTPAnswers DEF RunCheck, Answered
  <2>2. CASE Check.kind = "exec"
    <3>1. obs' \in Exec /\ UNCHANGED i
      BY <1>6, <2>2 DEF RunCheck
    <3> QED BY <2>2, <3>1, ExecAnswers DEF Answered, Check
  <2>3. CASE Check.kind = "postgres"
    <3>1. obs' \in PostgresQuery /\ UNCHANGED i
      BY <1>6, <2>3 DEF RunCheck
    <3> QED BY <2>3, <3>1, PostgresAnswers DEF Answered, Check
  <2> QED BY <1>6, <2>1, <2>2, <2>3 DEF RunCheck
<1>7. CASE RunFileCheck
  <2>1. obs' \in {Broken, Absent} \/ (UNCHANGED obs /\ ~Judging')
    BY <1>7 DEF RunFileCheck, Judging
  <2>2. DOMAIN obs = DOMAIN Nothing
    BY DEF Answered
  <2> QED BY <2>1, <2>2, TreeAnswers, NothingSeen DEF Answered
<1>8. CASE Walk
  <2>1. obs' = Broken \/ \E is, S, glob : obs' = ObserveTree(is, S, glob)
    BY <1>8 DEF Walk
  <2> QED BY <2>1, TreeAnswers, NothingSeen DEF Answered
<1>9. CASE BeginFetch
  BY <1>9, NothingSeen DEF BeginFetch, Observe, Answered, Judging
<1>10. CASE BeginCopy
  BY <1>10, NothingSeen DEF BeginCopy, Observe, Answered, Judging
<1>11. CASE CopyMain
  BY <1>11 DEF CopyMain, Answered, Judging
<1>12. CASE CopyWal
  BY <1>12 DEF CopyWal, CopySidecars, Answered, Places, Judging, Check
<1>13. CASE CopyFails
  BY <1>13, NothingSeen DEF CopyFails, Observe, Answered
<1>14. CASE OrphanGoesOn
  BY <1>14 DEF OrphanGoesOn, Answered, Places, Judging, Check
<1>15. CASE Query
  BY <1>15, NothingSeen, RowsAnswer DEF Query, Observe, Answered
<1>16. CASE Evaluate
  BY <1>16 DEF Evaluate, Answered, Places, Judging, Check
<1>17. CASE NextCheck
  BY <1>17 DEF NextCheck, Answered, Places, Judging, Check
<1>18. CASE Done
  BY <1>18 DEF Done, Answered, Places, Judging, Check
<1>19. CASE UNCHANGED vars
  BY <1>19 DEF Answered, Places, Judging, Check
<1> QED
  BY <1>1, <1>2, <1>3, <1>4, <1>5, <1>6, <1>7, <1>8, <1>9, <1>10, <1>11, <1>12, <1>13,
         <1>14, <1>15, <1>16, <1>17, <1>18, <1>19
     DEF Next

\* A query answers with the rows of its copy.
LEMMA RowsSeenStep ==
  ASSUME Places, Copies, CopyHolds, RowsSeen, [Next]_vars PROVE RowsSeen'
<1> USE DEF vars, app, database, reader, judgement, observers
<1>1. CASE AppCommits
  BY <1>1 DEF AppCommits, RowsSeen, Places, Judging, Check
<1>2. CASE AppCheckpoints
  BY <1>2 DEF AppCheckpoints, RowsSeen, Places, Judging, Check
<1>3. CASE AppBegins
  BY <1>3 DEF AppBegins, RowsSeen, Places, Judging, Check
<1>4. CASE AppEnds
  BY <1>4 DEF AppEnds, RowsSeen, Places, Judging, Check
<1>5. CASE AppWritesFiles
  BY <1>5 DEF AppWritesFiles, RowsSeen, Places, Judging, Check
<1>6. CASE RunCheck
  BY <1>6 DEF RunCheck, RowsSeen, Places, Judging, Check
<1>7. CASE RunFileCheck
  BY <1>7 DEF RunFileCheck, RowsSeen, Places, Judging, Check
<1>8. CASE Walk
  <2>1. Check.kind = "file" /\ UNCHANGED i
    BY <1>8 DEF Walk, Places
  <2> QED BY <2>1 DEF RowsSeen, Check
<1>9. CASE BeginFetch
  BY <1>9, NothingSeen DEF BeginFetch, Observe, RowsSeen, Judging, Check
<1>10. CASE BeginCopy
  BY <1>10, NothingSeen DEF BeginCopy, Observe, RowsSeen, Judging, Check
<1>11. CASE CopyMain
  BY <1>11 DEF CopyMain, RowsSeen, Judging
<1>12. CASE CopyWal
  BY <1>12 DEF CopyWal, CopySidecars, RowsSeen, Places, Judging, Check
<1>13. CASE CopyFails
  BY <1>13, NothingSeen DEF CopyFails, Observe, RowsSeen, Judging, Check
<1>14. CASE OrphanGoesOn
  BY <1>14 DEF OrphanGoesOn, RowsSeen, Places, Judging, Check
<1>15. CASE Query
  <2>1. /\ Fetching /\ UNCHANGED <<main, wal, before, torn, dbFile>> /\ Check' = Check
        /\ pc = "query"
    BY <1>15 DEF Query, Fetching, Check
  <2>2. CASE obs' = Broken
    BY <2>2, NothingSeen DEF RowsSeen
  <2>3. ASSUME NEW a \in Answers, obs' = RowsObservation(1, a) PROVE RowsSeen'
    <3>1. obs'.value = a /\ ~obs'.error
      BY <2>3, RowsAnswer
    <3>2. CASE Check.kind = "integrity"
      <4>1. (a = Ok => dbFile = "sound") /\ (a # Ok => dbFile # "sound" \/ torn)
        BY <2>3, <3>2 DEF Answers
      <4> QED BY <2>1, <3>1, <3>2, <4>1 DEF RowsSeen
    <3>3. CASE Check.kind = "sqlite"
      <4> DEFINE rows == reads[seq].main \cup reads[seq].wal
      <4>1. ~torn => a = Number(Cardinality(rows))
        BY <2>3, <3>3 DEF Answers
      <4>2. rows \subseteq main \cup wal /\ (~torn => before \subseteq rows)
        BY <2>1 DEF CopyHolds
      <4> HIDE DEF rows
      <4> QED BY <2>1, <3>1, <3>3, <4>1, <4>2 DEF RowsSeen
    <3> QED BY <2>1, <3>2, <3>3 DEF Places, FileRead
  <2> QED BY <1>15, <2>2, <2>3 DEF Query, Observe
<1>16. CASE Evaluate
  BY <1>16 DEF Evaluate, RowsSeen, Places, Judging, Check
<1>17. CASE NextCheck
  BY <1>17 DEF NextCheck, RowsSeen, Places, Judging, Check
<1>18. CASE Done
  BY <1>18 DEF Done, RowsSeen, Places, Judging, Check
<1>19. CASE UNCHANGED vars
  BY <1>19 DEF RowsSeen, Places, Judging, Check
<1> QED
  BY <1>1, <1>2, <1>3, <1>4, <1>5, <1>6, <1>7, <1>8, <1>9, <1>10, <1>11, <1>12, <1>13,
         <1>14, <1>15, <1>16, <1>17, <1>18, <1>19
     DEF Next

\* What is hidden is the business of the check and its walk,
LEMMA HiddenFrame == UNCHANGED <<i, walk>> => UNCHANGED Hidden
  BY DEF Hidden, Below, Check

\* and so is what the walk has made of it.
LEMMA SightFrame == UNCHANGED <<i, obs, walk, dropped>> => UNCHANGED Sight
<1> SUFFICES ASSUME UNCHANGED <<i, obs, walk, dropped>> PROVE UNCHANGED Sight
  OBVIOUS
<1>1. UNCHANGED Hidden /\ UNCHANGED Check
  BY HiddenFrame DEF Check
<1> QED BY <1>1 DEF Sight

\* A file check observes the tree at the mount that HostPath finds.
LEMMA TreeSeenStep == ASSUME Places, TreeSeen, [Next]_vars PROVE TreeSeen'
<1> USE DEF vars, app, database, reader, judgement, observers
<1>1. CASE AppCommits
  BY <1>1, SightFrame DEF AppCommits, TreeSeen, Judging, Check
<1>2. CASE AppCheckpoints
  BY <1>2, SightFrame DEF AppCheckpoints, TreeSeen, Judging, Check
<1>3. CASE AppBegins
  BY <1>3, SightFrame DEF AppBegins, TreeSeen, Judging, Check
<1>4. CASE AppEnds
  BY <1>4, SightFrame DEF AppEnds, TreeSeen, Judging, Check
<1>5. CASE AppWritesFiles
  BY <1>5, SightFrame DEF AppWritesFiles, TreeSeen, Judging, Check
<1>6. CASE RunCheck
  <2>1. Check.kind # "file" /\ UNCHANGED i
    BY <1>6 DEF RunCheck
  <2> QED BY <2>1 DEF TreeSeen, Check
<1>7. CASE RunFileCheck
  <2>1. host' # "none" => HostPath(Check.path) # 0 /\ host' = Mounts[HostPath(Check.path)].host
    BY <1>7 DEF RunFileCheck
  <2>2. \/ pc' = "walk"
        \/ obs' = Broken
        \/ obs' = Absent /\ "nothing" \in walk'.kinds
    BY <1>7 DEF RunFileCheck
  <2>3. UNCHANGED Check
    BY <1>7 DEF RunFileCheck, Check
  <2> HIDE DEF HostPath
  <2> QED BY <2>1, <2>2, <2>3 DEF TreeSeen, Judging
<1>8. CASE Walk
  <2>1. pc = "walk" /\ UNCHANGED <<i, host, walk>> /\ UNCHANGED Check
    BY <1>8 DEF Walk, Check
  <2>2. UNCHANGED Hidden
    BY <2>1, HiddenFrame
  <2>3. CASE obs' = Broken
    BY <2>1, <2>3 DEF TreeSeen, Judging
  <2>4. CASE obs' # Broken
    <3>1. Sight'
      BY <1>8, <2>1, <2>2, <2>4 DEF Walk, Sight
    <3> QED BY <2>1, <3>1 DEF TreeSeen, Judging
  <2> QED BY <2>3, <2>4
<1>9. CASE BeginFetch
  <2>1. Check.kind # "file" /\ UNCHANGED i
    BY <1>9 DEF BeginFetch, Places, Fetching, FileRead
  <2> QED BY <2>1 DEF TreeSeen, Check
<1>10. CASE BeginCopy
  <2>1. Check.kind # "file" /\ UNCHANGED i
    BY <1>10 DEF BeginCopy, Places, Fetching, FileRead
  <2> QED BY <2>1 DEF TreeSeen, Check
<1>11. CASE CopyMain
  <2>1. Check.kind # "file" /\ UNCHANGED i
    BY <1>11 DEF CopyMain, Places, Fetching, FileRead
  <2> QED BY <2>1 DEF TreeSeen, Check
<1>12. CASE CopyWal
  <2>1. Check.kind # "file" /\ UNCHANGED i
    BY <1>12 DEF CopyWal, Places, Fetching, FileRead
  <2> QED BY <2>1 DEF TreeSeen, Check
<1>13. CASE CopyFails
  <2>1. Check.kind # "file" /\ UNCHANGED i
    BY <1>13 DEF CopyFails, Places, Fetching, FileRead
  <2> QED BY <2>1 DEF TreeSeen, Check
<1>14. CASE OrphanGoesOn
  BY <1>14, SightFrame DEF OrphanGoesOn, TreeSeen, Judging, Check
<1>15. CASE Query
  <2>1. Check.kind # "file" /\ UNCHANGED i
    BY <1>15 DEF Query, Places, Fetching, FileRead
  <2> QED BY <2>1 DEF TreeSeen, Check
<1>16. CASE Evaluate
  BY <1>16, SightFrame DEF Evaluate, TreeSeen, Judging, Check
<1>17. CASE NextCheck
  BY <1>17 DEF NextCheck, TreeSeen, Judging
<1>18. CASE Done
  BY <1>18, SightFrame DEF Done, TreeSeen, Judging, Check
<1>19. CASE UNCHANGED vars
  BY <1>19, SightFrame DEF TreeSeen, Judging, Check
<1> QED
  BY <1>1, <1>2, <1>3, <1>4, <1>5, <1>6, <1>7, <1>8, <1>9, <1>10, <1>11, <1>12, <1>13,
         <1>14, <1>15, <1>16, <1>17, <1>18, <1>19
     DEF Next

\* The verdict is on the check and what it observed.
LEMMA VerdictFrame == UNCHANGED <<i, obs>> => UNCHANGED Verdict
  BY DEF Verdict, IntegrityFailures, Meets, ExitExpected, Found, Selected, HasLength, Counted,
         Subject, Has, Check

\* An observation is judged as Evaluate has it.
LEMMA JudgedStep == ASSUME Places, Judged, [Next]_vars PROVE Judged'
<1> USE DEF vars, app, database, reader, judgement, observers
<1>1. CASE AppCommits
  BY <1>1, VerdictFrame DEF AppCommits, Judged
<1>2. CASE AppCheckpoints
  BY <1>2, VerdictFrame DEF AppCheckpoints, Judged
<1>3. CASE AppBegins
  BY <1>3, VerdictFrame DEF AppBegins, Judged
<1>4. CASE AppEnds
  BY <1>4, VerdictFrame DEF AppEnds, Judged
<1>5. CASE AppWritesFiles
  BY <1>5, VerdictFrame DEF AppWritesFiles, Judged
<1>6. CASE RunCheck
  BY <1>6, VerdictFrame DEF RunCheck, Judged
<1>7. CASE RunFileCheck
  BY <1>7, VerdictFrame DEF RunFileCheck, Judged
<1>8. CASE Walk
  BY <1>8, VerdictFrame DEF Walk, Judged
<1>9. CASE BeginFetch
  BY <1>9, VerdictFrame DEF BeginFetch, Observe, NextName, Judged
<1>10. CASE BeginCopy
  BY <1>10, VerdictFrame DEF BeginCopy, Removed, Observe, Judged
<1>11. CASE CopyMain
  BY <1>11, VerdictFrame DEF CopyMain, Removed, Observe, Judged
<1>12. CASE CopyWal
  BY <1>12, VerdictFrame DEF CopyWal, CopySidecars, Judged
<1>13. CASE CopyFails
  BY <1>13, VerdictFrame DEF CopyFails, AfterFailure, Removed, Observe, Judged
<1>14. CASE OrphanGoesOn
  BY <1>14, VerdictFrame DEF OrphanGoesOn, Judged
<1>15. CASE Query
  BY <1>15, VerdictFrame DEF Query, Observe, Removed, Judged
<1>16. CASE Evaluate
  BY <1>16, VerdictFrame DEF Evaluate, Judged, Verdict
<1>17. CASE NextCheck
  BY <1>17, VerdictFrame DEF NextCheck, Judged
<1>18. CASE Done
  BY <1>18, VerdictFrame DEF Done, Judged
<1>19. CASE UNCHANGED vars
  BY VerdictFrame, <1>19 DEF Judged
<1> QED
  BY <1>1, <1>2, <1>3, <1>4, <1>5, <1>6, <1>7, <1>8, <1>9, <1>10, <1>11, <1>12, <1>13,
         <1>14, <1>15, <1>16, <1>17, <1>18, <1>19
     DEF Next

-----------------------------------------------------------------------------
(* The invariant implies the properties.                                   *)

\* It holds of the first check before it runs.
LEMMA InvInit == Init => IInv
  BY PlacesInit, StoredInit, CopiesInit, CopyHoldsInit, SeenInit DEF IInv

\* It is kept by every step.
LEMMA InvStep == IInv /\ [Next]_vars => IInv'
  BY PlacesStep, StoredStep, CopiesStep, CopyHoldsStep, RowsSeenStep, TreeSeenStep,
     AnsweredStep, JudgedStep DEF IInv

\* So it holds throughout.
LEMMA InvHolds == Spec => []IInv
  BY InvInit, InvStep, PTL DEF Spec

\* Every variable is in its set: the failures are keys of the check.
LEMMA InvTypeOK == IInv => TypeOK
<1> SUFFICES ASSUME IInv PROVE TypeOK
  OBVIOUS
<1>1. Places /\ Stored /\ Copies /\ Answered /\ Judged
  BY DEF IInv
<1>2. /\ i \in DOMAIN Checks /\ seq \in 0..Len(Checks)
      /\ pc \in {"run", "walk", "copy main", "copying main", "copy wal", "query",
                 "judge", "judged", "done"}
  <2>1. seq \in 0..Len(Checks)
    BY <1>1, Numbers, ChecksCount
  <2> QED BY <1>1, <2>1 DEF Places
<1>3. /\ main \subseteq Rows /\ wal \subseteq Rows /\ hot \subseteq Rows /\ tree \in Trees
      /\ walk.ever \subseteq Paths /\ walk.always \subseteq walk.ever
  BY <1>1 DEF Stored
<1>4. outlived \subseteq 1..seq /\ DOMAIN reads \subseteq 1..seq
  <2>1. outlived \subseteq 1..seq
    BY <1>1 DEF Copies
  <2>2. CASE Fetching
    <3>1. seq \in 1..seq
      <4>1. seq # 0
        BY <1>1, <2>2 DEF Copies
      <4> QED BY <1>1, <4>1, Numbers
    <3> QED BY <1>1, <2>1, <2>2, <3>1 DEF Copies
  <2>3. CASE ~Fetching
    BY <1>1, <2>1, <2>3 DEF Copies
  <2> QED BY <2>1, <2>2, <2>3
<1>5. \A n \in DOMAIN reads : reads[n] \in [main : SUBSET Rows, wal : SUBSET Rows]
  BY <1>1 DEF Copies
<1>6. orphans \subseteq [name : 1..seq, step : {"copy main", "copy wal"}]
  BY <1>1, <1>4 DEF Copies
<1>7. failures \subseteq DOMAIN Check.expect \cup {"error", "exit_code", "integrity_check"}
  BY <1>1 DEF Judged, Verdict, IntegrityFailures
<1> QED BY <1>1, <1>2, <1>3, <1>4, <1>5, <1>6, <1>7 DEF TypeOK, Answered

\* What is not there is not a document, a number or a count.
LEMMA NilIs == Nil \notin 100..599 /\ (Nil > 0) = FALSE
  BY DEF Nil

\* Nor has a document that is not there a type of one.
LEMMA NoJSONIs == NoJSON.type = "no json"
  BY DEF NoJSON

\* Entries that are not there are none.
LEMMA MeetsNotEmpty ==
  Meets("not_empty") => (obs.entries > 0) = Check.expect["not_empty"]
  BY DEF Meets

\* What holds of an observation of nothing holds of nothing.
LEMMA MetByNothing ==
  ASSUME WellFormed(Check.expect), NEW key \in DOMAIN Check.expect,
         obs.status = Nil, obs.body = "", obs.stdout = "",
         obs.stderr \in (IF Check.kind = "exec" THEN DockersTexts ELSE {""}),
         obs.json = NoJSON, obs.rows = Nil, obs.value = NoValue, obs.exists = FALSE,
         obs.isDir = FALSE, obs.entries = Nil, obs.bytes = Nil, obs.count = Nil,
         \A k \in DOMAIN Check.expect : Meets(k),
         Check.kind = "exec" => obs.exit \in DockersExits
  PROVE  HoldsOfNothing(key)
<1> DEFINE want == Check.expect[key]
<1>1. key \in Keys /\ Meets(key)
  BY DEF WellFormed
<1>2. ~Found /\ Selected = NoValue /\ Counted = Nil
  <2>1. obs.json.type = "no json"
    BY NoJSONIs
  <2>2. ~Found
    BY <2>1 DEF Found
  <2> QED BY <2>2 DEF Selected, Counted
<1>3. ~Has("json_path")
  BY <1>2 DEF Meets, Has
<1>4. key # "json_path"
  BY <1>3 DEF Has
<1>5. key # "status"
  <2> SUFFICES ASSUME key = "status" PROVE FALSE
    OBVIOUS
  <2>1. want \in 100..599 /\ Nil = want
    BY <1>1 DEF Meets, WellFormed
  <2> HIDE DEF want
  <2> QED BY <2>1, NilIs, Zenon
<1>6. key # "status_in"
  <2> SUFFICES ASSUME key = "status_in" PROVE FALSE
    OBVIOUS
  <2>1. want \subseteq Int \ {Nil} /\ Nil \in want
    BY <1>1 DEF Meets, WellFormed
  <2> HIDE DEF want
  <2> QED BY <2>1
<1>7. /\ key \in {"body_matches", "stdout_matches"} => "" \in want
      /\ key = "body_not_matches" => "" \notin want
      /\ key = "stderr_matches" => obs.stderr \in want
  BY <1>1 DEF Meets, Matches, Subject
<1>8. key \notin {"scalar_int_min", "scalar_int_max"}
  BY <1>1, <1>2 DEF Meets, NoValue
<1>9. key \notin {"rows_min", "rows_max", "size_min", "glob_min_count"}
  BY <1>1, <1>2 DEF Meets, AtLeast
<1>10. key = "scalar_equals" => want = NoValue
  BY <1>1, <1>2 DEF Meets
<1>11. key \in {"exists", "is_dir", "not_empty"} => want = FALSE
  <2>1. key \in {"exists", "is_dir"} => want = FALSE
    BY <1>1 DEF Meets
  <2>2. key = "not_empty" => want = (Nil > 0)
    BY <1>1, MeetsNotEmpty, Zenon
  <2>3. key = "not_empty" => want = FALSE
    BY <2>2, NilIs, Zenon
  <2> QED BY <2>1, <2>3
<1>12. key = "exit_code" => (Check.kind = "exec" => want \in DockersExits)
  BY <1>1 DEF Meets
<1> QED BY <1>1, <1>3, <1>4, <1>5, <1>6, <1>7, <1>8, <1>9, <1>10, <1>11, <1>12
        DEF Keys, HoldsOfNothing

\* A pass without an answer is one of a command that the recipe wants killed, or
\* of expectations that hold of nothing.
LEMMA InvEarned == IInv => PassIsEarned
<1> SUFFICES ASSUME IInv, pc = "judged", failures = {}
             PROVE  /\ ~obs.error
                    /\ \/ obs.answered
                       \/ ExpectsTheKill
                       \/ /\ Check.kind = "exec" => Has("exit_code")
                          /\ \A key \in DOMAIN Check.expect : HoldsOfNothing(key)
  BY DEF PassIsEarned
<1>1. Places /\ Answered /\ Verdict = {}
  BY DEF IInv, Judged
<1>2. ~obs.error
  BY <1>1 DEF Verdict
<1>3. SUFFICES ASSUME ~obs.answered, ~ExpectsTheKill
               PROVE  /\ Check.kind = "exec" => Has("exit_code")
                      /\ \A key \in DOMAIN Check.expect : HoldsOfNothing(key)
  BY <1>2
<1>4. \/ Check.kind = "exec" /\ Unanswered(obs)
      \/ Check.kind = "postgres" /\ obs = Nothing
  BY <1>1, <1>2, <1>3 DEF Answered, Judging
<1>5. Check.kind # "integrity" /\ WellFormed(Check.expect)
  BY <1>1, <1>4, CheckIs DEF Places
<1>6. /\ \A k \in DOMAIN Check.expect : Meets(k)
      /\ Check.kind = "exec" /\ ~Has("exit_code") => obs.exit = 0
  BY <1>1, <1>2, <1>5 DEF Verdict, ExitExpected
<1>7. CASE Check.kind = "postgres" /\ obs = Nothing
  BY <1>5, <1>6, <1>7, MetByNothing DEF Nothing
<1>8. ASSUME Check.kind = "exec", NEW x \in DockersExits, NEW t \in DockersTexts, obs = NotRun(x, t)
      PROVE  /\ Check.kind = "exec" => Has("exit_code")
             /\ \A key \in DOMAIN Check.expect : HoldsOfNothing(key)
  <2>1. obs.exit = x /\ obs.stderr = t
    BY <1>8 DEF NotRun, Nothing
  <2>2. Has("exit_code")
    BY <1>6, <1>8, <2>1 DEF DockersExits
  <2>3. /\ obs.status = Nil /\ obs.body = "" /\ obs.stdout = "" /\ obs.json = NoJSON
        /\ obs.rows = Nil /\ obs.value = NoValue /\ obs.exists = FALSE /\ obs.isDir = FALSE
        /\ obs.entries = Nil /\ obs.bytes = Nil /\ obs.count = Nil
    BY <1>8 DEF NotRun, Nothing
  <2> QED BY <1>5, <1>6, <1>8, <2>1, <2>2, <2>3, MetByNothing
<1>9. ASSUME Check.kind = "exec", NEW t, NEW u, obs = Killed(t, u) PROVE FALSE
  <2>1. obs.exit = -1
    BY <1>9 DEF Killed, Nothing
  <2>2. Has("exit_code")
    BY <1>6, <1>9, <2>1
  <2>3. Check.expect.exit_code = -1
    BY <1>6, <1>9, <2>1, <2>2 DEF Has, Meets
  <2> QED BY <1>3, <1>9, <2>2, <2>3 DEF ExpectsTheKill
<1> QED BY <1>4, <1>7, <1>8, <1>9 DEF Unanswered

\* A file check looks where HostPath has it.
LEMMA InvLooks == IInv => LooksWhereTheServiceDoes
<1> SUFFICES ASSUME IInv, pc = "judged", Check.kind = "file", host # "none"
             PROVE  \E k \in DOMAIN Mounts :
                      /\ Mounts[k].host = host /\ Inside(Check.path, Mounts[k].at)
                      /\ \A m \in DOMAIN Mounts :
                           Inside(Check.path, Mounts[m].at) => Inside(Mounts[k].at, Mounts[m].at)
  BY DEF LooksWhereTheServiceDoes
<1>1. HostPath(Check.path) # 0 /\ host = Mounts[HostPath(Check.path)].host
  BY DEF IInv, TreeSeen, Judging
<1>2. IsSequence(Check.path)
  BY ChecksAssumption DEF IInv, Places, Check
<1> HIDE DEF HostPath
<1> QED BY <1>1, <1>2, DeepestDecides

\* What the walk saw of a depth was there at some time of it, if nothing more of
\* that depth is in it, and what was there all the time it saw.
LEMMA SeenOf ==
  ASSUME Stored, NEW S, NEW len,
         \A p \in S : Len(p) = len => p \in walk.ever,
         dropped \/ \A p \in walk.always : Len(p) = len => p \in S
  PROVE  Seen(Cardinality({p \in S : Len(p) = len}), len)
<1> DEFINE At(T) == {p \in T : Len(p) = len}
<1>1. IsFiniteSet(At(walk.ever)) /\ IsFiniteSet(At(S))
  <2>1. At(walk.ever) \subseteq Paths /\ At(S) \subseteq Paths
    BY DEF Stored
  <2> HIDE DEF At
  <2> QED BY <2>1, PathsHave, FS_Subset
<1>2. At(S) \subseteq At(walk.ever) /\ (dropped \/ At(walk.always) \subseteq At(S))
  OBVIOUS
<1> HIDE DEF At
<1>3. Cardinality(At(S)) <= Cardinality(At(walk.ever))
  BY <1>1, <1>2, FS_Subset
<1>4. dropped \/ Cardinality(At(S)) >= Cardinality(At(walk.always))
  <2> SUFFICES ASSUME At(walk.always) \subseteq At(S)
               PROVE  Cardinality(At(S)) >= Cardinality(At(walk.always))
    BY <1>2
  <2> QED BY <1>1, FS_Subset, FS_CardinalityType
<1> QED BY <1>3, <1>4 DEF At, Seen

\* What another mount hides is deeper than the entries.
LEMMA HiddenIsDeep ==
  ASSUME Stored, NEW p \in Hidden PROVE p \in Paths /\ Len(p) # 1
<1>1. PICK m \in Below \cap walk.ever : p \in Paths /\ Len(p) > Len(m)
  BY DEF Hidden
<1>2. m \in Paths
  BY <1>1 DEF Stored
<1>3. \A a \in Nat \ {0}, b \in Nat : b > a => b # 1
  OBVIOUS
<1>4. Len(m) \in Nat \ {0} /\ Len(p) \in Nat
  BY <1>1, <1>2, PathsHave
<1> QED BY <1>1, <1>3, <1>4, Zenon

\* The depth that find is given is enough for the pattern and for the entries.
LEMMA InvCounts == IInv => CountsTheTree
<1> DEFINE glob == GlobOf(Check)
           depth == GlobDepth(glob)
<1> SUFFICES ASSUME IInv, pc = "judged", Check.kind = "file", obs.answered
             PROVE  /\ (IF ~obs.exists THEN "nothing" ELSE IF obs.isDir THEN "dir" ELSE "file")
                         \in walk.kinds
                    /\ obs.isDir => Seen(obs.entries, 1)
                    /\ obs.exists /\ Has("glob") /\ Hidden = {} => Seen(obs.count, glob)
  BY DEF CountsTheTree
<1>1. Stored /\ ((obs = Absent /\ "nothing" \in walk.kinds) \/ Sight)
  <2>1. obs # Broken
    BY NothingSeen
  <2> QED BY <2>1 DEF IInv, TreeSeen, Judging
<1>2. CASE obs = Absent /\ "nothing" \in walk.kinds
  BY <1>2 DEF Absent, Nothing
<1>3. ASSUME NEW is \in walk.kinds \ {"nothing"}, NEW S \in SUBSET (walk.ever \cup Hidden),
             dropped \/ walk.always \ Hidden \subseteq S,
             obs = ObserveTree(is, List(S, depth), glob)
      PROVE  /\ (IF ~obs.exists THEN "nothing" ELSE IF obs.isDir THEN "dir" ELSE "file")
                  \in walk.kinds
             /\ obs.isDir => Seen(obs.entries, 1)
             /\ obs.exists /\ Has("glob") /\ Hidden = {} => Seen(obs.count, glob)
  <2>1. \A p \in S : p \in Paths /\ Len(p) \in Nat \ {0}
    BY <1>1, HiddenIsDeep, PathsHave DEF Stored
  <2>2. depth \in Nat /\ depth >= 1 /\ (Has("glob") => glob \in Nat /\ glob # Nil /\ depth >= glob)
    <3>1. WellFormed(Check.expect)
      BY CheckIs DEF IInv, Places
    <3>2. CASE Has("glob")
      <4>1. glob = Check.expect.glob /\ glob \in Nat
        BY <3>1, <3>2 DEF GlobOf, Has, WellFormed
      <4> HIDE DEF glob
      <4> QED BY <4>1 DEF GlobDepth, Nil
    <3>3. CASE ~Has("glob")
      <4>1. glob = Nil
        BY <3>3 DEF GlobOf, Has
      <4>2. depth = 1
        BY <4>1, Zenon DEF GlobDepth
      <4> HIDE DEF depth, glob
      <4> QED BY <3>3, <4>2
    <3> QED BY <3>2, <3>3
  <2> HIDE DEF depth, glob
  <2>3. \A len \in Nat : len <= depth =>
          {p \in List(S, depth) : Len(p) = len} = {p \in S : Len(p) = len}
    BY <2>1, <2>2 DEF List
  <2>4. /\ obs.exists = TRUE /\ obs.isDir = (is = "dir")
        /\ obs.isDir => obs.entries = Cardinality({p \in S : Len(p) = 1})
    <3>1. {p \in List(S, depth) : Len(p) = 1} = {p \in S : Len(p) = 1}
      BY <2>2, <2>3
    <3> QED BY <1>3, <3>1 DEF ObserveTree, Nothing
  <2>5. Has("glob") => obs.count = Cardinality({p \in S : Len(p) = glob})
    <3> SUFFICES ASSUME Has("glob") PROVE obs.count = Cardinality({p \in S : Len(p) = glob})
      OBVIOUS
    <3>1. {p \in List(S, depth) : Len(p) = glob} = {p \in S : Len(p) = glob} /\ glob # Nil
      BY <2>2, <2>3
    <3> QED BY <1>3, <3>1 DEF ObserveTree, Nothing
  <2>6. Seen(Cardinality({p \in S : Len(p) = 1}), 1)
    <3>1. \A p \in S : Len(p) = 1 => p \in walk.ever
      BY <1>1, HiddenIsDeep
    <3>2. dropped \/ \A p \in walk.always : Len(p) = 1 => p \in S
      BY <1>1, <1>3, HiddenIsDeep
    <3> QED BY <1>1, <3>1, <3>2, SeenOf
  <2>7. Hidden = {} => Seen(Cardinality({p \in S : Len(p) = glob}), glob)
    BY <1>1, <1>3, SeenOf
  <2>8. (IF ~obs.exists THEN "nothing" ELSE IF obs.isDir THEN "dir" ELSE "file") \in walk.kinds
    BY <1>1, <1>3, <2>4 DEF Stored
  <2> QED BY <2>4, <2>5, <2>6, <2>7, <2>8
<1> QED BY <1>1, <1>2, <1>3 DEF Sight

\* There are finitely many rows.
LEMMA RowsAreFinite ==
  ASSUME NEW S \in SUBSET Rows PROVE IsFiniteSet(S) /\ Cardinality(S) \in Nat
<1>1. IsFiniteSet(Rows)
  BY ConstantsAssumption, FS_Interval DEF Rows
<1> QED BY <1>1, FS_Subset, FS_CardinalityType

\* A set of rows that holds another is not smaller.
LEMMA MoreRows ==
  ASSUME NEW S \in SUBSET Rows, NEW T \in SUBSET S PROVE Cardinality(T) <= Cardinality(S)
  BY RowsAreFinite, FS_Subset

\* A query reads what was there and is there still.
LEMMA InvReads == IInv => QueryReadsTheFile
<1> SUFFICES ASSUME IInv, pc = "judged", obs.answered, ~torn PROVE
      /\ Check.kind = "sqlite" =>
           obs.value.n \in Cardinality(before)..Cardinality(main \cup wal)
      /\ Check.kind = "integrity" => (failures = {} <=> dbFile = "sound")
  BY DEF QueryReadsTheFile
<1>1. CASE Check.kind = "sqlite"
  <2>1. PICK rows \in SUBSET (main \cup wal) :
          obs.value = Number(Cardinality(rows)) /\ before \subseteq rows
    BY <1>1 DEF IInv, RowsSeen, Judging
  <2>2. obs.value.n = Cardinality(rows)
    BY <2>1 DEF Number
  <2>3. main \cup wal \in SUBSET Rows /\ rows \in SUBSET Rows /\ before \in SUBSET Rows
    BY <2>1 DEF IInv, Stored
  <2>4. Cardinality(rows) <= Cardinality(main \cup wal)
    BY <2>3, MoreRows
  <2>5. Cardinality(before) <= Cardinality(rows)
    BY <2>1, <2>3, MoreRows
  <2>6. /\ Cardinality(rows) \in Nat /\ Cardinality(before) \in Nat
        /\ Cardinality(main \cup wal) \in Nat
    BY <2>3, RowsAreFinite
  <2> QED BY <1>1, <2>2, <2>4, <2>5, <2>6
<1>2. CASE Check.kind = "integrity"
  <2>1. /\ ~obs.error
        /\ obs.value = Ok => dbFile = "sound"
        /\ obs.value # Ok => dbFile # "sound"
    BY <1>2 DEF IInv, RowsSeen, Judging
  <2>2. failures = IntegrityFailures
    BY <1>2, <2>1 DEF IInv, Judged, Verdict
  <2> QED BY <1>2, <2>1, <2>2 DEF IntegrityFailures
<1> QED BY <1>1, <1>2

\* All copies but those of an orphan are gone when their check is judged.
LEMMA InvNoCopy == IInv => NoCopyIsLeft
  BY DEF IInv, Copies, Fetching, NoCopyIsLeft

-----------------------------------------------------------------------------
(* The theorems.                                                           *)

\* TypeOK holds for every recipe that the schema allows.
THEOREM TypeCorrect == Spec => []TypeOK
  BY InvHolds, InvTypeOK, PTL

\* check.Evaluate passes no check that has no answer, but for an exec check that
\* asks for the exit code of a killed command, and for expectations that every one
\* hold of nothing or of docker's own exit code and words.
THEOREM PassesAreEarned == Spec => []PassIsEarned
  BY InvHolds, InvEarned, PTL

\* A file check looks through the deepest mount; it counts what was there during
\* its walk, whole but for errors that the walk drops and, below the entries, for
\* what other mounts cover.  An sql check reads no less than was committed when it
\* began and no more than is committed now, and integrity_check tells the state of
\* the file, unless the file was written while it was copied or its log was
\* emptied into it between the copies.
THEOREM ChecksAreTrue == Spec => []ChecksSeeTheApplication
<1>1. IInv => ChecksSeeTheApplication
  BY InvLooks, InvCounts, InvReads DEF ChecksSeeTheApplication
<1> QED BY <1>1, InvHolds, PTL

\* Reader.Fetch leaves no copy, however it ends, but under a container that
\* outlived its command.
THEOREM CopiesAreRemoved == Spec => []NoCopyIsLeft
  BY InvHolds, InvNoCopy, PTL
=============================================================================
