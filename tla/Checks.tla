-------------------------------- MODULE Checks --------------------------------
(***************************************************************************)
(* The checks of a drill: each is run once, in order, while the restored   *)
(* application is running, and what it saw is judged by the expect         *)
(* vocabulary.  PRAGMA integrity_check, which reads the workspace in the   *)
(* same way, comes first.                                                  *)
(*                                                                         *)
(* Nothing stops the application while a check looks.  A SQLite file is    *)
(* read through a copy that a helper container makes in several steps of a *)
(* database that is being written, a tree through a walk over files that   *)
(* come and go, from outside of the service's container.  A docker command *)
(* that its timeout kills exits with -1 and is no error of the call; the   *)
(* container that it started may outlive it.                               *)
(***************************************************************************)
EXTENDS Integers, Sequences, FiniteSets

CONSTANTS
  Checks,   \* [kind, expect, ...]: expect has a field for every key that is set,
            \* which an empty list, pattern or path is not
  Mounts,   \* the mounts of the service that the file checks name, [at, host]
  Trees,    \* what a service may see at a path, [is, has]: has are the paths below it
  MaxRows   \* rows of the application's database

\* A sequence, of whatever it consists of.
IsSequence(s) == s \in Seq({s[k] : k \in DOMAIN s})

Nil == -2   \* no number

Kinds == {"http", "exec", "postgres", "sqlite", "integrity", "file"}

Keys ==
  {"status", "status_in", "body_matches", "body_not_matches", "json_path",
   "json_path_equals", "json_path_int_min", "json_path_len_min", "exit_code",
   "stdout_matches", "stderr_matches", "scalar_equals", "scalar_int_min",
   "scalar_int_max", "rows_min", "rows_max", "exists", "is_dir", "not_empty",
   "size_min", "glob", "glob_min_count"}

Texts == {"", "hit", "miss"}
Patterns == {"body_matches", "body_not_matches", "stdout_matches", "stderr_matches"}

\* What the schema asks of expect, and no more: any integer will do for an exit
\* code.  A pattern is the set of texts that it matches, none of them if it does
\* not compile, and a glob the number of its segments, 0 for "/".
WellFormed(expect) ==
  LET set == DOMAIN expect IN
  /\ set \subseteq Keys
  /\ \A key \in set \cap Patterns : expect[key] \subseteq Texts
  /\ "glob" \in set => expect.glob \in Nat
  /\ "status" \in set => expect.status \in 100..599
  /\ "status_in" \in set => expect.status_in # {} /\ expect.status_in \subseteq Int \ {Nil}
  /\ "exit_code" \in set => expect.exit_code \in Int \ {Nil}

\* The paths that there may be.
Paths == UNION {t.has : t \in Trees}

ASSUME ConstantsAssumption ==
  /\ MaxRows \in Nat
  /\ IsSequence(Mounts)
  /\ \A k \in DOMAIN Mounts : IsSequence(Mounts[k].at) /\ Len(Mounts[k].at) > 0
  /\ \A t \in Trees :
       /\ t \in [is : {"nothing", "file", "dir"}, has : {t.has}]
       /\ t.has # {} => t.is = "dir"
       /\ \A p \in t.has : IsSequence(p) /\ Len(p) > 0
  /\ IsFiniteSet(Paths)

ASSUME ChecksAssumption ==
  /\ IsSequence(Checks) /\ Checks # <<>>
  /\ \A k \in DOMAIN Checks :
       LET c == Checks[k] IN
       /\ c.kind \in Kinds /\ WellFormed(c.expect)
       /\ c.kind \in {"sqlite", "integrity"} => c.inside \in BOOLEAN
       /\ c.kind = "file" => IsSequence(c.path)

VARIABLES
  i, pc,        \* the check at hand, and the next step
  dbFile, mode, \* what is at the path of the sqlite checks, and its journal mode
  main, wal,    \* the rows committed to the database file and to its write-ahead log
  hot,          \* rows that a rollback-journal transaction is writing into the file
  tree,         \* what the service sees at the file checks' path
  seq, reads,   \* Reader.seq, and the copies under ReadsDir
  orphans,      \* containers that outlived their command: copy, and next step
  obs,          \* the observation
  failures,     \* the keys of expect that are not met
  host,         \* the mount that the file check looks through
  torn,         \* the file was written while it, or its log after it, was copied
  before,       \* observer: the rows when the check began
  walk,         \* observer: what there was at the path at any time of the walk,
                \* and what was below it at some time and all the time
  dropped,      \* observer: an error of the walk, which the script drops
  outlived      \* observer: the copies whose container outlived its command

database == <<dbFile, mode, main, wal, hot>>
app == <<database, tree>>
reader == <<seq, reads, orphans, outlived>>
judgement == <<obs, failures, host>>
observers == <<torn, before, walk, dropped>>
vars == <<i, pc, app, reader, judgement, observers>>

NoJSON == [type |-> "no json", n |-> 0]
NoValue == [is |-> "empty", n |-> 0]

\* answered is an observer: the question was put, and got an answer.
Nothing ==
  [error |-> FALSE, answered |-> FALSE, status |-> Nil, body |-> "", json |-> NoJSON,
   exit |-> Nil, stdout |-> "", stderr |-> "", rows |-> Nil, value |-> NoValue,
   exists |-> FALSE, isDir |-> FALSE, entries |-> Nil, bytes |-> Nil, count |-> Nil]
Broken == [Nothing EXCEPT !.error = TRUE]

Documents == {NoJSON, [type |-> "no path", n |-> 0]}
              \cup [type : {"string", "numeral", "number", "array"}, n : 0..2]
Number(n) == [is |-> "number", n |-> n]
Word(n) == [is |-> "word", n |-> n]
Ok == Word(0)   \* of PRAGMA integrity_check

Check == Checks[i]
Has(key) == key \in DOMAIN Check.expect
NoCopy == [main |-> {}, wal |-> {}]
NoWalk == [kinds |-> {}, ever |-> {}, always |-> {}]
Rows == 1..MaxRows

\* The backup may have been taken in the middle of a transaction, whose journal
\* came with it.
Init ==
  /\ i = 1 /\ pc = "run"
  /\ dbFile \in {"sound", "malformed", "absent", "dir"}
  /\ mode \in {"wal", "rollback"}
  /\ main \in SUBSET Rows /\ wal = {} /\ hot \in SUBSET Rows /\ main \cap hot = {}
  /\ dbFile # "sound" => main = {}
  /\ dbFile # "sound" \/ mode # "rollback" => hot = {}
  /\ tree \in Trees
  /\ seq = 0 /\ reads = [n \in {} |-> NoCopy] /\ orphans = {} /\ outlived = {}
  /\ obs = Nothing /\ failures = {} /\ host = "none"
  /\ torn = FALSE /\ before = {} /\ walk = NoWalk /\ dropped = FALSE

-----------------------------------------------------------------------------
(* The application, which nothing stops from writing.                      *)

\* Into the log.
AppCommits ==
  /\ pc # "done" /\ dbFile = "sound" /\ mode = "wal"
  /\ \E row \in Rows \ (main \cup wal) : wal' = wal \cup {row}
  /\ UNCHANGED <<i, pc, dbFile, mode, main, hot, tree, reader, judgement, observers>>

\* Or closes the database: the log goes into the file.
AppCheckpoints ==
  /\ pc # "done" /\ wal # {}
  /\ main' = main \cup wal /\ wal' = {}
  /\ torn' = (torn \/ pc \in {"copying main", "copy wal"})
  /\ UNCHANGED <<i, pc, dbFile, mode, hot, tree, reader, judgement, before, walk, dropped>>

\* Without a log, a transaction writes into the file itself: what it overwrites
\* is in the -journal, until it ends.
AppBegins ==
  /\ pc # "done" /\ dbFile = "sound" /\ mode = "rollback" /\ hot = {}
  /\ \E row \in Rows \ main : hot' = {row}
  /\ torn' = (torn \/ pc = "copying main")
  /\ UNCHANGED <<i, pc, dbFile, mode, main, wal, tree, reader, judgement, before, walk, dropped>>

\* It commits, or is rolled back: the next to open the database does so, too.
AppEnds ==
  /\ pc # "done" /\ hot # {}
  /\ main' \in {main, main \cup hot} /\ hot' = {}
  /\ UNCHANGED <<i, pc, dbFile, mode, wal, tree, reader, judgement, observers>>

AppWritesFiles ==
  /\ pc # "done" /\ Check.kind = "file"
  /\ tree' \in Trees \ {tree}
  /\ walk' = IF pc # "walk" THEN walk
             ELSE [kinds |-> walk.kinds \cup {tree'.is},
                   ever |-> walk.ever \cup tree'.has, always |-> walk.always \cap tree'.has]
  /\ UNCHANGED <<i, pc, database, reader, judgement, torn, before, dropped>>

-----------------------------------------------------------------------------
(* check.Run: what the four kinds of check observe.                        *)

\* A response with a status, or else an error: no marker, or no status.
Response(status, body, json) ==
  [Nothing EXCEPT !.answered = TRUE, !.status = status, !.body = body, !.json = json]

HTTP ==
  {Broken} \cup {Response(s, b, j) : s \in {200, 500}, b \in Texts, j \in Documents}

\* The command's exit code - or docker's own, with what docker says on stderr,
\* when the service is not running or has no such command, or -1, when the
\* timeout killed it with whatever it had printed.
Exited(code, out, err) ==
  [Nothing EXCEPT !.answered = TRUE, !.exit = code, !.stdout = out, !.stderr = err]
NotRun(code, err) == [Nothing EXCEPT !.exit = code, !.stderr = err]
Killed(out, err) == [Nothing EXCEPT !.exit = -1, !.stdout = out, !.stderr = err]

DockersExits == {1, 126, 127}
DockersTexts == Texts \ {""}

Exec ==
  {Broken} \cup {NotRun(x, t) : x \in DockersExits, t \in DockersTexts}
  \cup {Killed(t, u) : t \in Texts, u \in Texts}
  \cup {Exited(x, t, u) : x \in 0..1, t \in Texts, u \in Texts}

RowsObservation(n, value) ==
  [Nothing EXCEPT !.answered = TRUE, !.rows = n, !.value = IF n = 0 THEN NoValue ELSE value]

\* psql that fails is an error with the text it printed: none, if it was killed
\* before it printed any.
PostgresQuery ==
  {Broken, Nothing} \cup {RowsObservation(n, Number(v)) : n \in 0..2, v \in 0..2}

Inside(p, q) == Len(q) <= Len(p) /\ SubSeq(p, 1, Len(q)) = q

\* The mounts in recipe order, the longest path so far; 0: none covers it.
HostPath(path) ==
  LET best[k \in 0..Len(Mounts)] ==
        IF k = 0 THEN 0
        ELSE IF /\ Inside(path, Mounts[k].at)
                /\ best[k-1] = 0 \/ Len(Mounts[k].at) > Len(Mounts[best[k-1]].at)
             THEN k ELSE best[k-1]
  IN  best[Len(Mounts)]

\* The pattern without the slashes around it may be empty.
GlobDepth(glob) == IF glob \in {0, Nil} THEN 1 ELSE glob

GlobOf(c) == IF "glob" \in DOMAIN c.expect THEN c.expect.glob ELSE Nil

\* Where, below the path, the service sees another mount.
Below ==
  LET deeper == {k \in DOMAIN Mounts : /\ Inside(Mounts[k].at, Check.path)
                                       /\ Len(Mounts[k].at) > Len(Check.path)}
  IN  {SubSeq(Mounts[k].at, Len(Check.path) + 1, Len(Mounts[k].at)) : k \in deeper}

\* What the service sees there is not what the helper lists: it has the outer
\* input as it was restored, whatever that has there.
Hidden == {p \in Paths : \E m \in Below \cap walk.ever : Inside(p, m) /\ Len(p) > Len(m)}

\* Mutant of List: find looks no further than the entries.
List_Flat(S, depth) == {p \in S : Len(p) <= 1}

\* Reader.List: of what find sees, what it sees down to that depth.
List(S, depth) == {p \in S : Len(p) <= depth}

\* path.Match stays within the segments of the pattern, and entries are those
\* of one segment.
ObserveTree(is, S, glob) ==
  LET Entries(len) == Cardinality({p \in S : Len(p) = len}) IN
  [Nothing EXCEPT
     !.answered = TRUE, !.exists = TRUE, !.isDir = (is = "dir"),
     !.bytes = IF is = "file" THEN 1 ELSE Nil,
     !.entries = IF is = "dir" THEN Entries(1) ELSE Nil,
     !.count = IF glob = Nil THEN Nil ELSE Entries(glob)]
Absent == [Nothing EXCEPT !.answered = TRUE]

\* One command, one answer.
RunCheck ==
  /\ pc = "run" /\ Check.kind \in {"http", "exec", "postgres"}
  /\ obs' \in CASE Check.kind = "http" -> HTTP
                [] Check.kind = "exec" -> Exec
                [] Check.kind = "postgres" -> PostgresQuery
  /\ pc' = "judge"
  /\ UNCHANGED <<i, app, reader, failures, host, observers>>

\* File: HostPath, and the script's test whether anything is there.
RunFileCheck ==
  /\ pc = "run" /\ Check.kind = "file"
  /\ walk' = [kinds |-> {tree.is}, ever |-> tree.has, always |-> tree.has]
  /\ IF HostPath(Check.path) = 0
     THEN host' = "none" /\ obs' = Broken /\ pc' = "judge"
     ELSE /\ host' = Mounts[HostPath(Check.path)].host
          /\ \/ tree.is = "nothing" /\ obs' = Absent /\ pc' = "judge"
             \/ tree.is # "nothing" /\ pc' = "walk" /\ UNCHANGED obs
             \/ obs' = Broken /\ pc' = "judge"
  /\ UNCHANGED <<i, app, reader, failures, torn, before, dropped>>

\* find and stat, path by path, and observeTree: a path that comes or goes
\* meanwhile may be seen or not, and what errs is left out.
Walk ==
  /\ pc = "walk" /\ pc' = "judge"
  /\ dropped' \in BOOLEAN
  /\ \/ obs' = Broken
     \/ \E is \in walk.kinds \ {"nothing"}, S \in SUBSET (walk.ever \cup Hidden) :
          /\ dropped' \/ walk.always \ Hidden \subseteq S
          /\ LET glob == GlobOf(Check)
             IN  obs' = ObserveTree(is, List(S, GlobDepth(glob)), glob)
  /\ UNCHANGED <<i, app, reader, failures, host, torn, before, walk>>

-----------------------------------------------------------------------------
(* Reader.Fetch and sqlite.Query, for sql checks and PRAGMA integrity_check. *)

Observe(o) == obs' = o /\ pc' = "judge"

\* Mutant of NextName: the number before this one.
NextName_Old == seq
\* seq.Add(1)
NextName == seq + 1

\* MkdirAll, and nothing is in it.
Started ==
  [n \in DOMAIN reads \cup {NextName} |-> IF n \in DOMAIN reads THEN reads[n] ELSE NoCopy]

\* A path outside the inputs is refused, and the directory may not be made.
BeginFetch ==
  /\ pc = "run" /\ Check.kind \in {"sqlite", "integrity"}
  /\ before' = main \cup wal /\ torn' = FALSE
  /\ \/ /\ Check.inside
        /\ seq' = NextName
        /\ reads' = Started
        /\ pc' = "copy main"
        /\ UNCHANGED obs
     \/ /\ Observe(Broken)
        /\ seq' = IF Check.inside THEN NextName ELSE seq
        /\ UNCHANGED reads
  /\ UNCHANGED <<i, app, orphans, outlived, failures, host, walk, dropped>>

\* RemoveAll, which a container that still copies may defeat.
Removed == [n \in DOMAIN reads \ {seq} |-> reads[n]]

\* The script: exit 3 without a file, exit 4 for a directory, then cp begins.
BeginCopy ==
  /\ pc = "copy main"
  /\ IF dbFile \in {"sound", "malformed"}
     THEN torn' = (hot # {}) /\ pc' = "copying main" /\ UNCHANGED <<reads, obs>>
     ELSE reads' = Removed /\ Observe(Broken) /\ UNCHANGED torn
  /\ UNCHANGED <<i, app, seq, orphans, outlived, failures, host, before, walk, dropped>>

\* It ends: what it copied is what the file holds, unless that was written.
CopyMain ==
  /\ pc = "copying main"
  /\ reads' = [reads EXCEPT ![seq].main = main]
  /\ pc' = "copy wal"
  /\ UNCHANGED <<i, app, seq, orphans, outlived, judgement, observers>>

\* Mutant of CopySidecars: the log does not travel with the file.
CopySidecars_None == reads' = reads
\* -wal and -shm, of which the second is rebuilt; a -journal stays behind.  A
\* commit that is only half in the copy of the log is not read.
CopySidecars == reads' = [reads EXCEPT ![seq].wal = wal]

CopyWal ==
  /\ pc = "copy wal"
  /\ CopySidecars
  /\ pc' = "query"
  /\ UNCHANGED <<i, app, seq, orphans, outlived, judgement, observers>>

\* Mutant of AfterFailure: the copy is left to the workspace.
AfterFailure_Left == reads' = reads
AfterFailure == reads' = Removed

\* A copy that fails half way, or whose command the timeout kills; in that
\* case its container may go on, and keep the directory.
CopyFails ==
  /\ pc \in {"copy main", "copying main", "copy wal"}
  /\ \/ AfterFailure /\ UNCHANGED <<orphans, outlived>>
     \/ /\ orphans' = orphans \cup {[name |-> seq, step |-> IF pc = "copy wal" THEN pc ELSE "copy main"]}
        /\ outlived' = outlived \cup {seq}
        /\ AfterFailure \/ UNCHANGED reads
  /\ Observe(Broken)
  /\ UNCHANGED <<i, app, seq, failures, host, observers>>

\* A container whose command is gone does what is left of the script: the
\* first copy fails that finds no directory.
OrphanGoesOn ==
  /\ \E o \in orphans :
       /\ orphans' = (orphans \ {o}) \cup
            (IF o.name \in DOMAIN reads /\ o.step = "copy main"
             THEN {[o EXCEPT !.step = "copy wal"]} ELSE {})
       /\ reads' = IF o.name \notin DOMAIN reads THEN reads
                   ELSE IF o.step = "copy main" THEN [reads EXCEPT ![o.name].main = main]
                   ELSE [reads EXCEPT ![o.name].wal = wal]
  /\ UNCHANGED <<i, pc, app, seq, outlived, judgement, observers>>

\* The answer is the copy's, whatever has become of the file: rows are read
\* as `SELECT count(*)` reads them.  A torn copy may have pages of two states:
\* rows are missed or read twice, or it is malformed.
Answers ==
  IF Check.kind = "integrity"
  THEN {a \in {Ok, Word(1)} : IF a = Ok THEN dbFile = "sound" ELSE dbFile # "sound" \/ torn}
  ELSE IF torn THEN {Number(n) : n \in 0..(2 * MaxRows)}
  ELSE {Number(Cardinality(reads[seq].main \cup reads[seq].wal))}

\* done() removes the copy.
Query ==
  /\ pc = "query"
  /\ \E o \in {Broken} \cup {RowsObservation(1, a) : a \in Answers} : Observe(o)
  /\ reads' = Removed
  /\ UNCHANGED <<i, app, seq, orphans, outlived, failures, host, observers>>

-----------------------------------------------------------------------------
(* check.Evaluate.                                                         *)

Found == Has("json_path") /\ obs.json.type \notin {"no json", "no path"}

\* json_path puts what it selected into the observation, and so does a length.
Selected ==
  CASE ~Found -> obs.value
    [] Found /\ obs.json.type \in {"number", "numeral"} -> Number(obs.json.n)
    [] Found /\ obs.json.type \in {"string", "array"} -> Word(obs.json.n)
HasLength == obs.json.type # "number"
Counted == IF Has("json_path_len_min") /\ Found /\ HasLength THEN obs.json.n ELSE obs.count

Subject == IF Check.kind = "exec" THEN obs.stdout ELSE obs.body

Matches(pattern, text) == text \in pattern

AtLeast(got, min) == got # Nil /\ got >= min

\* Is a key met that Evaluate looks at?  json_path_* are looked at only where
\* the path was found, exit_code only for exec, glob not at all.
Meets(key) ==
  LET want == Check.expect[key] IN
  CASE key = "status"           -> obs.status = want
    [] key = "status_in"        -> obs.status \in want
    [] key = "body_matches"     -> Matches(want, Subject)
    [] key = "body_not_matches" -> ~Matches(want, Subject)
    [] key = "json_path"        -> Found
    [] key = "json_path_equals" -> Found => obs.json.type \in {"string", "numeral"} /\ obs.json.n = want
    [] key = "json_path_int_min" -> Found => obs.json.type \in {"number", "numeral"} /\ obs.json.n >= want
    [] key = "json_path_len_min" -> Found => HasLength /\ obs.json.n >= want
    [] key = "exit_code"        -> Check.kind = "exec" => obs.exit = want
    [] key = "stdout_matches"   -> Matches(want, obs.stdout)
    [] key = "stderr_matches"   -> Matches(want, obs.stderr)
    [] key = "scalar_equals"    -> Selected = want
    [] key = "scalar_int_min"   -> Selected.is = "number" /\ Selected.n >= want
    [] key = "scalar_int_max"   -> Selected.is = "number" /\ Selected.n <= want
    [] key = "rows_min"         -> AtLeast(obs.rows, want)
    [] key = "rows_max"         -> obs.rows # Nil /\ obs.rows <= want
    [] key = "exists"           -> obs.exists = want
    [] key = "is_dir"           -> obs.isDir = want
    [] key = "not_empty"        -> (obs.entries > 0) = want
    [] key = "size_min"         -> AtLeast(obs.bytes, want)
    [] key = "glob"             -> TRUE
    [] key = "glob_min_count"   -> AtLeast(Counted, want)

\* Mutant of ExitExpected: a zero exit is expected only where it is asked for.
ExitExpected_Asked == TRUE
\* An exec check without exit_code expects 0.
ExitExpected == Check.kind = "exec" /\ ~Has("exit_code") => obs.exit = 0

\* loader.IntegrityCheck.
IntegrityFailures == IF obs.value = Ok THEN {} ELSE {"integrity_check"}

Evaluate ==
  /\ pc = "judge"
  /\ failures' = IF obs.error THEN {"error"}
                 ELSE IF Check.kind = "integrity" THEN IntegrityFailures
                 ELSE {key \in DOMAIN Check.expect : ~Meets(key)}
                      \cup (IF ExitExpected THEN {} ELSE {"exit_code"})
  /\ pc' = "judged"
  /\ UNCHANGED <<i, app, reader, obs, host, observers>>

\* Every check runs, also after one that failed; a malformed database ends the run.
NextCheck ==
  /\ pc = "judged"
  /\ IF i = Len(Checks) \/ (Check.kind = "integrity" /\ failures # {})
     THEN pc' = "done" /\ UNCHANGED i
     ELSE pc' = "run" /\ i' = i + 1
  /\ obs' = Nothing /\ failures' = {} /\ host' = "none"
  /\ torn' = FALSE /\ before' = {} /\ walk' = NoWalk /\ dropped' = FALSE
  /\ UNCHANGED <<app, reader>>

Done == pc = "done" /\ orphans = {} /\ UNCHANGED vars

Next ==
  \/ AppCommits \/ AppCheckpoints \/ AppBegins \/ AppEnds \/ AppWritesFiles
  \/ RunCheck \/ RunFileCheck \/ Walk
  \/ BeginFetch \/ BeginCopy \/ CopyMain \/ CopyWal \/ CopyFails \/ OrphanGoesOn \/ Query
  \/ Evaluate \/ NextCheck
  \/ Done

Spec == Init /\ [][Next]_vars

-----------------------------------------------------------------------------

TypeOK ==
  /\ i \in DOMAIN Checks
  /\ pc \in {"run", "walk", "copy main", "copying main", "copy wal", "query", "judge", "judged", "done"}
  /\ main \subseteq Rows /\ wal \subseteq Rows /\ hot \subseteq Rows
  /\ walk.ever \subseteq Paths /\ walk.always \subseteq walk.ever
  /\ tree \in Trees /\ seq \in 0..Len(Checks)
  /\ DOMAIN reads \subseteq 1..seq
  /\ \A n \in DOMAIN reads : reads[n] \in [main : SUBSET Rows, wal : SUBSET Rows]
  /\ orphans \subseteq [name : 1..seq, step : {"copy main", "copy wal"}]
  /\ outlived \subseteq 1..seq
  /\ DOMAIN obs = DOMAIN Nothing
  /\ failures \subseteq DOMAIN Check.expect \cup {"error", "exit_code", "integrity_check"}

\* Expectations that hold where there is no answer: of no text and no value, and
\* of the exit codes and the texts that are docker's own.
HoldsOfNothing(key) ==
  LET want == Check.expect[key] IN
  \/ key = "glob"
  \/ key \in {"body_matches", "stdout_matches"} /\ "" \in want
  \/ key = "body_not_matches" /\ "" \notin want
  \/ key = "stderr_matches" /\ want \cap (IF Check.kind = "exec" THEN DockersTexts ELSE {""}) # {}
  \/ key \in {"json_path_equals", "json_path_int_min", "json_path_len_min"} /\ ~Has("json_path")
  \/ key = "scalar_equals" /\ want = NoValue
  \/ key = "exit_code" /\ (Check.kind = "exec" => want \in DockersExits)
  \/ key \in {"exists", "is_dir", "not_empty"} /\ want = FALSE

\* The recipe asks for the exit code that Go gives a command it has killed.
ExpectsTheKill ==
  Check.kind = "exec" /\ Has("exit_code") /\ Check.expect.exit_code = -1

\* A check passes on an answer.  On a question that could not be put it passes
\* only if the recipe asks for the exit code of a killed command, or if every one
\* of its expectations holds where there is no answer; an exec check among them
\* says so of its exit code, for without exit_code it expects 0.
PassIsEarned ==
  pc = "judged" /\ failures = {} =>
    /\ ~obs.error
    /\ \/ obs.answered
       \/ ExpectsTheKill
       \/ /\ Check.kind = "exec" => Has("exit_code")
          /\ \A key \in DOMAIN Check.expect : HoldsOfNothing(key)

\* The mount that decides what the service sees at a path is the deepest.
LooksWhereTheServiceDoes ==
  pc = "judged" /\ Check.kind = "file" /\ host # "none" =>
    \E k \in DOMAIN Mounts :
      /\ Mounts[k].host = host /\ Inside(Check.path, Mounts[k].at)
      /\ \A m \in DOMAIN Mounts :
           Inside(Check.path, Mounts[m].at) => Inside(Mounts[k].at, Mounts[m].at)

\* No more of a depth than there ever was during the walk, and no less than
\* there was all the time, unless an error was dropped.
Seen(n, len) ==
  LET At(S) == Cardinality({p \in S : Len(p) = len}) IN
  n <= At(walk.ever) /\ (dropped \/ n >= At(walk.always))

\* What a file check finds at the path was there while it looked, and so were the
\* entries it counts and the matches of its pattern, however deep; matches as
\* far as no other mount of the service covers a part of the tree.
CountsTheTree ==
  pc = "judged" /\ Check.kind = "file" /\ obs.answered =>
    /\ (IF ~obs.exists THEN "nothing" ELSE IF obs.isDir THEN "dir" ELSE "file") \in walk.kinds
    /\ obs.isDir => Seen(obs.entries, 1)
    /\ obs.exists /\ Has("glob") /\ Hidden = {} => Seen(obs.count, GlobOf(Check))

\* A query reads at least what was committed when its check began, and at most
\* what is committed now - not the copy of an earlier check, or parts of two -
\* and integrity_check tells the file's state, unless the file was written while
\* it was copied, or its log was emptied into it before that was copied, too.
QueryReadsTheFile ==
  pc = "judged" /\ obs.answered /\ ~torn =>
    /\ Check.kind = "sqlite" => obs.value.n \in Cardinality(before)..Cardinality(main \cup wal)
    /\ Check.kind = "integrity" => (failures = {} <=> dbFile = "sound")

\* What a check observes is what the application had at that path while the check
\* ran, with the exceptions that its parts name: errors that the walk drops, what
\* other mounts cover, and files that are written as they are copied.
ChecksSeeTheApplication ==
  LooksWhereTheServiceDoes /\ CountsTheTree /\ QueryReadsTheFile

\* No copy outlives its check, however the copying ended: only a container
\* that outlived its command can leave one, of which nothing will ever read.
NoCopyIsLeft ==
  pc \in {"judge", "judged", "done"} =>
    DOMAIN reads \subseteq outlived

-----------------------------------------------------------------------------
(* What the repository says of a check and a check does not do.            *)

\* reader.go, Fetch: "A SQLite database's -wal and -shm sidecars travel with
\* it, so the copy reads as the original would have."
CopyReadsAsTheOriginal ==
  pc = "judged" /\ obs.answered /\ Check.kind = "sqlite" =>
    obs.value.n >= Cardinality(before)
=============================================================================
