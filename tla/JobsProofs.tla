------------------------------ MODULE JobsProofs ------------------------------
(***************************************************************************)
(* Theorems about Jobs, for every set of command lines, configs and        *)
(* snapshots.                                                              *)
(***************************************************************************)
EXTENDS Jobs, SelectionProofs, FiniteSetTheorems

(***************************************************************************)
(* What the drills may be started with, as a function of the command line  *)
(* and of the config: everything that is said of a drill follows from it.  *)
(***************************************************************************)

\* A config that was read and found valid, and lies somewhere.
Loaded ==
  /\ config \in Contents /\ config.is = "config" /\ Decodes(config) /\ Validate(config)
  /\ place \in 1..Places

\* What resolving may give.
Asked ==
  IF command.modes = {"recipe"} THEN {FlagOptions}
  ELSE IF command.modes = {"test"} THEN {DrillA, DrillB}
  ELSE IF Loaded THEN {WithFlags(ConfigJob(t)) : t \in {t \in Targets : Resolvable(t)}}
  ELSE {}

\* The targets that the command line means, in their order.
Wanted ==
  IF command.modes # {"all"} THEN <<command.target>> ELSE IF Loaded THEN EnabledTargets ELSE <<>>

FromFile == command.modes \in {{"target"}, {"all"}}

-----------------------------------------------------------------------------
(* The inductive invariant.                                                *)

\* The command line is given, and an editor leaves something at every place.
Given == command \in Commands /\ files \in [1..Places -> Contents]

\* Where the program is, it is for a reason.
Position ==
  /\ pc \in {"parse", "recipe", "test", "discover", "load", "select", "resolve", "run",
             "fetch", "refused", "done"}
  /\ place \in 0..Places
  /\ pc \notin {"parse", "refused"} => Flag("pull", "missing") \in Pulls
  /\ pc = "recipe" => command.modes = {"recipe"}
  /\ pc = "test" => command.modes = {"test"}
  /\ pc \in {"discover", "load", "select", "resolve"} => FromFile
  /\ pc = "load" => place \in 1..Places
  /\ pc \in {"select", "resolve"} => Loaded
  /\ pc \in {"run", "fetch", "done"} /\ FromFile => Loaded

\* What has been resolved has a place in Asked.
Resolved ==
  /\ pc \in {"parse", "recipe", "test", "discover", "load", "select"} => jobs = <<>>
  /\ jobs # <<>> =>
       /\ Flag("pull", "missing") \in Pulls
       /\ command.modes \in {{"recipe"}, {"test"}} \/ (FromFile /\ Loaded)
  /\ jobs \in Seq(Asked)
  /\ command.modes = {"test"} => jobs \in {<<>>, <<DrillA, DrillB>>, <<DrillA>>, <<DrillB>>}

\* The targets come one by one off the list of those wanted.
Progress ==
  /\ names # <<>> => FromFile
  /\ names \in Seq({Wanted[i] : i \in DOMAIN Wanted})
  /\ pc \notin {"resolve", "refused"} => names = <<>>
  /\ FromFile /\ pc \in {"resolve", "run", "fetch", "done"} =>
       /\ Wanted \in Seq({Wanted[i] : i \in DOMAIN Wanted})
       /\ Len(jobs) + Len(names) = Len(Wanted)
       /\ \A k \in 1..Len(jobs) : jobs[k].target = Wanted[k]
       /\ \A i \in 1..Len(names) : names[i] = Wanted[Len(jobs) + i]

\* The drills are those of the jobs, in their order.
Started ==
  /\ runs \in Seq({ApplyDefaults(o) : o \in Asked})
  /\ runs # <<>> => pc \in {"run", "fetch", "done"}
  /\ Len(runs) <= Len(jobs)
  /\ \A k \in 1..Len(runs) : runs[k] = ApplyDefaults(jobs[k])

\* What they fetched.
Fetched ==
  /\ fetched \in Seq([listed : SUBSET Snapshots, chosen : SUBSET Snapshots])
  /\ Len(fetched) = Len(runs) - (IF pc = "fetch" THEN 1 ELSE 0)
  /\ \A k \in 1..Len(fetched) :
       /\ \A s \in fetched[k].listed : Matches(s, runs[k])
       /\ fetched[k].chosen = Select(fetched[k].listed, runs[k].snapshot)

IInv == Given /\ Position /\ Resolved /\ Progress /\ Started /\ Fetched

-----------------------------------------------------------------------------
(* The invariant holds initially, and every step keeps it.                 *)

\* What is asked for depends on the command line, the config and its place only.
LEMMA Frame ==
  ASSUME command' = command, config' = config, place' = place
  PROVE  /\ Asked' = Asked /\ Wanted' = Wanted /\ (Loaded' <=> Loaded) /\ (FromFile' <=> FromFile)
         /\ DrillA' = DrillA /\ DrillB' = DrillB
         /\ Flag("pull", "missing")' = Flag("pull", "missing")
<1>1. \A f : Typed(f)' <=> Typed(f)
  BY DEF Typed
<1>2. \A f, d : Flag(f, d)' = Flag(f, d)
  BY DEF Typed, Flag
<1>3. Targets' = Targets /\ (Loaded' <=> Loaded) /\ (FromFile' <=> FromFile)
  BY DEF Targets, Loaded, Decodes, Validate, SourceFits, SourceName, First, FromFile
<1>4. FlagOptions' = FlagOptions
  BY <1>2 DEF FlagOptions, NoOptions, Flag, Typed
<1>5. TestOptions' = TestOptions /\ TestTimeout' = TestTimeout
  BY <1>2 DEF TestOptions, TestTimeout, NoOptions, Flag, Typed, OrDefault
<1>6. DrillA' = DrillA /\ DrillB' = DrillB
  BY <1>5 DEF DrillA, DrillB, Share
<1>7. \A t : ConfigJob(t)' = ConfigJob(t)
  BY DEF ConfigJob, HostPath, RecipeRef, SourceName, First, Targets
<1>8. \A o : WithFlags(o)' = WithFlags(o)
  BY <1>2 DEF WithFlags, Pick, Merged, Flag, Typed
<1>9. \A t : Resolvable(t)' <=> Resolvable(t)
  BY DEF Resolvable, SourceName, First, Typed
<1>10. Asked' = Asked
  BY <1>3, <1>4, <1>6, <1>7, <1>8, <1>9 DEF Asked
<1>11. Wanted' = Wanted
  BY <1>3 DEF Wanted, EnabledTargets, Targets
<1> QED BY <1>2, <1>3, <1>6, <1>10, <1>11

\* The command line is given.
LEMMA GivenStep ==
  ASSUME Given, [Next]_vars PROVE Given'
<1>1. CASE EditFile
  BY <1>1 DEF Given, EditFile
<1>2. CASE ~EditFile
  <2>1. command' = command /\ files' = files
    BY <1>2 DEF Next, vars, started, Refuse, ParseFlags, ResolveRecipe, ResolveTest, Discover,
                LoadConfig, SelectTargets, ResolveTarget, StartRun, FetchSource, Finish, Ended
  <2> QED BY <2>1 DEF Given
<1> QED BY <1>1, <1>2

\* The file that is found is one of the search path.
LEMMA Found ==
  ASSUME Given, Discover, Position PROVE Position'
<1>1. Places \in Nat /\ command.config \in 0..Places
  BY ConstantsAssumption DEF Given, IsCommand
<1>2. CASE Refuse
  <2>1. pc' = "refused" /\ place' = place
    BY <1>2 DEF Refuse
  <2> QED BY <2>1 DEF Position
<1>3. CASE ~Refuse
  <2> DEFINE there == {k \in SearchPath : files[k].is # "nothing"}
  <2>1. /\ there # {} /\ pc' = "load" /\ place' = CHOOSE k \in there : \A other \in there : k <= other
        /\ UNCHANGED <<command, config>> /\ pc = "discover"
    BY <1>3 DEF Discover
  <2>2. there \in SUBSET Nat /\ there \subseteq 1..Places
    BY <1>1 DEF SearchPath
  <2> HIDE DEF there
  <2>3. place' \in 1..Places
    BY <2>1, <2>2, LeastOf
  <2>4. Flag("pull", "missing")' = Flag("pull", "missing") /\ (FromFile' <=> FromFile)
    BY <2>1 DEF Flag, Typed, FromFile
  <2> QED BY <2>1, <2>3, <2>4, <1>1 DEF Position
<1> QED BY <1>2, <1>3

\* A config that is taken was valid when it was read.
LEMMA Read ==
  ASSUME Given, LoadConfig, Position PROVE Position'
<1>1. CASE Refuse
  <2>1. pc' = "refused" /\ place' = place
    BY <1>1 DEF Refuse
  <2> QED BY <2>1 DEF Position
<1>2. CASE ~Refuse
  <2> DEFINE c == files[place]
  <2>1. /\ pc = "load" /\ pc' = "select" /\ place' = place /\ command' = command
        /\ c.is = "config" /\ Decodes(c) /\ Validate(c) /\ config' = c
    BY <1>2 DEF LoadConfig
  <2>2. place \in 1..Places /\ c \in Contents
    BY <2>1 DEF Position, Given
  <2>3. (Decodes(config))' /\ (Validate(config))'
    BY <2>1 DEF Decodes, Validate, SourceFits, SourceName, First
  <2>4. Loaded'
    BY <2>1, <2>2, <2>3 DEF Loaded
  <2>5. Flag("pull", "missing")' = Flag("pull", "missing") /\ (FromFile' <=> FromFile)
    BY <2>1 DEF Flag, Typed, FromFile
  <2> QED BY <2>1, <2>2, <2>4, <2>5 DEF Position
<1> QED BY <1>1, <1>2

\* One mode is one of four.
LEMMA OneMode ==
  ASSUME Given, Cardinality(command.modes) = 1
  PROVE  command.modes \in {{"recipe"}, {"test"}, {"target"}, {"all"}}
<1>1. command.modes \subseteq {"recipe", "test", "target", "all"}
  BY ConstantsAssumption DEF Given, IsCommand
<1>2. IsFiniteSet({"recipe", "test", "target", "all"})
  <2>1. IsFiniteSet({"recipe"} \cup {"test"})
    BY FS_Singleton, FS_AddElement
  <2>2. IsFiniteSet(({"recipe"} \cup {"test"}) \cup {"target"})
    BY <2>1, FS_AddElement
  <2>3. IsFiniteSet((({"recipe"} \cup {"test"}) \cup {"target"}) \cup {"all"})
    BY <2>2, FS_AddElement
  <2>4. (({"recipe"} \cup {"test"}) \cup {"target"}) \cup {"all"}
          = {"recipe", "test", "target", "all"}
    OBVIOUS
  <2> QED BY <2>3, <2>4
<1>3. IsFiniteSet(command.modes)
  BY <1>1, <1>2, FS_Subset
<1>4. \E x : command.modes = {x}
  BY <1>3, FS_Singleton
<1> QED BY <1>1, <1>4

\* Where the program goes, it has a reason to.
LEMMA PositionStep ==
  ASSUME Given, Position, [Next]_vars PROVE Position'
<1>1. CASE Discover
  BY <1>1, Found
<1>2. CASE LoadConfig
  BY <1>2, Read
<1>3. CASE ~Discover /\ ~LoadConfig
  <2>1. command' = command /\ config' = config /\ place' = place
    BY <1>3 DEF Next, vars, started, Refuse, EditFile, ParseFlags, ResolveRecipe, ResolveTest,
                SelectTargets, ResolveTarget, StartRun, FetchSource, Finish, Ended
  <2>2. /\ (Loaded' <=> Loaded) /\ (FromFile' <=> FromFile)
        /\ Flag("pull", "missing")' = Flag("pull", "missing")
    BY <2>1, Frame
  <2>3. CASE Refuse
    <3>1. pc' = "refused"
      BY <2>3 DEF Refuse
    <3> QED BY <2>1, <3>1 DEF Position
  <2>4. CASE ParseFlags /\ ~Refuse
    <3>1. /\ Cardinality(command.modes) = 1 /\ Flag("pull", "missing") \in Pulls
          /\ pc' = CASE command.modes = {"recipe"} -> "recipe"
                     [] command.modes = {"test"} -> "test"
                     [] command.modes \in {{"target"}, {"all"}} -> "discover"
      BY <2>4 DEF ParseFlags
    <3>2. command.modes \in {{"recipe"}, {"test"}, {"target"}, {"all"}}
      BY <2>4, OneMode DEF ParseFlags
    <3>3. CASE command.modes = {"recipe"}
      <4>1. pc' = "recipe"
        BY <3>1, <3>3
      <4> QED BY <2>1, <2>2, <3>1, <3>3, <4>1 DEF Position
    <3>4. CASE command.modes = {"test"}
      <4>1. pc' = "test"
        BY <3>1, <3>4
      <4> QED BY <2>1, <2>2, <3>1, <3>4, <4>1 DEF Position
    <3>5. CASE command.modes \in {{"target"}, {"all"}}
      <4>1. pc' = "discover"
        BY <3>1, <3>5
      <4> QED BY <2>1, <2>2, <3>1, <3>5, <4>1 DEF Position, FromFile
    <3> QED BY <3>2, <3>3, <3>4, <3>5
  <2>5. CASE ~Refuse /\ ~ParseFlags
    <3>1. \/ pc' = pc
          \/ pc = "select" /\ pc' = "resolve"
          \/ pc' \in {"run", "fetch", "done"} /\ pc \in {"recipe", "test", "resolve", "run", "fetch"}
      BY <1>3, <2>5 DEF Next, vars, started, EditFile, ResolveRecipe, ResolveTest, Refuse,
                SelectTargets, ResolveTarget, StartRun, FetchSource, Finish, Ended
    <3>2. CASE pc' = pc
      BY <2>1, <2>2, <3>2 DEF Position
    <3>3. CASE pc = "select" /\ pc' = "resolve"
      BY <2>1, <2>2, <3>3 DEF Position
    <3>4. CASE pc' \in {"run", "fetch", "done"} /\ pc \in {"recipe", "test", "resolve", "run", "fetch"}
      <4>1. FromFile => Loaded
        BY <3>4 DEF Position, FromFile
      <4> QED BY <2>1, <2>2, <3>4, <4>1 DEF Position
    <3> QED BY <3>1, <3>2, <3>3, <3>4
  <2> QED BY <2>3, <2>4, <2>5
<1> QED BY <1>1, <1>2, <1>3

\* One more target is resolved, from a config that was found valid.
LEMMA OneMore ==
  ASSUME Position, Resolved, ResolveTarget, ~Refuse
  PROVE  /\ FromFile /\ Loaded /\ Flag("pull", "missing") \in Pulls
         /\ names # <<>> /\ names' = Tail(names) /\ pc = "resolve"
         /\ pc' = (IF Tail(names) = <<>> THEN "run" ELSE "resolve")
         /\ UNCHANGED <<command, files, place, config, runs, fetched>>
         /\ \E o \in Asked : o.target = Head(names) /\ jobs' = Append(jobs, o)
<1>1. /\ pc = "resolve" /\ names # <<>> /\ names' = Tail(names)
      /\ pc' = (IF Tail(names) = <<>> THEN "run" ELSE "resolve")
      /\ UNCHANGED <<command, files, place, config, runs, fetched>>
      /\ \E k \in DOMAIN config.targets :
           /\ config.targets[k].name = Head(names) /\ Resolvable(config.targets[k])
           /\ jobs' = Append(jobs, WithFlags(ConfigJob(config.targets[k])))
  BY DEF ResolveTarget, started
<1>2. FromFile /\ Loaded /\ Flag("pull", "missing") \in Pulls
  BY <1>1 DEF Position
<1>3. PICK k \in DOMAIN config.targets :
        /\ config.targets[k].name = Head(names) /\ Resolvable(config.targets[k])
        /\ jobs' = Append(jobs, WithFlags(ConfigJob(config.targets[k])))
  BY <1>1
<1> DEFINE t == config.targets[k]
<1>4. t \in Targets
  BY DEF Targets
<1>5. WithFlags(ConfigJob(t)) \in Asked
  BY <1>2, <1>3, <1>4 DEF Asked, FromFile
<1>6. WithFlags(ConfigJob(t)).target = t.name
  BY DEF WithFlags, ConfigJob
<1> QED BY <1>1, <1>2, <1>3, <1>5, <1>6

\* A list of two.
LEMMA Pairs ==
  ASSUME NEW S, NEW a \in S, NEW b \in S
  PROVE  <<a>> \in Seq(S) /\ <<a, b>> \in Seq(S)
<1>1. <<a>> \in Seq(S)
  OBVIOUS
<1>2. Append(<<a>>, b) \in Seq(S)
  BY <1>1, AppendProperties
<1>3. <<a, b>> = Append(<<a>>, b)
  OBVIOUS
<1> QED BY <1>1, <1>2, <1>3

\* What is resolved is asked for.
LEMMA ResolvedStep ==
  ASSUME Position, Resolved, [Next]_vars PROVE Resolved'
<1>0. <<>> \in Seq(Asked) /\ <<>> \in Seq(Asked')
  BY EmptySeq
<1>1. CASE jobs' = <<>>
  BY <1>0, <1>1 DEF Resolved
<1>2. CASE ResolveRecipe /\ ~Refuse
  <2>1. /\ jobs' = <<FlagOptions>> /\ pc = "recipe" /\ pc' = "run"
        /\ command' = command /\ config' = config /\ place' = place
    BY <1>2 DEF ResolveRecipe
  <2>2. command.modes = {"recipe"} /\ Flag("pull", "missing") \in Pulls
    BY <2>1 DEF Position
  <2>3. jobs' \in Seq(Asked)
    BY <2>1, <2>2 DEF Asked
  <2> QED BY <2>1, <2>2, <2>3, Frame DEF Resolved
<1>3. CASE ResolveTest
  <2>1. /\ jobs' \in {<<DrillA, DrillB>>, <<DrillA>>, <<DrillB>>} /\ pc = "test" /\ pc' = "run"
        /\ command' = command /\ config' = config /\ place' = place
    BY <1>3 DEF ResolveTest
  <2>2. command.modes = {"test"} /\ Flag("pull", "missing") \in Pulls
    BY <2>1 DEF Position
  <2>3. Asked = {DrillA, DrillB}
    BY <2>2 DEF Asked
  <2>4. jobs' \in Seq(Asked)
    BY <2>1, <2>3, Pairs
  <2> QED BY <2>1, <2>2, <2>4, Frame DEF Resolved
<1>4. CASE ResolveTarget /\ ~Refuse
  <2>1. PICK o \in Asked : jobs' = Append(jobs, o)
    BY <1>4, OneMore
  <2>2. /\ FromFile /\ Loaded /\ Flag("pull", "missing") \in Pulls
        /\ command' = command /\ config' = config /\ place' = place /\ pc' \in {"run", "resolve"}
    BY <1>4, OneMore
  <2>3. jobs' \in Seq(Asked)
    BY <2>1, AppendProperties DEF Resolved
  <2>4. command.modes # {"test"}
    BY <2>2 DEF FromFile
  <2> QED BY <2>2, <2>3, <2>4, Frame DEF Resolved
<1>5. CASE jobs' # <<>> /\ ~(ResolveRecipe /\ ~Refuse) /\ ~ResolveTest /\ ~(ResolveTarget /\ ~Refuse)
  <2>1. /\ jobs' = jobs
        /\ pc' \in {"parse", "recipe", "test", "discover", "load", "select"}
             => pc \in {"parse", "recipe", "test", "discover", "load"} \/ pc' = pc
    BY <1>5 DEF Next, vars, started, Refuse, EditFile, ParseFlags, ResolveRecipe, ResolveTest,
                Discover, LoadConfig, SelectTargets, ResolveTarget, StartRun, FetchSource, Finish, Ended
  <2>2. pc \notin {"parse", "recipe", "test", "discover", "load", "select"}
    BY <1>5, <2>1 DEF Resolved
  <2>3. command' = command /\ config' = config /\ place' = place
    BY <1>5, <2>2 DEF Next, vars, started, Refuse, EditFile, ParseFlags, ResolveRecipe, ResolveTest,
                Discover, LoadConfig, SelectTargets, ResolveTarget, StartRun, FetchSource, Finish, Ended
  <2> QED BY <2>1, <2>2, <2>3, Frame DEF Resolved
<1> QED BY <1>1, <1>2, <1>3, <1>4, <1>5

\* A valid config is one the decoder lets through.
LEMMA LoadedIs ==
  ASSUME Loaded
  PROVE  /\ IsConfig(config) /\ config.targets \in Seq(Targets)
         /\ \A t \in Targets : \E k \in DOMAIN config.targets : t = config.targets[k]
<1>1. IsConfig(config)
  BY ConstantsAssumption DEF Loaded
<1> QED BY <1>1 DEF IsConfig, Targets

\* The targets wanted are a list.
LEMMA WantedIs ==
  Wanted \in Seq({Wanted[i] : i \in DOMAIN Wanted})
<1>1. CASE command.modes # {"all"}
  <2>1. Wanted = <<command.target>>
    BY <1>1 DEF Wanted
  <2> QED BY <2>1
<1>2. CASE command.modes = {"all"} /\ Loaded
  <2> DEFINE enabled == Selected(config.targets, {t \in Targets : Enabled(t)})
             list == [k \in DOMAIN enabled |-> enabled[k].name]
  <2>1. enabled \in Seq(Targets)
    BY <1>2, LoadedIs, SelectedPicks
  <2>2. Wanted = list
    BY <1>2 DEF Wanted, EnabledTargets
  <2>3. Len(enabled) \in Nat /\ DOMAIN enabled = 1..Len(enabled)
    BY <2>1, LenProperties
  <2>4. list = [k \in 1..Len(enabled) |-> list[k]] /\ DOMAIN list = 1..Len(enabled)
    BY <2>3
  <2> HIDE DEF list, enabled
  <2>5. list \in Seq({list[i] : i \in DOMAIN list})
    BY <2>3, <2>4, IsASeq
  <2> QED BY <2>2, <2>5
<1>3. CASE command.modes = {"all"} /\ ~Loaded
  <2>1. Wanted = <<>>
    BY <1>3 DEF Wanted
  <2> QED BY <2>1, EmptySeq
<1> QED BY <1>1, <1>2, <1>3

\* What it is about is unchanged by all other steps.
LEMMA Quiet ==
  ASSUME [Next]_vars, pc \notin {"discover", "load"}
  PROVE  command' = command /\ config' = config /\ place' = place
BY DEF Next, vars, started, Refuse, EditFile, ParseFlags, ResolveRecipe, ResolveTest, Discover,
       LoadConfig, SelectTargets, ResolveTarget, StartRun, FetchSource, Finish, Ended

\* The first target comes off the list, and its job is the next one.
LEMMA ProgressByOne ==
  ASSUME Position, Resolved, Progress, ResolveTarget, ~Refuse
  PROVE  Progress'
<1>1. /\ FromFile /\ names # <<>> /\ names' = Tail(names) /\ pc = "resolve"
      /\ pc' = (IF Tail(names) = <<>> THEN "run" ELSE "resolve")
      /\ command' = command /\ config' = config /\ place' = place
  BY OneMore
<1>2. PICK o \in Asked : o.target = Head(names) /\ jobs' = Append(jobs, o)
  BY OneMore
<1>3. Wanted' = Wanted /\ FromFile'
  BY <1>1, Frame
<1> DEFINE W == {Wanted[i] : i \in DOMAIN Wanted}
           n == Len(jobs)
<1>4. /\ Wanted \in Seq(W) /\ names \in Seq(W)
      /\ n + Len(names) = Len(Wanted)
      /\ \A k \in 1..n : jobs[k].target = Wanted[k]
      /\ \A i \in 1..Len(names) : names[i] = Wanted[n + i]
  BY <1>1 DEF Progress
<1> HIDE DEF W
<1>5. /\ names' \in Seq(W) /\ Len(names') = Len(names) - 1
      /\ \A i \in 1..Len(names') : names'[i] = names[i + 1]
  BY <1>1, <1>4, HeadTailProperties
<1>6. Len(names) \in Nat /\ n \in Nat /\ jobs \in Seq(Asked)
  BY <1>4, LenProperties DEF Resolved
<1>7. Len(names') \in Nat
  BY <1>5, LenProperties
<1>8. Len(jobs') = n + 1 /\ jobs'[n + 1] = o /\ \A k \in 1..n : jobs'[k] = jobs[k]
  BY <1>2, <1>6, AppendProperties
<1>9. o.target = Wanted[n + 1]
  <2>1. Head(names) = names[1]
    BY <1>1, <1>4
  <2>2. 1 \in 1..Len(names)
    BY <1>5, <1>6, <1>7
  <2> QED BY <1>2, <1>4, <2>1, <2>2
<1>10. Len(jobs') + Len(names') = Len(Wanted)
  <2>1. Len(jobs') = n + 1 /\ Len(names') = Len(names) - 1
    BY <1>5, <1>8
  <2>2. n + Len(names) = Len(Wanted)
    BY <1>4
  <2> QED BY <1>6, <2>1, <2>2
<1>11. \A k \in 1..Len(jobs') : jobs'[k].target = Wanted[k]
  <2>1. \A k \in 1..(n + 1) : k = n + 1 \/ k \in 1..n
    BY <1>6
  <2> QED BY <1>4, <1>8, <1>9, <2>1
<1>12. \A i \in 1..Len(names') : names'[i] = Wanted[Len(jobs') + i]
  <2> SUFFICES ASSUME NEW i \in 1..Len(names') PROVE names'[i] = Wanted[Len(jobs') + i]
    OBVIOUS
  <2>1. i + 1 \in 1..Len(names) /\ n + (i + 1) = Len(jobs') + i
    BY <1>5, <1>6, <1>7, <1>8
  <2> QED BY <1>4, <1>5, <2>1
<1>13. pc' = "run" => names' = <<>>
  BY <1>1
<1>14. pc' \in {"run", "resolve"}
  BY <1>1
<1> QED BY <1>3, <1>4, <1>5, <1>10, <1>11, <1>12, <1>13, <1>14 DEF Progress, W

\* The list of targets is worked off.
LEMMA ProgressStep ==
  ASSUME Given, Position, Resolved, Progress, [Next]_vars PROVE Progress'
<1>0. \A S : <<>> \in Seq(S)
  BY EmptySeq
<1>1. CASE names' = <<>> /\ ~(FromFile' /\ pc' \in {"resolve", "run", "fetch", "done"})
  BY <1>0, <1>1 DEF Progress
<1>2. CASE ResolveTarget /\ ~Refuse
  BY <1>2, ProgressByOne
<1>3. CASE SelectTargets /\ ~Refuse
  <2>1. /\ pc = "select" /\ pc' = "resolve" /\ jobs' = jobs
        /\ command' = command /\ config' = config /\ place' = place
        /\ names' = IF command.modes = {"all"} THEN EnabledTargets ELSE <<command.target>>
    BY <1>3 DEF SelectTargets, started
  <2>2. Loaded /\ FromFile /\ jobs = <<>>
    BY <2>1 DEF Position, Resolved
  <2>3. names' = Wanted
    BY <2>1, <2>2 DEF Wanted
  <2>4. Wanted' = Wanted /\ FromFile'
    BY <2>1, <2>2, Frame
  <2>5. Len(jobs') = 0
    BY <2>1, <2>2, EmptySeq
  <2>6. Wanted \in Seq({Wanted[i] : i \in DOMAIN Wanted})
    BY WantedIs
  <2>7. Len(Wanted) \in Nat
    BY <2>6, LenProperties
  <2> QED BY <2>1, <2>3, <2>4, <2>5, <2>6, <2>7 DEF Progress
<1>4. CASE Refuse
  <2>1. /\ names' = names /\ pc' = "refused"
        /\ command' = command /\ config' = config /\ place' = place
    BY <1>4 DEF Refuse
  <2> QED BY <2>1, Frame DEF Progress
<1>5. CASE ~Refuse /\ pc \in {"resolve", "run", "fetch", "done", "refused"} /\ ~ResolveTarget
  <2>1. /\ names' = names /\ jobs' = jobs
        /\ command' = command /\ config' = config /\ place' = place
        /\ pc' = pc \/ (pc \in {"run", "fetch"} /\ pc' \in {"run", "fetch", "done"})
    BY <1>5 DEF Next, vars, started, EditFile, ParseFlags, ResolveRecipe, ResolveTest,
                Discover, LoadConfig, SelectTargets, ResolveTarget, StartRun, FetchSource, Finish, Ended
  <2> QED BY <2>1, Frame DEF Progress
<1>6. CASE ~Refuse /\ pc \notin {"resolve", "run", "fetch", "done", "refused"} /\ ~SelectTargets
  <2>0. names = <<>>
    BY <1>6 DEF Progress
  <2>4. ParseFlags => pc' \in {"recipe", "test", "discover"} /\ names' = names
    BY <1>6, OneMode DEF ParseFlags, started
  <2>1. /\ names' = names
        /\ pc' \in {"resolve", "run", "fetch", "done"} => pc \in {"recipe", "test"} /\ command' = command
    BY <1>6, <2>4 DEF Position, Next, vars, started, EditFile, ResolveRecipe, ResolveTest, Discover,
                LoadConfig, SelectTargets, ResolveTarget, StartRun, FetchSource, Finish, Ended
  <2>2. pc \in {"recipe", "test"} => ~FromFile
    BY DEF Position, FromFile
  <2>3. command' = command => (FromFile' <=> FromFile)
    BY DEF FromFile
  <2> QED BY <1>1, <2>0, <2>1, <2>2, <2>3
<1>7. ResolveTarget => pc = "resolve"
  BY DEF ResolveTarget
<1>8. SelectTargets => pc = "select"
  BY DEF SelectTargets
<1> QED BY <1>2, <1>3, <1>4, <1>5, <1>6, <1>7, <1>8

\* A drill is that of the next job.
LEMMA StartedStep ==
  ASSUME Resolved, Resolved', Started, [Next]_vars PROVE Started'
<1>1. CASE runs' = <<>>
  <2>1. Len(runs') = 0 /\ Len(jobs') \in Nat
    BY <1>1, EmptySeq, LenProperties DEF Resolved
  <2> QED BY <1>1, <2>1, EmptySeq DEF Started
<1>2. CASE StartRun
  <2> DEFINE n == Len(runs)
             S == {ApplyDefaults(o) : o \in Asked}
  <2>1. /\ n < Len(jobs) /\ runs' = Append(runs, ApplyDefaults(jobs[n + 1])) /\ pc' = "fetch"
        /\ command' = command /\ config' = config /\ place' = place /\ jobs' = jobs
    BY <1>2 DEF StartRun
  <2>2. /\ runs \in Seq(S) /\ n \in Nat /\ Len(jobs) \in Nat
        /\ \A k \in 1..n : runs[k] = ApplyDefaults(jobs[k])
    BY LenProperties DEF Started, Resolved
  <2>3. n + 1 \in 1..Len(jobs)
    BY <2>1, <2>2
  <2>4. jobs[n + 1] \in Asked
    BY <2>3, ElementOfSeq DEF Resolved
  <2>5. ApplyDefaults(jobs[n + 1]) \in S
    BY <2>4
  <2>6. S' = S
    BY <2>1, Frame DEF ApplyDefaults
  <2> HIDE DEF S
  <2>7. /\ runs' \in Seq(S) /\ Len(runs') = n + 1 /\ runs'[n + 1] = ApplyDefaults(jobs[n + 1])
        /\ \A k \in 1..n : runs'[k] = runs[k]
    BY <2>1, <2>2, <2>5, AppendProperties
  <2>8. \A k \in 1..(n + 1) : k = n + 1 \/ k \in 1..n
    BY <2>2
  <2>9. \A k \in 1..(n + 1) : runs'[k] = ApplyDefaults(jobs[k])
    BY <2>2, <2>7, <2>8
  <2>10. runs' \in Seq(S')
    BY <2>6, <2>7
  <2>11. /\ runs' \in Seq({ApplyDefaults(o)' : o \in Asked'}) /\ jobs' = jobs
         /\ \A k \in 1..Len(runs') : runs'[k] = ApplyDefaults(jobs[k])
         /\ Len(runs') <= Len(jobs) /\ pc' = "fetch"
    BY <2>1, <2>2, <2>3, <2>7, <2>9, <2>10 DEF S
  <2>12. \A o : ApplyDefaults(o)' = ApplyDefaults(o)
    BY DEF ApplyDefaults
  <2> QED BY <2>11, <2>12 DEF Started
<1>3. CASE runs' # <<>> /\ ~StartRun
  <2>1. runs' = runs
    BY <1>3 DEF Next, vars, started, Refuse, EditFile, ParseFlags, ResolveRecipe, ResolveTest,
                Discover, LoadConfig, SelectTargets, ResolveTarget, StartRun, FetchSource, Finish, Ended
  <2>2. pc \in {"run", "fetch", "done"}
    BY <1>3, <2>1 DEF Started
  <2>3. pc' \in {"run", "fetch", "done"} /\ jobs' = jobs
    BY <1>3, <2>2 DEF Next, vars, started, Refuse, EditFile, ParseFlags, ResolveRecipe, ResolveTest,
                Discover, LoadConfig, SelectTargets, ResolveTarget, StartRun, FetchSource, Finish, Ended
  <2>4. command' = command /\ config' = config /\ place' = place
    BY <2>2, Quiet
  <2>5. Asked' = Asked
    BY <2>4, Frame
  <2> QED BY <2>1, <2>3, <2>5 DEF Started, ApplyDefaults
<1> QED BY <1>1, <1>2, <1>3

\* What is chosen is listed, and what is listed passes the filters.
LEMMA FetchedStep ==
  ASSUME Given, Started, Started', Fetched, [Next]_vars PROVE Fetched'
<1> DEFINE R == [listed : SUBSET Snapshots, chosen : SUBSET Snapshots]
<1>0. /\ Len(runs) \in Nat /\ Len(fetched) \in Nat /\ Len(runs') \in Nat
      /\ fetched \in Seq(R)
  BY LenProperties DEF Started, Fetched
<1>1. CASE FetchSource
  <2> DEFINE n == Len(fetched)
             o == runs[Len(runs)]
  <2>1. PICK there \in (IF o.kind = "restic" THEN SUBSET Snapshots ELSE {{}}) :
          fetched' = Append(fetched,
            [listed |-> {s \in there : Matches(s, o)},
             chosen |-> Select({s \in there : Matches(s, o)}, o.snapshot)])
    BY <1>1 DEF FetchSource
  <2> DEFINE listed == {s \in there : Matches(s, o)}
             r == [listed |-> listed, chosen |-> Select(listed, o.snapshot)]
  <2>2. pc = "fetch" /\ pc' = "run" /\ runs' = runs
    BY <1>1 DEF FetchSource
  <2>3. n + 1 = Len(runs)
    BY <1>0, <2>2 DEF Fetched
  <2>4. listed \in SUBSET Snapshots
    OBVIOUS
  <2>5. Select(listed, o.snapshot) \subseteq listed
    BY DEF Select
  <2>6. r \in R
    BY <2>4, <2>5
  <2>7. /\ r.listed = listed /\ r.chosen = Select(listed, o.snapshot) /\ fetched' = Append(fetched, r)
        /\ \A s \in r.listed : Matches(s, o)
    BY <2>1
  <2> HIDE DEF r, R, listed
  <2>8. /\ fetched' \in Seq(R) /\ Len(fetched') = n + 1 /\ fetched'[n + 1] = r
        /\ \A k \in 1..n : fetched'[k] = fetched[k]
    BY <1>0, <2>6, <2>7, AppendProperties
  <2>9. \A k \in 1..(n + 1) : k = n + 1 \/ k \in 1..n
    BY <1>0
  <2>10. \A k \in 1..n : /\ \A s \in fetched[k].listed : Matches(s, runs[k])
                         /\ fetched[k].chosen = Select(fetched[k].listed, runs[k].snapshot)
    BY DEF Fetched
  <2>11. \A k \in 1..(n + 1) : /\ \A s \in fetched'[k].listed : Matches(s, runs[k])
                               /\ fetched'[k].chosen = Select(fetched'[k].listed, runs[k].snapshot)
    BY <2>3, <2>7, <2>8, <2>9, <2>10
  <2>12. Len(fetched') = Len(runs') - 0
    BY <1>0, <2>2, <2>3, <2>8
  <2> QED BY <2>2, <2>8, <2>11, <2>12 DEF Fetched, R
<1>2. CASE StartRun
  <2>1. /\ pc = "run" /\ pc' = "fetch" /\ fetched' = fetched
        /\ runs' = Append(runs, ApplyDefaults(jobs[Len(runs) + 1]))
    BY <1>2 DEF StartRun
  <2>2. Len(runs') = Len(runs) + 1 /\ \A k \in 1..Len(runs) : runs'[k] = runs[k]
    <3> DEFINE a == ApplyDefaults(jobs[Len(runs) + 1])
               S == {ApplyDefaults(x) : x \in Asked} \cup {a}
    <3>1. runs \in Seq(S)
      BY SeqMonotonic DEF Started
    <3>2. a \in S
      OBVIOUS
    <3> HIDE DEF a, S
    <3>3. runs' = Append(runs, a)
      BY <2>1 DEF a
    <3> QED BY <3>1, <3>2, <3>3, AppendProperties
  <2>3. Len(fetched) = Len(runs) - 0
    BY <2>1 DEF Fetched
  <2> QED BY <1>0, <2>1, <2>2, <2>3 DEF Fetched
<1>3. CASE ~FetchSource /\ ~StartRun
  <2>1. fetched' = fetched /\ runs' = runs
    BY <1>3 DEF Next, vars, started, Refuse, EditFile, ParseFlags, ResolveRecipe, ResolveTest, Discover,
                LoadConfig, SelectTargets, ResolveTarget, Finish, Ended
  <2>2. pc' = "fetch" <=> pc = "fetch"
    <3>1. ParseFlags => pc = "parse" /\ pc' # "fetch"
      BY OneMode DEF ParseFlags, Refuse
    <3> QED BY <1>3, <3>1 DEF Next, vars, Refuse, EditFile, ResolveRecipe, ResolveTest, Discover,
                LoadConfig, SelectTargets, ResolveTarget, Finish, Ended
  <2> QED BY <2>1, <2>2 DEF Fetched
<1> QED BY <1>1, <1>2, <1>3

\* At first there is a command line, and nothing else.
LEMMA InitInv == Init => IInv
<1> SUFFICES ASSUME Init PROVE IInv
  OBVIOUS
<1>1. /\ pc = "parse" /\ place = 0 /\ names = <<>> /\ jobs = <<>> /\ runs = <<>> /\ fetched = <<>>
      /\ command \in Commands /\ files \in [1..Places -> Contents]
  BY DEF Init
<1>2. Places \in Nat
  BY ConstantsAssumption
<1>3. Len(runs) = 0 /\ Len(fetched) = 0 /\ Len(jobs) = 0
  BY <1>1
<1>4. \A S : <<>> \in Seq(S)
  BY EmptySeq
<1>5. Position
  BY <1>1, <1>2 DEF Position
<1>6. Resolved
  BY <1>1, <1>4 DEF Resolved
<1>7. Progress
  BY <1>1, <1>4 DEF Progress
<1>8. Started
  BY <1>1, <1>3, <1>4 DEF Started
<1>9. Fetched
  BY <1>1, <1>3, <1>4 DEF Fetched
<1> QED BY <1>1, <1>5, <1>6, <1>7, <1>8, <1>9 DEF IInv, Given

\* Every step keeps all of it.
LEMMA NextInv == IInv /\ [Next]_vars => IInv'
<1> SUFFICES ASSUME IInv, [Next]_vars PROVE IInv'
  OBVIOUS
<1>1. Given /\ Position /\ Resolved /\ Progress /\ Started /\ Fetched
  BY DEF IInv
<1>2. Given' /\ Position' /\ Resolved' /\ Progress'
  BY <1>1, GivenStep, PositionStep, ResolvedStep, ProgressStep
<1>3. Started'
  BY <1>1, <1>2, StartedStep
<1>4. Fetched'
  BY <1>1, <1>3, FetchedStep
<1> QED BY <1>2, <1>3, <1>4 DEF IInv

\* The invariant holds in every state.
LEMMA Invariance == Spec => []IInv
BY InitInv, NextInv, PTL DEF Spec

-----------------------------------------------------------------------------
(* What the options of a drill are.                                        *)

\* What every layer of the settings has seen to.
Fits(o) ==
  /\ DOMAIN o = DOMAIN NoOptions
  /\ o.pull \in Pulls /\ o.from.at \in 0..Places /\ o.workspace.at \in 0..Places
  /\ \A d \in Durations : o[d] \in Int
  /\ o.snapshot = Flag("snapshot", Latest)
  /\ Typed("host") => o.host = command.typed.host

\* What the typed flags are.
LEMMA FlagsAre ==
  ASSUME Given
  PROVE  /\ Places \in Nat
         /\ \A d \in Durations : Flag(d, DefaultDurations[d]) \in Int
         /\ Flag("timeout", 0) \in Int
         /\ Flag("from", NoPath).at = 0 /\ Flag("workspace", NoPath).at = 0
<1>1. IsCommand(command) /\ Places \in Nat
  BY ConstantsAssumption DEF Given
<1>2. \A d \in Durations : DefaultDurations[d] \in Int
  BY DEF Durations, DefaultDurations
<1>3. NoPath.at = 0
  BY DEF NoPath, As
<1> QED BY <1>1, <1>2, <1>3 DEF IsCommand, Flag, Typed, Durations

\* A run by its flags.
LEMMA FlagsFit ==
  ASSUME Given, Flag("pull", "missing") \in Pulls
  PROVE  Fits(FlagOptions)
<1> DEFINE o == FlagOptions
<1>1. /\ DOMAIN o = DOMAIN NoOptions
      /\ o.pull = Flag("pull", "missing")
      /\ o.from = Flag("from", NoPath) /\ o.workspace = Flag("workspace", NoPath)
      /\ o.snapshot = Flag("snapshot", Latest) /\ o.host = Flag("host", "")
  BY DEF FlagOptions, NoOptions
<1>2. \A d \in Durations : o[d] = Flag(d, DefaultDurations[d])
  BY DEF FlagOptions, NoOptions, Durations
<1> HIDE DEF o
<1>3. 0 \in 0..Places
  BY FlagsAre
<1>4. Typed("host") => o.host = command.typed.host
  BY <1>1 DEF Flag
<1>5. Fits(o)
  BY <1>1, <1>2, <1>3, <1>4, FlagsAre DEF Fits
<1> QED BY <1>5 DEF o

\* A drill of a recipe test.
LEMMA TestFits ==
  ASSUME Given, Flag("pull", "missing") \in Pulls, command.modes = {"test"},
         NEW o \in {DrillA, DrillB}
  PROVE  Fits(o)
<1>1. /\ DOMAIN o = DOMAIN NoOptions
      /\ o.pull = Flag("pull", "missing")
      /\ o.from = NoPath /\ o.workspace = Flag("workspace", NoPath)
      /\ o.snapshot = Latest
      /\ o.timeout \in {Share(TestTimeout, 5), Share(TestTimeout, 7)}
      /\ o.ready \in {0, StageAReady} /\ o.restore = 0 /\ o.check = 0
  BY DEF DrillA, DrillB, TestOptions, NoOptions
<1>2. ~Typed("host") /\ ~Typed("snapshot")
  BY ConstantsAssumption DEF Given, IsCommand, Typed
<1>3. TestTimeout \in Int
  BY FlagsAre DEF TestTimeout, OrDefault, DefaultTestTimeout
<1>4. o.timeout \in Int
  BY <1>1, <1>3 DEF Share
<1>5. \A d \in Durations : o[d] \in Int
  BY <1>1, <1>4 DEF Durations, StageAReady
<1>6. NoPath.at = 0
  BY DEF NoPath, As
<1>7. 0 \in 0..Places
  BY FlagsAre
<1> QED BY <1>1, <1>2, <1>5, <1>6, <1>7, FlagsAre DEF Fits, Flag

\* What config.Job says of a setting: the target, or else the defaults.
Says(t, s, unsaid) == First(t[s], config.defaults[s], unsaid)

\* The job of a target, setting by setting.
LEMMA ConfigJobIs ==
  ASSUME NEW t
  PROVE  LET o == WithFlags(ConfigJob(t))
             s == config.sources[SourceName(config, t)] IN
         /\ DOMAIN o = DOMAIN NoOptions
         /\ o.target = t.name
         /\ o.recipe = RecipeRef(t)
         /\ o.kind = Flag("source", s.kind)
         /\ o.from = Flag("from", IF s.kind = "dir" THEN HostPath(s.from) ELSE As(s.from))
         /\ o.env = IF Typed("source") \/ s.kind = "dir" THEN {} ELSE {SourceName(config, t)}
         /\ o.host = Pick("host", "", s.host, "")
         /\ o.vars = Merged(t.vars, command.vars)
         /\ o.snapshot = Flag("snapshot", Latest)
         /\ o.pull = Pick("pull", "missing", Says(t, "pull", ""), "")
         /\ o.workspace = Pick("workspace", NoPath, HostPath(Says(t, "workspace", "")), NoPath)
         /\ \A d \in Durations : o[d] = Pick(d, DefaultDurations[d], Says(t, d, 0), 0)
<1> DEFINE c == ConfigJob(t)
           o == WithFlags(c)
           s == config.sources[SourceName(config, t)]
<1>1. /\ DOMAIN c = DOMAIN NoOptions
      /\ c.target = t.name /\ c.recipe = RecipeRef(t) /\ c.kind = s.kind
      /\ c.from = IF s.kind = "dir" THEN HostPath(s.from) ELSE As(s.from)
      /\ c.env = IF s.kind = "dir" THEN {} ELSE {SourceName(config, t)}
      /\ c.host = s.host /\ c.vars = t.vars /\ c.snapshot = Latest
      /\ c.pull = Says(t, "pull", "") /\ c.workspace = HostPath(Says(t, "workspace", ""))
      /\ \A d \in Durations : c[d] = Says(t, d, 0)
  BY DEF ConfigJob, NoOptions, Says, Durations
<1> HIDE DEF c, s
<1>2. DOMAIN o = DOMAIN NoOptions
  BY <1>1 DEF WithFlags
<1>3. "target" \in DOMAIN c /\ "recipe" \in DOMAIN c /\ "kind" \in DOMAIN c /\ "from" \in DOMAIN c
      /\ "env" \in DOMAIN c /\ "host" \in DOMAIN c /\ "vars" \in DOMAIN c /\ "snapshot" \in DOMAIN c
      /\ "pull" \in DOMAIN c /\ "workspace" \in DOMAIN c /\ \A d \in Durations : d \in DOMAIN c
  BY <1>1 DEF NoOptions, Durations
<1>4. o.target = c.target /\ o.recipe = c.recipe
  BY <1>3 DEF WithFlags
<1>5. /\ o.kind = Flag("source", c.kind) /\ o.from = Flag("from", c.from)
      /\ o.env = (IF Typed("source") THEN {} ELSE c.env)
      /\ o.host = Pick("host", "", c.host, "")
  BY <1>3 DEF WithFlags
<1>6. /\ o.vars = Merged(c.vars, command.vars) /\ o.snapshot = Flag("snapshot", c.snapshot)
      /\ o.pull = Pick("pull", "missing", c.pull, "")
      /\ o.workspace = Pick("workspace", NoPath, c.workspace, NoPath)
  BY <1>3 DEF WithFlags
<1>7. \A d \in Durations : o[d] = Pick(d, DefaultDurations[d], c[d], 0)
  BY <1>3 DEF WithFlags, Durations
<1> HIDE DEF o
<1>8. o.env = IF Typed("source") \/ s.kind = "dir" THEN {} ELSE {SourceName(config, t)}
  BY <1>1, <1>5
<1>9. \A d \in Durations : o[d] = Pick(d, DefaultDurations[d], Says(t, d, 0), 0)
  BY <1>1, <1>7
<1> QED BY <1>1, <1>2, <1>4, <1>5, <1>6, <1>8, <1>9 DEF o, s, c

\* A path of the config is at its place, or nowhere in particular.
LEMMA HostPathIs ==
  ASSUME NEW name
  PROVE  /\ HostPath(name).at \in {0, place} /\ HostPath(name).name = name
         /\ HostPath(name).at # 0 => HostPath(name).at = place /\ name \notin Rooted
         /\ place # 0 /\ HostPath(name).at = 0 => name \in Rooted \cup {""}
BY DEF HostPath, As

\* A run of a target.
LEMMA TargetFits ==
  ASSUME Given, Loaded, Flag("pull", "missing") \in Pulls, NEW t \in Targets
  PROVE  Fits(WithFlags(ConfigJob(t)))
<1> DEFINE o == WithFlags(ConfigJob(t))
           s == config.sources[SourceName(config, t)]
<1>1. /\ DOMAIN o = DOMAIN NoOptions
      /\ o.from = Flag("from", IF s.kind = "dir" THEN HostPath(s.from) ELSE As(s.from))
      /\ o.host = Pick("host", "", s.host, "")
      /\ o.snapshot = Flag("snapshot", Latest)
      /\ o.pull = Pick("pull", "missing", Says(t, "pull", ""), "")
      /\ o.workspace = Pick("workspace", NoPath, HostPath(Says(t, "workspace", "")), NoPath)
      /\ \A d \in Durations : o[d] = Pick(d, DefaultDurations[d], Says(t, d, 0), 0)
  BY ConfigJobIs
<1> HIDE DEF o, s
<1>2. PICK k \in DOMAIN config.targets : t = config.targets[k]
  BY DEF Targets
<1>3. t.pull \in Pulls \cup {""} /\ config.defaults.pull \in Pulls \cup {""}
  BY <1>2 DEF Loaded, Validate
<1>4. \A d \in Durations : t[d] \in Int /\ config.defaults[d] \in Int
  BY <1>2, LoadedIs DEF IsConfig, Durations
<1>5. o.pull \in Pulls
  BY <1>1, <1>3 DEF Says, First, Pick
<1>6. \A d \in Durations : o[d] \in Int
  BY <1>1, <1>4, FlagsAre DEF Says, First, Pick
<1>7. Places \in Nat /\ place \in 1..Places /\ 0 \in 0..Places /\ place \in 0..Places
  BY FlagsAre DEF Loaded
<1>8. o.from.at \in 0..Places
  <2>1. \A name : As(name).at = 0
    BY DEF As
  <2>2. Typed("from") => o.from.at = 0
    BY <1>1, FlagsAre DEF Flag
  <2>3. ~Typed("from") => o.from.at \in {0, place}
    BY <1>1, <2>1, HostPathIs DEF Flag
  <2> QED BY <1>7, <2>2, <2>3
<1>9. o.workspace.at \in 0..Places
  <2>1. o.workspace \in {Flag("workspace", NoPath), HostPath(Says(t, "workspace", ""))}
    BY <1>1 DEF Pick
  <2> QED BY <1>7, <2>1, FlagsAre, HostPathIs
<1>10. Typed("host") => o.host = command.typed.host
  BY <1>1 DEF Pick, Flag
<1>11. Fits(o)
  BY <1>1, <1>5, <1>6, <1>8, <1>9, <1>10 DEF Fits
<1> QED BY <1>11 DEF o

\* Whatever is asked for.
LEMMA AskedFits ==
  ASSUME Given, Resolved, NEW k \in 1..Len(jobs)
  PROVE  jobs # <<>> /\ jobs[k] \in Asked /\ Fits(jobs[k])
<1>1. jobs # <<>>
  <2>1. jobs = <<>> => Len(jobs) = 0
    OBVIOUS
  <2> QED BY <2>1
<1>2. /\ Flag("pull", "missing") \in Pulls
      /\ command.modes \in {{"recipe"}, {"test"}} \/ (FromFile /\ Loaded)
      /\ jobs[k] \in Asked
  BY <1>1, ElementOfSeq DEF Resolved
<1>3. CASE command.modes = {"recipe"}
  BY <1>1, <1>2, <1>3, FlagsFit DEF Asked
<1>4. CASE command.modes = {"test"}
  BY <1>1, <1>2, <1>4, TestFits DEF Asked
<1>5. CASE FromFile /\ Loaded
  <2>1. Asked = {WithFlags(ConfigJob(t)) : t \in {t \in Targets : Resolvable(t)}}
    BY <1>5 DEF Asked, FromFile
  <2>2. PICK t \in Targets : jobs[k] = WithFlags(ConfigJob(t))
    BY <1>2, <2>1
  <2> QED BY <1>1, <1>2, <1>5, <2>2, TargetFits
<1> QED BY <1>2, <1>3, <1>4, <1>5

\* What applyDefaults makes of the budgets.
LEMMA AppliedBudgets ==
  ASSUME NEW o, Fits(o), NEW a, a = ApplyDefaults(o)
  PROVE  /\ a.timeout = OrDefault(o.timeout, DefaultDurations.timeout)
         /\ a.restore = Clamp(OrDefault(o.restore, DefaultDurations.restore), a.timeout \div 2)
         /\ a.ready = Clamp(OrDefault(o.ready, DefaultDurations.ready), a.timeout \div 4)
         /\ a.check = Clamp(OrDefault(o.check, DefaultDurations.check), a.timeout \div 8)
<1> DEFINE timeout == OrDefault(o.timeout, DefaultDurations.timeout)
           restore == Clamp(OrDefault(o.restore, DefaultDurations.restore), timeout \div 2)
           ready == Clamp(OrDefault(o.ready, DefaultDurations.ready), timeout \div 4)
           check == Clamp(OrDefault(o.check, DefaultDurations.check), timeout \div 8)
<1>1. a = [o EXCEPT !.timeout = timeout, !.restore = restore, !.ready = ready, !.check = check,
                    !.pull = First(@, "missing", ""), !.kind = First(@, "restic", "")]
  BY DEF ApplyDefaults
<1>2. /\ "timeout" \in DOMAIN o /\ "restore" \in DOMAIN o /\ "ready" \in DOMAIN o /\ "check" \in DOMAIN o
      /\ "pull" \in DOMAIN o /\ "kind" \in DOMAIN o
  BY DEF Fits, NoOptions
<1> HIDE DEF timeout, restore, ready, check
<1>3. a.timeout = timeout /\ a.restore = restore /\ a.ready = ready /\ a.check = check
  BY <1>1, <1>2
<1>4. a.timeout = OrDefault(o.timeout, DefaultDurations.timeout)
  BY <1>3 DEF timeout
<1>5. a.restore = Clamp(OrDefault(o.restore, DefaultDurations.restore), a.timeout \div 2)
  BY <1>3 DEF restore
<1>6. a.ready = Clamp(OrDefault(o.ready, DefaultDurations.ready), a.timeout \div 4)
  BY <1>3 DEF ready
<1>7. a.check = Clamp(OrDefault(o.check, DefaultDurations.check), a.timeout \div 8)
  BY <1>3 DEF check
<1> QED BY <1>4, <1>5, <1>6, <1>7

\* It leaves the rest alone, but for what says nothing.
LEMMA AppliedRest ==
  ASSUME NEW o, Fits(o), NEW a, a = ApplyDefaults(o)
  PROVE  /\ a.pull = o.pull /\ a.kind = First(o.kind, "restic", "")
         /\ a.from = o.from /\ a.workspace = o.workspace
         /\ a.target = o.target /\ a.host = o.host /\ a.snapshot = o.snapshot
<1>1. /\ "pull" \in DOMAIN o /\ "kind" \in DOMAIN o /\ "from" \in DOMAIN o /\ "workspace" \in DOMAIN o
      /\ "target" \in DOMAIN o /\ "host" \in DOMAIN o /\ "snapshot" \in DOMAIN o
  BY DEF Fits, NoOptions
<1>2. First(o.pull, "missing", "") = o.pull
  BY DEF Fits, Pulls, First
<1> QED BY <1>1, <1>2 DEF ApplyDefaults

-----------------------------------------------------------------------------
(* TypeOK.                                                                 *)

\* got is a share of the run, and no more than asked for.
CutTo(want, default, timeout, part, got) ==
  LET asked == IF want > 0 THEN want ELSE default IN
  /\ got \in Nat
  /\ got = 0 => timeout \in 1..7
  /\ got * part <= timeout /\ got <= asked
  /\ got < asked => (got + 1) * part > timeout

\* Clamp gives such a share.
LEMMA BudgetIs ==
  ASSUME NEW want \in Int, NEW default \in Nat \ {0}, NEW timeout \in Nat \ {0}, NEW part \in {2, 4, 8},
         NEW got, got = Clamp(OrDefault(want, default), timeout \div part)
  PROVE  CutTo(want, default, timeout, part, got)
<1> DEFINE asked == IF want > 0 THEN want ELSE default
<1>1. OrDefault(want, default) = asked /\ asked \in Nat \ {0}
  BY DEF OrDefault
<1>2. got = IF asked > timeout \div part THEN timeout \div part ELSE asked
  BY <1>1 DEF Clamp
<1> HIDE DEF asked
<1>3. \/ part = 2 /\ got = (IF asked > timeout \div 2 THEN timeout \div 2 ELSE asked)
      \/ part = 4 /\ got = (IF asked > timeout \div 4 THEN timeout \div 4 ELSE asked)
      \/ part = 8 /\ got = (IF asked > timeout \div 8 THEN timeout \div 8 ELSE asked)
  BY <1>2
<1>4. /\ got \in Nat
      /\ got = 0 => timeout \in 1..7
      /\ got * part <= timeout /\ got <= asked
      /\ got < asked => (got + 1) * part > timeout
  BY <1>1, <1>3
<1> QED BY <1>4 DEF asked, CutTo

\* A stage's budget is what it should be.
Right(o, a, stage, part) ==
  LET want == IF o[stage] > 0 THEN o[stage] ELSE DefaultDurations[stage] IN
  /\ a[stage] \in Nat
  /\ a[stage] = 0 => a.timeout \in 1..7
  /\ a[stage] * part <= a.timeout /\ a[stage] <= want
  /\ a[stage] < want => (a[stage] + 1) * part > a.timeout

\* The budgets of a drill.
LEMMA BudgetsAre ==
  ASSUME NEW o, Fits(o), NEW a, a = ApplyDefaults(o)
  PROVE  /\ a.timeout \in Nat \ {0} /\ (o.timeout > 0 => a.timeout = o.timeout)
         /\ Right(o, a, "restore", 2) /\ Right(o, a, "ready", 4) /\ Right(o, a, "check", 8)
<1>1. /\ a.timeout = OrDefault(o.timeout, DefaultDurations.timeout)
      /\ a.restore = Clamp(OrDefault(o.restore, DefaultDurations.restore), a.timeout \div 2)
      /\ a.ready = Clamp(OrDefault(o.ready, DefaultDurations.ready), a.timeout \div 4)
      /\ a.check = Clamp(OrDefault(o.check, DefaultDurations.check), a.timeout \div 8)
  BY AppliedBudgets
<1>2. o.timeout \in Int /\ o.restore \in Int /\ o.ready \in Int /\ o.check \in Int
  BY DEF Fits, Durations
<1>3. \A stage \in Durations : DefaultDurations[stage] \in Nat \ {0}
  BY DEF DefaultDurations, Durations
<1>4. a.timeout \in Nat \ {0} /\ (o.timeout > 0 => a.timeout = o.timeout)
  <2>1. DefaultDurations.timeout \in Nat \ {0}
    BY <1>3 DEF Durations
  <2> QED BY <1>1, <1>2, <2>1 DEF OrDefault
<1>5. \A stage \in {"restore", "ready", "check"} : stage \in Durations
  BY DEF Durations
<1>6. Right(o, a, "restore", 2)
  BY <1>1, <1>2, <1>3, <1>4, <1>5, BudgetIs DEF Right, CutTo
<1>7. Right(o, a, "ready", 4)
  BY <1>1, <1>2, <1>3, <1>4, <1>5, BudgetIs DEF Right, CutTo
<1>8. Right(o, a, "check", 8)
  BY <1>1, <1>2, <1>3, <1>4, <1>5, BudgetIs DEF Right, CutTo
<1> QED BY <1>4, <1>6, <1>7, <1>8

\* What is chosen is one snapshot at most.
LEMMA OneChosen ==
  ASSUME NEW snaps \in SUBSET Snapshots, NEW spec
  PROVE  Cardinality(Select(snaps, spec)) <= 1
<1>0. /\ IsFiniteSet(Snapshots) /\ IsFiniteSet({}) /\ Cardinality({}) = 0
      /\ \A s \in Snapshots : s.time \in Nat /\ s.id \in Nat
      /\ \A s, other \in Snapshots : s.id = other.id => s = other
  BY ConstantsAssumption, FS_EmptySet
<1>1. CASE spec = Latest
  <2> DEFINE latest == {s \in snaps : \A other \in snaps :
                          other.time < s.time \/ (other.time = s.time /\ other.id <= s.id)}
  <2>1. Select(snaps, spec) = latest
    BY <1>1 DEF Select
  <2>2. \A s, other \in latest : s = other
    <3> SUFFICES ASSUME NEW s \in latest, NEW other \in latest PROVE s = other
      OBVIOUS
    <3>1. /\ other.time < s.time \/ (other.time = s.time /\ other.id <= s.id)
          /\ s.time < other.time \/ (s.time = other.time /\ s.id <= other.id)
      OBVIOUS
    <3>2. s \in Snapshots /\ other \in Snapshots
      OBVIOUS
    <3>3. s.time \in Nat /\ s.id \in Nat /\ other.time \in Nat /\ other.id \in Nat
      BY <1>0, <3>2
    <3>4. s.id = other.id
      BY <3>1, <3>3
    <3> QED BY <1>0, <3>2, <3>4
  <2> HIDE DEF latest
  <2>3. latest = {} \/ \E s : latest = {s}
    BY <2>2
  <2>4. \A x : Cardinality({x}) = 1
    BY FS_Singleton
  <2>5. Cardinality(latest) \in {0, 1}
    BY <1>0, <2>3, <2>4, Zenon
  <2> QED BY <2>1, <2>5
<1>2. CASE spec # Latest
  <2> DEFINE named == {s \in snaps : s.prefix = spec.prefix /\ spec.id \in {0, s.id}}
  <2>1. Select(snaps, spec) = IF Cardinality(named) = 1 THEN named ELSE {}
    BY <1>2 DEF Select
  <2> HIDE DEF named
  <2> QED BY <1>0, <2>1
<1> QED BY <1>1, <1>2

\* Every drill has what it needs: a consequence of what its options are.
LEMMA Typing == IInv => TypeOK
<1> SUFFICES ASSUME IInv PROVE TypeOK
  OBVIOUS
<1>1. Given /\ Position /\ Resolved /\ Started /\ Fetched
  BY DEF IInv
<1>2. /\ DOMAIN runs = 1..Len(runs) /\ DOMAIN fetched = 1..Len(fetched)
      /\ Len(runs) \in Nat /\ Len(jobs) \in Nat
      /\ fetched \in Seq([listed : SUBSET Snapshots, chosen : SUBSET Snapshots])
  BY <1>1, LenProperties DEF Started, Fetched, Resolved
<1>3. ASSUME NEW k \in DOMAIN runs
      PROVE  LET o == runs[k] IN
             /\ o.kind # "" /\ o.pull \in Pulls
             /\ o.from.at \in 0..Places /\ o.workspace.at \in 0..Places
             /\ \A d \in Durations : o[d] \in Nat /\ (o[d] = 0 => o.timeout \in 1..7)
  <2> DEFINE a == runs[k]
  <2>1. k \in 1..Len(runs) /\ k \in 1..Len(jobs)
    BY <1>1, <1>2 DEF Started
  <2>2. a = ApplyDefaults(jobs[k]) /\ Fits(jobs[k])
    BY <1>1, <2>1, AskedFits DEF Started
  <2> HIDE DEF a
  <2>3. /\ a.pull = jobs[k].pull /\ a.kind = First(jobs[k].kind, "restic", "")
        /\ a.from = jobs[k].from /\ a.workspace = jobs[k].workspace
    BY <2>2, AppliedRest
  <2>4. /\ a.timeout \in Nat \ {0}
        /\ a.restore \in Nat /\ (a.restore = 0 => a.timeout \in 1..7)
        /\ a.ready \in Nat /\ (a.ready = 0 => a.timeout \in 1..7)
        /\ a.check \in Nat /\ (a.check = 0 => a.timeout \in 1..7)
    BY <2>2, BudgetsAre DEF Right
  <2>5. a.kind # ""
    BY <2>3 DEF First
  <2>6. \A d \in Durations : a[d] \in Nat /\ (a[d] = 0 => a.timeout \in 1..7)
    BY <2>4 DEF Durations
  <2> QED BY <2>2, <2>3, <2>5, <2>6 DEF Fits, a
<1>4. ASSUME NEW k \in DOMAIN fetched
      PROVE  /\ fetched[k].listed \subseteq Snapshots /\ fetched[k].chosen \subseteq fetched[k].listed
             /\ Cardinality(fetched[k].chosen) <= 1
  <2>1. k \in 1..Len(fetched) /\ fetched[k] \in [listed : SUBSET Snapshots, chosen : SUBSET Snapshots]
    BY <1>2, ElementOfSeq
  <2>2. fetched[k].chosen = Select(fetched[k].listed, runs[k].snapshot)
    BY <1>1, <2>1 DEF Fetched
  <2>3. fetched[k].listed \in SUBSET Snapshots
    BY <2>1
  <2>4. Select(fetched[k].listed, runs[k].snapshot) \subseteq fetched[k].listed
    BY DEF Select
  <2> QED BY <2>2, <2>3, <2>4, OneChosen
<1>5. /\ pc \in {"parse", "recipe", "test", "discover", "load", "select", "resolve", "run",
                 "fetch", "refused", "done"}
      /\ place \in 0..Places
  BY <1>1 DEF Position
<1>6. Len(fetched) = Len(runs) - (IF pc = "fetch" THEN 1 ELSE 0)
  BY <1>1 DEF Fetched
<1> QED BY <1>3, <1>4, <1>5, <1>6 DEF TypeOK

\* TypeOK: whatever the flags, the config and the repository, a drill that starts has
\* a source, a pull policy and budgets, and restores at most one snapshot.
THEOREM TypeCorrect == Spec => []TypeOK
BY Invariance, Typing, PTL

-----------------------------------------------------------------------------
(* NothingRunsUnresolved.                                                  *)

\* A target is one of its name.
LEMMA NamesTell ==
  ASSUME Loaded, NEW k \in DOMAIN config.targets
  PROVE  /\ (CHOOSE l \in DOMAIN config.targets : config.targets[l].name = config.targets[k].name) = k
         /\ (CHOOSE t \in Targets : t.name = config.targets[k].name) = config.targets[k]
<1>1. \A l \in DOMAIN config.targets : config.targets[l].name = config.targets[k].name => l = k
  BY LoadedIs DEF IsConfig
<1>2. \A t \in Targets : t.name = config.targets[k].name => t = config.targets[k]
  BY <1>1 DEF Targets
<1>3. config.targets[k] \in Targets
  BY DEF Targets
<1> QED BY <1>1, <1>2, <1>3

\* --all means the targets that are not disabled, in the order of the file.
LEMMA AllAreWanted ==
  ASSUME Loaded, command.modes = {"all"}
  PROVE  LET pos(name) == CHOOSE k \in DOMAIN config.targets : config.targets[k].name = name IN
         /\ {Wanted[k] : k \in 1..Len(Wanted)} = {t.name : t \in {t \in Targets : t.enabled # "no"}}
         /\ \A k, l \in 1..Len(Wanted) : k < l => pos(Wanted[k]) < pos(Wanted[l])
<1> DEFINE s == config.targets
           S == {t \in Targets : Enabled(t)}
           r == Selected(s, S)
           pos(name) == CHOOSE k \in DOMAIN s : s[k].name = name
<1>1. s \in Seq(Targets) /\ \A t \in Targets : \E k \in DOMAIN s : t = s[k]
  BY LoadedIs
<1>2. Wanted = [k \in DOMAIN r |-> r[k].name]
  BY DEF Wanted, EnabledTargets
<1> HIDE DEF r, S, s
<1>3. PICK g : r \in Seq(Targets) /\ Picks(s, S, Len(s), r, g)
  BY <1>1, SelectedPicks DEF r
<1>4. /\ Len(r) \in Nat /\ DOMAIN r = 1..Len(r) /\ DOMAIN s = 1..Len(s) /\ Len(s) \in Nat
  BY <1>1, <1>3, LenProperties
<1>5. Len(Wanted) = Len(r) /\ \A k \in 1..Len(r) : Wanted[k] = r[k].name
  BY <1>2, <1>4
<1>6. \A j \in 1..Len(r) : g[j] \in 1..Len(s) /\ r[j] = s[g[j]] /\ s[g[j]] \in S
  BY <1>3 DEF Picks
<1>7. \A i \in 1..Len(s) : s[i] \in S => \E j \in 1..Len(r) : g[j] = i
  BY <1>3 DEF Picks
<1>8. S = {t \in Targets : t.enabled # "no"}
  BY DEF S, Enabled
<1>9. {Wanted[k] : k \in 1..Len(Wanted)} = {t.name : t \in S}
  <2>1. \A k \in 1..Len(r) : \E t \in S : Wanted[k] = t.name
    BY <1>5, <1>6
  <2>2. \A t \in S : \E k \in 1..Len(r) : Wanted[k] = t.name
    <3> SUFFICES ASSUME NEW t \in S PROVE \E k \in 1..Len(r) : Wanted[k] = t.name
      OBVIOUS
    <3>1. PICK i \in 1..Len(s) : t = s[i]
      BY <1>1, <1>4, <1>8
    <3>2. PICK j \in 1..Len(r) : g[j] = i
      BY <1>7, <3>1
    <3> QED BY <1>5, <1>6, <3>1, <3>2
  <2>3. {Wanted[k] : k \in 1..Len(Wanted)} = {Wanted[k] : k \in 1..Len(r)}
    BY <1>5
  <2>4. {Wanted[k] : k \in 1..Len(r)} \subseteq {t.name : t \in S}
    BY <2>1
  <2>5. {t.name : t \in S} \subseteq {Wanted[k] : k \in 1..Len(r)}
    BY <2>2
  <2> QED BY <2>3, <2>4, <2>5
<1>10. \A j \in 1..Len(r) : pos(Wanted[j]) = g[j]
  <2>1. \A k \in DOMAIN s : pos(s[k].name) = k
    BY NamesTell DEF s
  <2> HIDE DEF pos
  <2> QED BY <1>4, <1>5, <1>6, <2>1
<1>11. \A i, j \in 1..Len(r) : i < j => g[i] < g[j]
  BY <1>3 DEF Picks
<1> HIDE DEF pos
<1>12. \A k, l \in 1..Len(Wanted) : k < l => pos(Wanted[k]) < pos(Wanted[l])
  BY <1>5, <1>10, <1>11
<1> QED BY <1>8, <1>9, <1>12 DEF pos, s

\* What was resolved, when something may run, is what was wanted.
LEMMA AllResolved ==
  ASSUME IInv, FromFile, pc \in {"run", "done"}
  PROVE  /\ Loaded /\ DOMAIN jobs = 1..Len(Wanted) /\ Len(Wanted) \in Nat
         /\ \A k \in 1..Len(Wanted) : jobs[k].target = Wanted[k]
<1>1. Position /\ Progress /\ Resolved
  BY DEF IInv
<1>2. Loaded
  BY <1>1 DEF Position
<1>3. /\ names = <<>>
      /\ Len(jobs) + Len(names) = Len(Wanted)
      /\ \A k \in 1..Len(jobs) : jobs[k].target = Wanted[k]
  BY <1>1 DEF Progress
<1>4. Len(names) = 0 /\ Len(jobs) \in Nat /\ DOMAIN jobs = 1..Len(jobs)
  BY <1>1, <1>3, LenProperties DEF Resolved
<1> QED BY <1>2, <1>3, <1>4

\* Nothing runs before all is resolved: from where the targets of the jobs come.
LEMMA Resolving == IInv => NothingRunsUnresolved
<1> SUFFICES ASSUME IInv PROVE NothingRunsUnresolved
  OBVIOUS
<1> DEFINE pos(name) == CHOOSE k \in DOMAIN config.targets : config.targets[k].name = name
<1>1. Given /\ Position /\ Resolved /\ Progress /\ Started
  BY DEF IInv
<1>2. runs # <<>> => pc \in {"run", "fetch", "done"} /\ names = <<>>
  BY <1>1 DEF Started, Progress
<1>3. ASSUME pc \in {"run", "done"}, command.modes = {"target"}
      PROVE  [k \in DOMAIN jobs |-> jobs[k].target] = <<command.target>>
  <2>1. FromFile /\ Wanted = <<command.target>>
    BY <1>3 DEF FromFile, Wanted
  <2>2. Len(Wanted) = 1 /\ Wanted[1] = command.target
    BY <2>1
  <2>3. DOMAIN jobs = 1..1 /\ \A k \in 1..1 : jobs[k].target = command.target
    BY <1>3, <2>1, <2>2, AllResolved
  <2> QED BY <2>3
<1>4. ASSUME pc \in {"run", "done"}, command.modes = {"all"}
      PROVE  /\ {jobs[k].target : k \in DOMAIN jobs} = {t.name : t \in {t \in Targets : t.enabled # "no"}}
             /\ \A k, l \in DOMAIN jobs : k < l => pos(jobs[k].target) < pos(jobs[l].target)
  <2>1. FromFile
    BY <1>4 DEF FromFile
  <2>2. Loaded /\ DOMAIN jobs = 1..Len(Wanted) /\ \A k \in 1..Len(Wanted) : jobs[k].target = Wanted[k]
    BY <1>4, <2>1, AllResolved
  <2>3. /\ {Wanted[k] : k \in 1..Len(Wanted)} = {t.name : t \in {t \in Targets : t.enabled # "no"}}
        /\ \A k, l \in 1..Len(Wanted) : k < l => pos(Wanted[k]) < pos(Wanted[l])
    BY <1>4, <2>2, AllAreWanted
  <2>4. {jobs[k].target : k \in DOMAIN jobs} = {Wanted[k] : k \in 1..Len(Wanted)}
    BY <2>2
  <2> HIDE DEF pos
  <2>5. \A k, l \in DOMAIN jobs : k < l => pos(jobs[k].target) < pos(jobs[l].target)
    BY <2>2, <2>3
  <2> QED BY <2>3, <2>4, <2>5
<1>5. ASSUME NEW k \in DOMAIN runs PROVE runs[k].target = jobs[k].target
  <2>1. DOMAIN runs = 1..Len(runs) /\ Len(runs) \in Nat /\ Len(jobs) \in Nat
    BY <1>1, LenProperties DEF Started, Resolved
  <2>2. k \in 1..Len(runs) /\ k \in 1..Len(jobs)
    BY <1>1, <2>1 DEF Started
  <2> QED BY <1>1, <2>2, AskedFits, AppliedRest DEF Started
<1> QED BY <1>2, <1>3, <1>4, <1>5 DEF NothingRunsUnresolved

\* NothingRunsUnresolved: no drill starts before the last target is resolved, and
\* those that start are the targets that were asked for, in the order of the file.
THEOREM NothingRunsEarly == Spec => []NothingRunsUnresolved
BY Invariance, Resolving, PTL

-----------------------------------------------------------------------------
(* RunsGetWhatWasAsked, part by part.                                      *)

\* A job that has a target is that of a target, by the flags that were typed.
LEMMA FromTarget ==
  ASSUME IInv, NEW k \in FromConfig
  PROVE  LET t == TargetOf(jobs[k]) IN
         /\ Given /\ Loaded
         /\ t \in Targets /\ Resolvable(t) /\ jobs[k] = WithFlags(ConfigJob(t))
<1>1. Given /\ Resolved
  BY DEF IInv
<1>2. jobs[k].target # ""
  BY DEF FromConfig
<1> k \in 1..Len(jobs)
  BY <1>1, LenProperties DEF FromConfig, Resolved
<1>3. jobs[k] \in Asked
  BY <1>1, AskedFits
<1>4. jobs # <<>>
  BY <1>1, AskedFits
<1>5. command.modes # {"recipe"}
  <2>1. FlagOptions.target = ""
    BY DEF FlagOptions, NoOptions
  <2> QED BY <1>2, <1>3, <2>1 DEF Asked
<1>6. command.modes # {"test"}
  <2>1. DrillA.target = "" /\ DrillB.target = ""
    BY DEF DrillA, DrillB, TestOptions, NoOptions
  <2>2. command.modes = {"test"} => Asked = {DrillA, DrillB}
    BY DEF Asked
  <2> QED BY <1>2, <1>3, <2>1, <2>2
<1>7. Loaded
  BY <1>1, <1>4, <1>5, <1>6 DEF Resolved
<1>8. Asked = {WithFlags(ConfigJob(t)) : t \in {t \in Targets : Resolvable(t)}}
  BY <1>5, <1>6, <1>7 DEF Asked
<1>9. PICK t \in Targets : Resolvable(t) /\ jobs[k] = WithFlags(ConfigJob(t))
  BY <1>3, <1>8
<1>10. jobs[k].target = t.name
  BY <1>9, ConfigJobIs
<1>11. TargetOf(jobs[k]) = t
  <2>1. PICK l \in DOMAIN config.targets : t = config.targets[l]
    BY DEF Targets
  <2>2. (CHOOSE x \in Targets : x.name = t.name) = t
    BY <1>7, <2>1, NamesTell
  <2> QED BY <1>10, <2>2 DEF TargetOf
<1> QED BY <1>1, <1>7, <1>9, <1>11

\* The first of four layers that says something, as PrecedenceHolds has it.
Strongest(t, s, unsaid, default) ==
  LET layers == << IF Typed(s) THEN command.typed[s] ELSE unsaid,
                   t[s], config.defaults[s], default >>
      says == {l \in 1..4 : layers[l] # unsaid \/ (l = 1 /\ Typed(s)) \/ l = 4}
  IN  layers[CHOOSE l \in says : \A m \in says : l <= m]

\* It is the one of Pick and Says.
LEMMA FirstWins ==
  ASSUME NEW t, NEW s, NEW unsaid, NEW default, NEW value,
         value = Pick(s, default, Says(t, s, unsaid), unsaid)
  PROVE  value = Strongest(t, s, unsaid, default)
<1> DEFINE typed == IF Typed(s) THEN command.typed[s] ELSE unsaid
           layers == <<typed, t[s], config.defaults[s], default>>
           says == {l \in 1..4 : layers[l] # unsaid \/ (l = 1 /\ Typed(s)) \/ l = 4}
           first == CHOOSE l \in says : \A m \in says : l <= m
<1>1. /\ layers[1] = typed /\ layers[2] = t[s] /\ layers[3] = config.defaults[s] /\ layers[4] = default
  OBVIOUS
<1>2. \A c \in says : (\A m \in says : c <= m) => first = c
  <2>1. says \subseteq 1..4
    OBVIOUS
  <2> HIDE DEF says
  <2> SUFFICES ASSUME NEW c \in says, \A m \in says : c <= m PROVE first = c
    OBVIOUS
  <2>2. first \in says /\ \A m \in says : first <= m
    OBVIOUS
  <2> HIDE DEF first
  <2> QED BY <2>1, <2>2
<1>3. Typed(s) => typed = command.typed[s]
  OBVIOUS
<1>4. ~Typed(s) => typed = unsaid
  OBVIOUS
<1> HIDE DEF typed, layers, first
<1>5. \A l : l \in says <=> l \in 1..4 /\ (layers[l] # unsaid \/ (l = 1 /\ Typed(s)) \/ l = 4)
  OBVIOUS
<1> HIDE DEF says
<1>6. ASSUME Typed(s) PROVE value = layers[first]
  <2>1. first = 1
    BY <1>2, <1>5, <1>6
  <2>2. value = command.typed[s]
    BY <1>6 DEF Pick, Flag
  <2> QED BY <1>1, <1>3, <1>6, <2>1, <2>2
<1>7. ASSUME ~Typed(s), t[s] # unsaid PROVE value = layers[first]
  <2>1. first = 2
    BY <1>1, <1>2, <1>4, <1>5, <1>7
  <2>2. value = t[s]
    BY <1>7 DEF Pick, Says, First
  <2> QED BY <1>1, <2>1, <2>2
<1>8. ASSUME ~Typed(s), t[s] = unsaid, config.defaults[s] # unsaid PROVE value = layers[first]
  <2>1. first = 3
    BY <1>1, <1>2, <1>4, <1>5, <1>8
  <2>2. value = config.defaults[s]
    BY <1>8 DEF Pick, Says, First
  <2> QED BY <1>1, <2>1, <2>2
<1>9. ASSUME ~Typed(s), t[s] = unsaid, config.defaults[s] = unsaid PROVE value = layers[first]
  <2>1. first = 4
    BY <1>1, <1>2, <1>4, <1>5, <1>9
  <2>2. value = default
    BY <1>9 DEF Pick, Says, First, Flag
  <2> QED BY <1>1, <2>1, <2>2
<1>10. value = layers[first]
  BY <1>6, <1>7, <1>8, <1>9
<1> QED BY <1>10 DEF Strongest, first, says, layers, typed

\* Of four layers the strongest that says anything wins.
LEMMA Precedence == IInv => PrecedenceHolds
<1> SUFFICES ASSUME IInv PROVE PrecedenceHolds
  OBVIOUS
<1>1. ASSUME NEW k \in FromConfig
      PROVE  LET o == jobs[k]
                 t == TargetOf(o) IN
             /\ \A s \in Durations : o[s] = Strongest(t, s, 0, DefaultDurations[s])
             /\ o["pull"] = Strongest(t, "pull", "", "missing")
             /\ \A v \in DOMAIN t.vars \ DOMAIN command.vars : o.vars[v] = t.vars[v]
             /\ \A v \in DOMAIN command.vars : o.vars[v] = command.vars[v]
  <2> DEFINE o == jobs[k]
             t == TargetOf(o)
  <2>1. o = WithFlags(ConfigJob(t))
    BY FromTarget
  <2> HIDE DEF t
  <2>2. /\ \A d \in Durations : o[d] = Pick(d, DefaultDurations[d], Says(t, d, 0), 0)
        /\ o["pull"] = Pick("pull", "missing", Says(t, "pull", ""), "")
        /\ o.vars = Merged(t.vars, command.vars)
    BY <2>1, ConfigJobIs
  <2> HIDE DEF o
  <2>3. \A s \in Durations : o[s] = Strongest(t, s, 0, DefaultDurations[s])
    <3> SUFFICES ASSUME NEW s \in Durations PROVE o[s] = Strongest(t, s, 0, DefaultDurations[s])
      OBVIOUS
    <3>1. o[s] = Pick(s, DefaultDurations[s], Says(t, s, 0), 0)
      BY <2>2
    <3> QED BY <3>1, FirstWins
  <2>4. o["pull"] = Strongest(t, "pull", "", "missing")
    BY <2>2, FirstWins
  <2>5. /\ \A v \in DOMAIN t.vars \ DOMAIN command.vars : o.vars[v] = t.vars[v]
        /\ \A v \in DOMAIN command.vars : o.vars[v] = command.vars[v]
    BY <2>2 DEF Merged
  <2> QED BY <2>3, <2>4, <2>5 DEF o, t
<1> QED BY <1>1, Zenon DEF PrecedenceHolds, Strongest

\* A source is one of the config or typed, and paths stay where they belong.
LEMMA Sources == IInv => SourceIsWhole
<1> SUFFICES ASSUME IInv, NEW k \in FromConfig
             PROVE  LET o == jobs[k] IN
                    /\ IF o.env = {} THEN (Typed("source") /\ Typed("from")) \/ o.kind = "dir"
                       ELSE /\ ~Typed("source")
                            /\ \A name \in o.env :
                                 /\ config.sources[name].kind = o.kind
                                 /\ o.from.name = config.sources[name].from \/ Typed("from")
                    /\ \A p \in {o.from, o.workspace, o.recipe} :
                         p.at # 0 => p.at = place /\ p.name \notin Rooted
                    /\ o.recipe.at = 0 => o.recipe.name \in Bundled \cup Rooted
                    /\ o.workspace.at = 0 => Typed("workspace") \/ o.workspace.name \in Rooted \cup {""}
  BY DEF SourceIsWhole
<1> DEFINE o == jobs[k]
           t == TargetOf(o)
           s == config.sources[SourceName(config, t)]
<1>1. Given /\ Loaded /\ t \in Targets /\ Resolvable(t) /\ o = WithFlags(ConfigJob(t))
  BY FromTarget
<1> HIDE DEF t
<1>2. /\ o.recipe = RecipeRef(t)
      /\ o.kind = Flag("source", s.kind)
      /\ o.from = Flag("from", IF s.kind = "dir" THEN HostPath(s.from) ELSE As(s.from))
      /\ o.env = IF Typed("source") \/ s.kind = "dir" THEN {} ELSE {SourceName(config, t)}
      /\ o.workspace = Pick("workspace", NoPath, HostPath(Says(t, "workspace", "")), NoPath)
  BY <1>1, ConfigJobIs
<1> HIDE DEF o
<1>3. Typed("source") => Typed("from")
  BY <1>1 DEF Resolvable
<1>4. t.recipe # "" /\ place # 0 /\ Places \in Nat
  <2>1. PICK l \in DOMAIN config.targets : t = config.targets[l]
    BY <1>1 DEF Targets
  <2>2. place \in 1..Places /\ Places \in Nat
    BY <1>1, ConstantsAssumption DEF Loaded
  <2>3. config.targets[l].recipe # ""
    BY <1>1 DEF Loaded, Validate
  <2>4. place # 0
    BY <2>2
  <2> QED BY <2>1, <2>2, <2>3, <2>4, Zenon
<1>5. \A name : As(name).at = 0 /\ As(name).name = name
  BY DEF As
<1>6. NoPath.at = 0 /\ NoPath.name = ""
  BY DEF NoPath, As
<1>7. Flag("from", NoPath).at = 0 /\ Flag("workspace", NoPath).at = 0
  BY <1>1, FlagsAre
<1>8. IF o.env = {} THEN (Typed("source") /\ Typed("from")) \/ o.kind = "dir"
      ELSE /\ ~Typed("source")
           /\ \A name \in o.env : /\ config.sources[name].kind = o.kind
                                  /\ o.from.name = config.sources[name].from \/ Typed("from")
  <2>1. CASE Typed("source")
    BY <1>2, <1>3, <2>1
  <2>2. CASE ~Typed("source") /\ s.kind = "dir"
    BY <1>2, <2>2 DEF Flag
  <2>3. CASE ~Typed("source") /\ s.kind # "dir"
    <3>1. o.env = {SourceName(config, t)} /\ o.kind = s.kind
      BY <1>2, <2>3 DEF Flag
    <3>2. Typed("from") \/ o.from.name = s.from
      BY <1>2, <1>5, <2>3 DEF Flag
    <3> QED BY <2>3, <3>1, <3>2
  <2> QED BY <2>1, <2>2, <2>3
<1> HIDE DEF s
<1>9. o.from.at # 0 => o.from.at = place /\ o.from.name \notin Rooted
  <2>1. o.from \in {Flag("from", NoPath), HostPath(s.from), As(s.from)}
    BY <1>2 DEF Flag
  <2> QED BY <1>5, <1>7, <2>1, HostPathIs
<1>10. /\ o.workspace.at # 0 => o.workspace.at = place /\ o.workspace.name \notin Rooted
       /\ o.workspace.at = 0 => Typed("workspace") \/ o.workspace.name \in Rooted \cup {""}
  <2> DEFINE said == HostPath(Says(t, "workspace", ""))
  <2>1. CASE Typed("workspace")
    <3>1. o.workspace = Flag("workspace", NoPath)
      BY <1>2, <2>1 DEF Pick
    <3> QED BY <1>7, <2>1, <3>1
  <2>2. CASE ~Typed("workspace") /\ said = NoPath
    <3>1. o.workspace = NoPath
      BY <1>2, <2>2 DEF Pick, Flag
    <3> QED BY <1>6, <3>1
  <2>3. CASE ~Typed("workspace") /\ said # NoPath
    <3>1. o.workspace = said
      BY <1>2, <2>3 DEF Pick
    <3>2. /\ said.at # 0 => said.at = place /\ said.name \notin Rooted
          /\ place # 0 /\ said.at = 0 => said.name \in Rooted \cup {""}
      BY HostPathIs
    <3> QED BY <1>4, <3>1, <3>2
  <2> QED BY <2>1, <2>2, <2>3
<1>11. /\ o.recipe.at # 0 => o.recipe.at = place /\ o.recipe.name \notin Rooted
       /\ o.recipe.at = 0 => o.recipe.name \in Bundled \cup Rooted
  <2>1. CASE t.recipe \in Bundled
    BY <1>2, <1>5, <2>1 DEF RecipeRef
  <2>2. CASE t.recipe \notin Bundled
    <3>1. o.recipe = HostPath(t.recipe)
      BY <1>2, <2>2 DEF RecipeRef
    <3> QED BY <1>4, <3>1, HostPathIs
  <2> QED BY <2>1, <2>2
<1> QED BY <1>8, <1>9, <1>10, <1>11 DEF o

\* The shares of a recipe test add up.
LEMMA SharesAdd ==
  ASSUME NEW T \in Int, T >= 4
  PROVE  /\ Share(T, 5) > 0 /\ Share(T, 7) > 0
         /\ Share(T, 5) + Share(T, 7) + Share(T, 5) + Share(T, 3) <= T
BY DEF Share

\* Stage budgets lie in the run's, and the two drills of a test in the test's.
LEMMA Budgets == IInv => BudgetsNest
<1> SUFFICES ASSUME IInv PROVE BudgetsNest
  OBVIOUS
<1>1. Given /\ Resolved /\ Started
  BY DEF IInv
<1>2. DOMAIN runs = 1..Len(runs) /\ Len(runs) \in Nat /\ Len(jobs) \in Nat
  BY <1>1, LenProperties DEF Started, Resolved
<1>3. ASSUME NEW k \in 1..Len(runs)
      PROVE  /\ Fits(jobs[k]) /\ runs[k] = ApplyDefaults(jobs[k])
             /\ Right(jobs[k], runs[k], "restore", 2) /\ Right(jobs[k], runs[k], "ready", 4)
             /\ Right(jobs[k], runs[k], "check", 8)
             /\ jobs[k].timeout > 0 => runs[k].timeout = jobs[k].timeout
  <2>1. k \in 1..Len(jobs)
    BY <1>1, <1>2 DEF Started
  <2>2. Fits(jobs[k]) /\ runs[k] = ApplyDefaults(jobs[k])
    BY <1>1, <2>1, AskedFits DEF Started
  <2> QED BY <2>2, BudgetsAre
<1>4. ASSUME command.modes = {"test"}, Len(runs) = 2, TestTimeout >= 4
      PROVE  runs[1].timeout + runs[2].timeout + Share(TestTimeout, 5) + Share(TestTimeout, 3)
               <= TestTimeout
  <2>1. jobs \in {<<>>, <<DrillA, DrillB>>, <<DrillA>>, <<DrillB>>}
    BY <1>1, <1>4 DEF Resolved
  <2>0. Len(jobs) # 0 /\ Len(jobs) # 1
    BY <1>1, <1>2, <1>4 DEF Started
  <2>2. jobs = <<DrillA, DrillB>>
    <3>1. /\ jobs = <<>> => Len(jobs) = 0
          /\ jobs = <<DrillA>> => Len(jobs) = 1
          /\ jobs = <<DrillB>> => Len(jobs) = 1
      OBVIOUS
    <3> QED BY <2>0, <2>1, <3>1, Zenon
  <2>3. jobs[1] = DrillA /\ jobs[2] = DrillB
    BY <2>2
  <2>4. DrillA.timeout = Share(TestTimeout, 5) /\ DrillB.timeout = Share(TestTimeout, 7)
    BY DEF DrillA, DrillB, TestOptions, NoOptions
  <2>5. TestTimeout \in Int
    BY <1>1, FlagsAre DEF TestTimeout, OrDefault, DefaultTestTimeout
  <2>6. 1 \in 1..Len(runs) /\ 2 \in 1..Len(runs)
    BY <1>4
  <2>7. /\ Share(TestTimeout, 5) > 0 /\ Share(TestTimeout, 7) > 0
        /\ Share(TestTimeout, 5) + Share(TestTimeout, 7) + Share(TestTimeout, 5) + Share(TestTimeout, 3)
             <= TestTimeout
    BY <1>4, <2>5, SharesAdd
  <2>8. runs[1].timeout = Share(TestTimeout, 5) /\ runs[2].timeout = Share(TestTimeout, 7)
    BY <1>3, <2>3, <2>4, <2>6, <2>7
  <2> QED BY <2>7, <2>8
<1>5. \A k \in DOMAIN runs :
        /\ Right(jobs[k], runs[k], "restore", 2) /\ Right(jobs[k], runs[k], "ready", 4)
        /\ Right(jobs[k], runs[k], "check", 8)
        /\ jobs[k].timeout > 0 => runs[k].timeout = jobs[k].timeout
  BY <1>2, <1>3
<1> QED BY <1>4, <1>5 DEF BudgetsNest, Right

\* One of finitely many has the greatest number.
LEMMA GreatestBy ==
  ASSUME NEW S, IsFiniteSet(S), S # {}, NEW f \in [S -> Nat]
  PROVE  \E s \in S : \A x \in S : f[x] <= f[s]
<1> DEFINE n == Cardinality(S)
<1>1. n \in Nat /\ ExistsBijection(1..n, S)
  BY FS_CardinalityType
<1> HIDE DEF n
<1>2. PICK b \in [1..n -> S] : \A s \in S : \E i \in 1..n : b[i] = s
  BY <1>1 DEF ExistsBijection, Bijection, Injection, Surjection
<1> DEFINE Bounded == {k \in 0..n : \E m \in Nat : \A i \in 1..k : f[b[i]] <= m}
<1>3. 0 \in Bounded
  BY <1>1
<1>4. ASSUME NEW k \in 1..n, k - 1 \in Bounded PROVE k \in Bounded
  <2>1. PICK m \in Nat : \A i \in 1..(k - 1) : f[b[i]] <= m
    BY <1>4
  <2>2. f[b[k]] \in Nat /\ \A i \in 1..(k - 1) : f[b[i]] \in Nat
    BY <1>1, <1>2
  <2>3. \A i \in 1..k : i = k \/ i \in 1..(k - 1)
    OBVIOUS
  <2>4. PICK h \in Nat : m <= h /\ f[b[k]] <= h
    BY <2>2
  <2>5. \A i \in 1..k : f[b[i]] <= h
    BY <2>1, <2>2, <2>3, <2>4
  <2>6. k \in 0..n
    BY <1>1
  <2> QED BY <2>4, <2>5, <2>6
<1> HIDE DEF Bounded
<1>5. n \in Bounded
  <2>1. \A k \in 1..n : k - 1 \in Bounded => k \in Bounded
    BY <1>4
  <2>2. \A k \in 0..n : k \in Bounded
    BY <1>1, <1>3, <2>1, Upto
  <2> QED BY <1>1, <2>2
<1>6. PICK m \in Nat : \A i \in 1..n : f[b[i]] <= m
  BY <1>5 DEF Bounded
<1>7. \A s \in S : f[s] \in Nat /\ f[s] <= m
  BY <1>2, <1>6
<1> DEFINE Short == {m - f[s] : s \in S}
<1>8. Short \in SUBSET Nat /\ Short # {}
  BY <1>7
<1>9. PICK d \in Short : \A e \in Short : d <= e
  <2> HIDE DEF Short
  <2> QED BY <1>8, LeastOf
<1>10. PICK s \in S : d = m - f[s]
  BY <1>9
<1>11. \A x \in S : m - f[s] <= m - f[x]
  BY <1>9, <1>10
<1> QED BY <1>7, <1>11

\* The newest of the snapshots is there, if there is any.
LEMMA Newest ==
  ASSUME NEW snaps \in SUBSET Snapshots, snaps # {}
  PROVE  Select(snaps, Latest) # {}
<1>1. /\ IsFiniteSet(Snapshots)
      /\ \A s \in Snapshots : s.time \in Nat /\ s.id \in Nat
  BY ConstantsAssumption
<1>2. IsFiniteSet(snaps)
  BY <1>1, FS_Subset
<1> DEFINE time == [s \in snaps |-> s.time]
<1>3. time \in [snaps -> Nat] /\ \A s \in snaps : time[s] = s.time
  BY <1>1
<1> HIDE DEF time
<1>4. PICK last \in snaps : \A x \in snaps : time[x] <= time[last]
  BY <1>2, <1>3, GreatestBy
<1> DEFINE lasts == {s \in snaps : s.time = last.time}
<1>5. IsFiniteSet(lasts) /\ lasts # {} /\ lasts \subseteq snaps
  BY <1>2, FS_Subset
<1> DEFINE id == [s \in lasts |-> s.id]
<1>6. id \in [lasts -> Nat] /\ \A s \in lasts : id[s] = s.id
  BY <1>1
<1>7. \A s \in lasts : s \in snaps /\ s.time = last.time
  OBVIOUS
<1>8. \A s \in snaps : s.time = last.time => s \in lasts
  OBVIOUS
<1> HIDE DEF id, lasts
<1>9. PICK s \in lasts : \A x \in lasts : id[x] <= id[s]
  BY <1>5, <1>6, GreatestBy
<1>10. ASSUME NEW other \in snaps
       PROVE  other.time < s.time \/ (other.time = s.time /\ other.id <= s.id)
  <2>1. other.time \in Nat /\ last.time \in Nat /\ s.time = last.time /\ other.time <= last.time
    BY <1>1, <1>3, <1>4, <1>7, <1>9
  <2>2. CASE other.time = last.time
    BY <1>6, <1>8, <1>9, <2>1, <2>2
  <2> QED BY <2>1, <2>2
<1> QED BY <1>7, <1>9, <1>10 DEF Select

\* What is chosen is what was meant.
LEMMA Meant == IInv => SnapshotIsMeant
<1> SUFFICES ASSUME IInv, NEW k \in DOMAIN fetched
             PROVE  LET spec == Flag("snapshot", Latest) IN
                    /\ \A s \in fetched[k].chosen :
                         /\ Flag("host", "") \in {"", s.host}
                         /\ spec = Latest => \A other \in fetched[k].listed : other.time <= s.time
                         /\ spec # Latest => \A other \in fetched[k].listed \ {s} :
                                               other.prefix # spec.prefix \/ (spec.id # 0 /\ other.id # spec.id)
                    /\ spec = Latest /\ fetched[k].listed # {} => fetched[k].chosen # {}
  BY DEF SnapshotIsMeant
<1> DEFINE spec == Flag("snapshot", Latest)
           listed == fetched[k].listed
           chosen == fetched[k].chosen
<1>1. Given /\ Position /\ Resolved /\ Started /\ Fetched
  BY DEF IInv
<1>2. /\ Len(fetched) = Len(runs) - (IF pc = "fetch" THEN 1 ELSE 0) /\ Len(runs) <= Len(jobs)
      /\ Len(fetched) \in Nat /\ DOMAIN fetched = 1..Len(fetched) /\ Len(runs) \in Nat /\ Len(jobs) \in Nat
      /\ fetched \in Seq([listed : SUBSET Snapshots, chosen : SUBSET Snapshots])
  BY <1>1, LenProperties DEF Fetched, Started, Resolved
<1>3. k \in 1..Len(fetched) /\ k \in 1..Len(runs) /\ k \in 1..Len(jobs)
  BY <1>2
<1>4. Fits(jobs[k]) /\ runs[k] = ApplyDefaults(jobs[k])
  BY <1>1, <1>3, AskedFits DEF Started
<1>5. /\ runs[k].snapshot = spec
      /\ Typed("host") => runs[k].host = command.typed.host
  BY <1>4, AppliedRest DEF Fits
<1> HIDE DEF spec
<1>6. /\ listed \in SUBSET Snapshots /\ chosen = Select(listed, spec)
      /\ \A s \in listed : Matches(s, runs[k])
  <2>1. fetched[k] \in [listed : SUBSET Snapshots, chosen : SUBSET Snapshots]
    BY <1>2, <1>3, ElementOfSeq
  <2> QED BY <1>1, <1>3, <1>5, <2>1 DEF Fetched
<1> HIDE DEF listed, chosen
<1>7. \A s \in chosen : s \in listed /\ s \in Snapshots
  BY <1>6 DEF Select
<1>8. \A s \in chosen : Flag("host", "") \in {"", s.host}
  BY <1>5, <1>6, <1>7 DEF Matches, Flag
<1>9. ASSUME NEW s \in chosen, spec = Latest, NEW other \in listed PROVE other.time <= s.time
  <2>1. other.time < s.time \/ other.time = s.time
    BY <1>6, <1>9 DEF Select
  <2>2. other.time \in Nat /\ s.time \in Nat
    BY <1>6, <1>7, ConstantsAssumption
  <2> QED BY <2>1, <2>2
<1>10. ASSUME NEW s \in chosen, spec # Latest, NEW other \in listed \ {s}
       PROVE  other.prefix # spec.prefix \/ (spec.id # 0 /\ other.id # spec.id)
  <2> DEFINE named == {x \in listed : x.prefix = spec.prefix /\ spec.id \in {0, x.id}}
  <2>1. chosen = IF Cardinality(named) = 1 THEN named ELSE {}
    BY <1>6, <1>10 DEF Select
  <2>2. named \in SUBSET Snapshots
    BY <1>6
  <2>3. other \in named <=> other.prefix = spec.prefix /\ spec.id \in {0, other.id}
    OBVIOUS
  <2> HIDE DEF named
  <2>4. IsFiniteSet(named)
    BY <2>2, ConstantsAssumption, FS_Subset
  <2>5. Cardinality(named) = 1 /\ s \in named
    BY <2>1
  <2>6. \E x : named = {x}
    BY <2>4, <2>5, FS_Singleton
  <2>7. other \notin named
    BY <2>5, <2>6
  <2> QED BY <2>3, <2>7
<1>11. spec = Latest /\ listed # {} => chosen # {}
  BY <1>6, Newest
<1> QED BY <1>8, <1>9, <1>10, <1>11 DEF spec, listed, chosen

\* RunsGetWhatWasAsked: every drill is started with what the strongest layer says, on a
\* source that is whole, within budgets that nest, and restores the snapshot meant.
THEOREM RunsAreAsAsked == Spec => []RunsGetWhatWasAsked
<1>1. IInv => RunsGetWhatWasAsked
  BY Precedence, Sources, Budgets, Meant DEF RunsGetWhatWasAsked
<1> QED BY <1>1, Invariance, PTL
=============================================================================
