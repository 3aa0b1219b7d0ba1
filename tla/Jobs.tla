--------------------------------- MODULE Jobs ---------------------------------
(***************************************************************************)
(* From a command line to the drills it starts: `drillback check` with     *)
(* --recipe, --target or --all, and the two drills of a recipe test.  The  *)
(* config file is found on a search path, read once and validated; every   *)
(* target is resolved - the target block over `defaults:`, a typed flag    *)
(* over both - before the first drill starts; a drill cuts its stage       *)
(* budgets down to its own timeout, and chooses the snapshot that it will  *)
(* restore among those its filters leave of a repository that lives on.    *)
(*                                                                         *)
(* Durations are in seconds, and 0 says nothing; "" says nothing, too.     *)
(***************************************************************************)
EXTENDS Integers, Sequences, FiniteSets, Selections

CONSTANTS
  Commands,  \* command lines: [modes, config, target, pairsOK, typed, vars]
  Places,    \* the search path
  Contents,  \* what there may be at a place: "nothing", "garbage" or a config
  Environ,   \* the environment variables that are set
  Bundled,   \* the references that are names of bundled recipes
  Rooted,    \* the paths that are absolute
  Snapshots  \* what may be in a repository: [prefix, id, time, host, tags]

\* Cobra parses durations, and no path is given next to a config; recipe test
\* has three of the flags.
IsCommand(c) ==
  /\ c.modes \subseteq {"recipe", "test", "target", "all"}
  /\ c.config \in 0..Places
  /\ \A d \in DOMAIN c.typed \cap {"timeout", "restore", "ready", "check"} : c.typed[d] \in Int
  /\ \A p \in DOMAIN c.typed \cap {"from", "workspace"} : c.typed[p].at = 0
  /\ c.modes = {"test"} => DOMAIN c.typed \subseteq {"timeout", "pull", "workspace"}

\* What the YAML decoder lets through; keys of a mapping are unique.
IsConfig(c) ==
  /\ c.targets \in Seq({c.targets[k] : k \in DOMAIN c.targets})
  /\ \A k, l \in DOMAIN c.targets : c.targets[k].name = c.targets[l].name => k = l
  /\ \A block \in {c.defaults} \cup {c.targets[k] : k \in DOMAIN c.targets} :
       \A d \in {"timeout", "restore", "ready", "check"} : block[d] \in Int

\* Snapshots have ids of their own.
ASSUME ConstantsAssumption ==
  /\ Places \in Nat
  /\ \A c \in Commands : IsCommand(c)
  /\ \A c \in Contents : c.is = "config" => IsConfig(c)
  /\ IsFiniteSet(Snapshots)
  /\ \A s \in Snapshots : s.time \in Nat /\ s.id \in Nat
  /\ \A s, other \in Snapshots : s.id = other.id => s = other

VARIABLES
  command,  \* the command line
  files,    \* what is at every place
  pc,       \* the next step
  place,    \* where the config was found
  config,   \* the config as it was read
  names,    \* the targets that are still to be resolved
  jobs,     \* the resolved ones
  runs,     \* the options with which drills were started
  fetched   \* what they listed in the repository, and chose of it

vars == <<command, files, pc, place, config, names, jobs, runs, fetched>>

Durations == {"timeout", "restore", "ready", "check"}
Pulls == {"always", "missing", "never"}

\* Both of the flags and, once more, of the runner.
DefaultDurations == [timeout |-> 1800, restore |-> 600, ready |-> 300, check |-> 60]
DefaultTestTimeout == 1200
StageAReady == 90

\* A path, and the place of the config next to which it is looked for; 0: none.
As(name) == [at |-> 0, name |-> name]
NoPath == As("")
NoConfig == [is |-> "nothing"]

\* A snapshot by its id, or by a prefix of it with the id 0.
Latest == [prefix |-> "", id |-> 0]

Typed(flag) == flag \in DOMAIN command.typed
Flag(flag, default) == IF Typed(flag) THEN command.typed[flag] ELSE default

Init ==
  /\ command \in Commands
  /\ files \in [1..Places -> Contents]
  /\ pc = "parse" /\ place = 0 /\ config = NoConfig
  /\ names = <<>> /\ jobs = <<>> /\ runs = <<>> /\ fetched = <<>>

started == <<runs, fetched>>
Refuse == pc' = "refused" /\ UNCHANGED <<command, files, place, config, names, jobs, started>>

\* The operator edits, or removes, a config while the program looks for it.
EditFile ==
  /\ pc \in {"discover", "load"}
  /\ \E k \in 1..Places, c \in Contents : files' = [files EXCEPT ![k] = c]
  /\ UNCHANGED <<command, pc, place, config, names, jobs, started>>

-----------------------------------------------------------------------------
(* One run, or two, that need no config.                                   *)

\* runCheck: one mode, pairs that are pairs, a pull policy that exists.
ParseFlags ==
  /\ pc = "parse"
  /\ IF Cardinality(command.modes) = 1 /\ command.pairsOK /\ Flag("pull", "missing") \in Pulls
     THEN /\ pc' = CASE command.modes = {"recipe"} -> "recipe"
                     [] command.modes = {"test"} -> "test"
                     [] command.modes \in {{"target"}, {"all"}} -> "discover"
          /\ UNCHANGED <<command, files, place, config, names, jobs, started>>
     ELSE Refuse

\* Mutant of OrDefault: only what is negative gets the default.
OrDefault_Negative(d, default) == IF d < 0 THEN default ELSE d
OrDefault(d, default) == IF d <= 0 THEN default ELSE d

NoOptions ==
  [target |-> "", recipe |-> NoPath, kind |-> "", from |-> NoPath, env |-> {}, host |-> "", tags |-> {},
   vars |-> [v \in {} |-> ""], pull |-> "", workspace |-> NoPath, snapshot |-> Latest,
   timeout |-> 0, restore |-> 0, ready |-> 0, check |-> 0]

\* resolveJobs with --recipe: the flags, typed or not.
FlagOptions ==
  [NoOptions EXCEPT
     !.kind = Flag("source", "restic"), !.from = Flag("from", NoPath),
     !.snapshot = Flag("snapshot", Latest),
     !.host = Flag("host", ""), !.tags = Flag("tag", {}), !.vars = command.vars,
     !.pull = Flag("pull", "missing"), !.workspace = Flag("workspace", NoPath),
     !.timeout = Flag("timeout", DefaultDurations.timeout),
     !.restore = Flag("restore", DefaultDurations.restore),
     !.ready = Flag("ready", DefaultDurations.ready),
     !.check = Flag("check", DefaultDurations.check)]

\* A recipe loads, or does not: LoadAny reads the disk.
ResolveRecipe ==
  /\ pc = "recipe"
  /\ \/ /\ jobs' = <<FlagOptions>> /\ pc' = "run"
        /\ UNCHANGED <<command, files, place, config, names, started>>
     \/ Refuse

\* harness.budgets.
Share(total, n) == (total * n) \div 20

\* The drills of stage A and of stage B, or the one that --stage asks for;
\* seeding and exporting have the rest.
TestTimeout == OrDefault(Flag("timeout", 0), DefaultTestTimeout)
TestOptions ==
  [NoOptions EXCEPT !.pull = Flag("pull", "missing"), !.workspace = Flag("workspace", NoPath)]
DrillA ==
  [TestOptions EXCEPT !.kind = "dir", !.timeout = Share(TestTimeout, 5), !.ready = StageAReady]
DrillB == [TestOptions EXCEPT !.kind = "restic", !.timeout = Share(TestTimeout, 7)]
ResolveTest ==
  /\ pc = "test"
  /\ jobs' \in {<<DrillA, DrillB>>, <<DrillA>>, <<DrillB>>}
  /\ pc' = "run"
  /\ UNCHANGED <<command, files, place, config, names, started>>

-----------------------------------------------------------------------------
(* config.Discover and config.Load.                                        *)

SearchPath == IF command.config = 0 THEN 1..Places ELSE {command.config}

\* The first file there is, whatever is in it.
Discover ==
  /\ pc = "discover"
  /\ LET there == {k \in SearchPath : files[k].is # "nothing"} IN
     IF there = {} THEN Refuse
     ELSE /\ place' = CHOOSE k \in there : \A other \in there : k <= other
          /\ pc' = "load"
          /\ UNCHANGED <<command, files, config, names, jobs, started>>

\* An explicit duration must budget something.
Decodes(c) ==
  \A block \in {c.defaults} \cup {c.targets[k] : k \in DOMAIN c.targets} :
    \A d \in Durations : block[d] >= 0

\* What belongs to the other kind is refused.
SourceFits(s) ==
  /\ s.from # ""
  /\ \/ s.kind = "restic"
     \/ s.kind = "dir" /\ s.host = "" /\ s.refs = {}

First(a, b, unsaid) == IF a # unsaid THEN a ELSE b
SourceName(c, t) == First(t.source, c.defaults.source, "")

Validate(c) ==
  /\ c.version = 1
  /\ \A name \in DOMAIN c.sources : SourceFits(c.sources[name])
  /\ c.defaults.source \in DOMAIN c.sources \cup {""}
  /\ c.defaults.pull \in Pulls \cup {""}
  /\ \A k \in DOMAIN c.targets :
       LET t == c.targets[k] IN
       /\ t.recipe # "" /\ t.pull \in Pulls \cup {""}
       /\ SourceName(c, t) \in DOMAIN c.sources \ {""}

LoadConfig ==
  /\ pc = "load"
  /\ LET c == files[place] IN
     IF c.is = "config" /\ Decodes(c) /\ Validate(c)
     THEN /\ config' = c /\ pc' = "select"
          /\ UNCHANGED <<command, files, place, names, jobs, started>>
     ELSE Refuse

-----------------------------------------------------------------------------
(* config.Job and jobFromConfig.                                           *)

\* Mutant of Enabled: a target that does not say so is not enabled.
Enabled_Said(t) == t.enabled = "yes"
Enabled(t) == t.enabled # "no"

Targets == {config.targets[k] : k \in DOMAIN config.targets}

EnabledTargets ==
  LET enabled == Selected(config.targets, {t \in Targets : Enabled(t)})
  IN  [k \in DOMAIN enabled |-> enabled[k].name]

SelectTargets ==
  /\ pc = "select"
  /\ LET selected == IF command.modes = {"all"} THEN EnabledTargets ELSE <<command.target>> IN
     IF selected = <<>> THEN Refuse
     ELSE /\ names' = selected /\ pc' = "resolve"
          /\ UNCHANGED <<command, files, place, config, jobs, started>>

\* hostPath: relative to the config, not to where the program was started.
HostPath(name) ==
  IF name = "" \/ name \in Rooted THEN As(name) ELSE [at |-> place, name |-> name]

\* recipeRef: the name of a bundled recipe, or a path.
RecipeRef(t) == IF t.recipe \in Bundled THEN As(t.recipe) ELSE HostPath(t.recipe)

\* config.Job: the target over the defaults.
ConfigJob(t) ==
  LET d == config.defaults
      s == config.sources[SourceName(config, t)]
  IN  [target |-> t.name, recipe |-> RecipeRef(t), kind |-> s.kind,
       from |-> IF s.kind = "dir" THEN HostPath(s.from) ELSE As(s.from),
       env |-> IF s.kind = "dir" THEN {} ELSE {SourceName(config, t)}, snapshot |-> Latest,
       host |-> s.host, tags |-> t.tags, vars |-> t.vars,
       pull |-> First(t.pull, d.pull, ""),
       workspace |-> HostPath(First(t.workspace, d.workspace, "")),
       timeout |-> First(t.timeout, d.timeout, 0),
       restore |-> First(t.restore, d.restore, 0),
       ready |-> First(t.ready, d.ready, 0),
       check |-> First(t.check, d.check, 0)]

\* The source's env may refer to variables that are not set.
Resolvable(t) ==
  /\ config.sources[SourceName(config, t)].refs \subseteq Environ
  /\ Typed("source") => Typed("from")

\* Mutant of Pick: a flag's default beats the config.
Pick_Flag(flag, default, said, unsaid) == Flag(flag, default)
\* pick and pickD: a flag only if it was typed, or if the config says nothing.
Pick(flag, default, said, unsaid) ==
  IF Typed(flag) \/ said = unsaid THEN Flag(flag, default) ELSE said

\* merged: a pair of the command line wins for its key.
Merged(cfg, cli) ==
  [v \in DOMAIN cfg \cup DOMAIN cli |-> IF v \in DOMAIN cli THEN cli[v] ELSE cfg[v]]

\* A typed --source replaces the source, its location and its credentials.
WithFlags(cj) ==
  [cj EXCEPT
     !.kind = Flag("source", @), !.from = Flag("from", @),
     !.env = IF Typed("source") THEN {} ELSE @,
     !.host = Pick("host", "", @, ""), !.tags = Flag("tag", @),
     !.vars = Merged(@, command.vars), !.snapshot = Flag("snapshot", @),
     !.pull = Pick("pull", "missing", @, ""),
     !.workspace = Pick("workspace", NoPath, @, NoPath),
     !.timeout = Pick("timeout", DefaultDurations.timeout, @, 0),
     !.restore = Pick("restore", DefaultDurations.restore, @, 0),
     !.ready = Pick("ready", DefaultDurations.ready, @, 0),
     !.check = Pick("check", DefaultDurations.check, @, 0)]

\* A target by that name, variables that are set, and a recipe that loads.
ResolveTarget ==
  /\ pc = "resolve" /\ names # <<>>
  /\ LET found == {k \in DOMAIN config.targets : config.targets[k].name = Head(names)} IN
     \/ /\ \E k \in found :
             /\ Resolvable(config.targets[k])
             /\ jobs' = Append(jobs, WithFlags(ConfigJob(config.targets[k])))
        /\ names' = Tail(names)
        /\ pc' = IF Tail(names) = <<>> THEN "run" ELSE "resolve"
        /\ UNCHANGED <<command, files, place, config, started>>
     \/ Refuse

-----------------------------------------------------------------------------
(* runner.applyDefaults.                                                   *)

\* Mutant of Clamp: the stage gets its share of the run, asked for or not.
Clamp_Share(d, limit) == limit
Clamp(d, limit) == IF d > limit THEN limit ELSE d

ApplyDefaults(o) ==
  LET timeout == OrDefault(o.timeout, DefaultDurations.timeout)
      Budget(stage, part) == Clamp(OrDefault(o[stage], DefaultDurations[stage]), timeout \div part)
  IN  [o EXCEPT !.timeout = timeout, !.restore = Budget("restore", 2),
                !.ready = Budget("ready", 4), !.check = Budget("check", 8),
                !.pull = First(@, "missing", ""), !.kind = First(@, "restic", "")]

\* The next drill of the sweep.
StartRun ==
  /\ pc = "run" /\ Len(runs) < Len(jobs)
  /\ runs' = Append(runs, ApplyDefaults(jobs[Len(runs) + 1]))
  /\ pc' = "fetch"
  /\ UNCHANGED <<command, files, place, config, names, jobs, fetched>>

-----------------------------------------------------------------------------
(* newSource and restic's Fetch.                                           *)

\* `restic snapshots`, with the filters: any of the tags will do.
Matches(s, o) == o.host \in {"", s.host} /\ (o.tags = {} \/ o.tags \cap s.tags # {})

\* Mutant of Select: of two snapshots of one second, either.
Select_Newest(snaps, spec) == {s \in snaps : \A other \in snaps : other.time <= s.time}
\* The newest, and of two of one second that with the greater id; or the only
\* one by that id or prefix.
Select(snaps, spec) ==
  LET named == {s \in snaps : s.prefix = spec.prefix /\ spec.id \in {0, s.id}} IN
  IF spec = Latest
  THEN {s \in snaps : \A other \in snaps :
                        other.time < s.time \/ (other.time = s.time /\ other.id <= s.id)}
  ELSE IF Cardinality(named) = 1 THEN named ELSE {}

\* A drill that can choose none, or knows no such source, is an error, and
\* the sweep goes on.  Backups come and go between two drills.
FetchSource ==
  /\ pc = "fetch"
  /\ LET o == runs[Len(runs)] IN
     \E there \in IF o.kind = "restic" THEN SUBSET Snapshots ELSE {{}} :
       LET listed == {s \in there : Matches(s, o)}
       IN  fetched' = Append(fetched, [listed |-> listed, chosen |-> Select(listed, o.snapshot)])
  /\ pc' = "run"
  /\ UNCHANGED <<command, files, place, config, names, jobs, runs>>

\* All have run, or an interrupt has ended the sweep.
Finish ==
  /\ pc = "run" /\ pc' = "done"
  /\ UNCHANGED <<command, files, place, config, names, jobs, started>>

Ended == pc \in {"refused", "done"} /\ UNCHANGED vars

Next ==
  \/ EditFile
  \/ ParseFlags \/ ResolveRecipe \/ ResolveTest
  \/ Discover \/ LoadConfig \/ SelectTargets \/ ResolveTarget
  \/ StartRun \/ FetchSource \/ Finish
  \/ Ended

Spec == Init /\ [][Next]_vars

-----------------------------------------------------------------------------

\* A drill that starts has a positive budget - for every stage, too, but where an
\* eighth of the run is nothing -, a source and a pull policy, and restores at
\* most one snapshot, whatever was typed or left out and whatever is in the
\* repository.
TypeOK ==
  /\ pc \in {"parse", "recipe", "test", "discover", "load", "select", "resolve", "run",
             "fetch", "refused", "done"}
  /\ place \in 0..Places
  /\ \A k \in DOMAIN runs :
       LET o == runs[k] IN
       /\ o.kind # "" /\ o.pull \in Pulls
       /\ o.from.at \in 0..Places /\ o.workspace.at \in 0..Places
       /\ \A d \in Durations : o[d] \in Nat /\ (o[d] = 0 => o.timeout \in 1..7)
  /\ Len(fetched) = Len(runs) - (IF pc = "fetch" THEN 1 ELSE 0)
  /\ \A k \in DOMAIN fetched :
       /\ fetched[k].listed \subseteq Snapshots /\ fetched[k].chosen \subseteq fetched[k].listed
       /\ Cardinality(fetched[k].chosen) <= 1

TargetOf(o) == CHOOSE t \in Targets : t.name = o.target
FromConfig == {k \in DOMAIN jobs : jobs[k].target # ""}

\* What was typed beats the target, the target beats `defaults:`, and only what
\* none of them says is the flag's default.
PrecedenceHolds ==
  \A k \in FromConfig :
    LET o == jobs[k]
        t == TargetOf(o)
        Wins(s, unsaid, default) ==
          LET layers == << IF Typed(s) THEN command.typed[s] ELSE unsaid,
                           t[s], config.defaults[s], default >>
              says == {l \in 1..4 : layers[l] # unsaid \/ (l = 1 /\ Typed(s)) \/ l = 4}
          IN  o[s] = layers[CHOOSE l \in says : \A m \in says : l <= m]
    IN  /\ \A s \in Durations : Wins(s, 0, DefaultDurations[s])
        /\ Wins("pull", "", "missing")
        /\ \A v \in DOMAIN t.vars \ DOMAIN command.vars : o.vars[v] = t.vars[v]
        /\ \A v \in DOMAIN command.vars : o.vars[v] = command.vars[v]

\* Kind and credentials are those of one source of the config, or of none, and
\* a relative path of the config stays next to it.
SourceIsWhole ==
  \A k \in FromConfig :
    LET o == jobs[k] IN
    /\ IF o.env = {} THEN (Typed("source") /\ Typed("from")) \/ o.kind = "dir"
       ELSE /\ ~Typed("source")
            /\ \A name \in o.env :
                 /\ config.sources[name].kind = o.kind
                 /\ o.from.name = config.sources[name].from \/ Typed("from")
    /\ \A p \in {o.from, o.workspace, o.recipe} : p.at # 0 => p.at = place /\ p.name \notin Rooted
    /\ o.recipe.at = 0 => o.recipe.name \in Bundled \cup Rooted
    /\ o.workspace.at = 0 => Typed("workspace") \/ o.workspace.name \in Rooted \cup {""}

\* Stage budgets are at most a half, a quarter and an eighth of the run - never
\* more than was asked for, and less only where the run is too short - and
\* the drills of a recipe test leave its other phases their shares, if there is
\* something to share.
BudgetsNest ==
  /\ \A k \in DOMAIN runs :
       LET got == runs[k]
           Fits(stage, part) ==
             LET want == IF jobs[k][stage] > 0 THEN jobs[k][stage] ELSE DefaultDurations[stage]
             IN  /\ got[stage] * part <= got.timeout
                 /\ got[stage] <= want
                 /\ got[stage] < want => (got[stage] + 1) * part > got.timeout
       IN  /\ Fits("restore", 2) /\ Fits("ready", 4) /\ Fits("check", 8)
           /\ jobs[k].timeout > 0 => got.timeout = jobs[k].timeout
  /\ (command.modes = {"test"} /\ Len(runs) = 2 /\ TestTimeout >= 4) =>
       runs[1].timeout + runs[2].timeout + Share(TestTimeout, 5) + Share(TestTimeout, 3)
         <= TestTimeout

\* One snapshot or none: no other that the filters leave is newer, or answers
\* to the same id, and none of those present is left out but by a filter.
SnapshotIsMeant ==
  \A k \in DOMAIN fetched :
    LET spec == Flag("snapshot", Latest) IN
    /\ \A s \in fetched[k].chosen :
         /\ Flag("host", "") \in {"", s.host}
         /\ spec = Latest => \A other \in fetched[k].listed : other.time <= s.time
         /\ spec # Latest => \A other \in fetched[k].listed \ {s} :
                               other.prefix # spec.prefix \/ (spec.id # 0 /\ other.id # spec.id)
    /\ spec = Latest /\ fetched[k].listed # {} => fetched[k].chosen # {}

\* A drill is run with what its operator asked for: every setting has the value
\* of the strongest layer that says anything, a source is never put together
\* from two, only a run that is too short cuts a budget, and the snapshot is
\* the one that was meant.
RunsGetWhatWasAsked == PrecedenceHolds /\ SourceIsWhole /\ BudgetsNest /\ SnapshotIsMeant

\* Nothing runs of an invocation that is refused, or not resolved to its end:
\* --all runs the targets that are not disabled, each once and in the order of
\* the file, and --target the one it names.
NothingRunsUnresolved ==
  /\ runs # <<>> => pc \in {"run", "fetch", "done"} /\ names = <<>>
  /\ pc \in {"run", "done"} =>
       /\ command.modes = {"target"} => [k \in DOMAIN jobs |-> jobs[k].target] = <<command.target>>
       /\ command.modes = {"all"} =>
            LET pos(name) == CHOOSE k \in DOMAIN config.targets : config.targets[k].name = name IN
            /\ {jobs[k].target : k \in DOMAIN jobs}
                 = {t.name : t \in {t \in Targets : t.enabled # "no"}}
            /\ \A k, l \in DOMAIN jobs : k < l => pos(jobs[k].target) < pos(jobs[l].target)
  /\ \A k \in DOMAIN runs : runs[k].target = jobs[k].target
=============================================================================
