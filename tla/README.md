# drillback: specifications and proofs

drillback proves that a backup can be restored. It restores a snapshot into a
throwaway workspace, starts the application of a *recipe* on it in Docker, asks
the application questions, and tears everything down. One such exercise is
called a *drill* here (`runner.Run`). What the tool says at the end (an exit
code, a report) is believed by operators and by cron jobs, so the questions of
this project are: can a drill accuse a backup it did not test, can it acquit
one, does it test what its operator asked for, does it end, and does it leave
something behind without saying so?

The TLA+ in this directory is translated from the Go source under `src/`; where
the source and its documents disagree, the modules follow the source and a run
shows the disagreement.

    tlc -config MCDrillRun_dump.cfg MCDrillRun     # model-check
    tlapm DrillRunProofs.tla                       # check the proofs, one
    tlapm CheckCommandProofs.tla                   # module each: also Harness-,
    tlapm ChecksProofs.tla                         # Materialise-, Waiting-,
                                                   # Jobs-, SelectionProofs

## 1. Inventory

| Component | Source | State it keeps | Operations |
|---|---|---|---|
| Drill lifecycle | `internal/runner/runner.go` | the report, the error, `composeUp`, `kept`, the two contexts | `Run` and its two deferred functions, `applyDefaults`, `materialise`, `attachHint` |
| Workspace | `internal/workspace` | a directory tree on disk | `New`, `Remove`, `CopyTree`, `Measure`, `Sanitise`, `Relax` |
| Compose client | `internal/compose/compose.go` | none of its own: containers, networks and volumes live in docker | `Up`, `Down`, `Ps`, `Exec`, `Scrub`, `RunContainer` |
| Container reader | `internal/compose/reader.go` | a counter, and copies of files in the workspace | `List`, `Fetch` |
| Dump loader, probes | `internal/loader`, `internal/probe` | an attempt counter, a deadline | `LoadPostgres`, `waitForPostgres`, `IntegrityCheck`, `RunAll` |
| Checks | `internal/check`, `internal/observe` | none | `Run` of one check (`HTTP`, `Exec`, `SQL`, `File`), `Evaluate` |
| Sources | `internal/source/{restic,dir}` | a restored tree | `Preflight`, `List`, `Select`, `Fetch` |
| `check` command | `internal/cli/check.go`, `internal/report/multi.go` | the target at hand, `report.Multi` | `resolveJobs`, `runSingle`, `runAll`, `printKept`, the documents |
| Process | `internal/cli/cli.go` | the root context, a channel of signals | `Main`, `interruptContext` |
| Recipe test harness | `internal/harness`, `internal/cli/recipetest.go` | two stage results, an outer compose project, a repository, `RESTIC_*` variables | stage A (empty data must fail), stage B (seed, back up, destroy, drill) |
| Recipe resolution | `internal/recipe` | none | `Load`, `Resolve`, templates |
| Compose file safety | `internal/recipe/safety` | none | `Validate`, `Render`, `CheckResolvedMounts` |
| Configuration | `internal/config` | none | `Discover`, `Load`, `EnabledTargets`, `Job` |
| Hints | `internal/hints` | none | `Match` |
| Authoring commands, report layout, document generator | `internal/cli/scaffold*.go`, `internal/report/tty.go`, `tools/gen` | none | text in, text out |

How they interact. `Main` makes the root context and starts the interrupt
goroutine. `runCheck` resolves jobs and calls `runner.Run` once per target, in
sequence; the harness calls it too, once per stage. `Run` derives two contexts:
`runCtx` (the budget of `--timeout`, child of the root context, so the first
signal cancels it) and, in its deferred teardown, `downCtx` (two minutes, child
of `context.Background()`, so the signal does not reach it). Every docker and
restic call is a child process killed when its context ends. `Run` returns a
report, a `Kept` when it leaves the workspace for inspection, and an error; its
caller turns them into an exit code and into documents.

What is hard here, component by component, and what makes it correct:

* **Drill.** Fifteen exits, all of them through two deferred functions that
  write the same report. The budget or an interrupt can end between any two
  calls; the verdict of a failed stage depends on *why* it failed. Correct
  means: a verdict has a cause the report states; a stage killed for lack of
  time does not accuse the backup; PASS stands for the whole drill; the
  application does not start before its dump; what `Run` returns accounts for
  the disk and for the containers; the drill ends.
* **Workspace and compose project.** Each call may fail half way. Correct
  means: nothing is created that teardown does not know of, files go after the
  containers that use them, and what is left is reported.
* **check command.** A sweep must tell its worst target and must not count a
  target that never ran; the interrupt goroutine runs next to it and the two
  meet at the root context and at `os.Exit`.
* **Harness.** An inverted drill (stage A succeeds when its drill fails) and a
  drill inside a drill, with state (volumes, variables of the process) that must
  be gone in between.
* **Restore stage.** Inputs are moved one by one out of one restored tree.
* **Waiting loops.** A counter, an interval and up to four deadlines within each
  other. Correct means: a wait ends, not later than what bounds it, and for a
  reason that can be told from "there was no time left to ask".
* **Checks.** An application that goes on writing, files that are read through
  copies, commands that are killed half way. Correct means: a check passes on an
  answer, and the answer is about the application at hand.
* **Configuration and options.** Four layers say what a drill is started with.
  Correct means: the strongest layer that says anything wins, and an invocation
  that is refused has started nothing.
* **The rest** are functions from data to data.

The hazards, each at its line and with the property that covers it, are listed
in `PROJECT.json`.

## 2. Modules

    DrillContract      what a drill promises to whoever started it
        ^     ^
        |     | INSTANCE: the drills of a command take the contract's steps
        |     CheckCommand       `drillback check` and the interrupt goroutine
        |     |   ^
        |     |   CheckCommandProofs   theorems
        |     Harness            `drillback recipe test`, both stages
        |         ^
        |         HarnessProofs        theorems
        | INSTANCE .. WITH: refinement mapping
    DrillRun           runner.Run in full
        ^      ^
        |      MCDrillRun        instances for TLC
    DrillRunProofs     theorems

    Jobs               what CheckCommand and Harness start their drills with
        ^      ^
        |      MCJobs            instance for TLC
    JobsProofs         theorems

    Materialise        what the Restore step of DrillRun does: the inputs
        ^      ^
        |      MCMaterialise     instances for TLC
    MaterialiseProofs  theorems

    Selections         the loop that both of them filter a list with
        ^
        SelectionProofs          theorem; JobsProofs and MaterialiseProofs use it

    Waiting            what Load, StartRest and Ready of DrillRun wait for
        ^      ^
        |      MCWaiting         instance for TLC
    WaitingProofs      theorems

    Checks             what Check of DrillRun does, and PRAGMA integrity_check
        ^      ^
        |      MCChecks          instances for TLC
    ChecksProofs       theorems

The four modules below DrillRun open up steps that are atomic in it. DrillRun
lets such a step succeed or fail under a live context and only fail under a dead
one; each of the four says what has to happen for it to do so.

### DrillContract

Five variables: the outcome, whether it came with an error, what the checks of
its report say (none ran, all passed, one failed), whether the drill's workspace
exists, and whether the drill has decided to leave it there (`Kept`). A drill
may acquire and release its workspace, announce that it keeps it, and end once;
it ends with an error only as ERROR, without one its checks and its verdict
agree, and it does not end holding a workspace that is neither announced nor
covered by an error. The module exists so that those who *start* drills can be
modelled without their stages: CheckCommand and Harness take the contract's
actions as the drill's steps, and DrillRun is shown to implement it.

### DrillRun

`pc` names the next call of `Run`; one action per call, in the order of the
code. An action has one disjunct per outcome the code tells apart.

| Variables | Code |
|---|---|
| `opt` | `Options.Keep`, `.KeepOnFail`, `.SourceKind`, and `runtime.GOOS` |
| `runCtx`, `downCtx` | the contexts of `runner.go:115-119` and `:179-180`; `runCtx` is live, over by its deadline, or cancelled |
| `next`, `loaded` | the loop over `rec.Inputs` at `:354`, and what it has loaded or integrity-checked |
| `disk`, `up`, `composeUp` | the workspace directory (absent, partial, present); the services with a container; the variable `composeUp` |
| `rep`, `err`, `kept` | the report, the error, the `*Kept` |
| `blame`, `downFailed` | observers, read by no guard: what made a stage or a check fail (the service itself, compose or a registry, the end of the budget), and whether `docker compose down` failed |

| Actions | Code |
|---|---|
| `Resolve`, `Prepare`, `ReadRecipe`, `Restore`, `Render`, `ComposeUp`, `Query` | `runner.go:121-301`, the stages whose failure is a tool error |
| `Load`, `LoadEnds`, `StartRest`, `Ready`, `Fail` | `:305-419`, the stages whose failure goes through the closure `fail` |
| `Check`, `Report` | `:421-451` |
| `Teardown`, `Down`, `Remove`, `Scrub`, `RemoveAgain` | the deferred teardown, `:166-207` |
| `Finalise` | the deferred function of `:102-113`, registered first and so run last |
| `Deadline`, `Interrupt`, `DownDeadline` | the clock and the operator |

A call under a context can succeed only while the context lives, and can fail
at any time. `StageFails` and `Fail` are two steps because the code is: a stage
fails, and then `fail` looks at `runCtx.Err()`. The context may end between the
two, and the verdict is then ERROR for a failure that was the service's own;
the other direction is what `NeverAccusedOutOfTime` excludes.
`Up` that fails starts any subset of what it was asked to start; what it is
asked to start is a service set closed under `depends_on` (`Needs`).
A report is abstracted to what the properties tell apart: the verdict and exit
code, whether there is a run id, what kind of text explains it, the stage that
failed, the counters of the summary, and `workspace_removed`.

### CheckCommand

`pc` walks through `runCheck`: `ResolveJobs`, then for each target `BeginRun`,
the steps of the drill, `WriteTTY`; with `--all` `AddTarget` (which is
`printKept` and `Multi.Add`) back to `NextTarget`, and `Summarise` at the end
(`SkipRemaining` and the closing block); then `WriteJSON`, `WriteReportFile`,
for a single run `PrintKept`, and `Finish`. The interrupt goroutine is
`FirstSignal`, `CancelRun`, `SecondSignal`; `Signal` is the operator, with the
channel of size two that `signal.Notify` never blocks on. Receiving the first
signal and cancelling the context are two steps, as in the code, so that the
second signal can arrive in between. When the process exits every other actor
stops where it is: a drill cut by exit 130 keeps what it holds.

`verdicts`, `left`, `told`, `cutShort` and `ioFailed` are observers. `doc` is
the exit code that the last written document carries.

### Harness

One recipe after the other; for each, `LoadRecipe`, `Preflight`, the steps of
stage A, those of stage B, `Record`; at the end `Documents`.

| Actions | Code |
|---|---|
| `LoadRecipe`, `Preflight`, `AfterA`, `AfterB` | `harness.Run` and `testOne` |
| `EmptyTree`, `EmptyDrillEnds`, `JudgeEmpty`, `CleanTree` | `stageA` and its deferred removal |
| `NewWorkspace`, `PrepareStack`, `StartStack`, `Seed`, `Export`, `DestroyStack`, `RestoreDrillEnds`, `JudgeRestore` | `stageB`, with `collect`, `backup` and `withResticEnv` |
| `TeardownB`, `DownAgain`, `RemoveB` | the deferred teardown of `stageB` |
| `Record`, `Documents` | the loop of `runRecipeTest` and its exit code |
| `DrillStep`, `StartDrill`, `DrillReturns` | `runner.Run`, through `DrillContract` |
| `Deadline`, `Interrupt` | `--timeout` of one recipe, and the signal, which outlives it |

What the recipe has (`rec`: a test section, steps in it, a check that counts) is
chosen when it is loaded. `DrillStep` lets a drill keep its workspace only with
`--keep` and release it only without: that is `KeepIsHonoured` of DrillRun, with
the options the harness passes. A drill that starts under a context that is over
(`dead`) can only fail. `stack` and `repo` say what containers and repository
hold, so that "restored from nothing but the backup" is a statement about state.

### Materialise

What `Restore` of DrillRun stands for, over a tree of paths: a path is a
sequence of names, a tree a function from paths to what is there (a directory, a
file, a link that stays in the workspace or one that leaves it, the empty file
that replaces a link).

| Actions | Code |
|---|---|
| `Resolve` with `Passes`, `PathOf`, `Anchor`, `BackupPath`, `Resolvable` | `recipe.Resolve`, `resolveOne`, `relativeTo`, `checkCollisions` |
| `Fetch` with `Included` | `Fetch` of the two sources; `restic restore --include` |
| `LookInside`, `SkipMissing`, `Take`, `Prepare`, `Discard` | the loop of `materialise` and what follows it |
| `Move`, `Copy`, `CopyTree`, `Sanitised` | `os.Rename`, `workspace.CopyTree`, `Workspace.Sanitise` |

What the recipe says, what the operator overrides, the source and the backup are
chosen in `Init` and never change; `snapshot` is what the backup held, against
which the properties compare. `Apart` is the condition under which they speak of
an input at all: with `--source dir` always, with restic when no other
independent input's path nests with it. `restore_nested` shows why it is needed.

`os.Stat` may fail on any input, also on one that is there (a directory above it
that the process may not enter, a disk that errs), and its error is not looked at:
a required input is then refused as missing and an optional one passed over
(`StatSucceeds`, `StatFails`). The observer `unseen` remembers on which inputs that
happened; `InputsAreTheBackups` and `RefusalIsTrue` except those.

### Waiting

From the opening of a dump to the last ready probe, in discrete time. `now` moves
only where the program waits: a docker command that answers takes one of
`Delays`; one that does not is killed when its context ends and returns within
`MaxLinger` after that, because `cmd.Run` waits for the output to be closed
(`Endings`). `over` is the instant at which the run's own context ends, by its
deadline or by an interrupt; it is chosen in `Init`.

| Actions | Code |
|---|---|
| `OpenDump`, `LoadDump` | `loader.LoadPostgres`; the load's context begins after the dump was looked at |
| `AskPostgres`, `Pause` | `waitForPostgres`: one `pg_isready`, and its `select`, where both cases may be ready |
| `StartApplication` | the second `Up`, and the ready budget that begins with `RunAll` |
| `NextProbe` | the loop of `probe.RunAll` |
| `Attempt`, `Retry` | `attemptOnce` with its slice of thirty seconds and the fifteen that a helper container gets on top, and the loop of `probe.Run` |

`present` is an observer: when the database was last known not to be absent.

### Checks

`pc` runs through the checks of a recipe, and beside them the application writes:
a database with a write-ahead log gets rows in its log and later in the file, one
with a rollback journal gets them in the file at once, where they may also be taken
back; files come and go. The backup may have been taken in the middle of a
transaction, so one may be under way in `Init`.

| Actions | Code |
|---|---|
| `AppCommits`, `AppCheckpoints`; `AppBegins`, `AppEnds`; `AppWritesFiles` | the restored application: its database with a log, without one, its files |
| `RunCheck` with `HTTP`, `Exec`, `PostgresQuery` | the observations that a request or a command can end in |
| `RunFileCheck` with `HostPath` | `Executor.File`, and the script's test whether anything is there |
| `Walk` with `GlobDepth`, `List`, `ObserveTree`, `Hidden` | `find` and `stat` of `Reader.List`'s script, path by path, and `observeTree` |
| `BeginFetch`, `BeginCopy`, `CopyMain`, `CopyWal`, `CopyFails`, `Query` | `Reader.Fetch`, each `cp` of its script from its beginning to its end, `sqlite.Query`, the removal of the copy |
| `OrphanGoesOn` | a container of `docker run` whose command was killed |
| `Evaluate` with `Meets`, `ExitExpected`, `IntegrityFailures` | `check.Evaluate`, `loader.IntegrityCheck` |
| `NextCheck` | the loop of `runner.go:422` |

A text is empty, "hit" or "miss", and a pattern is the set of those that it matches:
`^$` matches the empty one, a pattern that does not compile none. `expect` has a
field for each key that `Evaluate` looks at because it is set; an empty list, pattern
or path in the recipe is not. A command that did not run has the exit code of docker
(`DockersExits`) and any text of docker's on its stderr (`DockersTexts`), and nothing
in the observation tells that from the command's own. A selected JSON value has a type
and a number; a row is a number.

Five observers. `answered`, in an observation: the question was put and got an
answer. `before`: the rows when the check began. `walk`: what there was at the path
and below it at some time of the walk and all of the time. `dropped`: an error of the
walk, which the script sends to `/dev/null` or passes over. `torn`: the file was
written while its `cp` ran, by a checkpoint or by a transaction without a log, or its
log was emptied into it before that was copied; such a copy may answer anything that
two states of the pages can add up to.

### Jobs

From a command line to the options with which `runner.Run` is called, and to the
snapshot that the run restores.

| Actions | Code |
|---|---|
| `ParseFlags`, `ResolveRecipe`, `ResolveTest` | `runCheck`, `resolveJobs` with `--recipe`, the budgets and options of the harness |
| `Discover`, `LoadConfig` with `Decodes`, `Validate` | `config.Discover`, `Load`, `validate`, `Duration.UnmarshalYAML`; `EditFile` is the operator, who may come in between |
| `SelectTargets`, `ResolveTarget` with `ConfigJob`, `WithFlags` | `EnabledTargets`, `config.Job`, `jobFromConfig` |
| `StartRun` with `ApplyDefaults` | `Options.applyDefaults` |
| `FetchSource` with `Select` | `newSource`, `ListSnapshots`, `Select`; the repository is whatever it is at that moment |

A setting that says nothing is 0 or "", as in the code; `command.typed` holds the
flags that were typed, with their values. `vars` stands for the two tables of
`--input` and `--set`, which go the same way.

## 3. What the runs check

| Run | Question | Instance |
|---|---|---|
| `drill_dump` | every property of DrillRun on a recipe with a dump | 3 services (the application needs both others), inputs dump, tree, SQLite, 1 probe, 2 checks: 22,400 states |
| `check` | exit code and documents of single runs and sweeps; two signals always leave, even when a drill hangs | 3 targets, 2 signals: 440,278 states |
| `harness` | what a result of `recipe test` proves, and what it leaves behind | 2 recipes, every combination of `--stage` and `--keep`: 119,116 states |
| `restore` | what lies at each input's place, and what is refused | 3 inputs, 12 recipes, 6 choices of path for each, 3 backups, both sources, `os.Stat` failing on any input: 93,162 states |
| `waiting` | how long each wait lasts, why it ends, that it ends | the code's own constants in seconds, a load of 24, a ready budget of 50, 3 probes, 4 ends of the run: 413,000 states |
| `checks` | what a check passes on and what it has looked at | 19 checks that use every key, 2 mounts of which one lies in the other, 5 trees, 2 rows, both journal modes: 1,913,288 states |
| `jobs` | what drills are started with, and that a refused invocation starts none | 2 places, 9 contents, 12 sets of flags, all modes, 3 snapshots: 298,848 states |

| Module | Invariants | Action and temporal properties |
|---|---|---|
| DrillRun | `NeverAccusedOutOfTime`, `PassMeansProved`, `DumpBeforeApplication`, `ProjectIsTakenDown`, `WorkspaceIsAccountedFor`, `VerdictIsAccountedFor` | `FilesGoAfterContainers`, `Termination`, `ImplementsContract` |
| CheckCommand | `SweepTellsTheWorst`, `DocumentAccountsForTargets`, `InterruptedIsUnproven`, `NothingLeftSilently` | `OneMoreAtMost`, `SecondSignalLeaves` |
| Harness | `BlindRecipeIsRejected`, `PassIsARoundTrip`, `DrillSeesOnlyTheRepository`, `NothingIsLeft`, `ExitTellsTheWorst` | |
| Materialise | `OperatorsTreeIsLeftAlone`, `InputsAreTheBackups`, `PathsAreTheOperators`, `RefusalIsTrue`, `NoLinkLeaves` | |
| Waiting | `BudgetsHold`, `VerdictIsEarned` | `EveryWaitEnds` |
| Checks | `PassIsEarned`, `ChecksSeeTheApplication`, `NoCopyIsLeft` | |
| Jobs | `RunsGetWhatWasAsked`, `NothingRunsUnresolved` | |

Each module also has a `TypeOK`. A property that has several named parts
(`VerdictIsEarned`, `RunsGetWhatWasAsked`) is their conjunction; each part, too,
is stated in words above its definition. For each property of each run,
`PROJECT.json` names a mutant, a small plausible bug in one definition of the
model, that breaks it.

**Bounds.** Two checks are enough for "some passed, some failed, the budget ended
in between"; three inputs put something before and after the dump, and one of
each kind into the loop; three services are the least with a service that the
dump needs, one that needs it, and one that is only started with the rest. The
theorems of section 5 hold for all recipes, so these numbers bound only what is
merely model-checked. Three targets put a target before, at and after the one
during which the interrupt arrives. Two recipes let a failure come before and
after an error, and let one recipe's state meet the next. Three inputs give
one that may lie inside a second, in front of it in the recipe, and one apart
from both that an override may move into either; the paths nest two deep
because only one level of `within` is allowed. `MaxSignals` bounds `Signal`:
further signals would be dropped by a full channel or find the process gone.

In `waiting` the load lasts longer than the fifteen seconds after which an absent
database is given up, so that it can be given up, come back, or run out of its
budget; the ready budget is more than one slice of thirty seconds, and less than
the sum of the probes' timeouts; the run may end in the load, between load and
probes, in the probes, or after everything. `Delays` are "at once" and "longer
than an interval"; `MaxLinger` is one second, and the properties are stated for
whatever it is. `MaxRows` of Checks is two: a row that was there when a check
began and one that came later. `MaxRows`, the three snapshots and the two places
are bounds of the environment; all counters of the models end by themselves.

**Runs that end in a violation.** Each of these checks one sentence of the
repository against the code and finds a behaviour that contradicts it:

| Run | Sentence | What the code does |
|---|---|---|
| `drill_timeout` | a run that exceeds `--timeout` is exit 2 (SPEC.md 5.3) | when the budget ends during the checks, the checks left fail and the run is RESTORE_UNUSABLE |
| `check_exit_one` | exit 2 when `--timeout` ended the run before a verdict (`cli.go:147`) | a single run with verdict ERROR and no error exits 1, under a report that says 2 |
| `harness_refusal` | stage A passes on a failed check or a stack that refuses to boot (SPEC.md 7.2) | the verdict ERROR without an error, which is what the end of the drill's budget gives, also passes it |
| `restore_nested` | "no matching files found for %s in the backup" (`runner.go`) | two inputs whose paths nest are accepted, and restic's tree, which is moved out of, serves only the first |
| `checks_torn` | "the copy reads as the original would have" (`reader.go`) | the file and its log are copied one after the other, and no `-journal` is: a checkpoint during or between the copies, or a transaction without a log, and a check that counts rows finds fewer than there were |

Divergences that the models contain and no run is spent on:

* an error of `docker compose down` is only logged, and a PASS may leave
  containers behind (`check --help` says always destroyed, SPEC.md 4.2 says best
  effort);
* `workspace.New` can fail after it has made the directory (`runner.go:164` says
  teardown covers every resource);
* an image that cannot be pulled by the second `Up` is exit 1, where SPEC.md 4.2
  has exit 2;
* a report that cannot be written keeps the kept workspace from being named, and
  the second signal prints one fixed line and no paths (SPEC.md 4.4);
* an inner drill that is ERROR without an error makes `recipe test` exit 1, for the
  same reason as `check_exit_one`;
* when stage B passes, the workspace of its inner drill, kept with `--keep`, is
  named nowhere: the note goes into a field that is assigned again
  (`stageb.go:277`). `NothingIsLeft` makes an exception for it;
* `CopyTree` turns every link into an empty file, `Sanitise` only one that leaves
  the workspace (`workspace.go:196` says "the same way");
* any error of `os.Stat` is taken for absence (`runner.go:665`, `runner.go:674`): an
  input that is there, and in no other input's way, is refused with "no matching files
  found" or "is not inside the restored input", and an optional one is passed over
  without a word. `unseen` names those inputs, and `InputsAreTheBackups` and
  `RefusalIsTrue` except them;
* the deepest mount that covers the path of a file check decides for everything below
  it, too (`run.go:363`): where another input is mounted further down, a pattern counts
  what the outer input has there, which the service does not see (`run.go:25` calls a
  mount "one place where a container path and a workspace path are the same bytes").
  `Hidden` is what is covered, and `CountsTheTree` counts no matches where there is any;
* errors of the walk behind a file check are dropped (`reader.go:57-63`): a directory
  that the helper may not read counts as empty (`dropped`);
* of a service that is not running, or a `psql` killed before it printed, a check may
  pass on any expectation that holds of nothing or of docker's own exit and words, for
  instance `body_matches: "^$"`, `exit_code: 1` or `stderr_matches: "."`.
  `HoldsOfNothing` names them all, and `PassIsEarned` excepts exactly them
  (`check/run.go` says that "a check that could not run is a failing check");
* a check may say `exit_code: -1` (the schema asks for an integer), and -1 is the
  code Go gives a command that was killed: such a check passes when its timeout has
  ended it. This came up when `PassesAreEarned` was to be proved and the case would
  not close; TLC had not seen it because no check of the instance asked for -1. It
  does now, and `ExpectsTheKill` names the exception;
* "Every key is checked" (`expect.go:24`): `exit_code` is looked at for `exec` only,
  `glob` without `glob_min_count`, an empty `status_in` and an empty pattern or path
  not at all, and a `body_not_matches` that does not
  compile always holds;
* the last attempt of an HTTP or TCP probe may end fifteen seconds after the ready
  budget (SPEC.md 2 calls it the budget for all probes); `BudgetsHold` allows for
  that slack and for no more;
* stage A's ready budget is 90 seconds in SPEC.md 7.2, and 75 with the default
  timeout, a quarter of five minutes;
* a typed `--source` drops the config source's credentials and keeps its `host`
  filter;
* a `--host ""` that is typed clears the filter of the config, and the newest snapshot
  of any host is restored. This, and the next two, came up when `SnapshotIsMeant` and
  `BudgetsNest` were to be proved for any command line; the instance asks for them now;
* a `--timeout` of fewer than eight of the smallest units (nanoseconds) leaves a stage
  budget of nothing: "at most an eighth" is zero (`TypeOK` names the exception);
* a `recipe test --timeout` of fewer than four of them gives an inner drill a share of
  nothing, which `applyDefaults` takes for "not said": the drill gets thirty minutes.

## 4. Fairness

*DrillRun.* `WF(Deadline)` and `WF(DownDeadline)`: time passes. `WF` of every
step of the runner that cannot hang: Go runs the goroutine. `MayHang` names the
steps that wait for docker or restic under a live context; they get no fairness
at all, docker need never answer, and `Termination` has to come from the two
budgets. It assumes that a killed child process returns. `exec.CommandContext`
kills the child, but `cmd.Run` waits until the output pipe is closed, and no
`WaitDelay` is set: a grandchild that keeps the pipe open holds the call for as
long (hazard at `compose.go:81`; `MaxLinger` of Waiting puts a number on it). No
fairness is assumed of the operator.

*CheckCommand.* Go schedules the goroutine of the command and that of the
interrupts. The drill gets no fairness: `SecondSignalLeaves` is about drills
that hang.

*Waiting.* `WF(Next)`: timers fire, and a docker command ends once its context has
ended. What the services answer is not fair in any way: `EveryWaitEnds` holds of a
database that crashes and comes back for ever.

*Harness, Materialise, Checks, Jobs.* Only safety is checked.

## 5. What is proved

`DrillRunProofs` holds for every set of services and every dependency relation
in which a service needs itself, every sequence of inputs, any number of probes
and any positive number of checks (`ConstantsAssumption`, the only assumption).

The invariants are not inductive by themselves. `IInv` adds what is true in
the middle of a drill, in six parts:

* `TypeOK`;
* `WorkspaceInv`: disk, run id, `Kept` and error agree at each stage, in
  particular "finalise is reached with something on disk only when kept or with
  an error";
* `ProjectInv`: a container implies `composeUp`, and the files are not touched
  before the containers are gone or `down` has failed;
* `LoadInv`: the load loop has loaded exactly what it has passed, and until the
  dumps are in only what they need runs;
* `VerdictInv`: for each verdict, what the report and the observers look like
  from the step that wrote it to the end;
* `KeepInv`: the decision of the teardown and the options, until the end, where
  the verdict may have become ERROR because the removal failed.

Each part has a lemma with one step per action; each cites only the parts it
depends on (`VerdictInv` on `LoadInv`, `KeepInv` on `WorkspaceInv`).
`Invariance` puts them together, and the theorems follow: `TypeCorrect`,
`AccusedInTime`, `PassIsProof`, `DumpComesFirst`, `ProjectTakenDown`,
`WorkspaceAccountedFor` (from `RemovalReported` and `KeepHonoured`),
`VerdictAccountedFor` (from `ExitTold` and `VerdictExplained`), and, for the
action property, `FilesGoLast`. `ImplementsContractSafety` proves that every
step of DrillRun is a step of the contract or a stutter; it needs one more
consequence of `IInv`, `ChecksAgree`, in the state a drill ends in.

`MaterialiseProofs` holds for every list of inputs with distinct names, every recipe,
every choice of paths and every set of backups (`ConstantsAssumption` of Materialise:
paths are sequences of names, the root is none of the inputs, a backup is a tree, and
has none of the empty files that replace links). `IInv` has, next to the properties
`OperatorsTreeIsLeftAlone` and `RefusalIsTrue`:

* `Given`: what is chosen at the start stays in its set;
* `Position` and `Located`: where the stage is, and that the inputs are worked on in an
  order that has each of them once and a nested one after its parent, at paths that
  `Resolve` found;
* `Trees`: the restored tree and every place are trees, whatever was moved out of them
  (a tree is closed upwards, `ClosedUpwards`);
* `Untouched`: of an input that is apart from the others and still to come, the restored
  tree has everything the backup had;
* `Placed`: what was worked on is in its place with the backup's files, unless `os.Stat`
  failed on it though it was there, and there in any case if it is required.

`Untouched` is the heart: a step that moves one input out of the tree takes nothing
from another, because two paths that are both above a file nest (`PrefixesNest`) and
independent inputs do not. `PlacedStep` has one lemma per action for it. From these
follow `InputsAreRestored` and `RefusalsAreTrue`. `PathsAreAsked`: the two ways of
taking the offset of a nested input give the path that was asked for, by `Rejoined` (a
path inside another is that one followed by what leads on from it). `LinksStayInside`
has an invariant of its own, `PlacesInv`: every place is clean except that of the input
between its move and its sanitisation.

`SelectionProofs` is about the one loop that `Resolve` (the inputs that stand alone
first) and `EnabledTargets` have in common. The prover cannot look into `SelectSeq`,
so `Selections` has the loop as a recursive function; `SelectedPicks` says that it picks
exactly the elements of the set, each once, in the order of the list, by a
counterexample with the least index (below, at ChecksProofs).

`JobsProofs` holds for every set of command lines, every content of every file on a
search path of any length, every environment and every finite set of snapshots with
distinct ids (`ConstantsAssumption` of Jobs: a duration is a number, `recipe test` has
three of the flags, the keys of a mapping are unique). Two definitions carry it: `Asked`,
the set of what resolving may give, and `Wanted`, the targets that the command line
means, both as functions of the command line, the config and its place. None of these
changes once a job is resolved (`Frame`, `Quiet`), though files and repository do. `IInv`:

* `Given`, `Position`: where the program is, and what must have happened for it to be
  there; past `load` the config is one that was found valid;
* `Resolved`: every job is in `Asked`;
* `Progress`: the jobs and the names that are left make up `Wanted`, in its order;
* `Started`, `Fetched`: the drills are those of the jobs with the defaults applied, in
  their order, and each chose from what it listed.

Everything that is claimed of a drill is then a statement about one member of `Asked`.
`PrecedenceHolds` follows from `FirstWins` (the first layer that says anything) for each
setting; `SourceIsWhole` from `ConfigJobIs` and `FlagsAre`; `BudgetsNest` from `BudgetIs`
and `SharesAdd`, which are about division; `SnapshotIsMeant` from `Newest`, which needs
that a finite set has a greatest element (`GreatestBy`); `NothingRunsUnresolved` from
`Progress`, with `SelectedPicks` for the targets of `--all`.

`WaitingProofs` holds for every ready budget, load timeout, limit and slack, any
number of probes with any timeouts and intervals, every instant at which the run
may end and every set of delays (`ConstantsAssumption` of Waiting: numbers, and
positive where the code's defaults are). `IInv` is `TypeOK` and the two properties
with four parts that make them inductive:

* `BeforeProbing`: until the application has started no probe was asked, so the
  ready budget does not move under a result;
* `DeadlineInv`: the deadline of the probe at hand lies within the ready budget, and
  nothing has been waited for when the context of the load is made;
* `ResultsInv`: while probes are asked, the results are one answer each of those
  before;
* `AbsenceInv`: `notRunning` answers in a row took as many intervals, less the one
  that the pause at hand is about to take.

`BudgetsHeld` follows from `DeadlineInv` with what is known of a docker command that
has ended (`EndingsAreBounded`) and of an attempt's context (`AttemptIsBounded`);
`VerdictEarned` from `ResultsInv` (ready), `AbsenceInv` (absent) and the guards of
`NextProbe` and `Retry` (not ready). There is one lemma per part with one step per
action, and `NextInv` puts them together.

`CheckCommandProofs` holds for any number of targets and of signals. Next to
`TypeOK`, its `IInv` has

* `Places`: where the command is and at which target;
* `Counted` and `Ran`: what `Multi` has counted, and that the targets up to the one at
  hand have been drilled and no other;
* `Folded`: the code is the worst of the targets added so far and, from the summary
  on, of all of them, those that never ran among them;
* `DocumentDone`, `Ended`: documents come last; a drill has ended as `DrillContract`
  has it, and that is all the command knows of it;
* `DeadEnds`: a drill that starts under a cancelled context is the last one, and
  fails; what an interrupt kept from starting has made the code 2;
* `Kept`: what drills left is told, is about to be, or has made the code 2.

`InterruptStopsTheSweep` proves the action property `OneMoreAtMost` from it.

`HarnessProofs` holds for any number of recipes. `EvidenceKept` carries from the end
of the first drill to the result that the checks missed something on empty inputs, or
that none ran and one of them counts; why none ran it does not say, and
`harness_refusal` shows that it may be for lack of time. `VerdictKept` carries that
each stage asked for has passed, stage B on the verdict of its own drill with its
checks run; `StackHeld` what containers and repository hold at each step of stage B, so
that at its drill the only place the data can come from is the repository;
`LeftAccounted` that a workspace is gone or named (with `--keep`, but for the inner one
of a stage B that passed), or an error is on its way, of which `NothingIsLeft` then says
nothing but that the stack is down, unless `down` failed or `--keep` was given;
`WorstFolded` is the loop of `runRecipeTest`.

`ChecksProofs` holds for every list of mounts, every set of trees, any number of rows
(`ConstantsAssumption`) and every list of checks that `recipe.schema.json` lets
through (`ChecksAssumption`). Next to `Places` and `Stored`, where the checks are and
what their variables hold, `IInv` has

* `Copies`: the copy a check reads has a name that no orphaned container knows, so that
  what a late one writes is never read;
* `CopyHolds`: along the script of `Fetch`, which rows are in the copy and which are
  still to come into it, unless the file was written meanwhile (`torn`);
* `RowsSeen` and `TreeSeen`: what an observation has of the database and of the tree. A
  listing has everything that was there all the time, unless an error was dropped, and
  nothing that never was, where no other mount covers it; the counts follow, since of two
  sets of which one is a part of the other the part has no more elements (`Sight`);
* `Answered`: an observation without an answer has no text but docker's, no value and
  no exit code but docker's or that of a kill (`Unanswered`);
* `Judged`: the verdict is what `Evaluate` makes of it.

`PassesAreEarned` then goes through the keys: all that hold of no answer are named by
`HoldsOfNothing`. `HostPath` is a recursive function over the mounts. An induction
theorem would have to be given an operator, which the provers cannot do; the proof
takes a counterexample with the least index instead (`LeastOf`, `Upto`), once for
"the function is what its definition says" (`HostPathIs`) and once for "it finds the
longest" (`HostPathIsLongest`). The other theorems of the module follow part by part.

Only model-checked are the liveness properties, which the prover does not handle under
fairness: `Termination`, `SecondSignalLeaves`, `EveryWaitEnds` and the fairness part of
`ImplementsContract`. Every invariant and every action property that a passing run
checks is a theorem. The sentences that the runs of section 3 refute are not.

## 6. Not modelled

* `Deadline` and `Interrupt` of DrillRun cannot happen inside a step; a call that is
  killed half way is its failing disjunct. Checks and Materialise have no clock:
  any step of theirs that the context bounds may fail at any time.
* What bounds a docker command whose context has ended: no `WaitDelay` is set, and
  nothing does (hazard at `compose.go:81`). Waiting states its bounds relative to
  `MaxLinger`, so that no property catches it.
* A half-written entry of a write-ahead log in the copy: SQLite does not read it, by
  its checksums, which are not modelled.
* Compose file safety (`recipe/safety`): a table of syntactic tests on one document.
  It has no state and no second actor, and its unit tests name it rule by rule.
* Hints, logs, notes, durations, the text of errors, redaction, the layout of
  documents, the invitation to contribute: nothing that is decided depends on them.
* Argument lists of docker and restic, YAML and JSON schema, templates: parsing
  and pure I/O. What a JSON path selects is a member of a small set.
* What the harness' seed and export steps do to the application: an external
  program, of which `Harness` knows whether it succeeded.
* `recipe scaffold`, `init`, `detect`, `version` and `tools/gen`: text from text.

## 7. Plan

1. A model of `CheckResolvedMounts` over paths, next to Materialise, with the trees and
   the lemmas of its proofs.
2. Lemmas that two proof modules state (`LeastOf`, `Upto`) in one place; shorter proofs
   of `PlacedStep` and `ResolvedStep`, which are the longest.
