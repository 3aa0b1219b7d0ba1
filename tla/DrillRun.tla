------------------------------ MODULE DrillRun ------------------------------
(***************************************************************************)
(* runner.Run: the lifecycle of one drill, from the docker preflight to    *)
(* the two deferred functions that tear it down and settle its report.     *)
(*                                                                         *)
(* The goroutine that runs it is pc; around it act the run budget and the  *)
(* interrupt (runCtx), the teardown's own budget (downCtx), and docker,    *)
(* restic and the file system, any call of which may fail.  A call made    *)
(* under a context cannot succeed once that context is over.               *)
(***************************************************************************)
EXTENDS Naturals, Sequences, FiniteSets

CONSTANTS
  Services,     \* the services of the recipe's compose file
  Needs,        \* Needs[s]: s and the services compose starts before it
  InputKind,    \* the kind of each input, in recipe order
  LoadService,  \* the service that receives input i, when it is a dump
  NProbes,      \* number of ready probes
  NChecks       \* number of checks, at least one (recipe schema)

\* "tree" is every input the load stage has nothing to do for.
Kinds == {"dump", "sqlite", "tree"}

ASSUME ConstantsAssumption ==
  /\ IsFiniteSet(Services)
  /\ Needs \in [Services -> SUBSET Services]
  /\ \A s \in Services : s \in Needs[s]
  /\ InputKind \in Seq(Kinds)
  /\ LoadService \in [1..Len(InputKind) -> Services]
  /\ NProbes \in Nat
  /\ NChecks \in Nat \ {0}

VARIABLES
  opt,        \* what the invocation chose, and the host it runs on
  pc,         \* the next call of the run
  runCtx,     \* the run's context: --timeout, and the first interrupt
  downCtx,    \* the teardown's two minutes
  next,       \* the input the load loop is at
  loaded,     \* the inputs loaded (or integrity-checked) so far
  disk,       \* the workspace directory
  up,         \* services with a container in the compose project
  composeUp,  \* teardown has a compose project to take down
  rep,        \* the report
  err,        \* the error Run returns
  kept,       \* Run returns a Kept
  blame,      \* observer: what made stages and checks fail
  downFailed  \* observer: docker compose down did not succeed

vars == <<opt, pc, runCtx, downCtx, next, loaded, disk, up, composeUp,
          rep, err, kept, blame, downFailed>>

data == <<next, loaded>>
host == <<disk, up, composeUp>>
observers == <<blame, downFailed>>
teardownVars == <<downCtx, kept, downFailed>>

Inputs == 1..Len(InputKind)
Dumps == {i \in Inputs : InputKind[i] = "dump"}
Loadable == {i \in Inputs : InputKind[i] # "tree"}

\* The services that must run before the dumps can be loaded.
LoadFirst == {LoadService[i] : i \in Dumps}

\* Mutant of StartedBy: one Up starts the whole project.
StartedBy_Everything(S) == Services

\* What `docker compose up` starts: the named services and what they need,
\* or everything when none is named.
StartedBy(S) == IF S = {} THEN Services ELSE UNION {Needs[s] : s \in S}

Live == runCtx = "live"

Verdicts == {"PASS", "UNUSABLE", "ERROR"}
Stages == {"none", "restore", "compose", "load", "ready"}
Errors == {"none", "tool", "remove"}
Texts == {"none", "stage", "budget", "cancel", "tool", "remove"}

Options == [keep : BOOLEAN, keepOnFail : BOOLEAN, windows : BOOLEAN,
            source : {"restic", "dir"}]

Reports == [id : BOOLEAN, verdict : Verdicts, exit : 0..2, text : Texts,
            failed : Stages, total : Nat, passed : Nat, missed : Nat,
            skipped : Nat, removed : BOOLEAN]

FreshReport == [id |-> FALSE, verdict |-> "ERROR", exit |-> 2, text |-> "none",
                failed |-> "none", total |-> 0, passed |-> 0, missed |-> 0,
                skipped |-> 0, removed |-> FALSE]

Init ==
  /\ opt \in Options
  /\ pc = "resolve"
  /\ runCtx = "live" /\ downCtx = "unset"
  /\ next = 1 /\ loaded = {}
  /\ disk = "absent" /\ up = {} /\ composeUp = FALSE
  /\ rep = FreshReport /\ err = "none" /\ kept = FALSE
  /\ blame = {} /\ downFailed = FALSE

-----------------------------------------------------------------------------
(* The run.                                                                *)

\* `return rep, kept, err`: a tool error, and on to the deferred functions.
ToolError(to) == /\ err' = "tool"
                 /\ pc' = to

\* docker and compose preflight, the source and its preflight.  Teardown is
\* not registered yet.
Resolve ==
  /\ pc = "resolve"
  /\ \/ Live /\ pc' = "prepare" /\ UNCHANGED err
     \/ ToolError("finalise")
  /\ UNCHANGED <<opt, runCtx, data, host, rep, teardownVars, blame>>

\* workspace.New, which takes no context; it can fail after it has made the
\* root directory.
Prepare ==
  /\ pc = "prepare"
  /\ \/ /\ disk' = "present" /\ pc' = "recipe"
        /\ rep' = [rep EXCEPT !.id = TRUE]
        /\ UNCHANGED err
     \/ /\ disk' \in {"absent", "partial"}
        /\ ToolError("finalise")
        /\ UNCHANGED rep
  /\ UNCHANGED <<opt, runCtx, data, up, composeUp, teardownVars, blame>>

\* recipe.Resolve, compose.yaml, safety.Validate: no context.
ReadRecipe ==
  /\ pc = "recipe"
  /\ \/ pc' = "restore" /\ UNCHANGED err
     \/ ToolError("teardown")
  /\ UNCHANGED <<opt, runCtx, data, host, rep, teardownVars, blame>>

\* materialise.  Only a restic source looks at the context.
Restore ==
  /\ pc = "restore"
  /\ \/ /\ Live \/ opt.source = "dir"
        /\ pc' = "render" /\ UNCHANGED <<rep, err>>
     \/ /\ ToolError("teardown")
        /\ rep' = [rep EXCEPT !.failed = "restore"]
  /\ UNCHANGED <<opt, runCtx, data, host, teardownVars, blame>>

\* safety.Render, CheckResolvedMounts, LabelCompose, the compose file.
Render ==
  /\ pc = "render"
  /\ \/ pc' = "up" /\ UNCHANGED err
     \/ ToolError("teardown")
  /\ UNCHANGED <<opt, runCtx, data, host, rep, teardownVars, blame>>

\* Mutant of ComposeUp: composeUp is set once the Up has succeeded.
ComposeUp_SetAfter ==
  /\ pc = "up"
  /\ \/ /\ Live /\ composeUp' = TRUE
        /\ up' = StartedBy(LoadFirst)
        /\ pc' = "query" /\ UNCHANGED <<rep, err>>
     \/ /\ up' \in SUBSET StartedBy(LoadFirst)
        /\ ToolError("teardown")
        /\ UNCHANGED <<composeUp, rep>>
  /\ UNCHANGED <<opt, runCtx, data, disk, teardownVars, blame>>

\* The first Up.  composeUp is set before the call: an Up that fails may
\* have started some of what it was asked for.
ComposeUp ==
  /\ pc = "up"
  /\ composeUp' = TRUE
  /\ \/ /\ Live
        /\ up' = StartedBy(LoadFirst)
        /\ pc' = "query" /\ UNCHANGED <<rep, err>>
     \/ /\ up' \in SUBSET StartedBy(LoadFirst)
        /\ ToolError("teardown")
        /\ rep' = [rep EXCEPT !.failed = "compose"]
  /\ UNCHANGED <<opt, runCtx, data, disk, teardownVars, blame>>

\* cli.Services and cli.NetworkName.
Query ==
  /\ pc = "query"
  /\ \/ Live /\ pc' = "load" /\ UNCHANGED err
     \/ ToolError("teardown")
  /\ UNCHANGED <<opt, runCtx, data, host, rep, teardownVars, blame>>

\* Mutant of StageFails: the failed stage is not recorded.
StageFails_Unrecorded(stage, why) ==
  /\ pc' = "fail"
  /\ blame' = blame \cup {IF Live THEN why ELSE "budget"}
  /\ UNCHANGED rep

\* A stage after COMPOSE UP did not succeed; what its failure is worth is
\* decided by Fail, a moment later.
StageFails(stage, why) ==
  /\ pc' = "fail"
  /\ rep' = [rep EXCEPT !.failed = stage]
  /\ blame' = blame \cup {IF Live THEN why ELSE "budget"}

\* Mutant of Load: the loop runs one input too far.
Load_OneMore ==
  /\ pc = "load" /\ next <= Len(InputKind) + 1
  /\ \/ /\ next \notin Loadable \/ Live
        /\ next' = next + 1
        /\ loaded' = loaded \cup ({next} \cap Loadable)
        /\ UNCHANGED <<pc, rep, blame>>
     \/ /\ next \in Loadable
        /\ StageFails("load", "stage")
        /\ UNCHANGED data
  /\ UNCHANGED <<opt, runCtx, host, err, teardownVars>>

\* One turn of the load loop: a dump, an integrity check, or nothing to do.
Load ==
  /\ pc = "load" /\ next \in Inputs
  /\ \/ /\ next \notin Loadable \/ Live
        /\ next' = next + 1
        /\ loaded' = loaded \cup ({next} \cap Loadable)
        /\ UNCHANGED <<pc, rep, blame>>
     \/ /\ next \in Loadable
        /\ StageFails("load", "stage")
        /\ UNCHANGED data
  /\ UNCHANGED <<opt, runCtx, host, err, teardownVars>>

LoadEnds ==
  /\ pc = "load" /\ next \notin Inputs
  /\ pc' = IF LoadFirst = {} THEN "ready" ELSE "rest"
  /\ UNCHANGED <<opt, runCtx, data, host, rep, err, teardownVars, blame>>

\* The second Up, which starts the application on the loaded database.  It
\* fails because of a service ("stage") or of compose and its images ("start").
StartRest ==
  /\ pc = "rest"
  /\ \/ /\ Live
        /\ up' = up \cup StartedBy({})
        /\ pc' = "ready" /\ UNCHANGED <<rep, blame>>
     \/ /\ \E S \in SUBSET StartedBy({}) : up' = up \cup S
        /\ \E why \in {"stage", "start"} : StageFails("ready", why)
  /\ UNCHANGED <<opt, runCtx, data, disk, composeUp, err, teardownVars>>

\* probe.RunAll: no probe, no call.
Ready ==
  /\ pc = "ready"
  /\ \/ /\ Live \/ NProbes = 0
        /\ pc' = "checks" /\ UNCHANGED <<rep, blame>>
     \/ NProbes # 0 /\ StageFails("ready", "stage")
  /\ UNCHANGED <<opt, runCtx, data, host, err, teardownVars>>

\* Mutant of StageVerdict: the stage decides, not the cause.
StageVerdict_ByStage == "UNUSABLE"

\* Out of time, or interrupted, nothing is known about the backup.
StageVerdict == IF Live THEN "UNUSABLE" ELSE "ERROR"

ExitOf(v) == CASE v = "PASS" -> 0 [] v = "UNUSABLE" -> 1 [] v = "ERROR" -> 2

\* The closure `fail`: the verdict of a failed stage is read off runCtx.
Fail ==
  /\ pc = "fail"
  /\ pc' = "teardown"
  /\ rep' = [rep EXCEPT
       !.verdict = StageVerdict,
       !.exit = ExitOf(StageVerdict),
       !.text = CASE runCtx = "live" -> "stage"
                  [] runCtx = "deadline" -> "budget"
                  [] runCtx = "cancelled" -> "cancel",
       !.total = NChecks, !.skipped = NChecks]
  /\ UNCHANGED <<opt, runCtx, data, host, err, teardownVars, blame>>

\* One check.  The loop never stops early and never looks at runCtx.
Check ==
  /\ pc = "checks" /\ rep.total < NChecks
  /\ \/ /\ Live
        /\ rep' = [rep EXCEPT !.total = @ + 1, !.passed = @ + 1]
        /\ UNCHANGED blame
     \/ /\ rep' = [rep EXCEPT !.total = @ + 1, !.missed = @ + 1]
        /\ blame' = blame \cup {IF Live THEN "stage" ELSE "budget"}
  /\ UNCHANGED <<opt, pc, runCtx, data, host, err, teardownVars>>

\* Mutant of ChecksVerdict: one check that passes is enough.
ChecksVerdict_AnyPass == IF rep.passed = 0 THEN "UNUSABLE" ELSE "PASS"

ChecksVerdict == IF rep.missed > 0 THEN "UNUSABLE" ELSE "PASS"

Report ==
  /\ pc = "checks" /\ rep.total >= NChecks
  /\ pc' = "teardown"
  /\ rep' = [rep EXCEPT !.verdict = ChecksVerdict, !.exit = ExitOf(ChecksVerdict)]
  /\ UNCHANGED <<opt, runCtx, data, host, err, teardownVars, blame>>

-----------------------------------------------------------------------------
(* The deferred functions: teardown, then the finaliser.                   *)

\* Mutant of KeepIt: --keep-on-fail looks at the error alone.
KeepIt_OnErrorOnly == opt.keep \/ (opt.keepOnFail /\ err # "none")

KeepIt == opt.keep \/ (opt.keepOnFail /\ (err # "none" \/ rep.verdict # "PASS"))

\* Mutant of FirstTeardownStep: after an error only the files are removed.
FirstTeardownStep_FilesOnly == IF composeUp /\ err = "none" THEN "down" ELSE "remove"

FirstTeardownStep == IF composeUp THEN "down" ELSE "remove"

\* Mutant of TeardownBudget: a context without a deadline.
TeardownBudget_None == "unset"

TeardownBudget == "live"

Teardown ==
  /\ pc = "teardown"
  /\ \/ /\ KeepIt
        /\ kept' = TRUE
        /\ rep' = [rep EXCEPT !.removed = FALSE]
        /\ pc' = "finalise" /\ UNCHANGED downCtx
     \/ /\ ~KeepIt
        /\ downCtx' = TeardownBudget
        /\ pc' = FirstTeardownStep
        /\ UNCHANGED <<kept, rep>>
  /\ UNCHANGED <<opt, runCtx, data, host, err, observers>>

\* docker compose down: its error is logged, nothing more.
Down ==
  /\ pc = "down"
  /\ pc' = "remove"
  /\ \/ downCtx = "live" /\ up' = {} /\ UNCHANGED downFailed
     \/ up' \in SUBSET up /\ downFailed' = TRUE
  /\ UNCHANGED <<opt, runCtx, downCtx, data, disk, composeUp, rep, err, kept, blame>>

\* Mutant of RemoveGivesUp: a removal that failed is only logged.
RemoveGivesUp_Logged ==
  /\ pc' = "finalise"
  /\ rep' = [rep EXCEPT !.removed = FALSE]
  /\ UNCHANGED <<disk, err>>

\* ws.Remove gave up: the run did not succeed whatever its verdict was.
RemoveGivesUp ==
  /\ pc' = "finalise"
  /\ rep' = [rep EXCEPT !.removed = FALSE]
  /\ err' = IF err = "none" THEN "remove" ELSE err
  /\ UNCHANGED disk

\* Mutant of Removed: the report is left saying that nothing was removed.
Removed_Unreported ==
  /\ pc' = "finalise"
  /\ disk' = "absent"
  /\ UNCHANGED <<rep, err>>

Removed ==
  /\ pc' = "finalise"
  /\ disk' = "absent"
  /\ rep' = [rep EXCEPT !.removed = TRUE]
  /\ UNCHANGED err

Remove ==
  /\ pc = "remove"
  /\ \/ Removed
     \/ opt.windows /\ RemoveGivesUp
     \/ ~opt.windows /\ pc' = "scrub" /\ UNCHANGED <<disk, rep, err>>
  /\ UNCHANGED <<opt, runCtx, data, up, composeUp, teardownVars, blame>>

\* Root in a helper container opens the modes, under what is left of downCtx.
Scrub ==
  /\ pc = "scrub"
  /\ \/ downCtx = "live" /\ pc' = "remove again" /\ UNCHANGED <<disk, rep, err>>
     \/ RemoveGivesUp
  /\ UNCHANGED <<opt, runCtx, data, up, composeUp, teardownVars, blame>>

RemoveAgain ==
  /\ pc = "remove again"
  /\ Removed \/ RemoveGivesUp
  /\ UNCHANGED <<opt, runCtx, data, up, composeUp, teardownVars, blame>>

\* Mutant of Finalise: the error of the teardown comes too late for the verdict.
Finalise_KeepsVerdict ==
  /\ pc = "finalise"
  /\ pc' = "done"
  /\ rep' = [rep EXCEPT !.text = IF @ = "none" THEN err ELSE @]
  /\ UNCHANGED <<opt, runCtx, data, host, err, teardownVars, blame>>

\* Registered first, so it runs last.
Finalise ==
  /\ pc = "finalise"
  /\ pc' = "done"
  /\ rep' = IF err = "none" THEN rep
            ELSE [rep EXCEPT !.verdict = "ERROR", !.exit = 2,
                             !.text = IF @ = "none" THEN err ELSE @]
  /\ UNCHANGED <<opt, runCtx, data, host, err, teardownVars, blame>>

-----------------------------------------------------------------------------
(* The environment: the clock and the operator.                            *)

\* --timeout expires.  The context lives until Run returns.
Deadline ==
  /\ Live /\ pc # "done"
  /\ runCtx' = "deadline"
  /\ UNCHANGED <<opt, pc, data, host, rep, err, teardownVars, blame>>

\* The first SIGINT or SIGTERM cancels the parent of runCtx.
Interrupt ==
  /\ Live /\ pc # "done"
  /\ runCtx' = "cancelled"
  /\ UNCHANGED <<opt, pc, data, host, rep, err, teardownVars, blame>>

\* Two minutes of teardown: not a child of the interrupted context.
DownDeadline ==
  /\ downCtx = "live" /\ pc \in {"down", "remove", "scrub", "remove again"}
  /\ downCtx' = "over"
  /\ UNCHANGED <<opt, pc, runCtx, data, host, rep, err, kept, observers>>

-----------------------------------------------------------------------------
BeforeVerdict == Resolve \/ Prepare \/ ReadRecipe \/ Restore \/ Render \/ ComposeUp
                 \/ Query \/ Load \/ LoadEnds \/ StartRest \/ Ready \/ Fail
                 \/ Check \/ Report

Deferred == Teardown \/ Down \/ Remove \/ Scrub \/ RemoveAgain \/ Finalise

Runner == BeforeVerdict \/ Deferred

Environment == Deadline \/ Interrupt \/ DownDeadline

\* The program has exited: nothing more happens.
Exited == pc = "done" /\ UNCHANGED vars

Next == Runner \/ Environment \/ Exited

Spec == Init /\ [][Next]_vars

\* The steps that wait for docker or restic, and may wait until the context
\* they were started under is over and the child is killed.
MayHang == \/ Live /\ pc \in {"resolve", "restore", "up", "query", "load",
                              "rest", "ready", "checks"}
           \/ downCtx # "over" /\ pc \in {"down", "scrub"}

\* Time passes, and every step that cannot hang is taken.  Interrupts need
\* never come, and no call need ever be answered.
Fairness == /\ WF_vars(Deadline)
            /\ WF_vars(DownDeadline)
            /\ WF_vars(~MayHang /\ Runner)

FairSpec == Spec /\ Fairness

-----------------------------------------------------------------------------
(* What must hold.                                                         *)

PCs == {"resolve", "prepare", "recipe", "restore", "render", "up", "query",
        "load", "rest", "ready", "fail", "checks", "teardown", "down",
        "remove", "scrub", "remove again", "finalise", "done"}

\* The variables keep to their sets.
TypeOK ==
  /\ opt \in Options
  /\ pc \in PCs
  /\ runCtx \in {"live", "deadline", "cancelled"}
  /\ downCtx \in {"unset", "live", "over"}
  /\ next \in 1..(Len(InputKind) + 1)
  /\ loaded \in SUBSET Loadable
  /\ disk \in {"absent", "partial", "present"}
  /\ up \in SUBSET Services
  /\ composeUp \in BOOLEAN /\ kept \in BOOLEAN /\ downFailed \in BOOLEAN
  /\ rep \in Reports
  /\ err \in Errors
  /\ blame \in SUBSET {"stage", "start", "budget"}

\* A dump that does not load and a probe that never succeeds accuse the
\* backup only when the run still had its budget: a stage killed by --timeout
\* or by an interrupt never ends in RESTORE_UNUSABLE, whatever instant it died.
NeverAccusedOutOfTime ==
  rep.verdict = "UNUSABLE" /\ rep.passed + rep.missed = 0 => "budget" \notin blame

\* A PASS stands for the whole drill: every dump loaded, every integrity
\* check and every check passed, and no call on the way failed.
PassMeansProved ==
  pc = "done" /\ rep.verdict = "PASS" =>
    /\ loaded = Loadable /\ rep.passed = NChecks
    /\ rep.failed = "none" /\ blame = {}

\* An application never starts against a database that its dump is not in:
\* while a dump is missing, only what its service needs is running (ADR-041).
DumpBeforeApplication ==
  \A s \in up : (\A i \in Dumps : s \notin Needs[LoadService[i]])
                 => Dumps \subseteq loaded

\* The report tells the truth about the workspace it names.
RemovalIsReported ==
  pc = "done" /\ rep.id => (rep.removed <=> disk = "absent")

\* A container of the run survives it only if the run kept its project or
\* `docker compose down` itself failed - also after an Up that failed half way.
ProjectIsTakenDown ==
  pc = "done" /\ up # {} => kept \/ downFailed

\* --keep and --keep-on-fail keep the workspace exactly when they say, with
\* the one exception of a run that failed by its own removal.
KeepIsHonoured ==
  pc = "done" /\ rep.id =>
    LET wanted == opt.keep \/ (opt.keepOnFail /\ rep.verdict # "PASS")
    IN  /\ kept => wanted /\ disk = "present"
        /\ wanted => kept \/ err = "remove"

\* Of a run's workspace its operator knows: it is kept when that was asked for,
\* it is removed otherwise, and the report says which, whatever failed.
WorkspaceIsAccountedFor == RemovalIsReported /\ KeepIsHonoured

\* The report's exit code is its verdict's, every error of Run is an ERROR,
\* and a verdict that no check explains comes with a text.
ExitTellsTheVerdict ==
  pc = "done" =>
    /\ rep.exit = ExitOf(rep.verdict)
    /\ err # "none" => rep.verdict = "ERROR"
    /\ rep.verdict # "PASS" => rep.text # "none" \/ rep.missed > 0

\* The summary accounts for every check of the recipe, and RESTORE_UNUSABLE
\* is explained by a failed stage or by a failed check, never by both.
VerdictIsExplained ==
  pc = "done" =>
    /\ rep.total = rep.passed + rep.missed + rep.skipped
    /\ rep.verdict # "ERROR" => rep.total = NChecks
    /\ rep.verdict = "UNUSABLE" =>
         \/ rep.failed \in {"load", "ready"} /\ rep.skipped = NChecks
         \/ rep.failed = "none" /\ rep.skipped = 0 /\ rep.missed > 0

\* A reader of the report, or of the exit code alone, is told one verdict, and why.
VerdictIsAccountedFor == ExitTellsTheVerdict /\ VerdictIsExplained

\* The workspace is removed from under its containers only when taking them
\* down has been tried and has failed.
FilesGoAfterContainers ==
  [][disk = "present" /\ disk' = "absent" => up = {} \/ downFailed]_vars

\* However docker and restic behave, a run ends: it cannot outlive its
\* budget and the budget of its teardown.
Termination == <>(pc = "done")

\* What the checks of the report say, once it is returned.
ChecksSay == IF pc # "done" \/ rep.passed + rep.missed = 0 THEN "none"
             ELSE IF rep.missed > 0 THEN "missed" ELSE "passed"

Contract == INSTANCE DrillContract WITH
  outcome <- IF pc = "done" THEN rep.verdict ELSE "pending",
  failed <- pc = "done" /\ err # "none",
  checks <- ChecksSay,
  holds <- disk # "absent",
  announced <- kept

\* Run implements the contract of a drill: one verdict, and nothing of the
\* run left on disk that neither the returned Kept nor an error accounts for.
ImplementsContract == Contract!FairSpec

-----------------------------------------------------------------------------
(* What the repository says of Run and Run does not do.                    *)

\* SPEC.md 5.3: "A run that exceeds --timeout is exit 2".
TimeoutIsAnError ==
  pc = "done" /\ rep.verdict = "UNUSABLE" /\ runCtx = "deadline"
    => blame # {"budget"}
=============================================================================
