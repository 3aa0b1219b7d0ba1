------------------------------- MODULE Harness -------------------------------
(***************************************************************************)
(* `drillback recipe test`: each recipe named is tested in turn.  Stage A  *)
(* drills it against empty inputs and wants the drill to fail; stage B     *)
(* starts it, seeds it, backs it up into a throwaway repository, destroys  *)
(* it, and drills the repository.                                          *)
(*                                                                         *)
(* Both drills take the steps that DrillContract allows, and no other.     *)
(* The shares of the time budget that bound single phases are left out: a  *)
(* phase may fail at any time, and cannot succeed once ctx is over.        *)
(***************************************************************************)
EXTENDS Integers

CONSTANT NRecipes   \* recipes named on the command line

ASSUME ConstantsAssumption == NRecipes \in Nat \ {0}

VARIABLES
  opt,        \* --stage and --keep
  pc,         \* the next step
  recipe,     \* the recipe at hand
  rec,        \* what it has: a test section, steps in it, a counting check
  ctx,        \* the context of its run: --timeout, and the interrupt
  stA, stB,   \* the status of its stages
  err,        \* stage B returns an error
  result,     \* the status of its result
  named,      \* the kept workspaces that its result names
  worst,      \* the exit code so far
  exit,       \* the exit code of the process, -1 while it runs
  tree,       \* stage A's tree of empty inputs exists
  ws,         \* stage B's workspace directory
  stack,      \* what stage B's containers and volumes hold
  composeUp,  \* stage B's teardown has a project to take down
  repo,       \* the repository in stage B's workspace
  env,        \* whose password the process' RESTIC_* variables give
  outcome, failed, checks, holds, announced,  \* the drill (DrillContract)
  dead,       \* it was started under a context that was over
  emptyRun,   \* observer: what the checks said of the empty inputs
  left,       \* observer: workspaces of this recipe that are left on disk
  downFailed, \* observer: the last `docker compose down` did not succeed
  results     \* observer: the status of each recipe's result

drill == <<outcome, failed, checks, holds, announced>>
invocation == <<opt, recipe, rec>>
stages == <<stA, stB, err, result, named>>
command == <<worst, exit, results>>
project == <<stack, composeUp, repo>>
observers == <<emptyRun, left, downFailed>>
vars == <<invocation, pc, ctx, stages, command, tree, ws, project, env, drill, dead,
          observers>>

Contract == INSTANCE DrillContract

Live == ctx = "live"
Fresh == [test |-> FALSE, steps |-> FALSE, counting |-> FALSE]

Init ==
  /\ opt \in [stage : {"a", "b", "both"}, keep : BOOLEAN]
  /\ pc = "load" /\ recipe = 1 /\ rec = Fresh /\ ctx = "live"
  /\ stA = "none" /\ stB = "none" /\ err = FALSE /\ result = "none" /\ named = {}
  /\ worst = 0 /\ exit = -1 /\ results = [r \in 1..NRecipes |-> "untested"]
  /\ tree = FALSE /\ ws = "absent"
  /\ stack = "none" /\ composeUp = FALSE /\ repo = "none" /\ env = "operator"
  /\ Contract!Init /\ dead = FALSE
  /\ emptyRun = "none" /\ left = {} /\ downFailed = FALSE

-----------------------------------------------------------------------------
(* harness.Run.                                                            *)

Finish(status) == result' = status /\ pc' = "record"

\* testOne: LoadAny.  The recipe starts from nothing but what the process
\* has: an interrupt outlives the recipe it hit, --timeout does not.
LoadRecipe ==
  /\ pc = "load"
  /\ \E r \in [test : BOOLEAN, steps : BOOLEAN, counting : BOOLEAN] :
       (r.steps => r.test) /\ rec' = r
  /\ ctx' = IF ctx = "cancelled" THEN "cancelled" ELSE "live"
  /\ stA' = "none" /\ stB' = "none" /\ err' = FALSE /\ named' = {}
  /\ tree' = FALSE /\ ws' = "absent"
  /\ stack' = "none" /\ composeUp' = FALSE /\ repo' = "none"
  /\ emptyRun' = "none" /\ left' = {} /\ downFailed' = FALSE
  /\ \/ pc' = "preflight" /\ result' = "none"
     \/ Finish("error")
  /\ UNCHANGED <<opt, recipe, command, env, drill, dead>>

\* restic for stage B, docker, and a test section for stage B.
Preflight ==
  /\ pc = "preflight"
  /\ \/ /\ Live
        /\ opt.stage # "a" => rec.test
        /\ pc' = IF opt.stage = "b" THEN "B workspace" ELSE "A tree"
        /\ UNCHANGED result
     \/ Finish("error")
  /\ UNCHANGED <<invocation, ctx, stA, stB, err, named, command, tree, ws, project,
                 env, drill, dead, observers>>

\* runner.Run is called.
StartDrill ==
  /\ outcome' = "pending" /\ failed' = FALSE /\ checks' = "none"
  /\ holds' = FALSE /\ announced' = FALSE
  /\ dead' = ~Live

\* The drill takes the steps of the contract.  Its Options.Keep is --keep.
DrillStep ==
  /\ pc \in {"A drill", "B drill"}
  /\ \/ ~dead /\ Contract!Acquire
     \/ ~opt.keep /\ Contract!Release
     \/ opt.keep /\ Contract!Announce
  /\ UNCHANGED <<invocation, pc, ctx, stages, command, tree, ws, project, env, dead,
                 observers>>

\* It returns: under a context that was over it got nowhere, and with --keep
\* it kept its workspace unless it failed.
DrillReturns ==
  /\ Contract!Finish
  /\ dead \/ (opt.keep /\ ~announced) => failed'

-----------------------------------------------------------------------------
(* Stage A.                                                                *)

\* recipe.Resolve, MkdirTemp, emptyTree.
EmptyTree ==
  /\ pc = "A tree"
  /\ \/ /\ tree' = TRUE
        /\ pc' = "A drill" /\ StartDrill /\ UNCHANGED stA
     \/ /\ tree' \in BOOLEAN
        /\ stA' = "error"
        /\ pc' = "A clean" /\ UNCHANGED <<drill, dead>>
  /\ UNCHANGED <<invocation, ctx, stB, err, result, named, command, ws, project, env,
                 observers>>

EmptyDrillEnds ==
  /\ pc = "A drill"
  /\ DrillReturns
  /\ pc' = "A judge"
  /\ emptyRun' = checks'
  /\ left' = IF holds THEN left \cup {"A"} ELSE left
  /\ UNCHANGED <<invocation, ctx, stages, command, tree, ws, project, env, dead,
                 downFailed>>

\* Mutant of EmptyVerdict: no check ran, so the stack refused to start.
EmptyVerdict_TrustsRefusal ==
  IF failed THEN "error" ELSE IF checks = "passed" THEN "fail" ELSE "pass"

\* What the drill against empty inputs says of the recipe.  When no check ran
\* the recipe has to have one that counts.
EmptyVerdict ==
  CASE failed -> "error"
    [] ~failed /\ checks = "missed" -> "pass"
    [] ~failed /\ checks = "none" -> IF rec.counting THEN "pass" ELSE "fail"
    [] ~failed /\ checks = "passed" -> "fail"

JudgeEmpty ==
  /\ pc = "A judge"
  /\ stA' = EmptyVerdict
  /\ named' = IF announced THEN named \cup {"A"} ELSE named
  /\ pc' = "A clean"
  /\ UNCHANGED <<invocation, ctx, stB, err, result, command, tree, ws, project, env,
                 drill, dead, observers>>

\* The deferred removal of the tree, whose error is dropped.
CleanTree ==
  /\ pc = "A clean"
  /\ tree' \in IF opt.keep THEN {tree} ELSE {FALSE, tree}
  /\ pc' = "A done"
  /\ UNCHANGED <<invocation, ctx, stages, command, ws, project, env, drill, dead,
                 observers>>

\* A recipe that stage A rejects is invalid: an error, not a failure.
AfterA ==
  /\ pc = "A done"
  /\ \/ stA \in {"error", "fail"} /\ Finish("error")
     \/ stA = "pass" /\ opt.stage = "a" /\ Finish("pass")
     \/ stA = "pass" /\ opt.stage = "both" /\ pc' = "B workspace" /\ UNCHANGED result
  /\ UNCHANGED <<invocation, ctx, stA, stB, err, named, command, tree, ws, project,
                 env, drill, dead, observers>>

-----------------------------------------------------------------------------
(* Stage B.                                                                *)

FailStage(to) == stB' = "error" /\ err' = TRUE /\ pc' = to

\* What every step of stage B up to its drill leaves alone.
StageBFrame == UNCHANGED <<invocation, ctx, stA, result, named, command, tree, env,
                           emptyRun, left>>

\* workspace.New.  Teardown is registered after it.
NewWorkspace ==
  /\ pc = "B workspace"
  /\ \/ ws' = "present" /\ pc' = "B prepare" /\ UNCHANGED <<stB, err>>
     \/ ws' \in {"absent", "partial"} /\ FailStage("B done")
  /\ UNCHANGED <<project, drill, dead, downFailed>> /\ StageBFrame

\* Resolve, the empty inputs and test assets, the compose file.
PrepareStack ==
  /\ pc = "B prepare"
  /\ \/ pc' = "B up" /\ UNCHANGED <<stB, err>>
     \/ FailStage("B teardown")
  /\ UNCHANGED <<ws, project, drill, dead, downFailed>> /\ StageBFrame

\* Mutant of StartStack: the project is known once it is up.
StartStack_SetAfter ==
  /\ pc = "B up"
  /\ \/ Live /\ composeUp' = TRUE /\ stack' = "empty" /\ pc' = "B seed" /\ UNCHANGED <<stB, err>>
     \/ stack' \in {"none", "empty"} /\ FailStage("B teardown") /\ UNCHANGED composeUp
  /\ UNCHANGED <<ws, repo, drill, dead, downFailed>> /\ StageBFrame

\* Up, Services and NetworkName.
StartStack ==
  /\ pc = "B up"
  /\ composeUp' = TRUE
  /\ \/ Live /\ stack' = "empty" /\ pc' = "B seed" /\ UNCHANGED <<stB, err>>
     \/ stack' \in {"none", "empty"} /\ FailStage("B teardown")
  /\ UNCHANGED <<ws, repo, drill, dead, downFailed>> /\ StageBFrame

\* The ready probes and the seed steps, in order; the first that fails ends it.
Seed ==
  /\ pc = "B seed"
  /\ \/ /\ Live \/ ~rec.steps
        /\ stack' = (IF rec.steps THEN "seeded" ELSE stack)
        /\ pc' = "B export" /\ UNCHANGED <<stB, err>>
     \/ FailStage("B teardown") /\ UNCHANGED stack
  /\ UNCHANGED <<ws, composeUp, repo, drill, dead, downFailed>> /\ StageBFrame

\* The export steps, collect, restic init and restic backup.
Export ==
  /\ pc = "B export"
  /\ \/ Live /\ repo' = stack /\ pc' = "B down" /\ UNCHANGED <<stB, err>>
     \/ repo' \in {"none", "partial"} /\ FailStage("B teardown")
  /\ UNCHANGED <<ws, stack, composeUp, drill, dead, downFailed>> /\ StageBFrame

\* Mutant of DestroyStack: an error of Down is only logged.
DestroyStack_Logged ==
  /\ pc = "B down"
  /\ stack' \in {"none", stack}
  /\ composeUp' = FALSE /\ env' = "throwaway" /\ pc' = "B drill" /\ StartDrill
  /\ downFailed' = (stack' # "none")
  /\ UNCHANGED <<invocation, ctx, stages, command, tree, ws, repo, emptyRun, left>>

\* compose down -v under a budget that the interrupt does not reach, and then
\* the drill of the repository, in an environment of its own.
DestroyStack ==
  /\ pc = "B down"
  /\ \/ /\ stack' = "none" /\ composeUp' = FALSE /\ downFailed' = FALSE
        /\ env' = "throwaway"
        /\ pc' = "B drill" /\ StartDrill /\ UNCHANGED <<stB, err>>
     \/ /\ FailStage("B teardown") /\ downFailed' = TRUE
        /\ UNCHANGED <<stack, composeUp, env, drill, dead>>
  /\ UNCHANGED <<invocation, ctx, stA, result, named, command, tree, ws, repo,
                 emptyRun, left>>

\* The deferred function of withResticEnv is part of it.
RestoreDrillEnds ==
  /\ pc = "B drill"
  /\ DrillReturns
  /\ env' = "operator"
  /\ pc' = "B judge"
  /\ left' = IF holds THEN left \cup {"inner"} ELSE left
  /\ UNCHANGED <<invocation, ctx, stages, command, tree, ws, project, dead, emptyRun,
                 downFailed>>

\* Mutant of RestoreVerdict: no failed check is good enough.
RestoreVerdict_NoneFailed ==
  IF failed THEN "error" ELSE IF checks = "missed" THEN "fail" ELSE "pass"

RestoreVerdict == IF failed THEN "error" ELSE IF outcome # "PASS" THEN "fail" ELSE "pass"

\* The report of the drill, which names its workspace, goes into the result
\* unless the stage passes; the note about the workspace is overwritten.
JudgeRestore ==
  /\ pc = "B judge"
  /\ stB' = RestoreVerdict /\ err' = failed
  /\ named' = IF announced /\ RestoreVerdict # "pass" THEN named \cup {"inner"} ELSE named
  /\ pc' = "B teardown"
  /\ UNCHANGED <<invocation, ctx, stA, result, command, tree, ws, project, env, drill,
                 dead, observers>>

\* The deferred teardown.  --keep keeps everything.
TeardownB ==
  /\ pc = "B teardown"
  /\ \/ opt.keep /\ named' = named \cup {"B"} /\ pc' = "B done"
     \/ ~opt.keep /\ pc' = (IF composeUp THEN "B down again" ELSE "B remove") /\ UNCHANGED named
  /\ UNCHANGED <<invocation, ctx, stA, stB, err, result, command, tree, ws, project,
                 env, drill, dead, observers>>

\* Its Down, whose error is only logged.
DownAgain ==
  /\ pc = "B down again"
  /\ \/ stack' = "none" /\ downFailed' = FALSE
     \/ UNCHANGED stack /\ downFailed' = TRUE
  /\ pc' = "B remove"
  /\ UNCHANGED <<stB, err, ws, composeUp, repo, drill, dead>> /\ StageBFrame

\* Mutant of RemoveB: the error of the removal is dropped.
RemoveB_Dropped ==
  /\ pc = "B remove"
  /\ \/ ws' = "absent" /\ repo' = "none"
     \/ UNCHANGED <<ws, repo>>
  /\ pc' = "B done"
  /\ UNCHANGED <<stB, err, stack, composeUp, drill, dead, downFailed>> /\ StageBFrame

\* ws.Remove, and once more after Scrub.
RemoveB ==
  /\ pc = "B remove"
  /\ \/ ws' = "absent" /\ repo' = "none" /\ UNCHANGED err
     \/ err' = TRUE /\ UNCHANGED <<ws, repo>>
  /\ pc' = "B done"
  /\ UNCHANGED <<stB, stack, composeUp, drill, dead, downFailed>> /\ StageBFrame

AfterB ==
  /\ pc = "B done"
  /\ Finish(IF err THEN "error" ELSE IF stB # "pass" THEN "fail" ELSE "pass")
  /\ left' = IF ws # "absent" THEN left \cup {"B"} ELSE left
  /\ UNCHANGED <<invocation, ctx, stA, stB, err, named, command, tree, ws, project,
                 env, drill, dead, emptyRun, downFailed>>

-----------------------------------------------------------------------------
(* The command.                                                            *)

\* Mutant of Worst: a failure after an error makes it a failure.
Worst_LastWins ==
  IF result = "error" THEN 2 ELSE IF result = "fail" THEN 1 ELSE worst

\* A failure counts only while nothing worse happened.
Worst == IF result = "error" THEN 2 ELSE IF result = "fail" /\ worst = 0 THEN 1 ELSE worst

\* Mutant of Record: one recipe too many.
Record_OneMore ==
  /\ pc = "record"
  /\ results' = [results EXCEPT ![recipe] = result]
  /\ worst' = Worst
  /\ \/ recipe <= NRecipes /\ recipe' = recipe + 1 /\ pc' = "load"
     \/ recipe > NRecipes /\ UNCHANGED recipe /\ pc' = "documents"
  /\ UNCHANGED <<opt, rec, ctx, stages, exit, tree, ws, project, env, drill, dead,
                 observers>>

\* rep.Add, the fold, and the next recipe: an interrupt does not end the loop.
Record ==
  /\ pc = "record"
  /\ results' = [results EXCEPT ![recipe] = result]
  /\ worst' = Worst
  /\ \/ recipe < NRecipes /\ recipe' = recipe + 1 /\ pc' = "load"
     \/ recipe = NRecipes /\ UNCHANGED recipe /\ pc' = "documents"
  /\ UNCHANGED <<opt, rec, ctx, stages, exit, tree, ws, project, env, drill, dead,
                 observers>>

\* The report, the JSON document and the file, any of which may not be
\* written, and the exit code.
Documents ==
  /\ pc = "documents"
  /\ exit' \in {worst, 2}
  /\ pc' = "left"
  /\ UNCHANGED <<invocation, ctx, stages, worst, results, tree, ws, project, env, drill,
                 dead, observers>>

-----------------------------------------------------------------------------
(* The clock and the operator.                                             *)

EnvironmentFrame == UNCHANGED <<invocation, pc, stages, command, tree, ws, project, env,
                                drill, dead, observers>>

\* --timeout runs from the end of the preflight to the return of harness.Run.
Deadline ==
  /\ Live /\ pc \notin {"load", "preflight", "record", "documents", "left"}
  /\ ctx' = "deadline"
  /\ EnvironmentFrame

Interrupt ==
  /\ ctx # "cancelled" /\ pc # "left"
  /\ ctx' = "cancelled"
  /\ EnvironmentFrame

-----------------------------------------------------------------------------
StageASteps == EmptyTree \/ EmptyDrillEnds \/ JudgeEmpty \/ CleanTree \/ AfterA

StageBSteps == NewWorkspace \/ PrepareStack \/ StartStack \/ Seed \/ Export
               \/ DestroyStack \/ RestoreDrillEnds \/ JudgeRestore \/ TeardownB
               \/ DownAgain \/ RemoveB \/ AfterB

Command == LoadRecipe \/ Preflight \/ Record \/ Documents

\* The process has exited.
Exited == pc = "left" /\ UNCHANGED vars

Next == Command \/ StageASteps \/ StageBSteps \/ DrillStep \/ Deadline \/ Interrupt \/ Exited

Spec == Init /\ [][Next]_vars

-----------------------------------------------------------------------------
(* What must hold.                                                         *)

Statuses == {"none", "pass", "fail", "error"}

Steps == {"load", "preflight", "A tree", "A drill", "A judge", "A clean", "A done",
          "B workspace", "B prepare", "B up", "B seed", "B export", "B down", "B drill",
          "B judge", "B teardown", "B down again", "B remove", "B done", "record",
          "documents", "left"}

\* The variables keep to their sets.
TypeOK ==
  /\ opt \in [stage : {"a", "b", "both"}, keep : BOOLEAN]
  /\ pc \in Steps /\ recipe \in 1..NRecipes
  /\ rec \in [test : BOOLEAN, steps : BOOLEAN, counting : BOOLEAN]
  /\ ctx \in {"live", "deadline", "cancelled"}
  /\ stA \in Statuses /\ stB \in Statuses /\ err \in BOOLEAN /\ result \in Statuses
  /\ named \subseteq {"A", "B", "inner"} /\ left \subseteq {"A", "B", "inner"}
  /\ worst \in 0..2 /\ exit \in -1..2
  /\ results \in [1..NRecipes -> Statuses \cup {"untested"}]
  /\ tree \in BOOLEAN /\ ws \in {"absent", "partial", "present"}
  /\ stack \in {"none", "empty", "seeded"} /\ composeUp \in BOOLEAN
  /\ repo \in {"none", "partial", "empty", "seeded"}
  /\ env \in {"operator", "throwaway"}
  /\ outcome \in Contract!Verdicts \cup {"pending"} /\ failed \in BOOLEAN
  /\ checks \in Contract!Checks /\ holds \in BOOLEAN /\ announced \in BOOLEAN
  /\ dead \in BOOLEAN /\ emptyRun \in Contract!Checks /\ downFailed \in BOOLEAN

\* A recipe whose checks all pass against nothing, or that never ran a check
\* and has none that counts, is not let through by any later success.  Why no
\* check ran, this does not ask: StageAPassIsEvidence does.
BlindRecipeIsRejected ==
  pc = "record" /\ result \in {"pass", "fail"} /\ opt.stage # "b" =>
    emptyRun = "missed" \/ (emptyRun = "none" /\ rec.counting)

\* A recipe passes when every stage asked for has: after stage B it has been
\* restored, and the drill of its repository, the last one, ended in PASS with
\* its checks run; what stage A let through, stage B does not replace.
PassIsARoundTrip ==
  pc = "record" /\ result = "pass" =>
    /\ opt.stage # "b" => stA = "pass"
    /\ opt.stage # "a" => stB = "pass" /\ outcome = "PASS" /\ checks = "passed"

\* The drill of stage B sees the repository and nothing else: a whole backup,
\* no container or volume of the stack it was taken from, and not the
\* operator's own repository password.  Nothing but that drill sees the other.
DrillSeesOnlyTheRepository ==
  /\ env = "throwaway" <=> pc = "B drill"
  /\ pc = "B drill" => /\ stack = "none" /\ ~composeUp
                       /\ repo = (IF rec.steps THEN "seeded" ELSE "empty")

\* Stage B's stack outlives its recipe only with --keep or because taking it
\* down failed - also when it never came up whole.
StackIsTakenDown ==
  pc = "record" /\ stack # "none" => opt.keep \/ downFailed

\* Without --keep, a result that is no error leaves no workspace behind, the
\* harness' own or that of one of its drills; with it, whatever is kept is named
\* but for the inner workspace of a stage B that passed.  No stack is left but
\* by --keep or a failure to take it down.
NothingIsLeft ==
  /\ (pc = "record" /\ result # "error") =>
       left \subseteq IF ~opt.keep THEN {}
                      ELSE named \cup (IF stB = "pass" THEN {"inner"} ELSE {})
  /\ StackIsTakenDown

\* The exit code says the worst of all recipes, in whatever order they came.
ExitTellsTheWorst ==
  exit \in {0, 1} =>
    /\ \A r \in 1..NRecipes : results[r] \in {"pass", "fail"}
    /\ exit = 0 <=> \A r \in 1..NRecipes : results[r] = "pass"

-----------------------------------------------------------------------------
(* What the repository says of the harness and the harness does not do.    *)

\* SPEC.md 7.2: stage A passes "if at least one check FAILED", or by a stack
\* that refuses to boot with no data.
StageAPassIsEvidence ==
  pc = "A judge" /\ EmptyVerdict = "pass" => outcome # "ERROR"
=============================================================================
