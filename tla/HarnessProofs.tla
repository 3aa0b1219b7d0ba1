---------------------------- MODULE HarnessProofs ----------------------------
(***************************************************************************)
(* Theorems about Harness, for any number of recipes.                      *)
(*                                                                         *)
(* The invariant follows the recipe at hand: what stage A found out (its   *)
(* evidence) and what stage B found out (its verdict) stay what they were  *)
(* until the result is recorded, while the stack and the workspaces that   *)
(* exist are, at every step, ones that a later step still has to deal with *)
(* or has already named.                                                   *)
(***************************************************************************)
EXTENDS Harness, TLAPS

-----------------------------------------------------------------------------
(* The steps of a recipe.                                                  *)

BeforeB == {"preflight", "A tree", "A drill", "A judge", "A clean", "A done"}

BeforeVerdictB == {"B workspace", "B prepare", "B up", "B seed", "B export", "B down",
                   "B drill", "B judge"}

AfterVerdictB == {"B teardown", "B down again", "B remove", "B done"}

StageB == BeforeVerdictB \cup AfterVerdictB

-----------------------------------------------------------------------------
(* The invariant.                                                          *)

\* The finished drill, as its contract has it.
DrillEnded ==
  /\ outcome = "PASS" => ~failed /\ checks = "passed"
  /\ announced => opt.keep
  /\ pc \in {"A judge", "B judge"} => (holds => announced \/ failed)

\* The checks could tell the empty inputs from good ones.
Evidence == emptyRun = "missed" \/ (emptyRun = "none" /\ rec.counting)

\* Stage A passes on evidence alone, and nothing gets past it without.
EvidenceKept ==
  /\ pc \in {"preflight", "A tree", "A drill", "A judge"} => stA = "none"
  /\ pc = "A judge" => emptyRun = checks
  /\ stA = "pass" => Evidence
  /\ pc \in {"A tree", "A drill", "A judge", "A clean", "A done"} => opt.stage # "b"
  /\ pc \in StageB => opt.stage # "a" /\ (opt.stage = "both" => stA = "pass")
  /\ pc = "record" /\ result # "error" /\ opt.stage # "b" => stA = "pass"

\* Stage B passes on the verdict of its drill, and no drill comes after it.
VerdictKept ==
  /\ pc \in BeforeB \cup BeforeVerdictB => stB = "none"
  /\ stB = "pass" => outcome = "PASS"
  /\ pc = "record" /\ result = "pass" /\ opt.stage # "a" => stB = "pass"

\* What the recipe's seed steps leave in the stack.
Seeded == IF rec.steps THEN "seeded" ELSE "empty"

\* Whatever is up is known to the teardown until it has dealt with it.
StackHeld ==
  /\ env = "throwaway" <=> pc = "B drill"
  /\ pc \in BeforeB \cup {"B workspace", "B prepare", "B up", "B drill", "B judge"} =>
       stack = "none"
  /\ pc = "B seed" => stack = "empty"
  /\ pc = "B export" => stack = Seeded
  /\ pc \in {"B down", "B drill"} => repo = Seeded
  /\ pc = "B drill" => ~composeUp
  /\ pc \in StageB \ {"B remove", "B done"} => (stack # "none" => composeUp)
  /\ pc \in {"B down again", "B remove"} => ~opt.keep
  /\ pc = "B remove" => (stack # "none" => downFailed)
  /\ pc \in {"B done", "record"} => (stack # "none" => opt.keep \/ downFailed)

\* The workspaces that are left are kept on purpose and named, but for the
\* inner one of a stage B that passed.
Accounted ==
  left \subseteq IF ~opt.keep THEN {}
                 ELSE named \cup (IF stB = "pass" THEN {"inner"} ELSE {})

\* Stage B's drill has ended and has not been judged.
InnerJudged ==
  /\ left \subseteq {"A", "inner"} /\ (opt.keep \/ "A" \notin left)
  /\ "A" \in left => "A" \in named
  /\ "inner" \in left => announced \/ failed

\* Either they are, or an error is on its way to the result.
LeftAccounted ==
  /\ pc \in {"preflight", "A tree", "A drill"} => left = {}
  /\ pc = "A judge" => left \subseteq {"A"} /\ (left # {} => announced \/ failed)
  /\ pc \in {"A clean", "A done"} => (stA # "error" => left \subseteq {"A"} /\ Accounted)
  /\ pc \in BeforeVerdictB \ {"B judge"} => left \subseteq {"A"} /\ Accounted
  /\ pc = "B judge" => InnerJudged
  /\ pc \in AfterVerdictB => (~err => Accounted)
  /\ pc = "B done" => (~err => IF opt.keep THEN "B" \in named ELSE ws = "absent")
  /\ pc = "record" => (result # "error" => Accounted)

\* The recipes whose result is in the report.
Recorded == IF pc \in {"documents", "left"} THEN 1..NRecipes ELSE 1..(recipe - 1)

\* The exit code so far is the worst of them.
WorstFolded ==
  /\ pc = "record" => result # "none"
  /\ \A r \in Recorded : results[r] \in {"pass", "fail", "error"}
  /\ worst = 2 <=> \E r \in Recorded : results[r] = "error"
  /\ worst = 0 <=> \A r \in Recorded : results[r] = "pass"
  /\ exit # -1 => pc = "left" /\ exit \in {worst, 2}

IInv == /\ TypeOK /\ DrillEnded /\ EvidenceKept /\ VerdictKept
        /\ StackHeld /\ LeftAccounted /\ WorstFolded

-----------------------------------------------------------------------------
(* Type correctness, a part at a time: the provers do better with sets of  *)
(* records, of names and of numbers apart.                                 *)

TypeInvocation ==
  /\ opt \in [stage : {"a", "b", "both"}, keep : BOOLEAN]
  /\ rec \in [test : BOOLEAN, steps : BOOLEAN, counting : BOOLEAN]

TypeResults ==
  /\ recipe \in 1..NRecipes /\ worst \in 0..2 /\ exit \in -1..2 /\ result \in Statuses
  /\ results \in [1..NRecipes -> Statuses \cup {"untested"}]

TypeSteps == pc \in Steps

TypeVerdicts ==
  /\ outcome \in Contract!Verdicts \cup {"pending"}
  /\ checks \in Contract!Checks /\ emptyRun \in Contract!Checks

TypeFlags ==
  /\ err \in BOOLEAN /\ tree \in BOOLEAN /\ composeUp \in BOOLEAN /\ downFailed \in BOOLEAN
  /\ failed \in BOOLEAN /\ holds \in BOOLEAN /\ announced \in BOOLEAN /\ dead \in BOOLEAN

TypeWorkspaces == named \subseteq {"A", "B", "inner"} /\ left \subseteq {"A", "B", "inner"}

TypeStages == stA \in Statuses /\ stB \in Statuses

TypePlaces ==
  /\ ctx \in {"live", "deadline", "cancelled"}
  /\ ws \in {"absent", "partial", "present"}
  /\ env \in {"operator", "throwaway"}

TypeStack ==
  /\ stack \in {"none", "empty", "seeded"}
  /\ repo \in {"none", "partial", "empty", "seeded"}

\* TypeOK is all of them.
LEMMA TypeParts ==
  TypeOK <=> /\ TypeInvocation /\ TypeResults /\ TypeSteps /\ TypeVerdicts /\ TypeFlags
             /\ TypeWorkspaces /\ TypeStages /\ TypePlaces /\ TypeStack
  BY DEF TypeOK, TypeInvocation, TypeResults, TypeSteps, TypeVerdicts, TypeFlags,
         TypeWorkspaces, TypeStages, TypePlaces, TypeStack

\* The command starts with every part in its sets.
LEMMA TypeInit == Init => TypeOK
<1> SUFFICES ASSUME Init PROVE TypeOK
  OBVIOUS
<1>1. TypeInvocation
  BY DEF Init, TypeInvocation, Fresh
<1>2. TypeResults
  BY ConstantsAssumption DEF Init, TypeResults, Statuses
<1>3. TypeSteps /\ TypeStages
  BY DEF Init, TypeSteps, Steps, TypeStages, Statuses
<1>4. TypeVerdicts /\ TypeFlags
  BY DEF Init, TypeVerdicts, TypeFlags, Contract!Init, Contract!Checks, Contract!Verdicts
<1>5. TypeWorkspaces /\ TypePlaces /\ TypeStack
  BY DEF Init, TypeWorkspaces, TypePlaces, TypeStack
<1> QED BY <1>1, <1>2, <1>3, <1>4, <1>5, TypeParts

\* The flags are the operator's; the recipe is read as one.
LEMMA TypeInvocationStep == ASSUME TypeInvocation, [Next]_vars PROVE TypeInvocation'
<1> USE DEF vars, invocation, drill, stages, command, project, observers
<1>1. CASE Command
  BY <1>1 DEF Command, LoadRecipe, Finish, Preflight, Live, Record, Worst, Documents,
         TypeInvocation
<1>2. CASE StageASteps
  BY <1>2 DEF StageASteps, EmptyTree, StartDrill, Live, EmptyDrillEnds, DrillReturns,
         Contract!Finish, Contract!End, Contract!Verdicts, Contract!Checks, JudgeEmpty,
         EmptyVerdict, CleanTree, AfterA, Finish, TypeInvocation
<1>3. CASE StageBSteps
  BY <1>3 DEF StageBSteps, NewWorkspace, FailStage, StageBFrame, PrepareStack,
         StartStack, Live, Seed, Export, DestroyStack, StartDrill, RestoreDrillEnds,
         DrillReturns, Contract!Finish, Contract!End, Contract!Verdicts,
         Contract!Checks, JudgeRestore, RestoreVerdict, TeardownB, DownAgain, RemoveB,
         AfterB, Finish, TypeInvocation
<1>4. CASE DrillStep
  BY <1>4 DEF DrillStep, Contract!Acquire, Contract!Release, Contract!Announce,
         TypeInvocation
<1>5. CASE Deadline \/ Interrupt
  BY <1>5 DEF Deadline, EnvironmentFrame, Live, Interrupt, TypeInvocation
<1>6. CASE UNCHANGED vars
  BY <1>6 DEF TypeInvocation
<1> QED BY <1>1, <1>2, <1>3, <1>4, <1>5, <1>6 DEF Next, Exited

\* The report and the exit codes; Record goes on to a recipe there is.
LEMMA TypeResultsStep == ASSUME TypeResults, [Next]_vars PROVE TypeResults'
<1> USE DEF vars, invocation, drill, stages, command, project, observers
<1>1. CASE Command
  <2>1. CASE LoadRecipe \/ Preflight
    BY <2>1 DEF LoadRecipe, Finish, Preflight, TypeResults, Statuses
  <2>3. CASE Documents
    BY <2>3 DEF Documents, TypeResults
  <2>2. CASE Record
    <3>1. results' \in [1..NRecipes -> Statuses \cup {"untested"}]
      BY <2>2 DEF Record, TypeResults
    <3>2. worst' \in 0..2
      BY <2>2 DEF Record, Worst, TypeResults
    <3>3. recipe' \in 1..NRecipes
      BY <2>2, ConstantsAssumption DEF Record, TypeResults
    <3> QED BY <2>2, <3>1, <3>2, <3>3 DEF Record, TypeResults
  <2> QED BY <1>1, <2>1, <2>2, <2>3 DEF Command
<1>2. CASE StageASteps
  BY <1>2 DEF StageASteps, EmptyTree, StartDrill, Live, EmptyDrillEnds, DrillReturns,
         Contract!Finish, Contract!End, Contract!Verdicts, Contract!Checks, JudgeEmpty,
         EmptyVerdict, CleanTree, AfterA, Finish, TypeResults, Statuses
<1>3. CASE StageBSteps
  BY <1>3 DEF StageBSteps, NewWorkspace, FailStage, StageBFrame, PrepareStack,
         StartStack, Live, Seed, Export, DestroyStack, StartDrill, RestoreDrillEnds,
         DrillReturns, Contract!Finish, Contract!End, Contract!Verdicts,
         Contract!Checks, JudgeRestore, RestoreVerdict, TeardownB, DownAgain, RemoveB,
         AfterB, Finish, TypeResults, Statuses
<1>4. CASE DrillStep
  BY <1>4 DEF DrillStep, Contract!Acquire, Contract!Release, Contract!Announce,
         TypeResults, Statuses
<1>5. CASE Deadline \/ Interrupt
  BY <1>5 DEF Deadline, EnvironmentFrame, Live, Interrupt, TypeResults, Statuses
<1>6. CASE UNCHANGED vars
  BY <1>6 DEF TypeResults, Statuses
<1> QED BY <1>1, <1>2, <1>3, <1>4, <1>5, <1>6 DEF Next, Exited

\* Every step leads to a step.
LEMMA TypeStepsStep == ASSUME TypeSteps, [Next]_vars PROVE TypeSteps'
<1> USE DEF vars, invocation, drill, stages, command, project, observers
<1>1. CASE Command
  BY <1>1 DEF Command, LoadRecipe, Finish, Preflight, Live, Record, Worst, Documents,
         TypeSteps, Steps
<1>2. CASE StageASteps
  BY <1>2 DEF StageASteps, EmptyTree, StartDrill, Live, EmptyDrillEnds, DrillReturns,
         Contract!Finish, Contract!End, Contract!Verdicts, Contract!Checks, JudgeEmpty,
         EmptyVerdict, CleanTree, AfterA, Finish, TypeSteps, Steps
<1>3. CASE StageBSteps
  BY <1>3 DEF StageBSteps, NewWorkspace, FailStage, StageBFrame, PrepareStack,
         StartStack, Live, Seed, Export, DestroyStack, StartDrill, RestoreDrillEnds,
         DrillReturns, Contract!Finish, Contract!End, Contract!Verdicts,
         Contract!Checks, JudgeRestore, RestoreVerdict, TeardownB, DownAgain, RemoveB,
         AfterB, Finish, TypeSteps, Steps
<1>4. CASE DrillStep
  BY <1>4 DEF DrillStep, Contract!Acquire, Contract!Release, Contract!Announce,
         TypeSteps, Steps
<1>5. CASE Deadline \/ Interrupt
  BY <1>5 DEF Deadline, EnvironmentFrame, Live, Interrupt, TypeSteps, Steps
<1>6. CASE UNCHANGED vars
  BY <1>6 DEF TypeSteps, Steps
<1> QED BY <1>1, <1>2, <1>3, <1>4, <1>5, <1>6 DEF Next, Exited

\* What drills say.
LEMMA TypeVerdictsStep == ASSUME TypeVerdicts, [Next]_vars PROVE TypeVerdicts'
<1> USE DEF vars, invocation, drill, stages, command, project, observers
<1>1. CASE Command
  BY <1>1 DEF Command, LoadRecipe, Finish, Preflight, Live, Record, Worst, Documents,
         TypeVerdicts, Contract!Verdicts, Contract!Checks
<1>2. CASE StageASteps
  BY <1>2 DEF StageASteps, EmptyTree, StartDrill, Live, EmptyDrillEnds, DrillReturns,
         Contract!Finish, Contract!End, Contract!Verdicts, Contract!Checks, JudgeEmpty,
         EmptyVerdict, CleanTree, AfterA, Finish, TypeVerdicts
<1>3. CASE StageBSteps
  BY <1>3 DEF StageBSteps, NewWorkspace, FailStage, StageBFrame, PrepareStack,
         StartStack, Live, Seed, Export, DestroyStack, StartDrill, RestoreDrillEnds,
         DrillReturns, Contract!Finish, Contract!End, Contract!Verdicts,
         Contract!Checks, JudgeRestore, RestoreVerdict, TeardownB, DownAgain, RemoveB,
         AfterB, Finish, TypeVerdicts
<1>4. CASE DrillStep
  BY <1>4 DEF DrillStep, Contract!Acquire, Contract!Release, Contract!Announce,
         TypeVerdicts, Contract!Verdicts, Contract!Checks
<1>5. CASE Deadline \/ Interrupt
  BY <1>5 DEF Deadline, EnvironmentFrame, Live, Interrupt, TypeVerdicts,
         Contract!Verdicts, Contract!Checks
<1>6. CASE UNCHANGED vars
  BY <1>6 DEF TypeVerdicts, Contract!Verdicts, Contract!Checks
<1> QED BY <1>1, <1>2, <1>3, <1>4, <1>5, <1>6 DEF Next, Exited

\* The flags of the model.
LEMMA TypeFlagsStep == ASSUME TypeFlags, [Next]_vars PROVE TypeFlags'
<1> USE DEF vars, invocation, drill, stages, command, project, observers
<1>1. CASE Command
  BY <1>1 DEF Command, LoadRecipe, Finish, Preflight, Live, Record, Worst, Documents,
         TypeFlags
<1>2. CASE StageASteps
  BY <1>2 DEF StageASteps, EmptyTree, StartDrill, Live, EmptyDrillEnds, DrillReturns,
         Contract!Finish, Contract!End, Contract!Verdicts, Contract!Checks, JudgeEmpty,
         EmptyVerdict, CleanTree, AfterA, Finish, TypeFlags
<1>3. CASE StageBSteps
  <2>1. CASE NewWorkspace \/ PrepareStack \/ StartStack \/ Seed \/ Export \/ DownAgain
    BY <2>1 DEF NewWorkspace, PrepareStack, StartStack, Seed, Export, DownAgain,
                FailStage, StageBFrame, TypeFlags
  <2>2. CASE DestroyStack
    BY <2>2 DEF DestroyStack, StartDrill, FailStage, Live, TypeFlags
  <2>3. CASE RestoreDrillEnds
    BY <2>3 DEF RestoreDrillEnds, DrillReturns, Contract!Finish, Contract!End, TypeFlags
  <2>4. CASE JudgeRestore \/ TeardownB \/ RemoveB \/ AfterB
    BY <2>4 DEF JudgeRestore, TeardownB, RemoveB, AfterB, StageBFrame, TypeFlags
  <2> QED BY <1>3, <2>1, <2>2, <2>3, <2>4 DEF StageBSteps
<1>4. CASE DrillStep
  BY <1>4 DEF DrillStep, Contract!Acquire, Contract!Release, Contract!Announce,
         TypeFlags
<1>5. CASE Deadline \/ Interrupt
  BY <1>5 DEF Deadline, EnvironmentFrame, Live, Interrupt, TypeFlags
<1>6. CASE UNCHANGED vars
  BY <1>6 DEF TypeFlags
<1> QED BY <1>1, <1>2, <1>3, <1>4, <1>5, <1>6 DEF Next, Exited

\* The names of workspaces.
LEMMA TypeWorkspacesStep == ASSUME TypeWorkspaces, [Next]_vars PROVE TypeWorkspaces'
<1> USE DEF vars, invocation, drill, stages, command, project, observers
<1>1. CASE Command
  BY <1>1 DEF Command, LoadRecipe, Finish, Preflight, Live, Record, Worst, Documents,
         TypeWorkspaces
<1>2. CASE StageASteps
  BY <1>2 DEF StageASteps, EmptyTree, StartDrill, Live, EmptyDrillEnds, DrillReturns,
         Contract!Finish, Contract!End, Contract!Verdicts, Contract!Checks, JudgeEmpty,
         EmptyVerdict, CleanTree, AfterA, Finish, TypeWorkspaces
<1>3. CASE StageBSteps
  <2>1. CASE RestoreDrillEnds \/ AfterB
    BY <2>1 DEF RestoreDrillEnds, AfterB, TypeWorkspaces
  <2>2. CASE JudgeRestore \/ TeardownB
    BY <2>2 DEF JudgeRestore, TeardownB, TypeWorkspaces
  <2>3. CASE NewWorkspace \/ PrepareStack \/ StartStack \/ Seed \/ Export \/ DestroyStack
             \/ DownAgain \/ RemoveB
    BY <2>3 DEF NewWorkspace, PrepareStack, StartStack, Seed, Export, DestroyStack,
                DownAgain, RemoveB, StageBFrame, TypeWorkspaces
  <2> QED BY <1>3, <2>1, <2>2, <2>3 DEF StageBSteps
<1>4. CASE DrillStep
  BY <1>4 DEF DrillStep, Contract!Acquire, Contract!Release, Contract!Announce,
         TypeWorkspaces
<1>5. CASE Deadline \/ Interrupt
  BY <1>5 DEF Deadline, EnvironmentFrame, Live, Interrupt, TypeWorkspaces
<1>6. CASE UNCHANGED vars
  BY <1>6 DEF TypeWorkspaces
<1> QED BY <1>1, <1>2, <1>3, <1>4, <1>5, <1>6 DEF Next, Exited

\* The statuses of the stages, which come from verdicts.
LEMMA TypeStagesStep ==
  ASSUME TypeFlags, TypeVerdicts, TypeStages, [Next]_vars PROVE TypeStages'
<1> USE DEF vars, invocation, drill, stages, command, project, observers
<1>1. CASE Command
  BY <1>1 DEF Command, LoadRecipe, Finish, Preflight, Live, Record, Worst, Documents,
         TypeStages, Statuses
<1>2. CASE StageASteps
  <2>1. CASE JudgeEmpty
    <3>1. EmptyVerdict \in Statuses
      BY DEF EmptyVerdict, TypeFlags, TypeVerdicts, Contract!Checks, Statuses
    <3> QED BY <2>1, <3>1 DEF JudgeEmpty, TypeStages
  <2>2. CASE EmptyTree \/ EmptyDrillEnds \/ CleanTree \/ AfterA
    BY <2>2 DEF EmptyTree, EmptyDrillEnds, CleanTree, AfterA, TypeStages, Statuses
  <2> QED BY <1>2, <2>1, <2>2 DEF StageASteps
<1>3. CASE StageBSteps
  BY <1>3 DEF StageBSteps, NewWorkspace, FailStage, StageBFrame, PrepareStack,
         StartStack, Live, Seed, Export, DestroyStack, StartDrill, RestoreDrillEnds,
         DrillReturns, Contract!Finish, Contract!End, Contract!Verdicts,
         Contract!Checks, JudgeRestore, RestoreVerdict, TeardownB, DownAgain, RemoveB,
         AfterB, Finish, TypeStages, Statuses
<1>4. CASE DrillStep
  BY <1>4 DEF DrillStep, Contract!Acquire, Contract!Release, Contract!Announce,
         TypeStages, Statuses
<1>5. CASE Deadline \/ Interrupt
  BY <1>5 DEF Deadline, EnvironmentFrame, Live, Interrupt, TypeStages, Statuses
<1>6. CASE UNCHANGED vars
  BY <1>6 DEF TypeStages, Statuses
<1> QED BY <1>1, <1>2, <1>3, <1>4, <1>5, <1>6 DEF Next, Exited

\* The context, the workspace and the environment.
LEMMA TypePlacesStep == ASSUME TypePlaces, [Next]_vars PROVE TypePlaces'
<1> USE DEF vars, invocation, drill, stages, command, project, observers
<1>1. CASE Command
  BY <1>1 DEF Command, LoadRecipe, Finish, Preflight, Live, Record, Worst, Documents,
         TypePlaces
<1>2. CASE StageASteps
  BY <1>2 DEF StageASteps, EmptyTree, StartDrill, Live, EmptyDrillEnds, DrillReturns,
         Contract!Finish, Contract!End, Contract!Verdicts, Contract!Checks, JudgeEmpty,
         EmptyVerdict, CleanTree, AfterA, Finish, TypePlaces
<1>3. CASE StageBSteps
  BY <1>3 DEF StageBSteps, NewWorkspace, FailStage, StageBFrame, PrepareStack,
         StartStack, Live, Seed, Export, DestroyStack, StartDrill, RestoreDrillEnds,
         DrillReturns, Contract!Finish, Contract!End, Contract!Verdicts,
         Contract!Checks, JudgeRestore, RestoreVerdict, TeardownB, DownAgain, RemoveB,
         AfterB, Finish, TypePlaces
<1>4. CASE DrillStep
  BY <1>4 DEF DrillStep, Contract!Acquire, Contract!Release, Contract!Announce,
         TypePlaces
<1>5. CASE Deadline \/ Interrupt
  BY <1>5 DEF Deadline, EnvironmentFrame, Live, Interrupt, TypePlaces
<1>6. CASE UNCHANGED vars
  BY <1>6 DEF TypePlaces
<1> QED BY <1>1, <1>2, <1>3, <1>4, <1>5, <1>6 DEF Next, Exited

\* The stack, and the repository that is a backup of it.
LEMMA TypeStackStep == ASSUME TypeStack, [Next]_vars PROVE TypeStack'
<1> USE DEF vars, invocation, drill, stages, command, project, observers
<1>1. CASE Command
  BY <1>1 DEF Command, LoadRecipe, Finish, Preflight, Live, Record, Worst, Documents,
         TypeStack
<1>2. CASE StageASteps
  BY <1>2 DEF StageASteps, EmptyTree, StartDrill, Live, EmptyDrillEnds, DrillReturns,
         Contract!Finish, Contract!End, Contract!Verdicts, Contract!Checks, JudgeEmpty,
         EmptyVerdict, CleanTree, AfterA, Finish, TypeStack
<1>3. CASE StageBSteps
  BY <1>3 DEF StageBSteps, NewWorkspace, FailStage, StageBFrame, PrepareStack,
         StartStack, Live, Seed, Export, DestroyStack, StartDrill, RestoreDrillEnds,
         DrillReturns, Contract!Finish, Contract!End, Contract!Verdicts,
         Contract!Checks, JudgeRestore, RestoreVerdict, TeardownB, DownAgain, RemoveB,
         AfterB, Finish, TypeStack
<1>4. CASE DrillStep
  BY <1>4 DEF DrillStep, Contract!Acquire, Contract!Release, Contract!Announce,
         TypeStack
<1>5. CASE Deadline \/ Interrupt
  BY <1>5 DEF Deadline, EnvironmentFrame, Live, Interrupt, TypeStack
<1>6. CASE UNCHANGED vars
  BY <1>6 DEF TypeStack
<1> QED BY <1>1, <1>2, <1>3, <1>4, <1>5, <1>6 DEF Next, Exited

\* Every step keeps the variables to their sets.
LEMMA TypeStep == ASSUME TypeOK, [Next]_vars PROVE TypeOK'
<1>1. /\ TypeInvocation /\ TypeResults /\ TypeSteps /\ TypeVerdicts /\ TypeFlags
      /\ TypeWorkspaces /\ TypeStages /\ TypePlaces /\ TypeStack
  BY TypeParts
<1>2. /\ TypeInvocation' /\ TypeResults' /\ TypeSteps' /\ TypeVerdicts' /\ TypeFlags'
      /\ TypeWorkspaces' /\ TypeStages' /\ TypePlaces' /\ TypeStack'
  BY <1>1, TypeInvocationStep, TypeResultsStep, TypeStepsStep, TypeVerdictsStep,
     TypeFlagsStep, TypeWorkspacesStep, TypeStagesStep, TypePlacesStep, TypeStackStep
<1> QED
  BY <1>2 DEF TypeOK, TypeInvocation, TypeResults, TypeSteps, TypeVerdicts, TypeFlags,
              TypeWorkspaces, TypeStages, TypePlaces, TypeStack

-----------------------------------------------------------------------------
(* A drill ends as its contract says.                                      *)

\* What a drill that returns has promised.
LEMMA ContractEnds ==
  ASSUME DrillReturns
  PROVE  /\ UNCHANGED <<holds, announced>>
         /\ holds => announced \/ failed'
         /\ outcome' = "PASS" => ~failed' /\ checks' = "passed"
<1>1. PICK v \in Contract!Verdicts, e \in BOOLEAN, c \in Contract!Checks :
        Contract!End(v, e, c)
  BY DEF DrillReturns, Contract!Finish
<1>2. outcome' = v /\ failed' = e /\ checks' = c /\ UNCHANGED <<holds, announced>>
  BY <1>1 DEF Contract!End
<1>3. (e => v = "ERROR") /\ (holds => announced \/ e)
  BY <1>1 DEF Contract!End
<1>4. ~e /\ v = "PASS" => c = "passed"
  BY <1>1 DEF Contract!End
<1> QED BY <1>2, <1>3, <1>4

\* It ends, and what it holds is announced unless it failed.
LEMMA DrillEndedReturns == ASSUME DrillEnded, DrillReturns, opt' = opt PROVE DrillEnded'
<1>1. /\ UNCHANGED <<holds, announced>> /\ (holds => announced \/ failed')
      /\ outcome' = "PASS" => ~failed' /\ checks' = "passed"
  BY ContractEnds
<1>2. announced' => opt'.keep
  BY <1>1 DEF DrillEnded
<1>3. holds' => announced' \/ failed'
  BY <1>1
<1> QED BY <1>1, <1>2, <1>3 DEF DrillEnded

\* A drill that starts has not ended.
LEMMA DrillEndedStart ==
  ASSUME DrillEnded, StartDrill, pc' \notin {"A judge", "B judge"} PROVE DrillEnded'
  BY DEF StartDrill, DrillEnded

\* Nothing about the drill changes, and no verdict is looked at.
LEMMA DrillEndedFrame ==
  ASSUME DrillEnded, UNCHANGED <<opt, drill>>, pc' \notin {"A judge", "B judge"}
  PROVE  DrillEnded'
  BY DEF drill, DrillEnded

\* Only with --keep does a drill announce what it keeps.
LEMMA DrillEndedDrillStep == ASSUME DrillEnded, DrillStep PROVE DrillEnded'
<1>1. UNCHANGED <<opt, pc, outcome, failed, checks>>
  BY DEF DrillStep, Contract!Acquire, Contract!Release, Contract!Announce, invocation
<1>2. pc \notin {"A judge", "B judge"}
  BY DEF DrillStep
<1>3. announced' => opt.keep
  <2>1. CASE UNCHANGED announced
    BY <2>1 DEF DrillEnded
  <2>2. CASE opt.keep
    BY <2>2
  <2> QED BY <2>1, <2>2 DEF DrillStep, Contract!Acquire, Contract!Release
<1> QED BY <1>1, <1>2, <1>3 DEF DrillEnded

\* DrillEnded, step by step.
LEMMA DrillEndedStep == ASSUME DrillEnded, [Next]_vars PROVE DrillEnded'
<1> USE DEF vars, invocation, drill, stages, command, project, observers
<1>1. CASE LoadRecipe
  BY <1>1 DEF LoadRecipe, Finish, DrillEnded
<1>2. CASE Preflight
  BY <1>2 DEF Preflight, Finish, Live, DrillEnded
<1>3. CASE EmptyTree
  BY <1>3, DrillEndedStart, DrillEndedFrame DEF EmptyTree
<1>4. CASE EmptyDrillEnds
  BY <1>4, DrillEndedReturns DEF EmptyDrillEnds
<1>5. CASE JudgeEmpty
  BY <1>5 DEF JudgeEmpty, EmptyVerdict, DrillEnded
<1>6. CASE CleanTree
  BY <1>6 DEF CleanTree, DrillEnded
<1>7. CASE AfterA
  BY <1>7 DEF AfterA, Finish, DrillEnded
<1>8. CASE NewWorkspace
  BY <1>8 DEF NewWorkspace, FailStage, StageBFrame, DrillEnded
<1>9. CASE PrepareStack
  BY <1>9 DEF PrepareStack, FailStage, StageBFrame, DrillEnded
<1>10. CASE StartStack
  BY <1>10 DEF StartStack, FailStage, StageBFrame, Live, DrillEnded
<1>11. CASE Seed
  BY <1>11 DEF Seed, FailStage, StageBFrame, Live, DrillEnded
<1>12. CASE Export
  BY <1>12 DEF Export, FailStage, StageBFrame, Live, DrillEnded
<1>13. CASE DestroyStack
  BY <1>13, DrillEndedStart, DrillEndedFrame DEF DestroyStack, FailStage
<1>14. CASE RestoreDrillEnds
  BY <1>14, DrillEndedReturns DEF RestoreDrillEnds
<1>15. CASE JudgeRestore
  BY <1>15 DEF JudgeRestore, RestoreVerdict, DrillEnded
<1>16. CASE TeardownB
  BY <1>16 DEF TeardownB, DrillEnded
<1>17. CASE DownAgain
  BY <1>17 DEF DownAgain, StageBFrame, DrillEnded
<1>18. CASE RemoveB
  BY <1>18 DEF RemoveB, StageBFrame, DrillEnded
<1>19. CASE AfterB
  BY <1>19 DEF AfterB, Finish, DrillEnded
<1>20. CASE Record
  BY <1>20 DEF Record, Worst, DrillEnded
<1>21. CASE Documents
  BY <1>21 DEF Documents, DrillEnded
<1>22. CASE DrillStep
  BY <1>22, DrillEndedDrillStep
<1>23. CASE Deadline
  BY <1>23 DEF Deadline, EnvironmentFrame, Live, DrillEnded
<1>24. CASE Interrupt
  BY <1>24 DEF Interrupt, EnvironmentFrame, DrillEnded
<1>25. CASE UNCHANGED vars
  BY <1>25 DEF DrillEnded
<1> QED
  BY <1>1, <1>2, <1>3, <1>4, <1>5, <1>6, <1>7, <1>8, <1>9, <1>10, <1>11, <1>12, <1>13,
         <1>14, <1>15, <1>16, <1>17, <1>18, <1>19, <1>20, <1>21, <1>22, <1>23, <1>24,
         <1>25
     DEF Next, Command, StageASteps, StageBSteps, Exited

-----------------------------------------------------------------------------
(* Stage A's evidence.                                                     *)

\* EmptyVerdict asks for evidence, and is a status.
LEMMA EmptyVerdictAsksForEvidence ==
  ASSUME TypeFlags, TypeVerdicts
  PROVE  /\ EmptyVerdict \in {"pass", "fail", "error"}
         /\ EmptyVerdict = "pass" => checks = "missed" \/ (checks = "none" /\ rec.counting)
         /\ failed => EmptyVerdict = "error"
  BY DEF EmptyVerdict, TypeFlags, TypeVerdicts, Contract!Checks

\* EvidenceKept, step by step.
LEMMA EvidenceKeptStep == ASSUME TypeOK, EvidenceKept, [Next]_vars PROVE EvidenceKept'
<1> USE DEF vars, invocation, drill, stages, command, project, observers
<1>a. TypeFlags /\ TypeVerdicts /\ opt.stage \in {"a", "b", "both"}
  BY TypeParts DEF TypeInvocation
<1>1. CASE LoadRecipe
  BY <1>1 DEF LoadRecipe, Finish, EvidenceKept, Evidence, StageB, BeforeVerdictB,
         AfterVerdictB
<1>2. CASE Preflight
  BY <1>2 DEF Preflight, Finish, Live, EvidenceKept, Evidence, StageB, BeforeVerdictB,
         AfterVerdictB
<1>3. CASE EmptyTree
  BY <1>3 DEF EmptyTree, StartDrill, Live, EvidenceKept, Evidence, StageB,
         BeforeVerdictB, AfterVerdictB
<1>4. CASE EmptyDrillEnds
  BY <1>4 DEF EmptyDrillEnds, DrillReturns, Contract!Finish, Contract!End,
         Contract!Verdicts, Contract!Checks, EvidenceKept, Evidence, StageB,
         BeforeVerdictB, AfterVerdictB
<1>5. CASE JudgeEmpty
  BY <1>5, <1>a, EmptyVerdictAsksForEvidence
     DEF JudgeEmpty, EvidenceKept, Evidence, StageB, BeforeVerdictB, AfterVerdictB
<1>6. CASE CleanTree
  BY <1>6 DEF CleanTree, EvidenceKept, Evidence, StageB, BeforeVerdictB, AfterVerdictB
<1>7. CASE AfterA
  BY <1>7 DEF AfterA, Finish, EvidenceKept, Evidence, StageB, BeforeVerdictB,
         AfterVerdictB
<1>8. CASE NewWorkspace
  BY <1>8 DEF NewWorkspace, FailStage, StageBFrame, EvidenceKept, Evidence, StageB,
         BeforeVerdictB, AfterVerdictB
<1>9. CASE PrepareStack
  BY <1>9 DEF PrepareStack, FailStage, StageBFrame, EvidenceKept, Evidence, StageB,
         BeforeVerdictB, AfterVerdictB
<1>10. CASE StartStack
  BY <1>10 DEF StartStack, FailStage, StageBFrame, Live, EvidenceKept, Evidence, StageB,
         BeforeVerdictB, AfterVerdictB
<1>11. CASE Seed
  BY <1>11 DEF Seed, FailStage, StageBFrame, Live, EvidenceKept, Evidence, StageB,
         BeforeVerdictB, AfterVerdictB
<1>12. CASE Export
  BY <1>12 DEF Export, FailStage, StageBFrame, Live, EvidenceKept, Evidence, StageB,
         BeforeVerdictB, AfterVerdictB
<1>13. CASE DestroyStack
  BY <1>13 DEF DestroyStack, FailStage, StartDrill, Live, EvidenceKept, Evidence,
         StageB, BeforeVerdictB, AfterVerdictB
<1>14. CASE RestoreDrillEnds
  BY <1>14 DEF RestoreDrillEnds, DrillReturns, Contract!Finish, Contract!End,
         Contract!Verdicts, Contract!Checks, EvidenceKept, Evidence, StageB,
         BeforeVerdictB, AfterVerdictB
<1>15. CASE JudgeRestore
  BY <1>15 DEF JudgeRestore, RestoreVerdict, EvidenceKept, Evidence, StageB,
         BeforeVerdictB, AfterVerdictB
<1>16. CASE TeardownB
  BY <1>16 DEF TeardownB, EvidenceKept, Evidence, StageB, BeforeVerdictB, AfterVerdictB
<1>17. CASE DownAgain
  BY <1>17 DEF DownAgain, StageBFrame, EvidenceKept, Evidence, StageB, BeforeVerdictB,
         AfterVerdictB
<1>18. CASE RemoveB
  BY <1>18 DEF RemoveB, StageBFrame, EvidenceKept, Evidence, StageB, BeforeVerdictB,
         AfterVerdictB
<1>19. CASE AfterB
  BY <1>19, <1>a DEF AfterB, Finish, EvidenceKept, Evidence, StageB, BeforeVerdictB,
         AfterVerdictB
<1>20. CASE Record
  BY <1>20 DEF Record, Worst, EvidenceKept, Evidence, StageB, BeforeVerdictB,
         AfterVerdictB
<1>21. CASE Documents
  BY <1>21 DEF Documents, EvidenceKept, Evidence, StageB, BeforeVerdictB, AfterVerdictB
<1>22. CASE DrillStep
  BY <1>22 DEF DrillStep, Contract!Acquire, Contract!Release, Contract!Announce,
         EvidenceKept, Evidence, StageB, BeforeVerdictB, AfterVerdictB
<1>23. CASE Deadline
  BY <1>23 DEF Deadline, EnvironmentFrame, Live, EvidenceKept, Evidence, StageB,
         BeforeVerdictB, AfterVerdictB
<1>24. CASE Interrupt
  BY <1>24 DEF Interrupt, EnvironmentFrame, EvidenceKept, Evidence, StageB,
         BeforeVerdictB, AfterVerdictB
<1>25. CASE UNCHANGED vars
  BY <1>25 DEF EvidenceKept, Evidence, StageB, BeforeVerdictB, AfterVerdictB
<1> QED
  BY <1>1, <1>2, <1>3, <1>4, <1>5, <1>6, <1>7, <1>8, <1>9, <1>10, <1>11, <1>12, <1>13,
         <1>14, <1>15, <1>16, <1>17, <1>18, <1>19, <1>20, <1>21, <1>22, <1>23, <1>24,
         <1>25
     DEF Next, Command, StageASteps, StageBSteps, Exited

-----------------------------------------------------------------------------
(* Stage B's verdict.                                                      *)

\* VerdictKept, step by step.  A stage B that has passed starts no drill.
LEMMA VerdictKeptStep ==
  ASSUME EvidenceKept, VerdictKept, [Next]_vars PROVE VerdictKept'
<1> USE DEF vars, invocation, drill, stages, command, project, observers
<1>1. CASE LoadRecipe
  BY <1>1 DEF LoadRecipe, Finish, VerdictKept, EvidenceKept, BeforeB, BeforeVerdictB,
         StageB, AfterVerdictB
<1>2. CASE Preflight
  BY <1>2 DEF Preflight, Finish, Live, VerdictKept, EvidenceKept, BeforeB,
         BeforeVerdictB, StageB, AfterVerdictB
<1>3. CASE EmptyTree
  BY <1>3 DEF EmptyTree, StartDrill, Live, VerdictKept, EvidenceKept, BeforeB,
         BeforeVerdictB, StageB, AfterVerdictB
<1>4. CASE EmptyDrillEnds
  BY <1>4 DEF EmptyDrillEnds, DrillReturns, Contract!Finish, Contract!End,
         Contract!Verdicts, Contract!Checks, VerdictKept, EvidenceKept, BeforeB,
         BeforeVerdictB, StageB, AfterVerdictB
<1>5. CASE JudgeEmpty
  BY <1>5 DEF JudgeEmpty, EmptyVerdict, VerdictKept, EvidenceKept, BeforeB,
         BeforeVerdictB, StageB, AfterVerdictB
<1>6. CASE CleanTree
  BY <1>6 DEF CleanTree, VerdictKept, EvidenceKept, BeforeB, BeforeVerdictB, StageB,
         AfterVerdictB
<1>7. CASE AfterA
  BY <1>7 DEF AfterA, Finish, VerdictKept, EvidenceKept, BeforeB, BeforeVerdictB,
         StageB, AfterVerdictB
<1>8. CASE NewWorkspace
  BY <1>8 DEF NewWorkspace, FailStage, StageBFrame, VerdictKept, EvidenceKept, BeforeB,
         BeforeVerdictB, StageB, AfterVerdictB
<1>9. CASE PrepareStack
  BY <1>9 DEF PrepareStack, FailStage, StageBFrame, VerdictKept, EvidenceKept, BeforeB,
         BeforeVerdictB, StageB, AfterVerdictB
<1>10. CASE StartStack
  BY <1>10 DEF StartStack, FailStage, StageBFrame, Live, VerdictKept, EvidenceKept,
         BeforeB, BeforeVerdictB, StageB, AfterVerdictB
<1>11. CASE Seed
  BY <1>11 DEF Seed, FailStage, StageBFrame, Live, VerdictKept, EvidenceKept, BeforeB,
         BeforeVerdictB, StageB, AfterVerdictB
<1>12. CASE Export
  BY <1>12 DEF Export, FailStage, StageBFrame, Live, VerdictKept, EvidenceKept, BeforeB,
         BeforeVerdictB, StageB, AfterVerdictB
<1>13. CASE DestroyStack
  BY <1>13 DEF DestroyStack, FailStage, StartDrill, Live, VerdictKept, EvidenceKept,
         BeforeB, BeforeVerdictB, StageB, AfterVerdictB
<1>14. CASE RestoreDrillEnds
  BY <1>14 DEF RestoreDrillEnds, DrillReturns, Contract!Finish, Contract!End,
         Contract!Verdicts, Contract!Checks, VerdictKept, EvidenceKept, BeforeB,
         BeforeVerdictB, StageB, AfterVerdictB
<1>15. CASE JudgeRestore
  BY <1>15 DEF JudgeRestore, RestoreVerdict, VerdictKept, EvidenceKept, BeforeB,
         BeforeVerdictB, StageB, AfterVerdictB
<1>16. CASE TeardownB
  BY <1>16 DEF TeardownB, VerdictKept, EvidenceKept, BeforeB, BeforeVerdictB, StageB,
         AfterVerdictB
<1>17. CASE DownAgain
  BY <1>17 DEF DownAgain, StageBFrame, VerdictKept, EvidenceKept, BeforeB,
         BeforeVerdictB, StageB, AfterVerdictB
<1>18. CASE RemoveB
  BY <1>18 DEF RemoveB, StageBFrame, VerdictKept, EvidenceKept, BeforeB, BeforeVerdictB,
         StageB, AfterVerdictB
<1>19. CASE AfterB
  BY <1>19 DEF AfterB, Finish, VerdictKept, EvidenceKept, BeforeB, BeforeVerdictB,
         StageB, AfterVerdictB
<1>20. CASE Record
  BY <1>20 DEF Record, Worst, VerdictKept, EvidenceKept, BeforeB, BeforeVerdictB,
         StageB, AfterVerdictB
<1>21. CASE Documents
  BY <1>21 DEF Documents, VerdictKept, EvidenceKept, BeforeB, BeforeVerdictB, StageB,
         AfterVerdictB
<1>22. CASE DrillStep
  BY <1>22 DEF DrillStep, Contract!Acquire, Contract!Release, Contract!Announce,
         VerdictKept, EvidenceKept, BeforeB, BeforeVerdictB, StageB, AfterVerdictB
<1>23. CASE Deadline
  BY <1>23 DEF Deadline, EnvironmentFrame, Live, VerdictKept, EvidenceKept, BeforeB,
         BeforeVerdictB, StageB, AfterVerdictB
<1>24. CASE Interrupt
  BY <1>24 DEF Interrupt, EnvironmentFrame, VerdictKept, EvidenceKept, BeforeB,
         BeforeVerdictB, StageB, AfterVerdictB
<1>25. CASE UNCHANGED vars
  BY <1>25 DEF VerdictKept, EvidenceKept, BeforeB, BeforeVerdictB, StageB, AfterVerdictB
<1> QED
  BY <1>1, <1>2, <1>3, <1>4, <1>5, <1>6, <1>7, <1>8, <1>9, <1>10, <1>11, <1>12, <1>13,
         <1>14, <1>15, <1>16, <1>17, <1>18, <1>19, <1>20, <1>21, <1>22, <1>23, <1>24,
         <1>25
     DEF Next, Command, StageASteps, StageBSteps, Exited

-----------------------------------------------------------------------------
(* The stack.                                                              *)

\* StackHeld, step by step.
LEMMA StackHeldStep == ASSUME StackHeld, [Next]_vars PROVE StackHeld'
<1> USE DEF vars, invocation, drill, stages, command, project, observers
<1>1. CASE LoadRecipe
  BY <1>1 DEF LoadRecipe, Finish, StackHeld, Seeded, StageB, BeforeB, BeforeVerdictB,
         AfterVerdictB
<1>2. CASE Preflight
  BY <1>2 DEF Preflight, Finish, Live, StackHeld, Seeded, StageB, BeforeB,
         BeforeVerdictB, AfterVerdictB
<1>3. CASE EmptyTree
  BY <1>3 DEF EmptyTree, StartDrill, Live, StackHeld, Seeded, StageB, BeforeB,
         BeforeVerdictB, AfterVerdictB
<1>4. CASE EmptyDrillEnds
  BY <1>4 DEF EmptyDrillEnds, DrillReturns, Contract!Finish, Contract!End,
         Contract!Verdicts, Contract!Checks, StackHeld, Seeded, StageB, BeforeB,
         BeforeVerdictB, AfterVerdictB
<1>5. CASE JudgeEmpty
  BY <1>5 DEF JudgeEmpty, EmptyVerdict, StackHeld, Seeded, StageB, BeforeB,
         BeforeVerdictB, AfterVerdictB
<1>6. CASE CleanTree
  BY <1>6 DEF CleanTree, StackHeld, Seeded, StageB, BeforeB, BeforeVerdictB,
         AfterVerdictB
<1>7. CASE AfterA
  BY <1>7 DEF AfterA, Finish, StackHeld, Seeded, StageB, BeforeB, BeforeVerdictB,
         AfterVerdictB
<1>8. CASE NewWorkspace
  BY <1>8 DEF NewWorkspace, FailStage, StageBFrame, StackHeld, Seeded, StageB, BeforeB,
         BeforeVerdictB, AfterVerdictB
<1>9. CASE PrepareStack
  BY <1>9 DEF PrepareStack, FailStage, StageBFrame, StackHeld, Seeded, StageB, BeforeB,
         BeforeVerdictB, AfterVerdictB
<1>10. CASE StartStack
  BY <1>10 DEF StartStack, FailStage, StageBFrame, Live, StackHeld, Seeded, StageB,
         BeforeB, BeforeVerdictB, AfterVerdictB
<1>11. CASE Seed
  BY <1>11 DEF Seed, FailStage, StageBFrame, Live, StackHeld, Seeded, StageB, BeforeB,
         BeforeVerdictB, AfterVerdictB
<1>12. CASE Export
  BY <1>12 DEF Export, FailStage, StageBFrame, Live, StackHeld, Seeded, StageB, BeforeB,
         BeforeVerdictB, AfterVerdictB
<1>13. CASE DestroyStack
  BY <1>13 DEF DestroyStack, FailStage, StartDrill, Live, StackHeld, Seeded, StageB,
         BeforeB, BeforeVerdictB, AfterVerdictB
<1>14. CASE RestoreDrillEnds
  BY <1>14 DEF RestoreDrillEnds, DrillReturns, Contract!Finish, Contract!End,
         Contract!Verdicts, Contract!Checks, StackHeld, Seeded, StageB, BeforeB,
         BeforeVerdictB, AfterVerdictB
<1>15. CASE JudgeRestore
  BY <1>15 DEF JudgeRestore, RestoreVerdict, StackHeld, Seeded, StageB, BeforeB,
         BeforeVerdictB, AfterVerdictB
<1>16. CASE TeardownB
  BY <1>16 DEF TeardownB, StackHeld, Seeded, StageB, BeforeB, BeforeVerdictB,
         AfterVerdictB
<1>17. CASE DownAgain
  BY <1>17 DEF DownAgain, StageBFrame, StackHeld, Seeded, StageB, BeforeB,
         BeforeVerdictB, AfterVerdictB
<1>18. CASE RemoveB
  BY <1>18 DEF RemoveB, StageBFrame, StackHeld, Seeded, StageB, BeforeB, BeforeVerdictB,
         AfterVerdictB
<1>19. CASE AfterB
  BY <1>19 DEF AfterB, Finish, StackHeld, Seeded, StageB, BeforeB, BeforeVerdictB,
         AfterVerdictB
<1>20. CASE Record
  BY <1>20 DEF Record, Worst, StackHeld, Seeded, StageB, BeforeB, BeforeVerdictB,
         AfterVerdictB
<1>21. CASE Documents
  BY <1>21 DEF Documents, StackHeld, Seeded, StageB, BeforeB, BeforeVerdictB,
         AfterVerdictB
<1>22. CASE DrillStep
  BY <1>22 DEF DrillStep, Contract!Acquire, Contract!Release, Contract!Announce,
         StackHeld, Seeded, StageB, BeforeB, BeforeVerdictB, AfterVerdictB
<1>23. CASE Deadline
  BY <1>23 DEF Deadline, EnvironmentFrame, Live, StackHeld, Seeded, StageB, BeforeB,
         BeforeVerdictB, AfterVerdictB
<1>24. CASE Interrupt
  BY <1>24 DEF Interrupt, EnvironmentFrame, StackHeld, Seeded, StageB, BeforeB,
         BeforeVerdictB, AfterVerdictB
<1>25. CASE UNCHANGED vars
  BY <1>25 DEF StackHeld, Seeded, StageB, BeforeB, BeforeVerdictB, AfterVerdictB
<1> QED
  BY <1>1, <1>2, <1>3, <1>4, <1>5, <1>6, <1>7, <1>8, <1>9, <1>10, <1>11, <1>12, <1>13,
         <1>14, <1>15, <1>16, <1>17, <1>18, <1>19, <1>20, <1>21, <1>22, <1>23, <1>24,
         <1>25
     DEF Next, Command, StageASteps, StageBSteps, Exited

-----------------------------------------------------------------------------
(* The workspaces.                                                         *)

\* Stage A's drill holds a workspace that it announced, or it failed.
LEMMA LeftAccountedEmptyDrill ==
  ASSUME LeftAccounted, EmptyDrillEnds PROVE LeftAccounted'
<1>1. /\ left = {} /\ DrillReturns /\ pc' = "A judge"
      /\ left' = (IF holds THEN left \cup {"A"} ELSE left)
  BY DEF EmptyDrillEnds, LeftAccounted
<1>2. UNCHANGED <<holds, announced>> /\ (holds => announced \/ failed')
  BY <1>1, ContractEnds
<1>3. left' \subseteq {"A"} /\ (left' # {} => announced' \/ failed')
  BY <1>1, <1>2
<1> QED BY <1>1, <1>3 DEF LeftAccounted, BeforeVerdictB, AfterVerdictB

\* And so does stage B's.
LEMMA LeftAccountedRestoreDrill ==
  ASSUME LeftAccounted, RestoreDrillEnds PROVE LeftAccounted'
<1>1. left \subseteq {"A"} /\ Accounted
  BY DEF RestoreDrillEnds, LeftAccounted, BeforeVerdictB
<1>2. /\ DrillReturns /\ pc' = "B judge" /\ UNCHANGED <<opt, named, stB>>
      /\ left' = (IF holds THEN left \cup {"inner"} ELSE left)
  BY DEF RestoreDrillEnds, invocation, stages
<1>3. UNCHANGED <<holds, announced>> /\ (holds => announced \/ failed')
  BY <1>2, ContractEnds
<1>4. "A" \in left => opt.keep /\ "A" \in named
  BY <1>1 DEF Accounted
<1>5. left' \subseteq {"A", "inner"} /\ (opt'.keep \/ "A" \notin left')
  BY <1>1, <1>2, <1>4
<1>6. "A" \in left' => "A" \in named'
  BY <1>1, <1>2, <1>4
<1>7. "inner" \in left' => announced' \/ failed'
  BY <1>1, <1>2, <1>3
<1>8. InnerJudged'
  BY <1>5, <1>6, <1>7 DEF InnerJudged
<1> QED BY <1>2, <1>8 DEF LeftAccounted, BeforeVerdictB, AfterVerdictB

\* LeftAccounted, step by step.
LEMMA LeftAccountedStep ==
  ASSUME TypeOK, DrillEnded, EvidenceKept, VerdictKept, StackHeld, LeftAccounted,
         [Next]_vars
  PROVE  LeftAccounted'
<1> USE DEF vars, invocation, drill, stages, command, project, observers
<1>a. TypeFlags /\ TypeVerdicts
  BY TypeParts
<1>b. /\ pc \in {"B down again", "B remove"} => ~opt.keep
      /\ pc \in BeforeB \cup BeforeVerdictB => stB = "none"
      /\ announced => opt.keep
  BY DEF StackHeld, VerdictKept, DrillEnded
<1>1. CASE LoadRecipe
  BY <1>1, <1>b DEF LoadRecipe, Finish, LeftAccounted, Accounted, InnerJudged,
         BeforeVerdictB, AfterVerdictB
<1>2. CASE Preflight
  BY <1>2, <1>b DEF Preflight, Finish, Live, LeftAccounted, Accounted, InnerJudged,
         BeforeVerdictB, AfterVerdictB
<1>3. CASE EmptyTree
  BY <1>3, <1>b DEF EmptyTree, StartDrill, Live, LeftAccounted, Accounted, InnerJudged,
         BeforeVerdictB, AfterVerdictB
<1>4. CASE EmptyDrillEnds
  BY <1>4, LeftAccountedEmptyDrill
<1>5. CASE JudgeEmpty
  BY <1>5, <1>a, <1>b, EmptyVerdictAsksForEvidence
     DEF JudgeEmpty, LeftAccounted, Accounted, BeforeVerdictB, AfterVerdictB
<1>6. CASE CleanTree
  BY <1>6, <1>b DEF CleanTree, LeftAccounted, Accounted, InnerJudged, BeforeVerdictB,
         AfterVerdictB
<1>7. CASE AfterA
  BY <1>7, <1>b DEF AfterA, Finish, LeftAccounted, Accounted, InnerJudged,
         BeforeVerdictB, AfterVerdictB
<1>8. CASE NewWorkspace
  BY <1>8, <1>b DEF NewWorkspace, FailStage, StageBFrame, LeftAccounted, Accounted,
         InnerJudged, BeforeVerdictB, AfterVerdictB
<1>9. CASE PrepareStack
  BY <1>9, <1>b DEF PrepareStack, FailStage, StageBFrame, LeftAccounted, Accounted,
         InnerJudged, BeforeVerdictB, AfterVerdictB
<1>10. CASE StartStack
  BY <1>10, <1>b DEF StartStack, FailStage, StageBFrame, Live, LeftAccounted, Accounted,
         InnerJudged, BeforeVerdictB, AfterVerdictB
<1>11. CASE Seed
  BY <1>11, <1>b DEF Seed, FailStage, StageBFrame, Live, LeftAccounted, Accounted,
         InnerJudged, BeforeVerdictB, AfterVerdictB
<1>12. CASE Export
  BY <1>12, <1>b DEF Export, FailStage, StageBFrame, Live, LeftAccounted, Accounted,
         InnerJudged, BeforeVerdictB, AfterVerdictB
<1>13. CASE DestroyStack
  BY <1>13, <1>b DEF DestroyStack, FailStage, StartDrill, Live, LeftAccounted,
         Accounted, InnerJudged, BeforeVerdictB, AfterVerdictB
<1>14. CASE RestoreDrillEnds
  BY <1>14, LeftAccountedRestoreDrill
<1>15. CASE JudgeRestore
  BY <1>15, <1>b DEF JudgeRestore, RestoreVerdict, LeftAccounted, Accounted,
         InnerJudged, BeforeVerdictB, AfterVerdictB
<1>16. CASE TeardownB
  BY <1>16, <1>b DEF TeardownB, LeftAccounted, Accounted, InnerJudged, BeforeVerdictB,
         AfterVerdictB
<1>17. CASE DownAgain
  BY <1>17, <1>b DEF DownAgain, StageBFrame, LeftAccounted, Accounted, InnerJudged,
         BeforeVerdictB, AfterVerdictB
<1>18. CASE RemoveB
  BY <1>18, <1>b DEF RemoveB, StageBFrame, LeftAccounted, Accounted, InnerJudged,
         BeforeVerdictB, AfterVerdictB
<1>19. CASE AfterB
  BY <1>19, <1>b DEF AfterB, Finish, LeftAccounted, Accounted, InnerJudged,
         BeforeVerdictB, AfterVerdictB
<1>20. CASE Record
  BY <1>20, <1>b DEF Record, Worst, LeftAccounted, Accounted, InnerJudged,
         BeforeVerdictB, AfterVerdictB
<1>21. CASE Documents
  BY <1>21, <1>b DEF Documents, LeftAccounted, Accounted, InnerJudged, BeforeVerdictB,
         AfterVerdictB
<1>22. CASE DrillStep
  BY <1>22, <1>b DEF DrillStep, Contract!Acquire, Contract!Release, Contract!Announce,
         LeftAccounted, Accounted, InnerJudged, BeforeVerdictB, AfterVerdictB
<1>23. CASE Deadline
  BY <1>23, <1>b DEF Deadline, EnvironmentFrame, Live, LeftAccounted, Accounted,
         InnerJudged, BeforeVerdictB, AfterVerdictB
<1>24. CASE Interrupt
  BY <1>24, <1>b DEF Interrupt, EnvironmentFrame, LeftAccounted, Accounted, InnerJudged,
         BeforeVerdictB, AfterVerdictB
<1>25. CASE UNCHANGED vars
  BY <1>25 DEF LeftAccounted, Accounted, InnerJudged, BeforeVerdictB, AfterVerdictB
<1> QED
  BY <1>1, <1>2, <1>3, <1>4, <1>5, <1>6, <1>7, <1>8, <1>9, <1>10, <1>11, <1>12, <1>13,
         <1>14, <1>15, <1>16, <1>17, <1>18, <1>19, <1>20, <1>21, <1>22, <1>23, <1>24,
         <1>25
     DEF Next, Command, StageASteps, StageBSteps, Exited

-----------------------------------------------------------------------------
(* The exit code.                                                          *)

\* A step that records nothing and does not exit.
LEMMA WorstFoldedFrame ==
  ASSUME WorstFolded, UNCHANGED <<recipe, results, worst, exit>>,
         pc \notin {"documents", "left"}, pc' \notin {"documents", "left"},
         pc' = "record" => result' # "none"
  PROVE  WorstFolded'
<1>1. Recorded' = Recorded /\ exit = -1
  BY DEF Recorded, WorstFolded
<1> QED BY <1>1 DEF WorstFolded

\* Record adds one recipe to those that are in the report.
LEMMA WorstFoldedRecord == ASSUME TypeOK, WorstFolded, Record PROVE WorstFolded'
<1>1. /\ recipe \in 1..NRecipes /\ worst \in 0..2 /\ result \in {"pass", "fail", "error"}
      /\ results \in [1..NRecipes -> Statuses \cup {"untested"}]
  BY TypeParts DEF TypeResults, Statuses, WorstFolded, Record
<1>2. Recorded = 1..(recipe - 1) /\ exit = -1 /\ exit' = -1 /\ pc' # "record"
  BY DEF Recorded, WorstFolded, Record
<1>3. Recorded' = Recorded \cup {recipe}
  <2>1. CASE recipe < NRecipes /\ recipe' = recipe + 1 /\ pc' = "load"
    BY <1>1, <1>2, <2>1, ConstantsAssumption DEF Recorded
  <2>2. CASE recipe = NRecipes /\ pc' = "documents"
    BY <1>1, <1>2, <2>2, ConstantsAssumption DEF Recorded
  <2> QED BY <2>1, <2>2 DEF Record
<1>4. /\ results'[recipe] = result
      /\ \A r \in Recorded : results'[r] = results[r]
  BY <1>1, <1>2, ConstantsAssumption DEF Record
<1>5. /\ \A r \in Recorded : results[r] \in {"pass", "fail", "error"}
      /\ worst = 2 <=> \E r \in Recorded : results[r] = "error"
      /\ worst = 0 <=> \A r \in Recorded : results[r] = "pass"
  BY DEF WorstFolded
<1>6. worst' = Worst
  BY DEF Record
<1>7. \A r \in Recorded' : results'[r] \in {"pass", "fail", "error"}
  BY <1>1, <1>3, <1>4, <1>5
<1>8. worst' = 2 <=> worst = 2 \/ result = "error"
  BY <1>1, <1>6 DEF Worst
<1>9. worst' = 0 <=> worst = 0 /\ result = "pass"
  BY <1>1, <1>6 DEF Worst
<1>10. worst' = 2 <=> \E r \in Recorded' : results'[r] = "error"
  BY <1>3, <1>4, <1>5, <1>8
<1>11. worst' = 0 <=> \A r \in Recorded' : results'[r] = "pass"
  BY <1>3, <1>4, <1>5, <1>9
<1> QED BY <1>2, <1>7, <1>10, <1>11 DEF WorstFolded

\* WorstFolded, step by step.
LEMMA WorstFoldedStep == ASSUME TypeOK, WorstFolded, [Next]_vars PROVE WorstFolded'
<1> USE DEF vars, invocation, drill, stages, command, project, observers
<1>1. CASE LoadRecipe
  BY <1>1, WorstFoldedFrame DEF LoadRecipe, Finish
<1>2. CASE Preflight
  BY <1>2, WorstFoldedFrame DEF Preflight, Finish
<1>3. CASE EmptyTree
  BY <1>3, WorstFoldedFrame DEF EmptyTree, StartDrill
<1>4. CASE EmptyDrillEnds
  BY <1>4, WorstFoldedFrame DEF EmptyDrillEnds
<1>5. CASE JudgeEmpty
  BY <1>5, WorstFoldedFrame DEF JudgeEmpty
<1>6. CASE CleanTree
  BY <1>6, WorstFoldedFrame DEF CleanTree
<1>7. CASE AfterA
  BY <1>7, WorstFoldedFrame DEF AfterA, Finish
<1>8. CASE NewWorkspace
  BY <1>8, WorstFoldedFrame DEF NewWorkspace, FailStage, StageBFrame
<1>9. CASE PrepareStack
  BY <1>9, WorstFoldedFrame DEF PrepareStack, FailStage, StageBFrame
<1>10. CASE StartStack
  BY <1>10, WorstFoldedFrame DEF StartStack, FailStage, StageBFrame
<1>11. CASE Seed
  BY <1>11, WorstFoldedFrame DEF Seed, FailStage, StageBFrame
<1>12. CASE Export
  BY <1>12, WorstFoldedFrame DEF Export, FailStage, StageBFrame
<1>13. CASE DestroyStack
  BY <1>13, WorstFoldedFrame DEF DestroyStack, FailStage, StartDrill
<1>14. CASE RestoreDrillEnds
  BY <1>14, WorstFoldedFrame DEF RestoreDrillEnds
<1>15. CASE JudgeRestore
  BY <1>15, WorstFoldedFrame DEF JudgeRestore
<1>16. CASE TeardownB
  BY <1>16, WorstFoldedFrame DEF TeardownB
<1>17. CASE DownAgain
  BY <1>17, WorstFoldedFrame DEF DownAgain, StageBFrame
<1>18. CASE RemoveB
  BY <1>18, WorstFoldedFrame DEF RemoveB, StageBFrame
<1>19. CASE AfterB
  BY <1>19, WorstFoldedFrame DEF AfterB, Finish
<1>20. CASE Record
  BY <1>20, WorstFoldedRecord
<1>21. CASE Documents
  BY <1>21 DEF Documents, WorstFolded, Recorded
<1>22. CASE DrillStep
  BY <1>22 DEF DrillStep, Contract!Acquire, Contract!Release, Contract!Announce,
         WorstFolded, Recorded
<1>23. CASE Deadline
  BY <1>23 DEF Deadline, EnvironmentFrame, Live, WorstFolded, Recorded
<1>24. CASE Interrupt
  BY <1>24 DEF Interrupt, EnvironmentFrame, WorstFolded, Recorded
<1>25. CASE UNCHANGED vars
  BY <1>25 DEF WorstFolded, Recorded
<1> QED
  BY <1>1, <1>2, <1>3, <1>4, <1>5, <1>6, <1>7, <1>8, <1>9, <1>10, <1>11, <1>12, <1>13,
         <1>14, <1>15, <1>16, <1>17, <1>18, <1>19, <1>20, <1>21, <1>22, <1>23, <1>24,
         <1>25
     DEF Next, Command, StageASteps, StageBSteps, Exited

-----------------------------------------------------------------------------
(* The theorems.                                                           *)

\* The command starts in it.
LEMMA InvInit == Init => IInv
<1> SUFFICES ASSUME Init PROVE IInv
  OBVIOUS
<1>1. DrillEnded
  BY DEF Init, Contract!Init, DrillEnded
<1>2. EvidenceKept /\ VerdictKept
  BY DEF Init, EvidenceKept, VerdictKept, StageB, BeforeB, BeforeVerdictB, AfterVerdictB
<1>3. StackHeld
  BY DEF Init, StackHeld, StageB, BeforeB, BeforeVerdictB, AfterVerdictB
<1>4. LeftAccounted
  BY DEF Init, LeftAccounted, BeforeVerdictB, AfterVerdictB
<1>5. WorstFolded
  BY DEF Init, WorstFolded, Recorded
<1> QED BY <1>1, <1>2, <1>3, <1>4, <1>5, TypeInit DEF IInv

\* And every step keeps it.
LEMMA InvNext == IInv /\ [Next]_vars => IInv'
  BY TypeStep, DrillEndedStep, EvidenceKeptStep, VerdictKeptStep, StackHeldStep,
     LeftAccountedStep, WorstFoldedStep DEF IInv

\* So it holds for ever.
LEMMA InvariantHolds == Spec => []IInv
<1>1. Init => IInv
  BY InvInit
<1>2. IInv /\ [Next]_vars => IInv'
  BY InvNext
<1> QED BY <1>1, <1>2, PTL DEF Spec

\* The variables keep to their sets.
THEOREM TypeCorrect == Spec => []TypeOK
<1>1. IInv => TypeOK
  BY DEF IInv
<1> QED BY <1>1, InvariantHolds, PTL

\* With stage A, a recipe ends in no error only if its checks missed something
\* on empty inputs, or if none of them ran and one of them counts.  A drill of
\* empty inputs that ran out of time ran no check, too: that it says nothing of
\* the recipe does not keep stage A from passing.
THEOREM BlindRecipesAreRejected == Spec => []BlindRecipeIsRejected
<1>1. IInv => BlindRecipeIsRejected
  BY DEF IInv, EvidenceKept, Evidence, BlindRecipeIsRejected
<1> QED BY <1>1, InvariantHolds, PTL

\* A recipe that passes has passed every stage asked for: with stage B it has been
\* backed up, destroyed and restored, and the restored application passed its
\* checks.  With --stage b alone stage A has not run, and nothing is said of it.
THEOREM PassesAreRoundTrips == Spec => []PassIsARoundTrip
<1>1. IInv => PassIsARoundTrip
  BY DEF IInv, EvidenceKept, VerdictKept, DrillEnded, PassIsARoundTrip
<1> QED BY <1>1, InvariantHolds, PTL

\* The drill of stage B sees the throwaway repository, whole, and nothing else.
THEOREM DrillIsIsolated == Spec => []DrillSeesOnlyTheRepository
<1>1. IInv => DrillSeesOnlyTheRepository
  BY DEF IInv, StackHeld, Seeded, BeforeB, DrillSeesOnlyTheRepository
<1> QED BY <1>1, InvariantHolds, PTL

\* When a recipe's result is no error, no workspace of it is left without --keep,
\* and with it every one is named but the inner one of a stage B that passed.
\* Whatever the result, no stack is left but by --keep or a `docker compose down`
\* that failed.  Of the workspaces of a recipe that ends in an error nothing is
\* said.
THEOREM NothingIsLeftBehind == Spec => []NothingIsLeft
<1>1. IInv => StackIsTakenDown
  BY DEF IInv, StackHeld, StackIsTakenDown
<1>2. IInv => (pc = "record" /\ result # "error" => Accounted)
  BY DEF IInv, LeftAccounted
<1>3. IInv => NothingIsLeft
  BY <1>1, <1>2 DEF NothingIsLeft, Accounted
<1> QED BY <1>3, InvariantHolds, PTL

\* The exit code is the worst of all recipes, in whatever order they ran.
THEOREM ExitIsTheWorst == Spec => []ExitTellsTheWorst
<1>1. ASSUME IInv, exit \in {0, 1}
      PROVE  /\ \A r \in 1..NRecipes : results[r] \in {"pass", "fail"}
             /\ exit = 0 <=> \A r \in 1..NRecipes : results[r] = "pass"
  <2>1. pc = "left" /\ exit = worst
    BY <1>1 DEF IInv, WorstFolded
  <2>2. Recorded = 1..NRecipes
    BY <2>1 DEF Recorded
  <2> QED BY <1>1, <2>1, <2>2 DEF IInv, WorstFolded
<1>2. IInv => ExitTellsTheWorst
  BY <1>1 DEF ExitTellsTheWorst
<1> QED BY <1>2, InvariantHolds, PTL
=============================================================================
