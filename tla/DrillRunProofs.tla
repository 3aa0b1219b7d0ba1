--------------------------- MODULE DrillRunProofs ---------------------------
(***************************************************************************)
(* Theorems about DrillRun for every recipe: any services and needs, any   *)
(* sequence of inputs, any number of probes and checks.                    *)
(***************************************************************************)
EXTENDS DrillRun, TLAPS

-----------------------------------------------------------------------------
(* Facts about the operators of the model.                                 *)

\* The length of the input list is a number.
LEMMA LenNat == Len(InputKind) \in Nat
  BY ConstantsAssumption

\* A recipe has at least one check.
LEMMA ChecksNat == NChecks \in Nat /\ NChecks > 0
  BY ConstantsAssumption

\* Run starts from a well-formed report.
LEMMA FreshIsReport == FreshReport \in Reports
  BY DEF FreshReport, Reports, Verdicts, Texts, Stages

\* The verdicts the code computes are verdicts, and each has its exit code.
LEMMA VerdictFacts == /\ StageVerdict \in Verdicts
                      /\ ChecksVerdict \in Verdicts
                      /\ \A v \in Verdicts : ExitOf(v) \in 0..2
  BY DEF StageVerdict, ChecksVerdict, Verdicts, ExitOf

\* What compose starts are services of the recipe.
LEMMA StartedAreServices ==
  /\ StartedBy({}) = Services
  /\ StartedBy(LoadFirst) \subseteq Services
<1>1. \A i \in Dumps : LoadService[i] \in Services
  BY ConstantsAssumption DEF Dumps, Inputs
<1>2. \A s \in Services : Needs[s] \subseteq Services
  BY ConstantsAssumption
<1>3. \A s \in LoadFirst : Needs[s] \subseteq Services
  BY <1>1, <1>2 DEF LoadFirst
<1>. QED BY <1>3 DEF StartedBy

-----------------------------------------------------------------------------
(* Type correctness, one lemma per step that writes more than pc and err.  *)

\* A fresh drill is well typed.
LEMMA TypeInit == Init => TypeOK
<1>1. 1 \in 1..(Len(InputKind) + 1) BY LenNat
<1>. QED BY <1>1, FreshIsReport DEF Init, TypeOK, PCs, Errors

\* Prepare writes the workspace, the run id and the error.
LEMMA TypePrepare == ASSUME TypeOK, Prepare PROVE TypeOK'
<1>1. UNCHANGED <<opt, runCtx, downCtx, next, loaded, up, composeUp, kept, blame, downFailed>>
  BY DEF Prepare, data, teardownVars
<1>2. rep' \in Reports BY DEF Prepare, TypeOK, Reports
<1>3. pc' \in PCs /\ err' \in Errors /\ disk' \in {"absent", "partial", "present"}
  BY DEF Prepare, ToolError, TypeOK, PCs, Errors
<1>. QED BY <1>1, <1>2, <1>3 DEF TypeOK

\* Restore writes the failed stage and the error.
LEMMA TypeRestore == ASSUME TypeOK, Restore PROVE TypeOK'
<1>1. UNCHANGED <<opt, runCtx, downCtx, next, loaded, disk, up, composeUp, kept, blame, downFailed>>
  BY DEF Restore, data, host, teardownVars
<1>2. rep' \in Reports BY DEF Restore, TypeOK, Reports, Stages
<1>3. pc' \in PCs /\ err' \in Errors
  BY DEF Restore, ToolError, TypeOK, PCs, Errors
<1>. QED BY <1>1, <1>2, <1>3 DEF TypeOK

\* The first Up writes the containers and composeUp.
LEMMA TypeComposeUp == ASSUME TypeOK, ComposeUp PROVE TypeOK'
<1>1. UNCHANGED <<opt, runCtx, downCtx, next, loaded, disk, kept, blame, downFailed>>
  BY DEF ComposeUp, data, teardownVars
<1>2. rep' \in Reports BY DEF ComposeUp, TypeOK, Reports, Stages
<1>3. pc' \in PCs /\ err' \in Errors /\ composeUp' \in BOOLEAN
  BY DEF ComposeUp, ToolError, TypeOK, PCs, Errors
<1>4. up' \in SUBSET Services BY StartedAreServices DEF ComposeUp
<1>. QED BY <1>1, <1>2, <1>3, <1>4 DEF TypeOK

\* The load loop stays within the inputs.
LEMMA TypeLoad == ASSUME TypeOK, Load PROVE TypeOK'
<1>1. UNCHANGED <<opt, runCtx, downCtx, disk, up, composeUp, err, kept, downFailed>>
  BY DEF Load, host, teardownVars
<1>2. next' \in 1..(Len(InputKind) + 1) BY LenNat DEF Load, TypeOK, Inputs, data
<1>3. loaded' \in SUBSET Loadable BY DEF Load, TypeOK, data
<1>4. rep' \in Reports /\ pc' \in PCs /\ blame' \in SUBSET {"stage", "start", "budget"}
  BY DEF Load, StageFails, TypeOK, PCs, Reports, Stages
<1>. QED BY <1>1, <1>2, <1>3, <1>4 DEF TypeOK

\* The second Up adds services of the recipe, or fails.
LEMMA TypeStartRest == ASSUME TypeOK, StartRest PROVE TypeOK'
<1>1. UNCHANGED <<opt, runCtx, downCtx, next, loaded, disk, composeUp, err, kept, downFailed>>
  BY DEF StartRest, data, teardownVars
<1>2. up' \in SUBSET Services BY StartedAreServices DEF StartRest, TypeOK
<1>3. rep' \in Reports /\ pc' \in PCs /\ blame' \in SUBSET {"stage", "start", "budget"}
  BY DEF StartRest, StageFails, TypeOK, PCs, Reports, Stages
<1>. QED BY <1>1, <1>2, <1>3 DEF TypeOK

\* Ready writes only what a failed stage writes.
LEMMA TypeReady == ASSUME TypeOK, Ready PROVE TypeOK'
<1>1. UNCHANGED <<opt, runCtx, downCtx, next, loaded, disk, up, composeUp, err, kept, downFailed>>
  BY DEF Ready, data, host, teardownVars
<1>2. rep' \in Reports /\ pc' \in PCs /\ blame' \in SUBSET {"stage", "start", "budget"}
  BY DEF Ready, StageFails, TypeOK, PCs, Reports, Stages
<1>. QED BY <1>1, <1>2 DEF TypeOK

\* The closure fail writes a whole verdict into the report.
LEMMA TypeFail == ASSUME TypeOK, Fail PROVE TypeOK'
<1>. DEFINE v == StageVerdict
            e == ExitOf(StageVerdict)
            t == CASE runCtx = "live" -> "stage"
                   [] runCtx = "deadline" -> "budget"
                   [] runCtx = "cancelled" -> "cancel"
<1>1. v \in Verdicts /\ e \in 0..2 BY VerdictFacts
<1>2. t \in Texts BY DEF TypeOK, Texts
<1>3. rep' = [rep EXCEPT !.verdict = v, !.exit = e, !.text = t,
                         !.total = NChecks, !.skipped = NChecks]
  BY DEF Fail
<1>. HIDE DEF v, e, t
<1>4. rep' \in Reports BY <1>1, <1>2, <1>3, ChecksNat DEF TypeOK, Reports
<1>5. UNCHANGED <<opt, runCtx, downCtx, next, loaded, disk, up, composeUp, err, kept, blame, downFailed>>
  BY DEF Fail, data, host, teardownVars
<1>6. pc' \in PCs BY DEF Fail, PCs
<1>. QED BY <1>4, <1>5, <1>6 DEF TypeOK

\* A check moves the counters up by one.
LEMMA TypeCheck == ASSUME TypeOK, Check PROVE TypeOK'
<1>1. /\ rep \in Reports
      /\ rep.total + 1 \in Nat /\ rep.passed + 1 \in Nat /\ rep.missed + 1 \in Nat
  BY DEF TypeOK, Reports
<1>2. rep' \in Reports BY <1>1 DEF Check, Reports
<1>3. UNCHANGED <<opt, pc, runCtx, downCtx, next, loaded, disk, up, composeUp, err, kept, downFailed>>
  BY DEF Check, data, host, teardownVars
<1>4. blame' \in SUBSET {"stage", "start", "budget"} BY DEF Check, TypeOK
<1>. QED BY <1>2, <1>3, <1>4 DEF TypeOK

\* The end of the checks writes the verdict and its exit code.
LEMMA TypeReport == ASSUME TypeOK, Report PROVE TypeOK'
<1>. DEFINE v == ChecksVerdict
            e == ExitOf(ChecksVerdict)
<1>1. v \in Verdicts /\ e \in 0..2 BY VerdictFacts
<1>2. rep' = [rep EXCEPT !.verdict = v, !.exit = e] BY DEF Report
<1>. HIDE DEF v, e
<1>3. rep' \in Reports BY <1>1, <1>2 DEF TypeOK, Reports
<1>4. UNCHANGED <<opt, runCtx, downCtx, next, loaded, disk, up, composeUp, err, kept, blame, downFailed>>
  BY DEF Report, data, host, teardownVars
<1>5. pc' \in PCs BY DEF Report, PCs
<1>. QED BY <1>3, <1>4, <1>5 DEF TypeOK

\* The first deferred function keeps the workspace or starts its budget.
LEMMA TypeTeardown == ASSUME TypeOK, Teardown PROVE TypeOK'
<1>1. UNCHANGED <<opt, runCtx, next, loaded, disk, up, composeUp, err, blame, downFailed>>
  BY DEF Teardown, data, host, observers
<1>2. rep' \in Reports BY DEF Teardown, TypeOK, Reports
<1>3. pc' \in PCs /\ kept' \in BOOLEAN /\ downCtx' \in {"unset", "live", "over"}
  BY DEF Teardown, TypeOK, PCs, FirstTeardownStep, TeardownBudget
<1>. QED BY <1>1, <1>2, <1>3 DEF TypeOK

\* Remove, Scrub and RemoveAgain write the same variables.
LEMMA TypeRemoval == ASSUME TypeOK, Remove \/ Scrub \/ RemoveAgain PROVE TypeOK'
<1>1. UNCHANGED <<opt, runCtx, downCtx, next, loaded, up, composeUp, kept, blame, downFailed>>
  BY DEF Remove, Scrub, RemoveAgain, data, teardownVars
<1>2. rep' \in Reports
  BY DEF Remove, Scrub, RemoveAgain, Removed, RemoveGivesUp, TypeOK, Reports
<1>3. pc' \in PCs /\ err' \in Errors /\ disk' \in {"absent", "partial", "present"}
  BY DEF Remove, Scrub, RemoveAgain, Removed, RemoveGivesUp, TypeOK, PCs, Errors
<1>. QED BY <1>1, <1>2, <1>3 DEF TypeOK

\* The last deferred function may turn the verdict into an ERROR.
LEMMA TypeFinalise == ASSUME TypeOK, Finalise PROVE TypeOK'
<1>. DEFINE t == IF rep.text = "none" THEN err ELSE rep.text
<1>1. t \in Texts BY DEF TypeOK, Reports, Errors, Texts
<1>2. rep' = rep \/ rep' = [rep EXCEPT !.verdict = "ERROR", !.exit = 2, !.text = t]
  BY DEF Finalise
<1>3. "ERROR" \in Verdicts /\ 2 \in 0..2 BY DEF Verdicts
<1>. HIDE DEF t
<1>4. rep' \in Reports BY <1>1, <1>2, <1>3 DEF TypeOK, Reports
<1>5. UNCHANGED <<opt, runCtx, downCtx, next, loaded, disk, up, composeUp, err, kept, blame, downFailed>>
  BY DEF Finalise, data, host, teardownVars
<1>6. pc' \in PCs BY DEF Finalise, PCs
<1>. QED BY <1>4, <1>5, <1>6 DEF TypeOK

\* The steps that write pc, err or a context and nothing else.
LEMMA TypeSmallStep ==
  ASSUME TypeOK, Resolve \/ ReadRecipe \/ Render \/ Query \/ LoadEnds
                 \/ Environment \/ UNCHANGED vars
  PROVE  TypeOK'
<1>1. UNCHANGED <<opt, next, loaded, disk, up, composeUp, rep, kept, blame, downFailed>>
  BY DEF Resolve, ReadRecipe, Render, Query, LoadEnds, Environment, Deadline,
         Interrupt, DownDeadline, data, host, teardownVars, observers, vars
<1>2. pc' \in PCs /\ err' \in Errors
  BY DEF Resolve, ReadRecipe, Render, Query, LoadEnds, Environment, Deadline,
         Interrupt, DownDeadline, ToolError, vars, TypeOK, PCs, Errors
<1>3. /\ runCtx' \in {"live", "deadline", "cancelled"}
      /\ downCtx' \in {"unset", "live", "over"}
  BY DEF Resolve, ReadRecipe, Render, Query, LoadEnds, Environment, Deadline,
         Interrupt, DownDeadline, teardownVars, vars, TypeOK
<1>. QED BY <1>1, <1>2, <1>3 DEF TypeOK

\* Down leaves some of the containers, or none.
LEMMA TypeDown == ASSUME TypeOK, Down PROVE TypeOK'
<1>1. UNCHANGED <<opt, runCtx, downCtx, next, loaded, disk, composeUp, rep, err, kept, blame>>
  BY DEF Down, data
<1>2. pc' \in PCs /\ up' \in SUBSET Services /\ downFailed' \in BOOLEAN
  BY DEF Down, TypeOK, PCs
<1>. QED BY <1>1, <1>2 DEF TypeOK

\* No step leaves the sets of TypeOK.
LEMMA TypeStep == TypeOK /\ [Next]_vars => TypeOK'
  BY TypeSmallStep, TypePrepare, TypeRestore, TypeComposeUp, TypeLoad,
     TypeStartRest, TypeReady, TypeFail, TypeCheck, TypeReport, TypeTeardown,
     TypeDown, TypeRemoval, TypeFinalise
     DEF Next, Runner, BeforeVerdict, Deferred, Exited

\* Every variable keeps to its set, in every state of every run.
THEOREM TypeCorrect == Spec => []TypeOK
  BY TypeInit, TypeStep, PTL DEF Spec

-----------------------------------------------------------------------------
(* The inductive invariant.  What the safety properties say of a finished  *)
(* run is not inductive: each part below follows one of the run's concerns *)
(* - the workspace, the compose project, the loaded inputs, the verdict -  *)
(* through every stage.                                                    *)

\* The stages that have no workspace yet, and those that have one.
Early == {"resolve", "prepare"}
Working == PCs \ (Early \cup {"finalise", "done"})
Settled == {"finalise", "done"}

\* The stages before the verdict is computed, and those before the checks.
Unjudged == {"resolve", "prepare", "recipe", "restore", "render", "up", "query",
             "load", "rest", "ready", "fail", "checks"}
Unchecked == Unjudged \ {"fail", "checks"}

\* The workspace exists from Prepare to its removal, and the report and the
\* Kept that Run returns say what has become of it.
WorkspaceInv ==
  /\ pc \in Early => disk = "absent" /\ ~rep.id
  /\ pc \in Working => disk = "present" /\ rep.id
  /\ pc \notin Settled => ~rep.removed /\ ~kept
  /\ pc \in Settled /\ rep.id => disk # "partial" /\ (rep.removed <=> disk = "absent")
  /\ pc \in Settled /\ ~rep.id => err = "tool" /\ ~kept
  /\ kept => disk = "present"
  /\ pc \in Settled /\ disk # "absent" => kept \/ err # "none"

\* Teardown knows of every compose project that has a container.
ProjectInv ==
  /\ up # {} => composeUp
  /\ pc \in Early => ~composeUp
  /\ pc \in {"query", "load", "rest"} => composeUp
  /\ pc \in {"remove", "scrub", "remove again"} => up = {} \/ downFailed
  /\ pc \in Settled => up = {} \/ kept \/ downFailed

\* The load loop has loaded all it has passed; only what the dumps need runs
\* before they are in.
LoadInv ==
  /\ pc \in Unchecked \cup {"checks"} => loaded = Loadable \cap 1..(next - 1)
  /\ pc \in {"rest", "ready", "checks"} => Loadable \subseteq loaded
  /\ up \subseteq StartedBy(LoadFirst) \/ Dumps \subseteq loaded

\* What the report says, and what it may be blamed for, stage by stage.
VerdictInv ==
  /\ rep.exit = ExitOf(rep.verdict)
  /\ rep.total = rep.passed + rep.missed + rep.skipped
  /\ Live => "budget" \notin blame
  /\ pc \in Unjudged => rep.verdict = "ERROR" /\ rep.text = "none" /\ err = "none"
                        /\ rep.skipped = 0
  /\ pc \in Unchecked \cup {"fail"} => rep.total = 0
  /\ pc \in Unchecked => rep.failed = "none" /\ blame = {}
  /\ pc = "fail" => rep.failed \in {"load", "ready"}
  /\ pc = "checks" => rep.failed = "none" /\ (rep.missed = 0 => blame = {})
                      /\ rep.total <= NChecks
  /\ pc \notin Unjudged /\ rep.verdict = "ERROR" => rep.text # "none" \/ err # "none"
  /\ rep.verdict = "PASS" =>
       /\ rep.failed = "none" /\ blame = {} /\ loaded = Loadable
       /\ rep.passed = NChecks /\ rep.missed = 0 /\ rep.skipped = 0
  /\ rep.verdict = "UNUSABLE" =>
       \/ /\ rep.failed \in {"load", "ready"} /\ "budget" \notin blame
          /\ rep.skipped = NChecks /\ rep.total = NChecks /\ rep.text # "none"
       \/ /\ rep.failed = "none" /\ rep.missed > 0
          /\ rep.skipped = 0 /\ rep.total = NChecks
  /\ pc \notin Unjudged /\ rep.verdict = "ERROR" /\ err = "none"
       => rep.passed = 0 /\ rep.missed = 0
  /\ pc = "done" /\ err # "none" => rep.verdict = "ERROR" /\ rep.text # "none"

\* What --keep and --keep-on-fail ask for, once the verdict is final.
KeepWanted == opt.keep \/ (opt.keepOnFail /\ rep.verdict # "PASS")

\* Teardown goes on only when nothing asked to keep the workspace; the report
\* that it leaves still says why it was kept or why not.
KeepInv ==
  /\ pc \in {"down", "remove", "scrub", "remove again"} => ~KeepIt
  /\ pc = "finalise" /\ rep.id /\ kept => KeepIt
  /\ pc = "finalise" /\ rep.id /\ ~kept => ~KeepIt \/ err = "remove"
  /\ pc = "done" /\ rep.id /\ kept => KeepWanted
  /\ pc = "done" /\ rep.id /\ ~kept => ~KeepWanted \/ err = "remove"

IInv == TypeOK /\ WorkspaceInv /\ ProjectInv /\ LoadInv /\ VerdictInv /\ KeepInv

\* The clock and the operator touch the contexts only.
LEMMA EnvironmentFrame ==
  ASSUME Environment
  PROVE  /\ pc' = pc /\ next' = next /\ loaded' = loaded /\ disk' = disk /\ up' = up
         /\ rep' = rep /\ err' = err /\ blame' = blame
         /\ composeUp' <=> composeUp
         /\ kept' <=> kept
         /\ downFailed' <=> downFailed
<1>1. UNCHANGED <<pc, data, host, rep, err, kept, observers>>
  BY DEF Environment, Deadline, Interrupt, DownDeadline, teardownVars, observers
<1>. QED BY <1>1 DEF data, host, observers

\* The inductive invariant holds of a fresh drill.
LEMMA InvInit ==
  Init => WorkspaceInv /\ ProjectInv /\ LoadInv /\ VerdictInv /\ KeepInv
<1>1. Init => WorkspaceInv
  BY DEF Init, WorkspaceInv, Early, Working, Settled, FreshReport
<1>2. Init => ProjectInv BY DEF Init, ProjectInv, Settled, Early
<1>3. Init => LoadInv
  <2>1. Init => loaded = Loadable \cap 1..(next - 1) BY LenNat DEF Init
  <2>. QED BY <2>1 DEF Init, LoadInv
<1>4. Init => VerdictInv
  BY ChecksNat DEF Init, VerdictInv, FreshReport, ExitOf, Unchecked, Unjudged
<1>5. Init => KeepInv BY DEF Init, KeepInv
<1>. QED BY <1>1, <1>2, <1>3, <1>4, <1>5

\* Every step keeps disk, run id, Kept and error in agreement.
LEMMA WorkspaceStep == TypeOK /\ WorkspaceInv /\ [Next]_vars => WorkspaceInv'
<1>. SUFFICES ASSUME TypeOK, WorkspaceInv, [Next]_vars PROVE WorkspaceInv'
  OBVIOUS
<1>. USE DEF WorkspaceInv, Early, Working, Settled, PCs
<1>1. CASE Resolve BY <1>1 DEF Resolve, ToolError, host, teardownVars
<1>2. CASE Prepare BY <1>2 DEF Prepare, ToolError, teardownVars, TypeOK, Reports
<1>3. CASE ReadRecipe BY <1>3 DEF ReadRecipe, ToolError, host, teardownVars
<1>4. CASE Restore BY <1>4 DEF Restore, ToolError, host, teardownVars, TypeOK, Reports
<1>5. CASE Render BY <1>5 DEF Render, ToolError, host, teardownVars
<1>6. CASE ComposeUp BY <1>6 DEF ComposeUp, ToolError, teardownVars, TypeOK, Reports
<1>7. CASE Query BY <1>7 DEF Query, ToolError, host, teardownVars
<1>8. CASE Load BY <1>8 DEF Load, StageFails, host, teardownVars, TypeOK, Reports
<1>9. CASE LoadEnds BY <1>9 DEF LoadEnds, host, teardownVars
<1>10. CASE StartRest BY <1>10 DEF StartRest, StageFails, teardownVars, TypeOK, Reports
<1>11. CASE Ready BY <1>11 DEF Ready, StageFails, host, teardownVars, TypeOK, Reports
<1>12. CASE Fail BY <1>12 DEF Fail, host, teardownVars, TypeOK, Reports
<1>13. CASE Check BY <1>13 DEF Check, host, teardownVars, TypeOK, Reports
<1>14. CASE Report BY <1>14 DEF Report, host, teardownVars, TypeOK, Reports
<1>15. CASE Teardown
  BY <1>15 DEF Teardown, FirstTeardownStep, host, TypeOK, Reports
<1>16. CASE Down BY <1>16 DEF Down
<1>17. CASE Remove
  BY <1>17 DEF Remove, Removed, RemoveGivesUp, teardownVars, TypeOK, Reports, Errors
<1>18. CASE Scrub
  BY <1>18 DEF Scrub, RemoveGivesUp, teardownVars, TypeOK, Reports, Errors
<1>19. CASE RemoveAgain
  BY <1>19 DEF RemoveAgain, Removed, RemoveGivesUp, teardownVars, TypeOK, Reports, Errors
<1>20. CASE Finalise BY <1>20 DEF Finalise, host, teardownVars, TypeOK, Reports
<1>21. CASE Environment BY <1>21, EnvironmentFrame
<1>22. CASE UNCHANGED vars BY <1>22 DEF vars
<1>. QED
  BY <1>1, <1>2, <1>3, <1>4, <1>5, <1>6, <1>7, <1>8, <1>9, <1>10, <1>11, <1>12,
     <1>13, <1>14, <1>15, <1>16, <1>17, <1>18, <1>19, <1>20, <1>21, <1>22
     DEF Next, Runner, BeforeVerdict, Deferred, Exited

\* Every step keeps the teardown aware of the compose project.
LEMMA ProjectStep == TypeOK /\ ProjectInv /\ [Next]_vars => ProjectInv'
<1>. SUFFICES ASSUME TypeOK, ProjectInv, [Next]_vars PROVE ProjectInv'
  OBVIOUS
<1>. USE DEF ProjectInv, Settled, Early
<1>1. CASE Resolve BY <1>1 DEF Resolve, ToolError, host
<1>2. CASE Prepare BY <1>2 DEF Prepare, ToolError
<1>3. CASE ReadRecipe BY <1>3 DEF ReadRecipe, ToolError, host
<1>4. CASE Restore BY <1>4 DEF Restore, ToolError, host
<1>5. CASE Render BY <1>5 DEF Render, ToolError, host
<1>6. CASE ComposeUp BY <1>6 DEF ComposeUp, ToolError
<1>7. CASE Query BY <1>7 DEF Query, ToolError, host
<1>8. CASE Load BY <1>8 DEF Load, StageFails, host
<1>9. CASE LoadEnds BY <1>9 DEF LoadEnds, host
<1>10. CASE StartRest BY <1>10 DEF StartRest, StageFails
<1>11. CASE Ready BY <1>11 DEF Ready, StageFails, host
<1>12. CASE Fail BY <1>12 DEF Fail, host
<1>13. CASE Check BY <1>13 DEF Check, host
<1>14. CASE Report BY <1>14 DEF Report, host
<1>15. CASE Teardown BY <1>15 DEF Teardown, FirstTeardownStep, host
<1>16. CASE Down BY <1>16 DEF Down
<1>17. CASE Remove \/ Scrub \/ RemoveAgain
  BY <1>17 DEF Remove, Scrub, RemoveAgain, Removed, RemoveGivesUp, teardownVars
<1>18. CASE Finalise BY <1>18 DEF Finalise, host, teardownVars
<1>19. CASE Environment BY <1>19, EnvironmentFrame
<1>20. CASE UNCHANGED vars BY <1>20 DEF vars
<1>. QED
  BY <1>1, <1>2, <1>3, <1>4, <1>5, <1>6, <1>7, <1>8, <1>9, <1>10, <1>11, <1>12,
     <1>13, <1>14, <1>15, <1>16, <1>17, <1>18, <1>19, <1>20
     DEF Next, Runner, BeforeVerdict, Deferred, Exited

\* One turn of the load loop keeps the account of what is loaded.
LEMMA LoadLoop ==
  ASSUME TypeOK, LoadInv, Load, pc' = "load"
  PROVE  loaded' = Loadable \cap 1..(next' - 1)
<1>1. next \in Nat /\ next >= 1 /\ next' = next + 1
  BY LenNat DEF Load, StageFails, TypeOK, Inputs
<1>2. loaded' = loaded \cup ({next} \cap Loadable)
  BY DEF Load, StageFails
<1>3. loaded = Loadable \cap 1..(next - 1)
  BY DEF LoadInv, Load, Unchecked, Unjudged
<1>4. 1..(next' - 1) = 1..(next - 1) \cup {next}
  BY <1>1
<1>. QED BY <1>2, <1>3, <1>4

\* When the load loop is over, every input that can be loaded is.
LEMMA LoadEndsComplete ==
  ASSUME TypeOK, LoadInv, LoadEnds
  PROVE  Loadable \subseteq loaded
<1>1. next = Len(InputKind) + 1
  BY LenNat DEF TypeOK, LoadEnds, Inputs
<1>2. loaded = Loadable \cap 1..(next - 1)
  BY DEF LoadInv, LoadEnds, Unchecked, Unjudged
<1>3. Loadable \subseteq 1..Len(InputKind)
  BY DEF Loadable, Inputs
<1>. QED BY <1>1, <1>2, <1>3, LenNat

\* Every step keeps the loaded inputs and the running services in agreement.
LEMMA LoadStep == TypeOK /\ LoadInv /\ [Next]_vars => LoadInv'
<1>. SUFFICES ASSUME TypeOK, LoadInv, [Next]_vars PROVE LoadInv'
  OBVIOUS
<1>. USE DEF LoadInv, Unchecked, Unjudged
<1>1. CASE Resolve BY <1>1 DEF Resolve, ToolError, data, host
<1>2. CASE Prepare BY <1>2 DEF Prepare, ToolError, data
<1>3. CASE ReadRecipe BY <1>3 DEF ReadRecipe, ToolError, data, host
<1>4. CASE Restore BY <1>4 DEF Restore, ToolError, data, host
<1>5. CASE Render BY <1>5 DEF Render, ToolError, data, host
<1>6. CASE ComposeUp BY <1>6 DEF ComposeUp, ToolError, data
<1>7. CASE Query BY <1>7 DEF Query, ToolError, data, host
<1>8. CASE Load
  <2>1. up' = up /\ pc' \in {"load", "fail"} /\ loaded \subseteq loaded'
    BY <1>8 DEF Load, StageFails, host, data
  <2>2. pc' = "load" => loaded' = Loadable \cap 1..(next' - 1)
    BY <1>8, LoadLoop
  <2>. QED BY <2>1, <2>2
<1>9. CASE LoadEnds
  <2>1. UNCHANGED <<next, loaded, up>> /\ pc' \in {"rest", "ready"}
    BY <1>9 DEF LoadEnds, host, data
  <2>. QED BY <1>9, <2>1, LoadEndsComplete DEF LoadEnds
<1>10. CASE StartRest
  <2>1. Dumps \subseteq loaded'
    BY <1>10 DEF StartRest, data, Dumps, Loadable
  <2>. QED BY <1>10, <2>1 DEF StartRest, StageFails, data
<1>11. CASE Ready BY <1>11 DEF Ready, StageFails, data, host
<1>12. CASE Fail BY <1>12 DEF Fail, data, host
<1>13. CASE Check BY <1>13 DEF Check, data, host
<1>14. CASE Report BY <1>14 DEF Report, data, host
<1>15. CASE Teardown BY <1>15 DEF Teardown, FirstTeardownStep, data, host
<1>16. CASE Down BY <1>16 DEF Down, data
<1>17. CASE Remove \/ Scrub \/ RemoveAgain
  BY <1>17 DEF Remove, Scrub, RemoveAgain, Removed, RemoveGivesUp, data
<1>18. CASE Finalise BY <1>18 DEF Finalise, data, host
<1>19. CASE Environment BY <1>19, EnvironmentFrame
<1>20. CASE UNCHANGED vars BY <1>20 DEF vars
<1>. QED
  BY <1>1, <1>2, <1>3, <1>4, <1>5, <1>6, <1>7, <1>8, <1>9, <1>10, <1>11, <1>12,
     <1>13, <1>14, <1>15, <1>16, <1>17, <1>18, <1>19, <1>20
     DEF Next, Runner, BeforeVerdict, Deferred, Exited

\* Every step keeps the report and what it may be blamed for in agreement.
LEMMA VerdictStep == TypeOK /\ LoadInv /\ VerdictInv /\ [Next]_vars => VerdictInv'
<1>. SUFFICES ASSUME TypeOK, LoadInv, VerdictInv, [Next]_vars PROVE VerdictInv'
  OBVIOUS
<1>. USE DEF VerdictInv, Unchecked, Unjudged
<1>1. CASE Resolve BY <1>1 DEF Resolve, ToolError, Live, data
<1>2. CASE Prepare BY <1>2 DEF Prepare, ToolError, Live, data, TypeOK, Reports
<1>3. CASE ReadRecipe BY <1>3 DEF ReadRecipe, ToolError, Live, data
<1>4. CASE Restore BY <1>4 DEF Restore, ToolError, Live, data, TypeOK, Reports
<1>5. CASE Render BY <1>5 DEF Render, ToolError, Live, data
<1>6. CASE ComposeUp BY <1>6 DEF ComposeUp, ToolError, Live, data, TypeOK, Reports
<1>7. CASE Query BY <1>7 DEF Query, ToolError, Live, data
<1>8. CASE Load BY <1>8 DEF Load, StageFails, Live, data, TypeOK, Reports
<1>9. CASE LoadEnds BY <1>9 DEF LoadEnds, Live, data
<1>10. CASE StartRest BY <1>10 DEF StartRest, StageFails, Live, data, TypeOK, Reports
<1>11. CASE Ready
  <2>1. CASE rep' = rep /\ blame' = blame /\ pc' = "checks"
    BY <1>11, <2>1, ChecksNat DEF Ready, data, teardownVars, Live
  <2>2. CASE StageFails("ready", "stage")
    BY <1>11, <2>2 DEF Ready, StageFails, Live, data, TypeOK, Reports
  <2>. QED BY <1>11, <2>1, <2>2 DEF Ready
<1>12. CASE Fail
  <2>. DEFINE t == CASE runCtx = "live" -> "stage"
                     [] runCtx = "deadline" -> "budget"
                     [] runCtx = "cancelled" -> "cancel"
  <2>1. /\ UNCHANGED <<loaded, err, blame, runCtx>>
        /\ pc = "fail" /\ pc' = "teardown"
    BY <1>12 DEF Fail, data
  <2>2. t # "none" BY DEF TypeOK
  <2>3. /\ rep'.verdict = StageVerdict /\ rep'.exit = ExitOf(StageVerdict)
        /\ rep'.total = NChecks /\ rep'.skipped = NChecks /\ rep'.text = t
        /\ rep'.passed = rep.passed /\ rep'.missed = rep.missed
        /\ rep'.failed = rep.failed
    BY <1>12 DEF Fail, TypeOK, Reports
  <2>4. rep.passed = 0 /\ rep.missed = 0
    BY <2>1 DEF TypeOK, Reports
  <2>5. /\ StageVerdict \in {"UNUSABLE", "ERROR"}
        /\ StageVerdict = "UNUSABLE" => "budget" \notin blame
    BY DEF StageVerdict
  <2>. HIDE DEF t
  <2>. QED BY <2>1, <2>2, <2>3, <2>4, <2>5, ChecksNat DEF Live
<1>13. CASE Check
  <2>1. /\ UNCHANGED <<loaded, err, runCtx>>
        /\ pc = "checks" /\ pc' = "checks" /\ rep.total < NChecks
    BY <1>13 DEF Check, data
  <2>2. /\ rep'.verdict = rep.verdict /\ rep'.exit = rep.exit /\ rep'.text = rep.text
        /\ rep'.skipped = rep.skipped /\ rep'.failed = rep.failed
        /\ rep'.total = rep.total + 1
    BY <1>13 DEF Check, TypeOK, Reports
  <2>3. \/ /\ Live /\ blame' = blame
           /\ rep'.passed = rep.passed + 1 /\ rep'.missed = rep.missed
        \/ /\ blame' = blame \cup {IF Live THEN "stage" ELSE "budget"}
           /\ rep'.passed = rep.passed /\ rep'.missed = rep.missed + 1
    BY <1>13 DEF Check, TypeOK, Reports
  <2>4. /\ rep.total \in Nat /\ rep.passed \in Nat /\ rep.missed \in Nat
        /\ rep.skipped \in Nat
    BY DEF TypeOK, Reports
  <2>. QED BY <2>1, <2>2, <2>3, <2>4, ChecksNat DEF Live
<1>14. CASE Report
  <2>1. /\ UNCHANGED <<loaded, err, blame, runCtx>>
        /\ pc = "checks" /\ pc' = "teardown" /\ rep.total = NChecks
    BY <1>14, ChecksNat DEF Report, data, TypeOK, Reports
  <2>2. /\ rep'.verdict = ChecksVerdict /\ rep'.exit = ExitOf(ChecksVerdict)
        /\ rep'.total = rep.total /\ rep'.skipped = rep.skipped
        /\ rep'.passed = rep.passed /\ rep'.missed = rep.missed
        /\ rep'.failed = rep.failed
    BY <1>14 DEF Report, TypeOK, Reports
  <2>3. /\ ChecksVerdict \in {"PASS", "UNUSABLE"}
        /\ ChecksVerdict = "UNUSABLE" <=> rep.missed > 0
    BY DEF ChecksVerdict
  <2>4. loaded = Loadable
    BY <2>1 DEF LoadInv, TypeOK
  <2>5. /\ rep.total \in Nat /\ rep.passed \in Nat /\ rep.missed \in Nat
    BY DEF TypeOK, Reports
  <2>. QED BY <2>1, <2>2, <2>3, <2>4, <2>5, ChecksNat DEF Live
<1>15. CASE Teardown
  <2>1. /\ UNCHANGED <<loaded, err, blame, runCtx>>
        /\ pc = "teardown" /\ pc' \in {"finalise", "down", "remove"}
    BY <1>15 DEF Teardown, FirstTeardownStep, data, observers
  <2>2. /\ rep'.verdict = rep.verdict /\ rep'.exit = rep.exit /\ rep'.text = rep.text
        /\ rep'.total = rep.total /\ rep'.passed = rep.passed /\ rep'.missed = rep.missed
        /\ rep'.skipped = rep.skipped /\ rep'.failed = rep.failed
    BY <1>15 DEF Teardown, TypeOK, Reports
  <2>. QED BY <2>1, <2>2 DEF Live
<1>16. CASE Down BY <1>16 DEF Down, Live, data
<1>17. CASE Remove \/ Scrub \/ RemoveAgain
  BY <1>17 DEF Remove, Scrub, RemoveAgain, Removed, RemoveGivesUp, Live, data, TypeOK, Reports
<1>18. CASE Finalise
  <2>. DEFINE t == IF rep.text = "none" THEN err ELSE rep.text
  <2>1. /\ UNCHANGED <<loaded, err, blame, runCtx>>
        /\ pc = "finalise" /\ pc' = "done"
    BY <1>18 DEF Finalise, data
  <2>2. CASE err = "none" BY <1>18, <2>1, <2>2 DEF Finalise, Live
  <2>3. CASE err # "none"
    <3>1. t # "none" BY <2>3
    <3>2. /\ rep'.verdict = "ERROR" /\ rep'.exit = 2 /\ rep'.text = t
          /\ rep'.total = rep.total /\ rep'.skipped = rep.skipped
          /\ rep'.passed = rep.passed /\ rep'.missed = rep.missed
      BY <1>18, <2>3 DEF Finalise, TypeOK, Reports
    <3>. HIDE DEF t
    <3>. QED BY <2>1, <2>3, <3>1, <3>2 DEF Live, ExitOf
  <2>. QED BY <2>2, <2>3
<1>19. CASE Environment
  <2>1. Live' => Live
    BY <1>19 DEF Environment, Deadline, Interrupt, DownDeadline, Live
  <2>. QED BY <1>19, <2>1, EnvironmentFrame
<1>20. CASE UNCHANGED vars BY <1>20 DEF vars, Live
<1>. QED
  BY <1>1, <1>2, <1>3, <1>4, <1>5, <1>6, <1>7, <1>8, <1>9, <1>10, <1>11, <1>12,
     <1>13, <1>14, <1>15, <1>16, <1>17, <1>18, <1>19, <1>20
     DEF Next, Runner, BeforeVerdict, Deferred, Exited

\* Every step keeps the decision to keep in agreement with the options.
LEMMA KeepStep == TypeOK /\ WorkspaceInv /\ KeepInv /\ [Next]_vars => KeepInv'
<1>. SUFFICES ASSUME TypeOK, WorkspaceInv, KeepInv, [Next]_vars PROVE KeepInv'
  OBVIOUS
<1>. USE DEF KeepInv, KeepIt
<1>1. CASE pc' \notin {"down", "remove", "scrub", "remove again", "finalise", "done"}
  BY <1>1
<1>2. CASE Resolve \/ Prepare
  <2>1. pc' = "finalise" => ~rep'.id
    BY <1>2 DEF Resolve, Prepare, WorkspaceInv, Early
  <2>. QED BY <1>2, <2>1 DEF Resolve, Prepare, ToolError
<1>3. CASE Teardown
  <2>1. UNCHANGED <<opt, err>> BY <1>3 DEF Teardown
  <2>2. rep'.verdict = rep.verdict /\ rep'.id = rep.id
    BY <1>3 DEF Teardown, TypeOK, Reports
  <2>3. \/ KeepIt /\ kept' /\ pc' = "finalise"
        \/ ~KeepIt /\ pc' \in {"down", "remove"}
    BY <1>3 DEF Teardown, FirstTeardownStep
  <2>. QED BY <2>1, <2>2, <2>3
<1>4. CASE Down BY <1>4 DEF Down
<1>5. CASE Remove \/ Scrub \/ RemoveAgain
  <2>1. UNCHANGED <<opt, kept>> /\ ~kept
    BY <1>5 DEF Remove, Scrub, RemoveAgain, teardownVars, WorkspaceInv, Settled
  <2>2. rep'.verdict = rep.verdict /\ rep'.id = rep.id
    BY <1>5 DEF Remove, Scrub, RemoveAgain, Removed, RemoveGivesUp, TypeOK, Reports
  <2>3. /\ pc' \in {"scrub", "remove again", "finalise"}
        /\ err' = err \/ (pc' = "finalise" /\ err' = "remove")
    BY <1>5 DEF Remove, Scrub, RemoveAgain, Removed, RemoveGivesUp
  <2>4. ~KeepIt BY <1>5 DEF Remove, Scrub, RemoveAgain
  <2>. QED BY <2>1, <2>2, <2>3, <2>4
<1>6. CASE Finalise
  <2>1. UNCHANGED <<opt, err>> /\ (kept' <=> kept) /\ pc = "finalise" /\ pc' = "done"
    BY <1>6 DEF Finalise, teardownVars
  <2>2. /\ rep'.id = rep.id
        /\ rep'.verdict = IF err = "none" THEN rep.verdict ELSE "ERROR"
    BY <1>6 DEF Finalise, TypeOK, Reports
  <2>. QED BY <2>1, <2>2 DEF KeepWanted
<1>7. CASE Environment
  <2>1. opt' = opt BY <1>7 DEF Environment, Deadline, Interrupt, DownDeadline
  <2>. QED BY <1>7, <2>1, EnvironmentFrame DEF KeepWanted
<1>8. CASE UNCHANGED vars BY <1>8 DEF vars, KeepWanted
<1>. QED
  BY <1>1, <1>2, <1>3, <1>4, <1>5, <1>6, <1>7, <1>8
     DEF Next, Runner, BeforeVerdict, Deferred, Exited, ReadRecipe, Restore, Render,
         ComposeUp, Query, Load, LoadEnds, StartRest, Ready, Fail, Check, Report,
         ToolError, StageFails

\* The inductive invariant holds in every state of every run.
THEOREM Invariance == Spec => []IInv
<1>1. Init => IInv BY TypeInit, InvInit DEF IInv
<1>2. IInv /\ [Next]_vars => IInv'
  BY TypeStep, WorkspaceStep, ProjectStep, LoadStep, VerdictStep,
     KeepStep DEF IInv
<1>. QED BY <1>1, <1>2, PTL DEF Spec

-----------------------------------------------------------------------------
(* What it implies of every run, for every recipe.                         *)

\* A stage that was killed by --timeout or by an interrupt never ends in
\* RESTORE_UNUSABLE.
THEOREM AccusedInTime == Spec => []NeverAccusedOutOfTime
<1>1. IInv => NeverAccusedOutOfTime
  BY DEF IInv, VerdictInv, NeverAccusedOutOfTime, TypeOK, Reports
<1>. QED BY <1>1, Invariance, PTL

\* A PASS is never claimed for a drill that skipped or lost a part of it.
THEOREM PassIsProof == Spec => []PassMeansProved
<1>1. IInv => PassMeansProved
  BY DEF IInv, VerdictInv, PassMeansProved
<1>. QED BY <1>1, Invariance, PTL

\* While a dump is missing, only what its service needs is running.
THEOREM DumpComesFirst == Spec => []DumpBeforeApplication
<1>1. ASSUME LoadInv, up \subseteq Services PROVE DumpBeforeApplication
  <2>. SUFFICES ASSUME NEW s \in up,
                       \A i \in Dumps : s \notin Needs[LoadService[i]],
                       ~(Dumps \subseteq loaded)
                PROVE  FALSE
    BY DEF DumpBeforeApplication
  <2>1. s \in StartedBy(LoadFirst) BY <1>1 DEF LoadInv
  <2>2. LoadFirst # {} BY DEF LoadFirst
  <2>3. PICK t \in LoadFirst : s \in Needs[t] BY <2>1, <2>2 DEF StartedBy
  <2>. QED BY <2>3 DEF LoadFirst
<1>2. IInv => DumpBeforeApplication BY <1>1 DEF IInv, TypeOK
<1>. QED BY <1>2, Invariance, PTL

\* The report says of the workspace what is on the disk.
THEOREM RemovalReported == Spec => []RemovalIsReported
<1>1. IInv => RemovalIsReported
  BY DEF IInv, WorkspaceInv, Settled, RemovalIsReported
<1>. QED BY <1>1, Invariance, PTL

\* No container outlives its run unless the run kept it or docker refused.
THEOREM ProjectTakenDown == Spec => []ProjectIsTakenDown
<1>1. IInv => ProjectIsTakenDown
  BY DEF IInv, ProjectInv, Settled, ProjectIsTakenDown
<1>. QED BY <1>1, Invariance, PTL

\* Exit code, verdict, error and text of a finished run agree.
THEOREM ExitTold == Spec => []ExitTellsTheVerdict
<1>1. IInv => ExitTellsTheVerdict
  <2>. SUFFICES ASSUME IInv, pc = "done" PROVE ExitTellsTheVerdict
    BY DEF ExitTellsTheVerdict
  <2>1. /\ rep.exit = ExitOf(rep.verdict)
        /\ err # "none" => rep.verdict = "ERROR"
    BY DEF IInv, VerdictInv
  <2>2. rep.verdict = "ERROR" => rep.text # "none"
    BY DEF IInv, VerdictInv, Unjudged
  <2>3. rep.verdict = "UNUSABLE" => rep.text # "none" \/ rep.missed > 0
    BY DEF IInv, VerdictInv
  <2>4. rep.verdict \in Verdicts BY DEF IInv, TypeOK, Reports
  <2>. QED BY <2>1, <2>2, <2>3, <2>4 DEF ExitTellsTheVerdict, Verdicts
<1>. QED BY <1>1, Invariance, PTL

\* The summary adds up, and RESTORE_UNUSABLE has one explanation.
THEOREM VerdictExplained == Spec => []VerdictIsExplained
<1>1. IInv => VerdictIsExplained
  <2>. SUFFICES ASSUME IInv PROVE VerdictIsExplained
    OBVIOUS
  <2>1. /\ rep.total \in Nat /\ rep.passed \in Nat /\ rep.missed \in Nat
        /\ rep.skipped \in Nat /\ rep.verdict \in Verdicts
    BY DEF IInv, TypeOK, Reports
  <2>. QED BY <2>1, ChecksNat DEF IInv, VerdictInv, VerdictIsExplained, Verdicts
<1>. QED BY <1>1, Invariance, PTL

\* The workspace is not removed from under running containers before their
\* removal was tried.
THEOREM FilesGoLast == Spec => FilesGoAfterContainers
<1>. DEFINE Ordered == disk = "present" /\ disk' = "absent" => up = {} \/ downFailed
<1>1. IInv /\ [Next]_vars => [Ordered]_vars
  <2>. SUFFICES ASSUME IInv, [Next]_vars, disk = "present", disk' = "absent"
                PROVE  up = {} \/ downFailed
    OBVIOUS
  <2>1. Remove \/ Scrub \/ RemoveAgain
    <3>1. CASE Prepare BY <3>1 DEF Prepare, IInv, WorkspaceInv, Early
    <3>2. CASE Environment BY <3>2, EnvironmentFrame
    <3>3. CASE UNCHANGED vars BY <3>3 DEF vars
    <3>. QED
      BY <3>1, <3>2, <3>3
         DEF Next, Runner, BeforeVerdict, Deferred, Exited, Resolve, ReadRecipe,
             Restore, Render, ComposeUp, Query, Load, LoadEnds, StartRest, Ready,
             Fail, Check, Report, Teardown, Down, Finalise, host
  <2>2. pc \in {"remove", "scrub", "remove again"}
    BY <2>1 DEF Remove, Scrub, RemoveAgain
  <2>. QED BY <2>2 DEF IInv, ProjectInv
<1>2. Spec => [][Ordered]_vars
  <2>. HIDE DEF Ordered
  <2>. QED BY <1>1, Invariance, PTL DEF Spec
<1>. QED BY <1>2 DEF FilesGoAfterContainers

\* The flags are honoured: what is kept was asked for, and what was asked for
\* is kept unless the run failed by its own removal.
THEOREM KeepHonoured == Spec => []KeepIsHonoured
<1>1. IInv => KeepIsHonoured
  BY DEF IInv, KeepInv, KeepWanted, WorkspaceInv, KeepIsHonoured
<1>. QED BY <1>1, Invariance, PTL

\* Together: an operator who reads the report knows of the workspace.
THEOREM WorkspaceAccountedFor == Spec => []WorkspaceIsAccountedFor
  BY RemovalReported, KeepHonoured, PTL DEF WorkspaceIsAccountedFor

\* Together: the exit code, the verdict and the summary tell one story.
THEOREM VerdictAccountedFor == Spec => []VerdictIsAccountedFor
  BY ExitTold, VerdictExplained, PTL DEF VerdictIsAccountedFor

-----------------------------------------------------------------------------
(* Run implements the contract of a drill: the safety part, for every      *)
(* recipe.  That a drill ends is left to TLC.                              *)

\* A fresh drill is a fresh drill of the contract.
LEMMA ContractInit == Init => Contract!Init
  BY DEF Init, Contract!Init, ChecksSay

\* A step that leaves the outcome, the workspace and the Kept alone.
LEMMA ContractStutter ==
  ASSUME pc # "done", pc' # "done", disk' = disk, kept' = kept
  PROVE  UNCHANGED Contract!vars
<1>1. (IF pc' = "done" THEN rep'.verdict ELSE "pending")
        = (IF pc = "done" THEN rep.verdict ELSE "pending")
  OBVIOUS
<1>2. (disk' # "absent") = (disk # "absent") OBVIOUS
<1>3. (pc' = "done" /\ err' # "none") = (pc = "done" /\ err # "none") OBVIOUS
<1>4. ChecksSay' = ChecksSay BY DEF ChecksSay
<1>. QED BY <1>1, <1>2, <1>3, <1>4, Zenon DEF Contract!vars

\* The checks of a finished report agree with its verdict.
ChecksAgree ==
  pc = "done" =>
    /\ ChecksSay \in Contract!Checks
    /\ rep.verdict = "PASS" => ChecksSay = "passed"
    /\ rep.verdict = "UNUSABLE" => ChecksSay \in {"none", "missed"}
    /\ rep.verdict = "ERROR" /\ err = "none" => ChecksSay = "none"

\* They do whenever the invariant holds.
LEMMA ChecksAgreeHolds == IInv => ChecksAgree
<1>. SUFFICES ASSUME TypeOK, VerdictInv, pc = "done" PROVE ChecksAgree
  BY DEF IInv, ChecksAgree
<1>1. rep.passed \in Nat /\ rep.missed \in Nat /\ rep.skipped \in Nat
  BY DEF TypeOK, Reports
<1>2. rep.verdict = "PASS" => rep.passed > 0 /\ rep.missed = 0
  BY ChecksNat DEF VerdictInv
<1>3. rep.verdict = "UNUSABLE" => rep.missed > 0 \/ rep.passed + rep.missed = 0
  BY <1>1, ChecksNat DEF VerdictInv
<1>4. rep.verdict = "ERROR" /\ err = "none" => rep.passed + rep.missed = 0
  BY DEF VerdictInv, Unjudged
<1>. QED BY <1>1, <1>2, <1>3, <1>4 DEF ChecksAgree, ChecksSay, Contract!Checks

\* Only Prepare makes the workspace, only the removals remove it, only
\* Teardown decides to keep it, and only Finalise ends the run.
LEMMA ContractStep ==
  IInv /\ ChecksAgree' /\ [Next]_vars => [Contract!Next]_(Contract!vars)
<1>. SUFFICES ASSUME IInv, ChecksAgree', [Next]_vars
     PROVE Contract!Next \/ UNCHANGED Contract!vars
  OBVIOUS
<1>1. CASE Prepare
  <2>1. pc # "done" /\ pc' # "done" /\ kept' = kept
    BY <1>1 DEF Prepare, ToolError, teardownVars
  <2>2. disk = "absent" BY <1>1 DEF Prepare, IInv, WorkspaceInv, Early
  <2>3. CASE disk' = disk BY <2>1, <2>3, ContractStutter
  <2>4. CASE disk' # "absent"
    <3>1. ChecksSay' = ChecksSay BY <2>1 DEF ChecksSay
    <3>. QED BY <2>1, <2>2, <2>4, <3>1 DEF Contract!Next, Contract!Acquire
  <2>. QED BY <2>2, <2>3, <2>4
<1>2. CASE Teardown
  <2>1. pc # "done" /\ pc' # "done" /\ disk' = disk
    BY <1>2 DEF Teardown, FirstTeardownStep, host
  <2>2. disk = "present" /\ ~kept
    BY <1>2 DEF Teardown, IInv, WorkspaceInv, Working, Early, Settled, PCs
  <2>3. CASE kept' = kept BY <2>1, <2>3, ContractStutter
  <2>4. CASE kept' = TRUE
    <3>1. ChecksSay' = ChecksSay BY <2>1 DEF ChecksSay
    <3>. QED BY <2>1, <2>2, <2>4, <3>1 DEF Contract!Next, Contract!Announce
  <2>. QED BY <1>2, <2>3, <2>4 DEF Teardown
<1>3. CASE Remove \/ Scrub \/ RemoveAgain
  <2>1. pc \in {"remove", "scrub", "remove again"} /\ pc' # "done" /\ kept' = kept
    BY <1>3 DEF Remove, Scrub, RemoveAgain, Removed, RemoveGivesUp, teardownVars
  <2>2. disk = "present" /\ ~kept
    BY <2>1 DEF IInv, WorkspaceInv, Working, Early, Settled, PCs
  <2>3. CASE disk' = disk BY <2>1, <2>3, ContractStutter
  <2>4. CASE disk' = "absent"
    <3>1. ChecksSay' = ChecksSay BY <2>1 DEF ChecksSay
    <3>. QED BY <2>1, <2>2, <2>4, <3>1 DEF Contract!Next, Contract!Release
  <2>. QED
    BY <1>3, <2>3, <2>4 DEF Remove, Scrub, RemoveAgain, Removed, RemoveGivesUp
<1>4. CASE Finalise
  <2>1. pc = "finalise" /\ pc' = "done" /\ disk' = disk /\ kept' = kept
    BY <1>4 DEF Finalise, host, teardownVars
  <2>2. rep'.verdict \in Verdicts
    BY <1>4, TypeFinalise DEF IInv, TypeOK, Reports
  <2>3. /\ err' = err
        /\ err # "none" => rep'.verdict = "ERROR"
        /\ disk # "absent" => kept \/ err # "none"
    BY <1>4 DEF Finalise, IInv, WorkspaceInv, Settled, TypeOK, Reports
  <2>. DEFINE e == err # "none"
  <2>4. /\ ChecksSay' \in Contract!Checks
        /\ rep'.verdict = "PASS" => ChecksSay' = "passed"
        /\ rep'.verdict = "UNUSABLE" => ChecksSay' \in {"none", "missed"}
        /\ rep'.verdict = "ERROR" /\ err' = "none" => ChecksSay' = "none"
    BY <2>1 DEF ChecksAgree
  <2>5. Contract!End(rep'.verdict, e, ChecksSay')
    BY <2>1, <2>2, <2>3, <2>4 DEF Contract!End, Verdicts
  <2>6. e \in BOOLEAN OBVIOUS
  <2>. HIDE DEF e
  <2>. QED BY <2>2, <2>4, <2>5, <2>6 DEF Contract!Next, Contract!Finish, Contract!Verdicts, Verdicts
<1>5. CASE Environment \/ UNCHANGED vars
  <2>1. UNCHANGED <<pc, rep, disk, err, kept>>
    BY <1>5 DEF Environment, Deadline, Interrupt, DownDeadline, host, teardownVars, vars
  <2>2. /\ (disk' # "absent") = (disk # "absent")
        /\ (pc' = "done" /\ err' # "none") = (pc = "done" /\ err # "none")
    BY <2>1
  <2>3. ChecksSay' = ChecksSay BY <2>1 DEF ChecksSay
  <2>. QED BY <2>1, <2>2, <2>3, Zenon DEF Contract!vars
<1>6. CASE Down
  BY <1>6, ContractStutter DEF Down
<1>7. CASE BeforeVerdict /\ ~Prepare
  <2>1. pc # "done" /\ pc' # "done" /\ disk' = disk
    BY <1>7 DEF BeforeVerdict, Resolve, ReadRecipe, Restore, Render, ComposeUp,
                Query, Load, LoadEnds, StartRest, Ready, Fail, Check, Report,
                ToolError, StageFails, host
  <2>2. kept' = kept
    BY <1>7 DEF BeforeVerdict, Resolve, ReadRecipe, Restore, Render, ComposeUp,
                Query, Load, LoadEnds, StartRest, Ready, Fail, Check, Report,
                teardownVars
  <2>. QED BY <2>1, <2>2, ContractStutter
<1>. QED
  BY <1>1, <1>2, <1>3, <1>4, <1>5, <1>6, <1>7
     DEF Next, Runner, Deferred, Exited

\* Every run of the drill is a behaviour of the contract.
THEOREM ImplementsContractSafety == Spec => Contract!Spec
<1>. QED BY ContractInit, ContractStep, ChecksAgreeHolds, Invariance, PTL DEF Spec, Contract!Spec
=============================================================================
