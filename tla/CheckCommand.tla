---------------------------- MODULE CheckCommand ----------------------------
(***************************************************************************)
(* `drillback check`: the invocation is resolved into targets, each target *)
(* is drilled in turn (one of them with --recipe and --target, all of them *)
(* with --all), what the drills left is told, the documents are written,   *)
(* and the process leaves with an exit code.  Next to it the interrupt     *)
(* goroutine waits for two signals.                                        *)
(*                                                                         *)
(* A drill takes the steps that DrillContract allows, and no other.        *)
(***************************************************************************)
EXTENDS Integers, FiniteSets

CONSTANTS
  NTargets,    \* targets in drillback.yaml
  MaxSignals   \* bound: signals the operator sends

ASSUME ConstantsAssumption == NTargets \in Nat \ {0} /\ MaxSignals \in Nat

VARIABLES
  flags,      \* --all, --json and --report
  pc,         \* the next step of the command
  job,        \* the target being drilled, 0 before the first
  multi,      \* report.Multi: targets added, targets skipped, exit code
  doc,        \* the exit code in the documents written, -1 before
  exit,       \* the exit code of the process, -1 while it runs
  outcome, failed, checks, holds, announced,  \* the current drill (DrillContract)
  id,         \* the current drill's report carries its run id
  dead,       \* the current drill was started under a cancelled context
  cancelled,  \* the root context
  pending,    \* signals in the channel of interruptContext
  handler,    \* where its goroutine is
  sent,       \* signals the operator sent so far
  verdicts,   \* observer: how each target ended
  left,       \* observer: targets whose drill left something on disk
  told,       \* observer: targets whose Kept was printed
  cutShort,   \* observer: the context was cancelled with a target still to start
  ioFailed    \* observer: a document could not be written

drill == <<outcome, failed, checks, holds, announced>>
signals == <<cancelled, pending, handler, sent, cutShort>>
observers == <<verdicts, left, told, ioFailed>>
vars == <<flags, pc, job, multi, doc, exit, drill, id, dead, signals, observers>>

Contract == INSTANCE DrillContract

Jobs == IF flags.all THEN NTargets ELSE 1
Running == exit = -1

Init ==
  /\ flags \in [all : BOOLEAN, json : BOOLEAN, report : BOOLEAN]
  /\ pc = "resolve" /\ job = 0 /\ exit = -1 /\ doc = -1
  /\ multi = [total |-> 0, skipped |-> 0, code |-> 0]
  /\ Contract!Init /\ id = FALSE /\ dead = FALSE
  /\ cancelled = FALSE /\ pending = 0 /\ handler = "first" /\ sent = 0
  /\ verdicts = [j \in 1..NTargets |-> "unrun"]
  /\ left = {} /\ told = {} /\ cutShort = FALSE /\ ioFailed = FALSE

-----------------------------------------------------------------------------
(* The command.                                                            *)

At(step) == Running /\ pc = step

Leave(code) == exit' = code /\ pc' = "left"

\* A document cannot be written: the command leaves on the spot.
WriteFails == Leave(2) /\ ioFailed' = TRUE

\* The flags, drillback.yaml and every recipe are read before the first run.
ResolveJobs ==
  /\ At("resolve")
  /\ \/ pc' = (IF flags.all THEN "next" ELSE "begin") /\ UNCHANGED exit
     \/ Leave(2)
  /\ UNCHANGED <<flags, job, multi, doc, drill, id, dead, signals, observers>>

\* Mutant of NextTarget: one target too many.
NextTarget_OneMore ==
  /\ At("next")
  /\ pc' = IF job <= Jobs /\ ~cancelled THEN "begin" ELSE "summary"
  /\ UNCHANGED <<flags, job, multi, doc, exit, drill, id, dead, signals, observers>>

\* Mutant of NextTarget: the loop does not look at the context.
NextTarget_Deaf ==
  /\ At("next")
  /\ pc' = IF job < Jobs THEN "begin" ELSE "summary"
  /\ UNCHANGED <<flags, job, multi, doc, exit, drill, id, dead, signals, observers>>

\* The head of the sweep's loop: an interrupt ends it.
NextTarget ==
  /\ At("next")
  /\ pc' = IF job < Jobs /\ ~cancelled THEN "begin" ELSE "summary"
  /\ UNCHANGED <<flags, job, multi, doc, exit, drill, id, dead, signals, observers>>

\* runner.Run is called.  It runs under the context it is given: when that is
\* over already, its preflight fails.
BeginRun ==
  /\ At("begin")
  /\ pc' = "drill"
  /\ job' = job + 1
  /\ dead' = cancelled /\ id' = FALSE
  /\ outcome' = "pending" /\ failed' = FALSE /\ checks' = "none"
  /\ holds' = FALSE /\ announced' = FALSE
  /\ UNCHANGED <<flags, multi, doc, exit, signals, observers>>

DrillAcquires == ~dead /\ Contract!Acquire /\ id' \in BOOLEAN

DrillMoves == (Contract!Release \/ Contract!Announce) /\ UNCHANGED id

\* A drill is at work in its workspace.
DrillStep ==
  /\ At("drill")
  /\ DrillAcquires \/ DrillMoves
  /\ UNCHANGED <<flags, pc, job, multi, doc, exit, dead, signals, observers>>

\* runner.Run returns.  It has no run id only when it failed before Prepare
\* was through.
DrillEnds ==
  /\ At("drill")
  /\ Contract!Finish
  /\ id \/ failed'
  /\ pc' = "tty"
  /\ verdicts' = [verdicts EXCEPT ![job] = outcome']
  /\ left' = IF holds THEN left \cup {job} ELSE left
  /\ UNCHANGED <<flags, job, multi, doc, exit, id, dead, signals, told, ioFailed>>

\* The report on the terminal, when the run got as far as having an id.
WriteTTY ==
  /\ At("tty")
  /\ \/ pc' = (IF flags.all THEN "add" ELSE "json") /\ UNCHANGED <<exit, ioFailed>>
     \/ id /\ WriteFails
  /\ UNCHANGED <<flags, job, multi, doc, drill, id, dead, signals, verdicts, left, told>>

ExitOf(v) == CASE v = "PASS" -> 0 [] v = "UNUSABLE" -> 1 [] OTHER -> 2

Worse(a, b) == IF a < b THEN b ELSE a

Tell == told' = IF announced THEN told \cup {job} ELSE told

\* Mutant of AddTarget: the last target decides.
AddTarget_LastWins ==
  /\ At("add")
  /\ pc' = "next"
  /\ Tell
  /\ multi' = [multi EXCEPT !.total = @ + 1, !.code = ExitOf(outcome)]
  /\ UNCHANGED <<flags, job, doc, exit, drill, id, dead, signals, verdicts, left, ioFailed>>

\* printKept and multi.Add.
AddTarget ==
  /\ At("add")
  /\ pc' = "next"
  /\ Tell
  /\ multi' = [multi EXCEPT !.total = @ + 1, !.code = Worse(@, ExitOf(outcome))]
  /\ UNCHANGED <<flags, job, doc, exit, drill, id, dead, signals, verdicts, left, ioFailed>>

\* Mutant of SkipRemaining: what was skipped does not count.
SkipRemaining_Quietly(n) == multi' = [multi EXCEPT !.skipped = n]

\* Mutant of SkipRemaining: the targets that never ran are forgotten.
SkipRemaining_Forgotten(n) ==
  multi' = IF n = 0 THEN multi ELSE [multi EXCEPT !.code = 2]

\* Targets that never ran are unproven.
SkipRemaining(n) ==
  multi' = IF n = 0 THEN multi ELSE [multi EXCEPT !.skipped = n, !.code = 2]

\* The closing block of the sweep.
Summarise ==
  /\ At("summary")
  /\ SkipRemaining(Jobs - multi.total)
  /\ \/ pc' = "json" /\ UNCHANGED <<exit, ioFailed>>
     \/ WriteFails
  /\ UNCHANGED <<flags, job, doc, drill, id, dead, signals, verdicts, left, told>>

\* The exit code that the document carries.
DocumentCode == IF flags.all THEN multi.code ELSE ExitOf(outcome)

\* The JSON document, to stdout (--json) and then to a file (--report).
WriteDocument(wanted, step, then) ==
  /\ At(step)
  /\ \/ ~wanted /\ pc' = then /\ UNCHANGED <<doc, exit, ioFailed>>
     \/ wanted /\ pc' = then /\ doc' = DocumentCode /\ UNCHANGED <<exit, ioFailed>>
     \/ wanted /\ WriteFails /\ UNCHANGED doc
  /\ UNCHANGED <<flags, job, multi, drill, id, dead, signals, verdicts, left, told>>

WriteJSON == WriteDocument(flags.json, "json", "file")

WriteReportFile ==
  WriteDocument(flags.report, "file", IF flags.all THEN "verdict" ELSE "kept")

\* Only --all gets here by way of AddTarget: a single run tells what it kept
\* after its documents.
PrintKept ==
  /\ At("kept")
  /\ pc' = "verdict"
  /\ Tell
  /\ UNCHANGED <<flags, job, multi, doc, exit, drill, id, dead, signals, verdicts, left, ioFailed>>

\* Mutant of SingleCode: the verdict is looked at before the error.
SingleCode_VerdictFirst ==
  IF outcome # "PASS" THEN 1 ELSE IF failed THEN 2 ELSE 0

\* The end of runSingle: an error is 2, any verdict but PASS is 1.
SingleCode == IF failed THEN 2 ELSE IF outcome # "PASS" THEN 1 ELSE 0

Finish ==
  /\ At("verdict")
  /\ Leave(IF flags.all THEN multi.code ELSE SingleCode)
  /\ UNCHANGED <<flags, job, multi, doc, drill, id, dead, signals, observers>>

-----------------------------------------------------------------------------
(* The operator and the interrupt goroutine.                               *)

\* Mutant of ChannelSize: make(chan os.Signal, 1).
ChannelSize_One == 1

\* make(chan os.Signal, 2)
ChannelSize == 2

SignalFrame == UNCHANGED <<flags, job, multi, doc, drill, id, dead, observers>>

\* SIGINT or SIGTERM.  signal.Notify drops what the channel has no room for.
Signal ==
  /\ Running /\ sent < MaxSignals
  /\ sent' = sent + 1
  /\ pending' = IF pending < ChannelSize THEN pending + 1 ELSE pending
  /\ UNCHANGED <<pc, exit, cancelled, handler, cutShort>> /\ SignalFrame

Receive(from, to) ==
  /\ Running /\ handler = from /\ pending > 0
  /\ pending' = pending - 1 /\ handler' = to

FirstSignal ==
  /\ Receive("first", "cancel")
  /\ UNCHANGED <<pc, exit, cancelled, sent, cutShort>> /\ SignalFrame

CancelRun ==
  /\ Running /\ handler = "cancel"
  /\ cancelled' = TRUE /\ handler' = "second"
  /\ cutShort' = (job < Jobs)
  /\ UNCHANGED <<pc, exit, pending, sent>> /\ SignalFrame

SecondSignal ==
  /\ Receive("second", "gone")
  /\ Leave(130)
  /\ UNCHANGED <<cancelled, sent, cutShort>> /\ SignalFrame

-----------------------------------------------------------------------------
Command == ResolveJobs \/ NextTarget \/ BeginRun \/ WriteTTY \/ AddTarget \/ Summarise
           \/ WriteJSON \/ WriteReportFile \/ PrintKept \/ Finish

Drill == DrillStep \/ DrillEnds

Interrupts == FirstSignal \/ CancelRun \/ SecondSignal

\* The process has exited.
Exited == ~Running /\ UNCHANGED vars

Next == Command \/ Drill \/ Interrupts \/ Signal \/ Exited

Spec == Init /\ [][Next]_vars

\* Go schedules both goroutines.  A drill may hang: docker does not answer, or
\* an orphan keeps a pipe open.
FairSpec == Spec /\ WF_vars(Command) /\ WF_vars(Interrupts)

-----------------------------------------------------------------------------
(* What must hold.                                                         *)

Steps == {"resolve", "next", "begin", "drill", "tty", "add", "summary", "json",
          "file", "kept", "verdict", "left"}

Targets == 1..NTargets

\* The variables keep to their sets.
TypeOK ==
  /\ flags \in [all : BOOLEAN, json : BOOLEAN, report : BOOLEAN]
  /\ pc \in Steps /\ job \in 0..Jobs
  /\ multi \in [total : 0..Jobs, skipped : 0..Jobs, code : 0..2]
  /\ doc \in -1..2 /\ exit \in {-1, 0, 1, 2, 130}
  /\ outcome \in Contract!Verdicts \cup {"pending"}
  /\ failed \in BOOLEAN /\ checks \in Contract!Checks /\ holds \in BOOLEAN /\ announced \in BOOLEAN
  /\ id \in BOOLEAN /\ dead \in BOOLEAN /\ cancelled \in BOOLEAN
  /\ pending \in 0..ChannelSize /\ sent \in 0..MaxSignals
  /\ handler \in {"first", "cancel", "second", "gone"}
  /\ verdicts \in [Targets -> Contract!Verdicts \cup {"unrun"}]
  /\ left \subseteq Targets /\ told \subseteq Targets
  /\ cutShort \in BOOLEAN /\ ioFailed \in BOOLEAN

\* The exit code of a sweep that could write its documents is that of its
\* worst target, and a target that was not drilled counts as an error.
SweepTellsTheWorst ==
  flags.all /\ exit \in 0..2 /\ ~ioFailed =>
    /\ \A j \in Targets : ExitOf(verdicts[j]) <= exit
    /\ \E j \in Targets : ExitOf(verdicts[j]) = exit

\* The document of a sweep accounts for every target of drillback.yaml, those
\* that an interrupt kept from running too.
DocumentAccountsForTargets ==
  flags.all /\ doc # -1 =>
    /\ multi.total + multi.skipped = NTargets
    /\ multi.skipped = Cardinality({j \in Targets : verdicts[j] = "unrun"})

\* An interrupt that came while a target was still to start never ends in 0 or
\* 1, even when the loop had looked at the context just before.
InterruptedIsUnproven == cutShort => exit \in {-1, 2, 130}

\* Exit codes 0 and 1 are said of drills that left nothing on disk but what
\* the operator has been told of.
NothingLeftSilently == exit \in {0, 1} => left \subseteq told

\* A sweep that was interrupted begins at most one more target: the one whose
\* turn it was when the loop had just looked at the context.
OneMoreAtMost == [][dead => job' = job]_vars

\* Two signals end the process even when the drill hangs, however close they
\* come together.
SecondSignalLeaves == sent >= 2 ~> ~Running

-----------------------------------------------------------------------------
(* What the repository says of the command and the command does not do.    *)

\* cli.go, exit codes: "1    restore unusable"; 2 for a run that exceeded its
\* --timeout "before it could reach a verdict".
OneMeansUnusable ==
  exit = 1 => \E j \in Targets : verdicts[j] = "UNUSABLE"
=============================================================================
