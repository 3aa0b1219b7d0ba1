------------------------- MODULE CheckCommandProofs -------------------------
(***************************************************************************)
(* Theorems about CheckCommand, for any number of targets and of signals,  *)
(* with --all and without.                                                 *)
(*                                                                         *)
(* The invariant says of the loop how far it is and of the report that it  *)
(* is the fold of what was drilled so far; of an interrupt, that a target  *)
(* it kept from being drilled is counted, and that the one drill that can  *)
(* start after it fails; of what a drill left, that it is told or that the *)
(* exit code is 2 already.                                                 *)
(***************************************************************************)
EXTENDS CheckCommand, FiniteSetTheorems, TLAPS

-----------------------------------------------------------------------------
(* The invariant.                                                          *)

\* The steps of the command after its last drill.
Told == {"json", "file", "kept", "verdict"}

\* A drill has ended and its report is not done with.
Reported == pc \in {"tty", "add"} \/ (~flags.all /\ pc \in Told)

\* Where the command is, and at which target.
Places ==
  /\ pc = "left" <=> exit # -1
  /\ pc \in {"next", "add", "summary"} => flags.all
  /\ pc = "kept" => ~flags.all
  /\ pc = "begin" => job < Jobs
  /\ pc \in {"drill", "tty", "add"} => job > 0
  /\ pc = "resolve" => job = 0
  /\ ~flags.all /\ pc \in Told => job = 1

\* What report.Multi has counted.
Counted ==
  /\ pc \in {"resolve", "next", "begin", "summary"} =>
       multi.total = (IF flags.all THEN job ELSE 0)
  /\ pc \in {"drill", "tty", "add"} => multi.total = (IF flags.all THEN job - 1 ELSE 0)
  /\ pc \in Told /\ flags.all => multi.total = job /\ multi.skipped = NTargets - job
  /\ pc \notin Told \cup {"left"} => multi.skipped = 0

\* Which targets have been drilled.
Ran ==
  /\ pc \notin {"drill", "left"} => \A j \in Targets : verdicts[j] = "unrun" <=> j > job
  /\ pc = "drill" => \A j \in Targets : verdicts[j] = "unrun" <=> j >= job
  /\ pc \in {"tty", "add"} => verdicts[job] = outcome

\* The code of the report is the worst of the targets added to it.
WorstOfAdded ==
  /\ \A j \in 1..multi.total : ExitOf(verdicts[j]) <= multi.code
  /\ multi.code = 0 \/ \E j \in 1..multi.total : ExitOf(verdicts[j]) = multi.code

\* It is the worst of all targets.
WorstOfAll ==
  /\ \A j \in Targets : ExitOf(verdicts[j]) <= multi.code
  /\ \E j \in Targets : ExitOf(verdicts[j]) = multi.code

\* The first while targets are drilled, the second from the summary on.
Folded ==
  /\ flags.all /\ pc \notin Told \cup {"left"} => WorstOfAdded
  /\ flags.all /\ pc \in Told => WorstOfAll
  /\ flags.all /\ exit \in 0..2 /\ ~ioFailed =>
       \/ WorstOfAll /\ multi.code = exit
       \/ exit = 2 /\ \A j \in Targets : verdicts[j] = "unrun"

\* The documents come last.
DocumentDone ==
  /\ doc # -1 => pc \in Told \cup {"left"}
  /\ DocumentAccountsForTargets

\* A drill that has ended did so as its contract has it.
Ended ==
  /\ failed => outcome = "ERROR"
  /\ pc = "drill" => outcome = "pending"
  /\ Reported => outcome # "pending" /\ (holds => announced \/ failed)

\* A drill that starts under a cancelled context is the last, and fails; and
\* a target that an interrupt kept from starting has made the code 2.
DeadEnds ==
  /\ dead \/ cutShort => cancelled
  /\ dead => pc \notin {"resolve", "begin"}
  /\ dead /\ pc = "drill" => ~id
  /\ dead /\ pc \in {"next", "summary", "tty", "add"} \cup Told => failed
  /\ dead /\ flags.all /\ pc \in {"next", "summary"} \cup Told => multi.code = 2
  /\ cutShort => job < Jobs \/ dead
  /\ flags.all /\ pc \in Told /\ job < Jobs => multi.code = 2
  /\ InterruptedIsUnproven

\* What drills left is told, is about to be, or has made the code 2.
Kept ==
  /\ left \subseteq 1..job
  /\ pc = "drill" => job \notin left
  /\ flags.all /\ pc \notin {"tty", "add", "left"} => left \subseteq told \/ multi.code = 2
  /\ flags.all /\ pc \in {"tty", "add"} => left \subseteq told \cup {job} \/ multi.code = 2
  /\ Reported => (job \in left => holds)
  /\ ~flags.all /\ pc = "verdict" => left \subseteq told \/ failed
  /\ NothingLeftSilently

IInv == /\ TypeOK /\ Places /\ Counted /\ Ran /\ Folded
        /\ DocumentDone /\ Ended /\ DeadEnds /\ Kept

-----------------------------------------------------------------------------
(* TypeOK, a part at a time.                                               *)

TypeMulti ==
  /\ job \in 0..Jobs
  /\ multi \in [total : 0..Jobs, skipped : 0..Jobs, code : 0..2]

TypeSteps ==
  /\ flags \in [all : BOOLEAN, json : BOOLEAN, report : BOOLEAN]
  /\ pc \in Steps /\ doc \in -1..2 /\ exit \in {-1, 0, 1, 2, 130}

TypeDrill ==
  /\ outcome \in Contract!Verdicts \cup {"pending"} /\ checks \in Contract!Checks

TypeFlags ==
  /\ failed \in BOOLEAN /\ holds \in BOOLEAN /\ announced \in BOOLEAN
  /\ id \in BOOLEAN /\ dead \in BOOLEAN /\ cancelled \in BOOLEAN
  /\ cutShort \in BOOLEAN /\ ioFailed \in BOOLEAN

TypeSignals ==
  /\ pending \in 0..ChannelSize /\ sent \in 0..MaxSignals
  /\ handler \in {"first", "cancel", "second", "gone"}

TypeSets ==
  /\ verdicts \in [Targets -> Contract!Verdicts \cup {"unrun"}]
  /\ left \subseteq Targets /\ told \subseteq Targets

\* TypeOK is all of them.
LEMMA TypeParts ==
  TypeOK <=> TypeMulti /\ TypeSteps /\ TypeDrill /\ TypeFlags /\ TypeSignals /\ TypeSets
  BY DEF TypeOK, TypeMulti, TypeSteps, TypeDrill, TypeFlags, TypeSignals, TypeSets

\* What the provers need of the numbers.
LEMMA MultiFields ==
  ASSUME TypeMulti
  PROVE  /\ multi.total \in 0..Jobs /\ multi.skipped \in 0..Jobs /\ multi.code \in 0..2
         /\ Jobs \in 1..NTargets /\ job \in 0..Jobs /\ NTargets \in Nat \ {0}
  BY ConstantsAssumption DEF TypeMulti, Jobs

\* A target that is drilled is one.
LEMMA JobIsTarget ==
  ASSUME TypeMulti, job > 0
  PROVE  job \in Targets /\ job \in 1..Jobs /\ Jobs \in 1..NTargets
  BY ConstantsAssumption DEF TypeMulti, Jobs, Targets

\* Every verdict has its exit code; a target that never ran has that of an
\* error.
LEMMA ExitsAreCodes ==
  /\ \A v \in Contract!Verdicts \cup {"unrun", "pending"} : ExitOf(v) \in 0..2
  /\ ExitOf("unrun") = 2 /\ ExitOf("ERROR") = 2
  BY DEF ExitOf, Contract!Verdicts

\* The command starts with every part in its sets.
LEMMA TypeInit == Init => TypeOK
<1> SUFFICES ASSUME Init PROVE TypeOK
  OBVIOUS
<1>1. TypeMulti
  BY ConstantsAssumption DEF Init, TypeMulti, Jobs
<1>2. TypeSteps
  BY DEF Init, TypeSteps, Steps
<1>3. TypeDrill /\ TypeFlags
  BY DEF Init, TypeDrill, TypeFlags, Contract!Init, Contract!Checks
<1>4. TypeSignals
  BY ConstantsAssumption DEF Init, TypeSignals, ChannelSize
<1>5. TypeSets
  BY DEF Init, TypeSets, Targets
<1> QED BY <1>1, <1>2, <1>3, <1>4, <1>5, TypeParts

\* A target that is added was counted as drilled.
LEMMA TypeMultiAdd ==
  ASSUME TypeMulti, TypeDrill, Counted, Places, AddTarget PROVE TypeMulti'
<1> DEFINE c == ExitOf(outcome)
           d == Worse(multi.code, c)
           n == multi.total + 1
           J == 0..Jobs
<1>1. flags.all /\ pc = "add" /\ multi.total = job - 1 /\ job > 0
  BY DEF AddTarget, At, Places, Counted
<1>2. c \in 0..2
  BY ExitsAreCodes DEF TypeDrill
<1>3. n \in J /\ d \in 0..2
  <2> HIDE DEF c
  <2> QED BY <1>1, <1>2, MultiFields DEF Worse
<1>4. /\ multi' = [multi EXCEPT !.total = n, !.code = d]
      /\ UNCHANGED <<job, flags>>
  BY DEF AddTarget
<1>5. multi \in [total : J, skipped : J, code : 0..2] /\ job \in J
  BY DEF TypeMulti
<1> HIDE DEF c, d, n, J
<1>6. multi' \in [total : J, skipped : J, code : 0..2]
  BY <1>3, <1>4, <1>5
<1>7. 0..Jobs' = J
  BY <1>4 DEF Jobs, J
<1> QED BY <1>4, <1>5, <1>6, <1>7 DEF TypeMulti

\* What is left of the targets is what is skipped.
LEMMA TypeMultiSkip == ASSUME TypeMulti, Summarise PROVE TypeMulti'
<1> DEFINE n == Jobs - multi.total
           J == 0..Jobs
<1>1. n \in J
  BY MultiFields
<1>2. /\ UNCHANGED <<job, flags>>
      /\ multi' = multi \/ multi' = [multi EXCEPT !.skipped = n, !.code = 2]
  BY DEF Summarise, SkipRemaining
<1>3. multi \in [total : J, skipped : J, code : 0..2] /\ job \in J /\ 2 \in 0..2
  BY DEF TypeMulti
<1> HIDE DEF n, J
<1>4. multi' \in [total : J, skipped : J, code : 0..2]
  BY <1>1, <1>2, <1>3
<1>5. 0..Jobs' = J
  BY <1>2 DEF Jobs, J
<1> QED BY <1>2, <1>3, <1>4, <1>5 DEF TypeMulti

\* The loop stops at the last target.
LEMMA TypeMultiStep ==
  ASSUME TypeMulti, TypeDrill, Counted, Places, [Next]_vars PROVE TypeMulti'
<1> USE DEF vars, drill, signals, observers, Running
<1>1. CASE ResolveJobs
  BY <1>1, ConstantsAssumption DEF ResolveJobs, At, Leave, TypeMulti, Jobs, Places
<1>2. CASE NextTarget
  BY <1>2, ConstantsAssumption DEF NextTarget, At, TypeMulti, Jobs, Places
<1>3. CASE BeginRun
  BY <1>3, ConstantsAssumption DEF BeginRun, At, TypeMulti, Jobs, Places
<1>4. CASE WriteTTY
  BY <1>4, ConstantsAssumption DEF WriteTTY, At, WriteFails, Leave, TypeMulti, Jobs,
         Places
<1>5. CASE AddTarget
  BY <1>5, TypeMultiAdd
<1>6. CASE Summarise
  BY <1>6, TypeMultiSkip
<1>7. CASE WriteJSON
  BY <1>7, ConstantsAssumption DEF WriteJSON, WriteDocument, At, WriteFails, Leave,
         DocumentCode, TypeMulti, Jobs, Places
<1>8. CASE WriteReportFile
  BY <1>8, ConstantsAssumption DEF WriteReportFile, WriteDocument, At, WriteFails,
         Leave, DocumentCode, TypeMulti, Jobs, Places
<1>9. CASE PrintKept
  BY <1>9, ConstantsAssumption DEF PrintKept, At, Tell, TypeMulti, Jobs, Places
<1>10. CASE Finish
  BY <1>10, ConstantsAssumption DEF Finish, At, Leave, SingleCode, TypeMulti, Jobs,
         Places
<1>11. CASE DrillStep
  BY <1>11, ConstantsAssumption DEF DrillStep, At, DrillAcquires, DrillMoves,
         Contract!Acquire, Contract!Release, Contract!Announce, TypeMulti, Jobs, Places
<1>12. CASE DrillEnds
  BY <1>12, ConstantsAssumption DEF DrillEnds, At, Contract!Finish, Contract!End,
         TypeMulti, Jobs, Places
<1>13. CASE FirstSignal
  BY <1>13, ConstantsAssumption DEF FirstSignal, Receive, SignalFrame, TypeMulti, Jobs,
         Places
<1>14. CASE CancelRun
  BY <1>14, ConstantsAssumption DEF CancelRun, SignalFrame, TypeMulti, Jobs, Places
<1>15. CASE SecondSignal
  BY <1>15, ConstantsAssumption DEF SecondSignal, Receive, Leave, SignalFrame,
         TypeMulti, Jobs, Places
<1>16. CASE Signal
  BY <1>16, ConstantsAssumption DEF Signal, SignalFrame, TypeMulti, Jobs, Places
<1>17. CASE UNCHANGED vars
  BY <1>17 DEF TypeMulti, Jobs, Places
<1> QED
  BY <1>1, <1>2, <1>3, <1>4, <1>5, <1>6, <1>7, <1>8, <1>9, <1>10, <1>11, <1>12, <1>13,
         <1>14, <1>15, <1>16, <1>17
     DEF Next, Command, Drill, Interrupts, Exited

\* Exit codes come from the report or from the verdict.
LEMMA TypeStepsStep == ASSUME TypeMulti, TypeSteps, [Next]_vars PROVE TypeSteps'
<1> USE DEF vars, drill, signals, observers, Running
<1>1. CASE ResolveJobs
  BY <1>1 DEF ResolveJobs, At, Leave, TypeSteps, TypeMulti, Steps, ExitOf
<1>2. CASE NextTarget
  BY <1>2 DEF NextTarget, At, TypeSteps, TypeMulti, Steps, ExitOf
<1>3. CASE BeginRun
  BY <1>3 DEF BeginRun, At, TypeSteps, TypeMulti, Steps, ExitOf
<1>4. CASE WriteTTY
  BY <1>4 DEF WriteTTY, At, WriteFails, Leave, TypeSteps, TypeMulti, Steps, ExitOf
<1>5. CASE AddTarget
  BY <1>5 DEF AddTarget, At, Tell, TypeSteps, TypeMulti, Steps, ExitOf
<1>6. CASE Summarise
  BY <1>6 DEF Summarise, At, SkipRemaining, WriteFails, Leave, TypeSteps, TypeMulti,
         Steps, ExitOf
<1>7. CASE WriteJSON
  BY <1>7 DEF WriteJSON, WriteDocument, At, WriteFails, Leave, DocumentCode, TypeSteps,
         TypeMulti, Steps, ExitOf
<1>8. CASE WriteReportFile
  BY <1>8 DEF WriteReportFile, WriteDocument, At, WriteFails, Leave, DocumentCode,
         TypeSteps, TypeMulti, Steps, ExitOf
<1>9. CASE PrintKept
  BY <1>9 DEF PrintKept, At, Tell, TypeSteps, TypeMulti, Steps, ExitOf
<1>10. CASE Finish
  BY <1>10 DEF Finish, At, Leave, SingleCode, TypeSteps, TypeMulti, Steps, ExitOf
<1>11. CASE DrillStep
  BY <1>11 DEF DrillStep, At, DrillAcquires, DrillMoves, Contract!Acquire,
         Contract!Release, Contract!Announce, TypeSteps, TypeMulti, Steps, ExitOf
<1>12. CASE DrillEnds
  BY <1>12 DEF DrillEnds, At, Contract!Finish, Contract!End, TypeSteps, TypeMulti,
         Steps, ExitOf
<1>13. CASE FirstSignal
  BY <1>13 DEF FirstSignal, Receive, SignalFrame, TypeSteps, TypeMulti, Steps, ExitOf
<1>14. CASE CancelRun
  BY <1>14 DEF CancelRun, SignalFrame, TypeSteps, TypeMulti, Steps, ExitOf
<1>15. CASE SecondSignal
  BY <1>15 DEF SecondSignal, Receive, Leave, SignalFrame, TypeSteps, TypeMulti, Steps,
         ExitOf
<1>16. CASE Signal
  BY <1>16 DEF Signal, SignalFrame, TypeSteps, TypeMulti, Steps, ExitOf
<1>17. CASE UNCHANGED vars
  BY <1>17 DEF TypeSteps, TypeMulti, Steps, ExitOf
<1> QED
  BY <1>1, <1>2, <1>3, <1>4, <1>5, <1>6, <1>7, <1>8, <1>9, <1>10, <1>11, <1>12, <1>13,
         <1>14, <1>15, <1>16, <1>17
     DEF Next, Command, Drill, Interrupts, Exited

\* What drills say.
LEMMA TypeDrillStep == ASSUME TypeDrill, [Next]_vars PROVE TypeDrill'
<1> USE DEF vars, drill, signals, observers, Running
<1>1. CASE ResolveJobs
  BY <1>1 DEF ResolveJobs, At, Leave, TypeDrill, Contract!Verdicts, Contract!Checks
<1>2. CASE NextTarget
  BY <1>2 DEF NextTarget, At, TypeDrill, Contract!Verdicts, Contract!Checks
<1>3. CASE BeginRun
  BY <1>3 DEF BeginRun, At, TypeDrill, Contract!Verdicts, Contract!Checks
<1>4. CASE WriteTTY
  BY <1>4 DEF WriteTTY, At, WriteFails, Leave, TypeDrill, Contract!Verdicts,
         Contract!Checks
<1>5. CASE AddTarget
  BY <1>5 DEF AddTarget, At, Tell, TypeDrill, Contract!Verdicts, Contract!Checks
<1>6. CASE Summarise
  BY <1>6 DEF Summarise, At, SkipRemaining, WriteFails, Leave, TypeDrill,
         Contract!Verdicts, Contract!Checks
<1>7. CASE WriteJSON
  BY <1>7 DEF WriteJSON, WriteDocument, At, WriteFails, Leave, DocumentCode, TypeDrill,
         Contract!Verdicts, Contract!Checks
<1>8. CASE WriteReportFile
  BY <1>8 DEF WriteReportFile, WriteDocument, At, WriteFails, Leave, DocumentCode,
         TypeDrill, Contract!Verdicts, Contract!Checks
<1>9. CASE PrintKept
  BY <1>9 DEF PrintKept, At, Tell, TypeDrill, Contract!Verdicts, Contract!Checks
<1>10. CASE Finish
  BY <1>10 DEF Finish, At, Leave, SingleCode, TypeDrill, Contract!Verdicts,
         Contract!Checks
<1>11. CASE DrillStep
  BY <1>11 DEF DrillStep, At, DrillAcquires, DrillMoves, Contract!Acquire,
         Contract!Release, Contract!Announce, TypeDrill, Contract!Verdicts,
         Contract!Checks
<1>12. CASE DrillEnds
  BY <1>12 DEF DrillEnds, At, Contract!Finish, Contract!End, TypeDrill,
         Contract!Verdicts, Contract!Checks
<1>13. CASE FirstSignal
  BY <1>13 DEF FirstSignal, Receive, SignalFrame, TypeDrill, Contract!Verdicts,
         Contract!Checks
<1>14. CASE CancelRun
  BY <1>14 DEF CancelRun, SignalFrame, TypeDrill, Contract!Verdicts, Contract!Checks
<1>15. CASE SecondSignal
  BY <1>15 DEF SecondSignal, Receive, Leave, SignalFrame, TypeDrill, Contract!Verdicts,
         Contract!Checks
<1>16. CASE Signal
  BY <1>16 DEF Signal, SignalFrame, TypeDrill, Contract!Verdicts, Contract!Checks
<1>17. CASE UNCHANGED vars
  BY <1>17 DEF TypeDrill, Contract!Verdicts, Contract!Checks
<1> QED
  BY <1>1, <1>2, <1>3, <1>4, <1>5, <1>6, <1>7, <1>8, <1>9, <1>10, <1>11, <1>12, <1>13,
         <1>14, <1>15, <1>16, <1>17
     DEF Next, Command, Drill, Interrupts, Exited

\* The flags of the model.
LEMMA TypeFlagsStep == ASSUME TypeFlags, [Next]_vars PROVE TypeFlags'
<1> USE DEF vars, drill, signals, observers, Running
<1>1. CASE ResolveJobs
  BY <1>1 DEF ResolveJobs, At, Leave, TypeFlags
<1>2. CASE NextTarget
  BY <1>2 DEF NextTarget, At, TypeFlags
<1>3. CASE BeginRun
  BY <1>3 DEF BeginRun, At, TypeFlags
<1>4. CASE WriteTTY
  BY <1>4 DEF WriteTTY, At, WriteFails, Leave, TypeFlags
<1>5. CASE AddTarget
  BY <1>5 DEF AddTarget, At, Tell, TypeFlags
<1>6. CASE Summarise
  BY <1>6 DEF Summarise, At, SkipRemaining, WriteFails, Leave, TypeFlags
<1>7. CASE WriteJSON
  BY <1>7 DEF WriteJSON, WriteDocument, At, WriteFails, Leave, DocumentCode, TypeFlags
<1>8. CASE WriteReportFile
  BY <1>8 DEF WriteReportFile, WriteDocument, At, WriteFails, Leave, DocumentCode,
         TypeFlags
<1>9. CASE PrintKept
  BY <1>9 DEF PrintKept, At, Tell, TypeFlags
<1>10. CASE Finish
  BY <1>10 DEF Finish, At, Leave, SingleCode, TypeFlags
<1>11. CASE DrillStep
  BY <1>11 DEF DrillStep, At, DrillAcquires, DrillMoves, Contract!Acquire,
         Contract!Release, Contract!Announce, TypeFlags
<1>12. CASE DrillEnds
  BY <1>12 DEF DrillEnds, At, Contract!Finish, Contract!End, TypeFlags
<1>13. CASE FirstSignal
  BY <1>13 DEF FirstSignal, Receive, SignalFrame, TypeFlags
<1>14. CASE CancelRun
  BY <1>14 DEF CancelRun, SignalFrame, TypeFlags
<1>15. CASE SecondSignal
  BY <1>15 DEF SecondSignal, Receive, Leave, SignalFrame, TypeFlags
<1>16. CASE Signal
  BY <1>16 DEF Signal, SignalFrame, TypeFlags
<1>17. CASE UNCHANGED vars
  BY <1>17 DEF TypeFlags
<1> QED
  BY <1>1, <1>2, <1>3, <1>4, <1>5, <1>6, <1>7, <1>8, <1>9, <1>10, <1>11, <1>12, <1>13,
         <1>14, <1>15, <1>16, <1>17
     DEF Next, Command, Drill, Interrupts, Exited

\* The channel holds no more than it has room for.
LEMMA TypeSignalsStep == ASSUME TypeSignals, [Next]_vars PROVE TypeSignals'
<1> USE DEF vars, drill, signals, observers, Running
<1>1. CASE ResolveJobs
  BY <1>1 DEF ResolveJobs, At, Leave, TypeSignals, ChannelSize
<1>2. CASE NextTarget
  BY <1>2 DEF NextTarget, At, TypeSignals, ChannelSize
<1>3. CASE BeginRun
  BY <1>3 DEF BeginRun, At, TypeSignals, ChannelSize
<1>4. CASE WriteTTY
  BY <1>4 DEF WriteTTY, At, WriteFails, Leave, TypeSignals, ChannelSize
<1>5. CASE AddTarget
  BY <1>5 DEF AddTarget, At, Tell, TypeSignals, ChannelSize
<1>6. CASE Summarise
  BY <1>6 DEF Summarise, At, SkipRemaining, WriteFails, Leave, TypeSignals, ChannelSize
<1>7. CASE WriteJSON
  BY <1>7 DEF WriteJSON, WriteDocument, At, WriteFails, Leave, DocumentCode,
         TypeSignals, ChannelSize
<1>8. CASE WriteReportFile
  BY <1>8 DEF WriteReportFile, WriteDocument, At, WriteFails, Leave, DocumentCode,
         TypeSignals, ChannelSize
<1>9. CASE PrintKept
  BY <1>9 DEF PrintKept, At, Tell, TypeSignals, ChannelSize
<1>10. CASE Finish
  BY <1>10 DEF Finish, At, Leave, SingleCode, TypeSignals, ChannelSize
<1>11. CASE DrillStep
  BY <1>11 DEF DrillStep, At, DrillAcquires, DrillMoves, Contract!Acquire,
         Contract!Release, Contract!Announce, TypeSignals, ChannelSize
<1>12. CASE DrillEnds
  BY <1>12 DEF DrillEnds, At, Contract!Finish, Contract!End, TypeSignals, ChannelSize
<1>13. CASE FirstSignal
  BY <1>13 DEF FirstSignal, Receive, SignalFrame, TypeSignals, ChannelSize
<1>14. CASE CancelRun
  BY <1>14 DEF CancelRun, SignalFrame, TypeSignals, ChannelSize
<1>15. CASE SecondSignal
  BY <1>15 DEF SecondSignal, Receive, Leave, SignalFrame, TypeSignals, ChannelSize
<1>16. CASE Signal
  BY <1>16, ConstantsAssumption DEF Signal, SignalFrame, ChannelSize, TypeSignals
<1>17. CASE UNCHANGED vars
  BY <1>17 DEF TypeSignals, ChannelSize
<1> QED
  BY <1>1, <1>2, <1>3, <1>4, <1>5, <1>6, <1>7, <1>8, <1>9, <1>10, <1>11, <1>12, <1>13,
         <1>14, <1>15, <1>16, <1>17
     DEF Next, Command, Drill, Interrupts, Exited

\* Only targets are drilled and told of.
LEMMA TypeSetsStep ==
  ASSUME TypeMulti, TypeSets, Places, [Next]_vars PROVE TypeSets'
<1> USE DEF vars, drill, signals, observers, Running
<1>a. pc \in {"drill", "tty", "add", "kept"} => job \in Targets
  BY JobIsTarget DEF Places, Told
<1>1. CASE ResolveJobs
  BY <1>1, <1>a DEF ResolveJobs, At, Leave, TypeSets
<1>2. CASE NextTarget
  BY <1>2, <1>a DEF NextTarget, At, TypeSets
<1>3. CASE BeginRun
  BY <1>3, <1>a DEF BeginRun, At, TypeSets
<1>4. CASE WriteTTY
  BY <1>4, <1>a DEF WriteTTY, At, WriteFails, Leave, TypeSets
<1>5. CASE AddTarget
  BY <1>5, <1>a DEF AddTarget, At, Tell, TypeSets
<1>6. CASE Summarise
  BY <1>6, <1>a DEF Summarise, At, SkipRemaining, WriteFails, Leave, TypeSets
<1>7. CASE WriteJSON
  BY <1>7, <1>a DEF WriteJSON, WriteDocument, At, WriteFails, Leave, DocumentCode,
         TypeSets
<1>8. CASE WriteReportFile
  BY <1>8, <1>a DEF WriteReportFile, WriteDocument, At, WriteFails, Leave, DocumentCode,
         TypeSets
<1>9. CASE PrintKept
  BY <1>9, <1>a DEF PrintKept, At, Tell, TypeSets
<1>10. CASE Finish
  BY <1>10, <1>a DEF Finish, At, Leave, SingleCode, TypeSets
<1>11. CASE DrillStep
  BY <1>11, <1>a DEF DrillStep, At, DrillAcquires, DrillMoves, Contract!Acquire,
         Contract!Release, Contract!Announce, TypeSets
<1>12. CASE DrillEnds
  <2>1. outcome' \in Contract!Verdicts
    BY <1>12 DEF DrillEnds, Contract!Finish, Contract!End
  <2> QED BY <1>12, <1>a, <2>1 DEF DrillEnds, At, TypeSets
<1>13. CASE FirstSignal
  BY <1>13, <1>a DEF FirstSignal, Receive, SignalFrame, TypeSets
<1>14. CASE CancelRun
  BY <1>14, <1>a DEF CancelRun, SignalFrame, TypeSets
<1>15. CASE SecondSignal
  BY <1>15, <1>a DEF SecondSignal, Receive, Leave, SignalFrame, TypeSets
<1>16. CASE Signal
  BY <1>16, <1>a DEF Signal, SignalFrame, TypeSets
<1>17. CASE UNCHANGED vars
  BY <1>17 DEF TypeSets
<1> QED
  BY <1>1, <1>2, <1>3, <1>4, <1>5, <1>6, <1>7, <1>8, <1>9, <1>10, <1>11, <1>12, <1>13,
         <1>14, <1>15, <1>16, <1>17
     DEF Next, Command, Drill, Interrupts, Exited

-----------------------------------------------------------------------------
(* The loop and the report.                                                *)

\* Places, step by step.
LEMMA PlacesStep == ASSUME TypeMulti, TypeSteps, Places, [Next]_vars PROVE Places'
<1> USE DEF vars, drill, signals, observers, Running
<1>1. CASE ResolveJobs
  BY <1>1 DEF ResolveJobs, At, Leave, Places, Told, TypeMulti, Jobs
<1>2. CASE NextTarget
  BY <1>2 DEF NextTarget, At, Places, Told, TypeMulti, Jobs
<1>3. CASE BeginRun
  BY <1>3 DEF BeginRun, At, Places, Told, TypeMulti, Jobs
<1>4. CASE WriteTTY
  BY <1>4 DEF WriteTTY, At, WriteFails, Leave, Places, Told, TypeMulti, Jobs
<1>5. CASE AddTarget
  BY <1>5 DEF AddTarget, At, Tell, Places, Told, TypeMulti, Jobs
<1>6. CASE Summarise
  BY <1>6 DEF Summarise, At, SkipRemaining, WriteFails, Leave, Places, Told, TypeMulti,
         Jobs
<1>7. CASE WriteJSON
  BY <1>7 DEF WriteJSON, WriteDocument, At, WriteFails, Leave, DocumentCode, Places,
         Told, TypeMulti, Jobs
<1>8. CASE WriteReportFile
  BY <1>8 DEF WriteReportFile, WriteDocument, At, WriteFails, Leave, DocumentCode,
         Places, Told, TypeMulti, Jobs
<1>9. CASE PrintKept
  BY <1>9 DEF PrintKept, At, Tell, Places, Told, TypeMulti, Jobs
<1>10. CASE Finish
  BY <1>10 DEF Finish, At, Leave, SingleCode, Places, Told, TypeMulti, Jobs
<1>11. CASE DrillStep
  BY <1>11 DEF DrillStep, At, DrillAcquires, DrillMoves, Contract!Acquire,
         Contract!Release, Contract!Announce, Places, Told, TypeMulti, Jobs
<1>12. CASE DrillEnds
  BY <1>12 DEF DrillEnds, At, Contract!Finish, Contract!End, Places, Told, TypeMulti,
         Jobs
<1>13. CASE FirstSignal
  BY <1>13 DEF FirstSignal, Receive, SignalFrame, Places, Told, TypeMulti, Jobs
<1>14. CASE CancelRun
  BY <1>14 DEF CancelRun, SignalFrame, Places, Told, TypeMulti, Jobs
<1>15. CASE SecondSignal
  BY <1>15 DEF SecondSignal, Receive, Leave, SignalFrame, Places, Told, TypeMulti, Jobs
<1>16. CASE Signal
  BY <1>16 DEF Signal, SignalFrame, Places, Told, TypeMulti, Jobs
<1>17. CASE UNCHANGED vars
  BY <1>17 DEF Places, Told, TypeMulti, Jobs
<1> QED
  BY <1>1, <1>2, <1>3, <1>4, <1>5, <1>6, <1>7, <1>8, <1>9, <1>10, <1>11, <1>12, <1>13,
         <1>14, <1>15, <1>16, <1>17
     DEF Next, Command, Drill, Interrupts, Exited

\* Counted, step by step.
LEMMA CountedStep == ASSUME TypeMulti, Places, Counted, [Next]_vars PROVE Counted'
<1> USE DEF vars, drill, signals, observers, Running
<1>1. CASE ResolveJobs
  BY <1>1 DEF ResolveJobs, At, Leave, TypeMulti, Jobs, Counted, Places, Told
<1>2. CASE NextTarget
  BY <1>2 DEF NextTarget, At, TypeMulti, Jobs, Counted, Places, Told
<1>3. CASE BeginRun
  BY <1>3 DEF BeginRun, At, TypeMulti, Jobs, Counted, Places, Told
<1>4. CASE WriteTTY
  BY <1>4 DEF WriteTTY, At, WriteFails, Leave, TypeMulti, Jobs, Counted, Places, Told
<1>5. CASE AddTarget
  BY <1>5 DEF AddTarget, At, Tell, TypeMulti, Jobs, Counted, Places, Told
<1>6. CASE Summarise
  BY <1>6 DEF Summarise, At, SkipRemaining, WriteFails, Leave, TypeMulti, Jobs, Counted,
         Places, Told
<1>7. CASE WriteJSON
  BY <1>7 DEF WriteJSON, WriteDocument, At, WriteFails, Leave, DocumentCode, TypeMulti,
         Jobs, Counted, Places, Told
<1>8. CASE WriteReportFile
  BY <1>8 DEF WriteReportFile, WriteDocument, At, WriteFails, Leave, DocumentCode,
         TypeMulti, Jobs, Counted, Places, Told
<1>9. CASE PrintKept
  BY <1>9 DEF PrintKept, At, Tell, TypeMulti, Jobs, Counted, Places, Told
<1>10. CASE Finish
  BY <1>10 DEF Finish, At, Leave, SingleCode, TypeMulti, Jobs, Counted, Places, Told
<1>11. CASE DrillStep
  BY <1>11 DEF DrillStep, At, DrillAcquires, DrillMoves, Contract!Acquire,
         Contract!Release, Contract!Announce, TypeMulti, Jobs, Counted, Places, Told
<1>12. CASE DrillEnds
  BY <1>12 DEF DrillEnds, At, Contract!Finish, Contract!End, TypeMulti, Jobs, Counted,
         Places, Told
<1>13. CASE FirstSignal
  BY <1>13 DEF FirstSignal, Receive, SignalFrame, TypeMulti, Jobs, Counted, Places, Told
<1>14. CASE CancelRun
  BY <1>14 DEF CancelRun, SignalFrame, TypeMulti, Jobs, Counted, Places, Told
<1>15. CASE SecondSignal
  BY <1>15 DEF SecondSignal, Receive, Leave, SignalFrame, TypeMulti, Jobs, Counted,
         Places, Told
<1>16. CASE Signal
  BY <1>16 DEF Signal, SignalFrame, TypeMulti, Jobs, Counted, Places, Told
<1>17. CASE UNCHANGED vars
  BY <1>17 DEF TypeMulti, Jobs, Counted, Places, Told
<1> QED
  BY <1>1, <1>2, <1>3, <1>4, <1>5, <1>6, <1>7, <1>8, <1>9, <1>10, <1>11, <1>12, <1>13,
         <1>14, <1>15, <1>16, <1>17
     DEF Next, Command, Drill, Interrupts, Exited

\* A drill that ends gives its target a verdict.
LEMMA RanDrillEnds ==
  ASSUME TypeMulti, TypeSets, Places, Ran, DrillEnds PROVE Ran'
<1>1. job \in Targets /\ job \in Int
  BY JobIsTarget DEF Places, DrillEnds, At, TypeMulti
<1>2. outcome' \in Contract!Verdicts /\ outcome' # "unrun"
  BY DEF DrillEnds, Contract!Finish, Contract!End, Contract!Verdicts
<1>3. /\ verdicts' = [verdicts EXCEPT ![job] = outcome']
      /\ pc = "drill" /\ pc' = "tty" /\ job' = job
  BY DEF DrillEnds, At
<1>4. \A j \in Targets : verdicts[j] = "unrun" <=> j >= job
  BY <1>3 DEF Ran
<1>5. verdicts'[job] = outcome' /\ \A j \in Targets : j # job => verdicts'[j] = verdicts[j]
  BY <1>1, <1>3 DEF TypeSets
<1>6. \A j \in Targets : verdicts'[j] = "unrun" <=> j > job
  BY <1>1, <1>2, <1>4, <1>5 DEF Targets
<1> QED BY <1>3, <1>5, <1>6 DEF Ran

\* Ran, step by step.
LEMMA RanStep ==
  ASSUME TypeMulti, TypeSets, Places, Ran, [Next]_vars PROVE Ran'
<1> USE DEF vars, drill, signals, observers, Running
<1>1. CASE ResolveJobs
  BY <1>1 DEF ResolveJobs, At, Leave, TypeMulti, Jobs, Ran, Places, Targets, Told
<1>2. CASE NextTarget
  BY <1>2 DEF NextTarget, At, TypeMulti, Jobs, Ran, Places, Targets, Told
<1>3. CASE BeginRun
  BY <1>3 DEF BeginRun, At, TypeMulti, Jobs, Ran, Places, Targets, Told
<1>4. CASE WriteTTY
  BY <1>4 DEF WriteTTY, At, WriteFails, Leave, TypeMulti, Jobs, Ran, Places, Targets,
         Told
<1>5. CASE AddTarget
  BY <1>5 DEF AddTarget, At, Tell, TypeMulti, Jobs, Ran, Places, Targets, Told
<1>6. CASE Summarise
  BY <1>6 DEF Summarise, At, SkipRemaining, WriteFails, Leave, TypeMulti, Jobs, Ran,
         Places, Targets, Told
<1>7. CASE WriteJSON
  BY <1>7 DEF WriteJSON, WriteDocument, At, WriteFails, Leave, DocumentCode, TypeMulti,
         Jobs, Ran, Places, Targets, Told
<1>8. CASE WriteReportFile
  BY <1>8 DEF WriteReportFile, WriteDocument, At, WriteFails, Leave, DocumentCode,
         TypeMulti, Jobs, Ran, Places, Targets, Told
<1>9. CASE PrintKept
  BY <1>9 DEF PrintKept, At, Tell, TypeMulti, Jobs, Ran, Places, Targets, Told
<1>10. CASE Finish
  BY <1>10 DEF Finish, At, Leave, SingleCode, TypeMulti, Jobs, Ran, Places, Targets,
         Told
<1>11. CASE DrillStep
  BY <1>11 DEF DrillStep, At, DrillAcquires, DrillMoves, Contract!Acquire,
         Contract!Release, Contract!Announce, TypeMulti, Jobs, Ran, Places, Targets,
         Told
<1>12. CASE DrillEnds
  BY <1>12, RanDrillEnds
<1>13. CASE FirstSignal
  BY <1>13 DEF FirstSignal, Receive, SignalFrame, TypeMulti, Jobs, Ran, Places, Targets,
         Told
<1>14. CASE CancelRun
  BY <1>14 DEF CancelRun, SignalFrame, TypeMulti, Jobs, Ran, Places, Targets, Told
<1>15. CASE SecondSignal
  BY <1>15 DEF SecondSignal, Receive, Leave, SignalFrame, TypeMulti, Jobs, Ran, Places,
         Targets, Told
<1>16. CASE Signal
  BY <1>16 DEF Signal, SignalFrame, TypeMulti, Jobs, Ran, Places, Targets, Told
<1>17. CASE UNCHANGED vars
  BY <1>17 DEF TypeMulti, Jobs, Ran, Places, Targets, Told
<1> QED
  BY <1>1, <1>2, <1>3, <1>4, <1>5, <1>6, <1>7, <1>8, <1>9, <1>10, <1>11, <1>12, <1>13,
         <1>14, <1>15, <1>16, <1>17
     DEF Next, Command, Drill, Interrupts, Exited

\* AddTarget takes the worse of the code and the target's.
LEMMA FoldedAdd ==
  ASSUME TypeMulti, TypeSets, Ran, Counted, Places, Folded, AddTarget PROVE Folded'
<1> DEFINE c == ExitOf(verdicts[job])
           d == Worse(multi.code, c)
<1>1. /\ flags.all /\ pc = "add" /\ pc' = "next" /\ exit = -1 /\ exit' = -1
      /\ multi.total = job - 1 /\ job > 0 /\ UNCHANGED verdicts
  BY DEF AddTarget, At, Places, Counted, Running
<1>2. c \in 0..2
  BY <1>1, JobIsTarget, ExitsAreCodes DEF TypeSets
<1>3. multi'.total = job /\ multi'.code = d
  <2>1. outcome = verdicts[job]
    BY <1>1 DEF Ran
  <2> QED BY <1>1, <2>1, MultiFields DEF AddTarget, TypeMulti
<1>4. WorstOfAdded
  BY <1>1 DEF Folded, Told
<1>5. 1..job = 1..(job - 1) \cup {job} /\ 1..(job - 1) \subseteq Targets
  BY <1>1, MultiFields, JobIsTarget DEF Targets
<1>6. multi.code \in 0..2 /\ \A j \in Targets : ExitOf(verdicts[j]) \in 0..2
  BY MultiFields, ExitsAreCodes DEF TypeSets
<1> HIDE DEF c
<1>7. multi.code <= d /\ c <= d /\ (d = c \/ d = multi.code) /\ d \in 0..2
  BY <1>2, <1>6 DEF Worse
<1> HIDE DEF d
<1>8. \A j \in 1..job : ExitOf(verdicts[j]) <= d
  BY <1>1, <1>2, <1>4, <1>5, <1>6, <1>7 DEF WorstOfAdded, c
<1>9. d = 0 \/ \E j \in 1..job : ExitOf(verdicts[j]) = d
  BY <1>1, <1>4, <1>5, <1>7 DEF WorstOfAdded, c
<1>10. WorstOfAdded'
  BY <1>1, <1>3, <1>8, <1>9 DEF WorstOfAdded
<1> QED BY <1>1, <1>10 DEF Folded, Told

\* Summarise makes the worst of those added the worst of all.
LEMMA FoldedSummarise ==
  ASSUME TypeMulti, TypeSets, Ran, Counted, Places, Folded, Summarise PROVE Folded'
<1>1. /\ flags.all /\ pc = "summary" /\ exit = -1 /\ UNCHANGED <<verdicts, flags>>
      /\ multi.total = job /\ Jobs = NTargets
  BY DEF Summarise, At, Places, Counted, Running, Jobs
<1>2. \A j \in Targets : verdicts[j] = "unrun" <=> j > job
  BY <1>1 DEF Ran
<1>3. WorstOfAdded
  BY <1>1 DEF Folded, Told
<1>4. /\ job \in 0..NTargets /\ NTargets \in Nat \ {0} /\ multi.code \in 0..2
      /\ \A j \in Targets : ExitOf(verdicts[j]) \in 0..2
  BY <1>1, MultiFields, ExitsAreCodes DEF TypeSets
<1>5. WorstOfAll'
  <2>1. CASE job = NTargets
    <3>1. multi' = multi
      BY <1>1, <1>4, <2>1 DEF Summarise, SkipRemaining
    <3>2. \A j \in Targets : ExitOf(verdicts[j]) <= multi.code
      BY <1>1, <1>3, <2>1 DEF WorstOfAdded, Targets
    <3>3. \E j \in Targets : ExitOf(verdicts[j]) = multi.code
      <4>1. CASE multi.code = 0
        <5>1. 1 \in Targets
          BY <1>4 DEF Targets
        <5>2. ExitOf(verdicts[1]) <= 0 /\ ExitOf(verdicts[1]) \in 0..2
          BY <1>4, <3>2, <4>1, <5>1
        <5> QED BY <4>1, <5>1, <5>2
      <4>2. CASE multi.code # 0
        BY <1>1, <1>3, <2>1, <4>2 DEF WorstOfAdded, Targets
      <4> QED BY <4>1, <4>2
    <3> QED BY <1>1, <3>1, <3>2, <3>3 DEF WorstOfAll
  <2>2. CASE job # NTargets
    <3>1. multi'.code = 2
      BY <1>1, <1>4, <2>2 DEF Summarise, SkipRemaining, TypeMulti
    <3>2. \A j \in Targets : ExitOf(verdicts[j]) <= 2
      BY <1>4
    <3>3. NTargets \in Targets /\ NTargets > job
      BY <1>4, <2>2 DEF Targets
    <3>4. ExitOf(verdicts[NTargets]) = 2
      BY <1>2, <3>3, ExitsAreCodes
    <3> QED BY <1>1, <3>1, <3>2, <3>3, <3>4 DEF WorstOfAll
  <2> QED BY <2>1, <2>2
<1>6. (exit' = -1 /\ pc' = "json") \/ (ioFailed' /\ pc' = "left")
  BY <1>1 DEF Summarise, WriteFails, Leave
<1> QED BY <1>5, <1>6 DEF Folded, Told

\* A drill that ends is not added yet.
LEMMA FoldedDrillEnds ==
  ASSUME TypeMulti, TypeSets, Counted, Places, Folded, DrillEnds PROVE Folded'
<1>1. /\ pc = "drill" /\ pc' = "tty" /\ exit' = -1 /\ UNCHANGED <<flags, multi>>
      /\ \A j \in Targets : j # job => verdicts'[j] = verdicts[j]
  BY DEF DrillEnds, At, Running, TypeSets
<1>2. flags.all => 1..multi.total \subseteq Targets /\ job \notin 1..multi.total
  BY <1>1, MultiFields DEF Counted, Targets, Jobs
<1>3. flags.all => WorstOfAdded
  BY <1>1 DEF Folded, Told
<1>4. flags.all => WorstOfAdded'
  BY <1>1, <1>2, <1>3 DEF WorstOfAdded
<1> QED BY <1>1, <1>4 DEF Folded, Told

\* Folded, step by step.
LEMMA FoldedStep ==
  ASSUME TypeMulti, TypeSets, Ran, Counted, Places, Folded, [Next]_vars PROVE Folded'
<1> USE DEF vars, drill, signals, observers, Running
<1>1. CASE ResolveJobs
  BY <1>1 DEF ResolveJobs, At, Leave, Folded, WorstOfAdded, WorstOfAll, Told, Ran,
         Places, Targets
<1>2. CASE NextTarget
  BY <1>2 DEF NextTarget, At, Folded, WorstOfAdded, WorstOfAll, Told, Ran, Places,
         Targets
<1>3. CASE BeginRun
  BY <1>3 DEF BeginRun, At, Folded, WorstOfAdded, WorstOfAll, Told, Ran, Places, Targets
<1>4. CASE WriteTTY
  BY <1>4 DEF WriteTTY, At, WriteFails, Leave, Folded, WorstOfAdded, WorstOfAll, Told,
         Ran, Places, Targets
<1>5. CASE AddTarget
  BY <1>5, FoldedAdd
<1>6. CASE Summarise
  BY <1>6, FoldedSummarise
<1>7. CASE WriteJSON
  BY <1>7 DEF WriteJSON, WriteDocument, At, WriteFails, Leave, DocumentCode, Folded,
         WorstOfAdded, WorstOfAll, Told, Ran, Places, Targets
<1>8. CASE WriteReportFile
  BY <1>8 DEF WriteReportFile, WriteDocument, At, WriteFails, Leave, DocumentCode,
         Folded, WorstOfAdded, WorstOfAll, Told, Ran, Places, Targets
<1>9. CASE PrintKept
  BY <1>9 DEF PrintKept, At, Tell, Folded, WorstOfAdded, WorstOfAll, Told, Ran, Places,
         Targets
<1>10. CASE Finish
  BY <1>10 DEF Finish, At, Leave, SingleCode, Folded, WorstOfAdded, WorstOfAll, Told,
         Ran, Places, Targets
<1>11. CASE DrillStep
  BY <1>11 DEF DrillStep, At, DrillAcquires, DrillMoves, Contract!Acquire,
         Contract!Release, Contract!Announce, Folded, WorstOfAdded, WorstOfAll, Told,
         Ran, Places, Targets
<1>12. CASE DrillEnds
  BY <1>12, FoldedDrillEnds
<1>13. CASE FirstSignal
  BY <1>13 DEF FirstSignal, Receive, SignalFrame, Folded, WorstOfAdded, WorstOfAll,
         Told, Ran, Places, Targets
<1>14. CASE CancelRun
  BY <1>14 DEF CancelRun, SignalFrame, Folded, WorstOfAdded, WorstOfAll, Told, Ran,
         Places, Targets
<1>15. CASE SecondSignal
  BY <1>15 DEF SecondSignal, Receive, Leave, SignalFrame, Folded, WorstOfAdded,
         WorstOfAll, Told, Ran, Places, Targets
<1>16. CASE Signal
  BY <1>16 DEF Signal, SignalFrame, Folded, WorstOfAdded, WorstOfAll, Told, Ran, Places,
         Targets
<1>17. CASE UNCHANGED vars
  BY <1>17 DEF Folded, WorstOfAdded, WorstOfAll, Told, Ran, Places, Targets
<1> QED
  BY <1>1, <1>2, <1>3, <1>4, <1>5, <1>6, <1>7, <1>8, <1>9, <1>10, <1>11, <1>12, <1>13,
         <1>14, <1>15, <1>16, <1>17
     DEF Next, Command, Drill, Interrupts, Exited

-----------------------------------------------------------------------------
(* The documents.                                                          *)

\* The targets after the n-th are NTargets - n.
LEMMA UnrunAreTheRest ==
  ASSUME NEW n \in 0..NTargets,
         \A j \in Targets : verdicts[j] = "unrun" <=> j > n
  PROVE  Cardinality({j \in Targets : verdicts[j] = "unrun"}) = NTargets - n
<1> DEFINE m == n + 1
<1>1. {j \in Targets : verdicts[j] = "unrun"} = m..NTargets
  BY ConstantsAssumption DEF Targets
<1>2. m \in Int /\ NTargets \in Int
  BY ConstantsAssumption
<1>3. (IF m > NTargets THEN 0 ELSE NTargets - m + 1) = NTargets - n
  BY ConstantsAssumption
<1> HIDE DEF m
<1>4. Cardinality(m..NTargets) = IF m > NTargets THEN 0 ELSE NTargets - m + 1
  BY <1>2, FS_Interval
<1> QED BY <1>1, <1>3, <1>4

\* When the documents are due, the report accounts for every target.
LEMMA ReportAccountsForTargets ==
  ASSUME TypeMulti, Counted, Ran, pc \in Told, flags.all
  PROVE  /\ multi.total + multi.skipped = NTargets
         /\ multi.skipped = Cardinality({j \in Targets : verdicts[j] = "unrun"})
<1>1. /\ multi.total = job /\ multi.skipped = NTargets - job
      /\ job \in 0..NTargets /\ NTargets \in Nat
  BY MultiFields DEF Counted, Jobs
<1>2. \A j \in Targets : verdicts[j] = "unrun" <=> j > job
  BY DEF Ran, Told
<1>3. Cardinality({j \in Targets : verdicts[j] = "unrun"}) = NTargets - job
  BY <1>1, <1>2, UnrunAreTheRest
<1>4. multi.total + multi.skipped = NTargets
  BY <1>1
<1> QED BY <1>1, <1>3, <1>4

\* A document that is written says so.
LEMMA DocumentIsWritten ==
  ASSUME TypeMulti, Counted, Ran, pc \in Told, UNCHANGED <<flags, multi, verdicts>>,
         pc' \in Told \cup {"left"}
  PROVE  DocumentDone'
  BY ReportAccountsForTargets DEF DocumentDone, DocumentAccountsForTargets

\* DocumentDone, step by step.
LEMMA DocumentDoneStep ==
  ASSUME TypeMulti, Counted, Ran, DocumentDone, [Next]_vars PROVE DocumentDone'
<1> USE DEF vars, drill, signals, observers, Running
<1>1. CASE ResolveJobs
  BY <1>1 DEF ResolveJobs, At, Leave, DocumentDone, Told, DocumentAccountsForTargets
<1>2. CASE NextTarget
  BY <1>2 DEF NextTarget, At, DocumentDone, Told, DocumentAccountsForTargets
<1>3. CASE BeginRun
  BY <1>3 DEF BeginRun, At, DocumentDone, Told, DocumentAccountsForTargets
<1>4. CASE WriteTTY
  BY <1>4 DEF WriteTTY, At, WriteFails, Leave, DocumentDone, Told,
         DocumentAccountsForTargets
<1>5. CASE AddTarget
  BY <1>5 DEF AddTarget, At, Tell, DocumentDone, Told, DocumentAccountsForTargets
<1>6. CASE Summarise
  BY <1>6 DEF Summarise, At, SkipRemaining, WriteFails, Leave, DocumentDone, Told,
         DocumentAccountsForTargets
<1>7. CASE WriteJSON
  BY <1>7, DocumentIsWritten DEF WriteJSON, WriteDocument, At, WriteFails, Leave, Told
<1>8. CASE WriteReportFile
  BY <1>8, DocumentIsWritten DEF WriteReportFile, WriteDocument, At, WriteFails, Leave, Told
<1>9. CASE PrintKept
  BY <1>9 DEF PrintKept, At, Tell, DocumentDone, Told, DocumentAccountsForTargets
<1>10. CASE Finish
  BY <1>10 DEF Finish, At, Leave, SingleCode, DocumentDone, Told,
         DocumentAccountsForTargets
<1>11. CASE DrillStep
  BY <1>11 DEF DrillStep, At, DrillAcquires, DrillMoves, Contract!Acquire,
         Contract!Release, Contract!Announce, DocumentDone, Told,
         DocumentAccountsForTargets
<1>12. CASE DrillEnds
  BY <1>12 DEF DrillEnds, At, Contract!Finish, Contract!End, DocumentDone, Told,
         DocumentAccountsForTargets
<1>13. CASE FirstSignal
  BY <1>13 DEF FirstSignal, Receive, SignalFrame, DocumentDone, Told,
         DocumentAccountsForTargets
<1>14. CASE CancelRun
  BY <1>14 DEF CancelRun, SignalFrame, DocumentDone, Told, DocumentAccountsForTargets
<1>15. CASE SecondSignal
  BY <1>15 DEF SecondSignal, Receive, Leave, SignalFrame, DocumentDone, Told,
         DocumentAccountsForTargets
<1>16. CASE Signal
  BY <1>16 DEF Signal, SignalFrame, DocumentDone, Told, DocumentAccountsForTargets
<1>17. CASE UNCHANGED vars
  BY <1>17 DEF DocumentDone, Told, DocumentAccountsForTargets
<1> QED
  BY <1>1, <1>2, <1>3, <1>4, <1>5, <1>6, <1>7, <1>8, <1>9, <1>10, <1>11, <1>12, <1>13,
         <1>14, <1>15, <1>16, <1>17
     DEF Next, Command, Drill, Interrupts, Exited

-----------------------------------------------------------------------------
(* Interrupts.                                                             *)

\* Ended, step by step.
LEMMA EndedStep == ASSUME Places, Ended, [Next]_vars PROVE Ended'
<1> USE DEF vars, drill, signals, observers, Running
<1>a. pc \in {"next", "add", "summary"} => flags.all
  BY DEF Places
<1>1. CASE ResolveJobs
  BY <1>1, <1>a DEF ResolveJobs, At, Leave, Ended, Reported, Told, Contract!Verdicts
<1>2. CASE NextTarget
  BY <1>2, <1>a DEF NextTarget, At, Ended, Reported, Told, Contract!Verdicts
<1>3. CASE BeginRun
  BY <1>3, <1>a DEF BeginRun, At, Ended, Reported, Told, Contract!Verdicts
<1>4. CASE WriteTTY
  BY <1>4, <1>a DEF WriteTTY, At, WriteFails, Leave, Ended, Reported, Told,
         Contract!Verdicts
<1>5. CASE AddTarget
  BY <1>5, <1>a DEF AddTarget, At, Tell, Ended, Reported, Told, Contract!Verdicts
<1>6. CASE Summarise
  BY <1>6, <1>a DEF Summarise, At, SkipRemaining, WriteFails, Leave, Ended, Reported,
         Told, Contract!Verdicts
<1>7. CASE WriteJSON
  BY <1>7, <1>a DEF WriteJSON, WriteDocument, At, WriteFails, Leave, DocumentCode,
         Ended, Reported, Told, Contract!Verdicts
<1>8. CASE WriteReportFile
  BY <1>8, <1>a DEF WriteReportFile, WriteDocument, At, WriteFails, Leave, DocumentCode,
         Ended, Reported, Told, Contract!Verdicts
<1>9. CASE PrintKept
  BY <1>9, <1>a DEF PrintKept, At, Tell, Ended, Reported, Told, Contract!Verdicts
<1>10. CASE Finish
  BY <1>10, <1>a DEF Finish, At, Leave, SingleCode, Ended, Reported, Told,
         Contract!Verdicts
<1>11. CASE DrillStep
  BY <1>11, <1>a DEF DrillStep, At, DrillAcquires, DrillMoves, Contract!Acquire,
         Contract!Release, Contract!Announce, Ended, Reported, Told, Contract!Verdicts
<1>12. CASE DrillEnds
  BY <1>12, <1>a DEF DrillEnds, At, Contract!Finish, Contract!End, Ended, Reported,
         Told, Contract!Verdicts
<1>13. CASE FirstSignal
  BY <1>13, <1>a DEF FirstSignal, Receive, SignalFrame, Ended, Reported, Told,
         Contract!Verdicts
<1>14. CASE CancelRun
  BY <1>14, <1>a DEF CancelRun, SignalFrame, Ended, Reported, Told, Contract!Verdicts
<1>15. CASE SecondSignal
  BY <1>15, <1>a DEF SecondSignal, Receive, Leave, SignalFrame, Ended, Reported, Told,
         Contract!Verdicts
<1>16. CASE Signal
  BY <1>16, <1>a DEF Signal, SignalFrame, Ended, Reported, Told, Contract!Verdicts
<1>17. CASE UNCHANGED vars
  BY <1>17 DEF Ended, Reported, Told, Contract!Verdicts
<1> QED
  BY <1>1, <1>2, <1>3, <1>4, <1>5, <1>6, <1>7, <1>8, <1>9, <1>10, <1>11, <1>12, <1>13,
         <1>14, <1>15, <1>16, <1>17
     DEF Next, Command, Drill, Interrupts, Exited

\* A target that is skipped makes the code 2.
LEMMA DeadEndsSummarise ==
  ASSUME TypeMulti, Places, Counted, DeadEnds, Summarise PROVE DeadEnds'
<1>1. flags.all /\ pc = "summary" /\ multi.total = job
  BY DEF Summarise, At, Places, Counted
<1>2. /\ UNCHANGED <<flags, job, cancelled, dead, cutShort, id, failed>>
      /\ pc' \in {"json", "left"} /\ (exit' = exit \/ exit' = 2)
  BY DEF Summarise, signals, drill, WriteFails, Leave
<1>3. job < Jobs => multi'.code = 2
  BY <1>1, MultiFields DEF Summarise, SkipRemaining, TypeMulti
<1>4. multi.code = 2 => multi'.code = 2
  BY DEF Summarise, SkipRemaining, TypeMulti
<1>5. Jobs' = Jobs /\ InterruptedIsUnproven'
  BY <1>2 DEF Jobs, DeadEnds, InterruptedIsUnproven
<1> QED BY <1>1, <1>2, <1>3, <1>4, <1>5 DEF DeadEnds, Told

\* A command that was cut short leaves with 2.
LEMMA DeadEndsFinish ==
  ASSUME TypeMulti, Places, DeadEnds, Finish PROVE DeadEnds'
<1>1. /\ pc = "verdict" /\ pc' = "left"
      /\ exit' = (IF flags.all THEN multi.code ELSE SingleCode)
      /\ UNCHANGED <<flags, job, multi, cancelled, dead, cutShort, id, failed>>
  BY DEF Finish, At, Leave, signals, drill, observers
<1>2. CASE flags.all
  BY <1>1, <1>2 DEF DeadEnds, Told, Jobs, InterruptedIsUnproven
<1>3. CASE ~flags.all
  <2>1. job = Jobs /\ job = 1
    BY <1>1, <1>3 DEF Places, Told, Jobs
  <2>2. cutShort => failed
    BY <1>1, <2>1 DEF DeadEnds, Told
  <2>3. cutShort => exit' = 2
    BY <1>1, <1>3, <2>2 DEF SingleCode
  <2>4. Jobs' = Jobs /\ InterruptedIsUnproven'
    BY <1>1, <2>3 DEF Jobs, InterruptedIsUnproven
  <2> QED BY <1>1, <2>4 DEF DeadEnds, Told
<1> QED BY <1>2, <1>3

\* DeadEnds, step by step.
LEMMA DeadEndsStep ==
  ASSUME TypeMulti, Places, Ended, Counted, DeadEnds, [Next]_vars PROVE DeadEnds'
<1> USE DEF vars, drill, signals, observers, Running
<1>1. CASE ResolveJobs
  BY <1>1 DEF ResolveJobs, At, Leave, DeadEnds, Told, TypeMulti, Jobs,
         InterruptedIsUnproven, ExitOf, Worse, Ended
<1>2. CASE NextTarget
  BY <1>2 DEF NextTarget, At, DeadEnds, Told, TypeMulti, Jobs, InterruptedIsUnproven,
         ExitOf, Worse, Ended
<1>3. CASE BeginRun
  BY <1>3 DEF BeginRun, At, DeadEnds, Told, TypeMulti, Jobs, InterruptedIsUnproven,
         ExitOf, Worse, Ended
<1>4. CASE WriteTTY
  BY <1>4 DEF WriteTTY, At, WriteFails, Leave, DeadEnds, Told, TypeMulti, Jobs,
         InterruptedIsUnproven, ExitOf, Worse, Ended
<1>5. CASE AddTarget
  BY <1>5 DEF AddTarget, At, Tell, DeadEnds, Told, TypeMulti, Jobs,
         InterruptedIsUnproven, ExitOf, Worse, Ended
<1>6. CASE Summarise
  BY <1>6, DeadEndsSummarise
<1>7. CASE WriteJSON
  BY <1>7 DEF WriteJSON, WriteDocument, At, WriteFails, Leave, DocumentCode, DeadEnds,
         Told, TypeMulti, Jobs, InterruptedIsUnproven, ExitOf, Worse, Ended
<1>8. CASE WriteReportFile
  BY <1>8 DEF WriteReportFile, WriteDocument, At, WriteFails, Leave, DocumentCode,
         DeadEnds, Told, TypeMulti, Jobs, InterruptedIsUnproven, ExitOf, Worse, Ended
<1>9. CASE PrintKept
  BY <1>9 DEF PrintKept, At, Tell, DeadEnds, Told, TypeMulti, Jobs,
         InterruptedIsUnproven, ExitOf, Worse, Ended
<1>10. CASE Finish
  BY <1>10, DeadEndsFinish
<1>11. CASE DrillStep
  BY <1>11 DEF DrillStep, At, DrillAcquires, DrillMoves, Contract!Acquire,
         Contract!Release, Contract!Announce, DeadEnds, Told, TypeMulti, Jobs,
         InterruptedIsUnproven, ExitOf, Worse, Ended
<1>12. CASE DrillEnds
  BY <1>12 DEF DrillEnds, At, Contract!Finish, Contract!End, DeadEnds, Told, TypeMulti,
         Jobs, InterruptedIsUnproven, ExitOf, Worse, Ended
<1>13. CASE FirstSignal
  BY <1>13 DEF FirstSignal, Receive, SignalFrame, DeadEnds, Told, TypeMulti, Jobs,
         InterruptedIsUnproven, ExitOf, Worse, Ended
<1>14. CASE CancelRun
  BY <1>14 DEF CancelRun, SignalFrame, DeadEnds, Told, TypeMulti, Jobs,
         InterruptedIsUnproven, ExitOf, Worse, Ended
<1>15. CASE SecondSignal
  BY <1>15 DEF SecondSignal, Receive, Leave, SignalFrame, DeadEnds, Told, TypeMulti,
         Jobs, InterruptedIsUnproven, ExitOf, Worse, Ended
<1>16. CASE Signal
  BY <1>16 DEF Signal, SignalFrame, DeadEnds, Told, TypeMulti, Jobs,
         InterruptedIsUnproven, ExitOf, Worse, Ended
<1>17. CASE UNCHANGED vars
  BY <1>17 DEF DeadEnds, Told, TypeMulti, Jobs, InterruptedIsUnproven, ExitOf, Worse,
         Ended
<1> QED
  BY <1>1, <1>2, <1>3, <1>4, <1>5, <1>6, <1>7, <1>8, <1>9, <1>10, <1>11, <1>12, <1>13,
         <1>14, <1>15, <1>16, <1>17
     DEF Next, Command, Drill, Interrupts, Exited

-----------------------------------------------------------------------------
(* What drills left.                                                       *)

\* Kept, step by step.
LEMMA KeptStep ==
  ASSUME TypeMulti, Ended, Places, Kept, [Next]_vars PROVE Kept'
<1> USE DEF vars, drill, signals, observers, Running
<1>1. CASE ResolveJobs
  BY <1>1 DEF ResolveJobs, At, Leave, Kept, Places, Ended, Reported, TypeMulti, Told,
         Worse, ExitOf, NothingLeftSilently
<1>2. CASE NextTarget
  BY <1>2 DEF NextTarget, At, Kept, Places, Ended, Reported, TypeMulti, Told, Worse,
         ExitOf, NothingLeftSilently
<1>3. CASE BeginRun
  BY <1>3 DEF BeginRun, At, Kept, Places, Ended, Reported, TypeMulti, Told, Worse,
         ExitOf, NothingLeftSilently
<1>4. CASE WriteTTY
  BY <1>4 DEF WriteTTY, At, WriteFails, Leave, Kept, Places, Ended, Reported, TypeMulti,
         Told, Worse, ExitOf, NothingLeftSilently
<1>5. CASE AddTarget
  BY <1>5 DEF AddTarget, At, Tell, Kept, Places, Ended, Reported, TypeMulti, Told,
         Worse, ExitOf, NothingLeftSilently
<1>6. CASE Summarise
  BY <1>6 DEF Summarise, At, SkipRemaining, WriteFails, Leave, Kept, Places, Ended,
         Reported, TypeMulti, Told, Worse, ExitOf, NothingLeftSilently
<1>7. CASE WriteJSON
  BY <1>7 DEF WriteJSON, WriteDocument, At, WriteFails, Leave, DocumentCode, Kept,
         Places, Ended, Reported, TypeMulti, Told, Worse, ExitOf, NothingLeftSilently
<1>8. CASE WriteReportFile
  BY <1>8 DEF WriteReportFile, WriteDocument, At, WriteFails, Leave, DocumentCode, Kept,
         Places, Ended, Reported, TypeMulti, Told, Worse, ExitOf, NothingLeftSilently
<1>9. CASE PrintKept
  BY <1>9 DEF PrintKept, At, Tell, Kept, Places, Ended, Reported, TypeMulti, Told,
         Worse, ExitOf, NothingLeftSilently
<1>10. CASE Finish
  BY <1>10 DEF Finish, At, Leave, SingleCode, Kept, Places, Ended, Reported, TypeMulti,
         Told, Worse, ExitOf, NothingLeftSilently
<1>11. CASE DrillStep
  BY <1>11 DEF DrillStep, At, DrillAcquires, DrillMoves, Contract!Acquire,
         Contract!Release, Contract!Announce, Kept, Places, Ended, Reported, TypeMulti,
         Told, Worse, ExitOf, NothingLeftSilently
<1>12. CASE DrillEnds
  BY <1>12 DEF DrillEnds, At, Contract!Finish, Contract!End, Kept, Places, Ended,
         Reported, TypeMulti, Told, Worse, ExitOf, NothingLeftSilently
<1>13. CASE FirstSignal
  BY <1>13 DEF FirstSignal, Receive, SignalFrame, Kept, Places, Ended, Reported,
         TypeMulti, Told, Worse, ExitOf, NothingLeftSilently
<1>14. CASE CancelRun
  BY <1>14 DEF CancelRun, SignalFrame, Kept, Places, Ended, Reported, TypeMulti, Told,
         Worse, ExitOf, NothingLeftSilently
<1>15. CASE SecondSignal
  BY <1>15 DEF SecondSignal, Receive, Leave, SignalFrame, Kept, Places, Ended, Reported,
         TypeMulti, Told, Worse, ExitOf, NothingLeftSilently
<1>16. CASE Signal
  BY <1>16 DEF Signal, SignalFrame, Kept, Places, Ended, Reported, TypeMulti, Told,
         Worse, ExitOf, NothingLeftSilently
<1>17. CASE UNCHANGED vars
  BY <1>17 DEF Kept, Places, Ended, Reported, TypeMulti, Told, Worse, ExitOf,
         NothingLeftSilently
<1> QED
  BY <1>1, <1>2, <1>3, <1>4, <1>5, <1>6, <1>7, <1>8, <1>9, <1>10, <1>11, <1>12, <1>13,
         <1>14, <1>15, <1>16, <1>17
     DEF Next, Command, Drill, Interrupts, Exited

-----------------------------------------------------------------------------
(* The theorems.                                                           *)

\* The command starts in it.
LEMMA InvInit == Init => IInv
<1> SUFFICES ASSUME Init PROVE IInv
  OBVIOUS
<1>1. Jobs \in Nat \ {0}
  BY ConstantsAssumption DEF Jobs
<1>2. Places /\ Counted
  BY <1>1 DEF Init, Places, Counted, Told
<1>3. Ran
  BY DEF Init, Ran, Targets
<1>4. Folded
  BY DEF Init, Folded, WorstOfAdded, Told
<1>5. DocumentDone /\ Ended
  BY DEF Init, DocumentDone, DocumentAccountsForTargets, Ended, Reported, Told,
         Contract!Init
<1>6. DeadEnds /\ Kept
  BY DEF Init, DeadEnds, InterruptedIsUnproven, Kept, NothingLeftSilently, Reported, Told
<1> QED BY <1>2, <1>3, <1>4, <1>5, <1>6, TypeInit DEF IInv

\* And every step keeps it.
LEMMA InvNext == IInv /\ [Next]_vars => IInv'
<1> SUFFICES ASSUME IInv, [Next]_vars PROVE IInv'
  OBVIOUS
<1>1. /\ TypeMulti /\ TypeSteps /\ TypeDrill /\ TypeFlags /\ TypeSignals /\ TypeSets
      /\ Places /\ Counted /\ Ran /\ Folded /\ DocumentDone /\ Ended /\ DeadEnds /\ Kept
  BY TypeParts DEF IInv
<1>2. TypeMulti' /\ TypeSteps' /\ TypeDrill' /\ TypeFlags' /\ TypeSignals' /\ TypeSets'
  BY <1>1, TypeMultiStep, TypeStepsStep, TypeDrillStep, TypeFlagsStep, TypeSignalsStep,
     TypeSetsStep
<1>3. TypeOK'
  BY <1>2 DEF TypeOK, TypeMulti, TypeSteps, TypeDrill, TypeFlags, TypeSignals, TypeSets
<1>4. Places' /\ Counted' /\ Ran' /\ Folded'
  BY <1>1, PlacesStep, CountedStep, RanStep, FoldedStep
<1>5. DocumentDone' /\ Ended' /\ DeadEnds' /\ Kept'
  BY <1>1, DocumentDoneStep, EndedStep, DeadEndsStep, KeptStep
<1> QED BY <1>3, <1>4, <1>5 DEF IInv

\* So it holds for ever.
LEMMA InvariantHolds == Spec => []IInv
<1>1. Init => IInv
  BY InvInit
<1>2. IInv /\ [Next]_vars => IInv'
  BY InvNext
<1> QED BY <1>1, <1>2, PTL DEF Spec

\* The variables keep to their sets.
THEOREM TypeCorrect == Spec => []TypeOK
<1>1. IInv => TypeOK
  BY DEF IInv
<1> QED BY <1>1, InvariantHolds, PTL

\* A sweep leaves with the worst of its targets, one that was not drilled
\* counting as an error.
THEOREM SweepIsTheWorst == Spec => []SweepTellsTheWorst
<1>1. ASSUME IInv, flags.all, exit \in 0..2, ~ioFailed
      PROVE  /\ \A j \in Targets : ExitOf(verdicts[j]) <= exit
             /\ \E j \in Targets : ExitOf(verdicts[j]) = exit
  <2>1. CASE WorstOfAll /\ multi.code = exit
    BY <2>1 DEF WorstOfAll
  <2>2. CASE exit = 2 /\ \A j \in Targets : verdicts[j] = "unrun"
    <3>1. 1 \in Targets
      BY ConstantsAssumption DEF Targets
    <3> QED BY <2>2, <3>1, ExitsAreCodes
  <2> QED BY <1>1, <2>1, <2>2 DEF IInv, Folded
<1>2. IInv => SweepTellsTheWorst
  BY <1>1 DEF SweepTellsTheWorst
<1> QED BY <1>2, InvariantHolds, PTL

\* The document of a sweep accounts for every target, also for those that an
\* interrupt kept from being drilled.
THEOREM DocumentIsComplete == Spec => []DocumentAccountsForTargets
<1>1. IInv => DocumentAccountsForTargets
  BY DEF IInv, DocumentDone
<1> QED BY <1>1, InvariantHolds, PTL

\* An interrupt that left a target undrilled never ends in 0 or 1.
THEOREM InterruptIsUnproven == Spec => []InterruptedIsUnproven
<1>1. IInv => InterruptedIsUnproven
  BY DEF IInv, DeadEnds
<1> QED BY <1>1, InvariantHolds, PTL

\* Exit codes 0 and 1 leave nothing on disk that was not told of.
THEOREM NothingIsLeftSilently == Spec => []NothingLeftSilently
<1>1. IInv => NothingLeftSilently
  BY DEF IInv, Kept
<1> QED BY <1>1, InvariantHolds, PTL

\* After an interrupt at most the target whose turn it was is begun: a drill
\* that started under a cancelled context is the last.
THEOREM InterruptStopsTheSweep == Spec => OneMoreAtMost
<1>1. ASSUME IInv, [Next]_vars, dead PROVE job' = job
  <2> USE DEF vars
  <2>1. pc # "begin"
    BY <1>1 DEF IInv, DeadEnds
  <2>2. ~BeginRun
    BY <2>1 DEF BeginRun, At
  <2>3. CASE ResolveJobs \/ NextTarget \/ WriteTTY \/ AddTarget \/ Summarise \/ WriteJSON
             \/ WriteReportFile \/ PrintKept \/ Finish
    BY <2>3 DEF ResolveJobs, NextTarget, WriteTTY, AddTarget, Summarise, WriteJSON,
                WriteReportFile, WriteDocument, PrintKept, Finish
  <2>4. CASE DrillStep \/ DrillEnds \/ FirstSignal \/ CancelRun \/ SecondSignal \/ Signal
    BY <2>4 DEF DrillStep, DrillEnds, FirstSignal, CancelRun, SecondSignal, Signal,
                SignalFrame
  <2>5. CASE UNCHANGED vars
    BY <2>5
  <2> QED BY <1>1, <2>2, <2>3, <2>4, <2>5
          DEF Next, Command, Drill, Interrupts, Exited
<1>2. IInv /\ [Next]_vars => [dead => job' = job]_vars
  BY <1>1
<1> QED BY <1>2, InvariantHolds, PTL DEF Spec, OneMoreAtMost
=============================================================================
