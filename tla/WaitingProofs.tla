---------------------------- MODULE WaitingProofs ----------------------------
(***************************************************************************)
(* Theorems about Waiting, for all budgets, timeouts, intervals and        *)
(* probes, and whatever the services answer.                               *)
(***************************************************************************)
EXTENDS Waiting, TLAPS

Probe == [kind : {"http", "tcp", "exec"}, timeout : Nat, interval : Nat]

\* What ConstantsAssumption says, constant by constant.
LEMMA LimitsAreNumbers ==
  /\ LoadTimeout \in Nat /\ ReadyBudget \in Nat /\ NotRunningLimit \in Nat
  /\ Slack \in Nat /\ MaxLinger \in Nat
  /\ DefaultLoad \in Nat /\ DefaultTimeout \in Nat /\ DefaultInterval \in Nat
  /\ PgInterval \in Nat /\ Slice \in Nat /\ Slice > 0
  BY ConstantsAssumption

\* Every probe of the list is one.
LEMMA ProbesAreProbes == \A k \in 1..Len(Probes) : Probes[k] \in Probe
<1>1. Probes \in Seq(Probe)
  BY ConstantsAssumption DEF Probe
<1> QED BY <1>1

\* Every duration that is waited for is one, and lasts.
LEMMA DurationsAreDurations ==
  /\ LoadLasts \in Nat
  /\ \A p \in Probe : ProbeLasts(p) \in Nat /\ IntervalOf(p) \in Nat
  BY ConstantsAssumption DEF LoadLasts, ProbeLasts, IntervalOf, OrDefault, Probe

\* What is known of a docker command that has ended.
LEMMA EndingsAreBounded ==
  ASSUME now \in Nat, NEW limit \in Int, NEW e \in Endings(limit)
  PROVE  /\ e.at \in Nat /\ e.answered \in BOOLEAN
         /\ now <= e.at
         /\ e.at <= limit + MaxLinger \/ e.at = now
         /\ e.answered => now < limit /\ e.at <= limit
<1>1. CASE now >= limit
  <2>1. e = [at |-> now, answered |-> FALSE]
    BY <1>1 DEF Endings
  <2> QED BY <2>1
<1>2. CASE now < limit
  <2>1. CASE e \in {[at |-> now + d, answered |-> TRUE] : d \in {d \in Delays : now + d <= limit}}
    <3>1. PICK d \in Delays : now + d <= limit /\ e = [at |-> now + d, answered |-> TRUE]
      BY <2>1
    <3> QED BY <1>2, <3>1, ConstantsAssumption
  <2>2. CASE e \in {[at |-> limit + l, answered |-> FALSE] : l \in 0..MaxLinger}
    <3>1. PICK l \in 0..MaxLinger : e = [at |-> limit + l, answered |-> FALSE]
      BY <2>2
    <3> QED BY <1>2, <3>1, ConstantsAssumption
  <2> QED BY <1>2, <2>1, <2>2 DEF Endings
<1> QED BY <1>1, <1>2, ConstantsAssumption

\* The lesser of two instants is one of them, and after neither.
LEMMA LeastOfTwo ==
  ASSUME NEW a \in Int, NEW b \in Int
  PROVE  /\ Least(a, b) \in Int /\ Least(a, b) <= a /\ Least(a, b) <= b
         /\ Least(a, b) = a \/ Least(a, b) = b
         /\ a \in Nat /\ b \in Nat => Least(a, b) \in Nat
  BY DEF Least

\* What is a number stays one: the part of TypeOK that arithmetic needs.
Numbers ==
  /\ now \in Nat /\ over \in Nat /\ present \in Nat
  /\ loadBy \in Nat /\ readyBy \in Nat /\ deadline \in Nat

\* And the rest of it.
Places ==
  /\ notRunning \in 0..NotRunningLimit + 1
  /\ pc \in Ends \cup {"open", "ask", "pause", "load", "up", "next", "attempt", "retry"}
  /\ probe \in 1..Len(Probes) + 1
  /\ results \in Seq([ok : BOOLEAN, asked : Nat])

\* TypeOK is these two.
LEMMA TypeIsBoth == TypeOK <=> Numbers /\ Places
  BY DEF TypeOK, Numbers, Places

\* For the lemmas that ask for integers.
LEMMA TimesAreIntegers ==
  Numbers => /\ now \in Int /\ over \in Int /\ present \in Int
             /\ loadBy \in Int /\ readyBy \in Int /\ deadline \in Int
  BY DEF Numbers

\* The context of an attempt ends with the run, and not long after the probe's
\* own timeout.
LEMMA AttemptIsBounded ==
  ASSUME Numbers, NEW p
  PROVE  /\ AttemptBy(p) \in Int
         /\ AttemptBy(p) <= over /\ AttemptBy(p) <= deadline + Slack
<1> DEFINE per == Least(deadline - now, Slice)
           slack == IF p.kind = "exec" THEN 0 ELSE Slack
<1>1. /\ now \in Int /\ over \in Int /\ deadline \in Int
      /\ deadline - now \in Int /\ Slice \in Int /\ Slack \in Nat
  BY LimitsAreNumbers DEF Numbers
<1>2. per \in Int /\ per <= deadline - now
  BY <1>1, LeastOfTwo
<1>3. slack \in Int /\ slack <= Slack
  BY <1>1
<1>4. AttemptBy(p) = Least(over, now + per + slack)
  BY DEF AttemptBy
<1> HIDE DEF per, slack
<1>5. now + per + slack \in Int /\ now + per + slack <= deadline + Slack
  BY <1>1, <1>2, <1>3
<1> QED BY <1>1, <1>4, <1>5, LeastOfTwo

-----------------------------------------------------------------------------
(* Type correctness.                                                       *)

\* The waiting starts within its types.
LEMMA TypeInit == Init => TypeOK
  BY ConstantsAssumption DEF Init, TypeOK

\* The context of the load ends at some time.
LEMMA TypeOpenDump == ASSUME TypeOK, OpenDump PROVE TypeOK'
<1>1. now + LoadLasts \in Nat /\ over \in Nat
  BY DurationsAreDurations, TypeIsBoth DEF Numbers
<1>2. loadBy' = Least(now + LoadLasts, over)
  BY DEF OpenDump
<1>3. loadBy' \in Nat
  <2>1. now + LoadLasts \in Int /\ over \in Int
    BY <1>1
  <2> QED BY <1>1, <1>2, <2>1, LeastOfTwo
<1>4. /\ pc' \in {"ask", "load failed"}
      /\ UNCHANGED <<now, over, notRunning, readyBy, probe, deadline, results, present>>
  BY DEF OpenDump
<1> QED BY <1>3, <1>4 DEF TypeOK, Ends

\* The count may pass its limit once, by one.
LEMMA CountFits ==
  /\ 0 \in 0..NotRunningLimit + 1
  /\ \A n \in 0..NotRunningLimit + 1 : n <= NotRunningLimit => n + 1 \in 0..NotRunningLimit + 1
  BY LimitsAreNumbers

\* An answer moves time on and counts, or starts the count anew.
LEMMA TypeAskPostgres == ASSUME TypeOK, AskPostgres, notRunning <= NotRunningLimit PROVE TypeOK'
<1>1. PICK e \in Endings(loadBy), answer \in {"ready", "not running", "other"} :
        /\ now' = e.at
        /\ notRunning' = CountAnswer(answer)
        /\ present' = (IF answer = "not running" THEN present ELSE e.at)
        /\ pc' = CASE answer = "ready" -> "load"
                   [] notRunning' > NotRunningLimit -> "absent"
                   [] OTHER -> "pause"
  BY DEF AskPostgres
<1>2. now \in Nat /\ present \in Nat /\ loadBy \in Int
  <2>1. Numbers
    BY TypeIsBoth
  <2>2. now \in Nat /\ present \in Nat
    BY <2>1 DEF Numbers
  <2> QED BY <2>1, <2>2, TimesAreIntegers
<1>3. e.at \in Nat
  BY <1>2, EndingsAreBounded
<1>4. now' \in Nat /\ present' \in Nat
  BY <1>1, <1>2, <1>3
<1>5. notRunning' \in 0..NotRunningLimit + 1
  <2>1. notRunning \in 0..NotRunningLimit + 1
    BY DEF TypeOK
  <2>2. notRunning' = notRunning + 1 \/ notRunning' = 0
    BY <1>1 DEF CountAnswer
  <2> QED BY <2>1, <2>2, CountFits
<1>6. pc' \in {"load", "absent", "pause"}
  BY <1>1
<1>7. UNCHANGED <<over, loadBy, readyBy, probe, deadline, results>>
  BY DEF AskPostgres
<1> QED BY <1>4, <1>5, <1>6, <1>7 DEF TypeOK, Ends

\* The pause ends after the interval or with the load's context.
LEMMA TypePause == ASSUME TypeOK, Pause PROVE TypeOK'
<1>1. now \in Nat /\ loadBy \in Nat /\ PgInterval \in Nat
  BY LimitsAreNumbers, TypeIsBoth DEF Numbers
<1>2. now' = now + PgInterval \/ now' = Later(now, loadBy)
  BY DEF Pause
<1>3. now' \in Nat
  BY <1>1, <1>2 DEF Later
<1>4. /\ pc' \in {"ask", "never accepted"}
      /\ UNCHANGED <<over, loadBy, notRunning, readyBy, probe, deadline, results, present>>
  BY DEF Pause
<1> QED BY <1>3, <1>4 DEF TypeOK, Ends

\* The load ends at some time, one way or the other.
LEMMA TypeLoadDump == ASSUME TypeOK, LoadDump PROVE TypeOK'
<1>1. PICK e \in Endings(loadBy) :
        now' = e.at /\ pc' \in IF e.answered THEN {"up", "load failed"} ELSE {"load failed"}
  BY DEF LoadDump
<1>2. now \in Nat /\ loadBy \in Int
  BY TypeIsBoth DEF Numbers
<1>3. now' \in Nat
  BY <1>1, <1>2, EndingsAreBounded
<1>4. /\ notRunning' = 0 /\ present' = 0
      /\ UNCHANGED <<over, loadBy, readyBy, probe, deadline, results>>
  BY DEF LoadDump
<1>5. notRunning' \in 0..NotRunningLimit + 1 /\ present' \in Nat
  BY <1>4, LimitsAreNumbers
<1>6. pc' \in {"up", "load failed"}
  BY <1>1
<1> QED BY <1>3, <1>4, <1>5, <1>6 DEF TypeOK, Ends

\* The budget runs from the end of the second Up.
LEMMA TypeStartApplication == ASSUME TypeOK, StartApplication PROVE TypeOK'
<1>1. PICK e \in Endings(over) :
        now' = e.at /\ pc' \in IF e.answered THEN {"next", "not started"} ELSE {"not started"}
  BY DEF StartApplication
<1>2. now \in Nat /\ over \in Int
  BY TypeIsBoth DEF Numbers
<1>3. now' \in Nat
  BY <1>1, <1>2, EndingsAreBounded
<1>4. /\ readyBy' = now' + ReadyBudget
      /\ UNCHANGED <<over, loadBy, notRunning, probe, deadline, results, present>>
  BY DEF StartApplication
<1>5. readyBy' \in Nat
  <2>1. \A n \in Nat : n + ReadyBudget \in Nat
    BY LimitsAreNumbers
  <2> QED BY <1>3, <1>4, <2>1
<1>6. pc' \in {"next", "not started"}
  BY <1>1
<1> QED BY <1>3, <1>4, <1>5, <1>6 DEF TypeOK, Ends

\* A result is one more, of a probe that was asked at some time.
LEMMA TypeAppend ==
  ASSUME Places, NEW ok \in BOOLEAN, NEW asked \in Nat
  PROVE  Append(results, [ok |-> ok, asked |-> asked]) \in Seq([ok : BOOLEAN, asked : Nat])
  BY DEF Places

\* The deadline of a probe is a time within the budget.
LEMMA OwnDeadlineLiesWithin ==
  ASSUME Numbers, NEW p \in Probe, now < readyBy
  PROVE  OwnDeadline(p) \in Nat /\ OwnDeadline(p) <= readyBy
<1> DEFINE left == readyBy - now
           lasts == ProbeLasts(p)
<1>1. now \in Nat /\ readyBy \in Nat
  BY DEF Numbers
<1>2. lasts \in Nat /\ left \in Nat /\ lasts \in Int /\ left \in Int
  BY <1>1, DurationsAreDurations
<1>3. OwnDeadline(p) = now + Least(lasts, left)
  BY DEF OwnDeadline
<1>4. Least(lasts, left) \in Nat /\ Least(lasts, left) <= left
  <2> HIDE DEF lasts, left
  <2> QED BY <1>2, LeastOfTwo
<1> HIDE DEF lasts
<1> QED BY <1>1, <1>3, <1>4

\* The next probe gets a deadline, or there is none, or no time for it.
LEMMA TypeNextProbe == ASSUME TypeOK, NextProbe PROVE TypeOK'
<1>0. probe \in 1..Len(Probes) + 1 /\ Len(Probes) \in Nat /\ Numbers /\ Places
  BY ConstantsAssumption, TypeIsBoth DEF TypeOK
<1>1. /\ UNCHANGED <<now, over, loadBy, notRunning, readyBy, probe, present>>
      /\ \/ pc' = "ready" /\ UNCHANGED <<deadline, results>>
         \/ Fail(now) /\ UNCHANGED deadline
         \/ /\ probe <= Len(Probes) /\ now < readyBy
            /\ deadline' = OwnDeadline(Probes[probe]) /\ pc' = "attempt"
            /\ UNCHANGED results
  BY DEF NextProbe
<1>2. CASE pc' = "ready" /\ UNCHANGED <<deadline, results>>
  BY <1>1, <1>2 DEF TypeOK, Ends
<1>3. CASE Fail(now) /\ UNCHANGED deadline
  <2>1. now \in Nat
    BY <1>0 DEF Numbers
  <2>2. results' \in Seq([ok : BOOLEAN, asked : Nat]) /\ pc' = "not ready"
    BY <1>0, <1>3, <2>1, TypeAppend DEF Fail
  <2> QED BY <1>1, <1>3, <2>2 DEF TypeOK, Ends
<1>4. CASE /\ probe <= Len(Probes) /\ now < readyBy
           /\ deadline' = OwnDeadline(Probes[probe]) /\ pc' = "attempt"
           /\ UNCHANGED results
  <2>1. Probes[probe] \in Probe
    BY <1>0, <1>4, ProbesAreProbes
  <2>2. deadline' \in Nat
    BY <1>0, <1>4, <2>1, OwnDeadlineLiesWithin
  <2> QED BY <1>1, <1>4, <2>2 DEF TypeOK
<1> QED BY <1>1, <1>2, <1>3, <1>4

\* An attempt ends at some time, and an answer leads to the next probe.
LEMMA TypeAttempt == ASSUME TypeOK, probe \in 1..Len(Probes), Attempt PROVE TypeOK'
<1>0. probe + 1 \in 1..Len(Probes) + 1 /\ Numbers /\ Places
  BY ConstantsAssumption, TypeIsBoth
<1>1. UNCHANGED <<over, loadBy, notRunning, readyBy, deadline, present>>
  BY DEF Attempt
<1>2. CASE pc' = "retry" /\ UNCHANGED <<now, probe, results>>
  BY <1>1, <1>2 DEF TypeOK
<1>3. CASE \E e \in Endings(AttemptBy(Probes[probe])) :
             /\ now' = e.at
             /\ \/ /\ e.answered
                   /\ results' = Append(results, [ok |-> TRUE, asked |-> now])
                   /\ probe' = probe + 1
                   /\ pc' = "next"
                \/ /\ pc' = "retry"
                   /\ UNCHANGED <<probe, results>>
  <2>1. AttemptBy(Probes[probe]) \in Int /\ now \in Nat
    BY <1>0, AttemptIsBounded DEF Numbers
  <2>2. now' \in Nat
    BY <1>3, <2>1, EndingsAreBounded
  <2>3. Append(results, [ok |-> TRUE, asked |-> now]) \in Seq([ok : BOOLEAN, asked : Nat])
    BY <1>0, <2>1, TypeAppend
  <2>4. results' \in Seq([ok : BOOLEAN, asked : Nat]) /\ probe' \in 1..Len(Probes) + 1
    BY <1>0, <1>3, <2>3 DEF Places
  <2>5. pc' \in {"next", "retry"}
    BY <1>3
  <2> QED BY <1>1, <2>2, <2>4, <2>5 DEF TypeOK
<1> QED BY <1>2, <1>3 DEF Attempt

\* A retry waits for one interval, or ends the sequence.
LEMMA TypeRetry == ASSUME TypeOK, probe \in 1..Len(Probes), Retry PROVE TypeOK'
<1>0. IntervalOf(Probes[probe]) \in Nat /\ now \in Nat /\ over \in Nat /\ Places
  BY ProbesAreProbes, DurationsAreDurations, TypeIsBoth DEF Numbers
<1>1. /\ UNCHANGED <<over, loadBy, notRunning, readyBy, probe, deadline, present>>
      /\ \/ Fail(now) /\ UNCHANGED now
         \/ now' = now + IntervalOf(Probes[probe]) /\ pc' = "attempt" /\ UNCHANGED results
         \/ now' = over /\ Fail(over)
  BY DEF Retry
<1>2. now' \in Nat
  BY <1>0, <1>1
<1>3. results' \in Seq([ok : BOOLEAN, asked : Nat])
  BY <1>0, <1>1, TypeAppend DEF Fail, Places
<1>4. pc' \in {"not ready", "attempt"}
  BY <1>1 DEF Fail
<1> QED BY <1>1, <1>2, <1>3, <1>4 DEF TypeOK, Ends

-----------------------------------------------------------------------------
(* The inductive invariant.                                                *)

\* Nothing was asked of a probe before the application has started.
BeforeProbing == pc \notin Probing => probe = 1 /\ results = <<>>

\* The time at which nothing was done yet is zero, and a probe's deadline lies
\* within the ready budget.
DeadlineInv ==
  /\ pc = "open" => now = 0
  /\ pc \in {"attempt", "retry"} => probe \in 1..Len(Probes) /\ deadline <= readyBy

\* The results so far are those of the probes before this one, and each of
\* them answered.
AllAnswered ==
  /\ Len(results) = probe - 1
  /\ \A i \in DOMAIN results : results[i].ok /\ results[i].asked <= now
ResultsInv == pc \in {"next", "attempt", "retry", "ready"} => AllAnswered

\* So many answers "is not running" in a row took so long.
AbsenceInv ==
  /\ pc \in {"open", "ask", "pause"} => present <= now /\ notRunning <= NotRunningLimit
  /\ pc \in {"open", "ask"} => now - present >= notRunning * PgInterval
  /\ pc = "pause" => now - present + PgInterval >= notRunning * PgInterval

IInv ==
  /\ TypeOK /\ BudgetsHold /\ VerdictIsEarned
  /\ BeforeProbing /\ DeadlineInv /\ ResultsInv /\ AbsenceInv

\* Nothing has happened at the start.
LEMMA InitInv == Init => IInv
<1> SUFFICES ASSUME Init PROVE IInv
  OBVIOUS
<1>1. TypeOK
  BY TypeInit
<1>2. BudgetsHold /\ BeforeProbing /\ DeadlineInv /\ ResultsInv
  BY DEF Init, BudgetsHold, BeforeProbing, DeadlineInv, ResultsInv, AllAnswered,
         Loading, Probing
<1>3. VerdictIsEarned
  BY DEF Init, VerdictIsEarned, ReadyIsWitnessed, AbsenceIsLasting, NoOtherAttemptFits
<1>4. AbsenceInv
  <2>1. 0 <= NotRunningLimit /\ 0 - 0 >= 0 * PgInterval
    BY LimitsAreNumbers
  <2> QED BY <2>1 DEF Init, AbsenceInv
<1> QED BY <1>1, <1>2, <1>3, <1>4 DEF IInv

-----------------------------------------------------------------------------
(* The types, along the steps.                                             *)

\* The type lemmas together: the two that need to know which probe, or how
\* many answers, get it from the invariant.
LEMMA TypeNext == ASSUME IInv, [Next]_vars PROVE TypeOK'
<1>1. TypeOK /\ DeadlineInv /\ AbsenceInv
  BY DEF IInv
<1>2. ASSUME AskPostgres PROVE TypeOK'
  <2>1. notRunning <= NotRunningLimit
    BY <1>1, <1>2 DEF AbsenceInv, AskPostgres
  <2> QED BY <1>1, <1>2, <2>1, TypeAskPostgres
<1>3. ASSUME Attempt \/ Retry PROVE TypeOK'
  <2>1. probe \in 1..Len(Probes)
    BY <1>1, <1>3 DEF DeadlineInv, Attempt, Retry
  <2> QED BY <1>1, <1>3, <2>1, TypeAttempt, TypeRetry
<1>4. ASSUME UNCHANGED vars PROVE TypeOK'
  BY <1>1, <1>4 DEF vars, TypeOK
<1> QED BY <1>1, <1>2, <1>3, <1>4, TypeOpenDump, TypePause, TypeLoadDump,
           TypeStartApplication, TypeNextProbe DEF Next, Ended

\* Where nothing changes, nothing changes.
LEMMA StutterInv == ASSUME IInv, UNCHANGED vars PROVE IInv'
<1>1. TypeOK' /\ BeforeProbing' /\ DeadlineInv' /\ ResultsInv' /\ AbsenceInv'
  BY DEF IInv, vars, TypeOK, BeforeProbing, DeadlineInv, ResultsInv, AllAnswered, AbsenceInv
<1>2. BudgetsHold'
  BY DEF IInv, vars, BudgetsHold
<1>3. ReadyIsWitnessed'
  BY DEF IInv, vars, VerdictIsEarned, ReadyIsWitnessed
<1>4. AbsenceIsLasting' /\ NoOtherAttemptFits'
  BY DEF IInv, vars, VerdictIsEarned, AbsenceIsLasting, NoOtherAttemptFits
<1> QED BY <1>1, <1>2, <1>3, <1>4 DEF IInv, VerdictIsEarned

-----------------------------------------------------------------------------
(* The budgets, along the steps.                                           *)

\* Within the least of two bounds is within both of them.
LEMMA WithinBoth ==
  ASSUME NEW t \in Int, NEW a \in Int, NEW b \in Int, NEW c \in Int
  PROVE  t <= Least(a, b) + c <=> t <= a + c /\ t <= b + c
  BY DEF Least

\* BudgetsHold, bound by bound.
LEMMA BudgetsAreBounds ==
  ASSUME Numbers
  PROVE  BudgetsHold <=>
           /\ pc \in Loading => now <= loadBy + MaxLinger
           /\ pc \in Probing => now <= readyBy + Slack + MaxLinger /\ now <= over + MaxLinger
<1>1. now \in Int /\ readyBy + Slack \in Int /\ over \in Int /\ MaxLinger \in Int
  BY LimitsAreNumbers DEF Numbers
<1>2. now <= Least(readyBy + Slack, over) + MaxLinger
        <=> now <= readyBy + Slack + MaxLinger /\ now <= over + MaxLinger
  BY <1>1, WithinBoth
<1> QED BY <1>2 DEF BudgetsHold

\* The same of the next state.
LEMMA BudgetsPrimed ==
  ASSUME Numbers'
  PROVE  BudgetsHold' <=>
           /\ pc' \in Loading => now' <= loadBy' + MaxLinger
           /\ pc' \in Probing => now' <= readyBy' + Slack + MaxLinger /\ now' <= over' + MaxLinger
<1>1. /\ now' \in Nat /\ over' \in Nat /\ readyBy' \in Nat
  BY DEF Numbers
<1>2. \A t, r, o \in Nat : t <= Least(r + Slack, o) + MaxLinger
        <=> t <= r + Slack + MaxLinger /\ t <= o + MaxLinger
  <2>1. \A r \in Nat : r + Slack \in Int
    BY LimitsAreNumbers
  <2>2. MaxLinger \in Int
    BY LimitsAreNumbers
  <2>3. \A t \in Nat : t \in Int
    OBVIOUS
  <2> QED BY <2>1, <2>2, <2>3, WithinBoth
<1> QED BY <1>1, <1>2 DEF BudgetsHold, Loading, Probing
\* What a pause, and what an interval that fits, make of a bound.
LEMMA PauseArithmetic ==
  ASSUME NEW n \in Nat, NEW l \in Nat
  PROVE  /\ 0 <= l + MaxLinger
         /\ n + PgInterval <= l => n + PgInterval <= l + MaxLinger
         /\ n <= l + MaxLinger => Later(n, l) <= l + MaxLinger
         /\ l <= Later(n, l)
  BY LimitsAreNumbers DEF Later

\* An interval that fits before the deadline, in full or cut short by the end
\* of the run.
LEMMA RetryArithmetic ==
  ASSUME NEW n \in Nat, NEW i \in Nat, NEW d \in Nat, NEW r \in Nat, NEW o \in Nat,
         d <= r, ~(n + i > d)
  PROVE  /\ n + i <= o => n + i <= o + MaxLinger /\ n + i <= r + Slack + MaxLinger
         /\ n + i >= o => o <= o + MaxLinger /\ o <= r + Slack + MaxLinger
  BY LimitsAreNumbers

\* A wait that ends is still within the bound it was within, or ended at the
\* latest a moment after it.
LEMMA BudgetsNext == ASSUME IInv, Next PROVE BudgetsHold'
<1>1. TypeOK /\ Numbers /\ Numbers' /\ DeadlineInv
  BY TypeNext, TypeIsBoth DEF IInv, TypeOK, Numbers
<1>2. /\ now \in Int /\ over \in Int /\ loadBy \in Int /\ readyBy \in Int /\ deadline \in Int
      /\ now' \in Int /\ over' \in Int /\ loadBy' \in Int /\ readyBy' \in Int
      /\ MaxLinger \in Nat /\ Slack \in Nat
  BY <1>1, LimitsAreNumbers DEF Numbers
<1>3. /\ pc \in Loading => now <= loadBy + MaxLinger
      /\ pc \in Probing => now <= readyBy + Slack + MaxLinger /\ now <= over + MaxLinger
  BY <1>1, BudgetsAreBounds DEF IInv
<1> DEFINE Goal == /\ pc' \in Loading => now' <= loadBy' + MaxLinger
                   /\ pc' \in Probing => /\ now' <= readyBy' + Slack + MaxLinger
                                         /\ now' <= over' + MaxLinger
<1> SUFFICES Goal
  BY <1>1, BudgetsPrimed
<1>4. CASE OpenDump
  <2>1. pc' \notin Probing /\ now' = 0 /\ loadBy' \in Nat
    BY <1>1, <1>4 DEF OpenDump, DeadlineInv, Numbers, Probing
  <2>2. 0 <= loadBy' + MaxLinger
    BY <2>1, PauseArithmetic
  <2> QED BY <2>1, <2>2
<1>5. CASE AskPostgres
  <2>1. PICK e \in Endings(loadBy) : now' = e.at
    BY <1>5 DEF AskPostgres
  <2>2. e.at \in Nat /\ (e.at <= loadBy + MaxLinger \/ e.at = now)
    BY <1>1, <1>2, EndingsAreBounded DEF Numbers
  <2>3. pc \in Loading /\ loadBy' = loadBy /\ pc' \in {"load", "absent", "pause"}
    BY <1>5 DEF AskPostgres, Loading
  <2>4. now' <= loadBy' + MaxLinger
    BY <1>3, <2>1, <2>2, <2>3
  <2> QED BY <2>3, <2>4 DEF Probing
<1>6. CASE Pause
  <2>1. pc \in Loading /\ loadBy' = loadBy /\ pc' \in {"ask", "never accepted"}
    BY <1>6 DEF Pause, Loading
  <2>2. \/ now + PgInterval <= loadBy /\ now' = now + PgInterval
        \/ now' = Later(now, loadBy)
    BY <1>6 DEF Pause
  <2>3. now' <= loadBy + MaxLinger
    BY <1>1, <1>3, <2>1, <2>2, PauseArithmetic DEF Numbers
  <2> QED BY <2>1, <2>3 DEF Probing
<1>7. CASE LoadDump
  <2>1. PICK e \in Endings(loadBy) : now' = e.at
    BY <1>7 DEF LoadDump
  <2>2. e.at \in Nat /\ (e.at <= loadBy + MaxLinger \/ e.at = now)
    BY <1>1, <1>2, EndingsAreBounded DEF Numbers
  <2>3. pc \in Loading /\ loadBy' = loadBy /\ pc' \in {"up", "load failed"}
    BY <1>7 DEF LoadDump, Loading
  <2>4. now' <= loadBy' + MaxLinger
    BY <1>3, <2>1, <2>2, <2>3
  <2> QED BY <2>3, <2>4 DEF Probing
<1>8. CASE StartApplication
  <2>1. PICK e \in Endings(over) :
          now' = e.at /\ pc' \in IF e.answered THEN {"next", "not started"} ELSE {"not started"}
    BY <1>8 DEF StartApplication
  <2>2. /\ e.at \in Nat /\ (e.answered => e.at <= over)
    BY <1>1, <1>2, EndingsAreBounded DEF Numbers
  <2>3. over' = over /\ readyBy' = now' + ReadyBudget /\ ReadyBudget \in Nat
    BY <1>8, LimitsAreNumbers DEF StartApplication
  <2>4. CASE pc' = "not started"
    BY <2>4 DEF Loading, Probing
  <2>5. CASE pc' = "next" /\ e.answered
    <3>1. now' <= over
      BY <2>1, <2>2, <2>5
    <3>2. \A t \in Nat : t <= over => t <= over + MaxLinger /\ t <= t + ReadyBudget + Slack + MaxLinger
      BY <1>2, <2>3
    <3>3. now' <= over + MaxLinger /\ now' <= now' + ReadyBudget + Slack + MaxLinger
      BY <2>1, <2>2, <3>1, <3>2
    <3> QED BY <2>3, <2>5, <3>3 DEF Loading
  <2> QED BY <2>1, <2>4, <2>5
<1>9. CASE NextProbe
  <2>1. /\ pc \in Probing /\ now' = now /\ readyBy' = readyBy /\ over' = over
        /\ pc' \in {"ready", "not ready", "attempt"}
    BY <1>9 DEF NextProbe, Fail, Probing
  <2> QED BY <1>3, <2>1 DEF Loading
<1>10. CASE Attempt
  <2>1. /\ pc \in Probing /\ readyBy' = readyBy /\ over' = over /\ pc' \in {"retry", "next"}
        /\ deadline <= readyBy
        /\ \/ now' = now
           \/ \E e \in Endings(AttemptBy(Probes[probe])) : now' = e.at
    BY <1>1, <1>10 DEF Attempt, Probing, DeadlineInv
  <2>2. AttemptBy(Probes[probe]) \in Int
        /\ AttemptBy(Probes[probe]) <= over /\ AttemptBy(Probes[probe]) <= deadline + Slack
    BY <1>1, AttemptIsBounded
  <2>3. now' = now \/ now' <= AttemptBy(Probes[probe]) + MaxLinger
    BY <1>1, <2>1, <2>2, EndingsAreBounded DEF Numbers
  <2>4. \A t, a \in Int : a <= over /\ a <= deadline + Slack /\ t <= a + MaxLinger
          => t <= over + MaxLinger /\ t <= readyBy + Slack + MaxLinger
    BY <1>2, <2>1
  <2>5. now' <= over + MaxLinger /\ now' <= readyBy + Slack + MaxLinger
    BY <1>2, <1>3, <2>1, <2>2, <2>3, <2>4
  <2> QED BY <2>1, <2>5 DEF Loading
<1>11. CASE Retry
  <2>1. /\ pc \in Probing /\ readyBy' = readyBy /\ over' = over /\ pc' \in {"not ready", "attempt"}
        /\ deadline <= readyBy /\ probe \in 1..Len(Probes)
        /\ \/ now' = now
           \/ ~NoTimeForAnother(Probes[probe]) /\ now + IntervalOf(Probes[probe]) <= over
              /\ now' = now + IntervalOf(Probes[probe])
           \/ ~NoTimeForAnother(Probes[probe]) /\ now + IntervalOf(Probes[probe]) >= over
              /\ now' = over
    BY <1>1, <1>11 DEF Retry, Fail, Probing, DeadlineInv
  <2>2. IntervalOf(Probes[probe]) \in Nat
    BY <2>1, ProbesAreProbes, DurationsAreDurations
  <2>3. now \in Nat /\ deadline \in Nat /\ readyBy \in Nat /\ over \in Nat
    BY <1>1 DEF Numbers
  <2>4. ~(now + IntervalOf(Probes[probe]) > deadline) =>
          /\ now + IntervalOf(Probes[probe]) <= over =>
               /\ now + IntervalOf(Probes[probe]) <= over + MaxLinger
               /\ now + IntervalOf(Probes[probe]) <= readyBy + Slack + MaxLinger
          /\ now + IntervalOf(Probes[probe]) >= over =>
               over <= over + MaxLinger /\ over <= readyBy + Slack + MaxLinger
    BY <2>1, <2>2, <2>3, RetryArithmetic
  <2>5. now' <= over + MaxLinger /\ now' <= readyBy + Slack + MaxLinger
    BY <1>3, <2>1, <2>4 DEF NoTimeForAnother
  <2> QED BY <2>1, <2>5 DEF Loading
<1>12. CASE Ended
  <2>1. now' = now /\ pc' = pc /\ loadBy' = loadBy /\ readyBy' = readyBy /\ over' = over
    BY <1>12 DEF Ended, vars
  <2> QED BY <1>3, <2>1
<1> QED BY <1>4, <1>5, <1>6, <1>7, <1>8, <1>9, <1>10, <1>11, <1>12 DEF Next
-----------------------------------------------------------------------------
(* The absence of the database, along the steps.                           *)

\* One more interval.
LEMMA OneMoreTimes ==
  ASSUME NEW k \in Nat
  PROVE  k * PgInterval \in Nat /\ (k + 1) * PgInterval = k * PgInterval + PgInterval
  BY LimitsAreNumbers

\* Any answer of another kind starts the absence anew.
LEMMA JustPresent == \A t \in Nat : t <= t /\ t - t + PgInterval >= 0 * PgInterval
  BY LimitsAreNumbers

\* What an answer at t, and a pause, make of the time since p.
LEMMA AbsenceArithmetic ==
  ASSUME NEW n \in Nat, NEW p \in Nat, NEW t \in Nat, NEW k \in Nat, p <= n, n <= t
  PROVE  /\ n - p >= k * PgInterval => /\ t - p + PgInterval >= (k + 1) * PgInterval
                                       /\ t - p >= k * PgInterval
         /\ n - p + PgInterval >= k * PgInterval => (n + PgInterval) - p >= k * PgInterval
         /\ p <= t /\ p <= n + PgInterval
<1>1. PICK m \in Nat : m = k * PgInterval /\ (k + 1) * PgInterval = m + PgInterval
  BY OneMoreTimes
<1>2. PgInterval \in Nat
  BY LimitsAreNumbers
<1>3. n - p >= m => t - p + PgInterval >= m + PgInterval /\ t - p >= m
  BY <1>2
<1>4. n - p + PgInterval >= m => (n + PgInterval) - p >= m
  BY <1>2
<1>5. p <= t /\ p <= n + PgInterval
  BY <1>2
<1> QED BY <1>1, <1>3, <1>4, <1>5

\* A count that passes the limit was at the limit.
LEMMA LimitPassed ==
  ASSUME NEW k \in Nat, k <= NotRunningLimit
  PROVE  /\ k + 1 > NotRunningLimit => k = NotRunningLimit
         /\ ~(k + 1 > NotRunningLimit) => k + 1 <= NotRunningLimit
         /\ ~(0 > NotRunningLimit) /\ 0 <= NotRunningLimit
  BY LimitsAreNumbers

\* The absence is about the load's wait alone.
LEMMA NothingIsClaimed ==
  pc' \notin {"open", "ask", "pause", "absent", "never accepted"} => AbsenceInv' /\ AbsenceIsLasting'
  BY DEF AbsenceInv, AbsenceIsLasting

\* The count goes up by one an interval: when it has passed its limit, that
\* many intervals have gone by since the last answer of another kind.
LEMMA AbsenceNext == ASSUME IInv, Next PROVE AbsenceInv' /\ AbsenceIsLasting'
<1>1. Numbers /\ AbsenceInv /\ AbsenceIsLasting /\ notRunning \in Nat
  <2>1. TypeOK /\ AbsenceInv /\ AbsenceIsLasting
    BY DEF IInv, VerdictIsEarned
  <2>2. notRunning \in 0..NotRunningLimit + 1
    BY <2>1 DEF TypeOK
  <2>3. \A k \in 0..NotRunningLimit + 1 : k \in Nat
    OBVIOUS
  <2> QED BY <2>1, <2>2, <2>3, TypeIsBoth
<1>2. now \in Nat /\ present \in Nat /\ loadBy \in Nat
  BY <1>1 DEF Numbers
<1>3. CASE OpenDump
  <2>1. /\ pc = "open" /\ pc' \in {"ask", "load failed"}
        /\ now' = now /\ present' = present /\ notRunning' = notRunning
    BY <1>3 DEF OpenDump
  <2> QED BY <1>1, <2>1 DEF AbsenceInv, AbsenceIsLasting
<1>4. CASE AskPostgres
  <2>1. PICK e \in Endings(loadBy), answer \in {"ready", "not running", "other"} :
          /\ now' = e.at
          /\ notRunning' = CountAnswer(answer)
          /\ present' = (IF answer = "not running" THEN present ELSE e.at)
          /\ pc' = CASE answer = "ready" -> "load"
                     [] notRunning' > NotRunningLimit -> "absent"
                     [] OTHER -> "pause"
    BY <1>4 DEF AskPostgres
  <2>2. e.at \in Nat /\ now <= e.at
    <3>1. loadBy \in Int
      BY <1>1, TimesAreIntegers
    <3> QED BY <1>2, <3>1, EndingsAreBounded
  <2>3. /\ present <= now /\ notRunning <= NotRunningLimit
        /\ now - present >= notRunning * PgInterval
    BY <1>1, <1>4 DEF AskPostgres, AbsenceInv
  <2>4. CASE answer = "ready"
    <3>1. notRunning' = 0
      BY <2>1, <2>4 DEF CountAnswer
    <3>2. ~(notRunning' > NotRunningLimit)
      BY <1>1, <2>3, <3>1, LimitPassed
    <3>3. pc' \notin {"open", "ask", "pause", "absent", "never accepted"}
      BY <2>1, <2>4, <3>2
    <3> QED BY <3>3, NothingIsClaimed
  <2>5. CASE answer = "other"
    <3>1. /\ notRunning' = 0 /\ present' = now' /\ now' \in Nat
          /\ pc' = IF 0 > NotRunningLimit THEN "absent" ELSE "pause"
      BY <2>1, <2>2, <2>5 DEF CountAnswer
    <3>2. pc' = "pause" /\ notRunning' <= NotRunningLimit
      BY <1>1, <2>3, <3>1, LimitPassed
    <3>3. /\ present' <= now'
          /\ now' - present' + PgInterval >= notRunning' * PgInterval
      BY <3>1, JustPresent
    <3> QED BY <3>2, <3>3 DEF AbsenceInv, AbsenceIsLasting
  <2>6. CASE answer = "not running"
    <3>1. /\ notRunning' = notRunning + 1 /\ present' = present
          /\ pc' = IF notRunning + 1 > NotRunningLimit THEN "absent" ELSE "pause"
      BY <2>1, <2>6 DEF CountAnswer
    <3>2. /\ e.at - present + PgInterval >= (notRunning + 1) * PgInterval
          /\ e.at - present >= notRunning * PgInterval
          /\ present <= e.at
      BY <1>1, <1>2, <2>2, <2>3, AbsenceArithmetic
    <3>3. CASE notRunning + 1 > NotRunningLimit
      <4>1. pc' = "absent" /\ now' - present' >= NotRunningLimit * PgInterval
        BY <1>1, <2>1, <2>3, <3>1, <3>2, <3>3, LimitPassed
      <4> QED BY <4>1 DEF AbsenceInv, AbsenceIsLasting
    <3>4. CASE ~(notRunning + 1 > NotRunningLimit)
      <4>1. /\ pc' = "pause" /\ present' <= now' /\ notRunning' <= NotRunningLimit
            /\ now' - present' + PgInterval >= notRunning' * PgInterval
        BY <1>1, <2>1, <2>3, <3>1, <3>2, <3>4, LimitPassed
      <4> QED BY <4>1 DEF AbsenceInv, AbsenceIsLasting
    <3> QED BY <3>3, <3>4
  <2> QED BY <2>4, <2>5, <2>6
<1>5. CASE Pause
  <2>1. /\ pc = "pause" /\ present' = present /\ notRunning' = notRunning /\ loadBy' = loadBy
        /\ \/ now' = now + PgInterval /\ pc' = "ask"
           \/ now' = Later(now, loadBy) /\ pc' = "never accepted"
    BY <1>5 DEF Pause
  <2>2. /\ present <= now /\ notRunning <= NotRunningLimit
        /\ now - present + PgInterval >= notRunning * PgInterval
    BY <1>1, <2>1 DEF AbsenceInv
  <2>3. CASE now' = now + PgInterval /\ pc' = "ask"
    <3>1. now <= now
      BY <1>2
    <3>2. /\ present <= now + PgInterval
          /\ (now + PgInterval) - present >= notRunning * PgInterval
      BY <1>1, <1>2, <2>2, <3>1, AbsenceArithmetic
    <3> QED BY <2>1, <2>2, <2>3, <3>2 DEF AbsenceInv, AbsenceIsLasting
  <2>4. CASE now' = Later(now, loadBy) /\ pc' = "never accepted"
    <3>1. loadBy <= Later(now, loadBy)
      BY <1>2, PauseArithmetic
    <3> QED BY <2>1, <2>4, <3>1 DEF AbsenceInv, AbsenceIsLasting
  <2> QED BY <2>1, <2>3, <2>4
<1>6. CASE LoadDump \/ StartApplication \/ NextProbe \/ Attempt \/ Retry
  <2>1. pc' \notin {"open", "ask", "pause", "absent", "never accepted"}
    BY <1>6 DEF LoadDump, StartApplication, NextProbe, Attempt, Retry, Fail
  <2> QED BY <2>1, NothingIsClaimed
<1>7. CASE Ended
  <2>1. UNCHANGED vars
    BY <1>7 DEF Ended
  <2> QED BY <2>1, StutterInv DEF IInv, VerdictIsEarned
<1> QED BY <1>3, <1>4, <1>5, <1>6, <1>7 DEF Next
-----------------------------------------------------------------------------
(* The probes, along the steps.                                            *)

\* One probe after the other is asked, each under a deadline that lies within
\* the budget.
LEMMA ProbingNext == ASSUME IInv, Next PROVE BeforeProbing' /\ DeadlineInv'
<1>1. Numbers /\ BeforeProbing /\ DeadlineInv /\ probe \in 1..Len(Probes) + 1
  BY TypeIsBoth DEF IInv, Places
<1>2. CASE OpenDump \/ AskPostgres \/ Pause \/ LoadDump
  <2>1. /\ pc \in {"open", "ask", "pause", "load"}
        /\ pc' \notin {"open", "attempt", "retry"}
        /\ UNCHANGED <<probe, results>>
    BY <1>2 DEF OpenDump, AskPostgres, Pause, LoadDump
  <2> QED BY <1>1, <2>1 DEF BeforeProbing, DeadlineInv, Probing
<1>3. CASE StartApplication
  <2>1. pc = "up" /\ pc' \in {"next", "not started"} /\ UNCHANGED <<probe, results>>
    BY <1>3 DEF StartApplication
  <2> QED BY <1>1, <2>1 DEF BeforeProbing, DeadlineInv, Probing
<1>4. CASE NextProbe
  <2>1. /\ UNCHANGED <<probe, readyBy>>
        /\ \/ pc' \in {"ready", "not ready"}
           \/ /\ pc' = "attempt" /\ probe <= Len(Probes) /\ now < readyBy
              /\ deadline' = OwnDeadline(Probes[probe])
    BY <1>4 DEF NextProbe, Fail
  <2>2. CASE pc' \in {"ready", "not ready"}
    BY <2>2 DEF BeforeProbing, DeadlineInv, Probing
  <2>3. CASE /\ pc' = "attempt" /\ probe <= Len(Probes) /\ now < readyBy
             /\ deadline' = OwnDeadline(Probes[probe])
    <3>1. probe \in 1..Len(Probes)
      BY <1>1, <2>3, ConstantsAssumption
    <3>2. OwnDeadline(Probes[probe]) <= readyBy
      BY <1>1, <2>3, <3>1, ProbesAreProbes, OwnDeadlineLiesWithin
    <3> QED BY <2>1, <2>3, <3>1, <3>2 DEF BeforeProbing, DeadlineInv, Probing
  <2> QED BY <2>1, <2>2, <2>3
<1>5. CASE Attempt
  <2>1. /\ pc = "attempt" /\ UNCHANGED <<deadline, readyBy>>
        /\ \/ pc' = "retry" /\ probe' = probe
           \/ pc' = "next"
    BY <1>5 DEF Attempt
  <2> QED BY <1>1, <2>1 DEF BeforeProbing, DeadlineInv, Probing
<1>6. CASE Retry
  <2>1. /\ pc = "retry" /\ UNCHANGED <<deadline, readyBy, probe>>
        /\ pc' \in {"not ready", "attempt"}
    BY <1>6 DEF Retry, Fail
  <2> QED BY <1>1, <2>1 DEF BeforeProbing, DeadlineInv, Probing
<1>7. CASE Ended
  <2>1. UNCHANGED vars
    BY <1>7 DEF Ended
  <2> QED BY <2>1, StutterInv DEF IInv
<1> QED BY <1>2, <1>3, <1>4, <1>5, <1>6, <1>7 DEF Next
-----------------------------------------------------------------------------
(* The results, along the steps.                                           *)

\* What appending does to a sequence.
LEMMA AppendOne ==
  ASSUME NEW S, NEW s \in Seq(S), NEW x \in S
  PROVE  /\ Len(s) \in Nat /\ Len(Append(s, x)) = Len(s) + 1
         /\ DOMAIN s = 1..Len(s) /\ DOMAIN Append(s, x) = 1..Len(s) + 1
         /\ \A i \in 1..Len(s) : Append(s, x)[i] = s[i] /\ s[i] \in S
         /\ Append(s, x)[Len(s) + 1] = x
  OBVIOUS

\* An index of a longer sequence is one of the shorter, or the last.
LEMMA IndexSplit ==
  ASSUME NEW n \in Nat
  PROVE  /\ n + 1 \in 1..n + 1
         /\ \A i \in 1..n + 1 : i \in 1..n \/ i = n + 1
         /\ \A i \in 1..n + 1 : i > 1 => i - 1 \in 1..n
         /\ ~(n + 1 > 1) <=> n = 0
  OBVIOUS

\* ReadyIsWitnessed, of the results alone and of how the waiting ended.
InOrder ==
  \A i \in DOMAIN results :
    results[i].ok => /\ results[i].asked < Least(readyBy, over)
                     /\ i > 1 => results[i-1].ok /\ results[i-1].asked <= results[i].asked
EndsWell ==
  /\ pc = "ready" => Len(results) = Len(Probes) /\ \A i \in DOMAIN results : results[i].ok
  /\ pc = "not ready" => Len(results) = probe /\ ~results[probe].ok

\* ReadyIsWitnessed is these two, now and in the next state.
LEMMA WitnessedIsBoth == /\ ReadyIsWitnessed <=> InOrder /\ EndsWell
                         /\ ReadyIsWitnessed' <=> InOrder' /\ EndsWell'
  BY DEF ReadyIsWitnessed, InOrder, EndsWell

\* Before the lesser of two is before both.
LEMMA UnderBoth ==
  ASSUME NEW t \in Nat, NEW a \in Nat, NEW b \in Nat
  PROVE  t < Least(a, b) <=> t < a /\ t < b
  BY DEF Least

\* The two ways in which the results change.
LEMMA OneMoreAnswer ==
  ASSUME Numbers, Places, InOrder, AllAnswered, probe \in 1..Len(Probes),
         now < readyBy, now < over,
         readyBy' = readyBy, over' = over, now' \in Nat, now <= now',
         results' = Append(results, [ok |-> TRUE, asked |-> now]),
         probe' = probe + 1
  PROVE  AllAnswered' /\ InOrder'
<1> DEFINE R == [ok : BOOLEAN, asked : Nat]
           new == [ok |-> TRUE, asked |-> now]
<1>1. results \in Seq(R) /\ now \in Nat /\ new \in R /\ readyBy \in Nat /\ over \in Nat
  BY DEF Numbers, Places
<1>2. /\ Len(results) \in Nat /\ Len(results') = Len(results) + 1
      /\ DOMAIN results = 1..Len(results) /\ DOMAIN results' = 1..Len(results) + 1
      /\ \A i \in 1..Len(results) : results'[i] = results[i]
      /\ results'[Len(results) + 1] = new
  BY <1>1, AppendOne
<1>3. \A i \in 1..Len(results) + 1 : i \in 1..Len(results) \/ i = Len(results) + 1
  BY <1>2, IndexSplit
<1>4. \A i \in 1..Len(results) :
        results[i].asked \in Nat /\ results[i].ok /\ results[i].asked <= now
  <2>1. \A i \in 1..Len(results) : results[i] \in R
    BY <1>1, AppendOne
  <2>2. \A r \in R : r.asked \in Nat
    OBVIOUS
  <2>3. \A i \in 1..Len(results) : results[i].ok /\ results[i].asked <= now
    BY <1>2 DEF AllAnswered
  <2> QED BY <2>1, <2>2, <2>3
<1>5. now < Least(readyBy, over)
  BY <1>1, UnderBoth
<1>6. AllAnswered'
  <2>1. Len(results') = probe' - 1
    <3>1. Len(results) = probe - 1 /\ probe \in Nat
      BY ConstantsAssumption DEF AllAnswered
    <3> QED BY <1>2, <3>1
  <2>2. ASSUME NEW i \in DOMAIN results' PROVE results'[i].ok /\ results'[i].asked <= now'
    <3>1. CASE i \in 1..Len(results)
      <4>1. results'[i] = results[i] /\ results[i].ok /\ results[i].asked <= now /\ results[i].asked \in Nat
        BY <1>2, <1>4, <3>1
      <4>2. \A a \in Nat : a <= now => a <= now'
        BY <1>1
      <4> QED BY <4>1, <4>2
    <3>2. CASE i = Len(results) + 1
      BY <1>2, <3>2
    <3> QED BY <1>2, <1>3, <2>2, <3>1, <3>2
  <2> QED BY <2>1, <2>2 DEF AllAnswered
<1>7. ASSUME NEW i \in DOMAIN results', results'[i].ok
      PROVE  /\ results'[i].asked < Least(readyBy', over')
             /\ i > 1 => results'[i-1].ok /\ results'[i-1].asked <= results'[i].asked
  <2>1. CASE i \in 1..Len(results)
    <3>1. results'[i] = results[i] /\ results[i].ok
      BY <1>2, <1>4, <2>1
    <3>2. i > 1 => i - 1 \in 1..Len(results)
      BY <1>2, <2>1
    <3>3. i > 1 => results'[i-1] = results[i-1]
      BY <1>2, <3>2
    <3>4. /\ results[i].asked < Least(readyBy, over)
          /\ i > 1 => results[i-1].ok /\ results[i-1].asked <= results[i].asked
      BY <1>2, <2>1, <3>1 DEF InOrder
    <3> QED BY <3>1, <3>3, <3>4
  <2>2. CASE i = Len(results) + 1
    <3>1. results'[i].asked = now
      BY <1>2, <2>2
    <3>2. i > 1 => i - 1 \in 1..Len(results)
      BY <1>2, <2>2
    <3>3. i > 1 => results'[i-1].ok /\ results'[i-1].asked <= now
      BY <1>2, <1>4, <3>2
    <3> QED BY <1>5, <3>1, <3>3
  <2> QED BY <1>2, <1>3, <1>7, <2>1, <2>2
<1> QED BY <1>6, <1>7 DEF InOrder
\* A probe was asked at some time.
LEMMA ResultsAreResults ==
  Places => \A i \in DOMAIN results : results[i].asked \in Nat
<1> DEFINE R == [ok : BOOLEAN, asked : Nat]
<1>1. Places => results \in Seq(R)
  BY DEF Places
<1>2. \A r \in R : r.asked \in Nat
  OBVIOUS
<1>3. results \in Seq(R) => \A i \in DOMAIN results : results[i] \in R
  <2> HIDE DEF R
  <2> QED OBVIOUS
<1> QED BY <1>1, <1>2, <1>3

\* A failure is the last result, and leaves those before as they were.
LEMMA OneMoreFailure ==
  ASSUME Numbers, Places, InOrder, AllAnswered, probe \in 1..Len(Probes),
         readyBy' = readyBy, over' = over, probe' = probe,
         NEW asked \in Nat, Fail(asked)
  PROVE  InOrder' /\ EndsWell'
<1> DEFINE R == [ok : BOOLEAN, asked : Nat]
           new == [ok |-> FALSE, asked |-> asked]
<1>1. results \in Seq(R) /\ new \in R /\ probe \in Nat
  BY ConstantsAssumption DEF Places
<1>2. results' = Append(results, new) /\ pc' = "not ready"
  BY DEF Fail
<1>3. /\ Len(results) \in Nat /\ Len(results') = Len(results) + 1
      /\ DOMAIN results = 1..Len(results) /\ DOMAIN results' = 1..Len(results) + 1
      /\ \A i \in 1..Len(results) : results'[i] = results[i]
      /\ results'[Len(results) + 1] = new
  <2>1. results \in Seq(R) /\ new \in R
    BY <1>1
  <2>2. results' = Append(results, new)
    BY <1>2
  <2> HIDE DEF R, new
  <2>3. /\ Len(results) \in Nat /\ Len(Append(results, new)) = Len(results) + 1
        /\ DOMAIN results = 1..Len(results)
        /\ DOMAIN Append(results, new) = 1..Len(results) + 1
        /\ \A i \in 1..Len(results) : Append(results, new)[i] = results[i]
        /\ Append(results, new)[Len(results) + 1] = new
    BY <2>1, AppendOne
  <2> QED BY <2>2, <2>3
<1>4. Len(results) + 1 = probe
  BY <1>1, <1>3 DEF AllAnswered
<1>5. EndsWell'
  <2>1. Len(results') = probe'
    BY <1>3, <1>4
  <2>2. results'[probe'] = new
    BY <1>3, <1>4
  <2>3. ~results'[probe'].ok
    BY <2>2
  <2> QED BY <1>2, <2>1, <2>3 DEF EndsWell
<1>6. ASSUME NEW i \in DOMAIN results', results'[i].ok
      PROVE  /\ results'[i].asked < Least(readyBy', over')
             /\ i > 1 => results'[i-1].ok /\ results'[i-1].asked <= results'[i].asked
  <2>1. i \in 1..Len(results)
    <3>1. i \in 1..Len(results) \/ i = Len(results) + 1
      BY <1>3, <1>6, IndexSplit
    <3>2. i # Len(results) + 1
      BY <1>3, <1>6
    <3> QED BY <3>1, <3>2
  <2>2. results'[i] = results[i]
    BY <1>3, <2>1
  <2>3. i > 1 => results'[i-1] = results[i-1]
    <3>1. i > 1 => i - 1 \in 1..Len(results)
      BY <1>3, <2>1
    <3> QED BY <1>3, <3>1
  <2>4. /\ results[i].asked < Least(readyBy, over)
        /\ i > 1 => results[i-1].ok /\ results[i-1].asked <= results[i].asked
    BY <1>3, <1>6, <2>1, <2>2 DEF InOrder
  <2> QED BY <2>2, <2>3, <2>4
<1> QED BY <1>5, <1>6 DEF InOrder

\* Time goes by, and nothing else happens.
LEMMA SameResults ==
  ASSUME Numbers, Places, AllAnswered, now' \in Nat, now <= now',
         UNCHANGED <<probe, results>>
  PROVE  AllAnswered'
<1>1. \A i \in DOMAIN results : results[i].asked \in Nat
  BY ResultsAreResults
<1>2. \A a \in Nat : a <= now => a <= now'
  BY DEF Numbers
<1> QED BY <1>1, <1>2 DEF AllAnswered

\* Every result is one more answer after those before it, and the last one of
\* a sequence that failed is the only failure.
LEMMA ResultsNext == ASSUME IInv, Next PROVE ResultsInv' /\ ReadyIsWitnessed'
<1>1. /\ Numbers /\ Places /\ Numbers' /\ InOrder /\ EndsWell
      /\ BeforeProbing /\ DeadlineInv /\ ResultsInv
  BY TypeNext, TypeIsBoth, WitnessedIsBoth DEF IInv, VerdictIsEarned, TypeOK, Numbers
<1>2. now \in Nat /\ now' \in Nat /\ readyBy \in Nat /\ over \in Nat /\ deadline \in Nat
      /\ probe \in 1..Len(Probes) + 1
  BY <1>1 DEF Numbers, Places
<1> SUFFICES ResultsInv' /\ InOrder' /\ EndsWell'
  BY WitnessedIsBoth
<1>3. CASE OpenDump \/ AskPostgres \/ Pause \/ LoadDump \/ StartApplication
  <2>1. /\ pc \in {"open", "ask", "pause", "load", "up"} /\ pc' \notin {"ready", "not ready"}
        /\ UNCHANGED <<probe, results>>
    BY <1>3 DEF OpenDump, AskPostgres, Pause, LoadDump, StartApplication
  <2>2. probe' = 1 /\ results' = <<>>
    BY <1>1, <2>1 DEF BeforeProbing, Probing
  <2>3. AllAnswered' /\ InOrder'
    BY <2>2 DEF AllAnswered, InOrder
  <2> QED BY <2>1, <2>3 DEF ResultsInv, EndsWell
<1>4. CASE NextProbe
  <2>1. /\ pc = "next" /\ UNCHANGED <<now, over, readyBy, probe>>
        /\ \/ probe > Len(Probes) /\ pc' = "ready" /\ UNCHANGED results
           \/ probe <= Len(Probes) /\ Fail(now)
           \/ pc' = "attempt" /\ UNCHANGED results
    BY <1>4 DEF NextProbe
  <2>2. AllAnswered
    BY <1>1, <2>1 DEF ResultsInv
  <2>3. CASE probe > Len(Probes) /\ pc' = "ready" /\ UNCHANGED results
    <3>1. probe = Len(Probes) + 1
      BY <1>2, <2>3, ConstantsAssumption
    <3>2. AllAnswered' /\ InOrder'
      BY <1>1, <2>1, <2>2, <2>3 DEF AllAnswered, InOrder
    <3>3. Len(results) = Len(Probes) /\ \A i \in DOMAIN results : results[i].ok
      BY <2>2, <3>1, ConstantsAssumption DEF AllAnswered
    <3> QED BY <2>3, <3>2, <3>3 DEF ResultsInv, EndsWell
  <2>4. CASE probe <= Len(Probes) /\ Fail(now)
    <3>1. probe \in 1..Len(Probes)
      BY <1>2, <2>4, ConstantsAssumption
    <3>2. InOrder' /\ EndsWell'
      BY <1>1, <1>2, <2>1, <2>2, <2>4, <3>1, OneMoreFailure
    <3> QED BY <2>4, <3>2 DEF ResultsInv, Fail
  <2>5. CASE pc' = "attempt" /\ UNCHANGED results
    BY <1>1, <2>1, <2>2, <2>5 DEF ResultsInv, AllAnswered, InOrder, EndsWell
  <2> QED BY <2>1, <2>3, <2>4, <2>5
<1>5. CASE Attempt
  <2>1. /\ pc = "attempt" /\ UNCHANGED <<over, readyBy>>
        /\ \/ pc' = "retry" /\ UNCHANGED <<now, probe, results>>
           \/ /\ now < deadline
              /\ \E e \in Endings(AttemptBy(Probes[probe])) :
                   /\ now' = e.at
                   /\ \/ /\ e.answered
                         /\ results' = Append(results, [ok |-> TRUE, asked |-> now])
                         /\ probe' = probe + 1
                         /\ pc' = "next"
                      \/ pc' = "retry" /\ UNCHANGED <<probe, results>>
    BY <1>5 DEF Attempt
  <2>2. AllAnswered /\ probe \in 1..Len(Probes) /\ deadline <= readyBy
    BY <1>1, <2>1 DEF ResultsInv, DeadlineInv
  <2>3. CASE pc' = "retry" /\ UNCHANGED <<now, probe, results>>
    BY <1>1, <2>1, <2>2, <2>3 DEF ResultsInv, AllAnswered, InOrder, EndsWell
  <2>4. ASSUME now < deadline, NEW e \in Endings(AttemptBy(Probes[probe])), now' = e.at
        PROVE  now <= now' /\ (e.answered => now < readyBy /\ now < over)
    <3>1. AttemptBy(Probes[probe]) \in Int /\ AttemptBy(Probes[probe]) <= over
      BY <1>1, AttemptIsBounded
    <3>2. now <= e.at /\ (e.answered => now < AttemptBy(Probes[probe]))
      BY <1>2, <3>1, EndingsAreBounded
    <3>3. \A a \in Int : a <= over /\ now < a => now < over
      BY <1>2
    <3>4. now < readyBy
      BY <1>2, <2>2, <2>4
    <3> QED BY <2>4, <3>1, <3>2, <3>3, <3>4
  <2>5. ASSUME now < deadline, NEW e \in Endings(AttemptBy(Probes[probe])), now' = e.at,
               e.answered, results' = Append(results, [ok |-> TRUE, asked |-> now]),
               probe' = probe + 1, pc' = "next"
        PROVE  ResultsInv' /\ InOrder' /\ EndsWell'
    <3>1. now <= now' /\ now < readyBy /\ now < over
      BY <2>4, <2>5
    <3>2. AllAnswered' /\ InOrder'
      BY <1>1, <1>2, <2>1, <2>2, <2>5, <3>1, OneMoreAnswer
    <3> QED BY <2>5, <3>2 DEF ResultsInv, EndsWell
  <2>6. ASSUME now < deadline, NEW e \in Endings(AttemptBy(Probes[probe])), now' = e.at,
               pc' = "retry", UNCHANGED <<probe, results>>
        PROVE  ResultsInv' /\ InOrder' /\ EndsWell'
    <3>1. AllAnswered'
      BY <1>1, <1>2, <2>2, <2>4, <2>6, SameResults
    <3>2. InOrder'
      BY <1>1, <2>1, <2>6 DEF InOrder
    <3> QED BY <2>6, <3>1, <3>2 DEF ResultsInv, EndsWell
  <2> QED BY <2>1, <2>3, <2>5, <2>6
<1>6. CASE Retry
  <2>1. /\ pc = "retry" /\ UNCHANGED <<over, readyBy, probe>>
        /\ \/ Fail(now) \/ Fail(over)
           \/ /\ now' = now + IntervalOf(Probes[probe]) /\ pc' = "attempt"
              /\ UNCHANGED results
    BY <1>6 DEF Retry
  <2>2. AllAnswered /\ probe \in 1..Len(Probes)
    BY <1>1, <2>1 DEF ResultsInv, DeadlineInv
  <2>3. CASE Fail(now) \/ Fail(over)
    <3>1. InOrder' /\ EndsWell'
      BY <1>1, <1>2, <2>1, <2>2, <2>3, OneMoreFailure
    <3>2. pc' = "not ready"
      BY <2>3 DEF Fail
    <3> QED BY <3>1, <3>2 DEF ResultsInv
  <2>4. CASE /\ now' = now + IntervalOf(Probes[probe]) /\ pc' = "attempt"
             /\ UNCHANGED results
    <3>1. IntervalOf(Probes[probe]) \in Nat
      BY <2>2, ProbesAreProbes, DurationsAreDurations
    <3>2. now <= now + IntervalOf(Probes[probe])
      BY <1>2, <3>1
    <3>3. AllAnswered'
      BY <1>1, <1>2, <2>1, <2>2, <2>4, <3>2, SameResults
    <3>4. InOrder'
      BY <1>1, <2>1, <2>4 DEF InOrder
    <3> QED BY <2>4, <3>3, <3>4 DEF ResultsInv, EndsWell
  <2> QED BY <2>1, <2>3, <2>4
<1>7. CASE Ended
  <2>1. UNCHANGED vars
    BY <1>7 DEF Ended
  <2> QED BY <2>1, StutterInv, WitnessedIsBoth DEF IInv, VerdictIsEarned
<1> QED BY <1>3, <1>4, <1>5, <1>6, <1>7 DEF Next
-----------------------------------------------------------------------------
(* Giving up, along the steps.                                             *)

\* Not before one of two is not before the lesser.
LEMMA AtTheLeast ==
  ASSUME NEW t \in Nat, NEW a \in Nat, NEW b \in Nat
  PROVE  /\ t >= a => t >= Least(a, b)
         /\ t >= b => t >= Least(a, b)
         /\ t > a => t >= Least(a, b)
  BY DEF Least

\* An interval that ends after the deadline does not fit.
LEMMA NoTimeIsNoTime ==
  ASSUME NEW n \in Nat, NEW i \in Nat, NEW a \in Nat, NEW b \in Nat
  PROVE  n + i > a => n + i >= Least(a, b)
<1>1. n + i \in Nat
  OBVIOUS
<1> QED BY <1>1, AtTheLeast

\* The two ways to give up a probe: no budget left for it, or no time for
\* another attempt within deadline and run.
LEMMA FitsNext == ASSUME IInv, Next PROVE NoOtherAttemptFits'
<1>1. Numbers /\ DeadlineInv
  BY TypeIsBoth DEF IInv
<1>2. /\ now \in Nat /\ readyBy \in Nat /\ over \in Nat /\ deadline \in Nat
  BY <1>1 DEF Numbers
<1>3. CASE OpenDump \/ AskPostgres \/ Pause \/ LoadDump \/ StartApplication \/ Attempt
  <2>1. pc' # "not ready"
    BY <1>3 DEF OpenDump, AskPostgres, Pause, LoadDump, StartApplication, Attempt
  <2> QED BY <2>1 DEF NoOtherAttemptFits
<1>4. CASE NextProbe
  <2>1. UNCHANGED <<now, readyBy, over>> /\ (pc' = "not ready" => now >= readyBy)
    BY <1>4 DEF NextProbe, Fail
  <2>2. now >= readyBy => now >= Least(readyBy, over)
    BY <1>2, AtTheLeast
  <2> QED BY <2>1, <2>2 DEF NoOtherAttemptFits
<1>5. CASE Retry
  <2>1. /\ pc = "retry" /\ UNCHANGED <<readyBy, over, deadline, probe>>
        /\ \/ now' = now /\ now >= over
           \/ now' = now /\ NoTimeForAnother(Probes[probe])
           \/ pc' = "attempt"
           \/ now' = over
    BY <1>5 DEF Retry, Fail
  <2>2. over >= over /\ IntervalOf(Probes[probe]) \in Nat
    BY <1>1, <1>2, <2>1, ProbesAreProbes, DurationsAreDurations DEF DeadlineInv
  <2>3. CASE now' = now /\ now >= over
    <3>1. now >= Least(readyBy, over)
      BY <1>2, <2>3, AtTheLeast
    <3> QED BY <2>1, <2>3, <3>1 DEF NoOtherAttemptFits
  <2>4. CASE now' = now /\ NoTimeForAnother(Probes[probe])
    <3>1. now + IntervalOf(Probes[probe]) >= Least(deadline, over)
      BY <1>2, <2>2, <2>4, NoTimeIsNoTime DEF NoTimeForAnother
    <3> QED BY <2>1, <2>4, <3>1 DEF NoOtherAttemptFits
  <2>5. CASE pc' = "attempt"
    BY <2>5 DEF NoOtherAttemptFits
  <2>6. CASE now' = over
    <3>1. over >= Least(readyBy, over)
      BY <1>2, <2>2, AtTheLeast
    <3> QED BY <2>1, <2>6, <3>1 DEF NoOtherAttemptFits
  <2> QED BY <2>1, <2>3, <2>4, <2>5, <2>6
<1>6. CASE Ended
  <2>1. UNCHANGED vars
    BY <1>6 DEF Ended
  <2> QED BY <2>1, StutterInv DEF IInv, VerdictIsEarned
<1> QED BY <1>3, <1>4, <1>5, <1>6 DEF Next

-----------------------------------------------------------------------------
(* The theorems.                                                           *)

\* The parts together.
LEMMA NextInv == ASSUME IInv, [Next]_vars PROVE IInv'
<1>1. CASE UNCHANGED vars
  BY <1>1, StutterInv
<1>2. CASE Next
  <2>1. TypeOK' /\ BudgetsHold' /\ BeforeProbing' /\ DeadlineInv'
    BY <1>2, TypeNext, BudgetsNext, ProbingNext
  <2>2. VerdictIsEarned' /\ ResultsInv' /\ AbsenceInv'
    BY <1>2, ResultsNext, AbsenceNext, FitsNext DEF VerdictIsEarned
  <2> QED BY <2>1, <2>2 DEF IInv
<1> QED BY <1>1, <1>2

\* IInv holds throughout.
LEMMA InvariantHolds == Spec => []IInv
<1>1. Init => IInv
  BY InitInv
<1>2. IInv /\ [Next]_vars => IInv'
  BY NextInv
<1> QED BY <1>1, <1>2, PTL DEF Spec

\* No time, count or position of the waiting leaves its range: the count of
\* answers "is not running" stops at one more than its limit, and no probe past
\* the last is asked.
THEOREM TypeCorrect == Spec => []TypeOK
<1>1. IInv => TypeOK
  BY DEF IInv
<1> QED BY <1>1, InvariantHolds, PTL

\* Whatever the timeouts, intervals and the budget are, and however long the
\* commands take: every wait keeps to what bounds it, but for the time a killed
\* command takes to go and the slack of one helper container.
THEOREM BudgetsHeld == Spec => []BudgetsHold
<1>1. IInv => BudgetsHold
  BY DEF IInv
<1> QED BY <1>1, InvariantHolds, PTL

\* However often the services come and go: ready stands for one answer of every
\* probe, in order and in time; "absent" for as many intervals without a sign
\* of the database as are put up with; and no probe is given up while another
\* attempt of it fits.
THEOREM VerdictEarned == Spec => []VerdictIsEarned
<1>1. IInv => VerdictIsEarned
  BY DEF IInv
<1> QED BY <1>1, InvariantHolds, PTL
=============================================================================
