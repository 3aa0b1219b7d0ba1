------------------------------- MODULE Waiting -------------------------------
(***************************************************************************)
(* Everything a drill waits for between its first `docker compose up` and  *)
(* its checks: the database that accepts connections, the dump that loads, *)
(* the application that starts, and the ready probes, each retried under a *)
(* deadline of its own, all of them under one budget, everything under the *)
(* context of the run.                                                     *)
(*                                                                         *)
(* Time is discrete and moves only when the program waits for it.  A       *)
(* docker command either answers or is killed when its context ends; then  *)
(* cmd.Run still waits until its output is closed, which MaxLinger bounds. *)
(***************************************************************************)
EXTENDS Integers, Sequences

CONSTANTS
  LoadTimeout,      \* load.timeout of the dump, 0 where there is no valid one
  ReadyBudget,      \* --ready-timeout, as the run's defaults left it
  Probes,           \* the ready probes, [kind, timeout, interval], 0 as above
  DefaultLoad, DefaultTimeout, DefaultInterval,
  PgInterval,       \* between two pg_isready
  NotRunningLimit,  \* answers "is not running" that are put up with in a row
  Slice,            \* the longest one attempt of a probe may take
  Slack,            \* what the helper container gets on top of an attempt
  Overs,            \* instants at which the run's context may end
  Delays,           \* how long a command may take that answers by itself
  MaxLinger         \* how long a killed command keeps its output open

ASSUME ConstantsAssumption ==
  /\ {LoadTimeout, ReadyBudget, NotRunningLimit, Slack, MaxLinger} \subseteq Nat
  /\ {DefaultLoad, DefaultTimeout, DefaultInterval, PgInterval, Slice}
       \subseteq Nat \ {0}
  /\ Overs \subseteq Nat /\ Delays \subseteq Nat
  /\ Probes \in Seq([kind : {"http", "tcp", "exec"}, timeout : Nat, interval : Nat])

VARIABLES
  now,         \* the time
  over,        \* when the run's context ends: its deadline, or an interrupt
  pc,          \* the next step, or how the waiting ended
  loadBy,      \* when the context of the load ends
  notRunning,  \* waitForPostgres: answers "is not running" in a row
  readyBy,     \* when the ready budget runs out
  probe,       \* the probe at hand
  deadline,    \* when its own timeout runs out
  results,     \* of the probes: does it answer, and when was it last asked
  present      \* observer: when the database was last known not to be absent

vars == <<now, over, pc, loadBy, notRunning, readyBy, probe, deadline, results, present>>

Ends == {"ready", "not ready", "absent", "never accepted", "load failed", "not started"}
Loading == {"ask", "pause", "load", "absent", "never accepted", "load failed"}
Probing == {"next", "attempt", "retry", "ready", "not ready"}

Least(a, b) == IF a < b THEN a ELSE b
Later(a, b) == IF a < b THEN b ELSE a

\* A duration of the recipe, or the default where it says nothing of use.
OrDefault(d, default) == IF d = 0 THEN default ELSE d

LoadLasts == OrDefault(LoadTimeout, DefaultLoad)
ProbeLasts(p) == OrDefault(p.timeout, DefaultTimeout)
\* Mutant of IntervalOf: the recipe's interval is taken as it stands.
IntervalOf_Raw(p) == p.interval
IntervalOf(p) == OrDefault(p.interval, DefaultInterval)

\* How a docker command ends whose context ends at limit: it answers in time,
\* it is killed, or it is not even started.
Endings(limit) ==
  IF now >= limit THEN {[at |-> now, answered |-> FALSE]}
  ELSE {[at |-> now + d, answered |-> TRUE] : d \in {d \in Delays : now + d <= limit}}
       \cup {[at |-> limit + l, answered |-> FALSE] : l \in 0..MaxLinger}

Init ==
  /\ now = 0 /\ over \in Overs /\ pc = "open"
  /\ loadBy = 0 /\ notRunning = 0 /\ present = 0
  /\ readyBy = 0 /\ probe = 1 /\ deadline = 0 /\ results = <<>>

-----------------------------------------------------------------------------
(* loader.LoadPostgres.                                                    *)

\* The dump is looked at and opened before its context is made: one that is
\* empty, or cannot be opened, does not wait for anything.
OpenDump ==
  /\ pc = "open"
  /\ loadBy' = Least(now + LoadLasts, over)
  /\ pc' \in {"ask", "load failed"}
  /\ UNCHANGED <<now, over, notRunning, readyBy, probe, deadline, results, present>>

\* Mutant of CountAnswer: another answer takes one back.
CountAnswer_Back(answer) == IF answer = "not running" THEN notRunning + 1 ELSE notRunning - 1
\* Mutant of CountAnswer: the counter is not reset by another answer.
CountAnswer_Keep(answer) == IF answer = "not running" THEN notRunning + 1 ELSE notRunning
CountAnswer(answer) == IF answer = "not running" THEN notRunning + 1 ELSE 0

\* One pg_isready.  Only an answer can say that the service is not running.
AskPostgres ==
  /\ pc = "ask"
  /\ \E e \in Endings(loadBy), answer \in {"ready", "not running", "other"} :
       /\ answer # "other" => e.answered
       /\ now' = e.at
       /\ notRunning' = CountAnswer(answer)
       /\ present' = IF answer = "not running" THEN present ELSE e.at
       /\ pc' = CASE answer = "ready" -> "load"
                  [] notRunning' > NotRunningLimit -> "absent"
                  [] OTHER -> "pause"
  /\ UNCHANGED <<over, loadBy, readyBy, probe, deadline, results>>

\* The select: both cases may be ready at once.
Pause ==
  /\ pc = "pause"
  /\ \/ now + PgInterval <= loadBy /\ now' = now + PgInterval /\ pc' = "ask"
     \/ now + PgInterval >= loadBy /\ now' = Later(now, loadBy) /\ pc' = "never accepted"
  /\ UNCHANGED <<over, loadBy, notRunning, readyBy, probe, deadline, results, present>>

\* psql or pg_restore, under what is left of the load's context.
LoadDump ==
  /\ pc = "load"
  /\ \E e \in Endings(loadBy) :
       /\ now' = e.at
       /\ pc' \in IF e.answered THEN {"up", "load failed"} ELSE {"load failed"}
  /\ notRunning' = 0 /\ present' = 0
  /\ UNCHANGED <<over, loadBy, readyBy, probe, deadline, results>>

-----------------------------------------------------------------------------
(* probe.RunAll.                                                           *)

\* The second Up, and the budget that all probes share.
StartApplication ==
  /\ pc = "up"
  /\ \E e \in Endings(over) :
       /\ now' = e.at
       /\ pc' \in IF e.answered THEN {"next", "not started"} ELSE {"not started"}
  /\ readyBy' = now' + ReadyBudget
  /\ UNCHANGED <<over, loadBy, notRunning, probe, deadline, results, present>>

Fail(asked) == results' = Append(results, [ok |-> FALSE, asked |-> asked]) /\ pc' = "not ready"

\* Mutant of OwnDeadline: the probe's timeout alone, without the budget.
OwnDeadline_Alone(p) == now + ProbeLasts(p)
OwnDeadline(p) == now + Least(ProbeLasts(p), readyBy - now)

NextProbe ==
  /\ pc = "next"
  /\ \/ /\ probe > Len(Probes)
        /\ pc' = "ready"
        /\ UNCHANGED <<deadline, results>>
     \/ /\ probe <= Len(Probes) /\ now >= readyBy
        /\ Fail(now)
        /\ UNCHANGED deadline
     \/ /\ probe <= Len(Probes) /\ now < readyBy
        /\ deadline' = OwnDeadline(Probes[probe])
        /\ pc' = "attempt"
        /\ UNCHANGED results
  /\ UNCHANGED <<now, over, loadBy, notRunning, readyBy, probe, present>>

\* When the context of one attempt ends.
AttemptBy(p) ==
  LET per == Least(deadline - now, Slice)
  IN  Least(over, now + per + (IF p.kind = "exec" THEN 0 ELSE Slack))

\* An attempt without time left is counted, and not made.
Attempt ==
  /\ pc = "attempt"
  /\ \/ /\ now >= deadline
        /\ pc' = "retry"
        /\ UNCHANGED <<now, probe, results>>
     \/ /\ now < deadline
        /\ \E e \in Endings(AttemptBy(Probes[probe])) :
             /\ now' = e.at
             /\ \/ /\ e.answered
                   /\ results' = Append(results, [ok |-> TRUE, asked |-> now])
                   /\ probe' = probe + 1
                   /\ pc' = "next"
                \/ /\ pc' = "retry"
                   /\ UNCHANGED <<probe, results>>
  /\ UNCHANGED <<over, loadBy, notRunning, readyBy, deadline, present>>

NoTimeForAnother(p) == now + IntervalOf(p) > deadline

\* After a failed attempt: the run's context, the deadline, then the interval.
Retry ==
  /\ pc = "retry"
  /\ LET p == Probes[probe] IN
     \/ (now >= over \/ NoTimeForAnother(p)) /\ Fail(now) /\ UNCHANGED now
     \/ /\ now < over /\ ~NoTimeForAnother(p)
        /\ \/ /\ now + IntervalOf(p) <= over
              /\ now' = now + IntervalOf(p) /\ pc' = "attempt"
              /\ UNCHANGED results
           \/ /\ now + IntervalOf(p) >= over
              /\ now' = over /\ Fail(over)
  /\ UNCHANGED <<over, loadBy, notRunning, readyBy, probe, deadline, present>>

Ended == pc \in Ends /\ UNCHANGED vars

Next ==
  \/ OpenDump \/ AskPostgres \/ Pause \/ LoadDump
  \/ StartApplication \/ NextProbe \/ Attempt \/ Retry
  \/ Ended

Spec == Init /\ [][Next]_vars

\* Timers fire, and a docker command ends once its context has ended.
FairSpec == Spec /\ WF_vars(Next)

-----------------------------------------------------------------------------

TypeOK ==
  /\ now \in Nat /\ over \in Nat /\ present \in Nat
  /\ loadBy \in Nat /\ readyBy \in Nat /\ deadline \in Nat
  /\ notRunning \in 0..NotRunningLimit + 1
  /\ pc \in Ends \cup {"open", "ask", "pause", "load", "up", "next", "attempt", "retry"}
  /\ probe \in 1..Len(Probes) + 1
  /\ results \in Seq([ok : BOOLEAN, asked : Nat])

\* However the nested deadlines meet, a wait outlives what bounds it by no
\* more than a killed command takes to go, and the ready probes by no more
\* than the slack of one helper container: budgets are not spent twice.
BudgetsHold ==
  /\ pc \in Loading => now <= loadBy + MaxLinger
  /\ pc \in Probing => now <= Least(readyBy + Slack, over) + MaxLinger

\* Every probe answered, in the order of the recipe and each when asked within
\* the budget; one that does not ends the sequence.
ReadyIsWitnessed ==
  /\ \A i \in DOMAIN results :
       results[i].ok => /\ results[i].asked < Least(readyBy, over)
                        /\ i > 1 => results[i-1].ok /\ results[i-1].asked <= results[i].asked
  /\ pc = "ready" => Len(results) = Len(Probes) /\ \A i \in DOMAIN results : results[i].ok
  /\ pc = "not ready" => Len(results) = probe /\ ~results[probe].ok

\* The database was absent, without a break, for as long as that takes.
AbsenceIsLasting ==
  /\ pc = "absent" => now - present >= NotRunningLimit * PgInterval
  /\ pc = "never accepted" => now >= loadBy

\* The run or the budget is over, or no other attempt of the probe fits before
\* its deadline.
NoOtherAttemptFits ==
  pc = "not ready" =>
    \/ now >= Least(readyBy, over)
    \/ now + IntervalOf(Probes[probe]) >= Least(deadline, over)

\* The waiting ends for a reason.  Ready stands for an answer of every probe;
\* nothing is given up while it had a chance: the database is not called
\* absent because it had crashed often before, and no probe fails by the way
\* in which interval, slice, own timeout, budget and run meet.
VerdictIsEarned == ReadyIsWitnessed /\ AbsenceIsLasting /\ NoOtherAttemptFits

\* Whatever the services do, and however often they come and go, every wait
\* ends.
EveryWaitEnds == <>(pc \in Ends)
=============================================================================
