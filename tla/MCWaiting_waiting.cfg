\* A load that lasts longer than the fifteen answers of an absent database, a
\* ready budget of more than one slice, and runs that end in every phase.
SPECIFICATION FairSpec
CONSTANTS
  LoadTimeout = 24
  ReadyBudget = 50
  Probes <- SomeProbes
  DefaultLoad = 300
  DefaultTimeout = 180
  DefaultInterval = 3
  PgInterval = 1
  NotRunningLimit = 15
  Slice = 30
  Slack = 15
  Overs = {10, 30, 60, 200}
  Delays = {0, 5}
  MaxLinger = 1
INVARIANTS
  TypeOK BudgetsHold VerdictIsEarned
PROPERTIES
  EveryWaitEnds
