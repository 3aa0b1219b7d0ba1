\* Three targets, so that one comes before, at and after the target during
\* which the operator loses patience; signals enough for the process to leave.
SPECIFICATION FairSpec
CONSTANTS
  NTargets = 3
  MaxSignals = 2
INVARIANTS
  TypeOK
  SweepTellsTheWorst
  DocumentAccountsForTargets
  InterruptedIsUnproven
  NothingLeftSilently
PROPERTIES
  OneMoreAtMost
  SecondSignalLeaves
