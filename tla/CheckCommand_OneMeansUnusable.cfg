SPECIFICATION Spec
CONSTANTS
  NTargets = 2
  MaxSignals = 2
INVARIANTS
  OneMeansUnusable
