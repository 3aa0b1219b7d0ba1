SPECIFICATION Spec
CONSTANTS
  Services = {"app", "db", "cache"}
  Needs <- AppNeeds
  InputKind <- DumpInputs
  LoadService <- InDb
  NProbes = 1
  NChecks = 2
INVARIANT
  TimeoutIsAnError
