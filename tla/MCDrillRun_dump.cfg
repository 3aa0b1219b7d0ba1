SPECIFICATION FairSpec
CONSTANTS
  Services = {"app", "db", "cache"}
  Needs <- AppNeeds
  InputKind <- DumpInputs
  LoadService <- InDb
  NProbes = 1
  NChecks = 2
INVARIANTS
  TypeOK NeverAccusedOutOfTime PassMeansProved DumpBeforeApplication
  ProjectIsTakenDown WorkspaceIsAccountedFor VerdictIsAccountedFor
PROPERTIES
  FilesGoAfterContainers Termination ImplementsContract
