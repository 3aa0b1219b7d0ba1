\* Every mode, every reason to refuse, every layer of a setting.
SPECIFICATION Spec
CONSTANTS
  Commands <- SomeCommands
  Places = 2
  Contents <- SomeContents
  Environ = {"KEY"}
  Bundled = {"gitea"}
  Rooted = {"/var"}
  Snapshots <- SomeSnapshots
INVARIANTS
  TypeOK RunsGetWhatWasAsked NothingRunsUnresolved
