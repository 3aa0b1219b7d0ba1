SPECIFICATION Spec
CONSTANTS
  Checks <- SqliteChecks
  Mounts <- SomeMounts
  Trees <- SomeTrees
  MaxRows = 2
INVARIANTS
  CopyReadsAsTheOriginal
