\* Every kind of check, every way an observation can turn out.
SPECIFICATION Spec
CONSTANTS
  Checks <- SomeChecks
  Mounts <- SomeMounts
  Trees <- SomeTrees
  MaxRows = 2
INVARIANTS
  TypeOK PassIsEarned ChecksSeeTheApplication NoCopyIsLeft
