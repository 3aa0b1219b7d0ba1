SPECIFICATION Spec
CONSTANTS
  InputOrder <- Order
  Recipes <- SomeRecipes
  Paths <- SomePaths
  Snapshots <- SomeSnapshots
INVARIANTS
  MissingIsMissing
