SPECIFICATION Spec
CONSTANTS
  InputOrder <- Order
  Recipes <- SomeRecipes
  Paths <- SomePaths
  Snapshots <- SomeSnapshots
INVARIANTS
  TypeOK OperatorsTreeIsLeftAlone InputsAreTheBackups PathsAreTheOperators RefusalIsTrue NoLinkLeaves
