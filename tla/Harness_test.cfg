SPECIFICATION Spec
CONSTANTS
  NRecipes = 2
INVARIANTS
  TypeOK BlindRecipeIsRejected PassIsARoundTrip DrillSeesOnlyTheRepository
  NothingIsLeft ExitTellsTheWorst
