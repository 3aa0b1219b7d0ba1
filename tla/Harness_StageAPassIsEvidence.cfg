SPECIFICATION Spec
CONSTANTS
  NRecipes = 1
INVARIANTS
  StageAPassIsEvidence
