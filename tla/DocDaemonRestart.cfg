SPECIFICATION Spec
CONSTANTS
  N = 2
  Recipes <- BothRecipes
  Declared = {0}
  MaxInterventions = 1
  MaxScans = 1
  Null = Null
INVARIANT BlockedForCause
