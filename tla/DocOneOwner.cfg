SPECIFICATION Spec
CONSTANTS
  N = 1
  Materials = {"original", "repaired"}
  Prefixes <- NoReconstruction
  Clients = {"cli"}
  MaxWorkflows = 2
  MaxTrouble = 1
  Null = Null
CHECK_DEADLOCK FALSE
INVARIANT OneOwner
