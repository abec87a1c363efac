SPECIFICATION Spec
CONSTANTS
  original = original
  repaired = repaired
  Null = Null
  a = a
  b = b
INVARIANTS EscalatedFirst
CHECK_DEADLOCK FALSE
