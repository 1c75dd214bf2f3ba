\* The memory store, as config-biz.module.ts wires it.
SPECIFICATION Spec
CONSTANTS
  Calls = {c1, c2, c3}
  InMemory = TRUE
  MaxVersion = 5
  MaxFailures = 0
SYMMETRY Symmetry
CHECK_DEADLOCK FALSE
INVARIANTS
  CacheIsCurrent
