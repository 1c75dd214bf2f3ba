\* Any store: refreshes, getters, failures and expiry in any order.
SPECIFICATION Spec
CONSTANTS
  Calls = {c1, c2, c3, c4}
  InMemory = FALSE
  MaxVersion = 4
  MaxFailures = 1
SYMMETRY Symmetry
CHECK_DEADLOCK FALSE
INVARIANTS
  TypeOK UndisturbedCacheIsCurrent
