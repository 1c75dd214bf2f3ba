\* A profile fetched before its user owns a grid never reaches the grid.
SPECIFICATION Spec
CONSTANTS
  Users = {u1}
  Runs = {r1}
  MaxTime = 2
  MaxSkew = 0
CHECK_DEADLOCK FALSE
INVARIANT UndisturbedProfilesAreCurrent
