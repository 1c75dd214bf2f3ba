\* Three runs overlap each other, events and an occupy; any may fail, and clocks differ.
SPECIFICATION Spec
CONSTANTS
  Users = {u1}
  Runs = {r1, r2, r3}
  MaxTime = 3
  MaxSkew = 1
SYMMETRY Symmetry
CHECK_DEADLOCK FALSE
INVARIANTS
  TypeOK NoGap UndisturbedSitesAreCurrent ReachedProfilesFollow
