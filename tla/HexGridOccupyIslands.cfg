\* Two first occupiers at once: line 158's rule is not what the code keeps.
SPECIFICATION Spec
CONSTANTS
  Users = {u1, u2}
  Requests = {r1, r2}
  Coordinates <- TwoIslands
  Configs <- OneConfig
  MaxRetry = 1
  MaxInFlight = 2
  MaxConfigChanges = 0
  MaxCrashes = 0
CHECK_DEADLOCK FALSE
INVARIANT MapConnected
