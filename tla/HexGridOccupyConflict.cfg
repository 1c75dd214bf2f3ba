\* A uniqueness conflict found by the database, not by the checks.
SPECIFICATION Spec
CONSTANTS
  Users = {u1, u2}
  Requests = {r1, r2}
  Coordinates <- TwoIslands
  Configs <- OneConfig
  MaxRetry = 1
  MaxInFlight = 2
  MaxConfigChanges = 0
  MaxCrashes = 0
CHECK_DEADLOCK FALSE
INVARIANT ConflictsAnswered409
