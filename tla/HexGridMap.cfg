\* A client beside two requests, with a crash and an answer of one row at most.
SPECIFICATION MapSpec
CONSTANTS
  Users = {u1, u2}
  Requests = {r1, r2}
  Coordinates <- Cells
  Configs <- OneConfig
  MaxRetry = 1
  MaxInFlight = 2
  MaxConfigChanges = 0
  MaxCrashes = 1
  Clients = {k1}
  Boxes <- TwoBoxes
  Limit = 1
CHECK_DEADLOCK FALSE
INVARIANTS
  MapTypeOK LiveMapMissesNoGrid ToldTheTruth
PROPERTIES
  CountProvesAnswer RefreshDropsOnlyForEarlier
