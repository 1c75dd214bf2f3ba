\* Three requests of three users on three cells, two at the same time; no crash, one
\* setting.
SPECIFICATION Spec
CONSTANTS
  Users = {u1, u2, u3}
  Requests = {r1, r2, r3}
  Coordinates <- TwoIslands
  Configs <- OneConfig
  MaxRetry = 1
  MaxInFlight = 2
  MaxConfigChanges = 0
  MaxCrashes = 0
SYMMETRY Symmetry
CHECK_DEADLOCK FALSE
INVARIANTS
  Exclusive IslandsHaveFounders FoundersWereTogether SoleFounderConnectsMap
PROPERTY
  ImplementsRegistry
