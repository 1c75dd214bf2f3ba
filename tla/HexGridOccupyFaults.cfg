\* Two requests with crashes, database faults and edits of the configuration.
SPECIFICATION FairSpec
CONSTANTS
  Users = {u1, u2}
  Requests = {r1, r2}
  Coordinates <- Ring
  Configs <- TwoConfigs
  MaxRetry = 1
  MaxInFlight = 2
  MaxConfigChanges = 1
  MaxCrashes = 1
CHECK_DEADLOCK FALSE
INVARIANTS
  TypeOK AnswersTruthful EachGridRequestedOnce ZoneStaysEmpty QueuedWithGrid InvitationPerOwner
PROPERTIES
  EveryRequestAnswered OccupationIsHandled
