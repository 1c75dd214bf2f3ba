\* One cron run at a time, concurrent writers, crashes and failed uploads.
SPECIFICATION Spec
CONSTANTS
  MaxGrids = 2
  Writers = {w1, w2}
  CronRuns = {cron}
  ScriptRuns = {}
  MaxChanges = 3
  MaxUploads = 3
  MaxToggles = 1
  MaxCrashes = 1
SYMMETRY Symmetry
CHECK_DEADLOCK FALSE
INVARIANTS
  TypeOK OnlyExposedChangesAreLost BatchesFormOneChain EveryBatchIsFound OnlyCommittedIsArchived
PROPERTY ImplementsLog
