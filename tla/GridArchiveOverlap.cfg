\* Two cron runs and the script overlap with each other and with two writers.
SPECIFICATION FairSpec
CONSTANTS
  MaxGrids = 2
  Writers = {w1, w2}
  CronRuns = {cron1, cron2}
  ScriptRuns = {script}
  MaxChanges = 2
  MaxUploads = 2
  MaxToggles = 0
  MaxCrashes = 0
CHECK_DEADLOCK FALSE
INVARIANTS
  ReferencesAreUploaded OnlyExposedChangesAreLost LinksLeadBack OnlyUpgradesDeadlock
PROPERTY TransactionsEnd
