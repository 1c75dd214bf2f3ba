\* A change committed between the read of an upload and its TRUNCATE is cleared with the rest.
SPECIFICATION Spec
CONSTANTS
  MaxGrids = 2
  Writers = {w1, w2}
  CronRuns = {cron}
  ScriptRuns = {}
  MaxChanges = 2
  MaxUploads = 1
  MaxToggles = 0
  MaxCrashes = 0
CHECK_DEADLOCK FALSE
PROPERTY ClearsOnlyUploaded
