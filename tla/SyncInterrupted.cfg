\* A run that dies between a record and its status.
SPECIFICATION Spec
CONSTANTS Stores = {a, b}  Quiet = TRUE
          MaxRevisions = 2  MaxRecords = 3  MaxRuns = 3  MaxCrashes = 1
INVARIANT CompletedRunConverges
CHECK_DEADLOCK FALSE
