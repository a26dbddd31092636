CONSTANTS
  N = 2
  FreshUuid = {2}
  FreshSeen = {2}
  Limit = 2
  MaxRecords = 1
  MaxJid = 2
  MaxReads = 2
  MaxSessions = 2
  MaxCrashes = 1
SPECIFICATION Spec
INVARIANTS TypeOK ReadsBack NearLimit NoGap
PROPERTIES StopReturns
CHECK_DEADLOCK FALSE
