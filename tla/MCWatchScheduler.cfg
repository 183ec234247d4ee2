SPECIFICATION FairSpec
CONSTANTS
  Watches = {w1, w2}
  w1 = w1
  w2 = w2
  Stuck = {}
  MaxTicks = 2
  CandidateLimit = 1
  MaxPerTick = 1
  Cadence = 2
  Recheck = 1
  Retry = 1
  MaxFaults = 1
  MaxChanges = 1
INVARIANTS TypeOK OneScheduledRun OneStartPerClaim
PROPERTIES RunnableStarts PausedIsTold
CHECK_DEADLOCK FALSE
