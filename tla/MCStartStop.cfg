\* Mining is started and stopped while updates arrive.
SPECIFICATION FairSpec
CONSTANTS
  Ws = {w1}
  BLOCK_INTERVAL = 10
  TARGET_TIMESPAN = 60
  MaxMined = 1
  MaxUpdates = 1
  MaxStarts = 2
  MaxStops = 1
  MaxShutdowns = 1
  MaxCrashes = 0
INVARIANTS
  TerminatesOnlyAfterRefusal
PROPERTIES
  UpdatesApplied
  StopReturns
  ShutdownEnds
\* A run stops when the bounds are used up.
CHECK_DEADLOCK FALSE
