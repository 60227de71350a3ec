\* Mining is stopped while an update arrives.
SPECIFICATION Spec
CONSTANTS
  Ws = {w1}
  BLOCK_INTERVAL = 10
  TARGET_TIMESPAN = 60
  MaxMined = 2
  MaxUpdates = 2
  MaxStarts = 0
  MaxStops = 1
  MaxShutdowns = 0
  MaxCrashes = 0
INVARIANTS
  FileMirrorsChain
\* A run stops when the bounds are used up.
CHECK_DEADLOCK FALSE
