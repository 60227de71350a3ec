\* A passive node and a miner that name each other: two connections, so that an
\* answer to an old request can come after newer blocks.
SPECIFICATION Spec
CONSTANTS
  n1 = n1
  n2 = n2
  Node = {n1, n2}
  Miners = {n1}
  Peers <- BothWays
  ResetEnabled = {}
  Founder <- SameFounder
  Shared = 1
  Times <- SameTime
  BLOCK_INTERVAL = 2
  TARGET_TIMESPAN = 2
  DebugBuild = {}
  MaxMined = 3
  MaxDrops = 0
  MaxRestarts = 0
PROPERTIES
  CumulativeDifficultyNeverFalls
\* A run stops when the bounds are used up and all queues are empty.
CHECK_DEADLOCK FALSE
