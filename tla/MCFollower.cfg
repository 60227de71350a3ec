\* A mining node tells two passive ones.  One starts from the miner's chain, the other
\* has a genesis block of its own and may take over another chain; connections and
\* processes fail.
SPECIFICATION FairSpec
CONSTANTS
  n1 = n1
  n2 = n2
  Node = {n1, n2, n3}
  Miners = {n1}
  Peers <- Fan
  ResetEnabled = {n2}
  Founder <- Newcomer
  Shared = 1
  Times <- SameTime
  BLOCK_INTERVAL = 2
  TARGET_TIMESPAN = 2
  DebugBuild = {}
  MaxMined = 2
  MaxDrops = 1
  MaxRestarts = 1
PROPERTIES
  PassiveNodesOnlyExtend
  AnnouncedBlocksArrive
\* A run stops when the bounds are used up and all queues are empty.
CHECK_DEADLOCK FALSE
