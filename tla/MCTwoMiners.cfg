\* Two mining nodes, the first names the second in its peers file; the first has
\* assertions.  Clocks that raise the difficulty on one side and lower it on the other,
\* below 0 in the end; blocks enough for forks of one height and different difficulty.
SPECIFICATION FairSpec
CONSTANTS
  n1 = n1
  n2 = n2
  Node = {n1, n2}
  Miners = {n1, n2}
  Peers <- OneWay
  ResetEnabled = {}
  Founder <- SameFounder
  Shared = 1
  Times <- Ahead
  BLOCK_INTERVAL = 2
  TARGET_TIMESPAN = 2
  DebugBuild = {n1}
  MaxMined = 3
  MaxDrops = 0
  MaxRestarts = 0
INVARIANTS
  TypeOK
  SyncInv
  HashNamesHistory
PROPERTIES
  UpdatesAppliedWhole
  ImplementsBlockTree
  AnnouncementFollowed
\* A run stops when the bounds are used up and all queues are empty.
CHECK_DEADLOCK FALSE
