\* A node that mines or does not, with updates and crashes at any moment.
SPECIFICATION Spec
SYMMETRY Interchangeable
CONSTANTS
  Ws = {w1, w2}
  BLOCK_INTERVAL = 10
  TARGET_TIMESPAN = 60
  MaxMined = 2
  MaxUpdates = 2
  MaxStarts = 0
  MaxStops = 0
  MaxShutdowns = 0
  MaxCrashes = 2
INVARIANTS
  TypeOK
  FileMirrorsChain
  NeverEmpty
  MinesApart
PROPERTIES
  CrashKeepsChain
\* A run stops when the bounds are used up.
CHECK_DEADLOCK FALSE
