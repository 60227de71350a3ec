\* A user makes a second payment before the first one is mined.
SPECIFICATION Spec
CONSTANTS
  m = m
  p = p
  u = u
  Address = {m, p, u}
  Miner = m
  PeerMiner = p
  COINBASE_REWARD = 2
  Amounts = {1, 2, 3}
  Patient = FALSE
  Calm = TRUE
  MaxReplaced = 0
  MaxSyncs = 0
  MaxBlocks = 4
  MaxPayments = 3
INVARIANTS
  CoinsConserved
\* A run stops when the chain has MaxBlocks blocks.
CHECK_DEADLOCK FALSE
