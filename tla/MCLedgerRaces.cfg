\* Peers' blocks arrive at any time, replace blocks or the chain and may make it
\* shorter; WebSocket threads sync, too.
SPECIFICATION Spec
CONSTANTS
  m = m
  p = p
  u = u
  Address = {m, p}
  Miner = m
  PeerMiner = p
  COINBASE_REWARD = 2
  Amounts = {1}
  Patient = FALSE
  Calm = FALSE
  MaxReplaced = 2
  MaxSyncs = 1
  MaxBlocks = 3
  MaxPayments = 2
INVARIANTS
  TypeOK
  PaidAtMostOnce
PROPERTIES
  PaymentsKept
CHECK_DEADLOCK FALSE
