\* One mining node whose users wait for their payments; it hears of its peers'
\* blocks while it does not mine.
SPECIFICATION Spec
CONSTANTS
  m = m
  p = p
  u = u
  Address = {m, p, u}
  Miner = m
  PeerMiner = p
  COINBASE_REWARD = 2
  Amounts <- AnyAmounts
  Patient = TRUE
  Calm = TRUE
  MaxReplaced = 0
  MaxSyncs = 0
  MaxBlocks = 4
  MaxPayments = 3
INVARIANTS
  CoinsConserved
  BalanceIsUnspent
  SpendsOwnCoins
  FoundById
\* A run stops when the chain has MaxBlocks blocks.
CHECK_DEADLOCK FALSE
