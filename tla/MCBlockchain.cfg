\* Chains of up to three blocks, updates of up to two.
SPECIFICATION Spec
CONSTANTS
  Hashes = {h1, h2, h3}
  Genesis = g
  Difficulties = {0, 2}
  BLOCK_INTERVAL = 2
  TARGET_TIMESPAN = 2
  MaxUpdate = 2
  MaxChain = 3
INVARIANTS
  AddBlocksIsLoop
  ValidChainIsLinked
  SegmentIsRange
  CumDifficultyIsSum
CHECK_DEADLOCK FALSE
