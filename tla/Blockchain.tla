------------------------------ MODULE Blockchain ------------------------------
(***************************************************************************)
(* The block chain as a value: the operations of class Blockchain          *)
(* (src/Blockchain.cpp) and of Block (src/Block.cpp) that the node's sync  *)
(* protocol is built from.  A chain is a sequence of blocks; position i    *)
(* holds the element _blocks[i - 1].                                       *)
(*                                                                         *)
(* A block is a record                                                     *)
(*   index       height, 0 for the genesis block                           *)
(*   prev        hash of the previous block, NoHash for the genesis block  *)
(*   hash        identity of the block (SHA256 is taken to be injective)   *)
(*   difficulty  leading zeros demanded of the hash                        *)
(*   time        the miner's wall clock when the block was found           *)
(*   sealed      the stored hash is the hash of the stored contents and    *)
(*               starts with `difficulty' zeros                            *)
(* `sealed' is FALSE only for a genesis block: its hash is computed by the *)
(* constructor and its data is set afterwards, so it never matches.        *)
(***************************************************************************)
EXTENDS Integers, Sequences

CONSTANTS
  BLOCK_INTERVAL,    \* blocks between two adjustments of the difficulty
  TARGET_TIMESPAN    \* seconds those blocks should take

ASSUME IntervalAssumption == BLOCK_INTERVAL \in Nat \ {0}
ASSUME TimespanAssumption == TARGET_TIMESPAN \in Nat

\* The previous hash of a genesis block (the empty string).
NoHash == <<>>

\* Blocks whose hashes come from H.
BlockOver(H) == [ index      : Nat,
                  prev       : H \cup {NoHash},
                  hash       : H,
                  difficulty : Nat,
                  time       : Int,
                  sealed     : BOOLEAN ]

\* _blocks.front() and _blocks.back() of a non-empty chain.
front(c) == c[1]
back(c) == c[Len(c)]

\* Block(0, "", txs) followed by setData: difficulty 1 and a stale hash.
GenesisBlock(h, t) == [ index |-> 0, prev |-> NoHash, hash |-> h,
                        difficulty |-> 1, time |-> t, sealed |-> FALSE ]

\* ValidHash: recomputed hash equals the stored one and has enough zeros.
ValidHash(b) == b.sealed

\* Blockchain::addNewBlock(block): appended only when it is sealed and
\* names the last block; the index of the block is not looked at.
addNewBlock(c, b) ==
  IF ValidHash(b) /\ b.prev = back(c).hash THEN Append(c, b) ELSE c

\* Faulty variant: the index is not compared.
isValidBlockPairNoIndex(c, i) == c[i].prev = c[i-1].hash /\ c[i].sealed

\* Blockchain::isValidBlockPair, i being a position from 2 on.
isValidBlockPair(c, i) ==
  /\ c[i].index = c[i-1].index + 1
  /\ c[i].prev = c[i-1].hash
  /\ c[i].sealed

\* Blockchain::isValidChain: the first block is never looked at.
isValidChain(c) == \A i \in 2..Len(c) : isValidBlockPair(c, i)

\* Blockchain::resize to n blocks, n being at most the size.
resize(c, n) == SubSeq(c, 1, n)

\* Faulty variant: no block is checked.
AddBlocksUnchecked(c, t) == c \o t

\* The loop "for (block : tempchain) addNewBlock(block)" on a tempchain that
\* passed isValidChain.  A block that does not name the last block of the
\* chain is skipped, so what gets appended is the part of t that starts at
\* the first block that does (MCBlockchain compares this with the loop).
AddBlocks(c, t) ==
  LET fits == {k \in DOMAIN t : ValidHash(t[k]) /\ t[k].prev = back(c).hash}
  IN  IF fits = {}
        THEN c
        ELSE LET k == CHOOSE k \in fits : \A j \in fits : k <= j
             IN  c \o SubSeq(t, k, Len(t))

\* std::pow(2u, d) for the difficulty d of a block.
pow2(d) ==
  LET p[k \in 0..d] == IF k = 0 THEN 1 ELSE 2 * p[k-1]
  IN  p[d]

\* Faulty variant: the last block counts too.
cumDifficultyOfAll(c) ==
  LET total[k \in 0..Len(c)] ==
        IF k = 0 THEN 0 ELSE total[k-1] + pow2(c[k].difficulty)
  IN  total[Len(c)]

\* Blockchain::cumDifficulty(): the sum of 2^difficulty over all blocks but
\* the last (the iterator stops in front of index size() - 1).
cumDifficulty(c) ==
  LET total[k \in 0..Len(c)] ==
        IF k = 0 THEN 0 ELSE total[k-1] + pow2(c[k].difficulty)
  IN  total[Len(c) - 1]

\* Blockchain::getAdjustedDifficulty: looked at every BLOCK_INTERVAL blocks.
\* The result is -1 where the code's uint64 goes from 0 to 2^64 - 1.
getAdjustedDifficulty(c) ==
  LET first    == c[Len(c) - BLOCK_INTERVAL + 1]
      timespan == back(c).time - first.time
      d        == back(c).difficulty
  IN  IF (back(c).index + 1) % BLOCK_INTERVAL # 0      THEN d
      ELSE IF timespan < TARGET_TIMESPAN \div 2        THEN d + 1
      ELSE IF timespan > TARGET_TIMESPAN * 2           THEN d - 1
      ELSE d

\* createUnminedBlock: what is known of the next block of c before it is
\* mined, with the difficulty d the miner was given.
UnminedBlock(c, d) ==
  [index |-> Len(c), prev |-> back(c).hash, difficulty |-> d]

\* Faulty variant: the hash covers no more than the height and the branch.
MinedBlockWeakHash(u, h, t) ==
  [ index |-> u.index, prev |-> u.prev, hash |-> <<u.prev[1], u.index>>,
    difficulty |-> u.difficulty, time |-> t, sealed |-> TRUE ]

\* mineBlock/setMinedData on such a block: a nonce with hash h found at time t.
MinedBlock(u, h, t) ==
  [ index |-> u.index, prev |-> u.prev, hash |-> h,
    difficulty |-> u.difficulty, time |-> t, sealed |-> TRUE ]

\* Faulty variant: id2 is excluded.
SegmentHalfOpen(c, id1, id2) ==
  IF id1 < Len(c) /\ id1 < id2
    THEN SubSeq(c, id1 + 1, IF id2 < Len(c) THEN id2 ELSE Len(c))
    ELSE <<>>

\* The blocks with an index from id1 to id2, as dispatchRequest collects them
\* for a 'chain' request: from the block with index id1, which sits at
\* position id1 + 1, to the last one not above id2; none if id1 is unknown
\* or above id2.
Segment(c, id1, id2) ==
  IF id1 < Len(c) /\ id1 <= id2
    THEN SubSeq(c, id1 + 1, IF id2 < Len(c) THEN id2 + 1 ELSE Len(c))
    ELSE <<>>

-------------------------------------------------------------------------------
(* What the operations above are meant to keep true.                         *)

\* Consecutive blocks, each naming the one before it: any piece of a chain.
Linked(s) ==
  /\ \A i \in 1..Len(s) : s[i].index = s[1].index + i - 1
  /\ \A i \in 2..Len(s) : s[i].prev = s[i-1].hash /\ s[i].sealed

\* A chain from its genesis block on.
WellFormed(c) ==
  /\ Len(c) > 0
  /\ c[1].index = 0
  /\ Linked(c)
===============================================================================
