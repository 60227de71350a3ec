----------------------------- MODULE MCBlockchain -----------------------------
(***************************************************************************)
(* The operations of Blockchain compared with the loops of the code, over  *)
(* all chains a node can build from a small set of blocks and all short    *)
(* sequences of blocks a peer may send as an update.                       *)
(***************************************************************************)
EXTENDS Blockchain, SequencesExt, FiniteSetsExt

CONSTANTS
  Hashes,       \* hashes of the blocks above the genesis block
  Genesis,      \* hash of the genesis block
  Difficulties, \* difficulties of those blocks
  MaxUpdate,    \* bound: blocks of an update
  MaxChain      \* bound: blocks of a chain

ASSUME DifficultiesAssumption == Difficulties \subseteq Nat
ASSUME ChainBoundsAssumption == MaxUpdate \in Nat /\ MaxChain \in Nat

VARIABLES
  local,    \* a chain
  update    \* a tempchain, not necessarily one that fits the chain

\* Any block a peer may send: sealed or not, linked to the chain or not.
Candidates ==
  [ index : 1..MaxChain, prev : Hashes \cup {Genesis}, hash : Hashes,
    difficulty : {1}, time : {0}, sealed : BOOLEAN ]

Init ==
  /\ local = <<GenesisBlock(Genesis, 0)>>
  /\ update = <<>>

\* The chain grows as it does in the code: a sealed block with the next index.
\* A hash names one block.
Grow ==
  /\ Len(local) < MaxChain
  /\ update = <<>>
  /\ \E h \in Hashes \ {local[i].hash : i \in DOMAIN local} : \E d \in Difficulties :
       local' = addNewBlock(local, MinedBlock(UnminedBlock(local, d), h, 0))
  /\ update' = update

\* The update grows by any block.
GrowUpdate ==
  /\ Len(update) < MaxUpdate
  /\ \E b \in Candidates : update' = Append(update, b)
  /\ IsInjective([i \in DOMAIN update' |-> update'[i].hash])
  /\ local' = local

Next == Grow \/ GrowUpdate

Spec == Init /\ [][Next]_<<local, update>>

-------------------------------------------------------------------------------

\* The loop of syncBlockchain, one addNewBlock after the other.
AddBlocksLoop(c, t) ==
  LET after[k \in 0..Len(t)] == IF k = 0 THEN c ELSE addNewBlock(after[k-1], t[k])
  IN  after[Len(t)]

\* AddBlocks is what the loop over addNewBlock does, also for an update of which
\* the first blocks are refused.
AddBlocksIsLoop ==
  isValidChain(update) => AddBlocks(local, update) = AddBlocksLoop(local, update)

\* isValidChain, which compares neighbours only and never looks at the first
\* block, means consecutive indexes from wherever the sequence starts.
ValidChainIsLinked ==
  \A s \in {local, update, Tail(local)} : isValidChain(s) <=> Linked(s)

\* A 'chain' request gets exactly the blocks in the range asked for, in their order.
SegmentIsRange ==
  \A id1, id2 \in 0..(MaxChain + 1) :
    LET s == Segment(local, id1, id2)
    IN  /\ {s[i] : i \in DOMAIN s}
             = {b \in {local[i] : i \in DOMAIN local} : id1 <= b.index /\ b.index <= id2}
        /\ \A i, j \in DOMAIN s : i < j => s[i].index < s[j].index

\* The cumulative difficulty is 2^difficulty summed over every block that has
\* a successor.
CumDifficultyIsSum ==
  cumDifficulty(local)
    = MapThenSumSet(LAMBDA i : 2 ^ local[i].difficulty, 1..(Len(local) - 1))
===============================================================================
