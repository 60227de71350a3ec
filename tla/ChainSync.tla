------------------------------- MODULE ChainSync -------------------------------
(***************************************************************************)
(* How the nodes of an AshCoin network keep their copies of the chain in   *)
(* step (src/MinerApp.cpp: runMineThread, broadcastNewBlock,               *)
(* syncBlockchain, dispatchRequest, handleResponse, handleChainResponse;   *)
(* src/PeerManager.cpp: createClient, broadcast).                          *)
(*                                                                         *)
(* A node n keeps its chain, an update waiting to be applied (_tempchain)  *)
(* and, if it mines, the position of its mining thread.  Nodes talk over   *)
(* WebSocket connections <<client, server>>, one for every line of the     *)
(* client's peers file; a connection is a FIFO queue in either direction   *)
(* and loses what is in flight when it closes.  An answer goes back over   *)
(* the connection the message came by, and only a client broadcasts.       *)
(*                                                                         *)
(* One message handler is one step, and so is each part of the mining      *)
(* thread between two points at which it gives up _chainMutex.             *)
(***************************************************************************)
EXTENDS Blockchain

CONSTANTS
  Node,          \* the nodes
  Miners,        \* those with mining.autostart; the others are passive
  Peers,         \* connections <<client, server>> named by the peers files
  ResetEnabled,  \* nodes with chain.reset.enable = true
  Founder,       \* Founder[n]: the node whose genesis block n starts from
  Shared,        \* length of the chain a founder has when the run starts
  Times,         \* Times[n]: wall-clock times a block that n mines can carry
  DebugBuild,    \* nodes built with assert() (no NDEBUG)
  MaxMined,      \* bound: blocks each node mines
  MaxDrops,      \* bound: connections lost
  MaxRestarts    \* bound: processes restarted

ASSUME NodeAssumption ==
  /\ Miners \subseteq Node
  /\ ResetEnabled \subseteq Node
  /\ DebugBuild \subseteq Node
  /\ Founder \in [Node -> Node]
ASSUME PeersAssumption ==
  Peers \subseteq {l \in Node \X Node : l[1] # l[2]}
ASSUME BoundsAssumption ==
  /\ Shared \in 1..BLOCK_INTERVAL
  /\ Times \in [Node -> SUBSET Int]
  /\ MaxMined \in Nat /\ MaxDrops \in Nat /\ MaxRestarts \in Nat

VARIABLES
  chain,     \* chain[n]: _blockchain
  temp,      \* temp[n]: _tempchain, <<>> for the null pointer
  pc,        \* pc[n]: where the mining thread is, "off" when _miningDone
  cand,      \* cand[n]: the block being mined
  mined,     \* mined[n]: how many blocks n has found (makes hashes unique)
  found,     \* all blocks that exist (history, read by no action)
  status,    \* status[n]: "up", or why the process ended
  open,      \* open[l]: connection l is established
  wire,      \* wire[l][n]: messages on their way to n over l
  drops,     \* connections lost so far
  restarts   \* restarts so far

vars ==
  <<chain, temp, pc, cand, mined, found, status, open, wire, drops, restarts>>

-------------------------------------------------------------------------------
(* Blocks, messages and the initial state.                                   *)

\* The k-th block found by n has hash <<n, k>>; <<n, 0>> is n's genesis block.
Hash == Node \X Nat
Block == BlockOver(Hash)
Unmined == [index : Nat, prev : Hash, difficulty : Nat]

SummaryRequest == [message |-> "summary", kind |-> "request"]
SummaryResponse(first, last, cumdiff) ==
  [message |-> "summary", kind |-> "response",
   first |-> first, last |-> last, cumdiff |-> cumdiff]
FullChainRequest == [message |-> "chain", kind |-> "request", full |-> TRUE]
ChainRequest(id1, id2) ==
  [message |-> "chain", kind |-> "request", full |-> FALSE, id1 |-> id1, id2 |-> id2]
\* blocks = <<>> stands for a response that has no "blocks" member.
ChainResponse(blocks) ==
  [message |-> "chain", kind |-> "response", blocks |-> blocks]
NewBlockRequest(block, cumdiff) ==
  [message |-> "newblock", kind |-> "request", block |-> block, cumdiff |-> cumdiff]
NewBlockResponse == [message |-> "newblock", kind |-> "response"]

Message ==
       [message : {"summary"}, kind : {"request"}]
  \cup [message : {"summary"}, kind : {"response"},
        first : Block, last : Block, cumdiff : Nat]
  \cup [message : {"chain"}, kind : {"request"}, full : {TRUE}]
  \cup [message : {"chain"}, kind : {"request"}, full : {FALSE}, id1 : Nat, id2 : Nat]
  \cup [message : {"chain"}, kind : {"response"}, blocks : Seq(Block)]
  \cup [message : {"newblock"}, kind : {"request"}, block : Block, cumdiff : Nat]
  \cup [message : {"newblock"}, kind : {"response"}]

\* The chain node f has built when the run starts: its genesis block and
\* Shared - 1 blocks it mined on top.
FoundersChain(f) ==
  [i \in 1..Shared |->
     IF i = 1 THEN GenesisBlock(<<f, 0>>, 0)
     ELSE [ index |-> i - 1, prev |-> <<f, i - 2>>, hash |-> <<f, i - 1>>,
            difficulty |-> 1, time |-> 0, sealed |-> TRUE ]]

\* "template" is the top of the mining loop.
StartOfMining(n) == IF n \in Miners THEN "template" ELSE "off"

NoUnmined == <<>>

Init ==
  /\ chain = [n \in Node |-> FoundersChain(Founder[n])]
  /\ temp = [n \in Node |-> <<>>]
  /\ pc = [n \in Node |-> StartOfMining(n)]
  /\ cand = [n \in Node |-> NoUnmined]
  /\ mined = [n \in Node |-> Shared - 1]
  /\ found = {FoundersChain(Founder[n])[i] : n \in Node, i \in 1..Shared}
  /\ status = [n \in Node |-> "up"]
  /\ open = [l \in Peers |-> FALSE]
  /\ wire = [l \in Peers |-> [n \in Node |-> <<>>]]
  /\ drops = 0
  /\ restarts = 0

-------------------------------------------------------------------------------
(* Applying an update: MinerApp::syncBlockchain.                             *)

\* Faulty variants: the blocks the update replaces stay in the chain; they go
\* and nothing takes their place.
SyncedChainNoResize(c, t) ==
  IF t = <<>> THEN c
  ELSE IF front(t).index = 0 THEN t
  ELSE IF front(t).index <= back(c).index + 1 THEN AddBlocks(c, t)
  ELSE c
SyncedChainTruncate(c, t) ==
  IF t = <<>> THEN c
  ELSE IF front(t).index = 0 THEN t
  ELSE IF front(t).index <= back(c).index THEN resize(c, front(t).index)
  ELSE AddBlocks(c, t)

\* The chain that results from applying update t to chain c.
SyncedChain(c, t) ==
  IF t = <<>> THEN c
  ELSE IF front(t).index = 0 THEN t
  ELSE IF front(t).index <= back(c).index
    THEN AddBlocks(resize(c, front(t).index), t)
  ELSE IF front(t).index = back(c).index + 1 THEN AddBlocks(c, t)
  ELSE c

\* The result of syncBlockchain: FALSE without an update, or when the update
\* is too far ahead.
SyncReturns(c, t) == t # <<>> /\ front(t).index <= back(c).index + 1

\* Faulty variant: _miningDone is not looked at.
CacheOrSyncAtOnce(n, t) ==
  /\ chain' = [chain EXCEPT ![n] = SyncedChain(chain[n], t)]
  /\ temp' = [temp EXCEPT ![n] = <<>>]

\* Leave update t for the mining thread, or apply it at once if _miningDone.
CacheOrSync(n, t) ==
  IF pc[n] = "off"
    THEN /\ chain' = [chain EXCEPT ![n] = SyncedChain(chain[n], t)]
         /\ temp' = [temp EXCEPT ![n] = <<>>]
    ELSE /\ temp' = [temp EXCEPT ![n] = t]
         /\ chain' = chain

-------------------------------------------------------------------------------
(* Connections (PeerManager).                                                *)

Ends(l) == {l[1], l[2]}
Other(l, n) == IF n = l[1] THEN l[2] ELSE l[1]

\* createClient's on_open: the client asks for a summary first.  Taken at
\* start and again by the reconnect worker.
Connect(l) ==
  /\ ~open[l]
  /\ \A n \in Ends(l) : status[n] = "up"
  /\ open' = [open EXCEPT ![l] = TRUE]
  /\ wire' = [wire EXCEPT ![l][l[2]] = <<SummaryRequest>>]
  /\ UNCHANGED <<chain, temp, pc, cand, mined, found, status, drops, restarts>>

\* on_close, on_error: the connection goes and what it carried is lost.
Disconnect(l) ==
  /\ open[l]
  /\ drops < MaxDrops
  /\ drops' = drops + 1
  /\ open' = [open EXCEPT ![l] = FALSE]
  /\ wire' = [wire EXCEPT ![l] = [n \in Node |-> <<>>]]
  /\ UNCHANGED <<chain, temp, pc, cand, mined, found, status, restarts>>

\* All connections of n close.
HangUp(n) ==
  /\ open' = [l \in Peers |-> open[l] /\ n \notin Ends(l)]
  /\ wire' = [l \in Peers |-> IF n \in Ends(l) THEN [m \in Node |-> <<>>] ELSE wire[l]]

\* The process of n ends for the given reason; _tempchain is gone.
Terminate(n, reason) ==
  /\ status' = [status EXCEPT ![n] = reason]
  /\ temp' = [temp EXCEPT ![n] = <<>>]
  /\ pc' = [pc EXCEPT ![n] = "off"]
  /\ HangUp(n)
  /\ UNCHANGED <<chain, cand, mined, found, drops, restarts>>

\* The process of n is ended (or has ended) and is started again; the chain
\* comes back from the database.
Restart(n) ==
  /\ restarts < MaxRestarts
  /\ restarts' = restarts + 1
  /\ status' = [status EXCEPT ![n] = "up"]
  /\ temp' = [temp EXCEPT ![n] = <<>>]
  /\ pc' = [pc EXCEPT ![n] = StartOfMining(n)]
  /\ HangUp(n)
  /\ UNCHANGED <<chain, cand, mined, found, drops>>

-------------------------------------------------------------------------------
(* The mining thread (MinerApp::runMineThread).                              *)

Mining(n, at) == status[n] = "up" /\ pc[n] = at

\* Top of the loop, under _chainMutex: choose the difficulty, build a block.
\* A difficulty that wrapped below 0 makes mineBlock ask for a string of
\* 2^64 - 1 zeros: std::length_error leaves the thread and ends the process.
BeginBlock(n) ==
  /\ Mining(n, "template")
  /\ LET d == getAdjustedDifficulty(chain[n])
     IN  IF d < 0
           THEN Terminate(n, "difficulty")
           ELSE /\ cand' = [cand EXCEPT ![n] = UnminedBlock(chain[n], d)]
                /\ pc' = [pc EXCEPT ![n] = "mining"]
                /\ UNCHANGED <<chain, temp, mined, found, status, open, wire, drops, restarts>>

\* mineBlock returns SUCCESS; the block is added and written.  If the chain
\* refuses it, the thread gives up mining.
FoundBlock(n) ==
  /\ Mining(n, "mining")
  /\ mined[n] < Shared - 1 + MaxMined
  /\ mined' = [mined EXCEPT ![n] = @ + 1]
  /\ \E t \in Times[n] :
       LET b == MinedBlock(cand[n], <<n, mined[n] + 1>>, t)
           c == addNewBlock(chain[n], b)
       IN  /\ chain' = [chain EXCEPT ![n] = c]
           /\ found' = found \cup {b}
           /\ pc' = [pc EXCEPT ![n] = IF c = chain[n] THEN "off" ELSE "found"]
  /\ UNCHANGED <<temp, cand, status, open, wire, drops, restarts>>

\* keepMiningCallback says no: an update reaches the height being mined.
AbortBlock(n) ==
  /\ Mining(n, "mining")
  /\ temp[n] # <<>>
  /\ back(temp[n]).index >= cand[n].index
  /\ pc' = [pc EXCEPT ![n] = "aborted"]
  /\ UNCHANGED <<chain, temp, cand, mined, found, status, open, wire, drops, restarts>>

\* syncBlockchain after a block was found or aborted.
SyncBlockchain(n) ==
  /\ status[n] = "up"
  /\ pc[n] \in {"found", "aborted"}
  /\ chain' = [chain EXCEPT ![n] = SyncedChain(chain[n], temp[n])]
  /\ temp' = [temp EXCEPT ![n] = <<>>]
  /\ pc' = [pc EXCEPT ![n] =
              IF pc[n] = "found" /\ ~SyncReturns(chain[n], temp[n])
                THEN "announce" ELSE "template"]
  /\ UNCHANGED <<cand, mined, found, status, open, wire, drops, restarts>>

\* broadcastNewBlock: over the connections of which n is the client.
BroadcastNewBlock(n) ==
  /\ Mining(n, "announce")
  /\ LET m == NewBlockRequest(back(chain[n]), cumDifficulty(chain[n]))
     IN  wire' = [l \in Peers |->
                    IF open[l] /\ l[1] = n
                      THEN [wire[l] EXCEPT ![l[2]] = Append(@, m)]
                      ELSE wire[l]]
  /\ pc' = [pc EXCEPT ![n] = "template"]
  /\ UNCHANGED <<chain, temp, cand, mined, found, status, open, drops, restarts>>

-------------------------------------------------------------------------------
(* Message handlers (dispatchRequest, handleResponse).                       *)

\* A message of the given kind is the next one n gets over l.
Arrives(l, n, message, kind) ==
  /\ status[n] = "up"
  /\ wire[l][n] # <<>>
  /\ Head(wire[l][n]).message = message
  /\ Head(wire[l][n]).kind = kind

\* The message is taken and the replies go back over the same connection.
Reply(l, n, replies) ==
  wire' = [wire EXCEPT ![l][n] = Tail(@), ![l][Other(l, n)] = @ \o replies]

\* Request "summary".
HandleSummaryRequest(l, n) ==
  /\ Arrives(l, n, "summary", "request")
  /\ Reply(l, n, << SummaryResponse(front(chain[n]), back(chain[n]),
                                    cumDifficulty(chain[n])) >>)
  /\ UNCHANGED <<chain, temp, pc, cand, mined, found, status, open, drops, restarts>>

\* Request "chain": everything, or the blocks id1 to id2.
HandleChainRequest(l, n) ==
  /\ Arrives(l, n, "chain", "request")
  /\ LET m == Head(wire[l][n])
     IN  Reply(l, n, << ChainResponse(IF m.full THEN chain[n]
                                      ELSE Segment(chain[n], m.id1, m.id2)) >>)
  /\ UNCHANGED <<chain, temp, pc, cand, mined, found, status, open, drops, restarts>>

\* Request "newblock": ask the sender for a summary if it seems to be ahead.
HandleNewBlock(l, n) ==
  /\ Arrives(l, n, "newblock", "request")
  /\ LET m     == Head(wire[l][n])
         local == cumDifficulty(chain[n])
         ahead == \/ m.cumdiff > local
                  \/ m.cumdiff = local /\ m.block.index > back(chain[n]).index
     IN  Reply(l, n, << IF ahead THEN SummaryRequest ELSE NewBlockResponse >>)
  /\ UNCHANGED <<chain, temp, pc, cand, mined, found, status, open, drops, restarts>>

\* Response "newblock": only the trailing syncBlockchain of handleResponse.
HandleNewBlockResponse(l, n) ==
  /\ Arrives(l, n, "newblock", "response")
  /\ Reply(l, n, <<>>)
  /\ CacheOrSync(n, temp[n])
  /\ UNCHANGED <<pc, cand, mined, found, status, open, drops, restarts>>

\* Faulty variants: the request starts two blocks early; it stops one block
\* early.
SummaryRepliesEarly(n, m) ==
  IF cumDifficulty(chain[n]) < m.cumdiff
    THEN <<ChainRequest(back(chain[n]).index - 1, m.last.index)>>
    ELSE <<>>
SummaryRepliesShort(n, m) ==
  IF cumDifficulty(chain[n]) < m.cumdiff
    THEN <<ChainRequest(back(chain[n]).index + 1, m.last.index - 1)>>
    ELSE <<>>
\* What a node asks for on a summary: genesis and last block are those of
\* the update waiting to be applied, if there is one.
SummaryReplies(n, m) ==
  LET view == IF temp[n] # <<>> THEN temp[n] ELSE chain[n]
  IN  IF front(view).hash # m.first.hash
        THEN IF n \in ResetEnabled THEN <<FullChainRequest>> ELSE <<>>
      ELSE IF cumDifficulty(chain[n]) < m.cumdiff
        THEN <<ChainRequest(back(view).index + 1, m.last.index)>>
      ELSE <<>>

\* Response "summary".
HandleSummaryResponse(l, n) ==
  /\ Arrives(l, n, "summary", "response")
  /\ Reply(l, n, SummaryReplies(n, Head(wire[l][n])))
  /\ CacheOrSync(n, temp[n])
  /\ UNCHANGED <<pc, cand, mined, found, status, open, drops, restarts>>

\* Faulty variant: the previous hash of the first block is not compared.
UpdateAlignedUnchecked(c, blocks) == TRUE

\* handleChainResponse for blocks that passed isValidChain.
UpdateAligned(c, blocks) ==
  blocks[1].index > 0 => blocks[1].prev = c[blocks[1].index].hash
UpdateGap(c, blocks) == blocks[1].index > back(c).index + 1

\* Response "chain": the update is kept (and applied if n does not mine) when
\* it starts at a genesis block or follows a block n has.
AcceptUpdate(l, n) ==
  /\ Arrives(l, n, "chain", "response")
  /\ LET blocks == Head(wire[l][n]).blocks
     IN  /\ blocks # <<>>
         /\ isValidChain(blocks)
         /\ ~UpdateGap(chain[n], blocks)
         /\ n \in DebugBuild => blocks[1].index # 1
         /\ UpdateAligned(chain[n], blocks)
         /\ CacheOrSync(n, blocks)
  /\ Reply(l, n, <<>>)
  /\ UNCHANGED <<pc, cand, mined, found, status, open, drops, restarts>>

\* Faulty variant: an update on another branch is dropped.
RequestMoreOnlyGaps(l, n) ==
  /\ Arrives(l, n, "chain", "response")
  /\ LET blocks == Head(wire[l][n]).blocks
         next   == back(chain[n]).index + 1
     IN  /\ blocks # <<>>
         /\ isValidChain(blocks)
         /\ n \in DebugBuild => blocks[1].index # 1
         /\ UpdateGap(chain[n], blocks) \/ ~UpdateAligned(chain[n], blocks)
         /\ Reply(l, n, IF UpdateGap(chain[n], blocks)
                          THEN <<ChainRequest(next, back(blocks).index)>> ELSE <<>>)
  /\ CacheOrSync(n, temp[n])
  /\ UNCHANGED <<pc, cand, mined, found, status, open, drops, restarts>>

\* Response "chain" that does not fit: ask for the missing blocks, or for one
\* block more when the first one follows a block n does not have.
RequestMore(l, n) ==
  /\ Arrives(l, n, "chain", "response")
  /\ LET blocks == Head(wire[l][n]).blocks
         next   == back(chain[n]).index + 1
     IN  /\ blocks # <<>>
         /\ isValidChain(blocks)
         /\ \/ /\ UpdateGap(chain[n], blocks)
               /\ Reply(l, n, <<ChainRequest(next, back(blocks).index)>>)
            \/ /\ ~UpdateGap(chain[n], blocks)
               /\ n \in DebugBuild => blocks[1].index # 1
               /\ ~UpdateAligned(chain[n], blocks)
               /\ Reply(l, n, <<ChainRequest(blocks[1].index - 1, back(blocks).index)>>)
  /\ CacheOrSync(n, temp[n])
  /\ UNCHANGED <<pc, cand, mined, found, status, open, drops, restarts>>

\* assert(tempStartIdx > 0) in handleChainResponse: an update that starts at
\* block 1 ends a process built with assertions.
UpdateAssertFails(l, n) ==
  /\ n \in DebugBuild
  /\ Arrives(l, n, "chain", "response")
  /\ LET blocks == Head(wire[l][n]).blocks
     IN  blocks # <<>> /\ isValidChain(blocks) /\ blocks[1].index = 1
  /\ Terminate(n, "assert")

\* json["blocks"] of a const json that has no such member: nlohmann's own
\* assertion ends a debug build.  Without it the access is undefined: the
\* process may end too, or see a null value (RejectChain).
MissingBlocks(l, n) ==
  /\ Arrives(l, n, "chain", "response")
  /\ Head(wire[l][n]).blocks = <<>>
  /\ Terminate(n, "missing blocks")

\* Response "chain" with no blocks or with a broken chain: logged and dropped.
RejectChain(l, n) ==
  /\ Arrives(l, n, "chain", "response")
  /\ LET blocks == Head(wire[l][n]).blocks
     IN  /\ blocks # <<>> => ~isValidChain(blocks)
         /\ n \in DebugBuild => blocks # <<>>
  /\ Reply(l, n, <<>>)
  /\ UNCHANGED <<chain, temp, pc, cand, mined, found, status, open, drops, restarts>>

-------------------------------------------------------------------------------
(* The specification.                                                        *)

MineStep(n) ==
  \/ BeginBlock(n)
  \/ AbortBlock(n)
  \/ SyncBlockchain(n)
  \/ BroadcastNewBlock(n)

Receive(l, n) ==
  \/ HandleSummaryRequest(l, n)
  \/ HandleChainRequest(l, n)
  \/ HandleNewBlock(l, n)
  \/ HandleNewBlockResponse(l, n)
  \/ HandleSummaryResponse(l, n)
  \/ AcceptUpdate(l, n)
  \/ RequestMore(l, n)
  \/ UpdateAssertFails(l, n)
  \/ MissingBlocks(l, n)
  \/ RejectChain(l, n)

Next ==
  \/ \E n \in Node : MineStep(n) \/ FoundBlock(n) \/ Restart(n)
  \/ \E l \in Peers : Connect(l) \/ Disconnect(l)
  \/ \E l \in Peers : \E n \in Ends(l) : Receive(l, n)

Spec == Init /\ [][Next]_vars

\* Threads get to run, queues drain and the reconnect worker keeps trying.
\* Nothing is assumed of the search for a nonce, of crashes or of restarts.
Fairness ==
  /\ \A n \in Node : WF_vars(MineStep(n))
  /\ \A l \in Peers : WF_vars(Connect(l))
  /\ \A l \in Peers : \A n \in Ends(l) : WF_vars(Receive(l, n))

FairSpec == Spec /\ Fairness

-------------------------------------------------------------------------------
(* Safety.                                                                   *)

PcValues == {"off", "template", "mining", "found", "aborted", "announce"}
StatusValues == {"up", "difficulty", "assert", "missing blocks"}

\* Every variable holds a value of its kind; a message in flight is one of the
\* messages the handlers know.
TypeOK ==
  /\ chain \in [Node -> Seq(Block)]
  /\ temp \in [Node -> Seq(Block)]
  /\ pc \in [Node -> PcValues]
  /\ cand \in [Node -> Unmined \cup {NoUnmined}]
  /\ mined \in [Node -> Nat]
  /\ found \subseteq Block
  /\ status \in [Node -> StatusValues]
  /\ open \in [Peers -> BOOLEAN]
  /\ wire \in [Peers -> [Node -> Seq(Message)]]
  /\ drops \in Nat
  /\ restarts \in Nat

\* Whatever updates are applied, in whatever order, every node's chain starts
\* at a genesis block and consists of sealed blocks with consecutive indexes,
\* each naming the one before it: resize followed by addNewBlock, which checks
\* neither the index nor the whole chain, never leaves anything else.
ChainsWellFormed == \A n \in Node : WellFormed(chain[n])

\* An update a node keeps for its mining thread still fits the node's chain
\* when it is applied, although blocks were mined since it was accepted: it is
\* a whole chain, or it follows a block the chain has (so addNewBlock refuses
\* none of it and "temp chain is too far ahead" is never logged).
UpdateFits(c, t) ==
  /\ Linked(t)
  /\ \/ t[1].index = 0
     \/ /\ t[1].index \in 1..Len(c)
        /\ t[1].sealed
        /\ t[1].prev = c[t[1].index].hash
TempFits ==
  \A n \in Node : temp[n] # <<>> => UpdateFits(chain[n], temp[n])

\* The block being mined is a block on top of the chain as it is now, so that
\* addNewBlock accepts it and the thread does not give up mining.
CandidateOnTop(n) ==
  /\ cand[n] # NoUnmined
  /\ cand[n].index = Len(chain[n])
  /\ cand[n].prev = back(chain[n]).hash
CandidateFresh == \A n \in Node : pc[n] = "mining" => CandidateOnTop(n)

\* A node that does not mine applies every update at once and keeps none.
PassiveKeepsNoUpdate == \A n \in Node : pc[n] = "off" => temp[n] = <<>>

\* Equal hashes mean equal history: two nodes that have a block in common
\* have the same block at the same height and everything below it in common.
HashNamesHistory ==
  \A n, m \in Node : \A i \in DOMAIN chain[n] : \A j \in DOMAIN chain[m] :
    chain[n][i].hash = chain[m][j].hash
      => i = j /\ SubSeq(chain[n], 1, i) = SubSeq(chain[m], 1, j)

\* The chains of all nodes are paths of one tree of mined blocks.
Tree == INSTANCE BlockTree WITH tree <- found
ImplementsBlockTree == Tree!TreeSpec

\* The invariant the proofs of ChainSyncProofs rest on: next to the parts above,
\* what is known of the blocks that exist and of the blocks in flight.
FromFound(s) == \A i \in 1..Len(s) : s[i] \in found
FoundSound ==
  /\ \A b \in found : b.hash[2] <= mined[b.hash[1]] /\ (b.index > 0 => b.sealed)
  /\ \A a, b \in found : a.hash = b.hash => a = b
MessageSound(m) ==
  m.message = "chain" /\ m.kind = "response"
    => Linked(m.blocks) /\ FromFound(m.blocks)
WireSound ==
  \A l \in Peers : \A n \in Node : \A i \in 1..Len(wire[l][n]) :
    MessageSound(wire[l][n][i])
SyncInv ==
  /\ ChainsWellFormed
  /\ TempFits
  /\ CandidateFresh
  /\ PassiveKeepsNoUpdate
  /\ FoundSound
  /\ WireSound
  /\ \A n \in Node : FromFound(chain[n]) /\ FromFound(temp[n])

\* Applying an update loses nothing of it: afterwards the node's chain ends
\* with all the blocks of the update it had kept.
UpdatesAppliedWhole ==
  [][\A n \in Node :
       temp[n] # <<>> /\ temp'[n] = <<>> /\ restarts' = restarts /\ status'[n] = "up"
         => /\ Len(chain'[n]) >= Len(temp[n])
            /\ SubSeq(chain'[n], Len(chain'[n]) - Len(temp[n]) + 1, Len(chain'[n]))
                 = temp[n]]_vars

\* The passive nodes that start from the chain of a miner.
Followers == {n \in Node \ Miners : \E m \in Miners : Founder[n] = Founder[m]}

\* A network with one source of blocks: s is the only node that may mine, it is
\* an end of every connection, no node has two, and all start from one chain.
OneSource(s) ==
  /\ Miners \subseteq {s}
  /\ \A n \in Node : Founder[n] = Founder[s]
  /\ \A l \in Peers : s \in Ends(l)
  /\ \A k, l \in Peers : Ends(k) = Ends(l) => k = l

\* A passive node that hears of one miner over one connection, and starts from the
\* miner's chain, only ever adds blocks: however many requests and answers are on
\* their way when blocks are mined, connections lost and processes restarted, an
\* answer to an old request never takes newer blocks away.  (It does when a node
\* has two connections, and when a node that starts from another genesis block
\* takes over a whole chain.)
PassiveNodesOnlyExtend ==
  [][\A n \in Followers :
       /\ Len(chain'[n]) >= Len(chain[n])
       /\ SubSeq(chain'[n], 1, Len(chain[n])) = chain[n]]_vars

\* "A single chain is synced across a peer-to-peer network based on cumulative
\* difficulty": no step gives a node a chain of lower cumulative difficulty.
CumulativeDifficultyNeverFalls ==
  [][\A n \in Node : cumDifficulty(chain'[n]) >= cumDifficulty(chain[n])]_vars

-------------------------------------------------------------------------------
(* Liveness, under Fairness.                                                 *)

\* A 'newblock' on its way to the server of a connection gets the server a
\* chain of at least that height from the sender's genesis block on, unless the
\* connection closes first: none of the messages it takes (summary and chain,
\* whole or in part) is swallowed, whatever the server had before.
Announced(l, i) ==
  \E k \in DOMAIN wire[l][l[2]] :
    LET m == wire[l][l[2]][k]
    IN  m.message = "newblock" /\ m.kind = "request" /\ m.block.index = i
AnnouncedBlocksArrive ==
  \A l \in Peers : \A i \in 1..(Shared - 1 + MaxMined) :
    Announced(l, i) ~>
      \/ Len(chain[l[2]]) > i /\ front(chain[l[2]]) = front(chain[l[1]])
      \/ ~open[l]
===============================================================================
