---------------------------- MODULE ChainSyncProofs ----------------------------
(***************************************************************************)
(* Proofs about ChainSync, for any number of nodes, connections, blocks    *)
(* and failures: the type invariant, the invariant SyncInv, that the       *)
(* protocol implements BlockTree, and that nodes which follow one source   *)
(* of blocks only ever extend their chains.                                *)
(***************************************************************************)
EXTENDS ChainSync, BlockchainProofs

Inv == TypeOK /\ SyncInv

-------------------------------------------------------------------------------
(* Messages.                                                                  *)

\* What the handlers send are messages.
LEMMA MessageTypes ==
  /\ SummaryRequest \in Message
  /\ FullChainRequest \in Message
  /\ NewBlockResponse \in Message
  /\ \A f, b \in Block, d \in Nat : SummaryResponse(f, b, d) \in Message
  /\ \A i, j \in Nat : ChainRequest(i, j) \in Message
  /\ \A s \in Seq(Block) : ChainResponse(s) \in Message
  /\ \A b \in Block, d \in Nat : NewBlockRequest(b, d) \in Message
<1>1. SummaryRequest \in Message /\ FullChainRequest \in Message /\ NewBlockResponse \in Message
  BY DEF Message, SummaryRequest, FullChainRequest, NewBlockResponse
<1>2. \A f, b \in Block, d \in Nat : SummaryResponse(f, b, d) \in Message
  BY DEF Message, SummaryResponse
<1>3. \A i, j \in Nat : ChainRequest(i, j) \in Message
  BY DEF Message, ChainRequest
<1>4. \A s \in Seq(Block) : ChainResponse(s) \in Message
  BY DEF Message, ChainResponse
<1>5. \A b \in Block, d \in Nat : NewBlockRequest(b, d) \in Message
  BY DEF Message, NewBlockRequest
<1> QED
  BY <1>1, <1>2, <1>3, <1>4, <1>5

\* The members of the messages a handler reads.
LEMMA MessageFields ==
  ASSUME NEW m \in Message
  PROVE  /\ m.message = "summary" /\ m.kind = "response"
              => m.first \in Block /\ m.last \in Block /\ m.cumdiff \in Nat
         /\ m.message = "chain" /\ m.kind = "request"
              => m.full = TRUE \/ (m.full = FALSE /\ m.id1 \in Nat /\ m.id2 \in Nat)
         /\ m.message = "chain" /\ m.kind = "response" => m.blocks \in Seq(Block)
         /\ m.message = "newblock" /\ m.kind = "request"
              => m.block \in Block /\ m.cumdiff \in Nat
  BY DEF Message

\* The ends of a connection are two different nodes.
LEMMA EndsOfLink ==
  ASSUME NEW l \in Peers, NEW n \in Ends(l)
  PROVE  n \in Node /\ Other(l, n) \in Node /\ Other(l, n) # n
  BY PeersAssumption DEF Ends, Other

\* Reply takes one message from the front of a queue and adds the replies to
\* another; all queues stay queues of messages, and what they hold was there
\* before or is a reply.
LEMMA ReplyEffect ==
  ASSUME wire \in [Peers -> [Node -> Seq(Message)]],
         NEW l \in Peers, NEW n \in Ends(l), wire[l][n] # <<>>,
         NEW replies \in Seq(Message), Reply(l, n, replies)
  PROVE  /\ wire' \in [Peers -> [Node -> Seq(Message)]]
         /\ \A k \in Peers : \A m \in Node : \A i \in 1..Len(wire'[k][m]) :
              \/ \E j \in 1..Len(wire[k][m]) : wire'[k][m][i] = wire[k][m][j]
              \/ \E j \in 1..Len(replies) : wire'[k][m][i] = replies[j]
<1> DEFINE o == Other(l, n)
           tail == Tail(wire[l][n])
           more == wire[l][o] \o replies
<1>1. n \in Node /\ o \in Node /\ o # n
  BY EndsOfLink
<1>2. wire[l] \in [Node -> Seq(Message)] /\ wire[l][n] \in Seq(Message)
        /\ wire[l][o] \in Seq(Message)
  BY <1>1
<1>3. /\ tail \in Seq(Message)
      /\ Len(tail) = Len(wire[l][n]) - 1
      /\ \A i \in 1..Len(tail) : tail[i] = wire[l][n][i+1]
  BY <1>2, HeadTailProperties
<1>4. /\ more \in Seq(Message)
      /\ Len(more) = Len(wire[l][o]) + Len(replies)
      /\ \A i \in 1..(Len(wire[l][o]) + Len(replies)) :
           more[i] = IF i <= Len(wire[l][o]) THEN wire[l][o][i]
                     ELSE replies[i - Len(wire[l][o])]
  BY <1>2, ConcatProperties
<1>5. wire' = [wire EXCEPT ![l] = [wire[l] EXCEPT ![n] = tail, ![o] = more]]
  <2>1. wire' = [wire EXCEPT ![l][n] = tail, ![l][o] = @ \o replies]
    BY DEF Reply
  <2>2. [wire EXCEPT ![l][n] = tail][l][o] = wire[l][o]
    BY <1>1, <1>2
  <2> HIDE DEF tail, o
  <2> QED
    BY <1>1, <1>2, <2>1, <2>2
<1>6. /\ Len(wire[l][n]) \in Nat /\ Len(wire[l][o]) \in Nat /\ Len(replies) \in Nat
  BY <1>2, LenProperties
<1> HIDE DEF tail, more, o
<1>7. wire' \in [Peers -> [Node -> Seq(Message)]]
  BY <1>1, <1>2, <1>3, <1>4, <1>5
<1>8. ASSUME NEW k \in Peers, NEW m \in Node, NEW i \in 1..Len(wire'[k][m])
      PROVE  \/ \E j \in 1..Len(wire[k][m]) : wire'[k][m][i] = wire[k][m][j]
             \/ \E j \in 1..Len(replies) : wire'[k][m][i] = replies[j]
  <2>1. CASE k = l /\ m = n
    <3>1. wire'[k][m] = tail
      BY <1>1, <1>2, <1>5, <2>1
    <3>2. i \in 1..Len(tail) /\ i + 1 \in 1..Len(wire[l][n])
      BY <1>3, <1>6, <3>1
    <3> QED
      BY <1>3, <2>1, <3>1, <3>2
  <2>2. CASE k = l /\ m = o
    <3>1. wire'[k][m] = more
      BY <1>1, <1>2, <1>5, <2>2
    <3>2. i \in 1..(Len(wire[l][o]) + Len(replies))
      BY <1>4, <3>1
    <3>3. CASE i <= Len(wire[l][o])
      BY <1>4, <1>6, <2>2, <3>1, <3>2, <3>3
    <3>4. CASE ~(i <= Len(wire[l][o]))
      <4>1. i - Len(wire[l][o]) \in 1..Len(replies)
        BY <1>6, <3>2, <3>4
      <4> QED
        BY <1>4, <3>1, <3>2, <3>4, <4>1
    <3> QED
      BY <3>3, <3>4
  <2>3. CASE ~(k = l /\ m = n) /\ ~(k = l /\ m = o)
    <3>1. wire'[k][m] = wire[k][m]
      BY <1>2, <1>5, <2>3
    <3> QED
      BY <3>1
  <2> QED
    BY <2>1, <2>2, <2>3
<1> QED
  BY <1>7, <1>8

-------------------------------------------------------------------------------
(* Updates.                                                                   *)

\* Applying an update that follows a block of the chain replaces what comes after
\* that block.
LEMMA SplicedChain ==
  ASSUME NEW c \in Seq(Block), WellFormed(c), NEW t \in Seq(Block), t # <<>>,
         UpdateFits(c, t), t[1].index # 0
  PROVE  /\ SyncedChain(c, t) \in Seq(Block)
         /\ WellFormed(SyncedChain(c, t))
         /\ Len(SyncedChain(c, t)) = t[1].index + Len(t)
         /\ \A i \in 1..(t[1].index + Len(t)) :
              SyncedChain(c, t)[i] = IF i <= t[1].index THEN c[i] ELSE t[i - t[1].index]
<1> DEFINE k == t[1].index
           p == SubSeq(c, 1, k)
<1>1. Linked(t) /\ k \in 1..Len(c) /\ t[1].sealed /\ t[1].prev = c[k].hash
  BY DEF UpdateFits
<1>2. Len(c) \in Nat \ {0} /\ back(c).index = Len(c) - 1
  BY BackOfChain DEF Block
<1>3. /\ p \in Seq(Block)
      /\ back(p) = c[k]
      /\ p \o t \in Seq(Block)
      /\ WellFormed(p \o t)
      /\ Len(p \o t) = k + Len(t)
      /\ \A i \in 1..(k + Len(t)) : (p \o t)[i] = IF i <= k THEN c[i] ELSE t[i - k]
  BY <1>1, SpliceWellFormed DEF Block
<1>4. AddBlocks(p, t) = p \o t
  BY <1>1, <1>3, AddBlocksAll DEF Block
<1>5. SyncedChain(c, t) = p \o t
  <2>1. CASE k <= back(c).index
    BY <1>4, <2>1 DEF SyncedChain, front, resize
  <2>2. CASE ~(k <= back(c).index)
    <3>1. k = Len(c) /\ k = back(c).index + 1
      BY <1>1, <1>2, <2>2
    <3>2. p = c
      BY <3>1, SubSeqFull
    <3>3. SyncedChain(c, t) = AddBlocks(c, t)
      BY <2>2, <3>1 DEF SyncedChain, front
    <3> QED
      BY <1>4, <3>2, <3>3
  <2> QED
    BY <2>1, <2>2
<1> HIDE DEF p
<1> QED
  BY <1>3, <1>5

\* Applying an update that fits a well-formed chain gives a well-formed chain
\* of blocks of the two, and the chain ends with the whole update.
LEMMA SyncedChainEffect ==
  ASSUME NEW c \in Seq(Block), WellFormed(c), NEW t \in Seq(Block),
         t # <<>> => UpdateFits(c, t)
  PROVE  /\ SyncedChain(c, t) \in Seq(Block)
         /\ WellFormed(SyncedChain(c, t))
         /\ \A i \in 1..Len(SyncedChain(c, t)) :
              \/ \E j \in 1..Len(c) : SyncedChain(c, t)[i] = c[j]
              \/ \E j \in 1..Len(t) : SyncedChain(c, t)[i] = t[j]
         /\ t # <<>> =>
              /\ Len(SyncedChain(c, t)) >= Len(t)
              /\ \A i \in 1..Len(t) :
                   SyncedChain(c, t)[Len(SyncedChain(c, t)) - Len(t) + i] = t[i]
<1> DEFINE d == SyncedChain(c, t)
<1>1. CASE t = <<>>
  <2>1. d = c
    BY <1>1 DEF SyncedChain
  <2> QED
    BY <1>1, <2>1
<1>2. CASE t # <<>> /\ t[1].index = 0
  <2>1. d = t
    BY <1>2 DEF SyncedChain, front
  <2>2. Len(t) \in Nat \ {0}
    BY <1>2, EmptySeq
  <2>3. WellFormed(t)
    BY <1>2, <2>2 DEF UpdateFits, WellFormed
  <2>4. \A i \in 1..Len(t) : Len(t) - Len(t) + i = i
    BY <2>2
  <2> QED
    BY <2>1, <2>2, <2>3, <2>4
<1>3. CASE t # <<>> /\ t[1].index # 0
  <2> DEFINE k == t[1].index
  <2>1. Linked(t) /\ k \in 1..Len(c)
    BY <1>3 DEF UpdateFits
  <2>2. Len(c) \in Nat \ {0}
    BY BackOfChain DEF Block
  <2>3. Len(t) \in Nat \ {0}
    BY <1>3, EmptySeq
  <2>4. /\ d \in Seq(Block)
        /\ WellFormed(d)
        /\ Len(d) = k + Len(t)
        /\ \A i \in 1..(k + Len(t)) : d[i] = IF i <= k THEN c[i] ELSE t[i - k]
    BY <1>3, SplicedChain
  <2> HIDE DEF d
  <2>5. ASSUME NEW i \in 1..Len(d)
        PROVE  \/ \E j \in 1..Len(c) : d[i] = c[j]
               \/ \E j \in 1..Len(t) : d[i] = t[j]
    <3>1. CASE i <= k
      <4>1. i \in 1..Len(c) /\ d[i] = c[i]
        BY <2>1, <2>2, <2>3, <2>4, <3>1
      <4> QED
        BY <4>1
    <3>2. CASE ~(i <= k)
      <4>1. i - k \in 1..Len(t) /\ d[i] = t[i - k]
        BY <2>1, <2>2, <2>3, <2>4, <3>2
      <4> QED
        BY <4>1
    <3> QED
      BY <3>1, <3>2
  <2>6. Len(d) >= Len(t)
    BY <2>1, <2>2, <2>3, <2>4
  <2> HIDE DEF k
  <2>7. ASSUME NEW i \in 1..Len(t) PROVE d[Len(d) - Len(t) + i] = t[i]
    <3>1. /\ Len(d) - Len(t) + i = k + i
          /\ k + i \in 1..(k + Len(t))
          /\ ~(k + i <= k)
          /\ (k + i) - k = i
      <4>1. k \in Nat /\ i \in Nat /\ i >= 1 /\ i <= Len(t) /\ Len(d) = k + Len(t)
        BY <2>1, <2>2, <2>3, <2>4
      <4> QED
        BY <2>3, <4>1
    <3> QED
      BY <2>4, <3>1
  <2> QED
    BY <2>4, <2>5, <2>6, <2>7 DEF d, k
<1> QED
  BY <1>1, <1>2, <1>3

-------------------------------------------------------------------------------
(* Parts of a step that several actions share.                                *)

\* What TypeOK and SyncInv say of the nodes, apart from the connections.
NodesInv ==
  /\ chain \in [Node -> Seq(Block)]
  /\ temp \in [Node -> Seq(Block)]
  /\ ChainsWellFormed
  /\ TempFits
  /\ CandidateFresh
  /\ PassiveKeepsNoUpdate
  /\ \A n \in Node : FromFound(chain[n]) /\ FromFound(temp[n])

\* Keeping or applying an update that fits preserves what is known of nodes.
LEMMA CacheOrSyncNodes ==
  ASSUME Inv, NEW n \in Node, NEW t \in Seq(Block),
         t # <<>> => UpdateFits(chain[n], t), FromFound(t), CacheOrSync(n, t),
         pc' = pc, cand' = cand, found' = found
  PROVE  NodesInv'
<1>1. CASE pc[n] = "off"
  <2> DEFINE d == SyncedChain(chain[n], t)
  <2>1. chain' = [chain EXCEPT ![n] = d] /\ temp' = [temp EXCEPT ![n] = <<>>]
    BY <1>1 DEF CacheOrSync
  <2>2. chain[n] \in Seq(Block) /\ WellFormed(chain[n])
    BY DEF Inv, TypeOK, SyncInv, ChainsWellFormed
  <2>3. /\ d \in Seq(Block)
        /\ WellFormed(d)
        /\ \A i \in 1..Len(d) : \/ \E j \in 1..Len(chain[n]) : d[i] = chain[n][j]
                                \/ \E j \in 1..Len(t) : d[i] = t[j]
    BY <2>2, SyncedChainEffect
  <2> HIDE DEF d
  <2>4. \A i \in 1..Len(d) : d[i] \in found
    BY <2>3 DEF Inv, SyncInv, FromFound
  <2>5. chain' \in [Node -> Seq(Block)] /\ temp' \in [Node -> Seq(Block)]
    BY <2>1, <2>3 DEF Inv, TypeOK
  <2>6. chain'[n] = d /\ temp'[n] = <<>> /\ Len(<<>>) = 0
    BY <2>1 DEF Inv, TypeOK
  <2>7. \A m \in Node : m # n => chain'[m] = chain[m] /\ temp'[m] = temp[m]
    BY <2>1 DEF Inv, TypeOK
  <2>8. ChainsWellFormed'
    BY <2>3, <2>6, <2>7 DEF Inv, SyncInv, ChainsWellFormed
  <2>9. TempFits'
    BY <2>6, <2>7 DEF Inv, SyncInv, TempFits
  <2>10. CandidateFresh'
    BY <1>1, <2>7 DEF Inv, SyncInv, CandidateFresh, CandidateOnTop
  <2>11. PassiveKeepsNoUpdate'
    BY <2>6, <2>7 DEF Inv, SyncInv, PassiveKeepsNoUpdate
  <2>12. ASSUME NEW m \in Node PROVE FromFound(chain[m])' /\ FromFound(temp[m])'
    BY <2>4, <2>6, <2>7 DEF Inv, SyncInv, FromFound
  <2> QED
    BY <2>5, <2>8, <2>9, <2>10, <2>11, <2>12 DEF NodesInv
<1>2. CASE pc[n] # "off"
  <2>1. chain' = chain /\ temp' = [temp EXCEPT ![n] = t]
    BY <1>2 DEF CacheOrSync
  <2>2. temp'[n] = t /\ \A m \in Node : m # n => temp'[m] = temp[m]
    BY <2>1 DEF Inv, TypeOK
  <2>3. chain' \in [Node -> Seq(Block)] /\ temp' \in [Node -> Seq(Block)]
    BY <2>1 DEF Inv, TypeOK
  <2>4. ChainsWellFormed' /\ CandidateFresh'
    BY <2>1 DEF Inv, SyncInv, ChainsWellFormed, CandidateFresh, CandidateOnTop
  <2>5. TempFits' /\ PassiveKeepsNoUpdate'
    BY <1>2, <2>1, <2>2 DEF Inv, SyncInv, TempFits, PassiveKeepsNoUpdate
  <2>6. ASSUME NEW m \in Node PROVE FromFound(chain[m])' /\ FromFound(temp[m])'
    BY <2>1, <2>2 DEF Inv, SyncInv, FromFound
  <2> QED
    BY <2>3, <2>4, <2>5, <2>6 DEF NodesInv
<1> QED
  BY <1>1, <1>2

\* A step that touches no chain, update, candidate or mining thread.
LEMMA NodesUnchanged ==
  ASSUME Inv, UNCHANGED <<chain, temp, pc, cand, found>>
  PROVE  NodesInv'
  BY DEF Inv, TypeOK, SyncInv, NodesInv, ChainsWellFormed, TempFits, CandidateFresh,
         CandidateOnTop, PassiveKeepsNoUpdate, FromFound

\* Replies that carry only pieces of chains keep the connections sound.
LEMMA ReplyWire ==
  ASSUME Inv, NEW l \in Peers, NEW n \in Ends(l), wire[l][n] # <<>>,
         NEW replies \in Seq(Message), Reply(l, n, replies), found' = found,
         \A j \in 1..Len(replies) : MessageSound(replies[j])
  PROVE  wire' \in [Peers -> [Node -> Seq(Message)]] /\ WireSound'
<1>1. /\ wire' \in [Peers -> [Node -> Seq(Message)]]
      /\ \A k \in Peers : \A m \in Node : \A i \in 1..Len(wire'[k][m]) :
           \/ \E j \in 1..Len(wire[k][m]) : wire'[k][m][i] = wire[k][m][j]
           \/ \E j \in 1..Len(replies) : wire'[k][m][i] = replies[j]
  BY ReplyEffect DEF Inv, TypeOK
<1>2. ASSUME NEW k \in Peers, NEW m \in Node, NEW i \in 1..Len(wire'[k][m])
      PROVE  MessageSound(wire'[k][m][i])
  <2>1. CASE \E j \in 1..Len(wire[k][m]) : wire'[k][m][i] = wire[k][m][j]
    BY <2>1 DEF Inv, SyncInv, WireSound, MessageSound, FromFound
  <2>2. CASE \E j \in 1..Len(replies) : wire'[k][m][i] = replies[j]
    BY <2>2 DEF MessageSound, FromFound
  <2> QED
    BY <1>1, <2>1, <2>2
<1> QED
  BY <1>1, <1>2 DEF WireSound, MessageSound, FromFound

\* The message a handler takes.
LEMMA ArrivesFacts ==
  ASSUME Inv, NEW l \in Peers, NEW n \in Ends(l), NEW message, NEW kind,
         Arrives(l, n, message, kind)
  PROVE  /\ n \in Node
         /\ wire[l][n] # <<>>
         /\ Head(wire[l][n]) \in Message
         /\ Head(wire[l][n]).message = message
         /\ Head(wire[l][n]).kind = kind
         /\ MessageSound(Head(wire[l][n]))
<1>1. n \in Node
  BY EndsOfLink
<1>2. wire[l][n] \in Seq(Message) /\ wire[l][n] # <<>>
  BY <1>1 DEF Inv, TypeOK, Arrives
<1>3. Len(wire[l][n]) \in Nat \ {0} /\ Head(wire[l][n]) = wire[l][n][1]
  BY <1>2, EmptySeq
<1>4. MessageSound(wire[l][n][1])
  BY <1>1, <1>3 DEF Inv, SyncInv, WireSound
<1>5. wire[l][n][1] \in Message
  BY <1>2, <1>3, ElementOfSeq
<1> QED
  BY <1>1, <1>2, <1>3, <1>4, <1>5 DEF Arrives

\* When all connections of a node close, what the others carry stays.
LEMMA HangUpWire ==
  ASSUME Inv, NEW n \in Node, HangUp(n), found' = found
  PROVE  /\ open' \in [Peers -> BOOLEAN]
         /\ wire' \in [Peers -> [Node -> Seq(Message)]]
         /\ WireSound'
<1>1. open' \in [Peers -> BOOLEAN]
  BY DEF Inv, TypeOK, HangUp
<1>2. <<>> \in Seq(Message) /\ Len(<<>>) = 0
  OBVIOUS
<1>3. wire' \in [Peers -> [Node -> Seq(Message)]]
  BY <1>2 DEF Inv, TypeOK, HangUp
<1>4. ASSUME NEW k \in Peers, NEW m \in Node, NEW i \in 1..Len(wire'[k][m])
      PROVE  MessageSound(wire'[k][m][i])
  <2>1. wire'[k][m] = IF n \in Ends(k) THEN <<>> ELSE wire[k][m]
    BY DEF HangUp
  <2>2. wire'[k][m] = wire[k][m]
    BY <1>2, <2>1
  <2> QED
    BY <2>2 DEF Inv, SyncInv, WireSound
<1>5. WireSound'
  BY <1>4 DEF WireSound, MessageSound, FromFound
<1> QED
  BY <1>1, <1>3, <1>5

\* Dropping the update and the mining thread of a node keeps what is known of
\* the nodes.
LEMMA ResetNode ==
  ASSUME Inv, NEW n \in Node, temp' = [temp EXCEPT ![n] = <<>>],
         NEW at \in PcValues \ {"mining"}, pc' = [pc EXCEPT ![n] = at],
         UNCHANGED <<chain, cand, found>>
  PROVE  NodesInv' /\ pc' \in [Node -> PcValues]
<1>1. /\ temp'[n] = <<>> /\ Len(<<>>) = 0
      /\ \A m \in Node : m # n => temp'[m] = temp[m] /\ pc'[m] = pc[m]
      /\ pc'[n] = at
  BY DEF Inv, TypeOK
<1>2. /\ chain' \in [Node -> Seq(Block)] /\ temp' \in [Node -> Seq(Block)]
      /\ pc' \in [Node -> PcValues]
  BY DEF Inv, TypeOK
<1>3. ChainsWellFormed' /\ CandidateFresh'
  BY <1>1 DEF Inv, SyncInv, ChainsWellFormed, CandidateFresh, CandidateOnTop
<1>4. TempFits' /\ PassiveKeepsNoUpdate'
  BY <1>1 DEF Inv, SyncInv, TempFits, PassiveKeepsNoUpdate
<1>5. ASSUME NEW m \in Node PROVE FromFound(chain[m])' /\ FromFound(temp[m])'
  BY <1>1 DEF Inv, SyncInv, FromFound
<1> QED
  BY <1>2, <1>3, <1>4, <1>5 DEF NodesInv

\* The remaining parts of Inv when no block is found.
LEMMA InvFromParts ==
  ASSUME Inv, NodesInv', WireSound', wire' \in [Peers -> [Node -> Seq(Message)]],
         open' \in [Peers -> BOOLEAN], pc' \in [Node -> PcValues],
         cand' \in [Node -> Unmined \cup {NoUnmined}],
         status' \in [Node -> StatusValues], drops' \in Nat, restarts' \in Nat,
         UNCHANGED <<mined, found>>
  PROVE  Inv'
<1>1. TypeOK'
  BY DEF Inv, TypeOK, NodesInv
<1>2. FoundSound'
  BY DEF Inv, SyncInv, FoundSound
<1> QED
  BY <1>1, <1>2 DEF Inv, SyncInv, NodesInv

\* The end of a process.
LEMMA TerminateInv ==
  ASSUME Inv, NEW n \in Node, NEW reason \in StatusValues, Terminate(n, reason)
  PROVE  Inv'
<1>1. "off" \in PcValues \ {"mining"}
  BY DEF PcValues
<1>2. NodesInv' /\ pc' \in [Node -> PcValues]
  BY <1>1, ResetNode DEF Terminate
<1>3. open' \in [Peers -> BOOLEAN] /\ wire' \in [Peers -> [Node -> Seq(Message)]] /\ WireSound'
  BY HangUpWire DEF Terminate
<1>4. /\ status' \in [Node -> StatusValues] /\ drops' \in Nat /\ restarts' \in Nat
      /\ cand' \in [Node -> Unmined \cup {NoUnmined}]
      /\ UNCHANGED <<mined, found>>
  BY DEF Inv, TypeOK, Terminate
<1> QED
  BY <1>2, <1>3, <1>4, InvFromParts

-------------------------------------------------------------------------------
(* The initial state.                                                         *)

\* A founder's chain is well formed and its blocks carry their own hashes.
LEMMA FoundersChainSound ==
  ASSUME NEW f \in Node
  PROVE  /\ FoundersChain(f) \in Seq(Block)
         /\ Len(FoundersChain(f)) = Shared
         /\ WellFormed(FoundersChain(f))
         /\ \A i \in 1..Shared : /\ FoundersChain(f)[i].hash = <<f, i - 1>>
                                 /\ i > 1 => FoundersChain(f)[i].sealed
                                 /\ FoundersChain(f)[i].index = i - 1
<1> DEFINE c == FoundersChain(f)
<1>1. Shared \in Nat \ {0}
  BY BoundsAssumption, IntervalAssumption
<1>2. c = [i \in 1..Shared |-> c[i]]
  BY DEF FoundersChain
<1>3. ASSUME NEW i \in 1..Shared
      PROVE  /\ c[i] \in Block
             /\ c[i].hash = <<f, i - 1>>
             /\ c[i].index = i - 1
             /\ i > 1 => c[i].prev = <<f, i - 2>> /\ c[i].sealed
  <2>1. CASE i = 1
    <3>1. c[i] = GenesisBlock(<<f, 0>>, 0)
      BY <2>1 DEF FoundersChain
    <3> HIDE DEF c
    <3> QED
      BY <2>1, <3>1 DEF GenesisBlock, Block, BlockOver, Hash
  <2>2. CASE i # 1
    <3>1. c[i] = [ index |-> i - 1, prev |-> <<f, i - 2>>, hash |-> <<f, i - 1>>,
                   difficulty |-> 1, time |-> 0, sealed |-> TRUE ]
      BY <2>2 DEF FoundersChain
    <3>2. i - 1 \in Nat /\ i - 2 \in Nat /\ 1 \in Nat /\ 0 \in Int
      BY <1>1, <2>2
    <3>3. <<f, i - 1>> \in Hash /\ <<f, i - 2>> \in Hash
      BY <3>2 DEF Hash
    <3> HIDE DEF c
    <3>4. c[i] \in Block
      BY <3>1, <3>2, <3>3 DEF Block, BlockOver
    <3> QED
      BY <3>1, <3>4
  <2> QED
    BY <2>1, <2>2
<1> HIDE DEF c
<1>4. c \in Seq(Block) /\ Len(c) = Shared
  <2>1. c \in [1..Shared -> Block]
    BY <1>2, <1>3
  <2> QED
    BY <1>1, <2>1
<1>5. WellFormed(c)
  <2>1. c[1].index = 0 /\ Len(c) > 0
    BY <1>1, <1>3, <1>4
  <2>2. ASSUME NEW i \in 1..Len(c) PROVE c[i].index = c[1].index + i - 1
    BY <1>1, <1>3, <1>4, <2>1
  <2>3. ASSUME NEW i \in 2..Len(c) PROVE c[i].prev = c[i-1].hash /\ c[i].sealed
    <3>1. i \in 1..Shared /\ i - 1 \in 1..Shared /\ i > 1 /\ (i - 1) - 1 = i - 2
      BY <1>1, <1>4
    <3>2. c[i].prev = <<f, i - 2>> /\ c[i].sealed
      BY <1>3, <3>1
    <3>3. c[i-1].hash = <<f, (i - 1) - 1>>
      BY <1>3, <3>1
    <3> QED
      BY <3>1, <3>2, <3>3
  <2> QED
    BY <2>1, <2>2, <2>3 DEF WellFormed, Linked
<1> QED
  BY <1>3, <1>4, <1>5 DEF c

\* The invariant holds initially.
LEMMA InitInv == Init => Inv
<1> SUFFICES ASSUME Init PROVE Inv
  OBVIOUS
<1>1. Shared \in Nat \ {0}
  BY BoundsAssumption, IntervalAssumption
<1>2. ASSUME NEW n \in Node
      PROVE  /\ chain[n] = FoundersChain(Founder[n])
             /\ Founder[n] \in Node
             /\ chain[n] \in Seq(Block)
             /\ Len(chain[n]) = Shared
             /\ WellFormed(chain[n])
             /\ temp[n] = <<>>
  BY FoundersChainSound, NodeAssumption DEF Init
<1>3. ASSUME NEW b \in found
      PROVE  \E f \in Node : \E i \in 1..Shared :
               /\ b = FoundersChain(f)[i]
               /\ b \in Block
               /\ b.hash = <<f, i - 1>>
               /\ b.index > 0 => b.sealed
  <2>1. PICK n \in Node, i \in 1..Shared : b = FoundersChain(Founder[n])[i]
    BY DEF Init
  <2>2. Founder[n] \in Node
    BY NodeAssumption
  <2>3. /\ FoundersChain(Founder[n]) \in Seq(Block)
        /\ Len(FoundersChain(Founder[n])) = Shared
        /\ b.hash = <<Founder[n], i - 1>>
        /\ i > 1 => b.sealed
        /\ b.index = i - 1
    BY <2>1, <2>2, FoundersChainSound
  <2>4. b \in Block
    BY <2>1, <2>3, ElementOfSeq
  <2>5. b.index > 0 => b.sealed
    BY <1>1, <2>3
  <2> QED
    BY <2>1, <2>2, <2>3, <2>4, <2>5
<1>4. TypeOK
  <2>1. chain \in [Node -> Seq(Block)] /\ temp \in [Node -> Seq(Block)]
    BY <1>2 DEF Init
  <2>2. pc \in [Node -> PcValues]
    BY DEF Init, StartOfMining, PcValues
  <2>3. cand \in [Node -> Unmined \cup {NoUnmined}]
    BY DEF Init
  <2>4. mined \in [Node -> Nat]
    BY <1>1 DEF Init
  <2>5. found \subseteq Block
    BY <1>3
  <2>6. status \in [Node -> StatusValues] /\ drops \in Nat /\ restarts \in Nat
    BY DEF Init, StatusValues
  <2>7. open \in [Peers -> BOOLEAN] /\ wire \in [Peers -> [Node -> Seq(Message)]]
    BY DEF Init
  <2> QED
    BY <2>1, <2>2, <2>3, <2>4, <2>5, <2>6, <2>7 DEF TypeOK
<1>5. ChainsWellFormed /\ TempFits
  BY <1>2 DEF ChainsWellFormed, TempFits
<1>6. CandidateFresh /\ PassiveKeepsNoUpdate
  BY <1>2 DEF Init, StartOfMining, CandidateFresh, PassiveKeepsNoUpdate
<1>7. FoundSound
  <2>1. ASSUME NEW b \in found
        PROVE  b.hash[2] <= mined[b.hash[1]] /\ (b.index > 0 => b.sealed)
    <3>1. PICK f \in Node, i \in 1..Shared :
            b.hash = <<f, i - 1>> /\ (b.index > 0 => b.sealed)
      BY <1>3
    <3>2. mined[f] = Shared - 1
      BY DEF Init
    <3> QED
      BY <1>1, <3>1, <3>2
  <2>2. ASSUME NEW a \in found, NEW b \in found, a.hash = b.hash PROVE a = b
    <3>1. PICK f \in Node, i \in 1..Shared :
            a = FoundersChain(f)[i] /\ a.hash = <<f, i - 1>>
      BY <1>3
    <3>2. PICK g \in Node, j \in 1..Shared :
            b = FoundersChain(g)[j] /\ b.hash = <<g, j - 1>>
      BY <1>3
    <3>3. f = g /\ i - 1 = j - 1
      BY <2>2, <3>1, <3>2
    <3>4. i = j
      BY <1>1, <3>3
    <3> QED
      BY <3>1, <3>2, <3>3, <3>4
  <2> QED
    BY <2>1, <2>2 DEF FoundSound
<1>8. WireSound
  <2>1. \A l \in Peers, n \in Node : wire[l][n] = <<>> /\ Len(<<>>) = 0
    BY DEF Init
  <2> QED
    BY <2>1 DEF WireSound
<1>9. ASSUME NEW n \in Node PROVE FromFound(chain[n]) /\ FromFound(temp[n])
  BY <1>2 DEF Init, FromFound
<1> QED
  BY <1>4, <1>5, <1>6, <1>7, <1>8, <1>9 DEF Inv, SyncInv

-------------------------------------------------------------------------------
(* Connections and processes.                                                 *)

\* Opening a connection preserves the invariant.
LEMMA ConnectInv ==
  ASSUME Inv, NEW l \in Peers, Connect(l)
  PROVE  Inv'
<1>1. l[2] \in Node
  BY PeersAssumption
<1>2. NodesInv'
  BY NodesUnchanged DEF Connect
<1>3. <<SummaryRequest>> \in Seq(Message) /\ Len(<<SummaryRequest>>) = 1
        /\ <<SummaryRequest>>[1] = SummaryRequest
  BY MessageTypes
<1>4. wire' = [wire EXCEPT ![l][l[2]] = <<SummaryRequest>>]
  BY DEF Connect
<1>5. wire' \in [Peers -> [Node -> Seq(Message)]]
  BY <1>1, <1>3, <1>4 DEF Inv, TypeOK
<1>6. ASSUME NEW k \in Peers, NEW m \in Node, NEW i \in 1..Len(wire'[k][m])
      PROVE  MessageSound(wire'[k][m][i])
  <2>1. CASE k = l /\ m = l[2]
    <3>1. wire'[k][m] = <<SummaryRequest>>
      BY <1>1, <1>4, <2>1 DEF Inv, TypeOK
    <3>2. wire'[k][m][i].message = "summary"
      BY <1>3, <3>1 DEF SummaryRequest
    <3> QED
      BY <3>2 DEF MessageSound
  <2>2. CASE ~(k = l /\ m = l[2])
    <3>1. wire'[k][m] = wire[k][m]
      BY <1>1, <1>4, <2>2 DEF Inv, TypeOK
    <3> QED
      BY <3>1 DEF Inv, SyncInv, WireSound, MessageSound, FromFound
  <2> QED
    BY <2>1, <2>2
<1>7. WireSound'
  BY <1>6 DEF Connect, WireSound, MessageSound, FromFound
<1>8. /\ open' \in [Peers -> BOOLEAN] /\ pc' \in [Node -> PcValues]
      /\ cand' \in [Node -> Unmined \cup {NoUnmined}]
      /\ status' \in [Node -> StatusValues] /\ drops' \in Nat /\ restarts' \in Nat
      /\ UNCHANGED <<mined, found>>
  BY DEF Inv, TypeOK, Connect
<1> QED
  BY <1>2, <1>5, <1>7, <1>8, InvFromParts

\* Losing a connection preserves the invariant.
LEMMA DisconnectInv ==
  ASSUME Inv, NEW l \in Peers, Disconnect(l)
  PROVE  Inv'
<1>1. NodesInv'
  BY NodesUnchanged DEF Disconnect
<1>2. <<>> \in Seq(Message) /\ Len(<<>>) = 0
  OBVIOUS
<1>3. wire' = [wire EXCEPT ![l] = [n \in Node |-> <<>>]]
  BY DEF Disconnect
<1>4. wire' \in [Peers -> [Node -> Seq(Message)]]
  BY <1>2, <1>3 DEF Inv, TypeOK
<1>5. ASSUME NEW k \in Peers, NEW m \in Node, NEW i \in 1..Len(wire'[k][m])
      PROVE  MessageSound(wire'[k][m][i])
  <2>1. k # l
    BY <1>2, <1>3 DEF Inv, TypeOK
  <2>2. wire'[k][m] = wire[k][m]
    BY <1>3, <2>1 DEF Inv, TypeOK
  <2> QED
    BY <2>2 DEF Inv, SyncInv, WireSound, MessageSound, FromFound
<1>6. WireSound'
  BY <1>5 DEF Disconnect, WireSound, MessageSound, FromFound
<1>7. /\ open' \in [Peers -> BOOLEAN] /\ pc' \in [Node -> PcValues]
      /\ cand' \in [Node -> Unmined \cup {NoUnmined}]
      /\ status' \in [Node -> StatusValues] /\ drops' \in Nat /\ restarts' \in Nat
      /\ UNCHANGED <<mined, found>>
  BY DEF Inv, TypeOK, Disconnect
<1> QED
  BY <1>1, <1>4, <1>6, <1>7, InvFromParts

\* Restarting a process preserves the invariant.
LEMMA RestartInv ==
  ASSUME Inv, NEW n \in Node, Restart(n)
  PROVE  Inv'
<1>1. StartOfMining(n) \in PcValues \ {"mining"}
  BY DEF StartOfMining, PcValues
<1>2. NodesInv' /\ pc' \in [Node -> PcValues]
  BY <1>1, ResetNode DEF Restart
<1>3. open' \in [Peers -> BOOLEAN] /\ wire' \in [Peers -> [Node -> Seq(Message)]] /\ WireSound'
  BY HangUpWire DEF Restart
<1>4. /\ drops' \in Nat /\ restarts' \in Nat
      /\ cand' \in [Node -> Unmined \cup {NoUnmined}]
      /\ UNCHANGED <<mined, found>>
  BY DEF Inv, TypeOK, Restart
<1>5. status' \in [Node -> StatusValues]
  <2>1. "up" \in StatusValues
    BY DEF StatusValues
  <2> QED
    BY <2>1 DEF Inv, TypeOK, Restart
<1> QED
  BY <1>2, <1>3, <1>4, <1>5, InvFromParts

-------------------------------------------------------------------------------
(* The mining thread.                                                         *)

\* Building a block to mine, or ending because the difficulty wrapped, preserves
\* the invariant: the block is built for the chain as it is.
LEMMA BeginBlockInv ==
  ASSUME Inv, NEW n \in Node, BeginBlock(n)
  PROVE  Inv'
<1> DEFINE d == getAdjustedDifficulty(chain[n])
           u == UnminedBlock(chain[n], d)
<1>1. chain[n] \in Seq(Block) /\ WellFormed(chain[n])
  BY DEF Inv, TypeOK, SyncInv, ChainsWellFormed
<1>2. d \in Int
  BY <1>1, AdjustedDifficultyType DEF Block
<1>3. CASE d < 0
  <2>1. Terminate(n, "difficulty") /\ "difficulty" \in StatusValues
    BY <1>3 DEF BeginBlock, StatusValues
  <2> QED
    BY <2>1, TerminateInv
<1>4. CASE ~(d < 0)
  <2>1. /\ cand' = [cand EXCEPT ![n] = u]
        /\ pc' = [pc EXCEPT ![n] = "mining"]
        /\ UNCHANGED <<chain, temp, mined, found, status, open, wire, drops, restarts>>
    BY <1>4 DEF BeginBlock
  <2>2. Len(chain[n]) \in Nat /\ back(chain[n]) \in Block
    BY <1>1, BackOfChain DEF Block
  <2>3. u \in Unmined /\ u.index = Len(chain[n]) /\ u.prev = back(chain[n]).hash
    BY <1>2, <1>4, <2>2 DEF UnminedBlock, Unmined, Block, BlockOver
  <2>4. u # NoUnmined
    BY <2>3 DEF UnminedBlock, NoUnmined
  <2> HIDE DEF d, u
  <2>5. cand'[n] = u /\ \A m \in Node : m # n => cand'[m] = cand[m] /\ pc'[m] = pc[m]
    BY <2>1 DEF Inv, TypeOK
  <2>6. CandidateFresh'
    BY <2>1, <2>3, <2>4, <2>5 DEF Inv, SyncInv, CandidateFresh, CandidateOnTop
  <2>7. PassiveKeepsNoUpdate'
    BY <2>1, <2>5 DEF Inv, TypeOK, SyncInv, PassiveKeepsNoUpdate
  <2>8. NodesInv'
    BY <2>1, <2>6, <2>7 DEF Inv, TypeOK, SyncInv, NodesInv, ChainsWellFormed, TempFits, FromFound
  <2>9. /\ pc' \in [Node -> PcValues] /\ cand' \in [Node -> Unmined \cup {NoUnmined}]
    BY <2>1, <2>3 DEF Inv, TypeOK, PcValues
  <2>10. /\ wire' \in [Peers -> [Node -> Seq(Message)]] /\ open' \in [Peers -> BOOLEAN]
        /\ status' \in [Node -> StatusValues] /\ drops' \in Nat /\ restarts' \in Nat
        /\ WireSound'
    BY <2>1 DEF Inv, TypeOK, SyncInv, WireSound, MessageSound, FromFound
  <2> QED
    BY <2>1, <2>8, <2>9, <2>10, InvFromParts
<1> QED
  BY <1>2, <1>3, <1>4

\* Giving up a block preserves the invariant.
LEMMA AbortBlockInv ==
  ASSUME Inv, NEW n \in Node, AbortBlock(n)
  PROVE  Inv'
<1>1. pc' = [pc EXCEPT ![n] = "aborted"]
  BY DEF AbortBlock
<1>2. /\ pc' \in [Node -> PcValues]
      /\ \A m \in Node : /\ pc'[m] = "mining" => pc[m] = "mining"
                        /\ pc'[m] = "off" => pc[m] = "off"
  BY <1>1 DEF Inv, TypeOK, PcValues
<1>3. CandidateFresh' /\ PassiveKeepsNoUpdate'
  BY <1>2 DEF AbortBlock, Inv, SyncInv, CandidateFresh, CandidateOnTop, PassiveKeepsNoUpdate
<1>4. NodesInv'
  BY <1>3 DEF AbortBlock, Inv, TypeOK, SyncInv, NodesInv, ChainsWellFormed, TempFits, FromFound
<1>5. /\ wire' \in [Peers -> [Node -> Seq(Message)]] /\ open' \in [Peers -> BOOLEAN]
      /\ status' \in [Node -> StatusValues] /\ drops' \in Nat /\ restarts' \in Nat
      /\ cand' \in [Node -> Unmined \cup {NoUnmined}]
      /\ WireSound' /\ UNCHANGED <<mined, found>>
  BY DEF AbortBlock, Inv, TypeOK, SyncInv, WireSound, MessageSound, FromFound
<1> QED
  BY <1>2, <1>4, <1>5, InvFromParts

\* The block a mining thread finds is a block with a hash of its own on top
\* of the node's chain, so that addNewBlock appends it.
LEMMA FoundBlockFacts ==
  ASSUME Inv, NEW n \in Node, pc[n] = "mining", NEW t \in Times[n]
  PROVE  LET b == MinedBlock(cand[n], <<n, mined[n] + 1>>, t)
         IN  /\ b \in Block
             /\ b.index = Len(chain[n]) /\ b.prev = back(chain[n]).hash /\ b.sealed
             /\ b.hash = <<n, mined[n] + 1>>
             /\ \A a \in found : a.hash # b.hash
             /\ addNewBlock(chain[n], b) = Append(chain[n], b)
<1> DEFINE b == MinedBlock(cand[n], <<n, mined[n] + 1>>, t)
<1>1. /\ cand[n] # NoUnmined
      /\ cand[n].index = Len(chain[n])
      /\ cand[n].prev = back(chain[n]).hash
  BY DEF Inv, SyncInv, CandidateFresh, CandidateOnTop
<1>2. cand[n] \in Unmined /\ mined[n] \in Nat /\ t \in Int
  BY <1>1, BoundsAssumption DEF Inv, TypeOK
<1>3. <<n, mined[n] + 1>> \in Hash
  BY <1>2 DEF Hash
<1>4. /\ b.index = cand[n].index /\ b.prev = cand[n].prev /\ b.sealed = TRUE
      /\ b.hash = <<n, mined[n] + 1>>
  BY DEF MinedBlock
<1>5. b \in Block
  BY <1>2, <1>3 DEF MinedBlock, Unmined, Block, BlockOver
<1> HIDE DEF b
<1>6. ASSUME NEW a \in found, a.hash = b.hash PROVE FALSE
  <2>1. a.hash[1] = n /\ a.hash[2] = mined[n] + 1
    BY <1>4, <1>6
  <2>2. a.hash[2] <= mined[a.hash[1]]
    BY <1>6 DEF Inv, SyncInv, FoundSound
  <2> QED
    BY <1>2, <2>1, <2>2
<1>7. addNewBlock(chain[n], b) = Append(chain[n], b)
  BY <1>1, <1>4 DEF addNewBlock, ValidHash
<1> QED
  BY <1>1, <1>4, <1>5, <1>6, <1>7 DEF b

\* Finding a block preserves the invariant: the hash is new, the chain grows by
\* one well-formed block and an update that was waiting still fits.
LEMMA FoundBlockInv ==
  ASSUME Inv, NEW n \in Node, FoundBlock(n)
  PROVE  Inv'
<1>1. PICK t \in Times[n] :
        LET b == MinedBlock(cand[n], <<n, mined[n] + 1>>, t)
            c == addNewBlock(chain[n], b)
        IN  /\ chain' = [chain EXCEPT ![n] = c]
            /\ found' = found \cup {b}
            /\ pc' = [pc EXCEPT ![n] = IF c = chain[n] THEN "off" ELSE "found"]
  BY DEF FoundBlock
<1> DEFINE b == MinedBlock(cand[n], <<n, mined[n] + 1>>, t)
           c == Append(chain[n], b)
           at == IF c = chain[n] THEN "off" ELSE "found"
<1>2. pc[n] = "mining"
  BY DEF FoundBlock, Mining
<1>3. /\ b \in Block
      /\ b.index = Len(chain[n]) /\ b.prev = back(chain[n]).hash /\ b.sealed
      /\ b.hash = <<n, mined[n] + 1>>
      /\ \A a \in found : a.hash # b.hash
      /\ addNewBlock(chain[n], b) = c
  BY <1>2, FoundBlockFacts
<1>4. /\ chain' = [chain EXCEPT ![n] = c]
      /\ found' = found \cup {b}
      /\ pc' = [pc EXCEPT ![n] = at]
  BY <1>1, <1>3
<1>5. chain[n] \in Seq(Block) /\ WellFormed(chain[n]) /\ Len(chain[n]) \in Nat
  BY LenProperties DEF Inv, TypeOK, SyncInv, ChainsWellFormed
<1> HIDE DEF b
<1>6. WellFormed(c)
  BY <1>3, <1>5, AppendWellFormed DEF Block
<1>7. /\ c \in Seq(Block)
      /\ Len(c) = Len(chain[n]) + 1
      /\ \A i \in 1..Len(chain[n]) : c[i] = chain[n][i]
      /\ c[Len(chain[n]) + 1] = b
  BY <1>3, <1>5, AppendProperties
<1>8. at \in PcValues /\ at = "found"
  BY <1>5, <1>7 DEF PcValues
<1> HIDE DEF c, at
<1>9. /\ chain' \in [Node -> Seq(Block)] /\ chain'[n] = c
      /\ \A m \in Node : m # n => chain'[m] = chain[m]
  BY <1>4, <1>7 DEF Inv, TypeOK
<1>10. /\ pc' \in [Node -> PcValues] /\ pc'[n] = at
       /\ \A m \in Node : m # n => pc'[m] = pc[m]
  BY <1>4, <1>8 DEF Inv, TypeOK
<1>11. /\ UNCHANGED <<temp, cand, status, open, wire, drops, restarts>>
       /\ mined' = [mined EXCEPT ![n] = @ + 1]
  BY DEF FoundBlock
<1>12. /\ mined' \in [Node -> Nat] /\ mined[n] \in Nat /\ mined'[n] = mined[n] + 1
       /\ \A m \in Node : m # n => mined'[m] = mined[m]
  BY <1>11 DEF Inv, TypeOK
<1>13. TypeOK'
  BY <1>3, <1>4, <1>9, <1>10, <1>11, <1>12 DEF Inv, TypeOK
<1>14. ChainsWellFormed'
  BY <1>6, <1>9 DEF Inv, SyncInv, ChainsWellFormed
<1>15. TempFits'
  <2> SUFFICES ASSUME NEW m \in Node, temp[m] # <<>>
               PROVE  UpdateFits(chain'[m], temp[m])
    BY <1>11 DEF TempFits
  <2>1. UpdateFits(chain[m], temp[m])
    BY DEF Inv, SyncInv, TempFits
  <2>2. CASE m # n
    BY <1>9, <2>1, <2>2
  <2>3. CASE m = n
    <3>1. CASE temp[n][1].index = 0
      BY <2>1, <2>3, <3>1 DEF UpdateFits
    <3>2. CASE temp[n][1].index # 0
      <4>1. temp[n][1].index \in 1..Len(chain[n])
        BY <2>1, <2>3, <3>2 DEF UpdateFits
      <4>2. temp[n][1].index \in 1..Len(c) /\ c[temp[n][1].index] = chain[n][temp[n][1].index]
        BY <1>5, <1>7, <4>1
      <4> QED
        BY <1>9, <2>1, <2>3, <3>2, <4>2 DEF UpdateFits
    <3> QED
      BY <3>1, <3>2
  <2> QED
    BY <2>2, <2>3
<1>16. CandidateFresh' /\ PassiveKeepsNoUpdate'
  BY <1>8, <1>9, <1>10, <1>11 DEF Inv, SyncInv, CandidateFresh, CandidateOnTop,
                                  PassiveKeepsNoUpdate
<1>17. FoundSound'
  <2>1. ASSUME NEW a \in found'
        PROVE  a.hash[2] <= mined'[a.hash[1]] /\ (a.index > 0 => a.sealed)
    <3>1. CASE a = b
      BY <1>3, <1>12, <3>1
    <3>2. CASE a \in found
      <4>1. a.hash[2] <= mined[a.hash[1]] /\ (a.index > 0 => a.sealed)
        BY <3>2 DEF Inv, SyncInv, FoundSound
      <4>2. a.hash[1] \in Node /\ a.hash[2] \in Nat
        BY <3>2 DEF Inv, TypeOK, Block, BlockOver, Hash
      <4>3. mined[a.hash[1]] \in Nat
        BY <4>2 DEF Inv, TypeOK
      <4>4. mined'[a.hash[1]] \in Nat /\ mined[a.hash[1]] <= mined'[a.hash[1]]
        BY <1>12, <4>2, <4>3
      <4> QED
        BY <4>1, <4>2, <4>3, <4>4
    <3> QED
      BY <1>4, <3>1, <3>2
  <2>2. ASSUME NEW a1 \in found', NEW a2 \in found', a1.hash = a2.hash PROVE a1 = a2
    BY <1>3, <1>4, <2>2 DEF Inv, SyncInv, FoundSound
  <2> QED
    BY <2>1, <2>2 DEF FoundSound
<1>18. WireSound'
  BY <1>4, <1>11 DEF Inv, SyncInv, WireSound, MessageSound, FromFound
<1>19. ASSUME NEW m \in Node PROVE FromFound(chain[m])' /\ FromFound(temp[m])'
  <2>1. FromFound(temp[m])'
    BY <1>4, <1>11 DEF Inv, SyncInv, FromFound
  <2>2. CASE m # n
    BY <1>4, <1>9, <2>1, <2>2 DEF Inv, SyncInv, FromFound
  <2>3. CASE m = n
    <3>1. ASSUME NEW i \in 1..Len(c) PROVE c[i] \in found'
      <4>1. CASE i = Len(chain[n]) + 1
        BY <1>4, <1>7, <4>1
      <4>2. CASE i # Len(chain[n]) + 1
        <5>1. i \in 1..Len(chain[n])
          BY <1>5, <1>7, <4>2
        <5>2. c[i] = chain[n][i]
          BY <1>7, <5>1
        <5> QED
          BY <1>4, <5>1, <5>2 DEF Inv, SyncInv, FromFound
      <4> QED
        BY <4>1, <4>2
    <3> QED
      BY <1>9, <2>1, <2>3, <3>1 DEF FromFound
  <2> QED
    BY <2>2, <2>3
<1> QED
  BY <1>13, <1>14, <1>15, <1>16, <1>17, <1>18, <1>19 DEF Inv, SyncInv

\* Applying the update that waits preserves the invariant.
LEMMA SyncBlockchainInv ==
  ASSUME Inv, NEW n \in Node, SyncBlockchain(n)
  PROVE  Inv'
<1> DEFINE d == SyncedChain(chain[n], temp[n])
           at == IF pc[n] = "found" /\ ~SyncReturns(chain[n], temp[n])
                   THEN "announce" ELSE "template"
<1>1. /\ chain' = [chain EXCEPT ![n] = d]
      /\ temp' = [temp EXCEPT ![n] = <<>>]
      /\ pc' = [pc EXCEPT ![n] = at]
      /\ UNCHANGED <<cand, mined, found, status, open, wire, drops, restarts>>
  BY DEF SyncBlockchain
<1>2. /\ chain[n] \in Seq(Block) /\ WellFormed(chain[n]) /\ temp[n] \in Seq(Block)
      /\ temp[n] # <<>> => UpdateFits(chain[n], temp[n])
  BY DEF Inv, TypeOK, SyncInv, ChainsWellFormed, TempFits
<1>3. /\ d \in Seq(Block)
      /\ WellFormed(d)
      /\ \A i \in 1..Len(d) : \/ \E j \in 1..Len(chain[n]) : d[i] = chain[n][j]
                              \/ \E j \in 1..Len(temp[n]) : d[i] = temp[n][j]
  BY <1>2, SyncedChainEffect
<1>4. at \in PcValues /\ at # "mining"
  BY DEF PcValues
<1> HIDE DEF d, at
<1>5. \A i \in 1..Len(d) : d[i] \in found
  BY <1>3 DEF Inv, SyncInv, FromFound
<1>6. /\ chain' \in [Node -> Seq(Block)] /\ temp' \in [Node -> Seq(Block)]
      /\ pc' \in [Node -> PcValues]
  BY <1>1, <1>3, <1>4 DEF Inv, TypeOK
<1>7. chain'[n] = d /\ temp'[n] = <<>> /\ pc'[n] = at /\ Len(<<>>) = 0
  BY <1>1 DEF Inv, TypeOK
<1>8. \A m \in Node : m # n => chain'[m] = chain[m] /\ temp'[m] = temp[m] /\ pc'[m] = pc[m]
  BY <1>1 DEF Inv, TypeOK
<1>9. ChainsWellFormed' /\ TempFits'
  BY <1>3, <1>7, <1>8 DEF Inv, SyncInv, ChainsWellFormed, TempFits
<1>10. CandidateFresh'
  BY <1>1, <1>4, <1>7, <1>8 DEF Inv, SyncInv, CandidateFresh, CandidateOnTop
<1>11. ASSUME NEW m \in Node PROVE FromFound(chain[m])' /\ FromFound(temp[m])'
  BY <1>1, <1>5, <1>7, <1>8 DEF Inv, SyncInv, FromFound
<1>12. PassiveKeepsNoUpdate'
  BY <1>7, <1>8 DEF Inv, SyncInv, PassiveKeepsNoUpdate
<1>13. NodesInv'
  BY <1>6, <1>9, <1>10, <1>11, <1>12 DEF NodesInv
<1>14. /\ wire' \in [Peers -> [Node -> Seq(Message)]] /\ open' \in [Peers -> BOOLEAN]
       /\ status' \in [Node -> StatusValues] /\ drops' \in Nat /\ restarts' \in Nat
       /\ cand' \in [Node -> Unmined \cup {NoUnmined}]
       /\ WireSound'
  BY <1>1 DEF Inv, TypeOK, SyncInv, WireSound, MessageSound, FromFound
<1> QED
  BY <1>1, <1>6, <1>13, <1>14, InvFromParts

\* Announcing a block preserves the invariant.
LEMMA BroadcastNewBlockInv ==
  ASSUME Inv, NEW n \in Node, BroadcastNewBlock(n)
  PROVE  Inv'
<1> DEFINE m == NewBlockRequest(back(chain[n]), cumDifficulty(chain[n]))
           Extended(l) == open[l] /\ l[1] = n
<1>1. chain[n] \in Seq(Block) /\ WellFormed(chain[n])
  BY DEF Inv, TypeOK, SyncInv, ChainsWellFormed
<1>2. back(chain[n]) \in Block /\ cumDifficulty(chain[n]) \in Nat
  BY <1>1, BackOfChain, CumDifficultyType DEF Block, WellFormed
<1>3. m \in Message /\ m.message = "newblock"
  BY <1>2, MessageTypes DEF NewBlockRequest
<1>4. wire' = [l \in Peers |-> IF Extended(l)
                                 THEN [wire[l] EXCEPT ![l[2]] = Append(@, m)]
                                 ELSE wire[l]]
  BY DEF BroadcastNewBlock
<1> HIDE DEF m, Extended
<1>5. ASSUME NEW l \in Peers, NEW k \in Node
      PROVE  /\ wire[l][k] \in Seq(Message)
             /\ \/ wire'[l][k] = wire[l][k]
                \/ wire'[l][k] = Append(wire[l][k], m)
  BY <1>4 DEF Inv, TypeOK
<1>6. wire' \in [Peers -> [Node -> Seq(Message)]]
  <2>1. ASSUME NEW l \in Peers PROVE wire'[l] \in [Node -> Seq(Message)]
    <3>1. \A k \in Node : Append(wire[l][k], m) \in Seq(Message)
      BY <1>3, <1>5, AppendProperties
    <3> QED
      BY <1>4, <3>1, PeersAssumption DEF Inv, TypeOK
  <2> QED
    BY <1>4, <2>1
<1>7. ASSUME NEW l \in Peers, NEW k \in Node, NEW i \in 1..Len(wire'[l][k])
      PROVE  MessageSound(wire'[l][k][i])
  <2>1. \A j \in 1..Len(wire[l][k]) : MessageSound(wire[l][k][j])
    BY DEF Inv, SyncInv, WireSound
  <2>2. CASE wire'[l][k] = wire[l][k]
    BY <2>1, <2>2
  <2>3. CASE wire'[l][k] = Append(wire[l][k], m)
    <3>1. /\ Len(wire[l][k]) \in Nat
          /\ Len(wire'[l][k]) = Len(wire[l][k]) + 1
          /\ \A j \in 1..Len(wire[l][k]) : wire'[l][k][j] = wire[l][k][j]
          /\ wire'[l][k][Len(wire[l][k]) + 1] = m
      BY <1>3, <1>5, <2>3, AppendProperties, LenProperties
    <3>2. CASE i = Len(wire[l][k]) + 1
      BY <1>3, <3>1, <3>2 DEF MessageSound
    <3>3. CASE i # Len(wire[l][k]) + 1
      <4>1. i \in 1..Len(wire[l][k])
        BY <3>1, <3>3
      <4> QED
        BY <2>1, <3>1, <4>1
    <3> QED
      BY <3>2, <3>3
  <2> QED
    BY <1>5, <2>2, <2>3
<1>8. UNCHANGED <<chain, temp, cand, mined, found, status, open, drops, restarts>>
        /\ pc' = [pc EXCEPT ![n] = "template"]
  BY DEF BroadcastNewBlock
<1>9. WireSound'
  BY <1>7, <1>8 DEF WireSound, MessageSound, FromFound
<1>10. /\ pc' \in [Node -> PcValues]
       /\ \A k \in Node : /\ pc'[k] = "mining" => pc[k] = "mining"
                         /\ pc'[k] = "off" => pc[k] = "off"
  BY <1>8 DEF Inv, TypeOK, PcValues
<1>11. CandidateFresh' /\ PassiveKeepsNoUpdate'
  BY <1>8, <1>10 DEF Inv, SyncInv, CandidateFresh, CandidateOnTop, PassiveKeepsNoUpdate
<1>12. NodesInv'
  BY <1>8, <1>11 DEF Inv, TypeOK, SyncInv, NodesInv, ChainsWellFormed, TempFits, FromFound
<1>13. /\ open' \in [Peers -> BOOLEAN]
       /\ status' \in [Node -> StatusValues] /\ drops' \in Nat /\ restarts' \in Nat
       /\ cand' \in [Node -> Unmined \cup {NoUnmined}]
  BY <1>8 DEF Inv, TypeOK
<1> QED
  BY <1>6, <1>8, <1>9, <1>10, <1>12, <1>13, InvFromParts

-------------------------------------------------------------------------------
(* The message handlers.                                                      *)

\* A single message in place of a sequence of replies.
LEMMA OneReply ==
  ASSUME NEW reply \in Message, MessageSound(reply)
  PROVE  /\ <<reply>> \in Seq(Message)
         /\ \A j \in 1..Len(<<reply>>) : MessageSound(<<reply>>[j])
  OBVIOUS

\* A handler that answers and changes nothing of its node.
LEMMA AnswerOnlyInv ==
  ASSUME Inv, NEW l \in Peers, NEW n \in Ends(l), wire[l][n] # <<>>,
         NEW replies \in Seq(Message), \A j \in 1..Len(replies) : MessageSound(replies[j]),
         Reply(l, n, replies),
         UNCHANGED <<chain, temp, pc, cand, mined, found, status, open, drops, restarts>>
  PROVE  Inv'
<1>1. wire' \in [Peers -> [Node -> Seq(Message)]] /\ WireSound'
  BY ReplyWire
<1>2. NodesInv'
  BY NodesUnchanged
<1>3. /\ open' \in [Peers -> BOOLEAN] /\ pc' \in [Node -> PcValues]
      /\ cand' \in [Node -> Unmined \cup {NoUnmined}]
      /\ status' \in [Node -> StatusValues] /\ drops' \in Nat /\ restarts' \in Nat
  BY DEF Inv, TypeOK
<1> QED
  BY <1>1, <1>2, <1>3, InvFromParts

\* A handler that may answer with requests and ends with the trailing
\* syncBlockchain for an update that fits.
LEMMA RespondInv ==
  ASSUME Inv, NEW l \in Peers, NEW n \in Ends(l), wire[l][n] # <<>>,
         NEW replies \in Seq(Message), \A j \in 1..Len(replies) : MessageSound(replies[j]),
         Reply(l, n, replies),
         NEW t \in Seq(Block), t # <<>> => UpdateFits(chain[n], t), FromFound(t),
         CacheOrSync(n, t),
         UNCHANGED <<pc, cand, mined, found, status, open, drops, restarts>>
  PROVE  Inv'
<1>1. n \in Node
  BY EndsOfLink
<1>2. wire' \in [Peers -> [Node -> Seq(Message)]] /\ WireSound'
  BY ReplyWire
<1>3. NodesInv'
  BY <1>1, CacheOrSyncNodes
<1>4. /\ open' \in [Peers -> BOOLEAN] /\ pc' \in [Node -> PcValues]
      /\ cand' \in [Node -> Unmined \cup {NoUnmined}]
      /\ status' \in [Node -> StatusValues] /\ drops' \in Nat /\ restarts' \in Nat
  BY DEF Inv, TypeOK
<1> QED
  BY <1>2, <1>3, <1>4, InvFromParts

\* What is known of a node's own chain and of the update it keeps.
LEMMA NodeFacts ==
  ASSUME Inv, NEW n \in Node
  PROVE  /\ chain[n] \in Seq(Block) /\ WellFormed(chain[n]) /\ FromFound(chain[n])
         /\ Len(chain[n]) \in Nat \ {0}
         /\ front(chain[n]) \in Block
         /\ back(chain[n]) \in Block /\ back(chain[n]).index = Len(chain[n]) - 1
         /\ cumDifficulty(chain[n]) \in Nat
         /\ temp[n] \in Seq(Block) /\ FromFound(temp[n])
         /\ temp[n] # <<>> => UpdateFits(chain[n], temp[n])
<1>1. /\ chain[n] \in Seq(Block) /\ WellFormed(chain[n])
      /\ temp[n] \in Seq(Block) /\ FromFound(temp[n]) /\ FromFound(chain[n])
      /\ temp[n] # <<>> => UpdateFits(chain[n], temp[n])
  BY DEF Inv, TypeOK, SyncInv, ChainsWellFormed, TempFits
<1>2. /\ Len(chain[n]) \in Nat \ {0} /\ back(chain[n]).index = Len(chain[n]) - 1
      /\ front(chain[n]) \in Block /\ back(chain[n]) \in Block
  BY <1>1, BackOfChain DEF Block
<1>3. cumDifficulty(chain[n]) \in Nat
  BY <1>1, CumDifficultyType DEF Block, WellFormed
<1> QED
  BY <1>1, <1>2, <1>3

\* Answering a request for a summary preserves the invariant.
LEMMA HandleSummaryRequestInv ==
  ASSUME Inv, NEW l \in Peers, NEW n \in Ends(l), HandleSummaryRequest(l, n)
  PROVE  Inv'
<1> DEFINE reply == SummaryResponse(front(chain[n]), back(chain[n]), cumDifficulty(chain[n]))
<1>1. n \in Node /\ wire[l][n] # <<>>
  BY EndsOfLink DEF HandleSummaryRequest, Arrives
<1>2. reply \in Message
  BY <1>1, NodeFacts, MessageTypes
<1>3. MessageSound(reply)
  BY DEF MessageSound, SummaryResponse
<1>4. /\ Reply(l, n, <<reply>>)
      /\ UNCHANGED <<chain, temp, pc, cand, mined, found, status, open, drops, restarts>>
  BY DEF HandleSummaryRequest
<1> HIDE DEF reply
<1> QED
  BY <1>1, <1>2, <1>3, <1>4, OneReply, AnswerOnlyInv

\* Answering a request for blocks preserves the invariant: what is sent is a
\* piece of a well-formed chain.
LEMMA HandleChainRequestInv ==
  ASSUME Inv, NEW l \in Peers, NEW n \in Ends(l), HandleChainRequest(l, n)
  PROVE  Inv'
<1> DEFINE m == Head(wire[l][n])
           blocks == IF m.full THEN chain[n] ELSE Segment(chain[n], m.id1, m.id2)
           reply == ChainResponse(blocks)
<1>1. /\ n \in Node /\ wire[l][n] # <<>> /\ m \in Message
      /\ m.message = "chain" /\ m.kind = "request"
  BY ArrivesFacts DEF HandleChainRequest
<1>2. /\ Reply(l, n, <<reply>>)
      /\ UNCHANGED <<chain, temp, pc, cand, mined, found, status, open, drops, restarts>>
  BY DEF HandleChainRequest
<1>3. m.full = TRUE \/ (m.full = FALSE /\ m.id1 \in Nat /\ m.id2 \in Nat)
  BY <1>1, MessageFields
<1>4. /\ chain[n] \in Seq(Block) /\ WellFormed(chain[n]) /\ FromFound(chain[n])
  BY <1>1, NodeFacts
<1> HIDE DEF m
<1>5. blocks \in Seq(Block) /\ Linked(blocks) /\ FromFound(blocks)
  <2>1. CASE m.full = TRUE
    BY <1>4, <2>1 DEF WellFormed
  <2>2. CASE m.full = FALSE /\ m.id1 \in Nat /\ m.id2 \in Nat
    <3> DEFINE s == Segment(chain[n], m.id1, m.id2)
    <3>1. blocks = s
      BY <2>2
    <3>2. /\ s \in Seq(Block)
          /\ Linked(s)
          /\ \A i \in 1..Len(s) : \E j \in 1..Len(chain[n]) : s[i] = chain[n][j]
      BY <1>4, <2>2, SegmentLinked, SMTT(30) DEF Block
    <3> HIDE DEF s
    <3>3. FromFound(s)
      BY <1>4, <3>2 DEF FromFound
    <3> QED
      BY <3>1, <3>2, <3>3
  <2> QED
    BY <1>3, <2>1, <2>2
<1> HIDE DEF blocks
<1>6. reply \in Message
  BY <1>5, MessageTypes
<1>7. MessageSound(reply)
  BY <1>5 DEF MessageSound, ChainResponse
<1> HIDE DEF reply
<1> QED
  BY <1>1, <1>2, <1>6, <1>7, OneReply, AnswerOnlyInv

\* Handling an announcement preserves the invariant.
LEMMA HandleNewBlockInv ==
  ASSUME Inv, NEW l \in Peers, NEW n \in Ends(l), HandleNewBlock(l, n)
  PROVE  Inv'
<1>1. wire[l][n] # <<>>
  BY DEF HandleNewBlock, Arrives
<1>2. PICK reply \in {SummaryRequest, NewBlockResponse} : Reply(l, n, <<reply>>)
  BY DEF HandleNewBlock
<1>3. reply \in Message /\ MessageSound(reply)
  BY <1>2, MessageTypes DEF MessageSound, SummaryRequest, NewBlockResponse
<1>4. UNCHANGED <<chain, temp, pc, cand, mined, found, status, open, drops, restarts>>
  BY DEF HandleNewBlock
<1> QED
  BY <1>1, <1>2, <1>3, <1>4, OneReply, AnswerOnlyInv

\* The answer to an announcement only makes a passive node apply its update.
LEMMA HandleNewBlockResponseInv ==
  ASSUME Inv, NEW l \in Peers, NEW n \in Ends(l), HandleNewBlockResponse(l, n)
  PROVE  Inv'
<1>1. n \in Node /\ wire[l][n] # <<>>
  BY EndsOfLink DEF HandleNewBlockResponse, Arrives
<1>2. /\ Reply(l, n, <<>>) /\ CacheOrSync(n, temp[n])
      /\ UNCHANGED <<pc, cand, mined, found, status, open, drops, restarts>>
  BY DEF HandleNewBlockResponse
<1>3. <<>> \in Seq(Message) /\ \A j \in 1..Len(<<>>) : MessageSound(<<>>[j])
  OBVIOUS
<1>4. temp[n] \in Seq(Block) /\ FromFound(temp[n])
        /\ (temp[n] # <<>> => UpdateFits(chain[n], temp[n]))
  BY <1>1, NodeFacts
<1> QED
  BY <1>1, <1>2, <1>3, <1>4, RespondInv

\* What a node asks for after a summary are requests.
LEMMA SummaryRepliesSound ==
  ASSUME Inv, NEW n \in Node, NEW m \in Message,
         m.message = "summary", m.kind = "response"
  PROVE  /\ SummaryReplies(n, m) \in Seq(Message)
         /\ \A j \in 1..Len(SummaryReplies(n, m)) : MessageSound(SummaryReplies(n, m)[j])
<1> DEFINE view == IF temp[n] # <<>> THEN temp[n] ELSE chain[n]
           r == ChainRequest(back(view).index + 1, m.last.index)
<1>1. m.last \in Block
  BY MessageFields
<1>2. view \in Seq(Block) /\ Len(view) \in Nat \ {0}
  BY NodeFacts, EmptySeq
<1>3. back(view) \in Block
  <2> HIDE DEF view
  <2> QED
    BY <1>2, ElementOfSeq DEF back
<1>4. back(view).index + 1 \in Nat /\ m.last.index \in Nat
  <2> HIDE DEF view
  <2> QED
    BY <1>1, <1>3 DEF Block, BlockOver
<1>5. r \in Message /\ MessageSound(r)
  <2> HIDE DEF view
  <2>1. r \in Message
    BY <1>4, MessageTypes
  <2>2. MessageSound(r)
    BY DEF MessageSound, ChainRequest
  <2> QED
    BY <2>1, <2>2
<1>6. FullChainRequest \in Message /\ MessageSound(FullChainRequest)
  BY MessageTypes DEF MessageSound, FullChainRequest
<1>7. SummaryReplies(n, m) \in {<<FullChainRequest>>, <<>>, <<r>>}
  BY DEF SummaryReplies
<1> HIDE DEF r, view
<1>8. CASE SummaryReplies(n, m) = <<>>
  BY <1>8
<1>9. CASE SummaryReplies(n, m) = <<r>>
  BY <1>5, <1>9, OneReply
<1>10. CASE SummaryReplies(n, m) = <<FullChainRequest>>
  BY <1>6, <1>10, OneReply
<1> QED
  BY <1>7, <1>8, <1>9, <1>10

\* Handling a summary preserves the invariant.
LEMMA HandleSummaryResponseInv ==
  ASSUME Inv, NEW l \in Peers, NEW n \in Ends(l), HandleSummaryResponse(l, n)
  PROVE  Inv'
<1> DEFINE m == Head(wire[l][n])
           replies == SummaryReplies(n, m)
<1>1. /\ n \in Node /\ wire[l][n] # <<>> /\ m \in Message
      /\ m.message = "summary" /\ m.kind = "response"
  BY ArrivesFacts DEF HandleSummaryResponse
<1>2. /\ Reply(l, n, replies) /\ CacheOrSync(n, temp[n])
      /\ UNCHANGED <<pc, cand, mined, found, status, open, drops, restarts>>
  BY DEF HandleSummaryResponse
<1> HIDE DEF m
<1>3. replies \in Seq(Message) /\ \A j \in 1..Len(replies) : MessageSound(replies[j])
  BY <1>1, SummaryRepliesSound
<1>4. temp[n] \in Seq(Block) /\ FromFound(temp[n])
        /\ (temp[n] # <<>> => UpdateFits(chain[n], temp[n]))
  BY <1>1, NodeFacts
<1> HIDE DEF replies
<1> QED
  BY <1>1, <1>2, <1>3, <1>4, RespondInv

\* The blocks of a chain response.
LEMMA ChainResponseFacts ==
  ASSUME Inv, NEW l \in Peers, NEW n \in Ends(l), Arrives(l, n, "chain", "response")
  PROVE  LET blocks == Head(wire[l][n]).blocks
         IN  /\ n \in Node /\ wire[l][n] # <<>>
             /\ blocks \in Seq(Block) /\ Linked(blocks) /\ FromFound(blocks)
             /\ blocks # <<>> => /\ Len(blocks) \in Nat \ {0}
                                 /\ blocks[1] \in Block /\ blocks[1] \in found
                                 /\ blocks[1].index \in Nat
                                 /\ back(blocks).index \in Nat
<1> DEFINE m == Head(wire[l][n])
<1>1. /\ n \in Node /\ wire[l][n] # <<>> /\ m \in Message
      /\ m.message = "chain" /\ m.kind = "response" /\ MessageSound(m)
  BY ArrivesFacts
<1> HIDE DEF m
<1>2. m.blocks \in Seq(Block) /\ Linked(m.blocks) /\ FromFound(m.blocks)
  BY <1>1, MessageFields DEF MessageSound
<1>3. ASSUME m.blocks # <<>>
      PROVE  /\ Len(m.blocks) \in Nat \ {0}
             /\ m.blocks[1] \in Block /\ m.blocks[1] \in found
             /\ m.blocks[1].index \in Nat
             /\ back(m.blocks).index \in Nat
  <2>1. Len(m.blocks) \in Nat \ {0}
    BY <1>2, <1>3, EmptySeq
  <2>2. m.blocks[1] \in Block /\ m.blocks[Len(m.blocks)] \in Block
    BY <1>2, <2>1, ElementOfSeq
  <2>3. m.blocks[1] \in found
    BY <1>2, <2>1 DEF FromFound
  <2> QED
    BY <2>1, <2>2, <2>3 DEF back, Block, BlockOver
<1> QED
  BY <1>1, <1>2, <1>3 DEF m

\* An update that passes the checks of handleChainResponse fits the chain.
LEMMA AcceptedUpdateFits ==
  ASSUME Inv, NEW l \in Peers, NEW n \in Ends(l), Arrives(l, n, "chain", "response"),
         Head(wire[l][n]).blocks # <<>>,
         ~UpdateGap(chain[n], Head(wire[l][n]).blocks),
         UpdateAligned(chain[n], Head(wire[l][n]).blocks)
  PROVE  UpdateFits(chain[n], Head(wire[l][n]).blocks)
<1> DEFINE blocks == Head(wire[l][n]).blocks
<1>1. ~UpdateGap(chain[n], blocks) /\ UpdateAligned(chain[n], blocks)
  OBVIOUS
<1>2. /\ n \in Node
      /\ blocks \in Seq(Block) /\ Linked(blocks)
      /\ blocks[1] \in found /\ blocks[1].index \in Nat
  <2>1. /\ n \in Node /\ wire[l][n] # <<>>
        /\ blocks \in Seq(Block) /\ Linked(blocks) /\ FromFound(blocks)
        /\ blocks # <<>> => /\ Len(blocks) \in Nat \ {0}
                            /\ blocks[1] \in Block /\ blocks[1] \in found
                            /\ blocks[1].index \in Nat
                            /\ back(blocks).index \in Nat
    BY ChainResponseFacts
  <2>2. blocks # <<>>
    OBVIOUS
  <2> HIDE DEF blocks
  <2> QED
    BY <2>1, <2>2
<1> HIDE DEF blocks
<1>3. ASSUME blocks[1].index = 0 PROVE UpdateFits(chain[n], blocks)
  BY <1>2, <1>3 DEF UpdateFits
<1>4. ASSUME blocks[1].index # 0 PROVE UpdateFits(chain[n], blocks)
  <2>1. blocks[1].index > 0 /\ blocks[1].prev = chain[n][blocks[1].index].hash
    BY <1>1, <1>2, <1>4 DEF UpdateAligned
  <2>2. blocks[1].sealed
    BY <1>2, <2>1 DEF Inv, SyncInv, FoundSound
  <2>3. Len(chain[n]) \in Nat \ {0} /\ back(chain[n]).index = Len(chain[n]) - 1
    BY <1>2, NodeFacts
  <2>4. blocks[1].index \in 1..Len(chain[n])
    BY <1>1, <1>2, <2>1, <2>3 DEF UpdateGap
  <2> QED
    BY <1>2, <2>1, <2>2, <2>4 DEF UpdateFits
<1> QED
  BY <1>3, <1>4 DEF blocks

\* Keeping an update preserves the invariant.
LEMMA AcceptUpdateInv ==
  ASSUME Inv, NEW l \in Peers, NEW n \in Ends(l), AcceptUpdate(l, n)
  PROVE  Inv'
<1> DEFINE blocks == Head(wire[l][n]).blocks
<1>1. /\ blocks # <<>> /\ ~UpdateGap(chain[n], blocks) /\ UpdateAligned(chain[n], blocks)
      /\ CacheOrSync(n, blocks) /\ Reply(l, n, <<>>)
      /\ UNCHANGED <<pc, cand, mined, found, status, open, drops, restarts>>
      /\ Arrives(l, n, "chain", "response")
  BY DEF AcceptUpdate
<1>2. /\ wire[l][n] # <<>>
      /\ blocks \in Seq(Block) /\ FromFound(blocks) /\ UpdateFits(chain[n], blocks)
  BY <1>1, ChainResponseFacts, AcceptedUpdateFits
<1> HIDE DEF blocks
<1>3. <<>> \in Seq(Message) /\ \A j \in 1..Len(<<>>) : MessageSound(<<>>[j])
  OBVIOUS
<1> QED
  BY <1>1, <1>2, <1>3, RespondInv

\* Asking for more blocks preserves the invariant.
LEMMA RequestMoreInv ==
  ASSUME Inv, NEW l \in Peers, NEW n \in Ends(l), RequestMore(l, n)
  PROVE  Inv'
<1> DEFINE blocks == Head(wire[l][n]).blocks
           next == back(chain[n]).index + 1
<1>1. /\ blocks # <<>> /\ CacheOrSync(n, temp[n])
      /\ UNCHANGED <<pc, cand, mined, found, status, open, drops, restarts>>
      /\ Arrives(l, n, "chain", "response")
  BY DEF RequestMore
<1>2. \/ Reply(l, n, <<ChainRequest(next, back(blocks).index)>>)
      \/ /\ ~UpdateAligned(chain[n], blocks)
         /\ Reply(l, n, <<ChainRequest(blocks[1].index - 1, back(blocks).index)>>)
  BY DEF RequestMore
<1>3. /\ n \in Node /\ wire[l][n] # <<>>
      /\ blocks[1].index \in Nat /\ back(blocks).index \in Nat
  BY <1>1, ChainResponseFacts
<1>4. next \in Nat
  BY <1>3, NodeFacts
<1> HIDE DEF blocks, next
<1>5. PICK id1 \in Nat : Reply(l, n, <<ChainRequest(id1, back(blocks).index)>>)
  <2>1. ~UpdateAligned(chain[n], blocks) => blocks[1].index - 1 \in Nat
    BY <1>3 DEF UpdateAligned
  <2> QED
    BY <1>2, <1>4, <2>1
<1> DEFINE r == ChainRequest(id1, back(blocks).index)
<1>6. r \in Message
  BY <1>3, MessageTypes
<1>7. MessageSound(r)
  BY DEF MessageSound, ChainRequest
<1>8. Reply(l, n, <<r>>)
  BY <1>5
<1>9. temp[n] \in Seq(Block) /\ FromFound(temp[n])
        /\ (temp[n] # <<>> => UpdateFits(chain[n], temp[n]))
  BY <1>3, NodeFacts
<1> HIDE DEF r
<1>10. <<r>> \in Seq(Message) /\ \A j \in 1..Len(<<r>>) : MessageSound(<<r>>[j])
  BY <1>6, <1>7, OneReply
<1> QED
  BY <1>1, <1>3, <1>8, <1>9, <1>10, RespondInv

\* A response that ends the process, or is dropped, preserves the invariant.
LEMMA RefusedResponseInv ==
  ASSUME Inv, NEW l \in Peers, NEW n \in Ends(l),
         UpdateAssertFails(l, n) \/ MissingBlocks(l, n) \/ RejectChain(l, n)
  PROVE  Inv'
<1>1. n \in Node
  BY EndsOfLink
<1>2. CASE UpdateAssertFails(l, n) \/ MissingBlocks(l, n)
  <2>1. PICK reason \in {"assert", "missing blocks"} : Terminate(n, reason)
    BY <1>2 DEF UpdateAssertFails, MissingBlocks
  <2>2. reason \in StatusValues
    BY <2>1 DEF StatusValues
  <2> QED
    BY <1>1, <2>1, <2>2, TerminateInv
<1>3. CASE RejectChain(l, n)
  <2>1. /\ wire[l][n] # <<>> /\ Reply(l, n, <<>>)
        /\ UNCHANGED <<chain, temp, pc, cand, mined, found, status, open, drops, restarts>>
    BY <1>3 DEF RejectChain, Arrives
  <2>2. <<>> \in Seq(Message) /\ \A j \in 1..Len(<<>>) : MessageSound(<<>>[j])
    OBVIOUS
  <2> QED
    BY <2>1, <2>2, AnswerOnlyInv
<1> QED
  BY <1>2, <1>3

-------------------------------------------------------------------------------
(* The theorems.                                                              *)

\* A step of the mining thread, of a connection or of a handler, and a step of
\* nobody, preserve the invariant.
LEMMA NextInv == Inv /\ [Next]_vars => Inv'
<1> SUFFICES ASSUME Inv, [Next]_vars PROVE Inv'
  OBVIOUS
<1>1. CASE UNCHANGED vars
  <2>1. TypeOK'
    BY <1>1 DEF Inv, TypeOK, vars
  <2>2. NodesInv'
    BY <1>1, NodesUnchanged DEF vars
  <2>3. FoundSound' /\ WireSound'
    BY <1>1 DEF Inv, SyncInv, FoundSound, WireSound, MessageSound, FromFound, vars
  <2> QED
    BY <2>1, <2>2, <2>3 DEF Inv, SyncInv, NodesInv
<1>2. CASE \E n \in Node : MineStep(n) \/ FoundBlock(n) \/ Restart(n)
  BY <1>2, BeginBlockInv, AbortBlockInv, SyncBlockchainInv, BroadcastNewBlockInv,
     FoundBlockInv, RestartInv DEF MineStep
<1>3. CASE \E l \in Peers : Connect(l) \/ Disconnect(l)
  BY <1>3, ConnectInv, DisconnectInv
<1>4. CASE \E l \in Peers : \E n \in Ends(l) : Receive(l, n)
  BY <1>4, HandleSummaryRequestInv, HandleChainRequestInv, HandleNewBlockInv,
     HandleNewBlockResponseInv, HandleSummaryResponseInv, AcceptUpdateInv,
     RequestMoreInv, RefusedResponseInv DEF Receive
<1> QED
  BY <1>1, <1>2, <1>3, <1>4 DEF Next

\* Inv is an invariant of the protocol.
LEMMA InvHolds == Spec => []Inv
  BY InitInv, NextInv, PTL DEF Spec

\* Type correctness: no handler sends or stores anything but blocks and
\* messages of the kinds the other handlers read.
THEOREM TypeCorrect == Spec => []TypeOK
<1>1. Inv => TypeOK
  BY DEF Inv
<1> QED
  BY <1>1, InvHolds, PTL

\* Whatever is mined, lost, reordered between connections or restarted, every
\* chain is a well-formed one, every update kept for the mining thread still
\* fits when it is applied, and the block being mined always goes on top.
THEOREM SyncSafe == Spec => []SyncInv
<1>1. Inv => SyncInv
  BY DEF Inv
<1> QED
  BY <1>1, InvHolds, PTL

\* Two well-formed chains of existing blocks that have a hash in common have it at the
\* same height and agree below it.
LEMMA SharedHash ==
  ASSUME FoundSound,
         NEW c \in Seq(Block), WellFormed(c), FromFound(c),
         NEW d \in Seq(Block), WellFormed(d), FromFound(d),
         NEW i \in 1..Len(c), NEW j \in 1..Len(d), c[i].hash = d[j].hash
  PROVE  i = j /\ SubSeq(c, 1, i) = SubSeq(d, 1, j)
<1>1. /\ Len(c) \in Nat \ {0} /\ \A k \in 1..Len(c) : c[k].index = k - 1
      /\ Len(d) \in Nat \ {0} /\ \A k \in 1..Len(d) : d[k].index = k - 1
  BY BackOfChain DEF Block
<1>2. c[i] = d[j]
  BY DEF FoundSound, FromFound
<1>3. i = j
  <2>1. c[i].index = i - 1 /\ d[j].index = j - 1
    BY <1>1
  <2>2. i \in Nat /\ j \in Nat
    BY <1>1
  <2> QED
    BY <1>2, <2>1, <2>2
<1> DEFINE S == {k \in Nat : k < i => c[i - k] = d[i - k]}
<1>4. 0 \in S
  <2>1. i - 0 = i
    BY <1>1
  <2> QED
    BY <1>2, <1>3, <2>1
<1>5. ASSUME NEW k \in S PROVE k + 1 \in S
  <2>1. k \in Nat /\ k + 1 \in Nat
    OBVIOUS
  <2> SUFFICES ASSUME k + 1 < i PROVE c[i - (k + 1)] = d[i - (k + 1)]
    BY <2>1
  <2>2. /\ i - k \in 2..Len(c) /\ i - k \in 2..Len(d)
        /\ i - (k + 1) \in 1..Len(c) /\ i - (k + 1) \in 1..Len(d)
        /\ (i - k) - 1 = i - (k + 1) /\ k < i
    BY <1>1, <1>3, <2>1
  <2>3. c[i - k] = d[i - k]
    BY <1>5, <2>2
  <2>4. c[i - k].prev = c[(i - k) - 1].hash /\ d[i - k].prev = d[(i - k) - 1].hash
    BY <2>2 DEF WellFormed, Linked
  <2>5. c[i - (k + 1)].hash = d[i - (k + 1)].hash
    BY <2>2, <2>3, <2>4
  <2> QED
    BY <2>2, <2>5 DEF FoundSound, FromFound
<1> HIDE DEF S
<1>6. S = Nat
  <2>1. S \in SUBSET Nat
    BY DEF S
  <2> QED
    BY <1>4, <1>5, <2>1, SetInduction
<1>7. ASSUME NEW k \in 1..i PROVE c[k] = d[k]
  <2>1. i - k \in Nat /\ i - k < i /\ i - (i - k) = k
    BY <1>1
  <2>2. c[i - (i - k)] = d[i - (i - k)]
    BY <1>6, <2>1 DEF S
  <2> QED
    BY <2>1, <2>2
<1>8. /\ \A k \in 1..i : c[k] \in Block /\ d[k] \in Block
      /\ 1 \in Int /\ i \in Int /\ i - 1 + 1 = i /\ 1 <= i
  BY <1>1, <1>3, ElementOfSeq
<1> DEFINE s == SubSeq(c, 1, i)
           t == SubSeq(d, 1, i)
<1>9. /\ s \in Seq(Block) /\ Len(s) = i /\ \A k \in 1..i : s[k] = c[1 + k - 1]
      /\ t \in Seq(Block) /\ Len(t) = i /\ \A k \in 1..i : t[k] = d[1 + k - 1]
  BY <1>8, SubSeqProperties
<1> HIDE DEF s, t
<1>10. \A k \in 1..Len(s) : s[k] = t[k]
  <2>1. \A k \in 1..i : 1 + k - 1 = k
    BY <1>1
  <2> QED
    BY <1>7, <1>9, <2>1
<1>11. s = t
  BY <1>9, <1>10, SeqEqual
<1> QED
  BY <1>3, <1>11 DEF s, t

\* Nodes that have a block in common have all blocks below it in common: a
\* reorganisation never grafts blocks on a history they were not mined on.
THEOREM SameHashSameHistory == Spec => []HashNamesHistory
<1>1. Inv => HashNamesHistory
  <2> SUFFICES ASSUME Inv, NEW n \in Node, NEW m \in Node,
                      NEW i \in DOMAIN chain[n], NEW j \in DOMAIN chain[m],
                      chain[n][i].hash = chain[m][j].hash
               PROVE  i = j /\ SubSeq(chain[n], 1, i) = SubSeq(chain[m], 1, j)
    BY DEF HashNamesHistory
  <2>1. /\ chain[n] \in Seq(Block) /\ WellFormed(chain[n]) /\ FromFound(chain[n])
        /\ chain[m] \in Seq(Block) /\ WellFormed(chain[m]) /\ FromFound(chain[m])
    BY NodeFacts
  <2>2. i \in 1..Len(chain[n]) /\ j \in 1..Len(chain[m])
    BY <2>1, LenProperties
  <2>3. FoundSound
    BY DEF Inv, SyncInv
  <2> QED
    BY <2>1, <2>2, <2>3, SharedHash
<1> QED
  BY <1>1, InvHolds, PTL

-------------------------------------------------------------------------------
(* Steps, seen from the chains.                                               *)

\* No chain changes, and no update is dropped by a process that lives on.
ChainsStay ==
  /\ UNCHANGED <<chain, found>>
  /\ \A n \in Node : temp[n] # <<>> /\ temp'[n] = <<>>
       => restarts' # restarts \/ status'[n] # "up"

\* Node n applies update t, which is the one it had kept if there was one.
Applies(n, t) ==
  /\ t # <<>> => UpdateFits(chain[n], t)
  /\ FromFound(t)
  /\ temp[n] # <<>> => t = temp[n]
  /\ chain' = [chain EXCEPT ![n] = SyncedChain(chain[n], t)]
  /\ temp' = [temp EXCEPT ![n] = <<>>]
  /\ found' = found

\* Node n puts a block with a new hash on top of its chain.
Finds(n, b) ==
  /\ b.index = Len(chain[n]) /\ b.prev = back(chain[n]).hash /\ b.sealed
  /\ \A a \in found : a.hash # b.hash
  /\ chain' = [chain EXCEPT ![n] = Append(chain[n], b)]
  /\ found' = found \cup {b}
  /\ temp' = temp

\* The trailing syncBlockchain of a handler, with the update it leaves.
LEMMA CacheOrSyncShape ==
  ASSUME Inv, NEW n \in Node, NEW t \in Seq(Block),
         t # <<>> => UpdateFits(chain[n], t), FromFound(t),
         t = temp[n] \/ t # <<>>, CacheOrSync(n, t), found' = found
  PROVE  ChainsStay \/ Applies(n, t)
<1>1. CASE pc[n] = "off"
  BY <1>1 DEF CacheOrSync, Applies, Inv, SyncInv, PassiveKeepsNoUpdate
<1>2. CASE pc[n] # "off"
  BY <1>2 DEF CacheOrSync, ChainsStay, Inv, TypeOK
<1> QED
  BY <1>1, <1>2

\* Every step leaves the chains alone, applies one update at one node or adds
\* one new block at one node.
LEMMA StepShape ==
  ASSUME Inv, [Next]_vars
  PROVE  \/ ChainsStay
         \/ \E n \in Node : \E t \in Seq(Block) : Applies(n, t)
         \/ \E n \in Node : \E b \in Block : Finds(n, b)
<1>1. CASE UNCHANGED vars
  BY <1>1 DEF vars, ChainsStay
<1>2. ASSUME NEW n \in Node, NEW reason \in StatusValues \ {"up"}, Terminate(n, reason)
      PROVE  ChainsStay
  <2>1. \A m \in Node : m # n => temp'[m] = temp[m]
    BY <1>2 DEF Terminate, Inv, TypeOK
  <2>2. status'[n] # "up"
    BY <1>2 DEF Terminate, Inv, TypeOK
  <2> QED
    BY <1>2, <2>1, <2>2 DEF Terminate, ChainsStay
<1>3. ASSUME NEW n \in Node, MineStep(n) \/ FoundBlock(n) \/ Restart(n)
      PROVE  \/ ChainsStay
             \/ \E t \in Seq(Block) : Applies(n, t)
             \/ \E b \in Block : Finds(n, b)
  <2>1. CASE BeginBlock(n)
    <3>1. CASE Terminate(n, "difficulty")
      BY <1>2, <3>1 DEF StatusValues
    <3>2. CASE UNCHANGED <<chain, temp, found>>
      BY <3>2 DEF ChainsStay
    <3> QED
      BY <2>1, <3>1, <3>2 DEF BeginBlock
  <2>2. CASE AbortBlock(n) \/ BroadcastNewBlock(n)
    BY <2>2 DEF AbortBlock, BroadcastNewBlock, ChainsStay
  <2>3. CASE SyncBlockchain(n)
    <3>1. /\ temp[n] \in Seq(Block) /\ FromFound(temp[n])
          /\ temp[n] # <<>> => UpdateFits(chain[n], temp[n])
      BY NodeFacts
    <3>2. Applies(n, temp[n])
      BY <2>3, <3>1 DEF SyncBlockchain, Applies
    <3> QED
      BY <3>1, <3>2
  <2>4. CASE FoundBlock(n)
    <3>1. PICK t \in Times[n] :
            LET b == MinedBlock(cand[n], <<n, mined[n] + 1>>, t)
                c == addNewBlock(chain[n], b)
            IN  chain' = [chain EXCEPT ![n] = c] /\ found' = found \cup {b}
      BY <2>4 DEF FoundBlock
    <3> DEFINE b == MinedBlock(cand[n], <<n, mined[n] + 1>>, t)
    <3>2. pc[n] = "mining" /\ temp' = temp
      BY <2>4 DEF FoundBlock, Mining
    <3>3. /\ b \in Block
          /\ b.index = Len(chain[n]) /\ b.prev = back(chain[n]).hash /\ b.sealed
          /\ \A a \in found : a.hash # b.hash
          /\ addNewBlock(chain[n], b) = Append(chain[n], b)
      BY <3>2, FoundBlockFacts
    <3>4. chain' = [chain EXCEPT ![n] = Append(chain[n], b)] /\ found' = found \cup {b}
      BY <3>1, <3>3
    <3> HIDE DEF b
    <3>5. Finds(n, b)
      BY <3>2, <3>3, <3>4 DEF Finds
    <3> QED
      BY <3>3, <3>5
  <2>5. CASE Restart(n)
    <3>1. restarts' # restarts
      BY <2>5 DEF Restart, Inv, TypeOK
    <3> QED
      BY <2>5, <3>1 DEF Restart, ChainsStay
  <2> QED
    BY <1>3, <2>1, <2>2, <2>3, <2>4, <2>5 DEF MineStep
<1>4. CASE \E l \in Peers : Connect(l) \/ Disconnect(l)
  BY <1>4 DEF Connect, Disconnect, ChainsStay
<1>5. ASSUME NEW l \in Peers, NEW n \in Ends(l), Receive(l, n)
      PROVE  ChainsStay \/ \E t \in Seq(Block) : Applies(n, t)
  <2>1. n \in Node
    BY EndsOfLink
  <2>2. /\ temp[n] \in Seq(Block) /\ FromFound(temp[n])
        /\ temp[n] # <<>> => UpdateFits(chain[n], temp[n])
    BY <2>1, NodeFacts
  <2>3. CASE HandleSummaryRequest(l, n) \/ HandleChainRequest(l, n)
               \/ HandleNewBlock(l, n) \/ RejectChain(l, n)
    BY <2>3 DEF HandleSummaryRequest, HandleChainRequest, HandleNewBlock, RejectChain,
                ChainsStay
  <2>4. CASE HandleNewBlockResponse(l, n) \/ HandleSummaryResponse(l, n) \/ RequestMore(l, n)
    <3>1. CacheOrSync(n, temp[n]) /\ found' = found
      BY <2>4 DEF HandleNewBlockResponse, HandleSummaryResponse, RequestMore
    <3> QED
      BY <2>1, <2>2, <3>1, CacheOrSyncShape
  <2>5. CASE AcceptUpdate(l, n)
    <3> DEFINE blocks == Head(wire[l][n]).blocks
    <3>1. /\ CacheOrSync(n, blocks) /\ found' = found /\ blocks # <<>>
          /\ Arrives(l, n, "chain", "response")
          /\ ~UpdateGap(chain[n], blocks) /\ UpdateAligned(chain[n], blocks)
      BY <2>5 DEF AcceptUpdate
    <3>2. blocks \in Seq(Block) /\ FromFound(blocks) /\ UpdateFits(chain[n], blocks)
      BY <3>1, AcceptedUpdateFits, ChainResponseFacts
    <3> HIDE DEF blocks
    <3> QED
      BY <2>1, <3>1, <3>2, CacheOrSyncShape
  <2>6. CASE UpdateAssertFails(l, n) \/ MissingBlocks(l, n)
    <3>1. Terminate(n, "assert") \/ Terminate(n, "missing blocks")
      BY <2>6 DEF UpdateAssertFails, MissingBlocks
    <3> QED
      BY <1>2, <2>1, <3>1 DEF StatusValues
  <2> QED
    BY <1>5, <2>3, <2>4, <2>5, <2>6 DEF Receive
<1> QED
  BY <1>1, <1>3, <1>4, <1>5, EndsOfLink DEF Next

\* A sequence whose last elements are those of t ends with t.
LEMMA SuffixOf ==
  ASSUME NEW S, NEW d \in Seq(S), NEW t \in Seq(S), Len(d) >= Len(t),
         \A i \in 1..Len(t) : d[Len(d) - Len(t) + i] = t[i]
  PROVE  SubSeq(d, Len(d) - Len(t) + 1, Len(d)) = t
<1> DEFINE k == Len(d) - Len(t)
           s == SubSeq(d, k + 1, Len(d))
<1>1. Len(d) \in Nat /\ Len(t) \in Nat
  BY LenProperties
<1>2. /\ k \in Nat /\ k + 1 \in Int /\ Len(d) = k + Len(t)
      /\ Len(d) - (k + 1) + 1 = Len(t)
      /\ \A i \in 1..Len(t) : (k + 1) + i - 1 = k + i
  BY <1>1
<1>3. \A i \in (k + 1)..Len(d) : d[i] \in S
  BY <1>1, <1>2, ElementOfSeq
<1>4. \A i \in 1..Len(t) : d[k + i] = t[i]
  OBVIOUS
<1> HIDE DEF k
<1>5. /\ s \in Seq(S)
      /\ Len(s) = IF k + 1 <= Len(d) THEN Len(d) - (k + 1) + 1 ELSE 0
      /\ \A i \in 1..(Len(d) - (k + 1) + 1) : s[i] = d[(k + 1) + i - 1]
  BY <1>1, <1>2, <1>3, SubSeqProperties
<1> HIDE DEF s
<1>6. Len(s) = Len(t)
  BY <1>1, <1>2, <1>5
<1>7. ASSUME NEW i \in 1..Len(s) PROVE s[i] = t[i]
  <2>1. i \in 1..Len(t) /\ s[i] = d[(k + 1) + i - 1] /\ (k + 1) + i - 1 = k + i
    BY <1>2, <1>5, <1>6
  <2> QED
    BY <1>4, <2>1
<1>8. s = t
  BY <1>5, <1>6, <1>7, SeqEqual
<1> QED
  BY <1>8 DEF s, k

\* An update that was kept is applied whole: the chain ends with its blocks.
THEOREM UpdatesWhole == Spec => UpdatesAppliedWhole
<1> DEFINE Whole(n) ==
             temp[n] # <<>> /\ temp'[n] = <<>> /\ restarts' = restarts /\ status'[n] = "up"
               => /\ Len(chain'[n]) >= Len(temp[n])
                  /\ SubSeq(chain'[n], Len(chain'[n]) - Len(temp[n]) + 1, Len(chain'[n]))
                       = temp[n]
<1>1. ASSUME Inv, [Next]_vars, NEW n \in Node PROVE Whole(n)
  <2> SUFFICES ASSUME temp[n] # <<>>, temp'[n] = <<>>, restarts' = restarts, status'[n] = "up"
               PROVE  /\ Len(chain'[n]) >= Len(temp[n])
                      /\ SubSeq(chain'[n], Len(chain'[n]) - Len(temp[n]) + 1, Len(chain'[n]))
                           = temp[n]
    OBVIOUS
  <2>1. CASE ChainsStay
    BY <2>1 DEF ChainsStay
  <2>2. ASSUME NEW m \in Node, NEW b \in Block, Finds(m, b) PROVE FALSE
    BY <2>2 DEF Finds
  <2>3. ASSUME NEW m \in Node, NEW t \in Seq(Block), Applies(m, t)
        PROVE  /\ Len(chain'[n]) >= Len(temp[n])
               /\ SubSeq(chain'[n], Len(chain'[n]) - Len(temp[n]) + 1, Len(chain'[n]))
                    = temp[n]
    <3> DEFINE d == SyncedChain(chain[n], temp[n])
               k == Len(d) - Len(temp[n])
    <3>1. m = n
      BY <2>3 DEF Applies, Inv, TypeOK
    <3>2. chain'[n] = d
      BY <1>1, <2>3, <3>1 DEF Applies, Inv, TypeOK
    <3>3. /\ chain[n] \in Seq(Block) /\ WellFormed(chain[n])
          /\ temp[n] \in Seq(Block) /\ UpdateFits(chain[n], temp[n])
      BY <1>1, NodeFacts
    <3>4. /\ d \in Seq(Block)
          /\ Len(d) >= Len(temp[n])
          /\ \A i \in 1..Len(temp[n]) : d[k + i] = temp[n][i]
      BY <3>3, SyncedChainEffect
    <3> HIDE DEF d
    <3>5. SubSeq(d, Len(d) - Len(temp[n]) + 1, Len(d)) = temp[n]
      BY <3>3, <3>4, SuffixOf
    <3> QED
      BY <3>2, <3>4, <3>5
  <2> QED
    BY <1>1, <2>1, <2>2, <2>3, StepShape
<1>2. Inv /\ [Next]_vars => [\A n \in Node : Whole(n)]_vars
  BY <1>1
<1> QED
  BY <1>2, InvHolds, PTL DEF Spec, UpdatesAppliedWhole

-------------------------------------------------------------------------------
(* The protocol implements BlockTree.                                         *)

\* The initial chains are paths of the initial tree.
LEMMA InitTree == Init => Tree!TreeInit
<1>1. Inv => Tree!TreeInit
  BY DEF Inv, SyncInv, ChainsWellFormed, FoundSound, FromFound, WellFormed, Linked,
         Tree!TreeInit, Tree!UniqueHashes, Tree!IsPath, Tree!WellFormed, Tree!Linked
<1> QED
  BY <1>1, InitInv

\* Every step extends one path by a new block, switches one path, or is a
\* stuttering step of BlockTree.
LEMMA NextTree == Inv /\ [Next]_vars => [Tree!TreeNext]_(Tree!treeVars)
<1> SUFFICES ASSUME Inv, [Next]_vars PROVE [Tree!TreeNext]_(Tree!treeVars)
  OBVIOUS
<1>1. Inv'
  BY NextInv
<1>2. \A n \in Node : Tree!IsPath(chain'[n], found')
  BY <1>1 DEF Inv, SyncInv, ChainsWellFormed, FromFound, WellFormed, Linked,
              Tree!IsPath, Tree!WellFormed, Tree!Linked
<1>3. CASE ChainsStay
  BY <1>3 DEF ChainsStay, Tree!treeVars
<1>4. ASSUME NEW n \in Node, NEW t \in Seq(Block), Applies(n, t)
      PROVE  Tree!Switch(n)
  <2>1. found' = found /\ chain' = [chain EXCEPT ![n] = chain'[n]]
    BY <1>4 DEF Applies, Inv, TypeOK
  <2> QED
    BY <1>2, <2>1 DEF Tree!Switch
<1>5. ASSUME NEW n \in Node, NEW b \in Block, Finds(n, b)
      PROVE  Tree!Extend(n)
  <2>1. chain[n] \in Seq(Block) /\ chain'[n] = Append(chain[n], b)
    BY <1>5 DEF Finds, Inv, TypeOK
  <2>2. Len(chain'[n]) = Len(chain[n]) + 1 /\ chain'[n][Len(chain'[n])] = b
    BY <2>1, AppendProperties
  <2>3. Tree!back(chain'[n]) = b
    BY <2>2 DEF Tree!back
  <2> QED
    BY <1>2, <1>5, <2>2, <2>3 DEF Finds, Tree!Extend
<1> QED
  BY <1>3, <1>4, <1>5, StepShape DEF Tree!TreeNext

\* The protocol implements BlockTree: all chains are paths of one tree of
\* mined blocks, and a node only grows its own path or switches to another.
THEOREM ChainsFormATree == Spec => ImplementsBlockTree
  BY InitTree, NextTree, InvHolds, PTL DEF Spec, ImplementsBlockTree, Tree!TreeSpec

-------------------------------------------------------------------------------
(* Passive nodes that follow one source.  The updates, requests and summaries *)
(* on their way between the source and a node all end at some block of the    *)
(* source's chain, and what they lead to is applied in the order of the ends. *)

\* The messages that lead to an update, and the index of the block it ends with.
IsUpdate(m) == m.message = "chain" /\ m.kind = "response" /\ m.blocks # <<>>
IsRequest(m) == m.message = "chain" /\ m.kind = "request"
IsSummary(m) == m.message = "summary" /\ m.kind = "response"
Tip(m) == IF IsSummary(m) THEN m.last.index
          ELSE IF IsUpdate(m) THEN back(m.blocks).index ELSE m.id2

\* A message on its way from the source, which has chain d, to a node with
\* chain c ...
ToFollower(m, c, d) ==
  /\ ~IsRequest(m)
  /\ IsSummary(m) => m.first.hash = d[1].hash /\ Tip(m) \in (Len(c) - 1)..(Len(d) - 1)
  /\ IsUpdate(m) =>
       /\ m.blocks[1].index \in 1..Len(c)
       /\ Tip(m) \in (Len(c) - 1)..(Len(d) - 1)
       /\ \A i \in 1..Len(m.blocks) :
            m.blocks[i].index + 1 \in 1..Len(d) /\ m.blocks[i] = d[m.blocks[i].index + 1]
\* ... and back.
ToSource(m, c, d) ==
  /\ ~(m.message = "chain" /\ m.kind = "response")
  /\ IsSummary(m) => m.first.hash = d[1].hash /\ m.cumdiff <= cumDifficulty(d)
  /\ IsRequest(m) =>
       /\ m.full = FALSE
       /\ m.id1 \in 1..Len(c)
       /\ m.id2 \in (Len(c) - 1)..(Len(d) - 1)

\* Updates on their way (q) come before requests for updates (r), those before
\* summaries that will lead to requests, and none ends below one before it.
InOrder(q, r) ==
  /\ \A i, k \in 1..Len(q) :
       /\ i < k /\ IsUpdate(q[i]) /\ IsUpdate(q[k]) => Tip(q[i]) <= Tip(q[k])
       /\ i < k /\ IsSummary(q[i]) /\ IsSummary(q[k]) => Tip(q[i]) <= Tip(q[k])
       /\ IsUpdate(q[i]) /\ IsSummary(q[k]) => Tip(q[i]) <= Tip(q[k])
  /\ \A i \in 1..Len(q) : \A j \in 1..Len(r) : IsRequest(r[j]) =>
       /\ IsUpdate(q[i]) => Tip(q[i]) <= Tip(r[j])
       /\ IsSummary(q[i]) => Tip(r[j]) <= Tip(q[i])
  /\ \A j, k \in 1..Len(r) :
       j < k /\ IsRequest(r[j]) /\ IsRequest(r[k]) => Tip(r[j]) <= Tip(r[k])

\* c is the beginning of d.
Begins(c, d) == Len(c) <= Len(d) /\ \A i \in 1..Len(c) : c[i] = d[i]

\* The two queues q and r of a connection between a node with chain c and the
\* source with chain d.
Followed(q, r, c, d) ==
  /\ \A i \in 1..Len(q) : ToFollower(q[i], c, d)
  /\ \A j \in 1..Len(r) : ToSource(r[j], c, d)
  /\ InOrder(q, r)

\* What holds in a network with source s.
FollowInv(s) ==
  /\ temp[s] = <<>>
  /\ \A n \in Node \ {s} : pc[n] = "off"
  /\ \A n \in Node : Begins(chain[n], chain[s])
  /\ \A l \in Peers :
       Followed(wire[l][Other(l, s)], wire[l][s], chain[Other(l, s)], chain[s])

\* What is left when the first message is taken from a queue.
LEMMA TailIs ==
  ASSUME NEW q \in Seq(Message), q # <<>>
  PROVE  /\ Len(q) \in Nat \ {0}
         /\ Tail(q) \in Seq(Message)
         /\ Len(Tail(q)) = Len(q) - 1
         /\ \A i \in 1..Len(Tail(q)) : i + 1 \in 1..Len(q) /\ Tail(q)[i] = q[i+1]
         /\ 1 \in 1..Len(q) /\ Head(q) = q[1]
<1>1. Len(q) \in Nat \ {0} /\ Head(q) = q[1]
  BY EmptySeq
<1>2. /\ Tail(q) \in Seq(Message)
      /\ Len(Tail(q)) = Len(q) - 1
      /\ \A i \in 1..Len(Tail(q)) : Tail(q)[i] = q[i+1]
  BY HeadTailProperties
<1> QED
  BY <1>1, <1>2

\* A queue with a message added.
LEMMA AppendIs ==
  ASSUME NEW q \in Seq(Message), NEW x \in Message
  PROVE  /\ Len(q) \in Nat
         /\ Append(q, x) \in Seq(Message)
         /\ Len(Append(q, x)) = Len(q) + 1
         /\ \A i \in 1..(Len(q) + 1) :
              \/ i \in 1..Len(q) /\ Append(q, x)[i] = q[i]
              \/ i = Len(q) + 1 /\ Append(q, x)[i] = x
<1>1. /\ Len(q) \in Nat
      /\ Append(q, x) \in Seq(Message)
      /\ Len(Append(q, x)) = Len(q) + 1
      /\ \A i \in 1..Len(q) : Append(q, x)[i] = q[i]
      /\ Append(q, x)[Len(q) + 1] = x
  BY AppendProperties, LenProperties
<1> QED
  BY <1>1

\* Taking a message away leaves the others in order.
LEMMA TakeFromSource ==
  ASSUME NEW q \in Seq(Message), NEW r, NEW c, NEW d, Followed(q, r, c, d), q # <<>>
  PROVE  Followed(Tail(q), r, c, d)
<1> DEFINE t == Tail(q)
<1>1. /\ Len(q) \in Nat \ {0}
      /\ Len(t) = Len(q) - 1
      /\ \A i \in 1..Len(t) : i + 1 \in 1..Len(q) /\ t[i] = q[i+1]
  BY TailIs
<1> HIDE DEF t
<1>2. \A i \in 1..Len(t) : ToFollower(t[i], c, d)
  BY <1>1 DEF Followed
<1>3. InOrder(t, r)
  <2>1. ASSUME NEW i \in 1..Len(t), NEW k \in 1..Len(t)
        PROVE  /\ i < k /\ IsUpdate(t[i]) /\ IsUpdate(t[k]) => Tip(t[i]) <= Tip(t[k])
               /\ i < k /\ IsSummary(t[i]) /\ IsSummary(t[k]) => Tip(t[i]) <= Tip(t[k])
               /\ IsUpdate(t[i]) /\ IsSummary(t[k]) => Tip(t[i]) <= Tip(t[k])
    <3>1. i + 1 \in 1..Len(q) /\ k + 1 \in 1..Len(q) /\ t[i] = q[i+1] /\ t[k] = q[k+1]
            /\ (i < k => i + 1 < k + 1)
      BY <1>1
    <3> QED
      BY <3>1 DEF Followed, InOrder
  <2>2. ASSUME NEW i \in 1..Len(t), NEW j \in 1..Len(r), IsRequest(r[j])
        PROVE  /\ IsUpdate(t[i]) => Tip(t[i]) <= Tip(r[j])
               /\ IsSummary(t[i]) => Tip(r[j]) <= Tip(t[i])
    BY <1>1, <2>2 DEF Followed, InOrder
  <2> QED
    BY <2>1, <2>2 DEF Followed, InOrder
<1> QED
  BY <1>2, <1>3 DEF Followed, t

\* The same for the queue of the source.
LEMMA TakeFromFollower ==
  ASSUME NEW q, NEW r \in Seq(Message), NEW c, NEW d, Followed(q, r, c, d), r # <<>>
  PROVE  Followed(q, Tail(r), c, d)
<1> DEFINE t == Tail(r)
<1>1. /\ Len(r) \in Nat \ {0}
      /\ Len(t) = Len(r) - 1
      /\ \A i \in 1..Len(t) : i + 1 \in 1..Len(r) /\ t[i] = r[i+1]
  BY TailIs
<1> HIDE DEF t
<1>2. \A i \in 1..Len(t) : ToSource(t[i], c, d)
  BY <1>1 DEF Followed
<1>3. InOrder(q, t)
  <2>1. ASSUME NEW i \in 1..Len(t), NEW k \in 1..Len(t)
        PROVE  i < k /\ IsRequest(t[i]) /\ IsRequest(t[k]) => Tip(t[i]) <= Tip(t[k])
    <3>1. i + 1 \in 1..Len(r) /\ k + 1 \in 1..Len(r) /\ t[i] = r[i+1] /\ t[k] = r[k+1]
            /\ (i < k => i + 1 < k + 1)
      BY <1>1
    <3> QED
      BY <3>1 DEF Followed, InOrder
  <2>2. ASSUME NEW i \in 1..Len(q), NEW j \in 1..Len(t), IsRequest(t[j])
        PROVE  /\ IsUpdate(q[i]) => Tip(q[i]) <= Tip(t[j])
               /\ IsSummary(q[i]) => Tip(t[j]) <= Tip(q[i])
    BY <1>1, <2>2 DEF Followed, InOrder
  <2> QED
    BY <2>1, <2>2 DEF Followed, InOrder
<1> QED
  BY <1>2, <1>3 DEF Followed, t

\* Adding a message that ends where it should to the queue of the node ...
LEMMA AddFromSource ==
  ASSUME NEW q \in Seq(Message), NEW r, NEW c, NEW d, Followed(q, r, c, d),
         NEW x \in Message, ToFollower(x, c, d),
         \A i \in 1..Len(q) :
           /\ IsUpdate(q[i]) /\ (IsUpdate(x) \/ IsSummary(x)) => Tip(q[i]) <= Tip(x)
           /\ IsSummary(q[i]) /\ IsSummary(x) => Tip(q[i]) <= Tip(x)
           /\ IsSummary(q[i]) /\ IsUpdate(x) => Tip(x) <= Tip(q[i]),
         \A j \in 1..Len(r) : IsRequest(r[j]) =>
           /\ IsUpdate(x) => Tip(x) <= Tip(r[j])
           /\ IsSummary(x) => Tip(r[j]) <= Tip(x)
  PROVE  Followed(Append(q, x), r, c, d)
<1> DEFINE t == Append(q, x)
<1>1. /\ Len(q) \in Nat
      /\ Len(t) = Len(q) + 1
      /\ \A i \in 1..Len(t) : \/ i \in 1..Len(q) /\ t[i] = q[i]
                              \/ i = Len(q) + 1 /\ t[i] = x
  BY AppendIs
<1> HIDE DEF t
<1>2. \A i \in 1..Len(t) : ToFollower(t[i], c, d)
  BY <1>1 DEF Followed
<1>3. ~(IsUpdate(x) /\ IsSummary(x))
  BY DEF IsUpdate, IsSummary
<1>4. InOrder(t, r)
  <2>1. ASSUME NEW i \in 1..Len(t), NEW k \in 1..Len(t)
        PROVE  /\ i < k /\ IsUpdate(t[i]) /\ IsUpdate(t[k]) => Tip(t[i]) <= Tip(t[k])
               /\ i < k /\ IsSummary(t[i]) /\ IsSummary(t[k]) => Tip(t[i]) <= Tip(t[k])
               /\ IsUpdate(t[i]) /\ IsSummary(t[k]) => Tip(t[i]) <= Tip(t[k])
    <3>1. CASE i \in 1..Len(q) /\ k \in 1..Len(q) /\ t[i] = q[i] /\ t[k] = q[k]
      BY <3>1 DEF Followed, InOrder
    <3>2. CASE i \in 1..Len(q) /\ t[i] = q[i] /\ k = Len(q) + 1 /\ t[k] = x
      BY <3>2
    <3>3. CASE i = Len(q) + 1 /\ t[i] = x /\ k \in 1..Len(q) /\ t[k] = q[k]
      <4>1. ~(i < k)
        BY <1>1, <3>3
      <4> QED
        BY <3>3, <4>1
    <3>4. CASE i = Len(q) + 1 /\ k = Len(q) + 1 /\ t[i] = x
      <4>1. ~(i < k)
        BY <1>1, <3>4
      <4> QED
        BY <1>3, <3>4, <4>1
    <3> QED
      BY <1>1, <3>1, <3>2, <3>3, <3>4
  <2>2. ASSUME NEW i \in 1..Len(t), NEW j \in 1..Len(r), IsRequest(r[j])
        PROVE  /\ IsUpdate(t[i]) => Tip(t[i]) <= Tip(r[j])
               /\ IsSummary(t[i]) => Tip(r[j]) <= Tip(t[i])
    BY <1>1, <2>2 DEF Followed, InOrder
  <2> QED
    BY <2>1, <2>2 DEF Followed, InOrder
<1> QED
  BY <1>2, <1>4 DEF Followed, t

\* ... or of the source keeps the order.
LEMMA AddFromFollower ==
  ASSUME NEW q, NEW r \in Seq(Message), NEW c, NEW d, Followed(q, r, c, d),
         NEW x \in Message, ToSource(x, c, d),
         \A i \in 1..Len(q) : IsRequest(x) =>
           /\ IsUpdate(q[i]) => Tip(q[i]) <= Tip(x)
           /\ IsSummary(q[i]) => Tip(x) <= Tip(q[i]),
         \A j \in 1..Len(r) : IsRequest(r[j]) /\ IsRequest(x) => Tip(r[j]) <= Tip(x)
  PROVE  Followed(q, Append(r, x), c, d)
<1> DEFINE t == Append(r, x)
<1>1. /\ Len(r) \in Nat
      /\ Len(t) = Len(r) + 1
      /\ \A i \in 1..Len(t) : \/ i \in 1..Len(r) /\ t[i] = r[i]
                              \/ i = Len(r) + 1 /\ t[i] = x
  BY AppendIs
<1> HIDE DEF t
<1>2. \A i \in 1..Len(t) : ToSource(t[i], c, d)
  BY <1>1 DEF Followed
<1>3. InOrder(q, t)
  <2>1. ASSUME NEW j \in 1..Len(t), NEW k \in 1..Len(t), j < k
        PROVE  IsRequest(t[j]) /\ IsRequest(t[k]) => Tip(t[j]) <= Tip(t[k])
    <3>1. j \in 1..Len(r) /\ t[j] = r[j]
      BY <1>1, <2>1
    <3>2. CASE k \in 1..Len(r) /\ t[k] = r[k]
      BY <2>1, <3>1, <3>2 DEF Followed, InOrder
    <3>3. CASE t[k] = x
      BY <3>1, <3>3
    <3> QED
      BY <1>1, <3>2, <3>3
  <2>2. ASSUME NEW i \in 1..Len(q), NEW j \in 1..Len(t), IsRequest(t[j])
        PROVE  /\ IsUpdate(q[i]) => Tip(q[i]) <= Tip(t[j])
               /\ IsSummary(q[i]) => Tip(t[j]) <= Tip(q[i])
    BY <1>1, <2>2 DEF Followed, InOrder
  <2> QED
    BY <2>1, <2>2 DEF Followed, InOrder
<1> QED
  BY <1>2, <1>3 DEF Followed, t

\* The source may add a block.
LEMMA SourceGrows ==
  ASSUME NEW q \in Seq(Message), NEW r \in Seq(Message), NEW c,
         NEW d \in Seq(Block), Len(d) > 0, Followed(q, r, c, d), NEW b \in Block
  PROVE  Followed(q, r, c, Append(d, b))
<1> DEFINE e == Append(d, b)
<1>1. /\ e \in Seq(Block) /\ Len(d) \in Nat \ {0} /\ Len(e) = Len(d) + 1
      /\ \A i \in 1..Len(d) : e[i] = d[i]
  BY AppendProperties, LenProperties
<1>2. /\ cumDifficulty(d) <= cumDifficulty(e)
      /\ cumDifficulty(d) \in Nat /\ cumDifficulty(e) \in Nat
  <2> HIDE DEF e
  <2>1. Len(d) <= Len(e) /\ Len(e) > 0
    BY <1>1
  <2> QED
    BY <1>1, <2>1, CumDifficultyGrows, CumDifficultyType DEF Block
<1> HIDE DEF e
<1>3. e[1] = d[1] /\ Len(d) - 1 <= Len(e) - 1
  BY <1>1
<1>4. ASSUME NEW i \in 1..Len(q) PROVE ToFollower(q[i], c, e)
  <2>1. ToFollower(q[i], c, d)
    BY DEF Followed
  <2>2. \A k : k \in (Len(c) - 1)..(Len(d) - 1) => k \in (Len(c) - 1)..(Len(e) - 1)
    BY <1>1
  <2>3. \A k : k \in 1..Len(d) => k \in 1..Len(e) /\ e[k] = d[k]
    BY <1>1
  <2> QED
    BY <1>3, <2>1, <2>2, <2>3 DEF ToFollower
<1>5. ASSUME NEW j \in 1..Len(r) PROVE ToSource(r[j], c, e)
  <2>1. ToSource(r[j], c, d)
    BY DEF Followed
  <2>2. \A k : k \in (Len(c) - 1)..(Len(d) - 1) => k \in (Len(c) - 1)..(Len(e) - 1)
    BY <1>1
  <2>3. r[j] \in Message
    BY ElementOfSeq
  <2>4. IsSummary(r[j]) => r[j].cumdiff \in Nat
    BY <2>3, MessageFields DEF IsSummary
  <2>5. IsSummary(r[j]) => r[j].cumdiff <= cumDifficulty(e)
    BY <1>2, <2>1, <2>4 DEF ToSource
  <2> QED
    BY <1>3, <2>1, <2>2, <2>5 DEF ToSource
<1> QED
  BY <1>4, <1>5 DEF Followed, e

\* A node that applies the first update on its way has a chain that ends where
\* the update does, and everything else that is on its way ends there or later.
LEMMA UpdateTaken ==
  ASSUME NEW q \in Seq(Message), NEW r \in Seq(Message), NEW c, NEW e, NEW d,
         Followed(q, r, c, d), q # <<>>, IsUpdate(q[1]),
         Len(c) \in Nat, Len(d) \in Nat, Len(e) = Tip(q[1]) + 1, Len(c) <= Len(e)
  PROVE  Followed(Tail(q), r, e, d)
<1> DEFINE t == Tail(q)
<1>1. Followed(t, r, c, d)
  BY TakeFromSource
<1>2. /\ Len(q) \in Nat \ {0}
      /\ Len(t) = Len(q) - 1
      /\ \A i \in 1..Len(t) : i + 1 \in 1..Len(q) /\ t[i] = q[i+1]
      /\ 1 \in 1..Len(q)
  BY TailIs
<1> HIDE DEF t
<1>3. Tip(q[1]) \in (Len(c) - 1)..(Len(d) - 1)
  BY <1>2 DEF Followed, ToFollower
<1>4. Len(e) - 1 = Tip(q[1]) /\ Len(e) \in Nat
  BY <1>3
<1>5. ASSUME NEW i \in 1..Len(t) PROVE ToFollower(t[i], e, d)
  <2>1. ToFollower(t[i], c, d) /\ i + 1 \in 1..Len(q) /\ t[i] = q[i+1] /\ 1 < i + 1
    BY <1>1, <1>2 DEF Followed
  <2>2. IsSummary(t[i]) \/ IsUpdate(t[i]) => Tip(q[1]) <= Tip(t[i])
    BY <1>2, <2>1 DEF Followed, InOrder
  <2>3. IsSummary(t[i]) \/ IsUpdate(t[i]) => Tip(t[i]) \in (Len(e) - 1)..(Len(d) - 1)
    <3>1. IsSummary(t[i]) \/ IsUpdate(t[i]) => Tip(t[i]) \in (Len(c) - 1)..(Len(d) - 1)
      BY <2>1 DEF ToFollower
    <3> QED
      BY <1>3, <1>4, <2>2, <3>1
  <2>4. \A k : k \in 1..Len(c) => k \in 1..Len(e)
    BY <1>4
  <2> QED
    BY <2>1, <2>3, <2>4 DEF ToFollower
<1>6. ASSUME NEW j \in 1..Len(r) PROVE ToSource(r[j], e, d)
  <2>1. ToSource(r[j], c, d)
    BY DEF Followed
  <2>2. IsRequest(r[j]) => Tip(q[1]) <= Tip(r[j]) /\ Tip(r[j]) = r[j].id2
    BY <1>2 DEF Followed, InOrder, Tip, IsRequest, IsSummary, IsUpdate
  <2>3. IsRequest(r[j]) => r[j].id2 \in (Len(e) - 1)..(Len(d) - 1)
    <3>1. IsRequest(r[j]) => r[j].id2 \in (Len(c) - 1)..(Len(d) - 1)
      BY <2>1 DEF ToSource
    <3> QED
      BY <1>3, <1>4, <2>2, <3>1
  <2>4. \A k : k \in 1..Len(c) => k \in 1..Len(e)
    BY <1>4
  <2> QED
    BY <2>1, <2>3, <2>4 DEF ToSource
<1> QED
  BY <1>1, <1>5, <1>6 DEF Followed, t

\* Reply at one end of a connection, queue by queue.
LEMMA ReplyAt ==
  ASSUME wire \in [Peers -> [Node -> Seq(Message)]],
         NEW l \in Peers, NEW n \in Ends(l), NEW replies \in Seq(Message),
         Reply(l, n, replies)
  PROVE  /\ wire'[l][n] = Tail(wire[l][n])
         /\ wire'[l][Other(l, n)] = wire[l][Other(l, n)] \o replies
         /\ \A k \in Peers : k # l => wire'[k] = wire[k]
<1> DEFINE o == Other(l, n)
           tail == Tail(wire[l][n])
<1>1. n \in Node /\ o \in Node /\ o # n
  BY EndsOfLink
<1>2. wire[l] \in [Node -> Seq(Message)]
  OBVIOUS
<1>3. wire' = [wire EXCEPT ![l][n] = tail, ![l][o] = @ \o replies]
  BY DEF Reply
<1>4. [wire EXCEPT ![l][n] = tail][l][o] = wire[l][o]
  BY <1>1, <1>2
<1> HIDE DEF tail, o
<1>5. wire' = [wire EXCEPT ![l] = [wire[l] EXCEPT ![n] = tail, ![o] = wire[l][o] \o replies]]
  BY <1>1, <1>2, <1>3, <1>4
<1> QED
  BY <1>1, <1>2, <1>5 DEF tail, o

\* A queue with no answer or with one added.
LEMMA AddedReplies ==
  ASSUME NEW q \in Seq(Message)
  PROVE  q \o <<>> = q /\ \A x \in Message : q \o <<x>> = Append(q, x)
<1>1. q \o <<>> = q
  BY ConcatEmptySeq
<1>2. ASSUME NEW x \in Message PROVE q \o <<x>> = Append(q, x)
  <2>1. /\ <<x>> \in Seq(Message) /\ Len(<<x>>) = 1 /\ <<x>>[1] = x
    OBVIOUS
  <2>2. /\ q \o <<x>> \in Seq(Message) /\ Len(q) \in Nat
        /\ Len(q \o <<x>>) = Len(q) + 1
        /\ \A i \in 1..(Len(q) + 1) :
             (q \o <<x>>)[i] = IF i <= Len(q) THEN q[i] ELSE <<x>>[i - Len(q)]
    BY <2>1, ConcatProperties, LenProperties
  <2>3. /\ Append(q, x) \in Seq(Message) /\ Len(Append(q, x)) = Len(q) + 1
        /\ \A i \in 1..(Len(q) + 1) : \/ i \in 1..Len(q) /\ Append(q, x)[i] = q[i]
                                      \/ i = Len(q) + 1 /\ Append(q, x)[i] = x
    BY AppendIs
  <2>4. ASSUME NEW i \in 1..(Len(q) + 1) PROVE (q \o <<x>>)[i] = Append(q, x)[i]
    <3>1. CASE i \in 1..Len(q)
      <4>1. i <= Len(q) /\ i # Len(q) + 1
        BY <2>2, <3>1
      <4> QED
        BY <2>2, <2>3, <4>1
    <3>2. CASE i = Len(q) + 1
      <4>1. ~(i <= Len(q)) /\ i - Len(q) = 1 /\ i \notin 1..Len(q)
        BY <2>2, <3>2
      <4>2. (q \o <<x>>)[i] = x
        BY <2>1, <2>2, <4>1
      <4>3. Append(q, x)[i] = x
        BY <2>3, <4>1
      <4> QED
        BY <4>2, <4>3
    <3> QED
      BY <2>2, <3>1, <3>2
  <2> QED
    BY <2>2, <2>3, <2>4, SeqEqual
<1> QED
  BY <1>1, <1>2

\* The ends of a connection of a network with source s, and that no two
\* connections lead to the same node.
LEMMA SourceLinks ==
  ASSUME NEW s \in Node, OneSource(s), NEW l \in Peers
  PROVE  /\ s \in Ends(l)
         /\ Other(l, s) \in Node /\ Other(l, s) # s /\ Other(l, s) \in Ends(l)
         /\ Other(l, Other(l, s)) = s
         /\ \A n \in Ends(l) : n = s \/ n = Other(l, s)
         /\ \A k \in Peers : k # l => Other(k, s) # Other(l, s)
<1>1. \A k \in Peers : /\ s \in Ends(k) /\ Other(k, s) \in Node /\ Other(k, s) # s
                       /\ Ends(k) = {s, Other(k, s)}
  <2> SUFFICES ASSUME NEW k \in Peers
               PROVE  /\ s \in Ends(k) /\ Other(k, s) \in Node /\ Other(k, s) # s
                      /\ Ends(k) = {s, Other(k, s)}
    OBVIOUS
  <2>1. s \in Ends(k)
    BY DEF OneSource
  <2>2. Other(k, s) \in Node /\ Other(k, s) # s
    BY <2>1, EndsOfLink
  <2>3. Ends(k) = {s, Other(k, s)}
    BY <2>1 DEF Ends, Other
  <2> QED
    BY <2>1, <2>2, <2>3
<1>2. Other(l, Other(l, s)) = s
  BY <1>1, PeersAssumption DEF Ends, Other
<1>3. ASSUME NEW k \in Peers, k # l, Other(k, s) = Other(l, s) PROVE FALSE
  <2>1. Ends(k) = Ends(l)
    BY <1>1, <1>3
  <2> QED
    BY <1>3, <2>1 DEF OneSource
<1> QED
  BY <1>1, <1>2, <1>3

\* What is known of the queues and chains of one connection.
LEMMA LinkFacts ==
  ASSUME Inv, NEW s \in Node, OneSource(s), FollowInv(s), NEW l \in Peers
  PROVE  /\ wire[l][s] \in Seq(Message) /\ wire[l][Other(l, s)] \in Seq(Message)
         /\ chain[Other(l, s)] \in Seq(Block) /\ chain[s] \in Seq(Block)
         /\ Followed(wire[l][Other(l, s)], wire[l][s], chain[Other(l, s)], chain[s])
         /\ Begins(chain[Other(l, s)], chain[s])
         /\ pc[Other(l, s)] = "off" /\ temp[Other(l, s)] = <<>> /\ temp[s] = <<>>
<1>1. Other(l, s) \in Node /\ Other(l, s) # s
  BY SourceLinks
<1>2. pc[Other(l, s)] = "off" /\ temp[Other(l, s)] = <<>>
  BY <1>1 DEF Inv, SyncInv, PassiveKeepsNoUpdate, FollowInv
<1> QED
  BY <1>1, <1>2 DEF Inv, TypeOK, FollowInv

\* Steps that move no message and change no chain.
LEMMA QuietFollow ==
  ASSUME NEW s \in Node, FollowInv(s), UNCHANGED <<chain, wire>>, temp'[s] = <<>>,
         \A n \in Node \ {s} : pc'[n] = "off"
  PROVE  FollowInv(s)'
  BY DEF FollowInv

\* Steps that move messages of one connection and change at most the chain of
\* the node at its other end.
LEMMA LinkStep ==
  ASSUME Inv, NEW s \in Node, OneSource(s), FollowInv(s), NEW l \in Peers,
         \A k \in Peers : k # l => wire'[k] = wire[k],
         \A n \in Node : n # Other(l, s) => chain'[n] = chain[n],
         temp'[s] = <<>>, pc' = pc,
         Begins(chain'[Other(l, s)], chain[s]),
         Followed(wire'[l][Other(l, s)], wire'[l][s], chain'[Other(l, s)], chain[s])
  PROVE  FollowInv(s)'
<1>1. \A k \in Peers : Other(k, s) \in Node /\ (k # l => Other(k, s) # Other(l, s))
  BY SourceLinks
<1>2. chain'[s] = chain[s]
  BY SourceLinks
<1>3. \A n \in Node : Begins(chain'[n], chain'[s])
  BY <1>2 DEF FollowInv
<1>4. ASSUME NEW k \in Peers
      PROVE  Followed(wire'[k][Other(k, s)], wire'[k][s], chain'[Other(k, s)], chain'[s])
  BY <1>1, <1>2 DEF FollowInv
<1> QED
  BY <1>3, <1>4 DEF FollowInv

\* A handler of either end without an update to apply changes no chain.
LEMMA NothingToSync ==
  ASSUME Inv, NEW n \in Node, temp[n] = <<>>, CacheOrSync(n, temp[n])
  PROVE  chain' = chain /\ temp' = temp
<1>1. SyncedChain(chain[n], temp[n]) = chain[n]
  BY DEF SyncedChain
<1> QED
  BY <1>1 DEF CacheOrSync, Inv, TypeOK

\* Empty queues, and a queue that was replaced.
LEMMA EmptyQueues ==
  ASSUME NEW q, NEW r, NEW c, NEW d
  PROVE  /\ Followed(<<>>, <<>>, c, d)
         /\ Followed(q, r, c, d) => Followed(<<>>, r, c, d) /\ Followed(q, <<>>, c, d)
<1>1. Len(<<>>) = 0
  OBVIOUS
<1>2. \A i : i \notin 1..Len(<<>>)
  BY <1>1
<1>3. InOrder(<<>>, <<>>)
  BY <1>2 DEF InOrder
<1>4. InOrder(q, r) => InOrder(<<>>, r) /\ InOrder(q, <<>>)
  BY <1>2 DEF InOrder
<1> QED
  BY <1>2, <1>3, <1>4 DEF Followed

\* Messages that lead to no update by themselves.
Plain(m) == ~IsUpdate(m) /\ ~IsRequest(m) /\ ~IsSummary(m)

\* Requests for a summary and announcements are plain.
LEMMA PlainMessages ==
  /\ Plain(SummaryRequest) /\ Plain(NewBlockResponse)
  /\ \A b, d : Plain(NewBlockRequest(b, d))
  /\ \A m, c, d : Plain(m) => ToFollower(m, c, d)
  /\ \A m, c, d : Plain(m) /\ m.message # "chain" => ToSource(m, c, d)
<1>1. Plain(SummaryRequest) /\ Plain(NewBlockResponse) /\ \A b, d : Plain(NewBlockRequest(b, d))
  BY DEF Plain, IsUpdate, IsRequest, IsSummary, SummaryRequest, NewBlockResponse,
         NewBlockRequest
<1> QED
  BY <1>1 DEF Plain, ToFollower, ToSource

\* Adding such a message disturbs nothing.
LEMMA AddPlain ==
  ASSUME NEW q \in Seq(Message), NEW r \in Seq(Message), NEW c, NEW d, Followed(q, r, c, d),
         NEW x \in Message, Plain(x)
  PROVE  /\ Followed(Append(q, x), r, c, d)
         /\ x.message # "chain" => Followed(q, Append(r, x), c, d)
<1>1. ToFollower(x, c, d) /\ ~IsUpdate(x) /\ ~IsSummary(x) /\ ~IsRequest(x)
  BY PlainMessages DEF Plain
<1>2. Followed(Append(q, x), r, c, d)
  BY <1>1, AddFromSource
<1>3. ASSUME x.message # "chain" PROVE Followed(q, Append(r, x), c, d)
  <2>1. ToSource(x, c, d)
    BY <1>3, PlainMessages
  <2> QED
    BY <1>1, <2>1, AddFromFollower
<1> QED
  BY <1>2, <1>3

-------------------------------------------------------------------------------
(* Every step keeps the order.                                                *)

\* At the start all chains are the founder's and nothing is on its way.
LEMMA FollowInit ==
  ASSUME NEW s \in Node, OneSource(s), Init
  PROVE  FollowInv(s)
<1>1. temp[s] = <<>>
  BY DEF Init
<1>2. \A n \in Node \ {s} : pc[n] = "off"
  BY DEF Init, StartOfMining, OneSource
<1>3. \A n \in Node : chain[n] = chain[s]
  BY DEF Init, OneSource
<1>4. \A n \in Node : Begins(chain[n], chain[s])
  <2>1. Len(chain[s]) \in Nat
    BY InitInv, NodeFacts
  <2> QED
    BY <1>3, <2>1 DEF Begins
<1>5. ASSUME NEW l \in Peers
      PROVE  Followed(wire[l][Other(l, s)], wire[l][s], chain[Other(l, s)], chain[s])
  <2>1. wire[l][Other(l, s)] = <<>> /\ wire[l][s] = <<>>
    BY SourceLinks DEF Init
  <2> QED
    BY <2>1, EmptyQueues
<1> QED
  BY <1>1, <1>2, <1>4, <1>5 DEF FollowInv

\* Opening a connection puts one request for a summary in a queue.
LEMMA ConnectFollow ==
  ASSUME Inv, NEW s \in Node, OneSource(s), FollowInv(s), NEW l \in Peers, Connect(l)
  PROVE  FollowInv(s)'
<1> DEFINE p == Other(l, s)
           e == <<>>
<1>1. /\ p \in Node /\ p # s /\ l[2] \in Ends(l) /\ (l[2] = s \/ l[2] = p)
  BY SourceLinks DEF Ends
<1>2. /\ wire[l][s] \in Seq(Message) /\ wire[l][p] \in Seq(Message)
      /\ Followed(wire[l][p], wire[l][s], chain[p], chain[s])
      /\ Begins(chain[p], chain[s]) /\ temp[s] = <<>>
  BY LinkFacts
<1> HIDE DEF p
<1>3. /\ UNCHANGED <<chain, temp, pc>>
      /\ wire' = [wire EXCEPT ![l][l[2]] = <<SummaryRequest>>]
  BY DEF Connect
<1>4. /\ \A k \in Peers : k # l => wire'[k] = wire[k]
      /\ wire'[l][l[2]] = <<SummaryRequest>>
      /\ \A n \in Node : n # l[2] => wire'[l][n] = wire[l][n]
  BY <1>1, <1>3 DEF Inv, TypeOK
<1>5. /\ e \in Seq(Message) /\ <<SummaryRequest>> = Append(e, SummaryRequest)
      /\ SummaryRequest \in Message /\ Plain(SummaryRequest)
      /\ SummaryRequest.message # "chain"
  BY MessageTypes, PlainMessages DEF SummaryRequest
<1>6. Followed(e, wire[l][s], chain[p], chain[s]) /\ Followed(wire[l][p], e, chain[p], chain[s])
  BY <1>2, EmptyQueues
<1> HIDE DEF e
<1>7. Followed(wire'[l][p], wire'[l][s], chain[p], chain[s])
  <2>1. CASE l[2] = s
    <3>1. wire'[l][p] = wire[l][p] /\ wire'[l][s] = Append(e, SummaryRequest)
      BY <1>1, <1>4, <1>5, <2>1
    <3> QED
      BY <1>2, <1>5, <1>6, <3>1, AddPlain
  <2>2. CASE l[2] = p
    <3>1. wire'[l][s] = wire[l][s] /\ wire'[l][p] = Append(e, SummaryRequest)
      BY <1>1, <1>4, <1>5, <2>2
    <3> QED
      BY <1>2, <1>5, <1>6, <3>1, AddPlain
  <2> QED
    BY <1>1, <2>1, <2>2
<1> QED
  BY <1>2, <1>3, <1>4, <1>7, LinkStep DEF p

\* Losing a connection, the end and the restart of a process empty queues.
LEMMA EmptiedFollow ==
  ASSUME Inv, NEW s \in Node, OneSource(s), FollowInv(s),
         chain' = chain, temp'[s] = <<>>, \A n \in Node \ {s} : pc'[n] = "off",
         \A l \in Peers : wire'[l] = wire[l] \/ wire'[l] = [n \in Node |-> <<>>]
  PROVE  FollowInv(s)'
<1>1. ASSUME NEW l \in Peers
      PROVE  Followed(wire'[l][Other(l, s)], wire'[l][s], chain[Other(l, s)], chain[s])
  <2>1. Followed(wire[l][Other(l, s)], wire[l][s], chain[Other(l, s)], chain[s])
    BY LinkFacts
  <2>2. Other(l, s) \in Node
    BY SourceLinks
  <2>3. CASE wire'[l] = wire[l]
    BY <2>1, <2>3
  <2>4. CASE wire'[l] = [n \in Node |-> <<>>]
    <3>1. wire'[l][Other(l, s)] = <<>> /\ wire'[l][s] = <<>>
      BY <2>2, <2>4
    <3> QED
      BY <3>1, EmptyQueues
  <2> QED
    BY <2>3, <2>4
<1> QED
  BY <1>1 DEF FollowInv

\* Losing a connection keeps the order.
LEMMA DisconnectFollow ==
  ASSUME Inv, NEW s \in Node, OneSource(s), FollowInv(s), NEW l \in Peers, Disconnect(l)
  PROVE  FollowInv(s)'
<1>1. \A k \in Peers : wire'[k] = wire[k] \/ wire'[k] = [n \in Node |-> <<>>]
  BY DEF Disconnect, Inv, TypeOK
<1>2. chain' = chain /\ temp' = temp /\ pc' = pc
  BY DEF Disconnect
<1> QED
  BY <1>1, <1>2, EmptiedFollow DEF FollowInv

\* So does the end of a process ...
LEMMA TerminateFollow ==
  ASSUME Inv, NEW s \in Node, OneSource(s), FollowInv(s), NEW n \in Node, NEW reason,
         Terminate(n, reason)
  PROVE  FollowInv(s)'
<1>1. \A k \in Peers : wire'[k] = wire[k] \/ wire'[k] = [m \in Node |-> <<>>]
  BY DEF Terminate, HangUp
<1>2. chain' = chain /\ temp'[s] = <<>> /\ \A m \in Node \ {s} : pc'[m] = "off"
  BY DEF Terminate, FollowInv, Inv, TypeOK
<1> QED
  BY <1>1, <1>2, EmptiedFollow

\* ... and its restart.
LEMMA RestartFollow ==
  ASSUME Inv, NEW s \in Node, OneSource(s), FollowInv(s), NEW n \in Node, Restart(n)
  PROVE  FollowInv(s)'
<1>1. \A k \in Peers : wire'[k] = wire[k] \/ wire'[k] = [m \in Node |-> <<>>]
  BY DEF Restart, HangUp
<1>2. n # s => StartOfMining(n) = "off"
  BY DEF StartOfMining, OneSource
<1>3. chain' = chain /\ temp'[s] = <<>> /\ \A m \in Node \ {s} : pc'[m] = "off"
  BY <1>2 DEF Restart, FollowInv, Inv, TypeOK
<1> QED
  BY <1>1, <1>3, EmptiedFollow

\* Only the source has a mining thread.
LEMMA OnlySourceMines ==
  ASSUME NEW s \in Node, FollowInv(s), NEW n \in Node, pc[n] # "off"
  PROVE  n = s
  BY DEF FollowInv

\* Building a block, giving it up and looking for an update change no chain.
LEMMA MiningQuiet ==
  ASSUME Inv, NEW s \in Node, OneSource(s), FollowInv(s), NEW n \in Node,
         BeginBlock(n) \/ AbortBlock(n) \/ SyncBlockchain(n)
  PROVE  FollowInv(s)'
<1>1. CASE BeginBlock(n)
  <2>1. CASE Terminate(n, "difficulty")
    BY <2>1, TerminateFollow
  <2>2. CASE ~Terminate(n, "difficulty")
    <3>1. UNCHANGED <<chain, temp, wire>> /\ pc' = [pc EXCEPT ![n] = "mining"]
      BY <1>1, <2>2 DEF BeginBlock
    <3>2. n = s
      BY <1>1, OnlySourceMines DEF BeginBlock, Mining
    <3>3. \A m \in Node \ {s} : pc'[m] = "off"
      BY <3>1, <3>2 DEF FollowInv, Inv, TypeOK
    <3>4. temp'[s] = <<>>
      BY <3>1 DEF FollowInv
    <3> QED
      BY <3>1, <3>3, <3>4, QuietFollow
  <2> QED
    BY <2>1, <2>2
<1>2. CASE AbortBlock(n)
  <2>1. n = s
    BY <1>2, OnlySourceMines DEF AbortBlock, Mining
  <2> QED
    BY <1>2, <2>1 DEF AbortBlock, FollowInv
<1>3. CASE SyncBlockchain(n)
  <2>1. n = s
    BY <1>3, OnlySourceMines DEF SyncBlockchain
  <2>2. temp[s] = <<>>
    BY DEF FollowInv
  <2>3. SyncedChain(chain[s], temp[s]) = chain[s]
    BY <2>2 DEF SyncedChain
  <2>4. /\ chain' = [chain EXCEPT ![s] = SyncedChain(chain[s], temp[s])]
        /\ temp' = [temp EXCEPT ![s] = <<>>]
        /\ wire' = wire
    BY <1>3, <2>1 DEF SyncBlockchain
  <2>5. chain' = chain /\ temp'[s] = <<>>
    BY <2>3, <2>4 DEF Inv, TypeOK
  <2>6. \A m \in Node \ {s} : pc'[m] = "off"
    BY <1>3, <2>1 DEF SyncBlockchain, FollowInv, Inv, TypeOK
  <2> QED
    BY <2>4, <2>5, <2>6, QuietFollow
<1> QED
  BY <1>1, <1>2, <1>3

\* Finding a block makes the source's chain longer.
LEMMA FoundBlockFollow ==
  ASSUME Inv, NEW s \in Node, OneSource(s), FollowInv(s), NEW n \in Node, FoundBlock(n)
  PROVE  FollowInv(s)'
<1>1. n = s /\ pc[s] = "mining"
  BY OnlySourceMines DEF FoundBlock, Mining
<1>2. PICK t \in Times[n] :
        LET b == MinedBlock(cand[s], <<s, mined[s] + 1>>, t)
            c == addNewBlock(chain[s], b)
        IN  /\ chain' = [chain EXCEPT ![s] = c]
            /\ pc' = [pc EXCEPT ![s] = IF c = chain[s] THEN "off" ELSE "found"]
  BY <1>1 DEF FoundBlock
<1> DEFINE b == MinedBlock(cand[s], <<s, mined[s] + 1>>, t)
           d == chain[s]
<1>3. b \in Block /\ addNewBlock(d, b) = Append(d, b)
  BY <1>1, FoundBlockFacts
<1>4. chain' = [chain EXCEPT ![s] = Append(d, b)]
  BY <1>2, <1>3
<1>5. \A m \in Node \ {s} : pc'[m] = "off"
  BY <1>2 DEF FollowInv, Inv, TypeOK
<1>6. temp' = temp /\ wire' = wire
  BY DEF FoundBlock
<1> HIDE DEF b
<1>7. chain'[s] = Append(d, b) /\ \A m \in Node : m # s => chain'[m] = chain[m]
  BY <1>4 DEF Inv, TypeOK
<1>8. d \in Seq(Block) /\ Len(d) \in Nat \ {0}
  BY NodeFacts
<1>9. /\ Len(Append(d, b)) = Len(d) + 1
      /\ \A i \in 1..Len(d) : Append(d, b)[i] = d[i]
  BY <1>3, <1>8, AppendProperties
<1>10. ASSUME NEW m \in Node PROVE Begins(chain'[m], chain'[s])
  <2>1. CASE m = s
    BY <1>7, <1>8, <1>9, <2>1 DEF Begins
  <2>2. CASE m # s
    <3>1. Begins(chain[m], d) /\ Len(chain[m]) \in Nat
      BY NodeFacts DEF FollowInv
    <3> QED
      BY <1>7, <1>8, <1>9, <2>2, <3>1 DEF Begins
  <2> QED
    BY <2>1, <2>2
<1>11. ASSUME NEW l \in Peers
       PROVE  Followed(wire'[l][Other(l, s)], wire'[l][s], chain'[Other(l, s)], chain'[s])
  <2>1. /\ wire[l][s] \in Seq(Message) /\ wire[l][Other(l, s)] \in Seq(Message)
        /\ Followed(wire[l][Other(l, s)], wire[l][s], chain[Other(l, s)], d)
    BY LinkFacts
  <2>2. Other(l, s) \in Node /\ Other(l, s) # s
    BY SourceLinks
  <2>3. Followed(wire[l][Other(l, s)], wire[l][s], chain[Other(l, s)], Append(d, b))
    <3> DEFINE p == wire[l][Other(l, s)]
               r == wire[l][s]
               c == chain[Other(l, s)]
    <3>1. p \in Seq(Message) /\ r \in Seq(Message) /\ Followed(p, r, c, d)
      BY <2>1
    <3>2. d \in Seq(Block) /\ Len(d) > 0 /\ b \in Block
      BY <1>3, <1>8
    <3>3. Followed(p, r, c, Append(d, b))
      <4> HIDE DEF p, r, c, d, b
      <4> QED
        BY <3>1, <3>2, SourceGrows
    <3> QED
      BY <3>3
  <2> QED
    BY <1>6, <1>7, <2>2, <2>3
<1>12. temp'[s] = <<>>
  BY <1>6 DEF FollowInv
<1> QED
  BY <1>5, <1>10, <1>11, <1>12 DEF FollowInv

\* An announcement is added to queues of other nodes.
LEMMA BroadcastFollow ==
  ASSUME Inv, NEW s \in Node, OneSource(s), FollowInv(s), NEW n \in Node,
         BroadcastNewBlock(n)
  PROVE  FollowInv(s)'
<1> DEFINE m == NewBlockRequest(back(chain[n]), cumDifficulty(chain[n]))
<1>1. n = s
  BY OnlySourceMines DEF BroadcastNewBlock, Mining
<1>2. m \in Message /\ Plain(m)
  BY NodeFacts, MessageTypes, PlainMessages
<1>3. /\ wire' = [l \in Peers |-> IF open[l] /\ l[1] = n
                                    THEN [wire[l] EXCEPT ![l[2]] = Append(@, m)]
                                    ELSE wire[l]]
      /\ chain' = chain /\ temp' = temp /\ pc' = [pc EXCEPT ![n] = "template"]
  BY DEF BroadcastNewBlock
<1> HIDE DEF m
<1>4. ASSUME NEW l \in Peers
      PROVE  Followed(wire'[l][Other(l, s)], wire'[l][s], chain[Other(l, s)], chain[s])
  <2>1. /\ wire[l][s] \in Seq(Message) /\ wire[l][Other(l, s)] \in Seq(Message)
        /\ Followed(wire[l][Other(l, s)], wire[l][s], chain[Other(l, s)], chain[s])
    BY LinkFacts
  <2>2. Other(l, s) \in Node /\ Other(l, s) # s
    BY SourceLinks
  <2>3. CASE open[l] /\ l[1] = n
    <3>1. l[2] = Other(l, s)
      BY <1>1, <2>3 DEF Other
    <3>2. wire'[l] = [wire[l] EXCEPT ![l[2]] = Append(@, m)]
      BY <1>3, <2>3
    <3>3. wire'[l][s] = wire[l][s] /\ wire'[l][Other(l, s)] = Append(wire[l][Other(l, s)], m)
      BY <2>2, <3>1, <3>2 DEF Inv, TypeOK
    <3> QED
      BY <1>2, <2>1, <3>3, AddPlain
  <2>4. CASE ~(open[l] /\ l[1] = n)
    BY <1>3, <2>1, <2>4
  <2> QED
    BY <2>3, <2>4
<1>5. temp'[s] = <<>> /\ \A k \in Node \ {s} : pc'[k] = "off"
  BY <1>1, <1>3 DEF FollowInv, Inv, TypeOK
<1> QED
  BY <1>3, <1>4, <1>5 DEF FollowInv

-------------------------------------------------------------------------------
(* The handlers of the source.                                                *)

\* A handler of the source that answers with one message.
LEMMA SourceAnswers ==
  ASSUME Inv, NEW s \in Node, OneSource(s), FollowInv(s), NEW l \in Peers,
         wire[l][s] # <<>>, NEW x \in Message, Reply(l, s, <<x>>),
         UNCHANGED <<chain, temp, pc>>,
         Followed(Append(wire[l][Other(l, s)], x), Tail(wire[l][s]),
                  chain[Other(l, s)], chain[s])
  PROVE  FollowInv(s)'
<1>1. s \in Ends(l) /\ <<x>> \in Seq(Message) /\ wire \in [Peers -> [Node -> Seq(Message)]]
  BY SourceLinks DEF Inv, TypeOK
<1>2. /\ wire[l][Other(l, s)] \in Seq(Message) /\ Begins(chain[Other(l, s)], chain[s])
      /\ temp[s] = <<>>
  BY LinkFacts
<1>3. /\ wire'[l][s] = Tail(wire[l][s])
      /\ wire'[l][Other(l, s)] = wire[l][Other(l, s)] \o <<x>>
      /\ \A k \in Peers : k # l => wire'[k] = wire[k]
  BY <1>1, ReplyAt
<1>4. wire'[l][Other(l, s)] = Append(wire[l][Other(l, s)], x)
  BY <1>2, <1>3, AddedReplies
<1> QED
  BY <1>2, <1>3, <1>4, LinkStep

\* A handler of the source that does not answer.
LEMMA SourceSilent ==
  ASSUME Inv, NEW s \in Node, OneSource(s), FollowInv(s), NEW l \in Peers,
         wire[l][s] # <<>>, Reply(l, s, <<>>), UNCHANGED <<chain, temp, pc>>
  PROVE  FollowInv(s)'
<1>1. s \in Ends(l) /\ <<>> \in Seq(Message) /\ wire \in [Peers -> [Node -> Seq(Message)]]
  BY SourceLinks DEF Inv, TypeOK
<1>2. /\ wire[l][Other(l, s)] \in Seq(Message) /\ wire[l][s] \in Seq(Message)
      /\ Begins(chain[Other(l, s)], chain[s]) /\ temp[s] = <<>>
      /\ Followed(wire[l][Other(l, s)], wire[l][s], chain[Other(l, s)], chain[s])
  BY LinkFacts
<1>3. /\ wire'[l][s] = Tail(wire[l][s])
      /\ wire'[l][Other(l, s)] = wire[l][Other(l, s)] \o <<>>
      /\ \A k \in Peers : k # l => wire'[k] = wire[k]
  BY <1>1, ReplyAt
<1>4. wire'[l][Other(l, s)] = wire[l][Other(l, s)]
  BY <1>2, <1>3, AddedReplies
<1>5. Followed(wire'[l][Other(l, s)], wire'[l][s], chain[Other(l, s)], chain[s])
  BY <1>2, <1>3, <1>4, TakeFromFollower
<1> QED
  BY <1>2, <1>3, <1>5, LinkStep

\* The source's summary ends with its last block, at or above everything that
\* is on its way.
LEMMA SourceSummary ==
  ASSUME Inv, NEW s \in Node, OneSource(s), FollowInv(s), NEW l \in Peers,
         HandleSummaryRequest(l, s)
  PROVE  FollowInv(s)'
<1> DEFINE p == Other(l, s)
           q == wire[l][p]
           r == wire[l][s]
           c == chain[p]
           d == chain[s]
           x == SummaryResponse(front(d), back(d), cumDifficulty(d))
<1>1. /\ r # <<>> /\ Reply(l, s, <<x>>) /\ UNCHANGED <<chain, temp, pc>>
  BY DEF HandleSummaryRequest, Arrives
<1>2. /\ r \in Seq(Message) /\ q \in Seq(Message) /\ Followed(q, r, c, d) /\ Begins(c, d)
  BY LinkFacts
<1>3. p \in Node
  BY SourceLinks
<1>4. Len(c) \in Nat /\ Len(d) \in Nat /\ back(d).index = Len(d) - 1 /\ x \in Message
  BY <1>3, NodeFacts, MessageTypes
<1>5. /\ IsSummary(x) /\ ~IsUpdate(x) /\ ~IsRequest(x)
      /\ x.first = front(d) /\ Tip(x) = back(d).index
  BY DEF IsSummary, IsUpdate, IsRequest, Tip, SummaryResponse
<1>6. Followed(q, Tail(r), c, d) /\ Tail(r) \in Seq(Message)
  BY <1>1, <1>2, TakeFromFollower, TailIs
<1> HIDE DEF p, q, r, c, d, x
<1>7. ToFollower(x, c, d)
  BY <1>2, <1>4, <1>5 DEF ToFollower, front, Begins
<1>8. ASSUME NEW i \in 1..Len(q), IsUpdate(q[i]) \/ IsSummary(q[i])
      PROVE  Tip(q[i]) <= Tip(x)
  <2>1. Tip(q[i]) \in (Len(c) - 1)..(Len(d) - 1)
    BY <1>2, <1>8 DEF Followed, ToFollower
  <2> QED
    BY <1>4, <1>5, <2>1
<1>9. ASSUME NEW j \in 1..Len(Tail(r)), IsRequest(Tail(r)[j]) PROVE Tip(Tail(r)[j]) <= Tip(x)
  <2>1. Tail(r)[j].id2 \in (Len(c) - 1)..(Len(d) - 1)
    BY <1>6, <1>9 DEF Followed, ToSource
  <2>2. Tip(Tail(r)[j]) = Tail(r)[j].id2
    BY <1>9 DEF Tip, IsRequest, IsSummary, IsUpdate
  <2> QED
    BY <1>4, <1>5, <2>1, <2>2
<1>10. Followed(Append(q, x), Tail(r), c, d)
  BY <1>2, <1>4, <1>5, <1>6, <1>7, <1>8, <1>9, AddFromSource
<1> QED
  BY <1>1, <1>4, <1>10, SourceAnswers DEF p, q, r, c, d

\* A piece of a well-formed chain, block by block.
LEMMA SegmentIs ==
  ASSUME NEW d \in Seq(Block), WellFormed(d), NEW id1 \in Nat, NEW id2 \in Nat, id2 < Len(d)
  PROVE  LET b == Segment(d, id1, id2)
         IN  b = <<>> \/ /\ id1 <= id2
                         /\ Len(b) = id2 - id1 + 1
                         /\ \A i \in 1..Len(b) : id1 + i \in 1..Len(d) /\ b[i] = d[id1 + i]
                                                  /\ b[i].index = id1 + i - 1
<1> DEFINE b == Segment(d, id1, id2)
<1>1. Len(d) \in Nat \ {0} /\ \A i \in 1..Len(d) : d[i].index = i - 1
  BY BackOfChain DEF Block
<1>2. CASE ~(id1 < Len(d) /\ id1 <= id2)
  BY <1>2 DEF Segment
<1>3. CASE id1 < Len(d) /\ id1 <= id2
  <2>1. b = SubSeq(d, id1 + 1, id2 + 1)
    BY <1>3 DEF Segment
  <2> HIDE DEF b
  <2>2. \A i \in (id1 + 1)..(id2 + 1) : d[i] \in Block
    <3> SUFFICES ASSUME NEW i \in (id1 + 1)..(id2 + 1) PROVE d[i] \in Block
      OBVIOUS
    <3>1. i \in 1..Len(d)
      BY <1>1
    <3> QED
      BY <3>1, ElementOfSeq
  <2>3. /\ Len(b) = IF id1 + 1 <= id2 + 1 THEN (id2 + 1) - (id1 + 1) + 1 ELSE 0
        /\ \A i \in 1..((id2 + 1) - (id1 + 1) + 1) : b[i] = d[(id1 + 1) + i - 1]
    BY <2>1, <2>2, SubSeqProperties
  <2>4. Len(b) = id2 - id1 + 1
    BY <1>3, <2>3
  <2>5. ASSUME NEW i \in 1..Len(b)
        PROVE  id1 + i \in 1..Len(d) /\ b[i] = d[id1 + i] /\ b[i].index = id1 + i - 1
    <3>1. /\ i \in 1..((id2 + 1) - (id1 + 1) + 1) /\ (id1 + 1) + i - 1 = id1 + i
          /\ id1 + i \in 1..Len(d)
      BY <1>1, <1>3, <2>4
    <3>2. b[i] = d[id1 + i]
      BY <2>3, <3>1
    <3>3. d[id1 + i].index = (id1 + i) - 1
      BY <1>1, <3>1
    <3> QED
      BY <3>1, <3>2, <3>3
  <2> QED
    BY <1>3, <2>4, <2>5 DEF b
<1> QED
  BY <1>2, <1>3

\* The source's answer to a request for blocks ends where the request does.
LEMMA SourceBlocks ==
  ASSUME Inv, NEW s \in Node, OneSource(s), FollowInv(s), NEW l \in Peers,
         HandleChainRequest(l, s)
  PROVE  FollowInv(s)'
<1> DEFINE p == Other(l, s)
           q == wire[l][p]
           r == wire[l][s]
           c == chain[p]
           d == chain[s]
           m == Head(r)
           b == Segment(d, m.id1, m.id2)
           x == ChainResponse(b)
<1>1. /\ r # <<>> /\ UNCHANGED <<chain, temp, pc>>
      /\ Reply(l, s, << ChainResponse(IF m.full THEN d ELSE b) >>)
  BY DEF HandleChainRequest, Arrives
<1>2. /\ r \in Seq(Message) /\ q \in Seq(Message) /\ Followed(q, r, c, d) /\ Begins(c, d)
  BY LinkFacts
<1>3. p \in Node /\ s \in Ends(l)
  BY SourceLinks
<1>4. /\ Len(c) \in Nat \ {0} /\ Len(d) \in Nat \ {0} /\ d \in Seq(Block) /\ WellFormed(d)
  BY <1>3, NodeFacts
<1>5. IsRequest(m) /\ m \in Message
  BY <1>3, ArrivesFacts DEF HandleChainRequest, IsRequest
<1>6. /\ 1 \in 1..Len(r) /\ m = r[1] /\ Tail(r) \in Seq(Message) /\ Len(r) \in Nat
      /\ \A i \in 1..Len(Tail(r)) : i + 1 \in 1..Len(r) /\ Tail(r)[i] = r[i+1]
  BY <1>1, <1>2, TailIs
<1>7. Followed(q, Tail(r), c, d)
  BY <1>1, <1>2, TakeFromFollower
<1> HIDE DEF p, q, r, c, d, m
<1>8. m.full = FALSE /\ m.id1 \in 1..Len(c) /\ m.id2 \in (Len(c) - 1)..(Len(d) - 1)
  BY <1>2, <1>5, <1>6 DEF Followed, ToSource
<1>9. m.id1 \in Nat \ {0} /\ m.id1 <= Len(c) /\ m.id2 \in Nat /\ m.id2 < Len(d) /\ Tip(m) = m.id2
  <2>1. Tip(m) = m.id2
    BY <1>5 DEF Tip, IsRequest, IsSummary, IsUpdate
  <2> QED
    BY <1>4, <1>8, <2>1
<1>10. Reply(l, s, <<x>>)
  BY <1>1, <1>8
<1>11. x \in Message
  <2>1. b \in Seq(Block)
    BY <1>4, <1>9, SegmentLinked DEF Block
  <2> HIDE DEF b
  <2> QED
    BY <2>1, MessageTypes
<1>12. b = <<>> \/ /\ m.id1 <= m.id2
                   /\ Len(b) = m.id2 - m.id1 + 1
                   /\ \A i \in 1..Len(b) : m.id1 + i \in 1..Len(d) /\ b[i] = d[m.id1 + i]
                                            /\ b[i].index = m.id1 + i - 1
  BY <1>4, <1>9, SegmentIs
<1> HIDE DEF b
<1>13. ~IsSummary(x) /\ ~IsRequest(x) /\ x.blocks = b /\ (IsUpdate(x) <=> b # <<>>)
  BY DEF IsSummary, IsRequest, IsUpdate, ChainResponse
<1>14. Followed(Append(q, x), Tail(r), c, d)
  <2>1. CASE b = <<>>
    <3>1. Plain(x)
      BY <1>13, <2>1 DEF Plain
    <3> QED
      BY <1>2, <1>6, <1>7, <1>11, <3>1, AddPlain
  <2>2. CASE b # <<>>
    <3>1. IsUpdate(x) /\ Tip(x) = back(b).index
      BY <1>13, <2>2 DEF Tip
    <3>2. Len(b) = m.id2 - m.id1 + 1 /\ m.id1 <= m.id2
            /\ \A i \in 1..Len(b) : m.id1 + i \in 1..Len(d) /\ b[i] = d[m.id1 + i]
                                      /\ b[i].index = m.id1 + i - 1
      BY <1>12, <2>2
    <3>3. Len(b) \in Nat \ {0} /\ 1 \in 1..Len(b) /\ Len(b) \in 1..Len(b)
      BY <1>9, <3>2
    <3>4. b[1].index = m.id1 /\ back(b).index = m.id2
      <4>1. b[1].index = m.id1 + 1 - 1
        BY <3>2, <3>3
      <4>2. b[Len(b)].index = m.id1 + Len(b) - 1
        BY <3>2, <3>3
      <4> QED
        BY <1>9, <3>2, <4>1, <4>2 DEF back
    <3>5. Tip(x) = Tip(m) /\ Tip(x) = m.id2
      BY <1>9, <3>1, <3>4
    <3>6. ASSUME NEW i \in 1..Len(b)
          PROVE  b[i].index + 1 \in 1..Len(d) /\ b[i] = d[b[i].index + 1]
      <4>1. b[i].index + 1 = m.id1 + i
        <5>1. b[i].index = m.id1 + i - 1
          BY <3>2
        <5>2. m.id1 \in Nat /\ i \in Nat
          BY <1>9, <3>3
        <5> QED
          BY <5>1, <5>2
      <4> QED
        BY <3>2, <4>1
    <3>7. ToFollower(x, c, d)
      BY <1>8, <1>13, <3>4, <3>5, <3>6 DEF ToFollower
    <3>8. \A i \in 1..Len(q) : /\ IsUpdate(q[i]) => Tip(q[i]) <= Tip(x)
                               /\ IsSummary(q[i]) => Tip(x) <= Tip(q[i])
      BY <1>2, <1>5, <1>6, <3>5 DEF Followed, InOrder
    <3>9. ASSUME NEW j \in 1..Len(Tail(r)), IsRequest(Tail(r)[j]) PROVE Tip(x) <= Tip(Tail(r)[j])
      <4>1. j + 1 \in 1..Len(r) /\ Tail(r)[j] = r[j+1] /\ 1 < j + 1
        BY <1>6
      <4> QED
        BY <1>2, <1>5, <1>6, <3>5, <3>9, <4>1 DEF Followed, InOrder
    <3> HIDE DEF x
    <3> QED
      BY <1>2, <1>6, <1>7, <1>11, <1>13, <3>1, <3>7, <3>8, <3>9, AddFromSource
  <2> QED
    BY <2>1, <2>2
<1> HIDE DEF x
<1> QED
  BY <1>1, <1>10, <1>11, <1>14, SourceAnswers DEF p, q, r, c, d

\* An announcement for the source is answered with a plain message.
LEMMA SourceAnnounced ==
  ASSUME Inv, NEW s \in Node, OneSource(s), FollowInv(s), NEW l \in Peers,
         HandleNewBlock(l, s)
  PROVE  FollowInv(s)'
<1>1. wire[l][s] # <<>> /\ UNCHANGED <<chain, temp, pc>>
  BY DEF HandleNewBlock, Arrives
<1>2. PICK x \in {SummaryRequest, NewBlockResponse} : Reply(l, s, <<x>>)
  BY DEF HandleNewBlock
<1>3. x \in Message /\ Plain(x)
  BY <1>2, MessageTypes, PlainMessages
<1>4. /\ wire[l][s] \in Seq(Message) /\ wire[l][Other(l, s)] \in Seq(Message)
      /\ Followed(wire[l][Other(l, s)], wire[l][s], chain[Other(l, s)], chain[s])
  BY LinkFacts
<1>5. Followed(wire[l][Other(l, s)], Tail(wire[l][s]), chain[Other(l, s)], chain[s])
        /\ Tail(wire[l][s]) \in Seq(Message)
  BY <1>1, <1>4, TakeFromFollower, TailIs
<1>6. Followed(Append(wire[l][Other(l, s)], x), Tail(wire[l][s]), chain[Other(l, s)], chain[s])
  BY <1>3, <1>4, <1>5, AddPlain
<1> QED
  BY <1>1, <1>2, <1>3, <1>6, SourceAnswers

\* The source asks nobody for blocks: every summary it gets is of a chain that is
\* the beginning of its own.
LEMMA SourceResponses ==
  ASSUME Inv, NEW s \in Node, OneSource(s), FollowInv(s), NEW l \in Peers,
         HandleNewBlockResponse(l, s) \/ HandleSummaryResponse(l, s)
  PROVE  FollowInv(s)'
<1>1. wire[l][s] # <<>> /\ CacheOrSync(s, temp[s]) /\ pc' = pc
  BY DEF HandleNewBlockResponse, HandleSummaryResponse, Arrives
<1>2. temp[s] = <<>>
  BY DEF FollowInv
<1>3. chain' = chain /\ temp' = temp
  BY <1>1, <1>2, NothingToSync
<1>4. Reply(l, s, <<>>)
  <2>1. CASE HandleNewBlockResponse(l, s)
    BY <2>1 DEF HandleNewBlockResponse
  <2>2. CASE HandleSummaryResponse(l, s)
    <3> DEFINE m == Head(wire[l][s])
               d == chain[s]
    <3>1. Reply(l, s, SummaryReplies(s, m))
      BY <2>2 DEF HandleSummaryResponse
    <3>2. m \in Message /\ IsSummary(m)
      BY <2>2, SourceLinks, ArrivesFacts DEF HandleSummaryResponse, IsSummary
    <3>3. /\ wire[l][s] \in Seq(Message)
          /\ Followed(wire[l][Other(l, s)], wire[l][s], chain[Other(l, s)], d)
      BY LinkFacts
    <3>4. m = wire[l][s][1] /\ 1 \in 1..Len(wire[l][s])
      BY <1>1, <3>3, TailIs
    <3>5. m.cumdiff \in Nat /\ cumDifficulty(d) \in Nat
      BY <3>2, MessageFields, NodeFacts DEF IsSummary
    <3> HIDE DEF m, d
    <3>6. m.first.hash = d[1].hash /\ m.cumdiff <= cumDifficulty(d)
      BY <3>2, <3>3, <3>4 DEF Followed, ToSource
    <3>7. ~(cumDifficulty(d) < m.cumdiff)
      BY <3>5, <3>6
    <3>8. SummaryReplies(s, m) = <<>>
      BY <1>2, <3>6, <3>7 DEF SummaryReplies, front, d
    <3> QED
      BY <3>1, <3>8
  <2> QED
    BY <2>1, <2>2
<1> QED
  BY <1>1, <1>3, <1>4, SourceSilent

\* The source never gets blocks.
LEMMA SourceGetsNoBlocks ==
  ASSUME Inv, NEW s \in Node, OneSource(s), FollowInv(s), NEW l \in Peers
  PROVE  ~Arrives(l, s, "chain", "response")
<1> SUFFICES ASSUME Arrives(l, s, "chain", "response") PROVE FALSE
  OBVIOUS
<1>1. /\ wire[l][s] \in Seq(Message) /\ wire[l][s] # <<>>
      /\ Followed(wire[l][Other(l, s)], wire[l][s], chain[Other(l, s)], chain[s])
  BY LinkFacts DEF Arrives
<1>2. Head(wire[l][s]) = wire[l][s][1] /\ 1 \in 1..Len(wire[l][s])
  BY <1>1, TailIs
<1>3. ToSource(Head(wire[l][s]), chain[Other(l, s)], chain[s])
  BY <1>1, <1>2 DEF Followed
<1> QED
  BY <1>3 DEF ToSource, Arrives

-------------------------------------------------------------------------------
(* The handlers of the nodes that follow.                                     *)

\* A handler of a following node that takes a message, may change the node's chain
\* and answers with the given messages.
LEMMA FollowerStep ==
  ASSUME Inv, NEW s \in Node, OneSource(s), FollowInv(s), NEW l \in Peers,
         NEW replies \in Seq(Message), Reply(l, Other(l, s), replies),
         \A n \in Node : n # Other(l, s) => chain'[n] = chain[n] /\ temp'[n] = temp[n],
         pc' = pc, Begins(chain'[Other(l, s)], chain[s]),
         Followed(Tail(wire[l][Other(l, s)]), wire[l][s] \o replies,
                  chain'[Other(l, s)], chain[s])
  PROVE  FollowInv(s)'
<1>1. /\ Other(l, s) \in Ends(l) /\ Other(l, Other(l, s)) = s /\ Other(l, s) # s
      /\ wire \in [Peers -> [Node -> Seq(Message)]]
  BY SourceLinks DEF Inv, TypeOK
<1>2. /\ wire'[l][Other(l, s)] = Tail(wire[l][Other(l, s)])
      /\ wire'[l][s] = wire[l][s] \o replies
      /\ \A k \in Peers : k # l => wire'[k] = wire[k]
  BY <1>1, ReplyAt
<1>3. temp'[s] = <<>>
  BY <1>1 DEF FollowInv
<1> QED
  BY <1>2, <1>3, LinkStep

\* A handler of a following node that changes nothing of it and answers nothing ...
LEMMA FollowerSilent ==
  ASSUME Inv, NEW s \in Node, OneSource(s), FollowInv(s), NEW l \in Peers,
         wire[l][Other(l, s)] # <<>>, Reply(l, Other(l, s), <<>>),
         UNCHANGED <<chain, temp, pc>>
  PROVE  FollowInv(s)'
<1>1. /\ wire[l][s] \in Seq(Message) /\ wire[l][Other(l, s)] \in Seq(Message)
      /\ Followed(wire[l][Other(l, s)], wire[l][s], chain[Other(l, s)], chain[s])
      /\ Begins(chain[Other(l, s)], chain[s])
  BY LinkFacts
<1>2. Followed(Tail(wire[l][Other(l, s)]), wire[l][s] \o <<>>, chain[Other(l, s)], chain[s])
  BY <1>1, TakeFromSource, AddedReplies
<1>3. <<>> \in Seq(Message)
  OBVIOUS
<1> QED
  BY <1>1, <1>2, <1>3, FollowerStep

\* ... and one that answers with one message.
LEMMA FollowerAnswers ==
  ASSUME Inv, NEW s \in Node, OneSource(s), FollowInv(s), NEW l \in Peers,
         NEW x \in Message, Reply(l, Other(l, s), <<x>>), UNCHANGED <<chain, temp, pc>>,
         Followed(Tail(wire[l][Other(l, s)]), Append(wire[l][s], x),
                  chain[Other(l, s)], chain[s])
  PROVE  FollowInv(s)'
<1>1. wire[l][s] \in Seq(Message) /\ Begins(chain[Other(l, s)], chain[s])
  BY LinkFacts
<1>2. wire[l][s] \o <<x>> = Append(wire[l][s], x) /\ <<x>> \in Seq(Message)
  BY <1>1, AddedReplies
<1> QED
  BY <1>1, <1>2, FollowerStep

\* The summary of a following node is one of a beginning of the source's chain.
LEMMA FollowerSummary ==
  ASSUME Inv, NEW s \in Node, OneSource(s), FollowInv(s), NEW l \in Peers,
         HandleSummaryRequest(l, Other(l, s))
  PROVE  FollowInv(s)'
<1> DEFINE p == Other(l, s)
           q == wire[l][p]
           r == wire[l][s]
           c == chain[p]
           d == chain[s]
           x == SummaryResponse(front(c), back(c), cumDifficulty(c))
<1>1. /\ q # <<>> /\ Reply(l, p, <<x>>) /\ UNCHANGED <<chain, temp, pc>>
  BY DEF HandleSummaryRequest, Arrives
<1>2. /\ r \in Seq(Message) /\ q \in Seq(Message) /\ Followed(q, r, c, d) /\ Begins(c, d)
  BY LinkFacts
<1>3. p \in Node
  BY SourceLinks
<1>4. /\ Len(c) \in Nat \ {0} /\ c \in Seq(Block) /\ d \in Seq(Block) /\ x \in Message
  BY <1>3, NodeFacts, MessageTypes
<1>5. /\ IsSummary(x) /\ ~IsUpdate(x) /\ ~IsRequest(x)
      /\ x.first = front(c) /\ x.cumdiff = cumDifficulty(c)
      /\ x.message # "chain"
  BY DEF IsSummary, IsUpdate, IsRequest, SummaryResponse
<1>6. Followed(Tail(q), r, c, d)
  BY <1>1, <1>2, TakeFromSource
<1> HIDE DEF p, q, r, c, d, x
<1>7. cumDifficulty(c) <= cumDifficulty(d)
  BY <1>2, <1>4, CumDifficultyGrows DEF Begins, Block
<1>8. c[1] = d[1]
  BY <1>2, <1>4 DEF Begins
<1>9. ToSource(x, c, d)
  BY <1>5, <1>7, <1>8 DEF ToSource, front
<1>10. Followed(Tail(q), Append(r, x), c, d)
  BY <1>2, <1>4, <1>5, <1>6, <1>9, AddFromFollower
<1> QED
  BY <1>1, <1>4, <1>10, FollowerAnswers DEF p, q, r, c, d

\* Nobody asks a following node for blocks.
LEMMA FollowerGetsNoRequest ==
  ASSUME Inv, NEW s \in Node, OneSource(s), FollowInv(s), NEW l \in Peers
  PROVE  ~Arrives(l, Other(l, s), "chain", "request")
<1> SUFFICES ASSUME Arrives(l, Other(l, s), "chain", "request") PROVE FALSE
  OBVIOUS
<1> DEFINE q == wire[l][Other(l, s)]
<1>1. /\ q \in Seq(Message) /\ q # <<>>
      /\ Followed(q, wire[l][s], chain[Other(l, s)], chain[s])
  BY LinkFacts DEF Arrives
<1>2. Head(q) = q[1] /\ 1 \in 1..Len(q)
  BY <1>1, TailIs
<1>3. ToFollower(Head(q), chain[Other(l, s)], chain[s])
  BY <1>1, <1>2 DEF Followed
<1> QED
  BY <1>3 DEF ToFollower, IsRequest, Arrives

\* An announcement makes a following node ask for a summary, or not.
LEMMA FollowerAnnounced ==
  ASSUME Inv, NEW s \in Node, OneSource(s), FollowInv(s), NEW l \in Peers,
         HandleNewBlock(l, Other(l, s))
  PROVE  FollowInv(s)'
<1> DEFINE q == wire[l][Other(l, s)]
<1>1. q # <<>> /\ UNCHANGED <<chain, temp, pc>>
  BY DEF HandleNewBlock, Arrives
<1>2. PICK x \in {SummaryRequest, NewBlockResponse} : Reply(l, Other(l, s), <<x>>)
  BY DEF HandleNewBlock
<1>3. x \in Message /\ Plain(x) /\ x.message # "chain"
  BY <1>2, MessageTypes, PlainMessages DEF SummaryRequest, NewBlockResponse
<1>4. /\ wire[l][s] \in Seq(Message) /\ q \in Seq(Message)
      /\ Followed(q, wire[l][s], chain[Other(l, s)], chain[s])
  BY LinkFacts
<1>5. Followed(Tail(q), wire[l][s], chain[Other(l, s)], chain[s]) /\ Tail(q) \in Seq(Message)
  BY <1>1, <1>4, TakeFromSource, TailIs
<1>6. Followed(Tail(q), Append(wire[l][s], x), chain[Other(l, s)], chain[s])
  BY <1>3, <1>4, <1>5, AddPlain
<1> QED
  BY <1>1, <1>2, <1>3, <1>6, FollowerAnswers

\* What a following node asks for on a summary: the blocks after its last one, up
\* to the last one of the summary.
LEMMA FollowerAsks ==
  ASSUME Inv, NEW s \in Node, OneSource(s), FollowInv(s), NEW l \in Peers,
         HandleSummaryResponse(l, Other(l, s))
  PROVE  FollowInv(s)'
<1> DEFINE p == Other(l, s)
           q == wire[l][p]
           r == wire[l][s]
           c == chain[p]
           d == chain[s]
           m == Head(q)
           x == ChainRequest(back(c).index + 1, m.last.index)
<1>1. /\ q # <<>> /\ Reply(l, p, SummaryReplies(p, m)) /\ CacheOrSync(p, temp[p]) /\ pc' = pc
  BY DEF HandleSummaryResponse, Arrives
<1>2. /\ r \in Seq(Message) /\ q \in Seq(Message) /\ Followed(q, r, c, d) /\ Begins(c, d)
      /\ temp[p] = <<>>
  BY LinkFacts
<1>3. p \in Node /\ p \in Ends(l)
  BY SourceLinks
<1>4. chain' = chain /\ temp' = temp
  BY <1>1, <1>2, <1>3, NothingToSync
<1>5. IsSummary(m) /\ m \in Message
  BY <1>3, ArrivesFacts DEF HandleSummaryResponse, IsSummary
<1>6. /\ 1 \in 1..Len(q) /\ m = q[1] /\ Tail(q) \in Seq(Message) /\ Len(q) \in Nat
      /\ \A i \in 1..Len(Tail(q)) : i + 1 \in 1..Len(q) /\ Tail(q)[i] = q[i+1]
  BY <1>1, <1>2, TailIs
<1>7. Followed(Tail(q), r, c, d)
  BY <1>1, <1>2, TakeFromSource
<1>8. Len(c) \in Nat \ {0} /\ back(c).index = Len(c) - 1
  BY <1>3, NodeFacts
<1> HIDE DEF p, q, r, c, d, m
<1>9. m.first.hash = d[1].hash /\ Tip(m) \in (Len(c) - 1)..(Len(d) - 1) /\ Tip(m) = m.last.index
  BY <1>2, <1>5, <1>6 DEF Followed, ToFollower, Tip
<1>10. c[1] = d[1]
  BY <1>2, <1>8 DEF Begins
<1>11. SummaryReplies(p, m) = <<>> \/ SummaryReplies(p, m) = <<x>>
  BY <1>2, <1>9, <1>10 DEF SummaryReplies, front, c
<1>12. CASE SummaryReplies(p, m) = <<>>
  BY <1>1, <1>4, <1>12, FollowerSilent DEF p, q
<1>13. CASE SummaryReplies(p, m) = <<x>>
  <2>1. back(c).index + 1 = Len(c) /\ m.last.index \in Nat
    <3>1. m.last \in Block
      BY <1>5, MessageFields DEF IsSummary
    <3> QED
      BY <1>8, <3>1 DEF Block, BlockOver
  <2>2. x \in Message
    BY <1>8, <2>1, MessageTypes
  <2>3. /\ IsRequest(x) /\ ~IsSummary(x) /\ ~IsUpdate(x)
        /\ x.full = FALSE /\ x.id1 = Len(c) /\ x.id2 = m.last.index
        /\ x.kind = "request"
    BY <2>1 DEF IsRequest, IsSummary, IsUpdate, ChainRequest
  <2>4. Tip(x) = Tip(m)
    BY <1>9, <2>3 DEF Tip
  <2> HIDE DEF x
  <2>5. ToSource(x, c, d)
    <3>1. Len(c) \in 1..Len(c)
      BY <1>8
    <3> QED
      BY <1>9, <2>3, <3>1 DEF ToSource
  <2>6. ASSUME NEW i \in 1..Len(Tail(q))
        PROVE  /\ IsUpdate(Tail(q)[i]) => Tip(Tail(q)[i]) <= Tip(x)
               /\ IsSummary(Tail(q)[i]) => Tip(x) <= Tip(Tail(q)[i])
    <3>1. i + 1 \in 1..Len(q) /\ Tail(q)[i] = q[i+1] /\ 1 < i + 1
      BY <1>6
    <3> QED
      BY <1>2, <1>5, <1>6, <2>4, <3>1 DEF Followed, InOrder
  <2>7. \A j \in 1..Len(r) : IsRequest(r[j]) => Tip(r[j]) <= Tip(x)
    BY <1>2, <1>5, <1>6, <2>4 DEF Followed, InOrder
  <2>8. Followed(Tail(q), Append(r, x), c, d)
    BY <1>2, <1>6, <1>7, <2>2, <2>5, <2>6, <2>7, AddFromFollower
  <2> QED
    BY <1>1, <1>4, <1>13, <2>2, <2>8, FollowerAnswers DEF p, q, r, c, d
<1> QED
  BY <1>11, <1>12, <1>13

\* The blocks a following node gets fit its chain and end where it ends or later.
LEMMA FollowerBlocks ==
  ASSUME Inv, NEW s \in Node, OneSource(s), FollowInv(s), NEW l \in Peers,
         Arrives(l, Other(l, s), "chain", "response"),
         Head(wire[l][Other(l, s)]).blocks # <<>>
  PROVE  LET b == Head(wire[l][Other(l, s)]).blocks
             c == chain[Other(l, s)]
             d == chain[s]
         IN  /\ b \in Seq(Block) /\ Len(b) \in Nat \ {0} /\ Linked(b)
             /\ b[1].index \in 1..Len(c)
             /\ b[1].index + Len(b) \in Len(c)..Len(d)
             /\ Tip(Head(wire[l][Other(l, s)])) = b[1].index + Len(b) - 1
             /\ \A i \in 1..Len(b) : b[i] = d[b[1].index + i]
             /\ ~UpdateGap(c, b) /\ UpdateAligned(c, b)
<1> DEFINE p == Other(l, s)
           q == wire[l][p]
           c == chain[p]
           d == chain[s]
           m == Head(q)
           b == m.blocks
<1>1. /\ q \in Seq(Message) /\ Followed(q, wire[l][s], c, d) /\ Begins(c, d) /\ q # <<>>
  BY LinkFacts DEF Arrives
<1>2. p \in Node /\ p \in Ends(l)
  BY SourceLinks
<1>3. /\ b \in Seq(Block) /\ Linked(b) /\ Len(b) \in Nat \ {0}
  BY <1>2, ChainResponseFacts
<1>4. m = q[1] /\ 1 \in 1..Len(q)
  BY <1>1, TailIs
<1>5. IsUpdate(m)
  BY DEF IsUpdate, Arrives
<1>6. /\ Len(c) \in Nat \ {0} /\ back(c).index = Len(c) - 1
      /\ Len(d) \in Nat \ {0} /\ WellFormed(d)
  BY <1>2, NodeFacts
<1> HIDE DEF p, q, c, d, m
<1>7. /\ b[1].index \in 1..Len(c)
      /\ Tip(m) \in (Len(c) - 1)..(Len(d) - 1)
      /\ \A i \in 1..Len(b) : b[i].index + 1 \in 1..Len(d) /\ b[i] = d[b[i].index + 1]
  BY <1>1, <1>4, <1>5 DEF Followed, ToFollower
<1>8. Tip(m) = b[Len(b)].index
  BY <1>5 DEF Tip, IsUpdate, IsSummary, back
<1> HIDE DEF b
<1>9. \A i \in 1..Len(b) : b[i].index = b[1].index + i - 1
  BY <1>3 DEF Linked
<1>10. b[1].index \in Nat \ {0} /\ b[1].index <= Len(c)
  BY <1>6, <1>7
<1>11. Tip(m) = b[1].index + Len(b) - 1
  <2>1. Len(b) \in 1..Len(b)
    BY <1>3
  <2> QED
    BY <1>8, <1>9, <2>1
<1>12. b[1].index + Len(b) \in Len(c)..Len(d)
  BY <1>3, <1>6, <1>7, <1>10, <1>11
<1>13. ASSUME NEW i \in 1..Len(b) PROVE b[i] = d[b[1].index + i]
  <2>1. b[i].index = b[1].index + i - 1 /\ b[i] = d[b[i].index + 1]
    BY <1>7, <1>9
  <2>2. b[i].index + 1 = b[1].index + i
    <3>1. i \in Nat
      BY <1>3
    <3> QED
      BY <1>10, <2>1, <3>1
  <2> QED
    BY <2>1, <2>2
<1>14. ~UpdateGap(c, b)
  BY <1>6, <1>10 DEF UpdateGap
<1>15. UpdateAligned(c, b)
  <2> DEFINE k == b[1].index
  <2>1. k \in Nat \ {0} /\ k <= Len(c) /\ k + 1 \in 2..Len(d) /\ (k + 1) - 1 = k
    <3>1. 1 \in 1..Len(b)
      BY <1>3
    <3>2. k + 1 \in 1..Len(d)
      BY <1>7, <3>1
    <3> QED
      BY <1>6, <1>10, <3>2
  <2>2. b[1] = d[k + 1]
    BY <1>3, <1>7
  <2> HIDE DEF k
  <2>3. d[k + 1].prev = d[k].hash
    BY <1>6, <2>1 DEF WellFormed, Linked
  <2>4. c[k] = d[k]
    BY <1>1, <1>6, <2>1 DEF Begins
  <2> QED
    BY <2>2, <2>3, <2>4 DEF UpdateAligned, k
<1> QED
  BY <1>3, <1>7, <1>11, <1>12, <1>13, <1>14, <1>15 DEF b, m, q, c, d, p

\* Every chain stays or gets longer at its end.
ChainsExtend == \A n \in Node : Begins(chain[n], chain'[n])

\* Chains that do not change are extended by nothing.
LEMMA ChainsKept ==
  ASSUME Inv, chain' = chain
  PROVE  ChainsExtend
<1>1. ASSUME NEW n \in Node PROVE Begins(chain[n], chain[n])
  <2>1. Len(chain[n]) \in Nat
    BY NodeFacts
  <2> QED
    BY <2>1 DEF Begins
<1> QED
  BY <1>1 DEF ChainsExtend

\* Applying an update makes the chain of a following node a longer beginning of
\* the source's chain.
LEMMA FollowerAccepts ==
  ASSUME Inv, NEW s \in Node, OneSource(s), FollowInv(s), NEW l \in Peers,
         AcceptUpdate(l, Other(l, s))
  PROVE  FollowInv(s)' /\ ChainsExtend
<1> DEFINE p == Other(l, s)
           q == wire[l][p]
           r == wire[l][s]
           c == chain[p]
           d == chain[s]
           b == Head(q).blocks
           k == b[1].index
           e == SyncedChain(c, b)
<1>1. /\ Arrives(l, p, "chain", "response") /\ b # <<>> /\ CacheOrSync(p, b)
      /\ ~UpdateGap(c, b) /\ UpdateAligned(c, b)
      /\ Reply(l, p, <<>>) /\ pc' = pc
  BY DEF AcceptUpdate
<1>2. /\ r \in Seq(Message) /\ q \in Seq(Message) /\ Followed(q, r, c, d) /\ Begins(c, d)
      /\ pc[p] = "off"
  BY LinkFacts
<1>3. p \in Node /\ p \in Ends(l) /\ p # s
  BY SourceLinks
<1>4. /\ chain' = [chain EXCEPT ![p] = e] /\ temp' = [temp EXCEPT ![p] = <<>>]
  <2> HIDE DEF p, q, r, d, b
  <2> QED
    BY <1>1, <1>2, ZenonT(40) DEF CacheOrSync
<1>5. /\ b \in Seq(Block) /\ Len(b) \in Nat \ {0}
      /\ k \in 1..Len(c)
      /\ k + Len(b) \in Len(c)..Len(d)
      /\ Tip(Head(q)) = k + Len(b) - 1
      /\ \A i \in 1..Len(b) : b[i] = d[k + i]
  BY <1>1, FollowerBlocks
<1>6. c \in Seq(Block) /\ WellFormed(c) /\ Len(c) \in Nat \ {0} /\ Len(d) \in Nat \ {0}
  BY <1>3, NodeFacts
<1>7. UpdateFits(c, b)
  BY <1>1, <1>3, AcceptedUpdateFits
<1>8. q # <<>> /\ Head(q) = q[1] /\ IsUpdate(q[1])
  <2>1. q # <<>>
    BY <1>1 DEF Arrives
  <2>2. Head(q) = q[1]
    BY <1>2, <2>1, TailIs
  <2>3. IsUpdate(Head(q))
    BY <1>1 DEF IsUpdate, Arrives
  <2> QED
    BY <2>1, <2>2, <2>3
<1> HIDE DEF p, q, r, c, d, b
<1>9. k \in Nat \ {0} /\ k # 0 /\ k <= Len(c)
  BY <1>5, <1>6
<1>10. /\ Len(e) = k + Len(b)
       /\ \A i \in 1..(k + Len(b)) : e[i] = IF i <= k THEN c[i] ELSE b[i - k]
  BY <1>1, <1>5, <1>6, <1>7, <1>9, SplicedChain
<1> HIDE DEF k, e
<1>11. Len(e) \in Nat /\ Len(c) <= Len(e) /\ Len(e) <= Len(d) /\ Len(e) = Tip(q[1]) + 1
  BY <1>5, <1>6, <1>8, <1>9, <1>10
<1>12. ASSUME NEW i \in 1..Len(e) PROVE e[i] = d[i]
  <2>1. CASE i <= k
    <3>1. i \in 1..Len(c)
      BY <1>6, <1>9, <1>11, <2>1
    <3> QED
      BY <1>2, <1>10, <2>1, <3>1 DEF Begins
  <2>2. CASE ~(i <= k)
    <3>1. i - k \in 1..Len(b) /\ k + (i - k) = i
      BY <1>5, <1>9, <1>10, <2>2
    <3>2. e[i] = b[i - k]
      BY <1>10, <2>2
    <3>3. b[i - k] = d[k + (i - k)]
      BY <1>5, <3>1
    <3> QED
      BY <3>1, <3>2, <3>3
  <2> QED
    BY <2>1, <2>2
<1>13. Begins(e, d)
  BY <1>11, <1>12 DEF Begins
<1>14. Begins(c, e)
  <2>1. ASSUME NEW i \in 1..Len(c) PROVE c[i] = e[i]
    <3>1. i \in 1..Len(e)
      BY <1>6, <1>11
    <3> QED
      BY <1>2, <1>12, <3>1 DEF Begins
  <2> QED
    BY <1>11, <2>1 DEF Begins
<1>15. Followed(Tail(q), r, e, d)
  BY <1>2, <1>6, <1>8, <1>11, UpdateTaken
<1>16. Followed(Tail(q), r \o <<>>, e, d) /\ <<>> \in Seq(Message)
  BY <1>2, <1>15, AddedReplies
<1>17. /\ chain'[p] = e
       /\ \A n \in Node : n # p => chain'[n] = chain[n] /\ temp'[n] = temp[n]
  BY <1>3, <1>4 DEF Inv, TypeOK
<1>18. FollowInv(s)'
  BY <1>1, <1>13, <1>16, <1>17, FollowerStep DEF p, q, r, d
<1>19. ASSUME NEW n \in Node PROVE Begins(chain[n], chain'[n])
  <2>1. CASE n = p
    BY <1>14, <1>17, <2>1 DEF c
  <2>2. CASE n # p
    <3>1. Len(chain[n]) \in Nat
      BY NodeFacts
    <3> QED
      BY <1>17, <2>2, <3>1 DEF Begins
  <2> QED
    BY <2>1, <2>2
<1> QED
  BY <1>18, <1>19 DEF ChainsExtend

\* The other handlers of a following node that get blocks.
LEMMA FollowerRefuses ==
  ASSUME Inv, NEW s \in Node, OneSource(s), FollowInv(s), NEW l \in Peers,
         \/ RequestMore(l, Other(l, s)) \/ UpdateAssertFails(l, Other(l, s))
         \/ MissingBlocks(l, Other(l, s)) \/ RejectChain(l, Other(l, s))
  PROVE  FollowInv(s)' /\ chain' = chain
<1> DEFINE p == Other(l, s)
<1>1. p \in Node
  BY SourceLinks
<1>2. CASE RequestMore(l, p)
  <2> DEFINE b == Head(wire[l][p]).blocks
  <2>1. /\ Arrives(l, p, "chain", "response") /\ b # <<>>
        /\ UpdateGap(chain[p], b) \/ ~UpdateAligned(chain[p], b)
    <3> HIDE DEF p
    <3> QED
      BY <1>2, ZenonT(40) DEF RequestMore
  <2>2. ~UpdateGap(chain[p], b) /\ UpdateAligned(chain[p], b)
    BY <2>1, FollowerBlocks
  <2> QED
    BY <2>1, <2>2
<1>3. CASE UpdateAssertFails(l, p) \/ MissingBlocks(l, p)
  <2>1. PICK reason : Terminate(p, reason)
    BY <1>3 DEF UpdateAssertFails, MissingBlocks
  <2>2. chain' = chain
    BY <2>1 DEF Terminate
  <2> QED
    BY <1>1, <2>1, <2>2, TerminateFollow
<1>4. CASE RejectChain(l, p)
  <2>1. /\ wire[l][p] # <<>> /\ Reply(l, p, <<>>) /\ UNCHANGED <<chain, temp, pc>>
    BY <1>4 DEF RejectChain, Arrives
  <2> QED
    BY <2>1, FollowerSilent
<1> QED
  BY <1>2, <1>3, <1>4

\* The answer to an announcement changes nothing.
LEMMA FollowerAnswered ==
  ASSUME Inv, NEW s \in Node, OneSource(s), FollowInv(s), NEW l \in Peers,
         HandleNewBlockResponse(l, Other(l, s))
  PROVE  FollowInv(s)'
<1>1. /\ wire[l][Other(l, s)] # <<>> /\ Reply(l, Other(l, s), <<>>)
      /\ CacheOrSync(Other(l, s), temp[Other(l, s)]) /\ pc' = pc
  BY DEF HandleNewBlockResponse, Arrives
<1>2. temp[Other(l, s)] = <<>> /\ Other(l, s) \in Node
  BY LinkFacts, SourceLinks
<1>3. chain' = chain /\ temp' = temp
  BY <1>1, <1>2, NothingToSync
<1> QED
  BY <1>1, <1>3, FollowerSilent

\* Handlers that only answer, and those that look for an update when there is none.
LEMMA HandlersKeepChains ==
  ASSUME Inv, NEW n \in Node, NEW l \in Peers, temp[n] = <<>>,
         \/ HandleSummaryRequest(l, n) \/ HandleChainRequest(l, n) \/ HandleNewBlock(l, n)
         \/ HandleNewBlockResponse(l, n) \/ HandleSummaryResponse(l, n)
  PROVE  chain' = chain
<1>1. CASE HandleSummaryRequest(l, n) \/ HandleChainRequest(l, n) \/ HandleNewBlock(l, n)
  BY <1>1 DEF HandleSummaryRequest, HandleChainRequest, HandleNewBlock
<1>2. CASE HandleNewBlockResponse(l, n) \/ HandleSummaryResponse(l, n)
  <2>1. CacheOrSync(n, temp[n])
    BY <1>2 DEF HandleNewBlockResponse, HandleSummaryResponse
  <2> QED
    BY <2>1, NothingToSync
<1> QED
  BY <1>1, <1>2

\* A message handled at either end of a connection.
LEMMA ReceiveFollow ==
  ASSUME Inv, NEW s \in Node, OneSource(s), FollowInv(s), NEW l \in Peers,
         NEW n \in Ends(l), Receive(l, n)
  PROVE  FollowInv(s)' /\ ChainsExtend
<1>1. n \in Node /\ (n = s \/ n = Other(l, s))
  BY SourceLinks, EndsOfLink
<1>2. temp[n] = <<>>
  BY <1>1, LinkFacts
<1>3. CASE \/ HandleSummaryRequest(l, n) \/ HandleChainRequest(l, n) \/ HandleNewBlock(l, n)
           \/ HandleNewBlockResponse(l, n) \/ HandleSummaryResponse(l, n)
  <2>1. ChainsExtend
    BY <1>1, <1>2, <1>3, HandlersKeepChains, ChainsKept
  <2>2. CASE n = s
    BY <1>3, <2>1, <2>2, SourceSummary, SourceBlocks, SourceAnnounced, SourceResponses
  <2>3. CASE n = Other(l, s)
    <3>1. ~HandleChainRequest(l, n)
      BY <2>3, FollowerGetsNoRequest DEF HandleChainRequest
    <3> QED
      BY <1>3, <2>1, <2>3, <3>1, FollowerSummary, FollowerAnnounced, FollowerAnswered,
         FollowerAsks
  <2> QED
    BY <1>1, <2>2, <2>3
<1>4. CASE AcceptUpdate(l, n) \/ RequestMore(l, n) \/ UpdateAssertFails(l, n)
             \/ MissingBlocks(l, n) \/ RejectChain(l, n)
  <2>1. Arrives(l, n, "chain", "response")
    BY <1>4 DEF AcceptUpdate, RequestMore, UpdateAssertFails, MissingBlocks, RejectChain
  <2>2. n = Other(l, s)
    BY <1>1, <2>1, SourceGetsNoBlocks
  <2>3. CASE AcceptUpdate(l, n)
    BY <2>2, <2>3, FollowerAccepts
  <2>4. CASE RequestMore(l, n) \/ UpdateAssertFails(l, n) \/ MissingBlocks(l, n)
               \/ RejectChain(l, n)
    <3>1. FollowInv(s)' /\ chain' = chain
      BY <2>2, <2>4, FollowerRefuses
    <3> QED
      BY <3>1, ChainsKept
  <2> QED
    BY <1>4, <2>3, <2>4
<1> QED
  BY <1>3, <1>4 DEF Receive

\* A step of the mining thread or of a process keeps or extends the chains.
LEMMA MiningExtends ==
  ASSUME Inv, NEW s \in Node, OneSource(s), FollowInv(s), NEW n \in Node,
         MineStep(n) \/ FoundBlock(n) \/ Restart(n)
  PROVE  ChainsExtend
<1>1. CASE BeginBlock(n) \/ AbortBlock(n) \/ BroadcastNewBlock(n) \/ Restart(n)
  <2>1. chain' = chain
    BY <1>1 DEF BeginBlock, Terminate, AbortBlock, BroadcastNewBlock, Restart
  <2> QED
    BY <2>1, ChainsKept
<1>2. CASE SyncBlockchain(n)
  <2>1. n = s /\ temp[s] = <<>>
    BY <1>2, OnlySourceMines DEF SyncBlockchain, FollowInv
  <2>2. SyncedChain(chain[s], temp[s]) = chain[s]
    BY <2>1 DEF SyncedChain
  <2>3. chain' = chain
    BY <1>2, <2>1, <2>2 DEF SyncBlockchain, Inv, TypeOK
  <2> QED
    BY <2>3, ChainsKept
<1>3. CASE FoundBlock(n)
  <2>1. PICK t \in Times[n] :
          chain' = [chain EXCEPT ![n] = addNewBlock(chain[n],
                                          MinedBlock(cand[n], <<n, mined[n] + 1>>, t))]
    BY <1>3 DEF FoundBlock
  <2> DEFINE b == MinedBlock(cand[n], <<n, mined[n] + 1>>, t)
  <2>2. pc[n] = "mining"
    BY <1>3 DEF FoundBlock, Mining
  <2>3. b \in Block /\ addNewBlock(chain[n], b) = Append(chain[n], b)
    BY <2>2, FoundBlockFacts
  <2>4. chain' = [chain EXCEPT ![n] = Append(chain[n], b)]
    BY <2>1, <2>3
  <2> HIDE DEF b
  <2>5. ASSUME NEW m \in Node PROVE Begins(chain[m], chain'[m])
    <3>1. chain[m] \in Seq(Block) /\ Len(chain[m]) \in Nat
      BY NodeFacts
    <3>2. chain'[m] = IF m = n THEN Append(chain[m], b) ELSE chain[m]
      BY <2>4 DEF Inv, TypeOK
    <3>3. /\ Len(Append(chain[m], b)) = Len(chain[m]) + 1
          /\ \A i \in 1..Len(chain[m]) : Append(chain[m], b)[i] = chain[m][i]
      BY <2>3, <3>1, AppendProperties
    <3> QED
      BY <3>1, <3>2, <3>3 DEF Begins
  <2> QED
    BY <2>5 DEF ChainsExtend
<1> QED
  BY <1>1, <1>2, <1>3 DEF MineStep

\* Every step keeps the order of what is on its way and only extends chains.
LEMMA FollowNext ==
  ASSUME Inv, NEW s \in Node, OneSource(s), FollowInv(s), [Next]_vars
  PROVE  FollowInv(s)' /\ ChainsExtend
<1>1. CASE UNCHANGED vars
  <2>1. UNCHANGED <<chain, wire, temp, pc>>
    BY <1>1 DEF vars
  <2>2. temp'[s] = <<>> /\ \A n \in Node \ {s} : pc'[n] = "off"
    BY <2>1 DEF FollowInv
  <2> QED
    BY <2>1, <2>2, QuietFollow, ChainsKept
<1>2. ASSUME NEW n \in Node, MineStep(n) \/ FoundBlock(n) \/ Restart(n)
      PROVE  FollowInv(s)' /\ ChainsExtend
  <2>1. ChainsExtend
    BY <1>2, MiningExtends
  <2>2. FollowInv(s)'
    BY <1>2, MiningQuiet, BroadcastFollow, FoundBlockFollow, RestartFollow DEF MineStep
  <2> QED
    BY <2>1, <2>2
<1>3. ASSUME NEW l \in Peers, Connect(l) \/ Disconnect(l)
      PROVE  FollowInv(s)' /\ ChainsExtend
  <2>1. chain' = chain
    BY <1>3 DEF Connect, Disconnect
  <2> QED
    BY <1>3, <2>1, ConnectFollow, DisconnectFollow, ChainsKept
<1> QED
  BY <1>1, <1>2, <1>3, ReceiveFollow DEF Next

\* The beginning of a sequence.
LEMMA BeginningOf ==
  ASSUME NEW S, NEW c \in Seq(S), NEW d \in Seq(S), Begins(c, d)
  PROVE  SubSeq(d, 1, Len(c)) = c
<1> DEFINE t == SubSeq(d, 1, Len(c))
<1>1. Len(c) \in Nat /\ Len(d) \in Nat /\ Len(c) <= Len(d) /\ \A i \in 1..Len(c) : c[i] = d[i]
  BY LenProperties DEF Begins
<1>2. \A i \in 1..Len(c) : d[i] \in S
  <2> SUFFICES ASSUME NEW i \in 1..Len(c) PROVE d[i] \in S
    OBVIOUS
  <2>1. i \in 1..Len(d)
    BY <1>1
  <2> QED
    BY <2>1, ElementOfSeq
<1>3. /\ t \in Seq(S)
      /\ Len(t) = IF 1 <= Len(c) THEN Len(c) - 1 + 1 ELSE 0
      /\ \A i \in 1..(Len(c) - 1 + 1) : t[i] = d[1 + i - 1]
  BY <1>1, <1>2, SubSeqProperties
<1> HIDE DEF t
<1>4. Len(t) = Len(c)
  BY <1>1, <1>3
<1>5. ASSUME NEW i \in 1..Len(t) PROVE t[i] = c[i]
  <2>1. i \in 1..Len(c) /\ i \in 1..(Len(c) - 1 + 1) /\ 1 + i - 1 = i
    BY <1>1, <1>4
  <2> QED
    BY <1>1, <1>3, <2>1
<1>6. t = c
  BY <1>3, <1>4, <1>5, SeqEqual
<1> QED
  BY <1>6 DEF t

\* In a network with one source, whatever is mined, lost or restarted and however
\* many requests and answers are on their way, a passive node never loses a block.
THEOREM FollowersOnlyExtend ==
  ASSUME NEW s \in Node, OneSource(s)
  PROVE  Spec => PassiveNodesOnlyExtend
<1> DEFINE Extended(n) == /\ Len(chain'[n]) >= Len(chain[n])
                          /\ SubSeq(chain'[n], 1, Len(chain[n])) = chain[n]
<1>1. Init => FollowInv(s)
  BY FollowInit
<1>2. Inv /\ FollowInv(s) /\ [Next]_vars => FollowInv(s)'
  BY FollowNext
<1>3. ASSUME Inv, FollowInv(s), [Next]_vars, NEW n \in Node PROVE Extended(n)
  <2>1. Begins(chain[n], chain'[n])
    BY <1>3, FollowNext DEF ChainsExtend
  <2>2. chain[n] \in Seq(Block) /\ chain'[n] \in Seq(Block)
    BY <1>3, NextInv DEF Inv, TypeOK
  <2>3. Len(chain[n]) \in Nat /\ Len(chain'[n]) \in Nat
    BY <2>2, LenProperties
  <2> QED
    BY <2>1, <2>2, <2>3, BeginningOf DEF Begins
<1>4. Inv /\ FollowInv(s) /\ [Next]_vars => [\A n \in Followers : Extended(n)]_vars
  BY <1>3 DEF Followers
<1> QED
  BY <1>1, <1>2, <1>4, InvHolds, PTL DEF Spec, PassiveNodesOnlyExtend

\* In such a network no step gives a node a chain of lower cumulative difficulty.
THEOREM OneSourceByDifficulty ==
  ASSUME NEW s \in Node, OneSource(s)
  PROVE  Spec => CumulativeDifficultyNeverFalls
<1> DEFINE Kept(n) == cumDifficulty(chain'[n]) >= cumDifficulty(chain[n])
<1>1. Init => FollowInv(s)
  BY FollowInit
<1>2. Inv /\ FollowInv(s) /\ [Next]_vars => FollowInv(s)'
  BY FollowNext
<1>3. ASSUME Inv, FollowInv(s), [Next]_vars, NEW n \in Node PROVE Kept(n)
  <2>1. Begins(chain[n], chain'[n])
    BY <1>3, FollowNext DEF ChainsExtend
  <2>2. /\ chain[n] \in Seq(Block) /\ Len(chain[n]) > 0
        /\ chain'[n] \in Seq(Block) /\ Len(chain'[n]) > 0
    BY <1>3, NextInv DEF Inv, TypeOK, SyncInv, ChainsWellFormed, WellFormed
  <2>3. cumDifficulty(chain[n]) \in Nat /\ cumDifficulty(chain'[n]) \in Nat
    BY <2>2, CumDifficultyType DEF Block
  <2>4. cumDifficulty(chain[n]) <= cumDifficulty(chain'[n])
    BY <2>1, <2>2, CumDifficultyGrows DEF Begins, Block
  <2> QED
    BY <2>3, <2>4
<1>4. Inv /\ FollowInv(s) /\ [Next]_vars => [\A n \in Node : Kept(n)]_vars
  BY <1>3
<1> QED
  BY <1>1, <1>2, <1>4, InvHolds, PTL DEF Spec, CumulativeDifficultyNeverFalls
===============================================================================
