---------------------------- MODULE MinerNodeProofs ----------------------------
(***************************************************************************)
(* Proofs about MinerNode, for all bounds and any number of WebSocket      *)
(* threads: the type invariant, that a node has a chain from initialize on *)
(* but for a file that a crash left empty, and that std::terminate takes a *)
(* refused block or an odd request.                                        *)
(***************************************************************************)
EXTENDS MinerNode, BlockchainProofs

-------------------------------------------------------------------------------
(* The inductive invariant.                                                  *)

\* The hashes there can be when n blocks were mined, and the blocks that have them.
MinedHashes(n) == {"mined"} \X (1..n)
Hashes(n) == MinedHashes(n) \cup {"genesis", "torn"} \X Nat \cup {"peer"} \X Nat \X Nat
Known == BlockOver(Hashes(count["mined"]))
Unmined == [index : Nat, prev : Hashes(count["mined"]), difficulty : Nat]

\* Where a thread can be.
Places ==
  {"off", "initialize", "http", "autostart", "wait", "join", "joined", "stop_http", "members",
   "peers", "loop", "template", "enter", "mining", "add", "write", "sync", "append",
   "replace", "reset", "rewrite", "broadcast", "exited", "idle", "read", "check"}

FileOver(B) == [exists : BOOLEAN, blocks : Seq(B), cut : BOOLEAN]

\* The data: every block that is kept has a hash that was handed out, and an
\* update has no block that this node mined.
Values ==
  /\ chain \in Seq(Known) /\ temp \in Seq(Known)
  /\ file \in FileOver(Known)
  /\ \A i \in 1..Len(temp) : temp[i].hash \notin {"mined"} \X Nat
  /\ count \in [Counted -> Nat]
  /\ at \in [Threads -> Places]

\* The flags.
Flags == done \in BOOLEAN /\ keep \in BOOLEAN /\ exit \in BOOLEAN

\* The block in hand: a template, or a block found, which is not in the chain
\* before it is added.
WorkInHand ==
  /\ at["mine"] \in {"enter", "mining"} => work \in Unmined
  /\ at["mine"] \notin {"enter", "mining"} /\ work # NoBlock
       => work \in Known /\ work.hash \in MinedHashes(count["mined"])
  /\ at["mine"] \in {"add", "write"} => work # NoBlock
  /\ at["mine"] = "add" => \A i \in DOMAIN chain : chain[i] # work

\* An update starts inside the chain or right behind it, and is kept while it
\* is applied.
UpdateInBounds ==
  /\ temp # <<>> => front(temp).index <= Len(chain)
  /\ lock # Nobody => temp # <<>>

\* run() starts one thing after the other and leaves when it was told to.
StartsInOrder ==
  /\ at["main"] \in {"initialize", "http"} =>
       at["mine"] = "off" /\ at["rest"] = "off" /\ ~done /\ ~exit
  /\ at["main"] \in {"join", "joined", "stop_http", "members", "peers"} => exit
  /\ at["main"] = "initialize" => chain = <<>>

\* While nothing odd was asked for, a node that does not mine has no mining
\* thread left to join, but for one that gave up, and ~MinerApp joins it.
Joined ==
  status = "up" /\ odd = {} =>
    /\ done /\ ~exit /\ at["rest"] # "join" => at["mine"] = "off" \/ Refused
    /\ at["main"] = "autostart" => at["mine"] = "off" /\ (done => exit)
    /\ at["main"] \in {"joined", "stop_http", "members", "peers"} => at["mine"] = "off"

\* No thread works on an empty chain.
EmptyChain ==
  status = "up" /\ chain = <<>> =>
    /\ temp = <<>>
    /\ at["mine"] \in {"off", "loop", "template", "exited"}
    /\ \A t \in Ws : at[t] \in {"off", "idle"}

\* There is a file, but for the moment in which it is replaced, and only a crash
\* leaves it empty.
FileThere ==
  /\ file.exists /\ file.blocks = <<>> => count["crashes"] > 0
  /\ file.cut => file.exists
  /\ status = "up" /\ at["main"] # "initialize" 
       /\ at["mine"] # "rewrite" /\ (\A t \in Ws : at[t] # "rewrite")
       => file.exists

NodeInv ==
  /\ Values
  /\ Flags
  /\ Positions
  /\ WorkInHand
  /\ UpdateInBounds
  /\ StartsInOrder
  /\ Joined
  /\ EmptyChain
  /\ FileThere
  /\ NeverEmpty
  /\ TerminatesOnlyAfterRefusal

-------------------------------------------------------------------------------
(* Blocks, sequences of them and the file.                                   *)

\* A WebSocket thread is none of the others.
LEMMA WsApart ==
  ASSUME NEW t \in Ws
  PROVE  t \in Threads /\ t # "main" /\ t # "mine" /\ t # "rest" /\ t # "nobody"
BY WsAssumption DEF Threads

\* A block that was known stays known when another one is mined.
LEMMA KnownGrows ==
  ASSUME NEW n \in Nat
  PROVE  /\ Hashes(n) \subseteq Hashes(n + 1)
         /\ MinedHashes(n) \subseteq MinedHashes(n + 1)
         /\ BlockOver(Hashes(n)) \subseteq BlockOver(Hashes(n + 1))
         /\ Seq(BlockOver(Hashes(n))) \subseteq Seq(BlockOver(Hashes(n + 1)))
<1>1. MinedHashes(n) \subseteq MinedHashes(n + 1)
  BY DEF MinedHashes
<1>2. Hashes(n) \subseteq Hashes(n + 1)
  BY <1>1 DEF Hashes
<1>3. BlockOver(Hashes(n)) \subseteq BlockOver(Hashes(n + 1))
  BY <1>2 DEF BlockOver
<1>4. ASSUME NEW B, NEW C, B \subseteq C
      PROVE  Seq(B) \subseteq Seq(C)
  <2>1. ASSUME NEW s \in Seq(B)
        PROVE  s \in Seq(C)
    <3>1. s \in [1..Len(s) -> B] /\ Len(s) \in Nat
      BY LenProperties
    <3>2. s \in [1..Len(s) -> C]
      BY <3>1, <1>4
    <3> QED
      BY <3>1, <3>2, SeqDef
  <2> QED
    BY <2>1
<1> QED
  BY <1>1, <1>2, <1>3, <1>4

\* The first k elements of a sequence.
LEMMA Prefix ==
  ASSUME NEW B, NEW c \in Seq(B), NEW k \in 0..Len(c)
  PROVE  /\ SubSeq(c, 1, k) \in Seq(B)
         /\ Len(SubSeq(c, 1, k)) = k
         /\ \A i \in 1..k : SubSeq(c, 1, k)[i] = c[i]
<1>1. Len(c) \in Nat /\ k \in Nat /\ k \in Int /\ 1 \in Int
  BY LenProperties
<1>2. ASSUME NEW i \in 1..k PROVE c[i] \in B
  <2>1. i \in 1..Len(c)
    BY <1>1
  <2> QED
    BY <2>1, ElementOfSeq
<1>3. /\ SubSeq(c, 1, k) \in Seq(B)
      /\ Len(SubSeq(c, 1, k)) = IF 1 <= k THEN k - 1 + 1 ELSE 0
      /\ \A i \in 1..(k - 1 + 1) : SubSeq(c, 1, k)[i] = c[1 + i - 1]
  BY <1>1, <1>2, SubSeqProperties
<1>4. k - 1 + 1 = k /\ \A i \in 1..k : 1 + i - 1 = i
  BY <1>1
<1> QED
  BY <1>1, <1>3, <1>4

\* The elements of a sequence from position k on.
LEMMA Suffix ==
  ASSUME NEW B, NEW c \in Seq(B), NEW k \in 1..(Len(c) + 1)
  PROVE  /\ SubSeq(c, k, Len(c)) \in Seq(B)
         /\ Len(SubSeq(c, k, Len(c))) = Len(c) - k + 1
         /\ \A i \in 1..(Len(c) - k + 1) : SubSeq(c, k, Len(c))[i] = c[k + i - 1]
<1>1. Len(c) \in Nat /\ k \in Nat /\ k \in Int /\ Len(c) \in Int
  BY LenProperties
<1>2. ASSUME NEW i \in k..Len(c) PROVE c[i] \in B
  <2>1. i \in 1..Len(c)
    BY <1>1
  <2> QED
    BY <2>1, ElementOfSeq
<1>3. /\ SubSeq(c, k, Len(c)) \in Seq(B)
      /\ Len(SubSeq(c, k, Len(c))) = IF k <= Len(c) THEN Len(c) - k + 1 ELSE 0
      /\ \A i \in 1..(Len(c) - k + 1) : SubSeq(c, k, Len(c))[i] = c[k + i - 1]
  BY <1>1, <1>2, SubSeqProperties
<1>4. Len(c) - k + 1 = IF k <= Len(c) THEN Len(c) - k + 1 ELSE 0
  BY <1>1
<1> QED
  BY <1>3, <1>4

\* Whatever the addNewBlock loop takes, it keeps the blocks there were and adds
\* blocks of the update.
LEMMA AddBlocksAdds ==
  ASSUME NEW H, NEW c \in Seq(BlockOver(H)), NEW t \in Seq(BlockOver(H))
  PROVE  LET d == AddBlocks(c, t) IN
           /\ d \in Seq(BlockOver(H))
           /\ Len(d) >= Len(c)
           /\ \A i \in 1..Len(c) : d[i] = c[i]
           /\ \A i \in (Len(c) + 1)..Len(d) : \E j \in 1..Len(t) : d[i] = t[j]
           /\ SubSeq(d, Len(c) + 1, Len(d)) \in Seq(BlockOver(H))
<1> DEFINE fits == {k \in DOMAIN t : ValidHash(t[k]) /\ t[k].prev = back(c).hash}
           first == CHOOSE k \in fits : \A j \in fits : k <= j
           d == AddBlocks(c, t)
<1>1. Len(c) \in Nat /\ Len(t) \in Nat /\ DOMAIN t = 1..Len(t)
  BY LenProperties
<1>2. fits \in SUBSET (1..Len(t))
  BY <1>1
<1>3. d = IF fits = {} THEN c ELSE c \o SubSeq(t, first, Len(t))
  BY DEF AddBlocks
<1> HIDE DEF fits, d
<1>4. /\ d \in Seq(BlockOver(H))
      /\ Len(d) >= Len(c)
      /\ \A i \in 1..Len(c) : d[i] = c[i]
      /\ \A i \in (Len(c) + 1)..Len(d) : \E j \in 1..Len(t) : d[i] = t[j]
  <2>1. CASE fits = {}
    BY <1>1, <1>3, <2>1
  <2>2. CASE fits # {}
    <3>1. PICK k \in fits : \A j \in fits : k <= j
      <4>1. fits \subseteq Nat
        BY <1>1, <1>2
      <4>2. \E x \in fits : \A y \in fits : ~(<<y, x>> \in OpToRel(<, Nat))
        BY <2>2, <4>1, WFMin, NatLessThanWellFounded
      <4>3. PICK x \in fits : \A y \in fits : ~(y < x)
        BY <4>1, <4>2 DEF OpToRel
      <4> QED
        BY <4>1, <4>3
    <3>2. first \in fits
      BY <3>1
    <3> HIDE DEF first
    <3>3. first \in 1..Len(t) /\ first \in 1..(Len(t) + 1)
      BY <1>1, <1>2, <3>2
    <3> DEFINE s == SubSeq(t, first, Len(t))
    <3>4. /\ s \in Seq(BlockOver(H))
          /\ Len(s) = Len(t) - first + 1
          /\ \A i \in 1..(Len(t) - first + 1) : s[i] = t[first + i - 1]
      BY <3>3, Suffix
    <3>5. d = c \o s
      BY <1>3, <2>2
    <3> HIDE DEF s
    <3>6. /\ d \in Seq(BlockOver(H))
          /\ Len(d) = Len(c) + Len(s)
          /\ \A i \in 1..(Len(c) + Len(s)) :
               d[i] = IF i <= Len(c) THEN c[i] ELSE s[i - Len(c)]
      BY <3>4, <3>5, ConcatProperties
    <3>7. ASSUME NEW i \in (Len(c) + 1)..Len(d) PROVE \E j \in 1..Len(t) : d[i] = t[j]
      <4>1. /\ i - Len(c) \in 1..(Len(t) - first + 1)
            /\ first + (i - Len(c)) - 1 \in 1..Len(t)
            /\ i \in 1..(Len(c) + Len(s)) /\ ~(i <= Len(c))
        BY <1>1, <3>3, <3>4, <3>6, SMTT(30)
      <4>2. d[i] = t[first + (i - Len(c)) - 1]
        BY <3>4, <3>6, <4>1
      <4> QED
        BY <4>1, <4>2
    <3>8. ASSUME NEW i \in 1..Len(c) PROVE d[i] = c[i]
      <4>1. i \in 1..(Len(c) + Len(s)) /\ i <= Len(c)
        BY <1>1, <3>3, <3>4
      <4> QED
        BY <3>6, <4>1
    <3>9. Len(d) >= Len(c)
      BY <1>1, <3>3, <3>4, <3>6
    <3> QED
      BY <3>6, <3>7, <3>8, <3>9
  <2> QED
    BY <2>1, <2>2
<1>5. SubSeq(d, Len(c) + 1, Len(d)) \in Seq(BlockOver(H))
  <2>1. Len(c) + 1 \in 1..(Len(d) + 1)
    BY <1>1, <1>4, LenProperties
  <2> QED
    BY <1>4, <2>1, Suffix
<1> QED
  BY <1>4, <1>5 DEF d

\* A file that is added to is a file, also if a crash cuts the writing short.
LEMMA FileTypes ==
  ASSUME NEW H, NEW f \in FileOver(BlockOver(H)), NEW s \in Seq(BlockOver(H))
  PROVE  /\ Appended(f, s) \in FileOver(BlockOver(H))
         /\ PartlyAppended(f, s) \subseteq FileOver(BlockOver(H))
         /\ \A g \in PartlyAppended(f, s) : g = f \/ g.exists
<1>1. ASSUME NEW r \in Seq(BlockOver(H))
      PROVE  Appended(f, r) \in FileOver(BlockOver(H)) /\ Appended(f, r).exists
  <2>1. f.blocks \in Seq(BlockOver(H))
    BY DEF FileOver
  <2>2. f.blocks \o r \in Seq(BlockOver(H))
    BY <2>1, ConcatProperties
  <2> QED
    BY <2>1, <2>2 DEF Appended, FileOver
<1>2. ASSUME NEW k \in 0..Len(s)
      PROVE  /\ Appended(f, SubSeq(s, 1, k)) \in FileOver(BlockOver(H))
             /\ Appended(f, SubSeq(s, 1, k)).exists
  <2>1. SubSeq(s, 1, k) \in Seq(BlockOver(H))
    BY Prefix
  <2> QED
    BY <1>1, <2>1
<1>3. ASSUME NEW k \in 1..Len(s)
      PROVE  /\ CutShort(Appended(f, SubSeq(s, 1, k - 1))) \in FileOver(BlockOver(H))
             /\ CutShort(Appended(f, SubSeq(s, 1, k - 1))).exists
  <2>1. k - 1 \in 0..Len(s)
    BY LenProperties
  <2> QED
    BY <1>2, <2>1 DEF CutShort, FileOver
<1> QED
  BY <1>1, <1>2, <1>3 DEF PartlyAppended

\* An update is a sequence of blocks that starts at most right behind the chain,
\* with hashes that a peer or a genesis block has.
LEMMA UpdateTypes ==
  ASSUME NEW n \in Nat, NEW c \in Seq(BlockOver(Hashes(n))), NEW k \in Nat,
         NEW start \in Nat, start <= Len(c), NEW len \in Nat, len > 0
  PROVE  /\ Update(k, c, start, len) \in Seq(BlockOver(Hashes(n)))
         /\ Len(Update(k, c, start, len)) = len
         /\ front(Update(k, c, start, len)).index = start
         /\ \A i \in 1..len : Update(k, c, start, len)[i].hash \notin {"mined"} \X Nat
<1> DEFINE u == Update(k, c, start, len)
           B == BlockOver(Hashes(n))
<1>1. start \in Nat /\ len \in Nat /\ Len(c) \in Nat
  BY LenProperties
<1>2. \A j \in Nat :
        <<"peer", k, j>> \in Hashes(n) /\ <<"peer", k, j>> \notin {"mined"} \X Nat
  BY DEF Hashes
<1>3. <<"genesis", k>> \in Hashes(n) /\ <<"genesis", k>> \notin {"mined"} \X Nat
  BY DEF Hashes
<1>4. Genesis(k) \in B /\ Genesis(k).hash = <<"genesis", k>> /\ Genesis(k).index = 0
  BY <1>3 DEF Genesis, GenesisBlock, BlockOver, NoHash
<1>5. ASSUME NEW j \in Nat, NEW h \in Hashes(n)
      PROVE  /\ PeerBlock(k, j, h) \in B
             /\ PeerBlock(k, j, h).hash = <<"peer", k, j>>
             /\ PeerBlock(k, j, h).index = j
  BY <1>2 DEF PeerBlock, BlockOver
<1>6. ASSUME start # 0
      PROVE  c[start].hash \in Hashes(n)
  <2>1. start \in 1..Len(c)
    BY <1>1, <1>6
  <2>2. c[start] \in BlockOver(Hashes(n))
    BY <2>1, ElementOfSeq
  <2> QED
    BY <2>2 DEF BlockOver
<1>7. ASSUME NEW i \in 1..len
      PROVE  /\ u[i] \in B
             /\ u[i].index = start + i - 1
             /\ u[i].hash \notin {"mined"} \X Nat
  <2> DEFINE prev == IF i > 1 THEN IF start = 0 /\ i = 2 THEN Genesis(k).hash
                                   ELSE <<"peer", k, start + i - 2>>
                     ELSE c[start].hash
  <2>1. u[i] = IF start = 0 /\ i = 1 THEN Genesis(k) ELSE PeerBlock(k, start + i - 1, prev)
    BY DEF Update
  <2>2. CASE start = 0 /\ i = 1
    <3>1. u[i] = Genesis(k)
      BY <2>1, <2>2
    <3> HIDE DEF u, B
    <3> QED
      BY <2>2, <3>1, <1>3, <1>4
  <2>3. CASE ~(start = 0 /\ i = 1)
    <3>1. prev \in Hashes(n)
      <4>1. start + i - 2 \in Nat
        BY <1>1, <2>3
      <4> QED
        BY <1>1, <1>2, <1>3, <1>4, <1>6, <2>3, <4>1
    <3>2. start + i - 1 \in Nat
      BY <1>1
    <3> HIDE DEF prev, B
    <3>3. u[i] = PeerBlock(k, start + i - 1, prev)
      BY <2>1, <2>3
    <3> HIDE DEF u
    <3> QED
      BY <3>1, <3>2, <3>3, <1>2, <1>5
  <2> QED
    BY <2>2, <2>3
<1>8. DOMAIN u = 1..len /\ u = [i \in 1..len |-> u[i]]
  BY DEF Update
<1> HIDE DEF u, B
<1>9. u \in [1..len -> B]
  BY <1>7, <1>8
<1>10. u \in Seq(B) /\ Len(u) = len
  <2>1. u \in Seq(B)
    BY <1>1, <1>9, SeqDef
  <2> QED
    BY <1>1, <1>8, <2>1, LenProperties
<1>11. u # <<>> /\ 1 \in 1..len
  BY <1>1, <1>10, EmptySeq
<1>12. front(u).index = start
  BY <1>1, <1>7, <1>11 DEF front
<1> QED
  BY <1>7, <1>10, <1>11, <1>12 DEF u, B

\* The blocks of a sequence have an index.
LEMMA Indexes ==
  ASSUME NEW H, NEW c \in Seq(BlockOver(H))
  PROVE  \A i \in DOMAIN c : c[i].index \in Nat
<1>1. \A i \in DOMAIN c : c[i] \in BlockOver(H)
  BY ElementOfSeq, LenProperties
<1> QED
  BY <1>1 DEF BlockOver

\* The first block of an update has an index.
LEMMA FrontIndex ==
  ASSUME NEW H, NEW c \in Seq(BlockOver(H)), c # <<>>
  PROVE  front(c).index \in Nat
<1>1. 1 \in 1..Len(c)
  BY EmptySeq, LenProperties
<1>2. c[1] \in BlockOver(H)
  BY <1>1, ElementOfSeq
<1> QED
  BY <1>2 DEF BlockOver, front

\* What initialize loads: the blocks of the file, or a genesis block.
LEMMA LoadedType ==
  ASSUME NEW n \in Nat, NEW f \in FileOver(BlockOver(Hashes(n))), NEW c \in Nat
  PROVE  LET l == Loaded(f, MaxUpdates + 1 + c) IN
           /\ l \in Seq(BlockOver(Hashes(n)))
           /\ l = <<>> => f.exists /\ f.blocks = <<>>
<1> DEFINE k == MaxUpdates + 1 + c
           l == Loaded(f, k)
<1>1. k \in Nat
  BY NodeBoundsAssumption
<1>2. CASE f.exists
  <2>1. l = f.blocks
    BY <1>2 DEF Loaded
  <2> QED
    BY <1>2, <2>1 DEF FileOver
<1>3. CASE ~f.exists
  <2> HIDE DEF k
  <2>1. l = <<Genesis(k)>>
    BY <1>3 DEF Loaded
  <2>2. <<"genesis", k>> \in Hashes(n)
    BY <1>1 DEF Hashes
  <2>3. Genesis(k) \in BlockOver(Hashes(n))
    BY <2>2 DEF Genesis, GenesisBlock, BlockOver, NoHash
  <2> HIDE DEF l
  <2>4. l \in Seq(BlockOver(Hashes(n))) /\ Len(l) = 1
    BY <2>1, <2>3
  <2>5. ASSUME l = <<>> PROVE FALSE
    BY <2>4, <2>5
  <2> QED
    BY <2>4, <2>5 DEF l, k
<1> QED
  BY <1>2, <1>3

\* A counter goes up.
LEMMA CountUp ==
  ASSUME count \in [Counted -> Nat], NEW c \in Counted, NEW bound, Counts(c, bound)
  PROVE  /\ count' \in [Counted -> Nat]
         /\ count'[c] = count[c] + 1
         /\ \A d \in Counted : d # c => count'[d] = count[d]
  BY DEF Counts

\* A block is told from no block.
LEMMA BlockIsABlock ==
  ASSUME NEW H, NEW b \in BlockOver(H)
  PROVE  b # NoBlock
<1>1. "hash" \in DOMAIN b /\ "hash" \notin DOMAIN NoBlock
  BY DEF BlockOver, NoBlock
<1> QED
  BY <1>1

\* The last block of a chain.
LEMMA BackKnown ==
  ASSUME NEW B, NEW c \in Seq(B), c # <<>>
  PROVE  back(c) \in B /\ Len(c) \in Nat \ {0}
<1>1. Len(c) \in Nat \ {0}
  BY EmptySeq, LenProperties
<1> QED
  BY <1>1, ElementOfSeq DEF back

-------------------------------------------------------------------------------
(* The steps.                                                                *)

\* A process that stops in the middle keeps what it had.
LEMMA BrokenOffInv ==
  ASSUME NodeInv, status' \in {"undefined", "invalid_chain"},
         UNCHANGED <<chain, temp, file, flags, at, lock, work, count, odd>>
  PROVE  NodeInv'
<1>1. UNCHANGED <<chain, temp, file, done, keep, exit, at, lock, work, count, odd>>
  BY DEF flags
<1>2. /\ Values /\ Flags /\ Positions /\ WorkInHand /\ UpdateInBounds /\ StartsInOrder
      /\ Joined /\ EmptyChain /\ FileThere /\ NeverEmpty /\ TerminatesOnlyAfterRefusal
  BY DEF NodeInv
<1>3. Positions'
  BY <1>1, <1>2 DEF Positions
<1>4. Joined' /\ EmptyChain' /\ FileThere' /\ NeverEmpty' /\ TerminatesOnlyAfterRefusal'
  BY <1>1, <1>2 DEF Joined, EmptyChain, FileThere, NeverEmpty, TerminatesOnlyAfterRefusal
<1>5. Flags' /\ Values' /\ WorkInHand' /\ UpdateInBounds' /\ StartsInOrder'
  BY <1>1, <1>2 DEF Flags, Values, Known, WorkInHand, Unmined, UpdateInBounds, StartsInOrder
<1> QED
  BY <1>2, <1>3, <1>4, <1>5 DEF NodeInv

\* A process starts with nothing but the file.
LEMMA LaunchInv ==
  ASSUME NodeInv, Launch
  PROVE  NodeInv'
<1>1. /\ status = "down"
      /\ at' \in [Threads -> Places]
      /\ at'["main"] = "initialize"
      /\ at'["mine"] = "off"
      /\ \A u \in Ws : at'[u] = "idle"
      /\ at'["rest"] = "off"
      /\ chain' = <<>>
      /\ temp' = <<>>
      /\ done' = FALSE
      /\ keep' = TRUE
      /\ exit' = FALSE
      /\ lock' = Nobody
      /\ work' = NoBlock
      /\ status' = "up"
      /\ odd' = {}
  BY WsApart DEF Launch, NodeInv, Values, Goes, Places, Threads
<1>2. UNCHANGED <<file, count, dead>>
  BY DEF Launch
<1>3. /\ Values /\ Flags /\ Positions /\ WorkInHand /\ UpdateInBounds /\ StartsInOrder
      /\ Joined /\ EmptyChain /\ FileThere /\ NeverEmpty
      /\ TerminatesOnlyAfterRefusal
  BY DEF NodeInv
<1>4. Flags'
  BY <1>1, <1>2, <1>3 DEF Flags
<1>5. Positions'
  BY <1>1, <1>2, <1>3, WsApart DEF Positions, Threads, Nobody
<1>6. Values'
  BY <1>1, <1>2, <1>3 DEF Values, Known
<1>7. WorkInHand'
  BY <1>1, <1>2, <1>3 DEF WorkInHand, Known, Unmined
<1>8. UpdateInBounds'
  BY <1>1, <1>2, <1>3 DEF UpdateInBounds, Nobody
<1>9. StartsInOrder'
  BY <1>1, <1>2, <1>3 DEF StartsInOrder
<1>10. Joined'
  BY <1>1, <1>2, <1>3 DEF Joined, Refused
<1>11. EmptyChain'
  BY <1>1, <1>2, <1>3 DEF EmptyChain
<1>12. FileThere'
  BY <1>1, <1>2, <1>3 DEF FileThere
<1>13. NeverEmpty'
  BY <1>1, <1>2, <1>3 DEF NeverEmpty
<1>14. TerminatesOnlyAfterRefusal'
  BY <1>1, <1>2, <1>3 DEF TerminatesOnlyAfterRefusal, Refused
<1> QED
  BY <1>4, <1>5, <1>6, <1>7, <1>8, <1>9, <1>10, <1>11, <1>12, <1>13, <1>14 DEF NodeInv

\* The REST server starts.
LEMMA StartHttpInv ==
  ASSUME NodeInv, Running, StartHttp
  PROVE  NodeInv'
<1>1. /\ status = "up"
      /\ at["main"] = "http"
      /\ at' \in [Threads -> Places]
      /\ at'["main"] = "autostart"
      /\ at'["mine"] = at["mine"]
      /\ \A u \in Ws : at'[u] = at[u]
      /\ at'["rest"] = "idle"
  BY WsApart DEF StartHttp, Running, NodeInv, Values, Goes, Places, Threads
<1>2. UNCHANGED <<chain, temp, file, done, keep, exit, lock, work, status, count, dead,
        odd>>
  BY DEF StartHttp, MainOnly, flags, past
<1>3. /\ Values /\ Flags /\ Positions /\ WorkInHand /\ UpdateInBounds /\ StartsInOrder
      /\ Joined /\ EmptyChain /\ FileThere /\ NeverEmpty
      /\ TerminatesOnlyAfterRefusal
  BY DEF NodeInv
<1>4. Positions'
  BY <1>1, <1>2, <1>3, WsApart DEF Positions, Threads, Nobody
<1>5. Values'
  BY <1>1, <1>2, <1>3 DEF Values, Known
<1>6. WorkInHand'
  BY <1>1, <1>2, <1>3 DEF WorkInHand, Known, Unmined
<1>7. StartsInOrder'
  BY <1>1, <1>2, <1>3 DEF StartsInOrder
<1>8. Joined'
  BY <1>1, <1>2, <1>3 DEF Joined, Refused, StartsInOrder
<1>9. EmptyChain'
  BY <1>1, <1>2, <1>3 DEF EmptyChain
<1>10. FileThere'
  BY <1>1, <1>2, <1>3 DEF FileThere
<1>11. NeverEmpty'
  BY <1>1, <1>2, <1>3 DEF NeverEmpty
<1>12. TerminatesOnlyAfterRefusal'
  BY <1>1, <1>2, <1>3 DEF TerminatesOnlyAfterRefusal, Refused
<1>13. Flags' /\ UpdateInBounds'
  BY <1>2, <1>3 DEF Flags, UpdateInBounds
<1> QED
  BY <1>4, <1>5, <1>6, <1>7, <1>8, <1>9, <1>10, <1>11, <1>12, <1>13 DEF NodeInv

\* run() returns once it was told to.
LEMMA LeaveRunInv ==
  ASSUME NodeInv, Running, LeaveRun
  PROVE  NodeInv'
<1>1. /\ status = "up"
      /\ at["main"] = "wait"
      /\ exit
      /\ at' \in [Threads -> Places]
      /\ at'["main"] = "join"
      /\ at'["mine"] = at["mine"]
      /\ \A u \in Ws : at'[u] = at[u]
      /\ at'["rest"] = at["rest"]
  BY WsApart DEF LeaveRun, Running, NodeInv, Values, Goes, Places, Threads
<1>2. UNCHANGED <<chain, temp, file, done, keep, exit, lock, work, status, count, dead,
        odd>>
  BY DEF LeaveRun, MainOnly, flags, past
<1>3. /\ Values /\ Flags /\ Positions /\ WorkInHand /\ UpdateInBounds /\ StartsInOrder
      /\ Joined /\ EmptyChain /\ FileThere /\ NeverEmpty
      /\ TerminatesOnlyAfterRefusal
  BY DEF NodeInv
<1>4. Positions'
  BY <1>1, <1>2, <1>3, WsApart DEF Positions, Threads, Nobody
<1>5. Values'
  BY <1>1, <1>2, <1>3 DEF Values, Known
<1>6. WorkInHand'
  BY <1>1, <1>2, <1>3 DEF WorkInHand, Known, Unmined
<1>7. StartsInOrder'
  BY <1>1, <1>2, <1>3 DEF StartsInOrder
<1>8. Joined'
  BY <1>1, <1>2, <1>3 DEF Joined, Refused
<1>9. EmptyChain'
  BY <1>1, <1>2, <1>3 DEF EmptyChain
<1>10. FileThere'
  BY <1>1, <1>2, <1>3 DEF FileThere
<1>11. NeverEmpty'
  BY <1>1, <1>2, <1>3 DEF NeverEmpty
<1>12. TerminatesOnlyAfterRefusal'
  BY <1>1, <1>2, <1>3 DEF TerminatesOnlyAfterRefusal, Refused
<1>13. Flags' /\ UpdateInBounds'
  BY <1>2, <1>3 DEF Flags, UpdateInBounds
<1> QED
  BY <1>4, <1>5, <1>6, <1>7, <1>8, <1>9, <1>10, <1>11, <1>12, <1>13 DEF NodeInv

\* The mining thread is joined.
LEMMA DestructorJoinsInv ==
  ASSUME NodeInv, Running, DestructorJoins
  PROVE  NodeInv'
<1>1. /\ status = "up"
      /\ at["main"] = "join"
      /\ at["mine"] \in {"off", "exited"}
      /\ at' \in [Threads -> Places]
      /\ at'["main"] = "joined"
      /\ at'["mine"] = "off"
      /\ \A u \in Ws : at'[u] = at[u]
      /\ at'["rest"] = at["rest"]
  BY WsApart DEF DestructorJoins, Running, NodeInv, Values, Goes, Places, Threads
<1>2. UNCHANGED <<chain, temp, file, done, keep, exit, lock, work, status, count, dead,
        odd>>
  BY DEF DestructorJoins, MainOnly, flags, past
<1>3. /\ Values /\ Flags /\ Positions /\ WorkInHand /\ UpdateInBounds /\ StartsInOrder
      /\ Joined /\ EmptyChain /\ FileThere /\ NeverEmpty
      /\ TerminatesOnlyAfterRefusal
  BY DEF NodeInv
<1>4. Positions'
  BY <1>1, <1>2, <1>3, WsApart DEF Positions, Threads, Nobody
<1>5. Values'
  BY <1>1, <1>2, <1>3 DEF Values, Known
<1>6. WorkInHand'
  BY <1>1, <1>2, <1>3 DEF WorkInHand, Known, Unmined
<1>7. StartsInOrder'
  BY <1>1, <1>2, <1>3 DEF StartsInOrder
<1>8. Joined'
  BY <1>1, <1>2, <1>3 DEF Joined, Refused, StartsInOrder
<1>9. EmptyChain'
  BY <1>1, <1>2, <1>3 DEF EmptyChain
<1>10. FileThere'
  BY <1>1, <1>2, <1>3 DEF FileThere
<1>11. NeverEmpty'
  BY <1>1, <1>2, <1>3 DEF NeverEmpty
<1>12. TerminatesOnlyAfterRefusal'
  BY <1>1, <1>2, <1>3 DEF TerminatesOnlyAfterRefusal, Refused
<1>13. Flags' /\ UpdateInBounds'
  BY <1>2, <1>3 DEF Flags, UpdateInBounds
<1> QED
  BY <1>4, <1>5, <1>6, <1>7, <1>8, <1>9, <1>10, <1>11, <1>12, <1>13 DEF NodeInv

\* The REST server is told to stop.
LEMMA DestructorStopsHttpInv ==
  ASSUME NodeInv, Running, DestructorStopsHttp
  PROVE  NodeInv'
<1>1. /\ status = "up"
      /\ at["main"] = "joined"
      /\ at' \in [Threads -> Places]
      /\ at'["main"] = "stop_http"
      /\ at'["mine"] = at["mine"]
      /\ \A u \in Ws : at'[u] = at[u]
      /\ at'["rest"] = at["rest"]
  BY WsApart DEF DestructorStopsHttp, Running, NodeInv, Values, Goes, Places, Threads
<1>2. UNCHANGED <<chain, temp, file, done, keep, exit, lock, work, status, count, dead,
        odd>>
  BY DEF DestructorStopsHttp, MainOnly, flags, past
<1>3. /\ Values /\ Flags /\ Positions /\ WorkInHand /\ UpdateInBounds /\ StartsInOrder
      /\ Joined /\ EmptyChain /\ FileThere /\ NeverEmpty
      /\ TerminatesOnlyAfterRefusal
  BY DEF NodeInv
<1>4. Positions'
  BY <1>1, <1>2, <1>3, WsApart DEF Positions, Threads, Nobody
<1>5. Values'
  BY <1>1, <1>2, <1>3 DEF Values, Known
<1>6. WorkInHand'
  BY <1>1, <1>2, <1>3 DEF WorkInHand, Known, Unmined
<1>7. StartsInOrder'
  BY <1>1, <1>2, <1>3 DEF StartsInOrder
<1>8. Joined'
  BY <1>1, <1>2, <1>3 DEF Joined, Refused
<1>9. EmptyChain'
  BY <1>1, <1>2, <1>3 DEF EmptyChain
<1>10. FileThere'
  BY <1>1, <1>2, <1>3 DEF FileThere
<1>11. NeverEmpty'
  BY <1>1, <1>2, <1>3 DEF NeverEmpty
<1>12. TerminatesOnlyAfterRefusal'
  BY <1>1, <1>2, <1>3 DEF TerminatesOnlyAfterRefusal, Refused
<1>13. Flags' /\ UpdateInBounds'
  BY <1>2, <1>3 DEF Flags, UpdateInBounds
<1> QED
  BY <1>4, <1>5, <1>6, <1>7, <1>8, <1>9, <1>10, <1>11, <1>12, <1>13 DEF NodeInv

\* The REST server is joined.
LEMMA DestructorJoinsHttpInv ==
  ASSUME NodeInv, Running, DestructorJoinsHttp
  PROVE  NodeInv'
<1>1. /\ status = "up"
      /\ at["main"] = "stop_http"
      /\ at["rest"] = "idle"
      /\ at' \in [Threads -> Places]
      /\ at'["main"] = "members"
      /\ at'["mine"] = at["mine"]
      /\ \A u \in Ws : at'[u] = at[u]
      /\ at'["rest"] = "off"
  BY WsApart DEF DestructorJoinsHttp, Running, NodeInv, Values, Goes, Places, Threads
<1>2. UNCHANGED <<chain, temp, file, done, keep, exit, lock, work, status, count, dead,
        odd>>
  BY DEF DestructorJoinsHttp, MainOnly, flags, past
<1>3. /\ Values /\ Flags /\ Positions /\ WorkInHand /\ UpdateInBounds /\ StartsInOrder
      /\ Joined /\ EmptyChain /\ FileThere /\ NeverEmpty
      /\ TerminatesOnlyAfterRefusal
  BY DEF NodeInv
<1>4. Positions'
  BY <1>1, <1>2, <1>3, WsApart DEF Positions, Threads, Nobody
<1>5. Values'
  BY <1>1, <1>2, <1>3 DEF Values, Known
<1>6. WorkInHand'
  BY <1>1, <1>2, <1>3 DEF WorkInHand, Known, Unmined
<1>7. StartsInOrder'
  BY <1>1, <1>2, <1>3 DEF StartsInOrder
<1>8. Joined'
  BY <1>1, <1>2, <1>3 DEF Joined, Refused, StartsInOrder
<1>9. EmptyChain'
  BY <1>1, <1>2, <1>3 DEF EmptyChain
<1>10. FileThere'
  BY <1>1, <1>2, <1>3 DEF FileThere
<1>11. NeverEmpty'
  BY <1>1, <1>2, <1>3 DEF NeverEmpty
<1>12. TerminatesOnlyAfterRefusal'
  BY <1>1, <1>2, <1>3 DEF TerminatesOnlyAfterRefusal, Refused
<1>13. Flags' /\ UpdateInBounds'
  BY <1>2, <1>3 DEF Flags, UpdateInBounds
<1> QED
  BY <1>4, <1>5, <1>6, <1>7, <1>8, <1>9, <1>10, <1>11, <1>12, <1>13 DEF NodeInv

\* The process ends.
LEMMA DestroyPeersInv ==
  ASSUME NodeInv, Running, DestroyPeers
  PROVE  NodeInv'
<1>1. /\ status = "up"
      /\ at["main"] = "peers"
      /\ \A u \in Ws : at[u] = "idle"
      /\ at' \in [Threads -> Places]
      /\ at'["main"] = "off"
      /\ at'["mine"] = at["mine"]
      /\ \A u \in Ws : at'[u] = "off"
      /\ at'["rest"] = at["rest"]
      /\ status' = "ended"
  BY WsApart DEF DestroyPeers, Running, NodeInv, Values, Goes, Places, Threads
<1>2. UNCHANGED <<chain, temp, file, done, keep, exit, lock, work, count, dead, odd>>
  BY DEF DestroyPeers, MainOnly, flags, past
<1>3. /\ Values /\ Flags /\ Positions /\ WorkInHand /\ UpdateInBounds /\ StartsInOrder
      /\ Joined /\ EmptyChain /\ FileThere /\ NeverEmpty
      /\ TerminatesOnlyAfterRefusal
  BY DEF NodeInv
<1>4. Positions'
  BY <1>1, <1>2, <1>3, WsApart DEF Positions, Threads, Nobody
<1>5. Values'
  BY <1>1, <1>2, <1>3 DEF Values, Known
<1>6. WorkInHand'
  BY <1>1, <1>2, <1>3 DEF WorkInHand, Known, Unmined
<1>7. StartsInOrder'
  BY <1>1, <1>2, <1>3 DEF StartsInOrder
<1>8. Joined'
  BY <1>1, <1>2, <1>3 DEF Joined, Refused
<1>9. EmptyChain'
  BY <1>1, <1>2, <1>3 DEF EmptyChain
<1>10. FileThere'
  BY <1>1, <1>2, <1>3 DEF FileThere
<1>11. NeverEmpty'
  BY <1>1, <1>2, <1>3 DEF NeverEmpty
<1>12. TerminatesOnlyAfterRefusal'
  BY <1>1, <1>2, <1>3 DEF TerminatesOnlyAfterRefusal, Refused
<1>13. Flags' /\ UpdateInBounds'
  BY <1>2, <1>3 DEF Flags, UpdateInBounds
<1> QED
  BY <1>4, <1>5, <1>6, <1>7, <1>8, <1>9, <1>10, <1>11, <1>12, <1>13 DEF NodeInv

\* The mining thread looks at the flags.
LEMMA MineLoopInv ==
  ASSUME NodeInv, Running, MineLoop
  PROVE  NodeInv'
<1>1. /\ status = "up"
      /\ at["mine"] = "loop"
      /\ at' \in [Threads -> Places]
      /\ at'["main"] = at["main"]
      /\ at'["mine"] = IF done \/ exit THEN "exited" ELSE "template"
      /\ \A u \in Ws : at'[u] = at[u]
      /\ at'["rest"] = at["rest"]
  BY WsApart DEF MineLoop, Running, NodeInv, Values, Goes, Places, Threads
<1>2. UNCHANGED <<chain, temp, file, done, keep, exit, lock, work, status, count, dead,
        odd>>
  BY DEF MineLoop, flags, past
<1>3. /\ Values /\ Flags /\ Positions /\ WorkInHand /\ UpdateInBounds /\ StartsInOrder
      /\ Joined /\ EmptyChain /\ FileThere /\ NeverEmpty
      /\ TerminatesOnlyAfterRefusal
  BY DEF NodeInv
<1>4. Positions'
  BY <1>1, <1>2, <1>3, WsApart DEF Positions, Threads, Nobody
<1>5. Values'
  BY <1>1, <1>2, <1>3 DEF Values, Known
<1>6. WorkInHand'
  BY <1>1, <1>2, <1>3 DEF WorkInHand, Known, Unmined
<1>7. StartsInOrder'
  BY <1>1, <1>2, <1>3 DEF StartsInOrder
<1>8. Joined'
  BY <1>1, <1>2, <1>3 DEF Joined, Refused
<1>9. EmptyChain'
  BY <1>1, <1>2, <1>3 DEF EmptyChain
<1>10. FileThere'
  BY <1>1, <1>2, <1>3 DEF FileThere
<1>11. NeverEmpty'
  BY <1>1, <1>2, <1>3 DEF NeverEmpty
<1>12. TerminatesOnlyAfterRefusal'
  BY <1>1, <1>2, <1>3 DEF TerminatesOnlyAfterRefusal, Refused
<1>13. Flags' /\ UpdateInBounds'
  BY <1>2, <1>3 DEF Flags, UpdateInBounds
<1> QED
  BY <1>4, <1>5, <1>6, <1>7, <1>8, <1>9, <1>10, <1>11, <1>12, <1>13 DEF NodeInv

\* A template is made of the last block.
LEMMA TemplateInv ==
  ASSUME NodeInv, Running, Template
  PROVE  NodeInv'
<1>1. /\ status = "up"
      /\ at["mine"] = "template"
      /\ lock = Nobody
      /\ chain # <<>>
      /\ at' \in [Threads -> Places]
      /\ at'["main"] = at["main"]
      /\ at'["mine"] = "enter"
      /\ \A u \in Ws : at'[u] = at[u]
      /\ at'["rest"] = at["rest"]
      /\ work' = UnminedBlock(chain, 1)
  BY WsApart DEF Template, Running, NodeInv, Values, Goes, Places, Threads
<1>2. UNCHANGED <<chain, temp, file, done, keep, exit, lock, status, count, dead, odd>>
  BY DEF Template, flags, past
<1>3. /\ Values /\ Flags /\ Positions /\ WorkInHand /\ UpdateInBounds /\ StartsInOrder
      /\ Joined /\ EmptyChain /\ FileThere /\ NeverEmpty
      /\ TerminatesOnlyAfterRefusal
  BY DEF NodeInv
<1>4. work' \in Unmined
  <2>1. back(chain) \in Known /\ Len(chain) \in Nat
    BY <1>1, <1>3, BackKnown DEF Values
  <2>2. back(chain).hash \in Hashes(count["mined"])
    BY <2>1 DEF Known, BlockOver
  <2> QED
    BY <1>1, <1>2, <2>1, <2>2 DEF UnminedBlock, Unmined
<1>5. Positions'
  BY <1>1, <1>2, <1>3, <1>4, WsApart DEF Positions, Threads, Nobody
<1>6. Values'
  BY <1>1, <1>2, <1>3, <1>4 DEF Values, Known
<1>7. WorkInHand'
  BY <1>1, <1>2, <1>3, <1>4 DEF WorkInHand, Known, Unmined
<1>8. StartsInOrder'
  BY <1>1, <1>2, <1>3, <1>4 DEF StartsInOrder
<1>9. Joined'
  BY <1>1, <1>2, <1>3, <1>4 DEF Joined, Refused
<1>10. EmptyChain'
  BY <1>1, <1>2, <1>3, <1>4 DEF EmptyChain
<1>11. FileThere'
  BY <1>1, <1>2, <1>3, <1>4 DEF FileThere
<1>12. NeverEmpty'
  BY <1>1, <1>2, <1>3, <1>4 DEF NeverEmpty
<1>13. TerminatesOnlyAfterRefusal'
  BY <1>1, <1>2, <1>3, <1>4 DEF TerminatesOnlyAfterRefusal, Refused
<1>14. Flags' /\ UpdateInBounds'
  BY <1>2, <1>3 DEF Flags, UpdateInBounds
<1> QED
  BY <1>5, <1>6, <1>7, <1>8, <1>9, <1>10, <1>11, <1>12, <1>13, <1>14 DEF NodeInv

\* mineBlock begins.
LEMMA EnterMineBlockInv ==
  ASSUME NodeInv, Running, EnterMineBlock
  PROVE  NodeInv'
<1>1. /\ status = "up"
      /\ at["mine"] = "enter"
      /\ at' \in [Threads -> Places]
      /\ at'["main"] = at["main"]
      /\ at'["mine"] = "mining"
      /\ \A u \in Ws : at'[u] = at[u]
      /\ at'["rest"] = at["rest"]
      /\ keep' = TRUE
  BY WsApart DEF EnterMineBlock, Running, NodeInv, Values, Goes, Places, Threads
<1>2. UNCHANGED <<chain, temp, file, done, exit, lock, work, status, count, dead, odd>>
  BY DEF EnterMineBlock, past
<1>3. /\ Values /\ Flags /\ Positions /\ WorkInHand /\ UpdateInBounds /\ StartsInOrder
      /\ Joined /\ EmptyChain /\ FileThere /\ NeverEmpty
      /\ TerminatesOnlyAfterRefusal
  BY DEF NodeInv
<1>4. Flags'
  BY <1>1, <1>2, <1>3 DEF Flags
<1>5. Positions'
  BY <1>1, <1>2, <1>3, WsApart DEF Positions, Threads, Nobody
<1>6. Values'
  BY <1>1, <1>2, <1>3 DEF Values, Known
<1>7. WorkInHand'
  BY <1>1, <1>2, <1>3 DEF WorkInHand, Known, Unmined
<1>8. StartsInOrder'
  BY <1>1, <1>2, <1>3 DEF StartsInOrder
<1>9. Joined'
  BY <1>1, <1>2, <1>3 DEF Joined, Refused
<1>10. EmptyChain'
  BY <1>1, <1>2, <1>3 DEF EmptyChain
<1>11. FileThere'
  BY <1>1, <1>2, <1>3 DEF FileThere
<1>12. NeverEmpty'
  BY <1>1, <1>2, <1>3 DEF NeverEmpty
<1>13. TerminatesOnlyAfterRefusal'
  BY <1>1, <1>2, <1>3 DEF TerminatesOnlyAfterRefusal, Refused
<1>14. UpdateInBounds'
  BY <1>2, <1>3 DEF UpdateInBounds
<1> QED
  BY <1>4, <1>5, <1>6, <1>7, <1>8, <1>9, <1>10, <1>11, <1>12, <1>13, <1>14 DEF NodeInv

\* The block found has a hash that no block had before.
LEMMA FoundInv ==
  ASSUME NodeInv, Running, Found
  PROVE  NodeInv'
<1>1. /\ status = "up"
      /\ at["mine"] = "mining"
      /\ at' \in [Threads -> Places]
      /\ at'["main"] = at["main"]
      /\ at'["mine"] = "add"
      /\ \A u \in Ws : at'[u] = at[u]
      /\ at'["rest"] = at["rest"]
      /\ work' = MinedBlock(work, <<"mined", count["mined"] + 1>>, 0)
  BY WsApart DEF Found, Running, NodeInv, Values, Goes, Places, Threads
<1>2. UNCHANGED <<chain, temp, file, done, keep, exit, lock, status, dead, odd>>
  BY DEF Found, flags, past
<1>3. /\ Values /\ Flags /\ Positions /\ WorkInHand /\ UpdateInBounds /\ StartsInOrder
      /\ Joined /\ EmptyChain /\ FileThere /\ NeverEmpty
      /\ TerminatesOnlyAfterRefusal
  BY DEF NodeInv
<1>4. /\ count' \in [Counted -> Nat]
      /\ count'["mined"] = count["mined"] + 1
      /\ count'["crashes"] = count["crashes"]
      /\ count["mined"] \in Nat
  BY <1>3, CountUp DEF Found, Values, Counted
<1>5. Known \subseteq Known' /\ Seq(Known) \subseteq Seq(Known')
  BY <1>4, KnownGrows DEF Known
<1>6. /\ work' \in Known' /\ work' # NoBlock
      /\ work'.hash \in MinedHashes(count'["mined"])
      /\ work'.hash \notin Hashes(count["mined"])
  <2> DEFINE n == count["mined"]
  <2>1. work \in Unmined
    BY <1>1, <1>3 DEF WorkInHand
  <2>2. work.index \in Nat /\ work.prev \in Hashes(n) /\ work.difficulty \in Nat
    BY <2>1 DEF Unmined
  <2>3. work.prev \in Hashes(n + 1)
    BY <1>4, <2>2, KnownGrows
  <2>4. <<"mined", n + 1>> \in MinedHashes(n + 1) /\ <<"mined", n + 1>> \notin Hashes(n)
    BY <1>4 DEF MinedHashes, Hashes
  <2>5. <<"mined", n + 1>> \in Hashes(n + 1)
    BY <2>4 DEF Hashes
  <2>6. work' \in BlockOver(Hashes(n + 1)) /\ work'.hash = <<"mined", n + 1>>
    BY <1>1, <2>2, <2>3, <2>5 DEF MinedBlock, BlockOver
  <2> QED
    BY <1>1, <1>4, <2>4, <2>6, BlockIsABlock DEF Known
<1>7. \A i \in DOMAIN chain : chain[i].hash \in Hashes(count["mined"])
  <2>1. \A i \in DOMAIN chain : chain[i] \in Known
    BY <1>3, ElementOfSeq, LenProperties DEF Values
  <2> QED
    BY <2>1 DEF Known, BlockOver
<1>8. Positions'
  BY <1>1, <1>2, <1>3, <1>4, <1>5, <1>6, <1>7, WsApart DEF Positions, Threads, Nobody
<1>9. Values'
  <2>1. file' \in FileOver(Known')
    BY <1>2, <1>3, <1>5 DEF Values, FileOver
  <2> QED
    BY <1>1, <1>2, <1>3, <1>4, <1>5, <2>1 DEF Values
<1>10. WorkInHand'
  BY <1>1, <1>2, <1>3, <1>4, <1>5, <1>6, <1>7 DEF WorkInHand, Known, Unmined
<1>11. StartsInOrder'
  BY <1>1, <1>2, <1>3, <1>4, <1>5, <1>6, <1>7 DEF StartsInOrder
<1>12. Joined'
  BY <1>1, <1>2, <1>3, <1>4, <1>5, <1>6, <1>7 DEF Joined, Refused
<1>13. EmptyChain'
  BY <1>1, <1>2, <1>3, <1>4, <1>5, <1>6, <1>7 DEF EmptyChain
<1>14. FileThere'
  BY <1>1, <1>2, <1>3, <1>4, <1>5, <1>6, <1>7 DEF FileThere
<1>15. NeverEmpty'
  BY <1>1, <1>2, <1>3, <1>4, <1>5, <1>6, <1>7 DEF NeverEmpty
<1>16. TerminatesOnlyAfterRefusal'
  BY <1>1, <1>2, <1>3, <1>4, <1>5, <1>6, <1>7 DEF TerminatesOnlyAfterRefusal, Refused
<1>17. Flags' /\ UpdateInBounds'
  BY <1>2, <1>3 DEF Flags, UpdateInBounds
<1> QED
  BY <1>8, <1>9, <1>10, <1>11, <1>12, <1>13, <1>14, <1>15, <1>16, <1>17 DEF NodeInv

\* The block in hand is given up.
LEMMA AbortMiningInv ==
  ASSUME NodeInv, Running, AbortMining
  PROVE  NodeInv'
<1>1. /\ status = "up"
      /\ at["mine"] = "mining"
      /\ lock = Nobody
      /\ at' \in [Threads -> Places]
      /\ at'["main"] = at["main"]
      /\ at'["mine"] = "sync"
      /\ \A u \in Ws : at'[u] = at[u]
      /\ at'["rest"] = at["rest"]
      /\ work' = NoBlock
  BY WsApart DEF AbortMining, Running, NodeInv, Values, Goes, Places, Threads
<1>2. UNCHANGED <<chain, temp, file, done, keep, exit, lock, status, count, dead, odd>>
  BY DEF AbortMining, flags, past
<1>3. /\ Values /\ Flags /\ Positions /\ WorkInHand /\ UpdateInBounds /\ StartsInOrder
      /\ Joined /\ EmptyChain /\ FileThere /\ NeverEmpty
      /\ TerminatesOnlyAfterRefusal
  BY DEF NodeInv
<1>4. Positions'
  BY <1>1, <1>2, <1>3, WsApart DEF Positions, Threads, Nobody
<1>5. Values'
  BY <1>1, <1>2, <1>3 DEF Values, Known
<1>6. WorkInHand'
  BY <1>1, <1>2, <1>3 DEF WorkInHand, Known, Unmined
<1>7. StartsInOrder'
  BY <1>1, <1>2, <1>3 DEF StartsInOrder
<1>8. Joined'
  BY <1>1, <1>2, <1>3 DEF Joined, Refused
<1>9. EmptyChain'
  BY <1>1, <1>2, <1>3 DEF EmptyChain
<1>10. FileThere'
  BY <1>1, <1>2, <1>3 DEF FileThere
<1>11. NeverEmpty'
  BY <1>1, <1>2, <1>3 DEF NeverEmpty
<1>12. TerminatesOnlyAfterRefusal'
  BY <1>1, <1>2, <1>3 DEF TerminatesOnlyAfterRefusal, Refused
<1>13. Flags' /\ UpdateInBounds'
  BY <1>2, <1>3 DEF Flags, UpdateInBounds
<1> QED
  BY <1>4, <1>5, <1>6, <1>7, <1>8, <1>9, <1>10, <1>11, <1>12, <1>13 DEF NodeInv

\* The block found is written.
LEMMA WriteMinedInv ==
  ASSUME NodeInv, Running, WriteMined
  PROVE  NodeInv'
<1>1. /\ status = "up"
      /\ at["mine"] = "write"
      /\ at' \in [Threads -> Places]
      /\ at'["main"] = at["main"]
      /\ at'["mine"] = "sync"
      /\ \A u \in Ws : at'[u] = at[u]
      /\ at'["rest"] = at["rest"]
      /\ file' = Appended(file, <<work>>)
  BY WsApart DEF WriteMined, Running, NodeInv, Values, Goes, Places, Threads
<1>2. UNCHANGED <<chain, temp, done, keep, exit, lock, work, status, count, dead, odd>>
  BY DEF WriteMined, flags, past
<1>3. /\ Values /\ Flags /\ Positions /\ WorkInHand /\ UpdateInBounds /\ StartsInOrder
      /\ Joined /\ EmptyChain /\ FileThere /\ NeverEmpty
      /\ TerminatesOnlyAfterRefusal
  BY DEF NodeInv
<1>4. file' \in FileOver(Known) /\ file'.exists
        /\ (file'.blocks = <<>> => count["crashes"] > 0)
  <2>1. work \in Known /\ file \in FileOver(Known)
    BY <1>1, <1>3 DEF WorkInHand, Values, FileOver
  <2>2. <<work>> \in Seq(Known) /\ Len(<<work>>) = 1 /\ file.blocks \in Seq(Known)
    BY <2>1 DEF FileOver
  <2>3. Appended(file, <<work>>) \in FileOver(Known)
    BY <2>1, <2>2, FileTypes DEF Known
  <2>4. file.blocks \o <<work>> \in Seq(Known)
          /\ Len(file.blocks \o <<work>>) = Len(file.blocks) + 1
    BY <2>2, ConcatProperties
  <2>5. Len(file.blocks) \in Nat
    BY <2>2, LenProperties
  <2>6. file.blocks \o <<work>> # <<>>
    BY <2>4, <2>5, EmptySeq
  <2> QED
    BY <1>1, <1>3, <2>3, <2>6 DEF Appended, FileThere
<1>5. Positions'
  BY <1>1, <1>2, <1>3, <1>4, WsApart DEF Positions, Threads, Nobody
<1>6. Values'
  BY <1>1, <1>2, <1>3, <1>4 DEF Values, Known, FileOver
<1>7. WorkInHand'
  BY <1>1, <1>2, <1>3, <1>4 DEF WorkInHand, Known, Unmined
<1>8. StartsInOrder'
  BY <1>1, <1>2, <1>3, <1>4 DEF StartsInOrder
<1>9. Joined'
  BY <1>1, <1>2, <1>3, <1>4 DEF Joined, Refused
<1>10. EmptyChain'
  BY <1>1, <1>2, <1>3, <1>4 DEF EmptyChain
<1>11. FileThere'
  BY <1>2, <1>4 DEF FileThere
<1>12. NeverEmpty'
  BY <1>1, <1>2, <1>3 DEF NeverEmpty, EmptyChain
<1>13. TerminatesOnlyAfterRefusal'
  BY <1>1, <1>2, <1>3, <1>4 DEF TerminatesOnlyAfterRefusal, Refused
<1>14. Flags' /\ UpdateInBounds'
  BY <1>2, <1>3 DEF Flags, UpdateInBounds
<1> QED
  BY <1>5, <1>6, <1>7, <1>8, <1>9, <1>10, <1>11, <1>12, <1>13, <1>14 DEF NodeInv

\* The block found is announced.
LEMMA BroadcastInv ==
  ASSUME NodeInv, Running, Broadcast
  PROVE  NodeInv'
<1>1. /\ status = "up"
      /\ at["mine"] = "broadcast"
      /\ at' \in [Threads -> Places]
      /\ at'["main"] = at["main"]
      /\ at'["mine"] = "loop"
      /\ \A u \in Ws : at'[u] = at[u]
      /\ at'["rest"] = at["rest"]
  BY WsApart DEF Broadcast, Running, NodeInv, Values, Goes, Places, Threads
<1>2. UNCHANGED <<chain, temp, file, done, keep, exit, lock, work, status, count, dead,
        odd>>
  BY DEF Broadcast, flags, past
<1>3. /\ Values /\ Flags /\ Positions /\ WorkInHand /\ UpdateInBounds /\ StartsInOrder
      /\ Joined /\ EmptyChain /\ FileThere /\ NeverEmpty
      /\ TerminatesOnlyAfterRefusal
  BY DEF NodeInv
<1>4. Positions'
  BY <1>1, <1>2, <1>3, WsApart DEF Positions, Threads, Nobody
<1>5. Values'
  BY <1>1, <1>2, <1>3 DEF Values, Known
<1>6. WorkInHand'
  BY <1>1, <1>2, <1>3 DEF WorkInHand, Known, Unmined
<1>7. StartsInOrder'
  BY <1>1, <1>2, <1>3 DEF StartsInOrder
<1>8. Joined'
  BY <1>1, <1>2, <1>3 DEF Joined, Refused
<1>9. EmptyChain'
  BY <1>1, <1>2, <1>3 DEF EmptyChain
<1>10. FileThere'
  BY <1>1, <1>2, <1>3 DEF FileThere
<1>11. NeverEmpty'
  BY <1>1, <1>2, <1>3 DEF NeverEmpty
<1>12. TerminatesOnlyAfterRefusal'
  BY <1>1, <1>2, <1>3 DEF TerminatesOnlyAfterRefusal, Refused
<1>13. Flags' /\ UpdateInBounds'
  BY <1>2, <1>3 DEF Flags, UpdateInBounds
<1> QED
  BY <1>4, <1>5, <1>6, <1>7, <1>8, <1>9, <1>10, <1>11, <1>12, <1>13 DEF NodeInv

\* A node that does not mine syncs at once.
LEMMA CheckMiningInv ==
  ASSUME NEW t \in Ws, NodeInv, Running, CheckMining(t)
  PROVE  NodeInv'
<1>1. /\ status = "up"
      /\ at[t] = "check"
      /\ at' \in [Threads -> Places]
      /\ at'["main"] = at["main"]
      /\ at'["mine"] = at["mine"]
      /\ at'[t] = IF done THEN "sync" ELSE "idle"
      /\ \A u \in Ws \ {t} : at'[u] = at[u]
      /\ at'["rest"] = at["rest"]
  BY WsApart DEF CheckMining, Running, NodeInv, Values, Goes, Places, Threads
<1>2. UNCHANGED <<chain, temp, file, done, keep, exit, lock, work, status, count, dead,
        odd>>
  BY DEF CheckMining, flags, past
<1>3. /\ Values /\ Flags /\ Positions /\ WorkInHand /\ UpdateInBounds /\ StartsInOrder
      /\ Joined /\ EmptyChain /\ FileThere /\ NeverEmpty
      /\ TerminatesOnlyAfterRefusal
  BY DEF NodeInv
<1>4. Positions'
  BY <1>1, <1>2, <1>3, WsApart DEF Positions, Threads, Nobody
<1>5. Values'
  BY <1>1, <1>2, <1>3 DEF Values, Known
<1>6. WorkInHand'
  BY <1>1, <1>2, <1>3 DEF WorkInHand, Known, Unmined
<1>7. StartsInOrder'
  BY <1>1, <1>2, <1>3 DEF StartsInOrder
<1>8. Joined'
  BY <1>1, <1>2, <1>3 DEF Joined, Refused
<1>9. EmptyChain'
  BY <1>1, <1>2, <1>3 DEF EmptyChain
<1>10. FileThere'
  BY <1>1, <1>2, <1>3 DEF FileThere
<1>11. NeverEmpty'
  BY <1>1, <1>2, <1>3 DEF NeverEmpty
<1>12. TerminatesOnlyAfterRefusal'
  BY <1>1, <1>2, <1>3 DEF TerminatesOnlyAfterRefusal, Refused
<1>13. Flags' /\ UpdateInBounds'
  BY <1>2, <1>3 DEF Flags, UpdateInBounds
<1> QED
  BY <1>4, <1>5, <1>6, <1>7, <1>8, <1>9, <1>10, <1>11, <1>12, <1>13 DEF NodeInv

\* stopMining joins the thread.
LEMMA JoinMineThreadInv ==
  ASSUME NodeInv, Running, JoinMineThread
  PROVE  NodeInv'
<1>1. /\ status = "up"
      /\ at["rest"] = "join"
      /\ at["mine"] \in {"off", "exited"}
      /\ at' \in [Threads -> Places]
      /\ at'["main"] = at["main"]
      /\ at'["mine"] = "off"
      /\ \A u \in Ws : at'[u] = at[u]
      /\ at'["rest"] = "idle"
  BY WsApart DEF JoinMineThread, Running, NodeInv, Values, Goes, Places, Threads
<1>2. UNCHANGED <<chain, temp, file, done, keep, exit, lock, work, status, count, dead,
        odd>>
  BY DEF JoinMineThread, flags, past
<1>3. /\ Values /\ Flags /\ Positions /\ WorkInHand /\ UpdateInBounds /\ StartsInOrder
      /\ Joined /\ EmptyChain /\ FileThere /\ NeverEmpty
      /\ TerminatesOnlyAfterRefusal
  BY DEF NodeInv
<1>4. Positions'
  BY <1>1, <1>2, <1>3, WsApart DEF Positions, Threads, Nobody
<1>5. Values'
  BY <1>1, <1>2, <1>3 DEF Values, Known
<1>6. WorkInHand'
  BY <1>1, <1>2, <1>3 DEF WorkInHand, Known, Unmined
<1>7. StartsInOrder'
  BY <1>1, <1>2, <1>3 DEF StartsInOrder
<1>8. Joined'
  BY <1>1, <1>2, <1>3 DEF Joined, Refused
<1>9. EmptyChain'
  BY <1>1, <1>2, <1>3 DEF EmptyChain
<1>10. FileThere'
  BY <1>1, <1>2, <1>3 DEF FileThere
<1>11. NeverEmpty'
  BY <1>1, <1>2, <1>3 DEF NeverEmpty
<1>12. TerminatesOnlyAfterRefusal'
  BY <1>1, <1>2, <1>3 DEF TerminatesOnlyAfterRefusal, Refused
<1>13. Flags' /\ UpdateInBounds'
  BY <1>2, <1>3 DEF Flags, UpdateInBounds
<1> QED
  BY <1>4, <1>5, <1>6, <1>7, <1>8, <1>9, <1>10, <1>11, <1>12, <1>13 DEF NodeInv

\* stopMining sets the flags; before run() decided about mining, that is odd.
LEMMA StopMiningInv ==
  ASSUME NodeInv, Running, StopMining
  PROVE  NodeInv'
<1>1. /\ status = "up"
      /\ at["rest"] = "idle"
      /\ at["main"] # "stop_http"
      /\ ~done
      /\ at' \in [Threads -> Places]
      /\ at'["main"] = at["main"]
      /\ at'["mine"] = at["mine"]
      /\ \A u \in Ws : at'[u] = at[u]
      /\ at'["rest"] = "join"
      /\ done' = TRUE
      /\ keep' = FALSE
  BY WsApart DEF StopMining, Running, NodeInv, Values, Goes, Places, Threads
<1>2. UNCHANGED <<chain, temp, file, exit, lock, work, status, dead>>
  BY DEF StopMining
<1>3. /\ Values /\ Flags /\ Positions /\ WorkInHand /\ UpdateInBounds /\ StartsInOrder
      /\ Joined /\ EmptyChain /\ FileThere /\ NeverEmpty
      /\ TerminatesOnlyAfterRefusal
  BY DEF NodeInv
<1>4. /\ count' \in [Counted -> Nat]
      /\ count'["stops"] = count["stops"] + 1
      /\ count'["mined"] = count["mined"]
      /\ count'["crashes"] = count["crashes"]
  BY <1>3, CountUp DEF StopMining, Values, Counted
<1>5. odd' \subseteq {"early_stop", "late_start"} /\ odd \subseteq odd'
      /\ (at["main"] = "autostart" => odd' # {})
  BY <1>3 DEF Positions, StopMining
<1>6. Flags'
  BY <1>1, <1>2, <1>3, <1>4, <1>5 DEF Flags
<1>7. Positions'
  BY <1>1, <1>2, <1>3, <1>4, <1>5, WsApart DEF Positions, Threads, Nobody
<1>8. Values'
  BY <1>1, <1>2, <1>3, <1>4, <1>5 DEF Values, Known
<1>9. WorkInHand'
  BY <1>1, <1>2, <1>3, <1>4, <1>5 DEF WorkInHand, Known, Unmined
<1>10. StartsInOrder'
  BY <1>1, <1>2, <1>3, <1>4, <1>5 DEF StartsInOrder
<1>11. Joined'
  BY <1>1, <1>2, <1>3, <1>4, <1>5 DEF Joined, Refused
<1>12. EmptyChain'
  BY <1>1, <1>2, <1>3, <1>4, <1>5 DEF EmptyChain
<1>13. FileThere'
  BY <1>1, <1>2, <1>3, <1>4, <1>5 DEF FileThere
<1>14. NeverEmpty'
  BY <1>1, <1>2, <1>3, <1>4, <1>5 DEF NeverEmpty
<1>15. TerminatesOnlyAfterRefusal'
  BY <1>1, <1>2, <1>3, <1>4, <1>5 DEF TerminatesOnlyAfterRefusal, Refused
<1>16. UpdateInBounds'
  BY <1>2, <1>3 DEF UpdateInBounds
<1> QED
  BY <1>6, <1>7, <1>8, <1>9, <1>10, <1>11, <1>12, <1>13, <1>14, <1>15, <1>16 DEF NodeInv

\* shutdown sets all flags.
LEMMA ShutdownInv ==
  ASSUME NodeInv, Running, Shutdown
  PROVE  NodeInv'
<1>1. /\ status = "up"
      /\ at["rest"] = "idle"
      /\ at["main"] # "stop_http"
      /\ done' = TRUE
      /\ keep' = FALSE
      /\ exit' = TRUE
  BY DEF Shutdown, Running, NodeInv
<1>2. UNCHANGED <<chain, temp, file, at, lock, work, status, dead, odd>>
  BY DEF Shutdown, past
<1>3. /\ Values /\ Flags /\ Positions /\ WorkInHand /\ UpdateInBounds /\ StartsInOrder
      /\ Joined /\ EmptyChain /\ FileThere /\ NeverEmpty
      /\ TerminatesOnlyAfterRefusal
  BY DEF NodeInv
<1>4. /\ count' \in [Counted -> Nat]
      /\ count'["shutdowns"] = count["shutdowns"] + 1
      /\ count'["mined"] = count["mined"]
      /\ count'["crashes"] = count["crashes"]
  BY <1>3, CountUp DEF Shutdown, Values, Counted
<1>5. Flags'
  BY <1>1, <1>2, <1>3, <1>4 DEF Flags
<1>6. Values'
  BY <1>1, <1>2, <1>3, <1>4 DEF Values, Known
<1>7. WorkInHand'
  BY <1>1, <1>2, <1>3, <1>4 DEF WorkInHand, Known, Unmined
<1>8. StartsInOrder'
  BY <1>1, <1>2, <1>3, <1>4 DEF StartsInOrder
<1>9. Joined'
  BY <1>1, <1>2, <1>3, <1>4 DEF Joined, Refused
<1>10. EmptyChain'
  BY <1>1, <1>2, <1>3, <1>4 DEF EmptyChain
<1>11. FileThere'
  BY <1>1, <1>2, <1>3, <1>4 DEF FileThere
<1>12. NeverEmpty'
  BY <1>1, <1>2, <1>3, <1>4 DEF NeverEmpty
<1>13. Positions' /\ UpdateInBounds' /\ TerminatesOnlyAfterRefusal'
  BY <1>2, <1>3 DEF Positions, UpdateInBounds, TerminatesOnlyAfterRefusal, Refused
<1> QED
  BY <1>5, <1>6, <1>7, <1>8, <1>9, <1>10, <1>11, <1>12, <1>13 DEF NodeInv

\* startMining starts a thread.
LEMMA StartMiningInv ==
  ASSUME NodeInv, Running, StartMining, status' = "up"
  PROVE  NodeInv'
<1>1. /\ status = "up"
      /\ at["rest"] = "idle"
      /\ at["main"] # "stop_http"
      /\ done
      /\ at["mine"] = "off"
      /\ at' \in [Threads -> Places]
      /\ at'["main"] = at["main"]
      /\ at'["mine"] = "loop"
      /\ \A u \in Ws : at'[u] = at[u]
      /\ at'["rest"] = "idle"
      /\ done' = FALSE
      /\ odd' = odd \cup {r \in {"late_start"} : exit}
  <2>1. /\ at["rest"] = "idle" /\ at["main"] # "stop_http" /\ done /\ done' = FALSE
        /\ odd' = odd \cup {r \in {"late_start"} : exit}
        /\ AssignMineThread("rest", "idle")
    BY DEF StartMining
  <2>2. at["mine"] = "off" /\ at' = [at EXCEPT !["rest"] = "idle", !["mine"] = "loop"]
    BY <2>1 DEF AssignMineThread
  <2>3. at \in [Threads -> Places]
    BY DEF NodeInv, Values
  <2> QED
    BY <2>1, <2>2, <2>3, WsApart DEF Running, Places, Threads
<1>2. UNCHANGED <<chain, temp, file, keep, exit, lock, work, status, dead>>
  BY DEF StartMining, Running, AssignMineThread
<1>3. /\ Values /\ Flags /\ Positions /\ WorkInHand /\ UpdateInBounds /\ StartsInOrder
      /\ Joined /\ EmptyChain /\ FileThere /\ NeverEmpty
      /\ TerminatesOnlyAfterRefusal
  BY DEF NodeInv
<1>4. /\ count' \in [Counted -> Nat]
      /\ count'["starts"] = count["starts"] + 1
      /\ count'["mined"] = count["mined"]
      /\ count'["crashes"] = count["crashes"]
  BY <1>3, CountUp DEF StartMining, Values, Counted
<1>5. odd' \subseteq {"early_stop", "late_start"} /\ (odd' = {} => odd = {} /\ ~exit)
  BY <1>1, <1>3 DEF Positions
<1>6. Flags'
  BY <1>1, <1>2, <1>3, <1>4, <1>5 DEF Flags
<1>7. Positions'
  BY <1>1, <1>2, <1>3, <1>4, <1>5, WsApart DEF Positions, Threads, Nobody
<1>8. Values'
  BY <1>1, <1>2, <1>3, <1>4, <1>5 DEF Values, Known
<1>9. WorkInHand'
  BY <1>1, <1>2, <1>3, <1>4, <1>5 DEF WorkInHand, Known, Unmined
<1>10. StartsInOrder'
  BY <1>1, <1>2, <1>3, <1>4, <1>5 DEF StartsInOrder
<1>11. Joined'
  BY <1>1, <1>2, <1>3, <1>4, <1>5 DEF Joined, Refused, StartsInOrder
<1>12. EmptyChain'
  BY <1>1, <1>2, <1>3, <1>4, <1>5 DEF EmptyChain
<1>13. FileThere'
  BY <1>1, <1>2, <1>3, <1>4, <1>5 DEF FileThere
<1>14. NeverEmpty'
  BY <1>1, <1>2, <1>3, <1>4, <1>5 DEF NeverEmpty
<1>15. TerminatesOnlyAfterRefusal'
  BY <1>1, <1>2, <1>3, <1>4, <1>5 DEF TerminatesOnlyAfterRefusal, Refused, Joined
<1>16. UpdateInBounds'
  BY <1>2, <1>3 DEF UpdateInBounds
<1> QED
  BY <1>6, <1>7, <1>8, <1>9, <1>10, <1>11, <1>12, <1>13, <1>14, <1>15, <1>16 DEF NodeInv

\* If a thread that gave up is still there, the process ends.
LEMMA StartMiningAgainInv ==
  ASSUME NodeInv, Running, StartMining, status' = "terminated"
  PROVE  NodeInv'
<1>1. /\ status = "up"
      /\ at["rest"] = "idle"
      /\ at["main"] # "stop_http"
      /\ done
      /\ at["mine"] # "off"
      /\ done' = FALSE
      /\ odd' = odd \cup {r \in {"late_start"} : exit}
      /\ status' = "terminated"
  BY WsApart DEF StartMining, Running, NodeInv, AssignMineThread, Values, Goes, Places, Threads
<1>2. UNCHANGED <<chain, temp, file, keep, exit, at, lock, work, dead>>
  BY DEF StartMining, Running, AssignMineThread
<1>3. /\ Values /\ Flags /\ Positions /\ WorkInHand /\ UpdateInBounds /\ StartsInOrder
      /\ Joined /\ EmptyChain /\ FileThere /\ NeverEmpty
      /\ TerminatesOnlyAfterRefusal
  BY DEF NodeInv
<1>4. /\ count' \in [Counted -> Nat]
      /\ count'["starts"] = count["starts"] + 1
      /\ count'["mined"] = count["mined"]
      /\ count'["crashes"] = count["crashes"]
  BY <1>3, CountUp DEF StartMining, Values, Counted
<1>5. odd' \subseteq {"early_stop", "late_start"} /\ (odd' = {} => odd = {} /\ ~exit)
  BY <1>1, <1>3 DEF Positions
<1>6. Flags'
  BY <1>1, <1>2, <1>3, <1>4, <1>5 DEF Flags
<1>7. Positions'
  BY <1>1, <1>2, <1>3, <1>4, <1>5, WsApart DEF Positions, Threads, Nobody
<1>8. Values'
  BY <1>1, <1>2, <1>3, <1>4, <1>5 DEF Values, Known
<1>9. WorkInHand'
  BY <1>1, <1>2, <1>3, <1>4, <1>5 DEF WorkInHand, Known, Unmined
<1>10. StartsInOrder'
  BY <1>1, <1>2, <1>3, <1>4, <1>5 DEF StartsInOrder
<1>11. Joined'
  BY <1>1, <1>2, <1>3, <1>4, <1>5 DEF Joined, Refused, StartsInOrder
<1>12. EmptyChain'
  BY <1>1, <1>2, <1>3, <1>4, <1>5 DEF EmptyChain
<1>13. FileThere'
  BY <1>1, <1>2, <1>3, <1>4, <1>5 DEF FileThere
<1>14. NeverEmpty'
  BY <1>1, <1>2, <1>3, <1>4, <1>5 DEF NeverEmpty
<1>15. TerminatesOnlyAfterRefusal'
  BY <1>1, <1>2, <1>3, <1>4, <1>5 DEF TerminatesOnlyAfterRefusal, Refused, Joined
<1>16. UpdateInBounds'
  BY <1>2, <1>3 DEF UpdateInBounds
<1> QED
  BY <1>6, <1>7, <1>8, <1>9, <1>10, <1>11, <1>12, <1>13, <1>14, <1>15, <1>16 DEF NodeInv

\* The mining thread is started.
LEMMA AutostartInv ==
  ASSUME NodeInv, Running, Autostart, AssignMineThread("main", "wait"), UNCHANGED done,
  status' = "up"
  PROVE  NodeInv'
<1>1. /\ status = "up"
      /\ at["main"] = "autostart"
      /\ at["mine"] = "off"
      /\ at' \in [Threads -> Places]
      /\ at'["main"] = "wait"
      /\ at'["mine"] = "loop"
      /\ \A u \in Ws : at'[u] = at[u]
      /\ at'["rest"] = at["rest"]
  BY WsApart DEF Autostart, Running, NodeInv, Values, Goes, Places, Threads, AssignMineThread
<1>2. UNCHANGED <<chain, temp, file, done, keep, exit, lock, work, status, count, dead,
        odd>>
  BY DEF Autostart, Running, AssignMineThread, MainOnly, past
<1>3. /\ Values /\ Flags /\ Positions /\ WorkInHand /\ UpdateInBounds /\ StartsInOrder
      /\ Joined /\ EmptyChain /\ FileThere /\ NeverEmpty
      /\ TerminatesOnlyAfterRefusal
  BY DEF NodeInv
<1>4. Positions'
  BY <1>1, <1>2, <1>3, WsApart DEF Positions, Threads, Nobody
<1>5. Values'
  BY <1>1, <1>2, <1>3 DEF Values, Known
<1>6. WorkInHand'
  BY <1>1, <1>2, <1>3 DEF WorkInHand, Known, Unmined
<1>7. StartsInOrder'
  BY <1>1, <1>2, <1>3 DEF StartsInOrder
<1>8. Joined'
  BY <1>1, <1>2, <1>3 DEF Joined, Refused
<1>9. EmptyChain'
  BY <1>1, <1>2, <1>3 DEF EmptyChain
<1>10. FileThere'
  BY <1>1, <1>2, <1>3 DEF FileThere
<1>11. NeverEmpty'
  BY <1>1, <1>2, <1>3 DEF NeverEmpty
<1>12. TerminatesOnlyAfterRefusal'
  BY <1>1, <1>2, <1>3 DEF TerminatesOnlyAfterRefusal, Refused, Joined
<1>13. Flags' /\ UpdateInBounds'
  BY <1>2, <1>3 DEF Flags, UpdateInBounds
<1> QED
  BY <1>4, <1>5, <1>6, <1>7, <1>8, <1>9, <1>10, <1>11, <1>12, <1>13 DEF NodeInv

\* Mining is off.
LEMMA NoAutostartInv ==
  ASSUME NodeInv, Running, Autostart, Goes("main", "wait"), done' = TRUE, status' = "up"
  PROVE  NodeInv'
<1>1. /\ status = "up"
      /\ at["main"] = "autostart"
      /\ at' \in [Threads -> Places]
      /\ at'["main"] = "wait"
      /\ at'["mine"] = at["mine"]
      /\ \A u \in Ws : at'[u] = at[u]
      /\ at'["rest"] = at["rest"]
      /\ done' = TRUE
  BY WsApart DEF Autostart, Running, NodeInv, Values, Goes, Places, Threads, AssignMineThread
<1>2. UNCHANGED <<chain, temp, file, keep, exit, lock, work, status, count, dead, odd>>
  BY DEF Autostart, Running, AssignMineThread, MainOnly, past
<1>3. /\ Values /\ Flags /\ Positions /\ WorkInHand /\ UpdateInBounds /\ StartsInOrder
      /\ Joined /\ EmptyChain /\ FileThere /\ NeverEmpty
      /\ TerminatesOnlyAfterRefusal
  BY DEF NodeInv
<1>4. Flags'
  BY <1>1, <1>2, <1>3 DEF Flags
<1>5. Positions'
  BY <1>1, <1>2, <1>3, WsApart DEF Positions, Threads, Nobody
<1>6. Values'
  BY <1>1, <1>2, <1>3 DEF Values, Known
<1>7. WorkInHand'
  BY <1>1, <1>2, <1>3 DEF WorkInHand, Known, Unmined
<1>8. StartsInOrder'
  BY <1>1, <1>2, <1>3 DEF StartsInOrder
<1>9. Joined'
  BY <1>1, <1>2, <1>3 DEF Joined, Refused
<1>10. EmptyChain'
  BY <1>1, <1>2, <1>3 DEF EmptyChain
<1>11. FileThere'
  BY <1>1, <1>2, <1>3 DEF FileThere
<1>12. NeverEmpty'
  BY <1>1, <1>2, <1>3 DEF NeverEmpty
<1>13. TerminatesOnlyAfterRefusal'
  BY <1>1, <1>2, <1>3 DEF TerminatesOnlyAfterRefusal, Refused, Joined
<1>14. UpdateInBounds'
  BY <1>2, <1>3 DEF UpdateInBounds
<1> QED
  BY <1>4, <1>5, <1>6, <1>7, <1>8, <1>9, <1>10, <1>11, <1>12, <1>13, <1>14 DEF NodeInv

\* If somebody stopped mining and started it before, the process ends.
LEMMA AutostartAgainInv ==
  ASSUME NodeInv, Running, Autostart, AssignMineThread("main", "wait"), UNCHANGED done,
  status' = "terminated"
  PROVE  NodeInv'
<1>1. /\ status = "up"
      /\ at["main"] = "autostart"
      /\ at["mine"] # "off"
      /\ status' = "terminated"
  BY WsApart DEF Autostart, Running, NodeInv, AssignMineThread, Values, Goes, Places, Threads
<1>2. UNCHANGED <<chain, temp, file, done, keep, exit, at, lock, work, count, dead, odd>>
  BY DEF Autostart, Running, AssignMineThread, MainOnly, past
<1>3. /\ Values /\ Flags /\ Positions /\ WorkInHand /\ UpdateInBounds /\ StartsInOrder
      /\ Joined /\ EmptyChain /\ FileThere /\ NeverEmpty
      /\ TerminatesOnlyAfterRefusal
  BY DEF NodeInv
<1>4. Positions'
  BY <1>1, <1>2, <1>3, WsApart DEF Positions, Threads, Nobody
<1>5. Joined'
  BY <1>1, <1>2, <1>3 DEF Joined, Refused
<1>6. EmptyChain'
  BY <1>1, <1>2, <1>3 DEF EmptyChain
<1>7. FileThere'
  BY <1>1, <1>2, <1>3 DEF FileThere
<1>8. NeverEmpty'
  BY <1>1, <1>2, <1>3 DEF NeverEmpty
<1>9. TerminatesOnlyAfterRefusal'
  BY <1>1, <1>2, <1>3 DEF TerminatesOnlyAfterRefusal, Refused, Joined
<1>10. StartsInOrder'
  BY <1>2, <1>3 DEF StartsInOrder
<1>11. Flags' /\ Values' /\ WorkInHand' /\ UpdateInBounds'
  BY <1>2, <1>3 DEF Flags, Values, Known, WorkInHand, Unmined, UpdateInBounds
<1> QED
  BY <1>4, <1>5, <1>6, <1>7, <1>8, <1>9, <1>10, <1>11 DEF NodeInv

\* The thread object is destroyed: nothing is left in it.
LEMMA DestroyMembersInv ==
  ASSUME NodeInv, Running, DestroyMembers, status' = "up"
  PROVE  NodeInv'
<1>1. /\ status = "up"
      /\ at["main"] = "members"
      /\ at' \in [Threads -> Places]
      /\ at'["main"] = "peers"
      /\ at'["mine"] = at["mine"]
      /\ \A u \in Ws : at'[u] = at[u]
      /\ at'["rest"] = at["rest"]
  BY WsApart DEF DestroyMembers, Running, NodeInv, Values, Goes, Places, Threads
<1>2. UNCHANGED <<chain, temp, file, done, keep, exit, lock, work, status, count, dead,
        odd>>
  BY DEF DestroyMembers, Running, MainOnly, flags, past
<1>3. /\ Values /\ Flags /\ Positions /\ WorkInHand /\ UpdateInBounds /\ StartsInOrder
      /\ Joined /\ EmptyChain /\ FileThere /\ NeverEmpty
      /\ TerminatesOnlyAfterRefusal
  BY DEF NodeInv
<1>4. Positions'
  BY <1>1, <1>2, <1>3, WsApart DEF Positions, Threads, Nobody
<1>5. Values'
  BY <1>1, <1>2, <1>3 DEF Values, Known
<1>6. WorkInHand'
  BY <1>1, <1>2, <1>3 DEF WorkInHand, Known, Unmined
<1>7. StartsInOrder'
  BY <1>1, <1>2, <1>3 DEF StartsInOrder
<1>8. Joined'
  BY <1>1, <1>2, <1>3 DEF Joined, Refused
<1>9. EmptyChain'
  BY <1>1, <1>2, <1>3 DEF EmptyChain
<1>10. FileThere'
  BY <1>1, <1>2, <1>3 DEF FileThere
<1>11. NeverEmpty'
  BY <1>1, <1>2, <1>3 DEF NeverEmpty
<1>12. TerminatesOnlyAfterRefusal'
  BY <1>1, <1>2, <1>3 DEF TerminatesOnlyAfterRefusal, Refused, Joined
<1>13. Flags' /\ UpdateInBounds'
  BY <1>2, <1>3 DEF Flags, UpdateInBounds
<1> QED
  BY <1>4, <1>5, <1>6, <1>7, <1>8, <1>9, <1>10, <1>11, <1>12, <1>13 DEF NodeInv

\* If a thread was started late, the process ends.
LEMMA DestroyThreadInv ==
  ASSUME NodeInv, Running, DestroyMembers, status' = "terminated"
  PROVE  NodeInv'
<1>1. /\ status = "up"
      /\ at["main"] = "members"
      /\ at["mine"] # "off"
      /\ status' = "terminated"
  BY WsApart DEF DestroyMembers, Running, NodeInv, Values, Goes, Places, Threads
<1>2. UNCHANGED <<chain, temp, file, done, keep, exit, at, lock, work, count, dead, odd>>
  BY DEF DestroyMembers, Running, MainOnly, flags, past
<1>3. /\ Values /\ Flags /\ Positions /\ WorkInHand /\ UpdateInBounds /\ StartsInOrder
      /\ Joined /\ EmptyChain /\ FileThere /\ NeverEmpty
      /\ TerminatesOnlyAfterRefusal
  BY DEF NodeInv
<1>4. Positions'
  BY <1>1, <1>2, <1>3, WsApart DEF Positions, Threads, Nobody
<1>5. Joined'
  BY <1>1, <1>2, <1>3 DEF Joined, Refused
<1>6. EmptyChain'
  BY <1>1, <1>2, <1>3 DEF EmptyChain
<1>7. FileThere'
  BY <1>1, <1>2, <1>3 DEF FileThere
<1>8. NeverEmpty'
  BY <1>1, <1>2, <1>3 DEF NeverEmpty
<1>9. TerminatesOnlyAfterRefusal'
  BY <1>1, <1>2, <1>3 DEF TerminatesOnlyAfterRefusal, Refused, Joined
<1>10. Flags' /\ Values' /\ WorkInHand' /\ UpdateInBounds' /\ StartsInOrder'
  BY <1>2, <1>3 DEF Flags, Values, Known, WorkInHand, Unmined, UpdateInBounds, StartsInOrder
<1> QED
  BY <1>4, <1>5, <1>6, <1>7, <1>8, <1>9, <1>10 DEF NodeInv

\* What is loaded is what the file has, or a new genesis block.
LEMMA InitializeInv ==
  ASSUME NodeInv, Running, Initialize, Load \/ LoadTorn
  PROVE  NodeInv'
<1>1. /\ status = "up"
      /\ at["main"] = "initialize"
      /\ at' \in [Threads -> Places]
      /\ at'["main"] = "http"
      /\ at'["mine"] = at["mine"]
      /\ \A u \in Ws : at'[u] = at[u]
      /\ at'["rest"] = at["rest"]
      /\ dead' = NoCrash
  BY WsApart DEF Initialize, Load, LoadTorn, Running, NodeInv, Values, Goes, Places, Threads
<1>2. UNCHANGED <<temp, done, keep, exit, lock, work, status, count, odd>>
  BY DEF Initialize, Load, LoadTorn, Running, MainOnly, flags
<1>3. /\ Values /\ Flags /\ Positions /\ WorkInHand /\ UpdateInBounds /\ StartsInOrder
      /\ Joined /\ EmptyChain /\ FileThere /\ NeverEmpty
      /\ TerminatesOnlyAfterRefusal
  BY DEF NodeInv
<1>4. chain = <<>> /\ temp = <<>>
  BY <1>1, <1>3 DEF StartsInOrder, EmptyChain
<1>5. TornGenesis(count["crashes"]) \in Known
  <2>1. <<"torn", count["crashes"]>> \in Hashes(count["mined"])
    BY <1>3 DEF Hashes, Values, Counted
  <2> QED
    BY <2>1 DEF TornGenesis, GenesisBlock, Known, BlockOver, NoHash
<1>6. /\ chain' \in Seq(Known) /\ file' \in FileOver(Known) /\ file'.exists
      /\ chain' = <<>> => count["crashes"] > 0 /\ file' = FileOf(<<>>)
      /\ file'.blocks = <<>> => count["crashes"] > 0
  <2>1. CASE Load
    <3>1. chain' = Loaded(file, MaxUpdates + 1 + count["crashes"]) /\ file' = FileOf(chain')
      BY <2>1 DEF Load
    <3>2. /\ chain' \in Seq(Known)
          /\ chain' = <<>> => file.exists /\ file.blocks = <<>>
      BY <1>3, <3>1, LoadedType DEF Values, Counted, Known
    <3> QED
      BY <1>3, <3>1, <3>2 DEF FileThere, FileOf, FileOver
  <2>2. CASE LoadTorn
    <3>1. chain' = <<TornGenesis(count["crashes"])>> /\ file' = file /\ file.cut
      BY <2>2 DEF LoadTorn, TornFirst
    <3>2. chain' \in Seq(Known) /\ chain' # <<>>
      BY <1>5, <3>1
    <3> QED
      BY <1>3, <3>1, <3>2 DEF Values, FileThere
  <2> QED
    BY <2>1, <2>2
<1>7. Positions'
  BY <1>1, <1>2, <1>3, <1>4, <1>5, <1>6, WsApart DEF Positions, Threads, Nobody
<1>8. Values'
  BY <1>1, <1>2, <1>3, <1>4, <1>5, <1>6 DEF Values, Known, FileOver
<1>9. WorkInHand'
  BY <1>1, <1>2, <1>3, <1>4, <1>5, <1>6 DEF WorkInHand, Known, Unmined, StartsInOrder
<1>10. UpdateInBounds'
  BY <1>1, <1>2, <1>3, <1>4, <1>5, <1>6 DEF UpdateInBounds, Nobody
<1>11. StartsInOrder'
  BY <1>1, <1>2, <1>3, <1>4, <1>5, <1>6 DEF StartsInOrder
<1>12. Joined'
  BY <1>1, <1>2, <1>3, <1>4, <1>5, <1>6 DEF Joined, Refused, StartsInOrder
<1>13. EmptyChain'
  BY <1>1, <1>2, <1>3, <1>4, <1>5, <1>6 DEF EmptyChain, StartsInOrder, Positions
<1>14. FileThere'
  BY <1>1, <1>2, <1>3, <1>4, <1>5, <1>6 DEF FileThere
<1>15. NeverEmpty'
  BY <1>1, <1>2, <1>3, <1>4, <1>5, <1>6 DEF NeverEmpty
<1>16. TerminatesOnlyAfterRefusal'
  BY <1>1, <1>2, <1>3, <1>4, <1>5, <1>6 DEF TerminatesOnlyAfterRefusal, Refused
<1>17. Flags'
  BY <1>2, <1>3 DEF Flags
<1> QED
  BY <1>7, <1>8, <1>9, <1>10, <1>11, <1>12, <1>13, <1>14, <1>15, <1>16, <1>17 DEF NodeInv

\* The block found is accepted.
LEMMA AddMinedInv ==
  ASSUME NodeInv, Running, AddMined, chain' # chain
  PROVE  NodeInv'
<1>1. /\ status = "up"
      /\ at["mine"] = "add"
      /\ at' \in [Threads -> Places]
      /\ at'["main"] = at["main"]
      /\ at'["mine"] = "write"
      /\ \A u \in Ws : at'[u] = at[u]
      /\ at'["rest"] = at["rest"]
      /\ chain' = Append(chain, work)
  BY WsApart DEF AddMined, Running, NodeInv, Values, Goes, Places, Threads, addNewBlock
<1>2. UNCHANGED <<temp, file, done, keep, exit, lock, work, status, count, dead, odd>>
  BY DEF AddMined, Running, addNewBlock, past
<1>3. /\ Values /\ Flags /\ Positions /\ WorkInHand /\ UpdateInBounds /\ StartsInOrder
      /\ Joined /\ EmptyChain /\ FileThere /\ NeverEmpty
      /\ TerminatesOnlyAfterRefusal
  BY DEF NodeInv
<1>4. work \in Known /\ work # NoBlock
  BY <1>1, <1>3 DEF WorkInHand
<1>5. chain' \in Seq(Known) /\ Len(chain') = Len(chain) + 1 /\ Len(chain) \in Nat
        /\ chain' # <<>>
  <2>1. chain \in Seq(Known)
    BY <1>3 DEF Values
  <2>2. chain' \in Seq(Known) /\ Len(chain') = Len(chain) + 1 /\ Len(chain) \in Nat
    BY <1>1, <1>4, <2>1, AppendProperties, LenProperties
  <2> QED
    BY <2>2, EmptySeq
<1>6. temp # <<>> => front(temp).index \in Nat
  BY <1>3, FrontIndex DEF Values, Known
<1>7. Positions'
  BY <1>1, <1>2, <1>3, <1>4, <1>5, <1>6, WsApart DEF Positions, Threads, Nobody
<1>8. Values'
  BY <1>1, <1>2, <1>3, <1>4, <1>5, <1>6 DEF Values, Known
<1>9. WorkInHand'
  BY <1>1, <1>2, <1>3, <1>4, <1>5, <1>6 DEF WorkInHand, Known, Unmined
<1>10. UpdateInBounds'
  BY <1>1, <1>2, <1>3, <1>4, <1>5, <1>6 DEF UpdateInBounds, Nobody
<1>11. StartsInOrder'
  BY <1>1, <1>2, <1>3, <1>4, <1>5, <1>6 DEF StartsInOrder
<1>12. Joined'
  BY <1>1, <1>2, <1>3, <1>4, <1>5, <1>6 DEF Joined, Refused
<1>13. EmptyChain'
  BY <1>1, <1>2, <1>3, <1>4, <1>5, <1>6 DEF EmptyChain
<1>14. FileThere'
  BY <1>1, <1>2, <1>3, <1>4, <1>5, <1>6 DEF FileThere
<1>15. NeverEmpty'
  BY <1>1, <1>2, <1>3, <1>4, <1>5, <1>6 DEF NeverEmpty
<1>16. TerminatesOnlyAfterRefusal'
  BY <1>1, <1>2, <1>3, <1>4, <1>5, <1>6 DEF TerminatesOnlyAfterRefusal, Refused
<1>17. Flags'
  BY <1>2, <1>3 DEF Flags
<1> QED
  BY <1>7, <1>8, <1>9, <1>10, <1>11, <1>12, <1>13, <1>14, <1>15, <1>16, <1>17 DEF NodeInv

\* The block found is refused: the thread gives up.
LEMMA MinedRefusedInv ==
  ASSUME NodeInv, Running, AddMined, chain' = chain
  PROVE  NodeInv'
<1>1. /\ status = "up"
      /\ at["mine"] = "add"
      /\ at' \in [Threads -> Places]
      /\ at'["main"] = at["main"]
      /\ at'["mine"] = "exited"
      /\ \A u \in Ws : at'[u] = at[u]
      /\ at'["rest"] = at["rest"]
      /\ done' = TRUE
  BY WsApart DEF AddMined, Running, NodeInv, Values, Goes, Places, Threads, addNewBlock
<1>2. UNCHANGED <<chain, temp, file, keep, exit, lock, work, status, count, dead, odd>>
  BY DEF AddMined, Running, addNewBlock, past
<1>3. /\ Values /\ Flags /\ Positions /\ WorkInHand /\ UpdateInBounds /\ StartsInOrder
      /\ Joined /\ EmptyChain /\ FileThere /\ NeverEmpty
      /\ TerminatesOnlyAfterRefusal
  BY DEF NodeInv
<1>4. Flags'
  BY <1>1, <1>2, <1>3 DEF Flags
<1>5. Positions'
  BY <1>1, <1>2, <1>3, WsApart DEF Positions, Threads, Nobody
<1>6. Values'
  BY <1>1, <1>2, <1>3 DEF Values, Known
<1>7. WorkInHand'
  BY <1>1, <1>2, <1>3 DEF WorkInHand, Known, Unmined
<1>8. StartsInOrder'
  BY <1>1, <1>2, <1>3 DEF StartsInOrder
<1>9. Joined'
  BY <1>1, <1>2, <1>3 DEF Joined, Refused, WorkInHand
<1>10. EmptyChain'
  BY <1>1, <1>2, <1>3 DEF EmptyChain
<1>11. FileThere'
  BY <1>1, <1>2, <1>3 DEF FileThere
<1>12. NeverEmpty'
  BY <1>1, <1>2, <1>3 DEF NeverEmpty
<1>13. TerminatesOnlyAfterRefusal'
  BY <1>1, <1>2, <1>3 DEF TerminatesOnlyAfterRefusal, Refused
<1>14. UpdateInBounds'
  BY <1>2, <1>3 DEF UpdateInBounds
<1> QED
  BY <1>4, <1>5, <1>6, <1>7, <1>8, <1>9, <1>10, <1>11, <1>12, <1>13, <1>14 DEF NodeInv

\* Nothing is applied.
LEMMA SyncNothingInv ==
  ASSUME NEW t \in {"mine"} \cup Ws, NodeInv, Running, SyncNothing(t)
  PROVE  NodeInv'
<1>1. /\ status = "up"
      /\ lock = Nobody
      /\ at' \in [Threads -> Places]
      /\ at'["main"] = at["main"] /\ at'["rest"] = at["rest"]
      /\ \/ /\ t = "mine" /\ at["mine"] = "sync" /\ \A u \in Ws : at'[u] = at[u]
            /\ at'["mine"] \in {"broadcast", "loop"}
         \/ /\ t \in Ws /\ at[t] = "sync" /\ at'["mine"] = at["mine"]
            /\ at'[t] = "idle" /\ (\A u \in Ws \ {t} : at'[u] = at[u])
      /\ temp' = <<>>
  BY WsApart DEF SyncNothing, Running, NodeInv, Values, Goes, Places, Threads, Returns
<1>2. UNCHANGED <<chain, file, done, keep, exit, lock, work, status, count, dead, odd>>
  BY DEF SyncNothing, flags, past
<1>3. /\ Values /\ Flags /\ Positions /\ WorkInHand /\ UpdateInBounds /\ StartsInOrder
      /\ Joined /\ EmptyChain /\ FileThere /\ NeverEmpty
      /\ TerminatesOnlyAfterRefusal
  BY DEF NodeInv
<1>4. Positions'
  BY <1>1, <1>2, <1>3, WsApart DEF Positions, Threads, Nobody
<1>5. Values'
  BY <1>1, <1>2, <1>3 DEF Values, Known
<1>6. WorkInHand'
  BY <1>1, <1>2, <1>3 DEF WorkInHand, Known, Unmined
<1>7. UpdateInBounds'
  BY <1>1, <1>2, <1>3 DEF UpdateInBounds, Nobody
<1>8. StartsInOrder'
  BY <1>1, <1>2, <1>3 DEF StartsInOrder
<1>9. Joined'
  BY <1>1, <1>2, <1>3 DEF Joined, Refused
<1>10. EmptyChain'
  BY <1>1, <1>2, <1>3 DEF EmptyChain
<1>11. FileThere'
  BY <1>1, <1>2, <1>3 DEF FileThere
<1>12. NeverEmpty'
  BY <1>1, <1>2, <1>3 DEF NeverEmpty
<1>13. TerminatesOnlyAfterRefusal'
  BY <1>1, <1>2, <1>3 DEF TerminatesOnlyAfterRefusal, Refused
<1>14. Flags'
  BY <1>2, <1>3 DEF Flags
<1> QED
  BY <1>4, <1>5, <1>6, <1>7, <1>8, <1>9, <1>10, <1>11, <1>12, <1>13, <1>14 DEF NodeInv

\* The mutex is taken for an update that is there.
LEMMA SyncBeginInv ==
  ASSUME NEW t \in {"mine"} \cup Ws, NodeInv, Running, SyncBegin(t)
  PROVE  NodeInv'
<1>1. /\ status = "up"
      /\ lock = Nobody
      /\ temp # <<>>
      /\ at' \in [Threads -> Places]
      /\ at'["main"] = at["main"] /\ at'["rest"] = at["rest"]
      /\ \/ /\ t = "mine" /\ at["mine"] = "sync" /\ \A u \in Ws : at'[u] = at[u]
            /\ at'["mine"] \in {"append", "replace"}
         \/ /\ t \in Ws /\ at[t] = "sync" /\ at'["mine"] = at["mine"]
            /\ at'[t] \in {"append", "replace"} /\ (\A u \in Ws \ {t} : at'[u] = at[u])
      /\ lock' = t
  BY WsApart DEF SyncBegin, Running, NodeInv, Values, Goes, Places, Threads, Returns
<1>2. UNCHANGED <<chain, temp, file, done, keep, exit, work, status, count, dead, odd>>
  BY DEF SyncBegin, flags, past
<1>3. /\ Values /\ Flags /\ Positions /\ WorkInHand /\ UpdateInBounds /\ StartsInOrder
      /\ Joined /\ EmptyChain /\ FileThere /\ NeverEmpty
      /\ TerminatesOnlyAfterRefusal
  BY DEF NodeInv
<1>4. Positions'
  BY <1>1, <1>2, <1>3, WsApart DEF Positions, Threads, Nobody
<1>5. Values'
  BY <1>1, <1>2, <1>3 DEF Values, Known
<1>6. WorkInHand'
  BY <1>1, <1>2, <1>3 DEF WorkInHand, Known, Unmined
<1>7. UpdateInBounds'
  BY <1>1, <1>2, <1>3 DEF UpdateInBounds, Nobody
<1>8. StartsInOrder'
  BY <1>1, <1>2, <1>3 DEF StartsInOrder
<1>9. Joined'
  BY <1>1, <1>2, <1>3 DEF Joined, Refused
<1>10. EmptyChain'
  BY <1>1, <1>2, <1>3 DEF EmptyChain
<1>11. FileThere'
  BY <1>1, <1>2, <1>3 DEF FileThere
<1>12. NeverEmpty'
  BY <1>1, <1>2, <1>3 DEF NeverEmpty
<1>13. TerminatesOnlyAfterRefusal'
  BY <1>1, <1>2, <1>3 DEF TerminatesOnlyAfterRefusal, Refused
<1>14. Flags'
  BY <1>2, <1>3 DEF Flags
<1> QED
  BY <1>4, <1>5, <1>6, <1>7, <1>8, <1>9, <1>10, <1>11, <1>12, <1>13, <1>14 DEF NodeInv

\* Blocks of the update are added to the chain and to the file.
LEMMA SyncAppendInv ==
  ASSUME NEW t \in {"mine"} \cup Ws, NodeInv, Running, SyncAppend(t)
  PROVE  NodeInv'
<1>1. /\ status = "up"
      /\ at' \in [Threads -> Places]
      /\ at'["main"] = at["main"] /\ at'["rest"] = at["rest"]
      /\ \/ /\ t = "mine" /\ at["mine"] = "append" /\ \A u \in Ws : at'[u] = at[u]
            /\ at'["mine"] \in {"broadcast", "loop"}
         \/ /\ t \in Ws /\ at[t] = "append" /\ at'["mine"] = at["mine"]
            /\ at'[t] = "idle" /\ (\A u \in Ws \ {t} : at'[u] = at[u])
      /\ chain' = AddBlocks(chain, temp)
      /\ file' = Appended(file, SubSeq(chain', Len(chain) + 1, Len(chain')))
      /\ temp' = <<>>
      /\ lock' = Nobody
  BY WsApart DEF SyncAppend, Running, NodeInv, Values, Goes, Places, Threads, Returns
<1>2. UNCHANGED <<done, keep, exit, work, status, count, dead, odd>>
  BY DEF SyncAppend, flags, past
<1>3. /\ Values /\ Flags /\ Positions /\ WorkInHand /\ UpdateInBounds /\ StartsInOrder
      /\ Joined /\ EmptyChain /\ FileThere /\ NeverEmpty
      /\ TerminatesOnlyAfterRefusal
  BY DEF NodeInv
<1>4. chain # <<>> /\ chain \in Seq(Known) /\ temp \in Seq(Known)
  BY <1>1, <1>3 DEF EmptyChain, Values
<1>5. /\ chain' \in Seq(Known) /\ chain' # <<>>
      /\ \A i \in DOMAIN chain' : (\E j \in DOMAIN chain : chain'[i] = chain[j])
                                 \/ chain'[i].hash \notin {"mined"} \X Nat
      /\ SubSeq(chain', Len(chain) + 1, Len(chain')) \in Seq(Known)
  <2>1. /\ chain' \in Seq(Known)
        /\ Len(chain') >= Len(chain)
        /\ \A i \in 1..Len(chain) : chain'[i] = chain[i]
        /\ \A i \in (Len(chain) + 1)..Len(chain') : \E j \in 1..Len(temp) : chain'[i] = temp[j]
        /\ SubSeq(chain', Len(chain) + 1, Len(chain')) \in Seq(Known)
    BY <1>1, <1>4, AddBlocksAdds DEF Known
  <2>2. Len(chain) \in Nat \ {0} /\ Len(chain') \in Nat /\ DOMAIN chain = 1..Len(chain)
          /\ DOMAIN chain' = 1..Len(chain')
    BY <1>4, <2>1, EmptySeq, LenProperties
  <2>3. chain' # <<>>
    BY <2>1, <2>2, EmptySeq
  <2>4. ASSUME NEW i \in DOMAIN chain'
        PROVE  \/ \E j \in DOMAIN chain : chain'[i] = chain[j]
               \/ chain'[i].hash \notin {"mined"} \X Nat
    <3>1. CASE i \in 1..Len(chain)
      BY <2>1, <2>2, <3>1
    <3>2. CASE i \notin 1..Len(chain)
      <4>1. i \in (Len(chain) + 1)..Len(chain')
        BY <2>2, <3>2
      <4> QED
        BY <1>3, <2>1, <4>1 DEF Values
    <3> QED
      BY <3>1, <3>2
  <2> QED
    BY <2>1, <2>3, <2>4
<1>6. file' \in FileOver(Known) /\ file'.exists = TRUE
        /\ (file'.blocks = <<>> => file.blocks = <<>>)
  <2> DEFINE s == SubSeq(chain', Len(chain) + 1, Len(chain'))
  <2>1. s \in Seq(Known) /\ file \in FileOver(Known) /\ file.blocks \in Seq(Known)
    BY <1>3, <1>5 DEF Values, FileOver
  <2>2. file' = Appended(file, s)
    BY <1>1
  <2> HIDE DEF s
  <2>3. file' \in FileOver(Known)
    BY <2>1, <2>2, FileTypes DEF Known
  <2>4. file.blocks \o s = <<>> => file.blocks = <<>>
    BY <2>1, ConcatEmptySeq
  <2> QED
    BY <2>2, <2>3, <2>4 DEF Appended
<1>7. file.exists
  BY <1>1, <1>3, <1>4 DEF FileThere, Positions, Threads, StartsInOrder
<1>8. work # NoBlock /\ at["mine"] \notin {"enter", "mining"}
        /\ (\A i \in DOMAIN chain : chain[i] # work)
        => \A i \in DOMAIN chain' : chain'[i] # work
  <2>1. ASSUME work # NoBlock, at["mine"] \notin {"enter", "mining"},
               \A i \in DOMAIN chain : chain[i] # work, NEW i \in DOMAIN chain'
        PROVE  chain'[i] # work
    <3>1. work.hash \in {"mined"} \X Nat
      BY <1>3, <2>1 DEF WorkInHand, MinedHashes
    <3> QED
      BY <2>1, <3>1, <1>5
  <2> QED
    BY <2>1
<1>9. Positions'
  BY <1>1, <1>2, <1>3, <1>4, <1>5, <1>6, <1>7, <1>8, WsApart DEF Positions, Threads, Nobody
<1>10. Values'
  BY <1>1, <1>2, <1>3, <1>4, <1>5, <1>6, <1>7, <1>8 DEF Values, Known, FileOver
<1>11. WorkInHand'
  BY <1>1, <1>2, <1>3, <1>4, <1>5, <1>6, <1>7, <1>8 DEF WorkInHand, Known, Unmined
<1>12. UpdateInBounds'
  BY <1>1, <1>2, <1>3, <1>4, <1>5, <1>6, <1>7, <1>8 DEF UpdateInBounds, Nobody
<1>13. StartsInOrder'
  BY <1>1, <1>2, <1>3, <1>4, <1>5, <1>6, <1>7, <1>8 DEF StartsInOrder
<1>14. Joined'
  BY <1>1, <1>2, <1>3, <1>4, <1>5, <1>6, <1>7, <1>8 DEF Joined, Refused
<1>15. EmptyChain'
  BY <1>1, <1>2, <1>3, <1>4, <1>5, <1>6, <1>7, <1>8 DEF EmptyChain
<1>16. FileThere'
  BY <1>1, <1>2, <1>3, <1>4, <1>5, <1>6, <1>7, <1>8 DEF FileThere
<1>17. NeverEmpty'
  BY <1>1, <1>2, <1>3, <1>4, <1>5, <1>6, <1>7, <1>8 DEF NeverEmpty
<1>18. TerminatesOnlyAfterRefusal'
  BY <1>1, <1>2, <1>3, <1>4, <1>5, <1>6, <1>7, <1>8 DEF TerminatesOnlyAfterRefusal, Refused
<1>19. Flags'
  BY <1>2, <1>3 DEF Flags
<1> QED
  BY <1>9, <1>10, <1>11, <1>12, <1>13, <1>14, <1>15, <1>16, <1>17, <1>18, <1>19 DEF NodeInv

\* The chain is replaced from the height of the update on.
LEMMA SyncReplaceInv ==
  ASSUME NEW t \in {"mine"} \cup Ws, NodeInv, Running, SyncReplace(t)
  PROVE  NodeInv'
<1>1. /\ status = "up"
      /\ at' \in [Threads -> Places]
      /\ at'["main"] = at["main"] /\ at'["rest"] = at["rest"]
      /\ \/ /\ t = "mine" /\ at["mine"] = "replace" /\ \A u \in Ws : at'[u] = at[u]
            /\ at'["mine"] = "reset"
         \/ /\ t \in Ws /\ at[t] = "replace" /\ at'["mine"] = at["mine"]
            /\ at'[t] = "reset" /\ (\A u \in Ws \ {t} : at'[u] = at[u])
      /\ chain' = IF front(temp).index = 0 THEN temp
                  ELSE AddBlocks(resize(chain, front(temp).index), temp)
  BY WsApart DEF SyncReplace, Running, NodeInv, Values, Goes, Places, Threads, Returns
<1>2. UNCHANGED <<temp, file, done, keep, exit, lock, work, status, count, dead, odd>>
  BY DEF SyncReplace, flags, past
<1>3. /\ Values /\ Flags /\ Positions /\ WorkInHand /\ UpdateInBounds /\ StartsInOrder
      /\ Joined /\ EmptyChain /\ FileThere /\ NeverEmpty
      /\ TerminatesOnlyAfterRefusal
  BY DEF NodeInv
<1>4. chain # <<>> /\ chain \in Seq(Known) /\ temp \in Seq(Known)
  BY <1>1, <1>3 DEF EmptyChain, Values
<1>5. temp # <<>> /\ front(temp).index \in 0..Len(chain)
  <2>1. temp # <<>>
    <3>1. at[t] = "replace" /\ t \in Threads /\ t # Nobody
      BY <1>1, WsApart DEF Threads, Nobody
    <3>2. lock = t
      BY <1>3, <3>1 DEF Positions
    <3> QED
      BY <1>3, <3>1, <3>2 DEF UpdateInBounds
  <2>2. front(temp).index \in Nat /\ Len(chain) \in Nat
    BY <1>4, <2>1, FrontIndex, LenProperties DEF Known
  <2> QED
    BY <1>3, <2>1, <2>2 DEF UpdateInBounds
<1>6. /\ chain' \in Seq(Known) /\ chain' # <<>>
      /\ Len(chain') >= front(temp).index
      /\ \A i \in DOMAIN chain' : (\E j \in DOMAIN chain : chain'[i] = chain[j])
                                 \/ chain'[i].hash \notin {"mined"} \X Nat
  <2> DEFINE k == front(temp).index
             p == SubSeq(chain, 1, k)
  <2>1. \A j \in 1..Len(temp) : temp[j].hash \notin {"mined"} \X Nat
    BY <1>3 DEF Values
  <2>2. CASE k = 0
    <3>1. chain' = temp
      BY <1>1, <2>2
    <3>2. DOMAIN chain' = 1..Len(temp) /\ Len(temp) \in Nat
      BY <1>4, <3>1, LenProperties
    <3> QED
      BY <1>4, <1>5, <2>1, <2>2, <3>1, <3>2
  <2>3. CASE k # 0
    <3>1. k \in 1..Len(chain) /\ k \in Nat \ {0} /\ Len(chain) \in Nat
      BY <1>4, <1>5, <2>3, LenProperties
    <3>2. chain' = AddBlocks(p, temp)
      BY <1>1, <2>3 DEF resize
    <3> HIDE DEF k
    <3>3. p \in Seq(Known) /\ Len(p) = k /\ \A i \in 1..k : p[i] = chain[i]
      BY <1>4, <1>5, <3>1, Prefix DEF k
    <3> HIDE DEF p
    <3>4. /\ chain' \in Seq(Known)
          /\ Len(chain') >= Len(p)
          /\ \A i \in 1..Len(p) : chain'[i] = p[i]
          /\ \A i \in (Len(p) + 1)..Len(chain') : \E j \in 1..Len(temp) : chain'[i] = temp[j]
      BY <1>4, <3>2, <3>3, AddBlocksAdds DEF Known
    <3>5. Len(chain') \in Nat /\ DOMAIN chain' = 1..Len(chain')
            /\ DOMAIN chain = 1..Len(chain)
      BY <1>4, <3>4, LenProperties
    <3>6. chain' # <<>> /\ Len(chain') >= k
      BY <3>1, <3>3, <3>4, <3>5, EmptySeq
    <3>7. ASSUME NEW i \in DOMAIN chain'
          PROVE  \/ \E j \in DOMAIN chain : chain'[i] = chain[j]
                 \/ chain'[i].hash \notin {"mined"} \X Nat
      <4>1. CASE i \in 1..k
        <5>1. i \in DOMAIN chain
          BY <3>1, <3>5, <4>1
        <5> QED
          BY <3>3, <3>4, <4>1, <5>1
      <4>2. CASE i \notin 1..k
        <5>1. i \in (Len(p) + 1)..Len(chain')
          BY <3>1, <3>3, <3>5, <4>2
        <5> QED
          BY <2>1, <3>4, <5>1
      <4> QED
        BY <4>1, <4>2
    <3> QED
      BY <3>4, <3>6, <3>7 DEF k
  <2> QED
    BY <2>2, <2>3
<1>7. work # NoBlock /\ at["mine"] \notin {"enter", "mining"}
        /\ (\A i \in DOMAIN chain : chain[i] # work)
        => \A i \in DOMAIN chain' : chain'[i] # work
  <2>1. ASSUME work # NoBlock, at["mine"] \notin {"enter", "mining"},
               \A i \in DOMAIN chain : chain[i] # work, NEW i \in DOMAIN chain'
        PROVE  chain'[i] # work
    <3>1. work.hash \in {"mined"} \X Nat
      BY <1>3, <2>1 DEF WorkInHand, MinedHashes
    <3> QED
      BY <2>1, <3>1, <1>6
  <2> QED
    BY <2>1
<1>8. Positions'
  BY <1>1, <1>2, <1>3, <1>4, <1>5, <1>6, <1>7, WsApart DEF Positions, Threads, Nobody
<1>9. Values'
  BY <1>1, <1>2, <1>3, <1>4, <1>5, <1>6, <1>7 DEF Values, Known
<1>10. WorkInHand'
  BY <1>1, <1>2, <1>3, <1>4, <1>5, <1>6, <1>7 DEF WorkInHand, Known, Unmined
<1>11. UpdateInBounds'
  BY <1>1, <1>2, <1>3, <1>4, <1>5, <1>6, <1>7 DEF UpdateInBounds, Nobody
<1>12. StartsInOrder'
  BY <1>1, <1>2, <1>3, <1>4, <1>5, <1>6, <1>7 DEF StartsInOrder
<1>13. Joined'
  BY <1>1, <1>2, <1>3, <1>4, <1>5, <1>6, <1>7 DEF Joined, Refused
<1>14. EmptyChain'
  BY <1>1, <1>2, <1>3, <1>4, <1>5, <1>6, <1>7 DEF EmptyChain
<1>15. FileThere'
  BY <1>1, <1>2, <1>3, <1>4, <1>5, <1>6, <1>7 DEF FileThere
<1>16. NeverEmpty'
  BY <1>1, <1>2, <1>3, <1>4, <1>5, <1>6, <1>7 DEF NeverEmpty
<1>17. TerminatesOnlyAfterRefusal'
  BY <1>1, <1>2, <1>3, <1>4, <1>5, <1>6, <1>7 DEF TerminatesOnlyAfterRefusal, Refused
<1>18. Flags'
  BY <1>2, <1>3 DEF Flags
<1> QED
  BY <1>8, <1>9, <1>10, <1>11, <1>12, <1>13, <1>14, <1>15, <1>16, <1>17, <1>18 DEF NodeInv

\* The file is removed; the thread is about to write it again.
LEMMA SyncResetInv ==
  ASSUME NEW t \in {"mine"} \cup Ws, NodeInv, Running, SyncReset(t)
  PROVE  NodeInv'
<1>1. /\ status = "up"
      /\ at' \in [Threads -> Places]
      /\ at'["main"] = at["main"] /\ at'["rest"] = at["rest"]
      /\ \/ /\ t = "mine" /\ at["mine"] = "reset" /\ \A u \in Ws : at'[u] = at[u]
            /\ at'["mine"] = "rewrite"
         \/ /\ t \in Ws /\ at[t] = "reset" /\ at'["mine"] = at["mine"]
            /\ at'[t] = "rewrite" /\ (\A u \in Ws \ {t} : at'[u] = at[u])
      /\ file' = NoFile
  BY WsApart DEF SyncReset, Running, NodeInv, Values, Goes, Places, Threads, Returns
<1>2. UNCHANGED <<chain, temp, done, keep, exit, lock, work, status, count, dead, odd>>
  BY DEF SyncReset, flags, past
<1>3. /\ Values /\ Flags /\ Positions /\ WorkInHand /\ UpdateInBounds /\ StartsInOrder
      /\ Joined /\ EmptyChain /\ FileThere /\ NeverEmpty
      /\ TerminatesOnlyAfterRefusal
  BY DEF NodeInv
<1>4. chain # <<>> /\ file' \in FileOver(Known) /\ ~file'.exists /\ ~file'.cut
  BY <1>1, <1>3, EmptySeq DEF EmptyChain, NoFile, FileOver
<1>5. Positions'
  BY <1>1, <1>2, <1>3, <1>4, WsApart DEF Positions, Threads, Nobody
<1>6. Values'
  BY <1>1, <1>2, <1>3, <1>4 DEF Values, Known, FileOver
<1>7. WorkInHand'
  BY <1>1, <1>2, <1>3, <1>4 DEF WorkInHand, Known, Unmined
<1>8. StartsInOrder'
  BY <1>1, <1>2, <1>3, <1>4 DEF StartsInOrder
<1>9. Joined'
  BY <1>1, <1>2, <1>3, <1>4 DEF Joined, Refused
<1>10. EmptyChain'
  BY <1>2, <1>4 DEF EmptyChain
<1>11. FileThere'
  <2>1. at'["mine"] = "rewrite" \/ \E u \in Ws : at'[u] = "rewrite"
    BY <1>1
  <2> QED
    BY <1>4, <2>1 DEF FileThere
<1>12. NeverEmpty'
  BY <1>2, <1>4 DEF NeverEmpty
<1>13. TerminatesOnlyAfterRefusal'
  BY <1>1, <1>2, <1>3, <1>4 DEF TerminatesOnlyAfterRefusal, Refused
<1>14. Flags' /\ UpdateInBounds'
  BY <1>2, <1>3 DEF Flags, UpdateInBounds
<1> QED
  BY <1>5, <1>6, <1>7, <1>8, <1>9, <1>10, <1>11, <1>12, <1>13, <1>14 DEF NodeInv

\* The file is written again, with a chain that is not empty.
LEMMA SyncRewriteInv ==
  ASSUME NEW t \in {"mine"} \cup Ws, NodeInv, Running, SyncRewrite(t)
  PROVE  NodeInv'
<1>1. /\ status = "up"
      /\ at' \in [Threads -> Places]
      /\ at'["main"] = at["main"] /\ at'["rest"] = at["rest"]
      /\ \/ /\ t = "mine" /\ at["mine"] = "rewrite" /\ \A u \in Ws : at'[u] = at[u]
            /\ at'["mine"] \in {"broadcast", "loop"}
         \/ /\ t \in Ws /\ at[t] = "rewrite" /\ at'["mine"] = at["mine"]
            /\ at'[t] = "idle" /\ (\A u \in Ws \ {t} : at'[u] = at[u])
      /\ file' = Appended(file, chain)
      /\ temp' = <<>>
      /\ lock' = Nobody
  BY WsApart DEF SyncRewrite, Running, NodeInv, Values, Goes, Places, Threads, Returns
<1>2. UNCHANGED <<chain, done, keep, exit, work, status, count, dead, odd>>
  BY DEF SyncRewrite, flags, past
<1>3. /\ Values /\ Flags /\ Positions /\ WorkInHand /\ UpdateInBounds /\ StartsInOrder
      /\ Joined /\ EmptyChain /\ FileThere /\ NeverEmpty
      /\ TerminatesOnlyAfterRefusal
  BY DEF NodeInv
<1>4. chain # <<>> /\ chain \in Seq(Known)
  BY <1>1, <1>3 DEF EmptyChain, Values
<1>5. file' \in FileOver(Known) /\ file'.exists = TRUE
        /\ (file'.blocks = <<>> => count["crashes"] > 0)
  <2>1. file \in FileOver(Known) /\ file.blocks \in Seq(Known)
    BY <1>3 DEF Values, FileOver
  <2>2. file' \in FileOver(Known)
    BY <1>1, <1>4, <2>1, FileTypes DEF Known
  <2>3. file.blocks \o chain # <<>>
    BY <1>4, <2>1, ConcatEqualIffEmpty
  <2> QED
    BY <1>1, <1>3, <2>2, <2>3 DEF Appended, FileThere
<1>6. Positions'
  BY <1>1, <1>2, <1>3, <1>4, <1>5, WsApart DEF Positions, Threads, Nobody
<1>7. Values'
  BY <1>1, <1>2, <1>3, <1>4, <1>5 DEF Values, Known, FileOver
<1>8. WorkInHand'
  BY <1>1, <1>2, <1>3, <1>4, <1>5 DEF WorkInHand, Known, Unmined
<1>9. UpdateInBounds'
  BY <1>1, <1>2, <1>3, <1>4, <1>5 DEF UpdateInBounds, Nobody
<1>10. StartsInOrder'
  BY <1>1, <1>2, <1>3, <1>4, <1>5 DEF StartsInOrder
<1>11. Joined'
  BY <1>1, <1>2, <1>3, <1>4, <1>5 DEF Joined, Refused
<1>12. EmptyChain'
  BY <1>1, <1>2, <1>3, <1>4, <1>5 DEF EmptyChain
<1>13. FileThere'
  BY <1>1, <1>2, <1>3, <1>4, <1>5 DEF FileThere
<1>14. NeverEmpty'
  BY <1>1, <1>2, <1>3, <1>4, <1>5 DEF NeverEmpty
<1>15. TerminatesOnlyAfterRefusal'
  BY <1>1, <1>2, <1>3, <1>4, <1>5 DEF TerminatesOnlyAfterRefusal, Refused
<1>16. Flags'
  BY <1>2, <1>3 DEF Flags
<1> QED
  BY <1>6, <1>7, <1>8, <1>9, <1>10, <1>11, <1>12, <1>13, <1>14, <1>15, <1>16 DEF NodeInv

\* An update starts inside the chain or right behind it.
LEMMA ReceiveUpdateInv ==
  ASSUME NEW t \in Ws, NodeInv, Running, ReceiveUpdate(t)
  PROVE  NodeInv'
<1>1. /\ status = "up"
      /\ at[t] = "idle"
      /\ lock = Nobody
      /\ chain # <<>>
      /\ at' \in [Threads -> Places]
      /\ at'["main"] = at["main"]
      /\ at'["mine"] = at["mine"]
      /\ at'[t] = "check"
      /\ \A u \in Ws \ {t} : at'[u] = at[u]
      /\ at'["rest"] = at["rest"]
  BY WsApart DEF ReceiveUpdate, Running, NodeInv, Values, Goes, Places, Threads
<1>2. UNCHANGED <<chain, file, done, keep, exit, lock, work, status, dead, odd>>
  BY DEF ReceiveUpdate, flags, past
<1>3. /\ Values /\ Flags /\ Positions /\ WorkInHand /\ UpdateInBounds /\ StartsInOrder
      /\ Joined /\ EmptyChain /\ FileThere /\ NeverEmpty
      /\ TerminatesOnlyAfterRefusal
  BY DEF NodeInv
<1>4. /\ count' \in [Counted -> Nat]
      /\ count'["updates"] = count["updates"] + 1
      /\ count'["mined"] = count["mined"]
      /\ count'["crashes"] = count["crashes"]
  BY <1>3, CountUp DEF ReceiveUpdate, Values, Counted
<1>5. temp' \in Seq(Known) /\ temp' # <<>> /\ front(temp').index <= Len(chain)
      /\ \A i \in 1..Len(temp') : temp'[i].hash \notin {"mined"} \X Nat
  <2>1. PICK start \in 0..Len(chain), len \in 1..2 :
               temp' = Update(count["updates"] + 1, chain, start, len)
    BY DEF ReceiveUpdate
  <2> DEFINE n == count["mined"]
             k == count["updates"] + 1
             u == Update(k, chain, start, len)
  <2>2. /\ start \in Nat /\ start <= Len(chain) /\ len \in Nat /\ len > 0
        /\ k \in Nat /\ n \in Nat /\ chain \in Seq(BlockOver(Hashes(n)))
    BY <1>3, LenProperties DEF Values, Counted, Known
  <2> HIDE DEF k, n
  <2>3. u \in Seq(BlockOver(Hashes(n))) /\ Len(u) = len /\ front(u).index = start
    BY <2>2, UpdateTypes
  <2>4. \A i \in 1..len : u[i].hash \notin {"mined"} \X Nat
    BY <2>2, UpdateTypes
  <2> HIDE DEF u
  <2>5. temp' = u /\ Known = BlockOver(Hashes(n))
    BY <2>1 DEF u, k, Known, n
  <2>6. ASSUME temp' = <<>> PROVE FALSE
    BY <2>2, <2>3, <2>5, <2>6
  <2> QED
    BY <2>2, <2>3, <2>4, <2>5, <2>6
<1>6. Positions'
  BY <1>1, <1>2, <1>3, <1>4, <1>5, WsApart DEF Positions, Threads, Nobody
<1>7. Values'
  BY <1>1, <1>2, <1>3, <1>4, <1>5 DEF Values, Known
<1>8. WorkInHand'
  BY <1>1, <1>2, <1>3, <1>4, <1>5 DEF WorkInHand, Known, Unmined
<1>9. UpdateInBounds'
  BY <1>1, <1>2, <1>3, <1>4, <1>5 DEF UpdateInBounds, Nobody
<1>10. StartsInOrder'
  BY <1>1, <1>2, <1>3, <1>4, <1>5 DEF StartsInOrder
<1>11. Joined'
  BY <1>1, <1>2, <1>3, <1>4, <1>5 DEF Joined, Refused
<1>12. EmptyChain'
  BY <1>1, <1>2, <1>3, <1>4, <1>5 DEF EmptyChain
<1>13. FileThere'
  BY <1>1, <1>2, <1>3, <1>4, <1>5 DEF FileThere
<1>14. NeverEmpty'
  BY <1>1, <1>2, <1>3, <1>4, <1>5 DEF NeverEmpty
<1>15. TerminatesOnlyAfterRefusal'
  BY <1>1, <1>2, <1>3, <1>4, <1>5 DEF TerminatesOnlyAfterRefusal, Refused
<1>16. Flags'
  BY <1>2, <1>3 DEF Flags
<1> QED
  BY <1>6, <1>7, <1>8, <1>9, <1>10, <1>11, <1>12, <1>13, <1>14, <1>15, <1>16 DEF NodeInv

\* A thread begins to read a chain that is there ...
LEMMA BeginReadInv ==
  ASSUME NEW t \in Readers, NodeInv, Running, BeginRead(t)
  PROVE  NodeInv'
<1>1. /\ chain # <<>>
      /\ at' \in [Threads -> Places]
      /\ at'["main"] = at["main"] /\ at'["mine"] = at["mine"]
      /\ at[t] = "idle" /\ at'[t] = "read"
      /\ \A u \in (Ws \cup {"rest"}) \ {t} : at'[u] = at[u]
  BY WsApart DEF BeginRead, Readers, NodeInv, Values, Goes, Places, Threads
<1>2. UNCHANGED <<chain, temp, file, done, keep, exit, lock, work, status, count, odd>>
  BY DEF BeginRead, flags, past
<1>3. /\ Values /\ Flags /\ Positions /\ WorkInHand /\ UpdateInBounds /\ StartsInOrder
      /\ Joined /\ EmptyChain /\ FileThere /\ NeverEmpty /\ TerminatesOnlyAfterRefusal
  BY DEF NodeInv
<1>4. Positions'
  BY <1>1, <1>2, <1>3, WsApart DEF Positions, Threads, Nobody, Readers
<1>5. Values'
  BY <1>1, <1>2, <1>3 DEF Values, Known
<1>6. WorkInHand' /\ Flags' /\ UpdateInBounds'
  BY <1>1, <1>2, <1>3 DEF WorkInHand, Known, Unmined, Flags, UpdateInBounds
<1>7. StartsInOrder' /\ Joined'
  BY <1>1, <1>2, <1>3, WsApart DEF StartsInOrder, Joined, Refused, Readers
<1>8. EmptyChain' /\ FileThere' /\ NeverEmpty' /\ TerminatesOnlyAfterRefusal'
  BY <1>1, <1>2, <1>3, WsApart
    DEF EmptyChain, FileThere, NeverEmpty, TerminatesOnlyAfterRefusal, Refused, Readers
<1> QED
  BY <1>3, <1>4, <1>5, <1>6, <1>7, <1>8 DEF NodeInv

\* ... and is done with it.
LEMMA EndReadInv ==
  ASSUME NEW t \in Readers, NodeInv, Running, EndRead(t)
  PROVE  NodeInv'
<1>1. /\ at' \in [Threads -> Places]
      /\ at'["main"] = at["main"] /\ at'["mine"] = at["mine"]
      /\ at[t] = "read" /\ (at'[t] = "idle" \/ (t \in Ws /\ at'[t] = "check"))
      /\ \A u \in (Ws \cup {"rest"}) \ {t} : at'[u] = at[u]
  BY WsApart DEF EndRead, Readers, NodeInv, Values, Goes, Places, Threads
<1>2. UNCHANGED <<chain, temp, file, done, keep, exit, lock, work, status, count, odd>>
  BY DEF EndRead, flags, past
<1>3. /\ Values /\ Flags /\ Positions /\ WorkInHand /\ UpdateInBounds /\ StartsInOrder
      /\ Joined /\ EmptyChain /\ FileThere /\ NeverEmpty /\ TerminatesOnlyAfterRefusal
  BY DEF NodeInv
<1>4. Positions'
  BY <1>1, <1>2, <1>3, WsApart DEF Positions, Threads, Nobody, Readers
<1>5. Values'
  BY <1>1, <1>2, <1>3 DEF Values, Known
<1>6. WorkInHand' /\ Flags' /\ UpdateInBounds'
  BY <1>1, <1>2, <1>3 DEF WorkInHand, Known, Unmined, Flags, UpdateInBounds
<1>7. StartsInOrder' /\ Joined'
  BY <1>1, <1>2, <1>3, WsApart DEF StartsInOrder, Joined, Refused, Readers
<1>8. EmptyChain' /\ FileThere' /\ NeverEmpty' /\ TerminatesOnlyAfterRefusal'
  BY <1>1, <1>2, <1>3, WsApart
    DEF EmptyChain, FileThere, NeverEmpty, TerminatesOnlyAfterRefusal, Refused, Readers
<1> QED
  BY <1>3, <1>4, <1>5, <1>6, <1>7, <1>8 DEF NodeInv

\* What a crash leaves of the file is a file.
LEMMA CrashInv ==
  ASSUME NodeInv, Crash
  PROVE  NodeInv'
<1>1. /\ status = "up"
      /\ status' = "down"
  BY DEF Crash, NodeInv
<1>2. UNCHANGED <<chain, temp, done, keep, exit, at, lock, work, odd>>
  BY DEF Crash, flags
<1>3. /\ Values /\ Flags /\ Positions /\ WorkInHand /\ UpdateInBounds /\ StartsInOrder
      /\ Joined /\ EmptyChain /\ FileThere /\ NeverEmpty
      /\ TerminatesOnlyAfterRefusal
  BY DEF NodeInv
<1>4. /\ count' \in [Counted -> Nat]
      /\ count'["crashes"] = count["crashes"] + 1
      /\ count'["mined"] = count["mined"]
  BY <1>3, CountUp DEF Crash, Values, Counted
<1>5. file' \in FileOver(Known) /\ (file' = file \/ file'.exists)
  <2>1. PICK t \in Threads : file' \in CrashFiles(t)
    BY DEF Crash
  <2>2. file \in FileOver(Known) /\ chain \in Seq(Known) /\ temp \in Seq(Known)
    BY <1>3 DEF Values, FileOver
  <2>3. \A s \in Seq(Known) : /\ PartlyAppended(file, s) \subseteq FileOver(Known)
                              /\ \A f \in PartlyAppended(file, s) : f = file \/ f.exists
    BY <2>2, FileTypes DEF Known
  <2>4. at[t] = "write" => <<work>> \in Seq(Known)
    <3>1. at[t] = "write" => at["mine"] = "write"
      BY <1>3 DEF Threads, Positions
    <3>2. at[t] = "write" => work \in Known
      BY <1>3, <3>1 DEF WorkInHand
    <3> QED
      BY <3>2
  <2>5. Loaded(file, MaxUpdates + 1 + count["crashes"]) \in Seq(Known)
    BY <1>3, LoadedType DEF Values, Counted, Known, FileOver
  <2>6. CrashFiles(t) \subseteq {file} \cup PartlyAppended(file,
          chain) \cup PartlyAppended(file, temp)
          \cup {f \in PartlyAppended(file, <<work>>) : at[t] = "write"}
          \cup PartlyAppended(file, Loaded(file, MaxUpdates + 1 + count["crashes"]))
    BY DEF CrashFiles
  <2> QED
    <3>1. CASE file' \in PartlyAppended(file, <<work>>) /\ at[t] = "write"
      BY <2>3, <2>4, <3>1
    <3>2. CASE ~(file' \in PartlyAppended(file, <<work>>) /\ at[t] = "write")
      BY <2>1, <2>2, <2>3, <2>5, <2>6, <3>2
    <3> QED
      BY <3>1, <3>2
<1>6. Positions'
  BY <1>1, <1>2, <1>3, <1>4, <1>5, WsApart DEF Positions, Threads, Nobody
<1>7. Values'
  BY <1>1, <1>2, <1>3, <1>4, <1>5 DEF Values, Known, FileOver
<1>8. WorkInHand'
  BY <1>1, <1>2, <1>3, <1>4, <1>5 DEF WorkInHand, Known, Unmined
<1>9. Joined'
  BY <1>1, <1>2, <1>3, <1>4, <1>5 DEF Joined, Refused
<1>10. EmptyChain'
  BY <1>1, <1>2, <1>3, <1>4, <1>5 DEF EmptyChain
<1>11. FileThere'
  <2>1. count'["crashes"] > 0
    BY <1>3, <1>4 DEF Values, Counted
  <2> QED
    BY <1>1, <1>3, <1>5, <2>1 DEF FileThere
<1>12. NeverEmpty'
  BY <1>1, <1>2, <1>3, <1>4, <1>5 DEF NeverEmpty
<1>13. TerminatesOnlyAfterRefusal'
  BY <1>1, <1>2, <1>3, <1>4, <1>5 DEF TerminatesOnlyAfterRefusal, Refused
<1>14. Flags' /\ UpdateInBounds' /\ StartsInOrder'
  BY <1>2, <1>3 DEF Flags, UpdateInBounds, StartsInOrder
<1> QED
  BY <1>6, <1>7, <1>8, <1>9, <1>10, <1>11, <1>12, <1>13, <1>14 DEF NodeInv

\* Every step keeps the invariant.
LEMMA NextInv ==
  ASSUME NodeInv, [Next]_vars
  PROVE  NodeInv'
<1>1. CASE UNCHANGED vars
  <2>1. UNCHANGED <<chain, temp, file, done, keep, exit, at, lock, work, status, count,
          odd>>
    BY <1>1 DEF vars
  <2>2. /\ Values /\ Flags /\ Positions /\ WorkInHand /\ UpdateInBounds /\ StartsInOrder
        /\ Joined /\ EmptyChain /\ FileThere /\ NeverEmpty
        /\ TerminatesOnlyAfterRefusal
    BY DEF NodeInv
  <2>3. Values' /\ Flags' /\ Positions' /\ WorkInHand' /\ UpdateInBounds'
    BY <2>1, <2>2 DEF Values, Known, Flags, Positions, WorkInHand, Unmined, UpdateInBounds
  <2>4. StartsInOrder' /\ Joined' /\ EmptyChain' /\ FileThere'
    BY <2>1, <2>2 DEF StartsInOrder, Joined, Refused, EmptyChain, FileThere
  <2>5. NeverEmpty' /\ TerminatesOnlyAfterRefusal'
    BY <2>1, <2>2 DEF NeverEmpty, TerminatesOnlyAfterRefusal, Refused
  <2> QED
    BY <2>3, <2>4, <2>5 DEF NodeInv
<1>2. CASE Launch \/ Crash
  BY <1>2, LaunchInv, CrashInv
<1>3. CASE Running /\ Initialize
  <2>1. CASE Load \/ LoadTorn
    BY <1>3, <2>1, InitializeInv
  <2>2. CASE Refuse \/ LoadGarbage
    BY <1>3, <2>2, BrokenOffInv DEF Initialize, Refuse, LoadGarbage, MainOnly
  <2> QED
    BY <1>3, <2>1, <2>2 DEF Initialize
<1>4. CASE Running /\ Autostart
  <2>1. CASE AssignMineThread("main", "wait") /\ UNCHANGED done
    <3>1. status' = "up" \/ status' = "terminated"
      BY <1>4, <2>1 DEF AssignMineThread, Running
    <3> QED
      BY <1>4, <2>1, <3>1, AutostartInv, AutostartAgainInv
  <2>2. CASE Goes("main", "wait") /\ done' = TRUE /\ UNCHANGED status
    BY <1>4, <2>2, NoAutostartInv DEF Running
  <2> QED
    BY <1>4, <2>1, <2>2 DEF Autostart
<1>5. CASE Running /\ DestroyMembers
  <2>1. status' = "up" \/ status' = "terminated"
    BY <1>5 DEF DestroyMembers, Running
  <2> QED
    BY <1>5, <2>1, DestroyMembersInv, DestroyThreadInv
<1>6. CASE Running /\ (StartHttp \/ LeaveRun \/ DestructorJoins \/ DestructorStopsHttp
                         \/ DestructorJoinsHttp \/ DestroyPeers)
  BY <1>6, StartHttpInv, LeaveRunInv, DestructorJoinsInv, DestructorStopsHttpInv,
    DestructorJoinsHttpInv, DestroyPeersInv
<1>7. CASE Running /\ AddMined
  BY <1>7, AddMinedInv, MinedRefusedInv
<1>8. CASE Running /\ \E t \in {"mine"} \cup Ws : Sync(t)
  <2>1. PICK t \in {"mine"} \cup Ws : Sync(t)
    BY <1>8
  <2> QED
    BY <1>8, <2>1, SyncNothingInv, SyncBeginInv, SyncAppendInv, SyncReplaceInv,
      SyncResetInv, SyncRewriteInv DEF Sync
<1>9. CASE Running
        /\ (MineLoop \/ Template \/ EnterMineBlock \/ AbortMining \/ WriteMined
              \/ Broadcast \/ Found)
  BY <1>9, MineLoopInv, TemplateInv, EnterMineBlockInv, AbortMiningInv,
    WriteMinedInv, BroadcastInv, FoundInv
<1>10. CASE Running /\ \E t \in Ws : CheckMining(t) \/ ReceiveUpdate(t)
  BY <1>10, CheckMiningInv, ReceiveUpdateInv
<1>11. CASE Running /\ StartMining
  <2>1. status' = "up" \/ status' = "terminated"
    BY <1>11 DEF StartMining, AssignMineThread, Running
  <2> QED
    BY <1>11, <2>1, StartMiningInv, StartMiningAgainInv
<1>12. CASE Running /\ (StopMining \/ JoinMineThread \/ Shutdown)
  BY <1>12, StopMiningInv, JoinMineThreadInv, ShutdownInv
<1>13. CASE Running /\ \E t \in Readers : BeginRead(t) \/ EndRead(t)
  BY <1>13, BeginReadInv, EndReadInv
<1>14. CASE TemplateOfNothing \/ JoinTwice \/ Race
              \/ \E t \in Ws : MessageWithoutChain(t) \/ MessageWithoutLogger(t)
  <2>1. /\ status' = "undefined"
        /\ UNCHANGED <<chain, temp, file, flags, at, lock, work, count, odd>>
    BY <1>14
      DEF TemplateOfNothing, JoinTwice, Race, MessageWithoutChain, MessageWithoutLogger, past
  <2> QED
    BY <2>1, BrokenOffInv
<1>15. ASSUME Running, NEW t \in Ws, WsThread(t) \/ Message(t)
       PROVE  NodeInv'
  BY <1>8, <1>10, <1>13, <1>14, <1>15 DEF WsThread, Message, Readers
<1>16. ASSUME Running, RestThread \/ StartMining \/ StopMining \/ JoinTwice \/ Shutdown
       PROVE  NodeInv'
  BY <1>11, <1>12, <1>13, <1>14, <1>16 DEF RestThread, Readers
<1> QED
  BY <1>1, <1>2, <1>3, <1>4, <1>5, <1>6, <1>7, <1>8, <1>9, <1>13, <1>14, <1>15, <1>16
    DEF Next, MainThread, MineThread

-------------------------------------------------------------------------------
(* The results.                                                              *)

\* The invariant holds in every state.
LEMMA NodeInvariant == Spec => []NodeInv
<1>1. Init => NodeInv
  <2> SUFFICES ASSUME Init
               PROVE  NodeInv
    OBVIOUS
  <2>1. /\ chain = <<>> /\ temp = <<>> /\ file = NoFile
        /\ done = FALSE /\ keep = TRUE /\ exit = FALSE
        /\ \A t \in Threads : at[t] = "off"
        /\ lock = Nobody /\ work = NoBlock /\ status = "down" /\ odd = {}
    BY DEF Init
  <2>2. at \in [Threads -> Places] /\ count \in [Counted -> Nat]
    BY DEF Init, Places
  <2>3. Len(temp) = 0 /\ <<>> \in Seq(Known)
    BY <2>1, EmptySeq
  <2>4. Values /\ Flags
    <3>1. file \in FileOver(Known)
      BY <2>1, <2>3 DEF NoFile, FileOver
    <3>2. \A i \in 1..Len(temp) : temp[i].hash \notin {"mined"} \X Nat
      BY <2>3
    <3>3. Flags
      BY <2>1 DEF Flags
    <3>4. chain \in Seq(Known) /\ temp \in Seq(Known)
      BY <2>1, <2>3
    <3> QED
      BY <2>2, <3>1, <3>2, <3>3, <3>4 DEF Values
  <2>5. Positions
    BY <2>1, WsApart DEF Positions, Threads, Nobody
  <2>6. WorkInHand /\ UpdateInBounds /\ StartsInOrder
    BY <2>1 DEF WorkInHand, UpdateInBounds, StartsInOrder, Threads
  <2>7. Joined /\ EmptyChain /\ FileThere /\ NeverEmpty
          /\ TerminatesOnlyAfterRefusal
    BY <2>1 DEF Joined, EmptyChain, FileThere, NeverEmpty, NoFile,
      TerminatesOnlyAfterRefusal
  <2> QED
    BY <2>4, <2>5, <2>6, <2>7 DEF NodeInv
<1>2. NodeInv /\ [Next]_vars => NodeInv'
  BY NextInv
<1> QED
  BY <1>1, <1>2, PTL DEF Spec

\* For all bounds: the threads, the flags, the chains and the file keep their
\* types, and a thread holds _chainMutex just while it applies an update.
THEOREM NodeTypes == Spec => []TypeOK
<1>1. NodeInv => TypeOK
  <2> SUFFICES ASSUME NodeInv
               PROVE  TypeOK
    OBVIOUS
  <2>1. Values /\ Flags /\ Positions
    BY DEF NodeInv
  <2>2. chain \in Seq(Known) /\ temp \in Seq(Known) /\ file.blocks \in Seq(Known)
          /\ file.exists \in BOOLEAN /\ file.cut \in BOOLEAN
    BY <2>1 DEF Values, FileOver
  <2>3. \A c \in {chain, temp, file.blocks} : \A i \in DOMAIN c : c[i].index \in Nat
    BY <2>2, Indexes DEF Known
  <2>4. {file.exists, file.cut, done, keep, exit} \subseteq BOOLEAN
    BY <2>1, <2>2 DEF Flags
  <2> QED
    BY <2>1, <2>3, <2>4 DEF TypeOK
<1> QED
  BY <1>1, NodeInvariant, PTL

\* For all bounds and threads: from initialize on a node has a chain, whatever it
\* applies, mines or is asked for; the one exception is a file that a crash left
\* empty.
THEOREM AlwaysAChain == Spec => []NeverEmpty
<1>1. NodeInv => NeverEmpty
  BY DEF NodeInv
<1> QED
  BY <1>1, NodeInvariant, PTL

\* For all bounds: std::terminate takes a mining thread that gave up over a
\* refused block, or a request at an odd moment.
THEOREM TerminatesOnlyThen == Spec => []TerminatesOnlyAfterRefusal
<1>1. NodeInv => TerminatesOnlyAfterRefusal
  BY DEF NodeInv
<1> QED
  BY <1>1, NodeInvariant, PTL
===============================================================================
