----------------------------- MODULE StorageProofs -----------------------------
(***************************************************************************)
(* Proofs about the file of MinerNode.  A node whose REST interface nobody *)
(* uses: the file mirrors the chain, and what a crash can cost.  With a    *)
(* stop or a shutdown request two threads work on the chain at once and    *)
(* the file no longer mirrors it (see the run stop_race).  Any node: only  *)
(* such a request brings the two threads together.                         *)
(***************************************************************************)
EXTENDS MinerNodeProofs

-------------------------------------------------------------------------------
(* The inductive invariant.                                                  *)

\* Nobody uses the REST interface.
Unasked == MaxStarts = 0 /\ MaxStops = 0 /\ MaxShutdowns = 0

\* The threads that apply updates.
Workers == {"mine"} \cup Ws

\* Then the chain is the mining thread's, or the WebSocket threads' if the node
\* does not mine.
OneAtWork ==
  /\ ~exit /\ odd = {}
  /\ at["main"] \in {"off", "initialize", "http", "autostart", "wait"}
  /\ at["rest"] \in {"off", "idle", "read"}
  /\ done => at["mine"] = "off" /\ at["main"] = "wait"
  /\ \A t \in Ws : at[t] \in {"sync", "append", "replace", "reset", "rewrite"} => done
  /\ status \in {"up", "down", "invalid_chain", "undefined"}

\* A chain is well-formed, an update is linked and names a block of the chain,
\* and the block in hand names the last one.
ChainLinked == chain # <<>> => WellFormed(chain)
UpdateFits ==
  temp # <<>> =>
    /\ Linked(temp)
    /\ \/ front(temp).index = 0
       \/ /\ front(temp).index \in 1..Len(chain)
          /\ front(temp).sealed
          /\ front(temp).prev = chain[front(temp).index].hash
TemplateFits ==
  /\ at["mine"] \in {"enter", "mining", "add"} =>
       chain # <<>> /\ work.index = Len(chain) /\ work.prev = back(chain).hash
  /\ at["mine"] = "add" => work.sealed

\* What the file holds, by where the thread is that changes the chain.
Stored == file = FileOf(chain) \/ TornFirst(file)
StoredBut(block) ==
  \/ file = FileOf(file.blocks) /\ file.blocks # <<>> /\ chain = Append(file.blocks, block)
  \/ TornFirst(file)
FileStartsAtZero == file.blocks # <<>> => file.blocks[1].index = 0
FileFollows ==
  status = "up" =>
    /\ lock = Nobody /\ at["mine"] # "write" /\ at["main"] # "initialize" => Stored
    /\ \A t \in Workers :
         /\ at[t] = "append" => Stored /\ front(temp).index = Len(chain)
         /\ at[t] = "replace" => Stored
         /\ at[t] = "rewrite" => file = NoFile
    /\ at["mine"] = "write" => StoredBut(work)

\* What a crash left in file g, if it came when the chain was c, the update u, and
\* the threads were doing what they were.
LeftOf(c, u, doing, g) ==
  /\ doing \cap {"write", "append", "reset", "rewrite"} = {}
       => (g = FileOf(c) \/ TornFirst(g)) /\ isValidChain(c)
  /\ "write" \in doing
       => \/ g.exists /\ Grown(SubSeq(c, 1, Len(c) - 1), c, g.blocks)
          \/ TornFirst(g)
  /\ "append" \in doing
       => \/ g.exists /\ Grown(c, AddBlocks(c, u), g.blocks)
          \/ TornFirst(g)

\* It is there until the next process has read it.
Remembers ==
  /\ status = "up" /\ at["main"] # "initialize" => dead = NoCrash
  /\ dead # NoCrash => LeftOf(dead.chain, dead.temp, dead.doing, file)

StorageInv ==
  /\ OneAtWork
  /\ ChainLinked
  /\ UpdateFits
  /\ TemplateFits
  /\ FileStartsAtZero
  /\ FileFollows
  /\ Remembers
-------------------------------------------------------------------------------
(* Files and chains.                                                         *)

\* A file keeps what can be read of it when a record behind that is cut short.
LEMMA CutShortKeeps ==
  ASSUME NEW B, NEW f \in FileOver(B)
  PROVE  CutShort(f).cut /\ CutShort(f).blocks = f.blocks
BY DEF CutShort, FileOver

\* What is added to a file, whole or cut short, is added to what can be read of it, but
\* for a record that was cut short already: nothing behind that is read.
LEMMA Additions ==
  ASSUME NEW H, NEW f \in FileOver(BlockOver(H)), NEW r \in Seq(BlockOver(H))
  PROVE  /\ f.cut => Appended(f, r).blocks = f.blocks /\ Appended(f, r).cut
         /\ ~f.cut => Appended(f, r).blocks = f.blocks \o r
         /\ CutShort(Appended(f, r)).blocks = Appended(f, r).blocks
         /\ CutShort(Appended(f, r)).cut
<1>1. Appended(f, r) \in FileOver(BlockOver(H))
  BY FileTypes
<1>2. /\ f.cut => Appended(f, r).blocks = f.blocks /\ Appended(f, r).cut
      /\ ~f.cut => Appended(f, r).blocks = f.blocks \o r
  BY DEF Appended
<1> QED
  BY <1>1, <1>2, CutShortKeeps

LEMMA TornStays ==
  ASSUME NEW H, NEW f \in FileOver(BlockOver(H)), NEW s \in Seq(BlockOver(H)), f.cut,
         NEW g \in PartlyAppended(f, s) \cup {Appended(f, s)}
  PROVE  g.cut /\ g.blocks = f.blocks
<1>1. \A k \in 0..Len(s) : SubSeq(s, 1, k) \in Seq(BlockOver(H))
  BY Prefix
<1>2. \A k \in 1..Len(s) : k - 1 \in 0..Len(s)
  BY LenProperties
<1>3. ASSUME NEW r \in Seq(BlockOver(H)), g = Appended(f, r) \/ g = CutShort(Appended(f, r))
      PROVE  g.cut /\ g.blocks = f.blocks
  BY <1>3, Additions
<1>4. CASE \E k \in 0..Len(s) : g = Appended(f, SubSeq(s, 1, k))
  BY <1>1, <1>3, <1>4
<1>5. CASE \E k \in 1..Len(s) : g = CutShort(Appended(f, SubSeq(s, 1, k - 1)))
  <2>1. PICK k \in 1..Len(s) : g = CutShort(Appended(f, SubSeq(s, 1, k - 1)))
    BY <1>5
  <2> QED
    BY <1>1, <1>2, <1>3, <2>1
<1>6. CASE g = f \/ g = Appended(f, s)
  BY <1>3, <1>6
<1> QED
  BY <1>4, <1>5, <1>6 DEF PartlyAppended

\* What is in a file that was added to, whole or in part.
LEMMA AddedTo ==
  ASSUME NEW H, NEW f \in FileOver(BlockOver(H)), NEW s \in Seq(BlockOver(H)), ~f.cut,
         NEW g \in PartlyAppended(f, s) \cup {Appended(f, s)}
  PROVE  \E k \in 0..Len(s) : g.blocks = f.blocks \o SubSeq(s, 1, k)
<1> DEFINE B == BlockOver(H)
<1>1. f.blocks \in Seq(B) /\ Len(s) \in Nat
  BY LenProperties DEF FileOver
<1>2. ASSUME NEW k \in 0..Len(s)
      PROVE  LET r == SubSeq(s, 1, k) IN
               /\ Appended(f, r).blocks = f.blocks \o r
               /\ CutShort(Appended(f, r)).blocks = f.blocks \o r
  <2> DEFINE r == SubSeq(s, 1, k)
  <2>1. r \in Seq(B)
    BY Prefix
  <2> HIDE DEF r
  <2>2. /\ Appended(f, r).blocks = f.blocks \o r
        /\ CutShort(Appended(f, r)).blocks = f.blocks \o r
    BY <2>1, Additions
  <2> QED
    BY <2>2 DEF r
<1>3. CASE g = f
  <2>1. SubSeq(s, 1, 0) = <<>>
    BY SubSeqEmpty
  <2>2. f.blocks \o SubSeq(s, 1, 0) = f.blocks
    BY <1>1, <2>1, ConcatEmptySeq
  <2> QED
    BY <1>1, <1>3, <2>2, 0 \in 0..Len(s)
<1>4. CASE g = Appended(f, s)
  <2>1. SubSeq(s, 1, Len(s)) = s /\ Len(s) \in 0..Len(s)
    BY <1>1, SubSeqFull
  <2> QED
    BY <1>2, <1>4, <2>1
<1>5. CASE \E k \in 0..Len(s) : g = Appended(f, SubSeq(s, 1, k))
  BY <1>2, <1>5
<1>6. CASE \E k \in 1..Len(s) : g = CutShort(Appended(f, SubSeq(s, 1, k - 1)))
  <2>1. PICK k \in 1..Len(s) : g = CutShort(Appended(f, SubSeq(s, 1, k - 1)))
    BY <1>6
  <2>2. k - 1 \in 0..Len(s)
    BY <1>1
  <2> QED
    BY <1>2, <2>1, <2>2
<1> QED
  BY <1>3, <1>4, <1>5, <1>6 DEF PartlyAppended

\* The first block of a file that was added to, whole or in part.
LEMMA FirstOfFile ==
  ASSUME NEW H, NEW f \in FileOver(BlockOver(H)), NEW s \in Seq(BlockOver(H)),
         f.blocks # <<>> => f.blocks[1].index = 0,
         f.cut \/ f.blocks # <<>> \/ (s # <<>> => s[1].index = 0),
         NEW g \in PartlyAppended(f, s) \cup {Appended(f, s)}
  PROVE  g.blocks # <<>> => g.blocks[1].index = 0
<1> DEFINE B == BlockOver(H)
<1>1. f.blocks \in Seq(B) /\ Len(s) \in Nat
  BY LenProperties DEF FileOver
<1>2. CASE f.cut
  BY <1>2, TornStays
<1>3. CASE ~f.cut
  <2>1. PICK k \in 0..Len(s) : g.blocks = f.blocks \o SubSeq(s, 1, k)
    BY <1>3, AddedTo
  <2> DEFINE r == SubSeq(s, 1, k)
             a == f.blocks \o r
  <2>2. r \in Seq(B) /\ Len(r) = k /\ \A i \in 1..k : r[i] = s[i]
    BY Prefix
  <2> HIDE DEF r
  <2>3. /\ a \in Seq(B) /\ Len(f.blocks) \in Nat /\ k \in Nat
        /\ \A i \in 1..(Len(f.blocks) + k) :
             a[i] = IF i <= Len(f.blocks) THEN f.blocks[i] ELSE r[i - Len(f.blocks)]
    BY <1>1, <2>2, ConcatProperties, LenProperties
  <2>4. f.blocks = <<>> => a = r
    BY <2>2, ConcatEmptySeq
  <2> HIDE DEF a
  <2>5. CASE f.blocks # <<>>
    <3>1. Len(f.blocks) > 0
      BY <1>1, <2>5, EmptySeq
    <3>2. a[1] = f.blocks[1]
      BY <2>3, <3>1
    <3> QED
      BY <2>1, <2>5, <3>2 DEF a, r
  <2>6. CASE f.blocks = <<>> /\ r # <<>>
    <3>1. k \in Nat \ {0}
      BY <2>2, <2>6, EmptySeq
    <3>2. 1 \in 1..k /\ Len(s) > 0
      BY <1>1, <3>1
    <3>3. s # <<>>
      BY <3>2
    <3>4. r[1].index = 0
      BY <1>3, <2>2, <2>6, <3>2, <3>3
    <3> QED
      BY <2>1, <2>4, <2>6, <3>4 DEF a, r
  <2>7. CASE f.blocks = <<>> /\ r = <<>>
    BY <2>1, <2>4, <2>7 DEF a, r
  <2> QED
    BY <2>5, <2>6, <2>7
<1> QED
  BY <1>2, <1>3

\* The elements of two sequences put together.
LEMMA ConcatAt ==
  ASSUME NEW S, NEW c \in Seq(S), NEW p \in Seq(S), NEW k, Len(p) = k
  PROVE  /\ c \o p \in Seq(S) /\ Len(c \o p) = Len(c) + k
         /\ \A i \in 1..(Len(c) + k) :
              (c \o p)[i] = IF i <= Len(c) THEN c[i] ELSE p[i - Len(c)]
BY ConcatProperties

\* What a crash leaves of blocks that were being added to a file: all it had before
\* and nothing but blocks that were added.
LEMMA PartlyGrown ==
  ASSUME NEW H, NEW f \in FileOver(BlockOver(H)), NEW s \in Seq(BlockOver(H)),
         f.exists, ~f.cut, NEW g \in PartlyAppended(f, s)
  PROVE  g.exists /\ Grown(f.blocks, f.blocks \o s, g.blocks)
<1> DEFINE B == BlockOver(H)
           c == f.blocks
           l == c \o s
<1>1. c \in Seq(B) /\ Len(c) \in Nat /\ Len(s) \in Nat
  BY LenProperties DEF FileOver
<1>2. /\ l \in Seq(B) /\ Len(l) = Len(c) + Len(s)
      /\ \A i \in 1..(Len(c) + Len(s)) : l[i] = IF i <= Len(c) THEN c[i] ELSE s[i - Len(c)]
  BY <1>1, ConcatProperties
<1>3. ASSUME NEW k \in 0..Len(s)
      PROVE  Grown(c, l, c \o SubSeq(s, 1, k))
  <2> DEFINE p == SubSeq(s, 1, k)
             d == c \o p
             n == Len(c) + k
             e == SubSeq(l, 1, n)
  <2>1. p \in Seq(B) /\ Len(p) = k /\ \A i \in 1..k : p[i] = s[i]
    BY Prefix
  <2> HIDE DEF p
  <2>2. /\ d \in Seq(B) /\ Len(d) = Len(c) + k
        /\ \A i \in 1..(Len(c) + k) : d[i] = IF i <= Len(c) THEN c[i] ELSE p[i - Len(c)]
    BY <1>1, <2>1, ConcatAt
  <2>3. k \in Nat /\ n \in 0..Len(l) /\ n \in Len(c)..Len(l)
    BY <1>1, <1>2
  <2> HIDE DEF l
  <2>4. e \in Seq(B) /\ Len(e) = n /\ \A i \in 1..n : e[i] = l[i]
    BY <1>2, <2>3, Prefix
  <2> HIDE DEF e, d
  <2>5. ASSUME NEW i \in 1..n PROVE d[i] = e[i]
    <3>1. i \in 1..(Len(c) + k) /\ i \in 1..(Len(c) + Len(s))
      BY <1>1, <2>3
    <3>2. CASE i <= Len(c)
      BY <1>2, <2>2, <2>4, <3>1, <3>2
    <3>3. CASE ~(i <= Len(c))
      <4>1. i - Len(c) \in 1..k
        BY <1>1, <2>3, <3>3
      <4> QED
        BY <1>2, <2>1, <2>2, <2>4, <3>1, <3>3, <4>1
    <3> QED
      BY <3>2, <3>3
  <2>6. Len(d) = Len(e) /\ \A i \in 1..Len(d) : d[i] = e[i]
    BY <2>2, <2>4, <2>5
  <2>7. d = e
    BY <2>2, <2>4, <2>6, SeqEqual
  <2> QED
    BY <2>3, <2>7 DEF Grown, d, e, p
<1>4. PICK k \in 0..Len(s) : g.blocks = c \o SubSeq(s, 1, k)
  BY AddedTo
<1>5. g.exists
  BY FileTypes
<1> QED
  BY <1>3, <1>4, <1>5

\* An update that fits right behind the chain is taken whole.
LEMMA AppendFits ==
  ASSUME NEW H, NEW c \in Seq(BlockOver(H)), NEW t \in Seq(BlockOver(H)),
         WellFormed(c), t # <<>>, Linked(t), front(t).index = Len(c), front(t).sealed,
         front(t).prev = c[Len(c)].hash
  PROVE  /\ AddBlocks(c, t) = c \o t
         /\ WellFormed(AddBlocks(c, t))
<1>1. Len(c) \in Nat \ {0}
  BY BackOfChain
<1>2. AddBlocks(c, t) = c \o t
  BY AddBlocksAll DEF front, back
<1>3. SubSeq(c, 1, Len(c)) = c
  BY SubSeqFull
<1>4. WellFormed(SubSeq(c, 1, Len(c)) \o t)
  <2>1. Len(c) \in 1..Len(c)
    BY <1>1
  <2> QED
    BY <2>1, SpliceWellFormed DEF front
<1> QED
  BY <1>2, <1>3, <1>4

\* An update that fits further down replaces what is above it.
LEMMA ReplaceFits ==
  ASSUME NEW H, NEW c \in Seq(BlockOver(H)), NEW t \in Seq(BlockOver(H)),
         WellFormed(c), t # <<>>, Linked(t), NEW k \in 1..Len(c), front(t).index = k,
         front(t).sealed, front(t).prev = c[k].hash
  PROVE  LET d == AddBlocks(resize(c, k), t) IN
           /\ WellFormed(d)
           /\ k \in 1..Len(d)
           /\ d[k] = c[k]
<1> DEFINE p == SubSeq(c, 1, k)
           d == AddBlocks(p, t)
<1>1. /\ p \in Seq(BlockOver(H))
      /\ back(p) = c[k]
      /\ WellFormed(p \o t)
      /\ Len(p \o t) = k + Len(t)
      /\ \A i \in 1..(k + Len(t)) : (p \o t)[i] = IF i <= k THEN c[i] ELSE t[i - k]
  BY SpliceWellFormed DEF front
<1> HIDE DEF p
<1>2. d = p \o t
  BY <1>1, AddBlocksAll, SMTT(30) DEF front
<1>3. Len(c) \in Nat /\ k \in Nat \ {0} /\ Len(t) \in Nat
  BY LenProperties
<1>4. k \in 1..(k + Len(t)) /\ k <= k
  BY <1>3
<1> HIDE DEF d
<1>5. WellFormed(d) /\ k \in 1..Len(d) /\ d[k] = c[k]
  BY <1>1, <1>2, <1>4, ZenonT(40)
<1> QED
  BY <1>5 DEF d, p, resize

\* A chain and what was added to it.
LEMMA AddedPart ==
  ASSUME NEW H, NEW c \in Seq(BlockOver(H)), NEW t \in Seq(BlockOver(H))
  PROVE  LET d == AddBlocks(c, t) IN c \o SubSeq(d, Len(c) + 1, Len(d)) = d
<1> DEFINE d == AddBlocks(c, t)
           s == SubSeq(d, Len(c) + 1, Len(d))
<1>1. /\ d \in Seq(BlockOver(H)) /\ Len(d) >= Len(c)
      /\ \A i \in 1..Len(c) : d[i] = c[i]
  BY AddBlocksAdds
<1> HIDE DEF d
<1>2. Len(c) \in Nat /\ Len(d) \in Nat
  BY <1>1, LenProperties
<1>3. Len(c) \in 0..Len(d) /\ 1 \in 1..(Len(d) + 1) /\ Len(c) \in (1 - 1)..Len(d)
        /\ Len(d) \in Len(c)..Len(d)
  BY <1>1, <1>2
<1>4. SubSeq(d, 1, Len(c)) \o SubSeq(d, Len(c) + 1, Len(d)) = SubSeq(d, 1, Len(d))
  BY <1>1, <1>3, ConcatAdjacentSubSeq
<1>5. SubSeq(d, 1, Len(d)) = d
  BY <1>1, SubSeqFull
<1>6. SubSeq(d, 1, Len(c)) = c
  <2> DEFINE p == SubSeq(d, 1, Len(c))
  <2>1. p \in Seq(BlockOver(H)) /\ Len(p) = Len(c) /\ \A i \in 1..Len(c) : p[i] = d[i]
    BY <1>1, <1>3, Prefix
  <2> HIDE DEF p
  <2>2. p = c
    BY <1>1, <2>1, SeqEqual
  <2> QED
    BY <2>2 DEF p
<1> QED
  BY <1>4, <1>5, <1>6 DEF d

\* An update is linked, and its first block is a genesis block or names a block of
\* the chain.
LEMMA UpdateLinked ==
  ASSUME NEW c, NEW k \in Nat, NEW start \in Nat, NEW len \in Nat, len > 0
  PROVE  LET u == Update(k, c, start, len) IN
           /\ Linked(u)
           /\ start # 0 => front(u).sealed /\ front(u).prev = c[start].hash
<1> DEFINE u == Update(k, c, start, len)
           Prev(i) == IF i > 1 THEN IF start = 0 /\ i = 2 THEN Genesis(k).hash
                                    ELSE <<"peer", k, start + i - 2>>
                      ELSE c[start].hash
<1>0. 1 \in 1..len
  OBVIOUS
<1>1. /\ DOMAIN u = 1..len
      /\ \A i \in 1..len : u[i] = IF start = 0 /\ i = 1 THEN Genesis(k)
                                  ELSE PeerBlock(k, start + i - 1, Prev(i))
  BY DEF Update
<1>2. Len(u) = len
  <2>1. u \in Seq({u[i] : i \in 1..len})
    <3>1. u \in [1..len -> {u[i] : i \in 1..len}]
      BY DEF Update
    <3> QED
      BY <3>1, SeqDef
  <2> QED
    BY <1>1, <2>1, LenProperties
<1>3. Genesis(k).index = 0
  BY DEF Genesis, GenesisBlock
<1>4. ASSUME NEW j, NEW h
      PROVE  /\ PeerBlock(k, j, h).index = j
             /\ PeerBlock(k, j, h).hash = <<"peer", k, j>>
             /\ PeerBlock(k, j, h).prev = h
             /\ PeerBlock(k, j, h).sealed
  BY DEF PeerBlock
<1> HIDE DEF u, Prev
<1>5. ASSUME NEW i \in 1..len, ~(start = 0 /\ i = 1)
      PROVE  /\ u[i].index = start + i - 1
             /\ u[i].hash = <<"peer", k, start + i - 1>>
             /\ u[i].prev = Prev(i)
             /\ u[i].sealed
  BY <1>1, <1>4, <1>5
<1>6. start = 0 => u[1] = Genesis(k)
  BY <1>0, <1>1
<1>7. u[1].index = start
  <2>1. CASE start = 0
    BY <1>3, <1>6, <2>1
  <2>2. CASE start # 0
    <3>1. u[1].index = start + 1 - 1
      BY <1>0, <1>5, <2>2
    <3> QED
      BY <3>1
  <2> QED
    BY <2>1, <2>2
<1>8. ASSUME NEW i \in 1..len
      PROVE  u[i].index = u[1].index + i - 1
  <2>1. CASE start = 0 /\ i = 1
    BY <1>7, <2>1
  <2>2. CASE ~(start = 0 /\ i = 1)
    <3>1. u[i].index = start + i - 1
      BY <1>5, <2>2
    <3> QED
      BY <1>7, <3>1
  <2> QED
    BY <2>1, <2>2
<1>9. ASSUME NEW i \in 2..len
      PROVE  u[i].prev = u[i-1].hash /\ u[i].sealed
  <2>1. i \in 1..len /\ i - 1 \in 1..len /\ i > 1 /\ start + (i - 1) - 1 = start + i - 2
    OBVIOUS
  <2>2. CASE start = 0 /\ i = 2
    <3>1. u[i].prev = Prev(i) /\ u[i].sealed
      BY <1>5, <2>1
    <3>2. Prev(i) = Genesis(k).hash
      BY <2>1, <2>2 DEF Prev
    <3>3. u[i-1] = Genesis(k)
      BY <1>6, <2>2
    <3> QED
      BY <3>1, <3>2, <3>3
  <2>3. CASE ~(start = 0 /\ i = 2)
    <3>1. u[i].prev = Prev(i) /\ u[i].sealed
      BY <1>5, <2>1
    <3>2. Prev(i) = <<"peer", k, start + i - 2>>
      BY <2>1, <2>3 DEF Prev
    <3>3. ~(start = 0 /\ i - 1 = 1)
      BY <2>1, <2>3
    <3>4. u[i-1].hash = <<"peer", k, start + (i - 1) - 1>>
      BY <1>5, <2>1, <3>3
    <3> QED
      BY <2>1, <3>1, <3>2, <3>4
  <2> QED
    BY <2>2, <2>3
<1>10. ASSUME start # 0
       PROVE  front(u).sealed /\ front(u).prev = c[start].hash
  <2>1. u[1].sealed /\ u[1].prev = Prev(1)
    BY <1>0, <1>5, <1>10
  <2>2. Prev(1) = c[start].hash
    BY DEF Prev
  <2> QED
    BY <2>1, <2>2 DEF front
<1>11. Linked(u)
  BY <1>2, <1>8, <1>9 DEF Linked
<1> QED
  BY <1>10, <1>11 DEF u

\* While one thread applies an update nobody else works on the chain.
LEMMA Syncing ==
  ASSUME NodeInv, StorageInv, status = "up", NEW t \in Workers,
         at[t] \in {"sync", "append", "replace", "reset", "rewrite"}
  PROVE  /\ chain # <<>> /\ chain \in Seq(Known) /\ temp \in Seq(Known) /\ WellFormed(chain)
         /\ at["main"] # "initialize" /\ dead = NoCrash
         /\ at["mine"] \notin {"enter", "mining", "add", "write"}
         /\ t = "mine" =>
              \A u \in Ws : at[u] \notin {"sync", "append", "replace", "reset", "rewrite"}
         /\ t \in Ws => at["mine"] = "off" /\ done
         /\ at[t] # "sync" =>
              /\ lock = t /\ lock # Nobody /\ temp # <<>>
              /\ \A u \in Threads \ {t} : at[u] \notin {"append", "replace", "reset", "rewrite"}
<1>1. /\ OneAtWork /\ ChainLinked /\ Remembers
      /\ Values /\ Positions /\ UpdateInBounds /\ StartsInOrder /\ EmptyChain
  BY DEF StorageInv, NodeInv
<1>2. chain # <<>>
  BY <1>1 DEF EmptyChain, Workers
<1>3. at["main"] # "initialize"
  BY <1>1, <1>2 DEF StartsInOrder
<1>4. dead = NoCrash
  BY <1>1, <1>3 DEF Remembers
<1>5. /\ at["mine"] \notin {"enter", "mining", "add", "write"}
      /\ t = "mine" =>
           \A u \in Ws : at[u] \notin {"sync", "append", "replace", "reset", "rewrite"}
      /\ t \in Ws => at["mine"] = "off" /\ done
  BY <1>1 DEF OneAtWork, Workers
<1>6. t \in Threads /\ t # Nobody
  BY WsApart DEF Workers, Threads, Nobody
<1>7. ASSUME at[t] # "sync"
      PROVE  /\ lock = t /\ lock # Nobody
             /\ \A u \in Threads \ {t} : at[u] \notin {"append", "replace", "reset", "rewrite"}
  <2>1. lock = t
    BY <1>1, <1>6, <1>7 DEF Positions
  <2> QED
    BY <1>1, <1>6, <2>1 DEF Positions
<1>8. at[t] # "sync" => temp # <<>>
  BY <1>1, <1>7 DEF UpdateInBounds
<1> QED
  BY <1>1, <1>2, <1>3, <1>4, <1>5, <1>7, <1>8 DEF ChainLinked, Values

\* A thread that is not at a file operation leaves the file as it is when it crashes.
LEMMA LeavesFile ==
  ASSUME NEW t, at[t] \notin {"initialize", "write", "append", "rewrite"}
  PROVE  CrashFiles(t) = {file}
BY DEF CrashFiles

\* What a crash leaves: a file that starts with a genesis block; the file as it was,
\* if none was being written; and while blocks were being added to it, what it had
\* before and some of those blocks.
Left(g) == LeftOf(chain, temp, {at[u] : u \in Threads}, g)

LEMMA CrashLeaves ==
  ASSUME NodeInv, StorageInv, status = "up", NEW t \in Threads, NEW g \in CrashFiles(t)
  PROVE  /\ g.blocks # <<>> => g.blocks[1].index = 0
         /\ at["main"] = "initialize" /\ file.exists => g = file
         /\ at["main"] # "initialize" => Left(g)
<1> DEFINE doing == {at[u] : u \in Threads}
           B == BlockOver(Hashes(count["mined"]))
<1>1. /\ OneAtWork /\ ChainLinked /\ UpdateFits /\ FileStartsAtZero /\ FileFollows
      /\ Values /\ Positions /\ WorkInHand /\ UpdateInBounds /\ StartsInOrder /\ EmptyChain
      /\ FileThere
  BY DEF StorageInv, NodeInv
<1>2. /\ file \in FileOver(B) /\ file.blocks \in Seq(B) /\ chain \in Seq(B) /\ temp \in Seq(B)
      /\ file.blocks # <<>> => file.blocks[1].index = 0
      /\ file.cut => file.exists
  BY <1>1 DEF Values, FileOver, Known, FileStartsAtZero, FileThere
<1>3. \A a : a \in doing <=> \E u \in Threads : at[u] = a
  OBVIOUS
<1>4. /\ \A s : file \in PartlyAppended(file, s)
      /\ {"main", "mine", "rest"} \subseteq Threads
      /\ \A u \in Threads : u \in {"main", "mine", "rest"} \/ u \in Ws
  BY DEF Threads, PartlyAppended
<1> HIDE DEF doing, B
<1>5. /\ at["main"] \notin {"write", "append", "reset", "rewrite"}
      /\ at["rest"] \notin {"initialize", "write", "append", "reset", "rewrite"}
      /\ at["mine"] # "initialize"
      /\ \A u \in Ws : at[u] \notin {"initialize", "write"}
  BY <1>1 DEF Positions
<1>6. CASE at["main"] = "initialize"
  <2> DEFINE s == Loaded(file, MaxUpdates + 1 + count["crashes"])
             b == Genesis(MaxUpdates + 1 + count["crashes"])
  <2>1. at["mine"] = "off" /\ \A u \in Ws : at[u] \in {"off", "idle"}
    BY <1>1, <1>6 DEF StartsInOrder, EmptyChain
  <2>2. t # "main" => g = file
    BY <1>4, <1>5, <2>1, LeavesFile
  <2>3. t = "main" => g = file \/ (~file.exists /\ g \in PartlyAppended(file, s))
    BY <1>6 DEF CrashFiles
  <2>4. s \in Seq(B)
    BY <1>1, LoadedType DEF Values, Counted, Known, FileOver, B
  <2>5. b.index = 0
    BY DEF Genesis, GenesisBlock
  <2>6. ~file.exists => s = <<b>>
    BY DEF Loaded
  <2> HIDE DEF s, b
  <2>7. ~file.exists => s[1].index = 0
    BY <2>5, <2>6
  <2>8. g.blocks # <<>> => g.blocks[1].index = 0
    BY <1>2, <2>2, <2>3, <2>4, <2>7, FirstOfFile DEF B
  <2> QED
    BY <1>6, <2>2, <2>3, <2>8
<1>7. CASE at["mine"] = "write"
  <2>1. /\ at["main"] # "initialize"
        /\ \A u \in Ws : at[u] \notin {"append", "reset", "rewrite"}
    BY <1>1, <1>7 DEF StartsInOrder, OneAtWork
  <2>2. t # "mine" => g = file
    BY <1>4, <1>5, <2>1, LeavesFile
  <2>3. g \in PartlyAppended(file, <<work>>)
    BY <1>4, <1>7, <2>2 DEF CrashFiles
  <2>4. StoredBut(work) /\ work \in B /\ <<work>> \in Seq(B)
    BY <1>1, <1>7 DEF WorkInHand, FileFollows, Known, B
  <2>5. ~TornFirst(file) =>
          /\ file.exists /\ ~file.cut /\ file.blocks # <<>>
          /\ chain = Append(file.blocks, work)
    BY <2>4 DEF StoredBut, FileOf
  <2>6. ASSUME ~TornFirst(file)
        PROVE  g.exists /\ Grown(SubSeq(chain, 1, Len(chain) - 1), chain, g.blocks)
    <3>1. chain = file.blocks \o <<work>>
      BY <1>2, <2>4, <2>5, <2>6, AppendIsConcat
    <3>2. g.exists /\ Grown(file.blocks, chain, g.blocks)
      BY <1>2, <2>3, <2>4, <2>5, <2>6, <3>1, PartlyGrown DEF B
    <3>3. Len(file.blocks) \in Nat /\ Len(chain) = Len(file.blocks) + 1 /\ chain \in Seq(B)
            /\ \A i \in 1..Len(file.blocks) : chain[i] = file.blocks[i]
      BY <1>2, <2>4, <2>5, <2>6, AppendProperties, LenProperties
    <3>4. Len(chain) - 1 = Len(file.blocks) /\ Len(file.blocks) \in 0..Len(chain)
      BY <3>3
    <3> DEFINE p == SubSeq(chain, 1, Len(file.blocks))
    <3>5. p \in Seq(B) /\ Len(p) = Len(file.blocks)
            /\ \A i \in 1..Len(file.blocks) : p[i] = chain[i]
      BY <3>3, <3>4, Prefix
    <3> HIDE DEF p
    <3>6. p = file.blocks
      BY <1>2, <3>3, <3>5, SeqEqual
    <3> QED
      BY <3>2, <3>4, <3>6 DEF p
  <2>7. TornFirst(file) => TornFirst(g)
    BY <1>2, <2>3, <2>4, TornStays DEF TornFirst, B
  <2>8. "write" \in doing /\ "append" \notin doing
    BY <1>3, <1>4, <1>5, <1>7, <2>1
  <2>9. Left(g)
    BY <2>6, <2>7, <2>8 DEF Left, LeftOf, doing
  <2>10. file.cut \/ file.blocks # <<>>
    BY <2>5 DEF TornFirst
  <2>11. g.blocks # <<>> => g.blocks[1].index = 0
    BY <1>2, <2>3, <2>4, <2>10, FirstOfFile DEF B
  <2> QED
    BY <2>1, <2>9, <2>11
<1>8. CASE \E w \in Workers : at[w] = "append"
  <2>1. PICK w \in Workers : at[w] = "append"
    BY <1>8
  <2>2. /\ chain # <<>> /\ WellFormed(chain) /\ at["main"] # "initialize" /\ temp # <<>>
        /\ at["mine"] # "write"
        /\ \A u \in Threads \ {w} : at[u] \notin {"append", "replace", "reset", "rewrite"}
    BY <2>1, Syncing
  <2>3. Stored /\ front(temp).index = Len(chain) /\ w \in Threads
    BY <1>1, <2>1 DEF FileFollows, Workers, Threads
  <2>4. g \in PartlyAppended(file, temp)
    <3>1. t # w => g = file
      BY <1>4, <1>5, <2>2, LeavesFile
    <3>2. t = w => g \in PartlyAppended(file, temp)
      BY <2>1 DEF CrashFiles
    <3> QED
      BY <1>4, <3>1, <3>2
  <2>5. AddBlocks(chain, temp) = chain \o temp
    <3>1. Len(chain) \in Nat \ {0}
      BY <1>2, <2>2, EmptySeq, LenProperties
    <3>2. Linked(temp) /\ front(temp).sealed /\ front(temp).prev = chain[Len(chain)].hash
      BY <1>1, <2>2, <2>3, <3>1 DEF UpdateFits
    <3> QED
      BY <1>2, <2>2, <2>3, <3>2, AppendFits DEF B
  <2>6. ~TornFirst(file) => g.exists /\ Grown(chain, AddBlocks(chain, temp), g.blocks)
    <3>1. ~TornFirst(file) => file.exists /\ ~file.cut /\ file.blocks = chain
      BY <2>3 DEF Stored, FileOf
    <3> QED
      BY <1>2, <2>4, <2>5, <3>1, PartlyGrown DEF B
  <2>7. TornFirst(file) => TornFirst(g)
    BY <1>2, <2>4, TornStays DEF TornFirst, B
  <2>8. "append" \in doing /\ "write" \notin doing
    BY <1>3, <1>4, <1>5, <2>1, <2>2, <2>3
  <2>9. Left(g)
    BY <2>6, <2>7, <2>8 DEF Left, LeftOf, doing
  <2>10. file.cut \/ file.blocks # <<>>
    BY <2>2, <2>3 DEF Stored, FileOf, TornFirst
  <2>11. g.blocks # <<>> => g.blocks[1].index = 0
    BY <1>2, <2>4, <2>10, FirstOfFile DEF B
  <2> QED
    BY <2>2, <2>9, <2>11
<1>9. CASE \E w \in Workers : at[w] = "rewrite"
  <2>1. PICK w \in Workers : at[w] = "rewrite"
    BY <1>9
  <2>2. /\ chain # <<>> /\ WellFormed(chain) /\ at["main"] # "initialize"
        /\ at["mine"] # "write"
        /\ \A u \in Threads \ {w} : at[u] \notin {"append", "replace", "reset", "rewrite"}
    BY <2>1, Syncing
  <2>3. w \in Threads
    BY DEF Workers, Threads
  <2>4. g \in PartlyAppended(file, chain)
    <3>1. t # w => g = file
      BY <1>4, <1>5, <2>2, LeavesFile
    <3>2. t = w => g \in PartlyAppended(file, chain)
      BY <2>1 DEF CrashFiles
    <3> QED
      BY <1>4, <3>1, <3>2
  <2>5. "rewrite" \in doing /\ "append" \notin doing /\ "write" \notin doing
    BY <1>3, <1>4, <1>5, <2>1, <2>2, <2>3
  <2>6. Left(g)
    BY <2>5 DEF Left, LeftOf, doing
  <2>7. g.blocks # <<>> => g.blocks[1].index = 0
    BY <1>2, <2>2, <2>4, FirstOfFile DEF B, WellFormed
  <2> QED
    BY <2>2, <2>6, <2>7
<1>10. CASE /\ at["main"] # "initialize" /\ at["mine"] # "write"
            /\ \A w \in Workers : at[w] \notin {"append", "rewrite"}
  <2>1. \A u \in Threads : at[u] \notin {"initialize", "write", "append", "rewrite"}
    BY <1>4, <1>5, <1>10 DEF Workers
  <2>2. g = file
    BY <2>1, LeavesFile
  <2>3. "write" \notin doing /\ "append" \notin doing
    BY <1>3, <2>1
  <2>4. ASSUME "reset" \notin doing
        PROVE  Stored
    <3>1. CASE \E w \in Workers : at[w] = "replace"
      BY <1>1, <3>1 DEF FileFollows
    <3>2. CASE \A w \in Workers : at[w] # "replace"
      <4>1. \A u \in Ws \cup {"mine"} : u \in Threads
        BY DEF Threads
      <4>2. \A u \in Ws \cup {"mine"} : lock # u
        BY <1>1, <1>3, <2>1, <2>4, <3>2, <4>1 DEF Positions, Workers
      <4>3. lock = Nobody
        BY <1>1, <4>2 DEF Positions
      <4> QED
        BY <1>1, <1>10, <4>3 DEF FileFollows
    <3> QED
      BY <3>1, <3>2
  <2>5. isValidChain(chain)
    <3>1. CASE chain = <<>>
      BY <3>1 DEF isValidChain
    <3>2. CASE chain # <<>>
      BY <1>1, <1>2, <3>2, ValidMeansLinked DEF ChainLinked, WellFormed, B
    <3> QED
      BY <3>1, <3>2
  <2>6. Left(g)
    BY <2>2, <2>3, <2>4, <2>5 DEF Left, LeftOf, doing, Stored
  <2> QED
    BY <1>2, <1>10, <2>2, <2>6
<1> QED
  BY <1>6, <1>7, <1>8, <1>9, <1>10

-------------------------------------------------------------------------------
(* The steps.                                                                *)

\* A process starts with nothing but the file.
LEMMA LaunchStorage ==
  ASSUME NodeInv, StorageInv, Launch
  PROVE  StorageInv'
<1>1. /\ status = "down"
      /\ at'["main"] = "initialize"
      /\ at'["mine"] = "off"
      /\ \A u \in Ws : at'[u] = "idle"
      /\ at'["rest"] = "off"
      /\ chain' = <<>>
      /\ temp' = <<>>
      /\ done' = FALSE
      /\ keep' = TRUE
      /\ exit' = FALSE
      /\ lock' = Nobody
      /\ work' = NoBlock
      /\ status' = "up"
      /\ odd' = {}
  BY WsApart DEF Launch, NodeInv, Values, Goes, Places, Threads
<1>2. UNCHANGED <<file, count, dead>>
  BY DEF Launch
<1>3. /\ OneAtWork /\ ChainLinked /\ UpdateFits /\ TemplateFits
      /\ FileStartsAtZero /\ FileFollows /\ Remembers
  BY DEF StorageInv
<1>4. OneAtWork'
  BY <1>1, <1>2, <1>3 DEF OneAtWork
<1>5. ChainLinked'
  BY <1>1, <1>2, <1>3 DEF ChainLinked
<1>6. UpdateFits'
  BY <1>1, <1>2, <1>3 DEF UpdateFits
<1>7. TemplateFits'
  BY <1>1, <1>2, <1>3 DEF TemplateFits
<1>8. FileFollows'
  BY <1>1, <1>2, <1>3 DEF FileFollows, Stored, StoredBut, TornFirst, Workers
<1>9. Remembers'
  BY <1>1, <1>2, <1>3 DEF Remembers
<1>10. FileStartsAtZero'
  BY <1>2, <1>3 DEF FileStartsAtZero
<1> QED
  BY <1>4, <1>5, <1>6, <1>7, <1>8, <1>9, <1>10 DEF StorageInv

\* The REST server starts.
LEMMA StartHttpStorage ==
  ASSUME NodeInv, StorageInv, Running, StartHttp
  PROVE  StorageInv'
<1>1. /\ status = "up"
      /\ at["main"] = "http"
      /\ at'["main"] = "autostart"
      /\ at'["mine"] = at["mine"]
      /\ \A u \in Ws : at'[u] = at[u]
      /\ at'["rest"] = "idle"
  BY WsApart DEF StartHttp, Running, NodeInv, Values, Goes, Places, Threads
<1>2. UNCHANGED <<chain, temp, file, done, keep, exit, lock, work, status, count, dead, odd>>
  BY DEF StartHttp, MainOnly, flags, past
<1>3. /\ OneAtWork /\ ChainLinked /\ UpdateFits /\ TemplateFits
      /\ FileStartsAtZero /\ FileFollows /\ Remembers
  BY DEF StorageInv
<1>4. OneAtWork'
  BY <1>1, <1>2, <1>3 DEF OneAtWork
<1>5. TemplateFits'
  BY <1>1, <1>2, <1>3 DEF TemplateFits
<1>6. FileFollows'
  BY <1>1, <1>2, <1>3 DEF FileFollows, Stored, StoredBut, TornFirst, Workers
<1>7. Remembers'
  BY <1>1, <1>2, <1>3 DEF Remembers
<1>8. ChainLinked' /\ UpdateFits' /\ FileStartsAtZero'
  BY <1>2, <1>3 DEF ChainLinked, UpdateFits, FileStartsAtZero
<1> QED
  BY <1>4, <1>5, <1>6, <1>7, <1>8 DEF StorageInv

\* The mining thread looks at the flags.
LEMMA MineLoopStorage ==
  ASSUME NodeInv, StorageInv, Running, MineLoop
  PROVE  StorageInv'
<1>1. /\ status = "up"
      /\ at["mine"] = "loop"
      /\ at'["main"] = at["main"]
      /\ at'["mine"] = IF done \/ exit THEN "exited" ELSE "template"
      /\ \A u \in Ws : at'[u] = at[u]
      /\ at'["rest"] = at["rest"]
  BY WsApart DEF MineLoop, Running, NodeInv, Values, Goes, Places, Threads
<1>2. UNCHANGED <<chain, temp, file, done, keep, exit, lock, work, status, count, dead, odd>>
  BY DEF MineLoop, flags, past
<1>3. /\ OneAtWork /\ ChainLinked /\ UpdateFits /\ TemplateFits
      /\ FileStartsAtZero /\ FileFollows /\ Remembers
  BY DEF StorageInv
<1>4. OneAtWork'
  BY <1>1, <1>2, <1>3 DEF OneAtWork
<1>5. TemplateFits'
  BY <1>1, <1>2, <1>3 DEF TemplateFits
<1>6. FileFollows'
  BY <1>1, <1>2, <1>3 DEF FileFollows, Stored, StoredBut, TornFirst, Workers
<1>7. Remembers'
  BY <1>1, <1>2, <1>3 DEF Remembers
<1>8. ChainLinked' /\ UpdateFits' /\ FileStartsAtZero'
  BY <1>2, <1>3 DEF ChainLinked, UpdateFits, FileStartsAtZero
<1> QED
  BY <1>4, <1>5, <1>6, <1>7, <1>8 DEF StorageInv

\* A template is made of the last block.
LEMMA TemplateStorage ==
  ASSUME NodeInv, StorageInv, Running, Template
  PROVE  StorageInv'
<1>1. /\ status = "up"
      /\ at["mine"] = "template"
      /\ lock = Nobody
      /\ chain # <<>>
      /\ at'["main"] = at["main"]
      /\ at'["mine"] = "enter"
      /\ \A u \in Ws : at'[u] = at[u]
      /\ at'["rest"] = at["rest"]
      /\ work' = UnminedBlock(chain, 1)
  BY WsApart DEF Template, Running, NodeInv, Values, Goes, Places, Threads
<1>2. UNCHANGED <<chain, temp, file, done, keep, exit, lock, status, count, dead, odd>>
  BY DEF Template, flags, past
<1>3. /\ OneAtWork /\ ChainLinked /\ UpdateFits /\ TemplateFits
      /\ FileStartsAtZero /\ FileFollows /\ Remembers
  BY DEF StorageInv
<1>4. OneAtWork'
  BY <1>1, <1>2, <1>3 DEF OneAtWork
<1>5. TemplateFits'
  BY <1>1, <1>2, <1>3 DEF TemplateFits, UnminedBlock
<1>6. FileFollows'
  BY <1>1, <1>2, <1>3 DEF FileFollows, Stored, StoredBut, TornFirst, Workers
<1>7. Remembers'
  BY <1>1, <1>2, <1>3 DEF Remembers
<1>8. ChainLinked' /\ UpdateFits' /\ FileStartsAtZero'
  BY <1>2, <1>3 DEF ChainLinked, UpdateFits, FileStartsAtZero
<1> QED
  BY <1>4, <1>5, <1>6, <1>7, <1>8 DEF StorageInv

\* mineBlock begins.
LEMMA EnterMineBlockStorage ==
  ASSUME NodeInv, StorageInv, Running, EnterMineBlock
  PROVE  StorageInv'
<1>1. /\ status = "up"
      /\ at["mine"] = "enter"
      /\ at'["main"] = at["main"]
      /\ at'["mine"] = "mining"
      /\ \A u \in Ws : at'[u] = at[u]
      /\ at'["rest"] = at["rest"]
      /\ keep' = TRUE
  BY WsApart DEF EnterMineBlock, Running, NodeInv, Values, Goes, Places, Threads
<1>2. UNCHANGED <<chain, temp, file, done, exit, lock, work, status, count, dead, odd>>
  BY DEF EnterMineBlock, past
<1>3. /\ OneAtWork /\ ChainLinked /\ UpdateFits /\ TemplateFits
      /\ FileStartsAtZero /\ FileFollows /\ Remembers
  BY DEF StorageInv
<1>4. OneAtWork'
  BY <1>1, <1>2, <1>3 DEF OneAtWork
<1>5. TemplateFits'
  BY <1>1, <1>2, <1>3 DEF TemplateFits
<1>6. FileFollows'
  BY <1>1, <1>2, <1>3 DEF FileFollows, Stored, StoredBut, TornFirst, Workers
<1>7. Remembers'
  BY <1>1, <1>2, <1>3 DEF Remembers
<1>8. ChainLinked' /\ UpdateFits' /\ FileStartsAtZero'
  BY <1>2, <1>3 DEF ChainLinked, UpdateFits, FileStartsAtZero
<1> QED
  BY <1>4, <1>5, <1>6, <1>7, <1>8 DEF StorageInv

\* The block found has a hash that no block had before.
LEMMA FoundStorage ==
  ASSUME NodeInv, StorageInv, Running, Found
  PROVE  StorageInv'
<1>1. /\ status = "up"
      /\ at["mine"] = "mining"
      /\ at'["main"] = at["main"]
      /\ at'["mine"] = "add"
      /\ \A u \in Ws : at'[u] = at[u]
      /\ at'["rest"] = at["rest"]
      /\ work' = MinedBlock(work, <<"mined", count["mined"] + 1>>, 0)
  BY WsApart DEF Found, Running, NodeInv, Values, Goes, Places, Threads
<1>2. UNCHANGED <<chain, temp, file, done, keep, exit, lock, status, dead, odd>>
  BY DEF Found, flags, past
<1>3. /\ OneAtWork /\ ChainLinked /\ UpdateFits /\ TemplateFits
      /\ FileStartsAtZero /\ FileFollows /\ Remembers
  BY DEF StorageInv
<1>4. OneAtWork'
  BY <1>1, <1>2, <1>3 DEF OneAtWork
<1>5. TemplateFits'
  BY <1>1, <1>2, <1>3 DEF TemplateFits, MinedBlock
<1>6. FileFollows'
  BY <1>1, <1>2, <1>3 DEF FileFollows, Stored, StoredBut, TornFirst, Workers
<1>7. Remembers'
  BY <1>1, <1>2, <1>3 DEF Remembers
<1>8. ChainLinked' /\ UpdateFits' /\ FileStartsAtZero'
  BY <1>2, <1>3 DEF ChainLinked, UpdateFits, FileStartsAtZero
<1> QED
  BY <1>4, <1>5, <1>6, <1>7, <1>8 DEF StorageInv

\* The block in hand is given up.
LEMMA AbortMiningStorage ==
  ASSUME NodeInv, StorageInv, Running, AbortMining
  PROVE  StorageInv'
<1>1. /\ status = "up"
      /\ at["mine"] = "mining"
      /\ lock = Nobody
      /\ at'["main"] = at["main"]
      /\ at'["mine"] = "sync"
      /\ \A u \in Ws : at'[u] = at[u]
      /\ at'["rest"] = at["rest"]
      /\ work' = NoBlock
  BY WsApart DEF AbortMining, Running, NodeInv, Values, Goes, Places, Threads
<1>2. UNCHANGED <<chain, temp, file, done, keep, exit, lock, status, count, dead, odd>>
  BY DEF AbortMining, flags, past
<1>3. /\ OneAtWork /\ ChainLinked /\ UpdateFits /\ TemplateFits
      /\ FileStartsAtZero /\ FileFollows /\ Remembers
  BY DEF StorageInv
<1>4. OneAtWork'
  BY <1>1, <1>2, <1>3 DEF OneAtWork
<1>5. TemplateFits'
  BY <1>1, <1>2, <1>3 DEF TemplateFits
<1>6. FileFollows'
  BY <1>1, <1>2, <1>3 DEF FileFollows, Stored, StoredBut, TornFirst, Workers
<1>7. Remembers'
  BY <1>1, <1>2, <1>3 DEF Remembers
<1>8. ChainLinked' /\ UpdateFits' /\ FileStartsAtZero'
  BY <1>2, <1>3 DEF ChainLinked, UpdateFits, FileStartsAtZero
<1> QED
  BY <1>4, <1>5, <1>6, <1>7, <1>8 DEF StorageInv

\* The block found is written.
LEMMA WriteMinedStorage ==
  ASSUME NodeInv, StorageInv, Running, WriteMined
  PROVE  StorageInv'
<1>1. /\ status = "up"
      /\ at["mine"] = "write"
      /\ at'["main"] = at["main"]
      /\ at'["mine"] = "sync"
      /\ \A u \in Ws : at'[u] = at[u]
      /\ at'["rest"] = at["rest"]
      /\ file' = Appended(file, <<work>>)
  BY WsApart DEF WriteMined, Running, NodeInv, Values, Goes, Places, Threads
<1>2. UNCHANGED <<chain, temp, done, keep, exit, lock, work, status, count, dead, odd>>
  BY DEF WriteMined, flags, past
<1>3. /\ OneAtWork /\ ChainLinked /\ UpdateFits /\ TemplateFits
      /\ FileStartsAtZero /\ FileFollows /\ Remembers
  BY DEF StorageInv
<1>4. Values /\ WorkInHand /\ StartsInOrder /\ EmptyChain
  BY DEF NodeInv
<1>5. at["main"] # "initialize" /\ chain # <<>>
        /\ \A u \in Ws : at[u] \notin {"append", "replace", "reset", "rewrite"}
  BY <1>1, <1>3, <1>4 DEF StartsInOrder, EmptyChain, OneAtWork
<1>6. Stored' /\ (file'.blocks # <<>> => file'.blocks[1].index = 0)
  <2>1. CASE ~TornFirst(file)
    <3>1. /\ work \in Known /\ file.blocks \in Seq(Known) /\ chain = Append(file.blocks, work)
          /\ file.cut = FALSE
      BY <1>1, <1>3, <1>4, <2>1 DEF Values, WorkInHand, FileFollows, StoredBut, FileOver, FileOf
    <3>2. chain = file.blocks \o <<work>>
      BY <3>1, AppendIsConcat
    <3>3. file' = FileOf(chain')
      BY <1>1, <1>2, <3>1, <3>2 DEF Appended, FileOf
    <3> QED
      BY <1>2, <1>3, <1>5, <3>3 DEF Stored, FileOf, ChainLinked, WellFormed
  <2>2. CASE TornFirst(file)
    <3>1. file'.cut /\ file'.blocks = <<>>
      BY <1>1, <2>2 DEF Appended, TornFirst
    <3> QED
      BY <3>1 DEF Stored, TornFirst
  <2> QED
    BY <2>1, <2>2
<1>7. OneAtWork'
  BY <1>1, <1>2, <1>3, <1>4, <1>5, <1>6 DEF OneAtWork
<1>8. TemplateFits'
  BY <1>1, <1>2, <1>3, <1>4, <1>5, <1>6 DEF TemplateFits
<1>9. FileStartsAtZero'
  BY <1>1, <1>2, <1>3, <1>4, <1>5, <1>6 DEF FileStartsAtZero
<1>10. FileFollows'
  BY <1>1, <1>2, <1>3, <1>4, <1>5, <1>6 DEF FileFollows, Workers
<1>11. Remembers'
  BY <1>1, <1>2, <1>3, <1>4, <1>5, <1>6 DEF Remembers
<1>12. ChainLinked' /\ UpdateFits'
  BY <1>2, <1>3 DEF ChainLinked, UpdateFits
<1> QED
  BY <1>7, <1>8, <1>9, <1>10, <1>11, <1>12 DEF StorageInv

\* The block found is announced.
LEMMA BroadcastStorage ==
  ASSUME NodeInv, StorageInv, Running, Broadcast
  PROVE  StorageInv'
<1>1. /\ status = "up"
      /\ at["mine"] = "broadcast"
      /\ at'["main"] = at["main"]
      /\ at'["mine"] = "loop"
      /\ \A u \in Ws : at'[u] = at[u]
      /\ at'["rest"] = at["rest"]
  BY WsApart DEF Broadcast, Running, NodeInv, Values, Goes, Places, Threads
<1>2. UNCHANGED <<chain, temp, file, done, keep, exit, lock, work, status, count, dead, odd>>
  BY DEF Broadcast, flags, past
<1>3. /\ OneAtWork /\ ChainLinked /\ UpdateFits /\ TemplateFits
      /\ FileStartsAtZero /\ FileFollows /\ Remembers
  BY DEF StorageInv
<1>4. OneAtWork'
  BY <1>1, <1>2, <1>3 DEF OneAtWork
<1>5. TemplateFits'
  BY <1>1, <1>2, <1>3 DEF TemplateFits
<1>6. FileFollows'
  BY <1>1, <1>2, <1>3 DEF FileFollows, Stored, StoredBut, TornFirst, Workers
<1>7. Remembers'
  BY <1>1, <1>2, <1>3 DEF Remembers
<1>8. ChainLinked' /\ UpdateFits' /\ FileStartsAtZero'
  BY <1>2, <1>3 DEF ChainLinked, UpdateFits, FileStartsAtZero
<1> QED
  BY <1>4, <1>5, <1>6, <1>7, <1>8 DEF StorageInv

\* A node that does not mine syncs at once.
LEMMA CheckMiningStorage ==
  ASSUME NEW t \in Ws, NodeInv, StorageInv, Running, CheckMining(t)
  PROVE  StorageInv'
<1>1. /\ status = "up"
      /\ at[t] = "check"
      /\ at'["main"] = at["main"]
      /\ at'["mine"] = at["mine"]
      /\ at'[t] = IF done THEN "sync" ELSE "idle"
      /\ \A u \in Ws \ {t} : at'[u] = at[u]
      /\ at'["rest"] = at["rest"]
  BY WsApart DEF CheckMining, Running, NodeInv, Values, Goes, Places, Threads
<1>2. UNCHANGED <<chain, temp, file, done, keep, exit, lock, work, status, count, dead, odd>>
  BY DEF CheckMining, flags, past
<1>3. /\ OneAtWork /\ ChainLinked /\ UpdateFits /\ TemplateFits
      /\ FileStartsAtZero /\ FileFollows /\ Remembers
  BY DEF StorageInv
<1>4. OneAtWork'
  BY <1>1, <1>2, <1>3 DEF OneAtWork
<1>5. TemplateFits'
  BY <1>1, <1>2, <1>3 DEF TemplateFits
<1>6. FileFollows'
  BY <1>1, <1>2, <1>3 DEF FileFollows, Stored, StoredBut, TornFirst, Workers
<1>7. Remembers'
  BY <1>1, <1>2, <1>3 DEF Remembers
<1>8. ChainLinked' /\ UpdateFits' /\ FileStartsAtZero'
  BY <1>2, <1>3 DEF ChainLinked, UpdateFits, FileStartsAtZero
<1> QED
  BY <1>4, <1>5, <1>6, <1>7, <1>8 DEF StorageInv

\* The mining thread is started.
LEMMA AutostartStorage ==
  ASSUME NodeInv, StorageInv, Running, Autostart,
         AssignMineThread("main", "wait"), UNCHANGED done, status' = "up"
  PROVE  StorageInv'
<1>1. /\ status = "up"
      /\ at["main"] = "autostart"
      /\ at["mine"] = "off"
      /\ at'["main"] = "wait"
      /\ at'["mine"] = "loop"
      /\ \A u \in Ws : at'[u] = at[u]
      /\ at'["rest"] = at["rest"]
  BY WsApart DEF Autostart, Running, NodeInv, Values, Goes, Places, Threads, AssignMineThread
<1>2. UNCHANGED <<chain, temp, file, done, keep, exit, lock, work, status, count, dead, odd>>
  BY DEF Autostart, Running, AssignMineThread, MainOnly, past
<1>3. /\ OneAtWork /\ ChainLinked /\ UpdateFits /\ TemplateFits
      /\ FileStartsAtZero /\ FileFollows /\ Remembers
  BY DEF StorageInv
<1>4. OneAtWork'
  BY <1>1, <1>2, <1>3 DEF OneAtWork
<1>5. TemplateFits'
  BY <1>1, <1>2, <1>3 DEF TemplateFits
<1>6. FileFollows'
  BY <1>1, <1>2, <1>3 DEF FileFollows, Stored, StoredBut, TornFirst, Workers
<1>7. Remembers'
  BY <1>1, <1>2, <1>3 DEF Remembers
<1>8. ChainLinked' /\ UpdateFits' /\ FileStartsAtZero'
  BY <1>2, <1>3 DEF ChainLinked, UpdateFits, FileStartsAtZero
<1> QED
  BY <1>4, <1>5, <1>6, <1>7, <1>8 DEF StorageInv

\* Mining is off.
LEMMA NoAutostartStorage ==
  ASSUME NodeInv, StorageInv, Running, Autostart,
         Goes("main", "wait"), done' = TRUE, status' = "up"
  PROVE  StorageInv'
<1>1. /\ status = "up"
      /\ at["main"] = "autostart"
      /\ at'["main"] = "wait"
      /\ at'["mine"] = at["mine"]
      /\ \A u \in Ws : at'[u] = at[u]
      /\ at'["rest"] = at["rest"]
      /\ done' = TRUE
  BY WsApart DEF Autostart, Running, NodeInv, Values, Goes, Places, Threads, AssignMineThread
<1>2. UNCHANGED <<chain, temp, file, keep, exit, lock, work, status, count, dead, odd>>
  BY DEF Autostart, Running, AssignMineThread, MainOnly, past
<1>3. /\ OneAtWork /\ ChainLinked /\ UpdateFits /\ TemplateFits
      /\ FileStartsAtZero /\ FileFollows /\ Remembers
  BY DEF StorageInv
<1>4. Joined
  BY DEF NodeInv
<1>5. OneAtWork'
  BY <1>1, <1>2, <1>3, <1>4 DEF OneAtWork, Joined
<1>6. TemplateFits'
  BY <1>1, <1>2, <1>3, <1>4 DEF TemplateFits
<1>7. FileFollows'
  BY <1>1, <1>2, <1>3, <1>4 DEF FileFollows, Stored, StoredBut, TornFirst, Workers
<1>8. Remembers'
  BY <1>1, <1>2, <1>3, <1>4 DEF Remembers
<1>9. ChainLinked' /\ UpdateFits' /\ FileStartsAtZero'
  BY <1>2, <1>3 DEF ChainLinked, UpdateFits, FileStartsAtZero
<1> QED
  BY <1>5, <1>6, <1>7, <1>8, <1>9 DEF StorageInv

\* A process that stops in the middle keeps what it had.
LEMMA BrokenOffStorage ==
  ASSUME NodeInv, StorageInv, status' \in {"undefined", "invalid_chain"},
         dead' = dead \/ dead' = NoCrash,
         UNCHANGED <<chain, temp, file, flags, at, lock, work, count, odd>>
  PROVE  StorageInv'
<1>1. UNCHANGED <<chain, temp, file, done, keep, exit, at, lock, work, count, odd>>
  BY DEF flags
<1>2. /\ OneAtWork /\ ChainLinked /\ UpdateFits /\ TemplateFits
      /\ FileStartsAtZero /\ FileFollows /\ Remembers
  BY DEF StorageInv
<1>3. OneAtWork' /\ FileFollows'
  BY <1>1, <1>2 DEF OneAtWork, FileFollows
<1>4. Remembers'
  BY <1>1, <1>2 DEF Remembers
<1>5. ChainLinked' /\ UpdateFits' /\ TemplateFits' /\ FileStartsAtZero'
  BY <1>1, <1>2 DEF ChainLinked, UpdateFits, TemplateFits, FileStartsAtZero
<1> QED
  BY <1>3, <1>4, <1>5 DEF StorageInv

\* What is loaded is what the file has, a new genesis block, or what is left of one.
LEMMA InitializeStorage ==
  ASSUME NodeInv, StorageInv, Running, Initialize, Load \/ LoadTorn
  PROVE  StorageInv'
<1>1. /\ status = "up"
      /\ at["main"] = "initialize"
      /\ at'["main"] = "http"
      /\ at'["mine"] = at["mine"]
      /\ \A u \in Ws : at'[u] = at[u]
      /\ at'["rest"] = at["rest"]
      /\ dead' = NoCrash
  BY WsApart DEF Initialize, Load, LoadTorn, Running, NodeInv, Values, Goes, Places, Threads
<1>2. UNCHANGED <<temp, done, keep, exit, lock, work, status, count, odd>>
  BY DEF Initialize, Load, LoadTorn, Running, MainOnly, flags
<1>3. /\ OneAtWork /\ ChainLinked /\ UpdateFits /\ TemplateFits
      /\ FileStartsAtZero /\ FileFollows /\ Remembers
  BY DEF StorageInv
<1>4. Values /\ StartsInOrder /\ EmptyChain
  BY DEF NodeInv
<1>5. temp = <<>> /\ at["mine"] = "off" /\ \A u \in Ws : at[u] \in {"off", "idle"}
  BY <1>1, <1>4 DEF StartsInOrder, EmptyChain
<1>6. /\ chain' # <<>> => WellFormed(chain')
      /\ file' = FileOf(chain') \/ TornFirst(file')
      /\ file'.blocks # <<>> => file'.blocks[1].index = 0
  <2>1. CASE Load
    <3>1. chain' = Loaded(file, MaxUpdates + 1 + count["crashes"]) /\ isValidChain(chain')
            /\ file' = FileOf(chain')
      BY <2>1 DEF Load
    <3>2. chain' \in Seq(Known)
      BY <1>4, <3>1, LoadedType DEF Values, Counted, Known, FileOver
    <3>3. chain' # <<>> => chain'[1].index = 0
      <4>1. CASE file.exists
        BY <1>3, <3>1, <4>1 DEF Loaded, FileStartsAtZero
      <4>2. CASE ~file.exists
        <5> DEFINE b == Genesis(MaxUpdates + 1 + count["crashes"])
        <5>1. b.index = 0
          BY DEF Genesis, GenesisBlock
        <5> HIDE DEF b
        <5>2. chain' = <<b>>
          BY <3>1, <4>2 DEF Loaded, b
        <5> QED
          BY <5>1, <5>2
      <4> QED
        BY <4>1, <4>2
    <3>4. Linked(chain')
      BY <3>1, <3>2, ValidMeansLinked DEF Known
    <3>5. chain' # <<>> => Len(chain') > 0
      BY <3>2, EmptySeq, LenProperties
    <3>6. chain' # <<>> => WellFormed(chain')
      BY <3>3, <3>4, <3>5 DEF WellFormed
    <3> QED
      BY <3>1, <3>3, <3>6 DEF FileOf
  <2>2. CASE LoadTorn
    <3> DEFINE b == TornGenesis(count["crashes"])
    <3>1. b.index = 0
      BY DEF TornGenesis, GenesisBlock
    <3> HIDE DEF b
    <3>2. chain' = <<b>> /\ file' = file /\ TornFirst(file)
      BY <2>2 DEF LoadTorn, b
    <3>3. WellFormed(<<b>>)
      BY <3>1 DEF WellFormed, Linked
    <3> QED
      BY <3>2, <3>3 DEF TornFirst
  <2> QED
    BY <2>1, <2>2
<1>7. OneAtWork'
  BY <1>1, <1>2, <1>3, <1>5 DEF OneAtWork
<1>8. ChainLinked' /\ FileStartsAtZero'
  BY <1>6 DEF ChainLinked, FileStartsAtZero
<1>9. UpdateFits'
  BY <1>2, <1>5 DEF UpdateFits
<1>10. TemplateFits'
  BY <1>1, <1>5 DEF TemplateFits
<1>11. FileFollows'
  BY <1>1, <1>5, <1>6 DEF FileFollows, Stored, StoredBut, Workers
<1>12. Remembers'
  BY <1>1 DEF Remembers
<1> QED
  BY <1>7, <1>8, <1>9, <1>10, <1>11, <1>12 DEF StorageInv

\* The block found is accepted.
LEMMA AddMinedStorage ==
  ASSUME NodeInv, StorageInv, Running, AddMined, chain' # chain
  PROVE  StorageInv'
<1>1. /\ status = "up"
      /\ at["mine"] = "add"
      /\ at'["main"] = at["main"]
      /\ at'["mine"] = "write"
      /\ \A u \in Ws : at'[u] = at[u]
      /\ at'["rest"] = at["rest"]
      /\ chain' = Append(chain, work)
  BY WsApart DEF AddMined, Running, NodeInv, Values, Goes, Places, Threads, addNewBlock
<1>2. UNCHANGED <<temp, file, done, keep, exit, lock, work, status, count, dead, odd>>
  BY DEF AddMined, Running, addNewBlock, past
<1>3. /\ OneAtWork /\ ChainLinked /\ UpdateFits /\ TemplateFits
      /\ FileStartsAtZero /\ FileFollows /\ Remembers
  BY DEF StorageInv
<1>4. Values /\ WorkInHand /\ StartsInOrder /\ Positions
  BY DEF NodeInv
<1>5. /\ chain # <<>> /\ chain \in Seq(Known) /\ work \in Known
      /\ work.index = Len(chain) /\ work.prev = back(chain).hash /\ work.sealed
  BY <1>1, <1>3, <1>4 DEF Values, WorkInHand, TemplateFits
<1>6. /\ at["main"] # "initialize" /\ lock = Nobody /\ Stored
      /\ \A u \in Ws : at[u] \notin {"append", "replace", "reset", "rewrite"}
  <2>1. /\ at["main"] # "initialize"
        /\ \A u \in Ws : at[u] \notin {"append", "replace", "reset", "rewrite"}
    BY <1>1, <1>3, <1>4 DEF StartsInOrder, OneAtWork
  <2>2. lock = Nobody
    BY <1>1, <1>4, <2>1, WsApart DEF Positions, Threads, Nobody
  <2> QED
    BY <1>1, <1>3, <2>1, <2>2 DEF FileFollows
<1>7. OneAtWork'
  BY <1>1, <1>2, <1>3, <1>4, <1>5, <1>6 DEF OneAtWork
<1>8. ChainLinked'
  BY <1>1, <1>3, <1>5, AppendWellFormed DEF ChainLinked, Known
<1>9. UpdateFits'
  BY <1>1, <1>2, <1>3, <1>4, <1>5, <1>6 DEF UpdateFits
<1>10. TemplateFits'
  BY <1>1, <1>2, <1>3, <1>4, <1>5, <1>6 DEF TemplateFits
<1>11. FileFollows'
  <2>1. StoredBut(work)'
    BY <1>1, <1>2, <1>5, <1>6 DEF Stored, StoredBut, FileOf, TornFirst
  <2> QED
    BY <1>1, <1>2, <1>6, <2>1 DEF FileFollows, Workers
<1>12. Remembers'
  BY <1>1, <1>2, <1>3, <1>4, <1>5, <1>6 DEF Remembers
<1>13. FileStartsAtZero'
  BY <1>2, <1>3 DEF FileStartsAtZero
<1> QED
  BY <1>7, <1>8, <1>9, <1>10, <1>11, <1>12, <1>13 DEF StorageInv

\* Nothing is applied.
LEMMA SyncNothingStorage ==
  ASSUME NEW t \in {"mine"} \cup Ws, NodeInv, StorageInv, Running, SyncNothing(t)
  PROVE  StorageInv'
<1>1. /\ status = "up"
      /\ lock = Nobody
      /\ at'["main"] = at["main"] /\ at'["rest"] = at["rest"]
      /\ \/ /\ t = "mine" /\ at["mine"] = "sync" /\ (\A u \in Ws : at'[u] = at[u])
            /\ at'["mine"] \in {"broadcast", "loop"}
         \/ /\ t \in Ws /\ at[t] = "sync" /\ at'["mine"] = at["mine"]
            /\ at'[t] = "idle" /\ (\A u \in Ws \ {t} : at'[u] = at[u])
      /\ temp' = <<>>
  BY WsApart DEF SyncNothing, Running, NodeInv, Values, Goes, Places, Threads, Returns
<1>2. UNCHANGED <<chain, file, done, keep, exit, lock, work, status, count, dead, odd>>
  BY DEF SyncNothing, flags, past
<1>3. /\ OneAtWork /\ ChainLinked /\ UpdateFits /\ TemplateFits
      /\ FileStartsAtZero /\ FileFollows /\ Remembers
  BY DEF StorageInv
<1>4. Positions
  BY DEF NodeInv
<1>5. OneAtWork'
  BY <1>1, <1>2, <1>3, <1>4 DEF OneAtWork
<1>6. UpdateFits'
  BY <1>1, <1>2, <1>3, <1>4 DEF UpdateFits
<1>7. TemplateFits'
  BY <1>1, <1>2, <1>3, <1>4 DEF TemplateFits
<1>8. FileFollows'
  <2>1. \A u \in Workers : u \in Threads /\ u # Nobody
    BY WsApart DEF Workers, Threads, Nobody
  <2>2. \A u \in Workers : at[u] \notin {"append", "replace", "reset", "rewrite"}
    BY <1>1, <1>4, <2>1 DEF Positions
  <2>3. \A u \in Workers : at'[u] \notin {"append", "replace", "reset", "rewrite"}
    BY <1>1, <2>2 DEF Workers
  <2> QED
    BY <1>1, <1>2, <1>3, <2>3 DEF FileFollows, Stored, StoredBut, TornFirst
<1>9. Remembers'
  BY <1>1, <1>2, <1>3, <1>4 DEF Remembers
<1>10. ChainLinked' /\ FileStartsAtZero'
  BY <1>2, <1>3 DEF ChainLinked, FileStartsAtZero
<1> QED
  BY <1>5, <1>6, <1>7, <1>8, <1>9, <1>10 DEF StorageInv

\* The mutex is taken for an update that is there.
LEMMA SyncBeginStorage ==
  ASSUME NEW t \in {"mine"} \cup Ws, NodeInv, StorageInv, Running, SyncBegin(t)
  PROVE  StorageInv'
<1>1. /\ status = "up"
      /\ lock = Nobody
      /\ temp # <<>>
      /\ at'["main"] = at["main"] /\ at'["rest"] = at["rest"]
      /\ \/ /\ t = "mine" /\ at["mine"] = "sync" /\ (\A u \in Ws : at'[u] = at[u])
            /\ at'["mine"] \in {"append", "replace"}
         \/ /\ t \in Ws /\ at[t] = "sync" /\ at'["mine"] = at["mine"]
            /\ at'[t] \in {"append", "replace"} /\ (\A u \in Ws \ {t} : at'[u] = at[u])
      /\ lock' = t
  BY WsApart DEF SyncBegin, Running, NodeInv, Values, Goes, Places, Threads, Returns
<1>2. UNCHANGED <<chain, temp, file, done, keep, exit, work, status, count, dead, odd>>
  BY DEF SyncBegin, flags, past
<1>3. /\ OneAtWork /\ ChainLinked /\ UpdateFits /\ TemplateFits
      /\ FileStartsAtZero /\ FileFollows /\ Remembers
  BY DEF StorageInv
<1>4. /\ chain # <<>> /\ chain \in Seq(Known) /\ temp \in Seq(Known) /\ WellFormed(chain)
      /\ at["main"] # "initialize" /\ dead = NoCrash
      /\ at["mine"] \notin {"enter", "mining", "add", "write"}
      /\ t = "mine" =>
           \A u \in Ws : at[u] \notin {"sync", "append", "replace", "reset", "rewrite"}
      /\ t \in Ws => at["mine"] = "off" /\ done
      /\ at[t] # "sync" =>
           /\ lock = t /\ lock # Nobody /\ temp # <<>>
           /\ \A u \in Threads \ {t} : at[u] \notin {"append", "replace", "reset", "rewrite"}
  BY <1>1, Syncing DEF Workers
<1>5. Stored
  BY <1>1, <1>3, <1>4 DEF FileFollows
<1>6. at'[t] = IF front(temp).index = Len(chain) THEN "append" ELSE "replace"
  <2>1. back(chain).index = Len(chain) - 1 /\ Len(chain) \in Nat
    BY <1>4, BackOfChain DEF Known
  <2>2. back(chain).index + 1 = Len(chain)
    BY <2>1
  <2>3. at'[t] = IF front(temp).index = back(chain).index + 1 THEN "append" ELSE "replace"
    BY DEF SyncBegin, Goes, NodeInv, Values, Threads
  <2> QED
    BY <2>2, <2>3
<1>7. OneAtWork'
  BY <1>1, <1>2, <1>3, <1>4, <1>5, <1>6 DEF OneAtWork
<1>8. TemplateFits'
  BY <1>1, <1>2, <1>3, <1>4, <1>5, <1>6 DEF TemplateFits
<1>9. FileFollows'
  BY <1>1, <1>2, <1>3, <1>4, <1>5, <1>6 DEF FileFollows, Stored, TornFirst, Workers
<1>10. Remembers'
  BY <1>1, <1>2, <1>3, <1>4, <1>5, <1>6 DEF Remembers
<1>11. ChainLinked' /\ UpdateFits' /\ FileStartsAtZero'
  BY <1>2, <1>3 DEF ChainLinked, UpdateFits, FileStartsAtZero
<1> QED
  BY <1>7, <1>8, <1>9, <1>10, <1>11 DEF StorageInv

\* Blocks of the update are added to the chain and to the file.
LEMMA SyncAppendStorage ==
  ASSUME NEW t \in {"mine"} \cup Ws, NodeInv, StorageInv, Running, SyncAppend(t)
  PROVE  StorageInv'
<1>1. /\ status = "up"
      /\ at'["main"] = at["main"] /\ at'["rest"] = at["rest"]
      /\ \/ /\ t = "mine" /\ at["mine"] = "append" /\ (\A u \in Ws : at'[u] = at[u])
            /\ at'["mine"] \in {"broadcast", "loop"}
         \/ /\ t \in Ws /\ at[t] = "append" /\ at'["mine"] = at["mine"]
            /\ at'[t] = "idle" /\ (\A u \in Ws \ {t} : at'[u] = at[u])
      /\ chain' = AddBlocks(chain, temp)
      /\ file' = Appended(file, SubSeq(chain', Len(chain) + 1, Len(chain')))
      /\ temp' = <<>>
      /\ lock' = Nobody
  BY WsApart DEF SyncAppend, Running, NodeInv, Values, Goes, Places, Threads, Returns
<1>2. UNCHANGED <<done, keep, exit, work, status, count, dead, odd>>
  BY DEF SyncAppend, flags, past
<1>3. /\ OneAtWork /\ ChainLinked /\ UpdateFits /\ TemplateFits
      /\ FileStartsAtZero /\ FileFollows /\ Remembers
  BY DEF StorageInv
<1>4. /\ chain # <<>> /\ chain \in Seq(Known) /\ temp \in Seq(Known) /\ WellFormed(chain)
      /\ at["main"] # "initialize" /\ dead = NoCrash
      /\ at["mine"] \notin {"enter", "mining", "add", "write"}
      /\ t = "mine" =>
           \A u \in Ws : at[u] \notin {"sync", "append", "replace", "reset", "rewrite"}
      /\ t \in Ws => at["mine"] = "off" /\ done
      /\ at[t] # "sync" =>
           /\ lock = t /\ lock # Nobody /\ temp # <<>>
           /\ \A u \in Threads \ {t} : at[u] \notin {"append", "replace", "reset", "rewrite"}
  BY <1>1, Syncing DEF Workers
<1>5. Stored /\ front(temp).index = Len(chain) /\ at[t] = "append"
  BY <1>1, <1>3 DEF FileFollows, Workers
<1>6. WellFormed(chain')
  <2>1. Len(chain) \in Nat \ {0}
    BY <1>4, EmptySeq, LenProperties
  <2>2. /\ temp # <<>> /\ Linked(temp) /\ front(temp).sealed
        /\ front(temp).prev = chain[Len(chain)].hash
    BY <1>3, <1>4, <1>5, <2>1 DEF UpdateFits
  <2> QED
    BY <1>1, <1>4, <1>5, <2>2, AppendFits DEF Known
<1>7. Stored' /\ (file'.blocks # <<>> => file'.blocks[1].index = 0)
  <2>1. chain \o SubSeq(chain', Len(chain) + 1, Len(chain')) = chain'
    BY <1>1, <1>4, AddedPart DEF Known
  <2>2. CASE file = FileOf(chain)
    <3>1. file' = FileOf(chain')
      BY <1>1, <2>1, <2>2 DEF Appended, FileOf
    <3> QED
      BY <1>6, <3>1 DEF Stored, FileOf, WellFormed
  <2>3. CASE TornFirst(file)
    <3>1. file'.cut /\ file'.blocks = <<>>
      BY <1>1, <2>3 DEF Appended, TornFirst
    <3> QED
      BY <3>1 DEF Stored, TornFirst
  <2> QED
    BY <1>5, <2>2, <2>3 DEF Stored
<1>8. OneAtWork'
  BY <1>1, <1>2, <1>3, <1>4, <1>5, <1>6, <1>7 DEF OneAtWork
<1>9. ChainLinked'
  BY <1>1, <1>2, <1>3, <1>4, <1>5, <1>6, <1>7 DEF ChainLinked
<1>10. UpdateFits'
  BY <1>1, <1>2, <1>3, <1>4, <1>5, <1>6, <1>7 DEF UpdateFits
<1>11. TemplateFits'
  BY <1>1, <1>2, <1>3, <1>4, <1>5, <1>6, <1>7 DEF TemplateFits
<1>12. FileStartsAtZero'
  BY <1>1, <1>2, <1>3, <1>4, <1>5, <1>6, <1>7 DEF FileStartsAtZero
<1>13. FileFollows'
  BY <1>1, <1>2, <1>3, <1>4, <1>5, <1>6, <1>7 DEF FileFollows, Workers, Threads
<1>14. Remembers'
  BY <1>1, <1>2, <1>3, <1>4, <1>5, <1>6, <1>7 DEF Remembers
<1> QED
  BY <1>8, <1>9, <1>10, <1>11, <1>12, <1>13, <1>14 DEF StorageInv

\* The chain is replaced from the height of the update on.
LEMMA SyncReplaceStorage ==
  ASSUME NEW t \in {"mine"} \cup Ws, NodeInv, StorageInv, Running, SyncReplace(t)
  PROVE  StorageInv'
<1>1. /\ status = "up"
      /\ at'["main"] = at["main"] /\ at'["rest"] = at["rest"]
      /\ \/ /\ t = "mine" /\ at["mine"] = "replace" /\ (\A u \in Ws : at'[u] = at[u])
            /\ at'["mine"] = "reset"
         \/ /\ t \in Ws /\ at[t] = "replace" /\ at'["mine"] = at["mine"]
            /\ at'[t] = "reset" /\ (\A u \in Ws \ {t} : at'[u] = at[u])
      /\ chain' = IF front(temp).index = 0 THEN temp
                  ELSE AddBlocks(resize(chain, front(temp).index), temp)
  BY WsApart DEF SyncReplace, Running, NodeInv, Values, Goes, Places, Threads, Returns
<1>2. UNCHANGED <<temp, file, done, keep, exit, lock, work, status, count, dead, odd>>
  BY DEF SyncReplace, flags, past
<1>3. /\ OneAtWork /\ ChainLinked /\ UpdateFits /\ TemplateFits
      /\ FileStartsAtZero /\ FileFollows /\ Remembers
  BY DEF StorageInv
<1>4. /\ chain # <<>> /\ chain \in Seq(Known) /\ temp \in Seq(Known) /\ WellFormed(chain)
      /\ at["main"] # "initialize" /\ dead = NoCrash
      /\ at["mine"] \notin {"enter", "mining", "add", "write"}
      /\ t = "mine" =>
           \A u \in Ws : at[u] \notin {"sync", "append", "replace", "reset", "rewrite"}
      /\ t \in Ws => at["mine"] = "off" /\ done
      /\ at[t] # "sync" =>
           /\ lock = t /\ lock # Nobody /\ temp # <<>>
           /\ \A u \in Threads \ {t} : at[u] \notin {"append", "replace", "reset", "rewrite"}
  BY <1>1, Syncing DEF Workers
<1>5. at[t] = "replace" /\ lock = t /\ temp # <<>> /\ Linked(temp)
  BY <1>1, <1>3, <1>4 DEF UpdateFits
<1>6. /\ WellFormed(chain')
      /\ front(temp).index # 0 =>
           /\ front(temp).index \in 1..Len(chain') /\ front(temp).sealed
           /\ front(temp).prev = chain'[front(temp).index].hash
  <2> DEFINE k == front(temp).index
  <2>1. CASE k = 0
    <3>1. Len(temp) > 0
      BY <1>4, <1>5, EmptySeq, LenProperties
    <3> QED
      BY <1>1, <1>5, <2>1, <3>1 DEF WellFormed, front
  <2>2. CASE k # 0
    <3>1. k \in 1..Len(chain) /\ front(temp).sealed /\ front(temp).prev = chain[k].hash
      BY <1>3, <1>5, <2>2 DEF UpdateFits
    <3>2. chain' = AddBlocks(resize(chain, k), temp)
      BY <1>1, <2>2
    <3>3. front(temp).index = k
      OBVIOUS
    <3> HIDE DEF k
    <3>4. WellFormed(chain') /\ k \in 1..Len(chain') /\ chain'[k] = chain[k]
      BY <1>4, <1>5, <3>1, <3>2, <3>3, ReplaceFits DEF Known
    <3> QED
      BY <3>1, <3>3, <3>4
  <2> QED
    BY <2>1, <2>2
<1>7. OneAtWork'
  BY <1>1, <1>2, <1>3, <1>4, <1>5, <1>6 DEF OneAtWork
<1>8. ChainLinked'
  BY <1>1, <1>2, <1>3, <1>4, <1>5, <1>6 DEF ChainLinked
<1>9. UpdateFits'
  BY <1>1, <1>2, <1>3, <1>4, <1>5, <1>6 DEF UpdateFits
<1>10. TemplateFits'
  BY <1>1, <1>2, <1>3, <1>4, <1>5, <1>6 DEF TemplateFits
<1>11. FileFollows'
  BY <1>1, <1>2, <1>3, <1>4, <1>5, <1>6 DEF FileFollows, Stored, TornFirst, Workers,
    Threads, Nobody
<1>12. Remembers'
  BY <1>1, <1>2, <1>3, <1>4, <1>5, <1>6 DEF Remembers
<1>13. FileStartsAtZero'
  BY <1>2, <1>3 DEF FileStartsAtZero
<1> QED
  BY <1>7, <1>8, <1>9, <1>10, <1>11, <1>12, <1>13 DEF StorageInv

\* The file is removed; the thread is about to write it again.
LEMMA SyncResetStorage ==
  ASSUME NEW t \in {"mine"} \cup Ws, NodeInv, StorageInv, Running, SyncReset(t)
  PROVE  StorageInv'
<1>1. /\ status = "up"
      /\ at'["main"] = at["main"] /\ at'["rest"] = at["rest"]
      /\ \/ /\ t = "mine" /\ at["mine"] = "reset" /\ (\A u \in Ws : at'[u] = at[u])
            /\ at'["mine"] = "rewrite"
         \/ /\ t \in Ws /\ at[t] = "reset" /\ at'["mine"] = at["mine"]
            /\ at'[t] = "rewrite" /\ (\A u \in Ws \ {t} : at'[u] = at[u])
      /\ file' = NoFile
  BY WsApart DEF SyncReset, Running, NodeInv, Values, Goes, Places, Threads, Returns
<1>2. UNCHANGED <<chain, temp, done, keep, exit, lock, work, status, count, dead, odd>>
  BY DEF SyncReset, flags, past
<1>3. /\ OneAtWork /\ ChainLinked /\ UpdateFits /\ TemplateFits
      /\ FileStartsAtZero /\ FileFollows /\ Remembers
  BY DEF StorageInv
<1>4. /\ chain # <<>> /\ chain \in Seq(Known) /\ temp \in Seq(Known) /\ WellFormed(chain)
      /\ at["main"] # "initialize" /\ dead = NoCrash
      /\ at["mine"] \notin {"enter", "mining", "add", "write"}
      /\ t = "mine" =>
           \A u \in Ws : at[u] \notin {"sync", "append", "replace", "reset", "rewrite"}
      /\ t \in Ws => at["mine"] = "off" /\ done
      /\ at[t] # "sync" =>
           /\ lock = t /\ lock # Nobody /\ temp # <<>>
           /\ \A u \in Threads \ {t} : at[u] \notin {"append", "replace", "reset", "rewrite"}
  BY <1>1, Syncing DEF Workers
<1>5. OneAtWork'
  BY <1>1, <1>2, <1>3, <1>4 DEF OneAtWork
<1>6. TemplateFits'
  BY <1>1, <1>2, <1>3, <1>4 DEF TemplateFits
<1>7. FileStartsAtZero'
  BY <1>1, <1>2, <1>3, <1>4 DEF FileStartsAtZero, NoFile
<1>8. FileFollows'
  BY <1>1, <1>2, <1>3, <1>4 DEF FileFollows, Stored, TornFirst, Workers, Threads, Nobody
<1>9. Remembers'
  BY <1>1, <1>2, <1>3, <1>4 DEF Remembers
<1>10. ChainLinked' /\ UpdateFits'
  BY <1>2, <1>3 DEF ChainLinked, UpdateFits
<1> QED
  BY <1>5, <1>6, <1>7, <1>8, <1>9, <1>10 DEF StorageInv

\* The file is written again, with a chain that is not empty.
LEMMA SyncRewriteStorage ==
  ASSUME NEW t \in {"mine"} \cup Ws, NodeInv, StorageInv, Running, SyncRewrite(t)
  PROVE  StorageInv'
<1>1. /\ status = "up"
      /\ at'["main"] = at["main"] /\ at'["rest"] = at["rest"]
      /\ \/ /\ t = "mine" /\ at["mine"] = "rewrite" /\ (\A u \in Ws : at'[u] = at[u])
            /\ at'["mine"] \in {"broadcast", "loop"}
         \/ /\ t \in Ws /\ at[t] = "rewrite" /\ at'["mine"] = at["mine"]
            /\ at'[t] = "idle" /\ (\A u \in Ws \ {t} : at'[u] = at[u])
      /\ file' = Appended(file, chain)
      /\ temp' = <<>>
      /\ lock' = Nobody
  BY WsApart DEF SyncRewrite, Running, NodeInv, Values, Goes, Places, Threads, Returns
<1>2. UNCHANGED <<chain, done, keep, exit, work, status, count, dead, odd>>
  BY DEF SyncRewrite, flags, past
<1>3. /\ OneAtWork /\ ChainLinked /\ UpdateFits /\ TemplateFits
      /\ FileStartsAtZero /\ FileFollows /\ Remembers
  BY DEF StorageInv
<1>4. /\ chain # <<>> /\ chain \in Seq(Known) /\ temp \in Seq(Known) /\ WellFormed(chain)
      /\ at["main"] # "initialize" /\ dead = NoCrash
      /\ at["mine"] \notin {"enter", "mining", "add", "write"}
      /\ t = "mine" =>
           \A u \in Ws : at[u] \notin {"sync", "append", "replace", "reset", "rewrite"}
      /\ t \in Ws => at["mine"] = "off" /\ done
      /\ at[t] # "sync" =>
           /\ lock = t /\ lock # Nobody /\ temp # <<>>
           /\ \A u \in Threads \ {t} : at[u] \notin {"append", "replace", "reset", "rewrite"}
  BY <1>1, Syncing DEF Workers
<1>5. file' = FileOf(chain')
  <2>1. file = NoFile
    BY <1>1, <1>3 DEF FileFollows, Workers
  <2>2. file' = FileOf(<<>> \o chain)
    BY <1>1, <2>1 DEF Appended, NoFile, FileOf
  <2> QED
    BY <1>2, <1>4, <2>2, ConcatEmptySeq
<1>6. OneAtWork'
  BY <1>1, <1>2, <1>3, <1>4, <1>5 DEF OneAtWork
<1>7. UpdateFits'
  BY <1>1, <1>2, <1>3, <1>4, <1>5 DEF UpdateFits
<1>8. TemplateFits'
  BY <1>1, <1>2, <1>3, <1>4, <1>5 DEF TemplateFits
<1>9. FileStartsAtZero'
  BY <1>1, <1>2, <1>3, <1>4, <1>5 DEF FileStartsAtZero, WellFormed, FileOf
<1>10. FileFollows'
  BY <1>1, <1>2, <1>3, <1>4, <1>5 DEF FileFollows, Stored, Workers, Threads
<1>11. Remembers'
  BY <1>1, <1>2, <1>3, <1>4, <1>5 DEF Remembers
<1>12. ChainLinked'
  BY <1>2, <1>3 DEF ChainLinked
<1> QED
  BY <1>6, <1>7, <1>8, <1>9, <1>10, <1>11, <1>12 DEF StorageInv

\* An update starts inside the chain or right behind it.
LEMMA ReceiveUpdateStorage ==
  ASSUME NEW t \in Ws, NodeInv, StorageInv, Running, ReceiveUpdate(t)
  PROVE  StorageInv'
<1>1. /\ status = "up"
      /\ at[t] = "idle"
      /\ lock = Nobody
      /\ chain # <<>>
      /\ at'["main"] = at["main"]
      /\ at'["mine"] = at["mine"]
      /\ at'[t] = "check"
      /\ \A u \in Ws \ {t} : at'[u] = at[u]
      /\ at'["rest"] = at["rest"]
  BY WsApart DEF ReceiveUpdate, Running, NodeInv, Values, Goes, Places, Threads
<1>2. UNCHANGED <<chain, file, done, keep, exit, lock, work, status, dead, odd>>
  BY DEF ReceiveUpdate, flags, past
<1>3. /\ OneAtWork /\ ChainLinked /\ UpdateFits /\ TemplateFits
      /\ FileStartsAtZero /\ FileFollows /\ Remembers
  BY DEF StorageInv
<1>4. Values /\ Positions
  BY DEF NodeInv
<1>5. OneAtWork'
  BY <1>1, <1>2, <1>3, <1>4 DEF OneAtWork
<1>6. UpdateFits'
  <2>1. PICK start \in 0..Len(chain), len \in 1..2 :
               temp' = Update(count["updates"] + 1, chain, start, len)
    BY DEF ReceiveUpdate
  <2> DEFINE n == count["mined"]
             k == count["updates"] + 1
             u == Update(k, chain, start, len)
  <2>2. /\ start \in Nat /\ start <= Len(chain) /\ len \in Nat /\ len > 0
        /\ k \in Nat /\ n \in Nat /\ chain \in Seq(BlockOver(Hashes(n)))
    BY <1>4, LenProperties DEF Values, Counted, Known
  <2> HIDE DEF k, n
  <2>3. front(u).index = start
    BY <2>2, UpdateTypes
  <2>4. Linked(u) /\ (start # 0 => front(u).sealed /\ front(u).prev = chain[start].hash)
    BY <2>2, UpdateLinked
  <2> HIDE DEF u
  <2>5. temp' = u
    BY <2>1 DEF u, k
  <2>6. start # 0 => start \in 1..Len(chain)
    BY <2>2, LenProperties
  <2> QED
    BY <1>2, <2>3, <2>4, <2>5, <2>6 DEF UpdateFits
<1>7. TemplateFits'
  BY <1>1, <1>2, <1>3, <1>4 DEF TemplateFits
<1>8. FileFollows'
  <2>1. \A u \in Workers : u \in Threads /\ u # Nobody
    BY WsApart DEF Workers, Threads, Nobody
  <2>2. \A u \in Workers : at[u] \notin {"append", "replace", "reset", "rewrite"}
    BY <1>1, <1>4, <2>1 DEF Positions
  <2>3. \A u \in Workers : at'[u] \notin {"append", "replace", "reset", "rewrite"}
    BY <1>1, <2>2 DEF Workers
  <2> QED
    BY <1>1, <1>2, <1>3, <2>3 DEF FileFollows, Stored, StoredBut, TornFirst
<1>9. Remembers'
  BY <1>1, <1>2, <1>3, <1>4 DEF Remembers
<1>10. ChainLinked' /\ FileStartsAtZero'
  BY <1>2, <1>3 DEF ChainLinked, FileStartsAtZero
<1> QED
  BY <1>5, <1>6, <1>7, <1>8, <1>9, <1>10 DEF StorageInv

\* A thread begins to read ...
LEMMA BeginReadStorage ==
  ASSUME NEW t \in Readers, NodeInv, StorageInv, Running, BeginRead(t)
  PROVE  StorageInv'
<1>1. /\ status = "up"
      /\ at[t] = "idle" /\ at'[t] = "read"
      /\ at'["main"] = at["main"] /\ at'["mine"] = at["mine"]
      /\ \A u \in (Ws \cup {"rest"}) \ {t} : at'[u] = at[u]
  BY WsApart DEF BeginRead, Readers, Running, NodeInv, Values, Goes, Places, Threads
<1>2. UNCHANGED <<chain, temp, file, done, keep, exit, lock, work, status, count, dead, odd>>
  BY DEF BeginRead, flags, past
<1>3. /\ OneAtWork /\ ChainLinked /\ UpdateFits /\ TemplateFits
      /\ FileStartsAtZero /\ FileFollows /\ Remembers
  BY DEF StorageInv
<1>4. OneAtWork'
  BY <1>1, <1>2, <1>3, WsApart DEF OneAtWork, Readers
<1>5. TemplateFits'
  BY <1>1, <1>2, <1>3 DEF TemplateFits
<1>6. FileFollows'
  BY <1>1, <1>2, <1>3 DEF FileFollows, Stored, StoredBut, TornFirst, Workers, Readers
<1>7. Remembers'
  BY <1>1, <1>2, <1>3 DEF Remembers
<1>8. ChainLinked' /\ UpdateFits' /\ FileStartsAtZero'
  BY <1>2, <1>3 DEF ChainLinked, UpdateFits, FileStartsAtZero
<1> QED
  BY <1>4, <1>5, <1>6, <1>7, <1>8 DEF StorageInv

\* ... and is done with it.
LEMMA EndReadStorage ==
  ASSUME NEW t \in Readers, NodeInv, StorageInv, Running, EndRead(t)
  PROVE  StorageInv'
<1>1. /\ status = "up"
      /\ at[t] = "read"
      /\ at'[t] = "idle" \/ (t \in Ws /\ at'[t] = "check")
      /\ at'["main"] = at["main"] /\ at'["mine"] = at["mine"]
      /\ \A u \in (Ws \cup {"rest"}) \ {t} : at'[u] = at[u]
  BY WsApart DEF EndRead, Readers, Running, NodeInv, Values, Goes, Places, Threads
<1>2. UNCHANGED <<chain, temp, file, done, keep, exit, lock, work, status, count, dead, odd>>
  BY DEF EndRead, flags, past
<1>3. /\ OneAtWork /\ ChainLinked /\ UpdateFits /\ TemplateFits
      /\ FileStartsAtZero /\ FileFollows /\ Remembers
  BY DEF StorageInv
<1>4. OneAtWork'
  BY <1>1, <1>2, <1>3, WsApart DEF OneAtWork, Readers
<1>5. TemplateFits'
  BY <1>1, <1>2, <1>3 DEF TemplateFits
<1>6. FileFollows'
  BY <1>1, <1>2, <1>3 DEF FileFollows, Stored, StoredBut, TornFirst, Workers, Readers
<1>7. Remembers'
  BY <1>1, <1>2, <1>3 DEF Remembers
<1>8. ChainLinked' /\ UpdateFits' /\ FileStartsAtZero'
  BY <1>2, <1>3 DEF ChainLinked, UpdateFits, FileStartsAtZero
<1> QED
  BY <1>4, <1>5, <1>6, <1>7, <1>8 DEF StorageInv

\* What a crash leaves of the file is a file.
LEMMA CrashStorage ==
  ASSUME NodeInv, StorageInv, Crash
  PROVE  StorageInv'
<1>1. /\ status = "up"
      /\ status' = "down"
  BY DEF Crash, NodeInv
<1>2. UNCHANGED <<chain, temp, done, keep, exit, at, lock, work, odd>>
  BY DEF Crash, flags
<1>3. /\ OneAtWork /\ ChainLinked /\ UpdateFits /\ TemplateFits
      /\ FileStartsAtZero /\ FileFollows /\ Remembers
  BY DEF StorageInv
<1>4. /\ file'.blocks # <<>> => file'.blocks[1].index = 0
      /\ at["main"] = "initialize" /\ file.exists => file' = file
      /\ at["main"] # "initialize" => Left(file')
  BY <1>1, CrashLeaves DEF Crash
<1>5. dead' = IF at["main"] = "initialize" THEN dead
              ELSE [chain |-> chain, temp |-> temp, doing |-> {at[t] : t \in Threads}]
  BY DEF Crash
<1>6. OneAtWork'
  BY <1>1, <1>2, <1>3, <1>4, <1>5 DEF OneAtWork
<1>7. FileStartsAtZero'
  BY <1>1, <1>2, <1>3, <1>4, <1>5 DEF FileStartsAtZero
<1>8. FileFollows'
  BY <1>1, <1>2, <1>3, <1>4, <1>5 DEF FileFollows, Stored, StoredBut, TornFirst, Workers
<1>9. Remembers'
  <2>1. CASE at["main"] = "initialize"
    <3>1. dead' = dead
      BY <1>5, <2>1
    <3>2. CASE file.exists
      BY <1>1, <1>3, <1>4, <2>1, <3>1, <3>2 DEF Remembers
    <3>3. CASE ~file.exists
      <4>1. ~file.cut
        BY <3>3 DEF NodeInv, FileThere
      <4> QED
        BY <1>1, <1>3, <3>1, <3>3, <4>1 DEF Remembers, LeftOf, FileOf, TornFirst
    <3> QED
      BY <3>2, <3>3
  <2>2. CASE at["main"] # "initialize"
    <3>1. /\ dead'.chain = chain /\ dead'.temp = temp
          /\ dead'.doing = {at[t] : t \in Threads}
      BY <1>5, <2>2
    <3>2. Left(file')
      BY <1>4, <2>2
    <3> QED
      BY <1>1, <3>1, <3>2 DEF Remembers, Left
  <2> QED
    BY <2>1, <2>2
<1>10. ChainLinked' /\ UpdateFits' /\ TemplateFits'
  BY <1>2, <1>3 DEF ChainLinked, UpdateFits, TemplateFits
<1> QED
  BY <1>6, <1>7, <1>8, <1>9, <1>10 DEF StorageInv

\* What the REST interface would have to ask for does not happen.
LEMMA NobodyAsks ==
  ASSUME Unasked, NodeInv, StorageInv, Running
  PROVE  /\ ~StartMining /\ ~StopMining /\ ~Shutdown
         /\ ~JoinMineThread /\ ~LeaveRun
         /\ ~DestructorJoins /\ ~DestructorStopsHttp /\ ~DestructorJoinsHttp
         /\ ~DestroyMembers /\ ~DestroyPeers
<1>1. OneAtWork /\ Values
  BY DEF StorageInv, NodeInv
<1>2. count["starts"] \in Nat /\ count["stops"] \in Nat /\ count["shutdowns"] \in Nat
  BY <1>1 DEF Values, Counted
<1>3. ~StartMining /\ ~StopMining /\ ~Shutdown
  BY <1>2 DEF Unasked, StartMining, StopMining, Shutdown, Counts
<1>4. ~JoinMineThread /\ ~LeaveRun
  BY <1>1 DEF OneAtWork, JoinMineThread, LeaveRun
<1>5. ~DestructorJoins /\ ~DestructorStopsHttp /\ ~DestructorJoinsHttp
  BY <1>1 DEF OneAtWork, DestructorJoins, DestructorStopsHttp, DestructorJoinsHttp
<1>6. ~DestroyMembers /\ ~DestroyPeers
  BY <1>1 DEF OneAtWork, DestroyMembers, DestroyPeers
<1> QED
  BY <1>3, <1>4, <1>5, <1>6

\* The chain takes every block the node finds.
LEMMA NeverRefused ==
  ASSUME NodeInv, StorageInv, AddMined
  PROVE  chain' # chain
<1>1. TemplateFits /\ Values /\ WorkInHand
  BY DEF StorageInv, NodeInv
<1>2. work.sealed /\ work.prev = back(chain).hash /\ work \in Known /\ chain \in Seq(Known)
  BY <1>1 DEF TemplateFits, AddMined, Values, WorkInHand
<1>3. chain' = Append(chain, work)
  BY <1>2 DEF AddMined, addNewBlock, ValidHash
<1>4. Len(chain') = Len(chain) + 1 /\ Len(chain) \in Nat
  BY <1>2, <1>3, AppendProperties, LenProperties
<1> QED
  BY <1>4

\* Every step keeps the invariant.
LEMMA NextStorage ==
  ASSUME Unasked, NodeInv, StorageInv, [Next]_vars
  PROVE  StorageInv'
<1>1. CASE UNCHANGED vars
  <2>1. UNCHANGED <<chain, temp, file, done, exit, at, lock, work, status, dead, odd>>
    BY <1>1 DEF vars
  <2>2. /\ OneAtWork /\ ChainLinked /\ UpdateFits /\ TemplateFits
        /\ FileStartsAtZero /\ FileFollows /\ Remembers
    BY DEF StorageInv
  <2>3. OneAtWork' /\ ChainLinked' /\ UpdateFits' /\ TemplateFits'
    BY <2>1, <2>2 DEF OneAtWork, ChainLinked, UpdateFits, TemplateFits
  <2>4. FileStartsAtZero' /\ FileFollows' /\ Remembers'
    BY <2>1, <2>2 DEF FileStartsAtZero, FileFollows, Stored, StoredBut, TornFirst, Remembers
  <2> QED
    BY <2>3, <2>4 DEF StorageInv
<1>2. CASE Launch \/ Crash
  BY <1>2, LaunchStorage, CrashStorage
<1>3. CASE Running /\ Initialize
  <2>1. CASE Load \/ LoadTorn
    BY <1>3, <2>1, InitializeStorage
  <2>2. CASE Refuse \/ LoadGarbage
    <3>1. /\ status' \in {"undefined", "invalid_chain"} /\ dead' = NoCrash
          /\ UNCHANGED <<chain, temp, file, flags, at, lock, work, count, odd>>
      BY <1>3, <2>2 DEF Initialize, Refuse, LoadGarbage, MainOnly
    <3> QED
      BY <3>1, BrokenOffStorage
  <2> QED
    BY <1>3, <2>1, <2>2 DEF Initialize
<1>4. CASE Running /\ Autostart
  <2>1. CASE AssignMineThread("main", "wait") /\ UNCHANGED done
    <3>1. Joined /\ OneAtWork
      BY DEF NodeInv, StorageInv
    <3>2. at["mine"] = "off"
      BY <1>4, <3>1 DEF Joined, OneAtWork, Autostart, Running
    <3>3. status' = "up"
      BY <1>4, <2>1, <3>2 DEF AssignMineThread, Running
    <3> QED
      BY <1>4, <2>1, <3>3, AutostartStorage
  <2>2. CASE Goes("main", "wait") /\ done' = TRUE /\ UNCHANGED status
    BY <1>4, <2>2, NoAutostartStorage DEF Running
  <2> QED
    BY <1>4, <2>1, <2>2 DEF Autostart
<1>5. CASE Running /\ StartHttp
  BY <1>5, StartHttpStorage
<1>6. CASE Running /\ AddMined
  BY <1>6, NeverRefused, AddMinedStorage
<1>7. CASE Running /\ \E t \in {"mine"} \cup Ws : Sync(t)
  <2>1. PICK t \in {"mine"} \cup Ws : Sync(t)
    BY <1>7
  <2> QED
    BY <1>7, <2>1, SyncNothingStorage, SyncBeginStorage, SyncAppendStorage, SyncReplaceStorage,
      SyncResetStorage, SyncRewriteStorage DEF Sync
<1>8. CASE Running /\ (MineLoop \/ Template \/ EnterMineBlock \/ AbortMining
                         \/ WriteMined \/ Broadcast \/ Found)
  BY <1>8, MineLoopStorage, TemplateStorage, EnterMineBlockStorage,
    AbortMiningStorage, WriteMinedStorage, BroadcastStorage, FoundStorage
<1>9. CASE Running /\ \E t \in Ws : CheckMining(t) \/ ReceiveUpdate(t)
  BY <1>9, CheckMiningStorage, ReceiveUpdateStorage
<1>10. CASE Running /\ \E t \in Readers : BeginRead(t) \/ EndRead(t)
  BY <1>10, BeginReadStorage, EndReadStorage
<1>11. CASE TemplateOfNothing \/ JoinTwice \/ Race
              \/ \E t \in Ws : MessageWithoutChain(t) \/ MessageWithoutLogger(t)
  <2>1. /\ status' = "undefined"
        /\ UNCHANGED <<chain, temp, file, flags, at, lock, work, count, dead, odd>>
    BY <1>11
      DEF TemplateOfNothing, JoinTwice, Race, MessageWithoutChain, MessageWithoutLogger, past
  <2> QED
    BY <2>1, BrokenOffStorage
<1>12. ASSUME Running, NEW t \in Ws, WsThread(t) \/ Message(t)
       PROVE  StorageInv'
  BY <1>7, <1>9, <1>10, <1>11, <1>12 DEF WsThread, Message, Readers
<1>13. ASSUME Running, RestThread
       PROVE  StorageInv'
  BY <1>10, <1>13, NobodyAsks DEF RestThread, Readers
<1> QED
  BY <1>1, <1>2, <1>3, <1>4, <1>5, <1>6, <1>7, <1>8, <1>10, <1>11, <1>12, <1>13, NobodyAsks
    DEF Next, MainThread, MineThread

-------------------------------------------------------------------------------
(* The results.                                                              *)

\* The invariant holds in every state.
LEMMA StorageInvariant == ASSUME Unasked PROVE Spec => [](NodeInv /\ StorageInv)
<1>1. Init => StorageInv
  <2> SUFFICES ASSUME Init
               PROVE  StorageInv
    OBVIOUS
  <2>1. /\ chain = <<>> /\ temp = <<>> /\ file = NoFile /\ done = FALSE /\ exit = FALSE
        /\ \A t \in Threads : at[t] = "off"
        /\ lock = Nobody /\ work = NoBlock /\ status = "down" /\ odd = {} /\ dead = NoCrash
    BY DEF Init
  <2>2. OneAtWork /\ ChainLinked /\ UpdateFits /\ TemplateFits
    BY <2>1 DEF OneAtWork, ChainLinked, UpdateFits, TemplateFits, Threads
  <2>3. FileStartsAtZero /\ FileFollows /\ Remembers
    BY <2>1 DEF FileStartsAtZero, FileFollows, Remembers, NoFile
  <2> QED
    BY <2>2, <2>3 DEF StorageInv
<1>2. NodeInv /\ StorageInv /\ [Next]_vars => StorageInv'
  BY NextStorage
<1> QED
  BY <1>1, <1>2, NodeInvariant, PTL DEF Spec

\* For all bounds on blocks, updates and crashes, any number of WebSocket threads, and
\* as long as nobody uses the REST interface: whenever no thread is between a change
\* of the chain and the file operation that belongs to it, chain.ashdb holds exactly
\* the chain, or a crash has left its first record torn.
THEOREM FileMirrors == ASSUME Unasked PROVE Spec => []FileMirrorsChain
<1>1. NodeInv /\ StorageInv => FileMirrorsChain
  BY DEF StorageInv, OneAtWork, FileFollows, Stored, FileMirrorsChain, Storing, NodeInv,
    FileThere, TornFirst
<1> QED
  BY <1>1, StorageInvariant, PTL

\* The same node, whatever moment it crashes at, unless it finds the first record of the
\* file torn: with no file operation under way it comes back with its chain; after a
\* crash in the middle of adding blocks it comes back, if it does, with all the file
\* had and nothing but blocks it was adding.
THEOREM CrashKeeps == ASSUME Unasked PROVE Spec => CrashKeepsChain
<1> DEFINE Keeps ==
      dead # NoCrash /\ dead' = NoCrash /\ ~TornFirst(file) =>
        /\ dead.doing \cap {"write", "append", "reset", "rewrite"} = {}
             => status' = "up" /\ chain' = dead.chain
        /\ "write" \in dead.doing /\ status' = "up"
             => Grown(SubSeq(dead.chain, 1, Len(dead.chain) - 1), dead.chain, chain')
        /\ "append" \in dead.doing /\ status' = "up"
             => Grown(dead.chain, AddBlocks(dead.chain, dead.temp), chain')
<1>1. ASSUME NodeInv /\ StorageInv, [Next]_vars
      PROVE  [Keeps]_vars
  <2>1. SUFFICES ASSUME dead # NoCrash, dead' = NoCrash, ~TornFirst(file)
                 PROVE  Keeps
    BY DEF Keeps
  <2>2. ~Crash
    <3>1. SUFFICES ASSUME Crash PROVE FALSE
      OBVIOUS
    <3>2. dead'.doing = {at[t] : t \in Threads}
      BY <2>1, <3>1 DEF Crash
    <3>3. at["main"] \in dead'.doing
      BY <3>2 DEF Threads
    <3> QED
      BY <2>1, <3>3 DEF NoCrash
  <2>3. Running /\ Initialize
    <3>1. ~UNCHANGED dead
      BY <2>1
    <3> QED
      BY <1>1, <2>2, <3>1 DEF vars, Next, MainThread, MineThread, WsThread, RestThread, Message,
        Sync, Launch, StartHttp, Autostart, LeaveRun, DestructorJoins, DestructorStopsHttp,
        DestructorJoinsHttp, DestroyMembers, DestroyPeers, MineLoop, Template,
        TemplateOfNothing, EnterMineBlock, AbortMining, AddMined, WriteMined, Broadcast, Found,
        CheckMining, SyncNothing, SyncBegin, SyncAppend, SyncReplace, SyncReset, SyncRewrite,
        ReceiveUpdate, MessageWithoutChain, MessageWithoutLogger, StartMining, StopMining,
        JoinMineThread, JoinTwice, Shutdown, BeginRead, EndRead, Race, past
  <2>4. LeftOf(dead.chain, dead.temp, dead.doing, file)
    BY <1>1, <2>1 DEF StorageInv, Remembers
  <2>5. file.exists /\ ~file.cut /\ isValidChain(file.blocks)
          => status' = "up" /\ chain' = file.blocks
    BY <2>1, <2>3 DEF Initialize, Load, LoadTorn, Refuse, LoadGarbage, Loaded, Running
  <2>6. file.exists /\ status' = "up" => chain' = file.blocks
    BY <2>1, <2>3 DEF Initialize, Load, LoadTorn, Refuse, LoadGarbage, Loaded, Running
  <2>7. dead.doing \cap {"write", "append", "reset", "rewrite"} = {}
          => file.exists /\ ~file.cut /\ file.blocks = dead.chain /\ isValidChain(dead.chain)
    BY <2>1, <2>4 DEF LeftOf, FileOf
  <2> QED
    BY <2>1, <2>4, <2>5, <2>6, <2>7 DEF LeftOf, Keeps
<1>2. NodeInv /\ StorageInv /\ [Next]_vars => [Keeps]_vars
  BY <1>1
<1> QED
  BY <1>2, StorageInvariant, PTL DEF Spec, CrashKeepsChain, Keeps

-------------------------------------------------------------------------------
(* What keeps the mining thread apart from the others, in any node.          *)

\* As long as no request was served that starts or stops mining or the node:
\* _miningDone is not set while there is a mining thread that may mine, and a
\* WebSocket thread applies an update only if it is set.
Requests == count["starts"] + count["stops"] + count["shutdowns"]
DoneMeansIdle ==
  /\ ~exit
  /\ at["main"] \in {"off", "initialize", "http", "autostart", "wait"}
  /\ at["main"] # "wait" => ~done /\ at["mine"] = "off"
  /\ done => at["mine"] \in {"off", "exited"}
  /\ \A t \in Ws : at[t] \in {"sync", "append", "replace", "reset", "rewrite"} => done
Apart == Requests = 0 => DoneMeansIdle

\* No step takes a request back, and the steps that serve one count it.
LEMMA RequestsGrow ==
  ASSUME NodeInv, [Next]_vars, Requests' = 0
  PROVE  Requests = 0 /\ ~StartMining /\ ~StopMining /\ ~Shutdown
<1>1. count \in [Counted -> Nat]
  BY DEF NodeInv, Values
<1>2. UNCHANGED count \/ \E c \in Counted : count' = [count EXCEPT ![c] = @ + 1]
  BY DEF vars, Next, MainThread, MineThread, WsThread, RestThread, Message, MainOnly,
    Sync, Launch, Initialize, StartHttp, Autostart, LeaveRun, DestructorJoins,
    DestructorStopsHttp, DestructorJoinsHttp, DestroyMembers, DestroyPeers, MineLoop, Template,
    TemplateOfNothing, EnterMineBlock, AbortMining, AddMined, WriteMined, Broadcast, Found,
    CheckMining, SyncNothing, SyncBegin, SyncAppend, SyncReplace, SyncReset, SyncRewrite,
    ReceiveUpdate, MessageWithoutChain, MessageWithoutLogger, StartMining, StopMining,
    JoinMineThread, JoinTwice, Shutdown, BeginRead, EndRead, Race, Crash, Counts, Counted
<1>3. \A c \in {"starts", "stops", "shutdowns"} :
        /\ count[c] \in Nat /\ count'[c] \in Nat /\ count[c] <= count'[c]
  BY <1>1, <1>2 DEF Counted
<1>4. /\ count'["starts"] = 0 /\ count'["stops"] = 0 /\ count'["shutdowns"] = 0
      /\ count["starts"] = 0 /\ count["stops"] = 0 /\ count["shutdowns"] = 0
  <2>1. Requests' = count'["starts"] + count'["stops"] + count'["shutdowns"]
    BY DEF Requests
  <2>2. /\ count'["starts"] \in Nat /\ count'["stops"] \in Nat /\ count'["shutdowns"] \in Nat
        /\ count["starts"] \in Nat /\ count["stops"] \in Nat /\ count["shutdowns"] \in Nat
    BY <1>3
  <2>3. /\ count'["starts"] = 0 /\ count'["stops"] = 0 /\ count'["shutdowns"] = 0
    BY <2>1, <2>2
  <2> QED
    BY <1>3, <2>2, <2>3
<1>5. ~StartMining /\ ~StopMining /\ ~Shutdown
  BY <1>1, <1>4 DEF StartMining, StopMining, Shutdown, Counts, Counted
<1> QED
  BY <1>4, <1>5 DEF Requests

LEMMA ApartNext ==
  ASSUME NodeInv, Apart, [Next]_vars
  PROVE  Apart'
<1>1. SUFFICES ASSUME Requests' = 0
               PROVE  DoneMeansIdle'
  BY DEF Apart
<1>2. DoneMeansIdle /\ ~StartMining /\ ~StopMining /\ ~Shutdown
  BY <1>1, RequestsGrow DEF Apart
<1>3. at \in [Threads -> Places] /\ Positions
  BY DEF NodeInv, Values
<1>4. {"main", "mine", "rest"} \subseteq Threads /\ Ws \subseteq Threads
        /\ "main" \notin Ws /\ "mine" \notin Ws /\ "rest" \notin Ws
  BY WsApart DEF Threads
<1>5. ASSUME UNCHANGED <<done, exit, at>>
      PROVE  DoneMeansIdle'
  BY <1>2, <1>5 DEF DoneMeansIdle
<1>6. CASE Launch
  BY <1>3, <1>4, <1>6 DEF Launch, DoneMeansIdle
<1>7. CASE UNCHANGED vars \/ Crash
  BY <1>5, <1>7 DEF vars, Crash, flags
<1>8. CASE Initialize \/ StartHttp
  BY <1>2, <1>3, <1>4, <1>8
    DEF Initialize, Load, LoadTorn, Refuse, LoadGarbage, StartHttp, Goes, flags, DoneMeansIdle
<1>9. CASE Autostart
  BY <1>2, <1>3, <1>4, <1>9 DEF Autostart, AssignMineThread, Goes, DoneMeansIdle
<1>10. /\ ~LeaveRun /\ ~DestructorJoins /\ ~DestructorStopsHttp /\ ~DestructorJoinsHttp
       /\ ~DestroyMembers /\ ~DestroyPeers
  BY <1>2 DEF DoneMeansIdle, LeaveRun, DestructorJoins, DestructorStopsHttp,
    DestructorJoinsHttp, DestroyMembers, DestroyPeers
<1>11. CASE MineLoop \/ Template \/ EnterMineBlock \/ AbortMining \/ AddMined \/ WriteMined
              \/ Broadcast \/ Found
  <2>1. at["mine"] \notin {"off", "exited"}
    BY <1>11 DEF MineLoop, Template, EnterMineBlock, AbortMining, AddMined, WriteMined,
      Broadcast, Found
  <2>2. at["main"] = "wait" /\ ~done /\ ~exit
    BY <1>2, <2>1 DEF DoneMeansIdle
  <2>3. /\ UNCHANGED exit
        /\ \E p \in Places : at' = [at EXCEPT !["mine"] = p]
        /\ UNCHANGED done \/ at' = [at EXCEPT !["mine"] = "exited"]
    BY <1>11 DEF MineLoop, Template, EnterMineBlock, AbortMining, AddMined, WriteMined,
      Broadcast, Found, Goes, flags, Places
  <2>4. at'["main"] = "wait" /\ (done' => at'["mine"] = "exited") /\ ~exit'
          /\ \A u \in Ws : at'[u] = at[u]
    BY <1>3, <1>4, <2>2, <2>3
  <2>5. \A u \in Ws : at[u] \notin {"sync", "append", "replace", "reset", "rewrite"}
    BY <1>2, <2>2 DEF DoneMeansIdle
  <2> QED
    BY <2>4, <2>5 DEF DoneMeansIdle
<1>12. CASE TemplateOfNothing \/ JoinTwice \/ Race
              \/ \E t \in Ws : MessageWithoutChain(t) \/ MessageWithoutLogger(t)
  BY <1>5, <1>12
    DEF TemplateOfNothing, JoinTwice, Race, MessageWithoutChain, MessageWithoutLogger, flags
<1>13. ASSUME NEW t \in {"mine"} \cup Ws, Sync(t)
       PROVE  DoneMeansIdle'
  <2>1. UNCHANGED <<done, exit>>
    BY <1>13 DEF Sync, SyncNothing, SyncBegin, SyncAppend, SyncReplace, SyncReset, SyncRewrite,
      flags
  <2>2. at[t] \in {"sync", "append", "replace", "reset", "rewrite"}
    BY <1>13 DEF Sync, SyncNothing, SyncBegin, SyncAppend, SyncReplace, SyncReset, SyncRewrite
  <2>3. \E p \in Places : at' = [at EXCEPT ![t] = p]
    BY <1>13 DEF Sync, SyncNothing, SyncBegin, SyncAppend, SyncReplace, SyncReset, SyncRewrite,
      Goes, Returns, Places
  <2>4. CASE t = "mine"
    <3>1. at["main"] = "wait" /\ ~done
      BY <1>2, <2>2, <2>4 DEF DoneMeansIdle
    <3>2. at'["main"] = "wait" /\ \A u \in Ws : at'[u] = at[u]
      BY <1>3, <1>4, <2>3, <2>4, <3>1
    <3> QED
      BY <1>2, <2>1, <3>1, <3>2 DEF DoneMeansIdle
  <2>5. CASE t \in Ws
    <3>1. done
      BY <1>2, <2>2, <2>5 DEF DoneMeansIdle
    <3>2. at'["main"] = at["main"] /\ at'["mine"] = at["mine"]
      BY <1>3, <1>4, <2>3, <2>5
    <3> QED
      BY <1>2, <2>1, <3>1, <3>2 DEF DoneMeansIdle
  <2> QED
    BY <2>4, <2>5
<1>14. ASSUME NEW t \in Ws, CheckMining(t) \/ ReceiveUpdate(t) \/ EndRead(t) \/ BeginRead(t)
       PROVE  DoneMeansIdle'
  <2>1. UNCHANGED <<done, exit>>
    BY <1>14 DEF CheckMining, ReceiveUpdate, EndRead, BeginRead, flags
  <2>2. \/ at' = [at EXCEPT ![t] = "idle"] \/ at' = [at EXCEPT ![t] = "read"]
        \/ at' = [at EXCEPT ![t] = "check"] \/ (done /\ at' = [at EXCEPT ![t] = "sync"])
    BY <1>14 DEF CheckMining, ReceiveUpdate, EndRead, BeginRead, Goes
  <2>3. /\ at'["main"] = at["main"] /\ at'["mine"] = at["mine"]
        /\ \A u \in Ws : u # t => at'[u] = at[u]
        /\ at'[t] \in {"sync", "append", "replace", "reset", "rewrite"} => done
    BY <1>3, <1>4, <2>2
  <2> QED
    BY <1>2, <2>1, <2>3 DEF DoneMeansIdle
<1>15. CASE JoinMineThread \/ BeginRead("rest") \/ EndRead("rest")
  <2>1. UNCHANGED <<done, exit>>
    BY <1>15 DEF JoinMineThread, EndRead, BeginRead, flags
  <2>2. /\ at'["main"] = at["main"] /\ (\A u \in Ws : at'[u] = at[u])
        /\ at'["mine"] = at["mine"] \/ at'["mine"] = "off"
    BY <1>3, <1>4, <1>15 DEF JoinMineThread, EndRead, BeginRead, Goes
  <2> QED
    BY <1>2, <2>1, <2>2 DEF DoneMeansIdle
<1>16. ASSUME NEW t \in Ws, WsThread(t) \/ Message(t) PROVE DoneMeansIdle'
  BY <1>12, <1>13, <1>14, <1>16 DEF WsThread, Message
<1>17. ASSUME NEW t \in Readers, BeginRead(t) PROVE DoneMeansIdle'
  BY <1>14, <1>15, <1>17 DEF Readers
<1>18. CASE RestThread
  BY <1>15, <1>18 DEF RestThread
<1> QED
  BY <1>2, <1>6, <1>7, <1>8, <1>9, <1>10, <1>11, <1>12, <1>13, <1>16, <1>17, <1>18
    DEF Next, MainThread, MineThread

\* For all bounds and any number of WebSocket threads, without any condition: the mining
\* thread, which adds its block and writes it without the mutex, does that while another
\* thread applies an update only in a node that was asked to start or to stop mining, or
\* to shut down.
THEOREM OnlyAfterARequest == Spec => []MinesApart
<1>1. Init => Apart
  BY DEF Init, Apart, DoneMeansIdle, Threads
<1>2. NodeInv /\ Apart /\ [Next]_vars => Apart'
  BY ApartNext
<1>3. NodeInv /\ Apart => MinesApart
  <2>1. SUFFICES ASSUME NodeInv, Apart, at["mine"] \in {"add", "write"},
                        NEW t \in Ws, Applying(t)
                 PROVE  Requests > 0
    BY DEF MinesApart, Requests
  <2>2. Requests # 0
    BY <2>1 DEF Apart, DoneMeansIdle, Applying
  <2>3. Requests \in Nat
    <3>1. count["starts"] \in Nat /\ count["stops"] \in Nat /\ count["shutdowns"] \in Nat
      BY <2>1 DEF NodeInv, Values, Counted
    <3> QED
      BY <3>1 DEF Requests
  <2> QED
    BY <2>2, <2>3
<1> QED
  BY <1>1, <1>2, <1>3, NodeInvariant, PTL DEF Spec
===============================================================================
