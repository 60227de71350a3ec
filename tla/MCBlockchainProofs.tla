-------------------------- MODULE MCBlockchainProofs --------------------------
(***************************************************************************)
(* The comparisons of MCBlockchain, for chains and updates of any length:  *)
(* AddBlocks is the loop of the code, isValidChain means what it should    *)
(* and a segment is the range that was asked for.                          *)
(***************************************************************************)
EXTENDS MCBlockchain, BlockchainProofs

-------------------------------------------------------------------------------
(* AddBlocks is the loop.                                                     *)

\* addNewBlock makes a chain of a chain.
LEMMA AddNewBlockType ==
  ASSUME NEW H, NEW c \in Seq(BlockOver(H)), NEW b \in BlockOver(H)
  PROVE  addNewBlock(c, b) \in Seq(BlockOver(H))
  BY AppendProperties DEF addNewBlock

\* The loop has a state after each block, c before the first.
LEMMA LoopStates ==
  ASSUME NEW H, NEW c \in Seq(BlockOver(H)), NEW t \in Seq(BlockOver(H))
  PROVE  \E p : /\ p[0] = c
                /\ \A k \in 1..Len(t) : p[k] = addNewBlock(p[k-1], t[k])
                /\ AddBlocksLoop(c, t) = p[Len(t)]
<1> DEFINE N == Len(t)
           V == Seq(BlockOver(H))
           h == [k \in 1..N |-> [x \in V |-> addNewBlock(x, t[k])]]
           Step(f) == [k \in 0..N |-> IF k = 0 THEN c ELSE addNewBlock(f[k-1], t[k])]
           p == CHOOSE f : f = Step(f)
<1>1. N \in Nat /\ c \in V /\ \A k \in 1..N : t[k] \in BlockOver(H)
  BY ElementOfSeq, LenProperties
<1>2. h \in [1..N -> [V -> V]]
  <2>1. \A k \in 1..N : \A x \in V : addNewBlock(x, t[k]) \in V
    BY <1>1, AddNewBlockType
  <2> HIDE DEF V, N
  <2> QED
    BY <2>1
<1>3. PICK f \in [0..N -> V] : \A k \in 0..N : f[k] = IF k = 0 THEN c ELSE h[k][f[k-1]]
  <2>1. N \in Nat /\ c \in V
    BY <1>1
  <2> HIDE DEF h, N, V
  <2>2. \E f \in [0..N -> V] : Recurs(f, N, c, h)
    BY <1>2, <2>1, RecursionExists
  <2> QED
    BY <2>2 DEF Recurs
<1> HIDE DEF N, V
<1>4. ASSUME NEW k \in 0..N
      PROVE  f[k] = IF k = 0 THEN c ELSE addNewBlock(f[k-1], t[k])
  <2>1. CASE k = 0
    <3> HIDE DEF h
    <3> QED
      BY <2>1, <1>3
  <2>2. CASE k # 0
    <3>1. k \in 1..N /\ k - 1 \in 0..N
      BY <1>1, <2>2
    <3>2. f[k] = h[k][f[k-1]] /\ f[k-1] \in V
      <4> HIDE DEF h
      <4> QED
        BY <1>3, <2>2, <3>1
    <3>3. h[k][f[k-1]] = addNewBlock(f[k-1], t[k])
      BY <3>1, <3>2
    <3> QED
      BY <2>2, <3>2, <3>3
  <2> QED
    BY <2>1, <2>2
<1>5. f = Step(f)
  <2>1. f = [k \in 0..N |-> f[k]]
    OBVIOUS
  <2> QED
    BY <2>1, <1>4
<1>6. p = Step(p)
  <2> HIDE DEF Step
  <2> QED
    BY <1>5
<1>7. \A k \in 0..N : p[k] = IF k = 0 THEN c ELSE addNewBlock(p[k-1], t[k])
  <2> HIDE DEF p
  <2> QED
    BY <1>6
<1>8. AddBlocksLoop(c, t) = p[N]
  BY DEF AddBlocksLoop, N
<1> HIDE DEF p
<1>9. p[0] = c
  BY <1>1, <1>7
<1>10. ASSUME NEW k \in 1..N PROVE p[k] = addNewBlock(p[k-1], t[k])
  <2>1. k \in 0..N /\ k # 0
    BY <1>1
  <2> QED
    BY <1>7, <2>1
<1> QED
  BY <1>8, <1>9, <1>10 DEF N

\* The last block of a chain with blocks on top is the last of those.
LEMMA LastOnTop ==
  ASSUME NEW B, NEW c \in Seq(B), NEW s \in Seq(B), Len(s) > 0
  PROVE  (c \o s)[Len(c \o s)] = s[Len(s)]
OBVIOUS

\* The chain c with the blocks of t from the position first to n on top.
Taken(c, t, first, n) == c \o SubSeq(t, first, n)

\* A block more of the update on top of that.
TakesOneMore(c, t, first, n) ==
  /\ back(Taken(c, t, first, n)) = t[n]
  /\ Append(Taken(c, t, first, n), t[n+1]) = Taken(c, t, first, n + 1)

LEMMA OneMore ==
  ASSUME NEW B, NEW c \in Seq(B), NEW t \in Seq(B),
         NEW first \in Nat, NEW n \in Nat, 1 <= first, first <= n, n + 1 <= Len(t)
  PROVE  TakesOneMore(c, t, first, n)
<1> DEFINE s == SubSeq(t, first, n)
<1>1. Len(t) \in Nat /\ Len(c) \in Nat
  BY LenProperties
<1>2. \A i \in first..n : t[i] \in B
  <2>1. ASSUME NEW i \in first..n PROVE i \in 1..Len(t)
    BY <1>1
  <2> QED
    BY <2>1, ElementOfSeq
<1>3. /\ s \in Seq(B) /\ Len(s) = n - first + 1
      /\ \A i \in 1..(n - first + 1) : s[i] = t[first + i - 1]
  BY <1>2, SubSeqProperties
<1>4. SubSeq(t, first, n + 1) = Append(s, t[n+1]) /\ t[n+1] \in B
  <2>1. /\ n + 1 \in first..Len(t) /\ (n + 1) - 1 = n /\ n + 1 \in 1..Len(t)
        /\ first \in 1..Len(t)
    BY <1>1
  <2>2. SubSeq(t, first, n + 1) = s \o <<t[n+1]>> /\ t[n+1] \in B
    BY <2>1, ElementOfSeq, SubSeqRecursiveSecond
  <2> HIDE DEF s
  <2>3. Append(s, t[n+1]) = s \o <<t[n+1]>>
    BY <1>3, <2>2, AppendIsConcat
  <2> QED
    BY <2>2, <2>3
<1> HIDE DEF s
<1>5. Append(c \o s, t[n+1]) = c \o Append(s, t[n+1])
  <2> DEFINE b == t[n+1]
  <2>1. c \in Seq(B) /\ s \in Seq(B) /\ b \in B
    BY <1>3, <1>4
  <2> HIDE DEF b
  <2>2. Append(c \o s, b) = c \o Append(s, b)
    BY <2>1, SMTT(30)
  <2> QED
    BY <2>2 DEF b
<1>6. back(c \o s) = t[n]
  <2>1. /\ Len(s) > 0 /\ Len(s) \in 1..(n - first + 1) /\ first + Len(s) - 1 = n
    BY <1>1, <1>3
  <2>2. s[Len(s)] = t[n]
    BY <1>3, <2>1
  <2>3. (c \o s)[Len(c \o s)] = s[Len(s)]
    BY <1>3, <2>1, LastOnTop
  <2> QED
    BY <2>2, <2>3 DEF back
<1> QED
  BY <1>4, <1>5, <1>6 DEF s, Taken, TakesOneMore

\* The blocks in front of the first one that names the last block of c are refused,
\* and all after it are taken.
LEMMA LoopTakes ==
  ASSUME NEW H, NEW c \in Seq(BlockOver(H)), NEW t \in Seq(BlockOver(H)), isValidChain(t),
         NEW p, p[0] = c, \A k \in 1..Len(t) : p[k] = addNewBlock(p[k-1], t[k]),
         NEW first \in 1..(Len(t) + 1),
         \A k \in 1..Len(t) : k < first => ~(ValidHash(t[k]) /\ t[k].prev = back(c).hash),
         first <= Len(t) => ValidHash(t[first]) /\ t[first].prev = back(c).hash
  PROVE  p[Len(t)] = IF first <= Len(t) THEN Taken(c, t, first, Len(t)) ELSE c
<1> DEFINE Good(n) == p[n] = IF first <= n THEN Taken(c, t, first, n) ELSE c
           S == {n \in Nat : n <= Len(t) => Good(n)}
<1>1. Len(t) \in Nat
  BY LenProperties
<1>2. Good(0)
  BY <1>1
<1>3. ASSUME NEW n \in Nat, n + 1 <= Len(t), Good(n)
      PROVE  Good(n + 1)
  <2>1. n + 1 \in 1..Len(t) /\ (n + 1) - 1 = n
    BY <1>1, <1>3
  <2>2. p[n+1] = addNewBlock(p[n], t[n+1])
    BY <2>1
  <2>3. CASE n + 1 < first
    <3>1. ~(first <= n) /\ ~(first <= n + 1)
      BY <1>1, <2>3
    <3>2. p[n] = c
      BY <1>3, <3>1
    <3>3. p[n+1] = c
      BY <2>1, <2>2, <2>3, <3>2 DEF addNewBlock
    <3> QED
      BY <3>1, <3>3
  <2>4. CASE n + 1 = first
    <3>1. ~(first <= n) /\ first <= n + 1 /\ first <= Len(t)
      BY <1>1, <2>1, <2>4
    <3>2. p[n] = c
      BY <1>3, <3>1
    <3>3. p[n+1] = Append(c, t[n+1])
      BY <2>2, <2>4, <3>1, <3>2 DEF addNewBlock
    <3>4. t[n+1] \in BlockOver(H)
      BY <2>1, ElementOfSeq
    <3>5. Append(c, t[n+1]) = c \o <<t[n+1]>>
      BY <3>4, AppendIsConcat
    <3>6. SubSeq(t, first, n + 1) = <<t[n+1]>>
      <4>1. first \in 1..Len(t) /\ n + 1 \in first..Len(t)
        BY <1>1, <2>1, <2>4
      <4>2. SubSeq(t, first, n + 1) = <<t[first]>> \o SubSeq(t, first + 1, n + 1)
        BY <4>1, SubSeqRecursiveFirst
      <4>3. SubSeq(t, first + 1, n + 1) = << >>
        BY <1>1, <2>4, SubSeqEmpty
      <4>4. <<t[n+1]>> \in Seq(BlockOver(H))
        BY <3>4
      <4> QED
        BY <2>4, <4>2, <4>3, <4>4, ConcatEmptySeq
    <3> QED
      BY <3>1, <3>3, <3>5, <3>6 DEF Taken
  <2>5. CASE n + 1 > first
    <3>1. first <= n /\ first <= n + 1 /\ first \in 1..Len(t) /\ n \in first..Len(t)
      BY <1>1, <2>1, <2>5
    <3>2. p[n] = Taken(c, t, first, n)
      BY <1>3, <3>1
    <3>3. /\ back(Taken(c, t, first, n)) = t[n]
          /\ Append(Taken(c, t, first, n), t[n+1]) = Taken(c, t, first, n + 1)
      <4>1. first \in Nat /\ n \in Nat /\ 1 <= first /\ first <= n /\ n + 1 <= Len(t)
        BY <1>1, <1>3, <3>1
      <4>2. TakesOneMore(c, t, first, n)
        BY <4>1, OneMore
      <4> QED
        BY <4>2 DEF TakesOneMore
    <3>4. t[n+1].sealed /\ t[n+1].prev = t[n].hash
      <4>1. n + 1 \in 2..Len(t)
        BY <1>1, <2>1, <3>1
      <4>2. isValidBlockPair(t, n + 1)
        BY <4>1 DEF isValidChain
      <4> QED
        BY <2>1, <4>2 DEF isValidBlockPair
    <3>5. p[n+1] = Taken(c, t, first, n + 1)
      BY <2>2, <3>2, <3>3, <3>4 DEF addNewBlock, ValidHash
    <3> QED
      BY <3>1, <3>5
  <2> QED
    BY <1>1, <2>3, <2>4, <2>5
<1> HIDE DEF Good
<1>4. S = Nat
  <2>1. ASSUME NEW n \in S PROVE n + 1 \in S
    <3>1. n \in Nat /\ (n + 1 <= Len(t) => n <= Len(t))
      BY <1>1
    <3> QED
      BY <1>3, <3>1
  <2>2. S \in SUBSET Nat /\ 0 \in S
    BY <1>2
  <2> HIDE DEF S
  <2> QED
    BY <2>1, <2>2, SetInduction
<1>5. Good(Len(t))
  <2>1. Len(t) \in S
    <3> HIDE DEF S
    <3> QED
      BY <1>1, <1>4
  <2> QED
    BY <1>1, <2>1
<1> QED
  BY <1>5 DEF Good

\* The closed form used in all modules and the loop of the code are the same, for
\* every chain and every update that passed isValidChain.
THEOREM AddBlocksEqualsLoop ==
  ASSUME NEW H, NEW c \in Seq(BlockOver(H)), NEW t \in Seq(BlockOver(H)), isValidChain(t)
  PROVE  AddBlocks(c, t) = AddBlocksLoop(c, t)
<1> DEFINE Fits(k) == ValidHash(t[k]) /\ t[k].prev = back(c).hash
           fits == {k \in DOMAIN t : Fits(k)}
           first == CHOOSE k \in fits : \A j \in fits : k <= j
<1>1. Len(t) \in Nat /\ DOMAIN t = 1..Len(t)
  BY LenProperties
<1>2. PICK p : /\ p[0] = c
               /\ \A k \in 1..Len(t) : p[k] = addNewBlock(p[k-1], t[k])
               /\ AddBlocksLoop(c, t) = p[Len(t)]
  BY LoopStates
<1> DEFINE TakesFrom(f) == p[Len(t)] = IF f <= Len(t) THEN Taken(c, t, f, Len(t)) ELSE c
<1>3. ASSUME NEW f \in 1..(Len(t) + 1), \A k \in 1..Len(t) : k < f => ~Fits(k),
             f <= Len(t) => Fits(f)
      PROVE  TakesFrom(f)
  BY <1>2, <1>3, LoopTakes
<1>4. fits = {j \in 1..Len(t) : Fits(j)}
  BY <1>1
<1>5. AddBlocks(c, t) = IF fits = {} THEN c ELSE Taken(c, t, first, Len(t))
  BY DEF AddBlocks, Taken
<1> HIDE DEF Fits, TakesFrom
<1>6. CASE fits = {}
  <2>1. TakesFrom(Len(t) + 1)
    BY <1>1, <1>3, <1>4, <1>6
  <2>2. ~(Len(t) + 1 <= Len(t))
    BY <1>1
  <2>3. p[Len(t)] = c
    BY <2>1, <2>2 DEF TakesFrom
  <2> QED
    BY <1>2, <1>5, <1>6, <2>3
<1>7. CASE fits # {}
  <2>1. fits \subseteq Nat
    BY <1>1, <1>4
  <2> HIDE DEF fits
  <2>2. \E x \in fits : \A y \in fits : ~(<<y, x>> \in OpToRel(<, Nat))
    BY <1>7, <2>1, WFMin, NatLessThanWellFounded
  <2>3. \E x \in fits : \A y \in fits : x <= y
    <3>1. PICK x \in fits : \A y \in fits : ~(<<y, x>> \in OpToRel(<, Nat))
      BY <2>2
    <3>2. ASSUME NEW y \in fits PROVE x <= y
      <4>1. ~(y < x)
        BY <2>1, <3>1 DEF OpToRel
      <4> QED
        BY <2>1, <4>1
    <3> QED
      BY <3>2
  <2>4. first \in fits /\ \A j \in fits : first <= j
    BY <2>3
  <2> HIDE DEF first
  <2>5. first \in 1..Len(t) /\ Fits(first)
    BY <1>4, <2>4
  <2>6. ASSUME NEW k \in 1..Len(t), k < first PROVE ~Fits(k)
    BY <1>1, <1>4, <2>4, <2>5, <2>6
  <2>7. TakesFrom(first)
    <3>1. first \in 1..(Len(t) + 1)
      BY <1>1, <2>5
    <3> QED
      BY <1>3, <2>5, <2>6, <3>1
  <2>8. p[Len(t)] = Taken(c, t, first, Len(t))
    BY <1>1, <2>5, <2>7 DEF TakesFrom
  <2> QED
    BY <1>2, <1>5, <1>7, <2>8
<1> QED
  BY <1>6, <1>7

-------------------------------------------------------------------------------
(* A segment is a range.                                                      *)

\* The blocks of a segment and the blocks with an index from id1 to id2.
SegmentFits(c, id1, id2) ==
  LET s == Segment(c, id1, id2)
  IN  /\ {s[i] : i \in DOMAIN s}
           = {b \in {c[i] : i \in DOMAIN c} : id1 <= b.index /\ b.index <= id2}
      /\ \A i, j \in DOMAIN s : i < j => s[i].index < s[j].index

\* For every well-formed chain and every range they are the same, in order.
THEOREM SegmentIsExact ==
  ASSUME NEW H, NEW c \in Seq(BlockOver(H)), WellFormed(c),
         NEW id1 \in Nat, NEW id2 \in Nat
  PROVE  SegmentFits(c, id1, id2)
<1> DEFINE s == Segment(c, id1, id2)
           last == IF id2 < Len(c) THEN id2 + 1 ELSE Len(c)
           inRange == {b \in {c[i] : i \in DOMAIN c} : id1 <= b.index /\ b.index <= id2}
<1>1. /\ Len(c) \in Nat \ {0} /\ DOMAIN c = 1..Len(c)
      /\ \A i \in 1..Len(c) : c[i].index = i - 1
  BY BackOfChain, LenProperties
<1>2. CASE ~(id1 < Len(c) /\ id1 <= id2)
  <2>1. s = <<>>
    BY <1>2 DEF Segment
  <2>2. DOMAIN s = {}
    BY <2>1
  <2>3. inRange = {}
    <3>1. SUFFICES ASSUME NEW i \in 1..Len(c), id1 <= c[i].index, c[i].index <= id2
                   PROVE  FALSE
      BY <1>1
    <3>2. c[i].index = i - 1
      BY <1>1
    <3> QED
      BY <1>1, <1>2, <3>1, <3>2
  <2> HIDE DEF s, inRange
  <2>4. /\ {s[i] : i \in DOMAIN s} = inRange
        /\ \A i, j \in DOMAIN s : i < j => s[i].index < s[j].index
    BY <2>2, <2>3
  <2> QED
    BY <2>4 DEF SegmentFits, s, inRange
<1>3. CASE id1 < Len(c) /\ id1 <= id2
  <2>1. s = SubSeq(c, id1 + 1, last)
    BY <1>3 DEF Segment
  <2>2. /\ last \in Int /\ last >= id1 + 1 /\ last <= Len(c)
        /\ \A k \in 0..(Len(c) - 1) : k <= id2 <=> k + 1 <= last
    BY <1>1, <1>3
  <2> HIDE DEF last
  <2>3. \A i \in (id1 + 1)..last : c[i] \in BlockOver(H)
    <3>1. ASSUME NEW i \in (id1 + 1)..last PROVE i \in 1..Len(c)
      BY <1>1, <2>2
    <3> QED
      BY <3>1, ElementOfSeq
  <2>4. /\ SubSeq(c, id1 + 1, last) \in Seq(BlockOver(H))
        /\ Len(SubSeq(c, id1 + 1, last)) =
             IF id1 + 1 <= last THEN last - (id1 + 1) + 1 ELSE 0
        /\ \A i \in 1..(last - (id1 + 1) + 1) :
             SubSeq(c, id1 + 1, last)[i] = c[(id1 + 1) + i - 1]
    <3>1. id1 + 1 \in Int /\ last \in Int
      BY <2>2
    <3> QED
      BY <2>3, <3>1, SubSeqProperties
  <2>5. DOMAIN s = 1..(last - id1) /\ \A i \in 1..(last - id1) : s[i] = c[id1 + i]
    <3>1. s \in Seq(BlockOver(H)) /\ Len(s) = last - (id1 + 1) + 1
      BY <2>1, <2>2, <2>4
    <3>2. last - (id1 + 1) + 1 = last - id1
      BY <2>2
    <3>3. DOMAIN s = 1..(last - id1)
      <4> HIDE DEF s
      <4> QED
        BY <3>1, <3>2, LenProperties
    <3>4. ASSUME NEW i \in 1..(last - id1) PROVE s[i] = c[id1 + i]
      <4>1. (id1 + 1) + i - 1 = id1 + i
        BY <2>2
      <4> QED
        BY <2>1, <2>4, <3>2, <4>1
    <3> QED
      BY <3>3, <3>4
  <2> HIDE DEF s
  <2>6. ASSUME NEW i \in DOMAIN s
        PROVE  id1 + i \in 1..Len(c) /\ s[i].index = id1 + i - 1 /\ s[i].index <= id2
    <3>1. i \in 1..(last - id1) /\ id1 + i \in 1..Len(c) /\ id1 + i - 1 \in 0..(Len(c) - 1)
          /\ (id1 + i - 1) + 1 <= last
      BY <1>1, <2>2, <2>5
    <3>2. s[i].index = id1 + i - 1
      BY <1>1, <2>5, <3>1
    <3>3. id1 + i - 1 <= id2
      BY <2>2, <3>1
    <3> QED
      BY <3>1, <3>2, <3>3
  <2>7. ASSUME NEW i \in 1..Len(c), id1 <= c[i].index, c[i].index <= id2
        PROVE  \E k \in DOMAIN s : s[k] = c[i]
    <3>1. c[i].index = i - 1 /\ i - 1 \in 0..(Len(c) - 1)
      BY <1>1
    <3>2. i - 1 <= id2 /\ id1 <= i - 1
      BY <2>7, <3>1
    <3>3. (i - 1) + 1 <= last
      BY <2>2, <3>1, <3>2
    <3>4. i - id1 \in 1..(last - id1) /\ id1 + (i - id1) = i
      BY <1>1, <2>2, <3>2, <3>3
    <3> QED
      BY <2>5, <3>4
  <2>8. {s[i] : i \in DOMAIN s} = inRange
    <3>1. ASSUME NEW i \in DOMAIN s PROVE s[i] \in inRange
      <4>1. s[i] = c[id1 + i] /\ id1 + i \in DOMAIN c
        BY <1>1, <2>5, <2>6
      <4>2. id1 <= s[i].index /\ s[i].index <= id2
        BY <2>5, <2>6, <2>2
      <4> QED
        BY <4>1, <4>2
    <3>2. ASSUME NEW b \in inRange PROVE \E k \in DOMAIN s : s[k] = b
      BY <1>1, <2>7, <3>2
    <3> HIDE DEF inRange
    <3> QED
      BY <3>1, <3>2
  <2>9. ASSUME NEW i \in DOMAIN s, NEW j \in DOMAIN s, i < j
        PROVE  s[i].index < s[j].index
    BY <2>2, <2>5, <2>6, <2>9
  <2> QED
    BY <2>8, <2>9 DEF SegmentFits, s, inRange
<1> QED
  BY <1>2, <1>3

-------------------------------------------------------------------------------
(* The chains and updates of MCBlockchain.                                    *)

\* The hashes of all blocks.
H == Hashes \cup {Genesis}

\* The chain is one, and the update is made of blocks.
OperandsInv ==
  /\ local \in Seq(BlockOver(H)) /\ WellFormed(local)
  /\ update \in Seq(BlockOver(H))

\* Growing them keeps that.
LEMMA OperandsInvariant == Spec => []OperandsInv
<1>1. Init => OperandsInv
  <2> SUFFICES ASSUME Init PROVE OperandsInv
    OBVIOUS
  <2>1. GenesisBlock(Genesis, 0) \in BlockOver(H) /\ GenesisBlock(Genesis, 0).index = 0
    BY DEF GenesisBlock, BlockOver, H
  <2>2. local \in Seq(BlockOver(H)) /\ Len(local) = 1 /\ local[1].index = 0
    BY <2>1 DEF Init
  <2>3. WellFormed(local)
    BY <2>2 DEF WellFormed, Linked
  <2>4. update \in Seq(BlockOver(H))
    BY DEF Init
  <2> QED
    BY <2>2, <2>3, <2>4 DEF OperandsInv
<1>2. OperandsInv /\ [Next]_<<local, update>> => OperandsInv'
  <2> SUFFICES ASSUME OperandsInv, [Next]_<<local, update>> PROVE OperandsInv'
    OBVIOUS
  <2> USE DEF OperandsInv
  <2>1. CASE Grow
    <3>1. PICK h \in Hashes, d \in Difficulties :
            local' = addNewBlock(local, MinedBlock(UnminedBlock(local, d), h, 0))
      BY <2>1 DEF Grow
    <3> DEFINE b == MinedBlock(UnminedBlock(local, d), h, 0)
    <3>2. Len(local) \in Nat /\ back(local) \in BlockOver(H)
      BY BackOfChain
    <3>3. /\ b \in BlockOver(H) /\ b.index = Len(local) /\ b.prev = back(local).hash
          /\ b.sealed = TRUE
      BY <3>2, DifficultiesAssumption DEF MinedBlock, UnminedBlock, BlockOver, H
    <3> HIDE DEF b
    <3>4. local' = Append(local, b)
      BY <3>1, <3>3 DEF addNewBlock, ValidHash, b
    <3>5. Append(local, b) \in Seq(BlockOver(H)) /\ WellFormed(Append(local, b))
      BY <3>3, AppendProperties, AppendWellFormed
    <3>6. update' = update
      BY <2>1 DEF Grow
    <3> QED
      BY <3>4, <3>5, <3>6
  <2>2. CASE GrowUpdate
    <3>1. PICK b \in Candidates : update' = Append(update, b)
      BY <2>2 DEF GrowUpdate
    <3>2. b \in BlockOver(H)
      BY ChainBoundsAssumption DEF Candidates, BlockOver, H
    <3>3. local' = local
      BY <2>2 DEF GrowUpdate
    <3> QED
      BY <3>1, <3>2, <3>3, AppendProperties
  <2>3. CASE UNCHANGED <<local, update>>
    BY <2>3
  <2> QED
    BY <2>1, <2>2, <2>3 DEF Next
<1> QED
  BY <1>1, <1>2, PTL DEF Spec

\* For all sets of hashes, difficulties and bounds: AddBlocks is what the loop over
\* addNewBlock does, also for an update of which the first blocks are refused.
THEOREM LoopAndClosedForm == Spec => []AddBlocksIsLoop
<1>1. OperandsInv => AddBlocksIsLoop
  BY AddBlocksEqualsLoop DEF OperandsInv, AddBlocksIsLoop
<1> QED
  BY <1>1, OperandsInvariant, PTL

\* For all sets of hashes, difficulties and bounds: isValidChain accepts exactly the
\* sequences of consecutive blocks, also pieces that do not start at the genesis.
THEOREM ValidityMeansLinks == Spec => []ValidChainIsLinked
<1>1. OperandsInv => ValidChainIsLinked
  <2> SUFFICES ASSUME OperandsInv, NEW s \in {local, update, Tail(local)}
               PROVE  isValidChain(s) <=> Linked(s)
    BY DEF ValidChainIsLinked
  <2>1. local # <<>>
    BY DEF OperandsInv, WellFormed
  <2>2. Tail(local) \in Seq(BlockOver(H))
    BY <2>1, HeadTailProperties DEF OperandsInv
  <2>3. s \in Seq(BlockOver(H))
    BY <2>2 DEF OperandsInv
  <2> QED
    BY <2>3, ValidMeansLinked
<1> QED
  BY <1>1, OperandsInvariant, PTL

\* For all sets of hashes, difficulties and bounds: a 'chain' request gets exactly
\* the blocks in the range asked for, in their order.
THEOREM SegmentsAreRanges == Spec => []SegmentIsRange
<1>1. OperandsInv => SegmentIsRange
  <2> SUFFICES ASSUME OperandsInv, NEW id1 \in 0..(MaxChain + 1), NEW id2 \in 0..(MaxChain + 1)
               PROVE  SegmentFits(local, id1, id2)
    BY DEF SegmentIsRange, SegmentFits
  <2>1. id1 \in Nat /\ id2 \in Nat
    BY ChainBoundsAssumption
  <2> QED
    BY <2>1, SegmentIsExact DEF OperandsInv
<1> QED
  BY <1>1, OperandsInvariant, PTL
===============================================================================
