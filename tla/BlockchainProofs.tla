--------------------------- MODULE BlockchainProofs ---------------------------
(***************************************************************************)
(* Facts about the operators of Blockchain, for chains of any length.      *)
(***************************************************************************)
EXTENDS Blockchain, SequenceTheorems, WellFoundedInduction, TLAPS

-------------------------------------------------------------------------------
(* The weight of a chain is a natural number.  pow2 and cumDifficulty are      *)
(* recursive functions on an initial segment of Nat; that such a function      *)
(* exists is shown by induction, in the form of a set closed under +1.         *)

\* A set of naturals that has 0 and, with n, also n + 1 is all of Nat.
LEMMA SetInduction ==
  ASSUME NEW S \in SUBSET Nat, 0 \in S, \A n \in S : n + 1 \in S
  PROVE  S = Nat
<1>1. SUFFICES ASSUME Nat \ S # {} PROVE FALSE
  OBVIOUS
<1>2. \E x \in Nat \ S : \A y \in Nat \ S : ~(<<y, x>> \in OpToRel(<, Nat))
  BY <1>1, WFMin, NatLessThanWellFounded, Nat \ S \subseteq Nat
<1>3. PICK x \in Nat \ S : \A y \in Nat \ S : ~(y < x)
  BY <1>2 DEF OpToRel
<1>4. x # 0 /\ x - 1 \in Nat
  BY <1>3
<1>5. x - 1 \in S
  BY <1>3, <1>4
<1> QED
  BY <1>3, <1>4, <1>5

\* f starts at a and goes from f[k-1] to h[k][f[k-1]].
Recurs(f, N, a, h) == \A k \in 0..N : f[k] = IF k = 0 THEN a ELSE h[k][f[k-1]]

\* A recursion that starts at a and goes from f[k-1] to h[k][f[k-1]] has a
\* solution on 0..N, whatever set V its values are from ...
LEMMA RecursionExists ==
  ASSUME NEW V, NEW N \in Nat, NEW a \in V, NEW h \in [1..N -> [V -> V]]
  PROVE  \E f \in [0..N -> V] : Recurs(f, N, a, h)
<1> DEFINE Solves(f, n) ==
             /\ f \in [0..n -> V]
             /\ \A k \in 0..n : f[k] = IF k = 0 THEN a ELSE h[k][f[k-1]]
           Good(n) == \E f : Solves(f, n)
           S == {n \in Nat : n <= N => Good(n)}
<1>1. Good(0)
  <2>1. Solves([k \in 0..0 |-> a], 0)
    OBVIOUS
  <2> QED
    BY <2>1
<1>2. ASSUME NEW n \in Nat, n + 1 <= N, Good(n)
      PROVE  Good(n + 1)
  <2>1. PICK f : Solves(f, n)
    BY <1>2
  <2> DEFINE g == [k \in 0..(n+1) |-> IF k = n + 1 THEN h[n+1][f[n]] ELSE f[k]]
  <2>2. n + 1 \in 1..N /\ f[n] \in V /\ h[n+1] \in [V -> V]
    BY <1>2, <2>1
  <2>3. h[n+1][f[n]] \in V
    BY <2>2
  <2>4. g \in [0..(n+1) -> V]
    <3>1. ASSUME NEW k \in 0..(n+1), k # n + 1 PROVE f[k] \in V
      <4>1. k \in 0..n
        BY <3>1
      <4> QED
        BY <2>1, <4>1
    <3> QED
      BY <2>3, <3>1
  <2>5. ASSUME NEW k \in 0..(n+1)
        PROVE  g[k] = IF k = 0 THEN a ELSE h[k][g[k-1]]
    <3>1. CASE k = n + 1
      <4>1. k # 0 /\ k - 1 = n /\ n \in 0..(n+1) /\ n # n + 1
        BY <3>1
      <4>2. g[n] = f[n] /\ g[n+1] = h[n+1][f[n]]
        BY <4>1
      <4> HIDE DEF g
      <4> QED
        BY <3>1, <4>1, <4>2
    <3>2. CASE k # n + 1
      <4>1. k \in 0..n /\ (k # 0 => k - 1 \in 0..n)
        BY <3>2
      <4>2. g[k] = f[k] /\ (k # 0 => g[k-1] = f[k-1])
        BY <3>2, <4>1
      <4>3. f[k] = IF k = 0 THEN a ELSE h[k][f[k-1]]
        BY <2>1, <4>1
      <4> HIDE DEF g
      <4> QED
        BY <4>2, <4>3
    <3> QED
      BY <3>1, <3>2
  <2>6. Solves(g, n + 1)
    BY <2>4, <2>5
  <2> QED
    BY <2>6
<1> HIDE DEF Good
<1>3. S = Nat
  <2>1. S \in SUBSET Nat /\ 0 \in S /\ \A n \in S : n + 1 \in S
    BY <1>1, <1>2
  <2> HIDE DEF S
  <2> QED
    BY <2>1, SetInduction
<1>4. Good(N)
  <2>1. N \in S
    BY <1>3
  <2> QED
    BY <2>1
<1> QED
  BY <1>4 DEF Good, Recurs

\* ... and a function on 0..N has natural values if its first value is one and
\* each value makes the next one a natural.
LEMMA NaturalUpTo ==
  ASSUME NEW N \in Nat, NEW f, f[0] \in Nat,
         \A k \in 1..N : f[k-1] \in Nat => f[k] \in Nat
  PROVE  \A k \in 0..N : f[k] \in Nat
<1> DEFINE S == {k \in Nat : k <= N => f[k] \in Nat}
<1>1. 0 \in S
  OBVIOUS
<1>2. ASSUME NEW n \in Nat, n \in S
      PROVE  n + 1 \in S
  <2>1. SUFFICES ASSUME n + 1 <= N PROVE f[n+1] \in Nat
    OBVIOUS
  <2>2. n + 1 \in 1..N /\ (n + 1) - 1 = n
    BY <2>1
  <2>3. f[n] \in Nat
    BY <1>2, <2>1
  <2>4. f[(n + 1) - 1] \in Nat
    BY <2>2, <2>3
  <2> HIDE DEF S
  <2> QED
    BY <2>2, <2>4
<1>3. S = Nat
  <2>1. S \in SUBSET Nat /\ 0 \in S /\ \A n \in S : n + 1 \in S
    BY <1>1, <1>2
  <2> HIDE DEF S
  <2> QED
    BY <2>1, SetInduction
<1>4. ASSUME NEW k \in 0..N PROVE f[k] \in Nat
  <2>1. k \in Nat /\ k <= N
    OBVIOUS
  <2>2. k \in S
    <3> HIDE DEF S
    <3> QED
      BY <1>3, <2>1
  <2> QED
    BY <2>1, <2>2
<1> QED
  BY <1>4

\* pow2(d) is a natural number for every difficulty d.
LEMMA Pow2Type ==
  ASSUME NEW d \in Nat
  PROVE  pow2(d) \in Nat
<1> DEFINE h == [k \in 1..d |-> [x \in Nat |-> 2 * x]]
           Step(f) == [k \in 0..d |-> IF k = 0 THEN 1 ELSE 2 * f[k-1]]
           p == CHOOSE f : f = Step(f)
<1>1. h \in [1..d -> [Nat -> Nat]]
  OBVIOUS
<1>2. PICK f \in [0..d -> Nat] :
        \A k \in 0..d : f[k] = IF k = 0 THEN 1 ELSE h[k][f[k-1]]
  <2> HIDE DEF h
  <2>1. \E f \in [0..d -> Nat] : Recurs(f, d, 1, h)
    BY <1>1, RecursionExists, 1 \in Nat
  <2> QED
    BY <2>1 DEF Recurs
<1>5. ASSUME NEW k \in 0..d
      PROVE  f[k] = IF k = 0 THEN 1 ELSE 2 * f[k-1]
  <2>1. CASE k = 0
    <3> HIDE DEF h
    <3> QED
      BY <2>1, <1>2
  <2>2. CASE k # 0
    <3>1. k \in 1..d /\ k - 1 \in 0..d
      BY <2>2
    <3>2. f[k] = h[k][f[k-1]] /\ f[k-1] \in Nat
      <4> HIDE DEF h
      <4> QED
        BY <1>2, <2>2, <3>1
    <3> QED
      BY <2>2, <3>1, <3>2
  <2> QED
    BY <2>1, <2>2
<1>6. f = Step(f)
  <2>1. f = [k \in 0..d |-> f[k]]
    OBVIOUS
  <2> QED
    BY <2>1, <1>5
<1>7. p = Step(p)
  <2> HIDE DEF Step
  <2> QED
    BY <1>6
<1>8. \A k \in 0..d : p[k] = IF k = 0 THEN 1 ELSE 2 * p[k-1]
  <2> HIDE DEF p
  <2> QED
    BY <1>7
<1>9. \A k \in 0..d : p[k] \in Nat
  <2> HIDE DEF p
  <2>1. p[0] \in Nat
    BY <1>8
  <2>2. ASSUME NEW k \in 1..d, p[k-1] \in Nat PROVE p[k] \in Nat
    BY <1>8, <2>2
  <2> QED
    BY <2>1, <2>2, NaturalUpTo
<1>10. pow2(d) = p[d]
  BY DEF pow2
<1> QED
  <2> HIDE DEF p
  <2> QED
    BY <1>9, <1>10

\* p[k] is what the first k blocks of c add to the cumulative difficulty.
DifficultySums(p, c) ==
  /\ p[0] = 0
  /\ \A k \in 1..Len(c) : p[k] = p[k-1] + pow2(c[k].difficulty)
  /\ \A k \in 0..Len(c) : p[k] \in Nat

\* cumDifficulty of a chain adds up the blocks but the last.
LEMMA CumDifficultySums ==
  ASSUME NEW H, NEW c \in Seq(BlockOver(H)), Len(c) > 0
  PROVE  \E p : DifficultySums(p, c) /\ cumDifficulty(c) = p[Len(c) - 1]
<1> DEFINE N == Len(c)
           w == [k \in 1..N |-> pow2(c[k].difficulty)]
           h == [k \in 1..N |-> [x \in Nat |-> x + w[k]]]
           Step(f) == [k \in 0..N |->
                         IF k = 0 THEN 0 ELSE f[k-1] + pow2(c[k].difficulty)]
           p == CHOOSE f : f = Step(f)
<1>1. N \in Nat /\ w \in [1..N -> Nat]
  <2>1. ASSUME NEW k \in 1..N PROVE c[k].difficulty \in Nat
    <3>1. c[k] \in BlockOver(H)
      BY ElementOfSeq
    <3> QED
      BY <3>1 DEF BlockOver
  <2> QED
    BY <2>1, Pow2Type, LenProperties
<1> HIDE DEF N
<1>2. \A k \in 1..N : w[k] = pow2(c[k].difficulty) /\ w[k] \in Nat
  BY <1>1
<1> HIDE DEF w
<1>3. h \in [1..N -> [Nat -> Nat]]
  BY <1>2
<1>4. PICK f \in [0..N -> Nat] :
        \A k \in 0..N : f[k] = IF k = 0 THEN 0 ELSE h[k][f[k-1]]
  <2> HIDE DEF h
  <2>1. \E f \in [0..N -> Nat] : Recurs(f, N, 0, h)
    BY <1>1, <1>3, RecursionExists, 0 \in Nat
  <2> QED
    BY <2>1 DEF Recurs
<1>5. ASSUME NEW k \in 0..N
      PROVE  f[k] = IF k = 0 THEN 0 ELSE f[k-1] + pow2(c[k].difficulty)
  <2>1. CASE k = 0
    <3> HIDE DEF h
    <3> QED
      BY <2>1, <1>4
  <2>2. CASE k # 0
    <3>1. k \in 1..N /\ k - 1 \in 0..N
      BY <1>1, <2>2
    <3>2. f[k] = h[k][f[k-1]] /\ f[k-1] \in Nat
      <4> HIDE DEF h
      <4> QED
        BY <1>4, <2>2, <3>1
    <3>3. h[k][f[k-1]] = f[k-1] + w[k]
      BY <3>1, <3>2
    <3> QED
      BY <1>2, <2>2, <3>1, <3>2, <3>3
  <2> QED
    BY <2>1, <2>2
<1>6. f = Step(f)
  <2>1. f = [k \in 0..N |-> f[k]]
    OBVIOUS
  <2> QED
    BY <2>1, <1>5
<1>7. p = Step(p)
  <2> HIDE DEF Step
  <2> QED
    BY <1>6
<1>8. \A k \in 0..N : p[k] = IF k = 0 THEN 0 ELSE p[k-1] + pow2(c[k].difficulty)
  <2> HIDE DEF p
  <2> QED
    BY <1>7
<1>9. \A k \in 0..N : p[k] \in Nat
  <2> HIDE DEF p
  <2>1. p[0] \in Nat
    BY <1>1, <1>8
  <2>2. ASSUME NEW k \in 1..N, p[k-1] \in Nat PROVE p[k] \in Nat
    <3>1. k \in 0..N /\ k # 0
      BY <1>1
    <3>2. p[k] = p[k-1] + pow2(c[k].difficulty)
      BY <1>8, <3>1
    <3> QED
      BY <1>2, <2>2, <3>2
  <2> QED
    BY <1>1, <2>1, <2>2, NaturalUpTo
<1>10. cumDifficulty(c) = p[N - 1]
  BY DEF cumDifficulty, N
<1> QED
  <2> HIDE DEF p
  <2>1. p[0] = 0
    BY <1>1, <1>8
  <2>2. ASSUME NEW k \in 1..N PROVE p[k] = p[k-1] + pow2(c[k].difficulty)
    <3>1. k \in 0..N /\ k # 0
      BY <1>1
    <3> QED
      BY <1>8, <3>1
  <2>3. DifficultySums(p, c)
    BY <1>9, <2>1, <2>2 DEF DifficultySums, N
  <2> QED
    BY <1>10, <2>3 DEF N

\* cumDifficulty of a chain that has a block is a natural number.
LEMMA CumDifficultyType ==
  ASSUME NEW H, NEW c \in Seq(BlockOver(H)), Len(c) > 0
  PROVE  cumDifficulty(c) \in Nat
<1>1. PICK p : DifficultySums(p, c) /\ cumDifficulty(c) = p[Len(c) - 1]
  BY CumDifficultySums
<1>2. Len(c) - 1 \in 0..Len(c)
  BY LenProperties
<1> QED
  BY <1>1, <1>2 DEF DifficultySums

\* A chain has no more cumulative difficulty than one it is the beginning of.
LEMMA CumDifficultyGrows ==
  ASSUME NEW H, NEW c \in Seq(BlockOver(H)), Len(c) > 0,
         NEW d \in Seq(BlockOver(H)), Len(c) <= Len(d),
         \A i \in 1..Len(c) : c[i] = d[i]
  PROVE  cumDifficulty(c) <= cumDifficulty(d)
<1>1. Len(c) \in Nat /\ Len(d) \in Nat /\ Len(d) > 0
  BY LenProperties
<1>2. PICK p : DifficultySums(p, c) /\ cumDifficulty(c) = p[Len(c) - 1]
  BY CumDifficultySums
<1>3. PICK q : DifficultySums(q, d) /\ cumDifficulty(d) = q[Len(d) - 1]
  BY <1>1, CumDifficultySums
<1> DEFINE m == Len(c) - 1
           S == {k \in Nat : /\ k <= m => p[k] = q[k]
                             /\ k <= Len(d) - 1 => (k <= m \/ q[m] <= q[k])}
<1>4. m \in Nat /\ m <= Len(d) - 1
  BY <1>1
<1>5. 0 \in S
  BY <1>2, <1>3, <1>4 DEF DifficultySums
<1>6. ASSUME NEW n \in Nat, n \in S PROVE n + 1 \in S
  <2>1. /\ n <= m => p[n] = q[n]
        /\ n <= Len(d) - 1 => (n <= m \/ q[m] <= q[n])
    BY <1>6
  <2> HIDE DEF S
  <2>2. ASSUME n + 1 <= m PROVE p[n+1] = q[n+1]
    <3>1. n + 1 \in 1..Len(c) /\ n + 1 \in 1..Len(d) /\ (n + 1) - 1 = n /\ n <= m
      BY <1>1, <1>4, <2>2
    <3>2. p[n+1] = p[n] + pow2(c[n+1].difficulty) /\ q[n+1] = q[n] + pow2(d[n+1].difficulty)
      BY <1>2, <1>3, <3>1 DEF DifficultySums
    <3>3. c[n+1] = d[n+1]
      BY <3>1
    <3> QED
      BY <2>1, <3>1, <3>2, <3>3
  <2>3. ASSUME n + 1 <= Len(d) - 1, ~(n + 1 <= m) PROVE q[m] <= q[n+1]
    <3>1. n + 1 \in 1..Len(d) /\ (n + 1) - 1 = n /\ n \in 0..Len(d) /\ m \in 0..Len(d)
      BY <1>1, <1>4, <2>3
    <3>2. q[n+1] = q[n] + pow2(d[n+1].difficulty) /\ q[n] \in Nat /\ q[m] \in Nat
      BY <1>3, <3>1 DEF DifficultySums
    <3>3. pow2(d[n+1].difficulty) \in Nat
      <4>1. d[n+1] \in BlockOver(H)
        BY <3>1, ElementOfSeq
      <4> QED
        BY <4>1, Pow2Type DEF BlockOver
    <3>4. q[m] <= q[n]
      <4>1. CASE n <= m
        BY <1>4, <2>3, <3>2, <4>1, SMTT(30)
      <4>2. CASE ~(n <= m)
        BY <1>1, <2>1, <2>3, <4>2
      <4> QED
        BY <4>1, <4>2
    <3> QED
      BY <3>2, <3>3, <3>4
  <2> QED
    BY <2>2, <2>3 DEF S
<1>7. S = Nat
  <2>1. S \in SUBSET Nat /\ 0 \in S /\ \A n \in S : n + 1 \in S
    BY <1>5, <1>6
  <2> HIDE DEF S
  <2> QED
    BY <2>1, SetInduction
<1>8. Len(d) - 1 \in S /\ m \in S
  <2>1. Len(d) - 1 \in Nat /\ m \in Nat
    BY <1>1
  <2> HIDE DEF S, m
  <2> QED
    BY <1>7, <2>1
<1>9. p[m] = q[m] /\ (Len(d) - 1 <= m \/ q[m] <= q[Len(d) - 1])
  BY <1>1, <1>4, <1>8
<1>10. q[m] \in Nat /\ q[Len(d) - 1] \in Nat
  <2>1. m \in 0..Len(d) /\ Len(d) - 1 \in 0..Len(d)
    BY <1>1
  <2> HIDE DEF m, S
  <2> QED
    BY <1>3, <2>1 DEF DifficultySums
<1>11. p[m] <= q[Len(d) - 1]
  <2>1. CASE Len(d) - 1 <= m
    <3>1. Len(d) - 1 = m
      BY <1>1, <1>4, <2>1
    <3> QED
      BY <1>9, <1>10, <3>1
  <2>2. CASE q[m] <= q[Len(d) - 1]
    BY <1>9, <1>10, <2>2
  <2> QED
    BY <1>9, <2>1, <2>2
<1> QED
  BY <1>2, <1>3, <1>11

-------------------------------------------------------------------------------
(* Chains stay chains.                                                        *)

\* The block a well-formed chain ends with: its index is the chain's length
\* less one.
LEMMA BackOfChain ==
  ASSUME NEW H, NEW c \in Seq(BlockOver(H)), WellFormed(c)
  PROVE  /\ Len(c) \in Nat \ {0}
         /\ back(c) \in BlockOver(H)
         /\ back(c).index = Len(c) - 1
         /\ front(c) \in BlockOver(H)
         /\ front(c).index = 0
         /\ \A i \in 1..Len(c) : c[i].index = i - 1
<1>1. Len(c) \in Nat \ {0}
  BY LenProperties DEF WellFormed
<1>2. c[1] \in BlockOver(H) /\ c[Len(c)] \in BlockOver(H)
  BY <1>1, ElementOfSeq
<1>3. c[1].index = 0 /\ \A i \in 1..Len(c) : c[i].index = c[1].index + i - 1
  BY DEF WellFormed, Linked
<1> QED
  BY <1>1, <1>2, <1>3 DEF back, front

\* When getAdjustedDifficulty looks back BLOCK_INTERVAL blocks, the chain has
\* that many: at(size() - BLOCK_INTERVAL) never leaves the vector.
THEOREM RetargetInBounds ==
  ASSUME NEW H, NEW c \in Seq(BlockOver(H)), WellFormed(c),
         (back(c).index + 1) % BLOCK_INTERVAL = 0
  PROVE  Len(c) - BLOCK_INTERVAL + 1 \in 1..Len(c)
<1>1. Len(c) \in Nat \ {0} /\ back(c).index + 1 = Len(c)
  BY BackOfChain
<1>2. Len(c) % BLOCK_INTERVAL = 0
  BY <1>1
<1>3. Len(c) >= BLOCK_INTERVAL
  BY <1>1, <1>2, IntervalAssumption
<1> QED
  BY <1>1, <1>3, IntervalAssumption

\* The adjusted difficulty is an integer.
LEMMA AdjustedDifficultyType ==
  ASSUME NEW H, NEW c \in Seq(BlockOver(H)), WellFormed(c)
  PROVE  getAdjustedDifficulty(c) \in Int
<1>1. back(c) \in BlockOver(H)
  BY BackOfChain
<1>2. back(c).difficulty \in Nat
  BY <1>1 DEF BlockOver
<1> QED
  BY <1>2 DEF getAdjustedDifficulty

\* A block that addNewBlock accepts and that carries the next index extends a
\* well-formed chain to a well-formed one.
LEMMA AppendWellFormed ==
  ASSUME NEW H, NEW c \in Seq(BlockOver(H)), NEW b \in BlockOver(H),
         WellFormed(c), b.index = Len(c), b.prev = back(c).hash, b.sealed
  PROVE  WellFormed(Append(c, b))
<1>1. /\ Len(Append(c, b)) = Len(c) + 1
      /\ \A i \in 1..Len(c) : Append(c, b)[i] = c[i]
      /\ Append(c, b)[Len(c) + 1] = b
  BY AppendProperties
<1>2. Len(c) \in Nat \ {0} /\ \A i \in 1..Len(c) : c[i].index = i - 1
  BY BackOfChain
<1> DEFINE d == Append(c, b)
<1> HIDE DEF d
<1>3. d[1] = c[1] /\ d[1].index = 0 /\ Len(d) = Len(c) + 1
  BY <1>1, <1>2 DEF d
<1>4. ASSUME NEW i \in 1..Len(d)
      PROVE  d[i].index = d[1].index + i - 1
  <2>1. CASE i = Len(c) + 1
    BY <1>1, <1>2, <1>3, <2>1 DEF d
  <2>2. CASE i # Len(c) + 1
    BY <1>1, <1>2, <1>3, <2>2 DEF d
  <2> QED
    BY <2>1, <2>2
<1>5. ASSUME NEW i \in 2..Len(d)
      PROVE  d[i].prev = d[i-1].hash /\ d[i].sealed
  <2>1. CASE i = Len(c) + 1
    <3>1. d[i] = b /\ d[i-1] = c[Len(c)]
      BY <1>1, <1>2, <1>3, <2>1 DEF d
    <3> QED
      BY <3>1 DEF back
  <2>2. CASE i # Len(c) + 1
    <3>1. i \in 2..Len(c) /\ i - 1 \in 1..Len(c) /\ i \in 1..Len(c)
      BY <1>2, <1>3, <2>2
    <3>2. d[i] = c[i] /\ d[i-1] = c[i-1]
      BY <1>1, <3>1 DEF d
    <3> QED
      BY <3>1, <3>2 DEF WellFormed, Linked
  <2> QED
    BY <2>1, <2>2
<1>6. WellFormed(d)
  BY <1>2, <1>3, <1>4, <1>5 DEF WellFormed, Linked
<1> QED
  BY <1>6 DEF d

\* What a 'chain' request is answered with is a piece of the chain.
LEMMA SegmentLinked ==
  ASSUME NEW H, NEW c \in Seq(BlockOver(H)), WellFormed(c),
         NEW id1 \in Nat, NEW id2 \in Nat
  PROVE  /\ Segment(c, id1, id2) \in Seq(BlockOver(H))
         /\ Linked(Segment(c, id1, id2))
         /\ \A i \in 1..Len(Segment(c, id1, id2)) :
              \E j \in 1..Len(c) : Segment(c, id1, id2)[i] = c[j]
<1> DEFINE s == Segment(c, id1, id2)
           last == IF id2 < Len(c) THEN id2 + 1 ELSE Len(c)
<1>1. Len(c) \in Nat \ {0} /\ \A i \in 1..Len(c) : c[i].index = i - 1
  BY BackOfChain
<1>2. CASE ~(id1 < Len(c) /\ id1 <= id2)
  <2>1. s = <<>>
    BY <1>2 DEF Segment
  <2>2. Len(s) = 0 /\ s \in Seq(BlockOver(H))
    BY <2>1
  <2> HIDE DEF s
  <2>3. Linked(s)
    BY <2>2 DEF Linked
  <2> QED
    BY <2>2, <2>3 DEF s
<1>3. CASE id1 < Len(c) /\ id1 <= id2
  <2>1. s = SubSeq(c, id1 + 1, last)
    BY <1>3 DEF Segment
  <2>2. last \in Int /\ last >= id1 + 1 /\ last <= Len(c)
    BY <1>1, <1>3
  <2>3. \A i \in (id1 + 1)..last : c[i] \in BlockOver(H)
    <3>1. ASSUME NEW i \in (id1 + 1)..last PROVE i \in 1..Len(c)
      BY <1>1, <2>2
    <3> QED
      BY <3>1, ElementOfSeq
  <2> HIDE DEF last
  <2>4. /\ SubSeq(c, id1 + 1, last) \in Seq(BlockOver(H))
        /\ Len(SubSeq(c, id1 + 1, last)) = last - id1
        /\ \A i \in 1..(last - id1) : SubSeq(c, id1 + 1, last)[i] = c[id1 + i]
    <3>1. id1 + 1 \in Int /\ last \in Int
      BY <2>2
    <3>2. /\ SubSeq(c, id1 + 1, last) \in Seq(BlockOver(H))
          /\ Len(SubSeq(c, id1 + 1, last)) =
               IF id1 + 1 <= last THEN last - (id1 + 1) + 1 ELSE 0
          /\ \A i \in 1..(last - (id1 + 1) + 1) :
               SubSeq(c, id1 + 1, last)[i] = c[(id1 + 1) + i - 1]
      BY <2>3, <3>1, SubSeqProperties
    <3>3. last - (id1 + 1) + 1 = last - id1
      BY <2>2
    <3>4. ASSUME NEW i \in 1..(last - id1) PROVE (id1 + 1) + i - 1 = id1 + i
      BY <2>2
    <3> QED
      BY <2>2, <3>2, <3>3, <3>4
  <2>5. /\ s \in Seq(BlockOver(H))
        /\ Len(s) = last - id1
        /\ \A i \in 1..Len(s) : s[i] = c[id1 + i]
    BY <2>1, <2>4
  <2> HIDE DEF s
  <2>6. ASSUME NEW i \in 1..Len(s) PROVE id1 + i \in 1..Len(c)
    BY <1>1, <2>2, <2>5
  <2>7. ASSUME NEW i \in 1..Len(s) PROVE s[i].index = s[1].index + i - 1
    <3>1. 1 \in 1..Len(s)
      BY <2>2, <2>5
    <3>2. s[i].index = id1 + i - 1 /\ s[1].index = id1
      BY <1>1, <2>5, <2>6, <3>1, SMTT(30)
    <3> QED
      BY <3>2
  <2>8. ASSUME NEW i \in 2..Len(s) PROVE s[i].prev = s[i-1].hash /\ s[i].sealed
    <3>1. i \in 1..Len(s) /\ i - 1 \in 1..Len(s) /\ id1 + i \in 2..Len(c)
      BY <1>1, <2>2, <2>5
    <3>2. s[i] = c[id1 + i] /\ s[i-1] = c[(id1 + i) - 1]
      <4>1. id1 + (i - 1) = (id1 + i) - 1
        OBVIOUS
      <4> QED
        BY <2>5, <3>1, <4>1
    <3> QED
      BY <3>1, <3>2 DEF WellFormed, Linked
  <2>9. Linked(s)
    BY <2>7, <2>8 DEF Linked
  <2> QED
    BY <2>5, <2>6, <2>9 DEF s
<1> QED
  BY <1>2, <1>3

\* The addNewBlock loop takes every block of an update whose first block names
\* the last block of the chain.
LEMMA AddBlocksAll ==
  ASSUME NEW H, NEW c \in Seq(BlockOver(H)), NEW t \in Seq(BlockOver(H)),
         t # <<>>, t[1].sealed, t[1].prev = back(c).hash
  PROVE  AddBlocks(c, t) = c \o t
<1> DEFINE fits == {k \in DOMAIN t : ValidHash(t[k]) /\ t[k].prev = back(c).hash}
           first == CHOOSE k \in fits : \A j \in fits : k <= j
<1>1. Len(t) \in Nat \ {0} /\ DOMAIN t = 1..Len(t)
  BY EmptySeq, LenProperties
<1>2. 1 \in fits /\ \A j \in fits : 1 <= j
  BY <1>1 DEF ValidHash
<1>3. fits \subseteq Nat
  BY <1>1
<1> HIDE DEF fits
<1>4. first \in fits /\ \A j \in fits : first <= j
  BY <1>2
<1>5. first = 1
  <2> HIDE DEF first
  <2> QED
    BY <1>2, <1>3, <1>4
<1>6. AddBlocks(c, t) = c \o SubSeq(t, first, Len(t))
  BY <1>2 DEF AddBlocks, fits
<1> QED
  BY <1>5, <1>6, SubSeqFull

\* resize to the height of an update, then all blocks of the update: again a
\* well-formed chain, made of blocks of both and ending with the update.
LEMMA SpliceWellFormed ==
  ASSUME NEW H, NEW c \in Seq(BlockOver(H)), NEW t \in Seq(BlockOver(H)),
         WellFormed(c), t # <<>>, Linked(t), NEW k \in 1..Len(c),
         t[1].index = k, t[1].sealed, t[1].prev = c[k].hash
  PROVE  /\ SubSeq(c, 1, k) \in Seq(BlockOver(H))
         /\ Len(SubSeq(c, 1, k)) = k
         /\ back(SubSeq(c, 1, k)) = c[k]
         /\ SubSeq(c, 1, k) \o t \in Seq(BlockOver(H))
         /\ WellFormed(SubSeq(c, 1, k) \o t)
         /\ Len(SubSeq(c, 1, k) \o t) = k + Len(t)
         /\ \A i \in 1..(k + Len(t)) :
              (SubSeq(c, 1, k) \o t)[i] = IF i <= k THEN c[i] ELSE t[i - k]
<1> DEFINE p == SubSeq(c, 1, k)
           s == p \o t
<1>1. Len(c) \in Nat \ {0} /\ \A i \in 1..Len(c) : c[i].index = i - 1
  BY BackOfChain
<1>2. Len(t) \in Nat \ {0}
  BY EmptySeq
<1>3. /\ p \in Seq(BlockOver(H))
      /\ Len(p) = k
      /\ \A i \in 1..k : p[i] = c[i]
  <2>1. \A i \in 1..k : c[i] \in BlockOver(H)
    <3>1. ASSUME NEW i \in 1..k PROVE i \in 1..Len(c)
      BY <1>1
    <3> QED
      BY <3>1, ElementOfSeq
  <2>2. 1 \in Int /\ k \in Int /\ 1 <= k
    BY <1>1
  <2>3. /\ SubSeq(c, 1, k) \in Seq(BlockOver(H))
        /\ Len(SubSeq(c, 1, k)) = IF 1 <= k THEN k - 1 + 1 ELSE 0
        /\ \A i \in 1..(k - 1 + 1) : SubSeq(c, 1, k)[i] = c[1 + i - 1]
    BY <2>1, <2>2, SubSeqProperties
  <2>4. k - 1 + 1 = k /\ \A i \in 1..k : 1 + i - 1 = i
    BY <2>2
  <2> QED
    BY <2>2, <2>3, <2>4
<1> HIDE DEF p
<1>4. back(p) = c[k]
  BY <1>1, <1>3 DEF back
<1>5. /\ s \in Seq(BlockOver(H))
      /\ Len(s) = k + Len(t)
      /\ \A i \in 1..(k + Len(t)) : s[i] = IF i <= k THEN c[i] ELSE t[i - k]
  <2>1. /\ s \in Seq(BlockOver(H))
        /\ Len(s) = Len(p) + Len(t)
        /\ \A i \in 1..(Len(p) + Len(t)) :
             s[i] = IF i <= Len(p) THEN p[i] ELSE t[i - Len(p)]
    BY <1>3, ConcatProperties
  <2> HIDE DEF s
  <2>2. ASSUME NEW i \in 1..(k + Len(t)), i <= k PROVE p[i] = c[i]
    BY <1>1, <1>2, <1>3, <2>2
  <2> QED
    BY <1>3, <2>1, <2>2
<1> HIDE DEF s
<1>6. s[1] = c[1] /\ s[1].index = 0
  <2>1. 1 \in 1..(k + Len(t)) /\ 1 <= k
    BY <1>1, <1>2
  <2> QED
    BY <1>1, <1>5, <2>1
<1>7. ASSUME NEW i \in 1..Len(s) PROVE s[i].index = s[1].index + i - 1
  <2>1. CASE i <= k
    <3>1. i \in 1..Len(c) /\ s[i] = c[i]
      BY <1>1, <1>5, <2>1
    <3> QED
      BY <1>1, <1>6, <3>1
  <2>2. CASE ~(i <= k)
    <3>1. i - k \in 1..Len(t) /\ s[i] = t[i - k]
      BY <1>1, <1>2, <1>5, <2>2
    <3>2. t[i - k].index = t[1].index + (i - k) - 1
      BY <3>1 DEF Linked
    <3>3. t[1].index = k /\ k \in Nat /\ i \in Nat
      BY <1>1, <1>2, <1>5
    <3> QED
      BY <1>6, <3>1, <3>2, <3>3
  <2> QED
    BY <2>1, <2>2
<1>8. ASSUME NEW i \in 2..Len(s) PROVE s[i].prev = s[i-1].hash /\ s[i].sealed
  <2>0. i \in 1..Len(s) /\ i - 1 \in 1..Len(s) /\ k \in Nat
    BY <1>1, <1>2, <1>5
  <2>1. CASE i <= k
    <3>1. i \in 2..Len(c) /\ s[i] = c[i] /\ s[i-1] = c[i-1]
      BY <1>1, <1>5, <2>0, <2>1
    <3> QED
      BY <3>1 DEF WellFormed, Linked
  <2>2. CASE i = k + 1
    <3>1. i - k = 1 /\ i - 1 = k /\ ~(i <= k) /\ k <= k
      BY <2>0, <2>2
    <3>2. s[i] = t[1] /\ s[i-1] = c[k]
      BY <1>5, <2>0, <3>1
    <3> QED
      BY <3>2
  <2>3. CASE i > k + 1
    <3>1. i - k \in 2..Len(t) /\ ~(i <= k) /\ ~(i - 1 <= k)
      BY <1>1, <1>2, <1>5, <2>3
    <3>2. s[i] = t[i - k] /\ s[i-1] = t[(i - k) - 1]
      <4>1. (i - 1) - k = (i - k) - 1
        BY <2>0
      <4> QED
        BY <1>5, <2>0, <3>1, <4>1
    <3> QED
      BY <3>1, <3>2 DEF Linked
  <2> QED
    BY <2>0, <2>1, <2>2, <2>3
<1>9. WellFormed(s)
  <2>1. Len(s) > 0
    BY <1>1, <1>2, <1>5
  <2> QED
    BY <1>6, <1>7, <1>8, <2>1 DEF WellFormed, Linked
<1> QED
  BY <1>3, <1>4, <1>5, <1>9 DEF s, p

-------------------------------------------------------------------------------
(* What isValidChain accepts.                                                 *)

\* isValidChain compares neighbours only and never looks at the first block: what
\* it accepts is a sequence of consecutive, linked blocks, wherever it starts.
THEOREM ValidMeansLinked ==
  ASSUME NEW H, NEW c \in Seq(BlockOver(H))
  PROVE  isValidChain(c) <=> Linked(c)
<1>1. Len(c) \in Nat
  BY LenProperties
<1>2. \A i \in 1..Len(c) : c[i].index \in Nat
  <2>1. \A i \in 1..Len(c) : c[i] \in BlockOver(H)
    BY ElementOfSeq
  <2> QED
    BY <2>1 DEF BlockOver
<1>3. ASSUME Linked(c), NEW i \in 2..Len(c)
      PROVE  isValidBlockPair(c, i)
  <2>1. i \in 1..Len(c) /\ i - 1 \in 1..Len(c) /\ 1 \in 1..Len(c)
    BY <1>1
  <2>2. c[i].index = c[1].index + i - 1 /\ c[i-1].index = c[1].index + (i - 1) - 1
    BY <1>3, <2>1 DEF Linked
  <2>3. c[i].index = c[i-1].index + 1
    BY <1>1, <1>2, <2>1, <2>2
  <2> QED
    BY <1>3, <2>3 DEF Linked, isValidBlockPair
<1>4. ASSUME isValidChain(c)
      PROVE  Linked(c)
  <2> DEFINE S == {n \in Nat : n + 1 <= Len(c) => c[n + 1].index = c[1].index + n}
  <2>1. 0 \in S
    BY <1>1, <1>2
  <2>2. ASSUME NEW n \in Nat, n \in S
        PROVE  n + 1 \in S
    <3>1. SUFFICES ASSUME (n + 1) + 1 <= Len(c)
                   PROVE  c[(n + 1) + 1].index = c[1].index + (n + 1)
      OBVIOUS
    <3>2. c[n + 1].index = c[1].index + n
      BY <1>1, <2>2, <3>1
    <3> HIDE DEF S
    <3>3. (n + 1) + 1 \in 2..Len(c) /\ ((n + 1) + 1) - 1 = n + 1
      BY <1>1, <3>1
    <3>4. isValidBlockPair(c, (n + 1) + 1)
      BY <1>4, <3>3 DEF isValidChain
    <3>5. c[(n + 1) + 1].index = c[n + 1].index + 1
      BY <3>3, <3>4 DEF isValidBlockPair
    <3>6. c[1].index \in Nat
      BY <1>1, <1>2, <3>1
    <3> QED
      BY <3>2, <3>5, <3>6
  <2>3. S = Nat
    <3>1. S \in SUBSET Nat /\ 0 \in S /\ \A n \in S : n + 1 \in S
      BY <2>1, <2>2
    <3> HIDE DEF S
    <3> QED
      BY <3>1, SetInduction
  <2>4. ASSUME NEW i \in 1..Len(c)
        PROVE  c[i].index = c[1].index + i - 1
    <3>1. i - 1 \in Nat /\ (i - 1) + 1 = i /\ i <= Len(c)
      BY <1>1
    <3>2. i - 1 \in S
      <4> HIDE DEF S
      <4> QED
        BY <2>3, <3>1
    <3>3. c[i].index = c[1].index + (i - 1)
      BY <3>1, <3>2
    <3>4. c[1].index \in Nat
      BY <1>1, <1>2, <3>1
    <3> QED
      BY <3>1, <3>3, <3>4
  <2>5. ASSUME NEW i \in 2..Len(c)
        PROVE  c[i].prev = c[i-1].hash /\ c[i].sealed
    BY <1>4 DEF isValidChain, isValidBlockPair
  <2> QED
    BY <2>4, <2>5 DEF Linked
<1> QED
  BY <1>3, <1>4 DEF isValidChain
===============================================================================
