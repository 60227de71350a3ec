----------------------------- MODULE LedgerProofs -----------------------------
(***************************************************************************)
(* Proofs about the coins and payments of Ledger, for all wallets,         *)
(* amounts of either sign, rewards and bounds: every variable has its type,*)
(* no payment is executed twice, and none that was accepted is lost but in *)
(* three ways; on a node that is Calm, every payment spends its sender's   *)
(* coins; and if its users also wait for their payments, coins are         *)
(* conserved and balances agree with the unspent outputs.                  *)
(***************************************************************************)
EXTENDS Ledger, FiniteSetTheorems, SequenceTheorems, WellFoundedInduction, TLAPS

-------------------------------------------------------------------------------
(* The inductive invariant.                                                  *)

\* A sequence, of whatever it has as elements.
IsSeq(s) == s \in Seq({s[i] : i \in DOMAIN s})
IsSeqOfSeqs(c) == IsSeq(c) /\ \A b \in DOMAIN c : IsSeq(c[b])

\* No two elements are the same payment, in one sequence or in two.  Coinbases have
\* the number 0 and do not count.
Once(s) ==
  \A i, j \in DOMAIN s : s[i].payment = s[j].payment => i = j \/ s[i].payment = 0
Apart(s, t) ==
  \A i \in DOMAIN s : \A j \in DOMAIN t : s[i].payment = t[j].payment => s[i].payment = 0
UpTo(s, n) == \A i \in DOMAIN s : s[i].payment \in 0..n

\* The same for the blocks of a chain.
OnceIn(c) ==
  /\ \A b \in DOMAIN c : Once(c[b])
  /\ \A a, b \in DOMAIN c : a # b => Apart(c[a], c[b])
ApartFrom(s, c) == \A b \in DOMAIN c : Apart(s, c[b])
UpToIn(c, n) == \A b \in DOMAIN c : UpTo(c[b], n)

\* Queue, block and chains are sequences.
AllSequences ==
  IsSeq(queue) /\ IsSeq(work) /\ IsSeqOfSeqs(chain) /\ IsSeqOfSeqs(temp.blocks)

\* A transaction; a coinbase is no payment.
IsTx(tx) ==
  /\ tx = [ coinbase |-> tx.coinbase, ins |-> tx.ins, outs |-> tx.outs, id |-> tx.id,
            payment |-> tx.payment, from |-> tx.from ]
  /\ tx.coinbase => tx.payment = 0
OfTxs(s) == \A i \in DOMAIN s : IsTx(s[i])

\* A block is being worked on only while it is mined, an update names a block of the
\* chain, and a calm node applies updates at once.
Shape ==
  /\ pc # "mining" => work = <<>>
  /\ Calm => temp = NoUpdate /\ due = 0
  /\ OfTxs(work) /\ OfTxs(queue)
  /\ temp.start \in Nat /\ temp.start <= Len(chain)

\* The numbers in use.
Numbered ==
  /\ payments \in Nat
  /\ UpTo(queue, payments) /\ UpTo(work, payments)
  /\ UpToIn(chain, payments) /\ UpToIn(temp.blocks, payments)

\* Every payment is in one place; an update that waits has payments of its own.
Distinct ==
  /\ Once(queue) /\ Once(work) /\ Apart(queue, work)
  /\ OnceIn(chain) /\ ApartFrom(queue, chain) /\ ApartFrom(work, chain)
  /\ OnceIn(temp.blocks) /\ ApartFrom(queue, temp.blocks) /\ ApartFrom(work, temp.blocks)
  /\ \A b \in DOMAIN chain : ApartFrom(chain[b], temp.blocks)

LedgerInv == AllSequences /\ Shape /\ Numbered /\ Distinct

-------------------------------------------------------------------------------
(* Sequences.  What the operations make of them is given names, so that it can *)
(* be cited without its parts.                                                *)

\* A sequence over any set is one, and starts at 1.
LEMMA SeqIs ==
  ASSUME NEW S, NEW s \in Seq(S)
  PROVE  IsSeq(s)
<1> DEFINE T == {s[i] : i \in DOMAIN s}
<1>1. Len(s) \in Nat /\ DOMAIN s = 1..Len(s) /\ s \in [1..Len(s) -> S]
  BY LenProperties
<1>2. s \in [1..Len(s) -> T]
  BY <1>1
<1> HIDE DEF T
<1>3. s \in Seq(T)
  BY <1>1, <1>2, SeqDef
<1> QED
  BY <1>3 DEF IsSeq, T

LEMMA SeqFacts ==
  ASSUME NEW s, IsSeq(s)
  PROVE  Len(s) \in Nat /\ DOMAIN s = 1..Len(s)
  BY LenProperties DEF IsSeq

\* r is s with x at its end.
AppendOf(r, s, x) ==
  /\ IsSeq(r)
  /\ DOMAIN r = 1..(Len(s) + 1)
  /\ \A i \in 1..Len(s) : r[i] = s[i]
  /\ r[Len(s) + 1] = x

LEMMA AppendIs ==
  ASSUME NEW s, NEW x, IsSeq(s)
  PROVE  AppendOf(Append(s, x), s, x)
<1> DEFINE T == {s[i] : i \in DOMAIN s}
           S == T \cup {x}
           r == Append(s, x)
<1>1. s \in Seq(S)
  <2>1. s \in Seq(T)
    BY DEF IsSeq
  <2>2. T \subseteq S
    OBVIOUS
  <2> HIDE DEF T, S
  <2> QED
    BY <2>1, <2>2, SeqMonotonic
<1>2. x \in S
  OBVIOUS
<1> HIDE DEF S
<1>3. /\ r \in Seq(S) /\ Len(r) = Len(s) + 1
      /\ \A i \in 1..Len(s) : r[i] = s[i]
      /\ r[Len(s) + 1] = x
  BY <1>1, <1>2, AppendProperties
<1> HIDE DEF r
<1>4. IsSeq(r) /\ DOMAIN r = 1..Len(r)
  BY <1>3, SeqIs, LenProperties
<1> QED
  BY <1>3, <1>4 DEF AppendOf, r

\* r is s followed by t.
ConcatOf(r, s, t) ==
  /\ IsSeq(r)
  /\ DOMAIN r = 1..(Len(s) + Len(t))
  /\ \A i \in 1..Len(s) : r[i] = s[i]
  /\ \A i \in 1..Len(t) : r[Len(s) + i] = t[i]

LEMMA ConcatIs ==
  ASSUME NEW s, NEW t, IsSeq(s), IsSeq(t)
  PROVE  ConcatOf(s \o t, s, t)
<1> DEFINE T == {s[i] : i \in DOMAIN s}
           U == {t[i] : i \in DOMAIN t}
           S == T \cup U
           r == s \o t
<1>1. s \in Seq(S) /\ t \in Seq(S)
  <2>1. s \in Seq(T) /\ t \in Seq(U)
    BY DEF IsSeq
  <2>2. T \subseteq S /\ U \subseteq S
    OBVIOUS
  <2> HIDE DEF T, U, S
  <2> QED
    BY <2>1, <2>2, SeqMonotonic
<1> HIDE DEF S
<1>2. Len(s) \in Nat /\ Len(t) \in Nat
  BY <1>1, LenProperties
<1>3. /\ r \in Seq(S) /\ Len(r) = Len(s) + Len(t)
      /\ \A i \in 1..(Len(s) + Len(t)) : r[i] = IF i <= Len(s) THEN s[i] ELSE t[i - Len(s)]
  BY <1>1, ConcatProperties
<1> HIDE DEF r
<1>4. IsSeq(r) /\ DOMAIN r = 1..Len(r)
  BY <1>3, SeqIs, LenProperties
<1>5. ASSUME NEW i \in 1..Len(s) PROVE r[i] = s[i]
  BY <1>2, <1>3
<1>6. ASSUME NEW i \in 1..Len(t) PROVE r[Len(s) + i] = t[i]
  <2>1. /\ Len(s) + i \in 1..(Len(s) + Len(t)) /\ ~(Len(s) + i <= Len(s))
        /\ (Len(s) + i) - Len(s) = i
    BY <1>2
  <2> QED
    BY <1>3, <2>1
<1> QED
  BY <1>3, <1>4, <1>5, <1>6 DEF ConcatOf, r

\* r is the first n elements of s.
CutOf(r, s, n) ==
  /\ IsSeq(r)
  /\ Len(r) = n
  /\ \A i \in 1..n : r[i] = s[i]

LEMMA CutIs ==
  ASSUME NEW s, NEW n \in Nat, IsSeq(s), n <= Len(s)
  PROVE  CutOf(SubSeq(s, 1, n), s, n)
<1> DEFINE S == {s[i] : i \in DOMAIN s}
           r == SubSeq(s, 1, n)
<1>1. Len(s) \in Nat /\ DOMAIN s = 1..Len(s)
  BY SeqFacts
<1>2. \A i \in 1..n : s[i] \in S
  BY <1>1
<1> HIDE DEF S
<1>3. /\ r \in Seq(S) /\ Len(r) = (IF 1 <= n THEN n - 1 + 1 ELSE 0)
      /\ \A i \in 1..(n - 1 + 1) : r[i] = s[1 + i - 1]
  BY <1>2, SubSeqProperties
<1>4. Len(r) = n /\ n - 1 + 1 = n /\ \A i \in 1..n : 1 + i - 1 = i
  <2> HIDE DEF r
  <2> QED
    BY <1>3
<1> HIDE DEF r
<1>5. IsSeq(r)
  BY <1>3, SeqIs
<1>6. \A i \in 1..n : r[i] = s[i]
  BY <1>3, <1>4
<1> QED
  BY <1>4, <1>5, <1>6 DEF CutOf, r

-------------------------------------------------------------------------------
(* reQueueTransactions.                                                      *)

\* A set of naturals that has 0 and, with n, also n + 1 is all of Nat.
LEMMA SetInduction ==
  ASSUME NEW S \in SUBSET Nat, 0 \in S, \A n \in S : n + 1 \in S
  PROVE  S = Nat
<1>1. SUFFICES ASSUME Nat \ S # {} PROVE FALSE
  OBVIOUS
<1>2. \E x \in Nat \ S : \A y \in Nat \ S : ~(<<y, x>> \in OpToRel(<, Nat))
  BY <1>1, WFMin, NatLessThanWellFounded, Nat \ S \subseteq Nat
<1>3. PICK x \in Nat \ S : \A y \in Nat \ S : ~(y < x)
  BY <1>2 DEF OpToRel
<1>4. x # 0 /\ x - 1 \in Nat
  BY <1>3
<1>5. x - 1 \in S
  BY <1>3, <1>4
<1> QED
  BY <1>3, <1>4, <1>5

\* f starts at a and goes from f[k-1] to h[k][f[k-1]].
Recurs(f, N, a, h) == \A k \in 0..N : f[k] = IF k = 0 THEN a ELSE h[k][f[k-1]]

\* A recursion that starts at a and goes from f[k-1] to h[k][f[k-1]] has a
\* solution on 0..N, whatever set V its values are from.
LEMMA RecursionExists ==
  ASSUME NEW V, NEW N \in Nat, NEW a \in V, NEW h \in [1..N -> [V -> V]]
  PROVE  \E f \in [0..N -> V] : Recurs(f, N, a, h)
<1> DEFINE Solves(f, n) ==
             /\ f \in [0..n -> V]
             /\ \A k \in 0..n : f[k] = IF k = 0 THEN a ELSE h[k][f[k-1]]
           Good(n) == \E f : Solves(f, n)
           S == {n \in Nat : n <= N => Good(n)}
<1>1. Good(0)
  <2>1. Solves([k \in 0..0 |-> a], 0)
    OBVIOUS
  <2> QED
    BY <2>1
<1>2. ASSUME NEW n \in Nat, n + 1 <= N, Good(n)
      PROVE  Good(n + 1)
  <2>1. PICK f : Solves(f, n)
    BY <1>2
  <2> DEFINE g == [k \in 0..(n+1) |-> IF k = n + 1 THEN h[n+1][f[n]] ELSE f[k]]
  <2>2. n + 1 \in 1..N /\ f[n] \in V /\ h[n+1] \in [V -> V]
    BY <1>2, <2>1
  <2>3. h[n+1][f[n]] \in V
    BY <2>2
  <2>4. g \in [0..(n+1) -> V]
    <3>1. ASSUME NEW k \in 0..(n+1), k # n + 1 PROVE f[k] \in V
      <4>1. k \in 0..n
        BY <3>1
      <4> QED
        BY <2>1, <4>1
    <3> QED
      BY <2>3, <3>1
  <2>5. ASSUME NEW k \in 0..(n+1)
        PROVE  g[k] = IF k = 0 THEN a ELSE h[k][g[k-1]]
    <3>1. CASE k = n + 1
      <4>1. k # 0 /\ k - 1 = n /\ n \in 0..(n+1) /\ n # n + 1
        BY <3>1
      <4>2. g[n] = f[n] /\ g[n+1] = h[n+1][f[n]]
        BY <4>1
      <4> HIDE DEF g
      <4> QED
        BY <3>1, <4>1, <4>2
    <3>2. CASE k # n + 1
      <4>1. k \in 0..n /\ (k # 0 => k - 1 \in 0..n)
        BY <3>2
      <4>2. g[k] = f[k] /\ (k # 0 => g[k-1] = f[k-1])
        BY <3>2, <4>1
      <4>3. f[k] = IF k = 0 THEN a ELSE h[k][f[k-1]]
        BY <2>1, <4>1
      <4> HIDE DEF g
      <4> QED
        BY <4>2, <4>3
    <3> QED
      BY <3>1, <3>2
  <2>6. Solves(g, n + 1)
    BY <2>4, <2>5
  <2> QED
    BY <2>6
<1> HIDE DEF Good
<1>3. S = Nat
  <2>1. S \in SUBSET Nat /\ 0 \in S /\ \A n \in S : n + 1 \in S
    BY <1>1, <1>2
  <2> HIDE DEF S
  <2> QED
    BY <2>1, SetInduction
<1>4. Good(N)
  <2>1. N \in S
    BY <1>3
  <2> QED
    BY <2>1
<1> QED
  BY <1>4 DEF Good, Recurs

\* The loop of reQueueTransactions, block by block of one transaction.
Loops(p, q, block) ==
  /\ p[0] = q
  /\ \A k \in 1..Len(block) :
       p[k] = IF block[k].coinbase THEN p[k-1] ELSE Append(p[k-1], block[k])

LEMMA LoopStates ==
  ASSUME NEW q, NEW block, IsSeq(q), IsSeq(block)
  PROVE  \E p : Loops(p, q, block) /\ reQueueTransactions(q, block) = p[Len(block)]
<1> DEFINE N == Len(block)
           A == {q[i] : i \in DOMAIN q}
           E == A \cup {block[i] : i \in DOMAIN block}
           V == Seq(E)
           h == [k \in 1..N |-> [x \in V |->
                   IF block[k].coinbase THEN x ELSE Append(x, block[k])]]
           Step(f) == [k \in 0..N |->
                         IF k = 0 THEN q
                         ELSE IF block[k].coinbase THEN f[k-1] ELSE Append(f[k-1], block[k])]
           p == CHOOSE f : f = Step(f)
<1>1. N \in Nat /\ \A k \in 1..N : block[k] \in E
  BY SeqFacts
<1>2. q \in V
  <2>1. q \in Seq(A) /\ A \subseteq E
    BY DEF IsSeq
  <2> HIDE DEF A, E
  <2> QED
    BY <2>1, SeqMonotonic
<1> HIDE DEF N, E
<1>3. h \in [1..N -> [V -> V]]
  <2>1. \A k \in 1..N : \A x \in V : Append(x, block[k]) \in V
    BY <1>1, AppendProperties
  <2> HIDE DEF V
  <2> QED
    BY <2>1
<1> HIDE DEF V
<1>4. PICK f \in [0..N -> V] : Recurs(f, N, q, h)
  <2> HIDE DEF h
  <2> QED
    BY <1>1, <1>2, <1>3, RecursionExists
<1>5. ASSUME NEW k \in 0..N
      PROVE  f[k] = IF k = 0 THEN q
                    ELSE IF block[k].coinbase THEN f[k-1] ELSE Append(f[k-1], block[k])
  <2>1. CASE k = 0
    <3> HIDE DEF h
    <3> QED
      BY <2>1, <1>4 DEF Recurs
  <2>2. CASE k # 0
    <3>1. k \in 1..N /\ k - 1 \in 0..N
      BY <1>1, <2>2
    <3>2. f[k] = h[k][f[k-1]] /\ f[k-1] \in V
      <4> HIDE DEF h
      <4> QED
        BY <1>4, <2>2, <3>1 DEF Recurs
    <3>3. h[k][f[k-1]] = IF block[k].coinbase THEN f[k-1] ELSE Append(f[k-1], block[k])
      BY <3>1, <3>2
    <3> QED
      BY <2>2, <3>2, <3>3
  <2> QED
    BY <2>1, <2>2
<1>6. f = Step(f)
  <2>1. f = [k \in 0..N |-> f[k]]
    OBVIOUS
  <2> QED
    BY <2>1, <1>5
<1>7. p = Step(p)
  <2> HIDE DEF Step
  <2> QED
    BY <1>6
<1>8. \A k \in 0..N :
        p[k] = IF k = 0 THEN q
               ELSE IF block[k].coinbase THEN p[k-1] ELSE Append(p[k-1], block[k])
  <2> HIDE DEF p
  <2> QED
    BY <1>7
<1>9. reQueueTransactions(q, block) = p[N]
  BY DEF reQueueTransactions, N
<1> HIDE DEF p
<1>10. ASSUME NEW k \in 1..N
       PROVE  p[k] = IF block[k].coinbase THEN p[k-1] ELSE Append(p[k-1], block[k])
  <2>1. k \in 0..N /\ k # 0
    BY <1>1
  <2> QED
    BY <1>8, <2>1
<1>11. p[0] = q
  BY <1>1, <1>8
<1> QED
  BY <1>9, <1>10, <1>11 DEF Loops, N

\* r has the elements of q and, of the first k of the block, those that are no
\* coinbase, and no others.
Gathers(r, q, block, k) ==
  /\ IsSeq(r)
  /\ \A i \in DOMAIN r :
       \/ \E j \in DOMAIN q : r[i] = q[j]
       \/ \E j \in 1..k : r[i] = block[j] /\ ~block[j].coinbase
  /\ \A j \in DOMAIN q : \E i \in DOMAIN r : r[i] = q[j]
  /\ \A j \in 1..k : ~block[j].coinbase => \E i \in DOMAIN r : r[i] = block[j]

\* A transaction more, which is no coinbase.
LEMMA GathersMore ==
  ASSUME NEW r, NEW q, NEW block, NEW k \in Nat, Gathers(r, q, block, k),
         ~block[k+1].coinbase
  PROVE  Gathers(Append(r, block[k+1]), q, block, k + 1)
<1> DEFINE x == block[k+1]
           a == Append(r, x)
<1>1. IsSeq(r)
  BY DEF Gathers
<1>2. Len(r) \in Nat /\ DOMAIN r = 1..Len(r)
  BY <1>1, SeqFacts
<1>3. AppendOf(a, r, x)
  BY <1>1, AppendIs
<1> HIDE DEF a
<1>4. /\ IsSeq(a) /\ DOMAIN a = 1..(Len(r) + 1)
      /\ \A i \in DOMAIN r : i \in DOMAIN a /\ a[i] = r[i]
      /\ Len(r) + 1 \in DOMAIN a /\ a[Len(r) + 1] = x
      /\ \A i \in DOMAIN a : i \in DOMAIN r \/ i = Len(r) + 1
  BY <1>2, <1>3 DEF AppendOf
<1>5. ASSUME NEW i \in DOMAIN a
      PROVE  \/ \E j \in DOMAIN q : a[i] = q[j]
             \/ \E j \in 1..(k+1) : a[i] = block[j] /\ ~block[j].coinbase
  <2>1. CASE i \in DOMAIN r
    <3>1. a[i] = r[i] /\ \A j \in 1..k : j \in 1..(k+1)
      BY <1>4, <2>1
    <3> QED
      BY <2>1, <3>1 DEF Gathers
  <2>2. CASE i = Len(r) + 1
    <3>1. k + 1 \in 1..(k+1)
      OBVIOUS
    <3> QED
      BY <1>4, <2>2, <3>1
  <2> QED
    BY <1>4, <2>1, <2>2
<1>6. ASSUME NEW j \in DOMAIN q PROVE \E i \in DOMAIN a : a[i] = q[j]
  BY <1>4 DEF Gathers
<1>7. ASSUME NEW j \in 1..(k+1), ~block[j].coinbase PROVE \E i \in DOMAIN a : a[i] = block[j]
  <2>1. j \in 1..k \/ j = k + 1
    OBVIOUS
  <2> QED
    BY <1>4, <1>7, <2>1 DEF Gathers
<1> QED
  BY <1>4, <1>5, <1>6, <1>7 DEF Gathers, a

\* A coinbase more.
LEMMA GathersSame ==
  ASSUME NEW r, NEW q, NEW block, NEW k \in Nat, Gathers(r, q, block, k),
         block[k+1].coinbase
  PROVE  Gathers(r, q, block, k + 1)
<1>1. \A j \in 1..(k+1) : j \in 1..k \/ j = k + 1
  OBVIOUS
<1>2. \A j \in 1..k : j \in 1..(k+1)
  OBVIOUS
<1> QED
  BY <1>1, <1>2 DEF Gathers

\* A transaction that is not in the queue is in it once when it was added.
LEMMA OnceMore ==
  ASSUME NEW r, NEW q, NEW block, NEW k \in Nat, Gathers(r, q, block, k), IsSeq(block),
         k + 1 <= Len(block), Once(r), Once(block), Apart(q, block)
  PROVE  Once(Append(r, block[k+1]))
<1> DEFINE x == block[k+1]
           a == Append(r, x)
<1>1. IsSeq(r)
  BY DEF Gathers
<1>2. Len(r) \in Nat /\ DOMAIN r = 1..Len(r)
  BY <1>1, SeqFacts
<1>3. Len(block) \in Nat /\ DOMAIN block = 1..Len(block)
  BY SeqFacts
<1>4. AppendOf(a, r, x)
  BY <1>1, AppendIs
<1>5. k + 1 \in DOMAIN block /\ \A j \in 1..k : j \in DOMAIN block /\ j # k + 1
  BY <1>3
<1>6. ASSUME NEW i \in DOMAIN r, r[i].payment = x.payment
      PROVE  x.payment = 0
  <2>1. CASE \E j \in DOMAIN q : r[i] = q[j]
    BY <1>5, <1>6, <2>1 DEF Apart
  <2>2. CASE \E j \in 1..k : r[i] = block[j]
    BY <1>5, <1>6, <2>2 DEF Once
  <2> QED
    BY <2>1, <2>2 DEF Gathers
<1> HIDE DEF a, x
<1>7. /\ \A i \in DOMAIN r : i \in DOMAIN a /\ a[i] = r[i]
      /\ a[Len(r) + 1] = x
      /\ \A i \in DOMAIN a : i \in DOMAIN r \/ i = Len(r) + 1
  BY <1>2, <1>4 DEF AppendOf
<1>8. ASSUME NEW i \in DOMAIN a, NEW j \in DOMAIN a, a[i].payment = a[j].payment
      PROVE  i = j \/ a[i].payment = 0
  <2>1. CASE i \in DOMAIN r /\ j \in DOMAIN r
    BY <1>7, <1>8, <2>1 DEF Once
  <2>2. CASE i \in DOMAIN r /\ j = Len(r) + 1
    BY <1>6, <1>7, <1>8, <2>2
  <2>3. CASE i = Len(r) + 1 /\ j \in DOMAIN r
    BY <1>6, <1>7, <1>8, <2>3
  <2> QED
    BY <1>7, <2>1, <2>2, <2>3
<1>9. Once(a)
  BY <1>8 DEF Once
<1> QED
  BY <1>9 DEF a, x

\* reQueueTransactions puts all payments of the block in the queue, each once, and
\* nothing else.
LEMMA Requeued ==
  ASSUME NEW q, NEW block, IsSeq(q), IsSeq(block), Once(q), Once(block), Apart(q, block)
  PROVE  /\ Gathers(reQueueTransactions(q, block), q, block, Len(block))
         /\ Once(reQueueTransactions(q, block))
<1>1. PICK p : Loops(p, q, block) /\ reQueueTransactions(q, block) = p[Len(block)]
  BY LoopStates
<1> DEFINE Good(n) == Gathers(p[n], q, block, n) /\ Once(p[n])
           S == {n \in Nat : n <= Len(block) => Good(n)}
<1>2. Len(block) \in Nat
  BY SeqFacts
<1>3. Good(0)
  <2>1. p[0] = q
    BY <1>1 DEF Loops
  <2>2. Gathers(q, q, block, 0)
    BY DEF Gathers
  <2> QED
    BY <2>1, <2>2
<1>4. ASSUME NEW n \in Nat, n + 1 <= Len(block), Good(n)
      PROVE  Good(n + 1)
  <2>1. n + 1 \in 1..Len(block) /\ (n + 1) - 1 = n
    BY <1>2, <1>4
  <2>2. p[n+1] = IF block[n+1].coinbase THEN p[n] ELSE Append(p[n], block[n+1])
    BY <1>1, <2>1 DEF Loops
  <2>3. CASE block[n+1].coinbase
    <3>1. p[n+1] = p[n]
      BY <2>2, <2>3
    <3>2. Gathers(p[n], q, block, n + 1)
      BY <1>4, <2>3, GathersSame
    <3> QED
      BY <1>4, <3>1, <3>2
  <2>4. CASE ~block[n+1].coinbase
    <3>1. p[n+1] = Append(p[n], block[n+1])
      BY <2>2, <2>4
    <3>2. Gathers(Append(p[n], block[n+1]), q, block, n + 1)
      BY <1>4, <2>4, GathersMore
    <3>3. Once(Append(p[n], block[n+1]))
      BY <1>4, OnceMore
    <3> QED
      BY <3>1, <3>2, <3>3
  <2> QED
    BY <2>3, <2>4
<1> HIDE DEF Good
<1>5. S = Nat
  <2>1. ASSUME NEW n \in S PROVE n + 1 \in S
    <3>1. n \in Nat /\ (n + 1 <= Len(block) => n <= Len(block))
      BY <1>2
    <3> QED
      BY <1>4, <3>1
  <2>2. S \in SUBSET Nat /\ 0 \in S
    BY <1>3
  <2> HIDE DEF S
  <2> QED
    BY <2>1, <2>2, SetInduction
<1>6. Good(Len(block))
  <2>1. Len(block) \in S
    <3> HIDE DEF S
    <3> QED
      BY <1>2, <1>5
  <2> QED
    BY <1>2, <2>1
<1> QED
  BY <1>1, <1>6 DEF Good

-------------------------------------------------------------------------------
(* Transactions and updates.                                                 *)

\* A new id leaves the rest of a transaction alone.
LEMMA NewId ==
  ASSUME NEW tx, NEW n, IsTx(tx)
  PROVE  /\ IsTx(calcuateId(tx, n))
         /\ calcuateId(tx, n).payment = tx.payment
         /\ calcuateId(tx, n).coinbase = tx.coinbase
<1> DEFINE c == calcuateId(tx, n)
           d == GetTransactionId(tx.ins, tx.outs, n)
<1> HIDE DEF d
<1>1. tx = [ coinbase |-> tx.coinbase, ins |-> tx.ins, outs |-> tx.outs, id |-> tx.id,
             payment |-> tx.payment, from |-> tx.from ]
  BY DEF IsTx
<1>2. c = [ coinbase |-> tx.coinbase, ins |-> tx.ins, outs |-> tx.outs, id |-> d,
            payment |-> tx.payment, from |-> tx.from ]
  BY <1>1 DEF calcuateId, d
<1> HIDE DEF c
<1>3. /\ c.coinbase = tx.coinbase /\ c.ins = tx.ins /\ c.outs = tx.outs /\ c.id = d
      /\ c.payment = tx.payment /\ c.from = tx.from
  BY <1>2
<1>4. IsTx(c)
  BY <1>2, <1>3 DEF IsTx
<1> QED
  BY <1>3, <1>4 DEF c

\* A coinbase has no number.
LEMMA CoinbaseIs ==
  ASSUME NEW n, NEW a
  PROVE  /\ IsTx(CreateCoinbaseTransaction(n, a))
         /\ CreateCoinbaseTransaction(n, a).payment = 0
<1> DEFINE tx == [ coinbase |-> TRUE, ins |-> {<<n, 0, 0>>},
                   outs |-> <<[address |-> a, amount |-> COINBASE_REWARD]>>,
                   id |-> NoId, payment |-> 0, from |-> a ]
<1>1. IsTx(tx) /\ tx.payment = 0
  BY DEF IsTx
<1>2. CreateCoinbaseTransaction(n, a) = calcuateId(tx, n)
  BY DEF CreateCoinbaseTransaction
<1> HIDE DEF tx
<1> QED
  BY <1>1, <1>2, NewId

\* A payment has the number it is given.
LEMMA PaymentIs ==
  ASSUME NEW c, NEW sender, NEW receiver, NEW amount, NEW n,
         NEW tx \in CreateTransaction(c, sender, receiver, amount, n)
  PROVE  IsTx(tx) /\ tx.payment = n /\ ~tx.coinbase
<1> DEFINE Outs(s) == <<[address |-> receiver, amount |-> amount]>> \o
                        (IF TotalAmount(s) > amount
                           THEN <<[address |-> sender, amount |-> TotalAmount(s) - amount]>>
                           ELSE <<>>)
<1>1. PICK s : tx = [ coinbase |-> FALSE, ins |-> {u.at : u \in s}, outs |-> Outs(s),
                      id |-> NoId, payment |-> n, from |-> sender ]
  BY DEF CreateTransaction
<1> HIDE DEF Outs
<1> QED
  BY <1>1 DEF IsTx

\* One and two elements make a sequence.
LEMMA ShortSeqs ==
  ASSUME NEW a, NEW b
  PROVE  /\ IsSeq(<<>>) /\ DOMAIN <<>> = {}
         /\ IsSeq(<<a>>) /\ DOMAIN <<a>> = {1} /\ <<a>>[1] = a
         /\ IsSeq(<<a, b>>) /\ DOMAIN <<a, b>> = {1, 2} /\ <<a, b>>[1] = a /\ <<a, b>>[2] = b
<1>1. <<>> \in Seq({a, b}) /\ <<a>> \in Seq({a, b}) /\ <<a, b>> \in Seq({a, b})
  OBVIOUS
<1>2. IsSeq(<<>>) /\ IsSeq(<<a>>) /\ IsSeq(<<a, b>>)
  BY <1>1, SeqIs
<1>3. DOMAIN <<>> = {} /\ DOMAIN <<a>> = {1} /\ DOMAIN <<a, b>> = {1, 2}
  OBVIOUS
<1> QED
  BY <1>2, <1>3

\* An update has sequences of transactions in which the number n, at most, occurs
\* once and there is no other number.
BringsOnly(blocks, n) ==
  /\ IsSeqOfSeqs(blocks)
  /\ \A b \in DOMAIN blocks : \A t \in DOMAIN blocks[b] :
       blocks[b][t].payment = 0 \/ (blocks[b][t].payment = n /\ b = 1 /\ t = 2)

\* So has what a peer mined.
LEMMA PeersBring ==
  ASSUME NEW c, NEW blocks \in PeerBlocks(c)
  PROVE  BringsOnly(blocks, payments + 1)
<1> DEFINE cb(k) == CreateCoinbaseTransaction(Len(c) + k, PeerMiner)
           n == payments + 1
           Paid == UNION { CreateTransaction(c, PeerMiner, r, a, n) :
                             r \in Address,
                             a \in IF payments < MaxPayments THEN Amounts ELSE {} }
           First == {<<cb(0)>>} \cup {<<cb(0), calcuateId(tx, Len(c))>> : tx \in Paid}
<1>1. blocks \in {<<b>> : b \in First} \cup {<<b, <<cb(1)>> >> : b \in First}
  BY DEF PeerBlocks
<1>2. \A k : cb(k).payment = 0
  BY CoinbaseIs
<1>3. ASSUME NEW tx \in Paid
      PROVE  calcuateId(tx, Len(c)).payment = n
  <2>1. IsTx(tx) /\ tx.payment = n
    BY PaymentIs
  <2> QED
    BY <2>1, NewId
<1> HIDE DEF cb, n, Paid
<1>4. ASSUME NEW b \in First
      PROVE  /\ IsSeq(b)
             /\ \A t \in DOMAIN b : b[t].payment = 0 \/ (b[t].payment = n /\ t = 2)
  <2>1. CASE b = <<cb(0)>>
    <3> DEFINE x == cb(0)
    <3>1. b = <<x>> /\ x.payment = 0
      BY <1>2, <2>1
    <3> HIDE DEF x
    <3>2. IsSeq(b) /\ DOMAIN b = {1} /\ b[1] = x
      BY <3>1, ShortSeqs
    <3> QED
      BY <3>1, <3>2
  <2>2. CASE \E tx \in Paid : b = <<cb(0), calcuateId(tx, Len(c))>>
    <3>1. PICK tx \in Paid : b = <<cb(0), calcuateId(tx, Len(c))>>
      BY <2>2
    <3> DEFINE x == cb(0)
               y == calcuateId(tx, Len(c))
    <3>2. b = <<x, y>> /\ x.payment = 0 /\ y.payment = n
      BY <1>2, <1>3, <3>1
    <3> HIDE DEF x, y
    <3>3. IsSeq(b) /\ DOMAIN b = {1, 2} /\ b[1] = x /\ b[2] = y
      BY <3>2, ShortSeqs
    <3> QED
      BY <3>2, <3>3
  <2> QED
    BY <2>1, <2>2
<1> HIDE DEF First
<1>5. IsSeq(<<cb(1)>>) /\ DOMAIN <<cb(1)>> = {1} /\ <<cb(1)>>[1] = cb(1)
  BY ShortSeqs
<1>6. PICK b \in First : blocks = <<b>> \/ blocks = <<b, <<cb(1)>> >>
  BY <1>1
<1> DEFINE e == <<cb(1)>>
<1>7. IsSeq(e) /\ \A t \in DOMAIN e : e[t].payment = 0
  BY <1>2, <1>5
<1> HIDE DEF e
<1>8. CASE blocks = <<b>>
  <2>1. IsSeq(blocks) /\ DOMAIN blocks = {1} /\ blocks[1] = b
    BY <1>8, ShortSeqs
  <2> QED
    BY <1>4, <2>1 DEF BringsOnly, IsSeqOfSeqs, n
<1>9. CASE blocks = <<b, e>>
  <2>1. IsSeq(blocks) /\ DOMAIN blocks = {1, 2} /\ blocks[1] = b /\ blocks[2] = e
    BY <1>9, ShortSeqs
  <2> QED
    BY <1>4, <1>7, <2>1 DEF BringsOnly, IsSeqOfSeqs, n
<1> QED
  BY <1>6, <1>8, <1>9 DEF e

\* So has the chain of a peer with another genesis block.
LEMMA ForeignersBring ==
  ASSUME NEW k \in Nat, NEW n
  PROVE  BringsOnly(ForeignChain(k), n)
<1> DEFINE cb(i) == CreateCoinbaseTransaction(i - 1, PeerMiner)
           r == [i \in 1..k |-> <<cb(i)>>]
           T == {<<cb(i)>> : i \in 1..k}
<1>1. \A i : cb(i).payment = 0
  BY CoinbaseIs
<1>2. ForeignChain(k) = r
  BY DEF ForeignChain
<1> HIDE DEF cb
<1>3. r \in [1..k -> T]
  OBVIOUS
<1>4. DOMAIN r = 1..k /\ \A i \in 1..k : r[i] = <<cb(i)>>
  OBVIOUS
<1> HIDE DEF r, T
<1>5. IsSeq(r)
  <2>1. r \in Seq(T)
    BY <1>3, SeqDef
  <2> QED
    BY <2>1, SeqIs
<1>6. ASSUME NEW i \in 1..k
      PROVE  IsSeq(r[i]) /\ \A t \in DOMAIN r[i] : r[i][t].payment = 0
  <2> DEFINE x == cb(i)
  <2>1. r[i] = <<x>> /\ x.payment = 0
    BY <1>1, <1>4
  <2> HIDE DEF x
  <2>2. IsSeq(r[i]) /\ DOMAIN r[i] = {1} /\ r[i][1] = x
    BY <2>1, ShortSeqs
  <2> QED
    BY <2>1, <2>2
<1>7. BringsOnly(r, n)
  BY <1>4, <1>5, <1>6 DEF BringsOnly, IsSeqOfSeqs
<1> QED
  BY <1>2, <1>7

\* Blocks a peer mined on top of the chain or of a part of it, none, or a peer's chain
\* with another genesis block: that may come.  If Calm, only the first on top of the
\* whole chain.
LEMMA UpdateCases ==
  ASSUME NEW u \in Updates, IsSeq(chain)
  PROVE  /\ u.whole \in BOOLEAN /\ u.start \in Nat /\ u.start <= Len(chain)
         /\ \/ u.blocks \in PeerBlocks(chain)
            \/ u.blocks \in PeerBlocks(SubSeq(chain, 1, u.start))
            \/ u.blocks = <<>>
            \/ \E k \in Nat : u.blocks = ForeignChain(k)
         /\ Calm => u.start = Len(chain) /\ u.blocks \in PeerBlocks(chain)
<1> DEFINE kept == {k \in 1..Len(chain) : k >= Len(chain) - MaxReplaced}
           mined == UNION { [whole : BOOLEAN, start : {k},
                             blocks : PeerBlocks(SubSeq(chain, 1, k))] : k \in kept }
           cut == { v \in [whole : BOOLEAN, start : kept, blocks : {<<>>}] :
                      v.start = 1 => v.whole }
           foreign == { [whole |-> TRUE, start |-> 0, blocks |-> ForeignChain(k)] :
                          k \in 1..MaxBlocks }
<1>1. Len(chain) \in Nat /\ MaxBlocks \in Nat
  BY SeqFacts, LedgerBoundsAssumption
<1>2. \A k \in kept : k \in Nat /\ k <= Len(chain)
  BY <1>1
<1>3. CASE Calm
  <2>1. u \in [whole : {FALSE}, start : {Len(chain)}, blocks : PeerBlocks(chain)]
    BY <1>3 DEF Updates
  <2>2. u.whole \in {FALSE} /\ u.start = Len(chain) /\ u.blocks \in PeerBlocks(chain)
    BY <2>1
  <2>3. u.whole \in BOOLEAN
    BY <2>2
  <2>4. u.start \in Nat /\ u.start <= Len(chain)
    BY <1>1, <2>2
  <2> QED
    BY <2>2, <2>3, <2>4
<1>4. CASE ~Calm
  <2>1. u \in mined \cup cut \cup foreign
    BY <1>4 DEF Updates
  <2>2. CASE u \in mined
    <3>1. PICK k \in kept :
            u \in [whole : BOOLEAN, start : {k}, blocks : PeerBlocks(SubSeq(chain, 1, k))]
      BY <2>2
    <3> HIDE DEF kept
    <3>2. u.whole \in BOOLEAN /\ u.start = k /\ u.blocks \in PeerBlocks(SubSeq(chain, 1, k))
      BY <3>1
    <3> QED
      BY <1>2, <1>4, <3>2
  <2>3. CASE u \in cut
    <3> HIDE DEF kept
    <3>1. u.whole \in BOOLEAN /\ u.start \in kept /\ u.blocks = <<>>
      BY <2>3
    <3> QED
      BY <1>2, <1>4, <3>1
  <2>4. CASE u \in foreign
    <3>1. PICK k \in 1..MaxBlocks :
            u = [whole |-> TRUE, start |-> 0, blocks |-> ForeignChain(k)]
      BY <2>4
    <3>2. u.whole = TRUE /\ u.start = 0 /\ u.blocks = ForeignChain(k) /\ k \in Nat
      BY <1>1, <3>1
    <3>3. \E i \in Nat : u.blocks = ForeignChain(i)
      BY <3>2
    <3>4. u.whole \in BOOLEAN
      BY <3>2
    <3>5. u.start = 0
      BY <3>2
    <3>6. u.start \in Nat /\ u.start <= Len(chain)
      BY <1>1, <3>5
    <3> QED
      BY <1>4, <3>3, <3>4, <3>6
  <2> HIDE DEF mined, cut, foreign
  <2> QED
    BY <2>1, <2>2, <2>3, <2>4
<1> QED
  BY <1>3, <1>4

\* What comes names a block of the chain and has payments with one new number at most.
LEMMA UpdateIs ==
  ASSUME NEW u \in Updates, IsSeq(chain)
  PROVE  /\ BringsOnly(u.blocks, payments + 1)
         /\ u.start \in Nat /\ u.start <= Len(chain)
<1>1. /\ u.start \in Nat /\ u.start <= Len(chain)
      /\ \/ \E c : u.blocks \in PeerBlocks(c)
         \/ u.blocks = <<>>
         \/ \E k \in Nat : u.blocks = ForeignChain(k)
  BY UpdateCases
<1>2. BringsOnly(<<>>, payments + 1)
  BY ShortSeqs DEF BringsOnly, IsSeqOfSeqs
<1> QED
  BY <1>1, <1>2, PeersBring, ForeignersBring

\* A number that nobody had before is apart from all others.
LEMMA NewNumber ==
  ASSUME NEW blocks, NEW n \in Nat, BringsOnly(blocks, n + 1)
  PROVE  /\ OnceIn(blocks)
         /\ \A s : UpTo(s, n) => ApartFrom(s, blocks)
         /\ UpToIn(blocks, n + 1)
         /\ (\A b \in DOMAIN blocks : \A t \in DOMAIN blocks[b] : blocks[b][t].payment = 0)
            => UpToIn(blocks, n)
<1>1. \A b \in DOMAIN blocks : Once(blocks[b])
  BY DEF BringsOnly, Once
<1>2. \A a, b \in DOMAIN blocks : a # b => Apart(blocks[a], blocks[b])
  BY DEF BringsOnly, Apart
<1>3. ASSUME NEW s, UpTo(s, n) PROVE ApartFrom(s, blocks)
  <2>1. \A i \in DOMAIN s : s[i].payment # n + 1
    BY <1>3 DEF UpTo
  <2> QED
    BY <2>1 DEF BringsOnly, ApartFrom, Apart
<1>4. UpToIn(blocks, n + 1)
  BY DEF BringsOnly, UpToIn, UpTo
<1>5. ASSUME \A b \in DOMAIN blocks : \A t \in DOMAIN blocks[b] : blocks[b][t].payment = 0
      PROVE  UpToIn(blocks, n)
  BY <1>5 DEF UpToIn, UpTo
<1> QED
  BY <1>1, <1>2, <1>3, <1>4, <1>5 DEF OnceIn

\* r is c up to start, and the blocks of an update from there.
SpliceOf(r, c, start, blocks) ==
  /\ IsSeqOfSeqs(r)
  /\ \A b \in DOMAIN r :
       \/ b \in DOMAIN c /\ b <= start /\ r[b] = c[b]
       \/ b - start \in DOMAIN blocks /\ b > start /\ r[b] = blocks[b - start]
  /\ \A b \in 1..start : b \in DOMAIN r /\ r[b] = c[b]
  /\ \A b \in DOMAIN blocks : start + b \in DOMAIN r /\ r[start + b] = blocks[b]
  /\ Len(r) = start + Len(blocks)

LEMMA SpliceIs ==
  ASSUME NEW c, NEW u, IsSeqOfSeqs(c), IsSeqOfSeqs(u.blocks), u.start \in Nat,
         u.start <= Len(c)
  PROVE  SpliceOf(SyncedChain(c, u), c, u.start, u.blocks)
<1> DEFINE n == u.start
           d == SubSeq(c, 1, n)
           bs == u.blocks
           r == d \o bs
<1>1. IsSeq(c) /\ IsSeq(bs) /\ n \in Nat /\ n <= Len(c)
  BY DEF IsSeqOfSeqs
<1>2. Len(c) \in Nat /\ DOMAIN c = 1..Len(c) /\ Len(bs) \in Nat /\ DOMAIN bs = 1..Len(bs)
  BY <1>1, SeqFacts
<1> HIDE DEF n, bs
<1>3. CutOf(d, c, n)
  BY <1>1, CutIs
<1> HIDE DEF d
<1>4. IsSeq(d) /\ Len(d) = n /\ \A i \in 1..n : d[i] = c[i]
  BY <1>3 DEF CutOf
<1>5. ConcatOf(r, d, bs)
  BY <1>1, <1>4, ConcatIs
<1> HIDE DEF r
<1>6. /\ IsSeq(r) /\ DOMAIN r = 1..(n + Len(bs))
      /\ \A i \in 1..n : r[i] = c[i]
      /\ \A i \in 1..Len(bs) : r[n + i] = bs[i]
  BY <1>4, <1>5 DEF ConcatOf
<1>7. Len(r) = n + Len(bs)
  <2>1. DOMAIN r = 1..Len(r) /\ Len(r) \in Nat
    BY <1>6, SeqFacts
  <2> QED
    BY <1>1, <1>2, <1>6, <2>1
<1>8. ASSUME NEW b \in DOMAIN r
      PROVE  \/ b \in DOMAIN c /\ b <= n /\ r[b] = c[b]
             \/ b - n \in DOMAIN bs /\ b > n /\ r[b] = bs[b - n]
  <2>1. CASE b <= n
    <3>1. b \in 1..n /\ b \in 1..Len(c)
      BY <1>1, <1>2, <1>6, <2>1
    <3> QED
      BY <1>2, <1>6, <2>1, <3>1
  <2>2. CASE b > n
    <3>1. b - n \in 1..Len(bs) /\ n + (b - n) = b
      BY <1>1, <1>2, <1>6, <2>2
    <3>2. r[b] = bs[b - n]
      BY <1>6, <3>1
    <3> QED
      BY <1>2, <2>2, <3>1, <3>2
  <2>3. b \in Nat
    BY <1>1, <1>2, <1>6
  <2> QED
    BY <1>1, <2>1, <2>2, <2>3
<1>9. \A b \in DOMAIN r : IsSeq(r[b])
  BY <1>8 DEF IsSeqOfSeqs, bs
<1>10. \A b \in 1..n : b \in DOMAIN r /\ r[b] = c[b]
  BY <1>1, <1>2, <1>6
<1>11. \A b \in DOMAIN bs : n + b \in DOMAIN r /\ r[n + b] = bs[b]
  BY <1>1, <1>2, <1>6
<1>12. SpliceOf(r, c, n, bs)
  BY <1>6, <1>7, <1>8, <1>9, <1>10, <1>11 DEF SpliceOf, IsSeqOfSeqs
<1> QED
  BY <1>12 DEF SyncedChain, r, d, n, bs

\* Payments that are in a chain or an update once are so in what becomes of them.
LEMMA SpliceFits ==
  ASSUME NEW r, NEW c, NEW start \in Nat, NEW blocks, NEW n, SpliceOf(r, c, start, blocks),
         OnceIn(c), OnceIn(blocks), \A b \in DOMAIN c : ApartFrom(c[b], blocks),
         UpToIn(c, n), UpToIn(blocks, n), IsSeq(r)
  PROVE  /\ OnceIn(r)
         /\ \A s : ApartFrom(s, c) /\ ApartFrom(s, blocks) => ApartFrom(s, r)
         /\ UpToIn(r, n)
<1> DEFINE Old(b) == b \in DOMAIN c /\ b <= start /\ r[b] = c[b]
           New(b) == b - start \in DOMAIN blocks /\ b > start /\ r[b] = blocks[b - start]
<1>1. \A b \in DOMAIN r : Old(b) \/ New(b)
  BY DEF SpliceOf
<1>2. DOMAIN r \subseteq Nat
  BY SeqFacts
<1>3. \A b \in DOMAIN r : Once(r[b])
  BY <1>1 DEF OnceIn
<1>4. ASSUME NEW a \in DOMAIN r, NEW b \in DOMAIN r, a # b
      PROVE  Apart(r[a], r[b])
  <2>1. CASE Old(a) /\ Old(b)
    BY <1>4, <2>1 DEF OnceIn
  <2>2. CASE Old(a) /\ New(b)
    BY <2>2 DEF ApartFrom
  <2>3. CASE New(a) /\ Old(b)
    <3>1. Apart(r[b], r[a])
      BY <2>3 DEF ApartFrom
    <3> QED
      BY <3>1 DEF Apart
  <2>4. CASE New(a) /\ New(b)
    <3>1. a - start # b - start
      BY <1>2, <1>4
    <3> QED
      BY <2>4, <3>1 DEF OnceIn
  <2> QED
    BY <1>1, <2>1, <2>2, <2>3, <2>4
<1>5. ASSUME NEW s, ApartFrom(s, c), ApartFrom(s, blocks) PROVE ApartFrom(s, r)
  BY <1>1, <1>5 DEF ApartFrom
<1>6. UpToIn(r, n)
  BY <1>1 DEF UpToIn
<1> QED
  BY <1>3, <1>4, <1>5, <1>6 DEF OnceIn

-------------------------------------------------------------------------------
(* What the steps of the node do to queues, blocks and chains.               *)

\* Nothing is in an empty sequence.
LEMMA NothingIn ==
  /\ IsSeq(<<>>) /\ Once(<<>>) /\ OfTxs(<<>>)
  /\ \A n : UpTo(<<>>, n)
  /\ \A s : Apart(s, <<>>) /\ Apart(<<>>, s)
  /\ IsSeqOfSeqs(<<>>) /\ OnceIn(<<>>)
  /\ \A n : UpToIn(<<>>, n)
  /\ \A s : ApartFrom(s, <<>>) /\ ApartFrom(<<>>, s)
<1>1. IsSeq(<<>>) /\ DOMAIN <<>> = {}
  BY ShortSeqs
<1> QED
  BY <1>1 DEF IsSeqOfSeqs, Once, OfTxs, UpTo, Apart, OnceIn, UpToIn, ApartFrom

\* Numbers that were given stay so.
LEMMA NumbersGrow ==
  ASSUME NEW n \in Nat
  PROVE  /\ \A s : UpTo(s, n) => UpTo(s, n + 1)
         /\ \A c : UpToIn(c, n) => UpToIn(c, n + 1)
<1>1. ASSUME NEW s, UpTo(s, n) PROVE UpTo(s, n + 1)
  <2>1. \A k \in 0..n : k \in 0..(n + 1)
    OBVIOUS
  <2> QED
    BY <1>1, <2>1 DEF UpTo
<1> QED
  BY <1>1 DEF UpToIn

\* A payment with a new number goes to the end of a queue.
LEMMA QueuedOneMore ==
  ASSUME NEW q, NEW tx, NEW n \in Nat, IsSeq(q), Once(q), UpTo(q, n), OfTxs(q),
         IsTx(tx), tx.payment = n + 1
  PROVE  /\ IsSeq(Append(q, tx)) /\ Once(Append(q, tx)) /\ OfTxs(Append(q, tx))
         /\ UpTo(Append(q, tx), n + 1)
         /\ \A s : Apart(q, s) /\ UpTo(s, n) => Apart(Append(q, tx), s)
         /\ \A c : ApartFrom(q, c) /\ UpToIn(c, n) => ApartFrom(Append(q, tx), c)
<1> DEFINE r == Append(q, tx)
<1>1. Len(q) \in Nat /\ DOMAIN q = 1..Len(q)
  BY SeqFacts
<1>2. AppendOf(r, q, tx)
  BY AppendIs
<1> HIDE DEF r
<1>3. /\ IsSeq(r)
      /\ \A i \in DOMAIN r : (i \in DOMAIN q /\ r[i] = q[i]) \/ (i = Len(q) + 1 /\ r[i] = tx)
  BY <1>1, <1>2 DEF AppendOf
<1>4. \A i \in DOMAIN q : q[i].payment \in 0..n /\ q[i].payment # n + 1
  BY DEF UpTo
<1>5. Once(r)
  BY <1>3, <1>4 DEF Once
<1>6. OfTxs(r)
  BY <1>3 DEF OfTxs
<1>7. UpTo(r, n + 1)
  BY <1>3, <1>4 DEF UpTo
<1>8. ASSUME NEW s, Apart(q, s), UpTo(s, n) PROVE Apart(r, s)
  <2>1. \A i \in DOMAIN s : s[i].payment # n + 1
    BY <1>8 DEF UpTo
  <2> QED
    BY <1>3, <1>8, <2>1 DEF Apart
<1>9. ASSUME NEW c, ApartFrom(q, c), UpToIn(c, n) PROVE ApartFrom(r, c)
  BY <1>8, <1>9 DEF ApartFrom, UpToIn
<1> QED
  BY <1>3, <1>5, <1>6, <1>7, <1>8, <1>9 DEF r

\* The queue after reQueueTransactions is apart from whatever queue and block were
\* apart from.
LEMMA GatheredFits ==
  ASSUME NEW r, NEW q, NEW block, IsSeq(block), Gathers(r, q, block, Len(block))
  PROVE  /\ IsSeq(r)
         /\ OfTxs(q) /\ OfTxs(block) => OfTxs(r)
         /\ \A n : UpTo(q, n) /\ UpTo(block, n) => UpTo(r, n)
         /\ \A s : Apart(q, s) /\ Apart(block, s) => Apart(r, s)
         /\ \A c : ApartFrom(q, c) /\ ApartFrom(block, c) => ApartFrom(r, c)
<1>1. DOMAIN block = 1..Len(block)
  BY SeqFacts
<1>2. /\ IsSeq(r)
      /\ \A i \in DOMAIN r : \/ \E j \in DOMAIN q : r[i] = q[j]
                             \/ \E j \in DOMAIN block : r[i] = block[j]
  BY <1>1 DEF Gathers
<1>3. OfTxs(q) /\ OfTxs(block) => OfTxs(r)
  BY <1>2 DEF OfTxs
<1>4. ASSUME NEW n, UpTo(q, n), UpTo(block, n) PROVE UpTo(r, n)
  <2>1. \A j \in DOMAIN q : q[j].payment \in 0..n
    BY <1>4 DEF UpTo
  <2>2. \A j \in DOMAIN block : block[j].payment \in 0..n
    BY <1>4 DEF UpTo
  <2>3. \A i \in DOMAIN r : r[i].payment \in 0..n
    BY <1>2, <2>1, <2>2, Zenon
  <2> QED
    BY <2>3 DEF UpTo
<1>5. ASSUME NEW s, Apart(q, s), Apart(block, s) PROVE Apart(r, s)
  BY <1>2, <1>5 DEF Apart
<1>6. ASSUME NEW c, ApartFrom(q, c), ApartFrom(block, c) PROVE ApartFrom(r, c)
  BY <1>5, <1>6 DEF ApartFrom
<1> QED
  BY <1>2, <1>3, <1>4, <1>5, <1>6

\* w is a coinbase followed by the payments of q.
TemplateOf(w, q) ==
  /\ IsSeq(w)
  /\ \A i \in DOMAIN w :
       /\ IsTx(w[i])
       /\ \/ w[i].payment = 0
          \/ i - 1 \in DOMAIN q /\ i \in Nat /\ w[i].payment = q[i - 1].payment
  /\ \A j \in DOMAIN q : j + 1 \in DOMAIN w /\ w[j + 1].payment = q[j].payment

LEMMA TemplateIs ==
  ASSUME NEW q, NEW n, NEW a, IsSeq(q), OfTxs(q)
  PROVE  TemplateOf(<<CreateCoinbaseTransaction(n, a)>> \o
                      [i \in DOMAIN q |-> calcuateId(q[i], n)], q)
<1> DEFINE cb == CreateCoinbaseTransaction(n, a)
           f == [i \in DOMAIN q |-> calcuateId(q[i], n)]
           T == {calcuateId(q[i], n) : i \in DOMAIN q}
           h == <<cb>>
           w == h \o f
<1>1. IsTx(cb) /\ cb.payment = 0
  BY CoinbaseIs
<1> HIDE DEF cb
<1>2. Len(q) \in Nat /\ DOMAIN q = 1..Len(q)
  BY SeqFacts
<1>3. DOMAIN f = 1..Len(q) /\ f \in [1..Len(q) -> T]
  BY <1>2
<1>4. \A i \in 1..Len(q) : IsTx(f[i]) /\ f[i].payment = q[i].payment
  <2>1. ASSUME NEW i \in DOMAIN q PROVE IsTx(f[i]) /\ f[i].payment = q[i].payment
    <3>1. f[i] = calcuateId(q[i], n) /\ IsTx(q[i])
      BY DEF OfTxs
    <3> HIDE DEF f
    <3> QED
      BY <3>1, NewId
  <2> QED
    BY <1>2, <2>1
<1> HIDE DEF f, T
<1>5. IsSeq(f) /\ Len(f) = Len(q)
  <2>1. f \in Seq(T)
    BY <1>2, <1>3, SeqDef
  <2>2. IsSeq(f)
    BY <2>1, SeqIs
  <2>3. Len(f) \in Nat /\ DOMAIN f = 1..Len(f)
    BY <2>2, SeqFacts
  <2> QED
    BY <1>2, <1>3, <2>2, <2>3
<1>6. IsSeq(h) /\ DOMAIN h = {1} /\ h[1] = cb
  BY ShortSeqs
<1>7. Len(h) = 1
  <2>1. Len(h) \in Nat /\ DOMAIN h = 1..Len(h)
    BY <1>6, SeqFacts
  <2> HIDE DEF h
  <2> QED
    BY <1>6, <2>1
<1> HIDE DEF h
<1>8. ConcatOf(w, h, f)
  BY <1>5, <1>6, ConcatIs
<1> HIDE DEF w
<1>9. /\ IsSeq(w) /\ DOMAIN w = 1..(1 + Len(q))
      /\ w[1] = cb
      /\ \A i \in 1..Len(q) : w[1 + i] = f[i]
  BY <1>5, <1>6, <1>7, <1>8 DEF ConcatOf
<1>10. ASSUME NEW i \in DOMAIN w
       PROVE  /\ IsTx(w[i])
              /\ \/ w[i].payment = 0
                 \/ i - 1 \in DOMAIN q /\ i \in Nat /\ w[i].payment = q[i - 1].payment
  <2>1. CASE i = 1
    BY <1>1, <1>9, <2>1
  <2>2. CASE i # 1
    <3>1. i - 1 \in 1..Len(q) /\ 1 + (i - 1) = i /\ i \in Nat
      BY <1>2, <1>9, <2>2
    <3>2. w[i] = f[i - 1]
      BY <1>9, <3>1
    <3> QED
      BY <1>2, <1>4, <3>1, <3>2
  <2> QED
    BY <2>1, <2>2
<1>11. ASSUME NEW j \in DOMAIN q PROVE j + 1 \in DOMAIN w /\ w[j + 1].payment = q[j].payment
  <2>1. j + 1 \in 1..(1 + Len(q)) /\ j + 1 = 1 + j
    BY <1>2
  <2> QED
    BY <1>2, <1>4, <1>9, <2>1
<1>12. TemplateOf(w, q)
  BY <1>9, <1>10, <1>11 DEF TemplateOf
<1> QED
  BY <1>12 DEF w, h, f, cb

\* The new block has each payment of the queue once.
LEMMA TemplateFits ==
  ASSUME NEW w, NEW q, NEW n \in Nat, TemplateOf(w, q), IsSeq(q), Once(q), UpTo(q, n)
  PROVE  /\ IsSeq(w) /\ Once(w) /\ OfTxs(w) /\ UpTo(w, n)
         /\ \A s : Apart(q, s) => Apart(w, s)
         /\ \A c : ApartFrom(q, c) => ApartFrom(w, c)
<1>1. IsSeq(w) /\ OfTxs(w)
  BY DEF TemplateOf, OfTxs
<1>2. DOMAIN w \subseteq Nat
  BY <1>1, SeqFacts
<1>3. ASSUME NEW i \in DOMAIN w, NEW j \in DOMAIN w, w[i].payment = w[j].payment,
             w[i].payment # 0
      PROVE  i = j
  <2>1. /\ i - 1 \in DOMAIN q /\ w[i].payment = q[i - 1].payment
        /\ j - 1 \in DOMAIN q /\ w[j].payment = q[j - 1].payment
    BY <1>3 DEF TemplateOf
  <2>2. i - 1 = j - 1
    BY <1>3, <2>1 DEF Once
  <2> QED
    BY <1>2, <2>2
<1>4. Once(w)
  BY <1>3 DEF Once
<1>5. UpTo(w, n)
  <2>1. \A i \in DOMAIN w : w[i].payment = 0 \/ w[i].payment \in 0..n
    BY DEF TemplateOf, UpTo
  <2> QED
    BY <2>1 DEF UpTo
<1>6. ASSUME NEW s, Apart(q, s) PROVE Apart(w, s)
  <2>1. ASSUME NEW i \in DOMAIN w, NEW j \in DOMAIN s, w[i].payment = s[j].payment
        PROVE  w[i].payment = 0
    BY <1>6, <2>1 DEF TemplateOf, Apart
  <2> QED
    BY <2>1 DEF Apart
<1>7. ASSUME NEW c, ApartFrom(q, c) PROVE ApartFrom(w, c)
  BY <1>6, <1>7 DEF ApartFrom
<1> QED
  BY <1>1, <1>4, <1>5, <1>6, <1>7

\* A block goes to the end of a chain.
LEMMA ChainedOneMore ==
  ASSUME NEW c, NEW w, NEW n, IsSeqOfSeqs(c), IsSeq(w), OnceIn(c), Once(w),
         ApartFrom(w, c), UpToIn(c, n), UpTo(w, n)
  PROVE  /\ IsSeqOfSeqs(Append(c, w)) /\ OnceIn(Append(c, w)) /\ UpToIn(Append(c, w), n)
         /\ \A s : ApartFrom(s, c) /\ Apart(s, w) => ApartFrom(s, Append(c, w))
         /\ \A d : /\ \A b \in DOMAIN c : ApartFrom(c[b], d)
                   /\ ApartFrom(w, d)
                   => \A b \in DOMAIN Append(c, w) : ApartFrom(Append(c, w)[b], d)
         /\ Len(Append(c, w)) = Len(c) + 1
<1> DEFINE r == Append(c, w)
<1>1. IsSeq(c) /\ \A b \in DOMAIN c : IsSeq(c[b])
  BY DEF IsSeqOfSeqs
<1>2. Len(c) \in Nat /\ DOMAIN c = 1..Len(c)
  BY <1>1, SeqFacts
<1>3. AppendOf(r, c, w)
  BY <1>1, AppendIs
<1> HIDE DEF r
<1>4. /\ IsSeq(r) /\ DOMAIN r = 1..(Len(c) + 1)
      /\ \A b \in DOMAIN r : (b \in DOMAIN c /\ r[b] = c[b]) \/ (b = Len(c) + 1 /\ r[b] = w)
  BY <1>2, <1>3 DEF AppendOf
<1>5. Len(r) = Len(c) + 1
  <2>1. Len(r) \in Nat /\ DOMAIN r = 1..Len(r)
    BY <1>4, SeqFacts
  <2> QED
    BY <1>2, <1>4, <2>1
<1>6. IsSeqOfSeqs(r)
  BY <1>1, <1>4 DEF IsSeqOfSeqs
<1>7. \A s, t : Apart(s, t) => Apart(t, s)
  BY DEF Apart
<1>8. OnceIn(r)
  BY <1>4, <1>7 DEF OnceIn, ApartFrom
<1>9. UpToIn(r, n)
  BY <1>4 DEF UpToIn
<1>10. \A s : ApartFrom(s, c) /\ Apart(s, w) => ApartFrom(s, r)
  BY <1>4 DEF ApartFrom
<1>11. ASSUME NEW d, \A b \in DOMAIN c : ApartFrom(c[b], d), ApartFrom(w, d)
       PROVE  \A b \in DOMAIN r : ApartFrom(r[b], d)
  BY <1>4, <1>11
<1> QED
  BY <1>5, <1>6, <1>8, <1>9, <1>10, <1>11 DEF r

\* What a queue must be to be right beside a chain.
RightQueue(q, n) == IsSeq(q) /\ OfTxs(q) /\ UpTo(q, n) /\ Once(q)
RightChain(c, n) == IsSeqOfSeqs(c) /\ UpToIn(c, n) /\ OnceIn(c)

\* Queue and chain after an update was applied.
LEMMA Synced ==
  ASSUME NEW c, NEW q, NEW u, NEW n, RightQueue(q, n), RightChain(c, n),
         RightChain(u.blocks, n), u.start \in Nat, u.start <= Len(c),
         \A b \in DOMAIN c : ApartFrom(c[b], u.blocks),
         ApartFrom(q, c), ApartFrom(q, u.blocks)
  PROVE  /\ RightQueue(SyncedQueue(q, u), n)
         /\ RightChain(SyncedChain(c, u), n)
         /\ ApartFrom(SyncedQueue(q, u), SyncedChain(c, u))
         /\ \A s : ApartFrom(s, c) /\ ApartFrom(s, u.blocks)
                  => ApartFrom(s, SyncedChain(c, u))
<1> DEFINE r == SyncedChain(c, u)
<1>1. SpliceOf(r, c, u.start, u.blocks)
  BY SpliceIs DEF RightChain
<1> HIDE DEF r
<1>2. IsSeqOfSeqs(r) /\ IsSeq(r)
  BY <1>1 DEF SpliceOf, IsSeqOfSeqs
<1>3. /\ OnceIn(r) /\ UpToIn(r, n)
      /\ \A s : ApartFrom(s, c) /\ ApartFrom(s, u.blocks) => ApartFrom(s, r)
  BY <1>1, <1>2, SpliceFits DEF RightChain
<1>4. CASE u.whole
  <2>1. SyncedQueue(q, u) = <<>>
    BY <1>4 DEF SyncedQueue
  <2> QED
    BY <1>2, <1>3, <2>1, NothingIn DEF RightQueue, RightChain, r
<1>5. CASE ~u.whole
  <2>1. SyncedQueue(q, u) = q
    BY <1>5 DEF SyncedQueue
  <2> QED
    BY <1>2, <1>3, <2>1 DEF RightQueue, RightChain, r
<1> QED
  BY <1>4, <1>5

-------------------------------------------------------------------------------
(* The invariant holds.                                                      *)

\* An empty update is right, beside any chain.
LEMMA NoUpdateIs ==
  NoUpdate.whole = FALSE /\ NoUpdate.start = 0 /\ NoUpdate.blocks = <<>>
  BY DEF NoUpdate

LEMMA InitKeepsInv == Init => LedgerInv
<1> SUFFICES ASSUME Init PROVE LedgerInv
  OBVIOUS
<1> DEFINE cb == CreateCoinbaseTransaction(0, Miner)
           b == <<cb>>
<1>1. chain = <<b>> /\ cb.payment = 0
  BY CoinbaseIs DEF Init
<1> HIDE DEF cb
<1>2. IsSeq(b) /\ DOMAIN b = {1} /\ b[1] = cb
  BY ShortSeqs
<1> HIDE DEF b
<1>3. IsSeq(chain) /\ DOMAIN chain = {1} /\ chain[1] = b
  BY <1>1, ShortSeqs
<1>4. Len(chain) \in Nat
  BY <1>3, SeqFacts
<1>5. \A i \in DOMAIN b : b[i].payment = 0
  BY <1>1, <1>2
<1>6. UpTo(b, 0) /\ Once(b)
  BY <1>5 DEF UpTo, Once
<1>7. UpToIn(chain, 0) /\ OnceIn(chain) /\ IsSeqOfSeqs(chain)
  BY <1>2, <1>3, <1>6 DEF UpToIn, OnceIn, IsSeqOfSeqs
<1>8. /\ queue = <<>> /\ work = <<>> /\ payments = 0 /\ temp.start = 0 /\ temp.blocks = <<>>
      /\ temp = NoUpdate /\ due = 0
  BY NoUpdateIs DEF Init
<1>9. AllSequences
  BY <1>7, <1>8, NothingIn DEF AllSequences
<1>10. Shape
  BY <1>4, <1>8, NothingIn DEF Shape, Init
<1>11. Numbered
  BY <1>7, <1>8, NothingIn DEF Numbered
<1>12. Distinct
  BY <1>7, <1>8, NothingIn DEF Distinct
<1> QED
  BY <1>9, <1>10, <1>11, <1>12 DEF LedgerInv

LEMMA CreateTxKeepsInv ==
  ASSUME LedgerInv, NEW s, NEW r, NEW a, CreateTx(s, r, a)
  PROVE  LedgerInv'
<1>1. PICK tx \in CreateTransaction(chain, s, r, a, payments + 1) : queue' = Append(queue, tx)
  BY DEF CreateTx
<1>2. IsTx(tx) /\ tx.payment = payments + 1
  BY PaymentIs
<1>3. AllSequences /\ Shape /\ Numbered /\ Distinct
  BY DEF LedgerInv
<1>4. payments \in Nat /\ payments' = payments + 1 /\ payments' \in Nat
  BY <1>3 DEF Numbered, CreateTx
<1>5. work' = work /\ chain' = chain /\ temp' = temp /\ pc' = pc /\ due' = due
  BY DEF CreateTx
<1>6. IsSeq(queue) /\ Once(queue) /\ UpTo(queue, payments) /\ OfTxs(queue)
  BY <1>3 DEF AllSequences, Distinct, Numbered, Shape
<1>7. /\ IsSeq(queue') /\ Once(queue') /\ OfTxs(queue') /\ UpTo(queue', payments + 1)
      /\ \A t : Apart(queue, t) /\ UpTo(t, payments) => Apart(queue', t)
      /\ \A c : ApartFrom(queue, c) /\ UpToIn(c, payments) => ApartFrom(queue', c)
  BY <1>1, <1>2, <1>4, <1>6, QueuedOneMore
<1>8. AllSequences'
  BY <1>3, <1>5, <1>7 DEF AllSequences
<1>9. Shape'
  BY <1>3, <1>5, <1>7 DEF Shape
<1>10. Numbered'
  BY <1>3, <1>4, <1>5, <1>7, NumbersGrow DEF Numbered
<1>11. Distinct'
  BY <1>3, <1>5, <1>7 DEF Distinct, Numbered
<1> QED
  BY <1>8, <1>9, <1>10, <1>11 DEF LedgerInv

LEMMA TemplateKeepsInv ==
  ASSUME LedgerInv, Template
  PROVE  LedgerInv'
<1>1. AllSequences /\ Shape /\ Numbered /\ Distinct
  BY DEF LedgerInv
<1>2. /\ queue' = <<>> /\ chain' = chain /\ temp' = temp /\ payments' = payments
      /\ pc' = "mining" /\ due' = due
  BY DEF Template, createUnminedBlock, history
<1>3. /\ IsSeq(queue) /\ OfTxs(queue) /\ Once(queue) /\ UpTo(queue, payments)
      /\ payments \in Nat
  BY <1>1 DEF AllSequences, Distinct, Numbered, Shape
<1>4. TemplateOf(work', queue)
  BY <1>3, TemplateIs DEF Template, createUnminedBlock
<1>5. /\ IsSeq(work') /\ Once(work') /\ OfTxs(work') /\ UpTo(work', payments)
      /\ \A c : ApartFrom(queue, c) => ApartFrom(work', c)
  BY <1>3, <1>4, TemplateFits
<1>6. AllSequences'
  BY <1>1, <1>2, <1>5, NothingIn DEF AllSequences
<1>7. Shape'
  BY <1>1, <1>2, <1>5, NothingIn DEF Shape
<1>8. Numbered'
  BY <1>1, <1>2, <1>5, NothingIn DEF Numbered
<1>9. Distinct'
  BY <1>1, <1>2, <1>5, NothingIn DEF Distinct
<1> QED
  BY <1>6, <1>7, <1>8, <1>9 DEF LedgerInv

LEMMA FoundKeepsInv ==
  ASSUME LedgerInv, Found
  PROVE  LedgerInv'
<1>1. AllSequences /\ Shape /\ Numbered /\ Distinct
  BY DEF LedgerInv
<1>2. /\ chain' = Append(chain, work) /\ work' = <<>> /\ queue' = queue /\ temp' = temp
      /\ payments' = payments /\ due' = due
  BY DEF Found, history
<1>3. /\ IsSeqOfSeqs(chain) /\ IsSeq(work) /\ OnceIn(chain) /\ Once(work)
      /\ ApartFrom(work, chain) /\ UpToIn(chain, payments) /\ UpTo(work, payments)
  BY <1>1 DEF AllSequences, Distinct, Numbered
<1>4. /\ IsSeqOfSeqs(chain') /\ OnceIn(chain') /\ UpToIn(chain', payments)
      /\ \A s : ApartFrom(s, chain) /\ Apart(s, work) => ApartFrom(s, chain')
      /\ \A d : (\A b \in DOMAIN chain : ApartFrom(chain[b], d)) /\ ApartFrom(work, d)
                => \A b \in DOMAIN chain' : ApartFrom(chain'[b], d)
      /\ Len(chain') = Len(chain) + 1
  BY <1>2, <1>3, ChainedOneMore
<1>5. Len(chain) \in Nat
  BY <1>3, SeqFacts DEF IsSeqOfSeqs
<1>6. AllSequences'
  BY <1>1, <1>2, <1>4, NothingIn DEF AllSequences
<1>7. Shape'
  BY <1>1, <1>2, <1>4, <1>5, NothingIn DEF Shape, Found
<1>8. Numbered'
  BY <1>1, <1>2, <1>4, NothingIn DEF Numbered
<1>9. Distinct'
  BY <1>1, <1>2, <1>4, NothingIn DEF Distinct
<1> QED
  BY <1>6, <1>7, <1>8, <1>9 DEF LedgerInv

\* A refused block takes its payments with it.
LEMMA RefuseKeepsInv ==
  ASSUME LedgerInv, Refuse
  PROVE  LedgerInv'
<1>1. AllSequences /\ Shape /\ Numbered /\ Distinct
  BY DEF LedgerInv
<1>2. /\ work' = <<>> /\ queue' = queue /\ chain' = chain /\ temp' = temp
      /\ payments' = payments /\ due' = due
  BY DEF Refuse, history
<1>3. AllSequences'
  BY <1>1, <1>2, NothingIn DEF AllSequences
<1>4. Shape'
  BY <1>1, <1>2, NothingIn DEF Shape
<1>5. Numbered'
  BY <1>1, <1>2, NothingIn DEF Numbered
<1>6. Distinct'
  BY <1>1, <1>2, NothingIn DEF Distinct
<1> QED
  BY <1>3, <1>4, <1>5, <1>6 DEF LedgerInv

\* The queue with the payments of the block is right beside chain and update.
LEMMA RequeuedIsRight ==
  ASSUME LedgerInv
  PROVE  LET q == reQueueTransactions(queue, work)
         IN  RightQueue(q, payments) /\ ApartFrom(q, chain) /\ ApartFrom(q, temp.blocks)
<1> DEFINE q == reQueueTransactions(queue, work)
<1>1. AllSequences /\ Shape /\ Numbered /\ Distinct
  BY DEF LedgerInv
<1>2. IsSeq(queue) /\ IsSeq(work) /\ Once(queue) /\ Once(work) /\ Apart(queue, work)
  BY <1>1 DEF AllSequences, Distinct
<1>3. Gathers(q, queue, work, Len(work)) /\ Once(q)
  BY <1>2, Requeued
<1> HIDE DEF q
<1>4. /\ IsSeq(q)
      /\ OfTxs(queue) /\ OfTxs(work) => OfTxs(q)
      /\ \A n : UpTo(queue, n) /\ UpTo(work, n) => UpTo(q, n)
      /\ \A c : ApartFrom(queue, c) /\ ApartFrom(work, c) => ApartFrom(q, c)
  BY <1>2, <1>3, GatheredFits
<1>5. RightQueue(q, payments)
  BY <1>1, <1>3, <1>4 DEF RightQueue, Shape, Numbered
<1>6. ApartFrom(q, chain) /\ ApartFrom(q, temp.blocks)
  BY <1>1, <1>4 DEF Distinct
<1> QED
  BY <1>5, <1>6 DEF q

LEMMA AbortKeepsInv ==
  ASSUME LedgerInv, Abort
  PROVE  LedgerInv'
<1>1. AllSequences /\ Shape /\ Numbered /\ Distinct
  BY DEF LedgerInv
<1>2. /\ queue' = reQueueTransactions(queue, work) /\ work' = <<>> /\ chain' = chain
      /\ temp' = temp /\ payments' = payments /\ due' = due
  BY DEF Abort, history
<1>3. RightQueue(queue', payments) /\ ApartFrom(queue', chain) /\ ApartFrom(queue', temp.blocks)
  BY <1>2, RequeuedIsRight
<1>4. AllSequences'
  BY <1>1, <1>2, <1>3, NothingIn DEF AllSequences, RightQueue
<1>5. Shape'
  BY <1>1, <1>2, <1>3, NothingIn DEF Shape, RightQueue
<1>6. Numbered'
  BY <1>1, <1>2, <1>3, NothingIn DEF Numbered, RightQueue
<1>7. Distinct'
  BY <1>1, <1>2, <1>3, NothingIn DEF Distinct, RightQueue
<1> QED
  BY <1>4, <1>5, <1>6, <1>7 DEF LedgerInv

\* Once no update waits, a right queue and a right block beside a right chain are all
\* there is to show.
LEMMA Settled ==
  ASSUME temp' = NoUpdate, payments' \in Nat,
         RightQueue(queue', payments'), RightQueue(work', payments'),
         RightChain(chain', payments'), Apart(queue', work'),
         ApartFrom(queue', chain'), ApartFrom(work', chain'),
         pc' # "mining" => work' = <<>>, Calm => due' = 0
  PROVE  LedgerInv'
<1>1. Len(chain') \in Nat
  BY SeqFacts DEF RightChain, IsSeqOfSeqs
<1> temp'.start = 0 /\ temp'.blocks = <<>>
  BY NoUpdateIs
<1>2. AllSequences'
  BY NothingIn DEF AllSequences, RightQueue, RightChain
<1>3. Shape'
  BY <1>1, NothingIn DEF Shape, RightQueue
<1>4. Numbered'
  BY NothingIn DEF Numbered, RightQueue, RightChain
<1>5. Distinct'
  BY NothingIn DEF Distinct, RightQueue, RightChain
<1> QED
  BY <1>2, <1>3, <1>4, <1>5 DEF LedgerInv

\* syncBlockchain leaves them right, whatever the mining thread works on.
LEMMA SyncedRight ==
  ASSUME LedgerInv, syncBlockchain
  PROVE  /\ temp' = NoUpdate
         /\ RightQueue(queue', payments) /\ RightQueue(work, payments)
         /\ RightChain(chain', payments) /\ Apart(queue', work)
         /\ ApartFrom(queue', chain') /\ ApartFrom(work, chain')
<1>1. AllSequences /\ Shape /\ Numbered /\ Distinct
  BY DEF LedgerInv
<1>2. temp' = NoUpdate
  BY DEF syncBlockchain
<1>3. /\ RightQueue(queue, payments) /\ RightChain(chain, payments)
      /\ RightQueue(work, payments)
      /\ RightChain(temp.blocks, payments) /\ ApartFrom(queue, chain)
      /\ ApartFrom(queue, temp.blocks)
      /\ \A b \in DOMAIN chain : ApartFrom(chain[b], temp.blocks)
      /\ temp.start \in Nat /\ temp.start <= Len(chain)
      /\ Apart(queue, work) /\ ApartFrom(work, chain) /\ ApartFrom(work, temp.blocks)
  BY <1>1 DEF AllSequences, Shape, Numbered, Distinct, RightQueue, RightChain
<1>4. CASE temp = NoUpdate
  <2>1. queue' = queue /\ chain' = chain
    BY <1>4 DEF syncBlockchain
  <2> QED
    BY <1>2, <1>3, <2>1
<1>5. CASE temp # NoUpdate
  <2>1. chain' = SyncedChain(chain, temp) /\ queue' = SyncedQueue(queue, temp)
    BY <1>5 DEF syncBlockchain
  <2>2. /\ RightQueue(queue', payments) /\ RightChain(chain', payments)
        /\ ApartFrom(queue', chain') /\ ApartFrom(work, chain')
    BY <1>3, <2>1, Synced
  <2>3. Apart(queue', work)
    BY <1>3, <2>1, NothingIn DEF SyncedQueue
  <2> QED
    BY <1>2, <1>3, <2>2, <2>3
<1> QED
  BY <1>4, <1>5

LEMMA SyncKeepsInv ==
  ASSUME LedgerInv, Sync
  PROVE  LedgerInv'
<1>1. pc # "mining" /\ work' = work /\ payments' = payments /\ due' = due
  BY DEF Sync, history
<1>2. payments' \in Nat /\ (Calm => due' = 0) /\ work' = <<>>
  BY <1>1 DEF LedgerInv, Shape, Numbered
<1>3. /\ temp' = NoUpdate
      /\ RightQueue(queue', payments') /\ RightQueue(work', payments')
      /\ RightChain(chain', payments') /\ Apart(queue', work')
      /\ ApartFrom(queue', chain') /\ ApartFrom(work', chain')
  BY <1>1, SyncedRight DEF Sync
<1> QED
  BY <1>2, <1>3, Settled

LEMMA WsSyncKeepsInv ==
  ASSUME LedgerInv, WsSync
  PROVE  LedgerInv'
<1>1. work' = work /\ pc' = pc /\ payments' = payments /\ due > 0
  BY DEF WsSync, history
<1>2. /\ payments' \in Nat /\ (pc' # "mining" => work' = <<>>)
      /\ Calm => FALSE
  BY <1>1 DEF LedgerInv, Shape, Numbered
<1>3. /\ temp' = NoUpdate
      /\ RightQueue(queue', payments') /\ RightQueue(work', payments')
      /\ RightChain(chain', payments') /\ Apart(queue', work')
      /\ ApartFrom(queue', chain') /\ ApartFrom(work', chain')
  BY <1>1, SyncedRight DEF WsSync
<1> QED
  BY <1>2, <1>3, Settled

\* Of the next process nothing is left but the chain.
LEMMA EndKeepsInv ==
  ASSUME LedgerInv, End
  PROVE  LedgerInv'
<1>1. /\ queue' = <<>> /\ work' = <<>> /\ temp' = NoUpdate /\ due' = 0 /\ chain' = chain
      /\ payments' = payments
  BY DEF End, history
<1>2. payments' \in Nat /\ RightChain(chain', payments')
  BY <1>1 DEF LedgerInv, AllSequences, Numbered, Distinct, RightChain
<1>3. \A n : RightQueue(<<>>, n)
  BY NothingIn DEF RightQueue
<1> QED
  BY <1>1, <1>2, <1>3, NothingIn, Settled

LEMMA ReceiveKeepsInv ==
  ASSUME LedgerInv, Receive
  PROVE  LedgerInv'
<1>1. AllSequences /\ Shape /\ Numbered /\ Distinct
  BY DEF LedgerInv
<1>2. work' = work /\ pc' = pc /\ queue' = queue /\ due' = due
  BY DEF Receive
<1>3. IsSeq(chain) /\ payments \in Nat
  BY <1>1 DEF AllSequences, IsSeqOfSeqs, Numbered
<1>4. PICK u \in Updates :
        /\ IF Calm
             THEN chain' = SyncedChain(chain, u) /\ UNCHANGED temp
             ELSE temp' = u /\ UNCHANGED chain
        /\ payments' = IF \E b \in DOMAIN u.blocks :
                            \E t \in DOMAIN u.blocks[b] : u.blocks[b][t].payment # 0
                         THEN payments + 1 ELSE payments
  BY DEF Receive
<1>5. BringsOnly(u.blocks, payments + 1) /\ u.start \in Nat /\ u.start <= Len(chain)
  BY <1>3, UpdateIs
<1>6. /\ OnceIn(u.blocks)
      /\ \A s : UpTo(s, payments) => ApartFrom(s, u.blocks)
      /\ UpToIn(u.blocks, payments + 1)
      /\ (\A b \in DOMAIN u.blocks : \A t \in DOMAIN u.blocks[b] : u.blocks[b][t].payment = 0)
         => UpToIn(u.blocks, payments)
  BY <1>3, <1>5, NewNumber
<1>7. UpToIn(u.blocks, payments') /\ (payments' = payments \/ payments' = payments + 1)
  BY <1>4, <1>6
<1>8. /\ payments' \in Nat
      /\ \A s : UpTo(s, payments) => UpTo(s, payments')
      /\ \A c : UpToIn(c, payments) => UpToIn(c, payments')
  BY <1>3, <1>7, NumbersGrow
<1>9. IsSeqOfSeqs(u.blocks)
  BY <1>5 DEF BringsOnly
<1>10. /\ ApartFrom(queue, u.blocks) /\ ApartFrom(work, u.blocks)
       /\ \A b \in DOMAIN chain : ApartFrom(chain[b], u.blocks)
  BY <1>1, <1>6 DEF Numbered, UpToIn
<1>11. /\ UpTo(queue, payments') /\ UpTo(work, payments') /\ UpToIn(chain, payments')
       /\ UpToIn(temp.blocks, payments')
  BY <1>1, <1>8 DEF Numbered
<1>12. CASE Calm
  <2>1. chain' = SyncedChain(chain, u) /\ temp' = temp
    BY <1>4, <1>12
  <2>2. SpliceOf(chain', chain, u.start, u.blocks)
    BY <1>1, <1>5, <1>9, <2>1, SpliceIs DEF AllSequences
  <2>3. IsSeqOfSeqs(chain') /\ IsSeq(chain')
    BY <2>2 DEF SpliceOf, IsSeqOfSeqs
  <2>4. OnceIn(chain)
    BY <1>1 DEF Distinct
  <2>5. /\ OnceIn(chain') /\ UpToIn(chain', payments')
        /\ \A s : ApartFrom(s, chain) /\ ApartFrom(s, u.blocks) => ApartFrom(s, chain')
    BY <1>5, <1>6, <1>7, <1>10, <1>11, <2>2, <2>3, <2>4, SpliceFits
  <2>6. temp' = NoUpdate /\ due' = 0 /\ (pc' # "mining" => work' = <<>>)
    BY <1>1, <1>2, <1>12, <2>1 DEF Shape
  <2>7. /\ RightQueue(queue', payments') /\ RightQueue(work', payments')
        /\ RightChain(chain', payments') /\ Apart(queue', work')
    BY <1>1, <1>2, <1>11, <2>3, <2>5
    DEF RightQueue, RightChain, AllSequences, Shape, Distinct
  <2>8. ApartFrom(queue', chain') /\ ApartFrom(work', chain')
    BY <1>1, <1>2, <1>10, <2>5 DEF Distinct
  <2> QED
    BY <1>8, <2>6, <2>7, <2>8, Settled
<1>13. CASE ~Calm
  <2>1. temp' = u /\ chain' = chain
    BY <1>4, <1>13
  <2>2. AllSequences'
    BY <1>1, <1>2, <1>9, <2>1 DEF AllSequences
  <2>3. Shape'
    BY <1>1, <1>2, <1>5, <1>13, <2>1 DEF Shape
  <2>4. Numbered'
    BY <1>2, <1>7, <1>8, <1>11, <2>1 DEF Numbered
  <2>5. Distinct'
    BY <1>1, <1>2, <1>6, <1>10, <2>1 DEF Distinct
  <2> QED
    BY <2>2, <2>3, <2>4, <2>5 DEF LedgerInv
<1> QED
  BY <1>12, <1>13

\* A step that leaves chain, queue, block and update alone, and begins no block.
LEMMA IdleKeepsInv ==
  ASSUME LedgerInv, UNCHANGED <<chain, queue, work, temp, payments>>,
         work = <<>> \/ pc' = pc, Calm => due' = due
  PROVE  LedgerInv'
<1>1. AllSequences /\ Shape /\ Numbered /\ Distinct
  BY DEF LedgerInv
<1>2. AllSequences'
  BY <1>1 DEF AllSequences
<1>3. Shape'
  BY <1>1 DEF Shape
<1>4. Numbered' /\ Distinct'
  BY <1>1 DEF Numbered, Distinct
<1> QED
  BY <1>2, <1>3, <1>4 DEF LedgerInv

\* Every step keeps the invariant.
LEMMA NextKeepsInv ==
  ASSUME LedgerInv, [Next]_vars
  PROVE  LedgerInv'
<1>1. pc # "mining" => work = <<>>
  BY DEF LedgerInv, Shape
<1>2. CASE UNCHANGED vars
  BY <1>2, IdleKeepsInv DEF vars
<1>3. ASSUME NEW s, NEW r, NEW a, CreateTx(s, r, a) PROVE LedgerInv'
  BY <1>3, CreateTxKeepsInv
<1>4. CASE StartMining
  BY <1>1, <1>4, IdleKeepsInv DEF StartMining, history
<1>5. CASE StopMining
  BY <1>5, IdleKeepsInv DEF StopMining, history
<1>6. CASE MineLoop
  BY <1>1, <1>6, IdleKeepsInv DEF MineLoop, history
<1>7. CASE NoticeDone
  BY <1>7, IdleKeepsInv DEF NoticeDone, history
<1>8. CASE Launch
  BY <1>1, <1>8, IdleKeepsInv DEF Launch, history
<1> QED
  BY <1>2, <1>3, <1>4, <1>5, <1>6, <1>7, <1>8, TemplateKeepsInv, FoundKeepsInv,
     RefuseKeepsInv, AbortKeepsInv, SyncKeepsInv, ReceiveKeepsInv, WsSyncKeepsInv,
     EndKeepsInv
  DEF Next

LEMMA LedgerInvariant == Spec => []LedgerInv
<1> QED
  BY InitKeepsInv, NextKeepsInv, PTL DEF Spec

-------------------------------------------------------------------------------
(* None is executed twice.                                                   *)

\* Where the parts of Held are.
HeldIs(h) ==
  /\ IsSeq(h)
  /\ 1 \in DOMAIN h /\ h[1] = queue
  /\ 2 \in DOMAIN h /\ h[2] = work
  /\ \A b \in DOMAIN chain : b + 2 \in DOMAIN h /\ h[b + 2] = chain[b]
  /\ \A i \in DOMAIN h : i \in Nat /\ (i = 1 \/ i = 2 \/ i - 2 \in DOMAIN chain)

LEMMA HeldParts ==
  ASSUME LedgerInv
  PROVE  HeldIs(Held)
<1> DEFINE two == <<queue, work>>
           h == two \o chain
<1>1. IsSeq(chain)
  BY DEF LedgerInv, AllSequences, IsSeqOfSeqs
<1>2. IsSeq(two) /\ DOMAIN two = {1, 2} /\ two[1] = queue /\ two[2] = work
  BY ShortSeqs
<1> HIDE DEF two
<1>3. Len(chain) \in Nat /\ DOMAIN chain = 1..Len(chain)
  BY <1>1, SeqFacts
<1>4. Len(two) = 2
  <2>1. Len(two) \in Nat /\ DOMAIN two = 1..Len(two)
    BY <1>2, SeqFacts
  <2> QED
    BY <1>2, <2>1
<1>5. ConcatOf(h, two, chain)
  BY <1>1, <1>2, ConcatIs
<1> HIDE DEF h
<1>6. /\ IsSeq(h) /\ DOMAIN h = 1..(2 + Len(chain))
      /\ \A i \in 1..2 : h[i] = two[i]
      /\ \A i \in 1..Len(chain) : h[2 + i] = chain[i]
  BY <1>4, <1>5 DEF ConcatOf
<1>7. 1 \in DOMAIN h /\ h[1] = queue /\ 2 \in DOMAIN h /\ h[2] = work
  BY <1>2, <1>3, <1>6
<1>8. ASSUME NEW b \in DOMAIN chain PROVE b + 2 \in DOMAIN h /\ h[b + 2] = chain[b]
  <2>1. b + 2 \in 1..(2 + Len(chain)) /\ b + 2 = 2 + b
    BY <1>3
  <2> QED
    BY <1>3, <1>6, <2>1
<1>9. \A i \in DOMAIN h : i \in Nat /\ (i = 1 \/ i = 2 \/ i - 2 \in DOMAIN chain)
  BY <1>3, <1>6
<1>10. HeldIs(h)
  BY <1>6, <1>7, <1>8, <1>9 DEF HeldIs
<1> QED
  BY <1>10 DEF Held, h, two

\* Two places of one payment are in the same part.
LEMMA PartsApart ==
  ASSUME LedgerInv, NEW h, HeldIs(h), NEW i \in DOMAIN h, NEW j \in DOMAIN h, i # j
  PROVE  Apart(h[i], h[j])
<1>1. /\ Apart(queue, work) /\ OnceIn(chain) /\ ApartFrom(queue, chain)
      /\ ApartFrom(work, chain)
  BY DEF LedgerInv, Distinct
<1>2. \A s, t : Apart(s, t) => Apart(t, s)
  BY DEF Apart
<1>3. ASSUME NEW k \in DOMAIN h, k # 1, k # 2
      PROVE  k - 2 \in DOMAIN chain /\ h[k] = chain[k - 2]
  <2>1. k \in Nat /\ k - 2 \in DOMAIN chain /\ (k - 2) + 2 = k
    BY <1>3 DEF HeldIs
  <2> QED
    BY <2>1 DEF HeldIs
<1>4. h[1] = queue /\ h[2] = work /\ i \in Nat /\ j \in Nat
  BY DEF HeldIs
<1>5. CASE i \in {1, 2} /\ j \in {1, 2}
  BY <1>1, <1>2, <1>4, <1>5
<1>6. CASE i \in {1, 2} /\ j \notin {1, 2}
  BY <1>1, <1>3, <1>4, <1>6 DEF ApartFrom
<1>7. CASE i \notin {1, 2} /\ j \in {1, 2}
  BY <1>1, <1>2, <1>3, <1>4, <1>7 DEF ApartFrom
<1>8. CASE i \notin {1, 2} /\ j \notin {1, 2}
  <2>1. i - 2 # j - 2
    BY <1>4
  <2> QED
    BY <1>1, <1>3, <1>8, <2>1 DEF OnceIn
<1> QED
  BY <1>5, <1>6, <1>7, <1>8

LEMMA PartsOnce ==
  ASSUME LedgerInv, NEW h, HeldIs(h), NEW i \in DOMAIN h
  PROVE  Once(h[i])
<1>1. Once(queue) /\ Once(work) /\ \A b \in DOMAIN chain : Once(chain[b])
  BY DEF LedgerInv, Distinct, OnceIn
<1>2. CASE i = 1 \/ i = 2
  BY <1>1, <1>2 DEF HeldIs
<1>3. CASE i # 1 /\ i # 2
  <2>1. i \in Nat /\ i - 2 \in DOMAIN chain /\ (i - 2) + 2 = i
    BY <1>3 DEF HeldIs
  <2>2. h[i] = chain[i - 2]
    BY <2>1 DEF HeldIs
  <2> QED
    BY <1>1, <2>1, <2>2
<1> QED
  BY <1>2, <1>3

\* The invariant says what is to be shown.
LEMMA InvMeansOnce == LedgerInv => PaidAtMostOnce
<1> SUFFICES ASSUME LedgerInv, NEW p \in 1..payments, NEW x \in Places(p), NEW y \in Places(p)
             PROVE  x = y
  BY DEF PaidAtMostOnce
<1>1. p # 0
  BY DEF LedgerInv, Numbered
<1> DEFINE h == Held
<1>2. HeldIs(h)
  BY HeldParts
<1>3. PICK i \in DOMAIN h : x \in {i} \X {t \in DOMAIN h[i] : h[i][t].payment = p}
  BY DEF Places
<1>4. PICK j \in DOMAIN h : y \in {j} \X {t \in DOMAIN h[j] : h[j][t].payment = p}
  BY DEF Places
<1> HIDE DEF h
<1>5. PICK s \in DOMAIN h[i] : h[i][s].payment = p /\ x = <<i, s>>
  BY <1>3
<1>6. PICK t \in DOMAIN h[j] : h[j][t].payment = p /\ y = <<j, t>>
  BY <1>4
<1>7. i = j
  <2>1. SUFFICES ASSUME i # j PROVE FALSE
    OBVIOUS
  <2>2. Apart(h[i], h[j])
    BY <1>2, <2>1, PartsApart
  <2> QED
    BY <1>1, <1>5, <1>6, <2>2 DEF Apart
<1>8. Once(h[i])
  BY <1>2, PartsOnce
<1>9. s = t
  BY <1>1, <1>5, <1>6, <1>7, <1>8 DEF Once
<1> QED
  BY <1>5, <1>6, <1>7, <1>9

\* No payment is executed twice: whatever mix of blocks given up, payments queued
\* again, updates applied at once or later and chains replaced or swapped
\* (createUnminedBlock, reQueueTransactions, syncBlockchain, stopMining,
\* handleResponse), a payment is at one place of _txQueue, the block being mined and
\* the chain, or at none.  This holds for all wallets, amounts and bounds.
THEOREM PaidOnce == Spec => []PaidAtMostOnce
<1> QED
  BY LedgerInvariant, InvMeansOnce, PTL

-------------------------------------------------------------------------------
(* The transactions of a chain in order.                                     *)

\* A function on 1..n is a sequence.
LEMMA FcnSeq ==
  ASSUME NEW S, NEW n \in Nat, NEW f \in [1..n -> S]
  PROVE  IsSeq(f) /\ Len(f) = n /\ DOMAIN f = 1..n /\ f \in Seq(S)
<1>1. f \in Seq(S)
  BY SeqDef
<1>2. Len(f) \in Nat /\ DOMAIN f = 1..Len(f) /\ DOMAIN f = 1..n
  BY <1>1, LenProperties
<1>3. Len(f) = n
  BY <1>2
<1> QED
  BY <1>1, <1>2, <1>3, SeqIs

\* The transaction at place t of block b.
Item(c, b, t) == [block |-> b - 1, index |-> t - 1, tx |-> c[b][t]]

\* off[b]: how many transactions the first b blocks have.
Offsets(off, c) ==
  /\ off \in [0..Len(c) -> Nat]
  /\ off[0] = 0
  /\ \A b \in 1..Len(c) : off[b] = off[b-1] + Len(c[b])

\* The transactions of the first n blocks are the items, in order.
LaidOut(items, c, off, n) ==
  /\ IsSeq(items)
  /\ Len(items) = off[n]
  /\ \A b \in 1..n : \A t \in 1..Len(c[b]) :
       off[b-1] + t \in 1..Len(items) /\ items[off[b-1] + t] = Item(c, b, t)
  /\ \A k \in 1..Len(items) : \E b \in 1..n : \E t \in 1..Len(c[b]) : k = off[b-1] + t

LEMMA OffsetsExist ==
  ASSUME NEW c, IsSeqOfSeqs(c)
  PROVE  \E off : Offsets(off, c)
<1> DEFINE N == Len(c)
           h == [k \in 1..N |-> [x \in Nat |-> x + Len(c[k])]]
<1>1. N \in Nat /\ DOMAIN c = 1..N
  BY SeqFacts DEF IsSeqOfSeqs
<1>2. \A b \in 1..N : Len(c[b]) \in Nat
  BY <1>1, SeqFacts DEF IsSeqOfSeqs
<1> HIDE DEF N
<1>3. h \in [1..N -> [Nat -> Nat]]
  BY <1>2
<1>4. PICK f \in [0..N -> Nat] : Recurs(f, N, 0, h)
  <2> HIDE DEF h
  <2> QED
    BY <1>1, <1>3, RecursionExists
<1>5. ASSUME NEW b \in 1..N PROVE f[b] = f[b-1] + Len(c[b])
  <2>1. b \in 0..N /\ b # 0 /\ b - 1 \in 0..N
    BY <1>1
  <2>2. f[b-1] \in Nat
    BY <2>1
  <2>3. f[b] = h[b][f[b-1]]
    <3> HIDE DEF h
    <3> QED
      BY <1>4, <2>1 DEF Recurs
  <2> QED
    BY <2>2, <2>3
<1>6. f[0] = 0
  <2> HIDE DEF h
  <2> QED
    BY <1>1, <1>4 DEF Recurs
<1> QED
  BY <1>5, <1>6 DEF Offsets, N

\* The loop of FlattenSeq.
Flattens(p, seqs) ==
  /\ p[1] = seqs[1]
  /\ \A k \in 2..Len(seqs) : p[k] = p[k-1] \o seqs[k]

LEMMA FlattenStates ==
  ASSUME NEW seqs, IsSeqOfSeqs(seqs), Len(seqs) # 0
  PROVE  \E p : Flattens(p, seqs) /\ FlattenSeq(seqs) = p[Len(seqs)]
<1> DEFINE N == Len(seqs)
           E == UNION { {seqs[b][t] : t \in DOMAIN seqs[b]} : b \in DOMAIN seqs }
           V == Seq(E)
           M == N - 1
           h == [k \in 1..M |-> [x \in V |-> x \o seqs[k+1]]]
           Step(f) == [i \in 1..N |-> IF i = 1 THEN seqs[i] ELSE f[i-1] \o seqs[i]]
           p == CHOOSE f : f = Step(f)
<1>1. N \in Nat /\ DOMAIN seqs = 1..N /\ M \in Nat /\ N = M + 1
  BY SeqFacts DEF IsSeqOfSeqs
<1>2. ASSUME NEW b \in 1..N PROVE seqs[b] \in V
  <2> DEFINE T == {seqs[b][t] : t \in DOMAIN seqs[b]}
  <2>1. seqs[b] \in Seq(T)
    BY <1>1 DEF IsSeqOfSeqs, IsSeq
  <2>2. T \subseteq E
    BY <1>1
  <2> HIDE DEF T, E
  <2> QED
    BY <2>1, <2>2, SeqMonotonic
<1> HIDE DEF N, E, M
<1>3. \A x, y \in V : x \o y \in V
  BY ConcatProperties
<1> HIDE DEF V
<1>4. 1 \in 1..N /\ seqs[1] \in V /\ \A k \in 1..M : k + 1 \in 1..N
  BY <1>1, <1>2
<1>5. h \in [1..M -> [V -> V]]
  BY <1>2, <1>3, <1>4
<1>6. PICK g \in [0..M -> V] : Recurs(g, M, seqs[1], h)
  <2> HIDE DEF h
  <2> QED
    BY <1>1, <1>4, <1>5, RecursionExists
<1> DEFINE f == [i \in 1..N |-> g[i-1]]
<1>7. ASSUME NEW i \in 1..N, i # 1 PROVE g[i-1] = g[i-2] \o seqs[i]
  <2>1. /\ i - 1 \in 1..M /\ i - 1 \in 0..M /\ i - 2 \in 0..M /\ i - 1 # 0
        /\ (i - 1) - 1 = i - 2 /\ (i - 1) + 1 = i
    BY <1>1, <1>7
  <2>2. g[i-1] = h[i-1][g[i-2]] /\ g[i-2] \in V
    <3> HIDE DEF h
    <3> QED
      BY <1>6, <2>1 DEF Recurs
  <2>3. h[i-1][g[i-2]] = g[i-2] \o seqs[(i-1)+1]
    BY <2>1, <2>2
  <2> QED
    BY <2>1, <2>2, <2>3
<1>8. g[0] = seqs[1]
  <2> HIDE DEF h
  <2> QED
    BY <1>1, <1>6 DEF Recurs
<1>9. ASSUME NEW i \in 1..N
      PROVE  f[i] = IF i = 1 THEN seqs[i] ELSE f[i-1] \o seqs[i]
  <2>1. CASE i = 1
    <3>1. f[i] = g[0]
      BY <2>1
    <3> QED
      BY <1>8, <2>1, <3>1
  <2>2. CASE i # 1
    <3>1. i - 1 \in 1..N /\ (i - 1) - 1 = i - 2
      BY <1>1, <2>2
    <3>2. f[i] = g[i-1] /\ f[i-1] = g[i-2]
      BY <3>1
    <3> HIDE DEF f
    <3> QED
      BY <1>7, <2>2, <3>2
  <2> QED
    BY <2>1, <2>2
<1>10. f = Step(f)
  <2>1. f = [i \in 1..N |-> f[i]]
    OBVIOUS
  <2> HIDE DEF f
  <2> QED
    BY <2>1, <1>9
<1> HIDE DEF f
<1>11. p = Step(p)
  <2> HIDE DEF Step
  <2> QED
    BY <1>10
<1>12. \A i \in 1..N : p[i] = IF i = 1 THEN seqs[i] ELSE p[i-1] \o seqs[i]
  <2> HIDE DEF p
  <2> QED
    BY <1>11
<1>13. FlattenSeq(seqs) = p[N]
  BY <1>1 DEF FlattenSeq, N
<1> HIDE DEF p
<1>14. ASSUME NEW k \in 2..N PROVE p[k] = p[k-1] \o seqs[k]
  <2>1. k \in 1..N /\ k # 1
    BY <1>1
  <2> QED
    BY <1>12, <2>1
<1> QED
  BY <1>4, <1>12, <1>13, <1>14 DEF Flattens, N

\* The offsets grow by the lengths of the blocks.
LEMMA OffsetsGrow ==
  ASSUME NEW c, IsSeqOfSeqs(c), NEW off, Offsets(off, c)
  PROVE  \A a, b \in 0..Len(c) : a <= b => off[a] <= off[b]
<1> DEFINE N == Len(c)
           Good(n) == \A a \in 0..N : a + n <= N => off[a] <= off[a + n]
           S == {n \in Nat : Good(n)}
<1>1. N \in Nat /\ DOMAIN c = 1..N
  BY SeqFacts DEF IsSeqOfSeqs
<1>2. \A b \in 1..N : Len(c[b]) \in Nat
  BY <1>1, SeqFacts DEF IsSeqOfSeqs
<1>3. (\A b \in 0..N : off[b] \in Nat) /\ \A b \in 1..N : off[b] = off[b-1] + Len(c[b])
  BY DEF Offsets
<1> HIDE DEF N
<1>4. Good(0)
  BY <1>1, <1>3
<1>5. ASSUME NEW n \in Nat, Good(n) PROVE Good(n + 1)
  <2>1. SUFFICES ASSUME NEW a \in 0..N, a + (n + 1) <= N PROVE off[a] <= off[a + (n + 1)]
    OBVIOUS
  <2>2. /\ a + n <= N /\ a + (n + 1) \in 1..N /\ (a + (n + 1)) - 1 = a + n
        /\ a + n \in 0..N /\ a + (n + 1) \in 0..N
    BY <1>1, <2>1
  <2>3. off[a + (n + 1)] = off[a + n] + Len(c[a + (n + 1)])
    BY <1>3, <2>2
  <2>4. off[a] <= off[a + n]
    BY <1>5, <2>2
  <2>5. off[a] \in Nat /\ off[a + n] \in Nat /\ Len(c[a + (n + 1)]) \in Nat
    BY <1>2, <1>3, <2>2
  <2> QED
    BY <2>3, <2>4, <2>5
<1>6. S = Nat
  <2>1. S \in SUBSET Nat /\ 0 \in S /\ \A n \in S : n + 1 \in S
    <3> HIDE DEF Good
    <3> QED
      BY <1>4, <1>5
  <2> HIDE DEF S
  <2> QED
    BY <2>1, SetInduction
<1>7. ASSUME NEW a \in 0..N, NEW b \in 0..N, a <= b PROVE off[a] <= off[b]
  <2>1. b - a \in Nat /\ a + (b - a) = b /\ a + (b - a) <= N
    BY <1>1, <1>7
  <2>2. Good(b - a)
    <3>1. b - a \in S
      <4> HIDE DEF S
      <4> QED
        BY <1>6, <2>1
    <3> HIDE DEF Good
    <3> QED
      BY <3>1
  <2> QED
    BY <2>1, <2>2
<1> QED
  BY <1>7 DEF N

\* One block more.
LEMMA LaidOutMore ==
  ASSUME NEW c, IsSeqOfSeqs(c), NEW off, Offsets(off, c), NEW n \in Nat, n + 1 <= Len(c),
         NEW items, LaidOut(items, c, off, n),
         NEW s, IsSeq(s), Len(s) = Len(c[n+1]),
         \A t \in 1..Len(s) : s[t] = Item(c, n + 1, t)
  PROVE  LaidOut(items \o s, c, off, n + 1)
<1> DEFINE r == items \o s
           L == Len(items)
           M == Len(s)
<1>1. Len(c) \in Nat /\ M \in Nat /\ L \in Nat /\ IsSeq(items) /\ L = off[n]
  BY SeqFacts DEF IsSeqOfSeqs, LaidOut
<1>2. ConcatOf(r, items, s)
  BY <1>1, ConcatIs
<1> HIDE DEF r
<1>3. IsSeq(r) /\ DOMAIN r = 1..(L + M)
  BY <1>2 DEF ConcatOf
<1>4. Len(r) = L + M
  <2>1. Len(r) \in Nat /\ DOMAIN r = 1..Len(r)
    BY <1>3, SeqFacts
  <2> QED
    BY <1>1, <1>3, <2>1
<1>5. n + 1 \in 1..Len(c) /\ (n + 1) - 1 = n
  BY <1>1
<1>6. off[n+1] = L + M
  BY <1>1, <1>5 DEF Offsets
<1>7. \A k \in 1..L : r[k] = items[k]
  BY <1>2 DEF ConcatOf
<1>8. \A k \in 1..M : r[L + k] = s[k]
  BY <1>2 DEF ConcatOf
<1>9. ASSUME NEW b \in 1..(n+1), NEW t \in 1..Len(c[b])
      PROVE  off[b-1] + t \in 1..Len(r) /\ r[off[b-1] + t] = Item(c, b, t)
  <2>1. CASE b \in 1..n
    <3>1. off[b-1] + t \in 1..L /\ items[off[b-1] + t] = Item(c, b, t)
      BY <2>1 DEF LaidOut
    <3>2. off[b-1] + t \in 1..(L + M)
      BY <1>1, <3>1
    <3> QED
      BY <1>4, <1>7, <3>1, <3>2
  <2>2. CASE b = n + 1
    <3>1. off[b-1] = L /\ t \in 1..M
      BY <1>1, <1>5, <2>2
    <3>2. L + t \in 1..(L + M) /\ r[L + t] = Item(c, b, t)
      BY <1>1, <1>8, <2>2, <3>1
    <3> QED
      BY <1>4, <3>1, <3>2
  <2> QED
    BY <2>1, <2>2
<1>10. ASSUME NEW k \in 1..Len(r)
       PROVE  \E b \in 1..(n+1) : \E t \in 1..Len(c[b]) : k = off[b-1] + t
  <2>1. CASE k \in 1..L
    <3>1. PICK b \in 1..n : \E t \in 1..Len(c[b]) : k = off[b-1] + t
      BY <2>1 DEF LaidOut
    <3>2. b \in 1..(n+1)
      OBVIOUS
    <3> QED
      BY <3>1, <3>2
  <2>2. CASE k \notin 1..L
    <3>1. k - L \in 1..M /\ k = L + (k - L) /\ n + 1 \in 1..(n+1)
      BY <1>1, <1>4, <2>2, SMTT(30)
    <3>2. k - L \in 1..Len(c[n+1]) /\ k = off[(n+1)-1] + (k - L)
      BY <1>1, <1>5, <3>1
    <3> QED
      BY <3>1, <3>2
  <2> QED
    BY <2>1, <2>2
<1>11. LaidOut(r, c, off, n + 1)
  BY <1>3, <1>4, <1>6, <1>9, <1>10 DEF LaidOut
<1> QED
  BY <1>11 DEF r

\* TxItems goes through the blocks in order, and in each through its transactions.
LEMMA ItemsLaidOut ==
  ASSUME NEW c, IsSeqOfSeqs(c), NEW off, Offsets(off, c)
  PROVE  LaidOut(TxItems(c), c, off, Len(c))
<1> DEFINE N == Len(c)
           row(b) == [t \in DOMAIN c[b] |-> Item(c, b, t)]
           seqs == [b \in DOMAIN c |-> row(b)]
<1>1. N \in Nat /\ DOMAIN c = 1..N
  BY SeqFacts DEF IsSeqOfSeqs
<1>2. \A b \in 1..N : Len(c[b]) \in Nat /\ DOMAIN c[b] = 1..Len(c[b])
  BY <1>1, SeqFacts DEF IsSeqOfSeqs
<1>3. off[0] = 0
  BY DEF Offsets
<1>4. TxItems(c) = FlattenSeq(seqs)
  BY DEF TxItems, Item
<1>5. ASSUME NEW b \in 1..N
      PROVE  /\ IsSeq(row(b)) /\ Len(row(b)) = Len(c[b])
             /\ \A t \in 1..Len(c[b]) : row(b)[t] = Item(c, b, t)
  <2> DEFINE S == {Item(c, b, t) : t \in 1..Len(c[b])}
             f == row(b)
  <2>1. f \in [1..Len(c[b]) -> S] /\ \A t \in 1..Len(c[b]) : f[t] = Item(c, b, t)
    BY <1>2
  <2> HIDE DEF S, f
  <2>2. IsSeq(f) /\ Len(f) = Len(c[b])
    BY <1>2, <2>1, FcnSeq
  <2> QED
    BY <2>1, <2>2 DEF f
<1>6. seqs \in [1..N -> {row(b) : b \in 1..N}] /\ \A b \in 1..N : seqs[b] = row(b)
  BY <1>1
<1> HIDE DEF N, row, seqs
<1>7. IsSeq(seqs) /\ Len(seqs) = N /\ DOMAIN seqs = 1..N
  BY <1>1, <1>6, FcnSeq
<1>8. IsSeqOfSeqs(seqs)
  BY <1>5, <1>6, <1>7 DEF IsSeqOfSeqs
<1>9. CASE N = 0
  <2>1. FlattenSeq(seqs) = seqs
    BY <1>7, <1>9 DEF FlattenSeq
  <2>2. LaidOut(seqs, c, off, 0)
    BY <1>3, <1>7, <1>9 DEF LaidOut
  <2> QED
    BY <1>4, <1>9, <2>1, <2>2 DEF N
<1>10. CASE N # 0
  <2>1. PICK p : Flattens(p, seqs) /\ FlattenSeq(seqs) = p[N]
    BY <1>7, <1>8, <1>10, FlattenStates
  <2> DEFINE Good(n) == n + 1 <= N => LaidOut(p[n+1], c, off, n + 1)
             S == {n \in Nat : Good(n)}
  <2>2. Good(0)
    <3>1. 1 \in 1..N /\ 0 + 1 = 1 /\ 0 + 1 <= Len(c)
      BY <1>1, <1>10 DEF N
    <3>2. LaidOut(<<>>, c, off, 0)
      <4>1. IsSeq(<<>>) /\ Len(<<>>) = 0
        BY ShortSeqs
      <4> QED
        BY <1>3, <4>1 DEF LaidOut
    <3>3. IsSeq(seqs[1]) /\ Len(seqs[1]) = Len(c[1]) /\ Len(seqs[1]) \in Nat
          /\ \A t \in 1..Len(seqs[1]) : seqs[1][t] = Item(c, 1, t)
      BY <1>2, <1>5, <1>6, <3>1
    <3>4. LaidOut(<<>> \o seqs[1], c, off, 0 + 1)
      <4> DEFINE s == seqs[1]
                 e == <<>>
      <4>1. IsSeq(s) /\ Len(s) = Len(c[0+1]) /\ \A t \in 1..Len(s) : s[t] = Item(c, 0 + 1, t)
        BY <3>1, <3>3
      <4>2. LaidOut(e, c, off, 0)
        BY <3>2
      <4> HIDE DEF s, e
      <4>3. LaidOut(e \o s, c, off, 0 + 1)
        BY <3>1, <4>1, <4>2, LaidOutMore
      <4> QED
        BY <4>3 DEF e, s
    <3>5. <<>> \o seqs[1] = seqs[1]
      BY <3>3, ConcatEmptySeq DEF IsSeq
    <3>6. p[0+1] = seqs[1]
      BY <2>1, <3>1 DEF Flattens
    <3> QED
      BY <3>4, <3>5, <3>6
  <2>3. ASSUME NEW n \in Nat, Good(n) PROVE Good(n + 1)
    <3>1. SUFFICES ASSUME (n + 1) + 1 <= N PROVE LaidOut(p[(n+1)+1], c, off, (n + 1) + 1)
      OBVIOUS
    <3>2. /\ n + 1 <= N /\ (n+1)+1 \in 2..N /\ (n+1)+1 \in 1..N /\ ((n+1)+1)-1 = n + 1
          /\ n + 1 \in Nat /\ (n + 1) + 1 <= Len(c)
      BY <1>1, <3>1 DEF N
    <3> DEFINE i == p[n+1]
               s == seqs[(n+1)+1]
    <3>3. LaidOut(i, c, off, n + 1)
      BY <2>3, <3>2
    <3>4. IsSeq(s) /\ Len(s) = Len(c[(n+1)+1]) /\ Len(s) \in Nat
          /\ \A t \in 1..Len(s) : s[t] = Item(c, (n + 1) + 1, t)
      BY <1>2, <1>5, <1>6, <3>2
    <3>5. p[(n+1)+1] = i \o s
      BY <1>7, <2>1, <3>2 DEF Flattens
    <3> HIDE DEF i, s
    <3>6. LaidOut(i \o s, c, off, (n + 1) + 1)
      BY <3>2, <3>3, <3>4, LaidOutMore
    <3> QED
      BY <3>5, <3>6
  <2>4. S = Nat
    <3>1. S \in SUBSET Nat /\ 0 \in S /\ \A n \in S : n + 1 \in S
      <4> HIDE DEF Good
      <4> QED
        BY <2>2, <2>3
    <3> HIDE DEF S
    <3> QED
      BY <3>1, SetInduction
  <2>5. N - 1 \in Nat /\ (N - 1) + 1 = N
    BY <1>1, <1>10
  <2>6. Good(N - 1)
    <3>1. N - 1 \in S
      <4> HIDE DEF S
      <4> QED
        BY <2>4, <2>5
    <3> HIDE DEF Good
    <3> QED
      BY <3>1
  <2>7. LaidOut(p[N], c, off, N)
    BY <1>1, <2>5, <2>6
  <2> QED
    BY <1>4, <2>1, <2>7 DEF N
<1> QED
  BY <1>9, <1>10

-------------------------------------------------------------------------------
(* What GetUnspentTxOuts returns.                                            *)

\* The loop of GetUnspentTxOuts, transaction by transaction.
UnspentLoop(p, items, A) ==
  /\ p[0] = {}
  /\ \A k \in 1..Len(items) : p[k] = UnspentAfter(p[k-1], items[k], A)

LEMMA UnspentStates ==
  ASSUME NEW c, NEW A, IsSeq(TxItems(c))
  PROVE  \E p : UnspentLoop(p, TxItems(c), A) /\ GetUnspentTxOuts(c, A) = p[Len(TxItems(c))]
<1> DEFINE items == TxItems(c)
           N == Len(items)
           U == UNION {OutputsOf(items[k]) : k \in 1..N}
           V == SUBSET U
           h == [k \in 1..N |-> [x \in V |-> UnspentAfter(x, items[k], A)]]
           Step(f) == [k \in 0..N |-> IF k = 0 THEN {} ELSE UnspentAfter(f[k-1], items[k], A)]
           p == CHOOSE f : f = Step(f)
<1>1. N \in Nat
  BY SeqFacts
<1>2. GetUnspentTxOuts(c, A) = p[N]
  BY DEF GetUnspentTxOuts
<1>3. ASSUME NEW k \in 1..N, NEW x \in V PROVE UnspentAfter(x, items[k], A) \in V
  BY DEF UnspentAfter
<1> HIDE DEF items, N, V
<1>4. {} \in V
  BY DEF V
<1>5. h \in [1..N -> [V -> V]]
  BY <1>3
<1>6. PICK f \in [0..N -> V] : Recurs(f, N, {}, h)
  <2> HIDE DEF h
  <2> QED
    BY <1>1, <1>4, <1>5, RecursionExists
<1>7. ASSUME NEW k \in 0..N
      PROVE  f[k] = IF k = 0 THEN {} ELSE UnspentAfter(f[k-1], items[k], A)
  <2>1. CASE k = 0
    <3> HIDE DEF h
    <3> QED
      BY <2>1, <1>6 DEF Recurs
  <2>2. CASE k # 0
    <3>1. k \in 1..N /\ k - 1 \in 0..N
      BY <1>1, <2>2
    <3>2. f[k] = h[k][f[k-1]] /\ f[k-1] \in V
      <4> HIDE DEF h
      <4> QED
        BY <1>6, <2>2, <3>1 DEF Recurs
    <3>3. h[k][f[k-1]] = UnspentAfter(f[k-1], items[k], A)
      BY <3>1, <3>2
    <3> QED
      BY <2>2, <3>2, <3>3
  <2> QED
    BY <2>1, <2>2
<1>8. f = Step(f)
  <2>1. f = [k \in 0..N |-> f[k]]
    OBVIOUS
  <2> QED
    BY <2>1, <1>7
<1>9. p = Step(p)
  <2> HIDE DEF Step
  <2> QED
    BY <1>8
<1>10. \A k \in 0..N : p[k] = IF k = 0 THEN {} ELSE UnspentAfter(p[k-1], items[k], A)
  <2> HIDE DEF p
  <2> QED
    BY <1>9
<1> HIDE DEF p
<1>11. ASSUME NEW k \in 1..N PROVE p[k] = UnspentAfter(p[k-1], items[k], A)
  <2>1. k \in 0..N /\ k # 0
    BY <1>1
  <2> QED
    BY <1>10, <2>1
<1>12. p[0] = {}
  BY <1>1, <1>10
<1> QED
  BY <1>2, <1>11, <1>12 DEF UnspentLoop, N, items

\* An output to an address of A, made by one of the first k transactions and spent
\* neither by that nor by a later one of them.
StillUnspent(u, items, A, k) ==
  /\ u.address \in A
  /\ \E j \in 1..k : /\ u \in OutputsOf(items[j])
                     /\ \A i \in j..k : u.at \notin Inputs(items[i].tx)

LEMMA UnspentAre ==
  ASSUME NEW items, NEW A, NEW p, IsSeq(items), UnspentLoop(p, items, A)
  PROVE  \A k \in 0..Len(items) : \A u : u \in p[k] <=> StillUnspent(u, items, A, k)
<1> DEFINE N == Len(items)
           Good(k) == k <= N => \A u : u \in p[k] <=> StillUnspent(u, items, A, k)
           S == {k \in Nat : Good(k)}
<1>1. N \in Nat
  BY SeqFacts
<1>2. Good(0)
  BY DEF UnspentLoop, StillUnspent
<1>3. ASSUME NEW k \in Nat, Good(k) PROVE Good(k + 1)
  <2>1. SUFFICES ASSUME k + 1 <= N, NEW u
                 PROVE  u \in p[k+1] <=> StillUnspent(u, items, A, k + 1)
    OBVIOUS
  <2>2. k + 1 \in 1..N /\ (k + 1) - 1 = k /\ k <= N
    BY <1>1, <2>1
  <2>3. p[k+1] = UnspentAfter(p[k], items[k+1], A)
    BY <2>2 DEF UnspentLoop
  <2>4. u \in p[k] <=> StillUnspent(u, items, A, k)
    BY <1>3, <2>2
  <2> DEFINE New == u \in OutputsOf(items[k+1]) /\ u.address \in A
             Kept == u.at \notin Inputs(items[k+1].tx)
  <2>5. u \in p[k+1] <=> (StillUnspent(u, items, A, k) \/ New) /\ Kept
    BY <2>3, <2>4 DEF UnspentAfter
  <2>6. ASSUME StillUnspent(u, items, A, k), Kept
        PROVE  StillUnspent(u, items, A, k + 1)
    <3>1. PICK j \in 1..k : /\ u \in OutputsOf(items[j])
                            /\ \A i \in j..k : u.at \notin Inputs(items[i].tx)
      BY <2>6 DEF StillUnspent
    <3>2. j \in 1..(k+1) /\ \A i \in j..(k+1) : i \in j..k \/ i = k + 1
      OBVIOUS
    <3>3. \A i \in j..(k+1) : u.at \notin Inputs(items[i].tx)
      BY <2>6, <3>1, <3>2
    <3> QED
      BY <2>6, <3>1, <3>2, <3>3 DEF StillUnspent
  <2>7. ASSUME New, Kept
        PROVE  StillUnspent(u, items, A, k + 1)
    <3>1. k + 1 \in 1..(k+1) /\ \A i \in (k+1)..(k+1) : i = k + 1
      OBVIOUS
    <3> QED
      BY <2>7, <3>1 DEF StillUnspent
  <2>8. ASSUME StillUnspent(u, items, A, k + 1)
        PROVE  (StillUnspent(u, items, A, k) \/ New) /\ Kept
    <3>1. PICK j \in 1..(k+1) : /\ u \in OutputsOf(items[j])
                                /\ \A i \in j..(k+1) : u.at \notin Inputs(items[i].tx)
      BY <2>8 DEF StillUnspent
    <3>2. k + 1 \in j..(k+1) /\ \A i \in j..k : i \in j..(k+1)
      OBVIOUS
    <3>3. CASE j = k + 1
      BY <2>8, <3>1, <3>2, <3>3 DEF StillUnspent
    <3>4. CASE j # k + 1
      <4>1. j \in 1..k
        BY <3>4
      <4> QED
        BY <2>8, <3>1, <3>2, <4>1 DEF StillUnspent
    <3> QED
      BY <3>3, <3>4
  <2> QED
    BY <2>5, <2>6, <2>7, <2>8
<1>4. S = Nat
  <2>1. S \in SUBSET Nat /\ 0 \in S /\ \A k \in S : k + 1 \in S
    <3> HIDE DEF Good
    <3> QED
      BY <1>2, <1>3
  <2> HIDE DEF S
  <2> QED
    BY <2>1, SetInduction
<1>5. ASSUME NEW k \in 0..N PROVE \A u : u \in p[k] <=> StillUnspent(u, items, A, k)
  <2>1. k \in S /\ k <= N
    <3> HIDE DEF S
    <3> QED
      BY <1>1, <1>4
  <2>2. Good(k)
    <3> HIDE DEF Good
    <3> QED
      BY <2>1
  <2> QED
    BY <2>1, <2>2
<1> QED
  BY <1>5

-------------------------------------------------------------------------------
(* Sums of amounts.                                                          *)

\* A finite set of outputs.
Amounted(S) == IsFiniteSet(S) /\ \A u \in S : u.amount \in Int

\* g sums up the amounts of every subset of S, whichever element comes first.
SumsUp(g, S) ==
  /\ g \in [SUBSET S -> Int]
  /\ g[{}] = 0
  /\ \A s \in SUBSET S : \A u \in s : g[s] = u.amount + g[s \ {u}]

LEMMA AmountedSubset ==
  ASSUME NEW S, NEW T \in SUBSET S, Amounted(S)
  PROVE  Amounted(T)
  BY FS_Subset DEF Amounted

\* An element more.
LEMMA SumsUpMore ==
  ASSUME NEW S, NEW y \in S, NEW f, SumsUp(f, S \ {y}), Amounted(S)
  PROVE  \E g : SumsUp(g, S)
<1> DEFINE T == S \ {y}
           g == [s \in SUBSET S |-> IF y \in s THEN y.amount + f[s \ {y}] ELSE f[s]]
<1>1. \A s \in SUBSET S : s \ {y} \in SUBSET T /\ (y \notin s => s \in SUBSET T)
  OBVIOUS
<1>2. /\ f \in [SUBSET T -> Int] /\ f[{}] = 0
      /\ \A s \in SUBSET T : \A u \in s : f[s] = u.amount + f[s \ {u}]
  BY DEF SumsUp
<1>3. \A u \in S : u.amount \in Int
  BY DEF Amounted
<1> HIDE DEF T
<1>4. \A s \in SUBSET T : f[s] \in Int
  BY <1>2
<1>5. g \in [SUBSET S -> Int]
  <2>1. ASSUME NEW s \in SUBSET S
        PROVE  (IF y \in s THEN y.amount + f[s \ {y}] ELSE f[s]) \in Int
    BY <1>1, <1>3, <1>4
  <2> QED
    BY <2>1
<1>6. \A s \in SUBSET S : g[s] = IF y \in s THEN y.amount + f[s \ {y}] ELSE f[s]
  OBVIOUS
<1> HIDE DEF g
<1>7. g[{}] = 0
  BY <1>2, <1>6
<1>8. ASSUME NEW s \in SUBSET S, NEW u \in s PROVE g[s] = u.amount + g[s \ {u}]
  <2>1. s \ {u} \in SUBSET S /\ u \in S
    OBVIOUS
  <2>2. CASE u = y
    <3>1. g[s] = y.amount + f[s \ {y}]
      BY <1>6, <2>2
    <3>2. g[s \ {y}] = f[s \ {y}]
      BY <1>6, <2>1, <2>2
    <3> QED
      BY <2>2, <3>1, <3>2
  <2>3. CASE u # y /\ y \in s
    <3>1. s \ {y} \in SUBSET T /\ u \in s \ {y} /\ (s \ {y}) \ {u} = (s \ {u}) \ {y}
      BY <1>1, <2>3
    <3>2. f[s \ {y}] = u.amount + f[(s \ {u}) \ {y}]
      BY <1>2, <3>1
    <3>3. g[s] = y.amount + f[s \ {y}] /\ g[s \ {u}] = y.amount + f[(s \ {u}) \ {y}]
      BY <1>6, <2>1, <2>3
    <3>4. y.amount \in Int /\ u.amount \in Int /\ f[(s \ {u}) \ {y}] \in Int
      BY <1>1, <1>3, <1>4, <2>1
    <3> QED
      BY <3>2, <3>3, <3>4
  <2>4. CASE y \notin s
    <3>1. s \in SUBSET T /\ y \notin s \ {u}
      BY <1>1, <2>4
    <3>2. f[s] = u.amount + f[s \ {u}]
      BY <1>2, <3>1
    <3>3. g[s] = f[s] /\ g[s \ {u}] = f[s \ {u}]
      BY <1>6, <2>1, <2>4, <3>1
    <3> QED
      BY <3>2, <3>3
  <2> QED
    BY <2>2, <2>3, <2>4
<1> QED
  BY <1>5, <1>7, <1>8 DEF SumsUp

\* Cardinality, as used in inductions on it.
LEMMA OneElementLess ==
  ASSUME NEW n \in Nat, NEW S, IsFiniteSet(S), Cardinality(S) = n + 1
  PROVE  /\ S # {}
         /\ \A u \in S : IsFiniteSet(S \ {u}) /\ Cardinality(S \ {u}) = n
<1>1. S # {}
  BY FS_EmptySet
<1>2. ASSUME NEW u \in S PROVE IsFiniteSet(S \ {u}) /\ Cardinality(S \ {u}) = n
  <2>1. IsFiniteSet(S \ {u}) /\ Cardinality(S \ {u}) = Cardinality(S) - 1
    BY FS_RemoveElement
  <2> QED
    BY <2>1
<1> QED
  BY <1>1, <1>2

LEMMA SumExists ==
  ASSUME NEW S, Amounted(S)
  PROVE  \E g : SumsUp(g, S)
<1> DEFINE Good(n) == \A T \in SUBSET S : Cardinality(T) = n => \E g : SumsUp(g, T)
           I == {n \in Nat : Good(n)}
<1>1. Good(0)
  <2>1. SUFFICES ASSUME NEW T \in SUBSET S, Cardinality(T) = 0 PROVE \E g : SumsUp(g, T)
    OBVIOUS
  <2>2. T = {}
    BY <2>1, AmountedSubset, FS_EmptySet DEF Amounted
  <2>3. SumsUp([s \in SUBSET {} |-> 0], {})
    BY DEF SumsUp
  <2> QED
    BY <2>2, <2>3
<1>2. ASSUME NEW n \in Nat, Good(n) PROVE Good(n + 1)
  <2>1. SUFFICES ASSUME NEW T \in SUBSET S, Cardinality(T) = n + 1 PROVE \E g : SumsUp(g, T)
    OBVIOUS
  <2>2. Amounted(T) /\ IsFiniteSet(T)
    BY AmountedSubset DEF Amounted
  <2>3. T # {} /\ \A u \in T : Cardinality(T \ {u}) = n
    BY <2>1, <2>2, OneElementLess
  <2>4. PICK y \in T : TRUE
    BY <2>3
  <2>5. PICK f : SumsUp(f, T \ {y})
    <3>1. T \ {y} \in SUBSET S /\ Cardinality(T \ {y}) = n
      BY <2>3
    <3> QED
      BY <1>2, <3>1
  <2> QED
    BY <2>2, <2>5, SumsUpMore
<1>3. I = Nat
  <2>1. I \in SUBSET Nat /\ 0 \in I /\ \A n \in I : n + 1 \in I
    <3> HIDE DEF Good
    <3> QED
      BY <1>1, <1>2
  <2> HIDE DEF I
  <2> QED
    BY <2>1, SetInduction
<1>4. Cardinality(S) \in Nat
  BY FS_CardinalityType DEF Amounted
<1>5. Good(Cardinality(S))
  <2>1. Cardinality(S) \in I
    <3> HIDE DEF I
    <3> QED
      BY <1>3, <1>4
  <2> HIDE DEF Good
  <2> QED
    BY <2>1
<1> QED
  BY <1>5

\* TotalAmount sums up.
LEMMA TotalIs ==
  ASSUME NEW S, Amounted(S), NEW g, SumsUp(g, S), NEW T \in SUBSET S
  PROVE  TotalAmount(T) = g[T]
<1> DEFINE some(s) == CHOOSE u \in s : TRUE
           Step(f) == [s \in SUBSET T |->
                         IF s = {} THEN 0 ELSE some(s).amount + f[s \ {some(s)}]]
           p == CHOOSE f : f = Step(f)
           f == [s \in SUBSET T |-> g[s]]
<1>1. TotalAmount(T) = p[T]
  BY DEF TotalAmount, MapThenSumSet, MapThenFoldSet
<1>2. \A s : s # {} => some(s) \in s
  OBVIOUS
<1> HIDE DEF some
<1>3. ASSUME NEW s \in SUBSET T
      PROVE  f[s] = IF s = {} THEN 0 ELSE some(s).amount + f[s \ {some(s)}]
  <2>1. s \in SUBSET S /\ f[s] = g[s]
    OBVIOUS
  <2>2. CASE s = {}
    BY <2>1, <2>2 DEF SumsUp
  <2>3. CASE s # {}
    <3>1. some(s) \in s /\ s \ {some(s)} \in SUBSET T
      BY <1>2, <2>3
    <3>2. g[s] = some(s).amount + g[s \ {some(s)}]
      BY <2>1, <3>1 DEF SumsUp
    <3>3. f[s \ {some(s)}] = g[s \ {some(s)}]
      BY <3>1
    <3> QED
      BY <2>1, <2>3, <3>2, <3>3
  <2> QED
    BY <2>2, <2>3
<1>4. f = Step(f)
  <2>1. f = [s \in SUBSET T |-> f[s]]
    OBVIOUS
  <2> HIDE DEF f
  <2> QED
    BY <2>1, <1>3
<1>5. p = Step(p)
  <2> HIDE DEF Step, f
  <2> QED
    BY <1>4
<1>6. \A s \in SUBSET T : p[s] = IF s = {} THEN 0 ELSE some(s).amount + p[s \ {some(s)}]
  <2> HIDE DEF p
  <2> QED
    BY <1>5
<1> HIDE DEF p, Step
<1> DEFINE Good(n) == \A s \in SUBSET T : Cardinality(s) = n => p[s] = g[s]
           I == {n \in Nat : Good(n)}
<1>7. \A s \in SUBSET T : IsFiniteSet(s)
  BY FS_Subset DEF Amounted
<1>8. Good(0)
  <2>1. \A s \in SUBSET T : Cardinality(s) = 0 => s = {}
    BY <1>7, FS_EmptySet
  <2> QED
    BY <1>6, <2>1 DEF SumsUp
<1>9. ASSUME NEW n \in Nat, Good(n) PROVE Good(n + 1)
  <2>1. SUFFICES ASSUME NEW s \in SUBSET T, Cardinality(s) = n + 1 PROVE p[s] = g[s]
    OBVIOUS
  <2>2. s # {} /\ \A u \in s : Cardinality(s \ {u}) = n
    BY <1>7, <2>1, OneElementLess
  <2>3. some(s) \in s /\ s \ {some(s)} \in SUBSET T
    BY <1>2, <2>2
  <2>4. p[s \ {some(s)}] = g[s \ {some(s)}]
    BY <1>9, <2>2, <2>3
  <2>5. p[s] = some(s).amount + p[s \ {some(s)}]
    BY <1>6, <2>2
  <2>6. g[s] = some(s).amount + g[s \ {some(s)}]
    BY <2>3 DEF SumsUp
  <2> QED
    BY <2>4, <2>5, <2>6
<1>10. I = Nat
  <2>1. I \in SUBSET Nat /\ 0 \in I /\ \A n \in I : n + 1 \in I
    <3> HIDE DEF Good
    <3> QED
      BY <1>8, <1>9
  <2> HIDE DEF I
  <2> QED
    BY <2>1, SetInduction
<1>11. Good(Cardinality(T))
  <2>1. Cardinality(T) \in I
    <3>1. Cardinality(T) \in Nat
      BY <1>7, FS_CardinalityType
    <3> HIDE DEF I
    <3> QED
      BY <1>10, <3>1
  <2> HIDE DEF Good
  <2> QED
    BY <2>1
<1> QED
  BY <1>1, <1>11

\* The sum of the amounts is a natural number; of none, 0; and any output may be
\* counted first.
LEMMA TotalFacts ==
  ASSUME NEW S, Amounted(S)
  PROVE  /\ TotalAmount(S) \in Int
         /\ TotalAmount({}) = 0
         /\ \A u \in S : TotalAmount(S) = u.amount + TotalAmount(S \ {u})
<1>1. PICK g : SumsUp(g, S)
  BY SumExists
<1>2. \A T \in SUBSET S : TotalAmount(T) = g[T]
  BY <1>1, TotalIs
<1>3. S \in SUBSET S /\ {} \in SUBSET S /\ \A u \in S : S \ {u} \in SUBSET S
  OBVIOUS
<1>4. g[S] \in Int /\ g[{}] = 0 /\ \A u \in S : g[S] = u.amount + g[S \ {u}]
  BY <1>1, <1>3 DEF SumsUp
<1> QED
  BY <1>2, <1>3, <1>4

\* The sum over two sets that have nothing in common.
LEMMA TotalUnion ==
  ASSUME NEW S, NEW T, Amounted(S), Amounted(T), S \cap T = {}
  PROVE  Amounted(S \cup T) /\ TotalAmount(S \cup T) = TotalAmount(S) + TotalAmount(T)
<1> DEFINE U == S \cup T
<1>1. Amounted(U)
  BY FS_Union DEF Amounted
<1>2. PICK g : SumsUp(g, U)
  BY <1>1, SumExists
<1>3. \A V \in SUBSET U : TotalAmount(V) = g[V]
  BY <1>1, <1>2, TotalIs
<1> DEFINE Good(n) == \A s \in SUBSET T : Cardinality(s) = n => g[S \cup s] = g[S] + g[s]
           I == {n \in Nat : Good(n)}
<1>4. /\ \A s \in SUBSET U : g[s] \in Int
      /\ g[{}] = 0
      /\ \A s \in SUBSET U : \A u \in s : g[s] = u.amount + g[s \ {u}]
  BY <1>2 DEF SumsUp
<1>5. \A u \in U : u.amount \in Int
  BY <1>1 DEF Amounted
<1>6. \A s \in SUBSET T : IsFiniteSet(s)
  BY FS_Subset DEF Amounted
<1>7. Good(0)
  <2>1. ASSUME NEW s \in SUBSET T, Cardinality(s) = 0 PROVE g[S \cup s] = g[S] + g[s]
    <3>1. s = {} /\ S \cup s = S /\ S \in SUBSET U
      BY <1>6, <2>1, FS_EmptySet
    <3>2. g[s] = 0 /\ g[S] \in Int
      BY <1>4, <3>1
    <3> QED
      BY <3>1, <3>2
  <2> QED
    BY <2>1
<1>8. ASSUME NEW n \in Nat, Good(n) PROVE Good(n + 1)
  <2>1. SUFFICES ASSUME NEW s \in SUBSET T, Cardinality(s) = n + 1
                 PROVE  g[S \cup s] = g[S] + g[s]
    OBVIOUS
  <2>2. s # {} /\ \A u \in s : Cardinality(s \ {u}) = n
    BY <1>6, <2>1, OneElementLess
  <2>3. PICK u \in s : TRUE
    BY <2>2
  <2> DEFINE r == s \ {u}
  <2>4. /\ r \in SUBSET T /\ r \in SUBSET U /\ s \in SUBSET U /\ u \in U
        /\ S \cup s \in SUBSET U /\ S \in SUBSET U
        /\ (S \cup s) \ {u} = S \cup r
    OBVIOUS
  <2>5. g[S \cup r] = g[S] + g[r]
    BY <1>8, <2>2, <2>4
  <2>6. g[S \cup s] = u.amount + g[S \cup r]
    BY <1>4, <2>4
  <2>7. g[s] = u.amount + g[r]
    BY <1>4, <2>4
  <2>8. g[S] \in Int /\ g[r] \in Int /\ u.amount \in Int
    BY <1>4, <1>5, <2>4
  <2> QED
    BY <2>5, <2>6, <2>7, <2>8
<1>9. I = Nat
  <2>1. I \in SUBSET Nat /\ 0 \in I /\ \A n \in I : n + 1 \in I
    <3> HIDE DEF Good
    <3> QED
      BY <1>7, <1>8
  <2> HIDE DEF I
  <2> QED
    BY <2>1, SetInduction
<1>10. Good(Cardinality(T))
  <2>1. Cardinality(T) \in I
    <3>1. Cardinality(T) \in Nat
      BY <1>6, FS_CardinalityType
    <3> HIDE DEF I
    <3> QED
      BY <1>9, <3>1
  <2> HIDE DEF Good
  <2> QED
    BY <2>1
<1> QED
  BY <1>1, <1>3, <1>10

\* What is left of a set is worth the rest.
LEMMA TotalLeft ==
  ASSUME NEW S, NEW T \in SUBSET S, Amounted(S)
  PROVE  /\ Amounted(S \ T) /\ Amounted(T)
         /\ TotalAmount(S \ T) \in Int /\ TotalAmount(T) \in Int
         /\ TotalAmount(S) = TotalAmount(S \ T) + TotalAmount(T)
<1>1. S \ T \in SUBSET S /\ (S \ T) \cap T = {} /\ (S \ T) \cup T = S
  OBVIOUS
<1>2. Amounted(S \ T) /\ Amounted(T)
  BY <1>1, AmountedSubset
<1>3. TotalAmount((S \ T) \cup T) = TotalAmount(S \ T) + TotalAmount(T)
  BY <1>1, <1>2, TotalUnion
<1> QED
  BY <1>1, <1>2, <1>3, TotalFacts

LEMMA TotalOne ==
  ASSUME NEW u, u.amount \in Int
  PROVE  Amounted({u}) /\ TotalAmount({u}) = u.amount
<1>1. Amounted({u})
  BY FS_Singleton DEF Amounted
<1>2. {u} \ {u} = {}
  OBVIOUS
<1>3. TotalAmount({u}) = u.amount + TotalAmount({u} \ {u}) /\ TotalAmount({}) = 0
  BY <1>1, TotalFacts
<1> QED
  BY <1>1, <1>2, <1>3

-------------------------------------------------------------------------------
(* The outputs of a chain.                                                   *)

LEMMA SeqOver ==
  ASSUME NEW S, NEW s, IsSeq(s), \A i \in DOMAIN s : s[i] \in S
  PROVE  s \in Seq(S)
<1> DEFINE T == {s[i] : i \in DOMAIN s}
<1>1. s \in Seq(T) /\ T \subseteq S
  BY DEF IsSeq
<1> HIDE DEF T
<1> QED
  BY <1>1, SeqMonotonic

TypedChain(c) ==
  IsSeqOfSeqs(c) /\ \A b \in DOMAIN c : \A t \in DOMAIN c[b] : c[b][t] \in Transaction

\* The output a place names.
OutputAt(c, at) ==
  [at |-> at, address |-> GetBlockDetails(c, at).address,
   amount |-> GetBlockDetails(c, at).amount]

\* u is the output that its place names in c, one of transaction t of block b.
IsOutput(c, u, b, t) ==
  /\ u.at \in TxOutPoint /\ u.at[1] + 1 = b /\ u.at[2] + 1 = t
  /\ Exists(c, u.at) /\ u = OutputAt(c, u.at)
  /\ u.address \in Address /\ u.amount \in Int

LEMMA ChainFacts ==
  ASSUME NEW c, TypedChain(c)
  PROVE  /\ Len(c) \in Nat /\ DOMAIN c = 1..Len(c)
         /\ \A b \in DOMAIN c : Len(c[b]) \in Nat /\ DOMAIN c[b] = 1..Len(c[b])
  BY SeqFacts DEF TypedChain, IsSeqOfSeqs

LEMMA TxFacts ==
  ASSUME NEW tx \in Transaction
  PROVE  /\ tx.ins \subseteq TxOutPoint /\ tx.coinbase \in BOOLEAN
         /\ Len(tx.outs) \in Nat /\ DOMAIN tx.outs = 1..Len(tx.outs)
         /\ \A o \in DOMAIN tx.outs : tx.outs[o] \in TxOut
         /\ tx.payment \in Nat /\ tx.from \in Address
<1>1. /\ tx.ins \subseteq TxOutPoint /\ tx.outs \in Seq(TxOut) /\ tx.payment \in Nat
      /\ tx.from \in Address /\ tx.coinbase \in BOOLEAN
  BY DEF Transaction
<1>2. /\ Len(tx.outs) \in Nat /\ DOMAIN tx.outs = 1..Len(tx.outs)
      /\ tx.outs \in [1..Len(tx.outs) -> TxOut]
  BY <1>1, LenProperties
<1> QED
  BY <1>1, <1>2

\* The outputs a transaction makes.
LEMMA OutputsAre ==
  ASSUME NEW c, TypedChain(c), NEW b \in DOMAIN c, NEW t \in DOMAIN c[b],
         NEW u \in OutputsOf(Item(c, b, t))
  PROVE  IsOutput(c, u, b, t)
<1> DEFINE tx == c[b][t]
<1>1. tx \in Transaction
  BY DEF TypedChain
<1>2. PICK o \in DOMAIN tx.outs :
        u = [at |-> <<b - 1, t - 1, o - 1>>, address |-> tx.outs[o].address,
             amount |-> tx.outs[o].amount]
  BY DEF OutputsOf, Item
<1>3. /\ Len(tx.outs) \in Nat /\ DOMAIN tx.outs = 1..Len(tx.outs)
      /\ tx.outs[o].address \in Address /\ tx.outs[o].amount \in Int
  <2> HIDE DEF tx
  <2>1. tx.outs[o] \in TxOut
    BY <1>1, TxFacts
  <2> QED
    BY <1>1, <2>1, TxFacts DEF TxOut
<1>4. /\ Len(c) \in Nat /\ DOMAIN c = 1..Len(c)
      /\ Len(c[b]) \in Nat /\ DOMAIN c[b] = 1..Len(c[b])
  BY ChainFacts
<1>5. /\ b - 1 \in Nat /\ t - 1 \in Nat /\ o - 1 \in Nat
      /\ (b - 1) + 1 = b /\ (t - 1) + 1 = t /\ (o - 1) + 1 = o
      /\ b - 1 < Len(c) /\ t - 1 < Len(c[b]) /\ o - 1 < Len(tx.outs)
  <2> HIDE DEF tx
  <2> QED
    BY <1>3, <1>4, SMTT(30)
<1> DEFINE at == u.at
<1>6. at = <<b - 1, t - 1, o - 1>>
  BY <1>2
<1>7. at \in TxOutPoint /\ at[1] + 1 = b /\ at[2] + 1 = t /\ at[3] + 1 = o
  BY <1>5, <1>6 DEF TxOutPoint
<1>8. at[1] < Len(c) /\ at[2] < Len(c[b]) /\ at[3] < Len(tx.outs)
  BY <1>5, <1>6
<1>9. GetBlockDetails(c, at) = tx.outs[o]
  BY <1>7 DEF GetBlockDetails
<1>10. Exists(c, at)
  BY <1>7, <1>8 DEF Exists
<1>11. u = OutputAt(c, at)
  BY <1>2, <1>6, <1>9 DEF OutputAt
<1>12. u.address \in Address /\ u.amount \in Int
  BY <1>2, <1>3
<1> QED
  BY <1>7, <1>10, <1>11, <1>12 DEF IsOutput

\* An output that exists was made by the transaction its place names.
LEMMA MadeThere ==
  ASSUME NEW c, TypedChain(c), NEW at \in TxOutPoint, Exists(c, at)
  PROVE  /\ at[1] + 1 \in DOMAIN c /\ at[2] + 1 \in DOMAIN c[at[1] + 1]
         /\ OutputAt(c, at) \in OutputsOf(Item(c, at[1] + 1, at[2] + 1))
<1> DEFINE b == at[1] + 1
           t == at[2] + 1
           o == at[3] + 1
           tx == c[b][t]
<1>1. /\ at[1] \in Nat /\ at[2] \in Nat /\ at[3] \in Nat /\ at = <<at[1], at[2], at[3]>>
      /\ b - 1 = at[1] /\ t - 1 = at[2] /\ o - 1 = at[3]
      /\ b \in Nat \ {0} /\ t \in Nat \ {0} /\ o \in Nat \ {0}
  BY DEF TxOutPoint
<1>2. at[1] < Len(c) /\ at[2] < Len(c[b]) /\ at[3] < Len(tx.outs)
  BY DEF Exists
<1> HIDE DEF b, t, o
<1>3. b \in DOMAIN c
  BY <1>1, <1>2, ChainFacts DEF b
<1>4. t \in DOMAIN c[b]
  BY <1>1, <1>2, <1>3, ChainFacts DEF t
<1>5. tx \in Transaction
  BY <1>3, <1>4 DEF TypedChain
<1>6. o \in DOMAIN tx.outs
  <2> HIDE DEF tx
  <2>1. Len(tx.outs) \in Nat /\ DOMAIN tx.outs = 1..Len(tx.outs)
    BY <1>5, TxFacts
  <2> QED
    BY <1>1, <1>2, <2>1, SMTT(30) DEF o
<1>7. GetBlockDetails(c, at) = tx.outs[o]
  BY DEF GetBlockDetails, b, t, o
<1>8. OutputAt(c, at) = [at |-> <<b - 1, t - 1, o - 1>>, address |-> tx.outs[o].address,
                         amount |-> tx.outs[o].amount]
  BY <1>1, <1>7 DEF OutputAt
<1>9. OutputAt(c, at) \in OutputsOf(Item(c, b, t))
  BY <1>6, <1>8 DEF OutputsOf, Item
<1> QED
  BY <1>3, <1>4, <1>9 DEF b, t

\* They are finitely many.
LEMMA OutputsFinite ==
  ASSUME NEW c, TypedChain(c), NEW b \in DOMAIN c, NEW t \in DOMAIN c[b]
  PROVE  Amounted(OutputsOf(Item(c, b, t)))
<1> DEFINE tx == c[b][t]
           D == DOMAIN tx.outs
           T == OutputsOf(Item(c, b, t))
           f == [o \in D |-> [at |-> <<b - 1, t - 1, o - 1>>, address |-> tx.outs[o].address,
                              amount |-> tx.outs[o].amount]]
<1>1. tx \in Transaction
  BY DEF TypedChain
<1>2. IsFiniteSet(D)
  <2>1. Len(tx.outs) \in Nat /\ DOMAIN tx.outs = 1..Len(tx.outs)
    <3> HIDE DEF tx
    <3> QED
      BY <1>1, TxFacts
  <2> HIDE DEF tx
  <2> QED
    BY <2>1, FS_Interval
<1>3. f \in Surjection(D, T)
  <2>1. T = {f[o] : o \in D}
    BY DEF OutputsOf, Item
  <2> HIDE DEF T, D
  <2> QED
    BY <2>1 DEF Surjection
<1>4. IsFiniteSet(T)
  <2> HIDE DEF T, D, f
  <2> QED
    BY <1>2, <1>3, FS_Surjection
<1>5. \A u \in T : u.amount \in Int
  BY OutputsAre DEF IsOutput
<1> QED
  BY <1>4, <1>5 DEF Amounted

\* Every item is a transaction of the chain, with its place, and the other way round.
LEMMA ItemPlaces ==
  ASSUME NEW c, IsSeqOfSeqs(c)
  PROVE  /\ IsSeq(TxItems(c))
         /\ \A k \in DOMAIN TxItems(c) : \E b \in DOMAIN c : \E t \in DOMAIN c[b] :
              TxItems(c)[k] = Item(c, b, t)
         /\ \A b \in DOMAIN c : \A t \in DOMAIN c[b] : \E k \in DOMAIN TxItems(c) :
              TxItems(c)[k] = Item(c, b, t)
<1> DEFINE items == TxItems(c)
<1>1. PICK off : Offsets(off, c)
  BY OffsetsExist
<1>2. LaidOut(items, c, off, Len(c))
  BY <1>1, ItemsLaidOut
<1> HIDE DEF items
<1>3. /\ DOMAIN c = 1..Len(c)
      /\ \A b \in DOMAIN c : DOMAIN c[b] = 1..Len(c[b])
  BY SeqFacts DEF IsSeqOfSeqs
<1>4. IsSeq(items)
  BY <1>2 DEF LaidOut
<1>5. DOMAIN items = 1..Len(items)
  BY <1>4, SeqFacts
<1>6. ASSUME NEW b \in DOMAIN c, NEW t \in DOMAIN c[b]
      PROVE  \E k \in DOMAIN items : items[k] = Item(c, b, t)
  BY <1>2, <1>3, <1>5 DEF LaidOut
<1>7. ASSUME NEW k \in DOMAIN items
      PROVE  \E b \in DOMAIN c : \E t \in DOMAIN c[b] : items[k] = Item(c, b, t)
  <2>1. PICK b \in 1..Len(c) : \E t \in 1..Len(c[b]) : k = off[b-1] + t
    BY <1>2, <1>5 DEF LaidOut
  <2>2. PICK t \in 1..Len(c[b]) : k = off[b-1] + t
    BY <2>1
  <2>3. items[k] = Item(c, b, t)
    BY <1>2, <2>2 DEF LaidOut
  <2> QED
    BY <1>3, <2>3
<1> QED
  BY <1>4, <1>6, <1>7 DEF items

\* The sets of the loop are finite.
LEMMA UnspentFinite ==
  ASSUME NEW c, TypedChain(c), NEW A, NEW p, UnspentLoop(p, TxItems(c), A)
  PROVE  \A k \in 0..Len(TxItems(c)) : Amounted(p[k])
<1> DEFINE items == TxItems(c)
           N == Len(items)
           Good(k) == k <= N => Amounted(p[k])
           S == {k \in Nat : Good(k)}
<1>1. IsSeq(items)
  BY ItemPlaces DEF TypedChain
<1>2. N \in Nat /\ DOMAIN items = 1..N
  BY <1>1, SeqFacts
<1>3. ASSUME NEW k \in 1..N PROVE Amounted(OutputsOf(items[k]))
  <2>1. PICK b \in DOMAIN c : \E t \in DOMAIN c[b] : items[k] = Item(c, b, t)
    BY <1>2, ItemPlaces DEF TypedChain
  <2>2. PICK t \in DOMAIN c[b] : items[k] = Item(c, b, t)
    BY <2>1
  <2> QED
    BY <2>2, OutputsFinite
<1>4. Good(0)
  BY FS_EmptySet DEF UnspentLoop, Amounted
<1> HIDE DEF items, N
<1>5. ASSUME NEW k \in Nat, Good(k) PROVE Good(k + 1)
  <2>1. SUFFICES ASSUME k + 1 <= N PROVE Amounted(p[k+1])
    OBVIOUS
  <2>2. k + 1 \in 1..N /\ (k + 1) - 1 = k /\ k <= N
    BY <1>2, <2>1
  <2>3. p[k+1] = UnspentAfter(p[k], items[k+1], A)
    BY <2>2 DEF UnspentLoop, items, N
  <2> DEFINE O == OutputsOf(items[k+1])
             Q == p[k] \cup O
  <2>4. p[k+1] \in SUBSET Q
    BY <2>3 DEF UnspentAfter
  <2>5. Amounted(p[k]) /\ Amounted(O)
    BY <1>3, <1>5, <2>2
  <2> HIDE DEF O
  <2>6. Amounted(Q)
    BY <2>5, FS_Union DEF Amounted
  <2> HIDE DEF Q
  <2> QED
    BY <2>4, <2>6, AmountedSubset
<1>6. S = Nat
  <2>1. S \in SUBSET Nat /\ 0 \in S /\ \A k \in S : k + 1 \in S
    <3> HIDE DEF Good
    <3> QED
      BY <1>4, <1>5
  <2> HIDE DEF S
  <2> QED
    BY <2>1, SetInduction
<1>7. ASSUME NEW k \in 0..N PROVE Amounted(p[k])
  <2>1. k \in S /\ k <= N
    <3> HIDE DEF S
    <3> QED
      BY <1>2, <1>6
  <2>2. Good(k)
    <3> HIDE DEF Good
    <3> QED
      BY <2>1
  <2> QED
    BY <2>1, <2>2
<1> QED
  BY <1>7 DEF items, N

\* What GetUnspentTxOuts returns: outputs of the chain to the addresses asked for, none
\* of them spent in a later block.
LEMMA UnspentIs ==
  ASSUME NEW c, TypedChain(c), NEW A
  PROVE  /\ Amounted(GetUnspentTxOuts(c, A))
         /\ \A u \in GetUnspentTxOuts(c, A) :
              /\ u.address \in A
              /\ \E b \in DOMAIN c : \E t \in DOMAIN c[b] :
                   /\ IsOutput(c, u, b, t)
                   /\ \A d \in DOMAIN c : d > b =>
                        \A s \in DOMAIN c[d] : u.at \notin Inputs(c[d][s])
<1> DEFINE items == TxItems(c)
           N == Len(items)
           U == GetUnspentTxOuts(c, A)
<1>1. IsSeq(items) /\ IsSeqOfSeqs(c)
  BY ItemPlaces DEF TypedChain
<1>2. PICK off : Offsets(off, c)
  BY <1>1, OffsetsExist
<1>3. LaidOut(items, c, off, Len(c))
  BY <1>1, <1>2, ItemsLaidOut
<1>4. PICK p : UnspentLoop(p, items, A) /\ U = p[N]
  BY <1>1, UnspentStates
<1>5. \A k \in 0..N : Amounted(p[k])
  BY <1>4, UnspentFinite
<1> HIDE DEF items, U
<1>6. \A k \in 0..N : \A u : u \in p[k] <=> StillUnspent(u, items, A, k)
  BY <1>1, <1>4, UnspentAre
<1>7. N \in Nat /\ DOMAIN items = 1..N /\ N \in 0..N
  BY <1>1, SeqFacts
<1>8. /\ Len(c) \in Nat /\ DOMAIN c = 1..Len(c)
      /\ \A b \in DOMAIN c : Len(c[b]) \in Nat /\ DOMAIN c[b] = 1..Len(c[b])
  BY ChainFacts
<1>9. ASSUME NEW u \in U
      PROVE  \E b \in DOMAIN c : \E t \in DOMAIN c[b] :
               /\ IsOutput(c, u, b, t)
               /\ \A d \in DOMAIN c : d > b =>
                    \A s \in DOMAIN c[d] : u.at \notin Inputs(c[d][s])
  <2>1. StillUnspent(u, items, A, N)
    BY <1>4, <1>6, <1>7
  <2>2. PICK j \in 1..N : /\ u \in OutputsOf(items[j])
                          /\ \A i \in j..N : u.at \notin Inputs(items[i].tx)
    BY <2>1 DEF StillUnspent
  <2>3. PICK b \in 1..Len(c) : \E t \in 1..Len(c[b]) : j = off[b-1] + t
    BY <1>3 DEF LaidOut
  <2>4. PICK t \in 1..Len(c[b]) : j = off[b-1] + t
    BY <2>3
  <2>5. b \in DOMAIN c /\ t \in DOMAIN c[b] /\ items[j] = Item(c, b, t)
    BY <1>3, <1>8, <2>4 DEF LaidOut
  <2>6. IsOutput(c, u, b, t)
    BY <2>2, <2>5, OutputsAre
  <2>7. ASSUME NEW d \in DOMAIN c, d > b, NEW s \in DOMAIN c[d]
        PROVE  u.at \notin Inputs(c[d][s])
    <3> DEFINE i == off[d-1] + s
    <3>1. i \in 1..N /\ items[i] = Item(c, d, s)
      BY <1>3, <1>8 DEF LaidOut
    <3>2. b \in 0..Len(c) /\ d - 1 \in 0..Len(c) /\ b <= d - 1 /\ b - 1 \in 0..Len(c)
      BY <1>8, <2>7
    <3>3. off[b] <= off[d-1]
      BY <1>1, <1>2, <3>2, OffsetsGrow
    <3>4. off[b] = off[b-1] + Len(c[b]) /\ off[b-1] \in Nat /\ off[d-1] \in Nat
      BY <1>2, <3>2 DEF Offsets
    <3>5. Len(c[b]) \in Nat /\ s \in Nat /\ s >= 1
      BY <1>8, <2>5
    <3>6. i \in j..N
      <4>1. j <= off[b]
        BY <2>4, <3>4, <3>5
      <4>2. off[b] \in Nat /\ off[b] <= i
        BY <3>3, <3>4, <3>5, SMTT(30)
      <4>3. i \in Nat /\ i <= N /\ j \in Nat
        BY <1>7, <3>1
      <4> HIDE DEF i, N
      <4> QED
        BY <1>7, <4>1, <4>2, <4>3
    <3>7. items[i].tx = c[d][s]
      BY <3>1 DEF Item
    <3> QED
      BY <2>2, <3>6, <3>7
  <2> QED
    BY <2>5, <2>6, <2>7
<1>10. Amounted(U)
  BY <1>4, <1>5, <1>7
<1>11. ASSUME NEW u \in U PROVE u.address \in A
  BY <1>4, <1>6, <1>7 DEF StillUnspent
<1> QED
  BY <1>9, <1>10, <1>11 DEF U

-------------------------------------------------------------------------------
(* What CreateTransaction makes.                                             *)

\* tx pays a to r with outputs S of s; what is left goes back to s.
PaysWith(tx, S, s, r, a) ==
  /\ S # {}
  /\ tx.ins = {u.at : u \in S}
  /\ tx.from = s /\ r # s /\ ~tx.coinbase
  /\ IsSeq(tx.outs) /\ 1 \in DOMAIN tx.outs
  /\ tx.outs[1] = [address |-> r, amount |-> a]
  /\ \/ DOMAIN tx.outs = {1} /\ TotalAmount(S) = a
     \/ /\ DOMAIN tx.outs = {1, 2} /\ TotalAmount(S) > a
        /\ tx.outs[2] = [address |-> s, amount |-> TotalAmount(S) - a]

LEMMA ShortConcat ==
  ASSUME NEW x, NEW y
  PROVE  /\ <<x>> \o <<>> = <<x>>
         /\ IsSeq(<<x>> \o <<y>>) /\ DOMAIN (<<x>> \o <<y>>) = {1, 2}
         /\ (<<x>> \o <<y>>)[1] = x /\ (<<x>> \o <<y>>)[2] = y
<1> DEFINE s == <<x>>
           t == <<y>>
           r == s \o t
<1>1. /\ IsSeq(s) /\ DOMAIN s = {1} /\ s[1] = x /\ Len(s) = 1
      /\ IsSeq(t) /\ DOMAIN t = {1} /\ t[1] = y /\ Len(t) = 1
  BY ShortSeqs
<1>2. s \o <<>> = s
  BY ConcatEmptySeq, s \in Seq({x})
<1> HIDE DEF s, t
<1>3. ConcatOf(r, s, t)
  BY <1>1, ConcatIs
<1> HIDE DEF r
<1>4. IsSeq(r) /\ DOMAIN r = 1..(1 + 1) /\ r[1] = x /\ r[1 + 1] = y
  BY <1>1, <1>3 DEF ConcatOf
<1>5. DOMAIN r = {1, 2} /\ r[2] = y
  BY <1>4
<1> QED
  BY <1>2, <1>4, <1>5 DEF r, s, t

LEMMA PaymentParts ==
  ASSUME NEW c, TypedChain(c), NEW s, NEW r, NEW a \in Int, NEW n,
         NEW tx \in CreateTransaction(c, s, r, a, n)
  PROVE  \E S \in SUBSET GetUnspentTxOuts(c, {s}) : PaysWith(tx, S, s, r, a)
<1> DEFINE U == GetUnspentTxOuts(c, {s})
           first == [address |-> r, amount |-> a]
           change(S) == [address |-> s, amount |-> TotalAmount(S) - a]
           Outs(S) == <<first>> \o (IF TotalAmount(S) > a THEN <<change(S)>> ELSE <<>>)
<1>1. Amounted(U)
  BY UnspentIs
<1> HIDE DEF U
<1>2. PICK S \in EnoughOf(U, a) :
        tx = [ coinbase |-> FALSE, ins |-> {u.at : u \in S}, outs |-> Outs(S),
               id |-> NoId, payment |-> n, from |-> s ]
  BY DEF CreateTransaction, U
<1>3. r # s
  BY DEF CreateTransaction
<1>4. S \in SUBSET U /\ TotalAmount(S) >= a /\ S # {}
  BY <1>2 DEF EnoughOf
<1>5. TotalAmount(S) \in Int
  BY <1>1, <1>4, AmountedSubset, TotalFacts
<1>6. /\ tx.ins = {u.at : u \in S} /\ tx.from = s /\ ~tx.coinbase
      /\ tx.outs = Outs(S)
  <2> HIDE DEF Outs
  <2> QED
    BY <1>2
<1> DEFINE x == first
           y == change(S)
<1>7. CASE TotalAmount(S) > a
  <2>1. tx.outs = <<x>> \o <<y>>
    BY <1>6, <1>7
  <2> HIDE DEF x, y
  <2>3. /\ IsSeq(tx.outs) /\ DOMAIN tx.outs = {1, 2} /\ tx.outs[1] = x /\ tx.outs[2] = y
    BY <2>1, ShortConcat
  <2> QED
    BY <1>3, <1>4, <1>6, <1>7, <2>3 DEF PaysWith, x, y, U
<1>8. CASE ~(TotalAmount(S) > a)
  <2>1. tx.outs = <<x>> \o <<>>
    BY <1>6, <1>8
  <2> HIDE DEF x
  <2>2. <<x>> \o <<>> = <<x>> /\ IsSeq(<<x>>) /\ DOMAIN <<x>> = {1} /\ <<x>>[1] = x
    BY ShortConcat, ShortSeqs
  <2>3. IsSeq(tx.outs) /\ DOMAIN tx.outs = {1} /\ tx.outs[1] = x
    BY <2>1, <2>2
  <2>4. TotalAmount(S) = a
    BY <1>4, <1>5, <1>8
  <2> QED
    BY <1>3, <1>4, <1>6, <2>3, <2>4 DEF PaysWith, x, U
<1> QED
  BY <1>7, <1>8

\* A payment is a transaction.
LEMMA PaymentTyped ==
  ASSUME NEW c, TypedChain(c), NEW s \in Address, NEW r \in Address, NEW a \in Int,
         NEW n \in Nat, NEW tx \in CreateTransaction(c, s, r, a, n)
  PROVE  tx \in Transaction /\ ~tx.coinbase /\ tx.payment = n /\ tx.from = s /\ tx.id = NoId
<1> DEFINE U == GetUnspentTxOuts(c, {s})
<1>1. PICK S \in SUBSET U : PaysWith(tx, S, s, r, a)
  BY PaymentParts
<1>2. /\ IsTx(tx) /\ tx.payment = n /\ ~tx.coinbase
  BY PaymentIs
<1>3. /\ Amounted(U)
      /\ \A u \in U : u.at \in TxOutPoint
  BY UnspentIs DEF IsOutput
<1>4. tx.id = NoId /\ tx.coinbase = FALSE
  <2> DEFINE Outs(T) == <<[address |-> r, amount |-> a]>> \o
                          (IF TotalAmount(T) > a
                             THEN <<[address |-> s, amount |-> TotalAmount(T) - a]>>
                             ELSE <<>>)
  <2>1. PICK T : tx = [ coinbase |-> FALSE, ins |-> {u.at : u \in T}, outs |-> Outs(T),
                        id |-> NoId, payment |-> n, from |-> s ]
    BY DEF CreateTransaction
  <2> HIDE DEF Outs
  <2> QED
    BY <2>1
<1> HIDE DEF U
<1>5. tx.ins \subseteq TxOutPoint /\ tx.from = s
  BY <1>1, <1>3 DEF PaysWith
<1>6. TotalAmount(S) \in Int
  BY <1>1, <1>3, AmountedSubset, TotalFacts
<1>7. tx.outs \in Seq(TxOut)
  <2>1. IsSeq(tx.outs)
    BY <1>1 DEF PaysWith
  <2>2. ASSUME NEW o \in DOMAIN tx.outs PROVE tx.outs[o] \in TxOut
    <3>1. CASE o = 1
      BY <1>1, <3>1 DEF PaysWith, TxOut
    <3>2. CASE o # 1
      <4>1. /\ o = 2 /\ TotalAmount(S) > a
            /\ tx.outs[2] = [address |-> s, amount |-> TotalAmount(S) - a]
        BY <1>1, <3>2 DEF PaysWith
      <4>2. TotalAmount(S) - a \in Int
        BY <1>6, <4>1
      <4> QED
        BY <4>1, <4>2 DEF TxOut
    <3> QED
      BY <3>1, <3>2
  <2> QED
    BY <2>1, <2>2, SeqOver
<1>8. NoId \in TxId
  BY DEF NoId, GetTransactionId, TxId
<1>9. tx \in Transaction
  <2>1. tx = [ coinbase |-> tx.coinbase, ins |-> tx.ins, outs |-> tx.outs, id |-> tx.id,
               payment |-> tx.payment, from |-> tx.from ]
    BY <1>2 DEF IsTx
  <2> QED
    BY <1>2, <1>4, <1>5, <1>7, <1>8, <2>1 DEF Transaction
<1> QED
  BY <1>2, <1>4, <1>5, <1>9

\* A new id, and nothing else changes.
Renamed(tx, old, n) ==
  /\ tx \in Transaction
  /\ tx.coinbase = old.coinbase /\ tx.ins = old.ins /\ tx.outs = old.outs
  /\ tx.payment = old.payment /\ tx.from = old.from
  /\ tx.id = GetTransactionId(old.ins, old.outs, n)

LEMMA NewIdTyped ==
  ASSUME NEW tx \in Transaction, NEW n \in Nat
  PROVE  Renamed(calcuateId(tx, n), tx, n)
<1> DEFINE d == GetTransactionId(tx.ins, tx.outs, n)
           r == calcuateId(tx, n)
<1>1. d \in TxId
  BY DEF GetTransactionId, Transaction, TxId
<1>2. r = [tx EXCEPT !.id = d]
  BY DEF calcuateId
<1> HIDE DEF r
<1>3. r \in Transaction
  BY <1>1, <1>2 DEF Transaction
<1>4. /\ r.coinbase = tx.coinbase /\ r.ins = tx.ins /\ r.outs = tx.outs
      /\ r.payment = tx.payment /\ r.from = tx.from /\ r.id = d
  <2> HIDE DEF d
  <2> QED
    BY <1>2 DEF Transaction
<1> QED
  BY <1>3, <1>4 DEF Renamed, r

\* The coinbase of block n.
Rewards(tx, n) ==
  /\ tx \in Transaction
  /\ tx.coinbase /\ tx.payment = 0 /\ tx.ins = {<<n, 0, 0>>}
  /\ DOMAIN tx.outs = {1} /\ tx.outs[1].amount = COINBASE_REWARD
  /\ tx.id = GetTransactionId(tx.ins, tx.outs, n)

LEMMA CoinbaseTyped ==
  ASSUME NEW n \in Nat, NEW a \in Address
  PROVE  Rewards(CreateCoinbaseTransaction(n, a), n)
<1> DEFINE o == [address |-> a, amount |-> COINBASE_REWARD]
           s == <<o>>
           tx == [ coinbase |-> TRUE, ins |-> {<<n, 0, 0>>}, outs |-> s,
                   id |-> NoId, payment |-> 0, from |-> a ]
           r == CreateCoinbaseTransaction(n, a)
<1>1. o \in TxOut /\ o.amount = COINBASE_REWARD
  BY AmountAssumption DEF TxOut
<1> HIDE DEF o
<1>2. s \in Seq(TxOut) /\ DOMAIN s = {1} /\ s[1] = o
  BY <1>1, ShortSeqs
<1> HIDE DEF s
<1>3. NoId \in TxId
  BY DEF NoId, GetTransactionId, TxId
<1>4. tx \in Transaction
  BY <1>2, <1>3 DEF Transaction, TxOutPoint
<1>5. tx.coinbase /\ tx.payment = 0 /\ tx.ins = {<<n, 0, 0>>} /\ tx.outs = s
  OBVIOUS
<1>6. r = calcuateId(tx, n)
  BY DEF CreateCoinbaseTransaction, s, o
<1> HIDE DEF tx, r
<1>7. Renamed(r, tx, n)
  BY <1>4, <1>6, NewIdTyped
<1>8. Rewards(r, n)
  BY <1>1, <1>2, <1>5, <1>7 DEF Renamed, Rewards
<1> QED
  BY <1>8 DEF r

\* A block made by createUnminedBlock of queue q, with index n.
BlockOf(w, q, n) ==
  /\ IsSeq(w)
  /\ 1 \in DOMAIN w /\ Rewards(w[1], n)
  /\ \A t \in DOMAIN w : t # 1 => t - 1 \in DOMAIN q /\ Renamed(w[t], q[t - 1], n)

LEMMA BlockMade ==
  ASSUME NEW q, NEW n \in Nat, NEW a \in Address, IsSeq(q),
         \A i \in DOMAIN q : q[i] \in Transaction
  PROVE  BlockOf(<<CreateCoinbaseTransaction(n, a)>> \o
                   [i \in DOMAIN q |-> calcuateId(q[i], n)], q, n)
<1> DEFINE cb == CreateCoinbaseTransaction(n, a)
           f == [i \in DOMAIN q |-> calcuateId(q[i], n)]
           T == {calcuateId(q[i], n) : i \in DOMAIN q}
           h == <<cb>>
           w == h \o f
<1>1. Rewards(cb, n)
  BY CoinbaseTyped
<1> HIDE DEF cb
<1>2. Len(q) \in Nat /\ DOMAIN q = 1..Len(q)
  BY SeqFacts
<1>3. f \in [1..Len(q) -> T] /\ \A i \in 1..Len(q) : f[i] = calcuateId(q[i], n)
  BY <1>2
<1> HIDE DEF f, T
<1>4. IsSeq(f) /\ Len(f) = Len(q)
  BY <1>2, <1>3, FcnSeq
<1>5. ASSUME NEW i \in 1..Len(q) PROVE Renamed(f[i], q[i], n)
  BY <1>2, <1>3, NewIdTyped
<1>6. IsSeq(h) /\ DOMAIN h = {1} /\ h[1] = cb /\ Len(h) = 1
  BY ShortSeqs
<1> HIDE DEF h
<1>7. ConcatOf(w, h, f)
  BY <1>4, <1>6, ConcatIs
<1> HIDE DEF w
<1>8. /\ IsSeq(w) /\ DOMAIN w = 1..(1 + Len(q)) /\ w[1] = cb
      /\ \A i \in 1..Len(q) : w[1 + i] = f[i]
  BY <1>4, <1>6, <1>7 DEF ConcatOf
<1>9. ASSUME NEW t \in DOMAIN w, t # 1
      PROVE  t - 1 \in DOMAIN q /\ Renamed(w[t], q[t - 1], n)
  <2>1. t - 1 \in 1..Len(q) /\ 1 + (t - 1) = t
    BY <1>2, <1>8, <1>9
  <2> QED
    BY <1>2, <1>5, <1>8, <2>1
<1>10. 1 \in DOMAIN w
  BY <1>2, <1>8
<1>11. BlockOf(w, q, n)
  BY <1>1, <1>8, <1>9, <1>10 DEF BlockOf
<1> QED
  BY <1>11 DEF w, h, f, cb

\* What a peer mined on top of c: a block with a coinbase and at most one payment, and
\* perhaps one with a coinbase only.
PeerMined(blocks, c) ==
  /\ IsSeqOfSeqs(blocks)
  /\ \/ DOMAIN blocks = {1}
     \/ DOMAIN blocks = {1, 2} /\ DOMAIN blocks[2] = {1} /\ Rewards(blocks[2][1], Len(c) + 1)
  /\ 1 \in DOMAIN blocks[1] /\ Rewards(blocks[1][1], Len(c))
  /\ \/ DOMAIN blocks[1] = {1}
     \/ /\ DOMAIN blocks[1] = {1, 2} /\ payments < MaxPayments
        /\ \E r \in Address, a \in Amounts :
             \E tx \in CreateTransaction(c, PeerMiner, r, a, payments + 1) :
               Renamed(blocks[1][2], tx, Len(c))

LEMMA PeersMined ==
  ASSUME NEW c, TypedChain(c), payments \in Nat, NEW blocks \in PeerBlocks(c)
  PROVE  PeerMined(blocks, c)
<1> DEFINE cb(k) == CreateCoinbaseTransaction(Len(c) + k, PeerMiner)
           n == payments + 1
           Paid == UNION { CreateTransaction(c, PeerMiner, r, a, n) :
                             r \in Address,
                             a \in IF payments < MaxPayments THEN Amounts ELSE {} }
           First == {<<cb(0)>>} \cup {<<cb(0), calcuateId(tx, Len(c))>> : tx \in Paid}
           e == <<cb(1)>>
           x == cb(0)
<1>1. blocks \in {<<b>> : b \in First} \cup {<<b, e>> : b \in First}
  BY DEF PeerBlocks
<1>2. Len(c) \in Nat
  BY ChainFacts
<1>3. Rewards(x, Len(c)) /\ Rewards(cb(1), Len(c) + 1)
  <2>1. Len(c) + 0 \in Nat /\ Len(c) + 1 \in Nat /\ Len(c) + 0 = Len(c)
    BY <1>2
  <2>2. Rewards(cb(0), Len(c) + 0) /\ Rewards(cb(1), Len(c) + 1)
    BY <2>1, CoinbaseTyped, AddressAssumption
  <2> QED
    BY <2>1, <2>2
<1>4. ASSUME NEW tx \in Paid
      PROVE  /\ payments < MaxPayments
             /\ \E r \in Address, a \in Amounts : tx \in CreateTransaction(c, PeerMiner, r, a, n)
             /\ tx \in Transaction
  <2>1. PICK r \in Address, a \in Amounts :
          tx \in CreateTransaction(c, PeerMiner, r, a, n) /\ payments < MaxPayments
    OBVIOUS
  <2>2. a \in Int /\ n \in Nat /\ PeerMiner \in Address
    BY AmountAssumption, AddressAssumption
  <2>3. tx \in Transaction
    BY <2>1, <2>2, PaymentTyped
  <2> QED
    BY <2>1, <2>3
<1> HIDE DEF x, Paid
<1>5. IsSeq(e) /\ DOMAIN e = {1} /\ Rewards(e[1], Len(c) + 1)
  <2> DEFINE y == cb(1)
  <2> HIDE DEF cb
  <2>1. IsSeq(<<y>>) /\ DOMAIN <<y>> = {1} /\ <<y>>[1] = y
    BY ShortSeqs
  <2> QED
    BY <1>3, <2>1
<1> HIDE DEF e
<1>6. ASSUME NEW b \in First
      PROVE  /\ IsSeq(b) /\ 1 \in DOMAIN b /\ Rewards(b[1], Len(c))
             /\ \/ DOMAIN b = {1}
                \/ /\ DOMAIN b = {1, 2} /\ payments < MaxPayments
                   /\ \E r \in Address, a \in Amounts :
                        \E tx \in CreateTransaction(c, PeerMiner, r, a, n) :
                          Renamed(b[2], tx, Len(c))
  <2>1. CASE b = <<x>>
    <3>1. IsSeq(b) /\ DOMAIN b = {1} /\ b[1] = x
      BY <2>1, ShortSeqs
    <3> QED
      BY <1>3, <3>1
  <2>2. CASE \E tx \in Paid : b = <<x, calcuateId(tx, Len(c))>>
    <3>1. PICK tx \in Paid : b = <<x, calcuateId(tx, Len(c))>>
      BY <2>2
    <3> DEFINE y == calcuateId(tx, Len(c))
    <3>2. Renamed(y, tx, Len(c))
      BY <1>2, <1>4, NewIdTyped
    <3> HIDE DEF y
    <3>3. b = <<x, y>>
      BY <3>1 DEF y
    <3>4. IsSeq(b) /\ DOMAIN b = {1, 2} /\ b[1] = x /\ b[2] = y
      BY <3>3, ShortSeqs
    <3>5. PICK r \in Address, a \in Amounts : tx \in CreateTransaction(c, PeerMiner, r, a, n)
      BY <1>4
    <3> HIDE DEF n
    <3> QED
      BY <1>3, <1>4, <3>2, <3>4, <3>5
  <2>3. b = <<x>> \/ \E tx \in Paid : b = <<x, calcuateId(tx, Len(c))>>
    BY DEF x
  <2> QED
    BY <2>1, <2>2, <2>3
<1> HIDE DEF First
<1>7. PICK b \in First : blocks = <<b>> \/ blocks = <<b, e>>
  BY <1>1
<1>8. CASE blocks = <<b>>
  <2>1. IsSeq(blocks) /\ DOMAIN blocks = {1} /\ blocks[1] = b
    BY <1>8, ShortSeqs
  <2>2. IsSeqOfSeqs(blocks)
    BY <1>6, <2>1 DEF IsSeqOfSeqs
  <2> QED
    BY <1>6, <2>1, <2>2 DEF PeerMined
<1>9. CASE blocks = <<b, e>>
  <2>1. IsSeq(blocks) /\ DOMAIN blocks = {1, 2} /\ blocks[1] = b /\ blocks[2] = e
    BY <1>9, ShortSeqs
  <2>2. IsSeqOfSeqs(blocks)
    BY <1>5, <1>6, <2>1 DEF IsSeqOfSeqs
  <2> QED
    BY <1>5, <1>6, <2>1, <2>2 DEF PeerMined
<1> QED
  BY <1>7, <1>8, <1>9

-------------------------------------------------------------------------------
(* Every variable has its type.                                              *)

TypedSeq(s) == \A i \in DOMAIN s : s[i] \in Transaction
TypedBlocks(c) == \A b \in DOMAIN c : TypedSeq(c[b]) /\ 1 \in DOMAIN c[b]

\* TypeOK element by element; that queue, block and chains are sequences is in
\* LedgerInv.
TypeInv ==
  /\ TypedBlocks(chain) /\ TypedBlocks(temp.blocks) /\ TypedSeq(queue) /\ TypedSeq(work)
  /\ \A b \in DOMAIN base : base[b] \in Seq(Transaction)
  /\ {temp.whole, done} \subseteq BOOLEAN /\ due \in 0..MaxSyncs
  /\ pc \in {"off", "loop", "template", "mining", "sync", "exited", "down"}
  /\ payments \in 0..MaxPayments /\ accepted \subseteq 1..payments
  /\ \A i \in DOMAIN queue : ~queue[i].coinbase
  /\ \A t \in DOMAIN work : work[t].coinbase <=> t = 1
  /\ pc = "mining" => 1 \in DOMAIN work

LEMMA TypedIs ==
  ASSUME NEW c, IsSeqOfSeqs(c), TypedBlocks(c)
  PROVE  TypedChain(c)
  BY DEF TypedBlocks, TypedSeq, TypedChain

LEMMA TypedCut ==
  ASSUME NEW c, TypedChain(c), NEW k \in Nat, k <= Len(c)
  PROVE  TypedChain(SubSeq(c, 1, k)) /\ Len(SubSeq(c, 1, k)) = k
<1> DEFINE d == SubSeq(c, 1, k)
<1>1. Len(c) \in Nat /\ DOMAIN c = 1..Len(c) /\ IsSeq(c)
  BY ChainFacts DEF TypedChain, IsSeqOfSeqs
<1>2. CutOf(d, c, k)
  BY <1>1, CutIs
<1> HIDE DEF d
<1>3. IsSeq(d) /\ Len(d) = k /\ \A i \in 1..k : d[i] = c[i]
  BY <1>2 DEF CutOf
<1>4. DOMAIN d = 1..k
  BY <1>3, SeqFacts
<1>5. \A i \in DOMAIN d : i \in DOMAIN c /\ d[i] = c[i]
  BY <1>1, <1>3, <1>4
<1>6. TypedChain(d)
  BY <1>3, <1>5 DEF TypedChain, IsSeqOfSeqs
<1> QED
  BY <1>3, <1>6 DEF d

\* An update brings blocks of transactions, and a payment only if there may be one
\* more.
BringsTyped(blocks) ==
  /\ TypedBlocks(blocks)
  /\ \/ payments < MaxPayments
     \/ \A b \in DOMAIN blocks : \A t \in DOMAIN blocks[b] : blocks[b][t].payment = 0

LEMMA PeersBringTyped ==
  ASSUME NEW c, TypedChain(c), payments \in Nat, NEW bs \in PeerBlocks(c)
  PROVE  BringsTyped(bs)
<1>1. PeerMined(bs, c)
  BY PeersMined
<1>2. \A tx, old, n : Renamed(tx, old, n) => tx \in Transaction
  BY DEF Renamed
<1>3. \A tx, n : Rewards(tx, n) => tx \in Transaction /\ tx.payment = 0
  BY DEF Rewards
<1>4. ASSUME NEW t \in DOMAIN bs[1] PROVE bs[1][t] \in Transaction
  <2>1. CASE t = 1
    BY <1>1, <1>3, <2>1 DEF PeerMined
  <2>2. CASE t # 1
    <3>1. t = 2
      BY <1>1, <2>2 DEF PeerMined
    <3> QED
      BY <1>1, <1>2, <2>2, <3>1 DEF PeerMined
  <2> QED
    BY <2>1, <2>2
<1>5. ASSUME NEW b \in DOMAIN bs, b # 1
      PROVE  b = 2 /\ DOMAIN bs[2] = {1} /\ Rewards(bs[2][1], Len(c) + 1)
  BY <1>1, <1>5 DEF PeerMined
<1>6. ASSUME NEW b \in DOMAIN bs, b # 1
      PROVE  /\ TypedSeq(bs[b]) /\ 1 \in DOMAIN bs[b]
             /\ \A t \in DOMAIN bs[b] : bs[b][t].payment = 0
  BY <1>3, <1>5, <1>6 DEF TypedSeq
<1>7. TypedSeq(bs[1]) /\ 1 \in DOMAIN bs[1]
  BY <1>1, <1>4 DEF TypedSeq, PeerMined
<1>8. TypedBlocks(bs)
  BY <1>6, <1>7 DEF TypedBlocks
<1>9. payments < MaxPayments \/ \A t \in DOMAIN bs[1] : bs[1][t].payment = 0
  BY <1>1, <1>3 DEF PeerMined
<1> QED
  BY <1>6, <1>8, <1>9 DEF BringsTyped

LEMMA ForeignersBringTyped ==
  ASSUME NEW k \in Nat
  PROVE  BringsTyped(ForeignChain(k))
<1> DEFINE cb(i) == CreateCoinbaseTransaction(i - 1, PeerMiner)
           bs == ForeignChain(k)
<1>1. bs = [i \in 1..k |-> <<cb(i)>>]
  BY DEF ForeignChain
<1>2. ASSUME NEW i \in 1..k PROVE cb(i) \in Transaction /\ cb(i).payment = 0
  <2>1. i - 1 \in Nat /\ PeerMiner \in Address
    BY AddressAssumption
  <2>2. Rewards(cb(i), i - 1)
    BY <2>1, CoinbaseTyped
  <2> QED
    BY <2>2 DEF Rewards
<1> HIDE DEF cb, bs
<1>3. ASSUME NEW b \in DOMAIN bs
      PROVE  DOMAIN bs[b] = {1} /\ bs[b][1] \in Transaction /\ bs[b][1].payment = 0
  <2> DEFINE y == cb(b)
  <2>1. b \in 1..k /\ bs[b] = <<y>> /\ y \in Transaction /\ y.payment = 0
    BY <1>1, <1>2
  <2> HIDE DEF y
  <2>2. DOMAIN <<y>> = {1} /\ <<y>>[1] = y
    BY ShortSeqs
  <2> QED
    BY <2>1, <2>2
<1> QED
  BY <1>3 DEF BringsTyped, TypedBlocks, TypedSeq, bs

LEMMA UpdateTyped ==
  ASSUME LedgerInv, TypeInv, NEW u \in Updates
  PROVE  BringsTyped(u.blocks) /\ u.whole \in BOOLEAN
<1>1. TypedChain(chain) /\ payments \in Nat /\ IsSeq(chain)
  BY TypedIs DEF LedgerInv, AllSequences, IsSeqOfSeqs, Numbered, TypeInv
<1>2. /\ u.whole \in BOOLEAN /\ u.start \in Nat /\ u.start <= Len(chain)
      /\ \/ u.blocks \in PeerBlocks(chain)
         \/ u.blocks \in PeerBlocks(SubSeq(chain, 1, u.start))
         \/ u.blocks = <<>>
         \/ \E k \in Nat : u.blocks = ForeignChain(k)
  BY <1>1, UpdateCases
<1>3. TypedChain(SubSeq(chain, 1, u.start))
  BY <1>1, <1>2, TypedCut
<1>4. BringsTyped(<<>>)
  BY ShortSeqs DEF BringsTyped, TypedBlocks
<1> QED
  BY <1>1, <1>2, <1>3, <1>4, PeersBringTyped, ForeignersBringTyped

\* So has what becomes of a chain.
LEMMA TypedSplice ==
  ASSUME NEW c, NEW u, IsSeqOfSeqs(c), IsSeqOfSeqs(u.blocks), u.start \in Nat,
         u.start <= Len(c), TypedBlocks(c), TypedBlocks(u.blocks)
  PROVE  TypedBlocks(SyncedChain(c, u))
<1> DEFINE r == SyncedChain(c, u)
<1>1. SpliceOf(r, c, u.start, u.blocks)
  BY SpliceIs
<1> HIDE DEF r
<1>2. TypedBlocks(r)
  BY <1>1 DEF SpliceOf, TypedBlocks
<1> QED
  BY <1>2 DEF r

\* What is queued.
QueueTyped(q) == TypedSeq(q) /\ \A i \in DOMAIN q : ~q[i].coinbase

LEMMA RequeuedTyped ==
  ASSUME LedgerInv, TypeInv
  PROVE  QueueTyped(reQueueTransactions(queue, work))
<1> DEFINE q == reQueueTransactions(queue, work)
<1>1. IsSeq(queue) /\ IsSeq(work) /\ Once(queue) /\ Once(work) /\ Apart(queue, work)
  BY DEF LedgerInv, AllSequences, Distinct
<1>2. Gathers(q, queue, work, Len(work))
  BY <1>1, Requeued
<1>3. DOMAIN work = 1..Len(work)
  BY <1>1, SeqFacts
<1> HIDE DEF q
<1>4. ASSUME NEW i \in DOMAIN q PROVE q[i] \in Transaction /\ ~q[i].coinbase
  BY <1>2, <1>3 DEF Gathers, TypeInv, TypedSeq
<1>5. QueueTyped(q)
  BY <1>4 DEF QueueTyped, TypedSeq
<1> QED
  BY <1>5 DEF q

LEMMA SyncedTyped ==
  ASSUME NEW q, NEW u, QueueTyped(q)
  PROVE  QueueTyped(SyncedQueue(q, u))
<1>1. DOMAIN <<>> = {}
  OBVIOUS
<1> QED
  BY <1>1 DEF SyncedQueue, QueueTyped, TypedSeq

LEMMA InitTyped == Init => TypeInv
<1> SUFFICES ASSUME Init PROVE TypeInv
  OBVIOUS
<1> DEFINE cb == CreateCoinbaseTransaction(0, Miner)
           b == <<cb>>
<1>1. chain = <<b>>
  BY DEF Init
<1>2. cb \in Transaction
  BY CoinbaseTyped, AddressAssumption DEF Rewards
<1> HIDE DEF cb
<1>3. DOMAIN b = {1} /\ b[1] = cb
  BY ShortSeqs
<1> HIDE DEF b
<1>4. DOMAIN chain = {1} /\ chain[1] = b
  BY <1>1, ShortSeqs
<1>5. TypedBlocks(chain)
  BY <1>2, <1>3, <1>4 DEF TypedBlocks, TypedSeq
<1>6. /\ DOMAIN queue = {} /\ DOMAIN work = {} /\ DOMAIN temp.blocks = {}
      /\ pc = "off" /\ accepted = {} /\ payments = 0
      /\ DOMAIN base = {} /\ temp.whole = FALSE /\ done = TRUE /\ due = 0
  BY NoUpdateIs, ShortSeqs DEF Init
<1>7. {temp.whole, done} \subseteq BOOLEAN
  BY <1>6
<1>8. due \in 0..MaxSyncs /\ payments \in 0..MaxPayments
  BY <1>6, LedgerBoundsAssumption
<1> QED
  BY <1>5, <1>6, <1>7, <1>8 DEF TypeInv, TypedSeq, TypedBlocks

LEMMA CreateTxTyped ==
  ASSUME LedgerInv, TypeInv, NEW s \in Address, NEW r \in Address, NEW a \in Amounts,
         CreateTx(s, r, a)
  PROVE  TypeInv'
<1>1. PICK tx \in CreateTransaction(chain, s, r, a, payments + 1) : queue' = Append(queue, tx)
  BY DEF CreateTx
<1>2. /\ chain' = chain /\ work' = work /\ temp' = temp /\ pc' = pc
      /\ payments' = payments + 1 /\ accepted' = accepted \cup {payments + 1}
      /\ payments < MaxPayments
      /\ base' = base /\ done' = done /\ due' = due
  BY DEF CreateTx
<1>3. TypedChain(chain) /\ payments \in Nat /\ IsSeq(queue)
  BY TypedIs DEF LedgerInv, AllSequences, Numbered, TypeInv
<1>4. a \in Int /\ payments + 1 \in Nat
  BY <1>3, AmountAssumption
<1>5. tx \in Transaction /\ ~tx.coinbase
  BY <1>3, <1>4, PaymentTyped
<1>6. AppendOf(queue', queue, tx)
  BY <1>1, <1>3, AppendIs
<1>7. Len(queue) \in Nat /\ DOMAIN queue = 1..Len(queue)
  BY <1>3, SeqFacts
<1>8. \A i \in DOMAIN queue' : queue'[i] = tx \/ \E j \in DOMAIN queue : queue'[i] = queue[j]
  BY <1>6, <1>7 DEF AppendOf
<1>9. \A i \in DOMAIN queue' : queue'[i] \in Transaction /\ ~queue'[i].coinbase
  BY <1>5, <1>8 DEF TypeInv, TypedSeq
<1>10. payments' \in 0..MaxPayments /\ accepted' \subseteq 1..payments'
  BY <1>2, <1>3, LedgerBoundsAssumption DEF TypeInv
<1> QED
  BY <1>2, <1>9, <1>10 DEF TypeInv, TypedSeq

LEMMA TemplateTyped ==
  ASSUME LedgerInv, TypeInv, Template
  PROVE  TypeInv' /\ BlockOf(work', queue, Len(chain))
<1>1. /\ chain' = chain /\ temp' = temp /\ pc' = "mining" /\ queue' = <<>>
      /\ accepted' = accepted /\ payments' = payments
      /\ base' = chain /\ done' = done /\ due' = due
  BY DEF Template, createUnminedBlock, history
<1>2. IsSeq(queue) /\ Len(chain) \in Nat
  BY SeqFacts DEF LedgerInv, AllSequences, IsSeqOfSeqs
<1>3. BlockOf(work', queue, Len(chain))
  BY <1>2, BlockMade, AddressAssumption DEF Template, createUnminedBlock, TypeInv, TypedSeq
<1>4. ASSUME NEW t \in DOMAIN work'
      PROVE  work'[t] \in Transaction /\ (work'[t].coinbase <=> t = 1)
  <2>1. CASE t = 1
    BY <1>3, <2>1 DEF BlockOf, Rewards
  <2>2. CASE t # 1
    BY <1>3, <2>2 DEF BlockOf, Renamed, TypeInv
  <2> QED
    BY <2>1, <2>2
<1>5. DOMAIN queue' = {} /\ 1 \in DOMAIN work'
  BY <1>1, <1>3 DEF BlockOf
<1>6. ASSUME NEW b \in DOMAIN chain PROVE chain[b] \in Seq(Transaction)
  BY SeqOver DEF LedgerInv, AllSequences, IsSeqOfSeqs, TypeInv, TypedBlocks, TypedSeq
<1> QED
  BY <1>1, <1>3, <1>4, <1>5, <1>6 DEF TypeInv, TypedSeq

LEMMA FoundTyped ==
  ASSUME LedgerInv, TypeInv, Found
  PROVE  TypeInv'
<1>1. /\ chain' = Append(chain, work) /\ work' = <<>> /\ pc' = "sync" /\ queue' = queue
      /\ temp' = temp /\ accepted' = accepted /\ payments' = payments
      /\ base' = <<>> /\ done' = done /\ due' = due
  BY DEF Found, history
<1>2. IsSeq(chain)
  BY DEF LedgerInv, AllSequences, IsSeqOfSeqs
<1>3. AppendOf(chain', chain, work)
  BY <1>1, <1>2, AppendIs
<1>4. Len(chain) \in Nat /\ DOMAIN chain = 1..Len(chain)
  BY <1>2, SeqFacts
<1>5. \A b \in DOMAIN chain' :
        chain'[b] = work \/ (b \in DOMAIN chain /\ chain'[b] = chain[b])
  BY <1>3, <1>4 DEF AppendOf
<1>6. TypedBlocks(chain')
  BY <1>5 DEF TypeInv, TypedBlocks, Found
<1>7. DOMAIN work' = {} /\ DOMAIN base' = {}
  BY <1>1
<1> QED
  BY <1>1, <1>6, <1>7 DEF TypeInv, TypedSeq

LEMMA RefuseTyped ==
  ASSUME LedgerInv, TypeInv, Refuse
  PROVE  TypeInv'
<1>1. /\ chain' = chain /\ work' = <<>> /\ pc' \in {"off", "exited"} /\ queue' = queue
      /\ temp' = temp /\ accepted' = accepted /\ payments' = payments
      /\ base' = <<>> /\ done' = TRUE /\ due' = due
  BY DEF Refuse, history
<1>2. DOMAIN work' = {} /\ DOMAIN base' = {}
  BY <1>1
<1> QED
  BY <1>1, <1>2 DEF TypeInv, TypedSeq

LEMMA AbortTyped ==
  ASSUME LedgerInv, TypeInv, Abort
  PROVE  TypeInv'
<1>1. /\ queue' = reQueueTransactions(queue, work) /\ work' = <<>> /\ pc' = "sync"
      /\ chain' = chain /\ temp' = temp /\ accepted' = accepted /\ payments' = payments
      /\ base' = <<>> /\ done' = done /\ due' = due
  BY DEF Abort, history
<1>2. QueueTyped(queue')
  BY <1>1, RequeuedTyped
<1>3. DOMAIN work' = {} /\ DOMAIN base' = {}
  BY <1>1
<1> QED
  BY <1>1, <1>2, <1>3 DEF TypeInv, QueueTyped, TypedSeq

\* syncBlockchain keeps the types of what it changes.
LEMMA SyncsTyped ==
  ASSUME LedgerInv, TypeInv, syncBlockchain
  PROVE  /\ QueueTyped(queue') /\ TypedBlocks(chain') /\ TypedBlocks(temp'.blocks)
         /\ temp'.whole \in BOOLEAN
<1>1. QueueTyped(queue) /\ TypedBlocks(chain) /\ TypedBlocks(temp.blocks)
  BY DEF TypeInv, QueueTyped
<1>2. /\ IsSeqOfSeqs(chain) /\ IsSeqOfSeqs(temp.blocks) /\ temp.start \in Nat
      /\ temp.start <= Len(chain)
  BY DEF LedgerInv, AllSequences, Shape
<1>3. temp'.whole = FALSE /\ temp'.blocks = <<>>
  BY DEF syncBlockchain, NoUpdate
<1>4. TypedBlocks(temp'.blocks)
  BY <1>3, ShortSeqs DEF TypedBlocks
<1>5. CASE temp = NoUpdate
  BY <1>1, <1>3, <1>4, <1>5 DEF syncBlockchain
<1>6. CASE temp # NoUpdate
  <2>1. chain' = SyncedChain(chain, temp) /\ queue' = SyncedQueue(queue, temp)
    BY <1>6 DEF syncBlockchain
  <2> QED
    BY <1>1, <1>2, <1>3, <1>4, <2>1, SyncedTyped, TypedSplice
<1> QED
  BY <1>5, <1>6

LEMMA SyncTyped ==
  ASSUME LedgerInv, TypeInv, Sync
  PROVE  TypeInv'
<1>1. /\ pc = "sync" /\ pc' = "loop" /\ work' = work
      /\ accepted' = accepted /\ payments' = payments
      /\ base' = base /\ done' = done /\ due' = due
  BY DEF Sync, history
<1>2. /\ QueueTyped(queue') /\ TypedBlocks(chain') /\ TypedBlocks(temp'.blocks)
      /\ temp'.whole \in BOOLEAN
  BY SyncsTyped DEF Sync
<1> QED
  BY <1>1, <1>2 DEF TypeInv, QueueTyped, TypedSeq

LEMMA WsSyncTyped ==
  ASSUME LedgerInv, TypeInv, WsSync
  PROVE  TypeInv'
<1>1. /\ pc' = pc /\ work' = work /\ accepted' = accepted /\ payments' = payments
      /\ done' = done /\ due' = due - 1 /\ due > 0 /\ due \in 0..MaxSyncs
      /\ base' = base \/ base' = Replaced(base)
  BY DEF WsSync, history, TypeInv
<1>2. /\ QueueTyped(queue') /\ TypedBlocks(chain') /\ TypedBlocks(temp'.blocks)
      /\ temp'.whole \in BOOLEAN
  BY SyncsTyped DEF WsSync
<1>3. due' \in 0..MaxSyncs
  BY <1>1, LedgerBoundsAssumption
<1>4. \A b \in DOMAIN base' : base'[b] \in Seq(Transaction)
  <2>1. <<>> \in Seq(Transaction)
    OBVIOUS
  <2>2. \A b \in DOMAIN base : base[b] \in Seq(Transaction)
    BY DEF TypeInv
  <2>3. /\ DOMAIN Replaced(base) = DOMAIN base
        /\ \A b \in DOMAIN base : Replaced(base)[b] \in {base[b], <<>>}
    BY DEF Replaced
  <2>4. CASE base' = base
    BY <2>2, <2>4
  <2>5. CASE base' = Replaced(base)
    <3>1. \A b \in DOMAIN base : Replaced(base)[b] \in Seq(Transaction)
      BY <2>1, <2>2, <2>3
    <3> QED
      BY <2>3, <2>5, <3>1
  <2> QED
    BY <1>1, <2>4, <2>5
<1> QED
  BY <1>1, <1>2, <1>3, <1>4 DEF TypeInv, QueueTyped, TypedSeq

LEMMA EndTyped ==
  ASSUME LedgerInv, TypeInv, End
  PROVE  TypeInv'
<1>1. /\ queue' = <<>> /\ work' = <<>> /\ base' = <<>> /\ temp' = NoUpdate
      /\ done' = TRUE /\ due' = 0 /\ pc' = "down" /\ chain' = chain
      /\ accepted' = accepted /\ payments' = payments
  BY DEF End, history
<1>2. temp'.whole = FALSE /\ temp'.blocks = <<>>
  BY <1>1 DEF NoUpdate
<1>3. DOMAIN work' = {} /\ DOMAIN base' = {} /\ DOMAIN queue' = {} /\ DOMAIN temp'.blocks = {}
  BY <1>1, <1>2
<1>4. due' \in 0..MaxSyncs
  BY <1>1, LedgerBoundsAssumption
<1> QED
  BY <1>1, <1>2, <1>3, <1>4 DEF TypeInv, TypedSeq, TypedBlocks

LEMMA ReceiveTyped ==
  ASSUME LedgerInv, TypeInv, Receive
  PROVE  TypeInv'
<1>1. /\ work' = work /\ pc' = pc /\ accepted' = accepted /\ queue' = queue
      /\ base' = base /\ done' = done /\ due' = due
  BY DEF Receive
<1>2. PICK u \in Updates :
        /\ IF Calm
             THEN chain' = SyncedChain(chain, u) /\ UNCHANGED temp
             ELSE temp' = u /\ UNCHANGED chain
        /\ payments' = IF \E b \in DOMAIN u.blocks :
                            \E t \in DOMAIN u.blocks[b] : u.blocks[b][t].payment # 0
                         THEN payments + 1 ELSE payments
  BY DEF Receive
<1>3. IsSeqOfSeqs(chain) /\ IsSeq(chain) /\ payments \in Nat
  BY DEF LedgerInv, AllSequences, IsSeqOfSeqs, Numbered
<1>4. IsSeqOfSeqs(u.blocks) /\ u.start \in Nat /\ u.start <= Len(chain)
  BY <1>3, UpdateIs DEF BringsOnly
<1>5. BringsTyped(u.blocks) /\ u.whole \in BOOLEAN
  BY UpdateTyped
<1>6. payments' \in 0..MaxPayments /\ (payments' = payments \/ payments' = payments + 1)
  BY <1>2, <1>3, <1>5, LedgerBoundsAssumption DEF TypeInv, BringsTyped
<1>7. accepted' \subseteq 1..payments'
  BY <1>1, <1>3, <1>6 DEF TypeInv
<1>8. TypedBlocks(chain') /\ TypedBlocks(temp'.blocks) /\ temp'.whole \in BOOLEAN
  <2>1. CASE Calm
    <3>1. chain' = SyncedChain(chain, u) /\ temp' = temp
      BY <1>2, <2>1
    <3> QED
      BY <1>3, <1>4, <1>5, <3>1, TypedSplice DEF TypeInv, BringsTyped
  <2>2. CASE ~Calm
    <3>1. temp' = u /\ chain' = chain
      BY <1>2, <2>2
    <3> QED
      BY <1>5, <3>1 DEF TypeInv, BringsTyped
  <2> QED
    BY <2>1, <2>2
<1> QED
  BY <1>1, <1>6, <1>7, <1>8 DEF TypeInv

\* A step that leaves chain, queue, block and update alone, and begins no block.
LEMMA IdleTyped ==
  ASSUME LedgerInv, TypeInv,
         UNCHANGED <<chain, queue, work, base, temp, accepted, payments>>,
         done' \in BOOLEAN, due' \in 0..MaxSyncs,
         pc' \in {"off", "loop", "template", "exited", "down"} \/ pc' = pc
  PROVE  TypeInv'
  BY DEF TypeInv

LEMMA NextTyped ==
  ASSUME LedgerInv, TypeInv, [Next]_vars
  PROVE  TypeInv'
<1>1. done \in BOOLEAN /\ due \in 0..MaxSyncs
  BY DEF TypeInv
<1>2. CASE UNCHANGED vars
  BY <1>1, <1>2, IdleTyped DEF vars
<1>3. CASE \E s \in Address \ {PeerMiner}, r \in Address, a \in Amounts : CreateTx(s, r, a)
  BY <1>3, CreateTxTyped
<1>4. CASE StartMining
  BY <1>1, <1>4, IdleTyped DEF StartMining, history
<1>5. CASE StopMining
  BY <1>1, <1>5, IdleTyped DEF StopMining, history
<1>6. CASE MineLoop
  BY <1>1, <1>6, IdleTyped DEF MineLoop, history
<1>7. CASE NoticeDone
  <2>1. due' \in 0..MaxSyncs
    BY <1>1, <1>7, LedgerBoundsAssumption DEF NoticeDone
  <2> QED
    BY <1>1, <1>7, <2>1, IdleTyped DEF NoticeDone, history
<1>8. CASE Launch
  BY <1>1, <1>8, IdleTyped DEF Launch, history
<1> QED
  BY <1>2, <1>3, <1>4, <1>5, <1>6, <1>7, <1>8, TemplateTyped, FoundTyped, RefuseTyped,
     AbortTyped, SyncTyped, ReceiveTyped, WsSyncTyped, EndTyped
  DEF Next

\* Block by block and transaction by transaction, this is TypeOK.
LEMMA TypeInvMeansTypeOK == LedgerInv /\ TypeInv => TypeOK
<1> SUFFICES ASSUME LedgerInv, TypeInv PROVE TypeOK
  OBVIOUS
<1>1. /\ IsSeq(queue) /\ IsSeq(work) /\ IsSeqOfSeqs(chain) /\ IsSeqOfSeqs(temp.blocks)
      /\ temp.start \in Nat
  BY DEF LedgerInv, AllSequences, Shape
<1>2. /\ TypedBlocks(chain) /\ TypedBlocks(temp.blocks) /\ TypedSeq(queue) /\ TypedSeq(work)
  BY DEF TypeInv
<1>3. \A s : IsSeq(s) /\ TypedSeq(s) => s \in Seq(Transaction)
  BY SeqOver DEF TypedSeq
<1>4. ASSUME NEW b \in DOMAIN chain PROVE chain[b] \in Seq(Transaction) /\ chain[b] # <<>>
  <2>1. IsSeq(chain[b]) /\ TypedSeq(chain[b]) /\ 1 \in DOMAIN chain[b]
    BY <1>1, <1>2 DEF IsSeqOfSeqs, TypedBlocks
  <2>2. ASSUME chain[b] = <<>> PROVE FALSE
    BY <2>1, <2>2, ShortSeqs
  <2> QED
    BY <1>3, <2>1, <2>2
<1>5. \A b \in DOMAIN temp.blocks : temp.blocks[b] \in Seq(Transaction)
  BY <1>1, <1>2, <1>3 DEF IsSeqOfSeqs, TypedBlocks
<1>6. queue \in Seq(Transaction) /\ work \in Seq(Transaction)
  BY <1>1, <1>2, <1>3
<1>7. \A tx \in ToSet(queue) : ~tx.coinbase
  BY DEF ToSet, TypeInv
<1> QED
  BY <1>1, <1>4, <1>5, <1>6, <1>7 DEF TypeInv, TypeOK

LEMMA TypeInvariant == Spec => [](LedgerInv /\ TypeInv)
<1>1. LedgerInv /\ TypeInv /\ [Next]_vars => TypeInv'
  BY NextTyped
<1> QED
  BY <1>1, LedgerInvariant, InitTyped, PTL DEF Spec

\* Chain, queue, block and update hold transactions only, the queue payments only and the
\* block one coinbase in front of payments, whatever mix of blocks given up or refused
\* (reQueueTransactions, addNewBlock), updates under the mining thread (syncBlockchain),
\* restarts and payments there was, of negative amounts, too.
THEOREM LedgerTyped == Spec => []TypeOK
<1> QED
  BY TypeInvariant, TypeInvMeansTypeOK, PTL

-------------------------------------------------------------------------------
(* What is accepted stays in its place, but for three cases.                 *)

Occurs(p, s) == \E i \in DOMAIN s : s[i].payment = p
OccursIn(p, c) == \E b \in DOMAIN c : Occurs(p, c[b])
Placed(p) == Occurs(p, queue) \/ Occurs(p, work) \/ OccursIn(p, chain)

\* The payments of the block are all in the queue again.
LEMMA RequeuedOccur ==
  ASSUME LedgerInv, NEW p \in Nat \ {0}, Occurs(p, queue) \/ Occurs(p, work)
  PROVE  Occurs(p, reQueueTransactions(queue, work))
<1> DEFINE q == reQueueTransactions(queue, work)
<1>1. IsSeq(queue) /\ IsSeq(work) /\ Once(queue) /\ Once(work) /\ Apart(queue, work)
  BY DEF LedgerInv, AllSequences, Distinct
<1>2. Gathers(q, queue, work, Len(work))
  BY <1>1, Requeued
<1>3. DOMAIN work = 1..Len(work)
  BY <1>1, SeqFacts
<1> HIDE DEF q
<1>4. ASSUME NEW j \in DOMAIN work, work[j].payment = p PROVE Occurs(p, q)
  <2>1. IsTx(work[j])
    BY DEF LedgerInv, Shape, OfTxs
  <2>2. ~work[j].coinbase
    BY <1>4, <2>1 DEF IsTx
  <2> QED
    BY <1>2, <1>3, <1>4, <2>2 DEF Gathers, Occurs
<1>5. ASSUME NEW j \in DOMAIN queue, queue[j].payment = p PROVE Occurs(p, q)
  BY <1>2, <1>5 DEF Gathers, Occurs
<1> QED
  BY <1>4, <1>5 DEF Occurs, q

\* A payment more in the queue.
LEMMA CreateTxOccurs ==
  ASSUME LedgerInv, NEW s, NEW r, NEW a, CreateTx(s, r, a), NEW p, Occurs(p, queue)
  PROVE  Occurs(p, queue')
<1>1. PICK tx \in CreateTransaction(chain, s, r, a, payments + 1) : queue' = Append(queue, tx)
  BY DEF CreateTx
<1>2. IsSeq(queue)
  BY DEF LedgerInv, AllSequences
<1>3. AppendOf(queue', queue, tx)
  BY <1>1, <1>2, AppendIs
<1>4. Len(queue) \in Nat /\ DOMAIN queue = 1..Len(queue)
  BY <1>2, SeqFacts
<1>5. \A i \in DOMAIN queue : i \in DOMAIN queue' /\ queue'[i] = queue[i]
  BY <1>3, <1>4 DEF AppendOf
<1> QED
  BY <1>5 DEF Occurs

\* The queue becomes the block.
LEMMA TemplateOccurs ==
  ASSUME LedgerInv, Template, NEW p, Occurs(p, queue)
  PROVE  Occurs(p, work')
<1>1. IsSeq(queue) /\ OfTxs(queue)
  BY DEF LedgerInv, AllSequences, Shape
<1>2. TemplateOf(work', queue)
  BY <1>1, TemplateIs DEF Template, createUnminedBlock
<1> QED
  BY <1>2 DEF TemplateOf, Occurs

\* The block goes to the chain.
LEMMA FoundOccurs ==
  ASSUME LedgerInv, Found, NEW p, Occurs(p, work)
  PROVE  OccursIn(p, chain')
<1>1. IsSeq(chain) /\ chain' = Append(chain, work)
  BY DEF LedgerInv, AllSequences, IsSeqOfSeqs, Found
<1>2. AppendOf(chain', chain, work)
  BY <1>1, AppendIs
<1>3. Len(chain) \in Nat
  BY <1>1, SeqFacts
<1>4. Len(chain) + 1 \in DOMAIN chain' /\ chain'[Len(chain) + 1] = work
  BY <1>2, <1>3 DEF AppendOf
<1> QED
  BY <1>4 DEF OccursIn

\* An update leaves the queue alone unless a whole chain is swapped in.
LEMMA SyncOccurs ==
  ASSUME syncBlockchain, NEW p, Occurs(p, queue)
  PROVE  Occurs(p, queue') \/ (temp.whole /\ temp' = NoUpdate)
  BY DEF syncBlockchain, SyncedQueue

\* Those that wait are in the chain, wait on, or are among the three cases.
LEMMA NextOccurs ==
  ASSUME LedgerInv, [Next]_vars, NEW p \in Nat \ {0}, Occurs(p, queue) \/ Occurs(p, work)
  PROVE  \/ Occurs(p, queue') \/ Occurs(p, work') \/ OccursIn(p, chain')
         \/ pc' = "down"
         \/ temp.whole /\ temp' = NoUpdate
         \/ pc = "mining" /\ pc' # "mining" /\ chain # base
<1>1. pc # "mining" => ~Occurs(p, work)
  <2>1. DOMAIN <<>> = {}
    OBVIOUS
  <2> QED
    BY <2>1 DEF LedgerInv, Shape, Occurs
<1>2. CASE queue' = queue /\ work' = work
  BY <1>2
<1>3. CASE UNCHANGED vars
  BY <1>2, <1>3 DEF vars
<1>4. ASSUME NEW s, NEW r, NEW a, CreateTx(s, r, a)
      PROVE  Occurs(p, queue') \/ Occurs(p, work')
  <2>1. work' = work
    BY <1>4 DEF CreateTx
  <2> QED
    BY <1>4, <2>1, CreateTxOccurs
<1>5. CASE StartMining
  BY <1>2, <1>5 DEF StartMining
<1>6. CASE StopMining
  BY <1>2, <1>6 DEF StopMining
<1>7. CASE MineLoop
  BY <1>2, <1>7 DEF MineLoop
<1>8. CASE Template
  BY <1>1, <1>8, TemplateOccurs DEF Template
<1>9. CASE Found
  <2>1. queue' = queue
    BY <1>9 DEF Found
  <2> QED
    BY <1>9, <2>1, FoundOccurs
<1>10. CASE Refuse
  BY <1>10 DEF Refuse
<1>11. CASE Abort
  BY <1>11, RequeuedOccur DEF Abort
<1>12. CASE Sync
  <2>1. work' = work /\ syncBlockchain
    BY <1>12 DEF Sync
  <2> QED
    BY <2>1, SyncOccurs
<1>13. CASE Receive
  BY <1>2, <1>13 DEF Receive
<1>14. CASE NoticeDone
  BY <1>2, <1>14 DEF NoticeDone
<1>15. CASE WsSync
  <2>1. work' = work /\ syncBlockchain
    BY <1>15 DEF WsSync
  <2> QED
    BY <2>1, SyncOccurs
<1>16. CASE End
  BY <1>16 DEF End
<1>17. CASE Launch
  BY <1>2, <1>17 DEF Launch
<1> QED
  BY <1>3, <1>4, <1>5, <1>6, <1>7, <1>8, <1>9, <1>10, <1>11, <1>12, <1>13, <1>14, <1>15,
     <1>16, <1>17
  DEF Next

\* What is in the queue, the block or the chain has a place.
HavePlaces == \A p : Placed(p) => Places(p) # {}

LEMMA PlacedMeansPlaces == LedgerInv => HavePlaces
<1> SUFFICES ASSUME LedgerInv, NEW p, Placed(p) PROVE Places(p) # {}
  BY DEF HavePlaces
<1> DEFINE h == Held
<1>1. HeldIs(h)
  BY HeldParts
<1>2. ASSUME NEW i \in DOMAIN h, Occurs(p, h[i]) PROVE Places(p) # {}
  <2>1. PICK t \in DOMAIN h[i] : h[i][t].payment = p
    BY <1>2 DEF Occurs
  <2>2. <<i, t>> \in Places(p)
    BY <2>1 DEF Places
  <2> QED
    BY <2>2
<1> HIDE DEF h
<1>3. \E i \in DOMAIN h : Occurs(p, h[i])
  <2>1. CASE Occurs(p, queue)
    BY <1>1, <2>1 DEF HeldIs
  <2>2. CASE Occurs(p, work)
    BY <1>1, <2>2 DEF HeldIs
  <2>3. CASE OccursIn(p, chain)
    <3>1. PICK b \in DOMAIN chain : Occurs(p, chain[b])
      BY <2>3 DEF OccursIn
    <3>2. b + 2 \in DOMAIN h /\ h[b + 2] = chain[b]
      BY <1>1 DEF HeldIs
    <3> QED
      BY <3>1, <3>2
  <2> QED
    BY <2>1, <2>2, <2>3 DEF Placed
<1> QED
  BY <1>2, <1>3

\* A payment answered with 201 (createtx) waits in _txQueue or in the block being mined
\* until it is in the chain, through blocks given up and queued again
\* (createUnminedBlock, reQueueTransactions), mining stopped and started, and updates that
\* replace blocks under the mining thread.  It is lost only with the process, when a
\* whole chain is swapped in (syncBlockchain), or with a block that addNewBlock refuses
\* because the chain is not the one it was made for.  This holds for all wallets, amounts
\* and bounds, whatever comes from peers.
THEOREM PaymentsStay == Spec => PaymentsKept
<1>1. ASSUME LedgerInv, TypeInv, HavePlaces', [Next]_vars
      PROVE  [\A p \in accepted : Waits(p) /\ Places(p)' = {} =>
                \/ pc' = "down"
                \/ temp.whole /\ temp' = NoUpdate
                \/ pc = "mining" /\ pc' # "mining" /\ chain # base]_vars
  <2> SUFFICES ASSUME NEW p \in accepted, Waits(p), Places(p)' = {}
               PROVE  \/ pc' = "down"
                      \/ temp.whole /\ temp' = NoUpdate
                      \/ pc = "mining" /\ pc' # "mining" /\ chain # base
    OBVIOUS
  <2>1. payments \in Nat /\ accepted \subseteq 1..payments
    BY <1>1 DEF TypeInv, LedgerInv, Numbered
  <2>2. p \in Nat \ {0}
    BY <2>1
  <2>3. Occurs(p, queue) \/ Occurs(p, work)
    BY DEF Waits, Pending, ToSet, Occurs
  <2>4. ~(Occurs(p, queue') \/ Occurs(p, work') \/ OccursIn(p, chain'))
    <3>1. ~(Placed(p)')
      BY <1>1 DEF HavePlaces
    <3> QED
      BY <3>1 DEF Placed
  <2> QED
    BY <1>1, <2>2, <2>3, <2>4, NextOccurs
<1> QED
  BY <1>1, TypeInvariant, PlacedMeansPlaces, PTL DEF Spec, PaymentsKept

-------------------------------------------------------------------------------
(* What is true of every payment, in the queue, the block and the chain, as   *)
(* long as the chain only grows.                                             *)

\* The outputs of a payment are worth what it spends: one to somebody else and, if
\* something is left, one back.
Balanced(c, tx) ==
  /\ 1 \in DOMAIN tx.outs /\ tx.outs[1].address # tx.from
  /\ \/ DOMAIN tx.outs = {1} /\ tx.outs[1].amount = TotalAmount(SpentBy(c, tx))
     \/ /\ DOMAIN tx.outs = {1, 2} /\ tx.outs[2].address = tx.from
        /\ tx.outs[1].amount + tx.outs[2].amount = TotalAmount(SpentBy(c, tx))

\* A payment that is in block n of c, or can be: it spends outputs of its sender, all
\* from earlier blocks.
Sound(c, tx, n) ==
  /\ tx.payment # 0 /\ tx.ins # {}
  /\ \A at \in tx.ins :
       at[1] < n /\ Exists(c, at) /\ GetBlockDetails(c, at).address = tx.from
  /\ Balanced(c, tx)

\* A block with index n of c, or that can be: a coinbase and payments.
SoundBlock(c, w, n) ==
  /\ 1 \in DOMAIN w /\ Rewards(w[1], n)
  /\ \A t \in DOMAIN w : t # 1 => ~w[t].coinbase /\ Sound(c, w[t], n)

SoundInv ==
  /\ \A i \in DOMAIN queue : Sound(chain, queue[i], Len(chain))
  /\ pc = "mining" => SoundBlock(chain, work, Len(chain))
  /\ \A b \in DOMAIN chain : SoundBlock(chain, chain[b], b - 1)

\* d is c, perhaps with more blocks.
Grows(d, c) == Len(c) <= Len(d) /\ \A b \in DOMAIN c : b \in DOMAIN d /\ d[b] = c[b]

LEMMA GrowsSound ==
  ASSUME NEW c, TypedChain(c), NEW d, Grows(d, c), Len(d) \in Nat, NEW tx \in Transaction,
         NEW n \in Nat, NEW m \in Nat, n <= m, Sound(c, tx, n)
  PROVE  Sound(d, tx, m)
<1>1. tx.ins \subseteq TxOutPoint
  BY TxFacts
<1>2. ASSUME NEW at \in tx.ins
      PROVE  at[1] < m /\ Exists(d, at) /\ GetBlockDetails(d, at) = GetBlockDetails(c, at)
  <2>1. at \in TxOutPoint /\ Exists(c, at) /\ at[1] < n /\ at[1] \in Nat
    BY <1>1 DEF Sound, TxOutPoint
  <2>2. d[at[1] + 1] = c[at[1] + 1]
    BY <2>1, MadeThere DEF Grows
  <2>3. Len(c) \in Nat /\ Len(c) <= Len(d)
    BY ChainFacts DEF Grows
  <2>4. Exists(d, at)
    BY <2>1, <2>2, <2>3 DEF Exists
  <2> QED
    BY <2>1, <2>2, <2>4 DEF GetBlockDetails
<1>3. SpentBy(d, tx) = SpentBy(c, tx)
  BY <1>2 DEF SpentBy
<1> QED
  BY <1>2, <1>3 DEF Sound, Balanced

LEMMA GrowsSoundBlock ==
  ASSUME NEW c, TypedChain(c), NEW d, Grows(d, c), Len(d) \in Nat, NEW w, TypedSeq(w),
         NEW n \in Nat, SoundBlock(c, w, n)
  PROVE  SoundBlock(d, w, n)
  BY GrowsSound DEF SoundBlock, TypedSeq

\* A new id changes nothing of that.
LEMMA RenamedSound ==
  ASSUME NEW c, NEW n, NEW tx, NEW old, Renamed(tx, old, n), Sound(c, old, n)
  PROVE  Sound(c, tx, n)
<1>1. SpentBy(c, tx) = SpentBy(c, old)
  BY DEF SpentBy, Renamed
<1> QED
  BY <1>1 DEF Sound, Balanced, Renamed

\* What CreateTransaction makes spends what GetUnspentTxOuts found.
LEMMA PaymentSound ==
  ASSUME NEW c, TypedChain(c), NEW s \in Address, NEW r \in Address, NEW a \in Int,
         NEW n \in Nat, n # 0, NEW tx \in CreateTransaction(c, s, r, a, n)
  PROVE  /\ Sound(c, tx, Len(c))
         /\ \A at \in tx.ins : \A d \in DOMAIN c : d > at[1] + 1 =>
              \A t \in DOMAIN c[d] : at \notin Inputs(c[d][t])
<1> DEFINE U == GetUnspentTxOuts(c, {s})
<1>1. PICK S \in SUBSET U : PaysWith(tx, S, s, r, a)
  BY PaymentParts
<1>2. tx.payment = n /\ tx.from = s
  BY PaymentTyped
<1>3. Amounted(U)
  BY UnspentIs
<1>4. ASSUME NEW u \in U
      PROVE  /\ u.address = s /\ Exists(c, u.at) /\ u = OutputAt(c, u.at)
             /\ u.at[1] < Len(c)
             /\ \A d \in DOMAIN c : d > u.at[1] + 1 =>
                  \A t \in DOMAIN c[d] : u.at \notin Inputs(c[d][t])
  <2>1. PICK b \in DOMAIN c : \E t \in DOMAIN c[b] :
          /\ IsOutput(c, u, b, t)
          /\ \A d \in DOMAIN c : d > b =>
               \A i \in DOMAIN c[d] : u.at \notin Inputs(c[d][i])
    BY UnspentIs
  <2>2. u.address \in {s}
    BY UnspentIs
  <2>3. u.at[1] + 1 = b /\ Exists(c, u.at) /\ u = OutputAt(c, u.at)
    BY <2>1 DEF IsOutput
  <2>4. u.at[1] < Len(c)
    BY <2>3 DEF Exists
  <2> QED
    BY <2>1, <2>2, <2>3, <2>4
<1> HIDE DEF U
<1>5. tx.ins = {u.at : u \in S}
  BY <1>1 DEF PaysWith
<1>6. SpentBy(c, tx) = S
  <2>1. SpentBy(c, tx) = {OutputAt(c, p) : p \in tx.ins}
    BY DEF SpentBy, OutputAt
  <2>2. {OutputAt(c, p) : p \in tx.ins} = {OutputAt(c, u.at) : u \in S}
    BY <1>5
  <2>3. \A u \in S : OutputAt(c, u.at) = u
    BY <1>4
  <2>4. {OutputAt(c, u.at) : u \in S} = S
    BY <2>3
  <2> QED
    BY <2>1, <2>2, <2>4
<1>7. TotalAmount(S) \in Int
  BY <1>1, <1>3, AmountedSubset, TotalFacts
<1>8. Balanced(c, tx)
  <2>1. 1 \in DOMAIN tx.outs /\ tx.outs[1].address # tx.from /\ tx.outs[1].amount = a
    BY <1>1, <1>2 DEF PaysWith
  <2>2. CASE DOMAIN tx.outs = {1} /\ TotalAmount(S) = a
    BY <1>6, <2>1, <2>2 DEF Balanced
  <2>3. CASE /\ DOMAIN tx.outs = {1, 2} /\ TotalAmount(S) > a
             /\ tx.outs[2] = [address |-> s, amount |-> TotalAmount(S) - a]
    <3>1. tx.outs[2].address = tx.from /\ tx.outs[2].amount = TotalAmount(S) - a
      BY <1>2, <2>3
    <3>2. tx.outs[1].amount + tx.outs[2].amount = TotalAmount(S)
      BY <1>7, <2>1, <3>1
    <3> QED
      BY <1>6, <2>1, <2>3, <3>1, <3>2 DEF Balanced
  <2> QED
    BY <1>1, <2>2, <2>3 DEF PaysWith
<1>9. tx.ins # {}
  BY <1>1, <1>5 DEF PaysWith
<1>10. \A at \in tx.ins : \E u \in U : at = u.at
  BY <1>5
<1>11. ASSUME NEW at \in tx.ins
       PROVE  at[1] < Len(c) /\ Exists(c, at) /\ GetBlockDetails(c, at).address = tx.from
  <2>1. PICK u \in U : at = u.at
    BY <1>10
  <2>2. u.address = s /\ u = OutputAt(c, at) /\ Exists(c, at) /\ at[1] < Len(c)
    BY <1>4, <2>1
  <2>3. u.address = GetBlockDetails(c, at).address
    BY <2>2 DEF OutputAt
  <2> QED
    BY <1>2, <2>2, <2>3
<1>12. Sound(c, tx, Len(c))
  BY <1>2, <1>8, <1>9, <1>11 DEF Sound
<1> QED
  BY <1>4, <1>10, <1>12

-------------------------------------------------------------------------------
(* It stays so.                                                              *)

LEMMA InitSound == Init => SoundInv
<1> SUFFICES ASSUME Init PROVE SoundInv
  OBVIOUS
<1> DEFINE cb == CreateCoinbaseTransaction(0, Miner)
           b == <<cb>>
<1>1. chain = <<b>>
  BY DEF Init
<1>2. Rewards(cb, 0)
  BY CoinbaseTyped, AddressAssumption
<1> HIDE DEF cb
<1>3. DOMAIN b = {1} /\ b[1] = cb
  BY ShortSeqs
<1> HIDE DEF b
<1>4. DOMAIN chain = {1} /\ chain[1] = b /\ 1 - 1 = 0
  BY <1>1, ShortSeqs
<1>5. \A k \in DOMAIN chain : SoundBlock(chain, chain[k], k - 1)
  BY <1>2, <1>3, <1>4 DEF SoundBlock
<1>6. DOMAIN queue = {} /\ pc = "off"
  BY ShortSeqs DEF Init
<1> QED
  BY <1>5, <1>6 DEF SoundInv

LEMMA CreateTxSound ==
  ASSUME LedgerInv, TypeInv, SoundInv, NEW s \in Address, NEW r \in Address,
         NEW a \in Amounts, CreateTx(s, r, a)
  PROVE  SoundInv'
<1>1. PICK tx \in CreateTransaction(chain, s, r, a, payments + 1) : queue' = Append(queue, tx)
  BY DEF CreateTx
<1>2. chain' = chain /\ work' = work /\ pc' = pc
  BY DEF CreateTx
<1>3. TypedChain(chain) /\ payments \in Nat /\ IsSeq(queue)
  BY TypedIs DEF LedgerInv, AllSequences, Numbered, TypeInv
<1>4. a \in Int /\ payments + 1 \in Nat /\ payments + 1 # 0
  BY <1>3, AmountAssumption
<1>5. Sound(chain, tx, Len(chain))
  BY <1>3, <1>4, PaymentSound
<1>6. AppendOf(queue', queue, tx)
  BY <1>1, <1>3, AppendIs
<1>7. Len(queue) \in Nat /\ DOMAIN queue = 1..Len(queue)
  BY <1>3, SeqFacts
<1>8. \A i \in DOMAIN queue' : queue'[i] = tx \/ \E j \in DOMAIN queue : queue'[i] = queue[j]
  BY <1>6, <1>7 DEF AppendOf
<1> QED
  BY <1>2, <1>5, <1>8 DEF SoundInv

LEMMA TemplateSound ==
  ASSUME LedgerInv, TypeInv, SoundInv, Template
  PROVE  SoundInv'
<1>1. chain' = chain /\ queue' = <<>>
  BY DEF Template, createUnminedBlock
<1>2. BlockOf(work', queue, Len(chain))
  BY TemplateTyped
<1>3. ASSUME NEW t \in DOMAIN work', t # 1
      PROVE  ~work'[t].coinbase /\ Sound(chain, work'[t], Len(chain))
  <2> DEFINE w == work'[t]
             old == queue[t - 1]
  <2>1. t - 1 \in DOMAIN queue /\ Renamed(w, old, Len(chain))
    BY <1>2, <1>3 DEF BlockOf
  <2>2. Sound(chain, old, Len(chain)) /\ ~old.coinbase
    BY <2>1 DEF SoundInv, TypeInv
  <2> HIDE DEF w, old
  <2>3. ~w.coinbase /\ Sound(chain, w, Len(chain))
    BY <2>1, <2>2, RenamedSound DEF Renamed
  <2> QED
    BY <2>3 DEF w
<1>4. SoundBlock(chain, work', Len(chain))
  BY <1>2, <1>3 DEF SoundBlock, BlockOf
<1>5. DOMAIN queue' = {}
  BY <1>1
<1> QED
  BY <1>1, <1>4, <1>5 DEF SoundInv

LEMMA FoundSound ==
  ASSUME LedgerInv, TypeInv, SoundInv, Found
  PROVE  SoundInv'
<1>1. /\ pc = "mining" /\ chain' = Append(chain, work) /\ pc' = "sync" /\ queue' = queue
  BY DEF Found
<1>2. TypedChain(chain) /\ IsSeq(chain)
  BY TypedIs DEF LedgerInv, AllSequences, IsSeqOfSeqs, TypeInv
<1>3. AppendOf(chain', chain, work)
  BY <1>1, <1>2, AppendIs
<1>4. Len(chain) \in Nat /\ DOMAIN chain = 1..Len(chain)
  BY <1>2, SeqFacts
<1>5. IsSeq(chain') /\ DOMAIN chain' = 1..(Len(chain) + 1)
  BY <1>3 DEF AppendOf
<1>6. Len(chain') = Len(chain) + 1
  <2>1. Len(chain') \in Nat /\ DOMAIN chain' = 1..Len(chain')
    BY <1>5, SeqFacts
  <2> QED
    BY <1>4, <1>5, <2>1
<1>7. Grows(chain', chain) /\ Len(chain') \in Nat /\ Len(chain) <= Len(chain')
  BY <1>3, <1>4, <1>5, <1>6 DEF Grows, AppendOf
<1>8. \A b \in DOMAIN chain' :
        \/ b \in DOMAIN chain /\ chain'[b] = chain[b]
        \/ b - 1 = Len(chain) /\ chain'[b] = work
  BY <1>3, <1>4, <1>5 DEF AppendOf
<1>9. ASSUME NEW b \in DOMAIN chain' PROVE SoundBlock(chain', chain'[b], b - 1)
  <2>1. CASE b \in DOMAIN chain /\ chain'[b] = chain[b]
    <3>1. SoundBlock(chain, chain[b], b - 1) /\ TypedSeq(chain[b]) /\ b - 1 \in Nat
      BY <1>4, <2>1 DEF SoundInv, TypeInv, TypedBlocks
    <3> QED
      BY <1>2, <1>7, <2>1, <3>1, GrowsSoundBlock
  <2>2. CASE b - 1 = Len(chain) /\ chain'[b] = work
    <3>1. SoundBlock(chain, work, Len(chain)) /\ TypedSeq(work)
      BY <1>1 DEF SoundInv, TypeInv
    <3>2. SoundBlock(chain', work, Len(chain))
      BY <1>2, <1>4, <1>7, <3>1, GrowsSoundBlock
    <3> QED
      BY <2>2, <3>2
  <2> QED
    BY <1>8, <2>1, <2>2
<1>10. ASSUME NEW i \in DOMAIN queue PROVE Sound(chain', queue[i], Len(chain'))
  <2>1. queue[i] \in Transaction /\ Sound(chain, queue[i], Len(chain))
    BY DEF TypeInv, TypedSeq, SoundInv
  <2> QED
    BY <1>2, <1>4, <1>7, <2>1, GrowsSound
<1> QED
  BY <1>1, <1>9, <1>10 DEF SoundInv

LEMMA AbortSound ==
  ASSUME LedgerInv, TypeInv, SoundInv, Abort
  PROVE  SoundInv'
<1>1. /\ pc = "mining" /\ queue' = reQueueTransactions(queue, work) /\ chain' = chain
      /\ pc' = "sync"
  BY DEF Abort
<1>2. IsSeq(queue) /\ IsSeq(work) /\ Once(queue) /\ Once(work) /\ Apart(queue, work)
  BY DEF LedgerInv, AllSequences, Distinct
<1>3. Gathers(queue', queue, work, Len(work))
  BY <1>1, <1>2, Requeued
<1>4. DOMAIN work = 1..Len(work)
  BY <1>2, SeqFacts
<1>5. ASSUME NEW i \in DOMAIN queue' PROVE Sound(chain, queue'[i], Len(chain))
  <2>1. CASE \E j \in DOMAIN queue : queue'[i] = queue[j]
    BY <2>1 DEF SoundInv
  <2>2. CASE \E j \in DOMAIN work : queue'[i] = work[j] /\ ~work[j].coinbase
    <3>1. PICK j \in DOMAIN work : queue'[i] = work[j] /\ ~work[j].coinbase
      BY <2>2
    <3>2. j # 1
      BY <3>1 DEF TypeInv
    <3> QED
      BY <1>1, <3>1, <3>2 DEF SoundInv, SoundBlock
  <2> QED
    BY <1>3, <1>4, <2>1, <2>2 DEF Gathers
<1> QED
  BY <1>1, <1>5 DEF SoundInv

\* d is c with the blocks of a peer on top.
GrownBy(d, c, bs) ==
  /\ Grows(d, c) /\ Len(d) \in Nat
  /\ \A b \in DOMAIN d :
       \/ b \in DOMAIN c /\ d[b] = c[b]
       \/ b = Len(c) + 1 /\ d[b] = bs[1]
       \/ b = Len(c) + 2 /\ 2 \in DOMAIN bs /\ d[b] = bs[2]

\* What an update does to a calm node.
LEMMA Received ==
  ASSUME Calm, LedgerInv, TypeInv, Receive
  PROVE  /\ pc = "off" /\ pc' = pc /\ work' = work /\ queue' = queue
         /\ \E bs : PeerMined(bs, chain) /\ GrownBy(chain', chain, bs)
<1>1. pc = "off" /\ pc' = pc /\ work' = work /\ queue' = queue
  BY DEF Receive
<1>2. PICK u \in Updates : chain' = SyncedChain(chain, u)
  BY DEF Receive
<1>3. IsSeqOfSeqs(chain) /\ IsSeq(chain) /\ payments \in Nat /\ TypedChain(chain)
  BY TypedIs DEF LedgerInv, AllSequences, IsSeqOfSeqs, Numbered, TypeInv
<1>4. Len(chain) \in Nat /\ DOMAIN chain = 1..Len(chain)
  BY <1>3, SeqFacts
<1>5. BringsOnly(u.blocks, payments + 1) /\ u.start \in Nat /\ u.start <= Len(chain)
  BY <1>3, UpdateIs
<1> DEFINE bs == u.blocks
<1>6. u.start = Len(chain) /\ bs \in PeerBlocks(chain)
  BY <1>3, UpdateCases
<1>7. SpliceOf(chain', chain, u.start, bs)
  BY <1>2, <1>3, <1>5, SpliceIs DEF BringsOnly
<1> HIDE DEF bs
<1>8. PeerMined(bs, chain)
  BY <1>3, <1>6, PeersMined
<1>9. DOMAIN bs = {1} \/ DOMAIN bs = {1, 2}
  BY <1>8 DEF PeerMined
<1>10. Len(bs) \in Nat
  BY <1>8, SeqFacts DEF PeerMined, IsSeqOfSeqs
<1>11. Grows(chain', chain) /\ Len(chain') \in Nat
  BY <1>4, <1>6, <1>7, <1>10 DEF SpliceOf, Grows
<1>12. ASSUME NEW b \in DOMAIN chain'
       PROVE  \/ b \in DOMAIN chain /\ chain'[b] = chain[b]
              \/ b = Len(chain) + 1 /\ chain'[b] = bs[1]
              \/ b = Len(chain) + 2 /\ 2 \in DOMAIN bs /\ chain'[b] = bs[2]
  <2>1. CASE b \in DOMAIN chain /\ chain'[b] = chain[b]
    BY <2>1
  <2>2. CASE b - Len(chain) \in DOMAIN bs /\ chain'[b] = bs[b - Len(chain)]
    <3>1. b \in Nat
      BY <1>7, <1>11, SeqFacts DEF SpliceOf, IsSeqOfSeqs
    <3> DEFINE i == b - Len(chain)
    <3>2. i = 1 \/ (i = 2 /\ 2 \in DOMAIN bs)
      BY <1>9, <2>2
    <3>3. b = Len(chain) + i /\ chain'[b] = bs[i]
      BY <1>4, <2>2, <3>1
    <3> HIDE DEF i
    <3> QED
      BY <3>2, <3>3
  <2> QED
    BY <1>6, <1>7, <2>1, <2>2 DEF SpliceOf
<1>13. GrownBy(chain', chain, bs)
  BY <1>11, <1>12 DEF GrownBy
<1> QED
  BY <1>1, <1>8, <1>13

\* The blocks of a peer are sound in the chain they are on.
LEMMA PeerSound ==
  ASSUME NEW c, TypedChain(c), NEW bs, PeerMined(bs, c), payments \in Nat
  PROVE  SoundBlock(c, bs[1], Len(c)) /\ (2 \in DOMAIN bs => SoundBlock(c, bs[2], Len(c) + 1))
<1>1. ASSUME NEW t \in DOMAIN bs[1], t # 1
      PROVE  ~bs[1][t].coinbase /\ Sound(c, bs[1][t], Len(c))
  <2> DEFINE w == bs[1][2]
  <2>1. t = 2 /\ \E r \in Address, a \in Amounts :
                   \E tx \in CreateTransaction(c, PeerMiner, r, a, payments + 1) :
                     Renamed(w, tx, Len(c))
    BY <1>1 DEF PeerMined
  <2>2. PICK r \in Address, a \in Amounts :
          \E tx \in CreateTransaction(c, PeerMiner, r, a, payments + 1) :
            Renamed(w, tx, Len(c))
    BY <2>1
  <2>3. PICK tx \in CreateTransaction(c, PeerMiner, r, a, payments + 1) :
          Renamed(w, tx, Len(c))
    BY <2>2
  <2> HIDE DEF w
  <2>4. /\ a \in Int /\ payments + 1 \in Nat /\ payments + 1 # 0 /\ PeerMiner \in Address
    BY AmountAssumption, AddressAssumption
  <2>5. Sound(c, tx, Len(c)) /\ ~tx.coinbase
    BY <2>3, <2>4, PaymentSound, PaymentTyped
  <2>6. ~w.coinbase /\ Sound(c, w, Len(c))
    BY <2>3, <2>5, RenamedSound DEF Renamed
  <2> QED
    BY <2>1, <2>6 DEF w
<1>2. SoundBlock(c, bs[1], Len(c))
  BY <1>1 DEF PeerMined, SoundBlock
<1>3. 2 \in DOMAIN bs => SoundBlock(c, bs[2], Len(c) + 1)
  BY DEF PeerMined, SoundBlock
<1> QED
  BY <1>2, <1>3

LEMMA ReceiveSound ==
  ASSUME Calm, LedgerInv, TypeInv, SoundInv, Receive
  PROVE  SoundInv'
<1>1. pc = "off" /\ pc' = pc /\ queue' = queue
  BY Received
<1>2. PICK bs : PeerMined(bs, chain) /\ GrownBy(chain', chain, bs)
  BY Received
<1>3. TypedChain(chain) /\ payments \in Nat
  BY TypedIs DEF LedgerInv, AllSequences, Numbered, TypeInv
<1>4. Len(chain) \in Nat /\ DOMAIN chain = 1..Len(chain)
  BY <1>3, ChainFacts
<1>5. Grows(chain', chain) /\ Len(chain') \in Nat /\ Len(chain) <= Len(chain')
  BY <1>2 DEF GrownBy, Grows
<1>6. SoundBlock(chain, bs[1], Len(chain))
      /\ (2 \in DOMAIN bs => SoundBlock(chain, bs[2], Len(chain) + 1))
  BY <1>2, <1>3, PeerSound
<1>7. TypeInv'
  BY ReceiveTyped
<1>8. ASSUME NEW b \in DOMAIN chain' PROVE SoundBlock(chain', chain'[b], b - 1)
  <2>1. TypedSeq(chain'[b])
    BY <1>7 DEF TypeInv, TypedBlocks
  <2>2. b - 1 \in Nat /\ SoundBlock(chain, chain'[b], b - 1)
    <3>1. CASE b \in DOMAIN chain /\ chain'[b] = chain[b]
      BY <1>4, <3>1 DEF SoundInv
    <3>2. CASE b = Len(chain) + 1 /\ chain'[b] = bs[1]
      <4>1. b - 1 = Len(chain)
        BY <1>4, <3>2
      <4> QED
        BY <1>4, <1>6, <3>2, <4>1
    <3>3. CASE b = Len(chain) + 2 /\ 2 \in DOMAIN bs /\ chain'[b] = bs[2]
      <4>1. b - 1 = Len(chain) + 1 /\ b - 1 \in Nat
        BY <1>4, <3>3
      <4> QED
        BY <1>6, <3>3, <4>1
    <3> QED
      BY <1>2, <3>1, <3>2, <3>3 DEF GrownBy
  <2> QED
    BY <1>3, <1>5, <2>1, <2>2, GrowsSoundBlock
<1>9. ASSUME NEW i \in DOMAIN queue PROVE Sound(chain', queue[i], Len(chain'))
  <2>1. queue[i] \in Transaction /\ Sound(chain, queue[i], Len(chain))
    BY DEF TypeInv, TypedSeq, SoundInv
  <2> QED
    BY <1>3, <1>4, <1>5, <2>1, GrowsSound
<1> QED
  BY <1>1, <1>8, <1>9 DEF SoundInv

LEMMA NextSound ==
  ASSUME Calm, LedgerInv, TypeInv, SoundInv, [Next]_vars
  PROVE  SoundInv'
<1>1. ASSUME chain' = chain, queue' = queue,
             pc' # "mining" \/ (pc' = pc /\ work' = work)
      PROVE  SoundInv'
  BY <1>1 DEF SoundInv
<1>2. CASE UNCHANGED vars
  BY <1>1, <1>2 DEF vars
<1>3. CASE \E s \in Address \ {PeerMiner}, r \in Address, a \in Amounts : CreateTx(s, r, a)
  BY <1>3, CreateTxSound
<1>4. CASE StartMining
  BY <1>1, <1>4 DEF StartMining
<1>5. CASE StopMining
  BY <1>1, <1>5 DEF StopMining
<1>6. CASE MineLoop
  BY <1>1, <1>6 DEF MineLoop
<1>7. CASE Refuse
  BY <1>1, <1>7 DEF Refuse
<1>8. CASE Sync
  BY <1>1, <1>8 DEF Sync, syncBlockchain, LedgerInv, Shape
<1>9. CASE NoticeDone
  BY <1>9 DEF NoticeDone
<1>10. CASE WsSync
  BY <1>10 DEF WsSync, LedgerInv, Shape
<1>11. CASE End
  <2>1. chain' = chain /\ queue' = <<>> /\ pc' # "mining"
    BY <1>11 DEF End
  <2>2. DOMAIN queue' = {}
    BY <2>1
  <2> QED
    BY <2>1, <2>2 DEF SoundInv
<1>12. CASE Launch
  BY <1>1, <1>12 DEF Launch
<1> QED
  BY <1>2, <1>3, <1>4, <1>5, <1>6, <1>7, <1>8, <1>9, <1>10, <1>11, <1>12, AbortSound,
     TemplateSound, FoundSound, ReceiveSound
  DEF Next

LEMMA SoundInvariant ==
  ASSUME Calm
  PROVE  Spec => [](LedgerInv /\ TypeInv /\ SoundInv)
<1>1. LedgerInv /\ TypeInv /\ SoundInv /\ [Next]_vars => SoundInv'
  BY NextSound
<1> QED
  BY <1>1, TypeInvariant, InitSound, PTL DEF Spec

LEMMA SoundMeansOwnCoins == LedgerInv /\ TypeInv /\ SoundInv => SpendsOwnCoins
<1> SUFFICES ASSUME LedgerInv, TypeInv, SoundInv, NEW tx \in Mined, NEW at \in Inputs(tx)
             PROVE  Exists(chain, at) /\ GetBlockDetails(chain, at).address = tx.from
  BY DEF SpendsOwnCoins
<1>1. IsSeqOfSeqs(chain)
  BY DEF LedgerInv, AllSequences
<1>2. PICK k \in DOMAIN TxItems(chain) : tx = TxItems(chain)[k].tx
  BY DEF Mined, ToSet
<1>3. PICK b \in DOMAIN chain : \E t \in DOMAIN chain[b] : TxItems(chain)[k] = Item(chain, b, t)
  BY <1>1, ItemPlaces
<1>4. PICK t \in DOMAIN chain[b] : TxItems(chain)[k] = Item(chain, b, t)
  BY <1>3
<1>5. tx = chain[b][t]
  BY <1>2, <1>4 DEF Item
<1>6. ~tx.coinbase /\ at \in tx.ins
  BY DEF Inputs
<1>7. SoundBlock(chain, chain[b], b - 1)
  BY DEF SoundInv
<1>8. Sound(chain, tx, b - 1)
  BY <1>5, <1>6, <1>7 DEF SoundBlock, Rewards
<1> QED
  BY <1>6, <1>8 DEF Sound

\* Every payment in the chain spends outputs that GetBlockDetails finds there and that
\* belong to the wallet it was made with, on a node that hears of its peers' blocks only
\* while it does not mine, and only of blocks on top of its own chain: through blocks
\* given up and queued again, restarts, and with impatient users, whose payments spend
\* twice what is theirs.
THEOREM OwnCoinsSpent ==
  ASSUME Calm
  PROVE  Spec => []SpendsOwnCoins
<1> QED
  BY SoundInvariant, SoundMeansOwnCoins, PTL

-------------------------------------------------------------------------------
(* No output is spent twice, as long as users wait for their payments.       *)

\* No two transactions of the chain spend the same output.
SpentOnce(c) ==
  \A b, d \in DOMAIN c : \A t \in DOMAIN c[b], s \in DOMAIN c[d] :
    \A at \in Inputs(c[b][t]) : at \in Inputs(c[d][s]) => b = d /\ t = s

\* None spends what tx spends.
UnspentIn(c, tx) ==
  \A b \in DOMAIN c : \A t \in DOMAIN c[b] : \A at \in tx.ins : at \notin Inputs(c[b][t])

\* The payments that are not in the chain.
Waiting == {queue[i] : i \in DOMAIN queue} \cup {work[t] : t \in DOMAIN work \ {1}}

OnceInv ==
  /\ SpentOnce(chain)
  /\ \A tx \in Waiting : tx.from # PeerMiner /\ UnspentIn(chain, tx)
  /\ \A tx, ty \in Waiting : tx.from = ty.from => tx.payment = ty.payment

LEMMA WaitingSound ==
  ASSUME LedgerInv, TypeInv, SoundInv, NEW tx \in Waiting
  PROVE  Sound(chain, tx, Len(chain)) /\ tx \in Transaction
<1>1. CASE \E i \in DOMAIN queue : tx = queue[i]
  BY <1>1 DEF SoundInv, TypeInv, TypedSeq
<1>2. CASE \E t \in DOMAIN work \ {1} : tx = work[t]
  <2>1. PICK t \in DOMAIN work \ {1} : tx = work[t]
    BY <1>2
  <2>2. pc = "mining"
    <3>1. ASSUME work = <<>> PROVE FALSE
      BY <2>1, <3>1
    <3> QED
      BY <3>1 DEF LedgerInv, Shape
  <2>3. Sound(chain, work[t], Len(chain))
    BY <2>1, <2>2 DEF SoundInv, SoundBlock
  <2> QED
    BY <2>1, <2>3 DEF TypeInv, TypedSeq
<1> QED
  BY <1>1, <1>2 DEF Waiting

\* Two wallets spend different outputs.
LEMMA OthersCoins ==
  ASSUME NEW c, NEW tx, NEW ty, NEW n, NEW m, Sound(c, tx, n), Sound(c, ty, m),
         tx.from # ty.from
  PROVE  \A at \in tx.ins : at \notin ty.ins
  BY DEF Sound

\* What a new payment spends, no transaction of the chain spends.
LEMMA PaymentUnspent ==
  ASSUME NEW c, TypedChain(c), \A b \in DOMAIN c : SoundBlock(c, c[b], b - 1),
         NEW s \in Address, NEW r \in Address, NEW a \in Int,
         NEW n \in Nat, n # 0, NEW tx \in CreateTransaction(c, s, r, a, n)
  PROVE  UnspentIn(c, tx)
<1> SUFFICES ASSUME NEW b \in DOMAIN c, NEW t \in DOMAIN c[b], NEW at \in tx.ins,
                    at \in Inputs(c[b][t])
             PROVE  FALSE
  BY DEF UnspentIn
<1>1. tx \in Transaction
  BY PaymentTyped
<1>2. at \in TxOutPoint
  BY <1>1, TxFacts
<1>3. at[1] \in Nat
  BY <1>2 DEF TxOutPoint
<1>4. ~(b > at[1] + 1)
  BY PaymentSound
<1>5. ~c[b][t].coinbase /\ at \in c[b][t].ins
  BY DEF Inputs
<1>6. Sound(c, c[b][t], b - 1)
  BY <1>5 DEF SoundBlock, Rewards
<1>7. at[1] < b - 1
  BY <1>5, <1>6 DEF Sound
<1>8. b \in Nat
  BY ChainFacts
<1> QED
  BY <1>3, <1>4, <1>7, <1>8

LEMMA InitOnce == Init => OnceInv
<1> SUFFICES ASSUME Init PROVE OnceInv
  OBVIOUS
<1> DEFINE cb == CreateCoinbaseTransaction(0, Miner)
           b == <<cb>>
<1>1. chain = <<b>>
  BY DEF Init
<1>2. Rewards(cb, 0)
  BY CoinbaseTyped, AddressAssumption
<1> HIDE DEF cb
<1>3. DOMAIN b = {1} /\ b[1] = cb
  BY ShortSeqs
<1> HIDE DEF b
<1>4. DOMAIN chain = {1} /\ chain[1] = b
  BY <1>1, ShortSeqs
<1>5. SpentOnce(chain)
  BY <1>3, <1>4 DEF SpentOnce
<1>6. DOMAIN queue = {} /\ DOMAIN work = {}
  BY ShortSeqs DEF Init
<1>7. Waiting = {}
  BY <1>6 DEF Waiting
<1> QED
  BY <1>5, <1>7 DEF OnceInv

\* The chain stays, and nothing new waits.
LEMMA NothingNew ==
  ASSUME OnceInv, chain' = chain,
         \A tx \in Waiting' : \E old \in Waiting :
           tx.ins = old.ins /\ tx.from = old.from /\ tx.payment = old.payment
  PROVE  OnceInv'
<1>1. SpentOnce(chain')
  BY DEF OnceInv
<1>2. ASSUME NEW tx \in Waiting' PROVE tx.from # PeerMiner /\ UnspentIn(chain', tx)
  BY DEF OnceInv, UnspentIn
<1>3. ASSUME NEW tx \in Waiting', NEW ty \in Waiting', tx.from = ty.from
      PROVE  tx.payment = ty.payment
  <2>1. PICK x \in Waiting : tx.from = x.from /\ tx.payment = x.payment
    OBVIOUS
  <2>2. PICK y \in Waiting : ty.from = y.from /\ ty.payment = y.payment
    OBVIOUS
  <2>3. x.payment = y.payment
    BY <1>3, <2>1, <2>2, ZenonT(40) DEF OnceInv
  <2> QED
    BY <2>1, <2>2, <2>3
<1> QED
  BY <1>1, <1>2, <1>3 DEF OnceInv

LEMMA CreateTxOnce ==
  ASSUME Patient, LedgerInv, TypeInv, SoundInv, OnceInv, NEW s \in Address \ {PeerMiner},
         NEW r \in Address, NEW a \in Amounts, CreateTx(s, r, a)
  PROVE  OnceInv'
<1>1. PICK tx \in CreateTransaction(chain, s, r, a, payments + 1) : queue' = Append(queue, tx)
  BY DEF CreateTx
<1>2. chain' = chain /\ work' = work /\ \A old \in Pending : old.from # s
  BY DEF CreateTx
<1>3. TypedChain(chain) /\ payments \in Nat /\ IsSeq(queue)
  BY TypedIs DEF LedgerInv, AllSequences, Numbered, TypeInv
<1>4. a \in Int /\ payments + 1 \in Nat /\ payments + 1 # 0
  BY <1>3, AmountAssumption
<1>5. tx.from = s
  BY <1>3, <1>4, PaymentTyped
<1>6. UnspentIn(chain, tx)
  BY <1>3, <1>4, PaymentUnspent DEF SoundInv
<1>7. AppendOf(queue', queue, tx)
  BY <1>1, <1>3, AppendIs
<1>8. Len(queue) \in Nat /\ DOMAIN queue = 1..Len(queue)
  BY <1>3, SeqFacts
<1>9. \A i \in DOMAIN queue' : queue'[i] = tx \/ \E j \in DOMAIN queue : queue'[i] = queue[j]
  BY <1>7, <1>8 DEF AppendOf
<1>10. \A x \in Waiting' : x = tx \/ x \in Waiting
  BY <1>2, <1>9 DEF Waiting
<1>11. \A x \in Waiting : x.from # s
  BY <1>2 DEF Waiting, Pending, ToSet
<1>12. \A x \in Waiting' : x.from # PeerMiner /\ UnspentIn(chain, x)
  BY <1>5, <1>6, <1>10 DEF OnceInv
<1>13. \A x, y \in Waiting' : x.from = y.from => x.payment = y.payment
  BY <1>5, <1>10, <1>11 DEF OnceInv
<1> QED
  BY <1>2, <1>12, <1>13 DEF OnceInv

LEMMA TemplateOnce ==
  ASSUME LedgerInv, TypeInv, OnceInv, Template
  PROVE  OnceInv'
<1>1. chain' = chain /\ queue' = <<>>
  BY DEF Template, createUnminedBlock
<1>2. BlockOf(work', queue, Len(chain))
  BY TemplateTyped
<1>3. DOMAIN queue' = {}
  BY <1>1
<1>4. ASSUME NEW t \in DOMAIN work' \ {1}
      PROVE  \E old \in Waiting :
               /\ work'[t].ins = old.ins /\ work'[t].from = old.from
               /\ work'[t].payment = old.payment
  <2>1. t - 1 \in DOMAIN queue /\ Renamed(work'[t], queue[t - 1], Len(chain))
    BY <1>2 DEF BlockOf
  <2>2. queue[t - 1] \in Waiting
    BY <2>1 DEF Waiting
  <2> QED
    BY <2>1, <2>2 DEF Renamed
<1>5. \A tx \in Waiting' : \E t \in DOMAIN work' \ {1} : tx = work'[t]
  BY <1>3 DEF Waiting
<1> QED
  BY <1>1, <1>4, <1>5, NothingNew

LEMMA AbortOnce ==
  ASSUME LedgerInv, TypeInv, SoundInv, OnceInv, Abort
  PROVE  OnceInv'
<1>1. queue' = reQueueTransactions(queue, work) /\ chain' = chain /\ work' = <<>>
  BY DEF Abort
<1>2. IsSeq(queue) /\ IsSeq(work) /\ Once(queue) /\ Once(work) /\ Apart(queue, work)
  BY DEF LedgerInv, AllSequences, Distinct
<1>3. Gathers(queue', queue, work, Len(work))
  BY <1>1, <1>2, Requeued
<1>4. DOMAIN work = 1..Len(work)
  BY <1>2, SeqFacts
<1>5. ASSUME NEW i \in DOMAIN queue' PROVE queue'[i] \in Waiting
  BY <1>3, <1>4 DEF Gathers, TypeInv, Waiting
<1>6. DOMAIN work' = {}
  BY <1>1
<1>7. \A tx \in Waiting' : tx \in Waiting
  BY <1>5, <1>6 DEF Waiting
<1> QED
  BY <1>1, <1>7, NothingNew

\* A block more, with payments of which no two, and none and one of the chain, spend the
\* same output, and perhaps blocks with nothing but a coinbase.
LEMMA BlockMore ==
  ASSUME NEW c, NEW d, NEW w, NEW n, SpentOnce(c), n \notin DOMAIN c,
         \A b \in DOMAIN d : \/ b \in DOMAIN c /\ d[b] = c[b]
                             \/ b = n /\ d[b] = w
                             \/ \A t \in DOMAIN d[b] : d[b][t].coinbase,
         \A t \in DOMAIN w : ~w[t].coinbase => UnspentIn(c, w[t]),
         \A t, s \in DOMAIN w : \A at \in Inputs(w[t]) : at \in Inputs(w[s]) => t = s
  PROVE  /\ SpentOnce(d)
         /\ \A tx : /\ UnspentIn(c, tx)
                    /\ \A t \in DOMAIN w : \A at \in tx.ins : at \notin Inputs(w[t])
                    => UnspentIn(d, tx)
<1>1. \A t \in DOMAIN w : \A b \in DOMAIN c : \A s \in DOMAIN c[b] :
        \A at \in Inputs(w[t]) : at \notin Inputs(c[b][s])
  BY DEF UnspentIn, Inputs
<1>2. ASSUME NEW b \in DOMAIN d, NEW t \in DOMAIN d[b], NEW at \in Inputs(d[b][t])
      PROVE  (b \in DOMAIN c /\ d[b] = c[b]) \/ (b = n /\ d[b] = w)
  <2>1. ~d[b][t].coinbase
    BY DEF Inputs
  <2> QED
    BY <2>1
<1>3. SpentOnce(d)
  <2> SUFFICES ASSUME NEW b \in DOMAIN d, NEW e \in DOMAIN d, NEW t \in DOMAIN d[b],
                      NEW s \in DOMAIN d[e], NEW at \in Inputs(d[b][t]),
                      at \in Inputs(d[e][s])
               PROVE  b = e /\ t = s
    BY DEF SpentOnce
  <2>1. CASE b \in DOMAIN c /\ d[b] = c[b] /\ e \in DOMAIN c /\ d[e] = c[e]
    BY <2>1 DEF SpentOnce
  <2>2. CASE b = n /\ d[b] = w /\ e = n
    BY <2>2
  <2>3. CASE b = n /\ d[b] = w /\ e \in DOMAIN c /\ d[e] = c[e]
    BY <1>1, <2>3
  <2>4. CASE b \in DOMAIN c /\ d[b] = c[b] /\ e = n /\ d[e] = w
    BY <1>1, <2>4
  <2> QED
    BY <1>2, <2>1, <2>2, <2>3, <2>4
<1>4. ASSUME NEW tx, UnspentIn(c, tx),
             \A t \in DOMAIN w : \A at \in tx.ins : at \notin Inputs(w[t])
      PROVE  UnspentIn(d, tx)
  BY <1>2, <1>4 DEF UnspentIn
<1> QED
  BY <1>3, <1>4

LEMMA FoundOnce ==
  ASSUME LedgerInv, TypeInv, SoundInv, OnceInv, Found
  PROVE  OnceInv'
<1>1. pc = "mining" /\ chain' = Append(chain, work) /\ queue' = queue /\ work' = <<>>
  BY DEF Found
<1>2. IsSeq(chain)
  BY DEF LedgerInv, AllSequences, IsSeqOfSeqs
<1>3. AppendOf(chain', chain, work)
  BY <1>1, <1>2, AppendIs
<1>4. Len(chain) \in Nat /\ DOMAIN chain = 1..Len(chain)
  BY <1>2, SeqFacts
<1> DEFINE n == Len(chain) + 1
<1>5. n \notin DOMAIN chain
  BY <1>4
<1>6. \A b \in DOMAIN chain' : \/ b \in DOMAIN chain /\ chain'[b] = chain[b]
                               \/ b = n /\ chain'[b] = work
  BY <1>3, <1>4 DEF AppendOf
<1> HIDE DEF n
<1>7. ASSUME NEW t \in DOMAIN work, ~work[t].coinbase
      PROVE  t # 1 /\ work[t] \in Waiting /\ work[t].payment # 0
  <2>1. t # 1
    BY <1>7 DEF TypeInv
  <2>2. work[t] \in Waiting
    BY <2>1 DEF Waiting
  <2> QED
    BY <2>1, <2>2, WaitingSound DEF Sound
<1>8. \A t \in DOMAIN work : ~work[t].coinbase => UnspentIn(chain, work[t])
  BY <1>7 DEF OnceInv
<1>9. ASSUME NEW t \in DOMAIN work, NEW s \in DOMAIN work, NEW at \in Inputs(work[t]),
             at \in Inputs(work[s]), t # s
      PROVE  FALSE
  <2>1. /\ ~work[t].coinbase /\ ~work[s].coinbase
        /\ at \in work[t].ins /\ at \in work[s].ins
    BY <1>9 DEF Inputs
  <2>2. work[t] \in Waiting /\ work[s] \in Waiting /\ work[t].payment # 0
    BY <1>7, <2>1
  <2>3. work[t].payment # work[s].payment
    BY <1>9, <2>2 DEF LedgerInv, Distinct, Once
  <2>4. work[t].from # work[s].from
    BY <2>2, <2>3 DEF OnceInv
  <2> QED
    BY <2>1, <2>2, <2>4, WaitingSound, OthersCoins
<1>10. ASSUME NEW i \in DOMAIN queue
       PROVE  \A t \in DOMAIN work : \A at \in queue[i].ins : at \notin Inputs(work[t])
  <2> SUFFICES ASSUME NEW t \in DOMAIN work, NEW at \in queue[i].ins, at \in Inputs(work[t])
               PROVE  FALSE
    OBVIOUS
  <2>1. ~work[t].coinbase /\ at \in work[t].ins
    BY DEF Inputs
  <2>2. work[t] \in Waiting /\ work[t].payment # 0 /\ queue[i] \in Waiting
    BY <1>7, <2>1 DEF Waiting
  <2>3. queue[i].payment # work[t].payment
    BY <2>2 DEF LedgerInv, Distinct, Apart
  <2>4. queue[i].from # work[t].from
    BY <2>2, <2>3 DEF OnceInv
  <2> QED
    BY <2>1, <2>2, <2>4, WaitingSound, OthersCoins
<1>11. SpentOnce(chain) /\ \A i \in DOMAIN queue : UnspentIn(chain, queue[i])
  BY DEF OnceInv, Waiting
<1>12. SpentOnce(chain') /\ \A i \in DOMAIN queue : UnspentIn(chain', queue[i])
  BY <1>5, <1>6, <1>8, <1>9, <1>10, <1>11, BlockMore
<1>13. DOMAIN work' = {}
  BY <1>1
<1>14. \A tx \in Waiting' : tx \in Waiting /\ \E i \in DOMAIN queue : tx = queue[i]
  BY <1>1, <1>13 DEF Waiting
<1> QED
  BY <1>12, <1>14 DEF OnceInv

LEMMA ReceiveOnce ==
  ASSUME Calm, LedgerInv, TypeInv, SoundInv, OnceInv, Receive
  PROVE  OnceInv'
<1>1. queue' = queue /\ work' = work
  BY Received
<1>2. PICK bs : PeerMined(bs, chain) /\ GrownBy(chain', chain, bs)
  BY Received
<1>3. TypedChain(chain) /\ payments \in Nat
  BY TypedIs DEF LedgerInv, AllSequences, Numbered, TypeInv
<1>4. Len(chain) \in Nat /\ DOMAIN chain = 1..Len(chain)
  BY <1>3, ChainFacts
<1> DEFINE n == Len(chain) + 1
           w == bs[1]
<1>5. n \notin DOMAIN chain
  BY <1>4
<1>6. \A b \in DOMAIN chain' : \/ b \in DOMAIN chain /\ chain'[b] = chain[b]
                               \/ b = n /\ chain'[b] = w
                               \/ \A t \in DOMAIN chain'[b] : chain'[b][t].coinbase
  BY <1>2 DEF GrownBy, PeerMined, Rewards
<1>7. SoundBlock(chain, w, Len(chain))
  BY <1>2, <1>3, PeerSound
<1>8. ASSUME NEW t \in DOMAIN w, ~w[t].coinbase
      PROVE  t = 2 /\ w[t].from = PeerMiner /\ UnspentIn(chain, w[t])
  <2> DEFINE x == w[2]
  <2>1. t = 2 /\ \E r \in Address, a \in Amounts :
                   \E tx \in CreateTransaction(chain, PeerMiner, r, a, payments + 1) :
                     Renamed(x, tx, Len(chain))
    BY <1>2, <1>8 DEF PeerMined, Rewards
  <2>2. PICK r \in Address, a \in Amounts :
          \E tx \in CreateTransaction(chain, PeerMiner, r, a, payments + 1) :
            Renamed(x, tx, Len(chain))
    BY <2>1
  <2>3. PICK tx \in CreateTransaction(chain, PeerMiner, r, a, payments + 1) :
          Renamed(x, tx, Len(chain))
    BY <2>2
  <2> HIDE DEF x
  <2>4. /\ a \in Int /\ payments + 1 \in Nat /\ payments + 1 # 0 /\ PeerMiner \in Address
    BY <1>3, AmountAssumption, AddressAssumption
  <2>5. tx.from = PeerMiner /\ UnspentIn(chain, tx)
    BY <1>3, <2>3, <2>4, PaymentUnspent, PaymentTyped DEF SoundInv
  <2>6. x.from = PeerMiner /\ UnspentIn(chain, x)
    BY <2>3, <2>5 DEF Renamed, UnspentIn
  <2> QED
    BY <2>1, <2>6 DEF x
<1>9. \A t, s \in DOMAIN w : \A at \in Inputs(w[t]) : at \in Inputs(w[s]) => t = s
  BY <1>8 DEF Inputs
<1>10. ASSUME NEW tx \in Waiting, NEW t \in DOMAIN w, NEW at \in tx.ins, at \in Inputs(w[t])
       PROVE  FALSE
  <2>1. ~w[t].coinbase /\ at \in w[t].ins
    BY <1>10 DEF Inputs
  <2>2. w[t].from = PeerMiner /\ t # 1
    BY <1>8, <2>1
  <2>3. Sound(chain, w[t], Len(chain))
    BY <1>7, <2>2 DEF SoundBlock
  <2>4. tx.from # PeerMiner /\ Sound(chain, tx, Len(chain))
    BY WaitingSound DEF OnceInv
  <2> QED
    BY <2>1, <2>2, <2>3, <2>4, OthersCoins
<1> HIDE DEF n, w
<1>11. SpentOnce(chain) /\ \A tx \in Waiting : UnspentIn(chain, tx)
  BY DEF OnceInv
<1>12. SpentOnce(chain') /\ \A tx \in Waiting : UnspentIn(chain', tx)
  BY <1>5, <1>6, <1>8, <1>9, <1>10, <1>11, BlockMore
<1>13. Waiting' = Waiting
  BY <1>1 DEF Waiting
<1> QED
  BY <1>12, <1>13 DEF OnceInv

LEMMA NextOnce ==
  ASSUME Patient, Calm, LedgerInv, TypeInv, SoundInv, OnceInv, [Next]_vars
  PROVE  OnceInv'
<1>1. ASSUME chain' = chain, queue' = queue \/ queue' = <<>>, work' = work \/ work' = <<>>
      PROVE  OnceInv'
  <2>1. DOMAIN <<>> = {}
    OBVIOUS
  <2>2. \A tx \in Waiting' : tx \in Waiting
    BY <1>1, <2>1 DEF Waiting
  <2> QED
    BY <1>1, <2>2, NothingNew
<1>2. CASE UNCHANGED vars
  BY <1>1, <1>2 DEF vars
<1>3. CASE \E s \in Address \ {PeerMiner}, r \in Address, a \in Amounts : CreateTx(s, r, a)
  BY <1>3, CreateTxOnce
<1>4. CASE StartMining
  BY <1>1, <1>4 DEF StartMining
<1>5. CASE StopMining
  BY <1>1, <1>5 DEF StopMining
<1>6. CASE MineLoop
  BY <1>1, <1>6 DEF MineLoop
<1>7. CASE Refuse
  BY <1>1, <1>7 DEF Refuse
<1>8. CASE Sync
  BY <1>1, <1>8 DEF Sync, syncBlockchain, LedgerInv, Shape
<1>9. CASE NoticeDone
  BY <1>9 DEF NoticeDone
<1>10. CASE WsSync
  BY <1>10 DEF WsSync, LedgerInv, Shape
<1>11. CASE End
  BY <1>1, <1>11 DEF End
<1>12. CASE Launch
  BY <1>1, <1>12 DEF Launch
<1> QED
  BY <1>2, <1>3, <1>4, <1>5, <1>6, <1>7, <1>8, <1>9, <1>10, <1>11, <1>12, AbortOnce,
     TemplateOnce, FoundOnce, ReceiveOnce
  DEF Next

LEMMA OnceInvariant ==
  ASSUME Patient, Calm
  PROVE  Spec => [](LedgerInv /\ TypeInv /\ SoundInv /\ OnceInv)
<1>1. LedgerInv /\ TypeInv /\ SoundInv /\ OnceInv /\ [Next]_vars => OnceInv'
  BY NextOnce
<1> QED
  BY <1>1, SoundInvariant, InitOnce, PTL DEF Spec

-------------------------------------------------------------------------------
(* What one transaction does to the unspent outputs.                         *)

\* A chain as the invariants above leave it.
Clean(c) ==
  /\ TypedChain(c)
  /\ \A b \in DOMAIN c : SoundBlock(c, c[b], b - 1)
  /\ SpentOnce(c)

\* The outputs to the wallets A that a transaction makes, and those it spends.
Made(c, b, t, A) == {u \in OutputsOf(Item(c, b, t)) : u.address \in A}
Taken(c, tx, A) == IF ~tx.coinbase /\ tx.from \in A THEN SpentBy(c, tx) ELSE {}

\* From one round of the loop of GetUnspentTxOuts to the next.
Moves(new, old, taken, made) ==
  /\ taken \in SUBSET old /\ old \cap made = {}
  /\ new = (old \ taken) \cup made

\* The loop over the items of a chain, and the places of the items.
LoopOver(p, c, off, A) ==
  /\ Offsets(off, c) /\ LaidOut(TxItems(c), c, off, Len(c))
  /\ UnspentLoop(p, TxItems(c), A)

LEMMA LoopExists ==
  ASSUME NEW c, TypedChain(c), NEW A
  PROVE  \E p, off : LoopOver(p, c, off, A) /\ GetUnspentTxOuts(c, A) = p[Len(TxItems(c))]
<1>1. IsSeqOfSeqs(c) /\ IsSeq(TxItems(c))
  BY ItemPlaces DEF TypedChain
<1>2. PICK off : Offsets(off, c)
  BY <1>1, OffsetsExist
<1>3. PICK p : UnspentLoop(p, TxItems(c), A) /\ GetUnspentTxOuts(c, A) = p[Len(TxItems(c))]
  BY <1>1, UnspentStates
<1> QED
  BY <1>1, <1>2, <1>3, ItemsLaidOut DEF LoopOver

\* Where a transaction is among the items.
LEMMA PlaceOf ==
  ASSUME NEW c, TypedChain(c), NEW off, Offsets(off, c), LaidOut(TxItems(c), c, off, Len(c)),
         NEW b \in DOMAIN c, NEW t \in DOMAIN c[b]
  PROVE  /\ off[b-1] \in Nat /\ b \in Nat /\ t \in Nat /\ t >= 1 /\ b >= 1
         /\ off[b-1] + t \in 1..Len(TxItems(c))
         /\ TxItems(c)[off[b-1] + t] = Item(c, b, t)
         /\ off[b-1] + t <= off[b]
<1>1. /\ Len(c) \in Nat /\ DOMAIN c = 1..Len(c)
      /\ Len(c[b]) \in Nat /\ DOMAIN c[b] = 1..Len(c[b])
  BY ChainFacts
<1>2. b \in 1..Len(c) /\ t \in 1..Len(c[b]) /\ b - 1 \in 0..Len(c)
  BY <1>1
<1>3. off[b-1] \in Nat /\ off[b] = off[b-1] + Len(c[b])
  BY <1>2 DEF Offsets
<1>4. off[b-1] + t \in 1..Len(TxItems(c)) /\ TxItems(c)[off[b-1] + t] = Item(c, b, t)
  BY <1>2 DEF LaidOut
<1> QED
  BY <1>1, <1>2, <1>3, <1>4

\* Every item has a place.
LEMMA ItemAt ==
  ASSUME NEW c, TypedChain(c), NEW off, LaidOut(TxItems(c), c, off, Len(c)),
         NEW k \in 1..Len(TxItems(c))
  PROVE  \E b \in DOMAIN c : \E t \in DOMAIN c[b] :
           k = off[b-1] + t /\ TxItems(c)[k] = Item(c, b, t)
<1>1. /\ Len(c) \in Nat /\ DOMAIN c = 1..Len(c)
      /\ \A b \in DOMAIN c : DOMAIN c[b] = 1..Len(c[b])
  BY ChainFacts
<1>2. PICK b \in 1..Len(c) : \E t \in 1..Len(c[b]) : k = off[b-1] + t
  BY DEF LaidOut
<1>3. PICK t \in 1..Len(c[b]) : k = off[b-1] + t
  BY <1>2
<1>4. TxItems(c)[k] = Item(c, b, t)
  BY <1>3 DEF LaidOut
<1> QED
  BY <1>1, <1>3, <1>4

\* What a round starts with are outputs of earlier transactions.
LEMMA BeforeIs ==
  ASSUME NEW c, TypedChain(c), NEW A, NEW p, NEW off, LoopOver(p, c, off, A),
         NEW k \in 0..Len(TxItems(c)), NEW u
  PROVE  u \in p[k] <=>
           /\ u.address \in A
           /\ \E b \in DOMAIN c : \E t \in DOMAIN c[b] :
                /\ off[b-1] + t <= k /\ u \in OutputsOf(Item(c, b, t))
                /\ \A d \in DOMAIN c : \A s \in DOMAIN c[d] :
                     off[b-1] + t <= off[d-1] + s /\ off[d-1] + s <= k
                       => u.at \notin Inputs(c[d][s])
<1> DEFINE items == TxItems(c)
           N == Len(items)
<1>1. IsSeq(items) /\ N \in Nat /\ k \in 0..N
  BY ItemPlaces, SeqFacts DEF TypedChain
<1>2. u \in p[k] <=> StillUnspent(u, items, A, k)
  BY <1>1, UnspentAre DEF LoopOver
<1>3. Offsets(off, c) /\ LaidOut(items, c, off, Len(c))
  BY DEF LoopOver
<1> HIDE DEF items
<1>4. ASSUME StillUnspent(u, items, A, k)
      PROVE  \E b \in DOMAIN c : \E t \in DOMAIN c[b] :
                /\ off[b-1] + t <= k /\ u \in OutputsOf(Item(c, b, t))
                /\ \A d \in DOMAIN c : \A s \in DOMAIN c[d] :
                     off[b-1] + t <= off[d-1] + s /\ off[d-1] + s <= k
                       => u.at \notin Inputs(c[d][s])
  <2>1. PICK j \in 1..k : /\ u \in OutputsOf(items[j])
                          /\ \A i \in j..k : u.at \notin Inputs(items[i].tx)
    BY <1>4 DEF StillUnspent
  <2>2. j \in 1..N /\ j <= k
    BY <1>1
  <2>3. PICK b \in DOMAIN c : \E t \in DOMAIN c[b] :
          j = off[b-1] + t /\ items[j] = Item(c, b, t)
    BY <1>3, <2>2, ItemAt DEF items
  <2>4. PICK t \in DOMAIN c[b] : j = off[b-1] + t /\ items[j] = Item(c, b, t)
    BY <2>3
  <2>5. ASSUME NEW d \in DOMAIN c, NEW s \in DOMAIN c[d], j <= off[d-1] + s, off[d-1] + s <= k
        PROVE  u.at \notin Inputs(c[d][s])
    <3> DEFINE i == off[d-1] + s
    <3>1. i \in 1..N /\ items[i] = Item(c, d, s)
      BY <1>3, PlaceOf DEF items
    <3>2. i \in j..k
      BY <2>2, <2>5, <3>1
    <3>3. items[i].tx = c[d][s]
      BY <3>1 DEF Item
    <3> QED
      BY <2>1, <3>2, <3>3
  <2> QED
    BY <2>1, <2>2, <2>4, <2>5
<1>5. ASSUME u.address \in A, NEW b \in DOMAIN c, NEW t \in DOMAIN c[b],
             off[b-1] + t <= k, u \in OutputsOf(Item(c, b, t)),
             \A d \in DOMAIN c : \A s \in DOMAIN c[d] :
               off[b-1] + t <= off[d-1] + s /\ off[d-1] + s <= k
                 => u.at \notin Inputs(c[d][s])
      PROVE  StillUnspent(u, items, A, k)
  <2> DEFINE j == off[b-1] + t
  <2>1. j \in 1..N /\ items[j] = Item(c, b, t)
    BY <1>3, PlaceOf DEF items
  <2>2. j \in 1..k
    BY <1>1, <1>5, <2>1
  <2>3. ASSUME NEW i \in j..k PROVE u.at \notin Inputs(items[i].tx)
    <3>1. i \in 1..N
      BY <1>1, <2>1
    <3>2. PICK d \in DOMAIN c : \E s \in DOMAIN c[d] :
            i = off[d-1] + s /\ items[i] = Item(c, d, s)
      BY <1>3, <3>1, ItemAt DEF items
    <3>3. PICK s \in DOMAIN c[d] : i = off[d-1] + s /\ items[i] = Item(c, d, s)
      BY <3>2
    <3>4. items[i].tx = c[d][s] /\ j <= i /\ i <= k
      BY <2>1, <3>3 DEF Item
    <3> HIDE DEF j
    <3> QED
      BY <1>5, <3>3, <3>4 DEF j
  <2> HIDE DEF j
  <2> QED
    BY <1>5, <2>1, <2>2, <2>3 DEF StillUnspent
<1> QED
  BY <1>2, <1>4, <1>5 DEF StillUnspent

\* A round takes the outputs the transaction spends, all of which are there, and adds
\* the ones it makes, none of which is.
LEMMA UnspentStep ==
  ASSUME NEW c, Clean(c), NEW A, NEW p, NEW off, LoopOver(p, c, off, A),
         NEW b \in DOMAIN c, NEW t \in DOMAIN c[b], NEW k, k = off[b-1] + t
  PROVE  Moves(p[k], p[k-1], Taken(c, c[b][t], A), Made(c, b, t, A))
<1> DEFINE tx == c[b][t]
           item == Item(c, b, t)
           old == p[k-1]
           made == Made(c, b, t, A)
           taken == Taken(c, tx, A)
<1>1. TypedChain(c) /\ SpentOnce(c) /\ SoundBlock(c, c[b], b - 1)
  BY DEF Clean
<1>2. Offsets(off, c) /\ LaidOut(TxItems(c), c, off, Len(c)) /\ UnspentLoop(p, TxItems(c), A)
  BY DEF LoopOver
<1>3. /\ off[b-1] \in Nat /\ b \in Nat /\ t \in Nat /\ t >= 1 /\ b >= 1
      /\ k \in 1..Len(TxItems(c)) /\ TxItems(c)[k] = item
  BY <1>1, <1>2, PlaceOf
<1>4. k \in Nat /\ k - 1 \in 0..Len(TxItems(c))
  BY <1>3
<1>5. p[k] = UnspentAfter(old, item, A)
  BY <1>2, <1>3 DEF UnspentLoop
<1>6. p[k] = {u \in old \cup made : u.at \notin Inputs(tx)}
  BY <1>5 DEF UnspentAfter, Made, Item
<1>7. tx \in Transaction /\ tx.ins \subseteq TxOutPoint
  <2>1. tx \in Transaction
    BY <1>1 DEF TypedChain
  <2> QED
    BY <2>1, TxFacts
<1>8. ASSUME NEW u \in made PROVE IsOutput(c, u, b, t)
  BY <1>1, OutputsAre DEF Made
<1>9. ASSUME NEW u \in old
      PROVE  /\ u.address \in A
             /\ \E d \in DOMAIN c : \E s \in DOMAIN c[d] :
                  IsOutput(c, u, d, s) /\ off[d-1] + s <= k - 1
  <2>1. /\ u.address \in A
        /\ \E d \in DOMAIN c : \E s \in DOMAIN c[d] :
             off[d-1] + s <= k - 1 /\ u \in OutputsOf(Item(c, d, s))
    BY <1>1, <1>4, BeforeIs
  <2> QED
    BY <1>1, <2>1, OutputsAre
<1> HIDE DEF item, old, made
<1>10. old \cap made = {}
  <2> SUFFICES ASSUME NEW u \in old, u \in made PROVE FALSE
    OBVIOUS
  <2>1. PICK d \in DOMAIN c : \E s \in DOMAIN c[d] :
          IsOutput(c, u, d, s) /\ off[d-1] + s <= k - 1
    BY <1>9
  <2>2. PICK s \in DOMAIN c[d] : IsOutput(c, u, d, s) /\ off[d-1] + s <= k - 1
    BY <2>1
  <2>3. d = b /\ s = t
    BY <1>8, <2>2 DEF IsOutput
  <2>4. k <= k - 1
    BY <2>2, <2>3
  <2> QED
    BY <1>4, <2>4
<1>11. ASSUME tx.coinbase PROVE Moves(p[k], old, taken, made)
  <2>1. taken = {} /\ Inputs(tx) = {}
    BY <1>11 DEF Taken, Inputs
  <2>2. p[k] = (old \ taken) \cup made
    BY <1>6, <2>1
  <2> HIDE DEF taken
  <2> QED
    BY <1>10, <2>1, <2>2 DEF Moves
<1>12. ASSUME ~tx.coinbase PROVE Moves(p[k], old, taken, made)
  <2>1. Inputs(tx) = tx.ins
    BY <1>12 DEF Inputs
  <2>2. Sound(c, tx, b - 1)
    BY <1>1, <1>12 DEF SoundBlock, Rewards
  <2>3. \A at \in tx.ins :
          at[1] < b - 1 /\ Exists(c, at) /\ GetBlockDetails(c, at).address = tx.from
    BY <2>2 DEF Sound
  <2>4. SpentBy(c, tx) = {OutputAt(c, at) : at \in tx.ins}
    BY DEF SpentBy, OutputAt
  <2>5. \A at : /\ OutputAt(c, at).at = at
                /\ OutputAt(c, at).address = GetBlockDetails(c, at).address
    BY DEF OutputAt
  <2> HIDE DEF tx
  <2>6. ASSUME NEW u \in made PROVE u.at \notin tx.ins
    <3>1. u.at[1] + 1 = b /\ u.at[1] \in Nat
      BY <1>8 DEF IsOutput, TxOutPoint
    <3>2. ~(u.at[1] < b - 1)
      BY <1>3, <3>1
    <3> QED
      BY <2>3, <3>2
  <2>7. ASSUME NEW u \in old, u.at \in tx.ins PROVE u \in SpentBy(c, tx) /\ u.address = tx.from
    <3>1. u = OutputAt(c, u.at)
      BY <1>9 DEF IsOutput
    <3> QED
      BY <2>3, <2>4, <2>5, <2>7, <3>1
  <2>8. ASSUME tx.from \in A, NEW at \in tx.ins PROVE OutputAt(c, at) \in old
    <3> DEFINE u == OutputAt(c, at)
               d == at[1] + 1
               s == at[2] + 1
    <3>1. at \in TxOutPoint /\ Exists(c, at) /\ at[1] < b - 1 /\ at[1] \in Nat
      BY <1>7, <2>3 DEF TxOutPoint
    <3>2. d \in DOMAIN c /\ s \in DOMAIN c[d] /\ u \in OutputsOf(Item(c, d, s))
      BY <1>1, <3>1, MadeThere
    <3>3. u.address \in A /\ u.at = at
      BY <2>3, <2>5, <2>8
    <3> HIDE DEF u
    <3>4. d <= b - 1 /\ d \in 0..Len(c) /\ b - 1 \in 0..Len(c)
      <4>1. d \in Nat /\ d <= b - 1 /\ b - 1 \in Nat
        BY <1>3, <3>1
      <4>2. Len(c) \in Nat /\ DOMAIN c = 1..Len(c)
        BY <1>1, ChainFacts
      <4> HIDE DEF d
      <4> QED
        BY <3>2, <4>1, <4>2
    <3> HIDE DEF d, s
    <3>5. off[d-1] + s <= off[d] /\ off[d-1] \in Nat /\ s \in Nat
      BY <1>1, <1>2, <3>2, PlaceOf
    <3>6. off[d] <= off[b-1]
      BY <1>1, <1>2, <3>4, OffsetsGrow DEF TypedChain
    <3>7. off[d-1] + s <= k - 1
      <4>1. off[d] \in Nat
        BY <1>2, <3>4 DEF Offsets
      <4> QED
        BY <1>3, <3>5, <3>6, <4>1, SMTT(30)
    <3>8. ASSUME NEW e \in DOMAIN c, NEW i \in DOMAIN c[e], off[e-1] + i <= k - 1
          PROVE  u.at \notin Inputs(c[e][i])
      <4> SUFFICES ASSUME at \in Inputs(c[e][i]) PROVE FALSE
        BY <3>3
      <4>1. at \in Inputs(c[b][t])
        BY <2>1 DEF tx
      <4>2. e = b /\ i = t
        BY <1>1, <4>1 DEF SpentOnce
      <4>3. k <= k - 1
        BY <3>8, <4>2
      <4> QED
        BY <1>4, <4>3
    <3>9. u \in p[k-1]
      <4> QED
        BY <1>1, <1>4, <3>2, <3>3, <3>7, <3>8, BeforeIs
    <3> QED
      BY <3>9 DEF old, u
  <2>9. taken = {u \in old : u.at \in tx.ins}
    <3>1. CASE tx.from \in A
      <4>1. taken = SpentBy(c, tx)
        BY <1>12, <3>1 DEF Taken
      <4>2. ASSUME NEW u \in SpentBy(c, tx) PROVE u \in old /\ u.at \in tx.ins
        BY <2>4, <2>5, <2>8, <3>1
      <4> HIDE DEF taken
      <4> QED
        BY <2>7, <4>1, <4>2
    <3>2. CASE tx.from \notin A
      <4>1. taken = {}
        BY <3>2 DEF Taken
      <4>2. ASSUME NEW u \in old PROVE u.at \notin tx.ins
        BY <1>9, <2>7, <3>2
      <4> HIDE DEF taken
      <4> QED
        BY <4>1, <4>2
    <3> QED
      BY <3>1, <3>2
  <2> HIDE DEF taken
  <2>10. p[k] = (old \ taken) \cup made
    BY <1>6, <2>1, <2>6, <2>9
  <2>11. taken \in SUBSET old
    BY <2>9
  <2> QED
    BY <1>10, <2>10, <2>11 DEF Moves
<1>13. Moves(p[k], old, taken, made)
  BY <1>11, <1>12
<1> QED
  BY <1>13 DEF old, made

\* What the outputs a transaction makes are worth to A.
Worth(tx, A, o) ==
  IF o \in DOMAIN tx.outs /\ tx.outs[o].address \in A THEN tx.outs[o].amount ELSE 0

LEMMA MadeIsWorth ==
  ASSUME NEW c, TypedChain(c), NEW b \in DOMAIN c, NEW t \in DOMAIN c[b], NEW A,
         DOMAIN c[b][t].outs = {1} \/ DOMAIN c[b][t].outs = {1, 2}
  PROVE  /\ Amounted(Made(c, b, t, A))
         /\ Worth(c[b][t], A, 1) \in Int /\ Worth(c[b][t], A, 2) \in Int
         /\ TotalAmount(Made(c, b, t, A)) = Worth(c[b][t], A, 1) + Worth(c[b][t], A, 2)
<1> DEFINE tx == c[b][t]
           out(o) == [at |-> <<b - 1, t - 1, o - 1>>, address |-> tx.outs[o].address,
                      amount |-> tx.outs[o].amount]
           part(o) == IF o \in DOMAIN tx.outs /\ tx.outs[o].address \in A THEN {out(o)} ELSE {}
           made == Made(c, b, t, A)
<1>1. OutputsOf(Item(c, b, t)) = {out(o) : o \in DOMAIN tx.outs}
  BY DEF OutputsOf, Item
<1>2. \A o : out(o).address = tx.outs[o].address /\ out(o).amount = tx.outs[o].amount
  OBVIOUS
<1>3. tx \in Transaction
  BY DEF TypedChain
<1>4. out(1) # out(2)
  <2>1. out(1).at[3] = 0 /\ out(2).at[3] = 1
    OBVIOUS
  <2> HIDE DEF out
  <2> QED
    BY <2>1
<1> HIDE DEF tx, out
<1>5. made = part(1) \cup part(2)
  <2>1. made = {u \in {out(o) : o \in DOMAIN tx.outs} : u.address \in A}
    BY <1>1 DEF Made
  <2>2. DOMAIN tx.outs = {1} \/ DOMAIN tx.outs = {1, 2}
    BY DEF tx
  <2> HIDE DEF made
  <2> QED
    BY <1>2, <2>1, <2>2
<1>6. ASSUME NEW o \in {1, 2}
      PROVE  /\ Amounted(part(o)) /\ TotalAmount(part(o)) = Worth(tx, A, o)
             /\ Worth(tx, A, o) \in Int
  <2>1. CASE o \in DOMAIN tx.outs /\ tx.outs[o].address \in A
    <3>1. tx.outs[o].amount \in Int
      BY <1>3, <2>1, TxFacts DEF TxOut
    <3>2. Amounted({out(o)}) /\ TotalAmount({out(o)}) = tx.outs[o].amount
      BY <1>2, <3>1, TotalOne
    <3> QED
      BY <2>1, <3>1, <3>2 DEF Worth
  <2>2. CASE ~(o \in DOMAIN tx.outs /\ tx.outs[o].address \in A)
    <3>1. part(o) = {} /\ Worth(tx, A, o) = 0
      BY <2>2 DEF Worth
    <3>2. Amounted({})
      BY FS_EmptySet DEF Amounted
    <3> HIDE DEF part
    <3> QED
      BY <3>1, <3>2, TotalFacts
  <2> QED
    BY <2>1, <2>2
<1>7. part(1) \cap part(2) = {}
  BY <1>4
<1> DEFINE x == part(1)
           y == part(2)
<1>8. /\ Amounted(x) /\ Amounted(y) /\ x \cap y = {} /\ made = x \cup y
      /\ TotalAmount(x) = Worth(tx, A, 1) /\ TotalAmount(y) = Worth(tx, A, 2)
      /\ Worth(tx, A, 1) \in Int /\ Worth(tx, A, 2) \in Int
  BY <1>5, <1>6, <1>7
<1> HIDE DEF x, y, made
<1>9. Amounted(made) /\ TotalAmount(made) = Worth(tx, A, 1) + Worth(tx, A, 2)
  BY <1>8, TotalUnion
<1> QED
  BY <1>8, <1>9 DEF made, tx

\* What a round adds up to.
LEMMA MovesAddUp ==
  ASSUME NEW new, NEW old, NEW taken, NEW made, Moves(new, old, taken, made),
         Amounted(old), Amounted(made)
  PROVE  /\ Amounted(new) /\ TotalAmount(new) \in Int /\ TotalAmount(old) \in Int
         /\ TotalAmount(taken) \in Int /\ TotalAmount(made) \in Int
         /\ TotalAmount(new) = (TotalAmount(old) - TotalAmount(taken)) + TotalAmount(made)
<1> DEFINE left == old \ taken
<1>1. /\ Amounted(left) /\ TotalAmount(left) \in Int /\ TotalAmount(taken) \in Int
      /\ TotalAmount(old) = TotalAmount(left) + TotalAmount(taken)
  BY TotalLeft DEF Moves
<1>2. left \cap made = {} /\ new = left \cup made
  BY DEF Moves
<1> HIDE DEF left
<1>3. Amounted(new) /\ TotalAmount(new) = TotalAmount(left) + TotalAmount(made)
  BY <1>1, <1>2, TotalUnion
<1>4. TotalAmount(made) \in Int /\ TotalAmount(new) \in Int /\ TotalAmount(old) \in Int
  BY <1>3, TotalFacts
<1> QED
  BY <1>1, <1>3, <1>4

-------------------------------------------------------------------------------
(* Coins are conserved.                                                      *)

\* A coinbase has one output, a payment one or two.
LEMMA OneOrTwo ==
  ASSUME NEW c, Clean(c), NEW b \in DOMAIN c, NEW t \in DOMAIN c[b]
  PROVE  DOMAIN c[b][t].outs = {1} \/ DOMAIN c[b][t].outs = {1, 2}
<1>1. SoundBlock(c, c[b], b - 1)
  BY DEF Clean
<1> QED
  BY <1>1 DEF SoundBlock, Rewards, Sound, Balanced

LEMMA StepAddsUp ==
  ASSUME NEW c, Clean(c), NEW A, NEW p, NEW off, LoopOver(p, c, off, A),
         NEW b \in DOMAIN c, NEW t \in DOMAIN c[b], NEW k, k = off[b-1] + t
  PROVE  LET tx == c[b][t]
             taken == TotalAmount(Taken(c, tx, A))
         IN  /\ k \in Nat /\ taken \in Int
             /\ TotalAmount(p[k-1]) \in Int /\ TotalAmount(p[k]) \in Int
             /\ Worth(tx, A, 1) \in Int /\ Worth(tx, A, 2) \in Int
             /\ TotalAmount(p[k]) =
                  (TotalAmount(p[k-1]) - taken) + (Worth(tx, A, 1) + Worth(tx, A, 2))
<1> DEFINE tx == c[b][t]
           T == Taken(c, tx, A)
           M == Made(c, b, t, A)
<1>1. TypedChain(c)
  BY DEF Clean
<1>2. /\ Amounted(M) /\ Worth(tx, A, 1) \in Int /\ Worth(tx, A, 2) \in Int
      /\ TotalAmount(M) = Worth(tx, A, 1) + Worth(tx, A, 2)
  BY <1>1, OneOrTwo, MadeIsWorth
<1>3. Moves(p[k], p[k-1], T, M)
  BY UnspentStep
<1>4. k \in 1..Len(TxItems(c))
  BY <1>1, PlaceOf DEF LoopOver
<1>5. k \in Nat /\ k - 1 \in 0..Len(TxItems(c))
  <2>1. Len(TxItems(c)) \in Nat
    BY <1>1, ItemPlaces, SeqFacts DEF TypedChain
  <2> QED
    BY <1>4, <2>1
<1>6. Amounted(p[k-1])
  BY <1>1, <1>5, UnspentFinite DEF LoopOver
<1> HIDE DEF T, M
<1>7. /\ TotalAmount(p[k]) \in Int /\ TotalAmount(p[k-1]) \in Int
      /\ TotalAmount(T) \in Int
      /\ TotalAmount(p[k]) = (TotalAmount(p[k-1]) - TotalAmount(T)) + TotalAmount(M)
  BY <1>2, <1>3, <1>6, MovesAddUp
<1> QED
  BY <1>2, <1>5, <1>7 DEF T

\* To all wallets together, a coinbase is worth the reward and a payment nothing.
LEMMA AllTogether ==
  ASSUME NEW c, Clean(c), NEW p, NEW off, LoopOver(p, c, off, Address),
         NEW b \in DOMAIN c, NEW t \in DOMAIN c[b], NEW k, k = off[b-1] + t
  PROVE  /\ k \in Nat /\ TotalAmount(p[k-1]) \in Int
         /\ TotalAmount(p[k]) = TotalAmount(p[k-1]) + (IF t = 1 THEN COINBASE_REWARD ELSE 0)
<1> DEFINE tx == c[b][t]
           T == TotalAmount(Taken(c, tx, Address))
           X == Worth(tx, Address, 1)
           Y == Worth(tx, Address, 2)
<1>1. /\ k \in Nat /\ T \in Int /\ X \in Int /\ Y \in Int
      /\ TotalAmount(p[k-1]) \in Int /\ TotalAmount(p[k]) \in Int
      /\ TotalAmount(p[k]) = (TotalAmount(p[k-1]) - T) + (X + Y)
  BY StepAddsUp
<1>2. SoundBlock(c, c[b], b - 1)
  BY DEF Clean
<1>3. tx \in Transaction
  BY DEF Clean, TypedChain
<1>4. tx.from \in Address /\ \A o \in DOMAIN tx.outs : tx.outs[o].address \in Address
  BY <1>3, TxFacts DEF TxOut
<1>5. COINBASE_REWARD \in Nat
  BY AmountAssumption
<1>6. CASE t = 1
  <2>1. Rewards(tx, b - 1)
    BY <1>2, <1>6 DEF SoundBlock
  <2>2. X = COINBASE_REWARD /\ Y = 0
    BY <1>4, <2>1 DEF Rewards, Worth
  <2>3. T = 0
    <3>1. Taken(c, tx, Address) = {} /\ Amounted({})
      BY <2>1, FS_EmptySet DEF Rewards, Taken, Amounted
    <3> QED
      BY <3>1, TotalFacts
  <2> HIDE DEF X, Y, T
  <2> QED
    BY <1>1, <1>5, <1>6, <2>2, <2>3
<1>7. CASE t # 1
  <2>1. ~tx.coinbase /\ Balanced(c, tx)
    BY <1>2, <1>7 DEF SoundBlock, Sound
  <2>2. T = TotalAmount(SpentBy(c, tx))
    BY <1>4, <2>1 DEF Taken
  <2>3. 1 \in DOMAIN tx.outs /\ X = tx.outs[1].amount
    BY <1>4, <2>1 DEF Balanced, Worth
  <2>4. X + Y = T
    <3>1. CASE DOMAIN tx.outs = {1} /\ tx.outs[1].amount = TotalAmount(SpentBy(c, tx))
      <4>1. Y = 0
        BY <3>1 DEF Worth
      <4> HIDE DEF X, Y, T
      <4> QED
        BY <1>1, <2>2, <2>3, <3>1, <4>1
    <3>2. CASE /\ DOMAIN tx.outs = {1, 2}
               /\ tx.outs[1].amount + tx.outs[2].amount = TotalAmount(SpentBy(c, tx))
      <4>1. Y = tx.outs[2].amount
        BY <1>4, <3>2 DEF Worth
      <4> HIDE DEF X, Y, T
      <4> QED
        BY <2>2, <2>3, <3>2, <4>1
    <3> QED
      BY <2>1, <3>1, <3>2 DEF Balanced
  <2> HIDE DEF X, Y, T
  <2> QED
    BY <1>1, <1>7, <2>4
<1> QED
  BY <1>6, <1>7

LEMMA OneRewardMore ==
  ASSUME NEW r \in Nat, NEW b \in Nat, b >= 1
  PROVE  r * (b - 1) + r = r * b
  OBVIOUS

\* One reward per block.
LEMMA CleanConserves ==
  ASSUME NEW c, Clean(c)
  PROVE  TotalAmount(GetUnspentTxOuts(c, Address)) = COINBASE_REWARD * Len(c)
<1> DEFINE N == Len(TxItems(c))
           R == COINBASE_REWARD
<1>1. TypedChain(c) /\ IsSeqOfSeqs(c)
  BY DEF Clean, TypedChain
<1>2. PICK p, off : LoopOver(p, c, off, Address) /\ GetUnspentTxOuts(c, Address) = p[N]
  BY <1>1, LoopExists
<1>3. /\ Offsets(off, c) /\ LaidOut(TxItems(c), c, off, Len(c)) /\ p[0] = {}
  BY <1>2 DEF LoopOver, UnspentLoop
<1>4. /\ Len(c) \in Nat /\ DOMAIN c = 1..Len(c) /\ N \in Nat /\ R \in Nat
      /\ \A b \in DOMAIN c : Len(c[b]) \in Nat /\ DOMAIN c[b] = 1..Len(c[b])
  BY <1>1, ChainFacts, ItemPlaces, SeqFacts, AmountAssumption
<1>5. TotalAmount(p[0]) = 0
  <2>1. Amounted({})
    BY FS_EmptySet DEF Amounted
  <2> QED
    BY <1>3, <2>1, TotalFacts
<1> HIDE DEF N, R
<1>6. ASSUME NEW b \in DOMAIN c
      PROVE  Len(c[b]) >= 1 /\ off[b] = off[b-1] + Len(c[b]) /\ off[b-1] \in Nat
  <2>1. 1 \in DOMAIN c[b]
    BY DEF Clean, SoundBlock
  <2> QED
    BY <1>3, <1>4, <2>1 DEF Offsets
<1> DEFINE Good(n) == \A b \in DOMAIN c : \A t \in DOMAIN c[b] :
                        off[b-1] + t = n => TotalAmount(p[n]) = R * b
           S == {n \in Nat : Good(n)}
<1>7. Good(0)
  <2>1. ASSUME NEW b \in DOMAIN c, NEW t \in DOMAIN c[b], off[b-1] + t = 0 PROVE FALSE
    BY <1>4, <1>6, <2>1
  <2> QED
    BY <2>1
<1>8. ASSUME NEW n \in Nat, Good(n) PROVE Good(n + 1)
  <2> SUFFICES ASSUME NEW b \in DOMAIN c, NEW t \in DOMAIN c[b], off[b-1] + t = n + 1
               PROVE  TotalAmount(p[n+1]) = R * b
    OBVIOUS
  <2>1. (n + 1) - 1 = n
    OBVIOUS
  <2>2. /\ TotalAmount(p[n]) \in Int
        /\ TotalAmount(p[n+1]) = TotalAmount(p[n]) + (IF t = 1 THEN R ELSE 0)
    BY <1>2, <2>1, AllTogether DEF R
  <2>3. b \in Nat /\ b >= 1 /\ t \in Nat /\ t >= 1 /\ off[b-1] \in Nat /\ t <= Len(c[b])
    BY <1>4, <1>6
  <2>4. CASE t = 1
    <3>1. n = off[b-1]
      BY <2>3, <2>4
    <3>2. TotalAmount(p[n]) = R * (b - 1)
      <4>1. CASE b = 1
        <5>1. b - 1 = 0 /\ off[0] = 0
          BY <1>3, <4>1 DEF Offsets
        <5>2. n = 0 /\ TotalAmount(p[n]) = 0
          BY <1>5, <3>1, <5>1
        <5>3. R * 0 = 0
          BY <1>4
        <5> QED
          BY <5>1, <5>2, <5>3
      <4>2. CASE b # 1
        <5> DEFINE a == b - 1
                   l == Len(c[a])
        <5>1. a \in DOMAIN c
          BY <1>4, <2>3, <4>2
        <5>2. l \in DOMAIN c[a] /\ off[a] = off[a-1] + l
          <6> HIDE DEF a
          <6> QED
            BY <1>4, <1>6, <5>1
        <5>3. off[a] = n
          BY <3>1
        <5> HIDE DEF a, l
        <5>4. TotalAmount(p[n]) = R * a
          BY <1>8, <5>1, <5>2, <5>3
        <5> QED
          BY <5>4 DEF a
      <4> QED
        BY <4>1, <4>2
    <3>3. TotalAmount(p[n+1]) = R * (b - 1) + R
      BY <2>2, <2>4, <3>2
    <3> QED
      BY <1>4, <2>3, <3>3, OneRewardMore
  <2>5. CASE t # 1
    <3>1. t - 1 \in DOMAIN c[b] /\ off[b-1] + (t - 1) = n
      BY <1>4, <2>3, <2>5, SMTT(30)
    <3>2. TotalAmount(p[n]) = R * b
      BY <1>8, <3>1
    <3> QED
      BY <2>2, <2>5, <3>2
  <2> QED
    BY <2>4, <2>5
<1>9. S = Nat
  <2>1. S \in SUBSET Nat /\ 0 \in S /\ \A n \in S : n + 1 \in S
    <3> HIDE DEF Good
    <3> QED
      BY <1>7, <1>8
  <2> HIDE DEF S
  <2> QED
    BY <2>1, SetInduction
<1>10. Good(N)
  <2>1. N \in S
    <3> HIDE DEF S
    <3> QED
      BY <1>4, <1>9
  <2> HIDE DEF Good
  <2> QED
    BY <2>1
<1>11. N = off[Len(c)]
  BY <1>3 DEF LaidOut, N
<1>12. TotalAmount(p[N]) = R * Len(c)
  <2>1. CASE Len(c) = 0
    <3>1. N = 0 /\ R * 0 = 0
      BY <1>3, <1>4, <1>11, <2>1 DEF Offsets
    <3> QED
      BY <1>5, <2>1, <3>1
  <2>2. CASE Len(c) # 0
    <3> DEFINE b == Len(c)
               t == Len(c[b])
    <3>1. b \in DOMAIN c /\ t \in DOMAIN c[b] /\ off[b-1] + t = N
      BY <1>4, <1>6, <1>11, <2>2
    <3> HIDE DEF b, t
    <3>2. TotalAmount(p[N]) = R * b
      BY <1>10, <3>1
    <3> QED
      BY <3>2 DEF b
  <2> QED
    BY <2>1, <2>2
<1> QED
  BY <1>2, <1>12 DEF N, R

LEMMA InvMeansClean == LedgerInv /\ TypeInv /\ SoundInv /\ OnceInv => Clean(chain)
  BY TypedIs DEF LedgerInv, AllSequences, TypeInv, SoundInv, OnceInv, Clean

\* No coin is made or lost but by mining: what GetUnspentTxOuts finds is worth one reward
\* per block, for all wallets, amounts of either sign and rewards, if users wait for their
\* payments and updates only bring blocks on top of the node's chain while it does not
\* mine; blocks may be given up, and the process may end at any time.
THEOREM CoinsStay ==
  ASSUME Patient, Calm
  PROVE  Spec => []CoinsConserved
<1>1. LedgerInv /\ TypeInv /\ SoundInv /\ OnceInv => CoinsConserved
  BY InvMeansClean, CleanConserves DEF CoinsConserved
<1> QED
  BY <1>1, OnceInvariant, PTL

-------------------------------------------------------------------------------
(* Sums of ledger entries.                                                   *)

Entry == [block : Int, tx : Int, amount : Int]

\* The sum GetAddressBalance makes of a ledger.
EntrySum(s) ==
  LET sum[k \in 0..Len(s)] == IF k = 0 THEN 0 ELSE sum[k-1] + s[k].amount
  IN  sum[Len(s)]

\* f has the sums of the first entries.
AddsUp(f, s) ==
  /\ f \in [0..Len(s) -> Int]
  /\ f[0] = 0
  /\ \A k \in 1..Len(s) : f[k] = f[k-1] + s[k].amount

LEMMA EntryFacts ==
  ASSUME NEW s \in Seq(Entry)
  PROVE  /\ IsSeq(s) /\ Len(s) \in Nat /\ DOMAIN s = 1..Len(s)
         /\ \A k \in 1..Len(s) : s[k] \in Entry /\ s[k].amount \in Int
<1>1. IsSeq(s) /\ Len(s) \in Nat /\ DOMAIN s = 1..Len(s) /\ s \in [1..Len(s) -> Entry]
  BY SeqIs, LenProperties
<1> QED
  BY <1>1 DEF Entry

LEMMA SumStates ==
  ASSUME NEW s \in Seq(Entry)
  PROVE  \E f : AddsUp(f, s) /\ EntrySum(s) = f[Len(s)]
<1> DEFINE N == Len(s)
           h == [k \in 1..N |-> [x \in Int |-> x + s[k].amount]]
           Step(f) == [k \in 0..N |-> IF k = 0 THEN 0 ELSE f[k-1] + s[k].amount]
           p == CHOOSE f : f = Step(f)
<1>1. N \in Nat /\ \A k \in 1..N : s[k].amount \in Int
  BY EntryFacts
<1>2. EntrySum(s) = p[N]
  BY DEF EntrySum
<1> HIDE DEF N
<1>3. h \in [1..N -> [Int -> Int]]
  BY <1>1
<1>4. PICK f \in [0..N -> Int] : Recurs(f, N, 0, h)
  <2> DEFINE V == Int
  <2>1. 0 \in V /\ h \in [1..N -> [V -> V]]
    BY <1>3
  <2> HIDE DEF h, V
  <2>2. \E f \in [0..N -> V] : Recurs(f, N, 0, h)
    BY <1>1, <2>1, RecursionExists
  <2> QED
    BY <2>2 DEF V
<1>5. ASSUME NEW k \in 0..N
      PROVE  f[k] = IF k = 0 THEN 0 ELSE f[k-1] + s[k].amount
  <2>1. CASE k = 0
    <3> HIDE DEF h
    <3> QED
      BY <2>1, <1>4 DEF Recurs
  <2>2. CASE k # 0
    <3>1. k \in 1..N /\ k - 1 \in 0..N
      BY <1>1, <2>2
    <3>2. f[k] = h[k][f[k-1]] /\ f[k-1] \in Int
      <4> HIDE DEF h
      <4> QED
        BY <1>4, <2>2, <3>1 DEF Recurs
    <3>3. h[k][f[k-1]] = f[k-1] + s[k].amount
      BY <3>1, <3>2
    <3> QED
      BY <2>2, <3>2, <3>3
  <2> QED
    BY <2>1, <2>2
<1>6. f = Step(f)
  <2>1. f = [k \in 0..N |-> f[k]]
    OBVIOUS
  <2> QED
    BY <2>1, <1>5
<1>7. p = Step(p)
  <2> HIDE DEF Step
  <2> QED
    BY <1>6
<1>8. \A k \in 0..N : p[k] = IF k = 0 THEN 0 ELSE p[k-1] + s[k].amount
  <2> HIDE DEF p
  <2> QED
    BY <1>7
<1>9. DOMAIN p = 0..N
  <2> HIDE DEF p
  <2> QED
    BY <1>7
<1>10. p = [k \in 0..N |-> p[k]]
  <2> HIDE DEF p
  <2> QED
    BY <1>7
<1> HIDE DEF p, Step
<1> DEFINE Good(n) == n <= N => p[n] \in Int
           S == {n \in Nat : Good(n)}
<1>11. Good(0)
  BY <1>1, <1>8
<1>12. ASSUME NEW n \in Nat, Good(n) PROVE Good(n + 1)
  <2> SUFFICES ASSUME n + 1 <= N PROVE p[n+1] \in Int
    OBVIOUS
  <2>1. n + 1 \in 1..N /\ n + 1 \in 0..N /\ (n + 1) - 1 = n /\ n <= N /\ n + 1 # 0
    BY <1>1
  <2>2. p[n+1] = p[n] + s[n+1].amount
    BY <1>8, <2>1
  <2> QED
    BY <1>1, <1>12, <2>1, <2>2
<1>13. S = Nat
  <2>1. S \in SUBSET Nat /\ 0 \in S /\ \A n \in S : n + 1 \in S
    <3> HIDE DEF Good
    <3> QED
      BY <1>11, <1>12
  <2> HIDE DEF S
  <2> QED
    BY <2>1, SetInduction
<1>14. ASSUME NEW n \in 0..N PROVE p[n] \in Int
  <2>1. n \in S /\ n <= N
    <3> HIDE DEF S
    <3> QED
      BY <1>1, <1>13
  <2> QED
    BY <2>1
<1>15. p \in [0..N -> Int]
  BY <1>10, <1>14
<1>16. ASSUME NEW k \in 1..N PROVE p[k] = p[k-1] + s[k].amount
  <2>1. k \in 0..N /\ k # 0
    BY <1>1
  <2> QED
    BY <1>8, <2>1
<1>17. p[0] = 0
  BY <1>1, <1>8
<1> QED
  BY <1>2, <1>15, <1>16, <1>17 DEF AddsUp, N

\* An entry more.
LEMMA SumTail ==
  ASSUME NEW s \in Seq(Entry), NEW r \in Seq(Entry), Len(r) = Len(s) + 1,
         \A i \in 1..Len(s) : r[i] = s[i]
  PROVE  /\ EntrySum(s) \in Int /\ EntrySum(r) \in Int
         /\ EntrySum(r) = EntrySum(s) + r[Len(s) + 1].amount
<1> DEFINE N == Len(s)
<1>1. PICK f : AddsUp(f, s) /\ EntrySum(s) = f[N]
  BY SumStates
<1>2. PICK g : AddsUp(g, r) /\ EntrySum(r) = g[N + 1]
  BY SumStates
<1>3. N \in Nat /\ N + 1 \in Nat
  BY EntryFacts
<1> DEFINE Good(n) == n <= N => g[n] = f[n]
           S == {n \in Nat : Good(n)}
<1>4. Good(0)
  BY <1>1, <1>2 DEF AddsUp
<1>5. ASSUME NEW n \in Nat, Good(n) PROVE Good(n + 1)
  <2> SUFFICES ASSUME n + 1 <= N PROVE g[n+1] = f[n+1]
    OBVIOUS
  <2>1. n + 1 \in 1..N /\ n + 1 \in 1..Len(r) /\ (n + 1) - 1 = n /\ n <= N
    BY <1>3
  <2>2. f[n+1] = f[n] + s[n+1].amount /\ g[n+1] = g[n] + r[n+1].amount
    BY <1>1, <1>2, <2>1 DEF AddsUp
  <2> QED
    BY <1>5, <2>1, <2>2
<1>6. S = Nat
  <2>1. S \in SUBSET Nat /\ 0 \in S /\ \A n \in S : n + 1 \in S
    <3> HIDE DEF Good
    <3> QED
      BY <1>4, <1>5
  <2> HIDE DEF S
  <2> QED
    BY <2>1, SetInduction
<1>7. g[N] = f[N]
  <2>1. N \in S /\ N <= N
    <3> HIDE DEF S
    <3> QED
      BY <1>3, <1>6
  <2> QED
    BY <2>1
<1>8. N + 1 \in 1..Len(r) /\ (N + 1) - 1 = N /\ N \in 0..N /\ N + 1 \in 0..Len(r)
  BY <1>3
<1>9. g[N+1] = g[N] + r[N+1].amount
  BY <1>2, <1>8 DEF AddsUp
<1>10. f[N] \in Int /\ g[N+1] \in Int
  BY <1>1, <1>2, <1>8 DEF AddsUp
<1> QED
  BY <1>1, <1>2, <1>7, <1>9, <1>10

LEMMA NoEntries == <<>> \in Seq(Entry) /\ EntrySum(<<>>) = 0 /\ Len(<<>>) = 0
<1>1. <<>> \in Seq(Entry) /\ Len(<<>>) = 0
  OBVIOUS
<1>2. PICK f : AddsUp(f, <<>>) /\ EntrySum(<<>>) = f[Len(<<>>)]
  BY <1>1, SumStates
<1> QED
  BY <1>1, <1>2 DEF AddsUp

LEMMA EmptyIs ==
  ASSUME NEW s \in Seq(Entry)
  PROVE  s = <<>> <=> Len(s) = 0
  BY EmptySeq

\* The last entry is replaced by one that is less by d.
LEMMA LastLess ==
  ASSUME NEW s \in Seq(Entry), s # <<>>, NEW e \in Entry, NEW d \in Int,
         e.amount = Last(s).amount - d
  PROVE  LET r == Append(Front(s), e)
         IN  r \in Seq(Entry) /\ r # <<>> /\ EntrySum(r) = EntrySum(s) - d
<1> DEFINE f == Front(s)
           r == Append(f, e)
           n == Len(s) - 1
<1>1. Len(s) \in Nat /\ Len(s) # 0 /\ IsSeq(s) /\ \A k \in 1..Len(s) : s[k].amount \in Int
  BY EntryFacts, EmptyIs
<1>2. n \in Nat /\ n <= Len(s) /\ n + 1 = Len(s) /\ Len(s) \in 1..Len(s)
  BY <1>1
<1>3. CutOf(f, s, n)
  BY <1>1, <1>2, CutIs DEF Front
<1> HIDE DEF f
<1>4. Len(f) = n /\ IsSeq(f) /\ \A i \in 1..n : f[i] = s[i]
  BY <1>3 DEF CutOf
<1>5. f \in Seq(Entry)
  <2>1. DOMAIN f = 1..n
    BY <1>4, SeqFacts
  <2>2. ASSUME NEW i \in DOMAIN f PROVE f[i] \in Entry
    <3>1. i \in 1..n /\ i \in 1..Len(s)
      BY <1>1, <2>1
    <3>2. s[i] \in Entry
      BY <3>1, EntryFacts
    <3> QED
      BY <1>4, <3>1, <3>2
  <2> QED
    BY <1>4, <2>2, SeqOver
<1>6. /\ EntrySum(f) \in Int /\ EntrySum(s) \in Int
      /\ EntrySum(s) = EntrySum(f) + s[n+1].amount
  BY <1>2, <1>4, <1>5, SumTail
<1>7. r \in Seq(Entry) /\ Len(r) = n + 1 /\ r[n+1] = e /\ \A i \in 1..n : r[i] = f[i]
  BY <1>4, <1>5, AppendProperties
<1> HIDE DEF r
<1>8. EntrySum(r) = EntrySum(f) + e.amount
  BY <1>4, <1>5, <1>7, SumTail
<1>9. e.amount = s[n+1].amount - d /\ s[n+1].amount \in Int
  BY <1>1, <1>2 DEF Last
<1>10. EntrySum(r) = EntrySum(s) - d
  BY <1>6, <1>8, <1>9
<1>11. r # <<>>
  BY <1>2, <1>7, EmptyIs
<1> QED
  BY <1>7, <1>10, <1>11 DEF r, f

LEMMA EntryMore ==
  ASSUME NEW s \in Seq(Entry), NEW e \in Entry
  PROVE  /\ Append(s, e) \in Seq(Entry) /\ Append(s, e) # <<>>
         /\ EntrySum(Append(s, e)) = EntrySum(s) + e.amount
<1> DEFINE r == Append(s, e)
           n == Len(s)
<1>1. r \in Seq(Entry) /\ Len(r) = n + 1 /\ r[n+1] = e /\ \A i \in 1..n : r[i] = s[i]
  BY AppendProperties
<1>2. n \in Nat
  BY EntryFacts
<1> HIDE DEF r
<1>3. EntrySum(r) = EntrySum(s) + e.amount
  BY <1>1, SumTail
<1>4. r # <<>>
  BY <1>1, <1>2, EmptyIs
<1> QED
  BY <1>1, <1>3, <1>4 DEF r

-------------------------------------------------------------------------------
(* The ledger of a wallet and its unspent outputs.                           *)

\* The entries add up to what the outputs are worth; if there are none, there are no
\* outputs.
Booked(x, outs) ==
  /\ x \in Seq(Entry)
  /\ EntrySum(x) = TotalAmount(outs)
  /\ x = <<>> => outs = {}

\* The outputs of tx to a: none, or one that is worth w.
CreditsTo(tx, a) == {o \in DOMAIN tx.outs : tx.outs[o].address = a}
CreditedOnce(tx, a, w) ==
  \/ CreditsTo(tx, a) = {} /\ w = 0
  \/ /\ CreditsTo(tx, a) # {} /\ Min(CreditsTo(tx, a)) \in CreditsTo(tx, a)
     /\ w = tx.outs[Min(CreditsTo(tx, a))].amount

\* At most one output of a transaction goes to a wallet, so that it is enough to look
\* for the first.
LEMMA OneCredit ==
  ASSUME NEW c, Clean(c), NEW b \in DOMAIN c, NEW t \in DOMAIN c[b], NEW a
  PROVE  CreditedOnce(c[b][t], a, Worth(c[b][t], {a}, 1) + Worth(c[b][t], {a}, 2))
<1> DEFINE tx == c[b][t]
           w == Worth(tx, {a}, 1) + Worth(tx, {a}, 2)
           credits == CreditsTo(tx, a)
<1>1. tx \in Transaction
  BY DEF Clean, TypedChain
<1>2. /\ SoundBlock(c, c[b], b - 1)
      /\ DOMAIN tx.outs = {1} \/ DOMAIN tx.outs = {1, 2}
  BY OneOrTwo DEF Clean
<1>3. 2 \in DOMAIN tx.outs => tx.outs[1].address # tx.outs[2].address
  BY <1>2 DEF SoundBlock, Rewards, Sound, Balanced
<1>4. credits = {o \in DOMAIN tx.outs : tx.outs[o].address = a}
  BY DEF CreditsTo
<1>5. \A o \in DOMAIN tx.outs : tx.outs[o].amount \in Int
  <2> HIDE DEF tx
  <2> QED
    BY <1>1, TxFacts DEF TxOut
<1> HIDE DEF tx, credits
<1>6. CASE credits = {}
  <2>1. Worth(tx, {a}, 1) = 0 /\ Worth(tx, {a}, 2) = 0
    BY <1>4, <1>6 DEF Worth
  <2> QED
    BY <1>6, <2>1 DEF tx, credits, CreditedOnce
<1>7. ASSUME NEW o \in {1, 2}, credits = {o} PROVE w = tx.outs[o].amount /\ Min(credits) = o
  <2>1. o \in DOMAIN tx.outs /\ tx.outs[o].address = a
    BY <1>4, <1>7
  <2>2. Min(credits) = o
    BY <1>7 DEF Min
  <2>3. Worth(tx, {a}, o) = tx.outs[o].amount
    BY <2>1 DEF Worth
  <2>4. \A i \in {1, 2} : i # o => Worth(tx, {a}, i) = 0
    BY <1>4, <1>7 DEF Worth
  <2>5. tx.outs[o].amount \in Int
    BY <1>5, <2>1
  <2>6. CASE o = 1
    BY <2>2, <2>3, <2>4, <2>5, <2>6
  <2>7. CASE o = 2
    BY <2>2, <2>3, <2>4, <2>5, <2>7
  <2> QED
    BY <2>6, <2>7
<1>8. credits = {} \/ credits = {1} \/ credits = {2}
  BY <1>2, <1>3, <1>4
<1>9. CASE credits # {}
  <2>1. PICK o \in {1, 2} : credits = {o}
    BY <1>8, <1>9
  <2>2. w = tx.outs[Min(credits)].amount /\ Min(credits) \in credits
    BY <1>7, <2>1
  <2> HIDE DEF w
  <2>3. CreditedOnce(tx, a, w)
    BY <1>9, <2>2 DEF CreditedOnce, credits
  <2> QED
    BY <2>3 DEF w, tx
<1> QED
  BY <1>6, <1>9

\* One round of the loop of GetAddressLedger keeps step with one of GetUnspentTxOuts.
LEMMA LedgerStep ==
  ASSUME NEW c, Clean(c), NEW a, NEW p, NEW off, LoopOver(p, c, off, {a}),
         NEW b \in DOMAIN c, NEW t \in DOMAIN c[b], NEW k, k = off[b-1] + t,
         NEW x, Booked(x, p[k-1])
  PROVE  Booked(LedgerAfter(c, a, x, Item(c, b, t)), p[k])
<1> DEFINE tx == c[b][t]
           item == Item(c, b, t)
           debit == ~tx.coinbase /\ \A at \in tx.ins : GetBlockDetails(c, at).address = a
           total == TotalAmount(SpentBy(c, tx))
           credits == CreditsTo(tx, a)
           e == [block |-> item.block, tx |-> item.index,
                 amount |-> tx.outs[Min(credits)].amount]
           y == IF credits = {} THEN x ELSE Append(x, e)
           f == [block |-> item.block, tx |-> item.index, amount |-> Last(y).amount - total]
           z == IF debit THEN Append(Front(y), f) ELSE y
           T == Taken(c, tx, {a})
           M == Made(c, b, t, {a})
           w == Worth(tx, {a}, 1) + Worth(tx, {a}, 2)
<1>1. TypedChain(c) /\ SoundBlock(c, c[b], b - 1)
  BY DEF Clean
<1>2. z = LedgerAfter(c, a, x, item)
  BY DEF LedgerAfter, Item, CreditsTo
<1>3. /\ TotalAmount(T) \in Int /\ w \in Int
      /\ TotalAmount(p[k-1]) \in Int /\ TotalAmount(p[k]) \in Int
      /\ TotalAmount(p[k]) = (TotalAmount(p[k-1]) - TotalAmount(T)) + w
  BY StepAddsUp
<1>4. Moves(p[k], p[k-1], T, M)
  BY UnspentStep
<1>5. \/ credits = {} /\ w = 0
      \/ credits # {} /\ Min(credits) \in credits /\ w = tx.outs[Min(credits)].amount
  <2>1. CreditedOnce(tx, a, w)
    BY OneCredit
  <2> HIDE DEF tx, w
  <2> QED
    BY <2>1 DEF CreditedOnce
<1>6. item.block \in Int /\ item.index \in Int
  BY <1>1, ChainFacts DEF Item
<1>7. credits = {} => M = {}
  BY DEF Made, OutputsOf, Item, CreditsTo
<1>8. debit <=> ~tx.coinbase /\ tx.from = a
  <2>1. ASSUME ~tx.coinbase
        PROVE  tx.ins # {} /\ \A at \in tx.ins : GetBlockDetails(c, at).address = tx.from
    BY <1>1, <2>1 DEF SoundBlock, Rewards, Sound
  <2> QED
    BY <2>1
<1>9. debit => T = SpentBy(c, tx) /\ T # {}
  <2>1. SUFFICES ASSUME debit PROVE T = SpentBy(c, tx) /\ T # {}
    OBVIOUS
  <2>2. ~tx.coinbase /\ tx.from = a
    BY <1>8, <2>1
  <2>3. tx.ins # {}
    BY <1>1, <2>2 DEF SoundBlock, Rewards, Sound
  <2> QED
    BY <2>2, <2>3 DEF Taken, SpentBy
<1>10. ~debit => T = {}
  BY <1>8 DEF Taken
<1>11. x \in Seq(Entry) /\ EntrySum(x) = TotalAmount(p[k-1]) /\ (x = <<>> => p[k-1] = {})
  BY DEF Booked
<1> HIDE DEF T, M, w, credits, debit, item, tx
<1>12. /\ y \in Seq(Entry) /\ EntrySum(y) = EntrySum(x) + w
       /\ y = <<>> => x = <<>> /\ credits = {}
  <2>1. CASE credits = {}
    BY <1>3, <1>5, <1>11, <2>1
  <2>2. CASE credits # {}
    <3>1. w = tx.outs[Min(credits)].amount
      BY <1>5, <2>2
    <3>2. e \in Entry /\ e.amount = w
      BY <1>3, <1>6, <3>1 DEF Entry
    <3>3. y = Append(x, e)
      BY <2>2
    <3> HIDE DEF e, y
    <3> QED
      BY <1>11, <3>2, <3>3, EntryMore
  <2> QED
    BY <2>1, <2>2
<1> HIDE DEF y
<1>13. CASE debit
  <2>1. T = SpentBy(c, tx) /\ T # {} /\ total = TotalAmount(T)
    BY <1>9, <1>13
  <2> HIDE DEF total
  <2>2. y # <<>>
    BY <1>4, <1>11, <1>12, <2>1 DEF Moves
  <2>3. total \in Int /\ Last(y).amount \in Int
    <3>1. Len(y) \in 1..Len(y)
      BY <1>12, <2>2, EntryFacts, EmptyIs
    <3>2. y[Len(y)].amount \in Int
      BY <1>12, <3>1, EntryFacts
    <3> QED
      BY <1>3, <2>1, <3>2 DEF Last
  <2>4. f \in Entry /\ f.amount = Last(y).amount - total
    BY <1>6, <2>3 DEF Entry
  <2>5. z = Append(Front(y), f)
    BY <1>13
  <2> HIDE DEF f, z
  <2>6. z \in Seq(Entry) /\ z # <<>> /\ EntrySum(z) = EntrySum(y) - total
    BY <1>12, <2>2, <2>3, <2>4, <2>5, LastLess
  <2>7. EntrySum(z) = TotalAmount(p[k])
    BY <1>3, <1>11, <1>12, <2>1, <2>6
  <2> QED
    BY <1>2, <2>6, <2>7 DEF Booked, item
<1>14. CASE ~debit
  <2>1. z = y
    BY <1>14
  <2>2. T = {} /\ TotalAmount(T) = 0
    <3>1. Amounted({})
      BY FS_EmptySet DEF Amounted
    <3> QED
      BY <1>10, <1>14, <3>1, TotalFacts
  <2> HIDE DEF z
  <2>3. EntrySum(z) = TotalAmount(p[k])
    BY <1>3, <1>11, <1>12, <2>1, <2>2
  <2>4. z = <<>> => p[k] = {}
    BY <1>4, <1>7, <1>11, <1>12, <2>1 DEF Moves
  <2> QED
    BY <1>2, <1>12, <2>1, <2>3, <2>4 DEF Booked, item
<1> QED
  BY <1>13, <1>14

\* The ledger that GetAddressLedger ends with.
LEMMA LedgerIsBooked ==
  ASSUME NEW c, Clean(c), NEW a
  PROVE  Booked(GetAddressLedger(c, a), GetUnspentTxOuts(c, {a}))
<1> DEFINE items == TxItems(c)
           N == Len(items)
           V == Seq(Entry)
           h == [k \in 1..N |-> [x \in V |->
                   IF LedgerAfter(c, a, x, items[k]) \in V
                     THEN LedgerAfter(c, a, x, items[k]) ELSE <<>>]]
           Step(g) == [k \in 0..N |-> IF k = 0 THEN <<>>
                                      ELSE LedgerAfter(c, a, g[k-1], items[k])]
           q == CHOOSE g : g = Step(g)
<1>1. TypedChain(c)
  BY DEF Clean
<1>2. IsSeq(items) /\ N \in Nat
  BY <1>1, ItemPlaces, SeqFacts DEF TypedChain
<1>3. PICK p, off : LoopOver(p, c, off, {a}) /\ GetUnspentTxOuts(c, {a}) = p[N]
  BY <1>1, LoopExists
<1>4. GetAddressLedger(c, a) = q[N]
  BY DEF GetAddressLedger
<1>5. ASSUME NEW k \in 1..N, NEW x, Booked(x, p[k-1])
      PROVE  Booked(LedgerAfter(c, a, x, items[k]), p[k])
  <2>1. PICK b \in DOMAIN c : \E t \in DOMAIN c[b] :
          k = off[b-1] + t /\ items[k] = Item(c, b, t)
    BY <1>1, <1>3, ItemAt DEF LoopOver
  <2>2. PICK t \in DOMAIN c[b] : k = off[b-1] + t /\ items[k] = Item(c, b, t)
    BY <2>1
  <2>3. Booked(LedgerAfter(c, a, x, Item(c, b, t)), p[k])
    BY <1>3, <1>5, <2>2, LedgerStep
  <2> QED
    BY <2>2, <2>3
<1>6. Booked(<<>>, p[0])
  <2>1. p[0] = {} /\ Amounted({})
    BY <1>3, FS_EmptySet DEF LoopOver, UnspentLoop, Amounted
  <2>2. TotalAmount({}) = 0
    BY <2>1, TotalFacts
  <2> QED
    BY <2>1, <2>2, NoEntries DEF Booked
<1> HIDE DEF items, N, V
<1>7. <<>> \in V /\ \A x, outs : Booked(x, outs) => x \in V
  BY NoEntries DEF V, Booked
<1>8. h \in [1..N -> [V -> V]]
  BY <1>7
<1>9. PICK f \in [0..N -> V] : Recurs(f, N, <<>>, h)
  <2> HIDE DEF h
  <2> QED
    BY <1>2, <1>7, <1>8, RecursionExists
<1>10. f[0] = <<>>
  <2> HIDE DEF h
  <2> QED
    BY <1>2, <1>9 DEF Recurs
<1>11. ASSUME NEW k \in 1..N, Booked(f[k-1], p[k-1])
       PROVE  f[k] = LedgerAfter(c, a, f[k-1], items[k]) /\ Booked(f[k], p[k])
  <2>1. k \in 0..N /\ k # 0
    BY <1>2
  <2>2. f[k] = h[k][f[k-1]]
    <3> HIDE DEF h
    <3> QED
      BY <1>9, <2>1 DEF Recurs
  <2> DEFINE x == f[k-1]
  <2>3. x \in V /\ LedgerAfter(c, a, x, items[k]) \in V
    BY <1>5, <1>7, <1>11
  <2> HIDE DEF x
  <2>4. h[k][x] = LedgerAfter(c, a, x, items[k])
    BY <2>3
  <2> HIDE DEF h
  <2> QED
    BY <1>5, <1>11, <2>2, <2>4 DEF x
<1> HIDE DEF h
<1> DEFINE Good(n) == n <= N => Booked(f[n], p[n])
           S == {n \in Nat : Good(n)}
<1>12. Good(0)
  BY <1>6, <1>10
<1>13. ASSUME NEW n \in Nat, Good(n) PROVE Good(n + 1)
  <2> SUFFICES ASSUME n + 1 <= N PROVE Booked(f[n+1], p[n+1])
    OBVIOUS
  <2>1. n + 1 \in 1..N /\ (n + 1) - 1 = n /\ n <= N
    BY <1>2
  <2> QED
    BY <1>11, <1>13, <2>1
<1>14. S = Nat
  <2>1. S \in SUBSET Nat /\ 0 \in S /\ \A n \in S : n + 1 \in S
    <3> HIDE DEF Good
    <3> QED
      BY <1>12, <1>13
  <2> HIDE DEF S
  <2> QED
    BY <2>1, SetInduction
<1>15. ASSUME NEW n \in 0..N PROVE Booked(f[n], p[n])
  <2>1. n \in S /\ n <= N
    <3> HIDE DEF S
    <3> QED
      BY <1>2, <1>14
  <2> QED
    BY <2>1
<1>16. ASSUME NEW k \in 0..N
       PROVE  f[k] = IF k = 0 THEN <<>> ELSE LedgerAfter(c, a, f[k-1], items[k])
  <2>1. CASE k = 0
    BY <1>10, <2>1
  <2>2. CASE k # 0
    <3>1. k \in 1..N /\ k - 1 \in 0..N
      BY <1>2, <2>2
    <3> QED
      BY <1>11, <1>15, <2>2, <3>1
  <2> QED
    BY <2>1, <2>2
<1>17. f = Step(f)
  <2>1. f = [k \in 0..N |-> f[k]]
    OBVIOUS
  <2> QED
    BY <2>1, <1>16
<1>18. q = Step(q)
  <2> HIDE DEF Step
  <2> QED
    BY <1>17
<1>19. \A k \in 0..N : q[k] = IF k = 0 THEN <<>> ELSE LedgerAfter(c, a, q[k-1], items[k])
  <2> HIDE DEF q
  <2> QED
    BY <1>18
<1> HIDE DEF q, Step
<1> DEFINE Same(n) == n <= N => q[n] = f[n]
           I == {n \in Nat : Same(n)}
<1>20. Same(0)
  BY <1>2, <1>10, <1>19
<1>21. ASSUME NEW n \in Nat, Same(n) PROVE Same(n + 1)
  <2> SUFFICES ASSUME n + 1 <= N PROVE q[n+1] = f[n+1]
    OBVIOUS
  <2>1. n + 1 \in 0..N /\ (n + 1) - 1 = n /\ n <= N /\ n + 1 # 0
    BY <1>2
  <2>2. q[n+1] = LedgerAfter(c, a, q[n], items[n+1])
    BY <1>19, <2>1
  <2>3. f[n+1] = LedgerAfter(c, a, f[n], items[n+1])
    BY <1>16, <2>1
  <2> QED
    BY <1>21, <2>1, <2>2, <2>3
<1>22. I = Nat
  <2>1. I \in SUBSET Nat /\ 0 \in I /\ \A n \in I : n + 1 \in I
    <3> HIDE DEF Same
    <3> QED
      BY <1>20, <1>21
  <2> HIDE DEF I
  <2> QED
    BY <2>1, SetInduction
<1>23. q[N] = f[N]
  <2>1. N \in I /\ N <= N
    <3> HIDE DEF I
    <3> QED
      BY <1>2, <1>22
  <2> QED
    BY <2>1
<1>24. Booked(f[N], p[N])
  BY <1>2, <1>15
<1> QED
  BY <1>3, <1>4, <1>23, <1>24

\* The balance of a wallet (GetAddressBalance, from the entries GetAddressLedger corrects
\* in place) is what its unspent outputs are worth (GetUnspentTxOuts), for all wallets,
\* amounts of either sign and rewards, if users wait for their payments and updates only
\* bring blocks on top of the node's chain while it does not mine.
THEOREM BalancesAgree ==
  ASSUME Patient, Calm
  PROVE  Spec => []BalanceIsUnspent
<1>1. \A c, a : GetAddressBalance(c, a) = EntrySum(GetAddressLedger(c, a))
  BY DEF GetAddressBalance, EntrySum
<1>2. ASSUME NEW c, Clean(c), NEW a
      PROVE  GetAddressBalance(c, a) = TotalAmount(GetUnspentTxOuts(c, {a}))
  BY <1>1, <1>2, LedgerIsBooked DEF Booked
<1>3. LedgerInv /\ TypeInv /\ SoundInv /\ OnceInv => BalanceIsUnspent
  BY <1>2, InvMeansClean DEF BalanceIsUnspent
<1> QED
  BY <1>3, OnceInvariant, PTL
===============================================================================
