-------------------------------- MODULE Ledger --------------------------------
(***************************************************************************)
(* Coins and payments on one node: the transactions in its chain, the      *)
(* queue of payments waiting for a block, and what the node computes from  *)
(* them (src/Blockchain.cpp: GetUnspentTxOuts, GetAddressLedger,           *)
(* GetAddressBalance, CreateTransaction, GetBlockDetails, createUnminedBlock,*)
(* reQueueTransactions; src/Transactions.cpp: GetTransactionId;            *)
(* src/MinerApp.cpp: createtx, runMineThread, handleChainResponse,         *)
(* syncBlockchain, startMining, stopMining).                               *)
(*                                                                         *)
(* A block is reduced to its transactions, the coinbase first; position i  *)
(* of the chain is the block with index i - 1.  ChainSync says which       *)
(* updates reach the node; here they are inputs.  Amounts are whole        *)
(* numbers: the rounding of double is left out.                            *)
(***************************************************************************)
EXTENDS Integers, Sequences, SequencesExt, FiniteSetsExt

CONSTANTS
  Address,             \* wallet addresses
  Miner,               \* mining.miner.address of this node
  PeerMiner,           \* the same on its peers; it pays through them
  COINBASE_REWARD,
  Amounts,             \* amounts users ask for; nothing keeps them from being negative
  Patient,             \* users wait for a payment to be mined before the next
  Calm,                \* peers' blocks only come while the node does not mine, and
                       \* only on top of its chain
  MaxReplaced,         \* bound: blocks of the chain an update replaces, if not Calm
  MaxSyncs,            \* bound: WebSocket threads about to sync
  MaxBlocks,           \* bound: length of the chain
  MaxPayments          \* bound: payments

ASSUME AddressAssumption == {Miner, PeerMiner} \subseteq Address
ASSUME AmountAssumption == Amounts \subseteq Int /\ COINBASE_REWARD \in Nat
ASSUME LedgerBoundsAssumption ==
  /\ {Patient, Calm} \subseteq BOOLEAN
  /\ {MaxReplaced, MaxSyncs, MaxBlocks, MaxPayments} \subseteq Nat

VARIABLES
  chain,     \* the transactions of _blockchain, block by block
  queue,     \* _txQueue
  work,      \* the transactions of the block being mined
  base,      \* the chain that block was made for
  temp,      \* _tempchain: [whole, start, blocks], or NoUpdate
  done,      \* _miningDone
  due,       \* WebSocket threads that found _miningDone set and are about to sync
  pc,        \* the mining thread: "loop", "template", "mining", "sync", "exited" (not
             \* joined) or "off"; or "down", for a process that has ended
  accepted,  \* payments this node answered with 201 (history)
  payments   \* payments made so far (gives each a number)

vars == <<chain, queue, work, base, temp, done, due, pc, accepted, payments>>
history == <<accepted, payments>>

-------------------------------------------------------------------------------
(* Transactions.                                                             *)

\* An output is named by the index of its block, of its transaction in the
\* block and of the output in the transaction, all counted from 0.
TxOutPoint == Nat \X Nat \X Nat
TxOut == [address : Address, amount : Int]
\* What an id is the hash of.
TxId == [ins : SUBSET TxOutPoint, outs : Seq(TxOut), block : Nat]
\* payment and from are history: the number of the payment, 0 for a coinbase,
\* and the wallet it was made with.
Transaction ==
  [coinbase : BOOLEAN, ins : SUBSET TxOutPoint, outs : Seq(TxOut), id : TxId,
   payment : Nat, from : Address]

\* An id is as good as the text it is the hash of, so its parts are kept here and
\* the text is made where ids are compared.
GetTransactionId(ins, outs, blockIdx) == [ins |-> ins, outs |-> outs, block |-> blockIdx]

\* The digits of a number, -1 for the sign.
Digits(n) ==
  LET digits[k \in Nat] == IF k < 10 THEN <<k>> ELSE Append(digits[k \div 10], k % 10)
  IN  IF n < 0 THEN <<-1>> \o digits[-n] ELSE digits[n]

\* That text: the numbers of all inputs, the address and amount of all outputs and
\* the index of the block, with nothing in between.  In which order the inputs are
\* is not known.
Text(id) ==
  FlattenSeq([i \in 1..Cardinality(id.ins) |->
    LET at == SetToSeq(id.ins)[i] IN Digits(at[1]) \o Digits(at[2]) \o Digits(at[3])])
  \o FlattenSeq([o \in DOMAIN id.outs |-> <<id.outs[o].address>> \o Digits(id.outs[o].amount)])
  \o Digits(id.block)

NoId == GetTransactionId({}, <<>>, 0)
calcuateId(tx, blockIdx) == [tx EXCEPT !.id = GetTransactionId(tx.ins, tx.outs, blockIdx)]

\* The first input of a coinbase is unsigned and names the coinbase itself.
CreateCoinbaseTransaction(blockIdx, address) ==
  calcuateId([ coinbase |-> TRUE, ins |-> {<<blockIdx, 0, 0>>},
               outs |-> <<[address |-> address, amount |-> COINBASE_REWARD]>>,
               id |-> NoId, payment |-> 0, from |-> address ], blockIdx)

\* The transactions of chain c in order, each with its place.
TxItems(c) ==
  FlattenSeq([b \in DOMAIN c |->
    [t \in DOMAIN c[b] |-> [block |-> b - 1, index |-> t - 1, tx |-> c[b][t]]]])

OutputsOf(item) ==
  { [at |-> <<item.block, item.index, o - 1>>, address |-> item.tx.outs[o].address,
     amount |-> item.tx.outs[o].amount] : o \in DOMAIN item.tx.outs }

TotalAmount(outs) == MapThenSumSet(LAMBDA u : u.amount, outs)

\* The input of a coinbase spends nothing.
Inputs(tx) == IF tx.coinbase THEN {} ELSE tx.ins

\* Faulty variant: the outputs of all wallets are returned.
UnspentAfterOfAll(outs, item, addresses) ==
  {u \in outs \cup OutputsOf(item) : u.at \notin Inputs(item.tx)}

\* One round of the loop of GetUnspentTxOuts.  An input that names no output in
\* the set is skipped without notice.
UnspentAfter(outs, item, addresses) ==
  LET fresh == outs \cup {u \in OutputsOf(item) : u.address \in addresses}
  IN  {u \in fresh : u.at \notin Inputs(item.tx)}

\* The outputs to one of the addresses that no later transaction spends.
GetUnspentTxOuts(c, addresses) ==
  LET items == TxItems(c)
      after[k \in 0..Len(items)] ==
        IF k = 0 THEN {} ELSE UnspentAfter(after[k-1], items[k], addresses)
  IN  after[Len(items)]

\* GetBlockDetails: the output an input names.  The asserts (and at()) demand
\* that it exists.
Exists(c, at) ==
  /\ at[1] < Len(c)
  /\ at[2] < Len(c[at[1] + 1])
  /\ at[3] < Len(c[at[1] + 1][at[2] + 1].outs)
GetBlockDetails(c, at) == c[at[1] + 1][at[2] + 1].outs[at[3] + 1]

\* The outputs a transaction spends.
SpentBy(c, tx) ==
  { [at |-> p, address |-> GetBlockDetails(c, p).address,
     amount |-> GetBlockDetails(c, p).amount] : p \in tx.ins }

\* Faulty variant: the change of a payment is not looked at.
LedgerAfterGross(c, a, ledger, item) ==
  LET tx       == item.tx
      debit    == ~tx.coinbase /\ \A p \in tx.ins : GetBlockDetails(c, p).address = a
      total    == TotalAmount(SpentBy(c, tx))
      credits  == {o \in DOMAIN tx.outs : tx.outs[o].address = a}
      credited == IF credits = {} THEN ledger
                  ELSE Append(ledger, [block |-> item.block, tx |-> item.index,
                                       amount |-> tx.outs[Min(credits)].amount])
  IN  IF debit
        THEN Append(Front(credited),
                    [block |-> item.block, tx |-> item.index, amount |-> - total])
        ELSE credited

\* One round of the loop of GetAddressLedger.  The first output to a is
\* booked; if a also pays, the last entry is replaced by the difference to
\* what the inputs are worth.  That entry is the change just booked, or, when
\* the payment leaves no change, the entry of an earlier transaction.  All
\* inputs of a transaction belong to its sender, so any stands for the first.
LedgerAfter(c, a, ledger, item) ==
  LET tx       == item.tx
      debit    == ~tx.coinbase /\ \A p \in tx.ins : GetBlockDetails(c, p).address = a
      total    == TotalAmount(SpentBy(c, tx))
      credits  == {o \in DOMAIN tx.outs : tx.outs[o].address = a}
      credited == IF credits = {} THEN ledger
                  ELSE Append(ledger, [block |-> item.block, tx |-> item.index,
                                       amount |-> tx.outs[Min(credits)].amount])
  IN  IF debit
        THEN Append(Front(credited),
                    [block |-> item.block, tx |-> item.index,
                     amount |-> Last(credited).amount - total])
        ELSE credited

GetAddressLedger(c, a) ==
  LET items == TxItems(c)
      after[k \in 0..Len(items)] ==
        IF k = 0 THEN <<>> ELSE LedgerAfter(c, a, after[k-1], items[k])
  IN  after[Len(items)]

GetAddressBalance(c, a) ==
  LET ledger == GetAddressLedger(c, a)
      sum[k \in 0..Len(ledger)] == IF k = 0 THEN 0 ELSE sum[k-1] + ledger[k].amount
  IN  sum[Len(ledger)]

\* FindTransaction: where the first transaction with an id is.
FindTransaction(c, id) ==
  LET items == TxItems(c)
      hits  == {k \in DOMAIN items : Text(items[k].tx.id) = Text(id)}
  IN  IF hits = {} THEN <<>> ELSE << <<items[Min(hits)].block, items[Min(hits)].index>> >>

\* The sets of outputs the loop of CreateTransaction may stop with.  It takes
\* outputs in the order of their hashes, about which nothing is known, one at
\* least, until the amount is reached; what they are worth may be negative, too.
EnoughOf(unspent, amount) ==
  LET taken[s \in SUBSET unspent] ==
        \/ s = {}
        \/ \E last \in s :
             /\ taken[s \ {last}]
             /\ s \ {last} # {} => TotalAmount(s \ {last}) < amount
  IN  {s \in SUBSET unspent : s # {} /\ taken[s] /\ TotalAmount(s) >= amount}

\* Faulty variant: what is left over goes nowhere.
CreateTransactionNoChange(c, sender, receiver, amount, number) ==
  IF receiver = sender THEN {}
  ELSE { [ coinbase |-> FALSE, ins |-> {u.at : u \in s},
           outs |-> <<[address |-> receiver, amount |-> amount]>>,
           id |-> NoId, payment |-> number, from |-> sender ] :
         s \in EnoughOf(GetUnspentTxOuts(c, {sender}), amount) }

\* The transactions CreateTransaction may return, none for NOOP_TRANSACTION,
\* TXOUTS_EMPTY and INSUFFICIENT_FUNDS.  It looks at the chain only, not at
\* the payments in the queue or in the block being mined.
CreateTransaction(c, sender, receiver, amount, number) ==
  IF receiver = sender THEN {}
  ELSE { [ coinbase |-> FALSE, ins |-> {u.at : u \in s},
           outs |-> <<[address |-> receiver, amount |-> amount]>> \o
                    (IF TotalAmount(s) > amount
                       THEN <<[address |-> sender, amount |-> TotalAmount(s) - amount]>>
                       ELSE <<>>),
           id |-> NoId, payment |-> number, from |-> sender ] :
         s \in EnoughOf(GetUnspentTxOuts(c, {sender}), amount) }

-------------------------------------------------------------------------------
(* The node.                                                                 *)

NoUpdate == [whole |-> FALSE, start |-> 0, blocks |-> <<>>]

Init ==
  /\ chain = << <<CreateCoinbaseTransaction(0, Miner)>> >>
  /\ queue = <<>>
  /\ work = <<>>
  /\ base = <<>>
  /\ temp = NoUpdate
  /\ done = TRUE
  /\ due = 0
  /\ pc = "off"
  /\ accepted = {}
  /\ payments = 0

Pending == ToSet(queue) \cup ToSet(work)

\* POST /rest/createtx, answered with 201.
CreateTx(sender, receiver, amount) ==
  /\ pc # "down"
  /\ payments < MaxPayments
  /\ Patient => \A tx \in Pending : tx.from # sender
  /\ \E tx \in CreateTransaction(chain, sender, receiver, amount, payments + 1) :
       queue' = Append(queue, tx)
  /\ accepted' = accepted \cup {payments + 1}
  /\ payments' = payments + 1
  /\ UNCHANGED <<chain, work, base, temp, done, due, pc>>

\* GET /rest/startMining.
StartMining ==
  /\ done
  /\ pc = "off"
  /\ done' = FALSE
  /\ pc' = "loop"
  /\ UNCHANGED <<chain, queue, work, base, temp, due, history>>

\* GET /rest/stopMining, or a shutdown: _miningDone is set and mineBlock asked to
\* end.
StopMining ==
  /\ pc # "down"
  /\ ~done
  /\ done' = TRUE
  /\ UNCHANGED <<chain, queue, work, base, temp, due, pc, history>>

\* while (!_miningDone): a thread that ends here has somebody who joins it.
MineLoop ==
  /\ pc = "loop"
  /\ pc' = IF done THEN "off" ELSE "template"
  /\ UNCHANGED <<chain, queue, work, base, temp, done, due, history>>

\* Faulty variants: the queue is copied and not emptied; payments get no id.
createUnminedBlockCopy ==
  /\ work' = <<CreateCoinbaseTransaction(Len(chain), Miner)>> \o
               [i \in DOMAIN queue |-> calcuateId(queue[i], Len(chain))]
  /\ UNCHANGED queue
createUnminedBlockNoIds ==
  /\ work' = <<CreateCoinbaseTransaction(Len(chain), Miner)>> \o queue
  /\ queue' = <<>>

\* createUnminedBlock: a coinbase and everything in the queue, which gets its
\* id for this block.
createUnminedBlock ==
  /\ work' = <<CreateCoinbaseTransaction(Len(chain), Miner)>> \o
               [i \in DOMAIN queue |-> calcuateId(queue[i], Len(chain))]
  /\ queue' = <<>>

Template ==
  /\ pc = "template"
  /\ Len(chain) < MaxBlocks
  /\ createUnminedBlock
  /\ base' = chain
  /\ pc' = "mining"
  /\ UNCHANGED <<chain, temp, done, due, history>>

\* A nonce was found and addNewBlock accepts the block.
Found ==
  /\ pc = "mining"
  /\ chain = base
  /\ chain' = Append(chain, work)
  /\ work' = <<>> /\ base' = <<>>
  /\ pc' = "sync"
  /\ UNCHANGED <<queue, temp, done, due, history>>

\* addNewBlock refuses the block, since the chain is another one by now: the thread
\* gives up mining, and the block is dropped with its payments.
Refuse ==
  /\ pc = "mining"
  /\ chain # base
  /\ done' = TRUE
  /\ work' = <<>> /\ base' = <<>>
  /\ pc' = IF done THEN "off" ELSE "exited"
  /\ UNCHANGED <<chain, queue, temp, due, history>>

\* Faulty variants: the payments of the block are dropped with it; the
\* coinbase is queued, too.
reQueueTransactionsNone(q, block) == q
reQueueTransactionsAll(q, block) == q \o block

\* reQueueTransactions: the payments of the block go to the end of the queue.
reQueueTransactions(q, block) ==
  LET after[i \in 0..Len(block)] ==
        IF i = 0 THEN q
        ELSE IF block[i].coinbase THEN after[i-1] ELSE Append(after[i-1], block[i])
  IN  after[Len(block)]

\* mineBlock is aborted by stopMining, or because keepMiningCallback found an update
\* that reaches the block.
Abort ==
  /\ pc = "mining"
  /\ done \/ (temp # NoUpdate /\ temp.start + Len(temp.blocks) - 1 >= Len(base))
  /\ queue' = reQueueTransactions(queue, work)
  /\ work' = <<>> /\ base' = <<>>
  /\ pc' = "sync"
  /\ UNCHANGED <<chain, temp, done, due, history>>

\* The chain syncBlockchain makes of c and an update that keeps u.start blocks of
\* it (ChainSync!SyncedChain, for updates that pass its checks).
SyncedChain(c, u) == SubSeq(c, 1, u.start) \o u.blocks

\* Swapping in a whole chain swaps its empty queue in, too.
SyncedQueue(q, u) == IF u.whole THEN <<>> ELSE q

\* syncBlockchain: the update that waits, if there is one, is applied.
syncBlockchain ==
  /\ IF temp = NoUpdate
       THEN UNCHANGED <<chain, queue>>
       ELSE chain' = SyncedChain(chain, temp) /\ queue' = SyncedQueue(queue, temp)
  /\ temp' = NoUpdate

\* By the mining thread, after a block or an abort.
Sync ==
  /\ pc = "sync"
  /\ syncBlockchain
  /\ pc' = "loop"
  /\ UNCHANGED <<work, base, done, due, history>>

\* The same chain but for its last block, which has the same transactions but is
\* not the same.
Replaced(c) == [c EXCEPT ![Len(c)] = <<>>]

\* The end of handleResponse: a thread that finds _miningDone set is about to sync ...
NoticeDone ==
  /\ ~Calm
  /\ pc # "down"
  /\ done
  /\ due < MaxSyncs
  /\ due' = due + 1
  /\ UNCHANGED <<chain, queue, work, base, temp, done, pc, history>>

\* ... and does, whatever the mining thread does by then.  A block put in the place
\* of another one may have the same transactions and still not be the same.
WsSync ==
  /\ due > 0
  /\ due' = due - 1
  /\ syncBlockchain
  /\ \/ UNCHANGED base
     \/ pc = "mining" /\ temp # NoUpdate /\ temp.start < Len(chain) /\ base' = Replaced(base)
  /\ UNCHANGED <<work, done, pc, history>>

\* What a peer can have mined on top of c: one block, with or without a
\* payment made there, and perhaps an empty one on top.
PeerBlocks(c) ==
  LET coinbase(k) == CreateCoinbaseTransaction(Len(c) + k, PeerMiner)
      paid == UNION { CreateTransaction(c, PeerMiner, r, a, payments + 1) :
                        r \in Address, a \in IF payments < MaxPayments THEN Amounts ELSE {} }
      first == {<<coinbase(0)>>} \cup {<<coinbase(0), calcuateId(tx, Len(c))>> : tx \in paid}
  IN  {<<b>> : b \in first} \cup {<<b, <<coinbase(1)>> >> : b \in first}

\* A peer's chain from its own genesis block on.
ForeignChain(k) == [i \in 1..k |-> <<CreateCoinbaseTransaction(i - 1, PeerMiner)>>]

\* What may come: the chain from block k - 1 on, if not from its genesis block on,
\* with blocks of a peer instead of those behind.  There may be none: the update is
\* not compared with the chain but for the block it follows, and may be shorter or
\* an old one.
Updates ==
  IF Calm
    THEN [whole : {FALSE}, start : {Len(chain)}, blocks : PeerBlocks(chain)]
    ELSE LET kept == {k \in 1..Len(chain) : k >= Len(chain) - MaxReplaced}
             mined == UNION { [whole : BOOLEAN, start : {k},
                               blocks : PeerBlocks(SubSeq(chain, 1, k))] : k \in kept }
             cut == { u \in [whole : BOOLEAN, start : kept, blocks : {<<>>}] :
                        u.start = 1 => u.whole }
             foreign == { [whole |-> TRUE, start |-> 0, blocks |-> ForeignChain(k)] :
                            k \in 1..MaxBlocks }
         IN  mined \cup cut \cup foreign

\* handleChainResponse accepts an update.  If Calm the end of handleResponse is
\* part of the step.
Receive ==
  /\ Calm => pc = "off"
  /\ pc # "down"
  /\ \E u \in Updates :
       /\ u.start + Len(u.blocks) <= MaxBlocks
       /\ IF Calm
            THEN chain' = SyncedChain(chain, u) /\ UNCHANGED temp
            ELSE temp' = u /\ UNCHANGED chain
       /\ payments' = IF \E b \in DOMAIN u.blocks :
                           \E t \in DOMAIN u.blocks[b] : u.blocks[b][t].payment # 0
                        THEN payments + 1 ELSE payments
  /\ UNCHANGED <<queue, work, base, done, due, pc, accepted>>

\* The process ends, by a crash, a shutdown or std::terminate, and with it what is
\* in memory only.  What it may cost the chain is in MinerNode.
End ==
  /\ pc # "down"
  /\ queue' = <<>>
  /\ work' = <<>> /\ base' = <<>>
  /\ temp' = NoUpdate
  /\ done' = TRUE
  /\ due' = 0
  /\ pc' = "down"
  /\ UNCHANGED <<chain, history>>

\* The next process, which mines at once if mining.autostart is set.
Launch ==
  /\ pc = "down"
  /\ \/ pc' = "off" /\ UNCHANGED done
     \/ pc' = "loop" /\ done' = FALSE
  /\ UNCHANGED <<chain, queue, work, base, temp, due, history>>

Next ==
  \/ \E s \in Address \ {PeerMiner}, r \in Address, a \in Amounts : CreateTx(s, r, a)
  \/ StartMining \/ StopMining
  \/ MineLoop \/ Template \/ Found \/ Refuse \/ Abort \/ Sync
  \/ Receive \/ NoticeDone \/ WsSync
  \/ End \/ Launch

Spec == Init /\ [][Next]_vars

-------------------------------------------------------------------------------
(* Properties.                                                               *)

\* Every variable holds a value of its kind; the queue holds payments only, and
\* the block being mined one coinbase in front of payments.
TypeOK ==
  /\ \A b \in DOMAIN chain : chain[b] \in Seq(Transaction) /\ chain[b] # <<>>
  /\ queue \in Seq(Transaction)
  /\ work \in Seq(Transaction)
  /\ \A b \in DOMAIN base : base[b] \in Seq(Transaction)
  /\ temp.start \in Nat /\ \A b \in DOMAIN temp.blocks : temp.blocks[b] \in Seq(Transaction)
  /\ {temp.whole, done} \subseteq BOOLEAN
  /\ due \in 0..MaxSyncs
  /\ pc \in {"off", "loop", "template", "mining", "sync", "exited", "down"}
  /\ accepted \subseteq 1..payments
  /\ payments \in 0..MaxPayments
  /\ \A tx \in ToSet(queue) : ~tx.coinbase
  /\ \A t \in DOMAIN work : work[t].coinbase <=> t = 1

Mined == {item.tx : item \in ToSet(TxItems(chain))}

\* No coin is created or destroyed but by mining: the outputs GetUnspentTxOuts
\* finds unspent are worth one reward per block, whatever payments were made,
\* put back in the queue or mined together.
CoinsConserved ==
  TotalAmount(GetUnspentTxOuts(chain, Address)) = COINBASE_REWARD * Len(chain)

\* The two ways the code computes what a wallet owns agree: the sum of its
\* ledger entries, which GetAddressLedger corrects in place for payments, is
\* what its unspent outputs are worth.
BalanceIsUnspent ==
  \A a \in Address : GetAddressBalance(chain, a) = TotalAmount(GetUnspentTxOuts(chain, {a}))

\* A payment only spends outputs that exist, as the asserts of GetBlockDetails
\* demand, and that belong to the wallet it was made with: in the chain it is in
\* and not only in the one it was made on.
SpendsOwnCoins ==
  \A tx \in Mined : \A at \in Inputs(tx) :
    Exists(chain, at) /\ GetBlockDetails(chain, at).address = tx.from

\* A transaction is found by its id, and no other in its place: the ids stay apart
\* although payments get theirs anew for every block they are tried in, and peers
\* make up their own.
FoundById ==
  \A item \in ToSet(TxItems(chain)) :
    FindTransaction(chain, item.tx.id) = << <<item.block, item.index>> >>

\* Where payment p is: in the queue, the block being mined or a block of the chain.
Held == <<queue, work>> \o chain
Places(p) ==
  UNION { {b} \X {t \in DOMAIN Held[b] : Held[b][t].payment = p} : b \in DOMAIN Held }

\* A payment is never executed twice, by whatever mix of aborted blocks,
\* updates and replaced chains: it is in one place of the queue, the block being
\* mined and the chain, or in none.
PaidAtMostOnce == \A p \in 1..payments : \A x, y \in Places(p) : x = y

\* A payment the node accepted waits in the queue or in the block being mined until
\* it is in the chain, through aborted blocks, updates that replace blocks, and
\* mining stopped and started in between.  There are three ways to lose one: the
\* process ends, a whole chain is swapped in, or the mined block is refused by a chain
\* that is not the one it was made for.
Waits(p) == \E tx \in Pending : tx.payment = p
PaymentsKept ==
  [][\A p \in accepted : Waits(p) /\ Places(p)' = {} =>
       \/ pc' = "down"
       \/ temp.whole /\ temp' = NoUpdate
       \/ pc = "mining" /\ pc' # "mining" /\ chain # base]_vars
===============================================================================
