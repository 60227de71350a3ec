# A TLA+ model of AshCoin

AshCoin (`src/`) is a toy proof-of-work coin: a node process keeps a chain of
blocks, mines new ones, talks to its peers over WebSockets, keeps the chain in a
file and answers REST requests. This directory holds TLA+ modules that model the
node and the network, TLC configurations that check them on small instances, and
TLAPS proofs, for all values of the constants, of what the chain synchronisation, the
threads of a node and of its peer manager, the database, the payment queue and the
settings guarantee.

## 1. Inventory

| Component | State | Operations | Interacts with |
|---|---|---|---|
| Blocks and the chain (`Block`, `Blockchain`) | `_blocks`, `_txQueue` | `addNewBlock`, `isValidChain`, `resize`, `cumDifficulty`, `getAdjustedDifficulty`, `createUnminedBlock` | everything; "not thread safe", the client synchronises |
| Chain synchronisation (`MinerApp`) | `_tempchain` | `dispatchRequest`, `handleResponse`, `handleChainResponse`, `syncBlockchain`, `broadcastNewBlock` | messages over `PeerManager`; shares chain, `_tempchain` and `_chainMutex` with the mining thread |
| Mining (`runMineThread`, `Miner`) | position of the thread, `_miningDone`, `_keepTrying` | `mineBlock` and its callback, abort, `stopMining` | appends to the chain, applies updates, broadcasts |
| Transactions (`Transactions`, parts of `Blockchain`) | `_txQueue`, transactions in blocks | `CreateTransaction`, `GetUnspentTxOuts`, `GetAddressLedger`, `reQueueTransactions` | REST `createtx`, mining thread, updates |
| Database (`ChainDatabase`) | `chain.ashdb` | `initialize`, `write`, `writeChain`, `reset` | mining thread and `syncBlockchain` write, start-up reads |
| Life of the node (`MinerApp::run`, `~MinerApp`, REST control) | `_done`, `_miningDone`, threads | constructor, `run`, destructors; `startMining`, `stopMining`, `shutdown`, `createtx` | starts and joins the mining, REST and WebSocket threads |
| Peers (`PeerManager`) | `_peers`: state, connection, client and thread of each; `_peerMutex`; reconnect timer | `connectAll`, `createClient` and its callbacks, `broadcast`, reconnect callback, destructor | delivers messages, callbacks into `MinerApp` |
| Settings (`Settings`, `registerSettings`, `initSettings`) | `_settings`, the configuration file | `load`, `save`, `set`, `setNoThrow`, `reset`, `value` | read by `MinerApp` at start-up |
| Crypto, HTML pages, utilities | — | key generation, formatting | read by the above |

**What is hard here.** Four kinds of threads (main, mining, WebSocket, REST) share a
chain that only part of the code protects with `_chainMutex`. An update is
accepted against one state of the chain and applied to a later one. Answers
to requests made at different times arrive over different connections and nothing
numbers them. `cumDifficulty` and `_tempchain` are compared in places where they
mean something slightly different. A message is sent once and lost with its
connection. The database is rewritten in place. Payments name outputs by position
in a chain that can be replaced under them. Servers run before the chain is loaded
and after the logger is destroyed. The reconnect worker joins threads with a mutex
held that these threads' callbacks take. The configuration file is validated as
text and used by kind. `PROJECT.json` lists each hazard at
its line, with the properties that look at it.

**What makes each component correct.**

* Chain: what the operations build is always a chain from a genesis block on;
  range, sum and validity operators mean what their names say.
* Synchronisation: chains stay well formed whatever updates are applied, an
  update fits when it is applied late, common blocks mean common history,
  announced blocks arrive, nodes end on one genesis block.
* Mining: a block is mined on top of the current chain, an abort is not lost for
  ever, a thread is joined before the next one starts.
* Payments: coins are conserved, balance and unspent outputs agree, a payment is
  executed at most once and is not lost.
* Database: the file is the chain, and a restart finds it.
* Life of the node: what threads use exists while they use it, requests that wait
  for a thread return, a shutdown ends the process.
* Peers: nobody waits for somebody who waits for him, a lost peer is tried again,
  the destructor returns and leaves no thread behind.
* Settings: a saved file loads, `setNoThrow` does not throw, what the user writes
  is what is used.

## 2. Modules

```
Blockchain ──┬── ChainSync ──── MCChainSync (3 configurations)
             │      └─ INSTANCE BlockTree (abstract specification)
             ├── MinerNode ──── MCMinerNode (3 configurations)
             ├── MCBlockchain
             └── BlockchainProofs ─┬─ ChainSyncProofs (also EXTENDS ChainSync)
                                   ├─ MCBlockchainProofs (also EXTENDS MCBlockchain)
                                   └─ MinerNodeProofs (also EXTENDS MinerNode)
                                         └─ StorageProofs
Ledger ──┬── MCLedger (3 configurations)
         └── LedgerProofs
PeerManager ── PeerManagerProofs
Settings ──┬── MCSettings
           └── SettingsProofs
```

`ChainSync` composes the nodes; `MinerNode` and `PeerManager` open up one node where
`ChainSync` takes one step. `PeerManager` justifies what `ChainSync` assumes of
connections: one is either open or gone, and a lost one is tried again.

### Blockchain

Operators for the chain as a value: a sequence of block records, position i
holding `_blocks[i-1]`. Hashes are identities (SHA256 is taken to be injective).
`sealed` says that the stored hash is the hash of the stored contents and has the
zeros the difficulty asks for. It is `FALSE` for a genesis block, whose hash the
constructor computes before `setData` changes what is hashed. A record cut short
in the file is the only other block that is not sealed. `addNewBlock` compares
previous hashes and not indexes, `isValidChain` never looks at the first block,
and `cumDifficulty` leaves the last block out: all three as in the code.
`AddBlocks` is the loop over `addNewBlock` in closed form, so that it can be proved
about; `MCBlockchain` compares it with the loop. The `uint64` difficulty that
goes below 0 is -1, which ends the process in `BeginBlock`: `mineBlock` asks for
a string of 2^64 - 1 zeros.

### ChainSync

Any number of nodes, connected as their peers files say.

| Variable | Code |
|---|---|
| `chain[n]`, `temp[n]` | `_blockchain`, `_tempchain` (`<<>>` for the null pointer) |
| `pc[n]`, `cand[n]` | position of `runMineThread` ("off" when `_miningDone`), the block being mined |
| `open[l]`, `wire[l][n]` | connection `l = <<client, server>>`, messages on their way to `n` over it, in order |
| `status[n]` | "up", or why the process ended |
| `found`, `mined` | history: all blocks that exist; a counter that makes hashes unique |

| Action | Code |
|---|---|
| `Connect`, `Disconnect` | `createClient`: `on_open`, which sends "summary", `on_close`, `on_error`; `reconnectWorker` |
| `BeginBlock`, `FoundBlock`, `AbortBlock`, `SyncBlockchain`, `BroadcastNewBlock` | `runMineThread` with `mineBlock`, `keepMiningCallback`, `syncBlockchain`, `broadcastNewBlock` |
| `HandleSummaryRequest`, `HandleChainRequest`, `HandleNewBlock` | `dispatchRequest` |
| `HandleSummaryResponse`, `HandleNewBlockResponse`, `RejectChain`, `MissingBlocks` | `handleResponse`, with the `syncBlockchain` at its end |
| `AcceptUpdate`, `RequestMore`, `UpdateAssertFails` | `handleChainResponse` |
| `Restart` | the process ends and starts again from its database |

One message handler is one step, and so is each part of the mining thread between
two points at which it gives up `_chainMutex`; `MinerNode` looks inside these
steps. `json["blocks"]` on a response without that member is undefined in a
release build: the process ends or the value is null (`MissingBlocks`,
`RejectChain`). `DebugBuild` says which nodes have `assert`.

### BlockTree

What the protocol promises: all blocks that were ever mined form a tree that
only grows, one block on top of a chain at a time, and every node's chain is a
path of it. `ChainSync` implements it with `tree <- found`; the run `two_miners`
checks that and `ChainsFormATree` proves it.

### MinerNode

The inside of one node, thread by thread, from the start of the process to its
end: `at[t]` is the position of a thread (the main, the mining and the REST thread, and
the WebSocket threads `Ws`: the server's and one for each client), `lock`
the owner of `_chainMutex`, `file` the contents of `chain.ashdb`, `done`, `keep`
and `exit` the flags `_miningDone`, `_keepTrying` and `_done`.

| Action | Code |
|---|---|
| `Launch`, `Initialize`, `StartHttp`, `Autostart` | constructor and `run` in their order: the WebSocket server first, `ChainDatabase::initialize`, the REST server, then mining or `_miningDone = true` |
| `LeaveRun`, `DestructorJoins`, `DestructorStopsHttp`, `DestructorJoinsHttp`, `DestroyMembers`, `DestroyPeers` | the end of `run`, `~MinerApp`, then the members in reverse order |
| `MineLoop` … `Broadcast` | `runMineThread` and `mineBlock`; `addNewBlock` and `_database->write` of a mined block run without the mutex, as they do in the code |
| `SyncNothing` … `SyncRewrite` | `syncBlockchain` by either thread: it takes the mutex, changes the chain, deletes the file and writes it again in separate steps |
| `ReceiveUpdate`, `CheckMining` | `handleResponse` of a "chain" message |
| `BeginRead`, `EndRead`, `Race` | requests and responses that read the chain or the waiting update without the mutex (`dispatchRequest`, the "summary" response, the pages): if another thread changes it in between, or while the mining thread adds its block, the outcome is undefined |
| `Load`, `LoadTorn`, `Refuse`, `LoadGarbage` | `ChainDatabase::initialize`: the chain of the file, or what a torn first record can become |
| `MessageWithoutChain`, `TemplateOfNothing`, `MessageWithoutLogger`, `JoinTwice` | what is undefined: `front()` or `back()` of an empty chain, a logger that is destroyed, two joins of one thread |
| `StartMining`, `StopMining`, `JoinMineThread`, `Shutdown` | the REST requests |
| `Crash` | at any step, and inside a write, which then leaves some of the blocks and perhaps a record cut short |

The file is the blocks that can be read back and `cut`, a record cut short behind them.
Nothing behind such a record can be read, so that `Appended` adds nothing to a file that
is cut. Behind another block it makes `initialize` refuse the file (`isValidBlockPair`
fails). As the first record of a file (`TornFirst`) it is read with the fields that are
missing left as they were: the result is a chain of one block, an exception, or undefined.

Which updates arrive is `ChainSync`'s business; here any update of one or two
blocks that follows a block of the chain, or starts from a genesis block, may arrive,
shorter and older ones included: `handleChainResponse` compares nothing else. `dead` and
`odd` are history: what the process that crashed had in hand, and requests at an odd moment.
`MCMinerNode` adds the symmetry of the WebSocket threads.

### PeerManager

The threads of one `PeerManager`: for every peer a client thread (`worker[p]`, from
`start()` over `on_open`, `on_message` and `on_close` to its return), the reconnect
worker, the mining thread inside `broadcast`, the server thread and the main
thread. `lock` is `_peerMutex`; `on_open` is two steps, between which the old
connection is gone and the new one not yet kept, because `broadcast` looks at it
without the mutex. `on_message` waits for a running `broadcast`, which is under
`_chainMutex`. The WebSocket library is external; the head of the module says what is
used of it.

### Settings

The configuration file, the settings of a process and the processes one after the
other. A JSON value is its kind and its text: validators look at the text, getters
and `set` at the kind, and both are in the model because the properties are
about the difference. `Registered` is `registerSettings`, with the validator each
setting really gets; `Port` includes the 16 bits of `config.port`. Which texts
`boost::lexical_cast` takes for a number, and for which, is the constant `NumberOf`, and
`DumpOf` is the text `json_to_string` makes of a number; all that is assumed is that a
number read back from its text is the same number (`NumberOfAssumption`), that the
default settings are the numbers they are written as (`DefaultNumbersAssumption`), and that
the words for booleans are no numbers (`WordsAssumption`). `MCSettings` gives values to the
two for the runs, with two spellings of port 8080. The user writes
files between processes (`Edit`), also with a name that is not registered. The
program itself never calls `set`, `setNoThrow` or `reset`; the class offers them and
they are called here between load and run, which is where a caller could.

### Ledger

Transactions of one node: the blocks reduced to their transactions, the queue,
the block being mined, and the functions that compute unspent outputs, ledger and
balance as folds over the chain. `CreateTransaction` picks outputs in the
order of their hashes, of which nothing is known: any choice it may stop with is possible.
Amounts are whole numbers of either sign, since nothing in the REST handler or in
`CreateTransaction` keeps them from being 0 or negative.
A transaction's id is what `GetTransactionId` hashes, inputs, outputs and the index
of the block, and is computed when a block is put together. It is kept as these parts;
`FindTransaction` compares their `Text`, digits and addresses one after the other with
nothing in between, as the code hashes them. Peers' blocks come as
inputs (`Receive`), with payments made there. `payment` and `from` are history
fields. `reQueueTransactions` is the loop of the code, as a recursive function over
the positions of the block.

`pc` is the mining thread, `work` the block it has and `base` the chain that block was
made for: `addNewBlock` takes the block if the chain is still that one (`Found`) and
refuses it if not, which drops its payments (`Refuse`). `done` is `_miningDone`, and `due`
counts WebSocket threads that found it set and are about to sync (`NoticeDone`,
`WsSync`), which can be after mining was started again. `End` is the end of the process,
by whatever cause: the queue is memory only. `Launch` is the next one. With `Calm`, peers'
blocks come only while the node does not mine and only on top of its chain, and are
applied at once; without it, updates replace up to `MaxReplaced` blocks or the whole chain,
may leave it shorter, and wait in `temp` while the node mines.

## 3. Runs

All numbers are distinct states. `CHECK_DEADLOCK FALSE` stands where a run stops
because its bounds are used up; `peers` and `settings` have no such bound and
are checked for deadlock.

### Passing

| Run | Instance | Shows |
|---|---|---|
| `two_miners` | two miners on one connection, a debug build that is the client of a release build, three blocks each and clocks that raise the difficulty on one side and lower it on the other (337 446) | types, `SyncInv`, common hash means common history, updates applied whole, refinement of `BlockTree`; an announcement of more difficulty is followed up until the server is as difficult or as high, or an update waits |
| `follower` | a miner that tells two passive nodes, one with its chain and one with its own genesis block that accepts a reset; a lost connection, a restart (35 718) | every announced block arrives, at the second node first with the whole chain, later as partial updates; the first never loses a block |
| `chain_operations` | all chains of up to 3 blocks, arbitrary updates of up to 2 | operators of `Blockchain` agree with loops and reference definitions |
| `payments` | patient users and a calm node; 4 blocks, 3 payments of -1 or 3 coins, any number of restarts (110 778) | coins conserved, balance is unspent outputs, payments spend own coins, ids find their transaction |
| `payment_races` | impatient users, updates at any time replacing up to two blocks or the chain, a WebSocket thread that syncs, restarts; two wallets, 3 blocks, 2 payments (425 926) | a payment is never executed twice, and one that was accepted is lost only with the process, with a swapped chain or with a refused block |
| `storage` | a node with two WebSocket threads, updates and two crashes at any moment, the start included (1 917 757) | the file is the chain whenever nothing is being stored, but for a first record torn by a crash; a restart brings the chain back unless the file was just being replaced; a chain is never empty (`NeverEmpty`); blocks are not added while an update is applied (`MinesApart`) |
| `start_stop` | start, stop and shutdown requests while the node starts, reads and updates (437 654) | `stopMining` returns although `mineBlock` can overwrite its abort, a shutdown ends the process, an update is applied unless a stop abandons it, and `std::terminate` takes one of three named causes |
| `peers` | two peers, any number of lost connections, broadcasts and messages, destruction at any time (28 274) | the join under `_peerMutex` only waits for threads past their last callback; states tell the truth about threads; a lost peer is tried again; the destructor returns, unless a `stop()` came before its `start()`, and leaves nothing running |
| `settings` | all files of up to two of four settings and a wrong name, values of all kinds, two calls per process, any number of processes (260 221) | a saved file loads and gives the same settings; `setNoThrow` throws only on values of a kind that `load` should not have taken; a port is used as written, or is a string, or is above 65535 |

`payments` states a condition (`Patient`, `Calm`) without which its
properties fail; `impatient` and section 6 show how.

Properties name their way out where the code has one. `AnnouncementFollowed` ends where
the server, a release build, is told of more difficulty by a chain that is not longer
than its own: it asks for an empty range and drops the answer. It ends, too, while an
update waits for the mining thread: `handleResponse` then compares the summary with
the update's first block and may drop it. `UpdatesApplied` starts when `run` waits, and
excepts an update that a stop request leaves behind (`Abandoned`); `DestructorReturns`
excepts a lost `stop()`; `PaymentsKept` names three ways to lose a payment,
`FileMirrorsChain` and `CrashKeepsChain` a torn first record. Section 6 describes them.

### Violations: where code and documentation disagree

Each run checks one statement of a document, comment or assertion; TLC finds a
behaviour of the code that contradicts it.

| Run | Statement | What happens |
|---|---|---|
| `mutual_follower` | chains are synced by cumulative difficulty (README) | a late answer over a second connection takes newer blocks away |
| `impatient` | forged transactions are rejected (README) | two payments made before the first is mined spend one output |
| `stop_race` | the folder persists the chain (docs/settings.md) | after `stopMining` set its flag two threads store at once, and the file is not the chain |

### Bounds

The interesting cases need one of each: one block mined between acceptance and
application of an update, one lost connection, one restart, one crash. In `two_miners`
three blocks each (`MaxMined`) give forks of equal and of different height,
updates that fit, are misaligned or leave a gap, and both retargeting directions
(`BLOCK_INTERVAL = 2` instead of 10, `TARGET_TIMESPAN = 2`). The clock of one node stands
still, which raises the difficulty, and that of the other is ahead and moves, which lowers
it, so that forks of one height and different difficulty meet; lost connections and
restarts are in `follower`. The safety properties
of `ChainSync`, and most of those of the other modules (section 4), do not depend on
the bounds: they are proved for all. `Watched`
picks the announcement of a chain of four blocks with the difficulty raised.
`follower` has two blocks, so that two requests or answers are in
flight at once. In `Ledger` four blocks (`MaxBlocks`) leave room for a reward, a
payment, a payment of its change and a block of a peer in between; the amounts are one
below nothing and one that takes two rewards. Three blocks of which two can be
replaced, two payments and one thread about to sync (`MaxSyncs`) let a payment be queued,
mined, replaced and queued again while another waits; who pays whom does not matter there,
and two wallets are enough. In
`MinerNode` two blocks and two updates let an update arrive before, during and after
the storing of another, and the refusal of a mined block happen; the second crash
hits a node that already recovered from one, or that is recovering, or that lives on a
torn genesis block. Two WebSocket threads (`storage`) can apply two updates at once if the
mutex fails; in the other runs one is enough for the questions asked. Two starts, one
stop and one shutdown are enough for a start after a stop, and for
both around the shutdown. `PeerManager` has no bound but the number of peers: with
two, one can be joined while the other is in a callback. In `Settings`, two items
(`MaxItems`) let one item be wrong and one be right, two calls (`MaxCalls`) a `set`
before a `save`; `Texts` has a text of every class the validators tell apart.

### Fairness

`ChainSync`: weak fairness of every mining thread's own steps (the OS schedules
it), of message delivery on an open connection (TCP, and handlers that never
block for ever) and of `Connect` (the reconnect worker tries again as long as the
process runs). Nothing is assumed of the search for a nonce, so liveness does
not rest on blocks being found.

`MinerNode`: weak fairness of every thread, the end of a read included, and of `Found`:
`stopMining` whose abort was overwritten waits for a nonce, and the search ends with
probability 1. Nothing is assumed of requests and messages, or of crashes and races, which
end the process.

`PeerManager`: weak fairness of every thread, of the timer and of a handshake, which
has a timeout. Callbacks and the reconnect worker, which wait for `_peerMutex` while
others take and release it over and over, have strong fairness: `std::mutex`
promises no order, but the others hold it briefly and the timer leaves it free
for seconds. Connections need not be lost, and messages need not come.

## 4. Proofs

Every theorem holds for all values of the constants that satisfy the assumptions below:
any number of nodes, peers, blocks, payments, crashes and calls.

| Module | Theorem | States |
|---|---|---|
| `ChainSyncProofs` | `TypeCorrect` | `Spec => []TypeOK` |
| | `SyncSafe` | `Spec => []SyncInv` |
| | `SameHashSameHistory` | `Spec => []HashNamesHistory` |
| | `UpdatesWhole` | `Spec => UpdatesAppliedWhole` |
| | `ChainsFormATree` | `Spec => ImplementsBlockTree` |
| | `FollowersOnlyExtend` | `Spec => PassiveNodesOnlyExtend`, in networks with one source |
| | `OneSourceByDifficulty` | `Spec => CumulativeDifficultyNeverFalls`, in networks with one source |
| `BlockchainProofs` | `RetargetInBounds` | `getAdjustedDifficulty` never reads in front of the chain |
| | `ValidMeansLinked` | `isValidChain` accepts exactly the `Linked` sequences |
| `MCBlockchainProofs` | `AddBlocksEqualsLoop` | the closed form of the update loop is the loop, for every chain and valid update |
| | `SegmentIsExact` | a segment of a well-formed chain is the range asked for |
| | `LoopAndClosedForm`, `ValidityMeansLinks`, `SegmentsAreRanges` | `AddBlocksIsLoop`, `ValidChainIsLinked`, `SegmentIsRange` hold in all states of `chain_operations`, whatever its bounds |
| `PeerManagerProofs` | `PeerTypes` | `Spec => []TypeOK` |
| | `JoinIsSafe` | `Spec => []JoinsOnlyLeavers` |
| | `StatesAreTrue` | `Spec => []StateTellsThread` |
| | `NullOnlyInWindow` | `Spec => []NullOnlyWhileOpening` |
| | `DestructorLeavesNothing` | `Spec => []DestroyedQuiet` |
| `MinerNodeProofs` | `NodeTypes` | `Spec => []TypeOK` |
| | `AlwaysAChain` | `Spec => []NeverEmpty` |
| | `TerminatesOnlyThen` | `Spec => []TerminatesOnlyAfterRefusal` |
| `StorageProofs` | `FileMirrors` | `Spec => []FileMirrorsChain`, if nobody uses the REST interface |
| | `CrashKeeps` | `Spec => CrashKeepsChain`, under the same condition |
| | `OnlyAfterARequest` | `Spec => []MinesApart` |
| `LedgerProofs` | `PaidOnce` | `Spec => []PaidAtMostOnce` |
| | `PaymentsStay` | `Spec => PaymentsKept` |
| | `LedgerTyped` | `Spec => []TypeOK` |
| | `OwnCoinsSpent` | `Spec => []SpendsOwnCoins`, if `Calm` |
| | `CoinsStay` | `Spec => []CoinsConserved`, if `Calm` and `Patient` |
| | `BalancesAgree` | `Spec => []BalanceIsUnspent`, if `Calm` and `Patient` |
| `SettingsProofs` | `SettingsTypes` | `Spec => []TypeOK` |
| | `OwnFileLoads` | `Spec => []SavedFileLoads` |
| | `NoThrowKeepsItsName` | `Spec => []ThrowsOnlyOnForeignKinds` |
| | `ListensThere` | `Spec => []ListensOnFilePort` |

**Assumptions.** They say that the constants have their kinds and that bounds are
naturals: `NodeAssumption`, `PeersAssumption` (a node does not name itself),
`BoundsAssumption` (the initial chain has between 1 and `BLOCK_INTERVAL` blocks),
`IntervalAssumption`, `TimespanAssumption`, `DifficultiesAssumption`,
`ChainBoundsAssumption`, `PeersFileAssumption`, `NodeBoundsAssumption`, `WsAssumption`,
`AddressAssumption`, `AmountAssumption` (amounts are integers), `LedgerBoundsAssumption`,
`SettingsBoundsAssumption`, `NumberOfAssumption`, `DefaultNumbersAssumption`,
`WordsAssumption`, `NamesAssumption` (the names a file is made of are registered).
TLC evaluates all of them in the runs.

**Conditions.** Some theorems have a hypothesis that the code needs; the passing run that
checks the property has it, too. `FileMirrors` and `CrashKeeps` assume that no start, stop
or shutdown request comes: with one, two threads store at once and the file is not the
chain, as `stop_race` shows. `OwnCoinsSpent` assumes `Calm`: a replaced block leaves
queued payments behind whose inputs name something else. `CoinsStay` and `BalancesAgree`
assume in addition that a user waits until a payment is mined (`Patient`): `impatient` shows
what happens otherwise. `PaidOnce`, `PaymentsStay`, `AlwaysAChain` and `OnlyAfterARequest`
have no condition. `FollowersOnlyExtend` and `OneSourceByDifficulty` assume
`OneSource(s)`: nobody but `s` mines, all nodes have its genesis block, and every connection
has `s` at one end, at most one for each other node. How many nodes there are, who is client
and who is server, which of them accept resets and how often connections and processes fail is open. A second
connection (`mutual_follower`) or another genesis block (section 6) breaks both.

**ChainSync.** `Inv == TypeOK /\ SyncInv` is inductive. That chains are well
formed is not inductive by itself: `syncBlockchain` checks neither index nor chain
when it applies an update, so one has to know that the waiting update fits
(`TempFits`); it was accepted against an older chain, so one has to know what
can have happened since. Mining only appends, which keeps a block the update
follows where it is, and `PassiveKeepsNoUpdate` says that a node that does not
mine has nothing waiting, so no update is waiting while another is applied at
once. A mined block is on top of the chain as it is at that moment
(`CandidateFresh`), because updates are applied by the mining thread itself,
between two blocks. What comes over the wire is `Linked`, a piece of somebody's
chain (`WireSound`). Every block in a chain, an update or a message exists in
`found`, where hashes are unique (`FoundSound`): hence equal hashes mean
equal blocks, and by induction downwards equal history.

There is one lemma per action (`ConnectInv` ... `RefusedResponseInv`), `NextInv`
combines them, and `StepShape` says in three cases what any step does to chains
and blocks: nothing, it applies one update to one node, or one node finds
one block. `UpdatesWhole` and the refinement follow from it. `TypeOK` needs the
cumulative difficulty of a chain to be a natural number; since it is defined by a
recursive function, `BlockchainProofs` proves existence and type of such functions
from induction over sets of naturals first.

**One source.** `FollowInv`, on top of `Inv`. `handleChainResponse` and `syncBlockchain` apply
what comes without comparing difficulties, so that nothing but the order of the messages
keeps a chain from getting shorter. Give each message a tip: for an update its last block,
for a request the last block asked for, for a summary the last block it names. A summary
becomes a request, a request an update, and each connection keeps the order in each
direction; so updates in flight come before requests, requests before summaries, and tips do
not fall along that line (`InOrder`). An update then ends at or behind the end of the
chain it meets (`ToFollower`). It also has to start inside that chain or right behind it,
which holds because a request starts behind the chain of the node that makes it,
and that chain only grows; hence `RequestMore` never happens, and neither does a request for
the whole chain, whose tip would only be known when it is answered. That is the
step which fails with another genesis block. All chains are beginnings of the source's
(`Begins`), which is why the blocks an update replaces are the ones it brings. A node that
has just connected has nothing in flight, which settles lost connections and restarts.
Difficulties follow: a longer chain with the same beginning has no smaller sum
(`CumDifficultyGrows`), because the terms of `cumDifficulty` are natural numbers.

**Blockchain operations.** The loop over `addNewBlock` is a recursive function, too; the
same existence lemma gives its states one by one, and induction over a set of
naturals compares each with the closed form. The case that matters is an update whose
first blocks are refused: nothing is added up to the first block that names the last
one of the chain, and from there on each names the one just added. `OperandsInv`
(the chain is well formed, the update is made of blocks) carries these facts to the
states of `MCBlockchain`.

**PeerManager.** `PeerInv` relates a peer's `state` to the position of its client
thread, in both directions, and the reconnect worker's position to both. The join under
`_peerMutex` waits for a thread whose peer is offline; a peer only goes offline in the
last callback of its thread, so the thread needs the mutex no more, and only the worker
that holds it could start another. Neither direction is inductive alone. `broadcast`
meets a null connection only between the two halves of `on_open`: a connected peer has
one, and what `broadcast` saw connected loses it there only (`ConnectedHasConnection`).
`ClosedInOrder` says which threads have ended at each point of the destructor.

**MinerNode.** `NodeInv` lists, for every position of a thread, what the flags, the mutex
and the work in hand must be. The chain of a node that has started is never empty
(`NeverEmpty`): `syncBlockchain` is the only place that could empty it, and the update it
applies is either whole or starts inside the chain or right behind it (`UpdateInBounds`).
That has to be kept through what happens while an update waits: blocks mined on top, another
update in its place, a smaller chain, so that a reader or `createUnminedBlock` that comes
in at any point finds a block. With that,
a chain is empty only before `initialize` is done, or after a crash left an empty file
(`EmptyChain`, `FileThere`). `Joined` says when a mining thread can be left to join.
The mined block is not always accepted, which is why hashes have to be told apart: an
update never has a block this node mined (`Values`, `WorkInHand`), so a refused block is
one that the chain does not have.

**Storage.** `StorageInv`, on top of `NodeInv`. Without requests, one kind of thread owns the
chain (`OneAtWork`): the mining thread if the node mines, the WebSocket threads if not,
which the mutex keeps apart from each other. `FileFollows` then says by the owner's position
how file and chain differ, and
`Remembers` what the file holds after a crash in that position. `ChainLinked`,
`UpdateFits` and `TemplateFits` are needed because `write` appends one block, while
the file is right only if `addNewBlock` did not refuse it. A file with a torn first
record stays one until it is replaced, and is the exception in each of them (`Stored`).
`OnlyAfterARequest` needs the requests counted instead of excluded: up to the first one,
`DoneMeansIdle` says that `_miningDone` is not set while a thread may mine, and that a
WebSocket thread that applies an update found it set.

**Ledger.** `LedgerInv` says that a number is given to one payment, that queue, block,
chain *and* the update that waits have no payment in common (`Distinct`), and that all
numbers are at most `payments` (`Numbered`), so that a new one is new everywhere. The
update has to be part of it: it becomes part of the chain later, when the node may have
queued the payments of the block it gave up. An update names a block of the chain
(`Shape`), also when it makes the chain shorter or another thread applied one in between.
`reQueueTransactions` is handled like the
loop above: after k rounds the queue has what it had and the payments among the
first k transactions, each once (`Requeued`). `PaymentsStay` follows a payment through each
step: it moves from the queue to the block (`TemplateOccurs`), back (`RequeuedOccur`) or to
the chain (`FoundOccurs`), and what is in one of them has a place (`HavePlaces`). The steps
that are left are the end of the process, a swapped queue and a refused block; no condition
on updates or users is needed.

The other theorems about `Ledger` stand on a chain of invariants, each proved with the help of
those before it.

1. `TypeInv` is `TypeOK` with the types of blocks in updates. It needs the type of everything
   `CreateTransaction` may return, and so of `GetUnspentTxOuts`.
2. `SoundInv`: every payment in queue, block and chain spends outputs that exist in front of
   it and belong to its sender, and is worth what it spends (`Balanced`). A chain that only
   grows keeps the outputs where they are (`Grows`), which is why replacements are excluded.
   `SpendsOwnCoins` follows.
3. `OnceInv`: no two transactions of the chain spend one output (`SpentOnce`), what waits
   spends what the chain has not spent (`UnspentIn`), and two payments that wait are of
   different users, who own different outputs. Here patience is needed: `CreateTransaction`
   looks at the chain only.
4. `Clean` is what is left of these about one chain. From it, transaction by
   transaction (`UnspentStep`): the outputs it spends are still unspent, those it makes
   are new, so that `GetUnspentTxOuts` loses and gains just these. For all wallets the two
   are worth the same, but for the reward (`CleanConserves`). For one wallet,
   `LedgerStep` compares them with the change of the ledger: the case that matters is
   a payment without change, which rewrites the last entry of an earlier transaction; the
   ledger is not empty then, because the wallet has outputs (`Booked`).

`GetUnspentTxOuts`, `GetAddressLedger` and `GetAddressBalance` are recursive functions over the
transactions of the chain, in the order of `TxItems`. Each step of the arguments above is a
statement about one round of the loop; induction over a set of naturals combines them.

**Settings.** `SettingsInv`: every registered setting has a value, with a text that its
kind allows (`Values`), a process that got past `load` has only values its validators accept
(`AllValid`), which is what makes its own file load again, and before any call the
settings are those of the file (`FromFile`). Of numbers the proofs use that one read back
from its text is the same (`NumberOfAssumption`), whatever texts are numbers; of the
validators they only use what these accept: the defaults, the values `set` converts, and numbers
within their bounds.

The inductive invariants were checked with TLC on the instances of section 3 before they
were proved.

**Only model-checked:**

* all liveness properties (fairness and `ENABLED` are out of the provers' reach);
* `CumDifficultyIsSum`: the terms are powers of two, and the provers know nothing of
  exponentiation, not even that 2^(n+1) is twice 2^n. What `cumDifficulty` sums is proved
  (`CumDifficultySums`), the value of the sum is not;
* `FoundById`. Ids are compared as the text that is hashed, in which numbers of several
  digits and addresses follow each other without separators, so that different parts can
  give the same text: the property is checked for the indexes and amounts of the run
  `payments`, all of one digit, and is not claimed for others;
* the properties with a condition, outside of it: the violating runs show that
  they fail there.

## 5. Abstractions

* `sealed` joins two tests of the code, the hash and its zeros.
  `isValidBlockPair` tests only the first, but all blocks come from nodes that run
  this code, for which they agree.
* `genesis != remote_gen` compares fields; here it compares hashes.
* Equal wall-clock times, nonces and hashes of different blocks do not occur.
* Amounts are whole numbers of either sign; the rounding of `double` is left out.
* Byte layout, JSON syntax, HTML, logging and signatures (a constant string in the
  code) are left out.
* Of the inputs of a transaction only the set is kept: in which order the code takes
  them, by their hashes, is not known.
* A block of `Ledger` that was replaced does not come back with a later update, and a peer's
  blocks have payments of their own. An end of the process (`End`) takes the queue and
  the block being mined and leaves the chain; what a crash can cost the chain is in `MinerNode`.
* A read without the mutex is a first and a last step, and any change of the chain or the
  waiting update in between makes it undefined, however far the two were apart in memory.
* Settings: negative and fractional numbers, arrays and objects do not occur in a
  file, and texts are in lower case (the code ignores case).
* An empty `peers.file` setting, with which no reconnect worker is started, is left
  out; the file may be empty.
* The REST server has one thread, as Simple-Web-Server has by default.
* `StopMining` of `Ledger` is the setting of the flag; who joins the thread, and
  `_keepTrying`, are in `MinerNode`.
* The server thread and the client threads handle messages in the same way in `MinerNode`.
* A node that loaded an empty file has an empty chain, on which `front()` is
  undefined; `MinerNode` stops there.

## 6. Not modelled, and plan

Not modelled, because there is no protocol state in it: cryptography (calls into
CryptoPP), HTML pages and read-only REST resources beyond the chain operations they
call, command line, logging, paths and machine ids. `LengthValidator`,
`EnumValidator`, `registerInt` and `registerEnum` are not used by the program.
The bytes of a record, of a message and of a hash are data that no property tells
apart. What a torn read of a vector returns (`dispatchRequest`, `handleResponse`,
`/blocks/last` and `/rest/summary` read without `_chainMutex`) cannot be bounded: the model
says when it can happen (`Race`) and ends there.

Behaviours of the code that the model has and that no run states as a property:

* A walk back over round trips (`RequestMore`) ends at block 0, and an answer that
  starts there replaces the chain also where `chain.reset.enable` is off.
* A node that takes over another genesis block can lose blocks over a single connection,
  too. It asks for the whole chain once for each summary it reads before the first
  answer, and is answered with the chain as it is then; a summary read between two
  whole chains leads to a request for blocks up to the one that summary names, and its
  answer is applied after the second whole chain, which may reach farther. (Five
  blocks are needed: with `MCMutualFollower.cfg`, one connection, a genesis block of its own
  and a reset for the passive node and `MaxMined = 5`, TLC finds a node that goes back from
  six blocks to five.)
* `handleResponse` compares the remote genesis block with `_tempchain->front()`,
  which for a partial update is not a genesis block: the whole chain is asked
  for without need.
* More cumulative difficulty without more blocks leads to a request for an empty
  range (`MissingBlocks`). A release build drops the answer and keeps its less difficult
  chain until the other one is longer (`two_miners`); a debug build can end there.
* Blocks are announced one hop, by clients only, and are not relayed; a miner whose
  announcement is refused is not told that it is behind. Nodes can stay on
  different chains.
* A payment answered with 201 can be lost in three ways: with the process, because the
  queue is in memory only; when a whole chain is swapped in, with its empty queue; and
  with a mined block that `addNewBlock` refuses, which is not queued again (`PaymentsKept`
  names them). A payment in a block that an update replaces is not queued again either.
* Queued payments outlive blocks they spend from, so that their inputs name nothing or
  somebody else's coins. `SpendsOwnCoins` is checked without replacements.
* `createtx` accepts 0 and negative amounts. A payment of -1 takes a coin from the receiver's
  balance and gives the sender one as change; coins are still conserved, since the
  negative output counts like any other (`payments`).
* Ids are hashes of numbers and addresses written one after the other without separators:
  input 1, 11, 0 and input 11, 1, 0 give the same text. For values of one digit different
  transactions have different ids (`FoundById`).
* A payment without change replaces an earlier entry of the ledger; the balance
  stays right (`BalanceIsUnspent`).
* When `addNewBlock` refuses a mined block the mining thread ends by itself, nobody
  joins it, and the next `startMining` ends the process
  (`TerminatesOnlyAfterRefusal` names the two other ways to get there, both at
  start-up or shutdown, and says that there is no fourth).
* A crash while the file is replaced loses the chain. If it cuts the genesis record short,
  at the very first start or in a rewrite, `initialize` reads the missing fields as they
  were, and `isValidChain`, which never looks at the first block, accepts the result as a chain
  of one block, unless a length was not read (an exception or worse) or an index was not
  (undefined). The node works with that chain, writes blocks behind the torn bytes, and the
  next start cannot read them (`LoadTorn`, `TornFirst`).
* `dispatchRequest`, the "summary" response and some pages read the chain or the waiting
  update without `_chainMutex` while the mining thread appends to it or `syncBlockchain`
  swaps and frees it (`Race`); the reads are atomic in `ChainSync`.
* `stopMining` that is served after a WebSocket thread left an update to the mining thread,
  when that is past its last `syncBlockchain` (it announces a block, or is about to look at
  `_miningDone`), leaves the update waiting until the next response comes or mining is
  started again (`Abandoned`).
* `assert(tempStartIdx > 0)` in `handleChainResponse` fails for an update that starts
  at block 1, whose predecessor has index 0 (`UpdateAssertFails`); the code after
  it handles that update well.
* While an update waits for the mining thread, a summary is compared with that
  update and the difficulty it announces may be passed over until the next block.
* On a passive node an update that arrives between the start of the WebSocket
  server and `_miningDone = true` is kept and not applied until the next response
  comes, although the comment above `syncBlockchain` says that the chain is synced
  at start-up.
* A message that is handled before `initialize` is done finds an empty chain
  (`MessageWithoutChain`); one that is handled while `~PeerManager` waits uses a logger
  that was destroyed (`MessageWithoutLogger`).
* A stop request between the start of the REST server and that of the mining
  thread leaves a thread that ends at once and is never joined; a start request
  during shutdown starts one that `~MinerApp` may not see.
* `client->stop()` of a client that has not called `start()` is lost, and `~PeerManager`
  waits for that connection to end by itself.
* `broadcast` can meet a null connection while `on_open` replaces it, against its
  `assert`.
* Ports are validated with the range of the file size: 70000 is accepted and cut to
  16 bits, 80 is refused. A port or a flag written as a string passes its validator
  and is then ignored in favour of the caller's default, and settings that are
  missing are accepted, while `docs/settings.md` asks for all of them with valid values.
* `set` on `logs.level`, which is registered without a validator, calls through a null
  pointer.
* `/rest/tx` writes a 404 status after the answer it found.

All modules named in section 2 are written, and every safety property of a passing run but
`CumDifficultyIsSum` and `FoundById` is proved for all values of the constants, under the
conditions of section 4.
