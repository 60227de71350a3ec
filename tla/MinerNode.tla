------------------------------- MODULE MinerNode -------------------------------
(***************************************************************************)
(* The threads of one node and its database, from the start of the process *)
(* to its end: the main thread, the mining thread, the threads that serve  *)
(* WebSocket messages (the server's and one per client) and the thread     *)
(* that serves REST requests share the chain, the waiting update and the   *)
(* flags _done, _miningDone and _keepTrying; syncBlockchain and the mining *)
(* thread write chain.ashdb (src/MinerApp.cpp: run, ~MinerApp,             *)
(* runMineThread, syncBlockchain, dispatchRequest, handleResponse,         *)
(* startMining, stopMining, shutdown; src/MinerApp.h; src/Miner.h;         *)
(* src/ChainDatabase.cpp).                                                 *)
(*                                                                         *)
(* A step is what a thread does between two points at which another thread *)
(* or a crash can come in between: _chainMutex is taken where the code     *)
(* takes it, and the parts that run without it are steps of their own.     *)
(* What is read without it has a first and a last step; another thread     *)
(* that changes it meanwhile makes the outcome undefined.                  *)
(* The process can crash at any step.  What an update may look like is     *)
(* decided by ChainSync; here any update that fits may arrive.             *)
(***************************************************************************)
EXTENDS Blockchain

CONSTANTS
  Ws,            \* the threads that serve WebSocket messages
  MaxMined,      \* bound: blocks the node mines
  MaxUpdates,    \* bound: updates it receives
  MaxStarts,     \* bound: startMining requests served
  MaxStops,      \* bound: stopMining requests served
  MaxShutdowns,  \* bound: shutdown requests served
  MaxCrashes     \* bound: crashes

ASSUME NodeBoundsAssumption ==
  {MaxMined, MaxUpdates, MaxStarts, MaxStops, MaxShutdowns, MaxCrashes} \subseteq Nat
ASSUME WsAssumption == {"main", "mine", "rest", "nobody"} \cap Ws = {}

VARIABLES
  chain,     \* _blockchain
  temp,      \* _tempchain, <<>> for the null pointer
  file,      \* chain.ashdb
  done,      \* _miningDone
  keep,      \* _keepTrying
  exit,      \* _done
  at,        \* at[t]: where thread t is
  lock,      \* the thread that holds _chainMutex, or Nobody
  work,      \* the block the mining thread has in hand, or NoBlock
  status,    \* the process: "up", "down", or how it ended
  count,     \* how often each bounded step was taken
  dead,      \* what the process that crashed last had in hand (history)
  odd        \* requests served at an odd moment: "early_stop", before run() decided
             \* about mining, "late_start", during shutdown (history)

vars == <<chain, temp, file, done, keep, exit, at, lock, work, status, count, dead, odd>>
flags == <<done, keep, exit>>
past == <<dead, odd>>

Threads == {"main", "mine", "rest"} \cup Ws
Nobody == "nobody"
NoBlock == [index |-> 0]

Counted == {"mined", "updates", "starts", "stops", "shutdowns", "crashes"}
Counts(what, bound) == count[what] < bound /\ count' = [count EXCEPT ![what] = @ + 1]
Goes(t, place) == at' = [at EXCEPT ![t] = place]

-------------------------------------------------------------------------------
(* The database file.                                                        *)

\* The blocks that can be read back, and whether a record cut short follows:
\* nothing behind that can be read.
NoFile == [exists |-> FALSE, blocks |-> <<>>, cut |-> FALSE]
FileOf(blocks) == [exists |-> TRUE, blocks |-> blocks, cut |-> FALSE]

\* An ofstream opened with ios::app: the file is created or added to.
Appended(f, blocks) ==
  [exists |-> TRUE, blocks |-> IF f.cut THEN f.blocks ELSE f.blocks \o blocks, cut |-> f.cut]

\* A crash in the middle of the next record.
CutShort(f) == [f EXCEPT !.exists = TRUE, !.cut = TRUE]

\* What a crash leaves of blocks on their way to f: some of them, and perhaps
\* a part of the next.
PartlyAppended(f, blocks) ==
  {f} \cup {Appended(f, SubSeq(blocks, 1, k)) : k \in 0..Len(blocks)}
      \cup {CutShort(Appended(f, SubSeq(blocks, 1, k - 1))) : k \in 1..Len(blocks)}

\* A file that a crash cut short in its first record.
TornFirst(f) == f.cut /\ f.blocks = <<>>

-------------------------------------------------------------------------------

\* Every genesis block a node creates is a new one.
Genesis(k) == GenesisBlock(<<"genesis", k>>, 0)

\* What read_block makes of a genesis record that was cut short.
TornGenesis(k) == GenesisBlock(<<"torn", k>>, 0)

NoCrash == [chain |-> <<>>, temp |-> <<>>, doing |-> {}]

\* The state of a process that is not running.
Init ==
  /\ chain = <<>>
  /\ temp = <<>>
  /\ file = NoFile
  /\ done = FALSE
  /\ keep = TRUE
  /\ exit = FALSE
  /\ at = [t \in Threads |-> "off"]
  /\ lock = Nobody
  /\ work = NoBlock
  /\ status = "down"
  /\ count = [c \in Counted |-> 0]
  /\ dead = NoCrash
  /\ odd = {}

-------------------------------------------------------------------------------
(* The main thread: run() and ~MinerApp.                                     *)

MainOnly == UNCHANGED <<temp, lock, work, count>>

\* The process starts: the constructor, initHttp, initWebSocket, initPeers.
\* The WebSocket server serves and the peers are connected to, the chain is
\* empty.
Launch ==
  /\ status = "down"
  /\ chain' = <<>>
  /\ temp' = <<>>
  /\ done' = FALSE /\ keep' = TRUE /\ exit' = FALSE
  /\ at' = [t \in Threads |-> IF t = "main" THEN "initialize" ELSE IF t \in Ws THEN "idle" ELSE "off"]
  /\ lock' = Nobody
  /\ work' = NoBlock
  /\ status' = "up"
  /\ odd' = {}
  /\ UNCHANGED <<file, count, dead>>

\* ChainDatabase::initialize: a missing file gets a new genesis block, and what
\* is in the file is the chain if isValidChain has nothing against it.
Loaded(f, k) == IF f.exists THEN f.blocks ELSE <<Genesis(k)>>
Load ==
  LET c == Loaded(file, MaxUpdates + 1 + count["crashes"])
  IN  /\ ~file.cut
      /\ isValidChain(c)
      /\ chain' = c
      /\ file' = FileOf(c)
      /\ Goes("main", "http")
      /\ UNCHANGED status

\* Of a record cut short the fields that are missing are left as they were.
\* Behind another block it never passes isValidBlockPair.  Alone it is a chain of
\* one block, or a length that was not read makes read_data throw ...
LoadTorn ==
  /\ TornFirst(file)
  /\ chain' = <<TornGenesis(count["crashes"])>>
  /\ Goes("main", "http")
  /\ UNCHANGED <<file, status>>
Refuse ==
  /\ file.cut \/ ~isValidChain(Loaded(file, MaxUpdates + 1 + count["crashes"]))
  /\ status' = "invalid_chain"
  /\ UNCHANGED <<chain, file, at>>

\* ... or an index that was not read is compared with others.
LoadGarbage ==
  /\ TornFirst(file)
  /\ status' = "undefined"
  /\ UNCHANGED <<chain, file, at>>

Initialize ==
  /\ at["main"] = "initialize"
  /\ Load \/ LoadTorn \/ Refuse \/ LoadGarbage
  /\ dead' = NoCrash
  /\ UNCHANGED <<flags, odd>> /\ MainOnly

\* The REST server starts ...
StartHttp ==
  /\ at["main"] = "http"
  /\ at' = [at EXCEPT !["main"] = "autostart", !["rest"] = "idle"]
  /\ UNCHANGED <<chain, file, flags, status, past>> /\ MainOnly

\* Assigning a new thread to _mineThread: if that still holds a thread that
\* was not joined, std::terminate is called.
AssignMineThread(t, place) ==
  IF at["mine"] = "off"
    THEN at' = [at EXCEPT ![t] = place, !["mine"] = "loop"] /\ UNCHANGED status
    ELSE status' = "terminated" /\ UNCHANGED at

\* ... and mining, if mining.autostart is set; if not, _miningDone is set.
Autostart ==
  /\ at["main"] = "autostart"
  /\ \/ AssignMineThread("main", "wait") /\ UNCHANGED done
     \/ Goes("main", "wait") /\ done' = TRUE /\ UNCHANGED status
  /\ UNCHANGED <<chain, file, keep, exit, past>> /\ MainOnly

\* while (!_done) yield; then ~MinerApp.
LeaveRun ==
  /\ at["main"] = "wait"
  /\ exit
  /\ Goes("main", "join")
  /\ UNCHANGED <<chain, file, flags, status, past>> /\ MainOnly

\* The mining thread is joined, if there is one to join.
DestructorJoins ==
  /\ at["main"] = "join"
  /\ at["mine"] \in {"off", "exited"}
  /\ at' = [at EXCEPT !["main"] = "joined", !["mine"] = "off"]
  /\ UNCHANGED <<chain, file, flags, status, past>> /\ MainOnly

\* The REST server is stopped and takes no more requests ...
DestructorStopsHttp ==
  /\ at["main"] = "joined"
  /\ Goes("main", "stop_http")
  /\ UNCHANGED <<chain, file, flags, status, past>> /\ MainOnly

\* ... and joined, when the request it serves is done.
DestructorJoinsHttp ==
  /\ at["main"] = "stop_http"
  /\ at["rest"] = "idle"
  /\ at' = [at EXCEPT !["main"] = "members", !["rest"] = "off"]
  /\ UNCHANGED <<chain, file, flags, status, past>> /\ MainOnly

\* The members are destroyed in reverse: _logger, _mineThread (a thread that was
\* not joined ends the process), _miner ...
DestroyMembers ==
  /\ at["main"] = "members"
  /\ IF at["mine"] = "off"
       THEN Goes("main", "peers") /\ UNCHANGED status
       ELSE status' = "terminated" /\ UNCHANGED at
  /\ UNCHANGED <<chain, file, flags, past>> /\ MainOnly

\* ... _peers, which waits for the WebSocket threads (see PeerManager), and
\* after it the chains, the mutex and the database.
DestroyPeers ==
  /\ at["main"] = "peers"
  /\ \A t \in Ws : at[t] = "idle"
  /\ at' = [t \in Threads |-> IF t \in Ws \cup {"main"} THEN "off" ELSE at[t]]
  /\ status' = "ended"
  /\ UNCHANGED <<chain, file, flags, past>> /\ MainOnly

-------------------------------------------------------------------------------
(* The mining thread.                                                        *)

\* while (!_miningDone && !_done).
MineLoop ==
  /\ at["mine"] = "loop"
  /\ Goes("mine", IF done \/ exit THEN "exited" ELSE "template")
  /\ UNCHANGED <<chain, temp, file, flags, lock, work, status, count, past>>

\* createUnminedBlock, under the mutex.
Template ==
  /\ at["mine"] = "template"
  /\ lock = Nobody
  /\ chain # <<>>
  /\ work' = UnminedBlock(chain, 1)
  /\ Goes("mine", "enter")
  /\ UNCHANGED <<chain, temp, file, flags, lock, status, count, past>>

\* The same without a chain: back() of an empty vector.
TemplateOfNothing ==
  /\ at["mine"] = "template"
  /\ lock = Nobody
  /\ chain = <<>>
  /\ status' = "undefined"
  /\ UNCHANGED <<chain, temp, file, flags, at, lock, work, count, past>>

\* mineBlock sets _keepTrying, whatever was asked for before.
EnterMineBlock ==
  /\ at["mine"] = "enter"
  /\ keep' = TRUE
  /\ Goes("mine", "mining")
  /\ UNCHANGED <<chain, temp, file, done, exit, lock, work, status, count, past>>

\* mineBlock returns SUCCESS.  A search that is the last one, or that an update
\* waits for, is not bounded.
Found ==
  /\ at["mine"] = "mining"
  /\ keep
  /\ Counts("mined", IF done \/ exit \/ temp # <<>> THEN count["mined"] + 1 ELSE MaxMined)
  /\ work' = MinedBlock(work, <<"mined", count["mined"] + 1>>, 0)
  /\ Goes("mine", "add")
  /\ UNCHANGED <<chain, temp, file, flags, lock, status, past>>

\* mineBlock returns ABORT: _keepTrying was cleared, or the callback saw an
\* update that reaches the block.  The payments are queued again, under the
\* mutex (see Ledger).
AbortMining ==
  /\ at["mine"] = "mining"
  /\ lock = Nobody
  /\ \/ ~keep
     \/ temp # <<>> /\ back(temp).index >= work.index
  /\ work' = NoBlock
  /\ Goes("mine", "sync")
  /\ UNCHANGED <<chain, temp, file, flags, lock, status, count, past>>

\* addNewBlock of the block found, without the mutex.
AddMined ==
  /\ at["mine"] = "add"
  /\ chain' = addNewBlock(chain, work)
  /\ IF chain' # chain
       THEN Goes("mine", "write") /\ UNCHANGED done
       ELSE Goes("mine", "exited") /\ done' = TRUE
  /\ UNCHANGED <<temp, file, keep, exit, lock, work, status, count, past>>

\* _database->write, without the mutex.
WriteMined ==
  /\ at["mine"] = "write"
  /\ file' = Appended(file, <<work>>)
  /\ Goes("mine", "sync")
  /\ UNCHANGED <<chain, temp, flags, lock, work, status, count, past>>

\* broadcastNewBlock, under the mutex; the message is ChainSync's.
Broadcast ==
  /\ at["mine"] = "broadcast"
  /\ lock = Nobody
  /\ Goes("mine", "loop")
  /\ UNCHANGED <<chain, temp, file, flags, lock, work, status, count, past>>

-------------------------------------------------------------------------------
(* syncBlockchain, by the mining thread or a WebSocket thread t.             *)

\* Where t goes on: a block found is announced if nothing was applied.
Returns(t, applied) ==
  Goes(t, IF t \in Ws THEN "idle"
          ELSE IF work # NoBlock /\ ~applied THEN "broadcast" ELSE "loop")

\* No update, or one too far ahead.
SyncNothing(t) ==
  /\ at[t] = "sync"
  /\ lock = Nobody
  /\ temp # <<>> => front(temp).index > back(chain).index + 1
  /\ temp' = <<>>
  /\ Returns(t, FALSE)
  /\ UNCHANGED <<chain, file, flags, lock, work, status, count, past>>

\* The mutex is taken and the case is decided.
SyncBegin(t) ==
  /\ at[t] = "sync"
  /\ lock = Nobody
  /\ temp # <<>>
  /\ front(temp).index <= back(chain).index + 1
  /\ lock' = t
  /\ Goes(t, IF front(temp).index = back(chain).index + 1 THEN "append" ELSE "replace")
  /\ UNCHANGED <<chain, temp, file, flags, work, status, count, past>>

\* Faulty variant: the blocks are added in memory only.
SyncAppendNoWrite(t) ==
  /\ at[t] = "append"
  /\ chain' = AddBlocks(chain, temp)
  /\ temp' = <<>>
  /\ lock' = Nobody
  /\ Returns(t, TRUE)
  /\ UNCHANGED <<file, flags, work, status, count, past>>

\* The blocks are added and each one that was added is written.
SyncAppend(t) ==
  /\ at[t] = "append"
  /\ chain' = AddBlocks(chain, temp)
  /\ file' = Appended(file, SubSeq(chain', Len(chain) + 1, Len(chain')))
  /\ temp' = <<>>
  /\ lock' = Nobody
  /\ Returns(t, TRUE)
  /\ UNCHANGED <<flags, work, status, count, past>>

\* Faulty variant: the update is cleared before it is swapped in.
SyncReplaceCleared(t) ==
  /\ at[t] = "replace"
  /\ chain' = IF front(temp).index = 0 THEN <<>>
              ELSE AddBlocks(resize(chain, front(temp).index), temp)
  /\ Goes(t, "reset")
  /\ UNCHANGED <<temp, file, flags, lock, work, status, count, past>>

\* The chain is swapped, or cut and added to.
SyncReplace(t) ==
  /\ at[t] = "replace"
  /\ chain' = IF front(temp).index = 0 THEN temp
              ELSE AddBlocks(resize(chain, front(temp).index), temp)
  /\ Goes(t, "reset")
  /\ UNCHANGED <<temp, file, flags, lock, work, status, count, past>>

\* Faulty variant: the file is not removed.
SyncResetNot(t) ==
  /\ at[t] = "reset"
  /\ Goes(t, "rewrite")
  /\ UNCHANGED <<chain, temp, file, flags, lock, work, status, count, past>>

\* _database->reset().
SyncReset(t) ==
  /\ at[t] = "reset"
  /\ file' = NoFile
  /\ Goes(t, "rewrite")
  /\ UNCHANGED <<chain, temp, flags, lock, work, status, count, past>>

\* Faulty variant: the mutex is not given back.
SyncRewriteNoUnlock(t) ==
  /\ at[t] = "rewrite"
  /\ file' = Appended(file, chain)
  /\ temp' = <<>>
  /\ Returns(t, TRUE)
  /\ UNCHANGED <<chain, flags, lock, work, status, count, past>>

\* _database->writeChain, and the update is gone.
SyncRewrite(t) ==
  /\ at[t] = "rewrite"
  /\ file' = Appended(file, chain)
  /\ temp' = <<>>
  /\ lock' = Nobody
  /\ Returns(t, TRUE)
  /\ UNCHANGED <<chain, flags, work, status, count, past>>

-------------------------------------------------------------------------------
(* The WebSocket threads.                                                    *)

\* The k-th update: len blocks of a peer on top of the first `start' blocks of
\* c, from a genesis block of its own if start is 0.
PeerBlock(k, index, prev) ==
  [ index |-> index, prev |-> prev, hash |-> <<"peer", k, index>>,
    difficulty |-> 1, time |-> 0, sealed |-> TRUE ]
Update(k, c, start, len) ==
  [i \in 1..len |->
     IF start = 0 /\ i = 1 THEN Genesis(k)
     ELSE PeerBlock(k, start + i - 1,
                    IF i > 1 THEN IF start = 0 /\ i = 2 THEN Genesis(k).hash
                                  ELSE <<"peer", k, start + i - 2>>
                    ELSE c[start].hash)]

\* Any message that is handled while there is no chain to compare with: the
\* front() of an empty vector.
MessageWithoutChain(t) ==
  /\ at[t] = "idle"
  /\ chain = <<>>
  /\ status' = "undefined"
  /\ UNCHANGED <<chain, temp, file, flags, at, lock, work, count, past>>

\* A message that is handled after _logger is destroyed may be the end of the
\* process, or go well.
MessageWithoutLogger(t) ==
  /\ at[t] = "idle"
  /\ at["main"] = "peers"
  /\ status' = "undefined"
  /\ UNCHANGED <<chain, temp, file, flags, at, lock, work, count, past>>

\* handleResponse of a 'chain' message: the update is kept, under the mutex.  It
\* is not compared with the chain but for the block it follows: it may be longer,
\* shorter, or an old one.
ReceiveUpdate(t) ==
  /\ at[t] = "idle"
  /\ lock = Nobody
  /\ chain # <<>>
  /\ Counts("updates", MaxUpdates)
  /\ \E start \in 0..Len(chain) : \E len \in 1..2 :
       temp' = Update(count["updates"] + 1, chain, start, len)
  /\ Goes(t, "check")
  /\ UNCHANGED <<chain, file, flags, lock, work, status, past>>

\* Faulty variants: the mining thread is left to sync; it is not asked for.
CheckMiningNever(t) ==
  /\ at[t] = "check"
  /\ Goes(t, "idle")
  /\ UNCHANGED <<chain, temp, file, flags, lock, work, status, count, past>>
CheckMiningNot(t) ==
  /\ at[t] = "check"
  /\ Goes(t, "sync")
  /\ UNCHANGED <<chain, temp, file, flags, lock, work, status, count, past>>

\* The end of handleResponse: a node that does not mine syncs at once.
CheckMining(t) ==
  /\ at[t] = "check"
  /\ Goes(t, IF done THEN "sync" ELSE "idle")
  /\ UNCHANGED <<chain, temp, file, flags, lock, work, status, count, past>>

-------------------------------------------------------------------------------
(* What is read without the mutex.                                           *)

Readers == Ws \cup {"rest"}

\* The requests "summary" and "chain", the response "summary" and the pages that
\* show the chain read it, or the waiting update, without the mutex.
BeginRead(t) ==
  /\ at[t] = "idle"
  /\ at["main"] # IF t \in Ws THEN "peers" ELSE "stop_http"
  /\ chain # <<>>
  /\ Goes(t, "read")
  /\ UNCHANGED <<chain, temp, file, flags, lock, work, status, count, past>>

\* They have what they need: a response goes on to the end of handleResponse.
EndRead(t) ==
  /\ at[t] = "read"
  /\ Goes(t, "idle") \/ (t \in Ws /\ Goes(t, "check"))
  /\ UNCHANGED <<chain, temp, file, flags, lock, work, status, count, past>>

\* Thread t is at a step that changes the chain or the waiting update.
Changes(t) ==
  \/ at[t] \in {"add", "append", "replace", "rewrite"}
  \/ t \in Ws /\ at[t] = "idle" /\ lock = Nobody /\ count["updates"] < MaxUpdates

\* A thread reads, or adds the block it mined, without the mutex while another one
\* changes the same: that may go well, or be the end.
Race ==
  /\ \E t, u \in Threads : t # u /\ at[t] \in {"read", "add"} /\ Changes(u)
  /\ status' = "undefined"
  /\ UNCHANGED <<chain, temp, file, flags, at, lock, work, count, past>>

-------------------------------------------------------------------------------
(* The REST thread.                                                          *)

\* GET /rest/startMining.
StartMining ==
  /\ at["rest"] = "idle"
  /\ at["main"] # "stop_http"
  /\ done
  /\ Counts("starts", MaxStarts)
  /\ done' = FALSE
  /\ AssignMineThread("rest", "idle")
  /\ odd' = odd \cup {r \in {"late_start"} : exit}
  /\ UNCHANGED <<chain, temp, file, keep, exit, lock, work, dead>>

\* Faulty variant: the thread is not joined.
StopMiningNoJoin ==
  /\ at["rest"] = "idle"
  /\ at["main"] # "stop_http"
  /\ ~done
  /\ Counts("stops", MaxStops)
  /\ done' = TRUE
  /\ keep' = FALSE
  /\ odd' = odd \cup {r \in {"early_stop"} : at["main"] = "autostart"}
  /\ UNCHANGED <<chain, temp, file, exit, at, lock, work, status, dead>>

\* GET /rest/stopMining: the flags are set ...
StopMining ==
  /\ at["rest"] = "idle"
  /\ at["main"] # "stop_http"
  /\ ~done
  /\ Counts("stops", MaxStops)
  /\ done' = TRUE
  /\ keep' = FALSE
  /\ odd' = odd \cup {r \in {"early_stop"} : at["main"] = "autostart"}
  /\ Goes("rest", "join")
  /\ UNCHANGED <<chain, temp, file, exit, lock, work, status, dead>>

\* Faulty variant: joinable() is not asked.
JoinMineThreadUnasked ==
  /\ at["rest"] = "join"
  /\ at["mine"] = "exited"
  /\ at' = [at EXCEPT !["rest"] = "idle", !["mine"] = "off"]
  /\ UNCHANGED <<chain, temp, file, flags, lock, work, status, count, past>>

\* ... and the thread is joined, if there is one to join.
JoinMineThread ==
  /\ at["rest"] = "join"
  /\ at["mine"] \in {"off", "exited"}
  /\ at' = [at EXCEPT !["rest"] = "idle", !["mine"] = "off"]
  /\ UNCHANGED <<chain, temp, file, flags, lock, work, status, count, past>>

\* A start and a stop request during shutdown: stopMining and ~MinerApp join the
\* same thread, which is undefined.
JoinTwice ==
  /\ at["rest"] = "join"
  /\ at["main"] = "join"
  /\ at["mine"] # "off"
  /\ status' = "undefined"
  /\ UNCHANGED <<chain, temp, file, flags, at, lock, work, count, past>>

\* Faulty variant: _done is not set.
ShutdownOnlyStops ==
  /\ at["rest"] = "idle"
  /\ at["main"] # "stop_http"
  /\ Counts("shutdowns", MaxShutdowns)
  /\ done' = TRUE
  /\ keep' = FALSE
  /\ UNCHANGED <<chain, temp, file, exit, at, lock, work, status, past>>

\* GET /rest/shutdown: signalExit.
Shutdown ==
  /\ at["rest"] = "idle"
  /\ at["main"] # "stop_http"
  /\ Counts("shutdowns", MaxShutdowns)
  /\ done' = TRUE
  /\ keep' = FALSE
  /\ exit' = TRUE
  /\ UNCHANGED <<chain, temp, file, at, lock, work, status, past>>

-------------------------------------------------------------------------------
(* Crashes.                                                                  *)

\* The file operation thread t is about to do, cut short.
CrashFiles(t) ==
  CASE at[t] = "write"   -> PartlyAppended(file, <<work>>)
    [] at[t] = "append"  -> PartlyAppended(file, temp)
    [] at[t] = "rewrite" -> PartlyAppended(file, chain)
    [] at[t] = "initialize" /\ ~file.exists
         -> PartlyAppended(file, Loaded(file, MaxUpdates + 1 + count["crashes"]))
    [] OTHER             -> {file}

\* The process ends; what a thread was about to write may be written in part.
Crash ==
  /\ status = "up"
  /\ Counts("crashes", MaxCrashes)
  /\ \E t \in Threads : file' \in CrashFiles(t)
  /\ status' = "down"
  /\ dead' = IF at["main"] = "initialize" THEN dead
             ELSE [chain |-> chain, temp |-> temp, doing |-> {at[t] : t \in Threads}]
  /\ UNCHANGED <<chain, temp, flags, at, lock, work, odd>>

-------------------------------------------------------------------------------
(* The specification.                                                        *)

Sync(t) ==
  SyncNothing(t) \/ SyncBegin(t) \/ SyncAppend(t)
    \/ SyncReplace(t) \/ SyncReset(t) \/ SyncRewrite(t)
MineThread ==
  MineLoop \/ Template \/ TemplateOfNothing \/ EnterMineBlock \/ AbortMining \/ AddMined \/ WriteMined
    \/ Broadcast \/ Sync("mine")
WsThread(t) == CheckMining(t) \/ EndRead(t) \/ Sync(t)
RestThread == JoinMineThread \/ EndRead("rest")

MainThread ==
  \/ Initialize \/ StartHttp \/ Autostart
  \/ LeaveRun \/ DestructorJoins \/ DestructorStopsHttp \/ DestructorJoinsHttp
  \/ DestroyMembers \/ DestroyPeers

Message(t) == ReceiveUpdate(t) \/ MessageWithoutChain(t) \/ MessageWithoutLogger(t)

Running == status = "up"

Next ==
  \/ Launch
  \/ Running /\ MainThread
  \/ Running /\ (MineThread \/ Found)
  \/ Running /\ \E t \in Ws : WsThread(t) \/ Message(t)
  \/ Running /\ (RestThread \/ StartMining \/ StopMining \/ JoinTwice \/ Shutdown)
  \/ Running /\ ((\E t \in Readers : BeginRead(t)) \/ Race)
  \/ Crash

Spec == Init /\ [][Next]_vars

\* The threads run and a nonce is found in the end.
Fairness ==
  /\ WF_vars(Running /\ MainThread)
  /\ WF_vars(Running /\ MineThread)
  /\ WF_vars(Running /\ Found)
  /\ \A t \in Ws : WF_vars(Running /\ WsThread(t))
  /\ WF_vars(Running /\ RestThread)

FairSpec == Spec /\ Fairness

-------------------------------------------------------------------------------
(* Properties.                                                               *)

\* Where the threads are, and a thread holds the mutex just while it applies an
\* update.
Positions ==
  /\ odd \subseteq {"early_stop", "late_start"}
  /\ at["main"] \in {"off", "initialize", "http", "autostart", "wait", "join", "joined", "stop_http",
                     "members", "peers"}
  /\ at["mine"] \in {"off", "loop", "template", "enter", "mining", "add", "write", "sync",
                     "append", "replace", "reset", "rewrite", "broadcast", "exited"}
  /\ \A t \in Ws :
       at[t] \in {"off", "idle", "read", "check", "sync", "append", "replace", "reset", "rewrite"}
  /\ at["rest"] \in {"off", "idle", "read", "join"}
  /\ lock \in Ws \cup {"mine", Nobody}
  /\ \A t \in Threads : lock = t <=> at[t] \in {"append", "replace", "reset", "rewrite"}
  /\ status \in {"up", "down", "ended", "invalid_chain", "terminated", "undefined"}

\* Every variable holds a value of its kind.
TypeOK ==
  /\ \A c \in {chain, temp, file.blocks} : \A i \in DOMAIN c : c[i].index \in Nat
  /\ {file.exists, file.cut, done, keep, exit} \subseteq BOOLEAN
  /\ Positions

\* Whenever no thread is between a change of the chain and the file operation
\* that belongs to it, chain.ashdb holds exactly the chain: a restart finds what
\* the node had.  The one exception comes from a crash while the first record of
\* a file was written: the next process takes what is there of it for its chain,
\* and what it writes behind that nobody can read.
Storing == lock # Nobody \/ at["mine"] = "write" \/ at["main"] = "initialize"
FileMirrorsChain ==
  status \in {"up", "ended"} /\ ~Storing =>
    \/ file = FileOf(chain)
    \/ TornFirst(file) /\ count["crashes"] > 0

\* What a crash can cost.  With no file operation under way the node comes back
\* with its chain.  If it does come back after a crash in the middle of adding
\* blocks to the file, it has everything the file had before, and nothing but
\* blocks it was adding.  Only while the file is being replaced can the chain be
\* lost, and with a file whose first record is torn.
Grown(c, longest, d) ==
  \E k \in Len(c)..Len(longest) : d = SubSeq(longest, 1, k)
CrashKeepsChain ==
  [][dead # NoCrash /\ dead' = NoCrash /\ ~TornFirst(file) =>
       /\ dead.doing \cap {"write", "append", "reset", "rewrite"} = {}
            => status' = "up" /\ chain' = dead.chain
       /\ "write" \in dead.doing /\ status' = "up"
            => Grown(SubSeq(dead.chain, 1, Len(dead.chain) - 1), dead.chain, chain')
       /\ "append" \in dead.doing /\ status' = "up"
            => Grown(dead.chain, AddBlocks(dead.chain, dead.temp), chain')]_vars

\* A node has a chain from initialize on: swapping in an update, cutting the chain
\* back and adding to it never leave it empty, for a reader or for the next block,
\* not even while the update is being applied.  Only a crash in the middle of
\* replacing the file can make the next process start with none.
NeverEmpty ==
  status = "up" /\ chain = <<>> =>
    \/ at["main"] = "initialize"
    \/ count["crashes"] > 0 /\ file = FileOf(<<>>)

\* The mining thread adds its block and writes it without the mutex.  What keeps it
\* apart from the threads that apply an update is _miningDone alone: as long as
\* mining is neither started nor stopped by a request, a WebSocket thread applies
\* updates only in a node that does not mine.
Applying(t) == at[t] \in {"append", "replace", "reset", "rewrite"}
MinesApart ==
  at["mine"] \in {"add", "write"} /\ (\E t \in Ws : Applying(t)) =>
    count["starts"] + count["stops"] + count["shutdowns"] > 0

\* std::terminate is called for a mining thread that nobody joined.  That takes a
\* thread that gave up by itself over a block that the chain refused because an
\* update was applied in between, a stop request that was served before run()
\* started the thread, or a start request during shutdown.  However start and
\* stop requests, updates and aborts mix otherwise, a thread that ended was joined.
Refused ==
  at["mine"] = "exited" /\ work # NoBlock /\ \A i \in DOMAIN chain : chain[i] # work
TerminatesOnlyAfterRefusal == status = "terminated" => Refused \/ odd # {}

\* An update that reaches a node that has started is applied or given up, by a
\* WebSocket thread or by the mining thread.  It is left waiting only by a stop
\* request that came after the WebSocket thread had looked at _miningDone, when the
\* mining thread was past its last look at the update, too: then nobody looks at it
\* again before the next response or start.
Abandoned ==
  /\ count["stops"] > 0
  /\ at["mine"] \in {"off", "exited"}
  /\ \A t \in Ws : at[t] \in {"idle", "read"}
UpdatesApplied ==
  \A t \in Ws :
    at[t] = "check" /\ at["main"] = "wait" ~> temp = <<>> \/ Abandoned \/ status # "up"

\* stopMining, which waits for the mining thread, returns: the thread sees
\* _miningDone even if mineBlock overwrote the abort.
StopReturns == at["rest"] = "join" ~> at["rest"] = "idle" \/ status # "up"

\* A process that was told to shut down ends: every thread that ~MinerApp and the
\* members' destructors wait for comes to an end, whatever requests and updates
\* arrive until then.
ShutdownEnds == count["shutdowns"] > 0 ~> status # "up"
===============================================================================
