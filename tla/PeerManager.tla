------------------------------ MODULE PeerManager ------------------------------
(***************************************************************************)
(* The threads of PeerManager (src/PeerManager.cpp, src/PeerManager.h):    *)
(* one client thread per peer with its callbacks, the reconnect worker and *)
(* its timer, the mining thread in broadcast, the thread of the WebSocket  *)
(* server, and the main thread, which starts them and destroys them.       *)
(* _peerMutex is taken where the code takes it; broadcast does not take it.*)
(*                                                                         *)
(* The WebSocket library is external.  What is used of it: start() of a    *)
(* client connects and runs the callbacks of its connection one at a time; *)
(* on_error or on_close is the last; stop() makes start() return when the  *)
(* callback that is running is done, and is lost on a client that was not  *)
(* started yet; a handshake ends, at the latest by config.timeout_request. *)
(***************************************************************************)
EXTENDS Naturals, FiniteSets

CONSTANTS
  PeersFile   \* the lines of the peers file, or {} if there is none

Nobody == "nobody"
Main == "main"
Reconnect == "reconnect"
ASSUME PeersFileAssumption ==
  IsFiniteSet(PeersFile) /\ PeersFile \cap {Nobody, Main, Reconnect} = {}

VARIABLES
  peers,    \* the keys of _peers
  state,    \* PeerData::state
  conn,     \* PeerData::connection: "null", or the "open" or "closed" one it points to
  worker,   \* PeerData::worker: where the client thread of each peer is
  stopped,  \* the client of a peer was stopped
  lock,     \* who holds _peerMutex
  timer,    \* where the reconnect worker is: [at, peer, todo]
  cast,     \* where the mining thread is in broadcast: [at, peer, todo]
  server,   \* the thread of the WebSocket server
  main,     \* where the main thread is: [at, peer, todo]
  missed    \* peers whose client was stopped before it was started (history)

vars == <<peers, state, conn, worker, stopped, lock, timer, cast, server, main, missed>>

NoPeer == "none"
At(place) == [at |-> place, peer |-> NoPeer, todo |-> {}]
AtPeer(place, p, todo) == [at |-> place, peer |-> p, todo |-> todo]

Init ==
  /\ peers = {}
  /\ state = [p \in PeersFile |-> "OFFLINE"]
  /\ conn = [p \in PeersFile |-> "null"]
  /\ worker = [p \in PeersFile |-> "none"]
  /\ stopped = [p \in PeersFile |-> FALSE]
  /\ lock = Nobody
  /\ timer = At("none")
  /\ cast = At("idle")
  /\ server = "none"
  /\ main = At("initWebSocketServer")
  /\ missed = {}

-------------------------------------------------------------------------------
(* Starting.                                                                 *)

InitWebSocketServer ==
  /\ main.at = "initWebSocketServer"
  /\ server' = "listening"
  /\ main' = At("loadPeers")
  /\ UNCHANGED <<peers, state, conn, worker, stopped, lock, timer, cast, missed>>

LoadPeers ==
  /\ main.at = "loadPeers"
  /\ peers' = PeersFile
  /\ main' = At("connectAll")
  /\ UNCHANGED <<state, conn, worker, stopped, lock, timer, cast, server, missed>>

\* createClient of every peer in ps, once their old threads are joined: a new
\* client that is connecting, and a thread to run it.
createClient(ps) ==
  /\ state' = [p \in PeersFile |-> IF p \in ps THEN "CONNECTING" ELSE state[p]]
  /\ worker' = [p \in PeersFile |-> IF p \in ps THEN "new" ELSE worker[p]]
  /\ stopped' = [p \in PeersFile |-> stopped[p] /\ p \notin ps]

\* Every peer gets a client, under the mutex, and the reconnect worker starts.
ConnectAll ==
  /\ main.at = "connectAll"
  /\ lock = Nobody
  /\ createClient(peers)
  /\ timer' = At("wait")
  /\ main' = At("run")
  /\ UNCHANGED <<peers, conn, lock, cast, server, missed>>

-------------------------------------------------------------------------------
(* The client thread of peer p.                                              *)

Goes(p, place) == worker' = [worker EXCEPT ![p] = place]
ThreadOnly == UNCHANGED <<peers, state, conn, stopped, lock, timer, cast, server, main, missed>>

\* client->start().
Start(p) ==
  /\ worker[p] = "new"
  /\ Goes(p, "connecting")
  /\ ThreadOnly

\* The handshake succeeds; on_open is called.
Opened(p) ==
  /\ worker[p] = "connecting"
  /\ ~stopped[p]
  /\ Goes(p, "on_open")
  /\ ThreadOnly

\* The connection is refused, times out, fails or is closed; on_error or
\* on_close is called.
Lost(p, where) ==
  /\ worker[p] = where
  /\ ~stopped[p]
  /\ Goes(p, "on_close")
  /\ conn' = [conn EXCEPT ![p] = IF @ = "open" THEN "closed" ELSE @]
  /\ UNCHANGED <<peers, state, stopped, lock, timer, cast, server, main, missed>>

\* on_open takes the mutex and lets the old connection go ...
OnOpen(p) ==
  /\ worker[p] = "on_open"
  /\ lock = Nobody
  /\ lock' = p
  /\ conn' = [conn EXCEPT ![p] = "null"]
  /\ Goes(p, "opening")
  /\ UNCHANGED <<peers, state, stopped, timer, cast, server, main, missed>>

\* Faulty variant: the mutex is not given back.
OnOpenDoneNoUnlock(p) ==
  /\ worker[p] = "opening"
  /\ conn' = [conn EXCEPT ![p] = "open"]
  /\ state' = [state EXCEPT ![p] = "CONNECTED"]
  /\ Goes(p, "open")
  /\ UNCHANGED <<peers, stopped, lock, timer, cast, server, main, missed>>

\* ... keeps the new one, and asks for a summary.
OnOpenDone(p) ==
  /\ worker[p] = "opening"
  /\ conn' = [conn EXCEPT ![p] = "open"]
  /\ state' = [state EXCEPT ![p] = "CONNECTED"]
  /\ lock' = Nobody
  /\ Goes(p, "open")
  /\ UNCHANGED <<peers, stopped, timer, cast, server, main, missed>>

\* Faulty variants: the state stays as it is; the connection is let go.
OnCloseKeepsState(p) ==
  /\ worker[p] = "on_close"
  /\ lock = Nobody
  /\ stopped' = [stopped EXCEPT ![p] = TRUE]
  /\ Goes(p, "leaving")
  /\ UNCHANGED <<peers, state, conn, lock, timer, cast, server, main, missed>>
OnCloseResets(p) ==
  /\ worker[p] = "on_close"
  /\ lock = Nobody
  /\ stopped' = [stopped EXCEPT ![p] = TRUE]
  /\ state' = [state EXCEPT ![p] = "OFFLINE"]
  /\ conn' = [conn EXCEPT ![p] = "null"]
  /\ Goes(p, "leaving")
  /\ UNCHANGED <<peers, lock, timer, cast, server, main, missed>>

\* on_error and on_close: under the mutex the client is stopped and the peer
\* is OFFLINE.  The connection is kept.
OnClose(p) ==
  /\ worker[p] = "on_close"
  /\ lock = Nobody
  /\ stopped' = [stopped EXCEPT ![p] = TRUE]
  /\ state' = [state EXCEPT ![p] = "OFFLINE"]
  /\ Goes(p, "leaving")
  /\ UNCHANGED <<peers, conn, lock, timer, cast, server, main, missed>>

\* on_message: MinerApp's handler runs, without _peerMutex ...
OnMessage(p) ==
  /\ worker[p] = "open"
  /\ ~stopped[p]
  /\ Goes(p, "on_message")
  /\ ThreadOnly

\* ... and needs _chainMutex, which the mining thread holds while it
\* broadcasts.
OnMessageDone(p) ==
  /\ worker[p] = "on_message"
  /\ cast.at = "idle"
  /\ Goes(p, "open")
  /\ ThreadOnly

\* start() returns.
Finish(p) ==
  /\ worker[p] = "leaving" \/ (worker[p] \in {"connecting", "open"} /\ stopped[p])
  /\ Goes(p, "finished")
  /\ ThreadOnly

-------------------------------------------------------------------------------
(* The reconnect worker.                                                     *)

TimerOnly == UNCHANGED <<peers, conn, cast, server, main, missed>>

\* The timer has run down.  Only here does the worker look at _shutdown, which
\* the destructor has set if it is under way.
TimerFires ==
  /\ timer.at = "wait"
  /\ timer' = At(IF main.at = "run" THEN "callback" ELSE "finished")
  /\ UNCHANGED <<state, worker, stopped, lock>> /\ TimerOnly

\* The callback takes the mutex.
ReconnectBegins ==
  /\ timer.at = "callback"
  /\ lock = Nobody
  /\ lock' = Reconnect
  /\ timer' = AtPeer("scan", NoPeer, peers)
  /\ UNCHANGED <<state, worker, stopped>> /\ TimerOnly

\* Faulty variant: peers that are connecting are connected to again.
ReconnectLooksAtNotConnected(p) ==
  /\ timer.at = "scan"
  /\ p \in timer.todo
  /\ timer' = IF state[p] # "CONNECTED" THEN AtPeer("join", p, timer.todo \ {p})
              ELSE AtPeer("scan", NoPeer, timer.todo \ {p})
  /\ UNCHANGED <<state, worker, stopped, lock>> /\ TimerOnly

\* A peer that is OFFLINE gets a new client ...
ReconnectLooksAt(p) ==
  /\ timer.at = "scan"
  /\ p \in timer.todo
  /\ timer' = IF state[p] = "OFFLINE" THEN AtPeer("join", p, timer.todo \ {p})
              ELSE AtPeer("scan", NoPeer, timer.todo \ {p})
  /\ UNCHANGED <<state, worker, stopped, lock>> /\ TimerOnly

\* ... when its old thread is joined; the mutex is held meanwhile.
ReconnectCreates(p) ==
  /\ timer.at = "join"
  /\ p = timer.peer
  /\ worker[p] \in {"none", "finished"}
  /\ createClient({p})
  /\ timer' = AtPeer("scan", NoPeer, timer.todo)
  /\ UNCHANGED lock /\ TimerOnly

\* All peers were looked at: the mutex is free and the timer set again.
ReconnectEnds ==
  /\ timer.at = "scan"
  /\ timer.todo = {}
  /\ lock' = Nobody
  /\ timer' = At("wait")
  /\ UNCHANGED <<state, worker, stopped>> /\ TimerOnly

-------------------------------------------------------------------------------
(* broadcast, by the mining thread under _chainMutex, without _peerMutex.    *)

CastOnly == UNCHANGED <<peers, state, conn, worker, stopped, lock, timer, server, main, missed>>

\* The mining thread, which run() starts last and ~MinerApp joins first, has
\* a block to announce.
BroadcastBegins ==
  /\ cast.at = "idle"
  /\ main.at = "run"
  /\ cast' = AtPeer("test", NoPeer, peers)
  /\ CastOnly

\* data.state == CONNECTED?
BroadcastTests(p) ==
  /\ cast.at = "test"
  /\ p \in cast.todo
  /\ cast' = IF state[p] = "CONNECTED" THEN AtPeer("send", p, cast.todo \ {p})
             ELSE AtPeer("test", NoPeer, cast.todo \ {p})
  /\ CastOnly

\* assert(data.connection) and send, which does nothing on a closed connection.
BroadcastSends(p) ==
  /\ cast.at = "send"
  /\ p = cast.peer
  /\ cast' = AtPeer("test", NoPeer, cast.todo)
  /\ CastOnly

BroadcastEnds ==
  /\ cast.at = "test"
  /\ cast.todo = {}
  /\ cast' = At("idle")
  /\ CastOnly

-------------------------------------------------------------------------------
(* The WebSocket server and the destructor.                                  *)

\* A message arrives at the server and is handled.
ServerMessage ==
  /\ server = "listening"
  /\ main.at # "join server"
  /\ server' = "on_message"
  /\ UNCHANGED <<peers, state, conn, worker, stopped, lock, timer, cast, main, missed>>

ServerMessageDone ==
  /\ server = "on_message"
  /\ cast.at = "idle"
  /\ server' = "listening"
  /\ UNCHANGED <<peers, state, conn, worker, stopped, lock, timer, cast, main, missed>>

MainOnly == UNCHANGED <<peers, state, conn, lock, cast>>

\* Faulty variant: the reconnect worker is not joined.
DestructorBeginsNoJoin ==
  /\ main.at = "run"
  /\ cast.at = "idle"
  /\ main' = AtPeer("stop", NoPeer, peers)
  /\ UNCHANGED <<worker, stopped, timer, server, missed>> /\ MainOnly

\* ~PeerManager, when ~MinerApp has joined the mining thread: _shutdown is set.
DestructorBegins ==
  /\ main.at = "run"
  /\ cast.at = "idle"
  /\ main' = At("join timer")
  /\ UNCHANGED <<worker, stopped, timer, server, missed>> /\ MainOnly

\* The reconnect worker is joined; this takes until its timer has run down.
JoinReconnect ==
  /\ main.at = "join timer"
  /\ timer.at = "finished"
  /\ main' = AtPeer("stop", NoPeer, peers)
  /\ UNCHANGED <<worker, stopped, timer, server, missed>> /\ MainOnly

\* Faulty variant: the client is not stopped.
StopClientNot(p) ==
  /\ main.at = "stop"
  /\ p \in main.todo
  /\ main' = AtPeer("join", p, main.todo \ {p})
  /\ UNCHANGED <<worker, stopped, timer, server, missed>> /\ MainOnly

\* client->stop(), without the mutex.  The client may not have been started.
StopClient(p) ==
  /\ main.at = "stop"
  /\ p \in main.todo
  /\ main' = AtPeer("join", p, main.todo \ {p})
  /\ stopped' = [stopped EXCEPT ![p] = @ \/ worker[p] # "new"]
  /\ missed' = IF worker[p] = "new" THEN missed \cup {p} ELSE missed
  /\ UNCHANGED <<worker, timer, server>> /\ MainOnly

JoinWorker(p) ==
  /\ main.at = "join"
  /\ p = main.peer
  /\ worker[p] = "finished"
  /\ main' = AtPeer("stop", NoPeer, main.todo)
  /\ UNCHANGED <<worker, stopped, timer, server, missed>> /\ MainOnly

\* The server is stopped: it takes no more messages ...
StopServer ==
  /\ main.at = "stop"
  /\ main.todo = {}
  /\ main' = At("join server")
  /\ UNCHANGED <<worker, stopped, timer, server, missed>> /\ MainOnly

\* ... and its thread is joined, when a handler that is running is done.
JoinServer ==
  /\ main.at = "join server"
  /\ server = "listening"
  /\ server' = "finished"
  /\ main' = At("destroyed")
  /\ UNCHANGED <<worker, stopped, timer, missed>> /\ MainOnly

-------------------------------------------------------------------------------
(* The specification.                                                        *)

\* The process ends.
Ended == main.at = "destroyed" /\ UNCHANGED vars

MainThread ==
  \/ InitWebSocketServer \/ LoadPeers \/ ConnectAll
  \/ JoinReconnect \/ StopServer \/ JoinServer
  \/ \E p \in PeersFile : StopClient(p) \/ JoinWorker(p)
Handshake(p) == Opened(p) \/ Lost(p, "connecting")
Callback(p) == OnOpen(p) \/ OnClose(p)
ClientThread(p) == Start(p) \/ OnOpenDone(p) \/ OnMessageDone(p) \/ Finish(p)
ReconnectThread ==
  \/ TimerFires \/ ReconnectEnds
  \/ \E p \in PeersFile : ReconnectLooksAt(p) \/ ReconnectCreates(p)
BroadcastStep ==
  \/ BroadcastEnds
  \/ \E p \in PeersFile : BroadcastTests(p) \/ BroadcastSends(p)

Next ==
  \/ MainThread
  \/ DestructorBegins
  \/ ReconnectThread \/ ReconnectBegins
  \/ BroadcastBegins \/ BroadcastStep
  \/ ServerMessage \/ ServerMessageDone
  \/ \E p \in PeersFile : \/ ClientThread(p) \/ Handshake(p) \/ Callback(p)
                          \/ Lost(p, "open") \/ OnMessage(p)
  \/ Ended

Spec == Init /\ [][Next]_vars

\* Every thread runs, the timer runs down and a handshake ends.  A thread that
\* waits for a mutex that others take and give back gets it in the end.
\* Nothing is assumed about connections being lost, messages or blocks.
Fairness ==
  /\ WF_vars(MainThread)
  /\ WF_vars(ReconnectThread)
  /\ SF_vars(ReconnectBegins)
  /\ WF_vars(BroadcastStep)
  /\ WF_vars(ServerMessageDone)
  /\ \A p \in PeersFile :
       /\ WF_vars(ClientThread(p))
       /\ WF_vars(Handshake(p))
       /\ SF_vars(Callback(p))

FairSpec == Spec /\ Fairness

-------------------------------------------------------------------------------
(* Properties.                                                               *)

Places == {"none", "new", "connecting", "on_open", "opening", "open", "on_message",
           "on_close", "leaving", "finished"}

Position(places) ==
  [at : places, peer : PeersFile \cup {NoPeer}, todo : SUBSET PeersFile]

MutexOwned ==
  /\ lock \in PeersFile \cup {Nobody, Reconnect}
  /\ \A p \in PeersFile : lock = p <=> worker[p] = "opening"
  /\ lock = Reconnect <=> timer.at \in {"scan", "join"}

\* Every variable holds a value of its kind, and _peerMutex is held by who is
\* inside on_open or the reconnect callback, and by nobody else.
TypeOK ==
  /\ peers \subseteq PeersFile
  /\ state \in [PeersFile -> {"OFFLINE", "CONNECTING", "CONNECTED"}]
  /\ conn \in [PeersFile -> {"null", "open", "closed"}]
  /\ worker \in [PeersFile -> Places]
  /\ stopped \in [PeersFile -> BOOLEAN]
  /\ missed \subseteq PeersFile
  /\ timer \in Position({"none", "wait", "callback", "scan", "join", "finished"})
  /\ cast \in Position({"idle", "test", "send"})
  /\ main \in Position({"initWebSocketServer", "loadPeers", "connectAll", "run", "join timer",
                        "stop", "join", "join server", "destroyed"})
  /\ server \in {"none", "listening", "on_message", "finished"}
  /\ MutexOwned

\* What makes the join in createClient safe, which runs with _peerMutex held: a
\* thread that is being joined there is past its last callback and takes the
\* mutex no more.  A callback that still had to come would wait for the reconnect
\* worker, which waits for it.
JoinsOnlyLeavers ==
  timer.at = "join" => worker[timer.peer] \in {"none", "leaving", "finished"}

\* The state of a peer tells the truth about its thread: a peer that is not
\* OFFLINE has a thread that will call on_open, on_error or on_close, so that it
\* cannot be forgotten in CONNECTING or CONNECTED; one thread at a time.
Closing == main.at \in {"stop", "join", "join server", "destroyed"}
StateTellsThread ==
  \A p \in peers :
    /\ state[p] = "CONNECTING"
         => worker[p] \in {"new", "connecting", "on_open", "opening", "on_close"} \/ Closing
    /\ state[p] = "CONNECTED"
         => worker[p] \in {"open", "on_message", "on_close"} \/ Closing
    /\ state[p] = "OFFLINE" => worker[p] \in {"none", "leaving", "finished"}

\* broadcast meets a null connection, against its assert, only in the window in
\* which on_open of that peer has let the old connection go and not yet kept the
\* new one; whatever else happened since it saw CONNECTED, there is one to send to.
NullOnlyWhileOpening ==
  cast.at = "send" /\ conn[cast.peer] = "null" => worker[cast.peer] = "opening"

\* When the destructor is through, no thread of the manager is left that could
\* touch what it destroys, also none the reconnect worker started while the
\* destructor ran.
DestroyedQuiet ==
  main.at = "destroyed" =>
    /\ timer.at = "finished" /\ server = "finished" /\ cast.at = "idle"
    /\ \A p \in peers : worker[p] = "finished"

\* A peer whose connection was lost or refused is tried again.
LostPeerRetried ==
  \A p \in PeersFile : worker[p] = "on_close" ~> (worker[p] = "new" \/ main.at # "run")

\* The destructor returns, unless a thread had not called start() yet when its
\* client was stopped: that stop is lost.
DestructorReturns == main.at = "join timer" ~> (main.at = "destroyed" \/ missed # {})
===============================================================================
