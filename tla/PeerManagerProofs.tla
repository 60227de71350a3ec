--------------------------- MODULE PeerManagerProofs ---------------------------
(***************************************************************************)
(* Proofs about PeerManager, for any number of peers: the type invariant,  *)
(* that the join under _peerMutex waits for nobody who needs the mutex,    *)
(* that states tell the truth about threads, that broadcast meets a null   *)
(* connection in one window only, and that the destructor leaves no thread *)
(* behind.                                                                 *)
(***************************************************************************)
EXTENDS PeerManager, TLAPS

-------------------------------------------------------------------------------
(* The inductive invariant.                                                  *)

\* Before connectAll there is nothing but the server; after it every peer of
\* the file has a client and a thread.
Starting == main.at \in {"initWebSocketServer", "loadPeers", "connectAll"}
StartedInOrder ==
  /\ main.at \in {"initWebSocketServer", "loadPeers"} => peers = {}
  /\ main.at \notin {"initWebSocketServer", "loadPeers"} => peers = PeersFile
  /\ Starting => /\ timer.at = "none" /\ cast.at = "idle"
                 /\ \A p \in PeersFile : worker[p] = "none" /\ state[p] = "OFFLINE"
  /\ ~Starting => timer.at # "none" /\ \A p \in PeersFile : worker[p] # "none"

\* What a client thread does agrees with the state of its peer, and a client is
\* stopped by its last callback or by the destructor only.
ThreadTellsState ==
  \A p \in PeersFile :
    /\ worker[p] \in {"new", "connecting", "on_open", "opening"} => state[p] = "CONNECTING"
    /\ worker[p] \in {"open", "on_message"} => state[p] = "CONNECTED"
    /\ worker[p] = "on_close" => state[p] # "OFFLINE"
    /\ stopped[p] => worker[p] \in {"leaving", "finished"} \/ Closing

\* The reconnect worker replaces the thread of a peer that is OFFLINE.
JoinsOffline ==
  timer.at = "join" => timer.peer \in PeersFile /\ state[timer.peer] = "OFFLINE"

\* A peer that is CONNECTED has a connection, and so has one that broadcast saw
\* CONNECTED, but for the window in on_open.
ConnectedHasConnection ==
  /\ \A p \in PeersFile : state[p] = "CONNECTED" => conn[p] # "null"
  /\ cast.at = "send" => /\ cast.peer \in PeersFile
                         /\ conn[cast.peer] = "null" => worker[cast.peer] = "opening"

\* The destructor waits for one thread after the other: the mining thread, the
\* reconnect worker, the clients and the server.
ClosedInOrder ==
  /\ main.at = "join timer" \/ Closing => cast.at = "idle"
  /\ Closing => timer.at = "finished"
  /\ main.at = "stop" => \A p \in PeersFile \ main.todo : worker[p] = "finished"
  /\ main.at = "join" => /\ main.peer \in PeersFile
                         /\ \A p \in PeersFile \ (main.todo \cup {main.peer}) :
                              worker[p] = "finished"
  /\ main.at \in {"join server", "destroyed"} => \A p \in PeersFile : worker[p] = "finished"
  /\ main.at = "destroyed" => server = "finished"

PeerInv ==
  /\ TypeOK
  /\ StartedInOrder
  /\ ThreadTellsState
  /\ StateTellsThread
  /\ JoinsOffline
  /\ ConnectedHasConnection
  /\ ClosedInOrder

-------------------------------------------------------------------------------
(* The steps.                                                                *)

\* The owners of the mutex are told apart.
LEMMA Names ==
  /\ Nobody # Reconnect
  /\ \A p \in PeersFile : p # Nobody /\ p # Reconnect
  BY PeersFileAssumption DEF Nobody, Reconnect, Main

\* The parts of the invariant, the mutex on its own.
LEMMA Parts ==
  PeerInv <=> /\ TypeOK /\ MutexOwned
              /\ StartedInOrder /\ ThreadTellsState /\ StateTellsThread
              /\ JoinsOffline /\ ConnectedHasConnection /\ ClosedInOrder
  BY DEF PeerInv, TypeOK

\* The server starts: no peer is known yet.
LEMMA InitWebSocketServerInv ==
  ASSUME PeerInv, InitWebSocketServer
  PROVE  PeerInv'
<1>1. /\ main.at = "initWebSocketServer"
      /\ main' = At("loadPeers")
      /\ server' = "listening"
  BY DEF InitWebSocketServer, PeerInv, TypeOK, Places
<1>2. UNCHANGED <<peers, state, conn, worker, stopped, lock, timer, cast, missed>>
  BY DEF InitWebSocketServer
<1>3. TypeOK /\ MutexOwned /\ StartedInOrder /\ ThreadTellsState /\ StateTellsThread
        /\ JoinsOffline /\ ConnectedHasConnection /\ ClosedInOrder
  BY Parts
<1>4. StartedInOrder'
  BY <1>1, <1>2, <1>3 DEF StartedInOrder, Starting, At, AtPeer
<1>5. ThreadTellsState'
  BY <1>1, <1>2, <1>3 DEF ThreadTellsState, Closing, At, AtPeer
<1>6. StateTellsThread'
  BY <1>1, <1>2, <1>3 DEF StateTellsThread, ThreadTellsState, StartedInOrder, Starting,
    Closing, At, AtPeer
<1>7. ClosedInOrder'
  BY <1>1, <1>2, <1>3 DEF ClosedInOrder, StartedInOrder, Starting, Closing, At, AtPeer
<1>8. MutexOwned' /\ JoinsOffline' /\ ConnectedHasConnection'
  BY <1>2, <1>3 DEF MutexOwned, JoinsOffline, ConnectedHasConnection
<1>9. TypeOK'
  BY <1>1, <1>2, <1>3, <1>8 DEF TypeOK, Position, At, AtPeer, NoPeer
<1> QED
  BY <1>4, <1>5, <1>6, <1>7, <1>8, <1>9 DEF PeerInv

\* The peers file is read: the peers are known and have no threads.
LEMMA LoadPeersInv ==
  ASSUME PeerInv, LoadPeers
  PROVE  PeerInv'
<1>1. /\ main.at = "loadPeers"
      /\ main' = At("connectAll")
      /\ peers' = PeersFile
  BY DEF LoadPeers, PeerInv, TypeOK, Places
<1>2. UNCHANGED <<state, conn, worker, stopped, lock, timer, cast, server, missed>>
  BY DEF LoadPeers
<1>3. TypeOK /\ MutexOwned /\ StartedInOrder /\ ThreadTellsState /\ StateTellsThread
        /\ JoinsOffline /\ ConnectedHasConnection /\ ClosedInOrder
  BY Parts
<1>4. StartedInOrder'
  BY <1>1, <1>2, <1>3 DEF StartedInOrder, Starting, At, AtPeer
<1>5. ThreadTellsState'
  BY <1>1, <1>2, <1>3 DEF ThreadTellsState, Closing, At, AtPeer
<1>6. StateTellsThread'
  BY <1>1, <1>2, <1>3 DEF StateTellsThread, ThreadTellsState, StartedInOrder, Starting,
    Closing, At, AtPeer
<1>7. ClosedInOrder'
  BY <1>1, <1>2, <1>3 DEF ClosedInOrder, StartedInOrder, Starting, Closing, At, AtPeer
<1>8. MutexOwned' /\ JoinsOffline' /\ ConnectedHasConnection'
  BY <1>2, <1>3 DEF MutexOwned, JoinsOffline, ConnectedHasConnection
<1>9. TypeOK'
  BY <1>1, <1>2, <1>3, <1>8 DEF TypeOK, Position, At, AtPeer, NoPeer
<1> QED
  BY <1>4, <1>5, <1>6, <1>7, <1>8, <1>9 DEF PeerInv

\* connectAll gives every peer a client and a thread at once.
LEMMA ConnectAllInv ==
  ASSUME PeerInv, ConnectAll
  PROVE  PeerInv'
<1>1. /\ main.at = "connectAll"
      /\ lock = Nobody
      /\ peers = PeersFile
      /\ main' = At("run")
      /\ timer' = At("wait")
      /\ state' \in [PeersFile -> {"OFFLINE", "CONNECTING", "CONNECTED"}]
      /\ \A q \in PeersFile : state'[q] = "CONNECTING"
      /\ worker' \in [PeersFile -> Places]
      /\ \A q \in PeersFile : worker'[q] = "new"
      /\ stopped' \in [PeersFile -> BOOLEAN]
      /\ \A q \in PeersFile : stopped'[q] = FALSE
  BY DEF ConnectAll, createClient, StartedInOrder, PeerInv, TypeOK, Places
<1>2. UNCHANGED <<peers, conn, lock, cast, server, missed>>
  BY DEF ConnectAll
<1>3. TypeOK /\ MutexOwned /\ StartedInOrder /\ ThreadTellsState /\ StateTellsThread
        /\ JoinsOffline /\ ConnectedHasConnection /\ ClosedInOrder
  BY Parts
<1>4. MutexOwned'
  BY <1>1, <1>2, <1>3, Names DEF MutexOwned, At, AtPeer
<1>5. StartedInOrder'
  BY <1>1, <1>2, <1>3 DEF StartedInOrder, Starting, At, AtPeer
<1>6. ThreadTellsState'
  BY <1>1, <1>2, <1>3 DEF ThreadTellsState, Closing, At, AtPeer
<1>7. StateTellsThread'
  BY <1>1, <1>2, <1>3 DEF StateTellsThread, ThreadTellsState, StartedInOrder, Starting,
    Closing, At, AtPeer
<1>8. JoinsOffline'
  BY <1>1, <1>2, <1>3, Names DEF JoinsOffline, MutexOwned, ThreadTellsState, At, AtPeer
<1>9. ConnectedHasConnection'
  BY <1>1, <1>2, <1>3, Names DEF ConnectedHasConnection, ThreadTellsState, MutexOwned, At,
    AtPeer
<1>10. ClosedInOrder'
  BY <1>1, <1>2, <1>3 DEF ClosedInOrder, StartedInOrder, Starting, Closing, At, AtPeer
<1>11. TypeOK'
  BY <1>1, <1>2, <1>3, <1>4 DEF TypeOK, Position, At, AtPeer, NoPeer
<1> QED
  BY <1>4, <1>5, <1>6, <1>7, <1>8, <1>9, <1>10, <1>11 DEF PeerInv

\* client->start(): the peer is CONNECTING already.
LEMMA StartInv ==
  ASSUME NEW p \in PeersFile, PeerInv, Start(p)
  PROVE  PeerInv'
<1>1. /\ worker[p] = "new"
      /\ worker' \in [PeersFile -> Places]
      /\ worker'[p] = "connecting"
      /\ \A q \in PeersFile : q # p => worker'[q] = worker[q]
  BY DEF Start, Goes, PeerInv, TypeOK, Places
<1>2. UNCHANGED <<peers, state, conn, stopped, lock, timer, cast, server, main, missed>>
  BY DEF Start, ThreadOnly
<1>3. TypeOK /\ MutexOwned /\ StartedInOrder /\ ThreadTellsState /\ StateTellsThread
        /\ JoinsOffline /\ ConnectedHasConnection /\ ClosedInOrder
  BY Parts
<1>4. MutexOwned'
  BY <1>1, <1>2, <1>3, Names DEF MutexOwned
<1>5. StartedInOrder'
  BY <1>1, <1>2, <1>3 DEF StartedInOrder, Starting
<1>6. ThreadTellsState'
  BY <1>1, <1>2, <1>3 DEF ThreadTellsState, Closing
<1>7. StateTellsThread'
  BY <1>1, <1>2, <1>3 DEF StateTellsThread, ThreadTellsState, StartedInOrder, Starting,
    Closing
<1>8. ConnectedHasConnection'
  BY <1>1, <1>2, <1>3, Names DEF ConnectedHasConnection, ThreadTellsState, MutexOwned
<1>9. ClosedInOrder'
  BY <1>1, <1>2, <1>3 DEF ClosedInOrder, Closing
<1>10. JoinsOffline'
  BY <1>2, <1>3 DEF JoinsOffline
<1>11. TypeOK'
  BY <1>1, <1>2, <1>3, <1>4 DEF TypeOK
<1> QED
  BY <1>4, <1>5, <1>6, <1>7, <1>8, <1>9, <1>10, <1>11 DEF PeerInv

\* The handshake succeeds; on_open waits for the mutex.
LEMMA OpenedInv ==
  ASSUME NEW p \in PeersFile, PeerInv, Opened(p)
  PROVE  PeerInv'
<1>1. /\ worker[p] = "connecting"
      /\ ~stopped[p]
      /\ worker' \in [PeersFile -> Places]
      /\ worker'[p] = "on_open"
      /\ \A q \in PeersFile : q # p => worker'[q] = worker[q]
  BY DEF Opened, Goes, PeerInv, TypeOK, Places
<1>2. UNCHANGED <<peers, state, conn, stopped, lock, timer, cast, server, main, missed>>
  BY DEF Opened, ThreadOnly
<1>3. TypeOK /\ MutexOwned /\ StartedInOrder /\ ThreadTellsState /\ StateTellsThread
        /\ JoinsOffline /\ ConnectedHasConnection /\ ClosedInOrder
  BY Parts
<1>4. MutexOwned'
  BY <1>1, <1>2, <1>3, Names DEF MutexOwned
<1>5. StartedInOrder'
  BY <1>1, <1>2, <1>3 DEF StartedInOrder, Starting
<1>6. ThreadTellsState'
  BY <1>1, <1>2, <1>3 DEF ThreadTellsState, Closing
<1>7. StateTellsThread'
  BY <1>1, <1>2, <1>3 DEF StateTellsThread, ThreadTellsState, StartedInOrder, Starting,
    Closing
<1>8. ConnectedHasConnection'
  BY <1>1, <1>2, <1>3, Names DEF ConnectedHasConnection, ThreadTellsState, MutexOwned
<1>9. ClosedInOrder'
  BY <1>1, <1>2, <1>3 DEF ClosedInOrder, Closing
<1>10. JoinsOffline'
  BY <1>2, <1>3 DEF JoinsOffline
<1>11. TypeOK'
  BY <1>1, <1>2, <1>3, <1>4 DEF TypeOK
<1> QED
  BY <1>4, <1>5, <1>6, <1>7, <1>8, <1>9, <1>10, <1>11 DEF PeerInv

\* A connection fails or ends: on_close or on_error is what is left to come, and the
\* state has not been changed yet.
LEMMA LostInv ==
  ASSUME NEW p \in PeersFile, NEW where \in {"connecting", "open"}, PeerInv, Lost(p, where)
  PROVE  PeerInv'
<1>1. /\ worker[p] \in {"connecting", "open"}
      /\ ~stopped[p]
      /\ worker' \in [PeersFile -> Places]
      /\ worker'[p] = "on_close"
      /\ \A q \in PeersFile : q # p => worker'[q] = worker[q]
      /\ conn' \in [PeersFile -> {"null", "open", "closed"}]
      /\ conn'[p] = IF conn[p] = "open" THEN "closed" ELSE conn[p]
      /\ \A q \in PeersFile : q # p => conn'[q] = conn[q]
  BY DEF Lost, Goes, PeerInv, TypeOK, Places
<1>2. UNCHANGED <<peers, state, stopped, lock, timer, cast, server, main, missed>>
  BY DEF Lost
<1>3. TypeOK /\ MutexOwned /\ StartedInOrder /\ ThreadTellsState /\ StateTellsThread
        /\ JoinsOffline /\ ConnectedHasConnection /\ ClosedInOrder
  BY Parts
<1>4. MutexOwned'
  BY <1>1, <1>2, <1>3, Names DEF MutexOwned
<1>5. StartedInOrder'
  BY <1>1, <1>2, <1>3 DEF StartedInOrder, Starting
<1>6. ThreadTellsState'
  BY <1>1, <1>2, <1>3 DEF ThreadTellsState, Closing
<1>7. StateTellsThread'
  BY <1>1, <1>2, <1>3 DEF StateTellsThread, ThreadTellsState, StartedInOrder, Starting,
    Closing
<1>8. ConnectedHasConnection'
  BY <1>1, <1>2, <1>3, Names DEF ConnectedHasConnection, ThreadTellsState, MutexOwned
<1>9. ClosedInOrder'
  BY <1>1, <1>2, <1>3 DEF ClosedInOrder, Closing
<1>10. JoinsOffline'
  BY <1>2, <1>3 DEF JoinsOffline
<1>11. TypeOK'
  BY <1>1, <1>2, <1>3, <1>4 DEF TypeOK
<1> QED
  BY <1>4, <1>5, <1>6, <1>7, <1>8, <1>9, <1>10, <1>11 DEF PeerInv

\* on_open takes the mutex and drops the old connection: the window of broadcast opens.
LEMMA OnOpenInv ==
  ASSUME NEW p \in PeersFile, PeerInv, OnOpen(p)
  PROVE  PeerInv'
<1>1. /\ worker[p] = "on_open"
      /\ lock = Nobody
      /\ lock' = p
      /\ worker' \in [PeersFile -> Places]
      /\ worker'[p] = "opening"
      /\ \A q \in PeersFile : q # p => worker'[q] = worker[q]
      /\ conn' \in [PeersFile -> {"null", "open", "closed"}]
      /\ conn'[p] = "null"
      /\ \A q \in PeersFile : q # p => conn'[q] = conn[q]
  BY DEF OnOpen, Goes, PeerInv, TypeOK, Places
<1>2. UNCHANGED <<peers, state, stopped, timer, cast, server, main, missed>>
  BY DEF OnOpen
<1>3. TypeOK /\ MutexOwned /\ StartedInOrder /\ ThreadTellsState /\ StateTellsThread
        /\ JoinsOffline /\ ConnectedHasConnection /\ ClosedInOrder
  BY Parts
<1>4. MutexOwned'
  BY <1>1, <1>2, <1>3, Names DEF MutexOwned
<1>5. StartedInOrder'
  BY <1>1, <1>2, <1>3 DEF StartedInOrder, Starting
<1>6. ThreadTellsState'
  BY <1>1, <1>2, <1>3 DEF ThreadTellsState, Closing
<1>7. StateTellsThread'
  BY <1>1, <1>2, <1>3 DEF StateTellsThread, ThreadTellsState, StartedInOrder, Starting,
    Closing
<1>8. ConnectedHasConnection'
  BY <1>1, <1>2, <1>3, Names DEF ConnectedHasConnection, ThreadTellsState, MutexOwned
<1>9. ClosedInOrder'
  BY <1>1, <1>2, <1>3 DEF ClosedInOrder, Closing
<1>10. JoinsOffline'
  BY <1>2, <1>3 DEF JoinsOffline
<1>11. TypeOK'
  BY <1>1, <1>2, <1>3, <1>4 DEF TypeOK
<1> QED
  BY <1>4, <1>5, <1>6, <1>7, <1>8, <1>9, <1>10, <1>11 DEF PeerInv

\* on_open keeps the new connection and gives the mutex back: the window is closed.
LEMMA OnOpenDoneInv ==
  ASSUME NEW p \in PeersFile, PeerInv, OnOpenDone(p)
  PROVE  PeerInv'
<1>1. /\ worker[p] = "opening"
      /\ lock' = Nobody
      /\ worker' \in [PeersFile -> Places]
      /\ worker'[p] = "open"
      /\ \A q \in PeersFile : q # p => worker'[q] = worker[q]
      /\ conn' \in [PeersFile -> {"null", "open", "closed"}]
      /\ conn'[p] = "open"
      /\ \A q \in PeersFile : q # p => conn'[q] = conn[q]
      /\ state' \in [PeersFile -> {"OFFLINE", "CONNECTING", "CONNECTED"}]
      /\ state'[p] = "CONNECTED"
      /\ \A q \in PeersFile : q # p => state'[q] = state[q]
  BY DEF OnOpenDone, Goes, PeerInv, TypeOK, Places
<1>2. UNCHANGED <<peers, stopped, timer, cast, server, main, missed>>
  BY DEF OnOpenDone
<1>3. TypeOK /\ MutexOwned /\ StartedInOrder /\ ThreadTellsState /\ StateTellsThread
        /\ JoinsOffline /\ ConnectedHasConnection /\ ClosedInOrder
  BY Parts
<1>4. MutexOwned'
  BY <1>1, <1>2, <1>3, Names DEF MutexOwned
<1>5. StartedInOrder'
  BY <1>1, <1>2, <1>3 DEF StartedInOrder, Starting
<1>6. ThreadTellsState'
  BY <1>1, <1>2, <1>3 DEF ThreadTellsState, Closing
<1>7. StateTellsThread'
  BY <1>1, <1>2, <1>3 DEF StateTellsThread, ThreadTellsState, StartedInOrder, Starting,
    Closing
<1>8. JoinsOffline'
  BY <1>1, <1>2, <1>3, Names DEF JoinsOffline, MutexOwned, ThreadTellsState
<1>9. ConnectedHasConnection'
  BY <1>1, <1>2, <1>3, Names DEF ConnectedHasConnection, ThreadTellsState, MutexOwned
<1>10. ClosedInOrder'
  BY <1>1, <1>2, <1>3, ZenonT(40) DEF ClosedInOrder, Closing
<1>11. TypeOK'
  BY <1>1, <1>2, <1>3, <1>4 DEF TypeOK
<1> QED
  BY <1>4, <1>5, <1>6, <1>7, <1>8, <1>9, <1>10, <1>11 DEF PeerInv

\* The last callback: OFFLINE is set in the step in which the thread is past its
\* need for the mutex, which is what the join relies on.
LEMMA OnCloseInv ==
  ASSUME NEW p \in PeersFile, PeerInv, OnClose(p)
  PROVE  PeerInv'
<1>1. /\ worker[p] = "on_close"
      /\ lock = Nobody
      /\ worker' \in [PeersFile -> Places]
      /\ worker'[p] = "leaving"
      /\ \A q \in PeersFile : q # p => worker'[q] = worker[q]
      /\ state' \in [PeersFile -> {"OFFLINE", "CONNECTING", "CONNECTED"}]
      /\ state'[p] = "OFFLINE"
      /\ \A q \in PeersFile : q # p => state'[q] = state[q]
      /\ stopped' \in [PeersFile -> BOOLEAN]
      /\ stopped'[p] = TRUE
      /\ \A q \in PeersFile : q # p => stopped'[q] = stopped[q]
  BY DEF OnClose, Goes, PeerInv, TypeOK, Places
<1>2. UNCHANGED <<peers, conn, lock, timer, cast, server, main, missed>>
  BY DEF OnClose
<1>3. TypeOK /\ MutexOwned /\ StartedInOrder /\ ThreadTellsState /\ StateTellsThread
        /\ JoinsOffline /\ ConnectedHasConnection /\ ClosedInOrder
  BY Parts
<1>4. MutexOwned'
  BY <1>1, <1>2, <1>3, Names DEF MutexOwned
<1>5. StartedInOrder'
  BY <1>1, <1>2, <1>3 DEF StartedInOrder, Starting
<1>6. ThreadTellsState'
  BY <1>1, <1>2, <1>3 DEF ThreadTellsState, Closing
<1>7. StateTellsThread'
  BY <1>1, <1>2, <1>3, ZenonT(40)
    DEF StateTellsThread, ThreadTellsState, StartedInOrder, Starting,
    Closing
<1>8. JoinsOffline'
  BY <1>1, <1>2, <1>3, Names DEF JoinsOffline, MutexOwned, ThreadTellsState
<1>9. ConnectedHasConnection'
  BY <1>1, <1>2, <1>3, Names DEF ConnectedHasConnection, ThreadTellsState, MutexOwned
<1>10. ClosedInOrder'
  BY <1>1, <1>2, <1>3, ZenonT(40) DEF ClosedInOrder, Closing
<1>11. TypeOK'
  BY <1>1, <1>2, <1>3, <1>4 DEF TypeOK
<1> QED
  BY <1>4, <1>5, <1>6, <1>7, <1>8, <1>9, <1>10, <1>11 DEF PeerInv

\* A message arrives at a connected client.
LEMMA OnMessageInv ==
  ASSUME NEW p \in PeersFile, PeerInv, OnMessage(p)
  PROVE  PeerInv'
<1>1. /\ worker[p] = "open"
      /\ worker' \in [PeersFile -> Places]
      /\ worker'[p] = "on_message"
      /\ \A q \in PeersFile : q # p => worker'[q] = worker[q]
  BY DEF OnMessage, Goes, PeerInv, TypeOK, Places
<1>2. UNCHANGED <<peers, state, conn, stopped, lock, timer, cast, server, main, missed>>
  BY DEF OnMessage, ThreadOnly
<1>3. TypeOK /\ MutexOwned /\ StartedInOrder /\ ThreadTellsState /\ StateTellsThread
        /\ JoinsOffline /\ ConnectedHasConnection /\ ClosedInOrder
  BY Parts
<1>4. MutexOwned'
  BY <1>1, <1>2, <1>3, Names DEF MutexOwned
<1>5. StartedInOrder'
  BY <1>1, <1>2, <1>3 DEF StartedInOrder, Starting
<1>6. ThreadTellsState'
  BY <1>1, <1>2, <1>3 DEF ThreadTellsState, Closing
<1>7. StateTellsThread'
  BY <1>1, <1>2, <1>3 DEF StateTellsThread, ThreadTellsState, StartedInOrder, Starting,
    Closing
<1>8. ConnectedHasConnection'
  BY <1>1, <1>2, <1>3, Names DEF ConnectedHasConnection, ThreadTellsState, MutexOwned
<1>9. ClosedInOrder'
  BY <1>1, <1>2, <1>3 DEF ClosedInOrder, Closing
<1>10. JoinsOffline'
  BY <1>2, <1>3 DEF JoinsOffline
<1>11. TypeOK'
  BY <1>1, <1>2, <1>3, <1>4 DEF TypeOK
<1> QED
  BY <1>4, <1>5, <1>6, <1>7, <1>8, <1>9, <1>10, <1>11 DEF PeerInv

\* The message is handled.
LEMMA OnMessageDoneInv ==
  ASSUME NEW p \in PeersFile, PeerInv, OnMessageDone(p)
  PROVE  PeerInv'
<1>1. /\ worker[p] = "on_message"
      /\ worker' \in [PeersFile -> Places]
      /\ worker'[p] = "open"
      /\ \A q \in PeersFile : q # p => worker'[q] = worker[q]
  BY DEF OnMessageDone, Goes, PeerInv, TypeOK, Places
<1>2. UNCHANGED <<peers, state, conn, stopped, lock, timer, cast, server, main, missed>>
  BY DEF OnMessageDone, ThreadOnly
<1>3. TypeOK /\ MutexOwned /\ StartedInOrder /\ ThreadTellsState /\ StateTellsThread
        /\ JoinsOffline /\ ConnectedHasConnection /\ ClosedInOrder
  BY Parts
<1>4. MutexOwned'
  BY <1>1, <1>2, <1>3, Names DEF MutexOwned
<1>5. StartedInOrder'
  BY <1>1, <1>2, <1>3 DEF StartedInOrder, Starting
<1>6. ThreadTellsState'
  BY <1>1, <1>2, <1>3 DEF ThreadTellsState, Closing
<1>7. StateTellsThread'
  BY <1>1, <1>2, <1>3 DEF StateTellsThread, ThreadTellsState, StartedInOrder, Starting,
    Closing
<1>8. ConnectedHasConnection'
  BY <1>1, <1>2, <1>3, Names DEF ConnectedHasConnection, ThreadTellsState, MutexOwned
<1>9. ClosedInOrder'
  BY <1>1, <1>2, <1>3 DEF ClosedInOrder, Closing
<1>10. JoinsOffline'
  BY <1>2, <1>3 DEF JoinsOffline
<1>11. TypeOK'
  BY <1>1, <1>2, <1>3, <1>4 DEF TypeOK
<1> QED
  BY <1>4, <1>5, <1>6, <1>7, <1>8, <1>9, <1>10, <1>11 DEF PeerInv

\* start() returns: after the last callback, or because the destructor stopped it.
LEMMA FinishInv ==
  ASSUME NEW p \in PeersFile, PeerInv, Finish(p)
  PROVE  PeerInv'
<1>1. /\ worker[p] = "leaving" \/ (worker[p] \in {"connecting", "open"} /\ stopped[p])
      /\ worker' \in [PeersFile -> Places]
      /\ worker'[p] = "finished"
      /\ \A q \in PeersFile : q # p => worker'[q] = worker[q]
  BY DEF Finish, Goes, PeerInv, TypeOK, Places
<1>2. UNCHANGED <<peers, state, conn, stopped, lock, timer, cast, server, main, missed>>
  BY DEF Finish, ThreadOnly
<1>3. TypeOK /\ MutexOwned /\ StartedInOrder /\ ThreadTellsState /\ StateTellsThread
        /\ JoinsOffline /\ ConnectedHasConnection /\ ClosedInOrder
  BY Parts
<1>4. MutexOwned'
  BY <1>1, <1>2, <1>3, Names DEF MutexOwned
<1>5. StartedInOrder'
  BY <1>1, <1>2, <1>3 DEF StartedInOrder, Starting
<1>6. ThreadTellsState'
  BY <1>1, <1>2, <1>3 DEF ThreadTellsState, Closing
<1>7. StateTellsThread'
  BY <1>1, <1>2, <1>3 DEF StateTellsThread, ThreadTellsState, StartedInOrder, Starting,
    Closing
<1>8. ConnectedHasConnection'
  BY <1>1, <1>2, <1>3, Names DEF ConnectedHasConnection, ThreadTellsState, MutexOwned
<1>9. ClosedInOrder'
  BY <1>1, <1>2, <1>3 DEF ClosedInOrder, Closing
<1>10. JoinsOffline'
  BY <1>2, <1>3 DEF JoinsOffline
<1>11. TypeOK'
  BY <1>1, <1>2, <1>3, <1>4 DEF TypeOK
<1> QED
  BY <1>4, <1>5, <1>6, <1>7, <1>8, <1>9, <1>10, <1>11 DEF PeerInv

\* The timer runs down: once the destructor is under way, the worker ends.
LEMMA TimerFiresInv ==
  ASSUME PeerInv, TimerFires
  PROVE  PeerInv'
<1>1. /\ timer.at = "wait"
      /\ timer' = At(IF main.at = "run" THEN "callback" ELSE "finished")
  BY DEF TimerFires, PeerInv, TypeOK, Places
<1>2. UNCHANGED <<peers, state, conn, worker, stopped, lock, cast, server, main, missed>>
  BY DEF TimerFires, TimerOnly
<1>3. TypeOK /\ MutexOwned /\ StartedInOrder /\ ThreadTellsState /\ StateTellsThread
        /\ JoinsOffline /\ ConnectedHasConnection /\ ClosedInOrder
  BY Parts
<1>4. MutexOwned'
  BY <1>1, <1>2, <1>3, Names DEF MutexOwned, At, AtPeer
<1>5. StartedInOrder'
  BY <1>1, <1>2, <1>3 DEF StartedInOrder, Starting, At, AtPeer
<1>6. JoinsOffline'
  BY <1>1, <1>2, <1>3, Names DEF JoinsOffline, MutexOwned, ThreadTellsState, At, AtPeer
<1>7. ClosedInOrder'
  BY <1>1, <1>2, <1>3 DEF ClosedInOrder, StartedInOrder, Starting, Closing, At, AtPeer
<1>8. ThreadTellsState' /\ StateTellsThread' /\ ConnectedHasConnection'
  BY <1>2, <1>3 DEF ThreadTellsState, StateTellsThread, ConnectedHasConnection, Closing
<1>9. TypeOK'
  BY <1>1, <1>2, <1>3, <1>4 DEF TypeOK, Position, At, AtPeer, NoPeer
<1> QED
  BY <1>4, <1>5, <1>6, <1>7, <1>8, <1>9 DEF PeerInv

\* The reconnect callback takes the mutex.
LEMMA ReconnectBeginsInv ==
  ASSUME PeerInv, ReconnectBegins
  PROVE  PeerInv'
<1>1. /\ timer.at = "callback"
      /\ lock = Nobody
      /\ lock' = Reconnect
      /\ timer' = AtPeer("scan", NoPeer, peers)
  BY DEF ReconnectBegins, PeerInv, TypeOK, Places
<1>2. UNCHANGED <<peers, state, conn, worker, stopped, cast, server, main, missed>>
  BY DEF ReconnectBegins, TimerOnly
<1>3. TypeOK /\ MutexOwned /\ StartedInOrder /\ ThreadTellsState /\ StateTellsThread
        /\ JoinsOffline /\ ConnectedHasConnection /\ ClosedInOrder
  BY Parts
<1>4. MutexOwned'
  BY <1>1, <1>2, <1>3, Names DEF MutexOwned, At, AtPeer
<1>5. StartedInOrder'
  BY <1>1, <1>2, <1>3 DEF StartedInOrder, Starting, At, AtPeer
<1>6. JoinsOffline'
  BY <1>1, <1>2, <1>3, Names DEF JoinsOffline, MutexOwned, ThreadTellsState, At, AtPeer
<1>7. ClosedInOrder'
  BY <1>1, <1>2, <1>3 DEF ClosedInOrder, StartedInOrder, Starting, Closing, At, AtPeer
<1>8. ThreadTellsState' /\ StateTellsThread' /\ ConnectedHasConnection'
  BY <1>2, <1>3 DEF ThreadTellsState, StateTellsThread, ConnectedHasConnection, Closing
<1>9. TypeOK'
  BY <1>1, <1>2, <1>3, <1>4 DEF TypeOK, Position, At, AtPeer, NoPeer
<1> QED
  BY <1>4, <1>5, <1>6, <1>7, <1>8, <1>9 DEF PeerInv

\* A peer that is OFFLINE is the next to be joined.
LEMMA ReconnectLooksAtInv ==
  ASSUME NEW p \in PeersFile, PeerInv, ReconnectLooksAt(p)
  PROVE  PeerInv'
<1>1. /\ timer.at = "scan"
      /\ timer' = IF state[p] = "OFFLINE" THEN AtPeer("join", p, timer.todo \ {p})
                      ELSE AtPeer("scan", NoPeer, timer.todo \ {p})
  BY DEF ReconnectLooksAt, PeerInv, TypeOK, Places
<1>2. UNCHANGED <<peers, state, conn, worker, stopped, lock, cast, server, main, missed>>
  BY DEF ReconnectLooksAt, TimerOnly
<1>3. TypeOK /\ MutexOwned /\ StartedInOrder /\ ThreadTellsState /\ StateTellsThread
        /\ JoinsOffline /\ ConnectedHasConnection /\ ClosedInOrder
  BY Parts
<1>4. MutexOwned'
  BY <1>1, <1>2, <1>3, Names DEF MutexOwned, At, AtPeer
<1>5. StartedInOrder'
  BY <1>1, <1>2, <1>3 DEF StartedInOrder, Starting, At, AtPeer
<1>6. JoinsOffline'
  BY <1>1, <1>2, <1>3, Names DEF JoinsOffline, MutexOwned, ThreadTellsState, At, AtPeer
<1>7. ClosedInOrder'
  BY <1>1, <1>2, <1>3 DEF ClosedInOrder, StartedInOrder, Starting, Closing, At, AtPeer
<1>8. ThreadTellsState' /\ StateTellsThread' /\ ConnectedHasConnection'
  BY <1>2, <1>3 DEF ThreadTellsState, StateTellsThread, ConnectedHasConnection, Closing
<1>9. TypeOK'
  BY <1>1, <1>2, <1>3, <1>4 DEF TypeOK, Position, At, AtPeer, NoPeer
<1> QED
  BY <1>4, <1>5, <1>6, <1>7, <1>8, <1>9 DEF PeerInv

\* The old thread is joined and replaced; the destructor cannot be past its own
\* join of the reconnect worker.
LEMMA ReconnectCreatesInv ==
  ASSUME NEW p \in PeersFile, PeerInv, ReconnectCreates(p)
  PROVE  PeerInv'
<1>1. /\ timer.at = "join"
      /\ p = timer.peer
      /\ worker[p] \in {"none", "finished"}
      /\ timer' = AtPeer("scan", NoPeer, timer.todo)
      /\ worker' \in [PeersFile -> Places]
      /\ worker'[p] = "new"
      /\ \A q \in PeersFile : q # p => worker'[q] = worker[q]
      /\ state' \in [PeersFile -> {"OFFLINE", "CONNECTING", "CONNECTED"}]
      /\ state'[p] = "CONNECTING"
      /\ \A q \in PeersFile : q # p => state'[q] = state[q]
      /\ stopped' \in [PeersFile -> BOOLEAN]
      /\ stopped'[p] = FALSE
      /\ \A q \in PeersFile : q # p => stopped'[q] = stopped[q]
  BY DEF ReconnectCreates, createClient, PeerInv, TypeOK, Places
<1>2. UNCHANGED <<peers, conn, lock, cast, server, main, missed>>
  BY DEF ReconnectCreates, TimerOnly
<1>3. TypeOK /\ MutexOwned /\ StartedInOrder /\ ThreadTellsState /\ StateTellsThread
        /\ JoinsOffline /\ ConnectedHasConnection /\ ClosedInOrder
  BY Parts
<1>4. MutexOwned'
  BY <1>1, <1>2, <1>3, Names DEF MutexOwned, At, AtPeer
<1>5. StartedInOrder'
  BY <1>1, <1>2, <1>3 DEF StartedInOrder, Starting, At, AtPeer
<1>6. ThreadTellsState'
  BY <1>1, <1>2, <1>3, ZenonT(40) DEF ThreadTellsState, Closing, At, AtPeer
<1>7. StateTellsThread'
  BY <1>1, <1>2, <1>3, ZenonT(40) DEF StateTellsThread, Closing, TypeOK, At, AtPeer
<1>8. JoinsOffline'
  BY <1>1, <1>2, <1>3, Names DEF JoinsOffline, MutexOwned, ThreadTellsState, At, AtPeer
<1>9. ConnectedHasConnection'
  BY <1>1, <1>2, <1>3, Names DEF ConnectedHasConnection, ThreadTellsState, MutexOwned, At,
    AtPeer
<1>10. ClosedInOrder'
  BY <1>1, <1>2, <1>3 DEF ClosedInOrder, StartedInOrder, Starting, Closing, At, AtPeer
<1>11. TypeOK'
  BY <1>1, <1>2, <1>3, <1>4 DEF TypeOK, Position, At, AtPeer, NoPeer
<1> QED
  BY <1>4, <1>5, <1>6, <1>7, <1>8, <1>9, <1>10, <1>11 DEF PeerInv

\* The reconnect callback gives the mutex back.
LEMMA ReconnectEndsInv ==
  ASSUME PeerInv, ReconnectEnds
  PROVE  PeerInv'
<1>1. /\ timer.at = "scan"
      /\ lock' = Nobody
      /\ timer' = At("wait")
  BY DEF ReconnectEnds, PeerInv, TypeOK, Places
<1>2. UNCHANGED <<peers, state, conn, worker, stopped, cast, server, main, missed>>
  BY DEF ReconnectEnds, TimerOnly
<1>3. TypeOK /\ MutexOwned /\ StartedInOrder /\ ThreadTellsState /\ StateTellsThread
        /\ JoinsOffline /\ ConnectedHasConnection /\ ClosedInOrder
  BY Parts
<1>4. MutexOwned'
  BY <1>1, <1>2, <1>3, Names DEF MutexOwned, At, AtPeer
<1>5. StartedInOrder'
  BY <1>1, <1>2, <1>3 DEF StartedInOrder, Starting, At, AtPeer
<1>6. JoinsOffline'
  BY <1>1, <1>2, <1>3, Names DEF JoinsOffline, MutexOwned, ThreadTellsState, At, AtPeer
<1>7. ClosedInOrder'
  BY <1>1, <1>2, <1>3 DEF ClosedInOrder, StartedInOrder, Starting, Closing, At, AtPeer
<1>8. ThreadTellsState' /\ StateTellsThread' /\ ConnectedHasConnection'
  BY <1>2, <1>3 DEF ThreadTellsState, StateTellsThread, ConnectedHasConnection, Closing
<1>9. TypeOK'
  BY <1>1, <1>2, <1>3, <1>4 DEF TypeOK, Position, At, AtPeer, NoPeer
<1> QED
  BY <1>4, <1>5, <1>6, <1>7, <1>8, <1>9 DEF PeerInv

\* broadcast starts, which the destructor waits for before it begins.
LEMMA BroadcastBeginsInv ==
  ASSUME PeerInv, BroadcastBegins
  PROVE  PeerInv'
<1>1. /\ cast.at = "idle"
      /\ main.at = "run"
      /\ cast' = AtPeer("test", NoPeer, peers)
  BY DEF BroadcastBegins, PeerInv, TypeOK, Places
<1>2. UNCHANGED <<peers, state, conn, worker, stopped, lock, timer, server, main, missed>>
  BY DEF BroadcastBegins, CastOnly
<1>3. TypeOK /\ MutexOwned /\ StartedInOrder /\ ThreadTellsState /\ StateTellsThread
        /\ JoinsOffline /\ ConnectedHasConnection /\ ClosedInOrder
  BY Parts
<1>4. StartedInOrder'
  BY <1>1, <1>2, <1>3 DEF StartedInOrder, Starting, At, AtPeer
<1>5. ConnectedHasConnection'
  BY <1>1, <1>2, <1>3, Names DEF ConnectedHasConnection, ThreadTellsState, MutexOwned, At,
    AtPeer
<1>6. ClosedInOrder'
  BY <1>1, <1>2, <1>3 DEF ClosedInOrder, StartedInOrder, Starting, Closing, At, AtPeer
<1>7. MutexOwned' /\ ThreadTellsState' /\ StateTellsThread' /\ JoinsOffline'
  BY <1>2, <1>3 DEF MutexOwned, ThreadTellsState, StateTellsThread, JoinsOffline, Closing
<1>8. TypeOK'
  BY <1>1, <1>2, <1>3, <1>7 DEF TypeOK, Position, At, AtPeer, NoPeer
<1> QED
  BY <1>4, <1>5, <1>6, <1>7, <1>8 DEF PeerInv

\* broadcast sees CONNECTED: there is a connection now, and from now on outside of
\* on_open.
LEMMA BroadcastTestsInv ==
  ASSUME NEW p \in PeersFile, PeerInv, BroadcastTests(p)
  PROVE  PeerInv'
<1>1. /\ cast.at = "test"
      /\ cast' = IF state[p] = "CONNECTED" THEN AtPeer("send", p, cast.todo \ {p})
                     ELSE AtPeer("test", NoPeer, cast.todo \ {p})
  BY DEF BroadcastTests, PeerInv, TypeOK, Places
<1>2. UNCHANGED <<peers, state, conn, worker, stopped, lock, timer, server, main, missed>>
  BY DEF BroadcastTests, CastOnly
<1>3. TypeOK /\ MutexOwned /\ StartedInOrder /\ ThreadTellsState /\ StateTellsThread
        /\ JoinsOffline /\ ConnectedHasConnection /\ ClosedInOrder
  BY Parts
<1>4. StartedInOrder'
  BY <1>1, <1>2, <1>3 DEF StartedInOrder, Starting, At, AtPeer
<1>5. ConnectedHasConnection'
  BY <1>1, <1>2, <1>3, Names DEF ConnectedHasConnection, ThreadTellsState, MutexOwned, At,
    AtPeer
<1>6. ClosedInOrder'
  BY <1>1, <1>2, <1>3 DEF ClosedInOrder, StartedInOrder, Starting, Closing, At, AtPeer
<1>7. MutexOwned' /\ ThreadTellsState' /\ StateTellsThread' /\ JoinsOffline'
  BY <1>2, <1>3 DEF MutexOwned, ThreadTellsState, StateTellsThread, JoinsOffline, Closing
<1>8. TypeOK'
  BY <1>1, <1>2, <1>3, <1>7 DEF TypeOK, Position, At, AtPeer, NoPeer
<1> QED
  BY <1>4, <1>5, <1>6, <1>7, <1>8 DEF PeerInv

\* broadcast sends.
LEMMA BroadcastSendsInv ==
  ASSUME NEW p \in PeersFile, PeerInv, BroadcastSends(p)
  PROVE  PeerInv'
<1>1. /\ cast.at = "send"
      /\ cast' = AtPeer("test", NoPeer, cast.todo)
  BY DEF BroadcastSends, PeerInv, TypeOK, Places
<1>2. UNCHANGED <<peers, state, conn, worker, stopped, lock, timer, server, main, missed>>
  BY DEF BroadcastSends, CastOnly
<1>3. TypeOK /\ MutexOwned /\ StartedInOrder /\ ThreadTellsState /\ StateTellsThread
        /\ JoinsOffline /\ ConnectedHasConnection /\ ClosedInOrder
  BY Parts
<1>4. StartedInOrder'
  BY <1>1, <1>2, <1>3 DEF StartedInOrder, Starting, At, AtPeer
<1>5. ConnectedHasConnection'
  BY <1>1, <1>2, <1>3, Names DEF ConnectedHasConnection, ThreadTellsState, MutexOwned, At,
    AtPeer
<1>6. ClosedInOrder'
  BY <1>1, <1>2, <1>3 DEF ClosedInOrder, StartedInOrder, Starting, Closing, At, AtPeer
<1>7. MutexOwned' /\ ThreadTellsState' /\ StateTellsThread' /\ JoinsOffline'
  BY <1>2, <1>3 DEF MutexOwned, ThreadTellsState, StateTellsThread, JoinsOffline, Closing
<1>8. TypeOK'
  BY <1>1, <1>2, <1>3, <1>7 DEF TypeOK, Position, At, AtPeer, NoPeer
<1> QED
  BY <1>4, <1>5, <1>6, <1>7, <1>8 DEF PeerInv

\* broadcast returns.
LEMMA BroadcastEndsInv ==
  ASSUME PeerInv, BroadcastEnds
  PROVE  PeerInv'
<1>1. /\ cast.at = "test"
      /\ cast' = At("idle")
  BY DEF BroadcastEnds, PeerInv, TypeOK, Places
<1>2. UNCHANGED <<peers, state, conn, worker, stopped, lock, timer, server, main, missed>>
  BY DEF BroadcastEnds, CastOnly
<1>3. TypeOK /\ MutexOwned /\ StartedInOrder /\ ThreadTellsState /\ StateTellsThread
        /\ JoinsOffline /\ ConnectedHasConnection /\ ClosedInOrder
  BY Parts
<1>4. StartedInOrder'
  BY <1>1, <1>2, <1>3 DEF StartedInOrder, Starting, At, AtPeer
<1>5. ConnectedHasConnection'
  BY <1>1, <1>2, <1>3, Names DEF ConnectedHasConnection, ThreadTellsState, MutexOwned, At,
    AtPeer
<1>6. ClosedInOrder'
  BY <1>1, <1>2, <1>3 DEF ClosedInOrder, StartedInOrder, Starting, Closing, At, AtPeer
<1>7. MutexOwned' /\ ThreadTellsState' /\ StateTellsThread' /\ JoinsOffline'
  BY <1>2, <1>3 DEF MutexOwned, ThreadTellsState, StateTellsThread, JoinsOffline, Closing
<1>8. TypeOK'
  BY <1>1, <1>2, <1>3, <1>7 DEF TypeOK, Position, At, AtPeer, NoPeer
<1> QED
  BY <1>4, <1>5, <1>6, <1>7, <1>8 DEF PeerInv

\* The server gets a message.
LEMMA ServerMessageInv ==
  ASSUME PeerInv, ServerMessage
  PROVE  PeerInv'
<1>1. /\ server = "listening"
      /\ server' = "on_message"
  BY DEF ServerMessage, PeerInv, TypeOK, Places
<1>2. UNCHANGED <<peers, state, conn, worker, stopped, lock, timer, cast, main, missed>>
  BY DEF ServerMessage
<1>3. TypeOK /\ MutexOwned /\ StartedInOrder /\ ThreadTellsState /\ StateTellsThread
        /\ JoinsOffline /\ ConnectedHasConnection /\ ClosedInOrder
  BY Parts
<1>4. ClosedInOrder'
  BY <1>1, <1>2, <1>3 DEF ClosedInOrder, Closing
<1>5. MutexOwned' /\ StartedInOrder' /\ ThreadTellsState' /\ StateTellsThread'
        /\ JoinsOffline' /\ ConnectedHasConnection'
  BY <1>2, <1>3 DEF MutexOwned, StartedInOrder, ThreadTellsState, StateTellsThread,
    JoinsOffline, ConnectedHasConnection, Starting, Closing
<1>6. TypeOK'
  BY <1>1, <1>2, <1>3, <1>5 DEF TypeOK
<1> QED
  BY <1>4, <1>5, <1>6 DEF PeerInv

\* The message is handled.
LEMMA ServerMessageDoneInv ==
  ASSUME PeerInv, ServerMessageDone
  PROVE  PeerInv'
<1>1. /\ server = "on_message"
      /\ server' = "listening"
  BY DEF ServerMessageDone, PeerInv, TypeOK, Places
<1>2. UNCHANGED <<peers, state, conn, worker, stopped, lock, timer, cast, main, missed>>
  BY DEF ServerMessageDone
<1>3. TypeOK /\ MutexOwned /\ StartedInOrder /\ ThreadTellsState /\ StateTellsThread
        /\ JoinsOffline /\ ConnectedHasConnection /\ ClosedInOrder
  BY Parts
<1>4. ClosedInOrder'
  BY <1>1, <1>2, <1>3 DEF ClosedInOrder, Closing
<1>5. MutexOwned' /\ StartedInOrder' /\ ThreadTellsState' /\ StateTellsThread'
        /\ JoinsOffline' /\ ConnectedHasConnection'
  BY <1>2, <1>3 DEF MutexOwned, StartedInOrder, ThreadTellsState, StateTellsThread,
    JoinsOffline, ConnectedHasConnection, Starting, Closing
<1>6. TypeOK'
  BY <1>1, <1>2, <1>3, <1>5 DEF TypeOK
<1> QED
  BY <1>4, <1>5, <1>6 DEF PeerInv

\* The destructor begins when no broadcast is under way.
LEMMA DestructorBeginsInv ==
  ASSUME PeerInv, DestructorBegins
  PROVE  PeerInv'
<1>1. /\ main.at = "run"
      /\ cast.at = "idle"
      /\ main' = At("join timer")
  BY DEF DestructorBegins, PeerInv, TypeOK, Places
<1>2. UNCHANGED <<peers, state, conn, worker, stopped, lock, timer, cast, server, missed>>
  BY DEF DestructorBegins, MainOnly
<1>3. TypeOK /\ MutexOwned /\ StartedInOrder /\ ThreadTellsState /\ StateTellsThread
        /\ JoinsOffline /\ ConnectedHasConnection /\ ClosedInOrder
  BY Parts
<1>4. StartedInOrder'
  BY <1>1, <1>2, <1>3 DEF StartedInOrder, Starting, At, AtPeer
<1>5. ThreadTellsState'
  BY <1>1, <1>2, <1>3 DEF ThreadTellsState, Closing, At, AtPeer
<1>6. StateTellsThread'
  BY <1>1, <1>2, <1>3 DEF StateTellsThread, ThreadTellsState, StartedInOrder, Starting,
    Closing, At, AtPeer
<1>7. ClosedInOrder'
  BY <1>1, <1>2, <1>3 DEF ClosedInOrder, StartedInOrder, Starting, Closing, At, AtPeer
<1>8. MutexOwned' /\ JoinsOffline' /\ ConnectedHasConnection'
  BY <1>2, <1>3 DEF MutexOwned, JoinsOffline, ConnectedHasConnection
<1>9. TypeOK'
  BY <1>1, <1>2, <1>3, <1>8 DEF TypeOK, Position, At, AtPeer, NoPeer
<1> QED
  BY <1>4, <1>5, <1>6, <1>7, <1>8, <1>9 DEF PeerInv

\* The reconnect worker is joined: from now on no thread is started.
LEMMA JoinReconnectInv ==
  ASSUME PeerInv, JoinReconnect
  PROVE  PeerInv'
<1>1. /\ main.at = "join timer"
      /\ timer.at = "finished"
      /\ main' = AtPeer("stop", NoPeer, peers)
  BY DEF JoinReconnect, PeerInv, TypeOK, Places
<1>2. UNCHANGED <<peers, state, conn, worker, stopped, lock, timer, cast, server, missed>>
  BY DEF JoinReconnect, MainOnly
<1>3. TypeOK /\ MutexOwned /\ StartedInOrder /\ ThreadTellsState /\ StateTellsThread
        /\ JoinsOffline /\ ConnectedHasConnection /\ ClosedInOrder
  BY Parts
<1>4. StartedInOrder'
  BY <1>1, <1>2, <1>3 DEF StartedInOrder, Starting, At, AtPeer
<1>5. ThreadTellsState'
  BY <1>1, <1>2, <1>3 DEF ThreadTellsState, Closing, At, AtPeer
<1>6. StateTellsThread'
  BY <1>1, <1>2, <1>3 DEF StateTellsThread, ThreadTellsState, StartedInOrder, Starting,
    Closing, At, AtPeer
<1>7. ClosedInOrder'
  BY <1>1, <1>2, <1>3 DEF ClosedInOrder, StartedInOrder, Starting, Closing, At, AtPeer
<1>8. MutexOwned' /\ JoinsOffline' /\ ConnectedHasConnection'
  BY <1>2, <1>3 DEF MutexOwned, JoinsOffline, ConnectedHasConnection
<1>9. TypeOK'
  BY <1>1, <1>2, <1>3, <1>8 DEF TypeOK, Position, At, AtPeer, NoPeer
<1> QED
  BY <1>4, <1>5, <1>6, <1>7, <1>8, <1>9 DEF PeerInv

\* A client is stopped, to be joined next.
LEMMA StopClientInv ==
  ASSUME NEW p \in PeersFile, PeerInv, StopClient(p)
  PROVE  PeerInv'
<1>1. /\ main.at = "stop"
      /\ p \in main.todo
      /\ main' = AtPeer("join", p, main.todo \ {p})
      /\ missed' \subseteq PeersFile
      /\ stopped' \in [PeersFile -> BOOLEAN]
  BY DEF StopClient, PeerInv, TypeOK, Places
<1>2. UNCHANGED <<peers, state, conn, worker, lock, timer, cast, server>>
  BY DEF StopClient, MainOnly
<1>3. TypeOK /\ MutexOwned /\ StartedInOrder /\ ThreadTellsState /\ StateTellsThread
        /\ JoinsOffline /\ ConnectedHasConnection /\ ClosedInOrder
  BY Parts
<1>4. StartedInOrder'
  BY <1>1, <1>2, <1>3 DEF StartedInOrder, Starting, At, AtPeer
<1>5. ThreadTellsState'
  BY <1>1, <1>2, <1>3 DEF ThreadTellsState, Closing, At, AtPeer
<1>6. StateTellsThread'
  BY <1>1, <1>2, <1>3 DEF StateTellsThread, ThreadTellsState, StartedInOrder, Starting,
    Closing, At, AtPeer
<1>7. ClosedInOrder'
  BY <1>1, <1>2, <1>3 DEF ClosedInOrder, StartedInOrder, Starting, Closing, At, AtPeer
<1>8. MutexOwned' /\ JoinsOffline' /\ ConnectedHasConnection'
  BY <1>2, <1>3 DEF MutexOwned, JoinsOffline, ConnectedHasConnection
<1>9. TypeOK'
  BY <1>1, <1>2, <1>3, <1>8 DEF TypeOK, Position, At, AtPeer, NoPeer
<1> QED
  BY <1>4, <1>5, <1>6, <1>7, <1>8, <1>9 DEF PeerInv

\* Its thread is joined.
LEMMA JoinWorkerInv ==
  ASSUME NEW p \in PeersFile, PeerInv, JoinWorker(p)
  PROVE  PeerInv'
<1>1. /\ main.at = "join"
      /\ p = main.peer
      /\ worker[p] = "finished"
      /\ main' = AtPeer("stop", NoPeer, main.todo)
  BY DEF JoinWorker, PeerInv, TypeOK, Places
<1>2. UNCHANGED <<peers, state, conn, worker, stopped, lock, timer, cast, server, missed>>
  BY DEF JoinWorker, MainOnly
<1>3. TypeOK /\ MutexOwned /\ StartedInOrder /\ ThreadTellsState /\ StateTellsThread
        /\ JoinsOffline /\ ConnectedHasConnection /\ ClosedInOrder
  BY Parts
<1>4. StartedInOrder'
  BY <1>1, <1>2, <1>3 DEF StartedInOrder, Starting, At, AtPeer
<1>5. ThreadTellsState'
  BY <1>1, <1>2, <1>3 DEF ThreadTellsState, Closing, At, AtPeer
<1>6. StateTellsThread'
  BY <1>1, <1>2, <1>3 DEF StateTellsThread, ThreadTellsState, StartedInOrder, Starting,
    Closing, At, AtPeer
<1>7. ClosedInOrder'
  BY <1>1, <1>2, <1>3 DEF ClosedInOrder, StartedInOrder, Starting, Closing, At, AtPeer
<1>8. MutexOwned' /\ JoinsOffline' /\ ConnectedHasConnection'
  BY <1>2, <1>3 DEF MutexOwned, JoinsOffline, ConnectedHasConnection
<1>9. TypeOK'
  BY <1>1, <1>2, <1>3, <1>8 DEF TypeOK, Position, At, AtPeer, NoPeer
<1> QED
  BY <1>4, <1>5, <1>6, <1>7, <1>8, <1>9 DEF PeerInv

\* All clients are joined.
LEMMA StopServerInv ==
  ASSUME PeerInv, StopServer
  PROVE  PeerInv'
<1>1. /\ main.at = "stop"
      /\ main.todo = {}
      /\ main' = At("join server")
  BY DEF StopServer, PeerInv, TypeOK, Places
<1>2. UNCHANGED <<peers, state, conn, worker, stopped, lock, timer, cast, server, missed>>
  BY DEF StopServer, MainOnly
<1>3. TypeOK /\ MutexOwned /\ StartedInOrder /\ ThreadTellsState /\ StateTellsThread
        /\ JoinsOffline /\ ConnectedHasConnection /\ ClosedInOrder
  BY Parts
<1>4. StartedInOrder'
  BY <1>1, <1>2, <1>3 DEF StartedInOrder, Starting, At, AtPeer
<1>5. ThreadTellsState'
  BY <1>1, <1>2, <1>3 DEF ThreadTellsState, Closing, At, AtPeer
<1>6. StateTellsThread'
  BY <1>1, <1>2, <1>3 DEF StateTellsThread, ThreadTellsState, StartedInOrder, Starting,
    Closing, At, AtPeer
<1>7. ClosedInOrder'
  BY <1>1, <1>2, <1>3 DEF ClosedInOrder, StartedInOrder, Starting, Closing, At, AtPeer
<1>8. MutexOwned' /\ JoinsOffline' /\ ConnectedHasConnection'
  BY <1>2, <1>3 DEF MutexOwned, JoinsOffline, ConnectedHasConnection
<1>9. TypeOK'
  BY <1>1, <1>2, <1>3, <1>8 DEF TypeOK, Position, At, AtPeer, NoPeer
<1> QED
  BY <1>4, <1>5, <1>6, <1>7, <1>8, <1>9 DEF PeerInv

\* The server is joined: nothing is left running.
LEMMA JoinServerInv ==
  ASSUME PeerInv, JoinServer
  PROVE  PeerInv'
<1>1. /\ main.at = "join server"
      /\ server = "listening"
      /\ main' = At("destroyed")
      /\ server' = "finished"
  BY DEF JoinServer, PeerInv, TypeOK, Places
<1>2. UNCHANGED <<peers, state, conn, worker, stopped, lock, timer, cast, missed>>
  BY DEF JoinServer, MainOnly
<1>3. TypeOK /\ MutexOwned /\ StartedInOrder /\ ThreadTellsState /\ StateTellsThread
        /\ JoinsOffline /\ ConnectedHasConnection /\ ClosedInOrder
  BY Parts
<1>4. StartedInOrder'
  BY <1>1, <1>2, <1>3 DEF StartedInOrder, Starting, At, AtPeer
<1>5. ThreadTellsState'
  BY <1>1, <1>2, <1>3 DEF ThreadTellsState, Closing, At, AtPeer
<1>6. StateTellsThread'
  BY <1>1, <1>2, <1>3 DEF StateTellsThread, ThreadTellsState, StartedInOrder, Starting,
    Closing, At, AtPeer
<1>7. ClosedInOrder'
  BY <1>1, <1>2, <1>3 DEF ClosedInOrder, StartedInOrder, Starting, Closing, At, AtPeer
<1>8. MutexOwned' /\ JoinsOffline' /\ ConnectedHasConnection'
  BY <1>2, <1>3 DEF MutexOwned, JoinsOffline, ConnectedHasConnection
<1>9. TypeOK'
  BY <1>1, <1>2, <1>3, <1>8 DEF TypeOK, Position, At, AtPeer, NoPeer
<1> QED
  BY <1>4, <1>5, <1>6, <1>7, <1>8, <1>9 DEF PeerInv

\* Every step keeps the invariant.
LEMMA NextInv ==
  ASSUME PeerInv, [Next]_vars
  PROVE  PeerInv'
<1>1. CASE UNCHANGED vars \/ Ended
  <2>1. UNCHANGED vars
    BY <1>1 DEF Ended
  <2> QED
    BY <2>1, ZenonT(40) DEF vars, PeerInv, TypeOK, MutexOwned, StartedInOrder, Starting,
      ThreadTellsState,
      StateTellsThread, Closing, JoinsOffline, ConnectedHasConnection, ClosedInOrder
<1>2. CASE MainThread \/ DestructorBegins
  BY <1>2, InitWebSocketServerInv, LoadPeersInv, ConnectAllInv, JoinReconnectInv,
    StopServerInv,
    JoinServerInv, StopClientInv, JoinWorkerInv, DestructorBeginsInv DEF MainThread
<1>3. CASE ReconnectThread \/ ReconnectBegins
  BY <1>3, TimerFiresInv, ReconnectBeginsInv, ReconnectLooksAtInv, ReconnectCreatesInv,
    ReconnectEndsInv DEF ReconnectThread
<1>4. CASE BroadcastBegins \/ BroadcastStep
  BY <1>4, BroadcastBeginsInv, BroadcastTestsInv, BroadcastSendsInv, BroadcastEndsInv
    DEF BroadcastStep
<1>5. CASE ServerMessage \/ ServerMessageDone
  BY <1>5, ServerMessageInv, ServerMessageDoneInv
<1>6. ASSUME NEW p \in PeersFile,
             ClientThread(p) \/ Handshake(p) \/ Callback(p) \/ Lost(p,
             "open") \/ OnMessage(p)
      PROVE  PeerInv'
  BY <1>6, StartInv, OnOpenDoneInv, OnMessageDoneInv, FinishInv, OpenedInv, LostInv,
    OnOpenInv,
    OnCloseInv, OnMessageInv DEF ClientThread, Handshake, Callback
<1> QED
  BY <1>1, <1>2, <1>3, <1>4, <1>5, <1>6 DEF Next

-------------------------------------------------------------------------------
(* The results.                                                              *)

\* The invariant holds in every state.
LEMMA PeerInvariant == Spec => []PeerInv
<1>1. Init => PeerInv
  <2> SUFFICES ASSUME Init
               PROVE  PeerInv
    OBVIOUS
  <2>1. MutexOwned
    BY Names DEF Init, MutexOwned, At
  <2>2. TypeOK
    BY <2>1 DEF Init, TypeOK, Places, Position, At, NoPeer
  <2>3. StartedInOrder /\ ThreadTellsState /\ StateTellsThread /\ JoinsOffline
          /\ ConnectedHasConnection /\ ClosedInOrder
    BY DEF Init, At, StartedInOrder, Starting, ThreadTellsState, StateTellsThread, Closing,
      JoinsOffline, ConnectedHasConnection, ClosedInOrder
  <2> QED
    BY <2>2, <2>3 DEF PeerInv
<1>2. PeerInv /\ [Next]_vars => PeerInv'
  BY NextInv
<1> QED
  BY <1>1, <1>2, PTL DEF Spec

\* For every peers file: all variables keep their types, and _peerMutex has at most
\* one owner, who is inside on_open or the reconnect callback.
THEOREM PeerTypes == Spec => []TypeOK
<1>1. PeerInv => TypeOK
  BY DEF PeerInv
<1> QED
  BY <1>1, PeerInvariant, PTL

\* For every peers file: the join that createClient makes with _peerMutex held waits
\* only for a thread that is past its last callback, so that it cannot deadlock.
THEOREM JoinIsSafe == Spec => []JoinsOnlyLeavers
<1>1. PeerInv => JoinsOnlyLeavers
  BY DEF PeerInv, JoinsOnlyLeavers, JoinsOffline, StateTellsThread, StartedInOrder, Starting
<1> QED
  BY <1>1, PeerInvariant, PTL

\* For every peers file: the state of a peer tells the truth about its thread.
THEOREM StatesAreTrue == Spec => []StateTellsThread
<1>1. PeerInv => StateTellsThread
  BY DEF PeerInv
<1> QED
  BY <1>1, PeerInvariant, PTL

\* For every peers file: broadcast meets a null connection only while on_open of
\* that peer replaces it.
THEOREM NullOnlyInWindow == Spec => []NullOnlyWhileOpening
<1>1. PeerInv => NullOnlyWhileOpening
  BY DEF PeerInv, NullOnlyWhileOpening, ConnectedHasConnection
<1> QED
  BY <1>1, PeerInvariant, PTL

\* For every peers file: when the destructor is through, no thread is left.
THEOREM DestructorLeavesNothing == Spec => []DestroyedQuiet
<1>1. PeerInv => DestroyedQuiet
  BY DEF PeerInv, DestroyedQuiet, ClosedInOrder, StartedInOrder, Closing
<1> QED
  BY <1>1, PeerInvariant, PTL

===============================================================================
