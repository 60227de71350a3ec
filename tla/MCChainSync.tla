----------------------------- MODULE MCChainSync -----------------------------
(***************************************************************************)
(* Small networks for model checking ChainSync.                            *)
(***************************************************************************)
EXTENDS ChainSync

CONSTANTS n1, n2

\* Which connections the peers files name.
OneWay == {<<n1, n2>>}
BothWays == {<<n1, n2>>, <<n2, n1>>}
Fan == {n1} \X (Node \ {n1})

\* Everybody starts from the chain of n1, or n2 from one of its own.
SameFounder == [n \in Node |-> n1]
Newcomer == [n \in Node |-> IF n = n2 THEN n2 ELSE n1]

\* The clocks stand still, or that of n2 is ahead and moves: a first block of n1 raises
\* the difficulty of the second, and one of n2 lowers it.
SameTime == [n \in Node |-> {0}]
Ahead == [n \in Node |-> IF n = n2 THEN {5, 10} ELSE {0}]

\* bound: the announced blocks the run follows, by index and cumulative difficulty:
\* those of chains of four blocks with the difficulty raised.
Watched == {[index |-> 3, cumdiff |-> 8]}

AnnouncedWith(l, a) ==
  \E k \in DOMAIN wire[l][l[2]] :
    LET m == wire[l][l[2]][k]
    IN  /\ m.message = "newblock" /\ m.kind = "request"
        /\ m.block.index = a.index /\ m.cumdiff = a.cumdiff

\* Between two miners, too, a 'newblock' is followed up to the end: the server's
\* chain gets as difficult as announced or as high, or an update is waiting for its
\* mining thread, or the connection is lost.  Forks (the blocks do not fit, and one
\* more is asked for, again and again) and blocks mined in between do not make the
\* handlers forget it.  Each of the ways out is one the code has: a server whose
\* chain is less difficult and as high asks for the blocks above its own, gets none
\* and drops the answer; one with an update waiting compares the summary with the
\* update's first block instead of the genesis block.
AnnouncementFollowed ==
  \A l \in Peers : \A a \in Watched :
    AnnouncedWith(l, a) ~>
      \/ cumDifficulty(chain[l[2]]) >= a.cumdiff
      \/ Len(chain[l[2]]) > a.index
      \/ temp[l[2]] # <<>>
      \/ ~open[l]

===============================================================================
