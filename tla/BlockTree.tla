------------------------------- MODULE BlockTree -------------------------------
(***************************************************************************)
(* What the sync protocol promises about the nodes' chains, without        *)
(* messages, updates or mining threads.  All blocks that were ever mined   *)
(* form a tree: a block's hash is its own and it names its parent.  A      *)
(* node's chain is a path of that tree from a genesis block on.  A node    *)
(* puts a new block on top of its own chain or switches to another path;   *)
(* it never holds a block nobody mined, nor pieces of two branches.        *)
(***************************************************************************)
EXTENDS Blockchain

CONSTANT Node

VARIABLES
  tree,     \* every block that exists
  chain     \* chain[n]: the path node n holds

treeVars == <<tree, chain>>

IsPath(c, blocks) ==
  /\ WellFormed(c)
  /\ \A i \in 1..Len(c) : c[i] \in blocks

UniqueHashes(blocks) == \A a, b \in blocks : a.hash = b.hash => a = b

TreeInit ==
  /\ UniqueHashes(tree)
  /\ \A n \in Node : IsPath(chain[n], tree)

\* Node n finds a block with a new hash and puts it on top of its chain.
Extend(n) ==
  /\ Len(chain'[n]) = Len(chain[n]) + 1
  /\ LET b == back(chain'[n])
     IN  /\ \A a \in tree : a.hash # b.hash
         /\ tree' = tree \cup {b}
         /\ chain' = [chain EXCEPT ![n] = Append(@, b)]
  /\ IsPath(chain'[n], tree')

\* Node n takes over another path.
Switch(n) ==
  /\ tree' = tree
  /\ chain' = [chain EXCEPT ![n] = chain'[n]]
  /\ IsPath(chain'[n], tree)

TreeNext == \E n \in Node : Extend(n) \/ Switch(n)

TreeSpec == TreeInit /\ [][TreeNext]_treeVars
===============================================================================
