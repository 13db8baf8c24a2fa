----------------------------- MODULE BlockTree -----------------------------
(***************************************************************************)
(* The tree that CBlockIndex::pprev spans (src/src/chain.h), and the order *)
(* in which CBlockIndexWorkComparator sorts its nodes.  The tree holds     *)
(* every block that exists anywhere; a node knows a part of it.            *)
(***************************************************************************)
EXTENDS Integers, FiniteSets

CONSTANTS
  Block,    \* every block there is
  Genesis,  \* Params().GenesisBlock()
  Parent,   \* pprev: a function on Block \ {Genesis}
  Work,     \* nChainWork
  Address   \* the order of the CBlockIndex pointers, the last tie breaker

ASSUME TreeAssumption ==
  /\ IsFiniteSet(Block)
  /\ Genesis \in Block
  /\ Parent \in [Block \ {Genesis} -> Block]
  /\ Work \in [Block -> Nat]
  /\ \A b \in Block \ {Genesis} : Work[Parent[b]] < Work[b]
  /\ Address \in [Block -> Nat]
  /\ \A a, b \in Block : Address[a] = Address[b] => a = b

\* S holds with every block the parent of the block.
ParentClosed(S) == \A b \in S \ {Genesis} : Parent[b] \in S

\* The chain from Genesis to b, b included.
Chain == [b \in Block |->
           {a \in Block : \A S \in SUBSET Block : b \in S /\ ParentClosed(S) => a \in S}]

Height == [b \in Block |-> Cardinality(Chain[b]) - 1]

\* The block at the greatest height of a non-empty set of blocks on one chain.
Highest(S) == CHOOSE b \in S : \A a \in S : Height[a] <= Height[b]

(***************************************************************************)
(* CBlockIndexWorkComparator: a sorts before b.  More work sorts last,     *)
(* then the earlier sequence id, then the smaller address.                 *)
(***************************************************************************)
SortsBefore(a, b, seq) ==
  \/ Work[a] < Work[b]
  \/ Work[a] = Work[b] /\ seq[a] > seq[b]
  \/ Work[a] = Work[b] /\ seq[a] = seq[b] /\ Address[a] > Address[b]
=============================================================================
