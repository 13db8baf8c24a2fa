------------------------- MODULE BlockTreeTheorems --------------------------
(***************************************************************************)
(* What the proofs about ChainState, Ledger and BlockDownload need to know *)
(* of the tree of BlockTree: that a chain is what pprev leads to, that it  *)
(* ends at the genesis block, and that heights grow along it.  Chain is    *)
(* defined as the least set that is closed under pprev, so that no step of *)
(* this needs an induction, but for the one to the genesis block: it goes  *)
(* along the chain work, which a least natural number stops.               *)
(***************************************************************************)
EXTENDS BlockTree, FiniteSetTheorems, WellFoundedInduction, TLAPS

-----------------------------------------------------------------------------
(* A set of natural numbers that is not empty has a least element. *)
LEMMA LeastNatural ==
  ASSUME NEW T \in SUBSET Nat, T # {}
  PROVE  \E n \in T : \A m \in T : n <= m
<1> DEFINE R == {ss \in Nat \X Nat : ss[1] < ss[2]}
<1>1. IsWellFoundedOn(R, Nat)
  BY NatLessThanWellFounded DEF OpToRel
<1>2. \A x, y \in Nat : <<y, x>> \in R <=> y < x
  OBVIOUS
<1> HIDE DEF R
<1>3. PICK n \in T : \A m \in T : ~ (<<m, n>> \in R)
  BY <1>1, WFMin
<1>4. ASSUME NEW m \in T PROVE n <= m
  <2>1. n \in Nat /\ m \in Nat
    OBVIOUS
  <2>2. ~(m < n)
    BY <1>2, <1>3, <2>1
  <2> QED BY <2>1, <2>2
<1> QED BY <1>4

-----------------------------------------------------------------------------
(* A chain is a set of blocks, with the block it ends with. *)
LEMMA ChainContains ==
  ASSUME NEW b \in Block
  PROVE  b \in Chain[b] /\ Chain[b] \subseteq Block
BY DEF Chain

(* The parent of a block of a chain is in the chain. *)
LEMMA ChainClosed ==
  ASSUME NEW b \in Block, NEW x \in Chain[b], x # Genesis
  PROVE  Parent[x] \in Chain[b] /\ Parent[x] \in Block
<1>1. x \in Block /\ Parent[x] \in Block
  BY TreeAssumption DEF Chain
<1>2. ASSUME NEW S \in SUBSET Block, b \in S, ParentClosed(S)
      PROVE  Parent[x] \in S
  <2>1. x \in S
    BY <1>2 DEF Chain
  <2> QED BY <1>2, <2>1 DEF ParentClosed
<1> QED BY <1>1, <1>2 DEF Chain

(* It is the least such set. *)
LEMMA ChainLeast ==
  ASSUME NEW b \in Block, NEW S \in SUBSET Block, b \in S,
         \A x \in S \ {Genesis} : Parent[x] \in S
  PROVE  Chain[b] \subseteq S
BY DEF Chain, ParentClosed

(* The chain of a block of a chain is a part of it. *)
LEMMA ChainTransitive ==
  ASSUME NEW b \in Block, NEW a \in Chain[b]
  PROVE  Chain[a] \subseteq Chain[b]
BY ChainContains, ChainClosed, ChainLeast

(* Nothing precedes the genesis block. *)
LEMMA ChainOfGenesis == Chain[Genesis] = {Genesis}
<1>1. Genesis \in Block
  BY TreeAssumption
<1>2. Genesis \in Chain[Genesis]
  BY <1>1, ChainContains
<1>3. Chain[Genesis] \subseteq {Genesis}
  BY <1>1, ChainLeast
<1> QED BY <1>2, <1>3

(* The chain work grows along a chain. *)
LEMMA ChainWork ==
  ASSUME NEW b \in Block, NEW a \in Chain[b], a # b
  PROVE  Work[a] < Work[b]
<1> DEFINE S == {x \in Block : x = b \/ Work[x] < Work[b]}
<1>1. ASSUME NEW x \in S \ {Genesis} PROVE Parent[x] \in S
  <2>1. Parent[x] \in Block /\ Work[Parent[x]] < Work[x]
    BY TreeAssumption
  <2>2. Work[Parent[x]] \in Nat /\ Work[x] \in Nat /\ Work[b] \in Nat
    BY TreeAssumption, <2>1
  <2> QED BY <2>1, <2>2
<1>2. Chain[b] \subseteq S
  BY <1>1, ChainLeast
<1> QED BY <1>2

(* A chain is its last block on top of the chain of the parent. *)
LEMMA ChainStep ==
  ASSUME NEW b \in Block, b # Genesis
  PROVE  /\ Parent[b] \in Block
         /\ Chain[b] = Chain[Parent[b]] \cup {b}
         /\ b \notin Chain[Parent[b]]
<1>1. Parent[b] \in Block
  BY TreeAssumption
<1>2. Chain[Parent[b]] \cup {b} \subseteq Chain[b]
  BY ChainContains, ChainClosed, ChainTransitive
<1>3. Chain[b] \subseteq Chain[Parent[b]] \cup {b}
  <2> DEFINE S == Chain[Parent[b]] \cup {b}
  <2>1. S \subseteq Block /\ b \in S
    BY <1>1, ChainContains
  <2>2. ASSUME NEW x \in S \ {Genesis} PROVE Parent[x] \in S
    <3>1. CASE x = b
      BY <1>1, <3>1, ChainContains
    <3>2. CASE x \in Chain[Parent[b]]
      BY <1>1, <3>2, ChainClosed
    <3> QED BY <3>1, <3>2
  <2> HIDE DEF S
  <2>3. Chain[b] \subseteq S
    BY <2>1, <2>2, ChainLeast
  <2> QED BY <2>3 DEF S
<1>4. b \notin Chain[Parent[b]]
  <2>1. SUFFICES ASSUME b \in Chain[Parent[b]] PROVE FALSE
    OBVIOUS
  <2>2. Work[Parent[b]] < Work[b] /\ Work[Parent[b]] \in Nat /\ Work[b] \in Nat
    BY <1>1, TreeAssumption
  <2>3. b # Parent[b]
    BY <2>2
  <2>4. Work[b] < Work[Parent[b]]
    BY <1>1, <2>1, <2>3, ChainWork
  <2> QED BY <2>2, <2>4
<1> QED BY <1>1, <1>2, <1>3, <1>4

(* Every chain begins with the genesis block. *)
LEMMA GenesisInChain ==
  ASSUME NEW b \in Block
  PROVE  Genesis \in Chain[b]
<1> SUFFICES ASSUME Genesis \notin Chain[b] PROVE FALSE
  OBVIOUS
<1> DEFINE T == {Work[x] : x \in Chain[b]}
<1>1. T \in SUBSET Nat /\ T # {}
  BY ChainContains, TreeAssumption
<1>2. PICK n \in T : \A m \in T : n <= m
  <2> HIDE DEF T
  <2> QED BY <1>1, LeastNatural
<1>3. PICK x \in Chain[b] : n = Work[x]
  OBVIOUS
<1>4. /\ x \in Block /\ x # Genesis
      /\ Parent[x] \in Chain[b] /\ Parent[x] \in Block
  BY ChainContains, ChainClosed
<1>5. Work[Parent[x]] < Work[x] /\ Work[Parent[x]] \in Nat /\ Work[x] \in Nat
  BY <1>4, TreeAssumption
<1>6. Work[x] <= Work[Parent[x]]
  BY <1>2, <1>3, <1>4
<1> QED BY <1>5, <1>6

(* Of two blocks of one chain, one is in the chain of the other. *)
LEMMA ChainLinear ==
  ASSUME NEW b \in Block, NEW x \in Chain[b], NEW y \in Chain[b]
  PROVE  x \in Chain[y] \/ y \in Chain[x]
<1> DEFINE S == {u \in Chain[b] : \A v \in Chain[b] : u \in Chain[v] \/ v \in Chain[u]}
<1>1. b \in S /\ S \subseteq Block
  BY ChainContains
<1>2. ASSUME NEW u \in S \ {Genesis} PROVE Parent[u] \in S
  <2>1. u \in Block /\ Parent[u] \in Chain[b]
    BY <1>1, ChainClosed
  <2>2. ASSUME NEW v \in Chain[b] PROVE Parent[u] \in Chain[v] \/ v \in Chain[Parent[u]]
    <3>0. v \in Block
      BY ChainContains
    <3>1. CASE u \in Chain[v]
      BY <3>0, <3>1, ChainClosed
    <3>2. CASE v \in Chain[u]
      <4>1. v = u \/ v \in Chain[Parent[u]]
        BY <2>1, <3>2, ChainStep
      <4> QED BY <2>1, <3>0, <4>1, ChainContains, ChainClosed
    <3> QED BY <3>1, <3>2
  <2> QED BY <2>1, <2>2
<1>3. Chain[b] \subseteq S
  <2> HIDE DEF S
  <2> QED BY <1>1, <1>2, ChainLeast
<1> QED BY <1>3

(* Chains are finite, and heights are natural numbers. *)
LEMMA HeightType ==
  ASSUME NEW b \in Block
  PROVE  /\ IsFiniteSet(Chain[b])
         /\ Height[b] \in Nat
         /\ Cardinality(Chain[b]) = Height[b] + 1
<1>1. IsFiniteSet(Chain[b])
  BY TreeAssumption, ChainContains, FS_Subset
<1>2. Cardinality(Chain[b]) \in Nat /\ Cardinality(Chain[b]) # 0
  BY <1>1, ChainContains, FS_CardinalityType, FS_EmptySet
<1> QED BY <1>1, <1>2 DEF Height

(* A block is one higher than its parent. *)
LEMMA HeightStep ==
  ASSUME NEW b \in Block, b # Genesis
  PROVE  Height[b] = Height[Parent[b]] + 1
<1>1. Parent[b] \in Block /\ Chain[b] = Chain[Parent[b]] \cup {b} /\ b \notin Chain[Parent[b]]
  BY ChainStep
<1>2. Cardinality(Chain[b]) = Cardinality(Chain[Parent[b]]) + 1
  BY <1>1, HeightType, FS_AddElement
<1>3. /\ Cardinality(Chain[b]) = Height[b] + 1 /\ Height[b] \in Nat
      /\ Cardinality(Chain[Parent[b]]) = Height[Parent[b]] + 1 /\ Height[Parent[b]] \in Nat
  BY <1>1, HeightType
<1> QED BY <1>2, <1>3

(* Heights grow along a chain. *)
LEMMA HeightGrows ==
  ASSUME NEW b \in Block, NEW a \in Chain[b], a # b
  PROVE  Height[a] < Height[b]
<1>1. a \in Block /\ Chain[a] \subseteq Chain[b]
  BY ChainContains, ChainTransitive
<1>2. b \notin Chain[a]
  <2> SUFFICES ASSUME b \in Chain[a] PROVE FALSE
    OBVIOUS
  <2>1. Work[a] < Work[b] /\ Work[b] < Work[a]
    BY <1>1, ChainWork
  <2> QED BY <1>1, <2>1, TreeAssumption
<1>3. Chain[a] # Chain[b]
  BY <1>2, ChainContains
<1>4. Cardinality(Chain[a]) <= Cardinality(Chain[b]) /\ Cardinality(Chain[a]) # Cardinality(Chain[b])
  BY <1>1, <1>3, HeightType, FS_Subset
<1> QED BY <1>1, <1>4, HeightType

(* A chain holds one block of a height. *)
LEMMA HeightUnique ==
  ASSUME NEW b \in Block, NEW x \in Chain[b], NEW y \in Chain[b], Height[x] = Height[y]
  PROVE  x = y
<1> SUFFICES ASSUME x # y PROVE FALSE
  OBVIOUS
<1>1. x \in Block /\ y \in Block
  BY ChainContains
<1>2. Height[x] < Height[y] \/ Height[y] < Height[x]
  BY <1>1, ChainLinear, HeightGrows
<1> QED BY <1>1, <1>2, HeightType

(* Below every block of a chain but its last one there is a next one. *)
LEMMA ChainNext ==
  ASSUME NEW b \in Block, NEW a \in Chain[b], a # b
  PROVE  \E c \in Chain[b] \ {Genesis} : Parent[c] = a
<1> SUFFICES ASSUME \A c \in Chain[b] \ {Genesis} : Parent[c] # a PROVE FALSE
  OBVIOUS
<1> DEFINE S == Chain[b] \ {a}
<1>1. S \in SUBSET Block /\ b \in S
  BY ChainContains
<1>2. \A x \in S \ {Genesis} : Parent[x] \in S
  BY ChainClosed
<1>3. Chain[b] \subseteq S
  BY <1>1, <1>2, ChainLeast
<1> QED BY <1>3

(* Of two blocks of a chain the lower one is in the chain of the higher. *)
LEMMA ChainBelow ==
  ASSUME NEW b \in Block, NEW x \in Chain[b], NEW y \in Chain[b], Height[x] <= Height[y]
  PROVE  x \in Chain[y]
<1>1. x \in Block /\ y \in Block
  BY ChainContains
<1>2. CASE y \in Chain[x] /\ y # x
  BY <1>1, <1>2, HeightGrows, HeightType
<1> QED BY <1>1, <1>2, ChainLinear, ChainContains

(* Highest finds a block of the set. *)
LEMMA HighestIsOne ==
  ASSUME NEW b \in Block, NEW S \in SUBSET Chain[b], S # {}
  PROVE  Highest(S) \in S
<1> DEFINE T == {Height[b] - Height[x] : x \in S}
<1>1. \A x \in S : x \in Block /\ Height[x] \in Nat /\ Height[x] <= Height[b] /\ Height[b] \in Nat
  <2> TAKE x \in S
  <2>1. x \in Block
    BY ChainContains
  <2>2. x = b \/ Height[x] < Height[b]
    BY HeightGrows
  <2> QED BY <2>1, <2>2, HeightType
<1>2. T \in SUBSET Nat /\ T # {}
  BY <1>1
<1>3. PICK n \in T : \A m \in T : n <= m
  <2> HIDE DEF T
  <2> QED BY <1>2, LeastNatural
<1>4. PICK x \in S : n = Height[b] - Height[x]
  OBVIOUS
<1>5. ASSUME NEW a \in S PROVE Height[a] <= Height[x]
  <2>1. n <= Height[b] - Height[a]
    BY <1>3
  <2> QED BY <1>1, <1>4, <2>1
<1> QED BY <1>5 DEF Highest

-----------------------------------------------------------------------------
(* CBlockIndexWorkComparator is a strict order. *)
LEMMA SortsStrictly ==
  ASSUME NEW seq \in [Block -> Nat], NEW a \in Block, NEW b \in Block, SortsBefore(a, b, seq)
  PROVE  ~ SortsBefore(b, a, seq)
<1>1. /\ Work[a] \in Nat /\ Work[b] \in Nat /\ Address[a] \in Nat /\ Address[b] \in Nat
      /\ seq[a] \in Nat /\ seq[b] \in Nat
  BY TreeAssumption
<1> QED BY <1>1 DEF SortsBefore

(* Any two blocks are comparable. *)
LEMMA SortsTotally ==
  ASSUME NEW seq \in [Block -> Nat], NEW a \in Block, NEW b \in Block, a # b
  PROVE  SortsBefore(a, b, seq) \/ SortsBefore(b, a, seq)
<1>1. /\ Work[a] \in Nat /\ Work[b] \in Nat /\ Address[a] \in Nat /\ Address[b] \in Nat
      /\ seq[a] \in Nat /\ seq[b] \in Nat /\ Address[a] # Address[b]
  BY TreeAssumption
<1> QED BY <1>1 DEF SortsBefore

(* The order of the candidates is transitive. *)
LEMMA SortsTransitively ==
  ASSUME NEW seq \in [Block -> Nat], NEW a \in Block, NEW b \in Block, NEW c \in Block,
         SortsBefore(a, b, seq), SortsBefore(b, c, seq)
  PROVE  SortsBefore(a, c, seq)
<1>1. /\ Work[a] \in Nat /\ Work[b] \in Nat /\ Work[c] \in Nat
      /\ Address[a] \in Nat /\ Address[b] \in Nat /\ Address[c] \in Nat
      /\ seq[a] \in Nat /\ seq[b] \in Nat /\ seq[c] \in Nat
  BY TreeAssumption
<1> QED BY <1>1 DEF SortsBefore

(* A set of blocks has a best one: that which the fewest sort after. *)
LEMMA BestExists ==
  ASSUME NEW seq \in [Block -> Nat], NEW S \in SUBSET Block, S # {}
  PROVE  \E c \in S : \A u \in S \ {c} : SortsBefore(u, c, seq)
<1> DEFINE Above(c) == {u \in S : SortsBefore(c, u, seq)}
           T == {Cardinality(Above(c)) : c \in S}
<1>1. \A c \in S : IsFiniteSet(Above(c)) /\ Cardinality(Above(c)) \in Nat
  BY TreeAssumption, FS_Subset, FS_CardinalityType
<1>2. T \in SUBSET Nat /\ T # {}
  BY <1>1
<1>3. PICK n \in T : \A m \in T : n <= m
  <2> HIDE DEF T
  <2> QED BY <1>2, LeastNatural
<1>4. PICK c \in S : n = Cardinality(Above(c))
  OBVIOUS
<1>5. ASSUME NEW u \in Above(c) PROVE FALSE
  <2>1. Above(u) \subseteq Above(c) /\ u \notin Above(u)
    <3>1. ASSUME NEW v \in Above(u) PROVE v \in Above(c)
      BY SortsTransitively
    <3>2. ~ SortsBefore(u, u, seq)
      BY SortsStrictly
    <3> QED BY <3>1, <3>2
  <2>2. Above(u) # Above(c) /\ u \in S
    BY <2>1
  <2>3. Cardinality(Above(u)) < Cardinality(Above(c))
    <3> HIDE DEF Above
    <3>1. /\ Cardinality(Above(u)) <= Cardinality(Above(c))
          /\ (Cardinality(Above(u)) = Cardinality(Above(c)) => Above(u) = Above(c))
      BY <1>1, <2>1, FS_Subset
    <3> QED BY <1>1, <2>2, <3>1
  <2>4. n <= Cardinality(Above(u)) /\ n \in Nat /\ Cardinality(Above(u)) \in Nat
    BY <1>1, <1>2, <1>3, <2>2
  <2> QED BY <1>4, <2>3, <2>4
<1> QED BY <1>5, SortsTotally
=============================================================================
