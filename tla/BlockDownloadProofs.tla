------------------------ MODULE BlockDownloadProofs ------------------------
(***************************************************************************)
(* Proofs about BlockDownload, for every tree of blocks, any peers, window *)
(* and number of blocks in transit: its types (TypesCorrect), the books of *)
(* what is in flight (BooksCorrect), and the order of the requests         *)
(* (OrderCorrect).                                                         *)
(***************************************************************************)
EXTENDS BlockDownload, BlockTreeTheorems

-----------------------------------------------------------------------------
(***************************************************************************)
(* The invariant.                                                          *)
(***************************************************************************)

\* What is known of the blocks.
BlocksInv ==
  /\ haveData \cup failed \subseteq mapBlockIndex /\ mapBlockIndex \subseteq Block
  /\ Genesis \in haveData /\ tip \in Block
  /\ Chain[tip] \subseteq haveData
  /\ haveData \cap failed = {}
  /\ \A b \in mapBlockIndex : Chain[b] \subseteq mapBlockIndex

\* What a node is known to have is in the index, and what it has in common with
\* the active chain is here.  A node is preferred only after its "version".
NodeOK(s) ==
  /\ s \in NodeState
  /\ s.fPreferredDownload => s.fVersion
  /\ s.pindexBestKnownBlock # NULL => s.pindexBestKnownBlock \in mapBlockIndex
  /\ s.pindexLastCommonBlock # NULL => Chain[s.pindexLastCommonBlock] \subseteq haveData

NodesInv ==
  /\ IsFiniteSet(Nodes)
  /\ Nodes \cup closed \subseteq Peer
  /\ \A p \in Nodes : NodeOK(mapNodeState[p])

FlightInv ==
  /\ ListsAgree /\ StallerIsBusy
  /\ DOMAIN mapBlocksInFlight \subseteq mapBlockIndex \ haveData

CountsInv == CountsAgree /\ {nQueuedValidatedHeaders, nSyncStarted, nPreferredDownload} \subseteq Int

IInv == BlocksInv /\ NodesInv /\ FlightInv /\ CountsInv

-----------------------------------------------------------------------------
(***************************************************************************)
(* Lists.                                                                  *)
(***************************************************************************)

\* A list of the blocks of a finite set in increasing height has each of them once.
LEMMA UpwardsLists ==
  ASSUME NEW S \in SUBSET Block, NEW q \in Upwards(S)
  PROVE  /\ Cardinality(S) \in Nat
         /\ q \in [1 .. Cardinality(S) -> S]
         /\ \A i, j \in DOMAIN q : q[i] = q[j] => i = j
         /\ Range(q) = S
<1>1. IsFiniteSet(S) /\ Cardinality(S) \in Nat
  BY TreeAssumption, FS_Subset, FS_CardinalityType
<1>2. q \in [1 .. Cardinality(S) -> S]
  BY DEF Upwards
<1>3. ASSUME NEW i \in 1 .. Cardinality(S), NEW j \in 1 .. Cardinality(S), i # j
      PROVE  q[i] # q[j]
  <2>1. q[i] \in Block /\ q[j] \in Block
    BY <1>2
  <2>2. Height[q[i]] \in Nat /\ Height[q[j]] \in Nat
    BY <2>1, HeightType
  <2>3. i < j \/ j < i
    BY <1>1, <1>3
  <2>4. Height[q[i]] < Height[q[j]] \/ Height[q[j]] < Height[q[i]]
    BY <1>2, <2>3 DEF Upwards
  <2> QED BY <2>2, <2>4
<1>4. q \in Injection(1 .. Cardinality(S), S)
  BY <1>2, <1>3 DEF Injection, IsInjective
<1>5. IsFiniteSet(1 .. Cardinality(S)) /\ Cardinality(1 .. Cardinality(S)) = Cardinality(S)
  BY <1>1, FS_Interval
<1>6. q \in Surjection(1 .. Cardinality(S), S)
  BY <1>1, <1>4, <1>5, FS_Injection
<1>7. Range(q) = S
  BY <1>2, <1>6 DEF Surjection, Range
<1> QED BY <1>1, <1>2, <1>3, <1>7

\* Appending a list of other blocks.
LEMMA AppendedList ==
  ASSUME NEW s \in Seq(Block), NEW q \in Seq(Block),
         IsInjective(s), IsInjective(q), Range(s) \cap Range(q) = {}
  PROVE  /\ s \o q \in Seq(Block)
         /\ Len(s \o q) = Len(s) + Len(q)
         /\ IsInjective(s \o q)
         /\ Range(s \o q) = Range(s) \cup Range(q)
<1> DEFINE r == s \o q
<1>1. /\ r \in Seq(Block) /\ Len(r) = Len(s) + Len(q)
      /\ Len(s) \in Nat /\ Len(q) \in Nat
      /\ DOMAIN r = 1 .. Len(s) + Len(q) /\ DOMAIN s = 1 .. Len(s) /\ DOMAIN q = 1 .. Len(q)
      /\ \A i \in 1 .. Len(s) : r[i] = s[i]
      /\ \A i \in 1 .. Len(q) : r[Len(s) + i] = q[i]
      /\ \A i \in Len(s) + 1 .. Len(s) + Len(q) : r[i] = q[i - Len(s)]
  OBVIOUS
<1> HIDE DEF r
<1>2. ASSUME NEW i \in DOMAIN r, NEW j \in DOMAIN r, r[i] = r[j] PROVE i = j
  <2>1. CASE i <= Len(s) /\ j <= Len(s)
    BY <1>1, <1>2, <2>1 DEF IsInjective
  <2>2. CASE i > Len(s) /\ j > Len(s)
    <3>1. i - Len(s) \in DOMAIN q /\ j - Len(s) \in DOMAIN q
      BY <1>1, <2>2
    <3>2. q[i - Len(s)] = q[j - Len(s)]
      BY <1>1, <1>2, <2>2
    <3>3. i - Len(s) = j - Len(s)
      BY <3>1, <3>2 DEF IsInjective
    <3> QED BY <1>1, <3>3
  <2>3. CASE i <= Len(s) /\ j > Len(s)
    <3>1. i \in DOMAIN s /\ j - Len(s) \in DOMAIN q /\ r[i] = s[i] /\ r[j] = q[j - Len(s)]
      BY <1>1, <2>3
    <3> QED BY <1>2, <3>1 DEF Range
  <2>4. CASE i > Len(s) /\ j <= Len(s)
    <3>1. j \in DOMAIN s /\ i - Len(s) \in DOMAIN q /\ r[j] = s[j] /\ r[i] = q[i - Len(s)]
      BY <1>1, <2>4
    <3> QED BY <1>2, <3>1 DEF Range
  <2> QED BY <1>1, <2>1, <2>2, <2>3, <2>4
<1>3. Range(r) \subseteq Range(s) \cup Range(q)
  <2> SUFFICES ASSUME NEW i \in DOMAIN r PROVE r[i] \in Range(s) \cup Range(q)
    BY DEF Range
  <2>1. \/ i \in DOMAIN s /\ r[i] = s[i]
        \/ i - Len(s) \in DOMAIN q /\ r[i] = q[i - Len(s)]
    BY <1>1
  <2> QED BY <2>1 DEF Range
<1>4. Range(s) \subseteq Range(r)
  BY <1>1 DEF Range
<1>5. Range(q) \subseteq Range(r)
  <2> SUFFICES ASSUME NEW i \in DOMAIN q PROVE q[i] \in Range(r)
    BY DEF Range
  <2>1. Len(s) + i \in DOMAIN r /\ r[Len(s) + i] = q[i]
    BY <1>1
  <2> QED BY <2>1 DEF Range
<1> QED BY <1>1, <1>2, <1>3, <1>4, <1>5 DEF r, IsInjective

\* Erasing one element of a list.
LEMMA ErasedFromList ==
  ASSUME NEW s \in Seq(Block), IsInjective(s), NEW i \in DOMAIN s
  PROVE  /\ RemoveAt(s, i) \in Seq(Block)
         /\ Len(RemoveAt(s, i)) = Len(s) - 1
         /\ IsInjective(RemoveAt(s, i))
         /\ Range(RemoveAt(s, i)) = Range(s) \ {s[i]}
<1> DEFINE r == RemoveAt(s, i)
<1>0. Len(s) \in Nat /\ DOMAIN s = 1 .. Len(s) /\ i \in 1 .. Len(s)
  OBVIOUS
<1>1. /\ Len(s) \in Nat /\ DOMAIN s = 1 .. Len(s) /\ i \in 1 .. Len(s)
      /\ r \in Seq(Block) /\ Len(r) = Len(s) - 1 /\ DOMAIN r = 1 .. Len(s) - 1
      /\ \A j \in 1 .. Len(s) - 1 : r[j] = IF j < i THEN s[j] ELSE s[j + 1]
  <2> DEFINE u == SubSeq(s, 1, i - 1)
             w == SubSeq(s, i + 1, Len(s))
  <2>1. u \in Seq(Block) /\ Len(u) = i - 1 /\ \A j \in 1 .. i - 1 : u[j] = s[j]
    BY <1>0
  <2>2. w \in Seq(Block) /\ Len(w) = Len(s) - i /\ \A j \in 1 .. Len(s) - i : w[j] = s[i + j]
    BY <1>0
  <2>3. r = u \o w
    BY DEF RemoveAt
  <2> HIDE DEF u, w, r
  <2>4. r \in Seq(Block) /\ Len(r) = Len(u) + Len(w) /\ DOMAIN r = 1 .. Len(u) + Len(w)
    BY <2>1, <2>2, <2>3
  <2>5. ASSUME NEW j \in 1 .. Len(s) - 1 PROVE r[j] = IF j < i THEN s[j] ELSE s[j + 1]
    <3>1. CASE j < i
      BY <1>0, <2>1, <2>2, <2>3, <3>1
    <3>2. CASE ~(j < i)
      <4>1. j - (i - 1) \in 1 .. Len(s) - i /\ i + (j - (i - 1)) = j + 1
        BY <1>0, <3>2
      <4>2. j \in 1 .. Len(u) + Len(w) /\ ~(j <= Len(u))
        BY <1>0, <2>1, <2>2, <3>2
      <4>3. r[j] = w[j - Len(u)]
        <5>1. u \in Seq(Block) /\ w \in Seq(Block)
          BY ONLY <2>1, <2>2
        <5> QED BY ONLY <2>3, <4>2, <5>1
      <4>4. j - Len(u) \in 1 .. Len(s) - i /\ i + (j - Len(u)) = j + 1
        BY ONLY <2>1, <4>1
      <4>5. w[j - Len(u)] = s[j + 1]
        BY ONLY <2>2, <4>4
      <4> QED BY ONLY <3>2, <4>3, <4>5
    <3> QED BY <3>1, <3>2
  <2> QED BY <1>0, <2>1, <2>2, <2>4, <2>5
<1> HIDE DEF r
<1>2. ASSUME NEW j \in DOMAIN r, NEW k \in DOMAIN r, r[j] = r[k] PROVE j = k
  <2> DEFINE at(n) == IF n < i THEN n ELSE n + 1
  <2>1. /\ at(j) \in DOMAIN s /\ at(k) \in DOMAIN s
        /\ r[j] = s[at(j)] /\ r[k] = s[at(k)] /\ (at(j) = at(k) => j = k)
    BY <1>1
  <2> HIDE DEF at
  <2> QED BY <1>2, <2>1 DEF IsInjective
<1>3. ASSUME NEW j \in DOMAIN r PROVE r[j] \in Range(s) \ {s[i]}
  <2>1. PICK k \in DOMAIN s : k # i /\ r[j] = s[k]
    BY <1>1
  <2> QED BY <2>1 DEF Range, IsInjective
<1>4. ASSUME NEW k \in DOMAIN s, s[k] # s[i] PROVE s[k] \in Range(r)
  <2>1. k # i
    BY <1>4
  <2>2. \E j \in DOMAIN r : r[j] = s[k]
    <3>1. CASE k < i
      BY <1>1, <3>1
    <3>2. CASE k > i
      <4>1. k - 1 \in DOMAIN r /\ ~(k - 1 < i) /\ k - 1 + 1 = k
        BY <1>1, <3>2
      <4> QED BY <1>1, <4>1
    <3> QED BY <1>1, <2>1, <3>1, <3>2
  <2> QED BY <2>2 DEF Range
<1> QED BY <1>1, <1>2, <1>3, <1>4 DEF r, IsInjective, Range
-----------------------------------------------------------------------------
(***************************************************************************)
(* What FindNextBlocksToDownload answers.                                  *)
(***************************************************************************)

\* CBlockIndex::GetAncestor finds a block at each height of a chain.
LEMMA AncestorFound ==
  ASSUME NEW b \in Block, NEW h \in Nat, h <= Height[b]
  PROVE  Ancestor(b, h) \in Chain[b]
<1> DEFINE T == {n \in Nat : n >= h /\ \E a \in Chain[b] : Height[a] = n}
<1>1. Height[b] \in T
  BY ChainContains, HeightType
<1>2. PICK n \in T : \A m \in T : n <= m
  BY <1>1, LeastNatural
<1>3. PICK a \in Chain[b] : Height[a] = n
  OBVIOUS
<1>4. a \in Block
  BY ChainContains
<1>5. CASE n = h
  BY <1>3, <1>5 DEF Ancestor
<1>6. CASE n # h
  <2>1. a # Genesis
    <3> SUFFICES ASSUME a = Genesis PROVE FALSE
      OBVIOUS
    <3>1. Cardinality(Chain[a]) = 1 /\ Cardinality(Chain[a]) = Height[a] + 1 /\ Height[a] \in Nat
      BY <1>4, ChainOfGenesis, FS_Singleton, HeightType
    <3> QED BY <1>3, <1>6, <3>1
  <2>2. Parent[a] \in Chain[b] /\ Parent[a] \in Block
    BY <2>1, ChainClosed
  <2>3. Height[Parent[a]] \in Nat /\ Height[a] = Height[Parent[a]] + 1
    BY <1>4, <2>1, <2>2, HeightStep, HeightType
  <2>4. Height[Parent[a]] \in T
    BY <1>3, <1>6, <2>2, <2>3
  <2> QED BY <1>2, <1>3, <2>3, <2>4
<1> QED BY <1>5, <1>6

\* Blocks of one chain have a lowest one.
LEMMA LowestIsOne ==
  ASSUME NEW b \in Block, NEW S \in SUBSET Chain[b], S # {}
  PROVE  Lowest(S) \in S
<1> DEFINE T == {Height[x] : x \in S}
<1>1. \A x \in S : x \in Block /\ Height[x] \in Nat
  BY ChainContains, HeightType
<1>2. T \subseteq Nat /\ T # {}
  BY <1>1
<1>3. PICK n \in T : \A m \in T : n <= m
  BY <1>2, LeastNatural
<1>4. PICK x \in S : Height[x] = n
  OBVIOUS
<1>5. ASSUME NEW y \in Chain[x] \cap S PROVE y = x
  BY <1>1, <1>3, <1>4, <1>5, HeightGrows
<1>6. Chain[x] \cap S = {x}
  BY <1>1, <1>4, <1>5, ChainContains
<1> QED BY <1>4, <1>6 DEF Lowest

\* The first count blocks of some blocks on one chain are not more than count,
\* and the first ones.
LEMMA FirstFew ==
  ASSUME NEW b \in Block, NEW S \in SUBSET Chain[b], NEW count \in Nat
  PROVE  LET few == {x \in S : Cardinality(Chain[x] \cap S) <= count} IN
         /\ IsFiniteSet(few) /\ Cardinality(few) \in Nat /\ Cardinality(few) <= count
         /\ \A x \in few : Chain[x] \cap S \subseteq few
<1> DEFINE Rank(x) == Cardinality(Chain[x] \cap S)
           few == {x \in S : Rank(x) <= count}
           f == [x \in few |-> Rank(x)]
<1>1. S \subseteq Block /\ IsFiniteSet(S)
  BY ChainContains, TreeAssumption, FS_Subset
<1>2. ASSUME NEW x \in S
      PROVE  /\ IsFiniteSet(Chain[x] \cap S) /\ x \in Chain[x] \cap S
             /\ Rank(x) \in Nat /\ Rank(x) # 0
  <2>1. IsFiniteSet(Chain[x] \cap S) /\ x \in Chain[x] \cap S
    BY <1>1, FS_Subset, ChainContains
  <2> QED BY <2>1, FS_CardinalityType, FS_EmptySet
<1>3. ASSUME NEW x \in S, NEW y \in S, x \in Chain[y]
      PROVE  /\ Chain[x] \cap S \subseteq Chain[y] \cap S
             /\ Rank(x) <= Rank(y)
             /\ Rank(x) = Rank(y) => x = y
  <2>1. Chain[x] \cap S \subseteq Chain[y] \cap S
    BY <1>1, <1>3, ChainTransitive
  <2>2. Rank(x) <= Rank(y) /\ (Rank(x) = Rank(y) => Chain[x] \cap S = Chain[y] \cap S)
    BY <1>2, <2>1, FS_Subset
  <2>3. ASSUME Chain[x] \cap S = Chain[y] \cap S PROVE x = y
    <3>1. y \in Chain[x]
      BY <1>2, <2>3
    <3>2. x # y => Height[x] < Height[y] /\ Height[y] < Height[x]
      BY <1>1, <1>3, <3>1, HeightGrows
    <3> QED BY <1>1, <3>2, HeightType
  <2> QED BY <2>1, <2>2, <2>3
<1> HIDE DEF Rank
<1>4. f \in Injection(few, 1 .. count)
  <2>1. ASSUME NEW x \in few PROVE f[x] \in 1 .. count
    <3>1. x \in S /\ Rank(x) <= count /\ f[x] = Rank(x)
      OBVIOUS
    <3>2. Rank(x) \in Nat /\ Rank(x) # 0
      BY <1>2, <3>1
    <3> QED BY <3>1, <3>2
  <2>2. ASSUME NEW x \in few, NEW y \in few, f[x] = f[y] PROVE x = y
    <3>1. x \in Chain[y] \/ y \in Chain[x]
      BY ChainLinear
    <3>2. Rank(x) = Rank(y)
      BY <2>2
    <3> QED BY <1>3, <3>1, <3>2
  <2> QED BY <2>1, <2>2 DEF Injection, IsInjective
<1>5. IsFiniteSet(1 .. count) /\ Cardinality(1 .. count) = count
  <2> HIDE DEF few, f
  <2>1. 1 \in Int /\ count \in Int
    OBVIOUS
  <2>2. /\ IsFiniteSet(1 .. count)
        /\ Cardinality(1 .. count) = IF 1 > count THEN 0 ELSE count - 1 + 1
    BY ONLY <2>1, FS_Interval
  <2> QED BY <2>2
<1>6. IsFiniteSet(few) /\ Cardinality(few) <= count
  BY <1>4, <1>5, FS_Injection
<1>7. ASSUME NEW x \in few, NEW y \in Chain[x] \cap S PROVE y \in few
  <2>1. Rank(x) <= count /\ Rank(y) <= Rank(x)
    BY <1>3
  <2>2. Rank(x) \in Nat /\ Rank(y) \in Nat
    BY <1>2
  <2> QED BY <2>1, <2>2
<1> QED BY <1>6, <1>7, FS_CardinalityType DEF Rank
\* pindexLastCommonBlock, once set or corrected, is on the chain of the best
\* known block, and everything up to it is here.
LEMMA CommonFacts ==
  ASSUME BlocksInv, NEW s, NodeOK(s), s.pindexBestKnownBlock # NULL
  PROVE  /\ s.pindexBestKnownBlock \in mapBlockIndex /\ s.pindexBestKnownBlock \in Block
         /\ CommonBlock(s) \in Chain[s.pindexBestKnownBlock]
         /\ CommonBlock(s) \in Block
         /\ Chain[CommonBlock(s)] \subseteq haveData
<1> DEFINE best == s.pindexBestKnownBlock
           other == IF s.pindexLastCommonBlock # NULL THEN s.pindexLastCommonBlock
                    ELSE Ancestor(tip, Lesser(Height[best], Height[tip]))
<1>1. best \in mapBlockIndex /\ best \in Block
  BY DEF NodeOK, BlocksInv
<1>2. other \in Block /\ Chain[other] \subseteq haveData
  <2>1. CASE s.pindexLastCommonBlock # NULL
    BY <2>1 DEF NodeOK, NodeState
  <2>2. CASE s.pindexLastCommonBlock = NULL
    <3>1. tip \in Block /\ Height[tip] \in Nat /\ Height[best] \in Nat
      BY <1>1, HeightType DEF BlocksInv
    <3>2. Lesser(Height[best], Height[tip]) \in Nat /\ Lesser(Height[best], Height[tip]) <= Height[tip]
      BY <3>1 DEF Lesser
    <3>3. other \in Chain[tip]
      BY <2>2, <3>1, <3>2, AncestorFound
    <3> QED BY <3>1, <3>3, ChainContains, ChainTransitive DEF BlocksInv
  <2> QED BY <2>1, <2>2
<1> HIDE DEF best, other
<1>3. CommonBlock(s) = Highest(Chain[best] \cap Chain[other])
  BY DEF CommonBlock, LastCommonAncestor, best, other
<1>4. Genesis \in Chain[best] \cap Chain[other]
  BY <1>1, <1>2, GenesisInChain
<1>5. CommonBlock(s) \in Chain[best] \cap Chain[other]
  <2>1. Chain[best] \cap Chain[other] \in SUBSET Chain[best]
    OBVIOUS
  <2> QED BY <1>1, <1>3, <1>4, <2>1, HighestIsOne
<1>6. CommonBlock(s) \in Block /\ Chain[CommonBlock(s)] \subseteq haveData
  BY <1>1, <1>2, <1>5, ChainContains, ChainTransitive
<1> QED BY <1>1, <1>5, <1>6 DEF best

\* What is found to download: at most count known blocks that are neither here
\* nor in flight; what is below each of them is here, in flight or asked for with
\* it, and valid.  The node that stalls has something in flight.
Found(next, count) ==
  /\ next.common \in Block /\ Chain[next.common] \subseteq haveData
  /\ next.vBlocks \subseteq mapBlockIndex \ (haveData \cup DOMAIN mapBlocksInFlight)
  /\ Cardinality(next.vBlocks) \in Nat /\ Cardinality(next.vBlocks) <= count
  /\ \A b \in next.vBlocks :
       /\ Chain[b] \subseteq haveData \cup DOMAIN mapBlocksInFlight \cup next.vBlocks
       /\ Chain[b] \cap failed = {}
  /\ \A q \in next.staller : \E b \in DOMAIN mapBlocksInFlight : mapBlocksInFlight[b] = q

\* FindNextBlocksToDownload finds that.
LEMMA FindNextFacts ==
  ASSUME BlocksInv, NEW p, NEW s, NodeOK(s), s.pindexBestKnownBlock # NULL, NEW count \in Nat,
         NEW next, next = FindNextBlocksToDownload(p, s, count)
  PROVE  Found(next, count)
<1> DEFINE best == s.pindexBestKnownBlock
           from == CommonBlock(s)
           nWindowEnd == Height[from] + Window
           path == PathUp(from, best, nWindowEnd + 1)
           Beyond(b) == Missing(b) /\ Height[b] > nWindowEnd
           ends == {b \in path : Invalid(b) \/ Beyond(b)}
           seen == {b \in path : Chain[b] \cap ends = {}}
           missing == {b \in seen : Missing(b)}
           common == seen \cap Linked(haveData)
           busy == seen \cap DOMAIN mapBlocksInFlight
           waitingfor == IF busy = {} THEN {} ELSE {mapBlocksInFlight[Lowest(busy)]}
           stalled == ends # {} /\ ~Invalid(Lowest(ends)) /\ missing = {}
           few == {b \in missing : Cardinality(Chain[b] \cap missing) <= count}
<1>1. /\ next.common = IF common = {} THEN from ELSE Highest(common)
      /\ next.vBlocks = few
      /\ next.staller = IF stalled THEN waitingfor \ {p} ELSE {}
  BY DEF FindNextBlocksToDownload
<1>2. /\ best \in mapBlockIndex /\ best \in Block /\ from \in Chain[best] /\ from \in Block
      /\ Chain[from] \subseteq haveData
  BY CommonFacts
<1>3. Chain[best] \subseteq mapBlockIndex /\ Chain[best] \subseteq Block
  BY <1>2, ChainContains DEF BlocksInv
<1>4. /\ path \subseteq Chain[best] /\ seen \subseteq path /\ missing \subseteq seen
      /\ few \subseteq missing /\ common \subseteq Chain[best] /\ busy \subseteq Chain[best]
      /\ missing \subseteq Chain[best]
  BY DEF PathUp
<1>5. next.common \in Block /\ Chain[next.common] \subseteq haveData
  <2>1. CASE common = {}
    BY <1>1, <1>2, <2>1
  <2>2. CASE common # {}
    <3> HIDE DEF common
    <3>1. Highest(common) \in common
      BY <1>2, <1>4, <2>2, HighestIsOne
    <3>2. Highest(common) \in Block /\ Highest(common) \in Linked(haveData)
      BY <1>3, <1>4, <3>1 DEF common
    <3> QED BY <1>1, <2>2, <3>2 DEF Linked
  <2> QED BY <2>1, <2>2
<1>6. next.vBlocks \subseteq mapBlockIndex \ (haveData \cup DOMAIN mapBlocksInFlight)
  <2>1. next.vBlocks \subseteq missing /\ missing \subseteq mapBlockIndex
    BY ONLY <1>1, <1>3, <1>4
  <2>2. \A b \in missing : b \notin haveData /\ b \notin DOMAIN mapBlocksInFlight
    BY DEF Missing
  <2> HIDE DEF missing
  <2> QED BY ONLY <2>1, <2>2
<1>7. /\ Cardinality(few) \in Nat /\ Cardinality(few) <= count
      /\ \A x \in few : Chain[x] \cap missing \subseteq few
  <2>1. best \in Block /\ missing \in SUBSET Chain[best]
    BY ONLY <1>2, <1>4
  <2> HIDE DEF missing, best
  <2> QED BY ONLY <2>1, count \in Nat, FirstFew
<1>8. ASSUME NEW b \in few, NEW a \in Chain[b]
      PROVE  a \in haveData \cup DOMAIN mapBlocksInFlight \cup few /\ a \notin failed
  <2>1. /\ b \in path /\ b \in Chain[best] /\ b \in Block /\ a \in Chain[best] /\ a \in Block
        /\ Chain[a] \subseteq Chain[b]
    BY <1>2, <1>3, <1>4, <1>8, ChainTransitive
  <2>2. Height[a] \in Nat /\ Height[b] \in Nat /\ Height[from] \in Nat /\ Height[a] <= Height[b]
    BY <1>2, <2>1, HeightType, HeightGrows
  <2>3. CASE Height[a] <= Height[from]
    <3>1. a \in Chain[from]
      BY <1>2, <2>1, <2>3, ChainBelow
    <3> QED BY <1>2, <3>1 DEF BlocksInv
  <2>4. CASE Height[a] > Height[from]
    <3>1. a \in path
      BY <2>1, <2>2, <2>4, DownloadAssumption DEF PathUp
    <3>2. Chain[b] \cap ends = {}
      BY <1>4
    <3>3. a \in seen /\ a \notin ends
      BY <1>8, <2>1, <3>1, <3>2
    <3>4. a \notin failed
      BY <3>1, <3>3 DEF Invalid
    <3>5. CASE Missing(a)
      <4>1. a \in missing
        BY <3>3, <3>5
      <4> QED BY <1>7, <1>8, <3>4, <4>1
    <3>6. CASE ~Missing(a)
      BY <3>4, <3>6 DEF Missing
    <3> QED BY <3>5, <3>6
  <2> QED BY <2>2, <2>3, <2>4
<1>9. ASSUME NEW q \in next.staller
      PROVE  \E b \in DOMAIN mapBlocksInFlight : mapBlocksInFlight[b] = q
  <2>1. busy # {} /\ q = mapBlocksInFlight[Lowest(busy)]
    BY <1>1, <1>9
  <2>2. busy \subseteq DOMAIN mapBlocksInFlight
    OBVIOUS
  <2> HIDE DEF busy
  <2>3. Lowest(busy) \in busy
    BY <1>2, <1>4, <2>1, LowestIsOne
  <2> QED BY <2>1, <2>2, <2>3
<1>10. Cardinality(next.vBlocks) \in Nat /\ Cardinality(next.vBlocks) <= count
  BY <1>1, <1>7
<1>11. \A b \in next.vBlocks :
         /\ Chain[b] \subseteq haveData \cup DOMAIN mapBlocksInFlight \cup next.vBlocks
         /\ Chain[b] \cap failed = {}
  BY <1>1, <1>8
<1> QED BY <1>5, <1>6, <1>9, <1>10, <1>11 DEF Found
-----------------------------------------------------------------------------
(***************************************************************************)
(* What the handlers make of a node.                                       *)
(***************************************************************************)

\* The lists of bounded length.
LEMMA BoundedLists ==
  ASSUME NEW q
  PROVE  q \in SeqOf(Block, MaxInTransit) <=> q \in Seq(Block) /\ Len(q) <= MaxInTransit
<1>1. MaxInTransit \in Nat
  BY DownloadAssumption
<1>2. ASSUME q \in SeqOf(Block, MaxInTransit) PROVE q \in Seq(Block) /\ Len(q) <= MaxInTransit
  <2>1. PICK m \in 0 .. MaxInTransit : q \in [1 .. m -> Block]
    BY <1>2 DEF SeqOf
  <2>2. m \in Nat /\ q \in Seq(Block) /\ Len(q) = m
    BY <1>1, <2>1
  <2> QED BY <1>1, <2>1, <2>2
<1>3. ASSUME q \in Seq(Block), Len(q) <= MaxInTransit PROVE q \in SeqOf(Block, MaxInTransit)
  <2>1. Len(q) \in 0 .. MaxInTransit /\ q \in [1 .. Len(q) -> Block]
    BY <1>1, <1>3
  <2> QED BY <2>1 DEF SeqOf
<1> QED BY <1>2, <1>3

\* s and u differ only in what the node is known to have.
KnowsOnly(s, u) ==
  /\ u.fVersion = s.fVersion /\ u.fDisconnect = s.fDisconnect
  /\ u.fPreferredDownload = s.fPreferredDownload /\ u.fSyncStarted = s.fSyncStarted
  /\ u.fStalling = s.fStalling /\ u.vBlocksInFlight = s.vBlocksInFlight
  /\ u.pindexLastCommonBlock = s.pindexLastCommonBlock

\* ProcessBlockAvailability and UpdateBlockAvailability enter known blocks only.
LEMMA Availability ==
  ASSUME BlocksInv, NEW s, NodeOK(s), NEW b \in Block
  PROVE  /\ NodeOK(ProcessBlockAvailability(s)) /\ KnowsOnly(s, ProcessBlockAvailability(s))
         /\ NodeOK(UpdateBlockAvailability(s, b)) /\ KnowsOnly(s, UpdateBlockAvailability(s, b))
<1>1. ASSUME NEW u, NodeOK(u), NEW c \in mapBlockIndex
      PROVE  NodeOK(Improved(u, c)) /\ KnowsOnly(u, Improved(u, c))
  BY <1>1 DEF NodeOK, NodeState, Improved, KnowsOnly, BlocksInv
<1>2. ASSUME NEW u, NodeOK(u), NEW c \in Block \cup {NULL}
      PROVE  /\ NodeOK([u EXCEPT !.hashLastUnknownBlock = c])
             /\ KnowsOnly(u, [u EXCEPT !.hashLastUnknownBlock = c])
  BY <1>2 DEF NodeOK, NodeState, KnowsOnly
<1>3. ASSUME NEW u, NEW v, NEW w, KnowsOnly(u, v), KnowsOnly(v, w) PROVE KnowsOnly(u, w)
  BY <1>3 DEF KnowsOnly
<1>4. KnowsOnly(s, s)
  BY DEF KnowsOnly
<1> DEFINE up == ProcessBlockAvailability(s)
<1>5. NodeOK(up) /\ KnowsOnly(s, up)
  <2>1. CASE s.hashLastUnknownBlock \in mapBlockIndex
    <3>1. NodeOK(Improved(s, s.hashLastUnknownBlock)) /\ KnowsOnly(s, Improved(s, s.hashLastUnknownBlock))
      BY <1>1, <2>1
    <3> QED BY <1>2, <1>3, <2>1, <3>1 DEF ProcessBlockAvailability
  <2>2. CASE s.hashLastUnknownBlock \notin mapBlockIndex
    BY <1>4, <2>2 DEF ProcessBlockAvailability
  <2> QED BY <2>1, <2>2
<1> HIDE DEF up
<1>6. UpdateBlockAvailability(s, b) =
        IF b \in mapBlockIndex THEN Improved(up, b) ELSE [up EXCEPT !.hashLastUnknownBlock = b]
  BY DEF UpdateBlockAvailability, up
<1>7. NodeOK(UpdateBlockAvailability(s, b)) /\ KnowsOnly(s, UpdateBlockAvailability(s, b))
  <2>1. CASE b \in mapBlockIndex
    BY <1>1, <1>3, <1>5, <1>6, <2>1
  <2>2. CASE b \notin mapBlockIndex
    BY <1>2, <1>3, <1>5, <1>6, <2>2
  <2> QED BY <2>1, <2>2
<1> QED BY <1>5, <1>7 DEF up

\* The list of a node holds what is in flight from it.
LEMMA ListFacts ==
  ASSUME NodesInv, FlightInv, NEW p \in Nodes
  PROVE  LET list == mapNodeState[p].vBlocksInFlight IN
         /\ list \in Seq(Block) /\ Len(list) \in Nat /\ Len(list) <= MaxInTransit
         /\ IsInjective(list)
         /\ \A b : b \in Range(list) <=> b \in DOMAIN mapBlocksInFlight /\ mapBlocksInFlight[b] = p
<1>1. mapNodeState[p].vBlocksInFlight \in SeqOf(Block, MaxInTransit)
  BY DEF NodesInv, NodeOK, NodeState
<1>2. /\ mapNodeState[p].vBlocksInFlight \in Seq(Block)
      /\ Len(mapNodeState[p].vBlocksInFlight) \in Nat
      /\ Len(mapNodeState[p].vBlocksInFlight) <= MaxInTransit
  BY <1>1, BoundedLists
<1> QED BY <1>2 DEF FlightInv, ListsAgree

-----------------------------------------------------------------------------
(***************************************************************************)
(* The steps.                                                              *)
(***************************************************************************)

\* At the start nothing is known.
LEMMA InitCorrect == Init => IInv
<1> SUFFICES ASSUME Init PROVE IInv
  OBVIOUS
<1>1. DOMAIN mapNodeState = {} /\ DOMAIN mapBlocksInFlight = {}
  BY DEF Init
<1>2. BlocksInv
  BY TreeAssumption, ChainOfGenesis DEF Init, BlocksInv
<1>3. NodesInv
  BY <1>1, FS_EmptySet DEF Init, NodesInv, Nodes
<1>4. FlightInv
  BY <1>1 DEF FlightInv, ListsAgree, StallerIsBusy, Nodes, Range
<1>5. /\ {p \in Nodes : mapNodeState[p].fSyncStarted} = {}
      /\ {p \in Nodes : mapNodeState[p].fPreferredDownload} = {}
  BY <1>1 DEF Nodes
<1>6. CountsInv
  <2>1. Cardinality({}) = 0
    BY FS_EmptySet
  <2>2. nSyncStarted = 0 /\ nPreferredDownload = 0 /\ nQueuedValidatedHeaders = 0
    BY DEF Init
  <2>3. Cardinality(DOMAIN mapBlocksInFlight) = 0
    BY <1>1, <2>1
  <2>4. /\ Cardinality({p \in Nodes : mapNodeState[p].fSyncStarted}) = 0
        /\ Cardinality({p \in Nodes : mapNodeState[p].fPreferredDownload}) = 0
    BY ONLY <1>5, <2>1
  <2>5. CountsAgree
    BY ONLY <2>2, <2>3, <2>4 DEF CountsAgree
  <2> QED BY <2>2, <2>5 DEF CountsInv
<1> QED BY <1>2, <1>3, <1>4, <1>6 DEF IInv

\* What is known of the blocks grows, by whole chains.
LEMMA BlocksStep ==
  ASSUME BlocksInv, [Next]_vars
  PROVE  /\ BlocksInv'
         /\ mapBlockIndex \subseteq mapBlockIndex' /\ haveData \subseteq haveData'
<1>1. CASE UNCHANGED blockVars
  BY <1>1 DEF blockVars, BlocksInv
<1>2. ASSUME NEW b \in Block \ {Genesis}, Entered(b)
      PROVE  /\ mapBlockIndex' = mapBlockIndex \cup {b} /\ mapBlockIndex' \subseteq Block
             /\ \A x \in mapBlockIndex' : Chain[x] \subseteq mapBlockIndex'
  <2>1. Chain[b] = Chain[Parent[b]] \cup {b} /\ Parent[b] \in mapBlockIndex
    BY <1>2, ChainStep DEF Entered
  <2> QED BY <1>2, <2>1 DEF Entered, BlocksInv
<1>3. ASSUME NEW b \in Block \ {Genesis}, RefusedLate(b)
      PROVE  BlocksInv' /\ mapBlockIndex \subseteq mapBlockIndex' /\ haveData \subseteq haveData'
  BY <1>2, <1>3 DEF RefusedLate, BlocksInv
<1>4. ASSUME NEW b \in Block \ {Genesis}, Taken(b)
      PROVE  BlocksInv' /\ mapBlockIndex \subseteq mapBlockIndex' /\ haveData \subseteq haveData'
  <2>1. haveData' = haveData \cup {b} /\ failed' = failed /\ b \notin failed
    BY <1>4 DEF Taken, Entered
  <2>2. tip' = tip \/ tip' \in Linked(haveData')
    BY <1>4 DEF Taken
  <2>3. /\ mapBlockIndex' = mapBlockIndex \cup {b} /\ mapBlockIndex' \subseteq Block
        /\ \A x \in mapBlockIndex' : Chain[x] \subseteq mapBlockIndex'
    BY <1>2, <1>4 DEF Taken
  <2>4. tip' \in Block /\ Chain[tip'] \subseteq haveData'
    BY <2>1, <2>2, <2>3 DEF Linked, BlocksInv
  <2> QED BY <2>1, <2>3, <2>4 DEF BlocksInv
<1>5. ASSUME NEW b \in Block \ {Genesis}, ProcessNewBlock(b)
      PROVE  BlocksInv' /\ mapBlockIndex \subseteq mapBlockIndex' /\ haveData \subseteq haveData'
  BY <1>1, <1>3, <1>4, <1>5 DEF ProcessNewBlock
<1>6. \/ UNCHANGED blockVars
      \/ \E b \in Block \ {Genesis} : ProcessNewBlock(b)
  <2>1. ASSUME NEW p \in Peer, InitializeNode(p) \/ Version(p) \/ FinalizeNode(p) PROVE UNCHANGED blockVars
    BY <2>1 DEF InitializeNode, Version, FinalizeNode
  <2>2. ASSUME NEW p \in Peer, SendAny(p) PROVE UNCHANGED blockVars
    BY <2>2 DEF SendAny, SendMessages
  <2>3. ASSUME NEW p \in Peer, NEW b \in Block \ {Genesis}, Inv(p, b) PROVE UNCHANGED blockVars
    BY <2>3 DEF Inv
  <2>4. ASSUME NEW b \in Block \ {Genesis}, SubmitBlock(b) \/ \E p \in Peer : ReceiveBlock(p, b)
        PROVE  ProcessNewBlock(b)
    BY <2>4 DEF ReceiveBlock, SubmitBlock
  <2>5. CASE UNCHANGED vars
    BY <2>5 DEF vars
  <2> QED BY <2>1, <2>2, <2>3, <2>4, <2>5 DEF Next
<1> QED BY <1>1, <1>5, <1>6
\* A handler that leaves the lists and the blocks alone keeps the books of what
\* is in flight.
LEMMA FlightKept ==
  ASSUME FlightInv, NEW p \in Nodes, NEW s, mapNodeState' = [mapNodeState EXCEPT ![p] = s],
         s.vBlocksInFlight = mapNodeState[p].vBlocksInFlight,
         s.fStalling = mapNodeState[p].fStalling,
         UNCHANGED <<blockVars, mapBlocksInFlight>>
  PROVE  FlightInv'
<1>1. Nodes' = Nodes
  BY DEF Nodes
<1>2. \A q \in Nodes : /\ mapNodeState'[q].vBlocksInFlight = mapNodeState[q].vBlocksInFlight
                       /\ mapNodeState'[q].fStalling = mapNodeState[q].fStalling
  BY DEF Nodes
<1>3. mapBlocksInFlight' = mapBlocksInFlight /\ mapBlockIndex' = mapBlockIndex /\ haveData' = haveData
  BY DEF blockVars
<1>4. ListsAgree'
  BY <1>1, <1>2, <1>3 DEF FlightInv, ListsAgree
<1>5. StallerIsBusy'
  BY <1>1, <1>2 DEF FlightInv, StallerIsBusy
<1> QED BY <1>3, <1>4, <1>5 DEF FlightInv

\* MarkBlockAsReceived takes b out of the list that it is in, and nothing else.
LEMMA ReceivedStep ==
  ASSUME BlocksInv, NodesInv, FlightInv, CountsInv, NEW b \in Block, MarkBlockAsReceived(b)
  PROVE  /\ Nodes' = Nodes
         /\ DOMAIN mapBlocksInFlight' = DOMAIN mapBlocksInFlight \ {b}
         /\ ListsAgree' /\ StallerIsBusy'
         /\ \A p \in Nodes :
              /\ mapNodeState'[p] \in NodeState
              /\ mapNodeState'[p].fVersion = mapNodeState[p].fVersion
              /\ mapNodeState'[p].fPreferredDownload = mapNodeState[p].fPreferredDownload
              /\ mapNodeState'[p].fSyncStarted = mapNodeState[p].fSyncStarted
              /\ mapNodeState'[p].pindexBestKnownBlock = mapNodeState[p].pindexBestKnownBlock
              /\ mapNodeState'[p].pindexLastCommonBlock = mapNodeState[p].pindexLastCommonBlock
         /\ nQueuedValidatedHeaders' \in Int
         /\ nQueuedValidatedHeaders' >= Cardinality(DOMAIN mapBlocksInFlight')
<1>1. CASE b \notin DOMAIN mapBlocksInFlight
  <2>1. UNCHANGED <<mapNodeState, mapBlocksInFlight, nQueuedValidatedHeaders>>
    BY <1>1 DEF MarkBlockAsReceived
  <2>2. Nodes' = Nodes /\ ListsAgree' /\ StallerIsBusy'
    BY <2>1 DEF Nodes, FlightInv, ListsAgree, StallerIsBusy
  <2>3. \A p \in Nodes : mapNodeState[p] \in NodeState
    BY DEF NodesInv, NodeOK
  <2> QED BY <1>1, <2>1, <2>2, <2>3 DEF CountsInv, CountsAgree
<1>2. CASE b \in DOMAIN mapBlocksInFlight
  <2> DEFINE q == mapBlocksInFlight[b]
             s == mapNodeState[q]
             list == s.vBlocksInFlight
             i == CHOOSE n \in DOMAIN list : list[n] = b
             u == Received(s, b)
  <2>1. /\ mapNodeState' = [mapNodeState EXCEPT ![q] = u]
        /\ mapBlocksInFlight' = [x \in DOMAIN mapBlocksInFlight \ {b} |-> mapBlocksInFlight[x]]
        /\ nQueuedValidatedHeaders' = nQueuedValidatedHeaders - 1
    BY <1>2 DEF MarkBlockAsReceived, Restrict
  <2>2. q \in Nodes
    BY <1>2 DEF FlightInv, ListsAgree, Range
  <2>3. /\ list \in Seq(Block) /\ Len(list) \in Nat /\ Len(list) <= MaxInTransit
        /\ IsInjective(list)
        /\ \A x : x \in Range(list) <=> x \in DOMAIN mapBlocksInFlight /\ mapBlocksInFlight[x] = q
    BY <2>2, ListFacts
  <2>4. i \in DOMAIN list /\ list[i] = b
    <3>1. b \in Range(list)
      BY <1>2, <2>3
    <3> QED BY <3>1 DEF Range
  <2>5. s \in NodeState
    BY <2>2 DEF NodesInv, NodeOK
  <2> DEFINE rest == RemoveAt(list, i)
  <2>6. u = [s EXCEPT !.vBlocksInFlight = rest, !.fStalling = FALSE]
    BY DEF Received
  <2> HIDE DEF i
  <2>7. /\ rest \in Seq(Block) /\ Len(rest) = Len(list) - 1 /\ IsInjective(rest)
        /\ Range(rest) = Range(list) \ {b}
    BY <2>3, <2>4, ErasedFromList
  <2> HIDE DEF rest
  <2>8. rest \in SeqOf(Block, MaxInTransit)
    <3>1. Len(rest) <= MaxInTransit
      BY <2>3, <2>7, DownloadAssumption
    <3> QED BY <2>7, <3>1, BoundedLists
  <2>9. /\ u \in NodeState /\ u.fVersion = s.fVersion
        /\ u.fPreferredDownload = s.fPreferredDownload /\ u.fSyncStarted = s.fSyncStarted
        /\ u.pindexBestKnownBlock = s.pindexBestKnownBlock
        /\ u.pindexLastCommonBlock = s.pindexLastCommonBlock
        /\ u.vBlocksInFlight = rest /\ u.fStalling = FALSE
    <3> HIDE DEF s
    <3> QED BY <2>5, <2>6, <2>8 DEF NodeState
  <2>10. Nodes' = Nodes
    BY <2>1 DEF Nodes
  <2> HIDE DEF u
  <2>11. /\ mapNodeState'[q] = u
         /\ \A p \in Nodes : p # q => mapNodeState'[p] = mapNodeState[p]
    BY <2>1, <2>2 DEF Nodes
  <2>12. \A p \in Nodes :
           /\ mapNodeState'[p] \in NodeState
           /\ mapNodeState'[p].fVersion = mapNodeState[p].fVersion
           /\ mapNodeState'[p].fPreferredDownload = mapNodeState[p].fPreferredDownload
           /\ mapNodeState'[p].fSyncStarted = mapNodeState[p].fSyncStarted
           /\ mapNodeState'[p].pindexBestKnownBlock = mapNodeState[p].pindexBestKnownBlock
           /\ mapNodeState'[p].pindexLastCommonBlock = mapNodeState[p].pindexLastCommonBlock
    BY <2>9, <2>11 DEF NodesInv, NodeOK
  <2>13. /\ DOMAIN mapBlocksInFlight' = DOMAIN mapBlocksInFlight \ {b}
         /\ \A x \in DOMAIN mapBlocksInFlight' : mapBlocksInFlight'[x] = mapBlocksInFlight[x]
    BY <2>1
  <2>14. ASSUME NEW p \in Nodes
         PROVE  /\ IsInjective(mapNodeState'[p].vBlocksInFlight)
                /\ Range(mapNodeState'[p].vBlocksInFlight)
                     = {x \in DOMAIN mapBlocksInFlight' : mapBlocksInFlight'[x] = p}
    <3>1. CASE p = q
      <4>1. Range(rest) = {x \in DOMAIN mapBlocksInFlight' : mapBlocksInFlight'[x] = q}
        BY <2>3, <2>7, <2>13
      <4> QED BY <2>7, <2>9, <2>11, <3>1, <4>1
    <3>2. CASE p # q
      <4>1. mapNodeState'[p].vBlocksInFlight = mapNodeState[p].vBlocksInFlight
        BY <2>11, <3>2
      <4>2. /\ IsInjective(mapNodeState[p].vBlocksInFlight)
            /\ Range(mapNodeState[p].vBlocksInFlight)
                 = {x \in DOMAIN mapBlocksInFlight : mapBlocksInFlight[x] = p}
        BY DEF FlightInv, ListsAgree
      <4> QED BY <2>13, <3>2, <4>1, <4>2
    <3> QED BY <3>1, <3>2
  <2>15. Range(mapBlocksInFlight') \subseteq Nodes'
    BY <2>10, <2>13 DEF FlightInv, ListsAgree, Range
  <2>16. ListsAgree'
    BY <2>10, <2>14, <2>15 DEF ListsAgree
  <2>17. StallerIsBusy'
    BY <2>9, <2>10, <2>11 DEF FlightInv, StallerIsBusy
  <2>18. /\ IsFiniteSet(DOMAIN mapBlocksInFlight)
         /\ Cardinality(DOMAIN mapBlocksInFlight) \in Nat
         /\ Cardinality(DOMAIN mapBlocksInFlight \ {b}) = Cardinality(DOMAIN mapBlocksInFlight) - 1
    <3>1. IsFiniteSet(DOMAIN mapBlocksInFlight)
      BY TreeAssumption, FS_Subset DEF BlocksInv, FlightInv
    <3> QED BY <1>2, <3>1, FS_CardinalityType, FS_RemoveElement
  <2>19. nQueuedValidatedHeaders' >= Cardinality(DOMAIN mapBlocksInFlight')
    BY <2>1, <2>13, <2>18 DEF CountsInv, CountsAgree
  <2> QED BY <2>1, <2>10, <2>12, <2>13, <2>16, <2>17, <2>19 DEF CountsInv
<1> QED BY <1>1, <1>2
\* A counter that goes with a set follows it when one element may come or go.
LEMMA Counted ==
  ASSUME NEW S, IsFiniteSet(S), NEW p, NEW P \in BOOLEAN
  PROVE  /\ Cardinality(S) \in Nat
         /\ (P => p \notin S)
              => Cardinality(S \cup {x \in {p} : P}) = Cardinality(S) + Indicator(P)
         /\ (P <=> p \in S) => Cardinality(S \ {p}) = Cardinality(S) - Indicator(P)
<1>1. /\ Cardinality(S) \in Nat
      /\ Cardinality(S \cup {p}) = IF p \in S THEN Cardinality(S) ELSE Cardinality(S) + 1
      /\ Cardinality(S \ {p}) = IF p \in S THEN Cardinality(S) - 1 ELSE Cardinality(S)
  BY FS_CardinalityType, FS_AddElement, FS_RemoveElement
<1>2. CASE P
  <2>1. {x \in {p} : P} = {p} /\ Indicator(P) = 1
    BY <1>2 DEF Indicator
  <2>2. (P => p \notin S) => Cardinality(S \cup {x \in {p} : P}) = Cardinality(S) + Indicator(P)
    BY <1>1, <1>2, <2>1
  <2>3. (P <=> p \in S) => Cardinality(S \ {p}) = Cardinality(S) - Indicator(P)
    BY <1>1, <1>2, <2>1
  <2> QED BY <1>1, <2>2, <2>3
<1>3. CASE ~P
  <2>1. S \cup {x \in {p} : P} = S /\ Indicator(P) = 0
    BY <1>3 DEF Indicator
  <2>4. Cardinality(S \cup {x \in {p} : P}) = Cardinality(S)
    BY <2>1
  <2>5. Cardinality(S) + Indicator(P) = Cardinality(S)
    BY <1>1, <2>1
  <2>2. (P => p \notin S) => Cardinality(S \cup {x \in {p} : P}) = Cardinality(S) + Indicator(P)
    BY <2>4, <2>5
  <2>3. (P <=> p \in S) => Cardinality(S \ {p}) = Cardinality(S) - Indicator(P)
    BY <1>1, <1>3, <2>1
  <2> QED BY <1>1, <2>2, <2>3
<1> QED BY <1>2, <1>3

\* What the requests to p, with up its state before them, leave of the books.
BooksKept(p, up) ==
  /\ Nodes' = Nodes
  /\ FlightInv'
  /\ \A q \in Nodes : NodeOK(mapNodeState[q])'
  /\ \A q \in Nodes : /\ mapNodeState'[q].fSyncStarted
                          = IF q = p THEN up.fSyncStarted ELSE mapNodeState[q].fSyncStarted
                      /\ mapNodeState'[q].fPreferredDownload
                          = IF q = p THEN up.fPreferredDownload
                            ELSE mapNodeState[q].fPreferredDownload

\* The blocks that SendMessages asks p for are entered in the list of p and in
\* mapBlocksInFlight alike; only nodes from which something is in flight stall.
LEMMA RequestStep ==
  ASSUME BlocksInv, NodesInv, FlightInv, NEW p \in Nodes, NEW up, NodeOK(up),
         up.pindexBestKnownBlock # NULL,
         up.vBlocksInFlight = mapNodeState[p].vBlocksInFlight,
         up.fStalling = mapNodeState[p].fStalling,
         Room(mapNodeState[p]) > 0,
         NEW next, next = FindNextBlocksToDownload(p, up, Room(mapNodeState[p])),
         NEW list \in Upwards(next.vBlocks),
         mapNodeState' = Stalls([mapNodeState EXCEPT ![p] = Requested(up, next, list)], p, next),
         mapBlocksInFlight' = [b \in DOMAIN mapBlocksInFlight \cup next.vBlocks |->
                                 IF b \in next.vBlocks THEN p ELSE mapBlocksInFlight[b]],
         UNCHANGED blockVars
  PROVE  BooksKept(p, up)
<1> DEFINE old == mapNodeState[p].vBlocksInFlight
           count == Room(mapNodeState[p])
           r == Requested(up, next, list)
           nodes == [mapNodeState EXCEPT ![p] = r]
<1>1. /\ old \in Seq(Block) /\ Len(old) \in Nat /\ Len(old) <= MaxInTransit /\ IsInjective(old)
      /\ \A b : b \in Range(old) <=> b \in DOMAIN mapBlocksInFlight /\ mapBlocksInFlight[b] = p
  BY ListFacts
<1>2. count \in Nat /\ count = MaxInTransit - Len(old)
  BY <1>1, DownloadAssumption DEF Room
<1>3. /\ next.common \in Block /\ Chain[next.common] \subseteq haveData
      /\ next.vBlocks \subseteq mapBlockIndex \ (haveData \cup DOMAIN mapBlocksInFlight)
      /\ Cardinality(next.vBlocks) \in Nat /\ Cardinality(next.vBlocks) <= count
      /\ \A q \in next.staller : \E b \in DOMAIN mapBlocksInFlight : mapBlocksInFlight[b] = q
  <2> HIDE DEF count
  <2>1. next = FindNextBlocksToDownload(p, up, count)
    BY DEF count
  <2>2. Found(next, count)
    BY <1>2, <2>1, FindNextFacts
  <2> QED BY <2>2 DEF Found
<1>4. next.vBlocks \subseteq Block
  BY <1>3 DEF BlocksInv
<1>5. /\ list \in [1 .. Cardinality(next.vBlocks) -> next.vBlocks]
      /\ IsInjective(list) /\ Range(list) = next.vBlocks
  BY <1>4, UpwardsLists DEF IsInjective
<1>6. list \in Seq(Block) /\ Len(list) = Cardinality(next.vBlocks)
  BY <1>3, <1>4, <1>5
<1>7. /\ old \o list \in Seq(Block) /\ Len(old \o list) = Len(old) + Len(list)
      /\ IsInjective(old \o list)
      /\ Range(old \o list) = Range(old) \cup next.vBlocks
  <2>1. Range(old) \cap Range(list) = {}
    BY <1>1, <1>3, <1>5
  <2> HIDE DEF old
  <2> QED BY <1>1, <1>5, <1>6, <2>1, AppendedList
<1>8. old \o list \in SeqOf(Block, MaxInTransit)
  <2>1. Len(old \o list) <= MaxInTransit
    BY <1>1, <1>2, <1>3, <1>6, <1>7, DownloadAssumption
  <2> QED BY <1>7, <2>1, BoundedLists
<1>9. r = [up EXCEPT !.pindexLastCommonBlock = next.common, !.vBlocksInFlight = old \o list]
  BY DEF Requested
<1>13. mapNodeState' = Stalls(nodes, p, next)
  OBVIOUS
<1> HIDE DEF old, count
<1>10. /\ r \in NodeState /\ (r.fPreferredDownload => r.fVersion)
       /\ r.pindexBestKnownBlock = up.pindexBestKnownBlock
       /\ r.pindexLastCommonBlock = next.common
       /\ r.vBlocksInFlight = old \o list
       /\ r.fStalling = up.fStalling /\ r.fSyncStarted = up.fSyncStarted
       /\ r.fPreferredDownload = up.fPreferredDownload
  <2>1. up \in NodeState /\ (up.fPreferredDownload => up.fVersion)
    BY DEF NodeOK
  <2> HIDE DEF r
  <2> QED BY ONLY <1>3, <1>8, <1>9, <2>1 DEF NodeState
<1> HIDE DEF r
<1>11. DOMAIN nodes = Nodes /\ nodes[p] = r /\ \A q \in Nodes : q # p => nodes[q] = mapNodeState[q]
  BY DEF Nodes
<1>12. \A q \in Nodes : nodes[q] \in NodeState
  BY <1>10, <1>11 DEF NodesInv, NodeOK
<1> HIDE DEF nodes
<1>14. /\ Nodes' = Nodes
       /\ \A q \in Nodes : \/ mapNodeState'[q] = nodes[q]
                           \/ mapNodeState'[q] = [nodes[q] EXCEPT !.fStalling = @ \/ q \in next.staller]
  BY <1>11, <1>13 DEF Stalls, Nodes
<1>15. ASSUME NEW q \in Nodes
       PROVE  /\ mapNodeState'[q] \in NodeState
              /\ mapNodeState'[q].fVersion = nodes[q].fVersion
              /\ mapNodeState'[q].fPreferredDownload = nodes[q].fPreferredDownload
              /\ mapNodeState'[q].fSyncStarted = nodes[q].fSyncStarted
              /\ mapNodeState'[q].pindexBestKnownBlock = nodes[q].pindexBestKnownBlock
              /\ mapNodeState'[q].pindexLastCommonBlock = nodes[q].pindexLastCommonBlock
              /\ mapNodeState'[q].vBlocksInFlight = nodes[q].vBlocksInFlight
              /\ mapNodeState'[q].fStalling => nodes[q].fStalling \/ q \in next.staller
  <2>1. nodes[q] \in NodeState /\ (nodes[q].fStalling \/ q \in next.staller) \in BOOLEAN
    BY <1>12
  <2> QED BY ONLY <1>14, <2>1 DEF NodeState
<1>16. mapBlockIndex' = mapBlockIndex /\ haveData' = haveData
  BY DEF blockVars
<1>17. ASSUME NEW q \in Nodes PROVE NodeOK(mapNodeState[q])'
  <2>1. CASE q = p
    <3>1. /\ mapNodeState'[p] \in NodeState
          /\ mapNodeState'[p].fVersion = r.fVersion
          /\ mapNodeState'[p].fPreferredDownload = r.fPreferredDownload
          /\ mapNodeState'[p].pindexBestKnownBlock = up.pindexBestKnownBlock
          /\ mapNodeState'[p].pindexLastCommonBlock = next.common
      BY ONLY <1>10, <1>11, <1>15
    <3>2. up.pindexBestKnownBlock # NULL => up.pindexBestKnownBlock \in mapBlockIndex
      BY DEF NodeOK
    <3> QED BY ONLY <1>3, <1>10, <1>16, <2>1, <3>1, <3>2 DEF NodeOK
  <2>2. CASE q # p
    <3>1. NodeOK(mapNodeState[q]) /\ nodes[q] = mapNodeState[q]
      BY <1>11, <2>2 DEF NodesInv
    <3> QED BY ONLY <1>15, <1>16, <3>1 DEF NodeOK
  <2> QED BY <2>1, <2>2
<1>18. /\ DOMAIN mapBlocksInFlight' = DOMAIN mapBlocksInFlight \cup next.vBlocks
       /\ \A b \in next.vBlocks : mapBlocksInFlight'[b] = p
       /\ \A b \in DOMAIN mapBlocksInFlight : mapBlocksInFlight'[b] = mapBlocksInFlight[b]
  BY <1>3
<1>19. ASSUME NEW q \in Nodes
       PROVE  /\ IsInjective(mapNodeState'[q].vBlocksInFlight)
              /\ Range(mapNodeState'[q].vBlocksInFlight)
                   = {b \in DOMAIN mapBlocksInFlight' : mapBlocksInFlight'[b] = q}
  <2>1. CASE q = p
    <3>1. mapNodeState'[q].vBlocksInFlight = old \o list
      BY <1>10, <1>11, <1>15, <2>1
    <3>2. Range(old \o list) = {b \in DOMAIN mapBlocksInFlight' : mapBlocksInFlight'[b] = p}
      BY <1>1, <1>3, <1>7, <1>18
    <3> QED BY <1>7, <2>1, <3>1, <3>2
  <2>2. CASE q # p
    <3>1. mapNodeState'[q].vBlocksInFlight = mapNodeState[q].vBlocksInFlight
      BY <1>11, <1>15, <2>2
    <3>2. /\ IsInjective(mapNodeState[q].vBlocksInFlight)
          /\ Range(mapNodeState[q].vBlocksInFlight)
               = {b \in DOMAIN mapBlocksInFlight : mapBlocksInFlight[b] = q}
      BY DEF FlightInv, ListsAgree
    <3> QED BY <1>3, <1>18, <2>2, <3>1, <3>2
  <2> QED BY <2>1, <2>2
<1>20. Range(mapBlocksInFlight') \subseteq Nodes'
  <2> SUFFICES ASSUME NEW b \in DOMAIN mapBlocksInFlight' PROVE mapBlocksInFlight'[b] \in Nodes
    BY <1>14 DEF Range
  <2>1. CASE b \in next.vBlocks
    BY <1>18, <2>1
  <2>2. CASE b \in DOMAIN mapBlocksInFlight
    BY <1>18, <2>2 DEF FlightInv, ListsAgree, Range
  <2> QED BY <1>18, <2>1, <2>2
<1>21. ListsAgree'
  BY <1>14, <1>19, <1>20 DEF ListsAgree
<1>22. ASSUME NEW q \in Nodes, mapNodeState'[q].fStalling
       PROVE  mapNodeState'[q].vBlocksInFlight # <<>>
  <2>1. ASSUME NEW b \in DOMAIN mapBlocksInFlight, mapBlocksInFlight[b] = q
        PROVE  mapNodeState'[q].vBlocksInFlight # <<>>
    <3>1. b \in Range(mapNodeState'[q].vBlocksInFlight)
      BY ONLY <1>18, <1>19, <2>1
    <3>2. PICK n \in DOMAIN mapNodeState'[q].vBlocksInFlight : TRUE
      BY <3>1 DEF Range
    <3>3. DOMAIN <<>> = {}
      OBVIOUS
    <3> QED BY <3>2, <3>3
  <2>2. CASE q \in next.staller
    BY <1>3, <2>1, <2>2
  <2>3. CASE nodes[q].fStalling
    <3>1. mapNodeState[q].fStalling
      BY ONLY <1>10, <1>11, <2>3, up.fStalling = mapNodeState[p].fStalling
    <3>2. mapNodeState[q].vBlocksInFlight \in Seq(Block) /\ mapNodeState[q].vBlocksInFlight # <<>>
      BY <3>1, ListFacts DEF FlightInv, StallerIsBusy
    <3>3. mapNodeState[q].vBlocksInFlight[1] \in Range(mapNodeState[q].vBlocksInFlight)
      BY <3>2 DEF Range
    <3>4. \E b \in DOMAIN mapBlocksInFlight : mapBlocksInFlight[b] = q
      BY ONLY <3>3, NodesInv, FlightInv, ListFacts
    <3> QED BY <2>1, <3>4
  <2> QED BY <1>15, <1>22, <2>2, <2>3
<1>23. StallerIsBusy'
  BY <1>14, <1>22 DEF StallerIsBusy
<1>24. FlightInv'
  BY <1>3, <1>16, <1>18, <1>21, <1>23 DEF FlightInv
<1>25. ASSUME NEW q \in Nodes
       PROVE  /\ mapNodeState'[q].fSyncStarted
                   = IF q = p THEN up.fSyncStarted ELSE mapNodeState[q].fSyncStarted
              /\ mapNodeState'[q].fPreferredDownload
                   = IF q = p THEN up.fPreferredDownload ELSE mapNodeState[q].fPreferredDownload
  <2>1. /\ mapNodeState'[q].fSyncStarted = nodes[q].fSyncStarted
        /\ mapNodeState'[q].fPreferredDownload = nodes[q].fPreferredDownload
    BY <1>15
  <2>2. CASE q = p
    <3>1. /\ nodes[q].fSyncStarted = up.fSyncStarted
          /\ nodes[q].fPreferredDownload = up.fPreferredDownload
      BY ONLY <1>10, <1>11, <2>2
    <3> QED BY ONLY <2>1, <2>2, <3>1
  <2>3. CASE q # p
    <3>1. nodes[q] = mapNodeState[q]
      BY <1>11, <2>3
    <3> QED BY ONLY <2>1, <2>3, <3>1
  <2> QED BY ONLY <2>2, <2>3
<1> QED BY <1>14, <1>17, <1>24, <1>25 DEF BooksKept

\* Counting nodes: nSyncStarted and nPreferredDownload.
SyncNodes == {p \in Nodes : mapNodeState[p].fSyncStarted}
PreferredNodes == {p \in Nodes : mapNodeState[p].fPreferredDownload}

\* The counters as they appear in CountsInv.
LEMMA CountsRead ==
  CountsInv <=>
    /\ {nQueuedValidatedHeaders, nSyncStarted, nPreferredDownload} \subseteq Int
    /\ nSyncStarted = Cardinality(SyncNodes)
    /\ nPreferredDownload = Cardinality(PreferredNodes)
    /\ nQueuedValidatedHeaders >= Cardinality(DOMAIN mapBlocksInFlight)
BY DEF CountsInv, CountsAgree, SyncNodes, PreferredNodes

\* The same after a step.
LEMMA CountsReadNext ==
  ASSUME {nQueuedValidatedHeaders', nSyncStarted', nPreferredDownload'} \subseteq Int,
         nSyncStarted' = Cardinality(SyncNodes'),
         nPreferredDownload' = Cardinality(PreferredNodes'),
         nQueuedValidatedHeaders' >= Cardinality(DOMAIN mapBlocksInFlight')
  PROVE  CountsInv'
BY DEF CountsInv, CountsAgree, SyncNodes, PreferredNodes

\* The sets that are counted are finite.
LEMMA CountedFinite ==
  ASSUME BlocksInv, NodesInv, FlightInv
  PROVE  /\ IsFiniteSet(SyncNodes) /\ IsFiniteSet(PreferredNodes)
         /\ IsFiniteSet(DOMAIN mapBlocksInFlight)
         /\ Cardinality(SyncNodes) \in Nat /\ Cardinality(PreferredNodes) \in Nat
         /\ Cardinality(DOMAIN mapBlocksInFlight) \in Nat
<1>1. SyncNodes \subseteq Nodes /\ PreferredNodes \subseteq Nodes /\ IsFiniteSet(Nodes)
  BY DEF SyncNodes, PreferredNodes, NodesInv
<1>2. DOMAIN mapBlocksInFlight \subseteq Block
  BY DEF BlocksInv, FlightInv
<1> QED BY <1>1, <1>2, TreeAssumption, FS_Subset, FS_CardinalityType

\* InitializeNode
LEMMA InitializeStep ==
  ASSUME IInv, NEW p \in Peer, InitializeNode(p)
  PROVE  NodesInv' /\ FlightInv' /\ CountsInv'
<1>1. /\ p \notin Nodes /\ p \notin closed
      /\ mapNodeState' = [q \in Nodes \cup {p} |-> IF q = p THEN NewNode ELSE mapNodeState[q]]
      /\ UNCHANGED <<blockVars, closed, mapBlocksInFlight, countVars>>
  BY DEF InitializeNode
<1>2. /\ Nodes' = Nodes \cup {p} /\ mapNodeState'[p] = NewNode
      /\ \A q \in Nodes : mapNodeState'[q] = mapNodeState[q]
      /\ mapBlockIndex' = mapBlockIndex /\ haveData' = haveData /\ closed' = closed
      /\ mapBlocksInFlight' = mapBlocksInFlight
  BY <1>1 DEF Nodes, blockVars
<1>3. NewNode \in NodeState /\ ~NewNode.fSyncStarted /\ ~NewNode.fPreferredDownload
      /\ ~NewNode.fStalling /\ NewNode.vBlocksInFlight = <<>>
      /\ NewNode.pindexBestKnownBlock = NULL /\ NewNode.pindexLastCommonBlock = NULL
  <2>1. <<>> \in SeqOf(Block, MaxInTransit)
    <3>1. <<>> \in Seq(Block) /\ Len(<<>>) = 0
      OBVIOUS
    <3>2. 0 <= MaxInTransit
      BY DownloadAssumption
    <3> QED BY <3>1, <3>2, BoundedLists
  <2> QED BY <2>1 DEF NewNode, NodeState
<1>4. NodesInv'
  <2>1. IsFiniteSet(Nodes')
    BY <1>2, FS_AddElement DEF IInv, NodesInv
  <2>2. \A q \in Nodes' : NodeOK(mapNodeState[q])'
    BY <1>2, <1>3 DEF IInv, NodesInv, NodeOK
  <2> QED BY <1>2, <2>1, <2>2 DEF IInv, NodesInv
<1>5. FlightInv'
  <2>1. IsInjective(<<>>) /\ Range(<<>>) = {}
    BY DEF IsInjective, Range
  <2>2. \A b \in DOMAIN mapBlocksInFlight : mapBlocksInFlight[b] # p
    BY <1>1 DEF IInv, FlightInv, ListsAgree, Range
  <2>3. {b \in DOMAIN mapBlocksInFlight : mapBlocksInFlight[b] = p} = {}
    BY <2>2
  <2>4. ListsAgree'
    BY <1>2, <1>3, <2>1, <2>3 DEF IInv, FlightInv, ListsAgree
  <2>5. StallerIsBusy'
    BY <1>2, <1>3 DEF IInv, FlightInv, StallerIsBusy
  <2> QED BY <1>2, <2>4, <2>5 DEF IInv, FlightInv
<1>6. CountsInv'
  <2>1. SyncNodes' = SyncNodes /\ PreferredNodes' = PreferredNodes
    BY <1>2, <1>3 DEF SyncNodes, PreferredNodes
  <2> QED BY <1>1, <2>1, CountsRead DEF IInv, countVars, CountsInv, CountsAgree, SyncNodes, PreferredNodes
<1> QED BY <1>4, <1>5, <1>6

\* "version"
LEMMA VersionStep ==
  ASSUME IInv, NEW p \in Peer, Version(p)
  PROVE  NodesInv' /\ FlightInv' /\ CountsInv'
<1> DEFINE s == mapNodeState[p]
           u == [s EXCEPT !.fVersion = TRUE, !.fPreferredDownload = p \in Preferable]
<1>1. /\ p \in Nodes /\ ~s.fVersion
      /\ mapNodeState' = [mapNodeState EXCEPT ![p] = u]
      /\ nPreferredDownload' = nPreferredDownload + Indicator(p \in Preferable)
      /\ UNCHANGED <<blockVars, closed, mapBlocksInFlight, nQueuedValidatedHeaders, nSyncStarted>>
  BY DEF Version
<1>2. NodeOK(s) /\ s \in NodeState /\ ~s.fPreferredDownload
  BY <1>1 DEF IInv, NodesInv, NodeOK
<1>3. /\ u \in NodeState /\ u.fVersion /\ (u.fPreferredDownload <=> p \in Preferable)
      /\ u.fSyncStarted = s.fSyncStarted
      /\ u.fStalling = s.fStalling /\ u.vBlocksInFlight = s.vBlocksInFlight
      /\ u.pindexBestKnownBlock = s.pindexBestKnownBlock
      /\ u.pindexLastCommonBlock = s.pindexLastCommonBlock
  <2>1. PICK P \in BOOLEAN : P = (p \in Preferable)
    <3>1. CASE p \in Preferable
      <4>1. TRUE = (p \in Preferable) /\ TRUE \in BOOLEAN
        BY <3>1
      <4> QED BY <4>1
    <3>2. CASE p \notin Preferable
      <4>1. FALSE = (p \in Preferable) /\ FALSE \in BOOLEAN
        BY <3>2
      <4> QED BY <4>1
    <3> QED BY <3>1, <3>2
  <2>2. u = [s EXCEPT !.fVersion = TRUE, !.fPreferredDownload = P]
    BY <2>1
  <2> HIDE DEF s, u
  <2>3. /\ u \in NodeState /\ u.fVersion /\ u.fPreferredDownload = P
        /\ u.fSyncStarted = s.fSyncStarted
        /\ u.fStalling = s.fStalling /\ u.vBlocksInFlight = s.vBlocksInFlight
        /\ u.pindexBestKnownBlock = s.pindexBestKnownBlock
        /\ u.pindexLastCommonBlock = s.pindexLastCommonBlock
    BY <1>2, <2>2 DEF NodeState
  <2> QED BY <2>1, <2>3
<1> HIDE DEF u
<1>4. /\ Nodes' = Nodes /\ mapNodeState'[p] = u
      /\ \A q \in Nodes : q # p => mapNodeState'[q] = mapNodeState[q]
      /\ mapBlockIndex' = mapBlockIndex /\ haveData' = haveData
  BY <1>1 DEF Nodes, blockVars
<1>5. NodesInv'
  <2>1. NodeOK(mapNodeState[p])'
    BY <1>2, <1>3, <1>4 DEF NodeOK
  <2>2. \A q \in Nodes' : NodeOK(mapNodeState[q])'
    BY <1>4, <2>1 DEF IInv, NodesInv, NodeOK
  <2> QED BY <1>1, <1>4, <2>2 DEF IInv, NodesInv
<1>6. FlightInv'
  BY <1>1, <1>3, FlightKept DEF IInv
<1>7. CountsInv'
  <2>1. /\ IsFiniteSet(PreferredNodes) /\ Cardinality(PreferredNodes) \in Nat /\ p \notin PreferredNodes
        /\ SyncNodes' = SyncNodes
        /\ PreferredNodes' = PreferredNodes \cup {x \in {p} : p \in Preferable}
    BY <1>1, <1>2, <1>3, <1>4, CountedFinite DEF IInv, SyncNodes, PreferredNodes
  <2>2. (p \in Preferable) \in BOOLEAN
    OBVIOUS
  <2>3. Cardinality(PreferredNodes') = Cardinality(PreferredNodes) + Indicator(p \in Preferable)
    BY <2>1, <2>2, Counted
  <2>4. nPreferredDownload = Cardinality(PreferredNodes) /\ nSyncStarted = Cardinality(SyncNodes)
        /\ nQueuedValidatedHeaders >= Cardinality(DOMAIN mapBlocksInFlight)
        /\ {nQueuedValidatedHeaders, nSyncStarted, nPreferredDownload} \subseteq Int
    BY CountsRead DEF IInv
  <2>5. Indicator(p \in Preferable) \in Int
    BY DEF Indicator
  <2> QED BY <1>1, <2>1, <2>3, <2>4, <2>5, CountsReadNext
<1> QED BY <1>5, <1>6, <1>7

\* SendMessages sets two flags of the node first, and changes nothing else then.
Flagged(s, start, drop) == [s EXCEPT !.fSyncStarted = @ \/ start, !.fDisconnect = @ \/ drop]
LEMMA FlagsSet ==
  ASSUME NodesInv, NEW p \in Nodes, NEW start, NEW drop, NEW now,
         now = Flagged(mapNodeState[p], start, drop)
  PROVE  /\ NodeOK(now) /\ (now.fSyncStarted <=> mapNodeState[p].fSyncStarted \/ start)
         /\ now.fPreferredDownload = mapNodeState[p].fPreferredDownload
         /\ now.fStalling = mapNodeState[p].fStalling
         /\ now.vBlocksInFlight = mapNodeState[p].vBlocksInFlight
<1> DEFINE s == mapNodeState[p]
<1>1. NodeOK(s) /\ s \in NodeState
  BY DEF NodesInv, NodeOK
<1>2. now.fSyncStarted \in BOOLEAN /\ now.fDisconnect \in BOOLEAN
      /\ (now.fSyncStarted <=> s.fSyncStarted \/ start)
  <2> HIDE DEF s
  <2> QED BY <1>1 DEF NodeState, Flagged, s
<1> DEFINE a == now.fSyncStarted
           d == now.fDisconnect
<1>3. now = [s EXCEPT !.fSyncStarted = a, !.fDisconnect = d]
  <2> HIDE DEF s
  <2> QED BY <1>1 DEF NodeState, Flagged, s
<1> HIDE DEF s, a, d
<1>4. now \in NodeState
  BY <1>1, <1>2, <1>3 DEF NodeState, a, d
<1>5. /\ now.fPreferredDownload = s.fPreferredDownload /\ now.fVersion = s.fVersion
      /\ now.fStalling = s.fStalling /\ now.vBlocksInFlight = s.vBlocksInFlight
      /\ now.pindexBestKnownBlock = s.pindexBestKnownBlock
      /\ now.pindexLastCommonBlock = s.pindexLastCommonBlock
  BY <1>1, <1>3 DEF NodeState
<1> QED BY <1>1, <1>2, <1>4, <1>5 DEF NodeOK, s

\* "inv"
LEMMA InvStep ==
  ASSUME IInv, NEW p \in Peer, NEW b \in Block, Inv(p, b)
  PROVE  NodesInv' /\ FlightInv' /\ CountsInv'
<1> DEFINE s == mapNodeState[p]
           u == UpdateBlockAvailability(s, b)
<1>1. /\ p \in Nodes /\ mapNodeState' = [mapNodeState EXCEPT ![p] = u]
      /\ UNCHANGED <<blockVars, closed, mapBlocksInFlight, countVars>>
  BY DEF Inv
<1>2. NodeOK(s)
  BY <1>1 DEF IInv, NodesInv
<1>3. NodeOK(u) /\ KnowsOnly(s, u)
  BY <1>2, Availability DEF IInv
<1> HIDE DEF u
<1>4. /\ Nodes' = Nodes /\ mapNodeState'[p] = u
      /\ \A q \in Nodes : q # p => mapNodeState'[q] = mapNodeState[q]
      /\ mapBlockIndex' = mapBlockIndex /\ haveData' = haveData
  BY <1>1 DEF Nodes, blockVars
<1>5. NodesInv'
  <2>1. \A q \in Nodes' : NodeOK(mapNodeState[q])'
    BY <1>3, <1>4 DEF IInv, NodesInv, NodeOK
  <2> QED BY <1>1, <1>4, <2>1 DEF IInv, NodesInv
<1>6. FlightInv'
  BY <1>1, <1>3, FlightKept DEF IInv, KnowsOnly
<1>7. CountsInv'
  <2>1. SyncNodes' = SyncNodes /\ PreferredNodes' = PreferredNodes
    BY <1>3, <1>4 DEF SyncNodes, PreferredNodes, KnowsOnly
  <2> QED BY <1>1, <2>1 DEF IInv, countVars, CountsInv, CountsAgree, SyncNodes, PreferredNodes
<1> QED BY <1>5, <1>6, <1>7

\* SendMessages, whatever it decides: nothing but the start of the synchronisation
\* and the requests touch the books.
LEMMA SendStep ==
  ASSUME IInv, NEW p \in Peer, NEW fRecent, NEW fStalled, NEW fTimeout,
         SendMessages(p, fRecent, fStalled, fTimeout)
  PROVE  NodesInv' /\ FlightInv' /\ CountsInv'
<1> DEFINE s == mapNodeState[p]
           start == ~s.fSyncStarted /\ p \notin Client /\ Fetch(p) /\ (nSyncStarted = 0 \/ fRecent)
           drop == (s.fStalling /\ fStalled) \/ (s.vBlocksInFlight # <<>> /\ fTimeout)
           now == [s EXCEPT !.fSyncStarted = @ \/ start, !.fDisconnect = @ \/ drop]
           up == ProcessBlockAvailability(now)
           get == ~now.fDisconnect /\ p \notin Client /\ Fetch(p) /\ Room(s) > 0
           Requests ==
             \E next \in {FindNextBlocksToDownload(p, up, Room(s))} :
               /\ \E list \in Upwards(next.vBlocks) :
                    mapNodeState' =
                      Stalls([mapNodeState EXCEPT ![p] = Requested(up, next, list)], p, next)
               /\ mapBlocksInFlight' =
                    [b \in DOMAIN mapBlocksInFlight \cup next.vBlocks |->
                       IF b \in next.vBlocks THEN p ELSE mapBlocksInFlight[b]]
               /\ nQueuedValidatedHeaders' = nQueuedValidatedHeaders + Cardinality(next.vBlocks)
<1>1. /\ p \in Nodes
      /\ nSyncStarted' = nSyncStarted + Indicator(start)
      /\ UNCHANGED <<blockVars, closed, nPreferredDownload>>
      /\ \/ /\ mapNodeState' = [mapNodeState EXCEPT ![p] = now]
            /\ UNCHANGED <<mapBlocksInFlight, nQueuedValidatedHeaders>>
         \/ /\ mapNodeState' = [mapNodeState EXCEPT ![p] = up]
            /\ UNCHANGED <<mapBlocksInFlight, nQueuedValidatedHeaders>>
         \/ get /\ Interesting(up) /\ Requests
  BY DEF SendMessages
<1>2. NodeOK(s) /\ s \in NodeState
  BY <1>1 DEF IInv, NodesInv, NodeOK
<1>3. /\ NodeOK(now) /\ (now.fSyncStarted <=> s.fSyncStarted \/ start)
      /\ now.fPreferredDownload = s.fPreferredDownload
      /\ now.fStalling = s.fStalling /\ now.vBlocksInFlight = s.vBlocksInFlight
  <2>1. NodesInv /\ p \in Nodes
    BY <1>1 DEF IInv
  <2>2. now = Flagged(mapNodeState[p], start, drop)
    BY DEF Flagged
  <2> HIDE DEF start, drop, now
  <2> QED BY ONLY <2>1, <2>2, FlagsSet
<1>4. NodeOK(up) /\ KnowsOnly(now, up)
  <2>1. Genesis \in Block
    BY TreeAssumption
  <2> HIDE DEF now
  <2> QED BY <1>3, <2>1, Availability DEF IInv
<1> HIDE DEF now, up
<1>5. /\ (up.fSyncStarted <=> s.fSyncStarted \/ start) /\ up.fPreferredDownload = s.fPreferredDownload
      /\ up.fStalling = s.fStalling /\ up.vBlocksInFlight = s.vBlocksInFlight
  BY <1>3, <1>4 DEF KnowsOnly
<1>6. start \in BOOLEAN /\ (start => p \notin SyncNodes)
  BY DEF SyncNodes
<1> HIDE DEF start
<1>7. mapBlockIndex' = mapBlockIndex /\ haveData' = haveData
  BY <1>1 DEF blockVars
<1>8. ASSUME Nodes' = Nodes, \A q \in Nodes : NodeOK(mapNodeState[q])', FlightInv',
             \A q \in Nodes : q # p =>
               /\ mapNodeState'[q].fSyncStarted = mapNodeState[q].fSyncStarted
               /\ mapNodeState'[q].fPreferredDownload = mapNodeState[q].fPreferredDownload,
             mapNodeState'[p].fSyncStarted <=> s.fSyncStarted \/ start,
             mapNodeState'[p].fPreferredDownload = s.fPreferredDownload,
             nQueuedValidatedHeaders' \in Int,
             nQueuedValidatedHeaders' >= Cardinality(DOMAIN mapBlocksInFlight')
      PROVE  NodesInv' /\ FlightInv' /\ CountsInv'
  <2>1. NodesInv'
    BY <1>1, <1>8 DEF IInv, NodesInv
  <2>2. SyncNodes' = SyncNodes \cup {x \in {p} : start}
    BY <1>1, <1>8 DEF SyncNodes
  <2>3. PreferredNodes' = PreferredNodes
    BY <1>8 DEF PreferredNodes
  <2>4. IsFiniteSet(SyncNodes)
    BY CountedFinite DEF IInv
  <2>5. Cardinality(SyncNodes') = Cardinality(SyncNodes) + Indicator(start)
    BY <1>6, <2>2, <2>4, Counted
  <2>6. nPreferredDownload = Cardinality(PreferredNodes) /\ nSyncStarted = Cardinality(SyncNodes)
        /\ {nQueuedValidatedHeaders, nSyncStarted, nPreferredDownload} \subseteq Int
    BY CountsRead DEF IInv
  <2>7. Indicator(start) \in Int
    BY DEF Indicator
  <2>8. nPreferredDownload' = nPreferredDownload
    BY <1>1
  <2>9. CountsInv'
    BY <1>1, <1>8, <2>3, <2>5, <2>6, <2>7, <2>8, CountsReadNext
  <2> QED BY <1>8, <2>1, <2>9
<1>9. ASSUME NEW u, u = now \/ u = up, mapNodeState' = [mapNodeState EXCEPT ![p] = u],
             UNCHANGED <<mapBlocksInFlight, nQueuedValidatedHeaders>>
      PROVE  NodesInv' /\ FlightInv' /\ CountsInv'
  <2>1. /\ NodeOK(u) /\ (u.fSyncStarted <=> s.fSyncStarted \/ start)
        /\ u.fPreferredDownload = s.fPreferredDownload
        /\ u.fStalling = s.fStalling /\ u.vBlocksInFlight = s.vBlocksInFlight
    BY <1>3, <1>4, <1>5, <1>9
  <2>2. /\ Nodes' = Nodes /\ mapNodeState'[p] = u
        /\ \A q \in Nodes : q # p => mapNodeState'[q] = mapNodeState[q]
    BY <1>1, <1>9 DEF Nodes
  <2>3. \A q \in Nodes : NodeOK(mapNodeState[q])'
    BY <1>7, <2>1, <2>2 DEF IInv, NodesInv, NodeOK
  <2>4. FlightInv'
    <3>1. UNCHANGED <<blockVars, mapBlocksInFlight>>
      BY <1>1, <1>9
    <3>2. FlightInv /\ p \in Nodes
      BY <1>1 DEF IInv
    <3>3. /\ u.vBlocksInFlight = mapNodeState[p].vBlocksInFlight
          /\ u.fStalling = mapNodeState[p].fStalling
      BY <2>1
    <3> QED BY ONLY <1>9, <3>1, <3>2, <3>3, FlightKept
  <2>5. nQueuedValidatedHeaders' \in Int
        /\ nQueuedValidatedHeaders' >= Cardinality(DOMAIN mapBlocksInFlight')
    BY <1>9, CountsRead DEF IInv
  <2> QED BY <1>8, <2>1, <2>2, <2>3, <2>4, <2>5
<1>10. ASSUME get, Interesting(up), Requests PROVE NodesInv' /\ FlightInv' /\ CountsInv'
  <2>1. PICK next :
          /\ next = FindNextBlocksToDownload(p, up, Room(s))
          /\ \E list \in Upwards(next.vBlocks) :
               mapNodeState' =
                 Stalls([mapNodeState EXCEPT ![p] = Requested(up, next, list)], p, next)
          /\ mapBlocksInFlight' = [b \in DOMAIN mapBlocksInFlight \cup next.vBlocks |->
                                     IF b \in next.vBlocks THEN p ELSE mapBlocksInFlight[b]]
          /\ nQueuedValidatedHeaders' = nQueuedValidatedHeaders + Cardinality(next.vBlocks)
    BY <1>10
  <2>0. PICK list \in Upwards(next.vBlocks) :
          mapNodeState' = Stalls([mapNodeState EXCEPT ![p] = Requested(up, next, list)], p, next)
    BY <2>1
  <2>2. up.pindexBestKnownBlock # NULL /\ Room(s) > 0
    BY <1>10 DEF Interesting
  <2>3. UNCHANGED blockVars
    BY <1>1
  <2>4. BooksKept(p, up)
    <3>1. /\ BlocksInv /\ NodesInv /\ FlightInv /\ p \in Nodes
          /\ up.vBlocksInFlight = mapNodeState[p].vBlocksInFlight
          /\ up.fStalling = mapNodeState[p].fStalling
      BY <1>1, <1>5 DEF IInv
    <3> QED BY ONLY <1>4, <2>1, <2>0, <2>2, <2>3, <3>1, RequestStep
  <2>5. Found(next, Room(s))
    <3>1. Len(s.vBlocksInFlight) \in Nat
      BY <1>1, ListFacts DEF IInv
    <3>2. Room(s) \in Nat
      BY <2>2, <3>1, DownloadAssumption DEF Room
    <3> QED BY <1>4, <2>1, <2>2, <3>2, FindNextFacts DEF IInv
  <2>6. Cardinality(DOMAIN mapBlocksInFlight')
          = Cardinality(DOMAIN mapBlocksInFlight) + Cardinality(next.vBlocks)
        /\ Cardinality(next.vBlocks) \in Nat
    <3>1. DOMAIN mapBlocksInFlight' = DOMAIN mapBlocksInFlight \cup next.vBlocks
      BY <2>1
    <3>2. DOMAIN mapBlocksInFlight \cap next.vBlocks = {}
      BY <2>5 DEF Found
    <3>3. IsFiniteSet(next.vBlocks) /\ IsFiniteSet(DOMAIN mapBlocksInFlight)
      BY <2>5, TreeAssumption, FS_Subset DEF Found, IInv, BlocksInv, FlightInv
    <3>4. Cardinality(DOMAIN mapBlocksInFlight \cup next.vBlocks)
            = Cardinality(DOMAIN mapBlocksInFlight) + Cardinality(next.vBlocks)
              - Cardinality(DOMAIN mapBlocksInFlight \cap next.vBlocks)
      BY <3>3, FS_Union
    <3>5. Cardinality({}) = 0 /\ Cardinality(DOMAIN mapBlocksInFlight) \in Nat
          /\ Cardinality(next.vBlocks) \in Nat
      BY <3>3, FS_EmptySet, FS_CardinalityType
    <3>6. Cardinality(DOMAIN mapBlocksInFlight \cap next.vBlocks) = 0
      BY <3>2, <3>5
    <3> QED BY <3>1, <3>4, <3>5, <3>6
  <2>7. nQueuedValidatedHeaders' \in Int
        /\ nQueuedValidatedHeaders' >= Cardinality(DOMAIN mapBlocksInFlight')
    <3>1. nQueuedValidatedHeaders \in Int
          /\ nQueuedValidatedHeaders >= Cardinality(DOMAIN mapBlocksInFlight)
          /\ Cardinality(DOMAIN mapBlocksInFlight) \in Nat
      BY CountsRead, CountedFinite DEF IInv
    <3>2. nQueuedValidatedHeaders' = nQueuedValidatedHeaders + Cardinality(next.vBlocks)
      BY <2>1
    <3> QED BY <2>6, <3>1, <3>2
  <2>8. /\ \A q \in Nodes : q # p =>
             /\ mapNodeState'[q].fSyncStarted = mapNodeState[q].fSyncStarted
             /\ mapNodeState'[q].fPreferredDownload = mapNodeState[q].fPreferredDownload
        /\ mapNodeState'[p].fSyncStarted <=> s.fSyncStarted \/ start
        /\ mapNodeState'[p].fPreferredDownload = s.fPreferredDownload
    BY <1>1, <1>5, <2>4 DEF BooksKept
  <2> QED BY <1>8, <2>4, <2>7, <2>8 DEF BooksKept
<1> QED BY <1>1, <1>9, <1>10

\* A block arrives, from a peer or by RPC, and is taken or refused.
LEMMA ArrivalStep ==
  ASSUME IInv, [Next]_vars, NEW b \in Block, ProcessNewBlock(b)
  PROVE  NodesInv' /\ FlightInv' /\ CountsInv'
<1>1. MarkBlockAsReceived(b) /\ UNCHANGED <<closed, nSyncStarted, nPreferredDownload>>
  BY DEF ProcessNewBlock
<1>2. /\ Nodes' = Nodes
      /\ DOMAIN mapBlocksInFlight' = DOMAIN mapBlocksInFlight \ {b}
      /\ ListsAgree' /\ StallerIsBusy'
      /\ \A p \in Nodes :
           /\ mapNodeState'[p] \in NodeState
           /\ mapNodeState'[p].fVersion = mapNodeState[p].fVersion
           /\ mapNodeState'[p].fPreferredDownload = mapNodeState[p].fPreferredDownload
           /\ mapNodeState'[p].fSyncStarted = mapNodeState[p].fSyncStarted
           /\ mapNodeState'[p].pindexBestKnownBlock = mapNodeState[p].pindexBestKnownBlock
           /\ mapNodeState'[p].pindexLastCommonBlock = mapNodeState[p].pindexLastCommonBlock
      /\ nQueuedValidatedHeaders' \in Int
      /\ nQueuedValidatedHeaders' >= Cardinality(DOMAIN mapBlocksInFlight')
  BY <1>1, ReceivedStep DEF IInv
<1>3. mapBlockIndex \subseteq mapBlockIndex' /\ haveData \subseteq haveData'
  BY BlocksStep DEF IInv
<1>4. haveData' \subseteq haveData \cup {b}
  BY DEF ProcessNewBlock, blockVars, RefusedLate, Taken
<1>5. \A p \in Nodes' : NodeOK(mapNodeState[p])'
  BY <1>2, <1>3 DEF IInv, NodesInv, NodeOK
<1>6. NodesInv'
  BY <1>1, <1>2, <1>5 DEF IInv, NodesInv
<1>7. FlightInv'
  BY <1>2, <1>3, <1>4 DEF IInv, FlightInv
<1>8. SyncNodes' = SyncNodes /\ PreferredNodes' = PreferredNodes
  BY <1>2 DEF SyncNodes, PreferredNodes
<1>9. CountsInv'
  BY <1>1, <1>2, <1>8, CountsRead, CountsReadNext DEF IInv
<1> QED BY <1>6, <1>7, <1>9

\* FinalizeNode takes what the node counted for out of the counters.
LEMMA FinalizeStep ==
  ASSUME IInv, NEW p \in Peer, FinalizeNode(p)
  PROVE  NodesInv' /\ FlightInv' /\ CountsInv'
<1> DEFINE s == mapNodeState[p]
           rest == DOMAIN mapBlocksInFlight \ Range(s.vBlocksInFlight)
<1>1. /\ p \in Nodes
      /\ mapNodeState' = [q \in Nodes \ {p} |-> mapNodeState[q]]
      /\ closed' = closed \cup {p}
      /\ mapBlocksInFlight' = [b \in rest |-> mapBlocksInFlight[b]]
      /\ nSyncStarted' = nSyncStarted - Indicator(s.fSyncStarted)
      /\ nPreferredDownload' = nPreferredDownload - Indicator(s.fPreferredDownload)
      /\ UNCHANGED <<blockVars, nQueuedValidatedHeaders>>
  BY DEF FinalizeNode, Restrict, Dropped, Reduced, LessPreferred
<1>2. /\ Nodes' = Nodes \ {p}
      /\ \A q \in Nodes' : mapNodeState'[q] = mapNodeState[q]
      /\ mapBlockIndex' = mapBlockIndex /\ haveData' = haveData
  BY <1>1 DEF Nodes, blockVars
<1>3. /\ DOMAIN mapBlocksInFlight' = {b \in DOMAIN mapBlocksInFlight : mapBlocksInFlight[b] # p}
      /\ \A b \in DOMAIN mapBlocksInFlight' : mapBlocksInFlight'[b] = mapBlocksInFlight[b]
  <2>1. \A b : b \in Range(s.vBlocksInFlight)
                 <=> b \in DOMAIN mapBlocksInFlight /\ mapBlocksInFlight[b] = p
    BY <1>1, ListFacts DEF IInv
  <2> QED BY <1>1, <2>1
<1>4. NodesInv'
  <2>1. IsFiniteSet(Nodes')
    BY <1>2, FS_RemoveElement DEF IInv, NodesInv
  <2>2. \A q \in Nodes' : NodeOK(mapNodeState[q])'
    BY <1>2 DEF IInv, NodesInv, NodeOK
  <2> QED BY <1>1, <1>2, <2>1, <2>2 DEF IInv, NodesInv
<1>5. FlightInv'
  <2>1. ASSUME NEW q \in Nodes'
        PROVE  /\ IsInjective(mapNodeState'[q].vBlocksInFlight)
               /\ Range(mapNodeState'[q].vBlocksInFlight)
                    = {b \in DOMAIN mapBlocksInFlight' : mapBlocksInFlight'[b] = q}
    <3>1. /\ IsInjective(mapNodeState[q].vBlocksInFlight)
          /\ Range(mapNodeState[q].vBlocksInFlight)
               = {b \in DOMAIN mapBlocksInFlight : mapBlocksInFlight[b] = q}
      BY <1>2 DEF IInv, FlightInv, ListsAgree
    <3>2. {b \in DOMAIN mapBlocksInFlight : mapBlocksInFlight[b] = q}
            = {b \in DOMAIN mapBlocksInFlight' : mapBlocksInFlight'[b] = q}
      BY <1>2, <1>3
    <3> QED BY <1>2, <3>1, <3>2
  <2>2. ASSUME NEW b \in DOMAIN mapBlocksInFlight' PROVE mapBlocksInFlight'[b] \in Nodes'
    BY <1>2, <1>3 DEF IInv, FlightInv, ListsAgree, Range
  <2>3. Range(mapBlocksInFlight') \subseteq Nodes'
    BY <2>2 DEF Range
  <2>4. ListsAgree'
    BY <2>1, <2>3 DEF ListsAgree
  <2>5. StallerIsBusy'
    BY <1>2 DEF IInv, FlightInv, StallerIsBusy
  <2> QED BY <1>2, <1>3, <2>4, <2>5 DEF IInv, FlightInv
<1>6. CountsInv'
  <2>1. /\ IsFiniteSet(SyncNodes) /\ IsFiniteSet(PreferredNodes)
        /\ IsFiniteSet(DOMAIN mapBlocksInFlight)
        /\ Cardinality(SyncNodes) \in Nat /\ Cardinality(PreferredNodes) \in Nat
        /\ Cardinality(DOMAIN mapBlocksInFlight) \in Nat
    BY CountedFinite DEF IInv
  <2>2. /\ SyncNodes' = SyncNodes \ {p} /\ (s.fSyncStarted <=> p \in SyncNodes)
        /\ PreferredNodes' = PreferredNodes \ {p} /\ (s.fPreferredDownload <=> p \in PreferredNodes)
    BY <1>1, <1>2 DEF SyncNodes, PreferredNodes
  <2>3. s.fSyncStarted \in BOOLEAN /\ s.fPreferredDownload \in BOOLEAN
    BY <1>1 DEF IInv, NodesInv, NodeOK, NodeState
  <2>4. Cardinality(SyncNodes') = Cardinality(SyncNodes) - Indicator(s.fSyncStarted)
    BY <2>1, <2>2, <2>3, Counted
  <2>5. Cardinality(PreferredNodes') = Cardinality(PreferredNodes) - Indicator(s.fPreferredDownload)
    BY <2>1, <2>2, <2>3, Counted
  <2>6. Indicator(s.fSyncStarted) \in Int /\ Indicator(s.fPreferredDownload) \in Int
    BY DEF Indicator
  <2>7. /\ Cardinality(DOMAIN mapBlocksInFlight') \in Nat
        /\ Cardinality(DOMAIN mapBlocksInFlight') <= Cardinality(DOMAIN mapBlocksInFlight)
    <3>1. DOMAIN mapBlocksInFlight' \subseteq DOMAIN mapBlocksInFlight
      BY <1>3
    <3> QED BY <2>1, <3>1, FS_Subset, FS_CardinalityType
  <2>8. /\ {nQueuedValidatedHeaders, nSyncStarted, nPreferredDownload} \subseteq Int
        /\ nSyncStarted = Cardinality(SyncNodes)
        /\ nPreferredDownload = Cardinality(PreferredNodes)
        /\ nQueuedValidatedHeaders >= Cardinality(DOMAIN mapBlocksInFlight)
    BY CountsRead DEF IInv
  <2>9. /\ nSyncStarted' = nSyncStarted - Indicator(s.fSyncStarted)
        /\ nPreferredDownload' = nPreferredDownload - Indicator(s.fPreferredDownload)
        /\ nQueuedValidatedHeaders' = nQueuedValidatedHeaders
    BY <1>1
  <2> HIDE DEF s
  <2> QED BY <2>1, <2>4, <2>5, <2>6, <2>7, <2>8, <2>9, CountsReadNext
<1> QED BY <1>4, <1>5, <1>6

\* Every step keeps the invariant.
LEMMA StepKeeps ==
  ASSUME IInv, [Next]_vars
  PROVE  IInv'
<1>1. BlocksInv'
  BY BlocksStep DEF IInv
<1>2. NodesInv' /\ FlightInv' /\ CountsInv'
  <2>1. ASSUME NEW p \in Peer, InitializeNode(p) PROVE NodesInv' /\ FlightInv' /\ CountsInv'
    BY <2>1, InitializeStep
  <2>2. ASSUME NEW p \in Peer, Version(p) PROVE NodesInv' /\ FlightInv' /\ CountsInv'
    BY <2>2, VersionStep
  <2>3. ASSUME NEW p \in Peer, SendAny(p) PROVE NodesInv' /\ FlightInv' /\ CountsInv'
    <3>1. PICK r, s, t : SendMessages(p, r, s, t)
      BY <2>3 DEF SendAny
    <3> QED BY <3>1, SendStep
  <2>4. ASSUME NEW p \in Peer, FinalizeNode(p) PROVE NodesInv' /\ FlightInv' /\ CountsInv'
    BY <2>4, FinalizeStep
  <2>5. ASSUME NEW p \in Peer, NEW b \in Block \ {Genesis}, Inv(p, b)
        PROVE  NodesInv' /\ FlightInv' /\ CountsInv'
    BY <2>5, InvStep
  <2>6. ASSUME NEW b \in Block \ {Genesis}, SubmitBlock(b) \/ \E p \in Peer : ReceiveBlock(p, b)
        PROVE  NodesInv' /\ FlightInv' /\ CountsInv'
    <3>1. ProcessNewBlock(b)
      BY <2>6 DEF SubmitBlock, ReceiveBlock
    <3> QED BY <3>1, ArrivalStep
  <2>7. CASE UNCHANGED vars
    <3>1. NodesInv'
      BY <2>7 DEF vars, blockVars, IInv, NodesInv, Nodes, NodeOK
    <3>2. FlightInv'
      BY <2>7 DEF vars, blockVars, IInv, FlightInv, ListsAgree, StallerIsBusy, Nodes
    <3>3. CountsInv'
      BY <2>7 DEF vars, countVars, IInv, CountsInv, CountsAgree, Nodes
    <3> QED BY <3>1, <3>2, <3>3
  <2> QED BY <2>1, <2>2, <2>3, <2>4, <2>5, <2>6, <2>7 DEF Next
<1> QED BY <1>1, <1>2 DEF IInv

\* What SendMessages asks for can be connected when it and what is asked for
\* already has come.
LEMMA AskedInOrder ==
  ASSUME IInv, NEW p \in Peer, NEW fRecent, NEW fStalled, NEW fTimeout,
         SendMessages(p, fRecent, fStalled, fTimeout),
         NEW b \in DOMAIN mapBlocksInFlight', b \notin DOMAIN mapBlocksInFlight
  PROVE  /\ Chain[b] \subseteq haveData \cup DOMAIN mapBlocksInFlight'
         /\ Chain[b] \cap failed = {}
<1> DEFINE s == mapNodeState[p]
           start == ~s.fSyncStarted /\ p \notin Client /\ Fetch(p) /\ (nSyncStarted = 0 \/ fRecent)
           drop == (s.fStalling /\ fStalled) \/ (s.vBlocksInFlight # <<>> /\ fTimeout)
           now == [s EXCEPT !.fSyncStarted = @ \/ start, !.fDisconnect = @ \/ drop]
           up == ProcessBlockAvailability(now)
<1>1. /\ p \in Nodes
      /\ \/ mapBlocksInFlight' = mapBlocksInFlight
         \/ /\ Room(s) > 0 /\ Interesting(up)
            /\ \E next \in {FindNextBlocksToDownload(p, up, Room(s))} :
                 mapBlocksInFlight' = [c \in DOMAIN mapBlocksInFlight \cup next.vBlocks |->
                                         IF c \in next.vBlocks THEN p ELSE mapBlocksInFlight[c]]
  BY DEF SendMessages
<1>2. Room(s) > 0 /\ Interesting(up)
  BY <1>1
<1>3. PICK next : /\ next = FindNextBlocksToDownload(p, up, Room(s))
                  /\ DOMAIN mapBlocksInFlight' = DOMAIN mapBlocksInFlight \cup next.vBlocks
  BY <1>1
<1>4. NodeOK(up)
  <2>1. NodeOK(now)
    <3>1. NodesInv /\ p \in Nodes
      BY <1>1 DEF IInv
    <3>2. now = Flagged(mapNodeState[p], start, drop)
      BY DEF Flagged
    <3> HIDE DEF start, drop, now
    <3> QED BY ONLY <3>1, <3>2, FlagsSet
  <2>2. Genesis \in Block
    BY TreeAssumption
  <2> HIDE DEF now
  <2> QED BY <2>1, <2>2, Availability DEF IInv
<1>5. Room(s) \in Nat
  <2>1. Len(s.vBlocksInFlight) \in Nat
    BY <1>1, ListFacts DEF IInv
  <2> QED BY <1>2, <2>1, DownloadAssumption DEF Room
<1>6. up.pindexBestKnownBlock # NULL
  BY <1>2 DEF Interesting
<1> HIDE DEF s, now, up
<1>7. Found(next, Room(s))
  BY <1>3, <1>4, <1>5, <1>6, FindNextFacts DEF IInv
<1>8. b \in next.vBlocks
  BY <1>3
<1> QED BY <1>3, <1>7, <1>8 DEF Found

-----------------------------------------------------------------------------
(***************************************************************************)
(* Theorems.                                                               *)
(***************************************************************************)

\* The inductive invariant of the download, whatever peers, operators and blocks
\* do to InitializeNode, ProcessMessage, SendMessages and FinalizeNode.
THEOREM Invariance == Spec => []IInv
<1>1. Init => IInv
  BY InitCorrect
<1>2. IInv /\ [Next]_vars => IInv'
  BY StepKeeps
<1> QED BY <1>1, <1>2, PTL DEF Spec

\* The fields of CNodeState and the maps keep their types; a peer is never asked
\* for more than MAX_BLOCKS_IN_TRANSIT_PER_PEER blocks at a time.
THEOREM TypesCorrect == Spec => []TypeOK
<1>1. ASSUME IInv PROVE TypeOK
  BY <1>1 DEF IInv, BlocksInv, NodesInv, NodeOK, FlightInv, TypeOK
<1>2. IInv => TypeOK
  BY <1>1
<1> QED BY <1>2, Invariance, PTL

\* mapBlocksInFlight, the lists and flags of the nodes and the counters agree
\* (BooksAgree), for any number of peers.
THEOREM BooksCorrect == Spec => []BooksAgree
<1>1. IInv => BooksAgree
  BY DEF IInv, FlightInv, CountsInv, BooksAgree
<1> QED BY <1>1, Invariance, PTL

\* FindNextBlocksToDownload asks for nothing above a gap or an invalid block
\* (RequestsInOrder), whatever branches the peers change to.
THEOREM OrderCorrect == Spec => RequestsInOrder
<1> DEFINE InOrder(b) == /\ Chain[b] \subseteq haveData \cup DOMAIN mapBlocksInFlight'
                         /\ Chain[b] \cap failed = {}
<1>1. ASSUME IInv, [Next]_vars PROVE \A b \in Asked : InOrder(b)
  <2> SUFFICES ASSUME NEW b \in Asked PROVE InOrder(b)
    OBVIOUS
  <2>1. b \in DOMAIN mapBlocksInFlight' /\ b \notin DOMAIN mapBlocksInFlight
    BY DEF Asked
  <2>2. ASSUME NEW p \in Peer, SendAny(p) PROVE InOrder(b)
    <3>1. PICK fRecent, fStalled, fTimeout : SendMessages(p, fRecent, fStalled, fTimeout)
      BY <2>2 DEF SendAny
    <3> QED BY <1>1, <2>1, <3>1, AskedInOrder
  <2>3. ASSUME NEW p \in Peer, InitializeNode(p) \/ Version(p) PROVE FALSE
    BY <2>1, <2>3 DEF InitializeNode, Version
  <2>4. ASSUME NEW p \in Peer, FinalizeNode(p) PROVE FALSE
    BY <2>1, <2>4 DEF FinalizeNode, Restrict
  <2>5. ASSUME NEW p \in Peer, NEW c \in Block, Inv(p, c) PROVE FALSE
    BY <2>1, <2>5 DEF Inv
  <2>6. ASSUME NEW c \in Block, ProcessNewBlock(c) PROVE FALSE
    BY <2>1, <2>6 DEF ProcessNewBlock, MarkBlockAsReceived, Restrict
  <2>7. CASE UNCHANGED vars
    BY <2>1, <2>7 DEF vars
  <2> QED BY <1>1, <2>2, <2>3, <2>4, <2>5, <2>6, <2>7 DEF Next, ReceiveBlock, SubmitBlock
<1>2. IInv /\ [Next]_vars => [\A b \in Asked : InOrder(b)]_vars
  BY <1>1
<1> QED BY <1>2, Invariance, PTL DEF Spec, RequestsInOrder
=============================================================================
